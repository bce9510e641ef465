----------------------------- MODULE PostIndex -----------------------------
(***************************************************************************)
(* What the station promises about its post index, without threads, locks  *)
(* or files: every operation of the owner changes the index in one step    *)
(* and by exactly what it asked for, and what the world sees is always the *)
(* index as it was at some moment, moving forward only to the index as it  *)
(* is.                                                                     *)
(***************************************************************************)
EXTENDS Naturals

CONSTANTS Clients,   \* client buckets
          Fields     \* fields of a client profile

VARIABLES index,     \* the posts listed
          profile,   \* the profile fields set, by client
          published, \* the copy the world can read
          removed,   \* the entries the owner had removed
          nextId     \* ids below it have been used

vars == <<index, profile, published, removed, nextId>>

Init ==
  /\ index = {} /\ removed = {}
  /\ profile = [c \in Clients |-> {}]
  /\ published = [posts |-> {}, profile |-> [c \in Clients |-> {}]]
  /\ nextId = 1

(* What the row says is the caller's business; its id is the next one. *)
Add(e) ==
  /\ e.id = nextId
  /\ index' = index \cup {e}
  /\ nextId' = nextId + 1
  /\ UNCHANGED <<profile, published, removed>>

Remove(e) ==
  /\ e \in index
  /\ index' = index \ {e}
  /\ removed' = removed \cup {e}
  /\ UNCHANGED <<profile, published, nextId>>

SetProfile(c, fields) ==
  /\ profile' = [profile EXCEPT ![c] = @ \cup fields]
  /\ UNCHANGED <<index, published, removed, nextId>>

(* Envelopes are sealed anew: every row keeps all but its env. *)
Resealed(old, new) ==
  /\ \A e \in new : \E f \in old : e = [f EXCEPT !.env = e.env]
  /\ \A f \in old : \E e \in new : e = [f EXCEPT !.env = e.env]

Reseal ==
  /\ Resealed(index, index')
  /\ UNCHANGED <<profile, published, removed, nextId>>

Publish ==
  /\ published' = [posts |-> index, profile |-> profile]
  /\ UNCHANGED <<index, profile, removed, nextId>>

Next ==
  \/ \E e \in index' : Add(e)
  \/ \E e \in index : Remove(e)
  \/ \E c \in Clients, fields \in SUBSET Fields : SetProfile(c, fields)
  \/ Reseal
  \/ Publish

Spec == Init /\ [][Next]_vars

=============================================================================
