------------------------------- MODULE Devices -------------------------------
(***************************************************************************)
(* The followers table, one row per device.  Follow requests arrive without *)
(* a signature and are handled on the event loop, one at a time: the rows of *)
(* the follower are read once and the devices of the request are added one  *)
(* by one, a commit each.  Meanwhile the owner approves and removes         *)
(* devices, or all devices of a follower, on the threads of the pool.       *)
(*                                                                         *)
(* What a grant or a removal makes of envelopes and graph is in PostStore.  *)
(***************************************************************************)
EXTENDS Naturals, FiniteSets, Sequences

CONSTANTS
  Followers,     \* uids of other people
  Devices,       \* device uids; a request of the old form names one, the uid
  Keys,          \* content keys
  NoRow,         \* no such row
  Malformed,     \* an entry without a device or with a key of the wrong length
  Cap,           \* MAX_DEVICES_PER_FOLLOWER
  AutoAccept,    \* whether DEV_AUTO_ACCEPT_FOLLOWS is set
  MaxEntries,    \* bound: devices a request names
  MaxRequests    \* bound: requests, approvals and removals

ASSUME DevicesTypes ==
  /\ IsFiniteSet(Devices)
  /\ {Cap, MaxEntries, MaxRequests} \subseteq Nat
  /\ AutoAccept \in BOOLEAN
  /\ NoRow \notin [key : Keys, allowed : {"Pending", "Allowed"}]
  /\ Malformed \notin [device : Devices, key : Keys]

Row == [key : Keys, allowed : {"Pending", "Allowed"}]
Entry == [device : Devices, key : Keys] \cup {Malformed}

Message ==   \* one being handled; NoMessage when the event loop is free
  [uid : Followers, todo : Seq(Entry), existing : SUBSET Devices, added : SUBSET Devices, additions : Nat]
NoMessage == [todo |-> <<>>]

VARIABLES
  rows,       \* follower -> device -> row or NoRow
  message,    \* the request being handled
  requests    \* requests begun, for the bound

vars == <<rows, message, requests>>

Init ==
  /\ rows = [f \in Followers |-> [d \in Devices |-> NoRow]]
  /\ message = NoMessage
  /\ requests = 0

Registered(f) == {d \in Devices : rows[f][d] # NoRow}

Count == requests < MaxRequests /\ requests' = requests + 1

----------------------------------------------------------------------------
(* process_inbox_message; the station's own uid is refused, so no other     *)
(* rows than followers' are ever touched.                                   *)

FollowRequest(f, entries) ==
  /\ message = NoMessage /\ entries # <<>>
  /\ Count
  /\ message' = [uid |-> f, todo |-> entries, existing |-> Registered(f), added |-> {}, additions |-> 0]
  /\ UNCHANGED rows

NextEntry == Head(message.todo)

Done == message' = NoMessage

Skip ==
  message' = IF Len(message.todo) = 1 THEN NoMessage
             ELSE [message EXCEPT !.todo = Tail(@)]

Busy == message # NoMessage

ForgetfulMutant == FALSE   \* mutant: a device already registered is registered again
Known == NextEntry.device \in message.existing

(* A malformed entry ends the request, and so does a database that stays    *)
(* locked; what was added before stays.                                     *)
Refuse ==
  /\ Busy /\ (NextEntry # Malformed => ~Known)
  /\ Done
  /\ UNCHANGED <<rows, requests>>

AlreadyKnown ==
  /\ Busy /\ NextEntry # Malformed
  /\ Known
  /\ Skip
  /\ UNCHANGED <<rows, requests>>

StaleCountMutant == Cardinality(message.existing)   \* mutant: the request's own additions do not count
Counted == Cardinality(message.existing) + message.additions

TooMany ==
  /\ Busy /\ NextEntry # Malformed
  /\ ~Known /\ Counted >= Cap
  /\ Done
  /\ UNCHANGED <<rows, requests>>

(* INSERT OR REPLACE, committed. *)
AddDevice ==
  /\ Busy /\ NextEntry # Malformed
  /\ ~Known /\ Counted < Cap
  /\ rows' = [rows EXCEPT ![message.uid][NextEntry.device] =
                [key |-> NextEntry.key, allowed |-> IF AutoAccept THEN "Allowed" ELSE "Pending"]]
  /\ message' = IF Len(message.todo) = 1 THEN NoMessage
                ELSE [message EXCEPT !.todo = Tail(@), !.added = @ \cup {NextEntry.device}, !.additions = @ + 1]
  /\ UNCHANGED requests

----------------------------------------------------------------------------
(* The owner, while a request is being handled or not.  ds is one device,   *)
(* or all of them when the call names none.                                 *)

Approve(f, ds) ==
  /\ ds \cap Registered(f) # {}
  /\ Count
  /\ rows' = [rows EXCEPT ![f] = [d \in Devices |->
                IF d \in ds \cap Registered(f) THEN [rows[f][d] EXCEPT !.allowed = "Allowed"] ELSE rows[f][d]]]
  /\ UNCHANGED message

Remove(f, ds) ==
  /\ ds \cap Registered(f) # {}
  /\ Count
  /\ rows' = [rows EXCEPT ![f] = [d \in Devices |-> IF d \in ds THEN NoRow ELSE rows[f][d]]]
  /\ UNCHANGED message

Entries == UNION {[1..n -> Entry] : n \in 1..MaxEntries}
Named == {{d} : d \in Devices} \cup {Devices}

Next ==
  \/ \E f \in Followers, entries \in Entries : FollowRequest(f, entries)
  \/ Refuse \/ AlreadyKnown \/ TooMany \/ AddDevice
  \/ \E f \in Followers, ds \in Named : Approve(f, ds) \/ Remove(f, ds)

Spec == Init /\ [][Next]_vars

----------------------------------------------------------------------------
(* Properties *)

(* Types; and however requests, approvals and removals interleave, no       *)
(* follower has more than Cap devices (inbox.py:148-150).                   *)
TypeOK ==
  /\ rows \in [Followers -> [Devices -> Row \cup {NoRow}]]
  /\ message \in Message \cup {NoMessage}
  /\ requests \in Nat
  /\ \A f \in Followers : Cardinality(Registered(f)) <= Cap

(* A device once registered keeps its key and its approval whatever is      *)
(* requested, until the owner removes it; unless the very request that      *)
(* registered it names it again (inbox.py:140-146).                         *)
RegisteredUntouched ==
  [][\A f \in Followers, d \in Devices :
       /\ rows[f][d] # NoRow /\ rows'[f][d] \notin {NoRow, rows[f][d]}
       => \/ Busy /\ message.uid = f /\ d \in message.added
          \/ /\ rows'[f][d] = [rows[f][d] EXCEPT !.allowed = "Allowed"]
             /\ UNCHANGED message]_vars
=============================================================================
