---------------------------- MODULE PrivacyFlip ----------------------------
(***************************************************************************)
(* Flips of a client's posts between public and private.  A flip works     *)
(* through a snapshot of the client's posts: each is fetched, stored again *)
(* as a post of the other kind, and only then is the old entry removed and *)
(* its content unpinned.  Other requests, flips too, run on other threads. *)
(*                                                                         *)
(*   post            upload append                                         *)
(*   delete                        remove unpin                            *)
(*   flip    { fetch upload append remove unpin }* settle                  *)
(*                                                                         *)
(* Appending and removing entries are single steps here: that the locked   *)
(* cycle makes them so is what PostStore shows (ActsAsAtomicIndex).        *)
(***************************************************************************)
EXTENDS Naturals, FiniteSets

CONSTANTS
  Threads,      \* threads of the server's pool
  Contents,     \* what posts say, in plain text
  Sealings,     \* encryptions a client makes of a content, each with its key
  Clients,      \* client buckets of the manifest
  Audiences,    \* audiences of new posts, see below
  FlipAudiences, \* audiences a flip to private asks for
  NoCid,        \* nothing uploaded
  Faults,       \* whether IPFS calls and disk writes may fail
  MaxRequests,  \* bound: requests ever started
  MaxCrashes    \* bound: restarts of the process

(* "public"; "followers", any audience a post can be encrypted for; and     *)
(* "unknown", a specific audience with a uid that is no follower.           *)
ASSUME FlipTypes ==
  /\ Audiences \cup FlipAudiences \subseteq {"public", "followers", "unknown"}
  /\ Faults \in BOOLEAN
  /\ MaxRequests \in Nat /\ MaxCrashes \in Nat

(* The bytes of a post: blob 0 is the plain text itself, blob n the         *)
(* station's nth encryption of anything, each with a key of its own; and    *)
(* what a client has encrypted is stored as it was sent.  Plain text and a  *)
(* client's ciphertext have one CID however often they are posted.          *)
Cid == [plain : Contents, blob : Nat \cup Sealings]
Public(cid) == cid.blob = 0
StationSealed(cid) == cid.blob \notin Sealings \cup {0}

ASSUME NoCidIsNone == NoCid \notin Cid

ASSUME SealingsAreNoNumbers == Sealings \cap Nat = {}

Entry == [id : Nat, client : Clients, cid : Cid]

Request ==
       [op : {"post"}, client : Clients, plain : Contents, audience : Audiences,
        blob : {0} \cup Sealings]
  \cup [op : {"delete"}, client : Clients, cid : Cid]
  \cup [op : {"flip"}, client : Clients, mode : {"private"}, audience : FlipAudiences]
  \cup [op : {"flip"}, client : Clients, mode : {"public"}, audience : {"public"}]

NoRequest == [op |-> "none"]

VARIABLES
  posts,     \* the entries of manifest.json
  privacy,   \* account_privacy in each client's profile
  held,      \* the content the IPFS node has pinned
  pc,        \* thread -> next step
  req,       \* thread -> its request
  todo,      \* thread -> entries of the flip's snapshot still to migrate
  fresh,     \* thread -> the CID it uploaded for its next entry
  gone,      \* thread -> the entry it removed, a set of at most one
  nextId,    \* id of the next entry
  nextBlob,  \* number of the next encryption
  started,   \* requests so far
  crashes,   \* restarts so far
  stored,    \* history: entries of posts a client was told are stored
  dropped,   \* history: entries the owner had deleted
  batch,     \* history: thread -> the flip's snapshot
  failed,    \* history: thread -> whether anything in its flip failed
  leaked,    \* history: CIDs whose entry or unpin a failure cut off
  shared     \* history: CIDs uploaded while somebody already had them

index == <<posts, privacy, held>>
locals == <<req, todo, fresh, gone, batch, failed>>
counts == <<nextId, nextBlob, started, crashes>>
past == <<stored, dropped, leaked, shared>>
vars == <<index, pc, locals, counts, past>>

Init ==
  /\ posts = {} /\ held = {}
  /\ privacy = [c \in Clients |-> "unset"]
  /\ pc = [t \in Threads |-> "idle"]
  /\ req = [t \in Threads |-> NoRequest]
  /\ todo = [t \in Threads |-> {}]
  /\ fresh = [t \in Threads |-> NoCid]
  /\ gone = [t \in Threads |-> {}]
  /\ nextId = 1 /\ nextBlob = 1 /\ started = 0 /\ crashes = 0
  /\ stored = {} /\ dropped = {} /\ leaked = {} /\ shared = {}
  /\ batch = [t \in Threads |-> {}]
  /\ failed = [t \in Threads |-> FALSE]

----------------------------------------------------------------------------
Goto(t, step) == pc' = [pc EXCEPT ![t] = step]

IsFlip(t) == req[t].op = "flip"

(* The first entry of a set: the file keeps the order of appending. *)
First(entries) == {e \in entries : \A f \in entries : e.id <= f.id}
Current(t) == CHOOSE e \in todo[t] : e \in First(todo[t])

Finish(t) ==
  /\ Goto(t, "idle")
  /\ req' = [req EXCEPT ![t] = NoRequest]
  /\ todo' = [todo EXCEPT ![t] = {}]
  /\ fresh' = [fresh EXCEPT ![t] = NoCid]
  /\ gone' = [gone EXCEPT ![t] = {}]
  /\ batch' = [batch EXCEPT ![t] = {}]
  /\ failed' = [failed EXCEPT ![t] = FALSE]

Ahead(entries) == IF entries = {} THEN "settle" ELSE "fetch"

(* The flip goes on with the next entry of its snapshot; a failure of this  *)
(* one is recorded.  Other requests are answered.                           *)
Advance(t, failure) ==
  IF IsFlip(t)
  THEN LET rest == todo[t] \ First(todo[t]) IN
       /\ todo' = [todo EXCEPT ![t] = rest]
       /\ Goto(t, Ahead(rest))
       /\ fresh' = [fresh EXCEPT ![t] = NoCid]
       /\ gone' = [gone EXCEPT ![t] = {}]
       /\ failed' = [failed EXCEPT ![t] = @ \/ failure]
       /\ UNCHANGED <<req, batch>>
  ELSE Finish(t)

GiveUpMutant(t) ==   \* mutant: the old entry is removed though the copy failed
  IF IsFlip(t) /\ pc[t] = "append"
  THEN /\ Goto(t, "remove")
       /\ fresh' = [fresh EXCEPT ![t] = NoCid]
       /\ UNCHANGED <<req, todo, gone, batch, failed>>
  ELSE Advance(t, TRUE)
GiveUp(t) == Advance(t, TRUE)

----------------------------------------------------------------------------
(* Requests *)

Accept(t, r) ==
  /\ pc[t] = "idle"
  /\ started < MaxRequests
  /\ started' = started + 1
  /\ req' = [req EXCEPT ![t] = r]

StartPost(t, r) ==
  /\ r.op = "post"
  /\ Accept(t, r)
  /\ Goto(t, "upload")
  /\ UNCHANGED <<index, todo, fresh, gone, batch, failed, nextId, nextBlob, crashes, past>>

StartDelete(t, r) ==
  /\ r.op = "delete"
  /\ Accept(t, r)
  /\ Goto(t, "remove")
  /\ UNCHANGED <<index, todo, fresh, gone, batch, failed, nextId, nextBlob, crashes, past>>

(* Public posts are migrated to private, encrypted ones to public. *)
Snapshot(r) == {e \in posts : e.client = r.client /\ (Public(e.cid) <=> r.mode = "private")}

StartFlip(t, r) ==
  /\ r.op = "flip"
  /\ Accept(t, r)
  /\ todo' = [todo EXCEPT ![t] = Snapshot(r)]
  /\ batch' = [batch EXCEPT ![t] = Snapshot(r)]
  /\ Goto(t, Ahead(Snapshot(r)))
  /\ UNCHANGED <<index, fresh, gone, failed, nextId, nextBlob, crashes, past>>

----------------------------------------------------------------------------
(* Steps *)

(* The old content is read, and decrypted.  Content no longer pinned may    *)
(* still come from another node.                                            *)
Fetch(t) ==
  /\ pc[t] = "fetch"
  /\ Goto(t, "upload")
  /\ UNCHANGED <<index, locals, counts, past>>

FetchLost(t) ==
  /\ pc[t] = "fetch"
  /\ Current(t).cid \notin held
  /\ GiveUp(t)
  /\ UNCHANGED <<index, counts, past>>

Plain(t) == IF IsFlip(t) THEN Current(t).cid.plain ELSE req[t].plain

(* A post for an audience is sent encrypted by the client, or, from the     *)
(* panel's drive, as plain text that the station encrypts; a flip's copies  *)
(* the station encrypts.                                                    *)
Sealing(t) == ~ IsFlip(t) /\ req[t].blob # 0
Numbered(t) == req[t].audience # "public" /\ ~ Sealing(t)

NewCidMutant(t) ==   \* mutant: the station encrypts equal plain texts alike
  [plain |-> Plain(t),
   blob |-> IF Numbered(t) THEN 1 ELSE IF Sealing(t) THEN req[t].blob ELSE 0]
NewCid(t) ==
  [plain |-> Plain(t),
   blob |-> IF Numbered(t) THEN nextBlob ELSE IF Sealing(t) THEN req[t].blob ELSE 0]

(* What entries list, uploads have made for them, or unpins will release. *)
InUse ==
       {e.cid : e \in posts}
  \cup {fresh[t] : t \in Threads}
  \cup {e.cid : e \in UNION {gone[t] : t \in Threads}}

Upload(t) ==
  /\ pc[t] = "upload"
  /\ fresh' = [fresh EXCEPT ![t] = NewCid(t)]
  /\ held' = held \cup {NewCid(t)}
  /\ nextBlob' = IF Numbered(t) THEN nextBlob + 1 ELSE nextBlob
  /\ shared' = shared \cup ({NewCid(t)} \cap InUse)
  /\ Goto(t, "append")
  /\ UNCHANGED <<posts, privacy, req, todo, gone, batch, failed, nextId, started, crashes,
                 stored, dropped, leaked>>

NewEntryMutant(t) ==   \* mutant: the copy takes the old entry's place in the file
  [id |-> IF IsFlip(t) THEN Current(t).id ELSE nextId,
   client |-> req[t].client, cid |-> fresh[t]]
NewEntry(t) == [id |-> nextId, client |-> req[t].client, cid |-> fresh[t]]

AppendEntry(t) ==
  /\ pc[t] = "append" /\ req[t].audience # "unknown"
  /\ posts' = posts \cup {NewEntry(t)}
  /\ nextId' = nextId + 1

Append(t) ==
  /\ AppendEntry(t)
  /\ IF IsFlip(t)
     THEN /\ Goto(t, "remove")
          /\ fresh' = [fresh EXCEPT ![t] = NoCid]
          /\ UNCHANGED <<req, todo, gone, batch, failed, stored>>
     ELSE Finish(t) /\ stored' = stored \cup {NewEntry(t)}
  /\ UNCHANGED <<privacy, held, nextBlob, started, crashes, dropped, leaked, shared>>

(* The audience is looked at after the upload. *)
RefuseAudience(t) ==
  /\ pc[t] = "append" /\ req[t].audience = "unknown"
  /\ leaked' = leaked \cup {fresh[t]}
  /\ GiveUp(t)
  /\ UNCHANGED <<index, counts, stored, dropped, shared>>

Unwanted(t) == IF IsFlip(t) THEN Current(t).cid ELSE req[t].cid

Matches(t) == {e \in posts : e.client = req[t].client /\ e.cid = Unwanted(t)}

FirstMatchMutant(t) ==   \* mutant: the last entry with the CID is taken
  {e \in Matches(t) : \A f \in Matches(t) : e.id >= f.id}
FirstMatch(t) == First(Matches(t))

RemoveEntry(t) ==
  /\ pc[t] = "remove" /\ Matches(t) # {}
  /\ posts' = posts \ FirstMatch(t)
  /\ dropped' = IF IsFlip(t) THEN dropped ELSE dropped \cup FirstMatch(t)

Remove(t) ==
  /\ RemoveEntry(t)
  /\ gone' = [gone EXCEPT ![t] = FirstMatch(t)]
  /\ Goto(t, "unpin")
  /\ UNCHANGED <<privacy, held, req, todo, fresh, batch, failed, counts, stored, leaked, shared>>

(* An entry that is gone already is no failure of the flip. *)
RemoveNothing(t) ==
  /\ pc[t] = "remove" /\ Matches(t) = {}
  /\ Advance(t, FALSE)
  /\ UNCHANGED <<index, counts, past>>

UnpinnedMutant(t) == {e.cid : e \in {x \in gone[t] : ~ Public(x.cid)}}   \* mutant: public ones stay
Unpinned(t) == {e.cid : e \in gone[t]}

Unpin(t) ==
  /\ pc[t] = "unpin"
  /\ held' = held \ Unpinned(t)
  /\ Advance(t, FALSE)
  /\ UNCHANGED <<posts, privacy, counts, past>>

(* set_client_profile records the new account setting. *)
Settle(t) ==
  /\ pc[t] = "settle"
  /\ privacy' = [privacy EXCEPT ![req[t].client] = req[t].mode]
  /\ Finish(t)
  /\ UNCHANGED <<posts, held, counts, past>>

----------------------------------------------------------------------------
(* Failures *)

(* An upload or the write of an entry raises.  The manifest may have been   *)
(* saved all the same, when only its publication failed.                    *)
FailToAdd(t) ==
  /\ pc[t] \in {"fetch", "upload", "append"}
  /\ \/ AppendEntry(t) /\ UNCHANGED leaked
     \/ /\ leaked' = leaked \cup ({fresh[t]} \ {NoCid})
        /\ UNCHANGED <<posts, nextId>>
  /\ UNCHANGED <<privacy, held, nextBlob, started, crashes, stored, dropped, shared>>

(* Before the manifest is saved a failed removal changes nothing; after, it  *)
(* leaves the content pinned.  Without a match there is nothing to fail.    *)
FailToRemove(t) ==
  /\ pc[t] = "remove" /\ Matches(t) # {}
  /\ \/ RemoveEntry(t) /\ leaked' = leaked \cup {e.cid : e \in FirstMatch(t)}
     \/ UNCHANGED <<posts, dropped, leaked>>
  /\ UNCHANGED <<privacy, held, counts, stored, shared>>

Fault(t) ==
  /\ Faults
  /\ FailToAdd(t) \/ FailToRemove(t)
  /\ GiveUp(t)

(* A failed unpin is logged; the removal, and the flip's copy, count as done. *)
UnpinFails(t) ==
  /\ Faults
  /\ pc[t] = "unpin"
  /\ leaked' = leaked \cup {e.cid : e \in gone[t]}
  /\ Advance(t, FALSE)
  /\ UNCHANGED <<index, counts, stored, dropped, shared>>

FailToSettle(t) ==
  /\ Faults
  /\ pc[t] = "settle"
  /\ Finish(t)
  /\ UNCHANGED <<index, counts, past>>

(* The process dies and restarts: files and pins survive. *)
Crash ==
  /\ crashes < MaxCrashes
  /\ crashes' = crashes + 1
  /\ leaked' = leaked \cup ({fresh[t] : t \in Threads} \ {NoCid})
                     \cup {e.cid : e \in UNION {gone[t] : t \in Threads}}
  /\ pc' = [t \in Threads |-> "idle"]
  /\ req' = [t \in Threads |-> NoRequest]
  /\ todo' = [t \in Threads |-> {}]
  /\ fresh' = [t \in Threads |-> NoCid]
  /\ gone' = [t \in Threads |-> {}]
  /\ batch' = [t \in Threads |-> {}]
  /\ failed' = [t \in Threads |-> FALSE]
  /\ UNCHANGED <<index, nextId, nextBlob, started, stored, dropped, shared>>

----------------------------------------------------------------------------
Start(t, r) == StartPost(t, r) \/ StartDelete(t, r) \/ StartFlip(t, r)

Step(t) ==
  \/ Fetch(t) \/ FetchLost(t) \/ Upload(t) \/ Append(t) \/ RefuseAudience(t)
  \/ Remove(t) \/ RemoveNothing(t) \/ Unpin(t) \/ Settle(t)
  \/ Fault(t) \/ UnpinFails(t) \/ FailToSettle(t)

(* A public post is sent in plain text. *)
Sent(a) == IF a = "public" THEN {0} ELSE {0} \cup Sealings

Next ==
  \/ \E t \in Threads :
       \/ \E c \in Clients, p \in Contents, a \in Audiences : \E b \in Sent(a) :
            StartPost(t, [op |-> "post", client |-> c, plain |-> p, audience |-> a, blob |-> b])
       \/ \E c \in Clients, e \in posts :
            StartDelete(t, [op |-> "delete", client |-> c, cid |-> e.cid])
       \/ \E c \in Clients, a \in FlipAudiences :
            StartFlip(t, [op |-> "flip", client |-> c, mode |-> "private", audience |-> a])
       \/ \E c \in Clients :
            StartFlip(t, [op |-> "flip", client |-> c, mode |-> "public", audience |-> "public"])
       \/ Step(t)
  \/ Crash

Spec == Init /\ [][Next]_vars

----------------------------------------------------------------------------
(* Properties *)

(* Values have their types, and no two entries are the same place of the    *)
(* file.                                                                    *)
TypeOK ==
  /\ \A e \in posts : e.id < nextId /\ \A f \in posts : e.id = f.id => e = f
  /\ posts \subseteq Entry /\ stored \subseteq Entry /\ dropped \subseteq Entry
  /\ privacy \in [Clients -> {"unset", "private", "public"}]
  /\ held \subseteq Cid /\ leaked \subseteq Cid /\ shared \subseteq Cid
  /\ pc \in [Threads -> {"idle", "fetch", "upload", "append", "remove", "unpin", "settle"}]
  /\ req \in [Threads -> Request \cup {NoRequest}]
  /\ todo \in [Threads -> SUBSET Entry] /\ batch \in [Threads -> SUBSET Entry]
  /\ fresh \in [Threads -> Cid \cup {NoCid}]
  /\ gone \in [Threads -> SUBSET Entry]
  /\ failed \in [Threads -> BOOLEAN]
  /\ nextId \in Nat /\ nextBlob \in Nat /\ started \in Nat /\ crashes \in Nat

Saying(entries, c, p) == {e \in entries : e.client = c /\ e.cid.plain = p}

(* However flips, posts and deletes interleave, fail or are cut short, a    *)
(* client lists each content at least as often as it was stored and not     *)
(* deleted: the copy is listed before the original goes (privacy.py:61-72,  *)
(* 143-152).                                                                *)
FlipsLoseNothing ==
  \A c \in Clients, p \in Contents :
    Cardinality(Saying(stored, c, p))
      <= Cardinality(Saying(posts, c, p)) + Cardinality(Saying(dropped, c, p))

(* A flip in which nothing failed leaves no post of its snapshot as it was, *)
(* whatever other requests did to the list meanwhile: it removes by CID, the *)
(* first of equal ones (manifest.py:466-470).                               *)
FlipLeavesNoneBehind ==
  \A t \in Threads : pc[t] = "settle" /\ ~ failed[t] => batch[t] \cap posts = {}

(* What stays pinned is listed, on its way, or left by a failure: a flip to *)
(* private does not keep the plain text it replaced (privacy.py:47-48).     *)
HeldIsAccounted == held \subseteq InUse \cup leaked

(* What is listed is pinned: no flip or delete unpins it for another, nor   *)
(* does a late unpin (manifest.py:499-510).  The exception is bytes somebody *)
(* uploaded while others had them, plain text or a client's ciphertext sent *)
(* again (posts.py:205-206, 226-236); what the station encrypts never is.   *)
ListedIsHeld ==
  \A e \in posts : e.cid \in held \/ (e.cid \in shared /\ ~ StationSealed(e.cid))

=============================================================================
