-------------------------- MODULE PrivacyFlip_proofs --------------------------
(***************************************************************************)
(* Theorems about PrivacyFlip, for any threads, clients, contents, failures *)
(* and crashes.  Each has an invariant of its own on top of the types:     *)
(*                                                                         *)
(*   Acc      what is held is listed, in some thread's hands, or leaked    *)
(*   Numbers  the station's encryptions are numbered, and never shared     *)
(*   Own      what is not shared has one owner: the one entry that lists   *)
(*            it, the upload that made it, or the removal that has it      *)
(*   Batch    the originals of a flip still listed are still ahead of it   *)
(*   Balance  per client and content: entries stored, plus copies that     *)
(*            still owe the removal of their original, are at most the     *)
(*            entries listed plus those the owner has deleted              *)
(***************************************************************************)
EXTENDS PrivacyFlip, FiniteSetTheorems, WellFoundedInduction, TLAPS

USE FlipTypes, NoCidIsNone

LEMMA LessThan ==
  ASSUME NEW m \in Nat, NEW n \in Nat, n < m
  PROVE  <<n, m>> \in OpToRel(<, Nat)
BY DEF OpToRel

LEMMA LeastNat ==
  ASSUME NEW S \in SUBSET Nat, S # {}
  PROVE  \E m \in S : \A n \in S : m <= n
<1> DEFINE R == OpToRel(<, Nat)
<1>1. IsWellFoundedOn(R, Nat)
  BY Zenon, NatLessThanWellFounded
<1>2. \A m, n \in Nat : n < m => <<n, m>> \in R
  BY Zenon, LessThan
<1> HIDE DEF R
<1>3. PICK m \in S : \A n \in S : <<n, m>> \notin R
  BY <1>1, WFMin
<1> QED
  <2>1. \A n \in S : ~ (n < m)
    BY <1>2, <1>3
  <2> QED BY <2>1

(* Of entries with numbers of their own, one is first. *)
LEMMA FirstIsOne ==
  ASSUME NEW S \in SUBSET Entry, S # {}
  PROVE  First(S) \subseteq S /\ First(S) # {}
<1>1. \A e \in S : e.id \in Nat
  BY DEF Entry
<1>2. PICK m \in {e.id : e \in S} : \A n \in {e.id : e \in S} : m <= n
  <2>1. {e.id : e \in S} \in SUBSET Nat /\ {e.id : e \in S} # {}
    BY <1>1
  <2> QED BY <2>1, LeastNat
<1> QED BY <1>2 DEF First

----------------------------------------------------------------------------
(* Threads *)

Busy == {"fetch", "upload", "append", "remove", "unpin"}
Steps == Busy \cup {"idle", "settle"}

LocalTypes ==
  /\ pc \in [Threads -> Steps]
  /\ req \in [Threads -> Request \cup {NoRequest}]
  /\ todo \in [Threads -> SUBSET Entry] /\ batch \in [Threads -> SUBSET Entry]
  /\ fresh \in [Threads -> Cid \cup {NoCid}]
  /\ gone \in [Threads -> SUBSET Entry]
  /\ failed \in [Threads -> BOOLEAN]

(* What a thread at a step has in its hands. *)
Shape(t) ==
  /\ pc[t] # "idle" => req[t] \in Request
  /\ pc[t] \in {"upload", "append"} => req[t].op \in {"post", "flip"}
  /\ pc[t] \in {"remove", "unpin"} => req[t].op \in {"delete", "flip"}
  /\ pc[t] \in {"fetch", "settle"} => IsFlip(t)
  /\ pc[t] \in Busy /\ IsFlip(t) => todo[t] # {}
  /\ pc[t] = "settle" => todo[t] = {}
  /\ pc[t] = "append" <=> fresh[t] # NoCid
  /\ gone[t] # {} => pc[t] = "unpin"

Locals == LocalTypes /\ \A t \in Threads : Shape(t)

Others(t) ==
  \A s \in Threads \ {t} :
    /\ pc'[s] = pc[s] /\ req'[s] = req[s] /\ todo'[s] = todo[s] /\ batch'[s] = batch[s]
    /\ fresh'[s] = fresh[s] /\ gone'[s] = gone[s] /\ failed'[s] = failed[s]

LEMMA RequestTypes ==
  ASSUME NEW r \in Request
  PROVE  /\ r.op \in {"post", "delete", "flip"} /\ r.client \in Clients
         /\ r.op = "post" => r.plain \in Contents /\ r.blob \in {0} \cup Sealings
         /\ r.op = "delete" => r.cid \in Cid
         /\ r.op = "flip" => r.mode \in {"private", "public"}
BY DEF Request

LEMMA OthersShape ==
  ASSUME Locals, NEW t \in Threads, Others(t), LocalTypes', Shape(t)'
  PROVE  Locals'
<1>1. \A s \in Threads \ {t} : Shape(s)'
  BY DEF Locals, Others, Shape, IsFlip
<1> QED BY <1>1 DEF Locals

(* What a flip has ahead of it is an entry of its snapshot. *)
LEMMA CurrentIsFirst ==
  ASSUME Locals, NEW t \in Threads, IsFlip(t), pc[t] \in Busy
  PROVE  Current(t) \in First(todo[t]) /\ Current(t) \in todo[t] /\ Current(t) \in Entry
<1>1. todo[t] \in SUBSET Entry /\ todo[t] # {}
  BY DEF Locals, LocalTypes, Shape
<1>2. First(todo[t]) # {} /\ First(todo[t]) \subseteq todo[t]
  BY <1>1, FirstIsOne
<1>3. \E e \in todo[t] : e \in First(todo[t])
  BY <1>2
<1>4. Current(t) \in todo[t] /\ Current(t) \in First(todo[t])
  BY <1>3 DEF Current
<1> QED BY <1>1, <1>4

After(t, failure) ==
  \/ /\ pc'[t] = "idle" /\ req'[t] = NoRequest /\ todo'[t] = {} /\ batch'[t] = {}
  \/ /\ IsFlip(t) /\ req'[t] = req[t] /\ batch'[t] = batch[t]
     /\ todo'[t] = todo[t] \ First(todo[t])
     /\ failed'[t] = (failed[t] \/ failure)
     /\ pc'[t] = Ahead(todo'[t])

LEMMA FinishLocals ==
  ASSUME Locals, NEW t \in Threads, Finish(t)
  PROVE  /\ Locals' /\ Others(t) /\ fresh'[t] = NoCid /\ gone'[t] = {}
         /\ pc'[t] = "idle" /\ req'[t] = NoRequest /\ todo'[t] = {} /\ batch'[t] = {}
<1>1. LocalTypes' /\ Others(t)
  BY DEF Locals, LocalTypes, Finish, Goto, Others, Steps, Busy
<1>2. /\ pc'[t] = "idle" /\ req'[t] = NoRequest /\ fresh'[t] = NoCid
      /\ gone'[t] = {} /\ todo'[t] = {} /\ batch'[t] = {}
  BY DEF Locals, LocalTypes, Finish, Goto
<1>3. Shape(t)'
  BY <1>2 DEF Shape, Busy
<1> QED BY <1>1, <1>2, <1>3, OthersShape

LEMMA AdvanceLocals ==
  ASSUME Locals, NEW t \in Threads, pc[t] \in Busy, NEW failure \in BOOLEAN, Advance(t, failure)
  PROVE  /\ Locals' /\ Others(t) /\ fresh'[t] = NoCid /\ gone'[t] = {}
         /\ After(t, failure)
<1>1. CASE ~ IsFlip(t)
  BY <1>1, FinishLocals DEF Advance, After
<1>2. CASE IsFlip(t)
  <2> DEFINE rest == todo[t] \ First(todo[t])
  <2>1. /\ todo' = [todo EXCEPT ![t] = rest]
        /\ pc' = [pc EXCEPT ![t] = Ahead(rest)]
        /\ fresh' = [fresh EXCEPT ![t] = NoCid]
        /\ gone' = [gone EXCEPT ![t] = {}]
        /\ failed' = [failed EXCEPT ![t] = @ \/ failure]
        /\ req' = req /\ batch' = batch
    BY <1>2 DEF Advance, Goto
  <2>2. rest \in SUBSET Entry /\ Ahead(rest) \in {"fetch", "settle"}
    BY DEF Locals, LocalTypes, Ahead
  <2>3. (failed[t] \/ failure) \in BOOLEAN
    OBVIOUS
  <2>4. Ahead(rest) = "settle" <=> rest = {}
    BY DEF Ahead
  <2> HIDE DEF rest
  <2>5. LocalTypes'
    BY <2>1, <2>2, <2>3 DEF Locals, LocalTypes, Steps, Busy
  <2>6. Others(t)
    BY <2>1 DEF Others, Locals, LocalTypes
  <2>7. /\ todo'[t] = rest /\ pc'[t] = Ahead(rest) /\ fresh'[t] = NoCid /\ gone'[t] = {}
        /\ failed'[t] = (failed[t] \/ failure) /\ req'[t] = req[t] /\ batch'[t] = batch[t]
    BY <2>1 DEF Locals, LocalTypes
  <2>8. Shape(t)'
    BY <1>2, <2>2, <2>4, <2>7 DEF Shape, Locals, IsFlip, Busy
  <2>9. Locals'
    BY <2>5, <2>6, <2>8, OthersShape
  <2> QED BY <1>2, <2>6, <2>7, <2>9 DEF After, rest
<1> QED BY <1>1, <1>2

LEMMA InitLocals == Init => Locals
BY DEF Init, Locals, LocalTypes, Shape, Steps, Busy, NoRequest

LEMMA StartLocals ==
  ASSUME Locals, posts \subseteq Entry, NEW t \in Threads, NEW r \in Request, Start(t, r)
  PROVE  Locals' /\ Others(t)
<1>1. PICK step \in Steps \ {"idle", "append", "unpin"}, mine \in SUBSET Entry :
        /\ pc' = [pc EXCEPT ![t] = step] /\ req' = [req EXCEPT ![t] = r]
        /\ todo' = [todo EXCEPT ![t] = mine]
        /\ batch' = [batch EXCEPT ![t] = IF r.op = "flip" THEN mine ELSE batch[t]]
        /\ UNCHANGED <<fresh, gone, failed>> /\ pc[t] = "idle"
        /\ step = "upload" => r.op = "post"
        /\ step = "remove" => r.op = "delete"
        /\ step \in {"fetch", "settle"} => r.op = "flip" /\ (step = "settle" <=> mine = {})
        /\ step \in {"fetch", "settle", "upload", "remove"}
  <2>1. CASE StartPost(t, r)
    <3>1. /\ "upload" \in Steps \ {"idle", "append", "unpin"} /\ todo[t] \in SUBSET Entry
          /\ todo' = [todo EXCEPT ![t] = todo[t]] /\ batch' = [batch EXCEPT ![t] = batch[t]]
      BY <2>1 DEF StartPost, Locals, LocalTypes, Steps, Busy
    <3> QED BY <2>1, <3>1 DEF StartPost, Accept, Goto
  <2>2. CASE StartDelete(t, r)
    <3>1. /\ "remove" \in Steps \ {"idle", "append", "unpin"} /\ todo[t] \in SUBSET Entry
          /\ todo' = [todo EXCEPT ![t] = todo[t]] /\ batch' = [batch EXCEPT ![t] = batch[t]]
      BY <2>2 DEF StartDelete, Locals, LocalTypes, Steps, Busy
    <3> QED BY <2>2, <3>1 DEF StartDelete, Accept, Goto
  <2>3. CASE StartFlip(t, r)
    <3>1. /\ Ahead(Snapshot(r)) \in Steps \ {"idle", "append", "unpin"}
          /\ Ahead(Snapshot(r)) \in {"fetch", "settle"}
          /\ Ahead(Snapshot(r)) = "settle" <=> Snapshot(r) = {}
      BY DEF Ahead, Steps, Busy
    <3>2. Snapshot(r) \in SUBSET Entry
      BY DEF Snapshot
    <3> HIDE DEF Snapshot, Ahead
    <3> QED BY <2>3, <3>1, <3>2 DEF StartFlip, Accept, Goto
  <2> QED BY <2>1, <2>2, <2>3 DEF Start
<1>2. LocalTypes' /\ Others(t)
  BY <1>1 DEF Locals, LocalTypes, Others
<1>3. /\ pc'[t] = step /\ req'[t] = r /\ todo'[t] = mine
      /\ fresh'[t] = fresh[t] /\ gone'[t] = gone[t]
  BY <1>1 DEF Locals, LocalTypes
<1>4. fresh[t] = NoCid /\ gone[t] = {}
  BY <1>1 DEF Locals, Shape
<1>5. Shape(t)'
  BY <1>1, <1>3, <1>4 DEF Shape, IsFlip, Busy
<1> QED BY <1>2, <1>5, OthersShape

LEMMA FetchLocals ==
  ASSUME Locals, NEW t \in Threads, Fetch(t)
  PROVE  Locals' /\ Others(t)
<1>1. LocalTypes' /\ Others(t)
  BY DEF Locals, LocalTypes, Fetch, Goto, Others, Steps, Busy, locals
<1>2. pc[t] = "fetch" /\ pc'[t] = "upload"
  BY DEF Fetch, Goto, Locals, LocalTypes
<1>3. Shape(t)'
  BY <1>2 DEF Shape, Locals, Fetch, locals, IsFlip, Busy
<1> QED BY <1>1, <1>3, OthersShape

LEMMA NewCidType ==
  ASSUME Locals, nextBlob \in Nat, NEW t \in Threads, pc[t] = "upload"
  PROVE  NewCid(t) \in Cid
<1>1. Plain(t) \in Contents
  <2>1. CASE IsFlip(t)
    BY <2>1, CurrentIsFirst DEF Busy, Plain, Entry, Cid
  <2>2. CASE ~ IsFlip(t)
    BY <2>2, RequestTypes DEF Locals, Shape, Plain, IsFlip
  <2> QED BY <2>1, <2>2
<1>2. Sealing(t) => req[t].blob \in Sealings
  BY RequestTypes DEF Locals, Shape, Sealing, IsFlip
<1> QED BY <1>1, <1>2 DEF NewCid, Cid

LEMMA UploadLocals ==
  ASSUME Locals, nextBlob \in Nat, NEW t \in Threads, Upload(t)
  PROVE  Locals' /\ Others(t) /\ fresh'[t] = NewCid(t)
<1>1. pc[t] = "upload" /\ NewCid(t) \in Cid
  BY NewCidType DEF Upload
<1>2. LocalTypes' /\ Others(t)
  BY <1>1 DEF Locals, LocalTypes, Upload, Goto, Others, Steps, Busy
<1>3. pc'[t] = "append" /\ fresh'[t] = NewCid(t)
  BY DEF Upload, Goto, Locals, LocalTypes
<1>4. Shape(t)'
  BY <1>1, <1>3 DEF Shape, Locals, Upload, IsFlip, Busy
<1> QED BY <1>2, <1>3, <1>4, OthersShape

LEMMA AppendLocals ==
  ASSUME Locals, NEW t \in Threads, Append(t)
  PROVE  /\ Locals' /\ Others(t) /\ fresh'[t] = NoCid /\ gone'[t] = {}
         /\ \/ pc'[t] = "idle" /\ req'[t] = NoRequest
            \/ /\ pc'[t] = "remove" /\ req'[t] = req[t] /\ todo'[t] = todo[t]
               /\ batch'[t] = batch[t] /\ failed'[t] = failed[t] /\ IsFlip(t)
<1>0. pc[t] = "append"
  BY DEF Append, AppendEntry
<1>1. CASE ~ IsFlip(t)
  BY <1>1, FinishLocals DEF Append
<1>2. CASE IsFlip(t)
  <2>1. LocalTypes' /\ Others(t)
    BY <1>2 DEF Locals, LocalTypes, Append, Goto, Others, Steps, Busy
  <2>2. /\ pc'[t] = "remove" /\ fresh'[t] = NoCid /\ gone'[t] = gone[t] /\ req'[t] = req[t]
        /\ todo'[t] = todo[t] /\ batch'[t] = batch[t] /\ failed'[t] = failed[t]
    BY <1>2 DEF Append, Goto, Locals, LocalTypes
  <2>3. gone[t] = {}
    BY <1>0 DEF Locals, Shape
  <2>4. Shape(t)'
    BY <1>0, <1>2, <2>2, <2>3 DEF Shape, Locals, IsFlip, Busy
  <2> QED BY <1>2, <2>1, <2>2, <2>3, <2>4, OthersShape
<1> QED BY <1>1, <1>2

LEMMA RemoveLocals ==
  ASSUME Locals, posts \subseteq Entry, NEW t \in Threads, Remove(t)
  PROVE  Locals' /\ Others(t) /\ gone'[t] = FirstMatch(t) /\ pc'[t] = "unpin"
<1>1. FirstMatch(t) \in SUBSET Entry
  BY DEF FirstMatch, First, Matches
<1>2. pc[t] = "remove"
  BY DEF Remove, RemoveEntry
<1>3. LocalTypes' /\ Others(t)
  BY <1>1 DEF Locals, LocalTypes, Remove, Goto, Others, Steps, Busy
<1>4. pc'[t] = "unpin" /\ gone'[t] = FirstMatch(t)
  BY DEF Remove, Goto, Locals, LocalTypes
<1>5. Shape(t)'
  BY <1>2, <1>4 DEF Shape, Locals, Remove, IsFlip, Busy
<1> QED BY <1>3, <1>4, <1>5, OthersShape

(* A failure gives up the entry, or the request, it strikes. *)
LEMMA FaultLocals ==
  ASSUME Locals, NEW t \in Threads, Fault(t)
  PROVE  /\ Locals' /\ Others(t) /\ fresh'[t] = NoCid /\ gone'[t] = {}
         /\ After(t, TRUE)
<1>1. pc[t] \in Busy
  BY DEF Fault, FailToAdd, FailToRemove, AppendEntry, Busy
<1> QED BY <1>1, AdvanceLocals DEF Fault, GiveUp

LEMMA CrashLocals ==
  ASSUME Locals, Crash
  PROVE  Locals' /\ \A t \in Threads : fresh'[t] = NoCid /\ gone'[t] = {} /\ req'[t] = NoRequest
BY DEF Crash, Locals, LocalTypes, Shape, Steps, Busy

LEMMA StepLocals ==
  ASSUME Locals, nextBlob \in Nat, posts \subseteq Entry, NEW t \in Threads, Step(t)
  PROVE  Locals' /\ Others(t)
<1>1. CASE FetchLost(t) \/ RefuseAudience(t)
  BY <1>1, AdvanceLocals DEF FetchLost, RefuseAudience, GiveUp, Busy
<1>2. CASE RemoveNothing(t) \/ Unpin(t) \/ UnpinFails(t)
  BY <1>2, AdvanceLocals DEF RemoveNothing, Unpin, UnpinFails, Busy
<1>3. CASE Settle(t) \/ FailToSettle(t)
  BY <1>3, FinishLocals DEF Settle, FailToSettle
<1> QED BY <1>1, <1>2, <1>3, FetchLocals, UploadLocals, AppendLocals, RemoveLocals, FaultLocals DEF Step

----------------------------------------------------------------------------
(* Types *)

GlobalTypes ==
  /\ \A e \in posts : e.id < nextId /\ \A f \in posts : e.id = f.id => e = f
  /\ posts \subseteq Entry /\ stored \subseteq Entry /\ dropped \subseteq Entry
  /\ privacy \in [Clients -> {"unset", "private", "public"}]
  /\ held \subseteq Cid /\ leaked \subseteq Cid /\ shared \subseteq Cid
  /\ nextId \in Nat /\ nextBlob \in Nat \ {0} /\ started \in Nat /\ crashes \in Nat

Types == Locals /\ GlobalTypes

LEMMA TypesGiveTypeOK == Types => TypeOK
BY DEF Types, Locals, LocalTypes, GlobalTypes, TypeOK, Steps, Busy

LEMMA InitTypes == Init => Types
BY InitLocals DEF Init, Types, GlobalTypes

LEMMA NewEntryType ==
  ASSUME Types, NEW t \in Threads, pc[t] = "append"
  PROVE  NewEntry(t) \in Entry /\ NewEntry(t).id = nextId /\ NewEntry(t).cid = fresh[t]
         /\ fresh[t] \in Cid
<1>1. fresh[t] \in Cid /\ req[t].client \in Clients /\ nextId \in Nat
  BY RequestTypes DEF Types, Locals, LocalTypes, Shape, GlobalTypes
<1> QED BY <1>1 DEF NewEntry, Entry

LEMMA AppendEntryTypes ==
  ASSUME Types, NEW t \in Threads, AppendEntry(t)
  PROVE  /\ posts' \subseteq Entry /\ nextId' \in Nat
         /\ \A e \in posts' : e.id < nextId' /\ \A f \in posts' : e.id = f.id => e = f
<1>1. /\ NewEntry(t) \in Entry /\ NewEntry(t).id = nextId
      /\ posts' = posts \cup {NewEntry(t)} /\ nextId' = nextId + 1
  BY NewEntryType DEF AppendEntry
<1>2. \A e \in posts : e \in Entry /\ e.id \in Nat /\ e.id < nextId
  BY DEF Types, GlobalTypes, Entry
<1> HIDE DEF NewEntry
<1> QED BY <1>1, <1>2 DEF Types, GlobalTypes

LEMMA RemoveEntryTypes ==
  ASSUME Types, NEW t \in Threads, RemoveEntry(t)
  PROVE  /\ posts' \subseteq posts /\ dropped' \subseteq Entry
         /\ FirstMatch(t) \subseteq posts
BY DEF RemoveEntry, FirstMatch, First, Matches, Types, GlobalTypes

(* The part of the types an entry's removal, or nothing, leaves alone. *)
LEMMA FewerPostsTypes ==
  ASSUME Types, posts' \subseteq posts, UNCHANGED nextId
  PROVE  /\ posts' \subseteq Entry /\ nextId' \in Nat
         /\ \A e \in posts' : e.id < nextId' /\ \A f \in posts' : e.id = f.id => e = f
BY DEF Types, GlobalTypes

LEMMA CidsOfThreads ==
  ASSUME Types, NEW t \in Threads
  PROVE  {fresh[t]} \ {NoCid} \subseteq Cid /\ \A e \in gone[t] : e \in Entry /\ e.cid \in Cid
<1>1. \A e \in gone[t] : e \in Entry
  BY DEF Types, Locals, LocalTypes
<1> QED BY <1>1 DEF Types, Locals, LocalTypes, Entry

LEMMA FaultTypes ==
  ASSUME Types, NEW t \in Threads, Fault(t)
  PROVE  GlobalTypes'
<1>1. CASE FailToAdd(t) /\ AppendEntry(t) /\ UNCHANGED leaked
  BY <1>1, AppendEntryTypes DEF FailToAdd, Types, GlobalTypes
<1>2. CASE FailToAdd(t) /\ leaked' = leaked \cup ({fresh[t]} \ {NoCid}) /\ UNCHANGED <<posts, nextId>>
  BY <1>2, CidsOfThreads, FewerPostsTypes DEF FailToAdd, Types, GlobalTypes
<1>3. CASE FailToRemove(t) /\ RemoveEntry(t) /\ leaked' = leaked \cup {e.cid : e \in FirstMatch(t)}
  <2>1. \A e \in FirstMatch(t) : e.cid \in Cid
    BY <1>3, RemoveEntryTypes DEF Types, GlobalTypes, Entry
  <2>2. leaked' \subseteq Cid
    BY <1>3, <2>1 DEF Types, GlobalTypes
  <2> QED BY <1>3, <2>2, RemoveEntryTypes, FewerPostsTypes DEF FailToRemove, Types, GlobalTypes, counts
<1>4. CASE FailToRemove(t) /\ UNCHANGED <<posts, dropped, leaked>>
  BY <1>4, FewerPostsTypes DEF FailToRemove, Types, GlobalTypes, counts
<1> QED BY <1>1, <1>2, <1>3, <1>4 DEF Fault, FailToAdd, FailToRemove

LEMMA StepTypes ==
  ASSUME Types, NEW t \in Threads, Step(t)
  PROVE  Types'
<1>1. Locals'
  BY StepLocals DEF Types, GlobalTypes
<1>2. CASE Fetch(t) \/ FetchLost(t) \/ RemoveNothing(t) \/ FailToSettle(t)
  BY <1>1, <1>2, FewerPostsTypes
     DEF Fetch, FetchLost, RemoveNothing, FailToSettle, index, counts, past, Types, GlobalTypes
<1>3. CASE Upload(t)
  <2>1. NewCid(t) \in Cid
    BY <1>3, NewCidType DEF Upload, Types, GlobalTypes
  <2> QED BY <1>1, <1>3, <2>1, FewerPostsTypes DEF Upload, past, Types, GlobalTypes
<1>4. CASE Append(t)
  <2>1. AppendEntry(t) /\ NewEntry(t) \in Entry
    BY <1>4, NewEntryType DEF Append, AppendEntry
  <2>2. stored' \subseteq Entry
    BY <1>4, <2>1 DEF Append, Types, GlobalTypes
  <2> QED BY <1>1, <1>4, <2>1, <2>2, AppendEntryTypes DEF Append, Types, GlobalTypes
<1>5. CASE RefuseAudience(t)
  <2>1. fresh[t] \in Cid
    BY <1>5, NewEntryType DEF RefuseAudience
  <2> QED BY <1>1, <1>5, <2>1, FewerPostsTypes DEF RefuseAudience, index, counts, Types, GlobalTypes
<1>6. CASE Remove(t)
  BY <1>1, <1>6, RemoveEntryTypes, FewerPostsTypes DEF Remove, counts, Types, GlobalTypes
<1>7. CASE Unpin(t)
  BY <1>1, <1>7, FewerPostsTypes DEF Unpin, counts, past, Types, GlobalTypes
<1>8. CASE Settle(t)
  <2>1. req[t].mode \in {"private", "public"}
    BY <1>8, RequestTypes DEF Settle, Types, Locals, Shape, IsFlip
  <2> QED BY <1>1, <1>8, <2>1, FewerPostsTypes DEF Settle, counts, past, Types, GlobalTypes
<1>9. CASE UnpinFails(t)
  <2>1. leaked' \subseteq Cid
    BY <1>9, CidsOfThreads DEF UnpinFails, Types, GlobalTypes
  <2> QED BY <1>1, <1>9, <2>1, FewerPostsTypes DEF UnpinFails, index, counts, Types, GlobalTypes
<1> QED BY <1>1, <1>2, <1>3, <1>4, <1>5, <1>6, <1>7, <1>8, <1>9, FaultTypes DEF Step, Types

LEMMA StartKeeps ==
  ASSUME NEW t, NEW r, Start(t, r)
  PROVE  /\ UNCHANGED <<index, fresh, gone, failed, nextId, nextBlob, crashes, past>>
         /\ pc[t] = "idle" /\ started' = started + 1
BY DEF Start, StartPost, StartDelete, StartFlip, Accept

LEMMA StartTypes ==
  ASSUME Types, NEW t \in Threads, NEW r \in Request, Start(t, r)
  PROVE  Types'
<1>1. Locals'
  BY StartLocals DEF Types, GlobalTypes
<1> QED BY <1>1, StartKeeps, FewerPostsTypes DEF Types, GlobalTypes, index, past

LEMMA CrashTypes ==
  ASSUME Types, Crash
  PROVE  Types'
<1>1. Locals'
  BY CrashLocals DEF Types
<1>2. leaked' \subseteq Cid
  BY CidsOfThreads DEF Crash, Types, GlobalTypes
<1> QED BY <1>1, <1>2, FewerPostsTypes DEF Crash, Types, GlobalTypes, index

(* The three kinds of steps; the requests that come in are requests. *)
LEMMA NextKinds ==
  ASSUME Types, Next
  PROVE  \/ \E t \in Threads : \E r \in Request : Start(t, r)
         \/ \E t \in Threads : Step(t)
         \/ Crash
<1>1. ASSUME NEW t \in Threads, NEW c \in Clients, NEW p \in Contents, NEW a \in Audiences,
             NEW b \in Sent(a),
             StartPost(t, [op |-> "post", client |-> c, plain |-> p, audience |-> a, blob |-> b])
      PROVE  \E r \in Request : Start(t, r)
  <2>0. b \in {0} \cup Sealings
    BY DEF Sent
  <2>1. [op |-> "post", client |-> c, plain |-> p, audience |-> a, blob |-> b] \in Request
    BY <2>0 DEF Request
  <2> QED BY <1>1, <2>1 DEF Start
<1>2. ASSUME NEW t \in Threads, NEW c \in Clients, NEW e \in posts,
             StartDelete(t, [op |-> "delete", client |-> c, cid |-> e.cid])
      PROVE  \E r \in Request : Start(t, r)
  <2>1. e.cid \in Cid
    BY DEF Types, GlobalTypes, Entry
  <2>2. [op |-> "delete", client |-> c, cid |-> e.cid] \in Request
    BY <2>1 DEF Request
  <2> QED BY <1>2, <2>2 DEF Start
<1>3. ASSUME NEW t \in Threads, NEW c \in Clients, NEW a \in FlipAudiences,
             StartFlip(t, [op |-> "flip", client |-> c, mode |-> "private", audience |-> a])
      PROVE  \E r \in Request : Start(t, r)
  <2>1. [op |-> "flip", client |-> c, mode |-> "private", audience |-> a] \in Request
    BY DEF Request
  <2> QED BY <1>3, <2>1 DEF Start
<1>4. ASSUME NEW t \in Threads, NEW c \in Clients,
             StartFlip(t, [op |-> "flip", client |-> c, mode |-> "public", audience |-> "public"])
      PROVE  \E r \in Request : Start(t, r)
  <2>1. [op |-> "flip", client |-> c, mode |-> "public", audience |-> "public"] \in Request
    BY DEF Request
  <2> QED BY <1>4, <2>1 DEF Start
<1> QED BY <1>1, <1>2, <1>3, <1>4 DEF Next

LEMMA NextTypes == Types /\ [Next]_vars => Types'
<1> SUFFICES ASSUME Types, [Next]_vars PROVE Types'
  OBVIOUS
<1>1. CASE UNCHANGED vars
  BY <1>1 DEF vars, index, locals, counts, past, Types, Locals, LocalTypes, Shape, IsFlip, GlobalTypes
<1> QED BY <1>1, NextKinds, StartTypes, StepTypes, CrashTypes

(* Every variable keeps its type, and entries their own place in the file. *)
THEOREM FlipTypesHold == Spec => []TypeOK
BY InitTypes, NextTypes, TypesGiveTypeOK, PTL DEF Spec

----------------------------------------------------------------------------
(* Pinned content is accounted for *)

Accounted(c) ==
  \/ \E e \in posts : e.cid = c
  \/ \E t \in Threads : fresh[t] = c
  \/ \E t \in Threads : \E e \in gone[t] : e.cid = c
  \/ c \in leaked

Acc == \A c \in held : Accounted(c)

(* What a step of the thread t must not forget. *)
LEMMA NothingForgotten ==
  ASSUME Types, Acc, NEW t \in Threads, Others(t), leaked \subseteq leaked',
         \A c \in held' : c \in held \/ c = fresh'[t],
         \A e \in posts : e \in posts' \/ e \in gone'[t] \/ e.cid \in leaked',
         \/ fresh[t] \in {NoCid, fresh'[t]} \cup leaked'
         \/ \E e \in posts' : e.cid = fresh[t],
         \A e \in gone[t] : e \in gone'[t] \/ e.cid \in leaked' \/ e.cid \notin held'
  PROVE  Acc'
<1> SUFFICES ASSUME NEW c \in held' PROVE Accounted(c)'
  BY DEF Acc
<1>1. CASE c = fresh'[t]
  BY <1>1 DEF Accounted
<1>2. CASE c \in held
  <2>1. Accounted(c) /\ c # NoCid
    BY <1>2 DEF Acc, Types, GlobalTypes
  <2>2. CASE \E e \in posts : e.cid = c
    BY <2>2 DEF Accounted
  <2>3. CASE \E s \in Threads : fresh[s] = c
    BY <2>1, <2>3 DEF Accounted, Others
  <2>4. CASE \E s \in Threads : \E e \in gone[s] : e.cid = c
    BY <2>4 DEF Accounted, Others
  <2>5. CASE c \in leaked
    BY <2>5 DEF Accounted
  <2> QED BY <2>1, <2>2, <2>3, <2>4, <2>5 DEF Accounted
<1> QED BY <1>1, <1>2

(* A thread holds a CID only where its step says so. *)
LEMMA EmptyHands ==
  ASSUME Types, NEW t \in Threads
  PROVE  /\ pc[t] # "append" => fresh[t] = NoCid
         /\ pc[t] # "unpin" => gone[t] = {}
BY DEF Types, Locals, Shape

LEMMA FaultAccounted ==
  ASSUME Types, Acc, NEW t \in Threads, Fault(t)
  PROVE  Acc'
<1>1. Others(t) /\ fresh'[t] = NoCid /\ gone'[t] = {}
  BY FaultLocals DEF Types
<1>2. held' = held
  BY DEF Fault, FailToAdd, FailToRemove
<1>3. CASE FailToAdd(t) /\ AppendEntry(t) /\ UNCHANGED leaked
  <2>1. pc[t] = "append" /\ posts' = posts \cup {NewEntry(t)} /\ NewEntry(t).cid = fresh[t]
    BY <1>3, NewEntryType DEF AppendEntry
  <2>2. gone[t] = {}
    BY <2>1, EmptyHands
  <2> QED BY <1>1, <1>2, <1>3, <2>1, <2>2, NothingForgotten
<1>4. CASE FailToAdd(t) /\ leaked' = leaked \cup ({fresh[t]} \ {NoCid}) /\ UNCHANGED posts
  <2>1. gone[t] = {}
    BY <1>4, EmptyHands DEF FailToAdd
  <2>2. fresh[t] \in {NoCid, fresh'[t]} \cup leaked'
    BY <1>4
  <2> QED BY <1>1, <1>2, <1>4, <2>1, <2>2, NothingForgotten
<1>5. CASE FailToRemove(t) /\ RemoveEntry(t) /\ leaked' = leaked \cup {e.cid : e \in FirstMatch(t)}
  <2>1. fresh[t] = NoCid /\ gone[t] = {}
    BY <1>5, EmptyHands DEF RemoveEntry
  <2>2. \A e \in posts : e \in posts' \/ e.cid \in leaked'
    BY <1>5 DEF RemoveEntry
  <2> QED BY <1>1, <1>2, <1>5, <2>1, <2>2, NothingForgotten
<1>6. CASE FailToRemove(t) /\ UNCHANGED <<posts, leaked>>
  <2>1. fresh[t] = NoCid /\ gone[t] = {}
    BY <1>6, EmptyHands DEF FailToRemove
  <2> QED BY <1>1, <1>2, <1>6, <2>1, NothingForgotten
<1> QED BY <1>3, <1>4, <1>5, <1>6 DEF Fault, FailToAdd, FailToRemove

LEMMA StepAccounted ==
  ASSUME Types, Acc, NEW t \in Threads, Step(t)
  PROVE  Acc'
<1>1. Others(t)
  BY StepLocals DEF Types, GlobalTypes
<1>2. CASE Fetch(t)
  BY <1>1, <1>2, NothingForgotten DEF Fetch, index, locals, past
<1>3. CASE FetchLost(t) \/ RemoveNothing(t) \/ Settle(t) \/ FailToSettle(t)
  <2>1. fresh[t] = NoCid /\ gone[t] = {}
    BY <1>3, EmptyHands DEF FetchLost, RemoveNothing, Settle, FailToSettle
  <2>2. UNCHANGED <<posts, held, leaked>>
    BY <1>3 DEF FetchLost, RemoveNothing, Settle, FailToSettle, index, past
  <2> QED BY <1>1, <2>1, <2>2, NothingForgotten
<1>4. CASE Upload(t)
  <2>1. fresh[t] = NoCid /\ gone[t] = {} /\ fresh'[t] = NewCid(t)
    BY <1>4, EmptyHands, UploadLocals DEF Upload, Types, GlobalTypes
  <2> QED BY <1>1, <1>4, <2>1, NothingForgotten DEF Upload, past
<1>5. CASE Append(t)
  <2>1. pc[t] = "append" /\ posts' = posts \cup {NewEntry(t)} /\ NewEntry(t).cid = fresh[t]
    BY <1>5, NewEntryType DEF Append, AppendEntry
  <2>2. gone[t] = {}
    BY <2>1, EmptyHands
  <2> QED BY <1>1, <1>5, <2>1, <2>2, NothingForgotten DEF Append
<1>6. CASE RefuseAudience(t)
  <2>1. gone[t] = {}
    BY <1>6, EmptyHands DEF RefuseAudience
  <2> QED BY <1>1, <1>6, <2>1, NothingForgotten DEF RefuseAudience, index
<1>7. CASE Remove(t)
  <2>1. fresh[t] = NoCid /\ gone[t] = {} /\ gone'[t] = FirstMatch(t)
    BY <1>7, EmptyHands, RemoveLocals DEF Remove, RemoveEntry, Types, GlobalTypes
  <2>2. \A e \in posts : e \in posts' \/ e \in gone'[t]
    BY <1>7, <2>1 DEF Remove, RemoveEntry
  <2> QED BY <1>1, <1>7, <2>1, <2>2, NothingForgotten DEF Remove
<1>8. CASE Unpin(t)
  <2>1. fresh[t] = NoCid
    BY <1>8, EmptyHands DEF Unpin
  <2>2. held' \subseteq held /\ \A e \in gone[t] : e.cid \notin held'
    BY <1>8 DEF Unpin, Unpinned
  <2> QED BY <1>1, <1>8, <2>1, <2>2, NothingForgotten DEF Unpin, past
<1>9. CASE UnpinFails(t)
  <2>1. fresh[t] = NoCid
    BY <1>9, EmptyHands DEF UnpinFails
  <2>2. UNCHANGED <<posts, held>> /\ leaked' = leaked \cup {e.cid : e \in gone[t]}
    BY <1>9 DEF UnpinFails, index
  <2> QED BY <1>1, <2>1, <2>2, NothingForgotten
<1> QED BY <1>2, <1>3, <1>4, <1>5, <1>6, <1>7, <1>8, <1>9, FaultAccounted DEF Step

LEMMA CrashAccounted ==
  ASSUME Types, Acc, Crash
  PROVE  Acc'
<1> SUFFICES ASSUME NEW c \in held' PROVE Accounted(c)'
  BY DEF Acc
<1>1. UNCHANGED <<posts, held>> /\ leaked \subseteq leaked'
  BY DEF Crash, index
<1>2. Accounted(c) /\ c # NoCid
  BY <1>1 DEF Acc, Types, GlobalTypes
<1>3. ASSUME NEW t \in Threads, fresh[t] = c PROVE c \in leaked'
  BY <1>2, <1>3 DEF Crash
<1>4. ASSUME NEW t \in Threads, NEW e \in gone[t], e.cid = c PROVE c \in leaked'
  BY <1>4 DEF Crash
<1> QED BY <1>1, <1>2, <1>3, <1>4 DEF Accounted

LEMMA NextAccounted == Types /\ Acc /\ [Next]_vars => Acc'
<1> SUFFICES ASSUME Types, Acc, [Next]_vars PROVE Acc'
  OBVIOUS
<1>1. CASE UNCHANGED vars
  BY <1>1 DEF vars, index, locals, past, Acc, Accounted
<1>2. ASSUME NEW t \in Threads, NEW r \in Request, Start(t, r) PROVE Acc'
  BY <1>2, StartKeeps DEF Acc, Accounted, index, past
<1> QED BY <1>1, <1>2, NextKinds, StepAccounted, CrashAccounted

(* What stays pinned is listed, in the hands of a request, or was left by a *)
(* failure, for any number of flips, posts and deletes at once.             *)
THEOREM NothingPinnedInSecret == Spec => []HeldIsAccounted
<1>1. Init => Acc
  BY DEF Init, Acc
<1>2. Acc => HeldIsAccounted
  BY DEF Acc, Accounted, HeldIsAccounted, InUse
<1> QED BY InitTypes, NextTypes, NextAccounted, <1>1, <1>2, PTL DEF Spec

----------------------------------------------------------------------------
(* What is not shared has one owner: an entry, an upload or an unpin *)

(* Every encryption the station has made has a smaller number than the next. *)
Numbers ==
  /\ \A c \in shared : ~ StationSealed(c)
  /\ \A c \in InUse \ {NoCid} : StationSealed(c) => c.blob < nextBlob

LEMMA InUseTypes == Types => InUse \subseteq Cid \cup {NoCid}
<1> SUFFICES ASSUME Types PROVE InUse \subseteq Cid \cup {NoCid}
  OBVIOUS
<1>1. \A t \in Threads : fresh[t] \in Cid \cup {NoCid}
  BY DEF Types, Locals, LocalTypes
<1>2. \A e \in posts : e.cid \in Cid
  BY DEF Types, GlobalTypes, Entry
<1>3. \A t \in Threads : \A e \in gone[t] : e.cid \in Cid
  BY CidsOfThreads
<1> QED BY <1>1, <1>2, <1>3 DEF InUse

(* Only an upload brings a CID into use. *)
LEMMA StepInUse ==
  ASSUME Types, NEW t \in Threads, Step(t)
  PROVE  \/ Upload(t) /\ InUse' \subseteq InUse \cup {NewCid(t)}
         \/ /\ InUse' \subseteq InUse \cup {NoCid}
            /\ UNCHANGED <<nextBlob, shared>>
<1>1. Others(t)
  BY StepLocals DEF Types, GlobalTypes
<1>2. ASSUME NEW c, \A e \in posts' : e.cid \in InUse \cup {c},
             fresh'[t] \in InUse \cup {c}, \A e \in gone'[t] : e.cid \in InUse \cup {c}
      PROVE  InUse' \subseteq InUse \cup {c}
  <2>1. \A s \in Threads : fresh'[s] \in InUse \cup {c}
    BY <1>1, <1>2 DEF Others, InUse
  <2>2. \A s \in Threads : \A e \in gone'[s] : e.cid \in InUse \cup {c}
    BY <1>1, <1>2 DEF Others, InUse
  <2> QED BY <1>2, <2>1, <2>2 DEF InUse
<1>3. /\ \A e \in posts : e.cid \in InUse
      /\ fresh[t] \in InUse
      /\ \A e \in gone[t] : e.cid \in InUse
  BY DEF InUse
<1>4. CASE Upload(t)
  <2>1. fresh'[t] = NewCid(t) /\ UNCHANGED <<posts, gone>>
    BY <1>4, UploadLocals DEF Upload, Types, GlobalTypes
  <2> QED BY <1>2, <1>3, <1>4, <2>1
<1>5. CASE Fetch(t)
  BY <1>5 DEF Fetch, index, locals, counts, past, InUse
<1>6. CASE \/ FetchLost(t) \/ RefuseAudience(t) \/ RemoveNothing(t) \/ Unpin(t) \/ UnpinFails(t)
           \/ Settle(t) \/ FailToSettle(t)
  <2>1. fresh'[t] = NoCid /\ gone'[t] = {}
    BY <1>6, AdvanceLocals, FinishLocals
       DEF FetchLost, RefuseAudience, RemoveNothing, Unpin, UnpinFails, Settle, FailToSettle,
           GiveUp, Busy, Types
  <2>2. UNCHANGED <<posts, nextBlob, shared>>
    BY <1>6 DEF FetchLost, RefuseAudience, RemoveNothing, Unpin, UnpinFails, Settle, FailToSettle,
                index, counts, past
  <2> QED BY <1>2, <1>3, <2>1, <2>2
<1>7. ASSUME AppendEntry(t), fresh'[t] = NoCid, gone'[t] = {}
      PROVE  InUse' \subseteq InUse \cup {NoCid}
  <2>1. posts' = posts \cup {NewEntry(t)} /\ NewEntry(t).cid = fresh[t]
    BY <1>7, NewEntryType DEF AppendEntry
  <2> QED BY <1>2, <1>3, <1>7, <2>1
<1>8. CASE Append(t)
  BY <1>7, <1>8, AppendLocals DEF Append, Types
<1>9. CASE Remove(t)
  <2>0. /\ gone'[t] = FirstMatch(t) /\ FirstMatch(t) \subseteq posts /\ posts' \subseteq posts
    BY <1>9, RemoveLocals, RemoveEntryTypes DEF Remove, Types, GlobalTypes
  <2>1. /\ posts' \subseteq posts /\ fresh'[t] = fresh[t] /\ gone'[t] \subseteq posts
        /\ UNCHANGED <<nextBlob, shared>>
    BY <1>9, <2>0 DEF Remove, counts
  <2>2. /\ \A e \in posts' : e.cid \in InUse
        /\ fresh'[t] \in InUse
        /\ \A e \in gone'[t] : e.cid \in InUse
    BY <1>3, <2>1
  <2>3. InUse' \subseteq InUse \cup {NoCid}
    BY <1>2, <2>2
  <2> QED BY <2>1, <2>3
<1>10. CASE Fault(t)
  <2>1. fresh'[t] = NoCid /\ gone'[t] = {}
    BY <1>10, FaultLocals DEF Types
  <2>2. UNCHANGED <<nextBlob, shared>>
    BY <1>10 DEF Fault, FailToAdd, FailToRemove, counts
  <2>3. AppendEntry(t) \/ posts' \subseteq posts
    BY <1>10 DEF Fault, FailToAdd, FailToRemove, RemoveEntry
  <2> QED BY <1>2, <1>3, <1>7, <2>1, <2>2, <2>3
<1> QED BY <1>4, <1>5, <1>6, <1>8, <1>9, <1>10 DEF Step

LEMMA UploadNumbers ==
  ASSUME Types, Numbers, NEW t \in Threads, Upload(t), InUse' \subseteq InUse \cup {NewCid(t)}
  PROVE  Numbers'
<1> DEFINE c == NewCid(t)
<1>1. c \in Cid /\ nextBlob \in Nat \ {0} /\ shared' = shared \cup ({c} \cap InUse)
  BY NewCidType DEF Upload, Types, GlobalTypes
<1>2. CASE Numbered(t)
  <2>1. c.blob = nextBlob /\ nextBlob' = nextBlob + 1
    BY <1>2 DEF NewCid, Upload
  <2> HIDE DEF c
  <2>2. StationSealed(c)
    BY <1>1, <2>1, SealingsAreNoNumbers DEF StationSealed
  <2>3. c \notin InUse
    BY <1>1, <2>1, <2>2, NoCidIsNone DEF Numbers
  <2>4. ASSUME NEW d \in InUse' \ {NoCid}, StationSealed(d) PROVE d.blob < nextBlob'
    <3>1. CASE d = c
      BY <1>1, <2>1, <3>1
    <3>2. CASE d \in InUse
      <4>1. d \in Cid /\ d.blob < nextBlob
        BY <2>4, <3>2, InUseTypes DEF Numbers
      <4>2. d.blob \in Nat
        BY <2>4, <4>1 DEF Cid, StationSealed
      <4> QED BY <1>1, <2>1, <4>1, <4>2
    <3> QED BY <2>4, <3>1, <3>2 DEF c
  <2>5. shared' = shared
    BY <1>1, <2>3
  <2> QED BY <2>4, <2>5 DEF Numbers, StationSealed
<1>3. CASE ~ Numbered(t)
  <2>1. ~ StationSealed(c)
    <3>1. Sealing(t) => req[t].blob \in Sealings
      BY RequestTypes DEF Upload, Types, Locals, Shape, Sealing, IsFlip
    <3>2. c.blob \in Sealings \cup {0}
      BY <1>3, <3>1 DEF NewCid
    <3> QED BY <3>2 DEF StationSealed
  <2>2. nextBlob' = nextBlob
    BY <1>3 DEF Upload
  <2> QED BY <1>1, <2>1, <2>2 DEF Numbers, StationSealed
<1> QED BY <1>2, <1>3

LEMMA NextNumbers == Types /\ Numbers /\ [Next]_vars => Numbers'
<1> SUFFICES ASSUME Types, Numbers, [Next]_vars PROVE Numbers'
  OBVIOUS
<1>1. ASSUME InUse' \subseteq InUse \cup {NoCid}, UNCHANGED <<nextBlob, shared>> PROVE Numbers'
  BY <1>1 DEF Numbers, StationSealed
<1>2. CASE UNCHANGED vars
  BY <1>1, <1>2 DEF vars, index, locals, counts, past, InUse
<1>3. ASSUME NEW t \in Threads, NEW r \in Request, Start(t, r) PROVE Numbers'
  BY <1>1, <1>3, StartKeeps DEF index, past, InUse
<1>4. ASSUME NEW t \in Threads, Step(t) PROVE Numbers'
  BY <1>1, <1>4, StepInUse, UploadNumbers
<1>5. CASE Crash
  <2>1. /\ \A t \in Threads : fresh'[t] = NoCid /\ gone'[t] = {}
        /\ UNCHANGED <<posts, nextBlob, shared>>
    BY <1>5, CrashLocals DEF Crash, index, Types
  <2>2. InUse' \subseteq InUse \cup {NoCid}
    BY <2>1 DEF InUse
  <2> QED BY <1>1, <2>1, <2>2
<1> QED BY <1>2, <1>3, <1>4, <1>5, NextKinds

Listed(c) == \E e \in posts : e.cid = c

Own ==
  /\ \A e \in posts : e.cid \notin shared => e.cid \in held
  /\ \A e, f \in posts : e.cid = f.cid /\ e.cid \notin shared => e = f
  /\ \A t \in Threads : fresh[t] # NoCid /\ fresh[t] \notin shared =>
       /\ fresh[t] \in held /\ ~ Listed(fresh[t])
       /\ \A s \in Threads \ {t} : fresh[s] # fresh[t]
  /\ \A t \in Threads : \A e \in gone[t] : e.cid \notin shared =>
       ~ Listed(e.cid) /\ \A s \in Threads : fresh[s] # e.cid

(* Letting go of entries, uploads and unpins disturbs none of it. *)
LEMMA LessOwn ==
  ASSUME Types, Own, posts' \subseteq posts, UNCHANGED <<held, shared>>,
         \A s \in Threads : fresh'[s] \in {NoCid, fresh[s]} /\ gone'[s] \subseteq gone[s]
  PROVE  Own'
<1>1. \A c : Listed(c)' => Listed(c)
  BY DEF Listed
<1>2. \A t \in Threads : \A e \in gone'[t] : e \in gone[t] /\ e.cid # NoCid
  BY CidsOfThreads
<1> QED BY <1>1, <1>2 DEF Own

(* What somebody has already, an upload shares; else it is the one owner.   *)
LEMMA UploadOwn ==
  ASSUME Types, Own, NEW t \in Threads, Upload(t)
  PROVE  Own'
<1> DEFINE c == NewCid(t)
<1>1. /\ Others(t) /\ fresh'[t] = c /\ gone' = gone
      /\ posts' = posts /\ held' = held \cup {c}
      /\ shared' = shared \cup ({c} \cap InUse)
  BY UploadLocals DEF Upload, Types, GlobalTypes
<1> HIDE DEF c
<1>2. c \notin shared' => /\ \A e \in posts : e.cid # c
                          /\ \A s \in Threads : fresh[s] # c
                          /\ \A s \in Threads : \A e \in gone[s] : e.cid # c
  BY <1>1 DEF InUse
<1>3. \A s \in Threads \ {t} : fresh'[s] = fresh[s]
  BY <1>1 DEF Others
<1>4. \A s \in Threads : fresh'[s] # NoCid /\ fresh'[s] \notin shared' =>
        /\ fresh'[s] \in held' /\ (\A e \in posts' : e.cid # fresh'[s])
        /\ \A r \in Threads \ {s} : fresh'[r] # fresh'[s]
  BY <1>1, <1>2, <1>3 DEF Own, Listed
<1>5. \A s \in Threads : \A e \in gone'[s] : e.cid \notin shared' =>
        /\ \A f \in posts' : f.cid # e.cid
        /\ \A r \in Threads : fresh'[r] # e.cid
  BY <1>1, <1>2, <1>3 DEF Own, Listed
<1>6. /\ \A e \in posts' : e.cid \notin shared' => e.cid \in held'
      /\ \A e, f \in posts' : e.cid = f.cid /\ e.cid \notin shared' => e = f
  BY <1>1 DEF Own
<1> QED BY <1>4, <1>5, <1>6 DEF Own, Listed

(* An appended entry takes the upload over. *)
LEMMA AppendEntryOwn ==
  ASSUME Types, Own, NEW t \in Threads, AppendEntry(t), Others(t), fresh'[t] = NoCid, gone'[t] = {},
         UNCHANGED <<held, shared>>
  PROVE  Own'
<1>1. /\ posts' = posts \cup {NewEntry(t)} /\ NewEntry(t).cid = fresh[t]
      /\ fresh[t] # NoCid /\ fresh[t] \in Cid
  BY NewEntryType DEF AppendEntry
<1> DEFINE new == NewEntry(t)
<1>2. fresh[t] \notin shared =>
        /\ fresh[t] \in held /\ \A e \in posts : e.cid # fresh[t]
        /\ \A s \in Threads \ {t} : fresh[s] # fresh[t]
        /\ \A s \in Threads : \A e \in gone[s] : e.cid # fresh[t]
  BY <1>1 DEF Own, Listed
<1> HIDE DEF new
<1>3. /\ \A e \in posts' : e.cid \notin shared' => e.cid \in held'
      /\ \A e, f \in posts' : e.cid = f.cid /\ e.cid \notin shared' => e = f
  BY <1>1, <1>2 DEF Own, new
<1>4. \A s \in Threads : fresh'[s] # NoCid => s # t /\ fresh'[s] = fresh[s]
  BY DEF Others
<1>5. \A s \in Threads : fresh'[s] # NoCid /\ fresh'[s] \notin shared' =>
        /\ fresh'[s] \in held' /\ (\A e \in posts' : e.cid # fresh'[s])
        /\ \A r \in Threads \ {s} : fresh'[r] # fresh'[s]
  BY <1>1, <1>2, <1>4 DEF Own, Listed
<1>6. \A s \in Threads : \A e \in gone'[s] : e \in gone[s] /\ e.cid # NoCid
  <2>1. \A s \in Threads : gone'[s] \subseteq gone[s]
    BY DEF Others
  <2> QED BY <2>1, CidsOfThreads
<1>7. \A s \in Threads : \A e \in gone'[s] : e.cid \notin shared' =>
        /\ \A f \in posts' : f.cid # e.cid
        /\ \A r \in Threads : fresh'[r] # e.cid
  BY <1>1, <1>2, <1>4, <1>6 DEF Own, Listed
<1> QED BY <1>3, <1>5, <1>7 DEF Own, Listed

LEMMA RemoveOwn ==
  ASSUME Types, Own, NEW t \in Threads, Remove(t)
  PROVE  Own'
<1>1. /\ posts' = posts \ FirstMatch(t) /\ FirstMatch(t) \subseteq posts
      /\ gone'[t] = FirstMatch(t) /\ Others(t) /\ UNCHANGED <<held, fresh, shared>>
  BY RemoveLocals, RemoveEntryTypes DEF Remove, RemoveEntry, Types, GlobalTypes
<1>2. \A c : Listed(c)' => Listed(c)
  BY <1>1 DEF Listed
<1>3. ASSUME NEW e \in FirstMatch(t), e.cid \notin shared
      PROVE  ~ Listed(e.cid)' /\ \A s \in Threads : fresh[s] # e.cid
  <2>1. e \in posts /\ e \notin posts' /\ e.cid # NoCid
    BY <1>1 DEF Types, GlobalTypes, Entry
  <2>2. \A f \in posts' : f.cid # e.cid
    BY <1>1, <1>3, <2>1 DEF Own
  <2>3. \A s \in Threads : fresh[s] # e.cid
    BY <1>3, <2>1 DEF Own, Listed
  <2> QED BY <2>2, <2>3 DEF Listed
<1>4. /\ \A e \in gone'[t] : e \in FirstMatch(t)
      /\ \A s \in Threads \ {t} : gone'[s] = gone[s]
  BY <1>1 DEF Others
<1> QED BY <1>1, <1>2, <1>3, <1>4 DEF Own

LEMMA UnpinOwn ==
  ASSUME Types, Own, NEW t \in Threads, Unpin(t)
  PROVE  Own'
<1>1. /\ posts' = posts /\ held' = held \ {e.cid : e \in gone[t]} /\ shared' = shared
  BY DEF Unpin, Unpinned, past
<1>2. fresh[t] = NoCid /\ fresh'[t] = NoCid /\ gone'[t] = {} /\ Others(t)
  BY EmptyHands, AdvanceLocals DEF Unpin, Busy, Types
<1>3. \A s \in Threads : fresh'[s] = fresh[s]
  BY <1>2 DEF Others
<1>4. \A e \in posts : e.cid \notin shared => e.cid \in held'
  BY <1>1 DEF Own, Listed
<1>5. \A s \in Threads : fresh[s] # NoCid /\ fresh[s] \notin shared => fresh[s] \in held'
  BY <1>1 DEF Own
<1>6. \A s \in Threads : gone'[s] \subseteq gone[s]
  BY <1>2 DEF Others
<1>7. \A c : Listed(c)' <=> Listed(c)
  BY <1>1 DEF Listed
<1> QED BY <1>1, <1>3, <1>4, <1>5, <1>6, <1>7 DEF Own

LEMMA StepOwn ==
  ASSUME Types, Own, NEW t \in Threads, Step(t)
  PROVE  Own'
<1>1. Others(t)
  BY StepLocals DEF Types, GlobalTypes
<1>2. CASE Fetch(t)
  BY <1>2, LessOwn DEF Fetch, index, locals, past
<1>3. CASE \/ FetchLost(t) \/ RefuseAudience(t) \/ RemoveNothing(t) \/ UnpinFails(t)
           \/ Settle(t) \/ FailToSettle(t)
  <2>1. fresh'[t] = NoCid /\ gone'[t] = {}
    BY <1>3, AdvanceLocals, FinishLocals
       DEF FetchLost, RefuseAudience, RemoveNothing, UnpinFails, Settle, FailToSettle, GiveUp,
           Busy, Types
  <2>2. UNCHANGED <<posts, held, shared>>
    BY <1>3 DEF FetchLost, RefuseAudience, RemoveNothing, UnpinFails, Settle, FailToSettle,
                index, past
  <2> QED BY <1>1, <2>1, <2>2, LessOwn DEF Others
<1>4. CASE Append(t)
  <2>1. fresh'[t] = NoCid /\ gone'[t] = {}
    BY <1>4, AppendLocals DEF Types
  <2> QED BY <1>1, <1>4, <2>1, AppendEntryOwn DEF Append
<1>5. CASE Fault(t)
  <2>1. fresh'[t] = NoCid /\ gone'[t] = {}
    BY <1>5, FaultLocals DEF Types
  <2>2. UNCHANGED <<held, shared>>
    BY <1>5 DEF Fault, FailToAdd, FailToRemove
  <2>3. AppendEntry(t) \/ posts' \subseteq posts
    BY <1>5 DEF Fault, FailToAdd, FailToRemove, RemoveEntry
  <2> QED BY <1>1, <2>1, <2>2, <2>3, LessOwn, AppendEntryOwn DEF Others
<1> QED BY <1>2, <1>3, <1>4, <1>5, UploadOwn, RemoveOwn, UnpinOwn DEF Step

LEMMA NextOwn == Types /\ Own /\ [Next]_vars => Own'
<1> SUFFICES ASSUME Types, Own, [Next]_vars PROVE Own'
  OBVIOUS
<1>1. CASE UNCHANGED vars
  BY <1>1, LessOwn DEF vars, index, locals, past
<1>2. ASSUME NEW t \in Threads, NEW r \in Request, Start(t, r) PROVE Own'
  BY <1>2, StartKeeps, LessOwn DEF index, past
<1>3. CASE Crash
  BY <1>3, CrashLocals, LessOwn DEF Crash, index, Types
<1> QED BY <1>1, <1>2, <1>3, NextKinds, StepOwn

(* What is listed is pinned, unless its bytes were uploaded while somebody  *)
(* had them, which those of the station's encryptions never are: no flip,   *)
(* delete or late unpin releases another entry's content, however many run  *)
(* at once (manifest.py:499-510, posts.py:226-236).                         *)
THEOREM ListedStaysHeld == Spec => []ListedIsHeld
<1>1. Init => Own
  BY DEF Init, Own
<1>2. Init => Numbers
  BY DEF Init, Numbers, InUse
<1>3. Own /\ Numbers => ListedIsHeld
  BY DEF Own, Numbers, ListedIsHeld
<1> QED BY InitTypes, NextTypes, NextOwn, NextNumbers, <1>1, <1>2, <1>3, PTL DEF Spec

----------------------------------------------------------------------------
(* A flip and its snapshot *)

Rest(t) == todo[t] \ First(todo[t])

(* Of the posts a flip found, those still listed are ahead of it, and no    *)
(* post equal to one of them has come before it in the file since.          *)
Batch(t) ==
  IsFlip(t) =>
    /\ \A e \in batch[t] : e.id < nextId /\ e.client = req[t].client
    /\ \A e, f \in batch[t] : e.id = f.id => e = f
    /\ \A e \in batch[t], f \in posts :
         f.client = e.client /\ f.cid = e.cid /\ f.id <= e.id => f \in batch[t]
    /\ todo[t] \subseteq batch[t]
    /\ ~ failed[t] => batch[t] \cap posts \subseteq IF pc[t] = "unpin" THEN Rest(t) ELSE todo[t]

Batches == \A t \in Threads : Batch(t)

(* Entries are only removed, or appended with a new number. *)
OldOrNew == nextId' \in {nextId, nextId + 1} /\ \A e \in posts' : e \in posts \/ e.id = nextId

LEMMA StepOldOrNew ==
  ASSUME Types, NEW t \in Threads, Step(t)
  PROVE  OldOrNew
<1>1. nextId \in Nat
  BY DEF Types, GlobalTypes
<1>2. CASE AppendEntry(t)
  BY <1>1, <1>2, NewEntryType DEF AppendEntry, OldOrNew
<1>3. CASE posts' \subseteq posts /\ nextId' = nextId
  BY <1>3 DEF OldOrNew
<1>4. ASSUME FailToAdd(t) PROVE AppendEntry(t) \/ (posts' \subseteq posts /\ nextId' = nextId)
  BY <1>4 DEF FailToAdd
<1>5. ASSUME FailToRemove(t) PROVE posts' \subseteq posts /\ nextId' = nextId
  BY <1>5 DEF FailToRemove, RemoveEntry, counts
<1>6. CASE Fault(t)
  BY <1>2, <1>3, <1>4, <1>5, <1>6 DEF Fault
<1>7. CASE Append(t)
  BY <1>2, <1>7 DEF Append
<1>8. CASE Remove(t)
  BY <1>3, <1>8 DEF Remove, RemoveEntry, counts
<1>9. CASE ~ (Fault(t) \/ Append(t) \/ Remove(t))
  BY <1>3, <1>9 DEF Step, Fetch, FetchLost, Upload, RefuseAudience, RemoveNothing,
                    Unpin, UnpinFails, Settle, FailToSettle, index, counts
<1> QED BY <1>6, <1>7, <1>8, <1>9

(* Other requests' steps leave a flip's part of the invariant alone. *)
LEMMA BatchKept ==
  ASSUME Types, Batches, OldOrNew, NEW s \in Threads,
         pc'[s] = pc[s] \/ {pc[s], pc'[s]} \subseteq Steps \ {"unpin"},
         req'[s] = req[s], todo'[s] = todo[s], batch'[s] = batch[s], failed'[s] = failed[s]
  PROVE  Batch(s)'
<1> SUFFICES ASSUME IsFlip(s) PROVE Batch(s)'
  BY DEF Batch, IsFlip
<1>1. /\ \A e \in posts : e \in Entry /\ e.id \in Nat
      /\ \A e \in batch[s] : e \in Entry /\ e.id \in Nat
      /\ nextId \in Nat
  BY DEF Types, Locals, LocalTypes, GlobalTypes, Entry
<1>2. \A e \in batch[s] : e.id < nextId /\ e.id < nextId'
  BY <1>1 DEF Batches, Batch, OldOrNew
<1>3. \A e \in posts' : e \in posts \/ \A f \in batch[s] : f.id < e.id /\ f # e
  BY <1>1, <1>2 DEF OldOrNew
<1>4. Rest(s)' = Rest(s)
  BY DEF Rest, First
<1>5. \A e \in batch[s], f \in posts' :
         f.client = e.client /\ f.cid = e.cid /\ f.id <= e.id => f \in batch[s]
  <2> SUFFICES ASSUME NEW e \in batch[s], NEW f \in posts', f.client = e.client, f.cid = e.cid, f.id <= e.id
               PROVE  f \in batch[s]
    OBVIOUS
  <2>1. CASE f \in posts
    BY <2>1 DEF Batches, Batch
  <2>2. CASE f.id = nextId
    BY <1>1, <1>2, <2>2
  <2> QED BY <2>1, <2>2 DEF OldOrNew
<1>6. batch[s] \cap posts' \subseteq batch[s] \cap posts
  BY <1>3
<1> QED BY <1>2, <1>4, <1>5, <1>6 DEF Batches, Batch, IsFlip

(* The flip has dealt with its current entry, or has recorded a failure.    *)
LEMMA BatchAdvanced ==
  ASSUME Types, Batches, OldOrNew, NEW t \in Threads, NEW failure \in BOOLEAN, After(t, failure),
         pc[t] \in Busy,
         failure \/ pc[t] = "unpin" \/ (IsFlip(t) => Current(t) \notin posts)
  PROVE  Batch(t)'
<1>1. CASE req'[t] = NoRequest
  BY <1>1 DEF Batch, IsFlip, NoRequest
<1>2. CASE /\ IsFlip(t) /\ req'[t] = req[t] /\ batch'[t] = batch[t]
           /\ todo'[t] = Rest(t)
           /\ failed'[t] = (failed[t] \/ failure)
           /\ pc'[t] = Ahead(todo'[t])
  <2>1. /\ \A e \in posts : e \in Entry /\ e.id \in Nat
        /\ \A e \in batch[t] : e \in Entry /\ e.id \in Nat
        /\ nextId \in Nat
    BY DEF Types, Locals, LocalTypes, GlobalTypes, Entry
  <2>2. \A e \in batch[t] : e.id < nextId /\ e.id < nextId'
    BY <1>2, <2>1 DEF Batches, Batch, OldOrNew
  <2>3. \A e \in posts' : e \in posts \/ \A f \in batch[t] : f.id < e.id /\ f # e
    BY <2>1, <2>2 DEF OldOrNew
  <2>4. \A e \in batch[t], f \in posts' :
           f.client = e.client /\ f.cid = e.cid /\ f.id <= e.id => f \in batch[t]
    <3> SUFFICES ASSUME NEW e \in batch[t], NEW f \in posts', f.client = e.client, f.cid = e.cid, f.id <= e.id
                 PROVE  f \in batch[t]
      OBVIOUS
    <3>1. CASE f \in posts
      BY <1>2, <3>1 DEF Batches, Batch
    <3>2. CASE f.id = nextId
      BY <2>1, <2>2, <3>2
    <3> QED BY <3>1, <3>2 DEF OldOrNew
  <2>5. todo'[t] \subseteq batch'[t] /\ pc'[t] # "unpin"
    BY <1>2 DEF Batches, Batch, Rest, Ahead
  <2>6. ~ failed'[t] => batch[t] \cap posts \subseteq Rest(t)
    <3> SUFFICES ASSUME ~ failed[t], ~ failure, NEW e \in batch[t] \cap posts PROVE e \in Rest(t)
      BY <1>2
    <3>1. CASE pc[t] = "unpin"
      BY <1>2, <3>1 DEF Batches, Batch
    <3>2. CASE pc[t] # "unpin" /\ Current(t) \notin posts
      <4>1. e \in todo[t] /\ todo[t] \subseteq batch[t]
        BY <1>2, <3>2 DEF Batches, Batch
      <4>2. Current(t) \in First(todo[t]) /\ Current(t) \in todo[t]
        BY <1>2, CurrentIsFirst DEF Types
      <4>3. CASE e \in First(todo[t])
        <5>1. e.id = Current(t).id
          BY <2>1, <4>1, <4>2, <4>3 DEF First
        <5>2. e = Current(t)
          BY <1>2, <4>1, <4>2, <5>1 DEF Batches, Batch
        <5> QED BY <3>2, <5>2
      <4> QED BY <4>1, <4>3 DEF Rest
    <3> QED BY <1>2, <3>1, <3>2
  <2>7. batch[t] \cap posts' \subseteq batch[t] \cap posts
    BY <2>3
  <2> QED BY <1>2, <2>2, <2>4, <2>5, <2>6, <2>7 DEF Batches, Batch, IsFlip
<1> QED BY <1>1, <1>2 DEF After, Rest

(* The first match is the current entry, when that is still listed: an      *)
(* equal entry before it would be one of the snapshot dealt with already.   *)
LEMMA BatchRemoved ==
  ASSUME Types, Batches, NEW t \in Threads, Remove(t), IsFlip(t)
  PROVE  Batch(t)'
<1>0. OldOrNew
  BY StepOldOrNew DEF Step
<1>1. pc[t] = "remove" /\ posts' = posts \ FirstMatch(t)
  BY DEF Remove, RemoveEntry
<1>2. /\ pc'[t] = "unpin" /\ req'[t] = req[t] /\ todo'[t] = todo[t] /\ batch'[t] = batch[t]
      /\ failed'[t] = failed[t] /\ nextId' = nextId
  BY RemoveLocals DEF Remove, counts, Types, GlobalTypes
<1> PICK e \in todo[t] : e = Current(t) /\ e \in First(todo[t])
  BY <1>1, CurrentIsFirst DEF Types, Busy
<1>3. /\ \A f \in posts : f.id \in Nat
      /\ \A f \in batch[t] : f.id \in Nat
      /\ todo[t] \subseteq batch[t] /\ e.client = req[t].client
  BY DEF Types, Locals, LocalTypes, GlobalTypes, Entry, Batches, Batch
<1>4. ~ failed[t] => e \notin posts'
  <2> SUFFICES ASSUME ~ failed[t], e \in posts PROVE e \in FirstMatch(t)
    BY <1>1
  <2>1. e \in Matches(t)
    BY <1>3 DEF Matches, Unwanted
  <2>2. ASSUME NEW f \in Matches(t), f.id < e.id PROVE FALSE
    <3>1. f \in posts /\ f.client = e.client /\ f.cid = e.cid /\ f.id <= e.id
      BY <1>3, <2>2 DEF Matches, Unwanted
    <3>2. f \in batch[t]
      BY <1>3, <3>1 DEF Batches, Batch
    <3>3. f \in todo[t]
      BY <1>1, <3>1, <3>2 DEF Batches, Batch
    <3> QED BY <1>3, <2>2, <3>3 DEF First
  <2>3. \A f \in Matches(t) : e.id <= f.id
    BY <1>3, <2>2 DEF Matches
  <2> QED BY <2>1, <2>3 DEF FirstMatch, First
<1>5. ~ failed[t] => batch[t] \cap posts' \subseteq Rest(t)
  <2> SUFFICES ASSUME ~ failed[t], NEW f \in batch[t] \cap posts' PROVE f \in Rest(t)
    OBVIOUS
  <2>1. f \in todo[t]
    BY <1>1 DEF Batches, Batch
  <2>2. ASSUME f \in First(todo[t]) PROVE f = e
    <3>1. f.id = e.id
      BY <1>3, <2>1, <2>2 DEF First
    <3> QED BY <1>3, <2>1, <3>1 DEF Batches, Batch
  <2> QED BY <1>4, <2>1, <2>2 DEF Rest
<1>6. Rest(t)' = Rest(t)
  BY <1>2 DEF Rest, First
<1> QED BY <1>1, <1>2, <1>5, <1>6 DEF Batches, Batch, IsFlip

LEMMA StepBatches ==
  ASSUME Types, Batches, NEW t \in Threads, Step(t)
  PROVE  Batches'
<1>1. Others(t) /\ OldOrNew /\ Locals
  BY StepLocals, StepOldOrNew DEF Types, GlobalTypes
<1>2. \A s \in Threads \ {t} : Batch(s)'
  BY <1>1, BatchKept DEF Others
<1>3. Batch(t)'
  <2>1. CASE Fetch(t) \/ Upload(t)
    <3>1. {pc[t], pc'[t]} \subseteq Steps \ {"unpin"}
      BY <2>1, <1>1 DEF Fetch, Upload, Goto, Steps, Busy, Locals, LocalTypes
    <3> QED BY <1>1, <2>1, <3>1, BatchKept DEF Fetch, Upload, locals
  <2>2. CASE FetchLost(t) \/ RefuseAudience(t)
    BY <1>1, <2>2, AdvanceLocals, BatchAdvanced DEF FetchLost, RefuseAudience, GiveUp, Busy
  <2>3. CASE Append(t)
    <3>1. CASE req'[t] = NoRequest
      BY <3>1 DEF Batch, IsFlip, NoRequest
    <3>2. CASE /\ pc'[t] = "remove" /\ req'[t] = req[t] /\ todo'[t] = todo[t]
               /\ batch'[t] = batch[t] /\ failed'[t] = failed[t]
      <4>1. {pc[t], pc'[t]} \subseteq Steps \ {"unpin"}
        BY <2>3, <3>2 DEF Append, AppendEntry, Steps, Busy
      <4> QED BY <1>1, <3>2, <4>1, BatchKept
    <3> QED BY <1>1, <2>3, <3>1, <3>2, AppendLocals
  <2>4. CASE Remove(t)
    <3>1. CASE ~ IsFlip(t)
      BY <2>4, <3>1 DEF Remove, Batch, IsFlip
    <3> QED BY <2>4, <3>1, BatchRemoved
  <2>5. CASE RemoveNothing(t)
    <3>1. After(t, FALSE) /\ pc[t] \in Busy
      BY <1>1, <2>5, AdvanceLocals DEF RemoveNothing, Busy
    <3>2. IsFlip(t) => Current(t) \notin posts
      <4> SUFFICES ASSUME IsFlip(t), Current(t) \in posts PROVE Current(t) \in Matches(t)
        BY <2>5 DEF RemoveNothing
      <4>1. Current(t) \in batch[t]
        BY <1>1, <3>1, CurrentIsFirst DEF Batches, Batch
      <4>2. Current(t).client = req[t].client
        BY <4>1 DEF Batches, Batch
      <4> QED BY <4>2 DEF Matches, Unwanted
    <3> QED BY <1>1, <3>1, <3>2, BatchAdvanced
  <2>6. CASE Unpin(t) \/ UnpinFails(t)
    BY <1>1, <2>6, AdvanceLocals, BatchAdvanced DEF Unpin, UnpinFails, Busy
  <2>7. CASE Settle(t) \/ FailToSettle(t)
    <3>1. req'[t] = NoRequest
      BY <1>1, <2>7, FinishLocals DEF Settle, FailToSettle
    <3> QED BY <3>1 DEF Batch, IsFlip, NoRequest
  <2>8. CASE Fault(t)
    <3>1. pc[t] \in Busy
      BY <2>8 DEF Fault, FailToAdd, FailToRemove, AppendEntry, Busy
    <3> QED BY <1>1, <2>8, <3>1, FaultLocals, BatchAdvanced
  <2> QED BY <2>1, <2>2, <2>3, <2>4, <2>5, <2>6, <2>7, <2>8 DEF Step
<1> QED BY <1>2, <1>3 DEF Batches

LEMMA StartBatches ==
  ASSUME Types, Batches, NEW t \in Threads, NEW r \in Request, Start(t, r)
  PROVE  Batches'
<1>1. Others(t) /\ OldOrNew
  BY StartLocals, StartKeeps DEF Types, GlobalTypes, OldOrNew, index
<1>2. \A s \in Threads \ {t} : Batch(s)'
  BY <1>1, BatchKept DEF Others
<1>3. req'[t] = r
  BY DEF Start, StartPost, StartDelete, StartFlip, Accept, Types, Locals, LocalTypes
<1>4. CASE r.op # "flip"
  BY <1>2, <1>3, <1>4 DEF Batches, Batch, IsFlip
<1>5. CASE r.op = "flip"
  <2>1. /\ StartFlip(t, r)
        /\ todo'[t] = Snapshot(r) /\ batch'[t] = Snapshot(r) /\ posts' = posts /\ nextId' = nextId
        /\ pc'[t] # "unpin"
    BY <1>5 DEF Start, StartPost, StartDelete, StartFlip, Types, Locals, LocalTypes, index, Goto, Ahead
  <2>2. /\ Snapshot(r) \subseteq posts
        /\ \A e \in Snapshot(r) : e.client = r.client
        /\ \A e \in Snapshot(r), f \in posts : f.client = e.client /\ f.cid = e.cid => f \in Snapshot(r)
    BY DEF Snapshot
  <2> HIDE DEF Snapshot
  <2>3. Batch(t)'
    BY <1>3, <2>1, <2>2 DEF Batch, Types, GlobalTypes
  <2> QED BY <1>2, <2>3 DEF Batches
<1> QED BY <1>4, <1>5

LEMMA NextBatches == Types /\ Batches /\ [Next]_vars => Batches'
<1> SUFFICES ASSUME Types, Batches, [Next]_vars PROVE Batches'
  OBVIOUS
<1>1. CASE UNCHANGED vars
  <2>1. OldOrNew
    BY <1>1 DEF vars, index, counts, OldOrNew
  <2> QED BY <1>1, <2>1, BatchKept DEF vars, locals, Batches
<1>2. CASE Crash
  BY <1>2, CrashLocals DEF Batches, Batch, IsFlip, NoRequest, Types
<1> QED BY <1>1, <1>2, NextKinds, StepBatches, StartBatches

(* A flip in which nothing failed has replaced every post it found, whatever *)
(* other requests did to the list meanwhile.                                *)
THEOREM FlipReplacesAll == Spec => []FlipLeavesNoneBehind
<1>1. Init => Batches
  BY DEF Init, Batches, Batch, IsFlip, NoRequest
<1>2. Types /\ Batches => FlipLeavesNoneBehind
  BY DEF Types, Locals, Shape, Batches, Batch, FlipLeavesNoneBehind
<1> QED BY InitTypes, NextTypes, NextBatches, <1>1, <1>2, PTL DEF Spec

----------------------------------------------------------------------------
(* The balance: what was stored and the copies whose originals are still to *)
(* go, against what is listed and what was deleted                          *)

Copied(c, p) ==
  {t \in Threads : pc[t] = "remove" /\ IsFlip(t) /\ req[t].client = c /\ Current(t).cid.plain = p}
Copying == {t \in Threads : pc[t] = "remove" /\ IsFlip(t)}

Finite ==
  IsFiniteSet(posts) /\ IsFiniteSet(stored) /\ IsFiniteSet(dropped) /\ IsFiniteSet(Copying)

DroppedIsGone == \A e \in dropped : e \notin posts /\ e.id < nextId

BalanceOf(c, p) ==
  Cardinality(Saying(stored, c, p)) + Cardinality(Copied(c, p))
    <= Cardinality(Saying(posts, c, p)) + Cardinality(Saying(dropped, c, p))

Balance == Finite /\ DroppedIsGone /\ \A c \in Clients, p \in Contents : BalanceOf(c, p)

LEMMA FiniteParts ==
  ASSUME Finite, NEW c, NEW p
  PROVE  /\ IsFiniteSet(Saying(posts, c, p)) /\ IsFiniteSet(Saying(stored, c, p))
         /\ IsFiniteSet(Saying(dropped, c, p)) /\ IsFiniteSet(Copied(c, p))
         /\ {Cardinality(Saying(posts, c, p)), Cardinality(Saying(stored, c, p)),
             Cardinality(Saying(dropped, c, p)), Cardinality(Copied(c, p))} \subseteq Nat
<1>1. /\ Saying(posts, c, p) \in SUBSET posts /\ Saying(stored, c, p) \in SUBSET stored
      /\ Saying(dropped, c, p) \in SUBSET dropped /\ Copied(c, p) \in SUBSET Copying
  BY DEF Saying, Copied, Copying
<1>2. /\ IsFiniteSet(Saying(posts, c, p)) /\ IsFiniteSet(Saying(stored, c, p))
      /\ IsFiniteSet(Saying(dropped, c, p)) /\ IsFiniteSet(Copied(c, p))
  BY <1>1, FS_Subset DEF Finite
<1> QED BY <1>2, FS_CardinalityType

LEMMA AddCardinality ==
  ASSUME NEW S, NEW x, IsFiniteSet(S)
  PROVE  /\ IsFiniteSet(S \cup {x}) /\ Cardinality(S \cup {x}) \in Nat
         /\ Cardinality(S \cup {x}) <= Cardinality(S) + 1
         /\ x \notin S => Cardinality(S \cup {x}) = Cardinality(S) + 1
<1>1. IsFiniteSet(S \cup {x}) /\ Cardinality(S) \in Nat
  BY FS_AddElement, FS_CardinalityType
<1>2. Cardinality(S \cup {x}) = IF x \in S THEN Cardinality(S) ELSE Cardinality(S) + 1
  BY FS_AddElement
<1> QED BY <1>1, <1>2

LEMMA RemoveCardinality ==
  ASSUME NEW S, NEW x \in S, IsFiniteSet(S)
  PROVE  IsFiniteSet(S \ {x}) /\ Cardinality(S \ {x}) = Cardinality(S) - 1
BY FS_RemoveElement

LEMMA SubsetCardinality ==
  ASSUME NEW S, IsFiniteSet(S), NEW T \in SUBSET S
  PROVE  IsFiniteSet(T) /\ Cardinality(T) <= Cardinality(S) /\ Cardinality(T) \in Nat
<1>1. IsFiniteSet(T) /\ Cardinality(T) <= Cardinality(S)
  BY FS_Subset
<1> QED BY <1>1, FS_CardinalityType

(* The current entry depends on what is left to do alone. *)
FirstOf(entries) == CHOOSE e \in entries : e \in First(entries)

LEMMA CurrentKept ==
  ASSUME NEW s, todo'[s] = todo[s]
  PROVE  Current(s)' = Current(s)
<1>1. Current(s) = FirstOf(todo[s])
  BY DEF Current, FirstOf
<1>2. Current(s)' = FirstOf(todo'[s])
  BY DEF Current, FirstOf
<1> QED BY <1>1, <1>2

LEMMA CopiedByOthers ==
  ASSUME NEW t, Others(t)
  PROVE  /\ \A c, p : Copied(c, p)' \subseteq Copied(c, p) \cup {t}
         /\ Copying' \subseteq Copying \cup {t}
<1>1. \A s \in Threads \ {t} : Current(s)' = Current(s)
  BY CurrentKept DEF Others
<1> QED BY <1>1 DEF Copied, Copying, Others, IsFlip

(* A thread that is not about to remove an original has none to answer for. *)
LEMMA CopiedLess ==
  ASSUME NEW t, Others(t), pc'[t] = "remove" /\ IsFlip(t)' => FALSE
  PROVE  \A c, p : Copied(c, p)' \subseteq Copied(c, p) \ {t}
BY CopiedByOthers DEF Copied

LEMMA QuietBalance ==
  ASSUME Types, Balance, UNCHANGED <<posts, stored, dropped, nextId>>,
         Copying' \subseteq Copying, \A c, p : Copied(c, p)' \subseteq Copied(c, p)
  PROVE  Balance'
<1>1. Finite'
  BY SubsetCardinality DEF Balance, Finite
<1>2. ASSUME NEW c \in Clients, NEW p \in Contents PROVE BalanceOf(c, p)'
  <2>1. Cardinality(Copied(c, p)') <= Cardinality(Copied(c, p)) /\ Cardinality(Copied(c, p)') \in Nat
    BY FiniteParts, SubsetCardinality DEF Balance
  <2>2. /\ Saying(posts, c, p)' = Saying(posts, c, p) /\ Saying(stored, c, p)' = Saying(stored, c, p)
        /\ Saying(dropped, c, p)' = Saying(dropped, c, p)
    BY DEF Saying
  <2>3. BalanceOf(c, p)
    BY DEF Balance
  <2>4. {Cardinality(Saying(posts, c, p)), Cardinality(Saying(stored, c, p)),
         Cardinality(Saying(dropped, c, p)), Cardinality(Copied(c, p))} \subseteq Nat
    BY FiniteParts DEF Balance
  <2> QED BY <2>1, <2>2, <2>3, <2>4 DEF BalanceOf
<1> QED BY <1>1, <1>2 DEF Balance, DroppedIsGone

(* A new entry: a post that is stored, or a copy that owes an original, or  *)
(* one whose publication failed.                                            *)
LEMMA GrowBalance ==
  ASSUME Types, Balance, NEW t \in Threads, AppendEntry(t), Others(t), UNCHANGED dropped,
         \/ stored' = stored \cup {NewEntry(t)} /\ ~ (pc'[t] = "remove" /\ IsFlip(t)')
         \/ /\ stored' = stored
            /\ pc'[t] = "remove" /\ IsFlip(t)' =>
                 req'[t].client = NewEntry(t).client /\ Current(t)'.cid.plain = NewEntry(t).cid.plain
  PROVE  Balance'
<1> DEFINE n == NewEntry(t)
<1>1. n \in Entry /\ n.id = nextId /\ posts' = posts \cup {n} /\ nextId' = nextId + 1
  BY NewEntryType DEF AppendEntry
<1>2. /\ \A e \in posts : e.id \in Nat /\ e.id < nextId
      /\ \A e \in dropped : e.id \in Nat /\ e.id < nextId
      /\ nextId \in Nat
  BY DEF Types, GlobalTypes, Balance, DroppedIsGone, Entry
<1>3. n \notin posts /\ n \notin dropped
  BY <1>1, <1>2
<1> HIDE DEF n
<1>4. Finite'
  <2>1. IsFiniteSet(posts') /\ IsFiniteSet(stored')
    <3>1. IsFiniteSet(posts \cup {n}) /\ IsFiniteSet(stored \cup {n})
      BY AddCardinality DEF Balance, Finite
    <3>2. stored' \in {stored, stored \cup {n}}
      BY DEF n
    <3> QED BY <1>1, <3>1, <3>2 DEF Balance, Finite
  <2>2. IsFiniteSet(Copying')
    BY CopiedByOthers, AddCardinality, SubsetCardinality DEF Balance, Finite
  <2> QED BY <2>1, <2>2 DEF Finite, Balance
<1>5. DroppedIsGone'
  BY <1>1, <1>2, <1>3 DEF Balance, DroppedIsGone
<1>6. ASSUME NEW c \in Clients, NEW p \in Contents PROVE BalanceOf(c, p)'
  <2> DEFINE P == Saying(posts, c, p)
             S == Saying(stored, c, p)
             C == Copied(c, p)
             D == Saying(dropped, c, p)
  <2>1. /\ IsFiniteSet(P) /\ IsFiniteSet(S) /\ IsFiniteSet(C)
        /\ {Cardinality(P), Cardinality(S), Cardinality(C), Cardinality(D)} \subseteq Nat
        /\ Cardinality(S) + Cardinality(C) <= Cardinality(P) + Cardinality(D)
    BY FiniteParts DEF Balance, BalanceOf
  <2>2. D' = D
    BY DEF Saying
  <2>3. CASE ~ (n.client = c /\ n.cid.plain = p)
    <3>1. P' = P /\ S' = S
      BY <1>1, <2>3 DEF Saying, n
    <3>2. C' \subseteq C
      BY CopiedByOthers, <2>3 DEF Copied, n
    <3>3. Cardinality(C') <= Cardinality(C) /\ Cardinality(C') \in Nat
      BY <2>1, <3>2, SubsetCardinality
    <3> QED BY <2>1, <2>2, <3>1, <3>3 DEF BalanceOf
  <2>4. CASE n.client = c /\ n.cid.plain = p
    <3>1. P' = P \cup {n} /\ n \notin P
      BY <1>1, <1>3, <2>4 DEF Saying
    <3>2. Cardinality(P') = Cardinality(P) + 1
      BY <2>1, <3>1, AddCardinality
    <3>3. CASE stored' = stored \cup {n} /\ ~ (pc'[t] = "remove" /\ IsFlip(t)')
      <4>1. S' = S \cup {n} /\ C' \subseteq C
        BY <2>4, <3>3, CopiedLess DEF Saying
      <4>2. /\ Cardinality(S') <= Cardinality(S) + 1 /\ Cardinality(S') \in Nat
            /\ Cardinality(C') <= Cardinality(C) /\ Cardinality(C') \in Nat
        BY <2>1, <4>1, AddCardinality, SubsetCardinality
      <4> QED BY <2>1, <2>2, <3>2, <4>2 DEF BalanceOf
    <3>4. CASE stored' = stored
      <4>1. S' = S /\ C' \subseteq C \cup {t}
        BY <3>4, CopiedByOthers DEF Saying
      <4>2. Cardinality(C') <= Cardinality(C) + 1 /\ Cardinality(C') \in Nat
        <5>1. IsFiniteSet(C \cup {t}) /\ Cardinality(C \cup {t}) <= Cardinality(C) + 1
              /\ Cardinality(C \cup {t}) \in Nat
          BY <2>1, AddCardinality
        <5>2. Cardinality(C') <= Cardinality(C \cup {t}) /\ Cardinality(C') \in Nat
          BY <4>1, <5>1, SubsetCardinality
        <5> QED BY <2>1, <5>1, <5>2
      <4> QED BY <2>1, <2>2, <3>2, <4>1, <4>2 DEF BalanceOf
    <3> QED BY <3>3, <3>4 DEF n
  <2> QED BY <2>3, <2>4
<1> QED BY <1>4, <1>5, <1>6 DEF Balance

(* One entry goes: the flip's debt is paid, or the owner wanted it gone.    *)
LEMMA ShrinkBalance ==
  ASSUME Types, Balance, NEW t \in Threads, RemoveEntry(t), Others(t), UNCHANGED <<stored, nextId>>,
         pc'[t] # "remove"
  PROVE  Balance'
<1>1. /\ pc[t] = "remove" /\ posts' = posts \ FirstMatch(t) /\ Matches(t) # {}
      /\ dropped' = IF IsFlip(t) THEN dropped ELSE dropped \cup FirstMatch(t)
  BY DEF RemoveEntry
<1>2. Matches(t) \in SUBSET Entry /\ \A e, f \in Matches(t) : e.id \in Nat /\ (e.id = f.id => e = f)
  BY DEF Matches, Types, GlobalTypes, Entry
<1>3. FirstMatch(t) # {} /\ FirstMatch(t) \subseteq Matches(t)
  BY <1>1, <1>2, FirstIsOne DEF FirstMatch
<1>4. PICK g \in Matches(t) : FirstMatch(t) = {g}
  <2>1. PICK g \in FirstMatch(t) : TRUE
    BY <1>3
  <2>2. \A f \in FirstMatch(t) : f = g
    BY <1>2, <1>3, <2>1 DEF FirstMatch, First
  <2> QED BY <1>3, <2>1, <2>2
<1>5. /\ g \in posts /\ g \notin dropped /\ g.client = req[t].client /\ g.cid = Unwanted(t)
      /\ g.id < nextId
  BY <1>4 DEF Matches, Balance, DroppedIsGone, Types, GlobalTypes
<1>6. \A c, p : Copied(c, p)' \subseteq Copied(c, p) \ {t}
  BY CopiedLess
<1>7. Finite'
  <2>1. IsFiniteSet(posts') /\ IsFiniteSet(dropped')
    <3>1. IsFiniteSet(posts \ {g}) /\ IsFiniteSet(dropped \cup {g})
      BY <1>5, RemoveCardinality, AddCardinality DEF Balance, Finite
    <3>2. posts' = posts \ {g} /\ dropped' \in {dropped, dropped \cup {g}}
      BY <1>1, <1>4
    <3> QED BY <3>1, <3>2 DEF Balance, Finite
  <2>2. IsFiniteSet(Copying')
    <3>1. IsFiniteSet(Copying \cup {t})
      BY AddCardinality DEF Balance, Finite
    <3> QED BY <3>1, CopiedByOthers, SubsetCardinality
  <2> QED BY <2>1, <2>2 DEF Finite, Balance
<1>8. DroppedIsGone'
  BY <1>1, <1>4, <1>5 DEF Balance, DroppedIsGone
<1>9. ASSUME NEW c \in Clients, NEW p \in Contents PROVE BalanceOf(c, p)'
  <2> DEFINE P == Saying(posts, c, p)
             S == Saying(stored, c, p)
             C == Copied(c, p)
             D == Saying(dropped, c, p)
  <2>1. /\ IsFiniteSet(P) /\ IsFiniteSet(D) /\ IsFiniteSet(C)
        /\ {Cardinality(P), Cardinality(S), Cardinality(C), Cardinality(D)} \subseteq Nat
        /\ Cardinality(S) + Cardinality(C) <= Cardinality(P) + Cardinality(D)
    BY FiniteParts DEF Balance, BalanceOf
  <2>2. S' = S
    BY DEF Saying
  <2>3. CASE ~ (g.client = c /\ g.cid.plain = p)
    <3>1. P' = P /\ D' = D
      BY <1>1, <1>4, <2>3 DEF Saying
    <3>2. Cardinality(C') <= Cardinality(C) /\ Cardinality(C') \in Nat
      BY <1>6, <2>1, SubsetCardinality
    <3> QED BY <2>1, <2>2, <3>1, <3>2 DEF BalanceOf
  <2>4. CASE g.client = c /\ g.cid.plain = p
    <3>1. P' = P \ {g} /\ g \in P /\ g \notin D
      BY <1>1, <1>4, <1>5, <2>4 DEF Saying
    <3>2. Cardinality(P') = Cardinality(P) - 1
      BY <2>1, <3>1, RemoveCardinality
    <3>3. CASE IsFlip(t)
      <4>1. D' = D
        BY <1>1, <3>3 DEF Saying
      <4>2. t \in C
        BY <1>1, <1>5, <2>4, <3>3 DEF Copied, Unwanted
      <4>3. IsFiniteSet(C \ {t}) /\ Cardinality(C \ {t}) = Cardinality(C) - 1
        BY <2>1, <4>2, RemoveCardinality
      <4>4. Cardinality(C') <= Cardinality(C) - 1 /\ Cardinality(C') \in Nat
        BY <1>6, <4>3, SubsetCardinality
      <4> QED BY <2>1, <2>2, <3>2, <4>1, <4>4 DEF BalanceOf
    <3>4. CASE ~ IsFlip(t)
      <4>1. D' = D \cup {g}
        BY <1>1, <1>4, <2>4, <3>4 DEF Saying
      <4>2. Cardinality(D') = Cardinality(D) + 1
        BY <2>1, <3>1, <4>1, AddCardinality
      <4>3. Cardinality(C') <= Cardinality(C) /\ Cardinality(C') \in Nat
        BY <1>6, <2>1, SubsetCardinality
      <4> QED BY <2>1, <2>2, <3>2, <4>2, <4>3 DEF BalanceOf
    <3> QED BY <3>3, <3>4
  <2> QED BY <2>3, <2>4
<1> QED BY <1>7, <1>8, <1>9 DEF Balance

(* Steps that touch neither list nor its history. *)
LEMMA StillBalance ==
  ASSUME Types, Balance, NEW t \in Threads, Others(t), UNCHANGED <<posts, stored, dropped, nextId>>,
         pc'[t] # "remove"
  PROVE  Balance'
<1>1. \A c, p : Copied(c, p)' \subseteq Copied(c, p)
  BY CopiedLess
<1>2. Copying' \subseteq Copying
  BY CopiedByOthers DEF Copying
<1> QED BY <1>1, <1>2, QuietBalance

LEMMA AfterIsNoRemove ==
  ASSUME NEW t, NEW failure, After(t, failure)
  PROVE  pc'[t] # "remove"
BY DEF After, Ahead

(* A flip's upload says what the post it replaces says. *)
SameWords(t) == IsFlip(t) /\ pc[t] = "append" => fresh[t].plain = Current(t).cid.plain
Copies == \A t \in Threads : SameWords(t)

LEMMA CopiesKept ==
  ASSUME Copies, NEW t \in Threads, Others(t), SameWords(t)'
  PROVE  Copies'
<1>1. ASSUME NEW s \in Threads \ {t} PROVE SameWords(s)'
  <2>1. Current(s)' = Current(s)
    BY CurrentKept DEF Others
  <2> QED BY <2>1 DEF Copies, SameWords, Others, IsFlip
<1> QED BY <1>1 DEF Copies

LEMMA StepCopies ==
  ASSUME Types, Copies, NEW t \in Threads, Step(t)
  PROVE  Copies'
<1>1. Locals /\ Others(t)
  BY StepLocals DEF Types, GlobalTypes
<1>2. CASE Upload(t)
  <2>1. fresh'[t].plain = Plain(t)
    <3>1. fresh'[t] = NewCid(t)
      BY <1>2, UploadLocals DEF Types, GlobalTypes
    <3> QED BY <3>1 DEF NewCid
  <2>2. Current(t)' = Current(t) /\ IsFlip(t)' = IsFlip(t)
    BY <1>2, CurrentKept DEF Upload, IsFlip
  <2> QED BY <1>1, <2>1, <2>2, CopiesKept DEF SameWords, Plain
<1>3. CASE ~ Upload(t)
  <2>1. pc'[t] # "append"
    <3>1. CASE FetchLost(t) \/ RefuseAudience(t) \/ RemoveNothing(t) \/ Unpin(t)
               \/ UnpinFails(t) \/ Fault(t)
      BY <1>1, <3>1, AdvanceLocals, FaultLocals
         DEF FetchLost, RefuseAudience, RemoveNothing, Unpin, UnpinFails, GiveUp, Busy, After, Ahead
    <3>2. CASE Fetch(t) \/ Append(t) \/ Remove(t) \/ Settle(t) \/ FailToSettle(t)
      BY <1>1, <3>2, AppendLocals, RemoveLocals, FinishLocals
         DEF Fetch, Goto, Settle, FailToSettle, Locals, LocalTypes, Types, GlobalTypes
    <3> QED BY <1>3, <3>1, <3>2 DEF Step
  <2> QED BY <1>1, <2>1, CopiesKept DEF SameWords
<1> QED BY <1>2, <1>3

LEMMA StartCopies ==
  ASSUME Types, Copies, NEW t \in Threads, NEW r \in Request, Start(t, r)
  PROVE  Copies'
<1>1. Others(t) /\ fresh'[t] = NoCid /\ Shape(t)'
  BY StartLocals, StartKeeps, EmptyHands DEF Types, GlobalTypes, Locals
<1>2. pc'[t] # "append"
  BY <1>1 DEF Shape
<1> QED BY <1>1, <1>2, CopiesKept DEF SameWords

LEMMA NextCopies == Types /\ Copies /\ [Next]_vars => Copies'
<1> SUFFICES ASSUME Types, Copies, [Next]_vars PROVE Copies'
  OBVIOUS
<1>1. CASE UNCHANGED vars
  <2>1. \A t \in Threads : Current(t)' = Current(t)
    BY <1>1, CurrentKept DEF vars, locals
  <2> QED BY <1>1, <2>1 DEF vars, locals, Copies, SameWords, IsFlip
<1>2. CASE Crash
  BY <1>2, CrashLocals DEF Types, Copies, SameWords, IsFlip, NoRequest
<1> QED BY <1>1, <1>2, NextKinds, StepCopies, StartCopies

LEMMA AppendBalance ==
  ASSUME Types, Balance, Copies, NEW t \in Threads, Append(t)
  PROVE  Balance'
<1>1. Locals /\ Others(t) /\ AppendEntry(t) /\ UNCHANGED dropped /\ pc[t] = "append"
  BY AppendLocals DEF Append, AppendEntry, Types
<1>2. CASE ~ IsFlip(t)
  <2>1. stored' = stored \cup {NewEntry(t)} /\ pc'[t] = "idle"
    BY <1>1, <1>2, FinishLocals DEF Append
  <2> QED BY <1>1, <2>1, GrowBalance
<1>3. CASE IsFlip(t)
  <2>1. stored' = stored /\ todo' = todo /\ req' = req
    BY <1>3 DEF Append
  <2>2. Current(t)' = Current(t)
    BY <2>1, CurrentKept
  <2>3. fresh[t].plain = Current(t).cid.plain
    BY <1>1, <1>3 DEF Copies, SameWords
  <2>4. NewEntry(t).client = req[t].client /\ NewEntry(t).cid = fresh[t]
    BY DEF NewEntry
  <2> QED BY <1>1, <2>1, <2>2, <2>3, <2>4, GrowBalance
<1> QED BY <1>2, <1>3

LEMMA FaultBalance ==
  ASSUME Types, Balance, NEW t \in Threads, Fault(t)
  PROVE  Balance'
<1>1. Others(t) /\ pc'[t] # "remove"
  BY FaultLocals, AfterIsNoRemove DEF Types
<1>2. CASE FailToAdd(t) /\ AppendEntry(t)
  BY <1>1, <1>2, GrowBalance DEF FailToAdd
<1>3. CASE FailToRemove(t) /\ RemoveEntry(t)
  BY <1>1, <1>3, ShrinkBalance DEF FailToRemove, counts
<1>4. CASE UNCHANGED <<posts, stored, dropped, nextId>>
  BY <1>1, <1>4, StillBalance
<1> QED BY <1>2, <1>3, <1>4 DEF Fault, FailToAdd, FailToRemove, counts

LEMMA StepBalance ==
  ASSUME Types, Balance, Copies, NEW t \in Threads, Step(t)
  PROVE  Balance'
<1>1. Locals /\ Others(t)
  BY StepLocals DEF Types, GlobalTypes
<1>2. CASE FetchLost(t) \/ RefuseAudience(t) \/ RemoveNothing(t) \/ Unpin(t) \/ UnpinFails(t)
  <2>1. pc'[t] # "remove"
    BY <1>1, <1>2, AdvanceLocals, AfterIsNoRemove
       DEF FetchLost, RefuseAudience, RemoveNothing, Unpin, UnpinFails, GiveUp, Busy
  <2>2. UNCHANGED <<posts, stored, dropped, nextId>>
    BY <1>2 DEF FetchLost, RefuseAudience, RemoveNothing, Unpin, UnpinFails, index, counts, past
  <2> QED BY <1>1, <2>1, <2>2, StillBalance
<1>3. CASE Settle(t) \/ FailToSettle(t)
  <2>1. pc'[t] # "remove"
    BY <1>1, <1>3, FinishLocals DEF Settle, FailToSettle
  <2>2. UNCHANGED <<posts, stored, dropped, nextId>>
    BY <1>3 DEF Settle, FailToSettle, index, counts, past
  <2> QED BY <1>1, <2>1, <2>2, StillBalance
<1>4. CASE Fetch(t) \/ Upload(t)
  <2>1. pc'[t] # "remove"
    BY <1>1, <1>4 DEF Fetch, Upload, Goto, Locals, LocalTypes
  <2>2. UNCHANGED <<posts, stored, dropped, nextId>>
    BY <1>4 DEF Fetch, Upload, index, counts, past
  <2> QED BY <1>1, <2>1, <2>2, StillBalance
<1>5. CASE Remove(t)
  <2>1. pc'[t] # "remove"
    BY <1>5, RemoveLocals DEF Types, GlobalTypes
  <2> QED BY <1>1, <1>5, <2>1, ShrinkBalance DEF Remove, counts
<1> QED BY <1>2, <1>3, <1>4, <1>5, AppendBalance, FaultBalance DEF Step

LEMMA StartBalance ==
  ASSUME Types, Balance, NEW t \in Threads, NEW r \in Request, Start(t, r)
  PROVE  Balance'
<1>1. Others(t) /\ UNCHANGED <<posts, stored, dropped, nextId>>
  BY StartLocals, StartKeeps DEF Types, GlobalTypes, index, past
<1>2. Shape(t)' /\ req'[t] = r
  BY StartLocals DEF Start, StartPost, StartDelete, StartFlip, Accept, Types, GlobalTypes, Locals, LocalTypes
<1>3. pc'[t] = "remove" => ~ IsFlip(t)'
  BY <1>2 DEF Start, StartPost, StartDelete, StartFlip, Goto, Ahead, IsFlip, Types, Locals, LocalTypes
<1>4. \A c, p : Copied(c, p)' \subseteq Copied(c, p)
  BY <1>1, <1>3, CopiedLess
<1>5. Copying' \subseteq Copying
  BY <1>1, <1>3, CopiedByOthers DEF Copying
<1> QED BY <1>1, <1>4, <1>5, QuietBalance

LEMMA NextBalance == Types /\ Balance /\ Copies /\ [Next]_vars => Balance'
<1> SUFFICES ASSUME Types, Balance, Copies, [Next]_vars PROVE Balance'
  OBVIOUS
<1>1. CASE UNCHANGED vars
  <2>1. \A t \in Threads : Current(t)' = Current(t)
    BY <1>1, CurrentKept DEF vars, locals
  <2>2. Copying' \subseteq Copying /\ \A c, p : Copied(c, p)' \subseteq Copied(c, p)
    BY <1>1, <2>1 DEF vars, locals, Copying, Copied, IsFlip
  <2> QED BY <1>1, <2>2, QuietBalance DEF vars, index, counts, past
<1>2. CASE Crash
  <2>1. Copying' = {} /\ \A c, p : Copied(c, p)' = {}
    BY <1>2 DEF Crash, Copying, Copied
  <2> QED BY <1>2, <2>1, QuietBalance DEF Crash, index
<1> QED BY <1>1, <1>2, NextKinds, StepBalance, StartBalance

LEMMA InitBalance == Init => Balance
<1> SUFFICES ASSUME Init PROVE Balance
  OBVIOUS
<1>1. posts = {} /\ stored = {} /\ dropped = {} /\ Copying = {}
  BY DEF Init, Copying
<1>2. \A c, p : /\ Saying(posts, c, p) = {} /\ Saying(stored, c, p) = {}
                /\ Saying(dropped, c, p) = {} /\ Copied(c, p) = {}
  BY <1>1 DEF Saying, Copied, Copying
<1>3. Cardinality({}) = 0 /\ IsFiniteSet({})
  BY FS_EmptySet
<1> QED BY <1>1, <1>2, <1>3 DEF Balance, Finite, DroppedIsGone, BalanceOf

(* However many flips, posts and deletes interleave, fail or are cut short, *)
(* a client lists each content at least as often as it was stored and not   *)
(* deleted.                                                                 *)
THEOREM FlipsKeepEveryPost == Spec => []FlipsLoseNothing
<1>1. Init => Copies
  BY DEF Init, Copies, SameWords
<1>2. Balance => FlipsLoseNothing
  <2> SUFFICES ASSUME Balance, NEW c \in Clients, NEW p \in Contents
               PROVE  Cardinality(Saying(stored, c, p))
                        <= Cardinality(Saying(posts, c, p)) + Cardinality(Saying(dropped, c, p))
    BY DEF FlipsLoseNothing
  <2>1. BalanceOf(c, p)
    BY DEF Balance
  <2>2. {Cardinality(Saying(posts, c, p)), Cardinality(Saying(stored, c, p)),
         Cardinality(Saying(dropped, c, p)), Cardinality(Copied(c, p))} \subseteq Nat
    BY FiniteParts DEF Balance
  <2> QED BY <2>1, <2>2 DEF BalanceOf
<1> QED BY InitTypes, NextTypes, NextCopies, InitBalance, NextBalance, <1>1, <1>2, PTL DEF Spec
=============================================================================
