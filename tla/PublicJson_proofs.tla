------------------------- MODULE PublicJson_proofs -------------------------
(***************************************************************************)
(* What PublicJson guarantees for any number of writers, changes, failures *)
(* and restarts.  One inductive invariant carries the three theorems: the  *)
(* holder of the lock has read the file as it is, versions only grow, and  *)
(* what the publisher holds lies between the published document and the    *)
(* file.                                                                   *)
(***************************************************************************)
EXTENDS PublicJson, TLAPS

(* The holder of the lock writes over the file it read. *)
Holders ==
  /\ \A w \in Writers : pc[w] = "read" => lock = w /\ obj[w] = file
  /\ worker = "naming" => lock = Publisher /\ obj[Publisher] = file

(* Each part has one kind of writer. *)
Owners ==
  /\ part[Monitor] = "endpoint"
  /\ \A w \in Writers \ {Monitor} : pc[w] = "read" => part[w] \in Edited
  /\ file["endpoint"] <= found /\ found <= url
  /\ file["ipfs_names"] <= 1

(* The published document, what the publisher holds, and the file. *)
Ordered ==
  /\ AtLeast(file, ipns)
  /\ worker \in {"naming", "publishing"} =>
       AtLeast(file, obj[Publisher]) /\ AtLeast(obj[Publisher], ipns)

(* Nobody has asked since the publisher last read the file. *)
Quiet ==
  /\ ~ wake /\ ~ unasked
  /\ \A w \in Writers : pc[w] # "written"

(* Then the publisher holds, or has published, the file as it is. *)
UpToDate ==
  Quiet => /\ worker = "waiting" => ipns = file
           /\ worker \in {"naming", "publishing"} => obj[Publisher] = file

Inv == TypeOK /\ Holders /\ Owners /\ Ordered /\ UpToDate

----------------------------------------------------------------------------
LEMMA InvInit == Init => Inv
<1> SUFFICES ASSUME Init PROVE Inv
  OBVIOUS
<1>1. Blank \in Version /\ \A p \in Parts : Blank[p] = 0
  BY DEF Blank, Version
<1>2. TypeOK
  BY <1>1, ThreadsAreApart DEF Init, TypeOK
<1>3. Holders
  BY DEF Init, Holders
<1>4. Owners
  BY <1>1, ThreadsAreApart DEF Init, Owners, Parts
<1>5. Ordered /\ UpToDate
  BY <1>1 DEF Init, Ordered, UpToDate, AtLeast
<1> QED BY <1>2, <1>3, <1>4, <1>5 DEF Inv

USE ThreadsAreApart

(* Types. *)
LEMMA TypeStep == TypeOK /\ [Next]_vars => TypeOK'
<1> SUFFICES ASSUME TypeOK, [Next]_vars PROVE TypeOK'
  OBVIOUS
<1> USE DEF TypeOK
<1> DEFINE Objects == [Writers \cup {Publisher} -> Version]
<1>b. Blank \in Version
  BY DEF Blank, Version
<1>f. \A t \in Writers \cup {Publisher} : Forget(t) => obj' \in Objects
  BY <1>b DEF Forget
<1>p. \A t \in Writers \cup {Publisher} : Parse(t) => obj' \in Objects /\ lock' = t
  BY DEF Parse
<1>1. ASSUME NEW w \in Writers, NEW p \in Edited, ReadToEdit(w, p) PROVE TypeOK'
  BY <1>1, <1>p DEF ReadToEdit
<1>2. CASE Watch
  <2>1. CASE Fetch
    BY <2>1 DEF Fetch, shared, bounds
  <2>2. CASE Compare
    BY <2>2, <1>p DEF Compare, bounds
  <2> QED BY <1>2, <2>1, <2>2 DEF Watch
<1>3. ASSUME NEW w \in Writers, Cycle(w) PROVE TypeOK'
  <2>1. CASE Write(w)
    <3>1. part[w] \in Parts /\ NewValue(w) \in Nat
      BY DEF NewValue, Version, Parts, Edited
    <3>2. Replaced(w) \in Version
      BY <3>1 DEF Replaced, Version
    <3> QED BY <2>1, <3>2, <1>f DEF Write, bounds
  <2>2. CASE Request(w)
    BY <2>2 DEF Request, Ask, Rest, bounds
  <2>3. CASE Abandon(w)
    BY <2>3, <1>f DEF Abandon, Rest, Die
  <2> QED BY <1>3, <2>1, <2>2, <2>3 DEF Cycle
<1>4. CASE NewUrl
  BY <1>4 DEF NewUrl, locals, bounds
<1>5. CASE Publication
  <2>1. CASE Wake
    BY <2>1 DEF Wake, Become, shared, locals, bounds
  <2>2. CASE Settle
    BY <2>2 DEF Settle, Become, locals, bounds
  <2>3. CASE Read
    BY <2>3, <1>p DEF Read, Become, bounds
  <2>4. CASE Name
    <3>1. PICK known \in {obj[Publisher], [obj[Publisher] EXCEPT !["ipfs_names"] = 1]} :
             file' = known /\ obj' = [obj EXCEPT ![Publisher] = known]
      BY <2>4 DEF Name
    <3>2. known \in Version
      BY DEF Version
    <3> QED BY <2>4, <3>1, <3>2 DEF Name, Become, bounds
  <2>5. CASE Publish
    BY <2>5, <1>f DEF Publish, AfterPublish, Become, bounds
  <2>6. CASE PublishFails
    BY <2>6, <1>f DEF PublishFails, InFlight, Become
  <2> QED BY <1>5, <2>1, <2>2, <2>3, <2>4, <2>5, <2>6 DEF Publication
<1>6. CASE Crash
  <2>1. ipns' \in Version
    BY <1>6, ThreadsAreApart DEF Crash, InFlight
  <2>2. pc' \in [Writers -> {"idle", "fetched", "read", "written", "dead"}]
    BY <1>6 DEF Crash
  <2>3. part' \in [Writers -> Edited \cup {"endpoint"}]
    BY <1>6 DEF Crash
  <2>4. obj' \in Objects
    BY <1>6, <1>b DEF Crash
  <2>5. /\ file' \in Version /\ url' \in Nat /\ found' \in Nat
        /\ changes' \in Nat /\ faults' \in Nat /\ crashes' \in Nat
    BY <1>6 DEF Crash
  <2>6. /\ lock' \in Writers \cup {Publisher, NoOne}
        /\ wake' \in BOOLEAN /\ unasked' \in BOOLEAN
        /\ worker' \in {"waiting", "settling", "reading", "naming", "publishing"}
    BY <1>6 DEF Crash
  <2> QED BY <2>1, <2>2, <2>3, <2>4, <2>5, <2>6
<1>7. CASE UNCHANGED vars
  BY <1>7 DEF vars, shared, locals, bounds
<1> QED BY <1>1, <1>2, <1>3, <1>4, <1>5, <1>6, <1>7 DEF Next

(* The order on documents. *)
LEMMA OrderFacts ==
  ASSUME NEW c \in Version, NEW d \in Version, NEW e \in Version
  PROVE  /\ AtLeast(d, d)
         /\ AtLeast(c, d) /\ AtLeast(d, e) => AtLeast(c, e)
BY DEF AtLeast, Version

(* A writer replaces one part of the file by a newer version. *)
LEMMA WriteGrows ==
  ASSUME Inv, NEW w \in Writers, Write(w)
  PROVE  /\ AtLeast(file', file)
         /\ file'["endpoint"] <= found
         /\ file'["ipfs_names"] <= 1
<1> USE DEF Inv, TypeOK, Version, Parts, Edited
<1>1. obj[w] = file /\ file' = [file EXCEPT ![part[w]] = NewValue(w)]
  BY DEF Write, Replaced, Holders
<1>2. CASE w = Monitor
  <2>1. file' = [file EXCEPT !["endpoint"] = found]
    BY <1>1, <1>2 DEF NewValue, Owners
  <2>2. file["endpoint"] <= found
    BY DEF Owners
  <2>3. AtLeast(file', file)
    BY <2>1, <2>2 DEF AtLeast
  <2>4. file'["endpoint"] = found /\ file'["ipfs_names"] = file["ipfs_names"]
    BY <2>1
  <2> QED BY <2>3, <2>4 DEF Owners
<1>3. CASE w # Monitor
  <2>1. part[w] \in Edited
    BY <1>3 DEF Owners, Write
  <2>2. NewValue(w) = file[part[w]] + 1
    BY <1>1, <1>3 DEF NewValue
  <2> QED BY <1>1, <2>1, <2>2 DEF AtLeast, Owners
<1> QED BY <1>2, <1>3

(* The publisher adds nothing but the node's names. *)
LEMMA NameGrows ==
  ASSUME Inv, Name
  PROVE  /\ AtLeast(file', file)
         /\ file'["endpoint"] = file["endpoint"]
         /\ file'["ipfs_names"] <= 1
         /\ obj'[Publisher] = file'
<1> USE DEF Inv, TypeOK, Version, Parts, Edited
<1>1. obj[Publisher] = file
  BY DEF Name, Holders
<1>2. PICK known \in {file, [file EXCEPT !["ipfs_names"] = 1]} :
         file' = known /\ obj' = [obj EXCEPT ![Publisher] = known]
  BY <1>1 DEF Name
<1> QED BY <1>2 DEF AtLeast, Owners

----------------------------------------------------------------------------
(* Every step keeps the invariant.                                         *)
LEMMA InvStep == Inv /\ [Next]_vars => Inv'
<1> SUFFICES ASSUME Inv, [Next]_vars PROVE Inv'
  OBVIOUS
<1>t. TypeOK /\ TypeOK'
  BY TypeStep DEF Inv
<1>v. file \in Version /\ file' \in Version /\ ipns \in Version /\ ipns' \in Version
      /\ obj[Publisher] \in Version /\ obj'[Publisher] \in Version
  BY <1>t DEF TypeOK
<1> DEFINE Rest1 == Holders /\ Owners /\ Ordered /\ UpToDate
<1> SUFFICES Rest1'
  BY <1>t DEF Inv
<1>1. ASSUME NEW w \in Writers, NEW p \in Edited, ReadToEdit(w, p) PROVE Rest1'
  BY <1>1, <1>t DEF Inv, TypeOK, ReadToEdit, Parse, LockFree, Holders, Owners, Ordered,
     UpToDate, Quiet, AtLeast
<1>2. CASE Watch
  <2>1. CASE Fetch
    <3>1. pc' = [pc EXCEPT ![Monitor] = "fetched"] /\ found' = url
          /\ UNCHANGED <<file, ipns, lock, wake, url, part, obj, worker, unasked>>
      BY <2>1 DEF Fetch, shared, bounds
    <3>2. Holders'
      BY <3>1, <1>t DEF Inv, TypeOK, Holders
    <3>3. Owners'
      <4>1. file["endpoint"] \in Nat
        BY <1>v DEF Version, Parts
      <4>2. file["endpoint"] <= url
        BY <4>1, <1>t DEF Inv, TypeOK, Owners
      <4> QED BY <3>1, <4>2, <1>t DEF Inv, TypeOK, Owners
    <3>4. Ordered'
      BY <2>1 DEF Inv, Fetch, shared, Ordered, AtLeast
    <3>5. UpToDate'
      <4>1. Quiet' => Quiet
        <5> SUFFICES ASSUME Quiet' PROVE Quiet
          OBVIOUS
        <5>1. ASSUME NEW w \in Writers PROVE pc[w] # "written"
          <6>1. w # Monitor => pc[w] = pc'[w]
            BY <3>1, <1>t DEF TypeOK
          <6>2. pc[Monitor] = "idle"
            BY <2>1 DEF Fetch
          <6> QED BY <6>1, <6>2 DEF Quiet
        <5> QED BY <5>1, <3>1 DEF Quiet
      <4> QED BY <2>1, <4>1 DEF Inv, Fetch, shared, UpToDate
    <3> QED BY <3>2, <3>3, <3>4, <3>5
  <2>2. CASE Compare
    BY <2>2, <1>t DEF Inv, TypeOK, Compare, Parse, LockFree, bounds, Holders, Owners,
       Ordered, UpToDate, Quiet, AtLeast
  <2> QED BY <1>2, <2>1, <2>2 DEF Watch
<1>3. ASSUME NEW w \in Writers, Cycle(w) PROVE Rest1'
  <2>1. CASE Write(w)
    <3>1. AtLeast(file', file) /\ file'["endpoint"] <= found /\ file'["ipfs_names"] <= 1
      BY <2>1, WriteGrows
    <3>2. lock = w /\ worker # "naming"
      BY <2>1 DEF Inv, Write, Holders
    <3>3. Holders'
      BY <2>1, <1>t, <3>2 DEF Inv, TypeOK, Write, Forget, Holders
    <3>4. Owners'
      BY <2>1, <1>t, <3>1 DEF Inv, TypeOK, Write, Owners
    <3>5. obj'[Publisher] = obj[Publisher] /\ ipns' = ipns /\ worker' = worker
      BY <2>1, <1>t DEF TypeOK, Write, Forget
    <3>6. Ordered'
      <4>1. AtLeast(file', ipns')
        BY <1>v, <3>1, <3>5, OrderFacts DEF Inv, Ordered
      <4>2. ASSUME worker \in {"naming", "publishing"}
            PROVE  AtLeast(file', obj'[Publisher]) /\ AtLeast(obj'[Publisher], ipns')
        BY <4>2, <1>v, <3>1, <3>5, OrderFacts DEF Inv, Ordered
      <4> QED BY <4>1, <4>2, <3>5 DEF Ordered
    <3>7. UpToDate'
      BY <2>1, <1>t DEF TypeOK, Write, UpToDate, Quiet
    <3> QED BY <3>3, <3>4, <3>6, <3>7
  <2>2. CASE Request(w)
    BY <2>2, <1>t DEF Inv, TypeOK, Request, Ask, Rest, bounds, Holders, Owners, Ordered,
       UpToDate, Quiet, AtLeast
  <2>3. CASE Abandon(w)
    BY <2>3, <1>t DEF Inv, TypeOK, Abandon, Forget, Rest, Die, Holders, Owners, Ordered,
       UpToDate, Quiet, AtLeast
  <2> QED BY <1>3, <2>1, <2>2, <2>3 DEF Cycle
<1>4. CASE NewUrl
  BY <1>4, <1>t DEF Inv, TypeOK, NewUrl, locals, bounds, Holders, Owners, Ordered,
     UpToDate, Quiet, AtLeast
<1>5. CASE Publication
  <2>1. CASE Wake
    BY <2>1, <1>t DEF Inv, TypeOK, Wake, Become, shared, locals, bounds, Holders, Owners,
       Ordered, UpToDate, Quiet, AtLeast
  <2>2. CASE Settle
    BY <2>2, <1>t DEF Inv, TypeOK, Settle, Become, locals, bounds, Holders, Owners,
       Ordered, UpToDate, Quiet, AtLeast
  <2>3. CASE Read
    <3>1. obj' = [obj EXCEPT ![Publisher] = file] /\ obj'[Publisher] = file
      BY <2>3, <1>t DEF TypeOK, Read, Parse
    <3>2. Holders'
      BY <2>3, <1>t, <3>1 DEF Inv, TypeOK, Read, Parse, LockFree, Become, Holders
    <3>3. Owners'
      BY <2>3 DEF Inv, Read, bounds, Owners
    <3>4. Ordered'
      BY <2>3, <3>1, <1>v, OrderFacts DEF Inv, Read, Become, Ordered
    <3>5. UpToDate'
      BY <2>3, <3>1 DEF Read, Become, UpToDate
    <3> QED BY <3>2, <3>3, <3>4, <3>5
  <2>4. CASE Name
    <3>1. /\ AtLeast(file', file) /\ file'["endpoint"] = file["endpoint"]
          /\ file'["ipfs_names"] <= 1 /\ obj'[Publisher] = file'
      BY <2>4, NameGrows
    <3>2. worker' = "publishing" /\ ipns' = ipns /\ lock = Publisher
          /\ pc' = pc /\ part' = part /\ found' = found /\ url' = url
      BY <2>4 DEF Inv, Name, Become, Holders
    <3>3. Holders'
      BY <3>2, <1>t DEF Inv, TypeOK, Holders
    <3>4. Owners'
      BY <3>1, <3>2 DEF Inv, Owners
    <3>5. Ordered'
      <4>1. AtLeast(file', ipns)
        BY <3>1, <1>v, OrderFacts DEF Inv, Ordered
      <4> QED BY <4>1, <3>1, <3>2, <1>v, OrderFacts DEF Ordered
    <3>6. UpToDate'
      BY <3>1, <3>2 DEF UpToDate
    <3> QED BY <3>3, <3>4, <3>5, <3>6
  <2>5. CASE Publish
    BY <2>5, <1>t DEF Inv, TypeOK, Publish, AfterPublish, Forget, Become, bounds,
       Holders, Owners, Ordered, UpToDate, Quiet, AtLeast
  <2>6. CASE PublishFails
    <3>1. ipns' \in {ipns} \/ (worker = "publishing" /\ ipns' = obj[Publisher])
      BY <2>6 DEF PublishFails, InFlight
    <3>2. Holders'
      BY <2>6, <1>t DEF Inv, TypeOK, PublishFails, Forget, Become, Holders
    <3>3. Owners'
      BY <2>6 DEF Inv, PublishFails, Owners
    <3>4. Ordered'
      BY <2>6, <3>1 DEF Inv, PublishFails, Become, Ordered
    <3>5. UpToDate'
      BY <2>6, <1>t DEF TypeOK, PublishFails, UpToDate, Quiet
    <3> QED BY <3>2, <3>3, <3>4, <3>5
  <2> QED BY <1>5, <2>1, <2>2, <2>3, <2>4, <2>5, <2>6 DEF Publication
<1>6. CASE Crash
  <2>1. ipns' = ipns \/ (worker = "publishing" /\ ipns' = obj[Publisher])
    BY <1>6 DEF Crash, InFlight
  <2> QED BY <1>6, <2>1 DEF Inv, Crash, Holders, Owners, Ordered, UpToDate, Quiet
<1>7. CASE UNCHANGED vars
  BY <1>7 DEF Inv, vars, shared, locals, bounds, Holders, Owners, Ordered, UpToDate,
     Quiet, AtLeast
<1> QED BY <1>1, <1>2, <1>3, <1>4, <1>5, <1>6, <1>7 DEF Next

LEMMA Invariant == Spec => []Inv
BY InvInit, InvStep, PTL DEF Spec

----------------------------------------------------------------------------
(* Types are kept: public.json always has all of its parts, whatever fails  *)
(* (manifest.py:104-108).                                                   *)
THEOREM PublicJsonKeepsItsParts == Spec => []TypeOK
<1>1. Inv => TypeOK
  BY DEF Inv
<1> QED BY <1>1, Invariant, PTL

(* No read-modify-write of public.json undoes another's change, for any     *)
(* number of threads (storage.py:14-19).                                    *)
THEOREM NoWriterUndoesAnother == Spec => NoChangeUndone
<1>1. ASSUME Inv, [Next]_vars PROVE AtLeast(file', file)
  <2>1. file \in Version
    BY <1>1 DEF Inv, TypeOK
  <2>2. ASSUME file' = file PROVE AtLeast(file', file)
    BY <2>1, <2>2, OrderFacts
  <2>3. ASSUME NEW w \in Writers, Write(w) PROVE AtLeast(file', file)
    BY <1>1, <2>3, WriteGrows
  <2>4. CASE Name
    BY <1>1, <2>4, NameGrows
  <2>5. (\E w \in Writers : Write(w)) \/ Name \/ file' = file
    BY <1>1 DEF Next, Cycle, Watch, Publication, ReadToEdit, Request, Abandon, Fetch,
       Compare, NewUrl, Wake, Settle, Read, Publish, PublishFails, Crash, vars, shared
  <2> QED BY <2>2, <2>3, <2>4, <2>5
<1>2. Inv /\ [Next]_vars => [AtLeast(file', file)]_vars
  BY <1>1
<1> QED BY <1>2, Invariant, PTL DEF Spec, NoChangeUndone

(* The IPNS name never goes back to an older document                       *)
(* (ipns_publisher.py:10-15).                                               *)
THEOREM NameMovesForward == Spec => IpnsNeverGoesBack
<1>1. ASSUME Inv, [Next]_vars PROVE AtLeast(ipns', ipns)
  <2>1. ipns \in Version
    BY <1>1 DEF Inv, TypeOK
  <2>2. ipns' = ipns \/ (worker = "publishing" /\ ipns' = obj[Publisher])
    BY <1>1 DEF Next, Cycle, Watch, Publication, ReadToEdit, Write, Request, Abandon,
       Fetch, Compare, NewUrl, Wake, Settle, Read, Name, Publish, PublishFails, InFlight,
       Crash, vars, shared
  <2> QED BY <1>1, <2>1, <2>2, OrderFacts DEF Inv, Ordered
<1>2. Inv /\ [Next]_vars => [AtLeast(ipns', ipns)]_vars
  BY <1>1
<1> QED BY <1>2, Invariant, PTL DEF Spec, IpnsNeverGoesBack

(* A change that lands while an older one is being published is published   *)
(* by the next pass (ipns_publisher.py:61-62).                              *)
THEOREM NoChangeIsForgotten == Spec => []NothingForgotten
<1>1. Inv => NothingForgotten
  BY DEF Inv, UpToDate, Quiet, NothingForgotten
<1> QED BY <1>1, Invariant, PTL

----------------------------------------------------------------------------
(* Progress *)

(* Whoever holds STATE_LOCK stands at the step that gives it back, and that *)
(* step waits for nothing: the write of a writer (or its failure), the      *)
(* publisher's.  So a thread that waits for the lock waits for one that can *)
(* go on (storage.py:14-19).                                                *)
HolderWrites ==
  lock # NoOne =>
    \/ \E w \in Writers : lock = w /\ pc[w] = "read"
    \/ lock = Publisher /\ worker = "naming"

(* The steps a writer and the publisher have before them. *)
WritesLeft(step) ==
  CASE step \in {"idle", "dead"} -> 0 [] step = "written" -> 1 [] step = "read" -> 2 [] step = "fetched" -> 3
PassLeft(step) ==
  CASE step = "waiting" -> 0 [] step = "publishing" -> 1 [] step = "naming" -> 2
    [] step = "reading" -> 3 [] step = "settling" -> 4

(* A step of a writer, or of the publisher, brings its own end nearer, and  *)
(* nobody else's makes it longer: a pass that has begun ends, whatever is   *)
(* asked for meanwhile (ipns_publisher.py:53-67).                           *)
PassesEnd ==
  [][/\ \A w \in Writers : WritesLeft(pc'[w]) > WritesLeft(pc[w]) => pc[w] = "idle"
     /\ \A w \in Writers : Cycle(w) \/ (w = Monitor /\ Compare) => WritesLeft(pc'[w]) < WritesLeft(pc[w])
     /\ PassLeft(worker') > PassLeft(worker) => worker = "waiting" /\ wake
     /\ Publication /\ worker # "waiting" => PassLeft(worker') < PassLeft(worker)]_vars

LEMMA LeftTable ==
  /\ \A step \in {"idle", "fetched", "read", "written", "dead"} :
       WritesLeft(step) \in 0..3 /\ (WritesLeft(step) = 0 <=> step \in {"idle", "dead"})
  /\ \A step \in {"waiting", "settling", "reading", "naming", "publishing"} :
       PassLeft(step) \in 0..4 /\ (PassLeft(step) = 0 <=> step = "waiting")
BY DEF WritesLeft, PassLeft

LEMMA HolderStep ==
  ASSUME Inv, HolderWrites, [Next]_vars
  PROVE  HolderWrites'
<1> USE DEF HolderWrites
<1>t. /\ pc \in [Writers -> {"idle", "fetched", "read", "written", "dead"}]
      /\ lock \in Writers \cup {Publisher, NoOne}
  BY DEF Inv, TypeOK
<1>1. ASSUME NEW w \in Writers, NEW p \in Edited, ReadToEdit(w, p) PROVE HolderWrites'
  BY <1>1, <1>t DEF ReadToEdit, Parse
<1>2. ASSUME NEW w \in Writers, Write(w) \/ Abandon(w) PROVE lock' = NoOne
  BY <1>2 DEF Write, Abandon
<1>3. ASSUME NEW w \in Writers, Request(w) PROVE HolderWrites'
  BY <1>3, <1>t DEF Request, Rest
<1>4. CASE Fetch
  BY <1>4, <1>t DEF Fetch, shared
<1>5. CASE Compare
  BY <1>5, <1>t DEF Compare, Parse, LockFree
<1>6. CASE Wake \/ Settle
  BY <1>6 DEF Wake, Settle, Become, shared, locals
<1>7. CASE Read
  BY <1>7 DEF Read, Parse, Become
<1>8. CASE Name \/ Crash
  BY <1>8 DEF Name, Crash
<1>9. CASE Publish
  BY <1>9 DEF Publish
<1>10. CASE PublishFails
  BY <1>10 DEF PublishFails
<1>11. CASE NewUrl \/ UNCHANGED vars
  BY <1>11 DEF NewUrl, vars, shared, locals
<1> QED BY <1>1, <1>2, <1>3, <1>4, <1>5, <1>6, <1>7, <1>8, <1>9, <1>10, <1>11
        DEF Next, Cycle, Watch, Publication

LEMMA PassStep ==
  ASSUME TypeOK, TypeOK', Next
  PROVE  /\ \A w \in Writers : WritesLeft(pc'[w]) > WritesLeft(pc[w]) => pc[w] = "idle"
         /\ \A w \in Writers : Cycle(w) \/ (w = Monitor /\ Compare) => WritesLeft(pc'[w]) < WritesLeft(pc[w])
         /\ PassLeft(worker') > PassLeft(worker) => worker = "waiting" /\ wake
         /\ Publication /\ worker # "waiting" => PassLeft(worker') < PassLeft(worker)
<1>t. pc \in [Writers -> {"idle", "fetched", "read", "written", "dead"}]
  BY DEF TypeOK
<1>l. \A w \in Writers : /\ WritesLeft(pc[w]) \in 0..3 /\ (WritesLeft(pc[w]) = 0 <=> pc[w] \in {"idle", "dead"})
                         /\ WritesLeft(pc'[w]) \in 0..3 /\ (WritesLeft(pc'[w]) = 0 <=> pc'[w] \in {"idle", "dead"})
  BY LeftTable DEF TypeOK
<1>1. ASSUME NEW w \in Writers, Cycle(w) PROVE WritesLeft(pc'[w]) < WritesLeft(pc[w])
  <2>1. CASE Write(w)
    BY <2>1, <1>t DEF Write, WritesLeft
  <2>2. CASE Request(w) \/ Abandon(w)
    <3>1. pc[w] \notin {"idle", "dead"} /\ pc'[w] \in {"idle", "dead"}
      BY <2>2, <1>t DEF Request, Abandon, Rest, Die
    <3> QED BY <3>1, <1>l
  <2> QED BY <1>1, <2>1, <2>2 DEF Cycle
<1>2. ASSUME Compare PROVE WritesLeft(pc'[Monitor]) < WritesLeft(pc[Monitor])
  BY <1>2, <1>t DEF Compare, WritesLeft
<1>3. ASSUME NEW w \in Writers, pc[w] # "idle", ~ Cycle(w), ~ (w = Monitor /\ Compare)
      PROVE  WritesLeft(pc'[w]) <= WritesLeft(pc[w])
  <2>1. pc'[w] = pc[w] \/ pc'[w] \in {"idle", "dead"}
    BY <1>3, <1>t DEF Next, Cycle, Watch, Publication, ReadToEdit, Write, Request, Abandon, Rest, Die,
       Fetch, Compare, NewUrl, Wake, Settle, Read, Name, Publish, PublishFails, Crash, locals
  <2> QED BY <2>1, <1>l
<1>4. ASSUME Publication, worker # "waiting" PROVE PassLeft(worker') < PassLeft(worker)
  BY <1>4 DEF Publication, Wake, Settle, Read, Name, Publish, PublishFails, Become, PassLeft
<1>5. ASSUME ~ Publication PROVE worker' = worker \/ worker' = "waiting"
  BY <1>5 DEF Next, Cycle, Watch, ReadToEdit, Write, Request, Abandon, Fetch, Compare, NewUrl, Crash
<1>6. ASSUME worker = "waiting" PROVE worker' = "waiting" \/ wake
  BY <1>5, <1>6 DEF Publication, Wake, Settle, Read, Name, Publish, PublishFails
<1>7. PassLeft(worker) \in 0..4 /\ PassLeft(worker') \in 0..4 /\ (PassLeft(worker) = 0 <=> worker = "waiting")
         /\ (PassLeft(worker') = 0 <=> worker' = "waiting")
  BY LeftTable DEF TypeOK
<1>8. ASSUME PassLeft(worker') > PassLeft(worker) PROVE worker = "waiting" /\ wake
  <2>1. Publication => worker = "waiting"
    <3> SUFFICES ASSUME Publication, worker # "waiting" PROVE FALSE
      OBVIOUS
    <3>1. PassLeft(worker') < PassLeft(worker)
      BY <1>4
    <3> QED BY <1>7, <1>8, <3>1
  <2>2. ~ Publication => worker' = "waiting"
    <3>1. worker' # worker
      BY <1>7, <1>8
    <3> QED BY <1>5, <3>1
  <2>3. worker' # "waiting"
    BY <1>7, <1>8
  <2> QED BY <1>6, <2>1, <2>2, <2>3
<1>9. ASSUME NEW w \in Writers, WritesLeft(pc'[w]) > WritesLeft(pc[w]) PROVE pc[w] = "idle"
  <2>1. WritesLeft(pc[w]) \in Nat /\ WritesLeft(pc'[w]) \in Nat
    BY <1>l
  <2> QED BY <1>1, <1>2, <1>3, <1>9, <2>1
<1> QED BY <1>1, <1>2, <1>4, <1>8, <1>9

THEOREM WaitersAreServed == Spec => []HolderWrites /\ PassesEnd
<1>1. Init => HolderWrites
  BY DEF Init, HolderWrites
<1>2. Inv /\ HolderWrites /\ [Next]_vars => HolderWrites'
  BY HolderStep
<1>3. TypeOK /\ TypeOK' /\ [Next]_vars =>
        [/\ \A w \in Writers : WritesLeft(pc'[w]) > WritesLeft(pc[w]) => pc[w] = "idle"
         /\ \A w \in Writers : Cycle(w) \/ (w = Monitor /\ Compare) => WritesLeft(pc'[w]) < WritesLeft(pc[w])
         /\ PassLeft(worker') > PassLeft(worker) => worker = "waiting" /\ wake
         /\ Publication /\ worker # "waiting" => PassLeft(worker') < PassLeft(worker)]_vars
  BY PassStep
<1> QED BY <1>1, <1>2, <1>3, Invariant, PublicJsonKeepsItsParts, PTL DEF Spec, PassesEnd
=============================================================================
