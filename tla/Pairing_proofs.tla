--------------------------- MODULE Pairing_proofs ---------------------------
(***************************************************************************)
(* The limits of pairing for any number of threads.  Each limit is checked *)
(* on what one statement reads and enforced by a later one, so none holds  *)
(* exactly.  What is inductive is a sum: what the tables hold, plus the    *)
(* threads that have passed the check and may still add to it.             *)
(***************************************************************************)
EXTENDS Pairing, FiniteSetTheorems, TLAPS

Creating == {t \in Threads : pc[t] = "insert"}
PastGate == {t \in Threads : pc[t] \in {"look", "miss", "count"}}
Guessing(i) == {t \in Threads : pc[t] = "miss" /\ id[t] = i}

(* A statement that writes a session writes one that exists; a device is    *)
(* only added for a session that is already marked.                         *)
Targets ==
  /\ \A t \in Threads : pc[t] = "look" => id[t] \in Ids
  /\ \A t \in Threads :
       pc[t] \in {"expire", "lock", "miss", "confirm", "add"} => id[t] \in Known
  /\ \A t \in Threads : pc[t] = "add" => sessions[id[t]].status # "pending"

FiniteTables == IsFiniteSet(failed) /\ IsFiniteSet(Known)

(* The gate counts every failure of the window. *)
NothingPruned == failures \subseteq failed /\ Within(failed, now) \subseteq failures

Base == TypeOK /\ Targets /\ FiniteTables /\ NothingPruned

(* The limits with room for k threads more. *)
AttemptsInv(k) ==
  \A i \in Known : sessions[i].attempts + Cardinality(Guessing(i)) <= MaxAttempts + k
FailuresInv(k) ==
  Cardinality(Within(failed, now)) + Cardinality(PastGate) <= MaxFailures + k
PendingInv(k) == Cardinality(Active) + Cardinality(Creating) <= MaxPending + k

----------------------------------------------------------------------------
(* Counting *)

USE PoolIsFinite, Limits, NoneIsApart

LEMMA PoolSize == Cardinality(Threads) \in Nat \ {0} /\ Overshoot \in Nat
<1>1. Cardinality(Threads) \in Nat /\ Cardinality(Threads) # 0
  BY FS_CardinalityType, FS_EmptySet
<1> QED BY <1>1 DEF Overshoot

LEMMA SomeThreads ==
  ASSUME NEW S \in SUBSET Threads
  PROVE  IsFiniteSet(S) /\ Cardinality(S) \in Nat /\ Cardinality(S) <= Overshoot + 1
<1>1. IsFiniteSet(S) /\ Cardinality(S) <= Cardinality(Threads)
  BY FS_Subset
<1> QED BY <1>1, FS_CardinalityType, PoolSize DEF Overshoot

LEMMA SmallerSet ==
  ASSUME NEW S, NEW T, IsFiniteSet(T), S \subseteq T
  PROVE  /\ IsFiniteSet(S) /\ Cardinality(S) \in Nat /\ Cardinality(T) \in Nat
         /\ Cardinality(S) <= Cardinality(T)
BY FS_Subset, FS_CardinalityType

LEMMA OneMore ==
  ASSUME NEW S, NEW T, NEW x, IsFiniteSet(T), S \subseteq T \cup {x}
  PROVE  /\ IsFiniteSet(S) /\ Cardinality(S) \in Nat /\ Cardinality(T) \in Nat
         /\ Cardinality(S) <= Cardinality(T) + 1
<1>0. Cardinality(T) \in Nat
  BY FS_CardinalityType
<1>1. IsFiniteSet(T \cup {x}) /\ Cardinality(T \cup {x}) <= Cardinality(T) + 1
  <2>1. /\ IsFiniteSet(T \cup {x})
        /\ Cardinality(T \cup {x}) = IF x \in T THEN Cardinality(T) ELSE Cardinality(T) + 1
    BY FS_AddElement
  <2> QED BY <1>0, <2>1
<1>2. /\ IsFiniteSet(S) /\ Cardinality(S) \in Nat /\ Cardinality(T \cup {x}) \in Nat
      /\ Cardinality(S) <= Cardinality(T \cup {x})
  BY <1>1, SmallerSet
<1> QED BY <1>0, <1>1, <1>2

LEMMA OneLess ==
  ASSUME NEW S \in SUBSET Threads, NEW t \in S
  PROVE  Cardinality(S \ {t}) = Cardinality(S) - 1
BY SomeThreads, FS_RemoveElement

----------------------------------------------------------------------------
(* Types *)

LEMMA TypeInit == Init => TypeOK
BY DEF Init, TypeOK

LEMMA VerdictSteps ==
  ASSUME NEW t \in Threads, NEW row, NEW right \in BOOLEAN
  PROVE  /\ Verdict(t, row, right) \in {"count", "idle", "expire", "lock", "confirm", "miss"}
         /\ row = None => Verdict(t, row, right) = "count"
         /\ Verdict(t, row, right) = "miss" => row # None /\ ~ Spent(row)
BY DEF Verdict, Accepted

(* Each handler's step as what it does to the thread and to the tables.     *)
LEMMA AnswerFacts ==
  ASSUME TypeOK, NEW t \in Threads, Answer(t)
  PROVE  /\ pc' = [pc EXCEPT ![t] = "idle"]
         /\ id' = [id EXCEPT ![t] = None]
         /\ at' = [at EXCEPT ![t] = 0]
         /\ id' \in [Threads -> Ids \cup {None}] /\ at' \in [Threads -> Nat]
         /\ \A u \in Threads : at'[u] <= now
BY DEF Answer, Goto, TypeOK

LEMMA LookFacts ==
  ASSUME TypeOK, NEW t \in Threads, Look(t)
  PROVE  /\ \E step \in {"count", "idle", "expire", "lock", "confirm", "miss"} :
              /\ pc' = [pc EXCEPT ![t] = step]
              /\ step \notin {"count", "idle"} => sessions[id[t]] # None
              /\ step = "miss" => ~ Spent(sessions[id[t]])
              /\ step = "idle" => Answer(t)
              /\ step # "idle" => UNCHANGED request
         /\ UNCHANGED <<now, sessions, failures, devices, failed, crashes>>
<1>1. PICK right \in BOOLEAN :
        LET next == Verdict(t, sessions[id[t]], right) IN
        IF next = "idle" THEN Answer(t) ELSE Goto(t, next) /\ UNCHANGED request
  BY DEF Look
<1> DEFINE step == Verdict(t, sessions[id[t]], right)
<1>2. /\ step \in {"count", "idle", "expire", "lock", "confirm", "miss"}
      /\ step \notin {"count", "idle"} => sessions[id[t]] # None
      /\ step = "miss" => ~ Spent(sessions[id[t]])
  BY VerdictSteps
<1>3. pc' = [pc EXCEPT ![t] = step]
  BY <1>1 DEF Answer, Goto
<1>4. (step = "idle" => Answer(t)) /\ (step # "idle" => UNCHANGED request)
  BY <1>1
<1>5. UNCHANGED <<now, sessions, failures, devices, failed, crashes>>
  BY DEF Look, tables
<1> QED BY <1>2, <1>3, <1>4, <1>5

(* A session is written in place. *)
LEMMA MarkFacts ==
  ASSUME TypeOK, NEW t \in Threads, id[t] \in Known,
         NEW status \in {"expired", "locked", "confirmed"}, Mark(t, status)
  PROVE  /\ sessions' \in [Ids -> Session \cup {None}]
         /\ Known' = Known
         /\ \A i \in Ids : i # id[t] => sessions'[i] = sessions[i]
         /\ \A i \in Known : /\ sessions'[i].attempts = sessions[i].attempts
                             /\ sessions'[i].expires = sessions[i].expires
         /\ sessions'[id[t]].status = status
<1>1. id[t] \in Ids /\ sessions[id[t]] \in Session
  BY DEF TypeOK, Known
<1>2. sessions' = [sessions EXCEPT ![id[t]] = [sessions[id[t]] EXCEPT !.status = status]]
  BY DEF Mark
<1>3. [sessions[id[t]] EXCEPT !.status = status] \in Session
  BY <1>1 DEF Session
<1> QED BY <1>1, <1>2, <1>3 DEF TypeOK, Known, Session

LEMMA MissFacts ==
  ASSUME TypeOK, NEW t \in Threads, id[t] \in Known, Miss(t)
  PROVE  /\ sessions' \in [Ids -> Session \cup {None}]
         /\ Known' = Known
         /\ \A i \in Ids : i # id[t] => sessions'[i] = sessions[i]
         /\ \A i \in Known : /\ sessions'[i].status = sessions[i].status
                             /\ sessions'[i].expires = sessions[i].expires
         /\ sessions'[id[t]].attempts = sessions[id[t]].attempts + 1
<1>1. id[t] \in Ids /\ sessions[id[t]] \in Session
  BY DEF TypeOK, Known
<1> DEFINE row == [sessions[id[t]] EXCEPT !.attempts = sessions[id[t]].attempts + 1]
<1>2. sessions' = [sessions EXCEPT ![id[t]] = row]
  BY DEF Miss
<1>3. row \in Session
  BY <1>1 DEF Session
<1> QED BY <1>1, <1>2, <1>3 DEF TypeOK, Known, Session

LEMMA InsertFacts ==
  ASSUME TypeOK, NEW t \in Threads, NEW i \in Ids, InsertSession(t, i)
  PROVE  /\ sessions' \in [Ids -> Session \cup {None}]
         /\ i \notin Known /\ Known' = Known \cup {i}
         /\ \A j \in Ids : j # i => sessions'[j] = sessions[j]
         /\ sessions'[i].attempts = 0
<1> DEFINE row == [expires |-> at[t] + Ttl, attempts |-> 0, status |-> "pending"]
<1>1. row \in Session
  BY DEF TypeOK, Session
<1>2. sessions' = [sessions EXCEPT ![i] = row] /\ i \notin Known
  BY DEF InsertSession
<1> QED BY <1>1, <1>2 DEF TypeOK, Known

----------------------------------------------------------------------------
(* The base invariant *)

LEMMA BaseInit == Init => Base
<1> SUFFICES ASSUME Init PROVE Base
  OBVIOUS
<1>1. TypeOK
  BY TypeInit
<1>2. Targets
  BY DEF Init, Targets
<1>3. Known = {} /\ failed = {} /\ failures = {}
  BY DEF Init, Known
<1>4. FiniteTables /\ NothingPruned
  BY <1>3, FS_EmptySet DEF FiniteTables, NothingPruned, Within
<1> QED BY <1>1, <1>2, <1>4 DEF Base

(* What recording a failure does: the table loses nothing that counts.      *)
LEMMA CountFacts ==
  ASSUME Base, NEW t \in Threads, Count(t)
  PROVE  /\ failures' \subseteq Failure /\ failed' \subseteq Failure
         /\ FiniteTables' /\ NothingPruned'
         /\ \E row : Within(failed', now') \subseteq Within(failed, now) \cup {row}
<1> DEFINE row == [row |-> Cardinality(failed), ts |-> at[t]]
<1>1. /\ failures' = {f \in failures \cup {row} : f.ts + Window >= at[t]}
      /\ failed' = failed \cup {row} /\ now' = now /\ sessions' = sessions
  BY DEF Count, Kept, Within, Stamp
<1>2. row \in Failure /\ at[t] <= now /\ at[t] \in Nat /\ now \in Nat
  BY FS_CardinalityType DEF Base, FiniteTables, TypeOK, Failure
<1>3. failures \subseteq Failure /\ failed \subseteq Failure
  BY DEF Base, TypeOK
<1>4. FiniteTables'
  <2>1. IsFiniteSet(failed')
    BY <1>1, FS_AddElement DEF Base, FiniteTables
  <2>2. Known' = Known
    BY <1>1 DEF Known
  <2> QED BY <2>1, <2>2 DEF Base, FiniteTables
<1>5. NothingPruned'
  <2>1. failures' \subseteq failed'
    BY <1>1 DEF Base, NothingPruned
  <2>2. ASSUME NEW f \in failed', f.ts + Window >= now
        PROVE  f \in failures'
    <3>1. f \in Failure /\ f.ts \in Nat
      BY <1>1, <1>2, <1>3, <2>2 DEF Failure
    <3>2. f.ts + Window >= at[t]
      BY <3>1, <1>2, <2>2
    <3>3. f \in failures \cup {row}
      BY <1>1, <2>2 DEF Base, NothingPruned, Within
    <3> QED BY <1>1, <3>2, <3>3
  <2> QED BY <1>1, <2>1, <2>2 DEF NothingPruned, Within
<1>6. Within(failed', now') \subseteq Within(failed, now) \cup {row}
  BY <1>1 DEF Within
<1> QED BY <1>1, <1>2, <1>3, <1>4, <1>5, <1>6

LEMMA BaseStep == Base /\ [Next]_vars => Base'
<1> SUFFICES ASSUME Base, [Next]_vars PROVE Base'
  OBVIOUS
<1> USE DEF Base
(* A step that writes no table leaves what is said of them. *)
<1>q. ASSUME UNCHANGED <<now, sessions, failed, failures>>
      PROVE  FiniteTables' /\ NothingPruned' /\ Known' = Known
  BY <1>q DEF FiniteTables, NothingPruned, Known, Within
(* A step that writes a session in place leaves what is said of the others. *)
<1>w. ASSUME UNCHANGED <<now, failed, failures>>, Known' = Known
      PROVE  FiniteTables' /\ NothingPruned'
  BY <1>w DEF FiniteTables, NothingPruned, Within
<1>1. ASSUME NEW t \in Threads, StartSession(t) PROVE Base'
  <2>1. TypeOK'
    BY <1>1 DEF StartSession, Goto, tables, TypeOK
  <2>2. UNCHANGED <<now, sessions, failed, failures, id>> /\ pc' = [pc EXCEPT ![t] = "insert"]
    BY <1>1 DEF StartSession, Goto, tables
  <2>3. Targets'
    BY <2>2 DEF TypeOK, Targets, Known
  <2> QED BY <2>1, <2>2, <2>3, <1>q
<1>2. ASSUME NEW t \in Threads, NEW i \in Ids, StartConfirm(t, i) PROVE Base'
  <2>1. TypeOK'
    BY <1>2 DEF StartConfirm, Goto, tables, TypeOK
  <2>2. /\ UNCHANGED <<now, sessions, failed, failures>>
        /\ pc' = [pc EXCEPT ![t] = "look"] /\ id' = [id EXCEPT ![t] = i]
    BY <1>2 DEF StartConfirm, Goto, tables
  <2>3. Targets'
    BY <2>2 DEF TypeOK, Targets, Known
  <2> QED BY <2>1, <2>2, <2>3, <1>q
<1>3. ASSUME NEW t \in Threads, NEW i \in Ids, InsertSession(t, i) PROVE Base'
  <2>a. Answer(t) /\ UNCHANGED <<now, failures, devices, failed, crashes>>
    BY <1>3 DEF InsertSession
  <2>1. TypeOK'
    BY <1>3, <2>a, AnswerFacts, InsertFacts DEF TypeOK
  <2>2. Targets'
    <3>1. \A j \in Known : j \in Known' /\ sessions'[j] = sessions[j]
      BY <1>3, InsertFacts DEF Known
    <3>2. \A u \in Threads : u # t => pc'[u] = pc[u] /\ id'[u] = id[u]
      BY <2>a, AnswerFacts DEF TypeOK
    <3>3. pc'[t] = "idle"
      BY <2>a, AnswerFacts DEF TypeOK
    <3> QED BY <3>1, <3>2, <3>3 DEF Targets
  <2>3. FiniteTables' /\ NothingPruned'
    BY <1>3, <2>a, InsertFacts, FS_AddElement DEF FiniteTables, NothingPruned, Within
  <2> QED BY <2>1, <2>2, <2>3
<1>4. ASSUME NEW t \in Threads, Look(t) PROVE Base'
  <2>1. PICK step \in {"count", "idle", "expire", "lock", "confirm", "miss"} :
          /\ pc' = [pc EXCEPT ![t] = step]
          /\ step \notin {"count", "idle"} => sessions[id[t]] # None
          /\ step = "idle" => Answer(t)
          /\ step # "idle" => UNCHANGED request
    BY <1>4, LookFacts
  <2>2. UNCHANGED <<now, sessions, failures, devices, failed, crashes>>
    BY <1>4, LookFacts
  <2>3. TypeOK'
    <3>1. CASE step = "idle"
      BY <2>1, <2>2, <3>1, AnswerFacts DEF TypeOK
    <3>2. CASE step # "idle"
      BY <2>1, <2>2, <3>2 DEF TypeOK, request
    <3> QED BY <3>1, <3>2
  <2>4. Targets'
    <3>0. id[t] \in Ids
      BY <1>4 DEF Look, Targets
    <3>1. CASE step = "idle"
      BY <2>1, <2>2, <3>1, AnswerFacts DEF TypeOK, Targets, Known
    <3>2. CASE step # "idle"
      BY <2>1, <2>2, <3>0, <3>2 DEF TypeOK, Targets, Known, request
    <3> QED BY <3>1, <3>2
  <2> QED BY <2>2, <2>3, <2>4, <1>q
<1>5. ASSUME NEW t \in Threads, Retire(t) PROVE Base'
  <2>1. PICK status \in {"expired", "locked", "confirmed"} : Mark(t, status)
    BY <1>5 DEF Retire
  <2>2. id[t] \in Known
    BY <1>5 DEF Retire, Targets
  <2>3. Answer(t) /\ UNCHANGED <<now, failures, devices, failed, crashes>>
    BY <1>5 DEF Retire
  <2>4. TypeOK'
    BY <2>1, <2>2, <2>3, AnswerFacts, MarkFacts DEF TypeOK
  <2>5. Targets'
    <3>1. Known' = Known /\ \A j \in Known : j # id[t] => sessions'[j] = sessions[j]
      BY <2>1, <2>2, MarkFacts DEF Known
    <3>2. sessions'[id[t]].status # "pending"
      BY <2>1, <2>2, MarkFacts
    <3>3. pc'[t] = "idle" /\ \A u \in Threads : u # t => pc'[u] = pc[u] /\ id'[u] = id[u]
      BY <2>3, AnswerFacts DEF TypeOK
    <3> QED BY <3>1, <3>2, <3>3 DEF Targets
  <2> QED BY <2>1, <2>2, <2>3, <2>4, <2>5, <1>w, MarkFacts
<1>6. ASSUME NEW t \in Threads, Miss(t) PROVE Base'
  <2>2. id[t] \in Known
    BY <1>6 DEF Miss, Targets
  <2>3. /\ pc' = [pc EXCEPT ![t] = "count"]
        /\ UNCHANGED <<now, failures, devices, id, at, failed, crashes>>
    BY <1>6 DEF Miss, Goto, request
  <2>4. TypeOK'
    BY <1>6, <2>2, <2>3, MissFacts DEF TypeOK
  <2>5. Targets'
    <3>1. Known' = Known /\ \A j \in Known : sessions'[j].status = sessions[j].status
      BY <1>6, <2>2, MissFacts
    <3> QED BY <2>3, <3>1 DEF Targets, TypeOK
  <2> QED BY <1>6, <2>2, <2>3, <2>4, <2>5, <1>w, MissFacts
<1>7. ASSUME NEW t \in Threads, Count(t) PROVE Base'
  <2>1. Answer(t) /\ UNCHANGED <<now, sessions, devices, crashes>>
    BY <1>7 DEF Count
  <2>2. failures' \subseteq failed' /\ failed' \subseteq Failure
    BY <1>7, CountFacts DEF NothingPruned
  <2>3. TypeOK'
    <3>1. \A f \in failures' : f.ts <= now
      <4>1. failures' \subseteq failures \cup {[row |-> Cardinality(failed), ts |-> at[t]]}
        BY <1>7 DEF Count, Kept, Within, Stamp
      <4> QED BY <4>1 DEF TypeOK
    <3> QED BY <2>1, <2>2, <3>1, AnswerFacts DEF TypeOK
  <2>4. Targets'
    <3>1. pc'[t] = "idle" /\ \A u \in Threads : u # t => pc'[u] = pc[u] /\ id'[u] = id[u]
      BY <2>1, AnswerFacts DEF TypeOK
    <3> QED BY <2>1, <3>1 DEF Targets, Known
  <2> QED BY <1>7, <2>3, <2>4, CountFacts
<1>8. ASSUME NEW t \in Threads, Confirm(t) PROVE Base'
  <2>1. Mark(t, "confirmed") /\ pc' = [pc EXCEPT ![t] = "add"]
        /\ UNCHANGED <<now, failures, devices, id, at, failed, crashes>>
    BY <1>8 DEF Confirm, Goto, request
  <2>2. id[t] \in Known
    BY <1>8 DEF Confirm, Targets
  <2>3. TypeOK'
    BY <2>1, <2>2, MarkFacts DEF TypeOK
  <2>4. Targets'
    <3>1. Known' = Known /\ \A j \in Known : j # id[t] => sessions'[j] = sessions[j]
      BY <2>1, <2>2, MarkFacts DEF Known
    <3>2. sessions'[id[t]].status # "pending"
      BY <2>1, <2>2, MarkFacts
    <3> QED BY <2>1, <2>2, <3>1, <3>2 DEF Targets, TypeOK
  <2> QED BY <2>1, <2>2, <2>3, <2>4, <1>w, MarkFacts
<1>9. ASSUME NEW t \in Threads, AddDevice(t) PROVE Base'
  <2>1. Answer(t) /\ UNCHANGED <<now, sessions, failures, failed, crashes>>
        /\ devices' = devices \cup {id[t]} /\ id[t] \in Known
    BY <1>9 DEF AddDevice, Targets
  <2>2. TypeOK'
    BY <2>1, AnswerFacts DEF TypeOK, Known
  <2>3. Targets'
    <3>1. pc'[t] = "idle" /\ \A u \in Threads : u # t => pc'[u] = pc[u] /\ id'[u] = id[u]
      BY <2>1, AnswerFacts DEF TypeOK
    <3> QED BY <2>1, <3>1 DEF Targets, Known
  <2> QED BY <2>1, <2>2, <2>3, <1>q
<1>10. CASE Tick
  <2>1. now' = now + 1 /\ UNCHANGED <<sessions, failures, devices, pc, id, at, failed, crashes>>
    BY <1>10 DEF Tick, tables, request
  <2>2. TypeOK'
    <3>1. \A f \in failures : f.ts \in Nat
      BY DEF TypeOK, Failure
    <3> QED BY <2>1, <3>1 DEF TypeOK
  <2>3. Targets' /\ FiniteTables'
    BY <2>1 DEF Targets, FiniteTables, Known
  <2>4. NothingPruned'
    <3>1. \A f \in failed : f.ts \in Nat
      BY DEF TypeOK, Failure
    <3> QED BY <2>1, <3>1 DEF NothingPruned, Within, TypeOK
  <2> QED BY <2>2, <2>3, <2>4
<1>11. CASE Crash
  <2>1. TypeOK'
    BY <1>11 DEF Crash, tables, TypeOK
  <2>2. Targets'
    BY <1>11 DEF Crash, Targets
  <2> QED BY <1>11, <2>1, <2>2, <1>q DEF Crash, tables
<1>12. CASE UNCHANGED vars
  BY <1>12 DEF vars, tables, request, TypeOK, Targets, FiniteTables, NothingPruned,
     Known, Within
<1> QED BY <1>1, <1>2, <1>3, <1>4, <1>5, <1>6, <1>7, <1>8, <1>9, <1>10, <1>11, <1>12
    DEF Next, Statement

LEMMA BaseInvariant == Spec => []Base
BY BaseInit, BaseStep, PTL DEF Spec

----------------------------------------------------------------------------
(* Failures: every thread past the gate may still record one.              *)

LEMMA FailuresInit ==
  ASSUME NEW k \in Nat PROVE Init => FailuresInv(k)
<1> SUFFICES ASSUME Init PROVE FailuresInv(k)
  OBVIOUS
<1>1. Within(failed, now) = {} /\ PastGate = {}
  BY DEF Init, Within, PastGate
<1> QED BY <1>1, FS_EmptySet DEF FailuresInv

LEMMA FailuresStep ==
  ASSUME NEW k \in Nat, Base, FailuresInv(k), [Next]_vars,
         Cardinality(PastGate)' <= k + 1
  PROVE  FailuresInv(k)'
<1> USE DEF FailuresInv
<1>f. IsFiniteSet(Within(failed, now)) /\ Cardinality(Within(failed, now)) \in Nat
  <2>1. Within(failed, now) \subseteq failed
    BY DEF Within
  <2> QED BY <2>1, SmallerSet DEF Base, FiniteTables
<1>p. PastGate \in SUBSET Threads /\ PastGate' \in SUBSET Threads
  BY DEF PastGate
<1>n. /\ Cardinality(PastGate) \in Nat
      /\ IsFiniteSet(PastGate') /\ Cardinality(PastGate') \in Nat
      /\ Cardinality(PastGate') <= k + 1
  BY <1>p, SomeThreads
(* Neither the window nor the threads past the gate grow. *)
<1>d. ASSUME Within(failed', now') \subseteq Within(failed, now), PastGate' \subseteq PastGate
      PROVE  FailuresInv(k)'
  <2>1. /\ Cardinality(Within(failed', now')) \in Nat
        /\ Cardinality(Within(failed', now')) <= Cardinality(Within(failed, now))
    BY <1>d, <1>f, SmallerSet
  <2>2. Cardinality(PastGate') <= Cardinality(PastGate)
    BY <1>d, <1>p, SomeThreads, SmallerSet
  <2> QED BY <1>f, <1>n, <2>1, <2>2
<1>1. ASSUME NEW t \in Threads, NEW i \in Ids, StartConfirm(t, i) PROVE FailuresInv(k)'
  <2>1. Within(failed, now) = Within(failures, now)
    BY DEF Base, NothingPruned, Within
  <2>2. Cardinality(Within(failed, now)) < MaxFailures
    BY <1>1, <1>f, <2>1 DEF StartConfirm, LockedOut
  <2>3. failed' = failed /\ now' = now
    BY <1>1 DEF StartConfirm
  <2> QED BY <1>f, <1>n, <2>2, <2>3
<1>2. ASSUME NEW t \in Threads, Count(t) PROVE FailuresInv(k)'
  <2>1. PICK row : Within(failed', now') \subseteq Within(failed, now) \cup {row}
    BY <1>2, CountFacts
  <2>2. /\ Cardinality(Within(failed', now')) \in Nat
        /\ Cardinality(Within(failed', now')) <= Cardinality(Within(failed, now)) + 1
    BY <1>f, <2>1, OneMore
  <2>3. t \in PastGate
    BY <1>2 DEF Count, PastGate
  <2>4. PastGate' = PastGate \ {t}
    BY <1>2, AnswerFacts DEF Count, PastGate, Base, TypeOK
  <2>5. Cardinality(PastGate') = Cardinality(PastGate) - 1
    BY <1>p, <2>3, <2>4, OneLess
  <2> QED BY <1>f, <1>n, <2>2, <2>5
<1>3. ASSUME NEW t \in Threads, Look(t) PROVE FailuresInv(k)'
  <2>1. /\ \E step : pc' = [pc EXCEPT ![t] = step]
        /\ pc[t] = "look" /\ failed' = failed /\ now' = now
    BY <1>3, LookFacts DEF Base, Look
  <2>2. PastGate' \subseteq PastGate
    BY <2>1 DEF PastGate, Base, TypeOK
  <2> QED BY <2>1, <2>2, <1>d
<1>4. ASSUME NEW t \in Threads,
             \/ StartSession(t) \/ Retire(t) \/ Miss(t) \/ Confirm(t) \/ AddDevice(t)
             \/ \E i \in Ids : InsertSession(t, i)
      PROVE  FailuresInv(k)'
  <2>1. failed' = failed /\ now' = now
    BY <1>4 DEF StartSession, Retire, Miss, Confirm, AddDevice, InsertSession
  <2>2. \E step \in {"insert", "idle", "count", "add"} :
          pc' = [pc EXCEPT ![t] = step] /\ (step = "count" => pc[t] = "miss")
    BY <1>4 DEF StartSession, Retire, Miss, Confirm, AddDevice, InsertSession, Answer, Goto
  <2>3. PastGate' \subseteq PastGate
    BY <2>2 DEF PastGate, Base, TypeOK
  <2> QED BY <2>1, <2>3, <1>d
<1>5. CASE Tick
  <2>1. failed' = failed /\ now' = now + 1 /\ pc' = pc
    BY <1>5 DEF Tick
  <2>2. \A f \in failed : f.ts \in Nat
    BY DEF Base, TypeOK, Failure
  <2>3. Within(failed', now') \subseteq Within(failed, now)
    BY <2>1, <2>2 DEF Within, Base, TypeOK
  <2> QED BY <2>1, <2>3, <1>d DEF PastGate
<1>6. CASE Crash
  BY <1>6, <1>d DEF Crash, PastGate
<1>7. CASE UNCHANGED vars
  BY <1>7, <1>d DEF vars, PastGate
<1> QED BY <1>1, <1>2, <1>3, <1>4, <1>5, <1>6, <1>7 DEF Next, Statement

----------------------------------------------------------------------------
(* Open sessions: every thread about to insert may still open one.         *)

LEMMA ActiveIsFinite ==
  ASSUME Base PROVE IsFiniteSet(Active) /\ Cardinality(Active) \in Nat
<1>1. Active \subseteq Known
  BY DEF Active
<1> QED BY <1>1, SmallerSet DEF Base, FiniteTables

LEMMA PendingInit ==
  ASSUME NEW k \in Nat PROVE Init => PendingInv(k)
<1> SUFFICES ASSUME Init PROVE PendingInv(k)
  OBVIOUS
<1>1. Active = {} /\ Creating = {}
  BY DEF Init, Active, Known, Creating
<1> QED BY <1>1, FS_EmptySet DEF PendingInv

LEMMA PendingStep ==
  ASSUME NEW k \in Nat, Base, PendingInv(k), [Next]_vars,
         Cardinality(Creating)' <= k + 1
  PROVE  PendingInv(k)'
<1> USE DEF PendingInv
<1>f. IsFiniteSet(Active) /\ Cardinality(Active) \in Nat
  BY ActiveIsFinite
<1>p. Creating \in SUBSET Threads /\ Creating' \in SUBSET Threads
  BY DEF Creating
<1>n. /\ Cardinality(Creating) \in Nat
      /\ Cardinality(Creating') \in Nat
      /\ Cardinality(Creating') <= k + 1
  BY <1>p, SomeThreads
(* Neither the open sessions nor the threads about to insert grow. *)
<1>d. ASSUME Active' \subseteq Active, Creating' \subseteq Creating PROVE PendingInv(k)'
  <2>1. Cardinality(Active') \in Nat /\ Cardinality(Active') <= Cardinality(Active)
    BY <1>d, <1>f, SmallerSet
  <2>2. Cardinality(Creating') <= Cardinality(Creating)
    BY <1>d, <1>p, SomeThreads, SmallerSet
  <2> QED BY <1>f, <1>n, <2>1, <2>2
<1>1. ASSUME NEW t \in Threads, StartSession(t) PROVE PendingInv(k)'
  <2>1. Cardinality(Active) < MaxPending
    BY <1>1, <1>f DEF StartSession, Full
  <2>2. Active' = Active
    BY <1>1 DEF StartSession, tables, Active, Known
  <2> QED BY <1>f, <1>n, <2>1, <2>2
<1>2. ASSUME NEW t \in Threads, NEW i \in Ids, InsertSession(t, i) PROVE PendingInv(k)'
  <2>1. Active' \subseteq Active \cup {i}
    BY <1>2, InsertFacts DEF Base, Active, Known, InsertSession
  <2>2. Cardinality(Active') \in Nat /\ Cardinality(Active') <= Cardinality(Active) + 1
    BY <1>f, <2>1, OneMore
  <2>3. t \in Creating
    BY <1>2 DEF InsertSession, Creating
  <2>4. Creating' = Creating \ {t}
    BY <1>2, AnswerFacts DEF InsertSession, Creating, Base, TypeOK
  <2>5. Cardinality(Creating') = Cardinality(Creating) - 1
    BY <1>p, <2>3, <2>4, OneLess
  <2> QED BY <1>f, <1>n, <2>2, <2>5
<1>3. ASSUME NEW t \in Threads, Look(t) PROVE PendingInv(k)'
  <2>1. /\ \E step \in {"count", "idle", "expire", "lock", "confirm", "miss"} :
              pc' = [pc EXCEPT ![t] = step]
        /\ sessions' = sessions /\ now' = now
    BY <1>3, LookFacts DEF Base
  <2>2. Creating' \subseteq Creating
    BY <2>1 DEF Creating, Base, TypeOK
  <2> QED BY <2>1, <2>2, <1>d DEF Active, Known
<1>4. ASSUME NEW t \in Threads,
             Retire(t) \/ Miss(t) \/ Confirm(t)
      PROVE  PendingInv(k)'
  <2>1. id[t] \in Known /\ now' = now
    BY <1>4 DEF Retire, Miss, Confirm, Base, Targets
  <2>2. \E step \in {"idle", "count", "add"} : pc' = [pc EXCEPT ![t] = step]
    BY <1>4 DEF Retire, Miss, Confirm, Answer, Goto
  <2>3. Creating' \subseteq Creating
    BY <2>2 DEF Creating, Base, TypeOK
  <2>4. CASE Miss(t)
    BY <2>1, <2>3, <2>4, <1>d, MissFacts DEF Base, Active
  <2>5. CASE Retire(t) \/ Confirm(t)
    <3>1. PICK status \in {"expired", "locked", "confirmed"} : Mark(t, status)
      BY <2>5 DEF Retire, Confirm
    <3>2. /\ Known' = Known /\ sessions'[id[t]].status = status
          /\ \A j \in Ids : j # id[t] => sessions'[j] = sessions[j]
      BY <2>1, <3>1, MarkFacts DEF Base
    <3>3. Active' \subseteq Active
      BY <2>1, <3>2 DEF Active, Known
    <3> QED BY <2>3, <3>3, <1>d
  <2> QED BY <1>4, <2>4, <2>5
<1>5. ASSUME NEW t \in Threads,
             Count(t) \/ AddDevice(t) \/ \E i \in Ids : StartConfirm(t, i)
      PROVE  PendingInv(k)'
  <2>1. sessions' = sessions /\ now' = now
    BY <1>5 DEF Count, AddDevice, StartConfirm, tables
  <2>2. \E step \in {"idle", "look"} : pc' = [pc EXCEPT ![t] = step]
    BY <1>5 DEF Count, AddDevice, StartConfirm, Answer, Goto
  <2>3. Creating' \subseteq Creating
    BY <2>2 DEF Creating, Base, TypeOK
  <2> QED BY <2>1, <2>3, <1>d DEF Active, Known
<1>6. CASE Tick
  <2>1. sessions' = sessions /\ now' = now + 1 /\ pc' = pc
    BY <1>6 DEF Tick, tables
  <2>2. \A i \in Known : sessions[i].expires \in Nat
    BY DEF Base, TypeOK, Known, Session
  <2>3. Active' \subseteq Active
    BY <2>1, <2>2 DEF Active, Known, Base, TypeOK
  <2> QED BY <2>1, <2>3, <1>d DEF Creating
<1>7. CASE Crash
  BY <1>7, <1>d DEF Crash, tables, Creating, Active, Known
<1>8. CASE UNCHANGED vars
  BY <1>8, <1>d DEF vars, tables, Creating, Active, Known
<1> QED BY <1>1, <1>2, <1>3, <1>4, <1>5, <1>6, <1>7, <1>8 DEF Next, Statement

----------------------------------------------------------------------------
(* Attempts: every thread that read the row before may still add one.      *)

LEMMA AttemptsInit ==
  ASSUME NEW k \in Nat PROVE Init => AttemptsInv(k)
BY DEF Init, AttemptsInv, Known

LEMMA AttemptsStep ==
  ASSUME NEW k \in Nat, Base, AttemptsInv(k), [Next]_vars,
         \A i \in Ids : Cardinality(Guessing(i))' <= k + 1
  PROVE  AttemptsInv(k)'
<1> SUFFICES ASSUME NEW j \in Known'
             PROVE  (sessions[j].attempts + Cardinality(Guessing(j))
                       <= MaxAttempts + k)'
  BY DEF AttemptsInv
<1> DEFINE Bounded == sessions[j].attempts + Cardinality(Guessing(j))
                        <= MaxAttempts + k
<1>g. Guessing(j) \in SUBSET Threads /\ Guessing(j)' \in SUBSET Threads
  BY DEF Guessing
<1>n. /\ Cardinality(Guessing(j)) \in Nat
      /\ Cardinality(Guessing(j)') \in Nat
      /\ Cardinality(Guessing(j)') <= k + 1
  BY <1>g, SomeThreads DEF Known
<1>a. ASSUME j \in Known PROVE sessions[j].attempts \in Nat /\ Bounded
  BY <1>a DEF Base, TypeOK, Known, Session, AttemptsInv
(* The session's count is the same and no thread more is about to add. *)
<1>d. ASSUME j \in Known, sessions'[j].attempts = sessions[j].attempts,
             Guessing(j)' \subseteq Guessing(j)
      PROVE  Bounded'
  <2>1. Cardinality(Guessing(j)') <= Cardinality(Guessing(j))
    BY <1>d, <1>g, SomeThreads, SmallerSet
  <2> QED BY <1>a, <1>d, <1>n, <2>1
<1>1. ASSUME NEW t \in Threads, Look(t) PROVE Bounded'
  <2>1. PICK step \in {"count", "idle", "expire", "lock", "confirm", "miss"} :
          /\ pc' = [pc EXCEPT ![t] = step]
          /\ step = "miss" => ~ Spent(sessions[id[t]])
          /\ step = "idle" => Answer(t)
          /\ step # "idle" => UNCHANGED request
    BY <1>1, LookFacts DEF Base
  <2>2. sessions' = sessions /\ j \in Known
    BY <1>1, LookFacts DEF Base, Known
  <2>3. CASE step = "miss" /\ id[t] = j
    <3>1. sessions[j].attempts < MaxAttempts
      BY <2>1, <2>2, <2>3, <1>a DEF Spent
    <3> QED BY <1>a, <1>n, <2>2, <3>1
  <2>4. CASE ~ (step = "miss" /\ id[t] = j)
    <3>1. Guessing(j)' \subseteq Guessing(j)
      <4>1. ASSUME NEW u \in Threads, u # t PROVE pc'[u] = pc[u] /\ id'[u] = id[u]
        BY <2>1, <4>1, AnswerFacts DEF Base, TypeOK, request
      <4>2. ~ (pc'[t] = "miss" /\ id'[t] = j)
        BY <2>1, <2>4 DEF Base, TypeOK, request
      <4> QED BY <4>1, <4>2 DEF Guessing
    <3> QED BY <2>2, <3>1, <1>d
  <2> QED BY <2>3, <2>4
<1>2. ASSUME NEW t \in Threads, Miss(t) PROVE Bounded'
  <2>1. id[t] \in Known /\ Known' = Known
    BY <1>2, MissFacts DEF Miss, Base, Targets
  <2>2. pc[t] = "miss" /\ pc' = [pc EXCEPT ![t] = "count"] /\ id' = id
    BY <1>2 DEF Miss, Goto, request
  <2>3. CASE j = id[t]
    <3>1. sessions'[j].attempts = sessions[j].attempts + 1
      BY <1>2, <2>1, <2>3, MissFacts DEF Base
    <3>2. t \in Guessing(j) /\ Guessing(j)' = Guessing(j) \ {t}
      BY <2>2, <2>3 DEF Guessing, Base, TypeOK
    <3>3. Cardinality(Guessing(j)') = Cardinality(Guessing(j)) - 1
      BY <1>g, <3>2, OneLess
    <3> QED BY <1>a, <1>n, <2>1, <3>1, <3>3
  <2>4. CASE j # id[t]
    <3>1. sessions'[j] = sessions[j]
      BY <1>2, <2>1, <2>4, MissFacts DEF Base, Known
    <3>2. Guessing(j)' \subseteq Guessing(j)
      BY <2>2 DEF Guessing, Base, TypeOK
    <3> QED BY <2>1, <3>1, <3>2, <1>d
  <2> QED BY <2>3, <2>4
<1>3. ASSUME NEW t \in Threads, NEW i \in Ids, InsertSession(t, i) PROVE Bounded'
  <2>0. Answer(t)
    BY <1>3 DEF InsertSession
  <2>1. Guessing(j)' \subseteq Guessing(j)
    BY <2>0, AnswerFacts DEF Guessing, Base, TypeOK
  <2>2. CASE j = i
    <3>1. Guessing(j) = {} /\ sessions'[j].attempts = 0
      BY <1>3, <2>2, InsertFacts DEF Guessing, Base, Targets
    <3>2. Cardinality(Guessing(j)') = 0
      BY <2>1, <3>1, FS_EmptySet
    <3> QED BY <1>n, <3>1, <3>2
  <2>3. CASE j # i
    <3>1. j \in Known /\ sessions'[j] = sessions[j]
      BY <1>3, <2>3, InsertFacts DEF Base, Known
    <3> QED BY <2>1, <3>1, <1>d
  <2> QED BY <2>2, <2>3
<1>4. ASSUME NEW t \in Threads,
             \/ StartSession(t) \/ Count(t) \/ AddDevice(t)
             \/ \E i \in Ids : StartConfirm(t, i)
      PROVE  Bounded'
  <2>1. sessions' = sessions /\ j \in Known
    BY <1>4 DEF StartSession, Count, AddDevice, StartConfirm, tables, Known
  <2>2. \A u \in Threads : u # t => pc'[u] = pc[u] /\ id'[u] = id[u]
    BY <1>4 DEF StartSession, Count, AddDevice, StartConfirm, Answer, Goto, Base, TypeOK
  <2>3. pc'[t] # "miss"
    BY <1>4 DEF StartSession, Count, AddDevice, StartConfirm, Answer, Goto, Base, TypeOK
  <2>4. Guessing(j)' \subseteq Guessing(j)
    BY <2>2, <2>3 DEF Guessing
  <2> QED BY <2>1, <2>4, <1>d
<1>5. ASSUME NEW t \in Threads, Retire(t) \/ Confirm(t) PROVE Bounded'
  <2>1. PICK status \in {"expired", "locked", "confirmed"} : Mark(t, status)
    BY <1>5 DEF Retire, Confirm
  <2>2. id[t] \in Known
    BY <1>5 DEF Retire, Confirm, Base, Targets
  <2>3. j \in Known /\ sessions'[j].attempts = sessions[j].attempts
    BY <2>1, <2>2, MarkFacts DEF Base
  <2>4. \A u \in Threads : u # t => pc'[u] = pc[u] /\ id'[u] = id[u]
    BY <1>5 DEF Retire, Confirm, Answer, Goto, Base, TypeOK, request
  <2>5. pc'[t] # "miss"
    BY <1>5 DEF Retire, Confirm, Answer, Goto, Base, TypeOK
  <2> QED BY <2>3, <2>4, <2>5, <1>d DEF Guessing
<1>6. CASE Tick
  BY <1>6, <1>d DEF Tick, tables, request, Known, Guessing
<1>7. CASE Crash
  BY <1>7, <1>d DEF Crash, tables, Known, Guessing
<1>8. CASE UNCHANGED vars
  BY <1>8, <1>d DEF vars, tables, request, Known, Guessing
<1> QED BY <1>1, <1>2, <1>3, <1>4, <1>5, <1>6, <1>7, <1>8 DEF Next, Statement

----------------------------------------------------------------------------
(* Tables and threads keep their types, and no recorded time lies ahead of  *)
(* the clock.                                                               *)
THEOREM PairingTypes == Spec => []TypeOK
<1>1. Base => TypeOK
  BY DEF Base
<1> QED BY <1>1, BaseInvariant, PTL

LEMMA AttemptsBound ==
  ASSUME NEW k \in Nat, Base, AttemptsInv(k)
  PROVE  \A i \in Known : sessions[i].attempts <= MaxAttempts + k
<1> SUFFICES ASSUME NEW i \in Known
             PROVE  sessions[i].attempts <= MaxAttempts + k
  OBVIOUS
<1>1. Guessing(i) \in SUBSET Threads
  BY DEF Guessing
<1>2. Cardinality(Guessing(i)) \in Nat
  BY <1>1, SomeThreads
<1> QED BY <1>2 DEF AttemptsInv, Base, TypeOK, Known, Session

(* A session takes at most MAX_ATTEMPTS wrong PINs and one for each thread  *)
(* but one that is, at the same time, between reading its row and counting  *)
(* the guess: exactly MAX_ATTEMPTS when its guesses come one at a time      *)
(* (pairing.py:202-210).                                                    *)
THEOREM AttemptsFollowOverlap ==
  ASSUME NEW k \in Nat
  PROVE  Spec /\ [](\A i \in Ids : Cardinality(Guessing(i)) <= k + 1)
           => [](\A i \in Known : sessions[i].attempts <= MaxAttempts + k)
<1>1. Base /\ AttemptsInv(k) => \A i \in Known : sessions[i].attempts <= MaxAttempts + k
  BY AttemptsBound
<1>2. Base /\ AttemptsInv(k) /\ [Next]_vars /\ (\A i \in Ids : Cardinality(Guessing(i)) <= k + 1)'
        => AttemptsInv(k)'
  BY AttemptsStep
<1> QED BY <1>1, <1>2, AttemptsInit, BaseInvariant, PTL DEF Spec

LEMMA FailuresBound ==
  ASSUME NEW k \in Nat, Base, FailuresInv(k)
  PROVE  Cardinality(Within(failed, now)) <= MaxFailures + k
<1>1. PastGate \in SUBSET Threads /\ Within(failed, now) \subseteq failed
  BY DEF PastGate, Within
<1>2. Cardinality(PastGate) \in Nat /\ Cardinality(Within(failed, now)) \in Nat
  BY <1>1, SomeThreads, SmallerSet DEF Base, FiniteTables
<1> QED BY <1>2 DEF FailuresInv

(* No window holds more failed confirmations than GLOBAL_MAX_FAILURES and   *)
(* one for each thread but one past the gate at the same time: exactly the  *)
(* limit when confirmations come one at a time (pairing.py:67-81, 170-190). *)
THEOREM FailuresFollowOverlap ==
  ASSUME NEW k \in Nat
  PROVE  Spec /\ [](Cardinality(PastGate) <= k + 1)
           => [](Cardinality(Within(failed, now)) <= MaxFailures + k)
<1>1. Base /\ FailuresInv(k) => Cardinality(Within(failed, now)) <= MaxFailures + k
  BY FailuresBound
<1>2. Base /\ FailuresInv(k) /\ [Next]_vars /\ (Cardinality(PastGate) <= k + 1)' => FailuresInv(k)'
  BY FailuresStep
<1> QED BY <1>1, <1>2, FailuresInit, BaseInvariant, PTL DEF Spec

LEMMA PendingBound ==
  ASSUME NEW k \in Nat, Base, PendingInv(k)
  PROVE  Cardinality(Active) <= MaxPending + k
<1>1. Creating \in SUBSET Threads
  BY DEF Creating
<1>2. Cardinality(Creating) \in Nat /\ Cardinality(Active) \in Nat
  BY <1>1, SomeThreads, ActiveIsFinite
<1> QED BY <1>2 DEF PendingInv

(* No more sessions are open than MAX_PENDING_SESSIONS and one for each     *)
(* thread but one that has counted them and not yet inserted its own:       *)
(* exactly the cap when sessions are opened one at a time                   *)
(* (pairing.py:84-90, 132-148).                                             *)
THEOREM PendingFollowsOverlap ==
  ASSUME NEW k \in Nat
  PROVE  Spec /\ [](Cardinality(Creating) <= k + 1) => [](Cardinality(Active) <= MaxPending + k)
<1>1. Base /\ PendingInv(k) => Cardinality(Active) <= MaxPending + k
  BY PendingBound
<1>2. Base /\ PendingInv(k) /\ [Next]_vars /\ (Cardinality(Creating) <= k + 1)' => PendingInv(k)'
  BY PendingStep
<1> QED BY <1>1, <1>2, PendingInit, BaseInvariant, PTL DEF Spec

(* The pool bounds every overlap.  So no session takes more wrong PINs than *)
(* MAX_ATTEMPTS and one for every other thread (pairing.py:202-210) ...     *)
THEOREM AttemptsStayBounded == Spec => []AttemptsBounded
<1>1. Overshoot \in Nat
  BY PoolSize
<1>2. Init => AttemptsInv(Overshoot)
  BY <1>1, AttemptsInit
<1>3. Base /\ AttemptsInv(Overshoot) /\ [Next]_vars => AttemptsInv(Overshoot)'
  <2>1. (\A i \in Ids : Cardinality(Guessing(i)) <= Overshoot + 1)'
    BY SomeThreads DEF Guessing
  <2> QED BY <1>1, <2>1, AttemptsStep
<1>4. Base /\ AttemptsInv(Overshoot) => AttemptsBounded
  BY <1>1, AttemptsBound DEF AttemptsBounded
<1> QED BY <1>2, <1>3, <1>4, BaseInvariant, PTL DEF Spec

(* ... no window holds more failed confirmations than GLOBAL_MAX_FAILURES   *)
(* and one for every other thread (pairing.py:67-81, 170-190) ...           *)
THEOREM FailuresStayBounded == Spec => []FailuresBounded
<1>1. Overshoot \in Nat
  BY PoolSize
<1>2. Init => FailuresInv(Overshoot)
  BY <1>1, FailuresInit
<1>3. Base /\ FailuresInv(Overshoot) /\ [Next]_vars => FailuresInv(Overshoot)'
  <2>1. (Cardinality(PastGate) <= Overshoot + 1)'
    BY SomeThreads DEF PastGate
  <2> QED BY <1>1, <2>1, FailuresStep
<1>4. Base /\ FailuresInv(Overshoot) => FailuresBounded
  BY <1>1, FailuresBound DEF FailuresBounded
<1> QED BY <1>2, <1>3, <1>4, BaseInvariant, PTL DEF Spec

(* ... and no more sessions are open than MAX_PENDING_SESSIONS and one for  *)
(* every other thread (pairing.py:84-90, 132-148).                          *)
THEOREM PendingStaysBounded == Spec => []PendingBounded
<1>1. Overshoot \in Nat
  BY PoolSize
<1>2. Init => PendingInv(Overshoot)
  BY <1>1, PendingInit
<1>3. Base /\ PendingInv(Overshoot) /\ [Next]_vars => PendingInv(Overshoot)'
  <2>1. (Cardinality(Creating) <= Overshoot + 1)'
    BY SomeThreads DEF Creating
  <2> QED BY <1>1, <2>1, PendingStep
<1>4. Base /\ PendingInv(Overshoot) => PendingBounded
  BY <1>1, PendingBound DEF PendingBounded
<1> QED BY <1>2, <1>3, <1>4, BaseInvariant, PTL DEF Spec

(* A session whose device was added takes no PIN again, at whichever        *)
(* statement the process died (pairing.py:220-224, main.py:930-946).        *)
THEOREM PairedStaysSpent == Spec => []PairedIsSpent
<1>1. Init => PairedIsSpent
  BY DEF Init, PairedIsSpent
<1>2. Base /\ PairedIsSpent /\ [Next]_vars => PairedIsSpent'
  <2> SUFFICES ASSUME Base, PairedIsSpent, [Next]_vars PROVE PairedIsSpent'
    OBVIOUS
  <2>1. ASSUME NEW t \in Threads, AddDevice(t) PROVE PairedIsSpent'
    BY <2>1 DEF AddDevice, Base, Targets, PairedIsSpent, Known
  <2>2. ASSUME NEW t \in Threads, NEW i \in Ids, InsertSession(t, i) PROVE PairedIsSpent'
    <3>1. devices' = devices
      BY <2>2 DEF InsertSession
    <3> QED BY <2>2, <3>1, InsertFacts DEF Base, PairedIsSpent, Known
  <2>3. ASSUME NEW t \in Threads, Miss(t) PROVE PairedIsSpent'
    <3>1. id[t] \in Known /\ devices' = devices
      BY <2>3 DEF Miss, Base, Targets
    <3> QED BY <2>3, <3>1, MissFacts DEF Base, PairedIsSpent
  <2>4. ASSUME NEW t \in Threads, Retire(t) \/ Confirm(t) PROVE PairedIsSpent'
    <3>1. PICK status \in {"expired", "locked", "confirmed"} : Mark(t, status)
      BY <2>4 DEF Retire, Confirm
    <3>2. id[t] \in Known /\ devices' = devices
      BY <2>4 DEF Retire, Confirm, Base, Targets
    <3>3. /\ Known' = Known /\ sessions'[id[t]].status = status
          /\ \A j \in Ids : j # id[t] => sessions'[j] = sessions[j]
      BY <3>1, <3>2, MarkFacts DEF Base
    <3> QED BY <3>2, <3>3 DEF PairedIsSpent, Known
  <2>5. CASE UNCHANGED <<sessions, devices>>
    BY <2>5 DEF PairedIsSpent, Known
  <2>6. ASSUME NEW t \in Threads,
               \/ StartSession(t) \/ Look(t) \/ Count(t)
               \/ \E i \in Ids : StartConfirm(t, i)
        PROVE  UNCHANGED <<sessions, devices>>
    BY <2>6 DEF StartSession, Look, Count, StartConfirm, tables
  <2>7. CASE Tick \/ Crash \/ UNCHANGED vars
    BY <2>5, <2>7 DEF Tick, Crash, vars, tables
  <2> QED BY <2>1, <2>2, <2>3, <2>4, <2>5, <2>6, <2>7 DEF Next, Statement
<1> QED BY <1>1, <1>2, BaseInvariant, PTL DEF Spec

=============================================================================
