------------------------------ MODULE Pairing ------------------------------
(***************************************************************************)
(* Pairing of a delegate device by a PIN: /delegate/start creates a        *)
(* session, /delegate/confirm checks a PIN against it.  Both run on the    *)
(* threads of the server's pool.  Every SQL statement is atomic, a handler *)
(* is not: each step below is one statement, and between two of them the   *)
(* slow PIN hash and the statements of other threads can come.             *)
(*                                                                         *)
(*   start    count pending | insert                                       *)
(*   confirm  count failures | read the session | write what it says       *)
(***************************************************************************)
EXTENDS Naturals, FiniteSets

CONSTANTS
  Threads,      \* threads of the server's pool
  Ids,          \* pairing ids, each given out once
  None,         \* no row, or no id
  Ttl,          \* TTL_SECONDS
  MaxAttempts,  \* MAX_ATTEMPTS
  Window,       \* LOCKOUT_WINDOW_SECONDS
  MaxFailures,  \* GLOBAL_MAX_FAILURES
  MaxPending,   \* MAX_PENDING_SESSIONS
  MaxNow,       \* bound: the clock
  MaxCrashes    \* bound: restarts of the process

ASSUME Limits ==
  /\ Ttl \in Nat /\ MaxAttempts \in Nat /\ Window \in Nat
  /\ MaxFailures \in Nat /\ MaxPending \in Nat
  /\ MaxNow \in Nat /\ MaxCrashes \in Nat

ASSUME PoolIsFinite == Threads # {} /\ IsFiniteSet(Threads)

Session == [expires : Nat, attempts : Nat,
            status : {"pending", "confirmed", "expired", "locked"}]

ASSUME NoneIsApart == None \notin Session \cup Ids

Failure == [row : Nat, ts : Nat]

VARIABLES
  now,        \* the clock
  sessions,   \* table pairing_sessions: id -> row
  failures,   \* table pairing_failures
  devices,    \* ids whose device was added to the followers
  pc,         \* thread -> next statement
  id,         \* thread -> the pairing id of its request, None when idle
  at,         \* thread -> the time its handler read, 0 when idle
  failed,     \* history: every failure ever recorded
  crashes     \* restarts so far

tables == <<sessions, failures, devices>>
request == <<id, at>>
vars == <<now, tables, pc, request, failed, crashes>>

Init ==
  /\ now = 0
  /\ sessions = [i \in Ids |-> None]
  /\ failures = {} /\ devices = {}
  /\ pc = [t \in Threads |-> "idle"]
  /\ id = [t \in Threads |-> None]
  /\ at = [t \in Threads |-> 0]
  /\ failed = {} /\ crashes = 0

----------------------------------------------------------------------------
Goto(t, step) == pc' = [pc EXCEPT ![t] = step]

Answer(t) ==
  /\ Goto(t, "idle")
  /\ id' = [id EXCEPT ![t] = None]
  /\ at' = [at EXCEPT ![t] = 0]

Known == {i \in Ids : sessions[i] # None}

(* Rows of the window that ends at time n; both its ends count. *)
Within(rows, n) == {f \in rows : f.ts + Window >= n}

Active == {i \in Known : sessions[i].status = "pending" /\ sessions[i].expires > now}

----------------------------------------------------------------------------
(* create_pairing_session *)

FullMutant == Cardinality(Active) > MaxPending   \* mutant: one session too many
Full == Cardinality(Active) >= MaxPending

StartSession(t) ==
  /\ pc[t] = "idle"
  /\ ~ Full
  /\ at' = [at EXCEPT ![t] = now]
  /\ Goto(t, "insert")
  /\ UNCHANGED <<now, tables, id, failed, crashes>>

InsertSession(t, i) ==
  /\ pc[t] = "insert"
  /\ i \notin Known
  /\ sessions' = [sessions EXCEPT ![i] =
                    [expires |-> at[t] + Ttl, attempts |-> 0, status |-> "pending"]]
  /\ Answer(t)
  /\ UNCHANGED <<now, failures, devices, failed, crashes>>

----------------------------------------------------------------------------
(* confirm_pairing_session *)

LockedOut == Cardinality(Within(failures, now)) >= MaxFailures

StartConfirm(t, i) ==
  /\ pc[t] = "idle"
  /\ ~ LockedOut
  /\ id' = [id EXCEPT ![t] = i]
  /\ at' = [at EXCEPT ![t] = now]
  /\ Goto(t, "look")
  /\ UNCHANGED <<now, tables, failed, crashes>>

SpentMutant(row) == row.attempts > MaxAttempts   \* mutant: one attempt too many
Spent(row) == row.attempts >= MaxAttempts

AcceptedMutant == "add"   \* mutant: the device is added before the session is marked
Accepted == "confirm"

(* What the handler goes on to write, decided on the row it read and on     *)
(* whether the PIN is the right one; "idle" is an answer.                   *)
Verdict(t, row, right) ==
  IF row = None                  THEN "count"
  ELSE IF row.status # "pending" THEN "idle"
  ELSE IF at[t] > row.expires    THEN "expire"
  ELSE IF Spent(row)             THEN "lock"
  ELSE IF right                  THEN Accepted
                                 ELSE "miss"

Look(t) ==
  /\ pc[t] = "look"
  /\ \E right \in BOOLEAN :
       LET next == Verdict(t, sessions[id[t]], right) IN
       IF next = "idle" THEN Answer(t) ELSE Goto(t, next) /\ UNCHANGED request
  /\ UNCHANGED <<now, tables, failed, crashes>>

Mark(t, status) == sessions' = [sessions EXCEPT ![id[t]].status = status]

Retire(t) ==
  /\ pc[t] \in {"expire", "lock"}
  /\ Mark(t, IF pc[t] = "expire" THEN "expired" ELSE "locked")
  /\ Answer(t)
  /\ UNCHANGED <<now, failures, devices, failed, crashes>>

(* A wrong PIN is counted in the session first ... *)
Miss(t) ==
  /\ pc[t] = "miss"
  /\ sessions' = [sessions EXCEPT ![id[t]].attempts = @ + 1]
  /\ Goto(t, "count")
  /\ UNCHANGED <<now, failures, devices, request, failed, crashes>>

StampMutant(t) == at[t] + Window   \* mutant: stores the time the row lapses
Stamp(t) == at[t]

KeptMutant(rows, n) == {f \in rows : f.ts + Window > n}   \* mutant: prunes the edge
Kept(rows, n) == Within(rows, n)

(* ... then in the table every session shares, as an unknown id is; the     *)
(* same transaction prunes the rows outside the window.                     *)
Count(t) ==
  /\ pc[t] = "count"
  /\ LET row == [row |-> Cardinality(failed), ts |-> Stamp(t)] IN
     /\ failures' = Kept(failures \cup {row}, at[t])
     /\ failed' = failed \cup {row}
  /\ Answer(t)
  /\ UNCHANGED <<now, sessions, devices, crashes>>

Confirm(t) ==
  /\ pc[t] = "confirm"
  /\ Mark(t, "confirmed")
  /\ Goto(t, "add")
  /\ UNCHANGED <<now, failures, devices, request, failed, crashes>>

(* delegate_confirm adds the device to the station's own uid, as Allowed. *)
AddDevice(t) ==
  /\ pc[t] = "add"
  /\ devices' = devices \cup {id[t]}
  /\ Answer(t)
  /\ UNCHANGED <<now, sessions, failures, failed, crashes>>

----------------------------------------------------------------------------
Tick ==
  /\ now < MaxNow
  /\ now' = now + 1
  /\ UNCHANGED <<tables, pc, request, failed, crashes>>

(* The process dies and restarts: the tables survive. *)
Crash ==
  /\ crashes < MaxCrashes
  /\ crashes' = crashes + 1
  /\ pc' = [t \in Threads |-> "idle"]
  /\ id' = [t \in Threads |-> None]
  /\ at' = [t \in Threads |-> 0]
  /\ UNCHANGED <<now, tables, failed>>

Statement(t) ==
  \/ Look(t) \/ Retire(t) \/ Miss(t) \/ Count(t) \/ Confirm(t) \/ AddDevice(t)
  \/ \E i \in Ids : InsertSession(t, i)

Next ==
  \/ \E t \in Threads : StartSession(t)
  \/ \E t \in Threads, i \in Ids : StartConfirm(t, i)
  \/ \E t \in Threads : Statement(t)
  \/ Tick \/ Crash

Spec == Init /\ [][Next]_vars

----------------------------------------------------------------------------
(* Properties *)

TypeOK ==
  /\ now \in Nat /\ crashes \in Nat
  /\ sessions \in [Ids -> Session \cup {None}]
  /\ failures \subseteq Failure /\ failed \subseteq Failure
  /\ devices \subseteq Ids
  /\ pc \in [Threads -> {"idle", "insert", "look", "expire", "lock", "miss", "count",
                          "confirm", "add"}]
  /\ id \in [Threads -> Ids \cup {None}]
  /\ at \in [Threads -> Nat]
  /\ \A t \in Threads : at[t] <= now
  /\ \A f \in failures : f.ts <= now

Overshoot == Cardinality(Threads) - 1

(* A session takes at most MAX_ATTEMPTS wrong PINs, and the few more that   *)
(* the other threads had read the row for (pairing.py:197-210).             *)
AttemptsBounded ==
  \A i \in Known : sessions[i].attempts <= MaxAttempts + Overshoot

(* Over all sessions, known or not, no window holds more failures than the  *)
(* limit and the threads that had passed the gate; pruning the table never  *)
(* drops one that still counts (pairing.py:67-81, 170-190).                 *)
FailuresBounded ==
  Cardinality(Within(failed, now)) <= MaxFailures + Overshoot

(* No more sessions are open than the cap and the threads that had counted  *)
(* them before (pairing.py:84-90, 132-148).                                 *)
PendingBounded == Cardinality(Active) <= MaxPending + Overshoot

(* A session whose device was added takes no PIN again, whatever the        *)
(* process died in the middle of: the session is marked before the device   *)
(* is added, and never reopened (pairing.py:220-224, main.py:930-946).      *)
PairedIsSpent == \A i \in devices : i \in Known /\ sessions[i].status # "pending"

=============================================================================
