-------------------------------- MODULE Auth --------------------------------
(***************************************************************************)
(* Authentication of signed requests (require_delegate).  A device signs a *)
(* request once, with its own clock and a nonce; copies of it may reach    *)
(* the station several times: the device retries when it had no answer.   *)
(* The routes are asynchronous and the check never awaits, so each check   *)
(* is one step; the copies' bodies arrive meanwhile and the handlers run   *)
(* on threads afterwards.                                                  *)
(***************************************************************************)
EXTENDS Integers

CONSTANTS
  Messages,     \* signed requests, each with a nonce of its own
  Guarded,      \* those for a path whose arrival the middleware stamps
  Copies,       \* requests being received or served at the same time
  None,         \* not signed yet, or no request
  Skew,         \* MAX_SKEW_SECONDS
  NonceTtl,     \* NONCE_TTL_SECONDS
  Interval,     \* NONCE_CLEANUP_INTERVAL_SECONDS
  MaxTransfer,  \* assumption: a request arrives completely within this time
  MaxNow,       \* bound: the clock
  MaxCrashes    \* bound: restarts of the process

ASSUME Periods ==
  /\ Skew \in Nat /\ NonceTtl \in Nat /\ Interval \in Nat /\ MaxTransfer \in Nat
  /\ MaxNow \in Nat /\ MaxCrashes \in Nat

(* A nonce outlives the requests that carry it: 60 s of skew and the        *)
(* longest transfer fit in 24 h.                                            *)
ASSUME TransfersAreShort == Skew + MaxTransfer <= NonceTtl

ASSUME MessagesAreApart == Guarded \subseteq Messages /\ None \notin Messages \cup Nat

VARIABLES
  now,       \* the station's clock
  signed,    \* message -> the timestamp in it, None before it is signed
  nonces,    \* table auth_nonces: the messages whose nonce is remembered
  cleaned,   \* _last_nonce_cleanup, None before the first
  allowed,   \* whether the device's row in the followers is Allowed
  pc,        \* copy -> "free", "arriving" or "accepted"
  msg,       \* copy -> its message
  arrived,   \* copy -> when it began to arrive
  accepts,   \* history: message -> how often it was accepted
  crashes    \* restarts so far

slots == <<pc, msg, arrived>>
vars == <<now, signed, nonces, cleaned, allowed, slots, accepts, crashes>>

Init ==
  /\ now = 0
  /\ signed = [m \in Messages |-> None]
  /\ nonces = {}
  /\ cleaned = None
  /\ allowed = TRUE
  /\ pc = [c \in Copies |-> "free"]
  /\ msg = [c \in Copies |-> None]
  /\ arrived = [c \in Copies |-> None]
  /\ accepts = [m \in Messages |-> 0]
  /\ crashes = 0

----------------------------------------------------------------------------
(* External: a device signs a request, by a clock that may be off. *)
Sign(m, ts) ==
  /\ signed[m] = None
  /\ signed' = [signed EXCEPT ![m] = ts]
  /\ UNCHANGED <<now, nonces, cleaned, allowed, slots, accepts, crashes>>

(* A copy of it begins to arrive. *)
Arrive(c, m) ==
  /\ pc[c] = "free"
  /\ signed[m] # None
  /\ pc' = [pc EXCEPT ![c] = "arriving"]
  /\ msg' = [msg EXCEPT ![c] = m]
  /\ arrived' = [arrived EXCEPT ![c] = now]
  /\ UNCHANGED <<now, signed, nonces, cleaned, allowed, accepts, crashes>>

----------------------------------------------------------------------------
(* require_delegate, once the body is there *)

JudgedAtMutant(c) == now   \* mutant: a slow upload counts as clock skew
JudgedAt(c) == IF msg[c] \in Guarded THEN arrived[c] ELSE now

Near(t, ts) == t - ts <= Skew /\ ts - t <= Skew
Fresh(c) == Near(JudgedAt(c), signed[msg[c]])

CutoffMutant == now - Skew   \* mutant: nonces are kept as long as the skew
Cutoff == now - NonceTtl

(* Nonces older than their lifetime are pruned, at most once an interval. *)
CleanupDue == cleaned = None \/ now - cleaned > Interval
Remaining == IF CleanupDue THEN {m \in nonces : signed[m] >= Cutoff} ELSE nonces
Cleaned == IF CleanupDue THEN now ELSE cleaned

FreeMutant(c) ==             \* mutant: the stamp of the last request stays
  /\ pc' = [pc EXCEPT ![c] = "free"]
  /\ msg' = [msg EXCEPT ![c] = None]
  /\ UNCHANGED arrived
Free(c) ==
  /\ pc' = [pc EXCEPT ![c] = "free"]
  /\ msg' = [msg EXCEPT ![c] = None]
  /\ arrived' = [arrived EXCEPT ![c] = None]

(* A stale request is refused before anything is read or written. *)
RefuseStale(c) ==
  /\ pc[c] = "arriving" /\ ~ Fresh(c)
  /\ Free(c)
  /\ UNCHANGED <<now, signed, nonces, cleaned, allowed, accepts, crashes>>

(* The clean-up runs, then the device's row and the nonce are looked up. *)
Refuse(c) ==
  /\ pc[c] = "arriving" /\ Fresh(c)
  /\ ~ allowed \/ msg[c] \in Remaining
  /\ nonces' = Remaining
  /\ cleaned' = Cleaned
  /\ Free(c)
  /\ UNCHANGED <<now, signed, allowed, accepts, crashes>>

RememberMutant(c) == Remaining   \* mutant: the nonce is not stored
Remember(c) == Remaining \cup {msg[c]}

Accept(c) ==
  /\ pc[c] = "arriving" /\ Fresh(c)
  /\ allowed /\ msg[c] \notin Remaining
  /\ nonces' = Remember(c)
  /\ cleaned' = Cleaned
  /\ accepts' = [accepts EXCEPT ![msg[c]] = @ + 1]
  /\ pc' = [pc EXCEPT ![c] = "accepted"]
  /\ UNCHANGED <<now, signed, allowed, msg, arrived, crashes>>

(* The handler has run and answered. *)
Serve(c) ==
  /\ pc[c] = "accepted"
  /\ Free(c)
  /\ UNCHANGED <<now, signed, nonces, cleaned, allowed, accepts, crashes>>

----------------------------------------------------------------------------
(* The owner removes the device, or pairs it again. *)
Toggle ==
  /\ allowed' = ~ allowed
  /\ UNCHANGED <<now, signed, nonces, cleaned, slots, accepts, crashes>>

Tick ==
  /\ now < MaxNow
  /\ \A c \in Copies : pc[c] = "arriving" => now < arrived[c] + MaxTransfer
  /\ now' = now + 1
  /\ UNCHANGED <<signed, nonces, cleaned, allowed, slots, accepts, crashes>>

(* The process dies and restarts: the table survives, connections do not,   *)
(* and the time of the last clean-up is forgotten.                          *)
Crash ==
  /\ crashes < MaxCrashes
  /\ crashes' = crashes + 1
  /\ cleaned' = None
  /\ pc' = [c \in Copies |-> "free"]
  /\ msg' = [c \in Copies |-> None]
  /\ arrived' = [c \in Copies |-> None]
  /\ UNCHANGED <<now, signed, nonces, allowed, accepts>>

Check(c) == RefuseStale(c) \/ Refuse(c) \/ Accept(c)

Next ==
  \/ \E m \in Messages, ts \in 0..MaxNow : Sign(m, ts)
  \/ \E c \in Copies, m \in Messages : Arrive(c, m)
  \/ \E c \in Copies : Check(c) \/ Serve(c)
  \/ Toggle \/ Tick \/ Crash

Spec == Init /\ [][Next]_vars

----------------------------------------------------------------------------
(* Properties *)

(* Values have their types, and a free slot holds nothing of the request it *)
(* served: the stamps live in the request's own state (main.py:101).        *)
TypeOK ==
  /\ now \in Nat /\ crashes \in Nat
  /\ cleaned \in Nat \cup {None}
  /\ signed \in [Messages -> Nat \cup {None}]
  /\ nonces \subseteq Messages
  /\ allowed \in BOOLEAN
  /\ pc \in [Copies -> {"free", "arriving", "accepted"}]
  /\ msg \in [Copies -> Messages \cup {None}]
  /\ arrived \in [Copies -> Nat \cup {None}]
  /\ \A c \in Copies : (pc[c] = "free") <=> (msg[c] = None /\ arrived[c] = None)
  /\ accepts \in [Messages -> Nat]

(* A signed request is carried out at most once, however many copies of it  *)
(* arrive, whenever nonces are pruned and the station restarts              *)
(* (auth.py:51-56, 84-92, 107-109, 144-145).                                *)
AcceptedOnce == \A m \in Messages : accepts[m] <= 1

(* A guarded request is refused only when the device is not allowed, when   *)
(* its timestamp was off as it began to arrive, or when a copy of it was    *)
(* accepted before: the time the body took is no reason (auth.py:74-82).    *)
RefusedForCause ==
  [][\A c \in Copies :
       pc[c] = "arriving" /\ pc'[c] = "free" /\ crashes' = crashes /\ msg[c] \in Guarded
         => \/ ~ allowed
            \/ ~ Near(arrived[c], signed[msg[c]])
            \/ accepts[msg[c]] > 0]_vars

=============================================================================
