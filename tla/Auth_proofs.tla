----------------------------- MODULE Auth_proofs -----------------------------
(***************************************************************************)
(* Theorems about Auth, for any messages, copies and periods within the    *)
(* assumptions of that module.  The argument: a message that was accepted  *)
(* is remembered, or so old that its nonce was pruned (Remembered); a copy *)
(* of it that arrives within MaxTransfer is then stale by the same clock   *)
(* (Timely), so it is never accepted again.                                *)
(***************************************************************************)
EXTENDS Auth, TLAPS

Timely ==
  \A c \in Copies :
    pc[c] = "arriving" => /\ msg[c] \in Messages
                          /\ signed[msg[c]] \in Nat
                          /\ arrived[c] \in Nat
                          /\ arrived[c] <= now
                          /\ now <= arrived[c] + MaxTransfer

Remembered ==
  \A m \in Messages :
    accepts[m] > 0 => /\ signed[m] \in Nat
                      /\ m \in nonces \/ signed[m] + NonceTtl < now

Earned == \A m \in nonces : accepts[m] > 0

Inv == TypeOK /\ Timely /\ Remembered /\ Earned /\ AcceptedOnce

USE Periods, TransfersAreShort, MessagesAreApart

LEMMA InitInv == Init => Inv
BY DEF Init, Inv, TypeOK, Timely, Remembered, Earned, AcceptedOnce

(* What the clean-up forgets is older than any copy still fresh. *)
LEMMA CleanupForgets ==
  ASSUME Inv
  PROVE  /\ Remaining \subseteq nonces
         /\ \A m \in Messages :
              accepts[m] > 0 => m \in Remaining \/ signed[m] + NonceTtl < now
         /\ Cleaned \in Nat \cup {None}
BY DEF Inv, TypeOK, Remembered, Remaining, Cleaned, CleanupDue, Cutoff

(* A fresh copy was signed too recently for its nonce to be pruned. *)
LEMMA FreshIsRecent ==
  ASSUME Inv, NEW c \in Copies, pc[c] = "arriving", Fresh(c)
  PROVE  now <= signed[msg[c]] + NonceTtl
<1>1. /\ signed[msg[c]] \in Nat /\ arrived[c] \in Nat /\ now \in Nat
      /\ arrived[c] <= now /\ now <= arrived[c] + MaxTransfer
  BY DEF Inv, TypeOK, Timely
<1>2. JudgedAt(c) \in Nat /\ arrived[c] <= JudgedAt(c)
  BY <1>1 DEF JudgedAt
<1>3. JudgedAt(c) - signed[msg[c]] <= Skew
  BY DEF Fresh, Near
<1> QED BY <1>1, <1>2, <1>3

LEMMA FreeKeeps ==
  ASSUME Inv, NEW c \in Copies, Free(c), UNCHANGED <<now, signed>>
  PROVE  /\ pc' \in [Copies -> {"free", "arriving", "accepted"}]
         /\ msg' \in [Copies -> Messages \cup {None}]
         /\ arrived' \in [Copies -> Nat \cup {None}]
         /\ \A d \in Copies : (pc'[d] = "free") <=> (msg'[d] = None /\ arrived'[d] = None)
         /\ Timely'
BY DEF Inv, TypeOK, Timely, Free

LEMMA NextInv == Inv /\ [Next]_vars => Inv'
<1> SUFFICES ASSUME Inv, [Next]_vars PROVE Inv'
  OBVIOUS
<1>1. ASSUME NEW m \in Messages, NEW ts \in 0..MaxNow, Sign(m, ts) PROVE Inv'
  BY <1>1 DEF Inv, TypeOK, Timely, Remembered, Earned, AcceptedOnce, Sign, slots
<1>2. ASSUME NEW c \in Copies, NEW m \in Messages, Arrive(c, m) PROVE Inv'
  <2>1. TypeOK'
    BY <1>2 DEF Inv, TypeOK, Arrive
  <2>2. Timely'
    BY <1>2 DEF Inv, TypeOK, Timely, Arrive
  <2>3. (Remembered /\ Earned /\ AcceptedOnce)'
    BY <1>2 DEF Inv, Remembered, Earned, AcceptedOnce, Arrive
  <2> QED BY <2>1, <2>2, <2>3 DEF Inv
<1>3. ASSUME NEW c \in Copies, RefuseStale(c) PROVE Inv'
  <2>1. TypeOK' /\ Timely'
    BY <1>3, FreeKeeps DEF Inv, TypeOK, RefuseStale
  <2>2. (Remembered /\ Earned /\ AcceptedOnce)'
    BY <1>3 DEF Inv, Remembered, Earned, AcceptedOnce, RefuseStale
  <2> QED BY <2>1, <2>2 DEF Inv
<1>4. ASSUME NEW c \in Copies, Refuse(c) PROVE Inv'
  <2>1. TypeOK' /\ Timely'
    BY <1>4, FreeKeeps, CleanupForgets DEF Inv, TypeOK, Refuse
  <2>2. Remembered'
    BY <1>4, CleanupForgets DEF Inv, TypeOK, Remembered, Refuse
  <2>3. (Earned /\ AcceptedOnce)'
    BY <1>4, CleanupForgets DEF Inv, Earned, AcceptedOnce, Refuse
  <2> QED BY <2>1, <2>2, <2>3 DEF Inv
<1>5. ASSUME NEW c \in Copies, Accept(c) PROVE Inv'
  <2>1. msg[c] \in Messages /\ signed[msg[c]] \in Nat
    BY <1>5 DEF Inv, Timely, Accept
  <2>2. accepts[msg[c]] = 0
    <3>1. accepts[msg[c]] > 0 => FALSE
      BY <1>5, <2>1, CleanupForgets, FreshIsRecent DEF Accept, Inv, TypeOK
    <3> QED BY <2>1, <3>1 DEF Inv, TypeOK
  <2>3. TypeOK'
    BY <1>5, <2>1, CleanupForgets DEF Inv, TypeOK, Accept, Remember
  <2>4. Timely'
    BY <1>5 DEF Inv, TypeOK, Timely, Accept
  <2>5. Remembered'
    BY <1>5, <2>1, CleanupForgets DEF Inv, TypeOK, Remembered, Accept, Remember
  <2>6. Earned'
    BY <1>5, <2>1, CleanupForgets DEF Inv, TypeOK, Earned, Accept, Remember
  <2>7. AcceptedOnce'
    BY <1>5, <2>1, <2>2 DEF Inv, TypeOK, AcceptedOnce, Accept
  <2> QED BY <2>3, <2>4, <2>5, <2>6, <2>7 DEF Inv
<1>6. ASSUME NEW c \in Copies, Serve(c) PROVE Inv'
  <2>1. TypeOK' /\ Timely'
    BY <1>6, FreeKeeps DEF Inv, TypeOK, Serve
  <2>2. (Remembered /\ Earned /\ AcceptedOnce)'
    BY <1>6 DEF Inv, Remembered, Earned, AcceptedOnce, Serve
  <2> QED BY <2>1, <2>2 DEF Inv
<1>7. CASE Toggle
  BY <1>7 DEF Inv, TypeOK, Timely, Remembered, Earned, AcceptedOnce, Toggle, slots
<1>8. CASE Tick
  <2>1. (TypeOK /\ Earned /\ AcceptedOnce)'
    BY <1>8 DEF Inv, TypeOK, Earned, AcceptedOnce, Tick, slots
  <2>2. Timely'
    BY <1>8 DEF Inv, TypeOK, Timely, Tick, slots
  <2>3. Remembered'
    BY <1>8 DEF Inv, TypeOK, Remembered, Tick
  <2> QED BY <2>1, <2>2, <2>3 DEF Inv
<1>9. CASE Crash
  BY <1>9 DEF Inv, TypeOK, Timely, Remembered, Earned, AcceptedOnce, Crash
<1>10. CASE UNCHANGED vars
  BY <1>10 DEF Inv, TypeOK, Timely, Remembered, Earned, AcceptedOnce, vars, slots
<1> QED BY <1>1, <1>2, <1>3, <1>4, <1>5, <1>6, <1>7, <1>8, <1>9, <1>10 DEF Next, Check

LEMMA AlwaysInv == Spec => []Inv
BY InitInv, NextInv, PTL DEF Spec

(* The table of nonces, the slots and the history have their types, and a   *)
(* free slot holds nothing of the request it served.                        *)
THEOREM AuthTypes == Spec => []TypeOK
<1>1. Inv => TypeOK
  BY DEF Inv
<1> QED BY <1>1, AlwaysInv, PTL

(* No signed request is carried out twice, for any skew, lifetime and       *)
(* clean-up interval, any number of copies and restarts, as long as skew    *)
(* and transfer time fit in the lifetime of a nonce (auth.py:84-109).       *)
THEOREM RequestsCarriedOutOnce == Spec => []AcceptedOnce
<1>1. Inv => AcceptedOnce
  BY DEF Inv
<1> QED BY <1>1, AlwaysInv, PTL

(* The time a body took to arrive never refuses a guarded request: a        *)
(* refusal has one of three causes (auth.py:74-82, 96-109).                 *)
THEOREM RefusalsHaveCause == Spec => RefusedForCause
<1> DEFINE Caused ==
      \A c \in Copies :
        pc[c] = "arriving" /\ pc'[c] = "free" /\ crashes' = crashes /\ msg[c] \in Guarded
          => \/ ~ allowed
             \/ ~ Near(arrived[c], signed[msg[c]])
             \/ accepts[msg[c]] > 0
<1>1. Inv /\ [Next]_vars => [Caused]_vars
  <2> SUFFICES ASSUME Inv, Next, NEW c \in Copies,
                      pc[c] = "arriving", pc'[c] = "free", crashes' = crashes,
                      msg[c] \in Guarded
               PROVE  \/ ~ allowed
                      \/ ~ Near(arrived[c], signed[msg[c]])
                      \/ accepts[msg[c]] > 0
    OBVIOUS
  <2>1. \A d \in Copies : d # c => ~ Free(d)
    BY DEF Free, Inv, TypeOK
  <2>2. RefuseStale(c) \/ Refuse(c)
    BY <2>1 DEF Next, Check, Inv, TypeOK, Sign, Arrive, RefuseStale, Refuse, Accept,
                Serve, Toggle, Tick, Crash, slots
  <2>3. CASE RefuseStale(c)
    BY <2>3 DEF RefuseStale, Fresh, JudgedAt
  <2>4. CASE Refuse(c)
    BY <2>4, CleanupForgets DEF Refuse, Inv, Earned
  <2> QED BY <2>2, <2>3, <2>4
<1> QED BY <1>1, AlwaysInv, PTL DEF Spec, RefusedForCause

=============================================================================
