---------------------------- MODULE Updater_proofs ----------------------------
(***************************************************************************)
(* Theorems about Updater, for any runs, releases and bounds.  Only the    *)
(* holder of the lock is at work (TypeOK), so nobody moves the checkout    *)
(* under a run: the run knows both its commits (Told), what is checked out *)
(* is what its step says (CheckedOut).  Where installations take effect, a *)
(* station that runs at all once the installer has returned runs what is   *)
(* checked out (Restarted), and that is what a hosted station ensures.     *)
(***************************************************************************)
EXTENDS Updater, TLAPS

Told(r) ==
  /\ pc[r] # "idle" => current[r] \in Commits
  /\ pc[r] \notin {"idle", "decide"} => desired[r] \in Commits

CheckedOut(r) ==
  /\ pc[r] \in {"install", "health", "back"} => head = desired[r]
  /\ pc[r] \in {"reinstall", "recheck"} => head = current[r]

(* An installation that leaves the station on what is checked out: it was   *)
(* restarted, or was down, or ran that already.                             *)
InstallsTake == \A r \in Runs : Install(r) => running' = head

Restarted(r) == pc[r] \in {"health", "recheck"} => running \in {head, NoCommit}

RunInv(r) == Told(r) /\ CheckedOut(r)

Inv == TypeOK /\ \A r \in Runs : RunInv(r)

(* What every step of the run r leaves alone. *)
OthersIdle(r) == \A s \in Runs \ {r} : pc[s] = "idle"

USE UpdaterTypes

LEMMA HolderAlone ==
  ASSUME TypeOK, NEW r \in Runs, pc[r] # "idle"
  PROVE  OthersIdle(r) /\ lock = {r}
BY DEF TypeOK, OthersIdle

LEMMA CountTypes ==
  ASSUME TypeOK, NEW what \in {"faults", "deaths", "pins"}, Count(what)
  PROVE  counts' \in [{"faults", "deaths", "pins"} -> Nat]
BY DEF TypeOK, Count

(* A run that is idle asks nothing of the invariant. *)
LEMMA IdleInv ==
  ASSUME NEW r, pc[r] = "idle"
  PROVE  RunInv(r)
BY DEF RunInv, Told, CheckedOut

LEMMA OneRun ==
  ASSUME NEW r \in Runs, OthersIdle(r), RunInv(r)
  PROVE  \A s \in Runs : RunInv(s)
BY IdleInv DEF OthersIdle

(* What the end of a run leaves behind. *)
LEMMA ExitTypes ==
  ASSUME TypeOK, NEW r \in Runs, OthersIdle(r), Exit(r)
  PROVE  /\ pc' \in [Runs -> Steps] /\ \A s \in Runs : pc'[s] = "idle"
         /\ current' \in [Runs -> Commits \cup {NoCommit}]
         /\ desired' \in [Runs -> Commits \cup {NoCommit}]
         /\ \A s \in Runs : RunInv(s)'
<1>1. /\ pc' \in [Runs -> Steps] /\ \A s \in Runs : pc'[s] = "idle"
      /\ current' \in [Runs -> Commits \cup {NoCommit}]
      /\ desired' \in [Runs -> Commits \cup {NoCommit}]
  BY DEF TypeOK, Exit, Goto, OthersIdle, Steps
<1>2. \A s \in Runs : RunInv(s)'
  BY <1>1 DEF RunInv, Told, CheckedOut
<1> QED BY <1>1, <1>2

(* What going on to the next step does. *)
LEMMA GotoTypes ==
  ASSUME TypeOK, NEW r \in Runs, OthersIdle(r), lock' = {r}, NEW step \in Steps, Goto(r, step)
  PROVE  /\ pc' \in [Runs -> Steps] /\ pc'[r] = step
         /\ \A s \in Runs : pc'[s] # "idle" => lock' = {s}
         /\ OthersIdle(r)'
BY DEF TypeOK, Goto, OthersIdle

(* A step of the run r gives the invariant back when r's own part holds. *)
LEMMA OneRunNext ==
  ASSUME NEW r \in Runs, OthersIdle(r)', RunInv(r)'
  PROVE  \A s \in Runs : RunInv(s)'
<1>1. \A s \in Runs \ {r} : RunInv(s)'
  BY DEF OthersIdle, RunInv, Told, CheckedOut
<1> QED BY <1>1

LEMMA InitInv == Init => Inv
<1> SUFFICES ASSUME Init PROVE Inv
  OBVIOUS
<1>1. head \in Commits /\ running \in Commits \cup {NoCommit} /\ pin \in Commits
  BY DEF Init
<1>2. \A r \in Runs : pc[r] = "idle"
  BY DEF Init
<1>3. /\ pc \in [Runs -> Steps]
      /\ current \in [Runs -> Commits \cup {NoCommit}]
      /\ desired \in [Runs -> Commits \cup {NoCommit}]
  BY DEF Init, Steps
<1>4. counts \in [{"faults", "deaths", "pins"} -> Nat]
  BY DEF Init
<1>5. alarm \in BOOLEAN /\ cut \in BOOLEAN
  BY DEF Init
<1>6. TypeOK
  BY <1>1, <1>2, <1>3, <1>4, <1>5 DEF TypeOK
<1> QED BY <1>2, <1>6, IdleInv DEF Inv

LEMMA FireInv ==
  ASSUME Inv, NEW r \in Runs, Fire(r)
  PROVE  Inv'
<1>1. OthersIdle(r) /\ lock' = {r} /\ Goto(r, "decide")
  BY DEF Inv, TypeOK, Fire, OthersIdle
<1>2. current' \in [Runs -> Commits \cup {NoCommit}] /\ current'[r] \in Commits
  BY DEF Inv, TypeOK, Fire
<1>3. /\ pc' \in [Runs -> Steps] /\ pc'[r] = "decide" /\ OthersIdle(r)'
      /\ \A s \in Runs : pc'[s] # "idle" => lock' = {s}
  BY <1>1, GotoTypes DEF Inv, Steps
<1>4. RunInv(r)'
  BY <1>2, <1>3 DEF RunInv, Told, CheckedOut
<1>5. TypeOK'
  BY <1>2, <1>3 DEF Inv, TypeOK, Fire, past
<1> QED BY <1>3, <1>4, <1>5, OneRunNext DEF Inv

LEMMA DecideInv ==
  ASSUME Inv, NEW r \in Runs, Decide(r)
  PROVE  Inv'
<1>1. OthersIdle(r) /\ lock = {r}
  BY HolderAlone DEF Decide, At, Inv
<1>2. CASE desired' = [desired EXCEPT ![r] = pin] /\ Goto(r, "checkout") /\ UNCHANGED <<lock, current, counts>>
  <2>1. /\ pc' \in [Runs -> Steps] /\ pc'[r] = "checkout" /\ OthersIdle(r)'
        /\ \A s \in Runs : pc'[s] # "idle" => lock' = {s}
    BY <1>1, <1>2, GotoTypes DEF Inv, Steps
  <2>2. desired' \in [Runs -> Commits \cup {NoCommit}] /\ desired'[r] \in Commits
    BY <1>2 DEF Inv, TypeOK
  <2>3. current'[r] \in Commits
    BY <1>2 DEF Inv, RunInv, Told, Decide, At
  <2>4. RunInv(r)'
    BY <2>1, <2>2, <2>3 DEF RunInv, Told, CheckedOut
  <2>5. TypeOK'
    BY <1>2, <2>1, <2>2 DEF Inv, TypeOK, Decide, past
  <2> QED BY <2>1, <2>4, <2>5, OneRunNext DEF Inv
<1>3. CASE Exit(r) /\ UNCHANGED counts
  BY <1>1, <1>3, ExitTypes DEF Inv, TypeOK, Decide, past
<1>4. CASE Count("faults") /\ Exit(r)
  BY <1>1, <1>4, ExitTypes, CountTypes DEF Inv, TypeOK, Decide, past
<1> QED BY <1>2, <1>3, <1>4 DEF Decide

LEMMA CheckoutInv ==
  ASSUME Inv, NEW r \in Runs, Checkout(r)
  PROVE  Inv'
<1>1. OthersIdle(r) /\ lock = {r}
  BY HolderAlone DEF Checkout, At, Inv
<1>2. CASE head' = desired[r] /\ Goto(r, "install") /\ UNCHANGED <<lock, current, desired, counts>>
  <2>1. /\ pc' \in [Runs -> Steps] /\ pc'[r] = "install" /\ OthersIdle(r)'
        /\ \A s \in Runs : pc'[s] # "idle" => lock' = {s}
    BY <1>1, <1>2, GotoTypes DEF Inv, Steps
  <2>2. current[r] \in Commits /\ desired[r] \in Commits
    BY DEF Inv, RunInv, Told, Checkout, At
  <2>3. RunInv(r)'
    BY <1>2, <2>1, <2>2 DEF RunInv, Told, CheckedOut
  <2>4. TypeOK'
    BY <1>2, <2>1, <2>2 DEF Inv, TypeOK, Checkout, past
  <2> QED BY <2>1, <2>3, <2>4, OneRunNext DEF Inv
<1>3. CASE Count("faults") /\ Exit(r) /\ UNCHANGED head
  BY <1>1, <1>3, ExitTypes, CountTypes DEF Inv, TypeOK, Checkout, past
<1> QED BY <1>2, <1>3 DEF Checkout

LEMMA InstallInv ==
  ASSUME Inv, NEW r \in Runs, Install(r)
  PROVE  Inv'
<1>1. OthersIdle(r) /\ lock = {r}
  BY HolderAlone DEF Install, At, Inv
<1>2. running' \in Commits \cup {NoCommit}
  BY DEF Install, Started, Inv, TypeOK
<1>3. PICK step \in {"health", "recheck"} :
        /\ Goto(r, step)
        /\ pc[r] = (IF step = "health" THEN "install" ELSE "reinstall")
  BY DEF Install, At
<1>4. /\ pc' \in [Runs -> Steps] /\ pc'[r] = step /\ OthersIdle(r)'
      /\ \A s \in Runs : pc'[s] # "idle" => lock' = {s}
  BY <1>1, <1>3, GotoTypes DEF Inv, Steps, Install
<1>5. RunInv(r)'
  BY <1>3, <1>4 DEF Inv, RunInv, Told, CheckedOut, Install
<1>6. TypeOK'
  BY <1>2, <1>4 DEF Inv, TypeOK, Install, past
<1> QED BY <1>4, <1>5, <1>6, OneRunNext DEF Inv

LEMMA HealthOkInv ==
  ASSUME Inv, NEW r \in Runs, HealthOk(r)
  PROVE  Inv'
<1>1. OthersIdle(r)
  BY HolderAlone DEF HealthOk, At, Inv
<1> QED BY <1>1, ExitTypes DEF Inv, TypeOK, HealthOk, past

LEMMA FailsTypes ==
  ASSUME TypeOK, NEW r \in Runs, Fails(r)
  PROVE  running' \in Commits \cup {NoCommit} /\ counts' \in [{"faults", "deaths", "pins"} -> Nat]
<1>1. Started \in Commits \cup {NoCommit}
  BY DEF TypeOK, Started
<1>2. CASE Count("faults") /\ running' \in {running, Started}
  BY <1>1, <1>2, CountTypes DEF TypeOK
<1>3. CASE Count("faults") /\ UNCHANGED running
  BY <1>3, CountTypes DEF TypeOK
<1>4. CASE UNCHANGED counts /\ UNCHANGED running
  BY <1>4 DEF TypeOK
<1> QED BY <1>2, <1>3, <1>4 DEF Fails

LEMMA GoBackInv ==
  ASSUME Inv, NEW r \in Runs, GoBack(r)
  PROVE  Inv'
<1>1. OthersIdle(r) /\ lock' = {r}
  BY HolderAlone DEF GoBack, Inv
<1>2. /\ pc' \in [Runs -> Steps] /\ pc'[r] = "back" /\ OthersIdle(r)'
      /\ \A s \in Runs : pc'[s] # "idle" => lock' = {s}
  BY <1>1, GotoTypes DEF Inv, Steps, GoBack
<1>3. RunInv(r)'
  BY <1>2 DEF Inv, RunInv, Told, CheckedOut, GoBack
<1>4. TypeOK'
  BY <1>2, FailsTypes DEF Inv, TypeOK, GoBack, past
<1> QED BY <1>2, <1>3, <1>4, OneRunNext DEF Inv

LEMMA GiveUpInv ==
  ASSUME Inv, NEW r \in Runs, GiveUp(r)
  PROVE  Inv'
<1>1. OthersIdle(r)
  BY HolderAlone DEF GiveUp, Inv
<1> QED BY <1>1, ExitTypes, FailsTypes DEF Inv, TypeOK, GiveUp

LEMMA CheckoutBackInv ==
  ASSUME Inv, NEW r \in Runs, CheckoutBack(r)
  PROVE  Inv'
<1>1. OthersIdle(r) /\ lock = {r}
  BY HolderAlone DEF CheckoutBack, At, Inv
<1>2. CASE head' = current[r] /\ Goto(r, "reinstall") /\ UNCHANGED <<lock, current, desired, counts, alarm>>
  <2>1. /\ pc' \in [Runs -> Steps] /\ pc'[r] = "reinstall" /\ OthersIdle(r)'
        /\ \A s \in Runs : pc'[s] # "idle" => lock' = {s}
    BY <1>1, <1>2, GotoTypes DEF Inv, Steps
  <2>2. current[r] \in Commits /\ desired[r] \in Commits
    BY DEF Inv, RunInv, Told, CheckoutBack, At
  <2>3. RunInv(r)'
    BY <1>2, <2>1, <2>2 DEF RunInv, Told, CheckedOut
  <2>4. TypeOK'
    BY <1>2, <2>1, <2>2 DEF Inv, TypeOK, CheckoutBack
  <2> QED BY <2>1, <2>3, <2>4, OneRunNext DEF Inv
<1>3. CASE Count("faults") /\ alarm' = TRUE /\ Exit(r) /\ UNCHANGED head
  BY <1>1, <1>3, ExitTypes, CountTypes DEF Inv, TypeOK, CheckoutBack
<1> QED BY <1>2, <1>3 DEF CheckoutBack

LEMMA RunDiesInv ==
  ASSUME Inv, NEW r \in Runs, RunDies(r)
  PROVE  Inv'
<1>1. OthersIdle(r)
  BY DEF RunDies, OthersIdle, Inv, TypeOK
<1>2. cut' \in BOOLEAN
  BY DEF RunDies, Inv, TypeOK, Working
<1> QED BY <1>1, <1>2, ExitTypes, CountTypes DEF Inv, TypeOK, RunDies

(* What happens to the station and the pin moves neither run nor checkout. *)
LEMMA OutsideInv ==
  ASSUME Inv, (\E c \in Commits : SetPin(c)) \/ StationStops \/ StationStarts
  PROVE  Inv'
<1>1. UNCHANGED <<head, lock, pc, current, desired, alarm, cut>>
  BY DEF SetPin, StationStops, StationStarts, locals, past
<1>2. counts' \in [{"faults", "deaths", "pins"} -> Nat] /\ pin' \in Commits
  BY CountTypes DEF SetPin, StationStops, StationStarts, Inv, TypeOK
<1>3. \A r \in Runs : RunInv(r)'
  BY <1>1 DEF Inv, RunInv, Told, CheckedOut
<1>4. running' \in Commits \cup {NoCommit}
  BY DEF SetPin, StationStops, StationStarts, Inv, TypeOK
<1>5. TypeOK'
  BY <1>1, <1>2, <1>4 DEF Inv, TypeOK
<1> QED BY <1>3, <1>5 DEF Inv

LEMMA NextInv == Inv /\ [Next]_vars => Inv'
<1> SUFFICES ASSUME Inv, [Next]_vars PROVE Inv'
  OBVIOUS
<1>1. CASE UNCHANGED vars
  BY <1>1 DEF Inv, TypeOK, RunInv, Told, CheckedOut, vars, locals, past
<1>2. ASSUME NEW r \in Runs, Fire(r) \/ Step(r) \/ RunDies(r) PROVE Inv'
  BY <1>2, FireInv, DecideInv, CheckoutInv, InstallInv, HealthOkInv, GoBackInv, GiveUpInv,
     CheckoutBackInv, RunDiesInv DEF Step
<1> QED BY <1>1, <1>2, OutsideInv DEF Next

(* At most one run works at a time, the one that holds the lock, whatever  *)
(* fails or dies (cipher-updater.sh, the lock file).                       *)
THEOREM OneRunAtATime == Spec => []TypeOK
<1>1. Inv => TypeOK
  BY DEF Inv
<1> QED BY InitInv, NextInv, <1>1, PTL DEF Spec

----------------------------------------------------------------------------
(* The installation takes effect *)

(* Only the holder moves the checkout, and it comes to a health check from  *)
(* an installation.                                                         *)
LEMMA StaysRestarted ==
  ASSUME Inv, \A r \in Runs : Restarted(r), [Next]_vars, [InstallsTake]_vars
  PROVE  \A r \in Runs : Restarted(r)'
<1>1. CASE UNCHANGED vars
  BY <1>1 DEF Restarted, vars, locals
<1>2. CASE Next /\ InstallsTake
  <2>1. CASE StationStops \/ StationStarts \/ \E c \in Commits : SetPin(c)
    BY <2>1 DEF StationStops, StationStarts, SetPin, Restarted, locals
  <2>2. ASSUME NEW s \in Runs, Fire(s) \/ Step(s) \/ RunDies(s) PROVE \A r \in Runs : Restarted(r)'
    <3>1. OthersIdle(s)
      <4>1. CASE Fire(s)
        BY <4>1 DEF Fire, OthersIdle, Inv, TypeOK
      <4>2. CASE RunDies(s)
        BY <4>2 DEF RunDies, OthersIdle, Inv, TypeOK
      <4>3. CASE Step(s)
        <5>1. pc[s] # "idle"
          BY <4>3 DEF Step, Decide, Checkout, Install, HealthOk, GoBack, GiveUp, CheckoutBack, At
        <5> QED BY <5>1, HolderAlone DEF Inv
      <4> QED BY <2>2, <4>1, <4>2, <4>3
    <3>2. CASE Install(s)
      <4>1. running' = head /\ head' = head
        BY <1>2, <3>2 DEF InstallsTake, Install
      <4> QED BY <4>1 DEF Restarted
    <3>3. CASE ~ Install(s)
      <4>1. \A r \in Runs : pc'[r] \notin {"health", "recheck"}
        BY <2>2, <3>1, <3>3
        DEF OthersIdle, Fire, Step, RunDies, Decide, Checkout, HealthOk, GoBack, GiveUp,
            CheckoutBack, Exit, Goto, At, Inv, TypeOK
      <4> QED BY <4>1 DEF Restarted
    <3> QED BY <3>2, <3>3
  <2> QED BY <1>2, <2>1, <2>2 DEF Next
<1> QED BY <1>1, <1>2

(* An end of a run that is neither a death nor a call for help is a health *)
(* check passed by a station that was restarted on what is checked out.    *)
LEMMA EndsWell ==
  ASSUME Inv, \A s \in Runs : Restarted(s), [Next]_vars,
         NEW r \in Runs, Working(r), Ends(r), ~cut', ~alarm'
  PROVE  running' = head' /\ running' \in Good /\ head' \in {current[r], desired[r]}
<1>1. pc' # pc
  BY DEF Ends
<1>2. PICK s \in Runs : Fire(s) \/ Step(s) \/ RunDies(s)
  BY <1>1 DEF Next, vars, SetPin, StationStops, StationStarts, locals
<1>3. OthersIdle(r) /\ lock = {r}
  BY HolderAlone DEF Inv, Ends
<1>4. s = r /\ ~Fire(s)
  BY <1>2, <1>3 DEF OthersIdle, Fire, At, Step, Decide, Checkout, Install, HealthOk, GoBack,
     GiveUp, CheckoutBack, RunDies
<1>5. ~RunDies(r)
  BY DEF RunDies
<1>6. HealthOk(r)
  <2>1. ~Decide(r) /\ ~Checkout(r)
    BY DEF Decide, Checkout, At, Working
  <2>2. pc \in [Runs -> Steps]
    BY DEF Inv, TypeOK
  <2>3. ~Install(r) /\ ~GoBack(r)
    BY <2>2 DEF Install, GoBack, Goto, Ends
  <2>4. ~GiveUp(r)
    BY DEF GiveUp
  <2>5. ~CheckoutBack(r)
    BY <2>2 DEF CheckoutBack, Goto, Ends
  <2> QED BY <1>2, <1>4, <1>5, <2>1, <2>3, <2>4, <2>5 DEF Step
<1>7. running' = running /\ head' = head /\ running \in Good /\ running # NoCommit
  BY <1>6 DEF HealthOk, Healthy
<1>8. running = head
  BY <1>6, <1>7 DEF HealthOk, At, Inv, RunInv, Restarted
<1>9. head \in {current[r], desired[r]}
  BY <1>6 DEF HealthOk, At, Inv, RunInv, CheckedOut
<1> QED BY <1>7, <1>8, <1>9

(* Where installations take effect, a run that ends after its checkout      *)
(* leaves a healthy station on the commit it was told or back on the one it *)
(* found, unless a run died or asked for help (cipher-updater.sh, rollback).*)
THEOREM UpdatesTakeEffect == Spec /\ [][InstallsTake]_vars => DoneMeansRunning
<1>1. Init => \A r \in Runs : Restarted(r)
  BY DEF Init, Restarted
<1>2. Inv /\ (\A r \in Runs : Restarted(r)) /\ [Next]_vars =>
        [\A r \in Runs :
           Working(r) /\ Ends(r) /\ ~cut' /\ ~alarm'
             => /\ running' = head' /\ running' \in Good
                /\ head' \in {current[r], desired[r]}]_vars
  BY EndsWell
<1>3. Inv /\ (\A r \in Runs : Restarted(r)) /\ [Next]_vars /\ [InstallsTake]_vars
        => (\A r \in Runs : Restarted(r))'
  BY StaysRestarted
<1> QED BY InitInv, NextInv, <1>1, <1>2, <1>3, PTL DEF Spec, DoneMeansRunning

(* Between updates, unless one died or gave up half way, a station that is  *)
(* up runs what is checked out: the commit its operator reads off the clone *)
(* is the commit that answers (cipher-updater.sh, rollback and health).     *)
RunsCheckout ==
  ~ alarm /\ ~ cut /\ (\A r \in Runs : ~ Working(r)) => running \in {head, NoCommit}

LEMMA StaysOnCheckout ==
  ASSUME Inv, \A r \in Runs : Restarted(r), RunsCheckout, [Next]_vars
  PROVE  RunsCheckout'
<1> SUFFICES ASSUME ~ alarm', ~ cut', \A r \in Runs : ~ Working(r)' PROVE (running \in {head, NoCommit})'
  BY DEF RunsCheckout
<1>1. CASE UNCHANGED vars
  BY <1>1 DEF RunsCheckout, Working, vars, locals, past
<1>2. CASE StationStops \/ StationStarts \/ \E c \in Commits : SetPin(c)
  BY <1>2 DEF StationStops, StationStarts, SetPin, RunsCheckout, Working, locals, past
<1>3. ASSUME NEW r \in Runs, Fire(r) \/ Step(r) \/ RunDies(r) PROVE (running \in {head, NoCommit})'
  <2>t. pc \in [Runs -> Steps]
    BY DEF Inv, TypeOK
  <2>1. CASE Fire(r)
    BY <2>1, <2>t DEF Fire, Goto, At, RunsCheckout, Working, past
  <2>2. CASE Decide(r)
    <3>1. \A s \in Runs \ {r} : ~ Working(s)
      BY <2>2, HolderAlone DEF Decide, At, Inv, OthersIdle, Working
    <3> QED BY <2>2, <3>1 DEF Decide, At, RunsCheckout, Working, past
  <2>3. CASE Checkout(r)
    <3>1. \A s \in Runs : ~ Working(s)
      BY <2>3, HolderAlone DEF Checkout, At, Inv, OthersIdle, Working
    <3>2. pc'[r] # "install"
      BY <2>3 DEF Working
    <3> QED BY <2>3, <2>t, <3>1, <3>2 DEF Checkout, Goto, RunsCheckout, past
  <2>4. ~ Install(r) /\ ~ GoBack(r)
    BY <2>t DEF Install, GoBack, Goto, Working
  <2>5. CASE HealthOk(r)
    BY <2>5 DEF HealthOk, At, Restarted
  <2>6. ~ GiveUp(r)
    BY DEF GiveUp
  <2>7. ~ CheckoutBack(r)
    BY <2>t DEF CheckoutBack, Goto, Working
  <2>8. CASE RunDies(r)
    <3>1. \A s \in Runs : ~ Working(s)
      BY <2>8 DEF RunDies, Inv, TypeOK, Working
    <3> QED BY <2>8, <3>1 DEF RunDies, RunsCheckout
  <2> QED BY <1>3, <2>1, <2>2, <2>3, <2>4, <2>5, <2>6, <2>7, <2>8 DEF Step
<1> QED BY <1>1, <1>2, <1>3 DEF Next

THEOREM StationRunsCheckout == Spec /\ [][InstallsTake]_vars => []RunsCheckout
<1>1. Init => RunsCheckout /\ \A r \in Runs : Restarted(r)
  BY DEF Init, Restarted, RunsCheckout
<1>2. Inv /\ (\A r \in Runs : Restarted(r)) /\ [Next]_vars /\ [InstallsTake]_vars
        => (\A r \in Runs : Restarted(r))'
  BY StaysRestarted
<1>3. Inv /\ (\A r \in Runs : Restarted(r)) /\ RunsCheckout /\ [Next]_vars => RunsCheckout'
  BY StaysOnCheckout
<1> QED BY InitInv, NextInv, <1>1, <1>2, <1>3, PTL DEF Spec

(* A hosted station's installer restarts what runs (install.sh:1170-1174).       *)
THEOREM HostedUpdatesTakeEffect ==
  ASSUME Hosted = TRUE
  PROVE  Spec => DoneMeansRunning /\ []RunsCheckout
<1>1. InstallsTake
  BY DEF InstallsTake, Install, Started
<1> QED BY <1>1, UpdatesTakeEffect, StationRunsCheckout, PTL

(* On a self-hosted station nothing the updater does, installations and     *)
(* rollbacks included, changes what a station that is up runs: that takes   *)
(* a stop of the station (install.sh:1166-1174).                            *)
OldCodeRunsOn == [][running \notin {NoCommit, running'} => StationStops]_vars

THEOREM SelfHostedRunsOn ==
  ASSUME Hosted = FALSE
  PROVE  Spec => OldCodeRunsOn
<1>1. [Next]_vars => [running \notin {NoCommit, running'} => StationStops]_vars
  <2> SUFFICES ASSUME Next, running # NoCommit, ~ StationStops PROVE running' = running
    OBVIOUS
  <2>1. Started = running
    BY DEF Started
  <2> QED BY <2>1 DEF Next, Fire, Step, RunDies, SetPin, StationStarts, Decide, Checkout, Install,
            HealthOk, GoBack, GiveUp, Fails, CheckoutBack
<1> QED BY <1>1, PTL DEF Spec, OldCodeRunsOn

----------------------------------------------------------------------------
(* Progress *)

(* The steps a run has before it. *)
Left(step) ==
  CASE step = "idle" -> 0 [] step = "recheck" -> 1 [] step = "reinstall" -> 2 [] step = "back" -> 3
    [] step = "health" -> 4 [] step = "install" -> 5 [] step = "checkout" -> 6 [] step = "decide" -> 7

(* The lock is free, or its holder is a run that still has a step to take:  *)
(* no end of a run, nor its death, leaves the lock behind for the next one  *)
(* (cipher-updater.sh, exec 9> and flock).                                  *)
LockIsOfWorker == lock = {} \/ \E r \in Runs : lock = {r} /\ pc[r] # "idle"

(* A step of a run, failures included, brings its end nearer, and no other  *)
(* step of anybody moves it but its death.                                  *)
RunsEnd ==
  [][\A r \in Runs :
       /\ Step(r) => Left(pc'[r]) < Left(pc[r])
       /\ ~ Step(r) => pc'[r] = pc[r] \/ pc'[r] = "idle" \/ Fire(r)]_vars

LEMMA StepEnds ==
  ASSUME Inv, NEW r \in Runs, Step(r)
  PROVE  Left(pc'[r]) < Left(pc[r])
<1>1. pc[r] # "idle" => Left(pc[r]) > 0
  BY DEF Inv, TypeOK, Steps, Left
<1>2. CASE Exit(r) /\ pc[r] # "idle"
  <2>1. pc'[r] = "idle"
    BY <1>2 DEF Exit, Goto, Inv, TypeOK
  <2> QED BY <1>1, <1>2, <2>1 DEF Left
<1>3. CASE At(r, "decide") /\ Goto(r, "checkout")
  BY <1>3 DEF At, Goto, Inv, TypeOK, Left
<1>4. CASE At(r, "checkout") /\ Goto(r, "install")
  BY <1>4 DEF At, Goto, Inv, TypeOK, Left
<1>5. CASE Install(r)
  BY <1>5 DEF Install, At, Goto, Inv, TypeOK, Left
<1>6. CASE GoBack(r)
  BY <1>6 DEF GoBack, Goto, Inv, TypeOK, Left
<1>7. CASE At(r, "back") /\ Goto(r, "reinstall")
  BY <1>7 DEF At, Goto, Inv, TypeOK, Left
<1> QED BY <1>2, <1>3, <1>4, <1>5, <1>6, <1>7
        DEF Step, Decide, Checkout, HealthOk, GiveUp, CheckoutBack, At

LEMMA StepMovesOnlyIts ==
  ASSUME Inv, NEW s \in Runs, Fire(s) \/ Step(s) \/ RunDies(s), NEW r \in Runs, r # s
  PROVE  pc'[r] = pc[r]
BY DEF Inv, TypeOK, Fire, Step, RunDies, Decide, Checkout, Install, HealthOk, GoBack, GiveUp,
       CheckoutBack, Exit, Goto

THEOREM RunsRunOut == Spec => []LockIsOfWorker /\ RunsEnd
<1>1. Init => LockIsOfWorker
  BY DEF Init, LockIsOfWorker
<1>2. Inv /\ LockIsOfWorker /\ [Next]_vars => LockIsOfWorker'
  <2> SUFFICES ASSUME Inv, LockIsOfWorker, [Next]_vars PROVE LockIsOfWorker'
    OBVIOUS
  <2>1. CASE UNCHANGED <<lock, pc>>
    BY <2>1 DEF LockIsOfWorker
  <2>2. ASSUME NEW s \in Runs, Exit(s) PROVE LockIsOfWorker'
    BY <2>2 DEF Exit, LockIsOfWorker
  <2>3. ASSUME NEW s \in Runs, NEW step \in Steps \ {"idle"}, Goto(s, step),
               lock' = {s} \/ (pc[s] # "idle" /\ lock' = lock)
        PROVE  LockIsOfWorker'
    <3>1. lock' = {s} /\ pc'[s] = step
      BY <2>3, HolderAlone DEF Goto, Inv, TypeOK
    <3> QED BY <3>1, <2>3 DEF LockIsOfWorker
  <2> QED BY <2>1, <2>2, <2>3
          DEF Next, vars, locals, Fire, Step, RunDies, SetPin, StationStops, StationStarts, Decide,
              Checkout, Install, HealthOk, GoBack, GiveUp, CheckoutBack, At, Steps
<1>3. Inv /\ [Next]_vars =>
        [\A r \in Runs :
           /\ Step(r) => Left(pc'[r]) < Left(pc[r])
           /\ ~ Step(r) => pc'[r] = pc[r] \/ pc'[r] = "idle" \/ Fire(r)]_vars
  <2> SUFFICES ASSUME Inv, Next, NEW r \in Runs, ~ Step(r)
               PROVE  pc'[r] = pc[r] \/ pc'[r] = "idle" \/ Fire(r)
    BY StepEnds
  <2>1. CASE StationStops \/ StationStarts \/ \E c \in Commits : SetPin(c)
    BY <2>1 DEF StationStops, StationStarts, SetPin, locals
  <2>2. CASE RunDies(r)
    BY <2>2 DEF RunDies, Exit, Goto, Inv, TypeOK
  <2> QED BY <2>1, <2>2, StepMovesOnlyIts DEF Next
<1> QED BY InitInv, NextInv, <1>1, <1>2, <1>3, PTL DEF Spec, RunsEnd
=============================================================================
