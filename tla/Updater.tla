------------------------------ MODULE Updater ------------------------------
(***************************************************************************)
(* The updater: a timer runs a script that compares the commit checked out *)
(* with the one desired, checks that out, installs it, asks the station    *)
(* whether it is healthy and, when it is not, goes back to the commit it   *)
(* found.  The operator pins commits (hosted), or a branch moves           *)
(* (self-host); the station restarts on its own; machine and script die.   *)
(*                                                                         *)
(*   idle -> decide -> checkout -> install -> health -> idle               *)
(*                            -> back -> reinstall -> recheck -> idle      *)
(***************************************************************************)
EXTENDS Naturals

CONSTANTS
  Runs,        \* runs of the script: the timer's and one by hand
  Commits,     \* releases
  Good,        \* releases that come up healthy
  NoCommit,    \* nothing
  Hosted,      \* whether CIPHER_DATA_ROOT is set
  MaxFaults,   \* bound: fetches, checkouts, installs, health checks that fail
  MaxDeaths,   \* bound: deaths of a run or the machine
  MaxPins      \* bound: changes of the pin

ASSUME UpdaterTypes ==
  /\ Good \subseteq Commits /\ NoCommit \notin Commits /\ Hosted \in BOOLEAN
  /\ {MaxFaults, MaxDeaths, MaxPins} \subseteq Nat

VARIABLES
  head,      \* the commit checked out in the clone
  running,   \* the commit the station's process was started from
  pin,       \* the commit desired: the operator's pin, or the branch's tip
  lock,      \* holder of /run/cipher-updater.lock, a set of at most one
  pc,        \* run -> next step
  current,   \* run -> the commit it found
  desired,   \* run -> the commit it was told
  counts,    \* what has been used of the bounds
  alarm,     \* history: a run has asked for manual intervention
  cut        \* history: a run has died between its checkout and its end

locals == <<pc, current, desired>>
past == <<alarm, cut>>
vars == <<head, running, pin, lock, locals, counts, past>>

Init ==
  /\ head \in Commits /\ running \in {head, NoCommit}
  /\ pin \in Commits
  /\ lock = {}
  /\ pc = [r \in Runs |-> "idle"]
  /\ current = [r \in Runs |-> NoCommit]
  /\ desired = [r \in Runs |-> NoCommit]
  /\ counts = [what \in {"faults", "deaths", "pins"} |-> 0]
  /\ alarm = FALSE /\ cut = FALSE

Bounds == [faults |-> MaxFaults, deaths |-> MaxDeaths, pins |-> MaxPins]

Count(what) ==
  /\ counts[what] < Bounds[what]
  /\ counts' = [counts EXCEPT ![what] = @ + 1]

----------------------------------------------------------------------------
Goto(r, step) == pc' = [pc EXCEPT ![r] = step]

At(r, step) == pc[r] = step

Exit(r) ==
  /\ Goto(r, "idle")
  /\ lock' = {}
  /\ current' = [current EXCEPT ![r] = NoCommit]
  /\ desired' = [desired EXCEPT ![r] = NoCommit]

UnlockedMutant(r) ==   \* mutant: the script does not take the lock
  /\ At(r, "idle")
  /\ lock' = {r}
  /\ current' = [current EXCEPT ![r] = head]
  /\ Goto(r, "decide")
  /\ UNCHANGED <<head, running, pin, desired, counts, past>>

(* flock -n: a run that finds the lock taken does nothing. *)
Fire(r) ==
  /\ At(r, "idle") /\ lock = {}
  /\ lock' = {r}
  /\ current' = [current EXCEPT ![r] = head]
  /\ Goto(r, "decide")
  /\ UNCHANGED <<head, running, pin, desired, counts, past>>

(* The control plane's answer or a fetch of the branch; then a fetch of the *)
(* commit.  Nothing to do, or an answer that fails, ends the run.           *)
Decide(r) ==
  /\ At(r, "decide")
  /\ \/ /\ pin # current[r]
        /\ desired' = [desired EXCEPT ![r] = pin]
        /\ Goto(r, "checkout")
        /\ UNCHANGED <<lock, current, counts>>
     \/ /\ pin = current[r]
        /\ Exit(r) /\ UNCHANGED counts
     \/ Count("faults") /\ Exit(r)
  /\ UNCHANGED <<head, running, pin, past>>

Checkout(r) ==
  /\ At(r, "checkout")
  /\ \/ /\ head' = desired[r]
        /\ Goto(r, "install")
        /\ UNCHANGED <<lock, current, desired, counts>>
     \/ Count("faults") /\ Exit(r) /\ UNCHANGED head
  /\ UNCHANGED <<running, pin, past>>

(* install.sh ends with systemctl restart when hosted, and otherwise with   *)
(* start, which leaves a running station alone.                             *)
StartedMutant == IF running = NoCommit THEN head ELSE running   \* mutant: a hosted re-run does not restart
Started == IF Hosted \/ running = NoCommit THEN head ELSE running

Install(r) ==
  /\ \/ At(r, "install") /\ Goto(r, "health")
     \/ At(r, "reinstall") /\ Goto(r, "recheck")
  /\ running' = Started
  /\ UNCHANGED <<head, pin, lock, current, desired, counts, past>>

Healthy == running \in Good

Working(r) == pc[r] \in {"install", "health", "back", "reinstall", "recheck"}

(* /health answers 200 when the database, IPFS and the identity are there.  *)
HealthOk(r) ==
  /\ At(r, "health") \/ At(r, "recheck")
  /\ Healthy
  /\ Exit(r)
  /\ UNCHANGED <<head, running, pin, counts, past>>

(* The installer fails, before or after it started the services, or the     *)
(* station does not answer healthily in time.                               *)
Fails(r) ==
  \/ /\ pc[r] \in {"install", "reinstall"}
     /\ Count("faults")
     /\ running' \in {running, Started}
  \/ /\ pc[r] \in {"health", "recheck"}
     /\ IF Healthy THEN Count("faults") ELSE UNCHANGED counts
     /\ UNCHANGED running

GoBack(r) ==
  /\ pc[r] \in {"install", "health"}
  /\ Fails(r)
  /\ Goto(r, "back")
  /\ UNCHANGED <<head, pin, lock, current, desired, past>>

GiveUp(r) ==
  /\ pc[r] \in {"reinstall", "recheck"}
  /\ Fails(r)
  /\ alarm' = TRUE
  /\ Exit(r)
  /\ UNCHANGED <<head, pin, cut>>

NoReinstallMutant(r) ==   \* mutant: the old commit is checked out and not installed
  /\ At(r, "back")
  /\ head' = current[r]
  /\ Exit(r)
  /\ UNCHANGED <<running, pin, counts, past>>

CheckoutBack(r) ==
  /\ At(r, "back")
  /\ \/ /\ head' = current[r]
        /\ Goto(r, "reinstall")
        /\ UNCHANGED <<lock, current, desired, counts, alarm>>
     \/ /\ Count("faults")
        /\ alarm' = TRUE
        /\ Exit(r) /\ UNCHANGED head
  /\ UNCHANGED <<running, pin, cut>>

----------------------------------------------------------------------------
(* What happens to the station, the machine and the pin *)

SetPin(c) ==
  /\ c # pin
  /\ Count("pins")
  /\ pin' = c
  /\ UNCHANGED <<head, running, lock, locals, past>>

StationStops ==
  /\ running # NoCommit
  /\ Count("deaths")
  /\ running' = NoCommit
  /\ UNCHANGED <<head, pin, lock, locals, past>>

StationStarts ==   \* systemd: Restart=on-failure, and at boot
  /\ running = NoCommit
  /\ running' = head
  /\ UNCHANGED <<head, pin, lock, locals, counts, past>>

RunDies(r) ==
  /\ lock = {r}
  /\ Count("deaths")
  /\ Exit(r)
  /\ cut' = (cut \/ Working(r))
  /\ UNCHANGED <<head, running, pin, alarm>>

Step(r) == Decide(r) \/ Checkout(r) \/ Install(r) \/ HealthOk(r) \/ GoBack(r) \/ GiveUp(r) \/ CheckoutBack(r)

Next ==
  \/ \E r \in Runs : Fire(r) \/ Step(r) \/ RunDies(r)
  \/ \E c \in Commits : SetPin(c)
  \/ StationStops \/ StationStarts

(* The timer fires for ever, a run that has begun goes on, and systemd      *)
(* starts a station that is down.                                           *)
Fairness ==
  /\ WF_vars(\E r \in Runs : Fire(r))
  /\ \A r \in Runs : WF_vars(Step(r))
  /\ WF_vars(StationStarts)

Spec == Init /\ [][Next]_vars
FairSpec == Spec /\ Fairness

----------------------------------------------------------------------------
(* Properties *)

Steps == {"idle", "decide", "checkout", "install", "health", "back", "reinstall", "recheck"}

(* Types, and of the runs only the holder of the lock is at work. *)
TypeOK ==
  /\ head \in Commits /\ running \in Commits \cup {NoCommit} /\ pin \in Commits
  /\ \A r \in Runs : pc[r] # "idle" => lock = {r}
  /\ pc \in [Runs -> Steps]
  /\ current \in [Runs -> Commits \cup {NoCommit}]
  /\ desired \in [Runs -> Commits \cup {NoCommit}]
  /\ counts \in [{"faults", "deaths", "pins"} -> Nat]
  /\ alarm \in BOOLEAN /\ cut \in BOOLEAN

Ends(r) == pc[r] # "idle" /\ pc'[r] = "idle"

(* Until a run dies or asks for help: one that has checked out a commit     *)
(* leaves a healthy station that runs what is checked out, the commit       *)
(* desired or the one it found (cipher-updater.sh:20-25).                   *)
DoneMeansRunning ==
  [][\A r \in Runs :
       Working(r) /\ Ends(r) /\ ~cut' /\ ~alarm'
         => /\ running' = head' /\ running' \in Good
            /\ head' \in {current[r], desired[r]}]_vars

(* When the pin stays at a good release, the station ends up running it,    *)
(* unless a run died or gave up half way: the timer fires every 15 minutes  *)
(* (install.sh:1271-1272).                                                  *)
Converges ==
  \A c \in Good : <>[](pin = c /\ ~cut /\ ~alarm) => <>[](running = c)
=============================================================================
