----------------------------- MODULE PublicJson -----------------------------
(***************************************************************************)
(* public.json and its publication to IPNS.  Each part of the file has its *)
(* own writer: the manifest pointer, the CIDs of the social graph, the     *)
(* alias set in the panel, and the endpoint, which the tunnel monitor      *)
(* keeps equal to the URL cloudflared reports.  A writer reads the file,   *)
(* writes it back with its part replaced, all under STATE_LOCK, and then   *)
(* asks the publisher for a publication.  The publisher is one thread: it  *)
(* waits for the event, lets a burst settle, clears the event, reads the   *)
(* file (adding the node's IPFS names) and publishes what it read.         *)
(*                                                                         *)
(* Values are abstracted to versions: each write of a part gives it a      *)
(* higher one.  What PostStore says of one part in detail, this module     *)
(* says of the file that carries them all.                                 *)
(***************************************************************************)
EXTENDS Naturals

CONSTANTS
  Writers,     \* threads of the pool, and the tunnel monitor
  Monitor,     \* the tunnel monitor thread
  Publisher,   \* the ipns-publisher thread
  NoOne,       \* nobody holds STATE_LOCK
  MaxChanges,  \* bound: writes by the pool's threads
  MaxUrls,     \* bound: URLs cloudflared hands out
  MaxFaults,   \* bound: failing reads, writes and IPFS calls
  MaxCrashes   \* bound: restarts of the process

ASSUME ThreadsAreApart ==
  /\ Monitor \in Writers
  /\ Publisher \notin Writers
  /\ NoOne \notin Writers \cup {Publisher}

ASSUME BoundsAreNumbers ==
  MaxChanges \in Nat /\ MaxUrls \in Nat /\ MaxFaults \in Nat /\ MaxCrashes \in Nat

Edited == {"manifest_pointer", "graph_cids", "alias"}
Parts == Edited \cup {"endpoint", "ipfs_names"}
Version == [Parts -> Nat]
Blank == [p \in Parts |-> 0]

VARIABLES
  file,      \* public.json
  ipns,      \* the document the IPNS name resolves to
  lock,      \* the thread that holds STATE_LOCK
  wake,      \* the publisher's event
  url,       \* the URL cloudflared reports
  pc,        \* writer -> "idle", "fetched", "read", "written" or "dead"
  part,      \* writer -> the part it writes
  found,     \* the URL the monitor fetched
  obj,       \* thread -> the object it parsed from the file, Blank when done
  worker,    \* "waiting", "settling", "reading", "naming" or "publishing"
  changes,   \* writes so far
  faults,    \* failures so far
  crashes,   \* restarts so far
  unasked    \* a publication failed or was cut short; nobody has asked since

shared == <<file, ipns, lock, wake, url>>
locals == <<pc, part, found, obj>>
bounds == <<changes, faults, crashes>>
vars   == <<shared, locals, worker, bounds, unasked>>

Init ==
  /\ file = Blank /\ ipns = Blank
  /\ lock = NoOne /\ wake = FALSE /\ url = 0
  /\ pc = [w \in Writers |-> "idle"]
  /\ part = [w \in Writers |-> "endpoint"]
  /\ found = 0
  /\ obj = [t \in Writers \cup {Publisher} |-> Blank]
  /\ worker = "waiting"
  /\ changes = 0 /\ faults = 0 /\ crashes = 0
  /\ unasked = FALSE

----------------------------------------------------------------------------
(* Writers *)

LockFreeMutant == TRUE   \* mutant: the cycle runs without STATE_LOCK
LockFree == lock = NoOne

(* Reading the file opens the cycle; the lock is held until it is written. *)
Parse(t) ==
  /\ LockFree
  /\ lock' = t
  /\ obj' = [obj EXCEPT ![t] = file]

Forget(t) == obj' = [obj EXCEPT ![t] = Blank]

Rest(w) ==
  /\ pc' = [pc EXCEPT ![w] = "idle"]
  /\ part' = [part EXCEPT ![w] = "endpoint"]

(* A thread of the pool is about to change part p: the manifest's new CID,  *)
(* a rebuilt graph, or an alias.                                            *)
ReadToEdit(w, p) ==
  /\ w # Monitor /\ pc[w] = "idle" /\ changes < MaxChanges
  /\ Parse(w)
  /\ pc' = [pc EXCEPT ![w] = "read"]
  /\ part' = [part EXCEPT ![w] = p]
  /\ changes' = changes + 1
  /\ UNCHANGED <<file, ipns, wake, url, found, worker, faults, crashes, unasked>>

NewsMutant == found # url   \* mutant: compared with the last URL seen, not the file
News == found # url \/ file["endpoint"] # url

(* The monitor asks cloudflared for its URL every minute; a check that      *)
(* learns nothing new is no step ...                                        *)
Fetch ==
  /\ pc[Monitor] = "idle"
  /\ News
  /\ found' = url
  /\ pc' = [pc EXCEPT ![Monitor] = "fetched"]
  /\ UNCHANGED <<shared, part, obj, worker, bounds, unasked>>

(* ... and skips everything else when the file already has it. *)
Compare ==
  /\ pc[Monitor] = "fetched"
  /\ IF file["endpoint"] = found
     THEN /\ LockFree
          /\ pc' = [pc EXCEPT ![Monitor] = "idle"]
          /\ UNCHANGED <<lock, obj>>
     ELSE /\ Parse(Monitor)
          /\ pc' = [pc EXCEPT ![Monitor] = "read"]
  /\ UNCHANGED <<file, ipns, wake, url, part, found, worker, bounds, unasked>>

NewValue(w) == IF w = Monitor THEN found ELSE obj[w][part[w]] + 1

ReplacedMutant(w) ==   \* mutant: the file is rebuilt from the part alone
  [p \in {part[w]} |-> NewValue(w)]
Replaced(w) == [obj[w] EXCEPT ![part[w]] = NewValue(w)]

(* write_json replaces the file; leaving the block frees the lock. *)
Write(w) ==
  /\ pc[w] = "read"
  /\ file' = Replaced(w)
  /\ lock' = NoOne
  /\ Forget(w)
  /\ pc' = [pc EXCEPT ![w] = "written"]
  /\ UNCHANGED <<ipns, wake, url, part, found, worker, bounds, unasked>>

RequestMutant(w) == UNCHANGED wake   \* mutant: a writer forgets to ask
Ask(w) == wake' = TRUE

(* request_publish. *)
Request(w) ==
  /\ pc[w] = "written"
  /\ Ask(w)
  /\ unasked' = FALSE
  /\ Rest(w)
  /\ UNCHANGED <<file, ipns, lock, url, found, obj, worker, bounds>>

(* A write that raises is caught nowhere in the monitor: its thread ends.   *)
Die == pc' = [pc EXCEPT ![Monitor] = "dead"] /\ UNCHANGED part

(* The file cannot be read or written.  The handler gives up without asking *)
(* for a publication.  The monitor skips a check that cannot read the file  *)
(* and tries again at its next one; it does not survive a failed write.     *)
Abandon(w) ==
  /\ pc[w] = "read" /\ faults < MaxFaults
  /\ faults' = faults + 1
  /\ lock' = NoOne
  /\ Forget(w)
  /\ Rest(w) \/ (w = Monitor /\ Die)
  /\ UNCHANGED <<file, ipns, wake, url, found, worker, changes, crashes, unasked>>

(* External: cloudflared restarts and hands out another URL. *)
NewUrl ==
  /\ url < MaxUrls
  /\ url' = url + 1
  /\ UNCHANGED <<file, ipns, lock, wake, locals, worker, bounds, unasked>>

----------------------------------------------------------------------------
(* The publisher *)

Become(step) == worker' = step

Wake ==
  /\ worker = "waiting" /\ wake
  /\ Become("settling")
  /\ UNCHANGED <<shared, locals, bounds, unasked>>

(* After the debounce: the event is cleared before the file is read. *)
Settle ==
  /\ worker = "settling"
  /\ wake' = FALSE
  /\ Become("reading")
  /\ UNCHANGED <<file, ipns, lock, url, locals, bounds, unasked>>

Read ==
  /\ worker = "reading"
  /\ Parse(Publisher)
  /\ Become("naming")
  /\ UNCHANGED <<file, ipns, wake, url, pc, part, found, bounds, unasked>>

(* The node's peer id and IPNS name are added if IPFS answered the queries *)
(* and the file lacks them.                                                 *)
Name ==
  /\ worker = "naming"
  /\ \E known \in {obj[Publisher], [obj[Publisher] EXCEPT !["ipfs_names"] = 1]} :
       /\ file' = known
       /\ obj' = [obj EXCEPT ![Publisher] = known]
  /\ lock' = NoOne
  /\ Become("publishing")
  /\ UNCHANGED <<ipns, wake, url, pc, part, found, bounds, unasked>>

AfterPublishMutant == wake' = FALSE   \* mutant: the event is cleared after publishing
AfterPublish == UNCHANGED wake

(* The object read is added to IPFS and its CID published. *)
Publish ==
  /\ worker = "publishing"
  /\ ipns' = obj[Publisher]
  /\ AfterPublish
  /\ Forget(Publisher)
  /\ Become("waiting")
  /\ UNCHANGED <<file, lock, url, pc, part, found, bounds, unasked>>

InFlight == {ipns} \cup (IF worker = "publishing" THEN {obj[Publisher]} ELSE {})

(* Anything in the publication raises: it is logged and given up.  A call   *)
(* that timed out may have moved the IPNS record all the same.              *)
PublishFails ==
  /\ worker \in {"reading", "naming", "publishing"} /\ faults < MaxFaults
  /\ faults' = faults + 1
  /\ lock' = IF lock = Publisher THEN NoOne ELSE lock
  /\ ipns' \in InFlight
  /\ Forget(Publisher)
  /\ Become("waiting")
  /\ unasked' = ~ wake
  /\ UNCHANGED <<file, wake, url, pc, part, found, changes, crashes>>

----------------------------------------------------------------------------
(* The process dies and restarts: the event and every thread are gone, and  *)
(* a new monitor starts; a publication IPFS was asked for may still happen. *)
Crash ==
  /\ crashes < MaxCrashes
  /\ crashes' = crashes + 1
  /\ lock' = NoOne /\ wake' = FALSE
  /\ pc' = [w \in Writers |-> "idle"]
  /\ part' = [w \in Writers |-> "endpoint"]
  /\ worker' = "waiting"
  /\ ipns' \in InFlight
  /\ obj' = [t \in Writers \cup {Publisher} |-> Blank]
  /\ unasked' = TRUE
  /\ UNCHANGED <<file, url, found, changes, faults>>

Cycle(w) == Write(w) \/ Request(w) \/ Abandon(w)
Watch == Fetch \/ Compare
Publication == Wake \/ Settle \/ Read \/ Name \/ Publish \/ PublishFails

Next ==
  \/ \E w \in Writers, p \in Edited : ReadToEdit(w, p)
  \/ \E w \in Writers : Cycle(w)
  \/ Watch \/ NewUrl \/ Publication \/ Crash

(* Threads that have work run; nobody has to call for a change, and         *)
(* cloudflared need not restart.                                            *)
Fairness ==
  /\ \A w \in Writers : WF_vars(Cycle(w))
  /\ WF_vars(Watch)
  /\ WF_vars(Publication)

Spec == Init /\ [][Next]_vars
FairSpec == Spec /\ Fairness

----------------------------------------------------------------------------
(* Properties *)

TypeOK ==
  /\ file \in Version /\ ipns \in Version
  /\ lock \in Writers \cup {Publisher, NoOne}
  /\ wake \in BOOLEAN
  /\ url \in Nat /\ found \in Nat
  /\ pc \in [Writers -> {"idle", "fetched", "read", "written", "dead"}]
  /\ part \in [Writers -> Edited \cup {"endpoint"}]
  /\ obj \in [Writers \cup {Publisher} -> Version]
  /\ worker \in {"waiting", "settling", "reading", "naming", "publishing"}
  /\ changes \in Nat /\ faults \in Nat /\ crashes \in Nat
  /\ unasked \in BOOLEAN

AtLeast(d, e) == \A p \in Parts : d[p] >= e[p]

(* No writer of public.json undoes the change of another by writing back    *)
(* what it read before: the five read-modify-write cycles share one lock    *)
(* (storage.py:14-19, manifest.py:102, graph.py:118, tunnel.py:66,          *)
(* panel/service.py:168, ipfs_client.py:526).                               *)
NoChangeUndone == [][AtLeast(file', file)]_vars

(* The name never goes back to an older document: a single thread publishes *)
(* and reads the file anew each time (ipns_publisher.py:10-15).             *)
IpnsNeverGoesBack == [][AtLeast(ipns', ipns)]_vars

(* When the publisher waits, nobody has asked it and no writer is about to, *)
(* the name resolves to the file as it is: a change that lands while an     *)
(* older one is being published is not forgotten (ipns_publisher.py:61-62). *)
NothingForgotten ==
  worker = "waiting" /\ ~ wake /\ ~ unasked /\ (\A w \in Writers : pc[w] # "written")
     => ipns = file

(* Every change of a part reaches the name, unless a publication failed or was cut    *)
(* short and nobody has asked for another since.                            *)
ChangesArePublished ==
  \A p \in Edited \cup {"endpoint"} : \A n \in 1..(MaxChanges + MaxUrls) :
     file[p] >= n ~> ipns[p] >= n \/ unasked

(* The monitor brings public.json to the URL cloudflared reports, through   *)
(* failed reads and restarts, unless a write of its own has failed and the  *)
(* process has not restarted since (tunnel.py:71-84, 116-122).              *)
EndpointFollowsTunnel ==
  \A n \in 1..MaxUrls : url >= n ~> file["endpoint"] >= n \/ pc[Monitor] = "dead"

=============================================================================
