----------------------------- MODULE PostStore -----------------------------
(***************************************************************************)
(* The station's post index: manifest.json, the pointer to its published   *)
(* copy in public.json, the pins of the local IPFS node, and the handlers  *)
(* that change them.  Handlers are synchronous, so each runs on a thread   *)
(* of the server's pool and they interleave; STATE_LOCK of storage.py      *)
(* serialises the read-modify-write cycles that take it.                   *)
(*                                                                         *)
(* A handler is cut where another thread, a failing IPFS call or a crash   *)
(* can come between two of its effects.  pc[t] names the next step of      *)
(* thread t:                                                               *)
(*                                                                         *)
(*   post      snapshot seal load save publish                             *)
(*   delete                  load save publish unpin                       *)
(*   profile                 load save publish                             *)
(*   reshare   snapshot      load save publish unpin seal load save publish *)
(*   approve                 members rewrap rewrite publish graph commit   *)
(*   remove        dropping  members rewrap rewrite publish graph commit   *)
(***************************************************************************)
EXTENDS Naturals, FiniteSets

CONSTANTS
  Threads,      \* threads of the server's pool
  Followers,    \* uids of other stations
  Self,         \* the station's own uid
  Blank,        \* a blank string in a request's list of uids
  Cids,         \* content addresses of uploaded bytes
  Clients,      \* client buckets of the manifest
  AnyClient,    \* a delete request that names no client
  Fields,       \* fields of a client profile
  NoOne,        \* nobody holds STATE_LOCK
  NoEnv,        \* the envelopes_cid of a public post
  Ops,          \* the operations the owner's devices call
  Faults,       \* whether IPFS calls, disk writes and reads of public.json may fail
  ReadFaults,   \* whether reading manifest.json may fail
  MaxRequests,  \* bound: requests ever started
  MaxCrashes    \* bound: restarts of the process

ASSUME ConstantsAreApart ==
  /\ Self \notin Followers
  /\ Blank \notin Followers /\ Blank # Self
  /\ AnyClient \notin Clients
  /\ NoOne \notin Threads

ASSUME ConstantTypes ==
  /\ Ops \subseteq {"post", "delete", "profile", "reshare", "approve", "remove"}
  /\ Faults \in BOOLEAN /\ ReadFaults \in BOOLEAN
  /\ MaxRequests \in Nat /\ MaxCrashes \in Nat

Modes == {"self", "specific", "all", "public"}
Recipients == Followers \cup {Self}

(* A published envelopes document.  Every sealing is randomised, so each    *)
(* has its own CID: by counts the sealings, of is the entry it was          *)
(* re-wrapped for (0 when the entry does not exist yet).                    *)
Envelope == [by : Nat, of : Nat, to : SUBSET Recipients]

ASSUME NoEnvelope == NoEnv \notin Envelope

(* A post's row in manifest.json.  id is the order of appending.            *)
Entry == [id : Nat, cid : Cids, client : Clients, mode : Modes,
          uids : SUBSET Followers, env : Envelope \cup {NoEnv}]

Document == [posts : SUBSET Entry, profile : [Clients -> SUBSET Fields]]

(* What the owner's devices ask for.  uids matters to mode "specific" only. *)
Addressed(ops, modes) ==
       [op : ops, cid : Cids, client : Clients, mode : modes \ {"specific"}, uids : {{}}]
  \cup [op : ops, cid : Cids, client : Clients, mode : {"specific"},
        uids : SUBSET (Followers \cup {Blank})]

Request ==
       Addressed({"post"}, Modes)
  \cup Addressed({"reshare"}, Modes \ {"public"})
  \cup [op : {"delete"}, cid : Cids, client : Clients \cup {AnyClient}]
  \cup [op : {"profile"}, client : Clients, fields : SUBSET Fields \ {{}}]
  \cup [op : {"approve", "remove"}, who : Followers]

NoRequest == [op |-> "none"]
EmptyDocument == [posts |-> {}, profile |-> [c \in Clients |-> {}]]

VARIABLES
  (* shared: files, the database and the IPFS node *)
  manifest,     \* manifest.json
  pointer,      \* the document public.json's manifest_pointer names
  graph,        \* the uids of the follower graph public.json names
  member,       \* the followers table, one row per uid
  pinned,       \* pinned content
  pinnedEnv,    \* pinned envelopes documents
  lock,         \* the thread that holds STATE_LOCK
  (* local to a thread *)
  pc,           \* next step
  req,          \* the request being served
  erasing,      \* whether the pending edit removes an entry
  doc,          \* the manifest object the thread loaded and edits
  snap,         \* the recipients it read from the followers table
  env,          \* the envelopes document it published
  touched,      \* the entry it appended or removed, a set of at most one
  (* bounds and history *)
  started,      \* requests started
  crashes,      \* restarts so far
  nextId,       \* id of the next entry appended
  seals,        \* sealings of envelopes so far
  acked,        \* ids of the posts a client was told are stored
  erased,       \* entries a delete or reshare removed
  admitted,     \* uids the owner has ever approved
  behind        \* manifest.json was saved and public.json still names an older one

files  == <<manifest, pointer, graph>>
store  == <<pinned, pinnedEnv>>
locals == <<req, erasing, doc, snap, env, touched>>
bounds == <<started, crashes, nextId, seals>>
past   == <<acked, erased, admitted, behind>>
vars   == <<files, member, store, lock, pc, locals, bounds, past>>

Init ==
  /\ manifest = EmptyDocument
  /\ pointer = EmptyDocument
  /\ graph = {}
  /\ member = [u \in Followers |-> "absent"]
  /\ pinned = {} /\ pinnedEnv = {}
  /\ lock = NoOne
  /\ pc = [t \in Threads |-> "idle"]
  /\ req = [t \in Threads |-> NoRequest]
  /\ erasing = [t \in Threads |-> FALSE]
  /\ doc = [t \in Threads |-> EmptyDocument]
  /\ snap = [t \in Threads |-> {}]
  /\ env = [t \in Threads |-> NoEnv]
  /\ touched = [t \in Threads |-> {}]
  /\ started = 0 /\ crashes = 0 /\ nextId = 1 /\ seals = 0
  /\ acked = {} /\ erased = {} /\ admitted = {} /\ behind = FALSE

----------------------------------------------------------------------------
(* Helpers *)

(* Rows the envelope code uses: Allowed ones, and the station's own root    *)
(* row, which startup inserts as Allowed and no handler removes.            *)
Allowed == {u \in Followers : member[u] = "Allowed"} \cup {Self}

Matches(posts, cid, client) ==
  {e \in posts : e.cid = cid /\ (client = AnyClient \/ e.client = client)}

(* The candidates for "the first matching entry": the first of a bucket.    *)
(* Which bucket comes first in the file is left open.                       *)
FirstMatches(posts, cid, client) ==
  {e \in Matches(posts, cid, client) :
     \A f \in Matches(posts, cid, client) : f.client = e.client => e.id <= f.id}

Named(uids) == uids \ {Blank}

(* _filter_followers_for_audience, with the station added by _force_self_row. *)
AudienceMutantRaw(mode, uids) ==   \* mutant: recipients are the uids as sent
  {Self} \cup (IF mode = "all" THEN Allowed ELSE uids)
AudienceMutantNoSelf(mode, uids) ==   \* mutant: the station is not added
  IF mode = "all" THEN Allowed ELSE Named(uids) \cap Allowed
Audience(mode, uids) ==
  {Self} \cup (IF mode = "all" THEN Allowed
               ELSE IF mode = "specific" THEN Named(uids) \cap Allowed
               ELSE {})

AudienceUnknown(mode, uids) == mode = "specific" /\ ~ (Named(uids) \subseteq Allowed)

(* load_manifest: a file that cannot be read is an empty manifest. *)
Loadable == {manifest} \cup (IF ReadFaults THEN {EmptyDocument} ELSE {})

Goto(t, step) == pc' = [pc EXCEPT ![t] = step]

(* Thread t answers its request and forgets it. *)
Finish(t) ==
  /\ Goto(t, "idle")
  /\ req' = [req EXCEPT ![t] = NoRequest]
  /\ erasing' = [erasing EXCEPT ![t] = FALSE]
  /\ doc' = [doc EXCEPT ![t] = EmptyDocument]
  /\ snap' = [snap EXCEPT ![t] = {}]
  /\ env' = [env EXCEPT ![t] = NoEnv]
  /\ touched' = [touched EXCEPT ![t] = {}]

Accept(t, r) ==
  /\ pc[t] = "idle"
  /\ r.op \in Ops
  /\ started < MaxRequests
  /\ started' = started + 1
  /\ req' = [req EXCEPT ![t] = r]

(* STATE_LOCK; the thread that takes it sees what the last holder left. *)
LockFreeMutant == TRUE   \* mutant: the cycle runs without the lock
LockFree == lock = NoOne

Take(t) == LockFree /\ lock' = t

ReleaseMutant(t) == UNCHANGED lock   \* mutant: an exit path keeps the lock
Release(t) == lock' = IF lock = t THEN NoOne ELSE lock

----------------------------------------------------------------------------
(* Creating, deleting and re-sharing posts *)

AddMutant(cid) == pinned   \* mutant: the upload is not pinned
Add(cid) == pinned \cup {cid}

(* handle_new_post up to the upload; ipfs add pins the bytes. *)
StartPost(t, r) ==
  /\ r.op = "post"
  /\ Accept(t, r)
  /\ pinned' = Add(r.cid)
  /\ Goto(t, IF r.mode = "public" THEN "load" ELSE "snapshot")
  /\ UNCHANGED <<files, member, pinnedEnv, lock, erasing, doc, snap, env,
                 touched, crashes, nextId, seals, past>>

(* remove_post_from_manifest is called by /post/delete. *)
StartDelete(t, r) ==
  /\ r.op = "delete"
  /\ Accept(t, r)
  /\ erasing' = [erasing EXCEPT ![t] = TRUE]
  /\ Goto(t, "load")
  /\ UNCHANGED <<files, member, store, lock, doc, snap, env, touched, crashes,
                 nextId, seals, past>>

(* handle_reshare_post finds the entry without the lock, in any bucket, and *)
(* recovers its key from the station's own envelope; r.client is the bucket *)
(* found.  A post it does not find or cannot open changes nothing.          *)
StartReshare(t, r) ==
  /\ r.op = "reshare"
  /\ \E e \in FirstMatches(manifest.posts, r.cid, AnyClient) :
       /\ e.client = r.client
       /\ e.env # NoEnv /\ Self \in e.env.to
  /\ Accept(t, r)
  /\ erasing' = [erasing EXCEPT ![t] = TRUE]
  /\ Goto(t, "snapshot")
  /\ UNCHANGED <<files, member, store, lock, doc, snap, env, touched, crashes,
                 nextId, seals, past>>

(* list_followers and the audience filter; an unknown uid is refused. *)
Snapshot(t) ==
  /\ pc[t] = "snapshot"
  /\ LET r == req[t] IN
     IF AudienceUnknown(r.mode, r.uids)
     THEN Finish(t)
     ELSE /\ snap' = [snap EXCEPT ![t] = Audience(r.mode, r.uids)]
          /\ Goto(t, IF r.op = "post" THEN "seal" ELSE "load")
          /\ UNCHANGED <<req, erasing, doc, env, touched>>
  /\ UNCHANGED <<files, member, store, lock, bounds, past>>

SealedMutant(t) == [by |-> 0, of |-> 0, to |-> snap[t]]   \* mutant: sealing repeats
Sealed(t) == [by |-> seals + 1, of |-> 0, to |-> snap[t]]

(* add_post_to_manifest up to the publication of the envelopes.  A blank    *)
(* uid passes the audience filter and is refused here.                      *)
Seal(t) ==
  /\ pc[t] = "seal"
  /\ IF req[t].mode = "specific" /\ Blank \in req[t].uids
     THEN Finish(t) /\ UNCHANGED <<pinnedEnv, seals>>
     ELSE /\ seals' = seals + 1
          /\ env' = [env EXCEPT ![t] = Sealed(t)]
          /\ pinnedEnv' = pinnedEnv \cup {Sealed(t)}
          /\ erasing' = [erasing EXCEPT ![t] = FALSE]
          /\ Goto(t, "load")
          /\ UNCHANGED <<req, doc, snap, touched>>
  /\ UNCHANGED <<files, member, pinned, lock, started, crashes, nextId, past>>

(* set_client_profile, called by /profile/update and /profile/avatar. *)
StartProfile(t, r) ==
  /\ r.op = "profile"
  /\ Accept(t, r)
  /\ Goto(t, "load")
  /\ UNCHANGED <<files, member, store, lock, erasing, doc, snap, env, touched,
                 crashes, nextId, seals, past>>

----------------------------------------------------------------------------
(* The locked cycle: load, edit, save, publish *)

Missing(t, d) == erasing[t] /\ Matches(d.posts, req[t].cid, req[t].client) = {}

Load(t) ==
  /\ pc[t] = "load"
  /\ Take(t)
  /\ \E d \in Loadable :
       /\ ~ Missing(t, d)
       /\ doc' = [doc EXCEPT ![t] = d]
  /\ Goto(t, "save")
  /\ UNCHANGED <<files, member, store, req, erasing, snap, env, touched, bounds, past>>

(* Nothing to remove: a delete answers 404, a reshare ignores the answer. *)
NotFound(t) ==
  /\ pc[t] = "load"
  /\ LockFree
  /\ \E d \in Loadable : Missing(t, d)
  /\ IF req[t].op = "delete"
     THEN Finish(t)
     ELSE Goto(t, "seal") /\ UNCHANGED locals
  /\ UNCHANGED <<files, member, store, lock, bounds, past>>

(* save_manifest of the edited object. *)
SaveDocument(t, d) ==
  /\ manifest' = d
  /\ doc' = [doc EXCEPT ![t] = d]
  /\ Goto(t, "publish")

NewEntry(t) ==
  LET r == req[t] IN
  [id |-> nextId, cid |-> r.cid, client |-> r.client, mode |-> r.mode,
   uids |-> IF r.mode = "specific" THEN Named(r.uids) ELSE {}, env |-> env[t]]

SaveAppended(t) ==
  /\ pc[t] = "save" /\ ~ erasing[t] /\ req[t].op \in {"post", "reshare"}
  /\ SaveDocument(t, [doc[t] EXCEPT !.posts = @ \cup {NewEntry(t)}])
  /\ touched' = [touched EXCEPT ![t] = {NewEntry(t)}]
  /\ nextId' = nextId + 1
  /\ UNCHANGED <<pointer, graph, member, store, lock, req, erasing, snap, env,
                 started, crashes, seals, past>>

SaveErased(t) ==
  /\ pc[t] = "save" /\ erasing[t]
  /\ \E e \in FirstMatches(doc[t].posts, req[t].cid, req[t].client) :
       /\ SaveDocument(t, [doc[t] EXCEPT !.posts = @ \ {e}])
       /\ touched' = [touched EXCEPT ![t] = {e}]
       /\ erased' = erased \cup {e}
  /\ UNCHANGED <<pointer, graph, member, store, lock, req, erasing, snap, env,
                 bounds, acked, admitted, behind>>

SaveProfile(t) ==
  /\ pc[t] = "save" /\ req[t].op = "profile"
  /\ SaveDocument(t, [doc[t] EXCEPT !.profile[req[t].client] = @ \cup req[t].fields])
  /\ UNCHANGED <<pointer, graph, member, store, lock, req, erasing, snap, env,
                 touched, bounds, past>>

(* public.json takes the CID of the manifest just added to IPFS ...         *)
MovePointer(t) == pointer' = doc[t] /\ behind' = FALSE

(* ... unless it is missing or cannot be read: that is logged, nothing is   *)
(* written, nobody is asked to republish, and the caller is told nothing.   *)
SkipPointer == Faults /\ UNCHANGED pointer /\ behind' = TRUE

(* Either way the lock is released, and the request goes on as published: a *)
(* post or a reshare is answered as stored, a removed post is unpinned.     *)
Publish(t) ==
  /\ pc[t] = "publish"
  /\ MovePointer(t) \/ SkipPointer
  /\ Release(t)
  /\ IF erasing[t] THEN Goto(t, "unpin") /\ UNCHANGED <<locals, acked>>
     ELSE IF req[t].op \in {"approve", "remove"}
     THEN Goto(t, "graph") /\ UNCHANGED <<locals, acked>>
     ELSE Finish(t) /\ acked' = acked \cup {e.id : e \in touched[t]}
  /\ UNCHANGED <<manifest, graph, member, store, bounds, erased, admitted>>

(* Outside the lock the removed post's content and envelopes are unpinned   *)
(* and garbage-collected; each unpin that fails is logged and skipped.      *)
Unpin(t) ==
  /\ pc[t] = "unpin"
  /\ LET cids == {e.cid : e \in touched[t]}
         envs == {e.env : e \in touched[t]} \ {NoEnv}
     IN \E cs \in (IF Faults THEN SUBSET cids ELSE {cids}),
           es \in (IF Faults THEN SUBSET envs ELSE {envs}) :
          /\ pinned' = pinned \ cs
          /\ pinnedEnv' = pinnedEnv \ es
  /\ IF req[t].op = "delete"
     THEN Finish(t)
     ELSE Goto(t, "seal") /\ UNCHANGED locals
  /\ UNCHANGED <<files, member, lock, bounds, past>>

----------------------------------------------------------------------------
(* Membership: follow requests, approval, removal, re-wrapping *)

(* /inbox records an unknown uid as Pending; a known one is left alone. *)
FollowRequest(u) ==
  /\ member[u] = "absent"
  /\ member' = [member EXCEPT ![u] = "Pending"]
  /\ UNCHANGED <<files, store, lock, pc, locals, bounds, past>>

(* approve_follower; a uid without a row is answered 404. *)
StartApprove(t, r) ==
  /\ r.op = "approve"
  /\ member[r.who] # "absent"
  /\ Accept(t, r)
  /\ member' = [member EXCEPT ![r.who] = "Allowed"]
  /\ admitted' = admitted \cup {r.who}
  /\ Goto(t, "members")
  /\ UNCHANGED <<files, store, lock, erasing, doc, snap, env, touched, crashes,
                 nextId, seals, acked, erased, behind>>

DropStepMutant(u) == "dropPending"   \* mutant: a removal is never followed by a re-wrap
DropStep(u) == IF member[u] = "Allowed" THEN "dropAllowed" ELSE "dropPending"

(* remove_follower reads the row, then deletes it in a second statement. *)
StartRemove(t, r) ==
  /\ r.op = "remove"
  /\ member[r.who] # "absent"
  /\ Accept(t, r)
  /\ Goto(t, DropStep(r.who))
  /\ UNCHANGED <<files, member, store, lock, erasing, doc, snap, env, touched,
                 crashes, nextId, seals, past>>

(* Only the removal of a row that was read as Allowed is followed by a      *)
(* re-wrap; a row that is gone meanwhile is answered 404.                   *)
DropRow(t) ==
  /\ pc[t] \in {"dropAllowed", "dropPending"}
  /\ member' = [member EXCEPT ![req[t].who] = "absent"]
  /\ IF pc[t] = "dropAllowed" /\ member[req[t].who] # "absent"
     THEN Goto(t, "members") /\ UNCHANGED locals
     ELSE Finish(t)
  /\ UNCHANGED <<files, store, lock, bounds, past>>

(* rewrap_all_posts reads the followers ... *)
ReadMembers(t) ==
  /\ pc[t] = "members"
  /\ snap' = [snap EXCEPT ![t] = Allowed]
  /\ Goto(t, "rewrap")
  /\ UNCHANGED <<files, member, store, lock, req, erasing, doc, env, touched,
                 bounds, past>>

RewrappableMutant(posts) ==   \* mutant: posts of every audience are re-wrapped
  {e \in posts : e.env # NoEnv /\ Self \in e.env.to}
Rewrappable(posts) ==
  {e \in posts : e.mode = "all" /\ e.env # NoEnv /\ Self \in e.env.to}

Rewrapped(e, n, to) == [e EXCEPT !.env = [by |-> n, of |-> e.id, to |-> to]]

(* ... loads the manifest without the lock and publishes new envelopes for  *)
(* the posts to "all"; a post whose envelopes cannot be published keeps     *)
(* the old ones ...                                                         *)
Rewrap(t) ==
  /\ pc[t] = "rewrap"
  /\ \E d \in Loadable :
     \E done \in (IF Faults THEN SUBSET Rewrappable(d.posts)
                            ELSE {Rewrappable(d.posts)}) :
       LET fresh == {Rewrapped(e, seals + 1, snap[t]) : e \in done} IN
       /\ doc' = [doc EXCEPT ![t] = [d EXCEPT !.posts = (@ \ done) \cup fresh]]
       /\ pinnedEnv' = pinnedEnv \cup {e.env : e \in fresh}
  /\ seals' = seals + 1
  /\ Goto(t, "rewrite")
  /\ UNCHANGED <<files, member, pinned, lock, req, erasing, snap, env, touched,
                 started, crashes, nextId, past>>

(* ... and saves the manifest it loaded, under the lock. *)
Rewrite(t) ==
  /\ pc[t] = "rewrite"
  /\ Take(t)
  /\ manifest' = doc[t]
  /\ Goto(t, "publish")
  /\ UNCHANGED <<pointer, graph, member, store, locals, bounds, past>>

(* rebuild_graphs_and_envelopes reads the followers and publishes the       *)
(* encrypted graphs, then writes the three CIDs together under the lock.    *)
ReadGraph(t) ==
  /\ pc[t] = "graph"
  /\ snap' = [snap EXCEPT ![t] = Allowed]
  /\ Goto(t, "commit")
  /\ UNCHANGED <<files, member, store, lock, req, erasing, doc, env, touched,
                 bounds, past>>

CommitGraph(t) ==
  /\ pc[t] = "commit"
  /\ LockFree
  /\ graph' = snap[t]
  /\ Finish(t)
  /\ UNCHANGED <<manifest, pointer, member, store, lock, bounds, past>>

----------------------------------------------------------------------------
(* Failures *)

(* An IPFS call or a write raises.  STATE_LOCK is released on the way out.  *)
(* The membership handlers swallow a failed re-wrap and go on to the graph; *)
(* the others answer with an error.                                         *)
Fault(t) ==
  /\ Faults
  /\ pc[t] \in {"seal", "save", "publish", "rewrap", "rewrite", "graph", "commit"}
  /\ Release(t)
  /\ behind' = (behind \/ pc[t] = "publish")
  /\ IF req[t].op \in {"approve", "remove"} /\ pc[t] \notin {"graph", "commit"}
     THEN Goto(t, "graph") /\ UNCHANGED locals
     ELSE Finish(t)
  /\ UNCHANGED <<files, member, store, bounds, acked, erased, admitted>>

(* The process dies and restarts: files, database and pins survive. *)
Crash ==
  /\ crashes < MaxCrashes
  /\ crashes' = crashes + 1
  /\ lock' = NoOne
  /\ behind' = (behind \/ \E t \in Threads : pc[t] = "publish")
  /\ pc' = [t \in Threads |-> "idle"]
  /\ req' = [t \in Threads |-> NoRequest]
  /\ erasing' = [t \in Threads |-> FALSE]
  /\ doc' = [t \in Threads |-> EmptyDocument]
  /\ snap' = [t \in Threads |-> {}]
  /\ env' = [t \in Threads |-> NoEnv]
  /\ touched' = [t \in Threads |-> {}]
  /\ UNCHANGED <<files, member, store, started, nextId, seals, acked, erased, admitted>>

----------------------------------------------------------------------------
Start(t, r) ==
  \/ StartPost(t, r) \/ StartDelete(t, r) \/ StartReshare(t, r)
  \/ StartProfile(t, r) \/ StartApprove(t, r) \/ StartRemove(t, r)

Edit(t) ==
  \/ Snapshot(t) \/ Seal(t)
  \/ Load(t) \/ NotFound(t)
  \/ SaveAppended(t) \/ SaveErased(t) \/ SaveProfile(t)
  \/ Publish(t) \/ Unpin(t)

Regrant(t) ==
  \/ DropRow(t) \/ ReadMembers(t) \/ Rewrap(t) \/ Rewrite(t)
  \/ ReadGraph(t) \/ CommitGraph(t)

Step(t) == Edit(t) \/ Regrant(t) \/ Fault(t)

Next ==
  \/ \E t \in Threads, r \in Request : Start(t, r)
  \/ \E t \in Threads : Step(t)
  \/ \E u \in Followers : FollowRequest(u)
  \/ Crash

(* A thread of the pool that has work gets to run; nothing makes clients    *)
(* send requests.                                                           *)
Fairness == \A t \in Threads : WF_vars(Step(t))

Spec == Init /\ [][Next]_vars
FairSpec == Spec /\ Fairness

----------------------------------------------------------------------------
(* Properties *)

Listed == {e.id : e \in manifest.posts}
ErasedIds == {e.id : e \in erased}
Audible(e) == IF e.mode = "all" THEN admitted
              ELSE IF e.mode = "specific" THEN e.uids \cap admitted
              ELSE {}

TypeOK ==
  /\ manifest \in Document /\ pointer \in Document
  /\ graph \subseteq Recipients
  /\ member \in [Followers -> {"absent", "Pending", "Allowed"}]
  /\ pinned \subseteq Cids /\ pinnedEnv \subseteq Envelope
  /\ lock \in Threads \cup {NoOne}
  /\ pc \in [Threads -> {"idle", "snapshot", "seal", "load", "save", "publish", "unpin",
                          "dropAllowed", "dropPending", "members", "rewrap", "rewrite",
                          "graph", "commit"}]
  /\ req \in [Threads -> Request \cup {NoRequest}]
  /\ erasing \in [Threads -> BOOLEAN]
  /\ doc \in [Threads -> Document]
  /\ snap \in [Threads -> SUBSET Recipients]
  /\ env \in [Threads -> Envelope \cup {NoEnv}]
  /\ touched \in [Threads -> SUBSET Entry]
  /\ started \in Nat /\ crashes \in Nat /\ nextId \in Nat /\ seals \in Nat
  /\ acked \subseteq Nat /\ erased \subseteq Entry
  /\ admitted \subseteq Followers /\ behind \in BOOLEAN

(* A post a client was told is stored is listed until a delete or reshare   *)
(* takes it out: no writer erases another's entry (storage.py:14-19).       *)
AckedPostsListed == acked \subseteq Listed \cup ErasedIds

(* An entry that was deleted or replaced is never listed again, whatever    *)
(* document another thread was holding when it went.                        *)
ErasedStaysErased == Listed \cap ErasedIds = {}

(* With the lock free, public.json names the manifest on disk, unless the   *)
(* publication of the last save failed or was skipped (manifest.py:108-115, *)
(* 283-302): whoever publishes next, whatever it changes, mends that.       *)
PointerIsCurrent == lock = NoOne /\ ~ behind => pointer = manifest

(* Every listed encrypted post can be opened by the station itself: its     *)
(* envelopes include the station's, after any reshare or re-wrap            *)
(* (PROTOCOL.md 6.5).                                                       *)
StationCanReopen ==
  \A e \in manifest.posts : e.mode # "public" => e.env # NoEnv /\ Self \in e.env.to

(* Envelopes go to nobody beyond the audience the owner chose and, in it,   *)
(* to nobody the owner never approved; a re-wrap never widens a post that   *)
(* is not for "all" (rewrap_envelopes.py:143-154).                          *)
AudienceRespected ==
  \A e \in manifest.posts \cup pointer.posts :
    e.env # NoEnv => e.env.to \subseteq {Self} \cup Audible(e)

(* The envelopes document of a listed post is pinned: removing one entry    *)
(* never unpins the envelopes of another.                                   *)
EnvelopesPinned == \A e \in manifest.posts : e.env # NoEnv => e.env \in pinnedEnv

(* What the index lists is pinned, unless the owner deleted or re-shared an *)
(* entry with the same content (one content can be posted twice).           *)
ContentPinnedUnlessErased ==
  \A e \in manifest.posts : e.cid \in pinned \cup {x.cid : x \in erased}

(* When nothing is in progress, the posts for "all" are sealed to exactly   *)
(* the Allowed followers, and so is the published graph: approving grants   *)
(* the past posts and removing takes the follower out of the published      *)
(* state (main.py:790-798 and 821-824).                                     *)
AccessFollowsMembership ==
  (\A t \in Threads : pc[t] = "idle") =>
     /\ \A e \in manifest.posts : e.mode = "all" => e.env.to = Allowed
     /\ graph # {} => graph = Allowed

(* The lock makes every operation atomic: the manifest changes only by one  *)
(* fresh entry, one entry the owner had removed, one merge of profile       *)
(* fields or new envelopes for the rows it has, and the pointer moves only  *)
(* to the manifest as it is (manifest.py:283-302, 337-356, 451-497).  A     *)
(* re-wrap that races a save breaks it.                                     *)
Index == INSTANCE PostIndex WITH
  index <- manifest.posts, profile <- manifest.profile,
  published <- pointer, removed <- erased
ActsAsAtomicIndex == Index!Spec

(* Every request is answered, whatever fails meanwhile: the lock is always  *)
(* given back (manifest.py:286, 337, 454 hold it in a with block).          *)
RequestsAnswered == \A t \in Threads : pc[t] # "idle" ~> pc[t] = "idle"

=============================================================================
