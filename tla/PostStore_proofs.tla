-------------------------- MODULE PostStore_proofs --------------------------
(***************************************************************************)
(* Proofs about PostStore, for any number of threads, followers, contents, *)
(* requests and crashes.                                                   *)
(***************************************************************************)
EXTENDS PostStore, TLAPS, WellFoundedInduction

(* What a request carries depends on its operation only (main.py:541-665).  *)
LEMMA RequestFields ==
  ASSUME NEW r \in Request \cup {NoRequest}
  PROVE  /\ r.op \in {"post", "reshare"} =>
               /\ r.cid \in Cids /\ r.client \in Clients
               /\ r.mode \in Modes /\ r.uids \subseteq Followers \cup {Blank}
         /\ r.op = "profile" => r.client \in Clients /\ r.fields \subseteq Fields
         /\ r.op \in {"approve", "remove"} => r.who \in Followers
  BY DEF Request, NoRequest, Addressed, Modes

(* The envelopes of a post or a re-wrap go to stations only, whatever the   *)
(* request asked for (posts.py:104-143).                                    *)
LEMMA AudienceIsRecipients ==
  ASSUME NEW mode, NEW uids
  PROVE  Allowed \subseteq Recipients /\ Audience(mode, uids) \subseteq Recipients
  BY DEF Allowed, Audience, Recipients

(* The entry a handler appends is a well-formed row (manifest.py:222-269).  *)
LEMMA NewEntryType ==
  ASSUME TypeOK, NEW t \in Threads, req[t].op \in {"post", "reshare"}
  PROVE  NewEntry(t) \in Entry
  <1>1. req[t] \in Request \cup {NoRequest}
    BY DEF TypeOK
  <1>2. /\ req[t].cid \in Cids /\ req[t].client \in Clients
        /\ req[t].mode \in Modes /\ req[t].uids \subseteq Followers \cup {Blank}
    BY <1>1, RequestFields
  <1>3. /\ env[t] \in Envelope \cup {NoEnv} /\ nextId \in Nat
    BY DEF TypeOK
  <1> QED
    BY <1>2, <1>3 DEF NewEntry, Entry, Named

LEMMA EmptyDocumentType == EmptyDocument \in Document
  BY DEF EmptyDocument, Document

(* What load_manifest returns is a document (manifest.py:73-85).            *)
LEMMA LoadableType ==
  ASSUME TypeOK PROVE Loadable \subseteq Document
  BY EmptyDocumentType DEF TypeOK, Loadable

(* TypeOK in two parts: what threads keep to themselves and what they share. *)
LocalTypes ==
  /\ pc \in [Threads -> {"idle", "snapshot", "seal", "load", "save", "publish", "unpin",
                          "dropAllowed", "dropPending", "members", "rewrap", "rewrite",
                          "graph", "commit"}]
  /\ req \in [Threads -> Request \cup {NoRequest}]
  /\ erasing \in [Threads -> BOOLEAN]
  /\ doc \in [Threads -> Document]
  /\ snap \in [Threads -> SUBSET Recipients]
  /\ env \in [Threads -> Envelope \cup {NoEnv}]
  /\ touched \in [Threads -> SUBSET Entry]

SharedTypes ==
  /\ manifest \in Document /\ pointer \in Document
  /\ graph \subseteq Recipients
  /\ member \in [Followers -> {"absent", "Pending", "Allowed"}]
  /\ pinned \subseteq Cids /\ pinnedEnv \subseteq Envelope
  /\ lock \in Threads \cup {NoOne}
  /\ started \in Nat /\ crashes \in Nat /\ nextId \in Nat /\ seals \in Nat
  /\ acked \subseteq Nat /\ erased \subseteq Entry
  /\ admitted \subseteq Followers /\ behind \in BOOLEAN

LEMMA TypesSplit == TypeOK <=> LocalTypes /\ SharedTypes
  BY DEF TypeOK, LocalTypes, SharedTypes

(* A thread that answers its request forgets everything it read.            *)
LEMMA FinishTypes ==
  ASSUME LocalTypes, NEW t \in Threads, Finish(t) PROVE LocalTypes'
  BY EmptyDocumentType DEF LocalTypes, Finish, Goto

(* Every state is well-formed: each handler leaves documents, rows and pins *)
(* of the shape the other handlers and readers expect.                      *)
LEMMA TypeInit == Init => TypeOK
  <1> SUFFICES ASSUME Init PROVE TypeOK
    OBVIOUS
  <1>1. LocalTypes
    BY EmptyDocumentType DEF Init, LocalTypes
  <1>2. SharedTypes
    BY EmptyDocumentType DEF Init, SharedTypes
  <1> QED
    BY <1>1, <1>2, TypesSplit

LEMMA TypeStep == TypeOK /\ [Next]_vars => TypeOK'
  <1> SUFFICES ASSUME TypeOK, [Next]_vars PROVE TypeOK'
    OBVIOUS
  <1> USE DEF files, store, locals, bounds, past
  <1>1. ASSUME NEW t \in Threads, NEW r \in Request, Start(t, r) PROVE TypeOK'
    <2>1. CASE StartPost(t, r)
      <3>1. r.cid \in Cids
        BY <2>1, RequestFields DEF StartPost
      <3> QED
        BY <2>1, <3>1 DEF StartPost, Accept, Goto, Add, TypeOK
    <2>2. CASE StartDelete(t, r)
      BY <2>2 DEF StartDelete, Accept, Goto, TypeOK
    <2>3. CASE StartReshare(t, r)
      BY <2>3 DEF StartReshare, Accept, Goto, TypeOK
    <2>4. CASE StartProfile(t, r)
      BY <2>4 DEF StartProfile, Accept, Goto, TypeOK
    <2>5. CASE StartApprove(t, r)
      <3>1. r.who \in Followers
        BY <2>5, RequestFields DEF StartApprove
      <3> QED
        BY <2>5, <3>1 DEF StartApprove, Accept, Goto, TypeOK
    <2>6. CASE StartRemove(t, r)
      BY <2>6 DEF StartRemove, DropStep, Accept, Goto, TypeOK
    <2> QED
      BY <1>1, <2>1, <2>2, <2>3, <2>4, <2>5, <2>6 DEF Start
  <1>2. ASSUME NEW t \in Threads, Edit(t) PROVE TypeOK'
    <2>1. CASE Snapshot(t)
      <3>1. Audience(req[t].mode, req[t].uids) \subseteq Recipients
        BY AudienceIsRecipients
      <3> QED
        BY <2>1, <3>1, EmptyDocumentType DEF Snapshot, Finish, Goto, TypeOK
    <2>2. CASE Seal(t)
      <3>1. Sealed(t) \in Envelope
        BY DEF Sealed, Envelope, TypeOK
      <3>2. SharedTypes'
        BY <2>2, <3>1, TypesSplit DEF Seal, SharedTypes
      <3>3. LocalTypes'
        BY <2>2, <3>1, FinishTypes, TypesSplit DEF Seal, Goto, LocalTypes
      <3> QED
        BY <3>2, <3>3 DEF TypeOK, LocalTypes, SharedTypes
    <2>3. CASE Load(t)
      BY <2>3, LoadableType DEF Load, Take, Goto, TypeOK
    <2>4. CASE NotFound(t)
      <3>1. SharedTypes'
        BY <2>4, TypesSplit DEF NotFound, SharedTypes
      <3>2. LocalTypes'
        BY <2>4, FinishTypes, TypesSplit DEF NotFound, Goto, LocalTypes
      <3> QED
        BY <3>1, <3>2 DEF TypeOK, LocalTypes, SharedTypes
    <2>5. CASE SaveAppended(t)
      <3>1. NewEntry(t) \in Entry
        BY <2>5, NewEntryType DEF SaveAppended
      <3>2. [doc[t] EXCEPT !.posts = doc[t].posts \cup {NewEntry(t)}] \in Document
        BY <3>1 DEF TypeOK, Document
      <3> QED
        BY <2>5, <3>1, <3>2 DEF SaveAppended, SaveDocument, Goto, TypeOK
    <2>6. CASE SaveErased(t)
      <3>1. PICK e \in FirstMatches(doc[t].posts, req[t].cid, req[t].client) :
              /\ SaveDocument(t, [doc[t] EXCEPT !.posts = doc[t].posts \ {e}])
              /\ touched' = [touched EXCEPT ![t] = {e}]
              /\ erased' = erased \cup {e}
        BY <2>6 DEF SaveErased
      <3>2. /\ e \in Entry
            /\ [doc[t] EXCEPT !.posts = doc[t].posts \ {e}] \in Document
        BY DEF FirstMatches, Matches, TypeOK, Document
      <3>3. LocalTypes'
        BY <2>6, <3>1, <3>2, TypesSplit DEF SaveErased, SaveDocument, Goto, LocalTypes
      <3>4. SharedTypes'
        BY <2>6, <3>1, <3>2, TypesSplit DEF SaveErased, SaveDocument, SharedTypes
      <3> QED
        BY <3>3, <3>4 DEF TypeOK, LocalTypes, SharedTypes
    <2>7. CASE SaveProfile(t)
      <3>1. req[t] \in Request \cup {NoRequest}
        BY DEF TypeOK
      <3>2. req[t].client \in Clients /\ req[t].fields \subseteq Fields
        BY <2>7, <3>1, RequestFields DEF SaveProfile
      <3> DEFINE merged == doc[t].profile[req[t].client] \cup req[t].fields
      <3>3. [doc[t] EXCEPT !.profile[req[t].client] = merged] \in Document
        <4>1. /\ doc[t] \in Document
              /\ doc[t].profile \in [Clients -> SUBSET Fields]
          BY DEF TypeOK, Document
        <4>2. merged \in SUBSET Fields
          BY <3>2, <4>1
        <4> HIDE DEF merged
        <4>3. [doc[t].profile EXCEPT ![req[t].client] = merged] \in [Clients -> SUBSET Fields]
          BY <4>1, <4>2
        <4> QED
          BY <4>1, <4>3 DEF Document
      <3> QED
        BY <2>7, <3>3 DEF SaveProfile, SaveDocument, Goto, TypeOK
    <2>8. CASE Publish(t)
      <3>1. {e.id : e \in touched[t]} \subseteq Nat
        BY DEF TypeOK, Entry
      <3>4. pointer' \in Document
        BY <2>8, TypesSplit DEF Publish, MovePointer, SkipPointer, LocalTypes, SharedTypes
      <3>5. behind' \in BOOLEAN
        <4>1. behind' = FALSE \/ behind' = TRUE
          BY <2>8 DEF Publish, MovePointer, SkipPointer
        <4> QED
          BY <4>1
      <3>2. SharedTypes'
        BY <2>8, <3>1, <3>4, <3>5, TypesSplit DEF Publish, Release, SharedTypes
      <3>3. LocalTypes'
        BY <2>8, FinishTypes, TypesSplit DEF Publish, Goto, LocalTypes
      <3> QED
        BY <3>2, <3>3 DEF TypeOK, LocalTypes, SharedTypes
    <2>9. CASE Unpin(t)
      <3>1. SharedTypes'
        BY <2>9, TypesSplit DEF Unpin, SharedTypes
      <3>2. LocalTypes'
        BY <2>9, FinishTypes, TypesSplit DEF Unpin, Goto, LocalTypes
      <3> QED
        BY <3>1, <3>2 DEF TypeOK, LocalTypes, SharedTypes
    <2> QED
      BY <1>2, <2>1, <2>2, <2>3, <2>4, <2>5, <2>6, <2>7, <2>8, <2>9 DEF Edit
  <1>3. ASSUME NEW t \in Threads, Regrant(t) PROVE TypeOK'
    <2>1. CASE DropRow(t)
      <3>1. SharedTypes'
        BY <2>1, TypesSplit DEF DropRow, SharedTypes
      <3>2. LocalTypes'
        BY <2>1, FinishTypes, TypesSplit DEF DropRow, Goto, LocalTypes
      <3> QED
        BY <3>1, <3>2 DEF TypeOK, LocalTypes, SharedTypes
    <2>2. CASE ReadMembers(t)
      BY <2>2, AudienceIsRecipients DEF ReadMembers, Goto, TypeOK
    <2>3. CASE Rewrap(t)
      <3> DEFINE Fresh(done) == {Rewrapped(e, seals + 1, snap[t]) : e \in done}
      <3>1. PICK d \in Loadable : \E done \in SUBSET Rewrappable(d.posts) :
              /\ doc' = [doc EXCEPT ![t] =
                           [d EXCEPT !.posts = (d.posts \ done) \cup Fresh(done)]]
              /\ pinnedEnv' = pinnedEnv \cup {e.env : e \in Fresh(done)}
        BY <2>3 DEF Rewrap
      <3>0. PICK done \in SUBSET Rewrappable(d.posts) :
              /\ doc' = [doc EXCEPT ![t] =
                           [d EXCEPT !.posts = (d.posts \ done) \cup Fresh(done)]]
              /\ pinnedEnv' = pinnedEnv \cup {e.env : e \in Fresh(done)}
        BY <3>1
      <3>2. d \in Document
        BY LoadableType
      <3>3. ASSUME NEW e \in done
            PROVE  /\ Rewrapped(e, seals + 1, snap[t]) \in Entry
                   /\ Rewrapped(e, seals + 1, snap[t]).env \in Envelope
        <4>1. e \in Entry /\ e.id \in Nat
          BY <3>2 DEF Rewrappable, Document, Entry
        <4>2. [by |-> seals + 1, of |-> e.id, to |-> snap[t]] \in Envelope
          BY <4>1 DEF TypeOK, Envelope
        <4> QED
          BY <4>1, <4>2 DEF Rewrapped, Entry
      <3>4. Fresh(done) \subseteq Entry /\ {e.env : e \in Fresh(done)} \subseteq Envelope
        BY <3>3
      <3>5. [d EXCEPT !.posts = (d.posts \ done) \cup Fresh(done)] \in Document
        BY <3>2, <3>4 DEF Document
      <3> HIDE DEF Fresh
      <3>6. SharedTypes'
        BY <2>3, <3>0, <3>4, TypesSplit DEF Rewrap, SharedTypes
      <3>7. LocalTypes'
        BY <2>3, <3>0, <3>5, TypesSplit DEF Rewrap, Goto, LocalTypes
      <3> QED
        BY <3>6, <3>7 DEF TypeOK, LocalTypes, SharedTypes
    <2>4. CASE Rewrite(t)
      BY <2>4 DEF Rewrite, Take, Goto, TypeOK
    <2>5. CASE ReadGraph(t)
      BY <2>5, AudienceIsRecipients DEF ReadGraph, Goto, TypeOK
    <2>6. CASE CommitGraph(t)
      <3>1. SharedTypes'
        BY <2>6, TypesSplit DEF CommitGraph, LocalTypes, SharedTypes
      <3>2. LocalTypes'
        BY <2>6, FinishTypes, TypesSplit DEF CommitGraph, LocalTypes
      <3> QED
        BY <3>1, <3>2 DEF TypeOK, LocalTypes, SharedTypes
    <2> QED
      BY <1>3, <2>1, <2>2, <2>3, <2>4, <2>5, <2>6 DEF Regrant
  <1>4. ASSUME NEW t \in Threads, Fault(t) PROVE TypeOK'
    <2>1. SharedTypes'
      BY <1>4, TypesSplit DEF Fault, Release, SharedTypes
    <2>2. LocalTypes'
      BY <1>4, FinishTypes, TypesSplit DEF Fault, Goto, LocalTypes
    <2> QED
      BY <2>1, <2>2 DEF TypeOK, LocalTypes, SharedTypes
  <1>5. ASSUME NEW u \in Followers, FollowRequest(u) PROVE TypeOK'
    BY <1>5 DEF FollowRequest, TypeOK
  <1>6. CASE Crash
    BY <1>6, EmptyDocumentType DEF Crash, TypeOK
  <1>7. CASE UNCHANGED vars
    BY <1>7 DEF vars, TypeOK
  <1> QED
    BY <1>1, <1>2, <1>3, <1>4, <1>5, <1>6, <1>7 DEF Next, Step

THEOREM TypeCorrect == Spec => []TypeOK
  BY TypeInit, TypeStep, PTL DEF Spec

----------------------------------------------------------------------------
(* The lock.  A thread between loading the manifest under STATE_LOCK and    *)
(* publishing it holds the lock, so the document it is about to publish is  *)
(* the manifest on disk.  PointerIsCurrent is not inductive: it says        *)
(* nothing of the states in which the lock is held.                         *)
Holders == \A t \in Threads : pc[t] \in {"save", "publish"} <=> lock = t

Publishing == \A t \in Threads : pc[t] = "publish" => doc[t] = manifest

Saving == \A t \in Threads : pc[t] = "save" /\ ~ behind => pointer = manifest

LockInv == TypeOK /\ Holders /\ Publishing /\ Saving /\ PointerIsCurrent

LEMMA LockInit == Init => LockInv
  BY TypeInit, ConstantsAreApart
     DEF Init, LockInv, Holders, Publishing, Saving, PointerIsCurrent

(* Steps of thread t that neither take nor give back the lock, do not touch *)
(* the files, and leave t outside the locked cycle.                         *)
LEMMA OutsideTheCycle ==
  ASSUME LockInv, NEW t \in Threads, NEW step,
         pc[t] \notin {"save", "publish"}, step \notin {"save", "publish"},
         pc' = [pc EXCEPT ![t] = step], UNCHANGED <<manifest, pointer, lock, behind>>,
         \A u \in Threads \ {t} : doc'[u] = doc[u]
  PROVE  (Holders /\ Publishing /\ Saving /\ PointerIsCurrent)'
  BY DEF LockInv, TypeOK, Holders, Publishing, Saving, PointerIsCurrent

LEMMA LockStep == LockInv /\ [Next]_vars => LockInv'
  <1> SUFFICES ASSUME LockInv, [Next]_vars PROVE LockInv'
    OBVIOUS
  <1> DEFINE Rest == Holders /\ Publishing /\ Saving /\ PointerIsCurrent
  <1> USE DEF files, store, locals, bounds, past
  <1>0. TypeOK'
    BY TypeStep DEF LockInv
  <1>1. ASSUME NEW t \in Threads, NEW r \in Request, Start(t, r) PROVE Rest'
    <2>1. PICK step \in {"load", "snapshot", "members", "dropAllowed", "dropPending"} :
            /\ pc[t] = "idle"
            /\ pc' = [pc EXCEPT ![t] = step]
      BY <1>1 DEF Start, StartPost, StartDelete, StartReshare, StartProfile,
                  StartApprove, StartRemove, DropStep, Accept, Goto
    <2>2. UNCHANGED <<manifest, pointer, lock, behind, doc>>
      BY <1>1 DEF Start, StartPost, StartDelete, StartReshare, StartProfile,
                  StartApprove, StartRemove
    <2> QED
      BY <2>1, <2>2, OutsideTheCycle
  <1>2. ASSUME NEW t \in Threads, Snapshot(t) \/ Seal(t) \/ NotFound(t) \/ Unpin(t)
        PROVE  Rest'
    <2>1. PICK step \in {"idle", "seal", "load"} :
            /\ pc[t] \notin {"save", "publish"}
            /\ pc' = [pc EXCEPT ![t] = step]
      BY <1>2 DEF Snapshot, Seal, NotFound, Unpin, Finish, Goto
    <2>2. /\ UNCHANGED <<manifest, pointer, lock, behind>>
          /\ \A u \in Threads \ {t} : doc'[u] = doc[u]
      BY <1>2 DEF Snapshot, Seal, NotFound, Unpin, Finish, LockInv, TypeOK
    <2> QED
      BY <2>1, <2>2, OutsideTheCycle
  <1>3. ASSUME NEW t \in Threads, DropRow(t) \/ ReadMembers(t) \/ Rewrap(t)
                                    \/ ReadGraph(t) \/ CommitGraph(t)
        PROVE  Rest'
    <2>1. PICK step \in {"idle", "members", "rewrap", "rewrite", "commit"} :
            /\ pc[t] \notin {"save", "publish"}
            /\ pc' = [pc EXCEPT ![t] = step]
      BY <1>3 DEF DropRow, ReadMembers, Rewrap, ReadGraph, CommitGraph, Finish, Goto
    <2>2. /\ UNCHANGED <<manifest, pointer, lock, behind>>
          /\ \A u \in Threads \ {t} : doc'[u] = doc[u]
      BY <1>3 DEF DropRow, ReadMembers, Rewrap, ReadGraph, CommitGraph, Finish,
                  LockInv, TypeOK
    <2> QED
      BY <2>1, <2>2, OutsideTheCycle
  <1>4. ASSUME NEW t \in Threads, Load(t) PROVE Rest'
    BY <1>4, ConstantsAreApart
       DEF Load, Take, LockFree, Goto, LockInv, TypeOK,
           Holders, Publishing, Saving, PointerIsCurrent
  <1>5. ASSUME NEW t \in Threads, SaveAppended(t) \/ SaveErased(t) \/ SaveProfile(t)
        PROVE  Rest'
    <2>1. PICK d : /\ manifest' = d
                   /\ doc' = [doc EXCEPT ![t] = d]
                   /\ pc' = [pc EXCEPT ![t] = "publish"]
      BY <1>5 DEF SaveAppended, SaveErased, SaveProfile, SaveDocument, Goto
    <2>2. pc[t] = "save" /\ UNCHANGED <<lock, behind>>
      BY <1>5 DEF SaveAppended, SaveErased, SaveProfile
    <2> QED
      BY <2>1, <2>2, ConstantsAreApart
         DEF LockInv, TypeOK, Holders, Publishing, Saving, PointerIsCurrent
  <1>6. ASSUME NEW t \in Threads, Publish(t) PROVE Rest'
    <2>1. /\ pc[t] = "publish" /\ lock = t
          /\ behind' \/ (pointer' = doc[t] /\ ~ behind')
          /\ lock' = NoOne /\ manifest' = manifest
      BY <1>6 DEF Publish, MovePointer, SkipPointer, Release, LockInv, Holders
    <2>2. PICK step \in {"unpin", "graph", "idle"} : pc' = [pc EXCEPT ![t] = step]
      BY <1>6 DEF Publish, Finish, Goto
    <2>3. \A u \in Threads : pc'[u] \notin {"save", "publish"}
      BY <2>1, <2>2 DEF LockInv, TypeOK, Holders
    <2> QED
      BY <2>1, <2>3, ConstantsAreApart
         DEF LockInv, Holders, Publishing, Saving, PointerIsCurrent
  <1>7. ASSUME NEW t \in Threads, Rewrite(t) PROVE Rest'
    BY <1>7, ConstantsAreApart
       DEF Rewrite, Take, LockFree, Goto, LockInv, TypeOK,
           Holders, Publishing, Saving, PointerIsCurrent
  <1>8. ASSUME NEW t \in Threads, Fault(t) PROVE Rest'
    <2>1. PICK step \in {"graph", "idle"} : pc' = [pc EXCEPT ![t] = step]
      BY <1>8 DEF Fault, Finish, Goto
    <2>2. /\ lock' = IF lock = t THEN NoOne ELSE lock
          /\ behind' = (behind \/ pc[t] = "publish")
          /\ UNCHANGED <<manifest, pointer>>
          /\ \A u \in Threads \ {t} : doc'[u] = doc[u]
      BY <1>8 DEF Fault, Release, Finish, LockInv, TypeOK
    <2> QED
      BY <2>1, <2>2, ConstantsAreApart
         DEF LockInv, TypeOK, Holders, Publishing, Saving, PointerIsCurrent
  <1>9. ASSUME NEW u \in Followers, FollowRequest(u) PROVE Rest'
    BY <1>9 DEF FollowRequest, LockInv, Holders, Publishing, Saving, PointerIsCurrent
  <1>10. ASSUME Crash PROVE Rest'
    <2>1. /\ lock' = NoOne /\ UNCHANGED <<manifest, pointer>>
          /\ \A t \in Threads : pc'[t] = "idle"
          /\ ~ behind' => ~ behind /\ \A t \in Threads : pc[t] # "publish"
      BY <1>10 DEF Crash
    <2>2. ~ behind' => pointer = manifest
      BY <2>1 DEF LockInv, TypeOK, Holders, Saving, PointerIsCurrent
    <2> QED
      BY <2>1, <2>2, ConstantsAreApart DEF Holders, Publishing, Saving, PointerIsCurrent
  <1>11. ASSUME UNCHANGED vars PROVE Rest'
    <2>1. UNCHANGED <<manifest, pointer, lock, pc, doc, behind>>
      BY <1>11 DEF vars
    <2> QED
      BY <2>1 DEF LockInv, Holders, Publishing, Saving, PointerIsCurrent
  <1> QED
    BY <1>0, <1>1, <1>2, <1>3, <1>4, <1>5, <1>6, <1>7, <1>8, <1>9, <1>10, <1>11
       DEF Next, Step, Edit, Regrant, LockInv

LEMMA LockInvariant == Spec => []LockInv
  BY LockInit, LockStep, PTL DEF Spec

(* With the lock free and no publication failed or skipped, public.json     *)
(* names the manifest on disk, whatever the threads, failures and restarts  *)
(* before (manifest.py:96-125, 283-302).                                    *)
THEOREM PointerStaysCurrent == Spec => []PointerIsCurrent
  <1>1. LockInv => PointerIsCurrent
    BY DEF LockInv
  <1> QED
    BY LockInvariant, <1>1, PTL

----------------------------------------------------------------------------
(* The races of the re-wrap.  rewrap_all_posts saves the manifest it loaded *)
(* before it took the lock (rewrap_envelopes.py:124, 256-260).  What another *)
(* handler saves in between is what the next three formulas rule out, one   *)
(* kind of save each; each theorem below names the ones it needs.           *)
NoPostSavedOver == \A t, u \in Threads : pc[t] = "rewrite" => ~ SaveAppended(u)
NoRemovalSavedOver == \A t, u \in Threads : pc[t] = "rewrite" => ~ SaveErased(u)
NoProfileSavedOver == \A t, u \in Threads : pc[t] = "rewrite" => ~ SaveProfile(u)

NothingSavedOver == NoPostSavedOver /\ NoRemovalSavedOver /\ NoProfileSavedOver

(* Under the lock a thread edits the manifest as load_manifest returns it.  *)
EditsLoaded == \A t \in Threads : pc[t] = "save" => doc[t] \in Loadable

EditInv == LockInv /\ EditsLoaded

(* Steps of t that leave the index alone and hand it no document to save.   *)
Beside(t) ==
  /\ \E step \in {"idle", "snapshot", "seal", "load", "unpin", "dropAllowed", "dropPending",
                  "members", "rewrap", "graph", "commit"} : pc' = [pc EXCEPT ![t] = step]
  /\ UNCHANGED <<manifest, pointer, acked, erased, nextId>>
  /\ \A u \in Threads : touched'[u] = touched[u] \/ touched'[u] = {}
  /\ \A u \in Threads \ {t} : doc'[u] = doc[u]

(* Steps of no thread of the pool: a follow request, a restart.             *)
Outside ==
  /\ UNCHANGED <<manifest, pointer, acked, erased, nextId>>
  /\ \/ UNCHANGED <<pc, doc, touched>>
     \/ \A t \in Threads : pc'[t] = "idle" /\ touched'[t] = {}

(* What a step can be for the index.                                        *)
LEMMA IndexMoves ==
  ASSUME TypeOK, [Next]_vars
  PROVE  \/ Outside
         \/ \E t \in Threads :
              \/ Beside(t) \/ Load(t) \/ Publish(t) \/ Rewrap(t) \/ Rewrite(t)
              \/ SaveAppended(t) \/ SaveErased(t) \/ SaveProfile(t)
  <1> USE DEF files, store, locals, bounds, past
  <1>1. ASSUME NEW t \in Threads, NEW r \in Request, Start(t, r) PROVE Beside(t)
    <2>1. /\ \E step \in {"load", "snapshot", "members", "dropAllowed", "dropPending"} :
               pc' = [pc EXCEPT ![t] = step]
          /\ UNCHANGED <<manifest, pointer, acked, erased, nextId, touched, doc>>
      BY <1>1 DEF Start, StartPost, StartDelete, StartReshare, StartProfile,
                  StartApprove, StartRemove, DropStep, Accept, Goto
    <2> QED
      BY <2>1 DEF Beside
  <1>2. ASSUME NEW t \in Threads,
               \/ Snapshot(t) \/ Seal(t) \/ NotFound(t) \/ Unpin(t) \/ DropRow(t)
               \/ ReadMembers(t) \/ ReadGraph(t) \/ CommitGraph(t) \/ Fault(t)
        PROVE  Beside(t)
    <2>1. \E step \in {"idle", "seal", "load", "members", "rewrap", "graph", "commit"} :
            pc' = [pc EXCEPT ![t] = step]
      BY <1>2 DEF Snapshot, Seal, NotFound, Unpin, DropRow, ReadMembers, ReadGraph,
                  CommitGraph, Fault, Finish, Goto
    <2>2. /\ UNCHANGED <<manifest, pointer, acked, erased, nextId>>
          /\ \A u \in Threads : touched'[u] = touched[u] \/ touched'[u] = {}
          /\ \A u \in Threads \ {t} : doc'[u] = doc[u]
      BY <1>2 DEF Snapshot, Seal, NotFound, Unpin, DropRow, ReadMembers, ReadGraph,
                  CommitGraph, Fault, Finish, TypeOK
    <2> QED
      BY <2>1, <2>2 DEF Beside
  <1>3. ASSUME (\E u \in Followers : FollowRequest(u)) \/ Crash \/ UNCHANGED vars
        PROVE  Outside
    BY <1>3 DEF FollowRequest, Crash, vars, Outside
  <1> QED
    BY <1>1, <1>2, <1>3 DEF Next, Step, Edit, Regrant

(* Who writes the manifest holds the lock, and nobody else is in the cycle. *)
LEMMA WriterIsAlone ==
  ASSUME LockInv, NEW t \in Threads,
         SaveAppended(t) \/ SaveErased(t) \/ SaveProfile(t) \/ Rewrite(t)
  PROVE  /\ pc' = [pc EXCEPT ![t] = "publish"] /\ pc'[t] = "publish"
         /\ \A u \in Threads \ {t} : pc'[u] = pc[u] /\ doc'[u] = doc[u]
         /\ \A u \in Threads : pc'[u] # "save"
         /\ UNCHANGED <<pointer, acked>>
  <1> USE DEF files, store, locals, bounds, past
  <1>1. /\ pc' = [pc EXCEPT ![t] = "publish"] /\ UNCHANGED <<pointer, acked>>
        /\ pc[t] = "save" \/ lock = NoOne
        /\ doc' = doc \/ \E d : doc' = [doc EXCEPT ![t] = d]
    BY DEF SaveAppended, SaveErased, SaveProfile, Rewrite, SaveDocument, Goto, Take, LockFree
  <1>2. \A u \in Threads \ {t} : pc[u] # "save"
    BY <1>1, ConstantsAreApart DEF LockInv, Holders
  <1> QED
    BY <1>1, <1>2 DEF LockInv, TypeOK

LEMMA EditStep == EditInv /\ [Next]_vars => EditInv'
  <1> SUFFICES ASSUME EditInv, [Next]_vars PROVE EditInv'
    OBVIOUS
  <1>0. LockInv' /\ LockInv /\ TypeOK /\ EditsLoaded
    BY LockStep DEF EditInv, LockInv
  <1>1. ASSUME Outside PROVE EditsLoaded'
    BY <1>0, <1>1 DEF Outside, EditsLoaded, Loadable
  <1>2. ASSUME NEW t \in Threads, Beside(t) PROVE EditsLoaded'
    BY <1>0, <1>2 DEF Beside, EditsLoaded, Loadable, TypeOK
  <1>3. ASSUME NEW t \in Threads, Load(t) PROVE EditsLoaded'
    BY <1>0, <1>3 DEF Load, Goto, EditsLoaded, Loadable, TypeOK, files, bounds, past
  <1>4. ASSUME NEW t \in Threads, Publish(t) \/ Rewrap(t) PROVE EditsLoaded'
    <2>1. \E step \in {"unpin", "graph", "idle", "rewrite"} : pc' = [pc EXCEPT ![t] = step]
      BY <1>4 DEF Publish, Rewrap, Finish, Goto
    <2>2. manifest' = manifest /\ \A u \in Threads \ {t} : doc'[u] = doc[u]
      BY <1>0, <1>4 DEF Publish, Rewrap, Finish, TypeOK, files, locals, bounds, past
    <2> QED
      BY <1>0, <2>1, <2>2 DEF EditsLoaded, Loadable, TypeOK
  <1>5. ASSUME NEW t \in Threads,
               SaveAppended(t) \/ SaveErased(t) \/ SaveProfile(t) \/ Rewrite(t)
        PROVE  EditsLoaded'
    BY <1>0, <1>5, WriterIsAlone DEF EditsLoaded
  <1> QED
    BY <1>0, <1>1, <1>2, <1>3, <1>4, <1>5, IndexMoves DEF EditInv

(* Whatever fails and whoever re-wraps, what a handler edits under the lock *)
(* is what load_manifest returns at that moment.                            *)
LEMMA EditInvariant == Spec => []EditInv
  <1>1. Init => EditInv
    BY LockInit DEF Init, EditInv, EditsLoaded
  <1> QED
    BY <1>1, EditStep, PTL DEF Spec

(* What the four writers write.                                             *)
LEMMA AppendedOne ==
  ASSUME EditInv, NEW t \in Threads, SaveAppended(t)
  PROVE  \E d \in Loadable :
           /\ manifest'.posts = d.posts \cup {NewEntry(t)}
           /\ manifest'.profile = d.profile
           /\ touched' = [touched EXCEPT ![t] = {NewEntry(t)}]
           /\ NewEntry(t).id = nextId /\ nextId' = nextId + 1
           /\ UNCHANGED <<acked, erased>>
  <1>1. doc[t] \in Loadable /\ doc[t] \in Document
    BY DEF SaveAppended, EditInv, EditsLoaded, LockInv, TypeOK
  <1> QED
    BY <1>1 DEF SaveAppended, SaveDocument, NewEntry, Document, past

LEMMA ErasedOne ==
  ASSUME EditInv, NEW t \in Threads, SaveErased(t)
  PROVE  \E d \in Loadable : \E e \in d.posts :
           /\ manifest'.posts = d.posts \ {e}
           /\ manifest'.profile = d.profile
           /\ touched' = [touched EXCEPT ![t] = {e}]
           /\ erased' = erased \cup {e}
           /\ UNCHANGED <<acked, nextId>>
  <1>1. doc[t] \in Loadable /\ doc[t] \in Document
    BY DEF SaveErased, EditInv, EditsLoaded, LockInv, TypeOK
  <1> QED
    BY <1>1 DEF SaveErased, SaveDocument, FirstMatches, Matches, Document, bounds

LEMMA ProfiledOne ==
  ASSUME EditInv, NEW t \in Threads, SaveProfile(t)
  PROVE  /\ \E d \in Loadable :
              /\ manifest' = [d EXCEPT !.profile[req[t].client] = @ \cup req[t].fields]
              /\ manifest'.posts = d.posts
         /\ UNCHANGED <<acked, erased, nextId, touched>>
  <1>1. doc[t] \in Loadable /\ doc[t] \in Document
    BY DEF SaveProfile, EditInv, EditsLoaded, LockInv, TypeOK
  <1> QED
    BY <1>1 DEF SaveProfile, SaveDocument, Document, bounds, past

(* A re-wrap holds the manifest it loaded, with other envelopes.            *)
Resealing(posts, done, n, to) == (posts \ done) \cup {Rewrapped(e, n, to) : e \in done}

LEMMA ResealedOne ==
  ASSUME TypeOK, NEW t \in Threads, Rewrap(t)
  PROVE  \E d \in Loadable : \E done \in SUBSET d.posts :
           /\ doc'[t].posts = Resealing(d.posts, done, seals + 1, snap[t])
           /\ doc'[t].profile = d.profile
           /\ pinnedEnv' = pinnedEnv \cup {Rewrapped(e, seals + 1, snap[t]).env : e \in done}
           /\ UNCHANGED <<manifest, pointer, acked, erased, nextId, touched, env>>
           /\ pc' = [pc EXCEPT ![t] = "rewrite"]
           /\ \A u \in Threads \ {t} : doc'[u] = doc[u]
  <1> USE DEF files, store, locals, bounds, past
  <1>1. PICK d \in Loadable : \E done \in SUBSET Rewrappable(d.posts) :
          LET fresh == {Rewrapped(e, seals + 1, snap[t]) : e \in done} IN
          /\ doc' = [doc EXCEPT ![t] = [d EXCEPT !.posts = (@ \ done) \cup fresh]]
          /\ pinnedEnv' = pinnedEnv \cup {e.env : e \in fresh}
    BY DEF Rewrap
  <1>2. PICK done \in SUBSET Rewrappable(d.posts) :
          LET fresh == {Rewrapped(e, seals + 1, snap[t]) : e \in done} IN
          /\ doc' = [doc EXCEPT ![t] = [d EXCEPT !.posts = (@ \ done) \cup fresh]]
          /\ pinnedEnv' = pinnedEnv \cup {e.env : e \in fresh}
    BY <1>1
  <1>3. d \in Document
    BY LoadableType
  <1>4. /\ doc'[t].posts = Resealing(d.posts, done, seals + 1, snap[t])
        /\ doc'[t].profile = d.profile
    BY <1>2, <1>3 DEF TypeOK, Document, Resealing
  <1>5. pinnedEnv' = pinnedEnv \cup {Rewrapped(e, seals + 1, snap[t]).env : e \in done}
    BY <1>2
  <1>6. done \in SUBSET d.posts
    BY DEF Rewrappable
  <1>7. \A u \in Threads \ {t} : doc'[u] = doc[u]
    BY <1>2 DEF TypeOK
  <1>8. /\ UNCHANGED <<manifest, pointer, acked, erased, nextId, touched, env>>
        /\ pc' = [pc EXCEPT ![t] = "rewrite"]
    BY DEF Rewrap, Goto
  <1> QED
    BY <1>4, <1>5, <1>6, <1>7, <1>8

----------------------------------------------------------------------------
(* No stored post is lost.  A waiting re-wrap lists the posts there are,    *)
(* but for those that were removed.                                         *)
Ids(posts) == {e.id : e \in posts}

(* What a handler is about to answer for is listed or was removed since.    *)
TouchedKnown == \A t \in Threads : Ids(touched[t]) \subseteq Listed \cup ErasedIds

WaitingListsAll ==
  \A t \in Threads : pc[t] = "rewrite" =>
     Ids(doc[t].posts) \cup ErasedIds = Listed \cup ErasedIds

AckedRest == AckedPostsListed /\ TouchedKnown /\ WaitingListsAll

(* The index may only lose what is recorded as removed.                     *)
LEMMA NothingLost ==
  ASSUME AckedRest, Listed \subseteq Listed' \cup ErasedIds', ErasedIds \subseteq ErasedIds',
         acked' \subseteq acked \cup Listed \cup ErasedIds,
         \A t \in Threads : Ids(touched[t])' \subseteq Ids(touched[t]) \cup Listed' \cup ErasedIds'
  PROVE  AckedPostsListed' /\ TouchedKnown'
  BY DEF AckedRest, AckedPostsListed, TouchedKnown

LEMMA AckedStep ==
  ASSUME ~ ReadFaults, EditInv, AckedRest, [Next]_vars, [NoPostSavedOver]_vars
  PROVE  AckedRest'
  <1>0. TypeOK /\ LockInv /\ Loadable = {manifest}
    BY DEF EditInv, LockInv, Loadable
  <1> USE DEF Ids, Listed, ErasedIds
  <1>1. ASSUME Outside PROVE AckedRest'
    BY <1>1 DEF Outside, AckedRest, AckedPostsListed, TouchedKnown, WaitingListsAll
  <1>2. ASSUME NEW t \in Threads, Beside(t) PROVE AckedRest'
    BY <1>0, <1>2
       DEF Beside, TypeOK, AckedRest, AckedPostsListed, TouchedKnown, WaitingListsAll
  <1>3. ASSUME NEW t \in Threads, Load(t) PROVE AckedRest'
    <2>1. /\ pc' = [pc EXCEPT ![t] = "save"]
          /\ UNCHANGED <<manifest, acked, erased, touched>>
          /\ \A u \in Threads \ {t} : doc'[u] = doc[u]
      BY <1>0, <1>3 DEF Load, Goto, TypeOK, files, bounds, past
    <2> QED
      BY <1>0, <2>1 DEF TypeOK, AckedRest, AckedPostsListed, TouchedKnown, WaitingListsAll
  <1>4. ASSUME NEW t \in Threads, Publish(t) PROVE AckedRest'
    <2>1. \E step \in {"unpin", "graph", "idle"} : pc' = [pc EXCEPT ![t] = step]
      BY <1>4 DEF Publish, Finish, Goto
    <2>2. /\ UNCHANGED <<manifest, erased>> /\ acked' \subseteq acked \cup Ids(touched[t])
          /\ \A u \in Threads : touched'[u] = touched[u] \/ touched'[u] = {}
          /\ \A u \in Threads \ {t} : doc'[u] = doc[u]
      BY <1>0, <1>4 DEF Publish, Finish, TypeOK, locals
    <2>3. WaitingListsAll'
      BY <1>0, <2>1, <2>2 DEF TypeOK, AckedRest, WaitingListsAll
    <2>4. AckedPostsListed' /\ TouchedKnown'
      BY <2>2 DEF AckedRest, AckedPostsListed, TouchedKnown
    <2> QED
      BY <2>3, <2>4 DEF AckedRest
  <1>5. ASSUME NEW t \in Threads, Rewrap(t) PROVE AckedRest'
    <2>1. PICK done \in SUBSET manifest.posts :
            /\ doc'[t].posts = Resealing(manifest.posts, done, seals + 1, snap[t])
            /\ UNCHANGED <<manifest, acked, erased, touched>>
            /\ pc' = [pc EXCEPT ![t] = "rewrite"]
            /\ \A u \in Threads \ {t} : doc'[u] = doc[u]
      BY <1>0, <1>5, ResealedOne
    <2>2. \A f \in manifest.posts : Rewrapped(f, seals + 1, snap[t]).id = f.id
      BY <1>0 DEF TypeOK, Document, Entry, Rewrapped
    <2>3. Listed = Ids(doc'[t].posts)
      BY <2>1, <2>2 DEF Resealing
    <2>4. WaitingListsAll'
      BY <1>0, <2>1, <2>3 DEF TypeOK, AckedRest, WaitingListsAll
    <2>5. AckedPostsListed' /\ TouchedKnown'
      BY <2>1 DEF AckedRest, AckedPostsListed, TouchedKnown
    <2> QED
      BY <2>4, <2>5 DEF AckedRest
  <1>6. ASSUME NEW t \in Threads, Rewrite(t) PROVE AckedRest'
    <2>1. /\ pc[t] = "rewrite" /\ manifest' = doc[t]
          /\ UNCHANGED <<acked, erased, touched, doc>>
          /\ pc' = [pc EXCEPT ![t] = "publish"]
      BY <1>6 DEF Rewrite, Goto, locals, past
    <2>2. Listed \subseteq Listed' \cup ErasedIds' /\ Listed' = Ids(doc[t].posts)
      BY <2>1 DEF AckedRest, WaitingListsAll
    <2>3. AckedPostsListed' /\ TouchedKnown'
      BY <2>1, <2>2, NothingLost
    <2>4. WaitingListsAll'
      BY <1>0, <2>1, <2>2 DEF AckedRest, WaitingListsAll, TypeOK
    <2> QED
      BY <2>3, <2>4 DEF AckedRest
  <1>7. ASSUME NEW t \in Threads, SaveAppended(t) PROVE AckedRest'
    <2>1. /\ Listed' = Listed \cup {nextId}
          /\ touched' = [touched EXCEPT ![t] = {NewEntry(t)}] /\ NewEntry(t).id = nextId
          /\ UNCHANGED <<acked, erased>>
      BY <1>0, <1>7, AppendedOne
    <2>2. pc[t] = "save" /\ pc'[t] = "publish" /\ \A u \in Threads \ {t} : pc'[u] = pc[u]
      BY <1>0, <1>7, WriterIsAlone DEF SaveAppended
    <2>3. NoPostSavedOver
      BY <2>2 DEF vars
    <2>4. \A u \in Threads : pc[u] # "rewrite"
      BY <1>7, <2>3 DEF NoPostSavedOver
    <2>5. WaitingListsAll'
      BY <2>2, <2>4 DEF WaitingListsAll
    <2>6. AckedPostsListed' /\ TouchedKnown'
      BY <1>0, <2>1, NothingLost DEF TypeOK
    <2> QED
      BY <2>5, <2>6 DEF AckedRest
  <1>8. ASSUME NEW t \in Threads, SaveErased(t) PROVE AckedRest'
    <2>1. PICK e \in manifest.posts :
            /\ manifest'.posts = manifest.posts \ {e}
            /\ touched' = [touched EXCEPT ![t] = {e}]
            /\ erased' = erased \cup {e} /\ acked' = acked
      BY <1>0, <1>8, ErasedOne
    <2>2. /\ Listed' \subseteq Listed /\ ErasedIds' = ErasedIds \cup {e.id}
          /\ Listed \subseteq Listed' \cup ErasedIds'
      BY <2>1
    <2>3. AckedPostsListed' /\ TouchedKnown'
      BY <1>0, <2>1, <2>2, NothingLost DEF TypeOK
    <2>4. WaitingListsAll'
      BY <1>0, <1>8, <2>2, WriterIsAlone DEF AckedRest, WaitingListsAll
    <2> QED
      BY <2>3, <2>4 DEF AckedRest
  <1>9. ASSUME NEW t \in Threads, SaveProfile(t) PROVE AckedRest'
    <2>1. manifest'.posts = manifest.posts /\ UNCHANGED <<acked, erased, touched>>
      BY <1>0, <1>9, ProfiledOne
    <2>2. WaitingListsAll'
      BY <1>0, <1>9, <2>1, WriterIsAlone DEF AckedRest, WaitingListsAll
    <2>3. AckedPostsListed' /\ TouchedKnown'
      BY <2>1 DEF AckedRest, AckedPostsListed, TouchedKnown
    <2> QED
      BY <2>2, <2>3 DEF AckedRest
  <1> QED
    BY <1>0, <1>1, <1>2, <1>3, <1>4, <1>5, <1>6, <1>7, <1>8, <1>9, IndexMoves

(* No writer erases another's entry: a post the client was told is stored   *)
(* stays listed until the owner deletes or re-shares it, with any number of *)
(* threads, approvals, failures and restarts, if the manifest can be read   *)
(* and no post is saved while a re-wrap is about to save what it loaded     *)
(* before (storage.py:14-19, rewrap_envelopes.py:124).                      *)
THEOREM AckedPostsStayListed ==
  ASSUME ~ ReadFaults
  PROVE  Spec /\ [][NoPostSavedOver]_vars => []AckedPostsListed
  <1>1. Init => AckedRest
    BY DEF Init, AckedRest, AckedPostsListed, TouchedKnown, WaitingListsAll, Ids
  <1>2. EditInv /\ AckedRest /\ [Next]_vars /\ [NoPostSavedOver]_vars => AckedRest'
    BY AckedStep
  <1>3. AckedRest => AckedPostsListed
    BY DEF AckedRest
  <1> QED
    BY <1>1, <1>2, <1>3, EditInvariant, PTL DEF Spec

----------------------------------------------------------------------------
(* No removed entry returns.  The rows that are listed, and those a waiting *)
(* re-wrap will list, have ids of their own that no removed entry had.      *)
Clean(posts) ==
  /\ \A e \in posts : e.id < nextId /\ e.id \notin ErasedIds
  /\ \A e, f \in posts : e.id = f.id => e = f

ErasedRest ==
  /\ Clean(manifest.posts)
  /\ \A e \in erased : e.id < nextId
  /\ \A t \in Threads : pc[t] = "rewrite" => Clean(doc[t].posts)

ErasedInv == EditInv /\ ErasedRest

LEMMA CleanLoads ==
  ASSUME ErasedRest, NEW d \in Loadable PROVE Clean(d.posts)
  BY DEF ErasedRest, Loadable, Clean, EmptyDocument

LEMMA CleanStays ==
  ASSUME NEW posts, Clean(posts), UNCHANGED <<erased, nextId>> PROVE Clean(posts)'
  BY DEF Clean, ErasedIds

LEMMA ResealingIsClean ==
  ASSUME TypeOK, NEW posts \in SUBSET Entry, Clean(posts), NEW done \in SUBSET posts,
         NEW to
  PROVE  Clean(Resealing(posts, done, seals + 1, to))
  <1>1. \A e \in posts : Rewrapped(e, seals + 1, to).id = e.id
    BY DEF Rewrapped, Entry
  <1> QED
    BY <1>1 DEF Resealing, Clean

LEMMA ErasedStep ==
  ASSUME EditInv, ErasedRest, [Next]_vars, [NoRemovalSavedOver]_vars
  PROVE  ErasedRest'
  <1>0. TypeOK /\ LockInv /\ nextId \in Nat
    BY DEF EditInv, LockInv, TypeOK
  <1>1. ASSUME Outside PROVE ErasedRest'
    BY <1>1 DEF Outside, ErasedRest, Clean, ErasedIds
  <1>2. ASSUME NEW t \in Threads, Beside(t) \/ Load(t) \/ Publish(t) PROVE ErasedRest'
    <2>1. /\ \E step : step # "rewrite" /\ pc' = [pc EXCEPT ![t] = step]
          /\ UNCHANGED <<manifest, erased, nextId>>
          /\ \A u \in Threads \ {t} : doc'[u] = doc[u]
      BY <1>0, <1>2 DEF Beside, Load, Publish, Finish, Goto, TypeOK, files, locals, bounds, past
    <2> QED
      BY <1>0, <2>1 DEF TypeOK, ErasedRest, Clean, ErasedIds
  <1>3. ASSUME NEW t \in Threads, Rewrap(t) PROVE ErasedRest'
    <2>1. PICK d \in Loadable : \E done \in SUBSET d.posts :
            /\ doc'[t].posts = Resealing(d.posts, done, seals + 1, snap[t])
            /\ UNCHANGED <<manifest, erased, nextId>>
            /\ pc' = [pc EXCEPT ![t] = "rewrite"]
            /\ \A u \in Threads \ {t} : doc'[u] = doc[u]
      BY <1>0, <1>3, ResealedOne
    <2>2. d.posts \in SUBSET Entry
      BY <1>0, LoadableType DEF TypeOK, Document
    <2>3. Clean(doc'[t].posts)
      BY <1>0, <2>1, <2>2, CleanLoads, ResealingIsClean
    <2>4. \A u \in Threads : pc'[u] = "rewrite" => Clean(doc'[u].posts)
      BY <1>0, <2>1, <2>3 DEF ErasedRest, TypeOK
    <2> QED
      BY <2>1, <2>4 DEF ErasedRest, Clean, ErasedIds
  <1>4. ASSUME NEW t \in Threads, Rewrite(t) PROVE ErasedRest'
    <2>1. /\ pc[t] = "rewrite" /\ manifest' = doc[t]
          /\ pc' = [pc EXCEPT ![t] = "publish"]
          /\ UNCHANGED <<erased, nextId, doc>>
      BY <1>4 DEF Rewrite, Goto, locals, bounds, past
    <2> QED
      BY <1>0, <2>1 DEF TypeOK, ErasedRest, Clean, ErasedIds
  <1>5. ASSUME NEW t \in Threads, SaveAppended(t) PROVE ErasedRest'
    <2>1. PICK d \in Loadable :
            /\ manifest'.posts = d.posts \cup {NewEntry(t)}
            /\ NewEntry(t).id = nextId /\ nextId' = nextId + 1 /\ erased' = erased
      BY <1>0, <1>5, AppendedOne
    <2>2. Clean(d.posts) /\ d.posts \in SUBSET Entry /\ erased \in SUBSET Entry
      BY <1>0, CleanLoads, LoadableType DEF TypeOK, Document
    <2>3. \A e \in Entry : e.id \in Nat
      BY DEF Entry
    <2>4. nextId \notin ErasedIds
      BY <1>0, <2>2, <2>3 DEF ErasedRest, ErasedIds
    <2>5. Clean(manifest.posts)'
      BY <1>0, <2>1, <2>2, <2>3, <2>4 DEF Clean, ErasedIds
    <2>6. \A u \in Threads \ {t} : pc'[u] = pc[u] /\ doc'[u] = doc[u]
      BY <1>0, <1>5, WriterIsAlone
    <2>7. pc'[t] # "rewrite"
      BY <1>0, <1>5, WriterIsAlone
    <2>8. \A u \in Threads : pc'[u] = "rewrite" => Clean(doc[u].posts)'
      <3> SUFFICES ASSUME NEW u \in Threads, pc'[u] = "rewrite" PROVE Clean(doc[u].posts)'
        OBVIOUS
      <3>1. Clean(doc[u].posts) /\ doc'[u] = doc[u] /\ doc[u].posts \in SUBSET Entry
        BY <1>0, <2>6, <2>7 DEF ErasedRest, TypeOK, Document
      <3> QED
        BY <1>0, <2>1, <2>3, <3>1 DEF Clean, ErasedIds
    <2>9. \A e \in erased' : e.id < nextId'
      BY <1>0, <2>1, <2>2, <2>3 DEF ErasedRest
    <2> QED
      BY <2>5, <2>8, <2>9 DEF ErasedRest
  <1>6. ASSUME NEW t \in Threads, SaveErased(t) PROVE ErasedRest'
    <2>1. PICK d \in Loadable : \E e \in d.posts :
            /\ manifest'.posts = d.posts \ {e}
            /\ erased' = erased \cup {e} /\ nextId' = nextId
      BY <1>0, <1>6, ErasedOne
    <2>2. PICK e \in d.posts : /\ manifest'.posts = d.posts \ {e}
                               /\ erased' = erased \cup {e} /\ nextId' = nextId
      BY <2>1
    <2>3. Clean(d.posts)
      BY CleanLoads
    <2>4. Clean(manifest.posts)'
      BY <2>2, <2>3 DEF Clean, ErasedIds
    <2>5. pc[t] = "save" /\ pc'[t] = "publish" /\ \A u \in Threads \ {t} : pc'[u] = pc[u]
      BY <1>0, <1>6, WriterIsAlone DEF SaveErased
    <2>6. NoRemovalSavedOver
      BY <2>5 DEF vars
    <2>7. \A u \in Threads : pc'[u] # "rewrite"
      BY <1>6, <2>5, <2>6 DEF NoRemovalSavedOver
    <2> QED
      BY <2>2, <2>3, <2>4, <2>7 DEF ErasedRest, Clean
  <1>7. ASSUME NEW t \in Threads, SaveProfile(t) PROVE ErasedRest'
    <2>1. PICK d \in Loadable : manifest'.posts = d.posts /\ UNCHANGED <<erased, nextId>>
      BY <1>0, <1>7, ProfiledOne
    <2>2. Clean(d.posts)
      BY CleanLoads
    <2>3. /\ pc'[t] = "publish"
          /\ \A u \in Threads \ {t} : pc'[u] = pc[u] /\ doc'[u] = doc[u]
      BY <1>0, <1>7, WriterIsAlone
    <2> QED
      BY <2>1, <2>2, <2>3 DEF ErasedRest, Clean, ErasedIds
  <1> QED
    BY <1>0, <1>1, <1>2, <1>3, <1>4, <1>5, <1>6, <1>7, IndexMoves

LEMMA ErasedInvariant == Spec /\ [][NoRemovalSavedOver]_vars => []ErasedInv
  <1>1. Init => ErasedRest
    BY DEF Init, ErasedRest, Clean, EmptyDocument
  <1>2. EditInv /\ ErasedRest /\ [Next]_vars /\ [NoRemovalSavedOver]_vars => ErasedRest'
    BY ErasedStep
  <1>3. EditInv /\ ErasedRest <=> ErasedInv
    BY DEF ErasedInv
  <1> QED
    BY <1>1, <1>2, <1>3, EditInvariant, PTL DEF Spec

(* Nor does any writer bring back an entry that was deleted or replaced,    *)
(* even from a manifest that could not be read, unless a removal is saved   *)
(* while a re-wrap is about to save what it loaded before                   *)
(* (rewrap_envelopes.py:124, 256-260).                                      *)
THEOREM ErasedPostsStayErased ==
  Spec /\ [][NoRemovalSavedOver]_vars => []ErasedStaysErased
  <1>1. ErasedInv => ErasedStaysErased
    BY DEF ErasedInv, ErasedRest, Clean, ErasedStaysErased, Listed
  <1> QED
    BY ErasedInvariant, <1>1, PTL

----------------------------------------------------------------------------
(* The index as a whole.  A waiting re-wrap holds the index with other      *)
(* envelopes; when nothing is saved over, that is all it changes.           *)
Alike(e, f) ==
  e.id = f.id /\ e.cid = f.cid /\ e.client = f.client /\ e.mode = f.mode /\ e.uids = f.uids

SameRows(old, new) ==
  /\ \A e \in new : \E f \in old : Alike(e, f)
  /\ \A f \in old : \E e \in new : Alike(e, f)

LEMMA AlikeRows ==
  ASSUME NEW e \in Entry, NEW f \in Entry, Alike(e, f)
  PROVE  e = [f EXCEPT !.env = e.env]
  BY DEF Alike, Entry

LEMMA SameRowsResealed ==
  ASSUME NEW old \in SUBSET Entry, NEW new \in SUBSET Entry, SameRows(old, new)
  PROVE  Index!Resealed(old, new)
  BY AlikeRows DEF SameRows, Index!Resealed

LEMMA SameRowsEquivalence ==
  ASSUME NEW old, NEW new, NEW other, SameRows(old, new)
  PROVE  /\ SameRows(new, old)
         /\ SameRows(old, other) => SameRows(new, other)
  BY DEF SameRows, Alike

LEMMA ResealingKeepsRows ==
  ASSUME NEW posts \in SUBSET Entry, NEW done \in SUBSET posts, NEW n, NEW to
  PROVE  SameRows(posts, Resealing(posts, done, n, to))
  <1>1. \A e \in posts : Alike(Rewrapped(e, n, to), e)
    BY DEF Rewrapped, Entry, Alike
  <1> QED
    BY <1>1 DEF SameRows, Resealing, Alike

WaitingReseals ==
  \A t \in Threads : pc[t] = "rewrite" =>
     /\ SameRows(manifest.posts, doc[t].posts)
     /\ doc[t].profile = manifest.profile

LEMMA ResealStep ==
  ASSUME ~ ReadFaults, EditInv, WaitingReseals, [Next]_vars, [NothingSavedOver]_vars
  PROVE  WaitingReseals'
  <1>0. TypeOK /\ LockInv /\ Loadable = {manifest}
    BY DEF EditInv, LockInv, Loadable
  <1>1. ASSUME Outside PROVE WaitingReseals'
    BY <1>1 DEF Outside, WaitingReseals
  <1>2. ASSUME NEW t \in Threads, Beside(t) \/ Load(t) \/ Publish(t) PROVE WaitingReseals'
    <2>1. /\ \E step : step # "rewrite" /\ pc' = [pc EXCEPT ![t] = step]
          /\ manifest' = manifest
          /\ \A u \in Threads \ {t} : doc'[u] = doc[u]
      BY <1>0, <1>2 DEF Beside, Load, Publish, Finish, Goto, TypeOK, files, locals
    <2> QED
      BY <1>0, <2>1 DEF TypeOK, WaitingReseals
  <1>3. ASSUME NEW t \in Threads, Rewrap(t) PROVE WaitingReseals'
    <2>1. PICK done \in SUBSET manifest.posts :
            /\ doc'[t].posts = Resealing(manifest.posts, done, seals + 1, snap[t])
            /\ doc'[t].profile = manifest.profile
            /\ manifest' = manifest
            /\ pc' = [pc EXCEPT ![t] = "rewrite"]
            /\ \A u \in Threads \ {t} : doc'[u] = doc[u]
      BY <1>0, <1>3, ResealedOne
    <2>2. manifest.posts \in SUBSET Entry
      BY <1>0 DEF TypeOK, Document
    <2>3. SameRows(manifest.posts, doc'[t].posts)
      BY <2>1, <2>2, ResealingKeepsRows
    <2> QED
      BY <1>0, <2>1, <2>3 DEF TypeOK, WaitingReseals
  <1>4. ASSUME NEW t \in Threads, Rewrite(t) PROVE WaitingReseals'
    <2>1. /\ pc[t] = "rewrite" /\ manifest' = doc[t]
          /\ pc' = [pc EXCEPT ![t] = "publish"] /\ doc' = doc
      BY <1>4 DEF Rewrite, Goto, locals
    <2>2. SameRows(manifest.posts, doc[t].posts) /\ doc[t].profile = manifest.profile
      BY <2>1 DEF WaitingReseals
    <2> SUFFICES ASSUME NEW u \in Threads, pc'[u] = "rewrite"
                 PROVE  /\ SameRows(manifest'.posts, doc'[u].posts)
                        /\ doc'[u].profile = manifest'.profile
      BY DEF WaitingReseals, SameRows, Alike
    <2>3. SameRows(manifest.posts, doc[u].posts) /\ doc[u].profile = manifest.profile
      BY <1>0, <2>1 DEF WaitingReseals, TypeOK
    <2> QED
      BY <2>1, <2>2, <2>3, SameRowsEquivalence
  <1>5. ASSUME NEW t \in Threads, SaveAppended(t) \/ SaveErased(t) \/ SaveProfile(t)
        PROVE  WaitingReseals'
    <2>1. /\ pc[t] = "save" /\ pc'[t] = "publish"
          /\ \A u \in Threads \ {t} : pc'[u] = pc[u]
      BY <1>0, <1>5, WriterIsAlone DEF SaveAppended, SaveErased, SaveProfile
    <2>2. NothingSavedOver
      BY <2>1 DEF vars
    <2>3. \A u \in Threads : pc'[u] # "rewrite"
      BY <1>5, <2>1, <2>2
         DEF NothingSavedOver, NoPostSavedOver, NoRemovalSavedOver, NoProfileSavedOver
    <2> QED
      BY <2>3 DEF WaitingReseals
  <1> QED
    BY <1>0, <1>1, <1>2, <1>3, <1>4, <1>5, IndexMoves

(* A step of the index is one atomic operation or leaves it alone.          *)
LEMMA AtomicStep ==
  ASSUME ~ ReadFaults, EditInv, WaitingReseals, [Next]_vars
  PROVE  [Index!Next]_Index!vars
  <1>0. TypeOK /\ LockInv /\ Loadable = {manifest} /\ manifest \in Document
    BY DEF EditInv, LockInv, TypeOK, Loadable
  <1>1. ASSUME Outside PROVE UNCHANGED Index!vars
    BY <1>1 DEF Outside, Index!vars
  <1>2. ASSUME NEW t \in Threads, Beside(t) \/ Load(t) \/ Rewrap(t) PROVE UNCHANGED Index!vars
    BY <1>2 DEF Beside, Load, Rewrap, Index!vars, files, bounds, past
  <1>3. ASSUME NEW t \in Threads, SaveAppended(t) PROVE Index!Next
    <2>1. /\ manifest'.posts = manifest.posts \cup {NewEntry(t)}
          /\ manifest'.profile = manifest.profile
          /\ NewEntry(t).id = nextId /\ nextId' = nextId + 1 /\ erased' = erased
      BY <1>0, <1>3, AppendedOne
    <2>2. Index!Add(NewEntry(t))
      BY <1>3, <2>1 DEF SaveAppended, Index!Add
    <2> QED
      BY <2>1, <2>2 DEF Index!Next
  <1>4. ASSUME NEW t \in Threads, SaveErased(t) PROVE Index!Next
    <2>1. PICK e \in manifest.posts :
            /\ manifest'.posts = manifest.posts \ {e}
            /\ manifest'.profile = manifest.profile
            /\ erased' = erased \cup {e} /\ nextId' = nextId
      BY <1>0, <1>4, ErasedOne
    <2>2. Index!Remove(e)
      BY <1>4, <2>1 DEF SaveErased, Index!Remove
    <2> QED
      BY <2>1, <2>2 DEF Index!Next
  <1>5. ASSUME NEW t \in Threads, SaveProfile(t) PROVE Index!Next
    <2> DEFINE c == req[t].client
               merged == manifest.profile[c] \cup req[t].fields
    <2>1. req[t] \in Request \cup {NoRequest}
      BY <1>0 DEF TypeOK
    <2>2. c \in Clients /\ req[t].fields \in SUBSET Fields
      BY <1>5, <2>1, RequestFields DEF SaveProfile
    <2>3. manifest' = [manifest EXCEPT !.profile[c] = merged]
      BY <1>0, <1>5, ProfiledOne
    <2> HIDE DEF c, merged
    <2>4. /\ manifest'.posts = manifest.posts
          /\ manifest'.profile = [manifest.profile EXCEPT ![c] = merged]
      BY <1>0, <2>3 DEF Document
    <2>5. Index!SetProfile(c, req[t].fields)
      BY <1>5, <2>4 DEF SaveProfile, Index!SetProfile, c, merged, bounds, past
    <2> QED
      BY <2>2, <2>5 DEF Index!Next
  <1>6. ASSUME NEW t \in Threads, Publish(t) PROVE [Index!Next]_Index!vars
    <2>1. CASE MovePointer(t)
      <3>1. pointer' = manifest
        BY <1>0, <1>6, <2>1 DEF Publish, MovePointer, LockInv, Publishing
      <3>2. pointer' = [posts |-> manifest.posts, profile |-> manifest.profile]
        BY <1>0, <3>1 DEF Document
      <3> QED
        BY <1>6, <3>2 DEF Publish, Index!Publish, Index!Next, bounds
    <2>2. CASE SkipPointer
      BY <1>6, <2>2 DEF Publish, SkipPointer, Index!vars, bounds
    <2> QED
      BY <1>6, <2>1, <2>2 DEF Publish
  <1>7. ASSUME NEW t \in Threads, Rewrite(t) PROVE Index!Next
    <2>1. /\ manifest' = doc[t] /\ doc[t].profile = manifest.profile
          /\ SameRows(manifest.posts, doc[t].posts)
          /\ UNCHANGED <<pointer, erased, nextId>>
      BY <1>7 DEF Rewrite, WaitingReseals, bounds, past
    <2>2. manifest.posts \in SUBSET Entry /\ doc[t].posts \in SUBSET Entry
      BY <1>0 DEF TypeOK, Document
    <2>3. Index!Resealed(manifest.posts, manifest'.posts)
      BY <2>1, <2>2, SameRowsResealed
    <2>4. Index!Reseal
      BY <2>1, <2>3 DEF Index!Reseal
    <2> QED
      BY <2>4 DEF Index!Next
  <1> QED
    BY <1>0, <1>1, <1>2, <1>3, <1>4, <1>5, <1>6, <1>7, IndexMoves

(* The station implements the atomic index, approvals and removals of       *)
(* followers included: the world sees only indexes that were current at     *)
(* some moment, every change is one operation the owner asked for, and a    *)
(* re-wrap changes envelopes and nothing else, as long as nothing is saved  *)
(* while a re-wrap is about to save what it loaded before                   *)
(* (manifest.py:283-302, 337-356, 451-497; rewrap_envelopes.py:124-260).    *)
THEOREM ImplementsAtomicIndex ==
  ASSUME ~ ReadFaults
  PROVE  Spec /\ [][NothingSavedOver]_vars => ActsAsAtomicIndex
  <1>1. Init => Index!Init /\ WaitingReseals
    BY DEF Init, Index!Init, EmptyDocument, WaitingReseals
  <1>2. EditInv /\ WaitingReseals /\ [Next]_vars /\ [NothingSavedOver]_vars
          => WaitingReseals' /\ [Index!Next]_Index!vars
    BY ResealStep, AtomicStep
  <1> QED
    BY <1>1, <1>2, EditInvariant, PTL DEF Spec, ActsAsAtomicIndex, Index!Spec

(* One request at a time, or no approvals and removals: then no re-wrap     *)
(* waits while another request saves, and the lock is enough.               *)
Alone == (\E t : Threads = {t}) \/ Ops \cap {"approve", "remove"} = {}

NobodyRegrants ==
  \A t \in Threads : pc[t] \notin {"dropAllowed", "dropPending", "members", "rewrap", "rewrite"}

LEMMA NobodyRegrantsStep ==
  ASSUME Ops \cap {"approve", "remove"} = {}, TypeOK, NobodyRegrants, [Next]_vars
  PROVE  NobodyRegrants'
  <1> USE DEF files, store, locals, bounds, past
  <1>1. ASSUME NEW t \in Threads,
               \/ \E r \in Request : Start(t, r)
               \/ Edit(t) \/ ReadGraph(t) \/ CommitGraph(t) \/ Fault(t)
        PROVE  NobodyRegrants'
    <2>1. \E step \in {"load", "snapshot", "idle", "seal", "save", "publish", "unpin", "graph",
                       "commit"} : pc' = [pc EXCEPT ![t] = step]
      BY <1>1 DEF Start, StartPost, StartDelete, StartReshare, StartProfile, StartApprove,
                  StartRemove, Accept, Edit, Snapshot, Seal, Load, NotFound, SaveAppended,
                  SaveErased, SaveProfile, SaveDocument, Publish, Unpin, ReadGraph,
                  CommitGraph, Fault, Finish, Goto
    <2> QED
      BY <2>1 DEF TypeOK, NobodyRegrants
  <1>2. ASSUME NEW t \in Threads, DropRow(t) \/ ReadMembers(t) \/ Rewrap(t) \/ Rewrite(t)
        PROVE  FALSE
    BY <1>2 DEF DropRow, ReadMembers, Rewrap, Rewrite, NobodyRegrants
  <1>3. ASSUME (\E u \in Followers : FollowRequest(u)) \/ Crash \/ UNCHANGED vars
        PROVE  NobodyRegrants'
    BY <1>3 DEF FollowRequest, Crash, vars, NobodyRegrants
  <1> QED
    BY <1>1, <1>2, <1>3 DEF Next, Step, Regrant

LEMMA AloneSavesOverNothing ==
  ASSUME Alone PROVE Spec => [][NothingSavedOver]_vars
  <1> USE DEF NothingSavedOver, NoPostSavedOver, NoRemovalSavedOver, NoProfileSavedOver
  <1>1. CASE \E t : Threads = {t}
    <2>1. NothingSavedOver
      BY <1>1 DEF SaveAppended, SaveErased, SaveProfile
    <2> QED
      BY <2>1, PTL
  <1>2. CASE Ops \cap {"approve", "remove"} = {}
    <2>1. Init => NobodyRegrants
      BY DEF Init, NobodyRegrants
    <2>2. TypeOK /\ NobodyRegrants /\ [Next]_vars => NobodyRegrants'
      BY <1>2, NobodyRegrantsStep
    <2>3. NobodyRegrants => NothingSavedOver
      BY DEF NobodyRegrants
    <2> QED
      BY <2>1, <2>2, <2>3, TypeCorrect, PTL DEF Spec
  <1> QED
    BY <1>1, <1>2 DEF Alone

(* So the lock makes every operation atomic for requests one at a time, and *)
(* for any number of threads when nobody approves or removes a follower.    *)
THEOREM LockIsEnoughAlone ==
  ASSUME ~ ReadFaults, Alone
  PROVE  Spec => ActsAsAtomicIndex /\ []AckedPostsListed /\ []ErasedStaysErased
  <1>1. Spec => [][NoPostSavedOver]_vars /\ [][NoRemovalSavedOver]_vars
    <2>1. NothingSavedOver => NoPostSavedOver /\ NoRemovalSavedOver
      BY DEF NothingSavedOver
    <2> QED
      BY <2>1, AloneSavesOverNothing, PTL
  <1> QED
    BY <1>1, AloneSavesOverNothing, ImplementsAtomicIndex, AckedPostsStayListed,
       ErasedPostsStayErased, PTL
----------------------------------------------------------------------------
(* Envelopes.  What a thread is about to publish is sealed to the station   *)
(* and within the audience of its request, and every entry any thread holds *)
(* is well sealed, because a stale document may still be saved.             *)
Chosen(r) == IF r.mode = "all" THEN admitted
             ELSE IF r.mode = "specific" THEN Named(r.uids) \cap admitted
             ELSE {}

SealedWithin(to, uids) == Self \in to /\ to \subseteq {Self} \cup uids

WellSealed(e) ==
  IF e.mode = "public" THEN e.env = NoEnv
  ELSE e.env # NoEnv /\ SealedWithin(e.env.to, Audible(e))

ApprovedRows == \A u \in Followers : member[u] = "Allowed" => u \in admitted

DocumentsSealed ==
  /\ \A e \in manifest.posts \cup pointer.posts : WellSealed(e)
  /\ \A t \in Threads : \A e \in doc[t].posts : WellSealed(e)

Writes(t) == req[t].op \in {"post", "reshare"}

SealsWell(t) ==
  /\ pc[t] = "idle" => env[t] = NoEnv /\ ~ erasing[t]
  /\ erasing[t] => req[t].op \in {"delete", "reshare"}
  /\ pc[t] = "unpin" => erasing[t]
  /\ pc[t] = "snapshot" /\ req[t].op = "reshare" => erasing[t]
  /\ pc[t] \in {"snapshot", "seal"} => Writes(t) /\ req[t].mode # "public"
  /\ pc[t] \in {"seal", "load", "save", "publish", "unpin"} /\ Writes(t) =>
       (req[t].mode # "public" => SealedWithin(snap[t], Chosen(req[t])))
  /\ pc[t] \in {"load", "save"} /\ ~ erasing[t] /\ Writes(t) =>
       IF req[t].mode = "public" THEN env[t] = NoEnv
       ELSE env[t] # NoEnv /\ SealedWithin(env[t].to, Chosen(req[t]))
  /\ pc[t] \in {"dropAllowed", "dropPending", "members", "rewrap", "rewrite"} => ~ Writes(t)
  /\ pc[t] = "rewrap" => SealedWithin(snap[t], admitted)

SealRest == ApprovedRows /\ DocumentsSealed /\ \A t \in Threads : SealsWell(t)
SealInv == TypeOK /\ SealRest

LEMMA SealInit == Init => SealInv
  BY TypeInit
     DEF Init, SealInv, SealRest, ApprovedRows, DocumentsSealed, SealsWell, Writes,
         EmptyDocument, NoRequest

(* Approvals only widen what an entry or a request may be sealed to.        *)
LEMMA SealedMonotone ==
  ASSUME admitted \subseteq admitted'
  PROVE  /\ \A e : WellSealed(e) => WellSealed(e)'
         /\ \A r : Chosen(r) \subseteq Chosen(r)'
         /\ \A to, uids, more : uids \subseteq more /\ SealedWithin(to, uids)
                                => SealedWithin(to, more)
  BY DEF WellSealed, SealedWithin, Audible, Chosen

(* A thread that does not move keeps what it had.                           *)
LEMMA Bystander ==
  ASSUME NEW u, SealsWell(u), admitted \subseteq admitted',
         pc'[u] = pc[u], req'[u] = req[u], erasing'[u] = erasing[u],
         snap'[u] = snap[u], env'[u] = env[u]
  PROVE  SealsWell(u)'
  BY SealedMonotone DEF SealsWell, Writes, SealedWithin, Chosen

(* A thread that answers its request holds nothing.                         *)
LEMMA FinishSeals ==
  ASSUME TypeOK, NEW t \in Threads, Finish(t)
  PROVE  SealsWell(t)' /\ doc'[t].posts = {}
  BY DEF TypeOK, Finish, Goto, SealsWell, Writes, NoRequest, EmptyDocument

(* The rows read from the followers table are people the owner approved.    *)
LEMMA AllowedSealed == ApprovedRows => SealedWithin(Allowed, admitted)
  BY DEF ApprovedRows, Allowed, SealedWithin

LEMMA AudienceSealed ==
  ASSUME ApprovedRows, NEW r
  PROVE  SealedWithin(Audience(r.mode, r.uids), Chosen(r))
  BY DEF ApprovedRows, Audience, Allowed, SealedWithin, Chosen

(* One thread moves: it suffices that it stays sealed, that the documents   *)
(* it leaves are, and that the rows are approved ones.                      *)
LEMMA OneThreadMoves ==
  ASSUME SealInv, NEW t \in Threads, admitted \subseteq admitted', ApprovedRows',
         SealsWell(t)',
         \A u \in Threads \ {t} :
           /\ pc'[u] = pc[u] /\ req'[u] = req[u] /\ erasing'[u] = erasing[u]
           /\ doc'[u] = doc[u] /\ snap'[u] = snap[u] /\ env'[u] = env[u],
         \A e \in manifest'.posts \cup pointer'.posts \cup doc'[t].posts : WellSealed(e)'
  PROVE  SealRest'
  <1>1. \A u \in Threads \ {t} : SealsWell(u)'
    BY Bystander DEF SealInv, SealRest
  <1>2. \A u \in Threads \ {t} : \A e \in doc'[u].posts : WellSealed(e)'
    BY SealedMonotone DEF SealInv, SealRest, DocumentsSealed
  <1> QED
    BY <1>1, <1>2 DEF SealRest, DocumentsSealed

LEMMA SealStart ==
  ASSUME SealInv, NEW t \in Threads, NEW r \in Request, Start(t, r) PROVE SealRest'
  <1> USE DEF files, store, locals, bounds, past
  <1>1. /\ pc[t] = "idle" /\ req' = [req EXCEPT ![t] = r]
        /\ UNCHANGED <<manifest, pointer, doc, snap, env>>
    BY DEF Start, StartPost, StartDelete, StartReshare, StartProfile, StartApprove,
           StartRemove, Accept
  <1>2. admitted \subseteq admitted'
    BY DEF Start, StartPost, StartDelete, StartReshare, StartProfile, StartApprove, StartRemove
  <1>3. ApprovedRows'
    BY DEF Start, StartPost, StartDelete, StartReshare, StartProfile, StartApprove,
           StartRemove, ApprovedRows, SealInv, SealRest, TypeOK
  <1>4. env[t] = NoEnv /\ ~ erasing[t]
    BY <1>1 DEF SealInv, SealRest, SealsWell
  <1>5. SealsWell(t)'
    <2>1. CASE StartPost(t, r)
      BY <1>1, <1>4, <2>1 DEF StartPost, Goto, SealsWell, Writes, SealInv, TypeOK
    <2>2. CASE StartReshare(t, r)
      <3>1. r.mode # "public"
        BY <2>2 DEF StartReshare, Request, Addressed
      <3> QED
        BY <1>1, <2>2, <3>1 DEF StartReshare, Goto, SealsWell, Writes, SealInv, TypeOK
    <2>3. CASE StartDelete(t, r) \/ StartProfile(t, r)
      BY <1>1, <1>4, <2>3
         DEF StartDelete, StartProfile, Goto, SealsWell, Writes, SealInv, TypeOK
    <2>4. CASE StartApprove(t, r) \/ StartRemove(t, r)
      BY <1>1, <1>4, <2>4
         DEF StartApprove, StartRemove, DropStep, Goto, SealsWell, Writes, SealInv, TypeOK
    <2> QED
      BY <2>1, <2>2, <2>3, <2>4 DEF Start
  <1>6. \A u \in Threads \ {t} :
           pc'[u] = pc[u] /\ req'[u] = req[u] /\ erasing'[u] = erasing[u]
    BY <1>1 DEF Start, StartPost, StartDelete, StartReshare, StartProfile, StartApprove,
                StartRemove, Goto, SealInv, TypeOK
  <1>7. \A e \in manifest'.posts \cup pointer'.posts \cup doc'[t].posts : WellSealed(e)'
    BY <1>1, <1>2, SealedMonotone DEF SealInv, SealRest, DocumentsSealed
  <1> QED
    BY <1>1, <1>2, <1>3, <1>5, <1>6, <1>7, OneThreadMoves

(* Steps that change no file and load no document.                          *)
LEMMA SealQuiet ==
  ASSUME SealInv, NEW t \in Threads, SealsWell(t)', admitted' = admitted, ApprovedRows',
         \A u \in Threads \ {t} :
           /\ pc'[u] = pc[u] /\ req'[u] = req[u] /\ erasing'[u] = erasing[u]
           /\ doc'[u] = doc[u] /\ snap'[u] = snap[u] /\ env'[u] = env[u],
         UNCHANGED <<manifest, pointer>>,
         doc'[t] = doc[t] \/ doc'[t].posts = {}
  PROVE  SealRest'
  <1>1. \A e \in manifest'.posts \cup pointer'.posts \cup doc'[t].posts : WellSealed(e)'
    BY SealedMonotone DEF SealInv, SealRest, DocumentsSealed
  <1> QED
    BY <1>1, OneThreadMoves

LEMMA SealEdit ==
  ASSUME SealInv, NEW t \in Threads, Edit(t) PROVE SealRest'
  <1> USE DEF files, store, locals, bounds, past
  <1>0. /\ TypeOK /\ ApprovedRows /\ DocumentsSealed /\ SealsWell(t)
        /\ req[t] \in Request \cup {NoRequest}
    BY DEF SealInv, SealRest, TypeOK
  <1>1. req[t].op = "reshare" => req[t].mode # "public"
    BY <1>0 DEF Request, Addressed, NoRequest
  <1>2. UNCHANGED <<member, admitted>>
    BY DEF Edit, Snapshot, Seal, Load, NotFound, SaveAppended, SaveErased, SaveProfile,
           Publish, Unpin
  <1>3. ApprovedRows'
    BY <1>0, <1>2 DEF ApprovedRows
  <1>4. \A u \in Threads \ {t} :
           /\ pc'[u] = pc[u] /\ req'[u] = req[u] /\ erasing'[u] = erasing[u]
           /\ doc'[u] = doc[u] /\ snap'[u] = snap[u] /\ env'[u] = env[u]
    BY <1>0 DEF Edit, Snapshot, Seal, Load, NotFound, SaveAppended, SaveErased, SaveProfile,
                SaveDocument, Publish, Unpin, Finish, Goto, TypeOK
  <1>5. CASE Snapshot(t)
    <2>1. CASE Finish(t)
      BY <1>0, <1>2, <1>3, <1>4, <1>5, <2>1, FinishSeals, SealQuiet DEF Snapshot
    <2>2. CASE ~ Finish(t)
      <3>1. /\ pc[t] = "snapshot"
            /\ snap' = [snap EXCEPT ![t] = Audience(req[t].mode, req[t].uids)]
            /\ pc' = [pc EXCEPT ![t] = IF req[t].op = "post" THEN "seal" ELSE "load"]
            /\ UNCHANGED <<manifest, pointer, req, erasing, doc, env>>
        BY <1>5, <2>2 DEF Snapshot, Goto
      <3>2. SealedWithin(snap'[t], Chosen(req[t]))
        BY <1>0, <3>1, AudienceSealed DEF TypeOK
      <3>3. Chosen(req[t])' = Chosen(req[t])
        BY <1>2, <3>1 DEF Chosen
      <3>4. SealsWell(t)'
        BY <1>0, <3>1, <3>2, <3>3 DEF SealsWell, Writes, TypeOK
      <3> QED
        BY <1>2, <1>3, <1>4, <3>1, <3>4, SealQuiet
    <2> QED
      BY <2>1, <2>2
  <1>6. CASE Seal(t)
    <2>1. CASE Finish(t)
      BY <1>0, <1>2, <1>3, <1>4, <1>6, <2>1, FinishSeals, SealQuiet DEF Seal
    <2>2. CASE ~ Finish(t)
      <3>1. /\ pc[t] = "seal"
            /\ env' = [env EXCEPT ![t] = Sealed(t)]
            /\ pc' = [pc EXCEPT ![t] = "load"]
            /\ UNCHANGED <<manifest, pointer, req, snap, doc>>
            /\ erasing' = [erasing EXCEPT ![t] = FALSE]
        BY <1>6, <2>2 DEF Seal, Goto
      <3>2. Sealed(t) # NoEnv /\ Sealed(t).to = snap[t]
        <4>1. Sealed(t) \in Envelope
          BY <1>0 DEF Sealed, Envelope, TypeOK
        <4> QED
          BY <4>1, NoEnvelope DEF Sealed
      <3>3. Chosen(req[t])' = Chosen(req[t])
        BY <1>2, <3>1 DEF Chosen
      <3>4. SealsWell(t)'
        BY <1>0, <3>1, <3>2, <3>3 DEF SealsWell, Writes, TypeOK
      <3> QED
        BY <1>2, <1>3, <1>4, <3>1, <3>4, SealQuiet
    <2> QED
      BY <2>1, <2>2
  <1>7. CASE NotFound(t) \/ Unpin(t)
    <2>1. CASE Finish(t)
      BY <1>0, <1>2, <1>3, <1>4, <1>7, <2>1, FinishSeals, SealQuiet DEF NotFound, Unpin
    <2>2. CASE ~ Finish(t)
      <3>1. /\ pc[t] \in {"load", "unpin"} /\ erasing[t] /\ req[t].op = "reshare"
            /\ pc' = [pc EXCEPT ![t] = "seal"]
            /\ UNCHANGED <<manifest, pointer, req, erasing, snap, env, doc>>
        BY <1>0, <1>7, <2>2 DEF NotFound, Unpin, Missing, Goto, SealsWell
      <3>2. Chosen(req[t])' = Chosen(req[t])
        BY <1>2, <3>1 DEF Chosen
      <3>3. SealsWell(t)'
        BY <1>0, <1>1, <3>1, <3>2 DEF SealsWell, Writes, TypeOK
      <3> QED
        BY <1>2, <1>3, <1>4, <3>1, <3>3, SealQuiet
    <2> QED
      BY <2>1, <2>2
  <1>8. CASE Load(t) \/ SaveAppended(t) \/ SaveErased(t) \/ SaveProfile(t)
    <2>0. UNCHANGED <<pointer, req, erasing, snap, env>>
      BY <1>8 DEF Load, SaveAppended, SaveErased, SaveProfile
    <2>1. \/ pc[t] = "load" /\ pc' = [pc EXCEPT ![t] = "save"]
          \/ pc[t] = "save" /\ pc' = [pc EXCEPT ![t] = "publish"]
      BY <1>8 DEF Load, SaveAppended, SaveErased, SaveProfile, SaveDocument, Goto
    <2>2. Chosen(req[t])' = Chosen(req[t])
      BY <1>2, <2>0 DEF Chosen
    <2>3. SealsWell(t)'
      BY <1>0, <2>0, <2>1, <2>2 DEF SealsWell, Writes, TypeOK
    <2>4. \A e \in manifest'.posts \cup doc'[t].posts : WellSealed(e)
      <3>1. CASE Load(t)
        BY <1>0, <3>1 DEF Load, Loadable, EmptyDocument, DocumentsSealed, TypeOK
      <3>2. CASE SaveAppended(t)
        <4>1. WellSealed(NewEntry(t))
          BY <1>0, <3>2 DEF SaveAppended, SealsWell, Writes, WellSealed, NewEntry, Audible,
                            Chosen, SealedWithin
        <4>2. /\ manifest' = [doc[t] EXCEPT !.posts = doc[t].posts \cup {NewEntry(t)}]
              /\ doc'[t] = manifest'
          BY <1>0, <3>2 DEF SaveAppended, SaveDocument, TypeOK
        <4>3. manifest'.posts = doc[t].posts \cup {NewEntry(t)}
          BY <1>0, <4>2 DEF TypeOK, Document
        <4> QED
          BY <1>0, <4>1, <4>2, <4>3 DEF DocumentsSealed
      <3>3. CASE SaveErased(t) \/ SaveProfile(t)
        <4>1. manifest'.posts \subseteq doc[t].posts /\ doc'[t] = manifest'
          <5>1. /\ doc[t] \in Document
                /\ \A d : SaveDocument(t, d) => manifest' = d /\ doc'[t] = d
            BY <1>0 DEF SaveDocument, TypeOK
          <5>2. CASE SaveErased(t)
            BY <5>1, <5>2 DEF SaveErased, Document
          <5>3. CASE SaveProfile(t)
            BY <5>1, <5>3 DEF SaveProfile, Document
          <5> QED
            BY <3>3, <5>2, <5>3
        <4> QED
          BY <1>0, <4>1 DEF DocumentsSealed
      <3> QED
        BY <1>8, <3>1, <3>2, <3>3
    <2>5. \A e \in manifest'.posts \cup pointer'.posts \cup doc'[t].posts : WellSealed(e)'
      BY <1>0, <1>2, <2>0, <2>4, SealedMonotone DEF DocumentsSealed
    <2> QED
      BY <1>2, <1>3, <1>4, <2>3, <2>5, OneThreadMoves
  <1>9. CASE Publish(t)
    <2>0. pointer' = doc[t] \/ pointer' = pointer
      BY <1>9 DEF Publish, MovePointer, SkipPointer
    <2>1. /\ pc[t] = "publish" /\ manifest' = manifest
          /\ doc'[t] = doc[t] \/ doc'[t].posts = {}
      BY <1>0, <1>9 DEF Publish, Finish, EmptyDocument, TypeOK
    <2>2. SealsWell(t)'
      <3>1. CASE Finish(t)
        BY <1>0, <3>1, FinishSeals
      <3>2. CASE ~ Finish(t)
        <4>1. /\ UNCHANGED <<req, erasing, snap, env>>
              /\ \/ erasing[t] /\ pc' = [pc EXCEPT ![t] = "unpin"]
                 \/ pc' = [pc EXCEPT ![t] = "graph"]
          BY <1>9, <3>2 DEF Publish, Goto
        <4>2. Chosen(req[t])' = Chosen(req[t])
          BY <1>2, <4>1 DEF Chosen
        <4> QED
          BY <1>0, <2>1, <4>1, <4>2 DEF SealsWell, Writes, TypeOK
      <3> QED
        BY <3>1, <3>2
    <2>3. \A e \in manifest'.posts \cup pointer'.posts \cup doc'[t].posts : WellSealed(e)'
      <3>1. \A e \in pointer'.posts : WellSealed(e)
        BY <1>0, <2>0 DEF DocumentsSealed
      <3>2. \A e \in manifest'.posts \cup doc'[t].posts : WellSealed(e)
        BY <1>0, <2>1 DEF DocumentsSealed
      <3> QED
        BY <1>2, <3>1, <3>2, SealedMonotone
    <2> QED
      BY <1>2, <1>3, <1>4, <2>2, <2>3, OneThreadMoves
  <1> QED
    BY <1>5, <1>6, <1>7, <1>8, <1>9 DEF Edit

LEMMA SealRegrant ==
  ASSUME SealInv, NEW t \in Threads, Regrant(t) \/ Fault(t) PROVE SealRest'
  <1> USE DEF files, store, locals, bounds, past
  <1>0. /\ TypeOK /\ ApprovedRows /\ DocumentsSealed /\ SealsWell(t)
    BY DEF SealInv, SealRest
  <1>1. admitted' = admitted
    BY DEF Regrant, DropRow, ReadMembers, Rewrap, Rewrite, ReadGraph, CommitGraph, Fault
  <1>2. ApprovedRows'
    BY <1>0, <1>1 DEF Regrant, DropRow, ReadMembers, Rewrap, Rewrite, ReadGraph, CommitGraph,
                      Fault, ApprovedRows, TypeOK
  <1>3. \A u \in Threads \ {t} :
           /\ pc'[u] = pc[u] /\ req'[u] = req[u] /\ erasing'[u] = erasing[u]
           /\ doc'[u] = doc[u] /\ snap'[u] = snap[u] /\ env'[u] = env[u]
    BY <1>0 DEF Regrant, DropRow, ReadMembers, Rewrap, Rewrite, ReadGraph, CommitGraph,
                Fault, Finish, Goto, TypeOK
  <1>4. CASE DropRow(t) \/ CommitGraph(t) \/ Fault(t)
    <2>1. UNCHANGED <<manifest, pointer>>
      BY <1>4 DEF DropRow, CommitGraph, Fault
    <2>2. CASE Finish(t)
      BY <1>0, <1>1, <1>2, <1>3, <2>1, <2>2, FinishSeals, SealQuiet
    <2>3. CASE ~ Finish(t)
      <3>1. /\ pc[t] # "idle"
            /\ \/ pc[t] = "dropAllowed" /\ pc' = [pc EXCEPT ![t] = "members"]
               \/ pc' = [pc EXCEPT ![t] = "graph"]
            /\ UNCHANGED <<req, erasing, doc, snap, env>>
        BY <1>4, <2>3 DEF DropRow, CommitGraph, Fault, Goto
      <3>2. SealsWell(t)'
        BY <1>0, <3>1 DEF SealsWell, Writes, TypeOK
      <3> QED
        BY <1>1, <1>2, <1>3, <2>1, <3>1, <3>2, SealQuiet
    <2> QED
      BY <2>2, <2>3
  <1>5. CASE ReadMembers(t) \/ ReadGraph(t)
    <2>1. /\ snap' = [snap EXCEPT ![t] = Allowed]
          /\ \/ pc[t] = "members" /\ pc' = [pc EXCEPT ![t] = "rewrap"]
             \/ pc' = [pc EXCEPT ![t] = "commit"]
          /\ UNCHANGED <<manifest, pointer, req, erasing, doc, env>>
      BY <1>5 DEF ReadMembers, ReadGraph, Goto
    <2>2. SealedWithin(snap'[t], admitted')
      BY <1>0, <1>1, <2>1, AllowedSealed DEF TypeOK
    <2>3. SealsWell(t)'
      BY <1>0, <2>1, <2>2 DEF SealsWell, Writes, TypeOK
    <2> QED
      BY <1>1, <1>2, <1>3, <2>1, <2>3, SealQuiet
  <1>6. CASE Rewrap(t)
    <2> DEFINE Fresh(done) == {Rewrapped(e, seals + 1, snap[t]) : e \in done}
    <2>1. PICK d \in Loadable : \E done \in SUBSET Rewrappable(d.posts) :
            doc' = [doc EXCEPT ![t] = [d EXCEPT !.posts = (d.posts \ done) \cup Fresh(done)]]
      BY <1>6 DEF Rewrap
    <2>2. PICK done \in SUBSET Rewrappable(d.posts) :
            doc' = [doc EXCEPT ![t] = [d EXCEPT !.posts = (d.posts \ done) \cup Fresh(done)]]
      BY <2>1
    <2>3. d \in Document /\ \A e \in d.posts : WellSealed(e)
      BY <1>0, LoadableType DEF Loadable, EmptyDocument, DocumentsSealed
    <2>4. SealedWithin(snap[t], admitted)
      BY <1>0, <1>6 DEF Rewrap, SealsWell
    <2>5. ASSUME NEW e \in done PROVE WellSealed(Rewrapped(e, seals + 1, snap[t]))
      <3> DEFINE n == [by |-> seals + 1, of |-> e.id, to |-> snap[t]]
      <3>1. e \in Entry /\ e.id \in Nat /\ e.mode = "all"
        BY <2>3 DEF Rewrappable, Document, Entry
      <3>2. n \in Envelope
        BY <1>0, <3>1 DEF Envelope, TypeOK
      <3>3. n # NoEnv /\ n.to = snap[t]
        BY <3>2, NoEnvelope
      <3>4. /\ Rewrapped(e, seals + 1, snap[t]).env = n
            /\ Rewrapped(e, seals + 1, snap[t]).mode = "all"
        BY <3>1 DEF Rewrapped, Entry
      <3> HIDE DEF n
      <3> QED
        BY <2>4, <3>3, <3>4 DEF WellSealed, Audible
    <2>6. doc'[t].posts = (d.posts \ done) \cup Fresh(done)
      BY <1>0, <2>2, <2>3 DEF TypeOK, Document
    <2>7. \A e \in doc'[t].posts : WellSealed(e)
      BY <2>3, <2>5, <2>6
    <2>8. /\ pc[t] = "rewrap" /\ pc' = [pc EXCEPT ![t] = "rewrite"]
          /\ UNCHANGED <<manifest, pointer, req, erasing, snap, env>>
      BY <1>6 DEF Rewrap, Goto
    <2>9. SealsWell(t)'
      BY <1>0, <2>8 DEF SealsWell, Writes, TypeOK
    <2>10. \A e \in manifest'.posts \cup pointer'.posts \cup doc'[t].posts : WellSealed(e)'
      BY <1>0, <1>1, <2>7, <2>8, SealedMonotone DEF DocumentsSealed
    <2> QED
      BY <1>1, <1>2, <1>3, <2>9, <2>10, OneThreadMoves
  <1>7. CASE Rewrite(t)
    <2>1. /\ manifest' = doc[t] /\ pc' = [pc EXCEPT ![t] = "publish"] /\ pc[t] = "rewrite"
          /\ UNCHANGED <<pointer, req, erasing, doc, snap, env>>
      BY <1>7 DEF Rewrite, Goto
    <2>2. ~ Writes(t)
      BY <1>0, <2>1 DEF SealsWell
    <2>3. SealsWell(t)'
      BY <1>0, <2>1, <2>2 DEF SealsWell, Writes, TypeOK
    <2>4. \A e \in manifest'.posts \cup pointer'.posts \cup doc'[t].posts : WellSealed(e)'
      BY <1>0, <1>1, <2>1, SealedMonotone DEF DocumentsSealed
    <2> QED
      BY <1>1, <1>2, <1>3, <2>3, <2>4, OneThreadMoves
  <1> QED
    BY <1>4, <1>5, <1>6, <1>7 DEF Regrant

LEMMA SealStep == SealInv /\ [Next]_vars => SealInv'
  <1> SUFFICES ASSUME SealInv, [Next]_vars PROVE SealInv'
    OBVIOUS
  <1> USE DEF files, store, locals, bounds, past
  <1>0. TypeOK'
    BY TypeStep DEF SealInv
  <1>1. ASSUME NEW u \in Followers, FollowRequest(u) PROVE SealRest'
    <2>1. UNCHANGED <<manifest, pointer, pc, req, erasing, doc, snap, env, admitted>>
      BY <1>1 DEF FollowRequest
    <2>2. ApprovedRows'
      BY <1>1 DEF FollowRequest, ApprovedRows, SealInv, SealRest, TypeOK
    <2>3. \A t \in Threads : SealsWell(t)'
      BY <2>1, Bystander DEF SealInv, SealRest
    <2> QED
      BY <2>1, <2>2, <2>3, SealedMonotone DEF SealInv, SealRest, DocumentsSealed
  <1>2. ASSUME Crash PROVE SealRest'
    <2>1. /\ UNCHANGED <<manifest, pointer, member, admitted>>
          /\ \A t \in Threads : /\ pc'[t] = "idle" /\ req'[t] = NoRequest /\ erasing'[t] = FALSE
                                /\ doc'[t] = EmptyDocument /\ env'[t] = NoEnv
      BY <1>2 DEF Crash
    <2>2. ApprovedRows'
      BY <2>1 DEF ApprovedRows, SealInv, SealRest
    <2>3. \A t \in Threads : SealsWell(t)'
      BY <2>1 DEF SealsWell, Writes, NoRequest
    <2> QED
      BY <2>1, <2>2, <2>3, SealedMonotone
         DEF SealInv, SealRest, DocumentsSealed, EmptyDocument
  <1>3. ASSUME UNCHANGED vars PROVE SealRest'
    <2>1. UNCHANGED <<manifest, pointer, member, pc, req, erasing, doc, snap, env, admitted>>
      BY <1>3 DEF vars
    <2>2. \A t \in Threads : SealsWell(t)'
      BY <2>1, Bystander DEF SealInv, SealRest
    <2> QED
      BY <2>1, <2>2, SealedMonotone DEF SealInv, SealRest, DocumentsSealed, ApprovedRows
  <1>4. SealRest'
    BY <1>1, <1>2, <1>3, SealStart, SealEdit, SealRegrant DEF Next, Step
  <1> QED
    BY <1>0, <1>4 DEF SealInv

LEMMA SealInvariant == Spec => []SealInv
  BY SealInit, SealStep, PTL DEF Spec

(* Whatever interleaves or fails, even a manifest that cannot be read, the  *)
(* station can open every encrypted post it lists (PROTOCOL.md 6.5).        *)
THEOREM StationCanAlwaysReopen == Spec => []StationCanReopen
  <1>1. SealInv => StationCanReopen
    BY DEF SealInv, SealRest, DocumentsSealed, WellSealed, SealedWithin, StationCanReopen
  <1> QED
    BY SealInvariant, <1>1, PTL

(* ... and no key is sealed for anybody outside the audience the owner      *)
(* chose or whom the owner never approved, in the manifest on disk or in    *)
(* the published one (rewrap_envelopes.py:143-154, posts.py:104-143).       *)
THEOREM AudienceAlwaysRespected == Spec => []AudienceRespected
  <1>1. SealInv => AudienceRespected
    BY DEF SealInv, SealRest, DocumentsSealed, WellSealed, SealedWithin, AudienceRespected
  <1> QED
    BY SealInvariant, <1>1, PTL

----------------------------------------------------------------------------
(* Content.  Whatever document a thread holds, old ones included, and       *)
(* whatever content it is about to list, was pinned once; only the owner's  *)
(* delete or re-share of an entry with that content can have unpinned it.   *)
Backed == pinned \cup {x.cid : x \in erased}

ContentHeld ==
  /\ \A e \in manifest.posts : e.cid \in Backed
  /\ \A t \in Threads : \A e \in doc[t].posts : e.cid \in Backed
  /\ \A t \in Threads : Writes(t) => req[t].cid \in Backed
  /\ \A t \in Threads : pc[t] = "idle" => touched[t] = {}
  /\ \A t \in Threads : erasing[t] => touched[t] \subseteq erased

LEMMA ContentInit == Init => ContentHeld
  BY DEF Init, ContentHeld, EmptyDocument, Writes, NoRequest

(* One thread moves: it suffices that nothing is unpinned that was not      *)
(* erased, and that what the thread leaves is pinned or erased.             *)
LEMMA ContentMoves ==
  ASSUME ContentHeld, NEW t \in Threads,
         Backed \subseteq Backed', erased \subseteq erased',
         \A e \in manifest'.posts \cup doc'[t].posts : e.cid \in Backed',
         Writes(t)' => req'[t].cid \in Backed',
         pc'[t] = "idle" => touched'[t] = {},
         erasing'[t] => touched'[t] \subseteq erased',
         \A u \in Threads \ {t} :
           /\ doc'[u] = doc[u] /\ req'[u] = req[u] /\ pc'[u] = pc[u]
           /\ touched'[u] = touched[u] /\ erasing'[u] = erasing[u]
  PROVE  ContentHeld'
  BY DEF ContentHeld, Writes

(* A thread that answers its request leaves nothing to be backed.           *)
LEMMA ContentFinish ==
  ASSUME TypeOK, ContentHeld, NEW t \in Threads, Finish(t), manifest' = manifest,
         Backed \subseteq Backed', erased' = erased
  PROVE  ContentHeld'
  <1>1. /\ doc'[t].posts = {} /\ req'[t].op = "none" /\ touched'[t] = {} /\ erasing'[t] = FALSE
        /\ \A u \in Threads \ {t} :
             /\ doc'[u] = doc[u] /\ req'[u] = req[u] /\ pc'[u] = pc[u]
             /\ touched'[u] = touched[u] /\ erasing'[u] = erasing[u]
    BY DEF TypeOK, Finish, Goto, EmptyDocument, NoRequest
  <1>2. \A e \in manifest'.posts : e.cid \in Backed'
    BY DEF ContentHeld
  <1> QED
    BY <1>1, <1>2, ContentMoves DEF Writes

(* Nor does a step that only moves on, with envelopes, rows or the pointer. *)
LEMMA ContentMovesOn ==
  ASSUME TypeOK, ContentHeld, NEW t \in Threads, NEW step, step # "idle",
         pc' = [pc EXCEPT ![t] = step], UNCHANGED <<manifest, doc, req, touched, erased>>,
         erasing' = erasing \/ erasing' = [erasing EXCEPT ![t] = FALSE],
         Backed \subseteq Backed'
  PROVE  ContentHeld'
  <1>1. pc'[t] # "idle" /\ \A u \in Threads \ {t} : pc'[u] = pc[u] /\ erasing'[u] = erasing[u]
    BY DEF TypeOK
  <1>2. erasing'[t] => erasing[t]
    BY DEF TypeOK
  <1>3. \A e \in manifest'.posts \cup doc'[t].posts : e.cid \in Backed'
    BY DEF ContentHeld
  <1>4. Writes(t)' => req'[t].cid \in Backed'
    BY DEF ContentHeld, Writes
  <1>5. erasing'[t] => touched'[t] \subseteq erased'
    BY <1>2 DEF ContentHeld
  <1> QED
    BY <1>1, <1>3, <1>4, <1>5, ContentMoves

LEMMA ContentStart ==
  ASSUME TypeOK, ContentHeld, NEW t \in Threads, NEW r \in Request, Start(t, r)
  PROVE  ContentHeld'
  <1> USE DEF files, store, locals, bounds, past
  <1>1. /\ pc[t] = "idle" /\ req' = [req EXCEPT ![t] = r]
        /\ UNCHANGED <<manifest, doc, touched, erased>>
        /\ \E step \in {"load", "snapshot", "members", "dropAllowed", "dropPending"} :
             pc' = [pc EXCEPT ![t] = step]
        /\ erasing' = erasing \/ erasing' = [erasing EXCEPT ![t] = TRUE]
    BY DEF Start, StartPost, StartDelete, StartReshare, StartProfile,
           StartApprove, StartRemove, DropStep, Accept, Goto
  <1>2. Backed \subseteq Backed'
    BY <1>1 DEF Start, StartPost, StartDelete, StartReshare, StartProfile,
                StartApprove, StartRemove, Backed, Add
  <1>3. r.op = "post" => r.cid \in Backed'
    BY DEF Start, StartPost, StartDelete, StartReshare, StartProfile,
           StartApprove, StartRemove, Backed, Add
  <1>4. r.op = "reshare" => \E e \in manifest.posts : e.cid = r.cid
    BY DEF Start, StartPost, StartDelete, StartReshare, StartProfile,
           StartApprove, StartRemove, FirstMatches, Matches
  <1>5. Writes(t)' => req'[t].cid \in Backed'
    BY <1>1, <1>2, <1>3, <1>4 DEF Writes, TypeOK, ContentHeld
  <1>6. touched'[t] = {} /\ pc'[t] # "idle"
    BY <1>1 DEF ContentHeld, TypeOK
  <1>7. \A u \in Threads \ {t} :
          /\ doc'[u] = doc[u] /\ req'[u] = req[u] /\ pc'[u] = pc[u]
          /\ touched'[u] = touched[u] /\ erasing'[u] = erasing[u]
    BY <1>1 DEF TypeOK
  <1>8. \A e \in manifest'.posts \cup doc'[t].posts : e.cid \in Backed'
    BY <1>1, <1>2 DEF ContentHeld
  <1> QED
    BY <1>1, <1>2, <1>5, <1>6, <1>7, <1>8, ContentMoves

LEMMA ContentSave ==
  ASSUME TypeOK, ContentHeld, NEW t \in Threads,
         SaveAppended(t) \/ SaveErased(t) \/ SaveProfile(t)
  PROVE  ContentHeld'
  <1> USE DEF files, store, locals, bounds, past
  <1>1. /\ manifest' = doc'[t] /\ UNCHANGED <<req, erasing, pinned>> /\ pc'[t] # "idle"
        /\ \A u \in Threads \ {t} :
             doc'[u] = doc[u] /\ pc'[u] = pc[u] /\ touched'[u] = touched[u]
    BY DEF SaveAppended, SaveErased, SaveProfile, SaveDocument, Goto, TypeOK
  <1>2. doc[t] \in Document /\ doc[t].posts \subseteq Entry
    BY DEF TypeOK, Document
  <1>3. Backed \subseteq Backed' /\ erased \subseteq erased'
    BY <1>1 DEF SaveAppended, SaveErased, SaveProfile, Backed
  <1>4. \A e \in doc'[t].posts : e \in doc[t].posts \/ (Writes(t) /\ e.cid = req[t].cid)
    <2>1. CASE SaveAppended(t)
      <3>1. doc'[t] = [doc[t] EXCEPT !.posts = doc[t].posts \cup {NewEntry(t)}]
        BY <2>1 DEF SaveAppended, SaveDocument, TypeOK
      <3>2. NewEntry(t).cid = req[t].cid /\ Writes(t)
        BY <2>1 DEF NewEntry, SaveAppended, Writes
      <3>3. doc'[t].posts = doc[t].posts \cup {NewEntry(t)}
        BY <1>2, <3>1 DEF Document
      <3> QED
        BY <3>2, <3>3
    <2>2. CASE SaveErased(t)
      <3>1. \E e : doc'[t] = [doc[t] EXCEPT !.posts = doc[t].posts \ {e}]
        BY <2>2 DEF SaveErased, SaveDocument, TypeOK
      <3> QED
        BY <1>2, <3>1 DEF Document
    <2>3. CASE SaveProfile(t)
      <3>1. \E p : doc'[t] = [doc[t] EXCEPT !.profile = p]
        BY <2>3 DEF SaveProfile, SaveDocument, TypeOK
      <3> QED
        BY <1>2, <3>1 DEF Document
    <2> QED
      BY <2>1, <2>2, <2>3
  <1>5. \A e \in manifest'.posts \cup doc'[t].posts : e.cid \in Backed'
    BY <1>1, <1>3, <1>4 DEF ContentHeld
  <1>6. erasing'[t] => touched'[t] \subseteq erased'
    <2>1. CASE SaveAppended(t)
      BY <2>1 DEF SaveAppended
    <2>2. CASE SaveErased(t)
      <3>1. \E e : touched'[t] = {e} /\ e \in erased'
        BY <2>2 DEF SaveErased, TypeOK
      <3> QED
        BY <3>1
    <2>3. CASE SaveProfile(t)
      BY <2>3 DEF SaveProfile, ContentHeld
    <2> QED
      BY <2>1, <2>2, <2>3
  <1>7. Writes(t)' => req'[t].cid \in Backed'
    BY <1>1, <1>3 DEF Writes, ContentHeld
  <1> QED
    BY <1>1, <1>3, <1>5, <1>6, <1>7, ContentMoves

LEMMA ContentStep == SealInv /\ ContentHeld /\ [Next]_vars => ContentHeld'
  <1> SUFFICES ASSUME SealInv, ContentHeld, [Next]_vars PROVE ContentHeld'
    OBVIOUS
  <1> USE DEF files, store, locals, bounds, past
  <1>0. TypeOK
    BY DEF SealInv
  <1>1. ASSUME NEW t \in Threads, NEW r \in Request, Start(t, r) PROVE ContentHeld'
    BY <1>0, <1>1, ContentStart
  <1>2. ASSUME NEW t \in Threads, SaveAppended(t) \/ SaveErased(t) \/ SaveProfile(t)
        PROVE  ContentHeld'
    BY <1>0, <1>2, ContentSave
  <1>3. UNCHANGED <<pinned, erased>> => Backed' = Backed
    BY DEF Backed
  <1>4. ASSUME NEW t \in Threads,
               Snapshot(t) \/ Seal(t) \/ NotFound(t) \/ Publish(t) \/ DropRow(t)
                 \/ ReadMembers(t) \/ ReadGraph(t) \/ CommitGraph(t) \/ Fault(t)
        PROVE  ContentHeld'
    <2>1. UNCHANGED <<manifest, pinned, erased>>
      BY <1>4 DEF Snapshot, Seal, NotFound, Publish, DropRow, ReadMembers, ReadGraph,
                  CommitGraph, Fault
    <2>2. \/ Finish(t)
          \/ /\ \E step \in {"seal", "load", "unpin", "graph", "members", "rewrap", "commit"} :
                  pc' = [pc EXCEPT ![t] = step]
             /\ UNCHANGED <<doc, req, touched>>
             /\ erasing' = erasing \/ erasing' = [erasing EXCEPT ![t] = FALSE]
      BY <1>4 DEF Snapshot, Seal, NotFound, Publish, DropRow, ReadMembers, ReadGraph,
                  CommitGraph, Fault, Goto
    <2> QED
      BY <1>0, <1>3, <2>1, <2>2, ContentFinish, ContentMovesOn
  <1>5. ASSUME NEW t \in Threads, Unpin(t) PROVE ContentHeld'
    <2>1. \A x \in touched[t] : x \in erased
      BY <1>5 DEF Unpin, SealInv, SealRest, SealsWell, ContentHeld
    <2>2. pinned \ {x.cid : x \in touched[t]} \subseteq pinned' /\ erased' = erased
      BY <1>5 DEF Unpin
    <2>3. Backed \subseteq Backed'
      BY <2>1, <2>2 DEF Backed
    <2>4. Finish(t) \/ (pc' = [pc EXCEPT ![t] = "seal"] /\ UNCHANGED locals)
      BY <1>5 DEF Unpin, Goto
    <2>5. manifest' = manifest
      BY <1>5 DEF Unpin
    <2> QED
      BY <1>0, <2>2, <2>3, <2>4, <2>5, ContentFinish, ContentMovesOn
  <1>6. ASSUME NEW t \in Threads, Load(t) \/ Rewrap(t) PROVE ContentHeld'
    <2>1. /\ UNCHANGED <<manifest, pinned, erased, req, touched, erasing>>
          /\ pc'[t] # "idle"
          /\ \A u \in Threads \ {t} : doc'[u] = doc[u] /\ pc'[u] = pc[u]
      BY <1>0, <1>6 DEF Load, Rewrap, Goto, TypeOK
    <2>2. \A e \in doc'[t].posts : \E f \in manifest.posts : e.cid = f.cid
      <3>1. \A d \in Loadable : d \in Document /\ d.posts \subseteq manifest.posts
        BY <1>0, LoadableType DEF Loadable, EmptyDocument
      <3>2. CASE Load(t)
        BY <1>0, <3>1, <3>2 DEF Load, TypeOK
      <3>3. CASE Rewrap(t)
        <4>1. PICK d \in Loadable :
                \E done \in (IF Faults THEN SUBSET Rewrappable(d.posts)
                                       ELSE {Rewrappable(d.posts)}) :
                  LET fresh == {Rewrapped(e, seals + 1, snap[t]) : e \in done}
                  IN  /\ doc' = [doc EXCEPT ![t] = [d EXCEPT !.posts = (@ \ done) \cup fresh]]
                      /\ pinnedEnv' = pinnedEnv \cup {e.env : e \in fresh}
          BY <3>3 DEF Rewrap
        <4> DEFINE fresh(done) == {Rewrapped(e, seals + 1, snap[t]) : e \in done}
        <4>0. PICK done \in SUBSET Rewrappable(d.posts) :
                doc' = [doc EXCEPT ![t] = [d EXCEPT !.posts = (d.posts \ done) \cup fresh(done)]]
          BY <4>1
        <4> HIDE DEF fresh
        <4>5. doc'[t] = [d EXCEPT !.posts = (d.posts \ done) \cup fresh(done)]
          BY <1>0, <4>0 DEF TypeOK
        <4>2. doc'[t].posts = (d.posts \ done) \cup fresh(done)
          BY <3>1, <4>5 DEF Document
        <4>3. done \subseteq d.posts /\ d.posts \subseteq Entry
          BY <3>1 DEF Rewrappable, Document
        <4>4. \A e \in done : Rewrapped(e, seals + 1, snap[t]).cid = e.cid
          BY <4>3 DEF Rewrapped, Entry
        <4> QED
          BY <3>1, <4>2, <4>3, <4>4 DEF fresh
      <3> QED
        BY <1>6, <3>2, <3>3
    <2>3. \A e \in manifest'.posts \cup doc'[t].posts : e.cid \in Backed'
      BY <1>3, <2>1, <2>2 DEF ContentHeld
    <2>4. (Writes(t)' => req'[t].cid \in Backed') /\ (erasing'[t] => touched'[t] \subseteq erased')
      BY <1>3, <2>1 DEF ContentHeld, Writes
    <2> QED
      BY <1>3, <2>1, <2>3, <2>4, ContentMoves
  <1>7. ASSUME NEW t \in Threads, Rewrite(t) PROVE ContentHeld'
    <2>1. /\ manifest' = doc[t] /\ UNCHANGED <<pinned, erased, req, touched, erasing, doc>>
          /\ pc'[t] # "idle" /\ \A u \in Threads \ {t} : pc'[u] = pc[u]
      BY <1>0, <1>7 DEF Rewrite, Goto, TypeOK
    <2>2. \A e \in manifest'.posts \cup doc'[t].posts : e.cid \in Backed'
      BY <1>3, <2>1 DEF ContentHeld
    <2>3. (Writes(t)' => req'[t].cid \in Backed') /\ (erasing'[t] => touched'[t] \subseteq erased')
      BY <1>3, <2>1 DEF ContentHeld, Writes
    <2> QED
      BY <1>3, <2>1, <2>2, <2>3, ContentMoves
  <1>8. ASSUME NEW u \in Followers, FollowRequest(u) PROVE ContentHeld'
    BY <1>8 DEF FollowRequest, ContentHeld, Backed, Writes
  <1>9. CASE Crash
    BY <1>9 DEF Crash, ContentHeld, Backed, Writes, NoRequest, EmptyDocument
  <1>10. CASE UNCHANGED vars
    BY <1>10 DEF vars, ContentHeld, Backed, Writes
  <1> QED
    BY <1>1, <1>2, <1>4, <1>5, <1>6, <1>7, <1>8, <1>9, <1>10 DEF Next, Step, Edit, Regrant

(* What the index lists is pinned unless the owner erased an entry with the *)
(* same content, whichever stale manifest a re-wrap brings back             *)
(* (manifest.py:499-508, rewrap_envelopes.py:124-258).                      *)
THEOREM ContentStaysPinned == Spec => []ContentPinnedUnlessErased
  <1>1. ContentHeld => ContentPinnedUnlessErased
    BY DEF ContentHeld, ContentPinnedUnlessErased, Backed
  <1> QED
    BY SealInvariant, ContentInit, ContentStep, <1>1, PTL DEF Spec

----------------------------------------------------------------------------
(* Envelopes documents.  Every sealing has its own address and its own      *)
(* entry: one that is listed, one that was erased, one that a waiting       *)
(* re-wrap will list, or one that a thread is about to append.  So what is  *)
(* unpinned with an erased entry is nobody else's, superseded envelopes     *)
(* included.                                                                *)
Waiting == {t \in Threads : pc[t] = "rewrite"}
Live == manifest.posts \cup UNION {doc[t].posts : t \in Waiting}
Minted == Live \cup erased
Pending(t) == pc[t] \in {"load", "save"} /\ env[t] # NoEnv

Numbered ==
  /\ \A e \in Minted : e.env # NoEnv => e.env.by <= seals
  /\ \A t \in Threads : env[t] # NoEnv => env[t].by <= seals

OneEntryEach ==
  /\ \A e, f \in Minted : e.env = f.env /\ e.env # NoEnv => e.id = f.id
  /\ \A t \in Threads : Pending(t) => \A e \in Minted : e.env # env[t]
  /\ \A t, u \in Threads : Pending(t) /\ Pending(u) /\ env[t] = env[u] => t = u

LivePinned ==
  /\ \A e \in Live : e.env # NoEnv => e.env \in pinnedEnv
  /\ \A t \in Threads : Pending(t) => env[t] \in pinnedEnv

EnvHeld ==
  /\ Numbered /\ OneEntryEach /\ LivePinned
  /\ \A t \in Threads : pc[t] \in {"idle", "snapshot"} => env[t] = NoEnv

LEMMA EnvInit == Init => EnvHeld
  BY DEF Init, EnvHeld, Numbered, OneEntryEach, LivePinned, Minted, Live, Waiting, Pending,
         EmptyDocument

LEMMA MintedTypes ==
  ASSUME TypeOK
  PROVE  /\ Minted \subseteq Entry /\ seals \in Nat
         /\ \A e \in Minted : e.env \in Envelope \cup {NoEnv}
         /\ \A t \in Threads : env[t] \in Envelope \cup {NoEnv}
         /\ \A x \in Envelope : x.by \in Nat
  <1>1. manifest.posts \subseteq Entry /\ erased \subseteq Entry
    BY DEF TypeOK, Document
  <1>2. \A t \in Threads : doc[t].posts \subseteq Entry
    BY DEF TypeOK, Document
  <1>3. Minted \subseteq Entry
    BY <1>1, <1>2 DEF Minted, Live, Waiting
  <1> QED
    BY <1>3 DEF TypeOK, Entry, Envelope

(* A step that mints nothing and unpins nothing: the thread drops its       *)
(* envelopes or keeps them.                                                 *)
LEMMA EnvQuiet ==
  ASSUME EnvHeld, NEW t \in Threads, UNCHANGED <<seals, pinnedEnv>>,
         Minted' \subseteq Minted, Live' \subseteq Live,
         \A u \in Threads \ {t} : env'[u] = env[u] /\ pc'[u] = pc[u],
         env'[t] = NoEnv \/ (env'[t] = env[t] /\ (Pending(t)' => Pending(t))),
         pc'[t] \in {"idle", "snapshot"} => env'[t] = NoEnv
  PROVE  EnvHeld'
  <1>1. Numbered'
    BY DEF EnvHeld, Numbered
  <1>2. \A u \in Threads : Pending(u)' => Pending(u) /\ env'[u] = env[u]
    BY DEF Pending
  <1>3. OneEntryEach' /\ LivePinned'
    BY <1>2 DEF EnvHeld, OneEntryEach, LivePinned
  <1> QED
    BY <1>1, <1>3 DEF EnvHeld

(* Which rows are live changes with the manifest and the waiting re-wraps.  *)
LEMMA LiveStays ==
  ASSUME TypeOK, NEW t \in Threads, manifest'.posts \subseteq Live, pc'[t] # "rewrite",
         \A u \in Threads \ {t} : pc'[u] = pc[u] /\ doc'[u] = doc[u]
  PROVE  Live' \subseteq Live
  BY DEF Live, Waiting

LEMMA EnvFinish ==
  ASSUME TypeOK, EnvHeld, NEW t \in Threads, Finish(t),
         UNCHANGED <<seals, pinnedEnv, manifest, erased>>
  PROVE  EnvHeld'
  <1>1. /\ env'[t] = NoEnv /\ pc'[t] = "idle"
        /\ \A u \in Threads \ {t} : env'[u] = env[u] /\ pc'[u] = pc[u] /\ doc'[u] = doc[u]
    BY DEF TypeOK, Finish, Goto
  <1>2. Live' \subseteq Live
    BY <1>1, LiveStays DEF Live
  <1> QED
    BY <1>1, <1>2, EnvQuiet DEF Minted

LEMMA EnvSeal ==
  ASSUME TypeOK, EnvHeld, NEW t \in Threads, Seal(t)
  PROVE  EnvHeld'
  <1> USE DEF files, store, locals, bounds, past
  <1>1. CASE Finish(t) /\ UNCHANGED <<pinnedEnv, seals>>
    BY <1>1, EnvFinish DEF Seal
  <1>2. CASE ~ (Finish(t) /\ UNCHANGED <<pinnedEnv, seals>>)
    <2> DEFINE made == Sealed(t)
    <2>1. /\ seals' = seals + 1 /\ pinnedEnv' = pinnedEnv \cup {made}
          /\ env' = [env EXCEPT ![t] = made] /\ pc' = [pc EXCEPT ![t] = "load"]
          /\ pc[t] = "seal" /\ UNCHANGED <<manifest, erased, doc>>
      BY <1>2 DEF Seal, Goto
    <2>2. made \in Envelope /\ made.by = seals + 1
      BY DEF Sealed, Envelope, TypeOK
    <2> HIDE DEF made
    <2>5. env'[t] = made /\ pc'[t] = "load" /\ \A u \in Threads \ {t} : env'[u] = env[u] /\ pc'[u] = pc[u]
      BY <2>1 DEF TypeOK
    <2>6. /\ Live' = Live /\ Minted' = Minted
          /\ \A u \in Threads \ {t} : Pending(u)' <=> Pending(u)
      BY <2>1, <2>5 DEF Minted, Live, Waiting, Pending
    <2>7. \A e \in Minted : e.env # made
      BY <2>2, MintedTypes, NoEnvelope DEF EnvHeld, Numbered
    <2>8. \A u \in Threads : env[u] # made
      BY <2>2, MintedTypes, NoEnvelope DEF EnvHeld, Numbered
    <2>9. Numbered'
      BY <2>1, <2>2, <2>5, <2>6, MintedTypes DEF EnvHeld, Numbered
    <2>10. OneEntryEach'
      BY <2>5, <2>6, <2>7, <2>8 DEF EnvHeld, OneEntryEach
    <2>11. LivePinned'
      BY <2>1, <2>5, <2>6 DEF EnvHeld, LivePinned
    <2> QED
      BY <2>5, <2>9, <2>10, <2>11 DEF EnvHeld
  <1> QED
    BY <1>1, <1>2

LEMMA EnvAppended ==
  ASSUME EditInv, EnvHeld, NEW t \in Threads, SaveAppended(t)
  PROVE  EnvHeld'
  <1> USE DEF files, store, locals, bounds, past
  <1> DEFINE n == NewEntry(t)
  <1>0. TypeOK /\ LockInv
    BY DEF EditInv, LockInv
  <1>1. n.env = env[t]
    BY DEF NewEntry
  <1>2. /\ manifest'.posts \subseteq manifest.posts \cup {n}
        /\ UNCHANGED <<erased, seals, pinnedEnv, env>> /\ pc[t] = "save"
    <2>1. PICK d \in Loadable : manifest'.posts = d.posts \cup {n}
      BY AppendedOne
    <2>2. d.posts \subseteq manifest.posts
      BY DEF Loadable, EmptyDocument
    <2> QED
      BY <2>1, <2>2 DEF SaveAppended
  <1> HIDE DEF n
  <1>3. /\ pc'[t] = "publish"
        /\ \A u \in Threads \ {t} : pc'[u] = pc[u] /\ doc'[u] = doc[u]
    BY <1>0, WriterIsAlone
  <1>4. Live' \subseteq Live \cup {n} /\ Minted' \subseteq Minted \cup {n}
    BY <1>2, <1>3 DEF Minted, Live, Waiting
  <1>5. /\ ~ Pending(t)' /\ \A u \in Threads \ {t} : Pending(u)' <=> Pending(u)
        /\ env[t] # NoEnv => Pending(t)
    BY <1>2, <1>3 DEF Pending
  <1>6. Numbered'
    BY <1>1, <1>2, <1>4 DEF EnvHeld, Numbered
  <1>7. OneEntryEach'
    <2> USE DEF EnvHeld, OneEntryEach
    <2>1. \A e \in Minted : e.env = n.env => n.env = NoEnv
      BY <1>1, <1>5
    <2>2. \A e, f \in Minted' : e.env = f.env /\ e.env # NoEnv => e.id = f.id
      BY <1>4, <2>1
    <2>3. \A u \in Threads : Pending(u)' => u # t /\ Pending(u) /\ env'[u] = env[u] /\ env[u] # NoEnv
      BY <1>2, <1>5 DEF Pending
    <2>4. \A u \in Threads : Pending(u)' => env'[u] # n.env
      BY <1>1, <1>5, <2>3
    <2>5. \A u \in Threads : Pending(u)' => \A e \in Minted' : e.env # env'[u]
      BY <1>4, <2>3, <2>4
    <2> QED
      BY <2>2, <2>3, <2>5
  <1>8. LivePinned'
    BY <1>1, <1>2, <1>4, <1>5 DEF EnvHeld, LivePinned
  <1> QED
    BY <1>2, <1>3, <1>6, <1>7, <1>8 DEF EnvHeld

(* A re-wrap seals under a number nobody has used, each row for itself.     *)
LEMMA EnvRewrap ==
  ASSUME TypeOK, EnvHeld, NEW t \in Threads, Rewrap(t)
  PROVE  EnvHeld'
  <1> DEFINE New(e) == Rewrapped(e, seals + 1, snap[t])
  <1>1. PICK d \in Loadable : \E done \in SUBSET d.posts :
          /\ doc'[t].posts = Resealing(d.posts, done, seals + 1, snap[t])
          /\ pinnedEnv' = pinnedEnv \cup {New(e).env : e \in done}
          /\ UNCHANGED <<manifest, erased, env>>
          /\ pc' = [pc EXCEPT ![t] = "rewrite"]
          /\ \A u \in Threads \ {t} : doc'[u] = doc[u]
    BY ResealedOne
  <1>2. PICK done \in SUBSET d.posts :
          /\ doc'[t].posts = (d.posts \ done) \cup {New(e) : e \in done}
          /\ pinnedEnv' = pinnedEnv \cup {New(e).env : e \in done}
          /\ UNCHANGED <<manifest, erased, env>>
          /\ pc' = [pc EXCEPT ![t] = "rewrite"]
          /\ \A u \in Threads \ {t} : doc'[u] = doc[u]
    BY <1>1 DEF Resealing
  <1>3. d.posts \subseteq manifest.posts /\ d.posts \subseteq Entry
    BY LoadableType DEF Loadable, EmptyDocument, Document
  <1>4. \A e \in done : /\ New(e).id = e.id
                        /\ New(e).env = [by |-> seals + 1, of |-> e.id, to |-> snap[t]]
    BY <1>3 DEF Rewrapped, Entry
  <1>5. \A e \in done : /\ New(e).env.by = seals + 1 /\ New(e).env.of = New(e).id
                        /\ New(e).env # NoEnv
    <2>1. seals + 1 \in Nat /\ snap[t] \in SUBSET Recipients
      BY DEF TypeOK
    <2>2. \A e \in done : e.id \in Nat
      BY <1>3 DEF Entry
    <2>3. \A e \in done : [by |-> seals + 1, of |-> e.id, to |-> snap[t]] \in Envelope
      BY <2>1, <2>2 DEF Envelope
    <2>4. \A e \in done : New(e).env # NoEnv
      BY <1>4, <2>3, NoEnvelope
    <2>5. \A e \in done : New(e).env.by = seals + 1 /\ New(e).env.of = New(e).id
      BY <1>3 DEF Rewrapped, Entry
    <2> QED
      BY <2>4, <2>5
  <1>6. seals' = seals + 1 /\ seals \in Nat
    BY DEF Rewrap, TypeOK
  <1>7. pc'[t] = "rewrite" /\ \A u \in Threads \ {t} : pc'[u] = pc[u]
    BY <1>2 DEF TypeOK
  <1> DEFINE fresh == {New(e) : e \in done}
  <1>8. Live' \subseteq Live \cup fresh /\ Minted' \subseteq Minted \cup fresh
    BY <1>2, <1>3, <1>7 DEF Live, Minted, Waiting
  <1>9. \A u \in Threads : Pending(u)' => Pending(u) /\ env'[u] = env[u]
    BY <1>2, <1>7 DEF Pending
  <1>10. \A e \in fresh : e.env.by = seals + 1 /\ e.env.of = e.id /\ e.env # NoEnv /\ e.env \in pinnedEnv'
    BY <1>2, <1>5
  <1> HIDE DEF New, fresh
  <1>11. \A e \in fresh, f \in Minted : f.env # e.env
    BY <1>6, <1>10, MintedTypes DEF EnvHeld, Numbered
  <1>12. \A e \in fresh, u \in Threads : env[u] # e.env
    BY <1>6, <1>10, MintedTypes DEF EnvHeld, Numbered
  <1>13. Numbered'
    <2>1. \A e \in Minted' : e.env # NoEnv => e.env.by <= seals + 1
      BY <1>6, <1>8, <1>10, MintedTypes DEF EnvHeld, Numbered
    <2>2. \A u \in Threads : env[u] # NoEnv => env[u].by <= seals + 1
      BY <1>6, MintedTypes DEF EnvHeld, Numbered
    <2> QED
      BY <1>2, <1>6, <2>1, <2>2 DEF Numbered
  <1>14. OneEntryEach'
    <2>1. \A e, f \in Minted' : e.env = f.env /\ e.env # NoEnv => e.id = f.id
      BY <1>8, <1>10, <1>11 DEF EnvHeld, OneEntryEach
    <2>2. \A u \in Threads : Pending(u)' => \A e \in Minted' : e.env # env'[u]
      BY <1>8, <1>9, <1>12 DEF EnvHeld, OneEntryEach
    <2> QED
      BY <1>9, <2>1, <2>2 DEF EnvHeld, OneEntryEach
  <1>15. LivePinned'
    BY <1>2, <1>8, <1>9, <1>10 DEF EnvHeld, LivePinned
  <1> QED
    BY <1>2, <1>7, <1>13, <1>14, <1>15 DEF EnvHeld

LEMMA EnvUnpin ==
  ASSUME ErasedInv, SealInv, ContentHeld, EnvHeld, NEW t \in Threads, Unpin(t)
  PROVE  EnvHeld'
  <1> USE DEF files, store, locals, bounds, past
  <1> DEFINE gone == {x.env : x \in touched[t]} \ {NoEnv}
  <1>1. \A x \in touched[t] : x \in erased
    BY DEF Unpin, SealInv, SealRest, SealsWell, ContentHeld
  <1>2. pinnedEnv \ gone \subseteq pinnedEnv' /\ UNCHANGED <<manifest, erased, seals>>
    BY DEF Unpin
  <1>3. \A e \in Live : e.id \notin ErasedIds
    BY DEF ErasedInv, ErasedRest, Clean, Live, Waiting
  <1>4. \A e \in Live : e.env \notin gone
    BY <1>1, <1>3 DEF EnvHeld, OneEntryEach, Minted, ErasedIds
  <1>5. \A u \in Threads : Pending(u) => env[u] \notin gone
    BY <1>1 DEF EnvHeld, OneEntryEach, Minted
  <1> HIDE DEF gone
  <1>6. TypeOK
    BY DEF SealInv
  <1>7. /\ pc[t] = "unpin" /\ pc'[t] \in {"idle", "seal"}
        /\ env'[t] = NoEnv \/ (env'[t] = env[t] /\ pc'[t] = "seal")
        /\ \A u \in Threads \ {t} : env'[u] = env[u] /\ pc'[u] = pc[u] /\ doc'[u] = doc[u]
    BY <1>6 DEF Unpin, Finish, Goto, TypeOK
  <1>8. Live' \subseteq Live
    BY <1>2, <1>6, <1>7, LiveStays DEF Live
  <1>9. /\ Minted' \subseteq Minted /\ ~ Pending(t)'
        /\ \A u \in Threads \ {t} : Pending(u)' <=> Pending(u)
    BY <1>2, <1>7, <1>8 DEF Minted, Pending
  <1>10. Numbered' /\ OneEntryEach'
    BY <1>2, <1>7, <1>9 DEF EnvHeld, Numbered, OneEntryEach
  <1>11. LivePinned'
    BY <1>2, <1>4, <1>5, <1>7, <1>8, <1>9 DEF EnvHeld, LivePinned
  <1> QED
    BY <1>7, <1>10, <1>11 DEF EnvHeld

LEMMA EnvStep ==
  ASSUME ErasedInv, SealInv, ContentHeld, EnvHeld, [Next]_vars
  PROVE  EnvHeld'
  <1> USE DEF files, store, locals, bounds, past
  <1>0. TypeOK /\ LockInv /\ EditInv
    BY DEF SealInv, ErasedInv, EditInv
  <1>1. ASSUME NEW t \in Threads, NEW r \in Request, Start(t, r) PROVE EnvHeld'
    <2>1. /\ pc[t] = "idle" /\ UNCHANGED <<env, pinnedEnv, seals, manifest, erased, doc>>
          /\ \E step : step # "rewrite" /\ pc' = [pc EXCEPT ![t] = step]
      BY <1>1 DEF Start, StartPost, StartDelete, StartReshare, StartProfile,
                  StartApprove, StartRemove, DropStep, Accept, Goto
    <2>2. env'[t] = NoEnv /\ pc'[t] # "rewrite" /\ \A u \in Threads \ {t} : pc'[u] = pc[u]
      BY <1>0, <2>1 DEF EnvHeld, TypeOK
    <2>3. Live' \subseteq Live
      BY <1>0, <2>1, <2>2, LiveStays DEF Live
    <2> QED
      BY <2>1, <2>2, <2>3, EnvQuiet DEF Minted
  <1>2. ASSUME NEW t \in Threads,
               \/ Snapshot(t) \/ Load(t) \/ NotFound(t) \/ Publish(t) \/ DropRow(t)
               \/ ReadMembers(t) \/ ReadGraph(t) \/ CommitGraph(t) \/ Fault(t)
        PROVE  EnvHeld'
    <2>1. UNCHANGED <<pinnedEnv, seals, manifest, erased>>
      BY <1>2 DEF Snapshot, Load, NotFound, Publish, DropRow, ReadMembers, ReadGraph,
                  CommitGraph, Fault
    <2>2. CASE Finish(t)
      BY <1>0, <2>1, <2>2, EnvFinish
    <2>3. CASE ~ Finish(t)
      <3>1. /\ env' = env
            /\ \E step \in {"seal", "load", "save", "unpin", "members", "rewrap", "graph",
                            "commit"} :
                 /\ pc' = [pc EXCEPT ![t] = step]
                 /\ step = "load" => pc[t] = "snapshot"
                 /\ step = "save" => pc[t] = "load"
        BY <1>2, <2>3 DEF Snapshot, Load, NotFound, Publish, DropRow, ReadMembers, ReadGraph,
                          CommitGraph, Fault, Goto
      <3>2. \A u \in Threads \ {t} : doc'[u] = doc[u]
        BY <1>0, <1>2 DEF Snapshot, Load, NotFound, Publish, DropRow, ReadMembers, ReadGraph,
                          CommitGraph, Fault, Finish, TypeOK
      <3>3. /\ pc'[t] \notin {"idle", "snapshot", "rewrite"}
            /\ \A u \in Threads \ {t} : pc'[u] = pc[u]
        BY <1>0, <3>1 DEF TypeOK
      <3>4. Pending(t)' => Pending(t)
        BY <1>0, <3>1 DEF Pending, EnvHeld, TypeOK
      <3>5. Live' \subseteq Live
        BY <1>0, <2>1, <3>2, <3>3, LiveStays DEF Live
      <3> QED
        BY <2>1, <3>1, <3>3, <3>4, <3>5, EnvQuiet DEF Minted
    <2> QED
      BY <2>2, <2>3
  <1>3. ASSUME NEW t \in Threads, Seal(t) PROVE EnvHeld'
    BY <1>0, <1>3, EnvSeal
  <1>4. ASSUME NEW t \in Threads, SaveAppended(t) PROVE EnvHeld'
    BY <1>0, <1>4, EnvAppended
  <1>5. ASSUME NEW t \in Threads, SaveErased(t) \/ SaveProfile(t) \/ Rewrite(t) PROVE EnvHeld'
    <2>1. manifest'.posts \subseteq Live /\ erased' \subseteq Minted
      <3>1. \A d \in Loadable : d.posts \subseteq manifest.posts
        BY DEF Loadable, EmptyDocument
      <3>2. CASE SaveErased(t)
        BY <1>0, <3>1, <3>2, ErasedOne DEF Live, Minted
      <3>3. CASE SaveProfile(t)
        BY <1>0, <3>1, <3>3, ProfiledOne DEF Live, Minted
      <3>4. CASE Rewrite(t)
        BY <3>4 DEF Rewrite, Live, Waiting, Minted
      <3> QED
        BY <1>5, <3>2, <3>3, <3>4
    <2>2. UNCHANGED <<env, pinnedEnv, seals>>
      BY <1>5 DEF SaveErased, SaveProfile, Rewrite
    <2>3. /\ pc'[t] = "publish"
          /\ \A u \in Threads \ {t} : pc'[u] = pc[u] /\ doc'[u] = doc[u]
      BY <1>0, <1>5, WriterIsAlone
    <2>4. Live' \subseteq Live
      BY <1>0, <2>1, <2>3, LiveStays
    <2> QED
      BY <2>1, <2>2, <2>3, <2>4, EnvQuiet DEF Pending, Minted
  <1>6. ASSUME NEW t \in Threads, Unpin(t) PROVE EnvHeld'
    BY <1>6, EnvUnpin
  <1>7. ASSUME NEW t \in Threads, Rewrap(t) PROVE EnvHeld'
    BY <1>0, <1>7, EnvRewrap
  <1>8. ASSUME (\E u \in Followers : FollowRequest(u)) \/ UNCHANGED vars PROVE EnvHeld'
    BY <1>8 DEF FollowRequest, vars, EnvHeld, Numbered, OneEntryEach, LivePinned, Minted, Live,
                Waiting, Pending
  <1>9. CASE Crash
    BY <1>9 DEF Crash, EnvHeld, Numbered, OneEntryEach, LivePinned, Minted, Live, Waiting,
                Pending
  <1> QED
    BY <1>1, <1>2, <1>3, <1>4, <1>5, <1>6, <1>7, <1>8, <1>9 DEF Next, Step, Edit, Regrant

(* The envelopes of every listed post stay pinned: what a delete or a       *)
(* re-share unpins, with any number of threads, approvals and failures,     *)
(* belongs to no other entry, unless a removal is saved while a re-wrap is  *)
(* about to save what it loaded before (manifest.py:499-508,                *)
(* rewrap_envelopes.py:124-260).                                            *)
THEOREM EnvelopesStayPinned == Spec /\ [][NoRemovalSavedOver]_vars => []EnvelopesPinned
  <1>1. Init => EnvHeld /\ ContentHeld
    BY EnvInit, ContentInit
  <1>2. ErasedInv /\ SealInv /\ ContentHeld /\ EnvHeld /\ [Next]_vars => ContentHeld' /\ EnvHeld'
    BY ContentStep, EnvStep
  <1>3. EnvHeld => EnvelopesPinned
    BY DEF EnvHeld, LivePinned, Live, EnvelopesPinned
  <1> QED
    BY ErasedInvariant, SealInvariant, <1>1, <1>2, <1>3, PTL DEF Spec

(* For requests one at a time, or without approvals and removals, the       *)
(* envelopes stay pinned whatever fails.                                    *)
THEOREM EnvelopesStayPinnedAlone ==
  ASSUME Alone PROVE Spec => []EnvelopesPinned
  <1>1. NothingSavedOver => NoRemovalSavedOver
    BY DEF NothingSavedOver
  <1> QED
    BY <1>1, AloneSavesOverNothing, EnvelopesStayPinned, PTL

----------------------------------------------------------------------------
(* Access.  An approval or a removal re-wraps the posts and rebuilds the    *)
(* graph from a followers table it reads on the way.  What it brings up to  *)
(* date can be spoilt by another one at the same time, by a post for all    *)
(* whose recipients were read before, and by a failure half way; the two    *)
(* formulas below rule these out and nothing else.                          *)
SealedTo(posts, uids) == \A e \in posts : e.mode = "all" => e.env.to = uids

Regrants(t) == req[t].op \in {"approve", "remove"}
ForAll(t) == Writes(t) /\ req[t].mode = "all"

RegrantsApart ==
  \A t, u \in Threads : t # u /\ Regrants(t) => ~ Regrants(u) /\ ~ ForAll(u)

RegrantsWhole ==
  \A t \in Threads : Regrants(t) =>
    /\ ~ Fault(t) /\ ~ Crash
    /\ Rewrap(t) => \E d \in Loadable :
         doc'[t].posts = Resealing(d.posts, Rewrappable(d.posts), seals + 1, snap[t])

Rewraps(t) == pc[t] \in {"members", "rewrap", "rewrite"}
Regraphs(t) == Rewraps(t) \/ pc[t] \in {"graph", "commit"} \/ (pc[t] = "publish" /\ Regrants(t))

PostsCurrent == (\A t \in Threads : ~ Rewraps(t)) => SealedTo(manifest.posts, Allowed)
GraphCurrent == (\A t \in Threads : ~ Regraphs(t)) => graph \in {{}, Allowed}

InHand(t) ==
  /\ pc[t] \in {"seal", "load", "save", "publish", "unpin"} /\ ForAll(t) => snap[t] = Allowed
  /\ pc[t] \in {"load", "save"} /\ ForAll(t) /\ ~ erasing[t] => env[t].to = Allowed
  /\ pc[t] = "rewrite" => SealedTo(doc[t].posts, Allowed)
  /\ pc[t] \in {"rewrap", "commit"} => snap[t] = Allowed
  /\ pc[t] \in {"members", "rewrap", "rewrite", "graph", "commit"} => Regrants(t)
  /\ pc[t] = "dropAllowed" => req[t].op = "remove" /\ member[req[t].who] = "Allowed"
  /\ pc[t] = "dropPending" => req[t].op = "remove" /\ member[req[t].who] = "Pending"

AccessHeld == PostsCurrent /\ GraphCurrent /\ \A t \in Threads : InHand(t)

LEMMA AccessInit == Init => AccessHeld
  BY DEF Init, AccessHeld, PostsCurrent, GraphCurrent, InHand, SealedTo, EmptyDocument

(* The step is t's: what the other threads hold is as it was.               *)
Unmoved(u) ==
  /\ pc'[u] = pc[u] /\ req'[u] = req[u] /\ erasing'[u] = erasing[u]
  /\ doc'[u] = doc[u] /\ snap'[u] = snap[u] /\ env'[u] = env[u]

Moves(t) == \A u \in Threads \ {t} : Unmoved(u)

LEMMA StartMoves ==
  ASSUME TypeOK, NEW t \in Threads, NEW r \in Request, Start(t, r)
  PROVE  Moves(t) /\ pc[t] = "idle" /\ req'[t] = r /\ UNCHANGED <<manifest, graph>>
  BY DEF Start, StartPost, StartDelete, StartReshare, StartProfile, StartApprove, StartRemove,
         Accept, Goto, TypeOK, Moves, Unmoved, files

LEMMA FinishMoves ==
  ASSUME TypeOK, NEW t \in Threads, Finish(t)
  PROVE  Moves(t) /\ pc'[t] = "idle" /\ req'[t] = NoRequest
  BY DEF Finish, Goto, TypeOK, Moves, Unmoved

LEMMA EditMoves ==
  ASSUME TypeOK, NEW t \in Threads, Edit(t)
  PROVE  Moves(t) /\ UNCHANGED <<graph, member>>
  <1> USE DEF files, store, locals, bounds, past
  <1>1. ASSUME ~ Finish(t) PROVE Moves(t)
    BY <1>1 DEF Edit, Snapshot, Seal, Load, NotFound, SaveAppended, SaveErased, SaveProfile,
                SaveDocument, Publish, Unpin, Goto, TypeOK, Moves, Unmoved
  <1>2. UNCHANGED <<graph, member>>
    BY DEF Edit, Snapshot, Seal, Load, NotFound, SaveAppended, SaveErased, SaveProfile, Publish, Unpin
  <1> QED
    BY <1>1, <1>2, FinishMoves

LEMMA RegrantMoves ==
  ASSUME TypeOK, NEW t \in Threads, Regrant(t)
  PROVE  Moves(t)
  <1> USE DEF files, store, locals, bounds, past
  <1>1. CASE Finish(t)
    BY <1>1, FinishMoves
  <1>2. CASE Rewrap(t)
    BY <1>2 DEF Rewrap, Goto, TypeOK, Moves, Unmoved
  <1>3. CASE ~ Finish(t) /\ ~ Rewrap(t)
    BY <1>3 DEF Regrant, DropRow, ReadMembers, Rewrite, ReadGraph, CommitGraph, Goto, TypeOK,
                Moves, Unmoved
  <1> QED
    BY <1>1, <1>2, <1>3

(* A thread that does not move keeps what it has in hand, while the rows    *)
(* stay or while it neither regrants nor writes for all.                    *)
RowsStay ==
  Allowed' = Allowed
  /\ \A u : member[u] \in {"Allowed", "Pending"} => member'[u] = member[u]

LEMMA InHandStays ==
  ASSUME NEW u \in Threads, InHand(u), Unmoved(u),
         RowsStay \/ (~ Regrants(u) /\ ~ ForAll(u))
  PROVE  InHand(u)'
  BY DEF InHand, Unmoved, RowsStay, Regrants, ForAll, Writes, SealedTo

(* A step of t that leaves files and rows alone.                            *)
LEMMA AccessQuiet ==
  ASSUME AccessHeld, NEW t \in Threads, Moves(t), InHand(t)', RowsStay,
         UNCHANGED <<manifest, graph>>, Rewraps(t) => Rewraps(t)', Regraphs(t) => Regraphs(t)'
  PROVE  AccessHeld'
  <1>1. \A u \in Threads : InHand(u)'
    BY InHandStays DEF AccessHeld, Moves
  <1>2. \A u \in Threads : (Rewraps(u) => Rewraps(u)') /\ (Regraphs(u) => Regraphs(u)')
    BY DEF Moves, Unmoved, Rewraps, Regraphs, Regrants
  <1>3. PostsCurrent' /\ GraphCurrent'
    BY <1>2 DEF AccessHeld, PostsCurrent, GraphCurrent, SealedTo, RowsStay
  <1> QED
    BY <1>1, <1>3 DEF AccessHeld

(* A request answered holds nothing.                                        *)
LEMMA AccessFinish ==
  ASSUME TypeOK, AccessHeld, NEW t \in Threads, Finish(t), RowsStay,
         UNCHANGED <<manifest, graph>>, ~ Regraphs(t)
  PROVE  AccessHeld'
  <1>1. Moves(t) /\ pc'[t] = "idle" /\ req'[t] = NoRequest
    BY FinishMoves
  <1>2. InHand(t)'
    BY <1>1 DEF InHand
  <1> QED
    BY <1>1, <1>2, AccessQuiet DEF Regraphs

(* An approval or a removal at work: nobody else regrants or writes for all. *)
LEMMA AccessAlone ==
  ASSUME AccessHeld, NEW t \in Threads, Moves(t), InHand(t)',
         \A u \in Threads \ {t} : ~ Regrants(u) /\ ~ ForAll(u),
         Rewraps(t)' \/ SealedTo(manifest.posts, Allowed)',
         Regraphs(t)' \/ (graph \in {{}, Allowed})'
  PROVE  AccessHeld'
  <1>1. \A u \in Threads : InHand(u)'
    BY InHandStays DEF AccessHeld, Moves
  <1> QED
    BY <1>1 DEF AccessHeld, PostsCurrent, GraphCurrent

LEMMA AccessStart ==
  ASSUME TypeOK, AccessHeld, RegrantsApart', NEW t \in Threads, NEW r \in Request, Start(t, r)
  PROVE  AccessHeld'
  <1> USE DEF files, store, locals, bounds, past
  <1>1. Moves(t) /\ pc[t] = "idle" /\ req'[t] = r /\ UNCHANGED <<manifest, graph>>
    BY StartMoves
  <1>2. ~ Rewraps(t) /\ ~ Regraphs(t)
    BY <1>1 DEF Rewraps, Regraphs
  <1>3. CASE r.op \in {"post", "reshare", "delete", "profile"}
    <2>1. member' = member
      BY <1>3 DEF Start, StartPost, StartDelete, StartReshare, StartProfile, StartApprove, StartRemove
    <2>2. /\ pc'[t] \in {"load", "snapshot"}
          /\ pc'[t] = "load" => r.op \in {"delete", "profile"} \/ r.mode = "public"
      BY <1>1, <1>3 DEF TypeOK, Start, StartPost, StartDelete, StartReshare, StartProfile,
                        StartApprove, StartRemove, Goto
    <2>3. InHand(t)'
      BY <1>1, <2>2 DEF InHand, ForAll, Writes
    <2> QED
      BY <1>1, <1>2, <2>1, <2>3, AccessQuiet DEF RowsStay, Allowed
  <1>4. CASE r.op = "approve"
    <2>1. pc'[t] = "members"
      BY <1>4 DEF TypeOK, Start, StartPost, StartDelete, StartReshare, StartProfile,
                  StartApprove, StartRemove, Goto
    <2>2. InHand(t)' /\ Rewraps(t)' /\ Regraphs(t)' /\ Regrants(t)'
      BY <1>1, <1>4, <2>1 DEF InHand, Regrants, Rewraps, Regraphs
    <2>3. \A u \in Threads \ {t} : ~ Regrants(u) /\ ~ ForAll(u)
      BY <1>1, <2>2 DEF RegrantsApart, Moves, Unmoved, Regrants, ForAll, Writes
    <2> QED
      BY <1>1, <2>2, <2>3, AccessAlone
  <1>5. CASE r.op = "remove"
    <2>1. /\ member' = member /\ pc'[t] = DropStep(r.who) /\ member[r.who] # "absent"
      BY <1>5 DEF TypeOK, Start, StartPost, StartDelete, StartReshare, StartProfile,
                  StartApprove, StartRemove, Goto
    <2>2. r.who \in Followers /\ member[r.who] \in {"Allowed", "Pending"}
      BY <1>5, <2>1, RequestFields DEF TypeOK
    <2>3. InHand(t)'
      BY <1>1, <1>5, <2>1, <2>2 DEF InHand, DropStep
    <2> QED
      BY <1>1, <1>2, <2>1, <2>3, AccessQuiet DEF RowsStay, Allowed
  <1>6. r.op \in {"post", "reshare", "delete", "profile", "approve", "remove"}
    BY DEF Start, StartPost, StartDelete, StartReshare, StartProfile, StartApprove, StartRemove
  <1> QED
    BY <1>3, <1>4, <1>5, <1>6

(* A save under the lock edits the manifest as it is, or an unreadable one. *)
LEMMA AccessSave ==
  ASSUME SealInv, EditInv, AccessHeld, NEW t \in Threads,
         SaveAppended(t) \/ SaveErased(t) \/ SaveProfile(t)
  PROVE  AccessHeld'
  <1> USE DEF files, store, locals, bounds, past
  <1>0. TypeOK /\ SealsWell(t) /\ InHand(t)
    BY DEF SealInv, SealRest, AccessHeld
  <1>1. Moves(t) /\ UNCHANGED <<graph, member>>
    BY <1>0, EditMoves DEF Edit
  <1>2. /\ pc[t] = "save" /\ pc'[t] = "publish" /\ doc[t] \in Loadable /\ doc[t] \in Document
        /\ UNCHANGED <<req, snap>>
    BY <1>0 DEF SaveAppended, SaveErased, SaveProfile, SaveDocument, Goto, TypeOK,
                EditInv, EditsLoaded
  <1>3. RowsStay
    BY <1>1 DEF RowsStay, Allowed
  <1>4. InHand(t)'
    BY <1>0, <1>2, <1>3 DEF InHand, RowsStay, ForAll, Writes
  <1>5. \A u \in Threads : InHand(u)'
    BY <1>1, <1>3, <1>4, InHandStays DEF AccessHeld, Moves
  <1>6. \A u \in Threads : (Rewraps(u) => Rewraps(u)') /\ (Regraphs(u) => Regraphs(u)')
    BY <1>1, <1>2 DEF Moves, Unmoved, Rewraps, Regraphs, Regrants
  <1>7. GraphCurrent'
    BY <1>1, <1>3, <1>6 DEF AccessHeld, GraphCurrent, RowsStay
  <1>8. ASSUME SealedTo(manifest.posts, Allowed) PROVE SealedTo(manifest'.posts, Allowed)
    <2>1. SealedTo(doc[t].posts, Allowed)
      BY <1>2, <1>8 DEF Loadable, SealedTo, EmptyDocument
    <2>2. CASE SaveAppended(t)
      <3>1. manifest'.posts = doc[t].posts \cup {NewEntry(t)} /\ Writes(t) /\ ~ erasing[t]
        BY <1>2, <2>2 DEF SaveAppended, SaveDocument, Document, Writes
      <3>2. NewEntry(t).mode = "all" => NewEntry(t).env.to = Allowed
        BY <1>0, <1>2, <3>1 DEF NewEntry, InHand, ForAll
      <3> QED
        BY <2>1, <3>1, <3>2 DEF SealedTo
    <2>3. CASE SaveErased(t)
      <3>1. manifest'.posts \subseteq doc[t].posts
        BY <1>2, <2>3 DEF SaveErased, SaveDocument, Document
      <3> QED
        BY <2>1, <3>1 DEF SealedTo
    <2>4. CASE SaveProfile(t)
      <3>1. manifest'.posts = doc[t].posts
        BY <1>2, <2>4 DEF SaveProfile, SaveDocument, Document
      <3> QED
        BY <2>1, <3>1 DEF SealedTo
    <2> QED
      BY <2>2, <2>3, <2>4
  <1>9. PostsCurrent'
    BY <1>3, <1>6, <1>8 DEF AccessHeld, PostsCurrent, SealedTo, RowsStay
  <1> QED
    BY <1>5, <1>7, <1>9 DEF AccessHeld

LEMMA AccessEdit ==
  ASSUME SealInv, EditInv, AccessHeld, NEW t \in Threads, Edit(t)
  PROVE  AccessHeld'
  <1> USE DEF files, store, locals, bounds, past
  <1>0. TypeOK /\ SealsWell(t) /\ InHand(t)
    BY DEF SealInv, SealRest, AccessHeld
  <1>1. Moves(t) /\ graph' = graph /\ RowsStay
    BY <1>0, EditMoves DEF RowsStay, Allowed
  <1>2. ~ Rewraps(t)
    BY DEF Rewraps, Edit, Snapshot, Seal, Load, NotFound, SaveAppended, SaveErased,
           SaveProfile, Publish, Unpin
  <1>3. ASSUME InHand(t)', manifest' = manifest, ~ Regraphs(t) \/ Regraphs(t)' PROVE AccessHeld'
    BY <1>1, <1>2, <1>3, AccessQuiet
  <1>4. ASSUME Finish(t), manifest' = manifest, ~ Regraphs(t) PROVE AccessHeld'
    BY <1>0, <1>1, <1>4, AccessFinish
  <1>5. pc[t] = "publish" \/ ~ Regraphs(t)
    BY DEF Regraphs, Rewraps, Edit, Snapshot, Seal, Load, NotFound, SaveAppended, SaveErased,
           SaveProfile, Publish, Unpin
  <1>6. CASE Snapshot(t)
    <2>1. CASE Finish(t)
      BY <1>4, <1>5, <1>6, <2>1 DEF Snapshot
    <2>2. CASE ~ Finish(t)
      <3>1. /\ snap'[t] = Audience(req[t].mode, req[t].uids) /\ pc'[t] \in {"seal", "load"}
            /\ pc'[t] = "load" => req[t].op # "post"
            /\ UNCHANGED <<manifest, req, erasing>>
        BY <1>0, <1>6, <2>2 DEF Snapshot, Goto, TypeOK
      <3>2. pc'[t] = "load" => erasing[t]
        BY <1>0, <1>6, <3>1 DEF Snapshot, SealsWell, Writes
      <3>3. req[t].mode = "all" => snap'[t] = Allowed
        BY <3>1 DEF Audience, Allowed
      <3>4. InHand(t)'
        BY <1>1, <3>1, <3>2, <3>3 DEF InHand, ForAll, Writes, RowsStay
      <3> QED
        BY <1>3, <1>5, <1>6, <3>1, <3>4 DEF Snapshot
    <2> QED
      BY <2>1, <2>2
  <1>7. CASE Seal(t)
    <2>1. CASE Finish(t)
      BY <1>4, <1>5, <1>7, <2>1 DEF Seal
    <2>2. CASE ~ Finish(t)
      <3>1. env'[t].to = snap[t] /\ pc'[t] = "load" /\ UNCHANGED <<manifest, req, snap>>
        BY <1>0, <1>7, <2>2 DEF Seal, Sealed, Goto, TypeOK
      <3>2. InHand(t)'
        BY <1>0, <1>1, <1>7, <3>1 DEF Seal, InHand, ForAll, Writes, RowsStay
      <3> QED
        BY <1>3, <1>5, <1>7, <3>1, <3>2 DEF Seal
    <2> QED
      BY <2>1, <2>2
  <1>8. CASE Load(t)
    <2>1. pc[t] = "load" /\ pc'[t] = "save" /\ UNCHANGED <<manifest, req, snap, env, erasing>>
      BY <1>0, <1>8 DEF Load, Goto, TypeOK
    <2>2. InHand(t)'
      BY <1>0, <1>1, <2>1 DEF InHand, ForAll, Writes, RowsStay
    <2> QED
      BY <1>3, <1>5, <2>1, <2>2
  <1>9. CASE NotFound(t) \/ Unpin(t)
    <2>1. manifest' = manifest /\ pc[t] \in {"load", "unpin"}
      BY <1>9 DEF NotFound, Unpin
    <2>2. CASE Finish(t)
      BY <1>4, <1>5, <2>1, <2>2
    <2>3. CASE ~ Finish(t)
      <3>1. pc'[t] = "seal" /\ UNCHANGED <<req, snap>>
        BY <1>0, <1>9, <2>3 DEF NotFound, Unpin, Goto, TypeOK
      <3>2. InHand(t)'
        BY <1>0, <1>1, <2>1, <3>1 DEF InHand, ForAll, Writes, RowsStay
      <3> QED
        BY <1>3, <1>5, <2>1, <3>2
    <2> QED
      BY <2>2, <2>3
  <1>10. CASE Publish(t)
    <2>1. pc[t] = "publish" /\ manifest' = manifest
      BY <1>10 DEF Publish
    <2>2. CASE erasing[t]
      <3>1. pc'[t] = "unpin" /\ UNCHANGED <<req, snap>> /\ ~ Regrants(t)
        BY <1>0, <1>10, <2>2 DEF Publish, Goto, TypeOK, SealsWell, Regrants
      <3>2. InHand(t)' /\ ~ Regraphs(t)
        BY <1>0, <1>1, <2>1, <3>1 DEF InHand, ForAll, Writes, RowsStay, Regraphs, Rewraps
      <3> QED
        BY <1>3, <2>1, <3>2
    <2>3. CASE ~ erasing[t] /\ Regrants(t)
      <3>1. pc'[t] = "graph" /\ Regrants(t)'
        BY <1>0, <1>10, <2>3 DEF Publish, Goto, TypeOK, Regrants
      <3>2. InHand(t)' /\ Regraphs(t)'
        BY <3>1 DEF InHand, Regraphs
      <3> QED
        BY <1>3, <2>1, <3>2
    <2>4. CASE ~ erasing[t] /\ ~ Regrants(t)
      <3>1. Finish(t) /\ ~ Regraphs(t)
        BY <1>10, <2>1, <2>4 DEF Publish, Regrants, Regraphs, Rewraps
      <3> QED
        BY <1>4, <2>1, <3>1
    <2> QED
      BY <2>2, <2>3, <2>4
  <1> QED
    BY <1>6, <1>7, <1>8, <1>9, <1>10, AccessSave DEF Edit

LEMMA AccessRegrant ==
  ASSUME SealInv, AccessHeld, RegrantsApart, RegrantsWhole, NEW t \in Threads, Regrant(t)
  PROVE  AccessHeld'
  <1> USE DEF files, store, locals, bounds, past
  <1>0. TypeOK /\ InHand(t)
    BY DEF SealInv, AccessHeld
  <1>1. Regrants(t) /\ \A u \in Threads \ {t} : ~ Regrants(u) /\ ~ ForAll(u)
    <2>1. Regrants(t)
      BY <1>0 DEF InHand, Regrants, Regrant, DropRow, ReadMembers, Rewrap, Rewrite, ReadGraph,
                  CommitGraph
    <2> QED
      BY <2>1 DEF RegrantsApart
  <1>2. Moves(t)
    BY <1>0, RegrantMoves
  <1>3. \A u \in Threads \ {t} : ~ Rewraps(u) /\ ~ Regraphs(u)
    BY <1>1 DEF AccessHeld, InHand, Rewraps, Regraphs
  <1>4. ASSUME InHand(t)', Rewraps(t)' \/ SealedTo(manifest.posts, Allowed)',
               Regraphs(t)' \/ (graph \in {{}, Allowed})'
        PROVE  AccessHeld'
    BY <1>1, <1>2, <1>4, AccessAlone
  <1>5. CASE DropRow(t)
    <2>1. /\ req[t] \in Request \cup {NoRequest} /\ req[t].op = "remove"
          /\ pc[t] = "dropAllowed" => member[req[t].who] = "Allowed"
          /\ pc[t] = "dropPending" => member[req[t].who] = "Pending"
      BY <1>0, <1>5 DEF DropRow, InHand, TypeOK
    <2>2. req[t].who \in Followers
      BY <2>1, RequestFields
    <2>3. manifest' = manifest /\ graph' = graph /\ member' = [member EXCEPT ![req[t].who] = "absent"]
      BY <1>5 DEF DropRow
    <2>4. CASE pc[t] = "dropAllowed"
      <3>1. pc'[t] = "members" /\ req' = req
        BY <1>0, <1>5, <2>1, <2>4 DEF DropRow, Goto, TypeOK
      <3>2. InHand(t)' /\ Rewraps(t)' /\ Regraphs(t)'
        BY <1>1, <3>1 DEF InHand, Regrants, Rewraps, Regraphs
      <3> QED
        BY <1>4, <3>2
    <2>5. CASE pc[t] = "dropPending"
      <3>1. Allowed' = Allowed
        BY <1>0, <2>1, <2>2, <2>3, <2>5 DEF Allowed, TypeOK
      <3>2. SealedTo(manifest.posts, Allowed) /\ graph \in {{}, Allowed}
        BY <1>3, <2>5 DEF AccessHeld, PostsCurrent, GraphCurrent, Rewraps, Regraphs
      <3>3. pc'[t] = "idle"
        BY <1>0, <1>5, <2>5, FinishMoves DEF DropRow
      <3>4. InHand(t)'
        BY <3>3 DEF InHand
      <3> QED
        BY <1>4, <2>3, <3>1, <3>2, <3>4 DEF SealedTo
    <2> QED
      BY <1>5, <2>4, <2>5 DEF DropRow
  <1>6. ASSUME ~ DropRow(t) PROVE Allowed' = Allowed
    BY <1>6 DEF Regrant, ReadMembers, Rewrap, Rewrite, ReadGraph, CommitGraph, Allowed
  <1>7. CASE ReadMembers(t)
    <2>1. pc'[t] = "rewrap" /\ snap'[t] = Allowed /\ req' = req /\ member' = member
      BY <1>0, <1>7 DEF ReadMembers, Goto, TypeOK
    <2>2. InHand(t)' /\ Rewraps(t)' /\ Regraphs(t)'
      BY <1>1, <2>1 DEF InHand, Regrants, Rewraps, Regraphs, Allowed
    <2> QED
      BY <1>4, <2>2
  <1>8. CASE Rewrap(t)
    <2>1. /\ pc'[t] = "rewrite" /\ snap[t] = Allowed /\ UNCHANGED <<req, member>>
      BY <1>0, <1>8 DEF Rewrap, Goto, TypeOK, InHand
    <2>2. PICK d \in Loadable :
            doc'[t].posts = Resealing(d.posts, Rewrappable(d.posts), seals + 1, snap[t])
      BY <1>1, <1>8 DEF RegrantsWhole
    <2>3. d \in Document /\ d.posts \subseteq Entry
      BY <1>0, LoadableType DEF Document
    <2>4. \A e \in d.posts : e.mode = "all" => e \in Rewrappable(d.posts)
      BY DEF Rewrappable, SealInv, SealRest, DocumentsSealed, WellSealed, SealedWithin,
             Loadable, EmptyDocument
    <2>5. \A e \in Rewrappable(d.posts) : Rewrapped(e, seals + 1, snap[t]).env.to = Allowed
      BY <2>1, <2>3 DEF Rewrappable, Rewrapped, Entry
    <2>6. SealedTo(doc'[t].posts, Allowed)
      BY <2>2, <2>4, <2>5 DEF Resealing, SealedTo
    <2>7. Allowed' = Allowed
      BY <2>1 DEF Allowed
    <2>8. InHand(t)' /\ Rewraps(t)' /\ Regraphs(t)'
      BY <1>1, <2>1, <2>6, <2>7 DEF InHand, Regrants, Rewraps, Regraphs, SealedTo
    <2> QED
      BY <1>4, <2>8
  <1>9. CASE Rewrite(t)
    <2>1. /\ pc[t] = "rewrite" /\ pc'[t] = "publish" /\ manifest' = doc[t]
          /\ UNCHANGED <<member, req, snap>>
      BY <1>0, <1>9 DEF Rewrite, Goto, TypeOK
    <2>2. Regrants(t)' /\ ~ ForAll(t)'
      BY <1>1, <2>1 DEF Regrants, ForAll, Writes
    <2>3. InHand(t)' /\ Regraphs(t)'
      BY <2>1, <2>2 DEF InHand, Regraphs
    <2>4. SealedTo(manifest.posts, Allowed)'
      BY <1>0, <2>1 DEF InHand, SealedTo, Allowed
    <2> QED
      BY <1>4, <2>3, <2>4
  <1>10. CASE ReadGraph(t)
    <2>1. /\ pc[t] = "graph" /\ pc'[t] = "commit" /\ snap'[t] = Allowed
          /\ UNCHANGED <<manifest, member, req>>
      BY <1>0, <1>10 DEF ReadGraph, Goto, TypeOK
    <2>2. SealedTo(manifest.posts, Allowed)'
      BY <1>3, <2>1 DEF AccessHeld, PostsCurrent, Rewraps, SealedTo, Allowed
    <2>3. InHand(t)' /\ Regraphs(t)'
      BY <1>1, <2>1 DEF InHand, Regraphs, Regrants, Allowed
    <2> QED
      BY <1>4, <2>2, <2>3
  <1>11. CASE CommitGraph(t)
    <2>1. pc[t] = "commit" /\ Finish(t) /\ graph' = snap[t] /\ UNCHANGED <<manifest, member>>
      BY <1>11 DEF CommitGraph
    <2>2. SealedTo(manifest.posts, Allowed)'
      BY <1>3, <2>1 DEF AccessHeld, PostsCurrent, Rewraps, SealedTo, Allowed
    <2>3. (graph \in {{}, Allowed})'
      BY <1>0, <2>1 DEF InHand, Allowed
    <2>4. InHand(t)'
      BY <1>0, <2>1, FinishMoves DEF InHand
    <2> QED
      BY <1>4, <2>2, <2>3, <2>4
  <1> QED
    BY <1>5, <1>7, <1>8, <1>9, <1>10, <1>11 DEF Regrant

LEMMA AccessStep ==
  ASSUME SealInv, EditInv, AccessHeld, RegrantsApart, RegrantsApart', [RegrantsWhole]_vars, [Next]_vars
  PROVE  AccessHeld'
  <1> USE DEF files, store, locals, bounds, past
  <1>0. TypeOK
    BY DEF SealInv
  <1>1. CASE UNCHANGED vars
    BY <1>1 DEF vars, AccessHeld, PostsCurrent, GraphCurrent, InHand, SealedTo, Rewraps, Regraphs,
                Regrants, ForAll, Writes, Allowed
  <1>2. CASE RegrantsWhole /\ Next
    <2>1. ASSUME NEW t \in Threads, NEW r \in Request, Start(t, r) PROVE AccessHeld'
      BY <1>0, <2>1, AccessStart
    <2>2. ASSUME NEW t \in Threads, Fault(t) PROVE AccessHeld'
      <3>1. ~ Regrants(t)
        BY <1>2, <2>2 DEF RegrantsWhole
      <3>2. Finish(t) /\ UNCHANGED <<manifest, graph, member>>
        BY <2>2, <3>1 DEF Fault, Regrants
      <3>3. ~ Regraphs(t)
        BY <3>1 DEF AccessHeld, InHand, Regraphs, Rewraps
      <3> QED
        BY <1>0, <3>2, <3>3, AccessFinish DEF RowsStay, Allowed
    <2>3. ASSUME NEW t \in Threads, Step(t) PROVE AccessHeld'
      BY <1>2, <2>2, <2>3, AccessEdit, AccessRegrant DEF Step
    <2>4. ASSUME NEW u \in Followers, FollowRequest(u) PROVE AccessHeld'
      <3>1. /\ member[u] = "absent" /\ member' = [member EXCEPT ![u] = "Pending"]
            /\ UNCHANGED <<manifest, graph, pc, locals>>
        BY <2>4 DEF FollowRequest
      <3>2. RowsStay
        BY <1>0, <3>1 DEF Allowed, TypeOK, RowsStay
      <3>3. \A t \in Threads : InHand(t)'
        BY <3>1, <3>2, InHandStays DEF AccessHeld, Unmoved
      <3> QED
        BY <3>1, <3>2, <3>3
           DEF AccessHeld, PostsCurrent, GraphCurrent, SealedTo, Rewraps, Regraphs, Regrants, RowsStay
    <2>5. CASE Crash
      <3>1. \A t \in Threads : ~ Regrants(t) /\ pc'[t] = "idle"
        BY <1>2, <2>5 DEF RegrantsWhole, Crash
      <3>2. \A t \in Threads : ~ Rewraps(t) /\ ~ Regraphs(t) /\ InHand(t)'
        BY <3>1 DEF AccessHeld, InHand, Rewraps, Regraphs
      <3>3. UNCHANGED <<manifest, graph, member>>
        BY <2>5 DEF Crash
      <3> QED
        BY <3>2, <3>3 DEF AccessHeld, PostsCurrent, GraphCurrent, SealedTo, Allowed
    <2> QED
      BY <1>2, <2>1, <2>3, <2>4, <2>5 DEF Next
  <1> QED
    BY <1>1, <1>2 DEF vars

(* Approvals and removals that run whole, and apart from one another and    *)
(* from posts for all, give access to exactly the Allowed followers:        *)
(* whatever else is posted, re-shared, deleted or edited meanwhile, and     *)
(* whatever of that fails or is cut by a restart (main.py:790-798 and       *)
(* 821-824).                                                                *)
THEOREM AccessFollows ==
  Spec /\ []RegrantsApart /\ [][RegrantsWhole]_vars => []AccessFollowsMembership
  <1>1. SealInv /\ EditInv /\ AccessHeld /\ RegrantsApart /\ RegrantsApart' /\ [RegrantsWhole]_vars
          /\ [Next]_vars => AccessHeld'
    BY AccessStep
  <1>2. AccessHeld => AccessFollowsMembership
    BY DEF AccessHeld, PostsCurrent, GraphCurrent, Rewraps, Regraphs, SealedTo, AccessFollowsMembership
  <1> QED
    BY SealInvariant, EditInvariant, AccessInit, <1>1, <1>2, PTL DEF Spec

(* Requests one at a time, with nothing failing: an approval grants the     *)
(* past posts and a removal takes the follower out of them and of the       *)
(* graph, also when the manifest could not be read (main.py:790-798 and     *)
(* 821-824).                                                                *)
THEOREM AccessAlwaysFollows ==
  ASSUME NEW t, Threads = {t}, ~ Faults, MaxCrashes = 0
  PROVE  Spec => []AccessFollowsMembership
  <1>1. RegrantsApart
    BY DEF RegrantsApart
  <1>2. TypeOK /\ [Next]_vars => [RegrantsWhole]_vars
    <2> SUFFICES ASSUME TypeOK PROVE RegrantsWhole
      OBVIOUS
    <2>1. ~ Fault(t) /\ ~ Crash
      BY DEF Fault, Crash, TypeOK
    <2>2. ASSUME Rewrap(t)
          PROVE  \E d \in Loadable :
                   doc'[t].posts = Resealing(d.posts, Rewrappable(d.posts), seals + 1, snap[t])
      <3>1. PICK d \in Loadable :
              LET fresh == {Rewrapped(e, seals + 1, snap[t]) : e \in Rewrappable(d.posts)} IN
              doc' = [doc EXCEPT ![t] = [d EXCEPT !.posts = (@ \ Rewrappable(d.posts)) \cup fresh]]
        BY <2>2 DEF Rewrap
      <3>2. d \in Document
        BY LoadableType
      <3> QED
        BY <3>1, <3>2 DEF TypeOK, Document, Resealing
    <2> QED
      BY <2>1, <2>2 DEF RegrantsWhole
  <1> QED
    BY <1>1, <1>2, TypeCorrect, AccessFollows, PTL DEF Spec

----------------------------------------------------------------------------
(* Progress.  That every request is answered is checked by TLC under        *)
(* fairness.  Two facts carry it, and both hold for all constants: each     *)
(* step of a request brings its answer nearer, whatever fails, and whoever  *)
(* waits for the lock waits for a thread that can go on.                    *)
LEMMA LeastNatural ==
  ASSUME NEW T \in SUBSET Nat, T # {} PROVE \E n \in T : \A m \in T : n <= m
  <1> DEFINE R == {ss \in Nat \X Nat : ss[1] < ss[2]}
  <1>1. IsWellFoundedOn(R, Nat)
    BY NatLessThanWellFounded DEF OpToRel
  <1> HIDE DEF R
  <1>2. PICK n \in T : \A m \in T : ~ (<<m, n>> \in R)
    BY <1>1, WFMin
  <1>3. \A m \in T : ~ (m < n)
    BY <1>2 DEF R
  <1> QED
    BY <1>3

(* A bucket that holds a match has a first one (manifest.py:459-470).       *)
LEMMA FirstMatchExists ==
  ASSUME NEW posts \in SUBSET Entry, NEW cid, NEW client, Matches(posts, cid, client) # {}
  PROVE  FirstMatches(posts, cid, client) # {}
  <1> DEFINE found == Matches(posts, cid, client)
  <1>1. PICK e \in found : TRUE
    OBVIOUS
  <1> DEFINE ids == {f.id : f \in {g \in found : g.client = e.client}}
  <1>2. found \subseteq Entry
    BY DEF Matches
  <1>3. ids \in SUBSET Nat /\ ids # {}
    BY <1>1, <1>2 DEF Entry
  <1> HIDE DEF found
  <1>4. PICK n \in ids : \A m \in ids : n <= m
    <2> HIDE DEF ids
    <2> QED
      BY <1>3, LeastNatural
  <1>5. PICK f \in found : f.client = e.client /\ f.id = n
    BY <1>4
  <1>6. \A g \in found : g.client = f.client => f.id <= g.id
    BY <1>4, <1>5
  <1> QED
    BY <1>5, <1>6 DEF FirstMatches, found

(* The steps a request has ahead of it, at most; a removal that is not      *)
(* published yet has an unpinning and perhaps a new sealing to follow.      *)
Ahead == [idle |-> 0, commit |-> 1, graph |-> 2, publish |-> 3, save |-> 4, rewrite |-> 4,
          load |-> 5, rewrap |-> 5, seal |-> 6, members |-> 6, unpin |-> 7,
          dropAllowed |-> 7, dropPending |-> 7, snapshot |-> 11]

AheadOf(step, undoing) ==
  Ahead[step] + (IF undoing /\ step \in {"load", "save", "publish"} THEN 5 ELSE 0)

Rank(t) == AheadOf(pc[t], erasing[t])

LEMMA RankTable ==
  ASSUME NEW b \in BOOLEAN
  PROVE  /\ AheadOf("idle", b) = 0 /\ AheadOf("commit", b) = 1 /\ AheadOf("graph", b) = 2
         /\ AheadOf("publish", b) = IF b THEN 8 ELSE 3
         /\ AheadOf("save", b) = IF b THEN 9 ELSE 4
         /\ AheadOf("load", b) = IF b THEN 10 ELSE 5
         /\ AheadOf("rewrite", b) = 4 /\ AheadOf("rewrap", b) = 5
         /\ AheadOf("seal", b) = 6 /\ AheadOf("members", b) = 6
         /\ AheadOf("unpin", b) = 7 /\ AheadOf("dropAllowed", b) = 7
         /\ AheadOf("dropPending", b) = 7 /\ AheadOf("snapshot", b) = 11
  BY DEF AheadOf, Ahead

(* The guards of the handlers' steps, failures apart.                       *)
CanGoOn(t) ==
  /\ pc[t] # "idle"
  /\ pc[t] \in {"load", "rewrite", "commit"} => LockFree
  /\ pc[t] = "save" =>
       \/ erasing[t] /\ FirstMatches(doc[t].posts, req[t].cid, req[t].client) # {}
       \/ ~ erasing[t] /\ req[t].op \in {"post", "reshare", "profile"}

(* What makes them true: an edit found what it removes when it loaded.      *)
OnItsWay(t) ==
  /\ pc[t] \in {"dropAllowed", "dropPending", "members", "rewrap", "rewrite"} => Regrants(t)
  /\ pc[t] \in {"load", "save"} /\ ~ erasing[t] => req[t].op \in {"post", "reshare", "profile"}
  /\ pc[t] = "save" /\ erasing[t] => Matches(doc[t].posts, req[t].cid, req[t].client) # {}

WayInv == SealInv /\ LockInv /\ \A t \in Threads : OnItsWay(t)

LEMMA WayStep == WayInv /\ [Next]_vars => WayInv'
  <1> SUFFICES ASSUME WayInv, [Next]_vars PROVE \A t \in Threads : OnItsWay(t)'
    BY SealStep, LockStep DEF WayInv
  <1> USE DEF files, store, locals, bounds, past
  <1>0. TypeOK /\ \A t \in Threads : SealsWell(t) /\ OnItsWay(t)
    BY DEF WayInv, SealInv, SealRest
  <1>1. ASSUME NEW t \in Threads, Moves(t), OnItsWay(t)' PROVE \A u \in Threads : OnItsWay(u)'
    BY <1>0, <1>1 DEF Moves, Unmoved, OnItsWay, Regrants
  <1>2. ASSUME NEW t \in Threads, NEW r \in Request, Start(t, r) PROVE OnItsWay(t)'
    <2>1. pc[t] = "idle" /\ ~ erasing[t] /\ req'[t] = r
      BY <1>0, <1>2, StartMoves DEF SealsWell
    <2>2. CASE StartPost(t, r) \/ StartReshare(t, r) \/ StartProfile(t, r)
      BY <1>0, <2>1, <2>2 DEF StartPost, StartReshare, StartProfile, Goto, OnItsWay, TypeOK
    <2>3. CASE StartDelete(t, r)
      BY <1>0, <2>1, <2>3 DEF StartDelete, Goto, OnItsWay, TypeOK
    <2>4. CASE StartApprove(t, r) \/ StartRemove(t, r)
      BY <1>0, <2>1, <2>4 DEF StartApprove, StartRemove, DropStep, Goto, OnItsWay, Regrants, TypeOK
    <2> QED
      BY <1>2, <2>2, <2>3, <2>4 DEF Start
  <1>3. ASSUME NEW t \in Threads, Finish(t) PROVE OnItsWay(t)'
    BY <1>0, <1>3, FinishMoves DEF OnItsWay
  <1>4. ASSUME NEW t \in Threads, Edit(t), ~ Finish(t) PROVE OnItsWay(t)'
    <2>1. CASE Snapshot(t)
      BY <1>0, <1>4, <2>1 DEF Snapshot, Goto, SealsWell, Writes, OnItsWay, TypeOK
    <2>2. CASE Seal(t)
      BY <1>0, <1>4, <2>2 DEF Seal, Goto, SealsWell, Writes, OnItsWay, TypeOK
    <2>3. CASE Load(t)
      BY <1>0, <2>3 DEF Load, Goto, Missing, OnItsWay, TypeOK
    <2>4. CASE NotFound(t) \/ Unpin(t) \/ Publish(t)
      BY <1>0, <1>4, <2>4 DEF NotFound, Unpin, Publish, Goto, OnItsWay, TypeOK
    <2>5. CASE SaveAppended(t) \/ SaveErased(t) \/ SaveProfile(t)
      BY <1>0, <2>5 DEF SaveAppended, SaveErased, SaveProfile, SaveDocument, Goto, OnItsWay, TypeOK
    <2> QED
      BY <1>4, <2>1, <2>2, <2>3, <2>4, <2>5 DEF Edit
  <1>5. ASSUME NEW t \in Threads, Regrant(t), ~ Finish(t) PROVE OnItsWay(t)'
    <2>1. CASE Rewrap(t)
      BY <1>0, <2>1 DEF Rewrap, Goto, OnItsWay, Regrants, TypeOK
    <2>2. CASE ~ Rewrap(t)
      BY <1>0, <1>5, <2>2 DEF Regrant, DropRow, ReadMembers, Rewrite, ReadGraph, CommitGraph, Goto,
                              OnItsWay, Regrants, TypeOK
    <2> QED
      BY <2>1, <2>2
  <1>6. ASSUME NEW t \in Threads, Fault(t), ~ Finish(t) PROVE Moves(t) /\ OnItsWay(t)'
    BY <1>0, <1>6 DEF Fault, Goto, OnItsWay, TypeOK, Moves, Unmoved
  <1>7. CASE \E t \in Threads : \E r \in Request : Start(t, r)
    BY <1>0, <1>1, <1>2, <1>7, StartMoves
  <1>8. CASE \E t \in Threads : Step(t)
    BY <1>0, <1>1, <1>3, <1>4, <1>5, <1>6, <1>8, EditMoves, RegrantMoves, FinishMoves DEF Step
  <1>9. CASE Crash
    BY <1>9 DEF Crash, OnItsWay
  <1>10. CASE (\E u \in Followers : FollowRequest(u)) \/ UNCHANGED vars
    BY <1>0, <1>10 DEF FollowRequest, vars, OnItsWay, Regrants
  <1> QED
    BY <1>7, <1>8, <1>9, <1>10 DEF Next

LEMMA WayInvariant == Spec => []WayInv
  <1>1. Init => WayInv
    BY SealInit, LockInit DEF Init, WayInv, OnItsWay
  <1> QED
    BY <1>1, WayStep, PTL DEF Spec

(* Every thread that has work can go on, or waits for one that holds the    *)
(* lock and can go on: the handlers never all wait for one another          *)
(* (storage.py:14-19, manifest.py:286, 337, 454).                           *)
NobodyStuck ==
  \A t \in Threads : pc[t] # "idle" =>
    CanGoOn(t) \/ \E u \in Threads : lock = u /\ CanGoOn(u)

THEOREM HolderGoesOn == Spec => []NobodyStuck
  <1>1. WayInv => NobodyStuck
    <2> SUFFICES ASSUME WayInv, NEW t \in Threads, pc[t] # "idle"
                 PROVE  CanGoOn(t) \/ \E u \in Threads : lock = u /\ CanGoOn(u)
      BY DEF NobodyStuck
    <2>1. ASSUME NEW u \in Threads, pc[u] = "save" PROVE CanGoOn(u)
      <3>1. erasing[u] => FirstMatches(doc[u].posts, req[u].cid, req[u].client) # {}
        <4>1. doc[u].posts \in SUBSET Entry
          BY DEF WayInv, SealInv, TypeOK, Document
        <4> QED
          BY <2>1, <4>1, FirstMatchExists DEF WayInv, OnItsWay
      <3>2. erasing[u] \in BOOLEAN
        BY DEF WayInv, SealInv, TypeOK
      <3> QED
        BY <2>1, <3>1, <3>2 DEF CanGoOn, WayInv, OnItsWay
    <2>2. lock = NoOne \/ \E u \in Threads : lock = u /\ pc[u] \in {"save", "publish"}
      BY DEF WayInv, SealInv, TypeOK, LockInv, Holders
    <2>3. ASSUME NEW u \in Threads, pc[u] \in {"save", "publish"} PROVE CanGoOn(u)
      BY <2>1, <2>3 DEF CanGoOn
    <2>4. CASE pc[t] \in {"load", "rewrite", "commit"}
      BY <2>2, <2>3, <2>4 DEF CanGoOn, LockFree
    <2>5. CASE pc[t] \notin {"load", "rewrite", "commit", "save"}
      BY <2>5 DEF CanGoOn
    <2> QED
      BY <2>1, <2>4, <2>5
  <1> QED
    BY WayInvariant, <1>1, PTL

LEMMA RankIsNatural ==
  ASSUME TypeOK, NEW t \in Threads
  PROVE  Rank(t) \in 0 .. 11 /\ (Rank(t) = 0 <=> pc[t] = "idle")
  <1>1. erasing[t] \in BOOLEAN
    BY DEF TypeOK
  <1> QED
    BY <1>1, RankTable DEF TypeOK, Rank

(* Each step of a request, a failure included, leaves it fewer steps.       *)
LEMMA StepLowersRank ==
  ASSUME WayInv, NEW t \in Threads, Step(t)
  PROVE  Rank(t)' < Rank(t) /\ Moves(t)
  <1> USE DEF files, store, locals, bounds, past
  <1>0. TypeOK /\ TypeOK' /\ SealsWell(t) /\ OnItsWay(t) /\ Next
    BY TypeStep DEF WayInv, SealInv, SealRest, Next
  <1>1. erasing[t] \in BOOLEAN /\ erasing'[t] \in BOOLEAN
    BY <1>0 DEF TypeOK
  <1>2. pc[t] # "idle"
    BY DEF Step, Edit, Regrant, Fault, Snapshot, Seal, Load, NotFound, SaveAppended, SaveErased,
           SaveProfile, Publish, Unpin, DropRow, ReadMembers, Rewrap, Rewrite, ReadGraph, CommitGraph
  <1>3. CASE Finish(t)
    <2>1. Moves(t) /\ pc'[t] = "idle"
      BY <1>0, <1>3, FinishMoves
    <2>2. Rank(t)' = 0
      BY <1>1, <2>1, RankTable DEF Rank
    <2>3. Rank(t) \in 0 .. 11 /\ Rank(t) # 0
      BY <1>0, <1>2, RankIsNatural
    <2> QED
      BY <2>1, <2>2, <2>3
  <1>4. CASE Edit(t) /\ ~ Finish(t)
    <2>1. CASE Snapshot(t)
      <3>1. pc[t] = "snapshot" /\ pc'[t] \in {"seal", "load"}
        BY <1>0, <1>4, <2>1 DEF Snapshot, Goto, TypeOK
      <3> QED
        BY <1>0, <1>1, <1>4, <3>1, RankTable, EditMoves DEF Rank
    <2>2. CASE Seal(t)
      <3>1. pc[t] = "seal" /\ pc'[t] = "load" /\ erasing'[t] = FALSE
        BY <1>0, <1>4, <2>2 DEF Seal, Goto, TypeOK
      <3> QED
        BY <1>0, <1>1, <1>4, <3>1, RankTable, EditMoves DEF Rank
    <2>3. CASE Load(t)
      <3>1. pc[t] = "load" /\ pc'[t] = "save" /\ erasing'[t] = erasing[t]
        BY <1>0, <2>3 DEF Load, Goto, TypeOK
      <3> QED
        BY <1>0, <1>1, <1>4, <3>1, RankTable, EditMoves DEF Rank
    <2>4. CASE NotFound(t)
      <3>1. pc[t] = "load" /\ pc'[t] = "seal" /\ erasing[t] = TRUE
        BY <1>0, <1>1, <1>4, <2>4 DEF NotFound, Missing, Goto, TypeOK
      <3> QED
        BY <1>0, <1>1, <1>4, <3>1, RankTable, EditMoves DEF Rank
    <2>5. CASE SaveAppended(t) \/ SaveErased(t) \/ SaveProfile(t)
      <3>1. pc[t] = "save" /\ pc'[t] = "publish" /\ erasing'[t] = erasing[t]
        BY <1>0, <2>5 DEF SaveAppended, SaveErased, SaveProfile, SaveDocument, Goto, TypeOK
      <3> QED
        BY <1>0, <1>1, <1>4, <3>1, RankTable, EditMoves DEF Rank
    <2>6. CASE Publish(t)
      <3>1. /\ pc[t] = "publish" /\ erasing'[t] = erasing[t]
            /\ IF erasing[t] THEN pc'[t] = "unpin" ELSE pc'[t] = "graph"
        BY <1>0, <1>4, <2>6 DEF Publish, Goto, TypeOK
      <3> QED
        BY <1>0, <1>1, <1>4, <3>1, RankTable, EditMoves DEF Rank
    <2>7. CASE Unpin(t)
      <3>1. pc[t] = "unpin" /\ pc'[t] = "seal"
        BY <1>0, <1>4, <2>7 DEF Unpin, Goto, TypeOK
      <3> QED
        BY <1>0, <1>1, <1>4, <3>1, RankTable, EditMoves DEF Rank
    <2> QED
      BY <1>4, <2>1, <2>2, <2>3, <2>4, <2>5, <2>6, <2>7 DEF Edit
  <1>5. CASE Regrant(t) /\ ~ Finish(t)
    <2>1. \/ pc[t] \in {"dropAllowed", "dropPending"} /\ pc'[t] = "members"
          \/ pc[t] = "members" /\ pc'[t] = "rewrap"
          \/ pc[t] = "rewrap" /\ pc'[t] = "rewrite"
          \/ pc[t] = "rewrite" /\ pc'[t] = "publish" /\ erasing'[t] = erasing[t]
          \/ pc[t] = "graph" /\ pc'[t] = "commit"
      BY <1>0, <1>5 DEF Regrant, DropRow, ReadMembers, Rewrap, Rewrite, ReadGraph, CommitGraph,
                        Goto, TypeOK
    <2>2. pc[t] = "rewrite" => erasing[t] = FALSE
      BY <1>0, <1>1 DEF OnItsWay, Regrants, SealsWell
    <2> QED
      BY <1>0, <1>1, <1>5, <2>1, <2>2, RankTable, RegrantMoves DEF Rank
  <1>6. CASE Fault(t) /\ ~ Finish(t)
    <2>1. /\ pc[t] \in {"seal", "save", "publish", "rewrap", "rewrite"} /\ pc'[t] = "graph"
          /\ Moves(t)
      BY <1>0, <1>6 DEF Fault, Goto, TypeOK, Moves, Unmoved
    <2> QED
      BY <1>1, <2>1, RankTable DEF Rank
  <1> QED
    BY <1>3, <1>4, <1>5, <1>6 DEF Step

(* No request takes more than eleven steps, whatever fails: a step of its   *)
(* own brings it nearer to its answer, a step of anybody else leaves it     *)
(* where it is, and only a new request of the bounded number begins again.  *)
Nearer(t) ==
  /\ Step(t) => Rank(t)' < Rank(t)
  /\ \/ Rank(t)' < Rank(t)
     \/ UNCHANGED <<Rank(t), pc[t]>>
     \/ Rank(t) = 0 /\ started < MaxRequests /\ started' = started + 1

StepsRunOut == [][\A t \in Threads : Nearer(t)]_vars

THEOREM RequestsRunOut ==
  Spec => StepsRunOut /\ [](\A t \in Threads : Rank(t) \in 0 .. 11 /\ (Rank(t) = 0 <=> pc[t] = "idle"))
  <1>1. WayInv => \A t \in Threads : Rank(t) \in 0 .. 11 /\ (Rank(t) = 0 <=> pc[t] = "idle")
    BY RankIsNatural DEF WayInv, SealInv
  <1>2. ASSUME WayInv, Next, NEW t \in Threads PROVE Nearer(t)
    <2> USE DEF files, store, locals, bounds, past
    <2>0. TypeOK
      BY <1>2 DEF WayInv, SealInv
    <2>1. ASSUME Unmoved(t) PROVE UNCHANGED <<Rank(t), pc[t]>>
      BY <2>1 DEF Unmoved, Rank
    <2>2. ASSUME Step(t) PROVE Rank(t)' < Rank(t)
      BY <1>2, <2>2, StepLowersRank
    <2>3. ASSUME NEW u \in Threads, Step(u)
          PROVE  Rank(t)' < Rank(t) \/ UNCHANGED <<Rank(t), pc[t]>>
      BY <1>2, <2>1, <2>2, <2>3, StepLowersRank DEF Moves
    <2>4. ASSUME NEW u \in Threads, NEW r \in Request, Start(u, r)
          PROVE  \/ UNCHANGED <<Rank(t), pc[t]>>
                 \/ Rank(t) = 0 /\ started < MaxRequests /\ started' = started + 1
      <3>1. Moves(u) /\ pc[u] = "idle"
        BY <2>0, <2>4, StartMoves
      <3>2. started < MaxRequests /\ started' = started + 1
        BY <2>4 DEF Start, StartPost, StartDelete, StartReshare, StartProfile, StartApprove,
                    StartRemove, Accept
      <3>3. Rank(u) = 0
        BY <2>0, <3>1, RankIsNatural
      <3> QED
        BY <2>1, <3>1, <3>2, <3>3 DEF Moves
    <2>5. ASSUME Crash PROVE Rank(t)' < Rank(t) \/ UNCHANGED <<Rank(t), pc[t]>>
      <3>1. pc'[t] = "idle" /\ erasing'[t] = FALSE
        BY <2>5 DEF Crash
      <3>2. Rank(t)' = 0
        BY <3>1, RankTable DEF Rank
      <3>3. Rank(t) \in 0 .. 11 /\ (Rank(t) = 0 <=> pc[t] = "idle")
        BY <2>0, RankIsNatural
      <3>4. CASE pc[t] = "idle"
        BY <3>1, <3>2, <3>3, <3>4
      <3>5. CASE pc[t] # "idle"
        BY <3>2, <3>3, <3>5
      <3> QED
        BY <3>4, <3>5
    <2>6. ASSUME NEW u \in Followers, FollowRequest(u) PROVE Unmoved(t)
      BY <2>6 DEF FollowRequest, Unmoved
    <2> QED
      BY <1>2, <2>1, <2>2, <2>3, <2>4, <2>5, <2>6 DEF Next, Nearer
  <1>3. WayInv /\ [Next]_vars => [\A t \in Threads : Nearer(t)]_vars
    BY <1>2
  <1> QED
    BY WayInvariant, <1>1, <1>3, PTL DEF Spec, StepsRunOut
=============================================================================
