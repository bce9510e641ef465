---------------------------- MODULE StationFiles ----------------------------
(***************************************************************************)
(* The files that make a station: two key files, public.json, the database *)
(* with its write-ahead log, the manifest, and beside them the IPFS node's *)
(* identity and pins.  The station creates or loads its identity at start  *)
(* and writes the files while it serves; a daily timer backs them up       *)
(* beside it; a restore lays an archive over them, whatever is there.      *)
(*                                                                         *)
(*   station  down -> load -> up                                           *)
(*            load -> mlkem -> mlkem_cut -> mldsa -> mldsa_cut -> public   *)
(*                 -> up                                                   *)
(*   backup   idle -> copy (file by file) -> pins -> export -> idle        *)
(*   restore  idle -> files (one by one) -> node -> content -> idle        *)
(*                                                                         *)
(* Each may die at any step.  public.json and the manifest are replaced    *)
(* atomically by the station; key files, and every file a restore copies,  *)
(* are truncated and then filled.                                          *)
(***************************************************************************)
EXTENDS BackupDest

CONSTANTS
  Posts,          \* posts
  StandingDirs,   \* directories that remain when nothing is mounted there
  Drives,         \* mount points of removable drives
  DataMounts,     \* mount points that are always there
  NamedDests,     \* destinations the owner names, or NoDest for none
  NoFile, Torn,   \* no such file; a file truncated and not filled
  MaxIds,         \* bound: identities ever made
  MaxRequests,    \* bound: posts, deletes and commits to the database
  MaxEnds,        \* bound: deaths and stops of the station
  MaxBackups,     \* bound: backups started
  MaxRestores,    \* bound: restores started
  MaxLosses       \* bound: disks lost

Files == {"mlkem", "mldsa", "public", "db", "manifest"}

ASSUME LayoutIsPaths ==
  /\ Drives \cup DataMounts \subseteq Seq(STRING)
  /\ NamedDests \subseteq Seq(STRING) \cup {NoDest}

(* The keys and the uid; public.json holds them too, beside its pointers,   *)
(* whose values PublicJson and PostStore are about.                         *)
Identity == [mlkem : Nat, mldsa : Nat, uid : Nat]

ASSUME FilesTypes ==
  /\ {MaxIds, MaxRequests, MaxEnds, MaxBackups, MaxRestores, MaxLosses} \subseteq Nat
  /\ NoFile # Torn
  /\ \A none \in {NoFile, Torn} : none \notin Nat /\ none \notin Identity

NoIdentity == [mlkem |-> 0, mldsa |-> 0, uid |-> 0]

(* Database contents are numbered by the commit that made them; Mixed is    *)
(* what SQLite makes of a log that belongs to another database file.        *)
Mixed == 0
Empty == 1
NoLog == [on |-> 0, top |-> 0]

NoJob == [op |-> "none"]
NoArchive == [files |-> [f \in Files |-> NoFile], peer |-> 0, content |-> {},
              at |-> NoDest, auto |-> FALSE,
              of |-> NoIdentity, rows |-> 0, expect |-> {}]

VARIABLES
  disk,     \* file -> its content
  wal,      \* the database's log: the file it belongs to and the newest commit
  pinned,   \* posts whose content the IPFS node has pinned
  peer,     \* the IPFS node's identity, 0 for none
  pc,       \* the station's next step
  mem,      \* the identity the station has cached
  job,      \* the request the station is carrying out
  bk,       \* the backup's next step
  stage,    \* what the backup has collected
  todo,     \* roots still to be exported
  archive,  \* the newest archive, or the one being restored
  dev,      \* the mount point the archive lies under
  rs,       \* the restore's next step
  left,     \* archive members still to be copied
  mounted,  \* mount points in use
  counts,   \* what has been used of the bounds
  known,    \* history: identity the station last served with, until a restore
  alone,    \* history: no restore has run beside the station since it started
  clean,    \* history: nothing has disturbed this restore so far
  over,     \* history: the restore found files or a log it does not replace
  rebuilt   \* history: a clean restore has ended and nothing was written, or archived, since

node == <<pinned, peer>>
station == <<pc, mem, job>>
backup == <<bk, stage, todo>>
stored == <<archive, dev>>
restore == <<rs, left, clean, over>>
past == <<known, alone, rebuilt>>
vars == <<disk, wal, node, station, backup, stored, restore, mounted, counts, past>>

Bounds == [ids |-> MaxIds, requests |-> MaxRequests, ends |-> MaxEnds, backups |-> MaxBackups,
           restores |-> MaxRestores, losses |-> MaxLosses]

Count(what) ==
  /\ counts[what] < Bounds[what]
  /\ counts' = [counts EXCEPT ![what] = @ + 1]

Init ==
  /\ disk = [f \in Files |-> NoFile] /\ wal = NoLog
  /\ pinned = {} /\ peer = 1
  /\ pc = "down" /\ mem = NoIdentity /\ job = NoJob
  /\ bk = "idle" /\ stage = NoArchive /\ todo = {}
  /\ archive = NoArchive /\ dev = Root
  /\ rs = "idle" /\ left = {} /\ clean = FALSE /\ over = FALSE
  /\ mounted = DataMounts \cup Drives
  /\ counts = [b \in DOMAIN Bounds |-> IF b = "ids" THEN 1 ELSE 0]
  /\ known = NoIdentity /\ alone = FALSE /\ rebuilt = FALSE

----------------------------------------------------------------------------
(* Starting the station *)

Replace(file, content) == disk' = [disk EXCEPT ![file] = content]

Present(file) == disk[file] # NoFile

(* What opening the database finds: the log is replayed over the file.  A   *)
(* file cut by a restore is refused, or read as empty.                      *)
Recovered ==
  IF wal = NoLog THEN disk["db"]
  ELSE IF wal.on = disk["db"] THEN wal.top ELSE Mixed

Start ==   \* startup: ensure_directories, get_db
  /\ pc = "down" /\ peer # 0
  /\ pc' = "load"
  /\ IF Present("db") /\ disk["db"] # Torn
     THEN Replace("db", Recovered)
     ELSE Replace("db", Empty)
  /\ wal' = NoLog
  /\ clean' = FALSE /\ alone' = (rs = "idle")
  /\ UNCHANGED <<node, mem, job, backup, stored, rs, left, over, mounted, counts, known, rebuilt>>

BothKeys == Present("mlkem") /\ Present("mldsa")

Serve(identity) ==
  /\ pc' = "up"
  /\ mem' = identity
  /\ known' = IF alone THEN identity ELSE NoIdentity
  /\ UNCHANGED <<alone, rebuilt>>

NewUid == counts.ids + 1

UncheckedLoadMutant ==   \* mutant: the length of a key file is not checked
  /\ pc = "load" /\ BothKeys
  /\ disk["public"] # Torn /\ counts.ids < MaxIds
  /\ mem' = [mlkem |-> disk["mlkem"], mldsa |-> disk["mldsa"], uid |-> NewUid]
  /\ pc' = "up"
  /\ UNCHANGED <<disk, wal, node, job, backup, stored, restore, mounted, counts, past>>

(* Both key files are there: read them and public.json, and write the keys  *)
(* into public.json.                                                        *)
Load ==
  /\ pc = "load" /\ BothKeys
  /\ \A f \in {"mlkem", "mldsa", "public"} : disk[f] # Torn
  /\ LET public == [mlkem |-> disk["mlkem"], mldsa |-> disk["mldsa"],
                    uid |-> IF Present("public") THEN disk["public"].uid ELSE NewUid]
     IN  Replace("public", public) /\ Serve(public)
  /\ IF Present("public") THEN UNCHANGED counts ELSE Count("ids")
  /\ UNCHANGED <<wal, node, job, backup, stored, restore, mounted>>

(* A torn file makes load_identity raise, and the process ends. *)
LoadFails ==
  /\ pc = "load" /\ BothKeys
  /\ \E f \in {"mlkem", "mldsa", "public"} : disk[f] = Torn
  /\ pc' = "down" /\ alone' = FALSE
  /\ UNCHANGED <<disk, wal, node, mem, job, backup, stored, restore, mounted, counts, known, rebuilt>>

Bootstrap ==
  /\ pc = "load" /\ ~BothKeys
  /\ Count("ids")
  /\ mem' = [mlkem |-> NewUid, mldsa |-> NewUid, uid |-> NewUid]
  /\ pc' = "mlkem"
  /\ UNCHANGED <<disk, wal, node, job, backup, stored, restore, mounted, past>>

WriteKey(step, next, file, content) ==
  /\ pc = step /\ pc' = next
  /\ Replace(file, content)
  /\ UNCHANGED <<wal, node, mem, job, backup, stored, restore, mounted, counts, past>>

WriteKeys ==
  \/ WriteKey("mlkem", "mlkem_cut", "mlkem", Torn)
  \/ WriteKey("mlkem_cut", "mldsa", "mlkem", mem.mlkem)
  \/ WriteKey("mldsa", "mldsa_cut", "mldsa", Torn)
  \/ WriteKey("mldsa_cut", "public", "mldsa", mem.mldsa)

FirstPublic ==
  /\ pc = "public"
  /\ Replace("public", mem)
  /\ Serve(mem)
  /\ UNCHANGED <<wal, node, job, backup, stored, restore, mounted, counts>>

----------------------------------------------------------------------------
(* The station at work.  A request pins its content, saves the manifest and *)
(* writes the pointer, in this order; a delete unpins at the end.  What is  *)
(* under way when a restore is started goes on; new work waits for its end. *)

Working(op) == pc = "up" /\ job.op = op
Taking == Working("none") /\ rs = "idle" /\ Count("requests")

Manifest == IF disk["manifest"] \in {NoFile, Torn} THEN {} ELSE disk["manifest"]

Worked == rebuilt' = FALSE /\ UNCHANGED <<pc, mem, backup, stored, restore, mounted, known, alone>>

Pin(p) ==
  /\ Taking
  /\ p \notin Manifest
  /\ pinned' = pinned \cup {p}
  /\ job' = [op |-> "list", post |-> p]
  /\ UNCHANGED <<disk, wal, peer>>
  /\ Worked

SaveManifest(posts, gone) ==
  /\ Replace("manifest", posts)
  /\ job' = [op |-> "point", gone |-> gone]
  /\ UNCHANGED <<wal, node>>
  /\ Worked

List ==
  /\ Working("list")
  /\ SaveManifest(Manifest \cup {job.post}, {})
  /\ UNCHANGED counts

Unlist(p) ==
  /\ Taking /\ p \in Manifest
  /\ SaveManifest(Manifest \ {p}, {p})

TornPointMutant ==   \* mutant: public.json is opened for writing in place
  \/ /\ Working("point")
     /\ Replace("public", Torn)
     /\ job' = [op |-> "point2", gone |-> job.gone]
     /\ UNCHANGED <<wal, node, counts>>
     /\ Worked
  \/ /\ Working("point2")
     /\ Replace("public", mem)
     /\ job' = [op |-> "unpin", gone |-> job.gone]
     /\ UNCHANGED <<wal, node, counts>>
     /\ Worked

(* The manifest is added to IPFS, where the request may fail; public.json is *)
(* parsed and replaced, or left alone when it cannot be parsed.              *)
Point ==
  /\ Working("point")
  /\ job' \in {NoJob} \cup {[op |-> "unpin", gone |-> gone] : gone \in {job.gone} \ {{}}}
  /\ UNCHANGED <<disk, wal, node, counts>>
  /\ Worked

Unpin ==
  /\ Working("unpin")
  /\ pinned' = pinned \ job.gone
  /\ job' = NoJob
  /\ stage' = [stage EXCEPT !.expect = @ \ job.gone]
  /\ rebuilt' = FALSE
  /\ UNCHANGED <<disk, wal, peer, counts, pc, mem, bk, todo, stored, restore, mounted, known, alone>>

(* A follow request, an approval, a pairing: rows change in the log. *)
Commit ==
  /\ pc = "up" /\ rs = "idle" /\ disk["db"] # Torn
  /\ Count("requests")
  /\ wal' = [on |-> disk["db"], top |-> Empty + counts'.requests]
  /\ UNCHANGED <<disk, node, job>>
  /\ Worked

Checkpoint ==   \* SQLite's own: the log is moved into the file
  /\ pc = "up" /\ wal # NoLog
  /\ Replace("db", Recovered)
  /\ wal' = NoLog
  /\ UNCHANGED <<node, station, backup, stored, restore, mounted, counts, past>>

StationEnds ==   \* stopped or killed; what it wrote is written
  /\ pc # "down"
  /\ Count("ends")
  /\ pc' = "down" /\ mem' = NoIdentity /\ job' = NoJob /\ alone' = FALSE
  /\ UNCHANGED <<disk, wal, node, backup, stored, restore, mounted, known, rebuilt>>

----------------------------------------------------------------------------
(* Backup *)

BackupOrder == <<"mldsa", "mlkem", "public", "db", "manifest">>

Existing == {root \in ProtectedRoots :
               \/ root = BaseDir /\ \E f \in Files : Present(f)
               \/ root = IpfsRepo /\ peer # 0
               \/ root \in DataRoot}

IsDirectory(path) == path \in mounted \cup StandingDirs

StartBackup ==
  /\ bk = "idle"
  /\ Count("backups")
  /\ \E named \in NamedDests :
       LET dest == ResolveDest(named, mounted, Existing)
       IN  /\ dest # NoDest /\ IsDirectory(dest) /\ ~Collides(dest)
           /\ stage' = [NoArchive EXCEPT !.at = dest, !.auto = (named = NoDest), !.of = known, !.rows = IF known = NoIdentity THEN 0 ELSE Recovered]
  /\ bk' = "copy" /\ todo' = Files
  /\ UNCHANGED <<disk, wal, node, station, stored, restore, mounted, past>>

(* The database is read through its log, the other files as they are. *)
PlainCopyMutant(file) == disk[file]   \* mutant: the database file is copied without its log
Snapshot(file) == IF file = "db" /\ Present("db") THEN Recovered ELSE disk[file]

CopyFile ==
  /\ bk = "copy" /\ todo # {}
  /\ LET file == BackupOrder[6 - Cardinality(todo)]
     IN  /\ ~ (file = "db" /\ disk["db"] = Torn)
         /\ stage' = [stage EXCEPT !.files[file] = Snapshot(file),
                                   !.expect = IF file = "manifest" THEN Manifest \cap pinned ELSE @]
         /\ todo' = todo \ {file}
  /\ bk' = IF Cardinality(todo) = 1 THEN "pins" ELSE "copy"
  /\ UNCHANGED <<disk, wal, node, station, stored, restore, mounted, counts, past>>

(* The node's identity and the roots it has pinned; listing may fail. *)
ListPins ==
  /\ bk = "pins" /\ bk' = "export"
  /\ \/ /\ todo' = pinned
        /\ stage' = [stage EXCEPT !.peer = peer]
     \/ /\ todo' = {}
        /\ stage' = [stage EXCEPT !.peer = peer, !.expect = {}]
  /\ UNCHANGED <<disk, wal, node, station, stored, restore, mounted, counts, past>>

(* A root that cannot be exported is left out with a warning. *)
Export(p) ==
  /\ bk = "export" /\ p \in todo
  /\ todo' = todo \ {p}
  /\ \/ p \in pinned /\ stage' = [stage EXCEPT !.content = @ \cup {p}]
     \/ stage' = [stage EXCEPT !.expect = @ \ {p}]
  /\ UNCHANGED <<disk, wal, node, station, bk, stored, restore, mounted, counts, past>>

BackupOver == bk' = "idle" /\ stage' = NoArchive /\ todo' = {}

(* The archive appears under its name in one step, if the directory is      *)
(* still there; on what disk that is, depends on what is mounted now.       *)
Pack ==
  /\ bk = "export" /\ todo = {}
  /\ IsDirectory(stage.at)
  /\ IF rs = "idle"
     THEN archive' = [stage EXCEPT !.at = NoDest] /\ dev' = Device(mounted, stage.at)
     ELSE UNCHANGED stored
  /\ rebuilt' = FALSE
  /\ BackupOver
  /\ UNCHANGED <<disk, wal, node, station, restore, mounted, counts, known, alone>>

BackupDies ==
  /\ bk # "idle"
  /\ BackupOver
  /\ UNCHANGED <<disk, wal, node, station, stored, restore, mounted, counts, past>>

----------------------------------------------------------------------------
(* Restore *)

Members == {f \in Files : archive.files[f] # NoFile}

(* The two key files and public.json of an archive belong together. *)
Paired ==
  /\ \A f \in {"mlkem", "mldsa", "public"} : archive.files[f] \notin {NoFile, Torn}
  /\ archive.files["public"].mlkem = archive.files["mlkem"]
  /\ archive.files["public"].mldsa = archive.files["mldsa"]

Whole == Paired /\ \A f \in Members : archive.files[f] # Torn

StartRestore(force) ==
  /\ rs = "idle"
  /\ archive # NoArchive /\ dev \in mounted \cup {Root}
  /\ force \/ \A f \in {"db", "mlkem", "mldsa"} : ~Present(f)
  /\ Count("restores")
  /\ rs' = "files" /\ left' = Members
  /\ known' = NoIdentity /\ alone' = FALSE /\ rebuilt' = FALSE
  /\ clean' = (pc = "down" /\ Whole)
  /\ over' = (wal # NoLog \/ \E f \in Files \ Members : Present(f))
  /\ stage' = [stage EXCEPT !.of = NoIdentity]
  /\ archive' = [archive EXCEPT !.of = NoIdentity, !.rows = 0, !.expect = {}, !.auto = FALSE]
  /\ UNCHANGED <<disk, wal, node, station, bk, todo, dev, mounted>>

(* rglob lists the files at the top first, then directory by directory, in  *)
(* whatever order these have.                                               *)
Top == {"public", "db"}
Keys == {"mlkem", "mldsa"}
KeysBegun == left \cap Keys \notin {{}, Members \cap Keys}

Listed ==
  IF left \cap Top # {} THEN left \cap Top
  ELSE IF KeysBegun THEN left \cap Keys ELSE left

KeepExistingMutant(f) ==   \* mutant: a file that is there is not overwritten
  /\ rs = "files" /\ f \in Listed
  /\ IF Present(f) THEN UNCHANGED disk ELSE Replace(f, archive.files[f])
  /\ left' = left \ {f}
  /\ UNCHANGED <<wal, node, station, backup, stored, rs, clean, over, mounted, counts, past>>

CopyBack(f) ==
  /\ rs = "files" /\ f \in Listed
  /\ Replace(f, archive.files[f])
  /\ left' = left \ {f}
  /\ UNCHANGED <<wal, node, station, backup, stored, rs, clean, over, mounted, counts, past>>

RestoreNode ==
  /\ rs = "files" /\ left = {}
  /\ rs' = "content"
  /\ peer' = IF archive.peer = 0 THEN peer ELSE archive.peer
  /\ UNCHANGED <<disk, wal, pinned, station, backup, stored, left, clean, over, mounted, counts, past>>

RestoreContent ==
  /\ rs = "content" /\ peer # 0
  /\ rs' = "idle"
  /\ pinned' = pinned \cup archive.content
  /\ rebuilt' = clean
  /\ UNCHANGED <<disk, wal, peer, station, backup, stored, left, clean, over, mounted, counts, known, alone>>

(* An error, a full disk or a kill ends it; what was copied stays, and the  *)
(* file it was copying is cut.                                              *)
RestoreDies ==
  /\ rs # "idle"
  /\ rs' = "idle" /\ left' = {}
  /\ \/ UNCHANGED disk
     \/ \E f \in Listed : Replace(f, Torn)
  /\ clean' = FALSE /\ over' = FALSE
  /\ UNCHANGED <<wal, node, station, backup, stored, mounted, counts, past>>

----------------------------------------------------------------------------
(* The owner and the hardware.  Drives come and go while a backup runs: at  *)
(* other times nobody looks at them.                                        *)

Plug(m) ==
  /\ bk # "idle"
  /\ m \in Drives \ mounted
  /\ mounted' = mounted \cup {m}
  /\ UNCHANGED <<disk, wal, node, station, backup, stored, restore, counts, past>>

Unplug(m) ==
  /\ bk # "idle"
  /\ m \in Drives \cap mounted
  /\ mounted' = mounted \ {m}
  /\ stage' = [stage EXCEPT !.auto = @ /\ ~Under(stage.at, m)]
  /\ UNCHANGED <<disk, wal, node, station, bk, todo, stored, restore, counts, past>>

(* The disk the station lives on fails, once everything on it has died; a   *)
(* new one has nothing on it.  It fails between a backup and a restore: at  *)
(* other times that only leads back to the beginning.                       *)
LoseDisk ==
  /\ pc = "down" /\ bk = "idle" /\ rs = "idle"
  /\ archive # NoArchive /\ counts.restores = 0
  /\ Count("losses")
  /\ disk' = [f \in Files |-> NoFile] /\ wal' = NoLog
  /\ pinned' = {} /\ peer' = 0
  /\ IF dev = Device(mounted, BaseDir)
     THEN archive' = NoArchive /\ dev' = Root
     ELSE UNCHANGED stored
  /\ known' = NoIdentity /\ alone' = FALSE /\ rebuilt' = FALSE
  /\ UNCHANGED <<station, backup, restore, mounted>>

InitNode ==   \* ipfs init, by the installer or the restore
  /\ peer = 0
  /\ Count("ids")
  /\ peer' = counts.ids + 1
  /\ UNCHANGED <<disk, wal, pinned, station, backup, stored, restore, mounted, past>>

Next ==
  \/ Start \/ Load \/ LoadFails \/ Bootstrap \/ WriteKeys \/ FirstPublic
  \/ \E p \in Posts : Pin(p) \/ Unlist(p) \/ Export(p)
  \/ List \/ Point \/ Unpin \/ Commit \/ Checkpoint \/ StationEnds
  \/ StartBackup \/ CopyFile \/ ListPins \/ Pack \/ BackupDies
  \/ \E force \in BOOLEAN : StartRestore(force)
  \/ \E f \in Files : CopyBack(f)
  \/ RestoreNode \/ RestoreContent \/ RestoreDies
  \/ \E m \in Drives : Plug(m) \/ Unplug(m)
  \/ LoseDisk \/ InitNode

Spec == Init /\ [][Next]_vars

----------------------------------------------------------------------------
(* Properties *)

Fits(file, content) ==
  \/ content \in {NoFile, Torn}
  \/ file = "public" /\ content \in Identity
  \/ file = "manifest" /\ content \subseteq Posts
  \/ file \in {"mlkem", "mldsa", "db"} /\ content \in Nat

Job ==
       {NoJob} \cup [op : {"list"}, post : Posts]
  \cup [op : {"point", "unpin"}, gone : SUBSET Posts]

IsArchive(a) ==
  /\ DOMAIN a = DOMAIN NoArchive
  /\ DOMAIN a.files = Files /\ \A f \in Files : Fits(f, a.files[f])
  /\ a.files["db"] # Torn
  /\ {a.peer, a.rows} \subseteq Nat /\ a.of \in Identity
  /\ {a.content, a.expect} \subseteq SUBSET Posts
  /\ a.auto \in BOOLEAN

(* Every variable keeps its type. *)
TypeOK ==
  /\ DOMAIN disk = Files /\ \A f \in Files : Fits(f, disk[f])
  /\ wal \in [on : Nat, top : Nat]
  /\ pinned \subseteq Posts /\ peer \in Nat
  /\ pc \in {"down", "load", "mlkem", "mlkem_cut", "mldsa", "mldsa_cut", "public", "up"}
  /\ mem \in Identity /\ known \in Identity
  /\ job \in Job
  /\ bk \in {"idle", "copy", "pins", "export"} /\ rs \in {"idle", "files", "content"}
  /\ IsArchive(stage) /\ IsArchive(archive)
  /\ todo \subseteq IF bk = "copy" THEN Files ELSE Posts
  /\ left \subseteq Members
  /\ {clean, over, alone, rebuilt} \subseteq BOOLEAN
  /\ counts \in [DOMAIN Bounds -> Nat]

(* Once a station has served, wherever it is killed, its files can be       *)
(* loaded and give the identity it served with, until a restore is started; *)
(* and keys made together stay together (identity.py:114-191).              *)
KeepsIdentity ==
  /\ known # NoIdentity =>
       /\ disk["mlkem"] = known.mlkem /\ disk["mldsa"] = known.mldsa
       /\ disk["public"] \in Identity /\ disk["public"].uid = known.uid
  /\ counts.restores = 0 => known.mlkem = known.mldsa

(* A backup made beside a station that has served holds that station's      *)
(* identity and all rows committed before it began; and any backup holds    *)
(* the content of every post that its manifest lists and the node had,      *)
(* except what was deleted, or could not be exported, while it ran          *)
(* (backup.py:493-545).                                                     *)
ArchiveIsStation ==
  /\ archive.of # NoIdentity =>
       /\ Paired
       /\ archive.files["mlkem"] = archive.of.mlkem /\ archive.files["mldsa"] = archive.of.mldsa
       /\ archive.files["public"].uid = archive.of.uid
       /\ archive.files["db"] >= archive.rows
  /\ archive.expect \subseteq archive.content

Rebuilt ==
  /\ \A f \in Files \ {"db"} : disk[f] = archive.files[f]
  /\ archive.files["db"] # NoFile => Recovered = archive.files["db"]
  /\ archive.content \subseteq pinned
  /\ archive.peer # 0 => peer = archive.peer
  /\ pc = "up" => mem = [mlkem |-> archive.files["mlkem"], mldsa |-> archive.files["mldsa"],
                         uid |-> archive.files["public"].uid]

(* Whatever was there before, cut restores and torn files included, a       *)
(* restore that runs to its end beside a stopped station gives the station  *)
(* of the archive, before and after its start, if every file and the log it *)
(* found are ones it replaces (backup.py:668-731).                          *)
RestoreRebuilds == rebuilt /\ ~over => Rebuilt

(* No archive lies on a data volume of the station's own, and a drive the   *)
(* backup picked itself is no disk the station lives on, unless it was      *)
(* unmounted while the backup ran: the archive is still there when the      *)
(* station's disk is lost (backup.py:251-291, 355-409).                     *)
BackupOutlivesDisk ==
  /\ archive # NoArchive => dev \notin DataRoot \cap DataMounts
  /\ archive.auto => \A root \in ProtectedRoots \cap Existing : dev # Device(mounted, root)
=============================================================================
