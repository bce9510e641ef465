-------------------------- MODULE StationFiles_proofs --------------------------
(***************************************************************************)
(* Theorems about StationFiles, for any bounds, drives and destinations.   *)
(*                                                                         *)
(* KeepsIdentity is about the ends of the start-up code; what is inductive *)
(* is what each of its steps finds (IdInv): until a first restore the      *)
(* second key file is never there without the first one whole and its own, *)
(* and a station that starts from nothing has never served.                *)
(*                                                                         *)
(* RestoreRebuilds is about the end of a restore; what is inductive is     *)
(* what is done so far (Restoring): every file of the archive is either    *)
(* still to be copied or as in the archive.                                *)
(*                                                                         *)
(* BackupOutlivesDisk needs no look at the disks at the end: a path that   *)
(* contains no data directory is no mount point above one (ApartFromRoots),*)
(* whatever is mounted, and what a backup picks is a mount point (Located).*)
(*                                                                         *)
(* ArchiveIsStation is about a finished archive; what is inductive is what *)
(* the backup has collected so far (Collected, Exported): a file is still  *)
(* to be copied, or is the identity's and holds the rows of the start.     *)
(* For the rows, commits are numbered upwards through the log and its      *)
(* checkpoints (Numbered), and a station that serves has a database that   *)
(* no restore has cut (Serving).                                           *)
(***************************************************************************)
EXTENDS StationFiles, FiniteSetTheorems, SequenceTheorems, WellFoundedInduction, TLAPS

USE FilesTypes

Steps == {"down", "load", "mlkem", "mlkem_cut", "mldsa", "mldsa_cut", "public", "up"}
Boot == {"mlkem", "mlkem_cut", "mldsa", "mldsa_cut", "public"}

KeyTypes(files) ==
  /\ DOMAIN files = Files
  /\ {files["mlkem"], files["mldsa"]} \subseteq Nat \cup {NoFile, Torn}
  /\ files["public"] \in Identity \cup {NoFile, Torn}

ArchiveTypes(a) == DOMAIN a = DOMAIN NoArchive /\ KeyTypes(a.files)

CountTypes ==
  counts \in [{"ids", "requests", "ends", "backups", "restores", "losses"} -> Nat]

Types ==
  /\ KeyTypes(disk) /\ ArchiveTypes(stage) /\ ArchiveTypes(archive)
  /\ CountTypes
  /\ pc \in Steps /\ mem \in Identity /\ known \in Identity
  /\ rs \in {"idle", "files", "content"}
  /\ left \subseteq IF rs = "files" THEN Members ELSE {}

LEMMA CountStep ==
  ASSUME CountTypes, NEW what \in {"ids", "requests", "ends", "backups", "restores", "losses"}, Count(what)
  PROVE  /\ CountTypes' /\ counts'[what] = counts[what] + 1
         /\ \A other \in DOMAIN Bounds \ {what} : counts'[other] = counts[other]
BY DEF CountTypes, Count, Bounds

LEMMA ReplaceTypes ==
  ASSUME KeyTypes(disk), NEW file \in Files, NEW content, Replace(file, content),
         file \in {"mlkem", "mldsa"} => content \in Nat \cup {NoFile, Torn},
         file = "public" => content \in Identity \cup {NoFile, Torn}
  PROVE  /\ KeyTypes(disk') /\ disk'[file] = content
         /\ \A other \in Files \ {file} : disk'[other] = disk[other]
BY DEF KeyTypes, Replace, Files

LEMMA InitTypes == Init => Types
<1> SUFFICES ASSUME Init PROVE Types
  OBVIOUS
<1>1. CountTypes
  BY DEF Init, CountTypes, Bounds
<1>2. NoIdentity \in Identity
  BY DEF NoIdentity, Identity
<1>3. KeyTypes([f \in Files |-> NoFile])
  BY DEF KeyTypes, Files
<1>4. ArchiveTypes(NoArchive)
  BY <1>3 DEF ArchiveTypes, NoArchive
<1> QED BY <1>1, <1>2, <1>3, <1>4 DEF Init, Types, Steps

----------------------------------------------------------------------------
(* Each part of Types is disturbed by few actions. *)

LEMMA SnapshotTypes ==
  ASSUME KeyTypes(disk), ArchiveTypes(stage), CopyFile
  PROVE  ArchiveTypes(stage')
<1> DEFINE file == BackupOrder[6 - Cardinality(todo)]
<1>1. stage' = [stage EXCEPT !.files[file] = Snapshot(file),
                             !.expect = IF file = "manifest" THEN Manifest \cap pinned ELSE @]
  BY DEF CopyFile
<1>2. DOMAIN stage' = DOMAIN stage
  BY <1>1
<1>3. stage'.files = [stage.files EXCEPT ![file] = Snapshot(file)]
  BY <1>1 DEF ArchiveTypes, NoArchive
<1>4. file # "db" => Snapshot(file) = disk[file]
  BY DEF Snapshot
<1> HIDE DEF file
<1>5. KeyTypes(stage'.files)
  BY <1>3, <1>4 DEF ArchiveTypes, KeyTypes, Files
<1> QED BY <1>2, <1>5 DEF ArchiveTypes

LEMMA StageTypes ==
  ASSUME Types, [Next]_vars
  PROVE  ArchiveTypes(stage')
<1>1. CASE CopyFile
  BY <1>1, SnapshotTypes DEF Types
<1>2. ArchiveTypes(NoArchive)
  BY DEF ArchiveTypes, NoArchive, KeyTypes, Files
<1>3. CASE StartBackup
  BY <1>2, <1>3 DEF StartBackup, ArchiveTypes, NoArchive
<1>4. CASE Pack \/ BackupDies
  BY <1>2, <1>4 DEF Pack, BackupDies, BackupOver
<1>5. CASE stage' = stage
  BY <1>5 DEF Types
<1>6. CASE ListPins
  BY <1>6 DEF ListPins, Types, ArchiveTypes, NoArchive
<1>7. ASSUME NEW p \in Posts, Export(p) PROVE ArchiveTypes(stage')
  BY <1>7 DEF Export, Types, ArchiveTypes, NoArchive
<1>8. CASE Unpin
  BY <1>8 DEF Unpin, Types, ArchiveTypes, NoArchive
<1>9. ASSUME NEW force \in BOOLEAN, StartRestore(force) PROVE ArchiveTypes(stage')
  BY <1>9 DEF StartRestore, Types, ArchiveTypes, NoArchive
<1>10. ASSUME NEW m \in Drives, Unplug(m) PROVE ArchiveTypes(stage')
  BY <1>10 DEF Unplug, Types, ArchiveTypes, NoArchive
<1>11. ASSUME NEW p \in Posts, Pin(p) \/ Unlist(p) PROVE stage' = stage
  BY <1>11 DEF Pin, Unlist, SaveManifest, Worked, backup
<1>12. ASSUME NEW f \in Files, CopyBack(f) PROVE stage' = stage
  BY <1>12 DEF CopyBack, backup
<1>13. ASSUME NEW m \in Drives, Plug(m) PROVE stage' = stage
  BY <1>13 DEF Plug, backup
<1>14. CASE Start \/ Load \/ LoadFails \/ Bootstrap \/ WriteKeys \/ FirstPublic
  BY <1>14, <1>5 DEF Start, Load, LoadFails, Bootstrap, WriteKeys, WriteKey, FirstPublic, backup
<1>15. CASE List \/ Point \/ Commit \/ Checkpoint \/ StationEnds
  BY <1>15, <1>5 DEF List, SaveManifest, Point, Commit, Checkpoint, StationEnds, Worked, backup
<1>16. CASE RestoreNode \/ RestoreContent \/ RestoreDies \/ LoseDisk \/ InitNode
  BY <1>16, <1>5 DEF RestoreNode, RestoreContent, RestoreDies, LoseDisk, InitNode, backup
<1>17. CASE UNCHANGED vars
  BY <1>17, <1>5 DEF vars, backup
<1> QED
  BY <1>1, <1>3, <1>4, <1>5, <1>6, <1>7, <1>8, <1>9, <1>10, <1>11, <1>12, <1>13, <1>14, <1>15, <1>16, <1>17
  DEF Next

----------------------------------------------------------------------------
(* Most steps are of two kinds: those beside the station's files and the    *)
(* restore, and those of a station at work, which leave its keys alone.     *)

SameCounts == CountTypes' /\ counts'.restores = counts.restores /\ counts'.requests >= counts.requests

Apart ==
  /\ UNCHANGED <<disk, wal, pinned, peer, pc, mem, archive, rs, left, clean, over, known, alone, rebuilt>>
  /\ SameCounts

AtWork ==
  /\ pc = "up"
  /\ UNCHANGED <<pc, mem, archive, rs, left, clean, over, known, alone>>
  /\ UNCHANGED <<disk["mlkem"], disk["mldsa"], disk["public"]>> /\ KeyTypes(disk')
  /\ UNCHANGED <<disk["db"], wal>> \/ Commit \/ Checkpoint
  /\ SameCounts
  /\ rebuilt' = FALSE \/ (wal # NoLog /\ rebuilt' = rebuilt)

LEMMA ApartSteps ==
  ASSUME Types
  PROVE  /\ StartBackup \/ CopyFile \/ ListPins \/ BackupDies => Apart
         /\ \A p \in Posts : Export(p) => Apart
         /\ \A m \in Drives : Plug(m) \/ Unplug(m) => Apart
         /\ UNCHANGED vars => Apart
<1> USE DEF Types, Apart, SameCounts, node, station, backup, stored, restore, past
<1>1. StartBackup => Apart
  BY CountStep DEF StartBackup, Bounds, CountTypes
<1>2. CopyFile \/ ListPins \/ BackupDies => Apart
  BY DEF CopyFile, ListPins, BackupDies, CountTypes
<1>3. ASSUME NEW p \in Posts, Export(p) PROVE Apart
  BY <1>3 DEF Export, CountTypes
<1>4. ASSUME NEW m \in Drives, Plug(m) \/ Unplug(m) PROVE Apart
  BY <1>4 DEF Plug, Unplug, CountTypes
<1>5. UNCHANGED vars => Apart
  BY DEF vars, CountTypes
<1> QED BY <1>1, <1>2, <1>3, <1>4, <1>5

LEMMA AtWorkSteps ==
  ASSUME Types
  PROVE  /\ List \/ Point \/ Unpin \/ Commit \/ Checkpoint => AtWork
         /\ \A p \in Posts : Pin(p) \/ Unlist(p) => AtWork
<1> USE DEF Types, AtWork, SameCounts, Working, Worked, node, station, backup, stored, restore, past
<1>1. \A posts, gone : SaveManifest(posts, gone) =>
        /\ UNCHANGED <<disk["mlkem"], disk["mldsa"], disk["public"], disk["db"]>> /\ KeyTypes(disk')
  BY ReplaceTypes DEF SaveManifest, Files
<1>2. List => AtWork
  BY <1>1 DEF List, SaveManifest, CountTypes
<1>3. Point => AtWork
  BY DEF Point, CountTypes
<1>4. Unpin => AtWork
  BY DEF Unpin, CountTypes
<1>5. Commit => AtWork
  BY CountStep DEF Commit, Bounds, CountTypes
<1>6. Checkpoint => AtWork
  BY ReplaceTypes DEF Checkpoint, CountTypes, Files
<1>7. ASSUME NEW p \in Posts, Pin(p) PROVE AtWork
  BY <1>7, CountStep DEF Pin, Taking, Bounds, CountTypes
<1>8. ASSUME NEW p \in Posts, Unlist(p) PROVE AtWork
  BY <1>8, <1>1, CountStep DEF Unlist, SaveManifest, Taking, Bounds, CountTypes
<1> QED BY <1>2, <1>3, <1>4, <1>5, <1>6, <1>7, <1>8

LEMMA NextCases ==
  ASSUME Types, [Next]_vars
  PROVE  \/ Apart \/ AtWork
         \/ Start \/ Load \/ LoadFails \/ Bootstrap \/ WriteKeys \/ FirstPublic \/ StationEnds
         \/ Pack \/ \E force \in BOOLEAN : StartRestore(force)
         \/ \E f \in Files : CopyBack(f)
         \/ RestoreNode \/ RestoreContent \/ RestoreDies
         \/ LoseDisk \/ InitNode
BY ApartSteps, AtWorkSteps DEF Next

----------------------------------------------------------------------------
(* Types *)

StationTypes == pc \in Steps /\ mem \in Identity /\ known \in Identity

RestoreTypes ==
  /\ ArchiveTypes(archive)
  /\ rs \in {"idle", "files", "content"}
  /\ left \subseteq IF rs = "files" THEN Members ELSE {}

LEMMA ServeTypes ==
  ASSUME NEW identity \in Identity, Serve(identity)
  PROVE  StationTypes'
BY DEF Serve, StationTypes, Steps, Identity, NoIdentity

LEMMA StartupTypes ==
  ASSUME Types, Start \/ Load \/ LoadFails \/ Bootstrap \/ WriteKeys \/ FirstPublic \/ StationEnds
  PROVE  KeyTypes(disk') /\ CountTypes' /\ StationTypes'
<1> USE DEF Types, StationTypes, Steps
<1>1. CountTypes /\ UNCHANGED counts => CountTypes'
  BY DEF CountTypes
<1>2. NewUid \in Nat /\ NoIdentity \in Identity
  BY DEF NewUid, CountTypes, NoIdentity, Identity
<1>3. CASE Start
  BY <1>1, <1>3, ReplaceTypes DEF Start, Files
<1>4. CASE Load
  <2> DEFINE public == [mlkem |-> disk["mlkem"], mldsa |-> disk["mldsa"],
                        uid |-> IF Present("public") THEN disk["public"].uid ELSE NewUid]
  <2>1. public \in Identity
    BY <1>2, <1>4 DEF Load, BothKeys, Present, KeyTypes, Identity
  <2>2. Replace("public", public) /\ Serve(public)
    BY <1>4 DEF Load
  <2>3. CountTypes'
    BY <1>1, <1>4, CountStep DEF Load
  <2> HIDE DEF public
  <2> QED BY <2>1, <2>2, <2>3, ReplaceTypes, ServeTypes DEF Files
<1>5. CASE LoadFails
  BY <1>1, <1>5 DEF LoadFails
<1>6. CASE Bootstrap
  BY <1>2, <1>6, CountStep DEF Bootstrap, Identity, past
<1>7. CASE WriteKeys
  <2>1. mem.mlkem \in Nat /\ mem.mldsa \in Nat
    BY DEF Identity
  <2>2. \A step, next : WriteKey(step, next, "mlkem", mem.mlkem) \/ WriteKey(step, next, "mldsa", mem.mldsa)
                      \/ WriteKey(step, next, "mlkem", Torn) \/ WriteKey(step, next, "mldsa", Torn)
          => KeyTypes(disk') /\ CountTypes' /\ mem' = mem /\ known' = known
    BY <1>1, <2>1, ReplaceTypes DEF WriteKey, station, past, Files
  <2>3. pc' \in Steps
    BY <1>7 DEF WriteKeys, WriteKey
  <2> QED BY <1>7, <2>2, <2>3 DEF WriteKeys
<1>8. CASE FirstPublic
  BY <1>1, <1>8, ReplaceTypes, ServeTypes DEF FirstPublic, Files
<1>9. CASE StationEnds
  BY <1>2, <1>9, CountStep DEF StationEnds
<1> QED BY <1>3, <1>4, <1>5, <1>6, <1>7, <1>8, <1>9

LEMMA StepTypes ==
  ASSUME Types, [Next]_vars
  PROVE  Types'
<1>1. ArchiveTypes(stage')
  BY StageTypes
<1>2. KeyTypes(disk') /\ CountTypes' /\ StationTypes'
  <2> USE DEF Types, StationTypes, station, past
  <2>0. CountTypes /\ UNCHANGED counts => CountTypes'
    BY DEF CountTypes
  <2>1. CASE Apart \/ AtWork
    BY <2>1 DEF Apart, AtWork, SameCounts
  <2>2. CASE Start \/ Load \/ LoadFails \/ Bootstrap \/ WriteKeys \/ FirstPublic \/ StationEnds
    BY <2>2, StartupTypes
  <2>3. CASE Pack \/ RestoreNode \/ RestoreContent
    BY <2>0, <2>3 DEF Pack, RestoreNode, RestoreContent
  <2>4. ASSUME NEW force \in BOOLEAN, StartRestore(force) PROVE KeyTypes(disk') /\ CountTypes' /\ StationTypes'
    BY <2>4, CountStep DEF StartRestore, NoIdentity, Identity
  <2>5. ASSUME NEW f \in Files, CopyBack(f) PROVE KeyTypes(disk') /\ CountTypes' /\ StationTypes'
    BY <2>0, <2>5, ReplaceTypes DEF CopyBack, ArchiveTypes, KeyTypes, Files
  <2>6. CASE RestoreDies
    BY <2>0, <2>6, ReplaceTypes DEF RestoreDies, Listed, Members
  <2>7. CASE LoseDisk
    BY <2>7, CountStep DEF LoseDisk, KeyTypes, Files, NoIdentity, Identity
  <2>8. CASE InitNode
    BY <2>8, CountStep DEF InitNode
  <2> QED BY <2>1, <2>2, <2>3, <2>4, <2>5, <2>6, <2>7, <2>8, NextCases
<1>3. RestoreTypes'
  <2> USE DEF Types, RestoreTypes, stored, restore
  <2>1. UNCHANGED <<archive, rs, left>> => RestoreTypes'
    BY DEF Members
  <2>2. CASE Apart \/ AtWork
    BY <2>1, <2>2 DEF Apart, AtWork
  <2>3. CASE Start \/ Load \/ LoadFails \/ Bootstrap \/ WriteKeys \/ FirstPublic \/ StationEnds
    BY <2>1, <2>3 DEF Start, Load, LoadFails, Bootstrap, WriteKeys, WriteKey, FirstPublic, StationEnds
  <2>4. CASE Pack
    <3>1. rs = "idle" => ArchiveTypes(archive') /\ rs' = rs /\ left' = {}
      BY <2>4 DEF Pack, ArchiveTypes, NoArchive
    <3> QED BY <2>1, <2>4, <3>1 DEF Pack
  <2>5. ASSUME NEW force \in BOOLEAN, StartRestore(force) PROVE RestoreTypes'
    BY <2>5 DEF StartRestore, ArchiveTypes, NoArchive, Members
  <2>6. ASSUME NEW f \in Files, CopyBack(f) PROVE RestoreTypes'
    BY <2>6 DEF CopyBack, Members
  <2>7. CASE RestoreNode \/ RestoreContent \/ RestoreDies
    BY <2>7 DEF RestoreNode, RestoreContent, RestoreDies
  <2>8. CASE LoseDisk
    <3>1. ArchiveTypes(NoArchive)
      BY DEF ArchiveTypes, NoArchive, KeyTypes, Files
    <3> QED BY <2>1, <2>8, <3>1 DEF LoseDisk
  <2>9. CASE InitNode
    BY <2>1, <2>9 DEF InitNode
  <2> QED BY <2>2, <2>3, <2>4, <2>5, <2>6, <2>7, <2>8, <2>9, NextCases
<1> QED BY <1>1, <1>2, <1>3 DEF Types, StationTypes, RestoreTypes

(* Every variable that names, keys or the restore are about keeps its type. *)
THEOREM FilesTyped == Spec => []Types
<1>1. Types /\ [Next]_vars => Types'
  BY StepTypes
<1> QED BY InitTypes, <1>1, PTL DEF Spec

----------------------------------------------------------------------------
(* The identity *)

NoRestoreYet == counts.restores = 0

Kept ==
  known # NoIdentity =>
    disk["mlkem"] = known.mlkem /\ disk["mldsa"] = known.mldsa /\ disk["public"] = known

(* What is on disk so far is what the start-up code has in memory. *)
Written ==
  alone \/ NoRestoreYet =>
    /\ pc \in {"mldsa", "mldsa_cut", "public"} => disk["mlkem"] = mem.mlkem
    /\ pc = "public" => disk["mldsa"] = mem.mldsa

(* Until a first restore, keys are made in order and together. *)
InOrder ==
  NoRestoreYet =>
    /\ Present("mldsa") => disk["mlkem"] \in Nat /\ disk["mldsa"] \in {Torn, disk["mlkem"]}
    /\ pc \in {"mlkem", "mlkem_cut", "mldsa"} => ~ Present("mldsa")
    /\ pc = "mldsa_cut" => disk["mldsa"] = Torn
    /\ pc \in Boot => mem.mlkem = mem.mldsa
    /\ known.mlkem = known.mldsa

IdInv ==
  /\ rs # "idle" => known = NoIdentity /\ alone = FALSE /\ ~ NoRestoreYet
  /\ pc \in Boot => known = NoIdentity
  /\ Kept
  /\ Written
  /\ InOrder

LEMMA IdApart == ASSUME Types, IdInv, Apart PROVE IdInv'
BY DEF IdInv, Kept, Written, InOrder, NoRestoreYet, Present, Apart, SameCounts

LEMMA IdAtWork == ASSUME Types, IdInv, AtWork PROVE IdInv'
BY DEF IdInv, Kept, Written, InOrder, NoRestoreYet, Present, AtWork, SameCounts, Boot

LEMMA IdStartup ==
  ASSUME Types, IdInv,
         Start \/ Load \/ LoadFails \/ Bootstrap \/ WriteKeys \/ FirstPublic \/ StationEnds
  PROVE  IdInv'
<1> USE DEF IdInv, NoRestoreYet, Boot
<1>1. CASE Start
  <2>1. UNCHANGED <<disk["mlkem"], disk["mldsa"], disk["public"], known, rs, counts>> /\ pc' = "load"
    BY <1>1 DEF Start, Replace, Types, KeyTypes, Files
  <2>2. rs # "idle" => alone' = FALSE
    BY <1>1 DEF Start
  <2> QED BY <2>1, <2>2 DEF Kept, Written, InOrder, Present
<1>2. CASE Load
  <2> DEFINE public == [mlkem |-> disk["mlkem"], mldsa |-> disk["mldsa"],
                        uid |-> IF Present("public") THEN disk["public"].uid ELSE NewUid]
  <2>1. /\ pc' = "up" /\ alone' = alone /\ rs' = rs
        /\ known' = IF alone THEN public ELSE NoIdentity
    BY <1>2 DEF Load, Serve, restore
  <2>2. disk' = [disk EXCEPT !["public"] = public]
    BY <1>2 DEF Load, Replace
  <2>3. public \in Identity /\ Present("mldsa") /\ disk["mldsa"] # Torn
    BY <1>2 DEF Load, BothKeys, Present, Types, KeyTypes, Identity, NewUid, CountTypes
  <2>4. counts'.restores = counts.restores
    BY <1>2, CountStep DEF Load, Types, Bounds
  <2>5. public.mlkem = disk["mlkem"] /\ public.mldsa = disk["mldsa"]
    OBVIOUS
  <2> HIDE DEF public
  <2>6. disk'["mlkem"] = disk["mlkem"] /\ disk'["mldsa"] = disk["mldsa"] /\ disk'["public"] = public
    BY <2>2 DEF Types, KeyTypes, Files
  <2>7. Kept'
    BY <2>1, <2>3, <2>5, <2>6 DEF Kept
  <2>8. Written'
    BY <2>1 DEF Written
  <2>9. InOrder'
    BY <2>1, <2>3, <2>4, <2>5, <2>6 DEF InOrder, Present, NoIdentity
  <2>10. rs # "idle" => known' = NoIdentity
    BY <2>1
  <2> QED BY <2>1, <2>4, <2>7, <2>8, <2>9, <2>10
<1>3. CASE LoadFails
  BY <1>3 DEF LoadFails, restore, Kept, Written, InOrder, Present
<1>4. CASE Bootstrap
  <2>1. counts'.restores = counts.restores
    BY <1>4, CountStep DEF Bootstrap, Types, Bounds
  <2>2. known = NoIdentity
    BY <1>4 DEF Bootstrap, Kept, BothKeys, Present, Types, Identity
  <2>3. NoRestoreYet => ~ Present("mldsa")
    BY <1>4 DEF Bootstrap, InOrder, BothKeys, Present
  <2>4. /\ UNCHANGED <<disk, rs, known, alone>> /\ pc' = "mlkem"
        /\ mem' = [mlkem |-> NewUid, mldsa |-> NewUid, uid |-> NewUid]
    BY <1>4 DEF Bootstrap, restore, past
  <2> QED BY <2>1, <2>2, <2>3, <2>4 DEF Kept, Written, InOrder, Present
<1>5. CASE WriteKeys
  <2>1. UNCHANGED <<mem, known, alone, rs, counts>>
    BY <1>5 DEF WriteKeys, WriteKey, restore, past
  <2>2. pc \in Boot /\ known = NoIdentity
    BY <1>5 DEF WriteKeys, WriteKey
  <2>3. Torn # NoFile /\ Torn \notin Nat /\ NoFile \notin Nat /\ mem.mlkem \in Nat /\ mem.mldsa \in Nat
    BY DEF Types, Identity
  <2>4. CASE pc \in {"mlkem", "mlkem_cut"}
    <3>1. /\ pc' \in {"mlkem_cut", "mldsa"} /\ disk'["mldsa"] = disk["mldsa"]
          /\ pc' = "mldsa" => disk'["mlkem"] = mem.mlkem
      BY <1>5, <2>4 DEF WriteKeys, WriteKey, Replace, Types, KeyTypes, Files
    <3> QED BY <2>1, <2>2, <2>4, <3>1 DEF Kept, Written, InOrder, Present
  <2>5. CASE pc \in {"mldsa", "mldsa_cut"}
    <3>1. /\ disk'["mlkem"] = disk["mlkem"]
          /\ \/ pc' = "mldsa_cut" /\ disk'["mldsa"] = Torn
             \/ pc' = "public" /\ disk'["mldsa"] = mem.mldsa
      BY <1>5, <2>5 DEF WriteKeys, WriteKey, Replace, Types, KeyTypes, Files
    <3> QED BY <2>1, <2>2, <2>3, <2>5, <3>1 DEF Kept, Written, InOrder, Present
  <2> QED BY <1>5, <2>4, <2>5 DEF WriteKeys, WriteKey
<1>6. CASE FirstPublic
  <2>1. /\ pc = "public" /\ pc' = "up" /\ UNCHANGED <<alone, rs, counts>> /\ mem' = mem
        /\ known' = IF alone THEN mem ELSE NoIdentity
    BY <1>6 DEF FirstPublic, Serve, restore
  <2>2. disk'["mlkem"] = disk["mlkem"] /\ disk'["mldsa"] = disk["mldsa"] /\ disk'["public"] = mem
    BY <1>6 DEF FirstPublic, Replace, Types, KeyTypes, Files
  <2>3. Kept'
    BY <2>1, <2>2 DEF Kept, Written, Types
  <2>4. Written' /\ InOrder'
    BY <2>1, <2>2 DEF Written, InOrder, Present, NoIdentity
  <2> QED BY <2>1, <2>3, <2>4
<1>7. CASE StationEnds
  <2>1. counts'.restores = counts.restores
    BY <1>7, CountStep DEF StationEnds, Types, Bounds
  <2>2. UNCHANGED <<disk, rs, known>> /\ pc' = "down" /\ alone' = FALSE
    BY <1>7 DEF StationEnds, restore
  <2> QED BY <2>1, <2>2 DEF Kept, Written, InOrder, Present
<1> QED BY <1>1, <1>2, <1>3, <1>4, <1>5, <1>6, <1>7

LEMMA IdRestore ==
  ASSUME Types, IdInv, NEW force \in BOOLEAN, NEW f \in Files,
         StartRestore(force) \/ CopyBack(f) \/ RestoreNode \/ RestoreContent \/ RestoreDies
  PROVE  IdInv'
<1>1. known' = NoIdentity /\ alone' = FALSE /\ counts'.restores # 0
  <2>1. CASE StartRestore(force)
    BY <2>1, CountStep DEF StartRestore, Types, CountTypes, Bounds
  <2>2. CASE rs # "idle"
    BY <2>2 DEF IdInv, NoRestoreYet, CopyBack, RestoreNode, RestoreContent, RestoreDies, StartRestore, past
  <2> QED BY <2>1, <2>2 DEF CopyBack, RestoreNode, RestoreContent, RestoreDies
<1> QED BY <1>1 DEF IdInv, Kept, Written, InOrder, NoRestoreYet

LEMMA IdOthers ==
  ASSUME Types, IdInv, Pack \/ LoseDisk \/ InitNode
  PROVE  IdInv'
<1>1. CASE Pack
  BY <1>1 DEF Pack, station, restore, IdInv, Kept, Written, InOrder, NoRestoreYet, Present
<1>2. CASE LoseDisk
  <2>1. /\ rs' = "idle" /\ pc' = "down" /\ known' = NoIdentity /\ alone' = FALSE
        /\ disk' = [f \in Files |-> NoFile]
    BY <1>2 DEF LoseDisk, restore, station
  <2> QED BY <2>1 DEF IdInv, Kept, Written, InOrder, NoRestoreYet, Present, Files, Boot, NoIdentity
<1>3. CASE InitNode
  <2>1. counts'.restores = counts.restores
    BY <1>3, CountStep DEF InitNode, Types, Bounds
  <2> QED BY <1>3, <2>1 DEF InitNode, station, restore, past, IdInv, Kept, Written, InOrder, NoRestoreYet, Present
<1> QED BY <1>1, <1>2, <1>3

(* What the start-up code finds at each step, whatever was killed before. *)
THEOREM IdentityInv == Spec => []IdInv
<1>1. Init => IdInv
  BY DEF Init, IdInv, Kept, Written, InOrder, NoRestoreYet, Present, Boot, Files, NoIdentity, Bounds
<1>2. Types /\ IdInv /\ [Next]_vars => IdInv'
  BY NextCases, IdApart, IdAtWork, IdStartup, IdRestore, IdOthers DEF Files
<1> QED BY <1>1, <1>2, FilesTyped, PTL DEF Spec

(* Once a station has served, wherever it is killed, the next start finds   *)
(* its identity, until a restore is started; and keys made together stay    *)
(* together (identity.py:114-191).                                          *)
THEOREM IdentitySurvives == Spec => []KeepsIdentity
<1>1. Types /\ IdInv => KeepsIdentity
  BY DEF Types, IdInv, Kept, InOrder, NoRestoreYet, KeepsIdentity
<1> QED BY <1>1, FilesTyped, IdentityInv, PTL

----------------------------------------------------------------------------
(* The restore *)

Laid ==
  /\ pc = "down" /\ Whole /\ wal = NoLog
  /\ \A f \in Files \ left : disk[f] = archive.files[f]

Restoring ==
  /\ {clean, over, rebuilt} \subseteq BOOLEAN
  /\ rs # "idle" => rebuilt = FALSE
  /\ rs # "idle" /\ clean = TRUE /\ over = FALSE => Laid
  /\ rs = "content" /\ clean = TRUE /\ over = FALSE /\ archive.peer # 0 => peer = archive.peer
  /\ rebuilt = TRUE /\ over = FALSE =>
       rs = "idle" /\ Whole /\ wal = NoLog /\ peer # 0 /\ pc \in {"down", "load", "up"} /\ Rebuilt

LEMMA RestoringApart == ASSUME Types, Restoring, Apart PROVE Restoring'
BY DEF Restoring, Apart, Laid, Whole, Paired, Members, Rebuilt, Recovered

LEMMA RestoringAtWork == ASSUME Types, Restoring, AtWork PROVE Restoring'
BY DEF Restoring, AtWork, Laid

(* A start after the restore finds the archive's database and keys. *)
LEMMA RestoringStartup ==
  ASSUME Types, Restoring,
         Start \/ Load \/ LoadFails \/ Bootstrap \/ WriteKeys \/ FirstPublic \/ StationEnds
  PROVE  Restoring'
<1>1. /\ UNCHANGED <<pinned, peer, archive, rs, left, over, rebuilt>>
      /\ clean' \in {clean, FALSE}
      /\ pc = "down" => clean' = FALSE
  BY DEF Start, Load, LoadFails, Bootstrap, WriteKeys, WriteKey, FirstPublic, StationEnds, Serve,
         node, stored, restore, past
<1>2. rs # "idle" /\ clean = TRUE /\ over = FALSE => clean' = FALSE
  BY <1>1 DEF Restoring, Laid
<1>3. Whole' = Whole
  BY <1>1 DEF Whole, Paired, Members
<1>4. ASSUME rebuilt = TRUE, over = FALSE
      PROVE  wal' = NoLog /\ pc' \in {"down", "load", "up"} /\ Rebuilt'
  <2>1. rs = "idle" /\ Whole /\ wal = NoLog /\ pc \in {"down", "load", "up"} /\ Rebuilt
    BY <1>4 DEF Restoring
  <2>2. BothKeys /\ \A f \in Members : disk[f] # Torn \/ f = "db"
    BY <2>1 DEF Rebuilt, Whole, Paired, BothKeys, Present, Members, Files
  <2>3. CASE Start
    <3>1. wal' = NoLog /\ pc' = "load" /\ \A f \in Files \ {"db"} : disk'[f] = disk[f]
      BY <2>3 DEF Start, Replace, Types, KeyTypes
    <3>2. archive.files["db"] # NoFile => disk'["db"] = archive.files["db"]
      BY <2>1, <2>3 DEF Start, Replace, Present, Recovered, Rebuilt, Whole, Paired, Members, Files, Types, KeyTypes
    <3> QED BY <1>1, <2>1, <3>1, <3>2 DEF Rebuilt, Recovered
  <2>4. CASE Load
    <3> DEFINE public == [mlkem |-> disk["mlkem"], mldsa |-> disk["mldsa"],
                          uid |-> IF Present("public") THEN disk["public"].uid ELSE NewUid]
    <3>1. disk' = [disk EXCEPT !["public"] = public] /\ mem' = public /\ pc' = "up" /\ wal' = wal
      BY <2>4 DEF Load, Replace, Serve
    <3>2. disk["public"] = archive.files["public"] /\ Present("public") /\ disk["public"] # Torn
      BY <2>1 DEF Rebuilt, Whole, Paired, Members, Present, Files
    <3>3. disk["mlkem"] = archive.files["mlkem"] /\ disk["mldsa"] = archive.files["mldsa"]
      BY <2>1 DEF Rebuilt, Files
    <3>4. archive.files["public"] \in Identity
      BY <3>2 DEF Types, ArchiveTypes, KeyTypes, Present
    <3>5. public = archive.files["public"]
      <4> DEFINE a == archive.files["public"]
      <4>1. a = [mlkem |-> a.mlkem, mldsa |-> a.mldsa, uid |-> a.uid]
        BY <3>4 DEF Identity
      <4>2. a.mlkem = archive.files["mlkem"] /\ a.mldsa = archive.files["mldsa"]
        BY <2>1 DEF Whole, Paired
      <4>3. public = [mlkem |-> archive.files["mlkem"], mldsa |-> archive.files["mldsa"], uid |-> a.uid]
        BY <3>2, <3>3
      <4> QED BY <4>1, <4>2, <4>3
    <3> HIDE DEF public
    <3>6. \A f \in Files : disk'[f] = disk[f]
      BY <3>1, <3>2, <3>5 DEF Types, KeyTypes
    <3>7. public = [mlkem |-> archive.files["mlkem"], mldsa |-> archive.files["mldsa"],
                    uid |-> archive.files["public"].uid]
      BY <2>1, <3>4, <3>5 DEF Whole, Paired, Identity
    <3> QED BY <1>1, <2>1, <3>1, <3>6, <3>7 DEF Rebuilt, Recovered, Files
  <2>5. CASE LoadFails \/ StationEnds
    BY <1>1, <2>1, <2>5 DEF LoadFails, StationEnds, Rebuilt, Recovered
  <2>6. ~ Bootstrap /\ ~ WriteKeys /\ ~ FirstPublic
    BY <2>1, <2>2 DEF Bootstrap, WriteKeys, WriteKey, FirstPublic
  <2> QED BY <2>3, <2>4, <2>5, <2>6
<1> QED BY <1>1, <1>2, <1>3, <1>4 DEF Restoring

LEMMA RestoringRestore ==
  ASSUME Types, Restoring, NEW force \in BOOLEAN, NEW f \in Files,
         StartRestore(force) \/ CopyBack(f) \/ RestoreNode \/ RestoreContent \/ RestoreDies
  PROVE  Restoring'
<1> USE DEF Restoring
<1>1. CASE StartRestore(force)
  <2>1. /\ archive'.files = archive.files /\ UNCHANGED <<disk, wal, pc>>
        /\ left' = Members /\ rs' = "files" /\ rebuilt' = FALSE
    BY <1>1 DEF StartRestore, Types, ArchiveTypes, NoArchive, station
  <2>2. /\ clean' = (pc = "down" /\ Whole)
        /\ over' = (wal # NoLog \/ \E g \in Files \ Members : Present(g))
    BY <1>1 DEF StartRestore
  <2>3. Members' = Members /\ Whole' = Whole
    BY <2>1 DEF Members, Whole, Paired
  <2>4. clean' = TRUE /\ over' = FALSE => Laid'
    BY <2>1, <2>2, <2>3 DEF Laid, Present, Members
  <2> QED BY <2>1, <2>2, <2>4
<1>2. CASE CopyBack(f)
  <2>1. /\ UNCHANGED <<archive, pc, wal, rs, clean, over, peer, rebuilt>> /\ rs = "files"
        /\ left' = left \ {f} /\ disk' = [disk EXCEPT ![f] = archive.files[f]]
    BY <1>2 DEF CopyBack, Replace, stored, station, node, past
  <2>2. \A g \in Files \ left' : g = f \/ g \in Files \ left
    BY <2>1
  <2>3. Laid => Laid'
    BY <2>1, <2>2 DEF Laid, Whole, Paired, Members, Types, KeyTypes
  <2> QED BY <2>1, <2>3
<1>3. CASE RestoreNode
  <2>1. /\ UNCHANGED <<archive, pc, wal, left, clean, over, disk, rebuilt>> /\ rs = "files" /\ rs' = "content"
        /\ peer' = IF archive.peer = 0 THEN peer ELSE archive.peer
    BY <1>3 DEF RestoreNode, stored, station, past
  <2> QED BY <2>1 DEF Laid, Whole, Paired, Members
<1>4. CASE RestoreContent
  <2>1. /\ UNCHANGED <<archive, pc, mem, wal, left, clean, over, disk, peer>> /\ rs = "content" /\ rs' = "idle"
        /\ pinned' = pinned \cup archive.content /\ rebuilt' = clean /\ peer # 0
    BY <1>4 DEF RestoreContent, stored, station
  <2>2. left = {}
    BY <2>1 DEF Types
  <2>3. Laid /\ (archive.peer # 0 => peer = archive.peer) => Whole' /\ wal' = NoLog /\ pc' = "down" /\ Rebuilt'
    BY <2>1, <2>2 DEF Laid, Whole, Paired, Members, Rebuilt, Recovered, Files
  <2> QED BY <2>1, <2>3 DEF Laid
<1>5. CASE RestoreDies
  <2>1. rs' = "idle" /\ clean' = FALSE /\ over' = FALSE /\ rebuilt' = rebuilt /\ rs # "idle"
    BY <1>5 DEF RestoreDies, past
  <2> QED BY <2>1
<1> QED BY <1>1, <1>2, <1>3, <1>4, <1>5

LEMMA RestoringOthers ==
  ASSUME Types, Restoring, Pack \/ LoseDisk \/ InitNode
  PROVE  Restoring'
<1>1. CASE Pack
  BY <1>1 DEF Pack, station, stored, restore, node, Restoring, Laid, Whole, Paired, Members
<1>2. CASE LoseDisk
  BY <1>2 DEF LoseDisk, restore, Restoring
<1>3. CASE InitNode
  BY <1>3 DEF InitNode, station, stored, restore, past, Restoring, Laid, Whole, Paired, Members, Rebuilt, Recovered
<1> QED BY <1>1, <1>2, <1>3

(* A restore that runs to its end beside a stopped station gives the        *)
(* station of the archive, and the next start keeps it, if every file and   *)
(* the log it found are ones it replaces (backup.py:668-731).               *)
THEOREM RestoreIsFaithful == Spec => []RestoreRebuilds
<1>1. Init => Restoring
  BY DEF Init, Restoring
<1>2. Types /\ Restoring /\ [Next]_vars => Restoring'
  BY NextCases, RestoringApart, RestoringAtWork, RestoringStartup, RestoringRestore, RestoringOthers DEF Files
<1>3. Restoring => RestoreRebuilds
  BY DEF Restoring, RestoreRebuilds
<1> QED BY <1>1, <1>2, <1>3, FilesTyped, PTL DEF Spec

----------------------------------------------------------------------------
(* Where a path lies *)

LEMMA LessThan ==
  ASSUME NEW m \in Nat, NEW n \in Nat, n < m
  PROVE  <<n, m>> \in OpToRel(<, Nat)
BY DEF OpToRel

LEMMA LeastNat ==
  ASSUME NEW S \in SUBSET Nat, S # {}
  PROVE  \E m \in S : \A n \in S : m <= n
<1> DEFINE R == OpToRel(<, Nat)
<1>1. IsWellFoundedOn(R, Nat)
  BY Zenon, NatLessThanWellFounded
<1>2. \A m, n \in Nat : n < m => <<n, m>> \in R
  BY Zenon, LessThan
<1> HIDE DEF R
<1>3. PICK m \in S : \A n \in S : <<n, m>> \notin R
  BY <1>1, WFMin
<1>4. \A n \in S : ~ (n < m)
  BY <1>2, <1>3
<1> QED BY <1>3, <1>4

Path == Seq(STRING)

(* The mount point a path is on is above it, and a mount point is on itself. *)
LEMMA DeviceIsAbove ==
  ASSUME NEW mounts \in SUBSET Path, NEW path \in Path
  PROVE  /\ Device(mounts, path) \in Path /\ Under(path, Device(mounts, path))
         /\ path \in mounts => Device(mounts, path) = path
<1> DEFINE above == {m \in mounts \cup {Root} : Under(path, m)}
           gaps == {Len(path) - Len(m) : m \in above}
<1>1. Root \in Path /\ Len(Root) = 0
  BY DEF Root, Path
<1>2. Under(path, Root)
  BY <1>1, SubSeqEmpty DEF Under, IsPrefix, Path
<1>3. Root \in above /\ above \subseteq Path
  BY <1>1, <1>2
<1>4. \A m \in above : Len(m) \in Nat /\ Len(m) <= Len(path)
  BY <1>3 DEF Under, IsPrefix, Path
<1>5. gaps \in SUBSET Nat /\ gaps # {}
  BY <1>3, <1>4 DEF Path
<1>6. PICK g \in gaps : \A h \in gaps : g <= h
  BY <1>5, LeastNat
<1>7. PICK m \in above : g = Len(path) - Len(m)
  BY <1>6
<1>8. \A n \in above : Len(n) <= Len(m)
  <2>1. \A n \in above : Len(path) - Len(n) \in gaps
    OBVIOUS
  <2>2. Len(path) \in Nat
    BY DEF Path
  <2> HIDE DEF above, gaps
  <2> QED BY <1>4, <1>6, <1>7, <2>1, <2>2
<1> DEFINE device == CHOOSE c \in above : \A n \in above : Len(n) <= Len(c)
<1>9. device \in above /\ \A n \in above : Len(n) <= Len(device)
  <2>1. \E c \in above : \A n \in above : Len(n) <= Len(c)
    BY <1>8
  <2> HIDE DEF above
  <2> QED BY Zenon, <2>1
<1>10. device = Device(mounts, path)
  BY DEF Device
<1>11. ASSUME path \in mounts PROVE device = path
  <2>1. SubSeq(path, 1, Len(path)) = path
    BY SubSeqFull DEF Path
  <2>2. path \in above
    BY <1>11, <2>1 DEF Under, IsPrefix, Path
  <2>3. Len(device) = Len(path)
    BY <1>4, <1>9, <2>2 DEF Path
  <2>4. device \in Path /\ SubSeq(device, 1, Len(device)) = SubSeq(path, 1, Len(device))
    BY <1>3, <1>9 DEF Under, IsPrefix
  <2>5. SubSeq(device, 1, Len(device)) = device
    BY <2>4, SubSeqFull DEF Path
  <2> QED BY <2>1, <2>3, <2>4, <2>5
<1> HIDE DEF device
<1> QED BY <1>3, <1>9, <1>10, <1>11

(* What is not above a data directory is not the disk it lies on. *)
LEMMA ApartFromRoots ==
  ASSUME NEW mounts \in SUBSET Path, NEW path \in Path, ~ Collides(path)
  PROVE  /\ Device(mounts, path) \notin DataRoot
         /\ \A root \in ProtectedRoots : path # Device(mounts, root)
<1>1. ProtectedRoots \subseteq Path /\ DataRoot \subseteq ProtectedRoots
  BY PathsAreSequences DEF ProtectedRoots, Path
<1>2. Under(path, Device(mounts, path)) /\ \A root \in ProtectedRoots : Under(root, Device(mounts, root))
  BY <1>1, DeviceIsAbove
<1> QED BY <1>1, <1>2 DEF Collides

LEMMA PickedIsSafe ==
  ASSUME NEW mounts, NEW existing, NEW dest,
         dest = ResolveDest(NoDest, mounts, existing), dest # NoDest
  PROVE  dest \in mounts
<1>1. Cardinality(SafeMounts(mounts, existing)) = 1 /\ dest = CHOOSE m \in SafeMounts(mounts, existing) : TRUE
  BY DEF ResolveDest, AutoDetect
<1>2. SafeMounts(mounts, existing) # {}
  <2>1. Cardinality({}) = 0
    BY FS_EmptySet
  <2> QED BY <1>1, <2>1
<1> QED BY <1>1, <1>2 DEF SafeMounts, CandidateMounts

----------------------------------------------------------------------------
(* Where the archive lies *)

(* The destination of the backup under way, and the disk of the archive. *)
Aimed ==
  /\ stage.auto \in BOOLEAN
  /\ bk # "idle" =>
       /\ stage.at \in Path /\ ~ Collides(stage.at)
       /\ stage.auto = TRUE => stage.at \in mounted

Landed ==
  /\ archive.auto \in BOOLEAN
  /\ archive # NoArchive => dev \notin DataRoot
  /\ archive.auto = TRUE => \A mounts \in SUBSET Path : \A root \in ProtectedRoots : dev # Device(mounts, root)

Located == mounted \subseteq Path /\ Aimed /\ Landed

LEMMA BackupLocated ==
  ASSUME Types, Located, StartBackup \/ CopyFile \/ ListPins \/ Pack \/ BackupDies
  PROVE  Located'
<1> USE DEF Located
<1>0. /\ mounted' = mounted /\ DOMAIN stage = DOMAIN NoArchive
      /\ ~ Pack => UNCHANGED stored
  BY DEF StartBackup, CopyFile, ListPins, Pack, BackupDies, Types, ArchiveTypes
<1>1. CASE Pack
  <2>1. stage' = NoArchive /\ bk' = "idle"
    BY <1>1 DEF Pack, BackupOver
  <2>2. rs # "idle" => Landed'
    BY <1>1 DEF Pack, stored, Landed
  <2>3. ASSUME rs = "idle" PROVE Landed'
    <3>1. /\ archive' = [stage EXCEPT !.at = NoDest] /\ dev' = Device(mounted, stage.at)
          /\ bk # "idle"
      BY <1>1, <2>3 DEF Pack
    <3>2. archive'.auto = stage.auto
      BY <1>0, <3>1 DEF NoArchive
    <3>3. dev' \notin DataRoot
      BY <3>1, ApartFromRoots DEF Aimed
    <3>4. stage.auto = TRUE => dev' = stage.at
      BY <3>1, DeviceIsAbove DEF Aimed
    <3>5. \A mounts \in SUBSET Path : \A root \in ProtectedRoots : stage.at # Device(mounts, root)
      BY <3>1, ApartFromRoots DEF Aimed
    <3> QED BY <3>2, <3>3, <3>4, <3>5 DEF Landed, Aimed
  <2> QED BY <1>0, <2>1, <2>2, <2>3 DEF Aimed, NoArchive
<1>2. CASE BackupDies
  <2>1. stage'.auto = FALSE /\ bk' = "idle" /\ Landed'
    BY <1>2 DEF BackupDies, BackupOver, NoArchive, stored, Landed
  <2> QED BY <1>0, <2>1 DEF Aimed
<1>3. CASE StartBackup
  <2>1. PICK named \in NamedDests :
          LET dest == ResolveDest(named, mounted, Existing)
          IN  /\ dest # NoDest /\ ~ Collides(dest)
              /\ stage' = [NoArchive EXCEPT !.at = dest, !.auto = (named = NoDest), !.of = known,
                                            !.rows = IF known = NoIdentity THEN 0 ELSE Recovered]
    BY <1>3 DEF StartBackup
  <2> DEFINE dest == ResolveDest(named, mounted, Existing)
  <2>2. stage'.at = dest /\ stage'.auto = (named = NoDest)
    BY <2>1 DEF NoArchive
  <2>3. dest # NoDest /\ ~ Collides(dest)
    BY <2>1
  <2>4. named = NoDest => dest \in mounted
    <3> HIDE DEF dest
    <3>1. dest = ResolveDest(named, mounted, Existing)
      BY DEF dest
    <3> QED BY <2>3, <3>1, PickedIsSafe
  <2>5. named # NoDest => dest = named
    BY DEF ResolveDest
  <2>6. dest \in Path
    BY <2>4, <2>5, LayoutIsPaths DEF Path
  <2> HIDE DEF dest
  <2>7. Landed'
    BY <1>0, <1>3 DEF StartBackup, Pack, stored, Landed
  <2> QED BY <1>0, <2>2, <2>3, <2>4, <2>6, <2>7 DEF Aimed
<1>4. CASE CopyFile \/ ListPins
  <2>1. stage'.at = stage.at /\ stage'.auto = stage.auto /\ bk # "idle"
    BY <1>0, <1>4 DEF CopyFile, ListPins, NoArchive
  <2>2. UNCHANGED stored
    BY <1>4 DEF CopyFile, ListPins
  <2> QED BY <1>0, <2>1, <2>2 DEF Aimed, Landed, stored
<1> QED BY <1>1, <1>2, <1>3, <1>4

LEMMA OthersLocated ==
  ASSUME Types, Located,
         NEW p, NEW m, NEW force,
         Export(p) \/ Unpin \/ StartRestore(force) \/ Plug(m) \/ Unplug(m) \/ LoseDisk
  PROVE  Located'
<1> USE DEF Located
<1>0. DOMAIN stage = DOMAIN NoArchive /\ DOMAIN archive = DOMAIN NoArchive
  BY DEF Types, ArchiveTypes
<1>1. CASE Export(p) \/ Unpin
  <2>1. stage'.at = stage.at /\ stage'.auto = stage.auto
    BY <1>0, <1>1 DEF Export, Unpin, NoArchive
  <2> QED BY <1>1, <2>1 DEF Export, Unpin, Aimed, Landed, stored
<1>2. CASE StartRestore(force)
  <2>1. /\ stage'.at = stage.at /\ stage'.auto = stage.auto /\ archive'.auto = FALSE
        /\ archive # NoArchive /\ UNCHANGED <<dev, bk, mounted>>
    BY <1>0, <1>2 DEF StartRestore, NoArchive
  <2> QED BY <2>1 DEF Aimed, Landed
<1>3. CASE Plug(m)
  <2>1. mounted' = mounted \cup {m} /\ mounted' \subseteq Path /\ UNCHANGED <<stage, bk, archive, dev>>
    BY <1>3, LayoutIsPaths DEF Plug, backup, stored, Path
  <2> QED BY <2>1 DEF Aimed, Landed
<1>4. CASE Unplug(m)
  <2>1. /\ mounted' = mounted \ {m} /\ UNCHANGED <<bk, archive, dev>> /\ bk # "idle"
        /\ stage'.at = stage.at /\ stage'.auto = (stage.auto /\ ~ Under(stage.at, m))
    BY <1>0, <1>4 DEF Unplug, NoArchive, stored
  <2>2. Under(stage.at, stage.at)
    BY <2>1 DEF Under, IsPrefix, Aimed, Path
  <2>3. /\ stage'.auto \in BOOLEAN
        /\ stage'.auto = TRUE => stage.auto = TRUE /\ stage.at # m
    BY <2>1, <2>2 DEF Aimed
  <2>4. stage'.auto = TRUE => stage'.at \in mounted'
    BY <2>1, <2>3 DEF Aimed
  <2> QED BY <2>1, <2>3, <2>4 DEF Aimed, Landed
<1>5. CASE LoseDisk
  <2>1. UNCHANGED <<mounted, stage, bk>> /\ (UNCHANGED stored \/ archive' = NoArchive)
    BY <1>5 DEF LoseDisk, backup
  <2>2. NoArchive.auto = FALSE
    BY DEF NoArchive
  <2>3. Aimed'
    BY <2>1 DEF Aimed
  <2>4. UNCHANGED stored => Landed'
    BY DEF Landed, stored
  <2>5. archive' = NoArchive => Landed'
    BY <2>2 DEF Landed
  <2> QED BY <2>1, <2>3, <2>4, <2>5
<1> QED BY <1>1, <1>2, <1>3, <1>4, <1>5

LEMMA StepLocated ==
  ASSUME Types, Located, [Next]_vars
  PROVE  Located'
<1>1. UNCHANGED <<mounted, stage, bk, archive, dev>> => Located'
  BY DEF Located, Aimed, Landed
<1>2. CASE Start \/ Load \/ LoadFails \/ Bootstrap \/ WriteKeys \/ FirstPublic \/ StationEnds
  BY <1>1, <1>2 DEF Start, Load, LoadFails, Bootstrap, WriteKeys, WriteKey, FirstPublic, StationEnds, backup, stored
<1>3. ASSUME NEW p \in Posts, Pin(p) \/ Unlist(p) PROVE Located'
  BY <1>1, <1>3 DEF Pin, Unlist, SaveManifest, Worked, backup, stored
<1>4. CASE List \/ Point \/ Commit \/ Checkpoint
  BY <1>1, <1>4 DEF List, SaveManifest, Point, Commit, Checkpoint, Worked, backup, stored
<1>5. ASSUME NEW f \in Files, CopyBack(f) PROVE Located'
  BY <1>1, <1>5 DEF CopyBack, backup, stored
<1>6. CASE RestoreNode \/ RestoreContent \/ RestoreDies \/ InitNode
  BY <1>1, <1>6 DEF RestoreNode, RestoreContent, RestoreDies, InitNode, backup, stored
<1>7. CASE UNCHANGED vars
  BY <1>1, <1>7 DEF vars, backup, stored
<1>8. CASE StartBackup \/ CopyFile \/ ListPins \/ Pack \/ BackupDies
  BY <1>8, BackupLocated
<1>9. CASE Unpin \/ LoseDisk
  BY <1>9, OthersLocated
<1>10. ASSUME NEW p \in Posts, Export(p) PROVE Located'
  BY <1>10, OthersLocated
<1>11. ASSUME NEW force \in BOOLEAN, StartRestore(force) PROVE Located'
  BY <1>11, OthersLocated
<1>12. ASSUME NEW m \in Drives, Plug(m) \/ Unplug(m) PROVE Located'
  BY <1>12, OthersLocated
<1> QED BY <1>2, <1>3, <1>4, <1>5, <1>6, <1>7, <1>8, <1>9, <1>10, <1>11, <1>12 DEF Next

(* Wherever the station's data, the mount points and the named destinations *)
(* are, no archive lies on a volume that is the station's data root, and a  *)
(* drive the backup picked itself is no disk the station lives on           *)
(* (backup.py:251-291, 355-409).                                            *)
THEOREM ArchiveLiesApart == Spec => []BackupOutlivesDisk
<1>1. Init => Located
  BY LayoutIsPaths DEF Init, Located, Aimed, Landed, NoArchive, Path
<1>2. Types /\ Located /\ [Next]_vars => Located'
  BY StepLocated
<1>3. Located => BackupOutlivesDisk
  BY DEF Located, Landed, BackupOutlivesDisk
<1> QED BY <1>1, <1>2, <1>3, FilesTyped, PTL DEF Spec

----------------------------------------------------------------------------
(* What a backup has collected *)

(* Files are copied in one order, so what is left is an end of it. *)
Ending(n) ==
  CASE n = 1 -> {"manifest"}
    [] n = 2 -> {"manifest", "db"}
    [] n = 3 -> {"manifest", "db", "public"}
    [] n = 4 -> {"manifest", "db", "public", "mlkem"}
    [] n = 5 -> Files

LEMMA EndingOf ==
  ASSUME NEW n \in 1..5
  PROVE  /\ Cardinality(Ending(n)) = n
         /\ BackupOrder[6 - n] \in Ending(n) \cap Files
         /\ n > 1 => Ending(n) \ {BackupOrder[6 - n]} = Ending(n - 1)
         /\ n = 1 => Ending(n) = {"manifest"} /\ BackupOrder[6 - n] = "manifest"
<1>1. IsFiniteSet(Ending(1)) /\ Cardinality(Ending(1)) = 1
  <2>1. Ending(1) = {"manifest"}
    BY DEF Ending
  <2> QED BY <2>1, FS_Singleton
<1>2. ASSUME NEW m \in 2..5
      PROVE  Ending(m) = Ending(m - 1) \cup {BackupOrder[6 - m]} /\ BackupOrder[6 - m] \notin Ending(m - 1)
  BY DEF Ending, BackupOrder, Files
<1>3. ASSUME NEW m \in 2..5, IsFiniteSet(Ending(m - 1)), Cardinality(Ending(m - 1)) = m - 1
      PROVE  IsFiniteSet(Ending(m)) /\ Cardinality(Ending(m)) = m
  <2> DEFINE prior == Ending(m - 1)
             next == BackupOrder[6 - m]
  <2>1. next \notin prior /\ Ending(m) = prior \cup {next} /\ IsFiniteSet(prior) /\ Cardinality(prior) = m - 1
    BY <1>2, <1>3
  <2> HIDE DEF prior, next
  <2> QED BY <2>1, FS_AddElement
<1>4. IsFiniteSet(Ending(2)) /\ Cardinality(Ending(2)) = 2
  BY <1>1, <1>3
<1>5. IsFiniteSet(Ending(3)) /\ Cardinality(Ending(3)) = 3
  BY <1>4, <1>3
<1>6. IsFiniteSet(Ending(4)) /\ Cardinality(Ending(4)) = 4
  BY <1>5, <1>3
<1>7. IsFiniteSet(Ending(5)) /\ Cardinality(Ending(5)) = 5
  BY <1>6, <1>3
<1>8. Cardinality(Ending(n)) = n
  BY <1>1, <1>4, <1>5, <1>6, <1>7
<1>9. BackupOrder[6 - n] \in Ending(n) \cap Files
  BY DEF Ending, BackupOrder, Files
<1>10. n > 1 => Ending(n) \ {BackupOrder[6 - n]} = Ending(n - 1)
  <2>1. ASSUME n \in 2..5
        PROVE  Ending(n) = Ending(n - 1) \cup {BackupOrder[6 - n]} /\ BackupOrder[6 - n] \notin Ending(n - 1)
    BY <1>2, <2>1
  <2> DEFINE prior == Ending(n - 1)
             next == BackupOrder[6 - n]
  <2>2. n \in 2..5 => Ending(n) = prior \cup {next} /\ next \notin prior
    BY <2>1
  <2>3. n > 1 => n \in 2..5
    OBVIOUS
  <2> HIDE DEF prior, next
  <2>4. n > 1 => Ending(n) \ {next} = prior
    BY <2>2, <2>3
  <2> QED BY <2>4 DEF prior, next
<1>11. Ending(1) = {"manifest"} /\ BackupOrder[5] = "manifest"
  BY DEF Ending, BackupOrder
<1> QED BY <1>8, <1>9, <1>10, <1>11

InCopy == bk = "copy" => \E n \in 1..5 : todo = Ending(n)

(* One file after the other, and the manifest last. *)
LEMMA CopyStep ==
  ASSUME CopyFile, InCopy
  PROVE  \E file \in Files :
           /\ stage' = [stage EXCEPT !.files[file] = Snapshot(file),
                                     !.expect = IF file = "manifest" THEN Manifest \cap pinned ELSE @]
           /\ file \in todo /\ todo' = todo \ {file}
           /\ file = "db" => disk["db"] # Torn
           /\ \/ bk' = "copy" /\ file # "manifest" /\ InCopy'
              \/ bk' = "pins" /\ file = "manifest" /\ todo' = {}
<1>1. PICK n \in 1..5 : todo = Ending(n)
  BY DEF CopyFile, InCopy
<1>2. Cardinality(todo) = n /\ BackupOrder[6 - n] \in Ending(n) \cap Files
  BY <1>1, EndingOf
<1> DEFINE file == BackupOrder[6 - n]
<1>3. /\ stage' = [stage EXCEPT !.files[file] = Snapshot(file),
                                !.expect = IF file = "manifest" THEN Manifest \cap pinned ELSE @]
      /\ todo' = todo \ {file} /\ (file = "db" => disk["db"] # Torn)
      /\ bk' = IF n = 1 THEN "pins" ELSE "copy"
  BY <1>2 DEF CopyFile
<1>4. CASE n = 1
  <2>1. todo = {"manifest"} /\ file = "manifest"
    BY <1>1, <1>4, EndingOf
  <2> HIDE DEF file
  <2>2. bk' = "pins" /\ todo' = {} /\ file \in Files
    BY <1>3, <1>4, <2>1 DEF Files
  <2> QED BY <1>3, <2>1, <2>2
<1>5. CASE n # 1
  <2>1. todo' = Ending(n - 1) /\ n - 1 \in 1..5
    BY <1>1, <1>3, <1>5, EndingOf
  <2>2. file # "manifest"
    BY <1>5 DEF BackupOrder
  <2>3. file \in Files /\ file \in todo
    BY <1>1, <1>2
  <2> HIDE DEF file
  <2>4. bk' = "copy" /\ InCopy'
    BY <1>3, <1>5, <2>1 DEF InCopy
  <2> QED BY <1>3, <2>2, <2>3, <2>4
<1> QED BY <1>4, <1>5

(* A step that collects nothing, and does not take away what is expected. *)
StageKept ==
  /\ UNCHANGED <<bk, todo>>
  /\ stage'.files = stage.files /\ stage'.of = stage.of /\ stage'.rows = stage.rows
  /\ stage'.content = stage.content /\ stage'.expect \subseteq stage.expect
  /\ bk # "idle" => pinned \cap stage'.expect \subseteq pinned'

LEMMA StageCases ==
  ASSUME Types, [Next]_vars
  PROVE  \/ StageKept
         \/ StartBackup \/ CopyFile \/ ListPins \/ Pack \/ BackupDies
         \/ \E p \in Posts : Export(p)
         \/ \E force \in BOOLEAN : StartRestore(force)
<1>0. DOMAIN stage = DOMAIN NoArchive
  BY DEF Types, ArchiveTypes
<1>1. UNCHANGED <<stage, bk, todo>> /\ (bk = "idle" \/ pinned \subseteq pinned') => StageKept
  BY DEF StageKept
<1>2. CASE Start \/ Load \/ LoadFails \/ Bootstrap \/ WriteKeys \/ FirstPublic \/ StationEnds
  BY <1>1, <1>2 DEF Start, Load, LoadFails, Bootstrap, WriteKeys, WriteKey, FirstPublic, StationEnds, backup, node
<1>3. ASSUME NEW p \in Posts, Pin(p) \/ Unlist(p) PROVE StageKept
  BY <1>1, <1>3 DEF Pin, Unlist, SaveManifest, Worked, backup, node
<1>4. CASE List \/ Point \/ Commit \/ Checkpoint
  BY <1>1, <1>4 DEF List, SaveManifest, Point, Commit, Checkpoint, Worked, backup, node
<1>5. ASSUME NEW f \in Files, CopyBack(f) PROVE StageKept
  BY <1>1, <1>5 DEF CopyBack, backup, node
<1>6. CASE RestoreNode \/ RestoreContent \/ RestoreDies \/ InitNode \/ LoseDisk
  BY <1>1, <1>6 DEF RestoreNode, RestoreContent, RestoreDies, InitNode, LoseDisk, backup, node
<1>7. CASE UNCHANGED vars
  BY <1>1, <1>7 DEF vars, backup, node
<1>8. ASSUME NEW m \in Drives, Plug(m) PROVE StageKept
  BY <1>1, <1>8 DEF Plug, backup, node
<1>9. ASSUME NEW m \in Drives, Unplug(m) PROVE StageKept
  BY <1>0, <1>9 DEF Unplug, NoArchive, node, StageKept
<1>10. CASE Unpin
  BY <1>0, <1>10 DEF Unpin, NoArchive, StageKept
<1> QED BY <1>2, <1>3, <1>4, <1>5, <1>6, <1>7, <1>8, <1>9, <1>10 DEF Next

LEMMA ArchiveSteps ==
  ASSUME Types, [Next]_vars
  PROVE  \/ archive' = archive
         \/ archive' = NoArchive
         \/ Pack
         \/ \E force \in BOOLEAN : StartRestore(force)
<1>1. CASE Apart \/ AtWork
  BY <1>1 DEF Apart, AtWork
<1>2. CASE Start \/ Load \/ LoadFails \/ Bootstrap \/ WriteKeys \/ FirstPublic \/ StationEnds
  BY <1>2 DEF Start, Load, LoadFails, Bootstrap, WriteKeys, WriteKey, FirstPublic, StationEnds, stored
<1>3. CASE RestoreNode \/ RestoreContent \/ RestoreDies \/ InitNode \/ LoseDisk
  BY <1>3 DEF RestoreNode, RestoreContent, RestoreDies, InitNode, LoseDisk, stored
<1>4. ASSUME NEW f \in Files, CopyBack(f) PROVE archive' = archive
  BY <1>4 DEF CopyBack, stored
<1> QED BY <1>1, <1>2, <1>3, <1>4, NextCases

----------------------------------------------------------------------------
(* Commits are numbered upwards, and a station that serves has a database. *)

Level == Empty + counts.requests

Content(x) == x \in {NoFile, Torn} \/ (x \in Nat /\ x <= Level)

OnDisk ==
  wal \in [on : Nat, top : Nat] /\ wal.top <= Level /\ Content(disk["db"])

DatabaseThere == pc # "down" => Present("db")

Numbered ==
  OnDisk /\ DatabaseThere /\ Content(stage.files["db"]) /\ Content(archive.files["db"])

Serving ==
  /\ alone \in BOOLEAN
  /\ pc # "down" /\ alone = FALSE => known = NoIdentity
  /\ (alone = TRUE /\ pc # "down") \/ known # NoIdentity => disk["db"] \in Nat

LEMMA LevelRises ==
  ASSUME Types, [Next]_vars
  PROVE  Level \in Nat /\ Level' \in Nat /\ Level <= Level' /\ Empty \in Nat /\ Empty <= Level
<1>1. counts.requests \in Nat /\ counts'.requests \in Nat
  BY StepTypes DEF Types, CountTypes
<1>2. counts'.requests >= counts.requests
  <2> USE <1>1 DEF Types
  <2>1. CASE Apart \/ AtWork
    BY <2>1 DEF Apart, AtWork, SameCounts
  <2>2. CASE Start \/ Load \/ LoadFails \/ Bootstrap \/ WriteKeys \/ FirstPublic \/ StationEnds
    BY <2>2, CountStep
    DEF Start, Load, LoadFails, Bootstrap, WriteKeys, WriteKey, FirstPublic, StationEnds, Bounds
  <2>3. CASE Pack \/ RestoreNode \/ RestoreContent \/ RestoreDies
    BY <2>3 DEF Pack, RestoreNode, RestoreContent, RestoreDies
  <2>4. ASSUME NEW force \in BOOLEAN, StartRestore(force) PROVE counts'.requests >= counts.requests
    BY <2>4, CountStep DEF StartRestore, Bounds
  <2>5. ASSUME NEW f \in Files, CopyBack(f) PROVE counts'.requests >= counts.requests
    BY <2>5 DEF CopyBack
  <2>6. CASE LoseDisk \/ InitNode
    BY <2>6, CountStep DEF LoseDisk, InitNode, Bounds
  <2> QED BY <2>1, <2>2, <2>3, <2>4, <2>5, <2>6, NextCases
<1> QED BY <1>1, <1>2 DEF Level, Empty

LEMMA RecoveredContent ==
  ASSUME Numbered, Level \in Nat
  PROVE  Content(Recovered) /\ (disk["db"] \in Nat => Recovered \in Nat /\ Recovered <= Level)
BY DEF Numbered, OnDisk, Content, Recovered, Mixed

(* The database file and its log, in a step that leaves the archive alone. *)
LEMMA DatabaseSteps ==
  ASSUME Types, Numbered, [Next]_vars
  PROVE  OnDisk'
<1>0. Level \in Nat /\ Level' \in Nat /\ Level <= Level' /\ Empty \in Nat /\ Empty <= Level
  BY LevelRises
<1>1. DOMAIN disk = Files /\ NoLog \in [on : Nat, top : Nat] /\ NoLog.top = 0
  BY DEF Types, KeyTypes, NoLog
<1>2. \A x : Content(x) => Content(x)'
  BY <1>0 DEF Content
<1>3. wal' \in {wal, NoLog} => wal' \in [on : Nat, top : Nat] /\ wal'.top <= Level'
  BY <1>0, <1>1 DEF Numbered, OnDisk
<1>4. wal' \in {wal, NoLog} /\ disk'["db"] \in {disk["db"], Empty, NoFile, Torn, Recovered, archive.files["db"]}
        => OnDisk'
  <2>1. Content(disk["db"]) /\ Content(archive.files["db"]) /\ Content(Recovered)
    BY <1>0, RecoveredContent DEF Numbered, OnDisk
  <2>2. Content(Empty) /\ Content(NoFile) /\ Content(Torn)
    BY <1>0 DEF Content
  <2>3. \A x : Content(x) /\ disk'["db"] = x => Content(disk["db"])'
    BY <1>2 DEF Content
  <2> QED BY <1>3, <2>1, <2>2, <2>3 DEF OnDisk
<1>5. wal' \in {wal, NoLog} /\ disk'["db"] = disk["db"] => OnDisk'
  BY <1>4
<1>6. CASE Apart
  BY <1>5, <1>6 DEF Apart
<1>7. CASE AtWork
  <2>1. CASE Commit
    <3>1. wal' = [on |-> disk["db"], top |-> Level'] /\ disk' = disk /\ disk["db"] # Torn /\ disk["db"] # NoFile
      BY <2>1 DEF Commit, Level, Numbered, DatabaseThere, Present
    <3>2. disk["db"] \in Nat /\ Content(disk["db"])'
      BY <1>2, <3>1 DEF Numbered, OnDisk, Content
    <3> QED BY <1>0, <3>1, <3>2 DEF OnDisk
  <2>2. CASE Checkpoint
    BY <1>1, <1>4, <2>2 DEF Checkpoint, Replace, Files
  <2>3. CASE UNCHANGED <<disk["db"], wal>>
    BY <1>5, <2>3
  <2> QED BY <1>7, <2>1, <2>2, <2>3 DEF AtWork
<1>8. CASE Start
  BY <1>1, <1>4, <1>8 DEF Start, Replace, Files
<1>9. CASE Load \/ LoadFails \/ Bootstrap \/ WriteKeys \/ FirstPublic \/ StationEnds
  BY <1>1, <1>5, <1>9 DEF Load, LoadFails, Bootstrap, WriteKeys, WriteKey, FirstPublic, StationEnds, Replace, Files
<1>10. CASE Pack \/ RestoreNode \/ RestoreContent \/ InitNode
  BY <1>5, <1>10 DEF Pack, RestoreNode, RestoreContent, InitNode
<1>11. ASSUME NEW force \in BOOLEAN, StartRestore(force) PROVE OnDisk'
  BY <1>5, <1>11 DEF StartRestore
<1>12. ASSUME NEW f \in Files, CopyBack(f) PROVE OnDisk'
  BY <1>1, <1>4, <1>12 DEF CopyBack, Replace, Files
<1>13. CASE RestoreDies
  BY <1>1, <1>4, <1>13 DEF RestoreDies, Replace, Files
<1>14. CASE LoseDisk
  <2>1. wal' = NoLog /\ disk'["db"] = NoFile
    BY <1>14 DEF LoseDisk, Files
  <2> QED BY <1>4, <2>1
<1> QED BY <1>6, <1>7, <1>8, <1>9, <1>10, <1>11, <1>12, <1>13, <1>14, NextCases

LEMMA DatabaseStays ==
  ASSUME Types, Numbered, [Next]_vars
  PROVE  DatabaseThere'
<1> USE DEF Numbered, DatabaseThere, Present
<1>0. DOMAIN disk = Files /\ Level \in Nat /\ NoFile \notin Nat /\ Torn # NoFile /\ Empty \in Nat
  BY LevelRises DEF Types, KeyTypes
<1>1. disk["db"] \notin {NoFile, Torn} => Recovered \in Nat
  BY <1>0, RecoveredContent DEF OnDisk, Content
<1>2. CASE Apart \/ AtWork
  <2>1. ASSUME Checkpoint PROVE disk["db"] # NoFile => disk'["db"] # NoFile
    BY <1>0, <1>1, <2>1 DEF Checkpoint, Replace, Files, Recovered, OnDisk, Mixed
  <2> QED BY <1>2, <2>1 DEF Apart, AtWork, Commit
<1>3. CASE Start
  BY <1>0, <1>1, <1>3 DEF Start, Replace, Files
<1>4. CASE Load \/ LoadFails \/ Bootstrap \/ WriteKeys \/ FirstPublic \/ StationEnds
  <2>1. disk'["db"] = disk["db"]
    BY <1>0, <1>4
    DEF Load, LoadFails, Bootstrap, WriteKeys, WriteKey, FirstPublic, StationEnds, Replace, Files
  <2>2. pc # "down"
    BY <1>4 DEF Load, LoadFails, Bootstrap, WriteKeys, WriteKey, FirstPublic, StationEnds
  <2> QED BY <2>1, <2>2
<1>5. CASE Pack \/ RestoreNode \/ RestoreContent \/ InitNode
  BY <1>5 DEF Pack, RestoreNode, RestoreContent, InitNode, station
<1>6. ASSUME NEW force \in BOOLEAN, StartRestore(force) PROVE DatabaseThere'
  BY <1>6 DEF StartRestore, station
<1>7. ASSUME NEW f \in Files, CopyBack(f) PROVE DatabaseThere'
  <2>1. archive.files[f] # NoFile
    BY <1>7 DEF CopyBack, Listed, Members, Types
  <2> QED BY <1>0, <1>7, <2>1 DEF CopyBack, Replace, station
<1>8. CASE RestoreDies
  BY <1>0, <1>8 DEF RestoreDies, Replace, station, Files
<1>9. CASE LoseDisk
  BY <1>9 DEF LoseDisk, station
<1> QED BY <1>2, <1>3, <1>4, <1>5, <1>6, <1>7, <1>8, <1>9, NextCases

LEMMA NumberedStep ==
  ASSUME Types, Numbered, InCopy, [Next]_vars
  PROVE  Numbered'
<1>0. Level \in Nat /\ Level' \in Nat /\ Level <= Level'
  BY LevelRises
<1>1. \A x : Content(x) => Content(x)'
  BY <1>0 DEF Content
<1>2. Content(Recovered) /\ Content(disk["db"]) /\ Content(stage.files["db"]) /\ Content(archive.files["db"])
  BY <1>0, RecoveredContent DEF Numbered, OnDisk
<1>3. NoArchive.files["db"] = NoFile /\ Content(NoFile)
  BY DEF NoArchive, Content, Files
<1>4. DOMAIN stage = DOMAIN NoArchive /\ DOMAIN stage.files = Files /\ DOMAIN archive = DOMAIN NoArchive
  BY DEF Types, ArchiveTypes, KeyTypes
<1>5. Content(stage'.files["db"])
  <2>1. CASE StageKept
    BY <1>2, <2>1 DEF StageKept
  <2>2. CASE StartBackup
    BY <1>3, <2>2 DEF StartBackup, NoArchive
  <2>3. CASE CopyFile
    <3>1. PICK file \in Files :
            stage' = [stage EXCEPT !.files[file] = Snapshot(file),
                                   !.expect = IF file = "manifest" THEN Manifest \cap pinned ELSE @]
      BY <2>3, CopyStep
    <3>2. stage'.files = [stage.files EXCEPT ![file] = Snapshot(file)]
      BY <1>4, <3>1 DEF NoArchive
    <3>3. Content(Snapshot("db"))
      BY <1>2 DEF Snapshot
    <3> QED BY <1>2, <1>4, <3>2, <3>3 DEF Files
  <2>4. CASE ListPins
    BY <1>2, <1>4, <2>4 DEF ListPins, NoArchive
  <2>5. CASE Pack \/ BackupDies
    BY <1>3, <2>5 DEF Pack, BackupDies, BackupOver
  <2>6. ASSUME NEW p \in Posts, Export(p) PROVE Content(stage'.files["db"])
    BY <1>2, <1>4, <2>6 DEF Export, NoArchive
  <2>7. ASSUME NEW force \in BOOLEAN, StartRestore(force) PROVE Content(stage'.files["db"])
    BY <1>2, <1>4, <2>7 DEF StartRestore, NoArchive
  <2> QED BY <2>1, <2>2, <2>3, <2>4, <2>5, <2>6, <2>7, StageCases
<1>6. archive'.files["db"] \in {archive.files["db"], stage.files["db"], NoFile}
  <2>1. CASE Pack
    BY <1>4, <2>1 DEF Pack, stored, NoArchive
  <2>2. ASSUME NEW force \in BOOLEAN, StartRestore(force) PROVE archive'.files["db"] = archive.files["db"]
    BY <1>4, <2>2 DEF StartRestore, NoArchive
  <2> QED BY <1>3, <2>1, <2>2, ArchiveSteps
<1>7. Content(stage.files["db"])' /\ Content(archive.files["db"])'
  BY <1>0, <1>2, <1>3, <1>5, <1>6 DEF Content
<1> QED BY <1>7, DatabaseSteps, DatabaseStays DEF Numbered

LEMMA ServingStep ==
  ASSUME Types, IdInv, Numbered, Serving, [Next]_vars
  PROVE  Serving'
<1> USE DEF Serving
<1>0. DOMAIN disk = Files /\ Level \in Nat /\ Empty \in Nat
  BY LevelRises DEF Types, KeyTypes
<1>1. disk["db"] \in Nat => Recovered \in Nat
  BY <1>0, RecoveredContent
<1>2. disk["db"] \in Nat \cup {NoFile, Torn}
  BY DEF Numbered, OnDisk, Content
<1>3. CASE Apart
  BY <1>3 DEF Apart
<1>4. CASE AtWork
  <2>1. ASSUME Checkpoint PROVE disk'["db"] = Recovered
    BY <1>0, <2>1 DEF Checkpoint, Replace, Files
  <2> QED BY <1>1, <1>4, <2>1 DEF AtWork, Commit
<1>5. CASE Start
  <2>1. pc' = "load" /\ known' = known /\ disk'["db"] \in Nat /\ alone' \in BOOLEAN
    BY <1>0, <1>1, <1>2, <1>5 DEF Start, Replace, Present, Files
  <2>2. alone' = FALSE => known = NoIdentity
    BY <1>5 DEF Start, IdInv
  <2> QED BY <2>1, <2>2
<1>6. CASE Load \/ FirstPublic
  <2>1. /\ pc # "down" /\ disk'["db"] = disk["db"] /\ alone' = alone
        /\ alone = FALSE => known' = NoIdentity
    BY <1>0, <1>6 DEF Load, FirstPublic, Serve, Replace, Files
  <2> QED BY <2>1
<1>7. CASE LoadFails \/ Bootstrap \/ WriteKeys \/ StationEnds
  <2>1. /\ pc # "down" /\ disk'["db"] = disk["db"] /\ known' = known
        /\ alone' = alone \/ (pc' = "down" /\ alone' = FALSE)
    BY <1>0, <1>7 DEF LoadFails, Bootstrap, WriteKeys, WriteKey, StationEnds, Replace, Files, past
  <2> QED BY <2>1
<1>8. CASE Pack \/ InitNode
  BY <1>8 DEF Pack, InitNode, station, past
<1>9. ASSUME NEW force \in BOOLEAN, StartRestore(force) PROVE Serving'
  BY <1>9 DEF StartRestore
<1>10. ASSUME rs # "idle", UNCHANGED <<alone, known>> PROVE Serving'
  BY <1>10 DEF IdInv
<1>11. CASE RestoreNode \/ RestoreContent \/ RestoreDies
  BY <1>10, <1>11 DEF RestoreNode, RestoreContent, RestoreDies, past
<1>12. ASSUME NEW f \in Files, CopyBack(f) PROVE Serving'
  BY <1>10, <1>12 DEF CopyBack, past
<1>13. CASE LoseDisk
  BY <1>13 DEF LoseDisk
<1> QED BY <1>3, <1>4, <1>5, <1>6, <1>7, <1>8, <1>9, <1>11, <1>12, <1>13, NextCases

RowsKept == known' = known /\ Recovered' \in Nat /\ Recovered <= Recovered'

(* A station that has served keeps its identity and loses no row. *)
LEMMA KnownSteps ==
  ASSUME Types, IdInv, Numbered, Serving, [Next]_vars, known # NoIdentity
  PROVE  \/ Recovered \in Nat /\ RowsKept
         \/ LoseDisk
         \/ \E force \in BOOLEAN : StartRestore(force)
<1>0. DOMAIN disk = Files /\ Level \in Nat /\ Level' \in Nat /\ Level <= Level' /\ Empty \in Nat /\ Empty <= Level
  BY LevelRises DEF Types, KeyTypes
<1>1. disk["db"] \in Nat /\ Recovered \in Nat /\ Recovered <= Level /\ rs = "idle"
  BY <1>0, RecoveredContent DEF Serving, IdInv
<1>2. UNCHANGED <<disk["db"], wal, known>> => RowsKept
  BY <1>1 DEF Recovered, RowsKept
<1>3. ASSUME wal' = NoLog, disk'["db"] = Recovered, known' = known PROVE RowsKept
  <2>1. Recovered' = Recovered
    BY <1>3 DEF Recovered
  <2> QED BY <1>1, <1>3, <2>1 DEF RowsKept
<1>4. ASSUME Apart PROVE RowsKept
  BY <1>2, <1>4 DEF Apart
<1>5. ASSUME AtWork PROVE RowsKept
  <2>1. known' = known
    BY <1>5 DEF AtWork
  <2>2. CASE Commit
    <3>1. wal' = [on |-> disk["db"], top |-> Level'] /\ disk' = disk
      BY <2>2 DEF Commit, Level
    <3>2. wal' # NoLog
      BY <1>0, <3>1 DEF Empty, NoLog
    <3>3. Recovered' = Level'
      BY <3>1, <3>2 DEF Recovered
    <3> QED BY <1>0, <1>1, <2>1, <3>3 DEF RowsKept
  <2>3. CASE Checkpoint
    <3>1. wal' = NoLog /\ disk'["db"] = Recovered
      BY <1>0, <2>3 DEF Checkpoint, Replace, Files
    <3> QED BY <1>3, <2>1, <3>1
  <2> QED BY <1>2, <1>5, <2>1, <2>2, <2>3 DEF AtWork
<1>6. ASSUME Start PROVE RowsKept
  <2>1. wal' = NoLog /\ disk'["db"] = Recovered /\ known' = known
    BY <1>0, <1>1, <1>6 DEF Start, Replace, Present, Files
  <2> QED BY <1>3, <2>1
<1>7. ASSUME Load PROVE RowsKept
  <2>1. alone = TRUE
    BY <1>7 DEF Load, Serving
  <2>2. disk["public"] = known /\ disk["mlkem"] = known.mlkem /\ disk["mldsa"] = known.mldsa /\ known \in Identity
    BY DEF IdInv, Kept, Types
  <2>3. disk["public"] # NoFile
    BY <2>2
  <2>4. known' = [mlkem |-> disk["mlkem"], mldsa |-> disk["mldsa"], uid |-> disk["public"].uid]
    BY <1>7, <2>1, <2>3 DEF Load, Serve, Present
  <2>5. known' = known
    BY <2>2, <2>4 DEF Identity
  <2>6. UNCHANGED <<disk["db"], wal>>
    BY <1>0, <1>7 DEF Load, Replace, Files
  <2> QED BY <1>2, <2>5, <2>6
<1>8. ASSUME LoadFails \/ Bootstrap \/ StationEnds PROVE RowsKept
  BY <1>2, <1>8 DEF LoadFails, Bootstrap, StationEnds, past
<1>9. ~ WriteKeys /\ ~ FirstPublic
  BY DEF WriteKeys, WriteKey, FirstPublic, IdInv, Boot
<1>10. ASSUME Pack \/ InitNode PROVE RowsKept
  BY <1>2, <1>10 DEF Pack, InitNode, past
<1>11. /\ ~ RestoreNode /\ ~ RestoreContent /\ ~ RestoreDies
       /\ \A f \in Files : ~ CopyBack(f)
  BY <1>1 DEF RestoreNode, RestoreContent, RestoreDies, CopyBack
<1> QED BY <1>1, <1>4, <1>5, <1>6, <1>7, <1>8, <1>9, <1>10, <1>11, NextCases

----------------------------------------------------------------------------
(* What a backup has collected beside a station that has served is that     *)
(* station's, and the content it is to have is pinned, listed or exported.  *)

Done(file) == bk \in {"pins", "export"} \/ (bk = "copy" /\ file \notin todo)

Collected ==
  /\ bk = "idle" => stage.of = NoIdentity
  /\ stage.of # NoIdentity =>
       /\ known = stage.of
       /\ stage.rows \in Nat /\ Recovered \in Nat /\ stage.rows <= Recovered
       /\ Done("mlkem") => stage.files["mlkem"] = stage.of.mlkem
       /\ Done("mldsa") => stage.files["mldsa"] = stage.of.mldsa
       /\ Done("public") => stage.files["public"] = stage.of
       /\ Done("db") => stage.files["db"] \in Nat /\ stage.rows <= stage.files["db"]

Archived ==
  archive.of # NoIdentity =>
    /\ archive.of \in Identity
    /\ archive.files["mlkem"] = archive.of.mlkem
    /\ archive.files["mldsa"] = archive.of.mldsa
    /\ archive.files["public"] = archive.of
    /\ archive.rows \in Nat /\ archive.files["db"] \in Nat /\ archive.rows <= archive.files["db"]

Exported ==
  /\ bk \in {"copy", "pins"} => stage.expect \subseteq pinned
  /\ bk = "export" => stage.expect \subseteq todo \cup stage.content
  /\ archive.expect \subseteq archive.content

LEMMA InCopyStep ==
  ASSUME Types, InCopy, [Next]_vars
  PROVE  InCopy'
<1>1. CASE StageKept
  BY <1>1 DEF StageKept, InCopy
<1>2. CASE StartBackup
  <2>1. todo' = Ending(5) /\ 5 \in 1..5
    BY <1>2 DEF StartBackup, Ending
  <2> QED BY <2>1 DEF InCopy
<1>3. CASE CopyFile
  BY <1>3, CopyStep DEF InCopy
<1>4. CASE ListPins \/ Pack \/ BackupDies
  BY <1>4 DEF ListPins, Pack, BackupDies, BackupOver, InCopy
<1>5. ASSUME NEW p \in Posts, Export(p) PROVE InCopy'
  BY <1>5 DEF Export, InCopy
<1>6. ASSUME NEW force \in BOOLEAN, StartRestore(force) PROVE InCopy'
  BY <1>6 DEF StartRestore, InCopy
<1> QED BY <1>1, <1>2, <1>3, <1>4, <1>5, <1>6, StageCases

LEMMA CollectedStep ==
  ASSUME Types, IdInv, Numbered, Serving, InCopy, Collected, [Next]_vars
  PROVE  Collected'
<1>0. DOMAIN stage = DOMAIN NoArchive /\ DOMAIN stage.files = Files /\ NoArchive.of = NoIdentity
  BY DEF Types, ArchiveTypes, KeyTypes, NoArchive
<1>1. ASSUME StageKept PROVE Collected'
  <2>1. CASE stage.of = NoIdentity
    BY <1>1, <2>1 DEF StageKept, Collected
  <2>2. CASE stage.of # NoIdentity
    <3>1. known # NoIdentity /\ bk # "idle"
      BY <2>2 DEF Collected
    <3>2. CASE RowsKept
      <4>1. stage.rows <= Recovered'
        BY <2>2, <3>2 DEF Collected, RowsKept
      <4> QED BY <1>1, <2>2, <3>1, <3>2, <4>1 DEF Collected, StageKept, RowsKept, Done
    <3>3. ~ LoseDisk
      BY <3>1 DEF LoseDisk
    <3>4. ASSUME NEW force \in BOOLEAN, StartRestore(force) PROVE stage'.of = NoIdentity
      BY <1>0, <3>4 DEF StartRestore, NoArchive
    <3>5. CASE stage'.of = NoIdentity
      BY <1>1, <2>2, <3>5 DEF StageKept
    <3> QED BY <3>1, <3>2, <3>3, <3>4, <3>5, KnownSteps
  <2> QED BY <2>1, <2>2
<1>2. ASSUME StartBackup PROVE Collected'
  <2>1. /\ bk' = "copy" /\ todo' = Files /\ UNCHANGED <<known, disk, wal>>
        /\ stage'.of = known /\ stage'.rows = IF known = NoIdentity THEN 0 ELSE Recovered
    BY <1>2 DEF StartBackup, NoArchive, past
  <2>2. Recovered' = Recovered
    BY <2>1 DEF Recovered
  <2>3. ~ Done("mlkem")' /\ ~ Done("mldsa")' /\ ~ Done("public")' /\ ~ Done("db")'
    BY <2>1 DEF Done, Files
  <2>4. known # NoIdentity => Recovered \in Nat
    BY LevelRises, RecoveredContent DEF Serving
  <2> QED BY <2>1, <2>2, <2>3, <2>4 DEF Collected
<1>3. ASSUME CopyFile PROVE Collected'
  <2>1. PICK file \in Files :
          /\ stage' = [stage EXCEPT !.files[file] = Snapshot(file),
                                    !.expect = IF file = "manifest" THEN Manifest \cap pinned ELSE @]
          /\ file \in todo /\ todo' = todo \ {file}
          /\ \/ bk' = "copy" /\ file # "manifest" /\ InCopy'
             \/ bk' = "pins" /\ file = "manifest" /\ todo' = {}
    BY <1>3, CopyStep
  <2>2. /\ stage'.files = [stage.files EXCEPT ![file] = Snapshot(file)]
        /\ stage'.of = stage.of /\ stage'.rows = stage.rows
    BY <1>0, <2>1 DEF NoArchive
  <2>3. bk = "copy" /\ UNCHANGED <<known, disk, wal>>
    BY <1>3 DEF CopyFile, past
  <2>4. Recovered' = Recovered
    BY <2>3 DEF Recovered
  <2>5. ASSUME NEW other \in Files, Done(other)'
        PROVE  other = file \/ (Done(other) /\ stage'.files[other] = stage.files[other])
    BY <1>0, <2>1, <2>2, <2>3, <2>5 DEF Done
  <2>6. stage'.files[file] = Snapshot(file)
    BY <1>0, <2>2
  <2>7. known # NoIdentity =>
          /\ Snapshot("mlkem") = known.mlkem /\ Snapshot("mldsa") = known.mldsa
          /\ Snapshot("public") = known /\ Snapshot("db") = Recovered
    BY DEF Snapshot, IdInv, Kept, Serving, Present
  <2> QED BY <2>1, <2>2, <2>3, <2>4, <2>5, <2>6, <2>7 DEF Collected, Files
<1>4. ASSUME ListPins PROVE Collected'
  <2>1. /\ UNCHANGED <<known, disk, wal>> /\ bk = "pins" /\ bk' = "export"
        /\ stage'.files = stage.files /\ stage'.of = stage.of /\ stage'.rows = stage.rows
    BY <1>0, <1>4 DEF ListPins, NoArchive, past
  <2>2. Recovered' = Recovered
    BY <2>1 DEF Recovered
  <2> QED BY <2>1, <2>2 DEF Collected, Done
<1>5. ASSUME NEW p \in Posts, Export(p) PROVE Collected'
  <2>1. /\ UNCHANGED <<known, disk, wal, bk>> /\ bk = "export"
        /\ stage'.files = stage.files /\ stage'.of = stage.of /\ stage'.rows = stage.rows
    BY <1>0, <1>5 DEF Export, NoArchive, past
  <2>2. Recovered' = Recovered
    BY <2>1 DEF Recovered
  <2> QED BY <2>1, <2>2 DEF Collected, Done
<1>6. ASSUME Pack \/ BackupDies PROVE Collected'
  BY <1>0, <1>6 DEF Pack, BackupDies, BackupOver, Collected
<1>7. ASSUME NEW force \in BOOLEAN, StartRestore(force) PROVE Collected'
  <2>1. stage'.of = NoIdentity
    BY <1>0, <1>7 DEF StartRestore, NoArchive
  <2> QED BY <2>1 DEF Collected
<1> QED BY <1>1, <1>2, <1>3, <1>4, <1>5, <1>6, <1>7, StageCases

LEMMA ArchivedStep ==
  ASSUME Types, Collected, Archived, [Next]_vars
  PROVE  Archived'
<1>0. DOMAIN archive = DOMAIN NoArchive /\ DOMAIN stage = DOMAIN NoArchive /\ NoArchive.of = NoIdentity
  BY DEF Types, ArchiveTypes, NoArchive
<1>1. CASE archive' \in {archive, NoArchive}
  BY <1>0, <1>1 DEF Archived
<1>2. CASE Pack
  <2>1. CASE archive' = archive
    BY <2>1 DEF Archived
  <2>2. CASE archive' = [stage EXCEPT !.at = NoDest]
    <3>1. /\ archive'.of = stage.of /\ archive'.files = stage.files /\ archive'.rows = stage.rows
      BY <1>0, <2>2 DEF NoArchive
    <3>2. bk = "export" /\ known \in Identity
      BY <1>2 DEF Pack, Types
    <3> QED BY <3>1, <3>2 DEF Collected, Done, Archived
  <2> QED BY <1>2, <2>1, <2>2 DEF Pack, stored
<1>3. ASSUME NEW force \in BOOLEAN, StartRestore(force) PROVE Archived'
  <2>1. archive'.of = NoIdentity
    BY <1>0, <1>3 DEF StartRestore, NoArchive
  <2> QED BY <2>1 DEF Archived
<1> QED BY <1>1, <1>2, <1>3, ArchiveSteps

LEMMA ExportedStep ==
  ASSUME Types, Exported, [Next]_vars
  PROVE  Exported'
<1> DEFINE Staged == /\ bk \in {"copy", "pins"} => stage.expect \subseteq pinned
                     /\ bk = "export" => stage.expect \subseteq todo \cup stage.content
           Expecting == archive.expect \subseteq archive.content
<1>0. DOMAIN archive = DOMAIN NoArchive /\ DOMAIN stage = DOMAIN NoArchive /\ NoArchive.expect = {}
  BY DEF Types, ArchiveTypes, NoArchive
<1>1. Staged'
  <2>0. Staged
    BY DEF Exported
  <2>1. CASE StageKept
    BY <2>0, <2>1 DEF StageKept
  <2>2. CASE StartBackup
    BY <2>2 DEF StartBackup, NoArchive
  <2>3. CASE CopyFile
    BY <1>0, <2>0, <2>3 DEF CopyFile, NoArchive, node
  <2>4. CASE ListPins
    BY <1>0, <2>0, <2>4 DEF ListPins, NoArchive
  <2>5. CASE Pack \/ BackupDies
    BY <2>5 DEF Pack, BackupDies, BackupOver
  <2>6. ASSUME NEW p \in Posts, Export(p) PROVE Staged'
    BY <1>0, <2>0, <2>6 DEF Export, NoArchive
  <2>7. ASSUME NEW force \in BOOLEAN, StartRestore(force) PROVE Staged'
    BY <1>0, <2>0, <2>7 DEF StartRestore, NoArchive, node
  <2> QED BY <2>1, <2>2, <2>3, <2>4, <2>5, <2>6, <2>7, StageCases
<1>2. Expecting'
  <2>1. CASE archive' \in {archive, NoArchive}
    BY <1>0, <2>1 DEF Exported
  <2>2. CASE Pack
    BY <1>0, <2>2 DEF Pack, stored, NoArchive, Exported
  <2>3. ASSUME NEW force \in BOOLEAN, StartRestore(force) PROVE Expecting'
    BY <1>0, <2>3 DEF StartRestore, NoArchive
  <2> QED BY <2>1, <2>2, <2>3, ArchiveSteps
<1> QED BY <1>1, <1>2 DEF Exported

BackupInv == Numbered /\ Serving /\ InCopy /\ Collected /\ Archived /\ Exported

LEMMA BackupInit == Init => BackupInv
<1> SUFFICES ASSUME Init PROVE BackupInv
  OBVIOUS
<1>1. NoArchive.files["db"] = NoFile /\ NoArchive.of = NoIdentity /\ NoArchive.expect = {}
  BY DEF NoArchive, Files
<1>2. counts.requests = 0 /\ disk["db"] = NoFile /\ wal = [on |-> 0, top |-> 0]
  BY DEF Init, Bounds, Files, NoLog
<1>3. Numbered
  BY <1>1, <1>2 DEF Init, Numbered, OnDisk, DatabaseThere, Content, Level, Empty
<1> QED BY <1>1, <1>3 DEF Init, BackupInv, Serving, InCopy, Collected, Archived, Exported

(* What a backup has collected so far is the station's, at every step.      *)
THEOREM BackupInvariant == Spec => []BackupInv
<1>1. Types /\ IdInv /\ BackupInv /\ [Next]_vars => BackupInv'
  BY NumberedStep, ServingStep, InCopyStep, CollectedStep, ArchivedStep, ExportedStep DEF BackupInv
<1> QED BY <1>1, BackupInit, FilesTyped, IdentityInv, PTL DEF Spec

(* An archive made beside a station that has served holds that station's    *)
(* identity and every row committed before the backup began, and the        *)
(* content of the posts it lists (backup.py:493-545).                       *)
THEOREM BackupIsOfStation == Spec => []ArchiveIsStation
<1>1. BackupInv => ArchiveIsStation
  BY DEF BackupInv, Archived, Exported, ArchiveIsStation, Paired, Identity
<1> QED BY <1>1, BackupInvariant, PTL

----------------------------------------------------------------------------
(* The types of what is left: lists of posts, jobs, and what archives carry. *)

ListTypes(files) == files["manifest"] \in {NoFile, Torn} \/ files["manifest"] \subseteq Posts

CarriedTypes(a) ==
  /\ ListTypes(a.files) /\ a.files["db"] # Torn
  /\ a.peer \in Nat /\ a.rows \in Nat /\ a.of \in Identity
  /\ a.content \subseteq Posts /\ a.expect \subseteq Posts
  /\ a.auto \in BOOLEAN

NodeTypes == ListTypes(disk) /\ pinned \subseteq Posts /\ peer \in Nat /\ job \in Job
FlagTypes == clean \in BOOLEAN /\ over \in BOOLEAN /\ rebuilt \in BOOLEAN
BackupTypes ==
  /\ bk \in {"idle", "copy", "pins", "export"}
  /\ todo \subseteq IF bk = "copy" THEN Files ELSE Posts
ArchivesTyped == CarriedTypes(stage) /\ CarriedTypes(archive)

MoreTypes == NodeTypes /\ FlagTypes /\ BackupTypes /\ ArchivesTyped

LEMMA JobFields ==
  ASSUME job \in Job
  PROVE  /\ job.op = "list" => job.post \in Posts
         /\ job.op \in {"point", "unpin"} => job.gone \subseteq Posts
BY DEF Job, NoJob

LEMMA JobTypes ==
  /\ NoJob \in Job
  /\ \A p \in Posts : [op |-> "list", post |-> p] \in Job
  /\ \A gone \in SUBSET Posts : [op |-> "point", gone |-> gone] \in Job /\ [op |-> "unpin", gone |-> gone] \in Job
BY DEF Job

LEMMA ManifestTypes ==
  ASSUME ListTypes(disk) PROVE Manifest \subseteq Posts
BY DEF ListTypes, Manifest

LEMMA NodeStep ==
  ASSUME Types, MoreTypes, [Next]_vars
  PROVE  NodeTypes'
<1> USE DEF node, station, stored
<1>0. NodeTypes /\ DOMAIN disk = Files /\ Manifest \subseteq Posts
  BY ManifestTypes DEF MoreTypes, NodeTypes, Types, KeyTypes
<1>1. UNCHANGED <<disk["manifest"], pinned, peer, job>> => NodeTypes'
  BY <1>0 DEF NodeTypes, ListTypes
<1>2. ASSUME NEW posts \in SUBSET Posts, NEW gone \in SUBSET Posts, SaveManifest(posts, gone)
      PROVE  NodeTypes'
  BY <1>0, <1>2, JobTypes DEF SaveManifest, Replace, NodeTypes, ListTypes, Files
<1>3. CASE Start \/ Load \/ LoadFails \/ Bootstrap \/ WriteKeys \/ FirstPublic
  <2>1. UNCHANGED <<disk["manifest"], pinned, peer, job>>
    BY <1>0, <1>3 DEF Start, Load, LoadFails, Bootstrap, WriteKeys, WriteKey, FirstPublic, Serve, Replace, Files
  <2> QED BY <1>1, <2>1
<1>4. CASE StationEnds
  BY <1>0, <1>4, JobTypes DEF StationEnds, NodeTypes, ListTypes
<1>5. ASSUME NEW p \in Posts, Pin(p) PROVE NodeTypes'
  BY <1>0, <1>5, JobTypes DEF Pin, NodeTypes, ListTypes
<1>6. ASSUME NEW p \in Posts, Unlist(p) PROVE NodeTypes'
  BY <1>0, <1>2, <1>6 DEF Unlist
<1>7. CASE List
  BY <1>0, <1>2, <1>7, JobFields DEF List, Working, NodeTypes
<1>8. CASE Point
  <2>1. job.gone \subseteq Posts
    BY <1>0, <1>8, JobFields DEF Point, Working, NodeTypes
  <2>2. job' \in Job
    BY <1>8, <2>1, JobTypes DEF Point
  <2> QED BY <1>0, <1>8, <2>2 DEF Point, NodeTypes, ListTypes
<1>9. CASE Unpin
  BY <1>0, <1>9, JobTypes DEF Unpin, NodeTypes, ListTypes
<1>10. CASE Commit
  BY <1>1, <1>10 DEF Commit
<1>11. CASE Checkpoint
  BY <1>0, <1>1, <1>11 DEF Checkpoint, Replace, Files
<1>12. CASE StartBackup \/ CopyFile \/ ListPins \/ Pack \/ BackupDies
  BY <1>1, <1>12 DEF StartBackup, CopyFile, ListPins, Pack, BackupDies
<1>13. ASSUME NEW p \in Posts, Export(p) PROVE NodeTypes'
  BY <1>1, <1>13 DEF Export
<1>14. ASSUME NEW force \in BOOLEAN, StartRestore(force) PROVE NodeTypes'
  BY <1>1, <1>14 DEF StartRestore
<1>15. ASSUME NEW f \in Files, CopyBack(f) PROVE NodeTypes'
  <2>1. disk'["manifest"] \in {disk["manifest"], archive.files["manifest"]}
    BY <1>0, <1>15 DEF CopyBack, Replace, Files
  <2> QED BY <1>0, <1>15, <2>1 DEF CopyBack, NodeTypes, ListTypes, MoreTypes, ArchivesTyped, CarriedTypes
<1>16. CASE RestoreNode
  BY <1>0, <1>16 DEF RestoreNode, NodeTypes, ListTypes, MoreTypes, ArchivesTyped, CarriedTypes
<1>17. CASE RestoreContent
  BY <1>0, <1>17 DEF RestoreContent, NodeTypes, ListTypes, MoreTypes, ArchivesTyped, CarriedTypes
<1>18. CASE RestoreDies
  <2>1. disk'["manifest"] \in {disk["manifest"], Torn}
    BY <1>0, <1>18 DEF RestoreDies, Replace, Listed, Members, Files
  <2> QED BY <1>0, <1>18, <2>1 DEF RestoreDies, NodeTypes, ListTypes
<1>19. CASE LoseDisk
  BY <1>0, <1>19 DEF LoseDisk, NodeTypes, ListTypes, Files
<1>20. CASE InitNode
  BY <1>0, <1>20 DEF InitNode, NodeTypes, ListTypes, Types, CountTypes
<1>21. ASSUME NEW m \in Drives, Plug(m) \/ Unplug(m) PROVE NodeTypes'
  BY <1>1, <1>21 DEF Plug, Unplug
<1>22. CASE UNCHANGED vars
  BY <1>1, <1>22 DEF vars
<1> QED
  BY <1>3, <1>4, <1>5, <1>6, <1>7, <1>8, <1>9, <1>10, <1>11, <1>12, <1>13, <1>14, <1>15, <1>16, <1>17,
     <1>18, <1>19, <1>20, <1>21, <1>22
  DEF Next

LEMMA FlagStep ==
  ASSUME Types, MoreTypes, [Next]_vars
  PROVE  FlagTypes'
<1> USE DEF MoreTypes, FlagTypes, restore, past
<1>1. CASE Apart \/ AtWork
  BY <1>1 DEF Apart, AtWork
<1>2. CASE Start \/ Load \/ LoadFails \/ Bootstrap \/ WriteKeys \/ FirstPublic \/ StationEnds
  BY <1>2 DEF Start, Load, LoadFails, Bootstrap, WriteKeys, WriteKey, FirstPublic, StationEnds, Serve
<1>3. CASE Pack \/ LoseDisk \/ InitNode
  BY <1>3 DEF Pack, LoseDisk, InitNode
<1>4. ASSUME NEW force \in BOOLEAN, StartRestore(force) PROVE FlagTypes'
  <2>1. clean' \in BOOLEAN /\ over' \in BOOLEAN
    BY <1>4 DEF StartRestore
  <2> QED BY <1>4, <2>1 DEF StartRestore
<1>5. ASSUME NEW f \in Files, CopyBack(f) PROVE FlagTypes'
  BY <1>5 DEF CopyBack
<1>6. CASE RestoreNode \/ RestoreContent \/ RestoreDies
  BY <1>6 DEF RestoreNode, RestoreContent, RestoreDies
<1> QED BY <1>1, <1>2, <1>3, <1>4, <1>5, <1>6, NextCases

LEMMA BackupTypesStep ==
  ASSUME Types, MoreTypes, InCopy, [Next]_vars
  PROVE  BackupTypes'
<1> USE DEF MoreTypes, BackupTypes
<1>1. CASE StageKept
  BY <1>1 DEF StageKept
<1>2. CASE StartBackup
  BY <1>2 DEF StartBackup
<1>3. CASE CopyFile
  <2>1. bk = "copy" /\ todo' \subseteq todo
    BY <1>3 DEF CopyFile
  <2>2. bk' = "copy" \/ (bk' = "pins" /\ todo' = {})
    BY <1>3, CopyStep
  <2> QED BY <2>1, <2>2
<1>4. CASE ListPins
  BY <1>4 DEF ListPins, NodeTypes
<1>5. CASE Pack \/ BackupDies
  BY <1>5 DEF Pack, BackupDies, BackupOver
<1>6. ASSUME NEW p \in Posts, Export(p) PROVE BackupTypes'
  BY <1>6 DEF Export
<1>7. ASSUME NEW force \in BOOLEAN, StartRestore(force) PROVE BackupTypes'
  BY <1>7 DEF StartRestore
<1> QED BY <1>1, <1>2, <1>3, <1>4, <1>5, <1>6, <1>7, StageCases

LEMMA NothingCarried == CarriedTypes(NoArchive)
BY DEF CarriedTypes, ListTypes, NoArchive, NoIdentity, Identity, Files

LEMMA CopyCarried ==
  ASSUME Types, MoreTypes, Numbered, InCopy, CopyFile
  PROVE  CarriedTypes(stage')
<1>0. DOMAIN stage = DOMAIN NoArchive /\ DOMAIN stage.files = Files /\ CarriedTypes(stage)
  BY DEF Types, ArchiveTypes, KeyTypes, MoreTypes, ArchivesTyped
<1>1. PICK file \in Files :
        /\ stage' = [stage EXCEPT !.files[file] = Snapshot(file),
                                  !.expect = IF file = "manifest" THEN Manifest \cap pinned ELSE @]
        /\ file = "db" => disk["db"] # Torn
  BY CopyStep
<1>2. /\ stage'.files = [stage.files EXCEPT ![file] = Snapshot(file)]
      /\ stage'.peer = stage.peer /\ stage'.rows = stage.rows /\ stage'.of = stage.of
      /\ stage'.content = stage.content /\ stage'.auto = stage.auto
      /\ stage'.expect \in {stage.expect, Manifest \cap pinned}
  BY <1>0, <1>1 DEF NoArchive
<1>3. stage'.files["manifest"] \in {stage.files["manifest"], disk["manifest"]}
  BY <1>0, <1>2 DEF Snapshot, Files
<1>4. disk["db"] # Torn => Snapshot("db") # Torn
  BY DEF Snapshot, Recovered, Mixed, Numbered, OnDisk
<1>5. stage'.files["db"] # Torn
  BY <1>0, <1>1, <1>2, <1>4 DEF CarriedTypes, Files
<1>6. stage'.expect \subseteq Posts
  BY <1>0, <1>2 DEF CarriedTypes, MoreTypes, NodeTypes
<1> QED BY <1>0, <1>2, <1>3, <1>5, <1>6 DEF CarriedTypes, ListTypes, MoreTypes, NodeTypes

LEMMA StageCarried ==
  ASSUME Types, MoreTypes, Numbered, Serving, InCopy, [Next]_vars
  PROVE  CarriedTypes(stage')
<1>0. DOMAIN stage = DOMAIN NoArchive /\ CarriedTypes(stage)
  BY DEF Types, ArchiveTypes, MoreTypes, ArchivesTyped
<1>1. CASE CopyFile
  BY <1>1, CopyCarried
<1>2. CASE StartBackup
  <2>1. PICK dest, named : stage' = [NoArchive EXCEPT !.at = dest, !.auto = (named = NoDest), !.of = known,
                                                      !.rows = IF known = NoIdentity THEN 0 ELSE Recovered]
    BY <1>2 DEF StartBackup
  <2>2. (IF known = NoIdentity THEN 0 ELSE Recovered) \in Nat
    BY LevelRises, RecoveredContent DEF Serving
  <2>3. known \in Identity /\ (named = NoDest) \in BOOLEAN
    BY DEF Types
  <2>4. /\ stage'.auto = (named = NoDest) /\ stage'.of = known
        /\ stage'.rows = IF known = NoIdentity THEN 0 ELSE Recovered
        /\ stage'.files = NoArchive.files /\ stage'.peer = NoArchive.peer
        /\ stage'.content = NoArchive.content /\ stage'.expect = NoArchive.expect
    BY <2>1 DEF NoArchive
  <2> QED BY <2>2, <2>3, <2>4, NothingCarried DEF CarriedTypes
<1>3. CASE ListPins
  BY <1>0, <1>3 DEF ListPins, NoArchive, CarriedTypes, MoreTypes, NodeTypes
<1>4. CASE Pack \/ BackupDies
  BY <1>4, NothingCarried DEF Pack, BackupDies, BackupOver
<1>5. ASSUME NEW p \in Posts, Export(p) PROVE CarriedTypes(stage')
  BY <1>0, <1>5 DEF Export, NoArchive, CarriedTypes
<1>6. CASE Unpin
  BY <1>0, <1>6 DEF Unpin, NoArchive, CarriedTypes
<1>7. ASSUME NEW force \in BOOLEAN, StartRestore(force) PROVE CarriedTypes(stage')
  BY <1>0, <1>7 DEF StartRestore, NoArchive, CarriedTypes, NoIdentity, Identity
<1>8. ASSUME NEW m \in Drives, Unplug(m) PROVE CarriedTypes(stage')
  <2>1. stage' = [stage EXCEPT !.auto = stage.auto /\ ~Under(stage.at, m)]
    BY <1>8 DEF Unplug
  <2>2. stage'.auto \in BOOLEAN
    BY <1>0, <2>1 DEF NoArchive
  <2> QED BY <1>0, <2>1, <2>2 DEF NoArchive, CarriedTypes
<1>9. ASSUME stage' = stage PROVE CarriedTypes(stage')
  BY <1>0, <1>9
<1>10. ASSUME NEW p \in Posts, Pin(p) \/ Unlist(p) PROVE stage' = stage
  BY <1>10 DEF Pin, Unlist, SaveManifest, Worked, backup
<1>11. ASSUME NEW f \in Files, CopyBack(f) PROVE stage' = stage
  BY <1>11 DEF CopyBack, backup
<1>12. ASSUME NEW m \in Drives, Plug(m) PROVE stage' = stage
  BY <1>12 DEF Plug, backup
<1>13. CASE Start \/ Load \/ LoadFails \/ Bootstrap \/ WriteKeys \/ FirstPublic
  BY <1>9, <1>13 DEF Start, Load, LoadFails, Bootstrap, WriteKeys, WriteKey, FirstPublic, backup
<1>14. CASE List \/ Point \/ Commit \/ Checkpoint \/ StationEnds
  BY <1>9, <1>14 DEF List, SaveManifest, Point, Commit, Checkpoint, StationEnds, Worked, backup
<1>15. CASE RestoreNode \/ RestoreContent \/ RestoreDies \/ LoseDisk \/ InitNode
  BY <1>9, <1>15 DEF RestoreNode, RestoreContent, RestoreDies, LoseDisk, InitNode, backup
<1>16. CASE UNCHANGED vars
  BY <1>9, <1>16 DEF vars, backup
<1> QED
  BY <1>1, <1>2, <1>3, <1>4, <1>5, <1>6, <1>7, <1>8, <1>9, <1>10, <1>11, <1>12, <1>13, <1>14, <1>15, <1>16
  DEF Next

LEMMA ArchiveCarried ==
  ASSUME Types, MoreTypes, [Next]_vars
  PROVE  CarriedTypes(archive')
<1>0. /\ DOMAIN archive = DOMAIN NoArchive /\ DOMAIN stage = DOMAIN NoArchive
      /\ CarriedTypes(archive) /\ CarriedTypes(stage)
  BY DEF Types, ArchiveTypes, MoreTypes, ArchivesTyped
<1>1. CASE archive' \in {archive, NoArchive}
  BY <1>0, <1>1, NothingCarried
<1>2. CASE Pack
  BY <1>0, <1>2 DEF Pack, stored, NoArchive, CarriedTypes
<1>3. ASSUME NEW force \in BOOLEAN, StartRestore(force) PROVE CarriedTypes(archive')
  BY <1>0, <1>3 DEF StartRestore, NoArchive, CarriedTypes, NoIdentity, Identity
<1> QED BY <1>1, <1>2, <1>3, ArchiveSteps

LEMMA MoreTypesInit == Init => MoreTypes
<1> SUFFICES ASSUME Init PROVE MoreTypes
  OBVIOUS
<1>1. NodeTypes
  BY JobTypes DEF Init, NodeTypes, ListTypes, Files
<1>2. FlagTypes /\ BackupTypes /\ ArchivesTyped
  BY NothingCarried DEF Init, FlagTypes, BackupTypes, ArchivesTyped
<1> QED BY <1>1, <1>2 DEF MoreTypes

LEMMA ArchiveIsTyped ==
  ASSUME NEW a, ArchiveTypes(a), CarriedTypes(a), a.files["db"] \in Nat \cup {NoFile, Torn}
  PROVE  IsArchive(a)
<1>1. \A f \in Files : Fits(f, a.files[f])
  BY DEF ArchiveTypes, KeyTypes, CarriedTypes, ListTypes, Fits, Files
<1> QED BY <1>1 DEF ArchiveTypes, KeyTypes, CarriedTypes, IsArchive

(* Every variable keeps its type, through every crash and restore.          *)
THEOREM FilesTypeOK == Spec => []TypeOK
<1>1. Types /\ BackupInv /\ MoreTypes /\ [Next]_vars => MoreTypes'
  BY NodeStep, FlagStep, BackupTypesStep, StageCarried, ArchiveCarried DEF MoreTypes, ArchivesTyped, BackupInv
<1>2. Types /\ BackupInv /\ MoreTypes => TypeOK
  <2> SUFFICES ASSUME Types, BackupInv, MoreTypes PROVE TypeOK
    OBVIOUS
  <2>1. Content(disk["db"]) /\ Content(stage.files["db"]) /\ Content(archive.files["db"])
    BY DEF BackupInv, Numbered, OnDisk
  <2>2. \A f \in Files : Fits(f, disk[f])
    BY <2>1 DEF Types, KeyTypes, MoreTypes, NodeTypes, ListTypes, Content, Fits, Files
  <2>3. IsArchive(stage) /\ IsArchive(archive)
    BY <2>1, ArchiveIsTyped DEF Content, Types, MoreTypes, ArchivesTyped
  <2>4. wal \in [on : Nat, top : Nat] /\ alone \in BOOLEAN
    BY DEF BackupInv, Numbered, OnDisk, Serving
  <2>5. counts \in [DOMAIN Bounds -> Nat]
    BY DEF Types, CountTypes, Bounds
  <2> QED
    BY <2>2, <2>3, <2>4, <2>5
    DEF TypeOK, Types, KeyTypes, Steps, MoreTypes, NodeTypes, FlagTypes, BackupTypes
<1> QED BY <1>1, <1>2, MoreTypesInit, FilesTyped, BackupInvariant, PTL DEF Spec
=============================================================================
