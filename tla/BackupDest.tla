----------------------------- MODULE BackupDest -----------------------------
(***************************************************************************)
(* Where a backup may be written.  A path is a sequence of names; the file *)
(* system it lies on is that of the longest mount point above it.          *)
(***************************************************************************)
EXTENDS Naturals, Sequences, FiniteSets, SequencesExt

CONSTANTS
  BaseDir,      \* the station's data directory
  IpfsRepo,     \* the IPFS repository
  DataRoot,     \* CIPHER_DATA_ROOT, a set of at most one path
  MediaDirs,    \* directories whose children are looked at for removable media
  NoDest        \* no destination

Root == << >>

ASSUME PathsAreSequences ==
  /\ {BaseDir, IpfsRepo} \cup DataRoot \subseteq Seq(STRING)
  /\ NoDest \notin Seq(STRING)

Under(path, dir) == IsPrefix(dir, path)

(* The mount point a path is on; the root file system is always there. *)
Device(mounted, path) ==
  LET above == {m \in mounted \cup {Root} : Under(path, m)}
  IN  CHOOSE m \in above : \A n \in above : Len(n) <= Len(m)

ProtectedRoots == DataRoot \cup {BaseDir, IpfsRepo}

SiblingMutant(path) ==   \* mutant: only the live directories are known, not the volume
  \E root \in {BaseDir, IpfsRepo} : Under(path, root)

(* Containment in either direction. *)
Collides(path) == \E root \in ProtectedRoots : Under(path, root) \/ Under(root, path)

(* A protected root that exists shares a file system with the path. *)
SameDisk(mounted, existing, path) ==
  \E root \in ProtectedRoots \cap existing : Device(mounted, root) = Device(mounted, path)

CandidateMounts(mounted) == {m \in mounted : m # Root /\ Front(m) \in MediaDirs}

SafeMounts(mounted, existing) ==
  {m \in CandidateMounts(mounted) : ~Collides(m) /\ ~SameDisk(mounted, existing, m)}

(* A drive is picked when there is exactly one to pick. *)
AutoDetect(mounted, existing) ==
  LET safe == SafeMounts(mounted, existing)
  IN  IF Cardinality(safe) = 1 THEN CHOOSE m \in safe : TRUE ELSE NoDest

(* The destination named with --dest or CIPHER_BACKUP_DEST, or else a drive. *)
ResolveDest(named, mounted, existing) ==
  IF named # NoDest THEN named ELSE AutoDetect(mounted, existing)
=============================================================================
