SPECIFICATION Spec
CONSTANTS
  BaseDir <- MCBaseDir
  IpfsRepo <- MCIpfsRepo
  DataRoot <- MCDataRoot
  MediaDirs <- MCMediaDirs
  StandingDirs <- MCStandingDirs
  Drives <- MCDrives
  DataMounts <- MCDataMounts
  NamedDests <- MCNamedDests
  NoDest = NoDest
  Posts = {p1}
  NoFile = NoFile
  Torn = Torn
  MaxIds = 3
  MaxRequests = 2
  MaxEnds = 1
  MaxBackups = 1
  MaxRestores = 2
  MaxLosses = 1
INVARIANTS TypeOK KeepsIdentity ArchiveIsStation RestoreRebuilds BackupOutlivesDisk
CHECK_DEADLOCK FALSE
