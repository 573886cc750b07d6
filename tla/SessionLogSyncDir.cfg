\* The fsync of the directory fails after compact() has renamed.
CONSTANTS
  Procs = {p}
  Inodes = {i1, i2}
  NoFile = NoFile
  Nobody = Nobody
  MaxCommits = 2
  MaxSeq = 3
  DirPersist = TRUE
  SyncDirMayFail = TRUE
SPECIFICATION Spec
INVARIANTS
  NoSilentLoss
