\* Two processes, and three files that the session's name may refer to.
CONSTANTS
  Procs = {p, q}
  Inodes = {i1, i2, i3}
  NoFile = NoFile
  Nobody = Nobody
  MaxCommits = 3
  MaxSeq = 5
  LooseMaxSeq = 4
  DirPersist = TRUE
  SyncDirMayFail = FALSE
SPECIFICATION LogSpec
INVARIANTS
  NeverBricked
  OneWriter
PROPERTIES
  KeepsItsPromise
