\* Ids: room for one whole turn with a tool call; the fork is made while the
\* source goes on.  Wire: three calls, five imported entries and six in all.
\* Edits: two workers in one process or two, two changes, a removal and a
\* kill.  Index: two projects, three lines of sessions with three ids, and a tree
\* of depth one.
\* Reports: four entries and two rows.  View: eight entries.
CONSTANTS
  Names = {a, b}
  Absent = Absent
  MaxSeq = 11
  Calls = {c1, c2, c3}
  Lists = {l}
  NoList = NoList
  MaxImported = 5
  MaxEntries = 6
  Workers = {w1, w2}
  Pids = {p1, p2}
  Parts = {x, y}
  Nanos = {n1, n2}
  Legacy = Legacy
  MaxChanges = 2
  MaxDeletes = 1
  MaxKills = 1
  Dirs = {d1, d2}
  Ids = {1, 2, 3}
  Imported = 1
  Aliases = {n}
  NoName = NoName
  MaxDepth = 1
  MaxLines = 3
  Tools = {t}
  Inputs = {i1, i2}
  MaxLog = 4
  MaxRows = 2
  Keeps = {1, 2}
  MaxMessages = 8
SYMMETRY Symmetry
SPECIFICATION RecordsSpec
INVARIANTS
  OwnIdsStayFresh
  NoOpenSandwichIsForked
  LogIsTheSource
  EditsAreWhole
  SessionsAreFound
  ReportsAreTrue
  ViewIsWhole
\* Every part is bounded.
CHECK_DEADLOCK FALSE
