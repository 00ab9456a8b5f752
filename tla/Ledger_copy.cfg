SPECIFICATION CopySpec
CONSTANTS
  a = a
  b = b
  r1 = r1
  r2 = r2
  NoConn = NoConn
  Conns = {a}
  Runners = {r1, r2}
  Of <- SameConnection
  Txns = {1, 2, 3, 4}
  When <- OneByOne
  PageSize = 1
  RecentSize = 2
  Overlap = 0
  Backfill = 0
  MaxTime = 3
INVARIANTS TypeOK CaughtUp
PROPERTIES SweptAreGone VanishedRowsGo
