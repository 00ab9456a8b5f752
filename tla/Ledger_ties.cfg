SPECIFICATION TiesSpec
CONSTANTS
  a = a
  b = b
  r1 = r1
  r2 = r2
  NoConn = NoConn
  Conns = {a}
  Runners = {r1}
  Of <- SameConnection
  Txns = {1, 2}
  When <- AllAtOnce
  PageSize = 1
  RecentSize = 1
  Overlap = 0
  Backfill = 0
  MaxTime = 1
PROPERTY SweptAreGone
