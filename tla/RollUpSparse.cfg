\* The comment on averaging, on streams of up to three rows.
\* The iteration ends and so does the behaviour.
SPECIFICATION MCSpec
CONSTANTS
  NaN = NaN
  NanValue = NaN
  Null = Null
  None = None
  NoRow = NoRow
  narrow = narrow
  cpu = cpu
  load = load
  length = length
  unknown = unknown
  MaxRequests = 0
  Error = Error
  Forms <- MCForms
  KnownMetrics <- MCKnown
  ArrayFields <- MCFields
  Tables <- MCTables
  wide = wide
  Times = {0, 1, 2, 4, 5, 6, 7}
  Values <- MCValues
  MaxRows = 3
  Step = 2
  HeartBeat = 4
  Start = 1
  Finish = 8
  HalfInt = 128
  B32 = 3
  B64 = 8
  Metrics <- MCMetrics
  Width <- MCWidth
  PerSecond = 6
  MaxInterval = 2
  MaxTime = 3
INVARIANT SparseRowsAreKept
CHECK_DEADLOCK FALSE
