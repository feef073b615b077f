\* RollUp and Lerp: every stream of up to four rows at seven times, steps of
\* two units, an int of -6 to 5, so that the longest gaps do not fit.  Rate: a
\* narrow and a wide counter, four rows at most.
\* The iteration ends and so does the behaviour.
SPECIFICATION MCSpec
CONSTANTS
  NaN = NaN
  NanValue = NaN
  Null = Null
  None = None
  NoRow = NoRow
  narrow = narrow
  cpu = cpu
  load = load
  length = length
  unknown = unknown
  MaxRequests = 3
  Error = Error
  Forms <- MCForms
  KnownMetrics <- MCKnown
  ArrayFields <- MCFields
  Tables <- MCTables
  wide = wide
  Times = {0, 1, 2, 4, 5, 6, 7}
  Values <- MCValues
  MaxRows = 4
  Step = 2
  HeartBeat = 4
  Start = 1
  Finish = 8
  HalfInt = 6
  B32 = 3
  B64 = 8
  Metrics <- MCMetrics
  Width <- MCWidth
  PerSecond = 6
  MaxInterval = 2
  MaxTime = 3
INVARIANTS ProcessorsTypeOK RollsUp NoStepSkipped OnTheLine GraphsAreAnswers
PROPERTIES EveryStep RateOfIncrease
CHECK_DEADLOCK FALSE
