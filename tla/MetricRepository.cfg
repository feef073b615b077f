\* An update, an edit and a failure while both timers and a reader run.
SPECIFICATION Spec
CONSTANTS
  d = d
  c = c
  g = g
  h = h
  ConfigUrls = {d, c}
  GroupUrls = {g, h}
  Arrays <- MCArrays
  DefaultUrl = d
  Needs <- MCNeeds
  Readers = {r}
  Malformed = Malformed
  Null = Null
  MaxEdits = 1
  MaxUpdates = 1
  MaxFailures = 1
INVARIANTS TypeOK IncludesAreMet ReadersFailOnlyWhenUnreachable
PROPERTY EventuallyCurrent
