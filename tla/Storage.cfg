\* SampleSet: every order of additions, queries and copies with up to three
\* samples.  FileRepository: two threads, three calls, two attributes.
\* When all calls have returned, nothing more happens.
SPECIFICATION StorageSpec
CONSTANTS
  ifOne = ifOne
  ifTwo = ifTwo
  grpA = grpA
  grpB = grpB
  Resources = {ifOne, ifTwo}
  Groups = {grpA, grpB}
  MaxSamples = 3
  Null = Null
  Savers = {snmpThread, jmxThread}
  Attributes = {speed, alias}
  MaxSaves = 3
  None = None
INVARIANTS StorageTypeOK GettersAgree
PROPERTY AloneIsAtomic
CHECK_DEADLOCK FALSE
