\* The comment on the index methods.
SPECIFICATION Spec
CONSTANTS
  ifOne = ifOne
  ifTwo = ifTwo
  grpA = grpA
  grpB = grpB
  Resources = {ifOne, ifTwo}
  Groups = {grpA, grpB}
  MaxSamples = 3
  Null = Null
INVARIANT AlwaysAgrees
