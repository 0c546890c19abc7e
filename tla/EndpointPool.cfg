CONSTANTS
  None = None
  s1 = s1
  s2 = s2
  e1 = e1
  e2 = e2
  Endpoints = {s1, s2, e1, e2}
  Seeds <- TwoSeeds
  MaxAdvertised = 2
SPECIFICATION Spec
CHECK_DEADLOCK FALSE
INVARIANTS OrderIsPermutation EveryCandidateTried
