SPECIFICATION Spec
CONSTANTS
  a1 = a1
  a2 = a2
  u1 = u1
  Expected = {a1, a2}
  Unnamed = {u1}
INVARIANT SuccessMeansExecuted
