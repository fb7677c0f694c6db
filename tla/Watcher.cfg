SPECIFICATION Spec
CONSTANTS
  r1 = r1  r2 = r2  r3 = r3  r4 = r4  r5 = r5  r6 = r6
  Results = {r1, r2, r3, r4, r5, r6}
  Malformed = {r1}
  Historical = {r2}
  Lookback = 4
  Poll = 2
  Size = 2
  None = None
INVARIANTS NothingSlipsBy
SYMMETRY Interchangeable
