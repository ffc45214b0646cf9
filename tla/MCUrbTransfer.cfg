CONSTANTS
  MaxUrbs = 3
  Kinds = {"iso", "control", "bulk"}
SPECIFICATION Spec
INVARIANT TypeOK
INVARIANT NoUrbLeft
INVARIANT RetiredIsCounted
PROPERTY KeepsContract
