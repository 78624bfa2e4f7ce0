SPECIFICATION Spec
CONSTANTS
  Names = {1, 2, 3}
  Periods = {1, 2}
  Limits = {0, 1, 2}
  Removable = {1, 2, 3}
  Modulus = 64
  MaxHeight = 4
INVARIANTS PassedOverByLimitOnly
PROPERTIES MiscountByRevivalOnly
