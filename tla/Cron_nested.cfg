SPECIFICATION Spec
CONSTANTS
  Names = {1, 2, 3}
  Periods = {1}
  Limits = {2}
  Removable = {2}
  Modulus = 64
  MaxHeight = 4
INVARIANT CountIsSchedules
