\* Two pairs of programs; the square of a sum of three, scaled, is more than 2^6.
SPECIFICATION Spec
CONSTANTS
  CpuProcs = 2
  IoProcs = 1
  Pause = 1
  SCALE_FACTOR = 10
  Wrap = 64
  Rounds = 1
  MaxTicks = 2
  Stats <- NoStats
INVARIANTS
  EqualTimesFair
