SPECIFICATION Spec
CONSTANTS
  Word = Word
  U64 = 16777216
  I32 = 16777216
  Rng = {0, 5000, 10000, 30000, 60000}
  Inputs <- MCInputs
INVARIANTS EffectiveDecides ComponentsFit TtlWithin
CHECK_DEADLOCK FALSE
