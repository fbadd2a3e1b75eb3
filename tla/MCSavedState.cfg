\* Two presets, one met by both threads and one beside it; three starts, for a
\* quit, an end of another kind and the start after it.
SPECIFICATION Spec
CONSTANTS
  p = p
  q = q
  Names <- TwoNames
  MaxSessions = 4
INVARIANTS
  FailsOnlyForCause
  RackAndFavsOfLastQuit
SYMMETRY Alike
VIEW Matters
CHECK_DEADLOCK FALSE
