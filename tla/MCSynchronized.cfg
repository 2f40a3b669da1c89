\* Five concurrent requests: a Start, its canceller, a second Start admitted
\* after the cancellation, its canceller, and one more request in between.
CONSTANTS
  Calls = {c1, c2, c3, c4, c5}
  Nil = Nil
SYMMETRY CallSymmetry
SPECIFICATION Spec
INVARIANT GateInvariant
PROPERTY OnlyRunningStartCancelled
