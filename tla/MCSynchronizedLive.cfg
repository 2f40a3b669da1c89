\* Liveness and refinement: symmetry is not used, as it is not sound for them.
CONSTANTS
  Calls = {c1, c2, c3}
  Nil = Nil
SPECIFICATION FairSpec
PROPERTIES
  EveryCallReturns
  KeepsPromise
