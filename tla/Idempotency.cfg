SPECIFICATION Spec
CONSTANTS
  Keys = {k1, k2}
  Hashes = {h1, h2}
  Requests = {r1, r2, r3}
SYMMETRY Symmetry
CHECK_DEADLOCK FALSE
INVARIANTS
  EffectAtMostOnce
  AnswersAreTrue
PROPERTIES
  KeepsPromise
