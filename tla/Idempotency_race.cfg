CONSTANTS
  Keys = {k1}
  NoKey = NoKey
  Bodies = {b1, b2}
  Handlers = {h1, h2, h3}
  MaxEffects = 3
  MaxFaults = 1
SPECIFICATION Spec
SYMMETRY Symmetry
INVARIANTS
  OncePerKey
  AnswersOwnRequest
  EffectIsRemembered
CHECK_DEADLOCK FALSE
