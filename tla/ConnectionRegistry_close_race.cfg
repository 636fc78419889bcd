SPECIFICATION Spec
CHECK_DEADLOCK FALSE
CONSTANTS
  None = None
  Threads = {t1, t2}
  Keys = {k1}
  Conns = {c1}
  Engines = {e1}
SYMMETRY Symmetry
INVARIANTS EngineReturned
