SPECIFICATION Spec
CHECK_DEADLOCK FALSE
CONSTANTS
  None = None
  Threads = {t1, t2, t3}
  Keys = {k1}
  Conns = {c1, c2}
  Engines = {e1, e2}
SYMMETRY Symmetry
INVARIANTS DecisionsHold LocksReleased HandlesAgree CloseNeverRaises
PROPERTIES EngineStays SweepDisposes
