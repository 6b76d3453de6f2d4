CONSTANTS
  NoEvent = NoEvent
  Events = {e1, e2, e3}
  MaxMusters = 3
  Configs <- AllKinds
  Adders = {a1, a2}
  Flushers = {f1, f2}
  Answers <- Server
  StopDuringFlush = FALSE
SPECIFICATION Spec
INVARIANTS TypeOK NoPanic EventInOnePlace NoOrphan InFlightBound
PROPERTIES ImplementsSender StopSendsAll
SYMMETRY Symmetry
