CONSTANTS
  NoEvent = NoEvent
  Events = {e1, e2}
  MaxMusters = 3
  Configs <- Dropping
  Adders = {a1, a2}
  Flushers = {f1, f2}
  Answers <- Server
  StopDuringFlush = FALSE
SPECIFICATION Spec
PROPERTY FlushSendsAll
