CONSTANTS
  NoEvent = NoEvent
  Events = {e1, e2, e3}
  MaxMusters = 2
  Configs <- Blocking
  Adders = {a1, a2}
  Flushers = {f1}
  Answers <- Server
  StopDuringFlush = FALSE
SPECIFICATION FairSpec
PROPERTIES CallsReturn AllSent AllRead
