CONSTANTS
  Goroutines = {g1, g2}
  MaxClients = 1
  MaxCalls = 4
  Nil = Nil
  QueueSize = 1
  Configs <- SomeConfigs
SPECIFICATION FairSpec
INVARIANTS TypeOK KeptOnce AnsweredInOrder Forwarded
PROPERTIES CallsReturn ResponsesArrive
CHECK_DEADLOCK FALSE
