CONSTANTS
  e1 = e1
  e2 = e2
  e3 = e3
  e4 = e4
  e5 = e5
  e6 = e6
  e7 = e7
  Nil = Nil
  Events <- FirstFour
  Dests <- DestA
  Dest <- OneDest
  Size <- LargeSizes
  Bad = {}
  BadURL = {}
  Encoders = {FALSE}
  MaxBatchBytes = 10
  MaxEventBytes = 5
  MaxOverflowBatches = 1
  Outcomes <- Good
SPECIFICATION Spec
INVARIANT EveryEventAnswered
