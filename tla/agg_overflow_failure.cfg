CONSTANTS
  e1 = e1
  e2 = e2
  e3 = e3
  e4 = e4
  e5 = e5
  e6 = e6
  e7 = e7
  Nil = Nil
  Events <- FirstSix
  Dests <- AllDests
  Dest <- TwoKeys
  Size <- LargeSizes
  Bad = {e6}
  BadURL = {}
  Encoders = {FALSE}
  MaxBatchBytes = 15
  MaxEventBytes = 5
  MaxOverflowBatches = 10
  Outcomes <- Failing
SPECIFICATION Spec
INVARIANT SingleResponse
