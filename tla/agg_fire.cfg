CONSTANTS
  e1 = e1
  e2 = e2
  e3 = e3
  e4 = e4
  e5 = e5
  e6 = e6
  e7 = e7
  Nil = Nil
  Events <- AllSeven
  Dests <- AllDests
  Dest <- TwoKeys
  Size <- WideSizes
  Bad = {e7}
  BadURL <- OneURL
  Encoders = {TRUE, FALSE}
  MaxBatchBytes = 15
  MaxEventBytes = 10
  MaxOverflowBatches = 10
  Outcomes <- AllOutcomes
SPECIFICATION FairSpec
INVARIANTS TypeOK SingleUnlessFailed EveryEventAnswered FreshUnlessFailed BodyBound
INVARIANTS OverflowProgress SharedKey SentInOrder
PROPERTIES AnswersOwnEvent FireReturns
