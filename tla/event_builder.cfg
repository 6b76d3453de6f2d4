CONSTANTS
  Goroutines = {g1, g2}
  Builders = {b1, b2}
  Root = b1
  Events = {e1}
  Fields = {k1, k2}
  Nil = Nil
  Absent = Absent
  Dynamic = Dynamic
  MaxCalls = 4
SPECIFICATION FairSpec
INVARIANTS TypeOK NoDataRace NoTornEvent InheritsAll
PROPERTIES SentUnchanged OnlyOwnCalls CallsReturn
CHECK_DEADLOCK FALSE
