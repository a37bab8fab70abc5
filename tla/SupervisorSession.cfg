SPECIFICATION SupervisorSpec
CONSTANTS
  Sessions = {s1, s2}
  Legs = {l1, l2, l3}
  Tabs = {t1, t2}
  Nothing = Nothing
  MaxDoubts = 0
INVARIANT FailedOriginateIsMarked
CHECK_DEADLOCK FALSE
