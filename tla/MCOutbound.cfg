SPECIFICATION Spec
CONSTANTS
  l1 = l1
  l2 = l2
  l3 = l3
  a1 = a1
  c1 = c1
  c2 = c2
  c3 = c3
  Legs = {l1, l2, l3, a1}
  AgentLegs = {a1}
  Calls = {c1, c2, c3}
  CallOf <- MCCallOf
  LineLimit = 1
  IsPrompt = TRUE
  Budgets <- AllBudgets
CHECK_DEADLOCK FALSE
INVARIANTS
  OneLegPerCall
  ContinuationOnce
  KeptIsWatched
  ParkedIsAttended
  FailedIsEnded
  LinesCoverCalls
  LinesComeBack
  EndedIsRecorded
PROPERTIES
  TalkingIsNotEnded
