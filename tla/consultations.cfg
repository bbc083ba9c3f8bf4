CONSTANTS
  None = None
  Starts = {s1}
  Continues = {c1}
  Results = {r1}
  Local = {s1, c1, r1}
  Amounts = {1}
SPECIFICATION Spec
INVARIANTS FeedbackKept HistoryFresh
PROPERTY ScreenSettles
CHECK_DEADLOCK FALSE
