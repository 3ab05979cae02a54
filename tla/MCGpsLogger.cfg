CONSTANTS
  Copies = {c1, c2}
  NULL = NULL
  SourceOrder = TRUE
  MaxSecond = 3
  MaxWait = 1
  MaxBacklog = 1
SPECIFICATION FairSpec
INVARIANTS TypeOK HandoffSafe WholeMessage OutlivesPpsThread FeedRight
PROPERTIES FedOnce LocatedFirst ImplementsSlot ShutdownAdvances Terminates
CHECK_DEADLOCK FALSE
