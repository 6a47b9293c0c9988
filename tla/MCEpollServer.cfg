CONSTANTS
  Clients = {c1, c2}
  Fds = {d1, d2, d3}
  NoClient = none
  MaxEvents = 128
SPECIFICATION FairSpec
INVARIANTS
  CountMatches
  NoStaleEvent
  PromptClientsAnswered
PROPERTIES
  EveryoneDismissed
  EdgeServesOldest
CHECK_DEADLOCK FALSE
