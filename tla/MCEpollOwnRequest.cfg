CONSTANTS
  Clients = {c1, c2}
  Fds = {d1, d2, d3}
  NoClient = none
  MaxEvents = 128
SPECIFICATION FairSpec
INVARIANT AnswersOwnRequest
CHECK_DEADLOCK FALSE
