SPECIFICATION FairSpec
CONSTANTS
  Orders = {o1, o2}
  NoOrder = NoOrder
  Tickets = {t1, t2, t3}
  NoTicket = NoTicket
  Quantities = {3}
  LotStep = 2
  MinLot = 2
  MaxLot = 2
  Faults = {"garble", "refuse", "partial", "stopout", "restart", "unsent"}
INVARIANTS
  AnswersMatch
  TwiceOnlyIfGarbled
  RejectionsExplained
  WedgedForGood
PROPERTIES
  LoopAnswered
CHECK_DEADLOCK FALSE
