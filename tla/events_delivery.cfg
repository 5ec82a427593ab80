CONSTANTS
  Event = {"report", "ask"}
  Subagent = {"s1"}
  SubagentOf <- SubagentOf2
  Asks = {"ask"}
  NumInputs = 2
  MaxCrashes = 1
  Mishap = {"throw", "tear", "repost", "pause", "cancel"}
  RunnerVerdict = {"completed", "waiting_user", "paused", "failed"}
SPECIFICATION FairSpec
CHECK_DEADLOCK FALSE
INVARIANT TypeOK
INVARIANT CarriersAnswerForTheirEvents
INVARIANT OpenInputsOwnTheirEvents
PROPERTY ImplementsDelivery
PROPERTY EveryDeliveryEnds
