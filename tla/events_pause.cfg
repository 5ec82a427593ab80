CONSTANTS
  Event = {"report"}
  Subagent = {"s1"}
  SubagentOf <- SubagentOf2
  Asks = {}
  NumInputs = 3
  MaxCrashes = 0
  Mishap = {}
  RunnerVerdict = {"completed", "waiting_user"}
SPECIFICATION Spec
CHECK_DEADLOCK FALSE
PROPERTY FollowUpsWaitForAPause
