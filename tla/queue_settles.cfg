CONSTANTS
  w1 = w1
  w2 = w2
  NoWorker = NoWorker
  Worker = {w1, w2}
  Session = {"scheduled-1"}
  NumInputs = 2
  SessionOf <- ScheduledOf2
  Prio <- Prio2
  Scheduled = {"scheduled-1"}
  Lease = 2
  Stale = 1
  MaxConcurrency = 1
  RecoveryAttempts = 1
  MayStall = {}
  GateMayBlock = FALSE
  MayThrow = {"setup", "run", "store"}
  RunnerVerdict = {"completed"}
SPECIFICATION FairSpec
PROPERTY AcceptedInputsSettle
