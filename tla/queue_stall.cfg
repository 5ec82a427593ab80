CONSTANTS
  w1 = w1
  w2 = w2
  NoWorker = NoWorker
  Worker = {w1, w2}
  Session = {"scheduled-1"}
  NumInputs = 2
  SessionOf <- ScheduledOf2
  Prio <- Prio2
  Scheduled = {"scheduled-1"}
  Lease = 2
  Stale = 1
  MaxConcurrency = 2
  RecoveryAttempts = 1
  MayStall = {w1}
  GateMayBlock = FALSE
  MayThrow = {"run"}
  RunnerVerdict = {"completed"}
SPECIFICATION Spec
INVARIANT OneActiveRunPerSession
PROPERTY SettledIsFinal
