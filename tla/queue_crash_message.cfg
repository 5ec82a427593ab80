CONSTANTS
  w1 = w1
  w2 = w2
  NoWorker = NoWorker
  Worker = {w1, w2}
  Session = {"chat"}
  NumInputs = 2
  SessionOf <- SessionOf2
  Prio <- Prio2
  Scheduled = {}
  Lease = 3
  Stale = 1
  MaxConcurrency = 1
  RecoveryAttempts = 1
  MayStall = {}
  GateMayBlock = FALSE
  MayThrow = {}
  RunnerVerdict = {"completed", "failed"}
SPECIFICATION Spec
INVARIANT RecoveredBeforeTerminal
