CONSTANTS
  w1 = w1
  w2 = w2
  NoWorker = NoWorker
  Worker = {w1, w2}
  Session = {"chat"}
  NumInputs = 2
  SessionOf <- SessionOf2
  Prio <- Prio2
  Scheduled = {}
  Lease = 3
  Stale = 1
  MaxConcurrency = 1
  RecoveryAttempts = 1
  MayStall = {}
  GateMayBlock = TRUE
  MayThrow = {"setup", "run"}
  RunnerVerdict = {"completed", "waiting_user", "paused", "failed", "terminated"}
SPECIFICATION Spec
INVARIANT TypeOK
INVARIANT LiveRunsKeepTheirClaim
INVARIANT OneClaimPerSession
INVARIANT QueuedInputsAreClean
INVARIANT OneTerminalEvent
INVARIANT VerdictsAgree
INVARIANT BusySessionsHaveAClaim
PROPERTY ImplementsLifecycle
