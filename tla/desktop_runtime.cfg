CONSTANTS
  c1 = c1
  c2 = c2
  a1 = a1
  a2 = a2
  r1 = r1
  r2 = r2
  Child <- MCChild
  Orphan = Orphan
  NoChild = NoChild
  Asker <- OneAsker
  Restarter <- OneRestart
  Ticker = Ticker
  Quitter = Quitter
  Nobody = Nobody
  MaxEvents = 1
SPECIFICATION FairSpec
CHECK_DEADLOCK FALSE
INVARIANT TypeOK
INVARIANT NoRuntimeIsLost
INVARIANT ChangesReachTheRuntime
PROPERTY EveryAskerIsAnswered
