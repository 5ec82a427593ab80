CONSTANTS
  c1 = c1
  c2 = c2
  c3 = c3
  monitor = monitor
  user = user
  Child <- MCChild
  Healer <- MCHealer
  User <- user
  NoChild = NoChild
  MaxAttempts = 1
  MaxEvents = 1
SPECIFICATION Spec
CHECK_DEADLOCK FALSE
INVARIANT TypeOK
INVARIANT RestartsAreBounded
INVARIANT StartsDoNotClash
INVARIANT RunningAppsCanBeStopped
PROPERTY DeadAppsAreNoticed
