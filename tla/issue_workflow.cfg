CONSTANTS
  NumIssues = 2
  UserStatus <- MCUserStatus
  Verdict <- MCVerdict
  MaxEdits = 1
  MaxFollowUps = 1
  MaxCrashes = 1
  MaxEvents = 2
SPECIFICATION Spec
CHECK_DEADLOCK FALSE
INVARIANT TypeOK
INVARIANT OneInputAtATime
INVARIANT SettledRunsRunNothing
INVARIANT LiveRunsHaveWork
INVARIANT IssuesShowTheirRuns
INVARIANT ReadyWorkIsDispatched
INVARIANT NoIssueWaitsForItself
PROPERTY CompletedWorkStaysDone
PROPERTY NothingStartsBeforeItsBlockers
VIEW MCView
