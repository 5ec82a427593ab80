CONSTANTS
  HardLimit = 2
  StartLimit = 2
  IdleLimit = 2
  BeatEvery = 1
  Grace = 1
  MaxEvents = 2
SPECIFICATION Spec
CHECK_DEADLOCK FALSE
INVARIANT TypeOK
INVARIANT VerdictIsTruthful
INVARIANT OnlyDeadlinesCutCompaction
INVARIANT SilentRunsSurvive
INVARIANT RunsAreBounded
PROPERTY EveryRunEnds
