SPECIFICATION FairSpec
CONSTANTS
  EVENT_LOG_MAX = 3
  SSE_RETRY_LIMIT = 1
  MaxTurns = 2
  MaxBreaks = 2
  MaxTrouble = 4
  WireCap = 1
INVARIANTS
  TypeOK
  NothingSkipped
  InOrderUntilReplay
  OutcomeIsRight
  CompletedTraceIsJudged
PROPERTIES
  EventsArrive
  TurnEnds
CHECK_DEADLOCK FALSE
