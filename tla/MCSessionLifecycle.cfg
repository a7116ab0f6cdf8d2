SPECIFICATION FairSpec
CONSTANTS
  Session = {s1}
  User = {u1}
  Org = {o1}
  MaxUserSessions = 1
  MaxOrgSessions = 2
  MaxMessages = 2
  MaxEvents = 2
  Followed = {s1}
  EventBound = 4
  CleanupOrphansOnStartup = TRUE
  DbFaults = TRUE
INVARIANTS
  TypeOK
  LeftSessionIsQuiet
  ReadyBeforeWork
  RunningHasTask
PROPERTIES
  LeftSessionStaysOut
  MessageResolved
  ContainerReclaimed
