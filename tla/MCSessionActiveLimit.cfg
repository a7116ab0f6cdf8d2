SPECIFICATION Spec
CONSTANTS
  Session = {s1, s2}
  User = {u1}
  Org = {o1}
  MaxUserSessions = 1
  MaxOrgSessions = 2
  MaxMessages = 1
  MaxEvents = 2
  Followed = {s1}
  EventBound = 1
  CleanupOrphansOnStartup = FALSE
  DbFaults = FALSE
INVARIANTS
  ActiveWithinLimits
