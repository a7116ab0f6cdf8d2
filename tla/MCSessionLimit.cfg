SPECIFICATION Spec
CONSTANTS
  Session = {s1, s2}
  User = {u1, u2}
  Org = {o1}
  MaxUserSessions = 1
  MaxOrgSessions = 1
  MaxMessages = 1
  MaxEvents = 1
  Followed = {s1}
  EventBound = 1
  CleanupOrphansOnStartup = FALSE
  DbFaults = FALSE
SYMMETRY UserSymmetry
INVARIANTS
  ConcurrencyLimit
