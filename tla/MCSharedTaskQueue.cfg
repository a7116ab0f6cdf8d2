SPECIFICATION FairSpec
CONSTANTS
  Agent = {a1, a2, a3}
  NoAgent = NoAgent
  MaxTasks = 3
  MaxCrashes = 2
INVARIANTS
  TypeOK
  NoDoubleAssignment
  TableAgrees
PROPERTIES
  ImplementsAllocation
  TaskServed
