SPECIFICATION Spec
CONSTANTS
  Drivers = {"worker", "streamlit"}
  Keep = 2
  MaxLen = 8
  MaxUses = 2
INVARIANTS
  TypeOK
  RequestsAnswerToolUses
  BreakpointsAreRecent
  ImagesAreKept
  RenderFindsResults
CHECK_DEADLOCK FALSE
