SPECIFICATION Spec
CONSTANTS
  NULL = NULL
  MaxRetries = 2
  MaxCalls = 2
INVARIANTS PostsAreBounded RefusalSticks
CHECK_DEADLOCK FALSE
