CONSTANTS
  Models = {"a", "b"}
  A = "a"
  B = "b"
  Prompts = 1
  MaxRestarts = 2
SPECIFICATION Spec
PROPERTY PollsUntilLoaded
CHECK_DEADLOCK FALSE
