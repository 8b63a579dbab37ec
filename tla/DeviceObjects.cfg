SPECIFICATION Spec
CONSTANTS
  Threads = {a}
  Textures = {x, y}
  None = None
PROPERTY NothingAliveAtReset
CHECK_DEADLOCK FALSE
