CONSTANTS
  AddConstraints = AddConstraints
  Program = Program
  Timer = Timer
  overflow = overflow
  timeout = timeout
  Kinds = {overflow, timeout}
  Functions = {AddConstraints, Program}
  Library = {AddConstraints}
  NoFunction = NoFunction
  Mask <- MCMask
  Threads = {1, 2}
  MAX_STACKED_CONTEXTS = 2
SPECIFICATION Spec
INVARIANTS NeverLost
CHECK_DEADLOCK FALSE
