CONSTANTS
  AddConstraints = AddConstraints
  Program = Program
  Timer = Timer
  overflow = overflow
  timeout = timeout
  Kinds = {overflow, timeout}
  Functions = {AddConstraints, Program, Timer}
  Library = {AddConstraints}
  NoFunction = NoFunction
  Mask <- MCMask
  Threads = {1, 2}
  MAX_STACKED_CONTEXTS = 3
SPECIFICATION FairSpec
INVARIANTS TypeOK JumpsToLive NeverMismatched CallbacksBalanced LostOnlyByReset
PROPERTIES HandlingEnds
CHECK_DEADLOCK FALSE
