SPECIFICATION Spec
CONSTANTS
  MaxJobs = 5
  Concurrency = 2
  CompletionBatch = 2
  ACK_CAPACITY = 1
  PipeBytes = 3
  ReadBytes = 3
  HEADER_BYTES = 2
  MAX_FRAME_BYTES = 3
  MAX_ERROR_BYTES = 1
  COMPACT_THRESHOLD = 5
  DISPATCH_HEAD_BYTES = 1
  COMPLETE_HEAD_BYTES = 1
  TrailerBytes = 1
  TaskName <- Names
  MAX_NAME_BYTES = 1
  PY_MAX_FRAME_BYTES = 3
  PY_DISPATCH_HEAD_BYTES = 1
  Payload <- Sizes
  Replay <- Prior
  Results = {0, 3}
  Errors <- LongErrors
  MaxFrames = 4
  MaxFaults = 1
INVARIANTS
  LinkTypeOK
  InSync
  NothingStranded
  EnqueuedIsDispatchable
  FailureFits
  NeverJams
CHECK_DEADLOCK FALSE
