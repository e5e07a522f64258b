\* Two names, two changes of it, a message lost; checks, metadata and one statistics task.
CONSTANTS
  Names = {n1, n2}
  Garbage = Garbage
  Buffers = {b1, b2}
  NoBuffer = NoBuffer
  Period <- MCPeriod
  Cycle = 2
  MaxThreads <- MCThreads
  MaxSent = 2
  MaxRenames = 2
  MaxDrops = 1
SPECIFICATION FairSpec
INVARIANTS NameKept CountedOnce
PROPERTY NameTold
