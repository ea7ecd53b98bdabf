SPECIFICATION FairSpec
CONSTANTS
  Senders = {s1, s2, s3}
  Sizes = {1, 2, 5}
  QueueMessages = 3
  QueueBytes = 4
INVARIANTS PendingExact MemoryBounded GapMeansDrop
PROPERTY WriterEnds
