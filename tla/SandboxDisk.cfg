CONSTANTS
  Limit <- LimitDisk
SPECIFICATION DiskSpec
INVARIANTS RunsOnItsLayer MemoryKept ImageAccounted DetachedKept
