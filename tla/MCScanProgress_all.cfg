SPECIFICATION FairSpec
CONSTANTS
  s1 = s1
  s2 = s2
  None = None
  Scans = {s1, s2}
  Objects <- SomeAndFew
  BatchSize = 2
  Faults = {"s3", "store"}
CHECK_DEADLOCK FALSE
INVARIANTS TypeOK CountWasReached CompletedShowsTotal
PROPERTIES ReportIsExact TickersStop
