SPECIFICATION FairSpec
CONSTANTS
  None = None
  LargeFileThreshold = 2
  MaxResults = 2
  MaxExamples = 1
  MaxSamples = 3
  CostOverrides <- Overrides
  Extensions <- AllKinds
  MaxSize = 3
  MaxCount = 2
  ClamdLimit = 2
  LastSince = 2
  Buckets <- SomeBuckets
  PageSize = 2
  Versions <- SomeVersions
  Markers = 1
  Uploads <- SomeUploads
  MaxEnabled = 2
CHECK_DEADLOCK FALSE
INVARIANTS TypeOK WholeBucketOrNothing PartialReportsAreTrue
PROPERTIES ResultIsFinal RunAllReturns
