SPECIFICATION FairSpec
CONSTANTS
  w1 = w1
  w2 = w2
  o1 = o1
  o2 = o2
  o3 = o3
  o4 = o4
  logs = logs
  media = media
  tmp = tmp
  root = root
  err = err
  Workers = {w1, w2}
  Objects = {o1, o2, o3, o4}
  Root = root
  Err = err
  CommonPrefixes <- ThreePrefixes
  Listing <- ThreePrefixListing
  ObjCap = 1
  BatchSize = 2
  Faults = {"s3", "deadline"}

CHECK_DEADLOCK FALSE
PROPERTY ScanTerminates
