SPECIFICATION Spec
CONSTANTS
  s1 = s1
  s2 = s2
  s3 = s3
  b1 = b1
  b2 = b2
  p1 = p1
  p2 = p2
  None = None
  MaxDeletes = 0
  Scans = {s1, s2}
  Buckets = {b1, b2}
  Owner <- OneProject
  Faults = {}

CHECK_DEADLOCK FALSE
INVARIANT StatusMeansReport
