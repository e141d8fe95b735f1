SPECIFICATION Spec
CONSTANTS
  l1 = l1
  p1 = p1
  p2 = p2
  u1 = u1
  n1 = n1
  n2 = n2
  None = None
  Logins = {l1}
  Projects = {p1, p2}
  Targets <- TwoTargets
  KeyName <- TwoNames
  Attempts = 2
  Faults = {"iam", "store", "kill", "cookie"}
  MaxLogins = 2
  MaxKeys = 2
  MaxRevoked = 1
  MaxMishaps = 1
CHECK_DEADLOCK FALSE
CONSTRAINTS FewLost OneTrouble
INVARIANTS TypeOK CachedKeyExists LoginKeysWork KeysAccounted CookieIsPersisted BucketsHaveClients
