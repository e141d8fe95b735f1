SPECIFICATION Spec
CONSTANTS
  k1 = k1
  k2 = k2
  k3 = k3
  None = None
  Keys = {k1, k2, k3}
  ETags = {1, 2}
  BatchSize = 2
  Changes = {"add", "modify", "remove"}
  Faults = {"scan", "read"}
  MaxScans = 3
SYMMETRY KeySymmetry
CHECK_DEADLOCK FALSE
INVARIANTS TypeOK IndexHoldsListing DeltaCountsListed CleanDelta DeltaErrsOneWay
