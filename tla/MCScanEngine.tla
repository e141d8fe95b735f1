----------------------------- MODULE MCScanEngine -----------------------------
(* Two buckets of two projects, or of one, for ScanEngine. *)
EXTENDS ScanEngine, TLC

CONSTANTS s1, s2, s3, b1, b2, p1, p2

TwoProjects == b1 :> p1 @@ b2 :> p2
OneProject  == b1 :> p1 @@ b2 :> p1

ScanSymmetry == Permutations({s1, s2, s3})
=============================================================================
