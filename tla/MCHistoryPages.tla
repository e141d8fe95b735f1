---------------------------- MODULE MCHistoryPages ----------------------------
(* Two scans of one bucket, one after the other, for HistoryPages. *)
EXTENDS HistoryPages, TLC

CONSTANTS s1, s2, b1, p1

OneBucket == b1 :> p1

ScanSymmetry == Permutations({s1, s2})
=============================================================================
