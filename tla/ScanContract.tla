----------------------------- MODULE ScanContract -----------------------------
(***************************************************************************)
(* What a bucket scan promises its caller: it is running until it either   *)
(* fails, or completes with a report.  A scan that completes in time       *)
(* reports a complete listing, neither more nor less; one whose deadline   *)
(* has passed may report any part of it.                                   *)
(***************************************************************************)
CONSTANTS
  Complete,   \* the listings that count as complete
  MayFail,    \* S3 or the store may fail
  MayExpire   \* the deadline may pass

VARIABLES
  phase,      \* "running", "completed" or "failed"
  expired,    \* the deadline has passed
  report      \* the objects reported

vars == <<phase, expired, report>>

Init == phase = "running" /\ expired = FALSE /\ report = {}

Expire ==
  /\ MayExpire /\ phase = "running"
  /\ expired' = TRUE
  /\ UNCHANGED <<phase, report>>

Succeed ==
  /\ phase = "running" /\ phase' = "completed"
  /\ \E full \in Complete : IF expired THEN report' \subseteq full ELSE report' = full
  /\ UNCHANGED expired

Fail ==
  /\ phase = "running" /\ phase' = "failed"
  /\ MayFail \/ expired
  /\ UNCHANGED <<expired, report>>

Next == Expire \/ Succeed \/ Fail
Spec == Init /\ [][Next]_vars
=============================================================================
