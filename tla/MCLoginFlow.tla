------------------------------ MODULE MCLoginFlow ------------------------------
(* Two projects, each with a user and a key name, for LoginFlow. *)
EXTENDS LoginFlow, TLC

CONSTANTS l1, p1, p2, u1, n1, n2

(* p1 and p2 have the same user; names that differ only in case or blanks  *)
(* would share n1.                                                         *)
TwoTargets == <<<<p1, u1>>, <<p2, u1>>>>
TwoNames   == <<p1, u1>> :> n1 @@ <<p2, u1>> :> n2

(* Bounds of the run.  At most two keys are lost, and a behaviour ends     *)
(* where it has left a cookie unsaved and has had trouble of another kind. *)
FewLost     == \A o, p \in Owners : slips[o] <= 2 /\ (o # p => slips[o] + slips[p] <= 2)
OneTrouble  == adrift /\ (\A l \in Logins : pc[l] \notin CookieSteps) =>
                 mishaps = {} /\ revoked = {} /\ \A o \in Owners : slips[o] = 0
=============================================================================
