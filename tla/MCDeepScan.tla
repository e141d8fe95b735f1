------------------------------ MODULE MCDeepScan ------------------------------
(* An empty bucket, one of four objects in two pages and one of five in    *)
(* three, for DeepScan: files of one content on one page and on two, a     *)
(* file over the limits, one of a class without a price, files that are    *)
(* unencrypted, infected or misnamed.                                      *)
EXTENDS DeepScan, TLC

Object(key, etag, size, class) ==
  [key |-> key, etag |-> etag, size |-> size, class |-> class, ext |-> ".txt", modified |-> 3,
   encrypted |-> TRUE, infected |-> FALSE, matches |-> TRUE]

Four ==
  <<[Object("a", "e1", 2, None) EXCEPT !.infected = TRUE],
    [Object("b", "e2", 4, "GLACIER") EXCEPT !.matches = FALSE, !.encrypted = FALSE],
    [Object("c", "e1", 2, "STANDARD") EXCEPT !.matches = FALSE, !.modified = 2],
    [Object("d", None, 3, "REDUCED") EXCEPT !.ext = ".exe", !.infected = TRUE]>>

Five ==
  <<Four[2], Four[4], [Object("e", "e2", 2, None) EXCEPT !.infected = TRUE, !.matches = FALSE],
    [Object("f", "e1", 3, "GLACIER") EXCEPT !.encrypted = FALSE, !.modified = 1],
    [Object("g", "e2", 1, "STANDARD") EXCEPT !.infected = TRUE, !.ext = ".zip"]>>

SomeBuckets == {<<>>, Four, Five}
Overrides  == [GLACIER |-> 5000]
AllKinds   == {".txt", ".exe"}
SomeVersions == <<[latest |-> TRUE, size |-> 2], [latest |-> FALSE, size |-> 3],
                  [latest |-> FALSE, size |-> None], [latest |-> None, size |-> 5]>>
SomeUploads == <<"a", None>>
=============================================================================
