---------------------------- MODULE MCScanPipeline ----------------------------
(* Small buckets for ScanPipeline. *)
EXTENDS ScanPipeline, TLC

CONSTANTS w1, w2, o1, o2, o3, o4, logs, media, tmp, root, err

(* Three prefixes for two workers; logs takes three pages, one of them      *)
(* empty, and tmp is empty by the time it is listed.                        *)
ThreePrefixes == <<logs, media, tmp>>
ThreePrefixListing ==
  logs :> <<{o1, o2}, {}, {o3}>> @@ media :> <<{o4}>> @@ tmp :> <<{}>>
    @@ root :> <<{o1, o2, o3}, {o4}>>

(* The same bucket with an object at its root, outside every prefix.        *)
MixedPrefixes == <<logs, media>>
MixedListing ==
  logs :> <<{o1}, {o2}>> @@ media :> <<{o3}>> @@ root :> <<{o1, o2}, {o3, o4}>>

=============================================================================
