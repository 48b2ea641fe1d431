----------------------------- MODULE MCMapJobs -----------------------------
(* Two imports and a restyle job on one world, for TLC. *)
EXTENDS MapJobs

CONSTANTS i1, i2, r1, c1

\* The imports were submitted in the same millisecond: one id.
SameId   == [j \in Jobs |-> IF j \in Restyles THEN "x2" ELSE "x1"]
OneWorld == [j \in Jobs |-> "w1"]
=============================================================================
