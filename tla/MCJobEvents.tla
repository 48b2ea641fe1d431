---------------------------- MODULE MCJobEvents ----------------------------
(* An import, a restyle job and a browser, for TLC. *)
EXTENDS JobEvents

CONSTANTS i1, r1, s1

OwnIds   == [j \in Jobs |-> IF j \in Restyles THEN "x2" ELSE "x1"]
OneWorld == [j \in Jobs |-> "w1"]
=============================================================================
