-------------------------- MODULE MCRecordingStore --------------------------
(* Small instances of RecordingStore: two or three uploads over one or two   *)
(* filenames.                                                                *)
EXTENDS RecordingStore, TLC

CONSTANTS u1, u2, u3, f1, f2, a1, a2

One        == {u1}
Two        == {u1, u2}
OneFile    == (u1 :> f1)
TwoSame    == (u1 :> f1) @@ (u2 :> f1)
TwoApart   == (u1 :> f1) @@ (u2 :> f2)
Three      == {u1, u2, u3}
ThreeSame  == (u1 :> f1) @@ (u2 :> f1) @@ (u3 :> f1)
ThreeMixed == (u1 :> f1) @@ (u2 :> f1) @@ (u3 :> f2)

(* Explore no further once two processes have worked on one filename. *)
NoRace == race = {}

OnlyOn  == {TRUE}
OnlyOff == {FALSE}

=============================================================================
