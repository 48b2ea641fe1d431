---------------------------- MODULE MCPlayback ------------------------------
(* Four chunks, one frame each, with memory for three as in the code; one   *)
(* entity, in the middle.                                                   *)
EXTENDS Playback

CONSTANT unit

OneLife == unit :> 1 .. 2

Middle == [in |-> 1, out |-> 2]

Watch(focus) == [stream |-> TRUE, admin |-> FALSE, focus |-> focus]

Wide == [in |-> 2, out |-> 7]

Edit == [stream |-> FALSE, admin |-> TRUE, focus |-> Middle]

\* A visitor of a streamed recording, without a focus range, with one and with one
\* that ends after the recording, and an administrator of a recording loaded whole.
FourSessions == {Watch(None), Watch(Middle), Watch(Wide), Edit}

\* Entities are followed, or kills sought, where no range is in the way, and a range
\* is left for the full timeline by who edits it. Edits are in flight as long as the
\* range is the one that was loaded, and where two are, the later one clears the
\* range and nothing is dragged.
Bounded ==
    /\ eng.follow # None => session.focus = None /\ kills = None
    /\ kills # None => session.focus = None
    /\ saving[1] # None => page.focus = session.focus
    /\ page.full => session.admin
    /\ saving[2] # None => ~scrub.dragging /\ scrub.handle = "none"
    /\ saving[2] \in {None, [to |-> None]}

=============================================================================
