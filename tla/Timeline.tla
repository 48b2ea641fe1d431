------------------------------ MODULE Timeline ------------------------------
(***************************************************************************)
(* What the timeline shows of a recording's events over a range of frames: *)
(* the bars of its heatmap, the ticks of the kills and the events told     *)
(* where the pointer hovers (components/TimelineScrubber.tsx). The pointer *)
(* itself, which seeks, is in module Playback.                             *)
(*                                                                         *)
(* Fractions are compared exactly; the code divides in floating point.     *)
(***************************************************************************)
EXTENDS Recording

CONSTANTS
    BucketCount,    \* BUCKET_COUNT
    MaxPerType,     \* MAX_PER_TYPE
    MaxTotal        \* MAX_TOTAL

ASSUME TimelineAssumption == {BucketCount, MaxPerType, MaxTotal} \subseteq Nat \ {0}

Buckets == 0 .. BucketCount - 1

\* Mutant: the last frame of the range is past the last bar.
MutBucketOf(frame, start, span) == ((frame - start) * BucketCount) \div span

\* The bar of a frame; an event of the last frame belongs to the last bar. It is
\* negative for a frame before the range, where the pointer may have been left
\* when the range changed.
BucketOf(frame, start, span) == Min({((frame - start) * BucketCount) \div span, BucketCount - 1})

Kind(ev) == IF ev.type \in HitTypes THEN ev.type ELSE "other"

\* heatmapData: how many events of each kind a bar stands for.
heatmapData(events, start, end) ==
    [i \in IF start = end THEN {} ELSE Buckets |->
        [kind \in HitTypes \cup {"other"} |->
            Cardinality({n \in DOMAIN events :
                /\ events[n].frame \in start .. end
                /\ BucketOf(events[n].frame, start, end - start) = i
                /\ Kind(events[n]) = kind})]]

\* The events between a bucket's edges.
Nearby(events, i, start, span) ==
    Those(events, {ev \in ToSet(events) :
        /\ (ev.frame - start) * BucketCount >= i * span
        /\ (ev.frame - start) * BucketCount < (i + 1) * span})

\* The first hit and the first kill of each victim, and all others.
Deduplicated(events) ==
    LET same(n, m) == /\ Kind(events[n]) # "other"
                      /\ events[m].type = events[n].type /\ events[m].victim = events[n].victim
        kept == Those([n \in DOMAIN events |-> n],
                      {n \in DOMAIN events : ~\E m \in 1 .. n - 1 : same(n, m)})
    IN  [k \in DOMAIN kept |-> events[kept[k]]]

\* By priority: others, kills, hits.
ByPriority(events) ==
    LET of(kind) == Those(events, {ev \in ToSet(events) : Kind(ev) = kind})
    IN  of("other") \o of("killed") \o of("hit")

\* The first ones, so many in all and of a type.
Capped(events) ==
    LET told[n \in 0 .. Len(events)] ==
            IF n = 0 THEN <<>>
            ELSE LET ev == events[n]
                     full == \/ Len(told[n - 1]) >= MaxTotal
                             \/ Cardinality({k \in DOMAIN told[n - 1] :
                                    told[n - 1][k].type = ev.type}) >= MaxPerType
                 IN  IF full THEN told[n - 1] ELSE Append(told[n - 1], ev)
    IN  told[Len(events)]

\* hoverEvents
hoverEvents(events, frame, start, end) ==
    LET i == BucketOf(frame, start, end - start)
    IN  IF start = end \/ i < 0 THEN <<>>
        ELSE Capped(ByPriority(Deduplicated(Nearby(events, i, start, end - start))))

\* killEvents, and which of their ticks are drawn in the range.
KillTicks(events, start, end) ==
    {n \in DOMAIN events : events[n].type = "killed" /\ events[n].frame \in start .. end}
=============================================================================
