--------------------------- MODULE RecordingLife ----------------------------
(***************************************************************************)
(* What the server promises about a recording, whatever its handlers, its  *)
(* worker and its crashes do to rows and files: it is put once, waits,     *)
(* becomes playable or fails, and a failed one may wait again. It goes     *)
(* when it is replaced or removed, and never comes back. What is playable  *)
(* stays so. Only where two processes have met on a filename a recording   *)
(* may stray between waiting, playable and failed.                         *)
(***************************************************************************)
CONSTANTS
    Uploads,    \* what is uploaded
    Files,      \* filenames
    fileOf      \* fileOf[u]: the filename of upload u

VARIABLES
    life,       \* life[u]: where upload u stands
    met         \* filenames that two processes have met on

Stored == {"waiting", "playable", "failed"}

Init ==
    /\ life = [u \in Uploads |-> "unknown"]
    /\ met = {}

\* A new recording takes the place of that with its filename.
Put(u) ==
    /\ life[u] = "unknown"
    /\ life' = [v \in Uploads |->
            IF v = u THEN "waiting"
            ELSE IF fileOf[v] = fileOf[u] /\ life[v] \in Stored THEN "gone" ELSE life[v]]
    /\ UNCHANGED met

End(u) ==
    /\ life[u] = "waiting"
    /\ \E l \in {"playable", "failed"} : life' = [life EXCEPT ![u] = l]
    /\ UNCHANGED met

\* A request retries one recording, a start of the server may retry all.
Retry(S) ==
    /\ \A u \in S : life[u] = "failed"
    /\ life' = [u \in Uploads |-> IF u \in S THEN "waiting" ELSE life[u]]
    /\ UNCHANGED met

Remove(u) ==
    /\ life[u] \in Stored
    /\ life' = [life EXCEPT ![u] = "gone"]
    /\ met' \in {met, met \cup {fileOf[u]}}

Meet ==
    /\ met \subseteq met' /\ met' \subseteq Files
    /\ UNCHANGED life

Stray(u) ==
    /\ fileOf[u] \in met /\ life[u] \in Stored
    /\ \E l \in Stored : life' = [life EXCEPT ![u] = l]
    /\ UNCHANGED met

Next ==
    \/ \E u \in Uploads : Put(u) \/ End(u) \/ Remove(u) \/ Stray(u)
    \/ \E S \in SUBSET Uploads : Retry(S)
    \/ Meet

Spec == Init /\ [][Next]_<<life, met>>

=============================================================================
