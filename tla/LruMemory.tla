----------------------------- MODULE LruMemory ------------------------------
(***************************************************************************)
(* What the chunk cache promises, without saying how: a memory of chunks   *)
(* and which of them was used after which. Chunks are used in any order;   *)
(* what was used is newer than all that was not. Memory changes only by an *)
(* answer to something that was asked for, and only a full memory loses a  *)
(* chunk to it: the one whose last use is the longest ago.                 *)
(***************************************************************************)
EXTENDS Naturals, FiniteSets

CONSTANTS Chunks, Limit

VARIABLES
    memory,     \* the chunks in memory
    newer,      \* the pairs <<k, l>> of them with l used after k
    asked       \* the chunks that are asked for

vars == <<memory, newer, asked>>

\* Of two chunks in memory one was used after the other.
Ordered ==
    \A k, l \in memory : <<k, l>> \in newer <=> k # l /\ <<l, k>> \notin newer

\* Nothing in memory yet, anything asked for.
Init == memory = {} /\ newer = {} /\ asked \subseteq Chunks

\* The chunks of `used` are used, in some order, after the `others`.
After(others, used) ==
    newer' \ (used \X used) = (newer \cap (others \X others)) \cup (others \X used)

\* Calls that find chunks, and calls that ask for them.
Use ==
    /\ UNCHANGED memory
    /\ \E used \in SUBSET memory : After(memory \ used, used)
    /\ Ordered'
    /\ asked \subseteq asked'
    /\ asked' \cap memory = {}

\* An answer is used as it arrives; whoever waited for it may ask for more.
Answer(k) ==
    /\ k \in asked
    /\ \E kept \in SUBSET memory :
        /\ IF Cardinality(memory) < Limit
           THEN kept = memory
           ELSE \E oldest \in memory :
                    /\ \A l \in memory \ {oldest} : <<oldest, l>> \in newer
                    /\ kept = memory \ {oldest}
        /\ memory' = kept \cup {k}
        /\ newer' = (newer \cap (kept \X kept)) \cup (kept \X {k})
    /\ asked \ {k} \subseteq asked'
    /\ asked' \cap memory' = {}

\* A chunk that does not come.
Give(k) ==
    /\ k \in asked
    /\ asked' = asked \ {k}
    /\ UNCHANGED <<memory, newer>>

Next == Use \/ \E k \in Chunks : Answer(k) \/ Give(k)

Spec == Init /\ [][Next]_vars

=============================================================================
