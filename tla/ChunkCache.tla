----------------------------- MODULE ChunkCache -----------------------------
(***************************************************************************)
(* The chunks of a streamed recording in the browser                       *)
(* (ui/src/data/chunkManager.ts): at most MaxInMemory decoded chunks, the  *)
(* least recently used one is evicted; requests for a chunk already asked  *)
(* for share one fetch; near the end of a chunk the next one is            *)
(* prefetched.                                                             *)
(*                                                                         *)
(* The script runs to completion between two answers of the network, so a  *)
(* call of the cache is an operator from one cache state to the next and   *)
(* the module that calls it makes a step of it. `late` stands for the      *)
(* callers that wait for a chunk: those whose frame is so close to the     *)
(* chunk's end that they prefetch the next one when it arrives.            *)
(***************************************************************************)
EXTENDS Integers, FiniteSets, Sequences, SequencesExt

CONSTANTS
    EndFrame,       \* manifest.endFrame
    ChunkSize,      \* manifest.chunkSize || 300
    PrefetchFrom,   \* first position in a chunk that prefetches: 0.8 of its size
    MaxInMemory,    \* maxChunksInMemory
    None

ASSUME CacheAssumption ==
    /\ EndFrame \in Nat
    /\ ChunkSize \in Nat \ {0}
    /\ PrefetchFrom \in Nat
    /\ MaxInMemory \in Nat \ {0}
    /\ None \notin Nat

Frames == 0 .. EndFrame

\* getChunkIndex
ChunkOf(frame) == frame \div ChunkSize

ChunkCount == ChunkOf(EndFrame) + 1

Chunks == 0 .. ChunkCount - 1

CacheType ==
    [loaded: SUBSET Chunks,             \* the keys of loadedChunks
     order: Seq(Chunks),                \* chunkAccessOrder, oldest first
     loading: SUBSET Chunks,            \* the keys of loadingChunks: fetches in flight
     newer: SUBSET (Chunks \X Chunks), \* history: <<k, l>>, both in memory, l used after k
     late: SUBSET Chunks,               \* fetches with a caller that prefetches
     prefetches: SUBSET Chunks,         \* fetches a prefetch started
     prefetching: Chunks \cup {None}]   \* prefetchingChunk

EmptyCache ==
    [loaded |-> {}, order |-> << >>, loading |-> {}, newer |-> {}, late |-> {},
     prefetches |-> {}, prefetching |-> None]

\* Mutant: an access appends without taking the earlier one out.
MutTouch(c, k) == [c EXCEPT !.order = Append(@, k)]

\* updateAccessOrder
Touch(c, k) == [c EXCEPT !.order = Append(RemoveFirst(@, k), k)]

\* The history of uses, whatever updateAccessOrder makes of it: k was found in
\* memory or has just been stored there, everything else in memory is older.
UsedNow(c, k) ==
    LET others == c.loaded \ {k}
    IN  [c EXCEPT !.newer = (@ \cap (others \X others)) \cup (others \X {k})]

\* storeInMemory: the loop evicts as long as the memory is full.
StoreInMemory(c, k) ==
    LET excess == Cardinality(c.loaded) - MaxInMemory + 1
        evicted == IF excess > 0 THEN {c.order[i] : i \in 1 .. excess} \ {k} ELSE {}
        kept == IF excess > 0 THEN SubSeq(c.order, excess + 1, Len(c.order)) ELSE c.order
    IN  Touch(UsedNow([c EXCEPT !.loaded = (@ \ evicted) \cup {k}, !.order = kept], k), k)

\* Mutant: the access order is the order of arrival.
MutLoadChunk(c, k) ==
    IF k \in c.loaded
    THEN UsedNow(c, k)
    ELSE [c EXCEPT !.loading = @ \cup {k}]

\* loadChunk: from memory, or a fetch in flight, or a fetch that starts now.
LoadChunk(c, k) ==
    IF k \in c.loaded
    THEN Touch(UsedNow(c, k), k)
    ELSE [c EXCEPT !.loading = @ \cup {k}]

PrefetchesAt(frame) == frame % ChunkSize >= PrefetchFrom

\* checkPrefetch: what the callers of the chunks ready ask for, each for the chunk
\* after its own, where there is one and it is neither there nor asked for.
CheckPrefetch(c, ready) ==
    ({k + 1 : k \in ready} \cap Chunks) \ (c.loaded \cup c.loading \cup {c.prefetching})

\* ensureLoaded up to its await. The rest, checkPrefetch, comes with Continue.
EnsureLoaded(c, frame) ==
    LET k == ChunkOf(frame)
    IN  [LoadChunk(c, k) EXCEPT !.late = IF PrefetchesAt(frame) THEN @ \cup {k} ELSE @]

\* The callers whose chunk is there go on, once the running script has ended: the
\* prefetches they start. The one that starts last is what is being prefetched.
Continue(c) ==
    LET ready == c.late \cap c.loaded
        asked == CheckPrefetch(c, ready)
    IN  [c EXCEPT !.late = @ \ ready,
                  !.loading = @ \cup asked,
                  !.prefetches = @ \cup asked,
                  !.prefetching = IF asked = {} THEN @ ELSE CHOOSE k \in asked : TRUE]

\* The end of a fetch: loadChunk forgets it, and a prefetch forgets what is
\* being prefetched, its own chunk or another.
Settled(c, k) ==
    [c EXCEPT !.loading = @ \ {k}, !.prefetches = @ \ {k},
              !.prefetching = IF k \in c.prefetches THEN None ELSE @]

\* loadChunkInternal, the answer: the chunk is stored, its waiters go on.
Answered(c, k) == Continue(Settled(StoreInMemory(c, k), k))

\* loadChunkInternal, no answer or one that does not decode: they fail with it.
Failed(c, k) == [Settled(c, k) EXCEPT !.late = @ \ {k}]

-----------------------------------------------------------------------------

\* The memory and the access order hold the same chunks, each once, and not more
\* than the limit; what is in memory is not being fetched. The eviction loop of
\* storeInMemory (chunkManager.ts:159) ends only because of this: it takes from
\* the order until the memory shrinks.
CacheConsistentIn(c) ==
    /\ ToSet(c.order) = c.loaded
    /\ IsInjective(c.order)
    /\ Cardinality(c.loaded) <= MaxInMemory
    /\ c.loaded \cap c.loading = {}
    /\ c.late \cup c.prefetches \subseteq c.loading

=============================================================================
