------------------------------ MODULE Playback ------------------------------
(***************************************************************************)
(* The playback page of the browser: the engine (ui/src/playback/engine.ts)*)
(* with its chunk cache, the page around it (RecordingPlayback.tsx with    *)
(* loadRecording.ts), the keyboard (shortcuts.ts), the timeline            *)
(* (TimelineScrubber.tsx) and the focus range an administrator edits.      *)
(*                                                                         *)
(* A handler runs to completion, with the effects its signals trigger      *)
(* inside it and the promise callbacks that are ready behind it: one       *)
(* action. Between two handlers anything may come: an animation frame, a   *)
(* key, the pointer, an answer of the network.                             *)
(*                                                                         *)
(* Abstracted: what an entity's state is (see Recording), how much time    *)
(* passes (a tick advances some number of frames, the speed with it), the  *)
(* camera and the cosmetics of the page.                                   *)
(***************************************************************************)
EXTENDS ChunkCache

CONSTANTS
    Entities,
    Life,           \* the frames in which an entity has a state
    KillFrames,     \* the frames of "killed" events
    Sessions,       \* recording and visitor: [stream, admin, focus]
    MaxAdvance,     \* bound: frames one tick advances
    MaxSaves,       \* bound: edits in flight at once
    MaxStray        \* bound: animation frames nothing refers to

ASSUME PlaybackAssumption ==
    /\ Life \in [Entities -> SUBSET Frames]
    /\ KillFrames \subseteq Frames
    /\ MaxAdvance \in Nat \ {0}
    /\ MaxStray \in Nat
    /\ MaxSaves \in Nat
    /\ None \notin Entities

\* What the page edits and what the server accepts, at an upload or an edit
\* (handler.go:424, handler_admin.go:134): neither knows the recording's frames.
Drafts == [in: Int, out: Int]
Ranges == {r \in Drafts : r.in < r.out}

Saves == 1 .. MaxSaves

ASSUME SessionAssumption ==
    Sessions \subseteq [stream: BOOLEAN, admin: BOOLEAN, focus: Ranges \cup {None}]

VARIABLES
    session,    \* the recording that is opened, and by whom
    eng,        \* the engine
    page,       \* the page's signals
    scrub,      \* the timeline's pointer
    kills,      \* killFrames of shortcuts.ts, None when it has to be built
    saving      \* the edits in flight: [to: the range or None], or None

vars == <<session, eng, page, scrub, kills, saving>>

EngineType ==
    [frame: Frames,                     \* currentFrame
     endFrame: {0, EndFrame},           \* endFrame, 0 until the recording is there
     playing: BOOLEAN,                  \* isPlaying
     tracked: BOOLEAN,                  \* the callback animFrameId names is pending
     stray: 0 .. MaxStray,              \* pending callbacks nothing names any more
     shown: [frame: Frames, ids: SUBSET Entities],  \* entitySnapshots, activeEvents
     follow: Entities \cup {None},      \* followTarget
     cache: CacheType]                  \* the chunk manager

PageType ==
    [phase: {"loading", "ready", "failed", "left"},
     focus: Ranges \cup {None},         \* focusRange
     draft: Drafts \cup {None},         \* focusDraft
     editing: BOOLEAN,                  \* editingFocus
     full: BOOLEAN]                     \* showFullTimeline

ScrubType == [dragging: BOOLEAN, handle: {"none", "in", "out"}, wasPlaying: BOOLEAN]

\* Types; what is in focus ends after it begins, which a draft need not.
TypeOK ==
    /\ session \in Sessions
    /\ eng \in EngineType
    /\ page \in PageType
    /\ scrub \in ScrubType
    /\ kills \in (SUBSET Frames) \cup {None}
    /\ saving \in [Saves -> [to: Drafts \cup {None}] \cup {None}]

Smaller(a, b) == IF a < b THEN a ELSE b
Larger(a, b) == IF a > b THEN a ELSE b

-----------------------------------------------------------------------------
(* The engine. Its operators take an engine state e and, where a signal     *)
(* is set that the page's focus effect reads, the range r that constrains   *)
(* playback now, or None.                                                   *)

Alive(frame) == {x \in Entities : frame \in Life[x]}

\* computeSnapshots and getActiveEvents. A streamed recording has only what is
\* in memory, the other kind has all positions.
Compute(e, frame) ==
    LET known == ~session.stream \/ ChunkOf(frame) \in e.cache.loaded
    IN  [e EXCEPT !.shown = [frame |-> frame, ids |-> IF known THEN Alive(frame) ELSE {}]]

\* pause: clearTimer takes back only the callback animFrameId names.
Pause(e) == IF e.playing THEN [e EXCEPT !.playing = FALSE, !.tracked = FALSE] ELSE e

\* startLoop, and every requestAnimationFrame: the id of an earlier callback
\* that is still pending is overwritten.
RequestFrame(e) ==
    [e EXCEPT !.tracked = TRUE, !.stray = IF e.tracked THEN @ + 1 ELSE @]

\* ensureLoaded, where there is a chunk manager.
Ensure(e, frame) ==
    IF session.stream /\ e.endFrame > 0
    THEN [e EXCEPT !.cache = EnsureLoaded(@, frame)]
    ELSE e

\* seekTo with nothing to constrain it.
PlainSeek(e, frame) ==
    LET clamped == Larger(0, Smaller(frame, e.endFrame))
    IN  Ensure(Compute([e EXCEPT !.frame = clamped], clamped), clamped)

\* Mutant: the lower bound is forgotten.
MutClamp(e, r) ==
    IF r = None \/ e.frame < r.out THEN e
    ELSE IF e.frame = r.out THEN Pause(e) ELSE PlainSeek(Pause(e), r.out)

\* The page's focus effect: at the end of the range playback pauses, outside of
\* it the engine is sent back to the nearest bound.
Clamp(e, r) ==
    IF r = None THEN e
    ELSE LET paused == IF e.frame >= r.out THEN Pause(e) ELSE e
             clamped == Larger(r.in, Smaller(r.out, e.frame))
         IN  IF clamped = e.frame THEN paused ELSE PlainSeek(paused, clamped)

\* Setting currentFrame runs the effect at once, before the setter returns.
SetFrame(e, r, frame) ==
    IF frame = e.frame THEN e ELSE Clamp([e EXCEPT !.frame = frame], r)

\* seekTo: the frame it computes is its own, wherever the effect went.
SeekTo(e, r, frame) ==
    LET clamped == Larger(0, Smaller(frame, e.endFrame))
    IN  Ensure(Compute(SetFrame(e, r, clamped), clamped), clamped)

\* What is ready when the handler ends: the seek to the frame that is now
\* current finds its chunk and computes again; prefetches start.
After(e) ==
    LET found == session.stream /\ ChunkOf(e.frame) \in e.cache.loaded
        e1 == IF found THEN Compute(e, e.frame) ELSE e
    IN  [e1 EXCEPT !.cache = Continue(@)]

\* play
Play(e, r) ==
    IF e.playing \/ e.frame >= e.endFrame THEN e
    ELSE RequestFrame(Clamp([e EXCEPT !.playing = TRUE], r))

\* Mutant: the timer is cleared and not started again.
MutSetSpeed(e) == IF e.playing THEN [e EXCEPT !.tracked = FALSE] ELSE e

\* setSpeed
SetSpeed(e) ==
    IF e.playing THEN RequestFrame([e EXCEPT !.tracked = FALSE]) ELSE e

Stop(e) == [e EXCEPT !.playing = FALSE, !.tracked = FALSE]

\* Mutant: the frame waits for its chunk.
MutAdvanceTo(e, r, next) ==
    IF session.stream /\ ChunkOf(next) \notin e.cache.loaded THEN Ensure(e, next)
    ELSE Compute(SetFrame(e, r, next), next)

\* onFrame with frames to advance: the next frame is set, its chunk asked for,
\* and what is there of it shown; a followed entity that is not shown is left.
AdvanceTo(e, r, next) ==
    LET moved == Compute(Ensure(SetFrame(e, r, next), next), next)
    IN  IF moved.follow \in moved.shown.ids THEN moved ELSE [moved EXCEPT !.follow = None]

\* onFrame; e is the state its callback finds, no longer pending.
OnFrame(e, r, advance) ==
    LET next == Smaller(e.frame + advance, e.endFrame)
    IN  IF ~e.playing THEN e
        ELSE IF advance = 0 THEN RequestFrame(e)
        ELSE IF e.frame >= e.endFrame THEN Stop(e)
        ELSE IF next >= e.endFrame THEN Stop(AdvanceTo(e, r, next))
        ELSE RequestFrame(AdvanceTo(e, r, next))

-----------------------------------------------------------------------------
(* The page.                                                                *)

\* focusConstrained: the range that constrains a page p.
Constraint(p) == IF ~p.editing /\ ~p.full THEN p.focus ELSE None

Here == page.phase # "left"

\* The loading screen takes the pointer.
Pointer == page.phase \in {"ready", "failed"}

\* A handler that leaves the page's signals alone.
Engine(e) ==
    /\ UNCHANGED <<session, page>>
    /\ \E settled \in {After(e)} : settled.stray <= MaxStray /\ eng' = settled

\* A handler that changes them: the effect runs on what it leaves.
Signals(p) ==
    /\ page' = p
    /\ eng' = After(Clamp(eng, Constraint(p)))
    /\ UNCHANGED session

\* loadRecording.ts asks for the first chunk before the engine has the rest.
NewEngine ==
    [frame |-> 0, endFrame |-> 0, playing |-> FALSE, tracked |-> FALSE, stray |-> 0,
     shown |-> [frame |-> 0, ids |-> {}], follow |-> None,
     cache |-> IF session.stream THEN LoadChunk(EmptyCache, 0) ELSE EmptyCache]

NewPage == [phase |-> "loading", focus |-> None, draft |-> None, editing |-> FALSE, full |-> FALSE]

NewScrub == [dragging |-> FALSE, handle |-> "none", wasPlaying |-> FALSE]

Init ==
    /\ session \in Sessions
    /\ eng = NewEngine
    /\ page = NewPage
    /\ scrub = NewScrub
    /\ kills = None
    /\ saving = [s \in Saves |-> None]

\* loadRecording of the engine, with the manifest and, streamed, chunk 0.
LoadedEngine ==
    LET chunks == IF session.stream THEN Answered(eng.cache, 0) ELSE EmptyCache
    IN  Compute([NewEngine EXCEPT !.endFrame = EndFrame, !.cache = chunks], 0)

\* loadRecording.ts has everything; the page sets the range and seeks to it. An
\* edit may have begun before.
Load ==
    LET p == [page EXCEPT !.phase = "ready", !.focus = session.focus]
        r == Constraint(p)
        e == Clamp(LoadedEngine, r)
    IN  /\ page.phase = "loading"
        /\ page' = p
        /\ eng' = After(IF p.focus = None THEN e ELSE SeekTo(e, r, p.focus.in))
        /\ UNCHANGED <<session, scrub, kills, saving>>

\* The recording, its manifest or its first chunk does not come.
LoadFails ==
    /\ page.phase = "loading"
    /\ page' = [page EXCEPT !.phase = "failed"]
    /\ UNCHANGED <<session, eng, scrub, kills, saving>>

\* onCleanup: dispose stops the engine.
Leave ==
    /\ Here
    /\ page' = [page EXCEPT !.phase = "left"]
    /\ eng' = Stop(eng)
    /\ UNCHANGED <<session, scrub, kills, saving>>

\* An animation frame: the callback is gone before it runs.
Tick(advance) ==
    /\ Here
    /\ UNCHANGED <<scrub, kills, saving>>
    /\ \/ eng.tracked /\ Engine(OnFrame([eng EXCEPT !.tracked = FALSE], Constraint(page), advance))
       \/ eng.stray > 0 /\ Engine(OnFrame([eng EXCEPT !.stray = @ - 1], Constraint(page), advance))

\* Mutant: the callback for a loaded chunk is not set.
MutChunkArrives(k) ==
    /\ page.phase = "ready"
    /\ k \in eng.cache.loading
    /\ eng' = [eng EXCEPT !.cache = Answered(@, k)]
    /\ UNCHANGED <<session, page, scrub, kills, saving>>

\* A chunk arrives. onChunkLoaded computes when it is the current frame's.
ChunkArrives(k) ==
    LET e == [eng EXCEPT !.cache = Answered(@, k)]
    IN  /\ page.phase = "ready"
        /\ k \in eng.cache.loading
        /\ eng' = IF k = ChunkOf(e.frame) THEN Compute(e, e.frame) ELSE e
        /\ UNCHANGED <<session, page, scrub, kills, saving>>

ChunkFails(k) ==
    /\ page.phase = "ready"
    /\ k \in eng.cache.loading
    /\ eng' = [eng EXCEPT !.cache = Failed(@, k)]
    /\ UNCHANGED <<session, page, scrub, kills, saving>>

\* followEntity, from the lists of the side panel.
Follow(x) ==
    /\ page.phase = "ready"
    /\ eng' = [eng EXCEPT !.follow = x]
    /\ UNCHANGED <<session, page, scrub, kills, saving>>

\* unfollowEntity: its indicator, or a drag of the map.
Unfollow ==
    /\ Pointer
    /\ eng' = [eng EXCEPT !.follow = None]
    /\ UNCHANGED <<session, page, scrub, kills, saving>>

\* The speed buttons.
Speed ==
    /\ Pointer
    /\ Engine(SetSpeed(eng))
    /\ UNCHANGED <<scrub, kills, saving>>

-----------------------------------------------------------------------------
(* Keyboard and buttons (shortcuts.ts, BottomBar.tsx).                      *)

\* togglePlayPause
TogglePlay ==
    /\ Here
    /\ Engine(IF eng.playing THEN Pause(eng) ELSE Play(eng, Constraint(page)))
    /\ UNCHANGED <<scrub, kills, saving>>

\* stepBack and stepForward.
Step(n) ==
    /\ Here
    /\ Engine(SeekTo(Pause(eng), Constraint(page), eng.frame + n))
    /\ UNCHANGED <<scrub, kills, saving>>

\* getKillFrames: what the engine's events are when it is first asked.
CachedKills ==
    IF kills # None THEN kills
    ELSE IF page.phase = "ready" THEN KillFrames ELSE {}

\* To the kill frame that was found, if there is one.
SeekToKill(found) ==
    /\ Here
    /\ kills' = CachedKills
    /\ IF found = {} THEN UNCHANGED <<session, eng, page>>
       ELSE \E f \in found : Engine(SeekTo(eng, Constraint(page), f))
    /\ UNCHANGED <<scrub, saving>>

\* seekToNextKill
NextKill ==
    LET later == {f \in CachedKills : f > eng.frame}
    IN  SeekToKill({f \in later : \A g \in later : f <= g})

\* seekToPrevKill
PrevKill ==
    LET earlier == {f \in CachedKills : f < eng.frame}
    IN  SeekToKill({f \in earlier : \A g \in earlier : f >= g})

-----------------------------------------------------------------------------
(* The timeline (TimelineScrubber.tsx).                                     *)

\* rangeStart, rangeSpan: constrained, the timeline spans the focus range only,
\* inside the recording or not.
Track ==
    LET r == Constraint(page)
    IN  IF r = None THEN 0 .. Larger(1, eng.endFrame) ELSE r.in .. r.out

\* onPointerDown
PointerDown(f) ==
    /\ Pointer
    /\ f \in Track
    /\ ~scrub.dragging /\ scrub.handle = "none"
    /\ scrub' = [scrub EXCEPT !.dragging = TRUE, !.wasPlaying = eng.playing]
    /\ Engine(SeekTo(Pause(eng), Constraint(page), f))
    /\ UNCHANGED <<kills, saving>>

DragHandle(d, f) ==
    IF scrub.handle = "in"
    THEN [d EXCEPT !.in = Larger(0, Smaller(f, d.out - 1))]
    ELSE [d EXCEPT !.out = Smaller(eng.endFrame, Larger(f, d.in + 1))]

\* onPointerMove, for a handle of the range or for the playhead.
PointerMove(f) ==
    /\ Pointer
    /\ f \in Track
    /\ IF scrub.handle # "none" /\ page.draft # None
       THEN /\ page' = [page EXCEPT !.draft = DragHandle(@, f)]
            /\ UNCHANGED <<session, eng>>
       ELSE /\ scrub.dragging
            /\ Engine(SeekTo(eng, Constraint(page), f))
    /\ UNCHANGED <<scrub, kills, saving>>

\* onPointerUp
PointerUp ==
    /\ Pointer
    /\ \/ /\ scrub.handle # "none"
          /\ scrub' = [scrub EXCEPT !.handle = "none"]
          /\ UNCHANGED <<session, eng, page>>
       \/ /\ scrub.handle = "none"
          /\ scrub.dragging
          /\ scrub' = NewScrub
          /\ Engine(IF scrub.wasPlaying THEN Play(eng, Constraint(page)) ELSE eng)
    /\ UNCHANGED <<kills, saving>>

\* A handle of the range, shown while it is edited.
GrabHandle(side) ==
    /\ Pointer
    /\ page.editing /\ page.draft # None
    /\ ~scrub.dragging
    /\ scrub' = [scrub EXCEPT !.handle = side]
    /\ UNCHANGED <<session, eng, page, kills, saving>>

-----------------------------------------------------------------------------
(* The focus range (RecordingPlayback.tsx, FocusToolbar.tsx).               *)

\* startFocusEdit: nothing but who visits is asked, so a recording that is not
\* there yet, or failed to load, is edited as one of frame 0 alone.
StartEdit ==
    /\ Here /\ session.admin
    /\ ~page.editing
    /\ Signals([page EXCEPT
           !.editing = TRUE,
           !.draft = IF page.focus # None THEN page.focus ELSE [in |-> 0, out |-> eng.endFrame]])
    /\ UNCHANGED <<scrub, kills, saving>>

\* setFocusIn
SetIn(d, f) == [d EXCEPT !.in = Smaller(f, d.out - 1)]

\* setFocusOut
SetOut(d, f) == [d EXCEPT !.out = Larger(f, d.in + 1)]

\* Their buttons and keys.
SetBound ==
    /\ Here
    /\ page.editing /\ page.draft # None
    /\ \/ page' = [page EXCEPT !.draft = SetIn(@, eng.frame)]
       \/ page' = [page EXCEPT !.draft = SetOut(@, eng.frame)]
    /\ UNCHANGED <<session, eng, scrub, kills, saving>>

\* cancelFocus
CancelEdit ==
    /\ Here
    /\ page.editing
    /\ Signals([page EXCEPT !.editing = FALSE, !.draft = None])
    /\ UNCHANGED <<scrub, kills, saving>>

\* Mutant: an empty range is accepted.
MutAccepted(to) == to # None => to.in <= to.out

\* The server's own check of an edit.
Accepted(to) == to # None => to.in < to.out

\* saveFocus and clearFocus, up to their await: the page has its recording's id,
\* and the buttons stay where they are.
Save(s, to) ==
    /\ page.phase = "ready"
    /\ page.editing
    /\ to \in {page.draft, None}
    /\ saving[s] = None /\ \A t \in 1 .. s - 1 : saving[t] # None
    /\ saving' = [saving EXCEPT ![s] = [to |-> to]]
    /\ UNCHANGED <<session, eng, page, scrub, kills>>

\* The server has accepted: whatever is edited by now is over.
Saved(s) ==
    /\ page.phase = "ready"
    /\ saving[s] # None
    /\ Accepted(saving[s].to)
    /\ Signals([page EXCEPT !.focus = saving[s].to, !.editing = FALSE, !.draft = None])
    /\ saving' = [saving EXCEPT ![s] = None]
    /\ UNCHANGED <<scrub, kills>>

SaveFails(s) ==
    /\ saving[s] # None
    /\ saving' = [saving EXCEPT ![s] = None]
    /\ UNCHANGED <<session, eng, page, scrub, kills>>

\* onToggleFullTimeline
ToggleFull ==
    /\ Pointer
    /\ page.focus # None /\ ~page.editing
    /\ Signals([page EXCEPT !.full = ~@])
    /\ UNCHANGED <<scrub, kills, saving>>

-----------------------------------------------------------------------------

Loading == Load \/ LoadFails \/ Leave

Network == \E k \in Chunks : ChunkArrives(k) \/ ChunkFails(k)

Keyboard == TogglePlay \/ NextKill \/ PrevKill \/ \E n \in {-10, -1, 1, 10} : Step(n)

Timeline ==
    \/ \E f \in Track : PointerDown(f) \/ PointerMove(f)
    \/ PointerUp
    \/ \E side \in {"in", "out"} : GrabHandle(side)

Focus ==
    \/ StartEdit \/ SetBound \/ CancelEdit \/ ToggleFull
    \/ \E s \in Saves :
        \/ \E to \in {page.draft, None} : Save(s, to)
        \/ Saved(s) \/ SaveFails(s)

Next ==
    \/ Loading
    \/ \E n \in 0 .. MaxAdvance : Tick(n)
    \/ Network
    \/ \E x \in Entities : Follow(x)
    \/ Unfollow \/ Speed
    \/ Keyboard \/ Timeline \/ Focus

\* The browser calls back as long as it shows the page, and time passes: some
\* callback advances the recording.
Fairness == WF_vars(\E n \in 1 .. MaxAdvance : Tick(n))

Spec == Init /\ [][Next]_vars /\ Fairness

-----------------------------------------------------------------------------
(* Properties.                                                              *)

\* The eviction loop ends, and fetches are shared (chunkManager.ts:149, 85).
CacheConsistent == CacheConsistentIn(eng.cache)

\* The chunk in memory that is lost is the one whose last use, by the history of
\* loadChunk's and storeInMemory's calls, is the longest ago; it is lost only when
\* memory is full, and only to an answer that was asked for (chunkManager.ts:157).
Lru == INSTANCE LruMemory WITH
    Chunks <- Chunks, Limit <- MaxInMemory,
    memory <- eng.cache.loaded,
    newer <- eng.cache.newer,
    asked <- eng.cache.loading

EvictsLeastRecent == Lru!Spec

\* What a streamed recording shows is its current frame, complete, whenever the
\* frame's chunk is in memory: no late answer, prefetch, eviction or nested seek
\* leaves another frame's picture (engine.ts:230, 303).
ShownIsCurrent ==
    page.phase = "ready" /\ session.stream /\ ChunkOf(eng.frame) \in eng.cache.loaded =>
        eng.shown = [frame |-> eng.frame, ids |-> Alive(eng.frame)]

\* The frame of the recording that is nearest to f.
Nearest(f) == Larger(0, Smaller(f, EndFrame))

\* While the focus range constrains playback, no key, drag, tick, save or cancel
\* leaves the current frame outside of it, or of the recording where the range does
\* not lie in it: a range past the end holds playback at the last frame
\* (RecordingPlayback.tsx:206).
FocusHolds ==
    page.phase = "ready" /\ Constraint(page) # None =>
        eng.frame \in Nearest(page.focus.in) .. Nearest(page.focus.out)

\* A playing engine has an animation frame to come: overwritten and cancelled
\* callbacks never leave it playing and asleep (engine.ts:358).
PlayingHasLoop == eng.playing => eng.tracked \/ eng.stray > 0

\* An engine that plays on and on keeps reaching other frames.
Advances == []<>(~eng.playing) \/ []<><<eng'.frame # eng.frame>>_vars
=============================================================================
