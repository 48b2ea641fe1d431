------------------------------- MODULE Scene -------------------------------
(***************************************************************************)
(* A recording on the screen: what useRenderBridge.ts and the page         *)
(* (RecordingPlayback.tsx) make of the engine's frame and snapshots, of    *)
(* the markers and the blacklist, and what the visitor changes in the      *)
(* panels (UnitsTab, EventsTab, StatsTab, TopBar, ViewSettings) while      *)
(* frames pass and answers arrive.                                         *)
(*                                                                         *)
(* A signal's effects run inside the handler that sets it: one action. Of  *)
(* the engine (module Playback) this keeps the frame, the chunks at hand   *)
(* and whether it plays; a chunk may arrive, and push another one out, at  *)
(* any time. The visitor has a number of clicks.                           *)
(***************************************************************************)
EXTENDS Markers, Timeline

CONSTANTS
    Recordings,     \* raw recordings by name
    Visits,         \* [rec, pb, canvas, maplibre, panel]
    MaxClicks       \* bound: clicks of the visitor

Panels == {"view", "events", "units"}
Sides == {"WEST", "EAST", "GUER", "CIV"}

\* A marker as it is written: its positions, as the server reads them, in the
\* order of their frames, the first not after its start.
RawPositions ==
    [form: Forms, frame: Nat, at: Int, style: STRING \cup {None}, alpha: Nat \cup {None}]
RawMarkers ==
    {raw \in [shape: STRING, type: STRING, text: BOOLEAN, side: -1 .. 3, player: Int,
              start: Nat, end: Int, placed: BOOLEAN, positions: Seq(RawPositions)] :
        LET read == parseMarker(raw).positions
        IN  /\ ~raw.placed => raw.positions = <<>>
            /\ read # <<>> => read[1].frame <= raw.start
            /\ \A i, j \in DOMAIN read : i < j => read[i].frame <= read[j].frame}

\* The marker manager reads a frame where a position begins: what only the server
\* understands can only be streamed.
FramesFirst(raw) == \A i \in DOMAIN raw.positions : raw.positions[i].form = "frame first"

ASSUME SceneAssumption ==
    /\ \A r \in DOMAIN Recordings :
            Recordings[r].end \in Nat /\ Recordings[r].markers \in Seq(RawMarkers)
    /\ Visits \subseteq [rec: DOMAIN Recordings, pb: BOOLEAN, canvas: BOOLEAN,
                         maplibre: BOOLEAN, panel: Panels]
    /\ \A v \in Visits : \A i \in DOMAIN Recordings[v.rec].markers :
            v.pb \/ FramesFirst(Recordings[v.rec].markers[i])
    /\ MaxClicks \in Nat

ASSUME RecordingsAssumption == \A r \in DOMAIN Recordings : WellFormed(Recordings[r])

VARIABLES
    visit,      \* which recording, in which format, on which renderer
    play,       \* [frame, playing, here: chunks at hand, snaps: entitySnapshots]
    mgr,        \* the marker manager
    view,       \* the renderer
    panel,      \* the panels' signals
    flights,    \* requests about the blacklist on their way
    clicks,
    left        \* the page was left

vars == <<visit, play, mgr, view, panel, flights, clicks, left>>

Json == [r \in DOMAIN Recordings |-> decodeJson(Recordings[r])]
Manifest == [r \in DOMAIN Recordings |-> decodeManifest(Recordings[r])]
Chunks == [r \in DOMAIN Recordings |->
    [k \in 0 .. ChunkCount(Recordings[r]) - 1 |-> decodeChunk(assembleChunk(Recordings[r], k))]]

\* The recording as the page has it.
Loaded == [r \in DOMAIN Recordings |-> [pb \in BOOLEAN |-> IF pb THEN Manifest[r] ELSE Json[r]]]
Rec == Loaded[visit.rec][visit.pb]

PlayersOf(defs) == {p \in Ids(defs) : getEntity(defs, p).player}
Players == PlayersOf(Rec.entities)

\* The events' filter: which kinds are shown, and hits and kills of whom.
Switches == {"kills", "hits", "connections", "captures", "terminalHacks", "missionEvents"}
SideFilters == {"all", "friendlyFireOnly", "hideFriendlyFire"}
FilterType == [on: SUBSET Switches, sides: SideFilters]
DefaultFilter == [on |-> Switches \ {"hits", "connections"}, sides |-> "all"]

PanelType ==
    [side: Sides,                       \* activeSide
     closed: SUBSET {getEntity(Rec.entities, id).group : id \in Ids(Rec.entities)},
                                        \* groups that are not expanded
     selected: Ids(Rec.entities) \cup {None},
     counted: BOOLEAN,                  \* markerCounts has been set
     filter: FilterType]

TypeOK ==
    /\ visit \in Visits
    /\ play.frame \in 0 .. Rec.end
    /\ play.playing \in BOOLEAN
    /\ play.here \subseteq DOMAIN Chunks[visit.rec]
    /\ mgr.side \in Sides /\ mgr.black \subseteq Ids(Rec.entities)
    /\ panel \in PanelType
    /\ [x \in DOMAIN view \ {"ents", "icons", "lines"} |-> view[x]] \in ViewType
    /\ clicks \in 0 .. MaxClicks

-----------------------------------------------------------------------------
(* The bridge.                                                              *)

\* The snapshots of every frame, with its chunk at hand and without.
Snapshots == [r \in DOMAIN Recordings |-> [pb \in BOOLEAN |-> [f \in 0 .. Recordings[r].end |->
    [at \in BOOLEAN |->
        computeSnapshots(Loaded[r][pb].entities,
                         IF pb /\ at THEN Chunks[r][f \div ChunkSize] ELSE {}, f)]]]]

SnapshotsAt(frame, here) ==
    Snapshots[visit.rec][visit.pb][frame][frame \div ChunkSize \in here]

\* What the renderer is told of an entity. A vehicle counts as a player's when
\* a player is in its crew (getCrewInfo).
Body(snap, hit) ==
    [at |-> snap.at, side |-> snap.side, alive |-> snap.alive, player |-> snap.player,
     inVehicle |-> snap.inVehicle, hit |-> hit]

\* Entity snapshots to markers: the ones that are gone, the others, the lines.
SyncWith(w, snaps, hit) ==
    LET told(id) ==
            LET body == Body(snaps[id], id \in hit)
                e == IF id \in DOMAIN w.ents THEN w.ents[id] ELSE CreateEntity(w, body)
            IN  ChangeEntity(w, e, body)
    IN  [w EXCEPT !.ents = [id \in DOMAIN snaps |-> told(id)],
                  !.lines = UNION {FireLines(id, snaps[id].fired) : id \in DOMAIN snaps}]

Sync(w, snaps, frame) == SyncWith(w, snaps, HitIn(Rec.events, frame))

\* The signal of the frame was set: markers and entities follow it with the
\* snapshots of before; a signal that does not change tells nobody.
FrameSignal(frame) ==
    IF frame = play.frame THEN [m |-> mgr, w |-> view]
    ELSE updateFrame([m |-> mgr, w |-> Sync(view, play.snaps, frame)], frame)

\* Then the snapshots are computed, and the entities follow them.
ShowSnapshots(r, snaps, frame, playing) ==
    /\ play' = [play EXCEPT !.frame = frame, !.snaps = snaps, !.playing = playing]
    /\ mgr' = r.m
    /\ view' = [Sync(r.w, snaps, frame) EXCEPT !.smoothing = playing]

\* seekTo, and what a tick does: to the nearest frame there is.
MoveTo(wanted, playing) ==
    LET frame == IF wanted \in 0 .. Rec.end THEN wanted ELSE IF wanted < 0 THEN 0 ELSE Rec.end
    IN  ShowSnapshots(FrameSignal(frame), SnapshotsAt(frame, play.here), frame, playing)

\* The units the tab lists for a side, and the sides that have any.
BySide == [r \in DOMAIN Recordings |-> [pb \in BOOLEAN |-> [s \in Sides |->
    getBySide(Loaded[r][pb].entities, s)]]]
Listed(side) == BySide[visit.rec][visit.pb][side]
populatedSides == {s \in Sides : Listed(s) # {}}

\* A recording has just been loaded, a streamed one with its first chunk: the
\* first snapshots, and markers that wait for the frame to change.
\* The side is the one the visitor looked at last, if the units' tab finds units
\* there.
Init ==
    /\ visit \in Visits
    /\ LET here == IF visit.pb THEN {0} ELSE {}
       IN  play = [frame |-> 0, playing |-> FALSE, here |-> here, snaps |-> SnapshotsAt(0, here)]
    /\ \E side \in IF visit.panel = "units" THEN populatedSides ELSE {"WEST", "EAST"} :
        /\ mgr = [tracked |-> loadMarkers(Rec.markers), side |-> side, black |-> {}]
        /\ panel = [side |-> side, closed |-> {}, selected |-> None, counted |-> FALSE,
                    filter |-> DefaultFilter]
    /\ view = Sync(NewView(visit.canvas, visit.maplibre), play.snaps, 0)
    /\ flights = {[op |-> "load"]}
    /\ clicks = 0
    /\ left = FALSE

-----------------------------------------------------------------------------
(* Playback.                                                                *)

\* onFrame, when it is time for the next frame or frames.
Tick ==
    /\ play.playing /\ play.frame < Rec.end
    /\ \E frame \in play.frame + 1 .. Rec.end : MoveTo(frame, frame < Rec.end)
    /\ UNCHANGED <<visit, panel, flights, clicks>>

\* There is no next frame: playback ends.
TickAtEnd ==
    /\ play.playing /\ play.frame >= Rec.end
    /\ play' = [play EXCEPT !.playing = FALSE]
    /\ view' = [view EXCEPT !.smoothing = FALSE]
    /\ UNCHANGED <<visit, mgr, panel, flights, clicks>>

\* onChunkLoaded: only the chunk of the current frame changes the picture.
ChunkLoaded(k, here, snaps) ==
    IF k = play.frame \div ChunkSize
    THEN /\ play' = [play EXCEPT !.here = here, !.snaps = snaps]
         /\ view' = Sync(view, snaps, play.frame)
    ELSE /\ play' = [play EXCEPT !.here = here]
         /\ UNCHANGED view

ChunkArrives ==
    /\ visit.pb
    /\ \E k \in DOMAIN Chunks[visit.rec] \ play.here, out \in SUBSET play.here :
        LET here == (play.here \ out) \cup {k}
        IN  ChunkLoaded(k, here, SnapshotsAt(play.frame, here))
    /\ UNCHANGED <<visit, mgr, panel, flights, clicks>>

\* The canvas ends its tweens, while smoothing is on.
Render ==
    /\ view.canvas /\ view.smoothing
    /\ view' = SettleTweens(view)
    /\ UNCHANGED <<visit, play, mgr, panel, flights, clicks>>

Click == clicks < MaxClicks /\ clicks' = clicks + 1

TogglePlay ==
    /\ Click
    /\ play.playing \/ play.frame < Rec.end
    /\ play' = [play EXCEPT !.playing = ~@]
    /\ view' = [view EXCEPT !.smoothing = ~play.playing]
    /\ UNCHANGED <<visit, mgr, panel, flights>>

SeekTo ==
    /\ Click
    /\ \E frame \in 0 .. Rec.end : MoveTo(frame, play.playing)
    /\ UNCHANGED <<visit, panel, flights>>

-----------------------------------------------------------------------------
(* Events tab.                                                              *)

\* Counters have no switch.
passesEventType(ev, f) ==
    CASE ev.type = "killed" -> "kills" \in f.on
      [] ev.type = "hit" -> "hits" \in f.on
      [] ev.type \in {"connected", "disconnected"} -> "connections" \in f.on
      [] ev.type \in CaptureTypes \cup {"capturedFlag"} -> "captures" \in f.on
      [] ev.type \in HackTypes -> "terminalHacks" \in f.on
      [] ev.type \in {"endMission", "generalEvent"} -> "missionEvents" \in f.on
      [] OTHER -> TRUE

passesSideFilter(defs, ev, f) ==
    (ev.type \in HitTypes /\ f.sides # "all") =>
        (isFriendlyFire(defs, ev) <=> f.sides = "friendlyFireOnly")

\* The list, newest first.
filteredEvents(rec) ==
    LET so == getActiveEvents(rec.events, play.frame)
    IN  Reverse(Those(so, {ev \in ToSet(so) : /\ passesEventType(ev, panel.filter)
                                              /\ passesSideFilter(rec.entities, ev, panel.filter)}))

\* handleEventClick, but for the camera.
ClickEvent ==
    /\ visit.panel = "events" /\ Click
    /\ \E ev \in ToSet(filteredEvents(Rec)) : MoveTo(ev.frame, play.playing)
    /\ UNCHANGED <<visit, panel, flights>>

SetFilter ==
    /\ visit.panel = "events" /\ Click
    /\ \/ \E s \in Switches :
            panel' = [panel EXCEPT !.filter.on = IF s \in @ THEN @ \ {s} ELSE @ \cup {s}]
       \/ \E sides \in SideFilters \ {panel.filter.sides} :
            panel' = [panel EXCEPT !.filter.sides = sides]
    /\ UNCHANGED <<visit, play, mgr, view, flights>>

-----------------------------------------------------------------------------
(* Units tab.                                                               *)

\* The rows: units of the side whose group is expanded.
Rows == {id \in Listed(panel.side) :
            getEntity(Rec.entities, id).group \notin panel.closed}

\* A side's tab: its markers are filtered, its groups expanded.
SelectSide ==
    /\ visit.panel = "units" /\ Click
    /\ \E side \in populatedSides \ {panel.side} :
        LET r == setSideFilter([m |-> mgr, w |-> view], side)
        IN  /\ panel' = [panel EXCEPT !.side = side, !.closed = {}]
            /\ mgr' = r.m /\ view' = r.w
    /\ UNCHANGED <<visit, play, flights>>

toggleGroup ==
    /\ visit.panel = "units" /\ Click
    /\ \E id \in Listed(panel.side) :
        LET name == getEntity(Rec.entities, id).group
        IN  panel' = [panel EXCEPT !.closed = IF name \in @ THEN @ \ {name} ELSE @ \cup {name}]
    /\ UNCHANGED <<visit, play, mgr, view, flights>>

SelectUnit ==
    /\ visit.panel = "units" /\ Click
    /\ \E id \in Rows : panel' = [panel EXCEPT !.selected = IF @ = id THEN None ELSE id]
    /\ UNCHANGED <<visit, play, mgr, view, flights>>

\* The blacklist button of the selected unit's card; the next blacklist is made
\* from the one of this moment.
toggleBlacklist ==
    /\ visit.panel = "units" /\ Click
    /\ panel.counted /\ panel.selected \in Rows
    /\ panel.selected \in DOMAIN getMarkerCountsByPlayer(mgr)
    /\ LET id == panel.selected
           next == IF id \in mgr.black THEN mgr.black \ {id} ELSE mgr.black \cup {id}
       IN  flights' = flights \cup {[op |-> "toggle", next |-> next]}
    /\ UNCHANGED <<visit, play, mgr, view, panel>>

\* The answer to a toggle; a failed one changes nothing.
ToggleAnswers ==
    /\ \E f \in {g \in flights : g.op = "toggle"}, ok \in BOOLEAN :
        LET r == setBlacklist([m |-> mgr, w |-> view], f.next)
        IN  /\ flights' = flights \ {f}
            /\ IF ok THEN mgr' = r.m /\ view' = r.w ELSE UNCHANGED <<mgr, view>>
    /\ UNCHANGED <<visit, play, panel, clicks>>

\* The recording's blacklist, asked for when it was loaded: the numbers of
\* markers come with it or, if it fails, not at all.
BlacklistArrives ==
    /\ [op |-> "load"] \in flights
    /\ flights' = flights \ {[op |-> "load"]}
    /\ \/ \E black \in SUBSET (Players \cap DOMAIN getMarkerCountsByPlayer(mgr)) :
            LET r == setBlacklist([m |-> mgr, w |-> view], black)
            IN  mgr' = r.m /\ view' = r.w /\ panel' = [panel EXCEPT !.counted = TRUE]
       \/ UNCHANGED <<mgr, view, panel>>
    /\ UNCHANGED <<visit, play, clicks>>

-----------------------------------------------------------------------------
(* What the panels count.                                                   *)

CountsAt == [r \in DOMAIN Recordings |-> [pb \in BOOLEAN |-> [f \in 0 .. Recordings[r].end |->
    getKillDeathCounts(Loaded[r][pb].entities, Loaded[r][pb].events, f)]]]
Counts == CountsAt[visit.rec][visit.pb][play.frame]

\* The score last written into the kills so far, by who killed.
ScoreAt == [r \in DOMAIN Recordings |-> [pb \in BOOLEAN |-> [f \in 0 .. Recordings[r].end |->
    resolveReferences(Loaded[r][pb].entities, getActiveEvents(Loaded[r][pb].events, f)).score]]]
Alive(id) == id \in DOMAIN play.snaps /\ play.snaps[id].alive # 0

\* getAll, filtered by unit and side.
UnitsOf(defs, side) ==
    {id \in Ids(defs) : IsUnit(defs, id) /\ getEntity(defs, id).side = side}
UnitsBySide == [r \in DOMAIN Recordings |-> [pb \in BOOLEAN |-> [s \in Sides |->
    UnitsOf(Loaded[r][pb].entities, s)]]]
SideUnits == UnitsBySide[visit.rec][visit.pb]

\* getUnitStatus and aliveCount of the units' tab.
unitStatus(id) ==
    CASE Alive(id) -> "alive"
      [] ~Alive(id) /\ Counts[id].deaths > 0 -> "dead"
      [] OTHER -> "inactive"
aliveCount(ids) == Cardinality({id \in ids : unitStatus(id) = "alive"})

\* sideStats of the statistics, for the units of a side.
sideStats(units, counts) ==
    LET sum(f) == Total(units, [id \in units |-> counts[id][f]])
    IN  [alive |-> Cardinality({id \in units : Alive(id)}),
         kills |-> sum("kills"), deaths |-> sum("deaths"), team |-> sum("team")]

\* leaderboard: the players who killed or were killed.
leaderboard(defs, counts) ==
    {p \in PlayersOf(defs) : /\ IsUnit(defs, p)
                             /\ counts[p].kills + counts[p].deaths + counts[p].vehicles > 0}

\* forceStats of the top bar, which counts crewed vehicles too.
forceStats(side) ==
    LET there == {id \in DOMAIN play.snaps : play.snaps[id].side = side}
    IN  [total |-> Cardinality(there), alive |-> Cardinality({id \in there : Alive(id)})]

-----------------------------------------------------------------------------
(* View settings and the map.                                               *)

\* The layers the panel lists.
LayerItems == Toggled \cup {"grid"} \cup (IF visit.maplibre THEN GLLayers ELSE {})

Setting(w) ==
    /\ visit.panel = "view" /\ Click
    /\ view' = w
    /\ UNCHANGED <<visit, play, mgr, panel, flights>>

toggleLayer == \E l \in LayerItems : Setting(SetLayerVisible(view, l, l \notin view.vis))
ChooseNames == \E mode \in NameModes \ {view.names} : Setting(SetNameDisplayMode(view, mode))
ChooseMarkers == \E mode \in MarkerModes \ {view.mode} :
    Setting(SetMarkerDisplayMode(view, mode))
ToggleLabels == Setting(SetProjectileLabels(view, ~view.labels))
ChooseStyle == \E index \in Styles : Setting(SetMapStyle(view, index))
ZoomMap == Setting(Zoom(view, ~view.far))

FirstStyle ==
    /\ view.maplibre /\ ~view.ready
    /\ \E saved \in Styles : view' = StyleReady(view, saved)
    /\ UNCHANGED <<visit, play, mgr, panel, flights, clicks>>

NextStyle ==
    /\ \E index \in view.fetching :
            view' = StyleArrives(view, index) \/ view' = StyleFails(view, index)
    /\ UNCHANGED <<visit, play, mgr, panel, flights, clicks>>

\* onCleanup: the markers, the engine's entities and the map go.
Leave ==
    /\ left' = TRUE
    /\ LET r == clearMarkers([m |-> mgr, w |-> view])
       IN  mgr' = r.m /\ view' = [r.w EXCEPT !.ents = <<>>, !.lines = {}]
    /\ play' = [play EXCEPT !.playing = FALSE, !.snaps = <<>>]
    /\ UNCHANGED <<visit, panel, flights, clicks>>

Stay ==
    \/ Tick \/ TickAtEnd \/ ChunkArrives \/ Render \/ TogglePlay \/ SeekTo
    \/ ClickEvent \/ SetFilter
    \/ SelectSide \/ toggleGroup \/ SelectUnit \/ toggleBlacklist
    \/ ToggleAnswers \/ BlacklistArrives
    \/ toggleLayer \/ ChooseNames \/ ChooseMarkers \/ ToggleLabels \/ ChooseStyle \/ ZoomMap
    \/ FirstStyle \/ NextStyle

Next == ~left /\ ((Stay /\ UNCHANGED left) \/ Leave)

Spec == Init /\ [][Next]_vars

-----------------------------------------------------------------------------
(* Properties.                                                              *)

\* The markers the manager has of a definition, and what it would be if no
\* position were without alpha.
AsRead(def) ==
    [def EXCEPT !.positions = [i \in DOMAIN def.positions |-> parseMarkerPosition(def.positions[i])]]
Opaque(raw, def) ==
    LET seen(i) == IF raw.positions[i].alpha = None THEN [def.positions[i] EXCEPT !.alpha = 1]
                   ELSE def.positions[i]
    IN  [def EXCEPT !.positions = [i \in DOMAIN def.positions |-> seen(i)]]

\* Every marker that has positions is in both, the same but for the alpha of a
\* position that is written without one, and nothing else is in the JSON's. The
\* other streamed markers are never on the map.
MarkersAlike(raw, streamed, read) ==
    LET same(i, k) == AsRead(read[k]) = Opaque(raw.markers[i], AsRead(streamed[i]))
        known == {i \in DOMAIN streamed : FramesFirst(raw.markers[i])}
    IN  /\ \A i \in known : IF raw.markers[i].placed THEN \E k \in DOMAIN read : same(i, k)
                            ELSE streamed[i].positions = <<>>
        /\ known = DOMAIN streamed => \A k \in DOMAIN read : \E i \in known : same(i, k)

\* A streamed recording shows what the same recording loaded as JSON shows: in
\* every frame whose chunk is at hand the same entities in the same state
\* (frames of a chunk's edge, of an entity that comes late or goes early and of
\* a range included). Its events are the same, one by one, where they are written
\* in the way both understand, and of the same type and frame everywhere; its
\* markers are the same where they are written with positions that begin with
\* their frame, but for an alpha that is not written.
DecodersAgree ==
    (visit.pb /\ ~left) =>
        /\ play.frame \div ChunkSize \in play.here =>
                play.snaps = Snapshots[visit.rec][FALSE][play.frame][FALSE]
        /\ EventsAlike(Recordings[visit.rec], Rec.events, Json[visit.rec].events)
        /\ MarkersAlike(Recordings[visit.rec], Rec.markers, Json[visit.rec].markers)

\* What is told of a bar: some of what is in it, no victim twice, and nothing
\* only where all of it happened in the last frame, for the upper edge of
\* hoverEvents is left out and the one of heatmapData is not.
ToldOf(told, bar, end) ==
    /\ \A k \in DOMAIN told :
        /\ told[k] \in bar
        /\ \A l \in 1 .. k - 1 : (Kind(told[k]) # "other" /\ Kind(told[l]) = Kind(told[k]))
                                    => told[k].victim # told[l].victim
    /\ told = <<>> => \A ev \in bar : ev.frame = end

\* The timeline stands for the events of a range it may be narrowed to: each is
\* in one bar, and hovering over the range tells what is in the bars.
TimelineOf(events, start, end) ==
    LET all == {n \in DOMAIN events : events[n].frame \in start .. end}
        inBar(f) == {events[n] : n \in {m \in all :
            BucketOf(events[m].frame, start, end - start) = BucketOf(f, start, end - start)}}
        bars == heatmapData(events, start, end)
        kinds == Buckets \X (HitTypes \cup {"other"})
    IN  /\ Total(kinds, [b \in kinds |-> bars[b[1]][b[2]]]) = Cardinality(all)
        /\ \A f \in start .. end : ToldOf(hoverEvents(events, f, start, end), inBar(f), end)

TimelineAgrees == [r \in DOMAIN Recordings |-> [pb \in BOOLEAN |->
    \A start, end \in 0 .. Recordings[r].end :
        start < end => TimelineOf(Loaded[r][pb].events, start, end)]]

\* The panels over the events so far, with their two counts of kills.
TabsAgreeOn(rec, so, score, counts) ==
    LET killed == {i \in DOMAIN so : so[i].type = "killed"}
        stats == [s \in Sides |-> sideStats(SideUnits[s], counts)]
        counted == {i \in killed : /\ IsUnit(rec.entities, so[i].victim)
                                   /\ IsUnit(rec.entities, so[i].causer)
                                   /\ so[i].victim # so[i].causer}
    IN  /\ Cardinality(killed) = Cardinality(KillTicks(rec.events, 0, play.frame))
        /\ \A s \in Sides : \A id \in SideUnits[s] :
                score[id] = counts[id].kills - 2 * counts[id].team
        /\ Total(Sides, [s \in Sides |-> stats[s].kills]) = Cardinality(counted)
        /\ {so[i].victim : i \in killed} \cap PlayersOf(rec.entities)
                \subseteq leaderboard(rec.entities, counts)
        /\ \A s \in Sides :
                /\ aliveCount(Listed(s)) <= stats[s].alive
                /\ KeepsSides(Recordings[visit.rec]) => stats[s].alive <= forceStats(s).alive
                /\ stats[s].team <= stats[s].kills

\* The two ways kills are counted agree: the score written into the events by
\* resolveReferences, in the order of the list, and the counts of the panels,
\* by frame. The sides' kills are all kills among units, a player's death puts
\* them on the leaderboard, and the units' tab, which lists a player who
\* respawned once, has no more units alive than the statistics, nor these than
\* the top bar where units never change sides. The timeline counts the same.
TabsAgree ==
    ~left => /\ TimelineAgrees[visit.rec][visit.pb]
             /\ TabsAgreeOn(Rec, getActiveEvents(Rec.events, play.frame),
                            ScoreAt[visit.rec][visit.pb][play.frame], Counts)

\* What a marker is to show in a frame, said without searching or remembering.
Shows(t, frame) ==
    /\ t.def.positions # <<>>
    /\ frame >= t.def.start
    /\ t.def.end = Forever \/ frame <= t.def.end
    /\ matchesSideFilter(mgr, t) /\ ~isBlacklisted(mgr, t)
Before(t, frame) == {i \in DOMAIN t.def.positions : t.def.positions[i].frame <= frame}

\* Whichever way a frame is reached, forwards, backwards or by a jump, the
\* markers are the ones of this frame, each at its last position so far; and
\* what moves while playback is paused does not glide.
PictureOfFrame ==
    /\ \A i \in DOMAIN mgr.tracked :
        LET t == mgr.tracked[i]
        IN  /\ t.handle # 0 <=> Shows(t, play.frame)
            /\ t.handle # 0 => \E last \in Before(t, play.frame) :
                    /\ \A j \in Before(t, play.frame) : j <= last
                    /\ view.icons[t.handle].at = PlaceAt(t, last, play.frame)
    /\ (view.canvas /\ ~play.playing /\ play.frame # Rec.end) =>
            \A id \in DOMAIN view.ents : view.ents[id].settled
MarkersFollowFrame == [][play'.frame # play.frame => PictureOfFrame']_vars

\* Nothing of a blacklisted player or of another side is on the map, whatever
\* is clicked or answered in which order, and nothing is left there that the
\* manager has lost track of (in the end: nothing at all).
NoHiddenMarker ==
    LET handles(i) == mgr.tracked[i].handle
        onMap == {i \in DOMAIN mgr.tracked : handles(i) # 0}
    IN  /\ \A i \in onMap : /\ matchesSideFilter(mgr, mgr.tracked[i])
                            /\ ~isBlacklisted(mgr, mgr.tracked[i])
        /\ DOMAIN view.icons = {handles(i) : i \in onMap}
        /\ \A i, j \in onMap : handles(i) = handles(j) => i = j

\* The renderer stands for the snapshots: the same entities, each as it is in
\* this frame, the lines of who fires in it, and no others.
EntitiesAreSnapshots ==
    /\ DOMAIN view.ents = DOMAIN play.snaps
    /\ \A id \in DOMAIN play.snaps :
            view.ents[id].body = Body(play.snaps[id], id \in HitIn(Rec.events, play.frame))
    /\ view.lines = UNION {{[from |-> id, to |-> p] : p \in play.snaps[id].fired} :
                            id \in DOMAIN play.snaps}

\* The groups on the map are the ones that are ticked, names are hidden by the
\* rule of the mode and the zoom, texts of briefing markers are seen in mode "all"
\* alone, those of projectiles where they are on, and of MapLibre's layers those
\* that are not on the map are hidden.
SettingsObeyed ==
    /\ \A l \in Toggled \cup {"grid"} : l \in view.onMap <=> l \in view.vis
    /\ "briefingMarkers" \in view.onMap <=> view.mode # "none"
    /\ ~view.canvas => \A id \in DOMAIN view.ents :
            view.ents[id].popup.element =>
                view.ents[id].popup.hidden = NameHidden(view, view.ents[id].body)
    /\ \A h \in DOMAIN view.icons :
            LET icon == view.icons[h]
            IN  /\ (icon.group = "briefingMarkers" /\ icon.text /\ icon.form # "shape") =>
                        (icon.open <=> view.mode = "all")
                /\ (icon.group = "projectileMarkers" /\ icon.text /\ icon.form = "icon") =>
                        /\ (view.labels /\ icon.group \in view.onMap) => icon.open
                        /\ icon.group \notin view.onMap => ~icon.open
    /\ view.ready => \A l \in GLLayers : l \in view.hidden <=> l \notin view.onMap

\* What a step does to MapLibre's layers, which the first style puts on the map,
\* ticked or not, and from then on only their own switch moves; and to the names of
\* entities, which are open from when the entity comes until its layer goes off the
\* map, and never again.
SwitchedAlone ==
    /\ \A l \in GLLayers :
            l \in view'.onMap <=>
                IF (l \in view'.vis) # (l \in view.vis) THEN view'.ready /\ l \in view'.vis
                ELSE l \in view.onMap \/ (view'.ready /\ ~view.ready)
    /\ ~view.canvas => \A id \in DOMAIN view'.ents :
            view'.ents[id].popup.open <=>
                /\ "entities" \in view'.onMap
                /\ id \in DOMAIN view.ents => view.ents[id].popup.open

\* The map obeys the settings after any sequence of them, with markers, entities
\* and styles coming and going in between, but for two things: one of MapLibre's
\* layers that was switched off before the first style is on the map until it is
\* switched again, and names that went with the entities' layer do not come back
\* with it.
SettingsShown == SettingsObeyed /\ [][SettingsObeyed' /\ SwitchedAlone]_vars
=============================================================================
