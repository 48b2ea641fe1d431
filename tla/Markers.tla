------------------------------ MODULE Markers ------------------------------
(***************************************************************************)
(* The briefing markers of a recording, and what of them is on the map:    *)
(* playback/markerManager.ts. An operator takes the manager m and the      *)
(* renderer's state w and gives both back as [m, w].                       *)
(*                                                                         *)
(* m = [tracked: Seq, side: the side filter, black: the blacklist]; a      *)
(* tracked marker is [def, group, text, handle (0: none), last, interp,    *)
(* style].                                                                 *)
(***************************************************************************)
EXTENDS Recording, MapView

-----------------------------------------------------------------------------
\* Mutant: a position is taken a frame late.
MutFindPositionIndex(positions, frame, start, end) ==
    IF positions = <<>> \/ frame < start \/ (end # Forever /\ frame > end) THEN 0
    ELSE LET before == {i \in DOMAIN positions : positions[i].frame < frame}
         IN  IF before = {} THEN 1 ELSE CHOOSE i \in before : \A j \in before : j <= i

\* One turn of the bisection.
Halve(positions, frame, range) ==
    LET mid == (range[2] - range[1]) \div 2 + range[1]
    IN  IF positions[mid].frame > frame THEN <<range[1], mid - 1>> ELSE <<mid, range[2]>>

\* findPositionIndex: 0 where the code says -1, else the last position at or
\* before the frame. A turn makes the range shorter or leaves it as it is from
\* then on: there are never more turns than positions.
findPositionIndex(positions, frame, start, end) ==
    LET n == Len(positions)
        range[k \in 0 .. n] ==
            IF k = 0 THEN <<1, n>> ELSE Halve(positions, frame, range[k - 1])
        lo == range[n][1]
        hi == range[n][2]
    IN  IF n = 0 \/ frame < start \/ (end # Forever /\ frame > end) THEN 0
        ELSE IF positions[hi].frame <= frame THEN hi ELSE lo

SystemTypes == {"ObjectMarker", "moduleCoverMap", "safeStart"}
ProjectileTypes == {"Minefield", "mil_triangle", "magIcons"}

classifyMarkerLayer(def) ==
    CASE def.shape = "ICON" /\ def.player = -1 /\ def.type \in SystemTypes -> "systemMarkers"
      [] def.shape = "ICON" /\ def.side = "GLOBAL" /\ def.type \in ProjectileTypes ->
            "projectileMarkers"
      [] OTHER -> "briefingMarkers"

\* buildMarkerPopupText, whether it gives any text: the names of the side and of
\* the player are put before the marker's own, but not on every marker. None of
\* the texts names a terminal or a sector.
HasPopupText(def) ==
    LET silent == def.side = "GLOBAL" /\ def.type \in SystemTypes
        named == def.side # "GLOBAL" \/ def.type \in ProjectileTypes
    IN  /\ def.shape = "ICON"
        /\ IF def.player = -1 THEN def.text ELSE ~silent /\ (named \/ def.text)

\* A marker as it is loaded: not on the map.
Tracked(def) ==
    [def |-> def, group |-> classifyMarkerLayer(def), text |-> HasPopupText(def),
     style |-> def.type, handle |-> 0, last |-> 0, interp |-> -1]

\* loadMarkers: zone triggers and empty markers without a text are never shown.
loadMarkers(defs) ==
    LET wanted(def) == def.type # "zoneTrigger" /\ (def.type = "Empty" => def.text)
        loaded[i \in 0 .. Len(defs)] ==
            IF i = 0 THEN <<>>
            ELSE IF wanted(defs[i]) THEN Append(loaded[i - 1], Tracked(defs[i]))
            ELSE loaded[i - 1]
    IN  loaded[Len(defs)]

matchesSideFilter(m, t) == m.side = None \/ t.def.side \in {m.side, "GLOBAL"}
isBlacklisted(m, t) == t.def.player # -1 /\ t.def.player \in m.black

-----------------------------------------------------------------------------
\* Those of the markers that are on the map go off it, and are to be made anew.
Hide(r, hidden) ==
    LET gone == {i \in hidden : r.m.tracked[i].handle # 0}
        off(t) == [t EXCEPT !.handle = 0, !.last = 0, !.interp = -1]
    IN  [m |-> [r.m EXCEPT !.tracked = [i \in DOMAIN @ |->
                    IF i \in gone THEN off(@[i]) ELSE @[i]]],
         w |-> RemoveBriefingMarkers(r.w, {r.m.tracked[i].handle : i \in gone})]

\* setSideFilter, which shows nothing again: that waits for the next frame.
setSideFilter(r, side) ==
    LET m == [r.m EXCEPT !.side = side]
    IN  Hide([r EXCEPT !.m = m],
             {i \in DOMAIN m.tracked : ~matchesSideFilter(m, m.tracked[i])})

\* Mutant: the markers on the map stay.
MutSetBlacklist(r, players) == [r EXCEPT !.m.black = players]

\* setBlacklist
setBlacklist(r, players) ==
    LET m == [r.m EXCEPT !.black = players]
    IN  Hide([r EXCEPT !.m = m],
             {i \in DOMAIN m.tracked : isBlacklisted(m, m.tracked[i])})

\* getMarkerCountsByPlayer
getMarkerCountsByPlayer(m) ==
    [p \in {m.tracked[i].def.player : i \in DOMAIN m.tracked} \ {-1} |->
        Cardinality({i \in DOMAIN m.tracked : m.tracked[i].def.player = p})]

\* Where a projectile is drawn between two of its positions.
Interpolates(t, index) ==
    t.group = "projectileMarkers" /\ index < Len(t.def.positions)

\* parseMarkerPosition: a position without alpha is opaque.
parseMarkerPosition(p) == [p EXCEPT !.alpha = IF @ = None THEN 1 ELSE @]

\* The place of a marker: its key position with its alpha, and for an interpolated
\* one how far the frame is from it (lerpMarkerPosition; the style is not
\* interpolated).
PlaceAt(t, index, frame) ==
    LET key == parseMarkerPosition(t.def.positions[index])
    IN  <<index, key.alpha, IF Interpolates(t, index) THEN frame - key.frame ELSE 0>>

\* A marker that is on the map in this frame: nothing if it is up to date; a
\* style other than the last one makes it anew. A style outlives its position.
Show(r, i, index, frame) ==
    LET t == r.m.tracked[i]
        moving == Interpolates(t, index)
        style == IF moving \/ t.def.positions[index].style = None THEN t.style
                 ELSE t.def.positions[index].style
        gone == IF style # t.style /\ t.handle # 0
                THEN RemoveBriefingMarkers(r.w, {t.handle}) ELSE r.w
        made == CreateMarkerOf(gone,
                    [shape |-> t.def.shape, type |-> style, text |-> t.text, group |-> t.group])
        anew == t.handle = 0 \/ style # t.style
        h == IF anew THEN NewHandle(gone) ELSE t.handle
    IN  IF t.handle # 0 /\ index = t.last /\ (~moving \/ frame = t.interp) THEN r
        ELSE [m |-> [r.m EXCEPT !.tracked[i] = [t EXCEPT !.handle = h, !.style = style,
                                                         !.last = index, !.interp = frame]],
              w |-> UpdateBriefingMarker(IF anew THEN made ELSE r.w, h, PlaceAt(t, index, frame))]

\* A marker's turn in updateFrame.
Update(r, i, frame) ==
    LET t == r.m.tracked[i]
        index == findPositionIndex(t.def.positions, frame, t.def.start, t.def.end)
    IN  IF index = 0 \/ isBlacklisted(r.m, t) \/ ~matchesSideFilter(r.m, t)
        THEN Hide(r, {i}) ELSE Show(r, i, index, frame)

updateFrame(r, frame) ==
    LET done[i \in 0 .. Len(r.m.tracked)] ==
            IF i = 0 THEN r ELSE Update(done[i - 1], i, frame)
    IN  done[Len(r.m.tracked)]

\* clear
clearMarkers(r) ==
    [m |-> [r.m EXCEPT !.tracked = <<>>],
     w |-> Hide(r, DOMAIN r.m.tracked).w]
=============================================================================
