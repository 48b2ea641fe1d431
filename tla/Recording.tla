----------------------------- MODULE Recording -----------------------------
(***************************************************************************)
(* A recording on its two ways to the screen. The extension's JSON is read *)
(* by the browser (data/decoders/jsonDecoder.ts), or converted by the      *)
(* server into a manifest and chunks (internal/storage) that the browser   *)
(* reads (data/decoders/protobufDecoder.ts). From either the engine makes  *)
(* entity snapshots, the list of events and the kill counts of the panels  *)
(* (playback/engine.ts, entityManager.ts, eventManager.ts).                *)
(*                                                                         *)
(* Everything here is a function of the raw recording:                     *)
(*   [end, entities: Seq, events: Seq, markers: Seq]                       *)
(*   entity   [id, unit, class, name, group, side, player, start, fired,   *)
(*             positions: Seq([at, alive, vehicle, crew, range, side])]    *)
(*   event    [frame, type, args, listed]                                  *)
(*   marker   [shape, type, text, side, player, start, end, placed,        *)
(*             positions: Seq([form, frame, at, style, alpha])]            *)
(* A place is a number, 0 the origin of the map; directions, names of      *)
(* weapons, distances and times are left out. An event is listed when what *)
(* it says stands in a list: the parts of an endMission, the causer of a   *)
(* hit or a kill. A marker is placed when its positions are written.       *)
(***************************************************************************)
EXTENDS Integers, Sequences, FiniteSets, SequencesExt, FiniteSetsExt

CONSTANTS
    None,
    ChunkSize       \* frames of a chunk

ASSUME RecordingAssumption == ChunkSize \in Nat \ {0}

Forever == -1       \* FRAME_FOREVER

\* The sum of the natural numbers f[x]: how many pairs <<x, n>> there are.
Total(S, f) == Cardinality(UNION {{x} \X (1 .. f[x]) : x \in S})

\* The elements of s that are in T, in their order.
Those(s, T) ==
    LET upTo[i \in 0 .. Len(s)] ==
            IF i = 0 THEN <<>>
            ELSE IF s[i] \in T THEN Append(upTo[i - 1], s[i]) ELSE upTo[i - 1]
    IN  upTo[Len(s)]

HitTypes == {"hit", "killed"}
CounterTypes == {"respawnTickets", "counterInit", "counterSet"}
HackTypes == {"terminalHackStarted", "terminalHackCanceled"}
NameTypes == {"connected", "disconnected", "generalEvent"}
CaptureTypes == {"captured", "contested"}

\* The two ways a position of a marker begins, and the one that is only a place.
Forms == {"frame first", "place first", "place only"}

-----------------------------------------------------------------------------
(* What the extension writes.                                               *)

\* A state always says who is alive, in two bits.
RawStates ==
    [at : Int, alive : 0 .. 3, vehicle : Nat, crew : Seq(Nat),
     range : {<<>>} \cup (Nat \X Nat), side : STRING \cup {None}]

\* One state per frame, or ranges that follow each other from the first frame.
Consecutive(raw) ==
    LET p == raw.positions
    IN  \/ \A i \in DOMAIN p : p[i].range = <<>>
        \/ \A i \in DOMAIN p :
            /\ p[i].range # <<>> /\ p[i].range[1] <= p[i].range[2]
            /\ p[i].range[1] = IF i = 1 THEN raw.start ELSE p[i - 1].range[2] + 1

\* Units have a state per frame, vehicles neither player nor side.
RawEntities ==
    {raw \in [id : Nat, unit : BOOLEAN, class : STRING, name : STRING, group : STRING,
              side : STRING, player : BOOLEAN, start : Nat, fired : SUBSET [frame : Nat, to : Int],
              positions : Seq(RawStates)] :
        /\ Consecutive(raw)
        /\ raw.unit => \A i \in DOMAIN raw.positions : raw.positions[i].range = <<>>
        /\ ~raw.unit => /\ raw.class # "unit" /\ ~raw.player
                        /\ \A i \in DOMAIN raw.positions : raw.positions[i].side = None}

\* Events come in the order of their frames; the victim of a kill is recorded;
\* nothing is captured at the origin of the map. A marker ends after frame 0.
WellFormed(raw) ==
    LET ids == {raw.entities[i].id : i \in DOMAIN raw.entities}
    IN  /\ raw.end \in Nat
        /\ raw.entities \in Seq(RawEntities)
        /\ \A i, j \in DOMAIN raw.entities :
                raw.entities[i].id = raw.entities[j].id => i = j
        /\ raw.events \in Seq(ToSet(raw.events))
        /\ \A i \in DOMAIN raw.events :
            /\ raw.events[i].frame \in Nat
            /\ raw.events[i].listed \in BOOLEAN /\ Len(raw.events[i].args) \in Nat
            /\ \A j \in 1 .. i - 1 : raw.events[j].frame <= raw.events[i].frame
            /\ raw.events[i].type = "killed" =>
                    /\ raw.events[i].args[1] \in ids
                    /\ ~raw.events[i].listed => raw.events[i].args[2] \in ids
            /\ raw.events[i].type \in CaptureTypes => raw.events[i].args[4] # 0
        /\ \A i \in DOMAIN raw.markers : raw.markers[i].end \in {Forever} \cup (Nat \ {0})

\* Nobody changes sides.
KeepsSides(raw) ==
    \A i \in DOMAIN raw.entities : \A j \in DOMAIN raw.entities[i].positions :
        raw.entities[i].positions[j].side \in {None, raw.entities[i].side}

-----------------------------------------------------------------------------
(* The JSON decoder.                                                        *)

mapEntityType(raw) ==
    CASE raw = "unit" -> "man"
      [] raw = "sea" -> "ship"
      [] raw = "static-weapon" -> "staticWeapon"
      [] raw = "static-mortar" -> "staticMortar"
      [] raw \in {"car", "tank", "apc", "truck", "heli", "plane", "parachute"} -> raw
      [] OTHER -> "unknown"

mapSide(raw) ==
    CASE raw \in {"WEST", "EAST"} -> raw
      [] raw \in {"GUER", "INDEPENDENT"} -> "GUER"
      [] OTHER -> "CIV"

convertUnitPosition(p) ==
    [at |-> p.at, alive |-> p.alive, inVehicle |-> p.vehicle # 0, crew |-> <<>>,
     side |-> IF p.side = None THEN None ELSE mapSide(p.side)]

convertVehiclePosition(p) ==
    [at |-> p.at, alive |-> p.alive, inVehicle |-> FALSE, crew |-> p.crew, side |-> None]

\* One state per frame of the range, or one for an entry without range.
Copies(p) == IF p.range = <<>> THEN 1 ELSE p.range[2] - p.range[1] + 1

\* Mutant: the last frame of a range is left out.
MutExpand(positions) ==
    FlattenSeq([i \in DOMAIN positions |->
        [n \in 1 .. Copies(positions[i]) - 1 |-> convertVehiclePosition(positions[i])]])

Expand(positions) ==
    FlattenSeq([i \in DOMAIN positions |->
        [n \in 1 .. Copies(positions[i]) |-> convertVehiclePosition(positions[i])]])

convertEntity(raw) ==
    LET states == IF raw.unit
                  THEN [i \in DOMAIN raw.positions |-> convertUnitPosition(raw.positions[i])]
                  ELSE Expand(raw.positions)
    IN  [id |-> raw.id, name |-> raw.name, group |-> raw.group, player |-> raw.player,
         type |-> mapEntityType(IF raw.unit THEN "unit" ELSE raw.class),
         side |-> mapSide(raw.side), start |-> raw.start, positions |-> states,
         end |-> IF states = <<>> THEN 0 ELSE raw.start + Len(states) - 1,
         fired |-> raw.fired]

\* A part of what an endMission lists; of a text where a list is expected, a letter.
PartOfEnd(raw, i) ==
    LET from == IF raw.listed THEN raw.args ELSE raw.args[1]
    IN  CASE i > Len(from) -> ""
          [] i <= Len(from) /\ raw.listed -> from[i]
          [] OTHER -> SubSeq(from, i, i)

\* Events of an unknown type are dropped. A causer that is not in a list is lost.
convertEvent(raw) ==
    LET a == raw.args
        f == raw.frame
        t == raw.type
    IN  CASE t \in HitTypes ->
                {[frame |-> f, type |-> t, victim |-> a[1],
                  causer |-> IF raw.listed THEN a[2] ELSE 0]}
          [] t \in NameTypes \cup HackTypes -> {[frame |-> f, type |-> t, message |-> a[1]]}
          [] t \in CounterTypes -> {[frame |-> f, type |-> t, data |-> a]}
          [] t = "endMission" ->
                {[frame |-> f, type |-> t,
                  side |-> PartOfEnd(raw, 1), message |-> PartOfEnd(raw, 2)]}
          [] t = "capturedFlag" ->
                {[frame |-> f, type |-> t, unit |-> a[1], object |-> "flag", at |-> a[3]]}
          [] t \in CaptureTypes ->
                {[frame |-> f, type |-> t,
                  object |-> a[1], unit |-> a[2], side |-> a[3], at |-> a[4]]}
          [] OTHER -> {}

MarkerSides == [i \in -1 .. 3 |-> <<"GLOBAL", "EAST", "WEST", "GUER", "CIV">>[i + 2]]

\* Markers without positions are dropped; positions are kept as they are written.
convertMarker(raw) == IF raw.placed THEN {[raw EXCEPT !.side = MarkerSides[raw.side]]} ELSE {}

\* map(convertEvent).filter(not null)
Kept(sets) == FlattenSeq([i \in DOMAIN sets |-> SetToSeq(sets[i])])

decodeJson(raw) ==
    [end |-> raw.end,
     entities |-> [i \in DOMAIN raw.entities |-> convertEntity(raw.entities[i])],
     events |-> Kept([i \in DOMAIN raw.events |-> convertEvent(raw.events[i])]),
     markers |-> Kept([i \in DOMAIN raw.markers |-> convertMarker(raw.markers[i])])]

-----------------------------------------------------------------------------
(* The converter of the server.                                             *)

calculateEndFrame(raw) ==
    LET n == Len(raw.positions)
    IN  CASE n = 0 -> raw.start
          [] n > 0 /\ raw.positions[n].range # <<>> -> raw.positions[n].range[2]
          [] OTHER -> raw.start + n - 1

\* The states of an entity by frame, ranges expanded.
collectEntityPositions(raw) ==
    LET p == raw.positions
        framesOf(i) == IF p[i].range = <<>> THEN {raw.start + i - 1}
                       ELSE p[i].range[1] .. p[i].range[2]
    IN  [f \in UNION {framesOf(i) : i \in DOMAIN p} |->
            LET i == Max({j \in DOMAIN p : f \in framesOf(j)})
            IN  [at |-> p[i].at, alive |-> p[i].alive, side |-> p[i].side,
                 inVehicle |-> raw.unit /\ p[i].vehicle >= 1,
                 crew |-> IF raw.unit THEN <<>> ELSE p[i].crew]]

ChunkCount(raw) == (raw.end + 1 + ChunkSize - 1) \div ChunkSize

\* The states of a chunk by entity and frame.
assembleChunk(raw, k) ==
    LET bucket == [i \in DOMAIN raw.entities |-> collectEntityPositions(raw.entities[i])]
        from == k * ChunkSize
        to == Min({from + ChunkSize, raw.end + 1}) - 1
    IN  UNION {{[id |-> raw.entities[i].id, frame |-> f, state |-> bucket[i][f]] :
                    f \in DOMAIN bucket[i] \cap (from .. to)} : i \in DOMAIN raw.entities}

\* Fields an event does not have are zero; lists other than the ones named are
\* read by position, so a counter's data is lost. Without a list the source of a
\* hit comes before its target, and a mission ends with a message alone.
parseEventArray(raw) ==
    LET zero == [frame |-> raw.frame, type |-> raw.type, source |-> 0, target |-> 0,
                 message |-> "", object |-> "", unit |-> "", side |-> "", at |-> 0]
        a == raw.args
        whole == raw.listed /\ Len(a) >= 2
    IN  CASE raw.type \in NameTypes -> [zero EXCEPT !.message = a[1]]
          [] raw.type = "endMission" ->
                [zero EXCEPT !.side = IF whole THEN a[1] ELSE "",
                             !.message = IF whole THEN a[2] ELSE a[1]]
          [] raw.type \in CaptureTypes ->
                [zero EXCEPT !.object = a[1], !.unit = a[2], !.side = a[3], !.at = a[4]]
          [] raw.type = "capturedFlag" -> [zero EXCEPT !.object = "flag", !.unit = a[1]]
          [] raw.type \in HackTypes -> [zero EXCEPT !.message = "the parts, joined"]
          [] raw.type \in HitTypes ->
                [zero EXCEPT !.target = IF raw.listed THEN a[1] ELSE a[2],
                             !.source = IF raw.listed THEN a[2] ELSE a[1]]
          [] OTHER -> zero

sideIndexToString(i) ==
    CASE i = 0 -> "EAST" [] i = 1 -> "WEST" [] i = 2 -> "GUER" [] i = 3 -> "CIV"
      [] i = -1 -> "GLOBAL" [] OTHER -> ""

\* parseMarkerPosition: only where the frame comes first there is a style, and a
\* place alone is where the marker is from frame 0. No alpha is alpha 0.
Placed(p) ==
    LET alpha == IF p.alpha = None THEN 0 ELSE p.alpha
    IN  CASE p.form = "frame first" -> [p EXCEPT !.alpha = alpha]
          [] p.form = "place first" ->
                [p EXCEPT !.form = "frame first", !.style = None, !.alpha = alpha]
          [] p.form = "place only" ->
                [p EXCEPT !.form = "frame first", !.frame = 0, !.style = None, !.alpha = 0]

\* "Forever" is 0 in the manifest.
parseMarker(raw) ==
    [raw EXCEPT !.side = sideIndexToString(raw.side),
                !.end = IF raw.end < 0 THEN 0 ELSE raw.end,
                !.positions = [i \in DOMAIN @ |-> Placed(@[i])]]

-----------------------------------------------------------------------------
(* The protobuf decoder.                                                    *)

mapVehicleClass(class) ==
    CASE class = "sea" -> "ship"
      [] class = "static-weapon" -> "staticWeapon"
      [] class = "static-mortar" -> "staticMortar"
      [] class \in {"car", "tank", "apc", "truck", "heli", "plane", "parachute"} -> class
      [] OTHER -> "unknown"

mapSideString(raw) ==
    CASE raw \in {"WEST", "EAST"} -> raw
      [] raw \in {"GUER", "INDEPENDENT"} -> "GUER"
      [] OTHER -> "CIV"

convertEntityDef(raw) ==
    [id |-> raw.id, name |-> raw.name, group |-> raw.group, player |-> raw.player,
     type |-> IF raw.unit THEN "man" ELSE mapVehicleClass(raw.class),
     side |-> mapSideString(raw.side), start |-> raw.start, positions |-> <<>>,
     end |-> calculateEndFrame(raw), fired |-> raw.fired]

\* Two bits of alive are kept.
convertEntityState(pb) ==
    [at |-> pb.at, alive |-> pb.alive % 4, inVehicle |-> pb.inVehicle, crew |-> pb.crew,
     side |-> IF pb.side = None THEN None ELSE mapSideString(pb.side)]

convertPbEvent(pb) ==
    LET place == IF pb.at = 0 THEN None ELSE pb.at
        f == pb.frame
        t == pb.type
    IN  CASE t \in HitTypes ->
                {[frame |-> f, type |-> t, victim |-> pb.target, causer |-> pb.source]}
          [] t \in NameTypes \cup HackTypes -> {[frame |-> f, type |-> t, message |-> pb.message]}
          [] t \in CounterTypes -> {[frame |-> f, type |-> t, data |-> <<>>]}
          [] t = "endMission" ->
                {[frame |-> f, type |-> t, side |-> pb.side, message |-> pb.message]}
          [] t = "capturedFlag" ->
                {[frame |-> f, type |-> t, unit |-> pb.unit, object |-> pb.object, at |-> place]}
          [] t \in CaptureTypes ->
                {[frame |-> f, type |-> t,
                  object |-> pb.object, unit |-> pb.unit, side |-> pb.side, at |-> place]}
          [] OTHER -> {}

\* convertMarkerPosition writes positions as the recording has them, with an alpha.
convertMarkerDef(pb) == [pb EXCEPT !.end = IF pb.end = 0 THEN Forever ELSE pb.end]

decodeManifest(raw) ==
    [end |-> raw.end,
     entities |-> [i \in DOMAIN raw.entities |-> convertEntityDef(raw.entities[i])],
     events |-> Kept([i \in DOMAIN raw.events |->
                        convertPbEvent(parseEventArray(raw.events[i]))]),
     markers |-> [i \in DOMAIN raw.markers |->
                        convertMarkerDef(parseMarker(raw.markers[i]))]]

decodeChunk(chunk) == {[s EXCEPT !.state = convertEntityState(@)] : s \in chunk}

-----------------------------------------------------------------------------
(* What both read alike.                                                    *)

\* Events of which the two readers do not make the same. The server loses the
\* data of counters, puts together the parts of a hack and leaves out where a
\* flag is; the JSON decoder expects a list of two for the end of a mission and a
\* list for who hit or killed.
ReadApart(ev) ==
    \/ ev.type \in CounterTypes \cup HackTypes \cup {"capturedFlag"}
    \/ ev.type = "endMission" /\ (~ev.listed \/ Len(ev.args) < 2)
    \/ ev.type \in HitTypes /\ ~ev.listed

\* Event by event the same type and frame, and what is not the same comes from an
\* event that is read apart.
EventsAlike(raw, streamed, read) ==
    /\ Len(streamed) = Len(read)
    /\ \A n \in DOMAIN streamed :
        /\ streamed[n].frame = read[n].frame /\ streamed[n].type = read[n].type
        /\ streamed[n] # read[n] =>
                \E i \in DOMAIN raw.events :
                    /\ ReadApart(raw.events[i])
                    /\ read[n] \in convertEvent(raw.events[i])
                    /\ streamed[n] \in convertPbEvent(parseEventArray(raw.events[i]))

-----------------------------------------------------------------------------
(* Entities.                                                                *)

Ids(defs) == {defs[i].id : i \in DOMAIN defs}
getEntity(defs, id) == CHOOSE d \in ToSet(defs) : d.id = id
IsUnit(defs, id) == id \in Ids(defs) /\ getEntity(defs, id).type = "man"

\* The crew members that are units, in their order.
UnitCrew(defs, crew) == Those(crew, {id \in ToSet(crew) : IsUnit(defs, id)})

getSideFromCrew(defs, crew) ==
    LET units == UnitCrew(defs, crew)
    IN  IF units = <<>> THEN None ELSE getEntity(defs, Head(units)).side

HasPlayer(defs, crew) ==
    \E id \in ToSet(UnitCrew(defs, crew)) : getEntity(defs, id).player

\* getStateAtFrame: what the entity's own positions say, as a set.
OwnState(d, frame) ==
    IF frame - d.start \in 0 .. Len(d.positions) - 1
    THEN {d.positions[frame - d.start + 1]} ELSE {}

\* computeSnapshots: what is known of the entities that live in this frame,
\* the chunk (a set of states, empty when it is not in memory) first.
computeSnapshots(defs, chunk, frame) ==
    LET stateOf(d) ==
            LET streamed == {s.state : s \in {c \in chunk : c.id = d.id /\ c.frame = frame}}
            IN  IF streamed # {} THEN streamed ELSE OwnState(d, frame)
        shown == {d \in ToSet(defs) : frame \in d.start .. d.end /\ stateOf(d) # {}}
        snapshot(d, s) ==
            [at |-> s.at, alive |-> s.alive, inVehicle |-> s.inVehicle, crew |-> s.crew,
             vehicle |-> d.type # "man",
             side |-> IF d.type # "man" THEN getSideFromCrew(defs, s.crew)
                      ELSE IF s.side = None THEN d.side ELSE s.side,
             player |-> IF d.type # "man" THEN HasPlayer(defs, s.crew) ELSE d.player,
             fired |-> IF d.type = "man" THEN {x.to : x \in {y \in d.fired : y.frame = frame}}
                       ELSE {}]
    IN  [id \in {d.id : d \in shown} |->
            LET d == getEntity(defs, id) IN snapshot(d, CHOOSE s \in stateOf(d) : TRUE)]

\* getBySide: a player who respawned is listed once, by the longest life.
getBySide(defs, side) ==
    LET units == {i \in DOMAIN defs : defs[i].type = "man" /\ defs[i].side = side}
        life(i) == defs[i].end - defs[i].start
        same(i, j) == defs[i].name = defs[j].name /\ defs[i].group = defs[j].group
        best(i) == \A j \in units : same(i, j) =>
                        life(j) < life(i) \/ (life(j) = life(i) /\ i <= j)
    IN  {defs[i].id : i \in {u \in units : defs[u].name = "" \/ best(u)}}

-----------------------------------------------------------------------------
(* Events.                                                                  *)

getActiveEvents(events, frame) == Those(events, {ev \in ToSet(events) : ev.frame <= frame})

\* The units hit in exactly this frame.
HitIn(events, frame) ==
    {ev.victim : ev \in {e \in ToSet(events) : e.frame = frame /\ e.type = "hit"}}

isFriendlyFire(defs, ev) ==
    /\ IsUnit(defs, ev.victim) /\ IsUnit(defs, ev.causer)
    /\ getEntity(defs, ev.victim).side = getEntity(defs, ev.causer).side
    /\ ev.victim # ev.causer

\* resolveReferences, its second pass: the score every causer has after a kill,
\* counted in the order of the list. The last one written is in score.
resolveReferences(defs, events) ==
    LET zero == [id \in Ids(defs) |-> 0]
        count(acc, ev) ==
            LET own == ev.victim = ev.causer
                kills == IF own THEN acc.kills[ev.causer] ELSE acc.kills[ev.causer] + 1
                team == IF isFriendlyFire(defs, ev) THEN acc.team[ev.causer] + 1
                        ELSE acc.team[ev.causer]
            IN  IF ev.type = "killed" /\ IsUnit(defs, ev.victim) /\ IsUnit(defs, ev.causer)
                THEN [kills |-> [acc.kills EXCEPT ![ev.causer] = kills],
                      team |-> [acc.team EXCEPT ![ev.causer] = team],
                      score |-> [acc.score EXCEPT ![ev.causer] = kills - 2 * team]]
                ELSE acc
        after[n \in 0 .. Len(events)] ==
            IF n = 0 THEN [kills |-> zero, team |-> zero, score |-> zero]
            ELSE count(after[n - 1], events[n])
    IN  after[Len(events)]

\* Mutant: a suicide counts as a kill.
MutKillDeathCounts(defs, events, frame) ==
    LET killed == {i \in DOMAIN events : events[i].type = "killed" /\ events[i].frame <= frame}
        vehicle(i) == events[i].victim \in Ids(defs) /\ ~IsUnit(defs, events[i].victim)
        by(id) == {i \in killed : events[i].causer = id}
    IN  [id \in Ids(defs) |->
            [kills |-> Cardinality({i \in by(id) : ~vehicle(i)}),
             vehicles |-> Cardinality({i \in by(id) : vehicle(i)}),
             team |-> Cardinality({i \in by(id) : isFriendlyFire(defs, events[i])}),
             deaths |-> Cardinality({i \in killed : events[i].victim = id /\ ~vehicle(i)})]]

\* getKillDeathCounts: the counts the panels show at a frame.
getKillDeathCounts(defs, events, frame) ==
    LET killed == {i \in DOMAIN events : events[i].type = "killed" /\ events[i].frame <= frame}
        vehicle(i) == events[i].victim \in Ids(defs) /\ ~IsUnit(defs, events[i].victim)
        own(i) == events[i].victim = events[i].causer
        by(id) == {i \in killed : events[i].causer = id /\ ~own(i)}
    IN  [id \in Ids(defs) |->
            [kills |-> Cardinality({i \in by(id) : ~vehicle(i)}),
             vehicles |-> Cardinality({i \in by(id) : vehicle(i)}),
             team |-> Cardinality({i \in by(id) : isFriendlyFire(defs, events[i])}),
             deaths |-> Cardinality({i \in killed : events[i].victim = id /\ ~vehicle(i)})]]
=============================================================================
