------------------------------ MODULE MCScene ------------------------------
(* Instances of Scene: a mission with a unit of each side, a player who      *)
(* respawns, two vehicles and a marker of every kind.                       *)
EXTENDS Scene

Raw(id, unit, class, name, side, start, positions) ==
    [id |-> id, unit |-> unit, class |-> class, name |-> name, group |-> "Alpha",
     side |-> side, player |-> unit /\ name # "ai", start |-> start, fired |-> {},
     positions |-> positions]

On(at) == [at |-> at, alive |-> 1, vehicle |-> 0, crew |-> <<>>, range |-> <<>>, side |-> None]
In(at) == [On(at) EXCEPT !.vehicle = 20]
Dead(at) == [On(at) EXCEPT !.alive = 0]
Car(at, from, to, crew) == [On(at) EXCEPT !.range = <<from, to>>, !.crew = crew]

Units == <<
    [Raw(10, TRUE, "", "ann", "WEST", 0, <<On(1), In(1), In(2), On(9), On(9), On(9)>>)
        EXCEPT !.fired = {[frame |-> 3, to |-> 5]}],
    Raw(11, TRUE, "", "bob", "EAST", 0, <<On(5), On(5), Dead(5)>>),
    Raw(12, TRUE, "", "bob", "EAST", 3, <<On(6), [On(6) EXCEPT !.side = "EAST"], On(7)>>),
    [Raw(13, TRUE, "", "ai", "INDEPENDENT", 1, <<On(4), On(4)>>) EXCEPT !.group = "Bravo"],
    Raw(20, FALSE, "sea", "boat", "", 1, <<Car(1, 1, 2, <<10>>), Car(2, 3, 4, <<>>)>>),
    Raw(21, FALSE, "shed", "shed", "", 2, <<>>)>>

Event(frame, type, args) == [frame |-> frame, type |-> type, args |-> args, listed |-> TRUE]

Happened == <<
    Event(1, "connected", <<"ann">>),
    Event(1, "hit", <<11, 10>>),
    Event(2, "killed", <<11, 10>>),
    Event(2, "counterSet", <<3, 4>>),
    Event(3, "killed", <<20, 12>>),
    Event(3, "captured", <<"sector", "ann", "WEST", 4>>),
    Event(3, "capturedFlag", <<"ann", "WEST", 4>>),
    Event(4, "killed", <<12, 11>>),
    Event(4, "terminalHackStarted", <<"ann", "red">>),
    Event(5, "killed", <<10, 10>>),
    Event(5, "rained", <<>>),
    Event(5, "endMission", <<"WEST", "won">>)>>

\* The source first, and a mission that ends with a message.
OtherWords == <<
    [Event(1, "hit", <<10, 11>>) EXCEPT !.listed = FALSE],
    [Event(2, "killed", <<10, 11>>) EXCEPT !.listed = FALSE],
    Event(3, "killed", <<20, 12>>),
    Event(4, "endMission", <<"won">>),
    [Event(5, "endMission", <<"lost">>) EXCEPT !.listed = FALSE]>>

P(frame) ==
    [form |-> "frame first", frame |-> frame, at |-> frame, style |-> None, alpha |-> 1]
NoAlpha(frame) == [P(frame) EXCEPT !.alpha = None]
Mark(type, text, side, player, start, end, positions) ==
    [shape |-> "ICON", type |-> type, text |-> text, side |-> side, player |-> player,
     start |-> start, end |-> end, placed |-> TRUE, positions |-> positions]

Marks == <<
    Mark("mil_dot", TRUE, 1, 10, 1, 4, <<P(0), [P(3) EXCEPT !.style = "mil_flag"], P(4)>>),
    Mark("mil_dot", FALSE, 0, 11, 0, -1, <<P(0), NoAlpha(2)>>),
    Mark("Minefield", TRUE, -1, 10, 2, 5, <<P(2), P(5)>>),
    Mark("Empty", TRUE, -1, -1, 0, -1, <<P(0)>>),
    Mark("ObjectMarker", TRUE, -1, -1, 1, 3, <<P(1)>>),
    [Mark("border", FALSE, -1, -1, 0, 2, <<P(0), P(1)>>) EXCEPT !.shape = "RECTANGLE"],
    Mark("zoneTrigger", FALSE, -1, -1, 0, -1, <<P(0)>>)>>

\* Positions that only the server understands, and a marker without any.
OtherMarks == <<
    Mark("mil_dot", TRUE, 1, 10, 0, -1, <<[P(1) EXCEPT !.form = "place only"],
                                          [NoAlpha(2) EXCEPT !.form = "place first"], P(4)>>),
    [Mark("mil_dot", TRUE, 0, 11, 0, -1, <<>>) EXCEPT !.placed = FALSE],
    Marks[2], Marks[3]>>

Mission == [end |-> 5, entities |-> Units, events |-> Happened, markers |-> Marks]

\* The same entities without much on the map, and a last chunk that is short.
Skirmish == [end |-> 4, entities |-> SubSeq(Units, 1, 5), events |-> SubSeq(Happened, 2, 5),
             markers |-> SubSeq(Marks, 1, 3)]

\* The mission as another program would write it.
Foreign == [Mission EXCEPT !.events = OtherWords, !.markers = OtherMarks]

TheRecordings == [mission |-> Mission, skirmish |-> Skirmish, foreign |-> Foreign]

V(rec, pb, canvas, maplibre, which) ==
    [rec |-> rec, pb |-> pb, canvas |-> canvas, maplibre |-> maplibre, panel |-> which]

SomeVisits == {
    V("mission", FALSE, FALSE, FALSE, "view"),
    V("skirmish", FALSE, TRUE, TRUE, "view"),
    V("mission", TRUE, FALSE, FALSE, "units"),
    V("mission", FALSE, TRUE, FALSE, "units"),
    V("foreign", TRUE, TRUE, FALSE, "events"),
    V("skirmish", TRUE, FALSE, FALSE, "events")}
=============================================================================
