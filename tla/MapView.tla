------------------------------ MODULE MapView ------------------------------
(***************************************************************************)
(* The map of the playback page: the Leaflet renderer                      *)
(* (renderers/leaflet/leafletRenderer.ts) and the one that draws entities, *)
(* fire lines and projectiles on a canvas instead                          *)
(* (canvasLeafletRenderer.ts, entityCanvasLayer.ts).                       *)
(*                                                                         *)
(* Operators on the state w of a renderer:                                 *)
(*   ents    what stands for each entity: body, as last told; popup of the *)
(*           DOM renderer; from and settled, the tween of the canvas       *)
(*   icons   briefing markers by handle                                    *)
(*   lines   fire lines, from an entity to a place                         *)
(*   signals of the settings: names, mode, labels, vis; and what is on the *)
(*   map: onMap (layer groups), far (too far out for names), style         *)
(*                                                                         *)
(* Leaflet (external): a layer's popup opens only while the layer is on    *)
(* the map, closes when the layer leaves it, and keeps its element.        *)
(*                                                                         *)
(* Abstracted: projection, camera, geometry, icons, text, opacity (but for *)
(* what is not drawn at all), the frame of a zoom animation and the tweens *)
(* of projectiles.                                                         *)
(***************************************************************************)
EXTENDS Integers, Sequences, FiniteSets

CONSTANTS
    Far             \* SKIP_ANIMATION_DISTANCE

Toggled == {"entities", "systemMarkers", "projectileMarkers"}
GLLayers == {"mapIcons", "buildings3D"}
LayerNames == Toggled \cup {"grid"} \cup GLLayers
Groups == Toggled \cup {"briefingMarkers"}

NameModes == {"players", "all", "none"}
MarkerModes == {"all", "noLabels", "none"}
Styles == 0 .. 3

ViewType ==
    [canvas: BOOLEAN,           \* which of the two renderers
     maplibre: BOOLEAN,         \* or raster tiles
     names: NameModes, mode: MarkerModes, labels: BOOLEAN,
     vis: SUBSET LayerNames,    \* layerVisibility
     onMap: SUBSET (Groups \cup LayerNames),
     far: BOOLEAN,              \* hideMarkerPopups
     smoothing: BOOLEAN,
     ready: BOOLEAN,            \* the MapLibre layer is there
     hidden: SUBSET GLLayers,   \* GL layers the style on screen does not show
     active: Styles, shown: Styles,
     fetching: SUBSET Styles]   \* styles on their way, in any order

\* The constructor and init. The layers of MapLibre come with its first style.
NewView(canvas, maplibre) ==
    [canvas |-> canvas, maplibre |-> maplibre, names |-> "players", mode |-> "all",
     labels |-> TRUE, vis |-> Toggled \cup GLLayers, onMap |-> Groups, far |-> TRUE,
     smoothing |-> FALSE, ready |-> FALSE, hidden |-> {}, active |-> 0, shown |-> 0,
     fetching |-> {}, ents |-> <<>>, icons |-> <<>>, lines |-> {}]

-----------------------------------------------------------------------------
(* Entities.                                                                *)

\* Whether a name is not to be seen.
NameHidden(w, body) ==
    \/ body.inVehicle
    \/ w.far
    \/ w.names = "none"
    \/ w.names = "players" /\ ~body.player

\* createEntityMarker of the DOM renderer: the popup is opened, and so has an
\* element, if the layer is on the map.
CreateMarker(w, body) ==
    LET on == "entities" \in w.onMap
    IN  [body |-> [body EXCEPT !.inVehicle = FALSE, !.alive = 1, !.hit = FALSE],
         popup |-> [element |-> on, open |-> on, hidden |-> FALSE]]

\* Mutant: whether the unit sits in a vehicle is not kept.
MutUpdateMarker(w, e, body) ==
    [body |-> [body EXCEPT !.inVehicle = e.body.inVehicle],
     popup |-> [e.popup EXCEPT !.hidden = @ \/ NameHidden(w, body)]]

\* updateEntityMarker of the DOM renderer.
UpdateMarker(w, e, body) ==
    [body |-> body,
     popup |-> [e.popup EXCEPT !.hidden = e.popup.element /\ NameHidden(w, body)]]

\* addEntity of the canvas: at its place, where no tween goes on.
AddEntity(body) ==
    [body |-> [body EXCEPT !.inVehicle = FALSE, !.alive = 1, !.hit = FALSE],
     from |-> body.at, settled |-> TRUE]

Distance(a, b) == IF a > b THEN a - b ELSE b - a

\* Where a tween starts: a tween under way is taken at its start.
Start(tween) == IF tween.settled THEN tween.body.at ELSE tween.from

\* updateEntity: no tween over a long way, with smoothing off or out of a
\* vehicle.
UpdateEntity(w, e, body) ==
    LET snap == \/ Distance(body.at, Start(e)) > Far
                \/ ~w.smoothing
                \/ e.body.inVehicle /\ ~body.inVehicle
    IN  [body |-> body, from |-> IF snap THEN body.at ELSE Start(e), settled |-> snap]

CreateEntity(w, body) == IF w.canvas THEN AddEntity(body) ELSE CreateMarker(w, body)

ChangeEntity(w, e, body) ==
    IF w.canvas THEN UpdateEntity(w, e, body) ELSE UpdateMarker(w, e, body)

\* addLine of either renderer, for each place an entity fires at.
FireLines(id, places) == {[from |-> id, to |-> p] : p \in places}

\* refreshPopupVisibility, after the zoom or the mode of the names changed.
RefreshPopups(w) ==
    IF w.canvas THEN w
    ELSE [w EXCEPT !.ents = [id \in DOMAIN @ |->
            [@[id] EXCEPT !.popup.hidden =
                w.ents[id].popup.element /\ NameHidden(w, w.ents[id].body)]]]

\* What the canvas draws of the entities: who, and whose name.
Drawn(w) ==
    IF "entities" \in w.vis
    THEN {[id |-> id, name |-> ~NameHidden(w, w.ents[id].body)] :
            id \in {x \in DOMAIN w.ents : ~w.ents[x].body.inVehicle}}
    ELSE {}

\* A frame of the render loop that ends the tweens of what it draws.
SettleTweens(w) ==
    LET drawn == {d.id : d \in Drawn(w)}
    IN  [w EXCEPT !.ents = [id \in DOMAIN @ |->
            LET e == w.ents[id] IN [e EXCEPT !.settled = e.settled \/ id \in drawn]]]

-----------------------------------------------------------------------------
(* Briefing markers. An icon is                                             *)
(*   [group, form: "icon" | "label" | "shape" | "drawn" (on the canvas),    *)
(*    text, type, at, open: its popup or its label is to be seen]           *)
(* at is the key position and how many frames after it, empty before the    *)
(* first update.                                                            *)

\* The handle a new marker gets, and the marker.
NewHandle(w) == CHOOSE h \in 1 .. Cardinality(DOMAIN w.icons) + 1 :
    /\ h \notin DOMAIN w.icons
    /\ \A g \in 1 .. h - 1 : g \in DOMAIN w.icons

WithIcon(w, icon) ==
    LET h == NewHandle(w)
    IN  [w EXCEPT !.icons = [g \in DOMAIN @ \cup {h} |-> IF g = h THEN icon ELSE @[g]]]

\* createBriefingMarker of the DOM renderer: an icon's popup opens if its group
\* is on the map, a label is hidden unless everything is shown.
CreateBriefingMarker(w, def) ==
    LET on == def.group \in w.onMap
        wanted == IF def.group = "projectileMarkers" THEN w.labels ELSE w.mode = "all"
        form == CASE def.shape # "ICON" -> "shape"
                  [] def.shape = "ICON" /\ def.type = "Empty" /\ def.text -> "label"
                  [] OTHER -> "icon"
        open == CASE form = "shape" -> FALSE
                  [] form = "label" -> on /\ w.mode = "all"
                  [] form = "icon" -> def.text /\ on /\ wanted
    IN  WithIcon(w, [group |-> def.group, form |-> form, text |-> def.text,
                     type |-> def.type, at |-> <<>>, open |-> open])

\* The same of the canvas renderer: projectiles are drawn, with their text or
\* without, and not before they have been put somewhere.
CreateMarkerOf(w, def) ==
    IF w.canvas /\ def.group = "projectileMarkers"
    THEN WithIcon(w, [group |-> def.group, form |-> "drawn", text |-> def.text,
                      type |-> def.type, at |-> <<>>, open |-> FALSE])
    ELSE CreateBriefingMarker(w, def)

UpdateBriefingMarker(w, h, at) == [w EXCEPT !.icons[h].at = at]

\* removeBriefingMarker, for each of these.
RemoveBriefingMarkers(w, hs) == [w EXCEPT !.icons = [h \in DOMAIN @ \ hs |-> @[h]]]

\* The icons that have a text to show.
Texts(w) == {h \in DOMAIN w.icons : w.icons[h].text}

\* Of the icons of a group, these are open and the others are not.
OpenIcons(w, group, open) ==
    [w EXCEPT !.icons = [h \in DOMAIN @ |->
        IF @[h].group = group /\ @[h].form \in {"icon", "label"}
        THEN [@[h] EXCEPT !.open = h \in open] ELSE @[h]]]

\* Leaflet, when a group leaves the map.
CloseGroup(w, group) ==
    LET off == [w EXCEPT !.onMap = @ \ {group}]
    IN  IF group # "entities" THEN OpenIcons(off, group, {})
        ELSE IF w.canvas THEN off
        ELSE [off EXCEPT !.ents = [id \in DOMAIN @ |-> [@[id] EXCEPT !.popup.open = FALSE]]]

\* reopenBriefingMarkerPopups, for the groups that setLayerVisible shows (a
\* label is in none of them): the display mode is not asked, nor are the labels
\* of projectiles.
Reopen(w, group) == OpenIcons(w, group, Texts(w))

-----------------------------------------------------------------------------
(* Settings.                                                                *)

\* The layer groups of MapLibre's own layers; there are none before the first
\* style is there.
ShowGL(w, layer, visible) ==
    IF ~w.ready THEN w
    ELSE IF visible
    THEN [w EXCEPT !.onMap = @ \cup {layer}, !.hidden = @ \ {layer}]
    ELSE [w EXCEPT !.onMap = @ \ {layer}, !.hidden = @ \cup {layer}]

\* setLayerVisible.
SetLayerVisible(w, layer, visible) ==
    LET told == [w EXCEPT !.vis = IF visible THEN @ \cup {layer} ELSE @ \ {layer}]
    IN  CASE layer \in GLLayers -> ShowGL(told, layer, visible)
          [] layer = "grid" -> [told EXCEPT !.onMap = IF visible THEN @ \cup {layer}
                                                      ELSE @ \ {layer}]
          [] layer = "entities" /\ visible -> [told EXCEPT !.onMap = @ \cup {layer}]
          [] layer \in Toggled \ {"entities"} /\ visible /\ layer \notin w.onMap ->
                Reopen([told EXCEPT !.onMap = @ \cup {layer}], layer)
          [] layer \in Toggled /\ ~visible -> CloseGroup(told, layer)
          [] OTHER -> told

SetNameDisplayMode(w, mode) == RefreshPopups([w EXCEPT !.names = mode])

\* zoomend
Zoom(w, far) == RefreshPopups([w EXCEPT !.far = far])

\* Mutant: the markers that come back keep their popups closed.
MutSetMarkerDisplayMode(w, mode) ==
    LET told == [w EXCEPT !.mode = mode]
    IN  IF mode = "none" THEN CloseGroup(told, "briefingMarkers")
        ELSE [told EXCEPT !.onMap = @ \cup {"briefingMarkers"}]

SetMarkerDisplayMode(w, mode) ==
    LET told == [w EXCEPT !.mode = mode]
    IN  IF mode = "none" THEN CloseGroup(told, "briefingMarkers")
        ELSE OpenIcons([told EXCEPT !.onMap = @ \cup {"briefingMarkers"}], "briefingMarkers",
                       IF mode = "all" THEN Texts(w) ELSE {})

\* setProjectileLabelsVisible
SetProjectileLabels(w, visible) ==
    OpenIcons([w EXCEPT !.labels = visible], "projectileMarkers",
              IF visible /\ "projectileMarkers" \in w.onMap THEN Texts(w) ELSE {})

-----------------------------------------------------------------------------
(* Map styles. The raster tiles change at once; a style of MapLibre is      *)
(* fetched, which may fail, and resets what its layers show until they are  *)
(* told again ("styledata"). The world is one that has every style.         *)

\* Mutant: the switch counts the layers from one.
MutSwitchTiles(w, index) == [w EXCEPT !.active = index + 1, !.shown = index + 1]

SwitchTiles(w, index) == [w EXCEPT !.active = index, !.shown = index]

SwitchStyle(w, index) ==
    IF ~w.ready THEN w
    ELSE [w EXCEPT !.active = index, !.fetching = @ \cup {index}]

SetMapStyle(w, index) == IF w.maplibre THEN SwitchStyle(w, index) ELSE SwitchTiles(w, index)

\* The first style, which is the one the visitor chose last: the layer and the two
\* groups for its icons and buildings are added to the map, whatever the settings
\* say by then.
StyleReady(w, saved) ==
    [w EXCEPT !.ready = TRUE, !.onMap = @ \cup GLLayers, !.active = saved, !.shown = saved]

StyleArrives(w, index) ==
    [w EXCEPT !.fetching = @ \ {index}, !.shown = index,
              !.hidden = {l \in GLLayers : l \notin w.onMap}]

\* It stays the active one.
StyleFails(w, index) == [w EXCEPT !.fetching = @ \ {index}]
=============================================================================
