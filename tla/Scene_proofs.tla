---------------------------- MODULE Scene_proofs ----------------------------
(***************************************************************************)
(* Proofs about what is on the screen, for every recording the extension   *)
(* writes, every visit and any number of clicks. The inductive invariant   *)
(* has a part for the renderer (ViewOK: its layers, entities and icons     *)
(* obey the settings), one for the markers (MapOK: the icons on the map    *)
(* are those of the tracked markers, each where its last update put it),   *)
(* and ties the snapshots to the entities. One lemma per operator of the   *)
(* renderer and of the marker manager says what it leaves of these; the    *)
(* loop over the markers and the bisection are inductions over their       *)
(* turns, by the least turn for which the claim is false.                  *)
(***************************************************************************)
EXTENDS Scene, Recording_proofs

-----------------------------------------------------------------------------
(* The renderer                                                             *)

Icons(icon) ==
    [group: {icon.group}, form: {"icon", "label", "shape", "drawn"}, text: {icon.text},
     type: {icon.type}, at: {icon.at}, open: {icon.open}]

Views(w) ==
    [canvas: BOOLEAN, maplibre: BOOLEAN, names: NameModes, mode: MarkerModes, labels: BOOLEAN,
     vis: SUBSET LayerNames, onMap: SUBSET (Groups \cup LayerNames), far: BOOLEAN,
     smoothing: BOOLEAN, ready: BOOLEAN, hidden: SUBSET GLLayers, active: Styles,
     shown: Styles, fetching: SUBSET Styles,
     ents: {w.ents}, icons: {w.icons}, lines: {w.lines}]

Popups == [element: BOOLEAN, open: BOOLEAN, hidden: BOOLEAN]
DomMarkers(e) == [body: {e.body}, popup: Popups]
Tweens(e) == [body: {e.body}, from: {e.from}, settled: {e.settled}]

EntOK(w, e) ==
    IF w.canvas THEN e \in Tweens(e)
    ELSE e \in DomMarkers(e) /\ (e.popup.element => e.popup.hidden = NameHidden(w, e.body))

IconShown(w, icon) ==
    /\ icon.form = "drawn" => icon.group = "projectileMarkers"
    /\ (icon.group = "briefingMarkers" /\ icon.text /\ icon.form # "shape") =>
            (icon.open <=> w.mode = "all")
    /\ (icon.group = "projectileMarkers" /\ icon.text /\ icon.form = "icon") =>
            /\ (w.labels /\ icon.group \in w.onMap) => icon.open
            /\ icon.group \notin w.onMap => ~icon.open

IconOK(w, icon) == icon \in Icons(icon) /\ IconShown(w, icon)

LayersOK(w) ==
    /\ \A l \in Toggled \cup {"grid"} : l \in w.onMap <=> l \in w.vis
    /\ "briefingMarkers" \in w.onMap <=> w.mode # "none"
    /\ w.ready => \A l \in GLLayers : l \in w.hidden <=> l \notin w.onMap
    /\ ~w.ready => w.hidden = {} /\ w.fetching = {}

ViewOK(w) ==
    /\ w \in Views(w)
    /\ LayersOK(w)
    /\ \A id \in DOMAIN w.ents : EntOK(w, w.ents[id])
    /\ \A h \in DOMAIN w.icons : IconOK(w, w.icons[h])

\* v is w but for its icons.
SameButIcons(w, v) == w \in Views(w) /\ v = [w EXCEPT !.icons = v.icons]

\* v is w but for which icons and popups are open and for the layers' signals:
\* the same icons and entities are there, at the same places.
SameThings(w, v) ==
    /\ v.canvas = w.canvas /\ v.maplibre = w.maplibre /\ v.smoothing = w.smoothing
    /\ v.lines = w.lines
    /\ DOMAIN v.ents = DOMAIN w.ents
    /\ \A id \in DOMAIN w.ents : v.ents[id].body = w.ents[id].body
    /\ DOMAIN v.icons = DOMAIN w.icons
    /\ \A h \in DOMAIN w.icons : v.icons[h].at = w.icons[h].at

-----------------------------------------------------------------------------
(* Settings                                                                 *)

\* OpenIcons changes no more of an icon than whether it is open.
LEMMA OpenIconsIs ==
    ASSUME NEW w, w \in Views(w), NEW group, NEW open,
           \A h \in DOMAIN w.icons : w.icons[h] \in Icons(w.icons[h])
    PROVE  LET v == OpenIcons(w, group, open)
           IN  /\ v = [w EXCEPT !.icons = v.icons]
               /\ DOMAIN v.icons = DOMAIN w.icons
               /\ \A h \in DOMAIN w.icons :
                    /\ v.icons[h] \in Icons(v.icons[h])
                    /\ v.icons[h].at = w.icons[h].at
                    /\ v.icons[h].group = w.icons[h].group
                    /\ v.icons[h].form = w.icons[h].form
                    /\ v.icons[h].text = w.icons[h].text
                    /\ (w.icons[h].group = group /\ w.icons[h].form \in {"icon", "label"}) =>
                            (v.icons[h].open <=> h \in open)
                    /\ ~(w.icons[h].group = group /\ w.icons[h].form \in {"icon", "label"}) =>
                            v.icons[h] = w.icons[h]
<1> DEFINE v == OpenIcons(w, group, open)
<1>1. v.icons = [h \in DOMAIN w.icons |->
                    IF w.icons[h].group = group /\ w.icons[h].form \in {"icon", "label"}
                    THEN [w.icons[h] EXCEPT !.open = h \in open] ELSE w.icons[h]]
  BY DEF OpenIcons, Views
<1>2. v = [w EXCEPT !.icons = v.icons]
  BY DEF OpenIcons, Views
<1>3. ASSUME NEW h \in DOMAIN w.icons,
             w.icons[h].group = group, w.icons[h].form \in {"icon", "label"}
      PROVE  /\ v.icons[h] \in Icons(v.icons[h])
             /\ v.icons[h].at = w.icons[h].at
             /\ v.icons[h].group = w.icons[h].group
             /\ v.icons[h].form = w.icons[h].form
             /\ v.icons[h].text = w.icons[h].text
             /\ v.icons[h].open <=> h \in open
  <2> HIDE DEF v
  <2> DEFINE icon == w.icons[h]
  <2>1. v.icons[h] = [icon EXCEPT !.open = h \in open]
    BY <1>1, <1>3
  <2>2. icon \in Icons(icon)
    OBVIOUS
  <2> HIDE DEF icon
  <2> DEFINE yes == h \in open
  <2>3. yes \in BOOLEAN
    OBVIOUS
  <2>4. v.icons[h] = [icon EXCEPT !.open = yes]
    BY <2>1
  <2> HIDE DEF yes
  <2>5. /\ v.icons[h] \in Icons(v.icons[h])
        /\ v.icons[h].at = icon.at
        /\ v.icons[h].group = icon.group
        /\ v.icons[h].form = icon.form
        /\ v.icons[h].text = icon.text
        /\ v.icons[h].open = yes
    BY <2>2, <2>3, <2>4 DEF Icons
  <2> QED
    BY <2>3, <2>5 DEF icon, yes
<1>4. ASSUME NEW h \in DOMAIN w.icons,
             ~(w.icons[h].group = group /\ w.icons[h].form \in {"icon", "label"})
      PROVE  v.icons[h] = w.icons[h]
  <2> HIDE DEF v
  <2> QED
    BY <1>1, <1>4
<1>5. DOMAIN v.icons = DOMAIN w.icons
  <2> HIDE DEF v
  <2> QED
    BY <1>1
<1> HIDE DEF v
<1> QED
  BY <1>2, <1>3, <1>4, <1>5 DEF v

\* The settings of v are, for the icons of a group, those of w.
SameFor(w, v, group) ==
    /\ group = "briefingMarkers" => v.mode = w.mode
    /\ group = "projectileMarkers" =>
            /\ v.labels = w.labels
            /\ group \in v.onMap <=> group \in w.onMap

\* With the settings of v these icons of a group, and no others, may be open.
MayOpen(v, group, open) ==
    \A h \in Texts(v) :
        /\ group = "briefingMarkers" => (h \in open <=> v.mode = "all")
        /\ group = "projectileMarkers" =>
                /\ (v.labels /\ group \in v.onMap) => h \in open
                /\ group \notin v.onMap => h \notin open

\* An icon nothing was said of stays as it should be.
LEMMA IconStays ==
    ASSUME NEW w, NEW v, NEW icon, IconOK(w, icon), SameFor(w, v, icon.group)
    PROVE  IconOK(v, icon)
BY DEF IconOK, IconShown, SameFor

\* A group opened as its signals say leaves every icon as the settings want it.
LEMMA IconsOpened ==
    ASSUME NEW w, w \in Views(w), NEW v, v \in Views(v), v.icons = w.icons,
           \A h \in DOMAIN w.icons : IconOK(w, w.icons[h]),
           NEW group, NEW open, MayOpen(v, group, open),
           \A g : g # group => SameFor(w, v, g)
    PROVE  LET u == OpenIcons(v, group, open)
           IN  /\ u = [v EXCEPT !.icons = u.icons] /\ u \in Views(u)
               /\ DOMAIN u.icons = DOMAIN v.icons
               /\ \A h \in DOMAIN u.icons :
                    IconOK(u, u.icons[h]) /\ u.icons[h].at = v.icons[h].at
<1> DEFINE u == OpenIcons(v, group, open)
<1>1. \A h \in DOMAIN v.icons : v.icons[h] \in Icons(v.icons[h])
  BY DEF IconOK
<1>2. /\ u = [v EXCEPT !.icons = u.icons]
      /\ DOMAIN u.icons = DOMAIN v.icons
      /\ \A h \in DOMAIN v.icons :
            /\ u.icons[h] \in Icons(u.icons[h])
            /\ u.icons[h].at = v.icons[h].at
            /\ u.icons[h].group = v.icons[h].group
            /\ u.icons[h].form = v.icons[h].form
            /\ u.icons[h].text = v.icons[h].text
            /\ (v.icons[h].group = group /\ v.icons[h].form \in {"icon", "label"}) =>
                    (u.icons[h].open <=> h \in open)
            /\ ~(v.icons[h].group = group /\ v.icons[h].form \in {"icon", "label"}) =>
                    u.icons[h] = v.icons[h]
  BY <1>1, OpenIconsIs
<1> HIDE DEF u
<1>3. /\ u \in Views(u) /\ u.mode = v.mode /\ u.labels = v.labels /\ u.onMap = v.onMap
  BY <1>2 DEF Views
<1>4. ASSUME NEW h \in DOMAIN v.icons PROVE IconShown(u, u.icons[h])
  <2> DEFINE new == u.icons[h]
             old == v.icons[h]
  <2>1. /\ new.group = old.group /\ new.form = old.form /\ new.text = old.text
        /\ (old.group = group /\ old.form \in {"icon", "label"}) => (new.open <=> h \in open)
        /\ ~(old.group = group /\ old.form \in {"icon", "label"}) => new = old
    BY <1>2
  <2>2. IconOK(w, old) /\ old.form \in {"icon", "label", "shape", "drawn"}
    BY DEF IconOK, Icons
  <2>3. old.text => h \in Texts(v)
    BY DEF Texts
  <2> HIDE DEF new, old
  <2>4. CASE old.group = group
    <3>1. old.form = "drawn" => group = "projectileMarkers"
      BY <2>2, <2>4 DEF IconOK, IconShown
    <3>2. old.text /\ old.form \in {"icon", "label"} =>
            /\ group = "briefingMarkers" => (new.open <=> v.mode = "all")
            /\ group = "projectileMarkers" =>
                    /\ (v.labels /\ group \in v.onMap) => new.open
                    /\ group \notin v.onMap => ~new.open
      BY <2>1, <2>3, <2>4 DEF MayOpen
    <3>3. IconShown(u, new)
      BY <1>3, <2>1, <2>2, <2>4, <3>1, <3>2 DEF IconShown
    <3> QED
      BY <3>3 DEF new
  <2>5. CASE old.group # group
    <3>1. IconOK(v, old)
      BY <2>2, <2>5, IconStays
    <3>2. new = old
      BY <2>1, <2>5
    <3>3. IconShown(u, new)
      BY <1>3, <3>1, <3>2 DEF IconOK, IconShown
    <3> QED
      BY <3>3 DEF new
  <2> QED
    BY <2>4, <2>5
<1> QED
  BY <1>2, <1>3, <1>4 DEF u, IconOK

\* An entity's popup stays as it should be while the mode of the names and the
\* zoom do.
LEMMA EntStays ==
    ASSUME NEW w, NEW v, NEW e, EntOK(w, e),
           v.canvas = w.canvas, v.far = w.far, v.names = w.names
    PROVE  EntOK(v, e)
BY DEF EntOK, NameHidden

\* Entities, icons and lines of v are those of w.
SameContents(w, v) == v.ents = w.ents /\ v.icons = w.icons /\ v.lines = w.lines

\* Signals of the layers and the styles.
LEMMA SignalsChange ==
    ASSUME NEW w, ViewOK(w), NEW v, v \in Views(v), LayersOK(v), SameContents(w, v),
           v.canvas = w.canvas, v.maplibre = w.maplibre, v.smoothing = w.smoothing,
           v.far = w.far, v.names = w.names,
           \A group : SameFor(w, v, group)
    PROVE  ViewOK(v) /\ SameThings(w, v)
<1>1. \A id \in DOMAIN v.ents : EntOK(v, v.ents[id])
  BY EntStays DEF ViewOK, SameContents
<1>2. \A h \in DOMAIN v.icons : IconOK(v, v.icons[h])
  BY IconStays DEF ViewOK, SameContents
<1> QED
  BY <1>1, <1>2 DEF ViewOK, SameThings, SameContents

\* The same with the icons of a group opened or closed.
LEMMA GroupOpened ==
    ASSUME NEW w, ViewOK(w), NEW v, v \in Views(v), LayersOK(v), SameContents(w, v),
           v.canvas = w.canvas, v.maplibre = w.maplibre, v.smoothing = w.smoothing,
           v.far = w.far, v.names = w.names,
           NEW group, NEW open, MayOpen(v, group, open),
           \A g : g # group => SameFor(w, v, g)
    PROVE  ViewOK(OpenIcons(v, group, open)) /\ SameThings(w, OpenIcons(v, group, open))
<1> DEFINE u == OpenIcons(v, group, open)
<1>1. /\ u = [v EXCEPT !.icons = u.icons] /\ u \in Views(u)
      /\ DOMAIN u.icons = DOMAIN v.icons
      /\ \A h \in DOMAIN u.icons : IconOK(u, u.icons[h]) /\ u.icons[h].at = v.icons[h].at
  BY IconsOpened DEF ViewOK, SameContents
<1> HIDE DEF u
<1>2. /\ u.ents = v.ents /\ u.lines = v.lines /\ u.canvas = v.canvas
      /\ u.maplibre = v.maplibre /\ u.smoothing = v.smoothing /\ u.far = v.far
      /\ u.names = v.names /\ u.onMap = v.onMap /\ u.vis = v.vis /\ u.mode = v.mode
      /\ u.ready = v.ready /\ u.hidden = v.hidden /\ u.fetching = v.fetching
  BY <1>1 DEF Views
<1>3. LayersOK(u)
  BY <1>2 DEF LayersOK
<1>4. \A id \in DOMAIN u.ents : EntOK(u, u.ents[id])
  BY <1>2, EntStays DEF ViewOK, SameContents
<1>5. ViewOK(u)
  BY <1>1, <1>3, <1>4 DEF ViewOK
<1>6. SameThings(w, u)
  BY <1>1, <1>2 DEF SameThings, SameContents
<1> QED
  BY <1>5, <1>6 DEF u

\* Two operators that leave what is on the map leave it together.
LEMMA ThingsTwice ==
    ASSUME NEW w, NEW v, NEW u, SameThings(w, v), SameThings(v, u)
    PROVE  SameThings(w, u)
BY DEF SameThings

\* Popups follow the mode of the names and the zoom.
LEMMA PopupsRefreshed ==
    ASSUME NEW w, ViewOK(w), NEW v, v \in Views(v), SameContents(w, v), LayersOK(v),
           v.canvas = w.canvas, v.maplibre = w.maplibre, v.smoothing = w.smoothing,
           \A group : SameFor(w, v, group)
    PROVE  ViewOK(RefreshPopups(v)) /\ SameThings(w, RefreshPopups(v))
<1> DEFINE u == RefreshPopups(v)
<1>1. \A h \in DOMAIN v.icons : IconOK(v, v.icons[h])
  BY IconStays DEF ViewOK, SameContents
<1>2. CASE v.canvas
  <2>1. u = v
    BY <1>2 DEF RefreshPopups
  <2>2. \A id \in DOMAIN v.ents : EntOK(v, v.ents[id])
    BY <1>2 DEF ViewOK, SameContents, EntOK
  <2> QED
    BY <1>1, <2>1, <2>2 DEF ViewOK, SameThings, SameContents
<1>3. CASE ~v.canvas
  <2> DEFINE fresh(id) == [v.ents[id] EXCEPT !.popup.hidden =
                              v.ents[id].popup.element /\ NameHidden(v, v.ents[id].body)]
  <2>1. u = [v EXCEPT !.ents = [id \in DOMAIN v.ents |-> fresh(id)]]
    BY <1>3 DEF RefreshPopups, Views
  <2>2. ASSUME NEW id \in DOMAIN v.ents
        PROVE  EntOK(v, fresh(id)) /\ fresh(id).body = v.ents[id].body
    <3> DEFINE e == v.ents[id]
               hid == e.popup.element /\ NameHidden(v, e.body)
    <3>1. e \in DomMarkers(e)
      BY <1>3 DEF ViewOK, SameContents, EntOK
    <3>2. hid \in BOOLEAN
      OBVIOUS
    <3>3. hid <=> (e.popup.element /\ NameHidden(v, e.body))
      OBVIOUS
    <3>4. NameHidden(v, e.body) \in BOOLEAN
      BY DEF NameHidden
    <3> DEFINE new == [e EXCEPT !.popup.hidden = hid]
    <3>5. fresh(id) = new
      OBVIOUS
    <3> HIDE DEF e, hid
    <3>6. /\ new \in DomMarkers(new) /\ new.body = e.body
          /\ new.popup.element = e.popup.element /\ new.popup.hidden = hid
      BY <3>1, <3>2 DEF DomMarkers, Popups
    <3> HIDE DEF new
    <3>7. new.popup.element => new.popup.hidden = NameHidden(v, new.body)
      BY <3>2, <3>3, <3>4, <3>6
    <3> QED
      BY <1>3, <3>5, <3>6, <3>7 DEF EntOK, e
  <2> HIDE DEF fresh
  <2> HIDE DEF u
  <2>3. /\ u.ents = [id \in DOMAIN v.ents |-> fresh(id)] /\ u.icons = v.icons
        /\ u.lines = v.lines /\ u.canvas = v.canvas /\ u.maplibre = v.maplibre
        /\ u.smoothing = v.smoothing /\ u.far = v.far /\ u.names = v.names
        /\ u.onMap = v.onMap /\ u.vis = v.vis /\ u.mode = v.mode /\ u.labels = v.labels
        /\ u.ready = v.ready /\ u.hidden = v.hidden /\ u.fetching = v.fetching
        /\ u \in Views(u)
    BY <2>1 DEF Views
  <2>4. \A id \in DOMAIN u.ents : EntOK(u, u.ents[id])
    BY <2>2, <2>3, EntStays
  <2>5. LayersOK(u)
    BY <2>3 DEF LayersOK
  <2>6. \A h \in DOMAIN u.icons : IconOK(u, u.icons[h])
    BY <1>1, <2>3 DEF IconOK, IconShown
  <2>7. SameThings(w, u)
    BY <2>2, <2>3 DEF SameThings, SameContents
  <2> QED
    BY <2>3, <2>4, <2>5, <2>6, <2>7 DEF ViewOK, u
<1> QED
  BY <1>2, <1>3

\* A group leaves the map.
LEMMA GroupClosed ==
    ASSUME NEW w, ViewOK(w), NEW v, v \in Views(v), SameContents(w, v),
           v.canvas = w.canvas, v.maplibre = w.maplibre, v.smoothing = w.smoothing,
           v.far = w.far, v.names = w.names,
           NEW group \in Groups, LayersOK([v EXCEPT !.onMap = @ \ {group}]),
           group = "briefingMarkers" => v.mode # "all",
           \A g : g # group => SameFor(w, v, g)
    PROVE  ViewOK(CloseGroup(v, group)) /\ SameThings(w, CloseGroup(v, group))
<1> DEFINE off == [v EXCEPT !.onMap = @ \ {group}]
<1>1. /\ off.onMap = v.onMap \ {group} /\ off \in Views(off) /\ SameContents(w, off)
      /\ off.canvas = w.canvas /\ off.maplibre = w.maplibre /\ off.smoothing = w.smoothing
      /\ off.far = w.far /\ off.names = w.names /\ off.mode = v.mode /\ off.labels = v.labels
  BY DEF Views, SameContents
<1>2. LayersOK(off)
  OBVIOUS
<1>3. \A g : g # group => SameFor(w, off, g)
  <2> HIDE DEF off
  <2> QED
    BY <1>1 DEF SameFor
<1>4. CASE group # "entities"
  <2>1. CloseGroup(v, group) = OpenIcons(off, group, {})
    BY <1>4 DEF CloseGroup
  <2> HIDE DEF off
  <2>2. MayOpen(off, group, {})
    BY <1>1 DEF MayOpen
  <2> QED
    BY <1>1, <1>2, <1>3, <2>1, <2>2, GroupOpened
<1>5. CASE group = "entities" /\ v.canvas
  <2>1. CloseGroup(v, group) = off
    BY <1>5 DEF CloseGroup
  <2> HIDE DEF off
  <2>2. \A g : SameFor(w, off, g)
    BY <1>3, <1>5 DEF SameFor
  <2> QED
    BY <1>1, <1>2, <2>1, <2>2, SignalsChange
<1>6. CASE group = "entities" /\ ~v.canvas
  <2> DEFINE closed(e) == [e EXCEPT !.popup.open = FALSE]
             u == [off EXCEPT !.ents = [id \in DOMAIN @ |-> closed(@[id])]]
  <2>1. CloseGroup(v, group) = u
    BY <1>6 DEF CloseGroup
  <2>2. \A g : SameFor(w, off, g)
    <3> HIDE DEF off
    <3> QED
      BY <1>3, <1>6 DEF SameFor
  <2>3. ViewOK(off)
    <3> HIDE DEF off
    <3> QED
      BY <1>1, <1>2, <2>2, SignalsChange
  <2> HIDE DEF off
  <2>4. ASSUME NEW id \in DOMAIN off.ents
        PROVE  EntOK(off, closed(off.ents[id])) /\ closed(off.ents[id]).body = off.ents[id].body
    <3>1. EntOK(off, off.ents[id]) /\ ~off.canvas
      BY <1>1, <1>6, <2>3 DEF ViewOK
    <3> DEFINE e == off.ents[id]
    <3> HIDE DEF e
    <3>2. PICK no \in BOOLEAN : no = FALSE
      OBVIOUS
    <3>3. closed(e) = [e EXCEPT !.popup.open = no]
      BY <3>2
    <3>4. EntOK(off, e)
      BY <3>1 DEF e
    <3> DEFINE new == closed(e)
    <3> HIDE DEF closed
    <3>5. /\ new \in DomMarkers(new) /\ new.body = e.body
          /\ new.popup.element = e.popup.element /\ new.popup.hidden = e.popup.hidden
      BY <3>1, <3>3, <3>4 DEF EntOK, DomMarkers, Popups
    <3>6. EntOK(off, new) /\ new.body = e.body
      BY <3>1, <3>4, <3>5 DEF EntOK
    <3> QED
      BY <3>6 DEF e
  <2>5. u.ents = [id \in DOMAIN off.ents |-> closed(off.ents[id])]
    BY <1>1 DEF Views
  <2>6. /\ u.icons = off.icons
        /\ u.lines = off.lines /\ u.canvas = off.canvas /\ u.maplibre = off.maplibre
        /\ u.smoothing = off.smoothing /\ u.far = off.far /\ u.names = off.names
        /\ u.onMap = off.onMap /\ u.vis = off.vis /\ u.mode = off.mode
        /\ u.labels = off.labels /\ u.ready = off.ready /\ u.hidden = off.hidden
        /\ u.fetching = off.fetching /\ u \in Views(u)
    BY <1>1 DEF Views
  <2> HIDE DEF u, closed
  <2>7. \A id \in DOMAIN u.ents : EntOK(u, u.ents[id])
    BY <2>4, <2>5, <2>6, EntStays
  <2>8. LayersOK(u)
    BY <1>2, <2>6 DEF LayersOK
  <2>9. \A h \in DOMAIN u.icons : IconOK(u, u.icons[h])
    BY <2>3, <2>6 DEF ViewOK, IconOK, IconShown
  <2>10. SameThings(w, u)
    BY <1>1, <2>4, <2>5, <2>6 DEF SameThings, SameContents
  <2> QED
    BY <2>1, <2>6, <2>7, <2>8, <2>9, <2>10 DEF ViewOK
<1> QED
  BY <1>4, <1>5, <1>6

\* A layer is switched on or off.
LEMMA LayerSet ==
    ASSUME NEW w, ViewOK(w), NEW layer \in LayerNames, NEW visible \in BOOLEAN
    PROVE  /\ ViewOK(SetLayerVisible(w, layer, visible))
           /\ SameThings(w, SetLayerVisible(w, layer, visible))
<1> DEFINE told == [w EXCEPT !.vis = IF visible THEN @ \cup {layer} ELSE @ \ {layer}]
           new == SetLayerVisible(w, layer, visible)
           on == [told EXCEPT !.onMap = @ \cup {layer}]
           off == [told EXCEPT !.onMap = @ \ {layer}]
<1>1. w \in Views(w) /\ LayersOK(w)
  BY DEF ViewOK
<1>2. /\ told.vis = IF visible THEN w.vis \cup {layer} ELSE w.vis \ {layer}
      /\ told \in Views(told) /\ SameContents(w, told)
      /\ told.canvas = w.canvas /\ told.maplibre = w.maplibre /\ told.smoothing = w.smoothing
      /\ told.far = w.far /\ told.names = w.names /\ told.mode = w.mode
      /\ told.labels = w.labels /\ told.onMap = w.onMap /\ told.ready = w.ready
      /\ told.hidden = w.hidden /\ told.fetching = w.fetching
  BY <1>1 DEF Views, SameContents
<1> HIDE DEF told
<1>3. layer \in {"entities", "systemMarkers", "projectileMarkers", "grid",
                 "mapIcons", "buildings3D"}
  BY DEF LayerNames, Toggled, GLLayers
<1>4. ASSUME layer \in Toggled \cup {"grid"}
      PROVE  LET v == IF visible THEN on ELSE off
             IN  /\ v \in Views(v) /\ SameContents(w, v) /\ LayersOK(v)
                 /\ v.onMap = IF visible THEN w.onMap \cup {layer} ELSE w.onMap \ {layer}
                 /\ v.canvas = w.canvas /\ v.maplibre = w.maplibre
                 /\ v.smoothing = w.smoothing /\ v.far = w.far /\ v.names = w.names
                 /\ v.mode = w.mode /\ v.labels = w.labels
                 /\ \A g : g # layer => SameFor(w, v, g)
  <2> DEFINE v == IF visible THEN on ELSE off
  <2>1. /\ v.onMap = IF visible THEN w.onMap \cup {layer} ELSE w.onMap \ {layer}
        /\ v.vis = IF visible THEN w.vis \cup {layer} ELSE w.vis \ {layer}
        /\ v \in Views(v) /\ SameContents(w, v)
        /\ v.canvas = w.canvas /\ v.maplibre = w.maplibre /\ v.smoothing = w.smoothing
        /\ v.far = w.far /\ v.names = w.names /\ v.mode = w.mode
        /\ v.labels = w.labels /\ v.ready = w.ready
        /\ v.hidden = w.hidden /\ v.fetching = w.fetching
    BY <1>2 DEF Views, SameContents, LayerNames
  <2> HIDE DEF v
  <2>2. LayersOK(v)
    BY <1>1, <1>4, <2>1 DEF LayersOK, Toggled, GLLayers
  <2>3. \A g : g # layer => SameFor(w, v, g)
    BY <2>1 DEF SameFor
  <2> QED
    BY <2>1, <2>2, <2>3 DEF v
<1>5. CASE layer \in GLLayers
  <2>1. new = ShowGL(told, layer, visible)
    BY <1>5 DEF SetLayerVisible, told, Toggled, GLLayers
  <2>2. /\ new \in Views(new) /\ SameContents(w, new) /\ LayersOK(new)
        /\ new.canvas = w.canvas /\ new.maplibre = w.maplibre
        /\ new.smoothing = w.smoothing /\ new.far = w.far /\ new.names = w.names
        /\ \A g : SameFor(w, new, g)
    <3> HIDE DEF new
    <3>1. CASE ~w.ready
      <4>1. new = told
        BY <1>2, <2>1, <3>1 DEF ShowGL
      <4> QED
        BY <1>1, <1>2, <1>5, <4>1 DEF LayersOK, Toggled, GLLayers, SameFor
    <3>2. CASE w.ready
      <4>1. new = IF visible THEN [told EXCEPT !.onMap = @ \cup {layer}, !.hidden = @ \ {layer}]
                  ELSE [told EXCEPT !.onMap = @ \ {layer}, !.hidden = @ \cup {layer}]
        BY <1>2, <2>1, <3>2 DEF ShowGL
      <4>2. /\ new.onMap = IF visible THEN w.onMap \cup {layer} ELSE w.onMap \ {layer}
            /\ new.hidden = IF visible THEN w.hidden \ {layer} ELSE w.hidden \cup {layer}
            /\ new.vis = told.vis
            /\ new \in Views(new) /\ SameContents(w, new)
            /\ new.canvas = w.canvas /\ new.maplibre = w.maplibre /\ new.smoothing = w.smoothing
            /\ new.far = w.far /\ new.names = w.names /\ new.mode = w.mode
            /\ new.labels = w.labels /\ new.ready = w.ready /\ new.fetching = w.fetching
        BY <1>2, <1>5, <4>1 DEF Views, SameContents, LayerNames
      <4>3. LayersOK(new)
        BY <1>1, <1>2, <1>5, <3>2, <4>2 DEF LayersOK, Toggled, GLLayers
      <4>4. \A g : SameFor(w, new, g)
        BY <1>5, <4>2 DEF SameFor, GLLayers
      <4> QED
        BY <4>2, <4>3, <4>4
    <3> QED
      BY <3>1, <3>2
  <2> HIDE DEF new
  <2>3. ViewOK(new) /\ SameThings(w, new)
    BY <2>2, SignalsChange
  <2> QED
    BY <2>3 DEF new
<1>6. CASE layer = "grid" \/ (layer = "entities" /\ visible)
  <2>1. new = IF visible THEN on ELSE off
    <3>1. CASE layer = "grid"
      BY <3>1 DEF SetLayerVisible, told, Toggled, GLLayers
    <3>2. CASE layer = "entities" /\ visible
      BY <3>2 DEF SetLayerVisible, told, Toggled, GLLayers
    <3> QED
      BY <1>6, <3>1, <3>2
  <2>2. /\ new \in Views(new) /\ SameContents(w, new) /\ LayersOK(new)
        /\ new.canvas = w.canvas /\ new.maplibre = w.maplibre
        /\ new.smoothing = w.smoothing /\ new.far = w.far /\ new.names = w.names
        /\ new.mode = w.mode /\ new.labels = w.labels
        /\ \A g : g # layer => SameFor(w, new, g)
    <3> HIDE DEF new, on, off
    <3> QED
      BY <1>4, <1>6, <2>1 DEF Toggled
  <2> HIDE DEF new
  <2>3. \A g : SameFor(w, new, g)
    BY <1>6, <2>2 DEF SameFor
  <2>4. ViewOK(new) /\ SameThings(w, new)
    BY <2>2, <2>3, SignalsChange
  <2> QED
    BY <2>4 DEF new
<1>7. CASE layer \in Toggled \ {"entities"} /\ visible /\ layer \notin w.onMap
  <2>1. new = OpenIcons(on, layer, Texts(on))
    BY <1>7 DEF SetLayerVisible, Reopen, told, Toggled, GLLayers
  <2>2. /\ on \in Views(on) /\ SameContents(w, on) /\ LayersOK(on)
        /\ on.onMap = w.onMap \cup {layer}
        /\ on.canvas = w.canvas /\ on.maplibre = w.maplibre
        /\ on.smoothing = w.smoothing /\ on.far = w.far /\ on.names = w.names
        /\ \A g : g # layer => SameFor(w, on, g)
    <3> HIDE DEF on, off
    <3> QED
      BY <1>4, <1>7
  <2> HIDE DEF on
  <2>3. MayOpen(on, layer, Texts(on))
    BY <1>7, <2>2 DEF MayOpen, Toggled
  <2>4. /\ ViewOK(OpenIcons(on, layer, Texts(on)))
        /\ SameThings(w, OpenIcons(on, layer, Texts(on)))
    BY <2>2, <2>3, GroupOpened
  <2> QED
    BY <2>1, <2>4
<1>8. CASE layer \in Toggled /\ ~visible
  <2>1. new = CloseGroup(told, layer)
    BY <1>8 DEF SetLayerVisible, told, Toggled, GLLayers
  <2>2. LayersOK(off)
    <3> HIDE DEF on, off
    <3> QED
      BY <1>4, <1>8
  <2>3. \A g : g # layer => SameFor(w, told, g)
    BY <1>2 DEF SameFor
  <2>4. layer \in Groups /\ layer # "briefingMarkers"
    BY <1>8 DEF Groups, Toggled
  <2>5. ViewOK(CloseGroup(told, layer)) /\ SameThings(w, CloseGroup(told, layer))
    BY <1>2, <2>2, <2>3, <2>4, GroupClosed
  <2> QED
    BY <2>1, <2>5
<1>9. CASE layer \in Toggled \ {"entities"} /\ visible /\ layer \in w.onMap
  <2>1. new = told
    BY <1>9 DEF SetLayerVisible, told, Toggled, GLLayers
  <2>2. LayersOK(told)
    BY <1>1, <1>2, <1>9 DEF LayersOK, Toggled, GLLayers
  <2>3. \A g : SameFor(w, told, g)
    BY <1>2 DEF SameFor
  <2>4. ViewOK(told) /\ SameThings(w, told)
    BY <1>2, <2>2, <2>3, SignalsChange
  <2> QED
    BY <2>1, <2>4
<1> QED
  BY <1>3, <1>5, <1>6, <1>7, <1>8, <1>9 DEF Toggled, GLLayers

\* The other settings.
LEMMA NamesSet ==
    ASSUME NEW w, ViewOK(w), NEW mode \in NameModes
    PROVE  ViewOK(SetNameDisplayMode(w, mode)) /\ SameThings(w, SetNameDisplayMode(w, mode))
<1> DEFINE v == [w EXCEPT !.names = mode]
<1>1. w \in Views(w) /\ LayersOK(w)
  BY DEF ViewOK
<1>2. /\ v \in Views(v) /\ SameContents(w, v)
      /\ v.canvas = w.canvas /\ v.maplibre = w.maplibre /\ v.smoothing = w.smoothing
      /\ v.mode = w.mode /\ v.labels = w.labels /\ v.onMap = w.onMap /\ v.ready = w.ready
      /\ v.hidden = w.hidden /\ v.fetching = w.fetching /\ v.vis = w.vis
  BY <1>1 DEF Views, SameContents
<1>3. SetNameDisplayMode(w, mode) = RefreshPopups(v)
  BY DEF SetNameDisplayMode
<1> HIDE DEF v
<1>4. LayersOK(v) /\ \A g : SameFor(w, v, g)
  BY <1>1, <1>2 DEF LayersOK, SameFor
<1> QED
  BY <1>2, <1>3, <1>4, PopupsRefreshed

\* Zoom
LEMMA Zoomed ==
    ASSUME NEW w, ViewOK(w), NEW far \in BOOLEAN
    PROVE  ViewOK(Zoom(w, far)) /\ SameThings(w, Zoom(w, far))
<1> DEFINE v == [w EXCEPT !.far = far]
<1>1. w \in Views(w) /\ LayersOK(w)
  BY DEF ViewOK
<1>2. /\ v \in Views(v) /\ SameContents(w, v)
      /\ v.canvas = w.canvas /\ v.maplibre = w.maplibre /\ v.smoothing = w.smoothing
      /\ v.mode = w.mode /\ v.labels = w.labels /\ v.onMap = w.onMap /\ v.ready = w.ready
      /\ v.hidden = w.hidden /\ v.fetching = w.fetching /\ v.vis = w.vis
  BY <1>1 DEF Views, SameContents
<1>3. Zoom(w, far) = RefreshPopups(v)
  BY DEF Zoom
<1> HIDE DEF v
<1>4. LayersOK(v) /\ \A g : SameFor(w, v, g)
  BY <1>1, <1>2 DEF LayersOK, SameFor
<1> QED
  BY <1>2, <1>3, <1>4, PopupsRefreshed

\* SetMarkerDisplayMode
LEMMA MarkersSet ==
    ASSUME NEW w, ViewOK(w), NEW mode \in MarkerModes
    PROVE  ViewOK(SetMarkerDisplayMode(w, mode)) /\ SameThings(w, SetMarkerDisplayMode(w, mode))
<1> DEFINE told == [w EXCEPT !.mode = mode]
           on == [told EXCEPT !.onMap = @ \cup {"briefingMarkers"}]
           off == [told EXCEPT !.onMap = @ \ {"briefingMarkers"}]
<1>1. w \in Views(w) /\ LayersOK(w)
  BY DEF ViewOK
<1>2. /\ told \in Views(told) /\ SameContents(w, told)
      /\ told.canvas = w.canvas /\ told.maplibre = w.maplibre /\ told.smoothing = w.smoothing
      /\ told.far = w.far /\ told.names = w.names /\ told.mode = mode
      /\ told.labels = w.labels /\ told.onMap = w.onMap /\ told.ready = w.ready
      /\ told.hidden = w.hidden /\ told.fetching = w.fetching /\ told.vis = w.vis
  BY <1>1 DEF Views, SameContents
<1> HIDE DEF told
<1>3. CASE mode = "none"
  <2>1. SetMarkerDisplayMode(w, mode) = CloseGroup(told, "briefingMarkers")
    BY <1>3 DEF SetMarkerDisplayMode, told
  <2>2. LayersOK(off)
    <3>1. /\ off.onMap = w.onMap \ {"briefingMarkers"} /\ off.mode = mode /\ off.vis = w.vis
          /\ off.ready = w.ready /\ off.hidden = w.hidden /\ off.fetching = w.fetching
      BY <1>2 DEF Views
    <3> HIDE DEF off
    <3> QED
      BY <1>1, <1>3, <3>1 DEF LayersOK, Toggled, GLLayers
  <2>3. \A g : g # "briefingMarkers" => SameFor(w, told, g)
    BY <1>2 DEF SameFor
  <2>4. "briefingMarkers" \in Groups /\ told.mode # "all"
    BY <1>2, <1>3 DEF Groups
  <2>5. /\ ViewOK(CloseGroup(told, "briefingMarkers"))
        /\ SameThings(w, CloseGroup(told, "briefingMarkers"))
    BY <1>2, <2>2, <2>3, <2>4, GroupClosed
  <2> QED
    BY <2>1, <2>5
<1>4. CASE mode # "none"
  <2> DEFINE open == IF mode = "all" THEN Texts(w) ELSE {}
  <2>1. SetMarkerDisplayMode(w, mode) = OpenIcons(on, "briefingMarkers", open)
    BY <1>4 DEF SetMarkerDisplayMode, told
  <2>2. /\ on \in Views(on) /\ SameContents(w, on)
        /\ on.onMap = w.onMap \cup {"briefingMarkers"}
        /\ on.canvas = w.canvas /\ on.maplibre = w.maplibre /\ on.smoothing = w.smoothing
        /\ on.far = w.far /\ on.names = w.names /\ on.mode = mode
        /\ on.labels = w.labels /\ on.ready = w.ready
        /\ on.hidden = w.hidden /\ on.fetching = w.fetching /\ on.vis = w.vis
    BY <1>2 DEF Views, SameContents, Groups
  <2> HIDE DEF on
  <2>3. LayersOK(on)
    BY <1>1, <1>4, <2>2 DEF LayersOK, Toggled, GLLayers
  <2>4. \A g : g # "briefingMarkers" => SameFor(w, on, g)
    BY <2>2 DEF SameFor
  <2>5. MayOpen(on, "briefingMarkers", open)
    BY <2>2 DEF MayOpen, Texts, SameContents
  <2> HIDE DEF open
  <2>6. /\ ViewOK(OpenIcons(on, "briefingMarkers", open))
        /\ SameThings(w, OpenIcons(on, "briefingMarkers", open))
    BY <2>2, <2>3, <2>4, <2>5, GroupOpened
  <2> QED
    BY <2>1, <2>6
<1> QED
  BY <1>3, <1>4

\* SetProjectileLabels
LEMMA LabelsSet ==
    ASSUME NEW w, ViewOK(w), NEW visible \in BOOLEAN
    PROVE  ViewOK(SetProjectileLabels(w, visible)) /\ SameThings(w, SetProjectileLabels(w, visible))
<1> DEFINE v == [w EXCEPT !.labels = visible]
           open == IF visible /\ "projectileMarkers" \in w.onMap THEN Texts(w) ELSE {}
<1>1. w \in Views(w) /\ LayersOK(w)
  BY DEF ViewOK
<1>2. /\ v \in Views(v) /\ SameContents(w, v)
      /\ v.canvas = w.canvas /\ v.maplibre = w.maplibre /\ v.smoothing = w.smoothing
      /\ v.far = w.far /\ v.names = w.names /\ v.labels = visible
      /\ v.mode = w.mode /\ v.onMap = w.onMap /\ v.ready = w.ready
      /\ v.hidden = w.hidden /\ v.fetching = w.fetching /\ v.vis = w.vis
  BY <1>1 DEF Views, SameContents
<1>3. SetProjectileLabels(w, visible) = OpenIcons(v, "projectileMarkers", open)
  BY DEF SetProjectileLabels
<1> HIDE DEF v
<1>4. LayersOK(v)
  BY <1>1, <1>2 DEF LayersOK
<1>5. \A g : g # "projectileMarkers" => SameFor(w, v, g)
  BY <1>2 DEF SameFor
<1>6. MayOpen(v, "projectileMarkers", open)
  BY <1>2 DEF MayOpen, Texts, SameContents
<1> HIDE DEF open
<1>7. /\ ViewOK(OpenIcons(v, "projectileMarkers", open))
      /\ SameThings(w, OpenIcons(v, "projectileMarkers", open))
  BY <1>2, <1>4, <1>5, <1>6, GroupOpened
<1> QED
  BY <1>3, <1>7

\* The styles of the map: the first one, one that arrives and one that fails.
LEMMA StylesSet ==
    ASSUME NEW w, ViewOK(w), NEW v, NEW index \in Styles,
           \/ v = SetMapStyle(w, index)
           \/ v = StyleReady(w, index) /\ ~w.ready
           \/ v = StyleArrives(w, index) /\ index \in w.fetching
           \/ v = StyleFails(w, index)
    PROVE  ViewOK(v) /\ SameThings(w, v)
<1>1. w \in Views(w) /\ LayersOK(w)
  BY DEF ViewOK
<1>2. /\ v \in Views(v) /\ SameContents(w, v)
      /\ v.canvas = w.canvas /\ v.maplibre = w.maplibre /\ v.smoothing = w.smoothing
      /\ v.far = w.far /\ v.names = w.names /\ v.labels = w.labels
      /\ v.mode = w.mode /\ v.vis = w.vis
      /\ \/ /\ v.onMap = w.onMap /\ v.ready = w.ready /\ v.hidden = w.hidden
            /\ ~w.ready => v.fetching = {}
         \/ /\ v.onMap = w.onMap \cup GLLayers /\ v.ready /\ v.hidden = w.hidden /\ ~w.ready
         \/ /\ v.onMap = w.onMap /\ v.ready = w.ready /\ w.ready
            /\ v.hidden = {l \in GLLayers : l \notin w.onMap}
  <2>1. CASE v = SetMapStyle(w, index)
    <3>1. CASE w.maplibre /\ ~w.ready
      <4>1. v = w
        BY <2>1, <3>1 DEF SetMapStyle, SwitchStyle
      <4> QED
        BY <1>1, <4>1 DEF SameContents, LayersOK
    <3>2. CASE w.maplibre /\ w.ready
      <4>1. v = [w EXCEPT !.active = index, !.fetching = @ \cup {index}]
        BY <2>1, <3>2 DEF SetMapStyle, SwitchStyle
      <4> QED
        BY <1>1, <3>2, <4>1 DEF Views, SameContents
    <3>3. CASE ~w.maplibre
      <4>1. v = [w EXCEPT !.active = index, !.shown = index]
        BY <2>1, <3>3 DEF SetMapStyle, SwitchTiles
      <4> QED
        BY <1>1, <4>1 DEF Views, SameContents, LayersOK
    <3> QED
      BY <3>1, <3>2, <3>3
  <2>2. CASE v = StyleReady(w, index) /\ ~w.ready
    <3>1. PICK yes \in BOOLEAN : yes = TRUE
      OBVIOUS
    <3>2. v = [w EXCEPT !.ready = yes, !.onMap = @ \cup GLLayers, !.active = index, !.shown = index]
      BY <2>2, <3>1 DEF StyleReady
    <3>3. /\ v.onMap = w.onMap \cup GLLayers /\ v.ready /\ v.hidden = w.hidden
          /\ v \in Views(v) /\ SameContents(w, v)
          /\ v.canvas = w.canvas /\ v.maplibre = w.maplibre /\ v.smoothing = w.smoothing
          /\ v.far = w.far /\ v.names = w.names /\ v.labels = w.labels
          /\ v.mode = w.mode /\ v.vis = w.vis
      BY <1>1, <3>1, <3>2 DEF Views, SameContents, LayerNames, GLLayers
    <3> QED
      BY <2>2, <3>3
  <2>3. CASE v = StyleArrives(w, index) /\ index \in w.fetching
    <3>1. v = [w EXCEPT !.fetching = @ \ {index}, !.shown = index,
                        !.hidden = {l \in GLLayers : l \notin w.onMap}]
      BY <2>3 DEF StyleArrives
    <3>2. w.ready
      BY <1>1, <2>3 DEF LayersOK
    <3> QED
      BY <1>1, <3>1, <3>2 DEF Views, SameContents
  <2>4. CASE v = StyleFails(w, index)
    <3>1. v = [w EXCEPT !.fetching = @ \ {index}]
      BY <2>4 DEF StyleFails
    <3>2. ~w.ready => w.fetching \ {index} = {}
      BY <1>1 DEF LayersOK
    <3> QED
      BY <1>1, <3>1, <3>2 DEF Views, SameContents
  <2> QED
    BY <2>1, <2>2, <2>3, <2>4
<1>3. LayersOK(v)
  BY <1>1, <1>2 DEF LayersOK, Toggled, GLLayers
<1>4. \A g : SameFor(w, v, g)
  BY <1>2 DEF SameFor, GLLayers
<1> QED
  BY <1>2, <1>3, <1>4, SignalsChange

\* The canvas ends tweens.
LEMMA TweensSettled ==
    ASSUME NEW w, ViewOK(w), w.canvas
    PROVE  ViewOK(SettleTweens(w)) /\ SameThings(w, SettleTweens(w))
<1> DEFINE drawn == {d.id : d \in Drawn(w)}
           ended(id) == [w.ents[id] EXCEPT !.settled = @ \/ id \in drawn]
           v == SettleTweens(w)
<1>1. w \in Views(w) /\ LayersOK(w)
  BY DEF ViewOK
<1>2. v = [w EXCEPT !.ents = [id \in DOMAIN w.ents |-> ended(id)]]
  BY DEF SettleTweens
<1>3. ASSUME NEW id \in DOMAIN w.ents
      PROVE  EntOK(w, ended(id)) /\ ended(id).body = w.ents[id].body
  <2> DEFINE e == w.ents[id]
             yes == e.settled \/ id \in drawn
             new == [e EXCEPT !.settled = yes]
  <2>1. ended(id) = new
    OBVIOUS
  <2>2. e \in Tweens(e)
    BY DEF ViewOK, EntOK
  <2> HIDE DEF e, yes
  <2>3. new \in Tweens(new) /\ new.body = e.body
    BY <2>2 DEF Tweens
  <2> QED
    BY <2>1, <2>3 DEF EntOK, e
<1> HIDE DEF ended, v
<1>4. /\ v.ents = [id \in DOMAIN w.ents |-> ended(id)] /\ v.icons = w.icons
      /\ v.lines = w.lines /\ v.canvas = w.canvas /\ v.maplibre = w.maplibre
      /\ v.smoothing = w.smoothing /\ v.far = w.far /\ v.names = w.names
      /\ v.onMap = w.onMap /\ v.vis = w.vis /\ v.mode = w.mode /\ v.labels = w.labels
      /\ v.ready = w.ready /\ v.hidden = w.hidden /\ v.fetching = w.fetching
      /\ v \in Views(v)
  BY <1>1, <1>2 DEF Views
<1>5. \A id \in DOMAIN v.ents : EntOK(v, v.ents[id])
  BY <1>3, <1>4, EntStays
<1>6. LayersOK(v)
  BY <1>1, <1>4 DEF LayersOK
<1>7. \A h \in DOMAIN v.icons : IconOK(v, v.icons[h])
  BY <1>4 DEF ViewOK, IconOK, IconShown
<1>8. SameThings(w, v)
  BY <1>3, <1>4 DEF SameThings
<1> QED
  BY <1>4, <1>5, <1>6, <1>7, <1>8 DEF ViewOK, v

-----------------------------------------------------------------------------
(* Entities                                                                 *)

\* What the renderer stands for of a set of snapshots, with the hits of a frame.
Stands(w, snaps, hit) ==
    /\ DOMAIN w.ents = DOMAIN snaps
    /\ \A id \in DOMAIN snaps : w.ents[id].body = Body(snaps[id], id \in hit)
    /\ w.lines = UNION {FireLines(id, snaps[id].fired) : id \in DOMAIN snaps}

AllSettled(w) == \A id \in DOMAIN w.ents : w.ents[id].settled

\* An entity of the renderer is as it was told last.
LEMMA EntityChanged ==
    ASSUME NEW w, NEW e, NEW body, w.canvas \in BOOLEAN,
           ~w.canvas => e.popup \in Popups
    PROVE  LET new == ChangeEntity(w, e, body)
           IN  /\ EntOK(w, new) /\ new.body = body
               /\ (w.canvas /\ ~w.smoothing) => new.settled
<1> DEFINE new == ChangeEntity(w, e, body)
<1>1. CASE w.canvas
  <2>1. new = UpdateEntity(w, e, body)
    BY <1>1 DEF ChangeEntity
  <2> DEFINE snap == \/ Distance(body.at, Start(e)) > Far
                     \/ ~w.smoothing
                     \/ e.body.inVehicle /\ ~body.inVehicle
             from == IF snap THEN body.at ELSE Start(e)
  <2>2. new = [body |-> body, from |-> from, settled |-> snap]
    BY <2>1 DEF UpdateEntity
  <2>3. ~w.smoothing => snap
    OBVIOUS
  <2> HIDE DEF snap, new, from
  <2>4. new \in Tweens(new) /\ new.body = body /\ new.settled = snap
    BY <2>2 DEF Tweens
  <2> QED
    BY <1>1, <2>3, <2>4 DEF EntOK, new
<1>2. CASE ~w.canvas
  <2> DEFINE hid == e.popup.element /\ NameHidden(w, body)
             popup == [e.popup EXCEPT !.hidden = hid]
  <2>1. new = [body |-> body, popup |-> popup]
    BY <1>2 DEF ChangeEntity, UpdateMarker
  <2>2. hid \in BOOLEAN /\ NameHidden(w, body) \in BOOLEAN
    BY DEF NameHidden
  <2>3. hid <=> (e.popup.element /\ NameHidden(w, body))
    OBVIOUS
  <2> HIDE DEF hid
  <2>4. popup \in Popups /\ popup.element = e.popup.element /\ popup.hidden = hid
    BY <1>2, <2>2 DEF Popups
  <2> HIDE DEF popup, new
  <2>5. new \in DomMarkers(new) /\ new.body = body /\ new.popup = popup
    BY <2>1, <2>4 DEF DomMarkers
  <2>6. new.popup.element => new.popup.hidden = NameHidden(w, new.body)
    BY <2>2, <2>3, <2>4, <2>5
  <2> QED
    BY <1>2, <2>5, <2>6 DEF EntOK, new
<1> QED
  BY <1>1, <1>2

\* Entities follow the snapshots.
LEMMA Synced ==
    ASSUME NEW w, ViewOK(w), NEW snaps, NEW hit
    PROVE  LET v == SyncWith(w, snaps, hit)
           IN  /\ ViewOK(v) /\ Stands(v, snaps, hit)
               /\ v.icons = w.icons /\ v.canvas = w.canvas /\ v.smoothing = w.smoothing
               /\ (w.canvas /\ ~w.smoothing) => AllSettled(v)
<1> DEFINE body(id) == Body(snaps[id], id \in hit)
           old(id) == IF id \in DOMAIN w.ents THEN w.ents[id] ELSE CreateEntity(w, body(id))
           new(id) == ChangeEntity(w, old(id), body(id))
           lines == UNION {FireLines(id, snaps[id].fired) : id \in DOMAIN snaps}
           v == SyncWith(w, snaps, hit)
<1>1. w \in Views(w) /\ LayersOK(w)
  BY DEF ViewOK
<1>2. v = [w EXCEPT !.ents = [id \in DOMAIN snaps |-> new(id)], !.lines = lines]
  BY DEF SyncWith
<1>3. ASSUME NEW id \in DOMAIN snaps
      PROVE  /\ EntOK(w, new(id)) /\ new(id).body = body(id)
             /\ (w.canvas /\ ~w.smoothing) => new(id).settled
  <2>1. ~w.canvas => old(id).popup \in Popups
    <3>1. CASE id \in DOMAIN w.ents
      <4>1. EntOK(w, w.ents[id])
        BY <3>1 DEF ViewOK
      <4> QED
        BY <3>1, <4>1 DEF EntOK, DomMarkers
    <3>2. CASE id \notin DOMAIN w.ents /\ ~w.canvas
      <4> DEFINE on == "entities" \in w.onMap
                 b == [body(id) EXCEPT !.inVehicle = FALSE, !.alive = 1, !.hit = FALSE]
                 popup == [element |-> on, open |-> on, hidden |-> FALSE]
      <4>1. old(id) = [body |-> b, popup |-> popup]
        BY <3>2 DEF CreateEntity, CreateMarker
      <4> HIDE DEF b
      <4>2. old(id).popup = popup
        <5> HIDE DEF popup, body
        <5> QED
          BY <4>1
      <4>3. popup \in Popups
        <5>1. on \in BOOLEAN
          OBVIOUS
        <5> HIDE DEF on
        <5> QED
          BY <5>1 DEF Popups
      <4> QED
        BY <4>2, <4>3
    <3> QED
      BY <3>1, <3>2
  <2> HIDE DEF old, body
  <2>2. w.canvas \in BOOLEAN
    BY <1>1 DEF Views
  <2> QED
    BY <2>1, <2>2, EntityChanged
<1> HIDE DEF v, new, lines
<1>4. /\ v.ents = [id \in DOMAIN snaps |-> new(id)] /\ v.icons = w.icons
      /\ v.lines = lines /\ v.canvas = w.canvas /\ v.maplibre = w.maplibre
      /\ v.smoothing = w.smoothing /\ v.far = w.far /\ v.names = w.names
      /\ v.onMap = w.onMap /\ v.vis = w.vis /\ v.mode = w.mode /\ v.labels = w.labels
      /\ v.ready = w.ready /\ v.hidden = w.hidden /\ v.fetching = w.fetching
      /\ v \in Views(v)
  BY <1>1, <1>2 DEF Views
<1>5. \A id \in DOMAIN v.ents : EntOK(v, v.ents[id])
  BY <1>3, <1>4, EntStays
<1>6. LayersOK(v)
  BY <1>1, <1>4 DEF LayersOK
<1>7. \A h \in DOMAIN v.icons : IconOK(v, v.icons[h])
  BY <1>4 DEF ViewOK, IconOK, IconShown
<1>8. Stands(v, snaps, hit)
  BY <1>3, <1>4 DEF Stands, lines
<1>9. (w.canvas /\ ~w.smoothing) => AllSettled(v)
  BY <1>3, <1>4 DEF AllSettled
<1> QED
  BY <1>4, <1>5, <1>6, <1>7, <1>8, <1>9 DEF ViewOK, v

-----------------------------------------------------------------------------
(* Icons                                                                    *)

\* A new marker gets a handle no other has.
LEMMA FreshHandle ==
    ASSUME NEW w, IsFiniteSet(DOMAIN w.icons)
    PROVE  NewHandle(w) \in Nat \ {0} /\ NewHandle(w) \notin DOMAIN w.icons
<1> DEFINE D == DOMAIN w.icons
           C == Cardinality(D)
           T == {h \in 1 .. C + 1 : h \notin D}
<1>1. C \in Nat
  BY FS_CardinalityType
<1>2. T # {}
  <2>1. SUFFICES ASSUME T = {} PROVE FALSE
    OBVIOUS
  <2>2. 1 .. C + 1 \subseteq D
    BY <2>1
  <2>3. IsFiniteSet(1 .. C + 1) /\ Cardinality(1 .. C + 1) = C + 1
    BY <1>1, FS_Interval
  <2>4. Cardinality(1 .. C + 1) <= Cardinality(D)
    BY <2>2, FS_Subset
  <2> HIDE DEF D
  <2> QED
    BY <1>1, <2>3, <2>4
<1>3. PICK h \in T : \A k \in T : h <= k
  <2>1. T \subseteq Nat
    BY <1>1
  <2> HIDE DEF T
  <2> QED
    BY <1>2, <2>1, Least
<1>4. /\ h \in 1 .. C + 1 /\ h \notin D
      /\ \A g \in 1 .. h - 1 : g \in D
  <2>1. ASSUME NEW g \in 1 .. h - 1 PROVE g \in D
    <3>1. g \in 1 .. C + 1 /\ ~(h <= g)
      BY <1>1, <1>3
    <3> QED
      BY <1>3, <3>1
  <2> QED
    BY <1>3, <2>1
<1>5. NewHandle(w) = CHOOSE x \in 1 .. C + 1 : x \notin D /\ \A g \in 1 .. x - 1 : g \in D
  BY DEF NewHandle
<1>6. NewHandle(w) \in 1 .. C + 1 /\ NewHandle(w) \notin D
  <2> HIDE DEF C, D
  <2> QED
    BY <1>4, <1>5
<1> QED
  BY <1>1, <1>6

\* Another icon on the map.
LEMMA IconAdded ==
    ASSUME NEW w, ViewOK(w), NEW icon, IconOK(w, icon)
    PROVE  LET v == WithIcon(w, icon)
               h == NewHandle(w)
           IN  /\ ViewOK(v) /\ SameButIcons(w, v)
               /\ DOMAIN v.icons = DOMAIN w.icons \cup {h}
               /\ v.icons[h] = icon
               /\ \A g \in DOMAIN w.icons \ {h} : v.icons[g] = w.icons[g]
<1> DEFINE h == NewHandle(w)
           v == WithIcon(w, icon)
<1>1. w \in Views(w) /\ LayersOK(w)
  BY DEF ViewOK
<1>2. v = [w EXCEPT !.icons = [g \in DOMAIN w.icons \cup {h} |-> IF g = h THEN icon ELSE w.icons[g]]]
  BY <1>1 DEF WithIcon, Views
<1> HIDE DEF h, v
<1>3. /\ v.icons = [g \in DOMAIN w.icons \cup {h} |-> IF g = h THEN icon ELSE w.icons[g]]
      /\ v.ents = w.ents /\ v.canvas = w.canvas
      /\ v.far = w.far /\ v.names = w.names
      /\ v.onMap = w.onMap /\ v.vis = w.vis /\ v.mode = w.mode /\ v.labels = w.labels
      /\ v.ready = w.ready /\ v.hidden = w.hidden /\ v.fetching = w.fetching
      /\ v \in Views(v) /\ v = [w EXCEPT !.icons = v.icons]
  BY <1>1, <1>2 DEF Views
<1>4. \A id \in DOMAIN v.ents : EntOK(v, v.ents[id])
  BY <1>3, EntStays DEF ViewOK
<1>5. LayersOK(v)
  BY <1>1, <1>3 DEF LayersOK
<1>6. \A g \in DOMAIN v.icons : IconOK(v, v.icons[g])
  BY <1>3 DEF ViewOK, IconOK, IconShown
<1> QED
  BY <1>1, <1>3, <1>4, <1>5, <1>6 DEF ViewOK, SameButIcons, h, v

\* Icons leave the map.
LEMMA IconsRemoved ==
    ASSUME NEW w, ViewOK(w), NEW hs
    PROVE  LET v == RemoveBriefingMarkers(w, hs)
           IN  /\ ViewOK(v) /\ SameButIcons(w, v)
               /\ DOMAIN v.icons = DOMAIN w.icons \ hs
               /\ \A h \in DOMAIN v.icons : v.icons[h] = w.icons[h]
<1> DEFINE v == RemoveBriefingMarkers(w, hs)
<1>1. w \in Views(w) /\ LayersOK(w)
  BY DEF ViewOK
<1>2. v = [w EXCEPT !.icons = [h \in DOMAIN w.icons \ hs |-> w.icons[h]]]
  BY <1>1 DEF RemoveBriefingMarkers, Views
<1> HIDE DEF v
<1>3. /\ v.icons = [h \in DOMAIN w.icons \ hs |-> w.icons[h]]
      /\ v.ents = w.ents /\ v.canvas = w.canvas
      /\ v.far = w.far /\ v.names = w.names
      /\ v.onMap = w.onMap /\ v.vis = w.vis /\ v.mode = w.mode /\ v.labels = w.labels
      /\ v.ready = w.ready /\ v.hidden = w.hidden /\ v.fetching = w.fetching
      /\ v \in Views(v) /\ v = [w EXCEPT !.icons = v.icons]
  BY <1>1, <1>2 DEF Views
<1>4. \A id \in DOMAIN v.ents : EntOK(v, v.ents[id])
  BY <1>3, EntStays DEF ViewOK
<1>5. LayersOK(v)
  BY <1>1, <1>3 DEF LayersOK
<1>6. \A g \in DOMAIN v.icons : IconOK(v, v.icons[g])
  BY <1>3 DEF ViewOK, IconOK, IconShown
<1> QED
  BY <1>1, <1>3, <1>4, <1>5, <1>6 DEF ViewOK, SameButIcons, v

\* An icon is put somewhere.
LEMMA IconPlaced ==
    ASSUME NEW w, ViewOK(w), NEW h \in DOMAIN w.icons, NEW at
    PROVE  LET v == UpdateBriefingMarker(w, h, at)
           IN  /\ ViewOK(v) /\ SameButIcons(w, v)
               /\ DOMAIN v.icons = DOMAIN w.icons
               /\ v.icons[h].at = at
               /\ \A g \in DOMAIN w.icons \ {h} : v.icons[g] = w.icons[g]
<1> DEFINE v == UpdateBriefingMarker(w, h, at)
           new == [w.icons[h] EXCEPT !.at = at]
<1>1. w \in Views(w) /\ LayersOK(w)
  BY DEF ViewOK
<1>2. v = [w EXCEPT !.icons = [w.icons EXCEPT ![h] = new]]
  BY <1>1 DEF UpdateBriefingMarker, Views
<1>3. IconOK(w, new) /\ new.at = at
  <2> DEFINE icon == w.icons[h]
  <2>1. IconOK(w, icon)
    BY DEF ViewOK
  <2>2. icon \in Icons(icon) /\ IconShown(w, icon)
    BY <2>1 DEF IconOK
  <2> HIDE DEF icon
  <2> DEFINE n == [icon EXCEPT !.at = at]
  <2>3. /\ n \in Icons(n) /\ n.at = at /\ n.group = icon.group /\ n.form = icon.form
        /\ n.text = icon.text /\ n.open = icon.open
    BY <2>2 DEF Icons
  <2> HIDE DEF n
  <2>4. IconShown(w, n)
    BY <2>2, <2>3 DEF IconShown
  <2>5. IconOK(w, n)
    BY <2>3, <2>4 DEF IconOK
  <2> QED
    BY <2>3, <2>5 DEF n, icon
<1> HIDE DEF v, new
<1>4. /\ v.icons = [w.icons EXCEPT ![h] = new]
      /\ v.ents = w.ents /\ v.canvas = w.canvas
      /\ v.far = w.far /\ v.names = w.names
      /\ v.onMap = w.onMap /\ v.vis = w.vis /\ v.mode = w.mode /\ v.labels = w.labels
      /\ v.ready = w.ready /\ v.hidden = w.hidden /\ v.fetching = w.fetching
      /\ v \in Views(v) /\ v = [w EXCEPT !.icons = v.icons]
  BY <1>1, <1>2 DEF Views
<1>5. \A id \in DOMAIN v.ents : EntOK(v, v.ents[id])
  BY <1>4, EntStays DEF ViewOK
<1>6. LayersOK(v)
  BY <1>1, <1>4 DEF LayersOK
<1>7. \A g \in DOMAIN v.icons : IconOK(v, v.icons[g])
  BY <1>3, <1>4 DEF ViewOK, IconOK, IconShown
<1> QED
  BY <1>1, <1>3, <1>4, <1>5, <1>6, <1>7 DEF ViewOK, SameButIcons, v

\* What a renderer makes of a marker is one more icon, as the settings have it.
LEMMA MarkerCreated ==
    ASSUME NEW w, ViewOK(w), NEW def
    PROVE  \E icon : IconOK(w, icon) /\ CreateMarkerOf(w, def) = WithIcon(w, icon)
<1>1. w \in Views(w) /\ LayersOK(w)
  BY DEF ViewOK
<1>2. CASE w.canvas /\ def.group = "projectileMarkers"
  <2> DEFINE icon == [group |-> def.group, form |-> "drawn", text |-> def.text,
                      type |-> def.type, at |-> <<>>, open |-> FALSE]
  <2>1. CreateMarkerOf(w, def) = WithIcon(w, icon)
    BY <1>2 DEF CreateMarkerOf
  <2>2. IconOK(w, icon)
    <3>1. icon \in Icons(icon) /\ icon.form = "drawn" /\ icon.group = def.group
      BY DEF Icons
    <3> HIDE DEF icon
    <3> QED
      BY <1>2, <3>1 DEF IconOK, IconShown
  <2> QED
    BY <2>1, <2>2
<1>3. CASE ~(w.canvas /\ def.group = "projectileMarkers")
  <2> DEFINE on == def.group \in w.onMap
             wanted == IF def.group = "projectileMarkers" THEN w.labels ELSE w.mode = "all"
             form == CASE def.shape # "ICON" -> "shape"
                       [] def.shape = "ICON" /\ def.type = "Empty" /\ def.text -> "label"
                       [] OTHER -> "icon"
             open == CASE form = "shape" -> FALSE
                       [] form = "label" -> on /\ w.mode = "all"
                       [] form = "icon" -> def.text /\ on /\ wanted
             icon == [group |-> def.group, form |-> form, text |-> def.text,
                      type |-> def.type, at |-> <<>>, open |-> open]
  <2>1. CreateMarkerOf(w, def) = WithIcon(w, icon)
    BY <1>3 DEF CreateMarkerOf, CreateBriefingMarker
  <2>2. form \in {"icon", "label", "shape"}
    OBVIOUS
  <2> HIDE DEF form
  <2>3. /\ form = "label" => (open <=> on /\ w.mode = "all")
        /\ form = "icon" => (open <=> def.text /\ on /\ wanted)
    BY <2>2
  <2> HIDE DEF open
  <2>4. /\ icon \in Icons(icon) /\ icon.form = form /\ icon.group = def.group
        /\ icon.text = def.text /\ icon.open = open
    BY <2>2 DEF Icons
  <2> HIDE DEF icon
  <2>5. IconShown(w, icon)
    BY <1>1, <2>2, <2>3, <2>4 DEF IconShown, LayersOK
  <2>6. IconOK(w, icon)
    BY <2>4, <2>5 DEF IconOK
  <2> QED
    BY <2>1, <2>6
<1> QED
  BY <1>2, <1>3

-----------------------------------------------------------------------------
(* Markers                                                                  *)

\* A marker's positions, in the order of their frames.
DefOK(def) ==
    /\ def.positions \in Seq(RawPositions)
    /\ \A i, j \in DOMAIN def.positions :
            i < j => def.positions[i].frame <= def.positions[j].frame
    /\ def.positions # <<>> => def.positions[1].frame <= def.start
    /\ def.start \in Nat /\ def.end \in Int

Marks(t) ==
    [def: {t.def}, group: {t.group}, text: {t.text}, style: {t.style}, handle: Nat,
     last: {t.last}, interp: {t.interp}]

MarkOK(t) == t \in Marks(t) /\ DefOK(t.def)

Managers(m) == [tracked: {m.tracked}, side: {m.side}, black: {m.black}]

MgrOK(m) ==
    /\ m \in Managers(m)
    /\ Len(m.tracked) \in Nat /\ DOMAIN m.tracked = 1 .. Len(m.tracked)
    /\ \A i \in DOMAIN m.tracked : MarkOK(m.tracked[i])

OnMap(m) == {i \in DOMAIN m.tracked : m.tracked[i].handle # 0}

\* The icons on the map are those of the markers, each at its last place.
HandlesOK(r) ==
    /\ DOMAIN r.w.icons = {r.m.tracked[i].handle : i \in OnMap(r.m)}
    /\ \A i, j \in OnMap(r.m) : r.m.tracked[i].handle = r.m.tracked[j].handle => i = j

PlacesOK(r) ==
    \A i \in OnMap(r.m) :
        LET t == r.m.tracked[i] IN r.w.icons[t.handle].at = PlaceAt(t, t.last, t.interp)

Pairs(r) == [m: {r.m}, w: {r.w}]

MapOK(r) == r \in Pairs(r) /\ MgrOK(r.m) /\ ViewOK(r.w) /\ HandlesOK(r) /\ PlacesOK(r)

\* The same markers under the same filters, the same map but for the icons.
SameMarks(r, q) ==
    /\ q.m.side = r.m.side /\ q.m.black = r.m.black
    /\ Len(q.m.tracked) = Len(r.m.tracked) /\ DOMAIN q.m.tracked = DOMAIN r.m.tracked
    /\ \A i \in DOMAIN r.m.tracked : /\ q.m.tracked[i].def = r.m.tracked[i].def
                                     /\ q.m.tracked[i].group = r.m.tracked[i].group
    /\ SameButIcons(r.w, q.w)

\* Nothing has happened to this marker.
SameMark(r, q, i) ==
    /\ q.m.tracked[i] = r.m.tracked[i]
    /\ r.m.tracked[i].handle # 0 =>
            q.w.icons[r.m.tracked[i].handle] = r.w.icons[r.m.tracked[i].handle]

\* Markers are taken off the map.
LEMMA Hidden ==
    ASSUME NEW r, MapOK(r), NEW hidden, hidden \subseteq DOMAIN r.m.tracked
    PROVE  LET q == Hide(r, hidden)
           IN  /\ MapOK(q) /\ SameMarks(r, q)
               /\ \A i \in hidden : q.m.tracked[i].handle = 0
               /\ \A i \in DOMAIN r.m.tracked \ hidden : SameMark(r, q, i)
<1> DEFINE q == Hide(r, hidden)
           gone == {i \in hidden : r.m.tracked[i].handle # 0}
           off(t) == [t EXCEPT !.handle = 0, !.last = 0, !.interp = -1]
           T == r.m.tracked
           U == q.m.tracked
           hs == {T[i].handle : i \in gone}
           n == Len(T)
<1>1. /\ r \in Pairs(r) /\ r.m \in Managers(r.m) /\ n \in Nat /\ DOMAIN T = 1 .. n
      /\ \A i \in DOMAIN T : MarkOK(T[i])
  BY DEF MapOK, MgrOK
<1>2. /\ q.m = [r.m EXCEPT !.tracked = [i \in DOMAIN T |-> IF i \in gone THEN off(T[i]) ELSE T[i]]]
      /\ q.w = RemoveBriefingMarkers(r.w, hs) /\ q \in Pairs(q)
  BY <1>1 DEF Hide, Pairs, Managers
<1>3. /\ ViewOK(q.w) /\ SameButIcons(r.w, q.w)
      /\ DOMAIN q.w.icons = DOMAIN r.w.icons \ hs
      /\ \A h \in DOMAIN q.w.icons : q.w.icons[h] = r.w.icons[h]
  <2> HIDE DEF q, hs
  <2>1. ViewOK(r.w)
    BY DEF MapOK
  <2> DEFINE v == RemoveBriefingMarkers(r.w, hs)
  <2>2. /\ ViewOK(v) /\ SameButIcons(r.w, v)
        /\ DOMAIN v.icons = DOMAIN r.w.icons \ hs
        /\ \A h \in DOMAIN v.icons : v.icons[h] = r.w.icons[h]
    BY <2>1, IconsRemoved
  <2>3. q.w = v
    BY <1>2
  <2> HIDE DEF v
  <2> QED
    BY <2>2, <2>3
<1>4. /\ U = [i \in DOMAIN T |-> IF i \in gone THEN off(T[i]) ELSE T[i]]
      /\ q.m \in Managers(q.m) /\ q.m.side = r.m.side /\ q.m.black = r.m.black
  <2> HIDE DEF q, gone, off
  <2> QED
    BY <1>1, <1>2 DEF Managers
<1> HIDE DEF q
<1>5. Len(U) = n /\ DOMAIN U = 1 .. n
  <2>1. U = [i \in 1 .. n |-> U[i]]
    <3> HIDE DEF gone, off, n
    <3> QED
      BY <1>1, <1>4
  <2> HIDE DEF U, n
  <2> QED
    BY <1>1, <2>1, SequenceOf
<1>6. ASSUME NEW i \in DOMAIN T
      PROVE  /\ MarkOK(U[i]) /\ U[i].def = T[i].def /\ U[i].group = T[i].group
             /\ IF i \in gone THEN U[i].handle = 0 ELSE U[i] = T[i]
  <2> DEFINE t == T[i]
  <2>1. MarkOK(t)
    BY <1>1
  <2>2. U[i] = IF i \in gone THEN off(t) ELSE t
    BY <1>4
  <2> HIDE DEF t, U, T, gone
  <2>3. CASE i \in gone
    <3>1. U[i] = [t EXCEPT !.handle = 0, !.last = 0, !.interp = -1]
      BY <2>2, <2>3
    <3> DEFINE u == U[i]
    <3>2. u = [t EXCEPT !.handle = 0, !.last = 0, !.interp = -1]
      BY <3>1
    <3> HIDE DEF u
    <3>3. t \in Marks(t)
      BY <2>1 DEF MarkOK
    <3>4. /\ u \in Marks(u) /\ u.def = t.def /\ u.group = t.group
          /\ u.handle = 0
      BY <3>2, <3>3 DEF Marks
    <3> QED
      BY <2>1, <2>3, <3>4 DEF MarkOK, t, u
  <2>4. CASE i \notin gone
    BY <2>1, <2>2, <2>4 DEF t
  <2> QED
    BY <2>3, <2>4
<1>7. OnMap(q.m) = OnMap(r.m) \ gone
  BY <1>1, <1>5, <1>6 DEF OnMap
<1>8. \A i \in OnMap(q.m) : i \in DOMAIN T /\ i \notin gone /\ U[i] = T[i] /\ i \in OnMap(r.m)
  <2> HIDE DEF gone
  <2> QED
    BY <1>6, <1>7 DEF OnMap
<1>9. HandlesOK(q)
  <2>1. HandlesOK(r)
    BY DEF MapOK
  <2>2. gone \subseteq OnMap(r.m)
    BY DEF OnMap
  <2> HIDE DEF gone
  <2>3. ASSUME NEW h \in DOMAIN q.w.icons PROVE h \in {U[i].handle : i \in OnMap(q.m)}
    <3>1. PICK i \in OnMap(r.m) : h = T[i].handle
      BY <1>3, <2>1 DEF HandlesOK
    <3>2. i \notin gone
      BY <1>3, <3>1 DEF hs
    <3>3. i \in OnMap(q.m)
      BY <1>7, <3>1, <3>2
    <3> QED
      BY <1>8, <3>1, <3>3
  <2>4. ASSUME NEW i \in OnMap(q.m) PROVE U[i].handle \in DOMAIN q.w.icons
    <3>1. i \in OnMap(r.m) /\ i \notin gone /\ U[i] = T[i]
      BY <1>8
    <3>2. T[i].handle \in DOMAIN r.w.icons
      BY <2>1, <3>1 DEF HandlesOK
    <3>3. T[i].handle \notin hs
      BY <2>1, <2>2, <3>1 DEF HandlesOK, hs
    <3> QED
      BY <1>3, <3>1, <3>2, <3>3
  <2>5. \A i, j \in OnMap(q.m) : U[i].handle = U[j].handle => i = j
    BY <1>8, <2>1 DEF HandlesOK
  <2> QED
    BY <2>3, <2>4, <2>5 DEF HandlesOK
<1>10. PlacesOK(q)
  <2>1. PlacesOK(r) /\ HandlesOK(r)
    BY DEF MapOK
  <2>2. ASSUME NEW i \in OnMap(q.m)
        PROVE  q.w.icons[U[i].handle].at = PlaceAt(U[i], U[i].last, U[i].interp)
    <3>1. i \in OnMap(r.m) /\ U[i] = T[i]
      BY <1>8
    <3>2. r.w.icons[T[i].handle].at = PlaceAt(T[i], T[i].last, T[i].interp)
      BY <2>1, <3>1 DEF PlacesOK
    <3>3. T[i].handle \in DOMAIN q.w.icons
      BY <1>9, <3>1 DEF HandlesOK
    <3> QED
      BY <1>3, <3>1, <3>2, <3>3
  <2> QED
    BY <2>2 DEF PlacesOK
<1>11. MapOK(q)
  BY <1>1, <1>2, <1>3, <1>4, <1>5, <1>6, <1>9, <1>10 DEF MapOK, MgrOK
<1>12. SameMarks(r, q)
  BY <1>1, <1>3, <1>4, <1>5, <1>6 DEF SameMarks
<1>13. \A i \in hidden : U[i].handle = 0
  BY <1>6
<1>14. ASSUME NEW i \in DOMAIN T \ hidden PROVE SameMark(r, q, i)
  <2>1. U[i] = T[i]
    BY <1>6
  <2>2. T[i].handle # 0 => i \in OnMap(q.m)
    BY <1>1, <1>5, <2>1 DEF OnMap
  <2>3. T[i].handle # 0 => T[i].handle \in DOMAIN q.w.icons
    BY <1>9, <2>1, <2>2 DEF HandlesOK
  <2> QED
    BY <1>3, <2>1, <2>3 DEF SameMark
<1> QED
  BY <1>11, <1>12, <1>13, <1>14 DEF q

\* There is always a handle that is free.
LEMMA FiniteIcons ==
    ASSUME NEW r, MapOK(r)
    PROVE  IsFiniteSet(DOMAIN r.w.icons) /\ DOMAIN r.w.icons \subseteq Nat \ {0}
<1> DEFINE T == r.m.tracked
           S == OnMap(r.m)
           f == [i \in S |-> T[i].handle]
<1>1. Len(T) \in Nat /\ DOMAIN T = 1 .. Len(T) /\ \A i \in DOMAIN T : MarkOK(T[i])
  BY DEF MapOK, MgrOK
<1>2. IsFiniteSet(S)
  <2>1. IsFiniteSet(1 .. Len(T))
    BY <1>1, FS_Interval
  <2>2. S \subseteq 1 .. Len(T)
    BY <1>1 DEF OnMap
  <2> QED
    BY <2>1, <2>2, FS_Subset
<1>3. DOMAIN r.w.icons = {f[i] : i \in S}
  BY DEF MapOK, HandlesOK
<1>4. \A i \in S : f[i] \in Nat \ {0}
  <2>1. ASSUME NEW i \in S PROVE T[i].handle \in Nat \ {0}
    <3>1. MarkOK(T[i]) /\ T[i].handle # 0
      BY <1>1 DEF OnMap
    <3> DEFINE t == T[i]
    <3>2. t \in Marks(t)
      BY <3>1 DEF MarkOK
    <3> HIDE DEF t
    <3>3. t.handle \in Nat
      BY <3>2 DEF Marks
    <3> QED
      BY <3>1, <3>3 DEF t
  <2> QED
    BY <2>1
<1> DEFINE image == {f[i] : i \in S}
<1>5. IsFiniteSet(image)
  <2>1. DOMAIN f = S
    OBVIOUS
  <2> HIDE DEF f, S
  <2> QED
    BY <1>2, <2>1, FiniteImage
<1> QED
  BY <1>3, <1>4, <1>5

\* A marker gets a handle, an old one or a new one, and its icon a place.
LEMMA Replaced ==
    ASSUME NEW r, MapOK(r), NEW i \in DOMAIN r.m.tracked, NEW new, MarkOK(new),
           new.def = r.m.tracked[i].def, new.group = r.m.tracked[i].group,
           new.handle # 0,
           new.handle \notin DOMAIN r.w.icons \ {r.m.tracked[i].handle},
           NEW v, ViewOK(v), SameButIcons(r.w, v),
           DOMAIN v.icons = (DOMAIN r.w.icons \ {r.m.tracked[i].handle}) \cup {new.handle},
           \A g \in DOMAIN r.w.icons \ {r.m.tracked[i].handle} : v.icons[g] = r.w.icons[g],
           v.icons[new.handle].at = PlaceAt(new, new.last, new.interp)
    PROVE  LET q == [m |-> [r.m EXCEPT !.tracked[i] = new], w |-> v]
           IN  /\ MapOK(q) /\ SameMarks(r, q) /\ q.m.tracked[i] = new /\ q.w = v
               /\ \A j \in DOMAIN r.m.tracked \ {i} : SameMark(r, q, j)
<1> DEFINE q == [m |-> [r.m EXCEPT !.tracked[i] = new], w |-> v]
           T == r.m.tracked
           U == q.m.tracked
           n == Len(T)
           D == DOMAIN r.w.icons \ {T[i].handle}
<1>1. /\ r \in Pairs(r) /\ r.m \in Managers(r.m) /\ n \in Nat /\ DOMAIN T = 1 .. n
      /\ \A j \in DOMAIN T : MarkOK(T[j])
      /\ HandlesOK(r) /\ PlacesOK(r)
  BY DEF MapOK, MgrOK
<1>2. /\ q \in Pairs(q) /\ q.w = v /\ U = [j \in 1 .. n |-> IF j = i THEN new ELSE T[j]]
      /\ q.m \in Managers(q.m) /\ q.m.side = r.m.side /\ q.m.black = r.m.black
  BY <1>1 DEF Pairs, Managers
<1> HIDE DEF q
<1>3. Len(U) = n /\ DOMAIN U = 1 .. n
  <2>1. U = [j \in 1 .. n |-> U[j]]
    <3> HIDE DEF n
    <3> QED
      BY <1>1, <1>2
  <2> HIDE DEF U, n
  <2> QED
    BY <1>1, <2>1, SequenceOf
<1>4. U[i] = new /\ \A j \in 1 .. n : j # i => U[j] = T[j]
  <2> HIDE DEF n, U
  <2> QED
    BY <1>1, <1>2
<1>5. OnMap(q.m) = OnMap(r.m) \cup {i}
  BY <1>1, <1>3, <1>4 DEF OnMap
<1>6. \A j \in OnMap(r.m) : j # i => T[j].handle \in D /\ T[j].handle # new.handle
  <2>1. ASSUME NEW j \in OnMap(r.m), j # i PROVE T[j].handle \in D
    <3>1. T[j].handle \in DOMAIN r.w.icons /\ T[j].handle # 0 /\ j \in 1 .. n
      BY <1>1 DEF HandlesOK, OnMap
    <3>2. T[j].handle # T[i].handle
      <4>1. CASE T[i].handle = 0
        BY <3>1, <4>1
      <4>2. CASE T[i].handle # 0
        <5>1. i \in OnMap(r.m)
          BY <4>2 DEF OnMap
        <5> QED
          BY <1>1, <2>1, <5>1 DEF HandlesOK
      <4> QED
        BY <4>1, <4>2
    <3> QED
      BY <3>1, <3>2
  <2> QED
    BY <2>1
<1>7. HandlesOK(q)
  <2>1. ASSUME NEW h \in DOMAIN v.icons PROVE h \in {U[j].handle : j \in OnMap(q.m)}
    <3>1. CASE h = new.handle
      BY <1>4, <1>5, <3>1
    <3>2. CASE h \in D
      <4>1. PICK j \in OnMap(r.m) : h = T[j].handle
        BY <1>1, <3>2 DEF HandlesOK
      <4>2. j # i /\ j \in 1 .. n
        BY <1>1, <3>2, <4>1 DEF OnMap
      <4> QED
        BY <1>4, <1>5, <4>1, <4>2
    <3> QED
      BY <3>1, <3>2
  <2>2. ASSUME NEW j \in OnMap(q.m) PROVE U[j].handle \in DOMAIN v.icons
    <3>1. CASE j = i
      BY <1>4, <3>1
    <3>2. CASE j # i
      <4>1. j \in OnMap(r.m) /\ j \in 1 .. n
        BY <1>1, <1>5, <3>2 DEF OnMap
      <4> QED
        BY <1>4, <1>6, <3>2, <4>1
    <3> QED
      BY <3>1, <3>2
  <2>3. ASSUME NEW j \in OnMap(q.m), NEW k \in OnMap(q.m), U[j].handle = U[k].handle
        PROVE  j = k
    <3>1. ASSUME NEW x \in OnMap(q.m), x # i
          PROVE  x \in OnMap(r.m) /\ U[x] = T[x] /\ U[x].handle # new.handle
      <4>1. x \in OnMap(r.m) /\ x \in 1 .. n
        BY <1>1, <1>5, <3>1 DEF OnMap
      <4> QED
        BY <1>4, <1>6, <3>1, <4>1
    <3>2. CASE j = i \/ k = i
      BY <1>4, <2>3, <3>1, <3>2
    <3>3. CASE j # i /\ k # i
      BY <1>1, <2>3, <3>1, <3>3 DEF HandlesOK
    <3> QED
      BY <3>2, <3>3
  <2>4. DOMAIN v.icons = {U[j].handle : j \in OnMap(q.m)}
    <3> HIDE DEF U
    <3> QED
      BY <2>1, <2>2
  <2>5. q.w = v
    BY <1>2
  <2> QED
    BY <2>3, <2>4, <2>5 DEF HandlesOK
<1>8. \A j \in DOMAIN T \ {i} : SameMark(r, q, j)
  <2>1. ASSUME NEW j \in DOMAIN T \ {i}, T[j].handle # 0
        PROVE  v.icons[T[j].handle] = r.w.icons[T[j].handle]
    <3>1. j \in OnMap(r.m)
      BY <2>1 DEF OnMap
    <3> QED
      BY <1>6, <3>1
  <2> QED
    BY <1>1, <1>2, <1>4, <2>1 DEF SameMark
<1>9. PlacesOK(q)
  <2>1. ASSUME NEW j \in OnMap(q.m)
        PROVE  v.icons[U[j].handle].at = PlaceAt(U[j], U[j].last, U[j].interp)
    <3>1. CASE j = i
      BY <1>4, <3>1
    <3>2. CASE j # i
      <4>1. j \in OnMap(r.m) /\ j \in 1 .. n
        BY <1>1, <1>5, <3>2 DEF OnMap
      <4>2. U[j] = T[j] /\ T[j].handle \in D
        BY <1>4, <1>6, <3>2, <4>1
      <4>3. r.w.icons[T[j].handle].at = PlaceAt(T[j], T[j].last, T[j].interp)
        BY <1>1, <4>1 DEF PlacesOK
      <4> QED
        BY <4>2, <4>3
    <3> QED
      BY <3>1, <3>2
  <2> QED
    BY <1>2, <2>1 DEF PlacesOK
<1>10. \A j \in DOMAIN U : MarkOK(U[j])
  BY <1>1, <1>3, <1>4
<1>11. MapOK(q)
  BY <1>1, <1>2, <1>3, <1>7, <1>9, <1>10 DEF MapOK, MgrOK
<1>12. SameMarks(r, q)
  BY <1>1, <1>2, <1>3, <1>4 DEF SameMarks
<1> QED
  BY <1>2, <1>4, <1>8, <1>11, <1>12 DEF q

\* A marker is shown in a frame.
LEMMA Shown ==
    ASSUME NEW r, MapOK(r), NEW i \in DOMAIN r.m.tracked, NEW index, NEW frame
    PROVE  LET q == Show(r, i, index, frame)
               t == q.m.tracked[i]
           IN  /\ MapOK(q) /\ SameMarks(r, q)
               /\ \A j \in DOMAIN r.m.tracked \ {i} : SameMark(r, q, j)
               /\ t.handle # 0 /\ q.w.icons[t.handle].at = PlaceAt(t, index, frame)
<1> DEFINE t == r.m.tracked[i]
           moving == Interpolates(t, index)
           style == IF moving \/ t.def.positions[index].style = None THEN t.style
                    ELSE t.def.positions[index].style
           gone == IF style # t.style /\ t.handle # 0
                   THEN RemoveBriefingMarkers(r.w, {t.handle}) ELSE r.w
           def == [shape |-> t.def.shape, type |-> style, text |-> t.text, group |-> t.group]
           made == CreateMarkerOf(gone, def)
           anew == t.handle = 0 \/ style # t.style
           h == IF anew THEN NewHandle(gone) ELSE t.handle
           at == PlaceAt(t, index, frame)
           base == IF anew THEN made ELSE r.w
           new == [t EXCEPT !.handle = h, !.style = style, !.last = index, !.interp = frame]
           v == UpdateBriefingMarker(base, h, at)
           q == [m |-> [r.m EXCEPT !.tracked[i] = new], w |-> v]
           same == t.handle # 0 /\ index = t.last /\ (~moving \/ frame = t.interp)
<1>1. Show(r, i, index, frame) = IF same THEN r ELSE q
  BY DEF Show
<1>2. /\ MarkOK(t) /\ ViewOK(r.w) /\ HandlesOK(r) /\ PlacesOK(r)
      /\ IsFiniteSet(DOMAIN r.w.icons) /\ DOMAIN r.w.icons \subseteq Nat \ {0}
  BY FiniteIcons DEF MapOK, MgrOK
<1>3. CASE same
  <2>1. i \in OnMap(r.m) /\ SameMarks(r, r)
    BY <1>3 DEF OnMap, SameMarks, MapOK, ViewOK, SameButIcons, Views
  <2>2. r.w.icons[t.handle].at = PlaceAt(t, t.last, t.interp)
    BY <1>2, <2>1 DEF PlacesOK
  <2>3. PlaceAt(t, t.last, t.interp) = PlaceAt(t, index, frame)
    BY <1>3 DEF PlaceAt
  <2>4. \A j \in DOMAIN r.m.tracked \ {i} : SameMark(r, r, j)
    BY DEF SameMark
  <2> QED
    BY <1>1, <1>3, <2>1, <2>2, <2>3, <2>4
<1>4. CASE ~same
  <2>1. Show(r, i, index, frame) = q
    BY <1>1, <1>4
  <2>2. /\ ViewOK(gone) /\ SameButIcons(r.w, gone)
        /\ anew => DOMAIN gone.icons = DOMAIN r.w.icons \ {t.handle}
        /\ \A g \in DOMAIN gone.icons : gone.icons[g] = r.w.icons[g]
    <3> HIDE DEF style, t
    <3>1. CASE style # t.style /\ t.handle # 0
      <4>1. gone = RemoveBriefingMarkers(r.w, {t.handle})
        BY <3>1
      <4> HIDE DEF gone
      <4> QED
        BY <1>2, <4>1, IconsRemoved
    <3>2. CASE ~(style # t.style /\ t.handle # 0)
      <4>1. gone = r.w
        BY <3>2
      <4>2. anew => t.handle = 0
        BY <3>2
      <4> HIDE DEF gone, anew
      <4>3. SameButIcons(r.w, r.w)
        BY <1>2 DEF ViewOK, SameButIcons, Views
      <4> QED
        BY <1>2, <4>1, <4>2, <4>3
    <3> QED
      BY <3>1, <3>2
  <2> HIDE DEF gone, style, def
  <2>3. /\ ViewOK(base) /\ SameButIcons(r.w, base)
        /\ DOMAIN base.icons = (DOMAIN r.w.icons \ {t.handle}) \cup {h}
        /\ h \in Nat \ {0} /\ h \notin DOMAIN r.w.icons \ {t.handle}
        /\ \A g \in DOMAIN r.w.icons \ {t.handle} : base.icons[g] = r.w.icons[g]
    <3>1. CASE anew
      <4>1. base = made /\ h = NewHandle(gone)
        BY <3>1
      <4>2. IsFiniteSet(DOMAIN gone.icons)
        BY <1>2, <2>2, <3>1, FS_Subset
      <4> HIDE DEF t, anew, base, h
      <4>3. h \in Nat \ {0} /\ h \notin DOMAIN gone.icons
        BY <4>1, <4>2, FreshHandle
      <4>4. PICK icon : IconOK(gone, icon) /\ made = WithIcon(gone, icon)
        BY <2>2, MarkerCreated
      <4> HIDE DEF made
      <4>5. /\ ViewOK(made) /\ SameButIcons(gone, made)
            /\ DOMAIN made.icons = DOMAIN gone.icons \cup {h}
            /\ \A g \in DOMAIN gone.icons \ {h} : made.icons[g] = gone.icons[g]
        BY <2>2, <4>1, <4>4, IconAdded
      <4>6. SameButIcons(r.w, made)
        BY <2>2, <4>5 DEF SameButIcons, Views
      <4> QED
        BY <2>2, <3>1, <4>1, <4>3, <4>5, <4>6
    <3>2. CASE ~anew
      <4>1. base = r.w /\ h = t.handle /\ t.handle # 0
        BY <3>2
      <4>2. i \in OnMap(r.m)
        BY <4>1 DEF OnMap
      <4>3. t.handle \in DOMAIN r.w.icons
        BY <1>2, <4>2 DEF HandlesOK
      <4> HIDE DEF t, anew, base, h
      <4>4. SameButIcons(r.w, r.w)
        BY <1>2 DEF ViewOK, SameButIcons, Views
      <4> QED
        BY <1>2, <4>1, <4>3, <4>4
    <3> QED
      BY <3>1, <3>2
  <2>4. /\ MarkOK(new) /\ new.def = t.def /\ new.group = t.group /\ new.handle = h
        /\ new.last = index /\ new.interp = frame
    <3>1. t \in Marks(t) /\ DefOK(t.def)
      BY <1>2 DEF MarkOK
    <3> HIDE DEF t, h
    <3>2. /\ new \in Marks(new) /\ new.def = t.def /\ new.group = t.group /\ new.handle = h
          /\ new.last = index /\ new.interp = frame
      BY <2>3, <3>1 DEF Marks
    <3> HIDE DEF new
    <3> QED
      BY <3>1, <3>2 DEF MarkOK
  <2>5. at = PlaceAt(new, index, frame)
    <3> HIDE DEF new, t
    <3> QED
      BY <2>4 DEF PlaceAt, Interpolates
  <2>6. /\ ViewOK(v) /\ SameButIcons(base, v) /\ DOMAIN v.icons = DOMAIN base.icons
        /\ v.icons[h].at = at /\ \A g \in DOMAIN base.icons \ {h} : v.icons[g] = base.icons[g]
    <3> HIDE DEF base, h, at
    <3> QED
      BY <2>3, IconPlaced
  <2> HIDE DEF base, h, at, v, new
  <2>7. SameButIcons(r.w, v)
    BY <2>3, <2>6 DEF SameButIcons, Views
  <2>8. /\ MapOK(q) /\ SameMarks(r, q) /\ q.m.tracked[i] = new /\ q.w = v
        /\ \A j \in DOMAIN r.m.tracked \ {i} : SameMark(r, q, j)
    BY <2>3, <2>4, <2>5, <2>6, <2>7, Replaced
  <2> HIDE DEF q
  <2> QED
    BY <2>1, <2>3, <2>4, <2>5, <2>6, <2>8
<1> QED
  BY <1>3, <1>4

-----------------------------------------------------------------------------
(* Loops                                                                    *)

\* A place at which the marker is in this frame: the last at or before it.
LastBefore(positions, frame, index) ==
    /\ index \in DOMAIN positions /\ positions[index].frame <= frame
    /\ \A j \in DOMAIN positions : positions[j].frame <= frame => j <= index

Active(def, frame) ==
    /\ def.positions # <<>> /\ frame >= def.start
    /\ def.end = Forever \/ frame <= def.end

\* The last position so far is in the range, and is its first one or its last.
InRange(positions, frame, lo, hi) ==
    /\ lo \in DOMAIN positions /\ hi \in DOMAIN positions /\ lo <= hi
    /\ positions[lo].frame <= frame
    /\ \A j \in DOMAIN positions : j > hi => positions[j].frame > frame

\* A turn of the bisection keeps that, and makes a range of three or more
\* positions shorter.
LEMMA Halved ==
    ASSUME NEW positions \in Seq(RawPositions), NEW frame \in Nat,
           \A i, j \in DOMAIN positions : i < j => positions[i].frame <= positions[j].frame,
           NEW lo, NEW hi, InRange(positions, frame, lo, hi)
    PROVE  \E l, h : /\ Halve(positions, frame, <<lo, hi>>) = <<l, h>>
                     /\ InRange(positions, frame, l, h)
                     /\ h - l <= 1 \/ h - l < hi - lo
<1> DEFINE mid == (hi - lo) \div 2 + lo
           n == Len(positions)
<1>1. n \in Nat /\ DOMAIN positions = 1 .. n
  OBVIOUS
<1>2. \A i \in 1 .. n : positions[i].frame \in Nat
  <2>1. \A i \in 1 .. n : positions[i] \in RawPositions
    OBVIOUS
  <2> QED
    BY <2>1 DEF RawPositions
<1>3. lo \in 1 .. n /\ hi \in 1 .. n /\ lo <= hi
  BY <1>1 DEF InRange
<1>4. /\ mid \in Int /\ lo <= mid /\ mid <= hi
      /\ hi - lo >= 1 => mid < hi
      /\ hi - lo >= 2 => lo < mid
  BY <1>1, <1>3
<1>5. Halve(positions, frame, <<lo, hi>>) =
        IF positions[mid].frame > frame THEN <<lo, mid - 1>> ELSE <<mid, hi>>
  BY DEF Halve
<1> HIDE DEF mid, n
<1>6. mid \in 1 .. n
  BY <1>1, <1>3, <1>4
<1>7. CASE positions[mid].frame > frame
  <2>1. mid # lo
    BY <1>2, <1>3, <1>7 DEF InRange
  <2>2. mid - 1 \in 1 .. n /\ lo <= mid - 1 /\ (mid - 1) - lo < hi - lo
    BY <1>1, <1>3, <1>4, <1>6, <2>1
  <2>3. ASSUME NEW j \in 1 .. n, j > mid - 1 PROVE positions[j].frame > frame
    <3>1. j = mid \/ mid < j
      BY <1>1, <1>6, <2>3
    <3>2. mid < j => positions[mid].frame <= positions[j].frame
      BY <1>1, <1>6
    <3> QED
      BY <1>2, <1>6, <1>7, <3>1, <3>2
  <2>4. InRange(positions, frame, lo, mid - 1)
    BY <1>1, <2>2, <2>3 DEF InRange
  <2> QED
    BY <1>5, <1>7, <2>2, <2>4
<1>8. CASE ~(positions[mid].frame > frame)
  <2>1. positions[mid].frame <= frame
    BY <1>2, <1>6, <1>8
  <2>2. InRange(positions, frame, mid, hi)
    BY <1>1, <1>3, <1>4, <1>6, <2>1 DEF InRange
  <2>3. hi - mid <= 1 \/ hi - mid < hi - lo
    BY <1>1, <1>3, <1>4, <1>6
  <2> QED
    BY <1>5, <1>8, <2>2, <2>3
<1> QED
  BY <1>7, <1>8

\* findPositionIndex finds the last position so far.
LEMMA IndexFound ==
    ASSUME NEW def, DefOK(def), NEW frame \in Nat
    PROVE  LET index == findPositionIndex(def.positions, frame, def.start, def.end)
           IN  /\ Active(def, frame) => LastBefore(def.positions, frame, index) /\ index # 0
               /\ ~Active(def, frame) => index = 0
<1> DEFINE positions == def.positions
           n == Len(positions)
           range == CHOOSE f : f = [k \in 0 .. n |->
                        IF k = 0 THEN <<1, n>> ELSE Halve(positions, frame, f[k - 1])]
           lo == range[n][1]
           hi == range[n][2]
           inactive == n = 0 \/ frame < def.start \/ (def.end # Forever /\ frame > def.end)
           index == findPositionIndex(positions, frame, def.start, def.end)
<1>1. index = IF inactive THEN 0 ELSE IF positions[hi].frame <= frame THEN hi ELSE lo
  BY DEF findPositionIndex
<1>2. /\ positions \in Seq(RawPositions) /\ n \in Nat /\ DOMAIN positions = 1 .. n
      /\ \A i, j \in DOMAIN positions : i < j => positions[i].frame <= positions[j].frame
      /\ positions # <<>> => positions[1].frame <= def.start
      /\ def.start \in Nat /\ def.end \in Int
  BY DEF DefOK
<1>3. \A i \in 1 .. n : positions[i].frame \in Nat
  <2>1. \A i \in 1 .. n : positions[i] \in RawPositions
    BY <1>2
  <2> QED
    BY <2>1 DEF RawPositions
<1>4. inactive <=> ~Active(def, frame)
  BY <1>2 DEF Active, Forever
<1>5. SUFFICES ASSUME ~inactive PROVE LastBefore(positions, frame, index) /\ index # 0
  <2> HIDE DEF range, lo, hi
  <2> QED
    BY <1>1, <1>4
<1>6. n # 0 /\ positions # <<>> /\ positions[1].frame <= frame
  BY <1>2, <1>3, <1>5
<1> DEFINE X == Int \X Int
           step == [x \in X \X (1 .. n) |-> Halve(positions, frame, x[1])]
<1>7. PICK f \in [0 .. n -> X] : Loop(<<1, n>>, step, f, n)
  <2>1. \A x \in X : Halve(positions, frame, x) \in X
    BY DEF Halve
  <2>2. step \in [X \X (1 .. n) -> X]
    BY <2>1
  <2>3. <<1, n>> \in X
    BY <1>2
  <2> HIDE DEF X, step, n
  <2> QED
    BY <1>2, <2>2, <2>3, LoopExists
<1>8. f = [k \in 0 .. n |-> IF k = 0 THEN <<1, n>> ELSE Halve(positions, frame, f[k - 1])]
  <2>1. \A k \in 1 .. n : f[k - 1] \in X
    BY <1>2
  <2>2. \A k \in 1 .. n : step[<<f[k - 1], k>>] = Halve(positions, frame, f[k - 1])
    <3> HIDE DEF X
    <3> QED
      BY <2>1
  <2> HIDE DEF X, step, n
  <2>3. f = [k \in 0 .. n |-> IF k = 0 THEN <<1, n>> ELSE step[<<f[k - 1], k>>]]
    BY <1>7 DEF Loop
  <2>4. \A k \in 0 .. n : k # 0 => k \in 1 .. n
    BY <1>2
  <2> QED
    BY <2>2, <2>3, <2>4
<1>9. range = [k \in 0 .. n |-> IF k = 0 THEN <<1, n>> ELSE Halve(positions, frame, range[k - 1])]
  <2> HIDE DEF n
  <2> QED
    BY <1>8
<1> HIDE DEF range, X, step
<1>10. range[0] = <<1, n>> /\ \A k \in 1 .. n : range[k] = Halve(positions, frame, range[k - 1])
  <2>1. 0 \in 0 .. n /\ \A k \in 1 .. n : k \in 0 .. n /\ k # 0
    BY <1>2
  <2> HIDE DEF n
  <2> QED
    BY <1>9, <2>1
<1> DEFINE T == {k \in 0 .. n : \E l, h : /\ range[k] = <<l, h>> /\ InRange(positions, frame, l, h)
                                          /\ h - l <= 1 \/ h - l <= n - 1 - k}
<1>11. \A k \in 0 .. n : k \in T
  <2>1. 0 \in T
    <3>1. InRange(positions, frame, 1, n)
      BY <1>2, <1>6 DEF InRange
    <3>2. range[0] = <<1, n>> /\ n - 1 <= n - 1 - 0 /\ 0 \in 0 .. n
      BY <1>2, <1>10
    <3> QED
      BY <3>1, <3>2
  <2>2. ASSUME NEW k \in 1 .. n, k - 1 \in T PROVE k \in T
    <3>1. PICK l, h : /\ range[k - 1] = <<l, h>> /\ InRange(positions, frame, l, h)
                      /\ h - l <= 1 \/ h - l <= n - 1 - (k - 1)
      BY <2>2
    <3>2. PICK a, b : /\ Halve(positions, frame, <<l, h>>) = <<a, b>>
                      /\ InRange(positions, frame, a, b)
                      /\ b - a <= 1 \/ b - a < h - l
      BY <1>2, <3>1, Halved
    <3>3. range[k] = <<a, b>>
      BY <1>10, <3>1, <3>2
    <3>4. b - a <= 1 \/ b - a <= n - 1 - k
      <4>1. l \in Int /\ h \in Int /\ a \in Int /\ b \in Int
        BY <1>2, <3>1, <3>2 DEF InRange
      <4> QED
        BY <1>2, <3>1, <3>2, <4>1
    <3>5. k \in 0 .. n
      BY <1>2
    <3> QED
      BY <3>2, <3>3, <3>4, <3>5
  <2> HIDE DEF T, n
  <2> QED
    BY <1>2, <2>1, <2>2, Turns
<1>12. /\ InRange(positions, frame, lo, hi) /\ hi - lo <= 1
  <2>1. n \in T
    <3> HIDE DEF T
    <3> QED
      BY <1>2, <1>11
  <2>2. PICK l, h : /\ range[n] = <<l, h>> /\ InRange(positions, frame, l, h)
                    /\ h - l <= 1 \/ h - l <= n - 1 - n
    BY <2>1
  <2>3. lo = l /\ hi = h
    BY <2>2
  <2>4. h - l <= 1
    BY <1>2, <2>2 DEF InRange
  <2> QED
    BY <2>2, <2>3, <2>4
<1> HIDE DEF lo, hi, index, inactive
<1>13. lo \in 1 .. n /\ hi \in 1 .. n /\ lo <= hi /\ hi <= lo + 1
  BY <1>2, <1>12 DEF InRange
<1> DEFINE late(j) == positions[j].frame > frame
<1>14. \A j \in 1 .. n : j > hi => late(j)
  BY <1>2, <1>12 DEF InRange
<1>15. \A j \in 1 .. n : late(j) => ~(positions[j].frame <= frame)
  BY <1>3
<1> HIDE DEF late
<1>16. CASE positions[hi].frame <= frame
  <2>1. index = hi
    BY <1>1, <1>5, <1>16
  <2>2. \A j \in 1 .. n : positions[j].frame <= frame => j <= hi
    BY <1>2, <1>13, <1>14, <1>15
  <2> QED
    BY <1>2, <1>13, <1>16, <2>1, <2>2 DEF LastBefore
<1>17. CASE ~(positions[hi].frame <= frame)
  <2>1. index = lo
    BY <1>1, <1>5, <1>17
  <2>2. positions[lo].frame <= frame
    BY <1>12 DEF InRange
  <2>3. ASSUME NEW j \in 1 .. n, positions[j].frame <= frame PROVE j <= lo
    <3>1. ~(j > hi) /\ j # hi
      BY <1>14, <1>15, <1>17, <2>3
    <3> QED
      BY <1>2, <1>13, <3>1
  <2> QED
    BY <1>2, <1>13, <2>1, <2>2, <2>3 DEF LastBefore
<1> QED
  BY <1>16, <1>17

-----------------------------------------------------------------------------
(* The markers of a frame                                                   *)

\* A marker is on the map if and only if it is to be, at its last position.
Right(r, i, frame) ==
    LET t == r.m.tracked[i]
    IN  /\ t.handle # 0 <=> /\ Active(t.def, frame)
                            /\ matchesSideFilter(r.m, t) /\ ~isBlacklisted(r.m, t)
        /\ t.handle # 0 => \E last : /\ LastBefore(t.def.positions, frame, last)
                                     /\ r.w.icons[t.handle].at = PlaceAt(t, last, frame)

\* The filters look at what no update of the markers changes.
LEMMA SameFilters ==
    ASSUME NEW r, NEW q, SameMarks(r, q), NEW i \in DOMAIN r.m.tracked
    PROVE  LET t == r.m.tracked[i]
               u == q.m.tracked[i]
           IN  /\ matchesSideFilter(q.m, u) <=> matchesSideFilter(r.m, t)
               /\ isBlacklisted(q.m, u) <=> isBlacklisted(r.m, t)
<1>1. q.m.side = r.m.side /\ q.m.black = r.m.black /\ q.m.tracked[i].def = r.m.tracked[i].def
  BY DEF SameMarks
<1> QED
  BY <1>1 DEF matchesSideFilter, isBlacklisted

\* Updates of the markers one after the other.
LEMMA SameMarksTwice ==
    ASSUME NEW r, NEW q, NEW u, SameMarks(r, q), SameMarks(q, u)
    PROVE  SameMarks(r, u)
<1>1. SameButIcons(r.w, u.w)
  BY DEF SameMarks, SameButIcons, Views
<1> QED
  BY <1>1 DEF SameMarks

\* Right of a marker stays right while others are updated.
LEMMA StaysRight ==
    ASSUME NEW r, NEW q, SameMarks(r, q), NEW i \in DOMAIN r.m.tracked, SameMark(r, q, i),
           NEW frame, Right(r, i, frame)
    PROVE  Right(q, i, frame)
<1>1. q.m.tracked[i] = r.m.tracked[i]
  BY DEF SameMark
<1>2. /\ matchesSideFilter(q.m, q.m.tracked[i]) <=> matchesSideFilter(r.m, r.m.tracked[i])
      /\ isBlacklisted(q.m, q.m.tracked[i]) <=> isBlacklisted(r.m, r.m.tracked[i])
  BY SameFilters
<1> DEFINE t == r.m.tracked[i]
<1>3. t.handle # 0 => q.w.icons[t.handle] = r.w.icons[t.handle]
  BY DEF SameMark
<1>4. q.m.tracked[i] = t
  BY <1>1
<1>5. /\ t.handle # 0 <=> /\ Active(t.def, frame)
                          /\ matchesSideFilter(r.m, t) /\ ~isBlacklisted(r.m, t)
      /\ t.handle # 0 => \E last : /\ LastBefore(t.def.positions, frame, last)
                                   /\ r.w.icons[t.handle].at = PlaceAt(t, last, frame)
  BY DEF Right
<1>6. /\ t.handle # 0 <=> /\ Active(t.def, frame)
                          /\ matchesSideFilter(q.m, t) /\ ~isBlacklisted(q.m, t)
      /\ t.handle # 0 => \E last : /\ LastBefore(t.def.positions, frame, last)
                                   /\ q.w.icons[t.handle].at = PlaceAt(t, last, frame)
  <2>1. /\ matchesSideFilter(q.m, t) <=> matchesSideFilter(r.m, t)
        /\ isBlacklisted(q.m, t) <=> isBlacklisted(r.m, t)
    BY <1>2, <1>4
  <2> HIDE DEF t
  <2> QED
    BY <1>3, <1>5, <2>1
<1> HIDE DEF t
<1> QED
  BY <1>4, <1>6 DEF Right

\* A marker's turn makes it right and leaves the others as they are.
LEMMA Updated ==
    ASSUME NEW r, MapOK(r), NEW i \in DOMAIN r.m.tracked, NEW frame \in Nat
    PROVE  LET q == Update(r, i, frame)
           IN  /\ MapOK(q) /\ SameMarks(r, q) /\ Right(q, i, frame)
               /\ \A j \in DOMAIN r.m.tracked \ {i} : SameMark(r, q, j)
<1> DEFINE t == r.m.tracked[i]
           index == findPositionIndex(t.def.positions, frame, t.def.start, t.def.end)
           none == index = 0 \/ isBlacklisted(r.m, t) \/ ~matchesSideFilter(r.m, t)
           q == Update(r, i, frame)
           u == q.m.tracked[i]
<1>1. q = IF none THEN Hide(r, {i}) ELSE Show(r, i, index, frame)
  BY DEF Update
<1>2. DefOK(t.def)
  BY DEF MapOK, MgrOK, MarkOK
<1>3. /\ Active(t.def, frame) => LastBefore(t.def.positions, frame, index) /\ index # 0
      /\ ~Active(t.def, frame) => index = 0
  <2> HIDE DEF t
  <2> QED
    BY <1>2, IndexFound
<1>4. none <=> ~(/\ Active(t.def, frame)
                 /\ matchesSideFilter(r.m, t) /\ ~isBlacklisted(r.m, t))
  <2> HIDE DEF t, index
  <2> QED
    BY <1>3
<1>5. CASE none
  <2>1. q = Hide(r, {i})
    BY <1>1, <1>5
  <2> HIDE DEF q, none, index
  <2>2. /\ MapOK(q) /\ SameMarks(r, q)
        /\ \A j \in {i} : q.m.tracked[j].handle = 0
        /\ \A j \in DOMAIN r.m.tracked \ {i} : SameMark(r, q, j)
    BY <2>1, Hidden
  <2>3. u.handle = 0 /\ u.def = t.def
    BY <2>2 DEF SameMarks
  <2>4. /\ matchesSideFilter(q.m, u) <=> matchesSideFilter(r.m, t)
        /\ isBlacklisted(q.m, u) <=> isBlacklisted(r.m, t)
    BY <2>2, SameFilters
  <2>5. Right(q, i, frame)
    <3>1. ~(Active(u.def, frame) /\ matchesSideFilter(q.m, u) /\ ~isBlacklisted(q.m, u))
      <4> HIDE DEF t, u
      <4> QED
        BY <1>4, <1>5, <2>3, <2>4
    <3> QED
      BY <2>3, <3>1 DEF Right
  <2> QED
    BY <2>2, <2>5 DEF q
<1>6. CASE ~none
  <2>1. q = Show(r, i, index, frame)
    BY <1>1, <1>6
  <2> HIDE DEF q, none, index
  <2>2. /\ MapOK(q) /\ SameMarks(r, q)
        /\ \A j \in DOMAIN r.m.tracked \ {i} : SameMark(r, q, j)
        /\ u.handle # 0 /\ q.w.icons[u.handle].at = PlaceAt(u, index, frame)
    BY <2>1, Shown
  <2>3. u.def = t.def
    BY <2>2 DEF SameMarks
  <2>4. /\ matchesSideFilter(q.m, u) <=> matchesSideFilter(r.m, t)
        /\ isBlacklisted(q.m, u) <=> isBlacklisted(r.m, t)
    BY <2>2, SameFilters
  <2>5. Right(q, i, frame)
    <3>1. /\ Active(u.def, frame) /\ matchesSideFilter(q.m, u) /\ ~isBlacklisted(q.m, u)
          /\ LastBefore(u.def.positions, frame, index)
      <4> HIDE DEF t, u
      <4> QED
        BY <1>3, <1>4, <1>6, <2>3, <2>4
    <3> QED
      BY <2>2, <3>1 DEF Right
  <2> QED
    BY <2>2, <2>5 DEF q
<1> QED
  BY <1>5, <1>6

\* The loop of updateFrame has a value, as the values up to any turn exist.
LEMMA UpdatesExist ==
    ASSUME NEW r, NEW frame, NEW n \in Nat
    PROVE  \E f : f = [k \in 0 .. n |-> IF k = 0 THEN r ELSE Update(f[k - 1], k, frame)]
<1> DEFINE Run(f, m) == f = [k \in 0 .. m |-> IF k = 0 THEN r ELSE Update(f[k - 1], k, frame)]
           T == {m \in 0 .. n : \E f : Run(f, m)}
<1>1. 0 \in T
  <2> DEFINE f == [k \in 0 .. 0 |-> r]
  <2>1. Run(f, 0)
    OBVIOUS
  <2> HIDE DEF f, Run
  <2> QED
    BY <2>1
<1>2. ASSUME NEW m \in 1 .. n, m - 1 \in T PROVE m \in T
  <2>1. PICK f : Run(f, m - 1)
    BY <1>2
  <2> DEFINE last == Update(f[m - 1], m, frame)
             g == [k \in 0 .. m |-> IF k = m THEN last ELSE f[k]]
  <2>2. \A k \in 0 .. m - 1 : f[k] = IF k = 0 THEN r ELSE Update(f[k - 1], k, frame)
    BY <2>1
  <2>3. ASSUME NEW k \in 0 .. m PROVE g[k] = IF k = 0 THEN r ELSE Update(g[k - 1], k, frame)
    <3>1. CASE k = m
      <4>1. g[k] = last /\ g[k - 1] = f[m - 1] /\ k # 0
        BY <3>1
      <4> HIDE DEF g
      <4> QED
        BY <3>1, <4>1
    <3>2. CASE k # m
      <4>1. k \in 0 .. m - 1 /\ g[k] = f[k]
        BY <3>2
      <4>2. k # 0 => g[k - 1] = f[k - 1]
        BY <3>2
      <4> HIDE DEF g
      <4> QED
        BY <2>2, <4>1, <4>2
    <3> QED
      BY <3>1, <3>2
  <2>4. Run(g, m)
    <3>1. g = [k \in 0 .. m |-> g[k]]
      OBVIOUS
    <3> HIDE DEF g
    <3> QED
      BY <2>3, <3>1
  <2> HIDE DEF Run, g
  <2> QED
    BY <2>4
<1>3. \A k \in 0 .. n : k \in T
  <2> HIDE DEF T
  <2> QED
    BY <1>1, <1>2, Turns
<1>4. \E f : Run(f, n)
  <2>1. n \in 0 .. n
    OBVIOUS
  <2> QED
    BY <1>3, <2>1
<1> QED
  BY <1>4

\* After updateFrame every marker is right for the frame.
LEMMA FrameUpdated ==
    ASSUME NEW r, MapOK(r), NEW frame \in Nat
    PROVE  LET q == updateFrame(r, frame)
           IN  /\ MapOK(q) /\ SameMarks(r, q)
               /\ \A i \in DOMAIN r.m.tracked : Right(q, i, frame)
<1> DEFINE n == Len(r.m.tracked)
           done == CHOOSE f : f = [k \in 0 .. n |->
                        IF k = 0 THEN r ELSE Update(f[k - 1], k, frame)]
           Good(k) == /\ MapOK(done[k]) /\ SameMarks(r, done[k])
                      /\ \A i \in 1 .. k : Right(done[k], i, frame)
<1>1. updateFrame(r, frame) = done[n]
  BY DEF updateFrame
<1>2. n \in Nat /\ DOMAIN r.m.tracked = 1 .. n
  BY DEF MapOK, MgrOK
<1>3. done = [k \in 0 .. n |-> IF k = 0 THEN r ELSE Update(done[k - 1], k, frame)]
  <2> HIDE DEF n
  <2> QED
    BY <1>2, UpdatesExist
<1> HIDE DEF done, n
<1>4. done[0] = r /\ \A k \in 1 .. n : done[k] = Update(done[k - 1], k, frame)
  <2>1. 0 \in 0 .. n /\ \A k \in 1 .. n : k \in 0 .. n /\ k # 0
    BY <1>2
  <2> QED
    BY <1>3, <2>1
<1> DEFINE T == {k \in 0 .. n : Good(k)}
<1>5. 0 \in T
  <2>1. SameMarks(r, r)
    BY DEF MapOK, ViewOK, SameMarks, SameButIcons, Views
  <2> QED
    BY <1>2, <1>4, <2>1
<1>6. ASSUME NEW k \in 1 .. n, k - 1 \in T PROVE k \in T
  <2> DEFINE a == done[k - 1]
             b == done[k]
  <2>1. /\ MapOK(a) /\ SameMarks(r, a)
        /\ \A i \in 1 .. k - 1 : Right(a, i, frame)
    BY <1>6
  <2>2. b = Update(a, k, frame) /\ DOMAIN a.m.tracked = 1 .. n
    BY <1>2, <1>4, <2>1 DEF SameMarks
  <2> HIDE DEF a, b
  <2>3. /\ MapOK(b) /\ SameMarks(a, b) /\ Right(b, k, frame)
        /\ \A j \in 1 .. n \ {k} : SameMark(a, b, j)
    BY <2>1, <2>2, Updated
  <2>4. SameMarks(r, b)
    BY <2>1, <2>3, SameMarksTwice
  <2>5. ASSUME NEW i \in 1 .. k PROVE Right(b, i, frame)
    <3>1. CASE i = k
      BY <2>3, <3>1
    <3>2. CASE i # k
      <4>1. i \in 1 .. k - 1 /\ i \in (1 .. n) \ {k}
        BY <1>2, <3>2
      <4> QED
        BY <2>1, <2>2, <2>3, <4>1, StaysRight
    <3> QED
      BY <3>1, <3>2
  <2>6. k \in 0 .. n
    BY <1>2
  <2> QED
    BY <2>3, <2>4, <2>5, <2>6 DEF b
<1>7. \A k \in 0 .. n : k \in T
  <2> HIDE DEF T
  <2> QED
    BY <1>2, <1>5, <1>6, Turns
<1>8. Good(n)
  <2>1. n \in 0 .. n
    BY <1>2
  <2> QED
    BY <1>7, <2>1
<1> QED
  BY <1>1, <1>2, <1>8

-----------------------------------------------------------------------------
(* The recording                                                            *)

\* A marker with another side, end and positions.
MarkerOf(raw, side, end, positions) ==
    [raw EXCEPT !.side = side, !.end = end, !.positions = positions]
PlacedAll(raw) == [i \in 1 .. Len(raw.positions) |-> Placed(raw.positions[i])]

\* A position as the server reads it, and one that begins with its frame.
LEMMA PositionRead ==
    ASSUME NEW p \in RawPositions
    PROVE  /\ Placed(p) \in RawPositions
           /\ p.form = "frame first" =>
                Placed(p) = [p EXCEPT !.alpha = IF p.alpha = None THEN 0 ELSE p.alpha]
<1> DEFINE alpha == IF p.alpha = None THEN 0 ELSE p.alpha
<1>1. p \in [form: Forms, frame: Nat, at: Int, style: STRING \cup {None}, alpha: Nat \cup {None}]
  BY DEF RawPositions
<1>2. alpha \in Nat \cup {None} /\ 0 \in Nat /\ None \in STRING \cup {None} /\ "frame first" \in Forms
  BY <1>1 DEF Forms
<1>3. p.form \in {"frame first", "place first", "place only"}
  BY <1>1 DEF Forms
<1> HIDE DEF alpha
<1>4. CASE p.form = "frame first"
  <2>1. Placed(p) = [p EXCEPT !.alpha = alpha]
    BY <1>4 DEF Placed, alpha
  <2>2. [p EXCEPT !.alpha = alpha] \in RawPositions
    BY <1>1, <1>2 DEF RawPositions
  <2> QED
    BY <2>1, <2>2 DEF alpha
<1>5. CASE p.form = "place first"
  <2>1. Placed(p) = [p EXCEPT !.form = "frame first", !.style = None, !.alpha = alpha]
    BY <1>5 DEF Placed, alpha
  <2>2. [p EXCEPT !.form = "frame first", !.style = None, !.alpha = alpha] \in RawPositions
    BY <1>1, <1>2 DEF RawPositions
  <2> QED
    BY <1>5, <2>1, <2>2
<1>6. CASE p.form = "place only"
  <2>1. Placed(p) = [p EXCEPT !.form = "frame first", !.frame = 0, !.style = None, !.alpha = 0]
    BY <1>6 DEF Placed
  <2>2. [p EXCEPT !.form = "frame first", !.frame = 0, !.style = None, !.alpha = 0] \in RawPositions
    BY <1>1, <1>2 DEF RawPositions
  <2> QED
    BY <1>6, <2>1, <2>2
<1> QED
  BY <1>3, <1>4, <1>5, <1>6

\* What is known of a marker as it is written.
LEMMA RawMarker ==
    ASSUME NEW raw \in RawMarkers
    PROVE  /\ raw \in [shape: STRING, type: STRING, text: BOOLEAN, side: -1 .. 3, player: Int,
                       start: Nat, end: Int, placed: BOOLEAN, positions: Seq(RawPositions)]
           /\ Len(raw.positions) \in Nat /\ DOMAIN raw.positions = 1 .. Len(raw.positions)
           /\ \A i \in DOMAIN raw.positions : raw.positions[i] \in RawPositions
           /\ parseMarker(raw).positions = PlacedAll(raw)
           /\ ~raw.placed => raw.positions = <<>>
           /\ PlacedAll(raw) # <<>> => PlacedAll(raw)[1].frame <= raw.start
           /\ \A i, j \in DOMAIN PlacedAll(raw) :
                    i < j => PlacedAll(raw)[i].frame <= PlacedAll(raw)[j].frame
<1>1. raw \in [shape: STRING, type: STRING, text: BOOLEAN, side: -1 .. 3, player: Int,
               start: Nat, end: Int, placed: BOOLEAN, positions: Seq(RawPositions)]
  BY DEF RawMarkers
<1> DEFINE p == raw.positions
<1>2. p \in Seq(RawPositions)
  BY <1>1
<1>3. /\ Len(p) \in Nat /\ DOMAIN p = 1 .. Len(p)
      /\ \A i \in DOMAIN p : p[i] \in RawPositions
  <2> HIDE DEF p
  <2> QED
    BY <1>2
<1>4. parseMarker(raw).positions = PlacedAll(raw)
  <2> DEFINE s == sideIndexToString(raw.side)
             e == IF raw.end < 0 THEN 0 ELSE raw.end
             q == [i \in DOMAIN raw.positions |-> Placed(raw.positions[i])]
  <2>1. parseMarker(raw) = [raw EXCEPT !.side = s, !.end = e, !.positions = q]
    BY DEF parseMarker
  <2>2. q = PlacedAll(raw)
    BY <1>3 DEF PlacedAll
  <2> HIDE DEF s, e, q
  <2>3. [raw EXCEPT !.side = s, !.end = e, !.positions = q].positions = q
    BY <1>1
  <2> QED
    BY <2>1, <2>2, <2>3
<1>5. /\ ~raw.placed => raw.positions = <<>>
      /\ parseMarker(raw).positions # <<>> => parseMarker(raw).positions[1].frame <= raw.start
      /\ \A i, j \in DOMAIN parseMarker(raw).positions :
            i < j => parseMarker(raw).positions[i].frame <= parseMarker(raw).positions[j].frame
  BY DEF RawMarkers
<1> QED
  BY <1>1, <1>3, <1>4, <1>5

\* The marker of either decoder.
LEMMA MarkersRead ==
    ASSUME NEW raw \in RawMarkers
    PROVE  /\ convertMarker(raw) =
                IF raw.placed
                THEN {MarkerOf(raw, MarkerSides[raw.side], raw.end, raw.positions)} ELSE {}
           /\ convertMarkerDef(parseMarker(raw)) =
                MarkerOf(raw, sideIndexToString(raw.side),
                         IF raw.end <= 0 THEN Forever ELSE raw.end, PlacedAll(raw))
<1>1. raw \in [shape: STRING, type: STRING, text: BOOLEAN, side: -1 .. 3, player: Int,
               start: Nat, end: Int, placed: BOOLEAN, positions: Seq(RawPositions)]
  BY RawMarker
<1> DEFINE s == sideIndexToString(raw.side)
           e == IF raw.end < 0 THEN 0 ELSE raw.end
           q == PlacedAll(raw)
           z == MarkerSides[raw.side]
           last == IF raw.end <= 0 THEN Forever ELSE raw.end
           sent == [raw EXCEPT !.side = s, !.end = e, !.positions = q]
<1>2. parseMarker(raw) = sent
  <2>1. q = [i \in DOMAIN raw.positions |-> Placed(raw.positions[i])]
    BY RawMarker DEF PlacedAll
  <2> QED
    BY <2>1 DEF parseMarker
<1>3. (IF e = 0 THEN Forever ELSE e) = last
  <2>1. raw.end \in Int
    BY <1>1
  <2> QED
    BY <2>1
<1>4. raw.placed => convertMarker(raw) = {[raw EXCEPT !.side = z]}
  BY DEF convertMarker
<1>5. ~raw.placed => convertMarker(raw) = {}
  BY DEF convertMarker
<1> HIDE DEF s, e, q, z, last
<1>6. [raw EXCEPT !.side = z] = MarkerOf(raw, z, raw.end, raw.positions)
  BY <1>1 DEF MarkerOf
<1>7. sent.end = e
  BY <1>1
<1>8. convertMarkerDef(sent) = [sent EXCEPT !.end = last]
  <2> HIDE DEF sent
  <2> QED
    BY <1>3, <1>7 DEF convertMarkerDef
<1>9. [sent EXCEPT !.end = last] = MarkerOf(raw, s, last, q)
  BY <1>1 DEF MarkerOf
<1> QED
  BY <1>2, <1>4, <1>5, <1>6, <1>8, <1>9 DEF s, q, z, last

\* Either decoder keeps what DefOK says of a marker.
LEMMA MarkersConverted ==
    ASSUME NEW raw \in RawMarkers
    PROVE  /\ FramesFirst(raw) => \A def \in convertMarker(raw) : DefOK(def)
           /\ DefOK(convertMarkerDef(parseMarker(raw)))
<1>1. raw \in [shape: STRING, type: STRING, text: BOOLEAN, side: -1 .. 3, player: Int,
               start: Nat, end: Int, placed: BOOLEAN, positions: Seq(RawPositions)]
  BY RawMarker
<1>2. /\ Len(raw.positions) \in Nat /\ DOMAIN raw.positions = 1 .. Len(raw.positions)
      /\ \A i \in DOMAIN raw.positions : raw.positions[i] \in RawPositions
      /\ PlacedAll(raw) # <<>> => PlacedAll(raw)[1].frame <= raw.start
      /\ \A i, j \in DOMAIN PlacedAll(raw) :
            i < j => PlacedAll(raw)[i].frame <= PlacedAll(raw)[j].frame
  BY RawMarker
<1>3. ASSUME NEW side, NEW end \in Int, NEW positions \in Seq(RawPositions),
             positions # <<>> => positions[1].frame <= raw.start,
             \A i, j \in DOMAIN positions : i < j => positions[i].frame <= positions[j].frame
      PROVE  DefOK(MarkerOf(raw, side, end, positions))
  <2> DEFINE def == MarkerOf(raw, side, end, positions)
  <2>1. def.positions = positions /\ def.start = raw.start /\ def.end = end /\ raw.start \in Nat
    BY <1>1 DEF MarkerOf
  <2> HIDE DEF def
  <2> QED
    BY <1>3, <2>1 DEF DefOK, def
<1>4. ASSUME FramesFirst(raw)
      PROVE  \A def \in convertMarker(raw) : DefOK(def)
  <2> DEFINE p == raw.positions
  <2>1. \A i \in DOMAIN p : p[i] \in RawPositions /\ p[i].form = "frame first"
    BY <1>2, <1>4 DEF FramesFirst
  <2>2. \A i \in DOMAIN p : PlacedAll(raw)[i].frame = p[i].frame
    <3> SUFFICES ASSUME NEW i \in DOMAIN p PROVE PlacedAll(raw)[i].frame = p[i].frame
      OBVIOUS
    <3>1. PlacedAll(raw)[i] = Placed(p[i])
      BY <1>2 DEF PlacedAll
    <3>2. Placed(p[i]) = [p[i] EXCEPT !.alpha = IF p[i].alpha = None THEN 0 ELSE p[i].alpha]
      BY <2>1, PositionRead
    <3>3. [p[i] EXCEPT !.alpha = IF p[i].alpha = None THEN 0 ELSE p[i].alpha].frame = p[i].frame
      BY <2>1 DEF RawPositions
    <3> QED
      BY <3>1, <3>2, <3>3
  <2>3. /\ DOMAIN PlacedAll(raw) = DOMAIN p
        /\ p # <<>> => PlacedAll(raw) # <<>> /\ 1 \in DOMAIN p
    <3>1. DOMAIN PlacedAll(raw) = 1 .. Len(p)
      BY DEF PlacedAll
    <3>2. p \in Seq(RawPositions)
      BY <1>1
    <3> HIDE DEF p
    <3>3. p # <<>> => 1 \in 1 .. Len(p)
      BY <3>2
    <3> QED
      BY <1>2, <3>1, <3>3 DEF p
  <2>4. /\ p # <<>> => p[1].frame <= raw.start
        /\ \A i, j \in DOMAIN p : i < j => p[i].frame <= p[j].frame
    <3> HIDE DEF p
    <3> QED
      BY <1>2, <2>2, <2>3
  <2>5. p \in Seq(RawPositions) /\ raw.end \in Int
    BY <1>1
  <2> HIDE DEF p
  <2>6. DefOK(MarkerOf(raw, MarkerSides[raw.side], raw.end, p))
    BY <1>3, <2>4, <2>5
  <2> QED
    BY <2>6, MarkersRead DEF p
<1>5. DefOK(convertMarkerDef(parseMarker(raw)))
  <2> DEFINE end == IF raw.end <= 0 THEN Forever ELSE raw.end
             q == PlacedAll(raw)
  <2>1. end \in Int
    BY <1>1 DEF Forever
  <2>2. q \in Seq(RawPositions)
    <3>1. \A i \in 1 .. Len(raw.positions) : Placed(raw.positions[i]) \in RawPositions
      BY <1>2, PositionRead
    <3> QED
      BY <1>2, <3>1 DEF PlacedAll
  <2> HIDE DEF end
  <2>3. DefOK(MarkerOf(raw, sideIndexToString(raw.side), end, q))
    <3> HIDE DEF q
    <3>1. /\ q # <<>> => q[1].frame <= raw.start
          /\ \A i, j \in DOMAIN q : i < j => q[i].frame <= q[j].frame
      BY <1>2 DEF q
    <3> QED
      BY <1>3, <2>1, <2>2, <3>1
  <2> QED
    BY <2>3, MarkersRead DEF end
<1> QED
  BY <1>4, <1>5

\* The markers read in JSON are those that are placed.
LEMMA MarkersKept ==
    ASSUME NEW raw, raw.markers \in Seq(RawMarkers)
    PROVE  LET defs == decodeJson(raw).markers
           IN  /\ Len(defs) \in Nat /\ DOMAIN defs = 1 .. Len(defs)
               /\ \A k \in DOMAIN defs : \E i \in DOMAIN raw.markers : defs[k] \in convertMarker(raw.markers[i])
               /\ \A i \in DOMAIN raw.markers : raw.markers[i].placed =>
                    \E k \in DOMAIN defs : defs[k] \in convertMarker(raw.markers[i])
<1> DEFINE m == raw.markers
           n == Len(m)
           sets == [i \in 1 .. n |-> convertMarker(m[i])]
           A == UNION {sets[i] : i \in 1 .. n}
           defs == decodeJson(raw).markers
<1>1. n \in Nat /\ DOMAIN m = 1 .. n
  <2> HIDE DEF m
  <2> QED
    BY DEF m
<1>2. defs = Kept(sets)
  BY <1>1 DEF decodeJson
<1>3. \A i \in 1 .. n : sets[i] = {} \/ \E e : sets[i] = {e}
  BY DEF convertMarker
<1>4. \A i \in 1 .. n : sets[i] = convertMarker(m[i]) /\ sets[i] \subseteq A
  OBVIOUS
<1>5. \A i \in 1 .. n : m[i].placed => sets[i] # {}
  BY DEF convertMarker
<1>6. sets = [i \in 1 .. n |-> sets[i]]
  OBVIOUS
<1> HIDE DEF sets, A, m, n, defs
<1>7. Matching(sets, sets, n, A)
  <2>1. \A i \in 1 .. n : Few(sets[i], A)
    BY <1>3, <1>4 DEF Few
  <2> QED
    BY <1>6, <2>1 DEF Matching
<1>8. defs \in Seq(A) /\ Together(sets, sets, n, defs, defs)
  BY <1>1, <1>2, <1>7, KeptTogether
<1>9. Len(defs) \in Nat /\ DOMAIN defs = 1 .. Len(defs)
  BY <1>8
<1>10. \A k \in DOMAIN defs : \E i \in DOMAIN m : defs[k] \in convertMarker(m[i])
  BY <1>1, <1>4, <1>8, <1>9 DEF Together
<1>11. \A i \in DOMAIN m : m[i].placed => \E k \in DOMAIN defs : defs[k] \in convertMarker(m[i])
  BY <1>1, <1>4, <1>5, <1>8, <1>9 DEF Together
<1> QED
  BY <1>9, <1>10, <1>11 DEF defs, m

\* A sequence of markers that are as DefOK says.
DefsOK(defs) ==
    /\ Len(defs) \in Nat /\ DOMAIN defs = 1 .. Len(defs)
    /\ \A i \in DOMAIN defs : DefOK(defs[i])

\* The recording of the visit.
LEMMA RecordingLoaded ==
    ASSUME SceneAssumption, visit \in Visits
    PROVE  Rec.end \in Nat /\ DefsOK(Rec.markers)
<1> DEFINE r == visit.rec
           raw == Recordings[r]
           n == Len(raw.markers)
<1>1. /\ r \in DOMAIN Recordings /\ visit.pb \in BOOLEAN
      /\ raw.end \in Nat /\ raw.markers \in Seq(RawMarkers)
  BY DEF SceneAssumption
<1>2. Rec = IF visit.pb THEN decodeManifest(raw) ELSE decodeJson(raw)
  BY <1>1 DEF Rec, Loaded, Manifest, Json
<1>3. n \in Nat /\ DOMAIN raw.markers = 1 .. n /\ \A i \in 1 .. n : raw.markers[i] \in RawMarkers
  BY <1>1
<1>4. Rec.end = raw.end
  BY <1>2 DEF decodeManifest, decodeJson
<1>5. CASE visit.pb
  <2> DEFINE defs == Rec.markers
  <2>1. defs = [i \in 1 .. n |-> convertMarkerDef(parseMarker(raw.markers[i]))]
    BY <1>2, <1>3, <1>5 DEF decodeManifest
  <2>2. \A i \in 1 .. n : DefOK(defs[i])
    <3>1. \A i \in 1 .. n : DefOK(convertMarkerDef(parseMarker(raw.markers[i])))
      BY <1>3, MarkersConverted
    <3> HIDE DEF n, raw, defs
    <3> QED
      BY <2>1, <3>1
  <2>3. defs = [i \in 1 .. n |-> defs[i]]
    <3> HIDE DEF n, raw, defs
    <3> QED
      BY <2>1
  <2> HIDE DEF n, defs
  <2>4. Len(defs) = n /\ DOMAIN defs = 1 .. n
    BY <1>3, <2>3, SequenceOf
  <2>5. DefsOK(defs)
    BY <1>3, <2>2, <2>4 DEF DefsOK
  <2> QED
    BY <1>1, <1>4, <2>5 DEF defs
<1>6. CASE ~visit.pb
  <2> DEFINE defs == Rec.markers
  <2>1. defs = decodeJson(raw).markers
    BY <1>2, <1>6
  <2>2. \A i \in DOMAIN raw.markers : FramesFirst(raw.markers[i])
    BY <1>6 DEF SceneAssumption
  <2> HIDE DEF defs
  <2>3. /\ Len(defs) \in Nat /\ DOMAIN defs = 1 .. Len(defs)
        /\ \A k \in DOMAIN defs : \E i \in DOMAIN raw.markers : defs[k] \in convertMarker(raw.markers[i])
    BY <1>1, <2>1, MarkersKept
  <2>4. \A k \in DOMAIN defs : DefOK(defs[k])
    <3> HIDE DEF raw, n
    <3> QED
      BY <1>3, <2>2, <2>3, MarkersConverted
  <2> QED
    BY <1>1, <1>4, <2>3, <2>4 DEF DefsOK, defs
<1> QED
  BY <1>5, <1>6

\* loadMarkers gives tracked markers of the recording that are not on the map.
LEMMA MarkersLoaded ==
    ASSUME NEW defs, DefsOK(defs)
    PROVE  LET tracked == loadMarkers(defs)
           IN  /\ Len(tracked) \in Nat /\ DOMAIN tracked = 1 .. Len(tracked)
               /\ \A i \in DOMAIN tracked : MarkOK(tracked[i]) /\ tracked[i].handle = 0
<1> DEFINE n == Len(defs)
           wanted(def) == def.type # "zoneTrigger" /\ (def.type = "Empty" => def.text)
           M == {Tracked(defs[i]) : i \in 1 .. n}
           X == Seq(M)
           Turn(x, i) == IF wanted(defs[i]) THEN Append(x, Tracked(defs[i])) ELSE x
           step == [p \in X \X (1 .. n) |-> Turn(p[1], p[2])]
           loaded == CHOOSE f : f = [i \in 0 .. n |->
                        IF i = 0 THEN <<>>
                        ELSE IF wanted(defs[i]) THEN Append(f[i - 1], Tracked(defs[i]))
                        ELSE f[i - 1]]
<1>1. loadMarkers(defs) = loaded[n]
  BY DEF loadMarkers
<1>2. n \in Nat /\ DOMAIN defs = 1 .. n /\ \A i \in 1 .. n : DefOK(defs[i])
  BY DEF DefsOK
<1>3. ASSUME NEW x \in X, NEW i \in 1 .. n PROVE Turn(x, i) \in X
  <2>1. Tracked(defs[i]) \in M
    OBVIOUS
  <2> HIDE DEF M
  <2> QED
    BY <2>1
<1>4. step \in [X \X (1 .. n) -> X]
  <2> HIDE DEF X, n, Turn
  <2> QED
    BY <1>3
<1>5. <<>> \in X
  OBVIOUS
<1>6. \A x \in X, i \in 1 .. n : step[<<x, i>>] = Turn(x, i)
  <2> HIDE DEF X, n, Turn
  <2> QED
    OBVIOUS
<1>7. PICK f \in [0 .. n -> X] : Loop(<<>>, step, f, n)
  <2> HIDE DEF X, n, step
  <2> QED
    BY <1>2, <1>4, <1>5, LoopExists
<1>8. f = [i \in 0 .. n |-> IF i = 0 THEN <<>>
                           ELSE IF wanted(defs[i]) THEN Append(f[i - 1], Tracked(defs[i]))
                           ELSE f[i - 1]]
  <2>1. ASSUME NEW i \in 0 .. n
        PROVE  f[i] = IF i = 0 THEN <<>> ELSE Turn(f[i - 1], i)
    <3>1. f[i] = IF i = 0 THEN <<>> ELSE step[<<f[i - 1], i>>]
      BY <1>7 DEF Loop
    <3>2. i # 0 => i \in 1 .. n /\ f[i - 1] \in X
      <4>1. i # 0 => i \in 1 .. n /\ i - 1 \in 0 .. n
        BY <1>2
      <4> HIDE DEF X, n
      <4> QED
        BY <1>7, <4>1
    <3> HIDE DEF X, n, step, Turn
    <3> QED
      BY <1>6, <3>1, <3>2
  <2>2. f = [i \in 0 .. n |-> f[i]]
    <3> HIDE DEF X, n
    <3> QED
      BY <1>7
  <2> HIDE DEF n, wanted
  <2> QED
    BY <2>1, <2>2
<1>9. loaded = [i \in 0 .. n |-> IF i = 0 THEN <<>>
                                ELSE IF wanted(defs[i]) THEN Append(loaded[i - 1], Tracked(defs[i]))
                                ELSE loaded[i - 1]]
  <2> HIDE DEF n, wanted
  <2> QED
    BY <1>8
<1>10. loaded[0] = <<>> /\ \A i \in 1 .. n : loaded[i] = Turn(loaded[i - 1], i)
  <2>1. 0 \in 0 .. n /\ \A i \in 1 .. n : i \in 0 .. n /\ i # 0
    BY <1>2
  <2> HIDE DEF n, wanted, loaded
  <2> QED
    BY <1>9, <2>1
<1> HIDE DEF loaded
<1> DEFINE T == {i \in 0 .. n : loaded[i] \in X}
<1>11. 0 \in T
  <2>1. 0 \in 0 .. n
    BY <1>2
  <2> HIDE DEF X, n
  <2> QED
    BY <1>5, <1>10, <2>1
<1>12. ASSUME NEW i \in 1 .. n, i - 1 \in T PROVE i \in T
  <2>1. i \in 0 .. n /\ loaded[i - 1] \in X
    BY <1>12
  <2> HIDE DEF X, n, Turn
  <2> QED
    BY <1>3, <1>10, <2>1
<1>13. \A i \in 0 .. n : i \in T
  <2> HIDE DEF T, n
  <2> QED
    BY <1>2, <1>11, <1>12, Turns
<1>14. loaded[n] \in X
  <2>1. n \in 0 .. n
    BY <1>2
  <2> HIDE DEF X, n
  <2> QED
    BY <1>13, <2>1
<1> DEFINE tracked == loadMarkers(defs)
<1>15. tracked \in Seq(M)
  BY <1>1, <1>14
<1>16. ASSUME NEW t \in M PROVE MarkOK(t) /\ t.handle = 0
  <2>1. PICK i \in 1 .. n : t = Tracked(defs[i])
    OBVIOUS
  <2>2. DefOK(defs[i])
    BY <1>2
  <2>3. t.def = defs[i] /\ t.handle = 0 /\ t \in Marks(t)
    BY <2>1 DEF Tracked, Marks
  <2> QED
    BY <2>2, <2>3 DEF MarkOK
<1> HIDE DEF tracked, M
<1>17. /\ Len(tracked) \in Nat /\ DOMAIN tracked = 1 .. Len(tracked)
       /\ \A i \in DOMAIN tracked : tracked[i] \in M
  BY <1>15
<1> QED
  BY <1>16, <1>17 DEF tracked

-----------------------------------------------------------------------------
(* The steps that change the map                                            *)

On(m, w) == [m |-> m, w |-> w]

\* What is on the map belongs to the side, and to nobody who is blacklisted.
Filtered(m) ==
    \A i \in OnMap(m) : matchesSideFilter(m, m.tracked[i]) /\ ~isBlacklisted(m, m.tracked[i])

\* The map only looks at the icons of the renderer.
LEMMA MapStays ==
    ASSUME NEW m, NEW w, NEW v, MapOK(On(m, w)), ViewOK(v), DOMAIN v.icons = DOMAIN w.icons,
           \A h \in DOMAIN w.icons : v.icons[h].at = w.icons[h].at
    PROVE  MapOK(On(m, v))
<1> DEFINE r == On(m, w)
           q == On(m, v)
<1>1. r.m = m /\ r.w = w /\ q.m = m /\ q.w = v /\ q \in Pairs(q)
  BY DEF On, Pairs
<1> HIDE DEF r, q
<1>2. MgrOK(m) /\ HandlesOK(r) /\ PlacesOK(r)
  BY <1>1 DEF MapOK, r
<1>3. HandlesOK(q)
  BY <1>1, <1>2 DEF HandlesOK
<1>4. PlacesOK(q)
  <2> SUFFICES ASSUME NEW i \in OnMap(m)
               PROVE  v.icons[m.tracked[i].handle].at =
                        PlaceAt(m.tracked[i], m.tracked[i].last, m.tracked[i].interp)
    BY <1>1 DEF PlacesOK
  <2>1. m.tracked[i].handle \in DOMAIN w.icons
    BY <1>1, <1>2 DEF HandlesOK
  <2> QED
    BY <1>1, <1>2, <2>1 DEF PlacesOK
<1> QED
  BY <1>1, <1>2, <1>3, <1>4 DEF MapOK, q

\* A manager with another filter, whose markers the filter forbids are hidden.
LEMMA Refiltered ==
    ASSUME NEW r, MapOK(r), NEW m, m \in Managers(m), m.tracked = r.m.tracked,
           NEW hidden, hidden \subseteq DOMAIN m.tracked,
           \A i \in OnMap(r.m) \ hidden :
                matchesSideFilter(m, m.tracked[i]) /\ ~isBlacklisted(m, m.tracked[i])
    PROVE  LET q == Hide([r EXCEPT !.m = m], hidden)
           IN  /\ MapOK(q) /\ Filtered(q.m) /\ SameButIcons(r.w, q.w)
               /\ q.m.side = m.side /\ q.m.black = m.black
<1> DEFINE u == [r EXCEPT !.m = m]
           q == Hide(u, hidden)
<1>1. u.m = m /\ u.w = r.w /\ u \in Pairs(u)
  BY DEF MapOK, Pairs
<1> HIDE DEF u
<1>2. MgrOK(m)
  BY DEF MapOK, MgrOK
<1>3. OnMap(m) = OnMap(r.m)
  BY DEF OnMap
<1>4. HandlesOK(u) /\ PlacesOK(u)
  BY <1>1, <1>3 DEF MapOK, HandlesOK, PlacesOK
<1>5. MapOK(u)
  BY <1>1, <1>2, <1>4 DEF MapOK
<1>6. /\ MapOK(q) /\ SameMarks(u, q)
      /\ \A i \in hidden : q.m.tracked[i].handle = 0
      /\ \A i \in DOMAIN m.tracked \ hidden : SameMark(u, q, i)
  <2>1. hidden \subseteq DOMAIN u.m.tracked
    BY <1>1
  <2> QED
    BY <1>1, <1>5, <2>1, Hidden
<1> HIDE DEF q
<1>7. Filtered(q.m)
  <2> SUFFICES ASSUME NEW i \in OnMap(q.m)
               PROVE  /\ matchesSideFilter(q.m, q.m.tracked[i])
                      /\ ~isBlacklisted(q.m, q.m.tracked[i])
    BY DEF Filtered
  <2>1. i \in DOMAIN m.tracked /\ i \notin hidden
    BY <1>1, <1>6 DEF OnMap, SameMarks
  <2>2. q.m.tracked[i] = m.tracked[i]
    BY <1>1, <1>6, <2>1 DEF SameMark
  <2>3. i \in OnMap(r.m) \ hidden
    BY <2>1, <2>2 DEF OnMap
  <2>4. q.m.side = m.side /\ q.m.black = m.black
    BY <1>1, <1>6 DEF SameMarks
  <2> QED
    BY <2>2, <2>3, <2>4 DEF matchesSideFilter, isBlacklisted
<1> QED
  BY <1>1, <1>6, <1>7 DEF SameMarks, q, u

\* The two filters.
LEMMA FiltersSet ==
    ASSUME NEW r, MapOK(r), Filtered(r.m), NEW side, NEW black
    PROVE  /\ LET q == setSideFilter(r, side)
              IN  /\ MapOK(q) /\ Filtered(q.m) /\ SameButIcons(r.w, q.w)
                  /\ q.m.side = side /\ q.m.black = r.m.black
           /\ LET q == setBlacklist(r, black)
              IN  /\ MapOK(q) /\ Filtered(q.m) /\ SameButIcons(r.w, q.w)
                  /\ q.m.side = r.m.side /\ q.m.black = black
<1>1. r.m \in Managers(r.m)
  BY DEF MapOK, MgrOK
<1>2. LET q == setSideFilter(r, side)
      IN  /\ MapOK(q) /\ Filtered(q.m) /\ SameButIcons(r.w, q.w)
          /\ q.m.side = side /\ q.m.black = r.m.black
  <2> DEFINE m == [r.m EXCEPT !.side = side]
             hidden == {i \in DOMAIN m.tracked : ~matchesSideFilter(m, m.tracked[i])}
  <2>1. m \in Managers(m) /\ m.tracked = r.m.tracked /\ m.side = side /\ m.black = r.m.black
    BY <1>1 DEF Managers
  <2>2. setSideFilter(r, side) = Hide([r EXCEPT !.m = m], hidden)
    BY DEF setSideFilter
  <2> HIDE DEF m
  <2>3. \A i \in OnMap(r.m) \ hidden :
            matchesSideFilter(m, m.tracked[i]) /\ ~isBlacklisted(m, m.tracked[i])
    BY <2>1 DEF Filtered, OnMap, isBlacklisted
  <2>4. hidden \subseteq DOMAIN m.tracked
    OBVIOUS
  <2> HIDE DEF hidden
  <2> QED
    BY <2>1, <2>2, <2>3, <2>4, Refiltered
<1>3. LET q == setBlacklist(r, black)
      IN  /\ MapOK(q) /\ Filtered(q.m) /\ SameButIcons(r.w, q.w)
          /\ q.m.side = r.m.side /\ q.m.black = black
  <2> DEFINE m == [r.m EXCEPT !.black = black]
             hidden == {i \in DOMAIN m.tracked : isBlacklisted(m, m.tracked[i])}
  <2>1. m \in Managers(m) /\ m.tracked = r.m.tracked /\ m.side = r.m.side /\ m.black = black
    BY <1>1 DEF Managers
  <2>2. setBlacklist(r, black) = Hide([r EXCEPT !.m = m], hidden)
    BY DEF setBlacklist
  <2> HIDE DEF m
  <2>3. \A i \in OnMap(r.m) \ hidden :
            matchesSideFilter(m, m.tracked[i]) /\ ~isBlacklisted(m, m.tracked[i])
    BY <2>1 DEF Filtered, OnMap, matchesSideFilter
  <2>4. hidden \subseteq DOMAIN m.tracked
    OBVIOUS
  <2> HIDE DEF hidden
  <2> QED
    BY <2>1, <2>2, <2>3, <2>4, Refiltered
<1> QED
  BY <1>2, <1>3

\* When every marker is right for a frame, those on the map are none the
\* filters forbid.
LEMMA RightIsFiltered ==
    ASSUME NEW r, NEW frame, \A i \in DOMAIN r.m.tracked : Right(r, i, frame)
    PROVE  Filtered(r.m)
BY DEF Right, Filtered, OnMap

\* clear: nothing is left on the map.
LEMMA Cleared ==
    ASSUME NEW r, MapOK(r)
    PROVE  LET q == clearMarkers(r)
           IN  /\ MapOK(q) /\ Filtered(q.m) /\ SameButIcons(r.w, q.w)
               /\ q.m.side = r.m.side /\ q.m.black = r.m.black
<1> DEFINE u == Hide(r, DOMAIN r.m.tracked)
           q == clearMarkers(r)
<1>1. /\ MapOK(u) /\ SameMarks(r, u)
      /\ \A i \in DOMAIN r.m.tracked : u.m.tracked[i].handle = 0
  BY Hidden
<1> HIDE DEF u
<1>2. q.m = [r.m EXCEPT !.tracked = <<>>] /\ q.w = u.w /\ q \in Pairs(q)
  BY DEF clearMarkers, Pairs, u
<1> HIDE DEF q
<1>3. /\ q.m \in Managers(q.m) /\ q.m.tracked = <<>>
      /\ q.m.side = r.m.side /\ q.m.black = r.m.black
  BY <1>2 DEF MapOK, MgrOK, Managers
<1>4. OnMap(q.m) = {} /\ MgrOK(q.m)
  <2>1. Len(q.m.tracked) \in Nat /\ DOMAIN q.m.tracked = {} /\ DOMAIN q.m.tracked = 1 .. Len(q.m.tracked)
    BY <1>3
  <2> QED
    BY <1>3, <2>1 DEF OnMap, MgrOK
<1>5. DOMAIN u.w.icons = {}
  BY <1>1 DEF MapOK, HandlesOK, OnMap, SameMarks
<1>6. HandlesOK(q) /\ PlacesOK(q)
  BY <1>2, <1>4, <1>5 DEF HandlesOK, PlacesOK
<1>7. Filtered(q.m)
  BY <1>4 DEF Filtered
<1>8. ViewOK(q.w) /\ SameButIcons(r.w, q.w)
  BY <1>1, <1>2 DEF MapOK, SameMarks
<1> QED
  BY <1>2, <1>3, <1>4, <1>6, <1>7, <1>8 DEF MapOK, q

\* The map before anything is on it.
LEMMA NewViewOK ==
    ASSUME NEW canvas \in BOOLEAN, NEW maplibre \in BOOLEAN
    PROVE  LET w == NewView(canvas, maplibre)
           IN  ViewOK(w) /\ DOMAIN w.icons = {} /\ w.smoothing = FALSE /\ w.canvas = canvas
<1> DEFINE w == NewView(canvas, maplibre)
<1>1. /\ w.canvas = canvas /\ w.maplibre = maplibre /\ w.names = "players" /\ w.mode = "all"
      /\ w.vis = Toggled \cup GLLayers /\ w.onMap = Groups /\ w.smoothing = FALSE
      /\ w.ready = FALSE /\ w.hidden = {} /\ w.fetching = {}
      /\ w.ents = <<>> /\ w.icons = <<>>
  BY DEF NewView
<1>2. w \in Views(w)
  BY DEF NewView, Views, NameModes, MarkerModes, LayerNames, Groups, Toggled, GLLayers, Styles
<1> HIDE DEF w
<1>3. LayersOK(w)
  BY <1>1 DEF LayersOK, Toggled, Groups, GLLayers
<1>4. DOMAIN w.ents = {} /\ DOMAIN w.icons = {}
  BY <1>1
<1> QED
  BY <1>1, <1>2, <1>3, <1>4 DEF ViewOK, w

\* Smoothing is nothing the settings speak of.
LEMMA SmoothingSet ==
    ASSUME NEW w, ViewOK(w), NEW smooth \in BOOLEAN
    PROVE  LET v == [w EXCEPT !.smoothing = smooth]
           IN  /\ ViewOK(v) /\ v.smoothing = smooth
               /\ v.canvas = w.canvas /\ v.ents = w.ents /\ v.icons = w.icons /\ v.lines = w.lines
<1> DEFINE v == [w EXCEPT !.smoothing = smooth]
<1>1. w \in Views(w) /\ LayersOK(w)
  BY DEF ViewOK
<1>2. /\ v \in Views(v) /\ v.smoothing = smooth
      /\ v.canvas = w.canvas /\ v.ents = w.ents /\ v.icons = w.icons /\ v.lines = w.lines
      /\ v.far = w.far /\ v.names = w.names /\ v.mode = w.mode /\ v.labels = w.labels
      /\ v.onMap = w.onMap /\ v.vis = w.vis /\ v.ready = w.ready /\ v.hidden = w.hidden
      /\ v.fetching = w.fetching
  BY <1>1 DEF Views
<1> HIDE DEF v
<1>3. LayersOK(v)
  BY <1>1, <1>2 DEF LayersOK
<1>4. \A id \in DOMAIN v.ents : EntOK(v, v.ents[id])
  BY <1>2, EntStays DEF ViewOK
<1>5. \A h \in DOMAIN v.icons : IconOK(v, v.icons[h])
  <2>1. \A group : SameFor(w, v, group)
    BY <1>2 DEF SameFor
  <2> QED
    BY <1>2, <2>1, IconStays DEF ViewOK
<1> QED
  BY <1>2, <1>3, <1>4, <1>5 DEF ViewOK, v

\* The entities and the lines go.
LEMMA EntitiesGone ==
    ASSUME NEW w, ViewOK(w)
    PROVE  LET v == [w EXCEPT !.ents = <<>>, !.lines = {}]
           IN  ViewOK(v) /\ v.icons = w.icons /\ v.ents = <<>> /\ v.lines = {}
<1> DEFINE v == [w EXCEPT !.ents = <<>>, !.lines = {}]
<1>1. w \in Views(w) /\ LayersOK(w)
  BY DEF ViewOK
<1>2. /\ v \in Views(v) /\ v.ents = <<>> /\ v.icons = w.icons /\ v.lines = {}
      /\ v.mode = w.mode /\ v.labels = w.labels
      /\ v.onMap = w.onMap /\ v.vis = w.vis /\ v.ready = w.ready /\ v.hidden = w.hidden
      /\ v.fetching = w.fetching
  BY <1>1 DEF Views
<1> HIDE DEF v
<1>3. LayersOK(v)
  BY <1>1, <1>2 DEF LayersOK
<1>4. \A id \in DOMAIN v.ents : EntOK(v, v.ents[id])
  BY <1>2
<1>5. \A h \in DOMAIN v.icons : IconOK(v, v.icons[h])
  <2>1. \A group : SameFor(w, v, group)
    BY <1>2 DEF SameFor
  <2> QED
    BY <1>2, <2>1, IconStays DEF ViewOK
<1> QED
  BY <1>2, <1>3, <1>4, <1>5 DEF ViewOK, v

-----------------------------------------------------------------------------
(* The invariant                                                            *)

Plays ==
    [frame: 0 .. Rec.end, playing: BOOLEAN, here: SUBSET DOMAIN Chunks[visit.rec],
     snaps: {play.snaps}]

Flights == {[op |-> "load"]} \cup [op: {"toggle"}, next: SUBSET Ids(Rec.entities)]

TheMap == On(mgr, view)

\* What holds of the map, and of what it shows of the frame.
PictureOK ==
    /\ play \in Plays
    /\ MapOK(TheMap) /\ Filtered(mgr)
    /\ mgr.side \in Sides /\ mgr.black \subseteq Ids(Rec.entities)
    /\ Stands(view, play.snaps, HitIn(Rec.events, play.frame))
    /\ ~left => view.smoothing = play.playing

PanelsOK ==
    /\ panel \in PanelType
    /\ flights \subseteq Flights
    /\ clicks \in 0 .. MaxClicks
    /\ left \in BOOLEAN

\* The inductive invariant.
SceneInv == visit \in Visits /\ PictureOK /\ PanelsOK

\* What the pictures of a frame are, as the markers' lemmas say it.
AllRight(m, w, frame) == \A i \in DOMAIN m.tracked : Right(On(m, w), i, frame)

\* Entities told of new snapshots.
LEMMA MapSynced ==
    ASSUME NEW m, NEW w, MapOK(On(m, w)), NEW snaps, NEW frame
    PROVE  LET v == Sync(w, snaps, frame)
           IN  /\ MapOK(On(m, v)) /\ Stands(v, snaps, HitIn(Rec.events, frame))
               /\ v.icons = w.icons /\ v.canvas = w.canvas /\ v.smoothing = w.smoothing
               /\ (w.canvas /\ ~w.smoothing) => AllSettled(v)
<1> DEFINE v == Sync(w, snaps, frame)
           hit == HitIn(Rec.events, frame)
<1>1. ViewOK(w)
  BY DEF MapOK, On
<1>2. /\ ViewOK(v) /\ Stands(v, snaps, hit)
      /\ v.icons = w.icons /\ v.canvas = w.canvas /\ v.smoothing = w.smoothing
      /\ (w.canvas /\ ~w.smoothing) => AllSettled(v)
  <2>1. v = SyncWith(w, snaps, hit)
    BY DEF Sync
  <2> HIDE DEF v, hit
  <2> QED
    BY <1>1, <2>1, Synced
<1> HIDE DEF v
<1>3. MapOK(On(m, v))
  BY <1>2, MapStays
<1> QED
  BY <1>2, <1>3 DEF v

\* Every frame the signal can be set to.
LEMMA FrameSignalled ==
    ASSUME NEW frame \in Nat, MapOK(TheMap), Filtered(mgr)
    PROVE  LET r == FrameSignal(frame)
           IN  /\ r = On(r.m, r.w) /\ MapOK(r) /\ Filtered(r.m)
               /\ r.m.side = mgr.side /\ r.m.black = mgr.black
               /\ r.w.canvas = view.canvas /\ r.w.smoothing = view.smoothing
               /\ frame # play.frame => AllRight(r.m, r.w, frame)
<1> DEFINE r == FrameSignal(frame)
<1>1. CASE frame = play.frame
  <2>1. r = TheMap
    BY <1>1 DEF FrameSignal, TheMap, On
  <2> QED
    BY <1>1, <2>1 DEF TheMap, On
<1>2. CASE frame # play.frame
  <2> DEFINE u == On(mgr, Sync(view, play.snaps, frame))
             v == Sync(view, play.snaps, frame)
  <2>1. MapOK(u) /\ v.canvas = view.canvas /\ v.smoothing = view.smoothing
    BY MapSynced DEF TheMap
  <2>2. u.m = mgr /\ u.w = v
    BY DEF On
  <2>3. r = updateFrame(u, frame)
    BY <1>2 DEF FrameSignal, On
  <2> HIDE DEF u, v, r
  <2>4. /\ MapOK(r) /\ SameMarks(u, r)
        /\ \A i \in DOMAIN mgr.tracked : Right(r, i, frame)
    BY <2>1, <2>2, <2>3, FrameUpdated
  <2>5. r = On(r.m, r.w)
    BY <2>4 DEF MapOK, Pairs, On
  <2>6. /\ r.m.side = mgr.side /\ r.m.black = mgr.black /\ DOMAIN r.m.tracked = DOMAIN mgr.tracked
        /\ r.w.canvas = view.canvas /\ r.w.smoothing = view.smoothing
    BY <2>1, <2>2, <2>4 DEF SameMarks, SameButIcons, Views
  <2>7. AllRight(r.m, r.w, frame)
    BY <2>4, <2>5, <2>6 DEF AllRight
  <2>8. Filtered(r.m)
    BY <2>4, <2>6, RightIsFiltered
  <2> QED
    BY <2>4, <2>5, <2>6, <2>7, <2>8 DEF r
<1> QED
  BY <1>1, <1>2

\* Right only looks at the icons of the renderer.
LEMMA RightStays ==
    ASSUME NEW m, NEW w, NEW v, v.icons = w.icons, NEW frame, AllRight(m, w, frame)
    PROVE  AllRight(m, v, frame)
BY DEF AllRight, Right, On

\* seekTo, a tick and a click on an event.
LEMMA Moved ==
    ASSUME SceneAssumption, SceneInv, visit' = visit, ~left,
           NEW wanted, NEW playing \in BOOLEAN, MoveTo(wanted, playing)
    PROVE  /\ PictureOK'
           /\ wanted \in 0 .. Rec.end => play'.frame = wanted
           /\ play'.playing = playing
           /\ play'.frame # play.frame =>
                /\ AllRight(mgr', view', play'.frame)
                /\ (view'.canvas /\ ~play.playing) => AllSettled(view')
<1> DEFINE frame == IF wanted \in 0 .. Rec.end THEN wanted ELSE IF wanted < 0 THEN 0 ELSE Rec.end
           r == FrameSignal(frame)
           snaps == SnapshotsAt(frame, play.here)
           v == Sync(r.w, snaps, frame)
<1>1. Rec' = Rec /\ Rec.end \in Nat
  <2>1. Rec.end \in Nat
    BY RecordingLoaded DEF SceneInv
  <2> QED
    BY <2>1 DEF Rec
<1>2. frame \in 0 .. Rec.end /\ frame \in Nat /\ (wanted \in 0 .. Rec.end => frame = wanted)
  BY <1>1
<1>3. /\ play \in Plays /\ MapOK(TheMap) /\ Filtered(mgr)
      /\ mgr.side \in Sides /\ mgr.black \subseteq Ids(Rec.entities)
      /\ view.smoothing = play.playing
  BY DEF SceneInv, PictureOK
<1>4. /\ play' = [play EXCEPT !.frame = frame, !.snaps = snaps, !.playing = playing]
      /\ mgr' = r.m
      /\ view' = [v EXCEPT !.smoothing = playing]
  BY DEF MoveTo, ShowSnapshots
<1> HIDE DEF frame
<1>5. /\ r = On(r.m, r.w) /\ MapOK(r) /\ Filtered(r.m)
      /\ r.m.side = mgr.side /\ r.m.black = mgr.black
      /\ r.w.canvas = view.canvas /\ r.w.smoothing = view.smoothing
      /\ frame # play.frame => AllRight(r.m, r.w, frame)
  BY <1>2, <1>3, FrameSignalled
<1> HIDE DEF r, snaps
<1>6. /\ MapOK(On(r.m, v)) /\ Stands(v, snaps, HitIn(Rec.events, frame))
      /\ v.icons = r.w.icons /\ v.canvas = r.w.canvas /\ v.smoothing = r.w.smoothing
      /\ (r.w.canvas /\ ~r.w.smoothing) => AllSettled(v)
  <2>1. MapOK(On(r.m, r.w))
    BY <1>5
  <2> QED
    BY <2>1, MapSynced
<1> HIDE DEF v
<1>7. /\ ViewOK(view') /\ view'.smoothing = playing
      /\ view'.canvas = v.canvas /\ view'.ents = v.ents
      /\ view'.icons = v.icons /\ view'.lines = v.lines
  <2>1. ViewOK(v)
    BY <1>6 DEF MapOK, On
  <2> QED
    BY <1>4, <2>1, SmoothingSet
<1>8. /\ play'.frame = frame /\ play'.snaps = snaps /\ play'.playing = playing
      /\ play' \in Plays'
  <2>1. Plays' = [frame: 0 .. Rec.end, playing: BOOLEAN,
                  here: SUBSET DOMAIN Chunks[visit.rec], snaps: {play'.snaps}]
    BY <1>1 DEF Plays
  <2> DEFINE new == play'
             Here == SUBSET DOMAIN Chunks[visit.rec]
             Frames == 0 .. Rec.end
  <2>2. play \in [frame: Frames, playing: BOOLEAN, here: Here, snaps: {play.snaps}]
    BY <1>3 DEF Plays
  <2>3. new = [play EXCEPT !.frame = frame, !.snaps = snaps, !.playing = playing]
    BY <1>4
  <2>4. frame \in Frames
    BY <1>2
  <2> HIDE DEF new, Here, Frames
  <2>5. /\ new.frame = frame /\ new.snaps = snaps /\ new.playing = playing
        /\ new \in [frame: Frames, playing: BOOLEAN, here: Here, snaps: {new.snaps}]
    BY <2>2, <2>3, <2>4
  <2> QED
    BY <2>1, <2>5 DEF new, Here, Frames
<1>9. MapOK(TheMap)'
  <2>1. MapOK(On(r.m, view'))
    BY <1>6, <1>7, MapStays
  <2> QED
    BY <1>4, <2>1 DEF TheMap
<1>10. Stands(view, play.snaps, HitIn(Rec.events, play.frame))'
  <2>1. Stands(view', snaps, HitIn(Rec.events, frame))
    BY <1>6, <1>7 DEF Stands
  <2> QED
    BY <1>1, <1>8, <2>1
<1>11. PictureOK'
  <2>1. (play \in Plays)'
    BY <1>8
  <2>2. Filtered(mgr)' /\ (mgr.side \in Sides /\ mgr.black \subseteq Ids(Rec.entities))'
    BY <1>1, <1>3, <1>4, <1>5
  <2>3. (~left => view.smoothing = play.playing)'
    BY <1>7, <1>8
  <2> QED
    BY <1>9, <1>10, <2>1, <2>2, <2>3 DEF PictureOK
<1>12. ASSUME play'.frame # play.frame
       PROVE  /\ AllRight(mgr', view', play'.frame)
              /\ (view'.canvas /\ ~play.playing) => AllSettled(view')
  <2>1. AllRight(r.m, view', frame)
    BY <1>5, <1>6, <1>7, <1>8, <1>12, RightStays
  <2>2. (view'.canvas /\ ~play.playing) => AllSettled(view')
    <3>1. (view'.canvas /\ ~play.playing) => AllSettled(v)
      BY <1>3, <1>5, <1>6, <1>7
    <3> QED
      BY <1>7, <3>1 DEF AllSettled
  <2> QED
    BY <1>4, <1>8, <2>1, <2>2
<1> QED
  BY <1>2, <1>8, <1>11, <1>12

\* A quotient whose dividend is not less than its divisor.
LEMMA AtLeastOne ==
    ASSUME NEW a \in Nat, NEW c \in Nat \ {0}, a >= c
    PROVE  a \div c \in Int /\ a \div c >= 1
<1>1. a \div c \in Int
  OBVIOUS
<1>2. a \div c >= 1
  BY Z3
<1> QED
  BY <1>1, <1>2

\* A recording has a first chunk.
LEMMA FirstChunk ==
    ASSUME SceneAssumption, visit \in Visits
    PROVE  0 \in DOMAIN Chunks[visit.rec]
<1> DEFINE raw == Recordings[visit.rec]
<1>1. visit.rec \in DOMAIN Recordings /\ raw.end \in Nat /\ ChunkSize \in Nat \ {0}
  BY RecordingAssumption DEF SceneAssumption
<1>2. DOMAIN Chunks[visit.rec] = 0 .. ChunkCount(raw) - 1
  BY <1>1 DEF Chunks
<1> DEFINE a == raw.end + 1 + ChunkSize - 1
<1>3. a \in Nat /\ a >= ChunkSize
  BY <1>1
<1>4. ChunkCount(raw) = a \div ChunkSize
  BY DEF ChunkCount
<1> HIDE DEF a, raw
<1>5. ChunkCount(raw) \in Int /\ ChunkCount(raw) >= 1
  BY <1>1, <1>3, <1>4, AtLeastOne
<1> QED
  BY <1>2, <1>5

\* The manager of a recording that has just been loaded.
LEMMA FirstMap ==
    ASSUME NEW m, NEW defs, DefsOK(defs), NEW side, NEW black,
           m = [tracked |-> loadMarkers(defs), side |-> side, black |-> black],
           NEW w, ViewOK(w), DOMAIN w.icons = {}
    PROVE  MapOK(On(m, w)) /\ Filtered(m)
<1> DEFINE tracked == loadMarkers(defs)
           r == On(m, w)
<1>1. /\ Len(tracked) \in Nat /\ DOMAIN tracked = 1 .. Len(tracked)
      /\ \A i \in DOMAIN tracked : MarkOK(tracked[i]) /\ tracked[i].handle = 0
  BY MarkersLoaded
<1> HIDE DEF tracked
<1>2. m.tracked = tracked /\ m \in Managers(m)
  BY DEF tracked, Managers
<1>3. r.m = m /\ r.w = w /\ r \in Pairs(r)
  BY DEF On, Pairs
<1> HIDE DEF r
<1>4. MgrOK(m) /\ OnMap(m) = {}
  BY <1>1, <1>2 DEF MgrOK, OnMap
<1>5. HandlesOK(r) /\ PlacesOK(r) /\ Filtered(m)
  BY <1>3, <1>4 DEF HandlesOK, PlacesOK, Filtered
<1> QED
  BY <1>3, <1>4, <1>5 DEF MapOK, r

\* The invariant holds when a recording has been loaded.
LEMMA InitInv ==
    ASSUME SceneAssumption, Init
    PROVE  SceneInv
<1>1. PICK here : /\ here = IF visit.pb THEN {0} ELSE {}
                  /\ play = [frame |-> 0, playing |-> FALSE, here |-> here,
                             snaps |-> SnapshotsAt(0, here)]
  BY DEF Init
<1>2. PICK side \in IF visit.panel = "units" THEN populatedSides ELSE {"WEST", "EAST"} :
        /\ mgr = [tracked |-> loadMarkers(Rec.markers), side |-> side, black |-> {}]
        /\ panel = [side |-> side, closed |-> {}, selected |-> None, counted |-> FALSE,
                    filter |-> DefaultFilter]
  BY DEF Init
<1>3. side \in Sides
  BY <1>2 DEF populatedSides, Sides
<1>4. /\ visit \in Visits /\ visit.canvas \in BOOLEAN /\ visit.maplibre \in BOOLEAN
      /\ Rec.end \in Nat /\ DefsOK(Rec.markers)
  BY RecordingLoaded DEF Init, SceneAssumption
<1> DEFINE snaps == SnapshotsAt(0, here)
           w == NewView(visit.canvas, visit.maplibre)
<1>5. play \in Plays /\ play.frame = 0 /\ play.playing = FALSE /\ play.snaps = snaps
  <2> HIDE DEF snaps
  <2>1. here \subseteq DOMAIN Chunks[visit.rec]
    BY <1>1, <1>4, FirstChunk
  <2>2. 0 \in 0 .. Rec.end
    BY <1>4
  <2> DEFINE Here == SUBSET DOMAIN Chunks[visit.rec]
             Frames == 0 .. Rec.end
  <2>3. here \in Here /\ 0 \in Frames
    BY <2>1, <2>2
  <2> HIDE DEF Here, Frames
  <2>4. play = [frame |-> 0, playing |-> FALSE, here |-> here, snaps |-> snaps]
    BY <1>1 DEF snaps
  <2>5. play \in [frame: Frames, playing: BOOLEAN, here: Here, snaps: {play.snaps}]
    BY <2>3, <2>4
  <2> QED
    BY <2>4, <2>5 DEF Plays, Frames, Here
<1>6. /\ ViewOK(w) /\ DOMAIN w.icons = {} /\ w.smoothing = FALSE
  BY <1>4, NewViewOK
<1> HIDE DEF w
<1>7. MapOK(On(mgr, w)) /\ Filtered(mgr)
  <2>1. mgr = [tracked |-> loadMarkers(Rec.markers), side |-> side, black |-> {}]
    BY <1>2
  <2> QED
    BY <1>4, <1>6, <2>1, FirstMap
<1>8. view = Sync(w, play.snaps, 0)
  BY DEF Init, w
<1>9. /\ MapOK(On(mgr, view)) /\ Stands(view, play.snaps, HitIn(Rec.events, 0))
      /\ view.smoothing = FALSE
  BY <1>6, <1>7, <1>8, MapSynced
<1>10. PictureOK
  <2>1. mgr.side \in Sides /\ mgr.black \subseteq Ids(Rec.entities)
    BY <1>2, <1>3
  <2>2. Stands(view, play.snaps, HitIn(Rec.events, play.frame))
    BY <1>5, <1>9
  <2>3. ~left => view.smoothing = play.playing
    BY <1>5, <1>9
  <2> QED
    BY <1>5, <1>7, <1>9, <2>1, <2>2, <2>3 DEF PictureOK, TheMap
<1>11. PanelsOK
  <2>1. DefaultFilter \in FilterType
    BY DEF DefaultFilter, FilterType, SideFilters
  <2>2. panel \in PanelType
    BY <1>2, <1>3, <2>1 DEF PanelType
  <2>3. MaxClicks \in Nat
    BY DEF SceneAssumption
  <2>4. flights \subseteq Flights /\ clicks \in 0 .. MaxClicks /\ left \in BOOLEAN
    <3>1. flights = {[op |-> "load"]} /\ clicks = 0 /\ left = FALSE
      BY DEF Init
    <3>2. flights \subseteq Flights
      BY <3>1 DEF Flights
    <3>3. clicks \in 0 .. MaxClicks
      BY <2>3, <3>1
    <3>4. left \in BOOLEAN
      BY <3>1
    <3> QED
      BY <3>2, <3>3, <3>4
  <2> QED
    BY <2>2, <2>4 DEF PanelsOK
<1> QED
  BY <1>4, <1>10, <1>11 DEF SceneInv

-----------------------------------------------------------------------------
(* Steps                                                                    *)

\* What does not change a recording, a frame or a marker leaves the picture.
LEMMA PictureKept ==
    ASSUME PictureOK, visit' = visit, left' = left, play' = play, mgr' = mgr,
           ViewOK(view'), SameThings(view, view')
    PROVE  PictureOK'
<1>1. Rec' = Rec
  BY DEF Rec
<1>2. play' \in Plays'
  BY <1>1 DEF PictureOK, Plays
<1>3. MapOK(On(mgr, view')) /\ TheMap' = On(mgr, view')
  BY MapStays DEF PictureOK, TheMap, SameThings
<1>4. Stands(view', play.snaps, HitIn(Rec.events, play.frame))
  BY DEF PictureOK, SameThings, Stands
<1>5. view'.smoothing = view.smoothing
  BY DEF SameThings
<1> QED
  BY <1>1, <1>2, <1>3, <1>4, <1>5 DEF PictureOK

\* The picture of a step that touches none of it.
LEMMA PictureUnchanged ==
    ASSUME PictureOK, UNCHANGED <<visit, left, play, mgr, view>>
    PROVE  PictureOK'
<1>1. ViewOK(view') /\ SameThings(view, view')
  BY DEF PictureOK, TheMap, MapOK, On, SameThings
<1> QED
  BY <1>1, PictureKept

\* Other markers by a filter of the manager.
LEMMA PictureRefiltered ==
    ASSUME PictureOK, visit' = visit, left' = left, play' = play,
           NEW q, MapOK(q), Filtered(q.m), SameButIcons(view, q.w),
           q.m.side \in Sides, q.m.black \subseteq Ids(Rec.entities), mgr' = q.m, view' = q.w
    PROVE  PictureOK'
<1>1. Rec' = Rec
  BY DEF Rec
<1>2. play' \in Plays'
  BY <1>1 DEF PictureOK, Plays
<1>3. TheMap' = q
  BY DEF MapOK, Pairs, TheMap, On
<1>4. /\ view'.ents = view.ents /\ view'.lines = view.lines
      /\ view'.smoothing = view.smoothing
  BY DEF SameButIcons, Views
<1>5. Stands(view', play.snaps, HitIn(Rec.events, play.frame))
  BY <1>4 DEF PictureOK, Stands
<1> QED
  BY <1>1, <1>2, <1>3, <1>4, <1>5 DEF PictureOK

\* Playback starts, stops or ends.
LEMMA PictureSwitched ==
    ASSUME PictureOK, visit' = visit, NEW playing \in BOOLEAN, mgr' = mgr,
           play' = [play EXCEPT !.playing = playing],
           view' = [view EXCEPT !.smoothing = playing]
    PROVE  PictureOK'
<1>1. Rec' = Rec
  BY DEF Rec
<1>2. /\ play' \in Plays' /\ play'.snaps = play.snaps /\ play'.frame = play.frame
      /\ play'.playing = playing
  <2> DEFINE new == play'
             Here == SUBSET DOMAIN Chunks[visit.rec]
             Frames == 0 .. Rec.end
  <2>1. play \in [frame: Frames, playing: BOOLEAN, here: Here, snaps: {play.snaps}]
    BY DEF PictureOK, Plays
  <2>2. new = [play EXCEPT !.playing = playing]
    OBVIOUS
  <2>3. Plays' = [frame: Frames, playing: BOOLEAN, here: Here, snaps: {new.snaps}]
    BY <1>1 DEF Plays
  <2> HIDE DEF new, Here, Frames
  <2>4. /\ new.frame = play.frame /\ new.snaps = play.snaps /\ new.playing = playing
        /\ new \in [frame: Frames, playing: BOOLEAN, here: Here, snaps: {new.snaps}]
    BY <2>1, <2>2
  <2> QED
    BY <2>3, <2>4 DEF new
<1>3. /\ ViewOK(view') /\ view'.smoothing = playing
      /\ view'.ents = view.ents /\ view'.icons = view.icons /\ view'.lines = view.lines
  <2>1. ViewOK(view)
    BY DEF PictureOK, TheMap, MapOK, On
  <2> QED
    BY <2>1, SmoothingSet
<1>4. MapOK(On(mgr, view')) /\ TheMap' = On(mgr, view')
  BY <1>3, MapStays DEF PictureOK, TheMap
<1>5. Stands(view', play.snaps, HitIn(Rec.events, play.frame))
  BY <1>3 DEF PictureOK, Stands
<1> QED
  BY <1>1, <1>2, <1>3, <1>4, <1>5 DEF PictureOK

\* A chunk arrives.
LEMMA PictureCompleted ==
    ASSUME PictureOK, visit' = visit, left' = left, mgr' = mgr,
           NEW k, NEW here, here \subseteq DOMAIN Chunks[visit.rec], NEW snaps,
           ChunkLoaded(k, here, snaps)
    PROVE  PictureOK' /\ play'.frame = play.frame
<1>1. Rec' = Rec
  BY DEF Rec
<1> DEFINE new == play'
           Here == SUBSET DOMAIN Chunks[visit.rec]
           Frames == 0 .. Rec.end
<1>2. /\ play \in [frame: Frames, playing: BOOLEAN, here: Here, snaps: {play.snaps}]
      /\ here \in Here
  BY DEF PictureOK, Plays
<1>3. Plays' = [frame: Frames, playing: BOOLEAN, here: Here, snaps: {new.snaps}]
  BY <1>1 DEF Plays
<1>4. CASE k = play.frame \div ChunkSize
  <2>1. new = [play EXCEPT !.here = here, !.snaps = snaps] /\ view' = Sync(view, snaps, play.frame)
    BY <1>4 DEF ChunkLoaded
  <2>2. /\ new.frame = play.frame /\ new.snaps = snaps /\ new.playing = play.playing
        /\ new \in Plays'
    <3> HIDE DEF new, Here, Frames
    <3> QED
      BY <1>2, <1>3, <2>1
  <2>3. /\ MapOK(On(mgr, view')) /\ Stands(view', snaps, HitIn(Rec.events, play.frame))
        /\ view'.smoothing = view.smoothing
    BY <2>1, MapSynced DEF PictureOK, TheMap
  <2>4. TheMap' = On(mgr, view')
    BY DEF TheMap
  <2> QED
    BY <1>1, <2>2, <2>3, <2>4 DEF PictureOK
<1>5. CASE k # play.frame \div ChunkSize
  <2>1. new = [play EXCEPT !.here = here] /\ view' = view
    BY <1>5 DEF ChunkLoaded
  <2>2. /\ new.frame = play.frame /\ new.snaps = play.snaps /\ new.playing = play.playing
        /\ new \in Plays'
    <3> HIDE DEF new, Here, Frames
    <3> QED
      BY <1>2, <1>3, <2>1
  <2>3. TheMap' = TheMap
    BY <2>1 DEF TheMap
  <2> QED
    BY <1>1, <2>1, <2>2, <2>3 DEF PictureOK
<1> QED
  BY <1>4, <1>5

\* A step that leaves the panels of their type, within the bound on clicks.
LEMMA PanelsKept ==
    ASSUME SceneAssumption, PanelsOK, visit' = visit, left' \in BOOLEAN,
           panel' \in PanelType, flights' \subseteq Flights, Click \/ clicks' = clicks
    PROVE  PanelsOK'
<1>1. Rec' = Rec
  BY DEF Rec
<1>2. PanelType' = PanelType /\ Flights' = Flights
  BY <1>1 DEF PanelType, Flights
<1>3. clicks' \in 0 .. MaxClicks
  <2>1. MaxClicks \in Nat
    BY DEF SceneAssumption
  <2> QED
    BY <2>1 DEF PanelsOK, Click
<1> QED
  BY <1>2, <1>3 DEF PanelsOK

\* The units a tab lists are entities of the recording.
LEMMA ListedAreKnown ==
    ASSUME SceneAssumption, visit \in Visits, NEW side \in Sides
    PROVE  Listed(side) \subseteq Ids(Rec.entities)
<1>1. visit.rec \in DOMAIN Recordings /\ visit.pb \in BOOLEAN
  BY DEF SceneAssumption
<1>2. Listed(side) = getBySide(Rec.entities, side)
  BY <1>1 DEF Listed, BySide, Rec
<1>3. ASSUME NEW defs, NEW s PROVE getBySide(defs, s) \subseteq Ids(defs)
  BY DEF getBySide, Ids
<1> QED
  BY <1>2, <1>3

\* The visitor changes a setting, or the map does what it does by itself.
MapStep ==
    \/ Render \/ toggleLayer \/ ChooseNames \/ ChooseMarkers \/ ToggleLabels \/ ChooseStyle
    \/ ZoomMap \/ FirstStyle \/ NextStyle

\* Such a step keeps the invariant, and the frame.
LEMMA MapSteps ==
    ASSUME SceneAssumption, SceneInv, MapStep, left' = left
    PROVE  SceneInv' /\ play'.frame = play.frame
<1>1. /\ ViewOK(view) /\ view \in Views(view)
      /\ UNCHANGED <<visit, play, mgr, panel, flights>> /\ (Click \/ clicks' = clicks)
  <2>1. ViewOK(view) /\ view \in Views(view)
    BY DEF SceneInv, PictureOK, TheMap, MapOK, On, ViewOK
  <2>2. UNCHANGED <<visit, play, mgr, panel, flights>> /\ (Click \/ clicks' = clicks)
    BY DEF MapStep, Render, toggleLayer, ChooseNames, ChooseMarkers, ToggleLabels, ChooseStyle,
           ZoomMap, FirstStyle, NextStyle, Setting
  <2> QED
    BY <2>1, <2>2
<1>2. ViewOK(view') /\ SameThings(view, view')
  <2>1. CASE Render
    BY <1>1, <2>1, TweensSettled DEF Render
  <2>2. CASE toggleLayer
    <3>1. PICK l \in LayerItems : view' = SetLayerVisible(view, l, l \notin view.vis)
      BY <2>2 DEF toggleLayer, Setting
    <3>2. l \in LayerNames
      BY DEF LayerItems, LayerNames
    <3> DEFINE visible == l \notin view.vis
    <3>3. visible \in BOOLEAN /\ view' = SetLayerVisible(view, l, visible)
      BY <3>1
    <3> HIDE DEF visible
    <3> QED
      BY <1>1, <3>2, <3>3, LayerSet
  <2>3. CASE ChooseNames
    BY <1>1, <2>3, NamesSet DEF ChooseNames, Setting
  <2>4. CASE ChooseMarkers
    BY <1>1, <2>4, MarkersSet DEF ChooseMarkers, Setting
  <2>5. CASE ToggleLabels
    <3> DEFINE visible == ~view.labels
    <3>1. visible \in BOOLEAN /\ view' = SetProjectileLabels(view, visible)
      BY <2>5 DEF ToggleLabels, Setting
    <3> HIDE DEF visible
    <3> QED
      BY <1>1, <3>1, LabelsSet
  <2>6. CASE ChooseStyle
    BY <1>1, <2>6, StylesSet DEF ChooseStyle, Setting
  <2>7. CASE ZoomMap
    <3> DEFINE far == ~view.far
    <3>1. far \in BOOLEAN /\ view' = Zoom(view, far)
      BY <2>7 DEF ZoomMap, Setting
    <3> HIDE DEF far
    <3> QED
      BY <1>1, <3>1, Zoomed
  <2>8. CASE FirstStyle
    <3>1. PICK saved \in Styles : view' = StyleReady(view, saved) /\ ~view.ready
      BY <2>8 DEF FirstStyle
    <3> QED
      BY <1>1, <3>1, StylesSet
  <2>9. CASE NextStyle
    <3>1. PICK index \in view.fetching :
            view' = StyleArrives(view, index) \/ view' = StyleFails(view, index)
      BY <2>9 DEF NextStyle
    <3>2. index \in Styles
      BY <1>1, <3>1 DEF Views
    <3> QED
      BY <1>1, <3>1, <3>2, StylesSet
  <2> QED
    BY <2>1, <2>2, <2>3, <2>4, <2>5, <2>6, <2>7, <2>8, <2>9 DEF MapStep
<1>3. PictureOK'
  BY <1>1, <1>2, PictureKept DEF SceneInv
<1>4. PanelsOK'
  BY <1>1, PanelsKept DEF SceneInv, PanelsOK
<1> QED
  BY <1>1, <1>3, <1>4 DEF SceneInv

\* Playback goes on, or the visitor goes to another frame.
FrameStep == Tick \/ SeekTo \/ ClickEvent

\* A step to another frame keeps the invariant and shows the frame.
LEMMA FrameSteps ==
    ASSUME SceneAssumption, SceneInv, FrameStep, ~left, left' = left
    PROVE  /\ SceneInv'
           /\ play'.frame # play.frame =>
                /\ AllRight(mgr', view', play'.frame)
                /\ (view'.canvas /\ ~play'.playing /\ play'.frame # Rec.end) => AllSettled(view')
<1>1. UNCHANGED <<visit, panel, flights>> /\ (Click \/ clicks' = clicks)
  BY DEF FrameStep, Tick, SeekTo, ClickEvent
<1>2. play.frame \in 0 .. Rec.end /\ play.playing \in BOOLEAN /\ Rec.end \in Nat
  BY RecordingLoaded DEF SceneInv, PictureOK, Plays
<1>3. /\ PictureOK'
      /\ play'.frame # play.frame =>
            /\ AllRight(mgr', view', play'.frame)
            /\ (view'.canvas /\ ~play'.playing /\ play'.frame # Rec.end) => AllSettled(view')
  <2>1. CASE Tick
    <3>1. PICK frame \in play.frame + 1 .. Rec.end : MoveTo(frame, frame < Rec.end)
      BY <2>1 DEF Tick
    <3> DEFINE playing == frame < Rec.end
    <3>2. /\ playing \in BOOLEAN /\ frame \in 0 .. Rec.end /\ MoveTo(frame, playing)
          /\ ~playing => frame = Rec.end
      BY <1>2, <3>1
    <3> HIDE DEF playing
    <3>3. /\ PictureOK' /\ play'.frame = frame /\ play'.playing = playing
          /\ play'.frame # play.frame => AllRight(mgr', view', play'.frame)
      BY <1>1, <3>2, Moved
    <3> QED
      BY <3>2, <3>3
  <2>2. CASE SeekTo \/ ClickEvent
    <3>1. \E frame : MoveTo(frame, play.playing)
      BY <2>2 DEF SeekTo, ClickEvent
    <3> QED
      BY <1>1, <1>2, <3>1, Moved
  <2> QED
    BY <2>1, <2>2 DEF FrameStep
<1>4. PanelsOK'
  BY <1>1, PanelsKept DEF SceneInv, PanelsOK
<1> QED
  BY <1>1, <1>3, <1>4 DEF SceneInv

\* Playback stops or starts, a chunk arrives: the frame stays.
PlayStep == TickAtEnd \/ TogglePlay \/ ChunkArrives

\* Such a step keeps the invariant, and the frame.
LEMMA PlaySteps ==
    ASSUME SceneAssumption, SceneInv, PlayStep, left' = left
    PROVE  SceneInv' /\ play'.frame = play.frame
<1>1. UNCHANGED <<visit, mgr, panel, flights>> /\ (Click \/ clicks' = clicks)
  BY DEF PlayStep, TickAtEnd, TogglePlay, ChunkArrives
<1>2. play.playing \in BOOLEAN /\ play \in Plays /\ PictureOK
  BY DEF SceneInv, PictureOK, Plays
<1>3. PictureOK' /\ play'.frame = play.frame
  <2>1. ASSUME NEW playing \in BOOLEAN, play' = [play EXCEPT !.playing = playing],
               view' = [view EXCEPT !.smoothing = playing]
        PROVE  PictureOK' /\ play'.frame = play.frame
    <3>1. play'.frame = play.frame
      BY <1>2, <2>1 DEF Plays
    <3> QED
      BY <1>1, <1>2, <2>1, <3>1, PictureSwitched
  <2>2. CASE TickAtEnd
    <3>1. /\ play' = [play EXCEPT !.playing = FALSE]
          /\ view' = [view EXCEPT !.smoothing = FALSE]
      BY <2>2 DEF TickAtEnd
    <3>2. PICK playing \in BOOLEAN : playing = FALSE
      OBVIOUS
    <3> QED
      BY <2>1, <3>1, <3>2
  <2>3. CASE TogglePlay
    <3> DEFINE playing == ~play.playing
    <3>1. /\ playing \in BOOLEAN
          /\ play' = [play EXCEPT !.playing = playing]
          /\ view' = [view EXCEPT !.smoothing = playing]
      BY <1>2, <2>3 DEF TogglePlay
    <3> HIDE DEF playing
    <3> QED
      BY <2>1, <3>1
  <2>4. CASE ChunkArrives
    <3>1. PICK k \in DOMAIN Chunks[visit.rec] \ play.here, out \in SUBSET play.here :
            ChunkLoaded(k, (play.here \ out) \cup {k},
                        SnapshotsAt(play.frame, (play.here \ out) \cup {k}))
      BY <2>4 DEF ChunkArrives
    <3> DEFINE here == (play.here \ out) \cup {k}
               snaps == SnapshotsAt(play.frame, here)
    <3>2. here \subseteq DOMAIN Chunks[visit.rec] /\ ChunkLoaded(k, here, snaps)
      BY <1>2, <3>1 DEF Plays
    <3> HIDE DEF here, snaps
    <3> QED
      BY <1>1, <1>2, <3>2, PictureCompleted
  <2> QED
    BY <2>2, <2>3, <2>4 DEF PlayStep
<1>4. PanelsOK'
  BY <1>1, PanelsKept DEF SceneInv, PanelsOK
<1> QED
  BY <1>1, <1>3, <1>4 DEF SceneInv

\* The visitor changes what a panel lists, or asks for a blacklist.
PanelStep == SetFilter \/ toggleGroup \/ SelectUnit \/ toggleBlacklist

\* Such a step keeps the invariant, and the frame.
LEMMA PanelSteps ==
    ASSUME SceneAssumption, SceneInv, PanelStep, left' = left
    PROVE  SceneInv' /\ play'.frame = play.frame
<1>1. UNCHANGED <<visit, play, mgr, view>> /\ Click
  BY DEF PanelStep, SetFilter, toggleGroup, SelectUnit, toggleBlacklist
<1>2. /\ visit \in Visits /\ PictureOK /\ panel \in PanelType /\ flights \subseteq Flights
      /\ panel.side \in Sides /\ panel.filter \in FilterType
  BY DEF SceneInv, PanelsOK, PanelType
<1>3. Listed(panel.side) \subseteq Ids(Rec.entities) /\ Rows \subseteq Listed(panel.side)
  BY <1>2, ListedAreKnown DEF Rows
<1>4. panel' \in PanelType /\ flights' \subseteq Flights
  <2>1. CASE SetFilter
    <3> DEFINE old == panel.filter
    <3>1. flights' = flights
      BY <2>1 DEF SetFilter
    <3>2. \E f \in FilterType : panel' = [panel EXCEPT !.filter = f]
      <4>1. CASE \E s \in Switches :
                    panel' = [panel EXCEPT !.filter.on = IF s \in @ THEN @ \ {s} ELSE @ \cup {s}]
        <5>1. PICK s \in Switches :
                panel' = [panel EXCEPT !.filter.on = IF s \in @ THEN @ \ {s} ELSE @ \cup {s}]
          BY <4>1
        <5> DEFINE on == IF s \in old.on THEN old.on \ {s} ELSE old.on \cup {s}
                   f == [old EXCEPT !.on = on]
        <5>2. on \subseteq Switches
          BY <1>2 DEF FilterType
        <5>3. panel' = [panel EXCEPT !.filter = f]
          BY <5>1
        <5> HIDE DEF on
        <5>4. f \in FilterType
          BY <1>2, <5>2 DEF FilterType
        <5> QED
          BY <5>3, <5>4
      <4>2. CASE \E sides \in SideFilters \ {old.sides} :
                    panel' = [panel EXCEPT !.filter.sides = sides]
        <5>1. PICK sides \in SideFilters : panel' = [panel EXCEPT !.filter.sides = sides]
          BY <4>2
        <5> DEFINE f == [old EXCEPT !.sides = sides]
        <5>2. f \in FilterType /\ panel' = [panel EXCEPT !.filter = f]
          BY <1>2, <5>1 DEF FilterType
        <5> QED
          BY <5>2
      <4> QED
        BY <2>1, <4>1, <4>2 DEF SetFilter
    <3> QED
      BY <1>2, <3>1, <3>2 DEF PanelType
  <2>2. CASE toggleGroup
    <3>1. PICK id \in Listed(panel.side) :
            LET name == getEntity(Rec.entities, id).group
            IN  panel' = [panel EXCEPT !.closed = IF name \in @ THEN @ \ {name} ELSE @ \cup {name}]
      BY <2>2 DEF toggleGroup
    <3> DEFINE name == getEntity(Rec.entities, id).group
               Names == {getEntity(Rec.entities, i).group : i \in Ids(Rec.entities)}
               closed == IF name \in panel.closed THEN panel.closed \ {name}
                         ELSE panel.closed \cup {name}
    <3>2. closed \subseteq Names
      BY <1>2, <1>3 DEF PanelType
    <3>3. panel' = [panel EXCEPT !.closed = closed] /\ flights' = flights
      BY <2>2, <3>1 DEF toggleGroup
    <3> HIDE DEF closed
    <3> QED
      BY <1>2, <3>2, <3>3 DEF PanelType
  <2>3. CASE SelectUnit
    <3>1. PICK id \in Rows : panel' = [panel EXCEPT !.selected = IF @ = id THEN None ELSE id]
      BY <2>3 DEF SelectUnit
    <3> DEFINE selected == IF panel.selected = id THEN None ELSE id
    <3>2. selected \in Ids(Rec.entities) \cup {None}
      BY <1>3
    <3>3. panel' = [panel EXCEPT !.selected = selected] /\ flights' = flights
      BY <2>3, <3>1 DEF SelectUnit
    <3> HIDE DEF selected
    <3> QED
      BY <1>2, <3>2, <3>3 DEF PanelType
  <2>4. CASE toggleBlacklist
    <3> DEFINE id == panel.selected
               next == IF id \in mgr.black THEN mgr.black \ {id} ELSE mgr.black \cup {id}
    <3>1. /\ flights' = flights \cup {[op |-> "toggle", next |-> next]}
          /\ id \in Rows /\ panel' = panel
      BY <2>4 DEF toggleBlacklist
    <3>2. next \subseteq Ids(Rec.entities)
      BY <1>2, <1>3, <3>1 DEF PictureOK
    <3> HIDE DEF next
    <3>3. [op |-> "toggle", next |-> next] \in Flights
      BY <3>2 DEF Flights
    <3> QED
      BY <1>2, <3>1, <3>3
  <2> QED
    BY <2>1, <2>2, <2>3, <2>4 DEF PanelStep
<1>5. PictureOK'
  BY <1>1, <1>2, PictureUnchanged
<1>6. PanelsOK'
  BY <1>1, <1>4, PanelsKept DEF SceneInv, PanelsOK
<1> QED
  BY <1>1, <1>2, <1>5, <1>6 DEF SceneInv

\* Another side's tab, and the answers about the blacklist.
FilterStep == SelectSide \/ ToggleAnswers \/ BlacklistArrives

\* Such a step keeps the invariant, and the frame.
LEMMA FilterSteps ==
    ASSUME SceneAssumption, SceneInv, FilterStep, left' = left
    PROVE  SceneInv' /\ play'.frame = play.frame
<1>1. UNCHANGED <<visit, play>> /\ (Click \/ clicks' = clicks)
  BY DEF FilterStep, SelectSide, ToggleAnswers, BlacklistArrives
<1>2. /\ visit \in Visits /\ PictureOK /\ panel \in PanelType /\ flights \subseteq Flights
      /\ MapOK(TheMap) /\ Filtered(mgr) /\ TheMap.m = mgr /\ TheMap.w = view
      /\ mgr.side \in Sides /\ mgr.black \subseteq Ids(Rec.entities)
  BY DEF SceneInv, PictureOK, PanelsOK, TheMap, On
<1>3. ASSUME NEW side \in Sides,
             mgr' = setSideFilter(TheMap, side).m, view' = setSideFilter(TheMap, side).w
      PROVE  PictureOK'
  <2> DEFINE q == setSideFilter(TheMap, side)
  <2>1. /\ MapOK(q) /\ Filtered(q.m) /\ SameButIcons(view, q.w)
        /\ q.m.side = side /\ q.m.black = mgr.black
    <3>1. Filtered(TheMap.m) /\ mgr.black = TheMap.m.black
      BY <1>2
    <3>2. /\ MapOK(q) /\ Filtered(q.m) /\ SameButIcons(TheMap.w, q.w)
          /\ q.m.side = side /\ q.m.black = TheMap.m.black
      BY <1>2, <3>1, FiltersSet
    <3> QED
      BY <1>2, <3>1, <3>2
  <2>2. mgr' = q.m /\ view' = q.w
    BY <1>3
  <2> HIDE DEF q
  <2> QED
    BY <1>1, <1>2, <2>1, <2>2, PictureRefiltered DEF FilterStep, SelectSide, ToggleAnswers,
       BlacklistArrives
<1>4. ASSUME NEW black, black \subseteq Ids(Rec.entities),
             mgr' = setBlacklist(TheMap, black).m, view' = setBlacklist(TheMap, black).w
      PROVE  PictureOK'
  <2> DEFINE q == setBlacklist(TheMap, black)
  <2>1. /\ MapOK(q) /\ Filtered(q.m) /\ SameButIcons(view, q.w)
        /\ q.m.side = mgr.side /\ q.m.black = black
    BY <1>2, FiltersSet
  <2>2. mgr' = q.m /\ view' = q.w
    BY <1>4
  <2> HIDE DEF q
  <2> QED
    BY <1>1, <1>2, <1>4, <2>1, <2>2, PictureRefiltered
<1>5. ASSUME UNCHANGED <<mgr, view>> PROVE PictureOK'
  BY <1>1, <1>2, <1>5, PictureUnchanged
<1>6. /\ TheMap = [m |-> mgr, w |-> view]
      /\ PictureOK' /\ panel' \in PanelType /\ flights' \subseteq Flights
  <2>1. TheMap = [m |-> mgr, w |-> view]
    BY DEF TheMap, On
  <2>2. CASE SelectSide
    <3>1. PICK side \in populatedSides \ {panel.side} :
            /\ panel' = [panel EXCEPT !.side = side, !.closed = {}]
            /\ mgr' = setSideFilter(TheMap, side).m /\ view' = setSideFilter(TheMap, side).w
      BY <2>1, <2>2 DEF SelectSide
    <3>2. side \in Sides /\ flights' = flights
      BY <2>2 DEF populatedSides, SelectSide
    <3>3. panel' \in PanelType
      BY <1>2, <3>1, <3>2 DEF PanelType
    <3> QED
      BY <1>2, <1>3, <2>1, <3>1, <3>2, <3>3
  <2>3. CASE ToggleAnswers
    <3>1. PICK f \in {g \in flights : g.op = "toggle"} :
            /\ flights' = flights \ {f}
            /\ \/ /\ mgr' = setBlacklist(TheMap, f.next).m
                  /\ view' = setBlacklist(TheMap, f.next).w
               \/ UNCHANGED <<mgr, view>>
      BY <2>1, <2>3 DEF ToggleAnswers
    <3>2. f.next \subseteq Ids(Rec.entities)
      BY <1>2, <3>1 DEF Flights
    <3>3. panel' \in PanelType
      BY <1>2, <2>3 DEF ToggleAnswers
    <3> QED
      BY <1>2, <1>4, <1>5, <2>1, <3>1, <3>2, <3>3
  <2>4. CASE BlacklistArrives
    <3>1. /\ flights' = flights \ {[op |-> "load"]}
          /\ \/ \E black \in SUBSET (Players \cap DOMAIN getMarkerCountsByPlayer(mgr)) :
                  /\ mgr' = setBlacklist(TheMap, black).m /\ view' = setBlacklist(TheMap, black).w
                  /\ panel' = [panel EXCEPT !.counted = TRUE]
             \/ UNCHANGED <<mgr, view, panel>>
      BY <2>1, <2>4 DEF BlacklistArrives
    <3>2. Players \subseteq Ids(Rec.entities)
      BY DEF Players, PlayersOf
    <3>3. [panel EXCEPT !.counted = TRUE] \in PanelType
      <4>1. PICK yes \in BOOLEAN : yes = TRUE
        OBVIOUS
      <4>2. [panel EXCEPT !.counted = yes] \in PanelType
        BY <1>2 DEF PanelType
      <4> QED
        BY <4>1, <4>2
    <3> QED
      BY <1>2, <1>4, <1>5, <2>1, <3>1, <3>2, <3>3
  <2> QED
    BY <2>1, <2>2, <2>3, <2>4 DEF FilterStep
<1>7. PanelsOK'
  BY <1>1, <1>6, PanelsKept DEF SceneInv, PanelsOK
<1> QED
  BY <1>1, <1>2, <1>6, <1>7 DEF SceneInv

\* The visitor leaves the page.
LEMMA LeaveStep ==
    ASSUME SceneAssumption, SceneInv, Leave
    PROVE  SceneInv' /\ play'.frame = play.frame
<1> DEFINE q == clearMarkers(TheMap)
<1>1. /\ visit \in Visits /\ PictureOK
      /\ MapOK(TheMap) /\ TheMap.m = mgr /\ TheMap.w = view
      /\ mgr.side \in Sides /\ mgr.black \subseteq Ids(Rec.entities)
  BY DEF SceneInv, PictureOK, TheMap, On
<1>2. /\ UNCHANGED <<visit, panel, flights, clicks>> /\ left' = TRUE
      /\ mgr' = q.m /\ view' = [q.w EXCEPT !.ents = <<>>, !.lines = {}]
      /\ play' = [play EXCEPT !.playing = FALSE, !.snaps = <<>>]
  BY DEF Leave, TheMap, On
<1>3. Rec' = Rec
  BY <1>2 DEF Rec
<1>4. /\ MapOK(q) /\ Filtered(q.m) /\ q.m.side = mgr.side /\ q.m.black = mgr.black
      /\ q = On(q.m, q.w)
  <2>1. MapOK(q) /\ Filtered(q.m) /\ q.m.side = mgr.side /\ q.m.black = mgr.black
    BY <1>1, Cleared
  <2> HIDE DEF q
  <2> QED
    BY <2>1 DEF MapOK, Pairs, On
<1> HIDE DEF q
<1>5. ViewOK(view') /\ view'.icons = q.w.icons /\ view'.ents = <<>> /\ view'.lines = {}
  <2>1. ViewOK(q.w)
    BY <1>4 DEF MapOK
  <2> QED
    BY <1>2, <2>1, EntitiesGone
<1>6. MapOK(TheMap')
  <2>1. MapOK(On(q.m, view'))
    BY <1>4, <1>5, MapStays
  <2> QED
    BY <1>2, <2>1 DEF TheMap
<1>7. play' \in Plays' /\ play'.snaps = <<>> /\ play'.frame = play.frame
  <2> DEFINE new == play'
             Here == SUBSET DOMAIN Chunks[visit.rec]
             Frames == 0 .. Rec.end
  <2>1. play \in [frame: Frames, playing: BOOLEAN, here: Here, snaps: {play.snaps}]
    BY <1>1 DEF PictureOK, Plays
  <2>2. PICK no \in BOOLEAN : no = FALSE
    OBVIOUS
  <2>3. new = [play EXCEPT !.playing = no, !.snaps = <<>>]
    BY <1>2, <2>2
  <2>4. Plays' = [frame: Frames, playing: BOOLEAN, here: Here, snaps: {new.snaps}]
    BY <1>2, <1>3 DEF Plays
  <2> HIDE DEF new, Here, Frames
  <2>5. /\ new.frame = play.frame /\ new.snaps = <<>>
        /\ new \in [frame: Frames, playing: BOOLEAN, here: Here, snaps: {new.snaps}]
    BY <2>1, <2>3
  <2> QED
    BY <2>4, <2>5 DEF new
<1>8. Stands(view', <<>>, HitIn(Rec.events, play.frame))
  BY <1>5 DEF Stands
<1>9. PictureOK'
  <2>1. (mgr.side \in Sides /\ mgr.black \subseteq Ids(Rec.entities))' /\ Filtered(mgr')
    BY <1>1, <1>2, <1>3, <1>4
  <2>2. Stands(view, play.snaps, HitIn(Rec.events, play.frame))'
    BY <1>3, <1>7, <1>8
  <2> QED
    BY <1>2, <1>6, <1>7, <2>1, <2>2 DEF PictureOK
<1>10. PanelsOK'
  <2>1. left' \in BOOLEAN
    BY <1>2
  <2> QED
    BY <1>2, <2>1, PanelsKept DEF SceneInv, PanelsOK
<1> QED
  BY <1>1, <1>2, <1>7, <1>9, <1>10 DEF SceneInv

-----------------------------------------------------------------------------
(* Theorems                                                                 *)

\* SceneInv is an invariant of every recording and visit.
THEOREM SceneInvariant == Spec => []SceneInv
<1>1. Init => SceneInv
  BY SceneAssumption, InitInv
<1>2. SceneInv /\ [Next]_vars => SceneInv'
  <2> SUFFICES ASSUME SceneInv, [Next]_vars PROVE SceneInv'
    OBVIOUS
  <2>1. CASE Leave
    BY <2>1, SceneAssumption, LeaveStep
  <2>2. CASE ~left /\ Stay /\ UNCHANGED left
    <3>1. FrameStep \/ PlayStep \/ MapStep \/ PanelStep \/ FilterStep
      BY <2>2 DEF Stay, FrameStep, PlayStep, MapStep, PanelStep, FilterStep
    <3> QED
      BY <2>2, <3>1, SceneAssumption, FrameSteps, PlaySteps, MapSteps, PanelSteps, FilterSteps
  <2>3. CASE UNCHANGED vars
    <3>1. UNCHANGED <<visit, left, play, mgr, view, panel, flights, clicks>>
      BY <2>3 DEF vars
    <3>2. PictureOK'
      BY <3>1, PictureUnchanged DEF SceneInv
    <3>3. PanelsOK'
      BY <3>1, SceneAssumption, PanelsKept DEF SceneInv, PanelsOK
    <3> QED
      BY <3>1, <3>2, <3>3 DEF SceneInv
  <2> QED
    BY <2>1, <2>2, <2>3 DEF Next
<1> QED
  BY <1>1, <1>2, PTL DEF Spec

\* The state of the bridge, the marker manager, the renderer and the panels has
\* its type: the frame is one of the recording's, the blacklist and the selected
\* unit are entities of it.
THEOREM ScreenTyped == Spec => []TypeOK
<1>1. SceneInv => TypeOK
  <2> SUFFICES ASSUME SceneInv PROVE TypeOK
    OBVIOUS
  <2>1. view \in Views(view)
    BY DEF SceneInv, PictureOK, TheMap, On, MapOK, ViewOK
  <2> DEFINE v == [x \in DOMAIN view \ {"ents", "icons", "lines"} |-> view[x]]
  <2>2. v \in ViewType
    <3>1. DOMAIN view = {"canvas", "maplibre", "names", "mode", "labels", "vis", "onMap", "far",
                         "smoothing", "ready", "hidden", "active", "shown", "fetching",
                         "ents", "icons", "lines"}
      BY <2>1 DEF Views
    <3>2. v = [canvas |-> view.canvas, maplibre |-> view.maplibre, names |-> view.names,
               mode |-> view.mode, labels |-> view.labels, vis |-> view.vis,
               onMap |-> view.onMap, far |-> view.far, smoothing |-> view.smoothing,
               ready |-> view.ready, hidden |-> view.hidden, active |-> view.active,
               shown |-> view.shown, fetching |-> view.fetching]
      BY <3>1
    <3> HIDE DEF v
    <3> QED
      BY <2>1, <3>2 DEF Views, ViewType
  <2>3. /\ play.frame \in 0 .. Rec.end /\ play.playing \in BOOLEAN
        /\ play.here \subseteq DOMAIN Chunks[visit.rec]
    BY DEF SceneInv, PictureOK, Plays
  <2> QED
    BY <2>2, <2>3 DEF TypeOK, SceneInv, PictureOK, PanelsOK
<1> QED
  BY <1>1, SceneInvariant, PTL

\* Nothing a filter forbids is on the map, and nothing is there that the marker
\* manager has lost track of (setSideFilter, setBlacklist, updateFrame, clear).
THEOREM HiddenStaysHidden == Spec => []NoHiddenMarker
<1>1. SceneInv => NoHiddenMarker
  <2> SUFFICES ASSUME SceneInv PROVE NoHiddenMarker
    OBVIOUS
  <2>1. TheMap.m = mgr /\ TheMap.w = view /\ HandlesOK(TheMap) /\ Filtered(mgr)
    BY DEF SceneInv, PictureOK, MapOK, TheMap, On
  <2> QED
    BY <2>1 DEF NoHiddenMarker, HandlesOK, Filtered, OnMap
<1> QED
  BY <1>1, SceneInvariant, PTL

\* The renderer stands for the snapshots whatever frame was reached, chunk
\* arrived or page left (the sync of useRenderBridge).
THEOREM RendererStandsForSnapshots == Spec => []EntitiesAreSnapshots
<1>1. SceneInv => EntitiesAreSnapshots
  BY DEF SceneInv, PictureOK, Stands, EntitiesAreSnapshots, FireLines
<1> QED
  BY <1>1, SceneInvariant, PTL

\* The picture of a frame, from what a step to it leaves.
FrameReached ==
    /\ AllRight(mgr, view, play.frame)
    /\ (view.canvas /\ ~play.playing /\ play.frame # Rec.end) => AllSettled(view)

\* That is the picture the property asks for.
LEMMA PictureReached == FrameReached => PictureOfFrame
<1> SUFFICES ASSUME FrameReached PROVE PictureOfFrame
  OBVIOUS
<1>1. ASSUME NEW i \in DOMAIN mgr.tracked
      PROVE  LET t == mgr.tracked[i]
             IN  /\ t.handle # 0 <=> Shows(t, play.frame)
                 /\ t.handle # 0 => \E last \in Before(t, play.frame) :
                        /\ \A j \in Before(t, play.frame) : j <= last
                        /\ view.icons[t.handle].at = PlaceAt(t, last, play.frame)
  <2> DEFINE r == On(mgr, view)
             t == mgr.tracked[i]
  <2>1. r.m = mgr /\ r.w = view /\ Right(r, i, play.frame)
    BY DEF FrameReached, AllRight, On
  <2> HIDE DEF r
  <2>2. t.handle # 0 <=> Shows(t, play.frame)
    BY <2>1 DEF Right, Active, Shows
  <2>3. ASSUME t.handle # 0
        PROVE  \E last \in Before(t, play.frame) :
                    /\ \A j \in Before(t, play.frame) : j <= last
                    /\ view.icons[t.handle].at = PlaceAt(t, last, play.frame)
    <3>1. PICK last : /\ LastBefore(t.def.positions, play.frame, last)
                      /\ view.icons[t.handle].at = PlaceAt(t, last, play.frame)
      BY <2>1, <2>3 DEF Right
    <3>2. last \in Before(t, play.frame) /\ \A j \in Before(t, play.frame) : j <= last
      BY <3>1 DEF LastBefore, Before
    <3> QED
      BY <3>1, <3>2
  <2> QED
    BY <2>2, <2>3
<1> QED
  BY <1>1 DEF FrameReached, AllSettled, PictureOfFrame

\* Whenever the frame changes, by a tick, a seek or a click on an event, the
\* markers and the entities that are shown are the ones of the new frame
\* (MarkerManager.updateFrame, Engine.seekTo).
THEOREM MarkersFollow == Spec => MarkersFollowFrame
<1>1. SceneInv /\ [Next]_vars => [play'.frame # play.frame => FrameReached']_vars
  <2> SUFFICES ASSUME SceneInv, Next, play'.frame # play.frame PROVE FrameReached'
    OBVIOUS
  <2>1. ~Leave
    BY SceneAssumption, LeaveStep
  <2>2. ~left /\ Stay /\ left' = left
    BY <2>1 DEF Next
  <2>3. FrameStep
    <3>1. FrameStep \/ PlayStep \/ MapStep \/ PanelStep \/ FilterStep
      BY <2>2 DEF Stay, FrameStep, PlayStep, MapStep, PanelStep, FilterStep
    <3> QED
      BY <2>2, <3>1, SceneAssumption, PlaySteps, MapSteps, PanelSteps, FilterSteps
  <2>4. /\ AllRight(mgr', view', play'.frame)
        /\ (view'.canvas /\ ~play'.playing /\ play'.frame # Rec.end) => AllSettled(view')
    BY <2>2, <2>3, SceneAssumption, FrameSteps
  <2>5. Rec' = Rec
    BY <2>3 DEF FrameStep, Tick, SeekTo, ClickEvent, Rec
  <2> QED
    BY <2>4, <2>5 DEF FrameReached
<1>2. FrameReached' => PictureOfFrame'
  BY PictureReached, PTL
<1>3. SceneInv /\ [Next]_vars => [play'.frame # play.frame => PictureOfFrame']_vars
  BY <1>1, <1>2
<1> QED
  BY <1>3, SceneInvariant, PTL DEF Spec, MarkersFollowFrame

-----------------------------------------------------------------------------
(* What switches the layers and the names                                   *)

\* MapLibre's layers wait for the first style, and no name is open off the map.
Tidy(w) ==
    /\ ~w.ready => \A l \in GLLayers : l \notin w.onMap
    /\ ~w.canvas => \A id \in DOMAIN w.ents : w.ents[id].popup.open => "entities" \in w.onMap

\* What SwitchedAlone says of one of MapLibre's layers, and of the names.
LayerFollows(w, v, l) ==
    l \in v.onMap <=>
        IF (l \in v.vis) # (l \in w.vis) THEN v.ready /\ l \in v.vis
        ELSE l \in w.onMap \/ (v.ready /\ ~w.ready)
NamesFollow(w, v) ==
    ~w.canvas => \A id \in DOMAIN v.ents :
        v.ents[id].popup.open <=>
            /\ "entities" \in v.onMap
            /\ id \in DOMAIN w.ents => w.ents[id].popup.open
Follows(w, v) ==
    /\ v.canvas = w.canvas /\ (w.ready => v.ready)
    /\ \A l \in GLLayers : LayerFollows(w, v, l)
    /\ NamesFollow(w, v)

\* What follows a tidy map is tidy.
LEMMA TidyStays ==
    ASSUME NEW w, NEW v, Tidy(w), Follows(w, v)
    PROVE  Tidy(v)
BY DEF Tidy, Follows, LayerFollows, NamesFollow

\* Layers and switches are the same.
SameLayers(w, v) ==
    v.canvas = w.canvas /\ v.ready = w.ready /\ v.vis = w.vis /\ v.onMap = w.onMap

\* The same names are open.
SameNames(w, v) ==
    ~w.canvas => /\ DOMAIN v.ents = DOMAIN w.ents
                 /\ \A id \in DOMAIN w.ents : v.ents[id].popup.open = w.ents[id].popup.open

\* The popups of the DOM renderer.
LEMMA NamesTyped ==
    ASSUME NEW w, ViewOK(w), ~w.canvas, NEW id \in DOMAIN w.ents
    PROVE  /\ w.ents[id] \in DomMarkers(w.ents[id])
           /\ w.ents[id].popup \in Popups /\ w.ents[id].popup.open \in BOOLEAN
<1>1. EntOK(w, w.ents[id])
  BY DEF ViewOK
<1>2. w.ents[id].popup \in Popups /\ w.ents[id] \in DomMarkers(w.ents[id])
  BY <1>1 DEF EntOK, DomMarkers
<1> QED
  BY <1>2 DEF Popups

\* Most of what happens switches nothing.
LEMMA NothingSwitched ==
    ASSUME NEW w, ViewOK(w), Tidy(w), NEW v, v.canvas = w.canvas, v.ready = w.ready,
           \A l \in GLLayers : (l \in v.vis <=> l \in w.vis) /\ (l \in v.onMap <=> l \in w.onMap),
           "entities" \in v.onMap <=> "entities" \in w.onMap, SameNames(w, v)
    PROVE  Follows(w, v)
<1>1. \A l \in GLLayers : LayerFollows(w, v, l)
  BY DEF LayerFollows
<1>2. NamesFollow(w, v)
  <2> SUFFICES ASSUME ~w.canvas, NEW id \in DOMAIN v.ents
               PROVE  v.ents[id].popup.open <=>
                        /\ "entities" \in v.onMap
                        /\ id \in DOMAIN w.ents => w.ents[id].popup.open
    BY DEF NamesFollow
  <2>1. id \in DOMAIN w.ents /\ v.ents[id].popup.open = w.ents[id].popup.open
    BY DEF SameNames
  <2>2. w.ents[id].popup.open \in BOOLEAN
    BY <2>1, NamesTyped
  <2>3. w.ents[id].popup.open => "entities" \in w.onMap
    BY <2>1 DEF Tidy
  <2> QED
    BY <2>1, <2>2, <2>3
<1> QED
  BY <1>1, <1>2 DEF Follows

\* OpenIcons and what is told of the icons leave the rest.
LEMMA IconsAside ==
    ASSUME NEW w, w \in Views(w), NEW group, NEW open
    PROVE  LET v == OpenIcons(w, group, open)
           IN  SameLayers(w, v) /\ v.ents = w.ents
<1> DEFINE icons == [h \in DOMAIN w.icons |->
               IF w.icons[h].group = group /\ w.icons[h].form \in {"icon", "label"}
               THEN [w.icons[h] EXCEPT !.open = h \in open] ELSE w.icons[h]]
           v == OpenIcons(w, group, open)
<1>1. v = [w EXCEPT !.icons = icons]
  BY DEF OpenIcons
<1> HIDE DEF icons, v
<1>2. SameLayers(w, v) /\ v.ents = w.ents
  BY <1>1 DEF Views, SameLayers
<1> QED
  BY <1>2 DEF v

\* Popups that are hidden or seen stay open or closed.
LEMMA PopupsAside ==
    ASSUME NEW w, ViewOK(w), NEW v, v \in Views(v), v.ents = w.ents, v.canvas = w.canvas
    PROVE  LET u == RefreshPopups(v)
           IN  SameLayers(v, u) /\ SameNames(w, u)
<1> DEFINE u == RefreshPopups(v)
<1>1. CASE v.canvas
  <2>1. u = v
    BY <1>1 DEF RefreshPopups
  <2> QED
    BY <1>1, <2>1 DEF SameLayers, SameNames
<1>2. CASE ~v.canvas
  <2> DEFINE shut(id) == v.ents[id].popup.element /\ NameHidden(v, v.ents[id].body)
             new(id) == [v.ents[id] EXCEPT !.popup.hidden = shut(id)]
  <2>1. u = [v EXCEPT !.ents = [id \in DOMAIN v.ents |-> new(id)]]
    BY <1>2 DEF RefreshPopups
  <2> HIDE DEF shut
  <2>2. ASSUME NEW id \in DOMAIN w.ents
        PROVE  new(id).popup.open = w.ents[id].popup.open
    <3> DEFINE e == w.ents[id]
               s == shut(id)
    <3>1. e \in DomMarkers(e) /\ e.popup \in Popups
      BY <1>2, NamesTyped
    <3>2. new(id) = [e EXCEPT !.popup.hidden = s]
      OBVIOUS
    <3> HIDE DEF e, s, new
    <3>3. new(id).popup = [e.popup EXCEPT !.hidden = s]
      BY <3>1, <3>2 DEF DomMarkers
    <3>4. new(id).popup.open = e.popup.open
      BY <3>1, <3>3 DEF Popups
    <3> QED
      BY <3>4 DEF e
  <2> HIDE DEF new, u
  <2>3. SameLayers(v, u) /\ u.ents = [id \in DOMAIN v.ents |-> new(id)]
    BY <2>1 DEF Views, SameLayers
  <2>4. SameNames(w, u)
    BY <2>2, <2>3 DEF SameNames
  <2> QED
    BY <2>3, <2>4 DEF u
<1> QED
  BY <1>1, <1>2

\* The settings of names, zoom, markers and labels, and the tweens of the canvas.
LEMMA SettingsAside ==
    ASSUME NEW w, ViewOK(w), Tidy(w), NEW v,
           \/ \E mode \in NameModes : v = SetNameDisplayMode(w, mode)
           \/ \E far \in BOOLEAN : v = Zoom(w, far)
           \/ \E mode \in MarkerModes : v = SetMarkerDisplayMode(w, mode)
           \/ \E visible \in BOOLEAN : v = SetProjectileLabels(w, visible)
           \/ w.canvas /\ v = SettleTweens(w)
    PROVE  Follows(w, v)
<1>1. w \in Views(w)
  BY DEF ViewOK
<1>2. CASE \/ \E mode \in NameModes : v = SetNameDisplayMode(w, mode)
           \/ \E far \in BOOLEAN : v = Zoom(w, far)
  <2>1. PICK u : u \in Views(u) /\ u.ents = w.ents /\ SameLayers(w, u) /\ v = RefreshPopups(u)
    <3>1. CASE \E mode \in NameModes : v = SetNameDisplayMode(w, mode)
      <4>1. PICK mode \in NameModes : v = SetNameDisplayMode(w, mode)
        BY <3>1
      <4> DEFINE u == [w EXCEPT !.names = mode]
      <4>2. u \in Views(u) /\ u.ents = w.ents /\ SameLayers(w, u)
        BY <1>1 DEF Views, SameLayers
      <4>3. v = RefreshPopups(u)
        BY <4>1 DEF SetNameDisplayMode
      <4> QED
        BY <4>2, <4>3
    <3>2. CASE \E far \in BOOLEAN : v = Zoom(w, far)
      <4>1. PICK far \in BOOLEAN : v = Zoom(w, far)
        BY <3>2
      <4> DEFINE u == [w EXCEPT !.far = far]
      <4>2. u \in Views(u) /\ u.ents = w.ents /\ SameLayers(w, u)
        BY <1>1 DEF Views, SameLayers
      <4>3. v = RefreshPopups(u)
        BY <4>1 DEF Zoom
      <4> QED
        BY <4>2, <4>3
    <3> QED
      BY <1>2, <3>1, <3>2
  <2>2. SameLayers(u, v) /\ SameNames(w, v)
    BY <2>1, PopupsAside DEF SameLayers
  <2> QED
    BY <2>1, <2>2, NothingSwitched DEF SameLayers
<1>3. CASE \E mode \in MarkerModes : v = SetMarkerDisplayMode(w, mode)
  <2>1. PICK mode \in MarkerModes : v = SetMarkerDisplayMode(w, mode)
    BY <1>3
  <2> DEFINE told == [w EXCEPT !.mode = mode]
             on == [told EXCEPT !.onMap = @ \cup {"briefingMarkers"}]
             off == [told EXCEPT !.onMap = @ \ {"briefingMarkers"}]
  <2>2. \A u \in {on, off} :
            /\ u \in Views(u) /\ u.ents = w.ents /\ u.canvas = w.canvas
            /\ u.ready = w.ready /\ u.vis = w.vis
            /\ \A l : l # "briefingMarkers" => (l \in u.onMap <=> l \in w.onMap)
    <3>1. told \in Views(told) /\ told.ents = w.ents /\ told.canvas = w.canvas
          /\ told.ready = w.ready /\ told.vis = w.vis /\ told.onMap = w.onMap
      BY <1>1, <2>1 DEF Views
    <3> HIDE DEF told
    <3> QED
      BY <3>1 DEF Views, Groups
  <2>3. PICK u \in {on, off} : \E open : v = OpenIcons(u, "briefingMarkers", open)
    <3>1. CASE mode = "none"
      BY <2>1, <3>1 DEF SetMarkerDisplayMode, CloseGroup
    <3>2. CASE mode # "none"
      BY <2>1, <3>2 DEF SetMarkerDisplayMode
    <3> QED
      BY <3>1, <3>2
  <2> HIDE DEF on, off
  <2>4. SameLayers(u, v) /\ v.ents = u.ents
    BY <2>2, <2>3, IconsAside
  <2>5. /\ v.canvas = w.canvas /\ v.ready = w.ready /\ v.vis = w.vis /\ v.ents = w.ents
        /\ \A l : l # "briefingMarkers" => (l \in v.onMap <=> l \in w.onMap)
    BY <2>2, <2>4 DEF SameLayers
  <2>6. "entities" # "briefingMarkers" /\ "briefingMarkers" \notin GLLayers
    BY DEF GLLayers
  <2> QED
    BY <2>5, <2>6, NothingSwitched DEF SameNames
<1>4. CASE \E visible \in BOOLEAN : v = SetProjectileLabels(w, visible)
  <2>1. PICK visible \in BOOLEAN : v = SetProjectileLabels(w, visible)
    BY <1>4
  <2> DEFINE u == [w EXCEPT !.labels = visible]
             open == IF visible /\ "projectileMarkers" \in w.onMap THEN Texts(w) ELSE {}
  <2>2. u \in Views(u) /\ u.ents = w.ents /\ SameLayers(w, u)
    BY <1>1 DEF Views, SameLayers
  <2>3. v = OpenIcons(u, "projectileMarkers", open)
    BY <2>1 DEF SetProjectileLabels
  <2> HIDE DEF u, open
  <2>4. SameLayers(u, v) /\ v.ents = u.ents
    BY <2>2, <2>3, IconsAside
  <2> QED
    BY <2>2, <2>4, NothingSwitched DEF SameLayers, SameNames
<1>5. CASE w.canvas /\ v = SettleTweens(w)
  <2> DEFINE ents == [id \in DOMAIN w.ents |->
                LET e == w.ents[id]
                IN  [e EXCEPT !.settled = e.settled \/ id \in {d.id : d \in Drawn(w)}]]
  <2>1. v = [w EXCEPT !.ents = ents]
    BY <1>5 DEF SettleTweens
  <2> HIDE DEF ents
  <2>2. SameLayers(w, v)
    BY <1>1, <2>1 DEF Views, SameLayers
  <2> QED
    BY <1>5, <2>2, NothingSwitched DEF SameLayers, SameNames
<1> QED
  BY <1>2, <1>3, <1>4, <1>5

\* setLayerVisible moves its own layer, and closes the names with theirs.
LEMMA LayerSwitched ==
    ASSUME NEW w, ViewOK(w), Tidy(w), NEW layer \in LayerNames, NEW visible \in BOOLEAN,
           visible <=> layer \notin w.vis
    PROVE  Follows(w, SetLayerVisible(w, layer, visible))
<1> DEFINE told == [w EXCEPT !.vis = IF visible THEN @ \cup {layer} ELSE @ \ {layer}]
           on == [told EXCEPT !.onMap = @ \cup {layer}]
           off == [told EXCEPT !.onMap = @ \ {layer}]
           v == SetLayerVisible(w, layer, visible)
<1>1. w \in Views(w)
  BY DEF ViewOK
<1>2. /\ told.vis = IF visible THEN w.vis \cup {layer} ELSE w.vis \ {layer}
      /\ told \in Views(told) /\ told.ents = w.ents /\ told.canvas = w.canvas
      /\ told.ready = w.ready /\ told.onMap = w.onMap
  BY <1>1 DEF Views
<1> HIDE DEF told
<1>3. /\ on.vis = told.vis /\ on.ents = w.ents /\ on.canvas = w.canvas /\ on.ready = w.ready
      /\ on.onMap = w.onMap \cup {layer}
      /\ layer \in Groups \cup LayerNames => on \in Views(on)
  BY <1>2 DEF Views
<1>4. /\ off.vis = told.vis /\ off.ents = w.ents /\ off.canvas = w.canvas /\ off.ready = w.ready
      /\ off.onMap = w.onMap \ {layer} /\ off \in Views(off)
  BY <1>2 DEF Views
<1>5. layer \in {"entities", "systemMarkers", "projectileMarkers", "grid",
                 "mapIcons", "buildings3D"}
  BY DEF LayerNames, Toggled, GLLayers
<1> HIDE DEF on, off
<1>6. ASSUME layer \in GLLayers
      PROVE  Follows(w, v)
  <2>1. v = ShowGL(told, layer, visible)
    BY <1>6 DEF SetLayerVisible, told, Toggled, GLLayers
  <2>2. /\ v.vis = told.vis /\ v.ents = w.ents /\ v.canvas = w.canvas /\ v.ready = w.ready
        /\ v.onMap = IF ~w.ready THEN w.onMap
                     ELSE IF visible THEN w.onMap \cup {layer} ELSE w.onMap \ {layer}
    <3> HIDE DEF v
    <3>1. CASE ~w.ready
      BY <1>2, <2>1, <3>1 DEF ShowGL
    <3>2. CASE w.ready /\ visible
      <4>1. v = [told EXCEPT !.onMap = @ \cup {layer}, !.hidden = @ \ {layer}]
        BY <1>2, <2>1, <3>2 DEF ShowGL
      <4> QED
        BY <1>2, <3>2, <4>1 DEF Views
    <3>3. CASE w.ready /\ ~visible
      <4>1. v = [told EXCEPT !.onMap = @ \ {layer}, !.hidden = @ \cup {layer}]
        BY <1>2, <2>1, <3>3 DEF ShowGL
      <4> QED
        BY <1>2, <3>3, <4>1 DEF Views
    <3> QED
      BY <3>1, <3>2, <3>3
  <2> HIDE DEF v
  <2>3. \A l \in GLLayers : LayerFollows(w, v, l)
    BY <1>2, <1>6, <2>2 DEF LayerFollows, Tidy
  <2>4. "entities" \in v.onMap <=> "entities" \in w.onMap
    BY <1>6, <2>2 DEF GLLayers
  <2>5. NamesFollow(w, v)
    <3> SUFFICES ASSUME ~w.canvas, NEW id \in DOMAIN w.ents
                 PROVE  w.ents[id].popup.open <=>
                            "entities" \in v.onMap /\ w.ents[id].popup.open
      BY <2>2 DEF NamesFollow
    <3>1. w.ents[id].popup.open \in BOOLEAN /\ (w.ents[id].popup.open => "entities" \in w.onMap)
      BY NamesTyped DEF Tidy
    <3> QED
      BY <2>4, <3>1
  <2> QED
    BY <2>2, <2>3, <2>5 DEF Follows
<1>7. ASSUME layer \notin GLLayers
      PROVE  \A l \in GLLayers : l # layer /\ (l \in told.vis <=> l \in w.vis)
  BY <1>2, <1>7
<1>8. ASSUME layer \in {"grid", "systemMarkers", "projectileMarkers"}
      PROVE  Follows(w, v)
  <2>1. layer \notin GLLayers /\ layer # "entities"
    BY <1>8 DEF GLLayers
  <2>2. PICK u \in {told, on, off} : SameLayers(u, v) /\ v.ents = u.ents
    <3>1. /\ told \in Views(told) /\ on \in Views(on) /\ off \in Views(off)
      BY <1>2, <1>3, <1>4
    <3>2. v = told \/ v = on \/ v = off \/ \E u \in {on, off} : \E open : v = OpenIcons(u, layer, open)
      <4>1. CASE layer = "grid"
        <5>1. v = IF visible THEN on ELSE off
          BY <4>1 DEF SetLayerVisible, told, Toggled, GLLayers, on, off
        <5> HIDE DEF v
        <5> QED
          BY <5>1
      <4>2. CASE layer # "grid" /\ visible
        <5>1. layer \in Toggled \ {"entities"}
          BY <1>8, <4>2 DEF Toggled
        <5>2. CASE layer \notin w.onMap
          <6>1. v = Reopen([told EXCEPT !.onMap = @ \cup {layer}], layer)
            BY <1>2, <2>1, <4>2, <5>1, <5>2 DEF SetLayerVisible, told, Toggled, GLLayers
          <6> QED
            BY <6>1 DEF Reopen, on
        <5>3. CASE layer \in w.onMap
          BY <2>1, <4>2, <5>1, <5>3 DEF SetLayerVisible, told, Toggled, GLLayers
        <5> QED
          BY <5>2, <5>3
      <4>3. CASE layer # "grid" /\ ~visible
        <5>1. layer \in Toggled
          BY <1>8, <4>3 DEF Toggled
        <5>2. v = CloseGroup(told, layer)
          BY <2>1, <4>3, <5>1 DEF SetLayerVisible, told, Toggled, GLLayers
        <5> QED
          BY <2>1, <5>2 DEF CloseGroup, off
      <4> QED
        BY <4>1, <4>2, <4>3
    <3> HIDE DEF v
    <3>3. CASE v = told \/ v = on \/ v = off
      BY <3>3 DEF SameLayers
    <3>4. CASE \E u \in {on, off} : \E open : v = OpenIcons(u, layer, open)
      BY <3>1, <3>4, IconsAside
    <3> QED
      BY <3>2, <3>3, <3>4
  <2> HIDE DEF v
  <2>3. /\ v.canvas = w.canvas /\ v.ready = w.ready /\ v.vis = told.vis /\ v.ents = w.ents
        /\ v.onMap \in {w.onMap, w.onMap \cup {layer}, w.onMap \ {layer}}
    BY <1>2, <1>3, <1>4, <2>2 DEF SameLayers
  <2>4. \A l : l # layer => (l \in v.onMap <=> l \in w.onMap)
    BY <2>3
  <2> QED
    BY <1>7, <2>1, <2>3, <2>4, NothingSwitched DEF SameNames
<1>9. ASSUME layer = "entities"
      PROVE  Follows(w, v)
  <2>1. layer \notin GLLayers /\ layer \in Toggled /\ layer # "grid"
    BY <1>9 DEF GLLayers, Toggled
  <2>2. CASE visible
    <3>1. v = on
      BY <1>9, <2>2 DEF SetLayerVisible, told, on, Toggled, GLLayers
    <3>2. \A l \in GLLayers : LayerFollows(w, on, l)
      BY <1>3, <1>7, <2>1 DEF LayerFollows
    <3>3. layer \in w.onMap <=> layer \in w.vis
      BY <2>1 DEF ViewOK, LayersOK
    <3>4. NamesFollow(w, on)
      <4> SUFFICES ASSUME ~w.canvas, NEW id \in DOMAIN w.ents
                   PROVE  w.ents[id].popup.open <=>
                              "entities" \in on.onMap /\ w.ents[id].popup.open
        BY <1>3 DEF NamesFollow
      <4>1. w.ents[id].popup.open \in BOOLEAN
        BY NamesTyped
      <4> QED
        BY <1>3, <1>9, <4>1
    <3> QED
      BY <1>3, <3>1, <3>2, <3>4 DEF Follows
  <2>3. CASE ~visible
    <3>1. v = CloseGroup(told, layer)
      BY <1>9, <2>3 DEF SetLayerVisible, told, Toggled, GLLayers
    <3>2. /\ v.canvas = w.canvas /\ v.ready = w.ready /\ v.vis = told.vis
          /\ v.onMap = w.onMap \ {layer} /\ DOMAIN v.ents = DOMAIN w.ents
          /\ ~w.canvas => \A id \in DOMAIN w.ents : v.ents[id].popup.open = FALSE
      <4> HIDE DEF v
      <4>1. CASE w.canvas
        <5>1. v = off
          BY <1>2, <1>9, <3>1, <4>1 DEF CloseGroup, off
        <5> QED
          BY <1>4, <4>1, <5>1
      <4>2. CASE ~w.canvas
        <5> DEFINE shut(id) == [off.ents[id] EXCEPT !.popup.open = FALSE]
        <5>1. v = [off EXCEPT !.ents = [id \in DOMAIN off.ents |-> shut(id)]]
          BY <1>2, <1>4, <1>9, <3>1, <4>2 DEF CloseGroup, off
        <5>2. ASSUME NEW id \in DOMAIN w.ents
              PROVE  shut(id).popup.open = FALSE
          <6> DEFINE e == w.ents[id]
          <6>1. e \in DomMarkers(e) /\ e.popup \in Popups
            BY <4>2, NamesTyped
          <6>2. PICK no \in BOOLEAN : no = FALSE
            OBVIOUS
          <6>3. shut(id) = [e EXCEPT !.popup.open = no]
            BY <1>4, <6>2
          <6> HIDE DEF e, shut
          <6>4. shut(id).popup = [e.popup EXCEPT !.open = no]
            BY <6>1, <6>3 DEF DomMarkers
          <6> QED
            BY <6>1, <6>2, <6>4 DEF Popups
        <5> HIDE DEF shut
        <5>3. /\ v.canvas = off.canvas /\ v.ready = off.ready /\ v.vis = off.vis
              /\ v.onMap = off.onMap /\ v.ents = [id \in DOMAIN off.ents |-> shut(id)]
          BY <1>4, <5>1 DEF Views
        <5> QED
          BY <1>4, <5>2, <5>3
      <4> QED
        BY <4>1, <4>2
    <3> HIDE DEF v
    <3>3. \A l \in GLLayers : LayerFollows(w, v, l)
      BY <1>7, <2>1, <3>2 DEF LayerFollows
    <3>4. NamesFollow(w, v)
      BY <1>9, <3>2 DEF NamesFollow
    <3> QED
      BY <3>2, <3>3, <3>4 DEF Follows
  <2> QED
    BY <2>2, <2>3
<1> HIDE DEF v
<1> QED
  BY <1>5, <1>6, <1>8, <1>9 DEF v, GLLayers

\* The first style brings MapLibre's layers, the others switch nothing.
LEMMA StyleSwitched ==
    ASSUME NEW w, ViewOK(w), Tidy(w), NEW v, NEW index \in Styles,
           \/ v = SetMapStyle(w, index)
           \/ v = StyleReady(w, index) /\ ~w.ready
           \/ v = StyleArrives(w, index)
           \/ v = StyleFails(w, index)
    PROVE  Follows(w, v)
<1>1. w \in Views(w)
  BY DEF ViewOK
<1>2. ASSUME SameLayers(w, v), v.ents = w.ents
      PROVE  Follows(w, v)
  BY <1>2, NothingSwitched DEF SameLayers, SameNames
<1>3. CASE v = SetMapStyle(w, index)
  <2>1. \/ v = w \/ v = [w EXCEPT !.active = index, !.fetching = @ \cup {index}]
        \/ v = [w EXCEPT !.active = index, !.shown = index]
    BY <1>3 DEF SetMapStyle, SwitchStyle, SwitchTiles
  <2> QED
    BY <1>1, <1>2, <2>1 DEF Views, SameLayers
<1>4. CASE v = StyleReady(w, index) /\ ~w.ready
  <2>1. PICK yes \in BOOLEAN : yes = TRUE
    OBVIOUS
  <2>2. v = [w EXCEPT !.ready = yes, !.onMap = @ \cup GLLayers, !.active = index, !.shown = index]
    BY <1>4, <2>1 DEF StyleReady
  <2>3. /\ v.ready /\ v.vis = w.vis /\ v.onMap = w.onMap \cup GLLayers /\ v.ents = w.ents
        /\ v.canvas = w.canvas
    BY <1>1, <2>1, <2>2 DEF Views
  <2>4. "entities" \notin GLLayers
    BY DEF GLLayers
  <2>5. \A l \in GLLayers : LayerFollows(w, v, l)
    BY <1>4, <2>3 DEF LayerFollows
  <2>6. NamesFollow(w, v)
    <3> SUFFICES ASSUME ~w.canvas, NEW id \in DOMAIN w.ents
                 PROVE  w.ents[id].popup.open <=>
                            "entities" \in v.onMap /\ w.ents[id].popup.open
      BY <2>3 DEF NamesFollow
    <3>1. w.ents[id].popup.open \in BOOLEAN /\ (w.ents[id].popup.open => "entities" \in w.onMap)
      BY NamesTyped DEF Tidy
    <3> QED
      BY <2>3, <3>1
  <2> QED
    BY <2>3, <2>5, <2>6 DEF Follows
<1>5. CASE v = StyleArrives(w, index) \/ v = StyleFails(w, index)
  BY <1>1, <1>2, <1>5 DEF Views, SameLayers, StyleArrives, StyleFails
<1> QED
  BY <1>3, <1>4, <1>5

\* Entities that follow snapshots: new ones with their name open where their layer
\* is on the map, the others as they were.
NamesTold(w, v, snaps) ==
    ~w.canvas =>
        /\ DOMAIN v.ents = DOMAIN snaps
        /\ \A id \in DOMAIN snaps :
                v.ents[id].popup.open = IF id \in DOMAIN w.ents THEN w.ents[id].popup.open
                                        ELSE "entities" \in w.onMap

\* What Sync does to the names.
LEMMA NamesSynced ==
    ASSUME NEW w, ViewOK(w), NEW snaps, NEW frame
    PROVE  LET v == Sync(w, snaps, frame)
           IN  SameLayers(w, v) /\ NamesTold(w, v, snaps)
<1> DEFINE hit == HitIn(Rec.events, frame)
           body(id) == Body(snaps[id], id \in hit)
           old(id) == IF id \in DOMAIN w.ents THEN w.ents[id] ELSE CreateEntity(w, body(id))
           new(id) == ChangeEntity(w, old(id), body(id))
           lines == UNION {FireLines(id, snaps[id].fired) : id \in DOMAIN snaps}
           v == Sync(w, snaps, frame)
<1>1. w \in Views(w)
  BY DEF ViewOK
<1>2. v = [w EXCEPT !.ents = [id \in DOMAIN snaps |-> new(id)], !.lines = lines]
  BY DEF Sync, SyncWith
<1> HIDE DEF hit, body
<1>3. ASSUME ~w.canvas, NEW id \in DOMAIN snaps
      PROVE  new(id).popup.open = IF id \in DOMAIN w.ents THEN w.ents[id].popup.open
                                  ELSE "entities" \in w.onMap
  <2>1. /\ old(id).popup \in Popups
        /\ old(id).popup.open = IF id \in DOMAIN w.ents THEN w.ents[id].popup.open
                                ELSE "entities" \in w.onMap
    <3>1. CASE id \in DOMAIN w.ents
      BY <1>3, <3>1, NamesTyped
    <3>2. CASE id \notin DOMAIN w.ents
      <4> DEFINE on == "entities" \in w.onMap
                 b == [body(id) EXCEPT !.inVehicle = FALSE, !.alive = 1, !.hit = FALSE]
                 popup == [element |-> on, open |-> on, hidden |-> FALSE]
      <4>1. old(id) = [body |-> b, popup |-> popup]
        BY <1>3, <3>2 DEF CreateEntity, CreateMarker
      <4> HIDE DEF b
      <4>2. old(id).popup = popup
        <5> HIDE DEF popup, old
        <5> QED
          BY <4>1
      <4>3. popup \in Popups /\ popup.open = on
        <5>1. on \in BOOLEAN
          OBVIOUS
        <5> HIDE DEF on
        <5> QED
          BY <5>1 DEF Popups
      <4> QED
        BY <3>2, <4>2, <4>3
    <3> QED
      BY <3>1, <3>2
  <2> DEFINE e == old(id)
             bod == body(id)
             s == e.popup.element /\ NameHidden(w, bod)
  <2>2. new(id) = [body |-> bod, popup |-> [e.popup EXCEPT !.hidden = s]]
    BY <1>3 DEF ChangeEntity, UpdateMarker
  <2> HIDE DEF e, bod, s, new
  <2>3. new(id).popup = [e.popup EXCEPT !.hidden = s] /\ e.popup \in Popups
    BY <2>1, <2>2 DEF e
  <2>4. new(id).popup.open = e.popup.open
    BY <2>3 DEF Popups
  <2> QED
    BY <2>1, <2>4 DEF e
<1> HIDE DEF new, lines, v
<1>4. SameLayers(w, v) /\ v.ents = [id \in DOMAIN snaps |-> new(id)]
  BY <1>1, <1>2 DEF Views, SameLayers
<1>5. NamesTold(w, v, snaps)
  BY <1>3, <1>4 DEF NamesTold
<1> QED
  BY <1>4, <1>5 DEF v

\* A step of the entities alone.
LEMMA TellingFollows ==
    ASSUME NEW w, ViewOK(w), Tidy(w), NEW v, SameLayers(w, v), NEW snaps, NamesTold(w, v, snaps)
    PROVE  Follows(w, v)
<1>1. \A l \in GLLayers : LayerFollows(w, v, l)
  BY DEF LayerFollows, SameLayers
<1>2. NamesFollow(w, v)
  <2> SUFFICES ASSUME ~w.canvas, NEW id \in DOMAIN snaps
               PROVE  v.ents[id].popup.open <=>
                        /\ "entities" \in v.onMap
                        /\ id \in DOMAIN w.ents => w.ents[id].popup.open
    BY DEF NamesFollow, NamesTold
  <2>1. CASE id \in DOMAIN w.ents
    <3>1. w.ents[id].popup.open \in BOOLEAN /\ (w.ents[id].popup.open => "entities" \in w.onMap)
      BY <2>1, NamesTyped DEF Tidy
    <3> QED
      BY <2>1, <3>1 DEF NamesTold, SameLayers
  <2>2. CASE id \notin DOMAIN w.ents
    BY <2>2 DEF NamesTold, SameLayers
  <2> QED
    BY <2>1, <2>2
<1> QED
  BY <1>1, <1>2 DEF Follows, SameLayers

\* Only icons are different.
LEMMA ButIcons ==
    ASSUME NEW w, NEW v, SameButIcons(w, v)
    PROVE  SameLayers(w, v) /\ v.ents = w.ents
BY DEF SameButIcons, SameLayers, Views

\* A step to another frame: the entities follow the old snapshots, if the frame
\* is another one, and then the new ones.
LEMMA MovingFollows ==
    ASSUME SceneAssumption, SceneInv, Tidy(view), ~left,
           NEW wanted, NEW playing \in BOOLEAN, MoveTo(wanted, playing)
    PROVE  Follows(view, view')
<1> DEFINE frame == IF wanted \in 0 .. Rec.end THEN wanted ELSE IF wanted < 0 THEN 0 ELSE Rec.end
           r == FrameSignal(frame)
           snaps == SnapshotsAt(frame, play.here)
           v == Sync(r.w, snaps, frame)
<1>1. /\ ViewOK(view) /\ view \in Views(view) /\ MapOK(TheMap) /\ Filtered(mgr)
      /\ DOMAIN view.ents = DOMAIN play.snaps
  BY DEF SceneInv, PictureOK, MapOK, TheMap, On, ViewOK, Stands
<1>2. frame \in Nat
  <2>1. Rec.end \in Nat
    BY RecordingLoaded DEF SceneInv
  <2> QED
    BY <2>1
<1>3. view' = [v EXCEPT !.smoothing = playing]
  BY DEF MoveTo, ShowSnapshots
<1> HIDE DEF frame
<1>4. SameLayers(view, r.w) /\ SameNames(view, r.w)
  <2>1. CASE frame = play.frame
    <3>1. r.w = view
      BY <2>1 DEF FrameSignal
    <3> QED
      BY <3>1 DEF SameLayers, SameNames
  <2>2. CASE frame # play.frame
    <3> DEFINE a == Sync(view, play.snaps, frame)
               u == On(mgr, a)
    <3>1. MapOK(u)
      BY <1>1, MapSynced DEF TheMap
    <3>2. SameLayers(view, a) /\ NamesTold(view, a, play.snaps)
      BY <1>1, NamesSynced
    <3>3. r = updateFrame(u, frame) /\ u.w = a
      BY <2>2 DEF FrameSignal, On
    <3> HIDE DEF a, u, r
    <3>4. SameButIcons(a, r.w)
      BY <1>2, <3>1, <3>3, FrameUpdated DEF SameMarks
    <3>5. SameLayers(a, r.w) /\ r.w.ents = a.ents
      BY <3>4, ButIcons
    <3> QED
      BY <1>1, <3>2, <3>5 DEF SameLayers, SameNames, NamesTold
  <2> QED
    BY <2>1, <2>2
<1>5. ViewOK(r.w)
  BY <1>1, <1>2, FrameSignalled DEF MapOK
<1> HIDE DEF r, snaps
<1>6. SameLayers(r.w, v) /\ NamesTold(r.w, v, snaps) /\ ViewOK(v)
  <2>1. SameLayers(r.w, v) /\ NamesTold(r.w, v, snaps)
    BY <1>5, NamesSynced
  <2>2. ViewOK(v)
    <3>1. v = SyncWith(r.w, snaps, HitIn(Rec.events, frame))
      BY DEF Sync
    <3> HIDE DEF v
    <3> QED
      BY <1>5, <3>1, Synced
  <2> QED
    BY <2>1, <2>2
<1> HIDE DEF v
<1>7. SameLayers(v, view') /\ view'.ents = v.ents
  BY <1>3, <1>6 DEF ViewOK, Views, SameLayers
<1>8. SameLayers(view, view') /\ NamesTold(view, view', snaps)
  BY <1>4, <1>6, <1>7 DEF SameLayers, SameNames, NamesTold
<1> QED
  BY <1>1, <1>8, TellingFollows

\* Every step switches layers and names as SwitchedAlone says.
LEMMA StepFollows ==
    ASSUME SceneAssumption, SceneInv, Tidy(view), [Next]_vars
    PROVE  Follows(view, view')
<1>1. /\ ViewOK(view) /\ view \in Views(view) /\ MapOK(TheMap) /\ Filtered(mgr)
      /\ TheMap.w = view
  BY DEF SceneInv, PictureOK, MapOK, TheMap, On, ViewOK
<1>2. ASSUME SameLayers(view, view'), view'.ents = view.ents
      PROVE  Follows(view, view')
  BY <1>1, <1>2, NothingSwitched DEF SameLayers, SameNames
<1>3. ASSUME view' = view
      PROVE  Follows(view, view')
  BY <1>2, <1>3 DEF SameLayers
<1>4. ASSUME SameButIcons(view, view')
      PROVE  Follows(view, view')
  BY <1>2, <1>4, ButIcons
<1>5. CASE Leave
  <2> DEFINE q == clearMarkers(TheMap)
  <2>1. view' = [q.w EXCEPT !.ents = <<>>, !.lines = {}]
    BY <1>5 DEF Leave, TheMap, On
  <2>2. SameButIcons(view, q.w)
    BY <1>1, Cleared
  <2> HIDE DEF q
  <2>3. SameLayers(view, q.w) /\ q.w \in Views(q.w)
    BY <2>2, ButIcons DEF SameButIcons, Views
  <2>4. SameLayers(view, view') /\ view'.ents = <<>>
    BY <2>1, <2>3 DEF Views, SameLayers
  <2>5. \A l \in GLLayers : LayerFollows(view, view', l)
    BY <2>4 DEF LayerFollows, SameLayers
  <2>6. NamesFollow(view, view')
    BY <2>4 DEF NamesFollow
  <2> QED
    BY <2>4, <2>5, <2>6 DEF Follows, SameLayers
<1>6. CASE ~left /\ FrameStep
  <2>1. play.playing \in BOOLEAN /\ Rec.end \in Nat /\ play.frame \in Nat
    <3>1. Rec.end \in Nat
      BY RecordingLoaded DEF SceneInv
    <3> QED
      BY <3>1 DEF SceneInv, PictureOK, Plays
  <2>2. PICK wanted : \E playing \in BOOLEAN : MoveTo(wanted, playing)
    <3>1. CASE Tick
      <4>1. PICK frame : MoveTo(frame, frame < Rec.end)
        BY <3>1 DEF Tick
      <4> DEFINE playing == frame < Rec.end
      <4>2. playing \in BOOLEAN /\ MoveTo(frame, playing)
        BY <4>1
      <4> HIDE DEF playing
      <4> QED
        BY <4>2
    <3>2. CASE SeekTo \/ ClickEvent
      BY <2>1, <3>2 DEF SeekTo, ClickEvent
    <3> QED
      BY <1>6, <3>1, <3>2 DEF FrameStep
  <2> QED
    BY <1>6, <2>2, MovingFollows
<1>7. CASE PlayStep
  <2>1. ASSUME NEW playing, view' = [view EXCEPT !.smoothing = playing]
        PROVE  Follows(view, view')
    BY <1>1, <1>2, <2>1 DEF Views, SameLayers
  <2>2. CASE TickAtEnd
    BY <2>1, <2>2 DEF TickAtEnd
  <2>3. CASE TogglePlay
    BY <2>1, <2>3 DEF TogglePlay
  <2>4. CASE ChunkArrives
    <3>1. PICK k, here, snaps : ChunkLoaded(k, here, snaps)
      BY <2>4 DEF ChunkArrives
    <3>2. CASE view' = Sync(view, snaps, play.frame)
      BY <1>1, <3>2, NamesSynced, TellingFollows
    <3>3. CASE view' = view
      BY <1>3, <3>3
    <3> QED
      BY <3>1, <3>2, <3>3 DEF ChunkLoaded
  <2> QED
    BY <1>7, <2>2, <2>3, <2>4 DEF PlayStep
<1>8. CASE MapStep
  <2>1. CASE Render \/ ChooseNames \/ ChooseMarkers \/ ToggleLabels \/ ZoomMap
    <3>1. \/ \E mode \in NameModes : view' = SetNameDisplayMode(view, mode)
          \/ \E far \in BOOLEAN : view' = Zoom(view, far)
          \/ \E mode \in MarkerModes : view' = SetMarkerDisplayMode(view, mode)
          \/ \E visible \in BOOLEAN : view' = SetProjectileLabels(view, visible)
          \/ view.canvas /\ view' = SettleTweens(view)
      <4>1. CASE Render \/ ChooseNames \/ ChooseMarkers
        BY <4>1 DEF Render, ChooseNames, ChooseMarkers, Setting
      <4>2. CASE ToggleLabels
        <5> DEFINE visible == ~view.labels
        <5>1. visible \in BOOLEAN /\ view' = SetProjectileLabels(view, visible)
          BY <4>2 DEF ToggleLabels, Setting
        <5> HIDE DEF visible
        <5> QED
          BY <5>1
      <4>3. CASE ZoomMap
        <5> DEFINE far == ~view.far
        <5>1. far \in BOOLEAN /\ view' = Zoom(view, far)
          BY <4>3 DEF ZoomMap, Setting
        <5> HIDE DEF far
        <5> QED
          BY <5>1
      <4> QED
        BY <2>1, <4>1, <4>2, <4>3
    <3> QED
      BY <1>1, <3>1, SettingsAside
  <2>2. CASE toggleLayer
    <3>1. PICK l \in LayerItems : view' = SetLayerVisible(view, l, l \notin view.vis)
      BY <2>2 DEF toggleLayer, Setting
    <3>2. l \in LayerNames
      BY DEF LayerItems, LayerNames
    <3> DEFINE visible == l \notin view.vis
    <3>3. visible \in BOOLEAN /\ (visible <=> l \notin view.vis)
          /\ view' = SetLayerVisible(view, l, visible)
      BY <3>1
    <3> HIDE DEF visible
    <3> QED
      BY <1>1, <3>2, <3>3, LayerSwitched
  <2>3. CASE ChooseStyle
    BY <1>1, <2>3, StyleSwitched DEF ChooseStyle, Setting
  <2>4. CASE FirstStyle
    BY <1>1, <2>4, StyleSwitched DEF FirstStyle
  <2>5. CASE NextStyle
    <3>1. PICK index \in view.fetching :
            view' = StyleArrives(view, index) \/ view' = StyleFails(view, index)
      BY <2>5 DEF NextStyle
    <3>2. index \in Styles
      BY <1>1, <3>1 DEF Views
    <3> QED
      BY <1>1, <3>1, <3>2, StyleSwitched
  <2> QED
    BY <1>8, <2>1, <2>2, <2>3, <2>4, <2>5 DEF MapStep
<1>9. CASE PanelStep \/ UNCHANGED vars
  BY <1>3, <1>9 DEF PanelStep, SetFilter, toggleGroup, SelectUnit, toggleBlacklist, vars
<1>10. CASE FilterStep
  <2>1. TheMap = [m |-> mgr, w |-> view]
    BY DEF TheMap, On
  <2>2. \/ view' = view
        \/ \E side : view' = setSideFilter(TheMap, side).w
        \/ \E black : view' = setBlacklist(TheMap, black).w
    <3>1. CASE SelectSide
      BY <2>1, <3>1 DEF SelectSide
    <3>2. CASE ToggleAnswers
      BY <2>1, <3>2 DEF ToggleAnswers
    <3>3. CASE BlacklistArrives
      BY <2>1, <3>3 DEF BlacklistArrives
    <3> QED
      BY <1>10, <3>1, <3>2, <3>3 DEF FilterStep
  <2>3. TheMap.m = mgr
    BY <2>1
  <2>4. /\ \A side : SameButIcons(view, setSideFilter(TheMap, side).w)
        /\ \A black : SameButIcons(view, setBlacklist(TheMap, black).w)
    BY <1>1, <2>3, FiltersSet
  <2> QED
    BY <1>3, <1>4, <2>2, <2>4
<1> QED
  <2>1. CASE ~left /\ Stay /\ UNCHANGED left
    <3>1. FrameStep \/ PlayStep \/ MapStep \/ PanelStep \/ FilterStep
      BY <2>1 DEF Stay, FrameStep, PlayStep, MapStep, PanelStep, FilterStep
    <3> QED
      BY <1>6, <1>7, <1>8, <1>9, <1>10, <2>1, <3>1
  <2> QED
    BY <1>5, <1>9, <2>1 DEF Next

\* When a recording has been loaded, everything is as the renderer's constructor
\* leaves it.
LEMMA FirstTidy ==
    ASSUME SceneAssumption, Init
    PROVE  Tidy(view)
<1>1. PICK canvas, maplibre : view = Sync(NewView(canvas, maplibre), play.snaps, 0)
  BY DEF Init
<1>2. visit.canvas \in BOOLEAN /\ visit.maplibre \in BOOLEAN
      /\ view = Sync(NewView(visit.canvas, visit.maplibre), play.snaps, 0)
  BY DEF Init, SceneAssumption
<1> DEFINE w == NewView(visit.canvas, visit.maplibre)
<1>3. ViewOK(w)
  BY <1>2, NewViewOK
<1>4. ~w.ready /\ w.onMap = Groups /\ DOMAIN w.ents = {}
  BY DEF NewView
<1> HIDE DEF w
<1>5. SameLayers(w, view) /\ NamesTold(w, view, play.snaps)
  BY <1>2, <1>3, NamesSynced DEF w
<1> QED
  BY <1>4, <1>5 DEF Tidy, SameLayers, NamesTold, Groups, Toggled, GLLayers

\* The map obeys the settings after any sequence of them, and moves its layers and
\* names no other way than SwitchedAlone says.
THEOREM SettingsHold == Spec => SettingsShown
<1>1. SceneInv => SettingsObeyed
  <2> SUFFICES ASSUME SceneInv PROVE SettingsObeyed
    OBVIOUS
  <2>1. ViewOK(view)
    BY DEF SceneInv, PictureOK, MapOK, TheMap, On
  <2>2. LayersOK(view)
    BY <2>1 DEF ViewOK
  <2>3. ~view.canvas => \A id \in DOMAIN view.ents :
            view.ents[id].popup.element =>
                view.ents[id].popup.hidden = NameHidden(view, view.ents[id].body)
    BY <2>1 DEF ViewOK, EntOK
  <2>4. \A h \in DOMAIN view.icons : IconShown(view, view.icons[h])
    BY <2>1 DEF ViewOK, IconOK
  <2> QED
    BY <2>2, <2>3, <2>4 DEF SettingsObeyed, LayersOK, IconShown
<1>2. Init => Tidy(view)
  BY SceneAssumption, FirstTidy
<1>3. SceneInv /\ Tidy(view) /\ [Next]_vars => Tidy(view)'
  BY SceneAssumption, StepFollows, TidyStays
<1>4. SceneInv /\ Tidy(view) /\ [Next]_vars => SwitchedAlone
  <2> SUFFICES ASSUME SceneInv, Tidy(view), [Next]_vars PROVE SwitchedAlone
    OBVIOUS
  <2>1. Follows(view, view')
    BY SceneAssumption, StepFollows
  <2> QED
    BY <2>1 DEF Follows, LayerFollows, NamesFollow, SwitchedAlone
<1>5. SceneInv' => SettingsObeyed'
  BY <1>1, PTL
<1>6. /\ SceneInv /\ SceneInv' /\ Tidy(view) /\ [Next]_vars
      => [SettingsObeyed' /\ SwitchedAlone]_vars
  BY <1>4, <1>5
<1> QED
  BY <1>1, <1>2, <1>3, <1>6, SceneInvariant, PTL DEF Spec, SettingsShown

-----------------------------------------------------------------------------
(* What is shown of a frame                                                 *)

\* The snapshots are the ones of the frame, with its chunk if that is at hand.
SnapsOK ==
    ~left => \E at \in BOOLEAN :
                /\ play.snaps = Snapshots[visit.rec][visit.pb][play.frame][at]
                /\ play.frame \div ChunkSize \in play.here => at

LEMMA SnapsInit ==
    ASSUME Init
    PROVE  SnapsOK
<1>1. PICK here : play = [frame |-> 0, playing |-> FALSE, here |-> here, snaps |-> SnapshotsAt(0, here)]
  BY DEF Init
<1> DEFINE at == 0 \div ChunkSize \in here
<1>2. /\ at \in BOOLEAN /\ play.frame = 0 /\ play.here = here
      /\ play.snaps = Snapshots[visit.rec][visit.pb][0][at]
  BY <1>1 DEF SnapshotsAt
<1>3. 0 \div ChunkSize \in here => at
  OBVIOUS
<1> HIDE DEF at
<1> QED
  BY <1>2, <1>3 DEF SnapsOK

\* The snapshots of a frame that is gone to are those of the frame.
LEMMA SnapsMoved ==
    ASSUME play \in Plays, visit' = visit, NEW wanted, NEW playing, MoveTo(wanted, playing)
    PROVE  SnapsOK'
<1> DEFINE frame == IF wanted \in 0 .. Rec.end THEN wanted ELSE IF wanted < 0 THEN 0 ELSE Rec.end
           at == frame \div ChunkSize \in play.here
<1>1. play' = [play EXCEPT !.frame = frame, !.snaps = SnapshotsAt(frame, play.here), !.playing = playing]
  BY DEF MoveTo, ShowSnapshots
<1>2. SnapshotsAt(frame, play.here) = Snapshots[visit.rec][visit.pb][frame][at]
  BY DEF SnapshotsAt
<1>3. at \in BOOLEAN /\ (frame \div ChunkSize \in play.here => at)
  OBVIOUS
<1> HIDE DEF frame, at
<1>4. play'.frame = frame /\ play'.here = play.here /\ play'.snaps = SnapshotsAt(frame, play.here)
  BY <1>1 DEF Plays
<1> QED
  BY <1>2, <1>3, <1>4 DEF SnapsOK, Snapshots, Loaded, Manifest, Json, Chunks

\* A step that leaves frame, chunks and snapshots alone.
LEMMA SnapsStay ==
    ASSUME SnapsOK, visit' = visit, left' = left, play'.frame = play.frame,
           play'.here = play.here, play'.snaps = play.snaps
    PROVE  SnapsOK'
BY DEF SnapsOK, Snapshots, Loaded, Manifest, Json, Chunks

LEMMA SnapsStep ==
    ASSUME SceneInv, SnapsOK, [Next]_vars
    PROVE  SnapsOK'
<1>1. play \in Plays
  BY DEF SceneInv, PictureOK
<1>2. CASE Leave
  BY <1>2 DEF Leave, SnapsOK
<1>3. CASE FrameStep /\ UNCHANGED left
  <2>1. visit' = visit /\ \E wanted, playing : MoveTo(wanted, playing)
    BY <1>3 DEF FrameStep, Tick, SeekTo, ClickEvent
  <2> QED
    BY <1>1, <2>1, SnapsMoved
<1>4. CASE (TickAtEnd \/ TogglePlay) /\ UNCHANGED left
  <2>1. visit' = visit /\ \E playing : play' = [play EXCEPT !.playing = playing]
    BY <1>4 DEF TickAtEnd, TogglePlay
  <2>2. play'.frame = play.frame /\ play'.here = play.here /\ play'.snaps = play.snaps
    BY <1>1, <2>1 DEF Plays
  <2> QED
    BY <1>4, <2>1, <2>2, SnapsStay
<1>5. CASE ChunkArrives /\ UNCHANGED left
  <2>1. visit' = visit
    BY <1>5 DEF ChunkArrives
  <2>2. PICK k \in DOMAIN Chunks[visit.rec] \ play.here, out \in SUBSET play.here :
            LET here == (play.here \ out) \cup {k}
            IN  ChunkLoaded(k, here, SnapshotsAt(play.frame, here))
    BY <1>5 DEF ChunkArrives
  <2> DEFINE here == (play.here \ out) \cup {k}
             at == play.frame \div ChunkSize \in here
  <2>3. here \subseteq play.here \cup {k} /\ k \in here
    OBVIOUS
  <2>4. ChunkLoaded(k, here, SnapshotsAt(play.frame, here))
    BY <2>2
  <2>5. /\ SnapshotsAt(play.frame, here) = Snapshots[visit.rec][visit.pb][play.frame][at]
        /\ at \in BOOLEAN /\ (play.frame \div ChunkSize \in here => at)
    BY DEF SnapshotsAt
  <2> HIDE DEF here, at
  <2>6. CASE k = play.frame \div ChunkSize
    <3>1. play' = [play EXCEPT !.here = here, !.snaps = SnapshotsAt(play.frame, here)]
      BY <2>4, <2>6 DEF ChunkLoaded
    <3>2. play'.frame = play.frame /\ play'.here = here /\ play'.snaps = SnapshotsAt(play.frame, here)
      BY <1>1, <3>1 DEF Plays
    <3> QED
      BY <2>1, <2>5, <3>2 DEF SnapsOK, Snapshots, Loaded, Manifest, Json, Chunks
  <2>7. CASE k # play.frame \div ChunkSize
    <3>1. play' = [play EXCEPT !.here = here]
      BY <2>4, <2>7 DEF ChunkLoaded
    <3>2. play'.frame = play.frame /\ play'.here = here /\ play'.snaps = play.snaps
      BY <1>1, <3>1 DEF Plays
    <3>3. play.frame \div ChunkSize \in here => play.frame \div ChunkSize \in play.here
      BY <2>3, <2>7
    <3>4. left' = left
      BY <1>5
    <3> QED
      BY <2>1, <3>2, <3>3, <3>4 DEF SnapsOK, Snapshots, Loaded, Manifest, Json, Chunks
  <2> QED
    BY <2>6, <2>7
<1>6. CASE (MapStep \/ PanelStep \/ FilterStep) /\ UNCHANGED left
  <2>1. CASE MapStep
    <3>1. UNCHANGED <<visit, play>>
      BY <2>1 DEF MapStep, Render, toggleLayer, ChooseNames, ChooseMarkers, ToggleLabels,
                  ChooseStyle, ZoomMap, FirstStyle, NextStyle, Setting
    <3> QED
      BY <1>6, <3>1, SnapsStay
  <2>2. CASE PanelStep \/ FilterStep
    <3>1. UNCHANGED <<visit, play>>
      BY <2>2 DEF PanelStep, SetFilter, toggleGroup, SelectUnit, toggleBlacklist,
                  FilterStep, SelectSide, ToggleAnswers, BlacklistArrives
    <3> QED
      BY <1>6, <3>1, SnapsStay
  <2> QED
    BY <1>6, <2>1, <2>2
<1>7. CASE UNCHANGED vars
  <2>1. UNCHANGED <<visit, play, left>>
    BY <1>7 DEF vars
  <2> QED
    BY <2>1, SnapsStay
<1>8. Next => \/ Leave
              \/ /\ UNCHANGED left
                 /\ \/ FrameStep \/ MapStep \/ PanelStep \/ FilterStep
                    \/ TickAtEnd \/ TogglePlay \/ ChunkArrives
  BY DEF Next, Stay, FrameStep, MapStep, PanelStep, FilterStep
<1> QED
  BY <1>2, <1>3, <1>4, <1>5, <1>6, <1>7, <1>8

\* The snapshots on the screen are the ones of the frame, however it was reached.
THEOREM SnapshotsOfFrame == Spec => []SnapsOK
<1>1. Init => SnapsOK
  BY SnapsInit
<1>2. SceneInv /\ SnapsOK /\ [Next]_vars => SnapsOK'
  BY SnapsStep
<1> QED
  BY <1>1, <1>2, SceneInvariant, PTL DEF Spec

\* A frame's chunk is one of the recording's.
LEMMA ChunkOfFrame ==
    ASSUME NEW end \in Nat, NEW f \in 0 .. end, NEW size \in Nat \ {0}
    PROVE  f \div size \in 0 .. ((end + 1 + size - 1) \div size) - 1
<1> DEFINE x == f \div size
           y == (end + 1 + size - 1) \div size
<1>1. x \in Nat /\ x * size <= f
  OBVIOUS
<1>2. end + 1 + size - 1 = end + size
  OBVIOUS
<1>3. y \in Nat /\ end + size < (y + 1) * size
  BY <1>2
<1> HIDE DEF x, y
<1>4. (y + 1) * size = y * size + size
  BY <1>3
<1>5. x * size < y * size
  BY <1>1, <1>3, <1>4
<1>6. x < y
  BY <1>1, <1>3, <1>5
<1> QED
  BY <1>1, <1>3, <1>6 DEF x, y

\* What both read of a position is the same but for an alpha that is not written.
LEMMA PositionSeen ==
    ASSUME NEW p \in RawPositions, p.form = "frame first"
    PROVE  parseMarkerPosition(p) =
                IF p.alpha = None THEN [parseMarkerPosition(Placed(p)) EXCEPT !.alpha = 1]
                ELSE parseMarkerPosition(Placed(p))
<1> DEFINE alpha == IF p.alpha = None THEN 0 ELSE p.alpha
           seen == IF alpha = None THEN 1 ELSE alpha
           q == [p EXCEPT !.alpha = alpha]
<1>1. p \in [form: Forms, frame: Nat, at: Int, style: STRING \cup {None}, alpha: Nat \cup {None}]
  BY DEF RawPositions
<1>2. Placed(p) = q
  BY PositionRead
<1>3. parseMarkerPosition(p) = [p EXCEPT !.alpha = IF p.alpha = None THEN 1 ELSE p.alpha]
  BY DEF parseMarkerPosition
<1>4. q.alpha = alpha
  <2> HIDE DEF alpha
  <2> QED
    BY <1>1
<1>5. parseMarkerPosition(q) = [q EXCEPT !.alpha = seen]
  <2> HIDE DEF q, alpha
  <2> QED
    BY <1>4 DEF parseMarkerPosition
<1>6. \A x : [q EXCEPT !.alpha = x] = [p EXCEPT !.alpha = x]
  <2> HIDE DEF alpha
  <2> QED
    BY <1>1
<1>7. \A x : [[p EXCEPT !.alpha = x] EXCEPT !.alpha = 1] = [p EXCEPT !.alpha = 1]
  BY <1>1
<1> HIDE DEF q
<1>8. CASE p.alpha = None
  BY <1>2, <1>3, <1>5, <1>6, <1>7, <1>8
<1>9. CASE p.alpha # None
  <2>1. seen = p.alpha
    BY <1>9
  <2> QED
    BY <1>2, <1>3, <1>5, <1>6, <1>9, <2>1
<1> QED
  BY <1>8, <1>9

\* A marker is read the same by both but for such an alpha.
LEMMA MarkersAgree ==
    ASSUME NEW raw \in RawMarkers, raw.end \in {Forever} \cup (Nat \ {0}), FramesFirst(raw)
    PROVE  /\ \A def \in convertMarker(raw) :
                AsRead(def) = Opaque(raw, AsRead(convertMarkerDef(parseMarker(raw))))
           /\ ~raw.placed => convertMarkerDef(parseMarker(raw)).positions = <<>>
<1>1. /\ raw \in [shape: STRING, type: STRING, text: BOOLEAN, side: -1 .. 3, player: Int,
                  start: Nat, end: Int, placed: BOOLEAN, positions: Seq(RawPositions)]
      /\ DOMAIN raw.positions = 1 .. Len(raw.positions)
      /\ \A i \in DOMAIN raw.positions : raw.positions[i] \in RawPositions
      /\ ~raw.placed => raw.positions = <<>>
  BY RawMarker
<1> DEFINE s == sideIndexToString(raw.side)
           p == raw.positions
           q == PlacedAll(raw)
           json == MarkerOf(raw, s, raw.end, p)
           sent == MarkerOf(raw, s, raw.end, q)
           \* the positions as the marker manager has them
           pRead == [i \in DOMAIN p |-> parseMarkerPosition(p[i])]
           qRead == [i \in DOMAIN q |-> parseMarkerPosition(q[i])]
           seen(i) == IF raw.positions[i].alpha = None THEN [qRead[i] EXCEPT !.alpha = 1]
                      ELSE qRead[i]
<1>2. s = MarkerSides[raw.side]
  <2>1. raw.side \in -1 .. 3
    BY <1>1
  <2>2. \A i \in -1 .. 3 : MarkerSides[i] = <<"GLOBAL", "EAST", "WEST", "GUER", "CIV">>[i + 2]
    BY DEF MarkerSides
  <2>3. /\ MarkerSides[-1] = "GLOBAL" /\ MarkerSides[0] = "EAST" /\ MarkerSides[1] = "WEST"
        /\ MarkerSides[2] = "GUER" /\ MarkerSides[3] = "CIV"
    BY <2>2
  <2>4. /\ sideIndexToString(-1) = "GLOBAL" /\ sideIndexToString(0) = "EAST"
        /\ sideIndexToString(1) = "WEST" /\ sideIndexToString(2) = "GUER"
        /\ sideIndexToString(3) = "CIV"
    BY DEF sideIndexToString
  <2>5. raw.side = -1 \/ raw.side = 0 \/ raw.side = 1 \/ raw.side = 2 \/ raw.side = 3
    BY <2>1
  <2> QED
    BY <2>3, <2>4, <2>5
<1>3. (IF raw.end <= 0 THEN Forever ELSE raw.end) = raw.end
  BY DEF Forever
<1>4. /\ raw.placed => convertMarker(raw) = {json}
      /\ ~raw.placed => convertMarker(raw) = {}
      /\ convertMarkerDef(parseMarker(raw)) = sent
  BY <1>2, <1>3, MarkersRead
<1> HIDE DEF s
<1>5. \A x : MarkerOf(raw, s, raw.end, x).positions = x
  BY <1>1 DEF MarkerOf
<1>6. \A x, y : [MarkerOf(raw, s, raw.end, x) EXCEPT !.positions = y] = MarkerOf(raw, s, raw.end, y)
  BY <1>1 DEF MarkerOf
<1>7. AsRead(json) = MarkerOf(raw, s, raw.end, pRead)
  <2> HIDE DEF p
  <2> QED
    BY <1>5, <1>6 DEF AsRead
<1>8. AsRead(sent) = MarkerOf(raw, s, raw.end, qRead)
  <2> HIDE DEF q
  <2> QED
    BY <1>5, <1>6 DEF AsRead
<1>9. DOMAIN q = DOMAIN p /\ DOMAIN qRead = DOMAIN p
  BY <1>1 DEF PlacedAll
<1>10. Opaque(raw, AsRead(sent)) = MarkerOf(raw, s, raw.end, [i \in DOMAIN p |-> seen(i)])
  <2> DEFINE read == MarkerOf(raw, s, raw.end, qRead)
  <2>1. read.positions = qRead
    BY <1>5
  <2>2. \A y : [read EXCEPT !.positions = y] = MarkerOf(raw, s, raw.end, y)
    BY <1>6
  <2> HIDE DEF read, qRead, p
  <2> QED
    BY <1>8, <1>9, <2>1, <2>2 DEF Opaque, read
<1>11. ASSUME NEW i \in DOMAIN p PROVE pRead[i] = seen(i)
  <2>1. p[i] \in RawPositions /\ p[i].form = "frame first"
    BY <1>1 DEF FramesFirst
  <2>2. pRead[i] = parseMarkerPosition(p[i]) /\ qRead[i] = parseMarkerPosition(Placed(p[i]))
    BY <1>1, <1>9 DEF PlacedAll
  <2> HIDE DEF pRead, qRead
  <2> QED
    BY <2>1, <2>2, PositionSeen
<1>12. pRead = [i \in DOMAIN p |-> seen(i)]
  <2>1. \A i \in DOMAIN p : parseMarkerPosition(p[i]) = seen(i)
    BY <1>11
  <2> HIDE DEF seen, p
  <2> QED
    BY <2>1
<1>13. ~raw.placed => sent.positions = <<>>
  <2>1. ~raw.placed => q = <<>>
    BY <1>1 DEF PlacedAll
  <2> QED
    BY <1>5, <2>1
<1> HIDE DEF json, sent, pRead, seen, p, q
<1> QED
  BY <1>4, <1>7, <1>10, <1>12, <1>13

\* A streamed recording shows the entities of each frame that the same recording
\* loaded as JSON shows, its events but for those that are read apart, and its
\* markers but for an alpha that is not written (DecodersAgree): the chunks that
\* assembleChunk cuts and the manifest, read by the protobuf decoder, against the
\* recording itself, read by the JSON decoder, however its chunks are cut.
THEOREM DecodersShowTheSame == Spec => []DecodersAgree
<1>1. SceneInv /\ SnapsOK => DecodersAgree
  <2> SUFFICES ASSUME SceneInv, SnapsOK, visit.pb, ~left
               PROVE  /\ play.frame \div ChunkSize \in play.here =>
                            play.snaps = Snapshots[visit.rec][FALSE][play.frame][FALSE]
                      /\ EventsAlike(Recordings[visit.rec], Rec.events, Json[visit.rec].events)
                      /\ MarkersAlike(Recordings[visit.rec], Rec.markers, Json[visit.rec].markers)
    BY DEF DecodersAgree
  <2> DEFINE r == visit.rec
             raw == Recordings[r]
             f == play.frame
             n == Len(raw.markers)
  <2>1. /\ r \in DOMAIN Recordings /\ visit.pb = TRUE /\ WellFormed(raw)
        /\ raw.end \in Nat /\ raw.markers \in Seq(RawMarkers)
    BY SceneAssumption, RecordingsAssumption DEF SceneInv
  <2>2. /\ Manifest[r] = decodeManifest(raw) /\ Json[r] = decodeJson(raw)
        /\ Loaded[r][TRUE] = Manifest[r] /\ Loaded[r][FALSE] = Json[r] /\ Rec = Manifest[r]
    BY <2>1 DEF Loaded, Manifest, Json, Rec
  <2>3. f \in 0 .. raw.end
    <3>1. Rec.end = raw.end
      BY <2>2 DEF decodeManifest
    <3> QED
      BY <3>1 DEF SceneInv, PictureOK, Plays
  <2>4. ASSUME f \div ChunkSize \in play.here PROVE play.snaps = Snapshots[r][FALSE][f][FALSE]
    <3>1. play.snaps = Snapshots[r][TRUE][f][TRUE]
      BY <2>1, <2>4 DEF SnapsOK
    <3>2. f \div ChunkSize \in 0 .. ChunkCount(raw) - 1
      BY <2>1, <2>3, RecordingAssumption, ChunkOfFrame DEF ChunkCount
    <3>3. Chunks[r][f \div ChunkSize] = decodeChunk(assembleChunk(raw, f \div ChunkSize))
      BY <2>1, <3>2 DEF Chunks
    <3>4. Snapshots[r][TRUE][f][TRUE] = computeSnapshots(Manifest[r].entities, Chunks[r][f \div ChunkSize], f)
      BY <2>1, <2>2, <2>3 DEF Snapshots
    <3>5. Snapshots[r][FALSE][f][FALSE] = computeSnapshots(Json[r].entities, {}, f)
      BY <2>1, <2>2, <2>3 DEF Snapshots
    <3>6. computeSnapshots(decodeManifest(raw).entities,
                           decodeChunk(assembleChunk(raw, f \div ChunkSize)), f) =
          computeSnapshots(decodeJson(raw).entities, {}, f)
      BY <2>1, <2>3, SnapshotsAgree
    <3> QED
      BY <2>2, <3>1, <3>3, <3>4, <3>5, <3>6
  <2>5. EventsAlike(raw, Rec.events, Json[r].events)
    BY <2>1, <2>2, EventsAgree
  <2>6. MarkersAlike(raw, Rec.markers, Json[r].markers)
    <3> DEFINE m == raw.markers
               sent == Rec.markers
               json == Json[r].markers
               same(i, k) == AsRead(json[k]) = Opaque(m[i], AsRead(sent[i]))
    <3>1. /\ DOMAIN m = 1 .. n /\ \A i \in DOMAIN m : m[i] \in RawMarkers
          /\ \A i \in DOMAIN m : m[i].end \in {Forever} \cup (Nat \ {0})
      BY <2>1 DEF WellFormed
    <3>2. /\ sent = [i \in DOMAIN m |-> convertMarkerDef(parseMarker(m[i]))]
          /\ json = decodeJson(raw).markers
      BY <2>2 DEF decodeManifest
    <3>3. DOMAIN sent = DOMAIN m /\ \A i \in DOMAIN m : sent[i] = convertMarkerDef(parseMarker(m[i]))
      <4> HIDE DEF m, sent
      <4> QED
        BY <3>2
    <3>4. /\ \A k \in DOMAIN json : \E i \in DOMAIN m : json[k] \in convertMarker(m[i])
          /\ \A i \in DOMAIN m : m[i].placed =>
                \E k \in DOMAIN json : json[k] \in convertMarker(m[i])
      BY <2>1, <3>2, MarkersKept
    <3> HIDE DEF json, sent
    <3>5. ASSUME NEW i \in DOMAIN m, FramesFirst(m[i])
          PROVE  /\ \A k : json[k] \in convertMarker(m[i]) => same(i, k)
                 /\ ~m[i].placed => sent[i].positions = <<>>
      <4> HIDE DEF m
      <4> QED
        BY <3>1, <3>3, <3>5, MarkersAgree
    <3> HIDE DEF same, m
    <3>6. /\ \A i \in DOMAIN sent : FramesFirst(m[i]) =>
                IF m[i].placed THEN \E k \in DOMAIN json : same(i, k)
                ELSE sent[i].positions = <<>>
          /\ (\A i \in DOMAIN sent : FramesFirst(m[i])) =>
                \A k \in DOMAIN json : \E i \in DOMAIN sent : same(i, k)
      BY <3>3, <3>4, <3>5
    <3> QED
      BY <3>6 DEF MarkersAlike, same, m, json, sent
  <2> QED
    BY <2>4, <2>5, <2>6
<1> QED
  BY <1>1, SceneInvariant, SnapshotsOfFrame, PTL

-----------------------------------------------------------------------------
(* What the panels and the timeline count                                   *)

LEMMA RecordingRead ==
    ASSUME NEW r \in DOMAIN Recordings, NEW pb \in BOOLEAN
    PROVE  LET raw == Recordings[r]
               rec == Loaded[r][pb]
           IN  /\ WellFormed(raw) /\ raw.end \in Nat /\ rec.end = raw.end
               /\ rec = IF pb THEN decodeManifest(raw) ELSE decodeJson(raw)
               /\ People(rec.entities, Len(raw.entities))
               /\ Happened(Ids(rec.entities), rec.events)
<1> DEFINE raw == Recordings[r]
           rec == Loaded[r][pb]
<1>1. WellFormed(raw) /\ raw.end \in Nat
  BY SceneAssumption, RecordingsAssumption
<1>2. rec = IF pb THEN decodeManifest(raw) ELSE decodeJson(raw)
  BY DEF Loaded, Manifest, Json
<1> HIDE DEF raw, rec
<1>3. rec.end = raw.end
  BY <1>2 DEF decodeManifest, decodeJson
<1>4. People(rec.entities, Len(raw.entities)) /\ Happened(Ids(rec.entities), rec.events)
  BY <1>1, <1>2, JsonHappened, ManifestHappened
<1> QED
  BY <1>1, <1>2, <1>3, <1>4 DEF raw, rec

LEMMA TimelineHolds ==
    ASSUME NEW r \in DOMAIN Recordings, NEW pb \in BOOLEAN
    PROVE  TimelineAgrees[r][pb]
<1> DEFINE rec == Loaded[r][pb]
           events == rec.events
           ids == Ids(rec.entities)
<1>1. Happened(ids, events) /\ Recordings[r].end \in Nat
  BY RecordingRead
<1> HIDE DEF events, ids
<1>2. ASSUME NEW start \in 0 .. Recordings[r].end, NEW end \in 0 .. Recordings[r].end, start < end
      PROVE  TimelineOf(events, start, end)
  <2>1. start \in Nat /\ end \in Nat
    BY <1>1
  <2> DEFINE all == {n \in DOMAIN events : events[n].frame \in start .. end}
             bar(n) == BucketOf(events[n].frame, start, end - start)
             inBar(f) == {events[n] : n \in {m \in all : bar(m) = BucketOf(f, start, end - start)}}
  <2>2. InOneBar(events, start, end)
    BY <1>1, <1>2, <2>1, HeatTotal
  <2>3. ASSUME NEW f \in start .. end
        PROVE  ToldOf(hoverEvents(events, f, start, end), inBar(f), end)
    <3> DEFINE told == hoverEvents(events, f, start, end)
    <3>1. ToldOfBar(events, told, BucketOf(f, start, end - start), start, end)
      BY <1>1, <1>2, <2>1, HoverTells
    <3> HIDE DEF told, bar
    <3>2. \A k \in DOMAIN told : told[k] \in inBar(f)
      BY <3>1 DEF ToldOfBar, bar
    <3>3. told = <<>> => \A ev \in inBar(f) : ev.frame = end
      BY <3>1 DEF ToldOfBar, bar
    <3> HIDE DEF inBar
    <3> QED
      BY <3>1, <3>2, <3>3 DEF ToldOf, ToldOfBar, NoTwice, told
  <2> QED
    BY <2>2, <2>3 DEF TimelineOf, InOneBar
<1> QED
  BY <1>2 DEF TimelineAgrees, events

\* The units that are alive, of those the tab lists, of all of a side and of
\* those on the map.
LEMMA AliveAgree ==
    ASSUME SceneInv, SnapsOK, ~left, NEW s \in Sides
    PROVE  /\ aliveCount(Listed(s)) <= Cardinality({id \in SideUnits[s] : Alive(id)})
           /\ KeepsSides(Recordings[visit.rec]) =>
                Cardinality({id \in SideUnits[s] : Alive(id)}) <= forceStats(s).alive
<1> DEFINE r == visit.rec
           pb == visit.pb
           raw == Recordings[r]
           n == Len(raw.entities)
           defs == Rec.entities
           f == play.frame
           snaps == play.snaps
<1>1. r \in DOMAIN Recordings /\ pb \in BOOLEAN
  BY SceneAssumption DEF SceneInv
<1>2. /\ WellFormed(raw) /\ raw.end \in Nat /\ Rec.end = raw.end
      /\ Rec = (IF pb THEN decodeManifest(raw) ELSE decodeJson(raw))
      /\ Listing(defs, n)
  BY <1>1, RecordingRead DEF Rec, People
<1>3. f \in 0 .. raw.end
  BY <1>2 DEF SceneInv, PictureOK, Plays
<1>4. PICK at \in BOOLEAN : snaps = Snapshots[r][pb][f][at]
  BY DEF SnapsOK
<1>5. snaps = computeSnapshots(defs, IF pb /\ at THEN Chunks[r][f \div ChunkSize] ELSE {}, f)
  BY <1>1, <1>3, <1>4 DEF Snapshots, Rec
<1>6. SideUnits[s] = UnitsIn(defs, s) /\ Listed(s) = getBySide(defs, s)
  BY <1>1 DEF SideUnits, UnitsBySide, UnitsOf, UnitsIn, Listed, BySide, Rec
<1> DEFINE units == {id \in SideUnits[s] : Alive(id)}
<1>7. IsFiniteSet(units) /\ Cardinality(units) \in Nat
  <2>1. IsFiniteSet(Ids(defs))
    BY <1>2, FiniteIds
  <2>2. units \subseteq Ids(defs)
    BY <1>6 DEF UnitsIn
  <2> HIDE DEF units
  <2> QED
    BY <2>1, <2>2, FS_Subset, FS_CardinalityType
<1>8. aliveCount(Listed(s)) <= Cardinality(units)
  <2> DEFINE listed == {id \in Listed(s) : unitStatus(id) = "alive"}
  <2>1. listed \subseteq units
    <3>1. Listed(s) \subseteq SideUnits[s]
      BY <1>2, <1>6, ListedUnits
    <3>2. \A id : unitStatus(id) = "alive" => Alive(id)
      BY DEF unitStatus
    <3> QED
      BY <3>1, <3>2
  <2> HIDE DEF listed, units
  <2>2. Cardinality(listed) <= Cardinality(units)
    BY <1>7, <2>1, FS_Subset
  <2> QED
    BY <2>2 DEF aliveCount, listed
<1>9. ASSUME KeepsSides(raw) PROVE Cardinality(units) <= forceStats(s).alive
  <2> DEFINE there == {id \in DOMAIN snaps : snaps[id].side = s}
             shown == {id \in there : Alive(id)}
  <2>1. IsFiniteSet(shown)
    <3>1. DOMAIN snaps \subseteq Ids(defs)
      BY <1>2, <1>5, ShownKnown
    <3>2. IsFiniteSet(Ids(defs))
      BY <1>2, FiniteIds
    <3>3. shown \subseteq Ids(defs)
      BY <3>1
    <3> HIDE DEF shown
    <3> QED
      BY <3>2, <3>3, FS_Subset
  <2>2. \A id \in DOMAIN snaps : id \in SideUnits[s] => snaps[id].side = s
    <3> DEFINE js == decodeJson(raw).entities
    <3>1. /\ \A id : IsUnit(defs, id) <=> IsUnit(js, id)
          /\ \A id \in Ids(defs) : getEntity(defs, id).side = getEntity(js, id).side
      <4>1. CASE pb
        <5>1. Alike(defs, js, n)
          BY <1>2, <4>1, EntitiesAlike
        <5> HIDE DEF defs, js, n
        <5> QED
          BY <5>1, SamePeople
      <4>2. CASE ~pb
        BY <1>2, <4>2
      <4> QED
        BY <4>1, <4>2
    <3>2. DOMAIN snaps = {} \/ snaps = computeSnapshots(js, {}, f)
      <4>1. CASE pb /\ at
        <5>1. f \div ChunkSize \in 0 .. ChunkCount(raw) - 1
          BY <1>2, <1>3, RecordingAssumption, ChunkOfFrame DEF ChunkCount
        <5>2. Chunks[r][f \div ChunkSize] = decodeChunk(assembleChunk(raw, f \div ChunkSize))
          BY <1>1, <5>1 DEF Chunks
        <5>3. computeSnapshots(decodeManifest(raw).entities,
                               decodeChunk(assembleChunk(raw, f \div ChunkSize)), f) =
              computeSnapshots(js, {}, f)
          BY <1>2, <1>3, SnapshotsAgree
        <5>4. Rec = decodeManifest(raw)
          BY <1>2, <4>1
        <5>5. snaps = computeSnapshots(defs, Chunks[r][f \div ChunkSize], f)
          BY <1>5, <4>1
        <5> HIDE DEF snaps, js
        <5> QED
          BY <5>2, <5>3, <5>4, <5>5
      <4>2. CASE pb /\ ~at
        BY <1>2, <1>5, <4>2, NoneShown
      <4>3. CASE ~pb
        BY <1>2, <1>5, <4>3
      <4> QED
        BY <4>1, <4>2, <4>3
    <3>3. OwnSides(js, computeSnapshots(js, {}, f))
      BY <1>2, <1>9, SidesKept
    <3> HIDE DEF js, defs, snaps
    <3>4. \A id \in DOMAIN snaps : IsUnit(js, id) => snaps[id].side = getEntity(js, id).side
      BY <3>2, <3>3 DEF OwnSides
    <3> QED
      BY <1>6, <3>1, <3>4 DEF UnitsIn
  <2>3. units \subseteq shown
    BY <2>2 DEF Alive
  <2> HIDE DEF units, shown
  <2>4. Cardinality(units) <= Cardinality(shown)
    BY <2>1, <2>3, FS_Subset
  <2> QED
    BY <2>4 DEF forceStats, shown
<1> QED
  BY <1>8, <1>9

\* The two counts of kills and what the panels make of them.
LEMMA PanelsAgree ==
    ASSUME SceneInv, SnapsOK, ~left
    PROVE  TabsAgreeOn(Rec, getActiveEvents(Rec.events, play.frame),
                       ScoreAt[visit.rec][visit.pb][play.frame], Counts)
<1> DEFINE r == visit.rec
           pb == visit.pb
           n == Len(Recordings[r].entities)
           defs == Rec.entities
           events == Rec.events
           ids == Ids(defs)
           f == play.frame
           so == getActiveEvents(events, f)
           S == ToSet(events)
           counts == getKillDeathCounts(defs, events, f)
           score == resolveReferences(defs, so).score
           stats == [s \in Sides |-> sideStats(SideUnits[s], counts)]
           killed == {i \in DOMAIN so : so[i].type = "killed"}
           counted == {i \in killed : /\ IsUnit(defs, so[i].victim)
                                      /\ IsUnit(defs, so[i].causer)
                                      /\ so[i].victim # so[i].causer}
<1>1. r \in DOMAIN Recordings /\ pb \in BOOLEAN
  BY SceneAssumption DEF SceneInv
<1>2. /\ Recordings[r].end \in Nat /\ Rec.end = Recordings[r].end
      /\ People(defs, n) /\ Listing(defs, n) /\ Happened(ids, events)
  BY <1>1, RecordingRead DEF Rec, People
<1>3. f \in 0 .. Recordings[r].end
  BY <1>2 DEF SceneInv, PictureOK, Plays
<1>4. Counts = counts /\ ScoreAt[r][pb][f] = score
  BY <1>1, <1>3 DEF Counts, CountsAt, ScoreAt, Rec
<1>5. \A s \in Sides : SideUnits[s] = UnitsIn(defs, s)
  BY <1>1 DEF SideUnits, UnitsBySide, UnitsOf, UnitsIn, Rec
<1> HIDE DEF r, pb, n, defs, events, ids, f
<1>6. /\ Happened(ids, so) /\ Len(so) \in Nat /\ DOMAIN so = 1 .. Len(so)
      /\ \A i \in 1 .. Len(so) : so[i] \in S
  BY <1>2, ActiveCount
<1>7. ToSet(so) \subseteq S
  BY <1>6 DEF ToSet
<1>8. \A id \in ids : /\ counts[id].kills = HowMany(so, KillsBy(defs, S, id))
                      /\ counts[id].team = HowMany(so, TeamBy(defs, S, id))
                      /\ counts[id].deaths = HowMany(so, DeathsOf(defs, S, id))
                      /\ counts[id].vehicles \in Nat
  BY <1>2, PanelCounts DEF ids
<1>9. \A i \in killed : i \in 1 .. Len(so) /\ so[i].victim \in ids
  BY <1>6 DEF Happened, ToSet
<1>10. Cardinality(killed) = Cardinality(KillTicks(events, 0, f))
  <2> DEFINE K == {ev \in S : ev.type = "killed"}
  <2>1. HowMany(so, K) = Cardinality(Early(events, f, K))
    BY <1>2, ActiveCount
  <2>2. killed = {i \in 1 .. Len(so) : so[i] \in K}
    <3> HIDE DEF so
    <3> QED
      BY <1>6
  <2>3. KillTicks(events, 0, f) = Early(events, f, K)
    <3>1. /\ DOMAIN events = 1 .. Len(events)
          /\ \A i \in 1 .. Len(events) : events[i] \in S /\ events[i].frame \in Nat
      BY <1>2, Ranged
    <3>2. f \in Int
      BY <1>3
    <3> HIDE DEF S
    <3> QED
      BY <3>1, <3>2 DEF KillTicks, Early
  <2> HIDE DEF killed, K, so
  <2> QED
    BY <2>1, <2>2, <2>3 DEF HowMany
<1> HIDE DEF so, S, counts, score
<1>11. ASSUME NEW s \in Sides, NEW id \in SideUnits[s]
       PROVE  score[id] = counts[id].kills - 2 * counts[id].team
  <2>1. id \in ids /\ IsUnit(defs, id)
    BY <1>5 DEF UnitsIn, ids
  <2>2. score[id] = HowMany(so, KillsBy(defs, S, id)) - 2 * HowMany(so, TeamBy(defs, S, id))
    BY <1>6, <1>7, <2>1, ScoreCounts DEF ids, score
  <2> QED
    BY <1>8, <2>1, <2>2
<1>12. Total(Sides, [s \in Sides |-> stats[s].kills]) = Cardinality(counted)
  <2> DEFINE sums == [s \in Sides |-> stats[s].kills]
             c == [id \in ids |-> counts[id].kills]
  <2>1. ASSUME NEW s \in Sides
        PROVE  sums[s] = Total(UnitsIn(defs, s), [id \in UnitsIn(defs, s) |-> c[id]])
    <3>1. \A id \in UnitsIn(defs, s) : id \in ids
      BY DEF UnitsIn, ids
    <3>2. [id \in UnitsIn(defs, s) |-> c[id]] = [id \in UnitsIn(defs, s) |-> counts[id]["kills"]]
      BY <3>1
    <3>3. sums[s] = Total(SideUnits[s], [id \in SideUnits[s] |-> counts[id]["kills"]])
      BY DEF sideStats
    <3> HIDE DEF sums, c
    <3> QED
      BY <1>5, <3>2, <3>3
  <2>2. \A id \in Ids(defs) : c[id] = HowMany(so, KillsBy(defs, S, id))
    BY <1>8 DEF ids
  <2>3. \A id \in Ids(defs) : getEntity(defs, id).side \in Sides
    <3> SUFFICES ASSUME NEW id \in Ids(defs) PROVE getEntity(defs, id).side \in Sides
      OBVIOUS
    <3>1. PICK i \in 1 .. n : id = defs[i].id /\ getEntity(defs, id) = defs[i]
      BY <1>2, EntityFound
    <3> QED
      BY <1>2, <3>1 DEF People, Sides
  <2>4. counted = UnitKills(defs, so)
    BY <1>6 DEF UnitKills
  <2> HIDE DEF sums, c, counted, killed
  <2>5. Summed(defs, so, S, Sides, c, sums)
    BY <1>6, <2>1, <2>2, <2>3 DEF Summed
  <2>6. Total(Sides, sums) = Cardinality(UnitKills(defs, so))
    BY <1>6, <2>5, KillsOfSides
  <2> QED
    BY <2>4, <2>6 DEF sums
<1>13. {so[i].victim : i \in killed} \cap PlayersOf(defs) \subseteq leaderboard(defs, counts)
  <2> SUFFICES ASSUME NEW i \in killed, so[i].victim \in PlayersOf(defs)
               PROVE  so[i].victim \in leaderboard(defs, counts)
    OBVIOUS
  <2> DEFINE p == so[i].victim
             c == counts[p]
  <2>1. i \in 1 .. Len(so) /\ so[i].type = "killed" /\ p \in ids /\ getEntity(defs, p).player
    BY <1>9 DEF PlayersOf
  <2>2. IsUnit(defs, p)
    <3>1. PICK j \in 1 .. n : p = defs[j].id /\ getEntity(defs, p) = defs[j]
      BY <1>2, <2>1, EntityFound DEF ids
    <3> QED
      BY <1>2, <2>1, <3>1 DEF People, IsUnit, ids
  <2>3. c.deaths \in Nat /\ c.deaths > 0
    <3>1. /\ HowMany(so, DeathsOf(defs, S, so[i].victim)) \in Nat
          /\ HowMany(so, DeathsOf(defs, S, so[i].victim)) > 0
      BY <1>6, <2>1, <2>2, DeathCounted
    <3> QED
      BY <1>8, <2>1, <3>1
  <2>4. c.kills \in Nat /\ c.vehicles \in Nat
    <3>1. HowMany(so, KillsBy(defs, S, p)) \in Nat
      BY <1>6, TeamIsKills
    <3> QED
      BY <1>8, <2>1, <3>1
  <2> HIDE DEF c, killed
  <2>5. c.kills + c.deaths + c.vehicles > 0
    BY <2>3, <2>4
  <2> HIDE DEF p
  <2>6. p \in leaderboard(defs, counts)
    BY <2>2, <2>5 DEF leaderboard, c, p
  <2> QED
    BY <2>6 DEF p
<1>14. ASSUME NEW s \in Sides
       PROVE  /\ aliveCount(Listed(s)) <= stats[s].alive
              /\ KeepsSides(Recordings[r]) => stats[s].alive <= forceStats(s).alive
              /\ stats[s].team <= stats[s].kills
  <2> DEFINE U == SideUnits[s]
             t == [id \in U |-> counts[id]["team"]]
             k == [id \in U |-> counts[id]["kills"]]
  <2>1. /\ stats[s].alive = Cardinality({id \in SideUnits[s] : Alive(id)})
        /\ stats[s].team = Total(U, t) /\ stats[s].kills = Total(U, k)
    BY DEF sideStats
  <2>2. /\ aliveCount(Listed(s)) <= Cardinality({id \in SideUnits[s] : Alive(id)})
        /\ KeepsSides(Recordings[r]) =>
                Cardinality({id \in SideUnits[s] : Alive(id)}) <= forceStats(s).alive
    BY AliveAgree DEF r
  <2>3. IsFiniteSet(U) /\ \A id \in U : id \in ids
    <3>1. IsFiniteSet(Ids(defs))
      BY <1>2, FiniteIds
    <3>2. U \subseteq Ids(defs)
      BY <1>5 DEF UnitsIn
    <3> HIDE DEF U
    <3> QED
      BY <3>1, <3>2, FS_Subset DEF ids
  <2>4. \A id \in U : t[id] \in Nat /\ k[id] \in Nat /\ t[id] <= k[id]
    <3> SUFFICES ASSUME NEW id \in U PROVE t[id] \in Nat /\ k[id] \in Nat /\ t[id] <= k[id]
      OBVIOUS
    <3>1. t[id] = HowMany(so, TeamBy(defs, S, id)) /\ k[id] = HowMany(so, KillsBy(defs, S, id))
      BY <1>8, <2>3
    <3> HIDE DEF t, k, U
    <3> QED
      BY <1>6, <3>1, TeamIsKills
  <2> HIDE DEF U, t, k, stats
  <2>5. Total(U, t) <= Total(U, k)
    BY <2>3, <2>4, TotalOrder
  <2> QED
    BY <2>1, <2>2, <2>5
<1> HIDE DEF killed, counted, stats
<1>15. TabsAgreeOn(Rec, so, score, counts)
  BY <1>10, <1>11, <1>12, <1>13, <1>14
     DEF TabsAgreeOn, killed, counted, stats, defs, events, f, r
<1> QED
  BY <1>4, <1>15 DEF so, r, pb, f, events

\* Kills are counted alike wherever they are counted: by the score in the list of
\* events, by frame in the statistics, on the timeline and in the leaderboard;
\* for every recording the extension writes, read from either format.
THEOREM PanelsCountAlike == Spec => []TabsAgree
<1>1. SceneInv /\ SnapsOK => TabsAgree
  <2> SUFFICES ASSUME SceneInv, SnapsOK, ~left
               PROVE  /\ TimelineAgrees[visit.rec][visit.pb]
                      /\ TabsAgreeOn(Rec, getActiveEvents(Rec.events, play.frame),
                                     ScoreAt[visit.rec][visit.pb][play.frame], Counts)
    BY DEF TabsAgree
  <2>1. visit.rec \in DOMAIN Recordings /\ visit.pb \in BOOLEAN
    BY SceneAssumption DEF SceneInv
  <2> QED
    BY <2>1, TimelineHolds, PanelsAgree
<1> QED
  BY <1>1, SceneInvariant, SnapshotsOfFrame, PTL

=============================================================================
