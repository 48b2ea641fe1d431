--------------------------- MODULE MapManagerPage ---------------------------
(***************************************************************************)
(* The map manager (ui/src/pages/map-manager): the maps with their status, *)
(* the import of an archive, deleting a map, styling all of them again.    *)
(* The events its jobs send are module JobEvents; here an import that ends *)
(* is an event the page has received.                                      *)
(***************************************************************************)
EXTENDS Session

OnMaps == tab.page.at = "/map-manager"

\* selectedMap: nothing where the list does not have it any more.
SelectedMap(p) == IF p.selected \in p.maps THEN p.selected ELSE None

\* What covers the page. A delete dialog without a map is not seen, and is back
\* with the next map that is selected.
MapDialog(p) == p.import \/ (p.delete /\ SelectedMap(p) # None)

-----------------------------------------------------------------------------
(* Answers                                                                  *)

\* onMount: without its data the page goes back to the root, and takes along
\* whoever has left it since.
MapLoadArrives(t, r) ==
    IF ~Ok(r) THEN Navigate(t, Root)
    ELSE IF r.live THEN [t EXCEPT !.page.maps = r.ans.data, !.page.loading = FALSE]
    ELSE t

\* The list is fetched again, for the event or behind a deletion.
MapsArrive(t, r) == IF Ok(r) /\ r.live THEN [t EXCEPT !.page.maps = r.ans.data] ELSE t

\* handleImport: well or not, the upload is over; only a good one closes the
\* dialog.
ImportArrives(t, r) ==
    IF ~r.live THEN t
    ELSE LET p == t.page IN
         [t EXCEPT !.page = [p EXCEPT !.uploading = FALSE,
                                      !.import = IF Ok(r) THEN FALSE ELSE @,
                                      !.zip = IF Ok(r) THEN FALSE ELSE @,
                                      !.error = ~Ok(r)]]

\* handleDelete: the selection, whatever it is by now, and the dialog go.
MapDeleteArrives(t, r) ==
    IF ~Ok(r) THEN t
    ELSE SendFor(IF r.live THEN [t EXCEPT !.page.selected = None, !.page.delete = FALSE]
                 ELSE t, r.live, "maps", None, None)

MapsAnswer(t, r) ==
    CASE r.op = "mapload" -> MapLoadArrives(t, r)
      [] r.op = "maps" -> MapsArrive(t, r)
      [] r.op = "import" -> ImportArrives(t, r)
      [] r.op = "mapdelete" -> MapDeleteArrives(t, r)
      [] OTHER -> t

-----------------------------------------------------------------------------
(* Events and clicks                                                        *)

\* A job ends, well or not; the page in front of its event fetches the maps.
JobEnds(m) ==
    /\ m \in server.jobs
    /\ \E maps \in {server.maps, server.maps \cup {m}} :
        server' = [server EXCEPT !.jobs = @ \ {m}, !.maps = maps]
    /\ tab' = IF OnMaps THEN Get(tab, "maps") ELSE tab
    /\ UNCHANGED budget

\* MapCard and MapRow: a second click takes the selection back.
SelectMap(m) ==
    /\ OnMaps /\ ~tab.page.loading /\ ~MapDialog(tab.page)
    /\ m \in tab.page.maps \ tab.page.hidden
    /\ Click([tab EXCEPT !.page.selected = IF @ = m THEN None ELSE m])

\* The search box and the status filter.
FilterMaps(hidden) ==
    /\ OnMaps /\ ~tab.page.loading /\ ~MapDialog(tab.page)
    /\ hidden # tab.page.hidden
    /\ Click([tab EXCEPT !.page.hidden = hidden])

\* The header's buttons, and the empty list's, whoever is signed in.
OpenImport ==
    /\ OnMaps /\ ~MapDialog(tab.page)
    /\ \/ tab.auth.authenticated
       \/ ~tab.page.loading /\ tab.page.maps \subseteq tab.page.hidden
    /\ Click([tab EXCEPT !.page.import = TRUE])

Restyle ==
    /\ OnMaps /\ ~MapDialog(tab.page) /\ tab.auth.authenticated
    /\ Click(Get(tab, "restyle"))

\* ImportDialog: a file whose name ends in .zip is taken, another is not.
ChooseFile ==
    /\ OnMaps /\ tab.page.import
    /\ Click([tab EXCEPT !.page.zip = TRUE])

\* Its import button, which the progress bar replaces during an upload.
SubmitImport ==
    /\ OnMaps /\ tab.page.import /\ tab.page.zip
    /\ ~tab.page.uploading
    /\ Click(Get([tab EXCEPT !.page.uploading = TRUE, !.page.error = FALSE], "import"))

\* The dialog is closed, also while it uploads.
CloseImport ==
    /\ OnMaps /\ tab.page.import
    /\ Click([tab EXCEPT !.page.import = FALSE, !.page.zip = FALSE, !.page.error = FALSE])

\* MapDetail's delete button, and DeleteConfirm.
AskDelete ==
    /\ OnMaps /\ ~MapDialog(tab.page) /\ SelectedMap(tab.page) # None
    /\ Click([tab EXCEPT !.page.delete = TRUE])

ConfirmDelete ==
    /\ OnMaps /\ tab.page.delete /\ SelectedMap(tab.page) # None
    /\ Click(Send(tab, "mapdelete", tab.page.selected, None))

CancelDelete ==
    /\ OnMaps /\ tab.page.delete /\ SelectedMap(tab.page) # None
    /\ Click([tab EXCEPT !.page.delete = FALSE])

MapsClick ==
    \/ \E m \in MapIds : SelectMap(m)
    \/ \E hidden \in SUBSET (Unmatched \cap MapIds) : FilterMaps(hidden)
    \/ OpenImport \/ Restyle \/ ChooseFile \/ SubmitImport \/ CloseImport
    \/ AskDelete \/ ConfirmDelete \/ CancelDelete
=============================================================================
