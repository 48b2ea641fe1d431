---------------------------- MODULE SelectorPage ----------------------------
(***************************************************************************)
(* The root page (ui/src/pages/recording-selector): the list of recordings *)
(* with its filters and keyboard, the sidebar of the selected one, and an  *)
(* administrator's dialogs to edit, delete, retry and upload.              *)
(***************************************************************************)
EXTENDS Session

OnSelector == tab.page.at = Root

IsAdmin(t) == t.auth.role = "admin"

\* recordings(), and what the filters let through (hidden holds what a search,
\* a tag or a map leaves out). An id stands for its date, which sorts the list.
Listed(p) == DOMAIN p.recs

Filtered(p) == Listed(p) \ p.hidden

\* selectedRec, by its id: nothing where the list does not have it any more.
SelectedRec(p) == IF p.selected \in Listed(p) THEN p.selected ELSE None

\* isRecordingReady.
Ready(p, id) == p.recs[id] = "ready"

Dialog(p) == p.editing # None \/ p.deleting # None \/ p.upload

-----------------------------------------------------------------------------
(* Answers                                                                  *)

\* The list: the effect's then and catch, with its finally; or refreshRecordings
\* behind a write, where a failure leaves what is shown, and handleUpload's
\* finally ends the upload.
ListArrives(t, r) ==
    IF ~r.live THEN t
    ELSE LET p == t.page IN
         [t EXCEPT !.page =
             [p EXCEPT !.recs = IF Ok(r) THEN r.ans.data
                                ELSE IF r.then = "show" THEN NoRecs ELSE @,
                       !.loading = IF r.then = "show" THEN FALSE ELSE @,
                       !.uploading = IF r.then = "uploaded" THEN FALSE ELSE @]]

\* The second effect: the map tool answers administrators, where it is enabled.
ToolsArrive(t, r) == IF r.live THEN [t EXCEPT !.page.tools = Ok(r)] ELSE t

\* A write is answered: the dialog closes, whichever is open by now, and the
\* list is fetched again, even when the page was left.
Refresh(t, r, then) == SendFor(t, r.live, "list", None, then)

\* handleEditSave.
EditArrives(t, r) ==
    IF ~Ok(r) THEN t
    ELSE Refresh(IF r.live THEN [t EXCEPT !.page.editing = None] ELSE t, r, "refresh")

\* handleDeleteConfirm.
DeleteArrives(t, r) ==
    IF ~Ok(r) THEN t
    ELSE Refresh(IF r.live THEN [t EXCEPT !.page.deleting = None, !.page.selected = None]
                 ELSE t, r, "refresh")

\* handleRetry.
RetryArrives(t, r) == IF Ok(r) THEN Refresh(t, r, "refresh") ELSE t

\* Mutant: the finally is a plain last line.
MutUploadArrives(t, r) ==
    IF ~Ok(r) THEN t
    ELSE Refresh(IF r.live THEN [t EXCEPT !.page.upload = FALSE] ELSE t, r, "uploaded")

\* handleUpload, whose finally also ends the upload that failed.
UploadArrives(t, r) ==
    IF ~Ok(r) THEN IF r.live THEN [t EXCEPT !.page.uploading = FALSE] ELSE t
    ELSE Refresh(IF r.live THEN [t EXCEPT !.page.upload = FALSE] ELSE t, r, "uploaded")

SelectorAnswer(t, r) ==
    CASE r.op = "list" -> ListArrives(t, r)
      [] r.op = "tools" -> ToolsArrive(t, r)
      [] r.op = "edit" -> EditArrives(t, r)
      [] r.op = "delete" -> DeleteArrives(t, r)
      [] r.op = "retry" -> RetryArrives(t, r)
      [] OTHER -> UploadArrives(t, r)

-----------------------------------------------------------------------------
(* The list                                                                 *)

\* A row of the list is clicked; a dialog covers the list.
Select(id) ==
    /\ OnSelector /\ ~Dialog(tab.page) /\ id \in Filtered(tab.page)
    /\ Click([tab EXCEPT !.page.selected = id])

\* A filter, of any of the three kinds, changes; the header's sort turns.
FilterList(hidden) ==
    /\ OnSelector /\ ~Dialog(tab.page) /\ tab.page.hidden # hidden
    /\ Click([tab EXCEPT !.page.hidden = hidden])

HandleSort ==
    /\ OnSelector /\ ~Dialog(tab.page)
    /\ Click([tab EXCEPT !.page.desc = ~@])

\* handleLaunch, from a row, the sidebar or the Enter key: a recording that is
\* ready is opened.
HandleLaunch ==
    LET rec == SelectedRec(tab.page) IN
    /\ OnSelector /\ rec # None /\ Ready(tab.page, rec)
    /\ Click(Navigate(tab, "/recording"))

\* handleKeydown: an arrow moves on along what the filters show, from its end
\* where the selection is not among it; beyond the other end it stays.
Behind(p, down, a, b) == IF p.desc = down THEN a > b ELSE a < b

Ahead(p, down) ==
    {id \in Filtered(p) : p.selected \in Filtered(p) => Behind(p, down, p.selected, id)}

ArrowKey(down) ==
    /\ OnSelector
    /\ \E id \in Ahead(tab.page, down) :
          /\ \A k \in Ahead(tab.page, down) \ {id} : Behind(tab.page, down, id, k)
          /\ Click([tab EXCEPT !.page.selected = id])

\* Escape: the selection and two of the dialogs; the upload stays.
EscapeKey ==
    /\ OnSelector
    /\ tab.page.selected # None \/ tab.page.editing # None \/ tab.page.deleting # None
    /\ Click([tab EXCEPT !.page.selected = None, !.page.editing = None, !.page.deleting = None])

-----------------------------------------------------------------------------
(* What administrators see                                                  *)

\* DetailSidebar's buttons for the selected recording.
OpenEdit ==
    /\ OnSelector /\ IsAdmin(tab) /\ ~Dialog(tab.page)
    /\ SelectedRec(tab.page) # None
    /\ Click([tab EXCEPT !.page.editing = SelectedRec(tab.page)])

OpenDelete ==
    /\ OnSelector /\ IsAdmin(tab) /\ ~Dialog(tab.page)
    /\ SelectedRec(tab.page) # None
    /\ Click([tab EXCEPT !.page.deleting = SelectedRec(tab.page)])

Retry ==
    /\ OnSelector /\ IsAdmin(tab) /\ ~Dialog(tab.page)
    /\ SelectedRec(tab.page) # None
    /\ tab.page.recs[SelectedRec(tab.page)] = "failed"
    /\ Click(Send(tab, "retry", SelectedRec(tab.page), None))

\* EditModal's submit and DeleteConfirm's button. The dialog stays until the
\* answer, and can be submitted again.
SubmitEdit ==
    /\ OnSelector /\ tab.page.editing # None
    /\ Click(Send(tab, "edit", tab.page.editing, None))

SubmitDelete ==
    /\ OnSelector /\ tab.page.deleting # None
    /\ Click(Send(tab, "delete", tab.page.deleting, None))

\* The header's upload button.
ToggleUpload ==
    /\ OnSelector /\ IsAdmin(tab)
    /\ tab.page.editing = None /\ tab.page.deleting = None
    /\ Click([tab EXCEPT !.page.upload = ~@])

\* Mutant: the button does not look at uploading.
MutSubmitUpload ==
    /\ OnSelector /\ IsAdmin(tab) /\ tab.page.upload
    /\ Click(Send([tab EXCEPT !.page.uploading = TRUE], "upload", None, None))

\* UploadDialog's submit, canSubmit: closed while an upload is under way.
SubmitUpload ==
    /\ OnSelector /\ IsAdmin(tab) /\ tab.page.upload
    /\ ~tab.page.uploading
    /\ Click(Send([tab EXCEPT !.page.uploading = TRUE], "upload", None, None))

\* A dialog's own close button.
CloseDialog ==
    /\ OnSelector
    /\ tab.page.editing # None \/ tab.page.deleting # None
    /\ Click([tab EXCEPT !.page.editing = None, !.page.deleting = None])

\* The header's links to the two pages of administrators.
OpenAdmin ==
    /\ OnSelector /\ IsAdmin(tab)
    /\ Click(Navigate(tab, "/admin"))

OpenMapManager ==
    /\ OnSelector /\ IsAdmin(tab) /\ tab.page.tools
    /\ Click(Navigate(tab, "/map-manager"))

SelectorClick ==
    \/ \E id \in RecIds : Select(id)
    \/ \E hidden \in SUBSET (Unmatched \cap RecIds) : FilterList(hidden)
    \/ \E down \in BOOLEAN : ArrowKey(down)
    \/ HandleSort \/ HandleLaunch \/ EscapeKey
    \/ OpenEdit \/ OpenDelete \/ Retry \/ SubmitEdit \/ SubmitDelete
    \/ ToggleUpload \/ SubmitUpload \/ CloseDialog
    \/ OpenAdmin \/ OpenMapManager
=============================================================================
