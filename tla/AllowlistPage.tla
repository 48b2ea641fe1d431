--------------------------- MODULE AllowlistPage ----------------------------
(***************************************************************************)
(* The administrators' page for the allowlist (ui/src/pages/admin): adding *)
(* one account or a pasted list, removing one or all that are selected.    *)
(* Several accounts are sent one request after the other, each behind the  *)
(* answer of the one before; some may fail.                                *)
(***************************************************************************)
EXTENDS Session, SequencesExt

OnAdmin == tab.page.at = "/admin"

\* The panel is there once the list was fetched, well or not; a dialog covers it.
OnPanel == OnAdmin /\ tab.page.ready /\ tab.page.single = None /\ ~tab.page.bulk

\* adminIds and mismatch: what the page knows of the configuration, once it
\* has arrived.
AdminIds(p) == IF p.config THEN Admins ELSE {}

Mismatch(p) == p.config /\ server.mode # "steamAllowlist"

\* filtered, selectableFiltered, allFilteredSelected: the search leaves out the
\* accounts it does not match (hidden).
Selectable(p) == (p.list \ p.hidden) \ AdminIds(p)

AllSelected(p) == Selectable(p) # {} /\ Selectable(p) \subseteq p.selected

\* A continuation's writes reach the page only while it is mounted.
OnPage(t, r, p) == IF r.live THEN [t EXCEPT !.page = p] ELSE t

-----------------------------------------------------------------------------
(* Answers                                                                  *)

\* The config resource: a failure leaves it undefined.
AdminConfigArrives(t, r) == OnPage(t, r, [t.page EXCEPT !.config = Ok(r)])

\* allowlistResource; a failure resolves it to the empty list.
AllowlistArrives(t, r) ==
    LET ids == IF Ok(r) THEN r.ans.data ELSE {}
    IN  OnPage(t, r, [t.page EXCEPT !.list = ids, !.had = ids, !.ready = TRUE])

\* handleAdd behind addToAllowlist.
AddArrives(t, r) ==
    IF Ok(r) /\ r.live THEN [t EXCEPT !.page.list = @ \cup {r.arg}] ELSE t

\* Mutant: the account stays selected.
MutRemoveArrives(t, r) ==
    IF Ok(r) /\ r.live THEN [t EXCEPT !.page.list = @ \ {r.arg}] ELSE t

\* performRemove behind removeFromAllowlist.
RemoveArrives(t, r) ==
    IF Ok(r) /\ r.live
    THEN [t EXCEPT !.page.list = @ \ {r.arg}, !.page.selected = @ \ {r.arg}]
    ELSE t

\* The loop of handleBulkAdd: ids are still to be sent, done were accepted. The
\* list grows when the last is answered.
AddFrom(t, live, ids, done) ==
    IF ids = <<>>
    THEN IF live THEN [t EXCEPT !.page.list = @ \cup done] ELSE t
    ELSE SendFor(t, live, "add", Head(ids), [ids |-> Tail(ids), done |-> done])

\* Mutant: what failed is taken off the list with the rest.
MutRemoveFrom(t, live, ids, done) ==
    IF ids = <<>>
    THEN IF ~live THEN t
         ELSE [t EXCEPT !.page.list = @ \ t.page.selected, !.page.selected = {}]
    ELSE SendFor(t, live, "remove", Head(ids), [ids |-> Tail(ids), done |-> done])

\* The loop of confirmRemoveBulk: only what was removed leaves the list and the
\* selection.
RemoveFrom(t, live, ids, done) ==
    IF ids = <<>>
    THEN IF ~live THEN t
         ELSE [t EXCEPT !.page.list = @ \ done, !.page.selected = @ \ done]
    ELSE SendFor(t, live, "remove", Head(ids), [ids |-> Tail(ids), done |-> done])

\* An answer inside one of the two loops.
Done(r) == IF Ok(r) THEN r.then.done \cup {r.arg} ELSE r.then.done

AdminAnswer(t, r) ==
    CASE r.op = "adminconfig" -> AdminConfigArrives(t, r)
      [] r.op = "allowlist" -> AllowlistArrives(t, r)
      [] r.op = "add" /\ r.then = None -> AddArrives(t, r)
      [] r.op = "add" /\ r.then # None -> AddFrom(t, r.live, r.then.ids, Done(r))
      [] r.op = "remove" /\ r.then = None -> RemoveArrives(t, r)
      [] OTHER -> RemoveFrom(t, r.live, r.then.ids, Done(r))

-----------------------------------------------------------------------------
(* Clicks                                                                   *)

\* AddBar's input, closed on a mismatch, and handleAdd: an account that is
\* listed is not sent.
Add(id) ==
    /\ OnPanel /\ ~Mismatch(tab.page)
    /\ id \notin tab.page.list
    /\ Click(Send(tab, "add", id, None))

\* The bulk area opens with a button that a mismatch closes; its own submit
\* button stays open.
OpenBulk ==
    /\ OnPanel /\ ~Mismatch(tab.page)
    /\ Click([tab EXCEPT !.page.pasting = ~@])

\* The lines handleBulkAdd sends: valid, not listed, each once, in order.
WithLine(ids, line, listed) ==
    IF line \in listed \cup {Bad} \cup ToSet(ids) THEN ids ELSE Append(ids, line)

Candidates(lines, listed) ==
    LET kept[i \in 0 .. Len(lines)] ==
            IF i = 0 THEN <<>> ELSE WithLine(kept[i - 1], lines[i], listed)
    IN  kept[Len(lines)]

BulkAdd(lines) ==
    /\ OnPanel /\ tab.page.pasting
    /\ Click(AddFrom([tab EXCEPT !.page.pasting = FALSE], TRUE,
                     Candidates(lines, tab.page.list), {}))

\* A row's remove button; an administrator's is closed.
AskRemove(id) ==
    /\ OnPanel /\ ~Mismatch(tab.page)
    /\ id \in (tab.page.list \ tab.page.hidden) \ AdminIds(tab.page)
    /\ Click([tab EXCEPT !.page.single = id])

\* confirmRemoveSingle.
ConfirmRemove ==
    /\ OnAdmin /\ tab.page.single # None
    /\ Click(Send([tab EXCEPT !.page.single = None], "remove", tab.page.single, None))

\* toggleOne.
ToggleOne(id) ==
    /\ OnPanel /\ ~Mismatch(tab.page)
    /\ id \in (tab.page.list \ tab.page.hidden) \ AdminIds(tab.page)
    /\ Click([tab EXCEPT !.page.selected =
                 IF id \in @ THEN @ \ {id} ELSE @ \cup {id}])

\* toggleAllFiltered.
ToggleAll ==
    /\ OnPanel /\ ~Mismatch(tab.page) /\ tab.page.list # {}
    /\ Click([tab EXCEPT !.page.selected =
                 IF AllSelected(tab.page) THEN @ \ Selectable(tab.page)
                 ELSE @ \cup Selectable(tab.page)])

\* The toolbar's button for the selection.
AskRemoveAll ==
    /\ OnPanel /\ tab.page.list # {} /\ tab.page.selected # {}
    /\ Click([tab EXCEPT !.page.bulk = TRUE])

\* confirmRemoveBulk: configured administrators are left out, if the
\* configuration is there.
ConfirmRemoveAll ==
    /\ OnAdmin /\ tab.page.bulk
    /\ Click(RemoveFrom([tab EXCEPT !.page.bulk = FALSE], TRUE,
                        SetToSeq(tab.page.selected \ AdminIds(tab.page)), {}))

\* Either dialog is cancelled.
CancelRemove ==
    /\ OnAdmin
    /\ tab.page.single # None \/ tab.page.bulk
    /\ Click([tab EXCEPT !.page.single = None, !.page.bulk = FALSE])

\* The search box.
SearchAllowlist(hidden) ==
    /\ OnPanel /\ tab.page.list # {}
    /\ hidden # tab.page.hidden
    /\ Click([tab EXCEPT !.page.hidden = hidden])

AdminClick ==
    \/ \E id \in SteamIds : Add(id) \/ AskRemove(id) \/ ToggleOne(id)
    \/ \E lines \in Texts : BulkAdd(lines)
    \/ \E hidden \in SUBSET (Unmatched \cap SteamIds) : SearchAllowlist(hidden)
    \/ OpenBulk \/ ConfirmRemove \/ ToggleAll
    \/ AskRemoveAll \/ ConfirmRemoveAll \/ CancelRemove
=============================================================================
