-------------------------------- MODULE App ---------------------------------
(***************************************************************************)
(* The pages of the browser, composed: one of them is mounted, over the    *)
(* session and the requests all of them share (ui/src/App.tsx, main.tsx).  *)
(***************************************************************************)
EXTENDS AllowlistPage, SelectorPage, MapManagerPage

CONSTANT Visits     \* how a visit begins: [route, role, mode, recs, allow, maps, budget]

RecLists == UNION {[S -> {"ready", "failed", "pending"}] : S \in SUBSET RecIds}

ASSUME AppAssumption ==
    /\ Admins # {}
    /\ \A v \in Visits :
          /\ v.route \in Routes /\ v.mode \in Modes /\ v.role \in Roles \cup {None}
          /\ v.recs \in RecLists /\ v.allow \subseteq SteamIds /\ v.maps \subseteq MapIds

\* A bookmark is opened, with what an earlier visit left in sessionStorage.
Init ==
    \E v \in Visits :
        LET token == IF v.role = None THEN 0 ELSE 1
            empty == [route |-> v.route, token |-> token, returnTo |-> None, params |-> None,
                      auth |-> NoAuth, page |-> None, net |-> {}]
        IN  /\ tab = Get(Mount(empty, v.route), "config")
            /\ server = [mode |-> v.mode,
                         role |-> [k \in Tokens |-> IF k = token THEN v.role ELSE None],
                         live |-> Tokens \cap {token},
                         recs |-> v.recs,
                         allow |-> v.allow, maps |-> v.maps, jobs |-> {},
                         added |-> {}, removed |-> {}]
            /\ budget = v.budget

\* RecordingPlayback's three reads, one behind the other; the last may fail.
PlaybackAnswer(t, r) ==
    CASE r.op = "recording" /\ Ok(r) -> SendFor(t, r.live, "data", None, None)
      [] r.op = "data" /\ Ok(r) -> SendFor(t, r.live, "blacklist", None, None)
      [] OTHER -> IF r.live THEN [t EXCEPT !.page.loading = FALSE] ELSE t

AnswerIn(t, r) ==
    CASE r.op = "config" -> ConfigArrives(t, r)
      [] r.op = "me" -> MeArrives(t, r)
      [] r.op = "password" -> PasswordArrives(t, r)
      [] r.op = "logout" -> LogoutArrives(t, r)
      [] r.op \in {"recording", "data", "blacklist"} -> PlaybackAnswer(t, r)
      [] r.op \in {"list", "tools", "edit", "delete", "retry", "upload"} -> SelectorAnswer(t, r)
      [] r.op \in {"adminconfig", "allowlist", "add", "remove"} -> AdminAnswer(t, r)
      [] OTHER -> MapsAnswer(t, r)

\* fetchJson and fetchBuffer: a refusal may load the root before they throw.
Without(r) == [tab EXCEPT !.net = @ \ {r}]

Reloads(r) ==
    /\ r.ans # None /\ r.op \in ViewerOps /\ r.ans.kind = "refused"
    /\ RedirectToLogin(Without(r)) # Without(r)

Arrived(r) ==
    IF Reloads(r) THEN RedirectToLogin(Without(r))
    ELSE IF r.gone THEN Without(r)
    ELSE AnswerIn(Without(r), r)

\* An answer reaches the tab.
Deliver(r) ==
    /\ r.ans # None
    /\ tab' = Arrived(r)
    /\ UNCHANGED <<server, budget>>

\* The back button of a page.
Leave ==
    /\ tab.route # Root
    /\ Click(Navigate(tab, Root))

Network == \E r \in tab.net : Serve(r) \/ Deliver(r)

Trouble == (\E r \in tab.net : Fail(r)) \/ Expire \/ (\E m \in MapIds : JobEnds(m))

User == Unlock \/ SteamLogin \/ Logout \/ DismissError \/ Leave
        \/ AdminClick \/ SelectorClick \/ MapsClick

Next == Network \/ Trouble \/ User

\* A request comes to an end: with an answer, or as the browser gives up on it.
Spec == Init /\ [][Next]_vars /\ WF_vars(Network)

-----------------------------------------------------------------------------
(* Properties                                                               *)

SelectorPages ==
    [at: {Root}, loading: BOOLEAN, recs: RecLists, selected: RecIds \cup {None},
     editing: RecIds \cup {None}, deleting: RecIds \cup {None}, upload: BOOLEAN,
     uploading: BOOLEAN, hidden: SUBSET RecIds, desc: BOOLEAN, tools: BOOLEAN,
     unlocking: BOOLEAN]

AllowlistPages ==
    [at: {"/admin"}, config: BOOLEAN, ready: BOOLEAN, had: SUBSET SteamIds,
     list: SUBSET SteamIds, selected: SUBSET SteamIds, hidden: SUBSET SteamIds,
     single: SteamIds \cup {None}, bulk: BOOLEAN, pasting: BOOLEAN]

MapsPages ==
    [at: {"/map-manager"}, loading: BOOLEAN, maps: SUBSET MapIds, hidden: SUBSET MapIds,
     selected: MapIds \cup {None}, import: BOOLEAN, zip: BOOLEAN, delete: BOOLEAN,
     uploading: BOOLEAN, error: BOOLEAN]

PlaybackPages == [at: {"/recording"}, loading: BOOLEAN]

PageTypes == SelectorPages \cup AllowlistPages \cup MapsPages \cup PlaybackPages

\* Types: the mounted page is the one of the route, and a request in flight has
\* a number of its own.
TypeOK ==
    /\ tab.route \in Routes
    /\ tab.token \in Tokens \cup {0}
    /\ tab.returnTo \in Routes \cup {None}
    /\ tab.page \in PageTypes
    /\ tab.page.at = tab.route
    /\ tab.auth.role \in Roles \cup {None}
    /\ \A r, q \in tab.net : r.n = q.n => r = q
    /\ server.live \subseteq {k \in Tokens : server.role[k] # None}

\* The list of the allowlist page differs from what was fetched only by what
\* the server has accepted: a row is not taken away because its removal was
\* asked for, nor put there because its addition was, also when some requests
\* of a selection fail (confirmRemoveBulk, handleBulkAdd, handleAdd).
RowsAccounted ==
    tab.page.at = "/admin" =>
        /\ tab.page.had \ tab.page.list \subseteq server.removed
        /\ tab.page.list \ tab.page.had \subseteq server.added

\* What is selected for removal is on the list: no removal is confirmed for an
\* account the page does not show any more, however the single removals, the
\* bulk removal and the additions overlap.
SelectionListed ==
    tab.page.at = "/admin" => tab.page.selected \subseteq tab.page.list

\* A page has at most one upload of its own under way, however often its dialog
\* is closed and opened again (UploadDialog, ImportDialog).
OneUpload ==
    Cardinality({r \in tab.net : r.live /\ r.op \in {"upload", "import"}}) <= 1

\* A spinner turns off: loading and uploading come to an end, whichever of the
\* requests fails or is refused.
Busy ==
    \/ tab.page.at # "/admin" /\ tab.page.loading
    \/ tab.page.at \in {Root, "/map-manager"} /\ tab.page.uploading

BusyEnds == []<>~Busy

\* Refused requests do not send the tab round in circles: in the end it is
\* loaded again no more (the comment of redirectToLogin, apiClient.ts:92).
SettlesDown == <>[][\A r \in tab.net : Reloads(r) => tab' # Arrived(r)]_vars
=============================================================================
