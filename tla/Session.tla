------------------------------ MODULE Session -------------------------------
(***************************************************************************)
(* One browser tab and the server it talks to: the route, the signed-in    *)
(* state (ui/src/hooks/useAuth.tsx), the API client (data/apiClient.ts)    *)
(* and the requests in flight. The pages are in modules of their own; App  *)
(* composes them.                                                          *)
(*                                                                         *)
(* A tab is a record. An operator of a page takes the tab t, as one        *)
(* handler of the code finds it, and returns the tab as it leaves it. What *)
(* follows an "await" is what the delivery of the request's answer does.   *)
(* A request outlives the page that sent it: its continuation still runs,  *)
(* and only its writes to the page's signals are lost (live is FALSE).     *)
(***************************************************************************)
EXTENDS Naturals, FiniteSets, Sequences

CONSTANTS
    None,
    RecIds,         \* recordings
    SteamIds,       \* Steam accounts an allowlist may hold
    Admins,         \* those the configuration names as administrators
    MapIds,         \* maps
    Texts,          \* what is pasted for a bulk import: lines, Bad an invalid one
    Bad,
    Unmatched,      \* bound: what a search or a filter may leave out
    MaxTokens,      \* bound: sessions handed out
    MaxNet          \* bound: requests in flight before the user waits

Root == "/"
Routes == {Root, "/admin", "/map-manager", "/recording"}
Modes == {"public", "password", "steam", "steamAllowlist"}
Roles == {"viewer", "admin"}

ASSUME SessionAssumption ==
    /\ Admins \subseteq SteamIds
    /\ None \notin Roles
    /\ IsFiniteSet(SteamIds)      \* numbers of 17 digits
    /\ Bad \notin SteamIds
    /\ Texts \subseteq Seq(SteamIds \cup {Bad})
    /\ MaxTokens \in Nat \ {0}
    /\ MaxNet \in Nat \ {0}

VARIABLES
    tab,        \* the browser tab
    server,     \* what the server stores
    budget      \* bounds: clicks, network failures and expiries still to come

vars == <<tab, server, budget>>

Tokens == 1 .. MaxTokens

ViewerOps == {"list", "recording", "data", "blacklist"}
AdminOps == {"tools", "edit", "delete", "retry", "upload",
             "adminconfig", "allowlist", "add", "remove",
             "mapload", "maps", "import", "mapdelete", "restyle"}
PublicOps == {"config", "me", "password", "logout"}
Writes == {"edit", "delete", "retry", "upload", "add", "remove", "import",
           "mapdelete", "restyle", "logout"}

\* request and the methods over it: what is asked for, the token stored when
\* the request leaves, the answer when there is one, whether the page it is for
\* is still there (live), whether nobody is (gone), and what the continuation
\* remembers.
SendFor(t, live, op, arg, then) ==
    LET r == [n |-> CHOOSE k \in 1 .. Cardinality(t.net) + 1 : \A q \in t.net : q.n # k,
              op |-> op, arg |-> arg, token |-> t.token, ans |-> None,
              live |-> live, gone |-> FALSE, then |-> then]
    IN  [t EXCEPT !.net = @ \cup {r}]

Send(t, op, arg, then) == SendFor(t, TRUE, op, arg, then)

Get(t, op) == Send(t, op, None, None)

Ok(r) == r.ans.kind = "ok"

-----------------------------------------------------------------------------
(* What each page holds when it is mounted, and what it asks for.           *)

NoRecs == [id \in {} |-> "ready"]

\* RecordingSelector: both effects run at once. The version and the worlds,
\* which the list waits for, cannot fail it: they are part of its request.
SelectorMount(t) ==
    LET p == [at |-> Root, loading |-> TRUE, recs |-> NoRecs, selected |-> None,
              editing |-> None, deleting |-> None, upload |-> FALSE,
              uploading |-> FALSE, hidden |-> {}, desc |-> TRUE,
              tools |-> FALSE, unlocking |-> FALSE]
    IN  Get(Send([t EXCEPT !.page = p], "list", None, "show"), "tools")

\* AdminPage: the configuration and the list are fetched side by side.
\* had is what the list's resource resolved to.
AdminMount(t) ==
    LET p == [at |-> "/admin", config |-> FALSE, ready |-> FALSE, had |-> {},
              list |-> {}, selected |-> {}, hidden |-> {}, single |-> None,
              bulk |-> FALSE, pasting |-> FALSE]
    IN  Get(Get([t EXCEPT !.page = p], "adminconfig"), "allowlist")

\* MapManager, where there is a token; tools, maps and health are one request,
\* as the page has use for them only together.
MapsMount(t) ==
    LET p == [at |-> "/map-manager", loading |-> TRUE, maps |-> {}, hidden |-> {},
              selected |-> None, import |-> FALSE, zip |-> FALSE, delete |-> FALSE,
              uploading |-> FALSE, error |-> FALSE]
    IN  Get([t EXCEPT !.page = p], "mapload")

\* RecordingPlayback: the rest of this page is module Playback.
PlaybackMount(t) ==
    Get([t EXCEPT !.page = [at |-> "/recording", loading |-> TRUE]], "recording")

\* Mutant: the map manager shows the root's page under its own address.
MutMount(t, route) ==
    CASE route = "/admin" -> AdminMount([t EXCEPT !.route = route])
      [] route = "/map-manager" /\ t.token # 0 -> MapsMount([t EXCEPT !.route = route])
      [] route = "/recording" -> PlaybackMount([t EXCEPT !.route = route])
      [] OTHER -> SelectorMount([t EXCEPT !.route = route])

\* The routes of main.tsx. Without a token the map manager goes to the root.
Mount(t, route) ==
    CASE route = "/admin" -> AdminMount([t EXCEPT !.route = route])
      [] route = "/map-manager" /\ t.token # 0 -> MapsMount([t EXCEPT !.route = route])
      [] route = "/recording" -> PlaybackMount([t EXCEPT !.route = route])
      [] OTHER -> SelectorMount([t EXCEPT !.route = Root])

\* A page is left: what it has asked for is answered to nobody, but for the
\* requests of AuthProvider, which stays.
Navigate(t, route) ==
    Mount([t EXCEPT !.net =
              {IF r.op \in PublicOps THEN r ELSE [r EXCEPT !.live = FALSE] : r \in @}],
          route)

-----------------------------------------------------------------------------
(* The API client's session, and AuthProvider.                              *)

NoAuth == [authenticated |-> FALSE, role |-> None, mode |-> "public", error |-> FALSE]

\* The document is loaded again: only sessionStorage is left of the tab. What
\* the server has not seen yet may still reach it, but nobody waits for it.
Reload(t, params) ==
    LET orphans == {[r EXCEPT !.live = FALSE, !.gone = TRUE] :
                        r \in {q \in t.net : q.ans = None /\ q.op \in Writes}}
    IN  Get(Mount([t EXCEPT !.auth = NoAuth, !.params = params, !.net = orphans],
                  Root),
            "config")

\* Mutant: nobody looks where the tab is before it is sent to the root.
MutRedirectToLogin(t) == Reload([t EXCEPT !.returnTo = t.route], None)

\* redirectToLogin, on a 401 of a viewer request: not on the root page itself,
\* where it would go round for ever.
RedirectToLogin(t) ==
    IF t.route = Root THEN t ELSE Reload([t EXCEPT !.returnTo = t.route], None)

\* The selector's two effects follow authenticated().
SetAuthenticated(t, yes) ==
    LET t1 == [t EXCEPT !.auth.authenticated = yes]
    IN  IF t.auth.authenticated = yes \/ t.page.at # Root THEN t1
        ELSE Get(Send([t1 EXCEPT !.page.loading = TRUE], "list", None, "show"), "tools")

\* The state a session check or a logout leaves.
SetAuth(t, yes, role) == [SetAuthenticated(t, yes) EXCEPT !.auth.role = role]

\* useAuth's onMount behind getAuthConfig, which answers "public" when it
\* fails: the parameters of the Steam callback are consumed, and the path saved
\* before the login is restored; the router then mounts its page.
ConfigArrives(t, r) ==
    LET mode == IF Ok(r) THEN r.ans.data ELSE "public"
        back == t.params # None /\ t.params.token # 0
        t1 == [t EXCEPT !.auth.mode = mode, !.params = None,
                        !.auth.error = (t.params # None /\ t.params.error),
                        !.token = IF back THEN t.params.token ELSE @,
                        !.returnTo = IF back THEN None ELSE @]
        t2 == IF back /\ t.returnTo \notin {None, Root} THEN Navigate(t1, t.returnTo) ELSE t1
    IN  IF t2.token = 0 THEN SetAuthenticated(t2, FALSE) ELSE Get(t2, "me")

\* getMe never throws: a failure is an unauthenticated state. then says which
\* handler waits, the page's first check or the password form.
MeArrives(t, r) ==
    LET me == IF Ok(r) THEN r.ans.data ELSE [authenticated |-> FALSE, role |-> None]
        t1 == SetAuth(t, me.authenticated, me.role)
    IN  IF r.then = "unlock" /\ t1.page.at = Root THEN [t1 EXCEPT !.page.unlocking = FALSE]
        ELSE t1

\* loginWithPassword behind passwordLogin.
PasswordArrives(t, r) ==
    IF Ok(r) THEN Send([t EXCEPT !.token = r.ans.data], "me", None, "unlock")
    ELSE LET t1 == [t EXCEPT !.auth.error = TRUE]
         IN  IF t.page.at = Root THEN [t1 EXCEPT !.page.unlocking = FALSE] ELSE t1

\* logout is fire-and-forget: whatever the server said.
LogoutArrives(t, r) == SetAuth([t EXCEPT !.token = 0], FALSE, None)

-----------------------------------------------------------------------------
(* The server, as far as these pages see it. An answer is given in one step *)
(* (the store itself is module RecordingStore, the map jobs MapJobs).       *)

Answer(kind, data) == [kind |-> kind, data |-> data]

\* requireViewer and requireAdmin.
Admitted(r) ==
    CASE r.op \in AdminOps -> r.token \in server.live /\ server.role[r.token] = "admin"
      [] r.op \in ViewerOps -> server.mode = "public" \/ r.token \in server.live
      [] OTHER -> TRUE

Whoami(token) ==
    IF token \in server.live
    THEN [authenticated |-> TRUE, role |-> server.role[token]]
    ELSE [authenticated |-> FALSE, role |-> None]

\* What a read answers.
Reply(op, token) ==
    CASE op = "config" -> server.mode
      [] op = "me" -> Whoami(token)
      [] op = "list" -> server.recs
      [] op = "allowlist" -> server.allow
      [] op \in {"maps", "mapload"} -> server.maps
      [] OTHER -> None

Fresh == CHOOSE k \in Tokens : server.role[k] = None

\* What a write may leave behind: no state where it fails, because there is
\* nothing it is for.
When(possible, to) == IF possible THEN {to} ELSE {}

Stored(op, arg) ==
    CASE op = "edit" -> When(arg \in DOMAIN server.recs, server)
      [] op = "delete" ->
            When(arg \in DOMAIN server.recs,
                 [server EXCEPT !.recs = [id \in DOMAIN @ \ {arg} |-> @[id]]])
      [] op = "retry" ->
            When(arg \in DOMAIN server.recs /\ server.recs[arg] = "failed",
                 [server EXCEPT !.recs[arg] = "pending"])
      [] op = "upload" ->
            {[server EXCEPT !.recs = [i \in DOMAIN @ \cup {id} |->
                                         IF i = id THEN "pending" ELSE @[i]]] :
                id \in RecIds \ DOMAIN server.recs}
      [] op = "add" -> {[server EXCEPT !.allow = @ \cup {arg}, !.added = @ \cup {arg}]}
      [] op = "remove" -> {[server EXCEPT !.allow = @ \ {arg}, !.removed = @ \cup {arg}]}
      [] op = "import" -> {[server EXCEPT !.jobs = @ \cup {m}] : m \in MapIds}
      [] op = "mapdelete" ->
            When(arg \in server.maps, [server EXCEPT !.maps = @ \ {arg}])
      [] OTHER -> {server}

Answered(r, kind, data) ==
    tab' = [tab EXCEPT !.net =
               (@ \ {r}) \cup {[r EXCEPT !.ans = [kind |-> kind, data |-> data]]}]

\* A password is right or wrong; the session it opens is a viewer's.
CheckPassword(r) ==
    \/ /\ Answered(r, "refused", None)
       /\ UNCHANGED server
    \/ /\ server.mode = "password"
       /\ \E k \in Tokens : server.role[k] = None
       /\ server' = [server EXCEPT !.role[Fresh] = "viewer", !.live = @ \cup {Fresh}]
       /\ Answered(r, "ok", Fresh)

\* The server comes to a request. A refusal is a 401 (or a 403, which no
\* viewer request gets).
Serve(r) ==
    /\ r.ans = None
    /\ \/ /\ r.op = "password"
          /\ CheckPassword(r)
       \/ /\ ~Admitted(r)
          /\ Answered(r, "refused", None) /\ UNCHANGED server
       \/ /\ Admitted(r) /\ r.op \in Writes
          /\ server' \in Stored(r.op, r.arg)
          /\ Answered(r, "ok", None)
       \/ /\ Admitted(r) /\ r.op \in Writes /\ Stored(r.op, r.arg) = {}
          /\ Answered(r, "failed", None) /\ UNCHANGED server
       \/ /\ Admitted(r) /\ r.op \notin Writes \cup {"password"}
          /\ Answered(r, "ok", Reply(r.op, r.token)) /\ UNCHANGED server
    /\ UNCHANGED budget

\* The network gives up on a request, before or after the server saw it.
Fail(r) ==
    /\ budget.faults > 0
    /\ r.ans # None => r.ans.kind = "ok"
    /\ Answered(r, "failed", None)
    /\ budget' = [budget EXCEPT !.faults = @ - 1]
    /\ UNCHANGED server

\* A session's time is over.
Expire ==
    /\ budget.expiries > 0
    /\ \E k \in server.live : server' = [server EXCEPT !.live = @ \ {k}]
    /\ budget' = [budget EXCEPT !.expiries = @ - 1]
    /\ UNCHANGED tab

-----------------------------------------------------------------------------
(* What the user does: one click, as long as the bound allows, on a page    *)
(* that is not waiting for more than MaxNet answers.                        *)

Click(to) ==
    /\ budget.clicks > 0
    /\ Cardinality(tab.net) < MaxNet
    /\ tab' = to
    /\ budget' = [budget EXCEPT !.clicks = @ - 1]
    /\ UNCHANGED server

\* AuthBadge, which the selector shows: the password form of the password mode,
\* closed while a password is checked.
Unlock ==
    /\ tab.page.at = Root
    /\ ~tab.auth.authenticated
    /\ tab.auth.mode = "password"
    /\ ~tab.page.unlocking
    /\ Click(Get([tab EXCEPT !.auth.error = FALSE, !.page.unlocking = TRUE], "password"))

\* loginWithSteam: away to the provider and back with a token or an error in
\* the address. Who is an administrator, Steam says; an allowlist may refuse.
SteamLogin ==
    /\ tab.page.at = Root
    /\ ~tab.auth.authenticated
    /\ budget.clicks > 0
    /\ budget' = [budget EXCEPT !.clicks = @ - 1]
    /\ LET left == [tab EXCEPT !.returnTo = tab.route] IN
       \/ /\ tab' = Reload(left, [error |-> TRUE, token |-> 0])
          /\ UNCHANGED server
       \/ /\ \E k \in Tokens : server.role[k] = None
          /\ \E role \in Roles :
                server' = [server EXCEPT !.role[Fresh] = role, !.live = @ \cup {Fresh}]
          /\ tab' = Reload(left, [error |-> FALSE, token |-> Fresh])

\* The badge's sign-out button.
Logout ==
    /\ tab.page.at = Root
    /\ tab.auth.authenticated
    /\ Click(Get(tab, "logout"))

\* dismissAuthError, clicked or by the toast's own timer.
DismissError ==
    /\ tab.auth.error
    /\ tab' = [tab EXCEPT !.auth.error = FALSE]
    /\ UNCHANGED <<server, budget>>
=============================================================================
