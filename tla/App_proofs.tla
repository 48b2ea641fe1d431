----------------------------- MODULE App_proofs -----------------------------
(***************************************************************************)
(* Proofs about the pages of the browser, for every set of recordings,     *)
(* accounts, maps and visits and every bound. The inductive invariant says *)
(* of each request in flight what it was asked with, whose page it is for  *)
(* and what its continuation may rely on (RequestOK), and of the page what *)
(* its list and selection are (PanelOK). One lemma says that a request     *)
(* that fits may be sent, one that a page may be written, one that a page  *)
(* may be mounted over what is left of the last one; then one per answer,  *)
(* per click and per step of the server.                                   *)
(***************************************************************************)
EXTENDS App, FiniteSetTheorems, FunctionTheorems, SequenceTheorems, WellFoundedInduction, TLAPS

-----------------------------------------------------------------------------
(* The invariant                                                            *)

Ops == ViewerOps \cup AdminOps \cup PublicOps
Whos == [authenticated: BOOLEAN, role: Roles \cup {None}]
Data == Modes \cup Whos \cup RecLists \cup (SUBSET SteamIds) \cup (SUBSET MapIds)
        \cup Tokens \cup {None}
Answers == [kind: {"ok", "refused", "failed"}, data: Data]
Loops == [ids: Seq(SteamIds), done: SUBSET SteamIds]
Args == RecIds \cup SteamIds \cup MapIds \cup {None}
Thens == Loops \cup {None, "show", "refresh", "uploaded", "unlock"}

Requests ==
    [n: Nat, op: Ops, arg: Args, token: Tokens \cup {0}, ans: Answers \cup {None},
     live: BOOLEAN, gone: BOOLEAN, then: Thens]

Auths == [authenticated: BOOLEAN, role: Roles \cup {None}, mode: Modes, error: BOOLEAN]
Params == [error: BOOLEAN, token: Tokens \cup {0}]

\* A tab, with a page or, before the first is mounted, without.
Tabs ==
    [route: Routes, token: Tokens \cup {0}, returnTo: Routes \cup {None},
     params: Params \cup {None}, auth: Auths, page: PageTypes \cup {None},
     net: SUBSET Requests]

Servers ==
    [mode: Modes, role: [Tokens -> Roles \cup {None}], live: SUBSET Tokens, recs: RecLists,
     allow: SUBSET SteamIds, maps: SUBSET MapIds, jobs: SUBSET MapIds,
     added: SUBSET SteamIds, removed: SUBSET SteamIds]

SignedIn(s) == s.live \subseteq {k \in Tokens : s.role[k] # None}

\* The page a request is for.
PageOf(op, at) ==
    CASE op \in {"list", "tools", "edit", "delete", "retry", "upload"} -> at = Root
      [] op \in {"adminconfig", "allowlist", "add", "remove"} -> at = "/admin"
      [] op \in {"mapload", "maps", "import", "mapdelete", "restyle"} -> at = "/map-manager"
      [] op \in {"recording", "data", "blacklist"} -> at = "/recording"
      [] OTHER -> TRUE

Granted(r) == r.ans # None /\ r.ans.kind = "ok"

\* What a request asks with and is answered with has the type its handlers take.
WellTyped(r) ==
    /\ r.op \in {"add", "remove"} => r.arg \in SteamIds /\ r.then \in Loops \cup {None}
    /\ Granted(r) =>
         /\ r.op = "config" => r.ans.data \in Modes
         /\ r.op = "me" => r.ans.data \in Whos
         /\ r.op = "list" => r.ans.data \in RecLists
         /\ r.op = "allowlist" => r.ans.data \in SUBSET SteamIds
         /\ r.op \in {"maps", "mapload"} => r.ans.data \in SUBSET MapIds
         /\ r.op = "password" => r.ans.data \in Tokens

\* What was granted, and what a loop over a selection has behind it, the server
\* has done: A are the accounts it has added, R those it has removed.
Accounted(r, A, R) ==
    /\ r.op = "add" =>
         /\ Granted(r) => r.arg \in A
         /\ r.then # None => r.then.done \subseteq A
    /\ r.op = "remove" =>
         /\ Granted(r) => r.arg \in R
         /\ r.then # None => r.then.done \subseteq R

\* The upload of a page, up to the list that is fetched behind it.
Uploading(r) ==
    r.live /\ (r.op \in {"upload", "import"} \/ (r.op = "list" /\ r.then = "uploaded"))

\* The list of the allowlist page is on its way.
Fetching(r) == r.live /\ r.op = "allowlist"

\* A live request is for the page p that is mounted, and p waits for it.
ForPage(r, p) ==
    /\ r.live => PageOf(r.op, p.at)
    /\ Uploading(r) => p.uploading
    /\ Fetching(r) => ~p.ready

RequestOK(r, p, A, R) == WellTyped(r) /\ Accounted(r, A, R) /\ ForPage(r, p)

PanelOK(p, A, R) ==
    p.at = "/admin" =>
        /\ p.selected \subseteq p.list
        /\ ~p.ready => p.selected = {}
        /\ p.had \ p.list \subseteq R
        /\ p.list \ p.had \subseteq A

Numbered(net) == IsFiniteSet(net) /\ \A r, q \in net : r.n = q.n => r = q

\* At most one upload and one fetch of the allowlist are under way.
Single(net) ==
    /\ \A r, q \in net : Uploading(r) /\ Uploading(q) => r = q
    /\ \A r, q \in net : Fetching(r) /\ Fetching(q) => r = q

TabOK(t, A, R) ==
    /\ t \in Tabs /\ t.page \in PageTypes /\ t.page.at = t.route
    /\ Numbered(t.net) /\ Single(t.net)
    /\ \A r \in t.net : RequestOK(r, t.page, A, R)
    /\ PanelOK(t.page, A, R)

AppInv ==
    /\ server \in Servers /\ SignedIn(server)
    /\ TabOK(tab, server.added, server.removed)

-----------------------------------------------------------------------------
(* Requests                                                                 *)

\* The image of a finite set is finite, and has no more elements.
LEMMA FiniteImage ==
    ASSUME NEW S, IsFiniteSet(S), NEW f, DOMAIN f = S
    PROVE  LET T == {f[x] : x \in S}
           IN  IsFiniteSet(T) /\ Cardinality(T) <= Cardinality(S)
<1> DEFINE T == {f[x] : x \in S}
           g == [x \in S |-> f[x]]
<1>1. g \in Surjection(S, T)
  BY DEF Surjection
<1> QED
  BY <1>1, FS_Surjection

\* There is a number no request in flight has.
LEMMA FreshNumber ==
    ASSUME NEW net, IsFiniteSet(net)
    PROVE  \E k \in 1 .. Cardinality(net) + 1 : \A q \in net : q.n # k
<1> DEFINE C == Cardinality(net)
           f == [q \in net |-> q.n]
           N == {f[q] : q \in net}
<1>1. C \in Nat
  BY FS_CardinalityType
<1>2. IsFiniteSet(N) /\ Cardinality(N) <= C
  BY FiniteImage
<1>3. SUFFICES ASSUME \A k \in 1 .. C + 1 : \E q \in net : q.n = k
               PROVE  FALSE
  OBVIOUS
<1>4. 1 .. C + 1 \subseteq N
  BY <1>3
<1>5. IsFiniteSet(1 .. C + 1) /\ Cardinality(1 .. C + 1) = C + 1
  BY <1>1, FS_Interval
<1>6. Cardinality(1 .. C + 1) <= Cardinality(N)
  BY <1>2, <1>4, FS_Subset
<1>7. Cardinality(N) \in Nat
  BY <1>2, FS_CardinalityType
<1> HIDE DEF N, C
<1> QED
  BY <1>1, <1>2, <1>5, <1>6, <1>7

\* Another request joins those in flight.
LEMMA AddRequest ==
    ASSUME NEW A, NEW R, NEW t, TabOK(t, A, R), NEW e \in Requests,
           \A q \in t.net : q.n # e.n,
           RequestOK(e, t.page, A, R),
           Uploading(e) => \A q \in t.net : ~Uploading(q),
           Fetching(e) => \A q \in t.net : ~Fetching(q)
    PROVE  TabOK([t EXCEPT !.net = @ \cup {e}], A, R)
<1> DEFINE u == [t EXCEPT !.net = @ \cup {e}]
           net == t.net \cup {e}
<1>1. t \in Tabs
  BY DEF TabOK
<1>2. /\ u \in Tabs /\ u.page = t.page /\ u.route = t.route /\ u.net = net
  BY <1>1 DEF Tabs
<1>3. Numbered(net)
  BY FS_AddElement DEF TabOK, Numbered
<1>4. Single(net)
  BY DEF TabOK, Single
<1> HIDE DEF u, net
<1>5. \A r \in net : RequestOK(r, t.page, A, R)
  BY DEF TabOK, net
<1> QED
  BY <1>2, <1>3, <1>4, <1>5 DEF TabOK, u

\* What a request has to fit to be sent: the loop it is in is accounted for, and
\* if it is live the page is the one it is for, and waits for no other such.
Fits(t, A, R, live, op, arg, then) ==
    /\ TabOK(t, A, R)
    /\ live \in BOOLEAN /\ op \in Ops /\ arg \in Args /\ then \in Thens
    /\ op \in {"add", "remove"} => arg \in SteamIds /\ then \in Loops \cup {None}
    /\ op = "add" /\ then # None => then.done \subseteq A
    /\ op = "remove" /\ then # None => then.done \subseteq R
    /\ live => PageOf(op, t.page.at)
    /\ live /\ (op \in {"upload", "import"} \/ (op = "list" /\ then = "uploaded")) =>
          t.page.uploading /\ \A q \in t.net : ~Uploading(q)
    /\ live /\ op = "allowlist" => ~t.page.ready /\ \A q \in t.net : ~Fetching(q)

LEMMA Sent ==
    ASSUME NEW A, NEW R, NEW t, NEW live, NEW op, NEW arg, NEW then,
           Fits(t, A, R, live, op, arg, then)
    PROVE  /\ TabOK(SendFor(t, live, op, arg, then), A, R)
           /\ SendFor(t, live, op, arg, then).page = t.page
           /\ \A q \in SendFor(t, live, op, arg, then).net : q \in t.net \/ q.op = op
<1> DEFINE k == CHOOSE k \in 1 .. Cardinality(t.net) + 1 : \A q \in t.net : q.n # k
           e == [n |-> k, op |-> op, arg |-> arg, token |-> t.token, ans |-> None,
                 live |-> live, gone |-> FALSE, then |-> then]
           u == [t EXCEPT !.net = @ \cup {e}]
<1>1. t \in Tabs /\ IsFiniteSet(t.net) /\ TabOK(t, A, R)
  BY DEF Fits, TabOK, Numbered
<1>2. Cardinality(t.net) \in Nat
  BY <1>1, FS_CardinalityType
<1>3. k \in 1 .. Cardinality(t.net) + 1 /\ \A q \in t.net : q.n # k
  BY <1>1, FreshNumber
<1> HIDE DEF k
<1>4. k \in Nat
  BY <1>2, <1>3
<1>5. t.token \in Tokens \cup {0}
  BY <1>1 DEF Tabs
<1>6. e \in Requests
  BY <1>4, <1>5 DEF Fits, Requests
<1>7. /\ e.n = k /\ e.op = op /\ e.arg = arg /\ e.ans = None /\ e.live = live
      /\ e.then = then
  OBVIOUS
<1> HIDE DEF e
<1>8. \A q \in t.net : q.n # e.n
  BY <1>3, <1>7
<1>9. RequestOK(e, t.page, A, R)
  <2>1. ~Granted(e)
    BY <1>7 DEF Granted
  <2>2. WellTyped(e)
    BY <1>7, <2>1 DEF WellTyped, Fits
  <2>3. Accounted(e, A, R)
    BY <1>7, <2>1 DEF Accounted, Fits
  <2>4. ForPage(e, t.page)
    BY <1>7 DEF ForPage, Fits, Uploading, Fetching
  <2> QED
    BY <2>2, <2>3, <2>4 DEF RequestOK
<1>10. Uploading(e) => \A q \in t.net : ~Uploading(q)
  BY <1>7 DEF Uploading, Fits
<1>11. Fetching(e) => \A q \in t.net : ~Fetching(q)
  BY <1>7 DEF Fetching, Fits
<1>12. TabOK(u, A, R)
  BY <1>1, <1>6, <1>8, <1>9, <1>10, <1>11, AddRequest
<1>13. u.page = t.page /\ u.net = t.net \cup {e}
  BY <1>1 DEF Tabs
<1>14. u = SendFor(t, live, op, arg, then)
  BY DEF SendFor, k, e
<1> QED
  BY <1>7, <1>12, <1>13, <1>14

\* The same for a request of the page that is mounted.
Suits(t, A, R, op, arg, then) ==
    /\ TabOK(t, A, R)
    /\ op \in Ops /\ arg \in Args /\ then \in Thens
    /\ op \in {"add", "remove"} => arg \in SteamIds /\ then \in Loops \cup {None}
    /\ op = "add" /\ then # None => then.done \subseteq A
    /\ op = "remove" /\ then # None => then.done \subseteq R
    /\ PageOf(op, t.page.at)
    /\ op \in {"upload", "import"} \/ (op = "list" /\ then = "uploaded") =>
          t.page.uploading /\ \A q \in t.net : ~Uploading(q)
    /\ op = "allowlist" => ~t.page.ready /\ \A q \in t.net : ~Fetching(q)

LEMMA Asked ==
    ASSUME NEW A, NEW R, NEW t, NEW op, NEW arg, NEW then, Suits(t, A, R, op, arg, then)
    PROVE  /\ TabOK(Send(t, op, arg, then), A, R)
           /\ Send(t, op, arg, then).page = t.page
           /\ \A q \in Send(t, op, arg, then).net : q \in t.net \/ q.op = op
<1>1. PICK live : live = TRUE
  OBVIOUS
<1>2. Fits(t, A, R, live, op, arg, then)
  BY <1>1 DEF Fits, Suits
<1>3. Send(t, op, arg, then) = SendFor(t, live, op, arg, then)
  BY <1>1 DEF Send
<1> QED
  BY <1>2, <1>3, Sent

\* The answer of a request is taken from those in flight, and handled: what its
\* handler finds. Nothing else of its kind is under way.
Answering(t, r, A, R) ==
    /\ TabOK(t, A, R)
    /\ r \in Requests /\ r.ans # None
    /\ RequestOK(r, t.page, A, R)
    /\ Uploading(r) => \A q \in t.net : ~Uploading(q)
    /\ Fetching(r) => \A q \in t.net : ~Fetching(q)

LEMMA FewerRequests ==
    ASSUME NEW A, NEW R, NEW t, TabOK(t, A, R), NEW r
    PROVE  TabOK([t EXCEPT !.net = @ \ {r}], A, R)
<1> DEFINE u == [t EXCEPT !.net = @ \ {r}]
           net == t.net \ {r}
<1>1. t \in Tabs
  BY DEF TabOK
<1>2. /\ u \in Tabs /\ u.page = t.page /\ u.route = t.route /\ u.net = net
  BY <1>1 DEF Tabs
<1>3. Numbered(net)
  BY FS_Subset DEF TabOK, Numbered
<1>4. Single(net)
  BY DEF TabOK, Single
<1> HIDE DEF u
<1>5. \A q \in net : RequestOK(q, t.page, A, R)
  BY DEF TabOK
<1> HIDE DEF net
<1> QED
  BY <1>2, <1>3, <1>4, <1>5 DEF TabOK, u

LEMMA Taken ==
    ASSUME NEW A, NEW R, NEW t, TabOK(t, A, R), NEW r \in t.net, r.ans # None
    PROVE  Answering([t EXCEPT !.net = @ \ {r}], r, A, R)
<1> DEFINE u == [t EXCEPT !.net = @ \ {r}]
<1>1. t \in Tabs
  BY DEF TabOK
<1>2. u.page = t.page /\ u.net = t.net \ {r} /\ r \in Requests
  BY <1>1 DEF Tabs
<1>3. TabOK(u, A, R)
  BY FewerRequests
<1> HIDE DEF u
<1>4. RequestOK(r, u.page, A, R)
  BY <1>2 DEF TabOK
<1>5. /\ Uploading(r) => \A q \in u.net : ~Uploading(q)
      /\ Fetching(r) => \A q \in u.net : ~Fetching(q)
  BY <1>2 DEF TabOK, Single
<1> QED
  BY <1>2, <1>3, <1>4, <1>5 DEF Answering, u

-----------------------------------------------------------------------------
(* Writes of a handler to the tab and to its page                           *)

\* What AuthProvider and the API client write is no page's business.
LEMMA SameInSession ==
    ASSUME NEW A, NEW R, NEW t, TabOK(t, A, R), NEW u \in Tabs,
           u.page = t.page, u.route = t.route, u.net = t.net
    PROVE  TabOK(u, A, R)
BY DEF TabOK

WithPage(t, p) == [t EXCEPT !.page = p]

\* The page p may be written: the mounted one still waits for what it has asked.
Keeps(t, p, A, R) ==
    /\ TabOK(t, A, R) /\ p \in PageTypes /\ p.at = t.page.at /\ PanelOK(p, A, R)
    /\ \A q \in t.net : Uploading(q) => p.uploading
    /\ \A q \in t.net : Fetching(q) => ~p.ready

LEMMA WritePage ==
    ASSUME NEW A, NEW R, NEW t, NEW p, Keeps(t, p, A, R)
    PROVE  /\ TabOK(WithPage(t, p), A, R)
           /\ WithPage(t, p).page = p
           /\ WithPage(t, p).net = t.net
<1> DEFINE u == WithPage(t, p)
<1>1. t \in Tabs
  BY DEF Keeps, TabOK
<1>2. /\ u \in Tabs /\ u.page = p /\ u.route = t.route /\ u.net = t.net
  BY <1>1 DEF Tabs, WithPage, Keeps
<1> HIDE DEF u
<1>3. \A q \in u.net : RequestOK(q, u.page, A, R)
  BY <1>2 DEF TabOK, RequestOK, ForPage, Keeps
<1> QED
  BY <1>2, <1>3 DEF TabOK, u, Keeps

\* The address of a page says which of the types it is of.
LEMMA Kinds ==
    ASSUME NEW p \in PageTypes
    PROVE  /\ p.at = Root => p \in SelectorPages
           /\ p.at = "/admin" => p \in AllowlistPages
           /\ p.at = "/map-manager" => p \in MapsPages
           /\ p.at = "/recording" => p \in PlaybackPages
           /\ p.at \in Routes
BY DEF PageTypes, SelectorPages, AllowlistPages, MapsPages, PlaybackPages, Routes, Root

\* A page other than the allowlist's has no list and no selection to account for,
\* and its requests read nothing but whether it uploads.
LEMMA WriteOther ==
    ASSUME NEW A, NEW R, NEW t, TabOK(t, A, R), NEW p \in PageTypes, p.at = t.page.at,
           p.at # "/admin",
           \/ \A q \in t.net : ~Uploading(q)
           \/ p.uploading = t.page.uploading
           \/ p.uploading
    PROVE  Keeps(t, p, A, R)
<1>1. \A q \in t.net : ~Fetching(q)
  BY DEF TabOK, RequestOK, ForPage, PageOf, Fetching
<1>2. \A q \in t.net : Uploading(q) => p.uploading
  BY DEF TabOK, RequestOK, ForPage
<1>3. PanelOK(p, A, R)
  BY DEF PanelOK
<1> QED
  BY <1>1, <1>2, <1>3 DEF Keeps

\* The allowlist's page uploads nothing.
LEMMA WritePanel ==
    ASSUME NEW A, NEW R, NEW t, TabOK(t, A, R), NEW p \in PageTypes, p.at = t.page.at,
           p.at = "/admin", PanelOK(p, A, R),
           \/ \A q \in t.net : ~Fetching(q)
           \/ p.ready = t.page.ready
    PROVE  Keeps(t, p, A, R)
<1>1. \A q \in t.net : ~Uploading(q)
  BY DEF TabOK, RequestOK, ForPage, PageOf, Uploading, Root
<1>2. \A q \in t.net : Fetching(q) => ~p.ready
  BY DEF TabOK, RequestOK, ForPage
<1>3. \A q \in t.net : Uploading(q) => p.uploading
  BY <1>1
<1> QED
  BY <1>2, <1>3 DEF Keeps

-----------------------------------------------------------------------------
(* Pages come and go                                                        *)

\* What is left of a tab whose page is gone: no request in flight is a page's.
Left(t, A, R) ==
    /\ t \in Tabs
    /\ Numbered(t.net)
    /\ \A r \in t.net : WellTyped(r) /\ Accounted(r, A, R) /\ (r.live => r.op \in PublicOps)

Opened(t, route, p) == [[t EXCEPT !.route = route] EXCEPT !.page = p]

LEMMA FirstPage ==
    ASSUME NEW A, NEW R, NEW t, Left(t, A, R), NEW route \in Routes,
           NEW p \in PageTypes, p.at = route, PanelOK(p, A, R)
    PROVE  /\ TabOK(Opened(t, route, p), A, R)
           /\ Opened(t, route, p).page = p
           /\ \A q \in Opened(t, route, p).net : q.live => q.op \in PublicOps
<1> DEFINE u == Opened(t, route, p)
<1>1. t \in Tabs
  BY DEF Left
<1>2. /\ u \in Tabs /\ u.page = p /\ u.route = route /\ u.net = t.net
  BY <1>1 DEF Tabs, Opened
<1> HIDE DEF u
<1>3. ASSUME NEW r \in t.net
      PROVE  /\ WellTyped(r) /\ Accounted(r, A, R)
             /\ r.live => r.op \in PublicOps
             /\ ~Uploading(r) /\ ~Fetching(r)
  BY DEF Left, Uploading, Fetching, PublicOps
<1>4. Single(t.net)
  BY <1>3 DEF Single
<1>5. \A r \in t.net : RequestOK(r, p, A, R)
  BY <1>3 DEF RequestOK, ForPage, PageOf, PublicOps
<1>6. Numbered(t.net)
  BY DEF Left
<1> QED
  BY <1>2, <1>3, <1>4, <1>5, <1>6 DEF TabOK, u

\* The routes of main.tsx: whatever page is mounted, it is the address's, and
\* each of its first requests is its own.
LEMMA Mounted ==
    ASSUME NEW A, NEW R, NEW t, Left(t, A, R), NEW route \in Routes
    PROVE  TabOK(Mount(t, route), A, R)
<1> USE DEF PublicOps
<1>1. TabOK(SelectorMount([t EXCEPT !.route = Root]), A, R)
  <2> DEFINE p == [at |-> Root, loading |-> TRUE, recs |-> NoRecs, selected |-> None,
                   editing |-> None, deleting |-> None, upload |-> FALSE,
                   uploading |-> FALSE, hidden |-> {}, desc |-> TRUE,
                   tools |-> FALSE, unlocking |-> FALSE]
             u == Opened(t, Root, p)
             v == Send(u, "list", None, "show")
             w == Send(v, "tools", None, None)
  <2>1. NoRecs \in RecLists
    BY DEF NoRecs, RecLists
  <2>2. p \in SelectorPages
    BY <2>1 DEF SelectorPages
  <2>3. p \in PageTypes /\ p.at = Root /\ Root \in Routes /\ PanelOK(p, A, R)
    BY <2>2 DEF PageTypes, PanelOK, Root, Routes
  <2> HIDE DEF p
  <2>4. TabOK(u, A, R) /\ u.page = p
    BY <2>3, FirstPage
  <2>5. SelectorMount([t EXCEPT !.route = Root]) = w
    BY DEF SelectorMount, Get, Opened, p
  <2> HIDE DEF u
  <2>6. Suits(u, A, R, "list", None, "show")
    BY <2>3, <2>4 DEF Suits, Ops, ViewerOps, Args, Thens, PageOf
  <2>7. TabOK(v, A, R) /\ v.page = u.page
    BY <2>6, Asked
  <2> HIDE DEF v
  <2>8. Suits(v, A, R, "tools", None, None)
    BY <2>3, <2>4, <2>7 DEF Suits, Ops, AdminOps, Args, Thens, PageOf
  <2>9. TabOK(w, A, R)
    BY <2>7, <2>8, Asked
  <2> QED
    BY <2>5, <2>9
<1>2. TabOK(AdminMount([t EXCEPT !.route = "/admin"]), A, R)
  <2> DEFINE p == [at |-> "/admin", config |-> FALSE, ready |-> FALSE, had |-> {},
                   list |-> {}, selected |-> {}, hidden |-> {}, single |-> None,
                   bulk |-> FALSE, pasting |-> FALSE]
             u == Opened(t, "/admin", p)
             v == Send(u, "adminconfig", None, None)
             w == Send(v, "allowlist", None, None)
  <2>1. p \in AllowlistPages /\ ~p.ready
    BY DEF AllowlistPages
  <2>2. p \in PageTypes /\ p.at = "/admin" /\ "/admin" \in Routes /\ PanelOK(p, A, R)
    BY <2>1 DEF PageTypes, PanelOK, Routes
  <2> HIDE DEF p
  <2>3. TabOK(u, A, R) /\ u.page = p /\ \A q \in u.net : q.live => q.op \in PublicOps
    BY <2>2, FirstPage
  <2>4. AdminMount([t EXCEPT !.route = "/admin"]) = w
    BY DEF AdminMount, Get, Opened, p
  <2> HIDE DEF u
  <2>5. Suits(u, A, R, "adminconfig", None, None)
    BY <2>2, <2>3 DEF Suits, Ops, AdminOps, Args, Thens, PageOf
  <2>6. /\ TabOK(v, A, R) /\ v.page = u.page
        /\ \A q \in v.net : q \in u.net \/ q.op = "adminconfig"
    BY <2>5, Asked
  <2> HIDE DEF v
  <2>7. \A q \in v.net : ~Fetching(q)
    BY <2>3, <2>6 DEF Fetching
  <2>8. Suits(v, A, R, "allowlist", None, None)
    BY <2>1, <2>2, <2>3, <2>6, <2>7 DEF Suits, Ops, AdminOps, Args, Thens, PageOf
  <2>9. TabOK(w, A, R)
    BY <2>6, <2>8, Asked
  <2> QED
    BY <2>4, <2>9
<1>3. TabOK(MapsMount([t EXCEPT !.route = "/map-manager"]), A, R)
  <2> DEFINE p == [at |-> "/map-manager", loading |-> TRUE, maps |-> {}, hidden |-> {},
                   selected |-> None, import |-> FALSE, zip |-> FALSE, delete |-> FALSE,
                   uploading |-> FALSE, error |-> FALSE]
             u == Opened(t, "/map-manager", p)
             v == Send(u, "mapload", None, None)
  <2>1. p \in MapsPages
    BY DEF MapsPages
  <2>2. p \in PageTypes /\ p.at = "/map-manager" /\ "/map-manager" \in Routes
        /\ PanelOK(p, A, R)
    BY <2>1 DEF PageTypes, PanelOK, Routes
  <2> HIDE DEF p
  <2>3. TabOK(u, A, R) /\ u.page = p
    BY <2>2, FirstPage
  <2>4. MapsMount([t EXCEPT !.route = "/map-manager"]) = v
    BY DEF MapsMount, Get, Opened, p
  <2> HIDE DEF u
  <2>5. Suits(u, A, R, "mapload", None, None)
    BY <2>2, <2>3 DEF Suits, Ops, AdminOps, Args, Thens, PageOf
  <2>6. TabOK(v, A, R)
    BY <2>5, Asked
  <2> QED
    BY <2>4, <2>6
<1>4. TabOK(PlaybackMount([t EXCEPT !.route = "/recording"]), A, R)
  <2> DEFINE p == [at |-> "/recording", loading |-> TRUE]
             u == Opened(t, "/recording", p)
             v == Send(u, "recording", None, None)
  <2>1. p \in PlaybackPages
    BY DEF PlaybackPages
  <2>2. p \in PageTypes /\ p.at = "/recording" /\ "/recording" \in Routes
        /\ PanelOK(p, A, R)
    BY <2>1 DEF PageTypes, PanelOK, Routes
  <2> HIDE DEF p
  <2>3. TabOK(u, A, R) /\ u.page = p
    BY <2>2, FirstPage
  <2>4. PlaybackMount([t EXCEPT !.route = "/recording"]) = v
    BY DEF PlaybackMount, Get, Opened, p
  <2> HIDE DEF u
  <2>5. Suits(u, A, R, "recording", None, None)
    BY <2>2, <2>3 DEF Suits, Ops, ViewerOps, Args, Thens, PageOf
  <2>6. TabOK(v, A, R)
    BY <2>5, Asked
  <2> QED
    BY <2>4, <2>6
<1> HIDE DEF PublicOps
<1> QED
  BY <1>1, <1>2, <1>3, <1>4 DEF Mount

\* A page is left: its requests are answered to nobody.
LEMMA Navigated ==
    ASSUME NEW A, NEW R, NEW t, TabOK(t, A, R), NEW route \in Routes
    PROVE  TabOK(Navigate(t, route), A, R)
<1> DEFINE f == [r \in t.net |-> IF r.op \in PublicOps THEN r ELSE [r EXCEPT !.live = FALSE]]
           net == {f[r] : r \in t.net}
           u == [t EXCEPT !.net = net]
<1>1. t \in Tabs /\ t.net \in SUBSET Requests
  BY DEF TabOK, Tabs
<1>2. ASSUME NEW r \in t.net
      PROVE  /\ f[r] \in Requests /\ f[r].n = r.n
             /\ WellTyped(f[r]) /\ Accounted(f[r], A, R)
             /\ f[r].live => f[r].op \in PublicOps
  <2>1. r \in Requests /\ WellTyped(r) /\ Accounted(r, A, R)
    BY <1>1 DEF TabOK, RequestOK
  <2>2. CASE r.op \in PublicOps
    BY <2>1, <2>2
  <2>3. CASE r.op \notin PublicOps
    <3> DEFINE e == [r EXCEPT !.live = FALSE]
    <3>1. /\ e \in Requests /\ e.n = r.n /\ e.op = r.op /\ e.arg = r.arg /\ e.ans = r.ans
          /\ e.then = r.then /\ e.live = FALSE
      BY <2>1 DEF Requests
    <3>2. f[r] = e
      BY <2>3
    <3> HIDE DEF e, f
    <3>3. WellTyped(e)
      BY <2>1, <3>1 DEF WellTyped, Granted
    <3>4. Accounted(e, A, R)
      BY <2>1, <3>1 DEF Accounted, Granted
    <3> QED
      BY <3>1, <3>2, <3>3, <3>4
  <2> QED
    BY <2>2, <2>3
<1>3. DOMAIN f = t.net
  OBVIOUS
<1>4. u = [t EXCEPT !.net = {IF r.op \in PublicOps THEN r ELSE [r EXCEPT !.live = FALSE] : r \in @}]
  OBVIOUS
<1> HIDE DEF f
<1>5. Numbered(net)
  BY <1>2, <1>3, FiniteImage DEF TabOK, Numbered
<1>6. net \in SUBSET Requests
  BY <1>2
<1> HIDE DEF net
<1>7. u \in Tabs /\ u.net = net
  BY <1>1, <1>6 DEF Tabs
<1>8. Left(u, A, R)
  BY <1>2, <1>5, <1>7 DEF Left, net
<1> QED
  BY <1>4, <1>8, Mounted DEF Navigate

\* The document is loaded again: of the requests those are left that the server
\* may still come to.
LEMMA Reloaded ==
    ASSUME NEW A, NEW R, NEW t, TabOK(t, A, R), NEW params \in Params \cup {None}
    PROVE  TabOK(Reload(t, params), A, R)
<1> DEFINE S == {q \in t.net : q.ans = None /\ q.op \in Writes}
           f == [r \in S |-> [r EXCEPT !.live = FALSE, !.gone = TRUE]]
           net == {f[r] : r \in S}
           orphans == {[r EXCEPT !.live = FALSE, !.gone = TRUE] : r \in S}
           u == [t EXCEPT !.auth = NoAuth, !.params = params, !.net = orphans]
           v == Mount(u, Root)
<1>1. t \in Tabs /\ t.net \in SUBSET Requests
  BY DEF TabOK, Tabs
<1>2. ASSUME NEW r \in S
      PROVE  /\ f[r] \in Requests /\ f[r].n = r.n /\ f[r].live = FALSE
             /\ WellTyped(f[r]) /\ Accounted(f[r], A, R)
  <2> DEFINE e == [r EXCEPT !.live = FALSE, !.gone = TRUE]
  <2>1. r \in Requests /\ WellTyped(r) /\ Accounted(r, A, R)
    BY <1>1 DEF TabOK, RequestOK
  <2>2. /\ e \in Requests /\ e.n = r.n /\ e.op = r.op /\ e.arg = r.arg /\ e.ans = r.ans
        /\ e.then = r.then /\ e.live = FALSE
    BY <2>1 DEF Requests
  <2>3. f[r] = e
    OBVIOUS
  <2> HIDE DEF e, f, S
  <2>4. WellTyped(e)
    BY <2>1, <2>2 DEF WellTyped, Granted
  <2>5. Accounted(e, A, R)
    BY <2>1, <2>2 DEF Accounted, Granted
  <2> QED
    BY <2>2, <2>3, <2>4, <2>5
<1>3. DOMAIN f = S
  OBVIOUS
<1>4. net = orphans
  OBVIOUS
<1> HIDE DEF f
<1>5. IsFiniteSet(S)
  BY FS_Subset DEF TabOK, Numbered
<1>6. \A r, q \in S : r.n = q.n => r = q
  BY DEF TabOK, Numbered
<1> HIDE DEF S
<1>7. Numbered(net)
  <2>1. IsFiniteSet(net)
    BY <1>3, <1>5, FiniteImage
  <2>2. \A r, q \in S : f[r].n = f[q].n => f[r] = f[q]
    <3>1. SUFFICES ASSUME NEW r \in S, NEW q \in S, f[r].n = f[q].n PROVE r = q
      OBVIOUS
    <3>2. f[r].n = r.n /\ f[q].n = q.n
      BY <1>2
    <3> QED
      BY <3>1, <3>2, <1>6
  <2> QED
    BY <2>1, <2>2 DEF Numbered
<1>8. net \in SUBSET Requests
  BY <1>2
<1>9. \A q \in net : WellTyped(q) /\ Accounted(q, A, R) /\ q.live = FALSE
  BY <1>2
<1> HIDE DEF net, orphans
<1>10. NoAuth \in Auths
  BY DEF NoAuth, Auths, Modes
<1>11. u \in Tabs /\ u.net = net
  BY <1>1, <1>4, <1>8, <1>10 DEF Tabs
<1> HIDE DEF u
<1>12. Left(u, A, R)
  BY <1>7, <1>9, <1>11 DEF Left
<1>13. Root \in Routes
  BY DEF Root, Routes
<1>14. TabOK(v, A, R)
  BY <1>12, <1>13, Mounted
<1>15. Reload(t, params) = Send(v, "config", None, None)
  BY DEF Reload, Get, u, orphans, S
<1> HIDE DEF v
<1>16. Suits(v, A, R, "config", None, None)
  BY <1>14 DEF Suits, Ops, PublicOps, Args, Thens, PageOf
<1> QED
  BY <1>15, <1>16, Asked

LEMMA Redirected ==
    ASSUME NEW A, NEW R, NEW t, TabOK(t, A, R)
    PROVE  TabOK(RedirectToLogin(t), A, R)
<1> DEFINE u == [t EXCEPT !.returnTo = t.route]
<1>1. t \in Tabs
  BY DEF TabOK
<1>2. u \in Tabs /\ u.page = t.page /\ u.route = t.route /\ u.net = t.net
  BY <1>1 DEF Tabs
<1> HIDE DEF u
<1>3. TabOK(u, A, R)
  BY <1>2, SameInSession
<1>4. TabOK(Reload(u, None), A, R)
  BY <1>3, Reloaded
<1> QED
  BY <1>4 DEF RedirectToLogin, u

-----------------------------------------------------------------------------
(* The session                                                              *)

\* The selector's effects fetch its list again as the session changes.
LEMMA SessionSet ==
    ASSUME NEW A, NEW R, NEW t, TabOK(t, A, R), NEW yes \in BOOLEAN
    PROVE  TabOK(SetAuthenticated(t, yes), A, R)
<1> DEFINE t1 == [t EXCEPT !.auth.authenticated = yes]
           p == [t1.page EXCEPT !.loading = TRUE]
           u == WithPage(t1, p)
           v == Send(u, "list", None, "show")
           w == Send(v, "tools", None, None)
<1>1. t \in Tabs
  BY DEF TabOK
<1>2. t.auth \in Auths
  BY <1>1 DEF Tabs
<1>3. [t.auth EXCEPT !.authenticated = yes] \in Auths
  BY <1>2 DEF Auths
<1>4. t1 \in Tabs /\ t1.page = t.page /\ t1.route = t.route /\ t1.net = t.net
  BY <1>1, <1>3 DEF Tabs
<1>5. SetAuthenticated(t, yes) = IF t.auth.authenticated = yes \/ t.page.at # Root THEN t1 ELSE w
  BY DEF SetAuthenticated, Get, WithPage
<1> HIDE DEF t1
<1>6. TabOK(t1, A, R)
  BY <1>4, SameInSession
<1>7. ASSUME t.page.at = Root PROVE TabOK(w, A, R)
  <2>1. t1.page \in SelectorPages
    BY <1>4, <1>6, <1>7, Kinds DEF TabOK
  <2>2. p \in SelectorPages /\ p.at = Root /\ p.uploading = t1.page.uploading
    BY <2>1 DEF SelectorPages
  <2> HIDE DEF p
  <2>3. p \in PageTypes /\ p.at = t1.page.at /\ p.at # "/admin"
    BY <1>4, <1>7, <2>2 DEF PageTypes, Root
  <2>4. Keeps(t1, p, A, R)
    BY <1>6, <2>2, <2>3, WriteOther
  <2>5. TabOK(u, A, R) /\ u.page = p
    BY <2>4, WritePage
  <2> HIDE DEF u
  <2>6. Suits(u, A, R, "list", None, "show")
    BY <2>2, <2>5 DEF Suits, Ops, ViewerOps, Args, Thens, PageOf
  <2>7. TabOK(v, A, R) /\ v.page = u.page
    BY <2>6, Asked
  <2> HIDE DEF v
  <2>8. Suits(v, A, R, "tools", None, None)
    BY <2>2, <2>5, <2>7 DEF Suits, Ops, AdminOps, Args, Thens, PageOf
  <2> QED
    BY <2>8, Asked
<1> HIDE DEF w
<1> QED
  BY <1>5, <1>6, <1>7

LEMMA RoleSet ==
    ASSUME NEW A, NEW R, NEW t, TabOK(t, A, R), NEW yes \in BOOLEAN,
           NEW role \in Roles \cup {None}
    PROVE  TabOK(SetAuth(t, yes, role), A, R)
<1> DEFINE u == SetAuthenticated(t, yes)
           v == [u EXCEPT !.auth.role = role]
<1>1. TabOK(u, A, R)
  BY SessionSet
<1>2. SetAuth(t, yes, role) = v
  BY DEF SetAuth
<1> HIDE DEF u
<1>3. u \in Tabs /\ u.auth \in Auths
  BY <1>1 DEF TabOK, Tabs
<1>4. [u.auth EXCEPT !.role = role] \in Auths
  BY <1>3 DEF Auths
<1>5. v \in Tabs /\ v.page = u.page /\ v.route = u.route /\ v.net = u.net
  BY <1>3, <1>4 DEF Tabs
<1> HIDE DEF v
<1> QED
  BY <1>1, <1>2, <1>5, SameInSession

\* useAuth's onMount: the login is taken over and the saved path restored.
LEMMA ConfigAnswered ==
    ASSUME NEW A, NEW R, NEW t, NEW r, Answering(t, r, A, R), r.op = "config"
    PROVE  TabOK(ConfigArrives(t, r), A, R)
<1> DEFINE mode == IF Ok(r) THEN r.ans.data ELSE "public"
           back == t.params # None /\ t.params.token # 0
           error == t.params # None /\ t.params.error
           token == IF back THEN t.params.token ELSE t.token
           path == IF back THEN None ELSE t.returnTo
           t1 == [t EXCEPT !.auth.mode = mode, !.params = None, !.auth.error = error,
                           !.token = token, !.returnTo = path]
           t2 == IF back /\ t.returnTo \notin {None, Root} THEN Navigate(t1, t.returnTo) ELSE t1
<1>1. /\ t \in Tabs /\ TabOK(t, A, R) /\ t.auth \in Auths
      /\ t.params \in Params \cup {None} /\ t.token \in Tokens \cup {0}
      /\ t.returnTo \in Routes \cup {None}
  BY DEF Answering, TabOK, Tabs
<1>2. mode \in Modes
  BY DEF Answering, RequestOK, WellTyped, Granted, Ok, Modes
<1>3. token \in Tokens \cup {0} /\ path \in Routes \cup {None}
  BY <1>1 DEF Params
<1>4. PICK wrong \in BOOLEAN : wrong = error
  BY <1>1 DEF Params
<1>5. [t.auth EXCEPT !.mode = mode, !.error = wrong] \in Auths
  BY <1>1, <1>2 DEF Auths
<1>6. t1 = [t EXCEPT !.auth = [t.auth EXCEPT !.mode = mode, !.error = wrong],
                     !.params = None, !.token = token, !.returnTo = path]
  BY <1>1, <1>4 DEF Tabs
<1>7. ConfigArrives(t, r) = IF t2.token = 0 THEN SetAuthenticated(t2, FALSE)
                            ELSE Send(t2, "me", None, None)
  BY DEF ConfigArrives, Get
<1> HIDE DEF mode, token, path
<1>8. t1 \in Tabs /\ t1.page = t.page /\ t1.route = t.route /\ t1.net = t.net
  BY <1>1, <1>3, <1>5, <1>6 DEF Tabs
<1> HIDE DEF t1
<1>9. TabOK(t1, A, R)
  BY <1>1, <1>8, SameInSession
<1>10. TabOK(t2, A, R)
  BY <1>1, <1>9, Navigated
<1> HIDE DEF t2
<1>11. PICK no \in BOOLEAN : no = FALSE
  OBVIOUS
<1>12. TabOK(SetAuthenticated(t2, no), A, R)
  BY <1>10, SessionSet
<1>13. Suits(t2, A, R, "me", None, None)
  BY <1>10 DEF Suits, Ops, PublicOps, Args, Thens, PageOf
<1>14. TabOK(Send(t2, "me", None, None), A, R)
  BY <1>13, Asked
<1> QED
  BY <1>7, <1>11, <1>12, <1>14

\* The password form is open again.
LEMMA FormFreed ==
    ASSUME NEW A, NEW R, NEW t, TabOK(t, A, R), t.page.at = Root
    PROVE  TabOK([t EXCEPT !.page.unlocking = FALSE], A, R)
<1> DEFINE p == [t.page EXCEPT !.unlocking = FALSE]
<1>1. t.page \in SelectorPages
  BY Kinds DEF TabOK
<1>2. p \in SelectorPages /\ p.at = Root /\ p.uploading = t.page.uploading
  BY <1>1 DEF SelectorPages
<1>3. [t EXCEPT !.page.unlocking = FALSE] = WithPage(t, p)
  BY DEF WithPage
<1> HIDE DEF p
<1>4. Keeps(t, p, A, R)
  BY <1>2, WriteOther DEF PageTypes, Root
<1>5. TabOK(WithPage(t, p), A, R)
  BY <1>4, WritePage
<1> QED
  BY <1>3, <1>5

LEMMA MeAnswered ==
    ASSUME NEW A, NEW R, NEW t, NEW r, Answering(t, r, A, R), r.op = "me"
    PROVE  TabOK(MeArrives(t, r), A, R)
<1> DEFINE me == IF Ok(r) THEN r.ans.data ELSE [authenticated |-> FALSE, role |-> None]
           t1 == SetAuth(t, me.authenticated, me.role)
<1>1. me \in Whos
  BY DEF Answering, RequestOK, WellTyped, Granted, Ok, Whos
<1>2. MeArrives(t, r) = IF r.then = "unlock" /\ t1.page.at = Root
                        THEN [t1 EXCEPT !.page.unlocking = FALSE] ELSE t1
  BY DEF MeArrives
<1> HIDE DEF me
<1>3. me.authenticated \in BOOLEAN /\ me.role \in Roles \cup {None}
  BY <1>1 DEF Whos
<1>4. TabOK(t1, A, R)
  BY <1>3, RoleSet DEF Answering
<1> HIDE DEF t1
<1>5. t1.page.at = Root => TabOK([t1 EXCEPT !.page.unlocking = FALSE], A, R)
  BY <1>4, FormFreed
<1> QED
  BY <1>2, <1>4, <1>5

LEMMA PasswordAnswered ==
    ASSUME NEW A, NEW R, NEW t, NEW r, Answering(t, r, A, R), r.op = "password"
    PROVE  TabOK(PasswordArrives(t, r), A, R)
<1> DEFINE u == [t EXCEPT !.token = r.ans.data]
           t1 == [t EXCEPT !.auth.error = TRUE]
<1>1. t \in Tabs /\ TabOK(t, A, R) /\ t.auth \in Auths
  BY DEF Answering, TabOK, Tabs
<1>2. ASSUME Ok(r) PROVE TabOK(Send(u, "me", None, "unlock"), A, R)
  <2>1. r.ans.data \in Tokens
    BY <1>2 DEF Answering, RequestOK, WellTyped, Granted, Ok
  <2>2. u \in Tabs /\ u.page = t.page /\ u.route = t.route /\ u.net = t.net
    BY <1>1, <2>1 DEF Tabs
  <2> HIDE DEF u
  <2>3. TabOK(u, A, R)
    BY <1>1, <2>2, SameInSession
  <2>4. Suits(u, A, R, "me", None, "unlock")
    BY <2>3 DEF Suits, Ops, PublicOps, Args, Thens, PageOf
  <2> QED
    BY <2>4, Asked
<1>3. [t.auth EXCEPT !.error = TRUE] \in Auths
  BY <1>1 DEF Auths
<1>4. t1 \in Tabs /\ t1.page = t.page /\ t1.route = t.route /\ t1.net = t.net
  BY <1>1, <1>3 DEF Tabs
<1>5. PasswordArrives(t, r) =
         IF Ok(r) THEN Send(u, "me", None, "unlock")
         ELSE IF t.page.at = Root THEN [t1 EXCEPT !.page.unlocking = FALSE] ELSE t1
  BY DEF PasswordArrives
<1> HIDE DEF u, t1
<1>6. TabOK(t1, A, R)
  BY <1>1, <1>4, SameInSession
<1>7. t.page.at = Root => TabOK([t1 EXCEPT !.page.unlocking = FALSE], A, R)
  BY <1>4, <1>6, FormFreed
<1> QED
  BY <1>2, <1>5, <1>6, <1>7

LEMMA LogoutAnswered ==
    ASSUME NEW A, NEW R, NEW t, NEW r, Answering(t, r, A, R)
    PROVE  TabOK(LogoutArrives(t, r), A, R)
<1> DEFINE u == [t EXCEPT !.token = 0]
<1>1. t \in Tabs /\ TabOK(t, A, R)
  BY DEF Answering, TabOK
<1>2. u \in Tabs /\ u.page = t.page /\ u.route = t.route /\ u.net = t.net
  BY <1>1 DEF Tabs
<1>3. LogoutArrives(t, r) = SetAuth(u, FALSE, None)
  BY DEF LogoutArrives
<1> HIDE DEF u
<1>4. TabOK(u, A, R)
  BY <1>1, <1>2, SameInSession
<1>5. PICK no \in BOOLEAN : no = FALSE
  OBVIOUS
<1>6. TabOK(SetAuth(u, no, None), A, R)
  BY <1>4, RoleSet
<1> QED
  BY <1>3, <1>5, <1>6

-----------------------------------------------------------------------------
(* The page of the allowlist                                                *)

\* What a continuation may take for granted.
LEMMA Handled ==
    ASSUME NEW A, NEW R, NEW t, NEW r, Answering(t, r, A, R)
    PROVE  /\ TabOK(t, A, R)
           /\ r.live \in BOOLEAN /\ r.op \in Ops
           /\ r.live => PageOf(r.op, t.page.at)
           /\ t.page \in PageTypes
BY DEF Answering, RequestOK, ForPage, Requests, TabOK

LEMMA AdminConfigAnswered ==
    ASSUME NEW A, NEW R, NEW t, NEW r, Answering(t, r, A, R), r.op = "adminconfig"
    PROVE  TabOK(AdminConfigArrives(t, r), A, R)
<1>1. TabOK(t, A, R) /\ t.page \in PageTypes
  BY Handled
<1>2. PICK well \in BOOLEAN : well = Ok(r)
  BY DEF Ok
<1> DEFINE p == [t.page EXCEPT !.config = well]
<1>3. AdminConfigArrives(t, r) = IF r.live THEN WithPage(t, p) ELSE t
  BY <1>2 DEF AdminConfigArrives, OnPage, WithPage
<1>4. ASSUME r.live PROVE TabOK(WithPage(t, p), A, R)
  <2>1. t.page.at = "/admin"
    BY <1>4, Handled DEF PageOf
  <2>2. t.page \in AllowlistPages
    BY <1>1, <2>1, Kinds
  <2>3. /\ p \in AllowlistPages /\ p.at = "/admin" /\ p.ready = t.page.ready
        /\ p.list = t.page.list /\ p.had = t.page.had /\ p.selected = t.page.selected
    BY <2>2 DEF AllowlistPages
  <2> HIDE DEF p
  <2>4. PanelOK(p, A, R)
    BY <1>1, <2>1, <2>3 DEF PanelOK, TabOK
  <2>5. Keeps(t, p, A, R)
    BY <1>1, <2>1, <2>3, <2>4, WritePanel DEF PageTypes
  <2> QED
    BY <2>5, WritePage
<1> HIDE DEF p
<1> QED
  BY <1>1, <1>3, <1>4

LEMMA AllowlistAnswered ==
    ASSUME NEW A, NEW R, NEW t, NEW r, Answering(t, r, A, R), r.op = "allowlist"
    PROVE  TabOK(AllowlistArrives(t, r), A, R)
<1> DEFINE ids == IF Ok(r) THEN r.ans.data ELSE {}
           p == [t.page EXCEPT !.list = ids, !.had = ids, !.ready = TRUE]
<1>1. TabOK(t, A, R) /\ t.page \in PageTypes
  BY Handled
<1>2. AllowlistArrives(t, r) = IF r.live THEN WithPage(t, p) ELSE t
  BY DEF AllowlistArrives, OnPage, WithPage
<1>3. ids \in SUBSET SteamIds
  BY DEF Answering, RequestOK, WellTyped, Granted, Ok
<1> HIDE DEF ids
<1>4. ASSUME r.live PROVE TabOK(WithPage(t, p), A, R)
  <2>1. t.page.at = "/admin"
    BY <1>4, Handled DEF PageOf
  <2>2. t.page \in AllowlistPages
    BY <1>1, <2>1, Kinds
  <2>3. /\ p \in AllowlistPages /\ p.at = "/admin" /\ p.list = ids /\ p.had = ids
        /\ p.selected = t.page.selected
    BY <1>3, <2>2 DEF AllowlistPages
  <2> HIDE DEF p
  <2>4. Fetching(r)
    BY <1>4 DEF Fetching
  <2>5. (\A q \in t.net : ~Fetching(q)) /\ ~t.page.ready
    BY <2>4 DEF Answering, RequestOK, ForPage
  <2>6. t.page.selected = {}
    BY <1>1, <2>1, <2>5 DEF TabOK, PanelOK
  <2>7. PanelOK(p, A, R)
    BY <2>3, <2>6 DEF PanelOK
  <2>8. Keeps(t, p, A, R)
    BY <1>1, <2>1, <2>3, <2>5, <2>7, WritePanel DEF PageTypes
  <2> QED
    BY <2>8, WritePage
<1> HIDE DEF p
<1> QED
  BY <1>1, <1>2, <1>4

\* Rows the server has added join the list.
LEMMA RowsJoin ==
    ASSUME NEW A, NEW R, NEW t, TabOK(t, A, R), t.page.at = "/admin",
           NEW ids \in SUBSET SteamIds, ids \subseteq A
    PROVE  TabOK([t EXCEPT !.page.list = @ \cup ids], A, R)
<1> DEFINE p == [t.page EXCEPT !.list = @ \cup ids]
           u == [t EXCEPT !.page.list = @ \cup ids]
<1>1. t.page \in AllowlistPages
  BY Kinds DEF TabOK
<1>2. /\ p \in AllowlistPages /\ p.at = "/admin" /\ p.ready = t.page.ready
      /\ p.list = t.page.list \cup ids /\ p.had = t.page.had
      /\ p.selected = t.page.selected
  BY <1>1 DEF AllowlistPages
<1>3. u = WithPage(t, p)
  BY DEF WithPage
<1> HIDE DEF p, u
<1>4. PanelOK(p, A, R)
  BY <1>2 DEF PanelOK, TabOK
<1>5. Keeps(t, p, A, R)
  BY <1>2, <1>4, WritePanel DEF PageTypes
<1>6. TabOK(WithPage(t, p), A, R)
  BY <1>5, WritePage
<1> QED
  BY <1>3, <1>6 DEF u

\* Rows the server has removed leave the list and the selection.
LEMMA RowsLeave ==
    ASSUME NEW A, NEW R, NEW t, TabOK(t, A, R), t.page.at = "/admin",
           NEW ids, ids \subseteq R
    PROVE  TabOK([t EXCEPT !.page.list = @ \ ids, !.page.selected = @ \ ids], A, R)
<1> DEFINE p == [t.page EXCEPT !.list = @ \ ids, !.selected = @ \ ids]
           u == [t EXCEPT !.page.list = @ \ ids, !.page.selected = @ \ ids]
<1>1. t.page \in AllowlistPages /\ t \in Tabs
  BY Kinds DEF TabOK
<1>2. /\ p \in AllowlistPages /\ p.at = "/admin" /\ p.ready = t.page.ready
      /\ p.list = t.page.list \ ids /\ p.had = t.page.had
      /\ p.selected = t.page.selected \ ids
  BY <1>1 DEF AllowlistPages
<1>3. u = WithPage(t, p)
  BY <1>1 DEF WithPage, Tabs, AllowlistPages
<1> HIDE DEF p, u
<1>4. PanelOK(p, A, R)
  BY <1>2 DEF PanelOK, TabOK
<1>5. Keeps(t, p, A, R)
  BY <1>2, <1>4, WritePanel DEF PageTypes
<1>6. TabOK(WithPage(t, p), A, R)
  BY <1>5, WritePage
<1> QED
  BY <1>3, <1>6 DEF u

\* The loop of handleBulkAdd, wherever it is.
LEMMA AddLoop ==
    ASSUME NEW A, NEW R, NEW t, TabOK(t, A, R), NEW live \in BOOLEAN,
           live => t.page.at = "/admin",
           NEW ids \in Seq(SteamIds), NEW done \in SUBSET SteamIds, done \subseteq A
    PROVE  TabOK(AddFrom(t, live, ids, done), A, R)
<1> DEFINE then == [ids |-> Tail(ids), done |-> done]
           u == [t EXCEPT !.page.list = @ \cup done]
           v == SendFor(t, live, "add", Head(ids), then)
<1>1. AddFrom(t, live, ids, done) = IF ids = <<>> THEN (IF live THEN u ELSE t) ELSE v
  BY DEF AddFrom
<1>2. live => TabOK(u, A, R)
  BY RowsJoin
<1>3. ASSUME ids # <<>> PROVE TabOK(v, A, R)
  <2>1. Head(ids) \in SteamIds /\ then \in Loops /\ then.done = done
    BY <1>3 DEF Loops
  <2> HIDE DEF then
  <2>2. Fits(t, A, R, live, "add", Head(ids), then)
    BY <2>1 DEF Fits, Ops, AdminOps, Args, Thens, PageOf
  <2> QED
    BY <2>2, Sent
<1> HIDE DEF u, v
<1> QED
  BY <1>1, <1>2, <1>3

\* The loop of confirmRemoveBulk, wherever it is.
LEMMA RemoveLoop ==
    ASSUME NEW A, NEW R, NEW t, TabOK(t, A, R), NEW live \in BOOLEAN,
           live => t.page.at = "/admin",
           NEW ids \in Seq(SteamIds), NEW done \in SUBSET SteamIds, done \subseteq R
    PROVE  TabOK(RemoveFrom(t, live, ids, done), A, R)
<1> DEFINE then == [ids |-> Tail(ids), done |-> done]
           u == [t EXCEPT !.page.list = @ \ done, !.page.selected = @ \ done]
           v == SendFor(t, live, "remove", Head(ids), then)
<1>1. RemoveFrom(t, live, ids, done) = IF ids = <<>> THEN (IF ~live THEN t ELSE u) ELSE v
  BY DEF RemoveFrom
<1>2. live => TabOK(u, A, R)
  BY RowsLeave
<1>3. ASSUME ids # <<>> PROVE TabOK(v, A, R)
  <2>1. Head(ids) \in SteamIds /\ then \in Loops /\ then.done = done
    BY <1>3 DEF Loops
  <2> HIDE DEF then
  <2>2. Fits(t, A, R, live, "remove", Head(ids), then)
    BY <2>1 DEF Fits, Ops, AdminOps, Args, Thens, PageOf
  <2> QED
    BY <2>2, Sent
<1> HIDE DEF u, v
<1> QED
  BY <1>1, <1>2, <1>3

LEMMA AdminAnswered ==
    ASSUME NEW A, NEW R, NEW t, NEW r, Answering(t, r, A, R),
           r.op \in {"adminconfig", "allowlist", "add", "remove"}
    PROVE  TabOK(AdminAnswer(t, r), A, R)
<1>1. /\ TabOK(t, A, R) /\ r.live \in BOOLEAN
      /\ r.live => t.page.at = "/admin"
  BY Handled DEF PageOf
<1>2. CASE r.op = "adminconfig"
  BY <1>2, AdminConfigAnswered DEF AdminAnswer
<1>3. CASE r.op = "allowlist"
  BY <1>3, AllowlistAnswered DEF AdminAnswer
<1>4. CASE r.op = "add"
  <2>1. /\ r.arg \in SteamIds /\ (r.then = None \/ r.then \in Loops)
        /\ Ok(r) => r.arg \in A
        /\ r.then # None => r.then.done \subseteq A
    BY <1>4 DEF Answering, RequestOK, WellTyped, Accounted, Granted, Ok
  <2>2. CASE r.then = None
    <3>1. AdminAnswer(t, r) = IF Ok(r) /\ r.live THEN [t EXCEPT !.page.list = @ \cup {r.arg}] ELSE t
      BY <1>4, <2>2 DEF AdminAnswer, AddArrives
    <3>2. Ok(r) /\ r.live => TabOK([t EXCEPT !.page.list = @ \cup {r.arg}], A, R)
      BY <1>1, <2>1, RowsJoin
    <3> QED
      BY <1>1, <3>1, <3>2
  <2>3. CASE r.then # None
    <3>1. AdminAnswer(t, r) = AddFrom(t, r.live, r.then.ids, Done(r))
      BY <1>4, <2>3 DEF AdminAnswer
    <3>2. /\ r.then.ids \in Seq(SteamIds)
          /\ Done(r) \in SUBSET SteamIds /\ Done(r) \subseteq A
      BY <2>1, <2>3 DEF Done, Loops
    <3> QED
      BY <1>1, <3>1, <3>2, AddLoop
  <2> QED
    BY <2>2, <2>3
<1>5. CASE r.op = "remove"
  <2>1. /\ r.arg \in SteamIds /\ (r.then = None \/ r.then \in Loops)
        /\ Ok(r) => r.arg \in R
        /\ r.then # None => r.then.done \subseteq R
    BY <1>5 DEF Answering, RequestOK, WellTyped, Accounted, Granted, Ok
  <2>2. CASE r.then = None
    <3> DEFINE u == [t EXCEPT !.page.list = @ \ {r.arg}, !.page.selected = @ \ {r.arg}]
    <3>1. AdminAnswer(t, r) = IF Ok(r) /\ r.live THEN u ELSE t
      BY <1>5, <2>2 DEF AdminAnswer, RemoveArrives
    <3>2. Ok(r) /\ r.live => TabOK(u, A, R)
      BY <1>1, <2>1, RowsLeave
    <3> HIDE DEF u
    <3> QED
      BY <1>1, <3>1, <3>2
  <2>3. CASE r.then # None
    <3>1. AdminAnswer(t, r) = RemoveFrom(t, r.live, r.then.ids, Done(r))
      BY <1>5, <2>3 DEF AdminAnswer
    <3>2. /\ r.then.ids \in Seq(SteamIds)
          /\ Done(r) \in SUBSET SteamIds /\ Done(r) \subseteq R
      BY <2>1, <2>3 DEF Done, Loops
    <3> QED
      BY <1>1, <3>1, <3>2, RemoveLoop
  <2> QED
    BY <2>2, <2>3
<1> QED
  BY <1>2, <1>3, <1>4, <1>5

-----------------------------------------------------------------------------
(* The root page                                                            *)

\* Whatever else is written on the root page: it shows what it shows, but a
\* page that awaits an upload says so.
LEMMA WriteSelector ==
    ASSUME NEW A, NEW R, NEW t, TabOK(t, A, R), t.page.at = Root,
           NEW p \in SelectorPages,
           \/ \A q \in t.net : ~Uploading(q)
           \/ p.uploading = t.page.uploading
    PROVE  TabOK(WithPage(t, p), A, R)
<1>1. p.at = Root
  BY DEF SelectorPages
<1>2. Keeps(t, p, A, R)
  BY <1>1, WriteOther DEF PageTypes, Root
<1> QED
  BY <1>2, WritePage

LEMMA ListAnswered ==
    ASSUME NEW A, NEW R, NEW t, NEW r, Answering(t, r, A, R), r.op = "list"
    PROVE  TabOK(ListArrives(t, r), A, R)
<1> DEFINE recs == IF Ok(r) THEN r.ans.data ELSE IF r.then = "show" THEN NoRecs ELSE t.page.recs
           loading == IF r.then = "show" THEN FALSE ELSE t.page.loading
           uploading == IF r.then = "uploaded" THEN FALSE ELSE t.page.uploading
           p == [t.page EXCEPT !.recs = recs, !.loading = loading, !.uploading = uploading]
<1>1. TabOK(t, A, R) /\ t.page \in PageTypes
  BY Handled
<1>2. ASSUME r.live PROVE ListArrives(t, r) = WithPage(t, p) /\ TabOK(WithPage(t, p), A, R)
  <2>1. t.page.at = Root
    BY <1>2, Handled DEF PageOf
  <2>2. t.page \in SelectorPages
    BY <1>1, <2>1, Kinds
  <2>3. ListArrives(t, r) = WithPage(t, p)
    BY <1>2, <2>2 DEF ListArrives, WithPage, SelectorPages
  <2>4. recs \in RecLists
    <3>1. NoRecs \in RecLists
      BY DEF NoRecs, RecLists
    <3>2. Ok(r) => r.ans.data \in RecLists
      BY DEF Answering, RequestOK, WellTyped, Granted, Ok
    <3>3. t.page.recs \in RecLists
      BY <2>2 DEF SelectorPages
    <3> QED
      BY <3>1, <3>2, <3>3
  <2>5. loading \in BOOLEAN /\ uploading \in BOOLEAN
    BY <2>2 DEF SelectorPages
  <2>6. r.then = "uploaded" => \A q \in t.net : ~Uploading(q)
    BY <1>2 DEF Answering, Uploading
  <2>7. r.then # "uploaded" => uploading = t.page.uploading
    OBVIOUS
  <2> HIDE DEF recs, loading, uploading
  <2>8. p \in SelectorPages /\ p.uploading = uploading
    BY <2>2, <2>4, <2>5 DEF SelectorPages
  <2> HIDE DEF p
  <2>9. TabOK(WithPage(t, p), A, R)
    BY <1>1, <2>1, <2>6, <2>7, <2>8, WriteSelector
  <2> QED
    BY <2>3, <2>9
<1>3. ~r.live => ListArrives(t, r) = t
  BY DEF ListArrives
<1> HIDE DEF p
<1> QED
  BY <1>1, <1>2, <1>3

LEMMA ToolsAnswered ==
    ASSUME NEW A, NEW R, NEW t, NEW r, Answering(t, r, A, R), r.op = "tools"
    PROVE  TabOK(ToolsArrive(t, r), A, R)
<1>1. TabOK(t, A, R) /\ t.page \in PageTypes
  BY Handled
<1>2. PICK well \in BOOLEAN : well = Ok(r)
  BY DEF Ok
<1> DEFINE p == [t.page EXCEPT !.tools = well]
<1>3. ToolsArrive(t, r) = IF r.live THEN WithPage(t, p) ELSE t
  BY <1>2 DEF ToolsArrive, WithPage
<1>4. ASSUME r.live PROVE TabOK(WithPage(t, p), A, R)
  <2>1. t.page.at = Root
    BY <1>4, Handled DEF PageOf
  <2>2. t.page \in SelectorPages
    BY <1>1, <2>1, Kinds
  <2>3. p \in SelectorPages /\ p.uploading = t.page.uploading
    BY <2>2 DEF SelectorPages
  <2> HIDE DEF p
  <2> QED
    BY <1>1, <2>1, <2>3, WriteSelector
<1> HIDE DEF p
<1> QED
  BY <1>1, <1>3, <1>4

\* refreshRecordings behind a write, from a tab u whose dialog is closed by now.
LEMMA Refreshed ==
    ASSUME NEW A, NEW R, NEW t, NEW r, Answering(t, r, A, R),
           r.op \in {"edit", "delete", "retry", "upload"},
           NEW u, TabOK(u, A, R), u.net = t.net, u.page.at = t.page.at,
           NEW then, then = IF r.op = "upload" THEN "uploaded" ELSE "refresh",
           r.live /\ r.op = "upload" => u.page.uploading
    PROVE  TabOK(Refresh(u, r, then), A, R)
<1>1. /\ r.live \in BOOLEAN
      /\ r.live => u.page.at = Root
  BY Handled DEF PageOf
<1>2. r.live /\ r.op = "upload" => \A q \in u.net : ~Uploading(q)
  BY DEF Answering, Uploading
<1>3. then \in {"refresh", "uploaded"} /\ (then = "uploaded" => r.op = "upload")
  OBVIOUS
<1>4. Fits(u, A, R, r.live, "list", None, then)
  BY <1>1, <1>2, <1>3 DEF Fits, Ops, ViewerOps, Args, Thens, PageOf
<1>5. TabOK(SendFor(u, r.live, "list", None, then), A, R)
  BY <1>4, Sent
<1> QED
  BY <1>5 DEF Refresh

\* A dialog closes before the refresh.
LEMMA DialogCloses ==
    ASSUME NEW A, NEW R, NEW t, NEW r, Answering(t, r, A, R),
           r.op \in {"edit", "delete", "retry", "upload"},
           NEW p, r.live => p \in SelectorPages /\ p.uploading = t.page.uploading,
           NEW then, then = IF r.op = "upload" THEN "uploaded" ELSE "refresh"
    PROVE  TabOK(Refresh(IF r.live THEN WithPage(t, p) ELSE t, r, then), A, R)
<1> DEFINE u == IF r.live THEN WithPage(t, p) ELSE t
<1>1. TabOK(t, A, R) /\ (r.live => t.page.at = Root)
  BY Handled DEF PageOf
<1>2. ASSUME r.live
      PROVE  /\ TabOK(WithPage(t, p), A, R)
             /\ WithPage(t, p).page = p /\ WithPage(t, p).net = t.net
             /\ p.at = t.page.at
  <2>1. p \in PageTypes /\ p.at = t.page.at /\ p.at # "/admin"
    BY <1>1, <1>2 DEF PageTypes, SelectorPages, Root
  <2>2. Keeps(t, p, A, R)
    BY <1>1, <1>2, <2>1, WriteOther
  <2> QED
    BY <2>1, <2>2, WritePage
<1>3. TabOK(u, A, R) /\ u.net = t.net /\ u.page.at = t.page.at
  BY <1>1, <1>2
<1>4. r.live /\ r.op = "upload" => t.page.uploading
  BY DEF Answering, RequestOK, ForPage, Uploading
<1>5. r.live /\ r.op = "upload" => u.page.uploading
  BY <1>2, <1>4
<1> HIDE DEF u
<1>6. TabOK(Refresh(u, r, then), A, R)
  BY <1>3, <1>5, Refreshed
<1> QED
  BY <1>6 DEF u

LEMMA SelectorAnswered ==
    ASSUME NEW A, NEW R, NEW t, NEW r, Answering(t, r, A, R),
           r.op \in {"list", "tools", "edit", "delete", "retry", "upload"}
    PROVE  TabOK(SelectorAnswer(t, r), A, R)
<1>1. /\ TabOK(t, A, R) /\ t.page \in PageTypes
      /\ r.live => t.page.at = Root
  BY Handled DEF PageOf
<1>2. r.live => t.page \in SelectorPages
  BY <1>1, Kinds
<1>3. CASE r.op = "list"
  BY <1>3, ListAnswered DEF SelectorAnswer
<1>4. CASE r.op = "tools"
  BY <1>4, ToolsAnswered DEF SelectorAnswer
<1>5. CASE r.op = "edit"
  <2> DEFINE p == [t.page EXCEPT !.editing = None]
             u == Refresh(IF r.live THEN WithPage(t, p) ELSE t, r, "refresh")
  <2>1. SelectorAnswer(t, r) = IF ~Ok(r) THEN t ELSE u
    BY <1>5 DEF SelectorAnswer, EditArrives, WithPage
  <2>2. r.live => p \in SelectorPages /\ p.uploading = t.page.uploading
    BY <1>2 DEF SelectorPages
  <2> HIDE DEF p
  <2>3. TabOK(u, A, R)
    BY <1>5, <2>2, DialogCloses
  <2> HIDE DEF u
  <2> QED
    BY <1>1, <2>1, <2>3
<1>6. CASE r.op = "delete"
  <2> DEFINE p == [t.page EXCEPT !.deleting = None, !.selected = None]
             u == Refresh(IF r.live THEN WithPage(t, p) ELSE t, r, "refresh")
  <2>1. /\ r.live => [t EXCEPT !.page.deleting = None, !.page.selected = None] = WithPage(t, p)
        /\ r.live => p \in SelectorPages /\ p.uploading = t.page.uploading
    BY <1>1, <1>2 DEF WithPage, TabOK, Tabs, SelectorPages
  <2>2. SelectorAnswer(t, r) = IF ~Ok(r) THEN t ELSE u
    BY <1>6, <2>1 DEF SelectorAnswer, DeleteArrives
  <2> HIDE DEF p
  <2>3. TabOK(u, A, R)
    BY <1>6, <2>1, DialogCloses
  <2> HIDE DEF u
  <2> QED
    BY <1>1, <2>2, <2>3
<1>7. CASE r.op = "retry"
  <2>1. SelectorAnswer(t, r) = IF Ok(r) THEN Refresh(t, r, "refresh") ELSE t
    BY <1>7 DEF SelectorAnswer, RetryArrives
  <2>2. TabOK(Refresh(t, r, "refresh"), A, R)
    BY <1>1, <1>7, Refreshed
  <2> QED
    BY <1>1, <2>1, <2>2
<1>8. CASE r.op = "upload"
  <2> DEFINE p == [t.page EXCEPT !.upload = FALSE]
             q == [t.page EXCEPT !.uploading = FALSE]
             u == Refresh(IF r.live THEN WithPage(t, p) ELSE t, r, "uploaded")
  <2>1. SelectorAnswer(t, r) =
           IF ~Ok(r) THEN IF r.live THEN WithPage(t, q) ELSE t ELSE u
    BY <1>8 DEF SelectorAnswer, UploadArrives, WithPage
  <2>2. r.live => p \in SelectorPages /\ p.uploading = t.page.uploading
    BY <1>2 DEF SelectorPages
  <2>3. r.live => q \in SelectorPages
    BY <1>2 DEF SelectorPages
  <2> HIDE DEF p, q
  <2>4. TabOK(u, A, R)
    BY <1>8, <2>2, DialogCloses
  <2>5. r.live => \A e \in t.net : ~Uploading(e)
    BY <1>8 DEF Answering, Uploading
  <2>6. r.live => TabOK(WithPage(t, q), A, R)
    BY <1>1, <2>3, <2>5, WriteSelector
  <2> HIDE DEF u
  <2> QED
    BY <1>1, <2>1, <2>4, <2>6
<1> QED
  BY <1>3, <1>4, <1>5, <1>6, <1>7, <1>8

-----------------------------------------------------------------------------
(* The map manager and the playback                                         *)

LEMMA WriteMaps ==
    ASSUME NEW A, NEW R, NEW t, TabOK(t, A, R), t.page.at = "/map-manager",
           NEW p \in MapsPages,
           \/ \A q \in t.net : ~Uploading(q)
           \/ p.uploading = t.page.uploading
    PROVE  TabOK(WithPage(t, p), A, R)
<1>1. p.at = "/map-manager"
  BY DEF MapsPages
<1>2. Keeps(t, p, A, R)
  BY <1>1, WriteOther DEF PageTypes
<1> QED
  BY <1>2, WritePage

LEMMA MapLoadAnswered ==
    ASSUME NEW A, NEW R, NEW t, NEW r, Answering(t, r, A, R), r.op = "mapload"
    PROVE  TabOK(MapLoadArrives(t, r), A, R)
<1> DEFINE p == [t.page EXCEPT !.maps = r.ans.data, !.loading = FALSE]
<1>1. TabOK(t, A, R) /\ t.page \in PageTypes
  BY Handled
<1>2. TabOK(Navigate(t, Root), A, R)
  BY <1>1, Navigated DEF Root, Routes
<1>3. ASSUME r.live, Ok(r)
      PROVE  MapLoadArrives(t, r) = WithPage(t, p) /\ TabOK(WithPage(t, p), A, R)
  <2>1. t.page.at = "/map-manager"
    BY <1>3, Handled DEF PageOf
  <2>2. t.page \in MapsPages /\ t \in Tabs
    BY <1>1, <2>1, Kinds DEF TabOK
  <2>3. r.ans.data \in SUBSET MapIds
    BY <1>3 DEF Answering, RequestOK, WellTyped, Granted, Ok
  <2>4. p \in MapsPages /\ p.uploading = t.page.uploading
    BY <2>2, <2>3 DEF MapsPages
  <2>5. MapLoadArrives(t, r) = WithPage(t, p)
    BY <1>3, <2>2 DEF MapLoadArrives, WithPage, Tabs, MapsPages
  <2> HIDE DEF p
  <2>6. TabOK(WithPage(t, p), A, R)
    BY <1>1, <2>1, <2>4, WriteMaps
  <2> QED
    BY <2>5, <2>6
<1>4. ~Ok(r) => MapLoadArrives(t, r) = Navigate(t, Root)
  BY DEF MapLoadArrives
<1>5. Ok(r) /\ ~r.live => MapLoadArrives(t, r) = t
  BY DEF MapLoadArrives
<1> HIDE DEF p
<1> QED
  BY <1>1, <1>2, <1>3, <1>4, <1>5

LEMMA MapsListAnswered ==
    ASSUME NEW A, NEW R, NEW t, NEW r, Answering(t, r, A, R), r.op = "maps"
    PROVE  TabOK(MapsArrive(t, r), A, R)
<1> DEFINE p == [t.page EXCEPT !.maps = r.ans.data]
<1>1. TabOK(t, A, R) /\ t.page \in PageTypes
  BY Handled
<1>2. MapsArrive(t, r) = IF Ok(r) /\ r.live THEN WithPage(t, p) ELSE t
  BY DEF MapsArrive, WithPage
<1>3. ASSUME r.live, Ok(r) PROVE TabOK(WithPage(t, p), A, R)
  <2>1. t.page.at = "/map-manager"
    BY <1>3, Handled DEF PageOf
  <2>2. t.page \in MapsPages
    BY <1>1, <2>1, Kinds
  <2>3. r.ans.data \in SUBSET MapIds
    BY <1>3 DEF Answering, RequestOK, WellTyped, Granted, Ok
  <2>4. p \in MapsPages /\ p.uploading = t.page.uploading
    BY <2>2, <2>3 DEF MapsPages
  <2> HIDE DEF p
  <2> QED
    BY <1>1, <2>1, <2>4, WriteMaps
<1> HIDE DEF p
<1> QED
  BY <1>1, <1>2, <1>3

LEMMA ImportAnswered ==
    ASSUME NEW A, NEW R, NEW t, NEW r, Answering(t, r, A, R), r.op = "import"
    PROVE  TabOK(ImportArrives(t, r), A, R)
<1>1. TabOK(t, A, R) /\ t.page \in PageTypes
  BY Handled
<1>2. PICK failed \in BOOLEAN : failed = ~Ok(r)
  BY DEF Ok
<1> DEFINE import == IF Ok(r) THEN FALSE ELSE t.page.import
           zip == IF Ok(r) THEN FALSE ELSE t.page.zip
           p == [t.page EXCEPT !.uploading = FALSE, !.import = import, !.zip = zip,
                               !.error = failed]
<1>3. ASSUME r.live PROVE ImportArrives(t, r) = WithPage(t, p) /\ TabOK(WithPage(t, p), A, R)
  <2>1. t.page.at = "/map-manager"
    BY <1>3, Handled DEF PageOf
  <2>2. t.page \in MapsPages
    BY <1>1, <2>1, Kinds
  <2>3. ImportArrives(t, r) = WithPage(t, p)
    BY <1>2, <1>3, <2>2 DEF ImportArrives, WithPage, MapsPages
  <2>4. import \in BOOLEAN /\ zip \in BOOLEAN
    BY <2>2 DEF MapsPages
  <2> HIDE DEF import, zip
  <2>5. p \in MapsPages
    BY <2>2, <2>4 DEF MapsPages
  <2> HIDE DEF p
  <2>6. \A q \in t.net : ~Uploading(q)
    BY <1>3 DEF Answering, Uploading
  <2>7. TabOK(WithPage(t, p), A, R)
    BY <1>1, <2>1, <2>5, <2>6, WriteMaps
  <2> QED
    BY <2>3, <2>7
<1>4. ~r.live => ImportArrives(t, r) = t
  BY DEF ImportArrives
<1> HIDE DEF p
<1> QED
  BY <1>1, <1>3, <1>4

LEMMA MapDeleteAnswered ==
    ASSUME NEW A, NEW R, NEW t, NEW r, Answering(t, r, A, R), r.op = "mapdelete"
    PROVE  TabOK(MapDeleteArrives(t, r), A, R)
<1> DEFINE p == [t.page EXCEPT !.selected = None, !.delete = FALSE]
           u == IF r.live THEN WithPage(t, p) ELSE t
           v == SendFor(u, r.live, "maps", None, None)
<1>1. /\ TabOK(t, A, R) /\ t.page \in PageTypes /\ t \in Tabs /\ r.live \in BOOLEAN
      /\ r.live => t.page.at = "/map-manager"
  BY Handled DEF PageOf, TabOK
<1>2. r.live => t.page \in MapsPages
  BY <1>1, Kinds
<1>3. r.live => p \in MapsPages /\ p.uploading = t.page.uploading
  BY <1>2 DEF MapsPages
<1>4. r.live => [t EXCEPT !.page.selected = None, !.page.delete = FALSE] = WithPage(t, p)
  BY <1>1, <1>2 DEF WithPage, Tabs, MapsPages
<1>5. MapDeleteArrives(t, r) = IF ~Ok(r) THEN t ELSE v
  BY <1>4 DEF MapDeleteArrives
<1> HIDE DEF p
<1>6. ASSUME r.live
      PROVE  TabOK(WithPage(t, p), A, R) /\ WithPage(t, p).page.at = "/map-manager"
  <2>1. p \in PageTypes /\ p.at = t.page.at /\ p.at # "/admin"
    BY <1>1, <1>3, <1>6 DEF PageTypes, MapsPages
  <2>2. Keeps(t, p, A, R)
    BY <1>1, <1>3, <1>6, <2>1, WriteOther
  <2> QED
    BY <1>1, <1>6, <2>1, <2>2, WritePage
<1>7. TabOK(u, A, R) /\ (r.live => u.page.at = "/map-manager")
  BY <1>1, <1>6
<1> HIDE DEF u
<1>8. Fits(u, A, R, r.live, "maps", None, None)
  BY <1>1, <1>7 DEF Fits, Ops, AdminOps, Args, Thens, PageOf
<1>9. TabOK(v, A, R)
  BY <1>8, Sent
<1> HIDE DEF v
<1> QED
  BY <1>1, <1>5, <1>9

LEMMA MapsAnswered ==
    ASSUME NEW A, NEW R, NEW t, NEW r, Answering(t, r, A, R),
           r.op \in {"mapload", "maps", "import", "mapdelete", "restyle"}
    PROVE  TabOK(MapsAnswer(t, r), A, R)
<1>1. TabOK(t, A, R)
  BY Handled
<1>2. CASE r.op = "mapload"
  BY <1>2, MapLoadAnswered DEF MapsAnswer
<1>3. CASE r.op = "maps"
  BY <1>3, MapsListAnswered DEF MapsAnswer
<1>4. CASE r.op = "import"
  BY <1>4, ImportAnswered DEF MapsAnswer
<1>5. CASE r.op = "mapdelete"
  BY <1>5, MapDeleteAnswered DEF MapsAnswer
<1>6. CASE r.op = "restyle"
  BY <1>1, <1>6 DEF MapsAnswer
<1> QED
  BY <1>2, <1>3, <1>4, <1>5, <1>6

\* The three reads of the playback, one behind the other.
LEMMA PlaybackAnswered ==
    ASSUME NEW A, NEW R, NEW t, NEW r, Answering(t, r, A, R),
           r.op \in {"recording", "data", "blacklist"}
    PROVE  TabOK(PlaybackAnswer(t, r), A, R)
<1> DEFINE p == [t.page EXCEPT !.loading = FALSE]
           next == IF r.op = "recording" THEN "data" ELSE "blacklist"
           v == SendFor(t, r.live, next, None, None)
<1>1. /\ TabOK(t, A, R) /\ t.page \in PageTypes /\ r.live \in BOOLEAN
      /\ r.live => t.page.at = "/recording"
  BY Handled DEF PageOf
<1>2. PlaybackAnswer(t, r) =
         IF Ok(r) /\ r.op \in {"recording", "data"} THEN v
         ELSE IF r.live THEN WithPage(t, p) ELSE t
  BY DEF PlaybackAnswer, WithPage
<1>3. next \in {"data", "blacklist"}
  OBVIOUS
<1> HIDE DEF next
<1>4. Fits(t, A, R, r.live, next, None, None)
  BY <1>1, <1>3 DEF Fits, Ops, ViewerOps, Args, Thens, PageOf
<1>5. TabOK(v, A, R)
  BY <1>4, Sent
<1>6. ASSUME r.live PROVE TabOK(WithPage(t, p), A, R)
  <2>1. t.page \in PlaybackPages
    BY <1>1, <1>6, Kinds
  <2>2. p \in PlaybackPages /\ p.at = "/recording"
    BY <2>1 DEF PlaybackPages
  <2> HIDE DEF p
  <2>3. \A q \in t.net : ~Uploading(q)
    BY <1>1, <1>6 DEF TabOK, RequestOK, ForPage, PageOf, Uploading, Root
  <2>4. Keeps(t, p, A, R)
    BY <1>1, <1>6, <2>2, <2>3, WriteOther DEF PageTypes
  <2> QED
    BY <2>4, WritePage
<1> HIDE DEF v, p
<1> QED
  BY <1>1, <1>2, <1>5, <1>6

-----------------------------------------------------------------------------
(* The steps of the network                                                 *)

LEMMA AnswerHandled ==
    ASSUME NEW A, NEW R, NEW t, NEW r, Answering(t, r, A, R)
    PROVE  TabOK(AnswerIn(t, r), A, R)
<1>1. TabOK(t, A, R) /\ r.op \in Ops
  BY Handled
<1>3. ASSUME r.op = "config" PROVE TabOK(AnswerIn(t, r), A, R)
  BY <1>3, ConfigAnswered DEF AnswerIn
<1>4. ASSUME r.op = "me" PROVE TabOK(AnswerIn(t, r), A, R)
  BY <1>4, MeAnswered DEF AnswerIn
<1>5. ASSUME r.op = "password" PROVE TabOK(AnswerIn(t, r), A, R)
  BY <1>5, PasswordAnswered DEF AnswerIn
<1>6. ASSUME r.op = "logout" PROVE TabOK(AnswerIn(t, r), A, R)
  BY <1>6, LogoutAnswered DEF AnswerIn
<1>7. ASSUME r.op \in {"recording", "data", "blacklist"}
      PROVE  TabOK(AnswerIn(t, r), A, R)
  <2>1. AnswerIn(t, r) = PlaybackAnswer(t, r)
    BY <1>7 DEF AnswerIn
  <2> QED
    BY <1>7, <2>1, PlaybackAnswered
<1>8. ASSUME r.op \in {"list", "tools", "edit", "delete", "retry", "upload"}
      PROVE  TabOK(AnswerIn(t, r), A, R)
  <2>1. AnswerIn(t, r) = SelectorAnswer(t, r)
    BY <1>8 DEF AnswerIn
  <2> QED
    BY <1>8, <2>1, SelectorAnswered
<1>9. ASSUME r.op \in {"adminconfig", "allowlist", "add", "remove"}
      PROVE  TabOK(AnswerIn(t, r), A, R)
  <2>1. AnswerIn(t, r) = AdminAnswer(t, r)
    BY <1>9 DEF AnswerIn
  <2> QED
    BY <1>9, <2>1, AdminAnswered
<1>10. ASSUME r.op \in {"mapload", "maps", "import", "mapdelete", "restyle"}
       PROVE  TabOK(AnswerIn(t, r), A, R)
  <2>1. AnswerIn(t, r) = MapsAnswer(t, r)
    BY <1>10 DEF AnswerIn
  <2> QED
    BY <1>10, <2>1, MapsAnswered
<1>11. \/ r.op \in {"config", "me", "password", "logout"}
       \/ r.op \in {"recording", "data", "blacklist"}
       \/ r.op \in {"list", "tools", "edit", "delete", "retry", "upload"}
       \/ r.op \in {"adminconfig", "allowlist", "add", "remove"}
       \/ r.op \in {"mapload", "maps", "import", "mapdelete", "restyle"}
  BY <1>1 DEF Ops, ViewerOps, AdminOps, PublicOps
<1> QED
  BY <1>3, <1>4, <1>5, <1>6, <1>7, <1>8, <1>9, <1>10, <1>11

LEMMA Delivered ==
    ASSUME AppInv, NEW r \in tab.net, Deliver(r)
    PROVE  AppInv'
<1> DEFINE A == server.added
           R == server.removed
           t == Without(r)
<1>1. TabOK(tab, A, R) /\ r.ans # None /\ UNCHANGED server /\ tab' = Arrived(r)
  BY DEF AppInv, Deliver
<1>2. Answering(t, r, A, R)
  BY <1>1, Taken DEF Without
<1>3. TabOK(RedirectToLogin(t), A, R)
  BY <1>2, Redirected DEF Answering
<1>4. TabOK(t, A, R) /\ TabOK(AnswerIn(t, r), A, R)
  BY <1>2, AnswerHandled DEF Answering
<1> HIDE DEF A, R, t
<1>5. TabOK(Arrived(r), A, R)
  BY <1>3, <1>4 DEF Arrived, t
<1> QED
  BY <1>1, <1>5 DEF AppInv, A, R

\* The server only ever adds to what it has added and removed.
LEMMA MoreDone ==
    ASSUME NEW A, NEW R, NEW t, TabOK(t, A, R), NEW B, NEW S, A \subseteq B, R \subseteq S
    PROVE  TabOK(t, B, S)
<1>1. \A r \in t.net : RequestOK(r, t.page, B, S)
  BY DEF TabOK, RequestOK, Accounted
<1>2. PanelOK(t.page, B, S)
  BY DEF TabOK, PanelOK
<1> QED
  BY <1>1, <1>2 DEF TabOK

\* A request is answered where it is.
WithAnswer(t, r, a) == [t EXCEPT !.net = (@ \ {r}) \cup {[r EXCEPT !.ans = a]}]

LEMMA AnswerGiven ==
    ASSUME NEW A, NEW R, NEW t, TabOK(t, A, R), NEW r \in t.net, NEW a \in Answers,
           WellTyped([r EXCEPT !.ans = a]), Accounted([r EXCEPT !.ans = a], A, R)
    PROVE  TabOK(WithAnswer(t, r, a), A, R)
<1> DEFINE e == [r EXCEPT !.ans = a]
           v == [t EXCEPT !.net = @ \ {r}]
           u == [v EXCEPT !.net = @ \cup {e}]
<1>1. /\ t \in Tabs /\ t.net \in SUBSET Requests /\ r \in Requests
      /\ RequestOK(r, t.page, A, R) /\ Numbered(t.net) /\ Single(t.net)
  BY DEF TabOK, Tabs
<1>2. /\ e \in Requests /\ e.n = r.n /\ e.op = r.op /\ e.live = r.live /\ e.then = r.then
  BY <1>1 DEF Requests
<1>3. v.net = t.net \ {r} /\ v.page = t.page
  BY <1>1 DEF Tabs
<1>4. u = WithAnswer(t, r, a)
  BY <1>1 DEF WithAnswer, Tabs
<1>5. TabOK(v, A, R)
  BY FewerRequests
<1>6. WellTyped(e) /\ Accounted(e, A, R)
  OBVIOUS
<1> HIDE DEF e, v
<1>7. \A q \in v.net : q.n # e.n
  BY <1>1, <1>2, <1>3 DEF Numbered
<1>8. Uploading(e) = Uploading(r) /\ Fetching(e) = Fetching(r)
  BY <1>2 DEF Uploading, Fetching
<1>9. RequestOK(e, v.page, A, R)
  BY <1>1, <1>2, <1>3, <1>6, <1>8 DEF RequestOK, ForPage
<1>10. /\ Uploading(e) => \A q \in v.net : ~Uploading(q)
       /\ Fetching(e) => \A q \in v.net : ~Fetching(q)
  BY <1>1, <1>3, <1>8 DEF Single
<1>11. TabOK(u, A, R)
  BY <1>2, <1>5, <1>7, <1>9, <1>10, AddRequest
<1> QED
  BY <1>4, <1>11

\* What an answer says is of the type the handlers take, and a granted addition
\* or removal is the server's.
Truthful(op, arg, a, A, R) ==
    /\ a \in Answers
    /\ a.kind = "ok" =>
         /\ op = "config" => a.data \in Modes
         /\ op = "me" => a.data \in Whos
         /\ op = "list" => a.data \in RecLists
         /\ op = "allowlist" => a.data \in SUBSET SteamIds
         /\ op \in {"maps", "mapload"} => a.data \in SUBSET MapIds
         /\ op = "password" => a.data \in Tokens
         /\ op = "add" => arg \in A
         /\ op = "remove" => arg \in R

LEMMA AnswersKept ==
    ASSUME NEW A, NEW R, NEW t, TabOK(t, A, R), NEW r \in t.net,
           NEW B, NEW S, A \subseteq B, R \subseteq S,
           NEW a, Truthful(r.op, r.arg, a, B, S)
    PROVE  TabOK(WithAnswer(t, r, a), B, S)
<1> DEFINE e == [r EXCEPT !.ans = a]
<1>1. TabOK(t, B, S)
  BY MoreDone
<1>2. r \in Requests /\ WellTyped(r) /\ Accounted(r, B, S)
  BY <1>1 DEF TabOK, RequestOK, Tabs
<1>3. a \in Answers
  BY DEF Truthful
<1>4. e.op = r.op /\ e.arg = r.arg /\ e.then = r.then /\ e.ans = a
  BY <1>2 DEF Requests
<1> HIDE DEF e
<1>5. Granted(e) => a.kind = "ok"
  BY <1>4 DEF Granted
<1>6. WellTyped(e)
  BY <1>2, <1>4, <1>5 DEF WellTyped, Truthful
<1>7. Accounted(e, B, S)
  BY <1>2, <1>4, <1>5 DEF Accounted, Truthful
<1> QED
  BY <1>1, <1>3, <1>6, <1>7, AnswerGiven DEF e

\* The same with the step of the network that gives the answer.
LEMMA StepOfAnswer ==
    ASSUME AppInv, NEW r \in tab.net, NEW kind, NEW data, Answered(r, kind, data),
           server' \in Servers, SignedIn(server'),
           server.added \subseteq server'.added, server.removed \subseteq server'.removed,
           Truthful(r.op, r.arg, [kind |-> kind, data |-> data], server'.added, server'.removed)
    PROVE  AppInv'
<1> DEFINE a == [kind |-> kind, data |-> data]
           A == server.added
           R == server.removed
           B == server'.added
           S == server'.removed
<1>1. tab' = WithAnswer(tab, r, a)
  BY DEF Answered, WithAnswer
<1>2. TabOK(tab, A, R)
  BY DEF AppInv
<1>3. A \subseteq B /\ R \subseteq S /\ Truthful(r.op, r.arg, a, B, S)
  OBVIOUS
<1> HIDE DEF a, A, R, B, S
<1>4. TabOK(tab', B, S)
  BY <1>1, <1>2, <1>3, AnswersKept
<1>5. SignedIn(server)' /\ (server \in Servers)'
  BY DEF SignedIn
<1> QED
  BY <1>4, <1>5 DEF AppInv, B, S

-----------------------------------------------------------------------------
(* The server                                                               *)

\* A write keeps the server's types, takes nothing back of what was done, and
\* records an addition and a removal.
LEMMA WriteStored ==
    ASSUME server \in Servers, SignedIn(server), NEW op, NEW arg, NEW s \in Stored(op, arg),
           op \in {"add", "remove"} => arg \in SteamIds
    PROVE  /\ s \in Servers /\ SignedIn(s)
           /\ server.added \subseteq s.added /\ server.removed \subseteq s.removed
           /\ op = "add" => arg \in s.added
           /\ op = "remove" => arg \in s.removed
<1> USE DEF When
<1>1. /\ server.recs \in RecLists /\ DOMAIN server.recs \in SUBSET RecIds
      /\ \A id \in DOMAIN server.recs : server.recs[id] \in {"ready", "failed", "pending"}
      /\ server.recs = [id \in DOMAIN server.recs |-> server.recs[id]]
  BY DEF Servers, RecLists
<1>2. ASSUME NEW recs \in RecLists, s = [server EXCEPT !.recs = recs],
             op \notin {"add", "remove"}
      PROVE  /\ s \in Servers /\ SignedIn(s)
             /\ server.added \subseteq s.added /\ server.removed \subseteq s.removed
  BY <1>2 DEF Servers, SignedIn
<1>3. CASE op = "edit"
  BY <1>3 DEF Stored
<1>4. CASE op = "delete"
  <2> DEFINE D == DOMAIN server.recs \ {arg}
             recs == [id \in D |-> server.recs[id]]
  <2>1. recs \in RecLists
    <3>1. D \in SUBSET RecIds
      BY <1>1
    <3>2. recs \in [D -> {"ready", "failed", "pending"}]
      BY <1>1
    <3> HIDE DEF recs, D
    <3> QED
      BY <3>1, <3>2 DEF RecLists
  <2>2. s = [server EXCEPT !.recs = recs]
    BY <1>4 DEF Stored
  <2> HIDE DEF recs
  <2> QED
    BY <1>2, <1>4, <2>1, <2>2
<1>5. CASE op = "retry"
  <2> DEFINE recs == [server.recs EXCEPT ![arg] = "pending"]
  <2>1. s = [server EXCEPT !.recs = recs] /\ arg \in DOMAIN server.recs
    BY <1>5 DEF Stored
  <2>2. recs \in RecLists
    BY <1>1, <2>1 DEF RecLists
  <2> HIDE DEF recs
  <2> QED
    BY <1>2, <1>5, <2>1, <2>2
<1>6. CASE op = "upload"
  <2>1. PICK id \in RecIds \ DOMAIN server.recs :
           s = [server EXCEPT !.recs = [i \in DOMAIN @ \cup {id} |->
                                           IF i = id THEN "pending" ELSE @[i]]]
    BY <1>6 DEF Stored
  <2> DEFINE recs == [i \in DOMAIN server.recs \cup {id} |->
                         IF i = id THEN "pending" ELSE server.recs[i]]
  <2>2. recs \in RecLists
    BY <1>1, <2>1 DEF RecLists
  <2>3. s = [server EXCEPT !.recs = recs]
    BY <2>1
  <2> HIDE DEF recs
  <2> QED
    BY <1>2, <1>6, <2>2, <2>3
<1>7. CASE op = "add"
  <2>1. s = [server EXCEPT !.allow = @ \cup {arg}, !.added = @ \cup {arg}]
    BY <1>7 DEF Stored
  <2>2. arg \in SteamIds /\ server \in Servers
    BY <1>7
  <2>3. s \in Servers
    BY <2>1, <2>2 DEF Servers
  <2>4. /\ s.added = server.added \cup {arg} /\ s.removed = server.removed
        /\ s.role = server.role /\ s.live = server.live
    BY <2>1, <2>2 DEF Servers
  <2> QED
    BY <1>7, <2>3, <2>4 DEF SignedIn
<1>8. CASE op = "remove"
  <2>1. s = [server EXCEPT !.allow = @ \ {arg}, !.removed = @ \cup {arg}]
    BY <1>8 DEF Stored
  <2>2. arg \in SteamIds /\ server \in Servers
    BY <1>8
  <2>3. s \in Servers
    BY <2>1, <2>2 DEF Servers
  <2>4. /\ s.added = server.added /\ s.removed = server.removed \cup {arg}
        /\ s.role = server.role /\ s.live = server.live
    BY <2>1, <2>2 DEF Servers
  <2> QED
    BY <1>8, <2>3, <2>4 DEF SignedIn
<1>9. CASE op = "import"
  BY <1>9 DEF Stored, Servers, SignedIn
<1>10. CASE op = "mapdelete"
  BY <1>10 DEF Stored, Servers, SignedIn
<1>11. CASE op \notin {"edit", "delete", "retry", "upload", "add", "remove", "import", "mapdelete"}
  BY <1>11 DEF Stored
<1> QED
  BY <1>3, <1>4, <1>5, <1>6, <1>7, <1>8, <1>9, <1>10, <1>11

\* A session is opened with a number that was not in use.
LEMMA SessionOpened ==
    ASSUME server \in Servers, SignedIn(server), \E k \in Tokens : server.role[k] = None,
           NEW role \in Roles, NEW s,
           s = [server EXCEPT !.role[Fresh] = role, !.live = @ \cup {Fresh}]
    PROVE  /\ Fresh \in Tokens /\ s \in Servers /\ SignedIn(s)
           /\ s.added = server.added /\ s.removed = server.removed
<1>1. Fresh \in Tokens
  BY DEF Fresh
<1> DEFINE roles == [server.role EXCEPT ![Fresh] = role]
           live == server.live \cup {Fresh}
<1>2. server.role \in [Tokens -> Roles \cup {None}] /\ server.live \in SUBSET Tokens
  BY DEF Servers
<1>3. s = [server EXCEPT !.role = roles, !.live = live]
  BY DEF Servers
<1>4. roles \in [Tokens -> Roles \cup {None}] /\ live \in SUBSET Tokens
  BY <1>1, <1>2
<1>5. role # None
  BY SessionAssumption
<1>6. live \subseteq {k \in Tokens : roles[k] # None}
  BY <1>1, <1>2, <1>5 DEF SignedIn
<1> HIDE DEF roles, live
<1>7. /\ s \in Servers /\ s.role = roles /\ s.live = live
      /\ s.added = server.added /\ s.removed = server.removed
  BY <1>3, <1>4 DEF Servers
<1> QED
  BY <1>1, <1>6, <1>7 DEF SignedIn

\* What a read is told of the server is of the type of what it asked for.
LEMMA ReplyTyped ==
    ASSUME server \in Servers, NEW op \in Ops, op \notin Writes \cup {"password"},
           NEW token, NEW arg, NEW A, NEW R
    PROVE  Truthful(op, arg, [kind |-> "ok", data |-> Reply(op, token)], A, R)
<1>1. /\ server.mode \in Modes /\ server.recs \in RecLists
      /\ server.allow \in SUBSET SteamIds /\ server.maps \in SUBSET MapIds
      /\ server.role \in [Tokens -> Roles \cup {None}] /\ server.live \in SUBSET Tokens
  BY DEF Servers
<1>2. Whoami(token) \in Whos
  BY <1>1 DEF Whoami, Whos
<1>3. /\ op = "config" => Reply(op, token) \in Modes
      /\ op = "me" => Reply(op, token) \in Whos
      /\ op = "list" => Reply(op, token) \in RecLists
      /\ op = "allowlist" => Reply(op, token) \in SUBSET SteamIds
      /\ op \in {"maps", "mapload"} => Reply(op, token) \in SUBSET MapIds
      /\ op \notin {"config", "me", "list", "allowlist", "maps", "mapload"} =>
            Reply(op, token) = None
  BY <1>1, <1>2 DEF Reply
<1>4. op \notin {"password", "add", "remove"}
  BY DEF Writes
<1> DEFINE data == Reply(op, token)
<1>5. data \in Data
  BY <1>3 DEF Data
<1> HIDE DEF data
<1>6. [kind |-> "ok", data |-> data] \in Answers
  BY <1>5 DEF Answers
<1> QED
  BY <1>3, <1>4, <1>6 DEF Truthful, data

\* A refusal and a failure promise nothing.
LEMMA Refusal ==
    ASSUME NEW kind \in {"refused", "failed"}, NEW op, NEW arg, NEW A, NEW R
    PROVE  Truthful(op, arg, [kind |-> kind, data |-> None], A, R)
BY DEF Truthful, Answers, Data

LEMMA Granting ==
    ASSUME NEW op \in Writes, NEW arg, NEW A, NEW R,
           op = "add" => arg \in A, op = "remove" => arg \in R
    PROVE  Truthful(op, arg, [kind |-> "ok", data |-> None], A, R)
BY DEF Truthful, Answers, Data, Writes

LEMMA Served ==
    ASSUME AppInv, NEW r \in tab.net, Serve(r)
    PROVE  AppInv'
<1> DEFINE A == server'.added
           R == server'.removed
<1>1. /\ server \in Servers /\ SignedIn(server)
      /\ r \in Requests /\ RequestOK(r, tab.page, server.added, server.removed)
  BY DEF AppInv, TabOK, Tabs
<1>2. r.op \in Ops /\ (r.op \in {"add", "remove"} => r.arg \in SteamIds)
  BY <1>1 DEF Requests, RequestOK, WellTyped
<1>3. ASSUME NEW kind \in {"refused", "failed"}, Answered(r, kind, None), UNCHANGED server
      PROVE  AppInv'
  <2>1. Truthful(r.op, r.arg, [kind |-> kind, data |-> None], A, R)
    BY Refusal
  <2>2. server' \in Servers /\ SignedIn(server')
        /\ server.added \subseteq server'.added /\ server.removed \subseteq server'.removed
    BY <1>1, <1>3
  <2> QED
    BY <1>3, <2>1, <2>2, StepOfAnswer
<1>4. CASE r.op = "password" /\ CheckPassword(r)
  <2>1. CASE Answered(r, "refused", None) /\ UNCHANGED server
    BY <1>3, <2>1
  <2>2. CASE /\ \E k \in Tokens : server.role[k] = None
             /\ server' = [server EXCEPT !.role[Fresh] = "viewer", !.live = @ \cup {Fresh}]
             /\ Answered(r, "ok", Fresh)
    <3>1. /\ Fresh \in Tokens /\ server' \in Servers /\ SignedIn(server')
          /\ server'.added = server.added /\ server'.removed = server.removed
      BY <1>1, <2>2, SessionOpened DEF Roles
    <3>2. Truthful(r.op, r.arg, [kind |-> "ok", data |-> Fresh], A, R)
      BY <1>4, <3>1 DEF Truthful, Answers, Data
    <3>3. server.added \subseteq server'.added /\ server.removed \subseteq server'.removed
      BY <3>1
    <3> QED
      BY <2>2, <3>1, <3>2, <3>3, StepOfAnswer
  <2> QED
    BY <1>4, <2>1, <2>2 DEF CheckPassword
<1>5. CASE /\ r.op \in Writes /\ server' \in Stored(r.op, r.arg)
           /\ Answered(r, "ok", None)
  <2>1. /\ server' \in Servers /\ SignedIn(server')
        /\ server.added \subseteq server'.added /\ server.removed \subseteq server'.removed
        /\ r.op = "add" => r.arg \in A
        /\ r.op = "remove" => r.arg \in R
    BY <1>1, <1>2, <1>5, WriteStored
  <2>2. Truthful(r.op, r.arg, [kind |-> "ok", data |-> None], A, R)
    BY <1>5, <2>1, Granting
  <2> QED
    BY <1>5, <2>1, <2>2, StepOfAnswer
<1>6. CASE /\ r.op \notin Writes \cup {"password"}
           /\ Answered(r, "ok", Reply(r.op, r.token)) /\ UNCHANGED server
  <2>1. Truthful(r.op, r.arg, [kind |-> "ok", data |-> Reply(r.op, r.token)], A, R)
    BY <1>1, <1>2, <1>6, ReplyTyped
  <2>2. server' \in Servers /\ SignedIn(server')
        /\ server.added \subseteq server'.added /\ server.removed \subseteq server'.removed
    BY <1>1, <1>6
  <2> QED
    BY <1>6, <2>1, <2>2, StepOfAnswer
<1>7. CASE Answered(r, "refused", None) /\ UNCHANGED server
  BY <1>3, <1>7
<1>8. CASE Answered(r, "failed", None) /\ UNCHANGED server
  BY <1>3, <1>8
<1> QED
  BY <1>4, <1>5, <1>6, <1>7, <1>8 DEF Serve

LEMMA Failed ==
    ASSUME AppInv, NEW r \in tab.net, Fail(r)
    PROVE  AppInv'
<1>1. server \in Servers /\ SignedIn(server)
  BY DEF AppInv
<1>2. Answered(r, "failed", None) /\ server' = server
  BY DEF Fail
<1>3. Truthful(r.op, r.arg, [kind |-> "failed", data |-> None], server'.added, server'.removed)
  BY Refusal
<1>4. server' \in Servers /\ SignedIn(server')
      /\ server.added \subseteq server'.added /\ server.removed \subseteq server'.removed
  BY <1>1, <1>2
<1> QED
  BY <1>2, <1>3, <1>4, StepOfAnswer

LEMMA Expired ==
    ASSUME AppInv, Expire
    PROVE  AppInv'
<1>1. PICK k \in server.live : server' = [server EXCEPT !.live = @ \ {k}]
  BY DEF Expire
<1>2. /\ server' \in Servers /\ SignedIn(server') /\ tab' = tab
      /\ server'.added = server.added /\ server'.removed = server.removed
  BY <1>1 DEF Expire, AppInv, Servers, SignedIn
<1>3. TabOK(tab', server'.added, server'.removed)
  BY <1>2 DEF AppInv
<1>4. SignedIn(server)'
  BY <1>2 DEF SignedIn
<1> QED
  BY <1>2, <1>3, <1>4 DEF AppInv

LEMMA JobEnded ==
    ASSUME AppInv, NEW m \in MapIds, JobEnds(m)
    PROVE  AppInv'
<1> DEFINE A == server.added
           R == server.removed
<1>1. /\ server' \in Servers /\ SignedIn(server')
      /\ server'.added = A /\ server'.removed = R
  <2>1. PICK maps \in {server.maps, server.maps \cup {m}} :
           server' = [server EXCEPT !.jobs = @ \ {m}, !.maps = maps]
    BY DEF JobEnds
  <2>2. server \in Servers /\ SignedIn(server)
    BY DEF AppInv
  <2>3. maps \in SUBSET MapIds
    BY <2>2 DEF Servers
  <2> QED
    BY <2>1, <2>2, <2>3 DEF Servers, SignedIn
<1>2. TabOK(tab, A, R)
  BY DEF AppInv
<1>3. ASSUME OnMaps PROVE TabOK(Send(tab, "maps", None, None), A, R)
  <2>1. Suits(tab, A, R, "maps", None, None)
    BY <1>2, <1>3 DEF Suits, Ops, AdminOps, Args, Thens, PageOf, OnMaps
  <2> QED
    BY <2>1, Asked
<1>4. TabOK(tab', A, R)
  BY <1>2, <1>3 DEF JobEnds, Get
<1>5. SignedIn(server)'
  BY <1>1 DEF SignedIn
<1> HIDE DEF A, R
<1> QED
  BY <1>1, <1>4, <1>5 DEF AppInv

-----------------------------------------------------------------------------
(* The clicks                                                               *)

\* A set of natural numbers has a least one: what the induction over the lines
\* of a paste rests on.
LEMMA Least ==
    ASSUME NEW T, T \subseteq Nat, T # {}
    PROVE  \E x \in T : \A y \in T : x <= y
<1> DEFINE R == OpToRel(<, Nat)
<1>1. IsWellFoundedOn(R, Nat)
  BY NatLessThanWellFounded
<1>2. \A x, y \in Nat : x < y => <<x, y>> \in R
  BY DEF OpToRel
<1> HIDE DEF R
<1>3. PICK x \in T : \A y \in T : ~ (<<y, x>> \in R)
  BY <1>1, WFMin
<1>4. ASSUME NEW y \in T PROVE x <= y
  <2>1. x \in Nat /\ y \in Nat
    OBVIOUS
  <2>2. ~ (y < x)
    BY <1>2, <1>3, <2>1
  <2> QED
    BY <2>1, <2>2
<1> QED
  BY <1>4

\* The loop of handleBulkAdd ends with a list of accounts: the function that
\* Candidates chooses exists, as for no line its values up to there are missing.
LEMMA CandidatesTyped ==
    ASSUME NEW lines \in Seq(SteamIds \cup {Bad}), NEW listed
    PROVE  Candidates(lines, listed) \in Seq(SteamIds)
<1> DEFINE n == Len(lines)
           Body(f) == [i \in 0 .. n |-> IF i = 0 THEN <<>> ELSE WithLine(f[i-1], lines[i], listed)]
           kept == CHOOSE f : f = Body(f)
           Run(f, m) == /\ f \in [0 .. m -> Seq(SteamIds)] /\ f[0] = <<>>
                        /\ \A i \in 1 .. m : f[i] = WithLine(f[i-1], lines[i], listed)
           T == {m \in 0 .. n : ~ \E f : Run(f, m)}
<1>1. Candidates(lines, listed) = kept[n]
  BY DEF Candidates
<1>2. n \in Nat
  OBVIOUS
<1>3. \A s \in Seq(SteamIds), i \in 1 .. n : WithLine(s, lines[i], listed) \in Seq(SteamIds)
  BY DEF WithLine
<1>4. T = {}
  <2>1. SUFFICES ASSUME T # {} PROVE FALSE
    OBVIOUS
  <2>2. PICK m \in T : \A k \in T : m <= k
    <3>1. T \subseteq Nat
      BY <1>2
    <3> HIDE DEF T
    <3> QED
      BY <2>1, <3>1, Least
  <2>3. m \in 0 .. n /\ ~ \E f : Run(f, m)
    OBVIOUS
  <2>4. CASE m = 0
    <3> DEFINE f == [i \in 0 .. 0 |-> <<>>]
    <3>1. Run(f, 0)
      OBVIOUS
    <3> HIDE DEF Run, f
    <3> QED
      BY <2>3, <2>4, <3>1
  <2>5. CASE m # 0
    <3>1. m - 1 \in 0 .. n /\ m - 1 \notin T
      <4>1. m \in Nat /\ m - 1 \in 0 .. n /\ ~ (m <= m - 1)
        BY <1>2, <2>3, <2>5
      <4> HIDE DEF T
      <4> QED
        BY <2>2, <4>1
    <3>2. PICK f : Run(f, m - 1)
      BY <3>1
    <3> DEFINE g == [i \in 0 .. m |-> IF i = m THEN WithLine(f[m-1], lines[m], listed) ELSE f[i]]
    <3>3. Run(g, m)
      <4>1. f \in [0 .. m-1 -> Seq(SteamIds)] /\ f[m-1] \in Seq(SteamIds)
        BY <1>2, <2>3, <2>5, <3>2
      <4>2. WithLine(f[m-1], lines[m], listed) \in Seq(SteamIds)
        BY <1>2, <1>3, <2>3, <2>5, <4>1
      <4>3. g \in [0 .. m -> Seq(SteamIds)]
        BY <1>2, <2>3, <2>5, <4>1, <4>2
      <4>4. g[0] = <<>>
        BY <1>2, <2>3, <2>5, <3>2
      <4>5. \A i \in 1 .. m : g[i] = WithLine(g[i-1], lines[i], listed)
        BY <1>2, <2>3, <2>5, <3>2
      <4> QED
        BY <4>3, <4>4, <4>5
    <3> HIDE DEF Run, g
    <3> QED
      BY <2>3, <3>3
  <2> QED
    BY <2>4, <2>5
<1>5. PICK f : Run(f, n)
  <2> HIDE DEF Run
  <2>1. n \in 0 .. n
    BY <1>2
  <2>2. n \notin T
    <3> HIDE DEF T
    <3> QED
      BY <1>4
  <2> QED
    BY <2>1, <2>2
<1>6. f = Body(f)
  BY <1>2, <1>5
<1>7. kept = Body(kept)
  <2> HIDE DEF Body
  <2> QED
    BY <1>6
<1> DEFINE U == {m \in 0 .. n : kept[m] \notin Seq(SteamIds)}
<1>8. ASSUME NEW m \in 1 .. n PROVE kept[m] = WithLine(kept[m-1], lines[m], listed)
  <2> HIDE DEF kept
  <2> QED
    BY <1>2, <1>7
<1>9. kept[0] = <<>>
  <2> HIDE DEF kept
  <2> QED
    BY <1>2, <1>7
<1> HIDE DEF kept
<1>10. U = {}
  <2>1. SUFFICES ASSUME U # {} PROVE FALSE
    OBVIOUS
  <2>2. PICK m \in U : \A k \in U : m <= k
    <3>1. U \subseteq Nat
      BY <1>2
    <3> HIDE DEF U
    <3> QED
      BY <2>1, <3>1, Least
  <2>3. m \in 0 .. n /\ m # 0
    <3>1. <<>> \in Seq(SteamIds)
      OBVIOUS
    <3> QED
      BY <1>9, <3>1
  <2>4. m - 1 \in 0 .. n /\ m - 1 \notin U
    <3>1. m \in Nat /\ m - 1 \in 0 .. n /\ ~ (m <= m - 1)
      BY <1>2, <2>3
    <3> HIDE DEF U
    <3> QED
      BY <2>2, <3>1
  <2>5. kept[m-1] \in Seq(SteamIds)
    BY <2>4
  <2> QED
    BY <1>2, <1>3, <1>8, <2>3, <2>5
<1> QED
  BY <1>1, <1>2, <1>10

\* A set of accounts can be sent one after the other.
LEMMA SelectionInOrder ==
    ASSUME NEW S \in SUBSET SteamIds
    PROVE  SetToSeq(S) \in Seq(SteamIds)
<1> DEFINE n == Cardinality(S)
<1>1. IsFiniteSet(S)
  BY SessionAssumption, FS_Subset
<1>2. n \in Nat /\ ExistsBijection(1 .. n, S)
  BY <1>1, FS_CardinalityType
<1>3. PICK f : f \in Bijection(1 .. n, S)
  BY <1>2 DEF ExistsBijection
<1>4. f \in [1 .. n -> S] /\ IsInjective(f)
  BY <1>3 DEF Bijection, Injection, IsInjective
<1>5. SetToSeq(S) \in [1 .. n -> S]
  BY <1>4 DEF SetToSeq
<1> HIDE DEF n
<1> QED
  BY <1>2, <1>5

LEMMA Clicked ==
    ASSUME AppInv, NEW to, Click(to), TabOK(to, server.added, server.removed)
    PROVE  AppInv'
BY DEF Click, AppInv, SignedIn

\* A request of the page, asked with a click.
LEMMA AskedByClick ==
    ASSUME AppInv, NEW op, NEW arg, NEW then,
           Suits(tab, server.added, server.removed, op, arg, then),
           Click(Send(tab, op, arg, then))
    PROVE  AppInv'
<1>1. TabOK(Send(tab, op, arg, then), server.added, server.removed)
  BY Asked
<1> QED
  BY <1>1, Clicked

\* The panel keeps its list, and selects from it.
LEMMA WriteSelection ==
    ASSUME NEW A, NEW R, NEW t, TabOK(t, A, R), t.page.at = "/admin",
           NEW p \in AllowlistPages, p.ready = t.page.ready, p.list = t.page.list,
           p.had = t.page.had, p.selected \subseteq p.list,
           p.selected = t.page.selected \/ p.ready
    PROVE  TabOK(WithPage(t, p), A, R) /\ WithPage(t, p).page = p
<1>1. p.at = "/admin"
  BY DEF AllowlistPages
<1>2. PanelOK(p, A, R)
  BY DEF PanelOK, TabOK
<1>3. Keeps(t, p, A, R)
  BY <1>1, <1>2, WritePanel DEF PageTypes
<1> QED
  BY <1>3, WritePage

\* A click on the panel that leaves its rows as they are.
LEMMA PanelClick ==
    ASSUME AppInv, OnAdmin,
           NEW p \in AllowlistPages, p.ready = tab.page.ready, p.list = tab.page.list,
           p.had = tab.page.had, p.selected \subseteq p.list,
           p.selected = tab.page.selected \/ p.ready,
           Click(WithPage(tab, p))
    PROVE  AppInv'
<1>1. TabOK(tab, server.added, server.removed) /\ tab.page.at = "/admin"
  BY DEF AppInv, OnAdmin
<1>2. TabOK(WithPage(tab, p), server.added, server.removed)
  BY <1>1, WriteSelection
<1> QED
  BY <1>2, Clicked

LEMMA AdminClicked ==
    ASSUME AppInv, AdminClick
    PROVE  AppInv'
<1> DEFINE A == server.added
           R == server.removed
           P == tab.page
<1>1. TabOK(tab, A, R) /\ tab \in Tabs /\ P \in PageTypes
  BY DEF AppInv, TabOK
<1>2. ASSUME OnAdmin
      PROVE  P \in AllowlistPages /\ P.at = "/admin" /\ P.selected \subseteq P.list
  BY <1>1, <1>2, Kinds DEF OnAdmin, TabOK, PanelOK
<1>3. OnPanel => OnAdmin /\ P.ready
  BY DEF OnPanel
<1>4. ASSUME NEW id \in SteamIds, Add(id) PROVE AppInv'
  <2>1. OnAdmin /\ Click(Send(tab, "add", id, None))
    BY <1>4 DEF Add, OnPanel
  <2>2. Suits(tab, A, R, "add", id, None)
    BY <1>1, <2>1 DEF Suits, Ops, AdminOps, Args, Thens, PageOf, OnAdmin
  <2> QED
    BY <2>1, <2>2, AskedByClick
<1>5. ASSUME NEW id \in SteamIds, AskRemove(id) PROVE AppInv'
  <2> DEFINE p == [P EXCEPT !.single = id]
  <2>1. OnAdmin /\ P.ready /\ Click(WithPage(tab, p))
    BY <1>5 DEF AskRemove, OnPanel, WithPage
  <2>2. /\ p \in AllowlistPages /\ p.ready = P.ready /\ p.list = P.list /\ p.had = P.had
        /\ p.selected = P.selected
    BY <1>2, <2>1 DEF AllowlistPages
  <2> HIDE DEF p
  <2> QED
    BY <1>2, <2>1, <2>2, PanelClick
<1>6. ASSUME NEW id \in SteamIds, ToggleOne(id) PROVE AppInv'
  <2> DEFINE sel == IF id \in P.selected THEN P.selected \ {id} ELSE P.selected \cup {id}
             p == [P EXCEPT !.selected = sel]
  <2>1. OnAdmin /\ P.ready /\ id \in P.list /\ Click(WithPage(tab, p))
    BY <1>6 DEF ToggleOne, OnPanel, WithPage
  <2>2. sel \in SUBSET SteamIds /\ sel \subseteq P.list
    BY <1>2, <2>1 DEF AllowlistPages
  <2> HIDE DEF sel
  <2>3. /\ p \in AllowlistPages /\ p.ready = P.ready /\ p.list = P.list /\ p.had = P.had
        /\ p.selected = sel
    BY <1>2, <2>1, <2>2 DEF AllowlistPages
  <2> HIDE DEF p
  <2> QED
    BY <2>1, <2>2, <2>3, PanelClick
<1>7. ASSUME NEW lines \in Texts, BulkAdd(lines) PROVE AppInv'
  <2> DEFINE p == [P EXCEPT !.pasting = FALSE]
             u == WithPage(tab, p)
             ids == Candidates(lines, P.list)
  <2>1. PICK yes \in BOOLEAN : yes = TRUE
    OBVIOUS
  <2>2. OnAdmin /\ P.ready /\ Click(AddFrom(u, yes, ids, {}))
    BY <1>7, <2>1 DEF BulkAdd, OnPanel, WithPage
  <2>3. /\ p \in AllowlistPages /\ p.ready = P.ready /\ p.list = P.list /\ p.had = P.had
        /\ p.selected = P.selected /\ p.at = "/admin"
    BY <1>2, <2>2 DEF AllowlistPages
  <2>4. ids \in Seq(SteamIds)
    BY SessionAssumption, CandidatesTyped
  <2> HIDE DEF p, ids
  <2>5. TabOK(u, A, R) /\ u.page = p
    <3>1. P.at = "/admin" /\ p.selected \subseteq p.list
      BY <1>2, <2>2, <2>3
    <3> QED
      BY <1>1, <2>3, <3>1, WriteSelection
  <2> HIDE DEF u
  <2>6. TabOK(AddFrom(u, yes, ids, {}), A, R)
    BY <2>3, <2>4, <2>5, AddLoop
  <2> QED
    BY <2>2, <2>6, Clicked
<1>8. ASSUME NEW hidden \in SUBSET (Unmatched \cap SteamIds), SearchAllowlist(hidden)
      PROVE  AppInv'
  <2> DEFINE p == [P EXCEPT !.hidden = hidden]
  <2>1. OnAdmin /\ P.ready /\ Click(WithPage(tab, p))
    BY <1>8 DEF SearchAllowlist, OnPanel, WithPage
  <2>2. /\ p \in AllowlistPages /\ p.ready = P.ready /\ p.list = P.list /\ p.had = P.had
        /\ p.selected = P.selected
    BY <1>2, <2>1 DEF AllowlistPages
  <2> HIDE DEF p
  <2> QED
    BY <1>2, <2>1, <2>2, PanelClick
<1>9. CASE OpenBulk
  <2> DEFINE p == [P EXCEPT !.pasting = ~@]
  <2>1. OnAdmin /\ P.ready /\ Click(WithPage(tab, p))
    BY <1>9 DEF OpenBulk, OnPanel, WithPage
  <2>2. /\ p \in AllowlistPages /\ p.ready = P.ready /\ p.list = P.list /\ p.had = P.had
        /\ p.selected = P.selected
    BY <1>2, <2>1 DEF AllowlistPages
  <2> HIDE DEF p
  <2> QED
    BY <1>2, <2>1, <2>2, PanelClick
<1>10. CASE ConfirmRemove
  <2> DEFINE p == [P EXCEPT !.single = None]
             u == WithPage(tab, p)
  <2>1. OnAdmin /\ P.single # None /\ Click(Send(u, "remove", P.single, None))
    BY <1>10 DEF ConfirmRemove, WithPage
  <2>2. /\ p \in AllowlistPages /\ p.ready = P.ready /\ p.list = P.list /\ p.had = P.had
        /\ p.selected = P.selected /\ p.at = "/admin" /\ P.single \in SteamIds
    BY <1>2, <2>1 DEF AllowlistPages
  <2> HIDE DEF p
  <2>3. TabOK(u, A, R) /\ u.page = p
    BY <1>1, <1>2, <2>1, <2>2, WriteSelection DEF OnAdmin
  <2> HIDE DEF u
  <2>4. Suits(u, A, R, "remove", P.single, None)
    BY <2>2, <2>3 DEF Suits, Ops, AdminOps, Args, Thens, PageOf
  <2>5. TabOK(Send(u, "remove", P.single, None), A, R)
    BY <2>4, Asked
  <2> QED
    BY <2>1, <2>5, Clicked
<1>11. CASE ToggleAll
  <2> DEFINE sel == IF AllSelected(P) THEN P.selected \ Selectable(P)
                    ELSE P.selected \cup Selectable(P)
             p == [P EXCEPT !.selected = sel]
  <2>1. OnAdmin /\ P.ready /\ Click(WithPage(tab, p))
    BY <1>11 DEF ToggleAll, OnPanel, WithPage
  <2>2. sel \in SUBSET SteamIds /\ sel \subseteq P.list
    BY <1>2, <2>1 DEF AllowlistPages, Selectable
  <2> HIDE DEF sel
  <2>3. /\ p \in AllowlistPages /\ p.ready = P.ready /\ p.list = P.list /\ p.had = P.had
        /\ p.selected = sel
    BY <1>2, <2>1, <2>2 DEF AllowlistPages
  <2> HIDE DEF p
  <2> QED
    BY <2>1, <2>2, <2>3, PanelClick
<1>12. CASE AskRemoveAll
  <2> DEFINE p == [P EXCEPT !.bulk = TRUE]
  <2>1. OnAdmin /\ P.ready /\ Click(WithPage(tab, p))
    BY <1>12 DEF AskRemoveAll, OnPanel, WithPage
  <2>2. /\ p \in AllowlistPages /\ p.ready = P.ready /\ p.list = P.list /\ p.had = P.had
        /\ p.selected = P.selected
    BY <1>2, <2>1 DEF AllowlistPages
  <2> HIDE DEF p
  <2> QED
    BY <1>2, <2>1, <2>2, PanelClick
<1>13. CASE ConfirmRemoveAll
  <2> DEFINE p == [P EXCEPT !.bulk = FALSE]
             u == WithPage(tab, p)
             S == P.selected \ AdminIds(P)
             ids == SetToSeq(S)
  <2>1. PICK yes \in BOOLEAN : yes = TRUE
    OBVIOUS
  <2>2. OnAdmin /\ Click(RemoveFrom(u, yes, ids, {}))
    BY <1>13, <2>1 DEF ConfirmRemoveAll, WithPage
  <2>3. /\ p \in AllowlistPages /\ p.ready = P.ready /\ p.list = P.list /\ p.had = P.had
        /\ p.selected = P.selected /\ p.at = "/admin" /\ S \in SUBSET SteamIds
    BY <1>2, <2>2 DEF AllowlistPages
  <2> HIDE DEF S
  <2>4. ids \in Seq(SteamIds)
    BY <2>3, SelectionInOrder
  <2> HIDE DEF p, ids
  <2>5. TabOK(u, A, R) /\ u.page = p
    BY <1>1, <1>2, <2>2, <2>3, WriteSelection DEF OnAdmin
  <2> HIDE DEF u
  <2>6. TabOK(RemoveFrom(u, yes, ids, {}), A, R)
    BY <2>3, <2>4, <2>5, RemoveLoop
  <2> QED
    BY <2>2, <2>6, Clicked
<1>14. CASE CancelRemove
  <2> DEFINE p == [P EXCEPT !.single = None, !.bulk = FALSE]
  <2>1. OnAdmin /\ Click([tab EXCEPT !.page.single = None, !.page.bulk = FALSE])
    BY <1>14 DEF CancelRemove
  <2>2. [tab EXCEPT !.page.single = None, !.page.bulk = FALSE] = WithPage(tab, p)
    BY <1>1, <1>2, <2>1 DEF WithPage, Tabs, AllowlistPages
  <2>3. /\ p \in AllowlistPages /\ p.ready = P.ready /\ p.list = P.list /\ p.had = P.had
        /\ p.selected = P.selected
    BY <1>2, <2>1 DEF AllowlistPages
  <2> HIDE DEF p
  <2> QED
    BY <1>2, <2>1, <2>2, <2>3, PanelClick
<1> QED
  BY <1>4, <1>5, <1>6, <1>7, <1>8, <1>9, <1>10, <1>11, <1>12, <1>13, <1>14 DEF AdminClick

\* A click on the root page that asks for nothing.
LEMMA RootClick ==
    ASSUME AppInv, OnSelector, NEW p \in SelectorPages, p.uploading = tab.page.uploading,
           Click(WithPage(tab, p))
    PROVE  AppInv'
<1>1. TabOK(tab, server.added, server.removed) /\ tab.page.at = Root
  BY DEF AppInv, OnSelector
<1>2. TabOK(WithPage(tab, p), server.added, server.removed)
  BY <1>1, WriteSelector
<1> QED
  BY <1>2, Clicked

\* A click that leaves the page.
LEMMA LeavingClick ==
    ASSUME AppInv, NEW route \in Routes, Click(Navigate(tab, route))
    PROVE  AppInv'
<1>1. TabOK(tab, server.added, server.removed)
  BY DEF AppInv
<1>2. TabOK(Navigate(tab, route), server.added, server.removed)
  BY <1>1, Navigated
<1> QED
  BY <1>2, Clicked

LEMMA SelectorClicked ==
    ASSUME AppInv, SelectorClick
    PROVE  AppInv'
<1> DEFINE A == server.added
           R == server.removed
           P == tab.page
<1>1. TabOK(tab, A, R) /\ tab \in Tabs /\ P \in PageTypes
  BY DEF AppInv, TabOK
<1>2. ASSUME OnSelector
      PROVE  /\ P \in SelectorPages /\ P.at = Root
             /\ Listed(P) \subseteq RecIds /\ SelectedRec(P) \in RecIds \cup {None}
  <2>1. P \in SelectorPages /\ P.at = Root
    BY <1>1, <1>2, Kinds DEF OnSelector
  <2>2. P.recs \in RecLists
    BY <2>1 DEF SelectorPages
  <2>3. Listed(P) \subseteq RecIds
    BY <2>2 DEF Listed, RecLists
  <2> QED
    BY <2>1, <2>3 DEF SelectedRec
<1>3. ASSUME NEW id \in RecIds, Select(id) PROVE AppInv'
  <2> DEFINE p == [P EXCEPT !.selected = id]
  <2>1. OnSelector /\ Click(WithPage(tab, p))
    BY <1>3 DEF Select, WithPage
  <2>2. p \in SelectorPages /\ p.uploading = P.uploading
    BY <1>2, <2>1 DEF SelectorPages
  <2> HIDE DEF p
  <2> QED
    BY <2>1, <2>2, RootClick
<1>4. ASSUME NEW hidden \in SUBSET (Unmatched \cap RecIds), FilterList(hidden) PROVE AppInv'
  <2> DEFINE p == [P EXCEPT !.hidden = hidden]
  <2>1. OnSelector /\ Click(WithPage(tab, p))
    BY <1>4 DEF FilterList, WithPage
  <2>2. p \in SelectorPages /\ p.uploading = P.uploading
    BY <1>2, <2>1 DEF SelectorPages
  <2> HIDE DEF p
  <2> QED
    BY <2>1, <2>2, RootClick
<1>5. ASSUME NEW down \in BOOLEAN, ArrowKey(down) PROVE AppInv'
  <2>1. PICK id \in Ahead(P, down) : Click([tab EXCEPT !.page.selected = id])
    BY <1>5 DEF ArrowKey
  <2> DEFINE p == [P EXCEPT !.selected = id]
  <2>2. OnSelector /\ Click(WithPage(tab, p))
    BY <1>5, <2>1 DEF ArrowKey, WithPage
  <2>3. id \in RecIds
    BY <1>2, <2>1, <2>2 DEF Ahead, Filtered
  <2>4. p \in SelectorPages /\ p.uploading = P.uploading
    BY <1>2, <2>2, <2>3 DEF SelectorPages
  <2> HIDE DEF p
  <2> QED
    BY <2>2, <2>4, RootClick
<1>6. CASE HandleSort
  <2> DEFINE p == [P EXCEPT !.desc = ~@]
  <2>1. OnSelector /\ Click(WithPage(tab, p))
    BY <1>6 DEF HandleSort, WithPage
  <2>2. p \in SelectorPages /\ p.uploading = P.uploading
    BY <1>2, <2>1 DEF SelectorPages
  <2> HIDE DEF p
  <2> QED
    BY <2>1, <2>2, RootClick
<1>7. CASE HandleLaunch
  BY <1>7, LeavingClick DEF HandleLaunch, Routes
<1>8. CASE EscapeKey
  <2> DEFINE p == [P EXCEPT !.selected = None, !.editing = None, !.deleting = None]
  <2>1. OnSelector /\ Click([tab EXCEPT !.page.selected = None, !.page.editing = None,
                                       !.page.deleting = None])
    BY <1>8 DEF EscapeKey
  <2>2. p \in SelectorPages /\ p.uploading = P.uploading
    BY <1>2, <2>1 DEF SelectorPages
  <2>3. [tab EXCEPT !.page.selected = None, !.page.editing = None, !.page.deleting = None]
           = WithPage(tab, p)
    BY <1>1, <1>2, <2>1 DEF WithPage, Tabs, SelectorPages
  <2> HIDE DEF p
  <2> QED
    BY <2>1, <2>2, <2>3, RootClick
<1>9. CASE OpenEdit
  <2> DEFINE p == [P EXCEPT !.editing = SelectedRec(P)]
  <2>1. OnSelector /\ Click(WithPage(tab, p))
    BY <1>9 DEF OpenEdit, WithPage
  <2>2. p \in SelectorPages /\ p.uploading = P.uploading
    BY <1>2, <2>1 DEF SelectorPages
  <2> HIDE DEF p
  <2> QED
    BY <2>1, <2>2, RootClick
<1>10. CASE OpenDelete
  <2> DEFINE p == [P EXCEPT !.deleting = SelectedRec(P)]
  <2>1. OnSelector /\ Click(WithPage(tab, p))
    BY <1>10 DEF OpenDelete, WithPage
  <2>2. p \in SelectorPages /\ p.uploading = P.uploading
    BY <1>2, <2>1 DEF SelectorPages
  <2> HIDE DEF p
  <2> QED
    BY <2>1, <2>2, RootClick
<1>11. CASE Retry
  <2>1. OnSelector /\ Click(Send(tab, "retry", SelectedRec(P), None))
    BY <1>11 DEF Retry
  <2>2. SelectedRec(P) \in Args
    BY <1>2, <2>1 DEF Args
  <2>3. Suits(tab, A, R, "retry", SelectedRec(P), None)
    BY <1>1, <2>1, <2>2 DEF Suits, Ops, AdminOps, Thens, PageOf, OnSelector
  <2> QED
    BY <2>1, <2>3, AskedByClick
<1>12. CASE SubmitEdit
  <2>1. OnSelector /\ Click(Send(tab, "edit", P.editing, None))
    BY <1>12 DEF SubmitEdit
  <2>2. P.editing \in Args
    BY <1>2, <2>1 DEF Args, SelectorPages
  <2>3. Suits(tab, A, R, "edit", P.editing, None)
    BY <1>1, <2>1, <2>2 DEF Suits, Ops, AdminOps, Thens, PageOf, OnSelector
  <2> QED
    BY <2>1, <2>3, AskedByClick
<1>13. CASE SubmitDelete
  <2>1. OnSelector /\ Click(Send(tab, "delete", P.deleting, None))
    BY <1>13 DEF SubmitDelete
  <2>2. P.deleting \in Args
    BY <1>2, <2>1 DEF Args, SelectorPages
  <2>3. Suits(tab, A, R, "delete", P.deleting, None)
    BY <1>1, <2>1, <2>2 DEF Suits, Ops, AdminOps, Thens, PageOf, OnSelector
  <2> QED
    BY <2>1, <2>3, AskedByClick
<1>14. CASE ToggleUpload
  <2> DEFINE p == [P EXCEPT !.upload = ~@]
  <2>1. OnSelector /\ Click(WithPage(tab, p))
    BY <1>14 DEF ToggleUpload, WithPage
  <2>2. p \in SelectorPages /\ p.uploading = P.uploading
    BY <1>2, <2>1 DEF SelectorPages
  <2> HIDE DEF p
  <2> QED
    BY <2>1, <2>2, RootClick
<1>15. CASE SubmitUpload
  <2> DEFINE p == [P EXCEPT !.uploading = TRUE]
             u == WithPage(tab, p)
  <2>1. OnSelector /\ ~P.uploading
        /\ Click(Send([tab EXCEPT !.page.uploading = TRUE], "upload", None, None))
    BY <1>15 DEF SubmitUpload
  <2>2. [tab EXCEPT !.page.uploading = TRUE] = u
    BY <1>1, <1>2, <2>1 DEF WithPage, Tabs, SelectorPages
  <2>3. p \in SelectorPages /\ p.uploading /\ p.at = P.at
    BY <1>2, <2>1 DEF SelectorPages
  <2> HIDE DEF p
  <2>4. \A q \in tab.net : ~Uploading(q)
    BY <1>1, <2>1 DEF TabOK, RequestOK, ForPage
  <2>5. p \in PageTypes /\ p.at # "/admin"
    BY <1>2, <2>1, <2>3 DEF PageTypes, Root
  <2>6. Keeps(tab, p, A, R)
    BY <1>1, <2>3, <2>4, <2>5, WriteOther
  <2>7. TabOK(u, A, R) /\ u.page = p /\ u.net = tab.net
    BY <2>6, WritePage
  <2> HIDE DEF u
  <2>8. Suits(u, A, R, "upload", None, None)
    BY <1>2, <2>1, <2>3, <2>4, <2>7 DEF Suits, Ops, AdminOps, Args, Thens, PageOf
  <2>9. TabOK(Send(u, "upload", None, None), A, R)
    BY <2>8, Asked
  <2> QED
    BY <2>1, <2>2, <2>9, Clicked
<1>16. CASE CloseDialog
  <2> DEFINE p == [P EXCEPT !.editing = None, !.deleting = None]
  <2>1. OnSelector /\ Click([tab EXCEPT !.page.editing = None, !.page.deleting = None])
    BY <1>16 DEF CloseDialog
  <2>2. p \in SelectorPages /\ p.uploading = P.uploading
    BY <1>2, <2>1 DEF SelectorPages
  <2>3. [tab EXCEPT !.page.editing = None, !.page.deleting = None] = WithPage(tab, p)
    BY <1>1, <1>2, <2>1 DEF WithPage, Tabs, SelectorPages
  <2> HIDE DEF p
  <2> QED
    BY <2>1, <2>2, <2>3, RootClick
<1>17. CASE OpenAdmin
  BY <1>17, LeavingClick DEF OpenAdmin, Routes
<1>18. CASE OpenMapManager
  BY <1>18, LeavingClick DEF OpenMapManager, Routes
<1> QED
  BY <1>3, <1>4, <1>5, <1>6, <1>7, <1>8, <1>9, <1>10, <1>11,
     <1>12, <1>13, <1>14, <1>15, <1>16, <1>17, <1>18 DEF SelectorClick

\* A click on the map manager that asks for nothing.
LEMMA MapClick ==
    ASSUME AppInv, OnMaps, NEW p \in MapsPages, p.uploading = tab.page.uploading,
           Click(WithPage(tab, p))
    PROVE  AppInv'
<1>1. TabOK(tab, server.added, server.removed) /\ tab.page.at = "/map-manager"
  BY DEF AppInv, OnMaps
<1>2. TabOK(WithPage(tab, p), server.added, server.removed)
  BY <1>1, WriteMaps
<1> QED
  BY <1>2, Clicked

LEMMA MapsClicked ==
    ASSUME AppInv, MapsClick
    PROVE  AppInv'
<1> DEFINE A == server.added
           R == server.removed
           P == tab.page
<1>1. TabOK(tab, A, R) /\ tab \in Tabs /\ P \in PageTypes
  BY DEF AppInv, TabOK
<1>2. ASSUME OnMaps PROVE P \in MapsPages /\ P.at = "/map-manager"
  BY <1>1, <1>2, Kinds DEF OnMaps
<1>3. ASSUME NEW m \in MapIds, SelectMap(m) PROVE AppInv'
  <2> DEFINE p == [P EXCEPT !.selected = IF @ = m THEN None ELSE m]
  <2>1. OnMaps /\ Click(WithPage(tab, p))
    BY <1>3 DEF SelectMap, WithPage
  <2>2. p \in MapsPages /\ p.uploading = P.uploading
    BY <1>2, <2>1 DEF MapsPages
  <2> HIDE DEF p
  <2> QED
    BY <2>1, <2>2, MapClick
<1>4. ASSUME NEW hidden \in SUBSET (Unmatched \cap MapIds), FilterMaps(hidden) PROVE AppInv'
  <2> DEFINE p == [P EXCEPT !.hidden = hidden]
  <2>1. OnMaps /\ Click(WithPage(tab, p))
    BY <1>4 DEF FilterMaps, WithPage
  <2>2. p \in MapsPages /\ p.uploading = P.uploading
    BY <1>2, <2>1 DEF MapsPages
  <2> HIDE DEF p
  <2> QED
    BY <2>1, <2>2, MapClick
<1>5. CASE OpenImport
  <2> DEFINE p == [P EXCEPT !.import = TRUE]
  <2>1. OnMaps /\ Click(WithPage(tab, p))
    BY <1>5 DEF OpenImport, WithPage
  <2>2. p \in MapsPages /\ p.uploading = P.uploading
    BY <1>2, <2>1 DEF MapsPages
  <2> HIDE DEF p
  <2> QED
    BY <2>1, <2>2, MapClick
<1>6. CASE Restyle
  <2>1. OnMaps /\ Click(Send(tab, "restyle", None, None))
    BY <1>6 DEF Restyle, Get
  <2>2. Suits(tab, A, R, "restyle", None, None)
    BY <1>1, <2>1 DEF Suits, Ops, AdminOps, Args, Thens, PageOf, OnMaps
  <2> QED
    BY <2>1, <2>2, AskedByClick
<1>7. CASE ChooseFile
  <2> DEFINE p == [P EXCEPT !.zip = TRUE]
  <2>1. OnMaps /\ Click(WithPage(tab, p))
    BY <1>7 DEF ChooseFile, WithPage
  <2>2. p \in MapsPages /\ p.uploading = P.uploading
    BY <1>2, <2>1 DEF MapsPages
  <2> HIDE DEF p
  <2> QED
    BY <2>1, <2>2, MapClick
<1>8. CASE SubmitImport
  <2> DEFINE p == [P EXCEPT !.uploading = TRUE, !.error = FALSE]
             u == WithPage(tab, p)
  <2>1. OnMaps /\ ~P.uploading
        /\ Click(Send([tab EXCEPT !.page.uploading = TRUE, !.page.error = FALSE],
                      "import", None, None))
    BY <1>8 DEF SubmitImport, Get
  <2>2. [tab EXCEPT !.page.uploading = TRUE, !.page.error = FALSE] = u
    BY <1>1, <1>2, <2>1 DEF WithPage, Tabs, MapsPages
  <2>3. p \in MapsPages /\ p.uploading /\ p.at = P.at
    BY <1>2, <2>1 DEF MapsPages
  <2> HIDE DEF p
  <2>4. \A q \in tab.net : ~Uploading(q)
    BY <1>1, <2>1 DEF TabOK, RequestOK, ForPage
  <2>5. p \in PageTypes /\ p.at # "/admin"
    BY <1>2, <2>1, <2>3 DEF PageTypes, Root
  <2>6. Keeps(tab, p, A, R)
    BY <1>1, <2>3, <2>4, <2>5, WriteOther
  <2>7. TabOK(u, A, R) /\ u.page = p /\ u.net = tab.net
    BY <2>6, WritePage
  <2> HIDE DEF u
  <2>8. Suits(u, A, R, "import", None, None)
    BY <1>2, <2>1, <2>3, <2>4, <2>7 DEF Suits, Ops, AdminOps, Args, Thens, PageOf
  <2>9. TabOK(Send(u, "import", None, None), A, R)
    BY <2>8, Asked
  <2> QED
    BY <2>1, <2>2, <2>9, Clicked
<1>9. CASE CloseImport
  <2> DEFINE p == [P EXCEPT !.import = FALSE, !.zip = FALSE, !.error = FALSE]
  <2>1. OnMaps /\ Click([tab EXCEPT !.page.import = FALSE, !.page.zip = FALSE,
                                   !.page.error = FALSE])
    BY <1>9 DEF CloseImport
  <2>2. p \in MapsPages /\ p.uploading = P.uploading
    BY <1>2, <2>1 DEF MapsPages
  <2>3. [tab EXCEPT !.page.import = FALSE, !.page.zip = FALSE, !.page.error = FALSE]
           = WithPage(tab, p)
    BY <1>1, <1>2, <2>1 DEF WithPage, Tabs, MapsPages
  <2> HIDE DEF p
  <2> QED
    BY <2>1, <2>2, <2>3, MapClick
<1>10. CASE AskDelete
  <2> DEFINE p == [P EXCEPT !.delete = TRUE]
  <2>1. OnMaps /\ Click(WithPage(tab, p))
    BY <1>10 DEF AskDelete, WithPage
  <2>2. p \in MapsPages /\ p.uploading = P.uploading
    BY <1>2, <2>1 DEF MapsPages
  <2> HIDE DEF p
  <2> QED
    BY <2>1, <2>2, MapClick
<1>11. CASE ConfirmDelete
  <2>1. OnMaps /\ Click(Send(tab, "mapdelete", P.selected, None))
    BY <1>11 DEF ConfirmDelete
  <2>2. P.selected \in Args
    BY <1>2, <2>1 DEF Args, MapsPages
  <2>3. Suits(tab, A, R, "mapdelete", P.selected, None)
    BY <1>1, <2>1, <2>2 DEF Suits, Ops, AdminOps, Thens, PageOf, OnMaps
  <2> QED
    BY <2>1, <2>3, AskedByClick
<1>12. CASE CancelDelete
  <2> DEFINE p == [P EXCEPT !.delete = FALSE]
  <2>1. OnMaps /\ Click(WithPage(tab, p))
    BY <1>12 DEF CancelDelete, WithPage
  <2>2. p \in MapsPages /\ p.uploading = P.uploading
    BY <1>2, <2>1 DEF MapsPages
  <2> HIDE DEF p
  <2> QED
    BY <2>1, <2>2, MapClick
<1> QED
  BY <1>3, <1>4, <1>5, <1>6, <1>7, <1>8, <1>9, <1>10, <1>11, <1>12 DEF MapsClick

\* AuthBadge: signing in and out.
LEMMA SessionClicked ==
    ASSUME AppInv, Unlock \/ SteamLogin \/ Logout \/ DismissError \/ Leave
    PROVE  AppInv'
<1> DEFINE A == server.added
           R == server.removed
           P == tab.page
           left == [tab EXCEPT !.returnTo = tab.route]
<1>1. /\ TabOK(tab, A, R) /\ tab \in Tabs /\ P \in PageTypes
      /\ server \in Servers /\ SignedIn(server)
  BY DEF AppInv, TabOK
<1>2. tab.auth \in Auths /\ [tab.auth EXCEPT !.error = FALSE] \in Auths
  BY <1>1 DEF Tabs, Auths
<1>3. CASE Unlock
  <2> DEFINE p == [P EXCEPT !.unlocking = TRUE]
             u == WithPage(tab, p)
             v == [u EXCEPT !.auth.error = FALSE]
  <2>1. P.at = Root
        /\ Click(Send([tab EXCEPT !.auth.error = FALSE, !.page.unlocking = TRUE],
                      "password", None, None))
    BY <1>3 DEF Unlock, Get
  <2>2. P \in SelectorPages
    BY <1>1, <2>1, Kinds
  <2>3. [tab EXCEPT !.auth.error = FALSE, !.page.unlocking = TRUE] = v
    BY <1>1, <1>2, <2>2 DEF WithPage, Tabs, Auths, SelectorPages
  <2>4. u.auth = tab.auth
    BY <1>1 DEF WithPage, Tabs
  <2>5. p \in SelectorPages /\ p.uploading = P.uploading
    BY <2>2 DEF SelectorPages
  <2> HIDE DEF p
  <2>6. TabOK(u, A, R)
    BY <1>1, <2>1, <2>5, WriteSelector
  <2> HIDE DEF u
  <2>7. u \in Tabs
    BY <2>6 DEF TabOK
  <2>8. v \in Tabs /\ v.page = u.page /\ v.route = u.route /\ v.net = u.net
    BY <1>2, <2>4, <2>7 DEF Tabs
  <2> HIDE DEF v
  <2>9. TabOK(v, A, R)
    BY <2>6, <2>8, SameInSession
  <2>10. Suits(v, A, R, "password", None, None)
    BY <2>9 DEF Suits, Ops, PublicOps, Args, Thens, PageOf
  <2>11. TabOK(Send(v, "password", None, None), A, R)
    BY <2>10, Asked
  <2> QED
    BY <2>1, <2>3, <2>11, Clicked
<1>4. TabOK(left, A, R)
  <2>1. left \in Tabs /\ left.page = P /\ left.route = tab.route /\ left.net = tab.net
    BY <1>1 DEF Tabs
  <2> HIDE DEF left
  <2> QED
    BY <1>1, <2>1, SameInSession
<1>5. CASE SteamLogin
  <2> DEFINE failed == [error |-> TRUE, token |-> 0]
             opened == [error |-> FALSE, token |-> Fresh]
  <2>1. CASE tab' = Reload(left, failed) /\ UNCHANGED server
    <3>1. failed \in Params
      BY DEF Params
    <3> HIDE DEF failed, left
    <3>2. TabOK(tab', A, R)
      BY <1>4, <2>1, <3>1, Reloaded
    <3> QED
      BY <1>1, <2>1, <3>2 DEF AppInv, SignedIn
  <2>2. CASE /\ \E k \in Tokens : server.role[k] = None
             /\ \E role \in Roles :
                   server' = [server EXCEPT !.role[Fresh] = role, !.live = @ \cup {Fresh}]
             /\ tab' = Reload(left, opened)
    <3>1. /\ Fresh \in Tokens /\ server' \in Servers /\ SignedIn(server')
          /\ server'.added = A /\ server'.removed = R
      BY <1>1, <2>2, SessionOpened
    <3>2. opened \in Params
      BY <3>1 DEF Params
    <3> HIDE DEF opened, left
    <3>3. TabOK(tab', A, R)
      BY <1>4, <2>2, <3>2, Reloaded
    <3>4. SignedIn(server)'
      BY <3>1 DEF SignedIn
    <3> QED
      BY <3>1, <3>3, <3>4 DEF AppInv
  <2> HIDE DEF failed, opened, left
  <2> QED
    BY <1>5, <2>1, <2>2 DEF SteamLogin, failed, opened, left
<1>6. CASE Logout
  <2>1. Click(Send(tab, "logout", None, None))
    BY <1>6 DEF Logout, Get
  <2>2. Suits(tab, A, R, "logout", None, None)
    BY <1>1 DEF Suits, Ops, PublicOps, Args, Thens, PageOf
  <2> QED
    BY <2>1, <2>2, AskedByClick
<1>7. CASE DismissError
  <2>1. tab' = [tab EXCEPT !.auth.error = FALSE] /\ server' = server
    BY <1>7 DEF DismissError
  <2>2. tab' \in Tabs /\ tab'.page = P /\ tab'.route = tab.route /\ tab'.net = tab.net
    BY <1>1, <1>2, <2>1 DEF Tabs
  <2>3. TabOK(tab', A, R)
    BY <1>1, <2>2, SameInSession
  <2> QED
    BY <1>1, <2>1, <2>3 DEF AppInv, SignedIn
<1>8. CASE Leave
  BY <1>8, LeavingClick DEF Leave, Root, Routes
<1> QED
  BY <1>3, <1>5, <1>6, <1>7, <1>8

-----------------------------------------------------------------------------
(* The theorems                                                             *)

\* A visit begins with nothing asked for but by the page it opens.
LEMMA Visited ==
    ASSUME Init
    PROVE  AppInv
<1>1. PICK v \in Visits :
         LET token == IF v.role = None THEN 0 ELSE 1
             empty == [route |-> v.route, token |-> token, returnTo |-> None, params |-> None,
                       auth |-> NoAuth, page |-> None, net |-> {}]
         IN  /\ tab = Get(Mount(empty, v.route), "config")
             /\ server = [mode |-> v.mode,
                          role |-> [k \in Tokens |-> IF k = token THEN v.role ELSE None],
                          live |-> Tokens \cap {token},
                          recs |-> v.recs,
                          allow |-> v.allow, maps |-> v.maps, jobs |-> {},
                          added |-> {}, removed |-> {}]
  BY DEF Init
<1> DEFINE token == IF v.role = None THEN 0 ELSE 1
           empty == [route |-> v.route, token |-> token, returnTo |-> None, params |-> None,
                     auth |-> NoAuth, page |-> None, net |-> {}]
           role == [k \in Tokens |-> IF k = token THEN v.role ELSE None]
           u == Mount(empty, v.route)
<1>2. /\ v.route \in Routes /\ v.mode \in Modes /\ v.role \in Roles \cup {None}
      /\ v.recs \in RecLists /\ v.allow \subseteq SteamIds /\ v.maps \subseteq MapIds
  BY AppAssumption
<1>3. /\ tab = Send(u, "config", None, None)
      /\ server = [mode |-> v.mode, role |-> role, live |-> Tokens \cap {token},
                   recs |-> v.recs, allow |-> v.allow, maps |-> v.maps, jobs |-> {},
                   added |-> {}, removed |-> {}]
  BY <1>1 DEF Get
<1>4. 1 \in Tokens /\ 0 \notin Tokens
  BY SessionAssumption DEF Tokens
<1>5. token \in Tokens \cup {0} /\ (token # 0 => token = 1 /\ v.role # None)
  BY <1>4
<1>6. role \in [Tokens -> Roles \cup {None}] /\ \A k \in Tokens : k = token => role[k] # None
  BY <1>2, <1>4
<1> HIDE DEF token, role
<1>7. NoAuth \in Auths
  BY DEF NoAuth, Auths, Modes
<1>8. empty \in Tabs /\ empty.net = {}
  BY <1>2, <1>5, <1>7 DEF Tabs
<1> HIDE DEF empty
<1>9. Left(empty, {}, {})
  BY <1>8, FS_EmptySet DEF Left, Numbered
<1>10. TabOK(u, {}, {})
  BY <1>2, <1>9, Mounted
<1> HIDE DEF u
<1>11. Suits(u, {}, {}, "config", None, None)
  BY <1>10 DEF Suits, Ops, PublicOps, Args, Thens, PageOf
<1>12. TabOK(tab, {}, {})
  BY <1>3, <1>11, Asked
<1>13. server \in Servers /\ SignedIn(server) /\ server.added = {} /\ server.removed = {}
  BY <1>2, <1>3, <1>6 DEF Servers, SignedIn
<1> QED
  BY <1>12, <1>13 DEF AppInv

LEMMA Stepped ==
    ASSUME AppInv, [Next]_vars
    PROVE  AppInv'
<1>1. CASE Network
  BY <1>1, Served, Delivered DEF Network
<1>2. CASE Trouble
  BY <1>2, Failed, Expired, JobEnded DEF Trouble
<1>3. CASE User
  BY <1>3, SessionClicked, AdminClicked, SelectorClicked, MapsClicked DEF User
<1>4. CASE UNCHANGED vars
  BY <1>4 DEF vars, AppInv, SignedIn
<1> QED
  BY <1>1, <1>2, <1>3, <1>4 DEF Next

\* The invariant: every request in flight was asked by the page it is for, is
\* waited for there, and what its continuation holds has been done (the
\* handlers of the pages behind each "await").
THEOREM AppInvariant == Spec => []AppInv
BY Visited, Stepped, PTL DEF Spec

\* The mounted page is the route's, of its own type, whatever answers arrive
\* late; no two requests in flight are mistaken for each other; who is signed
\* in has a role (App.tsx, main.tsx, useAuth.tsx).
THEOREM PagesTyped == Spec => []TypeOK
<1>1. AppInv => TypeOK
  <2>1. SUFFICES ASSUME AppInv PROVE TypeOK
    OBVIOUS
  <2>2. tab \in Tabs /\ tab.auth \in Auths
    BY <2>1 DEF AppInv, TabOK, Tabs
  <2>3. /\ tab.route \in Routes /\ tab.token \in Tokens \cup {0}
        /\ tab.returnTo \in Routes \cup {None} /\ tab.auth.role \in Roles \cup {None}
    BY <2>2 DEF Tabs, Auths
  <2> QED
    BY <2>1, <2>3 DEF AppInv, TabOK, TypeOK, Numbered, SignedIn
<1> QED
  BY <1>1, AppInvariant, PTL

\* No row of the allowlist page comes or goes but for what the server has
\* accepted, however many selections and pastes are under way and whichever of
\* their requests fail (confirmRemoveBulk, handleBulkAdd, handleAdd).
THEOREM RowsAreAccounted == Spec => []RowsAccounted
<1>1. AppInv => RowsAccounted
  BY DEF AppInv, TabOK, PanelOK, RowsAccounted
<1> QED
  BY <1>1, AppInvariant, PTL

\* No account is selected for removal that the page does not list any more
\* (performRemove, confirmRemoveBulk, toggleAllFiltered).
THEOREM SelectionIsListed == Spec => []SelectionListed
<1>1. AppInv => SelectionListed
  BY DEF AppInv, TabOK, PanelOK, SelectionListed
<1> QED
  BY <1>1, AppInvariant, PTL

\* A page never has two uploads of its own under way: its flag outlives the
\* dialog, and the request that clears it is the one it was set for
\* (UploadDialog's canSubmit, ImportDialog).
THEOREM OneUploadAtATime == Spec => []OneUpload
<1>1. AppInv => OneUpload
  <2>1. SUFFICES ASSUME AppInv PROVE OneUpload
    OBVIOUS
  <2> DEFINE U == {r \in tab.net : r.live /\ r.op \in {"upload", "import"}}
  <2>2. \A r, q \in U : r = q
    BY <2>1 DEF AppInv, TabOK, Single, Uploading
  <2>3. CASE U = {}
    BY <2>3, FS_EmptySet DEF OneUpload
  <2>4. CASE U # {}
    <3>1. PICK r : U = {r}
      BY <2>2, <2>4
    <3>2. Cardinality(U) = 1
      BY <3>1, FS_Singleton
    <3> QED
      BY <3>2 DEF OneUpload
  <2> QED
    BY <2>3, <2>4
<1> QED
  BY <1>1, AppInvariant, PTL
=============================================================================
