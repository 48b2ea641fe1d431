------------------------------- MODULE MCApp --------------------------------
(* Visits of one tab, a few clicks each, with at most one network failure   *)
(* and one session that runs out.                                           *)
EXTENDS App

CONSTANTS boss, ann, bob, cat, altis

OneReady == [id \in 1 .. 2 |-> IF id = 1 THEN "ready" ELSE "failed"]

Visit(route, role, mode, allow, clicks, faults, expiries) ==
    [route |-> route, role |-> role, mode |-> mode, recs |-> OneReady,
     allow |-> allow, maps |-> {altis},
     budget |-> [clicks |-> clicks, faults |-> faults, expiries |-> expiries]]

\* An administrator who removes, one who imports, one where the list is not in
\* force; the selector's and the map manager's administrator; visitors with a
\* password, with a session that ends, and without any.
SomeVisits ==
    {Visit("/admin", "admin", "steamAllowlist", {boss, bob, cat}, 3, 1, 0),
     Visit("/admin", "admin", "steamAllowlist", {boss, bob}, 3, 1, 0),
     Visit("/admin", "admin", "steam", {boss}, 2, 0, 0),
     Visit("/", "admin", "public", {boss}, 4, 0, 0),
     Visit("/", "admin", "public", {boss}, 2, 1, 0),
     Visit("/map-manager", "admin", "public", {boss}, 3, 1, 0),
     Visit("/", None, "password", {boss}, 2, 0, 1),
     Visit("/recording", "viewer", "steam", {boss}, 1, 0, 1),
     Visit("/recording", None, "password", {boss}, 2, 0, 0),
     Visit("/map-manager", None, "steam", {boss}, 1, 0, 0)}

PastedText == {<<ann, bob, ann, Bad, cat>>}
=============================================================================
