----------------------------- MODULE RequestAuth -----------------------------
(***************************************************************************)
(* Authenticated HTTP requests: the client signs a request                 *)
(* (crates/vaultex-crypto/src/auth.rs), the server's middleware checks it  *)
(* (extracted/server-middleware/auth.rs).                                  *)
(*                                                                         *)
(* The middleware is an async function with two awaits, the account lookup *)
(* and the reading of the body, so a call of it is three steps (Arrive,    *)
(* Lookup, Finish) between which the clock, the account table and other    *)
(* requests move on.  Between client and server requests are delayed,      *)
(* duplicated, lost and changed in any one field.                          *)
(*                                                                         *)
(* A signature is the pair of signer and signed message; a SHA-256 hash is *)
(* the body it was computed from.  An account is named by its identity     *)
(* key.                                                                    *)
(*                                                                         *)
(* The query string of a request goes to the handler with the path and is  *)
(* no part of what is signed: both sides sign uri().path() alone.  Handlers*)
(* do read it (GET /users?q=...).                                          *)
(***************************************************************************)
EXTENDS Integers, FiniteSets

CONSTANTS
    Accounts,
    Targets,       \* the <<method, path>> pairs that requests are sent to
    Queries,       \* what may follow the path, the empty query among it
    Bodies,        \* <<content, size in MiB, rounded up>>
    ByKeyPaths,    \* paths that start with /api/v1/accounts/by-key/
    BundlePaths,   \* paths that contain /prekey_bundle
    MediaPaths,    \* paths that start with /api/v1/media/
    Missing,       \* a header that is not there ...
    Garbled,       \* ... or does not parse
    None,
    Skews,         \* how far a client's clock may be off the server's
    MAX_TIMESTAMP_DRIFT_SECS,
    StartTime, MaxTime,   \* bounds: the server's clock
    MaxSigned,            \* bound: requests the clients sign
    MaxArrivals           \* bound: requests that reach the server

ASSUME AuthAssumption ==
    /\ MAX_TIMESTAMP_DRIFT_SECS \in Nat
    /\ StartTime \in Nat /\ MaxTime \in Nat
    /\ Skews \subseteq Int
    /\ Targets \subseteq STRING \X STRING
    \* a header that is missing or garbled is no account, time or signature
    /\ \A h \in {Missing, Garbled} :
          /\ h \notin Nat \cup Accounts
          /\ h \notin Accounts \X (STRING \X STRING \X Nat \X Bodies)
    /\ None \notin Accounts \cup Nat

VARIABLES
    now,          \* the server's clock
    skew,         \* skew[a]: how far a's clock is ahead
    deleted,      \* deleted[a]: how many requests had arrived when account a was
                  \* deleted, or None
    signed,       \* what was signed: [by, at, req], at in server time
    tasks,        \* calls of auth_middleware waiting at an await
    log,          \* calls that have returned or have run the handler
    arrivals      \* how many requests have reached the server

vars == <<now, skew, deleted, signed, tasks, log, arrivals>>

\* The accounts in the server's database.
registered == {a \in Accounts : deleted[a] = None}

Abs(i) == IF i < 0 THEN -i ELSE i

to_uppercase(method) == IF method = "get" THEN "GET" ELSE method

-----------------------------------------------------------------------------
(* The client *)

\* Fault: a clock before the epoch gives a negative timestamp.
ClientClockSigned(a) == now + skew[a]

\* SystemTime since the epoch; a clock before the epoch reads 0.
ClientClock(a) == IF now + skew[a] < 0 THEN 0 ELSE now + skew[a]

\* Fault: the body is left out of what is signed.
MessageWithoutBody(method, path, timestamp, body) == <<method, path, timestamp>>

\* Fault: the timestamp is left out of what is signed.
MessageWithoutTime(method, path, timestamp, body) == <<method, path, body>>

build_signed_message(method, path, timestamp, body) == <<method, path, timestamp, body>>

\* The request with its headers; the query is sent along as it is.
sign_request(a, target, query, body) ==
    [method    |-> target[1],
     path      |-> target[2],
     query     |-> query,
     body      |-> body,
     account   |-> a,
     timestamp |-> ClientClock(a),
     signature |-> <<a, build_signed_message(target[1], target[2], ClientClock(a), body)>>]

Sign(a, target, query, body) ==
    /\ Cardinality(signed) < MaxSigned
    /\ signed' = signed \cup
                    {[by |-> a, at |-> now, req |-> sign_request(a, target, query, body)]}
    /\ UNCHANGED <<now, skew, deleted, tasks, log, arrivals>>

-----------------------------------------------------------------------------
(* The network *)

Wire == {s.req : s \in signed}

\* r with one field changed, lost or swapped for that of another request.
Altered(r) ==
         {[r EXCEPT !.method = t[1], !.path = t[2]] : t \in Targets}
    \cup {[r EXCEPT !.query = q] : q \in Queries}
    \cup {[r EXCEPT !.body = b] : b \in Bodies}
    \cup {[r EXCEPT !.account = a] : a \in Accounts \cup {Missing, Garbled}}
    \cup {[r EXCEPT !.timestamp = t] : t \in (StartTime .. MaxTime) \cup {Missing, Garbled}}
    \cup {[r EXCEPT !.signature = x] : x \in {q.signature : q \in Wire} \cup {Missing, Garbled}}

-----------------------------------------------------------------------------
(* The server *)

is_unauthenticated_route(method, path) ==
    \/ <<method, path>> \in
          {<<"POST", "/api/v1/accounts/register">>,
           <<"GET",  "/api/v1/health">>,
           <<"GET",  "/api/v1/ping">>,
           <<"POST", "/api/v1/messages/send">>,
           <<"POST", "/api/v1/messages/sealed">>,
           <<"GET",  "/api/v1/stats/visits">>,
           <<"POST", "/api/v1/stats/visits">>}
    \/ path = "/ws"
    \/ method = "GET" /\ path \in ByKeyPaths \cup BundlePaths

Bad(header) == header \in {Missing, Garbled}

\* The header that stops the middleware: the first bad one, if any.
FirstBad(r) ==
    IF Bad(r.account) THEN r.account
    ELSE IF Bad(r.timestamp) THEN r.timestamp
    ELSE r.signature

\* Fault: the limit itself is already too far.
DriftAtLimit(timestamp) == Abs(now - timestamp) >= MAX_TIMESTAMP_DRIFT_SECS

DriftTooLarge(timestamp) == Abs(now - timestamp) > MAX_TIMESTAMP_DRIFT_SECS

\* axum::body::to_bytes with the limit of the path, in MiB.
BodyTooLarge(path, body) == body[2] > IF path \in MediaPaths THEN 100 ELSE 1

\* The server rebuilds the signed message itself, from the path without the query.
verify_signature(key, r) ==
    r.signature = <<key, build_signed_message(to_uppercase(r.method), r.path, r.timestamp, r.body)>>

\* auth_middleware returns: the handler has run (status "ok") or it has not.
Answer(n, r, checked, user, status) ==
    log' = log \cup {[n |-> n, req |-> r, checked |-> checked, user |-> user, status |-> status]}

\* Up to the first await: public routes, headers, timestamp.
Arrive(r) ==
    /\ arrivals < MaxArrivals
    /\ arrivals' = arrivals + 1
    /\ \/ /\ is_unauthenticated_route(to_uppercase(r.method), r.path)
          /\ Answer(arrivals, r, now, None, "ok")
          /\ UNCHANGED tasks
       \/ /\ ~is_unauthenticated_route(to_uppercase(r.method), r.path)
          /\ Bad(FirstBad(r))
          /\ Answer(arrivals, r, now, None, IF FirstBad(r) = Missing THEN "401" ELSE "400")
          /\ UNCHANGED tasks
       \/ /\ ~is_unauthenticated_route(to_uppercase(r.method), r.path)
          /\ ~Bad(FirstBad(r))
          /\ DriftTooLarge(r.timestamp)
          /\ Answer(arrivals, r, now, None, "401")
          /\ UNCHANGED tasks
       \/ /\ ~is_unauthenticated_route(to_uppercase(r.method), r.path)
          /\ ~Bad(FirstBad(r))
          /\ ~DriftTooLarge(r.timestamp)
          /\ tasks' = tasks \cup {[n |-> arrivals, req |-> r, checked |-> now, key |-> None]}
          /\ UNCHANGED log
    /\ UNCHANGED <<now, skew, deleted, signed>>

\* Fault: keys are remembered, and an account that was there once is found.
LookupRemembered(t) ==
    /\ t.key = None
    /\ tasks' = (tasks \ {t}) \cup {[t EXCEPT !.key = t.req.account]}
    /\ UNCHANGED <<log, now, skew, deleted, signed, arrivals>>

\* The database answers get_account_by_id, or fails, or holds a corrupt key.
Lookup(t) ==
    /\ t.key = None
    /\ \/ /\ t.req.account \in registered
          /\ tasks' = (tasks \ {t}) \cup {[t EXCEPT !.key = t.req.account]}
          /\ UNCHANGED log
       \/ /\ t.req.account \notin registered
          /\ tasks' = tasks \ {t}
          /\ Answer(t.n, t.req, t.checked, None, "401")
       \/ /\ tasks' = tasks \ {t}
          /\ Answer(t.n, t.req, t.checked, None, "500")
    /\ UNCHANGED <<now, skew, deleted, signed, arrivals>>

\* The body is read, or the stream breaks off; then the rest of the middleware.
Finish(t) ==
    /\ t.key # None
    /\ tasks' = tasks \ {t}
    /\ \/ Answer(t.n, t.req, t.checked, None, "400")
       \/ /\ ~BodyTooLarge(t.req.path, t.req.body)
          /\ ~verify_signature(t.key, t.req)
          /\ Answer(t.n, t.req, t.checked, None, "401")
       \/ /\ ~BodyTooLarge(t.req.path, t.req.body)
          /\ verify_signature(t.key, t.req)
          /\ Answer(t.n, t.req, t.checked, t.req.account, "ok")
    /\ UNCHANGED <<now, skew, deleted, signed, arrivals>>

\* An account is deleted; its id, a random UUID, is not given out again.
DeleteAccount(a) ==
    /\ a \in registered
    /\ deleted' = [deleted EXCEPT ![a] = arrivals]
    /\ UNCHANGED <<now, skew, signed, tasks, log, arrivals>>

Tick ==
    /\ now < MaxTime
    /\ now' = now + 1
    /\ UNCHANGED <<skew, deleted, signed, tasks, log, arrivals>>

-----------------------------------------------------------------------------

Init ==
    /\ now = StartTime
    /\ skew \in [Accounts -> Skews]
    /\ deleted = [a \in Accounts |-> None]
    /\ signed = {}
    /\ tasks = {}
    /\ log = {}
    /\ arrivals = 0

Next ==
    \/ \E a \in Accounts, target \in Targets, query \in Queries, body \in Bodies :
          Sign(a, target, query, body)
    \/ \E r \in Wire : Arrive(r)
    \/ \E q \in Wire : \E r \in Altered(q) : Arrive(r)
    \/ \E t \in tasks : Lookup(t) \/ Finish(t)
    \/ \E a \in Accounts : DeleteAccount(a)
    \/ Tick

Spec == Init /\ [][Next]_vars
-----------------------------------------------------------------------------
(* Properties *)

Requests ==
    [method : STRING, path : STRING, query : Queries, body : Bodies,
     account : Accounts \cup {Missing, Garbled},
     timestamp : Nat \cup {Missing, Garbled},
     signature : {s.req.signature : s \in signed} \cup {Missing, Garbled}]

Status == {"ok", "400", "401", "500"}

\* The bookkeeping of clients and server has its types; timestamps are
\* never negative, whatever the client's clock says.
TypeOK ==
    /\ now \in Nat
    /\ skew \in [Accounts -> Int]
    /\ deleted \in [Accounts -> Nat \cup {None}]
    /\ \A t \in tasks : t.req \in Requests /\ t.key \in Accounts \cup {None}
    /\ \A l \in log : l.req \in Requests /\ l.status \in Status

\* The calls whose request reached its handler as an AuthenticatedUser's.
Authenticated == {l \in log : l.status = "ok" /\ l.user # None}

\* The holder of the user's identity key signed this very method, path and body.
SignedBy(s, l) ==
    /\ s.by = l.user
    /\ s.req.method = to_uppercase(l.req.method)
    /\ s.req.path = l.req.path
    /\ s.req.body = l.req.body

\* The query string is the one part of a request the signature leaves open: whatever
\* the network changed, a handler sees a request its user signed, with the same
\* method, path, body, account and time, and any query; and routes that are not
\* public are reached by authenticated users only.
OnlyQueryUnsigned ==
    /\ \A l \in Authenticated : \E s \in signed :
          /\ SignedBy(s, l)
          /\ l.req = [s.req EXCEPT !.method = l.req.method, !.query = l.req.query]
    /\ \A l \in log :
          l.status = "ok" /\ l.user = None
              => is_unauthenticated_route(to_uppercase(l.req.method), l.req.path)

\* An admitted request was signed at most the drift limit plus the error of the
\* client's clock before the server checked it: old copies are of no use.
AdmittedFresh ==
    \A l \in Authenticated : \E s \in signed :
        /\ SignedBy(s, l)
        /\ l.checked - s.at <= MAX_TIMESTAMP_DRIFT_SECS +
                                  IF s.at + skew[s.by] < 0 THEN -s.at ELSE skew[s.by]

\* A request that arrives unchanged, soon enough for the client's clock error,
\* from an account that exists, is not answered "unauthorized".
HonestNotRefused ==
    \A l \in log : \A s \in signed :
        /\ l.req = s.req
        /\ l.req.method = to_uppercase(l.req.method)
        /\ l.checked - s.at + Abs(skew[s.by]) <= MAX_TIMESTAMP_DRIFT_SECS
        /\ s.by \in registered
        => l.status # "401"

\* Once an account is deleted, no request that arrives later is handled for it; one
\* that has passed the lookup by then still is.
DeletedStayOut ==
    \A l \in Authenticated : deleted[l.user] # None => l.n < deleted[l.user]

\* One signed request is handled at most once.
HandledOnce ==
    \A l1, l2 \in Authenticated : l1.req = l2.req => l1 = l2
=============================================================================
