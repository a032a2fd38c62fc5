----------------------------- MODULE AuthProofs -----------------------------
(***************************************************************************)
(* Proofs about RequestAuth, for any accounts, routes, clock errors and    *)
(* drift limit, any number of requests on their way and of calls of the    *)
(* middleware waiting at an await.                                         *)
(***************************************************************************)
EXTENDS RequestAuth, TLAPS

USE AuthAssumption

-----------------------------------------------------------------------------
(* The inductive invariant *)

\* What a's clock says when the server's says at.
ClockAt(a, at) == IF at + skew[a] < 0 THEN 0 ELSE at + skew[a]

\* A signature of the holder of account a for request r.
SignatureOf(a, r) == <<a, <<r.method, r.path, r.timestamp, r.body>>>>

SignedRequests ==
    [method : STRING, path : STRING, query : Queries, body : Bodies,
     account : Accounts, timestamp : Nat,
     signature : Accounts \X (STRING \X STRING \X Nat \X Bodies)]

\* Clients sign what they send, with the time their clock shows.
SignedOK ==
    \A s \in signed :
        /\ s \in [by : Accounts, at : Nat, req : SignedRequests]
        /\ s.at <= now
        /\ s.req.account = s.by
        /\ s.req.timestamp = ClockAt(s.by, s.at)
        /\ s.req.signature = SignatureOf(s.by, s.req)

\* A signature that is checked at a time was made by then: nobody can forge one.
Seen(r, checked) ==
    \/ Bad(r.signature)
    \/ \E s \in signed : s.at <= checked /\ r.signature = s.req.signature

\* What holds of a request once the middleware waits for the database or the body.
Checked(r, checked) ==
    /\ ~is_unauthenticated_route(to_uppercase(r.method), r.path)
    /\ ~Bad(r.account) /\ ~Bad(r.timestamp) /\ ~Bad(r.signature)
    /\ Abs(checked - r.timestamp) <= MAX_TIMESTAMP_DRIFT_SECS

\* Request n had arrived by the time account a was deleted, if it was.
Before(n, a) == deleted[a] # None => n < deleted[a]

TaskOK(t) ==
    /\ t \in [n : Nat, req : Requests, checked : Nat, key : Accounts \cup {None}]
    /\ Seen(t.req, t.checked)
    /\ Checked(t.req, t.checked)
    /\ t.key \in {None, t.req.account}
    /\ t.key # None => Before(t.n, t.key)

\* A call that ran the handler passed every check, or came in on a public route.
Admitted(l) ==
    l.status = "ok" =>
        \/ /\ l.user = None
           /\ is_unauthenticated_route(to_uppercase(l.req.method), l.req.path)
        \/ /\ l.user # None /\ l.user = l.req.account
           /\ Checked(l.req, l.checked)
           /\ verify_signature(l.user, l.req)
           /\ Before(l.n, l.user)

\* The reasons for an answer "unauthorized"; none of them goes away.
Refused(l) ==
    l.status = "401" =>
        \/ Bad(l.req.account) \/ Bad(l.req.timestamp) \/ Bad(l.req.signature)
        \/ Abs(l.checked - l.req.timestamp) > MAX_TIMESTAMP_DRIFT_SECS
        \/ l.req.account \notin registered
        \/ ~verify_signature(l.req.account, l.req)

CallOK(l) ==
    /\ l \in [n : Nat, req : Requests, checked : Nat, user : Accounts \cup {None},
              status : Status]
    /\ Seen(l.req, l.checked)
    /\ Admitted(l)
    /\ Refused(l)

AuthInv ==
    /\ now \in Nat /\ arrivals \in Nat
    /\ skew \in [Accounts -> Int]
    /\ deleted \in [Accounts -> Nat \cup {None}]
    /\ \A a \in Accounts : deleted[a] # None => deleted[a] <= arrivals
    /\ SignedOK
    /\ \A t \in tasks : TaskOK(t)
    /\ \A l \in log : CallOK(l)
    /\ \A x \in tasks \cup log : x.n < arrivals

-----------------------------------------------------------------------------
(* The steps *)

\* What reaches the server, changed or not, has the type of a request and a
\* signature made by now.
LEMMA Arrivals ==
    ASSUME AuthInv, NEW q \in Wire, NEW r \in {q} \cup Altered(q)
    PROVE  r \in Requests /\ Seen(r, now)
<1>1. PICK s \in signed : q = s.req
  BY DEF Wire
<1>2. q \in SignedRequests /\ s.at <= now
  BY <1>1 DEF AuthInv, SignedOK
<1>3. q \in Requests /\ Seen(q, now)
  BY <1>1, <1>2 DEF SignedRequests, Requests, Seen
<1>4. CASE r = q
  BY <1>3, <1>4
<1>5. ASSUME NEW t \in Targets, r = [q EXCEPT !.method = t[1], !.path = t[2]]
      PROVE  r \in Requests /\ Seen(r, now)
  <2>1. t[1] \in STRING /\ t[2] \in STRING
    OBVIOUS
  <2> QED BY <1>3, <1>5, <2>1 DEF Requests, Seen
<1>6. ASSUME NEW b \in Bodies, r = [q EXCEPT !.body = b]
      PROVE  r \in Requests /\ Seen(r, now)
  BY <1>3, <1>6 DEF Requests, Seen
<1>7. ASSUME NEW a \in Accounts \cup {Missing, Garbled}, r = [q EXCEPT !.account = a]
      PROVE  r \in Requests /\ Seen(r, now)
  BY <1>3, <1>7 DEF Requests, Seen
<1>8. ASSUME NEW t \in (StartTime .. MaxTime) \cup {Missing, Garbled},
             r = [q EXCEPT !.timestamp = t]
      PROVE  r \in Requests /\ Seen(r, now)
  <2>1. t \in Nat \cup {Missing, Garbled}
    OBVIOUS
  <2> QED BY <1>3, <1>8, <2>1 DEF Requests, Seen
<1>9. ASSUME NEW x \in {w.signature : w \in Wire} \cup {Missing, Garbled},
             r = [q EXCEPT !.signature = x]
      PROVE  r \in Requests /\ Seen(r, now)
  <2>1. CASE x \in {Missing, Garbled}
    BY <1>3, <1>9, <2>1 DEF Requests, Seen, Bad
  <2>2. CASE x \in {w.signature : w \in Wire}
    <3>1. PICK z \in signed : x = z.req.signature
      BY <2>2 DEF Wire
    <3>2. z.at <= now
      BY DEF AuthInv, SignedOK
    <3> QED BY <1>3, <1>9, <3>1, <3>2 DEF Requests, Seen
  <2> QED BY <2>1, <2>2
<1>10. ASSUME NEW x \in Queries, r = [q EXCEPT !.query = x]
       PROVE  r \in Requests /\ Seen(r, now)
  BY <1>3, <1>10 DEF Requests, Seen
<1> QED BY <1>4, <1>5, <1>6, <1>7, <1>8, <1>9, <1>10 DEF Altered

\* A new signature takes nothing from the requests on their way.
LEMMA SignKeeps ==
    ASSUME AuthInv, NEW a \in Accounts, NEW target \in Targets, NEW query \in Queries,
           NEW body \in Bodies, Sign(a, target, query, body)
    PROVE  AuthInv'
<1> DEFINE s == [by |-> a, at |-> now, req |-> sign_request(a, target, query, body)]
<1>1. /\ signed' = signed \cup {s}
      /\ UNCHANGED <<now, skew, deleted, tasks, log, arrivals>>
  BY DEF Sign
<1>2. target[1] \in STRING /\ target[2] \in STRING
  OBVIOUS
<1>3. now \in Nat /\ skew[a] \in Int /\ ClientClock(a) \in Nat /\ ClientClock(a) = ClockAt(a, now)
  BY DEF AuthInv, ClientClock, ClockAt
<1>4. /\ s \in [by : Accounts, at : Nat, req : SignedRequests]
      /\ s.at <= now
      /\ s.req.account = s.by
      /\ s.req.timestamp = ClockAt(s.by, s.at)
      /\ s.req.signature = SignatureOf(s.by, s.req)
  BY <1>2, <1>3 DEF sign_request, build_signed_message, SignedRequests, SignatureOf
<1>5. SignedOK'
  BY <1>1, <1>4 DEF AuthInv, SignedOK, ClockAt
<1>6. Requests \subseteq Requests'
  BY <1>1 DEF Requests
<1>7. \A r, checked : Seen(r, checked) => Seen(r, checked)'
  BY <1>1 DEF Seen, Bad
<1>8. \A t : TaskOK(t) => TaskOK(t)'
  BY <1>1, <1>6, <1>7 DEF TaskOK, Checked, Bad, Before
<1>9. \A l : CallOK(l) => CallOK(l)'
  BY <1>1, <1>6, <1>7 DEF CallOK, Admitted, Refused, Checked, Bad, Before, registered
<1> QED BY <1>1, <1>5, <1>8, <1>9 DEF AuthInv

\* A step that signs nothing and deletes no account leaves the invariant to
\* the tasks and the answers it adds.
LEMMA ServerKeeps ==
    ASSUME AuthInv, UNCHANGED <<now, skew, deleted, signed>>,
           arrivals' \in Nat, arrivals <= arrivals',
           \A t \in tasks' : t \in tasks \/ (TaskOK(t) /\ t.n < arrivals'),
           \A l \in log' : l \in log \/ (CallOK(l) /\ l.n < arrivals')
    PROVE  AuthInv'
<1>0. arrivals \in Nat /\ registered' = registered
  BY DEF AuthInv, registered
<1>1. SignedOK'
  BY DEF AuthInv, SignedOK, ClockAt
<1>2. \A t : TaskOK(t) => TaskOK(t)'
  BY <1>0 DEF TaskOK, Requests, Seen, Checked, Bad, Before
<1>3. \A l : CallOK(l) => CallOK(l)'
  BY <1>0 DEF CallOK, Requests, Seen, Admitted, Refused, Checked, Bad, Before
<1>4. \A a \in Accounts : deleted'[a] # None => deleted'[a] <= arrivals'
  BY <1>0 DEF AuthInv
<1>5. \A x \in tasks' \cup log' : x.n < arrivals'
  <2>1. ASSUME NEW x \in tasks \cup log PROVE x.n < arrivals'
    <3>1. x.n \in Nat /\ x.n < arrivals
      BY DEF AuthInv, TaskOK, CallOK
    <3> QED BY <1>0, <3>1
  <2> QED BY <2>1
<1> QED BY <1>1, <1>2, <1>3, <1>4, <1>5 DEF AuthInv

\* The first part of the middleware: public routes, headers, timestamp.
LEMMA ArriveKeeps ==
    ASSUME AuthInv, NEW r \in Requests, Seen(r, now), Arrive(r)
    PROVE  AuthInv'
<1> DEFINE public == is_unauthenticated_route(to_uppercase(r.method), r.path)
           call(status) == [n |-> arrivals, req |-> r, checked |-> now, user |-> None,
                            status |-> status]
<1>1. /\ arrivals \in Nat /\ arrivals' = arrivals + 1 /\ now \in Nat
      /\ arrivals' \in Nat /\ arrivals < arrivals' /\ arrivals <= arrivals'
      /\ UNCHANGED <<now, skew, deleted, signed>>
  BY DEF AuthInv, Arrive
<1>2. CASE public /\ Answer(arrivals, r, now, None, "ok") /\ UNCHANGED tasks
  <2>1. CallOK(call("ok"))
    BY <1>1, <1>2 DEF CallOK, Admitted, Refused, Status
  <2> QED BY <1>1, <1>2, <2>1, ServerKeeps DEF Answer
<1>3. CASE /\ Bad(FirstBad(r))
           /\ Answer(arrivals, r, now, None, IF FirstBad(r) = Missing THEN "401" ELSE "400")
           /\ UNCHANGED tasks
  <2>1. Bad(r.account) \/ Bad(r.timestamp) \/ Bad(r.signature)
    BY <1>3 DEF FirstBad
  <2>2. CallOK(call("401")) /\ CallOK(call("400"))
    BY <1>1, <2>1 DEF CallOK, Admitted, Refused, Status
  <2> QED BY <1>1, <1>3, <2>2, ServerKeeps DEF Answer
<1>4. CASE DriftTooLarge(r.timestamp) /\ Answer(arrivals, r, now, None, "401") /\ UNCHANGED tasks
  <2>1. CallOK(call("401"))
    BY <1>1, <1>4 DEF CallOK, Admitted, Refused, Status, DriftTooLarge
  <2> QED BY <1>1, <1>4, <2>1, ServerKeeps DEF Answer
<1>5. CASE /\ ~public /\ ~Bad(FirstBad(r)) /\ ~DriftTooLarge(r.timestamp)
           /\ tasks' = tasks \cup {[n |-> arrivals, req |-> r, checked |-> now, key |-> None]}
           /\ UNCHANGED log
  <2>1. ~Bad(r.account) /\ ~Bad(r.timestamp) /\ ~Bad(r.signature)
    BY <1>5 DEF FirstBad
  <2>2. r.timestamp \in Nat
    BY <2>1 DEF Requests, Bad
  <2>3. Abs(now - r.timestamp) <= MAX_TIMESTAMP_DRIFT_SECS
    BY <1>1, <1>5, <2>2 DEF DriftTooLarge, Abs
  <2>4. TaskOK([n |-> arrivals, req |-> r, checked |-> now, key |-> None])
    BY <1>1, <1>5, <2>1, <2>3 DEF TaskOK, Checked
  <2> QED BY <1>1, <1>5, <2>4, ServerKeeps
<1> QED BY <1>2, <1>3, <1>4, <1>5 DEF Arrive

\* The database has answered: the account is there, or the call ends.
LEMMA LookupKeeps ==
    ASSUME AuthInv, NEW t \in tasks, Lookup(t)
    PROVE  AuthInv'
<1> DEFINE call(status) == [n |-> t.n, req |-> t.req, checked |-> t.checked, user |-> None,
                            status |-> status]
<1>1. /\ arrivals \in Nat /\ UNCHANGED <<now, skew, deleted, signed, arrivals>>
      /\ TaskOK(t) /\ t.n < arrivals
  BY DEF AuthInv, Lookup
<1>2. CASE /\ t.req.account \in registered
           /\ tasks' = (tasks \ {t}) \cup {[t EXCEPT !.key = t.req.account]}
           /\ UNCHANGED log
  <2>1. t.req.account \in Accounts /\ Before(t.n, t.req.account)
    BY <1>2 DEF registered, Before
  <2>2. /\ TaskOK([t EXCEPT !.key = t.req.account])
        /\ [t EXCEPT !.key = t.req.account].n < arrivals'
    BY <1>1, <2>1 DEF TaskOK
  <2>3. \A x \in tasks' : x \in tasks \/ (TaskOK(x) /\ x.n < arrivals')
    BY <1>2, <2>2
  <2>4. arrivals' \in Nat /\ arrivals <= arrivals' /\ \A l \in log' : l \in log
    BY <1>1, <1>2
  <2> QED BY <1>1, <2>3, <2>4, ServerKeeps
<1>3. CASE /\ t.req.account \notin registered
           /\ tasks' = tasks \ {t}
           /\ Answer(t.n, t.req, t.checked, None, "401")
  <2>1. CallOK(call("401"))
    BY <1>1, <1>3 DEF TaskOK, CallOK, Admitted, Refused, Status
  <2> QED BY <1>1, <1>3, <2>1, ServerKeeps DEF Answer
<1>4. CASE tasks' = tasks \ {t} /\ Answer(t.n, t.req, t.checked, None, "500")
  <2>1. CallOK(call("500"))
    BY <1>1 DEF TaskOK, CallOK, Admitted, Refused, Status
  <2> QED BY <1>1, <1>4, <2>1, ServerKeeps DEF Answer
<1> QED BY <1>2, <1>3, <1>4 DEF Lookup

\* The body has been read: the signature decides.
LEMMA FinishKeeps ==
    ASSUME AuthInv, NEW t \in tasks, Finish(t)
    PROVE  AuthInv'
<1> DEFINE call(user, status) == [n |-> t.n, req |-> t.req, checked |-> t.checked, user |-> user,
                                  status |-> status]
<1>1. /\ arrivals \in Nat /\ UNCHANGED <<now, skew, deleted, signed, arrivals>>
      /\ TaskOK(t) /\ t.n < arrivals /\ tasks' = tasks \ {t} /\ t.key # None
  BY DEF AuthInv, Finish
<1>2. t.key = t.req.account /\ t.key \in Accounts
  BY <1>1 DEF TaskOK
<1>3. CASE Answer(t.n, t.req, t.checked, None, "400")
  <2>1. CallOK(call(None, "400"))
    BY <1>1 DEF TaskOK, CallOK, Admitted, Refused, Status
  <2> QED BY <1>1, <1>3, <2>1, ServerKeeps DEF Answer
<1>4. CASE ~verify_signature(t.key, t.req) /\ Answer(t.n, t.req, t.checked, None, "401")
  <2>1. CallOK(call(None, "401"))
    BY <1>1, <1>2, <1>4 DEF TaskOK, CallOK, Admitted, Refused, Status
  <2> QED BY <1>1, <1>4, <2>1, ServerKeeps DEF Answer
<1>5. CASE verify_signature(t.key, t.req) /\ Answer(t.n, t.req, t.checked, t.req.account, "ok")
  <2>1. CallOK(call(t.req.account, "ok"))
    BY <1>1, <1>2, <1>5 DEF TaskOK, CallOK, Admitted, Refused, Status
  <2> QED BY <1>1, <1>5, <2>1, ServerKeeps DEF Answer
<1> QED BY <1>3, <1>4, <1>5 DEF Finish

\* An account goes, and time passes; neither takes back a reason for an answer.
LEMMA DeleteKeeps ==
    ASSUME AuthInv, NEW a \in Accounts, DeleteAccount(a)
    PROVE  AuthInv'
<1>1. /\ arrivals \in Nat /\ deleted[a] = None
      /\ deleted' = [deleted EXCEPT ![a] = arrivals]
      /\ UNCHANGED <<now, skew, signed, tasks, log, arrivals>>
  BY DEF AuthInv, DeleteAccount, registered
<1>2. /\ deleted' \in [Accounts -> Nat \cup {None}]
      /\ \A b \in Accounts : deleted'[b] # None => deleted'[b] <= arrivals'
  BY <1>1 DEF AuthInv
<1>3. registered' \subseteq registered
  BY <1>1 DEF AuthInv, registered
<1>4. ASSUME NEW n \in Nat, n < arrivals, NEW b \in Accounts, Before(n, b)
      PROVE  Before(n, b)'
  BY <1>1, <1>4 DEF AuthInv, Before
<1>5. SignedOK'
  BY <1>1 DEF AuthInv, SignedOK, ClockAt
<1>6. ASSUME NEW t \in tasks PROVE TaskOK(t)'
  <2>0. TaskOK(t)
    BY DEF AuthInv
  <2>1. t.n \in Nat /\ t.n < arrivals /\ t.key \in Accounts \cup {None}
    BY <2>0 DEF TaskOK, AuthInv
  <2>2. t.key # None => Before(t.n, t.key)'
    BY <1>4, <2>0, <2>1 DEF TaskOK
  <2> QED BY <1>1, <2>0, <2>2 DEF TaskOK, Requests, Seen, Checked, Bad
<1>7. ASSUME NEW l \in log PROVE CallOK(l)'
  <2>0. CallOK(l)
    BY DEF AuthInv
  <2>1. l.n \in Nat /\ l.n < arrivals /\ l.user \in Accounts \cup {None}
    BY <2>0 DEF CallOK, AuthInv
  <2>2. Admitted(l)'
    BY <1>1, <1>4, <2>0, <2>1 DEF CallOK, Admitted, Checked, Bad
  <2>3. Refused(l)'
    BY <1>1, <1>3, <2>0 DEF CallOK, Refused, Bad
  <2> QED BY <1>1, <2>0, <2>2, <2>3 DEF CallOK, Requests, Seen, Bad
<1> QED BY <1>1, <1>2, <1>5, <1>6, <1>7 DEF AuthInv

LEMMA TickKeeps ==
    ASSUME AuthInv, Tick
    PROVE  AuthInv'
<1>1. /\ now' \in Nat /\ now <= now' /\ registered' = registered
      /\ UNCHANGED <<skew, deleted, signed, tasks, log, arrivals>>
  BY DEF AuthInv, Tick, registered
<1>2. SignedOK'
  BY <1>1 DEF AuthInv, SignedOK, ClockAt
<1>3. \A t : TaskOK(t) => TaskOK(t)'
  BY <1>1 DEF TaskOK, Requests, Seen, Checked, Bad, Before
<1>4. \A l : CallOK(l) => CallOK(l)'
  BY <1>1 DEF CallOK, Requests, Seen, Admitted, Refused, Checked, Bad, Before
<1> QED BY <1>1, <1>2, <1>3, <1>4 DEF AuthInv

\* AuthInv is an invariant of the clients, the network and the middleware.
THEOREM AuthInvariance == Spec => []AuthInv
<1>1. Init => AuthInv
  <2>1. [Accounts -> Skews] \subseteq [Accounts -> Int]
    OBVIOUS
  <2>2. 0 \in Nat
    OBVIOUS
  <2> QED BY <2>1, <2>2 DEF Init, AuthInv, SignedOK
<1>2. AuthInv /\ [Next]_vars => AuthInv'
  <2> SUFFICES ASSUME AuthInv, [Next]_vars
               PROVE  AuthInv'
    OBVIOUS
  <2>1. CASE \E a \in Accounts, target \in Targets, query \in Queries, body \in Bodies :
               Sign(a, target, query, body)
    BY <2>1, SignKeeps
  <2>2. CASE \E q \in Wire : \E r \in {q} \cup Altered(q) : Arrive(r)
    BY <2>2, Arrivals, ArriveKeeps
  <2>3. CASE \E t \in tasks : Lookup(t)
    BY <2>3, LookupKeeps
  <2>4. CASE \E t \in tasks : Finish(t)
    BY <2>4, FinishKeeps
  <2>5. CASE Tick \/ \E a \in Accounts : DeleteAccount(a)
    BY <2>5, TickKeeps, DeleteKeeps
  <2>6. CASE UNCHANGED vars
    <3>1. UNCHANGED <<now, skew, deleted, signed, tasks, log, arrivals>>
      BY <2>6 DEF vars
    <3>2. arrivals' \in Nat /\ arrivals <= arrivals'
      BY <3>1 DEF AuthInv
    <3> QED BY <3>1, <3>2, ServerKeeps
  <2> QED BY <2>1, <2>2, <2>3, <2>4, <2>5, <2>6 DEF Next
<1> QED BY <1>1, <1>2, PTL DEF Spec

-----------------------------------------------------------------------------
(* What follows from it *)

\* Clients and server keep their types, at every await and clock error:
\* no timestamp is ever negative.
THEOREM AuthTypeCorrect == Spec => []TypeOK
<1>1. AuthInv => TypeOK
  BY DEF AuthInv, TaskOK, CallOK, TypeOK
<1> QED BY <1>1, AuthInvariance, PTL

\* The request of an authenticated call carries a signature its user made, no
\* later than it was checked, for its method, path, time and body.
LEMMA AuthenticatedSigned ==
    ASSUME AuthInv, NEW l \in Authenticated
    PROVE  /\ l.user \in Accounts /\ l.checked \in Nat /\ Checked(l.req, l.checked)
           /\ \E s \in signed : /\ SignedBy(s, l) /\ s.req.timestamp = l.req.timestamp
                               /\ s.req.signature = l.req.signature
                               /\ s.req.account = l.req.account
<1>1. l \in log /\ l.status = "ok" /\ l.user # None
  BY DEF Authenticated
<1>2. CallOK(l)
  BY <1>1 DEF AuthInv
<1>3. Checked(l.req, l.checked) /\ verify_signature(l.user, l.req) /\ l.user = l.req.account
  BY <1>1, <1>2 DEF CallOK, Admitted
<1>4. PICK s \in signed : l.req.signature = s.req.signature
  BY <1>2, <1>3 DEF CallOK, Seen, Checked
<1>5. s.req.signature = SignatureOf(s.by, s.req) /\ s.req.account = s.by
  BY DEF AuthInv, SignedOK
<1>6. <<s.by, <<s.req.method, s.req.path, s.req.timestamp, s.req.body>>>>
        = <<l.user, <<to_uppercase(l.req.method), l.req.path, l.req.timestamp, l.req.body>>>>
  BY <1>3, <1>4, <1>5 DEF verify_signature, build_signed_message, SignatureOf
<1>7. /\ SignedBy(s, l) /\ s.req.timestamp = l.req.timestamp
      /\ s.req.signature = l.req.signature
      /\ s.req.account = l.req.account
  BY <1>3, <1>4, <1>5, <1>6 DEF SignedBy
<1> QED BY <1>1, <1>2, <1>3, <1>7 DEF CallOK

\* Whatever the network changes, swaps, repeats or delays, a handler runs only for
\* a request its user signed, of which nothing but the query string can differ, or
\* on a public route.
THEOREM AllButQuerySigned == Spec => []OnlyQueryUnsigned
<1>1. AuthInv => OnlyQueryUnsigned
  <2> SUFFICES ASSUME AuthInv PROVE OnlyQueryUnsigned
    OBVIOUS
  <2>1. ASSUME NEW l \in Authenticated
        PROVE  \E s \in signed :
                  /\ SignedBy(s, l)
                  /\ l.req = [s.req EXCEPT !.method = l.req.method, !.query = l.req.query]
    <3>1. PICK s \in signed : /\ SignedBy(s, l) /\ s.req.timestamp = l.req.timestamp
                              /\ s.req.signature = l.req.signature
                              /\ s.req.account = l.req.account
      BY <2>1, AuthenticatedSigned
    <3>2. s.req \in SignedRequests /\ l.req \in Requests
      BY <2>1 DEF AuthInv, SignedOK, Authenticated, CallOK
    <3>3. l.req = [s.req EXCEPT !.method = l.req.method, !.query = l.req.query]
      BY <3>1, <3>2 DEF SignedBy, SignedRequests, Requests
    <3> QED BY <3>1, <3>3
  <2>2. ASSUME NEW l \in log, l.status = "ok", l.user = None
        PROVE  is_unauthenticated_route(to_uppercase(l.req.method), l.req.path)
    BY <2>2 DEF AuthInv, CallOK, Admitted
  <2> QED BY <2>1, <2>2 DEF OnlyQueryUnsigned
<1> QED BY <1>1, AuthInvariance, PTL

\* No request that arrives after its account was deleted is handled for it, whatever
\* is waiting at an await when the account goes.
THEOREM DeletedOut == Spec => []DeletedStayOut
<1>1. AuthInv => DeletedStayOut
  <2> SUFFICES ASSUME AuthInv, NEW l \in Authenticated, deleted[l.user] # None
               PROVE  l.n < deleted[l.user]
    BY DEF DeletedStayOut
  <2>1. l \in log /\ l.status = "ok" /\ l.user # None
    BY DEF Authenticated
  <2> QED BY <2>1 DEF AuthInv, CallOK, Admitted, Before
<1> QED BY <1>1, AuthInvariance, PTL

\* The middleware admits nothing that was signed longer ago than the drift limit
\* and the error of the signer's clock allow.
THEOREM FreshOnly == Spec => []AdmittedFresh
<1>1. AuthInv => AdmittedFresh
  <2> SUFFICES ASSUME AuthInv, NEW l \in Authenticated
               PROVE  \E s \in signed :
                          /\ SignedBy(s, l)
                          /\ l.checked - s.at <= MAX_TIMESTAMP_DRIFT_SECS +
                                IF s.at + skew[s.by] < 0 THEN -s.at ELSE skew[s.by]
    BY DEF AdmittedFresh
  <2>1. PICK s \in signed : SignedBy(s, l) /\ s.req.timestamp = l.req.timestamp
    BY AuthenticatedSigned
  <2>2. /\ s.by \in Accounts /\ s.at \in Nat /\ skew[s.by] \in Int
        /\ l.req.timestamp = ClockAt(s.by, s.at)
    BY <2>1 DEF AuthInv, SignedOK
  <2>3. l.checked \in Nat /\ Abs(l.checked - l.req.timestamp) <= MAX_TIMESTAMP_DRIFT_SECS
    BY AuthenticatedSigned DEF Checked
  <2>4. l.checked - s.at <= MAX_TIMESTAMP_DRIFT_SECS +
           IF s.at + skew[s.by] < 0 THEN -s.at ELSE skew[s.by]
    BY <2>2, <2>3 DEF ClockAt, Abs
  <2> QED BY <2>1, <2>4
<1> QED BY <1>1, AuthInvariance, PTL

\* A request that arrives as it was signed, in time for the error of the signer's
\* clock and for an account that exists, is not refused as unauthorized.
THEOREM HonestServed == Spec => []HonestNotRefused
<1>1. AuthInv => HonestNotRefused
  <2> SUFFICES ASSUME AuthInv, NEW l \in log, NEW s \in signed,
                      l.req = s.req,
                      l.req.method = to_uppercase(l.req.method),
                      l.checked - s.at + Abs(skew[s.by]) <= MAX_TIMESTAMP_DRIFT_SECS,
                      s.by \in registered,
                      l.status = "401"
               PROVE  FALSE
    BY DEF HonestNotRefused
  <2>1. CallOK(l)
    BY DEF AuthInv
  <2>2. /\ s \in [by : Accounts, at : Nat, req : SignedRequests]
        /\ l.req.account = s.by
        /\ l.req.timestamp = ClockAt(s.by, s.at)
        /\ l.req.signature = SignatureOf(s.by, l.req)
    BY DEF AuthInv, SignedOK
  <2>3. ~Bad(l.req.account) /\ ~Bad(l.req.timestamp) /\ ~Bad(l.req.signature)
    BY <2>2 DEF SignedRequests, Bad
  <2>4. verify_signature(l.req.account, l.req)
    BY <2>2 DEF verify_signature, build_signed_message, SignatureOf
  <2>5. PICK z \in signed : z.at <= l.checked /\ l.req.signature = z.req.signature
    BY <2>1, <2>3 DEF CallOK, Seen
  <2>6. z.at \in Nat /\ z.req.signature = SignatureOf(z.by, z.req)
        /\ z.req.timestamp = ClockAt(z.by, z.at)
    BY DEF AuthInv, SignedOK
  <2>7. z.by = s.by /\ l.req.timestamp = ClockAt(s.by, z.at)
    BY <2>2, <2>5, <2>6 DEF SignatureOf
  <2>8. ~(Abs(l.checked - l.req.timestamp) > MAX_TIMESTAMP_DRIFT_SECS)
    <3>1. s.at \in Nat /\ l.checked \in Nat /\ skew[s.by] \in Int
      BY <2>1, <2>2 DEF CallOK, AuthInv
    <3> QED BY <2>2, <2>5, <2>6, <2>7, <3>1 DEF ClockAt, Abs
  <2> QED BY <2>1, <2>2, <2>3, <2>4, <2>8 DEF CallOK, Refused
<1> QED BY <1>1, AuthInvariance, PTL
=============================================================================
