-------------------------------- MODULE Server --------------------------------
(****************************************************************************)
(* The server process, cmd/server: start, graceful stop, kill and restart,  *)
(* with the requests and websockets it serves, the connection pool they     *)
(* share, and the access tokens that they sign and check (auth/token.go,    *)
(* requireAuth, the gateway's Handler).                                     *)
(*                                                                          *)
(* The refresh-token store is SessionChain: what RefreshTokens is shown to  *)
(* implement is used here in its place, one step per transaction.           *)
(****************************************************************************)
EXTENDS SessionChain, Integers, FiniteSets

CONSTANTS
  Requests,   \* goroutines of net/http, one connection each
  PoolSize,   \* MaxConns of the pool
  AccessTTL,  \* lifetime of an access token
  MaxTime     \* bound: the clock

ASSUME PoolAssumption == PoolSize \in Nat \ {0}
ASSUME TTLAssumption  == AccessTTL \in Nat /\ MaxTime \in Nat

Times == 0 .. MaxTime + AccessTTL

\* A signed access token; which session it goes with is told when it is answered.
NoPass == <<>>
Passes == [session : Tokens \cup {NoToken}, exp : Times]

VARIABLES
  phase,   \* of main: "drained" and "expired" are the ways Shutdown returns
  now,     \* time.Now
  conns,   \* connections the pool has lent
  \* per request
  job,     \* what it asks for; "read": any handler behind requireAuth
  pc,      \* where its goroutine is; "open": an idle websocket
  token,   \* the refresh token it presents, then the one it answers
  pass,    \* the access token it answers
  \* clients
  held,    \* refresh tokens that were answered
  access,  \* access tokens that were answered, signed with the key of this run
  \* history, read by the properties only
  lost,      \* refresh tokens that no answer will carry: the connection broke, the
             \* process was killed or out of time, or the request failed after
             \* the store had minted them
  closedAt,  \* when each session was closed
  overtaken  \* sessions closed while a refresh of them had still to sign

request == <<job, pc, token, pass>>
clients == <<held, access>>
history == <<lost, closedAt, overtaken>>
store   == <<session, tip>>
svars   == <<store, phase, now, conns, request, clients, history>>

Jobs == {"login", "refresh", "logout", "read", "socket"}

\* A connection is lent exactly to the requests that have a query running.
ServerTypeOK ==
  /\ phase \in {"down", "serving", "draining", "drained", "expired"}
  /\ now \in 0 .. MaxTime
  /\ conns \in 0 .. PoolSize
  /\ conns = Cardinality({r \in Requests : pc[r] = "querying"})
  /\ job \in [Requests -> Jobs \cup {"none"}]
  /\ pc \in [Requests -> {"idle", "reading", "waiting", "querying", "signing", "answering", "open"}]
  /\ token \in [Requests -> Tokens \cup {NoToken}]
  /\ pass \in [Requests -> Passes \cup {NoPass}]
  /\ held \subseteq Minted
  /\ access \subseteq Passes
  /\ lost \subseteq Minted
  /\ closedAt \in [Tokens -> Times]
  /\ overtaken \subseteq Minted

Quiet ==
  /\ job' = [r \in Requests |-> "none"]
  /\ pc' = [r \in Requests |-> "idle"]
  /\ token' = [r \in Requests |-> NoToken]
  /\ pass' = [r \in Requests |-> NoPass]
  /\ conns' = 0

ServerInit ==
  /\ Init
  /\ phase = "down" /\ now = 0 /\ conns = 0
  /\ job = [r \in Requests |-> "none"]
  /\ pc = [r \in Requests |-> "idle"]
  /\ token = [r \in Requests |-> NoToken]
  /\ pass = [r \in Requests |-> NoPass]
  /\ held = {} /\ access = {}
  /\ lost = {} /\ closedAt = [t \in Tokens |-> 0] /\ overtaken = {}

------------------------------------------------------------------------------
(* main *)

\* Refresh tokens on their way to a client.
InFlight == {token[r] : r \in {q \in Requests : pc[q] \in {"signing", "answering"}}} \ {NoToken}

\* The tokens S will never be answered.
Lose(S) ==
  /\ lost' = lost \cup (S \ {NoToken})
  /\ UNCHANGED <<closedAt, overtaken>>

\* LoadKeyOrEphemeral: the key of the runs before, or one that verifies none of
\* their tokens.
Start ==
  /\ phase = "down"
  /\ phase' = "serving"
  /\ access' \in {access, {}}
  /\ UNCHANGED <<store, now, conns, request, held, history>>

\* SIGINT or SIGTERM, or ListenAndServe fails: Shutdown closes the listener.
Signal ==
  /\ phase = "serving"
  /\ phase' = "draining"
  /\ UNCHANGED <<store, now, conns, request, clients, history>>

\* Mutation: main does not wait for Shutdown.
NothingAwaited == TRUE

\* No connection is active; a hijacked one is none of the http server's.
NothingServed == \A r \in Requests : pc[r] = "idle" \/ job[r] = "socket"

Drain ==
  /\ phase = "draining" /\ NothingServed
  /\ phase' = "drained"
  /\ UNCHANGED <<store, now, conns, request, clients, history>>

\* Mutation: Shutdown gets a context without a deadline.
DrainForever == FALSE /\ UNCHANGED svars

\* Ten seconds are over.
DrainTimesOut ==
  /\ phase = "draining"
  /\ phase' = "expired"
  /\ UNCHANGED <<store, now, conns, request, clients, history>>

\* The deferred pool.Close has begun.
PoolClosed == phase \in {"drained", "expired"}

\* pool.Close waits for the connections it has lent; then main returns, and
\* every goroutine ends with it.
Exit ==
  /\ PoolClosed /\ conns = 0
  /\ phase' = "down"
  /\ Lose(IF phase = "expired" THEN InFlight ELSE {})
  /\ Quiet
  /\ UNCHANGED <<store, now, clients>>

\* An open transaction is rolled back, or it had been committed.
Kill ==
  /\ phase # "down"
  /\ phase' = "down"
  /\ Lose(InFlight)
  /\ Quiet
  /\ UNCHANGED <<store, now, clients>>

------------------------------------------------------------------------------
(* Requests *)

Goto(r, where) == pc' = [pc EXCEPT ![r] = where]

\* Mutation: the expiry of an access token is not checked.
AcceptsForever(a) == TRUE

\* Issuer.Parse, for the tokens in access: their key and type are right.
Accepts(a) == now < a.exp

Arrive(r, j, where, t) ==
  /\ phase = "serving" /\ pc[r] = "idle"
  /\ job' = [job EXCEPT ![r] = j]
  /\ token' = [token EXCEPT ![r] = t]
  /\ Goto(r, where)
  /\ UNCHANGED <<store, phase, now, conns, pass, clients, history>>

ArriveLogin(r)      == Arrive(r, "login", "reading", NoToken)
ArriveRefresh(r, t) == t \in held /\ Arrive(r, "refresh", "reading", t)
ArriveLogout(r, t)  == t \in held /\ Arrive(r, "logout", "reading", t)

\* requireAuth: 401, or on to the handler.
ArriveRead(r, a) == a \in access /\ Accepts(a) /\ Arrive(r, "read", "reading", NoToken)

\* Handler: 401, or the connection is hijacked.
ArriveSocket(r, a) == a \in access /\ Accepts(a) /\ Arrive(r, "socket", "open", NoToken)

\* The body has been read, or a subscribe command comes in: a query follows.
NeedsQuery(r) ==
  /\ pc[r] \in {"reading", "open"}
  /\ Goto(r, "waiting")
  /\ UNCHANGED <<store, phase, now, conns, job, token, pass, clients, history>>

Acquire(r) ==
  /\ pc[r] = "waiting" /\ ~PoolClosed
  /\ conns < PoolSize
  /\ conns' = conns + 1
  /\ Goto(r, "querying")
  /\ UNCHANGED <<store, phase, now, job, token, pass, clients, history>>

\* After an error: 401 or 500 and nothing handed out, or an error frame.
Fail(r) ==
  /\ Goto(r, IF job[r] = "socket" THEN "open" ELSE "answering")
  /\ token' = [token EXCEPT ![r] = NoToken]
  /\ pass' = [pass EXCEPT ![r] = NoPass]
  /\ UNCHANGED <<phase, now, job, clients>>

AcquireFails(r) ==
  /\ pc[r] = "waiting" /\ PoolClosed
  /\ Fail(r)
  /\ UNCHANGED <<store, conns, history>>

\* Mutation: a failed query does not give its connection back.
QueryFailsLeaking(r) ==
  /\ pc[r] = "querying"
  /\ Fail(r)
  /\ UNCHANGED <<store, conns, history>>

\* An error that left the tables as they were, no such row, or a wrong password.
QueryFails(r) ==
  /\ pc[r] = "querying" /\ conns' = conns - 1
  /\ Fail(r)
  /\ UNCHANGED <<store, history>>

\* A query of job j has succeeded; its connection is returned.
Query(r, j) == pc[r] = "querying" /\ job[r] = j /\ conns' = conns - 1

\* lookup in handleLogin; handleRegister creates the account instead.
LookUp(r) ==
  /\ Query(r, "login") /\ pass[r] = NoPass
  /\ Goto(r, "signing")
  /\ UNCHANGED <<store, phase, now, job, token, pass, clients, history>>

Fresh == CHOOSE t \in Tokens \ Minted : TRUE

\* session.Store.Issue in issueAndRespond
OpenSession(r) ==
  /\ Query(r, "login") /\ pass[r] # NoPass
  /\ Minted # Tokens
  /\ Open(Fresh)
  /\ token' = [token EXCEPT ![r] = Fresh]
  /\ Goto(r, "answering")
  /\ UNCHANGED <<phase, now, job, pass, clients, history>>

\* session.Store.Rotate
Rotate(r) ==
  /\ Query(r, "refresh")
  /\ Minted # Tokens
  /\ Advance(token[r], Fresh)
  /\ token' = [token EXCEPT ![r] = Fresh]
  /\ Goto(r, "signing")
  /\ UNCHANGED <<phase, now, job, pass, clients, history>>

\* A session was stored, or a token rotated, but the database's confirmation did
\* not arrive: 500 or 401, and nobody has the new token.
Unconfirmed(r) ==
  /\ Minted # Tokens
  /\ \/ Query(r, "login") /\ pass[r] # NoPass /\ Open(Fresh)
     \/ Query(r, "refresh") /\ Advance(token[r], Fresh)
  /\ Lose({Fresh})
  /\ Fail(r)

\* Sessions that lose their tips S: when, and which of them a refresh that has
\* still to sign belongs to.
Note(S) ==
  LET over == {session[t] : t \in S} IN
  /\ closedAt' = [s \in Tokens |-> IF s \in over THEN now ELSE closedAt[s]]
  /\ overtaken' = overtaken \cup
       {s \in over : \E r \in Requests :
          job[r] = "refresh" /\ pc[r] = "signing" /\ session[token[r]] = s}
  /\ UNCHANGED lost

\* The replay of a spent token in Rotate, and Revoke.  Nothing is closed when the
\* row has gone or, as RefreshTokens shows, a rotation overlaps.  The answer, with
\* or without the database's confirmation, carries no token.
EndSession(r) ==
  /\ \/ Query(r, "refresh") /\ token[r] \notin tip
     \/ Query(r, "logout")
  /\ \E S \in {{}, {t \in tip : session[t] = session[token[r]]}} : Close(S) /\ Note(S)
  /\ token' = [token EXCEPT ![r] = NoToken]
  /\ Goto(r, "answering")
  /\ UNCHANGED <<phase, now, job, pass, clients>>

\* A handler behind requireAuth, or the lookup of a channel.
ReadRows(r) ==
  /\ Query(r, "read") \/ Query(r, "socket")
  /\ Goto(r, IF job[r] = "socket" THEN "open" ELSE "answering")
  /\ UNCHANGED <<store, phase, now, job, token, pass, clients, history>>

\* Issuer.Issue: before the session of a login is stored, after the rotation of a
\* refresh.
Sign(r) ==
  /\ pc[r] = "signing"
  /\ pass' = [pass EXCEPT ![r] = [session |-> NoToken, exp |-> now + AccessTTL]]
  /\ Goto(r, IF job[r] = "login" THEN "waiting" ELSE "answering")
  /\ UNCHANGED <<store, phase, now, conns, job, token, clients, history>>

\* Issue returns an error: 500, and a refresh has been rotated for nobody.
SignFails(r) ==
  /\ pc[r] = "signing"
  /\ Lose({token[r]})
  /\ Fail(r)
  /\ UNCHANGED <<store, conns>>

Leave(r) ==
  /\ Goto(r, "idle")
  /\ job' = [job EXCEPT ![r] = "none"]
  /\ token' = [token EXCEPT ![r] = NoToken]
  /\ pass' = [pass EXCEPT ![r] = NoPass]
  /\ UNCHANGED <<store, phase, now, conns>>

\* The answer reaches the client.
Answer(r) ==
  /\ pc[r] = "answering"
  /\ IF token[r] = NoToken
     THEN UNCHANGED clients
     ELSE /\ held' = held \cup {token[r]}
          /\ access' = access \cup {[pass[r] EXCEPT !.session = session[token[r]]]}
  /\ Leave(r)
  /\ UNCHANGED history

\* The connection is lost; a query that runs is brought to its end first.
Disconnect(r) ==
  /\ pc[r] \notin {"idle", "querying"}
  /\ Lose(IF pc[r] \in {"signing", "answering"} THEN {token[r]} ELSE {})
  /\ Leave(r)
  /\ UNCHANGED clients

------------------------------------------------------------------------------
(* The clock; a refresh token expires *)

Tick ==
  /\ now < MaxTime
  /\ now' = now + 1
  /\ UNCHANGED <<store, phase, conns, request, clients, history>>

Expire(t) ==
  /\ t \in tip
  /\ Close({t}) /\ Note({t})
  /\ UNCHANGED <<phase, now, conns, request, clients>>

------------------------------------------------------------------------------
Main == Start \/ Signal \/ Drain \/ DrainTimesOut \/ Exit \/ Kill

QueryEnds(r) ==
  \/ LookUp(r) \/ OpenSession(r) \/ Rotate(r) \/ EndSession(r) \/ ReadRows(r)
  \/ QueryFails(r) \/ Unconfirmed(r)

Request(r) ==
  \/ ArriveLogin(r)
  \/ \E t \in held : ArriveRefresh(r, t) \/ ArriveLogout(r, t)
  \/ \E a \in access : ArriveRead(r, a) \/ ArriveSocket(r, a)
  \/ NeedsQuery(r) \/ Acquire(r) \/ AcquireFails(r) \/ QueryEnds(r)
  \/ Sign(r) \/ SignFails(r) \/ Answer(r) \/ Disconnect(r)

ServerNext ==
  \/ Main
  \/ \E r \in Requests : Request(r)
  \/ Tick
  \/ \E t \in tip : Expire(t)

ServerSpec == ServerInit /\ [][ServerNext]_svars

(* Queries end: what they may wait for are the row locks of one another.      *)
(* The pool serves its waiters in turn, and a timer fires.  Nothing is        *)
(* assumed of clients: a request may be read, and answered, for ever.         *)
ServerFairness ==
  /\ WF_svars(Drain \/ DrainTimesOut)
  /\ WF_svars(Exit)
  /\ \A r \in Requests :
       /\ WF_svars(QueryEnds(r))
       /\ SF_svars(Acquire(r) \/ AcquireFails(r))

ServerFairSpec == ServerSpec /\ ServerFairness

------------------------------------------------------------------------------
(* Properties *)

\* The good token of a session is with its client or on its way there, or its
\* request was cut off by force or answered with an error: no stop that has the
\* time it needs, no full or closed pool and no other request comes between a
\* client and its session (a client that asks again presents a spent token, and
\* its session is revoked).
SessionsKept == tip \subseteq held \cup InFlight \cup lost

Over(s) == s \in Minted /\ ~\E t \in tip : session[t] = s

\* Once a session has been over for the lifetime of an access token, none of its
\* access tokens lets anybody in, unless a refresh was caught between its
\* rotation and its signature; across logouts, replays, expiry and restarts.
AccessRunsOut ==
  \A a \in access :
    Accepts(a) /\ Over(a.session) /\ a.session \notin overtaken
      => now < closedAt[a.session] + AccessTTL

\* After the signal the process ends, whatever its clients and sockets do.
StopsInTheEnd == []<>(phase \notin {"draining", "drained", "expired"})

\* A request that waits for a connection gets one or is told that there is none.
ConnectionsComeBack == \A r \in Requests : []<>(pc[r] # "waiting")
==============================================================================
