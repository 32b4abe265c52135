----------------------------- MODULE ServerProofs -----------------------------
(* What SessionChain promises, for every set of tokens, and what Server makes *)
(* of it: proofs about the server process over a store that is SessionChain.  *)
EXTENDS Server, FiniteSetTheorems, TLAPS

USE NoTokenAssumption

\* Sessions are named after tokens that exist, so a fresh token names a fresh
\* session.
Named == \A t \in Minted : session[t] \in Minted

Inv == TypeOK /\ Named

\* A token that becomes a tip joins the session of the tip it replaces, or its own.
LEMMA NextInv == Inv /\ [Next]_vars => Inv'
  <1> SUFFICES ASSUME Inv, [Next]_vars PROVE Inv'
    OBVIOUS
  <1> USE DEF Inv, TypeOK, Named, Minted
  <1>1. CASE UNCHANGED vars
    BY <1>1 DEF vars
  <1>2. ASSUME NEW t \in Tokens, Open(t) PROVE Inv'
    BY <1>2 DEF Open
  <1>3. ASSUME NEW s \in Tokens, NEW t \in Tokens, Advance(s, t) PROVE Inv'
    BY <1>3 DEF Advance
  <1>4. ASSUME NEW S \in SUBSET Tokens, Close(S) PROVE Inv'
    BY <1>4 DEF Close
  <1> QED
    BY <1>1, <1>2, <1>3, <1>4 DEF Next

\* No token has been minted.
LEMMA InitInv == Init => Inv
  BY DEF Init, Inv, TypeOK, Named, Minted

\* Types and names hold in every reachable state.
LEMMA ChainInvariance == Spec => []Inv
  BY InitInv, NextInv, PTL DEF Spec

\* The token of a session that has lost its tip stays worthless: no step gives
\* the session a good token again.
THEOREM NeverReopened == Spec => ClosedForGood
  <1> DEFINE Final == \A s \in Tokens :
               (s \in Minted /\ ~\E t \in tip : session[t] = s)
                 => ~\E t \in tip' : session'[t] = s
  <1>1. Inv /\ [Next]_vars => [Final]_vars
    <2> SUFFICES ASSUME Inv, Next PROVE Final
      OBVIOUS
    <2> USE DEF Inv, TypeOK, Minted
    <2>1. ASSUME NEW t \in Tokens, Open(t) PROVE Final
      BY <2>1 DEF Open
    <2>2. ASSUME NEW s \in Tokens, NEW t \in Tokens, Advance(s, t) PROVE Final
      BY <2>2 DEF Advance
    <2>3. ASSUME NEW S \in SUBSET Tokens, Close(S) PROVE Final
      BY <2>3 DEF Close
    <2> QED
      BY <2>1, <2>2, <2>3 DEF Next
  <1> QED
    BY <1>1, ChainInvariance, PTL DEF Spec, ClosedForGood

------------------------------------------------------------------------------
(* The server: what requests carry.                                           *)

\* Requests that have a connection.
Querying == {r \in Requests : pc[r] = "querying"}

\* A refresh token goes with a request that was given it by a client or by the
\* store, and is answered with an access token.
Carries(r) ==
  /\ token[r] # NoToken => token[r] \in Minted
  /\ job[r] \in {"read", "socket"} => token[r] = NoToken
  /\ job[r] = "login" /\ pc[r] # "answering" => token[r] = NoToken
  /\ pc[r] = "signing" => job[r] \in {"login", "refresh"}
  /\ pc[r] = "answering" /\ token[r] # NoToken => pass[r] # NoPass
  /\ pass[r] # NoPass => pass[r].exp <= now + AccessTTL

\* Shutdown returns in time when nothing is served, and nothing is from then on.
Carrying ==
  /\ \A r \in Requests : Carries(r)
  /\ phase = "drained" => NothingServed

\* An access token does not outlive its session by more than its lifetime, once
\* the session is over; exp is its expiry.
RunsOut(s, exp) == Over(s) /\ s \notin overtaken => exp <= closedAt[s] + AccessTTL

Aged ==
  /\ \A a \in access : /\ a.session \in Minted /\ a.exp <= now + AccessTTL
                       /\ RunsOut(a.session, a.exp)
  /\ \A r \in Requests : token[r] # NoToken =>
       /\ pc[r] = "answering" => RunsOut(session[token[r]], pass[r].exp)
       /\ pc[r] = "signing" /\ Over(session[token[r]]) => session[token[r]] \in overtaken

IndInv ==
  /\ Inv /\ ServerTypeOK /\ IsFiniteSet(Querying)
  /\ Carrying /\ SessionsKept /\ Aged

------------------------------------------------------------------------------
(* The store of the server is SessionChain.                                   *)

\* The token that the store draws next has not been drawn.
LEMMA FreshIsNew ==
  ASSUME Minted # Tokens
  PROVE  Fresh \in Tokens \ Minted
  <1>1. \E t \in Tokens \ Minted : TRUE
    BY DEF Minted
  <1> QED
    BY <1>1 DEF Fresh

\* A step of the server is a step of the store or leaves it alone.
LEMMA StoreStep ==
  ASSUME Inv, [ServerNext]_svars
  PROVE  [Next]_vars
  <1>0. tip \subseteq Tokens
    BY DEF Inv, TypeOK, Minted
  <1>1. CASE UNCHANGED svars
    BY <1>1 DEF svars, store, vars
  <1>2. CASE Main
    BY <1>2 DEF Main, Start, Signal, Drain, DrainTimesOut, Exit, Kill, store, vars
  <1>3. CASE Tick
    BY <1>3 DEF Tick, store, vars
  <1>4. ASSUME NEW t \in tip, Expire(t) PROVE [Next]_vars
    <2>1. Close({t}) /\ {t} \in SUBSET Tokens
      BY <1>0, <1>4 DEF Expire
    <2> QED
      BY <2>1 DEF Next
  <1>5. ASSUME NEW r \in Requests, OpenSession(r) PROVE [Next]_vars
    BY <1>5, FreshIsNew DEF OpenSession, Next
  <1>6. ASSUME NEW r \in Requests, Rotate(r) PROVE [Next]_vars
    <2>1. Advance(token[r], Fresh) /\ Fresh \in Tokens /\ token[r] \in Tokens
      BY <1>0, <1>6, FreshIsNew DEF Rotate, Advance
    <2> QED
      BY <2>1 DEF Next
  <1>7. ASSUME NEW r \in Requests, EndSession(r) PROVE [Next]_vars
    <2>1. PICK S \in {{}, {t \in tip : session[t] = session[token[r]]}} : Close(S)
      BY <1>7 DEF EndSession
    <2>2. S \in SUBSET Tokens
      BY <1>0
    <2> QED
      BY <2>1, <2>2 DEF Next
  <1>8. ASSUME NEW r \in Requests, Request(r), ~OpenSession(r), ~Rotate(r), ~EndSession(r),
               ~Unconfirmed(r)
        PROVE  UNCHANGED store
    BY <1>8 DEF Request, ArriveLogin, ArriveRefresh, ArriveLogout, ArriveRead, ArriveSocket, Arrive,
       NeedsQuery, Acquire, AcquireFails, QueryEnds, Fail, QueryFails, LookUp, ReadRows, Sign,
       SignFails, Answer, Disconnect, Leave
  <1>9. UNCHANGED store => UNCHANGED vars
    BY DEF store, vars
  <1>10. ASSUME NEW r \in Requests, Unconfirmed(r) PROVE [Next]_vars
    <2>1. /\ Fresh \in Tokens
          /\ Open(Fresh) \/ (Advance(token[r], Fresh) /\ token[r] \in Tokens)
      BY <1>0, <1>10, FreshIsNew DEF Unconfirmed, Advance
    <2> QED
      BY <2>1 DEF Next
  <1> QED
    BY <1>1, <1>2, <1>3, <1>4, <1>5, <1>6, <1>7, <1>8, <1>9, <1>10 DEF ServerNext

\* Whatever the server does, its store is a SessionChain: a refresh, a logout or a
\* restart in between never makes two good tokens of one.
THEOREM StoreIsChain == ServerSpec => Spec
  <1>1. ServerInit => Init
    BY DEF ServerInit
  <1>2. Inv /\ [ServerNext]_svars => [Next]_vars /\ Inv'
    BY StoreStep, NextInv
  <1>3. Init => Inv
    BY InitInv
  <1> QED
    BY <1>1, <1>2, <1>3, PTL DEF ServerSpec, Spec

\* A session that has ended at the server stays ended.
THEOREM ServerClosesForGood == ServerSpec => ClosedForGood
  BY StoreIsChain, NeverReopened, PTL

------------------------------------------------------------------------------
(* What the steps change, request by request.                                 *)

\* Where a request can be.
States == {"idle", "reading", "waiting", "querying", "signing", "answering", "open"}

\* Request r turns to job j, state p, refresh token t and access token a.
Turns(r, j, p, t, a) ==
  /\ job' = [job EXCEPT ![r] = j]
  /\ pc' = [pc EXCEPT ![r] = p]
  /\ token' = [token EXCEPT ![r] = t]
  /\ pass' = [pass EXCEPT ![r] = a]

\* The others stay as they are.
LEMMA TurnsOne ==
  ASSUME ServerTypeOK, NEW r \in Requests, NEW j, NEW p, NEW t, NEW a, Turns(r, j, p, t, a)
  PROVE  /\ job'[r] = j /\ pc'[r] = p /\ token'[r] = t /\ pass'[r] = a
         /\ \A q \in Requests \ {r} : /\ job'[q] = job[q] /\ pc'[q] = pc[q]
                                      /\ token'[q] = token[q] /\ pass'[q] = pass[q]
  BY DEF ServerTypeOK, Turns

\* Values of the right types keep the types.
LEMMA TurnsTyped ==
  ASSUME ServerTypeOK, NEW r \in Requests, NEW j \in Jobs \cup {"none"}, NEW p \in States,
         NEW t \in Tokens \cup {NoToken}, NEW a \in Passes \cup {NoPass}, Turns(r, j, p, t, a)
  PROVE  /\ job' \in [Requests -> Jobs \cup {"none"}] /\ pc' \in [Requests -> States]
         /\ token' \in [Requests -> Tokens \cup {NoToken}]
         /\ pass' \in [Requests -> Passes \cup {NoPass}]
  <1>1. /\ job \in [Requests -> Jobs \cup {"none"}] /\ pc \in [Requests -> States]
        /\ token \in [Requests -> Tokens \cup {NoToken}]
        /\ pass \in [Requests -> Passes \cup {NoPass}]
    BY DEF ServerTypeOK, States
  <1> QED
    BY <1>1 DEF Turns

\* An unchanged function is changed to itself.
LEMMA Unchanged ==
  ASSUME ServerTypeOK, NEW r \in Requests
  PROVE  /\ job = [job EXCEPT ![r] = job[r]] /\ pc = [pc EXCEPT ![r] = pc[r]]
         /\ token = [token EXCEPT ![r] = token[r]] /\ pass = [pass EXCEPT ![r] = pass[r]]
  BY DEF ServerTypeOK

\* A client sends a request, with the token that it needs.
LEMMA ArriveTurns ==
  ASSUME ServerTypeOK, NEW r \in Requests,
         \/ ArriveLogin(r)
         \/ \E t \in held : ArriveRefresh(r, t) \/ ArriveLogout(r, t)
         \/ \E a \in access : ArriveRead(r, a) \/ ArriveSocket(r, a)
  PROVE  /\ pc[r] = "idle" /\ phase = "serving"
         /\ UNCHANGED <<store, phase, now, conns, clients, history>>
         /\ \E j \in Jobs, t \in held \cup {NoToken} :
              /\ Turns(r, j, IF j = "socket" THEN "open" ELSE "reading", t, pass[r])
              /\ t # NoToken => j \in {"refresh", "logout"}
  <1>1. ASSUME NEW j \in Jobs, NEW t \in held \cup {NoToken},
               Arrive(r, j, IF j = "socket" THEN "open" ELSE "reading", t),
               t # NoToken => j \in {"refresh", "logout"}
        PROVE  /\ pc[r] = "idle" /\ phase = "serving"
               /\ UNCHANGED <<store, phase, now, conns, clients, history>>
               /\ \E k \in Jobs, u \in held \cup {NoToken} :
                    /\ Turns(r, k, IF k = "socket" THEN "open" ELSE "reading", u, pass[r])
                    /\ u # NoToken => k \in {"refresh", "logout"}
    <2>1. Turns(r, j, IF j = "socket" THEN "open" ELSE "reading", t, pass[r])
      BY <1>1, Unchanged DEF Arrive, Goto, Turns
    <2> QED
      BY <1>1, <2>1 DEF Arrive
  <1> DEFINE Lands(j, t) == /\ j \in Jobs /\ t \in held \cup {NoToken}
                            /\ Arrive(r, j, IF j = "socket" THEN "open" ELSE "reading", t)
                            /\ t # NoToken => j \in {"refresh", "logout"}
  <1>2. \E j, t : Lands(j, t)
    <2>1. CASE ArriveLogin(r)
      <3>1. Lands("login", NoToken)
        BY <2>1 DEF ArriveLogin, Jobs
      <3> QED
        BY <3>1
    <2>2. ASSUME NEW t \in held, ArriveRefresh(r, t) PROVE \E j, u : Lands(j, u)
      <3>1. Lands("refresh", t)
        BY <2>2 DEF ArriveRefresh, Jobs
      <3> QED
        BY <3>1
    <2>3. ASSUME NEW t \in held, ArriveLogout(r, t) PROVE \E j, u : Lands(j, u)
      <3>1. Lands("logout", t)
        BY <2>3 DEF ArriveLogout, Jobs
      <3> QED
        BY <3>1
    <2>4. ASSUME NEW a \in access, ArriveRead(r, a) PROVE \E j, u : Lands(j, u)
      <3>1. Lands("read", NoToken)
        BY <2>4 DEF ArriveRead, Jobs
      <3> QED
        BY <3>1
    <2>5. ASSUME NEW a \in access, ArriveSocket(r, a) PROVE \E j, u : Lands(j, u)
      <3>1. Lands("socket", NoToken)
        BY <2>5 DEF ArriveSocket, Jobs
      <3> QED
        BY <3>1
    <2> QED
      BY <2>1, <2>2, <2>3, <2>4, <2>5
  <1> QED
    BY <1>1, <1>2

\* A request, or a command of a socket, comes to its query.
LEMMA NeedsQueryTurns ==
  ASSUME ServerTypeOK, NEW r \in Requests, NeedsQuery(r)
  PROVE  /\ pc[r] \in {"reading", "open"} /\ Turns(r, job[r], "waiting", token[r], pass[r])
         /\ UNCHANGED <<store, phase, now, conns, clients, history>>
  BY Unchanged DEF NeedsQuery, Goto, Turns

\* The pool lends one connection.
LEMMA AcquireTurns ==
  ASSUME ServerTypeOK, NEW r \in Requests, Acquire(r)
  PROVE  /\ pc[r] = "waiting" /\ Turns(r, job[r], "querying", token[r], pass[r])
         /\ conns < PoolSize /\ conns' = conns + 1
         /\ UNCHANGED <<store, phase, now, clients, history>>
  BY Unchanged DEF Acquire, Goto, Turns

\* A failing request keeps nothing; an open socket stays open.
LEMMA FailTurns ==
  ASSUME ServerTypeOK, NEW r \in Requests, Fail(r)
  PROVE  /\ Turns(r, job[r], IF job[r] = "socket" THEN "open" ELSE "answering", NoToken, NoPass)
         /\ UNCHANGED <<phase, now, clients>>
  BY Unchanged DEF Fail, Goto, Turns

\* Errors that change neither the store nor the past.
LEMMA FailsAlone ==
  ASSUME NEW r \in Requests, AcquireFails(r) \/ QueryFails(r)
  PROVE  Fail(r) /\ pc[r] \in {"waiting", "querying"} /\ UNCHANGED <<store, history>>
  BY DEF AcquireFails, QueryFails

\* A token is minted, and lost.
LEMMA UnconfirmedLoses ==
  ASSUME NEW r \in Requests, Unconfirmed(r)
  PROVE  /\ Fail(r) /\ pc[r] = "querying" /\ conns' = conns - 1
         /\ Fresh \in Tokens \ Minted
         /\ Open(Fresh) \/ Advance(token[r], Fresh)
         /\ lost' = lost \cup {Fresh} /\ UNCHANGED <<closedAt, overtaken>>
  <1>1. Fresh \in Tokens \ Minted
    BY FreshIsNew DEF Unconfirmed
  <1> QED
    BY <1>1 DEF Unconfirmed, Query, Lose

\* The token of a request without a signature is lost.
LEMMA SignFailsLoses ==
  ASSUME NEW r \in Requests, SignFails(r)
  PROVE  /\ Fail(r) /\ pc[r] = "signing" /\ UNCHANGED <<store, conns, closedAt, overtaken>>
         /\ lost' = lost \cup ({token[r]} \ {NoToken})
  BY DEF SignFails, Lose

\* A login's lookup is followed by the signature.
LEMMA LookUpTurns ==
  ASSUME ServerTypeOK, NEW r \in Requests, LookUp(r)
  PROVE  /\ pc[r] = "querying" /\ job[r] = "login" /\ conns' = conns - 1
         /\ Turns(r, job[r], "signing", token[r], pass[r])
         /\ UNCHANGED <<store, phase, now, clients, history>>
  BY Unchanged DEF LookUp, Query, Goto, Turns

\* A read is answered, a socket goes on.
LEMMA ReadRowsTurns ==
  ASSUME ServerTypeOK, NEW r \in Requests, ReadRows(r)
  PROVE  /\ pc[r] = "querying" /\ job[r] \in {"read", "socket"} /\ conns' = conns - 1
         /\ Turns(r, job[r], IF job[r] = "socket" THEN "open" ELSE "answering", token[r], pass[r])
         /\ UNCHANGED <<store, phase, now, clients, history>>
  BY Unchanged DEF ReadRows, Query, Goto, Turns

\* A login's session begins with a token that nobody has.
LEMMA OpenSessionTurns ==
  ASSUME ServerTypeOK, NEW r \in Requests, OpenSession(r)
  PROVE  /\ pc[r] = "querying" /\ job[r] = "login" /\ pass[r] # NoPass /\ conns' = conns - 1
         /\ Fresh \in Tokens \ Minted /\ Open(Fresh)
         /\ Turns(r, job[r], "answering", Fresh, pass[r])
         /\ UNCHANGED <<phase, now, clients, history>>
  BY Unchanged, FreshIsNew DEF OpenSession, Query, Goto, Turns

\* A refresh's token is replaced by one that nobody has.
LEMMA RotateTurns ==
  ASSUME ServerTypeOK, NEW r \in Requests, Rotate(r)
  PROVE  /\ pc[r] = "querying" /\ job[r] = "refresh" /\ conns' = conns - 1
         /\ Fresh \in Tokens \ Minted /\ Advance(token[r], Fresh)
         /\ Turns(r, job[r], "signing", Fresh, pass[r])
         /\ UNCHANGED <<phase, now, clients, history>>
  BY Unchanged, FreshIsNew DEF Rotate, Query, Goto, Turns

\* A logout or a replay ends sessions.
LEMMA EndSessionTurns ==
  ASSUME ServerTypeOK, NEW r \in Requests, EndSession(r)
  PROVE  /\ pc[r] = "querying" /\ conns' = conns - 1
         /\ \E S \in SUBSET tip : Close(S) /\ Note(S)
         /\ Turns(r, job[r], "answering", NoToken, pass[r])
         /\ UNCHANGED <<phase, now, clients>>
  BY Unchanged DEF EndSession, Query, Goto, Turns

\* An access token is good for its lifetime from now on.
LEMMA SignTurns ==
  ASSUME ServerTypeOK, NEW r \in Requests, Sign(r)
  PROVE  /\ pc[r] = "signing"
         /\ Turns(r, job[r], IF job[r] = "login" THEN "waiting" ELSE "answering", token[r],
                  [session |-> NoToken, exp |-> now + AccessTTL])
         /\ UNCHANGED <<store, phase, now, conns, clients, history>>
  BY Unchanged DEF Sign, Goto, Turns

\* A request that is over is forgotten.
LEMMA LeaveTurns ==
  ASSUME NEW r \in Requests, Leave(r)
  PROVE  /\ Turns(r, "none", "idle", NoToken, NoPass)
         /\ UNCHANGED <<store, phase, now, conns>>
  BY DEF Leave, Goto, Turns

\* The queries that end give their connection back.
LEMMA QueryEndsTurns ==
  ASSUME ServerTypeOK, NEW r \in Requests, QueryEnds(r)
  PROVE  /\ pc[r] = "querying" /\ conns' = conns - 1 /\ UNCHANGED <<phase, now, clients>>
         /\ \E p \in States \ {"querying"}, t \in Tokens \cup {NoToken}, a \in Passes \cup {NoPass} :
              Turns(r, job[r], p, t, a)
  <1>1. /\ token[r] \in Tokens \cup {NoToken} /\ pass[r] \in Passes \cup {NoPass}
        /\ {"open", "answering", "signing"} \subseteq States \ {"querying"}
        /\ NoToken \in Tokens \cup {NoToken} /\ NoPass \in Passes \cup {NoPass}
    BY DEF ServerTypeOK, States
  <1>2. CASE LookUp(r)
    BY <1>1, <1>2, LookUpTurns
  <1>3. CASE OpenSession(r)
    BY <1>1, <1>3, OpenSessionTurns
  <1>4. CASE Rotate(r)
    BY <1>1, <1>4, RotateTurns
  <1>5. CASE EndSession(r)
    BY <1>1, <1>5, EndSessionTurns
  <1>6. CASE ReadRows(r)
    BY <1>1, <1>6, ReadRowsTurns
  <1>7. CASE QueryFails(r)
    BY <1>1, <1>7, FailTurns DEF QueryFails
  <1>8. CASE Unconfirmed(r)
    BY <1>1, <1>8, FailTurns, UnconfirmedLoses
  <1> QED
    BY <1>2, <1>3, <1>4, <1>5, <1>6, <1>7, <1>8 DEF QueryEnds

------------------------------------------------------------------------------
(* Types and the pool.                                                        *)

\* Minted tokens stay minted, in their session.
LEMMA MintedStay ==
  ASSUME Inv, [Next]_vars
  PROVE  Minted \subseteq Minted' /\ \A t \in Minted : session'[t] = session[t]
  <1> USE DEF Inv, TypeOK, Minted
  <1>1. ASSUME NEW t \in Tokens, Open(t)
        PROVE  Minted \subseteq Minted' /\ \A s \in Minted : session'[s] = session[s]
    BY <1>1 DEF Open
  <1>2. ASSUME NEW s \in Tokens, NEW t \in Tokens, Advance(s, t)
        PROVE  Minted \subseteq Minted' /\ \A u \in Minted : session'[u] = session[u]
    BY <1>2 DEF Advance
  <1>3. ASSUME NEW S \in SUBSET Tokens, Close(S)
        PROVE  Minted \subseteq Minted' /\ \A s \in Minted : session'[s] = session[s]
    BY <1>3 DEF Close
  <1>4. CASE UNCHANGED vars
    BY <1>4 DEF vars
  <1> QED
    BY <1>1, <1>2, <1>3, <1>4 DEF Next

\* Arithmetic of the clock.
LEMMA Clock ==
  ASSUME ServerTypeOK
  PROVE  /\ now \in Nat /\ AccessTTL \in Nat /\ MaxTime \in Nat /\ now + AccessTTL \in Times
         /\ now \in Times /\ \A x \in Times : x \in Nat
  BY TTLAssumption DEF ServerTypeOK, Times

\* Sessions are closed at some time, and tokens that the store has minted.
LEMMA NoteTyped ==
  ASSUME ServerTypeOK, Inv, NEW S \in SUBSET tip, Note(S)
  PROVE  closedAt' \in [Tokens -> Times] /\ overtaken' \subseteq Minted /\ lost' = lost
         /\ overtaken \subseteq overtaken'
  <1>1. now \in Times /\ closedAt \in [Tokens -> Times] /\ overtaken \subseteq Minted
    BY Clock DEF ServerTypeOK
  <1>2. \A t \in S : session[t] \in Minted
    BY DEF Inv, Named, TypeOK
  <1> QED
    BY <1>1, <1>2 DEF Note

\* Tokens that the store has minted are lost.
LEMMA LoseTyped ==
  ASSUME ServerTypeOK, NEW S, S \subseteq Minted \cup {NoToken}, Lose(S)
  PROVE  lost' \subseteq Minted /\ closedAt' \in [Tokens -> Times] /\ overtaken' \subseteq Minted
  BY DEF ServerTypeOK, Lose

\* The answer binds the access token to the session of the refresh token.
LEMMA AnswerTyped ==
  ASSUME ServerTypeOK, Inv, Carrying, NEW r \in Requests, Answer(r)
  PROVE  /\ pc[r] = "answering" /\ Leave(r) /\ UNCHANGED history
         /\ \/ token[r] = NoToken /\ UNCHANGED clients
            \/ /\ token[r] \in Minted /\ pass[r] \in Passes
               /\ held' = held \cup {token[r]}
               /\ \E a \in Passes : /\ access' = access \cup {a}
                                    /\ a.session = session[token[r]] /\ a.exp = pass[r].exp
  <1>1. token[r] # NoToken => token[r] \in Minted /\ pass[r] \in Passes
    BY DEF Answer, Carrying, Carries, ServerTypeOK
  <1>2. ASSUME token[r] # NoToken
        PROVE  \E a \in Passes : /\ access' = access \cup {a}
                                 /\ a.session = session[token[r]] /\ a.exp = pass[r].exp
    <2> DEFINE a == [pass[r] EXCEPT !.session = session[token[r]]]
    <2>1. session[token[r]] \in Tokens
      BY <1>1, <1>2 DEF Inv, Named, Minted
    <2>2. a \in Passes /\ a.session = session[token[r]] /\ a.exp = pass[r].exp
      BY <1>1, <1>2, <2>1 DEF Passes
    <2>3. access' = access \cup {a}
      BY <1>2 DEF Answer
    <2> HIDE DEF a
    <2> QED
      BY <2>2, <2>3
  <1> QED
    BY <1>1, <1>2 DEF Answer

\* A step that moves no connection.
LEMMA SameQuerying ==
  ASSUME ServerTypeOK, conns' = conns, \A r \in Requests : pc'[r] = "querying" <=> pc[r] = "querying"
  PROVE  conns' = Cardinality(Querying)' /\ Querying' = Querying
  <1>1. Querying' = Querying
    BY DEF Querying
  <1> QED
    BY <1>1 DEF ServerTypeOK, Querying

\* A connection is lent exactly to the requests that have a query running.
LEMMA NextPool ==
  ASSUME Inv, ServerTypeOK, IsFiniteSet(Querying), [ServerNext]_svars
  PROVE  conns' \in 0 .. PoolSize /\ conns' = Cardinality(Querying)' /\ IsFiniteSet(Querying)'
  <1> DEFINE Goal == conns' \in 0 .. PoolSize /\ conns' = Cardinality(Querying)' /\ IsFiniteSet(Querying)'
  <1>0. /\ conns = Cardinality(Querying) /\ conns \in 0 .. PoolSize /\ PoolSize \in Nat
        /\ conns \in Nat
    BY PoolAssumption DEF ServerTypeOK, Querying
  <1>1. ASSUME conns' = conns,
               \A r \in Requests : pc'[r] = "querying" <=> pc[r] = "querying"
        PROVE  Goal
    BY <1>0, <1>1, SameQuerying
  <1>2. CASE UNCHANGED svars
    BY <1>1, <1>2 DEF svars, request
  <1>3. CASE Start \/ Signal \/ Drain \/ DrainTimesOut \/ Tick
    BY <1>1, <1>3 DEF Start, Signal, Drain, DrainTimesOut, Tick, request
  <1>4. CASE Exit \/ Kill
    <2>1. conns' = 0 /\ Querying' = {}
      BY <1>4 DEF Exit, Kill, Quiet, Querying
    <2> QED
      BY <1>0, <2>1, FS_EmptySet
  <1>5. ASSUME NEW t \in tip, Expire(t) PROVE Goal
    BY <1>1, <1>5 DEF Expire, request
  <1>6. ASSUME NEW r \in Requests, Acquire(r) PROVE Goal
    <2>1. /\ pc[r] = "waiting" /\ Turns(r, job[r], "querying", token[r], pass[r])
          /\ conns < PoolSize /\ conns' = conns + 1
      BY <1>6, AcquireTurns
    <2>2. pc'[r] = "querying" /\ \A q \in Requests \ {r} : pc'[q] = pc[q]
      BY <2>1, TurnsOne
    <2>3. Querying' = Querying \cup {r} /\ r \notin Querying
      BY <2>1, <2>2 DEF Querying
    <2>4. IsFiniteSet(Querying \cup {r}) /\ Cardinality(Querying \cup {r}) = conns + 1
      BY <1>0, <2>3, FS_AddElement
    <2> QED
      BY <1>0, <2>1, <2>3, <2>4
  <1>7. ASSUME NEW r \in Requests, QueryEnds(r) PROVE Goal
    <2>1. PICK p \in States \ {"querying"}, t \in Tokens \cup {NoToken}, a \in Passes \cup {NoPass} :
            pc[r] = "querying" /\ conns' = conns - 1 /\ Turns(r, job[r], p, t, a)
      BY <1>7, QueryEndsTurns
    <2>2. pc'[r] # "querying" /\ \A q \in Requests \ {r} : pc'[q] = pc[q]
      BY <2>1, TurnsOne
    <2>3. Querying' = Querying \ {r} /\ r \in Querying
      BY <2>1, <2>2 DEF Querying
    <2>4. IsFiniteSet(Querying \ {r}) /\ Cardinality(Querying \ {r}) = conns - 1
      BY <1>0, <2>3, FS_RemoveElement
    <2>5. conns # 0
      BY <1>0, <2>3, FS_EmptySet
    <2> QED
      BY <1>0, <2>1, <2>3, <2>4, <2>5
  <1>8. ASSUME NEW r \in Requests, NEW j, NEW p \in States \ {"querying"}, NEW t, NEW a,
               Turns(r, j, p, t, a), pc[r] # "querying", conns' = conns
        PROVE  Goal
    BY <1>1, <1>8, TurnsOne
  <1>9. {"idle", "reading", "waiting", "signing", "answering", "open"} = States \ {"querying"}
    BY DEF States
  <1>10. ASSUME NEW r \in Requests,
                \/ ArriveLogin(r)
                \/ \E t \in held : ArriveRefresh(r, t) \/ ArriveLogout(r, t)
                \/ \E a \in access : ArriveRead(r, a) \/ ArriveSocket(r, a)
         PROVE  Goal
    <2>1. /\ pc[r] = "idle" /\ conns' = conns
          /\ \E j \in Jobs, t \in held \cup {NoToken} :
               Turns(r, j, IF j = "socket" THEN "open" ELSE "reading", t, pass[r])
      BY <1>10, ArriveTurns
    <2> QED
      BY <1>8, <1>9, <2>1
  <1>11. ASSUME NEW r \in Requests, NeedsQuery(r) PROVE Goal
    BY <1>8, <1>9, <1>11, NeedsQueryTurns
  <1>12. ASSUME NEW r \in Requests, AcquireFails(r) PROVE Goal
    BY <1>8, <1>9, <1>12, FailTurns DEF AcquireFails
  <1>13. ASSUME NEW r \in Requests, Sign(r) \/ SignFails(r) PROVE Goal
    <2>1. CASE Sign(r)
      BY <1>8, <1>9, <2>1, SignTurns
    <2>2. CASE SignFails(r)
      BY <1>8, <1>9, <2>2, SignFailsLoses, FailTurns
    <2> QED
      BY <1>13, <2>1, <2>2
  <1>14. ASSUME NEW r \in Requests, Answer(r) \/ Disconnect(r) PROVE Goal
    <2>1. Leave(r) /\ pc[r] # "querying"
      BY <1>14 DEF Answer, Disconnect
    <2> QED
      BY <1>8, <1>9, <2>1, LeaveTurns
  <1> QED
    BY <1>2, <1>3, <1>4, <1>5, <1>6, <1>7, <1>10, <1>11, <1>12, <1>13, <1>14
       DEF ServerNext, Main, Request

\* Every step keeps the types, and the pool agrees with the queries.
LEMMA NextServerTypeOK ==
  ASSUME Inv, ServerTypeOK, IsFiniteSet(Querying), Carrying, [ServerNext]_svars
  PROVE  ServerTypeOK'
  <1> DEFINE Requested == /\ job' \in [Requests -> Jobs \cup {"none"}] /\ pc' \in [Requests -> States]
                          /\ token' \in [Requests -> Tokens \cup {NoToken}]
                          /\ pass' \in [Requests -> Passes \cup {NoPass}]
             Clients   == held' \subseteq Minted' /\ access' \subseteq Passes
             Past      == /\ lost' \subseteq Minted' /\ closedAt' \in [Tokens -> Times]
                          /\ overtaken' \subseteq Minted'
             Running   == phase' \in {"down", "serving", "draining", "drained", "expired"}
                          /\ now' \in 0 .. MaxTime
  <1>0. ASSUME Requested, Clients, Past, Running PROVE ServerTypeOK'
    BY <1>0, NextPool DEF ServerTypeOK, States, Querying
  <1>1. Minted \subseteq Minted'
    BY StoreStep, MintedStay
  <1>2. UNCHANGED request => Requested
    BY DEF ServerTypeOK, States, request
  <1>3. held' = held /\ access' \subseteq access => Clients
    BY <1>1 DEF ServerTypeOK
  <1>4. UNCHANGED history => Past
    BY <1>1 DEF ServerTypeOK, history
  <1>5. phase' = phase /\ now' = now => Running
    BY DEF ServerTypeOK
  <1>6. ASSUME NEW r \in Requests, NEW j \in Jobs \cup {"none"}, NEW p \in States,
               NEW t \in Tokens \cup {NoToken}, NEW a \in Passes \cup {NoPass}, Turns(r, j, p, t, a)
        PROVE  Requested
    BY <1>6, TurnsTyped
  <1>7. ASSUME NEW S \in SUBSET tip, Note(S) PROVE Past
    BY <1>1, <1>7, NoteTyped DEF ServerTypeOK
  <1>8. InFlight \subseteq Minted
    BY DEF InFlight, Carrying, Carries
  <1>9. ASSUME NEW r \in Requests
        PROVE  /\ job[r] \in Jobs \cup {"none"} /\ pc[r] \in States
               /\ token[r] \in Tokens \cup {NoToken} /\ pass[r] \in Passes \cup {NoPass}
               /\ NoToken \in Tokens \cup {NoToken} /\ NoPass \in Passes \cup {NoPass}
               /\ {"idle", "reading", "waiting", "querying", "signing", "answering", "open"} = States
    BY DEF ServerTypeOK, States
  <1> HIDE DEF Requested, Clients, Past, Running
  <1>10. CASE UNCHANGED svars
    BY <1>0, <1>2, <1>3, <1>4, <1>5, <1>10 DEF svars, clients
  <1>11. CASE Start \/ Signal \/ Drain \/ DrainTimesOut \/ Tick
    <2>1. Running
      <3>1. CASE Tick
        BY <3>1, Clock DEF Tick, ServerTypeOK, Running
      <3>2. CASE ~Tick
        BY <1>11, <3>2 DEF Start, Signal, Drain, DrainTimesOut, ServerTypeOK, Running
      <3> QED
        BY <3>1, <3>2
    <2>2. UNCHANGED request /\ UNCHANGED history /\ held' = held /\ access' \subseteq access
      BY <1>11 DEF Start, Signal, Drain, DrainTimesOut, Tick, clients
    <2> QED
      BY <1>0, <1>2, <1>3, <1>4, <2>1, <2>2
  <1>12. CASE Exit \/ Kill
    <2>1. Requested
      BY <1>12 DEF Exit, Kill, Quiet, Requested, States
    <2>2. Running
      BY <1>12 DEF Exit, Kill, Running, ServerTypeOK
    <2>3. Past
      <3>1. PICK S \in SUBSET InFlight : Lose(S)
        BY <1>12 DEF Exit, Kill
      <3> QED
        BY <1>1, <1>8, <3>1, LoseTyped DEF Past
    <2>4. Clients
      BY <1>3, <1>12 DEF Exit, Kill, clients
    <2> QED
      BY <1>0, <2>1, <2>2, <2>3, <2>4
  <1>13. ASSUME NEW t \in tip, Expire(t) PROVE ServerTypeOK'
    <2>1. Past
      BY <1>7, <1>13 DEF Expire
    <2> QED
      BY <1>0, <1>2, <1>3, <1>5, <1>13, <2>1 DEF Expire, clients
  <1>14. ASSUME NEW r \in Requests, NEW j \in Jobs \cup {"none"}, NEW p \in States,
                NEW t \in Tokens \cup {NoToken}, NEW a \in Passes \cup {NoPass}, Turns(r, j, p, t, a),
                UNCHANGED <<phase, now, clients>>, Past
         PROVE  ServerTypeOK'
    BY <1>0, <1>3, <1>5, <1>6, <1>14 DEF clients
  <1>15. ASSUME NEW r \in Requests, QueryEnds(r) PROVE ServerTypeOK'
    <2>1. Past
      <3>1. ASSUME LookUp(r) \/ OpenSession(r) \/ Rotate(r) \/ ReadRows(r) \/ QueryFails(r)
            PROVE  UNCHANGED history
        BY <3>1 DEF LookUp, OpenSession, Rotate, ReadRows, QueryFails, Fail
      <3>2. CASE EndSession(r)
        BY <1>7, <3>2, EndSessionTurns
      <3>3. CASE Unconfirmed(r)
        <4>1. Fresh \in Minted' /\ lost' = lost \cup {Fresh} /\ UNCHANGED <<closedAt, overtaken>>
          BY <3>3, UnconfirmedLoses DEF Open, Advance, Inv, TypeOK, Minted
        <4> QED
          BY <1>1, <4>1 DEF Past, ServerTypeOK
      <3> QED
        BY <1>4, <1>15, <3>1, <3>2, <3>3 DEF QueryEnds
    <2> QED
      BY <1>9, <1>14, <1>15, <2>1, QueryEndsTurns
  <1>16. ASSUME NEW r \in Requests,
                \/ ArriveLogin(r)
                \/ \E t \in held : ArriveRefresh(r, t) \/ ArriveLogout(r, t)
                \/ \E a \in access : ArriveRead(r, a) \/ ArriveSocket(r, a)
         PROVE  ServerTypeOK'
    <2>1. held \cup {NoToken} \subseteq Tokens \cup {NoToken}
      BY DEF ServerTypeOK, Minted
    <2>2. PICK j \in Jobs, t \in held \cup {NoToken} :
            Turns(r, j, IF j = "socket" THEN "open" ELSE "reading", t, pass[r])
      BY <1>16, ArriveTurns
    <2> QED
      BY <1>4, <1>9, <1>14, <1>16, <2>1, <2>2, ArriveTurns
  <1>17. ASSUME NEW r \in Requests, NeedsQuery(r) PROVE ServerTypeOK'
    BY <1>4, <1>9, <1>14, <1>17, NeedsQueryTurns
  <1>18. ASSUME NEW r \in Requests, Acquire(r) PROVE ServerTypeOK'
    BY <1>4, <1>9, <1>14, <1>18, AcquireTurns
  <1>19. ASSUME NEW r \in Requests, AcquireFails(r) \/ SignFails(r) PROVE ServerTypeOK'
    <2>1. Past
      <3>1. token[r] \in Minted \cup {NoToken}
        BY DEF Carrying, Carries
      <3>2. CASE SignFails(r)
        BY <1>1, <3>1, <3>2, LoseTyped DEF SignFails, Past
      <3> QED
        BY <1>4, <1>19, <3>2, FailsAlone
    <2>2. Fail(r)
      BY <1>19 DEF AcquireFails, SignFails
    <2> QED
      BY <1>9, <1>14, <2>1, <2>2, FailTurns
  <1>20. ASSUME NEW r \in Requests, Sign(r) PROVE ServerTypeOK'
    <2>1. [session |-> NoToken, exp |-> now + AccessTTL] \in Passes \cup {NoPass}
      BY Clock DEF Passes
    <2> QED
      BY <1>4, <1>9, <1>14, <1>20, <2>1, SignTurns
  <1>21. ASSUME NEW r \in Requests, Disconnect(r) PROVE ServerTypeOK'
    <2>1. token[r] # NoToken => token[r] \in Minted
      BY DEF Carrying, Carries
    <2>2. Past
      <3>1. PICK S \in SUBSET {token[r]} : Lose(S)
        BY <1>21 DEF Disconnect
      <3> QED
        BY <1>1, <2>1, <3>1, LoseTyped DEF Past
    <2> QED
      BY <1>9, <1>14, <1>21, <2>2, LeaveTurns DEF Disconnect
  <1>22. ASSUME NEW r \in Requests, Answer(r) PROVE ServerTypeOK'
    <2>1. Turns(r, "none", "idle", NoToken, NoPass) /\ UNCHANGED <<phase, now, history>>
      BY <1>22, LeaveTurns DEF Answer
    <2>2. Clients
      <3>1. held' \subseteq Minted /\ access' \subseteq Passes
        BY <1>22, AnswerTyped DEF ServerTypeOK, clients
      <3> QED
        BY <1>1, <3>1 DEF Clients
    <2> QED
      BY <1>0, <1>4, <1>5, <1>6, <1>9, <2>1, <2>2
  <1> QED
    BY <1>10, <1>11, <1>12, <1>13, <1>15, <1>16, <1>17, <1>18, <1>19, <1>20, <1>21, <1>22
       DEF ServerNext, Main, Request

------------------------------------------------------------------------------
(* Requests, and the good tokens on their way.                                *)

\* Every step keeps what requests carry.
LEMMA NextCarrying ==
  ASSUME Inv, ServerTypeOK, IsFiniteSet(Querying), Carrying, [ServerNext]_svars
  PROVE  Carrying'
  <1>0. Minted \subseteq Minted' /\ ServerTypeOK'
    BY StoreStep, MintedStay, NextServerTypeOK
  <1>1. now \in Nat /\ AccessTTL \in Nat
    BY Clock
  <1>2. now' \in Nat /\ now <= now'
    <2>1. CASE Tick
      BY <1>1, <2>1 DEF Tick
    <2>2. CASE ~Tick
      <3>1. now' = now
        <4>1. ASSUME NEW r \in Requests, Request(r) PROVE now' = now
          BY <4>1, QueryEndsTurns, ArriveTurns, NeedsQueryTurns, AcquireTurns, FailTurns, SignTurns
             DEF Request, AcquireFails, SignFails, Answer, Disconnect, Leave
        <4> QED
          BY <2>2, <4>1 DEF ServerNext, Main, Start, Signal, Drain, DrainTimesOut, Exit, Kill, Expire,
             svars
      <3> QED
        BY <1>1, <3>1
    <2> QED
      BY <2>1, <2>2
  <1>3. ASSUME NEW q \in Requests, job'[q] = job[q], pc'[q] = pc[q], token'[q] = token[q],
               pass'[q] = pass[q]
        PROVE  Carries(q)'
    <2>1. Carries(q) /\ pass[q] \in Passes \cup {NoPass}
      BY DEF Carrying, ServerTypeOK
    <2>2. pass[q] # NoPass => pass[q].exp \in Nat
      BY <2>1, Clock DEF Passes
    <2> QED
      BY <1>0, <1>1, <1>2, <1>3, <2>1, <2>2 DEF Carries
  <1> DEFINE All     == \A q \in Requests : Carries(q)'
             Drained == phase' = "drained" => NothingServed'
  <1>4. All /\ Drained => Carrying'
    BY DEF Carrying
  <1>5. UNCHANGED request => All
    BY <1>3 DEF request
  <1>6. UNCHANGED <<phase, request>> => Drained
    BY DEF Carrying, NothingServed, request
  <1>7. phase' \notin {"drained"} => Drained
    OBVIOUS
  <1> HIDE DEF All, Drained
  <1>8. ASSUME NEW r \in Requests, NEW j, NEW p, NEW t, NEW a, Turns(r, j, p, t, a), Carries(r)',
               phase' = phase,
               phase = "drained" => p = "idle" \/ j = "socket"
        PROVE  Carrying'
    <2>1. /\ job'[r] = j /\ pc'[r] = p
          /\ \A q \in Requests \ {r} : /\ job'[q] = job[q] /\ pc'[q] = pc[q]
                                       /\ token'[q] = token[q] /\ pass'[q] = pass[q]
      BY <1>8, TurnsOne
    <2>2. All
      BY <1>3, <1>8, <2>1 DEF All
    <2>3. Drained
      BY <1>8, <2>1 DEF Carrying, NothingServed, Drained
    <2> QED
      BY <1>4, <2>2, <2>3
  <1>9. ASSUME NEW r \in Requests
        PROVE  /\ Carries(r)
               /\ phase = "drained" => pc[r] = "idle" \/ job[r] = "socket"
    BY DEF Carrying, NothingServed
  <1>10. CASE UNCHANGED svars
    BY <1>4, <1>5, <1>6, <1>10 DEF svars
  <1>11. CASE Start \/ Signal \/ DrainTimesOut
    BY <1>4, <1>5, <1>7, <1>11 DEF Start, Signal, DrainTimesOut
  <1>12. CASE Tick
    BY <1>4, <1>5, <1>6, <1>12 DEF Tick
  <1>13. CASE Drain
    <2>1. Drained
      BY <1>13 DEF Drain, Drained, NothingServed, request
    <2> QED
      BY <1>4, <1>5, <1>13, <2>1 DEF Drain
  <1>14. CASE Exit \/ Kill
    <2>1. All
      BY <1>14 DEF Exit, Kill, Quiet, All, Carries
    <2>2. Drained
      BY <1>7, <1>14 DEF Exit, Kill
    <2> QED
      BY <1>4, <2>1, <2>2
  <1>15. ASSUME NEW t \in tip, Expire(t) PROVE Carrying'
    BY <1>4, <1>5, <1>6, <1>15 DEF Expire
  <1>16. ASSUME NEW r \in Requests,
                \/ ArriveLogin(r)
                \/ \E t \in held : ArriveRefresh(r, t) \/ ArriveLogout(r, t)
                \/ \E a \in access : ArriveRead(r, a) \/ ArriveSocket(r, a)
         PROVE  Carrying'
    <2>1. PICK j \in Jobs, t \in held \cup {NoToken} :
            /\ Turns(r, j, IF j = "socket" THEN "open" ELSE "reading", t, pass[r])
            /\ t # NoToken => j \in {"refresh", "logout"}
      BY <1>16, ArriveTurns
    <2>2. phase = "serving" /\ phase' = phase /\ now' = now
      BY <1>16, ArriveTurns
    <2>3. Carries(r)'
      <3>1. t # NoToken => t \in Minted
        BY DEF ServerTypeOK
      <3> QED
        BY <1>0, <1>9, <2>1, <2>2, <3>1, TurnsOne DEF Carries
    <2> QED
      BY <1>8, <2>1, <2>2, <2>3
  <1>17. ASSUME NEW r \in Requests, NeedsQuery(r) PROVE Carrying'
    <2>1. /\ pc[r] \in {"reading", "open"} /\ Turns(r, job[r], "waiting", token[r], pass[r])
          /\ phase' = phase /\ now' = now
      BY <1>17, NeedsQueryTurns
    <2>2. Carries(r)'
      BY <1>0, <1>9, <2>1, TurnsOne DEF Carries
    <2> QED
      BY <1>8, <1>9, <2>1, <2>2
  <1>18. ASSUME NEW r \in Requests, Acquire(r) PROVE Carrying'
    <2>1. /\ pc[r] = "waiting" /\ Turns(r, job[r], "querying", token[r], pass[r])
          /\ phase' = phase /\ now' = now
      BY <1>18, AcquireTurns
    <2>2. Carries(r)'
      BY <1>0, <1>9, <2>1, TurnsOne DEF Carries
    <2> QED
      BY <1>8, <1>9, <2>1, <2>2
  <1>19. ASSUME NEW r \in Requests, Fail(r), pc[r] # "idle" PROVE Carrying'
    <2>1. /\ Turns(r, job[r], IF job[r] = "socket" THEN "open" ELSE "answering", NoToken, NoPass)
          /\ phase' = phase /\ now' = now
      BY <1>19, FailTurns
    <2>2. Carries(r)'
      BY <2>1, TurnsOne DEF Carries
    <2> QED
      BY <1>8, <1>9, <1>19, <2>1, <2>2
  <1>20. ASSUME NEW r \in Requests, LookUp(r) PROVE Carrying'
    <2>1. /\ pc[r] = "querying" /\ job[r] = "login"
          /\ Turns(r, job[r], "signing", token[r], pass[r])
          /\ phase' = phase /\ now' = now
      BY <1>20, LookUpTurns
    <2>2. Carries(r)'
      BY <1>0, <1>9, <2>1, TurnsOne DEF Carries
    <2> QED
      BY <1>8, <1>9, <2>1, <2>2
  <1>21. ASSUME NEW r \in Requests, OpenSession(r) PROVE Carrying'
    <2>1. /\ pc[r] = "querying" /\ job[r] = "login" /\ pass[r] # NoPass
          /\ Turns(r, job[r], "answering", Fresh, pass[r]) /\ Open(Fresh)
          /\ phase' = phase /\ now' = now
      BY <1>21, OpenSessionTurns
    <2>2. Fresh \in Minted'
      BY <2>1 DEF Open, Inv, TypeOK, Minted
    <2>3. Carries(r)'
      BY <1>9, <2>1, <2>2, TurnsOne DEF Carries
    <2> QED
      BY <1>8, <1>9, <2>1, <2>3
  <1>22. ASSUME NEW r \in Requests, Rotate(r) PROVE Carrying'
    <2>1. /\ pc[r] = "querying" /\ job[r] = "refresh"
          /\ Turns(r, job[r], "signing", Fresh, pass[r]) /\ Advance(token[r], Fresh)
          /\ phase' = phase /\ now' = now
      BY <1>22, RotateTurns
    <2>2. Fresh \in Minted'
      BY <2>1 DEF Advance, Inv, TypeOK, Minted
    <2>3. Carries(r)'
      BY <1>9, <2>1, <2>2, TurnsOne DEF Carries
    <2> QED
      BY <1>8, <1>9, <2>1, <2>3
  <1>23. ASSUME NEW r \in Requests, EndSession(r) PROVE Carrying'
    <2>1. /\ pc[r] = "querying" /\ Turns(r, job[r], "answering", NoToken, pass[r])
          /\ phase' = phase /\ now' = now
      BY <1>23, EndSessionTurns
    <2>2. Carries(r)'
      BY <1>9, <2>1, TurnsOne DEF Carries
    <2> QED
      BY <1>8, <1>9, <2>1, <2>2
  <1>24. ASSUME NEW r \in Requests, ReadRows(r) PROVE Carrying'
    <2>1. /\ pc[r] = "querying" /\ job[r] \in {"read", "socket"}
          /\ Turns(r, job[r], IF job[r] = "socket" THEN "open" ELSE "answering", token[r], pass[r])
          /\ phase' = phase /\ now' = now
      BY <1>24, ReadRowsTurns
    <2>2. Carries(r)'
      BY <1>0, <1>9, <2>1, TurnsOne DEF Carries
    <2> QED
      BY <1>8, <1>9, <2>1, <2>2
  <1>25. ASSUME NEW r \in Requests, Sign(r) PROVE Carrying'
    <2> DEFINE a == [session |-> NoToken, exp |-> now + AccessTTL]
    <2>1. /\ pc[r] = "signing"
          /\ Turns(r, job[r], IF job[r] = "login" THEN "waiting" ELSE "answering", token[r], a)
          /\ phase' = phase /\ now' = now
      BY <1>25, SignTurns
    <2>2. a.exp = now + AccessTTL /\ a # NoPass
      BY DEF NoPass
    <2> HIDE DEF a
    <2>3. Carries(r)'
      BY <1>0, <1>1, <1>9, <2>1, <2>2, TurnsOne DEF Carries
    <2> QED
      BY <1>8, <1>9, <2>1, <2>3
  <1>26. ASSUME NEW r \in Requests, Answer(r) \/ Disconnect(r) PROVE Carrying'
    <2>1. Turns(r, "none", "idle", NoToken, NoPass) /\ phase' = phase
      BY <1>26, LeaveTurns DEF Answer, Disconnect
    <2>2. Carries(r)'
      BY <2>1, TurnsOne DEF Carries
    <2> QED
      BY <1>8, <2>1, <2>2
  <1>27. ASSUME NEW r \in Requests,
                AcquireFails(r) \/ QueryFails(r) \/ Unconfirmed(r) \/ SignFails(r)
         PROVE  Carrying'
    <2>1. Fail(r) /\ pc[r] \in {"waiting", "querying", "signing"}
      BY <1>27, FailsAlone, UnconfirmedLoses, SignFailsLoses
    <2> QED
      BY <1>19, <2>1
  <1>28. ASSUME NEW r \in Requests, Request(r) PROVE Carrying'
    BY <1>16, <1>17, <1>18, <1>20, <1>21, <1>22, <1>23, <1>24, <1>25, <1>26, <1>27, <1>28
       DEF Request, QueryEnds
  <1> QED
    BY <1>10, <1>11, <1>12, <1>13, <1>14, <1>15, <1>28 DEF ServerNext, Main

\* A step that leaves the store alone loses no refresh token on its way to a
\* client, if those that were on their way are so or were answered or lost.
LEMMA KeptByMoving ==
  ASSUME SessionsKept, tip' \subseteq tip, held \subseteq held', lost \subseteq lost',
         InFlight \subseteq InFlight' \cup held' \cup lost'
  PROVE  SessionsKept'
  BY DEF SessionsKept

\* The good token of every session is with its client, on its way, or lost.
LEMMA NextSessionsKept ==
  ASSUME Inv, ServerTypeOK, IsFiniteSet(Querying), Carrying, SessionsKept, [ServerNext]_svars
  PROVE  SessionsKept'
  <1> DEFINE Flying(r) == pc[r] \in {"signing", "answering"} /\ token[r] # NoToken
  <1>0. \A t : t \in InFlight <=> \E r \in Requests : Flying(r) /\ t = token[r]
    BY DEF InFlight
  <1>1. \A t : t \in InFlight' <=> \E r \in Requests : Flying(r)' /\ t = token'[r]
    BY DEF InFlight
  <1>2. ASSUME UNCHANGED request, tip' \subseteq tip, held \subseteq held', lost \subseteq lost'
        PROVE  SessionsKept'
    <2>1. InFlight' = InFlight
      BY <1>2 DEF InFlight, request
    <2> QED
      BY <1>2, <2>1, KeptByMoving
  <1>3. ASSUME NEW r \in Requests, NEW j, NEW p, NEW t, NEW a, Turns(r, j, p, t, a)
        PROVE  /\ \A x \in InFlight : x \in InFlight' \/ (Flying(r) /\ x = token[r])
               /\ p \in {"signing", "answering"} /\ t # NoToken => t \in InFlight'
    <2>1. /\ pc'[r] = p /\ token'[r] = t
          /\ \A q \in Requests \ {r} : pc'[q] = pc[q] /\ token'[q] = token[q]
      BY <1>3, TurnsOne
    <2> QED
      BY <1>0, <1>1, <2>1
  <1> HIDE DEF Flying
  <1>4. ASSUME NEW r \in Requests, NEW j, NEW p, NEW t, NEW a, Turns(r, j, p, t, a),
               ~Flying(r) \/ (p \in {"signing", "answering"} /\ t = token[r] /\ t # NoToken),
               tip' \subseteq tip, UNCHANGED <<held, lost>>
        PROVE  SessionsKept'
    <2>1. InFlight \subseteq InFlight'
      BY <1>3, <1>4
    <2> QED
      BY <1>4, <2>1, KeptByMoving
  <1>5. ASSUME NEW r \in Requests, pc[r] \notin {"signing", "answering"} PROVE ~Flying(r)
    BY <1>5 DEF Flying
  <1>6. CASE UNCHANGED svars
    BY <1>2, <1>6 DEF svars, store, clients, history
  <1>7. CASE Start \/ Signal \/ Drain \/ DrainTimesOut \/ Tick
    BY <1>2, <1>7 DEF Start, Signal, Drain, DrainTimesOut, Tick, store, clients, history
  <1>8. CASE Exit
    <2>1. InFlight \subseteq lost'
      <3>1. CASE phase = "expired"
        BY <1>8, <3>1 DEF Exit, Lose, InFlight
      <3>2. CASE phase = "drained"
        <4>1. \A r \in Requests : pc[r] = "idle" \/ token[r] = NoToken
          BY <3>2 DEF Carrying, Carries, NothingServed
        <4> QED
          BY <4>1 DEF InFlight
      <3> QED
        BY <1>8, <3>1, <3>2 DEF Exit, PoolClosed
    <2>2. tip' = tip /\ held' = held /\ lost \subseteq lost'
      BY <1>8 DEF Exit, Lose, store, clients
    <2> QED
      BY <2>1, <2>2, KeptByMoving
  <1>9. CASE Kill
    <2>1. InFlight \subseteq lost' /\ lost \subseteq lost' /\ tip' = tip /\ held' = held
      BY <1>9 DEF Kill, Lose, InFlight, store, clients
    <2> QED
      BY <2>1, KeptByMoving
  <1>10. ASSUME NEW t \in tip, Expire(t) PROVE SessionsKept'
    BY <1>2, <1>10 DEF Expire, Close, Note, clients
  <1>11. ASSUME NEW r \in Requests,
                \/ ArriveLogin(r)
                \/ \E t \in held : ArriveRefresh(r, t) \/ ArriveLogout(r, t)
                \/ \E a \in access : ArriveRead(r, a) \/ ArriveSocket(r, a)
         PROVE  SessionsKept'
    <2>1. PICK j \in Jobs, t \in held \cup {NoToken} :
            Turns(r, j, IF j = "socket" THEN "open" ELSE "reading", t, pass[r])
      BY <1>11, ArriveTurns
    <2>2. pc[r] = "idle" /\ UNCHANGED <<store, clients, history>>
      BY <1>11, ArriveTurns
    <2> QED
      BY <1>4, <1>5, <2>1, <2>2 DEF store, clients, history
  <1>12. ASSUME NEW r \in Requests, NeedsQuery(r) PROVE SessionsKept'
    BY <1>4, <1>5, <1>12, NeedsQueryTurns DEF store, clients, history
  <1>13. ASSUME NEW r \in Requests, Acquire(r) PROVE SessionsKept'
    BY <1>4, <1>5, <1>13, AcquireTurns DEF store, clients, history
  <1>14. ASSUME NEW r \in Requests, AcquireFails(r) \/ QueryFails(r) PROVE SessionsKept'
    BY <1>4, <1>5, <1>14, FailsAlone, FailTurns DEF store, clients, history
  <1>15. ASSUME NEW r \in Requests, LookUp(r) PROVE SessionsKept'
    BY <1>4, <1>5, <1>15, LookUpTurns DEF store, clients, history
  <1>16. ASSUME NEW r \in Requests, ReadRows(r) PROVE SessionsKept'
    BY <1>4, <1>5, <1>16, ReadRowsTurns DEF store, clients, history
  <1>17. ASSUME NEW r \in Requests, EndSession(r) PROVE SessionsKept'
    <2>1. PICK S \in SUBSET tip : Close(S) /\ Note(S)
      BY <1>17, EndSessionTurns
    <2>2. tip' \subseteq tip /\ lost' = lost
      BY <2>1 DEF Close, Note
    <2> QED
      BY <1>4, <1>5, <1>17, <2>2, EndSessionTurns DEF clients
  <1>18. ASSUME NEW r \in Requests, NEW p \in {"signing", "answering"}, pc[r] = "querying",
                Turns(r, job[r], p, Fresh, pass[r]), Fresh \in Tokens, tip' \subseteq tip \cup {Fresh},
                UNCHANGED <<held, lost>>
         PROVE  SessionsKept'
    <2>1. InFlight \subseteq InFlight' /\ Fresh \in InFlight'
      BY <1>3, <1>5, <1>18
    <2> QED
      BY <1>18, <2>1 DEF SessionsKept
  <1>19. ASSUME NEW r \in Requests, OpenSession(r) PROVE SessionsKept'
    <2>1. tip' \subseteq tip \cup {Fresh}
      BY <1>19, OpenSessionTurns DEF Open
    <2> QED
      BY <1>18, <1>19, <2>1, OpenSessionTurns DEF clients, history
  <1>20. ASSUME NEW r \in Requests, Rotate(r) PROVE SessionsKept'
    <2>1. tip' \subseteq tip \cup {Fresh}
      BY <1>20, RotateTurns DEF Advance
    <2> QED
      BY <1>18, <1>20, <2>1, RotateTurns DEF clients, history
  <1>21. ASSUME NEW r \in Requests, Sign(r) PROVE SessionsKept'
    <2>1. /\ pc[r] = "signing" /\ UNCHANGED <<store, clients, history>>
          /\ Turns(r, job[r], IF job[r] = "login" THEN "waiting" ELSE "answering", token[r],
                   [session |-> NoToken, exp |-> now + AccessTTL])
      BY <1>21, SignTurns
    <2>2. job[r] = "login" => token[r] = NoToken
      BY <2>1 DEF Carrying, Carries
    <2>3. token[r] = NoToken => ~Flying(r)
      BY DEF Flying
    <2> QED
      BY <1>4, <2>1, <2>2, <2>3 DEF store, clients, history
  <1>22. ASSUME NEW r \in Requests, Leave(r), held \subseteq held', lost \subseteq lost',
                Flying(r) => token[r] \in held' \cup lost'
         PROVE  SessionsKept'
    <2>1. Turns(r, "none", "idle", NoToken, NoPass) /\ tip' = tip
      BY <1>22, LeaveTurns DEF store
    <2>2. InFlight \subseteq InFlight' \cup held' \cup lost'
      BY <1>3, <1>22, <2>1
    <2> QED
      BY <1>22, <2>1, <2>2, KeptByMoving
  <1>23. ASSUME NEW r \in Requests, Answer(r) PROVE SessionsKept'
    BY <1>22, <1>23 DEF Answer, Flying, clients, history
  <1>24. ASSUME NEW r \in Requests, Disconnect(r) PROVE SessionsKept'
    BY <1>22, <1>24 DEF Disconnect, Lose, Flying, clients
  <1>25. ASSUME NEW r \in Requests, Unconfirmed(r) PROVE SessionsKept'
    <2>1. tip' \subseteq tip \cup {Fresh} /\ lost' = lost \cup {Fresh} /\ held' = held
      BY <1>25, UnconfirmedLoses, FailTurns DEF Open, Advance, clients
    <2>2. InFlight \subseteq InFlight'
      BY <1>3, <1>5, <1>25, UnconfirmedLoses, FailTurns
    <2> QED
      BY <2>1, <2>2 DEF SessionsKept
  <1>26. ASSUME NEW r \in Requests, SignFails(r) PROVE SessionsKept'
    <2>1. /\ tip' = tip /\ held' = held /\ lost' = lost \cup ({token[r]} \ {NoToken})
          /\ Fail(r)
      BY <1>26, SignFailsLoses, FailTurns DEF store, clients
    <2>2. \A x \in InFlight : x \in InFlight' \/ (x = token[r] /\ token[r] # NoToken)
      BY <1>3, <2>1, FailTurns DEF Flying
    <2> QED
      BY <2>1, <2>2 DEF SessionsKept
  <1>27. ASSUME NEW r \in Requests, Request(r) PROVE SessionsKept'
    BY <1>11, <1>12, <1>13, <1>14, <1>15, <1>16, <1>17, <1>19, <1>20, <1>21, <1>23, <1>24, <1>25,
       <1>26, <1>27
       DEF Request, QueryEnds
  <1> QED
    BY <1>6, <1>7, <1>8, <1>9, <1>10, <1>27 DEF ServerNext, Main

------------------------------------------------------------------------------
(* Access tokens run out.                                                     *)

\* What a session's end means for its access tokens stays true, whatever a step
\* does to the session: s is a session, exp the expiry of one of its tokens.
Steady ==
  \A s \in Minted :
    /\ \A exp \in Times : exp <= now + AccessTTL /\ RunsOut(s, exp) => RunsOut(s, exp)'
    /\ (\E r \in Requests : job[r] = "refresh" /\ pc[r] = "signing" /\ session[token[r]] = s) =>
         ((Over(s) => s \in overtaken) => (Over(s)' => s \in overtaken'))

\* Nothing happens to the sessions.
LEMMA SteadyAlone ==
  ASSUME UNCHANGED store, UNCHANGED history
  PROVE  Steady
  BY DEF store, history, Steady, RunsOut, Over, Minted

\* A session that is opened or goes on is not over.
LEMMA SteadyAdvance ==
  ASSUME Inv, NEW s \in Tokens, NEW t \in Tokens, Open(t) \/ Advance(s, t),
         UNCHANGED <<closedAt, overtaken>>
  PROVE  Steady
  <1>1. ASSUME NEW x \in Minted PROVE Over(x)' => Over(x)
    <2> USE DEF Inv, TypeOK, Minted, Over
    <2>1. CASE Open(t)
      BY <2>1 DEF Open
    <2>2. CASE Advance(s, t)
      BY <2>2 DEF Advance
    <2> QED
      BY <2>1, <2>2
  <1> QED
    BY <1>1 DEF Steady, RunsOut

\* A session that ends does so now, and its signatures under way are noted.
LEMMA SteadyClose ==
  ASSUME Inv, ServerTypeOK, NEW S \in SUBSET tip, Close(S), Note(S)
  PROVE  Steady
  <1> DEFINE over == {session[t] : t \in S}
  <1>1. /\ \A x \in Tokens : closedAt'[x] = IF x \in over THEN now ELSE closedAt[x]
        /\ overtaken' = overtaken \cup
             {x \in over : \E r \in Requests :
                job[r] = "refresh" /\ pc[r] = "signing" /\ session[token[r]] = x}
        /\ tip' = tip \ S /\ session' = session
    BY DEF Note, Close
  <1>2. ASSUME NEW s \in Minted, Over(s)', ~Over(s) PROVE s \in over
    BY <1>1, <1>2 DEF Over, Minted
  <1>3. ASSUME NEW s \in Minted, Over(s) PROVE s \notin over
    BY <1>3 DEF Over
  <1> HIDE DEF over
  <1>4. ASSUME NEW s \in Minted, NEW exp \in Times, exp <= now + AccessTTL, RunsOut(s, exp), Over(s)',
               s \notin overtaken'
        PROVE  exp <= closedAt'[s] + AccessTTL
    <2>1. s \in Tokens
      BY DEF Minted
    <2>2. CASE Over(s)
      BY <1>1, <1>3, <1>4, <2>1, <2>2 DEF RunsOut
    <2>3. CASE ~Over(s)
      BY <1>1, <1>2, <1>4, <2>1, <2>3
    <2> QED
      BY <2>2, <2>3
  <1>5. ASSUME NEW s \in Minted, NEW r \in Requests, job[r] = "refresh", pc[r] = "signing",
               session[token[r]] = s, Over(s) => s \in overtaken, Over(s)'
        PROVE  s \in overtaken'
    BY <1>1, <1>2, <1>5
  <1> QED
    BY <1>4, <1>5 DEF Steady, RunsOut

\* Whatever the server does.
LEMMA NextSteady ==
  ASSUME Inv, ServerTypeOK, [ServerNext]_svars
  PROVE  Steady
  <1>0. tip \subseteq Tokens
    BY DEF Inv, TypeOK, Minted
  <1>1. CASE UNCHANGED svars
    BY <1>1, SteadyAlone DEF svars
  <1>2. CASE Start \/ Signal \/ Drain \/ DrainTimesOut \/ Tick
    BY <1>2, SteadyAlone DEF Start, Signal, Drain, DrainTimesOut, Tick
  <1>3. CASE Exit \/ Kill
    <2>1. UNCHANGED <<store, closedAt, overtaken>>
      BY <1>3 DEF Exit, Kill, Lose
    <2> QED
      BY <2>1 DEF store, Steady, RunsOut, Over, Minted
  <1>4. ASSUME NEW t \in tip, Expire(t) PROVE Steady
    <2>1. {t} \in SUBSET tip /\ Close({t}) /\ Note({t})
      BY <1>4 DEF Expire
    <2> QED
      BY <2>1, SteadyClose
  <1>5. ASSUME NEW r \in Requests, OpenSession(r) PROVE Steady
    BY <1>5, OpenSessionTurns, SteadyAdvance DEF history
  <1>6. ASSUME NEW r \in Requests, Rotate(r) PROVE Steady
    <2>1. Fresh \in Tokens /\ Advance(token[r], Fresh) /\ UNCHANGED history /\ token[r] \in Tokens
      BY <1>0, <1>6, RotateTurns DEF Advance
    <2> QED
      BY <2>1, SteadyAdvance DEF history
  <1>7. ASSUME NEW r \in Requests, EndSession(r) PROVE Steady
    <2>1. PICK S \in SUBSET tip : Close(S) /\ Note(S)
      BY <1>7, EndSessionTurns
    <2> QED
      BY <2>1, SteadyClose
  <1>8. ASSUME NEW r \in Requests, Disconnect(r) \/ SignFails(r) PROVE Steady
    <2>1. UNCHANGED <<store, closedAt, overtaken>>
      BY <1>8 DEF Disconnect, SignFails, Leave, Lose
    <2> QED
      BY <2>1 DEF store, Steady, RunsOut, Over, Minted
  <1>9. ASSUME NEW r \in Requests, Answer(r) PROVE Steady
    BY <1>9, SteadyAlone DEF Answer, Leave
  <1>10. ASSUME NEW r \in Requests, LookUp(r) \/ ReadRows(r) \/ QueryFails(r) \/ AcquireFails(r)
         PROVE  Steady
    BY <1>10, SteadyAlone, FailsAlone DEF LookUp, ReadRows
  <1>11. ASSUME NEW r \in Requests, NeedsQuery(r) \/ Acquire(r) \/ Sign(r) PROVE Steady
    BY <1>11, SteadyAlone DEF NeedsQuery, Acquire, Sign
  <1>12. ASSUME NEW r \in Requests,
                \/ ArriveLogin(r)
                \/ \E t \in held : ArriveRefresh(r, t) \/ ArriveLogout(r, t)
                \/ \E a \in access : ArriveRead(r, a) \/ ArriveSocket(r, a)
         PROVE  Steady
    BY <1>12, ArriveTurns, SteadyAlone
  <1>13. ASSUME NEW r \in Requests, Unconfirmed(r) PROVE Steady
    <2>1. /\ Fresh \in Tokens /\ UNCHANGED <<closedAt, overtaken>>
          /\ Open(Fresh) \/ (Advance(token[r], Fresh) /\ token[r] \in Tokens)
      BY <1>0, <1>13, UnconfirmedLoses DEF Advance
    <2> QED
      BY <2>1, SteadyAdvance
  <1> QED
    BY <1>1, <1>2, <1>3, <1>4, <1>5, <1>6, <1>7, <1>8, <1>9, <1>10, <1>11, <1>12, <1>13
       DEF ServerNext, Main, Request, QueryEnds

\* The clock does not go back.
LEMMA NextNow ==
  ASSUME ServerTypeOK, [ServerNext]_svars
  PROVE  now \in Nat /\ now' \in Nat /\ now <= now' /\ AccessTTL \in Nat
  <1>1. now \in Nat /\ AccessTTL \in Nat
    BY Clock
  <1>2. CASE Tick
    BY <1>1, <1>2 DEF Tick
  <1>3. CASE ~Tick
    <2>1. ASSUME NEW r \in Requests, Request(r) PROVE now' = now
      BY <2>1, QueryEndsTurns, ArriveTurns, NeedsQueryTurns, AcquireTurns, FailTurns, SignTurns
         DEF Request, AcquireFails, SignFails, Answer, Disconnect, Leave
    <2>2. now' = now
      BY <1>3, <2>1 DEF ServerNext, Main, Start, Signal, Drain, DrainTimesOut, Exit, Kill, Expire, svars
    <2> QED
      BY <1>1, <2>2
  <1> QED
    BY <1>2, <1>3

\* What is left to sign or to answer for request r.
Pending(r) ==
  token[r] # NoToken =>
    /\ pc[r] = "answering" => RunsOut(session[token[r]], pass[r].exp)
    /\ pc[r] = "signing" /\ Over(session[token[r]]) => session[token[r]] \in overtaken

\* Every step keeps the limit on the age of access tokens.
LEMMA NextAged ==
  ASSUME Inv, ServerTypeOK, IsFiniteSet(Querying), Carrying, Aged, [ServerNext]_svars
  PROVE  Aged'
  <1> DEFINE Old(a) == a.session \in Minted /\ a.exp <= now + AccessTTL /\ RunsOut(a.session, a.exp)
  <1>0. Steady /\ Minted \subseteq Minted' /\ (\A t \in Minted : session'[t] = session[t])
    BY NextSteady, StoreStep, MintedStay
  <1>1. now \in Nat /\ now' \in Nat /\ now <= now' /\ AccessTTL \in Nat
    BY NextNow
  <1>2. ASSUME NEW a \in Passes, Old(a) PROVE Old(a)'
    <2>1. a.exp \in Times /\ a.exp \in Nat
      BY Clock DEF Passes
    <2> QED
      BY <1>0, <1>1, <1>2, <2>1 DEF Steady
  <1>3. \A a \in access : a \in Passes /\ Old(a)
    BY DEF Aged, ServerTypeOK
  <1>4. \A t \in Minted : session[t] \in Minted
    BY DEF Inv, Named
  <1>5. ASSUME NEW q \in Requests, pc'[q] = pc[q], token'[q] = token[q], pass'[q] = pass[q]
        PROVE  Pending(q)'
    <2>1. Pending(q) /\ Carries(q) /\ pass[q] \in Passes \cup {NoPass}
      BY DEF Aged, Carrying, ServerTypeOK, Pending
    <2> SUFFICES ASSUME token[q] # NoToken PROVE Pending(q)'
      BY <1>5 DEF Pending
    <2>2. token[q] \in Minted /\ session'[token[q]] = session[token[q]] /\ session[token[q]] \in Minted
      BY <1>0, <1>4, <2>1 DEF Carries
    <2>3. PICK s \in Minted : s = session[token[q]]
      BY <2>2
    <2>4. CASE pc[q] = "answering"
      <3>1. pass[q] \in Passes /\ pass[q].exp <= now + AccessTTL /\ RunsOut(s, pass[q].exp)
        BY <2>1, <2>3, <2>4 DEF Carries, Pending
      <3>2. PICK exp \in Times : exp = pass[q].exp
        BY <3>1 DEF Passes
      <3>3. RunsOut(s, exp)'
        BY <1>0, <3>1, <3>2 DEF Steady
      <3> QED
        BY <1>5, <2>2, <2>3, <2>4, <3>2, <3>3 DEF Pending, RunsOut, Over
    <2>5. CASE pc[q] = "signing"
      <3>1. job[q] = "refresh" /\ (Over(s) => s \in overtaken)
        BY <2>1, <2>3, <2>5 DEF Carries, Pending
      <3>2. Over(s)' => s \in overtaken'
        BY <1>0, <2>3, <2>5, <3>1 DEF Steady
      <3> QED
        BY <1>5, <2>2, <2>3, <2>5, <3>2 DEF Pending, Over
    <2> QED
      BY <1>5, <2>4, <2>5 DEF Pending
  <1>6. access' \subseteq access => \A a \in access' : Old(a)'
    BY <1>2, <1>3
  <1>7. ASSUME \A a \in access' : Old(a)', \A q \in Requests : Pending(q)'
        PROVE  Aged'
    BY <1>7 DEF Aged, Pending
  <1>8. UNCHANGED request => \A q \in Requests : Pending(q)'
    BY <1>5 DEF request
  <1> HIDE DEF Old
  <1>9. CASE UNCHANGED svars
    BY <1>6, <1>7, <1>8, <1>9 DEF svars, clients
  <1>10. CASE Start \/ Signal \/ Drain \/ DrainTimesOut \/ Tick
    BY <1>6, <1>7, <1>8, <1>10 DEF Start, Signal, Drain, DrainTimesOut, Tick, clients
  <1>11. CASE Exit \/ Kill
    BY <1>6, <1>7, <1>11 DEF Exit, Kill, Quiet, clients, Pending
  <1>12. ASSUME NEW t \in tip, Expire(t) PROVE Aged'
    BY <1>6, <1>7, <1>8, <1>12 DEF Expire, clients
  <1>13. ASSUME NEW r \in Requests, NEW j, NEW p, NEW t, NEW a, Turns(r, j, p, t, a),
                access' = access \/ \A x \in access' : Old(x)', Pending(r)'
         PROVE  Aged'
    <2>1. \A q \in Requests : Pending(q)'
      BY <1>5, <1>13, TurnsOne
    <2> QED
      BY <1>6, <1>7, <1>13, <2>1
  <1>14. ASSUME NEW r \in Requests, NEW j, NEW p, NEW t, NEW a, Turns(r, j, p, t, a),
                access' = access \/ \A x \in access' : Old(x)',
                p \notin {"signing", "answering"} \/ t = NoToken
         PROVE  Aged'
    <2>1. Pending(r)'
      BY <1>14, TurnsOne DEF Pending
    <2> QED
      BY <1>13, <1>14, <2>1
  <1>15. ASSUME NEW r \in Requests,
                \/ ArriveLogin(r)
                \/ \E t \in held : ArriveRefresh(r, t) \/ ArriveLogout(r, t)
                \/ \E a \in access : ArriveRead(r, a) \/ ArriveSocket(r, a)
         PROVE  Aged'
    <2>1. PICK j \in Jobs, t \in held \cup {NoToken} :
            Turns(r, j, IF j = "socket" THEN "open" ELSE "reading", t, pass[r])
      BY <1>15, ArriveTurns
    <2>2. access' = access
      BY <1>15, ArriveTurns DEF clients
    <2> QED
      BY <1>14, <2>1, <2>2
  <1>16. ASSUME NEW r \in Requests, NeedsQuery(r) PROVE Aged'
    BY <1>14, <1>16, NeedsQueryTurns DEF clients
  <1>17. ASSUME NEW r \in Requests, Acquire(r) PROVE Aged'
    BY <1>14, <1>17, AcquireTurns DEF clients
  <1>18. ASSUME NEW r \in Requests, Fail(r) PROVE Aged'
    BY <1>14, <1>18, FailTurns DEF clients
  <1>19. ASSUME NEW r \in Requests, LookUp(r) \/ ReadRows(r) PROVE Aged'
    <2>1. token[r] = NoToken
      BY <1>19, LookUpTurns, ReadRowsTurns DEF Carrying, Carries
    <2> QED
      BY <1>14, <1>19, <2>1, LookUpTurns, ReadRowsTurns DEF clients
  <1>20. ASSUME NEW r \in Requests, EndSession(r) PROVE Aged'
    BY <1>14, <1>20, EndSessionTurns DEF clients
  <1>21. ASSUME NEW r \in Requests, OpenSession(r) PROVE Aged'
    <2>1. Open(Fresh) /\ Fresh \in Tokens /\ Turns(r, job[r], "answering", Fresh, pass[r])
          /\ access' = access
      BY <1>21, OpenSessionTurns DEF clients
    <2>2. Fresh \in tip'
      BY <2>1 DEF Open
    <2>3. ~Over(session[token[r]])'
      <3>1. token'[r] = Fresh
        BY <2>1, TurnsOne
      <3> QED
        BY <2>2, <3>1 DEF Over
    <2>4. Pending(r)'
      BY <2>3 DEF Pending, RunsOut
    <2> QED
      BY <1>13, <2>1, <2>4
  <1>22. ASSUME NEW r \in Requests, Rotate(r) PROVE Aged'
    <2>1. Advance(token[r], Fresh) /\ Turns(r, job[r], "signing", Fresh, pass[r]) /\ access' = access
      BY <1>22, RotateTurns DEF clients
    <2>2. Fresh \in tip'
      BY <2>1 DEF Advance
    <2>3. ~Over(session[token[r]])'
      <3>1. token'[r] = Fresh
        BY <2>1, TurnsOne
      <3> QED
        BY <2>2, <3>1 DEF Over
    <2>4. Pending(r)'
      BY <2>3 DEF Pending, RunsOut
    <2> QED
      BY <1>13, <2>1, <2>4
  <1>23. ASSUME NEW r \in Requests, Sign(r) PROVE Aged'
    <2>1. /\ pc[r] = "signing" /\ access' = access /\ UNCHANGED <<store, history>>
          /\ Turns(r, job[r], IF job[r] = "login" THEN "waiting" ELSE "answering", token[r],
                   [session |-> NoToken, exp |-> now + AccessTTL])
      BY <1>23, SignTurns DEF clients
    <2>2. token'[r] = token[r]
      BY <2>1, TurnsOne
    <2>3. pc'[r] # "signing"
      BY <2>1, TurnsOne
    <2>4. token[r] # NoToken /\ Over(session[token[r]])' => session[token[r]] \in overtaken
      BY <2>1, <2>2 DEF Aged, Over, store, Minted
    <2>5. Pending(r)'
      BY <2>1, <2>2, <2>3, <2>4 DEF Pending, RunsOut, store, history
    <2> QED
      BY <1>13, <2>1, <2>5
  <1>24. ASSUME NEW r \in Requests, Leave(r), access' = access \/ \A x \in access' : Old(x)'
         PROVE  Aged'
    BY <1>14, <1>24, LeaveTurns
  <1>25. ASSUME NEW r \in Requests, Answer(r) PROVE Aged'
    <2>1. CASE token[r] = NoToken /\ UNCHANGED clients
      BY <1>24, <1>25, <2>1 DEF Answer, clients
    <2>2. CASE token[r] \in Minted /\ pass[r] \in Passes
      <3>1. CASE UNCHANGED clients
        BY <1>24, <1>25, <3>1 DEF Answer, clients
      <3>2. CASE ~UNCHANGED clients
        <4>1. PICK a \in Passes : /\ access' = access \cup {a}
                                  /\ a.session = session[token[r]] /\ a.exp = pass[r].exp
          BY <1>25, <3>2, AnswerTyped
        <4>2. a.session \in Minted /\ token[r] # NoToken /\ pass[r] # NoPass
          BY <1>4, <2>2, <4>1 DEF NoPass, Minted, Passes
        <4>3. a.exp <= now + AccessTTL
          BY <4>1, <4>2 DEF Carrying, Carries
        <4>4. RunsOut(a.session, a.exp)
          BY <1>25, <4>1, <4>2, AnswerTyped DEF Aged
        <4>5. Old(a)
          BY <4>2, <4>3, <4>4 DEF Old
        <4>6. \A x \in access' : x \in Passes /\ Old(x)
          BY <1>3, <4>1, <4>5
        <4>7. \A x \in access' : Old(x)'
          BY <1>2, <4>6
        <4> QED
          BY <1>24, <1>25, <4>7 DEF Answer
      <3> QED
        BY <3>1, <3>2
    <2> QED
      BY <1>25, <2>1, <2>2, AnswerTyped
  <1>26. ASSUME NEW r \in Requests, Disconnect(r) PROVE Aged'
    BY <1>24, <1>26 DEF Disconnect, clients
  <1>27. ASSUME NEW r \in Requests, Request(r) PROVE Aged'
    BY <1>15, <1>16, <1>17, <1>18, <1>19, <1>20, <1>21, <1>22, <1>23, <1>25, <1>26, <1>27
       DEF Request, QueryEnds, QueryFails, AcquireFails, Unconfirmed, SignFails
  <1> QED
    BY <1>9, <1>10, <1>11, <1>12, <1>27 DEF ServerNext, Main

------------------------------------------------------------------------------
(* What holds of the server.                                                  *)

\* The inductive invariant: the store, what requests carry between their queries,
\* and how long the access tokens that were signed may still be good.
THEOREM Invariance == ServerSpec => []IndInv
  <1>1. ServerInit => IndInv
    <2> SUFFICES ASSUME ServerInit PROVE IndInv
      OBVIOUS
    <2>1. Querying = {} /\ Cardinality(Querying) = 0 /\ IsFiniteSet(Querying)
      <3>1. Querying = {}
        BY DEF ServerInit, Querying
      <3> QED
        BY <3>1, FS_EmptySet
    <2>2. Inv /\ 0 \in 0 .. PoolSize /\ 0 \in 0 .. MaxTime /\ 0 \in Times /\ tip = {}
      BY InitInv, PoolAssumption, TTLAssumption DEF ServerInit, Init, Times
    <2>3. ServerTypeOK
      BY <2>1, <2>2 DEF ServerInit, ServerTypeOK, Querying
    <2>4. Carrying /\ SessionsKept /\ Aged
      BY <2>2 DEF ServerInit, Carrying, Carries, SessionsKept, Aged
    <2> QED
      BY <2>1, <2>2, <2>3, <2>4 DEF IndInv
  <1>2. IndInv /\ [ServerNext]_svars => IndInv'
    BY StoreStep, NextInv, NextPool, NextServerTypeOK, NextCarrying, NextSessionsKept, NextAged
       DEF IndInv
  <1> QED
    BY <1>1, <1>2, PTL DEF ServerSpec

\* Every variable keeps its type, and the pool has lent exactly the connections
\* that the running queries hold: none leaks, however requests and the process end.
THEOREM ServerTypeCorrect == ServerSpec => []ServerTypeOK
  <1>1. IndInv => ServerTypeOK
    BY DEF IndInv
  <1> QED
    BY <1>1, Invariance, PTL

\* A session's good token is with its client or on its way, or its request was cut
\* off by force or answered with an error: the end of the process adds no way to
\* lose one, since main waits for Shutdown, and pool.Close for the queries.
THEOREM ServerKeepsSessions == ServerSpec => []SessionsKept
  <1>1. IndInv => SessionsKept
    BY DEF IndInv
  <1> QED
    BY <1>1, Invariance, PTL

\* An access token lets nobody in once its session has been over for its lifetime,
\* but for a refresh that was caught between its rotation and its signature.
THEOREM AccessEnds == ServerSpec => []AccessRunsOut
  <1>1. IndInv => AccessRunsOut
    <2> SUFFICES ASSUME IndInv, NEW a \in access, Accepts(a), Over(a.session),
                        a.session \notin overtaken
                 PROVE  now < closedAt[a.session] + AccessTTL
      BY DEF AccessRunsOut
    <2>1. a.exp <= closedAt[a.session] + AccessTTL /\ a.session \in Tokens /\ a \in Passes
      BY DEF IndInv, Aged, RunsOut, Minted, ServerTypeOK
    <2>2. now \in Nat /\ AccessTTL \in Nat /\ a.exp \in Nat /\ closedAt[a.session] \in Nat
      BY <2>1, Clock DEF IndInv, Passes, ServerTypeOK
    <2>3. now < a.exp
      BY DEF Accepts
    <2> QED
      BY <2>1, <2>2, <2>3
  <1> QED
    BY <1>1, Invariance, PTL
=============================================================================
