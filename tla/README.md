# Specification of loqui-backend

TLA+ modules, model-checked with TLC and partly proved with TLAPS, of the Go
backend in `src/`: a REST API over Postgres, a websocket gateway that fans
events out, and a snowflake id generator.

## 1. Inventory

| part | code | state | operations | talks to |
|---|---|---|---|---|
| refresh-token store | `internal/session/store.go` | table `refresh_tokens`, row locks of open transactions | `Issue`, `Rotate`, `Revoke`, `RunGC` | ids from snowflake; called by the auth handlers and by `main` (collector) |
| auth handlers | `internal/api/handlers.go` | none | register, login, refresh, logout, me | user store, session store, access tokens |
| user store | `internal/user/store.go`, `0001_users.sql` | table `users`, two unique indexes | `Create`, `GetByIdentity`, `GetByEmail`, `GetByID` | discriminators, snowflake |
| id generator | `internal/snowflake` | `lastMs`, `sequence`, a mutex; the wall clock | `Next`, `TimeOf`, `NodeOf`, `SeqOf` | called by all stores |
| hub | `internal/gateway/hub.go` | `channels` and every client's `subs` under one RWMutex | `subscribe`, `unsubscribe`, `removeClient`, `Publish` | called by connections and message handlers |
| connection | `internal/gateway/client.go`, `gateway.go` | bounded queue `send`, context, two goroutines | handler, `readLoop`, `writeLoop`, `enqueue` | hub, channel store, websocket library |
| message store, handlers | `internal/message`, `internal/api/message_handlers.go` | table `messages` (soft deletes) | create, update, delete, list; publish after commit | channel store, snowflake, hub |
| channel store, handlers | `internal/channel`, `channel_handlers.go` | table `channels`, insert only | create, get, list | snowflake |
| migrator | `internal/db/migrate.go`, `cmd/migrate` | schema, table `schema_migrations` | up, down, status | Postgres |
| access tokens, passwords, discriminators | `internal/auth` | none (keys) | issue, parse, hash, verify, draw | – |
| router, middleware | `internal/api/api.go`, `cors.go` | none | `requireAuth`, CORS, JSON helpers | – |
| process | `cmd/server` | lifecycle | start, collector, graceful shutdown | all |
| configuration, logging, `cmd/genkey` | | none | | |

What is hard here, and what makes each part correct:

- **Refresh tokens.** Every request is a goroutine with its own transaction
  under READ COMMITTED. Correct: a token gets at most one successor; a family
  has at most one good token; reuse of a spent token is noticed as long as the
  token could have lived; the end of a session is final; a token in a client's
  hands is not lost; deadlocks between family updates do not stop anybody.
- **Ids.** One mutex, a wall clock that can be set back, waits with the mutex
  held, restarts without memory. Correct: unique, increasing, decodable,
  timely; nobody waits forever.
- **Gateway.** Publishers walk over the subscribers under a read lock while
  connections come, go, subscribe and overflow. Correct: no silent gap, no
  event after an unsubscribe was acknowledged, no connection left behind in the
  hub, no publisher held up by a client.
- **Accounts.** Concurrent registrations are decided by unique indexes.
  Correct: a login identity names one account; answers mean what they say;
  collisions are retried.
- **Messages.** Row change and publication are separate steps. Correct: deletes
  are final, misses are classified truthfully, and a client that subscribes and
  then fetches history misses nothing.
- **Migrations.** Several processes, no lock across reading the applied versions
  and running a script. Correct: the tables are those of the recorded versions
  whoever overlaps and wherever somebody breaks off; "up to date" is true when
  it is said; no run waits forever.
- **The process.** Clients, a pool of database connections and a graceful stop
  with a deadline; websockets that no stop waits for. Correct: a stop that has
  the time it needs costs no client its session; the process does end; access
  tokens die with their session after their lifetime.

`PROJECT.json` lists the hazards line by line with the property that watches
each.

## 2. Modules

| module | models | kind |
|---|---|---|
| `RefreshTokens` | session store, refresh and logout handlers, and the locking of Postgres they rely on | detailed |
| `SessionChain` | what the session store promises: chains of tokens with one tip | abstract, refined by `RefreshTokens` |
| `Snowflake` | the id generator, the clock, restarts | detailed |
| `Gateway` | hub, connections, publishers | detailed |
| `Fanout` | what the websocket layer promises: one stream of frames per client | abstract, refined by `Gateway` |
| `Registration` | register, login, the user store and its indexes | detailed |
| `Messages` | message store and handlers, channel creation, a reader of pages and events | detailed; takes ids from `Snowflake`'s promise and events from `Gateway`'s |
| `Server` | the process, its requests and websockets, the connection pool, access tokens | detailed; composed with `SessionChain` in the place of the session store |
| `Migrator` | `cmd/migrate`, `internal/db/migrate.go` and the scripts | detailed |
| `RefreshTokensProofs`, `ServerProofs` (with the theorems of `SessionChain`), `SnowflakeProofs`, `FanoutProofs`, `GatewayProofs`, `RegistrationProofs`, `MessagesProofs`, `MigratorProofs` | theorems | proofs |
| `MC*` | constants, symmetry | model checking |

Definitions named as a mutation in their comment (`CanLockNoForUpdate`,
`DrainForever`, ...) are not part of the specifications. Each is a plausible
bug; put in place of the definition that follows it, a property must fail
(`mutants` in `PROJECT.json`).

### RefreshTokens

`stored`, `rotated`, `revoked` are the committed rows and their columns
`rotated_at`, `revoked_at`; `family` and `expires` never change after the
insert. `locks`, `todo`, `pc`, `tok`, `new` are the open transactions.

- `Rotate` reads and checks under `FOR UPDATE` and then writes; nobody sees its
  writes before the commit and nobody can change the row it has locked, so
  lock, checks, spend and insert are one action (`RotateSwap`) and the commit
  another (`RotateCommit`). Refusals and the reuse branch are `RotateRefuse`
  and `RotateReplay`.
- The family update is three kinds of steps: `FamilyScan` takes the statement's
  snapshot, `FamilyVisit` locks one row and tests the condition again,
  `FamilyCommit`. `Rotate` runs it inside its transaction, `Revoke` as a
  statement of its own after a plain `SELECT`. `RunGC` is modelled the same way.
- The order in which a statement visits rows and in which Postgres wakes
  waiters is arbitrary. Rows inserted after the snapshot are not visited.
- `Abort` is any failure before a commit; `DeadlockVictim` the deadlock
  detector; `Deliver` lets an answer be lost after the commit.
- One clock stands for the clocks of the application (`time.Now`) and of
  Postgres (`now()`), and it does not go back. A secret is genuine or not;
  a client presents a genuine one only if the token was delivered.

### Snowflake

Shifts and masks on disjoint fields are multiplication, division and modulo,
for negative timestamps too. The 41-bit timestamp is not bounded (2095).
`Call` queues for the mutex; `Enter`, `EnterDrift`, `Refuse` are what happens
when it is taken; `DriftOver` and `NextMillisecond` end a wait. `Tick` and
`SetBack` move the clock in either direction at any time; `Restart` forgets the
generator. `shown` is history: every reading the clock has had.

### Gateway

`PublishStart`, `PublishTo`, `PublishDone` are one walk over the subscribers,
during which the read lock is held; `Subscribe`, `Unsubscribe`, `RemoveClient`
need that nobody holds it. The handler goroutine goes through `Connect`,
commands, and the end `ReadFails`, `CloseConn`, `RemoveClient` in the order the
deferred calls run. The writer's `select` takes any case that is ready. The
websocket library and the network (`PeerCloses`, `WriteTimesOut`,
`ContextDone`) are external: they close a connection when the peer goes, when a
write has taken `writeTimeout`, when the context of a read or write is done.
A ping fails when the connection is closed or the pong takes `writeTimeout`
(`PingFails`). Frames are a kind and a channel or event number.

`Fanout` says what all this is for: an event is due to those who are subscribed
when it is published, and joins the stream of each of them once; an
acknowledgement joins the stream after the subscription has changed; an
unsubscribe waits until no event is due. `ImplementsFanout` maps `Gateway` to
it:

| `Fanout` | `Gateway` |
|---|---|
| `stream` | the frames received, then the one being written, then the queue |
| `due` | the events of the publishers that have the client in `todo` |
| `ack` | the command of a handler that has changed the hub and not yet queued its answer |
| `cut` | `cancelled` |
| all of a cut client | blank: from the cancel on nothing is promised but the end |

Blanking is what makes the cut one abstract step. It says that a client can rely
on nothing between the cancel and the close of its connection: the writer may
still take frames from the queue, and what is queued behind them may follow a
frame that was dropped. That the connection does end is `OwedOrGone`.

### Registration

Names are words with a spelling that `lower()` forgets. The insert is one
statement, which may take effect although its confirmation is lost
(`InsertUnconfirmed`); the unique indexes are checked in the order they were
created. The constraint names are compared as the code writes them. A login that succeeds
looks up the account and verifies the password in one step: rows are never
changed, so nothing can happen in between.

### Messages

A request draws its id or takes it from the path, runs its statement, runs
`classifyMiss` if nothing matched, publishes and answers. `Committed` has the
branch in which the statement commits but the request's context is done: the
change is in the table and is never published (`lost`); `crossed` notes the
messages that were changed while an earlier change had still to be published. A statement that waited
for a row lock tests its condition again, so it is one step at the moment it
gets the lock. A text is named by the request that wrote it; validation, times
and layout are abstracted. Authors are fixed. `CreateChannel` makes a channel, and
messages are created in channels that are there. Channels are never removed or
changed, so the lookup before an insert cannot become stale. Readers follow the
advice in `hub.go`: subscribe, then fetch pages until one is short, either from
the newest message down (`before`) or from a message they have up (`after`).
A path names an id that was drawn or one that no message has; it is not guessed
in advance.

### Server

`phase` is where `main` is: `down`, `serving`, `draining` (inside `Shutdown`),
`drained` or `expired` (`Shutdown` has returned and the deferred `pool.Close`
has begun). `Exit` needs that every lent connection is back; then the goroutines
end with `main`, websockets among them. `Kill` is the end at any moment.

A request is a goroutine: `reading` its body, `waiting` for a connection of the
pool, `querying`, `signing` an access token, `answering`; a websocket is `open`
between its queries. `job` says which handler it is; `read` stands for every
handler behind `requireAuth`. `handleLogin` queries twice, with the signature in
between, and `handleRefresh` signs after the rotation has committed: the order
decides what a client loses when the process goes down. `Disconnect` is a
connection that breaks, at any moment outside a query.

Errors come before the change (`QueryFails`, `AcquireFails`) or after it: the
database stores a session or commits a rotation and does not confirm it
(`Unconfirmed`), or the signature fails when the rotation has committed
(`SignFails`). Then the client gets an error and nobody has the new token.

The session store is `SessionChain` itself (`Server` extends it): `Open` for
`Issue`, `Advance` for `Rotate`, `Close` for `Revoke`, a replay or an expiry.
`EndSession` may also close nothing, because the row has been collected or
because of the race that `MCLogoutRace` shows.

`access` holds the access tokens that the key of the present run verifies.
`Start` keeps them (a configured key) or forgets all of them (an ephemeral
key). `lost`, `closedAt`, `overtaken` are history; `lost` are the tokens that no
answer will carry, because the connection broke, the process was killed or timed
out, or the request failed after the store had made them.

### Migrator

A schema is the set of its features: four tables, `lenient` (the constraint of
0005 in place of that of 0003) and `emptied` (some message has been cleared, so
the old constraint cannot come back). What a script does and when it fails is
translated from the scripts: `UpRuns`, `DownRuns`, `Dropped`; which locks it
takes, from the tables it names and those its foreign keys refer to (`Touches`).

A process reads the versions (`Read`) and then, version by version, runs the
script (`Script`, `ScriptFails`) and commits it with its bookkeeping row
(`Apply`, `ApplyFails`, `RollBack`). The commit may succeed and its
confirmation be lost (`Committed`). A script takes the locks of all its tables in
one step, so two scripts that lock the same tables in different orders, one of
which Postgres would make fail, are not modelled beyond `ScriptFails`. `Fail` is
any other end. The server runs
meanwhile and deletes messages (`DeleteMessage`). `status` has nothing to do
after reading; what it prints is not modelled. `crossed`, `skipped`, `undone`
are history.

## 3. Runs

| run | instance | checks |
|---|---|---|
| `MCRefreshTokens` | 2 requests and the collector, 3 tokens, no clock | `TypeOK`, `ExchangedOnce`, `OneUnspent`, `QuietEndIsFinal`, `SessionInv` (the inductive invariant of the proofs), refinement `ImplementsChain` |
| `MCRefreshTokensTime` | 2 tokens, clock to 3, lifetime 2, fair | `HeldTokenWorks`, `SpentTokenDetected`, `RequestsFinish` |
| `MCLogoutRace` | 2 tokens | violation of `LogoutEndsSession` |
| `MCReplayRace` | 3 tokens | violation of `ReplayRevokesFamily` |
| `MCServer` | 2 refresh tokens, 2 requests, a pool of 1, clock to 1, lifetime 1, any number of restarts, fair | `ServerTypeOK`, `ClosedForGood`, `SessionsKept`, `AccessRunsOut`, `StopsInTheEnd`, `ConnectionsComeBack` |
| `MCSnowflake` | 2 callers, 2 sequence numbers, clock to 4, 2 steps back, 2 runs, 4 ids, fair | `TypeOK`, `StrictlyIncreasing`, `FieldsFaithful`, `Timely`, `CallsReturn` |
| `MCGateway` | 1 client, 2 publishers, queue of 2, 2 events, 3 commands, fair | `TypeOK`, `NoGhosts`, `QuietAfterUnsubscribe`, `PublishReturns`, `OwedOrGone`, refinement `ImplementsFanout` |
| `MCRegistration` | 3 requests, 1 word in 2 spellings, 2 discriminators | `TypeOK`, `LoginUnambiguous`, `AnswersMeanIt` |
| `MCDiscriminators` | the same | violation of `CollisionsRetried` |
| `MCMessages` | 3 requests, 2 users, 2 channels, 1 reader, pages of 1 | `TypeOK`, `DeletedForGood`, `MissesExplained`, `AnswersAfterEvents`, `NothingMissed` |
| `MCMigrator` | 3 processes, any level to begin with, all 5 scripts, fair | `TypeOK`, `TablesRecorded`, `LevelByLevel`, `UpToDate`, `CommandsFinish` |
| `MCMigratorRace` | 2 processes | violation of `DownTakesLatest` |

Why the bounds are enough to be interesting:

- Three tokens are a family with a replayed token, its successor and the
  successor of that: the smallest in which a replay races a rotation. Two
  requests and the collector give every pair of operations, and deadlocks. Two
  tokens suffice for a logout that races a rotation.
- Two sequence numbers per millisecond are exhausted by the third id; a drift
  limit of one against a clock of four makes drift and refusal different; a wait
  for the clock goes on past the bound.
- With a queue of two an ack can queue behind an event, and the hello frame and
  two events overflow it. Three commands are subscribe, unsubscribe,
  subscribe. Connections share nothing but the hub's sets, so one client shows
  what the walk of a publisher can meet.
- A pool of one and two requests make everything that waits for a connection
  wait for somebody else's query. Two refresh tokens are a session with a
  rotation, or two sessions. A lifetime of one tick makes an access token
  outlive its session and then run out. Restarts are not bounded.
- Three migrators are two that race and one that rolls back what they have
  done, with every pair of commands from every level; the scripts are all there
  are.
- Three requests are a create and two changes, or three messages, which with
  pages of one need a walk of several pages while the table changes.

`CHECK_DEADLOCK FALSE` stands where the bounded inputs run out and the system
stops: the generator after its last id, connections that are gone, requests
that are all answered, a server all of whose tokens are used up and whose
clock is at its bound, migrators that have all ended.

### What the violations show

- **Logout does not always end the session** (`MCLogoutRace`). `Rotate` has
  locked token 1 and inserted token 2 but not committed. `Revoke` starts its
  `UPDATE`; the snapshot holds token 1 only, whose lock it waits for. `Rotate`
  commits. The `UPDATE` goes on, revokes token 1, and the logout is answered.
  Token 2 works. `session/store.go:138` says "Revoke ends tokens session".
  `QuietEndIsFinal` is what does hold: without such an overlap the end is final.
- **A detected replay does not always revoke the family** (`MCReplayRace`). The
  same race with the update in the reuse branch; `session/store.go:61` says
  "replaying a spent token revokes whole family".
- **Discriminator collisions are not retried** (`MCDiscriminators`).
  `user/store.go:75` looks for `user_identity_key`; the index is called
  `users_identity_key`. The first collision ends the loop, and the request is
  answered with 500 instead of trying up to five times and then 409.
- **Down does not always roll back the latest migration** (`MCMigratorRace`). It
  reads the applied versions, another process applies more, and the version it
  had seen as the latest is rolled back below newer ones. Down of 3 while Up
  applies 4 and 5 drops `messages` and leaves 5 recorded: the next Up makes the
  table anew with the constraint that 5 had replaced. `db/migrate.go:71` says
  "Down rolls back most recently applies migration". `TablesRecorded` and
  `LevelByLevel` are what does hold.

Not violations of anything the repository says, but worth knowing (they are in
the hazards): events of overlapping requests may be published in another order
than their changes were committed, so that a create or update event can follow
the delete event of the same message; a change whose request was cancelled
between commit and `Publish` is never announced; a client that was away and asks
only for messages after its last id misses one that had drawn a lower id and was
not yet inserted.

### Fairness

- `RefreshTokens`: a goroutine and a statement that can go on do (weak
  fairness). Postgres queues the waiters of a row lock, so visiting rows is
  strongly fair. The deadlock detector acts while a cycle lasts. Nothing is
  assumed of clients, aborts or the clock.
- `Snowflake`: the clock ticks; `sync.Mutex` hands the lock to a waiter in the
  end (starvation mode), hence strong fairness of a caller's steps.
- `Gateway`: goroutines run; a waiting writer of `sync.RWMutex` is let in, so
  the three steps that take the write lock are strongly fair; a write ends in
  success, failure or after `writeTimeout`; the ping ticker and the context
  wake the writer when its connection is closed. No peer is assumed to read or to
  leave, and one that reads nothing may answer every ping in time.
- `Server`: a query ends (all it may wait for are other queries' row locks); the
  pool serves its waiters in turn, hence strong fairness of getting a
  connection; the timer of `Shutdown` fires; `main` goes on. Nothing is assumed
  of clients: a request may be read, and a socket stay open, forever.
- `Migrator`: a process that can go on does. Weak fairness is enough although
  scripts wait for locks: every process has finitely many transactions, so one
  day nobody holds any.

The liveness properties say `[]<>` of a condition that means "not under way" or,
once true, stays so; that is the same as saying that what has begun comes to an
end.

## 4. Proofs

The theorems hold for every value of the constants that meets the named
assumptions of the modules. Those say what the code fixes (a page holds at least
one message, a pool at least one connection, a loop tries at least once), keep
the names of different things apart (`CollectorAssumption`, `NoTokenAssumption`,
`DiscsAssumption`: 0 stands for "no discriminator"), or give the bounds of a
model their type: any number of ids or ticks, any finite set of requests
(`RequestsAssumption`). All invariants and all action properties of the runs are proved; liveness is not.

- `RefreshTokensProofs`. The inductive invariant `IndInv` adds to `TypeOK`,
  `ExchangedOnce` and `OneUnspent`: `Locking` (a row is locked by one
  transaction and exists), `InFlight` (a rotation that has not committed holds
  the lock of its token's row, which is neither spent nor revoked, and has an id
  that nobody else has), `Targets` (a replay or logout under way is about a
  drawn token, so it ends a family that exists) and `Lineage` (rows have drawn
  ids; a replaced token is spent or gone). Without `InFlight` the commit of a
  rotation could spend a token twice; without `Lineage` its new id could collide.
  One lemma per action
  leads to `Invariance`, from which `TypeCorrect`, `NeverExchangedTwice` and
  `NeverTwoUnspent` follow. `Refinement` maps `Issue` to `Open`, `RotateCommit`
  to `Advance`, the commits of family updates and of the collector to `Close`,
  and every other step to a stutter.

  How sessions end needs more, `SessionInv`: `Statements` (the rows a process
  has locked or has still to visit are of the family of its token, or dead if it
  is the collector), `Fates` (a row is revoked only in a family that has ended,
  marked as spent only if it was exchanged, and there until it expires or its
  family ends) and
  `QuietEnds` (a family update that no rotation overlaps has on its list or in
  its hands every row that is still good). `HeldTokensWork`,
  `SpentTokensDetected` and `QuietEndsAreFinal` follow. `QuietEnds` is the
  argument that the snapshot of a family update misses nothing, and fails just
  where `MCLogoutRace` and `MCReplayRace` begin. The run `MCRefreshTokens`
  checks `SessionInv` itself.
- `ServerProofs`. First `SessionChain`: `NeverReopened` from an invariant that
  says that sessions are named after tokens that were minted. `StoreIsChain`
  shows that each step of the server is one of `SessionChain` or leaves the
  sessions alone, which brings the theorem to the server
  (`ServerClosesForGood`). Then the requests: `IndInv` adds to
  `ServerTypeOK`, which says that the pool has lent as many connections as there
  are running queries, `Carrying` (the refresh token a request carries was given
  it by a client or by the store; an answer with one has an access token;
  nothing is served once `Shutdown` has returned in time), `SessionsKept` itself
  and `Aged` (no access token, sent or yet to be sent, expires later than its
  lifetime after the end of its session, unless its session is among the
  overtaken). `ServerTypeCorrect`, `ServerKeepsSessions` and `AccessEnds` follow.
  Without the part of `Carrying` about `drained`, `Exit` could take the token of
  an unanswered request with it; without the part of `Aged` about signatures
  still to come, a late one could outlive its session unnoticed. `Steady` says
  for any change of the store what becomes of the ages.
- `RegistrationProofs`. `IndInv` adds to `TypeOK`: `Numbered` (rows have the
  numbers 1 to n, one for each request that created one), `Distinct` (what the
  two unique indexes enforce), `Progress` and `Answered` (the account of a
  request is the one it registered or the one it named, from the insert or the
  lookup on), `Positive` (sessions belong to requests answered with 200 or 201, or with 500
  after a failure).
  `LoginsUnambiguous` follows from `Distinct`, `AnswersAlwaysMeanIt` from the
  others: rows are never changed, so what was looked up stays so.
- `MessagesProofs`. `IndInv` has a part for each thing that two of the system's
  parties know of one another: `Stages` (what a request knows where it is),
  `Drawn` (creates have ids of their own), `Deletes`, `Misses`, `Sequenced`
  (events are of requests that were answered in the same step; a request relies
  on earlier ones only when they were answered), `Told` (whoever wrote what a row
  holds now, or deleted it, has published or will), `Settled` (of a
  message whose changes did not overlap, the event still to come tells its
  state, or the last one if none is to come), `ShownOnce` (pages hold
  one text of a message) and `Covered` (the pages a
  reader has fetched, and those it has still to fetch, hold every row whose
  news came out before it subscribed). `DeletesAreFinal`, `MissesAreExplained`
  and `EventsInOrderOfAnswers` need the first six; `ReadersMissNothing` needs
  `Told` and `Settled` for what changes after the subscription, `ShownOnce` and
  `Covered` for what was there before. That a page leaves no gap is the lemma that the smallest (or
  largest) `Limit` rows past the cursor are all those up to the new cursor,
  from the well-foundedness of the natural numbers.
- `SnowflakeProofs`. `FieldsRecovered` (decoding inverts encoding) from two
  facts on division; `TypeCorrect`; `IdsIncrease` from an invariant that bounds
  every id issued by the pair of `lastMs` and `sequence`. `AllGenuine` (every id
  was packed by this node from a time the clock has shown) gives
  `FieldsAlwaysFaithful`, and `CallsPast` (until it is set back the clock is
  past every call) the action property `AlwaysTimely`.
- `MigratorProofs`. `IndInv` adds to `TypeOK` and `TablesRecorded` what an open
  transaction relies on: its script still fits the schema, and no other open
  transaction touches its tables. `ApplyApart` and `RollBackApart` say that
  scripts on different tables do not disturb one another; without the locks the
  insert or drop of a table could go through twice, or take away a table that
  another script has just referred to. `TypeCorrect` and `TablesAlwaysRecorded`
  follow for any number of processes. `KnowInv` is what processes know without
  any lock: what one has read and applied is a level (`Levelled`) and is still
  applied (`StillApplied`) as long as no rollback came between. The version that
  an Up comes to next is then the one above the level, so that of two Ups one
  finds the row of the other and fails: `LevelsOnly`. An Up that has seen all
  versions is right about them: `UpsTellTheTruth`.
- `FanoutProofs`. `AlwaysQuiet` needs more than itself: a channel with events due
  or with a subscription is one that the client has come back to since its last
  "unsubscribed" (`Told`), and an end that is not acknowledged yet is one
  (`Ended`). `NeverTwice` needs that an event that was sent is due no more. The
  hypothesis `Plain` says that notices are not events or acknowledgements.
- `GatewayProofs`. `IndInv` adds to `TypeOK` that publishers at work have
  different events, which are theirs only while they walk, and walk to connected
  clients (`Walks`), that hub and clients agree (`Agree`), and what follows from
  where the goroutines of a client are (`Course`). One lemma per action shows that
  it is kept, a second which step of `Fanout` the action is: `Refinement`.
  `NeverGhosts` follows from the invariant; `AlwaysQuiet` is `Fanout`'s theorem,
  instantiated (`P`) and brought back through the refinement.

Only model-checked: liveness (`RequestsFinish`, `CallsReturn`, `PublishReturns`,
`OwedOrGone`, `CommandsFinish`, `StopsInTheEnd`, `ConnectionsComeBack`), which
needs fairness and ENABLED.

## 5. Plan

Done in this order: `SessionChain` and `RefreshTokens`, `Snowflake`, `Gateway`,
`Registration`, `Messages`; then `Fanout` and the refinement, `Server`,
`Migrator`, channel creation in `Messages`; then the theorems, one for every
invariant and action property that a run checks.

To come: a reader whose connection is cut off and comes back: `Messages` on top of
`Fanout` in place of its own sequences of events, and `ReadersMissNothing` for
such a reader.

## 6. Not modelled

- Cryptography and password hashing (`auth/password.go`, the signature of access
  tokens, `cmd/genkey`), drawing discriminators and secrets: an access token is
  its expiry and whether this run's key verifies it, a secret is genuine or not.
- Header and content validation, JSON, CORS, the parsing of script files,
  configuration and logging: they keep no state, and no property is about their
  form.
- `edited_at` is the start of the editing transaction, not the moment it got the
  row, so that of two overlapping edits the later text may carry the earlier
  time: no property, since nothing in the repository says what the column
  promises beyond "edited".
- A message whose request ends between the commit and `Publish` is in the table
  and never announced (`lost` in `Messages`): `NothingMissed` excepts it, the
  code makes no other promise. Where the changes of a message overlap (`crossed`),
  it asks that its end is told and not that it is told last.
- The order of the list of channels: it is that of their ids, which
  `StrictlyIncreasing` is about.
- A crash of Postgres. A crash of the server loses the requests in flight
  (`Abort`, `Kill`) and the generator's memory (`Restart`), and disconnects every
  client.
