---------------------------- MODULE RefreshTokens ----------------------------
(****************************************************************************)
(* The refresh-token store, internal/session/store.go, with the handlers    *)
(* that call it and the part of Postgres it relies on.                      *)
(*                                                                          *)
(* A session is a family of tokens.  Issue starts a family, Rotate swaps    *)
(* the family's token for a successor (or, when the token was spent         *)
(* already, revokes the family), Revoke ends the family, and RunGC deletes  *)
(* dead rows.  Every request is served by a goroutine of its own and every  *)
(* statement runs under READ COMMITTED:                                     *)
(*                                                                          *)
(*   - SELECT ... FOR UPDATE waits for the row lock and then reads the      *)
(*     latest committed version of the row;                                 *)
(*   - an UPDATE or DELETE over many rows picks its rows from a snapshot    *)
(*     taken when the statement starts (todo), then locks them one at a     *)
(*     time, waiting for each, and tests its WHERE clause again on the      *)
(*     version it finds.  Rows committed after the snapshot are not seen;   *)
(*   - locks and writes last until commit; a rollback undoes both.          *)
(****************************************************************************)
EXTENDS Integers

CONSTANTS
  Requests,   \* goroutines that serve HTTP requests
  Collector,  \* the RunGC goroutine
  MaxId,      \* bound: token ids are 1 .. MaxId, in the order drawn
  MaxTime,    \* bound: the clock stops here
  TTL         \* REFRESH_TTL

ASSUME CollectorAssumption == Collector \notin Requests
ASSUME MaxIdAssumption     == MaxId \in Nat
ASSUME TimeAssumption      == MaxTime \in Nat /\ TTL \in Int

Ids   == 1 .. MaxId
NoId  == 0
Procs == Requests \cup {Collector}

VARIABLES
  \* the committed contents of table refresh_tokens
  stored,    \* ids that have a row
  rotated,   \* rows whose rotated_at is set
  revoked,   \* rows whose revoked_at is set
  family,    \* family_id, fixed when the id is drawn
  expires,   \* expires_at, fixed when the id is drawn
  \* the server
  locks,     \* rows locked by each process's open transaction
  now,       \* the clock
  lastId,    \* last id the snowflake generator returned
  pc,        \* where each process is
  tok,       \* id of the token the process was given
  new,       \* id of the successor a rotation has inserted
  todo,      \* rows the running UPDATE or DELETE still has to visit
  \* history, read by the properties only
  held,      \* tokens whose secret reached a client
  parent,    \* NoId: never committed; own id: first of its family; else the
             \* token it replaced
  loggedOut, \* families for which a Revoke has completed
  reused,    \* families for which a replayed token was answered
  raced      \* families that had a rotation in flight during a family update

table   == <<stored, rotated, revoked>>
process == <<pc, tok, new, todo, locks>>
ids     == <<family, expires, lastId>>
history == <<held, parent, loggedOut, reused, raced>>
vars    == <<table, process, ids, history, now>>

Updating == {"replayUpdate", "logoutUpdate"}   \* inside the family UPDATE

TypeOK ==
  /\ stored \subseteq Ids /\ rotated \subseteq stored /\ revoked \subseteq stored
  /\ family \in [Ids -> Ids \cup {NoId}]
  /\ expires \in [Ids -> Int]
  /\ locks \in [Procs -> SUBSET Ids]
  /\ now \in Nat
  /\ lastId \in 0 .. MaxId
  /\ pc \in [Procs -> {"idle", "rotating", "replay", "logout", "sweep"} \cup Updating]
  /\ tok \in [Procs -> Ids \cup {NoId}]
  /\ new \in [Procs -> Ids \cup {NoId}]
  /\ todo \in [Procs -> SUBSET Ids]
  /\ held \subseteq Ids
  /\ parent \in [Ids -> Ids \cup {NoId}]
  /\ loggedOut \subseteq Ids /\ reused \subseteq Ids /\ raced \subseteq Ids

Init ==
  /\ stored = {} /\ rotated = {} /\ revoked = {}
  /\ family = [i \in Ids |-> NoId]
  /\ expires = [i \in Ids |-> 0]
  /\ locks = [p \in Procs |-> {}]
  /\ now = 0
  /\ lastId = 0
  /\ pc = [p \in Procs |-> "idle"]
  /\ tok = [p \in Procs |-> NoId]
  /\ new = [p \in Procs |-> NoId]
  /\ todo = [p \in Procs |-> {}]
  /\ held = {}
  /\ parent = [i \in Ids |-> NoId]
  /\ loggedOut = {} /\ reused = {} /\ raced = {}

------------------------------------------------------------------------------
(* Helpers *)

\* Mutation: the SELECT has lost its FOR UPDATE.
CanLockNoForUpdate(p, i) == TRUE

\* No other transaction holds row i.
CanLock(p, i) == \A q \in Procs \ {p} : i \notin locks[q]

\* Mutations: the UPDATE matches the first token of the family only, or has lost
\* its condition on family_id.
LiveRowsFirstOnly(f) == {i \in stored : i = f /\ i \notin revoked}
LiveRowsAnyFamily(f) == {i \in stored : i \notin revoked}

\* The committed rows the family UPDATE matches: its family, not yet revoked.
LiveRows(f) == {i \in stored : family[i] = f /\ i \notin revoked}

\* A swap that would be accepted now.
Usable(i) == i \in stored \ (rotated \cup revoked) /\ expires[i] > now

\* gen.Next() plus the attributes insert() gives the new row.  The bound MaxId
\* stands for the end of the run, not for a limit of the generator.
DrawId(f) ==
  /\ lastId < MaxId
  /\ lastId' = lastId + 1
  /\ family' = [family EXCEPT ![lastId + 1] = f]
  /\ expires' = [expires EXCEPT ![lastId + 1] = now + TTL]

\* The transaction ends, by COMMIT or ROLLBACK, and the goroutine is done.
Finish(p) ==
  /\ pc' = [pc EXCEPT ![p] = "idle"]
  /\ tok' = [tok EXCEPT ![p] = NoId]
  /\ new' = [new EXCEPT ![p] = NoId]
  /\ todo' = [todo EXCEPT ![p] = {}]
  /\ locks' = [locks EXCEPT ![p] = {}]

\* The answer reaches the client, or is lost with its connection.
Deliver(i) == held' \in {held, held \cup {i}}

------------------------------------------------------------------------------
(* POST /login and /register: issueAndRespond, Issue *)

Issue(p) ==
  /\ pc[p] = "idle"
  /\ DrawId(lastId + 1)
  /\ stored' = stored \cup {lastId'}
  /\ parent' = [parent EXCEPT ![lastId'] = lastId']
  /\ Deliver(lastId')
  /\ UNCHANGED <<rotated, revoked, process, loggedOut, reused, raced, now>>

------------------------------------------------------------------------------
(* POST /refresh: handleRefresh, Rotate.  A client presents an id, with the  *)
(* secret that belongs to it (only if the token was delivered) or another.   *)

\* The checks Rotate makes, in its order, after the row is locked.
Accepted(i, genuine) == i \in stored /\ genuine /\ i \notin revoked
Replayed(i, genuine) == Accepted(i, genuine) /\ i \in rotated
\* Mutation: a spent token is swapped like a live one.
SwappableSpent(i, genuine) == Accepted(i, genuine) /\ expires[i] > now
Swappable(i, genuine) ==
  Accepted(i, genuine) /\ i \notin rotated /\ expires[i] > now

\* Lock the token, mark it spent, insert its successor; not yet committed.
RotateSwap(p, i, genuine) ==
  /\ pc[p] = "idle"
  /\ CanLock(p, i)
  /\ Swappable(i, genuine)
  /\ DrawId(family[i])
  /\ pc' = [pc EXCEPT ![p] = "rotating"]
  /\ tok' = [tok EXCEPT ![p] = i]
  /\ new' = [new EXCEPT ![p] = lastId']
  /\ locks' = [locks EXCEPT ![p] = {i}]
  /\ raced' = raced \cup
       {f \in {family[i]} : \E q \in Procs : pc[q] \in Updating /\ family[tok[q]] = f}
  /\ UNCHANGED <<table, todo, held, parent, loggedOut, reused, now>>

\* A spent token: keep its row locked and go on to revoke the family.
RotateReplay(p, i, genuine) ==
  /\ pc[p] = "idle"
  /\ CanLock(p, i)
  /\ Replayed(i, genuine)
  /\ pc' = [pc EXCEPT ![p] = "replay"]
  /\ tok' = [tok EXCEPT ![p] = i]
  /\ locks' = [locks EXCEPT ![p] = {i}]
  /\ UNCHANGED <<table, new, todo, ids, history, now>>

\* Mutation: the deferred Rollback is missing, the row stays locked.
RotateRefuseLeaksLock(p, i, genuine) ==
  /\ pc[p] = "idle"
  /\ i \in stored => CanLock(p, i)
  /\ ~Replayed(i, genuine) /\ ~Swappable(i, genuine)
  /\ locks' = [locks EXCEPT ![p] = {i} \cap stored]
  /\ UNCHANGED <<table, pc, tok, new, todo, ids, history, now>>

\* No row, wrong secret, revoked or expired: the deferred Rollback undoes the
\* lock and nothing else has happened.
RotateRefuse(p, i, genuine) ==
  /\ pc[p] = "idle"
  /\ i \in stored => CanLock(p, i)
  /\ ~Replayed(i, genuine) /\ ~Swappable(i, genuine)
  /\ UNCHANGED vars

\* Mutation: the presented token is not marked as spent.
RotateCommitUnspent(p) ==
  /\ pc[p] = "rotating"
  /\ stored' = stored \cup {new[p]}
  /\ parent' = [parent EXCEPT ![new[p]] = tok[p]]
  /\ Deliver(new[p])
  /\ Finish(p)
  /\ UNCHANGED <<rotated, revoked, ids, loggedOut, reused, raced, now>>

RotateCommit(p) ==
  /\ pc[p] = "rotating"
  /\ stored' = stored \cup {new[p]}
  /\ rotated' = rotated \cup {tok[p]}
  /\ parent' = [parent EXCEPT ![new[p]] = tok[p]]
  /\ Deliver(new[p])
  /\ Finish(p)
  /\ UNCHANGED <<revoked, ids, loggedOut, reused, raced, now>>

------------------------------------------------------------------------------
(* POST /logout: handleLogout, Revoke *)

\* A plain SELECT outside any transaction: no lock is taken.
RevokeLookup(p, i, genuine) ==
  /\ pc[p] = "idle"
  /\ i \in stored /\ genuine
  /\ pc' = [pc EXCEPT ![p] = "logout"]
  /\ tok' = [tok EXCEPT ![p] = i]
  /\ UNCHANGED <<table, new, todo, locks, ids, history, now>>

\* Unknown or bad tokens are a silent no-op.
RevokeIgnore(p, i, genuine) ==
  /\ pc[p] = "idle"
  /\ ~(i \in stored /\ genuine)
  /\ UNCHANGED vars

------------------------------------------------------------------------------
(* update refresh_tokens set revoked_at = now()                              *)
(* where family_id = $1 and revoked_at is null                               *)
(* -- in Rotate inside its transaction, in Revoke as a statement of its own  *)

FamilyScan(p) ==
  LET f == family[tok[p]] IN
  /\ pc[p] \in {"replay", "logout"}
  /\ pc' = [pc EXCEPT ![p] = IF @ = "replay" THEN "replayUpdate" ELSE "logoutUpdate"]
  /\ todo' = [todo EXCEPT ![p] = LiveRows(f)]
  /\ raced' = raced \cup
       {g \in {f} : \E q \in Procs : pc[q] = "rotating" /\ family[tok[q]] = g}
  /\ UNCHANGED <<table, tok, new, locks, ids, held, parent, loggedOut, reused, now>>

\* Mutation: the row of the snapshot is updated whatever became of it.
FamilyVisitNoRecheck(p, i) ==
  /\ pc[p] \in Updating
  /\ i \in todo[p]
  /\ CanLock(p, i)
  /\ todo' = [todo EXCEPT ![p] = @ \ {i}]
  /\ locks' = [locks EXCEPT ![p] = @ \cup {i}]
  /\ UNCHANGED <<table, pc, tok, new, ids, history, now>>

\* Lock the next row; skip it if it has been deleted or revoked meanwhile.
FamilyVisit(p, i) ==
  /\ pc[p] \in Updating
  /\ i \in todo[p]
  /\ CanLock(p, i)
  /\ todo' = [todo EXCEPT ![p] = @ \ {i}]
  /\ locks' = [locks EXCEPT ![p] = @ \cup ({i} \cap (stored \ revoked))]
  /\ UNCHANGED <<table, pc, tok, new, ids, history, now>>

\* The rows still locked are exactly those the statement updated: the replayed
\* token's own row is one of them.
FamilyCommit(p) ==
  /\ pc[p] \in Updating
  /\ todo[p] = {}
  /\ revoked' = revoked \cup locks[p]
  /\ IF pc[p] = "replayUpdate"
     THEN reused' = reused \cup {family[tok[p]]} /\ UNCHANGED loggedOut
     ELSE loggedOut' = loggedOut \cup {family[tok[p]]} /\ UNCHANGED reused
  /\ Finish(p)
  /\ UNCHANGED <<stored, rotated, ids, held, parent, raced, now>>

------------------------------------------------------------------------------
(* RunGC: delete from refresh_tokens                                         *)
(*        where expires_at < now() or revoked_at is not null                 *)

\* Mutation: spent rows are swept too.
DeadOrSpent(i) == expires[i] < now \/ i \in revoked \cup rotated

Dead(i) == expires[i] < now \/ i \in revoked

GCScan ==
  /\ pc[Collector] = "idle"
  /\ pc' = [pc EXCEPT ![Collector] = "sweep"]
  /\ todo' = [todo EXCEPT ![Collector] = {i \in stored : Dead(i)}]
  /\ UNCHANGED <<table, tok, new, locks, ids, history, now>>

\* A row that matched the snapshot still matches: expires_at never changes and
\* revoked_at is never cleared.
GCVisit(i) ==
  /\ pc[Collector] = "sweep"
  /\ i \in todo[Collector]
  /\ CanLock(Collector, i)
  /\ todo' = [todo EXCEPT ![Collector] = @ \ {i}]
  /\ locks' = [locks EXCEPT ![Collector] = @ \cup ({i} \cap stored)]
  /\ UNCHANGED <<table, pc, tok, new, ids, history, now>>

GCCommit ==
  /\ pc[Collector] = "sweep"
  /\ todo[Collector] = {}
  /\ stored' = stored \ locks[Collector]
  /\ rotated' = rotated \ locks[Collector]
  /\ revoked' = revoked \ locks[Collector]
  /\ Finish(Collector)
  /\ UNCHANGED <<ids, history, now>>

------------------------------------------------------------------------------
(* Failures, deadlocks and time *)

Rollback(p) ==
  /\ pc[p] # "idle"
  /\ Finish(p)
  /\ UNCHANGED <<table, ids, history, now>>

\* The request context is cancelled, the connection or the server is lost, or
\* a statement of the transaction fails.
Abort(p) == Rollback(p)

\* p waits and can visit no row of its statement.
Stuck(p) == todo[p] # {} /\ \A i \in todo[p] : ~CanLock(p, i)

\* The processes of D wait for rows held by processes of D only.
Knot(D) ==
  /\ D # {}
  /\ \A p \in D : Stuck(p) /\ \A i \in todo[p] : \E q \in D \ {p} : i \in locks[q]

\* Postgres' deadlock detector fails one of the processes that wait in a circle.
DeadlockVictim(p) ==
  /\ \E D \in SUBSET Procs :
       /\ p \in D /\ Knot(D)
       /\ \A E \in SUBSET D : Knot(E) => E = D
  /\ Rollback(p)

Tick ==
  /\ now < MaxTime
  /\ now' = now + 1
  /\ UNCHANGED <<table, process, ids, history>>

------------------------------------------------------------------------------
Rotate(p) ==
  \/ \E i \in Ids, genuine \in BOOLEAN :
       /\ genuine => i \in held
       /\ \/ RotateSwap(p, i, genuine)
          \/ RotateReplay(p, i, genuine)
          \/ RotateRefuse(p, i, genuine)
  \/ RotateCommit(p)

Revoke(p) ==
  \E i \in Ids, genuine \in BOOLEAN :
    /\ genuine => i \in held
    /\ RevokeLookup(p, i, genuine) \/ RevokeIgnore(p, i, genuine)

FamilyUpdate(p) ==
  \/ FamilyScan(p)
  \/ \E i \in Ids : FamilyVisit(p, i)
  \/ FamilyCommit(p)

RunGC ==
  \/ GCScan
  \/ \E i \in Ids : GCVisit(i)
  \/ GCCommit

Next ==
  \/ \E p \in Requests : Issue(p) \/ Rotate(p) \/ Revoke(p) \/ FamilyUpdate(p)
  \/ RunGC
  \/ \E p \in Procs : Abort(p) \/ DeadlockVictim(p)
  \/ Tick

Spec == Init /\ [][Next]_vars

(* A goroutine that can run does, and Postgres resolves deadlocks.  Waiters   *)
(* for a row lock are queued, so a row that is free again and again is had    *)
(* in the end: strong fairness for the visits.                                *)
Fairness ==
  /\ \A p \in Requests :
       /\ WF_vars(RotateCommit(p))
       /\ WF_vars(FamilyScan(p))
       /\ SF_vars(\E i \in Ids : FamilyVisit(p, i))
       /\ WF_vars(FamilyCommit(p))
  /\ SF_vars(\E i \in Ids : GCVisit(i))
  /\ WF_vars(GCCommit)
  /\ \A p \in Procs : WF_vars(DeadlockVictim(p))

FairSpec == Spec /\ Fairness

------------------------------------------------------------------------------
(* Properties *)

Minted == {i \in Ids : parent[i] # NoId}
Exchanged(i) == \E j \in Ids : j # i /\ parent[j] = i

\* Rotate hands out at most one successor of a token, however many requests
\* present it and whatever fails in between: the row lock taken by SELECT ...
\* FOR UPDATE serialises them.
ExchangedOnce ==
  \A j, k \in Minted : parent[j] = parent[k] /\ parent[j] # j /\ parent[k] # k => j = k

\* A family never has two rows that can still be spent, live or revoked.
OneUnspent ==
  \A i, j \in stored \ rotated : family[i] = family[j] => i = j

\* A token in a client's hands keeps working until it is exchanged, expires or
\* its session is ended: the answer carrying it is sent only after the commit
\* that stores it, and neither RunGC nor a failed request takes it away.
HeldTokenWorks ==
  \A i \in held :
    ~Exchanged(i) /\ expires[i] > now /\ family[i] \notin loggedOut \cup reused
      => Usable(i)

\* Reuse detection fires for the whole lifetime of a spent token: while its
\* session has not been ended its row is there, marked as spent, so that a
\* replay takes the RotateReplay branch (comment of RunGC).
SpentTokenDetected ==
  \A i \in Ids :
    Exchanged(i) /\ expires[i] >= now /\ family[i] \notin loggedOut \cup reused
      => i \in rotated

\* A logout or a detected replay that no rotation of the same family overlaps
\* is final: not one token of the family can be swapped from then on.
QuietEndIsFinal ==
  \A i \in Ids : family[i] \in (loggedOut \cup reused) \ raced => ~Usable(i)

\* Every request, and every sweep of RunGC, comes to an end, the ones caught
\* in a deadlock between two family updates included.
RequestsFinish == \A p \in Procs : []<>(pc[p] = "idle")

\* "Revoke ends tokens session" (session/store.go:138): once a logout has
\* completed no token of the session can be swapped.
LogoutEndsSession == \A i \in Ids : family[i] \in loggedOut => ~Usable(i)

\* "replaying a spent token revokes whole family" (session/store.go:61).
ReplayRevokesFamily == \A i \in Ids : family[i] \in reused => ~Usable(i)

\* The store implements SessionChain: the tips are the rows neither spent nor
\* revoked.
Chain == INSTANCE SessionChain WITH
  Tokens  <- Ids,
  NoToken <- NoId,
  session <- [i \in Ids |-> IF parent[i] = NoId THEN NoId ELSE family[i]],
  tip     <- stored \ (rotated \cup revoked)

ImplementsChain == Chain!Spec

------------------------------------------------------------------------------
(* The inductive invariant behind TypeOK, ExchangedOnce, OneUnspent and       *)
(* ImplementsChain.                                                           *)

\* A row is locked by one transaction, and is not deleted under it.
Locking ==
  /\ \A p \in Procs : locks[p] \subseteq stored
  /\ \A p, q \in Procs : p # q => locks[p] \cap locks[q] = {}

\* A rotation that has not committed holds its token's row, which is still good,
\* and an id for the successor that nobody else has and that no row has yet.
InFlight ==
  \A p \in Procs : pc[p] = "rotating" =>
    /\ tok[p] \in locks[p] \ (rotated \cup revoked)
    /\ new[p] \in 1 .. lastId
    /\ parent[new[p]] = NoId
    /\ family[new[p]] = family[tok[p]]
    /\ \A q \in Procs : pc[q] = "rotating" /\ q # p => new[q] # new[p]

\* A replay or a logout that is under way is about a token that was drawn, so
\* that it ends a family that exists.
Targets ==
  \A p \in Procs : pc[p] \in {"replay", "logout"} \cup Updating => tok[p] \in 1 .. lastId

\* Rows have drawn ids and drawn families, and a token that was replaced is
\* either marked as spent or gone.
Lineage ==
  /\ stored \subseteq Minted
  /\ Minted \subseteq 1 .. lastId
  /\ \A i \in 1 .. lastId : family[i] \in 1 .. lastId
  /\ \A j \in Minted : parent[j] # j => parent[j] \in Minted \ (stored \ rotated)

\* What every reachable state satisfies, strong enough to be preserved by each
\* step: the row locks make the uncommitted rotations exclusive, which is what
\* Rotate's read-check-write needs.
IndInv == TypeOK /\ Locking /\ InFlight /\ Targets /\ Lineage /\ ExchangedOnce /\ OneUnspent

(* And what HeldTokenWorks, SpentTokenDetected and QuietEndIsFinal need on    *)
(* top of it.                                                                 *)

Ended == loggedOut \cup reused

\* What a statement has locked or still has to visit: RunGC only rows that are
\* dead and stay dead, a family update only rows of its own family.
Statements ==
  /\ pc[Collector] \in {"idle", "sweep"}
  /\ \A i \in locks[Collector] \cup todo[Collector] : i \in stored /\ Dead(i)
  /\ \A p \in Requests :
       /\ pc[p] # "sweep"
       /\ pc[p] = "idle" => locks[p] = {} /\ todo[p] = {}
       /\ todo[p] \subseteq 1 .. lastId
       /\ \A i \in locks[p] \cup todo[p] : family[i] = family[tok[p]]

\* A row is revoked or swept for a reason: its session ended or it expired; and
\* it is marked as spent only together with the commit of its successor.
Fates ==
  /\ Ended \subseteq 1 .. lastId
  /\ held \subseteq Minted
  /\ \A i \in revoked : family[i] \in Ended
  /\ \A i \in rotated : Exchanged(i)
  /\ \A i \in Minted : expires[i] >= now /\ family[i] \notin Ended => i \in stored

Good(f)     == {i \in stored \ (rotated \cup revoked) : family[i] = f}
Rotating(f) == \E q \in Procs : pc[q] = "rotating" /\ family[tok[q]] = f

\* A family that ended without a race has no good row and none under way, and a
\* family update that no rotation has raced so far holds or will visit every
\* good row of the family.
QuietEnds ==
  /\ \A f \in Ended \ raced : Good(f) = {} /\ ~Rotating(f)
  /\ \A p \in Requests :
       pc[p] \in Updating /\ family[tok[p]] \notin raced =>
         /\ ~Rotating(family[tok[p]])
         /\ Good(family[tok[p]]) \subseteq todo[p] \cup locks[p]

\* How a session may end, as an inductive invariant.
SessionInv == IndInv /\ Statements /\ Fates /\ QuietEnds
==============================================================================
