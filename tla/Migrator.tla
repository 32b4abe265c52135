-------------------------------- MODULE Migrator --------------------------------
(****************************************************************************)
(* Schema migrations: the command cmd/migrate and internal/db/migrate.go,   *)
(* over the scripts of internal/db/migrations.                              *)
(*                                                                          *)
(* Every run of the command is a process of its own.  It reads the versions *)
(* recorded in table schema_migrations and then runs scripts, each in one   *)
(* transaction with the row that records it.  Nothing is locked between the *)
(* reading and the first script, nor between two scripts: what keeps two    *)
(* runs apart are the locks that a script takes on the tables it touches.   *)
(*                                                                          *)
(* A schema is a set of features: the tables, "lenient" for the constraint  *)
(* of 0005 in place of the one of 0003, and "emptied" for a deleted message *)
(* whose content was cleared.                                               *)
(****************************************************************************)
EXTENDS Integers

CONSTANT Migrators  \* runs of cmd/migrate, one command each

Versions == 1 .. 5
NoVersion == 0

\* What the up script of each version makes, and the tables it refers to.
Makes == <<"users", "channels", "messages", "refresh_tokens", "lenient">>
Needs == <<{}, {}, {"users", "channels"}, {"users"}, {"messages"}>>

Creating == 1 .. 4  \* the versions that create a table
Features == {Makes[v] : v \in Versions} \cup {"emptied"}

VARIABLES
  \* the database, as committed
  schema,   \* the features it has
  applied,  \* versions in schema_migrations
  \* the processes
  pc,       \* where each process is; "open": in a transaction whose script has run
  cmd,      \* its command
  seen,     \* versions it read as applied, and those it has applied since
  result,   \* how it ended
  \* history, read by the properties only
  crossed,  \* a script was committed on a reading that a rollback, or for a
            \* rollback any other process, had overtaken
  skipped,  \* versions that were applied above one that was rolled back
  undone    \* processes that had begun when some version was rolled back

process == <<pc, cmd, seen, result>>
history == <<crossed, skipped, undone>>
vars    == <<schema, applied, process, history>>

\* A feature is there together with the tables it refers to.
TypeOK ==
  /\ schema \subseteq Features
  /\ \A v \in Versions : Makes[v] \in schema => Needs[v] \subseteq schema
  /\ applied \subseteq Versions
  /\ pc \in [Migrators -> {"idle", "ensured", "ready", "open", "done"}]
  /\ cmd \in [Migrators -> {"none", "up", "down", "status"}]
  /\ seen \in [Migrators -> SUBSET Versions]
  /\ result \in [Migrators -> {"none", "ok", "failed"}]
  /\ crossed \in BOOLEAN
  /\ skipped \subseteq Versions
  /\ undone \subseteq Migrators

\* The schema after versions 1 to k.
Level(k) == {Makes[v] : v \in 1 .. k}

\* Earlier runs have left the database at some level.
Init ==
  /\ \E k \in 0 .. 5 : applied = 1 .. k /\ schema = Level(k)
  /\ pc = [p \in Migrators |-> "idle"]
  /\ cmd = [p \in Migrators |-> "none"]
  /\ seen = [p \in Migrators |-> {}]
  /\ result = [p \in Migrators |-> "none"]
  /\ crossed = FALSE
  /\ skipped = {}
  /\ undone = {}

------------------------------------------------------------------------------
(* The scripts *)

\* Tables locked by the script of version v, up or down, until its transaction
\* ends: the one it makes, alters or drops, and those a foreign key refers to.
Touches(v) == Needs[v] \cup (IF v \in Creating THEN {Makes[v]} ELSE {})

\* create table fails if the table is there; 0005 replaces the constraint, of
\* whichever form.
UpRuns(v) == Needs[v] \subseteq schema /\ (v \in Creating => Makes[v] \notin schema)

\* Mutation: drop table cascade.
DownRunsCascade(v) ==
  IF v \in Creating
  THEN Makes[v] \in schema
  ELSE Needs[v] \subseteq schema /\ "emptied" \notin schema

\* drop table fails if the table is not there or another one refers to it; the
\* old constraint of 0005 cannot be put back over cleared messages.
DownRuns(v) ==
  IF v \in Creating
  THEN /\ Makes[v] \in schema
       /\ \A w \in Creating : Makes[w] \in schema => Makes[v] \notin Needs[w]
  ELSE Needs[v] \subseteq schema /\ "emptied" \notin schema

\* With the table its rows and its constraint go.
Dropped(v) == {Makes[v]} \cup (IF v = 3 THEN {"lenient", "emptied"} ELSE {})

------------------------------------------------------------------------------
(* The command *)

\* main, ensureTable
Start(p, c) ==
  /\ pc[p] = "idle"
  /\ cmd' = [cmd EXCEPT ![p] = c]
  /\ pc' = [pc EXCEPT ![p] = "ensured"]
  /\ UNCHANGED <<schema, applied, seen, result, history>>

\* appliedVersions, loadMigrations
Read(p) ==
  /\ pc[p] = "ensured"
  /\ seen' = [seen EXCEPT ![p] = applied]
  /\ pc' = [pc EXCEPT ![p] = "ready"]
  /\ UNCHANGED <<schema, applied, cmd, result, history>>

\* What the loop of Up or Down has still to consider.
Pending(p) ==
  {v \in Versions : \/ cmd[p] = "up" /\ v \notin seen[p]
                    \/ cmd[p] = "down" /\ v \in seen[p]}

\* Mutation: the migrations are not sorted.
TargetUnsorted(p) == CHOOSE v \in Pending(p) : \A w \in Pending(p) : w <= v

\* The migration the loop comes to next.
Target(p) ==
  CHOOSE v \in Pending(p) : \A w \in Pending(p) : IF cmd[p] = "up" THEN v <= w ELSE w <= v

Up(p)   == cmd[p] = "up"
Runs(p) == IF Up(p) THEN UpRuns(Target(p)) ELSE DownRuns(Target(p))

\* Mutation: a process keeps the others out from the moment it has read.
UnlockedSinceRead(p) == \A q \in Migrators \ {p} : pc[q] \notin {"ready", "open"}

\* No other transaction holds a table that the script of p needs.
Unlocked(p) ==
  \A q \in Migrators \ {p} : pc[q] = "open" => Touches(Target(q)) \cap Touches(Target(p)) = {}

End(p, how) ==
  /\ pc' = [pc EXCEPT ![p] = "done"]
  /\ result' = [result EXCEPT ![p] = how]

\* runTx: the transaction begins and the script runs.
Script(p) ==
  /\ pc[p] = "ready" /\ Pending(p) # {}
  /\ Unlocked(p) /\ Runs(p)
  /\ pc' = [pc EXCEPT ![p] = "open"]
  /\ UNCHANGED <<schema, applied, cmd, seen, result, history>>

\* Mutation: a script that does not run because another process has run it ends
\* the command well.
ScriptFailsQuietly(p) ==
  /\ pc[p] = "ready" /\ Pending(p) # {}
  /\ Unlocked(p) /\ ~Runs(p)
  /\ End(p, "ok")
  /\ UNCHANGED <<schema, applied, cmd, seen, history>>

ScriptFails(p) ==
  /\ pc[p] = "ready" /\ Pending(p) # {}
  /\ Unlocked(p) /\ ~Runs(p)
  /\ End(p, "failed")
  /\ UNCHANGED <<schema, applied, cmd, seen, history>>

\* The loop of Up goes on, Down returns; or the commit has taken place and its
\* confirmation is lost with the connection or the process.
Committed(p) ==
  \/ Up(p) /\ pc' = [pc EXCEPT ![p] = "ready"] /\ UNCHANGED result
  \/ ~Up(p) /\ End(p, "ok")
  \/ End(p, "failed")

\* Mutation: the row that records the version is not in the transaction.
ApplyUnrecorded(p) ==
  LET v == Target(p) IN
  /\ pc[p] = "open" /\ Up(p) /\ v \notin applied
  /\ schema' = schema \cup {Makes[v]}
  /\ seen' = [seen EXCEPT ![p] = @ \cup {v}]
  /\ Committed(p)
  /\ UNCHANGED <<applied, cmd, history>>

\* The insert into schema_migrations, and the commit.
Apply(p) ==
  LET v == Target(p) IN
  /\ pc[p] = "open" /\ Up(p) /\ v \notin applied
  /\ schema' = schema \cup {Makes[v]}
  /\ applied' = applied \cup {v}
  /\ seen' = [seen EXCEPT ![p] = @ \cup {v}]
  /\ Committed(p)
  /\ crossed' = (crossed \/ ~(seen[p] \subseteq applied))
  /\ UNCHANGED <<cmd, skipped, undone>>

\* The primary key: another process has recorded the version.
ApplyFails(p) ==
  /\ pc[p] = "open" /\ Up(p) /\ Target(p) \in applied
  /\ End(p, "failed")
  /\ UNCHANGED <<schema, applied, cmd, seen, history>>

\* The delete from schema_migrations, which may find no row, and the commit.
RollBack(p) ==
  LET v == Target(p) IN
  /\ pc[p] = "open" /\ ~Up(p)
  /\ schema' = schema \ Dropped(v)
  /\ applied' = applied \ {v}
  /\ Committed(p)
  /\ crossed' = (crossed \/ seen[p] # applied)
  /\ skipped' = skipped \cup {w \in applied : w > v}
  /\ undone' = undone \cup {q \in Migrators : pc[q] # "idle"}
  /\ UNCHANGED <<cmd, seen>>

\* Nothing is left to do.
Succeed(p) ==
  /\ pc[p] = "ready" /\ Pending(p) = {}
  /\ End(p, "ok")
  /\ UNCHANGED <<schema, applied, cmd, seen, history>>

\* A statement fails, its connection is lost or the process is killed: an open
\* transaction is rolled back.
Fail(p) ==
  /\ pc[p] \notin {"idle", "done"}
  /\ End(p, "failed")
  /\ UNCHANGED <<schema, applied, cmd, seen, history>>

------------------------------------------------------------------------------
(* The server is running meanwhile: message.Store.Delete clears the content of *)
(* a message, unless the constraint refuses it or the table is locked.         *)

DeleteMessage ==
  /\ {"messages", "lenient"} \subseteq schema
  /\ \A q \in Migrators : pc[q] = "open" => "messages" \notin Touches(Target(q))
  /\ schema' = schema \cup {"emptied"}
  /\ UNCHANGED <<applied, process, history>>

------------------------------------------------------------------------------
Run(p) ==
  \/ Read(p)
  \/ Script(p) \/ ScriptFails(p)
  \/ Apply(p) \/ ApplyFails(p) \/ RollBack(p)
  \/ Succeed(p)

Next ==
  \/ \E p \in Migrators :
       \/ \E c \in {"up", "down", "status"} : Start(p, c)
       \/ Run(p)
       \/ Fail(p)
  \/ DeleteMessage

Spec == Init /\ [][Next]_vars

(* A process that can go on does.  A script may have to wait for locks, but   *)
(* every process has few transactions to run, so one day nobody holds them.   *)
FairSpec == Spec /\ \A p \in Migrators : WF_vars(Run(p))

------------------------------------------------------------------------------
(* Properties *)

\* "a failure leaves no partial states" (README.md:80-81): a table is there exactly
\* when the version that creates it is recorded, whichever runs overlap and
\* wherever they break off.
TablesRecorded == \A v \in Creating : v \in applied <=> Makes[v] \in schema

\* Any number of Ups at the same time, and Downs that overlap with nothing, take
\* the schema from level to level: versions are recorded in order and the
\* schema, its constraint included, is that of the recorded versions.
LevelByLevel ==
  ~crossed => \E k \in 0 .. 5 : applied = 1 .. k /\ schema \ {"emptied"} = Level(k)

\* "migrations up to date" (cmd/migrate/main.go:38) is true when it is said, for
\* the winner and the losers of a race: every version is applied unless somebody
\* rolled back.
UpToDate ==
  \A p \in Migrators :
    result[p] = "ok" /\ Up(p) /\ p \notin undone => applied = Versions

\* Every command ends, with an answer, although scripts wait for one another.
CommandsFinish == \A p \in Migrators : []<>(pc[p] \in {"idle", "done"})

\* "Down rolls back most recently applies migration" (db/migrate.go:71): no
\* later one is applied when it takes effect.
DownTakesLatest == skipped = {}
==============================================================================
