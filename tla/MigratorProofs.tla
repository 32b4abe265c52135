---------------------------- MODULE MigratorProofs ----------------------------
(* What Migrator promises of the tables, proved for every set of processes. *)
EXTENDS Migrator, TLAPS

\* What an open transaction relies on: its script still fits the schema.
Fits(p) == pc[p] = "open" => Pending(p) # {} /\ Runs(p)

\* The locks of open transactions keep them apart.
Apart(p) == pc[p] = "open" => Unlocked(p)

IndInv ==
  /\ TypeOK
  /\ TablesRecorded
  /\ \A p \in Migrators : Fits(p) /\ Apart(p)

------------------------------------------------------------------------------
(* The scripts *)

\* Versions 1 to 5 one by one.
LEMMA Scripts ==
  /\ Makes[1] = "users" /\ Makes[2] = "channels" /\ Makes[3] = "messages"
  /\ Makes[4] = "refresh_tokens" /\ Makes[5] = "lenient"
  /\ Needs[1] = {} /\ Needs[2] = {} /\ Needs[3] = {"users", "channels"}
  /\ Needs[4] = {"users"} /\ Needs[5] = {"messages"}
  /\ Versions = {1, 2, 3, 4, 5}
  /\ Creating = {1, 2, 3, 4}
  /\ Features = {"users", "channels", "messages", "refresh_tokens", "lenient", "emptied"}
  BY DEF Makes, Needs, Versions, Creating, Features

\* A set of versions has a least and a greatest member.
LEMMA Extremes ==
  ASSUME NEW S \in SUBSET Versions, S # {}
  PROVE  /\ \E v \in S : \A w \in S : v <= w
         /\ \E v \in S : \A w \in S : w <= v
  <1>0. PICK x \in S : x \in {1, 2, 3, 4, 5}
    BY Scripts
  <1>1. \E v \in S : \A w \in S : v <= w
    <2>1. CASE 1 \in S
      BY <2>1, Scripts
    <2>2. CASE 1 \notin S /\ 2 \in S
      BY <2>2, Scripts
    <2>3. CASE 1 \notin S /\ 2 \notin S /\ 3 \in S
      BY <2>3, Scripts
    <2>4. CASE 1 \notin S /\ 2 \notin S /\ 3 \notin S /\ 4 \in S
      BY <2>4, Scripts
    <2>5. CASE 1 \notin S /\ 2 \notin S /\ 3 \notin S /\ 4 \notin S /\ 5 \in S
      BY <2>5, Scripts
    <2> QED
      BY <1>0, <2>1, <2>2, <2>3, <2>4, <2>5
  <1>2. \E v \in S : \A w \in S : w <= v
    <2>1. CASE 5 \in S
      BY <2>1, Scripts
    <2>2. CASE 5 \notin S /\ 4 \in S
      BY <2>2, Scripts
    <2>3. CASE 5 \notin S /\ 4 \notin S /\ 3 \in S
      BY <2>3, Scripts
    <2>4. CASE 5 \notin S /\ 4 \notin S /\ 3 \notin S /\ 2 \in S
      BY <2>4, Scripts
    <2>5. CASE 5 \notin S /\ 4 \notin S /\ 3 \notin S /\ 2 \notin S /\ 1 \in S
      BY <2>5, Scripts
    <2> QED
      BY <1>0, <2>1, <2>2, <2>3, <2>4, <2>5
  <1> QED
    BY <1>1, <1>2

\* The loop considers versions, and takes one of them.
LEMMA TargetPending ==
  ASSUME TypeOK, NEW p \in Migrators, Pending(p) # {}
  PROVE  /\ Target(p) \in Pending(p)
         /\ Target(p) \in Versions
         /\ Up(p) => Target(p) \notin seen[p]
         /\ cmd[p] \in {"up", "down"}
  <1>1. Pending(p) \in SUBSET Versions
    BY DEF TypeOK, Pending
  <1>2. cmd[p] \in {"up", "down"} /\ (Up(p) => \A v \in Pending(p) : v \notin seen[p])
    BY DEF TypeOK, Pending, Up
  <1>3. \E v \in Pending(p) : \A w \in Pending(p) : IF cmd[p] = "up" THEN v <= w ELSE w <= v
    BY <1>1, Extremes
  <1>4. Target(p) \in Pending(p)
    BY <1>3 DEF Target
  <1> QED
    BY <1>1, <1>2, <1>4

\* A transaction keeps its script as long as its process reads nothing and
\* applies nothing.
LEMMA SameTarget ==
  ASSUME NEW p \in Migrators, cmd'[p] = cmd[p], seen'[p] = seen[p]
  PROVE  Pending(p)' = Pending(p) /\ Target(p)' = Target(p) /\ (Up(p)' <=> Up(p))
  <1>1. Pending(p)' = Pending(p) /\ (Up(p)' <=> Up(p))
    BY DEF Pending, Up
  <1>2. Target(p)' = Target(p)
    BY <1>1 DEF Target
  <1> QED
    BY <1>1, <1>2

\* Scripts that touch different tables do not disturb one another.
LEMMA ApplyApart ==
  ASSUME TypeOK, NEW v \in Versions, NEW w \in Versions,
         Touches(v) \cap Touches(w) = {}, schema' = schema \cup {Makes[v]}
  PROVE  (UpRuns(w) => UpRuns(w)') /\ (DownRuns(w) => DownRuns(w)')
  BY Scripts DEF TypeOK, Touches, UpRuns, DownRuns

\* The same of a drop.
LEMMA RollBackApart ==
  ASSUME TypeOK, NEW v \in Versions, NEW w \in Versions,
         Touches(v) \cap Touches(w) = {}, schema' = schema \ Dropped(v)
  PROVE  (UpRuns(w) => UpRuns(w)') /\ (DownRuns(w) => DownRuns(w)')
  BY Scripts DEF TypeOK, Touches, UpRuns, DownRuns, Dropped

------------------------------------------------------------------------------
(* The steps *)

\* Transactions that stay open keep what they rely on if their scripts still fit.
LEMMA Stays ==
  ASSUME IndInv,
         \A q \in Migrators : pc'[q] = "open" =>
           /\ pc[q] = "open" /\ cmd'[q] = cmd[q] /\ seen'[q] = seen[q]
           /\ \A w \in Versions : w = Target(q) =>
                (UpRuns(w) => UpRuns(w)') /\ (DownRuns(w) => DownRuns(w)')
  PROVE  \A p \in Migrators : Fits(p)' /\ Apart(p)'
  <1>1. ASSUME NEW q \in Migrators, pc'[q] = "open"
        PROVE  /\ pc[q] = "open" /\ Pending(q) # {} /\ Target(q) \in Versions
               /\ Pending(q)' = Pending(q) /\ Target(q)' = Target(q) /\ (Up(q)' <=> Up(q))
    BY <1>1, SameTarget, TargetPending DEF IndInv, Fits
  <1>2. ASSUME NEW p \in Migrators, pc'[p] = "open" PROVE Runs(p)'
    <2>1. Runs(p)
      BY <1>1, <1>2 DEF IndInv, Fits
    <2>2. CASE Up(p)
      BY <1>1, <1>2, <2>1, <2>2 DEF Runs, UpRuns
    <2>3. CASE ~Up(p)
      BY <1>1, <1>2, <2>1, <2>3 DEF Runs, DownRuns
    <2> QED
      BY <2>2, <2>3
  <1>3. ASSUME NEW p \in Migrators, pc'[p] = "open" PROVE Unlocked(p)'
    BY <1>1, <1>3 DEF IndInv, Apart, Unlocked, Touches
  <1> QED
    BY <1>1, <1>2, <1>3 DEF Fits, Apart

\* Steps that leave the database alone and open no transaction.
LEMMA Untouched ==
  ASSUME IndInv, TypeOK', UNCHANGED <<schema, applied>>,
         \A q \in Migrators : pc'[q] = "open" =>
           pc[q] = "open" /\ cmd'[q] = cmd[q] /\ seen'[q] = seen[q]
  PROVE  IndInv'
  <1>1. \A w \in Versions : (UpRuns(w) => UpRuns(w)') /\ (DownRuns(w) => DownRuns(w)')
    BY DEF UpRuns, DownRuns
  <1>2. TablesRecorded'
    BY DEF IndInv, TablesRecorded
  <1> QED
    BY <1>1, <1>2, Stays DEF IndInv

\* Steps that leave the database as it is and end no transaction well.
LEMMA ReadingSteps ==
  ASSUME IndInv, NEW p \in Migrators,
         \/ \E c \in {"up", "down", "status"} : Start(p, c)
         \/ Read(p) \/ ScriptFails(p) \/ ApplyFails(p) \/ Succeed(p) \/ Fail(p)
  PROVE  IndInv'
  <1>1. TypeOK' /\ UNCHANGED <<schema, applied>>
    BY DEF IndInv, TypeOK, Start, Read, ScriptFails, ApplyFails, Succeed, Fail, End, history
  <1>2. ASSUME NEW q \in Migrators, pc'[q] = "open"
        PROVE  pc[q] = "open" /\ cmd'[q] = cmd[q] /\ seen'[q] = seen[q]
    BY <1>2 DEF IndInv, TypeOK, Start, Read, ScriptFails, ApplyFails, Succeed, Fail, End, history
  <1> QED
    BY <1>1, <1>2, Untouched

\* A script runs only if the tables it touches are free.
LEMMA ScriptStep ==
  ASSUME IndInv, NEW p \in Migrators, Script(p)
  PROVE  IndInv'
  <1>1. TypeOK' /\ TablesRecorded'
    BY DEF IndInv, TypeOK, TablesRecorded, Script, history
  <1>2. ASSUME NEW q \in Migrators
        PROVE  /\ Pending(q)' = Pending(q) /\ Target(q)' = Target(q) /\ (Up(q)' <=> Up(q))
               /\ Runs(q)' <=> Runs(q)
               /\ pc'[q] = "open" <=> pc[q] = "open" \/ q = p
    <2>1. cmd'[q] = cmd[q] /\ seen'[q] = seen[q] /\ schema' = schema
      BY DEF Script
    <2>2. Pending(q)' = Pending(q) /\ Target(q)' = Target(q) /\ (Up(q)' <=> Up(q))
      BY <2>1, SameTarget
    <2>3. Runs(q)' <=> Runs(q)
      BY <2>1, <2>2 DEF Runs, UpRuns, DownRuns
    <2>4. pc'[q] = "open" <=> pc[q] = "open" \/ q = p
      BY DEF IndInv, TypeOK, Script
    <2> QED
      BY <2>2, <2>3, <2>4
  <1>3. \A q \in Migrators : Fits(q)'
    BY <1>2 DEF IndInv, Fits, Script
  <1>4. \A q \in Migrators : Apart(q)'
    BY <1>2 DEF IndInv, Apart, Unlocked, Touches, Script
  <1> QED
    BY <1>1, <1>3, <1>4 DEF IndInv

\* What a commit finds: its script fits, and it is apart from all others.
LEMMA AtCommit ==
  ASSUME IndInv, NEW p \in Migrators, pc[p] = "open"
  PROVE  /\ Target(p) \in Versions
         /\ Runs(p)
         /\ \A q \in Migrators \ {p} : pc[q] = "open" =>
              Touches(Target(p)) \cap Touches(Target(q)) = {}
  BY TargetPending DEF IndInv, Fits, Apart, Unlocked

\* A commit of Up adds table and version together.
LEMMA ApplyStep ==
  ASSUME IndInv, NEW p \in Migrators, Apply(p)
  PROVE  IndInv'
  <1> DEFINE v == Target(p)
  <1>1. /\ v \in Versions /\ UpRuns(v) /\ v \notin applied
        /\ schema' = schema \cup {Makes[v]} /\ applied' = applied \cup {v}
    BY AtCommit DEF Apply, Runs
  <1>2. \A q \in Migrators \ {p} : pc[q] = "open" => Touches(v) \cap Touches(Target(q)) = {}
    BY AtCommit DEF Apply
  <1>3. /\ pc'[p] # "open"
        /\ \A q \in Migrators \ {p} : pc'[q] = pc[q] /\ cmd'[q] = cmd[q] /\ seen'[q] = seen[q]
    BY DEF IndInv, TypeOK, Apply, Committed, End
  <1> HIDE DEF v
  <1>4. TypeOK'
    <2>1. schema' \subseteq Features /\ \A w \in Versions : Makes[w] \in schema' => Needs[w] \subseteq schema'
      BY <1>1, Scripts DEF IndInv, TypeOK, UpRuns
    <2>2. applied' \subseteq Versions /\ crossed' \in BOOLEAN /\ skipped' \subseteq Versions
          /\ undone' \subseteq Migrators
      BY <1>1 DEF IndInv, TypeOK, Apply
    <2>3. /\ pc' \in [Migrators -> {"idle", "ensured", "ready", "open", "done"}]
          /\ cmd' \in [Migrators -> {"none", "up", "down", "status"}]
          /\ seen' \in [Migrators -> SUBSET Versions]
          /\ result' \in [Migrators -> {"none", "ok", "failed"}]
      BY <1>1 DEF IndInv, TypeOK, Apply, Committed, End, v
    <2> QED
      BY <2>1, <2>2, <2>3 DEF TypeOK
  <1>5. TablesRecorded'
    BY <1>1, Scripts DEF IndInv, TablesRecorded
  <1>6. \A q \in Migrators : Fits(q)' /\ Apart(q)'
    <2>1. ASSUME NEW q \in Migrators, pc'[q] = "open",
                 NEW w \in Versions, w = Target(q)
          PROVE  (UpRuns(w) => UpRuns(w)') /\ (DownRuns(w) => DownRuns(w)')
      BY <1>1, <1>2, <1>3, <2>1, ApplyApart DEF IndInv
    <2> QED
      BY <1>3, <2>1, Stays
  <1> QED
    BY <1>4, <1>5, <1>6 DEF IndInv

\* A commit of Down removes table and version together.
LEMMA RollBackStep ==
  ASSUME IndInv, NEW p \in Migrators, RollBack(p)
  PROVE  IndInv'
  <1> DEFINE v == Target(p)
  <1>1. /\ v \in Versions /\ DownRuns(v)
        /\ schema' = schema \ Dropped(v) /\ applied' = applied \ {v}
    BY AtCommit DEF RollBack, Runs
  <1>2. \A q \in Migrators \ {p} : pc[q] = "open" => Touches(v) \cap Touches(Target(q)) = {}
    BY AtCommit DEF RollBack
  <1>3. /\ pc'[p] # "open"
        /\ \A q \in Migrators \ {p} : pc'[q] = pc[q] /\ cmd'[q] = cmd[q] /\ seen'[q] = seen[q]
    BY DEF IndInv, TypeOK, RollBack, Committed, End
  <1> HIDE DEF v
  <1>4. TypeOK'
    <2>1. /\ schema' \subseteq Features
          /\ \A w \in Versions : Makes[w] \in schema' => Needs[w] \subseteq schema'
      <3>1. schema' \subseteq schema
        BY <1>1
      <3>2. \A w \in Versions : Makes[w] \in schema' => Needs[w] \subseteq schema'
        BY <1>1, Scripts DEF IndInv, TypeOK, DownRuns, Dropped
      <3> QED
        BY <3>1, <3>2 DEF IndInv, TypeOK
    <2>2. applied' \subseteq Versions /\ crossed' \in BOOLEAN /\ skipped' \subseteq Versions
          /\ undone' \subseteq Migrators
      BY <1>1 DEF IndInv, TypeOK, RollBack
    <2>3. /\ pc' \in [Migrators -> {"idle", "ensured", "ready", "open", "done"}]
          /\ cmd' \in [Migrators -> {"none", "up", "down", "status"}]
          /\ seen' \in [Migrators -> SUBSET Versions]
          /\ result' \in [Migrators -> {"none", "ok", "failed"}]
      BY DEF IndInv, TypeOK, RollBack, Committed, End
    <2> QED
      BY <2>1, <2>2, <2>3 DEF TypeOK
  <1>5. TablesRecorded'
    BY <1>1, Scripts DEF IndInv, TablesRecorded, Dropped
  <1>6. \A q \in Migrators : Fits(q)' /\ Apart(q)'
    <2>1. ASSUME NEW q \in Migrators, pc'[q] = "open",
                 NEW w \in Versions, w = Target(q)
          PROVE  (UpRuns(w) => UpRuns(w)') /\ (DownRuns(w) => DownRuns(w)')
      BY <1>1, <1>2, <1>3, <2>1, RollBackApart DEF IndInv
    <2> QED
      BY <1>3, <2>1, Stays
  <1> QED
    BY <1>4, <1>5, <1>6 DEF IndInv

\* The server clears a message while no transaction holds the table.
LEMMA DeleteMessageStep ==
  ASSUME IndInv, DeleteMessage
  PROVE  IndInv'
  <1>1. TypeOK' /\ TablesRecorded'
    BY Scripts DEF IndInv, TypeOK, TablesRecorded, DeleteMessage, process, history
  <1>2. ASSUME NEW q \in Migrators, pc'[q] = "open",
               NEW w \in Versions, w = Target(q)
        PROVE  (UpRuns(w) => UpRuns(w)') /\ (DownRuns(w) => DownRuns(w)')
    BY <1>2, Scripts DEF DeleteMessage, process, Touches, UpRuns, DownRuns
  <1>3. \A q \in Migrators : Fits(q)' /\ Apart(q)'
    BY <1>2, Stays DEF DeleteMessage, process
  <1> QED
    BY <1>1, <1>3 DEF IndInv

------------------------------------------------------------------------------
\* A database at a level has the tables of its versions.
LEMMA InitInv == Init => IndInv
  <1> SUFFICES ASSUME Init PROVE IndInv
    OBVIOUS
  <1>1. PICK k \in 0 .. 5 : applied = 1 .. k /\ schema = Level(k)
    BY DEF Init
  <1>2. \A v \in Versions : v \in applied <=> Makes[v] \in schema
    BY <1>1, Scripts DEF Level
  <1>3. schema \subseteq Features /\ applied \subseteq Versions /\ "emptied" \notin schema
    BY <1>1, Scripts DEF Level
  <1>4. \A v \in Versions : Makes[v] \in schema => Needs[v] \subseteq schema
    BY <1>1, <1>2, Scripts
  <1>5. TypeOK
    BY <1>3, <1>4 DEF Init, TypeOK
  <1>6. TablesRecorded
    BY <1>2, Scripts DEF TablesRecorded
  <1>7. \A p \in Migrators : pc[p] = "idle"
    BY DEF Init
  <1> QED
    BY <1>5, <1>6, <1>7 DEF IndInv, Fits, Apart

\* Every step keeps the invariant.
LEMMA NextInv == IndInv /\ [Next]_vars => IndInv'
  <1> SUFFICES ASSUME IndInv, [Next]_vars PROVE IndInv'
    OBVIOUS
  <1>1. CASE UNCHANGED vars
    <2>1. TypeOK'
      BY <1>1 DEF IndInv, TypeOK, vars, process, history
    <2> QED
      BY <1>1, <2>1, Untouched DEF vars, process
  <1>2. ASSUME NEW p \in Migrators,
               \/ \E c \in {"up", "down", "status"} : Start(p, c)
               \/ Read(p) \/ ScriptFails(p) \/ ApplyFails(p) \/ Succeed(p) \/ Fail(p)
        PROVE  IndInv'
    BY <1>2, ReadingSteps
  <1>3. ASSUME NEW p \in Migrators, Script(p) \/ Apply(p) \/ RollBack(p) PROVE IndInv'
    BY <1>3, ScriptStep, ApplyStep, RollBackStep
  <1> QED
    BY <1>1, <1>2, <1>3, DeleteMessageStep DEF Next, Run

\* The inductive invariant holds in every reachable state.
LEMMA Invariance == Spec => []IndInv
  BY InitInv, NextInv, PTL DEF Spec

\* Types are right, and every feature is there together with the tables it refers
\* to, whatever processes overlap.
THEOREM TypeCorrect == Spec => []TypeOK
  <1>1. IndInv => TypeOK
    BY DEF IndInv
  <1> QED
    BY <1>1, Invariance, PTL

\* However many processes run Up and Down at the same time and wherever they break
\* off: a table is there exactly when its version is recorded.
THEOREM TablesAlwaysRecorded == Spec => []TablesRecorded
  <1>1. IndInv => TablesRecorded
    BY DEF IndInv
  <1> QED
    BY <1>1, Invariance, PTL

------------------------------------------------------------------------------
(* What the processes know *)

\* As long as nothing has crossed, the schema stands at a level, and what a
\* process has read and applied is one that the schema has been at.
Levelled ==
  ~crossed =>
    /\ \E k \in 0 .. 5 : applied = 1 .. k /\ schema \ {"emptied"} = Level(k)
    /\ \A p \in Migrators : \E j \in 0 .. 5 : seen[p] = 1 .. j

\* What a process has read or applied stays applied until somebody rolls back.
StillApplied == \A p \in Migrators : p \notin undone => seen[p] \subseteq applied

\* A process answers at its end, and knows nothing before it has read.
Unanswered ==
  \A p \in Migrators :
    /\ pc[p] # "done" => result[p] = "none"
    /\ pc[p] \in {"idle", "ensured"} => seen[p] = {}

KnowInv == Levelled /\ StillApplied /\ Unanswered /\ UpToDate

\* One version up.
LEMMA LevelUp ==
  ASSUME NEW k \in 0 .. 4
  PROVE  /\ k + 1 \in 0 .. 5
         /\ 1 .. (k + 1) = (1 .. k) \cup {k + 1}
         /\ Level(k + 1) = Level(k) \cup {Makes[k + 1]}
         /\ Makes[k + 1] # "emptied"
  <1>1. k + 1 \in 0 .. 5 /\ 1 .. (k + 1) = (1 .. k) \cup {k + 1}
    OBVIOUS
  <1>2. Level(k + 1) = Level(k) \cup {Makes[k + 1]}
    BY <1>1 DEF Level
  <1>3. k + 1 \in {1, 2, 3, 4, 5}
    OBVIOUS
  <1>4. Makes[k + 1] # "emptied"
    BY <1>3, Scripts
  <1> QED
    BY <1>1, <1>2, <1>4

\* The versions make different features.
LEMMA MakesApart ==
  ASSUME NEW v \in Versions, NEW w \in Versions, Makes[v] = Makes[w]
  PROVE  v = w
  BY Scripts

\* One version down: dropping what the last version made leads to the level below.
LEMMA LevelDown ==
  ASSUME NEW k \in 1 .. 5, schema \ {"emptied"} = Level(k),
         k = 5 => "emptied" \notin schema
  PROVE  /\ k - 1 \in 0 .. 5
         /\ (1 .. k) \ {k} = 1 .. (k - 1)
         /\ (schema \ Dropped(k)) \ {"emptied"} = Level(k - 1)
  <1>1. k - 1 \in 0 .. 5 /\ (1 .. k) \ {k} = 1 .. (k - 1)
    OBVIOUS
  <1>2. \A w \in 1 .. k : w \in Versions /\ (Makes[w] = Makes[k] => w = k)
    <2>1. \A w \in 1 .. k : w \in Versions
      BY DEF Versions
    <2> QED
      BY <2>1, MakesApart
  <1>3. Level(k - 1) = Level(k) \ {Makes[k]}
    BY <1>1, <1>2 DEF Level
  <1>4. Dropped(k) \ {"emptied"} \subseteq {Makes[k]} \cup {"lenient"} /\ Makes[k] \in Dropped(k)
    BY DEF Dropped
  <1>5. k = 3 => "lenient" \notin Level(k)
    <2>1. ASSUME k = 3 PROVE \A w \in 1 .. k : Makes[w] # "lenient"
      <3>1. \A w \in 1 .. k : w \in {1, 2, 3}
        BY <2>1
      <3> QED
        BY <3>1, Scripts
    <2> QED
      BY <2>1 DEF Level
  <1>6. (schema \ Dropped(k)) \ {"emptied"} = Level(k) \ {Makes[k]}
    <2>1. CASE k = 3
      BY <2>1, <1>4, <1>5 DEF Dropped
    <2>2. CASE k # 3
      <3>1. Dropped(k) = {Makes[k]}
        BY <2>2 DEF Dropped
      <3> QED
        BY <3>1
    <2> QED
      BY <2>1, <2>2
  <1> QED
    BY <1>1, <1>3, <1>6

------------------------------------------------------------------------------
(* The steps, again *)

\* Steps that neither read, nor commit.
LEMMA IdleSteps ==
  ASSUME IndInv, KnowInv, UNCHANGED <<applied, seen, history>>,
         schema' \ {"emptied"} = schema \ {"emptied"},
         Unanswered', UpToDate'
  PROVE  KnowInv'
  <1>1. Levelled'
    BY DEF KnowInv, Levelled, history, Level
  <1>2. StillApplied'
    BY DEF KnowInv, StillApplied, history
  <1> QED
    BY <1>1, <1>2 DEF KnowInv

\* A process begins.
LEMMA StartKnows ==
  ASSUME IndInv, KnowInv, NEW p \in Migrators, NEW c \in {"up", "down", "status"}, Start(p, c)
  PROVE  KnowInv'
  <1>1. Unanswered' /\ UpToDate'
    BY DEF IndInv, TypeOK, KnowInv, Unanswered, UpToDate, Up, Start, history
  <1> QED
    BY <1>1, IdleSteps DEF Start

\* A process reads what is applied at that moment.
LEMMA ReadKnows ==
  ASSUME IndInv, KnowInv, NEW p \in Migrators, Read(p)
  PROVE  KnowInv'
  <1>1. Levelled'
    BY DEF IndInv, TypeOK, KnowInv, Levelled, Read, history, Level
  <1>2. StillApplied'
    BY DEF IndInv, TypeOK, KnowInv, StillApplied, Read, history
  <1>3. Unanswered' /\ UpToDate'
    BY DEF IndInv, TypeOK, KnowInv, Unanswered, UpToDate, Up, Read, history
  <1> QED
    BY <1>1, <1>2, <1>3 DEF KnowInv

\* A script that has run and is not committed changes nothing.
LEMMA ScriptKnows ==
  ASSUME IndInv, KnowInv, NEW p \in Migrators, Script(p)
  PROVE  KnowInv'
  <1>1. Unanswered' /\ UpToDate'
    BY DEF IndInv, TypeOK, KnowInv, Unanswered, UpToDate, Up, Script, history
  <1> QED
    BY <1>1, IdleSteps DEF Script

\* Every failing end.
LEMMA FailingKnows ==
  ASSUME IndInv, KnowInv, NEW p \in Migrators, ScriptFails(p) \/ ApplyFails(p) \/ Fail(p)
  PROVE  KnowInv'
  <1>1. /\ End(p, "failed") /\ pc[p] # "idle"
        /\ UNCHANGED <<schema, applied, cmd, seen, history>>
    BY DEF ScriptFails, ApplyFails, Fail
  <1>2. Unanswered' /\ UpToDate'
    BY <1>1 DEF IndInv, TypeOK, KnowInv, Unanswered, UpToDate, Up, End, history
  <1> QED
    BY <1>1, <1>2, IdleSteps

\* An Up that finds nothing to do has seen every version.
LEMMA SucceedKnows ==
  ASSUME IndInv, KnowInv, NEW p \in Migrators, Succeed(p)
  PROVE  KnowInv'
  <1>1. ASSUME Up(p), p \notin undone PROVE applied = Versions
    <2>1. Versions \subseteq seen[p]
      BY <1>1 DEF Succeed, Pending, Up
    <2> QED
      BY <1>1, <2>1 DEF IndInv, TypeOK, KnowInv, StillApplied
  <1>2. UNCHANGED <<schema, applied, cmd, seen, history>> /\ End(p, "ok")
    BY DEF Succeed
  <1>3. Unanswered'
    BY <1>2 DEF IndInv, TypeOK, KnowInv, Unanswered, End, Succeed
  <1>4. UpToDate'
    BY <1>1, <1>2 DEF IndInv, TypeOK, KnowInv, UpToDate, Up, End, history
  <1> QED
    BY <1>2, <1>3, <1>4, IdleSteps

\* An Up that has not been overtaken applies the version above the level.
LEMMA ApplyKnows ==
  ASSUME IndInv, KnowInv, NEW p \in Migrators, Apply(p)
  PROVE  KnowInv'
  <1> DEFINE v == Target(p)
  <1>1. /\ v \in Versions /\ v \notin applied
        /\ schema' = schema \cup {Makes[v]} /\ applied' = applied \cup {v}
        /\ seen' = [seen EXCEPT ![p] = @ \cup {v}]
        /\ crossed' = (crossed \/ ~(seen[p] \subseteq applied))
        /\ UNCHANGED <<cmd, skipped, undone>>
    BY AtCommit DEF Apply
  <1>2. /\ pc[p] = "open" /\ Up(p) /\ Pending(p) # {}
        /\ v \notin seen[p] /\ \A w \in Versions : w \notin seen[p] => v <= w
    <2>1. pc[p] = "open" /\ Up(p) /\ Pending(p) # {}
      BY DEF Apply, IndInv, Fits
    <2>2. Pending(p) \in SUBSET Versions /\ cmd[p] = "up"
      BY <2>1 DEF Pending, Up
    <2>3. \E x \in Pending(p) : \A w \in Pending(p) : IF cmd[p] = "up" THEN x <= w ELSE w <= x
      BY <2>1, <2>2, Extremes
    <2>4. \A w \in Pending(p) : v <= w
      BY <2>2, <2>3 DEF Target
    <2> QED
      BY <2>1, <2>2, <2>4, TargetPending DEF IndInv, Pending
  <1> HIDE DEF v
  <1>3. ASSUME ~crossed'
        PROVE  /\ \E k \in 0 .. 5 : applied' = 1 .. k /\ schema' \ {"emptied"} = Level(k)
               /\ \A q \in Migrators : \E j \in 0 .. 5 : seen'[q] = 1 .. j
    <2>1. ~crossed /\ seen[p] \subseteq applied
      BY <1>1, <1>3
    <2>2. PICK k \in 0 .. 5 : applied = 1 .. k /\ schema \ {"emptied"} = Level(k)
      BY <2>1 DEF KnowInv, Levelled
    <2>3. PICK j \in 0 .. 5 : seen[p] = 1 .. j
      BY <2>1 DEF KnowInv, Levelled
    <2>4. j = k /\ v = k + 1 /\ k \in 0 .. 4
      <3>1. v \in 1 .. 5
        BY <1>1 DEF Versions
      <3>2. j <= k
        BY <2>1, <2>2, <2>3
      <3>3. v > k
        BY <1>1, <2>2, <3>1
      <3>4. v <= j + 1
        <4>1. j + 1 \in Versions /\ j + 1 \notin seen[p]
          BY <2>3, <3>1, <3>2, <3>3 DEF Versions
        <4> QED
          BY <1>2, <4>1
      <3> QED
        BY <3>1, <3>2, <3>3, <3>4
    <2>5. applied' = 1 .. (k + 1) /\ schema' \ {"emptied"} = Level(k + 1) /\ k + 1 \in 0 .. 5
      BY <1>1, <2>2, <2>4, LevelUp
    <2>6. seen'[p] = 1 .. (k + 1)
      BY <1>1, <2>3, <2>4, LevelUp DEF IndInv, TypeOK
    <2>7. \A q \in Migrators : \E i \in 0 .. 5 : seen'[q] = 1 .. i
      BY <1>1, <2>1, <2>5, <2>6 DEF IndInv, TypeOK, KnowInv, Levelled
    <2> QED
      BY <2>5, <2>7
  <1>4. Levelled'
    BY <1>3 DEF Levelled, Level
  <1>5. StillApplied'
    BY <1>1 DEF IndInv, TypeOK, KnowInv, StillApplied
  <1>6. Unanswered'
    <2>1. /\ pc[p] \notin {"idle", "ensured", "done"}
          /\ (pc'[p] = "ready" /\ result' = result) \/ pc'[p] = "done"
          /\ \A q \in Migrators \ {p} :
               pc'[q] = pc[q] /\ result'[q] = result[q] /\ seen'[q] = seen[q]
      BY <1>1, <1>2 DEF IndInv, TypeOK, Apply, Committed, End
    <2> QED
      BY <1>2, <2>1 DEF KnowInv, Unanswered
  <1>7. UpToDate'
    <2>1. \A q \in Migrators : result'[q] = "ok" => q # p /\ result[q] = "ok"
      BY <1>2 DEF IndInv, TypeOK, KnowInv, Unanswered, Apply, Committed, End
    <2>2. \A q \in Migrators : Up(q)' <=> Up(q)
      BY <1>1 DEF Up
    <2> QED
      BY <1>1, <2>1, <2>2 DEF KnowInv, UpToDate
  <1> QED
    BY <1>4, <1>5, <1>6, <1>7 DEF KnowInv

\* A Down that has not been overtaken rolls back the last version of the level.
LEMMA RollBackKnows ==
  ASSUME IndInv, KnowInv, NEW p \in Migrators, RollBack(p)
  PROVE  KnowInv'
  <1> DEFINE v == Target(p)
  <1>1. /\ v \in Versions /\ DownRuns(v)
        /\ schema' = schema \ Dropped(v) /\ applied' = applied \ {v}
        /\ crossed' = (crossed \/ seen[p] # applied)
        /\ undone' = undone \cup {q \in Migrators : pc[q] # "idle"}
        /\ UNCHANGED <<cmd, seen>>
    BY AtCommit DEF RollBack, Runs
  <1>2. /\ pc[p] = "open" /\ ~Up(p) /\ v \in seen[p]
        /\ \A w \in seen[p] : w <= v
    <2>1. pc[p] = "open" /\ ~Up(p) /\ Pending(p) # {}
      BY DEF RollBack, IndInv, Fits
    <2>2. cmd[p] = "down" /\ Pending(p) = seen[p]
      BY <2>1, TargetPending DEF IndInv, TypeOK, Pending, Up
    <2>3. Pending(p) \in SUBSET Versions
      BY DEF Pending
    <2>4. \E x \in Pending(p) : \A w \in Pending(p) : IF cmd[p] = "up" THEN x <= w ELSE w <= x
      BY <2>1, <2>2, <2>3, Extremes
    <2>5. \A w \in Pending(p) : w <= v
      BY <2>2, <2>4 DEF Target
    <2> QED
      BY <2>1, <2>2, <2>5, TargetPending DEF IndInv
  <1> HIDE DEF v
  <1>3. ASSUME ~crossed'
        PROVE  \E k \in 0 .. 5 : applied' = 1 .. k /\ schema' \ {"emptied"} = Level(k)
    <2>1. ~crossed /\ seen[p] = applied
      BY <1>1, <1>3
    <2>2. PICK k \in 0 .. 5 : applied = 1 .. k /\ schema \ {"emptied"} = Level(k)
      BY <2>1 DEF KnowInv, Levelled
    <2>3. v = k /\ k \in 1 .. 5
      <3>1. v \in 1 .. k
        BY <1>2, <2>1, <2>2
      <3>2. k \in seen[p]
        BY <2>1, <2>2, <3>1
      <3> QED
        BY <1>2, <3>1, <3>2
    <2>4. k = 5 => "emptied" \notin schema
      BY <1>1, <2>3 DEF DownRuns, Creating
    <2> QED
      BY <1>1, <2>2, <2>3, <2>4, LevelDown
  <1>4. Levelled'
    BY <1>1, <1>3 DEF KnowInv, Levelled, Level
  <1>5. \A q \in Migrators : q \notin undone' => pc[q] = "idle"
    BY <1>1
  <1>6. StillApplied' /\ UpToDate'
    <2>1. \A q \in Migrators : q \notin undone' => seen'[q] = {} /\ result'[q] # "ok"
      BY <1>1, <1>2, <1>5 DEF IndInv, TypeOK, KnowInv, Unanswered, RollBack, Committed, End
    <2> QED
      BY <2>1 DEF StillApplied, UpToDate
  <1>7. Unanswered'
    BY <1>1, <1>2 DEF IndInv, TypeOK, KnowInv, Unanswered, RollBack, Committed, End
  <1> QED
    BY <1>4, <1>6, <1>7 DEF KnowInv

\* Every step keeps what the processes know.
LEMMA NextKnows == IndInv /\ KnowInv /\ [Next]_vars => KnowInv'
  <1> SUFFICES ASSUME IndInv, KnowInv, [Next]_vars PROVE KnowInv'
    OBVIOUS
  <1>1. CASE DeleteMessage \/ UNCHANGED vars
    <2>1. UNCHANGED <<applied, process, history>> /\ schema' \ {"emptied"} = schema \ {"emptied"}
      BY <1>1 DEF DeleteMessage, vars
    <2>2. Unanswered' /\ UpToDate'
      BY <2>1 DEF process, history, KnowInv, Unanswered, UpToDate, Up
    <2> QED
      BY <2>1, <2>2, IdleSteps DEF process
  <1>2. ASSUME NEW p \in Migrators, NEW c \in {"up", "down", "status"}, Start(p, c) PROVE KnowInv'
    BY <1>2, StartKnows
  <1>3. ASSUME NEW p \in Migrators, Read(p) \/ Script(p) \/ Succeed(p) PROVE KnowInv'
    BY <1>3, ReadKnows, ScriptKnows, SucceedKnows
  <1>4. ASSUME NEW p \in Migrators, ScriptFails(p) \/ ApplyFails(p) \/ Fail(p) PROVE KnowInv'
    BY <1>4, FailingKnows
  <1>5. ASSUME NEW p \in Migrators, Apply(p) \/ RollBack(p) PROVE KnowInv'
    BY <1>5, ApplyKnows, RollBackKnows
  <1> QED
    BY <1>1, <1>2, <1>3, <1>4, <1>5 DEF Next, Run

\* At the start nobody knows anything.
LEMMA InitKnows == Init => KnowInv
  <1> SUFFICES ASSUME Init PROVE KnowInv
    OBVIOUS
  <1>1. PICK k \in 0 .. 5 : applied = 1 .. k /\ schema = Level(k)
    BY DEF Init
  <1>2. schema \ {"emptied"} = Level(k)
    <2>1. \A w \in 1 .. k : w \in {1, 2, 3, 4, 5}
      OBVIOUS
    <2>2. "emptied" \notin Level(k)
      BY <2>1, Scripts DEF Level
    <2> QED
      BY <1>1, <2>2
  <1>3. \A p \in Migrators : seen[p] = {} /\ pc[p] = "idle" /\ result[p] = "none"
    BY DEF Init
  <1>4. 1 .. 0 = {} /\ 0 \in 0 .. 5
    OBVIOUS
  <1>5. Levelled
    BY <1>1, <1>2, <1>3, <1>4 DEF Levelled
  <1> QED
    BY <1>3, <1>5 DEF KnowInv, StillApplied, Unanswered, UpToDate

\* What the processes know stays true.
LEMMA Knowledge == Spec => []KnowInv
  <1>1. Init => KnowInv
    BY InitKnows
  <1>2. IndInv /\ KnowInv /\ [Next]_vars => KnowInv'
    BY NextKnows
  <1> QED
    BY <1>1, <1>2, Invariance, PTL DEF Spec

\* Any number of Ups at once, and Downs that overlap with nothing, take the schema
\* from level to level: recorded versions without a gap, and their schema.
THEOREM LevelsOnly == Spec => []LevelByLevel
  <1>1. KnowInv => LevelByLevel
    BY DEF KnowInv, Levelled, LevelByLevel
  <1> QED
    BY <1>1, Knowledge, PTL

\* An Up that says "migrations up to date" is right, whoever applied them, unless
\* somebody rolled back since it began.
THEOREM UpsTellTheTruth == Spec => []UpToDate
  <1>1. KnowInv => UpToDate
    BY DEF KnowInv
  <1> QED
    BY <1>1, Knowledge, PTL
==============================================================================
