------------------------------- MODULE Snowflake -------------------------------
(****************************************************************************)
(* The id generator, internal/snowflake/snowflake.go: one Generator shared  *)
(* by every goroutine of a process, a wall clock that may be set back while *)
(* it runs, and a process that may be restarted (a new Generator with the   *)
(* same node number and no memory of the old one).                          *)
(*                                                                          *)
(* The widths of the id's fields are parameters, so that TLC can run out of *)
(* sequence numbers: << and | on non-overlapping fields are * and +, and >> *)
(* and & are \div and %, negative timestamps (before Epoch) included.  The  *)
(* 41 bits of the timestamp last until 2095 and are not bounded here.       *)
(****************************************************************************)
EXTENDS Integers, Sequences

CONSTANTS
  Callers,   \* goroutines that call Next
  Nobody,    \* not a caller: the mutex is free
  Node,      \* node number of this instance
  Nodes,     \* maxNode + 1
  Seqs,      \* maxSeq + 1
  Epoch,     \* unix time of timestamp 0
  Drift,     \* the step back that Next waits out: 5 ms
  MaxClock,  \* bound on the clock
  MaxBack,   \* bound on how often the clock is set back
  MaxIssued, \* bound on the ids returned
  MaxRuns    \* bound on the runs of the process

ASSUME CallersAssumption == Nobody \notin Callers
ASSUME WidthAssumption   == Nodes \in Nat \ {0} /\ Seqs \in Nat \ {0} /\ Node \in 0 .. Nodes - 1
ASSUME ClockAssumption   == Epoch \in Nat /\ Drift \in Nat /\ MaxClock \in Nat \ {0}
ASSUME BoundAssumption   == MaxBack \in Nat /\ MaxIssued \in Nat /\ MaxRuns \in Nat \ {0}

------------------------------------------------------------------------------
(* The fields of an id. *)

Encode(ms, node, seq) == ((ms - Epoch) * Nodes + node) * Seqs + seq

TimeOf(id) == ((id \div Seqs) \div Nodes) + Epoch
NodeOf(id) == (id \div Seqs) % Nodes
SeqOf(id)  == id % Seqs

------------------------------------------------------------------------------
VARIABLES
  clock,     \* time.Now().UnixMilli()
  mu,        \* who holds Generator.mu
  lastMs,    \* Generator.lastMs
  sequence,  \* Generator.sequence
  pc,        \* where each caller is in Next
  \* history, read by the properties and the bounds only
  issued,    \* the ids returned, in the order they were returned
  used,      \* highest timestamp an id was given so far, over all runs
  lapsed,    \* a new run read a clock that is not past the ids of an old one
  called,    \* the clock when each caller called Next
  shown,     \* the times that the clock has shown so far
  backs,     \* times the clock was set back
  run        \* number of this run of the process

generator == <<mu, lastMs, sequence, pc>>
history   == <<issued, used, lapsed, called>>
time      == <<clock, shown, backs>>
vars      == <<generator, history, time, run>>

TypeOK ==
  /\ clock \in shown /\ shown \subseteq Nat
  /\ mu \in Callers \cup {Nobody}
  /\ lastMs \in Nat
  /\ sequence \in 0 .. Seqs - 1
  /\ pc \in [Callers -> {"idle", "blocked", "drift", "exhausted"}]
  /\ issued \in Seq(Int)
  /\ used \in Nat
  /\ lapsed \in BOOLEAN
  /\ called \in [Callers -> Nat]
  /\ backs \in Nat /\ run \in Nat

Init ==
  /\ clock \in 1 .. MaxClock
  /\ shown = {clock}
  /\ mu = Nobody
  /\ lastMs = 0 /\ sequence = 0
  /\ pc = [p \in Callers |-> "idle"]
  /\ issued = <<>>
  /\ used = 0
  /\ lapsed = FALSE
  /\ called = [p \in Callers |-> 0]
  /\ backs = 0 /\ run = 1

------------------------------------------------------------------------------
(* Next.  waitUntil polls the clock until it has reached its target; the      *)
(* mutex stays locked while it does.                                          *)

\* Unlock and return the id of millisecond now and sequence number seq.
Return(p, now, seq) ==
  /\ lastMs' = now
  /\ sequence' = seq
  /\ issued' = Append(issued, Encode(now, Node, seq))
  /\ lapsed' = (lapsed \/ (lastMs < used /\ now <= used))
  /\ used' = IF now > used THEN now ELSE used
  /\ mu' = Nobody
  /\ pc' = [pc EXCEPT ![p] = "idle"]

\* Mutation: the sequence number is not masked.
SettleUnmasked(p, now) == Return(p, now, IF now = lastMs THEN sequence + 1 ELSE 0)

\* The clock has caught up with lastMs: take the next sequence number of this
\* millisecond, or the first one of a new millisecond.
Settle(p, now) ==
  LET seq == IF now = lastMs THEN (sequence + 1) % Seqs ELSE 0 IN
  IF now = lastMs /\ seq = 0
  THEN /\ sequence' = 0
       /\ mu' = p
       /\ pc' = [pc EXCEPT ![p] = "exhausted"]
       /\ UNCHANGED <<lastMs, issued, used, lapsed>>
  ELSE Return(p, now, seq)

Call(p) ==
  /\ pc[p] = "idle"
  /\ Len(issued) < MaxIssued
  /\ pc' = [pc EXCEPT ![p] = "blocked"]
  /\ called' = [called EXCEPT ![p] = clock]
  /\ UNCHANGED <<mu, lastMs, sequence, issued, used, lapsed, time, run>>

\* The mutex is taken and the clock has not fallen back.
Enter(p) ==
  /\ pc[p] = "blocked" /\ mu = Nobody
  /\ clock >= lastMs
  /\ Settle(p, clock)
  /\ UNCHANGED <<called, time, run>>

\* A small drift is waited out.
EnterDrift(p) ==
  /\ pc[p] = "blocked" /\ mu = Nobody
  /\ clock < lastMs /\ lastMs - clock <= Drift
  /\ mu' = p
  /\ pc' = [pc EXCEPT ![p] = "drift"]
  /\ UNCHANGED <<lastMs, sequence, history, time, run>>

\* ErrClockBackwards.
\* Mutation: the error path does not unlock.
RefuseLocked(p) ==
  /\ pc[p] = "blocked" /\ mu = Nobody
  /\ lastMs - clock > Drift
  /\ mu' = p
  /\ pc' = [pc EXCEPT ![p] = "idle"]
  /\ UNCHANGED <<lastMs, sequence, history, time, run>>

Refuse(p) ==
  /\ pc[p] = "blocked" /\ mu = Nobody
  /\ lastMs - clock > Drift
  /\ pc' = [pc EXCEPT ![p] = "idle"]
  /\ UNCHANGED <<mu, lastMs, sequence, history, time, run>>

DriftOver(p) ==
  /\ pc[p] = "drift"
  /\ clock >= lastMs
  /\ Settle(p, clock)
  /\ UNCHANGED <<called, time, run>>

\* Mutations: the wait ends one millisecond early; there is no wait at all.
NextMillisecondEarly(p) ==
  /\ pc[p] = "exhausted"
  /\ clock >= lastMs
  /\ Return(p, clock, sequence)
  /\ UNCHANGED <<called, time, run>>
NextMillisecondUnwaited(p) ==
  /\ pc[p] = "exhausted"
  /\ Return(p, lastMs + 1, sequence)
  /\ UNCHANGED <<called, time, run>>

NextMillisecond(p) ==
  /\ pc[p] = "exhausted"
  /\ clock >= lastMs + 1
  /\ Return(p, clock, sequence)
  /\ UNCHANGED <<called, time, run>>

------------------------------------------------------------------------------
(* The clock and the process *)

\* The clock does not stop at its bound while somebody waits for it.
Tick ==
  /\ \/ clock < MaxClock
     \/ \E p \in Callers : pc[p] = "drift" /\ clock < lastMs
     \/ \E p \in Callers : pc[p] = "exhausted" /\ clock < lastMs + 1
  /\ clock' = clock + 1
  /\ shown' = shown \cup {clock'}
  /\ UNCHANGED <<generator, history, backs, run>>

SetBack ==
  /\ backs < MaxBack
  /\ backs' = backs + 1
  /\ clock' \in 1 .. clock - 1
  /\ shown' = shown \cup {clock'}
  /\ UNCHANGED <<generator, history, run>>

Restart ==
  /\ run < MaxRuns
  /\ run' = run + 1
  /\ mu' = Nobody
  /\ lastMs' = 0 /\ sequence' = 0
  /\ pc' = [p \in Callers |-> "idle"]
  /\ UNCHANGED <<history, time>>

Step(p) ==
  \/ Enter(p) \/ EnterDrift(p) \/ Refuse(p)
  \/ DriftOver(p) \/ NextMillisecond(p)

Next ==
  \/ \E p \in Callers : Call(p) \/ Step(p)
  \/ Tick \/ SetBack \/ Restart

Spec == Init /\ [][Next]_vars

\* sync.Mutex hands the lock to a waiter in the end (its starvation mode), and
\* the clock goes on.
Fairness == WF_vars(Tick) /\ \A p \in Callers : SF_vars(Step(p))
FairSpec == Spec /\ Fairness

------------------------------------------------------------------------------
(* Properties *)

\* Ids are unique and every id is larger than all ids returned before it, to any
\* caller ("id order is creation order", snowflake.go:4), however the clock is
\* set back during a run; over a restart, if the new run starts on a clock that
\* is past the ids of the old one.
StrictlyIncreasing ==
  ~lapsed => \A i, j \in 1 .. Len(issued) : i < j => issued[i] < issued[j]

\* What is read off an id is true: it comes from this node, and from a millisecond
\* that the clock has really shown, not one that an exhausted sequence or a clock
\* set back made the generator run ahead to.
FieldsFaithful ==
  \A i \in 1 .. Len(issued) :
    NodeOf(issued[i]) = Node /\ TimeOf(issued[i]) \in shown

\* The timestamp of an id lies between the call of Next and its return, while
\* the clock is not set back, also for a caller that waited for the mutex, for a
\* drift or for the next millisecond; it is never in the future.
Timely ==
  [][\A p \in Callers :
       issued' # issued /\ pc[p] # "idle" /\ pc'[p] = "idle"
         => LET ms == TimeOf(issued'[Len(issued')]) IN
            ms <= clock /\ (ms >= called[p] \/ backs > 0)]_vars

\* A caller is not kept forever, although whoever waits for the clock keeps the
\* mutex locked and everybody else out.
CallsReturn == \A p \in Callers : []<>(pc[p] = "idle")
==============================================================================
