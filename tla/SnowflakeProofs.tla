--------------------------- MODULE SnowflakeProofs ---------------------------
(* Proofs about Snowflake: ids are strictly increasing and their fields can be *)
(* recovered, for every width of the fields and every number of callers.       *)
EXTENDS Snowflake, TLAPS

USE WidthAssumption, ClockAssumption

------------------------------------------------------------------------------
(* Arithmetic *)

\* Division with remainder: a field is recovered from the sum it was added to.
LEMMA DivMod ==
  ASSUME NEW s \in Nat \ {0}, NEW x \in Int, NEW r \in 0 .. s - 1
  PROVE  (x * s + r) \div s = x /\ (x * s + r) % s = r
  OBVIOUS

\* Multiplication spreads integers at least one unit apart.
LEMMA MulApart ==
  ASSUME NEW k \in Nat \ {0}, NEW a \in Int, NEW b \in Int, a < b
  PROVE  a * k + k <= b * k
  <1>1. (b - a) \in Nat \ {0}
    OBVIOUS
  <1>2. (b - a) * k >= k
    BY <1>1
  <1> QED
    BY <1>2

\* The packing of the three fields is an integer.
LEMMA EncodeInt ==
  ASSUME NEW ms \in Int, NEW seq \in 0 .. Seqs - 1
  PROVE  Encode(ms, Node, seq) \in Int
  BY DEF Encode

\* An id determines what went into it: TimeOf, NodeOf and SeqOf undo the packing,
\* also for times before Epoch.
THEOREM FieldsRecovered ==
  ASSUME NEW ms \in Int, NEW node \in 0 .. Nodes - 1, NEW seq \in 0 .. Seqs - 1
  PROVE  /\ TimeOf(Encode(ms, node, seq)) = ms
         /\ NodeOf(Encode(ms, node, seq)) = node
         /\ SeqOf(Encode(ms, node, seq)) = seq
  <1> DEFINE hi == (ms - Epoch) * Nodes + node
  <1>1. hi \in Int /\ Encode(ms, node, seq) = hi * Seqs + seq
    BY DEF Encode
  <1>2. Encode(ms, node, seq) \div Seqs = hi /\ Encode(ms, node, seq) % Seqs = seq
    <2> HIDE DEF hi
    <2> QED
      BY <1>1, DivMod
  <1>3. hi \div Nodes = ms - Epoch /\ hi % Nodes = node
    BY DivMod
  <1> HIDE DEF hi
  <1> QED
    BY <1>2, <1>3 DEF TimeOf, NodeOf, SeqOf

\* A later millisecond gives a larger id, whatever the sequence numbers are.
LEMMA LaterIsLarger ==
  ASSUME NEW a \in Int, NEW b \in Int, a < b,
         NEW r \in 0 .. Seqs - 1, NEW s \in 0 .. Seqs - 1
  PROVE  Encode(a, Node, r) < Encode(b, Node, s)
  <1> DEFINE x == (a - Epoch) * Nodes + Node
             y == (b - Epoch) * Nodes + Node
  <1>1. x \in Int /\ y \in Int /\ x < y
    BY MulApart
  <1> HIDE DEF x, y
  <1>2. x * Seqs + Seqs <= y * Seqs
    BY <1>1, MulApart
  <1>3. x * Seqs \in Int /\ y * Seqs \in Int
    BY <1>1
  <1>4. x * Seqs + r < y * Seqs + s
    BY <1>2, <1>3
  <1> QED
    BY <1>4 DEF Encode, x, y

\* Within a millisecond the sequence number decides.
LEMMA SameMillisecond ==
  ASSUME NEW a \in Int, NEW r \in 0 .. Seqs - 1, NEW s \in 0 .. Seqs - 1, r < s
  PROVE  Encode(a, Node, r) < Encode(a, Node, s)
  <1> DEFINE x == ((a - Epoch) * Nodes + Node) * Seqs
  <1>1. x \in Int
    OBVIOUS
  <1> HIDE DEF x
  <1>2. x + r < x + s
    BY <1>1
  <1> QED
    BY <1>2 DEF Encode, x

------------------------------------------------------------------------------
(* The inductive invariant *)

\* The mutex is held by the one caller that waits for the clock, if any.
MutexHeld ==
  \A p \in Callers : pc[p] \in {"drift", "exhausted"} <=> mu = p

\* The clock is past 0, and the generator is not ahead of the ids returned.
ClockPast ==
  /\ clock >= 1
  /\ lastMs <= used
  /\ issued # <<>> => used >= 1

\* The largest id that can have been returned: in the millisecond of the newest
\* id, the generator that drew it knows how far its sequence has come.
Top ==
  IF lastMs = used /\ ~\E p \in Callers : pc[p] = "exhausted"
  THEN Encode(used, Node, sequence)
  ELSE Encode(used, Node, Seqs - 1)

Ordered == \A i, j \in 1 .. Len(issued) : i < j => issued[i] < issued[j]

BelowTop == \A i \in 1 .. Len(issued) : issued[i] <= Top

IndInv == TypeOK /\ MutexHeld /\ ClockPast /\ (~lapsed => Ordered /\ BelowTop)

\* Appending an id above all others keeps the order.
LEMMA AppendOrdered ==
  ASSUME NEW s \in Seq(Int), NEW id \in Int,
         \A i, j \in 1 .. Len(s) : i < j => s[i] < s[j],
         \A i \in 1 .. Len(s) : s[i] < id
  PROVE  /\ \A i, j \in 1 .. Len(Append(s, id)) : i < j => Append(s, id)[i] < Append(s, id)[j]
         /\ \A i \in 1 .. Len(Append(s, id)) : Append(s, id)[i] <= id
  OBVIOUS

\* A fresh generator has returned nothing.
LEMMA InitIndInv == Init => IndInv
  <1> SUFFICES ASSUME Init PROVE IndInv
    OBVIOUS
  <1>1. TypeOK
    <2>1. clock \in shown /\ shown \subseteq Nat /\ sequence \in 0 .. Seqs - 1
      BY DEF Init
    <2>2. issued \in Seq(Int) /\ lastMs \in Nat /\ used \in Nat /\ backs \in Nat /\ run \in Nat
      BY DEF Init
    <2> QED
      BY <2>1, <2>2 DEF Init, TypeOK
  <1>2. MutexHeld
    BY CallersAssumption DEF Init, MutexHeld
  <1>3. ClockPast
    BY DEF Init, ClockPast
  <1>4. Ordered /\ BelowTop
    BY DEF Init, Ordered, BelowTop
  <1> QED
    BY <1>1, <1>2, <1>3, <1>4 DEF IndInv

\* Top is the largest sequence number of its millisecond, or one below it.
LEMMA TopBound ==
  ASSUME TypeOK
  PROVE  /\ Top \in Int /\ Encode(used, Node, Seqs - 1) \in Int
         /\ Top <= Encode(used, Node, Seqs - 1)
  <1>1. used \in Int /\ sequence \in 0 .. Seqs - 1 /\ Seqs - 1 \in 0 .. Seqs - 1
    BY DEF TypeOK
  <1>2. Encode(used, Node, Seqs - 1) \in Int /\ Encode(used, Node, sequence) \in Int
    BY <1>1, EncodeInt
  <1>3. sequence # Seqs - 1 => Encode(used, Node, sequence) < Encode(used, Node, Seqs - 1)
    BY <1>1, SameMillisecond
  <1> QED
    BY <1>2, <1>3 DEF Top

\* Returning an id that is above Top, or of a millisecond nobody has used, keeps
\* the ids in order, and makes it the new Top.
LEMMA ReturnIndInv ==
  ASSUME IndInv, NEW p \in Callers, NEW seq \in 0 .. Seqs - 1,
         Return(p, clock, seq), UNCHANGED <<called, time, run>>,
         mu \in {Nobody, p}, clock >= lastMs,
         lastMs = used => Top < Encode(clock, Node, seq)
  PROVE  IndInv'
  <1> DEFINE id == Encode(clock, Node, seq)
  <1> USE DEF IndInv
  <1>1. clock \in Nat /\ clock' = clock /\ id \in Int /\ used \in Nat /\ lastMs \in Nat
    BY EncodeInt DEF TypeOK, time
  <1>2. /\ lastMs' = clock /\ sequence' = seq /\ issued' = Append(issued, id)
        /\ mu' = Nobody /\ pc' = [pc EXCEPT ![p] = "idle"]
        /\ lapsed' = (lapsed \/ (lastMs < used /\ clock <= used))
        /\ used' = IF clock > used THEN clock ELSE used
    BY DEF Return
  <1>3. TypeOK'
    BY <1>1, <1>2 DEF TypeOK, time
  <1>4. \A q \in Callers : pc'[q] \notin {"drift", "exhausted"}
    BY <1>2, CallersAssumption DEF MutexHeld, TypeOK
  <1>5. MutexHeld'
    BY <1>2, <1>4, CallersAssumption DEF MutexHeld
  <1>6. ClockPast'
    BY <1>1, <1>2 DEF ClockPast
  <1>7. ASSUME ~lapsed' PROVE Ordered' /\ BelowTop'
    <2>1. ~lapsed /\ (lastMs = used \/ clock > used)
      <3>1. ~lapsed /\ ~(lastMs < used /\ clock <= used)
        BY <1>2, <1>7, Zenon
      <3> QED
        BY <3>1, <1>1 DEF ClockPast
    <2>2. Top < id
      <3>1. CASE lastMs = used
        BY <3>1
      <3>2. CASE lastMs # used
        <4>1. Top = Encode(used, Node, Seqs - 1)
          BY <3>2 DEF Top
        <4> QED
          BY <4>1, <3>2, <2>1, <1>1, LaterIsLarger
      <3> QED
        BY <3>1, <3>2
    <2>3. \A i \in 1 .. Len(issued) : issued[i] < id
      <3>1. Top \in Int
        BY TopBound
      <3> QED
        BY <2>1, <2>2, <3>1, <1>1 DEF BelowTop, TypeOK
    <2>4. Top' = id
      BY <1>1, <1>2, <1>4, <2>1 DEF Top
    <2>5. issued \in Seq(Int) /\ Ordered
      BY <2>1 DEF TypeOK
    <2> HIDE DEF id
    <2> QED
      BY <1>1, <1>2, <2>3, <2>4, <2>5, AppendOrdered DEF Ordered, BelowTop
  <1> QED
    BY <1>3, <1>5, <1>6, <1>7

\* Taking the next sequence number, or starting to wait when there is none left.
LEMMA SettleIndInv ==
  ASSUME IndInv, NEW p \in Callers, Settle(p, clock), UNCHANGED <<called, time, run>>,
         mu \in {Nobody, p}, pc[p] # "exhausted", clock >= lastMs
  PROVE  IndInv'
  <1> DEFINE seq == IF clock = lastMs THEN (sequence + 1) % Seqs ELSE 0
  <1> USE DEF IndInv
  <1>1. /\ seq \in 0 .. Seqs - 1
        /\ clock = lastMs /\ seq # 0 => seq = sequence + 1
        /\ clock = lastMs /\ seq = 0 => sequence = Seqs - 1
    <2>1. sequence \in 0 .. Seqs - 1
      BY DEF TypeOK
    <2>2. CASE sequence + 1 < Seqs
      <3>1. sequence + 1 \in 0 .. Seqs - 1 /\ sequence + 1 = 0 * Seqs + (sequence + 1)
        BY <2>1, <2>2
      <3>2. (sequence + 1) % Seqs = sequence + 1
        BY <3>1, DivMod
      <3> QED
        BY <2>1, <2>2, <3>2
    <2>3. CASE sequence = Seqs - 1
      <3>1. (sequence + 1) % Seqs = 0
        BY <2>3, DivMod
      <3> QED
        BY <2>1, <2>3, <3>1
    <2> QED
      BY <2>1, <2>2, <2>3
  <1>2. ~\E q \in Callers : pc[q] = "exhausted"
    BY CallersAssumption DEF MutexHeld
  <1>3. CASE clock = lastMs /\ seq = 0
    <2>1. /\ sequence' = 0 /\ mu' = p /\ pc' = [pc EXCEPT ![p] = "exhausted"]
          /\ UNCHANGED <<lastMs, issued, used, lapsed, called, clock, shown, backs, run>>
      BY <1>3 DEF Settle, time
    <2>2. TypeOK'
      BY <2>1 DEF TypeOK
    <2>3. MutexHeld'
      BY <2>1, CallersAssumption DEF MutexHeld, TypeOK
    <2>4. ClockPast' /\ Ordered' = Ordered
      BY <2>1 DEF ClockPast, Ordered
    <2>5. Top' = Top
      <3>1. Top = Encode(used, Node, Seqs - 1)
        BY <1>1, <1>3 DEF Top
      <3>2. pc'[p] = "exhausted"
        BY <2>1 DEF TypeOK
      <3> QED
        BY <2>1, <3>1, <3>2 DEF Top, Encode
    <2> QED
      BY <2>1, <2>2, <2>3, <2>4, <2>5 DEF BelowTop
  <1>4. CASE ~(clock = lastMs /\ seq = 0)
    <2>1. Return(p, clock, seq)
      BY <1>4 DEF Settle
    <2>2. ASSUME lastMs = used PROVE Top < Encode(clock, Node, seq)
      <3>1. Top = Encode(used, Node, sequence)
        BY <2>2, <1>2 DEF Top
      <3>2. CASE clock = lastMs
        BY <3>1, <3>2, <2>2, <1>1, <1>4, SameMillisecond DEF TypeOK
      <3>3. CASE clock # lastMs
        BY <3>1, <3>3, <2>2, <1>1, LaterIsLarger DEF TypeOK
      <3> QED
        BY <3>2, <3>3
    <2> HIDE DEF seq
    <2> QED
      BY <1>1, <2>1, <2>2, ReturnIndInv
  <1> QED
    BY <1>3, <1>4

\* Every step of the generator preserves the invariant.
LEMMA NextIndInv == IndInv /\ [Next]_vars => IndInv'
  <1> SUFFICES ASSUME IndInv, [Next]_vars PROVE IndInv'
    OBVIOUS
  <1> USE DEF IndInv
  <1>1. CASE UNCHANGED vars
    BY <1>1 DEF vars, generator, history, time, TypeOK, MutexHeld, ClockPast, Ordered,
      BelowTop, Top
  <1>2. ASSUME NEW p \in Callers, Call(p) PROVE IndInv'
    <2>1. /\ pc' = [pc EXCEPT ![p] = "blocked"] /\ pc[p] = "idle"
          /\ called' = [called EXCEPT ![p] = clock]
          /\ UNCHANGED <<mu, lastMs, sequence, issued, used, lapsed, clock, shown, backs, run>>
      BY <1>2 DEF Call, time
    <2>2. TypeOK'
      BY <2>1 DEF TypeOK
    <2>3. \A q \in Callers : pc'[q] \in {"drift", "exhausted"} => pc'[q] = pc[q]
      BY <2>1 DEF TypeOK
    <2>4. \A q \in Callers : pc[q] \in {"drift", "exhausted"} => pc'[q] = pc[q]
      BY <2>1 DEF TypeOK
    <2>5. MutexHeld' /\ ClockPast'
      BY <2>1, <2>3, <2>4 DEF MutexHeld, ClockPast
    <2>6. Top' = Top /\ Ordered' = Ordered
      BY <2>1, <2>3, <2>4 DEF Top, Ordered, Encode
    <2> QED
      BY <2>1, <2>2, <2>5, <2>6 DEF BelowTop
  <1>3. ASSUME NEW p \in Callers, Enter(p) PROVE IndInv'
    BY <1>3, SettleIndInv DEF Enter
  <1>4. ASSUME NEW p \in Callers, EnterDrift(p) PROVE IndInv'
    <2>1. /\ mu = Nobody /\ mu' = p /\ pc' = [pc EXCEPT ![p] = "drift"]
          /\ UNCHANGED <<lastMs, sequence, issued, used, lapsed, called, clock, shown, backs, run>>
      BY <1>4 DEF EnterDrift, history, time
    <2>2. TypeOK'
      BY <2>1 DEF TypeOK
    <2>3. MutexHeld' /\ ClockPast'
      BY <2>1, CallersAssumption DEF MutexHeld, ClockPast, TypeOK
    <2>4. \A q \in Callers : pc[q] # "exhausted" /\ pc'[q] # "exhausted"
      BY <2>1, CallersAssumption DEF MutexHeld, TypeOK
    <2>5. Top' = Top /\ Ordered' = Ordered
      BY <2>1, <2>4 DEF Top, Ordered, Encode
    <2> QED
      BY <2>1, <2>2, <2>3, <2>5 DEF BelowTop
  <1>5. ASSUME NEW p \in Callers, Refuse(p) PROVE IndInv'
    <2>1. /\ pc[p] = "blocked" /\ pc' = [pc EXCEPT ![p] = "idle"]
          /\ UNCHANGED <<mu, lastMs, sequence, issued, used, lapsed, called, clock, shown, backs, run>>
      BY <1>5 DEF Refuse, history, time
    <2>2. TypeOK'
      BY <2>1 DEF TypeOK
    <2>3. \A q \in Callers : pc'[q] \in {"drift", "exhausted"} => pc'[q] = pc[q]
      BY <2>1 DEF TypeOK
    <2>4. \A q \in Callers : pc[q] \in {"drift", "exhausted"} => pc'[q] = pc[q]
      BY <2>1 DEF TypeOK
    <2>5. MutexHeld' /\ ClockPast'
      BY <2>1, <2>3, <2>4 DEF MutexHeld, ClockPast
    <2>6. Top' = Top /\ Ordered' = Ordered
      BY <2>1, <2>3, <2>4 DEF Top, Ordered, Encode
    <2> QED
      BY <2>1, <2>2, <2>5, <2>6 DEF BelowTop
  <1>6. ASSUME NEW p \in Callers, DriftOver(p) PROVE IndInv'
    <2>1. mu = p /\ pc[p] # "exhausted"
      BY <1>6 DEF DriftOver, MutexHeld
    <2> QED
      BY <1>6, <2>1, SettleIndInv DEF DriftOver
  <1>7. ASSUME NEW p \in Callers, NextMillisecond(p) PROVE IndInv'
    <2>1. mu = p /\ sequence \in 0 .. Seqs - 1 /\ clock > lastMs /\ clock \in Nat /\ lastMs \in Nat
      BY <1>7 DEF NextMillisecond, MutexHeld, TypeOK
    <2>2. ASSUME lastMs = used PROVE Top < Encode(clock, Node, sequence)
      <3>1. Top = Encode(used, Node, Seqs - 1)
        BY <1>7 DEF NextMillisecond, Top
      <3> QED
        BY <3>1, <2>1, <2>2, LaterIsLarger
    <2> QED
      BY <1>7, <2>1, <2>2, ReturnIndInv DEF NextMillisecond
  <1>8. CASE Tick
    <2>1. UNCHANGED <<mu, lastMs, sequence, pc, issued, used, lapsed, called, backs, run>>
      BY <1>8 DEF Tick, generator, history
    <2>2. TypeOK' /\ ClockPast'
      BY <2>1, <1>8 DEF Tick, TypeOK, ClockPast
    <2> QED
      BY <2>1, <2>2 DEF MutexHeld, Ordered, BelowTop, Top, Encode
  <1>9. CASE SetBack
    <2>1. UNCHANGED <<mu, lastMs, sequence, pc, issued, used, lapsed, called, run>>
      BY <1>9 DEF SetBack, generator, history
    <2>2. TypeOK' /\ ClockPast'
      BY <2>1, <1>9 DEF SetBack, TypeOK, ClockPast
    <2> QED
      BY <2>1, <2>2 DEF MutexHeld, Ordered, BelowTop, Top, Encode
  <1>10. CASE Restart
    <2>1. /\ mu' = Nobody /\ lastMs' = 0 /\ sequence' = 0
          /\ pc' = [p \in Callers |-> "idle"]
          /\ UNCHANGED <<issued, used, lapsed, called, clock, shown, backs>> /\ run' = run + 1
      BY <1>10 DEF Restart, history, time
    <2>2. TypeOK' /\ ClockPast' /\ Ordered' = Ordered
      BY <2>1 DEF TypeOK, ClockPast, Ordered
    <2>3. MutexHeld'
      BY <2>1, CallersAssumption DEF MutexHeld
    <2>4. ASSUME ~lapsed PROVE BelowTop'
      <3>1. CASE issued = <<>>
        BY <2>1, <3>1 DEF BelowTop
      <3>2. CASE issued # <<>>
        <4>1. Top' = Encode(used, Node, Seqs - 1)
          BY <2>1, <3>2 DEF Top, ClockPast, TypeOK, Encode
        <4>2. /\ Top \in Int /\ Encode(used, Node, Seqs - 1) \in Int
              /\ Top <= Encode(used, Node, Seqs - 1)
          BY TopBound
        <4>3. \A i \in 1 .. Len(issued) : issued[i] \in Int /\ issued[i] <= Top
          BY <2>4 DEF BelowTop, TypeOK
        <4> HIDE DEF IndInv
        <4>4. \A i \in 1 .. Len(issued) : issued[i] <= Encode(used, Node, Seqs - 1)
          BY <4>2, <4>3
        <4> QED
          BY <2>1, <4>1, <4>4 DEF BelowTop
      <3> QED
        BY <3>1, <3>2
    <2> QED
      BY <2>1, <2>2, <2>3, <2>4
  <1> QED
    BY <1>1, <1>2, <1>3, <1>4, <1>5, <1>6, <1>7, <1>8, <1>9, <1>10 DEF Next, Step

\* The invariant holds in every reachable state.
LEMMA Invariance == Spec => []IndInv
  BY InitIndInv, NextIndInv, PTL DEF Spec

\* Every variable keeps its type.
THEOREM TypeCorrect == Spec => []TypeOK
  <1>1. IndInv => TypeOK
    BY DEF IndInv
  <1> QED
    BY <1>1, Invariance, PTL

\* Ids are strictly increasing, hence unique, whatever the clock does in a run,
\* and over a restart that the clock has got past.
THEOREM IdsIncrease == Spec => []StrictlyIncreasing
  <1>1. IndInv => StrictlyIncreasing
    BY DEF IndInv, Ordered, StrictlyIncreasing
  <1> QED
    BY <1>1, Invariance, PTL

------------------------------------------------------------------------------
(* What an id tells *)

\* What a goroutine may return: packed by this node from a sequence number in its
\* range and one of the times in past.
Genuine(id, past) ==
  \E ms \in past, seq \in 0 .. Seqs - 1 : id = Encode(ms, Node, seq)

AllGenuine == \A i \in 1 .. Len(issued) : Genuine(issued[i], shown)

\* The fields can be read off a genuine id.
LEMMA GenuineFaithful ==
  ASSUME NEW id, NEW past \in SUBSET Nat, Genuine(id, past)
  PROVE  NodeOf(id) = Node /\ TimeOf(id) \in past
  <1>1. PICK ms \in past, seq \in 0 .. Seqs - 1 : id = Encode(ms, Node, seq)
    BY DEF Genuine
  <1>2. TimeOf(id) = ms /\ NodeOf(id) = Node
    <2>1. ms \in Int /\ Node \in 0 .. Nodes - 1
      OBVIOUS
    <2> QED
      BY <1>1, <2>1, FieldsRecovered
  <1> QED
    BY <1>1, <1>2

\* Each return packs the clock's reading; every other step returns nothing.
LEMMA ReturnsClock ==
  ASSUME IndInv, [Next]_vars
  PROVE  \/ issued' = issued
         \/ \E seq \in 0 .. Seqs - 1 :
              issued' = Append(issued, Encode(clock, Node, seq))
  <1>1. ASSUME NEW p \in Callers, NEW seq \in 0 .. Seqs - 1, Return(p, clock, seq), time' = time
        PROVE  \E s \in 0 .. Seqs - 1 :
                 issued' = Append(issued, Encode(clock, Node, s))
    BY <1>1 DEF Return, time
  <1>2. ASSUME NEW p \in Callers, Settle(p, clock), time' = time
        PROVE  \/ issued' = issued
               \/ \E seq \in 0 .. Seqs - 1 :
                    issued' = Append(issued, Encode(clock, Node, seq))
    <2> DEFINE seq == IF clock = lastMs THEN (sequence + 1) % Seqs ELSE 0
    <2>1. seq \in 0 .. Seqs - 1
      BY DEF IndInv, TypeOK
    <2>2. issued' = issued \/ Return(p, clock, seq)
      BY <1>2 DEF Settle
    <2> HIDE DEF seq
    <2> QED
      BY <1>1, <1>2, <2>1, <2>2
  <1>3. ASSUME NEW p \in Callers, Enter(p) \/ DriftOver(p)
        PROVE  \/ issued' = issued
               \/ \E seq \in 0 .. Seqs - 1 :
                    issued' = Append(issued, Encode(clock, Node, seq))
    BY <1>2, <1>3 DEF Enter, DriftOver
  <1>4. ASSUME NEW p \in Callers, NextMillisecond(p)
        PROVE  \E seq \in 0 .. Seqs - 1 :
                 issued' = Append(issued, Encode(clock, Node, seq))
    <2>1. sequence \in 0 .. Seqs - 1
      BY DEF IndInv, TypeOK
    <2> QED
      BY <1>1, <1>4, <2>1 DEF NextMillisecond
  <1>5. ASSUME NEW p \in Callers, Call(p) \/ EnterDrift(p) \/ Refuse(p) PROVE issued' = issued
    BY <1>5 DEF Call, EnterDrift, Refuse, history
  <1>6. ASSUME Tick \/ SetBack \/ Restart \/ UNCHANGED vars PROVE issued' = issued
    BY <1>6 DEF Tick, SetBack, Restart, vars, history
  <1> QED
    BY <1>3, <1>4, <1>5, <1>6 DEF Next, Step

\* What the clock has shown, it has shown.
LEMMA ShownGrows ==
  ASSUME IndInv, [Next]_vars
  PROVE  shown \subseteq shown'
  <1>1. ASSUME NEW p \in Callers, Call(p) \/ Step(p) PROVE shown' = shown
    BY <1>1 DEF Call, Step, Enter, EnterDrift, Refuse, DriftOver, NextMillisecond, time
  <1>2. ASSUME Tick \/ SetBack PROVE shown \subseteq shown'
    BY <1>2 DEF Tick, SetBack
  <1>3. ASSUME Restart \/ UNCHANGED vars PROVE shown' = shown
    BY <1>3 DEF Restart, vars, time
  <1> QED
    BY <1>1, <1>2, <1>3 DEF Next

\* Every id returned stays genuine.
LEMMA NextGenuine ==
  ASSUME IndInv, AllGenuine, [Next]_vars
  PROVE  AllGenuine'
  <1>1. ASSUME NEW id, Genuine(id, shown) PROVE Genuine(id, shown')
    BY <1>1, ShownGrows DEF Genuine
  <1>2. CASE issued' = issued
    BY <1>1, <1>2 DEF AllGenuine
  <1>3. ASSUME NEW seq \in 0 .. Seqs - 1, issued' = Append(issued, Encode(clock, Node, seq))
        PROVE  AllGenuine'
    <2> DEFINE id == Encode(clock, Node, seq)
    <2>1. clock \in Nat /\ clock \in shown' /\ issued \in Seq(Int)
      BY ShownGrows DEF IndInv, TypeOK
    <2>2. id \in Int
      BY <2>1, EncodeInt
    <2>3. Genuine(id, shown')
      BY <2>1 DEF Genuine
    <2> HIDE DEF id
    <2>4. /\ Len(issued') = Len(issued) + 1
          /\ issued'[Len(issued) + 1] = id
          /\ \A i \in 1 .. Len(issued) : issued'[i] = issued[i]
      BY <1>3, <2>1, <2>2 DEF id
    <2>5. ASSUME NEW i \in 1 .. Len(issued') PROVE Genuine(issued'[i], shown')
      <3>1. CASE i \in 1 .. Len(issued)
        BY <1>1, <2>4, <3>1 DEF AllGenuine
      <3>2. CASE i = Len(issued) + 1
        BY <2>3, <2>4, <3>2
      <3> QED
        BY <2>1, <2>4, <3>1, <3>2
    <2> QED
      BY <2>5 DEF AllGenuine
  <1> QED
    BY <1>2, <1>3, ReturnsClock

\* An id tells the node that made it and a time that the clock has shown: for every
\* width of the fields, however often the clock is set back and the process
\* restarted.
THEOREM FieldsAlwaysFaithful == Spec => []FieldsFaithful
  <1>1. Init => AllGenuine
    BY DEF Init, AllGenuine
  <1>2. IndInv /\ AllGenuine => FieldsFaithful
    BY GenuineFaithful DEF AllGenuine, FieldsFaithful, IndInv, TypeOK
  <1>3. IndInv /\ AllGenuine /\ [Next]_vars => AllGenuine'
    BY NextGenuine
  <1> QED
    BY <1>1, <1>2, <1>3, Invariance, PTL DEF Spec

------------------------------------------------------------------------------
(* When an id was made *)

\* Until somebody sets it back, the clock is past every call.
CallsPast == backs = 0 => \A p \in Callers : called[p] <= clock

\* Calls are noted with the time, and the clock goes on.
LEMMA NextCallsPast ==
  ASSUME IndInv, CallsPast, [Next]_vars
  PROVE  CallsPast'
  <1> USE DEF IndInv, TypeOK
  <1>1. ASSUME NEW p \in Callers, Call(p) PROVE CallsPast'
    BY <1>1 DEF Call, CallsPast, time
  <1>2. ASSUME NEW p \in Callers, Step(p) PROVE UNCHANGED <<called, time>>
    BY <1>2 DEF Step, Enter, EnterDrift, Refuse, DriftOver, NextMillisecond, history
  <1>3. ASSUME Restart \/ UNCHANGED vars PROVE UNCHANGED <<called, time>>
    BY <1>3 DEF Restart, vars, history
  <1>4. UNCHANGED <<called, time>> => CallsPast'
    BY DEF CallsPast, time
  <1>5. CASE Tick
    BY <1>5 DEF Tick, CallsPast, history
  <1>6. CASE SetBack
    <2>1. backs' = backs + 1 /\ backs \in Nat
      BY <1>6 DEF SetBack
    <2> QED
      BY <2>1 DEF CallsPast
  <1> QED
    BY <1>1, <1>2, <1>3, <1>4, <1>5, <1>6 DEF Next

\* A caller that leaves Next with an id has one of the time it leaves.
LEMMA ReturnTimely ==
  ASSUME IndInv, CallsPast, [Next]_vars, NEW p \in Callers,
         issued' # issued, pc[p] # "idle", pc'[p] = "idle"
  PROVE  LET ms == TimeOf(issued'[Len(issued')]) IN
         ms <= clock /\ (ms >= called[p] \/ backs > 0)
  <1>1. PICK seq \in 0 .. Seqs - 1 : issued' = Append(issued, Encode(clock, Node, seq))
    BY ReturnsClock
  <1>2. clock \in Nat /\ issued \in Seq(Int) /\ called[p] \in Nat /\ backs \in Nat
    BY DEF IndInv, TypeOK
  <1> DEFINE id == Encode(clock, Node, seq)
  <1>3. id \in Int
    BY <1>2, EncodeInt
  <1>4. TimeOf(id) = clock
    BY <1>2, FieldsRecovered
  <1> HIDE DEF id
  <1>5. issued'[Len(issued')] = id
    <2>1. issued' = Append(issued, id)
      BY <1>1 DEF id
    <2> QED
      BY <2>1, <1>2, <1>3
  <1>6. clock <= clock /\ (clock >= called[p] \/ backs > 0)
    BY <1>2 DEF CallsPast
  <1> QED
    BY <1>4, <1>5, <1>6

\* The time of an id lies between the call of Next and its return, however long the
\* caller waited for the mutex or the clock, until the clock is first set back; and
\* it is never in the future.
THEOREM AlwaysTimely == Spec => Timely
  <1> DEFINE InTime ==
        \A p \in Callers :
          issued' # issued /\ pc[p] # "idle" /\ pc'[p] = "idle"
            => LET ms == TimeOf(issued'[Len(issued')]) IN
               ms <= clock /\ (ms >= called[p] \/ backs > 0)
  <1>1. Init => CallsPast
    <2> SUFFICES ASSUME Init, NEW p \in Callers PROVE called[p] <= clock
      BY DEF CallsPast
    <2>1. called[p] = 0
      BY DEF Init
    <2>2. 0 <= clock
      BY DEF Init
    <2> QED
      BY <2>1, <2>2
  <1>2. IndInv /\ CallsPast /\ [Next]_vars => CallsPast'
    BY NextCallsPast
  <1>3. IndInv /\ CallsPast /\ [Next]_vars => [InTime]_vars
    BY ReturnTimely
  <1> QED
    BY <1>1, <1>2, <1>3, Invariance, PTL DEF Spec, Timely
==============================================================================
