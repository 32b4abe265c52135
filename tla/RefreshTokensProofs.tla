------------------------- MODULE RefreshTokensProofs -------------------------
(* Proofs about RefreshTokens: the inductive invariant, the safety properties *)
(* that follow from it, and the refinement of SessionChain.                   *)
EXTENDS RefreshTokens, TLAPS

USE MaxIdAssumption, TimeAssumption DEF Ids, NoId

\* The initial table is empty and no transaction is open.
LEMMA InitIndInv == Init => IndInv
  BY SMT DEF Init, IndInv, TypeOK, Locking, InFlight, Targets, Lineage, Minted,
    ExchangedOnce, OneUnspent, Updating

\* What a drawn id is: new to every table and family.
LEMMA DrawnId ==
  ASSUME IndInv, NEW f, DrawId(f)
  PROVE  /\ lastId \in Nat /\ lastId + 1 \in Ids /\ lastId' = lastId + 1
         /\ lastId + 1 \notin Minted /\ lastId + 1 \notin stored
         /\ parent[lastId + 1] = NoId
         /\ lastId' \in 0 .. MaxId
         /\ 1 .. lastId \subseteq Ids /\ 1 .. lastId' = (1 .. lastId) \cup {lastId + 1}
         /\ \A i \in stored : i \in Ids /\ i # lastId + 1 /\ family'[i] = family[i]
         /\ family'[lastId + 1] = f
         /\ \A i \in Ids : i # lastId + 1 => family'[i] = family[i]
         /\ f \in Ids => family' \in [Ids -> Ids \cup {NoId}]
         /\ expires' \in [Ids -> Int]
  <1> USE DEF IndInv
  <1>1. lastId \in Nat /\ lastId + 1 \in Ids /\ lastId' = lastId + 1
    BY DEF DrawId, TypeOK
  <1>2. lastId + 1 \notin Minted
    BY <1>1 DEF Lineage
  <1>3. lastId + 1 \notin stored /\ parent[lastId + 1] = NoId
    BY <1>1, <1>2 DEF Lineage, Minted
  <1>4. /\ family' = [family EXCEPT ![lastId + 1] = f]
        /\ family'[lastId + 1] = f
        /\ \A i \in Ids : i # lastId + 1 => family'[i] = family[i]
    BY <1>1 DEF DrawId, TypeOK
  <1>5. f \in Ids => family' \in [Ids -> Ids \cup {NoId}]
    BY <1>1, <1>4 DEF TypeOK
  <1>6. expires' \in [Ids -> Int]
    BY <1>1 DEF DrawId, TypeOK
  <1>7. \A i \in stored : i \in Ids /\ i # lastId + 1 /\ family'[i] = family[i]
    BY <1>3, <1>4 DEF TypeOK
  <1>8. /\ lastId' \in 0 .. MaxId
        /\ 1 .. lastId \subseteq Ids /\ 1 .. lastId' = (1 .. lastId) \cup {lastId + 1}
    BY <1>1 DEF TypeOK
  <1> QED
    BY <1>1, <1>2, <1>3, <1>4, <1>5, <1>6, <1>7, <1>8

\* A login starts a family of its own: its id is larger than every family so
\* far, so the new row has no unspent sibling.
LEMMA IssueIndInv ==
  ASSUME IndInv, NEW p \in Requests, Issue(p)
  PROVE  IndInv'
  <1> DEFINE n == lastId + 1
  <1> USE DEF IndInv
  <1>1. /\ lastId \in Nat /\ n \in Ids /\ lastId' = n
        /\ n \notin Minted /\ n \notin stored /\ parent[n] = NoId
        /\ family' \in [Ids -> Ids \cup {NoId}] /\ expires' \in [Ids -> Int]
    BY DrawnId DEF Issue
  <1>2. /\ stored' = stored \cup {n} /\ rotated' = rotated
        /\ family'[n] = n /\ \A i \in Ids : i # n => family'[i] = family[i]
        /\ parent' = [parent EXCEPT ![n] = n]
        /\ parent'[n] = n /\ \A i \in Ids : i # n => parent'[i] = parent[i]
    BY <1>1, DrawnId DEF Issue, TypeOK
  <1>3. TypeOK'
    <2>1. lastId' \in 0 .. MaxId /\ held' \subseteq Ids /\ stored' \subseteq Ids
      BY <1>1, <1>2 DEF Issue, Deliver, TypeOK
    <2>2. parent' \in [Ids -> Ids \cup {NoId}]
      BY <1>1, <1>2 DEF TypeOK
    <2> QED
      BY <2>1, <2>2, <1>1, <1>2 DEF Issue, TypeOK, Updating, process
  <1>4. Locking'
    BY DEF Issue, Locking, process
  <1>5. InFlight'
    BY <1>1, <1>2 DEF Issue, InFlight, Locking, TypeOK, process
  <1>6. Lineage'
    <2>1. Minted' = Minted \cup {n}
      BY <1>1, <1>2 DEF TypeOK, Minted
    <2>2. stored' \subseteq Minted' /\ Minted' \subseteq 1 .. lastId'
      BY <2>1, <1>1, <1>2 DEF Lineage
    <2>3. \A i \in 1 .. lastId' : family'[i] \in 1 .. lastId'
      <3>1. \A i \in 1 .. lastId : i \in Ids /\ i # n /\ family[i] \in 1 .. lastId'
        BY <1>1, DrawnId DEF Issue, Lineage
      <3>2. n \in 1 .. lastId'
        BY <1>1
      <3> QED
        BY <3>1, <3>2, <1>2, DrawnId DEF Issue
    <2>4. \A j \in Minted' : parent'[j] # j => parent'[j] \in Minted' \ (stored' \ rotated')
      BY <2>1, <1>1, <1>2 DEF Lineage, TypeOK, Minted
    <2> QED
      BY <2>2, <2>3, <2>4 DEF Lineage
  <1>7. ExchangedOnce'
    BY <1>1, <1>2 DEF Lineage, TypeOK, Minted, ExchangedOnce
  <1>8. OneUnspent'
    <2>1. \A i \in stored : i \in 1 .. lastId /\ family'[i] = family[i] /\ family[i] # n
      BY <1>1, DrawnId DEF Issue, Lineage
    <2> QED
      BY <2>1, <1>1, <1>2 DEF TypeOK, OneUnspent
  <1>9. Targets'
    BY <1>1 DEF Issue, Targets, Updating, process
  <1> QED
    BY <1>3, <1>4, <1>5, <1>6, <1>7, <1>8, <1>9

\* A rotation starts on a row nobody has locked, so no other rotation of the
\* same token is in flight.
LEMMA RotateSwapIndInv ==
  ASSUME IndInv, NEW p \in Requests, NEW i \in Ids, NEW genuine \in BOOLEAN,
         RotateSwap(p, i, genuine)
  PROVE  IndInv'
  <1> DEFINE n == lastId + 1
  <1> USE DEF IndInv
  <1>1. /\ lastId \in Nat /\ n \in Ids /\ lastId' = n
        /\ n \notin Minted /\ n \notin stored /\ parent[n] = NoId
        /\ family'[n] = family[i] /\ \A k \in Ids : k # n => family'[k] = family[k]
        /\ family[i] \in Ids => family' \in [Ids -> Ids \cup {NoId}]
        /\ expires' \in [Ids -> Int]
    BY DrawnId DEF RotateSwap
  <1>2. /\ p \in Procs /\ pc[p] = "idle"
        /\ i \in stored \ (rotated \cup revoked) /\ i \in Minted /\ i # n
        /\ \A q \in Procs \ {p} : i \notin locks[q]
    BY <1>1 DEF RotateSwap, Procs, CanLock, Swappable, Accepted, Lineage
  <1>3. /\ UNCHANGED <<stored, rotated, revoked, parent>>
        /\ pc' = [pc EXCEPT ![p] = "rotating"]
        /\ tok' = [tok EXCEPT ![p] = i]
        /\ new' = [new EXCEPT ![p] = n]
        /\ locks' = [locks EXCEPT ![p] = {i}]
    BY <1>1 DEF RotateSwap, table
  <1>4. i \in 1 .. lastId /\ family[i] \in Ids
    BY <1>1, <1>2 DEF Lineage, TypeOK
  <1>5. TypeOK'
    <2>1. family' \in [Ids -> Ids \cup {NoId}] /\ expires' \in [Ids -> Int]
      BY <1>1, <1>4
    <2>2. raced' \subseteq Ids
      BY <1>4 DEF RotateSwap, TypeOK
    <2>3. lastId' \in 0 .. MaxId
      BY DrawnId DEF RotateSwap
    <2>4. /\ pc' \in [Procs -> {"idle", "rotating", "replay", "logout", "sweep"} \cup Updating]
          /\ tok' \in [Procs -> Ids \cup {NoId}] /\ new' \in [Procs -> Ids \cup {NoId}]
          /\ locks' \in [Procs -> SUBSET Ids]
      BY <1>1, <1>2, <1>3 DEF TypeOK
    <2> QED
      BY <1>3, <2>1, <2>2, <2>3, <2>4 DEF RotateSwap, TypeOK
  <1>6. Locking'
    BY <1>2, <1>3 DEF Locking, TypeOK
  <1>7. InFlight'
    <2> SUFFICES ASSUME NEW q \in Procs, pc'[q] = "rotating"
                 PROVE  /\ tok'[q] \in locks'[q] \ (rotated' \cup revoked')
                        /\ new'[q] \in 1 .. lastId'
                        /\ parent'[new'[q]] = NoId
                        /\ family'[new'[q]] = family'[tok'[q]]
                        /\ \A r \in Procs : pc'[r] = "rotating" /\ r # q => new'[r] # new'[q]
      BY DEF InFlight
    <2>1. \A r \in Procs \ {p} : pc[r] = "rotating" => new[r] \in 1 .. lastId
      BY DEF InFlight
    <2>2. CASE q = p
      BY <2>1, <2>2, <1>1, <1>2, <1>3 DEF TypeOK
    <2>3. CASE q # p
      <3>1. pc[q] = "rotating" /\ tok'[q] = tok[q] /\ new'[q] = new[q] /\ locks'[q] = locks[q]
        BY <2>3, <1>3, <1>2 DEF TypeOK
      <3>2. tok[q] \in stored /\ tok[q] # n /\ new[q] # n
        BY <3>1, <2>1, <2>3, <1>1 DEF InFlight, Locking
      <3>3. \A r \in Procs : pc'[r] = "rotating" /\ r # q => new'[r] # new'[q]
        BY <3>1, <3>2, <1>2, <1>3 DEF InFlight, TypeOK
      <3>4. tok[q] \in locks[q] \ (rotated \cup revoked) /\ new[q] \in 1 .. lastId
            /\ parent[new[q]] = NoId /\ family[new[q]] = family[tok[q]]
        BY <3>1 DEF InFlight
      <3>5. /\ family'[new[q]] = family[new[q]] /\ family'[tok[q]] = family[tok[q]]
            /\ new[q] \in 1 .. lastId'
        BY <3>2, <3>4, DrawnId DEF RotateSwap
      <3> QED
        BY <3>1, <3>3, <3>4, <3>5, <1>3
    <2> QED
      BY <2>2, <2>3
  <1>8. Lineage'
    <2>1. \A k \in 1 .. lastId' : family'[k] \in 1 .. lastId'
      BY <1>1, <1>4, DrawnId DEF RotateSwap, Lineage
    <2>2. Minted' = Minted
      BY <1>3 DEF Minted
    <2> QED
      BY <2>1, <2>2, <1>1, <1>3 DEF Lineage
  <1>9. ExchangedOnce'
    BY <1>3 DEF Minted, ExchangedOnce
  <1>10. OneUnspent'
    BY <1>3, DrawnId DEF RotateSwap, OneUnspent
  <1>11. Targets'
    <2>1. /\ pc'[p] = "rotating"
          /\ \A q \in Procs \ {p} : pc'[q] = pc[q] /\ tok'[q] = tok[q]
      BY <1>2, <1>3 DEF TypeOK
    <2> QED
      BY <2>1, <1>1 DEF Targets, Updating
  <1> QED
    BY <1>5, <1>6, <1>7, <1>8, <1>9, <1>10, <1>11

\* Steps that only move processes about: no row, id or lineage changes, no new
\* rotation starts, and what a process locks is stored and locked by nobody else.
LEMMA ProcessStep ==
  ASSUME IndInv, UNCHANGED <<table, ids, parent>>,
         NEW p \in Procs, NEW L \in SUBSET stored,
         pc' \in [Procs -> {"idle", "rotating", "replay", "logout", "sweep"} \cup Updating],
         tok' \in [Procs -> Ids \cup {NoId}], new' \in [Procs -> Ids \cup {NoId}],
         todo' \in [Procs -> SUBSET Ids],
         held' \subseteq Ids, now' \in Nat,
         loggedOut' \subseteq Ids, reused' \subseteq Ids, raced' \subseteq Ids,
         pc'[p] # "rotating",
         pc'[p] \in {"replay", "logout"} \cup Updating => tok'[p] \in 1 .. lastId,
         locks' = [locks EXCEPT ![p] = L],
         \A i \in L : CanLock(p, i) \/ i \in locks[p],
         \A q \in Procs \ {p} : pc'[q] = pc[q] /\ tok'[q] = tok[q] /\ new'[q] = new[q]
  PROVE  IndInv'
  <1> USE DEF IndInv
  <1>1. TypeOK'
    BY DEF TypeOK, table, ids
  <1>2. locks'[p] = L /\ \A q \in Procs \ {p} : locks'[q] = locks[q]
    BY DEF TypeOK
  <1>3. Locking'
    BY <1>2 DEF Locking, CanLock, table
  <1>4. InFlight'
    <2> SUFFICES ASSUME NEW q \in Procs, pc'[q] = "rotating"
                 PROVE  /\ tok'[q] \in locks'[q] \ (rotated' \cup revoked')
                        /\ new'[q] \in 1 .. lastId'
                        /\ parent'[new'[q]] = NoId
                        /\ family'[new'[q]] = family'[tok'[q]]
                        /\ \A r \in Procs : pc'[r] = "rotating" /\ r # q => new'[r] # new'[q]
      BY DEF InFlight
    <2>1. q # p /\ pc[q] = "rotating" /\ tok'[q] = tok[q] /\ new'[q] = new[q]
      OBVIOUS
    <2>2. \A r \in Procs : pc'[r] = "rotating" => pc[r] = "rotating" /\ new'[r] = new[r]
      OBVIOUS
    <2> QED
      BY <2>1, <2>2, <1>2 DEF InFlight, table, ids
  <1>5. Lineage' /\ ExchangedOnce' /\ OneUnspent'
    BY DEF Lineage, ExchangedOnce, OneUnspent, Minted, table, ids
  <1>6. Targets'
    BY DEF Targets, ids
  <1> QED
    BY <1>1, <1>3, <1>4, <1>5, <1>6

\* A replay is detected, a logout looks its token up, a family update starts or
\* locks one more row, RunGC's DELETE does the same, or a transaction fails.
LEMMA RotateReplayIndInv ==
  ASSUME IndInv, NEW p \in Requests, NEW i \in Ids, NEW genuine \in BOOLEAN,
         RotateReplay(p, i, genuine)
  PROVE  IndInv'
  <1> DEFINE L == {i}
  <1>1. /\ p \in Procs /\ locks' = [locks EXCEPT ![p] = L] /\ L \in SUBSET stored
        /\ \A k \in L : CanLock(p, k) \/ k \in locks[p]
    BY DEF Procs, RotateReplay, Replayed, Accepted, IndInv, TypeOK, Locking
  <1> HIDE DEF L
  <1>2. /\ pc' \in [Procs -> {"idle", "rotating", "replay", "logout", "sweep"} \cup Updating]
        /\ tok' \in [Procs -> Ids \cup {NoId}] /\ pc'[p] # "rotating"
        /\ new' \in [Procs -> Ids \cup {NoId}] /\ todo' \in [Procs -> SUBSET Ids]
        /\ \A q \in Procs \ {p} : pc'[q] = pc[q] /\ tok'[q] = tok[q] /\ new'[q] = new[q]
    BY <1>1 DEF RotateReplay, IndInv, TypeOK
  <1>3. /\ UNCHANGED <<table, ids, parent>>
        /\ held' \subseteq Ids /\ now' \in Nat
        /\ loggedOut' \subseteq Ids /\ reused' \subseteq Ids /\ raced' \subseteq Ids
    BY DEF RotateReplay, IndInv, TypeOK, history
  <1>4. tok'[p] \in 1 .. lastId
    BY <1>1 DEF RotateReplay, Replayed, Accepted, IndInv, TypeOK, Lineage
  <1> QED
    BY <1>1, <1>2, <1>3, <1>4, ProcessStep

\* Revoke reads the row and locks nothing.
LEMMA RevokeLookupIndInv ==
  ASSUME IndInv, NEW p \in Requests, NEW i \in Ids, NEW genuine \in BOOLEAN,
         RevokeLookup(p, i, genuine)
  PROVE  IndInv'
  <1> DEFINE L == locks[p]
  <1>1. /\ p \in Procs /\ locks' = [locks EXCEPT ![p] = L] /\ L \in SUBSET stored
        /\ \A k \in L : CanLock(p, k) \/ k \in locks[p]
    BY DEF Procs, RevokeLookup, IndInv, TypeOK, Locking
  <1> HIDE DEF L
  <1>2. /\ pc' \in [Procs -> {"idle", "rotating", "replay", "logout", "sweep"} \cup Updating]
        /\ tok' \in [Procs -> Ids \cup {NoId}] /\ pc'[p] # "rotating"
        /\ new' \in [Procs -> Ids \cup {NoId}] /\ todo' \in [Procs -> SUBSET Ids]
        /\ \A q \in Procs \ {p} : pc'[q] = pc[q] /\ tok'[q] = tok[q] /\ new'[q] = new[q]
    BY <1>1 DEF RevokeLookup, IndInv, TypeOK
  <1>3. /\ UNCHANGED <<table, ids, parent>>
        /\ held' \subseteq Ids /\ now' \in Nat
        /\ loggedOut' \subseteq Ids /\ reused' \subseteq Ids /\ raced' \subseteq Ids
    BY DEF RevokeLookup, IndInv, TypeOK, history
  <1>4. tok'[p] \in 1 .. lastId
    BY <1>1 DEF RevokeLookup, IndInv, TypeOK, Lineage
  <1> QED
    BY <1>1, <1>2, <1>3, <1>4, ProcessStep

\* The snapshot of a family update locks nothing.
LEMMA FamilyScanIndInv ==
  ASSUME IndInv, NEW p \in Requests, FamilyScan(p)
  PROVE  IndInv'
  <1> DEFINE L == locks[p]
  <1>1. /\ p \in Procs /\ locks' = [locks EXCEPT ![p] = L] /\ L \in SUBSET stored
        /\ \A k \in L : CanLock(p, k) \/ k \in locks[p]
    BY DEF Procs, FamilyScan, IndInv, TypeOK, Locking
  <1> HIDE DEF L
  <1>2. /\ pc' \in [Procs -> {"idle", "rotating", "replay", "logout", "sweep"} \cup Updating]
        /\ pc'[p] # "rotating"
        /\ \A q \in Procs \ {p} : pc'[q] = pc[q] /\ tok'[q] = tok[q] /\ new'[q] = new[q]
    BY <1>1 DEF FamilyScan, IndInv, TypeOK, Updating
  <1>3. /\ tok' \in [Procs -> Ids \cup {NoId}] /\ new' \in [Procs -> Ids \cup {NoId}]
        /\ todo' \in [Procs -> SUBSET Ids]
    BY <1>1 DEF FamilyScan, LiveRows, IndInv, TypeOK
  <1>4. raced' \subseteq Ids
    <2>1. \A q \in Procs : pc[q] = "rotating" => family[tok[q]] \in Ids
      BY DEF IndInv, TypeOK, Locking, InFlight, Lineage
    <2> QED
      BY <2>1 DEF FamilyScan, IndInv, TypeOK
  <1>5. /\ UNCHANGED <<table, ids, parent>>
        /\ held' \subseteq Ids /\ now' \in Nat
        /\ loggedOut' \subseteq Ids /\ reused' \subseteq Ids
    BY DEF FamilyScan, IndInv, TypeOK
  <1>6. tok'[p] \in 1 .. lastId
    BY <1>1 DEF FamilyScan, IndInv, Targets
  <1> QED
    BY <1>1, <1>2, <1>3, <1>4, <1>5, <1>6, ProcessStep

\* A family update locks a row that is there and nobody holds.
LEMMA FamilyVisitIndInv ==
  ASSUME IndInv, NEW p \in Requests, NEW i \in Ids, FamilyVisit(p, i)
  PROVE  IndInv'
  <1> DEFINE L == locks[p] \cup ({i} \cap (stored \ revoked))
  <1>1. p \in Procs /\ locks' = [locks EXCEPT ![p] = L] /\ L \in SUBSET stored
    BY DEF Procs, FamilyVisit, IndInv, TypeOK, Locking
  <1> HIDE DEF L
  <1>2. \A k \in L : CanLock(p, k) \/ k \in locks[p]
    BY DEF L, FamilyVisit
  <1>3. tok'[p] \in 1 .. lastId
    BY <1>1 DEF FamilyVisit, IndInv, Targets
  <1> QED
    BY <1>1, <1>2, <1>3, ProcessStep DEF FamilyVisit, IndInv, TypeOK, history, Updating

\* The snapshot of the sweep locks nothing.
LEMMA GCScanIndInv ==
  ASSUME IndInv, GCScan
  PROVE  IndInv'
  <1>1. /\ Collector \in Procs /\ locks' = [locks EXCEPT ![Collector] = locks[Collector]]
        /\ locks[Collector] \in SUBSET stored
    BY DEF Procs, GCScan, IndInv, TypeOK, Locking
  <1> QED
    BY <1>1, ProcessStep DEF GCScan, IndInv, TypeOK, history, Updating

\* The sweep locks a row that is there and nobody holds.
LEMMA GCVisitIndInv ==
  ASSUME IndInv, NEW i \in Ids, GCVisit(i)
  PROVE  IndInv'
  <1> DEFINE L == locks[Collector] \cup ({i} \cap stored)
  <1>1. /\ Collector \in Procs /\ locks' = [locks EXCEPT ![Collector] = L]
        /\ L \in SUBSET stored
    BY DEF Procs, GCVisit, IndInv, TypeOK, Locking
  <1> HIDE DEF L
  <1>2. \A k \in L : CanLock(Collector, k) \/ k \in locks[Collector]
    BY DEF L, GCVisit
  <1> QED
    BY <1>1, <1>2, ProcessStep DEF GCVisit, IndInv, TypeOK, history, Updating

\* A rollback leaves the rows as they were and frees its locks.
LEMMA RollbackIndInv ==
  ASSUME IndInv, NEW p \in Procs, Rollback(p)
  PROVE  IndInv'
  <1>1. locks' = [locks EXCEPT ![p] = {}] /\ {} \in SUBSET stored
    BY DEF Rollback, Finish
  <1>2. /\ pc' \in [Procs -> {"idle", "rotating", "replay", "logout", "sweep"} \cup Updating]
        /\ tok' \in [Procs -> Ids \cup {NoId}] /\ new' \in [Procs -> Ids \cup {NoId}]
        /\ todo' \in [Procs -> SUBSET Ids]
        /\ pc'[p] = "idle"
    BY DEF Rollback, Finish, IndInv, TypeOK
  <1>3. \A q \in Procs \ {p} : pc'[q] = pc[q] /\ tok'[q] = tok[q] /\ new'[q] = new[q]
    BY DEF Rollback, Finish, IndInv, TypeOK
  <1>4. pc'[p] \notin {"rotating", "replay", "logout"} \cup Updating
    BY <1>2 DEF Updating
  <1>5. /\ UNCHANGED <<table, ids, parent>>
        /\ held' \subseteq Ids /\ now' \in Nat
        /\ loggedOut' \subseteq Ids /\ reused' \subseteq Ids /\ raced' \subseteq Ids
    BY DEF Rollback, IndInv, TypeOK, history
  <1> QED
    BY <1>1, <1>2, <1>3, <1>4, <1>5, ProcessStep

\* The commit of a rotation: its token is marked as spent in the same step that
\* makes the successor visible.
LEMMA RotateCommitIndInv ==
  ASSUME IndInv, NEW p \in Requests, RotateCommit(p)
  PROVE  IndInv'
  <1> DEFINE t == tok[p]
             n == new[p]
  <1> USE DEF IndInv
  <1>1. /\ p \in Procs /\ pc[p] = "rotating"
        /\ t \in stored \ (rotated \cup revoked) /\ t \in locks[p]
        /\ n \in 1 .. lastId /\ n \in Ids /\ n \notin Minted /\ n \notin stored
        /\ t \in Minted /\ t \in Ids /\ t # n /\ family[n] = family[t]
    BY DEF Procs, RotateCommit, InFlight, Locking, Lineage, Minted, TypeOK
  <1>2. /\ stored' = stored \cup {n} /\ rotated' = rotated \cup {t}
        /\ parent'[n] = t /\ \A i \in Ids : i # n => parent'[i] = parent[i]
        /\ UNCHANGED <<revoked, family, expires, lastId, now, loggedOut, reused, raced>>
        /\ Minted' = Minted \cup {n}
    BY <1>1 DEF RotateCommit, ids, Minted, TypeOK
  <1>3. /\ pc' = [pc EXCEPT ![p] = "idle"] /\ tok' = [tok EXCEPT ![p] = NoId]
        /\ new' = [new EXCEPT ![p] = NoId] /\ todo' = [todo EXCEPT ![p] = {}]
        /\ locks' = [locks EXCEPT ![p] = {}]
    BY DEF RotateCommit, Finish
  <1>4. TypeOK'
    <2>1. parent' \in [Ids -> Ids \cup {NoId}] /\ held' \subseteq Ids
      BY <1>1 DEF RotateCommit, Deliver, TypeOK
    <2>2. /\ pc' \in [Procs -> {"idle", "rotating", "replay", "logout", "sweep"} \cup Updating]
          /\ tok' \in [Procs -> Ids \cup {NoId}] /\ new' \in [Procs -> Ids \cup {NoId}]
          /\ todo' \in [Procs -> SUBSET Ids] /\ locks' \in [Procs -> SUBSET Ids]
      BY <1>3 DEF TypeOK
    <2> QED
      BY <1>1, <1>2, <2>1, <2>2 DEF TypeOK
  <1>5. Locking'
    BY <1>2, <1>3 DEF Locking, TypeOK
  <1>6. InFlight'
    <2> SUFFICES ASSUME NEW q \in Procs, pc'[q] = "rotating"
                 PROVE  /\ tok'[q] \in locks'[q] \ (rotated' \cup revoked')
                        /\ new'[q] \in 1 .. lastId'
                        /\ parent'[new'[q]] = NoId
                        /\ family'[new'[q]] = family'[tok'[q]]
                        /\ \A r \in Procs : pc'[r] = "rotating" /\ r # q => new'[r] # new'[q]
      BY DEF InFlight
    <2>1. /\ q # p /\ pc[q] = "rotating" /\ tok'[q] = tok[q] /\ new'[q] = new[q]
          /\ locks'[q] = locks[q]
      BY <1>1, <1>3 DEF TypeOK
    <2>2. \A r \in Procs : pc'[r] = "rotating" => pc[r] = "rotating" /\ new'[r] = new[r]
      BY <1>1, <1>3 DEF TypeOK
    <2>3. tok[q] # t
      BY <2>1, <1>1 DEF InFlight, Locking
    <2>4. new[q] # n /\ new[q] \in Ids
      BY <2>1, <1>1 DEF InFlight, TypeOK
    <2> QED
      BY <2>1, <2>2, <2>3, <2>4, <1>2 DEF InFlight
  <1>7. Lineage'
    BY <1>1, <1>2 DEF Lineage, Minted
  <1>8. ExchangedOnce'
    <2>1. \A k \in Minted : parent[k] = t => k = t
      BY <1>1 DEF Lineage
    <2> QED
      BY <2>1, <1>1, <1>2 DEF ExchangedOnce, Minted, Lineage
  <1>9. OneUnspent'
    BY <1>1, <1>2 DEF OneUnspent
  <1>10. Targets'
    <2>1. \A q \in Procs : pc'[q] # "idle" => pc'[q] = pc[q] /\ tok'[q] = tok[q]
      BY <1>1, <1>3 DEF TypeOK
    <2> QED
      BY <2>1, <1>2 DEF Targets, Updating
  <1> QED
    BY <1>4, <1>5, <1>6, <1>7, <1>8, <1>9, <1>10

\* A family update revokes rows it has locked, so no rotation in flight loses
\* the row it read.
LEMMA FamilyCommitIndInv ==
  ASSUME IndInv, NEW p \in Requests, FamilyCommit(p)
  PROVE  IndInv'
  <1> USE DEF IndInv
  <1>1. p \in Procs /\ pc[p] \in Updating /\ pc[p] # "rotating"
    BY DEF Procs, FamilyCommit, Updating
  <1>2. /\ revoked' = revoked \cup locks[p]
        /\ UNCHANGED <<stored, rotated, family, expires, lastId, held, parent, raced, now>>
    BY DEF FamilyCommit, ids
  <1>3. /\ pc' = [pc EXCEPT ![p] = "idle"] /\ tok' = [tok EXCEPT ![p] = NoId]
        /\ new' = [new EXCEPT ![p] = NoId] /\ todo' = [todo EXCEPT ![p] = {}]
        /\ locks' = [locks EXCEPT ![p] = {}]
    BY DEF FamilyCommit, Finish
  <1>4. TypeOK'
    <2>1. /\ pc' \in [Procs -> {"idle", "rotating", "replay", "logout", "sweep"} \cup Updating]
          /\ tok' \in [Procs -> Ids \cup {NoId}] /\ new' \in [Procs -> Ids \cup {NoId}]
          /\ todo' \in [Procs -> SUBSET Ids] /\ locks' \in [Procs -> SUBSET Ids]
      BY <1>3 DEF TypeOK
    <2>2. revoked' \subseteq stored
      BY <1>1, <1>2 DEF Locking, TypeOK
    <2>3. loggedOut' \subseteq Ids /\ reused' \subseteq Ids
      <3>1. family[tok[p]] \in Ids
        BY <1>1 DEF Targets, Lineage, TypeOK
      <3> QED
        BY <3>1 DEF FamilyCommit, TypeOK
    <2> QED
      BY <1>2, <2>1, <2>2, <2>3 DEF TypeOK
  <1>5. Locking'
    BY <1>2, <1>3 DEF Locking, TypeOK
  <1>6. InFlight'
    <2> SUFFICES ASSUME NEW q \in Procs, pc'[q] = "rotating"
                 PROVE  /\ tok'[q] \in locks'[q] \ (rotated' \cup revoked')
                        /\ new'[q] \in 1 .. lastId'
                        /\ parent'[new'[q]] = NoId
                        /\ family'[new'[q]] = family'[tok'[q]]
                        /\ \A r \in Procs : pc'[r] = "rotating" /\ r # q => new'[r] # new'[q]
      BY DEF InFlight
    <2>1. /\ q # p /\ pc[q] = "rotating" /\ tok'[q] = tok[q] /\ new'[q] = new[q]
          /\ locks'[q] = locks[q]
      BY <1>1, <1>3 DEF TypeOK
    <2>2. \A r \in Procs : pc'[r] = "rotating" => pc[r] = "rotating" /\ new'[r] = new[r]
      BY <1>1, <1>3 DEF TypeOK
    <2>3. tok[q] \notin locks[p]
      BY <2>1, <1>1 DEF InFlight, Locking
    <2> QED
      BY <2>1, <2>2, <2>3, <1>2 DEF InFlight
  <1>7. Lineage' /\ ExchangedOnce' /\ OneUnspent'
    BY <1>2 DEF Lineage, Minted, ExchangedOnce, OneUnspent
  <1>8. Targets'
    <2>1. \A q \in Procs : pc'[q] # "idle" => pc'[q] = pc[q] /\ tok'[q] = tok[q]
      BY <1>1, <1>3 DEF TypeOK
    <2> QED
      BY <2>1, <1>2 DEF Targets, Updating
  <1> QED
    BY <1>4, <1>5, <1>6, <1>7, <1>8

\* RunGC deletes rows it has locked; it never turns a spent row into an unspent
\* one.
LEMMA GCCommitIndInv ==
  ASSUME IndInv, GCCommit
  PROVE  IndInv'
  <1> DEFINE L == locks[Collector]
  <1> USE DEF IndInv
  <1>1. Collector \in Procs /\ pc[Collector] = "sweep"
    BY DEF Procs, GCCommit
  <1>2. /\ stored' = stored \ L /\ rotated' = rotated \ L /\ revoked' = revoked \ L
        /\ UNCHANGED <<family, expires, lastId, held, parent, loggedOut, reused, raced, now>>
    BY DEF GCCommit, ids, history
  <1>3. /\ pc' = [pc EXCEPT ![Collector] = "idle"] /\ tok' = [tok EXCEPT ![Collector] = NoId]
        /\ new' = [new EXCEPT ![Collector] = NoId] /\ todo' = [todo EXCEPT ![Collector] = {}]
        /\ locks' = [locks EXCEPT ![Collector] = {}]
    BY DEF GCCommit, Finish
  <1>4. TypeOK'
    <2>1. /\ pc' \in [Procs -> {"idle", "rotating", "replay", "logout", "sweep"} \cup Updating]
          /\ tok' \in [Procs -> Ids \cup {NoId}] /\ new' \in [Procs -> Ids \cup {NoId}]
          /\ todo' \in [Procs -> SUBSET Ids] /\ locks' \in [Procs -> SUBSET Ids]
      BY <1>3 DEF TypeOK
    <2> QED
      BY <1>2, <2>1 DEF TypeOK
  <1>5. \A q \in Procs : locks'[q] \subseteq locks[q]
                         /\ (q # Collector => locks'[q] = locks[q] /\ locks[q] \cap L = {})
    BY <1>1, <1>3 DEF Locking, TypeOK
  <1>6. Locking'
    <2>1. \A q \in Procs : locks'[q] \subseteq stored'
      <3> SUFFICES ASSUME NEW q \in Procs PROVE locks'[q] \subseteq stored'
        OBVIOUS
      <3>1. CASE q = Collector
        BY <3>1, <1>3 DEF TypeOK
      <3>2. CASE q # Collector
        BY <3>2, <1>2, <1>5 DEF Locking
      <3> QED
        BY <3>1, <3>2
    <2> QED
      BY <2>1, <1>5 DEF Locking
  <1>7. InFlight'
    <2> SUFFICES ASSUME NEW q \in Procs, pc'[q] = "rotating"
                 PROVE  /\ tok'[q] \in locks'[q] \ (rotated' \cup revoked')
                        /\ new'[q] \in 1 .. lastId'
                        /\ parent'[new'[q]] = NoId
                        /\ family'[new'[q]] = family'[tok'[q]]
                        /\ \A r \in Procs : pc'[r] = "rotating" /\ r # q => new'[r] # new'[q]
      BY DEF InFlight
    <2>1. /\ q # Collector /\ pc[q] = "rotating" /\ tok'[q] = tok[q] /\ new'[q] = new[q]
          /\ locks'[q] = locks[q]
      BY <1>1, <1>3 DEF TypeOK
    <2>2. \A r \in Procs : pc'[r] = "rotating" => pc[r] = "rotating" /\ new'[r] = new[r]
      BY <1>1, <1>3 DEF TypeOK
    <2> QED
      BY <2>1, <2>2, <1>2 DEF InFlight
  <1>8. Lineage'
    BY <1>2 DEF Lineage, Minted
  <1>9. ExchangedOnce' /\ OneUnspent'
    BY <1>2 DEF Minted, ExchangedOnce, OneUnspent
  <1>10. Targets'
    <2>1. \A q \in Procs : pc'[q] # "idle" => pc'[q] = pc[q] /\ tok'[q] = tok[q]
      BY <1>1, <1>3 DEF TypeOK
    <2> QED
      BY <2>1, <1>2 DEF Targets, Updating
  <1> QED
    BY <1>4, <1>6, <1>7, <1>8, <1>9, <1>10

\* Every step of the store preserves the inductive invariant.
LEMMA NextIndInv == IndInv /\ [Next]_vars => IndInv'
  <1> SUFFICES ASSUME IndInv, [Next]_vars PROVE IndInv'
    OBVIOUS
  <1>1. CASE UNCHANGED vars
    BY <1>1 DEF vars, table, process, ids, history, IndInv, TypeOK, Locking, InFlight,
      Targets, Lineage, Minted, ExchangedOnce, OneUnspent
  <1>2. ASSUME NEW p \in Requests, Issue(p) PROVE IndInv'
    BY <1>2, IssueIndInv
  <1>3. ASSUME NEW p \in Requests, Rotate(p) PROVE IndInv'
    BY <1>1, <1>3, RotateSwapIndInv, RotateReplayIndInv, RotateCommitIndInv
      DEF Rotate, RotateRefuse
  <1>4. ASSUME NEW p \in Requests, Revoke(p) PROVE IndInv'
    BY <1>1, <1>4, RevokeLookupIndInv DEF Revoke, RevokeIgnore
  <1>5. ASSUME NEW p \in Requests, FamilyUpdate(p) PROVE IndInv'
    BY <1>5, FamilyScanIndInv, FamilyVisitIndInv, FamilyCommitIndInv DEF FamilyUpdate
  <1>6. CASE RunGC
    BY <1>6, GCScanIndInv, GCVisitIndInv, GCCommitIndInv DEF RunGC
  <1>7. ASSUME NEW p \in Procs, Abort(p) \/ DeadlockVictim(p) PROVE IndInv'
    BY <1>7, RollbackIndInv DEF Abort, DeadlockVictim
  <1>8. CASE Tick
    <2>1. now' \in Nat
      BY <1>8 DEF Tick, IndInv, TypeOK
    <2> QED
      BY <1>8, <2>1 DEF Tick, table, process, ids, history, IndInv, TypeOK, Locking,
        InFlight, Targets, Lineage, Minted, ExchangedOnce, OneUnspent
  <1> QED
    BY <1>1, <1>2, <1>3, <1>4, <1>5, <1>6, <1>7, <1>8 DEF Next

\* The inductive invariant holds in every reachable state.
THEOREM Invariance == Spec => []IndInv
  BY InitIndInv, NextIndInv, PTL DEF Spec

\* Every variable keeps its type.
THEOREM TypeCorrect == Spec => []TypeOK
  <1>1. IndInv => TypeOK
    BY DEF IndInv
  <1> QED
    BY <1>1, Invariance, PTL

\* Rotate never exchanges a token twice, whatever the number of requests that
\* present it and whichever of them fail.
THEOREM NeverExchangedTwice == Spec => []ExchangedOnce
  <1>1. IndInv => ExchangedOnce
    BY DEF IndInv
  <1> QED
    BY <1>1, Invariance, PTL

\* A session never has two rows that are not spent.
THEOREM NeverTwoUnspent == Spec => []OneUnspent
  <1>1. IndInv => OneUnspent
    BY DEF IndInv
  <1> QED
    BY <1>1, Invariance, PTL

\* Steps that leave the rows and the lineage alone are invisible to SessionChain,
\* drawing an id included: the id belongs to no session until its row commits.
LEMMA InvisibleStep ==
  ASSUME IndInv, UNCHANGED <<stored, rotated, revoked, parent>>,
         \A i \in Minted : family'[i] = family[i]
  PROVE  UNCHANGED Chain!vars
  BY DEF Chain!vars, Minted

\* One step of the store is one step of SessionChain or none.
LEMMA StepRefines ==
  ASSUME IndInv, [Next]_vars
  PROVE  [Chain!Next]_Chain!vars
  <1> DEFINE ses == [i \in Ids |-> IF parent[i] = NoId THEN NoId ELSE family[i]]
             tips == stored \ (rotated \cup revoked)
  <1> USE DEF IndInv
  <1>1. CASE UNCHANGED vars
    BY <1>1, InvisibleStep DEF vars, table, ids, history
  <1>2. ASSUME NEW p \in Requests, Issue(p) PROVE Chain!Next
    <2> DEFINE n == lastId + 1
    <2>1. /\ n \in Ids /\ n \notin Minted /\ n \notin stored /\ parent[n] = NoId
          /\ lastId' = n /\ family'[n] = n /\ \A i \in Ids : i # n => family'[i] = family[i]
      BY <1>2, DrawnId DEF Issue
    <2>2. /\ stored' = stored \cup {n} /\ rotated' = rotated /\ revoked' = revoked
          /\ parent'[n] = n /\ \A i \in Ids : i # n => parent'[i] = parent[i]
      BY <1>2, <2>1 DEF Issue, TypeOK
    <2>3. tips' = tips \cup {n}
      BY <2>1, <2>2 DEF TypeOK
    <2>4. ses' = [ses EXCEPT ![n] = n]
      BY <2>1, <2>2
    <2>5. ses[n] = NoId
      BY <2>1
    <2>6. \E k \in Ids : Chain!Open(k)
      BY <2>1, <2>3, <2>4, <2>5 DEF Chain!Open, Chain!Minted
    <2> QED
      BY <2>6 DEF Chain!Next
  <1>3. ASSUME NEW p \in Requests, RotateCommit(p) PROVE Chain!Next
    <2> DEFINE t == tok[p]
               n == new[p]
    <2>1. /\ p \in Procs /\ t \in tips /\ n \in Ids /\ n \notin Minted /\ n \notin stored
          /\ t \in Minted /\ t \in Ids /\ t # n /\ family[n] = family[t]
          /\ parent[n] = NoId /\ parent[t] # NoId
      BY <1>3 DEF Procs, RotateCommit, InFlight, Locking, Lineage, Minted, TypeOK
    <2>2. /\ stored' = stored \cup {n} /\ rotated' = rotated \cup {t}
          /\ parent'[n] = t /\ \A i \in Ids : i # n => parent'[i] = parent[i]
          /\ revoked' = revoked /\ family' = family
      BY <1>3, <2>1 DEF RotateCommit, ids, TypeOK
    <2>3. tips' = (tips \ {t}) \cup {n}
      BY <2>1, <2>2 DEF TypeOK
    <2>4. ses[n] = NoId /\ ses[t] = family[t]
      BY <2>1
    <2>5. ses' = [ses EXCEPT ![n] = ses[t]]
      BY <2>1, <2>2, <2>4
    <2>6. \E k, m \in Ids : Chain!Advance(k, m)
      BY <2>1, <2>3, <2>4, <2>5 DEF Chain!Advance, Chain!Minted
    <2> QED
      BY <2>6 DEF Chain!Next
  <1>4. ASSUME NEW p \in Requests, FamilyCommit(p) PROVE Chain!Next
    <2> DEFINE S == locks[p] \cap tips
    <2>1. ses' = ses /\ tips' = tips \ S /\ S \in SUBSET Ids
      BY <1>4 DEF FamilyCommit, ids, TypeOK
    <2> QED
      BY <2>1 DEF Chain!Next, Chain!Close
  <1>5. CASE GCCommit
    <2> DEFINE S == locks[Collector] \cap tips
    <2>1. ses' = ses /\ tips' = tips \ S /\ S \in SUBSET Ids
      BY <1>5 DEF GCCommit, ids, history, TypeOK
    <2> QED
      BY <2>1 DEF Chain!Next, Chain!Close
  <1>6. ASSUME NEW p \in Requests, NEW i \in Ids, NEW genuine \in BOOLEAN,
               RotateSwap(p, i, genuine)
        PROVE  UNCHANGED Chain!vars
    <2>1. \A k \in Minted : family'[k] = family[k]
      BY <1>6, DrawnId DEF RotateSwap, Minted
    <2> QED
      BY <1>6, <2>1, InvisibleStep DEF RotateSwap, table
  <1>7. ASSUME UNCHANGED <<table, ids, parent>> PROVE UNCHANGED Chain!vars
    BY <1>7, InvisibleStep DEF table, ids
  <1>8. ASSUME NEW p \in Requests, Rotate(p) PROVE [Chain!Next]_Chain!vars
    BY <1>8, <1>1, <1>3, <1>6, <1>7 DEF Rotate, RotateRefuse, RotateReplay, history
  <1>9. ASSUME NEW p \in Requests, Revoke(p) PROVE [Chain!Next]_Chain!vars
    BY <1>9, <1>1, <1>7 DEF Revoke, RevokeLookup, RevokeIgnore, history
  <1>10. ASSUME NEW p \in Requests, FamilyUpdate(p) PROVE [Chain!Next]_Chain!vars
    BY <1>10, <1>4, <1>7 DEF FamilyUpdate, FamilyScan, FamilyVisit, history
  <1>11. CASE RunGC
    BY <1>11, <1>5, <1>7 DEF RunGC, GCScan, GCVisit, history
  <1>12. ASSUME NEW p \in Procs, Abort(p) \/ DeadlockVictim(p)
         PROVE  [Chain!Next]_Chain!vars
    BY <1>12, <1>7 DEF Abort, DeadlockVictim, Rollback, history
  <1>13. CASE Tick
    BY <1>13, <1>7 DEF Tick, history
  <1> QED
    BY <1>1, <1>2, <1>8, <1>9, <1>10, <1>11, <1>12, <1>13 DEF Next

\* Table, locks and concurrent transactions implement a chain of tokens with at
\* most one good token per session.
THEOREM Refinement == Spec => ImplementsChain
  <1>1. Init => Chain!Init
    BY DEF Init, Chain!Init
  <1> QED
    BY <1>1, StepRefines, Invariance, PTL DEF Spec, ImplementsChain, Chain!Spec

------------------------------------------------------------------------------
(* How sessions end: the inductive invariant SessionInv.                      *)

\* The initial table is empty and no session has ended.
LEMMA InitSessionInv == Init => SessionInv
  <1> SUFFICES ASSUME Init PROVE SessionInv
    OBVIOUS
  <1>1. Statements
    BY DEF Init, Statements, Procs
  <1>2. Fates
    BY DEF Init, Fates, Ended, Minted
  <1>3. QuietEnds
    BY DEF Init, QuietEnds, Ended, Updating, Procs
  <1> QED
    BY <1>1, <1>2, <1>3, InitIndInv DEF SessionInv

\* A process whose transaction ends, or that has not begun one.
LEMMA FinishStatements ==
  ASSUME TypeOK, NEW p \in Procs, Finish(p)
  PROVE  /\ pc'[p] = "idle" /\ locks'[p] = {} /\ todo'[p] = {}
         /\ \A q \in Procs \ {p} : /\ pc'[q] = pc[q] /\ tok'[q] = tok[q]
                                   /\ locks'[q] = locks[q] /\ todo'[q] = todo[q]
  BY DEF Finish, TypeOK

\* Rows that a process holds or will visit have drawn ids, and so has the token
\* the process was given: what is drawn later changes neither's family.
LEMMA DrawnWork ==
  ASSUME IndInv, Statements, NEW p \in Requests
  PROVE  /\ locks[p] \cup todo[p] \subseteq 1 .. lastId
         /\ pc[p] # "idle" => tok[p] \in 1 .. lastId
  <1> USE DEF IndInv
  <1>1. p \in Procs
    BY DEF Procs
  <1>2. locks[p] \subseteq 1 .. lastId
    BY <1>1 DEF Locking, Lineage
  <1>3. todo[p] \subseteq 1 .. lastId
    BY DEF Statements
  <1>4. ASSUME pc[p] = "rotating" PROVE tok[p] \in 1 .. lastId
    BY <1>1, <1>2, <1>4 DEF InFlight
  <1>5. ASSUME pc[p] # "idle", pc[p] # "rotating" PROVE tok[p] \in 1 .. lastId
    BY <1>1, <1>5 DEF Targets, TypeOK, Statements
  <1> QED
    BY <1>2, <1>3, <1>4, <1>5

\* A step of a request that deletes no row, gives no drawn id another family or
\* expiry and turns no clock back leaves the other statements as they were.
LEMMA StatementsOfRequest ==
  ASSUME IndInv, Statements, NEW p \in Requests,
         lastId' \in Nat, lastId <= lastId',
         \A i \in 1 .. lastId : family'[i] = family[i] /\ expires'[i] = expires[i],
         UNCHANGED now, stored \subseteq stored', revoked \subseteq revoked',
         \A q \in Procs \ {p} : /\ pc'[q] = pc[q] /\ tok'[q] = tok[q]
                                /\ locks'[q] = locks[q] /\ todo'[q] = todo[q],
         pc'[p] # "sweep",
         pc'[p] = "idle" => locks'[p] = {} /\ todo'[p] = {},
         todo'[p] \subseteq 1 .. lastId,
         \A i \in locks'[p] \cup todo'[p] : family'[i] = family'[tok'[p]]
  PROVE  Statements'
  <1>1. Collector \in Procs \ {p} /\ Requests \subseteq Procs
    BY CollectorAssumption DEF Procs
  <1>2. \A i \in locks[Collector] \cup todo[Collector] : i \in stored' /\ Dead(i)'
    BY DEF Statements, Dead, IndInv, Lineage
  <1>3. \A q \in Requests \ {p} : \A i \in locks[q] \cup todo[q] : family'[i] = family'[tok'[q]]
    <2> SUFFICES ASSUME NEW q \in Requests \ {p}, NEW i \in locks[q] \cup todo[q]
                 PROVE  family'[i] = family'[tok'[q]]
      OBVIOUS
    <2>1. pc[q] # "idle" /\ family[i] = family[tok[q]]
      BY DEF Statements
    <2>2. i \in 1 .. lastId /\ tok[q] \in 1 .. lastId
      BY <2>1, DrawnWork
    <2> QED
      BY <1>1, <2>1, <2>2
  <1>4. \A q \in Requests : todo'[q] \subseteq 1 .. lastId'
    <2>1. 1 .. lastId \subseteq 1 .. lastId'
      BY DEF IndInv, TypeOK
    <2>2. \A q \in Requests : todo'[q] \subseteq 1 .. lastId
      BY <1>1 DEF Statements
    <2> QED
      BY <2>1, <2>2
  <1>5. pc'[Collector] \in {"idle", "sweep"}
        /\ locks'[Collector] = locks[Collector] /\ todo'[Collector] = todo[Collector]
    BY <1>1 DEF Statements
  <1>6. \A q \in Requests : /\ pc'[q] # "sweep"
                            /\ pc'[q] = "idle" => locks'[q] = {} /\ todo'[q] = {}
                            /\ \A i \in locks'[q] \cup todo'[q] : family'[i] = family'[tok'[q]]
    BY <1>1, <1>3 DEF Statements
  <1> QED
    BY <1>2, <1>4, <1>5, <1>6 DEF Statements

\* A step that only moves RunGC leaves the statements of the requests alone.
LEMMA StatementsOfCollector ==
  ASSUME IndInv, Statements, UNCHANGED <<family, expires, lastId, now>>,
         \A q \in Requests : /\ pc'[q] = pc[q] /\ tok'[q] = tok[q]
                             /\ locks'[q] = locks[q] /\ todo'[q] = todo[q],
         pc'[Collector] \in {"idle", "sweep"},
         \A i \in locks'[Collector] \cup todo'[Collector] : i \in stored' /\ Dead(i)'
  PROVE  Statements'
  BY DEF Statements

\* Every step keeps the statements on the rows they are meant for.
LEMMA NextStatements ==
  ASSUME IndInv, Statements, [Next]_vars
  PROVE  Statements'
  <1> USE DEF IndInv
  <1>0. Collector \in Procs /\ Requests = Procs \ {Collector}
    BY CollectorAssumption DEF Procs
  <1>1. CASE UNCHANGED vars
    BY <1>1 DEF vars, table, process, ids, Statements, Dead
  <1>2. ASSUME NEW p \in Requests, Issue(p) PROVE Statements'
    <2>1. /\ lastId \in Nat /\ lastId' = lastId + 1
          /\ \A i \in 1 .. lastId : family'[i] = family[i] /\ expires'[i] = expires[i]
      BY <1>2, DrawnId DEF Issue, DrawId, TypeOK
    <2>2. /\ UNCHANGED <<pc, tok, todo, locks, revoked, now>> /\ stored \subseteq stored'
          /\ pc[p] = "idle" /\ locks[p] = {} /\ todo[p] = {}
      BY <1>2 DEF Issue, process, Statements
    <2> QED
      BY <2>1, <2>2, StatementsOfRequest
  <1>3. ASSUME NEW p \in Requests, NEW i \in Ids, NEW genuine \in BOOLEAN,
               RotateSwap(p, i, genuine)
        PROVE  Statements'
    <2>1. /\ lastId \in Nat /\ lastId' = lastId + 1
          /\ \A k \in 1 .. lastId : family'[k] = family[k] /\ expires'[k] = expires[k]
      BY <1>3, DrawnId DEF RotateSwap, DrawId, TypeOK
    <2>2. /\ UNCHANGED <<stored, revoked, now>>
          /\ pc'[p] = "rotating" /\ locks'[p] = {i} /\ todo'[p] = {} /\ tok'[p] = i
          /\ \A q \in Procs \ {p} : /\ pc'[q] = pc[q] /\ tok'[q] = tok[q]
                                    /\ locks'[q] = locks[q] /\ todo'[q] = todo[q]
      BY <1>0, <1>3 DEF RotateSwap, table, TypeOK, Statements
    <2> QED
      BY <2>1, <2>2, StatementsOfRequest
  <1>4. ASSUME NEW p \in Requests, NEW i \in Ids, NEW genuine \in BOOLEAN,
               RotateReplay(p, i, genuine)
        PROVE  Statements'
    <2>1. /\ UNCHANGED <<stored, revoked, now, family, expires, lastId>> /\ lastId \in Nat
          /\ pc'[p] = "replay" /\ locks'[p] = {i} /\ todo'[p] = {} /\ tok'[p] = i
          /\ \A q \in Procs \ {p} : /\ pc'[q] = pc[q] /\ tok'[q] = tok[q]
                                    /\ locks'[q] = locks[q] /\ todo'[q] = todo[q]
      BY <1>0, <1>4 DEF RotateReplay, table, ids, TypeOK, Statements
    <2> QED
      BY <2>1, StatementsOfRequest
  <1>5. ASSUME NEW p \in Requests, RotateCommit(p) PROVE Statements'
    <2>1. /\ UNCHANGED <<revoked, now, family, expires, lastId>> /\ lastId \in Nat
          /\ stored \subseteq stored' /\ Finish(p)
      BY <1>5 DEF RotateCommit, ids, TypeOK
    <2> QED
      BY <1>0, <2>1, FinishStatements, StatementsOfRequest
  <1>6. ASSUME NEW p \in Requests, NEW i \in Ids, NEW genuine \in BOOLEAN,
               RevokeLookup(p, i, genuine)
        PROVE  Statements'
    <2>1. /\ UNCHANGED <<stored, revoked, now, family, expires, lastId>> /\ lastId \in Nat
          /\ pc'[p] = "logout" /\ locks'[p] = {} /\ todo'[p] = {}
          /\ \A q \in Procs \ {p} : /\ pc'[q] = pc[q] /\ tok'[q] = tok[q]
                                    /\ locks'[q] = locks[q] /\ todo'[q] = todo[q]
      BY <1>0, <1>6 DEF RevokeLookup, table, ids, TypeOK, Statements
    <2> QED
      BY <2>1, StatementsOfRequest
  <1>7. ASSUME NEW p \in Requests, FamilyScan(p) PROVE Statements'
    <2> DEFINE f == family[tok[p]]
    <2>1. /\ UNCHANGED <<stored, revoked, now, family, expires, lastId, tok, locks>>
          /\ lastId \in Nat /\ pc[p] # "idle" /\ pc'[p] \in Updating
          /\ todo'[p] = LiveRows(f)
          /\ \A q \in Procs \ {p} : pc'[q] = pc[q] /\ todo'[q] = todo[q]
      BY <1>0, <1>7 DEF FamilyScan, table, ids, TypeOK, Updating
    <2>2. todo'[p] \subseteq 1 .. lastId /\ \A i \in todo'[p] : family[i] = f
      BY <2>1 DEF LiveRows, Lineage
    <2>3. \A i \in locks[p] : family[i] = f
      BY DEF Statements
    <2>4. pc'[p] # "sweep" /\ pc'[p] # "idle"
      BY <2>1 DEF Updating
    <2> QED
      BY <2>1, <2>2, <2>3, <2>4, StatementsOfRequest
  <1>8. ASSUME NEW p \in Requests, NEW i \in Ids, FamilyVisit(p, i) PROVE Statements'
    <2>1. /\ UNCHANGED <<stored, revoked, now, family, expires, lastId, tok, pc>>
          /\ lastId \in Nat /\ pc[p] # "idle" /\ pc[p] # "sweep"
          /\ todo'[p] \subseteq todo[p] /\ locks'[p] \subseteq locks[p] \cup {i} /\ i \in todo[p]
          /\ \A q \in Procs \ {p} : locks'[q] = locks[q] /\ todo'[q] = todo[q]
      BY <1>0, <1>8 DEF FamilyVisit, table, ids, history, TypeOK, Updating
    <2>2. /\ todo'[p] \subseteq 1 .. lastId
          /\ \A k \in locks'[p] \cup todo'[p] : family[k] = family[tok[p]]
      BY <2>1 DEF Statements
    <2> QED
      BY <2>1, <2>2, StatementsOfRequest
  <1>9. ASSUME NEW p \in Requests, FamilyCommit(p) PROVE Statements'
    <2>1. /\ UNCHANGED <<stored, now, family, expires, lastId>> /\ lastId \in Nat
          /\ revoked \subseteq revoked' /\ Finish(p)
      BY <1>9 DEF FamilyCommit, ids, TypeOK
    <2> QED
      BY <1>0, <2>1, FinishStatements, StatementsOfRequest
  <1>10. CASE GCScan
    <2>1. /\ UNCHANGED <<stored, revoked, now, family, expires, lastId, tok, locks>>
          /\ pc'[Collector] = "sweep" /\ todo'[Collector] = {i \in stored : Dead(i)}
          /\ \A q \in Requests : pc'[q] = pc[q] /\ todo'[q] = todo[q]
      BY <1>0, <1>10 DEF GCScan, table, ids, history, TypeOK
    <2>2. \A i \in locks[Collector] : i \in stored /\ Dead(i)
      BY DEF Statements
    <2> QED
      BY <2>1, <2>2, StatementsOfCollector DEF Dead
  <1>11. ASSUME NEW i \in Ids, GCVisit(i) PROVE Statements'
    <2>1. /\ UNCHANGED <<stored, revoked, now, family, expires, lastId, tok, pc>>
          /\ i \in todo[Collector] /\ todo'[Collector] \subseteq todo[Collector]
          /\ locks'[Collector] \subseteq locks[Collector] \cup {i}
          /\ \A q \in Requests : locks'[q] = locks[q] /\ todo'[q] = todo[q]
      BY <1>0, <1>11 DEF GCVisit, table, ids, history, TypeOK
    <2>2. \A k \in locks'[Collector] \cup todo'[Collector] : k \in stored /\ Dead(k)
      BY <2>1 DEF Statements
    <2> QED
      BY <2>1, <2>2, StatementsOfCollector DEF Dead, Statements
  <1>12. CASE GCCommit
    <2>1. UNCHANGED <<now, family, expires, lastId>> /\ Finish(Collector)
      BY <1>12 DEF GCCommit, ids, history
    <2> QED
      BY <1>0, <2>1, FinishStatements, StatementsOfCollector
  <1>13. ASSUME NEW p \in Procs, Rollback(p) PROVE Statements'
    <2>1. /\ UNCHANGED <<stored, revoked, now, family, expires, lastId>> /\ lastId \in Nat
          /\ Finish(p)
      BY <1>13 DEF Rollback, table, ids, history, TypeOK
    <2>2. CASE p \in Requests
      BY <1>0, <2>1, <2>2, FinishStatements, StatementsOfRequest
    <2>3. CASE p = Collector
      BY <1>0, <2>1, <2>3, FinishStatements, StatementsOfCollector
    <2> QED
      BY <1>0, <2>2, <2>3
  <1>14. CASE Tick
    <2>1. UNCHANGED <<stored, revoked, family, expires, lastId, pc, tok, todo, locks>>
          /\ now \in Nat /\ now' = now + 1
      BY <1>14 DEF Tick, table, ids, process, TypeOK
    <2>2. \A i \in stored : Dead(i) => Dead(i)'
      BY <2>1 DEF Dead, TypeOK
    <2> QED
      BY <2>1, <2>2 DEF Statements
  <1> QED
    BY <1>1, <1>2, <1>3, <1>4, <1>5, <1>6, <1>7, <1>8, <1>9, <1>10, <1>11, <1>12, <1>13, <1>14
      DEF Next, Rotate, RotateRefuse, Revoke, RevokeIgnore, FamilyUpdate, RunGC, Abort,
          DeadlockVictim

\* A step that leaves the rows, the lineage and the ended sessions alone.
LEMMA FatesUnmoved ==
  ASSUME IndInv, Fates,
         UNCHANGED <<stored, rotated, revoked, parent, held, loggedOut, reused>>,
         lastId' \in Nat, lastId <= lastId', now' \in Nat, now <= now',
         \A i \in Minted : family'[i] = family[i] /\ expires'[i] = expires[i]
  PROVE  Fates'
  <1> USE DEF IndInv
  <1>1. Minted' = Minted /\ Ended' = Ended
    BY DEF Minted, Ended
  <1>2. Ended' \subseteq 1 .. lastId' /\ held' \subseteq Minted'
    BY <1>1 DEF Fates, TypeOK
  <1>3. \A i \in revoked' : family'[i] \in Ended'
    BY <1>1 DEF Fates, Lineage, TypeOK
  <1>4. \A i \in rotated' : Exchanged(i)'
    BY DEF Fates, Exchanged
  <1>5. \A i \in Minted' : expires'[i] >= now' /\ family'[i] \notin Ended' => i \in stored'
    <2>1. \A i \in Minted : expires[i] \in Int /\ now \in Nat
      BY DEF Minted, TypeOK
    <2> QED
      BY <1>1, <2>1 DEF Fates
  <1> QED
    BY <1>2, <1>3, <1>4, <1>5 DEF Fates

\* Every step revokes and sweeps rows of ended sessions and expired rows only.
LEMMA NextFates ==
  ASSUME IndInv, Statements, Fates, [Next]_vars
  PROVE  Fates'
  <1> USE DEF IndInv
  <1>0. lastId \in Nat /\ now \in Nat
    BY DEF TypeOK
  <1>1. CASE UNCHANGED <<table, ids, history>> /\ now' \in Nat /\ now <= now'
    BY <1>0, <1>1, FatesUnmoved DEF table, ids, history
  <1>2. ASSUME NEW p \in Requests, Issue(p) PROVE Fates'
    <2> DEFINE n == lastId + 1
    <2>1. /\ n \in Ids /\ lastId' = n /\ n \notin Minted /\ n \notin stored
          /\ family'[n] = n /\ \A i \in Ids : i # n => family'[i] = family[i]
          /\ \A i \in Ids : i # n => expires'[i] = expires[i]
      BY <1>2, DrawnId DEF Issue, DrawId, TypeOK
    <2>2. /\ stored' = stored \cup {n} /\ held' \subseteq held \cup {n}
          /\ parent'[n] = n /\ \A i \in Ids : i # n => parent'[i] = parent[i]
          /\ UNCHANGED <<rotated, revoked, loggedOut, reused, now>>
      BY <1>2, <2>1 DEF Issue, Deliver, TypeOK
    <2>3. Minted' = Minted \cup {n} /\ Ended' = Ended
      BY <1>0, <2>1, <2>2 DEF Minted, Ended
    <2>4. Ended' \subseteq 1 .. lastId' /\ held' \subseteq Minted'
      BY <1>0, <2>1, <2>2, <2>3 DEF Fates
    <2>5. \A i \in revoked' : family'[i] \in Ended'
      BY <2>1, <2>2, <2>3 DEF Fates, TypeOK
    <2>6. \A i \in rotated' : Exchanged(i)'
      <3> SUFFICES ASSUME NEW i \in rotated PROVE \E j \in Ids : j # i /\ parent'[j] = i
        BY <2>2 DEF Exchanged
      <3>1. PICK j \in Ids : j # i /\ parent[j] = i
        BY DEF Fates, Exchanged
      <3>2. j # n
        BY <2>1, <3>1 DEF Minted, TypeOK
      <3> QED
        BY <2>2, <3>1, <3>2
    <2>7. \A i \in Minted' : expires'[i] >= now' /\ family'[i] \notin Ended' => i \in stored'
      <3>1. \A i \in Minted : i \in Ids /\ i # n
        BY <2>1 DEF Minted
      <3> QED
        BY <3>1, <2>1, <2>2, <2>3 DEF Fates
    <2> QED
      BY <2>4, <2>5, <2>6, <2>7 DEF Fates
  <1>3. ASSUME NEW p \in Requests, NEW i \in Ids, NEW genuine \in BOOLEAN,
               RotateSwap(p, i, genuine)
        PROVE  Fates'
    <2>1. /\ lastId' = lastId + 1
          /\ \A k \in Minted : family'[k] = family[k] /\ expires'[k] = expires[k]
      BY <1>3, DrawnId DEF RotateSwap, DrawId, TypeOK, Minted
    <2>2. /\ UNCHANGED <<stored, rotated, revoked, parent, held, loggedOut, reused, now>>
      BY <1>3 DEF RotateSwap, table
    <2> QED
      BY <1>0, <2>1, <2>2, FatesUnmoved
  <1>4. ASSUME NEW p \in Requests, RotateCommit(p) PROVE Fates'
    <2> DEFINE t == tok[p]
               n == new[p]
    <2>1. /\ p \in Procs /\ t \in stored /\ t \in Ids
          /\ n \in Ids /\ n \notin Minted /\ n \notin stored /\ parent[n] = NoId /\ t # n
      BY <1>4 DEF Procs, RotateCommit, InFlight, Locking, Lineage, Minted, TypeOK
    <2>2. /\ stored' = stored \cup {n} /\ rotated' = rotated \cup {t}
          /\ held' \subseteq held \cup {n}
          /\ parent'[n] = t /\ \A i \in Ids : i # n => parent'[i] = parent[i]
          /\ UNCHANGED <<revoked, family, expires, lastId, loggedOut, reused, now>>
      BY <1>4, <2>1 DEF RotateCommit, Deliver, ids, TypeOK
    <2>3. Minted' = Minted \cup {n} /\ Ended' = Ended
      BY <2>1, <2>2 DEF Minted, Ended
    <2>4. /\ Ended' \subseteq 1 .. lastId' /\ held' \subseteq Minted'
          /\ \A i \in revoked' : family'[i] \in Ended'
      BY <2>2, <2>3 DEF Fates
    <2>5. \A i \in rotated' : Exchanged(i)'
      <3> SUFFICES ASSUME NEW i \in rotated \cup {t}
                   PROVE  \E j \in Ids : j # i /\ parent'[j] = i
        BY <2>2 DEF Exchanged
      <3>1. CASE i = t
        BY <2>1, <2>2, <3>1
      <3>2. CASE i \in rotated
        <4>1. PICK j \in Ids : j # i /\ parent[j] = i
          BY <3>2 DEF Fates, Exchanged
        <4>2. j # n
          BY <2>1, <3>2, <4>1 DEF TypeOK
        <4> QED
          BY <2>2, <4>1, <4>2
      <3> QED
        BY <3>1, <3>2
    <2>6. \A i \in Minted' : expires'[i] >= now' /\ family'[i] \notin Ended' => i \in stored'
      BY <2>2, <2>3 DEF Fates
    <2> QED
      BY <2>4, <2>5, <2>6 DEF Fates
  <1>5. ASSUME NEW p \in Requests, FamilyCommit(p) PROVE Fates'
    <2> DEFINE f == family[tok[p]]
    <2>1. /\ UNCHANGED <<stored, rotated, parent, held, family, expires, lastId, now>>
          /\ revoked' = revoked \cup locks[p] /\ Ended' = Ended \cup {f}
      BY <1>5 DEF FamilyCommit, ids, Ended
    <2>2. f \in 1 .. lastId
      BY <1>5 DEF FamilyCommit, Targets, Lineage, Procs
    <2>3. \A i \in locks[p] : family[i] = f
      BY DEF Statements
    <2>4. Minted' = Minted /\ \A i : Exchanged(i)' <=> Exchanged(i)
      BY <2>1 DEF Minted, Exchanged
    <2> QED
      BY <2>1, <2>2, <2>3, <2>4 DEF Fates
  <1>6. CASE GCCommit
    <2> DEFINE L == locks[Collector]
    <2>1. /\ UNCHANGED <<parent, held, family, expires, lastId, now, loggedOut, reused>>
          /\ stored' = stored \ L /\ rotated' \subseteq rotated /\ revoked' \subseteq revoked
      BY <1>6 DEF GCCommit, ids, history
    <2>2. Minted' = Minted /\ Ended' = Ended /\ \A i : Exchanged(i)' <=> Exchanged(i)
      BY <2>1 DEF Minted, Ended, Exchanged
    <2>3. \A i \in L : family[i] \in Ended \/ ~(expires[i] >= now)
      <3> SUFFICES ASSUME NEW i \in L, expires[i] >= now PROVE family[i] \in Ended
        OBVIOUS
      <3>1. i \in stored /\ Dead(i)
        BY DEF Statements
      <3>2. expires[i] \in Int /\ now \in Nat
        BY <3>1 DEF TypeOK
      <3>3. i \in revoked
        BY <3>1, <3>2 DEF Dead
      <3> QED
        BY <3>3 DEF Fates
    <2> QED
      BY <2>1, <2>2, <2>3 DEF Fates
  <1>7. CASE Tick
    BY <1>0, <1>1, <1>7 DEF Tick
  <1>8. CASE UNCHANGED vars
    BY <1>0, <1>1, <1>8 DEF vars
  <1>9. ASSUME UNCHANGED <<table, ids, held, parent, loggedOut, reused, now>> PROVE Fates'
    BY <1>0, <1>9, FatesUnmoved DEF table, ids
  <1>10. ASSUME NEW p \in Requests, Rotate(p) PROVE Fates'
    BY <1>10, <1>3, <1>4, <1>8, <1>9 DEF Rotate, RotateReplay, RotateRefuse, history
  <1>11. ASSUME NEW p \in Requests, Revoke(p) PROVE Fates'
    BY <1>11, <1>8, <1>9 DEF Revoke, RevokeLookup, RevokeIgnore, history
  <1>12. ASSUME NEW p \in Requests, FamilyUpdate(p) PROVE Fates'
    BY <1>12, <1>5, <1>9 DEF FamilyUpdate, FamilyScan, FamilyVisit, history
  <1>13. CASE RunGC
    BY <1>13, <1>6, <1>9 DEF RunGC, GCScan, GCVisit, history
  <1>14. ASSUME NEW p \in Procs, Abort(p) \/ DeadlockVictim(p) PROVE Fates'
    BY <1>14, <1>9 DEF Abort, DeadlockVictim, Rollback, history
  <1> QED
    BY <1>2, <1>7, <1>8, <1>10, <1>11, <1>12, <1>13, <1>14 DEF Next

\* The family of a token that a rotation or a family update is about was drawn,
\* so that it stays what it is.
LEMMA WorkFamily ==
  ASSUME IndInv, Statements, NEW q \in Procs, pc[q] \in {"rotating"} \cup Updating
  PROVE  tok[q] \in 1 .. lastId /\ family[tok[q]] \in 1 .. lastId
  <1>1. q \in Requests
    BY DEF Procs, Statements, Updating
  <1>2. pc[q] # "idle"
    BY DEF Updating
  <1> QED
    BY <1>1, <1>2, DrawnWork DEF IndInv, Lineage

\* A step that makes no row good, starts no rotation, no family update and ends
\* no session leaves quiet families quiet.
LEMMA QuietUnmoved ==
  ASSUME IndInv, Statements, QuietEnds,
         Ended' = Ended, raced \subseteq raced',
         \A i \in stored' \ (rotated' \cup revoked') : i \in stored \ (rotated \cup revoked),
         \A i \in 1 .. lastId : family'[i] = family[i],
         \A q \in Procs : pc'[q] \in {"rotating"} \cup Updating =>
           /\ pc'[q] = pc[q] /\ tok'[q] = tok[q]
           /\ (todo[q] \cup locks[q]) \cap (stored \ revoked) \subseteq todo'[q] \cup locks'[q]
  PROVE  QuietEnds'
  <1>1. \A q \in Procs : pc'[q] \in {"rotating"} \cup Updating =>
          pc[q] = pc'[q] /\ family'[tok'[q]] = family[tok[q]]
    BY WorkFamily
  <1>2. \A f : Rotating(f)' => Rotating(f)
    BY <1>1 DEF Rotating
  <1>3. \A i \in stored' \ (rotated' \cup revoked') : family'[i] = family[i]
    BY DEF IndInv, Lineage
  <1>4. ASSUME NEW CONSTANT f PROVE Good(f)' \subseteq Good(f)
    <2> SUFFICES ASSUME NEW i \in Good(f)' PROVE i \in Good(f)
      OBVIOUS
    <2>1. i \in stored' \ (rotated' \cup revoked') /\ family'[i] = f
      BY DEF Good
    <2> QED
      BY <2>1, <1>3 DEF Good
  <1>5. \A f \in Ended' \ raced' : Good(f)' = {} /\ ~Rotating(f)'
    BY <1>2, <1>4 DEF QuietEnds
  <1>6. ASSUME NEW p \in Requests, pc'[p] \in Updating, family'[tok'[p]] \notin raced'
        PROVE  /\ ~Rotating(family[tok[p]])'
               /\ Good(family[tok[p]])' \subseteq todo'[p] \cup locks'[p]
    <2>1. PICK f : f = family[tok[p]]
      OBVIOUS
    <2>2. p \in Procs /\ pc[p] \in Updating /\ family'[tok'[p]] = f /\ f \notin raced
      BY <1>1, <1>6, <2>1 DEF Procs
    <2>3. ~Rotating(f) /\ Good(f) \subseteq todo[p] \cup locks[p]
      BY <2>1, <2>2 DEF QuietEnds
    <2>4. Good(f) \subseteq (todo[p] \cup locks[p]) \cap (stored \ revoked)
      BY <2>3 DEF Good
    <2>5. ~Rotating(f)' /\ Good(f)' \subseteq todo'[p] \cup locks'[p]
      BY <1>2, <1>4, <1>6, <2>2, <2>3, <2>4
    <2> QED
      BY <2>2, <2>5 DEF Good, Rotating
  <1> QED
    BY <1>5, <1>6 DEF QuietEnds

\* The snapshot of a family update has every good row, and whoever adds one
\* afterwards is a rotation that the update or the rotation notices.
LEMMA NextQuietEnds ==
  ASSUME IndInv, Statements, Fates, QuietEnds, [Next]_vars
  PROVE  QuietEnds'
  <1> USE DEF IndInv
  <1>0. /\ lastId \in Nat /\ Requests \subseteq Procs
        /\ \A q \in Procs : pc[q] = "idle" => pc[q] \notin {"rotating"} \cup Updating
    BY DEF Procs, TypeOK, Updating
  <1>1. ASSUME UNCHANGED <<stored, rotated, revoked, family, loggedOut, reused, raced>>,
               NEW p \in Procs,
               pc'[p] \notin {"rotating"} \cup Updating,
               \A q \in Procs \ {p} : /\ pc'[q] = pc[q] /\ tok'[q] = tok[q]
                                      /\ locks'[q] = locks[q] /\ todo'[q] = todo[q]
        PROVE  QuietEnds'
    BY <1>1, QuietUnmoved DEF Ended
  <1>2. ASSUME NEW p \in Requests, Issue(p) PROVE QuietEnds'
    <2> DEFINE n == lastId + 1
    <2>1. /\ n \notin stored /\ family'[n] = n /\ n \notin 1 .. lastId
          /\ \A i \in 1 .. lastId : family'[i] = family[i]
      BY <1>0, <1>2, DrawnId DEF Issue
    <2>2. /\ stored' = stored \cup {n}
          /\ UNCHANGED <<rotated, revoked, pc, tok, todo, locks, loggedOut, reused, raced>>
      BY <1>2, DrawnId DEF Issue, process
    <2>3. \A f \in 1 .. lastId : Good(f)' = Good(f)
      BY <2>1, <2>2 DEF Good, Lineage
    <2>4. \A q \in Procs : pc[q] \in {"rotating"} \cup Updating =>
            family'[tok[q]] = family[tok[q]] /\ family[tok[q]] \in 1 .. lastId
      BY <2>1, WorkFamily
    <2>5. \A f : Rotating(f)' <=> Rotating(f)
      BY <2>2, <2>4 DEF Rotating
    <2>6. Ended' = Ended /\ Ended \subseteq 1 .. lastId
      BY <2>2 DEF Ended, Fates
    <2>7. \A f \in Ended' \ raced' : Good(f)' = {} /\ ~Rotating(f)'
      BY <2>2, <2>3, <2>5, <2>6 DEF QuietEnds
    <2>8. ASSUME NEW q \in Requests, pc'[q] \in Updating, family'[tok'[q]] \notin raced'
          PROVE  /\ ~Rotating(family[tok[q]])'
                 /\ Good(family[tok[q]])' \subseteq todo'[q] \cup locks'[q]
      <3>1. PICK f : f = family[tok[q]]
        OBVIOUS
      <3>2. pc[q] \in Updating /\ family'[tok'[q]] = f /\ f \notin raced /\ f \in 1 .. lastId
        BY <1>0, <2>2, <2>4, <2>8, <3>1
      <3>3. ~Rotating(f)' /\ Good(f)' \subseteq todo'[q] \cup locks'[q]
        BY <2>2, <2>3, <2>5, <3>1, <3>2 DEF QuietEnds
      <3> QED
        BY <3>2, <3>3 DEF Good, Rotating
    <2> QED
      BY <2>7, <2>8 DEF QuietEnds
  <1>3. ASSUME NEW p \in Requests, NEW i \in Ids, NEW genuine \in BOOLEAN,
               RotateSwap(p, i, genuine)
        PROVE  QuietEnds'
    <2>1. PICK g : g = family[i]
      OBVIOUS
    <2>2. /\ i \in Good(g) /\ i \in 1 .. lastId /\ pc[p] = "idle"
      BY <1>3, <2>1 DEF RotateSwap, Swappable, Accepted, Good, Lineage
    <2>3. \A k \in 1 .. lastId : family'[k] = family[k]
      BY <1>3, DrawnId DEF RotateSwap
    <2>4. /\ UNCHANGED <<stored, rotated, revoked, loggedOut, reused>>
          /\ pc'[p] = "rotating" /\ tok'[p] = i
          /\ \A q \in Procs \ {p} : /\ pc'[q] = pc[q] /\ tok'[q] = tok[q]
                                    /\ locks'[q] = locks[q] /\ todo'[q] = todo[q]
      BY <1>0, <1>3 DEF RotateSwap, table, TypeOK
    <2>5. /\ raced \subseteq raced'
          /\ g \notin raced' => \A q \in Procs : pc[q] \in Updating => family[tok[q]] # g
      BY <1>3, <2>1 DEF RotateSwap
    <2>6. \A q \in Procs \ {p} : pc[q] \in {"rotating"} \cup Updating =>
            family'[tok'[q]] = family[tok[q]]
      BY <2>3, <2>4, WorkFamily
    <2>7. ASSUME NEW CONSTANT f PROVE Rotating(f)' => Rotating(f) \/ f = g
      BY <2>1, <2>2, <2>3, <2>4, <2>6 DEF Rotating
    <2>8. ASSUME NEW CONSTANT f PROVE Good(f)' = Good(f)
      BY <2>3, <2>4 DEF Good, Lineage
    <2>9. ASSUME NEW f \in Ended' \ raced' PROVE Good(f)' = {} /\ ~Rotating(f)'
      <3>1. f \in Ended \ raced
        BY <2>4, <2>5 DEF Ended
      <3>2. Good(f) = {} /\ ~Rotating(f)
        BY <3>1 DEF QuietEnds
      <3> QED
        BY <3>2, <2>2, <2>7, <2>8
    <2>10. ASSUME NEW q \in Requests, pc'[q] \in Updating, family'[tok'[q]] \notin raced'
           PROVE  /\ ~Rotating(family[tok[q]])'
                  /\ Good(family[tok[q]])' \subseteq todo'[q] \cup locks'[q]
      <3>1. PICK f : f = family[tok[q]]
        OBVIOUS
      <3>2. q # p
        BY <2>4, <2>10 DEF Updating
      <3>3. pc[q] \in Updating /\ family'[tok'[q]] = f /\ f \notin raced' /\ f \notin raced
        BY <1>0, <2>4, <2>5, <2>6, <2>10, <3>1, <3>2
      <3>4. f # g
        BY <1>0, <2>5, <3>1, <3>3
      <3>5. ~Rotating(f)' /\ Good(f)' \subseteq todo'[q] \cup locks'[q]
        BY <1>0, <2>4, <2>7, <2>8, <3>1, <3>2, <3>3, <3>4 DEF QuietEnds
      <3> QED
        BY <3>3, <3>5 DEF Good, Rotating
    <2> QED
      BY <2>9, <2>10 DEF QuietEnds
  <1>4. ASSUME NEW p \in Requests, RotateCommit(p) PROVE QuietEnds'
    <2> DEFINE t == tok[p]
               n == new[p]
    <2>1. PICK g : g = family[t]
      OBVIOUS
    <2>2. p \in Procs /\ Rotating(g) /\ family[n] = g /\ pc[p] = "rotating"
      BY <1>4, <2>1 DEF Procs, RotateCommit, InFlight, Rotating
    <2>3. /\ stored' = stored \cup {n} /\ rotated \subseteq rotated'
          /\ UNCHANGED <<revoked, family, loggedOut, reused, raced>> /\ Finish(p)
      BY <1>4 DEF RotateCommit, ids
    <2>4. /\ pc'[p] = "idle"
          /\ \A q \in Procs \ {p} : /\ pc'[q] = pc[q] /\ tok'[q] = tok[q]
                                    /\ locks'[q] = locks[q] /\ todo'[q] = todo[q]
      BY <2>2, <2>3, FinishStatements
    <2>5. ASSUME NEW CONSTANT f PROVE Rotating(f)' => Rotating(f)
      BY <2>3, <2>4 DEF Rotating
    <2>6. ASSUME NEW CONSTANT f, ~Rotating(f) PROVE Good(f)' \subseteq Good(f)
      BY <2>2, <2>3, <2>6 DEF Good
    <2>7. ASSUME NEW f \in Ended' \ raced' PROVE Good(f)' = {} /\ ~Rotating(f)'
      <3>1. f \in Ended \ raced
        BY <2>3 DEF Ended
      <3>2. Good(f) = {} /\ ~Rotating(f)
        BY <3>1 DEF QuietEnds
      <3> QED
        BY <3>2, <2>5, <2>6
    <2>8. ASSUME NEW q \in Requests, pc'[q] \in Updating, family'[tok'[q]] \notin raced'
          PROVE  /\ ~Rotating(family[tok[q]])'
                 /\ Good(family[tok[q]])' \subseteq todo'[q] \cup locks'[q]
      <3>1. PICK f : f = family[tok[q]]
        OBVIOUS
      <3>2. q # p
        BY <2>4, <2>8 DEF Updating
      <3>3. pc[q] \in Updating /\ family'[tok'[q]] = f /\ f \notin raced
        BY <1>0, <2>3, <2>4, <2>8, <3>1, <3>2
      <3>4. ~Rotating(f) /\ Good(f) \subseteq todo[q] \cup locks[q]
        BY <3>1, <3>3 DEF QuietEnds
      <3>5. ~Rotating(f)' /\ Good(f)' \subseteq todo'[q] \cup locks'[q]
        BY <1>0, <2>4, <2>5, <2>6, <3>2, <3>4
      <3> QED
        BY <3>3, <3>5 DEF Good, Rotating
    <2> QED
      BY <2>7, <2>8 DEF QuietEnds
  <1>5. ASSUME NEW p \in Requests, FamilyScan(p) PROVE QuietEnds'
    <2>1. PICK g : g = family[tok[p]]
      OBVIOUS
    <2>2. /\ UNCHANGED <<stored, rotated, revoked, family, tok, locks, loggedOut, reused>>
          /\ pc[p] \in {"replay", "logout"} /\ pc'[p] \in Updating
          /\ todo'[p] = LiveRows(g)
          /\ \A q \in Procs \ {p} : pc'[q] = pc[q] /\ todo'[q] = todo[q]
      BY <1>0, <1>5, <2>1 DEF FamilyScan, table, ids, TypeOK, Updating
    <2>3. raced \subseteq raced' /\ (g \notin raced' => ~Rotating(g))
      BY <1>5, <2>1 DEF FamilyScan, Rotating
    <2>4. ASSUME NEW CONSTANT f PROVE (Rotating(f)' => Rotating(f)) /\ Good(f)' = Good(f)
      <3>1. Rotating(f)' => Rotating(f)
        BY <2>2 DEF Rotating, Updating
      <3> QED
        BY <2>2, <3>1 DEF Good
    <2>5. ASSUME NEW f \in Ended' \ raced' PROVE Good(f)' = {} /\ ~Rotating(f)'
      <3>1. f \in Ended \ raced
        BY <2>2, <2>3 DEF Ended
      <3>2. Good(f) = {} /\ ~Rotating(f)
        BY <3>1 DEF QuietEnds
      <3> QED
        BY <3>2, <2>4
    <2>6. ASSUME NEW q \in Requests, pc'[q] \in Updating, family'[tok'[q]] \notin raced'
          PROVE  /\ ~Rotating(family[tok[q]])'
                 /\ Good(family[tok[q]])' \subseteq todo'[q] \cup locks'[q]
      <3>1. PICK f : f = family[tok[q]]
        OBVIOUS
      <3>2. family'[tok'[q]] = f /\ f \notin raced' /\ f \notin raced
        BY <2>2, <2>3, <2>6, <3>1
      <3>3. ~Rotating(f) /\ Good(f) \subseteq todo'[q] \cup locks'[q]
        <4>1. CASE q = p
          <5>1. Good(g) \subseteq LiveRows(g)
            BY <2>1 DEF Good, LiveRows
          <5> QED
            BY <4>1, <5>1, <2>1, <2>2, <2>3, <3>1, <3>2
        <4>2. CASE q # p
          <5>1. pc[q] \in Updating
            BY <1>0, <2>2, <2>6, <4>2
          <5> QED
            BY <1>0, <2>2, <3>1, <3>2, <4>2, <5>1 DEF QuietEnds
        <4> QED
          BY <4>1, <4>2
      <3>4. ~Rotating(f)' /\ Good(f)' \subseteq todo'[q] \cup locks'[q]
        BY <2>4, <3>3
      <3> QED
        BY <3>2, <3>4 DEF Good, Rotating
    <2> QED
      BY <2>5, <2>6 DEF QuietEnds
  <1>6. ASSUME NEW p \in Requests, NEW i \in Ids, FamilyVisit(p, i) PROVE QuietEnds'
    <2>1. /\ UNCHANGED <<stored, rotated, revoked, family, pc, tok, loggedOut, reused, raced>>
          /\ todo'[p] = todo[p] \ {i} /\ locks'[p] = locks[p] \cup ({i} \cap (stored \ revoked))
          /\ \A q \in Procs \ {p} : todo'[q] = todo[q] /\ locks'[q] = locks[q]
      BY <1>0, <1>6 DEF FamilyVisit, table, ids, history, TypeOK
    <2>2. \A q \in Procs :
            (todo[q] \cup locks[q]) \cap (stored \ revoked) \subseteq todo'[q] \cup locks'[q]
      BY <2>1
    <2> QED
      BY <2>1, <2>2, QuietUnmoved DEF Ended
  <1>7. ASSUME NEW p \in Requests, FamilyCommit(p) PROVE QuietEnds'
    <2>1. PICK g : g = family[tok[p]]
      OBVIOUS
    <2>2. /\ UNCHANGED <<stored, rotated, family, raced>> /\ Finish(p)
          /\ revoked' = revoked \cup locks[p] /\ Ended' = Ended \cup {g}
          /\ pc[p] \in Updating /\ todo[p] = {}
      BY <1>7, <2>1 DEF FamilyCommit, ids, Ended
    <2>3. /\ pc'[p] = "idle"
          /\ \A q \in Procs \ {p} : /\ pc'[q] = pc[q] /\ tok'[q] = tok[q]
                                    /\ locks'[q] = locks[q] /\ todo'[q] = todo[q]
      BY <1>0, <2>2, FinishStatements
    <2>4. ASSUME NEW CONSTANT f PROVE (Rotating(f)' => Rotating(f)) /\ Good(f)' \subseteq Good(f)
      <3>1. Rotating(f)' => Rotating(f)
        BY <2>2, <2>3 DEF Rotating
      <3> QED
        BY <2>2, <3>1 DEF Good
    <2>5. g \notin raced => Good(g)' = {} /\ ~Rotating(g)
      <3> SUFFICES ASSUME g \notin raced PROVE Good(g)' = {} /\ ~Rotating(g)
        OBVIOUS
      <3>1. ~Rotating(g) /\ Good(g) \subseteq locks[p]
        BY <2>1, <2>2 DEF QuietEnds
      <3> QED
        BY <3>1, <2>2 DEF Good
    <2>6. ASSUME NEW f \in Ended' \ raced' PROVE Good(f)' = {} /\ ~Rotating(f)'
      <3>1. CASE f = g
        BY <2>2, <2>4, <2>5, <2>6, <3>1
      <3>2. CASE f # g
        <4>1. Good(f) = {} /\ ~Rotating(f)
          BY <2>2, <2>6, <3>2 DEF QuietEnds
        <4> QED
          BY <2>4, <4>1
      <3> QED
        BY <3>1, <3>2
    <2>7. ASSUME NEW q \in Requests, pc'[q] \in Updating, family'[tok'[q]] \notin raced'
          PROVE  /\ ~Rotating(family[tok[q]])'
                 /\ Good(family[tok[q]])' \subseteq todo'[q] \cup locks'[q]
      <3>1. PICK f : f = family[tok[q]]
        OBVIOUS
      <3>2. q # p
        BY <2>3, <2>7 DEF Updating
      <3>3. pc[q] \in Updating /\ family'[tok'[q]] = f /\ f \notin raced
        BY <1>0, <2>2, <2>3, <2>7, <3>1, <3>2
      <3>4. ~Rotating(f) /\ Good(f) \subseteq todo[q] \cup locks[q]
        BY <3>1, <3>3 DEF QuietEnds
      <3>5. ~Rotating(f)' /\ Good(f)' \subseteq todo'[q] \cup locks'[q]
        BY <1>0, <2>3, <2>4, <3>2, <3>4
      <3> QED
        BY <3>3, <3>5 DEF Good, Rotating
    <2> QED
      BY <2>6, <2>7 DEF QuietEnds
  <1>8. ASSUME NEW p \in Requests, NEW i \in Ids, NEW genuine \in BOOLEAN,
               RotateReplay(p, i, genuine) \/ RevokeLookup(p, i, genuine)
        PROVE  QuietEnds'
    <2>1. /\ pc'[p] \in {"replay", "logout"}
          /\ UNCHANGED <<stored, rotated, revoked, family, loggedOut, reused, raced>>
          /\ \A q \in Procs \ {p} : /\ pc'[q] = pc[q] /\ tok'[q] = tok[q]
                                    /\ locks'[q] = locks[q] /\ todo'[q] = todo[q]
      BY <1>0, <1>8 DEF RotateReplay, RevokeLookup, table, ids, history, TypeOK
    <2> QED
      BY <1>0, <1>1, <2>1 DEF Updating
  <1>9. ASSUME GCScan \/ (\E i \in Ids : GCVisit(i)) \/ GCCommit PROVE QuietEnds'
    <2>1. Collector \in Procs /\ Collector \notin Requests
      BY CollectorAssumption DEF Procs
    <2>2. pc'[Collector] \notin {"rotating"} \cup Updating
      BY <1>9, <2>1, FinishStatements DEF GCScan, GCVisit, GCCommit, Updating, TypeOK
    <2>3. \A q \in Procs \ {Collector} :
            pc'[q] = pc[q] /\ tok'[q] = tok[q] /\ todo'[q] = todo[q] /\ locks'[q] = locks[q]
      BY <1>9, <2>1, FinishStatements DEF GCScan, GCVisit, GCCommit, TypeOK
    <2>4. /\ UNCHANGED <<family, loggedOut, reused, raced>>
          /\ \A i \in stored' \ (rotated' \cup revoked') : i \in stored \ (rotated \cup revoked)
      BY <1>9 DEF GCScan, GCVisit, GCCommit, table, ids, history
    <2> QED
      BY <2>2, <2>3, <2>4, QuietUnmoved DEF Ended
  <1>10. ASSUME NEW p \in Procs, Rollback(p) PROVE QuietEnds'
    <2>1. /\ UNCHANGED <<stored, rotated, revoked, family, loggedOut, reused, raced>>
          /\ Finish(p)
      BY <1>10 DEF Rollback, table, ids, history
    <2>2. pc'[p] \notin {"rotating"} \cup Updating
      BY <2>1, FinishStatements DEF Updating
    <2> QED
      BY <1>1, <2>1, <2>2, FinishStatements
  <1>11. CASE UNCHANGED <<table, process, family, loggedOut, reused, raced>>
    <2>1. UNCHANGED <<stored, rotated, revoked, family, pc, tok, todo, locks, loggedOut,
                      reused, raced>>
      BY <1>11 DEF table, process
    <2> QED
      BY <2>1, QuietUnmoved DEF Ended
  <1>12. CASE UNCHANGED vars
    BY <1>11, <1>12 DEF vars, ids, history
  <1>13. CASE Tick
    BY <1>11, <1>13 DEF Tick, ids, history
  <1>14. ASSUME NEW p \in Requests, Rotate(p) \/ Revoke(p) PROVE QuietEnds'
    BY <1>14, <1>3, <1>4, <1>8, <1>12 DEF Rotate, RotateRefuse, Revoke, RevokeIgnore
  <1>15. ASSUME NEW p \in Requests, FamilyUpdate(p) PROVE QuietEnds'
    BY <1>15, <1>5, <1>6, <1>7 DEF FamilyUpdate
  <1>16. ASSUME NEW p \in Procs, Abort(p) \/ DeadlockVictim(p) PROVE QuietEnds'
    BY <1>16, <1>10 DEF Abort, DeadlockVictim
  <1> QED
    BY <1>2, <1>9, <1>12, <1>13, <1>14, <1>15, <1>16 DEF Next, RunGC

\* How sessions end, in every reachable state.
THEOREM SessionInvariance == Spec => []SessionInv
  <1>1. SessionInv /\ [Next]_vars => SessionInv'
    BY NextIndInv, NextStatements, NextFates, NextQuietEnds DEF SessionInv
  <1> QED
    BY <1>1, InitSessionInv, PTL DEF Spec

\* A token in a client's hands works until it is exchanged, expires or its
\* session ends.
THEOREM HeldTokensWork == Spec => []HeldTokenWorks
  <1>1. SessionInv => HeldTokenWorks
    <2> SUFFICES ASSUME SessionInv, NEW i \in held, ~Exchanged(i), expires[i] > now,
                        family[i] \notin loggedOut \cup reused
                 PROVE  Usable(i)
      BY DEF HeldTokenWorks
    <2>1. i \in Minted /\ i \notin rotated /\ i \notin revoked
      BY DEF SessionInv, Fates, Ended
    <2>2. expires[i] \in Int /\ now \in Nat
      BY <2>1 DEF SessionInv, IndInv, TypeOK, Minted
    <2>3. i \in stored
      BY <2>1, <2>2 DEF SessionInv, Fates, Ended
    <2> QED
      BY <2>1, <2>3 DEF Usable
  <1> QED
    BY <1>1, SessionInvariance, PTL

\* The replay of a spent token is detected for as long as its session lasts and
\* the token is not expired.
THEOREM SpentTokensDetected == Spec => []SpentTokenDetected
  <1>1. SessionInv => SpentTokenDetected
    <2> SUFFICES ASSUME SessionInv, NEW i \in Ids, Exchanged(i), expires[i] >= now,
                        family[i] \notin loggedOut \cup reused
                 PROVE  i \in rotated
      BY DEF SpentTokenDetected
    <2>1. PICK j \in Ids : j # i /\ parent[j] = i
      BY DEF Exchanged
    <2>2. i \in Minted \ (stored \ rotated)
      BY <2>1 DEF SessionInv, IndInv, Lineage, Minted
    <2>3. i \in stored
      BY <2>2 DEF SessionInv, Fates, Ended
    <2> QED
      BY <2>2, <2>3
  <1> QED
    BY <1>1, SessionInvariance, PTL

\* A logout or a detected replay that no rotation of the family overlaps is the
\* end of the session.
THEOREM QuietEndsAreFinal == Spec => []QuietEndIsFinal
  <1>1. SessionInv => QuietEndIsFinal
    BY DEF SessionInv, QuietEnds, QuietEndIsFinal, Usable, Good, Ended
  <1> QED
    BY <1>1, SessionInvariance, PTL
==============================================================================
