--------------------------- MODULE MessagesProofs ---------------------------
(* Proofs about Messages: requests that interleave between their statements  *)
(* and before they publish, and readers that page through what they change.  *)
EXTENDS Messages, FiniteSetTheorems, WellFoundedInduction, TLAPS

\* The operations of a request.
Kinds == {"create", "update", "delete"}

\* The message of a request is in its channel and its own.
Own(r) ==
  msg[r] \in DOMAIN rows /\ rows[msg[r]].channel = chan[r] /\ rows[msg[r]].author = who[r]

\* Where a request is says what it knows and what it was answered.
Stage(r) ==
  /\ pc[r] = "idle" => op[r] = None /\ r \notin there
  /\ pc[r] # "done" => status[r] = 0
  /\ pc[r] \in Kinds => op[r] = pc[r]
  /\ pc[r] = "classify" => op[r] \in {"update", "delete"}
  /\ pc[r] = "publish" => op[r] \in Kinds /\ Own(r)
  /\ op[r] # None => chan[r] \in Channels /\ who[r] \in Users
  /\ status[r] \in {200, 204} => Own(r)
  /\ status[r] = 204 => op[r] = "delete"

Stages == \A r \in Requests : Stage(r)

\* The requests that create a message.
Creators == {r \in Requests : op[r] = "create"}

\* Every create has an id of its own.
Drawn ==
  /\ lastId = Cardinality(Creators)
  /\ \A r \in Creators : msg[r] \in 1 .. lastId
  /\ \A r, s \in Creators : msg[r] = msg[s] => r = s
  /\ \A r \in Requests : pc[r] = "create" => msg[r] \notin DOMAIN rows

\* Its delete has been committed and not answered with an error.
Deleted(r) == op[r] = "delete" /\ (pc[r] = "publish" \/ status[r] = 204)

\* A delete finds the row live, empties it and leaves it deleted.
Deletes ==
  /\ \A id \in DOMAIN rows :
       IF rows[id].live THEN rows[id].content \in Requests ELSE rows[id].content = Empty
  /\ \A r \in Requests : Deleted(r) => ~rows[msg[r]].live
  /\ \A r, s \in Requests : Deleted(r) /\ Deleted(s) /\ msg[r] = msg[s] => r = s

\* What a request that has changed no row can be told.
Missed(r) ==
  /\ r \in there => msg[r] \in DOMAIN rows /\ rows[msg[r]].channel = chan[r]
  /\ r \in there /\ pc[r] = "classify" /\ rows[msg[r]].author = who[r] => ~rows[msg[r]].live
  /\ r \in there /\ status[r] = 404 => ~rows[msg[r]].live
  /\ status[r] = 403 => msg[r] \in DOMAIN rows /\ rows[msg[r]].author # who[r]

Misses == \A r \in Requests : Missed(r)

\* Events are about requests that were answered in the same step; a request
\* begins after those that it may rely on were answered.
Sequenced ==
  /\ \A c \in Channels : \A i \in 1 .. Len(events[c]) : status[events[c][i][3]] # 0
  /\ \A r \in Requests : earlier[r] \subseteq Answered /\ r \notin earlier[r]

\* The event of a request is out or will be.
Out(r) ==
  \/ pc[r] = "publish"
  \/ \E i \in 1 .. Len(events[chan[r]]) : events[chan[r]][i] = <<op[r], msg[r], r>>

\* Whoever wrote what a row holds now, or deleted it, tells the subscribers.
Told ==
  /\ \A id \in DOMAIN rows \ lost :
       \E r \in Requests :
         /\ msg[r] = id /\ chan[r] = rows[id].channel /\ Out(r)
         /\ IF rows[id].live THEN rows[id].content = r /\ op[r] \in {"create", "update"}
                             ELSE op[r] = "delete"
  /\ \A c \in Channels : \A i \in 1 .. Len(events[c]) :
       events[c][i][1] = "delete" =>
         events[c][i][2] \in DOMAIN rows /\ ~rows[events[c][i][2]].live

\* The requests that have changed a message and have still to publish it.
Pending(id) == {r \in Requests : pc[r] = "publish" /\ msg[r] = id}

\* The position of the last event about a message on a channel.
IsLast(c, id, i) ==
  /\ i \in 1 .. Len(events[c]) /\ events[c][i][2] = id
  /\ \A j \in 1 .. Len(events[c]) : events[c][j][2] = id => j <= i

\* Where changes of a message do not overlap, the one that is still to be
\* published made it what it is, and if there is none the last event says so.
Settled ==
  \A id \in DOMAIN rows \ (lost \cup crossed) :
    /\ \A r, q \in Pending(id) : r = q
    /\ \A r \in Pending(id) : TellsState(<<op[r], id, r>>)
    /\ Pending(id) = {} => \A i : IsLast(rows[id].channel, id, i) =>
                                  TellsState(events[rows[id].channel][i])

\* A row that the next pages of a reader may still hold.
Ahead(v, id) == IF from[v] # NoRow THEN id > cursor[v] ELSE cursor[v] = NoRow \/ id < cursor[v]

\* The text of a live row was published before the reader subscribed.
OldNews(v, id) ==
  \E i \in 1 .. since[v] : /\ events[topic[v]][i][2] = id
                           /\ events[topic[v]][i][3] = rows[id].content

\* The pages of a reader hold every row whose news it was not sent, and none that
\* was deleted before it could hear of it.
Covering(v) ==
  /\ state[v] = "away" => shown[v] = {}
  /\ from[v] # NoRow => cursor[v] # NoRow
  /\ \A id \in Live(topic[v]) :
       state[v] # "away" /\ id > from[v] /\ OldNews(v, id) =>
         \/ <<id, rows[id].content>> \in shown[v]
         \/ state[v] = "fetching" /\ Ahead(v, id)
  /\ \A i \in 1 .. since[v] : events[topic[v]][i][1] = "delete" =>
       \A s \in shown[v] : s[1] # events[topic[v]][i][2]

Covered == \A v \in Readers : Covering(v)

\* The pages of a reader show a message once: what they have shown is behind it.
ShownOnce ==
  \A v \in Readers :
    /\ \A s, t \in shown[v] : s[1] = t[1] => s = t
    /\ state[v] = "fetching" => \A s \in shown[v] : ~Ahead(v, s[1])

IndInv ==
  /\ TypeOK /\ Stages /\ Drawn /\ Deletes /\ Misses /\ Sequenced /\ AnswersAfterEvents
  /\ Told /\ Settled /\ Covered /\ ShownOnce

------------------------------------------------------------------------------
(* Pages: sets of ids cut off after the first Limit of them.                  *)

\* The order of the naturals, as a set of pairs.
Less == {s \in Nat \X Nat : s[1] < s[2]}

\* There is no endless descent in the numbers.
LEMMA LessWellFounded == IsWellFoundedOn(Less, Nat)
  BY NatLessThanWellFounded DEF OpToRel, Less

\* A set of naturals has a smallest element, and if it is bounded a largest one.
LEMMA Smallest ==
  ASSUME NEW S \in SUBSET Nat, S # {}
  PROVE  \E m \in S : \A x \in S : m <= x
  <1>1. PICK m \in S : \A x \in S : <<x, m>> \notin Less
    BY LessWellFounded, WFMin
  <1>2. ASSUME NEW x \in S PROVE m <= x
    <2>1. x \in Nat /\ m \in Nat /\ <<x, m>> \notin Less
      BY <1>1
    <2>2. <<x, m>> \in Nat \X Nat /\ <<x, m>>[1] = x /\ <<x, m>>[2] = m
      BY <2>1
    <2>3. ~(x < m)
      BY <2>1, <2>2 DEF Less
    <2> QED
      BY <2>1, <2>3
  <1> QED
    BY <1>2

\* A non-empty finite set of numbers has a largest one.
LEMMA Largest ==
  ASSUME NEW n \in Nat, NEW S \in SUBSET (0 .. n), S # {}
  PROVE  \E m \in S : \A x \in S : m >= x
  <1> DEFINE T == {n - x : x \in S}
  <1>1. T \in SUBSET Nat /\ T # {}
    <2>1. T # {}
      OBVIOUS
    <2>2. \A x \in S : n - x \in Nat
      OBVIOUS
    <2> QED
      BY <2>1, <2>2
  <1>2. PICK k \in T : \A y \in T : k <= y
    BY <1>1, Smallest
  <1>3. PICK m \in S : k = n - m
    BY <1>2
  <1>4. \A x \in S : n - x \in T
    OBVIOUS
  <1>5. \A x \in S : m >= x
    BY <1>2, <1>3, <1>4
  <1> QED
    BY <1>5

\* The end of a page that is the cursor of the next one is a row of the page, and
\* none is past it.
LEMMA Ends ==
  ASSUME NEW n \in Nat, NEW S \in SUBSET (0 .. n), S # {}
  PROVE  /\ Lowest(S) \in S /\ \A x \in S : Lowest(S) <= x
         /\ Highest(S) \in S /\ \A x \in S : Highest(S) >= x
  <1>1. S \in SUBSET Nat
    OBVIOUS
  <1>2. (\E m \in S : \A x \in S : m <= x) /\ (\E m \in S : \A x \in S : m >= x)
    BY <1>1, Smallest, Largest
  <1> QED
    BY <1>2 DEF Lowest, Highest

\* The rows of a page, upwards and downwards, of those that are ahead.
FirstUp(R)   == {id \in R : Cardinality({x \in R : x < id}) < Limit}
FirstDown(R) == {id \in R : Cardinality({x \in R : x > id}) < Limit}

\* A page upwards ends below what it leaves out, and leaves nothing out if it is
\* short.
LEMMA PageUp ==
  ASSUME NEW n \in Nat, NEW R \in SUBSET (0 .. n), NEW P, P = FirstUp(R)
  PROVE  /\ \A id \in R \ P : \A x \in P : x < id
         /\ Cardinality(P) < Limit => P = R
         /\ Cardinality(P) >= Limit => P # {}
  <1> DEFINE front(id) == {x \in R : x < id}
  <1> USE DEF FirstUp
  <1>1. IsFiniteSet(R) /\ IsFiniteSet(P) /\ P \subseteq R /\ \A x \in R : x \in Nat
        /\ \A id \in R : IsFiniteSet(front(id)) /\ Cardinality(front(id)) \in Nat
    <2>1. IsFiniteSet(0 .. n)
      BY FS_Interval
    <2>2. IsFiniteSet(R)
      BY <2>1, FS_Subset
    <2>3. IsFiniteSet(P) /\ \A id \in R : IsFiniteSet(front(id))
      BY <2>2, FS_Subset
    <2> QED
      BY <2>2, <2>3, FS_CardinalityType
  <1>2. ASSUME NEW id \in R \ P, NEW x \in P PROVE x < id
    <2>1. SUFFICES ASSUME id <= x PROVE FALSE
      OBVIOUS
    <2>2. id \in Nat /\ x \in Nat /\ \A y \in R : y \in Nat
      BY <1>1
    <2>3. front(id) \subseteq front(x)
      <3>1. \A y \in R : y < id => y < x
        BY <2>1, <2>2
      <3> QED
        BY <3>1
    <2>4. Cardinality(front(id)) <= Cardinality(front(x))
      BY <1>1, <2>3, FS_Subset
    <2> HIDE DEF front
    <2>5. Cardinality(front(x)) < Limit /\ ~(Cardinality(front(id)) < Limit)
      BY DEF front
    <2> QED
      BY <1>1, <2>4, <2>5, LimitAssumption
  <1>3. ASSUME Cardinality(P) < Limit, P # R PROVE FALSE
    <2>1. R \ P # {} /\ R \ P \in SUBSET Nat
      BY <1>1, <1>3
    <2>2. PICK m \in R \ P : \A x \in R \ P : m <= x
      BY <2>1, Smallest
    <2>3. front(m) \subseteq P
      <3>1. m \in Nat /\ \A x \in R : x \in Nat
        BY <1>1, <2>2
      <3>2. \A x \in R \ P : ~(x < m)
        BY <2>2, <3>1
      <3> QED
        BY <3>2
    <2>4. Cardinality(front(m)) <= Cardinality(P) /\ Cardinality(P) \in Nat
      BY <1>1, <2>3, FS_Subset, FS_CardinalityType
    <2> HIDE DEF front
    <2>5. ~(Cardinality(front(m)) < Limit)
      BY <2>2 DEF front
    <2> QED
      BY <1>1, <1>3, <2>2, <2>4, <2>5, LimitAssumption
  <1>4. Cardinality(P) >= Limit => P # {}
    <2>1. P = {} => Cardinality(P) = 0
      BY FS_EmptySet
    <2> QED
      BY <2>1, LimitAssumption
  <1> QED
    BY <1>2, <1>3, <1>4

\* A page downwards ends above what it leaves out.
LEMMA PageDown ==
  ASSUME NEW n \in Nat, NEW R \in SUBSET (0 .. n), NEW P, P = FirstDown(R)
  PROVE  /\ \A id \in R \ P : \A x \in P : id < x
         /\ Cardinality(P) < Limit => P = R
         /\ Cardinality(P) >= Limit => P # {}
  <1> DEFINE front(id) == {x \in R : x > id}
  <1> USE DEF FirstDown
  <1>1. IsFiniteSet(R) /\ IsFiniteSet(P) /\ P \subseteq R /\ \A x \in R : x \in Nat
        /\ \A id \in R : IsFiniteSet(front(id)) /\ Cardinality(front(id)) \in Nat
    <2>1. IsFiniteSet(0 .. n)
      BY FS_Interval
    <2>2. IsFiniteSet(R)
      BY <2>1, FS_Subset
    <2>3. IsFiniteSet(P) /\ \A id \in R : IsFiniteSet(front(id))
      BY <2>2, FS_Subset
    <2> QED
      BY <2>2, <2>3, FS_CardinalityType
  <1>2. ASSUME NEW id \in R \ P, NEW x \in P PROVE id < x
    <2>1. SUFFICES ASSUME x <= id PROVE FALSE
      OBVIOUS
    <2>2. id \in Nat /\ x \in Nat /\ \A y \in R : y \in Nat
      BY <1>1
    <2>3. front(id) \subseteq front(x)
      <3>1. \A y \in R : y > id => y > x
        BY <2>1, <2>2
      <3> QED
        BY <3>1
    <2>4. Cardinality(front(id)) <= Cardinality(front(x))
      BY <1>1, <2>3, FS_Subset
    <2> HIDE DEF front
    <2>5. Cardinality(front(x)) < Limit /\ ~(Cardinality(front(id)) < Limit)
      BY DEF front
    <2> QED
      BY <1>1, <2>4, <2>5, LimitAssumption
  <1>3. ASSUME Cardinality(P) < Limit, P # R PROVE FALSE
    <2>1. R \ P # {} /\ R \ P \in SUBSET (0 .. n)
      BY <1>1, <1>3
    <2>2. PICK m \in R \ P : \A x \in R \ P : m >= x
      BY <2>1, Largest
    <2>3. front(m) \subseteq P
      <3>1. m \in Nat /\ \A x \in R : x \in Nat
        BY <1>1, <2>2
      <3>2. \A x \in R \ P : ~(x > m)
        BY <2>2, <3>1
      <3> QED
        BY <3>2
    <2>4. Cardinality(front(m)) <= Cardinality(P) /\ Cardinality(P) \in Nat
      BY <1>1, <2>3, FS_Subset, FS_CardinalityType
    <2> HIDE DEF front
    <2>5. ~(Cardinality(front(m)) < Limit)
      BY <2>2 DEF front
    <2> QED
      BY <1>1, <1>3, <2>2, <2>4, <2>5, LimitAssumption
  <1>4. Cardinality(P) >= Limit => P # {}
    <2>1. P = {} => Cardinality(P) = 0
      BY FS_EmptySet
    <2> QED
      BY <2>1, LimitAssumption
  <1> QED
    BY <1>2, <1>3, <1>4

\* No request has begun.
LEMMA InitIndInv == Init => IndInv
  <1> SUFFICES ASSUME Init PROVE IndInv
    OBVIOUS
  <1>1. /\ DOMAIN rows = {} /\ Creators = {} /\ Cardinality(Requests) \in Nat
        /\ \A c \in Channels : events[c] = <<>> /\ Len(events[c]) = 0
    BY RequestsAssumption, FS_CardinalityType DEF Init, Creators, None
  <1>2. TypeOK
    <2>1. \A v \in Readers : since[v] \in Nat /\ since[v] <= Len(events[topic[v]])
      BY <1>1 DEF Init
    <2>2. events \in [Channels -> Seq(Event)]
      BY DEF Init
    <2>3. since \in [Readers -> Nat]
      BY DEF Init
    <2> QED
      BY <1>1, <2>1, <2>2, <2>3 DEF Init, TypeOK
  <1>3. Stages /\ Misses
    BY <1>1 DEF Init, Stages, Stage, Kinds, Misses, Missed
  <1>4. Drawn
    BY <1>1, FS_EmptySet DEF Init, Drawn
  <1>5. Deletes
    BY <1>1 DEF Init, Deletes, Deleted, None
  <1>6. Sequenced /\ AnswersAfterEvents
    BY <1>1 DEF Init, Sequenced, AnswersAfterEvents
  <1>7. Told
    BY <1>1 DEF Init, Told
  <1>8. Covered /\ ShownOnce
    BY <1>1 DEF Init, Covered, Covering, Live, ShownOnce
  <1>9. Settled
    BY <1>1 DEF Settled
  <1> QED
    BY <1>2, <1>3, <1>4, <1>5, <1>6, <1>7, <1>8, <1>9 DEF IndInv

------------------------------------------------------------------------------
(* What the steps change, request by request.                                 *)

\* A step of request r leaves what it finds of the other requests.
Alone(r) ==
  \A q \in Requests \ {r} :
    /\ pc'[q] = pc[q] /\ op'[q] = op[q] /\ who'[q] = who[q] /\ chan'[q] = chan[q]
    /\ msg'[q] = msg[q] /\ status'[q] = status[q] /\ earlier'[q] = earlier[q]

\* A step that moves request r, and may answer it, and does nothing else.
Moves(r) ==
  /\ Alone(r)
  /\ UNCHANGED <<made, rows, lastId, events, op, who, chan, msg, reader, earlier, there, lost, crossed>>

\* A request of the wrong form is answered at once.
LEMMA RejectMoves ==
  ASSUME TypeOK, NEW r \in Requests, Reject(r)
  PROVE  Moves(r) /\ pc[r] = "idle" /\ pc'[r] = "done" /\ status'[r] = 400
  BY DEF Reject, Answer, Goto, Moves, Alone, TypeOK

\* The statement of a change finds no row.
LEMMA MissMoves ==
  ASSUME TypeOK, NEW r \in Requests, Miss(r)
  PROVE  Moves(r) /\ pc[r] \in {"update", "delete"} /\ ~Owned(r)
         /\ pc'[r] = "classify" /\ status'[r] = status[r]
  BY DEF Miss, Goto, Moves, Alone, TypeOK

\* The second statement gives the reason.
LEMMA ClassifyMissMoves ==
  ASSUME TypeOK, NEW r \in Requests, ClassifyMiss(r)
  PROVE  Moves(r) /\ pc[r] = "classify" /\ pc'[r] = "done"
         /\ status'[r] = IF msg[r] \in Live(chan[r]) /\ rows[msg[r]].author # who[r]
                         THEN 403 ELSE 404
  BY DEF ClassifyMiss, Answer, Goto, Moves, Alone, TypeOK

\* A statement fails and changes nothing.
LEMMA StatementFailsMoves ==
  ASSUME TypeOK, NEW r \in Requests, StatementFails(r)
  PROVE  Moves(r) /\ pc[r] \in Kinds \cup {"classify"} /\ pc'[r] = "done" /\ status'[r] = 500
  BY DEF StatementFails, Answer, Goto, Moves, Alone, TypeOK, Kinds

\* A statement of request r commits: r goes on to publish, or fails and its
\* message is lost to the subscribers.
Commits(r) ==
  /\ Alone(r)
  /\ UNCHANGED <<made, lastId, events, op, who, chan, msg, reader, earlier, there>>
  /\ \/ pc'[r] = "publish" /\ status'[r] = status[r] /\ lost' = lost
     \/ pc'[r] = "done" /\ status'[r] = 500 /\ lost' = lost \cup {msg[r]}
  /\ crossed \subseteq crossed'
  /\ Pending(msg[r]) # {} => msg[r] \in crossed'
  /\ crossed' \subseteq crossed \cup {msg[r]}

\* A commit is followed by Publish, or by the loss of the request.
LEMMA CommittedCommits ==
  ASSUME TypeOK, NEW r \in Requests, Committed(r),
         UNCHANGED <<made, lastId, events, op, who, chan, msg, reader, earlier, there>>
  PROVE  Commits(r)
  <1>1. /\ Alone(r)
        /\ \/ pc'[r] = "publish" /\ status'[r] = status[r] /\ lost' = lost
           \/ pc'[r] = "done" /\ status'[r] = 500 /\ lost' = lost \cup {msg[r]}
    BY DEF Committed, Answer, Goto, Alone, TypeOK
  <1>2. crossed' = crossed \cup
          {id \in {msg[r]} : \E q \in Requests : pc[q] = "publish" /\ msg[q] = id}
    BY DEF Committed
  <1> QED
    BY <1>1, <1>2 DEF Commits, Pending

\* The insert adds the row of the request.
LEMMA InsertCommits ==
  ASSUME TypeOK, NEW r \in Requests, Insert(r)
  PROVE  /\ Commits(r) /\ pc[r] = "create"
         /\ DOMAIN rows' = DOMAIN rows \cup {msg[r]}
         /\ rows'[msg[r]] = [channel |-> chan[r], author |-> who[r], content |-> r, live |-> TRUE]
         /\ \A id \in DOMAIN rows \ {msg[r]} : rows'[id] = rows[id]
  <1>1. Commits(r)
    BY CommittedCommits DEF Insert
  <1> QED
    BY <1>1 DEF Insert

\* The update replaces the content of a live row of the author.
LEMMA UpdateCommits ==
  ASSUME TypeOK, NEW r \in Requests, Update(r)
  PROVE  /\ Commits(r) /\ pc[r] = "update" /\ msg[r] \in Live(chan[r]) /\ Own(r)
         /\ DOMAIN rows' = DOMAIN rows
         /\ rows'[msg[r]] = [rows[msg[r]] EXCEPT !.content = r]
         /\ \A id \in DOMAIN rows \ {msg[r]} : rows'[id] = rows[id]
  <1>1. Commits(r)
    BY CommittedCommits DEF Update
  <1> QED
    BY <1>1 DEF Update, Owned, Live, Own

\* The delete empties a live row of the author.
LEMMA DeleteCommits ==
  ASSUME TypeOK, NEW r \in Requests, Delete(r)
  PROVE  /\ Commits(r) /\ pc[r] = "delete" /\ msg[r] \in Live(chan[r]) /\ Own(r)
         /\ DOMAIN rows' = DOMAIN rows
         /\ rows'[msg[r]] = [rows[msg[r]] EXCEPT !.content = Empty, !.live = FALSE]
         /\ \A id \in DOMAIN rows \ {msg[r]} : rows'[id] = rows[id]
  <1>1. Commits(r)
    BY CommittedCommits DEF Delete
  <1> QED
    BY <1>1 DEF Delete, Owned, Live, Own

\* A request arrives.
Begins(r, kind) ==
  /\ pc[r] = "idle" /\ pc'[r] = kind /\ op'[r] = kind
  /\ who'[r] \in Users /\ chan'[r] \in Channels /\ status'[r] = status[r]
  /\ earlier'[r] = Answered
  /\ Alone(r)
  /\ UNCHANGED <<made, rows, events, reader, lost, crossed>>

\* A create begins by drawing an id.
LEMMA AskCreateBegins ==
  ASSUME TypeOK, NEW r \in Requests, AskCreate(r)
  PROVE  Begins(r, "create") /\ lastId' = lastId + 1 /\ msg'[r] = lastId + 1 /\ there' = there
  BY DEF AskCreate, Begin, Goto, Begins, Alone, TypeOK

\* A change begins with an id that the client has.
LEMMA AskChangeBegins ==
  ASSUME TypeOK, NEW r \in Requests, NEW kind \in {"update", "delete"},
         NEW id \in {NoRow} \cup 1 .. lastId, AskChange(r, kind, id)
  PROVE  Begins(r, kind) /\ lastId' = lastId /\ msg'[r] = id
         /\ there' = IF id \in Live(chan'[r]) THEN there \cup {r} ELSE there
  BY DEF AskChange, Begin, Goto, Begins, Alone, TypeOK

\* The event goes out with the answer.
Publishes(r) ==
  /\ pc[r] = "publish" /\ pc'[r] = "done" /\ status'[r] = SuccessCode[op[r]]
  /\ events'[chan[r]] = Append(events[chan[r]], <<op[r], msg[r], r>>)
  /\ \A c \in Channels \ {chan[r]} : events'[c] = events[c]
  /\ Alone(r)
  /\ UNCHANGED <<made, rows, lastId, op, who, chan, msg, reader, earlier, there, lost, crossed>>

\* The event goes to the channel of the request.
LEMMA PublishPublishes ==
  ASSUME TypeOK, Stages, NEW r \in Requests, Publish(r)
  PROVE  Publishes(r)
  <1>1. chan[r] \in Channels
    BY DEF Publish, Stages, Stage, Kinds, None
  <1> QED
    BY <1>1 DEF Publish, Answer, Goto, Publishes, Alone, TypeOK

------------------------------------------------------------------------------
(* Fetching.                                                                  *)

\* The ids that have been drawn are as many as the creates, and fit in Ids.
LEMMA DrawnIds ==
  ASSUME TypeOK, Drawn
  PROVE  /\ Cardinality(Requests) \in Nat /\ lastId \in Nat /\ 1 .. lastId \subseteq Ids
         /\ IsFiniteSet(Creators) /\ Cardinality(Creators) = lastId
  <1>1. Cardinality(Requests) \in Nat /\ IsFiniteSet(Creators)
    BY RequestsAssumption, FS_CardinalityType, FS_Subset DEF Creators
  <1> QED
    BY <1>1 DEF TypeOK, Drawn, Ids

\* A page shows live rows from the front of what is ahead of the reader: the rest
\* is ahead of it still, what it shows is not, and a short page leaves no rest.
LEMMA FetchPage ==
  ASSUME TypeOK, Drawn, NEW v \in Readers, Fetch(v), from[v] # NoRow => cursor[v] # NoRow
  PROVE  \E page \in SUBSET Live(topic[v]) :
           /\ shown' = [shown EXCEPT ![v] = @ \cup {<<id, rows[id].content>> : id \in page}]
           /\ state' \in [Readers -> {"away", "fetching", "ready"}]
           /\ cursor' \in [Readers -> Ids \cup {NoRow}]
           /\ state'[v] # "away" /\ (from[v] # NoRow => cursor'[v] # NoRow)
           /\ \A w \in Readers \ {v} : state'[w] = state[w] /\ cursor'[w] = cursor[w]
           /\ \A id \in Live(topic[v]) :
                Ahead(v, id) => id \in page \/ (state'[v] = "fetching" /\ Ahead(v, id)')
           /\ \A id \in page : Ahead(v, id)
           /\ state'[v] = "fetching" => /\ \A id \in page : ~Ahead(v, id)'
                                       /\ \A id \in Ids : ~Ahead(v, id) => ~Ahead(v, id)'
  <1> DEFINE up == from[v] # NoRow
             R  == {id \in Live(topic[v]) : Ahead(v, id)}
             c  == cursor[v]
  <1>1. PICK page : page = IF up THEN Page(topic[v], 0, c) ELSE Page(topic[v], c, 0)
    OBVIOUS
  <1>2. /\ state[v] = "fetching" /\ from' = from
        /\ shown' = [shown EXCEPT ![v] = @ \cup {<<id, rows[id].content>> : id \in page}]
        /\ Cardinality(page) < Limit => state' = [state EXCEPT ![v] = "ready"] /\ cursor' = cursor
        /\ ~(Cardinality(page) < Limit) =>
             /\ cursor' = [cursor EXCEPT ![v] = IF up THEN Highest(page) ELSE Lowest(page)]
             /\ state' = state
    BY <1>1 DEF Fetch
  <1>3. c \in Ids \cup {NoRow} /\ Live(topic[v]) \subseteq Ids /\ 1 .. lastId \subseteq Ids
        /\ lastId \in Nat /\ Cardinality(Requests) \in Nat
    BY DrawnIds DEF TypeOK, Live
  <1>4. R \in SUBSET (0 .. Cardinality(Requests)) /\ R \subseteq Live(topic[v])
    BY <1>3 DEF Ids
  <1>7. \A id \in R : Ahead(v, id)
    OBVIOUS
  <1>5. CASE up
    <2>1. c \in Nat /\ c > 0
      BY <1>3, <1>5 DEF Ids, NoRow
    <2>2. R = {id \in Live(topic[v]) : (0 = 0 \/ id < 0) /\ (c = 0 \/ id > c)}
      BY <1>3, <1>5, <2>1 DEF Ahead
    <2> HIDE DEF R
    <2>3. page = FirstUp(R)
      BY <1>1, <1>5, <2>1, <2>2 DEF Page, FirstUp
    <2>4. page \subseteq R
      BY <2>3 DEF FirstUp
    <2>5. /\ \A id \in R \ page : \A x \in page : x < id
          /\ Cardinality(page) < Limit => page = R
          /\ Cardinality(page) >= Limit => page # {}
      BY <1>3, <1>4, <2>3, PageUp
    <2>6. CASE Cardinality(page) < Limit
      <3>1. state'[v] = "ready" /\ cursor' = cursor /\ state' \in [Readers -> {"away", "fetching", "ready"}]
            /\ \A w \in Readers \ {v} : state'[w] = state[w]
        <4>1. state' = [state EXCEPT ![v] = "ready"] /\ cursor' = cursor
          BY <1>2, <2>6
        <4> QED
          BY <4>1 DEF TypeOK
      <3>2. \A id \in Live(topic[v]) : Ahead(v, id) => id \in page
        BY <2>5, <2>6 DEF R
      <3> QED
        BY <1>2, <1>4, <1>7, <2>4, <3>1, <3>2 DEF TypeOK
    <2>7. CASE ~(Cardinality(page) < Limit)
      <3>1. Cardinality(page) \in Nat
        <4>1. IsFiniteSet(0 .. Cardinality(Requests))
          BY <1>3, FS_Interval
        <4>2. page \in SUBSET (0 .. Cardinality(Requests))
          BY <1>4, <2>4
        <4> QED
          BY <4>1, <4>2, FS_Subset, FS_CardinalityType
      <3>2. Highest(page) \in page /\ \A x \in page : Highest(page) >= x
        <4>1. page # {}
          BY <2>5, <2>7, <3>1, LimitAssumption
        <4>2. page \in SUBSET (0 .. Cardinality(Requests))
          BY <1>4, <2>4
        <4> QED
          BY <1>3, <4>1, <4>2, Ends
      <3>3. Highest(page) \in Ids /\ Highest(page) # NoRow
        <4>1. Highest(page) \in Ids
          BY <1>3, <1>4, <2>4, <3>2
        <4> QED
          BY <1>3, <4>1 DEF Ids, NoRow
      <3>4. cursor' = [cursor EXCEPT ![v] = Highest(page)] /\ state' = state
        BY <1>2, <1>5, <2>7
      <3>5. cursor' \in [Readers -> Ids \cup {NoRow}] /\ cursor'[v] = Highest(page)
            /\ \A w \in Readers \ {v} : cursor'[w] = cursor[w]
        BY <3>3, <3>4 DEF TypeOK
      <3>6. \A id \in Live(topic[v]) : Ahead(v, id) => id \in page \/ Ahead(v, id)'
        <4> SUFFICES ASSUME NEW id \in Live(topic[v]), Ahead(v, id), id \notin page
                     PROVE  Ahead(v, id)'
          OBVIOUS
        <4>1. Highest(page) < id /\ Highest(page) \in Nat /\ id \in Nat
          BY <1>3, <2>5, <3>2, <3>3 DEF R, Ids
        <4> QED
          BY <1>2, <1>5, <3>5, <4>1 DEF Ahead
      <3>7. /\ \A id \in page : ~Ahead(v, id)'
            /\ \A id \in Ids : ~Ahead(v, id) => ~Ahead(v, id)'
        <4>1. Ahead(v, Highest(page))
          BY <1>7, <2>4, <3>2
        <4>2. Highest(page) > c /\ Highest(page) \in Nat /\ \A id \in page : id \in Nat
          BY <1>3, <1>4, <1>5, <2>4, <3>3, <4>1 DEF Ahead, Ids
        <4>3. \A id : Ahead(v, id)' <=> id > Highest(page)
          BY <1>2, <1>5, <3>5 DEF Ahead
        <4>4. \A id : Ahead(v, id) <=> id > c
          BY <1>5 DEF Ahead
        <4>5. \A id \in Ids : id > Highest(page) => id > c
          BY <1>3, <2>1, <4>2 DEF Ids
        <4>6. \A id \in page : ~(id > Highest(page))
          BY <3>2, <4>2
        <4> QED
          BY <4>3, <4>4, <4>5, <4>6
      <3>8. page \in SUBSET Live(topic[v]) /\ \A id \in page : Ahead(v, id)
        BY <1>4, <1>7, <2>4
      <3>9. /\ state' \in [Readers -> {"away", "fetching", "ready"}] /\ state'[v] = "fetching"
            /\ \A w \in Readers \ {v} : state'[w] = state[w]
        BY <1>2, <3>4 DEF TypeOK
      <3> USE <3>8
      <3> WITNESS page \in SUBSET Live(topic[v])
      <3> QED
        BY <1>2, <3>3, <3>5, <3>6, <3>7, <3>8, <3>9
    <2> QED
      BY <2>6, <2>7
  <1>6. CASE ~up
    <2>1. c \in Nat
      BY <1>3 DEF Ids, NoRow
    <2>2. R = {id \in Live(topic[v]) : (c = 0 \/ id < c) /\ (0 = 0 \/ id > 0)}
      BY <1>3, <1>6, <2>1 DEF Ahead, NoRow
    <2> HIDE DEF R
    <2>3. page = FirstDown(R)
      BY <1>1, <1>6, <2>1, <2>2 DEF Page, FirstDown
    <2>4. page \subseteq R
      BY <2>3 DEF FirstDown
    <2>5. /\ \A id \in R \ page : \A x \in page : id < x
          /\ Cardinality(page) < Limit => page = R
          /\ Cardinality(page) >= Limit => page # {}
      BY <1>3, <1>4, <2>3, PageDown
    <2>6. CASE Cardinality(page) < Limit
      <3>1. state'[v] = "ready" /\ cursor' = cursor /\ state' \in [Readers -> {"away", "fetching", "ready"}]
            /\ \A w \in Readers \ {v} : state'[w] = state[w]
        <4>1. state' = [state EXCEPT ![v] = "ready"] /\ cursor' = cursor
          BY <1>2, <2>6
        <4> QED
          BY <4>1 DEF TypeOK
      <3>2. \A id \in Live(topic[v]) : Ahead(v, id) => id \in page
        BY <2>5, <2>6 DEF R
      <3> QED
        BY <1>2, <1>4, <1>6, <1>7, <2>4, <3>1, <3>2 DEF TypeOK
    <2>7. CASE ~(Cardinality(page) < Limit)
      <3>1. Cardinality(page) \in Nat
        <4>1. IsFiniteSet(0 .. Cardinality(Requests))
          BY <1>3, FS_Interval
        <4>2. page \in SUBSET (0 .. Cardinality(Requests))
          BY <1>4, <2>4
        <4> QED
          BY <4>1, <4>2, FS_Subset, FS_CardinalityType
      <3>2. Lowest(page) \in page /\ \A x \in page : Lowest(page) <= x
        <4>1. page # {}
          BY <2>5, <2>7, <3>1, LimitAssumption
        <4>2. page \in SUBSET (0 .. Cardinality(Requests))
          BY <1>4, <2>4
        <4> QED
          BY <1>3, <4>1, <4>2, Ends
      <3>3. Lowest(page) \in Ids
        BY <1>3, <1>4, <2>4, <3>2
      <3>4. cursor' = [cursor EXCEPT ![v] = Lowest(page)] /\ state' = state
        BY <1>2, <1>6, <2>7
      <3>5. cursor' \in [Readers -> Ids \cup {NoRow}] /\ cursor'[v] = Lowest(page)
            /\ \A w \in Readers \ {v} : cursor'[w] = cursor[w]
        BY <3>3, <3>4 DEF TypeOK
      <3>6. \A id \in Live(topic[v]) : Ahead(v, id) => id \in page \/ Ahead(v, id)'
        <4> SUFFICES ASSUME NEW id \in Live(topic[v]), Ahead(v, id), id \notin page
                     PROVE  Ahead(v, id)'
          OBVIOUS
        <4>1. id < Lowest(page)
          BY <2>5, <3>2 DEF R
        <4> QED
          BY <1>2, <1>6, <3>5, <4>1 DEF Ahead
      <3>7. /\ \A id \in page : ~Ahead(v, id)'
            /\ \A id \in Ids : ~Ahead(v, id) => ~Ahead(v, id)'
        <4>1. Ahead(v, Lowest(page))
          BY <1>7, <2>4, <3>2
        <4>2. /\ c = NoRow \/ Lowest(page) < c
              /\ Lowest(page) \in Nat /\ Lowest(page) # NoRow /\ \A id \in page : id \in Nat
          BY <1>3, <1>4, <1>6, <2>4, <3>3, <4>1 DEF Ahead, Ids, NoRow
        <4>3. \A id : Ahead(v, id)' <=> id < Lowest(page)
          BY <1>2, <1>6, <3>5, <4>2 DEF Ahead
        <4>4. \A id : Ahead(v, id) <=> c = NoRow \/ id < c
          BY <1>6 DEF Ahead
        <4>5. \A id \in Ids : id < Lowest(page) => c = NoRow \/ id < c
          BY <1>3, <2>1, <4>2 DEF Ids
        <4>6. \A id \in page : ~(id < Lowest(page))
          BY <3>2, <4>2
        <4> QED
          BY <4>3, <4>4, <4>5, <4>6
      <3>8. page \in SUBSET Live(topic[v]) /\ \A id \in page : Ahead(v, id)
        BY <1>4, <1>7, <2>4
      <3>9. /\ state' \in [Readers -> {"away", "fetching", "ready"}] /\ state'[v] = "fetching"
            /\ \A w \in Readers \ {v} : state'[w] = state[w]
        BY <1>2, <3>4 DEF TypeOK
      <3> USE <3>8
      <3> WITNESS page \in SUBSET Live(topic[v])
      <3> QED
        BY <1>2, <1>6, <3>3, <3>5, <3>6, <3>7, <3>8, <3>9
    <2> QED
      BY <2>6, <2>7
  <1> QED
    BY <1>5, <1>6

------------------------------------------------------------------------------
(* Types.                                                                     *)

\* A request that has not begun is no creator yet: there is an id left for it.
LEMMA IdLeft ==
  ASSUME TypeOK, Drawn, NEW r \in Requests, r \notin Creators
  PROVE  lastId + 1 \in Ids /\ Cardinality(Creators \cup {r}) = lastId + 1
  <1>1. Cardinality(Creators \cup {r}) = lastId + 1
    BY DrawnIds, FS_AddElement
  <1>2. Creators \cup {r} \in SUBSET Requests
    BY DEF Creators
  <1>3. lastId + 1 <= Cardinality(Requests)
    BY <1>1, <1>2, RequestsAssumption, FS_Subset
  <1> QED
    BY <1>1, <1>3, DrawnIds DEF Ids

\* Appending an event keeps the others where they are.
LEMMA AppendEvent ==
  ASSUME NEW S, NEW s \in Seq(S), NEW e \in S
  PROVE  /\ Append(s, e) \in Seq(S) /\ Len(Append(s, e)) = Len(s) + 1 /\ Len(s) \in Nat
         /\ Append(s, e)[Len(s) + 1] = e
         /\ \A i \in 1 .. Len(s) : Append(s, e)[i] = s[i]
  OBVIOUS

\* The event that Publish sends has the shape of an event.
LEMMA PublishedEvent ==
  ASSUME TypeOK, Stages, Drawn, NEW r \in Requests, pc[r] = "publish"
  PROVE  /\ <<op[r], msg[r], r>> \in Event /\ op[r] \in Kinds /\ chan[r] \in Channels
         /\ SuccessCode[op[r]] \in {200, 201, 204}
         /\ SuccessCode[op[r]] = 204 => op[r] = "delete"
  <1>1. op[r] \in Kinds /\ msg[r] \in DOMAIN rows /\ op[r] # None
    BY DEF Stages, Stage, Own, Kinds, None
  <1>2. msg[r] \in Ids
    BY <1>1, DrawnIds DEF TypeOK
  <1>3. SuccessCode[op[r]] \in {200, 201, 204} /\ (SuccessCode[op[r]] = 204 => op[r] = "delete")
    BY <1>1 DEF SuccessCode, Kinds
  <1> QED
    BY <1>1, <1>2, <1>3 DEF Event, Kinds, Stages, Stage

\* Every step keeps the types.
LEMMA NextTypeOK ==
  ASSUME TypeOK, Stages, Drawn, Deletes, Covered, [Next]_vars
  PROVE  TypeOK'
  <1>1. ASSUME NEW c \in Channels, CreateChannel(c) PROVE TypeOK'
    BY <1>1 DEF CreateChannel, TypeOK, request, reader
  <1>2. ASSUME NEW r \in Requests, AskCreate(r) PROVE TypeOK'
    <2>1. lastId + 1 \in Ids
      <3>1. r \notin Creators
        BY <1>2 DEF AskCreate, Begin, Stages, Stage, Creators, None
      <3> QED
        BY <3>1, IdLeft
    <2>2. lastId' \in 0 .. Cardinality(Requests) /\ 1 .. lastId \subseteq 1 .. lastId'
          /\ DOMAIN rows' \subseteq 1 .. lastId'
      BY <1>2, <2>1, DrawnIds DEF AskCreate, Ids, TypeOK
    <2>3. /\ pc' \in [Requests -> {"idle", "create", "update", "delete", "classify", "publish", "done"}]
          /\ op' \in [Requests -> {None, "create", "update", "delete"}]
          /\ who' \in [Requests -> Users \cup {None}]
          /\ chan' \in [Requests -> Channels \cup {None}]
          /\ earlier' \in [Requests -> SUBSET Requests]
      BY <1>2 DEF AskCreate, Begin, Goto, TypeOK, Answered
    <2>4. msg' \in [Requests -> Ids \cup {NoRow}]
      BY <1>2, <2>1 DEF AskCreate, TypeOK
    <2> QED
      BY <1>2, <2>2, <2>3, <2>4 DEF AskCreate, TypeOK, reader
  <1>3. ASSUME NEW r \in Requests, NEW kind \in {"update", "delete"},
               NEW id \in {NoRow} \cup 1 .. lastId, AskChange(r, kind, id)
        PROVE  TypeOK'
    <2>1. /\ pc' \in [Requests -> {"idle", "create", "update", "delete", "classify", "publish", "done"}]
          /\ op' \in [Requests -> {None, "create", "update", "delete"}]
          /\ who' \in [Requests -> Users \cup {None}]
          /\ chan' \in [Requests -> Channels \cup {None}]
          /\ earlier' \in [Requests -> SUBSET Requests]
      BY <1>3 DEF AskChange, Begin, Goto, TypeOK, Answered
    <2>2. msg' \in [Requests -> Ids \cup {NoRow}] /\ there' \subseteq Requests
      BY <1>3, DrawnIds DEF AskChange, TypeOK
    <2> QED
      BY <1>3, <2>1, <2>2 DEF AskChange, TypeOK, reader
  <1>4. ASSUME NEW r \in Requests,
               Reject(r) \/ Miss(r) \/ ClassifyMiss(r) \/ StatementFails(r)
        PROVE  TypeOK'
    <2>1. PICK next \in {"classify", "done"}, code \in {0, 400, 403, 404, 500} :
            /\ pc' = [pc EXCEPT ![r] = next]
            /\ status' = status \/ status' = [status EXCEPT ![r] = code]
      <3>1. CASE Reject(r)
        BY <3>1 DEF Reject, Answer, Goto
      <3>2. CASE Miss(r)
        BY <3>2 DEF Miss, Goto
      <3>3. CASE ClassifyMiss(r)
        <4>1. PICK code \in {403, 404} : status' = [status EXCEPT ![r] = code]
          BY <3>3 DEF ClassifyMiss, Answer
        <4>2. pc' = [pc EXCEPT ![r] = "done"]
          BY <3>3 DEF ClassifyMiss, Answer, Goto
        <4> WITNESS "done" \in {"classify", "done"}, code \in {0, 400, 403, 404, 500}
        <4> QED
          BY <4>1, <4>2
      <3>4. CASE StatementFails(r)
        BY <3>4 DEF StatementFails, Answer, Goto
      <3> QED
        BY <1>4, <3>1, <3>2, <3>3, <3>4
    <2>2. /\ pc' \in [Requests -> {"idle", "create", "update", "delete", "classify", "publish", "done"}]
          /\ status' \in [Requests -> {0, 200, 201, 204, 400, 403, 404, 500}]
      <3>1. CASE status' = status
        BY <2>1, <3>1 DEF TypeOK
      <3>2. CASE status' = [status EXCEPT ![r] = code]
        BY <2>1, <3>2 DEF TypeOK
      <3> QED
        BY <2>1, <3>1, <3>2
    <2>3. UNCHANGED <<made, rows, lastId, events, op, who, chan, msg, reader, earlier, there, lost, crossed>>
      BY <1>4 DEF Reject, Miss, ClassifyMiss, StatementFails
    <2> QED
      BY <2>2, <2>3 DEF TypeOK, reader
  <1>5. ASSUME NEW r \in Requests, Insert(r) \/ Update(r) \/ Delete(r)
        PROVE  TypeOK'
    <2>1. /\ msg[r] \in 1 .. lastId /\ chan[r] \in Channels /\ who[r] \in Users
      <3>1. CASE Insert(r)
        BY <3>1 DEF Insert, Stages, Stage, Drawn, Creators, Kinds, None
      <3>2. CASE Update(r) \/ Delete(r)
        BY <3>2 DEF Update, Delete, Owned, Live, Stages, Stage, Kinds, None, TypeOK
      <3> QED
        BY <1>5, <3>1, <3>2
    <2>2. rows'[msg[r]] \in Row
      <3>1. CASE Insert(r)
        <4>1. rows'[msg[r]] = [channel |-> chan[r], author |-> who[r], content |-> r, live |-> TRUE]
          BY <3>1, InsertCommits
        <4> QED
          BY <2>1, <4>1 DEF Row
      <3>2. CASE Update(r)
        <4>1. rows'[msg[r]] = [rows[msg[r]] EXCEPT !.content = r] /\ rows[msg[r]] \in Row
          BY <3>2, UpdateCommits DEF TypeOK, Own
        <4> QED
          BY <4>1 DEF Row
      <3>3. CASE Delete(r)
        <4>1. rows'[msg[r]] = [rows[msg[r]] EXCEPT !.content = Empty, !.live = FALSE]
              /\ rows[msg[r]] \in Row
          BY <3>3, DeleteCommits DEF TypeOK, Own
        <4> QED
          BY <4>1 DEF Row
      <3> QED
        BY <1>5, <3>1, <3>2, <3>3
    <2>3. DOMAIN rows' \subseteq DOMAIN rows \cup {msg[r]}
          /\ \A id \in DOMAIN rows' \ {msg[r]} : rows'[id] = rows[id]
      BY <1>5, InsertCommits, UpdateCommits, DeleteCommits
    <2>4. DOMAIN rows' \subseteq 1 .. lastId /\ \A id \in DOMAIN rows' : rows'[id] \in Row
      BY <2>1, <2>2, <2>3 DEF TypeOK
    <2>5. Committed(r) /\ UNCHANGED <<made, lastId, events, op, who, chan, msg, reader, earlier, there>>
      BY <1>5 DEF Insert, Update, Delete
    <2>6. PICK next \in {"publish", "done"} :
            /\ pc' = [pc EXCEPT ![r] = next]
            /\ status' = status \/ status' = [status EXCEPT ![r] = 500]
            /\ lost' = lost \/ lost' = lost \cup {msg[r]}
      BY <2>5 DEF Committed, Answer, Goto
    <2>7. /\ pc' \in [Requests -> {"idle", "create", "update", "delete", "classify", "publish", "done"}]
          /\ status' \in [Requests -> {0, 200, 201, 204, 400, 403, 404, 500}]
      <3>1. CASE status' = status
        BY <2>6, <3>1 DEF TypeOK
      <3>2. CASE status' = [status EXCEPT ![r] = 500]
        BY <2>6, <3>2 DEF TypeOK
      <3> QED
        BY <2>6, <3>1, <3>2
    <2>8. lost' \subseteq Ids /\ crossed' \subseteq Ids
      <3>1. crossed' \subseteq crossed \cup {msg[r]}
        BY <2>5 DEF Committed
      <3> QED
        BY <2>1, <2>6, <3>1, DrawnIds DEF TypeOK
    <2> QED
      BY <2>4, <2>5, <2>7, <2>8 DEF TypeOK, reader
  <1>6. ASSUME NEW r \in Requests, Publish(r) PROVE TypeOK'
    <2> DEFINE c == chan[r]
               e == <<op[r], msg[r], r>>
    <2>1. e \in Event /\ c \in Channels /\ SuccessCode[op[r]] \in {200, 201, 204}
          /\ events[c] \in Seq(Event)
      BY <1>6, PublishedEvent DEF Publish, TypeOK
    <2>2. /\ events' = [events EXCEPT ![c] = Append(events[c], e)]
          /\ pc' \in [Requests -> {"idle", "create", "update", "delete", "classify", "publish", "done"}]
          /\ status' \in [Requests -> {0, 200, 201, 204, 400, 403, 404, 500}]
          /\ UNCHANGED <<made, rows, lastId, op, who, chan, msg, reader, earlier, there, lost, crossed>>
      BY <1>6, <2>1 DEF Publish, Answer, Goto, TypeOK
    <2> HIDE DEF e
    <2>3. events' \in [Channels -> Seq(Event)]
      BY <2>1, <2>2, AppendEvent DEF TypeOK
    <2>4. \A d \in Channels : Len(events[d]) \in Nat /\ Len(events[d]) <= Len(events'[d])
      BY <2>1, <2>2, AppendEvent DEF TypeOK
    <2>5. \A v \in Readers : since'[v] <= Len(events'[topic'[v]])
      BY <2>2, <2>4 DEF TypeOK, reader
    <2> QED
      BY <2>2, <2>3, <2>5 DEF TypeOK, reader
  <1>7. ASSUME NEW v \in Readers, Subscribe(v) PROVE TypeOK'
    <2>1. /\ from' \in [Readers -> Ids \cup {NoRow}] /\ cursor' \in [Readers -> Ids \cup {NoRow}]
          /\ state' \in [Readers -> {"away", "fetching", "ready"}]
      BY <1>7 DEF Subscribe, TypeOK
    <2>2. since' \in [Readers -> Nat] /\ \A w \in Readers : since'[w] <= Len(events[topic[w]])
      <3>1. \A w \in Readers : Len(events[topic[w]]) \in Nat
        BY DEF TypeOK
      <3>2. /\ since' = [since EXCEPT ![v] = Len(events[topic[v]])]
        BY <1>7 DEF Subscribe
      <3> QED
        BY <3>1, <3>2 DEF TypeOK
    <2> QED
      BY <1>7, <2>1, <2>2 DEF Subscribe, TypeOK, request
  <1>8. ASSUME NEW v \in Readers, Fetch(v) PROVE TypeOK'
    <2>1. PICK page \in SUBSET Live(topic[v]) :
            /\ shown' = [shown EXCEPT ![v] = @ \cup {<<id, rows[id].content>> : id \in page}]
            /\ state' \in [Readers -> {"away", "fetching", "ready"}]
            /\ cursor' \in [Readers -> Ids \cup {NoRow}]
      BY <1>8, FetchPage DEF Covered, Covering
    <2>2. \A id \in Live(topic[v]) : id \in Ids /\ rows[id].content \in Requests
      BY DrawnIds DEF Live, Deletes, TypeOK
    <2>3. {<<id, rows[id].content>> : id \in page} \subseteq Ids \X Requests
      BY <2>1, <2>2
    <2>4. shown' \in [Readers -> SUBSET (Ids \X Requests)]
      BY <2>1, <2>3 DEF TypeOK
    <2> QED
      BY <1>8, <2>1, <2>4 DEF Fetch, TypeOK, request
  <1>9. CASE UNCHANGED vars
    BY <1>9 DEF vars, request, reader, TypeOK
  <1> QED
    BY <1>1, <1>2, <1>3, <1>4, <1>5, <1>6, <1>7, <1>8, <1>9 DEF Next

------------------------------------------------------------------------------
(* Requests.                                                                  *)

\* A step that only makes a channel, or is a reader's, or nothing.
Aside == UNCHANGED <<rows, lastId, events, request, earlier, there, lost, crossed>>

\* A new channel has no rows and no events.
LEMMA CreateChannelAside ==
  ASSUME NEW c \in Channels, CreateChannel(c)
  PROVE  Aside /\ UNCHANGED reader
  BY DEF CreateChannel, Aside

\* A reader changes nothing but what it knows.
LEMMA ReaderAside ==
  ASSUME NEW v \in Readers, Subscribe(v) \/ Fetch(v)
  PROVE  Aside
  BY DEF Subscribe, Fetch, Aside

\* Rows keep their channel and author, and are not undeleted.
RowsStay ==
  /\ DOMAIN rows \subseteq DOMAIN rows'
  /\ \A id \in DOMAIN rows : /\ rows'[id].channel = rows[id].channel
                             /\ rows'[id].author = rows[id].author
                             /\ ~rows[id].live => ~rows'[id].live

\* Every step keeps the rows in this sense.
LEMMA NextRowsStay ==
  ASSUME TypeOK, Drawn, [Next]_vars
  PROVE  RowsStay
  <1>1. ASSUME NEW r \in Requests, Insert(r) PROVE RowsStay
    <2>1. msg[r] \notin DOMAIN rows
      BY <1>1 DEF Insert, Drawn
    <2> QED
      BY <1>1, <2>1, InsertCommits DEF RowsStay
  <1>2. ASSUME NEW r \in Requests, Update(r) PROVE RowsStay
    <2>1. msg[r] \in DOMAIN rows /\ rows[msg[r]] \in Row
          /\ rows'[msg[r]] = [rows[msg[r]] EXCEPT !.content = r]
      BY <1>2, UpdateCommits DEF Own, TypeOK
    <2>2. /\ rows'[msg[r]].channel = rows[msg[r]].channel
          /\ rows'[msg[r]].author = rows[msg[r]].author
          /\ rows'[msg[r]].live = rows[msg[r]].live
      BY <2>1 DEF Row
    <2> QED
      BY <1>2, <2>2, UpdateCommits DEF RowsStay
  <1>3. ASSUME NEW r \in Requests, Delete(r) PROVE RowsStay
    <2>1. msg[r] \in DOMAIN rows /\ rows[msg[r]] \in Row
          /\ rows'[msg[r]] = [rows[msg[r]] EXCEPT !.content = Empty, !.live = FALSE]
      BY <1>3, DeleteCommits DEF Own, TypeOK
    <2>2. /\ rows'[msg[r]].channel = rows[msg[r]].channel
          /\ rows'[msg[r]].author = rows[msg[r]].author
          /\ ~rows'[msg[r]].live
      BY <2>1 DEF Row
    <2> QED
      BY <1>3, <2>2, DeleteCommits DEF RowsStay
  <1>4. CASE rows' = rows
    BY <1>4 DEF RowsStay
  <1>5. ASSUME NEW r \in Requests, AskCreate(r) \/ Reject(r) \/ Miss(r) \/ ClassifyMiss(r)
                                   \/ StatementFails(r) \/ Publish(r)
        PROVE  rows' = rows
    BY <1>5 DEF AskCreate, Reject, Miss, ClassifyMiss, StatementFails, Publish
  <1>6. ASSUME NEW r \in Requests, NEW kind \in {"update", "delete"},
               NEW id \in {NoRow} \cup 1 .. lastId, AskChange(r, kind, id)
        PROVE  rows' = rows
    BY <1>6 DEF AskChange
  <1>7. ASSUME NEW c \in Channels, CreateChannel(c) PROVE rows' = rows
    BY <1>7 DEF CreateChannel
  <1>8. ASSUME NEW v \in Readers, Subscribe(v) \/ Fetch(v) PROVE rows' = rows
    BY <1>8 DEF Subscribe, Fetch
  <1>9. UNCHANGED vars => rows' = rows
    BY DEF vars
  <1> QED
    BY <1>1, <1>2, <1>3, <1>4, <1>5, <1>6, <1>7, <1>8, <1>9 DEF Next

\* Every step keeps what requests know.
LEMMA NextStages ==
  ASSUME TypeOK, Stages, Drawn, [Next]_vars
  PROVE  Stages'
  <1> SUFFICES ASSUME NEW q \in Requests PROVE Stage(q)'
    BY DEF Stages
  <1> USE DEF Kinds
  <1>1. RowsStay /\ Stage(q)
    BY NextRowsStay DEF Stages
  <1>2. Own(q) /\ who'[q] = who[q] /\ chan'[q] = chan[q] /\ msg'[q] = msg[q] => Own(q)'
    BY <1>1 DEF Own, RowsStay
  <1> DEFINE Same == /\ pc'[q] = pc[q] /\ op'[q] = op[q] /\ who'[q] = who[q] /\ chan'[q] = chan[q]
                     /\ msg'[q] = msg[q] /\ status'[q] = status[q]
                     /\ (q \in there' <=> q \in there)
  <1>3. CASE Same
    BY <1>1, <1>2, <1>3 DEF Stage
  <1>4. Aside => Same
    BY DEF Aside, request
  <1> HIDE DEF Same
  <1>5. ASSUME NEW r \in Requests, Alone(r), there' = there \/ there' = there \cup {r}, q # r
        PROVE  Same
    BY <1>5 DEF Alone, Same
  <1>6. ASSUME NEW r \in Requests, Moves(r),
               \/ pc'[r] = "done" /\ status'[r] \in {400, 403, 404, 500}
               \/ pc'[r] = "classify" /\ pc[r] \in {"update", "delete"} /\ status'[r] = status[r]
        PROVE  Stage(q)'
    <2>1. CASE q = r
      BY <1>1, <1>6, <2>1 DEF Moves, Stage
    <2>2. CASE q # r
      BY <1>3, <1>5, <1>6, <2>2 DEF Moves
    <2> QED
      BY <2>1, <2>2
  <1>7. ASSUME NEW r \in Requests, Reject(r) \/ Miss(r) \/ ClassifyMiss(r) \/ StatementFails(r)
        PROVE  Stage(q)'
    <2>1. CASE Reject(r)
      BY <1>6, <2>1, RejectMoves
    <2>2. CASE Miss(r)
      BY <1>6, <2>2, MissMoves
    <2>3. CASE ClassifyMiss(r)
      BY <1>6, <2>3, ClassifyMissMoves
    <2>4. CASE StatementFails(r)
      BY <1>6, <2>4, StatementFailsMoves
    <2> QED
      BY <1>7, <2>1, <2>2, <2>3, <2>4
  <1>8. ASSUME NEW r \in Requests, NEW kind \in Kinds, Begins(r, kind),
               there' = there \/ there' = there \cup {r}
        PROVE  Stage(q)'
    <2>1. CASE q = r
      BY <1>1, <1>8, <2>1 DEF Begins, Stage, None
    <2>2. CASE q # r
      BY <1>3, <1>5, <1>8, <2>2 DEF Begins
    <2> QED
      BY <2>1, <2>2
  <1>9. ASSUME NEW r \in Requests, AskCreate(r) PROVE Stage(q)'
    BY <1>8, <1>9, AskCreateBegins
  <1>10. ASSUME NEW r \in Requests, NEW kind \in {"update", "delete"},
                NEW id \in {NoRow} \cup 1 .. lastId, AskChange(r, kind, id)
         PROVE  Stage(q)'
    BY <1>8, <1>10, AskChangeBegins
  <1>11. ASSUME NEW r \in Requests, Commits(r), pc[r] \in Kinds, Own(r)'
         PROVE  Stage(q)'
    <2>1. CASE q = r
      BY <1>1, <1>11, <2>1 DEF Commits, Stage
    <2>2. CASE q # r
      BY <1>3, <1>5, <1>11, <2>2 DEF Commits
    <2> QED
      BY <2>1, <2>2
  <1>12. ASSUME NEW r \in Requests, Insert(r) PROVE Stage(q)'
    <2>1. Own(r)'
      <3>1. /\ rows'[msg[r]] = [channel |-> chan[r], author |-> who[r], content |-> r, live |-> TRUE]
            /\ msg[r] \in DOMAIN rows' /\ Commits(r)
        BY <1>12, InsertCommits
      <3>2. rows'[msg[r]].channel = chan[r] /\ rows'[msg[r]].author = who[r]
        BY <3>1
      <3> QED
        BY <3>1, <3>2 DEF Own, Commits
    <2> QED
      BY <1>11, <1>12, <2>1, InsertCommits
  <1>13. ASSUME NEW r \in Requests, Update(r) \/ Delete(r) PROVE Stage(q)'
    <2>1. Own(r) /\ Commits(r) /\ pc[r] \in Kinds
      BY <1>13, UpdateCommits, DeleteCommits
    <2>2. Own(r)'
      BY <1>1, <2>1 DEF Own, Commits, RowsStay
    <2> QED
      BY <1>11, <2>1, <2>2
  <1>14. ASSUME NEW r \in Requests, Publish(r) PROVE Stage(q)'
    <2>1. Publishes(r) /\ op[r] \in Kinds /\ Own(r) /\ chan[r] \in Channels
      BY <1>14, PublishPublishes DEF Publishes, Stages, Stage, None
    <2>2. /\ SuccessCode[op[r]] \in {200, 201, 204}
          /\ SuccessCode[op[r]] = 204 => op[r] = "delete"
      BY <2>1 DEF SuccessCode
    <2>3. CASE q = r
      BY <1>1, <1>2, <2>1, <2>2, <2>3 DEF Publishes, Stage
    <2>4. CASE q # r
      BY <1>3, <1>5, <2>1, <2>4 DEF Publishes
    <2> QED
      BY <2>3, <2>4
  <1>15. ASSUME Aside PROVE Stage(q)'
    BY <1>3, <1>4, <1>15
  <1>16. UNCHANGED vars => Aside
    BY DEF vars, Aside
  <1> QED
    BY <1>7, <1>9, <1>10, <1>12, <1>13, <1>14, <1>15, <1>16, CreateChannelAside, ReaderAside DEF Next

\* Asking to create draws an id that no other create has; nothing else does.
LEMMA NextDrawn ==
  ASSUME TypeOK, Stages, Drawn, [Next]_vars
  PROVE  Drawn'
  <1> DEFINE Same == UNCHANGED <<lastId, op, msg>>
  <1>1. ASSUME Same, \A q \in Requests : pc'[q] = "create" => pc[q] = "create",
               \A q \in Requests : pc'[q] = "create" => msg[q] \notin DOMAIN rows'
        PROVE  Drawn'
    BY <1>1 DEF Drawn, Creators
  <1>2. ASSUME Aside PROVE Drawn'
    BY <1>2 DEF Aside, request, Drawn, Creators
  <1>3. ASSUME NEW r \in Requests, Moves(r), pc'[r] # "create"
        PROVE  Drawn'
    <2>1. \A q \in Requests : pc'[q] = "create" => pc[q] = "create"
      BY <1>3 DEF Moves, Alone
    <2> QED
      BY <1>1, <1>3, <2>1 DEF Moves, Drawn
  <1>4. ASSUME NEW r \in Requests, Reject(r) \/ Miss(r) \/ ClassifyMiss(r) \/ StatementFails(r)
        PROVE  Drawn'
    BY <1>3, <1>4, RejectMoves, MissMoves, ClassifyMissMoves, StatementFailsMoves
  <1>5. ASSUME NEW r \in Requests, Publish(r) PROVE Drawn'
    <2>1. Publishes(r) /\ \A q \in Requests : pc'[q] = "create" => pc[q] = "create"
      BY <1>5, PublishPublishes DEF Publishes, Alone
    <2> QED
      BY <1>1, <2>1 DEF Publishes, Drawn
  <1>6. ASSUME NEW r \in Requests, Commits(r), pc[r] \in Kinds,
               DOMAIN rows' \subseteq DOMAIN rows \cup {msg[r]},
               pc[r] # "create" => DOMAIN rows' = DOMAIN rows
        PROVE  Drawn'
    <2>1. \A q \in Requests : pc'[q] = "create" => pc[q] = "create" /\ q # r
      BY <1>6 DEF Commits, Alone
    <2>2. ASSUME NEW q \in Requests, pc'[q] = "create" PROVE msg[q] \notin DOMAIN rows'
      <3>1. msg[q] \notin DOMAIN rows /\ q # r /\ q \in Creators
        BY <2>1, <2>2 DEF Drawn, Creators, Stages, Stage, Kinds
      <3>2. pc[r] = "create" => msg[q] # msg[r]
        BY <3>1 DEF Drawn, Creators, Stages, Stage, Kinds
      <3> QED
        BY <1>6, <3>1, <3>2
    <2> QED
      BY <1>1, <1>6, <2>1, <2>2 DEF Commits
  <1>7. ASSUME NEW r \in Requests, Insert(r) \/ Update(r) \/ Delete(r) PROVE Drawn'
    BY <1>6, <1>7, InsertCommits, UpdateCommits, DeleteCommits DEF Kinds
  <1>8. ASSUME NEW r \in Requests, NEW kind \in {"update", "delete"},
               NEW id \in {NoRow} \cup 1 .. lastId, AskChange(r, kind, id)
        PROVE  Drawn'
    <2>1. Begins(r, kind) /\ lastId' = lastId /\ op[r] = None
      BY <1>8, AskChangeBegins DEF Begins, Stages, Stage
    <2>2. \A q \in Requests : op'[q] = "create" <=> op[q] = "create"
      BY <2>1 DEF Begins, Alone, None
    <2>3. Creators' = Creators
      BY <2>2 DEF Creators
    <2>4. \A q \in Creators : q # r /\ msg'[q] = msg[q]
      BY <2>1 DEF Creators, Begins, Alone, None
    <2>5. \A q \in Requests : pc'[q] = "create" => pc[q] = "create" /\ msg'[q] = msg[q]
      BY <2>1 DEF Begins, Alone
    <2>6. rows' = rows
      BY <2>1 DEF Begins
    <2> QED
      BY <2>1, <2>3, <2>4, <2>5, <2>6 DEF Drawn
  <1>9. ASSUME NEW r \in Requests, AskCreate(r) PROVE Drawn'
    <2>1. /\ Begins(r, "create") /\ lastId' = lastId + 1 /\ msg'[r] = lastId + 1 /\ op[r] = None
          /\ rows' = rows
      BY <1>9, AskCreateBegins DEF Begins, Stages, Stage
    <2>2. \A q \in Requests : op'[q] = "create" <=> op[q] = "create" \/ q = r
      BY <2>1 DEF Begins, Alone
    <2>3. Creators' = Creators \cup {r} /\ r \notin Creators
      BY <2>1, <2>2 DEF Creators, None
    <2>4. \A q \in Creators : q \in Requests /\ msg'[q] = msg[q] /\ msg[q] \in 1 .. lastId
      BY <2>1, <2>3 DEF Creators, Begins, Alone, Drawn
    <2>5. lastId' = Cardinality(Creators')
      BY <2>1, <2>3, IdLeft
    <2>6. lastId \in Nat /\ DOMAIN rows \subseteq 1 .. lastId
      BY DrawnIds DEF TypeOK
    <2>7. \A q \in Creators' : msg'[q] \in 1 .. lastId'
      BY <2>1, <2>3, <2>4, <2>6
    <2>8. \A q, s \in Creators' : msg'[q] = msg'[s] => q = s
      <3>1. \A q \in Creators : msg'[q] # msg'[r]
        BY <2>1, <2>4, <2>6
      <3>2. \A q, s \in Creators : msg'[q] = msg'[s] => q = s
        BY <2>4 DEF Drawn
      <3> QED
        BY <2>3, <3>1, <3>2
    <2>9. ASSUME NEW q \in Requests, pc'[q] = "create" PROVE msg'[q] \notin DOMAIN rows'
      <3>1. CASE q = r
        BY <2>1, <2>6, <3>1
      <3>2. CASE q # r
        BY <2>1, <2>9, <3>2 DEF Begins, Alone, Drawn
      <3> QED
        BY <3>1, <3>2
    <2> QED
      BY <2>5, <2>7, <2>8, <2>9 DEF Drawn
  <1>10. UNCHANGED vars => Aside
    BY DEF vars, Aside
  <1> QED
    BY <1>2, <1>4, <1>5, <1>7, <1>8, <1>9, <1>10, CreateChannelAside, ReaderAside DEF Next

\* A delete is the one step that ends the life of a row; the row stays as it left it.
LEMMA NextDeletes ==
  ASSUME TypeOK, Stages, Drawn, Deletes, [Next]_vars
  PROVE  Deletes'
  <1> DEFINE Text(id) == IF rows[id].live THEN rows[id].content \in Requests
                                          ELSE rows[id].content = Empty
             Same(q)  == op'[q] = op[q] /\ msg'[q] = msg[q] /\ (Deleted(q)' => Deleted(q))
  <1>0. RowsStay
    BY NextRowsStay
  <1>1. ASSUME \A id \in DOMAIN rows' : Text(id)', \A q \in Requests : Same(q)
        PROVE  Deletes'
    <2>1. ASSUME NEW q \in Requests, Deleted(q)' PROVE ~rows'[msg'[q]].live
      <3>1. Deleted(q) /\ msg'[q] = msg[q]
        BY <1>1, <2>1
      <3>2. msg[q] \in DOMAIN rows /\ ~rows[msg[q]].live
        BY <3>1 DEF Deleted, Deletes, Stages, Stage, Own
      <3> QED
        BY <1>0, <3>1, <3>2 DEF RowsStay
    <2>2. \A q, s \in Requests : Deleted(q)' /\ Deleted(s)' /\ msg'[q] = msg'[s] => q = s
      BY <1>1 DEF Deletes
    <2> QED
      BY <1>1, <2>1, <2>2 DEF Deletes
  <1>2. rows' = rows => \A id \in DOMAIN rows' : Text(id)'
    BY DEF Deletes
  <1>3. ASSUME NEW r \in Requests, Alone(r) PROVE \A q \in Requests \ {r} : Same(q)
    BY <1>3 DEF Alone, Deleted
  <1>4. ASSUME Aside PROVE Deletes'
    <2>1. rows' = rows /\ \A q \in Requests : Same(q)
      BY <1>4 DEF Aside, request, Deleted
    <2> QED
      BY <1>1, <1>2, <2>1
  <1>5. ASSUME NEW r \in Requests, Moves(r), status'[r] # 204, pc'[r] # "publish" PROVE Deletes'
    <2>1. Same(r) /\ rows' = rows
      BY <1>5 DEF Moves, Deleted
    <2> QED
      BY <1>1, <1>2, <1>3, <1>5, <2>1 DEF Moves
  <1>6. ASSUME NEW r \in Requests, Reject(r) \/ Miss(r) \/ ClassifyMiss(r) \/ StatementFails(r)
        PROVE  Deletes'
    <2>1. CASE Reject(r)
      BY <1>5, <2>1, RejectMoves
    <2>2. CASE Miss(r)
      BY <1>5, <2>2, MissMoves DEF Stages, Stage
    <2>3. CASE ClassifyMiss(r)
      BY <1>5, <2>3, ClassifyMissMoves
    <2>4. CASE StatementFails(r)
      BY <1>5, <2>4, StatementFailsMoves
    <2> QED
      BY <1>6, <2>1, <2>2, <2>3, <2>4
  <1>7. ASSUME NEW r \in Requests, NEW kind \in Kinds, Begins(r, kind) PROVE Deletes'
    <2>1. ~Deleted(r)' /\ rows' = rows /\ \A q \in Requests \ {r} : Same(q)
      BY <1>3, <1>7 DEF Begins, Deleted, Stages, Stage, Kinds
    <2>2. ASSUME NEW q \in Requests, Deleted(q)' PROVE ~rows'[msg'[q]].live
      <3>1. Deleted(q) /\ msg'[q] = msg[q]
        BY <2>1, <2>2
      <3> QED
        BY <2>1, <3>1 DEF Deletes
    <2>3. ASSUME NEW q \in Requests, NEW s \in Requests, Deleted(q)', Deleted(s)',
                 msg'[q] = msg'[s]
          PROVE  q = s
      <3>1. Deleted(q) /\ Deleted(s) /\ msg[q] = msg[s]
        BY <2>1, <2>3
      <3> QED
        BY <3>1 DEF Deletes
    <2> QED
      BY <1>2, <2>1, <2>2, <2>3 DEF Deletes
  <1>8. ASSUME NEW r \in Requests, AskCreate(r) PROVE Deletes'
    BY <1>7, <1>8, AskCreateBegins DEF Kinds
  <1>9. ASSUME NEW r \in Requests, NEW kind \in {"update", "delete"},
               NEW id \in {NoRow} \cup 1 .. lastId, AskChange(r, kind, id)
        PROVE  Deletes'
    BY <1>7, <1>9, AskChangeBegins DEF Kinds
  <1>10. ASSUME NEW r \in Requests, Publish(r) PROVE Deletes'
    <2>1. Publishes(r) /\ Same(r)
      <3>1. Publishes(r) /\ (SuccessCode[op[r]] = 204 => op[r] = "delete")
        <4>1. Publishes(r) /\ pc[r] = "publish"
          BY <1>10, PublishPublishes DEF Publishes
        <4> QED
          BY <4>1, PublishedEvent
      <3> QED
        BY <3>1 DEF Publishes, Deleted
    <2> QED
      BY <1>1, <1>2, <1>3, <2>1 DEF Publishes
  <1>11. ASSUME NEW r \in Requests, Insert(r) \/ Update(r) PROVE Deletes'
    <2>1. Commits(r) /\ ~Deleted(r)'
      <3>1. Commits(r) /\ pc[r] \in {"create", "update"}
        BY <1>11, InsertCommits, UpdateCommits
      <3>2. op'[r] = pc[r]
        BY <3>1 DEF Commits, Stages, Stage, Kinds
      <3> QED
        BY <3>1, <3>2 DEF Deleted
    <2>2. \A q \in Requests : Same(q)
      BY <1>3, <2>1 DEF Commits
    <2>3. \A id \in DOMAIN rows' \ {msg[r]} : id \in DOMAIN rows /\ rows'[id] = rows[id]
      BY <1>11, InsertCommits, UpdateCommits
    <2>4. rows'[msg[r]].live => rows'[msg[r]].content = r
      <3>1. CASE Insert(r)
        <4>1. rows'[msg[r]] = [channel |-> chan[r], author |-> who[r], content |-> r, live |-> TRUE]
          BY <3>1, InsertCommits
        <4> QED
          BY <4>1
      <3>2. CASE Update(r)
        <4>1. rows[msg[r]] \in Row /\ rows'[msg[r]] = [rows[msg[r]] EXCEPT !.content = r]
          BY <3>2, UpdateCommits DEF Own, TypeOK
        <4> QED
          BY <4>1 DEF Row
      <3> QED
        BY <1>11, <3>1, <3>2
    <2>5. rows'[msg[r]].live
      <3>1. CASE Insert(r)
        <4>1. rows'[msg[r]] = [channel |-> chan[r], author |-> who[r], content |-> r, live |-> TRUE]
          BY <3>1, InsertCommits
        <4> QED
          BY <4>1
      <3>2. CASE Update(r)
        <4>1. rows[msg[r]] \in Row /\ rows'[msg[r]] = [rows[msg[r]] EXCEPT !.content = r]
              /\ rows[msg[r]].live
          BY <3>2, UpdateCommits DEF Own, TypeOK, Live
        <4> QED
          BY <4>1 DEF Row
      <3> QED
        BY <1>11, <3>1, <3>2
    <2>6. \A id \in DOMAIN rows' : Text(id)'
      BY <2>3, <2>4, <2>5 DEF Deletes
    <2> QED
      BY <1>1, <2>2, <2>6
  <1>12. ASSUME NEW r \in Requests, Delete(r) PROVE Deletes'
    <2>1. /\ Commits(r) /\ msg[r] \in DOMAIN rows /\ rows[msg[r]].live /\ rows[msg[r]] \in Row
          /\ rows'[msg[r]] = [rows[msg[r]] EXCEPT !.content = Empty, !.live = FALSE]
          /\ DOMAIN rows' = DOMAIN rows
          /\ \A id \in DOMAIN rows \ {msg[r]} : rows'[id] = rows[id]
      BY <1>12, DeleteCommits DEF Own, Live, TypeOK
    <2>2. rows'[msg[r]].content = Empty /\ ~rows'[msg[r]].live
      BY <2>1 DEF Row
    <2>3. ASSUME NEW id \in DOMAIN rows' PROVE Text(id)'
      <3>1. CASE id = msg[r]
        BY <2>2, <3>1
      <3>2. CASE id # msg[r]
        BY <2>1, <3>2 DEF Deletes
      <3> QED
        BY <3>1, <3>2
    <2>4. \A q \in Requests \ {r} : Same(q) /\ (Deleted(q) => msg[q] # msg[r])
      BY <1>3, <2>1 DEF Commits, Deletes
    <2>5. msg'[r] = msg[r]
      BY <2>1 DEF Commits
    <2>6. ASSUME NEW q \in Requests, Deleted(q)' PROVE ~rows'[msg'[q]].live
      <3>1. CASE q = r
        BY <2>2, <2>5, <3>1
      <3>2. CASE q # r
        <4>1. Deleted(q) /\ msg'[q] = msg[q]
          BY <2>4, <2>6, <3>2
        <4>2. msg[q] \in DOMAIN rows /\ ~rows[msg[q]].live
          BY <4>1 DEF Deleted, Deletes, Stages, Stage, Own
        <4> QED
          BY <1>0, <4>1, <4>2 DEF RowsStay
      <3> QED
        BY <3>1, <3>2
    <2>7. ASSUME NEW q \in Requests, NEW s \in Requests, Deleted(q)', Deleted(s)',
                 msg'[q] = msg'[s]
          PROVE  q = s
      BY <2>4, <2>5, <2>7 DEF Deletes
    <2> QED
      BY <2>3, <2>6, <2>7 DEF Deletes
  <1>13. UNCHANGED vars => Aside
    BY DEF vars, Aside
  <1> QED
    BY <1>4, <1>6, <1>8, <1>9, <1>10, <1>11, <1>12, <1>13, CreateChannelAside, ReaderAside DEF Next

\* The second statement tells the truth about a row that the first one did not
\* change, whatever ran between them.
LEMMA NextMisses ==
  ASSUME TypeOK, Stages, Drawn, Misses, [Next]_vars
  PROVE  Misses'
  <1> SUFFICES ASSUME NEW q \in Requests PROVE Missed(q)'
    BY DEF Misses
  <1> DEFINE Same == /\ (pc'[q] = "classify" => pc[q] = "classify")
                     /\ who'[q] = who[q] /\ chan'[q] = chan[q] /\ msg'[q] = msg[q]
                     /\ (status'[q] \in {403, 404} => status'[q] = status[q])
                     /\ (q \in there' => q \in there)
  <1>1. RowsStay /\ Missed(q)
    BY NextRowsStay DEF Misses
  <1>2. CASE Same
    <2>1. msg[q] \in DOMAIN rows =>
            /\ msg[q] \in DOMAIN rows' /\ (~rows[msg[q]].live => ~rows'[msg[q]].live)
            /\ rows'[msg[q]].channel = rows[msg[q]].channel
            /\ rows'[msg[q]].author = rows[msg[q]].author
      BY <1>1 DEF RowsStay
    <2> QED
      BY <1>1, <1>2, <2>1 DEF Missed
  <1>3. Aside => Same
    BY DEF Aside, request
  <1> HIDE DEF Same
  <1>4. ASSUME NEW r \in Requests, Alone(r), q # r, there' = there \/ there' = there \cup {r}
        PROVE  Same
    BY <1>4 DEF Alone, Same
  <1>5. ASSUME NEW r \in Requests, Reject(r) \/ StatementFails(r) PROVE Missed(q)'
    <2>1. Moves(r) /\ pc'[r] = "done" /\ status'[r] \in {400, 500}
      BY <1>5, RejectMoves, StatementFailsMoves
    <2>2. CASE q = r
      BY <1>2, <2>1, <2>2 DEF Moves, Same
    <2>3. CASE q # r
      BY <1>2, <1>4, <2>1, <2>3 DEF Moves
    <2> QED
      BY <2>2, <2>3
  <1>6. ASSUME NEW r \in Requests, Miss(r) PROVE Missed(q)'
    <2>1. Moves(r) /\ ~Owned(r) /\ status'[r] = status[r]
      BY <1>6, MissMoves
    <2>2. CASE q = r
      BY <1>1, <2>1, <2>2 DEF Moves, Missed, Owned, Live
    <2>3. CASE q # r
      BY <1>2, <1>4, <2>1, <2>3 DEF Moves
    <2> QED
      BY <2>2, <2>3
  <1>7. ASSUME NEW r \in Requests, ClassifyMiss(r) PROVE Missed(q)'
    <2>1. Moves(r) /\ pc[r] = "classify" /\ pc'[r] = "done"
          /\ status'[r] = IF msg[r] \in Live(chan[r]) /\ rows[msg[r]].author # who[r]
                          THEN 403 ELSE 404
      BY <1>7, ClassifyMissMoves
    <2>2. CASE q = r
      <3>1. CASE msg[r] \in Live(chan[r]) /\ rows[msg[r]].author # who[r]
        BY <1>1, <2>1, <2>2, <3>1 DEF Moves, Missed, Live
      <3>2. CASE ~(msg[r] \in Live(chan[r]) /\ rows[msg[r]].author # who[r])
        BY <1>1, <2>1, <2>2, <3>2 DEF Moves, Missed, Live
      <3> QED
        BY <3>1, <3>2
    <2>3. CASE q # r
      BY <1>2, <1>4, <2>1, <2>3 DEF Moves
    <2> QED
      BY <2>2, <2>3
  <1>8. ASSUME NEW r \in Requests, AskCreate(r) PROVE Missed(q)'
    <2>1. Begins(r, "create") /\ there' = there
      BY <1>8, AskCreateBegins
    <2>2. CASE q = r
      BY <2>1, <2>2 DEF Begins, Missed, Stages, Stage
    <2>3. CASE q # r
      BY <1>2, <1>4, <2>1, <2>3 DEF Begins
    <2> QED
      BY <2>2, <2>3
  <1>9. ASSUME NEW r \in Requests, NEW kind \in {"update", "delete"},
               NEW id \in {NoRow} \cup 1 .. lastId, AskChange(r, kind, id)
        PROVE  Missed(q)'
    <2>1. Begins(r, kind) /\ msg'[r] = id
          /\ there' = IF id \in Live(chan'[r]) THEN there \cup {r} ELSE there
      BY <1>9, AskChangeBegins
    <2>2. CASE q = r
      BY <2>1, <2>2 DEF Begins, Missed, Stages, Stage, Live
    <2>3. CASE q # r
      BY <1>2, <1>4, <2>1, <2>3 DEF Begins
    <2> QED
      BY <2>2, <2>3
  <1>10. ASSUME NEW r \in Requests, Insert(r) \/ Update(r) \/ Delete(r) PROVE Missed(q)'
    <2>1. Commits(r)
      BY <1>10, InsertCommits, UpdateCommits, DeleteCommits
    <2>2. CASE q = r
      BY <1>2, <2>1, <2>2 DEF Commits, Same
    <2>3. CASE q # r
      BY <1>2, <1>4, <2>1, <2>3 DEF Commits
    <2> QED
      BY <2>2, <2>3
  <1>11. ASSUME NEW r \in Requests, Publish(r) PROVE Missed(q)'
    <2>1. Publishes(r)
      BY <1>11, PublishPublishes
    <2>2. CASE q = r
      <3>1. SuccessCode[op[r]] \in {200, 201, 204}
        BY <2>1, PublishedEvent DEF Publishes
      <3> QED
        BY <1>2, <2>1, <2>2, <3>1 DEF Publishes, Same
    <2>3. CASE q # r
      BY <1>2, <1>4, <2>1, <2>3 DEF Publishes
    <2> QED
      BY <2>2, <2>3
  <1>12. UNCHANGED vars => Aside
    BY DEF vars, Aside
  <1> QED
    BY <1>2, <1>3, <1>5, <1>6, <1>7, <1>8, <1>9, <1>10, <1>11, <1>12, CreateChannelAside,
       ReaderAside DEF Next

------------------------------------------------------------------------------
(* Events.                                                                    *)

\* Events stay where they are, and answers what they are.
EventsStay ==
  /\ \A c \in Channels : /\ Len(events[c]) \in Nat /\ Len(events'[c]) \in Nat
                         /\ Len(events[c]) <= Len(events'[c])
                         /\ \A i \in 1 .. Len(events[c]) : events'[c][i] = events[c][i]
  /\ \A r \in Requests : status[r] # 0 => status'[r] = status[r]

\* What Publish does to the events of the channels.
LEMMA PublishAppends ==
  ASSUME TypeOK, Stages, Drawn, NEW r \in Requests, Publishes(r)
  PROVE  /\ chan[r] \in Channels /\ Len(events[chan[r]]) \in Nat
         /\ Len(events'[chan[r]]) = Len(events[chan[r]]) + 1
         /\ events'[chan[r]][Len(events[chan[r]]) + 1] = <<op[r], msg[r], r>>
         /\ \A i \in 1 .. Len(events[chan[r]]) : events'[chan[r]][i] = events[chan[r]][i]
         /\ \A c \in Channels \ {chan[r]} : events'[c] = events[c]
  <1>1. /\ <<op[r], msg[r], r>> \in Event /\ chan[r] \in Channels
        /\ events'[chan[r]] = Append(events[chan[r]], <<op[r], msg[r], r>>)
    BY PublishedEvent DEF Publishes
  <1> DEFINE e == <<op[r], msg[r], r>>
             s == events[chan[r]]
  <1>2. s \in Seq(Event) /\ e \in Event /\ events'[chan[r]] = Append(s, e)
    BY <1>1 DEF TypeOK
  <1> HIDE DEF e, s
  <1>3. /\ Len(Append(s, e)) = Len(s) + 1 /\ Len(s) \in Nat /\ Append(s, e)[Len(s) + 1] = e
        /\ \A i \in 1 .. Len(s) : Append(s, e)[i] = s[i]
    BY <1>2, AppendEvent
  <1> QED
    BY <1>1, <1>2, <1>3 DEF e, s, Publishes

\* Every step keeps the events in this sense.
LEMMA NextEventsStay ==
  ASSUME TypeOK, Stages, Drawn, [Next]_vars
  PROVE  EventsStay
  <1>1. \A c \in Channels : Len(events[c]) \in Nat
    BY DEF TypeOK
  <1>2. ASSUME NEW r \in Requests, Alone(r), pc[r] # "done", events' = events
        PROVE  EventsStay
    BY <1>1, <1>2 DEF Alone, EventsStay, Stages, Stage
  <1>3. ASSUME NEW r \in Requests, Reject(r) \/ Miss(r) \/ ClassifyMiss(r) \/ StatementFails(r)
        PROVE  EventsStay
    <2>1. Moves(r) /\ pc[r] # "done"
      BY <1>3, RejectMoves, MissMoves, ClassifyMissMoves, StatementFailsMoves DEF Kinds
    <2> QED
      BY <1>2, <2>1 DEF Moves
  <1>4. ASSUME NEW r \in Requests, Insert(r) \/ Update(r) \/ Delete(r)
        PROVE  EventsStay
    <2>1. Commits(r) /\ pc[r] # "done"
      BY <1>4, InsertCommits, UpdateCommits, DeleteCommits
    <2> QED
      BY <1>2, <2>1 DEF Commits
  <1>5. ASSUME NEW r \in Requests, AskCreate(r) PROVE EventsStay
    BY <1>2, <1>5, AskCreateBegins DEF Begins
  <1>6. ASSUME NEW r \in Requests, NEW kind \in {"update", "delete"},
               NEW id \in {NoRow} \cup 1 .. lastId, AskChange(r, kind, id)
        PROVE  EventsStay
    BY <1>2, <1>6, AskChangeBegins DEF Begins
  <1>7. ASSUME NEW r \in Requests, Publish(r) PROVE EventsStay
    <2>1. Publishes(r)
      BY <1>7, PublishPublishes
    <2>2. \A q \in Requests : status[q] # 0 => status'[q] = status[q]
      BY <2>1 DEF Publishes, Alone, Stages, Stage
    <2>3. \A c \in Channels : /\ Len(events[c]) \in Nat /\ Len(events'[c]) \in Nat
                              /\ Len(events[c]) <= Len(events'[c])
                              /\ \A i \in 1 .. Len(events[c]) : events'[c][i] = events[c][i]
      BY <1>1, <2>1, PublishAppends
    <2> QED
      BY <2>2, <2>3 DEF EventsStay
  <1>8. ASSUME Aside PROVE EventsStay
    BY <1>1, <1>8 DEF Aside, EventsStay, request
  <1>9. UNCHANGED vars => Aside
    BY DEF vars, Aside
  <1> QED
    BY <1>3, <1>4, <1>5, <1>6, <1>7, <1>8, <1>9, CreateChannelAside, ReaderAside DEF Next

\* An event names the request that published it.
LEMMA EventTypes ==
  ASSUME TypeOK, NEW c \in Channels, NEW i \in 1 .. Len(events[c])
  PROVE  events[c][i] \in Event /\ events[c][i][3] \in Requests /\ events[c][i][2] \in Ids
  <1>1. events[c] \in Seq(Event)
    BY DEF TypeOK
  <1>2. events[c][i] \in Event
    BY <1>1
  <1> QED
    BY <1>2 DEF Event

\* A request that publishes was not answered before, and what it may rely on was.
LEMMA NextSequenced ==
  ASSUME TypeOK, Stages, Drawn, Sequenced, AnswersAfterEvents, [Next]_vars
  PROVE  Sequenced' /\ AnswersAfterEvents'
  <1>0. EventsStay /\ Answered \subseteq Answered'
    BY NextEventsStay DEF EventsStay, Answered
  <1>1. ASSUME events' = events, earlier' = earlier
        PROVE  Sequenced' /\ AnswersAfterEvents'
    <2>1. \A c \in Channels : \A i \in 1 .. Len(events[c]) : events[c][i][3] \in Requests
      BY EventTypes
    <2>2. Sequenced'
      BY <1>0, <1>1, <2>1 DEF Sequenced, EventsStay
    <2> QED
      BY <1>1, <2>2 DEF AnswersAfterEvents
  <1>2. ASSUME NEW r \in Requests, Alone(r), events' = events, pc[r] = "idle",
               earlier'[r] = Answered
        PROVE  Sequenced' /\ AnswersAfterEvents'
    <2>1. status[r] = 0 /\ r \notin Answered
      BY <1>2 DEF Stages, Stage, Answered
    <2>2. \A c \in Channels : \A i \in 1 .. Len(events[c]) :
            events[c][i][3] \in Requests /\ events[c][i][3] # r
            /\ status'[events[c][i][3]] # 0
      BY <1>0, <2>1, EventTypes DEF Sequenced, EventsStay
    <2>3. \A q \in Requests \ {r} : earlier'[q] = earlier[q]
      BY <1>2 DEF Alone
    <2>4. Sequenced'
      BY <1>0, <1>2, <2>1, <2>2, <2>3 DEF Sequenced
    <2> QED
      BY <1>2, <2>2, <2>3, <2>4 DEF AnswersAfterEvents
  <1>3. ASSUME NEW r \in Requests, AskCreate(r) PROVE Sequenced' /\ AnswersAfterEvents'
    BY <1>2, <1>3, AskCreateBegins DEF Begins
  <1>4. ASSUME NEW r \in Requests, NEW kind \in {"update", "delete"},
               NEW id \in {NoRow} \cup 1 .. lastId, AskChange(r, kind, id)
        PROVE  Sequenced' /\ AnswersAfterEvents'
    BY <1>2, <1>4, AskChangeBegins DEF Begins
  <1>5. ASSUME NEW r \in Requests, Publish(r) PROVE Sequenced' /\ AnswersAfterEvents'
    <2> DEFINE n == Len(events[chan[r]]) + 1
    <2>1. Publishes(r) /\ status[r] = 0 /\ earlier' = earlier /\ r \notin Answered
      BY <1>5, PublishPublishes DEF Publishes, Stages, Stage, Answered
    <2>2. status'[r] # 0
      <3>1. SuccessCode[op[r]] \in {200, 201, 204}
        BY <2>1, PublishedEvent DEF Publishes
      <3> QED
        BY <2>1, <3>1 DEF Publishes
    <2>3. /\ n \in Nat /\ chan[r] \in Channels /\ Len(events'[chan[r]]) = n
          /\ events'[chan[r]][n][3] = r
          /\ \A i \in 1 .. n - 1 : i \in 1 .. Len(events[chan[r]])
                                   /\ events'[chan[r]][i] = events[chan[r]][i]
          /\ \A c \in Channels \ {chan[r]} : events'[c] = events[c]
      BY <2>1, PublishAppends
    <2>4. \A c \in Channels : \A i \in 1 .. Len(events[c]) :
            events[c][i][3] \in Requests /\ status'[events[c][i][3]] # 0
      BY <1>0, EventTypes DEF Sequenced, EventsStay
    <2> HIDE DEF n
    <2>5. \A c \in Channels : \A i \in 1 .. Len(events'[c]) : status'[events'[c][i][3]] # 0
      <3> SUFFICES ASSUME NEW c \in Channels, NEW i \in 1 .. Len(events'[c])
                   PROVE  status'[events'[c][i][3]] # 0
        OBVIOUS
      <3>1. CASE c # chan[r]
        BY <2>3, <2>4, <3>1
      <3>2. CASE c = chan[r] /\ i # n
        <4>1. i \in 1 .. n - 1
          BY <2>3, <3>2
        <4> QED
          BY <2>3, <2>4, <3>2, <4>1
      <3>3. CASE c = chan[r] /\ i = n
        BY <2>2, <2>3, <3>3
      <3> QED
        BY <3>1, <3>2, <3>3
    <2>6. Sequenced'
      BY <1>0, <2>1, <2>5 DEF Sequenced
    <2>7. ASSUME NEW c \in Channels, NEW i \in 1 .. Len(events'[c]), NEW j \in 1 .. Len(events'[c]),
                 events'[c][i][3] \in earlier[events'[c][j][3]]
          PROVE  i < j
      <3>1. CASE c # chan[r]
        BY <2>3, <2>7, <3>1 DEF AnswersAfterEvents
      <3>2. CASE c = chan[r]
        <4>1. i \in 1 .. n /\ j \in 1 .. n
          BY <2>3, <3>2
        <4>2. CASE i = n
          <5>1. events'[c][j][3] \in Requests
            <6>1. CASE j = n
              BY <2>3, <3>2, <6>1
            <6>2. CASE j # n
              <7>1. j \in 1 .. n - 1
                BY <2>3, <4>1, <6>2
              <7> QED
                BY <2>3, <2>4, <3>2, <7>1
            <6> QED
              BY <6>1, <6>2
          <5>2. r \in earlier[events'[c][j][3]]
            BY <2>3, <2>7, <3>2, <4>2
          <5> QED
            BY <2>1, <5>1, <5>2 DEF Sequenced
        <4>3. CASE i # n /\ j = n
          BY <2>3, <4>1, <4>3
        <4>4. CASE i # n /\ j # n
          <5>1. i \in 1 .. n - 1 /\ j \in 1 .. n - 1
            BY <2>3, <4>1, <4>4
          <5> QED
            BY <2>3, <2>7, <3>2, <5>1 DEF AnswersAfterEvents
        <4> QED
          BY <4>2, <4>3, <4>4
      <3> QED
        BY <3>1, <3>2
    <2> QED
      BY <2>1, <2>6, <2>7 DEF AnswersAfterEvents
  <1>6. ASSUME NEW r \in Requests, Reject(r) \/ Miss(r) \/ ClassifyMiss(r) \/ StatementFails(r)
        PROVE  Sequenced' /\ AnswersAfterEvents'
    BY <1>1, <1>6 DEF Reject, Miss, ClassifyMiss, StatementFails
  <1>7. ASSUME NEW r \in Requests, Insert(r) \/ Update(r) \/ Delete(r)
        PROVE  Sequenced' /\ AnswersAfterEvents'
    BY <1>1, <1>7 DEF Insert, Update, Delete
  <1>8. Aside => Sequenced' /\ AnswersAfterEvents'
    BY <1>1 DEF Aside
  <1>9. UNCHANGED vars => Aside
    BY DEF vars, Aside
  <1> QED
    BY <1>3, <1>4, <1>5, <1>6, <1>7, <1>8, <1>9, CreateChannelAside, ReaderAside DEF Next

------------------------------------------------------------------------------
(* What subscribers are told.                                                 *)

\* The request that wrote what the row holds, or deleted it, tells the subscribers.
Teller(r, id) ==
  /\ msg[r] = id /\ chan[r] = rows[id].channel /\ Out(r)
  /\ IF rows[id].live THEN rows[id].content = r /\ op[r] \in {"create", "update"}
                      ELSE op[r] = "delete"

\* An event that is out, or is owed, stays so.
LEMMA NextOut ==
  ASSUME TypeOK, Stages, Drawn, Sequenced, [Next]_vars, NEW q \in Requests, Out(q),
         chan[q] \in Channels
  PROVE  Out(q)' /\ op'[q] = op[q] /\ msg'[q] = msg[q] /\ chan'[q] = chan[q]
  <1>1. EventsStay
    BY NextEventsStay
  <1>2. pc[q] = "publish" \/ pc[q] = "done"
    <2>1. ASSUME NEW i \in 1 .. Len(events[chan[q]]), events[chan[q]][i] = <<op[q], msg[q], q>>
          PROVE  pc[q] = "done"
      <3>1. events[chan[q]][i][3] = q /\ status[events[chan[q]][i][3]] # 0
        BY <2>1 DEF Sequenced
      <3> QED
        BY <3>1 DEF Stages, Stage
    <2> QED
      BY <2>1 DEF Out
  <1> DEFINE Same == op'[q] = op[q] /\ msg'[q] = msg[q] /\ chan'[q] = chan[q]
  <1>3. ASSUME Same, pc'[q] = pc[q] PROVE Out(q)'
    <2>1. ASSUME NEW i \in 1 .. Len(events[chan[q]]), events[chan[q]][i] = <<op[q], msg[q], q>>
          PROVE  i \in 1 .. Len(events'[chan[q]]) /\ events'[chan[q]][i] = <<op[q], msg[q], q>>
      BY <1>1, <2>1 DEF EventsStay
    <2> QED
      BY <1>3, <2>1 DEF Out
  <1>4. ASSUME NEW r \in Requests, Alone(r), pc[r] \notin {"publish", "done"}
        PROVE  Same /\ pc'[q] = pc[q]
    BY <1>2, <1>4 DEF Alone
  <1>5. ASSUME NEW r \in Requests, Publish(r) PROVE Same /\ Out(q)'
    <2>1. Publishes(r)
      BY <1>5, PublishPublishes
    <2>2. CASE q = r
      <3> DEFINE n == Len(events[chan[r]]) + 1
      <3>1. n \in 1 .. Len(events'[chan[r]]) /\ events'[chan[r]][n] = <<op[r], msg[r], r>>
        BY <2>1, PublishAppends
      <3> HIDE DEF n
      <3> QED
        BY <2>1, <2>2, <3>1 DEF Publishes, Out
    <2>3. CASE q # r
      BY <1>3, <2>1, <2>3 DEF Publishes, Alone
    <2> QED
      BY <2>2, <2>3
  <1>6. ASSUME NEW r \in Requests, Reject(r) \/ Miss(r) \/ ClassifyMiss(r) \/ StatementFails(r)
        PROVE  Same /\ Out(q)'
    <2>1. Moves(r) /\ pc[r] \notin {"publish", "done"}
      BY <1>6, RejectMoves, MissMoves, ClassifyMissMoves, StatementFailsMoves DEF Kinds
    <2> QED
      BY <1>3, <1>4, <2>1 DEF Moves
  <1>7. ASSUME NEW r \in Requests, Insert(r) \/ Update(r) \/ Delete(r) PROVE Same /\ Out(q)'
    <2>1. Commits(r) /\ pc[r] \notin {"publish", "done"}
      BY <1>7, InsertCommits, UpdateCommits, DeleteCommits
    <2> QED
      BY <1>3, <1>4, <2>1 DEF Commits
  <1>8. ASSUME NEW r \in Requests, AskCreate(r) PROVE Same /\ Out(q)'
    BY <1>3, <1>4, <1>8, AskCreateBegins DEF Begins
  <1>9. ASSUME NEW r \in Requests, NEW kind \in {"update", "delete"},
               NEW id \in {NoRow} \cup 1 .. lastId, AskChange(r, kind, id)
        PROVE  Same /\ Out(q)'
    BY <1>3, <1>4, <1>9, AskChangeBegins DEF Begins
  <1>10. Aside => Same /\ Out(q)'
    BY <1>3 DEF Aside, request
  <1>11. UNCHANGED vars => Aside
    BY DEF vars, Aside
  <1> QED
    BY <1>5, <1>6, <1>7, <1>8, <1>9, <1>10, <1>11, CreateChannelAside, ReaderAside DEF Next

\* Whoever commits a change is the one who tells of it, or loses it.
LEMMA NextTold ==
  ASSUME TypeOK, Stages, Drawn, Sequenced, Deletes, Told, [Next]_vars
  PROVE  Told'
  <1>0. RowsStay
    BY NextRowsStay
  <1> DEFINE Known == \A id \in DOMAIN rows' \ lost' : \E r \in Requests : Teller(r, id)'
             Gone  == \A c \in Channels : \A i \in 1 .. Len(events'[c]) :
                        events'[c][i][1] = "delete" =>
                          events'[c][i][2] \in DOMAIN rows' /\ ~rows'[events'[c][i][2]].live
  <1>1. ASSUME NEW id \in DOMAIN rows \ lost, rows'[id] = rows[id]
        PROVE  \E r \in Requests : Teller(r, id)'
    <2>1. PICK r \in Requests : Teller(r, id)
      BY DEF Told, Teller
    <2>2. chan[r] \in Channels
      BY <2>1 DEF Teller, TypeOK, Row
    <2>3. Out(r)' /\ op'[r] = op[r] /\ msg'[r] = msg[r] /\ chan'[r] = chan[r]
      BY <2>1, <2>2, NextOut DEF Teller
    <2> QED
      BY <1>1, <2>1, <2>3 DEF Teller
  <1>2. rows' = rows /\ lost' = lost => Known
    BY <1>1
  <1>3. events' = events => Gone
    BY <1>0 DEF Told, RowsStay
  <1>4. Known /\ Gone => Told'
    BY DEF Told, Teller
  <1> HIDE DEF Known, Gone
  <1>5. ASSUME NEW r \in Requests, Commits(r),
               DOMAIN rows' \subseteq DOMAIN rows \cup {msg[r]},
               \A id \in DOMAIN rows \ {msg[r]} : rows'[id] = rows[id],
               rows'[msg[r]].channel = chan[r],
               IF rows'[msg[r]].live THEN rows'[msg[r]].content = r /\ op[r] \in {"create", "update"}
                                     ELSE op[r] = "delete"
        PROVE  Told'
    <2>1. ASSUME NEW id \in DOMAIN rows' \ lost' PROVE \E q \in Requests : Teller(q, id)'
      <3>1. CASE id = msg[r]
        <4>1. pc'[r] = "publish" /\ op'[r] = op[r] /\ msg'[r] = msg[r] /\ chan'[r] = chan[r]
          BY <1>5, <2>1, <3>1 DEF Commits
        <4>2. Out(r)'
          BY <4>1 DEF Out
        <4> QED
          BY <1>5, <3>1, <4>1, <4>2 DEF Teller
      <3>2. CASE id # msg[r]
        <4>1. id \in DOMAIN rows \ lost /\ rows'[id] = rows[id]
          BY <1>5, <2>1, <3>2 DEF Commits
        <4> QED
          BY <1>1, <4>1
      <3> QED
        BY <3>1, <3>2
    <2>2. events' = events
      BY <1>5 DEF Commits
    <2> QED
      BY <1>3, <1>4, <2>1, <2>2 DEF Known
  <1>6. ASSUME NEW r \in Requests, Insert(r) PROVE Told'
    <2>1. /\ Commits(r) /\ pc[r] = "create" /\ DOMAIN rows' = DOMAIN rows \cup {msg[r]}
          /\ rows'[msg[r]] = [channel |-> chan[r], author |-> who[r], content |-> r, live |-> TRUE]
          /\ \A id \in DOMAIN rows \ {msg[r]} : rows'[id] = rows[id]
      BY <1>6, InsertCommits
    <2>2. rows'[msg[r]].channel = chan[r] /\ rows'[msg[r]].content = r /\ rows'[msg[r]].live
      BY <2>1
    <2>3. op[r] = "create"
      BY <2>1 DEF Stages, Stage, Kinds
    <2> QED
      BY <1>5, <2>1, <2>2, <2>3
  <1>7. ASSUME NEW r \in Requests, Update(r) PROVE Told'
    <2>1. /\ Commits(r) /\ pc[r] = "update" /\ DOMAIN rows' = DOMAIN rows /\ Own(r)
          /\ rows'[msg[r]] = [rows[msg[r]] EXCEPT !.content = r] /\ rows[msg[r]].live
          /\ \A id \in DOMAIN rows \ {msg[r]} : rows'[id] = rows[id]
      BY <1>7, UpdateCommits DEF Live
    <2>2. rows[msg[r]] \in Row
      BY <2>1 DEF Own, TypeOK
    <2>3. rows'[msg[r]].channel = chan[r] /\ rows'[msg[r]].content = r /\ rows'[msg[r]].live
      BY <2>1, <2>2 DEF Row, Own
    <2>4. op[r] = "update"
      BY <2>1 DEF Stages, Stage, Kinds
    <2> QED
      BY <1>5, <2>1, <2>3, <2>4
  <1>8. ASSUME NEW r \in Requests, Delete(r) PROVE Told'
    <2>1. /\ Commits(r) /\ pc[r] = "delete" /\ DOMAIN rows' = DOMAIN rows /\ Own(r)
          /\ rows'[msg[r]] = [rows[msg[r]] EXCEPT !.content = Empty, !.live = FALSE]
          /\ \A id \in DOMAIN rows \ {msg[r]} : rows'[id] = rows[id]
      BY <1>8, DeleteCommits
    <2>2. rows[msg[r]] \in Row
      BY <2>1 DEF Own, TypeOK
    <2>3. rows'[msg[r]].channel = chan[r] /\ ~rows'[msg[r]].live
      BY <2>1, <2>2 DEF Row, Own
    <2>4. op[r] = "delete"
      BY <2>1 DEF Stages, Stage, Kinds
    <2> QED
      BY <1>5, <2>1, <2>3, <2>4
  <1>9. ASSUME NEW r \in Requests, Publish(r) PROVE Told'
    <2> DEFINE n == Len(events[chan[r]]) + 1
    <2>1. Publishes(r) /\ rows' = rows /\ lost' = lost
      BY <1>9, PublishPublishes DEF Publishes
    <2>2. /\ n \in Nat /\ chan[r] \in Channels /\ Len(events'[chan[r]]) = n
          /\ events'[chan[r]][n][1] = op[r] /\ events'[chan[r]][n][2] = msg[r]
          /\ \A i \in 1 .. n - 1 : i \in 1 .. Len(events[chan[r]])
                                   /\ events'[chan[r]][i] = events[chan[r]][i]
          /\ \A c \in Channels \ {chan[r]} : events'[c] = events[c]
      <3>1. events'[chan[r]][n] = <<op[r], msg[r], r>>
        BY <2>1, PublishAppends
      <3> QED
        BY <2>1, <3>1, PublishAppends
    <2>3. op[r] = "delete" => msg[r] \in DOMAIN rows /\ ~rows[msg[r]].live
      BY <2>1 DEF Publishes, Deletes, Deleted, Stages, Stage, Own
    <2> HIDE DEF n
    <2>4. ASSUME NEW c \in Channels, NEW i \in 1 .. Len(events'[c]), events'[c][i][1] = "delete"
          PROVE  events'[c][i][2] \in DOMAIN rows /\ ~rows[events'[c][i][2]].live
      <3>1. CASE c # chan[r]
        BY <2>2, <2>4, <3>1 DEF Told
      <3>2. CASE c = chan[r] /\ i # n
        <4>1. i \in 1 .. n - 1
          BY <2>2, <3>2
        <4> QED
          BY <2>2, <2>4, <3>2, <4>1 DEF Told
      <3>3. CASE c = chan[r] /\ i = n
        BY <2>2, <2>3, <2>4, <3>3
      <3> QED
        BY <3>1, <3>2, <3>3
    <2> QED
      BY <1>2, <1>4, <2>1, <2>4 DEF Gone
  <1>10. ASSUME UNCHANGED <<rows, events, lost>> PROVE Told'
    BY <1>2, <1>3, <1>4, <1>10
  <1>11. ASSUME NEW r \in Requests, AskCreate(r) \/ Reject(r) \/ Miss(r) \/ ClassifyMiss(r)
                                    \/ StatementFails(r)
         PROVE  Told'
    BY <1>10, <1>11 DEF AskCreate, Reject, Miss, ClassifyMiss, StatementFails
  <1>12. ASSUME NEW r \in Requests, NEW kind \in {"update", "delete"},
                NEW id \in {NoRow} \cup 1 .. lastId, AskChange(r, kind, id)
         PROVE  Told'
    BY <1>10, <1>12 DEF AskChange
  <1>13. Aside => Told'
    BY <1>10 DEF Aside
  <1>14. UNCHANGED vars => Aside
    BY DEF vars, Aside
  <1> QED
    BY <1>6, <1>7, <1>8, <1>9, <1>11, <1>12, <1>13, <1>14, CreateChannelAside, ReaderAside DEF Next

\* Where the changes of a message do not overlap its last event tells how it ended.
LEMMA NextSettled ==
  ASSUME TypeOK, Stages, Drawn, Sequenced, Deletes, Settled, [Next]_vars
  PROVE  Settled'
  <1> DEFINE Alike(id) ==
               /\ id \in DOMAIN rows \ (lost \cup crossed)
               /\ rows'[id] = rows[id] /\ events'[rows[id].channel] = events[rows[id].channel]
               /\ Pending(id)' = Pending(id) /\ \A r \in Pending(id) : op'[r] = op[r]
             Good(id) ==
               /\ \A r, q \in Pending(id) : r = q
               /\ \A r \in Pending(id) : TellsState(<<op[r], id, r>>)
               /\ Pending(id) = {} => \A i : IsLast(rows[id].channel, id, i) =>
                                             TellsState(events[rows[id].channel][i])
  <1>0. /\ \A id \in DOMAIN rows \ (lost \cup crossed) : Good(id)
        /\ (\A id \in DOMAIN rows' \ (lost' \cup crossed') : Good(id)') => Settled'
    BY DEF Settled
  <1>1. ASSUME NEW id, Alike(id) PROVE Good(id)'
    <2>1. ASSUME NEW r \in Pending(id) PROVE TellsState(<<op[r], id, r>>)'
      <3>1. TellsState(<<op[r], id, r>>) /\ op'[r] = op[r]
        BY <1>0, <1>1, <2>1
      <3> QED
        BY <1>1, <3>1 DEF TellsState
    <2>2. ASSUME NEW i, IsLast(rows[id].channel, id, i)', Pending(id) = {}
          PROVE  TellsState(events[rows[id].channel][i])'
      <3>1. IsLast(rows[id].channel, id, i)
        BY <1>1, <2>2 DEF IsLast
      <3>2. TellsState(events[rows[id].channel][i])
        BY <1>0, <1>1, <2>2, <3>1
      <3> QED
        BY <1>1, <2>2, <3>1, <3>2 DEF TellsState, IsLast
    <2> QED
      BY <1>0, <1>1, <2>1, <2>2
  <1> HIDE DEF Good
  <1>2. ASSUME UNCHANGED <<rows, events, lost, crossed>>,
               \A q \in Requests : (pc'[q] = "publish" <=> pc[q] = "publish")
                                  /\ (pc[q] = "publish" => op'[q] = op[q] /\ msg'[q] = msg[q])
        PROVE  Settled'
    <2>1. \A id \in DOMAIN rows \ (lost \cup crossed) : Alike(id)
      BY <1>2 DEF Pending
    <2> HIDE DEF Alike
    <2> QED
      BY <1>0, <1>1, <1>2, <2>1
  <1>3. ASSUME NEW r \in Requests, Moves(r), pc[r] # "publish", pc'[r] # "publish"
        PROVE  Settled'
    BY <1>2, <1>3 DEF Moves, Alone
  <1>4. ASSUME NEW r \in Requests, NEW kind \in Kinds, Begins(r, kind)
        PROVE  Settled'
    BY <1>2, <1>4 DEF Begins, Alone, Kinds
  <1>5. ASSUME NEW r \in Requests, Commits(r), pc[r] \in Kinds,
               DOMAIN rows' \subseteq DOMAIN rows \cup {msg[r]},
               \A id \in DOMAIN rows \ {msg[r]} : rows'[id] = rows[id],
               IF rows'[msg[r]].live THEN rows'[msg[r]].content = r /\ op[r] \in {"create", "update"}
                                     ELSE op[r] = "delete"
        PROVE  Settled'
    <2>1. /\ UNCHANGED <<events, op, msg>> /\ Alone(r) /\ lost \subseteq lost'
          /\ crossed \subseteq crossed' /\ pc[r] # "publish"
          /\ pc'[r] # "publish" => msg[r] \in lost'
          /\ Pending(msg[r]) # {} => msg[r] \in crossed'
      BY <1>5 DEF Commits, Kinds
    <2>2. ASSUME NEW id \in DOMAIN rows' \ (lost' \cup crossed'), id # msg[r]
          PROVE  Good(id)'
      <3>1. id \in DOMAIN rows \ (lost \cup crossed) /\ rows'[id] = rows[id]
        BY <1>5, <2>1, <2>2
      <3>2. Pending(id)' = Pending(id)
        BY <2>1, <2>2 DEF Pending, Alone
      <3>3. Alike(id)
        BY <2>1, <3>1, <3>2
      <3> QED
        BY <1>1, <3>3
    <2>3. ASSUME msg[r] \notin lost' \cup crossed' PROVE Good(msg[r])'
      <3>1. Pending(msg[r])' = {r}
        BY <2>1, <2>3 DEF Pending, Alone
      <3>2. TellsState(<<op[r], msg[r], r>>)'
        BY <1>5, <2>1 DEF TellsState
      <3> QED
        BY <2>1, <3>1, <3>2 DEF Good
    <2>4. ASSUME NEW id \in DOMAIN rows' \ (lost' \cup crossed') PROVE Good(id)'
      <3>1. CASE id = msg[r]
        <4>1. msg'[r] = msg[r] /\ Good(msg[r])'
          BY <2>1, <2>3, <2>4, <3>1
        <4> QED
          BY <2>1, <3>1, <4>1 DEF Good
      <3>2. CASE id # msg[r]
        BY <2>2, <2>4, <3>2
      <3> QED
        BY <3>1, <3>2
    <2> QED
      BY <1>0, <2>4
  <1>6. ASSUME NEW r \in Requests, Insert(r) PROVE Settled'
    <2>1. /\ Commits(r) /\ pc[r] = "create" /\ DOMAIN rows' = DOMAIN rows \cup {msg[r]}
          /\ rows'[msg[r]] = [channel |-> chan[r], author |-> who[r], content |-> r, live |-> TRUE]
          /\ \A id \in DOMAIN rows \ {msg[r]} : rows'[id] = rows[id]
      BY <1>6, InsertCommits
    <2>2. rows'[msg[r]].content = r /\ rows'[msg[r]].live
      BY <2>1
    <2>3. op[r] = "create"
      BY <2>1 DEF Stages, Stage, Kinds
    <2> QED
      BY <1>5, <2>1, <2>2, <2>3 DEF Kinds
  <1>7. ASSUME NEW r \in Requests, Update(r) PROVE Settled'
    <2>1. /\ Commits(r) /\ pc[r] = "update" /\ DOMAIN rows' = DOMAIN rows /\ Own(r)
          /\ rows'[msg[r]] = [rows[msg[r]] EXCEPT !.content = r] /\ rows[msg[r]].live
          /\ \A id \in DOMAIN rows \ {msg[r]} : rows'[id] = rows[id]
      BY <1>7, UpdateCommits DEF Live
    <2>2. rows[msg[r]] \in Row
      BY <2>1 DEF Own, TypeOK
    <2>3. rows'[msg[r]].content = r /\ rows'[msg[r]].live
      BY <2>1, <2>2 DEF Row
    <2>4. op[r] = "update"
      BY <2>1 DEF Stages, Stage, Kinds
    <2> QED
      BY <1>5, <2>1, <2>3, <2>4 DEF Kinds
  <1>8. ASSUME NEW r \in Requests, Delete(r) PROVE Settled'
    <2>1. /\ Commits(r) /\ pc[r] = "delete" /\ DOMAIN rows' = DOMAIN rows /\ Own(r)
          /\ rows'[msg[r]] = [rows[msg[r]] EXCEPT !.content = Empty, !.live = FALSE]
          /\ \A id \in DOMAIN rows \ {msg[r]} : rows'[id] = rows[id]
      BY <1>8, DeleteCommits
    <2>2. rows[msg[r]] \in Row
      BY <2>1 DEF Own, TypeOK
    <2>3. ~rows'[msg[r]].live
      BY <2>1, <2>2 DEF Row
    <2>4. op[r] = "delete"
      BY <2>1 DEF Stages, Stage, Kinds
    <2> QED
      BY <1>5, <2>1, <2>3, <2>4 DEF Kinds
  <1>9. ASSUME NEW r \in Requests, Publish(r) PROVE Settled'
    <2> DEFINE c == chan[r]
               n == Len(events[c]) + 1
    <2>1. /\ Publishes(r) /\ Alone(r) /\ pc[r] = "publish" /\ pc'[r] = "done"
          /\ UNCHANGED <<rows, lost, crossed, op, msg>>
      BY <1>9, PublishPublishes DEF Publishes
    <2>2. /\ n \in Nat /\ c \in Channels /\ Len(events'[c]) = n
          /\ events'[c][n] = <<op[r], msg[r], r>> /\ events'[c][n][2] = msg[r]
          /\ \A i \in 1 .. n - 1 : i \in 1 .. Len(events[c]) /\ events'[c][i] = events[c][i]
          /\ \A d \in Channels \ {c} : events'[d] = events[d]
      <3>1. events'[c][n] = <<op[r], msg[r], r>>
        BY <2>1, PublishAppends
      <3> QED
        BY <2>1, <3>1, PublishAppends
    <2>3. msg[r] \in DOMAIN rows /\ rows[msg[r]].channel = c
      BY <2>1 DEF Stages, Stage, Own
    <2> HIDE DEF n, c
    <2>4. ASSUME NEW id \in DOMAIN rows \ (lost \cup crossed), id # msg[r]
          PROVE  Good(id)'
      <3>1. Pending(id)' = Pending(id)
        BY <2>1, <2>4 DEF Pending, Alone
      <3>2. rows[id].channel \in Channels
        BY DEF TypeOK, Row
      <3>3. CASE rows[id].channel # c
        <4>1. Alike(id)
          BY <2>1, <2>2, <3>1, <3>2, <3>3
        <4> QED
          BY <1>1, <4>1
      <3>4. CASE rows[id].channel = c
        <4>1. \A q \in Pending(id) : TellsState(<<op[q], id, q>>)'
          <5>1. ASSUME NEW q \in Pending(id) PROVE TellsState(<<op[q], id, q>>)'
            <6>1. TellsState(<<op[q], id, q>>) /\ op' = op /\ rows' = rows
              BY <1>0, <2>1, <5>1 DEF Good
            <6> QED
              BY <6>1 DEF TellsState
          <5> QED
            BY <5>1
        <4>2. ASSUME NEW i, IsLast(rows[id].channel, id, i)', Pending(id) = {}
              PROVE  TellsState(events[rows[id].channel][i])'
          <5>1. /\ rows' = rows /\ i \in 1 .. n /\ events'[c][i][2] = id
                /\ \A j \in 1 .. n : events'[c][j][2] = id => j <= i
            BY <2>1, <2>2, <3>4, <4>2 DEF IsLast
          <5>2. i \in 1 .. n - 1 /\ events'[c][i] = events[c][i] /\ n - 1 = Len(events[c])
            <6>1. i # n
              BY <2>2, <2>4, <5>1
            <6>2. n - 1 = Len(events[c])
              BY <2>2 DEF n, TypeOK
            <6> QED
              BY <2>2, <5>1, <6>1, <6>2
          <5>3. IsLast(c, id, i)
            <6>1. \A j \in 1 .. n - 1 : j \in 1 .. n /\ events'[c][j] = events[c][j]
              BY <2>2
            <6> QED
              BY <5>1, <5>2, <6>1 DEF IsLast
          <5>4. TellsState(events[c][i])
            BY <1>0, <2>4, <3>4, <4>2, <5>3 DEF Good
          <5> QED
            BY <3>4, <5>1, <5>2, <5>4 DEF TellsState
        <4> QED
          BY <1>0, <2>4, <3>1, <4>1, <4>2 DEF Good
      <3> QED
        BY <3>3, <3>4
    <2>5. ASSUME msg[r] \notin lost \cup crossed
          PROVE  Good(msg[r])'
      <3>1. msg[r] \in DOMAIN rows \ (lost \cup crossed) /\ r \in Pending(msg[r])
        BY <2>1, <2>3, <2>5 DEF Pending
      <3>2. Pending(msg[r]) = {r} /\ TellsState(<<op[r], msg[r], r>>)
        BY <1>0, <3>1 DEF Good
      <3>3. Pending(msg[r])' = {}
        BY <2>1, <3>2 DEF Pending, Alone
      <3>4. ASSUME NEW i, IsLast(rows[msg[r]].channel, msg[r], i)'
            PROVE  TellsState(events[rows[msg[r]].channel][i])'
        <4>1. /\ rows' = rows /\ msg' = msg /\ i \in 1 .. n
              /\ \A j \in 1 .. n : events'[c][j][2] = msg[r] => j <= i
          BY <2>1, <2>2, <2>3, <3>4 DEF IsLast
        <4>2. i = n
          BY <2>2, <4>1
        <4> QED
          BY <2>2, <2>3, <3>2, <4>1, <4>2 DEF TellsState
      <3> QED
        BY <3>3, <3>4 DEF Good
    <2>6. ASSUME NEW id \in DOMAIN rows' \ (lost' \cup crossed') PROVE Good(id)'
      BY <2>1, <2>4, <2>5, <2>6
    <2> QED
      BY <1>0, <2>6
  <1>10. ASSUME NEW r \in Requests, Reject(r) \/ Miss(r) \/ ClassifyMiss(r) \/ StatementFails(r)
         PROVE  Settled'
    <2>1. Moves(r) /\ pc[r] # "publish" /\ pc'[r] # "publish"
      BY <1>10, RejectMoves, MissMoves, ClassifyMissMoves, StatementFailsMoves DEF Kinds
    <2> QED
      BY <1>3, <2>1
  <1>11. ASSUME NEW r \in Requests, AskCreate(r) PROVE Settled'
    BY <1>4, <1>11, AskCreateBegins DEF Kinds
  <1>12. ASSUME NEW r \in Requests, NEW kind \in {"update", "delete"},
                NEW id \in {NoRow} \cup 1 .. lastId, AskChange(r, kind, id)
         PROVE  Settled'
    BY <1>4, <1>12, AskChangeBegins DEF Kinds
  <1>13. Aside => Settled'
    BY <1>2 DEF Aside, request
  <1>14. UNCHANGED vars => Aside
    BY DEF vars, Aside
  <1> QED
    BY <1>6, <1>7, <1>8, <1>9, <1>10, <1>11, <1>12, <1>13, <1>14, CreateChannelAside, ReaderAside
       DEF Next

\* A reader's pages hold what it has not been told: texts that were published
\* before it subscribed are still there to be fetched.
LEMMA NextCovered ==
  ASSUME TypeOK, Stages, Drawn, Sequenced, Told, Covered, [Next]_vars
  PROVE  Covered'
  <1> DEFINE Old(v) == \A i \in 1 .. since[v] :
                         i \in 1 .. Len(events[topic[v]]) /\ events[topic[v]][i] \in Event
                         /\ events'[topic[v]][i] = events[topic[v]][i]
  <1>0. EventsStay /\ RowsStay /\ topic' = topic
    BY NextEventsStay, NextRowsStay DEF CreateChannel, AskCreate, Reject, AskChange, Insert, Update,
       Delete, Miss, ClassifyMiss, StatementFails, Publish, Subscribe, Fetch, vars, reader, Next
  <1>1. ASSUME NEW v \in Readers PROVE Old(v) /\ topic[v] \in Channels
    <2>1. /\ topic[v] \in Channels /\ since[v] \in Nat /\ since[v] <= Len(events[topic[v]])
          /\ Len(events[topic[v]]) \in Nat
      BY DEF TypeOK
    <2>2. \A i \in 1 .. since[v] : i \in 1 .. Len(events[topic[v]])
      BY <2>1
    <2> QED
      BY <1>0, <2>1, <2>2, EventTypes DEF EventsStay
  <1> HIDE DEF Old
  <1> DEFINE OldText(v, id, t) == \E i \in 1 .. since[v] : /\ events[topic[v]][i][2] = id
                                                          /\ events[topic[v]][i][3] = t
  <1>2. ASSUME NEW v \in Readers, NEW id, since'[v] = since[v], OldNews(v, id)'
        PROVE  /\ OldText(v, id, rows'[id].content)
               /\ rows'[id].content \in Requests /\ status[rows'[id].content] # 0
    <2>1. PICK i \in 1 .. since[v] : /\ events'[topic[v]][i][2] = id
                                     /\ events'[topic[v]][i][3] = rows'[id].content
      BY <1>0, <1>2 DEF OldNews
    <2>2. /\ i \in 1 .. Len(events[topic[v]]) /\ events[topic[v]][i][2] = id
          /\ events[topic[v]][i][3] = rows'[id].content
      BY <1>1, <2>1 DEF Old
    <2>3. rows'[id].content \in Requests /\ status[rows'[id].content] # 0
      BY <1>1, <2>2, EventTypes DEF Sequenced
    <2> QED
      BY <2>2, <2>3
  <1>3. \A v, id : OldNews(v, id) <=> OldText(v, id, rows[id].content)
    BY DEF OldNews
  <1> HIDE DEF OldText
  <1>5. ASSUME NEW v \in Readers, UNCHANGED reader,
               \A id \in Live(topic[v])' : OldNews(v, id)' =>
                 id \in Live(topic[v]) /\ OldNews(v, id) /\ rows'[id].content = rows[id].content
        PROVE  Covering(v)'
    <2>1. \A id : Ahead(v, id)' <=> Ahead(v, id)
      BY <1>5 DEF reader, Ahead
    <2>2. \A i \in 1 .. since'[v] : events'[topic'[v]][i] = events[topic[v]][i]
      BY <1>1, <1>5 DEF reader, Old
    <2>3. Covering(v)
      BY DEF Covered
    <2> QED
      BY <1>5, <2>1, <2>2, <2>3 DEF Covering, reader
  <1>6. ASSUME UNCHANGED reader, rows' = rows PROVE Covered'
    <2>1. ASSUME NEW v \in Readers, NEW id, OldNews(v, id)' PROVE OldNews(v, id)
      <3>1. since'[v] = since[v]
        BY <1>6 DEF reader
      <3> QED
        BY <1>2, <1>3, <1>6, <2>1, <3>1
    <2>2. \A v \in Readers : Live(topic[v])' = Live(topic[v])
      BY <1>0, <1>6 DEF Live
    <2> QED
      BY <1>5, <1>6, <2>1, <2>2 DEF Covered
  <1>7. ASSUME NEW r \in Requests, Commits(r), status[r] = 0,
               rows'[msg[r]].live => rows'[msg[r]].content = r,
               \A id \in DOMAIN rows' \ {msg[r]} : id \in DOMAIN rows /\ rows'[id] = rows[id]
        PROVE  Covered'
    <2> SUFFICES ASSUME NEW v \in Readers, NEW id \in Live(topic[v])', OldNews(v, id)'
                 PROVE  id \in Live(topic[v]) /\ OldNews(v, id) /\ rows'[id].content = rows[id].content
      <3>1. UNCHANGED reader
        BY <1>7 DEF Commits
      <3> QED
        BY <1>5, <3>1 DEF Covered
    <2>1. OldText(v, id, rows'[id].content) /\ rows'[id].content # r
      <3>1. since'[v] = since[v]
        BY <1>7 DEF Commits, reader
      <3> QED
        BY <1>2, <1>7, <3>1
    <2>2. id \in DOMAIN rows' /\ rows'[id].live /\ rows'[id].channel = topic[v]
      BY <1>0 DEF Live
    <2>3. id # msg[r]
      BY <1>7, <2>1, <2>2
    <2> QED
      BY <1>3, <1>7, <2>1, <2>2, <2>3 DEF Live
  <1>8. ASSUME NEW r \in Requests, Insert(r) PROVE Covered'
    <2>1. /\ Commits(r) /\ pc[r] = "create" /\ DOMAIN rows' = DOMAIN rows \cup {msg[r]}
          /\ rows'[msg[r]] = [channel |-> chan[r], author |-> who[r], content |-> r, live |-> TRUE]
          /\ \A id \in DOMAIN rows \ {msg[r]} : rows'[id] = rows[id]
      BY <1>8, InsertCommits
    <2>2. rows'[msg[r]].content = r
      BY <2>1
    <2>3. status[r] = 0
      BY <2>1 DEF Stages, Stage
    <2> QED
      BY <1>7, <2>1, <2>2, <2>3
  <1>9. ASSUME NEW r \in Requests, Update(r) PROVE Covered'
    <2>1. /\ Commits(r) /\ pc[r] = "update" /\ DOMAIN rows' = DOMAIN rows /\ Own(r)
          /\ rows'[msg[r]] = [rows[msg[r]] EXCEPT !.content = r]
          /\ \A id \in DOMAIN rows \ {msg[r]} : rows'[id] = rows[id]
      BY <1>9, UpdateCommits
    <2>2. rows[msg[r]] \in Row
      BY <2>1 DEF Own, TypeOK
    <2>3. rows'[msg[r]].content = r
      BY <2>1, <2>2 DEF Row
    <2>4. status[r] = 0
      BY <2>1 DEF Stages, Stage
    <2> QED
      BY <1>7, <2>1, <2>3, <2>4
  <1>10. ASSUME NEW r \in Requests, Delete(r) PROVE Covered'
    <2>1. /\ Commits(r) /\ pc[r] = "delete" /\ DOMAIN rows' = DOMAIN rows /\ Own(r)
          /\ rows'[msg[r]] = [rows[msg[r]] EXCEPT !.content = Empty, !.live = FALSE]
          /\ \A id \in DOMAIN rows \ {msg[r]} : rows'[id] = rows[id]
      BY <1>10, DeleteCommits
    <2>2. rows[msg[r]] \in Row
      BY <2>1 DEF Own, TypeOK
    <2>3. ~rows'[msg[r]].live
      BY <2>1, <2>2 DEF Row
    <2>4. status[r] = 0
      BY <2>1 DEF Stages, Stage
    <2> QED
      BY <1>7, <2>1, <2>3, <2>4
  <1>11. ASSUME NEW r \in Requests, Publish(r) PROVE Covered'
    BY <1>6, <1>11 DEF Publish
  <1>12. ASSUME NEW r \in Requests, AskCreate(r) \/ Reject(r) \/ Miss(r) \/ ClassifyMiss(r)
                                    \/ StatementFails(r)
         PROVE  Covered'
    BY <1>6, <1>12 DEF AskCreate, Reject, Miss, ClassifyMiss, StatementFails
  <1>13. ASSUME NEW r \in Requests, NEW kind \in {"update", "delete"},
                NEW id \in {NoRow} \cup 1 .. lastId, AskChange(r, kind, id)
         PROVE  Covered'
    BY <1>6, <1>13 DEF AskChange
  <1>14. ASSUME NEW c \in Channels, CreateChannel(c) PROVE Covered'
    BY <1>6, <1>14 DEF CreateChannel
  <1>15. CASE UNCHANGED vars
    BY <1>6, <1>15 DEF vars
  <1>16. ASSUME NEW v \in Readers, Subscribe(v) \/ Fetch(v), NEW w \in Readers \ {v}
         PROVE  Covering(w)'
    <2>1. /\ rows' = rows /\ from'[w] = from[w] /\ cursor'[w] = cursor[w] /\ state'[w] = state[w]
          /\ shown'[w] = shown[w] /\ since'[w] = since[w] /\ events' = events
      <3>1. CASE Subscribe(v)
        BY <1>16, <3>1 DEF Subscribe, TypeOK
      <3>2. CASE Fetch(v)
        <4>1. from[v] # NoRow => cursor[v] # NoRow
          BY DEF Covered, Covering
        <4> QED
          BY <1>16, <3>2, <4>1, FetchPage DEF Fetch, TypeOK
      <3> QED
        BY <1>16, <3>1, <3>2
    <2>2. Covering(w)
      BY DEF Covered
    <2> QED
      BY <1>0, <2>1, <2>2 DEF Covering, Live, Ahead, OldNews
  <1>17. ASSUME NEW v \in Readers, Subscribe(v) PROVE Covered'
    <2>1. PICK x \in Ids \cup {NoRow} : /\ from' = [from EXCEPT ![v] = x]
                                        /\ cursor' = [cursor EXCEPT ![v] = x]
      BY <1>17 DEF Subscribe
    <2>2. from'[v] = x /\ cursor'[v] = x /\ state'[v] = "fetching" /\ shown'[v] = {}
      BY <1>17, <2>1 DEF Subscribe, TypeOK, Covered, Covering
    <2>3. Covering(v)'
      BY <2>2 DEF Covering, Ahead
    <2> QED
      BY <1>16, <1>17, <2>3 DEF Covered
  <1>18. ASSUME NEW v \in Readers, Fetch(v) PROVE Covered'
    <2>1. Covering(v) /\ UNCHANGED <<rows, events, from, since, topic>> /\ state[v] = "fetching"
      BY <1>18 DEF Covered, Fetch
    <2>2. PICK page \in SUBSET Live(topic[v]) :
            /\ shown' = [shown EXCEPT ![v] = @ \cup {<<id, rows[id].content>> : id \in page}]
            /\ state'[v] # "away" /\ (from[v] # NoRow => cursor'[v] # NoRow)
            /\ \A id \in Live(topic[v]) :
                 Ahead(v, id) => id \in page \/ (state'[v] = "fetching" /\ Ahead(v, id)')
      BY <1>18, <2>1, FetchPage DEF Covering
    <2>3. shown'[v] = shown[v] \cup {<<id, rows[id].content>> : id \in page}
      BY <2>2 DEF TypeOK
    <2>4. \A id \in Live(topic[v]) :
            state'[v] # "away" /\ id > from'[v] /\ OldNews(v, id) =>
              \/ <<id, rows'[id].content>> \in shown'[v]
              \/ state'[v] = "fetching" /\ Ahead(v, id)'
      BY <2>1, <2>2, <2>3 DEF Covering
    <2>5. ASSUME NEW i \in 1 .. since[v], events[topic[v]][i][1] = "delete"
          PROVE  \A s \in shown'[v] : s[1] # events[topic[v]][i][2]
      <3>1. ~rows[events[topic[v]][i][2]].live
        BY <1>1, <2>5 DEF Told, Old
      <3>2. events[topic[v]][i][2] \notin page
        BY <3>1 DEF Live
      <3>3. \A s \in shown[v] : s[1] # events[topic[v]][i][2]
        BY <2>1, <2>5 DEF Covering
      <3> QED
        BY <2>3, <3>2, <3>3
    <2>6. \A id : OldNews(v, id)' <=> OldNews(v, id)
      BY <2>1 DEF OldNews
    <2>7. Live(topic[v])' = Live(topic[v])
      BY <2>1 DEF Live
    <2>8. Covering(v)'
      BY <2>1, <2>2, <2>4, <2>5, <2>6, <2>7 DEF Covering
    <2> QED
      BY <1>16, <1>18, <2>8 DEF Covered
  <1> QED
    BY <1>8, <1>9, <1>10, <1>11, <1>12, <1>13, <1>14, <1>15, <1>17, <1>18 DEF Next

\* A page holds only what is ahead, and what it has shown is behind.
LEMMA NextShownOnce ==
  ASSUME TypeOK, Drawn, Covered, ShownOnce, [Next]_vars
  PROVE  ShownOnce'
  <1>1. ASSUME UNCHANGED reader PROVE ShownOnce'
    BY <1>1 DEF ShownOnce, reader, Ahead
  <1>2. ASSUME NEW r \in Requests, AskCreate(r) \/ Reject(r) \/ Miss(r) \/ ClassifyMiss(r)
                                   \/ StatementFails(r) \/ Publish(r)
        PROVE  UNCHANGED reader
    BY <1>2 DEF AskCreate, Reject, Miss, ClassifyMiss, StatementFails, Publish
  <1>3. ASSUME NEW r \in Requests, Insert(r) \/ Update(r) \/ Delete(r)
        PROVE  UNCHANGED reader
    BY <1>3 DEF Insert, Update, Delete
  <1>4. ASSUME NEW r \in Requests, NEW kind \in {"update", "delete"},
               NEW id \in {NoRow} \cup 1 .. lastId, AskChange(r, kind, id)
        PROVE  UNCHANGED reader
    BY <1>4 DEF AskChange
  <1>5. ASSUME NEW c \in Channels, CreateChannel(c) PROVE UNCHANGED reader
    BY <1>5, CreateChannelAside
  <1>6. UNCHANGED vars => UNCHANGED reader
    BY DEF vars
  <1> DEFINE Once(v) == /\ \A s, t \in shown[v] : s[1] = t[1] => s = t
                        /\ state[v] = "fetching" => \A s \in shown[v] : ~Ahead(v, s[1])
  <1>7. ASSUME NEW v \in Readers, Subscribe(v) PROVE ShownOnce'
    <2>1. shown' = shown /\ shown[v] = {}
      BY <1>7 DEF Subscribe, Covered, Covering
    <2>2. \A w \in Readers \ {v} : from'[w] = from[w] /\ cursor'[w] = cursor[w]
                                   /\ state'[w] = state[w]
      BY <1>7 DEF Subscribe, TypeOK
    <2>3. ASSUME NEW w \in Readers \ {v} PROVE Once(w)'
      BY <2>1, <2>2 DEF ShownOnce, Ahead
    <2>4. Once(v)'
      BY <2>1
    <2> QED
      BY <2>3, <2>4 DEF ShownOnce
  <1>8. ASSUME NEW v \in Readers, Fetch(v) PROVE ShownOnce'
    <2>1. from[v] # NoRow => cursor[v] # NoRow
      BY DEF Covered, Covering
    <2>2. PICK page \in SUBSET Live(topic[v]) :
            /\ shown' = [shown EXCEPT ![v] = @ \cup {<<id, rows[id].content>> : id \in page}]
            /\ \A w \in Readers \ {v} : state'[w] = state[w] /\ cursor'[w] = cursor[w]
            /\ \A id \in page : Ahead(v, id)
            /\ state'[v] = "fetching" => /\ \A id \in page : ~Ahead(v, id)'
                                        /\ \A id \in Ids : ~Ahead(v, id) => ~Ahead(v, id)'
      BY <1>8, <2>1, FetchPage
    <2>3. from' = from /\ state[v] = "fetching"
      BY <1>8 DEF Fetch
    <2>4. shown'[v] = shown[v] \cup {<<id, rows[id].content>> : id \in page}
          /\ \A w \in Readers \ {v} : shown'[w] = shown[w]
      BY <2>2 DEF TypeOK
    <2>5. ASSUME NEW w \in Readers \ {v} PROVE Once(w)'
      BY <2>2, <2>3, <2>4 DEF ShownOnce, Ahead
    <2> DEFINE new == {<<id, rows[id].content>> : id \in page}
    <2>6. \A s \in new : s[1] \in page /\ s = <<s[1], rows[s[1]].content>>
      OBVIOUS
    <2>7. \A s \in shown[v] : s[1] \in Ids /\ ~Ahead(v, s[1])
      <3>1. shown[v] \subseteq Ids \X Requests
        BY DEF TypeOK
      <3> QED
        BY <2>3, <3>1 DEF ShownOnce
    <2> HIDE DEF new
    <2>8. shown'[v] = shown[v] \cup new
      BY <2>4 DEF new
    <2>9. \A s, t \in shown'[v] : s[1] = t[1] => s = t
      <3>1. \A s, t \in shown[v] : s[1] = t[1] => s = t
        BY DEF ShownOnce
      <3>2. \A s, t \in new : s[1] = t[1] => s = t
        BY <2>6
      <3>3. \A s \in shown[v], t \in new : s[1] # t[1]
        BY <2>2, <2>6, <2>7
      <3> QED
        BY <2>8, <3>1, <3>2, <3>3
    <2>10. state'[v] = "fetching" => \A s \in shown'[v] : ~Ahead(v, s[1])'
      BY <2>2, <2>6, <2>7, <2>8
    <2>11. Once(v)'
      BY <2>9, <2>10
    <2> QED
      BY <2>5, <2>11 DEF ShownOnce
  <1> QED
    BY <1>1, <1>2, <1>3, <1>4, <1>5, <1>6, <1>7, <1>8 DEF Next

------------------------------------------------------------------------------
(* What holds in every reachable state.                                       *)

\* The inductive invariant: what requests and readers know of the rows, the events
\* and each other between two of their steps.
THEOREM Invariance == Spec => []IndInv
  <1>1. Init => IndInv
    BY InitIndInv
  <1>2. IndInv /\ [Next]_vars => IndInv'
    BY NextTypeOK, NextStages, NextDrawn, NextDeletes, NextMisses, NextSequenced, NextTold,
       NextSettled, NextCovered, NextShownOnce DEF IndInv
  <1> QED
    BY <1>1, <1>2, PTL DEF Spec

\* Every variable keeps its type: store.go never writes a row outside the ids that
\* Generator.Next has drawn, and readers subscribe at a position that exists.
THEOREM TypeCorrect == Spec => []TypeOK
  <1>1. IndInv => TypeOK
    BY DEF IndInv
  <1> QED
    BY <1>1, Invariance, PTL

\* What a deleted message said is gone, and one request only was told that it
\* deleted it: the where clause of Store.Delete is evaluated under the row lock.
THEOREM DeletesAreFinal == Spec => []DeletedForGood
  <1>1. IndInv => DeletedForGood
    <2> SUFFICES ASSUME IndInv PROVE DeletedForGood
      OBVIOUS
    <2>1. \A id \in DOMAIN rows : ~rows[id].live => rows[id].content = Empty
      BY DEF IndInv, Deletes
    <2>2. \A r \in Requests : status[r] = 204 => Deleted(r)
      BY DEF IndInv, Stages, Stage, Deleted
    <2> QED
      BY <2>1, <2>2 DEF IndInv, Deletes, DeletedForGood
  <1> QED
    BY <1>1, Invariance, PTL

\* classifyMiss never misleads the client, though it looks at the row after other
\* requests may have changed it.
THEOREM MissesAreExplained == Spec => []MissesExplained
  <1>1. IndInv => MissesExplained
    BY DEF IndInv, Misses, Missed, Stages, Stage, Own, MissesExplained
  <1> QED
    BY <1>1, Invariance, PTL

\* The handlers publish before they answer: whoever sends a request after an answer
\* can rely on subscribers hearing of the two in this order.
THEOREM EventsInOrderOfAnswers == Spec => []AnswersAfterEvents
  <1>1. IndInv => AnswersAfterEvents
    BY DEF IndInv
  <1> QED
    BY <1>1, Invariance, PTL

\* A reader that subscribes and then fetches its pages is told how every message
\* past its starting point ended, for any number of requests that change messages
\* while it pages: by the last event about it, or by the pages if there is none.
\* Of a message whose changes overlapped the pages or some event tells it.
THEOREM ReadersMissNothing == Spec => []NothingMissed
  <1>1. IndInv => NothingMissed
    <2> SUFFICES ASSUME IndInv, NEW v \in Readers, state[v] = "ready",
                        NEW id \in DOMAIN rows \ lost,
                        rows[id].channel = topic[v], id > from[v],
                        \A r \in Requests : msg[r] = id => pc[r] # "publish"
                 PROVE  IF id \in crossed
                        THEN \/ PagesTellState(v, id)
                             \/ \E i \in News(v, id) : TellsState(events[topic[v]][i])
                        ELSE IF News(v, id) = {}
                        THEN PagesTellState(v, id)
                        ELSE \A i \in News(v, id) :
                               (\A j \in News(v, id) : j <= i) => TellsState(events[topic[v]][i])
      BY DEF NothingMissed
    <2>1. PICK r \in Requests :
            /\ msg[r] = id /\ chan[r] = rows[id].channel /\ Out(r)
            /\ IF rows[id].live THEN rows[id].content = r /\ op[r] \in {"create", "update"}
                                ELSE op[r] = "delete"
      BY DEF IndInv, Told
    <2>2. PICK k \in 1 .. Len(events[topic[v]]) : events[topic[v]][k] = <<op[r], id, r>>
      BY <2>1 DEF Out
    <2>3. /\ since[v] \in Nat /\ Len(events[topic[v]]) \in Nat /\ since[v] <= Len(events[topic[v]])
          /\ Covering(v)
      BY DEF IndInv, TypeOK, Covered
    <2>4. /\ events[topic[v]][k][1] = op[r] /\ events[topic[v]][k][2] = id
          /\ events[topic[v]][k][3] = r
      BY <2>2
    <2>5. TellsState(events[topic[v]][k])
      BY <2>1, <2>4 DEF TellsState
    <2>6. k > since[v] => k \in News(v, id)
      BY <2>2, <2>3, <2>4 DEF News
    <2>7. ASSUME ~(k > since[v]) PROVE PagesTellState(v, id)
      <3>1. k \in 1 .. since[v]
        BY <2>3, <2>7
      <3>2. CASE rows[id].live
        <4>1. OldNews(v, id) /\ id \in Live(topic[v])
          BY <2>1, <2>4, <3>1, <3>2 DEF OldNews, Live
        <4>2. <<id, rows[id].content>> \in shown[v]
          BY <2>3, <3>2, <4>1 DEF Covering
        <4>3. \A s, t \in shown[v] : s[1] = t[1] => s = t
          BY DEF IndInv, ShownOnce
        <4>4. \A s \in shown[v] : s[1] = id => s = <<id, rows[id].content>>
          BY <4>2, <4>3
        <4> QED
          BY <3>2, <4>2, <4>4 DEF PagesTellState
      <3>3. CASE ~rows[id].live
        BY <2>1, <2>3, <2>4, <3>1, <3>3 DEF Covering, PagesTellState
      <3> QED
        BY <3>2, <3>3
    <2>8. ASSUME id \notin crossed, NEW i \in News(v, id), \A j \in News(v, id) : j <= i
          PROVE  TellsState(events[topic[v]][i])
      <3>1. i \in Nat /\ i > since[v] /\ i \in 1 .. Len(events[topic[v]]) /\ events[topic[v]][i][2] = id
        BY <2>3, <2>8 DEF News
      <3>2. ASSUME NEW j \in 1 .. Len(events[topic[v]]), events[topic[v]][j][2] = id
            PROVE  j <= i
        <4>1. CASE j > since[v]
          <5>1. j \in News(v, id)
            BY <2>3, <3>2, <4>1 DEF News
          <5> QED
            BY <2>8, <5>1
        <4>2. CASE ~(j > since[v])
          BY <2>3, <3>1, <4>2
        <4> QED
          BY <4>1, <4>2
      <3>3. IsLast(topic[v], id, i)
        BY <3>1, <3>2 DEF IsLast
      <3>4. Pending(id) = {} /\ id \in DOMAIN rows \ (lost \cup crossed)
        BY <2>8 DEF Pending
      <3> QED
        BY <3>3, <3>4 DEF IndInv, Settled
    <2> QED
      BY <2>5, <2>6, <2>7, <2>8
  <1> QED
    BY <1>1, Invariance, PTL
=============================================================================
