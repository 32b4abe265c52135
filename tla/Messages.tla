-------------------------------- MODULE Messages --------------------------------
(****************************************************************************)
(* Messages of channels: the store (internal/message/store.go), the REST    *)
(* handlers over it (internal/api/message_handlers.go), and a reader that   *)
(* subscribes to a channel and then fetches its history page by page.       *)
(*                                                                          *)
(* A request changes a row with one statement, which commits at once, and   *)
(* calls Hub.Publish afterwards, without any lock across the two.  What the *)
(* hub does with an event is module Gateway; here the events of a channel   *)
(* are the sequence that a subscriber with room in its queue is sent.       *)
(*                                                                          *)
(* The text of a message is named by the request that wrote it.             *)
(****************************************************************************)
EXTENDS Integers, Sequences, FiniteSets

CONSTANTS
  Requests,  \* goroutines that serve message requests, one request each
  Users,     \* authenticated users
  Channels,  \* ids of channels; a channel is made once and never removed
  Readers,   \* clients of the gateway and of GET .../messages
  Limit      \* rows a reader asks for per page

ASSUME LimitAssumption == Limit \in Nat \ {0}
ASSUME RequestsAssumption == IsFiniteSet(Requests)

Ids   == 1 .. Cardinality(Requests)
Empty == "empty"
None  == "none"
NoRow == 0

VARIABLES
  made,    \* table channels
  rows,    \* table messages: id |-> row, deleted rows included
  lastId,  \* ids drawn from the generator so far
  events,  \* messages published on each channel: <<op, id, request>>
  pc,      \* where each request is
  op,      \* "create", "update" or "delete"
  who,     \* its authenticated user
  chan,    \* {id} of the path
  msg,     \* {mid} of the path, or the id drawn for a new message
  status,  \* the HTTP status it was answered with, 0 for none
  state,   \* of each reader: "away", "fetching", "ready"
  topic,   \* the channel it reads
  from,    \* after-cursor it starts from, 0 to read backwards from the newest
  cursor,  \* the cursor of its next page, 0 for none
  shown,   \* what its pages held: pairs of an id and a text
  since,   \* events published on its channel before it subscribed
  earlier, \* history: requests that were answered before each request began
  there,   \* history: requests whose message was live when they began
  lost,    \* history: messages changed by a request that did not get to Publish
  crossed  \* history: messages changed while an earlier change had still to be
           \* published

request == <<pc, op, who, chan, msg, status>>
reader  == <<state, topic, from, cursor, shown, since>>
vars    == <<made, rows, lastId, events, request, reader, earlier, there, lost, crossed>>

Row   == [channel : Channels, author : Users, content : Requests \cup {Empty}, live : BOOLEAN]
Event == {"create", "update", "delete"} \X Ids \X Requests

TypeOK ==
  /\ made \subseteq Channels
  /\ lastId \in 0 .. Cardinality(Requests)
  /\ DOMAIN rows \subseteq 1 .. lastId
  /\ \A id \in DOMAIN rows : rows[id] \in Row
  /\ events \in [Channels -> Seq(Event)]
  /\ pc \in [Requests -> {"idle", "create", "update", "delete", "classify", "publish", "done"}]
  /\ op \in [Requests -> {None, "create", "update", "delete"}]
  /\ who \in [Requests -> Users \cup {None}]
  /\ chan \in [Requests -> Channels \cup {None}]
  /\ msg \in [Requests -> Ids \cup {NoRow}]
  /\ status \in [Requests -> {0, 200, 201, 204, 400, 403, 404, 500}]
  /\ state \in [Readers -> {"away", "fetching", "ready"}]
  /\ topic \in [Readers -> Channels]
  /\ from \in [Readers -> Ids \cup {NoRow}]
  /\ cursor \in [Readers -> Ids \cup {NoRow}]
  /\ shown \in [Readers -> SUBSET (Ids \X Requests)]
  /\ since \in [Readers -> Nat]
  /\ \A v \in Readers : since[v] <= Len(events[topic[v]])
  /\ earlier \in [Requests -> SUBSET Requests]
  /\ there \subseteq Requests
  /\ lost \subseteq Ids /\ crossed \subseteq Ids

Init ==
  /\ made = {}
  /\ rows = <<>>
  /\ lastId = 0
  /\ events = [c \in Channels |-> <<>>]
  /\ pc = [r \in Requests |-> "idle"]
  /\ op = [r \in Requests |-> None]
  /\ who = [r \in Requests |-> None]
  /\ chan = [r \in Requests |-> None]
  /\ msg = [r \in Requests |-> NoRow]
  /\ status = [r \in Requests |-> 0]
  /\ state = [v \in Readers |-> "away"]
  /\ topic \in [Readers -> Channels]
  /\ from = [v \in Readers |-> NoRow]
  /\ cursor = [v \in Readers |-> NoRow]
  /\ shown = [v \in Readers |-> {}]
  /\ since = [v \in Readers |-> 0]
  /\ earlier = [r \in Requests |-> {}]
  /\ there = {}
  /\ lost = {} /\ crossed = {}

------------------------------------------------------------------------------
(* Helpers *)

\* where channel_id = c and deleted_at is null
Live(c) == {id \in DOMAIN rows : rows[id].channel = c /\ rows[id].live}

\* Mutation: the author's rows, deleted or not.
OwnedAny(r) ==
  msg[r] \in DOMAIN rows /\ rows[msg[r]].channel = chan[r] /\ rows[msg[r]].author = who[r]

\* The where clause of Update and Delete.  A statement that has waited for
\* another one's row lock evaluates it again.
Owned(r) == msg[r] \in Live(chan[r]) /\ rows[msg[r]].author = who[r]

\* Mutation: deleted rows are left out after the limit has been applied.
PageLimitedFirst(c, before, after) ==
  LET rest == {id \in DOMAIN rows : /\ rows[id].channel = c
                                    /\ (before = 0 \/ id < before) /\ (after = 0 \/ id > after)}
      ahead(id) == IF after > 0 /\ before = 0 THEN {x \in rest : x < id} ELSE {x \in rest : x > id}
  IN  {id \in rest : Cardinality(ahead(id)) < Limit} \cap Live(c)

\* Store.List: the rows of one page.  Only an after-cursor alone reads upwards.
Page(c, before, after) ==
  LET rest == {id \in Live(c) : (before = 0 \/ id < before) /\ (after = 0 \/ id > after)}
      ahead(id) == IF after > 0 /\ before = 0 THEN {x \in rest : x < id} ELSE {x \in rest : x > id}
  IN  {id \in rest : Cardinality(ahead(id)) < Limit}

Goto(r, next)   == pc' = [pc EXCEPT ![r] = next]
Answer(r, code) == Goto(r, "done") /\ status' = [status EXCEPT ![r] = code]

\* The statement has committed.  The handler goes on, or the client went away,
\* its context is done and pgx reports an error for it.
Committed(r) ==
  /\ \/ Goto(r, "publish") /\ UNCHANGED <<status, lost>>
     \/ Answer(r, 500) /\ lost' = lost \cup {msg[r]}
  /\ crossed' = crossed \cup
       {id \in {msg[r]} : \E q \in Requests : pc[q] = "publish" /\ msg[q] = id}

Answered == {r \in Requests : status[r] # 0}

------------------------------------------------------------------------------
(* POST /channels: handleCreateChannel, channel.Store.Create *)

CreateChannel(c) ==
  /\ c \notin made
  /\ made' = made \cup {c}
  /\ UNCHANGED <<rows, lastId, events, request, reader, earlier, there, lost, crossed>>

------------------------------------------------------------------------------
(* Requests *)

\* requireAuth has found the user, the mux the channel of the path.
Begin(r, kind) ==
  /\ pc[r] = "idle"
  /\ op' = [op EXCEPT ![r] = kind]
  /\ \E u \in Users : who' = [who EXCEPT ![r] = u]
  /\ \E c \in IF kind = "create" THEN made ELSE Channels : chan' = [chan EXCEPT ![r] = c]
  /\ Goto(r, kind)
  /\ earlier' = [earlier EXCEPT ![r] = Answered]

\* Mutation: the error of Next is dropped, and the id is 0.
AskCreateWithoutId(r) ==
  /\ Begin(r, "create")
  /\ UNCHANGED <<made, rows, lastId, events, msg, status, reader, there, lost, crossed>>

\* handleCreateMessage up to Store.Create: content and channel pass, Next draws
\* the id.
AskCreate(r) ==
  /\ Begin(r, "create")
  /\ lastId' = lastId + 1
  /\ msg' = [msg EXCEPT ![r] = lastId']
  /\ UNCHANGED <<made, rows, events, status, reader, there, lost, crossed>>

\* handleUpdateMessage and handleDeleteMessage up to the call of the store; the
\* ids of the path are the client's: an id that was drawn, its row committed or
\* not, or one that no message has.
AskChange(r, kind, id) ==
  /\ Begin(r, kind)
  /\ msg' = [msg EXCEPT ![r] = id]
  /\ there' = IF id \in Live(chan'[r]) THEN there \cup {r} ELSE there
  /\ UNCHANGED <<made, rows, lastId, events, status, reader, lost, crossed>>

\* An unparsable id, content that does not pass, no such channel, no id: 400
\* stands for the codes that are answered before the store is asked.
Reject(r) ==
  /\ pc[r] = "idle"
  /\ Answer(r, 400)
  /\ UNCHANGED <<made, rows, lastId, events, op, who, chan, msg, reader, earlier, there, lost, crossed>>

\* Store.Create: the insert.
Insert(r) ==
  /\ pc[r] = "create"
  /\ rows' = [id \in DOMAIN rows \cup {msg[r]} |->
                IF id = msg[r]
                THEN [channel |-> chan[r], author |-> who[r], content |-> r, live |-> TRUE]
                ELSE rows[id]]
  /\ Committed(r)
  /\ UNCHANGED <<made, lastId, events, op, who, chan, msg, reader, earlier, there>>

\* Mutation: the answer goes out before the event.
UpdateAnswersFirst(r) ==
  /\ pc[r] = "update" /\ Owned(r)
  /\ rows' = [rows EXCEPT ![msg[r]].content = r]
  /\ Goto(r, "publish")
  /\ status' = [status EXCEPT ![r] = 200]
  /\ UNCHANGED <<made, lastId, events, op, who, chan, msg, reader, earlier, there, lost, crossed>>

Update(r) ==
  /\ pc[r] = "update" /\ Owned(r)
  /\ rows' = [rows EXCEPT ![msg[r]].content = r]
  /\ Committed(r)
  /\ UNCHANGED <<made, lastId, events, op, who, chan, msg, reader, earlier, there>>

Delete(r) ==
  /\ pc[r] = "delete" /\ Owned(r)
  /\ rows' = [rows EXCEPT ![msg[r]].content = Empty, ![msg[r]].live = FALSE]
  /\ Committed(r)
  /\ UNCHANGED <<made, lastId, events, op, who, chan, msg, reader, earlier, there>>

\* The statement of Update or Delete has changed no row.
Miss(r) ==
  /\ pc[r] \in {"update", "delete"} /\ ~Owned(r)
  /\ Goto(r, "classify")
  /\ UNCHANGED <<made, rows, lastId, events, op, who, chan, msg, status, reader, earlier, there, lost, crossed>>

\* Mutation: the comparison of owner and author is the wrong way round.
ClassifyMissSwapped(r) ==
  /\ pc[r] = "classify"
  /\ Answer(r, IF msg[r] \in Live(chan[r]) /\ rows[msg[r]].author = who[r] THEN 403 ELSE 404)
  /\ UNCHANGED <<made, rows, lastId, events, op, who, chan, msg, reader, earlier, there, lost, crossed>>

\* classifyMiss: a statement of its own, after others may have run.
ClassifyMiss(r) ==
  /\ pc[r] = "classify"
  /\ Answer(r, IF msg[r] \in Live(chan[r]) /\ rows[msg[r]].author # who[r] THEN 403 ELSE 404)
  /\ UNCHANGED <<made, rows, lastId, events, op, who, chan, msg, reader, earlier, there, lost, crossed>>

\* A statement fails and changes nothing.
StatementFails(r) ==
  /\ pc[r] \in {"create", "update", "delete", "classify"}
  /\ Answer(r, 500)
  /\ UNCHANGED <<made, rows, lastId, events, op, who, chan, msg, reader, earlier, there, lost, crossed>>

SuccessCode == [create |-> 201, update |-> 200, delete |-> 204]

\* Hub.Publish, then the answer.
Publish(r) ==
  /\ pc[r] = "publish"
  /\ events' = [events EXCEPT ![chan[r]] = Append(@, <<op[r], msg[r], r>>)]
  /\ Answer(r, SuccessCode[op[r]])
  /\ UNCHANGED <<made, rows, lastId, op, who, chan, msg, reader, earlier, there, lost, crossed>>

------------------------------------------------------------------------------
(* Readers: subscribe, then GET .../messages until a page is short.  Without a  *)
(* cursor the newest page comes first and the lowest id is the next             *)
(* before-cursor; a reader that has kept the history up to some message asks    *)
(* for what comes after it and goes on from the highest id.                     *)

Subscribe(v) ==
  /\ state[v] = "away" /\ topic[v] \in made
  /\ \E x \in Ids \cup {NoRow} :
       /\ x # NoRow => x \in Live(topic[v])
       /\ from' = [from EXCEPT ![v] = x]
       /\ cursor' = [cursor EXCEPT ![v] = x]
  /\ since' = [since EXCEPT ![v] = Len(events[topic[v]])]
  /\ state' = [state EXCEPT ![v] = "fetching"]
  /\ UNCHANGED <<made, rows, lastId, events, request, topic, shown, earlier, there, lost, crossed>>

Lowest(S)  == CHOOSE x \in S : \A y \in S : x <= y
Highest(S) == CHOOSE x \in S : \A y \in S : x >= y

\* handleListMessages
Fetch(v) ==
  /\ state[v] = "fetching"
  /\ LET up   == from[v] # NoRow
         page == IF up THEN Page(topic[v], 0, cursor[v]) ELSE Page(topic[v], cursor[v], 0)
     IN
     /\ shown' = [shown EXCEPT ![v] = @ \cup {<<id, rows[id].content>> : id \in page}]
     /\ IF Cardinality(page) < Limit
        THEN state' = [state EXCEPT ![v] = "ready"] /\ UNCHANGED cursor
        ELSE /\ cursor' = [cursor EXCEPT ![v] = IF up THEN Highest(page) ELSE Lowest(page)]
             /\ UNCHANGED state
  /\ UNCHANGED <<made, rows, lastId, events, request, topic, from, since, earlier, there, lost, crossed>>

------------------------------------------------------------------------------
Next ==
  \/ \E c \in Channels : CreateChannel(c)
  \/ \E r \in Requests :
       \/ AskCreate(r) \/ Reject(r)
       \/ \E kind \in {"update", "delete"}, id \in {NoRow} \cup 1 .. lastId : AskChange(r, kind, id)
       \/ Insert(r) \/ Update(r) \/ Delete(r)
       \/ Miss(r) \/ ClassifyMiss(r) \/ StatementFails(r)
       \/ Publish(r)
  \/ \E v \in Readers : Subscribe(v) \/ Fetch(v)

Spec == Init /\ [][Next]_vars

------------------------------------------------------------------------------
(* Properties *)

\* What a deleted message said is gone for good ("clears stored content",
\* store.go:159), and one request only was told that it deleted it, however
\* updates and deletes of the message overlap.
DeletedForGood ==
  /\ \A id \in DOMAIN rows : ~rows[id].live => rows[id].content = Empty
  /\ \A r, s \in Requests :
       status[r] = 204 /\ status[s] = 204 /\ msg[r] = msg[s] => r = s

\* classifyMiss looks at the row in a second statement, but does not mislead the
\* client: "not the author" is never said to the author, a message that was there
\* when the request began is "not found" only if it is deleted by the time of
\* the answer, and success means that the message is the client's own.
MissesExplained ==
  \A r \in Requests :
    /\ status[r] = 403 => msg[r] \in DOMAIN rows /\ rows[msg[r]].author # who[r]
    /\ status[r] = 404 /\ r \in there => ~rows[msg[r]].live
    /\ status[r] \in {200, 204} => rows[msg[r]].author = who[r]

\* A client that sends a request after it got the answer to another one can rely
\* on subscribers hearing of them in this order: handlers publish before they
\* answer.
AnswersAfterEvents ==
  \A c \in Channels : \A i, j \in 1 .. Len(events[c]) :
    events[c][i][3] \in earlier[events[c][j][3]] => i < j

\* What is sent to a reader about a message: positions of events.
News(v, id) == {i \in since[v] + 1 .. Len(events[topic[v]]) : events[topic[v]][i][2] = id}

\* An event tells what has become of its message.
TellsState(e) ==
  IF rows[e[2]].live THEN e[1] # "delete" /\ e[3] = rows[e[2]].content ELSE e[1] = "delete"

\* What a reader's pages hold of a message is what has become of it.
PagesTellState(v, id) ==
  IF rows[id].live THEN {s \in shown[v] : s[1] = id} = {<<id, rows[id].content>>}
                   ELSE \A s \in shown[v] : s[1] # id

\* Once every event is out, a reader that subscribed and then fetched, in either
\* direction, knows how every message past its starting point ended, its text or
\* its delete: the last event about it says so, and if there was none the pages
\* do.  ("It can reconnect and refetch history", gateway/hub.go:55.)
\* Messages of requests that died between commit and Publish are excepted.  Where
\* two changes of a message overlapped the code may publish them in either order;
\* then the reader was told how it ended, but perhaps not last.
NothingMissed ==
  \A v \in Readers : state[v] = "ready" =>
    \A id \in DOMAIN rows \ lost :
      /\ rows[id].channel = topic[v] /\ id > from[v]
      /\ \A r \in Requests : msg[r] = id => pc[r] # "publish"
      => IF id \in crossed
         THEN \/ PagesTellState(v, id)
              \/ \E i \in News(v, id) : TellsState(events[topic[v]][i])
         ELSE IF News(v, id) = {}
         THEN PagesTellState(v, id)
         ELSE \A i \in News(v, id) :
                (\A j \in News(v, id) : j <= i) => TellsState(events[topic[v]][i])
==============================================================================
