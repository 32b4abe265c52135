-------------------------------- MODULE Gateway --------------------------------
(****************************************************************************)
(* The websocket layer, internal/gateway: the hub that fans messages out,   *)
(* and for every connection a handler goroutine (Handler, readLoop), a      *)
(* writer goroutine (writeLoop) and a bounded queue between the two.        *)
(*                                                                          *)
(* REST handlers call Publish.  It holds the hub's read lock while it walks *)
(* over the subscribers, so several of them walk at the same time; every    *)
(* change of the subscriptions takes the write lock and waits for them.     *)
(*                                                                          *)
(* A queue is a sequence of frames <<kind, what>>: an event with its        *)
(* number, or the hello, ack or error frame of a channel.                   *)
(****************************************************************************)
EXTENDS Integers, Sequences, FiniteSets

CONSTANTS
  Clients,     \* connections
  Publishers,  \* goroutines that serve message requests
  Channels,    \* ids of the channels that exist
  Unknown,     \* an id that names no channel
  SendBuffer,  \* sendBuffer: capacity of a client's queue
  MaxEvents,   \* bound: events published
  MaxCommands  \* bound: commands each client sends

ASSUME UnknownAssumption == Unknown \notin Channels
ASSUME BufferAssumption  == SendBuffer \in Nat \ {0}
ASSUME BoundAssumption   == MaxEvents \in Nat /\ MaxCommands \in Nat

Ids    == Channels \cup {Unknown}
Events == 1 .. MaxEvents
NoEvent == 0

NoCommand == <<"none", Unknown>>

Kinds  == {"hello", "error", "subscribed", "unsubscribed", "event"}
Frames == Kinds \X (Ids \cup Events)

VARIABLES
  \* Hub, guarded by hub.mu
  channels,   \* subscribers of each channel id; {}: no entry in the map
  subs,       \* Client.subs of each client
  \* Publish, per publisher: the read lock is held while event # NoEvent
  event,      \* the event it publishes
  todo,       \* the subscribers it has not come to yet
  \* Client and Handler, per client
  pc,         \* where the handler goroutine is
  cmd,        \* the command it handles: <<op, id>>
  send,       \* the queue Client.send
  cancelled,  \* Client.cancel has been called
  writer,     \* where the writer goroutine is
  frame,      \* the frame it has taken from the queue, in a sequence
  conn,       \* the connection: "open" or "closed"
  \* history, read by the properties and the bounds only
  topic,      \* the channel each event was published to
  received,   \* the frames each client was sent
  owed,       \* events published while the client was subscribed
  commands    \* commands read from each client

hub     == <<channels, subs>>
publish == <<event, todo>>
handler == <<pc, cmd>>
socket  == <<writer, frame, conn>>
vars    == <<hub, publish, handler, send, cancelled, socket,
             topic, received, owed, commands>>

TypeOK ==
  /\ channels \in [Ids -> SUBSET Clients]
  /\ subs \in [Clients -> SUBSET Ids]
  /\ event \in [Publishers -> Events \cup {NoEvent}]
  /\ todo \in [Publishers -> SUBSET Clients]
  /\ pc \in [Clients -> {"none", "reading", "locking", "ack", "waiting", "removing", "gone"}]
  /\ cmd \in [Clients -> {"none", "subscribed", "unsubscribed"} \X Ids]
  /\ \A c \in Clients : send[c] \in Seq(Frames) /\ Len(send[c]) <= SendBuffer
  /\ cancelled \subseteq Clients
  /\ writer \in [Clients -> {"none", "select", "writing", "done"}]
  /\ \A c \in Clients : frame[c] \in Seq(Frames) /\ Len(frame[c]) <= 1
  /\ conn \in [Clients -> {"none", "open", "closed"}]
  /\ topic \in Seq(Channels) /\ Len(topic) <= MaxEvents
  /\ \A c \in Clients : received[c] \in Seq(Frames)
  /\ owed \in [Clients -> SUBSET Events]
  /\ commands \in [Clients -> 0 .. MaxCommands]

Init ==
  /\ channels = [id \in Ids |-> {}]
  /\ subs = [c \in Clients |-> {}]
  /\ event = [p \in Publishers |-> NoEvent]
  /\ todo = [p \in Publishers |-> {}]
  /\ pc = [c \in Clients |-> "none"]
  /\ cmd = [c \in Clients |-> NoCommand]
  /\ send = [c \in Clients |-> <<>>]
  /\ cancelled = {}
  /\ writer = [c \in Clients |-> "none"]
  /\ frame = [c \in Clients |-> <<>>]
  /\ conn = [c \in Clients |-> "none"]
  /\ topic = <<>>
  /\ received = [c \in Clients |-> <<>>]
  /\ owed = [c \in Clients |-> {}]
  /\ commands = [c \in Clients |-> 0]

------------------------------------------------------------------------------
(* Helpers *)

\* Mutations: the queue has no limit; a full queue drops the frame and nothing
\* else; a full queue blocks the sender.
EnqueueUnbounded(c, f) ==
  send' = [send EXCEPT ![c] = Append(@, f)] /\ UNCHANGED cancelled
EnqueueDropping(c, f) ==
  /\ send' = IF Len(send[c]) < SendBuffer THEN [send EXCEPT ![c] = Append(@, f)] ELSE send
  /\ UNCHANGED cancelled
EnqueueBlocking(c, f) ==
  /\ Len(send[c]) < SendBuffer
  /\ send' = [send EXCEPT ![c] = Append(@, f)]
  /\ UNCHANGED cancelled

\* Client.enqueue: never blocks; a full queue costs the client its connection.
Enqueue(c, f) ==
  IF Len(send[c]) < SendBuffer
  THEN send' = [send EXCEPT ![c] = Append(@, f)] /\ UNCHANGED cancelled
  ELSE cancelled' = cancelled \cup {c} /\ UNCHANGED send

\* Mutation: Publish walks over a copy of the subscribers, without the lock.
NoReadersUnlocked == TRUE

\* Hub.mu can be locked for writing: no Publish holds it for reading.
NoReaders == \A p \in Publishers : event[p] = NoEvent

\* Hub.drop
Drop(c, ids) ==
  /\ channels' = [id \in Ids |-> IF id \in ids THEN channels[id] \ {c} ELSE channels[id]]
  /\ subs' = [subs EXCEPT ![c] = @ \ ids]

------------------------------------------------------------------------------
(* Hub.Publish, called by the message handlers *)

PublishStart(p, id) ==
  /\ event[p] = NoEvent
  /\ Len(topic) < MaxEvents
  /\ topic' = Append(topic, id)
  /\ event' = [event EXCEPT ![p] = Len(topic')]
  /\ todo' = [todo EXCEPT ![p] = channels[id]]
  /\ owed' = [c \in Clients |-> IF c \in channels[id] THEN owed[c] \cup {Len(topic')} ELSE owed[c]]
  /\ UNCHANGED <<hub, handler, send, cancelled, socket, received, commands>>

\* The map is walked in any order.
PublishTo(p, c) ==
  /\ c \in todo[p]
  /\ todo' = [todo EXCEPT ![p] = @ \ {c}]
  /\ Enqueue(c, <<"event", event[p]>>)
  /\ UNCHANGED <<hub, event, handler, socket, topic, received, owed, commands>>

PublishDone(p) ==
  /\ event[p] # NoEvent /\ todo[p] = {}
  /\ event' = [event EXCEPT ![p] = NoEvent]
  /\ UNCHANGED <<hub, todo, handler, send, cancelled, socket, topic, received, owed, commands>>

------------------------------------------------------------------------------
(* Handler, readLoop and handleCommand *)

\* Accept, newClient, go writeLoop, enqueue(hello): nobody else knows the client
\* yet, so its queue is empty.
Connect(c) ==
  /\ pc[c] = "none"
  /\ pc' = [pc EXCEPT ![c] = "reading"]
  /\ conn' = [conn EXCEPT ![c] = "open"]
  /\ writer' = [writer EXCEPT ![c] = "select"]
  /\ Enqueue(c, <<"hello", Unknown>>)
  /\ UNCHANGED <<hub, publish, cmd, frame, topic, received, owed, commands>>

\* wsjson.Read returns a command.
Read(c) ==
  /\ pc[c] = "reading" /\ conn[c] = "open"
  /\ commands[c] < MaxCommands
  /\ commands' = [commands EXCEPT ![c] = @ + 1]

\* A subscribe whose channel GetByID finds, or an unsubscribe of any id: on to
\* the hub's lock.
ReadCommand(c, op, id) ==
  /\ Read(c)
  /\ op = "subscribed" => id \in Channels
  /\ cmd' = [cmd EXCEPT ![c] = <<op, id>>]
  /\ pc' = [pc EXCEPT ![c] = "locking"]
  /\ UNCHANGED <<hub, publish, send, cancelled, socket, topic, received, owed>>

\* No such channel, the lookup failed, an unparsable id or an unknown op.
ReadRefused(c) ==
  /\ Read(c)
  /\ Enqueue(c, <<"error", Unknown>>)
  /\ UNCHANGED <<hub, publish, handler, socket, topic, received, owed>>

Subscribe(c) ==
  LET id == cmd[c][2] IN
  /\ pc[c] = "locking" /\ cmd[c][1] = "subscribed"
  /\ NoReaders
  /\ channels' = [channels EXCEPT ![id] = @ \cup {c}]
  /\ subs' = [subs EXCEPT ![c] = @ \cup {id}]
  /\ pc' = [pc EXCEPT ![c] = "ack"]
  /\ UNCHANGED <<publish, cmd, send, cancelled, socket, topic, received, owed, commands>>

Unsubscribe(c) ==
  /\ pc[c] = "locking" /\ cmd[c][1] = "unsubscribed"
  /\ NoReaders
  /\ Drop(c, {cmd[c][2]})
  /\ pc' = [pc EXCEPT ![c] = "ack"]
  /\ UNCHANGED <<publish, cmd, send, cancelled, socket, topic, received, owed, commands>>

Ack(c) ==
  /\ pc[c] = "ack"
  /\ Enqueue(c, cmd[c])
  /\ cmd' = [cmd EXCEPT ![c] = NoCommand]
  /\ pc' = [pc EXCEPT ![c] = "reading"]
  /\ UNCHANGED <<hub, publish, socket, topic, received, owed, commands>>

\* Read fails: cancel, and wait for the writer.
ReadFails(c) ==
  /\ pc[c] = "reading" /\ conn[c] = "closed"
  /\ cancelled' = cancelled \cup {c}
  /\ pc' = [pc EXCEPT ![c] = "waiting"]
  /\ UNCHANGED <<hub, publish, cmd, send, socket, topic, received, owed, commands>>

\* Mutation: the deferred removeClient is missing.
CloseConnOnly(c) ==
  /\ pc[c] = "waiting" /\ writer[c] = "done"
  /\ conn' = [conn EXCEPT ![c] = "closed"]
  /\ pc' = [pc EXCEPT ![c] = "gone"]
  /\ UNCHANGED <<hub, publish, cmd, send, cancelled, writer, frame, topic, received, owed, commands>>

CloseConn(c) ==
  /\ pc[c] = "waiting" /\ writer[c] = "done"
  /\ conn' = [conn EXCEPT ![c] = "closed"]
  /\ pc' = [pc EXCEPT ![c] = "removing"]
  /\ UNCHANGED <<hub, publish, cmd, send, cancelled, writer, frame, topic, received, owed, commands>>

\* The deferred Hub.removeClient.
RemoveClient(c) ==
  /\ pc[c] = "removing"
  /\ NoReaders
  /\ Drop(c, subs[c])
  /\ pc' = [pc EXCEPT ![c] = "gone"]
  /\ UNCHANGED <<publish, cmd, send, cancelled, socket, topic, received, owed, commands>>

------------------------------------------------------------------------------
(* writeLoop: select picks any case that is ready, so frames may still be      *)
(* taken after the cancel.                                                     *)

WriterTakes(c) ==
  /\ writer[c] = "select" /\ send[c] # <<>>
  /\ frame' = [frame EXCEPT ![c] = <<Head(send[c])>>]
  /\ send' = [send EXCEPT ![c] = Tail(@)]
  /\ writer' = [writer EXCEPT ![c] = "writing"]
  /\ UNCHANGED <<hub, publish, handler, cancelled, conn, topic, received, owed, commands>>

WriteSucceeds(c) ==
  /\ writer[c] = "writing" /\ conn[c] = "open"
  /\ received' = [received EXCEPT ![c] = @ \o frame[c]]
  /\ frame' = [frame EXCEPT ![c] = <<>>]
  /\ writer' = [writer EXCEPT ![c] = "select"]
  /\ UNCHANGED <<hub, publish, handler, send, cancelled, conn, topic, owed, commands>>

\* The connection is lost or the context is done: cancel and return.
WriteFails(c) ==
  /\ writer[c] = "writing" /\ (conn[c] = "closed" \/ c \in cancelled)
  /\ cancelled' = cancelled \cup {c}
  /\ frame' = [frame EXCEPT ![c] = <<>>]
  /\ writer' = [writer EXCEPT ![c] = "done"]
  /\ UNCHANGED <<hub, publish, handler, send, conn, topic, received, owed, commands>>

\* The connection is closed, or the pong is not there within writeTimeout.
PingFails(c) ==
  /\ writer[c] = "select"
  /\ cancelled' = cancelled \cup {c}
  /\ writer' = [writer EXCEPT ![c] = "done"]
  /\ UNCHANGED <<hub, publish, handler, send, frame, conn, topic, received, owed, commands>>

WriterStops(c) ==
  /\ writer[c] = "select" /\ c \in cancelled
  /\ writer' = [writer EXCEPT ![c] = "done"]
  /\ UNCHANGED <<hub, publish, handler, send, cancelled, frame, conn, topic, received, owed, commands>>

------------------------------------------------------------------------------
(* The websocket library and the network close connections: when the peer goes *)
(* away, when a write has taken writeTimeout, when the context of a read or a  *)
(* write is done.                                                              *)

Close(c) ==
  /\ conn[c] = "open"
  /\ conn' = [conn EXCEPT ![c] = "closed"]
  /\ UNCHANGED <<hub, publish, handler, send, cancelled, writer, frame, topic, received, owed, commands>>

PeerCloses(c)    == Close(c)
WriteTimesOut(c) == writer[c] = "writing" /\ Close(c)
ContextDone(c)   == c \in cancelled /\ Close(c)

------------------------------------------------------------------------------
Publish(p) ==
  \/ \E id \in Channels : PublishStart(p, id)
  \/ \E c \in Clients : PublishTo(p, c)
  \/ PublishDone(p)

Handle(c) ==
  \/ Connect(c)
  \/ \E op \in {"subscribed", "unsubscribed"}, id \in Ids : ReadCommand(c, op, id)
  \/ ReadRefused(c)
  \/ Subscribe(c) \/ Unsubscribe(c) \/ Ack(c)
  \/ ReadFails(c) \/ CloseConn(c) \/ RemoveClient(c)

Write(c) ==
  WriterTakes(c) \/ WriteSucceeds(c) \/ WriteFails(c) \/ WriterStops(c)

Next ==
  \/ \E p \in Publishers : Publish(p)
  \/ \E c \in Clients :
       \/ Handle(c) \/ Write(c) \/ PingFails(c)
       \/ PeerCloses(c) \/ WriteTimesOut(c) \/ ContextDone(c)

Spec == Init /\ [][Next]_vars

(* Goroutines that can run do; sync.RWMutex lets a waiting writer in, so the   *)
(* steps that take the write lock are strongly fair; a write ends within       *)
(* writeTimeout; the ping ticker and the library notice what is over.  A peer  *)
(* may answer every ping.                                                      *)
Fairness ==
  /\ \A p \in Publishers : WF_vars((\E c \in Clients : PublishTo(p, c)) \/ PublishDone(p))
  /\ \A c \in Clients :
       /\ SF_vars(Subscribe(c) \/ Unsubscribe(c) \/ RemoveClient(c))
       /\ WF_vars(Ack(c) \/ ReadFails(c) \/ CloseConn(c))
       /\ WF_vars(Write(c) \/ WriteTimesOut(c) \/ (conn[c] = "closed" /\ PingFails(c)))
       /\ WF_vars(ContextDone(c))

FairSpec == Spec /\ Fairness

------------------------------------------------------------------------------
(* Properties *)

\* Everything on its way to client c, oldest first.
Stream(c) == received[c] \o frame[c] \o send[c]

\* Hub.channels and Client.subs say the same, and a connection that is over is
\* in no subscriber set: removeClient finds every subscription, whatever the
\* client subscribed to while its connection was coming down.
NoGhosts ==
  \A id \in Ids, c \in Clients :
    /\ c \in channels[id] <=> id \in subs[c]
    /\ c \in channels[id] => pc[c] \notin {"none", "gone"}

\* After the "unsubscribed" ack of a channel no event of that channel follows,
\* unless the client has subscribed again, though events may be published at any
\* moment around the ack.
QuietAfterUnsubscribe ==
  \A c \in Clients :
    LET S == Stream(c) IN
    \A i, j \in 1 .. Len(S) :
      i < j /\ S[i][1] = "unsubscribed" /\ S[j][1] = "event" /\ topic[S[j][2]] = S[i][2]
        => \/ \E k \in i + 1 .. Len(S) : S[k] = <<"subscribed", S[i][2]>>
           \/ pc[c] = "ack" /\ cmd[c] = <<"subscribed", S[i][2]>>
           \/ c \in cancelled

\* Publish returns, however slow the subscribers are: the REST handler that calls
\* it does not wait for any client.
PublishReturns == \A p \in Publishers : []<>(event[p] = NoEvent)

\* A subscriber gets an event or is disconnected and forgotten by the hub, so it
\* knows that it has to fetch the history again.
OwedOrGone ==
  \A c \in Clients, e \in Events :
    []<>(e \in owed[c] => \/ \E i \in 1 .. Len(received[c]) : received[c][i] = <<"event", e>>
                         \/ pc[c] = "gone")

------------------------------------------------------------------------------
(* The abstract specification *)

\* What is left of a client's state when it is being disconnected: nothing.
UnlessCut(value, blank) == [c \in Clients |-> IF c \in cancelled THEN blank ELSE value[c]]

F == INSTANCE Fanout WITH
  Notices <- {<<"hello", Unknown>>, <<"error", Unknown>>},
  subs    <- UnlessCut(subs, {}),
  due     <- UnlessCut([c \in Clients |-> {event[p] : p \in {q \in Publishers : c \in todo[q]}}], {}),
  ack     <- UnlessCut([c \in Clients |-> IF pc[c] = "ack" THEN cmd[c] ELSE <<"none">>], <<"none">>),
  stream  <- UnlessCut([c \in Clients |-> Stream(c)], <<>>),
  cut     <- cancelled

\* Hub, queues and goroutines together keep the promises of Fanout: every frame
\* of every stream is accounted for, whatever the publishers, the handlers and
\* the writers do at the same time.
ImplementsFanout == F!Spec
==============================================================================
