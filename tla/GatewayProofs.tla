----------------------------- MODULE GatewayProofs -----------------------------
(* The inductive invariant of Gateway, the steps that preserve it, and the      *)
(* step of Fanout that each of them takes; for any clients, publishers and      *)
(* channels and queues of any length.                                           *)
EXTENDS Gateway, TLAPS

USE UnknownAssumption, BufferAssumption, BoundAssumption

------------------------------------------------------------------------------
(* The inductive invariant *)

Functions ==
  /\ send \in [Clients -> Seq(Frames)]
  /\ frame \in [Clients -> Seq(Frames)]
  /\ received \in [Clients -> Seq(Frames)]

\* Publishers that walk at the same time publish different events, and come to
\* clients that have connected.
Walks ==
  \A p \in Publishers :
    /\ event[p] <= Len(topic)
    /\ event[p] = NoEvent => todo[p] = {}
    /\ \A q \in Publishers \ {p} : event[p] = event[q] => event[p] = NoEvent
    /\ \A c \in todo[p] : pc[c] # "none"

Agree == \A id \in Ids, c \in Clients : c \in channels[id] <=> id \in subs[c]

\* What is known of a client from where its goroutines are.
Course(c) ==
  /\ pc[c] = "none" =>
       subs[c] = {} /\ send[c] = <<>> /\ writer[c] = "none" /\ c \notin cancelled
  /\ pc[c] \in {"locking", "ack"} => cmd[c][1] # "none"
  /\ pc[c] \in {"waiting", "removing", "gone"} => c \in cancelled
  /\ pc[c] = "gone" => subs[c] = {}
  /\ writer[c] # "writing" => frame[c] = <<>>

IndInv ==
  /\ TypeOK
  /\ Functions
  /\ Walks
  /\ Agree
  /\ \A c \in Clients : Course(c)

\* No connections, nothing published.
LEMMA InitInv == Init => IndInv
  BY DEF Init, IndInv, TypeOK, Functions, Walks, Agree, Course, NoCommand, NoEvent, Ids, Events

\* What Enqueue does to the queue of its client.
LEMMA Enqueued ==
  ASSUME TypeOK, Functions, NEW c \in Clients, NEW f \in Frames, Enqueue(c, f)
  PROVE  /\ send' \in [Clients -> Seq(Frames)]
         /\ \A d \in Clients : send'[d] \in Seq(Frames) /\ Len(send'[d]) <= SendBuffer
         /\ \A d \in Clients \ {c} : send'[d] = send[d]
         /\ cancelled' \subseteq Clients
         /\ cancelled' \in {cancelled, cancelled \cup {c}}
         /\ \/ send'[c] = Append(send[c], f) /\ cancelled' = cancelled
            \/ send'[c] = send[c] /\ cancelled' = cancelled \cup {c}
  <1>1. CASE Len(send[c]) < SendBuffer
    <2>1. send' = [send EXCEPT ![c] = Append(@, f)] /\ cancelled' = cancelled
      BY <1>1 DEF Enqueue
    <2>2. /\ Append(send[c], f) \in Seq(Frames) /\ Len(Append(send[c], f)) = Len(send[c]) + 1
          /\ Len(send[c]) \in Nat
      BY DEF Functions
    <2>3. Len(Append(send[c], f)) <= SendBuffer
      BY <1>1, <2>2
    <2> QED
      BY <2>1, <2>2, <2>3 DEF TypeOK, Functions
  <1>2. CASE ~(Len(send[c]) < SendBuffer)
    BY <1>2 DEF TypeOK, Functions, Enqueue
  <1> QED
    BY <1>1, <1>2

------------------------------------------------------------------------------
(* Publish *)

\* A publisher begins its walk over the subscribers of the channel.
LEMMA PublishStartInv ==
  ASSUME IndInv, NEW p \in Publishers, NEW id \in Channels, PublishStart(p, id)
  PROVE  IndInv'
  <1>1. /\ topic' \in Seq(Channels) /\ Len(topic') = Len(topic) + 1 /\ Len(topic) \in Nat
        /\ Len(topic') <= MaxEvents
    BY DEF IndInv, TypeOK, PublishStart
  <1>2. /\ event' = [event EXCEPT ![p] = Len(topic) + 1]
        /\ Len(topic) + 1 \in Events
    BY <1>1 DEF PublishStart, Events
  <1>3. id \in Ids /\ channels[id] \in SUBSET Clients
    BY DEF IndInv, TypeOK, Ids
  <1>4. owed' \in [Clients -> SUBSET Events]
    <2>1. \A c \in Clients : owed'[c] \in SUBSET Events
      BY <1>1, <1>2 DEF IndInv, TypeOK, PublishStart
    <2> QED
      BY <2>1 DEF PublishStart
  <1>5. event' \in [Publishers -> Events \cup {NoEvent}] /\ todo' \in [Publishers -> SUBSET Clients]
    BY <1>2, <1>3 DEF IndInv, TypeOK, PublishStart
  <1>6. TypeOK' /\ Functions'
    BY <1>1, <1>4, <1>5 DEF IndInv, TypeOK, Functions, PublishStart, hub, handler, socket
  <1>7. Agree' /\ \A c \in Clients : Course(c)'
    BY DEF IndInv, Agree, Course, PublishStart, hub, handler, socket
  <1>8. Walks'
    <2>1. \A q \in Publishers :
            /\ event'[q] = IF q = p THEN Len(topic) + 1 ELSE event[q]
            /\ todo'[q] = IF q = p THEN channels[id] ELSE todo[q]
            /\ event[q] \in Nat /\ event[q] <= Len(topic)
      BY <1>2 DEF IndInv, TypeOK, Walks, PublishStart, Events, NoEvent
    <2>2. \A c \in channels[id] : pc[c] # "none"
      BY <1>3 DEF IndInv, Agree, Course
    <2>3. pc' = pc
      BY DEF PublishStart, handler
    <2> QED
      BY <1>1, <2>1, <2>2, <2>3 DEF IndInv, Walks, NoEvent
  <1> QED
    BY <1>6, <1>7, <1>8 DEF IndInv

\* A publisher queues its event, or cuts the client off.
LEMMA PublishToInv ==
  ASSUME IndInv, NEW p \in Publishers, NEW c \in Clients, PublishTo(p, c)
  PROVE  IndInv'
  <1>1. event[p] \in Events /\ <<"event", event[p]>> \in Frames /\ pc[c] # "none"
    BY DEF IndInv, TypeOK, Walks, PublishTo, Frames, Kinds
  <1>2. /\ send' \in [Clients -> Seq(Frames)]
        /\ \A d \in Clients : send'[d] \in Seq(Frames) /\ Len(send'[d]) <= SendBuffer
        /\ \A d \in Clients \ {c} : send'[d] = send[d]
        /\ cancelled' \subseteq Clients
        /\ cancelled' \in {cancelled, cancelled \cup {c}}
    BY <1>1, Enqueued DEF IndInv, PublishTo
  <1>3. TypeOK' /\ Functions'
    BY <1>2 DEF IndInv, TypeOK, Functions, PublishTo, hub, handler, socket
  <1>4. Agree' /\ \A d \in Clients : Course(d)'
    BY <1>1, <1>2 DEF IndInv, Agree, Course, PublishTo, hub, handler, socket
  <1>5. Walks'
    BY DEF IndInv, TypeOK, Walks, PublishTo, handler
  <1> QED
    BY <1>3, <1>4, <1>5 DEF IndInv

\* A publisher has met every subscriber.
LEMMA PublishDoneInv ==
  ASSUME IndInv, NEW p \in Publishers, PublishDone(p)
  PROVE  IndInv'
  <1>1. TypeOK' /\ Functions'
    BY DEF IndInv, TypeOK, Functions, PublishDone, hub, handler, socket
  <1>2. Agree' /\ \A d \in Clients : Course(d)'
    BY DEF IndInv, Agree, Course, PublishDone, hub, handler, socket
  <1>3. Walks'
    <2>1. \A q \in Publishers : event'[q] = (IF q = p THEN NoEvent ELSE event[q])
      BY DEF IndInv, TypeOK, PublishDone
    <2> QED
      BY <2>1 DEF IndInv, Walks, PublishDone, handler, NoEvent, TypeOK
  <1> QED
    BY <1>1, <1>2, <1>3 DEF IndInv

------------------------------------------------------------------------------
(* The handler *)

\* A connection begins with the hello frame in its queue.
LEMMA ConnectInv ==
  ASSUME IndInv, NEW c \in Clients, Connect(c)
  PROVE  IndInv'
  <1>1. <<"hello", Unknown>> \in Frames
    BY DEF Frames, Kinds, Ids
  <1>2. /\ send' \in [Clients -> Seq(Frames)]
        /\ \A d \in Clients : send'[d] \in Seq(Frames) /\ Len(send'[d]) <= SendBuffer
        /\ \A d \in Clients \ {c} : send'[d] = send[d]
        /\ cancelled' \subseteq Clients
        /\ cancelled' \in {cancelled, cancelled \cup {c}}
    BY <1>1, Enqueued DEF IndInv, Connect
  <1>3. TypeOK' /\ Functions'
    BY <1>2 DEF IndInv, TypeOK, Functions, Connect, hub, publish
  <1>4. Agree' /\ \A d \in Clients : Course(d)'
    <2>1. Agree'
      BY DEF IndInv, Agree, Connect, hub
    <2>2. /\ pc'[c] = "reading" /\ writer'[c] = "select" /\ frame' = frame /\ subs' = subs
          /\ writer[c] = "none" /\ frame[c] = <<>> /\ cmd' = cmd
          /\ \A d \in Clients \ {c} : pc'[d] = pc[d] /\ writer'[d] = writer[d]
      BY DEF IndInv, TypeOK, Course, Connect, hub
    <2>3. Course(c)'
      BY <2>2 DEF Course
    <2>4. ASSUME NEW d \in Clients \ {c} PROVE Course(d)'
      BY <1>2, <2>2 DEF IndInv, Course
    <2> QED
      BY <2>1, <2>3, <2>4
  <1>5. Walks'
    BY DEF IndInv, TypeOK, Walks, Connect, publish
  <1> QED
    BY <1>3, <1>4, <1>5 DEF IndInv

\* The handler reads a command.
LEMMA ReadInv ==
  ASSUME IndInv, NEW c \in Clients,
         \/ \E op \in {"subscribed", "unsubscribed"}, id \in Ids : ReadCommand(c, op, id)
         \/ ReadRefused(c)
  PROVE  IndInv'
  <1>1. CASE ReadRefused(c)
    <2>1. <<"error", Unknown>> \in Frames
      BY DEF Frames, Kinds, Ids
    <2>2. /\ send' \in [Clients -> Seq(Frames)]
          /\ \A d \in Clients : send'[d] \in Seq(Frames) /\ Len(send'[d]) <= SendBuffer
          /\ \A d \in Clients \ {c} : send'[d] = send[d]
          /\ cancelled' \subseteq Clients
          /\ cancelled' \in {cancelled, cancelled \cup {c}}
      BY <1>1, <2>1, Enqueued DEF IndInv, ReadRefused
    <2>3. TypeOK' /\ Functions'
      <3>1. commands' \in [Clients -> 0 .. MaxCommands]
        BY <1>1 DEF IndInv, TypeOK, ReadRefused, Read
      <3>2. /\ UNCHANGED <<channels, subs, event, todo, pc, cmd>>
            /\ UNCHANGED <<writer, frame, conn, topic, received, owed>>
        BY <1>1 DEF ReadRefused, hub, publish, handler, socket
      <3> QED
        BY <2>2, <3>1, <3>2 DEF IndInv, TypeOK, Functions
    <2>4. Agree' /\ \A d \in Clients : Course(d)'
      BY <1>1, <2>2 DEF IndInv, Agree, Course, ReadRefused, Read, hub, publish, handler, socket
    <2>5. Walks'
      BY <1>1 DEF IndInv, Walks, ReadRefused, publish, handler
    <2> QED
      BY <2>3, <2>4, <2>5 DEF IndInv
  <1>2. ASSUME NEW op \in {"subscribed", "unsubscribed"}, NEW id \in Ids, ReadCommand(c, op, id)
        PROVE  IndInv'
    <2>1. TypeOK' /\ Functions'
      <3>1. <<op, id>> \in {"none", "subscribed", "unsubscribed"} \X Ids
        OBVIOUS
      <3>2. /\ cmd' \in [Clients -> {"none", "subscribed", "unsubscribed"} \X Ids]
            /\ pc' \in [Clients -> {"none", "reading", "locking", "ack", "waiting", "removing", "gone"}]
        BY <1>2, <3>1 DEF IndInv, TypeOK, ReadCommand
      <3>3. commands' \in [Clients -> 0 .. MaxCommands]
        BY <1>2 DEF IndInv, TypeOK, ReadCommand, Read
      <3> QED
        <4>1. /\ UNCHANGED <<channels, subs, event, todo, send, cancelled>>
              /\ UNCHANGED <<writer, frame, conn, topic, received, owed>>
          BY <1>2 DEF ReadCommand, hub, publish, socket
        <4>2. Functions'
          BY <4>1 DEF IndInv, Functions
        <4>3. TypeOK'
          BY <3>2, <3>3, <4>1 DEF IndInv, TypeOK
        <4> QED
          BY <4>2, <4>3
    <2>2. Agree' /\ \A d \in Clients : Course(d)'
      BY <1>2 DEF IndInv, TypeOK, Agree, Course, ReadCommand, Read, hub, publish, socket
    <2>3. Walks'
      BY <1>2 DEF IndInv, TypeOK, Walks, ReadCommand, Read, publish
    <2> QED
      BY <2>1, <2>2, <2>3 DEF IndInv
  <1> QED
    BY <1>1, <1>2

\* Nobody is being walked to when the write lock is free.
LEMMA NobodyWalks ==
  ASSUME IndInv, NoReaders
  PROVE  \A p \in Publishers : todo[p] = {}
  BY DEF IndInv, Walks, NoReaders

\* Hub and client take the subscription together.
LEMMA SubscribeInv ==
  ASSUME IndInv, NEW c \in Clients, Subscribe(c)
  PROVE  IndInv'
  <1>1. cmd[c][2] \in Ids
    BY DEF IndInv, TypeOK
  <1>2. TypeOK' /\ Functions'
    BY <1>1 DEF IndInv, TypeOK, Functions, Subscribe, publish, socket
  <1>3. Agree'
    BY <1>1 DEF IndInv, TypeOK, Agree, Subscribe
  <1>4. \A d \in Clients : Course(d)'
    BY DEF IndInv, TypeOK, Course, Subscribe, publish, socket
  <1>5. Walks'
    BY DEF IndInv, TypeOK, Walks, Subscribe, publish
  <1> QED
    BY <1>2, <1>3, <1>4, <1>5 DEF IndInv

\* Hub and client drop the subscription together.
LEMMA UnsubscribeInv ==
  ASSUME IndInv, NEW c \in Clients, Unsubscribe(c)
  PROVE  IndInv'
  <1>1. cmd[c][2] \in Ids
    BY DEF IndInv, TypeOK
  <1>2. TypeOK' /\ Functions'
    BY <1>1 DEF IndInv, TypeOK, Functions, Unsubscribe, Drop, publish, socket
  <1>3. Agree'
    BY <1>1 DEF IndInv, TypeOK, Agree, Unsubscribe, Drop
  <1>4. \A d \in Clients : Course(d)'
    BY DEF IndInv, TypeOK, Course, Unsubscribe, Drop, publish, socket
  <1>5. Walks'
    BY DEF IndInv, TypeOK, Walks, Unsubscribe, publish
  <1> QED
    BY <1>2, <1>3, <1>4, <1>5 DEF IndInv

\* The hub forgets a client with all its subscriptions.
LEMMA RemoveClientInv ==
  ASSUME IndInv, NEW c \in Clients, RemoveClient(c)
  PROVE  IndInv'
  <1>1. TypeOK' /\ Functions'
    BY DEF IndInv, TypeOK, Functions, RemoveClient, Drop, publish, socket
  <1>2. Agree'
    BY DEF IndInv, TypeOK, Agree, RemoveClient, Drop
  <1>3. \A d \in Clients : Course(d)'
    BY DEF IndInv, TypeOK, Course, RemoveClient, Drop, publish, socket
  <1>4. Walks'
    BY DEF IndInv, TypeOK, Walks, RemoveClient, publish
  <1> QED
    BY <1>1, <1>2, <1>3, <1>4 DEF IndInv

\* The handler queues its answer, or cuts the client off.
LEMMA AckInv ==
  ASSUME IndInv, NEW c \in Clients, Ack(c)
  PROVE  IndInv'
  <1>1. cmd[c] \in Frames
    BY DEF IndInv, TypeOK, Course, Ack, Frames, Kinds
  <1>2. /\ send' \in [Clients -> Seq(Frames)]
        /\ \A d \in Clients : send'[d] \in Seq(Frames) /\ Len(send'[d]) <= SendBuffer
        /\ \A d \in Clients \ {c} : send'[d] = send[d]
        /\ cancelled' \subseteq Clients
        /\ cancelled' \in {cancelled, cancelled \cup {c}}
    BY <1>1, Enqueued DEF IndInv, Ack
  <1>3. TypeOK' /\ Functions'
    BY <1>2 DEF IndInv, TypeOK, Functions, Ack, NoCommand, Ids, hub, publish, socket
  <1>4. Agree' /\ \A d \in Clients : Course(d)'
    <2>1. Agree'
      BY DEF IndInv, Agree, Ack, hub
    <2>2. /\ pc'[c] = "reading" /\ subs' = subs /\ writer' = writer /\ frame' = frame
          /\ \A d \in Clients \ {c} : pc'[d] = pc[d] /\ cmd'[d] = cmd[d]
      BY DEF IndInv, TypeOK, Ack, hub, socket
    <2>3. \A d \in Clients : Course(d)'
      BY <1>2, <2>2 DEF IndInv, Course
    <2> QED
      BY <2>1, <2>3
  <1>5. Walks'
    BY DEF IndInv, TypeOK, Walks, Ack, publish
  <1> QED
    BY <1>3, <1>4, <1>5 DEF IndInv

\* The handler ends.
LEMMA EndInv ==
  ASSUME IndInv, NEW c \in Clients, ReadFails(c) \/ CloseConn(c)
  PROVE  IndInv'
  <1>1. TypeOK' /\ Functions'
    <2>1. CASE ReadFails(c)
      BY <2>1 DEF IndInv, TypeOK, Functions, ReadFails, hub, publish, socket
    <2>2. CASE CloseConn(c)
      BY <2>2 DEF IndInv, TypeOK, Functions, CloseConn, hub, publish, socket
    <2> QED
      BY <2>1, <2>2
  <1>2. Agree' /\ \A d \in Clients : Course(d)'
    BY DEF IndInv, TypeOK, Agree, Course, ReadFails, CloseConn, hub, publish, socket
  <1>3. Walks'
    BY DEF IndInv, TypeOK, Walks, ReadFails, CloseConn, publish
  <1> QED
    BY <1>1, <1>2, <1>3 DEF IndInv

------------------------------------------------------------------------------
(* The writer, the library and the network *)

\* The writer takes, writes or fails.
LEMMA WriterInv ==
  ASSUME IndInv, NEW c \in Clients, Write(c) \/ PingFails(c)
  PROVE  IndInv'
  <1>1. TypeOK' /\ Functions'
    <2>1. CASE WriterTakes(c)
      <3>1. /\ Head(send[c]) \in Frames /\ Tail(send[c]) \in Seq(Frames)
            /\ Len(Tail(send[c])) <= SendBuffer
            /\ <<Head(send[c])>> \in Seq(Frames) /\ Len(<<Head(send[c])>>) = 1
        BY <2>1 DEF IndInv, TypeOK, Functions, WriterTakes
      <3> QED
        BY <2>1, <3>1 DEF IndInv, TypeOK, Functions, WriterTakes, hub, publish, handler
    <2>2. CASE WriteSucceeds(c)
      <3>1. received[c] \o frame[c] \in Seq(Frames) /\ <<>> \in Seq(Frames) /\ Len(<<>>) = 0
        BY DEF IndInv, Functions
      <3> QED
        BY <2>2, <3>1 DEF IndInv, TypeOK, Functions, WriteSucceeds, hub, publish, handler
    <2>3. CASE WriteFails(c) \/ PingFails(c) \/ WriterStops(c)
      <3>1. <<>> \in Seq(Frames) /\ Len(<<>>) = 0
        OBVIOUS
      <3>2. CASE WriteFails(c)
        BY <3>1, <3>2 DEF IndInv, TypeOK, Functions, WriteFails, hub, publish, handler
      <3>3. CASE PingFails(c)
        BY <3>3 DEF IndInv, TypeOK, Functions, PingFails, hub, publish, handler
      <3>4. CASE WriterStops(c)
        BY <3>4 DEF IndInv, TypeOK, Functions, WriterStops, hub, publish, handler
      <3> QED
        BY <2>3, <3>2, <3>3, <3>4
    <2> QED
      BY <2>1, <2>2, <2>3 DEF Write
  <1>2. hub' = hub /\ handler' = handler /\ publish' = publish /\ topic' = topic
    BY DEF Write, WriterTakes, WriteSucceeds, WriteFails, PingFails, WriterStops
  <1>3. Agree' /\ Walks'
    BY <1>2 DEF IndInv, Agree, Walks, hub, handler, publish
  <1>4. ASSUME NEW d \in Clients PROVE Course(d)'
    <2>1. writer[c] # "none" /\ pc[c] # "none"
      BY DEF IndInv, Course, Write, WriterTakes, WriteSucceeds, WriteFails, PingFails, WriterStops
    <2>2. /\ cancelled \subseteq cancelled' /\ cancelled' \subseteq cancelled \cup {c}
          /\ writer'[c] # "writing" => frame'[c] = <<>>
          /\ d # c => send'[d] = send[d] /\ frame'[d] = frame[d] /\ writer'[d] = writer[d]
      <3>1. CASE WriterTakes(c)
        BY <3>1 DEF IndInv, TypeOK, Functions, Course, WriterTakes
      <3>2. CASE WriteSucceeds(c)
        BY <3>2 DEF IndInv, TypeOK, Functions, Course, WriteSucceeds
      <3>3. CASE WriteFails(c)
        BY <3>3 DEF IndInv, TypeOK, Functions, Course, WriteFails
      <3>4. CASE PingFails(c) \/ WriterStops(c)
        BY <3>4 DEF IndInv, TypeOK, Functions, Course, PingFails, WriterStops
      <3> QED
        BY <3>1, <3>2, <3>3, <3>4 DEF Write
    <2> QED
      BY <1>2, <2>1, <2>2 DEF IndInv, Course, hub, handler
  <1> QED
    BY <1>1, <1>3, <1>4 DEF IndInv

\* The library closes the socket.
LEMMA CloseInv ==
  ASSUME IndInv, NEW c \in Clients, Close(c)
  PROVE  IndInv'
  <1>1. TypeOK' /\ Functions' /\ Agree' /\ Walks'
    BY DEF IndInv, TypeOK, Functions, Agree, Walks, Close, hub, publish, handler
  <1>2. \A d \in Clients : Course(d)'
    BY DEF IndInv, Course, Close, hub, publish, handler
  <1> QED
    BY <1>1, <1>2 DEF IndInv

------------------------------------------------------------------------------
\* Every step keeps the invariant.
LEMMA NextInv == IndInv /\ [Next]_vars => IndInv'
  <1> SUFFICES ASSUME IndInv, [Next]_vars PROVE IndInv'
    OBVIOUS
  <1>1. CASE UNCHANGED vars
    BY <1>1 DEF vars, hub, publish, handler, socket, IndInv, TypeOK, Functions, Walks, Agree, Course
  <1>2. ASSUME NEW p \in Publishers, Publish(p) PROVE IndInv'
    BY <1>2, PublishStartInv, PublishToInv, PublishDoneInv DEF Publish
  <1>3. ASSUME NEW c \in Clients, Handle(c) PROVE IndInv'
    BY <1>3, ConnectInv, ReadInv, SubscribeInv, UnsubscribeInv, AckInv, EndInv, RemoveClientInv
       DEF Handle
  <1>4. ASSUME NEW c \in Clients, PeerCloses(c) \/ WriteTimesOut(c) \/ ContextDone(c) PROVE IndInv'
    BY <1>4, CloseInv DEF PeerCloses, WriteTimesOut, ContextDone
  <1> QED
    BY <1>1, <1>2, <1>3, <1>4, WriterInv DEF Next

\* The invariant holds in every reachable state.
LEMMA Invariance == Spec => []IndInv
  BY InitInv, NextInv, PTL DEF Spec

\* Types are right, and no queue grows beyond its limit.
THEOREM TypeCorrect == Spec => []TypeOK
  <1>1. IndInv => TypeOK
    BY DEF IndInv
  <1> QED
    BY <1>1, Invariance, PTL

\* The hub and its clients agree on every subscription, and no connection that is
\* over is in the hub, whatever publishers and handlers do at the same time.
THEOREM NeverGhosts == Spec => []NoGhosts
  <1>1. IndInv => NoGhosts
    BY DEF IndInv, Agree, Course, NoGhosts
  <1> QED
    BY <1>1, Invariance, PTL

------------------------------------------------------------------------------
(* The refinement: what an action does to the variables of Fanout *)

Due(c)   == {event[p] : p \in {q \in Publishers : c \in todo[q]}}
AckOf(c) == IF pc[c] = "ack" THEN cmd[c] ELSE <<"none">>

\* The client looks the same to Fanout after the step.
Same(d) ==
  /\ subs'[d] = subs[d]
  /\ Due(d)' = Due(d)
  /\ AckOf(d)' = AckOf(d)
  /\ Stream(d)' = Stream(d)

\* Clients that are cut look all alike.
LEMMA Stutters ==
  ASSUME topic' = topic, cancelled' = cancelled, \A d \in Clients \ cancelled : Same(d)
  PROVE  UNCHANGED F!vars
  BY DEF F!vars, UnlessCut, Same, Due, AckOf

\* Whoever cancels a connection, it is a cut in Fanout.
LEMMA Cuts ==
  ASSUME NEW c \in Clients, topic' = topic, cancelled' = cancelled \cup {c},
         \A d \in Clients \ {c} : Same(d)
  PROVE  F!Cut(c)
  BY DEF F!Cut, F!NoAck, UnlessCut, Same, Due, AckOf

\* Appending to the rest is appending to the whole.
LEMMA AppendLast ==
  ASSUME NEW S, NEW s \in Seq(S), NEW t \in Seq(S), NEW x \in S
  PROVE  s \o Append(t, x) = Append(s \o t, x)
  OBVIOUS

\* A frame that is queued joins the stream, or the client is cut off.
LEMMA Queued ==
  ASSUME IndInv, NEW c \in Clients, NEW f \in Frames, Enqueue(c, f),
         received' = received, frame' = frame
  PROVE  /\ \A d \in Clients \ {c} : Stream(d)' = Stream(d)
         /\ \/ cancelled' = cancelled \cup {c}
            \/ cancelled' = cancelled /\ Stream(c)' = Append(Stream(c), f)
  <1>1. /\ \A d \in Clients \ {c} : send'[d] = send[d]
        /\ \/ send'[c] = Append(send[c], f) /\ cancelled' = cancelled
           \/ send'[c] = send[c] /\ cancelled' = cancelled \cup {c}
    BY Enqueued DEF IndInv
  <1>2. \A d \in Clients \ {c} : Stream(d)' = Stream(d)
    BY <1>1 DEF Stream
  <1>3. ASSUME send'[c] = Append(send[c], f) PROVE Stream(c)' = Append(Stream(c), f)
    <2> DEFINE sent == received[c] \o frame[c]
    <2>1. sent \in Seq(Frames) /\ send[c] \in Seq(Frames)
      BY DEF IndInv, Functions
    <2>2. Stream(c) = sent \o send[c] /\ Stream(c)' = sent \o Append(send[c], f)
      BY <1>3 DEF Stream
    <2> HIDE DEF sent
    <2> QED
      BY <2>1, <2>2, AppendLast
  <1> QED
    BY <1>1, <1>2, <1>3

\* The start of a walk is the publication in Fanout.
LEMMA PublishStartMaps ==
  ASSUME IndInv, NEW p \in Publishers, NEW id \in Channels, PublishStart(p, id)
  PROVE  F!Publish(id)
  <1>1. /\ topic' = Append(topic, id) /\ cancelled' = cancelled /\ id \in Ids
        /\ \A d \in Clients : subs'[d] = subs[d] /\ AckOf(d)' = AckOf(d) /\ Stream(d)' = Stream(d)
    BY DEF PublishStart, hub, handler, socket, AckOf, Stream, Ids
  <1>2. ASSUME NEW d \in Clients
        PROVE  Due(d)' = IF id \in subs[d] THEN Due(d) \cup {Len(topic')} ELSE Due(d)
    <2>1. d \in channels[id] <=> id \in subs[d]
      BY <1>1 DEF IndInv, Agree
    <2>2. todo[p] = {}
      BY DEF IndInv, Walks, PublishStart
    <2>3. \A q \in Publishers :
            /\ event'[q] = IF q = p THEN Len(topic') ELSE event[q]
            /\ todo'[q] = IF q = p THEN channels[id] ELSE todo[q]
      BY DEF IndInv, TypeOK, PublishStart
    <2> QED
      BY <2>1, <2>2, <2>3 DEF Due
  <1> QED
    BY <1>1, <1>2 DEF F!Publish, UnlessCut, Due, AckOf

\* One stop of the walk is a delivery or a cut.
LEMMA PublishToMaps ==
  ASSUME IndInv, NEW p \in Publishers, NEW c \in Clients, PublishTo(p, c)
  PROVE  (F!Deliver(c, event[p]) /\ c \notin cancelled) \/ F!Cut(c) \/ UNCHANGED F!vars
  <1>1. /\ topic' = topic /\ subs' = subs /\ event' = event /\ received' = received /\ frame' = frame
        /\ Enqueue(c, <<"event", event[p]>>) /\ <<"event", event[p]>> \in Frames
        /\ \A d \in Clients : AckOf(d)' = AckOf(d)
    <2>1. event[p] \in Events
      BY DEF IndInv, TypeOK, Walks, PublishTo
    <2> QED
      BY <2>1 DEF PublishTo, hub, handler, socket, AckOf, Frames, Kinds
  <1>2. /\ \A d \in Clients \ {c} : Stream(d)' = Stream(d)
        /\ \/ cancelled' = cancelled \cup {c}
           \/ cancelled' = cancelled /\ Stream(c)' = Append(Stream(c), <<"event", event[p]>>)
    BY <1>1, Queued
  <1>3. \A q \in Publishers : todo'[q] = IF q = p THEN todo[p] \ {c} ELSE todo[q]
    BY DEF IndInv, TypeOK, PublishTo
  <1>4. \A d \in Clients \ {c} : Due(d)' = Due(d)
    BY <1>1, <1>3 DEF Due
  <1>5. event[p] \in Due(c) /\ Due(c)' = Due(c) \ {event[p]}
    <2>1. \A q \in Publishers \ {p} : c \in todo[q] => event[q] # event[p]
      BY DEF IndInv, Walks, PublishTo
    <2> QED
      BY <1>1, <1>3, <2>1 DEF Due, PublishTo
  <1>6. \A d \in Clients \ {c} : Same(d)
    BY <1>1, <1>2, <1>4 DEF Same
  <1>7. CASE cancelled' = cancelled \cup {c}
    BY <1>1, <1>6, <1>7, Cuts
  <1>8. CASE cancelled' = cancelled /\ c \in cancelled
    BY <1>1, <1>6, <1>8, Stutters
  <1>9. CASE cancelled' = cancelled /\ c \notin cancelled
    <2>1. Stream(c)' = Append(Stream(c), <<"event", event[p]>>)
      BY <1>2, <1>9
    <2>2. /\ topic' = topic /\ subs' = subs /\ cancelled' = cancelled /\ c \notin cancelled
          /\ \A d \in Clients : AckOf(d)' = AckOf(d)
      BY <1>1, <1>9
    <2>3. \A d \in Clients \ {c} : Stream(d)' = Stream(d)
      BY <1>2
    <2>4. UnlessCut([d \in Clients |-> Stream(d)], <<>>)' =
            [UnlessCut([d \in Clients |-> Stream(d)], <<>>) EXCEPT ![c] = Append(@, <<"event", event[p]>>)]
      BY <2>1, <2>2, <2>3 DEF UnlessCut
    <2>5. LET due == UnlessCut([d \in Clients |-> Due(d)], {}) IN
            event[p] \in due[c] /\ due' = [due EXCEPT ![c] = @ \ {event[p]}]
      BY <1>4, <1>5, <2>2 DEF UnlessCut
    <2>6. UNCHANGED <<UnlessCut(subs, {}), UnlessCut([d \in Clients |-> AckOf(d)], <<"none">>)>>
      BY <2>2 DEF UnlessCut
    <2>7. F!Deliver(c, event[p])
      BY <2>2, <2>4, <2>5, <2>6 DEF F!Deliver, F!Send, Due, AckOf
    <2> QED
      BY <1>9, <2>7
  <1> QED
    BY <1>2, <1>7, <1>8, <1>9

\* The end of a walk is invisible.
LEMMA PublishDoneMaps ==
  ASSUME IndInv, NEW p \in Publishers, PublishDone(p)
  PROVE  UNCHANGED F!vars
  <1>1. /\ topic' = topic /\ cancelled' = cancelled
        /\ \A d \in Clients : subs'[d] = subs[d] /\ AckOf(d)' = AckOf(d) /\ Stream(d)' = Stream(d)
    BY DEF PublishDone, hub, handler, socket, AckOf, Stream
  <1>2. \A d \in Clients : Due(d)' = Due(d)
    <2>1. todo' = todo /\ \A q \in Publishers : todo[q] # {} => event'[q] = event[q]
      BY DEF IndInv, TypeOK, PublishDone
    <2> QED
      BY <2>1 DEF Due
  <1> QED
    BY <1>1, <1>2, Stutters DEF Same

\* Steps of a handler leave every other client as it is.
LEMMA HandlerSame ==
  ASSUME NEW c \in Clients, UNCHANGED publish,
         \A d \in Clients \ {c} :
           subs'[d] = subs[d] /\ pc'[d] = pc[d] /\ cmd'[d] = cmd[d] /\ Stream(d)' = Stream(d)
  PROVE  /\ \A d \in Clients : Due(d)' = Due(d)
         /\ \A d \in Clients \ {c} : Same(d)
  BY DEF publish, Same, Due, AckOf

\* A frame that the handler queues at once.
LEMMA NotifyMaps ==
  ASSUME IndInv, NEW c \in Clients, Connect(c) \/ ReadRefused(c)
  PROVE  \/ \E f \in {<<"hello", Unknown>>, <<"error", Unknown>>} : F!Notify(c, f)
         \/ F!Cut(c) \/ UNCHANGED F!vars
  <1>1. PICK f \in {<<"hello", Unknown>>, <<"error", Unknown>>} : Enqueue(c, f)
    BY DEF Connect, ReadRefused
  <1>2. f \in Frames
    BY DEF Frames, Kinds, Ids
  <1>3. /\ topic' = topic /\ subs' = subs /\ UNCHANGED publish
        /\ received' = received /\ frame' = frame
        /\ \A d \in Clients \ {c} : pc'[d] = pc[d] /\ cmd'[d] = cmd[d]
        /\ AckOf(c)' = AckOf(c)
    BY DEF IndInv, TypeOK, Connect, ReadRefused, Read, hub, handler, socket, AckOf
  <1>4. /\ \A d \in Clients \ {c} : Stream(d)' = Stream(d)
        /\ \/ cancelled' = cancelled \cup {c}
           \/ cancelled' = cancelled /\ Stream(c)' = Append(Stream(c), f)
    BY <1>1, <1>2, <1>3, Queued
  <1>5. (\A d \in Clients : Due(d)' = Due(d)) /\ \A d \in Clients \ {c} : Same(d)
    BY <1>3, <1>4, HandlerSame
  <1>6. CASE cancelled' = cancelled \cup {c}
    BY <1>3, <1>5, <1>6, Cuts
  <1>7. CASE cancelled' = cancelled /\ c \in cancelled
    BY <1>3, <1>5, <1>7, Stutters
  <1>8. CASE cancelled' = cancelled /\ c \notin cancelled
    <2>1. Stream(c)' = Append(Stream(c), f)
      BY <1>4, <1>8
    <2>2. F!Notify(c, f)
      BY <1>3, <1>5, <1>8, <2>1 DEF F!Notify, F!Send, UnlessCut, Same, Due, AckOf
    <2> QED
      BY <2>2
  <1> QED
    BY <1>4, <1>6, <1>7, <1>8

\* Commands are read, and the connection closes, without anything to be seen.
LEMMA SilentMaps ==
  ASSUME IndInv, NEW c \in Clients,
         \/ \E op \in {"subscribed", "unsubscribed"}, id \in Ids : ReadCommand(c, op, id)
         \/ CloseConn(c) \/ Close(c) \/ WriterStops(c)
  PROVE  UNCHANGED F!vars
  <1>1. topic' = topic /\ cancelled' = cancelled
    BY DEF ReadCommand, CloseConn, Close, WriterStops
  <1>2. \A d \in Clients : Same(d)
    <2>1. UNCHANGED <<subs, event, todo, received, frame, send>>
      BY DEF ReadCommand, CloseConn, Close, WriterStops, hub, publish, socket
    <2>2. \A d \in Clients : AckOf(d)' = AckOf(d)
      BY DEF IndInv, TypeOK, ReadCommand, Read, CloseConn, Close, WriterStops, handler, AckOf
    <2> QED
      BY <2>1, <2>2 DEF Same, Due, Stream
  <1> QED
    BY <1>1, <1>2, Stutters

\* The hub forgets only clients that were cut off before.
LEMMA RemoveClientMaps ==
  ASSUME IndInv, NEW c \in Clients, RemoveClient(c)
  PROVE  UNCHANGED F!vars
  <1>1. topic' = topic /\ cancelled' = cancelled /\ c \in cancelled
    BY DEF IndInv, Course, RemoveClient
  <1>2. /\ UNCHANGED publish
        /\ \A d \in Clients \ {c} :
             subs'[d] = subs[d] /\ pc'[d] = pc[d] /\ cmd'[d] = cmd[d] /\ Stream(d)' = Stream(d)
    BY DEF IndInv, TypeOK, RemoveClient, Drop, socket, Stream
  <1>3. \A d \in Clients \ {c} : Same(d)
    BY <1>2, HandlerSame
  <1> QED
    BY <1>1, <1>3, Stutters

\* The subscription changes before the acknowledgement is queued.
LEMMA SubscriptionMaps ==
  ASSUME IndInv, NEW c \in Clients, Subscribe(c) \/ Unsubscribe(c)
  PROVE  (\E id \in Ids : F!Subscribe(c, id) \/ F!Unsubscribe(c, id)) \/ UNCHANGED F!vars
  <1> DEFINE id == cmd[c][2]
  <1>1. /\ topic' = topic /\ cancelled' = cancelled /\ UNCHANGED publish
        /\ \A d \in Clients : Stream(d)' = Stream(d)
        /\ \A d \in Clients \ {c} : subs'[d] = subs[d] /\ pc'[d] = pc[d] /\ cmd'[d] = cmd[d]
        /\ pc[c] = "locking" /\ pc'[c] = "ack" /\ cmd'[c] = cmd[c] /\ NoReaders
    <2>1. /\ pc \in [Clients -> {"none", "reading", "locking", "ack", "waiting", "removing", "gone"}]
          /\ DOMAIN subs = Clients
      BY DEF IndInv, TypeOK
    <2>2. CASE Subscribe(c)
      BY <2>1, <2>2 DEF Subscribe, socket, Stream
    <2>3. CASE Unsubscribe(c)
      BY <2>1, <2>3 DEF Unsubscribe, Drop, socket, Stream
    <2> QED
      BY <2>2, <2>3
  <1>2. (\A d \in Clients : Due(d)' = Due(d)) /\ \A d \in Clients \ {c} : Same(d)
    BY <1>1, HandlerSame
  <1>3. AckOf(c) = <<"none">> /\ AckOf(c)' = cmd[c] /\ id \in Ids
    BY <1>1 DEF IndInv, TypeOK, AckOf
  <1>4. Due(c) = {}
    BY <1>1, NobodyWalks DEF Due
  <1> HIDE DEF id
  <1>5. CASE c \in cancelled
    BY <1>1, <1>2, <1>5, Stutters
  <1>6. CASE c \notin cancelled /\ Subscribe(c)
    <2>1. cmd[c] = <<"subscribed", id>> /\ subs'[c] = subs[c] \cup {id}
      BY <1>6 DEF IndInv, TypeOK, Subscribe, id
    <2>2. F!Subscribe(c, id)
      BY <1>1, <1>2, <1>3, <1>6, <2>1 DEF F!Subscribe, F!NoAck, UnlessCut, Same, Due, AckOf
    <2> QED
      BY <1>3, <2>2
  <1>7. CASE c \notin cancelled /\ Unsubscribe(c)
    <2>1. cmd[c] = <<"unsubscribed", id>> /\ subs'[c] = subs[c] \ {id}
      BY <1>7 DEF IndInv, TypeOK, Unsubscribe, Drop, id
    <2>2. F!Unsubscribe(c, id)
      BY <1>1, <1>2, <1>3, <1>4, <1>7, <2>1 DEF F!Unsubscribe, F!NoAck, UnlessCut, Same, Due, AckOf
    <2> QED
      BY <1>3, <2>2
  <1> QED
    BY <1>5, <1>6, <1>7

\* An answer is an acknowledgement or a cut.
LEMMA AckMaps ==
  ASSUME IndInv, NEW c \in Clients, Ack(c)
  PROVE  F!Acknowledge(c) \/ F!Cut(c) \/ UNCHANGED F!vars
  <1>1. /\ topic' = topic /\ subs' = subs /\ UNCHANGED publish
        /\ received' = received /\ frame' = frame
        /\ \A d \in Clients \ {c} : pc'[d] = pc[d] /\ cmd'[d] = cmd[d]
        /\ AckOf(c) = cmd[c] /\ AckOf(c)' = <<"none">> /\ cmd[c] # <<"none">>
        /\ cmd[c] \in Frames /\ Enqueue(c, cmd[c])
    BY DEF IndInv, TypeOK, Course, Ack, hub, socket, AckOf, Frames, Kinds
  <1>2. /\ \A d \in Clients \ {c} : Stream(d)' = Stream(d)
        /\ \/ cancelled' = cancelled \cup {c}
           \/ cancelled' = cancelled /\ Stream(c)' = Append(Stream(c), cmd[c])
    BY <1>1, Queued
  <1>3. (\A d \in Clients : Due(d)' = Due(d)) /\ \A d \in Clients \ {c} : Same(d)
    BY <1>1, <1>2, HandlerSame
  <1>4. CASE cancelled' = cancelled \cup {c}
    BY <1>1, <1>3, <1>4, Cuts
  <1>5. CASE cancelled' = cancelled /\ c \in cancelled
    BY <1>1, <1>3, <1>5, Stutters
  <1>6. CASE cancelled' = cancelled /\ c \notin cancelled
    <2>1. Stream(c)' = Append(Stream(c), cmd[c])
      BY <1>2, <1>6
    <2>2. F!Acknowledge(c)
      BY <1>1, <1>3, <1>6, <2>1 DEF F!Acknowledge, F!NoAck, F!Send, UnlessCut, Same, Due, AckOf
    <2> QED
      BY <2>2
  <1> QED
    BY <1>2, <1>4, <1>5, <1>6

\* A failing connection is cut off.
LEMMA FailuresMap ==
  ASSUME IndInv, NEW c \in Clients, ReadFails(c) \/ WriteFails(c) \/ PingFails(c)
  PROVE  F!Cut(c)
  <1>1. /\ topic' = topic /\ cancelled' = cancelled \cup {c} /\ UNCHANGED publish
        /\ \A d \in Clients \ {c} :
             subs'[d] = subs[d] /\ pc'[d] = pc[d] /\ cmd'[d] = cmd[d] /\ Stream(d)' = Stream(d)
    BY DEF IndInv, TypeOK, Functions, ReadFails, WriteFails, PingFails, hub, handler, socket, Stream
  <1>2. \A d \in Clients \ {c} : Same(d)
    BY <1>1, HandlerSame
  <1> QED
    BY <1>1, <1>2, Cuts

\* The writer moves a frame from the queue to the client: the stream is the same.
LEMMA MoveFirst ==
  ASSUME NEW S, NEW s \in Seq(S), NEW t \in Seq(S), t # <<>>
  PROVE  (s \o <<>>) \o t = (s \o <<Head(t)>>) \o Tail(t)
  OBVIOUS

\* A frame that has been written leaves the stream as a whole what it was.
LEMMA MoveSecond ==
  ASSUME NEW S, NEW r \in Seq(S), NEW s \in Seq(S), NEW t \in Seq(S)
  PROVE  ((r \o s) \o <<>>) \o t = (r \o s) \o t
  OBVIOUS

\* The writer moves frames along the stream, which nobody sees.
LEMMA WriterMaps ==
  ASSUME IndInv, NEW c \in Clients, WriterTakes(c) \/ WriteSucceeds(c)
  PROVE  UNCHANGED F!vars
  <1>1. /\ topic' = topic /\ cancelled' = cancelled /\ UNCHANGED publish
        /\ subs' = subs /\ pc' = pc /\ cmd' = cmd
        /\ \A d \in Clients \ {c} : Stream(d)' = Stream(d)
    BY DEF IndInv, Functions, WriterTakes, WriteSucceeds, hub, handler, Stream
  <1>2. received[c] \in Seq(Frames) /\ frame[c] \in Seq(Frames) /\ send[c] \in Seq(Frames)
    BY DEF IndInv, Functions
  <1>3. Stream(c)' = Stream(c)
    <2>1. CASE WriterTakes(c)
      <3>1. /\ received'[c] = received[c] /\ frame[c] = <<>> /\ send[c] # <<>>
            /\ frame'[c] = <<Head(send[c])>> /\ send'[c] = Tail(send[c])
        BY <2>1 DEF IndInv, Functions, Course, WriterTakes
      <3> QED
        BY <1>2, <3>1, MoveFirst DEF Stream
    <2>2. CASE WriteSucceeds(c)
      <3>1. received'[c] = received[c] \o frame[c] /\ frame'[c] = <<>> /\ send'[c] = send[c]
        BY <2>2 DEF IndInv, Functions, WriteSucceeds
      <3> QED
        BY <1>2, <3>1, MoveSecond DEF Stream
    <2> QED
      BY <2>1, <2>2
  <1>4. \A d \in Clients : Same(d)
    BY <1>1, <1>3, HandlerSame DEF Same, AckOf
  <1> QED
    BY <1>1, <1>4, Stutters

------------------------------------------------------------------------------
\* At the start there are no frames, as in Fanout.
LEMMA InitMaps == Init => F!Init
  <1> SUFFICES ASSUME Init PROVE F!Init
    OBVIOUS
  <1>1. /\ topic = <<>> /\ cancelled = {}
        /\ \A d \in Clients : subs[d] = {} /\ Due(d) = {} /\ AckOf(d) = <<"none">>
    BY DEF Init, Due, AckOf
  <1>2. \A d \in Clients : Stream(d) = <<>>
    BY DEF Init, Stream
  <1> QED
    BY <1>1, <1>2 DEF F!Init, F!NoAck, UnlessCut, Due, AckOf

\* Every step is one of Fanout or invisible to it.
LEMMA NextMaps == IndInv /\ [Next]_vars => [F!Next]_F!vars
  <1> SUFFICES ASSUME IndInv, [Next]_vars PROVE F!Next \/ UNCHANGED F!vars
    OBVIOUS
  <1>1. CASE UNCHANGED vars
    BY <1>1 DEF vars, hub, publish, handler, socket, F!vars, UnlessCut, Stream
  <1>2. ASSUME NEW p \in Publishers, Publish(p) PROVE F!Next \/ UNCHANGED F!vars
    <2>1. ASSUME NEW id \in Channels, PublishStart(p, id) PROVE F!Next
      BY <2>1, PublishStartMaps DEF F!Next, Ids
    <2>2. ASSUME NEW c \in Clients, PublishTo(p, c) PROVE F!Next \/ UNCHANGED F!vars
      <3>1. F!Deliver(c, event[p]) => \E e \in UnlessCut([d \in Clients |->
              {event[q] : q \in {x \in Publishers : d \in todo[x]}}], {})[c] : F!Deliver(c, e)
        BY DEF F!Deliver
      <3> QED
        BY <2>2, <3>1, PublishToMaps DEF F!Next
    <2> QED
      BY <1>2, <2>1, <2>2, PublishDoneMaps DEF Publish
  <1>3. ASSUME NEW c \in Clients, Handle(c) PROVE F!Next \/ UNCHANGED F!vars
    BY <1>3, NotifyMaps, SilentMaps, SubscriptionMaps, AckMaps, FailuresMap, RemoveClientMaps
       DEF Handle, F!Next
  <1>4. ASSUME NEW c \in Clients, Write(c) \/ PingFails(c) PROVE F!Next \/ UNCHANGED F!vars
    BY <1>4, WriterMaps, FailuresMap, SilentMaps DEF Write, F!Next
  <1>5. ASSUME NEW c \in Clients, PeerCloses(c) \/ WriteTimesOut(c) \/ ContextDone(c)
        PROVE  UNCHANGED F!vars
    BY <1>5, SilentMaps DEF PeerCloses, WriteTimesOut, ContextDone
  <1> QED
    BY <1>1, <1>2, <1>3, <1>4, <1>5 DEF Next

\* Hub, queues and goroutines together keep the promises of Fanout.
THEOREM Refinement == Spec => ImplementsFanout
  BY InitMaps, NextMaps, Invariance, PTL DEF Spec, ImplementsFanout, F!Spec

------------------------------------------------------------------------------
(* What Fanout promises, brought back *)

P == INSTANCE FanoutProofs WITH
  Notices <- {<<"hello", Unknown>>, <<"error", Unknown>>},
  subs    <- UnlessCut(subs, {}),
  due     <- UnlessCut([c \in Clients |-> {event[p] : p \in {q \in Publishers : c \in todo[q]}}], {}),
  ack     <- UnlessCut([c \in Clients |-> IF pc[c] = "ack" THEN cmd[c] ELSE <<"none">>], <<"none">>),
  stream  <- UnlessCut([c \in Clients |-> Stream(c)], <<>>),
  cut     <- cancelled

\* The instance of Fanout and the one of its proofs are the same specification.
LEMMA SameSpec == F!Spec => P!Spec
  <1>1. F!Init => P!Init
    BY DEF F!Init, P!Init, F!NoAck, P!NoAck
  <1>2. [F!Next]_F!vars => [P!Next]_P!vars
    BY DEF F!Next, P!Next, F!vars, P!vars, F!NoAck, P!NoAck, F!Send, P!Send,
           F!Publish, P!Publish, F!Deliver, P!Deliver, F!Notify, P!Notify,
           F!Subscribe, P!Subscribe, F!Unsubscribe, P!Unsubscribe,
           F!Acknowledge, P!Acknowledge, F!Cut, P!Cut
  <1> QED
    BY <1>1, <1>2, PTL DEF F!Spec, P!Spec

\* After an "unsubscribed" no event of the channel reaches the client, until it
\* subscribes again: whatever publishers, handlers and writers do at the same time.
THEOREM AlwaysQuiet == Spec => []QuietAfterUnsubscribe
  <1>1. P!Plain
    BY DEF P!Plain
  <1>2. P!Spec => []P!Quiet
    BY <1>1, P!AlwaysQuiet
  <1>3. P!Quiet => QuietAfterUnsubscribe
    BY DEF P!Quiet, QuietAfterUnsubscribe, UnlessCut
  <1> QED
    BY <1>2, <1>3, SameSpec, Refinement, PTL DEF ImplementsFanout
==============================================================================
