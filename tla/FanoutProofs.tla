----------------------------- MODULE FanoutProofs -----------------------------
(* What Fanout promises, proved for every set of clients and channels. *)
EXTENDS Fanout, TLAPS

\* Notices are none of the other frames.
Plain == \A f \in Notices : f[1] \notin {"event", "subscribed", "unsubscribed"}

Acks   == {"subscribed", "unsubscribed"} \X Ids
Frames == Notices \cup Acks \cup ({"event"} \X Nat)

Types ==
  /\ topic \in Seq(Ids)
  /\ subs \in [Clients -> SUBSET Ids]
  /\ due \in [Clients -> SUBSET (1 .. Len(topic))]
  /\ ack \in [Clients -> Acks \cup {NoAck}]
  /\ stream \in [Clients -> Seq(Frames)]
  /\ cut \subseteq Clients

\* An event that has been sent was published and is due no more.
Sent(c) ==
  \A i \in 1 .. Len(stream[c]) : stream[c][i][1] = "event" =>
    stream[c][i] = <<"event", stream[c][i][2]>> /\ stream[c][i][2] \in (1 .. Len(topic)) \ due[c]

OnceFor(c) ==
  \A i, j \in 1 .. Len(stream[c]) :
    stream[c][i][1] = "event" /\ stream[c][i] = stream[c][j] => i = j

\* The client has been told, or is about to be told, that it is subscribed again.
Back(c, i, id) ==
  \/ \E k \in i + 1 .. Len(stream[c]) : stream[c][k] = <<"subscribed", id>>
  \/ ack[c] = <<"subscribed", id>>

\* A channel whose events are, or may become, due to the client.
Live(c, id) == id \in subs[c] \/ \E e \in due[c] : topic[e] = id

\* Only a channel that the client has come back to is live.
Told(c) ==
  \A i \in 1 .. Len(stream[c]), id \in Ids :
    stream[c][i] = <<"unsubscribed", id>> /\ Live(c, id) => Back(c, i, id)

\* An end that has still to be acknowledged is one.
Ended(c) == \A id \in Ids : ack[c] = <<"unsubscribed", id>> => ~Live(c, id)

QuietFor(c) ==
  \A i, j \in 1 .. Len(stream[c]), id \in Ids :
    i < j /\ stream[c][i] = <<"unsubscribed", id>> /\ stream[c][j][1] = "event"
      /\ topic[stream[c][j][2]] = id
    => Back(c, i, id)

IndInv ==
  /\ Types
  /\ \A c \in Clients : Sent(c) /\ OnceFor(c) /\ Told(c) /\ Ended(c) /\ QuietFor(c)

------------------------------------------------------------------------------
\* A frame that is sent comes after the frames that were sent before.
LEMMA Sending ==
  ASSUME Types, NEW c \in Clients, NEW f \in Frames, Send(c, f)
  PROVE  /\ stream' \in [Clients -> Seq(Frames)]
         /\ Len(stream'[c]) = Len(stream[c]) + 1 /\ Len(stream[c]) \in Nat
         /\ \A i \in 1 .. Len(stream[c]) : stream'[c][i] = stream[c][i]
         /\ stream'[c][Len(stream[c]) + 1] = f
         /\ \A d \in Clients \ {c} : stream'[d] = stream[d]
  <1>1. stream'[c] = Append(stream[c], f) /\ stream[c] \in Seq(Frames)
    BY DEF Types, Send
  <1>2. stream' \in [Clients -> Seq(Frames)] /\ \A d \in Clients \ {c} : stream'[d] = stream[d]
    BY DEF Types, Send
  <1> QED
    BY <1>1, <1>2

\* A client whose stream stays as it is, while events are published.
LEMMA Untouched ==
  ASSUME IndInv, NEW d \in Clients,
         topic' \in Seq(Ids), Len(topic) <= Len(topic'),
         \A e \in 1 .. Len(topic) : topic'[e] = topic[e],
         \A e \in due'[d] : e \in due[d] \/ e \notin 1 .. Len(topic),
         \A id \in Ids : Live(d, id)' => Live(d, id),
         ack'[d] = ack[d], stream'[d] = stream[d]
  PROVE  Sent(d)' /\ OnceFor(d)' /\ Told(d)' /\ Ended(d)' /\ QuietFor(d)'
  <1>1. /\ due[d] \subseteq 1 .. Len(topic) /\ Len(topic) \in Nat /\ Len(topic') \in Nat
        /\ Sent(d) /\ OnceFor(d) /\ Told(d) /\ Ended(d) /\ QuietFor(d)
    BY DEF IndInv, Types
  <1>2. Sent(d)'
    BY <1>1 DEF Sent
  <1>3. \A i \in 1 .. Len(stream[d]), id \in Ids : Back(d, i, id)' <=> Back(d, i, id)
    BY DEF Back
  <1>4. OnceFor(d)' /\ Told(d)' /\ Ended(d)'
    BY <1>1, <1>3 DEF OnceFor, Told, Ended
  <1>5. QuietFor(d)'
    BY <1>1, <1>3 DEF QuietFor, Sent
  <1> QED
    BY <1>2, <1>4, <1>5

\* Clients that a step does not name.
LEMMA Others ==
  ASSUME IndInv, NEW d \in Clients, topic' = topic,
         subs'[d] = subs[d], due'[d] = due[d], ack'[d] = ack[d], stream'[d] = stream[d]
  PROVE  Sent(d)' /\ OnceFor(d)' /\ Told(d)' /\ Ended(d)' /\ QuietFor(d)'
  <1>1. \A id \in Ids : Live(d, id)' => Live(d, id)
    BY DEF Live
  <1>2. topic' \in Seq(Ids) /\ Len(topic) <= Len(topic')
    BY DEF IndInv, Types
  <1> QED
    BY <1>1, <1>2, Untouched

\* A new event is due to subscribers only, and was never sent.
LEMMA PublishStep ==
  ASSUME IndInv, NEW id \in Ids, Publish(id)
  PROVE  IndInv'
  <1>1. /\ topic' \in Seq(Ids) /\ Len(topic') = Len(topic) + 1 /\ Len(topic) \in Nat
        /\ topic'[Len(topic) + 1] = id
        /\ \A e \in 1 .. Len(topic) : topic'[e] = topic[e]
    BY DEF IndInv, Types, Publish
  <1>2. \A c \in Clients :
          due'[c] = IF id \in subs[c] THEN due[c] \cup {Len(topic) + 1} ELSE due[c]
    BY <1>1 DEF Publish
  <1>3. Types'
    <2>1. due' \in [Clients -> SUBSET (1 .. Len(topic'))]
      <3>1. ASSUME NEW c \in Clients PROVE due'[c] \in SUBSET (1 .. Len(topic'))
        <4>1. due[c] \subseteq 1 .. Len(topic)
          BY DEF IndInv, Types
        <4>2. Len(topic) \in Nat /\ Len(topic') = Len(topic) + 1
          BY <1>1
        <4>3. 1 .. Len(topic) \subseteq 1 .. Len(topic') /\ Len(topic) + 1 \in 1 .. Len(topic')
          BY <4>2
        <4> QED
          BY <1>2, <4>1, <4>3
      <3> QED
        BY <3>1 DEF Publish
    <2> QED
      BY <1>1, <2>1 DEF IndInv, Types, Publish
  <1>4. ASSUME NEW d \in Clients
        PROVE  Sent(d)' /\ OnceFor(d)' /\ Told(d)' /\ Ended(d)' /\ QuietFor(d)'
    <2>1. due[d] \subseteq 1 .. Len(topic)
      BY DEF IndInv, Types
    <2>2. \A x \in Ids : Live(d, x)' => Live(d, x)
      BY <1>1, <1>2, <2>1 DEF Live, Publish
    <2>3. \A e \in due'[d] : e \in due[d] \/ e \notin 1 .. Len(topic)
      <3>1. Len(topic) + 1 \notin 1 .. Len(topic)
        BY <1>1
      <3> QED
        BY <1>2, <3>1
    <2>4. ack'[d] = ack[d] /\ stream'[d] = stream[d]
      BY DEF Publish
    <2> QED
      BY <1>1, <2>2, <2>3, <2>4, Untouched
  <1> QED
    BY <1>3, <1>4 DEF IndInv

\* A frame that joins the stream.  An event is one that was due and is no more;
\* an acknowledgement is the one that was pending.
LEMMA Joins ==
  ASSUME IndInv, Plain, NEW c \in Clients, NEW f \in Frames, Send(c, f),
         topic' = topic, subs' = subs,
         \/ f \in Notices /\ due' = due /\ ack' = ack
         \/ \E e \in due[c] :
              f = <<"event", e>> /\ due' = [due EXCEPT ![c] = @ \ {e}] /\ ack' = ack
         \/ f = ack[c] /\ f # NoAck /\ ack' = [ack EXCEPT ![c] = NoAck] /\ due' = due
  PROVE  Sent(c)' /\ OnceFor(c)' /\ Told(c)' /\ Ended(c)' /\ QuietFor(c)'
  <1> DEFINE n == Len(stream[c])
  <1>1. /\ n \in Nat /\ Len(stream'[c]) = n + 1 /\ stream'[c][n + 1] = f
        /\ \A i \in 1 .. n : stream'[c][i] = stream[c][i]
    BY Sending DEF IndInv
  <1>2. /\ due[c] \subseteq 1 .. Len(topic) /\ Len(topic) \in Nat
        /\ ack[c] \in Acks \cup {NoAck} /\ stream[c] \in Seq(Frames)
        /\ Sent(c) /\ OnceFor(c) /\ Told(c) /\ Ended(c) /\ QuietFor(c)
    BY DEF IndInv, Types
  <1>3. /\ f \in Notices => f[1] \notin {"event", "subscribed", "unsubscribed"}
        /\ f \in Acks => f[1] \in {"subscribed", "unsubscribed"}
    BY DEF Plain, Acks
  <1>4. due'[c] \subseteq due[c] /\ ack'[c] \in {ack[c], NoAck}
    BY DEF IndInv, Types
  <1>5. /\ f[1] = "event" => f[2] \in due[c] /\ f[2] \notin due'[c] /\ f = <<"event", f[2]>>
        /\ f \in Acks => f = ack[c] /\ ack'[c] = NoAck /\ due'[c] = due[c]
        /\ f \notin Acks => ack'[c] = ack[c]
    BY <1>2, <1>3 DEF IndInv, Types, Acks, NoAck
  <1> HIDE DEF n
  <1>6. \A id \in Ids : Live(c, id)' => Live(c, id)
    BY <1>4 DEF Live
  <1>7. \A i \in 1 .. n, id \in Ids : Back(c, i, id) => Back(c, i, id)'
    <2> SUFFICES ASSUME NEW i \in 1 .. n, NEW id \in Ids, Back(c, i, id) PROVE Back(c, i, id)'
      OBVIOUS
    <2>1. CASE ack[c] = <<"subscribed", id>> /\ f \in Acks
      <3>1. n + 1 \in i + 1 .. Len(stream'[c]) /\ stream'[c][n + 1] = <<"subscribed", id>>
        BY <1>1, <1>5, <2>1
      <3> QED
        BY <3>1 DEF Back
    <2>2. CASE ack[c] = <<"subscribed", id>> /\ f \notin Acks
      BY <1>5, <2>2 DEF Back
    <2>3. CASE \E k \in i + 1 .. n : stream[c][k] = <<"subscribed", id>>
      BY <1>1, <2>3 DEF Back
    <2> QED
      BY <2>1, <2>2, <2>3 DEF Back, n
  <1>8. Sent(c)'
    <2> SUFFICES ASSUME NEW i \in 1 .. n + 1, stream'[c][i][1] = "event"
                 PROVE  /\ stream'[c][i] = <<"event", stream'[c][i][2]>>
                        /\ stream'[c][i][2] \in (1 .. Len(topic)) \ due'[c]
      BY <1>1 DEF Sent
    <2>1. CASE i \in 1 .. n
      BY <1>1, <1>2, <1>4, <2>1 DEF Sent, n
    <2>2. CASE i = n + 1
      BY <1>1, <1>2, <1>5, <2>2
    <2> QED
      BY <1>1, <2>1, <2>2
  <1>9. OnceFor(c)'
    <2> SUFFICES ASSUME NEW i \in 1 .. n + 1, NEW j \in 1 .. n + 1,
                        stream'[c][i][1] = "event", stream'[c][i] = stream'[c][j]
                 PROVE  i = j
      BY <1>1 DEF OnceFor
    <2>1. CASE i \in 1 .. n /\ j \in 1 .. n
      BY <1>1, <1>2, <2>1 DEF OnceFor, n
    <2>2. ASSUME NEW k \in 1 .. n, stream[c][k] = f, f[1] = "event" PROVE FALSE
      <3>1. stream[c][k][2] \notin due[c]
        BY <1>2, <2>2 DEF Sent, n
      <3> QED
        BY <1>5, <2>2, <3>1
    <2>3. CASE i \in 1 .. n /\ j = n + 1
      BY <1>1, <2>2, <2>3
    <2>4. CASE i = n + 1 /\ j \in 1 .. n
      BY <1>1, <2>2, <2>4
    <2> QED
      BY <1>1, <2>1, <2>2, <2>3, <2>4
  <1>10. Ended(c)'
    BY <1>2, <1>4, <1>6 DEF Ended, NoAck
  <1>11. Told(c)'
    <2> SUFFICES ASSUME NEW i \in 1 .. n + 1, NEW id \in Ids,
                        stream'[c][i] = <<"unsubscribed", id>>, Live(c, id)'
                 PROVE  Back(c, i, id)'
      BY <1>1 DEF Told
    <2>1. CASE i \in 1 .. n
      BY <1>1, <1>2, <1>6, <1>7, <2>1 DEF Told, n
    <2>2. CASE i = n + 1
      <3>1. f = <<"unsubscribed", id>> /\ f \in Acks
        <4>1. f = <<"unsubscribed", id>>
          BY <1>1, <2>2
        <4> QED
          BY <4>1 DEF Acks
      <3>2. ~Live(c, id)
        BY <1>2, <1>5, <3>1 DEF Ended
      <3> QED
        BY <1>6, <3>2
    <2> QED
      BY <1>1, <2>1, <2>2
  <1>12. QuietFor(c)'
    <2> SUFFICES ASSUME NEW i \in 1 .. n + 1, NEW j \in 1 .. n + 1, NEW id \in Ids,
                        i < j, stream'[c][i] = <<"unsubscribed", id>>,
                        stream'[c][j][1] = "event", topic[stream'[c][j][2]] = id
                 PROVE  Back(c, i, id)'
      BY <1>1 DEF QuietFor
    <2>1. CASE j \in 1 .. n
      <3>1. i \in 1 .. n /\ stream'[c][i] = stream[c][i] /\ stream'[c][j] = stream[c][j]
        BY <1>1, <2>1
      <3>2. Back(c, i, id)
        BY <1>2, <2>1, <3>1 DEF QuietFor, n
      <3> QED
        BY <1>7, <3>1, <3>2
    <2>2. CASE j = n + 1
      <3>1. i \in 1 .. n /\ stream[c][i] = <<"unsubscribed", id>>
        BY <1>1, <2>2
      <3>2. f[1] = "event" /\ topic[f[2]] = id
        BY <1>1, <2>2
      <3>3. Live(c, id)
        BY <1>5, <3>2 DEF Live
      <3> QED
        BY <1>2, <1>7, <3>1, <3>3 DEF Told, n
    <2> QED
      BY <1>1, <2>1, <2>2
  <1> QED
    BY <1>8, <1>9, <1>10, <1>11, <1>12

\* What joins a stream was due, or is no event.
LEMMA StreamSteps ==
  ASSUME IndInv, Plain, NEW c \in Clients,
         \/ \E e \in due[c] : Deliver(c, e)
         \/ \E f \in Notices : Notify(c, f)
         \/ Acknowledge(c)
  PROVE  IndInv'
  <1>1. PICK f \in Frames :
          /\ Send(c, f) /\ topic' = topic /\ subs' = subs /\ cut' = cut
          /\ \/ f \in Notices /\ due' = due /\ ack' = ack
             \/ \E e \in due[c] :
                  f = <<"event", e>> /\ due' = [due EXCEPT ![c] = @ \ {e}] /\ ack' = ack
             \/ f = ack[c] /\ f # NoAck /\ ack' = [ack EXCEPT ![c] = NoAck] /\ due' = due
    <2>1. \A e \in due[c] : <<"event", e>> \in Frames
      BY DEF IndInv, Types, Frames
    <2>2. ack[c] # NoAck => ack[c] \in Frames
      BY DEF IndInv, Types, Frames
    <2>3. \A f \in Notices : f \in Frames
      BY DEF Frames
    <2> QED
      BY <2>1, <2>2, <2>3 DEF Deliver, Notify, Acknowledge
  <1>2. stream' \in [Clients -> Seq(Frames)] /\ \A d \in Clients \ {c} : stream'[d] = stream[d]
    BY <1>1, Sending DEF IndInv
  <1>3. due' \in [Clients -> SUBSET (1 .. Len(topic))] /\ ack' \in [Clients -> Acks \cup {NoAck}]
    BY <1>1 DEF IndInv, Types
  <1>4. Types'
    BY <1>1, <1>2, <1>3 DEF IndInv, Types
  <1>5. \A d \in Clients \ {c} : due'[d] = due[d] /\ ack'[d] = ack[d]
    BY <1>1 DEF IndInv, Types
  <1>6. \A d \in Clients \ {c} : Sent(d)' /\ OnceFor(d)' /\ Told(d)' /\ Ended(d)' /\ QuietFor(d)'
    BY <1>1, <1>2, <1>5, Others
  <1>7. Sent(c)' /\ OnceFor(c)' /\ Told(c)' /\ Ended(c)' /\ QuietFor(c)'
    BY <1>1, Joins
  <1> QED
    BY <1>4, <1>6, <1>7 DEF IndInv

\* Subscribe, Unsubscribe and Cut, which send nothing.
LEMMA SubscribeStep ==
  ASSUME IndInv, NEW c \in Clients, NEW id \in Ids, Subscribe(c, id)
  PROVE  IndInv'
  <1>1. /\ topic' = topic /\ due' = due /\ stream' = stream /\ cut' = cut
        /\ ack[c] = NoAck /\ ack'[c] = <<"subscribed", id>> /\ subs'[c] = subs[c] \cup {id}
        /\ \A d \in Clients \ {c} : ack'[d] = ack[d] /\ subs'[d] = subs[d]
    BY DEF IndInv, Types, Subscribe
  <1>2. Types'
    BY DEF IndInv, Types, Subscribe, Acks
  <1>3. Sent(c) /\ OnceFor(c) /\ Told(c) /\ QuietFor(c)
    BY DEF IndInv
  <1>4. \A i \in 1 .. Len(stream[c]), x \in Ids :
          /\ Back(c, i, x) => Back(c, i, x)'
          /\ x = id => Back(c, i, x)'
    BY <1>1 DEF Back, NoAck
  <1>5. \A x \in Ids : Live(c, x)' => Live(c, x) \/ x = id
    BY <1>1 DEF Live
  <1>6. Sent(c)' /\ OnceFor(c)'
    BY <1>1, <1>3 DEF Sent, OnceFor
  <1>7. Told(c)'
    BY <1>1, <1>3, <1>4, <1>5 DEF Told
  <1>8. Ended(c)'
    BY <1>1 DEF Ended
  <1>9. QuietFor(c)'
    BY <1>1, <1>3, <1>4 DEF QuietFor
  <1>10. \A d \in Clients \ {c} : Sent(d)' /\ OnceFor(d)' /\ Told(d)' /\ Ended(d)' /\ QuietFor(d)'
    BY <1>1, Others
  <1> QED
    BY <1>2, <1>6, <1>7, <1>8, <1>9, <1>10 DEF IndInv

\* An unsubscribe takes effect when nothing is due.
LEMMA UnsubscribeStep ==
  ASSUME IndInv, NEW c \in Clients, NEW id \in Ids, Unsubscribe(c, id)
  PROVE  IndInv'
  <1>1. /\ topic' = topic /\ due' = due /\ stream' = stream /\ cut' = cut
        /\ ack[c] = NoAck /\ ack'[c] = <<"unsubscribed", id>> /\ subs'[c] = subs[c] \ {id}
        /\ due[c] = {}
        /\ \A d \in Clients \ {c} : ack'[d] = ack[d] /\ subs'[d] = subs[d]
    BY DEF IndInv, Types, Unsubscribe
  <1>2. Types'
    BY DEF IndInv, Types, Unsubscribe, Acks
  <1>3. Sent(c) /\ OnceFor(c) /\ Told(c) /\ QuietFor(c)
    BY DEF IndInv
  <1>4. \A i \in 1 .. Len(stream[c]), x \in Ids : Back(c, i, x) => Back(c, i, x)'
    BY <1>1 DEF Back, NoAck
  <1>5. \A x \in Ids : Live(c, x)' => Live(c, x) /\ x # id
    BY <1>1 DEF Live
  <1>6. Sent(c)' /\ OnceFor(c)'
    BY <1>1, <1>3 DEF Sent, OnceFor
  <1>7. Told(c)'
    BY <1>1, <1>3, <1>4, <1>5 DEF Told
  <1>8. Ended(c)'
    BY <1>1, <1>5 DEF Ended
  <1>9. QuietFor(c)'
    BY <1>1, <1>3, <1>4 DEF QuietFor
  <1>10. \A d \in Clients \ {c} : Sent(d)' /\ OnceFor(d)' /\ Told(d)' /\ Ended(d)' /\ QuietFor(d)'
    BY <1>1, Others
  <1> QED
    BY <1>2, <1>6, <1>7, <1>8, <1>9, <1>10 DEF IndInv

\* A client that is cut off starts again with nothing.
LEMMA CutStep ==
  ASSUME IndInv, NEW c \in Clients, Cut(c)
  PROVE  IndInv'
  <1>1. /\ topic' = topic /\ due'[c] = {} /\ stream'[c] = <<>>
        /\ ack'[c] = NoAck /\ subs'[c] = {}
        /\ \A d \in Clients \ {c} : /\ ack'[d] = ack[d] /\ subs'[d] = subs[d]
                                    /\ due'[d] = due[d] /\ stream'[d] = stream[d]
    BY DEF IndInv, Types, Cut
  <1>2. Types'
    BY DEF IndInv, Types, Cut
  <1>3. Sent(c)' /\ OnceFor(c)' /\ Told(c)' /\ QuietFor(c)'
    BY <1>1 DEF Sent, OnceFor, Told, QuietFor
  <1>4. Ended(c)'
    BY <1>1 DEF Ended, NoAck
  <1>5. \A d \in Clients \ {c} : Sent(d)' /\ OnceFor(d)' /\ Told(d)' /\ Ended(d)' /\ QuietFor(d)'
    BY <1>1, Others
  <1> QED
    BY <1>2, <1>3, <1>4, <1>5 DEF IndInv

------------------------------------------------------------------------------
\* No events, no subscriptions.
LEMMA InitInv == Init => IndInv
  BY DEF Init, IndInv, Types, Sent, OnceFor, Told, Ended, QuietFor, NoAck

\* Every step keeps the invariant.
LEMMA NextInv == Plain /\ IndInv /\ [Next]_vars => IndInv'
  <1> SUFFICES ASSUME Plain, IndInv, [Next]_vars PROVE IndInv'
    OBVIOUS
  <1>1. CASE UNCHANGED vars
    BY <1>1, Others DEF vars, IndInv, Types
  <1>2. ASSUME NEW id \in Ids, Publish(id) PROVE IndInv'
    BY <1>2, PublishStep
  <1>3. ASSUME NEW c \in Clients,
               \/ \E e \in due[c] : Deliver(c, e)
               \/ \E f \in Notices : Notify(c, f)
               \/ Acknowledge(c)
        PROVE  IndInv'
    BY <1>3, StreamSteps
  <1>4. ASSUME NEW c \in Clients, NEW id \in Ids, Subscribe(c, id) \/ Unsubscribe(c, id)
        PROVE  IndInv'
    BY <1>4, SubscribeStep, UnsubscribeStep
  <1>5. ASSUME NEW c \in Clients, Cut(c) PROVE IndInv'
    BY <1>5, CutStep
  <1> QED
    BY <1>1, <1>2, <1>3, <1>4, <1>5 DEF Next

\* The invariant holds in every reachable state.
LEMMA Invariance == Plain => (Spec => []IndInv)
  <1> SUFFICES ASSUME Plain PROVE Spec => []IndInv
    OBVIOUS
  <1>1. IndInv /\ [Next]_vars => IndInv'
    BY NextInv
  <1> QED
    BY <1>1, InitInv, PTL DEF Spec

\* A subscriber is never sent an event twice.
THEOREM NeverTwice == Plain => (Spec => []Once)
  <1>1. IndInv => Once
    BY DEF IndInv, OnceFor, Once
  <1> QED
    BY <1>1, Invariance, PTL

\* After the end of a subscription has been acknowledged, no event of the channel
\* follows, until the client subscribes again.
THEOREM AlwaysQuiet == Plain => (Spec => []Quiet)
  <1> SUFFICES ASSUME Plain PROVE Spec => []Quiet
    OBVIOUS
  <1>1. IndInv => Quiet
    <2> SUFFICES ASSUME IndInv, NEW c \in Clients,
                        NEW i \in 1 .. Len(stream[c]), NEW j \in 1 .. Len(stream[c]),
                        i < j, stream[c][i][1] = "unsubscribed", stream[c][j][1] = "event",
                        topic[stream[c][j][2]] = stream[c][i][2]
                 PROVE  Back(c, i, stream[c][i][2])
      BY DEF Quiet, Back
    <2>1. stream[c][i] \in Acks
      <3>1. stream[c][i] \in Frames
        BY DEF IndInv, Types
      <3> QED
        BY <3>1 DEF Frames, Plain
    <2>2. stream[c][i][2] \in Ids /\ stream[c][i] = <<"unsubscribed", stream[c][i][2]>>
      BY <2>1 DEF Acks
    <2> QED
      BY <2>2 DEF IndInv, QuietFor
  <1> QED
    BY <1>1, Invariance, PTL
==============================================================================
