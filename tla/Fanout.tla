-------------------------------- MODULE Fanout --------------------------------
(****************************************************************************)
(* What the websocket layer promises, without its locks, queues and         *)
(* goroutines.  Every client reads one stream of frames.  An event is due   *)
(* to the clients that are subscribed at the moment of its publication, and *)
(* joins the stream of each once, at any later moment.  A subscription      *)
(* changes first and is acknowledged in the stream afterwards; it ends only *)
(* when no event is due.  A client that cannot be served is cut off, and    *)
(* what it would still have been sent is void.                              *)
(****************************************************************************)
EXTENDS Integers, Sequences

CONSTANTS
  Clients,
  Ids,      \* channels a client may name
  Notices   \* frames that say nothing of a channel or an event

NoAck == <<"none">>

VARIABLES
  topic,   \* the channel of each event, in the order of publication
  subs,    \* the channels each client is subscribed to
  due,     \* events that each client has still to be sent
  ack,     \* the acknowledgement each client has still to be sent
  stream,  \* the frames each client is sent
  cut      \* clients that have been cut off

vars == <<topic, subs, due, ack, stream, cut>>

Init ==
  /\ topic = <<>>
  /\ subs = [c \in Clients |-> {}]
  /\ due = [c \in Clients |-> {}]
  /\ ack = [c \in Clients |-> NoAck]
  /\ stream = [c \in Clients |-> <<>>]
  /\ cut = {}

Publish(id) ==
  /\ topic' = Append(topic, id)
  /\ due' = [c \in Clients |-> IF id \in subs[c] THEN due[c] \cup {Len(topic')} ELSE due[c]]
  /\ UNCHANGED <<subs, ack, stream, cut>>

Send(c, f) == stream' = [stream EXCEPT ![c] = Append(@, f)]

Deliver(c, e) ==
  /\ e \in due[c]
  /\ due' = [due EXCEPT ![c] = @ \ {e}]
  /\ Send(c, <<"event", e>>)
  /\ UNCHANGED <<topic, subs, ack, cut>>

Notify(c, f) ==
  /\ c \notin cut
  /\ Send(c, f)
  /\ UNCHANGED <<topic, subs, due, ack, cut>>

Subscribe(c, id) ==
  /\ c \notin cut /\ ack[c] = NoAck
  /\ subs' = [subs EXCEPT ![c] = @ \cup {id}]
  /\ ack' = [ack EXCEPT ![c] = <<"subscribed", id>>]
  /\ UNCHANGED <<topic, due, stream, cut>>

Unsubscribe(c, id) ==
  /\ c \notin cut /\ ack[c] = NoAck /\ due[c] = {}
  /\ subs' = [subs EXCEPT ![c] = @ \ {id}]
  /\ ack' = [ack EXCEPT ![c] = <<"unsubscribed", id>>]
  /\ UNCHANGED <<topic, due, stream, cut>>

Acknowledge(c) ==
  /\ ack[c] # NoAck
  /\ ack' = [ack EXCEPT ![c] = NoAck]
  /\ Send(c, ack[c])
  /\ UNCHANGED <<topic, subs, due, cut>>

Cut(c) ==
  /\ cut' = cut \cup {c}
  /\ subs' = [subs EXCEPT ![c] = {}]
  /\ due' = [due EXCEPT ![c] = {}]
  /\ ack' = [ack EXCEPT ![c] = NoAck]
  /\ stream' = [stream EXCEPT ![c] = <<>>]
  /\ UNCHANGED topic

Next ==
  \/ \E id \in Ids : Publish(id)
  \/ \E c \in Clients :
       \/ \E e \in due[c] : Deliver(c, e)
       \/ \E f \in Notices : Notify(c, f)
       \/ \E id \in Ids : Subscribe(c, id) \/ Unsubscribe(c, id)
       \/ Acknowledge(c)
       \/ Cut(c)

Spec == Init /\ [][Next]_vars

------------------------------------------------------------------------------
(* Properties, proved in FanoutProofs *)

\* No event is in a stream twice.
Once ==
  \A c \in Clients : \A i, j \in 1 .. Len(stream[c]) :
    stream[c][i][1] = "event" /\ stream[c][i] = stream[c][j] => i = j

\* Between the "unsubscribed" of a channel and its next "subscribed" the client
\* is sent no event of the channel.
Quiet ==
  \A c \in Clients : \A i, j \in 1 .. Len(stream[c]) :
    LET S == stream[c] IN
    i < j /\ S[i][1] = "unsubscribed" /\ S[j][1] = "event" /\ topic[S[j][2]] = S[i][2]
      => \/ \E k \in i + 1 .. Len(S) : S[k] = <<"subscribed", S[i][2]>>
         \/ ack[c] = <<"subscribed", S[i][2]>>
==============================================================================
