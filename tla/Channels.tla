---- MODULE Channels ----
(***************************************************************************)
(* Nodes that connect to each other: the handshake, the registry of active *)
(* channels, and the message queue of each channel with its requests.      *)
(* Every connection has two ends, a channel each.  A channel's messages    *)
(* are handled by the thread of its event loop; the timer of its queue,    *)
(* its pings and the node's sync run on threads of their own.              *)
(***************************************************************************)
EXTENDS MessageFraming, FiniteSets, TLC

CONSTANTS Nodes,
          Conns,            \* bound: the connections that are dialled: dialler, acceptor, how manieth
          MaxInbound,       \* netMaxInboundConnections
          MaxQueue,         \* netMaxMessageQueueSize
          BlockSizes,       \* sizes of the packets that carry blocks
          MaxRequests,      \* bound: blocks that are asked for
          MaxPings,         \* bound: pings
          MaxBreaks,        \* bound: connections that break
          NoConn            \* not a connection

ASSUME ChannelsAssumption ==
    /\ Conns \subseteq Nodes \X Nodes \X Nat /\ \A c \in Conns : c[1] # c[2]
    /\ NoConn \notin Conns
    /\ {MaxInbound, MaxQueue} \subseteq Nat \ {0} /\ BlockSizes \subseteq Nat \ {0}

VARIABLES channel,      \* the channel at each end
          wire,         \* the messages on their way to each end
          channels,     \* ChannelManager.channels of each node, by remote address
          active,       \* ChannelManager.activeChannels of each node, by peer
          sending,      \* the idle channel that a node's sync has chosen for a request
          asked,        \* how many blocks were asked for
          pinged,       \* how many pings were sent
          broken,       \* connections that broke
          doubled,      \* history: nodes that had two active channels to a peer
          unanswered    \* history: the ends whose request its receiver gave no answer to

vars == <<channel, wire, channels, active, sending, asked, pinged, broken, doubled, unanswered>>

Dialer(c) == c[1]
Acceptor(c) == c[2]
Ends == {e \in Conns \X Nodes : e[2] \in {Dialer(e[1]), Acceptor(e[1])}}
IsInbound(e) == e[2] = Acceptor(e[1])
Peer(e) == IF IsInbound(e) THEN Dialer(e[1]) ELSE Acceptor(e[1])
OtherEnd(e) == <<e[1], Peer(e)>>

\* An outbound channel goes to the address its peer listens on, an inbound one comes
\* from an address of its own.
Address(e) == IF IsInbound(e) THEN e[1] ELSE <<Peer(e)>>

NewChannel == [life |-> "none", initialized |-> FALSE, isActive |-> FALSE,
               isHandshakeDone |-> FALSE, at |-> "idle", rejected |-> FALSE,
               requests |-> <<>>, responses |-> <<>>]

Init ==
    /\ channel = [e \in Ends |-> NewChannel]
    /\ wire = [e \in Ends |-> <<>>]
    /\ channels = [n \in Nodes |-> [a \in {} |-> NoConn]]
    /\ active = [n \in Nodes |-> [p \in Nodes |-> NoConn]]
    /\ sending = [n \in Nodes |-> NoConn]
    /\ asked = 0 /\ pinged = 0
    /\ broken = {} /\ doubled = {} /\ unanswered = {}

-----------------------------------------------------------------------------
(* MessageQueue. *)

Request(code, id) == [code |-> code, id |-> id]
Answers == [HELLO |-> "WORLD", PING |-> "PONG", GET_BLOCK |-> "BLOCK"]
IsRequest(m) == m.code \in DOMAIN Answers
AnswerTo(m) == [code |-> Answers[m.code], id |-> m.id]

QueueSize(ch) == Len(ch.requests) + Len(ch.responses)
IsIdle(ch) == QueueSize(ch) = 0

Enqueued(ch, m) ==
    IF IsRequest(m)
    THEN [ch EXCEPT !.requests = Append(@, [msg |-> m, sent |-> FALSE, isAnswered |-> FALSE])]
    ELSE [ch EXCEPT !.responses = Append(@, m)]

\* What is written while the connection stands gets on the other end's wire.
PutAll(w, e, messages) ==
    IF e[1] \in broken \/ channel[OtherEnd(e)].life = "closed" THEN w
    ELSE [w EXCEPT ![OtherEnd(e)] = @ \o messages]

\* disconnect: the queue stops, DISCONNECT is written past it, and the channel is closed
\* by its event loop.
Disconnected(ch) == [ch EXCEPT !.initialized = FALSE, !.life = "closing"]
Disconnect == Request("DISCONNECT", 0)

\* sendMessage, by a thread that leaves the channel as ch and the wires as w otherwise.
SendMessage(e, ch, w, m) ==
    IF ~ch.initialized
    THEN channel' = [channel EXCEPT ![e] = ch] /\ wire' = w
    ELSE IF QueueSize(ch) >= MaxQueue
    THEN channel' = [channel EXCEPT ![e] = Disconnected(ch)] /\ wire' = PutAll(w, e, <<Disconnect>>)
    ELSE channel' = [channel EXCEPT ![e] = Enqueued(ch, m)] /\ wire' = w

\* onMessageReceived: a message of the class that answers the head of the requests.
Answered(ch, m) ==
    IF ch.requests # <<>> /\ m.code = Answers[Head(ch.requests).msg.code]
    THEN [ch EXCEPT !.requests[1].isAnswered = TRUE]
    ELSE ch

\* removeAnsweredMessage.
RemoveAnswered(requests) ==
    IF requests # <<>> /\ Head(requests).isAnswered THEN Tail(requests) ELSE requests

Outgoing(ch) == IF ch.responses = <<>> THEN <<>> ELSE <<Head(ch.responses)>>

\* Mutant: the head is written at every tick until it is answered.
UnsentAgain(requests) == IF requests # <<>> THEN <<Head(requests).msg>> ELSE <<>>

\* sendToWire: without retries, a request is written once.
Unsent(requests) ==
    IF requests # <<>> /\ ~Head(requests).sent THEN <<Head(requests).msg>> ELSE <<>>

\* Whether a response may be lost: a block's packet, of a size that its frames do not carry.
Drops(response) ==
    IF response # <<>> /\ response[1].code = "BLOCK" THEN {~Arrives(size) : size \in BlockSizes}
    ELSE {FALSE}

\* nudgeQueue: the answered request leaves, one response is written, and the head of the
\* requests unless it was.  Nothing to do changes nothing.
Nudge(e) ==
    LET ch == channel[e]
        requests == RemoveAnswered(ch.requests)
        response == Outgoing(ch)
        request == Unsent(requests) IN
    /\ ch.initialized /\ (requests # ch.requests \/ response # <<>> \/ request # <<>>)
    /\ \E dropped \in Drops(response) :
        /\ wire' = PutAll(wire, e, (IF dropped THEN <<>> ELSE response) \o request)
        /\ unanswered' = IF dropped THEN unanswered \cup {OtherEnd(e)} ELSE unanswered
    /\ channel' = [channel EXCEPT
         ![e].requests = [i \in DOMAIN requests |-> [requests[i] EXCEPT !.sent = @ \/ i = 1]],
         ![e].responses = IF @ = <<>> THEN @ ELSE Tail(@)]
    /\ UNCHANGED <<channels, active, sending, asked, pinged, broken, doubled>>

-----------------------------------------------------------------------------
(* ChannelManager. *)

\* Mutant: the peer's entry goes with any channel to it.
RemovedAnyway(e) == [active EXCEPT ![e[2]][Peer(e)] = NoConn]

\* The peer's entry goes with a channel that was active, whichever channel is registered.
Removed(e) ==
    IF channel[e].isActive THEN [active EXCEPT ![e[2]][Peer(e)] = NoConn] ELSE active

\* The channel of e is closed, and removed from the registry.
Closed(e, ch) ==
    /\ channel' = [channel EXCEPT ![e] =
         [ch EXCEPT !.life = "closed", !.initialized = FALSE, !.isActive = FALSE, !.at = "idle",
                    !.requests = <<>>, !.responses = <<>>]]
    /\ active' = Removed(e)
    /\ channels' = [channels EXCEPT ![e[2]] = [a \in DOMAIN @ \ {Address(e)} |-> @[a]]]

Registered(e) == [channels EXCEPT ![e[2]] = (Address(e) :> e[1]) @@ @]

\* onChannelActive.
MakeActive(e, ch) ==
    /\ channel' = [channel EXCEPT ![e] = [ch EXCEPT !.isActive = TRUE]]
    /\ active' = [active EXCEPT ![e[2]][Peer(e)] = e[1]]
    /\ doubled' = IF \E d \in Ends \ {e} : d[2] = e[2] /\ Peer(d) = Peer(e) /\ channel[d].isActive
                  THEN doubled \cup {e[2]} ELSE doubled

-----------------------------------------------------------------------------
(* Connections come and go. *)

\* An earlier dial is over, by success or by the idle timeout, which RECONNECT_WAIT equals.
Over(c) == channel[<<c, Dialer(c)>>].isHandshakeDone \/ channel[<<c, Dialer(c)>>].life = "closed"

Fresh(e) == channel[e].life = "none"
Alive(e) == channel[e].life \in {"open", "closing"}

\* doConnect, and what the new channel does when it is connected: the dialler greets.
Dial(c) ==
    LET e == <<c, Dialer(c)>> IN
    /\ Fresh(e) /\ active[e[2]][Peer(e)] = NoConn
    /\ \A d \in Conns : d[1] = c[1] /\ d[2] = c[2] /\ d[3] < c[3] => Over(d)
    /\ channel' = [channel EXCEPT ![e] =
         Enqueued([@ EXCEPT !.life = "open", !.initialized = TRUE], Request("HELLO", 0))]
    /\ channels' = Registered(e)
    /\ UNCHANGED <<wire, active, sending, asked, pinged, broken, doubled, unanswered>>

\* An inbound channel counts itself among the channels that must not be too many.
Accept(c) ==
    LET e == <<c, Acceptor(c)>>
        ch == [channel[e] EXCEPT !.life = "open", !.initialized = TRUE] IN
    /\ Fresh(e) /\ Alive(OtherEnd(e)) /\ c \notin broken
    /\ IF Cardinality(DOMAIN Registered(e)[e[2]]) < MaxInbound
       THEN /\ channel' = [channel EXCEPT ![e] = ch]
            /\ channels' = Registered(e)
            /\ UNCHANGED <<wire, active>>
       ELSE Closed(e, ch) /\ wire' = PutAll(wire, e, <<Disconnect>>)
    /\ UNCHANGED <<sending, asked, pinged, broken, doubled, unanswered>>

\* The network loses a connection and what is under way; each end notices for itself.
Break(c) ==
    /\ c \notin broken /\ Alive(<<c, Dialer(c)>>) /\ Cardinality(broken) < MaxBreaks
    /\ broken' = broken \cup {c}
    /\ wire' = [e \in Ends |-> IF e[1] = c THEN <<>> ELSE wire[e]]
    /\ UNCHANGED <<channel, channels, active, sending, asked, pinged, doubled, unanswered>>

CloseFrame == UNCHANGED <<sending, asked, pinged, broken, doubled, unanswered>>

\* channelInactive: the other end is closed or out of reach.
PeerClosed(e) ==
    /\ Alive(e) /\ channel[e].at = "idle"
    /\ e[1] \in broken \/ channel[OtherEnd(e)].life = "closed"
    /\ Closed(e, channel[e]) /\ wire' = [wire EXCEPT ![e] = <<>>]
    /\ CloseFrame

\* The event loop gets to a close that another thread asked for.
CloseLater(e) ==
    /\ channel[e].life = "closing" /\ channel[e].at = "idle"
    /\ Closed(e, channel[e]) /\ wire' = [wire EXCEPT ![e] = <<>>]
    /\ CloseFrame

-----------------------------------------------------------------------------
(* SemuxP2pHandler.channelRead0, on the thread of the channel's event loop. *)

Arriving(e, codes) ==
    /\ Alive(e) /\ channel[e].at = "idle"
    /\ wire[e] # <<>> /\ Head(wire[e]).code \in codes

Rest(e) == [wire EXCEPT ![e] = Tail(@)]
Nothing(e) == [wire EXCEPT ![e] = <<>>]
Reading(e) == Answered(channel[e], Head(wire[e]))
ReadFrame == UNCHANGED <<sending, asked, pinged, broken>>

\* Mutant: a peer counts as connected already when its channel is.
DuplicatedEarly(e) == \E d \in Ends \ {e} : d[2] = e[2] /\ Peer(d) = Peer(e) /\ Alive(d)

\* isActivePeer.
Duplicated(e) == active[e[2]][Peer(e)] # NoConn

\* HELLO: a duplicate is disconnected; the peer is registered; WORLD is queued, and the
\* handshake is done.
ReceiveHello(e) ==
    /\ Arriving(e, {"HELLO"})
    /\ IF Duplicated(e)
       THEN /\ Closed(e, [channel[e] EXCEPT !.rejected = TRUE])
            /\ wire' = PutAll(Nothing(e), e, <<Disconnect>>)
       ELSE /\ channel' = [channel EXCEPT ![e].at = "checked"] /\ wire' = Rest(e)
            /\ UNCHANGED <<channels, active>>
    /\ ReadFrame /\ UNCHANGED <<doubled, unanswered>>

Activate(e) ==
    /\ channel[e].at = "checked"
    /\ MakeActive(e, [channel[e] EXCEPT !.at = "active"])
    /\ ReadFrame /\ UNCHANGED <<wire, channels, unanswered>>

Greet(e) ==
    /\ channel[e].at = "active"
    /\ SendMessage(e, [channel[e] EXCEPT !.at = "idle", !.isHandshakeDone = TRUE], wire, Request("WORLD", 0))
    /\ ReadFrame /\ UNCHANGED <<channels, active, doubled, unanswered>>

\* WORLD: the peer is registered, whatever else is registered for it.
ReceiveWorld(e) ==
    /\ Arriving(e, {"WORLD"})
    /\ MakeActive(e, [Reading(e) EXCEPT !.isHandshakeDone = TRUE])
    /\ wire' = Rest(e)
    /\ ReadFrame /\ UNCHANGED <<channels, unanswered>>

\* PING is answered at any time, GET_BLOCK only after the handshake.
ReceiveRequest(e) ==
    /\ Arriving(e, {"PING", "GET_BLOCK"})
    /\ LET m == Head(wire[e]) IN
       IF m.code = "PING" \/ channel[e].isHandshakeDone
       THEN SendMessage(e, Reading(e), Rest(e), AnswerTo(m)) /\ UNCHANGED unanswered
       ELSE /\ channel' = [channel EXCEPT ![e] = Reading(e)] /\ wire' = Rest(e)
            /\ unanswered' = unanswered \cup {OtherEnd(e)}
    /\ ReadFrame /\ UNCHANGED <<channels, active, doubled>>

ReceiveAnswer(e) ==
    /\ Arriving(e, {"PONG", "BLOCK"})
    /\ channel' = [channel EXCEPT ![e] = Reading(e)] /\ wire' = Rest(e)
    /\ ReadFrame /\ UNCHANGED <<channels, active, doubled, unanswered>>

ReceiveDisconnect(e) ==
    /\ Arriving(e, {"DISCONNECT"})
    /\ Closed(e, channel[e]) /\ wire' = Nothing(e)
    /\ CloseFrame

\* onMessageReceived looks at the head twice.  The timer may take it away in between, an
\* answered one that is the last: the handler throws and closes the channel.
ReceiveThrows(e) ==
    /\ Alive(e) /\ channel[e].at = "idle" /\ wire[e] # <<>>
    /\ channel[e].initialized
    /\ Len(channel[e].requests) = 1 /\ RemoveAnswered(channel[e].requests) = <<>>
    /\ Closed(e, channel[e]) /\ wire' = Nothing(e)
    /\ CloseFrame

-----------------------------------------------------------------------------
(* The node's other threads. *)

\* download() of the sync: an idle channel is chosen, then the request is queued.
ChooseIdle(n) ==
    /\ sending[n] = NoConn /\ asked < MaxRequests
    /\ \E p \in Nodes :
        /\ active[n][p] # NoConn /\ IsIdle(channel[<<active[n][p], n>>])
        /\ sending' = [sending EXCEPT ![n] = active[n][p]]
    /\ asked' = asked + 1
    /\ UNCHANGED <<channel, wire, channels, active, pinged, broken, doubled, unanswered>>

AskForBlock(n) ==
    /\ sending[n] # NoConn
    /\ LET e == <<sending[n], n>> IN
       SendMessage(e, channel[e], wire, Request("GET_BLOCK", asked))
    /\ sending' = [sending EXCEPT ![n] = NoConn]
    /\ UNCHANGED <<channels, active, asked, pinged, broken, doubled, unanswered>>

\* The periodic requests of a channel, PING and GET_NODES, are alike.
Ping(e) ==
    /\ channel[e].isHandshakeDone /\ channel[e].initialized /\ pinged < MaxPings
    /\ SendMessage(e, channel[e], wire, Request("PING", pinged + 1))
    /\ pinged' = pinged + 1
    /\ UNCHANGED <<channels, active, sending, asked, broken, doubled, unanswered>>

-----------------------------------------------------------------------------

Handles(e) ==
    \/ ReceiveHello(e) \/ Activate(e) \/ Greet(e) \/ ReceiveWorld(e) \/ ReceiveRequest(e)
    \/ ReceiveAnswer(e) \/ ReceiveDisconnect(e) \/ PeerClosed(e) \/ CloseLater(e)

Next ==
    \/ \E c \in Conns : Dial(c) \/ Accept(c) \/ Break(c)
    \/ \E e \in Ends : Handles(e) \/ ReceiveThrows(e) \/ Nudge(e) \/ Ping(e)
    \/ \E n \in Nodes : ChooseIdle(n) \/ AskForBlock(n)

Spec == Init /\ [][Next]_vars

-----------------------------------------------------------------------------
(* Properties. *)

\* The registry of a node and its channels: who is registered has an open channel that
\* completed its handshake, and who has one is registered, unless the node once had two
\* active channels to the peer (crossed dials): the end of one unregisters the other.
RegistryExact ==
    \A n \in Nodes : \A p \in Nodes \ {n} :
        LET live == {c \in Conns : <<c, n>> \in Ends /\ channel[<<c, n>>].isActive
                                   /\ Alive(<<c, n>>) /\ Peer(<<c, n>>) = p} IN
        /\ active[n][p] # NoConn => active[n][p] \in live
        /\ n \notin doubled /\ live # {} => live = {active[n][p]}

\* Dials that cross: nodes that dial each other never refuse all connections as duplicates,
\* each for the sake of the other's.
NeverAllRefused ==
    LET dialled == {c \in Conns : ~Fresh(<<c, Dialer(c)>>)} IN
    dialled # {} => \E c \in dialled : ~channel[<<c, Acceptor(c)>>].rejected

Count(messages, m) == Cardinality({i \in DOMAIN messages : messages[i] = m})

\* How often a request of e, or its answer, is under way: on the wire, in the peer's hands,
\* queued there, on the wire back.
UnderWay(e, m) ==
    LET peer == channel[OtherEnd(e)] IN
    Count(wire[OtherEnd(e)], m) + Count(peer.responses, AnswerTo(m)) + Count(wire[e], AnswerTo(m))
        + (IF m.code = "HELLO" /\ peer.at # "idle" THEN 1 ELSE 0)

\* One request at a time, never repeated: while a connection stands, the request at the head
\* is under way exactly once from when it was sent until it is answered, so that no answer
\* can be taken for another's, and none stays out.  The exception is a request that the peer
\* dropped: a GET_BLOCK that overtook WORLD, or one whose block the frames do not carry.
\* It stays at the head for ever.
RequestUnderWay ==
    \A e \in Ends :
        channel[e].initialized /\ channel[OtherEnd(e)].initialized /\ e[1] \notin broken =>
            \A i \in DOMAIN channel[e].requests :
                LET r == channel[e].requests[i] IN
                UnderWay(e, r.msg) = IF i = 1 /\ r.sent /\ ~r.isAnswered /\ e \notin unanswered
                                     THEN 1 ELSE 0
====
