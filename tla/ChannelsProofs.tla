---- MODULE ChannelsProofs ----
(* The registry of a node agrees with its channels; crossed dials do not refuse each other;
   a request is under way once.  Each action but a few changes one channel and the wires it
   reads and writes: a lemma per action says what it does (Stepped), and one lemma that this
   keeps the invariant. *)
EXTENDS Channels, FiniteSetTheorems, SequenceTheorems, TLAPS

\* A channel has its fields and no others.
IsChannel(ch) ==
    ch = [life |-> ch.life, initialized |-> ch.initialized, isActive |-> ch.isActive,
          isHandshakeDone |-> ch.isHandshakeDone, at |-> ch.at, rejected |-> ch.rejected,
          requests |-> ch.requests, responses |-> ch.responses]

AreChannels ==
    /\ channel = [e \in Ends |-> channel[e]] /\ \A e \in Ends : IsChannel(channel[e])
    /\ active \in [Nodes -> [Nodes -> Conns \cup {NoConn}]]

\* Who is active, or in the middle of a HELLO, is connected.
Connected == \A e \in Ends : channel[e].isActive \/ channel[e].at # "idle" => Alive(e)

Entered == \A n, p \in Nodes : active[n][p] # NoConn =>
    LET e == <<active[n][p], n>> IN e \in Ends /\ Peer(e) = p /\ channel[e].isActive

\* Without a second active channel to a peer, an active one is registered.
Entries == \A e \in Ends : channel[e].isActive /\ e[2] \notin doubled =>
    active[e[2]][Peer(e)] = e[1]

Registry == AreChannels /\ Connected /\ Entered /\ Entries

----------------------------------------------------------------------------
LEMMA EndsAre ==
    ASSUME NEW e \in Ends
    PROVE  /\ e[1] \in Conns /\ e[1] # NoConn /\ e[2] \in Nodes /\ Peer(e) \in Nodes
           /\ e = <<e[1], e[2]>>
BY ChannelsAssumption DEF Ends, Peer, IsInbound, Dialer, Acceptor

\* Steps that leave the registry alone, and who is active.
Quiet ==
    /\ UNCHANGED <<active, doubled>> /\ AreChannels'
    /\ \A e \in Ends :
        /\ channel'[e].isActive = channel[e].isActive
        /\ Alive(e) => Alive(e)'
        /\ channel'[e].at = channel[e].at \/ Alive(e)'

\* The channel of e becomes x.
Becomes(e, x) ==
    /\ AreChannels' /\ channel'[e] = x
    /\ \A d \in Ends \ {e} : channel'[d] = channel[d]

Ended(e) ==
    /\ \E x : Becomes(e, x) /\ ~x.isActive /\ x.at = "idle"
    /\ active' = Removed(e) /\ UNCHANGED doubled

Activated(e) ==
    /\ \E x : /\ Becomes(e, x) /\ x.isActive = TRUE /\ x.life = channel[e].life /\ Alive(e)
    /\ active' = [active EXCEPT ![e[2]][Peer(e)] = e[1]]
    /\ doubled' = IF \E d \in Ends \ {e} : d[2] = e[2] /\ Peer(d) = Peer(e) /\ channel[d].isActive
                  THEN doubled \cup {e[2]} ELSE doubled

LEMMA QuietKeeps ==
    ASSUME Registry, Quiet
    PROVE  Registry'
<1>1. AreChannels'
    BY DEF Quiet
<1>2. Connected'
    BY DEF Quiet, Registry, Connected
<1>3. Entered' /\ Entries'
    BY DEF Quiet, Registry, Entered, Entries
<1> QED BY <1>1, <1>2, <1>3 DEF Registry

LEMMA EndedKeeps ==
    ASSUME Registry, NEW e \in Ends, Ended(e)
    PROVE  Registry'
<1>1. PICK x : Becomes(e, x) /\ ~x.isActive /\ x.at = "idle"
    BY DEF Ended
<1>2. /\ AreChannels' /\ ~channel'[e].isActive /\ channel'[e].at = "idle"
      /\ \A d \in Ends \ {e} : channel'[d] = channel[d]
      /\ doubled' = doubled
    BY <1>1 DEF Becomes, Ended
<1>3. active \in [Nodes -> [Nodes -> Conns \cup {NoConn}]]
    BY DEF Registry, AreChannels
<1>4. ASSUME NEW n \in Nodes, NEW p \in Nodes
      PROVE  active'[n][p] = IF channel[e].isActive /\ n = e[2] /\ p = Peer(e) THEN NoConn
                             ELSE active[n][p]
    BY <1>3, EndsAre DEF Ended, Removed
<1>5. Connected'
    BY <1>2 DEF Registry, Connected, Alive
<1>6. Entered'
    <2> SUFFICES ASSUME NEW n \in Nodes, NEW p \in Nodes, active'[n][p] # NoConn
                 PROVE  LET d == <<active'[n][p], n>>
                        IN  d \in Ends /\ Peer(d) = p /\ channel'[d].isActive
        BY DEF Entered
    <2>1. active'[n][p] = active[n][p] /\ ~(channel[e].isActive /\ n = e[2] /\ p = Peer(e))
        BY <1>4
    <2> DEFINE d == <<active[n][p], n>>
    <2>2. d \in Ends /\ Peer(d) = p /\ channel[d].isActive /\ d[2] = n
        BY <2>1 DEF Registry, Entered
    <2> HIDE DEF d
    <2>3. d # e
        BY <2>1, <2>2
    <2>4. channel'[d].isActive
        BY <1>2, <2>2, <2>3
    <2> QED BY <2>1, <2>2, <2>4 DEF d
<1>7. Entries'
    <2> SUFFICES ASSUME NEW d \in Ends, channel'[d].isActive, d[2] \notin doubled
                 PROVE  active'[d[2]][Peer(d)] = d[1]
        BY <1>2 DEF Entries
    <2>1. d # e /\ channel[d].isActive
        BY <1>2
    <2>2. active[d[2]][Peer(d)] = d[1]
        BY <2>1 DEF Registry, Entries
    <2>3. ~(channel[e].isActive /\ d[2] = e[2] /\ Peer(d) = Peer(e))
        BY <2>1, <2>2, EndsAre DEF Registry, Entries
    <2> QED BY <1>4, <2>2, <2>3, EndsAre
<1> QED BY <1>2, <1>5, <1>6, <1>7 DEF Registry

LEMMA ActivatedKeeps ==
    ASSUME Registry, NEW e \in Ends, Activated(e)
    PROVE  Registry'
<1>1. PICK x : Becomes(e, x) /\ x.isActive = TRUE /\ x.life = channel[e].life /\ Alive(e)
    BY DEF Activated
<1>2. /\ AreChannels' /\ channel'[e].isActive /\ channel'[e].life = channel[e].life
      /\ \A d \in Ends \ {e} : channel'[d] = channel[d]
    BY <1>1 DEF Becomes
<1>3. active \in [Nodes -> [Nodes -> Conns \cup {NoConn}]]
    BY DEF Registry, AreChannels
<1>4. ASSUME NEW n \in Nodes, NEW p \in Nodes
      PROVE  active'[n][p] = IF n = e[2] /\ p = Peer(e) THEN e[1] ELSE active[n][p]
    BY <1>3, EndsAre DEF Activated
<1>5. Connected'
    BY <1>1, <1>2 DEF Registry, Connected, Alive
<1>6. Entered'
    <2> SUFFICES ASSUME NEW n \in Nodes, NEW p \in Nodes, active'[n][p] # NoConn
                 PROVE  LET d == <<active'[n][p], n>>
                        IN  d \in Ends /\ Peer(d) = p /\ channel'[d].isActive
        BY DEF Entered
    <2>1. CASE n = e[2] /\ p = Peer(e)
        BY <1>2, <1>4, <2>1, EndsAre
    <2>2. CASE ~(n = e[2] /\ p = Peer(e))
        <3> DEFINE d == <<active[n][p], n>>
        <3>1. active'[n][p] = active[n][p]
            BY <1>4, <2>2
        <3>2. d \in Ends /\ Peer(d) = p /\ channel[d].isActive
            BY <3>1 DEF Registry, Entered
        <3> HIDE DEF d
        <3>3. channel'[d].isActive
            BY <1>2, <3>2
        <3> QED BY <3>1, <3>2, <3>3 DEF d
    <2> QED BY <2>1, <2>2
<1>7. Entries'
    <2> SUFFICES ASSUME NEW d \in Ends, channel'[d].isActive, d[2] \notin doubled'
                 PROVE  active'[d[2]][Peer(d)] = d[1]
        BY DEF Entries
    <2>1. CASE d = e
        BY <1>4, <2>1, EndsAre
    <2>2. CASE d # e
        <3>1. channel[d].isActive
            BY <1>2, <2>2
        <3>2. d[2] \notin doubled /\ ~(d[2] = e[2] /\ Peer(d) = Peer(e))
            BY <2>2, <3>1 DEF Activated
        <3> QED BY <1>4, <3>1, <3>2, EndsAre DEF Registry, Entries
    <2> QED BY <2>1, <2>2
<1> QED BY <1>2, <1>5, <1>6, <1>7 DEF Registry

----------------------------------------------------------------------------
\* What the operators on a channel leave alone.
Alike(x, ch) == /\ IsChannel(x) /\ x.isActive = ch.isActive /\ x.at = ch.at
                /\ x.life = ch.life

LEMMA EnqueuedIs ==
    ASSUME NEW ch, IsChannel(ch), NEW m
    PROVE  Alike(Enqueued(ch, m), ch)
<1>1. PICK r : r = Append(ch.requests, [msg |-> m, sent |-> FALSE, isAnswered |-> FALSE])
    OBVIOUS
<1>2. PICK q : q = Append(ch.responses, m)
    OBVIOUS
<1>3. Enqueued(ch, m) = IF IsRequest(m) THEN [ch EXCEPT !.requests = r] ELSE [ch EXCEPT !.responses = q]
    BY <1>1, <1>2 DEF Enqueued
<1> QED BY <1>3 DEF Alike, IsChannel

LEMMA AnsweredIs ==
    ASSUME NEW ch, IsChannel(ch), NEW m
    PROVE  Alike(Answered(ch, m), ch)
<1>1. PICK r : r = [ch.requests EXCEPT ![1].isAnswered = TRUE]
    OBVIOUS
<1>2. Answered(ch, m) = ch \/ Answered(ch, m) = [ch EXCEPT !.requests = r]
    BY <1>1 DEF Answered
<1> QED BY <1>2 DEF Alike, IsChannel

LEMMA DisconnectedIs ==
    ASSUME NEW ch, IsChannel(ch)
    PROVE  LET x == Disconnected(ch) IN
           IsChannel(x) /\ x.isActive = ch.isActive /\ x.at = ch.at /\ x.life = "closing"
<1>1. PICK x : x = Disconnected(ch)
    OBVIOUS
<1>2. x = [life |-> "closing", initialized |-> FALSE, isActive |-> ch.isActive,
           isHandshakeDone |-> ch.isHandshakeDone, at |-> ch.at, rejected |-> ch.rejected,
           requests |-> ch.requests, responses |-> ch.responses]
    BY ONLY <1>1, IsChannel(ch) DEF Disconnected, IsChannel
<1> QED BY <1>1, <1>2 DEF IsChannel

\* A new record for the channel of e.
LEMMA BecomesIs ==
    ASSUME AreChannels, NEW e \in Ends, NEW x, IsChannel(x), channel' = [channel EXCEPT ![e] = x],
           active' \in [Nodes -> [Nodes -> Conns \cup {NoConn}]]
    PROVE  Becomes(e, x)
<1>1. channel'[e] = x /\ \A d \in Ends \ {e} : channel'[d] = channel[d]
    BY DEF AreChannels
<1>2. channel' = [d \in Ends |-> channel'[d]]
    BY DEF AreChannels
<1> QED BY <1>1, <1>2 DEF Becomes, AreChannels

LEMMA ActiveTyped ==
    ASSUME AreChannels, NEW e \in Ends
    PROVE  /\ active \in [Nodes -> [Nodes -> Conns \cup {NoConn}]]
           /\ Removed(e) \in [Nodes -> [Nodes -> Conns \cup {NoConn}]]
           /\ [active EXCEPT ![e[2]][Peer(e)] = e[1]] \in [Nodes -> [Nodes -> Conns \cup {NoConn}]]
BY EndsAre DEF AreChannels, Removed

\* A channel whose registration and activity stay what they are.
LEMMA QuietIs ==
    ASSUME Registry, NEW e \in Ends, NEW x, IsChannel(x), channel' = [channel EXCEPT ![e] = x],
           UNCHANGED <<active, doubled>>,
           x.isActive = channel[e].isActive,
           x.life = channel[e].life \/ x.life \in {"open", "closing"},
           x.at = channel[e].at \/ x.life \in {"open", "closing"}
    PROVE  Quiet
<1>1. Becomes(e, x)
    BY ActiveTyped, BecomesIs DEF Registry
<1>2. AreChannels' /\ channel'[e] = x /\ \A d \in Ends \ {e} : channel'[d] = channel[d]
    BY <1>1 DEF Becomes
<1>3. \A d \in Ends : channel'[d].isActive = channel[d].isActive
    BY <1>2
<1>4. \A d \in Ends : Alive(d) => Alive(d)'
    BY <1>2 DEF Alive
<1>5. \A d \in Ends : channel'[d].at = channel[d].at \/ Alive(d)'
    BY <1>2 DEF Alive
<1> QED BY <1>2, <1>3, <1>4, <1>5 DEF Quiet

LEMMA SameIsQuiet ==
    ASSUME Registry, UNCHANGED <<channel, active, doubled>>
    PROVE  Quiet
BY DEF Registry, Quiet, AreChannels, Alive

LEMMA SendIsQuiet ==
    ASSUME Registry, NEW e \in Ends, NEW ch, NEW w, NEW m, IsChannel(ch),
           SendMessage(e, ch, w, m), UNCHANGED <<active, doubled>>,
           ch.isActive = channel[e].isActive, ch.life = channel[e].life,
           ch.at = channel[e].at \/ ch.life \in {"open", "closing"}
    PROVE  Quiet
<1>1. CASE channel' = [channel EXCEPT ![e] = ch]
    BY <1>1, QuietIs
<1>2. CASE channel' = [channel EXCEPT ![e] = Disconnected(ch)]
    BY <1>2, DisconnectedIs, QuietIs
<1>3. CASE channel' = [channel EXCEPT ![e] = Enqueued(ch, m)]
    BY <1>3, EnqueuedIs, QuietIs DEF Alike
<1> QED BY <1>1, <1>2, <1>3 DEF SendMessage

LEMMA ClosedEnds ==
    ASSUME Registry, NEW e \in Ends, NEW ch, IsChannel(ch), Closed(e, ch), UNCHANGED doubled
    PROVE  Ended(e)
<1> DEFINE x == [ch EXCEPT !.life = "closed", !.initialized = FALSE, !.isActive = FALSE,
                           !.at = "idle", !.requests = <<>>, !.responses = <<>>]
<1>1. IsChannel(x) /\ x.isActive = FALSE /\ x.at = "idle"
    <2>1. PICK y : y = x
        OBVIOUS
    <2>2. y = [life |-> "closed", initialized |-> FALSE, isActive |-> FALSE,
               isHandshakeDone |-> ch.isHandshakeDone, at |-> "idle", rejected |-> ch.rejected,
               requests |-> <<>>, responses |-> <<>>]
        BY ONLY <2>1, IsChannel(ch) DEF IsChannel
    <2> HIDE DEF x
    <2> QED BY <2>1, <2>2 DEF IsChannel
<1>2. channel' = [channel EXCEPT ![e] = x] /\ active' = Removed(e)
    BY DEF Closed
<1> HIDE DEF x
<1>3. Becomes(e, x)
    BY <1>1, <1>2, ActiveTyped, BecomesIs DEF Registry
<1> QED BY <1>1, <1>2, <1>3 DEF Ended

LEMMA MadeActive ==
    ASSUME Registry, NEW e \in Ends, NEW ch, IsChannel(ch), MakeActive(e, ch),
           ch.life = channel[e].life, Alive(e)
    PROVE  Activated(e)
<1> DEFINE x == [ch EXCEPT !.isActive = TRUE]
<1>1. IsChannel(x) /\ x.isActive = TRUE /\ x.life = ch.life
    <2>1. PICK y : y = x
        OBVIOUS
    <2>2. y = [life |-> ch.life, initialized |-> ch.initialized, isActive |-> TRUE,
               isHandshakeDone |-> ch.isHandshakeDone, at |-> ch.at, rejected |-> ch.rejected,
               requests |-> ch.requests, responses |-> ch.responses]
        BY ONLY <2>1, IsChannel(ch) DEF IsChannel
    <2> HIDE DEF x
    <2> QED BY <2>1, <2>2 DEF IsChannel
<1>2. channel' = [channel EXCEPT ![e] = x] /\ active' = [active EXCEPT ![e[2]][Peer(e)] = e[1]]
    BY DEF MakeActive
<1> HIDE DEF x
<1>3. Becomes(e, x)
    BY <1>1, <1>2, ActiveTyped, BecomesIs DEF Registry
<1> QED BY <1>1, <1>2, <1>3 DEF Activated, MakeActive

----------------------------------------------------------------------------
\* The actions, those of connections, of the event loop and of the other threads.
LEMMA DialKeeps ==
    ASSUME Registry, NEW c \in Conns, Dial(c)
    PROVE  Registry'
<1> DEFINE e == <<c, Dialer(c)>>
           x == [channel[e] EXCEPT !.life = "open", !.initialized = TRUE]
           y == Enqueued(x, Request("HELLO", 0))
<1>1. e \in Ends
    BY ChannelsAssumption DEF Ends, Dialer
<1>2. /\ IsChannel(channel[e]) /\ channel[e].life = "none"
      /\ channel' = [channel EXCEPT ![e] = y] /\ UNCHANGED <<active, doubled>>
    BY <1>1 DEF Dial, Fresh, Registry, AreChannels
<1> HIDE DEF e
<1>3. IsChannel(x) /\ x.life = "open" /\ x.isActive = channel[e].isActive /\ x.at = channel[e].at
    <2>1. PICK z : z = x
        OBVIOUS
    <2>2. PICK ch : ch = channel[e]
        OBVIOUS
    <2>3. z = [life |-> "open", initialized |-> TRUE, isActive |-> ch.isActive,
               isHandshakeDone |-> ch.isHandshakeDone, at |-> ch.at, rejected |-> ch.rejected,
               requests |-> ch.requests, responses |-> ch.responses]
        BY <1>2, <2>1, <2>2 DEF IsChannel
    <2> HIDE DEF x
    <2> QED BY <2>1, <2>2, <2>3 DEF IsChannel
<1> HIDE DEF x
<1>4. Alike(y, x)
    BY <1>3, EnqueuedIs
<1> HIDE DEF y
<1>5. Quiet
    BY <1>1, <1>2, <1>3, <1>4, QuietIs DEF Alike
<1> QED BY <1>5, QuietKeeps

LEMMA AcceptKeeps ==
    ASSUME Registry, NEW c \in Conns, Accept(c)
    PROVE  Registry'
<1> DEFINE e == <<c, Acceptor(c)>>
           x == [channel[e] EXCEPT !.life = "open", !.initialized = TRUE]
<1>1. e \in Ends
    BY ChannelsAssumption DEF Ends, Acceptor
<1>2. /\ IsChannel(channel[e]) /\ doubled' = doubled
      /\ \/ channel' = [channel EXCEPT ![e] = x] /\ active' = active
         \/ Closed(e, x)
    BY <1>1 DEF Accept, Registry, AreChannels
<1> HIDE DEF e
<1>3. IsChannel(x) /\ x.life = "open" /\ x.isActive = channel[e].isActive /\ x.at = channel[e].at
    <2>1. PICK z : z = x
        OBVIOUS
    <2>2. PICK ch : ch = channel[e]
        OBVIOUS
    <2>3. z = [life |-> "open", initialized |-> TRUE, isActive |-> ch.isActive,
               isHandshakeDone |-> ch.isHandshakeDone, at |-> ch.at, rejected |-> ch.rejected,
               requests |-> ch.requests, responses |-> ch.responses]
        BY <1>2, <2>1, <2>2 DEF IsChannel
    <2> HIDE DEF x
    <2> QED BY <2>1, <2>2, <2>3 DEF IsChannel
<1> HIDE DEF x
<1>4. CASE channel' = [channel EXCEPT ![e] = x] /\ active' = active
    BY <1>1, <1>2, <1>3, <1>4, QuietIs, QuietKeeps
<1>5. CASE Closed(e, x)
    BY <1>1, <1>2, <1>3, <1>5, ClosedEnds, EndedKeeps
<1> QED BY <1>2, <1>4, <1>5

LEMMA ClosingKeeps ==
    ASSUME Registry, NEW e \in Ends,
           PeerClosed(e) \/ CloseLater(e) \/ ReceiveDisconnect(e) \/ ReceiveThrows(e)
    PROVE  Registry'
<1>1. IsChannel(channel[e])
    BY DEF Registry, AreChannels
<1>2. Closed(e, channel[e]) /\ doubled' = doubled
    BY DEF PeerClosed, CloseLater, ReceiveDisconnect, ReceiveThrows, CloseFrame
<1> QED BY <1>1, <1>2, ClosedEnds, EndedKeeps

LEMMA HelloKeeps ==
    ASSUME Registry, NEW e \in Ends, ReceiveHello(e)
    PROVE  Registry'
<1>1. IsChannel(channel[e]) /\ Alive(e) /\ doubled' = doubled
    BY DEF Registry, AreChannels, ReceiveHello, Arriving
<1>2. CASE Closed(e, [channel[e] EXCEPT !.rejected = TRUE])
    <2>1. IsChannel([channel[e] EXCEPT !.rejected = TRUE])
        <3>1. PICK ch : ch = channel[e]
            OBVIOUS
        <3>2. PICK z : z = [ch EXCEPT !.rejected = TRUE]
            OBVIOUS
        <3>3. IsChannel(z)
            BY <1>1, <3>1, <3>2 DEF IsChannel
        <3> QED BY <3>1, <3>2, <3>3
    <2> QED BY <1>1, <1>2, <2>1, ClosedEnds, EndedKeeps
<1>3. CASE channel' = [channel EXCEPT ![e].at = "checked"] /\ active' = active
    <2> DEFINE x == [channel[e] EXCEPT !.at = "checked"]
    <2>1. IsChannel(x) /\ x.isActive = channel[e].isActive /\ x.life = channel[e].life
        <3>1. PICK ch : ch = channel[e]
            OBVIOUS
        <3>2. PICK z : z = [ch EXCEPT !.at = "checked"]
            OBVIOUS
        <3>3. IsChannel(z) /\ z.isActive = ch.isActive /\ z.life = ch.life
            BY <1>1, <3>1, <3>2 DEF IsChannel
        <3> QED BY <3>1, <3>2, <3>3
    <2>2. channel' = [channel EXCEPT ![e] = x]
        BY <1>3
    <2> HIDE DEF x
    <2>3. Quiet
        BY <1>1, <1>3, <2>1, <2>2, QuietIs DEF Alive
    <2> QED BY <2>3, QuietKeeps
<1> QED BY <1>2, <1>3 DEF ReceiveHello

LEMMA ActivateKeeps ==
    ASSUME Registry, NEW e \in Ends, Activate(e)
    PROVE  Registry'
<1> DEFINE x == [channel[e] EXCEPT !.at = "active"]
<1>1. IsChannel(channel[e]) /\ Alive(e) /\ MakeActive(e, x)
    BY DEF Registry, AreChannels, Connected, Activate
<1>2. IsChannel(x) /\ x.life = channel[e].life
    BY <1>1 DEF IsChannel
<1> HIDE DEF x
<1> QED BY <1>1, <1>2, MadeActive, ActivatedKeeps

LEMMA GreetKeeps ==
    ASSUME Registry, NEW e \in Ends, Greet(e)
    PROVE  Registry'
<1> DEFINE x == [channel[e] EXCEPT !.at = "idle", !.isHandshakeDone = TRUE]
<1>1. /\ IsChannel(channel[e]) /\ Alive(e) /\ UNCHANGED <<active, doubled>>
      /\ SendMessage(e, x, wire, Request("WORLD", 0))
    BY DEF Registry, AreChannels, Connected, Greet
<1>2. IsChannel(x) /\ x.life = channel[e].life /\ x.isActive = channel[e].isActive
    <2>1. PICK z : z = x
        OBVIOUS
    <2>2. PICK ch : ch = channel[e]
        OBVIOUS
    <2>3. z = [life |-> ch.life, initialized |-> ch.initialized, isActive |-> ch.isActive,
               isHandshakeDone |-> TRUE, at |-> "idle", rejected |-> ch.rejected,
               requests |-> ch.requests, responses |-> ch.responses]
        BY <1>1, <2>1, <2>2 DEF IsChannel
    <2> HIDE DEF x
    <2> QED BY <2>1, <2>2, <2>3 DEF IsChannel
<1> HIDE DEF x
<1>3. Quiet
    BY <1>1, <1>2, SendIsQuiet DEF Alive
<1> QED BY <1>3, QuietKeeps

LEMMA WorldKeeps ==
    ASSUME Registry, NEW e \in Ends, ReceiveWorld(e)
    PROVE  Registry'
<1>1. IsChannel(channel[e]) /\ Alive(e) /\ MakeActive(e, [Reading(e) EXCEPT !.isHandshakeDone = TRUE])
    BY DEF Registry, AreChannels, ReceiveWorld, Arriving
<1>2. PICK x : x = Reading(e)
    OBVIOUS
<1>3. Alike(x, channel[e])
    BY <1>1, <1>2, AnsweredIs DEF Reading
<1>4. PICK y : y = [x EXCEPT !.isHandshakeDone = TRUE]
    OBVIOUS
<1>5. IsChannel(y) /\ y.life = channel[e].life
    BY <1>3, <1>4 DEF Alike, IsChannel
<1>6. MakeActive(e, y)
    BY <1>1, <1>2, <1>4
<1> QED BY <1>1, <1>5, <1>6, MadeActive, ActivatedKeeps

LEMMA ReadingKeeps ==
    ASSUME Registry, NEW e \in Ends, ReceiveRequest(e) \/ ReceiveAnswer(e)
    PROVE  Registry'
<1>1. IsChannel(channel[e]) /\ UNCHANGED <<active, doubled>>
    BY DEF Registry, AreChannels, ReceiveRequest, ReceiveAnswer
<1>2. PICK x : x = Reading(e)
    OBVIOUS
<1>3. Alike(x, channel[e])
    BY <1>1, <1>2, AnsweredIs DEF Reading
<1>4. \/ channel' = [channel EXCEPT ![e] = x]
      \/ \E w, m : SendMessage(e, x, w, m)
    BY <1>2 DEF ReceiveRequest, ReceiveAnswer
<1>5. Quiet
    BY <1>1, <1>3, <1>4, QuietIs, SendIsQuiet DEF Alike
<1> QED BY <1>5, QuietKeeps

LEMMA NudgeKeeps ==
    ASSUME Registry, NEW e \in Ends, Nudge(e)
    PROVE  Registry'
<1>1. IsChannel(channel[e]) /\ UNCHANGED <<active, doubled>>
    BY DEF Registry, AreChannels, Nudge
<1>2. \E r, q : channel' = [channel EXCEPT ![e].requests = r, ![e].responses = q]
    BY DEF Nudge
<1>3. PICK r, q : channel' = [channel EXCEPT ![e].requests = r, ![e].responses = q]
    BY <1>2
<1>4. PICK x : x = [channel[e] EXCEPT !.requests = r]
    OBVIOUS
<1>5. Alike(x, channel[e])
    BY <1>1, <1>4 DEF Alike, IsChannel
<1>6. PICK y : y = [x EXCEPT !.responses = q]
    OBVIOUS
<1>7. Alike(y, channel[e])
    BY <1>5, <1>6 DEF Alike, IsChannel
<1>8. channel' = [channel EXCEPT ![e] = y]
    BY <1>3, <1>4, <1>6 DEF Registry, AreChannels
<1>9. Quiet
    BY <1>1, <1>7, <1>8, QuietIs DEF Alike
<1> QED BY <1>9, QuietKeeps

LEMMA PingKeeps ==
    ASSUME Registry, NEW e \in Ends, Ping(e)
    PROVE  Registry'
<1>1. /\ IsChannel(channel[e]) /\ UNCHANGED <<active, doubled>>
      /\ \E w, m : SendMessage(e, channel[e], w, m)
    BY DEF Registry, AreChannels, Ping
<1>2. Quiet
    BY <1>1, SendIsQuiet
<1> QED BY <1>2, QuietKeeps

LEMMA AskKeeps ==
    ASSUME Registry, NEW n \in Nodes, AskForBlock(n)
    PROVE  Registry'
<1>1. PICK e : e = <<sending[n], n>>
    OBVIOUS
<1>2. /\ UNCHANGED <<active, doubled>>
      /\ \E w, m : SendMessage(e, channel[e], w, m)
    BY <1>1 DEF AskForBlock
<1>3. CASE e \in Ends
    <2>1. IsChannel(channel[e])
        BY <1>3 DEF Registry, AreChannels
    <2>2. Quiet
        BY <1>2, <1>3, <2>1, SendIsQuiet
    <2> QED BY <2>2, QuietKeeps
<1>4. CASE e \notin Ends
    <2>1. \E x : channel' = [channel EXCEPT ![e] = x]
        BY <1>2 DEF SendMessage
    <2>2. channel' = channel
        BY <1>4, <2>1 DEF Registry, AreChannels
    <2>3. Quiet
        BY <1>2, <2>2, SameIsQuiet
    <2> QED BY <2>3, QuietKeeps
<1> QED BY <1>3, <1>4

LEMMA SameKeeps ==
    ASSUME Registry, (\E c \in Conns : Break(c)) \/ (\E n \in Nodes : ChooseIdle(n)) \/ UNCHANGED vars
    PROVE  Registry'
<1>1. UNCHANGED <<channel, active, doubled>>
    BY DEF Break, ChooseIdle, vars
<1> QED BY <1>1, SameIsQuiet, QuietKeeps

LEMMA RegistryInit == Init => Registry
<1> SUFFICES ASSUME Init PROVE Registry
    OBVIOUS
<1>1. \A e \in Ends : channel[e] = NewChannel
    BY DEF Init
<1>2. IsChannel(NewChannel) /\ NewChannel.isActive = FALSE /\ NewChannel.at = "idle"
    BY DEF NewChannel, IsChannel
<1>3. AreChannels
    BY <1>1, <1>2 DEF Init, AreChannels
<1>4. Connected /\ Entries
    BY <1>1, <1>2 DEF Connected, Entries
<1>5. Entered
    BY DEF Init, Entered
<1> QED BY <1>3, <1>4, <1>5 DEF Registry

LEMMA RegistryStep == Registry /\ [Next]_vars => Registry'
<1> SUFFICES ASSUME Registry, [Next]_vars PROVE Registry'
    OBVIOUS
<1>1. CASE \E c \in Conns : Dial(c) \/ Accept(c)
    BY <1>1, DialKeeps, AcceptKeeps
<1>2. CASE \E e \in Ends : Handles(e) \/ ReceiveThrows(e) \/ Nudge(e) \/ Ping(e)
    BY <1>2, ClosingKeeps, HelloKeeps, ActivateKeeps, GreetKeeps, WorldKeeps, ReadingKeeps,
       NudgeKeeps, PingKeeps DEF Handles
<1>3. CASE \E n \in Nodes : AskForBlock(n)
    BY <1>3, AskKeeps
<1> QED BY <1>1, <1>2, <1>3, SameKeeps DEF Next

\* For any nodes and connections, whatever closes, breaks or crosses: a registered channel
\* is an active one, and an active one is registered unless there were two.
THEOREM ChannelsRegistryExact == Spec => []RegistryExact
<1>1. Registry => RegistryExact
    <2> SUFFICES ASSUME Registry, NEW n \in Nodes, NEW p \in Nodes \ {n}
                 PROVE  LET live == {c \in Conns : <<c, n>> \in Ends /\ channel[<<c, n>>].isActive
                                       /\ Alive(<<c, n>>) /\ Peer(<<c, n>>) = p} IN
                        /\ active[n][p] # NoConn => active[n][p] \in live
                        /\ n \notin doubled /\ live # {} => live = {active[n][p]}
        BY DEF RegistryExact
    <2> DEFINE live == {c \in Conns : <<c, n>> \in Ends /\ channel[<<c, n>>].isActive
                                      /\ Alive(<<c, n>>) /\ Peer(<<c, n>>) = p}
    <2>1. ASSUME active[n][p] # NoConn PROVE active[n][p] \in live
        <3> DEFINE e == <<active[n][p], n>>
        <3>1. e \in Ends /\ Peer(e) = p /\ channel[e].isActive /\ e[1] = active[n][p]
            BY <2>1 DEF Registry, Entered
        <3> QED BY <3>1, EndsAre DEF Registry, Connected
    <2>2. ASSUME n \notin doubled, NEW c \in live PROVE c = active[n][p]
        <3> DEFINE e == <<c, n>>
        <3>1. e \in Ends /\ channel[e].isActive /\ Peer(e) = p /\ e[1] = c /\ e[2] = n
            OBVIOUS
        <3> QED BY <2>2, <3>1 DEF Registry, Entries
    <2>3. ASSUME n \notin doubled, live # {} PROVE live = {active[n][p]}
        BY <2>2, <2>3
    <2> QED BY <2>1, <2>3
<1> QED BY <1>1, RegistryInit, RegistryStep, PTL DEF Spec
----------------------------------------------------------------------------
(* Messages under way.  None of a sequence's messages are of some codes, or exactly one. *)
None(s, C) == \A i \in DOMAIN s : s[i].code \notin C
Once(s, C, m) ==
    \E i \in DOMAIN s : s[i] = m /\ m.code \in C /\ \A j \in DOMAIN s \ {i} : s[j].code \notin C

Kinds == {"HELLO", "PING", "GET_BLOCK"}
Replies == {"WORLD", "PONG", "BLOCK"}
Message == [code : Kinds \cup Replies \cup {"DISCONNECT"}, id : Nat]
Reply == [code : Replies, id : Nat]
Entry == [msg : [code : Kinds, id : Nat], sent : BOOLEAN, isAnswered : BOOLEAN]

LEMMA AnswersAre ==
    /\ DOMAIN Answers = Kinds
    /\ Answers["HELLO"] = "WORLD" /\ Answers["PING"] = "PONG" /\ Answers["GET_BLOCK"] = "BLOCK"
BY DEF Answers, Kinds

LEMMA AnswerIs ==
    ASSUME NEW m \in [code : Kinds, id : Nat]
    PROVE  IsRequest(m) /\ AnswerTo(m) \in Reply /\ AnswerTo(m).code = Answers[m.code]
BY AnswersAre DEF IsRequest, AnswerTo, Reply, Kinds, Replies

LEMMA NoneEmpty ==
    ASSUME NEW C
    PROVE  None(<<>>, C)
BY DEF None

LEMMA NoneOne ==
    ASSUME NEW C, NEW m, m.code \notin C
    PROVE  None(<<m>>, C)
BY DEF None

LEMMA OnceOne ==
    ASSUME NEW C, NEW m, m.code \in C
    PROVE  Once(<<m>>, C, m)
BY DEF Once

LEMMA NoneTail ==
    ASSUME NEW S, NEW s \in Seq(S), s # <<>>, NEW C, None(s, C)
    PROVE  None(Tail(s), C) /\ Head(s).code \notin C
BY HeadTailProperties, LenProperties, EmptySeq DEF None

LEMMA OnceTail ==
    ASSUME NEW S, NEW s \in Seq(S), s # <<>>, NEW C, NEW m, Once(s, C, m)
    PROVE  IF Head(s).code \in C THEN m = Head(s) /\ None(Tail(s), C) ELSE Once(Tail(s), C, m)
<1> DEFINE n == Len(s)
<1>1. /\ n \in Nat \ {0} /\ DOMAIN s = 1..n /\ Head(s) = s[1]
      /\ DOMAIN Tail(s) = 1..(n - 1) /\ \A i \in 1..(n - 1) : Tail(s)[i] = s[i + 1]
    <2>1. Tail(s) \in Seq(S) /\ Len(Tail(s)) = n - 1 /\ \A i \in 1..(n - 1) : Tail(s)[i] = s[i + 1]
        BY HeadTailProperties
    <2> QED BY <2>1, LenProperties, EmptySeq
<1>2. PICK i \in 1..n : s[i] = m /\ m.code \in C /\ \A j \in (1..n) \ {i} : s[j].code \notin C
    BY <1>1 DEF Once
<1>3. CASE i = 1
    <2>1. m = Head(s) /\ Head(s).code \in C
        BY <1>1, <1>2, <1>3
    <2>2. None(Tail(s), C)
        <3> SUFFICES ASSUME NEW k \in 1..(n - 1) PROVE s[k + 1].code \notin C
            BY <1>1 DEF None
        <3> k + 1 \in (1..n) \ {i}
            BY <1>1, <1>3
        <3> QED BY <1>2
    <2> QED BY <2>1, <2>2
<1>4. CASE i # 1
    <2>1. Head(s).code \notin C
        BY <1>1, <1>2, <1>4
    <2>2. i - 1 \in 1..(n - 1) /\ Tail(s)[i - 1] = m
        BY <1>1, <1>2, <1>4
    <2>3. ASSUME NEW k \in (1..(n - 1)) \ {i - 1} PROVE Tail(s)[k].code \notin C
        <3> k + 1 \in (1..n) \ {i}
            BY <1>1
        <3> QED BY <1>1, <1>2
    <2>4. Once(Tail(s), C, m)
        <3> HIDE DEF n
        <3> QED BY <1>1, <1>2, <2>2, <2>3 DEF Once
    <2> QED BY <2>1, <2>4
<1> QED BY <1>3, <1>4

LEMMA Concatenated ==
    ASSUME NEW S, NEW s \in Seq(S), NEW t \in Seq(S), NEW C
    PROVE  /\ None(s \o t, C) <=> None(s, C) /\ None(t, C)
           /\ \A m : Once(s, C, m) /\ None(t, C) => Once(s \o t, C, m)
           /\ \A m : None(s, C) /\ Once(t, C, m) => Once(s \o t, C, m)
<1> DEFINE r == s \o t
           k == Len(s)
           n == Len(t)
<1>1. /\ k \in Nat /\ n \in Nat /\ DOMAIN s = 1..k /\ DOMAIN t = 1..n /\ DOMAIN r = 1..(k + n)
      /\ \A i \in 1..(k + n) : r[i] = IF i <= k THEN s[i] ELSE t[i - k]
    <2>1. r \in Seq(S) /\ Len(r) = k + n /\ \A i \in 1..(k + n) : r[i] = IF i <= k THEN s[i] ELSE t[i - k]
        BY ConcatProperties
    <2> QED BY <2>1, LenProperties
<1> HIDE DEF r, k, n
<1>2. \A i \in 1..k : i \in 1..(k + n) /\ r[i] = s[i]
    BY <1>1
<1>3. \A i \in 1..n : i + k \in 1..(k + n) /\ r[i + k] = t[i]
    BY <1>1
<1>4. \A i \in 1..(k + n) : \/ i \in 1..k /\ r[i] = s[i]
                            \/ i - k \in 1..n /\ i \notin 1..k /\ r[i] = t[i - k]
    BY <1>1
<1>5. None(r, C) <=> None(s, C) /\ None(t, C)
    <2>1. None(r, C) => None(s, C)
        BY <1>1, <1>2 DEF None
    <2>2. ASSUME None(r, C), NEW i \in 1..n PROVE t[i].code \notin C
        BY <1>1, <1>3, <2>2 DEF None
    <2>3. None(s, C) /\ None(t, C) => None(r, C)
        BY <1>1, <1>4 DEF None
    <2> QED BY <1>1, <2>1, <2>2, <2>3 DEF None
<1>6. ASSUME NEW m, Once(s, C, m), None(t, C) PROVE Once(r, C, m)
    <2>1. PICK i \in 1..k : s[i] = m /\ m.code \in C /\ \A j \in (1..k) \ {i} : s[j].code \notin C
        BY <1>1, <1>6 DEF Once
    <2>2. i \in 1..(k + n) /\ r[i] = m
        BY <1>2, <2>1
    <2>3. \A j \in (1..(k + n)) \ {i} : r[j].code \notin C
        BY <1>1, <1>4, <1>6, <2>1 DEF None
    <2> QED BY <1>1, <2>1, <2>2, <2>3 DEF Once
<1>7. ASSUME NEW m, None(s, C), Once(t, C, m) PROVE Once(r, C, m)
    <2>1. PICK i \in 1..n : t[i] = m /\ m.code \in C /\ \A j \in (1..n) \ {i} : t[j].code \notin C
        BY <1>1, <1>7 DEF Once
    <2>2. i + k \in 1..(k + n) /\ r[i + k] = m
        BY <1>3, <2>1
    <2>3. ASSUME NEW j \in (1..(k + n)) \ {i + k} PROVE r[j].code \notin C
        <3>1. CASE j \in 1..k /\ r[j] = s[j]
            BY <1>1, <1>7, <3>1 DEF None
        <3>2. CASE j - k \in 1..n /\ r[j] = t[j - k]
            <4>1. j - k # i
                BY <1>1, <2>1
            <4> QED BY <2>1, <3>2, <4>1
        <3> QED BY <1>4, <3>1, <3>2
    <2> QED BY <1>1, <2>1, <2>2, <2>3 DEF Once
<1> QED BY <1>5, <1>6, <1>7 DEF r

----------------------------------------------------------------------------
(* The requests of a channel: what was sent or answered is the head, no two are alike. *)
InLine(q, a, p, chosen) ==
    /\ \A i \in DOMAIN q :
        /\ i # 1 => ~q[i].sent /\ ~q[i].isAnswered
        /\ q[i].msg.code = "HELLO" => i = 1 /\ q[i].msg.id = 0
        /\ q[i].msg.code = "PING" => q[i].msg.id <= p
        /\ q[i].msg.code = "GET_BLOCK" => q[i].msg.id <= a /\ (chosen => q[i].msg.id < a)
    /\ \A i, j \in DOMAIN q : i # j => q[i].msg # q[j].msg

\* The head was sent and is not answered yet.
Out(q) == q # <<>> /\ q[1].sent /\ ~q[1].isAnswered

\* HELLO is still to be sent.
Greeting(q) == \E i \in DOMAIN q : q[i].msg.code = "HELLO" /\ ~q[i].sent

NewEntry(m) == [msg |-> m, sent |-> FALSE, isAnswered |-> FALSE]
WithAnswer(q) == [q EXCEPT ![1].isAnswered = TRUE]
WithHeadSent(q) == [i \in DOMAIN q |-> [q[i] EXCEPT !.sent = @ \/ i = 1]]

LEMMA InLineEmpty ==
    ASSUME NEW a, NEW p, NEW chosen
    PROVE  InLine(<<>>, a, p, chosen) /\ ~Out(<<>>) /\ ~Greeting(<<>>) /\ <<>> \in Seq(Entry)
BY DEF InLine, Out, Greeting

LEMMA InLineLater ==
    ASSUME NEW q \in Seq(Entry), NEW a \in Nat, NEW p \in Nat, NEW chosen \in BOOLEAN,
           InLine(q, a, p, chosen),
           NEW b \in Nat, NEW r \in Nat, NEW still \in BOOLEAN,
           a <= b, p <= r, still => chosen \/ a < b
    PROVE  InLine(q, b, r, still)
<1> SUFFICES ASSUME NEW i \in DOMAIN q
             PROVE  /\ q[i].msg.code = "PING" => q[i].msg.id <= r
                    /\ q[i].msg.code = "GET_BLOCK" => q[i].msg.id <= b /\ (still => q[i].msg.id < b)
    BY DEF InLine
<1>1. q[i].msg.id \in Nat
    <2>1. i \in 1..Len(q)
        BY LenProperties
    <2>2. q[i] \in Entry
        BY <2>1, ElementOfSeq
    <2> QED BY <2>2 DEF Entry
<1>2. /\ q[i].msg.code = "PING" => q[i].msg.id <= p
      /\ q[i].msg.code = "GET_BLOCK" => q[i].msg.id <= a /\ (chosen => q[i].msg.id < a)
    BY DEF InLine
<1>3. q[i].msg.code = "GET_BLOCK" /\ still => q[i].msg.id < b
    <2>1. CASE chosen
        BY <1>1, <1>2, <2>1
    <2>2. CASE ~still
        BY <2>2
    <2>3. CASE a < b
        BY <1>1, <1>2, <2>3
    <2> QED BY <2>1, <2>2, <2>3
<1> QED BY <1>1, <1>2, <1>3

\* A request joins the line.
LEMMA InLineAppend ==
    ASSUME NEW q \in Seq(Entry), NEW a, NEW p, NEW chosen, InLine(q, a, p, chosen),
           NEW m \in [code : Kinds, id : Nat],
           \A i \in DOMAIN q : q[i].msg # m,
           m.code = "HELLO" => q = <<>> /\ m.id = 0,
           m.code = "PING" => m.id <= p,
           m.code = "GET_BLOCK" => m.id <= a /\ (chosen => m.id < a)
    PROVE  LET x == Append(q, NewEntry(m)) IN
           /\ x \in Seq(Entry) /\ InLine(x, a, p, chosen) /\ (Out(x) <=> Out(q))
           /\ q # <<>> => x[1] = q[1]
           /\ Greeting(x) <=> Greeting(q) \/ m.code = "HELLO"
<1> DEFINE z == NewEntry(m)
           x == Append(q, z)
           n == Len(q)
<1>1. z \in Entry /\ z.msg = m /\ ~z.sent /\ ~z.isAnswered
    BY DEF NewEntry, Entry
<1> HIDE DEF z
<1>2. /\ x \in Seq(Entry) /\ n \in Nat /\ DOMAIN q = 1..n /\ DOMAIN x = 1..(n + 1) /\ x # <<>>
      /\ \A i \in 1..n : x[i] = q[i]
      /\ x[n + 1] = z /\ (q = <<>> <=> n = 0)
    <2>1. /\ x \in Seq(Entry) /\ x # <<>> /\ Len(x) = n + 1
          /\ \A i \in 1..n : x[i] = q[i]
          /\ x[n + 1] = z
        BY <1>1, AppendProperties
    <2> QED BY <2>1, LenProperties, EmptySeq
<1> HIDE DEF x, n
<1>3. \A i \in 1..(n + 1) : i \in 1..n \/ i = n + 1
    BY <1>2
<1>4. InLine(x, a, p, chosen)
    <2>1. ASSUME NEW i \in 1..(n + 1)
          PROVE  /\ i # 1 => ~x[i].sent /\ ~x[i].isAnswered
                 /\ x[i].msg.code = "HELLO" => i = 1 /\ x[i].msg.id = 0
                 /\ x[i].msg.code = "PING" => x[i].msg.id <= p
                 /\ x[i].msg.code = "GET_BLOCK" => x[i].msg.id <= a /\ (chosen => x[i].msg.id < a)
        <3>1. CASE i \in 1..n
            BY <1>2, <3>1 DEF InLine
        <3>2. CASE i = n + 1
            BY <1>1, <1>2, <3>2
        <3> QED BY <1>3, <3>1, <3>2
    <2>2. ASSUME NEW i \in 1..(n + 1), NEW j \in 1..(n + 1), i # j PROVE x[i].msg # x[j].msg
        <3>1. CASE i \in 1..n /\ j \in 1..n
            BY <1>2, <2>2, <3>1 DEF InLine
        <3>2. CASE i \in 1..n /\ j = n + 1
            BY <1>1, <1>2, <3>2
        <3>3. CASE i = n + 1 /\ j \in 1..n
            BY <1>1, <1>2, <3>3
        <3> QED BY <1>3, <2>2, <3>1, <3>2, <3>3
    <2> QED BY <1>2, <2>1, <2>2 DEF InLine
<1>5. q # <<>> => x[1] = q[1]
    BY <1>2
<1>6. Out(x) <=> Out(q)
    <2>1. CASE q = <<>>
        BY <1>1, <1>2, <2>1 DEF Out
    <2>2. CASE q # <<>>
        BY <1>2, <1>5, <2>2 DEF Out
    <2> QED BY <2>1, <2>2
<1>7. Greeting(x) <=> Greeting(q) \/ m.code = "HELLO"
    <2>1. Greeting(q) => Greeting(x)
        <3> SUFFICES ASSUME NEW i \in 1..n, q[i].msg.code = "HELLO", ~q[i].sent PROVE Greeting(x)
            BY <1>2 DEF Greeting
        <3> i \in 1..(n + 1) /\ x[i] = q[i]
            BY <1>2
        <3> QED BY <1>2 DEF Greeting
    <2>2. m.code = "HELLO" => Greeting(x)
        <3> n + 1 \in 1..(n + 1)
            BY <1>2
        <3> QED BY <1>1, <1>2 DEF Greeting
    <2>3. Greeting(x) => Greeting(q) \/ m.code = "HELLO"
        <3> SUFFICES ASSUME NEW i \in 1..(n + 1), x[i].msg.code = "HELLO", ~x[i].sent
                     PROVE  Greeting(q) \/ m.code = "HELLO"
            BY <1>2 DEF Greeting
        <3> QED BY <1>1, <1>2, <1>3 DEF Greeting
    <2> QED BY <2>1, <2>2, <2>3
<1> QED BY <1>2, <1>4, <1>5, <1>6, <1>7 DEF x, z

\* The head gets its answer.
LEMMA InLineAnswered ==
    ASSUME NEW q \in Seq(Entry), q # <<>>, NEW a, NEW p, NEW chosen, InLine(q, a, p, chosen)
    PROVE  LET x == WithAnswer(q) IN
           /\ x \in Seq(Entry) /\ InLine(x, a, p, chosen) /\ ~Out(x)
           /\ Greeting(x) <=> Greeting(q)
<1> DEFINE n == Len(q)
           x == WithAnswer(q)
<1>1. PICK z : z = [q[1] EXCEPT !.isAnswered = TRUE]
    OBVIOUS
<1>2. n \in Nat \ {0} /\ DOMAIN q = 1..n /\ 1 \in 1..n
    BY LenProperties, EmptySeq
<1>3. q[1] \in Entry
    BY <1>2, ElementOfSeq
<1>4. z \in Entry /\ z.msg = q[1].msg /\ z.sent = q[1].sent /\ z.isAnswered
    BY <1>1, <1>3 DEF Entry
<1>5. x = [q EXCEPT ![1] = z]
    BY <1>1, <1>2 DEF WithAnswer
<1>6. x \in Seq(Entry) /\ DOMAIN x = 1..n /\ \A i \in 1..n : x[i] = IF i = 1 THEN z ELSE q[i]
    <2>1. x \in Seq(Entry) /\ Len(x) = n /\ \A i \in 1..n : x[i] = IF i = 1 THEN z ELSE q[i]
        BY <1>2, <1>4, <1>5, ExceptSeq
    <2> QED BY <2>1, LenProperties
<1> HIDE DEF x, n
<1>7. \A i \in 1..n : x[i].msg = q[i].msg /\ x[i].sent = q[i].sent /\ (i # 1 => x[i] = q[i])
    BY <1>4, <1>6
<1>8. InLine(x, a, p, chosen)
    BY <1>2, <1>6, <1>7 DEF InLine
<1>9. Greeting(x) <=> Greeting(q)
    BY <1>2, <1>6, <1>7 DEF Greeting
<1>10. ~Out(x)
    BY <1>2, <1>4, <1>6 DEF Out
<1> QED BY <1>6, <1>8, <1>9, <1>10 DEF x

\* One tick of the timer: an answered head leaves, and the head is sent unless it was.
LEMMA InLineNudged ==
    ASSUME NEW q \in Seq(Entry), NEW a, NEW p, NEW chosen, InLine(q, a, p, chosen),
           NEW r, r = RemoveAnswered(q)
    PROVE  LET x == WithHeadSent(r)
               t == Unsent(r) IN
           /\ x \in Seq(Entry) /\ InLine(x, a, p, chosen)
           /\ ~Greeting(x)
           /\ \/ t = <<>> /\ (Out(x) <=> Out(q)) /\ (Out(q) => x[1].msg = q[1].msg)
              \/ ~Out(q) /\ Out(x) /\ t = <<x[1].msg>> /\ x[1].msg \in [code : Kinds, id : Nat]
           /\ t # <<>> /\ t[1].code = "HELLO" => Greeting(q)
<1> DEFINE n == Len(r)
           x == WithHeadSent(r)
<1>1. /\ r \in Seq(Entry) /\ InLine(r, a, p, chosen)
      /\ \/ r = q /\ (q = <<>> \/ ~q[1].isAnswered)
         \/ ~Out(q) /\ (r = <<>> \/ (~r[1].sent /\ ~r[1].isAnswered /\ r[1].msg.code # "HELLO"))
    <2>1. CASE q # <<>> /\ Head(q).isAnswered
        <3> DEFINE k == Len(q)
        <3>1. k \in Nat \ {0} /\ DOMAIN q = 1..k
            BY <2>1, LenProperties, EmptySeq
        <3>2. /\ r \in Seq(Entry) /\ DOMAIN r = 1..(k - 1)
              /\ \A i \in 1..(k - 1) : r[i] = q[i + 1]
            <4>1. r = Tail(q)
                BY <2>1 DEF RemoveAnswered
            <4>2. r \in Seq(Entry) /\ Len(r) = k - 1 /\ \A i \in 1..(k - 1) : r[i] = q[i + 1]
                BY <2>1, <4>1, HeadTailProperties
            <4> QED BY <4>2, LenProperties
        <3> HIDE DEF k
        <3>3. \A i \in 1..(k - 1) : i + 1 \in 1..k /\ i + 1 # 1
            BY <3>1
        <3>4. ASSUME NEW i \in 1..(k - 1)
              PROVE  /\ ~r[i].sent /\ ~r[i].isAnswered /\ r[i].msg.code # "HELLO"
                     /\ r[i].msg.code = "PING" => r[i].msg.id <= p
                     /\ r[i].msg.code = "GET_BLOCK" => r[i].msg.id <= a /\ (chosen => r[i].msg.id < a)
            <4>1. PICK j \in DOMAIN q : j = i + 1 /\ j # 1
                BY <3>1, <3>3
            <4>2. /\ ~q[j].sent /\ ~q[j].isAnswered /\ q[j].msg.code # "HELLO"
                  /\ q[j].msg.code = "PING" => q[j].msg.id <= p
                  /\ q[j].msg.code = "GET_BLOCK" => q[j].msg.id <= a /\ (chosen => q[j].msg.id < a)
                BY <4>1 DEF InLine
            <4>3. r[i] = q[j]
                BY <3>2, <4>1
            <4> QED BY ONLY <4>2, <4>3
        <3>5. ASSUME NEW i \in 1..(k - 1), NEW j \in 1..(k - 1), i # j PROVE r[i].msg # r[j].msg
            <4>1. i + 1 # j + 1 /\ i + 1 \in DOMAIN q /\ j + 1 \in DOMAIN q
                BY <3>1, <3>3, <3>5
            <4>2. q[i + 1].msg # q[j + 1].msg
                BY <4>1 DEF InLine
            <4> QED BY <3>2, <4>2
        <3>6. InLine(r, a, p, chosen)
            BY <3>2, <3>4, <3>5 DEF InLine
        <3>7. r = <<>> \/ 1 \in 1..(k - 1)
            BY <3>1, <3>2, LenProperties, EmptySeq
        <3>8. ~Out(q)
            BY <2>1 DEF Out
        <3>9. r = <<>> \/ (~r[1].sent /\ ~r[1].isAnswered /\ r[1].msg.code # "HELLO")
            <4>1. CASE r = <<>>
                BY <4>1
            <4>2. CASE 1 \in 1..(k - 1)
                <5>1. ~r[1].sent /\ ~r[1].isAnswered /\ r[1].msg.code # "HELLO"
                    BY ONLY <3>4, <4>2
                <5> QED BY <5>1
            <4> QED BY <3>7, <4>1, <4>2
        <3> QED BY <3>2, <3>6, <3>8, <3>9
    <2>2. CASE ~(q # <<>> /\ Head(q).isAnswered)
        BY <2>2 DEF RemoveAnswered
    <2> QED BY <2>1, <2>2
<1>2. n \in Nat /\ DOMAIN r = 1..n /\ (r = <<>> <=> n = 0) /\ \A i \in 1..n : r[i] \in Entry
    BY <1>1, LenProperties, EmptySeq, ElementOfSeq
<1>3. DOMAIN x = 1..n /\ \A i \in 1..n : x[i] = [r[i] EXCEPT !.sent = @ \/ i = 1]
    BY <1>2 DEF WithHeadSent
<1>4. ASSUME NEW i \in 1..n
      PROVE  /\ x[i] \in Entry /\ x[i].msg = r[i].msg /\ x[i].isAnswered = r[i].isAnswered
             /\ x[i].sent <=> r[i].sent \/ i = 1
    <2>1. PICK z : z = r[i]
        OBVIOUS
    <2>2. PICK s \in BOOLEAN : s <=> z.sent \/ i = 1
        OBVIOUS
    <2>3. z \in Entry
        BY <1>2, <2>1
    <2>4. x[i] = [z EXCEPT !.sent = s]
        BY <1>3, <2>1, <2>2
    <2>5. PICK y : y = [z EXCEPT !.sent = s]
        OBVIOUS
    <2>6. y \in Entry /\ y.msg = z.msg /\ y.isAnswered = z.isAnswered /\ y.sent = s
        BY <2>3, <2>5 DEF Entry
    <2> QED BY <2>1, <2>2, <2>4, <2>5, <2>6
<1>5. x \in Seq(Entry)
    <2>1. x = [i \in 1..n |-> x[i]]
        BY <1>2 DEF WithHeadSent
    <2>2. x \in [1..n -> Entry]
        BY <1>4, <2>1
    <2> QED BY <1>2, <2>2, SeqDef
<1> HIDE DEF x, n
<1>6. InLine(x, a, p, chosen)
    BY <1>1, <1>2, <1>3, <1>4 DEF InLine
<1>7. ~Greeting(x)
    BY <1>3, <1>4, <1>6 DEF Greeting, InLine
<1>8. r # <<>> => 1 \in 1..n /\ x # <<>> /\ r[1] = Head(r)
    BY <1>2, <1>3
<1>9. r = <<>> => x = <<>>
    BY <1>2, <1>3, <1>5, LenProperties, EmptySeq
<1>10. /\ \/ Unsent(r) = <<>> /\ (Out(x) <=> Out(q)) /\ (Out(q) => x[1].msg = q[1].msg)
          \/ ~Out(q) /\ Out(x) /\ Unsent(r) = <<x[1].msg>> /\ x[1].msg \in [code : Kinds, id : Nat]
       /\ Unsent(r) # <<>> => r # <<>> /\ ~r[1].sent /\ Unsent(r) = <<r[1].msg>>
    <2>1. CASE r = <<>>
        <3>1. Unsent(r) = <<>> /\ ~Out(x) /\ ~Out(q)
            BY <1>1, <1>9, <2>1 DEF Unsent, Out
        <3> QED BY <3>1
    <2>2. CASE r # <<>> /\ r[1].sent
        <3>1. r = q /\ ~q[1].isAnswered
            BY <1>1, <2>2
        <3>2. Unsent(r) = <<>> /\ Out(x) /\ Out(q) /\ x[1].msg = q[1].msg
            BY <1>4, <1>8, <2>2, <3>1 DEF Unsent, Out
        <3> QED BY <3>2
    <2>3. CASE r # <<>> /\ ~r[1].sent
        <3>1. ~Out(q) /\ ~r[1].isAnswered
            BY <1>1, <2>3 DEF Out
        <3>2. Out(x) /\ Unsent(r) = <<x[1].msg>>
            BY <1>4, <1>8, <2>3, <3>1 DEF Unsent, Out
        <3>3. x[1].msg \in [code : Kinds, id : Nat]
            BY <1>4, <1>8, <2>3 DEF Entry
        <3> QED BY <1>4, <1>8, <2>3, <3>1, <3>2, <3>3
    <2> QED BY <2>1, <2>2, <2>3
<1>11. Unsent(r) # <<>> /\ Unsent(r)[1].code = "HELLO" => Greeting(q)
    <2> SUFFICES ASSUME Unsent(r) # <<>>, Unsent(r)[1].code = "HELLO" PROVE Greeting(q)
        OBVIOUS
    <2>1. r # <<>> /\ ~r[1].sent /\ r[1].msg.code = "HELLO"
        BY <1>10
    <2>2. r = q
        BY <1>1, <2>1
    <2> QED BY <1>2, <1>8, <2>1, <2>2 DEF Greeting
<1> QED BY <1>5, <1>6, <1>7, <1>10, <1>11 DEF x

----------------------------------------------------------------------------
(* The handshake of a connection, between the dialler's channel dc with the messages wd on
   their way to it, and the acceptor's ac with wa. *)
Hello == Request("HELLO", 0)

\* The acceptor has registered nobody, and has not answered.
Silent(dc, ac, wd) ==
    /\ ac.at = "idle" /\ ~ac.isActive /\ ~dc.isActive
    /\ None(ac.responses, {"WORLD"}) /\ None(wd, {"WORLD"})

\* HELLO is sent once, and before it arrives the acceptor does nothing.
Shake(dc, ac, wd, wa) ==
    /\ dc.at = "idle" /\ None(wd, {"HELLO"})
    /\ None(wa, {"WORLD"}) /\ None(dc.responses, {"WORLD"}) /\ ~Greeting(ac.requests)
    /\ dc.life = "none" \/ Greeting(dc.requests) => None(wa, {"HELLO"})
    /\ dc.life = "none" \/ Greeting(dc.requests) \/ ~None(wa, {"HELLO"}) =>
         Silent(dc, ac, wd) /\ ~ac.rejected
    /\ None(wa, {"HELLO"}) \/ Once(wa, {"HELLO"}, Hello)
    /\ ac.rejected => Silent(dc, ac, wd)

TakenFrom(w, u) == u = w \/ u = <<>> \/ (w # <<>> /\ u = Tail(w))
Heads(w, code) == w # <<>> /\ Head(w).code = code

\* What a step does to the handshake, if it changes the channel from ch to x, takes from the
\* messages w and leaves u, and sends t.
Polite(near, ch, x, w, u, t) ==
    /\ x.life # "none" /\ TakenFrom(w, u)
    /\ Greeting(x.requests) =>
         None(t, {"HELLO"}) /\ (Greeting(ch.requests) \/ (near /\ ch.life = "none"))
    /\ ~None(t, {"HELLO"}) => Greeting(ch.requests) /\ Once(t, {"HELLO"}, Hello)
    /\ ~None(t, {"WORLD"}) => ~None(ch.responses, {"WORLD"})
    /\ ~None(x.responses, {"WORLD"}) => ~None(ch.responses, {"WORLD"}) \/ ch.at # "idle"
    /\ x.at # "idle" => ch.at # "idle" \/ (Heads(w, "HELLO") /\ u = Tail(w))
    /\ x.isActive => ch.isActive \/ ch.at # "idle" \/ Heads(w, "WORLD")
    /\ x.rejected =>
         \/ ch.rejected
         \/ /\ Heads(w, "HELLO") /\ u = <<>> /\ x.at = "idle" /\ ~x.isActive
            /\ None(x.responses, {"WORLD"}) /\ None(t, {"WORLD"})

LEMMA Taken ==
    ASSUME NEW S, NEW w \in Seq(S), NEW u, TakenFrom(w, u), NEW code
    PROVE  /\ u \in Seq(S)
           /\ None(w, {code}) => None(u, {code}) /\ ~Heads(w, code)
           /\ \A m : Once(w, {code}, m) =>
                /\ None(u, {code}) \/ Once(u, {code}, m)
                /\ Heads(w, code) /\ u = Tail(w) => None(u, {code})
<1>1. u \in Seq(S)
    BY HeadTailProperties, EmptySeq DEF TakenFrom
<1>2. ASSUME None(w, {code}) PROVE None(u, {code}) /\ ~Heads(w, code)
    BY <1>2, NoneTail, NoneEmpty DEF TakenFrom, Heads, None
<1>3. ASSUME NEW m, Once(w, {code}, m)
      PROVE  /\ None(u, {code}) \/ Once(u, {code}, m)
             /\ Heads(w, code) /\ u = Tail(w) => None(u, {code})
    <2>1. w # <<>> => IF Head(w).code \in {code} THEN m = Head(w) /\ None(Tail(w), {code})
                      ELSE Once(Tail(w), {code}, m)
        BY <1>3, OnceTail
    <2> QED BY <1>3, <2>1, NoneEmpty DEF TakenFrom, Heads
<1> QED BY <1>1, <1>2, <1>3

LEMMA ShakeNear ==
    ASSUME NEW dc, NEW ac, NEW wd \in Seq(Message), NEW wa \in Seq(Message),
           Shake(dc, ac, wd, wa),
           NEW x, NEW u, NEW t \in Seq(Message), Polite(TRUE, dc, x, wd, u, t),
           NEW v, v = wa \/ v = wa \o t
    PROVE  Shake(x, ac, u, v)
<1>1. /\ None(u, {"HELLO"}) /\ ~Heads(wd, "HELLO")
      /\ None(wd, {"WORLD"}) => None(u, {"WORLD"}) /\ ~Heads(wd, "WORLD")
    BY Taken DEF Shake, Polite
<1>2. ASSUME NEW C
      PROVE  /\ None(wa, C) /\ None(t, C) => None(v, C)
             /\ \A m : Once(wa, C, m) /\ None(t, C) => Once(v, C, m)
             /\ \A m : None(wa, C) /\ Once(t, C, m) => None(v, C) \/ Once(v, C, m)
    <2>1. /\ None(wa \o t, C) <=> None(wa, C) /\ None(t, C)
          /\ \A m : Once(wa, C, m) /\ None(t, C) => Once(wa \o t, C, m)
          /\ \A m : None(wa, C) /\ Once(t, C, m) => Once(wa \o t, C, m)
        BY Concatenated
    <2>2. CASE v = wa
        BY <2>2
    <2>3. CASE v = wa \o t
        BY <2>1, <2>3
    <2> QED BY <2>2, <2>3
<1>3. ~None(v, {"HELLO"}) => ~None(wa, {"HELLO"}) \/ ~None(t, {"HELLO"})
    BY <1>2
<1>4. x.at = "idle" /\ None(x.responses, {"WORLD"}) /\ None(t, {"WORLD"})
    BY <1>1 DEF Shake, Polite
<1>5. None(v, {"WORLD"})
    BY <1>2, <1>4 DEF Shake
<1>6. Silent(dc, ac, wd) => Silent(x, ac, u)
    BY <1>1 DEF Shake, Polite, Silent
<1>7. Greeting(x.requests) => None(v, {"HELLO"}) /\ Silent(x, ac, u) /\ ~ac.rejected
    BY <1>2, <1>6 DEF Shake, Polite
<1>8. ~None(v, {"HELLO"}) => Silent(x, ac, u) /\ ~ac.rejected
    BY <1>3, <1>6 DEF Shake, Polite
<1>9. None(v, {"HELLO"}) \/ Once(v, {"HELLO"}, Hello)
    BY <1>2 DEF Shake, Polite
<1>10. x.life # "none" /\ ~Greeting(ac.requests) /\ (ac.rejected => Silent(x, ac, u))
    BY <1>6 DEF Shake, Polite
<1> QED BY <1>1, <1>4, <1>5, <1>7, <1>8, <1>9, <1>10 DEF Shake

LEMMA ShakeFar ==
    ASSUME NEW dc, NEW ac, NEW wd \in Seq(Message), NEW wa \in Seq(Message),
           Shake(dc, ac, wd, wa),
           NEW x, NEW u, NEW t \in Seq(Message), Polite(FALSE, ac, x, wa, u, t),
           NEW v, v = wd \/ v = wd \o t
    PROVE  Shake(dc, x, v, u)
<1>1. /\ None(wa, {"HELLO"}) => None(u, {"HELLO"}) /\ ~Heads(wa, "HELLO")
      /\ Once(wa, {"HELLO"}, Hello) =>
           /\ None(u, {"HELLO"}) \/ Once(u, {"HELLO"}, Hello)
           /\ Heads(wa, "HELLO") /\ u = Tail(wa) => None(u, {"HELLO"})
      /\ None(u, {"WORLD"}) /\ ~Heads(wa, "WORLD")
    BY Taken DEF Shake, Polite
<1>2. ASSUME NEW C, None(wd, C), None(t, C) PROVE None(v, C)
    <2>1. None(wd \o t, C) <=> None(wd, C) /\ None(t, C)
        BY Concatenated
    <2> QED BY <1>2, <2>1
<1>3. ~Greeting(x.requests) /\ None(t, {"HELLO"})
    BY DEF Shake, Polite
<1>4. None(v, {"HELLO"})
    BY <1>2, <1>3 DEF Shake
<1>5. ASSUME Silent(dc, ac, wd), ~(Heads(wa, "HELLO") /\ u = Tail(wa))
      PROVE  Silent(dc, x, v)
    BY <1>1, <1>2, <1>5 DEF Polite, Silent
<1>6. None(u, {"HELLO"}) \/ Once(u, {"HELLO"}, Hello)
    BY <1>1 DEF Shake
<1>7. ASSUME dc.life = "none" \/ Greeting(dc.requests)
      PROVE  None(u, {"HELLO"}) /\ Silent(dc, x, v) /\ ~x.rejected
    BY <1>1, <1>5, <1>7 DEF Shake, Polite
<1>8. ASSUME ~None(u, {"HELLO"})
      PROVE  Silent(dc, x, v) /\ ~x.rejected
    <2>1. Silent(dc, ac, wd) /\ ~ac.rejected /\ ~(Heads(wa, "HELLO") /\ u = Tail(wa)) /\ u # <<>>
        BY <1>1, <1>8, NoneEmpty DEF Shake
    <2> QED BY <1>5, <2>1 DEF Polite
<1>9. ASSUME x.rejected
      PROVE  Silent(dc, x, v)
    <2>1. CASE ac.rejected
        <3>1. None(wa, {"HELLO"}) /\ Silent(dc, ac, wd)
            BY <2>1 DEF Shake
        <3> QED BY <1>1, <1>5, <3>1
    <2>2. CASE ~ac.rejected
        <3>1. /\ Heads(wa, "HELLO") /\ x.at = "idle" /\ ~x.isActive
              /\ None(x.responses, {"WORLD"}) /\ None(t, {"WORLD"})
            BY <1>9, <2>2 DEF Polite
        <3>2. Silent(dc, ac, wd)
            BY <1>1, <3>1 DEF Shake
        <3> QED BY <1>2, <3>1, <3>2 DEF Silent
    <2> QED BY <2>1, <2>2
<1> QED BY <1>1, <1>3, <1>4, <1>6, <1>7, <1>8, <1>9 DEF Shake

----------------------------------------------------------------------------
(* The request at the head of a channel's line, between the channel with the messages we on
   their way to it, and its peer's channel oc with wo. *)
Still(wo, oc, we) ==
    None(wo, Kinds) /\ oc.at = "idle" /\ oc.responses = <<>> /\ None(we, Replies)

\* On the wire, in the peer's hands, queued there, on the wire back.
Travels(m, wo, oc, we) ==
    \/ Once(wo, Kinds, m) /\ oc.at = "idle" /\ oc.responses = <<>> /\ None(we, Replies)
    \/ None(wo, Kinds) /\ oc.at # "idle" /\ oc.responses = <<>> /\ None(we, Replies) /\ m = Hello
    \/ None(wo, Kinds) /\ oc.at = "idle" /\ oc.responses = <<AnswerTo(m)>> /\ None(we, Replies)
    \/ None(wo, Kinds) /\ oc.at = "idle" /\ oc.responses = <<>> /\ Once(we, Replies, AnswerTo(m))

\* un: the peer gave no answer.
Lone(q, un, wo, oc, we) ==
    /\ un => Out(q)
    /\ IF Out(q) /\ ~un THEN Travels(q[1].msg, wo, oc, we) ELSE Still(wo, oc, we)

Passes(w, u, C) == u = w \/ (w # <<>> /\ u = Tail(w) /\ Head(w).code \notin C)

\* What a step does to the line of its own channel, which becomes x: nothing to the head, or
\* it sends the head, or reads its answer.
Own(q, x, w, u, t) ==
    \/ /\ Out(x) <=> Out(q)
       /\ Out(q) => x[1].msg = q[1].msg
       /\ None(t, Kinds) /\ Passes(w, u, Replies)
    \/ /\ ~Out(q) /\ Out(x) /\ Once(t, Kinds, x[1].msg) /\ u = w
    \/ /\ w # <<>> /\ Head(w).code \in Replies /\ u = Tail(w) /\ None(t, Kinds)
       /\ Out(q) /\ Head(w).code = Answers[q[1].msg.code] => ~Out(x)

\* What it does to the peer's line: nothing, or it takes the request, answers HELLO at last,
\* or sends the answer.
ToPeer(oc, x, w, u, t, un, unNext) ==
    \/ /\ x.responses = oc.responses /\ (x.at = "idle" <=> oc.at = "idle")
       /\ None(t, Replies) /\ Passes(w, u, Kinds) /\ (unNext <=> un)
    \/ /\ w # <<>> /\ Head(w).code \in Kinds /\ u = Tail(w) /\ None(t, Replies) /\ oc.at = "idle"
       /\ \/ Head(w) = Hello /\ x.at # "idle" /\ x.responses = oc.responses /\ (unNext <=> un)
          \/ /\ x.at = "idle" /\ x.responses = Append(oc.responses, AnswerTo(Head(w)))
             /\ unNext <=> un
          \/ x.at = "idle" /\ x.responses = oc.responses /\ unNext
    \/ /\ oc.at # "idle" /\ x.at = "idle" /\ x.responses = Append(oc.responses, AnswerTo(Hello))
       /\ u = w /\ None(t, Replies) /\ (unNext <=> un)
    \/ /\ oc.responses # <<>> /\ x.responses = Tail(oc.responses)
       /\ (x.at = "idle" <=> oc.at = "idle") /\ u = w
       /\ \/ Once(t, Replies, Head(oc.responses)) /\ (unNext <=> un)
          \/ None(t, Replies) /\ unNext

LEMMA Passed ==
    ASSUME NEW S, NEW w \in Seq(S), NEW u, NEW C, Passes(w, u, C)
    PROVE  /\ None(w, C) => None(u, C)
           /\ \A m : Once(w, C, m) => Once(u, C, m)
<1>1. CASE u = w
    BY <1>1
<1>2. CASE w # <<>> /\ u = Tail(w) /\ Head(w).code \notin C
    BY <1>2, NoneTail, OnceTail
<1> QED BY <1>1, <1>2 DEF Passes

LEMMA LoneOwn ==
    ASSUME NEW q \in Seq(Entry), NEW un \in BOOLEAN, NEW wo \in Seq(Message), NEW oc,
           NEW we \in Seq(Message), Lone(q, un, wo, oc, we),
           NEW x, NEW u, NEW t \in Seq(Message), Own(q, x, we, u, t)
    PROVE  Lone(x, un, wo \o t, oc, u)
<1>1. /\ None(wo \o t, Kinds) <=> None(wo, Kinds) /\ None(t, Kinds)
      /\ \A m : Once(wo, Kinds, m) /\ None(t, Kinds) => Once(wo \o t, Kinds, m)
      /\ \A m : None(wo, Kinds) /\ Once(t, Kinds, m) => Once(wo \o t, Kinds, m)
    BY Concatenated
<1>2. CASE /\ Out(x) <=> Out(q)
           /\ Out(q) => x[1].msg = q[1].msg
           /\ None(t, Kinds) /\ Passes(we, u, Replies)
    <2>1. /\ None(we, Replies) => None(u, Replies)
          /\ \A m : Once(we, Replies, m) => Once(u, Replies, m)
        BY <1>2, Passed
    <2>2. Still(wo, oc, we) => Still(wo \o t, oc, u)
        BY <1>1, <1>2, <2>1 DEF Still
    <2>3. \A m : Travels(m, wo, oc, we) => Travels(m, wo \o t, oc, u)
        BY <1>1, <1>2, <2>1 DEF Travels
    <2> QED BY <1>2, <2>2, <2>3 DEF Lone
<1>3. CASE ~Out(q) /\ Out(x) /\ Once(t, Kinds, x[1].msg) /\ u = we
    <2>1. Still(wo, oc, we) /\ ~un
        BY <1>3 DEF Lone
    <2>2. Travels(x[1].msg, wo \o t, oc, u)
        BY <1>1, <1>3, <2>1 DEF Still, Travels
    <2> QED BY <1>3, <2>1, <2>2 DEF Lone
<1>4. CASE /\ we # <<>> /\ Head(we).code \in Replies /\ u = Tail(we) /\ None(t, Kinds)
           /\ Out(q) /\ Head(we).code = Answers[q[1].msg.code] => ~Out(x)
    <2>1. ~None(we, Replies)
        BY <1>4, NoneTail
    <2>2. /\ Out(q) /\ ~un /\ None(wo, Kinds) /\ oc.at = "idle" /\ oc.responses = <<>>
          /\ Once(we, Replies, AnswerTo(q[1].msg))
        BY <2>1 DEF Lone, Still, Travels
    <2>3. AnswerTo(q[1].msg) = Head(we) /\ None(u, Replies)
        BY <1>4, <2>2, OnceTail
    <2>4. q[1].msg \in [code : Kinds, id : Nat]
        <3>1. 1 \in 1..Len(q)
            BY <2>2, EmptySeq DEF Out
        <3>2. q[1] \in Entry
            BY <3>1, ElementOfSeq
        <3> QED BY <3>2 DEF Entry
    <2>5. ~Out(x)
        BY <1>4, <2>2, <2>3, <2>4, AnswerIs
    <2> QED BY <1>1, <1>4, <2>2, <2>3, <2>5 DEF Lone, Still
<1> QED BY <1>2, <1>3, <1>4 DEF Own

LEMMA LonePeer ==
    ASSUME NEW q \in Seq(Entry), NEW un \in BOOLEAN, NEW wo \in Seq(Message), NEW oc,
           NEW we \in Seq(Message), Lone(q, un, wo, oc, we),
           NEW x, NEW u, NEW t \in Seq(Message), NEW unNext \in BOOLEAN,
           ToPeer(oc, x, wo, u, t, un, unNext), oc.responses \in Seq(Reply)
    PROVE  Lone(q, unNext, u, x, we \o t)
<1>1. /\ None(we \o t, Replies) <=> None(we, Replies) /\ None(t, Replies)
      /\ \A m : Once(we, Replies, m) /\ None(t, Replies) => Once(we \o t, Replies, m)
      /\ \A m : None(we, Replies) /\ Once(t, Replies, m) => Once(we \o t, Replies, m)
    BY Concatenated
<1>2. CASE /\ x.responses = oc.responses /\ (x.at = "idle" <=> oc.at = "idle")
           /\ None(t, Replies) /\ Passes(wo, u, Kinds) /\ (unNext <=> un)
    <2>1. /\ None(wo, Kinds) => None(u, Kinds)
          /\ \A m : Once(wo, Kinds, m) => Once(u, Kinds, m)
        BY <1>2, Passed
    <2>2. Still(wo, oc, we) => Still(u, x, we \o t)
        BY <1>1, <1>2, <2>1 DEF Still
    <2>3. \A m : Travels(m, wo, oc, we) => Travels(m, u, x, we \o t)
        BY <1>1, <1>2, <2>1 DEF Travels
    <2> QED BY <1>2, <2>2, <2>3 DEF Lone
<1>3. CASE /\ wo # <<>> /\ Head(wo).code \in Kinds /\ u = Tail(wo) /\ None(t, Replies)
           /\ oc.at = "idle"
           /\ \/ Head(wo) = Hello /\ x.at # "idle" /\ x.responses = oc.responses /\ (unNext <=> un)
              \/ /\ x.at = "idle" /\ x.responses = Append(oc.responses, AnswerTo(Head(wo)))
                 /\ unNext <=> un
              \/ x.at = "idle" /\ x.responses = oc.responses /\ unNext
    <2>1. ~None(wo, Kinds)
        BY <1>3, NoneTail
    <2>2. /\ Out(q) /\ ~un /\ Once(wo, Kinds, q[1].msg) /\ oc.responses = <<>> /\ None(we, Replies)
        BY <2>1 DEF Lone, Still, Travels
    <2>3. q[1].msg = Head(wo) /\ None(u, Kinds)
        BY <1>3, <2>2, OnceTail
    <2>4. Append(oc.responses, AnswerTo(Head(wo))) = <<AnswerTo(Head(wo))>>
        BY <2>2
    <2>5. CASE Head(wo) = Hello /\ x.at # "idle" /\ x.responses = oc.responses /\ (unNext <=> un)
        BY <1>1, <1>3, <2>2, <2>3, <2>5 DEF Lone, Travels
    <2>6. CASE /\ x.at = "idle" /\ x.responses = Append(oc.responses, AnswerTo(Head(wo)))
               /\ unNext <=> un
        BY <1>1, <1>3, <2>2, <2>3, <2>4, <2>6 DEF Lone, Travels
    <2>7. CASE x.at = "idle" /\ x.responses = oc.responses /\ unNext
        BY <1>1, <1>3, <2>2, <2>3, <2>7 DEF Lone, Still
    <2> QED BY <1>3, <2>5, <2>6, <2>7
<1>4. CASE /\ oc.at # "idle" /\ x.at = "idle" /\ x.responses = Append(oc.responses, AnswerTo(Hello))
           /\ u = wo /\ None(t, Replies) /\ (unNext <=> un)
    <2>1. /\ Out(q) /\ ~un /\ None(wo, Kinds) /\ oc.responses = <<>> /\ None(we, Replies)
          /\ q[1].msg = Hello
        BY <1>4 DEF Lone, Still, Travels
    <2>2. Append(oc.responses, AnswerTo(Hello)) = <<AnswerTo(Hello)>>
        BY <2>1
    <2> QED BY <1>1, <1>4, <2>1, <2>2 DEF Lone, Travels
<1>5. CASE /\ oc.responses # <<>> /\ x.responses = Tail(oc.responses)
           /\ (x.at = "idle" <=> oc.at = "idle") /\ u = wo
           /\ \/ Once(t, Replies, Head(oc.responses)) /\ (unNext <=> un)
              \/ None(t, Replies) /\ unNext
    <2>1. /\ Out(q) /\ ~un /\ None(wo, Kinds) /\ oc.at = "idle" /\ None(we, Replies)
          /\ oc.responses = <<AnswerTo(q[1].msg)>>
        BY <1>5 DEF Lone, Still, Travels
    <2>2. Head(oc.responses) = AnswerTo(q[1].msg) /\ Tail(oc.responses) = <<>>
        BY <2>1
    <2>3. CASE Once(t, Replies, Head(oc.responses)) /\ (unNext <=> un)
        BY <1>1, <1>5, <2>1, <2>2, <2>3 DEF Lone, Travels
    <2>4. CASE None(t, Replies) /\ unNext
        BY <1>1, <1>5, <2>1, <2>2, <2>4 DEF Lone, Still
    <2> QED BY <1>5, <2>3, <2>4
<1> QED BY <1>2, <1>3, <1>4, <1>5 DEF ToPeer

\* Such a line shows each request as often as RequestUnderWay counts it.
LEMMA LoneCounts ==
    ASSUME NEW q \in Seq(Entry), NEW un \in BOOLEAN, NEW wo \in Seq(Message), NEW oc,
           NEW we \in Seq(Message), Lone(q, un, wo, oc, we), oc.responses \in Seq(Reply),
           NEW a, NEW p, NEW chosen, InLine(q, a, p, chosen), NEW i \in DOMAIN q
    PROVE  LET m == q[i].msg IN
           Count(wo, m) + Count(oc.responses, AnswerTo(m)) + Count(we, AnswerTo(m))
              + (IF m.code = "HELLO" /\ oc.at # "idle" THEN 1 ELSE 0)
           = IF i = 1 /\ q[i].sent /\ ~q[i].isAnswered /\ ~un THEN 1 ELSE 0
<1> DEFINE m == q[i].msg
<1>1. /\ m \in [code : Kinds, id : Nat] /\ 1 \in DOMAIN q /\ q # <<>>
      /\ q[1].msg \in [code : Kinds, id : Nat]
    <2>1. i \in 1..Len(q) /\ Len(q) \in Nat /\ DOMAIN q = 1..Len(q)
        BY LenProperties
    <2>2. 1 \in 1..Len(q) /\ q # <<>>
        BY <2>1, EmptySeq
    <2>3. q[i] \in Entry /\ q[1] \in Entry
        BY <2>1, <2>2, ElementOfSeq
    <2> QED BY <2>1, <2>2, <2>3 DEF Entry
<1>2. AnswerTo(m) \in Reply
    BY <1>1, AnswerIs
<1>3. ASSUME NEW s, NEW C, NEW k, k.code \in C, None(s, C) PROVE Count(s, k) = 0
    <2>1. {j \in DOMAIN s : s[j] = k} = {}
        BY <1>3 DEF None
    <2> QED BY <2>1, FS_EmptySet DEF Count
<1>4. ASSUME NEW s, NEW C, NEW k, k.code \in C, NEW l, Once(s, C, l)
      PROVE  Count(s, k) = IF k = l THEN 1 ELSE 0
    <2>1. PICK j \in DOMAIN s : s[j] = l /\ l.code \in C /\ \A h \in DOMAIN s \ {j} : s[h].code \notin C
        BY <1>4 DEF Once
    <2>2. CASE k = l
        <3>1. {h \in DOMAIN s : s[h] = k} = {j}
            BY <1>4, <2>1, <2>2
        <3> QED BY <2>2, <3>1, FS_Singleton DEF Count
    <2>3. CASE k # l
        <3>1. {h \in DOMAIN s : s[h] = k} = {}
            BY <1>4, <2>1, <2>3
        <3> QED BY <2>3, <3>1, FS_EmptySet DEF Count
    <2> QED BY <2>2, <2>3
<1>5. m.code \in Kinds /\ AnswerTo(m).code \in Replies
    BY <1>1, <1>2 DEF Reply
<1>6. CASE ~(Out(q) /\ ~un)
    <2>1. Still(wo, oc, we)
        BY <1>6 DEF Lone
    <2>2. Count(wo, m) = 0 /\ Count(we, AnswerTo(m)) = 0 /\ Count(oc.responses, AnswerTo(m)) = 0
        BY <1>3, <1>5, <2>1, NoneEmpty DEF Still
    <2>3. ~(i = 1 /\ q[i].sent /\ ~q[i].isAnswered /\ ~un)
        BY <1>1, <1>6 DEF Out
    <2> QED BY <2>1, <2>2, <2>3 DEF Still
<1>7. CASE Out(q) /\ ~un
    <2> DEFINE l == q[1].msg
    <2>1. Travels(l, wo, oc, we)
        BY <1>7 DEF Lone
    <2>2. i = 1 <=> m = l
        BY <1>1 DEF InLine
    <2>3. (i = 1 /\ q[i].sent /\ ~q[i].isAnswered /\ ~un) <=> m = l
        BY <1>7, <2>2 DEF Out
    <2>4. m = l <=> AnswerTo(m) = AnswerTo(l)
        <3>1. m.code = l.code /\ m.id = l.id <=> m = l
            BY <1>1
        <3> QED BY <1>1, <3>1, AnswersAre DEF AnswerTo, Kinds
    <2>5. m = Hello => m.code = "HELLO"
        BY DEF Hello, Request
    <2>6. m.code = "HELLO" /\ l.code = "HELLO" => m = l
        BY <1>1, <2>2 DEF InLine
    <2> HIDE DEF l, m
    <2>7. CASE Once(wo, Kinds, l) /\ oc.at = "idle" /\ oc.responses = <<>> /\ None(we, Replies)
        <3>1. /\ Count(wo, m) = IF m = l THEN 1 ELSE 0
              /\ Count(we, AnswerTo(m)) = 0 /\ Count(oc.responses, AnswerTo(m)) = 0
            BY <1>3, <1>4, <1>5, <2>7, NoneEmpty
        <3> QED BY <2>3, <2>7, <3>1 DEF m
    <2>8. CASE /\ None(wo, Kinds) /\ oc.at # "idle" /\ oc.responses = <<>> /\ None(we, Replies)
               /\ l = Hello
        <3>1. Count(wo, m) = 0 /\ Count(we, AnswerTo(m)) = 0 /\ Count(oc.responses, AnswerTo(m)) = 0
            BY <1>3, <1>5, <2>8, NoneEmpty
        <3>2. m.code = "HELLO" <=> m = l
            BY <2>5, <2>6, <2>8 DEF Hello, Request
        <3> QED BY <2>3, <2>8, <3>1, <3>2 DEF m
    <2>9. CASE /\ None(wo, Kinds) /\ oc.at = "idle" /\ oc.responses = <<AnswerTo(l)>>
               /\ None(we, Replies)
        <3>1. AnswerTo(l).code \in Replies
            BY <1>1, AnswerIs DEF Reply, l
        <3>2. Once(oc.responses, Replies, AnswerTo(l))
            BY <2>9, <3>1, OnceOne
        <3>3. /\ Count(wo, m) = 0 /\ Count(we, AnswerTo(m)) = 0
              /\ Count(oc.responses, AnswerTo(m)) = IF AnswerTo(m) = AnswerTo(l) THEN 1 ELSE 0
            BY <1>3, <1>4, <1>5, <2>9, <3>2
        <3> QED BY <2>3, <2>4, <2>9, <3>3 DEF m
    <2>10. CASE /\ None(wo, Kinds) /\ oc.at = "idle" /\ oc.responses = <<>>
                /\ Once(we, Replies, AnswerTo(l))
        <3>1. /\ Count(wo, m) = 0 /\ Count(oc.responses, AnswerTo(m)) = 0
              /\ Count(we, AnswerTo(m)) = IF AnswerTo(m) = AnswerTo(l) THEN 1 ELSE 0
            BY <1>3, <1>4, <1>5, <2>10, NoneEmpty
        <3> QED BY <2>3, <2>4, <2>10, <3>1 DEF m
    <2> QED BY <2>1, <2>7, <2>8, <2>9, <2>10 DEF Travels
<1> QED BY <1>6, <1>7

----------------------------------------------------------------------------
(* The invariant about what is under way. *)
Near(c) == <<c, Dialer(c)>>
Far(c) == <<c, Acceptor(c)>>

Unclosed(e) == channel[e].life \in {"none", "open"}
Stands(e) == e[1] \notin broken /\ Unclosed(e) /\ Unclosed(OtherEnd(e))

Wired == wire = [e \in Ends |-> wire[e]] /\ \A e \in Ends : wire[e] \in Seq(Message)
Numbered == asked \in Nat /\ pinged \in Nat /\ sending \in [Nodes -> Conns \cup {NoConn}]

Queued == \A e \in Ends :
    /\ channel[e].requests \in Seq(Entry) /\ channel[e].responses \in Seq(Reply)
    /\ channel[e].initialized = (channel[e].life = "open")
    /\ channel[e].life = "none" => channel[e].requests = <<>> /\ channel[e].responses = <<>>

\* The sync sends on a channel of its node that was opened.
Chosen == \A n \in Nodes : sending[n] # NoConn =>
    <<sending[n], n>> \in Ends /\ channel[<<sending[n], n>>].life # "none"

Lined == \A e \in Ends : InLine(channel[e].requests, asked, pinged, sending[e[2]] # NoConn)

Handshake(c) == Shake(channel[Near(c)], channel[Far(c)], wire[Near(c)], wire[Far(c)])
Shaken == \A c \in Conns : Handshake(c)

SentOnce == \A e \in Ends : Stands(e) =>
    Lone(channel[e].requests, e \in unanswered, wire[OtherEnd(e)], channel[OtherEnd(e)], wire[e])

Inv ==
    /\ Registry /\ Wired /\ Numbered /\ Queued /\ Chosen /\ Lined
    /\ Shaken /\ NeverAllRefused /\ SentOnce

LEMMA OtherEndIs ==
    ASSUME NEW e \in Ends
    PROVE  /\ OtherEnd(e) \in Ends /\ OtherEnd(e) # e /\ OtherEnd(e)[1] = e[1]
           /\ OtherEnd(OtherEnd(e)) = e
           /\ \/ e = Near(e[1]) /\ OtherEnd(e) = Far(e[1])
              \/ e = Far(e[1]) /\ OtherEnd(e) = Near(e[1])
<1>1. PICK c \in Conns, n \in Nodes : e = <<c, n>> /\ n \in {Dialer(c), Acceptor(c)}
    BY DEF Ends
<1>2. c[1] # c[2] /\ c[1] \in Nodes /\ c[2] \in Nodes
    BY ChannelsAssumption
<1>3. <<c, c[1]>> \in Ends /\ <<c, c[2]>> \in Ends
    BY <1>2 DEF Ends, Dialer, Acceptor
<1>4. CASE n = c[1]
    <2>1. e = <<c, c[1]>> /\ OtherEnd(e) = <<c, c[2]>>
        BY <1>1, <1>2, <1>4 DEF OtherEnd, Peer, IsInbound, Dialer, Acceptor
    <2>2. OtherEnd(<<c, c[2]>>) = <<c, c[1]>>
        BY DEF OtherEnd, Peer, IsInbound, Dialer, Acceptor
    <2>3. e # OtherEnd(e)
        BY <1>2, <2>1
    <2> QED BY <1>3, <2>1, <2>2, <2>3 DEF Near, Far, Dialer, Acceptor
<1>5. CASE n = c[2]
    <2>1. e = <<c, c[2]>> /\ OtherEnd(e) = <<c, c[1]>>
        BY <1>1, <1>5 DEF OtherEnd, Peer, IsInbound, Dialer, Acceptor
    <2>2. OtherEnd(<<c, c[1]>>) = <<c, c[2]>>
        BY <1>2 DEF OtherEnd, Peer, IsInbound, Dialer, Acceptor
    <2>3. e # OtherEnd(e)
        BY <1>2, <2>1
    <2> QED BY <1>3, <2>1, <2>2, <2>3 DEF Near, Far, Dialer, Acceptor
<1> QED BY <1>1, <1>4, <1>5 DEF Dialer, Acceptor

LEMMA EndsOf ==
    ASSUME NEW c \in Conns
    PROVE  /\ Near(c) \in Ends /\ Far(c) \in Ends /\ Near(c) # Far(c)
           /\ Near(c)[1] = c /\ Far(c)[1] = c
           /\ OtherEnd(Near(c)) = Far(c) /\ OtherEnd(Far(c)) = Near(c)
<1>1. c[1] # c[2] /\ c[1] \in Nodes /\ c[2] \in Nodes
    BY ChannelsAssumption
<1>2. <<c, c[1]>> \in Ends /\ <<c, c[2]>> \in Ends /\ <<c, c[1]>> # <<c, c[2]>>
    BY <1>1 DEF Ends, Dialer, Acceptor
<1>3. OtherEnd(<<c, c[1]>>) = <<c, c[2]>> /\ OtherEnd(<<c, c[2]>>) = <<c, c[1]>>
    BY <1>1 DEF OtherEnd, Peer, IsInbound, Dialer, Acceptor
<1> QED BY <1>2, <1>3 DEF Near, Far, Dialer, Acceptor

\* The channel of e becomes x, u is left of its messages, and t is sent.
Moved(e, x, u, t) ==
    /\ Becomes(e, x) /\ broken' = broken
    /\ wire' = [d \in Ends |-> wire'[d]] /\ wire'[e] = u
    /\ \A d \in Ends \ {e, OtherEnd(e)} : wire'[d] = wire[d]
    /\ wire'[OtherEnd(e)] = wire[OtherEnd(e)] \/ wire'[OtherEnd(e)] = wire[OtherEnd(e)] \o t
    /\ e[1] \notin broken /\ channel[OtherEnd(e)].life # "closed" =>
         wire'[OtherEnd(e)] = wire[OtherEnd(e)] \o t

\* The numbers of requests only grow, and a sync sends what it chose.
Later ==
    /\ Numbered' /\ asked' = asked /\ pinged <= pinged'
    /\ \A n \in Nodes : sending'[n] \in {sending[n], NoConn}

\* A step that keeps the channel of e, and what it says of the requests under way.
Proper(e, x, u, t) ==
    /\ Moved(e, x, u, t)
    /\ t \in Seq(Message) /\ x.requests \in Seq(Entry) /\ x.responses \in Seq(Reply)
    /\ x.initialized = (x.life = "open")
    /\ InLine(x.requests, asked', pinged', sending'[e[2]] # NoConn)
    /\ Polite(e = Near(e[1]), channel[e], x, wire[e], u, t)

Careful(e, x, u, t) ==
    /\ Own(channel[e].requests, x.requests, wire[e], u, t)
    /\ ToPeer(channel[e], x, wire[e], u, t, OtherEnd(e) \in unanswered, OtherEnd(e) \in unanswered')

\* Only a duplicate is rejected.
Spares(e, x) == x.rejected => channel[e].rejected \/ (Heads(wire[e], "HELLO") /\ Duplicated(e))

Answering(e) == \A d \in Ends \ {OtherEnd(e)} : d \in unanswered' <=> d \in unanswered

LEMMA ProperKeeps ==
    ASSUME Inv, Registry', Later, NEW e \in Ends, NEW x, NEW u, NEW t, Proper(e, x, u, t)
    PROVE  Wired' /\ Numbered' /\ Queued' /\ Chosen' /\ Lined' /\ Shaken'
<1> DEFINE o == OtherEnd(e)
<1>1. /\ o \in Ends /\ o # e /\ o[1] = e[1]
      /\ \/ e = Near(e[1]) /\ o = Far(e[1])
         \/ e = Far(e[1]) /\ o = Near(e[1])
    BY OtherEndIs
<1> HIDE DEF o
<1>2. /\ channel'[e] = x /\ \A d \in Ends \ {e} : channel'[d] = channel[d]
      /\ wire'[e] = u /\ \A d \in Ends \ {e, o} : wire'[d] = wire[d]
      /\ wire'[o] = wire[o] \/ wire'[o] = wire[o] \o t
      /\ wire' = [d \in Ends |-> wire'[d]] /\ t \in Seq(Message)
    BY DEF Proper, Moved, Becomes, o
<1>3. \A d \in Ends : wire[d] \in Seq(Message)
    BY DEF Inv, Wired
<1>4. u \in Seq(Message)
    BY <1>3, Taken DEF Proper, Polite
<1>5. Wired'
    <2>1. wire'[o] \in Seq(Message)
        <3>1. wire[o] \in Seq(Message) /\ t \in Seq(Message)
            BY <1>1, <1>2, <1>3
        <3>2. wire[o] \o t \in Seq(Message)
            BY <3>1, ConcatProperties
        <3> QED BY <1>2, <3>1, <3>2
    <2> QED BY <1>2, <1>3, <1>4, <2>1 DEF Wired
<1>6. Queued'
    <2>1. /\ x.requests \in Seq(Entry) /\ x.responses \in Seq(Reply)
          /\ x.initialized = (x.life = "open") /\ x.life # "none"
        BY DEF Proper, Polite
    <2> QED BY <1>2, <2>1 DEF Inv, Queued
<1>7. Lined'
    <2> SUFFICES ASSUME NEW d \in Ends
                 PROVE  InLine(channel'[d].requests, asked', pinged', sending'[d[2]] # NoConn)
        BY DEF Lined
    <2>1. CASE d = e
        BY <1>2, <2>1 DEF Proper
    <2>2. CASE d # e
        <3>1. channel'[d] = channel[d] /\ channel[d].requests \in Seq(Entry) /\ d[2] \in Nodes
            BY <1>2, <2>2, EndsAre DEF Inv, Queued
        <3>2. /\ asked \in Nat /\ pinged \in Nat /\ asked' \in Nat /\ pinged' \in Nat
              /\ asked <= asked' /\ pinged <= pinged'
              /\ (sending'[d[2]] # NoConn) => (sending[d[2]] # NoConn)
            BY <3>1 DEF Inv, Numbered, Later
        <3>3. InLine(channel[d].requests, asked, pinged, sending[d[2]] # NoConn)
            BY DEF Inv, Lined
        <3> QED BY <3>1, <3>2, <3>3, InLineLater
    <2> QED BY <2>1, <2>2
<1>8. Shaken'
    <2> SUFFICES ASSUME NEW c \in Conns PROVE Handshake(c)'
        BY DEF Shaken
    <2> SUFFICES Shake(channel'[Near(c)], channel'[Far(c)], wire'[Near(c)], wire'[Far(c)])
        BY DEF Handshake, Near, Far, Dialer, Acceptor
    <2>1. /\ Near(c) \in Ends /\ Far(c) \in Ends /\ Near(c) # Far(c)
          /\ Near(c)[1] = c /\ Far(c)[1] = c
        BY EndsOf
    <2>2. Shake(channel[Near(c)], channel[Far(c)], wire[Near(c)], wire[Far(c)])
        BY DEF Inv, Shaken, Handshake
    <2>3. CASE c # e[1]
        <3>1. Near(c) \notin {e, o} /\ Far(c) \notin {e, o}
            BY <1>1, <2>1, <2>3
        <3>2. /\ channel'[Near(c)] = channel[Near(c)] /\ channel'[Far(c)] = channel[Far(c)]
              /\ wire'[Near(c)] = wire[Near(c)] /\ wire'[Far(c)] = wire[Far(c)]
            BY <1>2, <2>1, <3>1
        <3> QED BY <2>2, <3>2
    <2>4. CASE c = e[1] /\ e = Near(c)
        <3>1. o = Far(c) /\ channel'[Far(c)] = channel[Far(c)]
            BY <1>1, <1>2, <2>1, <2>4
        <3>2. Polite(TRUE, channel[Near(c)], x, wire[Near(c)], u, t)
            BY <2>4 DEF Proper
        <3>3. /\ wire[Near(c)] \in Seq(Message) /\ wire[Far(c)] \in Seq(Message) /\ t \in Seq(Message)
              /\ wire'[Far(c)] = wire[Far(c)] \/ wire'[Far(c)] = wire[Far(c)] \o t
            BY <1>2, <1>3, <2>1, <3>1
        <3>4. Shake(x, channel[Far(c)], u, wire'[Far(c)])
            BY ONLY <2>2, <3>2, <3>3, ShakeNear
        <3> QED BY <1>2, <2>4, <3>1, <3>4
    <2>5. CASE c = e[1] /\ e # Near(c)
        <3>1. e = Far(c) /\ o = Near(c) /\ channel'[Near(c)] = channel[Near(c)]
            BY <1>1, <1>2, <2>1, <2>5
        <3>2. Polite(FALSE, channel[Far(c)], x, wire[Far(c)], u, t)
            BY <2>5, <3>1 DEF Proper
        <3>3. /\ wire[Near(c)] \in Seq(Message) /\ wire[Far(c)] \in Seq(Message) /\ t \in Seq(Message)
              /\ wire'[Near(c)] = wire[Near(c)] \/ wire'[Near(c)] = wire[Near(c)] \o t
            BY <1>2, <1>3, <2>1, <3>1
        <3>4. Shake(channel[Near(c)], x, wire'[Near(c)], u)
            BY ONLY <2>2, <3>2, <3>3, ShakeFar
        <3> QED BY <1>2, <3>1, <3>4
    <2> QED BY <2>3, <2>4, <2>5
<1>9. Numbered' /\ Chosen'
    <2>1. ASSUME NEW d \in Ends, channel[d].life # "none" PROVE channel'[d].life # "none"
        BY <1>2, <2>1 DEF Proper, Polite
    <2> SUFFICES ASSUME NEW n \in Nodes, sending'[n] # NoConn
                 PROVE  <<sending'[n], n>> \in Ends /\ channel'[<<sending'[n], n>>].life # "none"
        BY DEF Later, Chosen
    <2>2. sending'[n] = sending[n]
        BY DEF Later
    <2>3. <<sending[n], n>> \in Ends /\ channel[<<sending[n], n>>].life # "none"
        BY <2>2 DEF Inv, Chosen
    <2> QED BY <2>1, <2>2, <2>3
<1> QED BY <1>5, <1>6, <1>7, <1>8, <1>9

LEMMA CarefulKeeps ==
    ASSUME Inv, NEW e \in Ends, NEW x, NEW u, NEW t, Proper(e, x, u, t),
           Unclosed(e)' => Careful(e, x, u, t) /\ Unclosed(e), Answering(e)
    PROVE  SentOnce'
<1> SUFFICES ASSUME NEW d \in Ends, Stands(d)'
             PROVE  Lone(channel'[d].requests, d \in unanswered', wire'[OtherEnd(d)],
                         channel'[OtherEnd(d)], wire'[d])
    BY DEF SentOnce, OtherEnd, Peer, IsInbound, Dialer, Acceptor
<1> DEFINE o == OtherEnd(e)
<1>1. /\ o \in Ends /\ o # e /\ o[1] = e[1] /\ OtherEnd(o) = e
      /\ OtherEnd(d) \in Ends /\ OtherEnd(OtherEnd(d)) = d /\ OtherEnd(d)[1] = d[1]
    BY OtherEndIs
<1>2. /\ channel'[e] = x /\ \A f \in Ends \ {e} : channel'[f] = channel[f]
      /\ wire'[e] = u /\ \A f \in Ends \ {e, o} : wire'[f] = wire[f]
      /\ e[1] \notin broken /\ channel[o].life # "closed" => wire'[o] = wire[o] \o t
      /\ t \in Seq(Message) /\ broken' = broken
    BY DEF Proper, Moved, Becomes
<1>3. \A f \in Ends : wire[f] \in Seq(Message) /\ channel[f].requests \in Seq(Entry)
                      /\ channel[f].responses \in Seq(Reply)
    BY DEF Inv, Wired, Queued
<1>4. /\ d[1] \notin broken /\ channel'[d].life \in {"none", "open"}
      /\ channel'[OtherEnd(d)].life \in {"none", "open"}
    BY <1>2 DEF Stands, Unclosed, OtherEnd, Peer, IsInbound, Dialer, Acceptor
<1>5. CASE d \notin {e, o}
    <2>1. OtherEnd(d) \notin {e, o}
        BY <1>1, <1>5
    <2>2. /\ channel'[d] = channel[d] /\ channel'[OtherEnd(d)] = channel[OtherEnd(d)]
          /\ wire'[d] = wire[d] /\ wire'[OtherEnd(d)] = wire[OtherEnd(d)]
          /\ d \in unanswered' <=> d \in unanswered
        BY <1>1, <1>2, <1>5, <2>1 DEF Answering
    <2>3. Stands(d)
        BY <1>4, <2>2 DEF Stands, Unclosed
    <2>4. Lone(channel[d].requests, d \in unanswered, wire[OtherEnd(d)], channel[OtherEnd(d)], wire[d])
        BY <2>3 DEF Inv, SentOnce
    <2>5. (d \in unanswered') = (d \in unanswered)
        BY <2>2
    <2> QED BY <2>2, <2>4, <2>5
<1>6. ASSUME d \in {e, o}
      PROVE  /\ Careful(e, x, u, t) /\ Stands(e) /\ Stands(o) /\ wire'[o] = wire[o] \o t
             /\ channel'[o] = channel[o]
    <2>1. channel'[e].life \in {"none", "open"} /\ channel'[o].life \in {"none", "open"} /\ e[1] \notin broken
        BY <1>1, <1>4, <1>6
    <2>2. Careful(e, x, u, t) /\ Unclosed(e)
        BY <2>1 DEF Unclosed
    <2>3. channel'[o] = channel[o] /\ Unclosed(o)
        BY <1>1, <1>2, <2>1 DEF Unclosed
    <2>4. channel[o].life # "closed"
        BY <2>3 DEF Unclosed
    <2> QED BY <1>1, <1>2, <2>1, <2>2, <2>3, <2>4 DEF Stands
<1>7. CASE d = e
    <2>1. Lone(channel[e].requests, e \in unanswered, wire[o], channel[o], wire[e])
        BY <1>6, <1>7 DEF Inv, SentOnce
    <2>2. Own(channel[e].requests, x.requests, wire[e], u, t)
        BY <1>6, <1>7 DEF Careful
    <2>3. Lone(x.requests, e \in unanswered, wire[o] \o t, channel[o], u)
        <3>1. /\ channel[e].requests \in Seq(Entry) /\ wire[o] \in Seq(Message)
              /\ wire[e] \in Seq(Message) /\ t \in Seq(Message) /\ (e \in unanswered) \in BOOLEAN
            BY <1>1, <1>2, <1>3
        <3> QED BY ONLY <2>1, <2>2, <3>1, LoneOwn
    <2>4. (e \in unanswered') = (e \in unanswered)
        BY <1>1 DEF Answering
    <2> QED BY <1>2, <1>6, <1>7, <2>3, <2>4
<1>8. CASE d = o
    <2>1. Lone(channel[o].requests, o \in unanswered, wire[e], channel[e], wire[o])
        BY <1>1, <1>6, <1>8 DEF Inv, SentOnce
    <2>2. ToPeer(channel[e], x, wire[e], u, t, o \in unanswered, o \in unanswered')
        BY <1>6, <1>8 DEF Careful
    <2>3. Lone(channel[o].requests, o \in unanswered', u, x, wire[o] \o t)
        <3>1. PICK q, wo, we, oc : q = channel[o].requests /\ wo = wire[e] /\ oc = channel[e] /\ we = wire[o]
            OBVIOUS
        <3>2. /\ q \in Seq(Entry) /\ wo \in Seq(Message) /\ we \in Seq(Message) /\ t \in Seq(Message)
              /\ oc.responses \in Seq(Reply)
            BY <1>1, <1>2, <1>3, <3>1
        <3>3. PICK un, unNext : un = (o \in unanswered) /\ unNext = (o \in unanswered')
            OBVIOUS
        <3>4. un \in BOOLEAN /\ unNext \in BOOLEAN
            BY <3>3
        <3>5. Lone(q, un, wo, oc, we) /\ ToPeer(oc, x, wo, u, t, un, unNext)
            BY <2>1, <2>2, <3>1, <3>3
        <3>6. Lone(q, unNext, u, x, we \o t)
            BY ONLY <3>2, <3>4, <3>5, LonePeer
        <3> QED BY <3>1, <3>3, <3>6
    <2> QED BY <1>1, <1>2, <1>6, <1>8, <2>3
<1> QED BY <1>5, <1>7, <1>8

LEMMA SparesKeeps ==
    ASSUME Inv, NEW e \in Ends, NEW x, NEW u, NEW t, Proper(e, x, u, t), Spares(e, x)
    PROVE  NeverAllRefused'
<1> DEFINE Fine(c) == channel'[Near(c)].life # "none" /\ ~channel'[Far(c)].rejected
<1>1. /\ channel'[e] = x /\ \A d \in Ends \ {e} : channel'[d] = channel[d]
      /\ x.life # "none"
    BY DEF Proper, Moved, Becomes, Polite
<1>2. SUFFICES ASSUME NEW c \in Conns, channel'[Near(c)].life # "none"
               PROVE  \E k \in Conns : Fine(k)
    BY DEF NeverAllRefused, Fresh, Near, Far, Dialer, Acceptor
<1>3. \A k \in Conns : /\ Near(k) \in Ends /\ Far(k) \in Ends /\ Near(k) # Far(k)
                        /\ Near(k)[1] = k /\ Far(k)[1] = k
    BY EndsOf
<1>4. \A k \in Conns : Shake(channel[Near(k)], channel[Far(k)], wire[Near(k)], wire[Far(k)])
    BY DEF Inv, Shaken, Handshake
<1>5. CASE \A k \in Conns : channel[Near(k)].life = "none"
    <2>1. channel[Near(c)].life = "none" /\ e = Near(c)
        BY <1>1, <1>2, <1>3, <1>5
    <2>2. ~channel[Far(c)].rejected /\ channel'[Far(c)] = channel[Far(c)]
        BY <1>1, <1>3, <1>4, <2>1 DEF Shake
    <2> QED BY <1>2, <2>2
<1>6. CASE \E k \in Conns : channel[Near(k)].life # "none"
    <2>1. PICK k \in Conns : channel[Near(k)].life # "none" /\ ~channel[Far(k)].rejected
        BY <1>6 DEF Inv, NeverAllRefused, Fresh, Near, Far
    <2>2. \A j \in Conns : channel[Near(j)].life # "none" => channel'[Near(j)].life # "none"
        BY <1>1, <1>3
    <2>3. CASE ~channel'[Far(k)].rejected
        BY <2>1, <2>2, <2>3
    <2>4. CASE channel'[Far(k)].rejected
        <3>1. e = Far(k) /\ Heads(wire[e], "HELLO") /\ active[e[2]][Peer(e)] # NoConn
            BY <1>1, <1>3, <2>1, <2>4 DEF Spares, Duplicated
        <3>2. PICK j : j = active[e[2]][Peer(e)]
            OBVIOUS
        <3>3. <<j, e[2]>> \in Ends /\ channel[<<j, e[2]>>].isActive
            BY <3>1, <3>2, EndsAre DEF Inv, Registry, Entered
        <3>4. j \in Conns /\ (<<j, e[2]>> = Near(j) \/ <<j, e[2]>> = Far(j))
            BY <3>3, EndsAre, OtherEndIs
        <3>5. ~channel[Near(k)].isActive /\ ~channel[Far(k)].isActive
            <4>1. wire[Far(k)] \in Seq(Message)
                BY <1>3 DEF Inv, Wired
            <4>2. ~None(wire[Far(k)], {"HELLO"})
                BY <3>1, <4>1, NoneTail DEF Heads
            <4> QED BY <1>4, <4>2 DEF Shake, Silent
        <3>6. j # k
            BY <3>3, <3>4, <3>5
        <3>7. ~channel[Far(j)].rejected /\ channel[Near(j)].life # "none"
            BY <1>4, <3>3, <3>4 DEF Shake, Silent
        <3>8. channel'[Far(j)] = channel[Far(j)]
            BY <1>1, <1>3, <3>1, <3>4, <3>6
        <3> QED BY <2>2, <3>4, <3>7, <3>8
    <2> QED BY <2>3, <2>4
<1> QED BY <1>5, <1>6

\* A step at one end that keeps all of it.
Stepped(e) ==
    /\ Later /\ Answering(e)
    /\ \E x, u, t :
        /\ Proper(e, x, u, t) /\ Spares(e, x)
        /\ Unclosed(e)' => Careful(e, x, u, t) /\ Unclosed(e)

LEMMA SteppedKeeps ==
    ASSUME Inv, Registry', NEW e \in Ends, Stepped(e)
    PROVE  Inv'
<1>1. PICK x, u, t : /\ Proper(e, x, u, t) /\ Spares(e, x)
                     /\ Unclosed(e)' => Careful(e, x, u, t) /\ Unclosed(e)
    BY DEF Stepped
<1>2. Later /\ Answering(e)
    BY DEF Stepped
<1>3. Wired' /\ Numbered' /\ Queued' /\ Chosen' /\ Lined' /\ Shaken'
    BY <1>1, <1>2, ProperKeeps
<1>4. SentOnce'
    BY <1>1, <1>2, CarefulKeeps
<1>5. NeverAllRefused'
    BY <1>1, SparesKeeps
<1> QED BY <1>3, <1>4, <1>5 DEF Inv

----------------------------------------------------------------------------
(* The same operators again, field by field, and the wires. *)
Kept(x, ch) ==
    /\ IsChannel(x) /\ x.life = ch.life /\ x.initialized = ch.initialized
    /\ x.isActive = ch.isActive /\ x.at = ch.at /\ x.rejected = ch.rejected

LEMMA EnqueuedFields ==
    ASSUME NEW ch, IsChannel(ch), NEW m, NEW x, x = Enqueued(ch, m)
    PROVE  /\ Kept(x, ch)
           /\ IsRequest(m) => /\ x.requests = Append(ch.requests, NewEntry(m))
                              /\ x.responses = ch.responses
           /\ ~IsRequest(m) => x.requests = ch.requests /\ x.responses = Append(ch.responses, m)
<1>1. PICK r : r = Append(ch.requests, NewEntry(m))
    OBVIOUS
<1>2. PICK q : q = Append(ch.responses, m)
    OBVIOUS
<1>3. x = IF IsRequest(m) THEN [ch EXCEPT !.requests = r] ELSE [ch EXCEPT !.responses = q]
    BY <1>1, <1>2 DEF Enqueued, NewEntry
<1>4. CASE IsRequest(m)
    <2>1. x = [ch EXCEPT !.requests = r]
        BY <1>3, <1>4
    <2>2. Kept(x, ch) /\ x.requests = r /\ x.responses = ch.responses
        BY ONLY <2>1, IsChannel(ch) DEF Kept, IsChannel
    <2> QED BY <1>1, <1>4, <2>2
<1>5. CASE ~IsRequest(m)
    <2>1. x = [ch EXCEPT !.responses = q]
        BY <1>3, <1>5
    <2>2. Kept(x, ch) /\ x.requests = ch.requests /\ x.responses = q
        BY ONLY <2>1, IsChannel(ch) DEF Kept, IsChannel
    <2> QED BY <1>2, <1>5, <2>2
<1> QED BY <1>4, <1>5

LEMMA AnsweredFields ==
    ASSUME NEW ch, IsChannel(ch), NEW m, NEW x, x = Answered(ch, m)
    PROVE  /\ Kept(x, ch) /\ x.responses = ch.responses
           /\ x.requests = IF ch.requests # <<>> /\ m.code = Answers[Head(ch.requests).msg.code]
                           THEN WithAnswer(ch.requests) ELSE ch.requests
<1>1. PICK r : r = WithAnswer(ch.requests)
    OBVIOUS
<1>2. [ch EXCEPT !.requests[1].isAnswered = TRUE] = [ch EXCEPT !.requests = r]
    BY <1>1 DEF WithAnswer, IsChannel
<1>3. CASE ch.requests # <<>> /\ m.code = Answers[Head(ch.requests).msg.code]
    <2>1. x = [ch EXCEPT !.requests = r]
        BY <1>2, <1>3 DEF Answered
    <2>2. Kept(x, ch) /\ x.requests = r /\ x.responses = ch.responses
        BY ONLY <2>1, IsChannel(ch) DEF Kept, IsChannel
    <2> QED BY <1>1, <1>3, <2>2
<1>4. CASE ~(ch.requests # <<>> /\ m.code = Answers[Head(ch.requests).msg.code])
    <2>1. x = ch
        BY <1>4 DEF Answered
    <2> QED BY <1>4, <2>1 DEF Kept
<1> QED BY <1>3, <1>4

LEMMA DisconnectedFields ==
    ASSUME NEW ch, IsChannel(ch), NEW x, x = Disconnected(ch)
    PROVE  /\ IsChannel(x) /\ x.life = "closing" /\ x.initialized = FALSE
           /\ x.isActive = ch.isActive /\ x.at = ch.at /\ x.rejected = ch.rejected
           /\ x.requests = ch.requests /\ x.responses = ch.responses
<1>1. x = [life |-> "closing", initialized |-> FALSE, isActive |-> ch.isActive,
           isHandshakeDone |-> ch.isHandshakeDone, at |-> ch.at, rejected |-> ch.rejected,
           requests |-> ch.requests, responses |-> ch.responses]
    BY DEF Disconnected, IsChannel
<1> QED BY ONLY <1>1 DEF IsChannel

\* w is the wires with u left of the messages to e.
Leaves(e, w, u) ==
    w = [d \in Ends |-> w[d]] /\ w[e] = u /\ \A d \in Ends \ {e} : w[d] = wire[d]

LEMMA LeavesAre ==
    ASSUME Wired, NEW e \in Ends
    PROVE  /\ Leaves(e, wire, wire[e]) /\ Leaves(e, Rest(e), Tail(wire[e]))
           /\ Leaves(e, Nothing(e), <<>>)
BY DEF Wired, Leaves, Rest, Nothing

LEMMA MovedIs ==
    ASSUME Inv, NEW e \in Ends, NEW x, IsChannel(x), channel' = [channel EXCEPT ![e] = x],
           active' \in [Nodes -> [Nodes -> Conns \cup {NoConn}]], broken' = broken,
           NEW w, NEW u, Leaves(e, w, u), NEW t \in Seq(Message),
           (wire' = w /\ t = <<>>) \/ wire' = PutAll(w, e, t)
    PROVE  Moved(e, x, u, t)
<1> DEFINE o == OtherEnd(e)
<1>1. Becomes(e, x)
    BY BecomesIs DEF Inv, Registry
<1>2. /\ o \in Ends /\ o # e /\ w = [d \in Ends |-> w[d]] /\ w[e] = u
      /\ \A d \in Ends \ {e} : w[d] = wire[d]
    BY OtherEndIs DEF Leaves
<1>3. wire[o] \in Seq(Message) /\ wire[o] \o <<>> = wire[o]
    BY <1>2, ConcatEmptySeq DEF Inv, Wired
<1>4. CASE wire' = w /\ t = <<>>
    <2>1. wire'[o] = wire[o] /\ wire'[o] = wire[o] \o t
        BY <1>2, <1>3, <1>4
    <2> QED BY <1>1, <1>2, <1>4, <2>1 DEF Moved
<1>5. CASE wire' = PutAll(w, e, t)
    <2>1. CASE e[1] \in broken \/ channel[o].life = "closed"
        <3>1. wire' = w
            BY <1>5, <2>1 DEF PutAll
        <3> QED BY <1>1, <1>2, <2>1, <3>1 DEF Moved
    <2>2. CASE ~(e[1] \in broken \/ channel[o].life = "closed")
        <3>1. wire' = [w EXCEPT ![o] = w[o] \o t]
            BY <1>5, <2>2 DEF PutAll
        <3>2. /\ wire'[o] = wire[o] \o t /\ \A d \in Ends \ {o} : wire'[d] = w[d]
              /\ wire' = [d \in Ends |-> wire'[d]]
            BY <1>2, <3>1
        <3> QED BY <1>1, <1>2, <3>2 DEF Moved
    <2> QED BY <2>1, <2>2
<1> QED BY <1>4, <1>5

LEMMA DisconnectIs ==
    /\ <<Disconnect>> \in Seq(Message)
    /\ None(<<Disconnect>>, {"HELLO"}) /\ None(<<Disconnect>>, {"WORLD"})
<1>1. Disconnect \in Message /\ Disconnect.code = "DISCONNECT"
    BY DEF Disconnect, Request, Message
<1> QED BY <1>1, NoneOne

LEMMA NoneAppend ==
    ASSUME NEW S, NEW s \in Seq(S), NEW m \in S, NEW C
    PROVE  None(Append(s, m), C) <=> None(s, C) /\ m.code \notin C
<1>1. Append(s, m) = s \o <<m>> /\ <<m>> \in Seq(S)
    BY AppendIsConcat
<1>2. None(s \o <<m>>, C) <=> None(s, C) /\ None(<<m>>, C)
    BY <1>1, Concatenated
<1>3. None(<<m>>, C) <=> m.code \notin C
    BY DEF None
<1> QED BY <1>1, <1>2, <1>3

\* Steps that let the numbers be.
Unnumbered == UNCHANGED <<sending, asked, pinged>>

LEMMA UnnumberedIs ==
    ASSUME Inv, Unnumbered
    PROVE  Later /\ \A n \in Nodes : (sending'[n] # NoConn) = (sending[n] # NoConn)
BY DEF Inv, Numbered, Unnumbered, Later

\* What is known of a channel.
LEMMA ChannelIs ==
    ASSUME Inv, NEW e \in Ends
    PROVE  /\ IsChannel(channel[e]) /\ wire[e] \in Seq(Message)
           /\ channel[e].requests \in Seq(Entry) /\ channel[e].responses \in Seq(Reply)
           /\ channel[e].initialized = (channel[e].life = "open")
           /\ channel[e].life = "none" => channel[e].requests = <<>> /\ channel[e].responses = <<>>
           /\ InLine(channel[e].requests, asked, pinged, sending[e[2]] # NoConn)
           /\ e[2] \in Nodes /\ OtherEnd(e) \in Ends
           /\ active \in [Nodes -> [Nodes -> Conns \cup {NoConn}]]
           /\ Removed(e) \in [Nodes -> [Nodes -> Conns \cup {NoConn}]]
           /\ [active EXCEPT ![e[2]][Peer(e)] = e[1]] \in [Nodes -> [Nodes -> Conns \cup {NoConn}]]
BY EndsAre, OtherEndIs, ActiveTyped DEF Inv, Registry, AreChannels, Wired, Queued, Lined

\* A channel is closed, its messages are forgotten.
LEMMA ClosedSteps ==
    ASSUME Inv, NEW e \in Ends, NEW ch, IsChannel(ch), Closed(e, ch),
           NEW w, NEW u, Leaves(e, w, u), TakenFrom(wire[e], u),
           wire' = w \/ wire' = PutAll(w, e, <<Disconnect>>),
           Unnumbered, UNCHANGED <<broken, unanswered>>,
           ch.rejected => \/ channel[e].rejected
                          \/ Heads(wire[e], "HELLO") /\ Duplicated(e) /\ u = <<>>
    PROVE  Stepped(e)
<1> DEFINE x == [ch EXCEPT !.life = "closed", !.initialized = FALSE, !.isActive = FALSE,
                           !.at = "idle", !.requests = <<>>, !.responses = <<>>]
<1>1. channel' = [channel EXCEPT ![e] = x] /\ active' = Removed(e)
    BY DEF Closed
<1>2. /\ IsChannel(x) /\ x.life = "closed" /\ x.initialized = FALSE /\ x.isActive = FALSE
      /\ x.at = "idle" /\ x.requests = <<>> /\ x.responses = <<>> /\ x.rejected = ch.rejected
    <2>1. PICK y : y = x
        OBVIOUS
    <2>2. y = [life |-> "closed", initialized |-> FALSE, isActive |-> FALSE,
               isHandshakeDone |-> ch.isHandshakeDone, at |-> "idle", rejected |-> ch.rejected,
               requests |-> <<>>, responses |-> <<>>]
        BY ONLY <2>1, IsChannel(ch) DEF IsChannel
    <2> HIDE DEF x
    <2>3. /\ IsChannel(y) /\ y.life = "closed" /\ y.initialized = FALSE /\ y.isActive = FALSE
          /\ y.at = "idle" /\ y.requests = <<>> /\ y.responses = <<>> /\ y.rejected = ch.rejected
        BY ONLY <2>2 DEF IsChannel
    <2> QED BY <2>1, <2>3
<1> HIDE DEF x
<1>3. PICK t \in Seq(Message) :
          /\ (wire' = w /\ t = <<>>) \/ wire' = PutAll(w, e, t)
          /\ None(t, {"HELLO"}) /\ None(t, {"WORLD"})
    BY DisconnectIs, NoneEmpty, EmptySeq
<1>4. Moved(e, x, u, t)
    BY <1>1, <1>2, <1>3, ChannelIs, MovedIs
<1>5. Polite(e = Near(e[1]), channel[e], x, wire[e], u, t)
    BY <1>2, <1>3, NoneEmpty, InLineEmpty DEF Polite
<1>6. Proper(e, x, u, t)
    BY <1>2, <1>4, <1>5, InLineEmpty, EmptySeq DEF Proper
<1>7. ~Unclosed(e)'
    BY <1>2, <1>4 DEF Moved, Becomes, Unclosed
<1>8. Spares(e, x)
    BY <1>2 DEF Spares
<1> QED BY <1>6, <1>7, <1>8, UnnumberedIs DEF Stepped, Answering

\* What a message is when it may be sent: a request that joins the line, or a reply.
Joins(e, q, m) ==
    /\ m \in [code : Kinds \ {"HELLO"}, id : Nat]
    /\ \A i \in DOMAIN q : q[i].msg # m
    /\ m.code = "PING" => m.id <= pinged'
    /\ m.code = "GET_BLOCK" => m.id <= asked' /\ (sending'[e[2]] # NoConn => m.id < asked')
Replies1(e, m) == m \in Reply /\ (m.code = "WORLD" => channel[e].at # "idle")

\* What the channel is like when m has joined one of its queues.
With(x, ch, m) ==
    /\ Kept(x, ch)
    /\ IsRequest(m) => /\ x.requests = Append(ch.requests, NewEntry(m))
                       /\ x.responses = ch.responses
    /\ ~IsRequest(m) => x.requests = ch.requests /\ x.responses = Append(ch.responses, m)

\* The channel of e becomes ch, and something is sent on it.
LEMMA SendSteps ==
    ASSUME Inv, NEW e \in Ends, NEW ch, IsChannel(ch), NEW w, NEW u, Leaves(e, w, u), NEW m,
           Joins(e, ch.requests, m) \/ Replies1(e, m),
           SendMessage(e, ch, w, m), UNCHANGED <<active, broken>>, Later, Answering(e),
           ch.initialized = (ch.life = "open"), ch.life = channel[e].life, ch.life # "none",
           ch.requests \in Seq(Entry), ch.responses = channel[e].responses,
           ch.rejected = channel[e].rejected,
           InLine(ch.requests, asked', pinged', sending'[e[2]] # NoConn),
           Polite(e = Near(e[1]), channel[e], ch, wire[e], u, <<>>),
           \A x : With(x, ch, m) /\ ch.life = "open" => Careful(e, x, u, <<>>)
    PROVE  Stepped(e)
<1>1. ch.responses \in Seq(Reply) /\ active' \in [Nodes -> [Nodes -> Conns \cup {NoConn}]]
    BY ChannelIs
<1>2. <<>> \in Seq(Message) /\ None(<<>>, {"HELLO"}) /\ None(<<>>, {"WORLD"})
    BY EmptySeq, NoneEmpty
<1>3. CASE ~ch.initialized /\ channel' = [channel EXCEPT ![e] = ch] /\ wire' = w
    <2>1. Moved(e, ch, u, <<>>)
        BY <1>1, <1>2, <1>3, MovedIs
    <2>2. Proper(e, ch, u, <<>>)
        BY <1>1, <1>2, <2>1 DEF Proper
    <2>3. ~Unclosed(e)'
        BY <1>3, <2>1 DEF Moved, Becomes, Unclosed
    <2>4. Spares(e, ch)
        BY DEF Spares
    <2> QED BY <2>2, <2>3, <2>4 DEF Stepped
<1>4. CASE /\ channel' = [channel EXCEPT ![e] = Disconnected(ch)]
           /\ wire' = PutAll(w, e, <<Disconnect>>)
    <2>1. PICK x : x = Disconnected(ch)
        OBVIOUS
    <2>2. /\ IsChannel(x) /\ x.life = "closing" /\ x.initialized = FALSE
          /\ x.isActive = ch.isActive /\ x.at = ch.at /\ x.rejected = ch.rejected
          /\ x.requests = ch.requests /\ x.responses = ch.responses
        BY <2>1, DisconnectedFields
    <2>3. Moved(e, x, u, <<Disconnect>>)
        BY <1>1, <1>4, <2>1, <2>2, DisconnectIs, MovedIs
    <2>4. Polite(e = Near(e[1]), channel[e], x, wire[e], u, <<Disconnect>>)
        BY <2>2, DisconnectIs DEF Polite
    <2>5. Proper(e, x, u, <<Disconnect>>)
        BY <1>1, <2>2, <2>3, <2>4, DisconnectIs DEF Proper
    <2>6. ~Unclosed(e)'
        BY <2>2, <2>3 DEF Moved, Becomes, Unclosed
    <2>7. Spares(e, x)
        BY <2>2 DEF Spares
    <2> QED BY <2>5, <2>6, <2>7 DEF Stepped
<1>5. CASE ch.initialized /\ channel' = [channel EXCEPT ![e] = Enqueued(ch, m)] /\ wire' = w
    <2>1. PICK x : x = Enqueued(ch, m)
        OBVIOUS
    <2>2. With(x, ch, m)
        BY <2>1, EnqueuedFields DEF With
    <2>3. Moved(e, x, u, <<>>)
        BY <1>1, <1>2, <1>5, <2>1, <2>2, MovedIs DEF With, Kept
    <2>4. /\ x.requests \in Seq(Entry) /\ x.responses \in Seq(Reply)
          /\ InLine(x.requests, asked', pinged', sending'[e[2]] # NoConn)
          /\ Greeting(x.requests) => Greeting(ch.requests)
          /\ ~None(x.responses, {"WORLD"}) => ~None(ch.responses, {"WORLD"}) \/ channel[e].at # "idle"
        <3>1. CASE Joins(e, ch.requests, m)
            <4>1. m \in [code : Kinds, id : Nat] /\ m.code # "HELLO"
                BY <3>1 DEF Joins
            <4>2. x.requests = Append(ch.requests, NewEntry(m)) /\ x.responses = ch.responses
                BY <2>2, <4>1, AnswerIs DEF With
            <4>3. /\ Append(ch.requests, NewEntry(m)) \in Seq(Entry)
                  /\ InLine(Append(ch.requests, NewEntry(m)), asked', pinged', sending'[e[2]] # NoConn)
                  /\ Greeting(Append(ch.requests, NewEntry(m))) => Greeting(ch.requests)
                BY <3>1, <4>1, InLineAppend DEF Joins
            <4> QED BY <1>1, <4>2, <4>3
        <3>2. CASE Replies1(e, m)
            <4>1. m \in Reply /\ ~IsRequest(m)
                BY <3>2, AnswersAre DEF Replies1, Reply, IsRequest, Kinds, Replies
            <4>2. x.requests = ch.requests /\ x.responses = Append(ch.responses, m)
                BY <2>2, <4>1 DEF With
            <4>3. Append(ch.responses, m) \in Seq(Reply)
                BY <1>1, <4>1, AppendProperties
            <4>4. None(Append(ch.responses, m), {"WORLD"}) <=>
                    None(ch.responses, {"WORLD"}) /\ m.code \notin {"WORLD"}
                BY <1>1, <4>1, NoneAppend
            <4> QED BY <3>2, <4>2, <4>3, <4>4 DEF Replies1
        <3> QED BY <3>1, <3>2
    <2>5. Polite(e = Near(e[1]), channel[e], x, wire[e], u, <<>>)
        BY <1>2, <2>2, <2>4 DEF Polite, With, Kept
    <2>6. Proper(e, x, u, <<>>)
        BY <1>2, <2>2, <2>3, <2>4, <2>5 DEF Proper, With, Kept
    <2>7. Spares(e, x)
        BY <2>2 DEF Spares, With, Kept
    <2>8. Careful(e, x, u, <<>>) /\ Unclosed(e)
        BY <1>5, <2>2 DEF Unclosed
    <2> QED BY <2>6, <2>7, <2>8 DEF Stepped
<1> QED BY <1>3, <1>4, <1>5 DEF SendMessage

\* A channel that changes in other ways, with nothing sent.
LEMMA PlainSteps ==
    ASSUME Inv, NEW e \in Ends, NEW x, IsChannel(x), channel' = [channel EXCEPT ![e] = x],
           active' \in [Nodes -> [Nodes -> Conns \cup {NoConn}]], broken' = broken,
           NEW w, NEW u, Leaves(e, w, u), wire' = w, Later, Answering(e),
           x.initialized = (x.life = "open"), x.requests \in Seq(Entry), x.responses \in Seq(Reply),
           InLine(x.requests, asked', pinged', sending'[e[2]] # NoConn),
           Polite(e = Near(e[1]), channel[e], x, wire[e], u, <<>>), x.rejected = channel[e].rejected,
           x.life = "open" => Careful(e, x, u, <<>>) /\ Unclosed(e)
    PROVE  Stepped(e)
<1>1. <<>> \in Seq(Message)
    BY EmptySeq
<1>2. Moved(e, x, u, <<>>)
    BY <1>1, MovedIs
<1>3. Proper(e, x, u, <<>>)
    BY <1>1, <1>2 DEF Proper
<1>4. Spares(e, x)
    BY DEF Spares
<1>5. Unclosed(e)' => Careful(e, x, u, <<>>) /\ Unclosed(e)
    BY <1>2, <1>3 DEF Moved, Becomes, Unclosed, Proper, Polite
<1> QED BY <1>3, <1>4, <1>5 DEF Stepped

----------------------------------------------------------------------------
(* The actions once more. *)

\* A step that takes nothing and sends nothing, and leaves the peer's line alone.
LEMMA QuietCare ==
    ASSUME Inv, NEW e \in Ends, NEW x,
           x.requests = channel[e].requests, x.responses = channel[e].responses,
           x.at = "idle" <=> channel[e].at = "idle",
           (OtherEnd(e) \in unanswered') <=> (OtherEnd(e) \in unanswered)
    PROVE  Careful(e, x, wire[e], <<>>)
<1>1. Own(channel[e].requests, x.requests, wire[e], wire[e], <<>>)
    BY NoneEmpty DEF Own, Passes
<1>2. ToPeer(channel[e], x, wire[e], wire[e], <<>>, OtherEnd(e) \in unanswered, OtherEnd(e) \in unanswered')
    BY NoneEmpty DEF ToPeer, Passes
<1> QED BY <1>1, <1>2 DEF Careful

LEMMA DialSteps ==
    ASSUME Inv, NEW c \in Conns, Dial(c)
    PROVE  \E e \in Ends : Stepped(e)
<1> DEFINE e == <<c, Dialer(c)>>
           ch == [channel[e] EXCEPT !.life = "open", !.initialized = TRUE]
           x == Enqueued(ch, Hello)
<1>1. e \in Ends /\ e = Near(e[1])
    BY EndsOf DEF Near
<1>2. /\ channel[e].life = "none" /\ channel' = [channel EXCEPT ![e] = x]
      /\ wire' = wire /\ active' = active /\ Unnumbered /\ UNCHANGED <<broken, unanswered>>
    BY DEF Dial, Fresh, Hello, Unnumbered
<1> HIDE DEF e
<1>3. /\ IsChannel(channel[e]) /\ channel[e].requests = <<>> /\ channel[e].responses = <<>>
      /\ active \in [Nodes -> [Nodes -> Conns \cup {NoConn}]]
    BY <1>1, <1>2, ChannelIs
<1>4. /\ IsChannel(ch) /\ ch.life = "open" /\ ch.initialized = TRUE /\ ch.requests = <<>>
      /\ ch.responses = <<>> /\ ch.at = channel[e].at /\ ch.isActive = channel[e].isActive
      /\ ch.rejected = channel[e].rejected
    <2>1. PICK z, y : z = ch /\ y = channel[e]
        OBVIOUS
    <2>2. z = [life |-> "open", initialized |-> TRUE, isActive |-> y.isActive,
               isHandshakeDone |-> y.isHandshakeDone, at |-> y.at, rejected |-> y.rejected,
               requests |-> <<>>, responses |-> <<>>]
        BY <1>3, <2>1 DEF IsChannel
    <2> HIDE DEF ch
    <2>3. /\ IsChannel(z) /\ z.life = "open" /\ z.initialized = TRUE /\ z.requests = <<>>
          /\ z.responses = <<>> /\ z.at = y.at /\ z.isActive = y.isActive /\ z.rejected = y.rejected
        BY ONLY <2>2 DEF IsChannel
    <2> QED BY <2>1, <2>3
<1> HIDE DEF ch
<1>5. Hello \in [code : Kinds, id : Nat] /\ Hello.code = "HELLO" /\ Hello.id = 0
    BY DEF Hello, Request, Kinds
<1>6. Kept(x, ch) /\ x.requests = Append(<<>>, NewEntry(Hello)) /\ x.responses = <<>>
    BY <1>4, <1>5, AnswerIs, EnqueuedFields
<1> HIDE DEF x
<1>7. /\ x.requests \in Seq(Entry) /\ ~Out(x.requests)
      /\ InLine(x.requests, asked', pinged', sending'[e[2]] # NoConn)
    <2>1. <<>> \in Seq(Entry) /\ InLine(<<>>, asked', pinged', sending'[e[2]] # NoConn) /\ ~Out(<<>>)
        BY InLineEmpty
    <2>2. \A i \in DOMAIN <<>> : <<>>[i].msg # Hello
        OBVIOUS
    <2>3. LET y == Append(<<>>, NewEntry(Hello)) IN
          /\ y \in Seq(Entry) /\ InLine(y, asked', pinged', sending'[e[2]] # NoConn)
          /\ Out(y) <=> Out(<<>>)
        BY <1>5, <2>1, <2>2, InLineAppend
    <2> QED BY <1>6, <2>1, <2>3
<1>8. Polite(e = Near(e[1]), channel[e], x, wire[e], wire[e], <<>>)
    BY <1>1, <1>2, <1>3, <1>4, <1>6, NoneEmpty DEF Polite, Kept, TakenFrom
<1>9. Careful(e, x, wire[e], <<>>)
    <2>1. Own(channel[e].requests, x.requests, wire[e], wire[e], <<>>)
        BY <1>3, <1>7, NoneEmpty, InLineEmpty DEF Own, Passes
    <2>2. ToPeer(channel[e], x, wire[e], wire[e], <<>>, OtherEnd(e) \in unanswered, OtherEnd(e) \in unanswered')
        BY <1>2, <1>3, <1>4, <1>6, NoneEmpty DEF ToPeer, Passes, Kept
    <2> QED BY <2>1, <2>2 DEF Careful
<1>10. Leaves(e, wire, wire[e])
    BY <1>1, LeavesAre DEF Inv
<1>11. x.responses \in Seq(Reply) /\ Unclosed(e)
    BY <1>2, <1>6, EmptySeq DEF Unclosed
<1> QED BY <1>1, <1>2, <1>3, <1>4, <1>6, <1>7, <1>8, <1>9, <1>10, <1>11, UnnumberedIs, PlainSteps
        DEF Kept, Answering

LEMMA AcceptSteps ==
    ASSUME Inv, NEW c \in Conns, Accept(c)
    PROVE  \E e \in Ends : Stepped(e)
<1> DEFINE e == <<c, Acceptor(c)>>
           x == [channel[e] EXCEPT !.life = "open", !.initialized = TRUE]
<1>1. e \in Ends
    BY EndsOf DEF Far
<1>2. /\ channel[e].life = "none" /\ Unnumbered /\ UNCHANGED <<broken, unanswered>>
      /\ \/ channel' = [channel EXCEPT ![e] = x] /\ wire' = wire /\ active' = active
         \/ Closed(e, x) /\ wire' = PutAll(wire, e, <<Disconnect>>)
    BY DEF Accept, Fresh, Unnumbered
<1> HIDE DEF e
<1>3. /\ IsChannel(channel[e]) /\ channel[e].requests = <<>> /\ channel[e].responses = <<>>
      /\ active \in [Nodes -> [Nodes -> Conns \cup {NoConn}]]
      /\ InLine(channel[e].requests, asked, pinged, sending[e[2]] # NoConn) /\ e[2] \in Nodes
    BY <1>1, <1>2, ChannelIs
<1>4. /\ IsChannel(x) /\ x.life = "open" /\ x.initialized = TRUE /\ x.requests = <<>>
      /\ x.responses = <<>> /\ x.at = channel[e].at /\ x.isActive = channel[e].isActive
      /\ x.rejected = channel[e].rejected
    <2>1. PICK z, y : z = x /\ y = channel[e]
        OBVIOUS
    <2>2. z = [life |-> "open", initialized |-> TRUE, isActive |-> y.isActive,
               isHandshakeDone |-> y.isHandshakeDone, at |-> y.at, rejected |-> y.rejected,
               requests |-> <<>>, responses |-> <<>>]
        BY <1>3, <2>1 DEF IsChannel
    <2> HIDE DEF x
    <2>3. /\ IsChannel(z) /\ z.life = "open" /\ z.initialized = TRUE /\ z.requests = <<>>
          /\ z.responses = <<>> /\ z.at = y.at /\ z.isActive = y.isActive /\ z.rejected = y.rejected
        BY ONLY <2>2 DEF IsChannel
    <2> QED BY <2>1, <2>3
<1> HIDE DEF x
<1>5. Leaves(e, wire, wire[e]) /\ TakenFrom(wire[e], wire[e])
    BY <1>1, LeavesAre DEF Inv, TakenFrom
<1>6. CASE channel' = [channel EXCEPT ![e] = x] /\ wire' = wire /\ active' = active
    <2>1. Polite(e = Near(e[1]), channel[e], x, wire[e], wire[e], <<>>)
        BY <1>3, <1>4, NoneEmpty, InLineEmpty DEF Polite, TakenFrom
    <2>2. Careful(e, x, wire[e], <<>>)
        BY <1>1, <1>2, <1>3, <1>4, QuietCare
    <2>3. InLine(x.requests, asked', pinged', sending'[e[2]] # NoConn) /\ x.requests \in Seq(Entry)
        BY <1>4, InLineEmpty
    <2>4. x.responses \in Seq(Reply) /\ Unclosed(e)
        BY <1>2, <1>4, EmptySeq DEF Unclosed
    <2> QED BY <1>1, <1>2, <1>3, <1>4, <1>5, <1>6, <2>1, <2>2, <2>3, <2>4, UnnumberedIs, PlainSteps
            DEF Answering
<1>7. CASE Closed(e, x) /\ wire' = PutAll(wire, e, <<Disconnect>>)
    BY <1>1, <1>2, <1>4, <1>5, <1>7, ClosedSteps
<1> QED BY <1>1, <1>2, <1>6, <1>7

LEMMA ClosingSteps ==
    ASSUME Inv, NEW e \in Ends,
           PeerClosed(e) \/ CloseLater(e) \/ ReceiveDisconnect(e) \/ ReceiveThrows(e)
    PROVE  Stepped(e)
<1>1. /\ Closed(e, channel[e]) /\ wire' = Nothing(e) /\ Unnumbered /\ UNCHANGED <<broken, unanswered>>
    BY DEF PeerClosed, CloseLater, ReceiveDisconnect, ReceiveThrows, CloseFrame, Unnumbered, Nothing
<1>2. IsChannel(channel[e]) /\ Leaves(e, Nothing(e), <<>>) /\ TakenFrom(wire[e], <<>>)
    BY ChannelIs, LeavesAre DEF Inv, TakenFrom
<1> QED BY <1>1, <1>2, ClosedSteps

\* The message that is read, and what is known of a HELLO.
LEMMA ReadingIs ==
    ASSUME Inv, NEW e \in Ends, NEW codes, Arriving(e, codes)
    PROVE  /\ wire[e] # <<>> /\ Head(wire[e]) \in Message /\ Head(wire[e]).code \in codes
           /\ channel[e].at = "idle" /\ channel[e].life \in {"open", "closing"}
           /\ TakenFrom(wire[e], Tail(wire[e])) /\ Leaves(e, Rest(e), Tail(wire[e]))
           /\ Head(wire[e]).code = "HELLO" => Head(wire[e]) = Hello
<1>1. /\ wire[e] # <<>> /\ Head(wire[e]).code \in codes
      /\ channel[e].at = "idle" /\ channel[e].life \in {"open", "closing"}
    BY DEF Arriving, Alive
<1>2. wire[e] \in Seq(Message)
    BY ChannelIs
<1>3. Head(wire[e]) \in Message
    BY <1>1, <1>2, HeadTailProperties
<1>4. ASSUME Head(wire[e]).code = "HELLO" PROVE Head(wire[e]) = Hello
    <2>1. ~None(wire[e], {"HELLO"})
        BY <1>1, <1>2, <1>4, NoneTail
    <2>2. Handshake(e[1]) /\ (e = Near(e[1]) \/ e = Far(e[1]))
        BY EndsAre, OtherEndIs DEF Inv, Shaken
    <2>3. Once(wire[e], {"HELLO"}, Hello)
        BY <2>1, <2>2 DEF Handshake, Shake
    <2> QED BY <1>1, <1>2, <1>4, <2>3, OnceTail
<1>5. TakenFrom(wire[e], Tail(wire[e])) /\ Leaves(e, Rest(e), Tail(wire[e]))
    BY <1>1, LeavesAre DEF TakenFrom, Inv
<1> QED BY <1>1, <1>3, <1>4, <1>5

LEMMA HelloSteps ==
    ASSUME Inv, NEW e \in Ends, ReceiveHello(e)
    PROVE  Stepped(e)
<1>1. /\ wire[e] # <<>> /\ Head(wire[e]) = Hello /\ Heads(wire[e], "HELLO")
      /\ channel[e].at = "idle" /\ channel[e].life \in {"open", "closing"}
      /\ TakenFrom(wire[e], Tail(wire[e])) /\ Leaves(e, Rest(e), Tail(wire[e]))
    BY ReadingIs DEF ReceiveHello, Heads
<1>2. Unnumbered /\ UNCHANGED <<broken, unanswered>>
    BY DEF ReceiveHello, ReadFrame, Unnumbered
<1>3. /\ IsChannel(channel[e]) /\ active \in [Nodes -> [Nodes -> Conns \cup {NoConn}]]
      /\ channel[e].requests \in Seq(Entry) /\ channel[e].responses \in Seq(Reply)
      /\ channel[e].initialized = (channel[e].life = "open") /\ e[2] \in Nodes
      /\ InLine(channel[e].requests, asked, pinged, sending[e[2]] # NoConn)
    BY ChannelIs
<1>4. CASE /\ Duplicated(e) /\ Closed(e, [channel[e] EXCEPT !.rejected = TRUE])
           /\ wire' = PutAll(Nothing(e), e, <<Disconnect>>)
    <2>1. PICK ch, y : ch = [channel[e] EXCEPT !.rejected = TRUE] /\ y = channel[e]
        OBVIOUS
    <2>2. IsChannel(ch)
        BY <1>3, <2>1 DEF IsChannel
    <2>3. Leaves(e, Nothing(e), <<>>) /\ TakenFrom(wire[e], <<>>)
        BY LeavesAre DEF Inv, TakenFrom
    <2>4. Closed(e, ch)
        BY <1>4, <2>1
    <2> QED BY <1>1, <1>2, <1>4, <2>2, <2>3, <2>4, ClosedSteps
<1>5. CASE channel' = [channel EXCEPT ![e].at = "checked"] /\ wire' = Rest(e) /\ active' = active
    <2> DEFINE u == Tail(wire[e])
    <2>1. PICK x, ch : x = [ch EXCEPT !.at = "checked"] /\ ch = channel[e]
        OBVIOUS
    <2>2. channel' = [channel EXCEPT ![e] = x]
        BY <1>5, <2>1
    <2>3. /\ IsChannel(x) /\ x.life = ch.life /\ x.initialized = ch.initialized
          /\ x.isActive = ch.isActive /\ x.at = "checked" /\ x.rejected = ch.rejected
          /\ x.requests = ch.requests /\ x.responses = ch.responses
        BY <1>3, <2>1 DEF IsChannel
    <2>4. Polite(e = Near(e[1]), channel[e], x, wire[e], u, <<>>)
        BY <1>1, <2>1, <2>3, NoneEmpty DEF Polite
    <2>5. Own(channel[e].requests, x.requests, wire[e], u, <<>>)
        BY <1>1, <2>1, <2>3, NoneEmpty DEF Own, Passes, Hello, Request, Replies
    <2>6. ToPeer(channel[e], x, wire[e], u, <<>>, OtherEnd(e) \in unanswered, OtherEnd(e) \in unanswered')
        BY <1>1, <1>2, <2>1, <2>3, NoneEmpty DEF ToPeer, Hello, Request, Kinds
    <2>7. InLine(x.requests, asked', pinged', sending'[e[2]] # NoConn)
        BY <1>2, <1>3, <2>1, <2>3 DEF Unnumbered
    <2>8. Careful(e, x, u, <<>>)
        BY <2>5, <2>6 DEF Careful
    <2>9. /\ x.initialized = (x.life = "open") /\ x.requests \in Seq(Entry)
          /\ x.responses \in Seq(Reply) /\ x.rejected = channel[e].rejected
          /\ x.life = "open" => Unclosed(e)
        BY <1>3, <2>1, <2>3 DEF Unclosed
    <2>10. Later /\ Answering(e) /\ active' \in [Nodes -> [Nodes -> Conns \cup {NoConn}]]
        BY <1>2, <1>3, <1>5, UnnumberedIs DEF Answering
    <2> HIDE DEF u
    <2> QED BY <1>1, <1>2, <1>5, <2>2, <2>3, <2>4, <2>7, <2>8, <2>9, <2>10, PlainSteps DEF u
<1> QED BY <1>4, <1>5 DEF ReceiveHello

LEMMA ActivateSteps ==
    ASSUME Inv, NEW e \in Ends, Activate(e)
    PROVE  Stepped(e)
<1> DEFINE u == wire[e]
<1>1. PICK ch, x : /\ ch = channel[e]
                   /\ x = [[channel[e] EXCEPT !.at = "active"] EXCEPT !.isActive = TRUE]
    OBVIOUS
<1>2. /\ ch.at = "checked" /\ channel' = [channel EXCEPT ![e] = x] /\ wire' = wire /\ Unnumbered
      /\ UNCHANGED <<broken, unanswered>>
      /\ active' = [active EXCEPT ![e[2]][Peer(e)] = e[1]]
    BY <1>1 DEF Activate, MakeActive, ReadFrame, Unnumbered
<1>3. /\ IsChannel(ch) /\ ch.life \in {"open", "closing"} /\ ch.initialized = (ch.life = "open")
      /\ ch.requests \in Seq(Entry) /\ ch.responses \in Seq(Reply) /\ e[2] \in Nodes
      /\ InLine(ch.requests, asked, pinged, sending[e[2]] # NoConn)
      /\ active' \in [Nodes -> [Nodes -> Conns \cup {NoConn}]]
    BY <1>1, <1>2, ChannelIs DEF Inv, Registry, Connected, Alive
<1>4. /\ IsChannel(x) /\ x.life = ch.life /\ x.initialized = ch.initialized
      /\ x.at = "active" /\ x.rejected = ch.rejected
      /\ x.requests = ch.requests /\ x.responses = ch.responses
    <2>1. x = [life |-> ch.life, initialized |-> ch.initialized, isActive |-> TRUE,
               isHandshakeDone |-> ch.isHandshakeDone, at |-> "active", rejected |-> ch.rejected,
               requests |-> ch.requests, responses |-> ch.responses]
        BY <1>1, <1>3 DEF IsChannel
    <2> QED BY ONLY <2>1 DEF IsChannel
<1>5. Polite(e = Near(e[1]), channel[e], x, wire[e], u, <<>>)
    BY <1>1, <1>2, <1>3, <1>4, NoneEmpty DEF Polite, TakenFrom
<1>6. Careful(e, x, u, <<>>)
    BY <1>1, <1>2, <1>4, QuietCare
<1>7. InLine(x.requests, asked', pinged', sending'[e[2]] # NoConn)
    BY <1>2, <1>3, <1>4 DEF Unnumbered
<1>8. Leaves(e, wire, u) /\ Later /\ Answering(e)
    BY <1>2, UnnumberedIs, LeavesAre DEF Inv, Answering
<1>9. /\ x.initialized = (x.life = "open") /\ x.requests \in Seq(Entry)
      /\ x.responses \in Seq(Reply) /\ x.rejected = channel[e].rejected
      /\ x.life = "open" => Unclosed(e)
    BY <1>1, <1>3, <1>4 DEF Unclosed
<1> HIDE DEF u
<1> QED BY <1>2, <1>3, <1>4, <1>5, <1>6, <1>7, <1>8, <1>9, PlainSteps

LEMMA GreetSteps ==
    ASSUME Inv, NEW e \in Ends, Greet(e)
    PROVE  Stepped(e)
<1> DEFINE u == wire[e]
           m == AnswerTo(Hello)
<1>1. PICK ch, x : /\ ch = channel[e]
                   /\ x = [channel[e] EXCEPT !.at = "idle", !.isHandshakeDone = TRUE]
    OBVIOUS
<1>2. m = Request("WORLD", 0) /\ m \in Reply /\ ~IsRequest(m)
    BY AnswersAre DEF AnswerTo, Hello, Request, Reply, IsRequest, Kinds, Replies
<1>3. /\ ch.at = "active" /\ SendMessage(e, x, wire, m) /\ Unnumbered
      /\ UNCHANGED <<active, broken, unanswered>>
    BY <1>1, <1>2 DEF Greet, ReadFrame, Unnumbered
<1>4. /\ IsChannel(ch) /\ ch.life \in {"open", "closing"} /\ ch.initialized = (ch.life = "open")
      /\ ch.requests \in Seq(Entry) /\ e[2] \in Nodes
      /\ InLine(ch.requests, asked, pinged, sending[e[2]] # NoConn)
    BY <1>1, <1>3, ChannelIs DEF Inv, Registry, Connected, Alive
<1>5. /\ IsChannel(x) /\ x.life = ch.life /\ x.initialized = ch.initialized
      /\ x.isActive = ch.isActive /\ x.at = "idle" /\ x.rejected = ch.rejected
      /\ x.requests = ch.requests /\ x.responses = ch.responses
    <2>1. x = [life |-> ch.life, initialized |-> ch.initialized, isActive |-> ch.isActive,
               isHandshakeDone |-> TRUE, at |-> "idle", rejected |-> ch.rejected,
               requests |-> ch.requests, responses |-> ch.responses]
        BY <1>1, <1>4 DEF IsChannel
    <2> QED BY ONLY <2>1 DEF IsChannel
<1>6. Polite(e = Near(e[1]), channel[e], x, wire[e], u, <<>>)
    BY <1>1, <1>3, <1>4, <1>5, NoneEmpty DEF Polite, TakenFrom
<1>7. ASSUME NEW y, With(y, x, m) PROVE Careful(e, y, u, <<>>)
    <2>1. y.requests = ch.requests /\ y.responses = Append(ch.responses, m) /\ y.at = "idle"
        BY <1>2, <1>5, <1>7 DEF With, Kept
    <2>2. Own(channel[e].requests, y.requests, wire[e], u, <<>>)
        BY <1>1, <2>1, NoneEmpty DEF Own, Passes
    <2>3. ToPeer(channel[e], y, wire[e], u, <<>>, OtherEnd(e) \in unanswered, OtherEnd(e) \in unanswered')
        BY <1>1, <1>3, <2>1, NoneEmpty DEF ToPeer
    <2> QED BY <2>2, <2>3 DEF Careful
<1>8. /\ Leaves(e, wire, u) /\ Later /\ Answering(e) /\ Replies1(e, m)
      /\ InLine(x.requests, asked', pinged', sending'[e[2]] # NoConn)
    BY <1>1, <1>2, <1>3, <1>4, <1>5, UnnumberedIs, LeavesAre
       DEF Inv, Answering, Replies1, Unnumbered
<1>9. /\ x.initialized = (x.life = "open") /\ x.requests \in Seq(Entry) /\ x.life # "none"
      /\ x.life = channel[e].life /\ x.responses = channel[e].responses
      /\ x.rejected = channel[e].rejected
    BY <1>1, <1>4, <1>5
<1> HIDE DEF u, m
<1> QED BY <1>3, <1>5, <1>6, <1>7, <1>8, <1>9, SendSteps

\* A message that answers the head's class is the head's answer.
LEMMA ReadingAnswers ==
    ASSUME Inv, NEW e \in Ends, wire[e] # <<>>, NEW x, x = Reading(e)
    PROVE  LET q == channel[e].requests
               m == Head(wire[e]) IN
           /\ Kept(x, channel[e]) /\ x.responses = channel[e].responses
           /\ x.requests \in Seq(Entry)
           /\ InLine(x.requests, asked, pinged, sending[e[2]] # NoConn)
           /\ Greeting(x.requests) => Greeting(q)
           /\ m.code \in Kinds => x.requests = q
           /\ Out(q) /\ m.code = Answers[q[1].msg.code] => ~Out(x.requests)
<1> DEFINE q == channel[e].requests
           m == Head(wire[e])
<1>1. /\ IsChannel(channel[e]) /\ q \in Seq(Entry)
      /\ InLine(q, asked, pinged, sending[e[2]] # NoConn)
    BY ChannelIs
<1>2. /\ Kept(x, channel[e]) /\ x.responses = channel[e].responses
      /\ x.requests = IF q # <<>> /\ m.code = Answers[Head(q).msg.code] THEN WithAnswer(q) ELSE q
    BY <1>1, AnsweredFields DEF Reading
<1>3. CASE q # <<>> /\ m.code = Answers[Head(q).msg.code]
    <2>1. WithAnswer(q) \in Seq(Entry) /\ ~Out(WithAnswer(q))
          /\ InLine(WithAnswer(q), asked, pinged, sending[e[2]] # NoConn)
          /\ (Greeting(WithAnswer(q)) <=> Greeting(q))
        BY <1>1, <1>3, InLineAnswered
    <2>2. m.code \notin Kinds
        <3>1. 1 \in 1..Len(q)
            BY <1>1, <1>3, EmptySeq
        <3>2. q[1] \in Entry
            BY <1>1, <3>1, ElementOfSeq
        <3>3. q[1].msg.code \in Kinds /\ Head(q) = q[1]
            BY <1>3, <3>2 DEF Entry
        <3> QED BY <1>3, <3>3, AnswersAre DEF Kinds
    <2> QED BY <1>2, <1>3, <2>1, <2>2
<1>4. CASE ~(q # <<>> /\ m.code = Answers[Head(q).msg.code])
    <2>1. x.requests = q
        BY <1>2, <1>4
    <2>2. ~(Out(q) /\ m.code = Answers[q[1].msg.code])
        BY <1>4 DEF Out
    <2> QED BY <1>1, <1>2, <2>1, <2>2
<1> QED BY <1>3, <1>4

LEMMA WorldSteps ==
    ASSUME Inv, NEW e \in Ends, ReceiveWorld(e)
    PROVE  Stepped(e)
<1> DEFINE u == Tail(wire[e])
           q == channel[e].requests
<1>1. /\ wire[e] # <<>> /\ Head(wire[e]).code = "WORLD" /\ Heads(wire[e], "WORLD")
      /\ channel[e].at = "idle" /\ channel[e].life \in {"open", "closing"}
      /\ TakenFrom(wire[e], u) /\ Leaves(e, Rest(e), u)
    BY ReadingIs DEF ReceiveWorld, Heads
<1>2. PICK ch, y, x : /\ ch = channel[e] /\ y = Reading(e)
                      /\ x = [[Reading(e) EXCEPT !.isHandshakeDone = TRUE] EXCEPT !.isActive = TRUE]
    OBVIOUS
<1>3. /\ channel' = [channel EXCEPT ![e] = x] /\ wire' = Rest(e) /\ Unnumbered
      /\ UNCHANGED <<broken, unanswered>>
      /\ active' = [active EXCEPT ![e[2]][Peer(e)] = e[1]]
    BY <1>2 DEF ReceiveWorld, MakeActive, ReadFrame, Unnumbered
<1>4. /\ IsChannel(ch) /\ ch.initialized = (ch.life = "open") /\ ch.responses \in Seq(Reply)
      /\ active' \in [Nodes -> [Nodes -> Conns \cup {NoConn}]]
    BY <1>2, <1>3, ChannelIs
<1>5. /\ Kept(y, ch) /\ y.responses = ch.responses /\ y.requests \in Seq(Entry)
      /\ InLine(y.requests, asked, pinged, sending[e[2]] # NoConn)
      /\ Greeting(y.requests) => Greeting(q)
      /\ Out(q) /\ Head(wire[e]).code = Answers[q[1].msg.code] => ~Out(y.requests)
    BY <1>1, <1>2, ReadingAnswers
<1>6. /\ IsChannel(x) /\ x.life = ch.life /\ x.initialized = ch.initialized
      /\ x.at = ch.at /\ x.rejected = ch.rejected
      /\ x.requests = y.requests /\ x.responses = y.responses
    <2>1. IsChannel(y)
        BY <1>5 DEF Kept
    <2>2. x = [life |-> y.life, initialized |-> y.initialized, isActive |-> TRUE,
               isHandshakeDone |-> TRUE, at |-> y.at, rejected |-> y.rejected,
               requests |-> y.requests, responses |-> y.responses]
        BY <1>2, <2>1 DEF IsChannel
    <2>3. /\ IsChannel(x) /\ x.life = y.life /\ x.initialized = y.initialized
          /\ x.at = y.at /\ x.rejected = y.rejected
          /\ x.requests = y.requests /\ x.responses = y.responses
        BY ONLY <2>2 DEF IsChannel
    <2> QED BY <1>5, <2>3 DEF Kept
<1>7. Polite(e = Near(e[1]), channel[e], x, wire[e], u, <<>>)
    BY <1>1, <1>2, <1>5, <1>6, NoneEmpty DEF Polite
<1>8. Own(channel[e].requests, x.requests, wire[e], u, <<>>)
    BY <1>1, <1>5, <1>6, NoneEmpty DEF Own, Replies
<1>9. ToPeer(channel[e], x, wire[e], u, <<>>, OtherEnd(e) \in unanswered, OtherEnd(e) \in unanswered')
    BY <1>1, <1>2, <1>3, <1>5, <1>6, NoneEmpty DEF ToPeer, Passes, Kinds
<1>10. InLine(x.requests, asked', pinged', sending'[e[2]] # NoConn)
    BY <1>3, <1>5, <1>6 DEF Unnumbered
<1>11. Later /\ Answering(e) /\ Careful(e, x, u, <<>>)
    BY <1>3, <1>8, <1>9, UnnumberedIs DEF Answering, Careful
<1>12. /\ x.initialized = (x.life = "open") /\ x.requests \in Seq(Entry)
       /\ x.responses \in Seq(Reply) /\ x.rejected = channel[e].rejected
       /\ x.life = "open" => Unclosed(e)
    BY <1>2, <1>4, <1>5, <1>6 DEF Unclosed
<1> HIDE DEF u
<1> QED BY <1>1, <1>3, <1>4, <1>6, <1>7, <1>10, <1>11, <1>12, PlainSteps

LEMMA AnswerSteps ==
    ASSUME Inv, NEW e \in Ends, ReceiveAnswer(e)
    PROVE  Stepped(e)
<1> DEFINE u == Tail(wire[e])
           q == channel[e].requests
<1>1. /\ wire[e] # <<>> /\ Head(wire[e]).code \in {"PONG", "BLOCK"}
      /\ channel[e].at = "idle" /\ channel[e].life \in {"open", "closing"}
      /\ TakenFrom(wire[e], u) /\ Leaves(e, Rest(e), u)
    BY ReadingIs DEF ReceiveAnswer
<1>2. PICK ch, x : ch = channel[e] /\ x = Reading(e)
    OBVIOUS
<1>3. /\ channel' = [channel EXCEPT ![e] = x] /\ wire' = Rest(e) /\ Unnumbered
      /\ UNCHANGED <<broken, unanswered, active>>
    BY <1>2 DEF ReceiveAnswer, ReadFrame, Unnumbered
<1>4. /\ ch.initialized = (ch.life = "open") /\ ch.responses \in Seq(Reply)
      /\ active' \in [Nodes -> [Nodes -> Conns \cup {NoConn}]]
    BY <1>2, <1>3, ChannelIs
<1>5. /\ Kept(x, ch) /\ x.responses = ch.responses /\ x.requests \in Seq(Entry)
      /\ InLine(x.requests, asked, pinged, sending[e[2]] # NoConn)
      /\ Greeting(x.requests) => Greeting(q)
      /\ Out(q) /\ Head(wire[e]).code = Answers[q[1].msg.code] => ~Out(x.requests)
    BY <1>1, <1>2, ReadingAnswers
<1>6. Polite(e = Near(e[1]), channel[e], x, wire[e], u, <<>>)
    BY <1>1, <1>2, <1>5, NoneEmpty DEF Polite, Kept
<1>7. Own(channel[e].requests, x.requests, wire[e], u, <<>>)
    BY <1>1, <1>5, NoneEmpty DEF Own, Replies
<1>8. ToPeer(channel[e], x, wire[e], u, <<>>, OtherEnd(e) \in unanswered, OtherEnd(e) \in unanswered')
    BY <1>1, <1>2, <1>3, <1>5, NoneEmpty DEF ToPeer, Passes, Kinds, Kept
<1>9. InLine(x.requests, asked', pinged', sending'[e[2]] # NoConn)
    BY <1>3, <1>5 DEF Unnumbered
<1>10. Later /\ Answering(e) /\ Careful(e, x, u, <<>>)
    BY <1>3, <1>7, <1>8, UnnumberedIs DEF Answering, Careful
<1>11. /\ IsChannel(x) /\ x.initialized = (x.life = "open") /\ x.requests \in Seq(Entry)
       /\ x.responses \in Seq(Reply) /\ x.rejected = channel[e].rejected
       /\ x.life = "open" => Unclosed(e)
    BY <1>2, <1>4, <1>5 DEF Unclosed, Kept
<1> HIDE DEF u
<1> QED BY <1>1, <1>3, <1>4, <1>6, <1>9, <1>10, <1>11, PlainSteps

LEMMA RequestSteps ==
    ASSUME Inv, NEW e \in Ends, ReceiveRequest(e)
    PROVE  Stepped(e)
<1> DEFINE u == Tail(wire[e])
           m == Head(wire[e])
           q == channel[e].requests
<1>1. /\ wire[e] # <<>> /\ m.code \in {"PING", "GET_BLOCK"} /\ m \in Message
      /\ channel[e].at = "idle" /\ channel[e].life \in {"open", "closing"}
      /\ TakenFrom(wire[e], u) /\ Leaves(e, Rest(e), u)
    BY ReadingIs DEF ReceiveRequest
<1>2. PICK ch, x : ch = channel[e] /\ x = Reading(e)
    OBVIOUS
<1>3. m \in [code : Kinds, id : Nat] /\ AnswerTo(m) \in Reply /\ AnswerTo(m).code # "WORLD"
      /\ ~IsRequest(AnswerTo(m))
    <2>1. m \in [code : Kinds, id : Nat]
        BY <1>1 DEF Message, Kinds
    <2>2. AnswerTo(m) \in Reply /\ AnswerTo(m).code = Answers[m.code]
        BY <2>1, AnswerIs
    <2> QED BY <1>1, <2>1, <2>2, AnswersAre DEF Reply, IsRequest, Kinds, Replies
<1>4. /\ Unnumbered /\ UNCHANGED <<broken, active>>
      /\ \/ SendMessage(e, x, Rest(e), AnswerTo(m)) /\ unanswered' = unanswered
         \/ /\ channel' = [channel EXCEPT ![e] = x] /\ wire' = Rest(e)
            /\ unanswered' = unanswered \cup {OtherEnd(e)}
    BY <1>2 DEF ReceiveRequest, ReadFrame, Unnumbered
<1>5. /\ ch.initialized = (ch.life = "open") /\ ch.responses \in Seq(Reply)
      /\ active' \in [Nodes -> [Nodes -> Conns \cup {NoConn}]]
    BY <1>2, <1>4, ChannelIs
<1>6. /\ Kept(x, ch) /\ x.responses = ch.responses /\ x.requests \in Seq(Entry)
      /\ InLine(x.requests, asked, pinged, sending[e[2]] # NoConn) /\ x.requests = q
    BY <1>1, <1>2, <1>3, ReadingAnswers
<1>7. Polite(e = Near(e[1]), channel[e], x, wire[e], u, <<>>)
    BY <1>1, <1>2, <1>6, NoneEmpty DEF Polite, Kept
<1>8. Own(channel[e].requests, q, wire[e], u, <<>>)
    BY <1>1, NoneEmpty DEF Own, Passes, Replies
<1>9. InLine(x.requests, asked', pinged', sending'[e[2]] # NoConn) /\ Later
    BY <1>4, <1>6, UnnumberedIs DEF Unnumbered
<1>10. /\ IsChannel(x) /\ x.initialized = (x.life = "open") /\ x.requests \in Seq(Entry)
       /\ x.responses \in Seq(Reply) /\ x.rejected = channel[e].rejected
       /\ x.life = channel[e].life /\ x.life # "none" /\ x.responses = channel[e].responses
       /\ x.life = "open" => Unclosed(e)
    BY <1>1, <1>2, <1>5, <1>6 DEF Unclosed, Kept
<1>11. CASE SendMessage(e, x, Rest(e), AnswerTo(m)) /\ unanswered' = unanswered
    <2>1. ASSUME NEW y, With(y, x, AnswerTo(m)) PROVE Careful(e, y, u, <<>>)
        <3>1. y.requests = q /\ y.responses = Append(ch.responses, AnswerTo(m)) /\ y.at = "idle"
            BY <1>1, <1>2, <1>3, <1>6, <2>1 DEF With, Kept
        <3>2. ToPeer(channel[e], y, wire[e], u, <<>>, OtherEnd(e) \in unanswered, OtherEnd(e) \in unanswered')
            BY <1>1, <1>2, <1>3, <1>11, <3>1, NoneEmpty DEF ToPeer, Kinds
        <3> QED BY <1>8, <3>1, <3>2 DEF Careful
    <2>2. Replies1(e, AnswerTo(m)) /\ Answering(e)
        BY <1>3, <1>11 DEF Replies1, Answering
    <2> HIDE DEF u, m
    <2> QED BY <1>1, <1>4, <1>7, <1>9, <1>10, <1>11, <2>1, <2>2, SendSteps
<1>12. CASE /\ channel' = [channel EXCEPT ![e] = x] /\ wire' = Rest(e)
            /\ unanswered' = unanswered \cup {OtherEnd(e)}
    <2>1. ToPeer(channel[e], x, wire[e], u, <<>>, OtherEnd(e) \in unanswered, OtherEnd(e) \in unanswered')
        BY <1>1, <1>2, <1>6, <1>12, NoneEmpty DEF ToPeer, Kinds, Kept
    <2>2. Careful(e, x, u, <<>>) /\ Answering(e)
        BY <1>6, <1>8, <1>12, <2>1 DEF Careful, Answering
    <2> HIDE DEF u, m
    <2> QED BY <1>1, <1>4, <1>5, <1>7, <1>9, <1>10, <1>12, <2>2, PlainSteps
<1> QED BY <1>4, <1>11, <1>12

LEMMA NudgeSteps ==
    ASSUME Inv, NEW e \in Ends, Nudge(e)
    PROVE  Stepped(e)
<1> DEFINE q == channel[e].requests
           s == channel[e].responses
<1>1. PICK r, a, b : /\ r = RemoveAnswered(q) /\ a = WithHeadSent(r)
                     /\ b = IF s = <<>> THEN s ELSE Tail(s)
    OBVIOUS
<1>2. PICK x : x = [channel[e] EXCEPT !.requests = a, !.responses = b]
    OBVIOUS
<1>3. PICK dropped \in Drops(Outgoing(channel[e])) :
          /\ wire' = PutAll(wire, e, (IF dropped THEN <<>> ELSE Outgoing(channel[e])) \o Unsent(r))
          /\ unanswered' = IF dropped THEN unanswered \cup {OtherEnd(e)} ELSE unanswered
    BY <1>1 DEF Nudge
<1>4. /\ channel' = [channel EXCEPT ![e] = x] /\ channel[e].initialized
      /\ Unnumbered /\ UNCHANGED <<active, broken>>
    <2>1. channel' = [channel EXCEPT ![e].requests = a, ![e].responses = b]
        BY <1>1 DEF Nudge, WithHeadSent
    <2>2. channel' = [channel EXCEPT ![e] = x]
        BY <1>2, <2>1 DEF Inv, Registry, AreChannels
    <2> QED BY <2>2 DEF Nudge, Unnumbered
<1>5. /\ IsChannel(channel[e]) /\ q \in Seq(Entry) /\ s \in Seq(Reply)
      /\ channel[e].life = "open" /\ wire[e] \in Seq(Message)
      /\ InLine(q, asked, pinged, sending[e[2]] # NoConn)
      /\ active' \in [Nodes -> [Nodes -> Conns \cup {NoConn}]]
    BY <1>4, ChannelIs
<1>6. Kept(x, channel[e]) /\ x.requests = a /\ x.responses = b
    BY <1>2, <1>5 DEF Kept, IsChannel
<1>7. /\ a \in Seq(Entry) /\ InLine(a, asked, pinged, sending[e[2]] # NoConn) /\ ~Greeting(a)
      /\ \/ Unsent(r) = <<>> /\ (Out(a) <=> Out(q)) /\ (Out(q) => a[1].msg = q[1].msg)
         \/ /\ ~Out(q) /\ Out(a) /\ Unsent(r) = <<a[1].msg>>
            /\ a[1].msg \in [code : Kinds, id : Nat]
      /\ Unsent(r) # <<>> /\ Unsent(r)[1].code = "HELLO" => Greeting(q)
    BY <1>1, <1>5, InLineNudged
<1>8. b \in Seq(Reply) /\ (None(s, {"WORLD"}) => None(b, {"WORLD"}))
    BY <1>1, <1>5, HeadTailProperties, NoneTail
<1>9. s # <<>> => Head(s) \in Reply /\ Head(s) \in Message
    <2>1. s # <<>> => Head(s) \in Reply
        BY <1>5, HeadTailProperties
    <2> QED BY <2>1 DEF Reply, Message
<1> HIDE DEF q, s
<1>10. PICK R, Q, t : /\ R = (IF dropped THEN <<>> ELSE Outgoing(channel[e])) /\ Q = Unsent(r)
                      /\ t = (IF dropped THEN <<>> ELSE Outgoing(channel[e])) \o Unsent(r)
    OBVIOUS
<1>11. Outgoing(channel[e]) = IF s = <<>> THEN <<>> ELSE <<Head(s)>>
    BY DEF Outgoing, s
<1>12. dropped => s # <<>>
    BY <1>11 DEF Drops
<1>13. \/ R = <<>> /\ (s = <<>> \/ dropped)
       \/ R = <<Head(s)>> /\ s # <<>> /\ ~dropped
    BY <1>10, <1>11
<1>14. /\ R \in Seq(Message) /\ None(R, Kinds) /\ None(R, {"HELLO"})
       /\ None(s, {"WORLD"}) => None(R, {"WORLD"})
       /\ R # <<>> => Once(R, Replies, Head(s))
    <2>1. CASE R = <<>>
        BY <2>1, EmptySeq, NoneEmpty
    <2>2. CASE R = <<Head(s)>> /\ s # <<>>
        <3>1. Head(s).code \in Replies /\ Head(s) \in Message
            BY <1>9, <2>2 DEF Reply
        <3>2. Head(s).code \notin Kinds /\ Head(s).code \notin {"HELLO"}
            BY <3>1 DEF Replies, Kinds
        <3>3. None(R, Kinds) /\ None(R, {"HELLO"}) /\ Once(R, Replies, Head(s))
            BY <2>2, <3>1, <3>2, NoneOne, OnceOne
        <3>4. None(s, {"WORLD"}) => None(R, {"WORLD"})
            <4>1. None(s, {"WORLD"}) => Head(s).code \notin {"WORLD"}
                BY <1>5, <2>2, NoneTail DEF s
            <4> QED BY <2>2, <4>1, NoneOne
        <3>5. R \in Seq(Message)
            BY <2>2, <3>1
        <3> QED BY <3>3, <3>4, <3>5
    <2> QED BY <1>13, <2>1, <2>2
<1>15. /\ Q \in Seq(Message) /\ None(Q, Replies) /\ None(Q, {"WORLD"})
       /\ Q = <<>> => None(Q, Kinds)
       /\ Q # <<>> => Once(Q, Kinds, a[1].msg)
       /\ ~None(Q, {"HELLO"}) => Greeting(q) /\ Once(Q, {"HELLO"}, Hello)
    <2>1. CASE Q = <<>>
        BY <2>1, EmptySeq, NoneEmpty
    <2>2. CASE Q # <<>>
        <3>1. Q = <<a[1].msg>> /\ a[1].msg \in [code : Kinds, id : Nat]
            BY <1>7, <1>10, <2>2
        <3>2. PICK m : m = a[1].msg
            OBVIOUS
        <3>3. m \in [code : Kinds, id : Nat] /\ Q = <<m>> /\ m \in Message
            BY <3>1, <3>2 DEF Message
        <3>4. m.code \notin Replies /\ m.code \notin {"WORLD"} /\ m.code \in Kinds
            BY <3>3 DEF Replies, Kinds
        <3>5. None(Q, Replies) /\ None(Q, {"WORLD"}) /\ Once(Q, Kinds, m)
            BY <3>3, <3>4, NoneOne, OnceOne
        <3>6. ASSUME ~None(Q, {"HELLO"}) PROVE Greeting(q) /\ Once(Q, {"HELLO"}, Hello)
            <4>1. m.code = "HELLO"
                BY <3>3, <3>6, NoneOne
            <4>2. Greeting(q)
                BY <1>7, <1>10, <2>2, <3>3, <4>1
            <4>3. m.id = 0
                <5>1. a # <<>>
                    BY <1>7, <1>10, <2>2 DEF Out
                <5>2. 1 \in 1..Len(a) /\ DOMAIN a = 1..Len(a)
                    BY <1>7, <5>1, EmptySeq, LenProperties
                <5>3. InLine(a, asked, pinged, sending[e[2]] # NoConn)
                    BY <1>7
                <5> QED BY ONLY <3>2, <4>1, <5>2, <5>3 DEF InLine
            <4>4. m = Hello
                BY <3>3, <4>1, <4>3 DEF Hello, Request
            <4> QED BY <3>3, <4>1, <4>2, <4>4, OnceOne
        <3>7. Q \in Seq(Message)
            BY <3>3
        <3> QED BY <2>2, <3>2, <3>5, <3>6, <3>7
    <2> QED BY <2>1, <2>2
<1>16. /\ t \in Seq(Message)
       /\ None(t, Kinds) <=> None(R, Kinds) /\ None(Q, Kinds)
       /\ None(t, Replies) <=> None(R, Replies) /\ None(Q, Replies)
       /\ None(t, {"HELLO"}) <=> None(R, {"HELLO"}) /\ None(Q, {"HELLO"})
       /\ None(t, {"WORLD"}) <=> None(R, {"WORLD"}) /\ None(Q, {"WORLD"})
       /\ \A m : None(R, Kinds) /\ Once(Q, Kinds, m) => Once(t, Kinds, m)
       /\ \A m : Once(R, Replies, m) /\ None(Q, Replies) => Once(t, Replies, m)
       /\ \A m : None(R, {"HELLO"}) /\ Once(Q, {"HELLO"}, m) => Once(t, {"HELLO"}, m)
    <2>1. t = R \o Q
        BY <1>10
    <2>2. R \o Q \in Seq(Message)
        BY <1>14, <1>15, ConcatProperties
    <2> QED BY <1>14, <1>15, <2>1, <2>2, Concatenated
<1>17. Leaves(e, wire, wire[e]) /\ wire' = PutAll(wire, e, t)
    BY <1>3, <1>10, LeavesAre DEF Inv
<1>18. Moved(e, x, wire[e], t)
    BY <1>4, <1>5, <1>6, <1>16, <1>17, MovedIs DEF Kept
<1>19. Polite(e = Near(e[1]), channel[e], x, wire[e], wire[e], t)
    BY <1>5, <1>6, <1>7, <1>8, <1>14, <1>15, <1>16 DEF Polite, Kept, TakenFrom, q, s
<1>20. Own(channel[e].requests, x.requests, wire[e], wire[e], t)
    <2>1. CASE Q = <<>>
        BY <1>6, <1>7, <1>10, <1>14, <1>15, <1>16, <2>1 DEF Own, Passes, q
    <2>2. CASE Q # <<>>
        BY <1>6, <1>7, <1>10, <1>14, <1>15, <1>16, <2>2 DEF Own, q
    <2> QED BY <2>1, <2>2
<1>21. ToPeer(channel[e], x, wire[e], wire[e], t, OtherEnd(e) \in unanswered, OtherEnd(e) \in unanswered')
    <2>1. CASE s = <<>>
        <3>1. R = <<>> /\ ~dropped /\ unanswered' = unanswered /\ b = s
            BY <1>1, <1>3, <1>12, <1>13, <2>1 DEF s
        <3>2. None(R, Replies)
            BY <3>1, NoneEmpty
        <3> QED BY <1>6, <1>15, <1>16, <3>1, <3>2 DEF ToPeer, Passes, Kept, s
    <2>2. CASE s # <<>> /\ ~dropped
        <3>1. R = <<Head(s)>> /\ unanswered' = unanswered /\ b = Tail(s) /\ R # <<>>
            BY <1>1, <1>3, <1>13, <2>2 DEF s
        <3>2. Once(t, Replies, Head(s))
            BY <1>14, <1>15, <1>16, <3>1
        <3> QED BY <1>6, <2>2, <3>1, <3>2 DEF ToPeer, Kept, s
    <2>3. CASE s # <<>> /\ dropped
        <3>1. R = <<>> /\ OtherEnd(e) \in unanswered' /\ b = Tail(s)
            BY <1>1, <1>3, <1>13, <2>3 DEF s
        <3>2. None(t, Replies)
            BY <1>15, <1>16, <3>1, NoneEmpty
        <3> QED BY <1>6, <2>3, <3>1, <3>2 DEF ToPeer, Kept, s
    <2> QED BY <2>1, <2>2, <2>3
<1>22. Answering(e) /\ Unclosed(e) /\ Careful(e, x, wire[e], t)
    BY <1>3, <1>5, <1>20, <1>21 DEF Answering, Unclosed, Careful
<1>23. Proper(e, x, wire[e], t)
    <2>1. InLine(x.requests, asked', pinged', sending'[e[2]] # NoConn)
        BY <1>4, <1>6, <1>7 DEF Unnumbered
    <2>2. x.initialized = (x.life = "open")
        BY <1>6, ChannelIs DEF Kept
    <2> QED BY <1>6, <1>7, <1>8, <1>16, <1>18, <1>19, <2>1, <2>2 DEF Proper
<1>24. Spares(e, x)
    BY <1>6 DEF Spares, Kept
<1> QED BY <1>4, <1>22, <1>23, <1>24, UnnumberedIs DEF Stepped

\* A new request of this node on an open channel.
LEMMA NewRequestSteps ==
    ASSUME Inv, NEW e \in Ends, NEW m, Joins(e, channel[e].requests, m),
           SendMessage(e, channel[e], wire, m), UNCHANGED <<active, broken, unanswered>>, Later,
           channel[e].life # "none",
           InLine(channel[e].requests, asked', pinged', sending'[e[2]] # NoConn)
    PROVE  Stepped(e)
<1> DEFINE u == wire[e]
           q == channel[e].requests
<1>1. m \in [code : Kinds, id : Nat] /\ m.code # "HELLO" /\ IsRequest(m)
    <2>1. m \in [code : Kinds, id : Nat] /\ m.code # "HELLO"
        BY DEF Joins
    <2> QED BY <2>1, AnswerIs
<1>2. PICK ch : ch = channel[e]
    OBVIOUS
<1>3. /\ IsChannel(ch) /\ q \in Seq(Entry) /\ ch.initialized = (ch.life = "open")
    BY <1>2, ChannelIs
<1>4. Polite(e = Near(e[1]), channel[e], ch, wire[e], u, <<>>)
    BY <1>2, NoneEmpty DEF Polite, TakenFrom
<1>5. ASSUME NEW y, With(y, ch, m) PROVE Careful(e, y, u, <<>>)
    <2>1. y.requests = Append(q, NewEntry(m)) /\ y.responses = ch.responses /\ y.at = ch.at
        BY <1>1, <1>2, <1>5 DEF With, Kept
    <2>2. LET z == Append(q, NewEntry(m)) IN (Out(z) <=> Out(q)) /\ (q # <<>> => z[1] = q[1])
        BY <1>1, <1>3, InLineAppend DEF Joins
    <2>3. (Out(y.requests) <=> Out(q)) /\ (Out(q) => y.requests[1].msg = q[1].msg)
        BY <2>1, <2>2 DEF Out
    <2>4. Own(channel[e].requests, y.requests, wire[e], u, <<>>)
        BY <2>3, NoneEmpty DEF Own, Passes
    <2>5. ToPeer(channel[e], y, wire[e], u, <<>>, OtherEnd(e) \in unanswered, OtherEnd(e) \in unanswered')
        BY <1>2, <2>1, NoneEmpty DEF ToPeer, Passes
    <2> QED BY <2>4, <2>5 DEF Careful
<1>6. Leaves(e, wire, u) /\ Answering(e)
    BY LeavesAre DEF Inv, Answering
<1> HIDE DEF u
<1> QED BY <1>2, <1>3, <1>4, <1>5, <1>6, SendSteps DEF q

LEMMA PingSteps ==
    ASSUME Inv, NEW e \in Ends, Ping(e)
    PROVE  Stepped(e)
<1> DEFINE m == Request("PING", pinged + 1)
           q == channel[e].requests
<1>1. /\ SendMessage(e, channel[e], wire, m) /\ pinged' = pinged + 1 /\ channel[e].initialized
      /\ UNCHANGED <<active, broken, unanswered, asked, sending>>
    BY DEF Ping
<1>2. /\ q \in Seq(Entry) /\ channel[e].initialized = (channel[e].life = "open") /\ e[2] \in Nodes
      /\ InLine(q, asked, pinged, sending[e[2]] # NoConn) /\ asked \in Nat /\ pinged \in Nat
    BY ChannelIs DEF Inv, Numbered
<1>3. Later
    BY <1>1, <1>2 DEF Later, Inv, Numbered
<1>4. InLine(q, asked', pinged', sending'[e[2]] # NoConn)
    <2>1. /\ asked' \in Nat /\ pinged' \in Nat /\ asked <= asked' /\ pinged <= pinged'
          /\ (sending'[e[2]] # NoConn) => (sending[e[2]] # NoConn)
        BY <1>1, <1>2
    <2> HIDE DEF q, m
    <2> QED BY ONLY <1>2, <2>1, InLineLater
<1>5. m \in [code : Kinds \ {"HELLO"}, id : Nat] /\ m.code = "PING" /\ m.id = pinged + 1
    BY <1>2 DEF Request, Kinds
<1>6. \A i \in DOMAIN q : q[i].msg # m
    <2> SUFFICES ASSUME NEW i \in DOMAIN q, q[i].msg = m PROVE FALSE
        OBVIOUS
    <2>1. q[i].msg.id <= pinged
        BY <1>2, <1>5 DEF InLine
    <2> QED BY <1>2, <1>5, <2>1
<1>7. Joins(e, q, m)
    BY <1>1, <1>2, <1>5, <1>6 DEF Joins
<1> HIDE DEF m
<1> QED BY <1>1, <1>2, <1>3, <1>4, <1>7, NewRequestSteps

LEMMA AskSteps ==
    ASSUME Inv, NEW n \in Nodes, AskForBlock(n)
    PROVE  \E e \in Ends : Stepped(e)
<1> DEFINE m == Request("GET_BLOCK", asked)
<1>1. PICK e : e = <<sending[n], n>>
    OBVIOUS
<1>2. /\ SendMessage(e, channel[e], wire, m) /\ sending' = [sending EXCEPT ![n] = NoConn]
      /\ UNCHANGED <<active, broken, unanswered, asked, pinged>> /\ sending[n] # NoConn
    BY <1>1 DEF AskForBlock
<1>3. e \in Ends /\ channel[e].life # "none" /\ e[2] = n
    BY <1>1, <1>2 DEF Inv, Chosen
<1> DEFINE q == channel[e].requests
<1>4. /\ q \in Seq(Entry) /\ InLine(q, asked, pinged, sending[n] # NoConn)
      /\ asked \in Nat /\ pinged \in Nat /\ sending \in [Nodes -> Conns \cup {NoConn}]
    BY <1>3, ChannelIs DEF Inv, Numbered
<1>5. Later /\ sending'[n] = NoConn
    BY <1>2, <1>4 DEF Later, Numbered
<1>6. InLine(q, asked', pinged', sending'[e[2]] # NoConn)
    <2>1. /\ asked' \in Nat /\ pinged' \in Nat /\ asked <= asked' /\ pinged <= pinged'
          /\ (sending'[e[2]] # NoConn) => (sending[n] # NoConn)
        BY <1>2, <1>3, <1>4
    <2> HIDE DEF q, m
    <2> QED BY ONLY <1>4, <2>1, InLineLater
<1>7. m \in [code : Kinds \ {"HELLO"}, id : Nat] /\ m.code = "GET_BLOCK" /\ m.id = asked
    BY <1>4 DEF Request, Kinds
<1>8. \A i \in DOMAIN q : q[i].msg # m
    <2> SUFFICES ASSUME NEW i \in DOMAIN q, q[i].msg = m PROVE FALSE
        OBVIOUS
    <2>1. q[i].msg.id < asked
        BY <1>2, <1>4, <1>7 DEF InLine
    <2> QED BY <1>4, <1>7, <2>1
<1>9. Joins(e, q, m)
    BY <1>2, <1>3, <1>4, <1>5, <1>7, <1>8 DEF Joins
<1> HIDE DEF m
<1>10. Stepped(e)
    BY <1>2, <1>3, <1>5, <1>6, <1>9, NewRequestSteps
<1> QED BY <1>3, <1>10

----------------------------------------------------------------------------
(* Steps that leave the channels alone. *)

\* The sync chooses a channel: a number is given out that no request in line has.
LEMMA ChooseKeeps ==
    ASSUME Inv, Registry', NEW n \in Nodes, ChooseIdle(n)
    PROVE  Inv'
<1>1. PICK p \in Nodes : active[n][p] # NoConn /\ sending' = [sending EXCEPT ![n] = active[n][p]]
    BY DEF ChooseIdle
<1>2. PICK c : c = active[n][p]
    OBVIOUS
<1>3. <<c, n>> \in Ends /\ channel[<<c, n>>].life # "none" /\ c \in Conns
    <2>1. <<c, n>> \in Ends /\ channel[<<c, n>>].isActive
        BY <1>1, <1>2 DEF Inv, Registry, Entered
    <2>2. Alive(<<c, n>>)
        BY <2>1 DEF Inv, Registry, Connected
    <2> QED BY <2>1, <2>2, EndsAre DEF Alive
<1>4. /\ asked' = asked + 1 /\ pinged' = pinged /\ asked \in Nat /\ pinged \in Nat
      /\ sending \in [Nodes -> Conns \cup {NoConn}]
      /\ UNCHANGED <<channel, wire, broken, unanswered>>
    BY DEF ChooseIdle, Inv, Numbered
<1>5. Wired' /\ Queued' /\ Shaken' /\ SentOnce' /\ NeverAllRefused'
    BY <1>4 DEF Inv, Wired, Queued, Shaken, Handshake, SentOnce, Stands, Unclosed, NeverAllRefused,
                Fresh, Near, Far, OtherEnd, Peer, IsInbound, Dialer, Acceptor
<1>6. Numbered'
    BY <1>1, <1>2, <1>3, <1>4 DEF Numbered
<1>7. Chosen'
    <2> SUFFICES ASSUME NEW m \in Nodes, sending'[m] # NoConn
                 PROVE  <<sending'[m], m>> \in Ends /\ channel[<<sending'[m], m>>].life # "none"
        BY <1>4 DEF Chosen
    <2>1. CASE m = n
        BY <1>1, <1>2, <1>3, <1>4, <2>1
    <2>2. CASE m # n
        BY <1>1, <1>4, <2>2 DEF Inv, Chosen
    <2> QED BY <2>1, <2>2
<1>8. Lined'
    <2> SUFFICES ASSUME NEW d \in Ends
                 PROVE  InLine(channel[d].requests, asked', pinged', sending'[d[2]] # NoConn)
        BY <1>4 DEF Lined
    <2>1. /\ channel[d].requests \in Seq(Entry)
          /\ InLine(channel[d].requests, asked, pinged, sending[d[2]] # NoConn)
        BY ChannelIs
    <2>2. /\ asked \in Nat /\ pinged \in Nat /\ asked' \in Nat /\ pinged' \in Nat
          /\ asked <= asked' /\ pinged <= pinged' /\ asked < asked'
        BY <1>4
    <2> QED BY ONLY <2>1, <2>2, InLineLater
<1> QED BY <1>5, <1>6, <1>7, <1>8 DEF Inv

\* A connection breaks: what was under way is lost, and no more is said of it.
LEMMA BreakKeeps ==
    ASSUME Inv, Registry', NEW c \in Conns, Break(c)
    PROVE  Inv'
<1>1. /\ broken' = broken \cup {c}
      /\ wire' = [e \in Ends |-> IF e[1] = c THEN <<>> ELSE wire[e]]
      /\ UNCHANGED <<channel, sending, asked, pinged, unanswered>>
    BY DEF Break
<1>2. Numbered' /\ Queued' /\ Chosen' /\ Lined' /\ NeverAllRefused'
    BY <1>1 DEF Inv, Numbered, Queued, Chosen, Lined, NeverAllRefused, Fresh, Dialer, Acceptor
<1>3. Wired'
    <2>1. \A e \in Ends : wire'[e] \in Seq(Message)
        BY <1>1, EmptySeq DEF Inv, Wired
    <2>2. wire' = [e \in Ends |-> wire'[e]]
        BY <1>1
    <2> QED BY <2>1, <2>2 DEF Wired
<1>4. Shaken'
    <2> SUFFICES ASSUME NEW k \in Conns PROVE Handshake(k)'
        BY DEF Shaken
    <2> SUFFICES Shake(channel[Near(k)], channel[Far(k)], wire'[Near(k)], wire'[Far(k)])
        BY <1>1 DEF Handshake, Near, Far, Dialer, Acceptor
    <2>1. Shake(channel[Near(k)], channel[Far(k)], wire[Near(k)], wire[Far(k)])
        BY DEF Inv, Shaken, Handshake
    <2>2. /\ Near(k) \in Ends /\ Far(k) \in Ends /\ Near(k)[1] = k /\ Far(k)[1] = k
        BY EndsOf
    <2>3. CASE k = c
        <3>1. wire'[Near(k)] = <<>> /\ wire'[Far(k)] = <<>>
            BY <1>1, <2>2, <2>3
        <3>2. None(<<>>, {"HELLO"}) /\ None(<<>>, {"WORLD"})
            BY NoneEmpty
        <3> QED BY <2>1, <3>1, <3>2 DEF Shake, Silent
    <2>4. CASE k # c
        BY <1>1, <2>1, <2>2, <2>4
    <2> QED BY <2>3, <2>4
<1>5. SentOnce'
    <2> SUFFICES ASSUME NEW e \in Ends, Stands(e)'
                 PROVE  Lone(channel[e].requests, e \in unanswered, wire'[OtherEnd(e)],
                             channel[OtherEnd(e)], wire'[e])
        BY <1>1 DEF SentOnce, OtherEnd, Peer, IsInbound, Dialer, Acceptor
    <2>1. e[1] # c /\ Stands(e)
        BY <1>1 DEF Stands, Unclosed, OtherEnd, Peer, IsInbound, Dialer, Acceptor
    <2>2. OtherEnd(e) \in Ends /\ OtherEnd(e)[1] = e[1]
        BY OtherEndIs
    <2>3. wire'[e] = wire[e] /\ wire'[OtherEnd(e)] = wire[OtherEnd(e)]
        BY <1>1, <2>1, <2>2
    <2> QED BY <2>1, <2>3 DEF Inv, SentOnce
<1> QED BY <1>2, <1>3, <1>4, <1>5 DEF Inv

LEMMA StutterKeeps ==
    ASSUME Inv, Registry', UNCHANGED vars
    PROVE  Inv'
BY DEF Inv, vars, Wired, Numbered, Queued, Chosen, Lined, Shaken, Handshake, SentOnce, Stands,
       Unclosed, NeverAllRefused, Fresh, Near, Far, OtherEnd, Peer, IsInbound, Dialer, Acceptor

LEMMA InvInit == Init => Inv
<1> SUFFICES ASSUME Init PROVE Inv
    OBVIOUS
<1>1. /\ \A e \in Ends : channel[e] = NewChannel /\ wire[e] = <<>>
      /\ wire = [e \in Ends |-> <<>>] /\ asked = 0 /\ pinged = 0
      /\ sending = [n \in Nodes |-> NoConn] /\ broken = {} /\ unanswered = {}
    BY DEF Init
<1>2. /\ NewChannel.life = "none" /\ NewChannel.initialized = FALSE /\ NewChannel.isActive = FALSE
      /\ NewChannel.at = "idle" /\ NewChannel.rejected = FALSE
      /\ NewChannel.requests = <<>> /\ NewChannel.responses = <<>>
    BY DEF NewChannel
<1>3. Registry
    BY RegistryInit
<1>4. Wired /\ Numbered
    BY <1>1, EmptySeq DEF Wired, Numbered
<1>5. Queued
    BY <1>1, <1>2, EmptySeq DEF Queued
<1>6. Chosen
    BY <1>1 DEF Chosen
<1>7. Lined
    BY <1>1, <1>2, InLineEmpty DEF Lined
<1>8. Shaken
    BY <1>1, <1>2, EndsOf, InLineEmpty, NoneEmpty DEF Shaken, Handshake, Shake, Silent
<1>9. NeverAllRefused
    <2>1. \A c \in Conns : Fresh(<<c, Dialer(c)>>)
        BY <1>1, <1>2, EndsOf DEF Fresh, Near
    <2> QED BY <2>1 DEF NeverAllRefused
<1>10. SentOnce
    BY <1>1, <1>2, OtherEndIs, InLineEmpty, NoneEmpty DEF SentOnce, Lone, Still
<1> QED BY <1>3, <1>4, <1>5, <1>6, <1>7, <1>8, <1>9, <1>10 DEF Inv

LEMMA InvStep == Inv /\ [Next]_vars => Inv'
<1> SUFFICES ASSUME Inv, [Next]_vars PROVE Inv'
    OBVIOUS
<1>1. Registry'
    BY RegistryStep DEF Inv
<1>2. CASE \E c \in Conns : Dial(c) \/ Accept(c)
    BY <1>1, <1>2, DialSteps, AcceptSteps, SteppedKeeps
<1>3. CASE \E c \in Conns : Break(c)
    BY <1>1, <1>3, BreakKeeps
<1>4. CASE \E e \in Ends : Handles(e) \/ ReceiveThrows(e) \/ Nudge(e) \/ Ping(e)
    <2>1. PICK e \in Ends : Handles(e) \/ ReceiveThrows(e) \/ Nudge(e) \/ Ping(e)
        BY <1>4
    <2>2. Stepped(e)
        BY <2>1, ClosingSteps, HelloSteps, ActivateSteps, GreetSteps, WorldSteps, RequestSteps,
           AnswerSteps, NudgeSteps, PingSteps DEF Handles
    <2> QED BY <1>1, <2>2, SteppedKeeps
<1>5. CASE \E n \in Nodes : ChooseIdle(n)
    BY <1>1, <1>5, ChooseKeeps
<1>6. CASE \E n \in Nodes : AskForBlock(n)
    BY <1>1, <1>6, AskSteps, SteppedKeeps
<1>7. CASE UNCHANGED vars
    BY <1>1, <1>7, StutterKeeps
<1> QED BY <1>2, <1>3, <1>4, <1>5, <1>6, <1>7 DEF Next

\* For any nodes and any number of dials between them, crossed or not: of the connections
\* that were dialled, not all are refused as duplicates.
THEOREM ChannelsNeverAllRefused == Spec => []NeverAllRefused
<1>1. Inv => NeverAllRefused
    BY DEF Inv
<1> QED BY <1>1, InvInit, InvStep, PTL DEF Spec

\* For any nodes, queues and requests: the request at the head of a queue is under way exactly
\* once from when it was sent until it is answered, and no other request of the queue is.
THEOREM ChannelsRequestUnderWay == Spec => []RequestUnderWay
<1>1. Inv => RequestUnderWay
    <2> SUFFICES ASSUME Inv, NEW e \in Ends, channel[e].initialized, channel[OtherEnd(e)].initialized,
                        e[1] \notin broken, NEW i \in DOMAIN channel[e].requests
                 PROVE  LET r == channel[e].requests[i] IN
                        UnderWay(e, r.msg) = IF i = 1 /\ r.sent /\ ~r.isAnswered /\ e \notin unanswered
                                             THEN 1 ELSE 0
        BY DEF RequestUnderWay
    <2>1. PICK q, o, oc, wo, we : /\ q = channel[e].requests /\ o = OtherEnd(e) /\ oc = channel[OtherEnd(e)]
                                  /\ wo = wire[OtherEnd(e)] /\ we = wire[e]
        OBVIOUS
    <2>2. PICK un : un = (e \in unanswered)
        OBVIOUS
    <2>3. /\ q \in Seq(Entry) /\ we \in Seq(Message) /\ wo \in Seq(Message)
          /\ oc.responses \in Seq(Reply) /\ InLine(q, asked, pinged, sending[e[2]] # NoConn)
          /\ channel[e].life = "open" /\ oc.life = "open"
        BY <2>1, ChannelIs
    <2>4. Stands(e)
        BY <2>1, <2>3 DEF Stands, Unclosed
    <2>5. Lone(q, un, wo, oc, we) /\ un \in BOOLEAN
        <3>1. Lone(q, un, wo, oc, we)
            BY <2>1, <2>2, <2>4 DEF Inv, SentOnce
        <3>2. un \in BOOLEAN
            BY <2>2
        <3> QED BY <3>1, <3>2
    <2>6. i \in DOMAIN q
        BY <2>1
    <2>7. Count(wo, q[i].msg) + Count(oc.responses, AnswerTo(q[i].msg)) + Count(we, AnswerTo(q[i].msg))
            + (IF q[i].msg.code = "HELLO" /\ oc.at # "idle" THEN 1 ELSE 0)
          = IF i = 1 /\ q[i].sent /\ ~q[i].isAnswered /\ ~un THEN 1 ELSE 0
        BY ONLY <2>3, <2>5, <2>6, LoneCounts
    <2> QED BY <2>1, <2>2, <2>7 DEF UnderWay
<1> QED BY <1>1, InvInit, InvStep, PTL DEF Spec
====
