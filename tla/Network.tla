------------------------------ MODULE Network -------------------------------
(***************************************************************************)
(* network/: messages split into packets that travel over links, buses and *)
(* switches.  A packet's event chain is either in the agenda (the engine's *)
(* heap: due frames first, in the order they were scheduled) or suspended  *)
(* in the queue of a buffer.  The user of the network sends a message from *)
(* a handler with TrySend and takes it off with Receive.                   *)
(*                                                                         *)
(* A "busy until cycle c" field of the code is kept here as the number of  *)
(* cycles it still holds, c - cycle + 1, or 0; scheduled_when as whether   *)
(* the decision was taken in this cycle.  No variable grows with time, so  *)
(* the behaviours are unbounded.                                           *)
(***************************************************************************)
EXTENDS Integers, Sequences, FiniteSets, SequencesExt

CONSTANTS
    Messages,       \* message objects; an id is used again after the message is received
    Src, Dst,       \* end nodes of each message
    Size,           \* Message::size
    AutoReceive,    \* messages sent without a receive event
    PacketSize,     \* Network::packet_size, 0 when messages are not split
    FixLatency,     \* fix_latency of the network that carries each message, 0 for one with connections
    Buffers, BufSize, NodeOf,
    ConnOf,         \* the connection of each output buffer
    Conns, Kind,    \* "link" or "bus"
    Sources, Dests, \* the source and destination buffers of a connection, in order
    NumLanes,       \* 1 for a link
    Bandwidth,
    Switches, SwitchBandwidth,
    Inputs,         \* the input buffers of a switch, in order
    Route,          \* Route[n][d]: RoutingTable::Entry, [buffer, next]
    MaxUnderway,    \* bound: messages the user has under way at a time
    None            \* nullptr

\* Message::Packetize: every packet has the full packet size.
SizeOf(m)     == IF PacketSize = 0 THEN Size[m] ELSE PacketSize
NumPackets(m) == (Size[m] - 1) \div SizeOf(m) + 1
PacketsOf(m)  == {<<m, i>> : i \in 1 .. NumPackets(m)}
Packets       == UNION {PacketsOf(m) : m \in Messages}
Lanes(c)      == 1 .. NumLanes[c]
Latency(p, bandwidth) == (SizeOf(p[1]) - 1) \div bandwidth + 1

\* Send and TrySend refuse a message that its first buffer cannot hold.
ASSUME FitsAssumption ==
    \A m \in Messages : NumPackets(m) * SizeOf(m) <= BufSize[Route[Src[m]][Dst[m]].buffer]

\* The buffer at the other end of a link, and the first one of a bus that belongs
\* to the next node of the route.
LinkDest(c, from) == Dests[c][CHOOSE i \in DOMAIN Sources[c] : Sources[c][i] = from]
BusDest(c, from, m) ==
    LET next == Route[NodeOf[from]][Dst[m]].next
    IN  Dests[c][CHOOSE i \in DOMAIN Dests[c] :
                    /\ NodeOf[Dests[c][i]] = next
                    /\ \A j \in 1 .. i - 1 : NodeOf[Dests[c][j]] # next]

\* The way of a message: from the first output buffer over connections and switches
\* to an input buffer of the destination.
Routed(m)      == FixLatency[m] = 0
FirstBuffer(m) == Route[Src[m]][Dst[m]].buffer
OutBuffers     == UNION {Range(Sources[c]) : c \in Conns}
InBuffers      == UNION {Range(Dests[c]) : c \in Conns}
Home(b, m)     == b \in InBuffers /\ NodeOf[b] = Dst[m]
HasRoute(b, m) == NodeOf[b] \in DOMAIN Route /\ Dst[m] \in DOMAIN Route[NodeOf[b]]
CanLeave(b, m) ==
    \/ b \in OutBuffers /\ Kind[ConnOf[b]] = "link"
    \/ /\ b \in OutBuffers /\ Kind[ConnOf[b]] = "bus" /\ HasRoute(b, m)
       /\ \E i \in DOMAIN Dests[ConnOf[b]] :
             NodeOf[Dests[ConnOf[b]][i]] = Route[NodeOf[b]][Dst[m]].next
    \/ b \in InBuffers /\ NodeOf[b] \in Switches /\ HasRoute(b, m)
NextBuffer(b, m) ==
    IF b \in InBuffers THEN Route[NodeOf[b]][Dst[m]].buffer
    ELSE IF Kind[ConnOf[b]] = "link" THEN LinkDest(ConnOf[b], b)
    ELSE BusDest(ConnOf[b], b, m)
Closed(S, m)   == \A b \in S : ~Home(b, m) /\ CanLeave(b, m) => NextBuffer(b, m) \in S
WayFrom(b, m)  == {x \in Buffers : \A S \in SUBSET Buffers : b \in S /\ Closed(S, m) => x \in S}
Way(m)         == WayFrom(FirstBuffer(m), m)

\* What Network.cc reads from the configuration file, or refuses.
ASSUME ConfigAssumption ==
    /\ IsFiniteSet(Messages) /\ IsFiniteSet(Conns) /\ IsFiniteSet(Switches)
    /\ None \notin Packets /\ Messages \cap Packets = {}
    /\ Size \in [Messages -> Nat \ {0}] /\ PacketSize \in Nat
    /\ FixLatency \in [Messages -> Nat]
    /\ BufSize \in [Buffers -> Nat]
    /\ NumLanes \in [Conns -> Nat \ {0}]
    /\ Bandwidth \in [Conns -> Nat \ {0}] /\ SwitchBandwidth \in [Switches -> Nat \ {0}]

\* A buffer is an input or an output buffer and has one connection; a link has a
\* destination for each source; the routing tables lead a message on, through
\* switches, until it is home, and through buffers that can hold a packet of it.
\* The handlers throw where it is otherwise, except that a link waits for ever for
\* room in a buffer that is too small.
ASSUME TopologyAssumption ==
    /\ OutBuffers \subseteq Buffers /\ InBuffers \subseteq Buffers
    /\ OutBuffers \cap InBuffers = {}
    /\ \A c \in Conns :
          /\ Kind[c] \in {"link", "bus"}
          /\ Kind[c] = "link" => DOMAIN Sources[c] \subseteq DOMAIN Dests[c]
          /\ Dests[c] \in Seq(Buffers)
          /\ \A i \in DOMAIN Sources[c] : ConnOf[Sources[c][i]] = c
    /\ \A m \in Messages : FirstBuffer(m) \in Buffers
    /\ \A m \in Messages : Routed(m) =>
          /\ FirstBuffer(m) \in OutBuffers
          /\ \A b \in Way(m) :
                /\ Home(b, m) \/ CanLeave(b, m)
                /\ b \in InBuffers /\ ~Home(b, m) => NextBuffer(b, m) \in OutBuffers
                /\ SizeOf(m) <= BufSize[b]

VARIABLES
    agenda,             \* sequence of [who, event, delay]
    queue,              \* queue[b]: Buffer::event_queue
    content, count,     \* Buffer::packets and Buffer::count
    read_busy, write_busy,
    at,                 \* Packet::buffer
    busy,               \* Packet::busy
    lane,               \* lane[c][l]: busy, and the decision of this cycle
    last_index,         \* Link::last_scheduled_buffer_index, Bus::last_node_index
    scheduled,          \* scheduled[b]: decision of the switch for output buffer b
    received,           \* Message::received_packets
    in_flight           \* messages sent and not yet taken off, in the order of Send

vars == <<agenda, queue, content, count, read_busy, write_busy, at, busy, lane,
          last_index, scheduled, received, in_flight>>

-----------------------------------------------------------------------------
(* The engine, as far as the network uses it.                              *)

Entry(who, event, delay) == [who |-> who, event |-> event, delay |-> delay]

\* The agenda with frames scheduled in d cycles, after the last one due by then.
LastDueIn(ag, d) == CHOOSE k \in 0 .. Len(ag) :
                        /\ k = 0 \/ ag[k].delay <= d
                        /\ \A i \in k + 1 .. Len(ag) : ag[i].delay > d
Scheduled(ag, d, frames) ==
    LET k == LastDueIn(ag, d)
    IN  SubSeq(ag, 1, k) \o frames \o SubSeq(ag, k + 1, Len(ag))

\* Engine::Next: after the frames of the same cycle.
Insert(ag, e) == Scheduled(ag, e.delay, <<e>>)

\* Queue::WakeupAll on a sequence of suspended frames.
WakeUp(ag, frames) == Scheduled(ag, 0, frames)

\* The frame whose handler runs, and the two ways a handler puts it off.
Current      == Head(agenda)
Runs(event)  == agenda # <<>> /\ Current.delay = 0 /\ Current.event = event

\* Mutant of RetryIn: one cycle too late.
RetryLate(n) == /\ agenda' = Insert(Tail(agenda), Entry(Current.who, Current.event, n + 1))
                /\ UNCHANGED queue

RetryIn(n)   == /\ agenda' = Insert(Tail(agenda), Entry(Current.who, Current.event, n))
                /\ UNCHANGED queue

\* Mutant of WaitFor: the frame is suspended and scheduled too.
WaitForAndRetry(b) == /\ agenda' = Insert(Tail(agenda), Entry(Current.who, Current.event, 1))
                      /\ queue' = [queue EXCEPT ![b] = Append(@, Current)]

WaitFor(b)   == /\ agenda' = Tail(agenda)
                /\ queue' = [queue EXCEPT ![b] = Append(@, Current)]

\* Nothing moves.
Stays == UNCHANGED <<content, count, read_busy, write_busy, at, busy, received, in_flight>>

\* One cycle less to go.
Less(n) == IF n = 0 THEN 0 ELSE n - 1

HeadOf(b) == IF content[b] = <<>> THEN None ELSE Head(content[b])

-----------------------------------------------------------------------------
\* Mutant of Transfer: ExtractPacket does not wake the event queue.
TransferNoWakeup(p, from, to, latency, event) ==
    /\ content' = [content EXCEPT ![from] = Tail(@), ![to] = Append(@, p)]
    /\ count' = [count EXCEPT ![from] = @ - SizeOf(p[1]), ![to] = @ + SizeOf(p[1])]
    /\ read_busy' = [read_busy EXCEPT ![from] = latency]
    /\ write_busy' = [write_busy EXCEPT ![to] = latency]
    /\ at' = [at EXCEPT ![p] = to]
    /\ busy' = [busy EXCEPT ![p] = latency]
    /\ agenda' = Insert(Tail(agenda), Entry(p, event, latency))
    /\ UNCHANGED <<queue, received, in_flight>>

\* ExtractPacket from one buffer and InsertPacket into the other, with the
\* resources that are occupied meanwhile; then the next event of the packet.
Transfer(p, from, to, latency, event) ==
    /\ content' = [content EXCEPT ![from] = Tail(@), ![to] = Append(@, p)]
    /\ count' = [count EXCEPT ![from] = @ - SizeOf(p[1]), ![to] = @ + SizeOf(p[1])]
    /\ read_busy' = [read_busy EXCEPT ![from] = latency]
    /\ write_busy' = [write_busy EXCEPT ![to] = latency]
    /\ at' = [at EXCEPT ![p] = to]
    /\ busy' = [busy EXCEPT ![p] = latency]
    /\ agenda' = Insert(WakeUp(Tail(agenda), queue[from]), Entry(p, event, latency))
    /\ queue' = [queue EXCEPT ![from] = <<>>]
    /\ UNCHANGED <<received, in_flight>>

Fits(p, b) == count[b] + SizeOf(p[1]) <= BufSize[b]

\* The round robin of VirtualChannelArbitration and LaneArbitration: the first
\* source buffer after the last one whose head can be sent now, or 0.
ReadyToSend(b) == HeadOf(b) # None /\ busy[HeadOf(b)] = 0 /\ read_busy[b] = 0
After(c, last, k) == ((last + k - 1) % Len(Sources[c])) + 1
RoundRobin(c, last) ==
    LET Ready(k) == ReadyToSend(Sources[c][After(c, last, k)])
    IN  IF \E k \in DOMAIN Sources[c] : Ready(k)
        THEN After(c, last, CHOOSE k \in DOMAIN Sources[c] :
                                Ready(k) /\ \A x \in 1 .. k - 1 : ~Ready(x))
        ELSE 0

\* What arbitrating lane l of connection c leaves behind, given the lanes and
\* the last index as they are.  A decision of this cycle stands.
Arbitrate(c, lanes, last, l, always) ==
    IF lanes[l].decided THEN [lanes |-> lanes, last |-> last]
    ELSE LET k == IF lanes[l].busy > 0 /\ ~always THEN 0 ELSE RoundRobin(c, last)
         IN  [lanes |-> [lanes EXCEPT ![l].decided = TRUE,
                              ![l].buffer = IF k = 0 THEN None ELSE Sources[c][k]],
              last  |-> IF k = 0 THEN last ELSE k]

\* Mutant of LinkBusy: busy > cycle instead of busy >= cycle.
LinkBusyLess(c) == Less(lane[c][1].busy)

\* The cycles a link is still busy.
LinkBusy(c) == lane[c][1].busy

\* Link::TransferPacket
LinkTransfer(p, c) ==
    LET from == at[p]
        to   == LinkDest(c, from)
        arb  == Arbitrate(c, lane[c], last_index[c], 1, TRUE)
        mine == arb.lanes[1].buffer = from
    IN  \/ /\ HeadOf(from) # p
           /\ WaitFor(from) /\ Stays /\ UNCHANGED <<lane, last_index>>
        \/ /\ HeadOf(from) = p /\ LinkBusy(c) > 0
           /\ RetryIn(LinkBusy(c)) /\ Stays /\ UNCHANGED <<lane, last_index>>
        \/ /\ HeadOf(from) = p /\ LinkBusy(c) = 0
           /\ last_index' = [last_index EXCEPT ![c] = arb.last]
           /\ \/ /\ ~mine
                 /\ RetryIn(1) /\ Stays
                 /\ lane' = [lane EXCEPT ![c] = arb.lanes]
              \/ /\ mine /\ (write_busy[to] > 0 \/ ~Fits(p, to))
                 /\ IF write_busy[to] > 0 THEN RetryIn(write_busy[to]) ELSE WaitFor(to)
                 /\ Stays
                 /\ lane' = [lane EXCEPT ![c] = arb.lanes]
              \/ /\ mine /\ write_busy[to] = 0 /\ Fits(p, to)
                 /\ Transfer(p, from, to, Latency(p, Bandwidth[c]), "input_buffer")
                 /\ lane' = [lane EXCEPT ![c] = [arb.lanes EXCEPT
                                                   ![1].busy = Latency(p, Bandwidth[c])]]

\* Bus::Arbitration: the lanes are arbitrated in turn until one has decided for
\* the buffer.
BusArbitration(c, from) ==
    LET Step(r, l) ==
            IF r.won # 0 THEN r
            ELSE CHOOSE next \in {[lanes |-> x.lanes, last |-> x.last,
                                   won |-> IF x.lanes[l].buffer = from THEN l ELSE 0] :
                                  x \in {Arbitrate(c, r.lanes, r.last, l, FALSE)}} : TRUE
    IN  FoldLeft(Step, [lanes |-> lane[c], last |-> last_index[c], won |-> 0],
                 [l \in Lanes(c) |-> l])

\* Bus::TransferPacket
BusTransfer(p, c) ==
    LET from == at[p]
        to   == BusDest(c, from, p[1])
    IN  \/ /\ HeadOf(from) # p
           /\ WaitFor(from) /\ Stays /\ UNCHANGED <<lane, last_index>>
        \/ /\ HeadOf(from) = p /\ write_busy[to] > 0
           /\ RetryIn(write_busy[to]) /\ Stays /\ UNCHANGED <<lane, last_index>>
        \/ /\ HeadOf(from) = p /\ write_busy[to] = 0 /\ ~Fits(p, to)
           /\ WaitFor(to) /\ Stays /\ UNCHANGED <<lane, last_index>>
        \/ /\ HeadOf(from) = p /\ write_busy[to] = 0 /\ Fits(p, to)
           /\ \E arb \in {BusArbitration(c, from)} :
                 /\ last_index' = [last_index EXCEPT ![c] = arb.last]
                 /\ \/ /\ arb.won = 0
                       /\ RetryIn(1) /\ Stays
                       /\ lane' = [lane EXCEPT ![c] = arb.lanes]
                    \/ /\ arb.won # 0
                       /\ Transfer(p, from, to, Latency(p, Bandwidth[c]), "input_buffer")
                       /\ lane' = [lane EXCEPT ![c] = [arb.lanes EXCEPT
                                        ![arb.won].busy = Latency(p, Bandwidth[c])]]

\* EventTypeOutputBufferHandler
OutputBuffer ==
    /\ Runs("output_buffer")
    /\ LET p == Current.who
           c == ConnOf[at[p]]
       IN  \/ Kind[c] = "link" /\ LinkTransfer(p, c)
           \/ Kind[c] = "bus" /\ BusTransfer(p, c)
    /\ UNCHANGED scheduled

-----------------------------------------------------------------------------
\* Switch::Schedule: the input buffer that may send to output buffer b in this
\* cycle, by round robin from the previous decision.
Candidate(n, b, i) ==
    LET h == HeadOf(Inputs[n][i])
    IN  /\ h # None
        /\ read_busy[Inputs[n][i]] = 0
        /\ Route[n][Dst[h[1]]].buffer = b
        /\ Fits(h, b)
SwitchSchedule(n, b) ==
    IF scheduled[b].decided THEN scheduled[b].buffer
    ELSE LET size == Len(Inputs[n])
             prev == IF scheduled[b].buffer = None THEN 1
                     ELSE CHOOSE i \in 1 .. size : Inputs[n][i] = scheduled[b].buffer
             Ok   == {k \in 1 .. size : Candidate(n, b, ((prev - 1 + k) % size) + 1)}
         IN  IF Ok = {} THEN None
             ELSE Inputs[n][((prev - 1 + (CHOOSE k \in Ok : \A x \in Ok : k <= x)) % size) + 1]

\* Switch::Forward
Forward(p, n) ==
    LET from   == at[p]
        to     == Route[n][Dst[p[1]]].buffer
        chosen == SwitchSchedule(n, to)
    IN  \/ /\ read_busy[from] > 0
           /\ RetryIn(read_busy[from]) /\ Stays /\ UNCHANGED scheduled
        \/ /\ read_busy[from] = 0 /\ write_busy[to] > 0
           /\ RetryIn(write_busy[to]) /\ Stays /\ UNCHANGED scheduled
        \/ /\ read_busy[from] = 0 /\ write_busy[to] = 0 /\ ~Fits(p, to)
           /\ WaitFor(to) /\ Stays /\ UNCHANGED scheduled
        \/ /\ read_busy[from] = 0 /\ write_busy[to] = 0 /\ Fits(p, to)
           /\ scheduled' = [scheduled EXCEPT ![to] = [decided |-> TRUE, buffer |-> chosen]]
           /\ \/ chosen # from /\ RetryIn(1) /\ Stays
              \/ /\ chosen = from
                 /\ Transfer(p, from, to, Latency(p, SwitchBandwidth[n]), "output_buffer")

\* EventTypeInputBufferHandler
InputBuffer ==
    /\ Runs("input_buffer")
    /\ LET p == Current.who
           n == NodeOf[at[p]]
       IN  \/ /\ n = Dst[p[1]]
              /\ agenda' = Insert(Tail(agenda), Entry(p, "receive", 0))
              /\ Stays /\ UNCHANGED <<queue, scheduled>>
           \/ /\ n # Dst[p[1]] /\ HeadOf(at[p]) # p
              /\ WaitFor(at[p]) /\ Stays /\ UNCHANGED scheduled
           \/ /\ n # Dst[p[1]] /\ HeadOf(at[p]) = p
              /\ n \in Switches
              /\ Forward(p, n)
    /\ UNCHANGED <<lane, last_index>>

-----------------------------------------------------------------------------
\* Buffer::RemovePacket for every packet of message m.
Without(packets, m) ==
    LET kept[i \in 0 .. Len(packets)] ==
            IF i = 0 THEN <<>>
            ELSE IF packets[i][1] = m THEN kept[i - 1] ELSE Append(kept[i - 1], packets[i])
    IN  kept[Len(packets)]

\* Network::Receive: the message is complete; its packets leave their buffer.
TakeOff(m, ag) ==
    LET b == at[<<m, 1>>]
    IN  /\ \/ FixLatency[m] > 0 /\ agenda' = ag /\ UNCHANGED <<content, count, queue>>
           \/ /\ FixLatency[m] = 0
              /\ content' = [content EXCEPT ![b] = Without(@, m)]
              /\ count' = [count EXCEPT ![b] = @ - NumPackets(m) * SizeOf(m)]
              /\ agenda' = WakeUp(ag, queue[b])
              /\ queue' = [queue EXCEPT ![b] = <<>>]
        /\ received' = [received EXCEPT ![m] = {}]
        /\ in_flight' = RemoveAt(in_flight, CHOOSE i \in DOMAIN in_flight : in_flight[i] = m)
        /\ UNCHANGED <<read_busy, write_busy, at, busy>>

\* Message::Assemble: packet p is the last one to arrive.
Complete(p) == received[p[1]] \cup {p} = PacketsOf(p[1])

\* EventTypeReceiveHandler with Message::Assemble.  The last packet returns to
\* the sender's chain, or takes the message off itself.
Receive ==
    /\ Runs("receive")
    /\ LET p    == Current.who
           m    == p[1]
           last == Complete(p)
       IN  \/ /\ ~last
              /\ received' = [received EXCEPT ![m] = @ \cup {p}]
              /\ agenda' = Tail(agenda)
              /\ UNCHANGED <<queue, content, count, read_busy, write_busy, at, busy, in_flight>>
           \/ /\ last /\ m \notin AutoReceive
              /\ received' = [received EXCEPT ![m] = @ \cup {p}]
              /\ agenda' = Insert(Tail(agenda), Entry(m, "received", 0))
              /\ UNCHANGED <<queue, content, count, read_busy, write_busy, at, busy, in_flight>>
           \/ /\ last /\ m \in AutoReceive
              /\ TakeOff(m, Tail(agenda))
    /\ UNCHANGED <<lane, last_index, scheduled>>

\* The user's handler of receive_event.
UserReceives ==
    /\ Runs("received")
    /\ TakeOff(Current.who, Tail(agenda))
    /\ UNCHANGED <<lane, last_index, scheduled>>

-----------------------------------------------------------------------------
\* Mutant of Inserted: InsertPacket adds at the front.
InsertedInFront(b, ps) == ps \o content[b]

\* Buffer::InsertPacket for the packets of a message.
Inserted(b, ps) == content[b] \o ps

\* Network::Send through EventTypeSendHandler, executed at once for each packet.
\* On a network of fixed latency the packets go round the buffers.
Send(m) ==
    LET b      == Route[Src[m]][Dst[m]].buffer
        ps     == [i \in 1 .. NumPackets(m) |-> <<m, i>>]
        fixed  == FixLatency[m] > 0
        delay  == IF fixed THEN FixLatency[m] ELSE 1
        event  == IF fixed THEN "receive" ELSE "output_buffer"
        frames == [i \in DOMAIN ps |-> Entry(ps[i], event, delay)]
    IN  /\ agenda' = Scheduled(Tail(agenda), delay, frames)
        /\ in_flight' = Append(in_flight, m)
        /\ \/ fixed /\ UNCHANGED <<content, count, write_busy, at, busy>>
           \/ /\ ~fixed
              /\ content' = [content EXCEPT ![b] = Inserted(b, ps)]
              /\ count' = [count EXCEPT ![b] = @ + NumPackets(m) * SizeOf(m)]
              /\ write_busy' = [write_busy EXCEPT ![b] = 1]
              /\ at' = [p \in Packets |-> IF p[1] = m THEN b ELSE at[p]]
              /\ busy' = [p \in Packets |-> IF p[1] = m THEN 1 ELSE busy[p]]
        /\ UNCHANGED <<queue, read_busy, received>>

\* Mutant of MessageFits: only the first packet is sure to fit.
FirstPacketFits(m, b) == count[b] + SizeOf(m) <= BufSize[b]

\* Network::CanSend: all packets of the message fit.
MessageFits(m, b) == count[b] + NumPackets(m) * SizeOf(m) <= BufSize[b]

\* Network::TrySend in the handler of the user's retry event: CanSend, then Send.
TrySend ==
    /\ Runs("try")
    /\ LET m == Current.who
           b == Route[Src[m]][Dst[m]].buffer
       IN  \/ write_busy[b] > 0 /\ RetryIn(write_busy[b]) /\ Stays
           \/ write_busy[b] = 0 /\ ~MessageFits(m, b) /\ WaitFor(b) /\ Stays
           \/ write_busy[b] = 0 /\ MessageFits(m, b) /\ Send(m)
    /\ UNCHANGED <<lane, last_index, scheduled>>

\* The user has begun to send message m and it is not yet received.
Underway(m) == \/ Contains(in_flight, m)
               \/ \E i \in DOMAIN agenda : agenda[i].who = m
               \/ \E b \in Buffers : \E i \in DOMAIN queue[b] : queue[b][i].who = m

\* The user decides to send a message.
UserSends(m) ==
    /\ ~Underway(m)
    /\ Cardinality({x \in Messages : Underway(x)}) < MaxUnderway
    /\ agenda' = Insert(agenda, Entry(m, "try", 0))
    /\ Stays /\ UNCHANGED <<queue, lane, last_index, scheduled>>

\* Mutant of OutOfDate: scheduled_when is never compared with the cycle.
NeverOutOfDate(decision) == decision

\* A decision holds for the cycle in which it was taken.
OutOfDate(decision) == [decision EXCEPT !.decided = FALSE]

\* The cycle is over when no frame is due any more.
Tick ==
    /\ agenda # <<>> => Current.delay > 0
    /\ agenda' = [i \in DOMAIN agenda |-> [agenda[i] EXCEPT !.delay = @ - 1]]
    /\ read_busy' = [b \in Buffers |-> Less(read_busy[b])]
    /\ write_busy' = [b \in Buffers |-> Less(write_busy[b])]
    /\ busy' = [p \in Packets |-> Less(busy[p])]
    /\ lane' = [c \in Conns |-> [l \in Lanes(c) |->
                   OutOfDate([lane[c][l] EXCEPT !.busy = Less(@)])]]
    /\ scheduled' = [b \in Buffers |-> OutOfDate(scheduled[b])]
    /\ UNCHANGED <<queue, content, count, at, last_index, received, in_flight>>

Init ==
    /\ agenda = <<>> /\ in_flight = <<>>
    /\ queue = [b \in Buffers |-> <<>>]
    /\ content = [b \in Buffers |-> <<>>] /\ count = [b \in Buffers |-> 0]
    /\ read_busy = [b \in Buffers |-> 0] /\ write_busy = [b \in Buffers |-> 0]
    /\ at = [p \in Packets |-> None] /\ busy = [p \in Packets |-> 0]
    /\ lane = [c \in Conns |-> [l \in Lanes(c) |->
                  [busy |-> 0, decided |-> FALSE, buffer |-> None]]]
    /\ last_index = [c \in Conns |-> 0]
    /\ scheduled = [b \in Buffers |-> [decided |-> FALSE, buffer |-> None]]
    /\ received = [m \in Messages |-> {}]

Handlers == TrySend \/ OutputBuffer \/ InputBuffer \/ Receive \/ UserReceives
Next == Handlers \/ Tick \/ \E m \in Messages : UserSends(m)

Spec == Init /\ [][Next]_vars

\* The engine runs what is due and then advances the time.
FairSpec == Spec /\ WF_vars(Handlers \/ Tick)

-----------------------------------------------------------------------------
Waiting  == UNION {{queue[b][i] : i \in DOMAIN queue[b]} : b \in Buffers}
Pending  == {agenda[i] : i \in DOMAIN agenda} \cup Waiting
MaxDelay == Max({Latency(p, x) : p \in Packets,
                    x \in {Bandwidth[c] : c \in Conns} \cup {SwitchBandwidth[n] : n \in Switches}}
                \cup {FixLatency[m] : m \in Messages} \cup {1})
\* Type invariant: what the buffers, connections and messages hold.
TypeOK ==
    /\ \A e \in Pending : /\ e.who \in Messages \cup Packets
                          /\ e.event \in {"try", "output_buffer", "input_buffer", "receive", "received"}
                          /\ e.delay \in 0 .. MaxDelay
    /\ content \in [Buffers -> Seq(Packets)]
    /\ \A b \in Buffers : read_busy[b] \in 0 .. MaxDelay /\ write_busy[b] \in 0 .. MaxDelay
    /\ at \in [Packets -> Buffers \cup {None}]
    /\ \A m \in Messages : received[m] \subseteq PacketsOf(m)
    /\ in_flight \in Seq(Messages)

\* The bytes that the packets of a buffer occupy.
Bytes(packets) ==
    UNION {{i} \X (1 .. SizeOf(packets[i][1])) : i \in DOMAIN packets}

\* The space a buffer has left is known exactly and never negative: InsertPacket
\* never throws "No enough space in buffer", although the check for space is made
\* by others, who may have waited since.
BuffersHold ==
    \A b \in Buffers : count[b] = Cardinality(Bytes(content[b])) /\ count[b] <= BufSize[b]

\* No wake-up is lost: a frame is suspended in the queue of a buffer only while
\* the buffer holds a packet, whose departure will wake it.
WaitersHaveAReason == \A b \in Buffers : queue[b] # <<>> => content[b] # <<>>

\* Every packet on its way has exactly one pending event, unless it has arrived
\* and waits for the rest of its message.
OneEventEach ==
    \A b \in Buffers : \A i \in DOMAIN content[b] :
        LET p == content[b][i]
        IN  Cardinality({j \in DOMAIN agenda : agenda[j].who = p})
                + Cardinality({e \in Waiting : e.who = p})
              = IF p \in received[p[1]] THEN 0 ELSE 1

\* Messages between the same two nodes arrive in the order they were sent,
\* although their packets are retried, woken and arbitrated one by one.
Arrived(m) == received[m] = PacketsOf(m)
Arrives(m) == ~Arrived(m) /\ (received'[m] = PacketsOf(m) \/ ~Contains(in_flight', m))
InOrder ==
    [][\A i \in DOMAIN in_flight : Arrives(in_flight[i]) =>
         \A j \in 1 .. i - 1 : (/\ Src[in_flight[j]] = Src[in_flight[i]]
                               /\ Dst[in_flight[j]] = Dst[in_flight[i]])
                             => Arrived(in_flight[j])]_vars

\* A link is busy until the cycle in its field (Link.h): meanwhile no packet leaves
\* its source buffers, whichever of the frames of that cycle runs first.
BusyLinksCarryNoMore ==
    [][\A c \in Conns : Kind[c] = "link" /\ lane[c][1].busy > 0 =>
         \A i \in DOMAIN Sources[c] :
             Len(content'[Sources[c][i]]) >= Len(content[Sources[c][i]])]_vars

\* Every message that the user decides to send is sent, arrives and is received.
Delivered == \A m \in Messages : []<>~Underway(m)

\* No frame of a message or packet is lost or doubled: it has one event or waits in one
\* buffer, and it waits only where a packet is left whose departure will wake it.
FramesInPlace == TypeOK /\ WaitersHaveAReason /\ OneEventEach
=============================================================================
