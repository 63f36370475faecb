--------------------------- MODULE ReliabilityLayer ---------------------------
(***************************************************************************)
(* The reliability layer of a connection between two RakNet peers: the      *)
(* packet numbers, the send queue, the queue of packets waiting for their   *)
(* acknowledgement with its holes, the window that throttles the sender,    *)
(* the log of numbers received, the ordering and sequencing indexes, and    *)
(* the datagrams in flight, which the network loses, repeats and reorders.  *)
(*                                                                         *)
(* Both ends run the same code.  Time is left out: in a frame any leading   *)
(* part of the resend queue, and the acknowledgements, may be overdue.  A   *)
(* datagram stays in the network for less than TIMEOUT_TIME and each clock  *)
(* shows more than that, so a number is in the log as long as a copy of its *)
(* packet is on its way.  Messages fit a datagram (none is split).          *)
(***************************************************************************)
EXTENDS Integers, Sequences, FiniteSets, FiniteSetsExt, SequencesExt

CONSTANTS
  Ends,         \* the two ends of the connection
  Threads,      \* the threads of each end that call Send
  UpdateThread, \* the one that also sends frames and handles datagrams
  None,         \* no call of Send under way
  Kinds,        \* the PacketReliability values in use
  Scripts,      \* bound: the sequences of messages each end may send, by kind
  FrameSize,    \* how many packets and acknowledgements fit a datagram
  MinWindow,    \* MINIMUM_WINDOW_SIZE
  MaxWindow,    \* MAXIMUM_WINDOW_SIZE
  FirstNumber,  \* the packet number the connection has come to
  FirstIndex,   \* the ordering and sequencing index it has come to
  NetBound,     \* bound: how many datagrams are in flight to each end
  AckBound      \* bound: acknowledgements that wait when a datagram is taken

ASSUME BoundAssumption ==
  /\ IsFiniteSet(Ends) /\ Cardinality(Ends) = 2
  /\ FrameSize \in Nat \ {0}
  /\ MinWindow \in Nat \ {0} /\ MaxWindow \in Nat /\ MinWindow <= MaxWindow
  /\ Scripts \in [Ends -> SUBSET Seq(Kinds)] /\ NetBound \in [Ends -> Nat]

LogLength == 65530   \* RECEIVED_PACKET_LOG_LENGTH
IndexRange == 256    \* the range of OrderingIndexType

ASSUME IndexAssumption ==
  /\ FirstNumber \in 0 .. LogLength - 1
  /\ FirstIndex \in 0 .. IndexRange - 1

VARIABLES
  sent,          \* every message handed to Send: its kind (history)
  sending,       \* per thread, the call of Send that has read its number
  packetNumber,
  writeIndex,    \* waitingForOrderedPacketWriteIndex and ...Sequenced...
  sendQueue,
  resendQueue,   \* packets not acknowledged yet, and holes
  ackQueue,      \* acknowledgementQueue
  received,      \* receivedPackets: the numbers received of late
  readIndex,     \* waitingForOrderedPacketReadIndex and ...Sequenced...
  orderingList,
  arrived,       \* the messages put into outputQueue, in order (history)
  windowSize,
  lossyWindowSize,
  armed,         \* lastAckTime # 0
  dead,          \* deadConnection, or the program has aborted
  parsing,       \* what is left to read of the datagram being handled
  acksInFrame,   \* numberOfAcksInFrame
  net            \* the datagrams in flight

sendVars == <<sent, sending, packetNumber, writeIndex>>
queueVars == <<sendQueue, resendQueue, armed>>
windowVars == <<windowSize, lossyWindowSize>>
receiveVars == <<received, readIndex, orderingList, arrived>>
parseVars == <<parsing, acksInFrame>>
vars == <<sendVars, queueVars, ackQueue, windowVars, receiveVars, parseVars, dead, net>>

Peer(e) == CHOOSE p \in Ends : p # e

Hole == [msg |-> 0]

Reliable(k) == k \in {"RELIABLE", "RELIABLE_ORDERED", "RELIABLE_SEQUENCED"}
Sequenced(k) == k \in {"UNRELIABLE_SEQUENCED", "RELIABLE_SEQUENCED"}

(* Which of the two index counters a message uses.                          *)
Stream(k) ==
  IF k = "RELIABLE_ORDERED" THEN "ordered"
  ELSE IF Sequenced(k) THEN "sequenced" ELSE "none"

Streams == {"ordered", "sequenced", "none"}
Lesser(a, b) == IF a < b THEN a ELSE b
Greater(a, b) == IF a < b THEN b ELSE a

IsOlder_NoWrap(new, waiting) == new < waiting
IsOlder_NoWrapBelow(new, waiting) == new >= waiting - 126 /\ new < waiting

(* The half of the index range before "waiting" counts as older.            *)
IsOlder(new, waiting) ==
  IF waiting > 127
    THEN new >= waiting - 126 /\ new < waiting
    ELSE new >= (waiting - 128) % IndexRange \/ new < waiting

Init ==
  /\ sent = [e \in Ends |-> <<>>]
  /\ sending = [e \in Ends |-> [t \in Threads |-> None]]
  /\ packetNumber = [e \in Ends |-> FirstNumber]
  /\ writeIndex = [e \in Ends |-> [s \in Streams |-> FirstIndex]]
  /\ sendQueue = [e \in Ends |-> <<>>]
  /\ resendQueue = [e \in Ends |-> <<>>]
  /\ ackQueue = [e \in Ends |-> <<>>]
  /\ received = [e \in Ends |-> {}]
  /\ readIndex = [e \in Ends |-> [s \in Streams |-> FirstIndex]]
  /\ orderingList = [e \in Ends |-> {}]
  /\ arrived = [e \in Ends |-> <<>>]
  /\ windowSize = [e \in Ends |-> MinWindow]
  /\ lossyWindowSize = [e \in Ends |-> MaxWindow + 1]
  /\ armed = [e \in Ends |-> FALSE]
  /\ dead = {}
  /\ parsing = [e \in Ends |-> <<>>]
  /\ acksInFrame = [e \in Ends |-> 0]
  /\ net = {}

-------------------------------------------------------------------------------
(* Send, in the two steps its mutex leaves: it reads the number of the new   *)
(* packet and, later, counts it and gives it its index and its place.       *)

(* The update thread of e is between two of its jobs.                       *)
AtRest(e) ==
  /\ parsing[e] = <<>>
  /\ UpdateThread \in Threads => sending[e][UpdateThread] = None

Scripted(s, e) == \E script \in Scripts[e] : IsPrefix(s, script)

ReadNumber(e, t, k) ==
  /\ sending[e][t] = None
  /\ t = UpdateThread => parsing[e] = <<>>
  /\ sending' = [sending EXCEPT ![e][t] = [kind |-> k, num |-> packetNumber[e]]]
  /\ UNCHANGED <<sent, packetNumber, writeIndex, queueVars, ackQueue, windowVars,
                 receiveVars, parseVars, dead, net>>

NextNumber(n) == (n + 1) % LogLength
NextIndex_NoWrap(i) == i + 1
NextIndex(i) == (i + 1) % IndexRange

(* The counter of messages that use no index is not moved.                  *)
Count(index, s) == IF s = "none" THEN index ELSE [index EXCEPT ![s] = NextIndex(@)]

Enqueue(e, t) ==
  /\ sending[e][t] # None
  /\ LET k == sending[e][t].kind IN
     /\ sent' = [sent EXCEPT ![e] = Append(@, k)]
     /\ packetNumber' = [packetNumber EXCEPT ![e] = NextNumber(@)]
     /\ writeIndex' = [writeIndex EXCEPT ![e] = Count(@, Stream(k))]
     /\ sendQueue' = [sendQueue EXCEPT ![e] =
          Append(@, [msg |-> Len(sent[e]) + 1, kind |-> k, num |-> sending[e][t].num,
                     idx |-> writeIndex[e][Stream(k)]])]
  /\ sending' = [sending EXCEPT ![e][t] = None]
  /\ UNCHANGED <<resendQueue, armed, ackQueue, windowVars, receiveVars, parseVars, dead, net>>

-------------------------------------------------------------------------------
(* Update: one frame.  "late" is how much of the resend queue is overdue,    *)
(* "ackDue" whether the oldest acknowledgement is.                          *)

Throttled(e) == Len(resendQueue[e]) >= windowSize[e]

IsFrameReady_AcksOnly(e, late) == ~Throttled(e) \/ Len(ackQueue[e]) >= MinWindow

IsFrameReady(e, late) ==
  \/ ~Throttled(e)
  \/ Len(ackQueue[e]) >= MinWindow
  \/ resendQueue[e] # <<>> /\ Head(resendQueue[e]) # Hole /\ late > 0

(* How many acknowledgements open the frame.                                *)
AcksFirst(acks, due) ==
  IF acks # <<>> /\ (Len(acks) >= MinWindow \/ due) THEN Lesser(Len(acks), FrameSize) ELSE 0

(* The first entry of q that stays: it is not overdue, or finds no room.    *)
Stop(q, late, room) ==
  Min({Len(q) + 1} \cup
      {i \in 1 .. Len(q) :
         /\ q[i] # Hole
         /\ i > late \/ Cardinality({j \in 1 .. i : q[j] # Hole}) > room})

(* The entries of q that are in S, in their order (SelectSeq with a set for  *)
(* its test, which leaves it within first-order logic).                     *)
Selected(q, S) ==
  LET f[i \in 0 .. Len(q)] == IF i = 0 THEN <<>>
                              ELSE IF q[i] \in S THEN Append(f[i - 1], q[i]) ELSE f[i - 1]
  IN IF \A i \in 1 .. Len(q) : q[i] \in S THEN q ELSE f[Len(q)]

Entries(q) == {q[i] : i \in 1 .. Len(q)} \ {Hole}

Datagram(e, acks, data) ==
  [to |-> Peer(e),
   items |-> [i \in 1 .. Len(acks) |-> [ack |-> TRUE, body |-> acks[i]]]
             \o [i \in 1 .. Len(data) |-> [ack |-> FALSE, body |-> data[i]]]]

(* A datagram that the network does not carry, or has no room for, is lost. *)
Transmit(e, acks, data) ==
  net' = IF acks = <<>> /\ data = <<>> THEN net ELSE net \cup {Datagram(e, acks, data)}

Frame(e, late, ackDue, lost) ==
  LET queue == resendQueue[e]
      acks == ackQueue[e]
      nAcks == AcksFirst(acks, ackDue)
      room == FrameSize - nAcks
      full == nAcks > 0 /\ room = 0
      stop == IF full THEN 1 ELSE Stop(queue, late, room)
      passed == SubSeq(queue, 1, stop - 1)
      resent == Selected(passed, Entries(passed))
      kept == SubSeq(queue, stop, Len(queue)) \o resent
      cramped == full \/ stop <= late
      window == IF resent = <<>> THEN windowSize[e] ELSE Greater(windowSize[e] - 1, MinWindow)
      throttled == Len(kept) >= window
      nFresh == IF cramped \/ throttled THEN 0
                ELSE Lesser(Len(sendQueue[e]), room - Len(resent))
      fresh == SubSeq(sendQueue[e], 1, nFresh)
      toResend == Selected(fresh, {p \in Entries(fresh) : Reliable(p.kind)})
      data == resent \o fresh
      lateAcks == IF cramped \/ throttled \/ nAcks > 0 \/ data = <<>> THEN 0
                  ELSE Lesser(Len(acks), room - Len(data))
      ackCount == nAcks + lateAcks
  IN
  /\ AtRest(e)
  /\ IsFrameReady(e, late)
  /\ UNCHANGED <<sendVars, receiveVars, parseVars, dead>>
  /\ resendQueue' = [resendQueue EXCEPT ![e] = kept \o toResend]
  /\ sendQueue' = [sendQueue EXCEPT ![e] = SubSeq(@, nFresh + 1, Len(@))]
  /\ ackQueue' = [ackQueue EXCEPT ![e] = SubSeq(@, ackCount + 1, Len(@))]
  /\ armed' = [armed EXCEPT ![e] = @ \/ resent # <<>> \/ toResend # <<>>]
  /\ windowSize' = [windowSize EXCEPT ![e] = window]
  /\ lossyWindowSize' = IF resent = <<>> THEN lossyWindowSize
                        ELSE [lossyWindowSize EXCEPT ![e] = window]
  /\ IF lost THEN net' = net ELSE Transmit(e, SubSeq(acks, 1, ackCount), data)

(* TIMEOUT_TIME without an acknowledgement while a packet waits for one: the *)
(* peer then closes the connection, and this is the end of the model.       *)
TimeOut(e) ==
  /\ AtRest(e)
  /\ resendQueue[e] # <<>> /\ armed[e]
  /\ dead' = dead \cup {e}
  /\ UNCHANGED <<sendVars, queueVars, ackQueue, windowVars, receiveVars, parseVars, net>>

-------------------------------------------------------------------------------
(* HandleSocketReceiveFromConnectedPlayer: a datagram is taken from the      *)
(* network, which may keep a copy, and its packets are handled one by one.  *)

Receive(e, d, copy) ==
  /\ AtRest(e)
  /\ d \in net /\ d.to = e
  /\ Len(ackQueue[e]) < AckBound
  /\ parsing' = [parsing EXCEPT ![e] = d.items]
  /\ acksInFrame' = [acksInFrame EXCEPT ![e] = 0]
  /\ net' = IF copy THEN net ELSE net \ {d}
  /\ UNCHANGED <<sendVars, queueVars, ackQueue, windowVars, receiveVars, dead>>

(* After the last packet of a datagram with a window full of                *)
(* acknowledgements the window grows, unless a loss has just shrunk it.      *)
(* MaxWindow + 1, the lossy size of a connection without a loss, stands for  *)
(* all that is greater.                                                     *)
Growth(e, count, calm) ==
  LET larger == Lesser(windowSize[e] + 1, MaxWindow)
      grows == /\ Len(parsing[e]) = 1
               /\ count >= windowSize[e]
               /\ sendQueue[e] # <<>>
               /\ windowSize[e] < lossyWindowSize[e] \/ calm
  IN IF ~grows THEN UNCHANGED windowVars
     ELSE /\ windowSize' = [windowSize EXCEPT ![e] = larger]
          /\ lossyWindowSize' =
               IF larger = MaxWindow \/ larger - lossyWindowSize[e] > 5
               THEN [lossyWindowSize EXCEPT ![e] = Lesser(@ + 1, MaxWindow + 1)]
               ELSE lossyWindowSize

(* The resend queue after the acknowledgement of number n.                  *)
Acked(q, n) ==
  LET hits == {i \in 1 .. Len(q) : q[i] # Hole /\ q[i].num = n} IN
  IF hits = {} THEN q
  ELSE LET i == Min(hits)
           rest == IF i = 1 THEN Tail(q) ELSE [q EXCEPT ![i] = Hole]
           Outdated(p) == /\ p # Hole
                          /\ p.kind = "RELIABLE_SEQUENCED"
                          /\ IsOlder(p.idx, q[i].idx)
       IN IF q[i].kind # "RELIABLE_SEQUENCED" THEN rest
          ELSE [j \in 1 .. Len(rest) |-> IF Outdated(rest[j]) THEN Hole ELSE rest[j]]

AckTimer_Swapped(e) == resendQueue[e] = <<>>

(* An acknowledgement while nothing waits for one stops the timer.          *)
AckTimer(e) == resendQueue[e] # <<>>

HandleAck(e, calm) ==
  /\ parsing[e] # <<>> /\ Head(parsing[e]).ack
  /\ armed' = [armed EXCEPT ![e] = AckTimer(e)]
  /\ resendQueue' = [resendQueue EXCEPT ![e] = Acked(@, Head(parsing[e]).body)]
  /\ parsing' = [parsing EXCEPT ![e] = Tail(@)]
  /\ acksInFrame' = [acksInFrame EXCEPT ![e] = @ + 1]
  /\ Growth(e, acksInFrame[e] + 1, calm)
  /\ UNCHANGED <<sendVars, sendQueue, ackQueue, receiveVars, dead, net>>

Deliver(e, packets) ==
  arrived' = [arrived EXCEPT ![e] = @ \o [i \in 1 .. Len(packets) |-> packets[i].msg]]

(* The packets of the ordering list that follow index i without a gap, which *)
(* leave the list one by one.                                               *)
Longer(list, i, s) ==
  LET next == {p \in list \ Range(s) : p.idx = (i + Len(s) + 1) % IndexRange}
  IN IF next = {} THEN s ELSE Append(s, CHOOSE p \in next : TRUE)

Following(list, i) ==
  LET f[n \in 0 .. Cardinality(list)] == IF n = 0 THEN <<>> ELSE Longer(list, i, f[n - 1])
  IN f[Cardinality(list)]

HandleOrdered_NotStored(e, p) ==
  /\ UNCHANGED orderingList
  /\ IF readIndex[e]["ordered"] # p.idx THEN UNCHANGED <<readIndex, arrived>>
     ELSE /\ Deliver(e, <<p>>)
          /\ readIndex' = [readIndex EXCEPT ![e]["ordered"] = NextIndex(@)]

HandleOrdered(e, p) ==
  IF readIndex[e]["ordered"] # p.idx
    THEN /\ orderingList' = [orderingList EXCEPT ![e] = @ \cup {p}]
         /\ UNCHANGED <<readIndex, arrived>>
    ELSE LET more == Following(orderingList[e], p.idx) IN
         /\ Deliver(e, <<p>> \o more)
         /\ orderingList' = [orderingList EXCEPT ![e] = @ \ Range(more)]
         /\ readIndex' = [readIndex EXCEPT ![e]["ordered"] = (@ + 1 + Len(more)) % IndexRange]

HandleSequenced_IndexKept(e, p) ==
  /\ UNCHANGED <<readIndex, orderingList>>
  /\ IF IsOlder(p.idx, readIndex[e]["sequenced"]) THEN UNCHANGED arrived
     ELSE Deliver(e, <<p>>)

HandleSequenced(e, p) ==
  /\ UNCHANGED orderingList
  /\ IF IsOlder(p.idx, readIndex[e]["sequenced"]) THEN UNCHANGED <<readIndex, arrived>>
     ELSE /\ Deliver(e, <<p>>)
          /\ readIndex' = [readIndex EXCEPT ![e]["sequenced"] = NextIndex(p.idx)]

HandlePlain(e, p) == Deliver(e, <<p>>) /\ UNCHANGED <<readIndex, orderingList>>

Logged_IndexedOnly(e, p) == Stream(p.kind) # "none" /\ p.num \in received[e]

(* The log of received numbers has the number of p: p came before.           *)
Logged(e, p) == p.num \in received[e]

HandlePacket(e, calm) ==
  LET p == Head(parsing[e]).body IN
  /\ parsing[e] # <<>> /\ ~Head(parsing[e]).ack
  /\ ackQueue' = IF Reliable(p.kind) THEN [ackQueue EXCEPT ![e] = Append(@, p.num)] ELSE ackQueue
  /\ IF Logged(e, p) THEN UNCHANGED receiveVars
     ELSE /\ received' = [received EXCEPT ![e] = @ \cup {p.num}]
          /\ \/ Stream(p.kind) = "ordered" /\ HandleOrdered(e, p)
             \/ Stream(p.kind) = "sequenced" /\ HandleSequenced(e, p)
             \/ Stream(p.kind) = "none" /\ HandlePlain(e, p)
  /\ parsing' = [parsing EXCEPT ![e] = Tail(@)]
  /\ Growth(e, acksInFrame[e], calm)
  /\ UNCHANGED <<sendVars, queueVars, acksInFrame, dead, net>>

(* The assertion before AddToOrderingList, which compares the indexes as     *)
(* plain numbers.                                                           *)
Beyond(e, p) == readIndex[e]["ordered"] < p.idx

OutOfOrder(e) ==
  /\ parsing[e] # <<>> /\ ~Head(parsing[e]).ack
  /\ LET p == Head(parsing[e]).body IN
     Stream(p.kind) = "ordered" /\ ~Logged(e, p) /\ readIndex[e]["ordered"] # p.idx

(* Where it fails a program compiled without NDEBUG aborts; the others go   *)
(* on with HandlePacket.  Both are steps of the model.                      *)
AssertFails(e) ==
  /\ OutOfOrder(e) /\ ~Beyond(e, Head(parsing[e]).body)
  /\ dead' = dead \cup {e}
  /\ UNCHANGED <<sendVars, queueVars, ackQueue, windowVars, receiveVars, parseVars, net>>

-------------------------------------------------------------------------------
InFlight(e) == Cardinality({d \in net : d.to = e})

Next ==
  /\ dead = {}
  /\ \E e \in Ends :
      \/ \E t \in Threads, k \in Kinds :
           /\ Scripted(Append(sent[e], k), e)
           /\ ReadNumber(e, t, k)
      \/ \E t \in Threads : Enqueue(e, t)
      \/ \E late \in 0 .. Len(resendQueue[e]), ackDue, lost \in BOOLEAN :
           /\ lost \/ InFlight(Peer(e)) < NetBound[Peer(e)]
           /\ Frame(e, late, ackDue, lost)
      \/ TimeOut(e)
      \/ \E d \in net, copy \in BOOLEAN : Receive(e, d, copy)
      \/ \E calm \in BOOLEAN : HandleAck(e, calm) \/ HandlePacket(e, calm)
      \/ AssertFails(e)

Spec == Init /\ [][Next]_vars

-------------------------------------------------------------------------------
(* The update thread of each end keeps running, a call of Send ends, what is *)
(* overdue is noticed, and of the copies of a packet or an acknowledgement   *)
(* that an end sends for ever the network carries some.                     *)

Limit(e) == Max({0} \cup {Len(script) : script \in Scripts[e]})
NumberOf(m) == (FirstNumber + m - 1) % LogLength

(* A frame with something to carry that the network carries.                *)
CarriedFrame(e) ==
  /\ dead = {}
  /\ AtRest(e)
  /\ ackQueue[e] # <<>> \/ sendQueue[e] # <<>> \/ Entries(resendQueue[e]) # {}
  /\ InFlight(Peer(e)) < NetBound[Peer(e)]
  /\ Frame(e, Len(resendQueue[e]), TRUE, FALSE)

Holds(d, ack, n) ==
  \E i \in 1 .. Len(d.items) :
    d.items[i].ack = ack /\ (IF ack THEN d.items[i].body ELSE d.items[i].body.num) = n

Taken(e, ack, n) ==
  /\ dead = {}
  /\ \E d \in net : Holds(d, ack, n) /\ Receive(e, d, FALSE)

HandleNext(e) ==
  /\ dead = {}
  /\ (\E calm \in BOOLEAN : HandleAck(e, calm) \/ HandlePacket(e, calm)) \/ AssertFails(e)

Fairness ==
  \A e \in Ends :
    /\ \A t \in Threads : WF_vars(Enqueue(e, t))
    /\ WF_vars(HandleNext(e))
    /\ SF_vars(CarriedFrame(e))
    /\ \A m \in 1 .. Limit(Peer(e)) : SF_vars(Taken(e, FALSE, NumberOf(m)))
    /\ \A m \in 1 .. Limit(e) : SF_vars(Taken(e, TRUE, NumberOf(m)))

FairSpec == Spec /\ Fairness

-------------------------------------------------------------------------------
Waiting(p) == Entries(sendQueue[p]) \cup Entries(resendQueue[p])
Arrived(e) == {arrived[e][i] : i \in 1 .. Len(arrived[e])}

(* A newer sequenced message makes an older one void.                       *)
Superseded(e, m) ==
  /\ m \in DOMAIN sent[Peer(e)] /\ Sequenced(sent[Peer(e)][m])
  /\ \E n \in Arrived(e) : m < n /\ Sequenced(sent[Peer(e)][n])

(* No reliable message is forgotten: as long as the other end does not have  *)
(* it, it waits in the ordering list of the other end or is kept by its      *)
(* sender, to go out or to go out again.                                    *)
Kept(e, m) == \E p \in orderingList[e] \cup Waiting(Peer(e)) : p.msg = m

NothingForgotten ==
  \A e \in Ends : \A m \in 1 .. Len(sent[Peer(e)]) :
    sent[Peer(e)][m] \in {"RELIABLE", "RELIABLE_ORDERED"} => m \in Arrived(e) \/ Kept(e, m)

(* A reliable sequenced message is forgotten only for a newer one that has   *)
(* arrived.                                                                 *)
NewestKept ==
  \A e \in Ends : \A m \in 1 .. Len(sent[Peer(e)]) :
    sent[Peer(e)][m] = "RELIABLE_SEQUENCED"
      => m \in Arrived(e) \/ Superseded(e, m) \/ Kept(e, m)

(* The copies of a message that the network or its sender makes come to      *)
(* nothing: no message is handed up twice.                                  *)
AtMostOnce == \A e \in Ends : IsInjective(arrived[e])

(* While a packet waits for its acknowledgement the timer that gives the     *)
(* connection up is running: without it a silent peer is never noticed.     *)
TimerRuns == \A e \in Ends : resendQueue[e] # <<>> => armed[e]

(* The layer keeps the promise of MessageChannel.                           *)
Channel == INSTANCE MessageChannel
ImplementsChannel == Channel!Spec

(* The throttle holds and the head of the resend queue is a hole.           *)
Stalled(e) == Throttled(e) /\ Head(resendQueue[e]) = Hole

(* Reliable messages reach the other end: again and again there is a moment  *)
(* when all that was sent has arrived or is superseded, or its sender is     *)
(* stalled, unless the connection is given up or an end aborts.              *)
AllReached(e) ==
  \A m \in 1 .. Len(sent[Peer(e)]) :
    Reliable(sent[Peer(e)][m]) => m \in Arrived(e) \/ Superseded(e, m)

Delivery == []<>(dead # {} \/ \A e \in Ends : AllReached(e) \/ Stalled(Peer(e)))

(* "Does the oldest packet need to be resent?  If so, send it.  Otherwise    *)
(* the throttle may never end": with all that waits overdue, a throttled     *)
(* sender is ready to send.                                                 *)
OldestGoesOut ==
  \A e \in Ends :
    Throttled(e) /\ Entries(resendQueue[e]) # {} => IsFrameReady(e, Len(resendQueue[e]))

(* ReliabilityLayer.cpp:723, assert(waitingForOrderedPacketReadIndex[...] <  *)
(* internalPacket->orderingIndex): an ordered packet that is not the awaited *)
(* one comes after it.                                                      *)
OrderedIsLater == \A e \in Ends : OutOfOrder(e) => Beyond(e, Head(parsing[e]).body)

TypeOK ==
  LET IndexOf == 0 .. IndexRange - 1
      Packet == [msg : Nat, kind : Kinds, num : 0 .. LogLength - 1, idx : IndexOf]
  IN /\ sent \in [Ends -> Seq(Kinds)]
     /\ packetNumber \in [Ends -> 0 .. LogLength - 1]
     /\ writeIndex \in [Ends -> [Streams -> IndexOf]]
     /\ readIndex \in [Ends -> [Streams -> IndexOf]]
     /\ sendQueue \in [Ends -> Seq(Packet)]
     /\ resendQueue \in [Ends -> Seq(Packet \cup {Hole})]
     /\ ackQueue \in [Ends -> Seq(0 .. LogLength - 1)]
     /\ received \in [Ends -> SUBSET (0 .. LogLength - 1)]
     /\ orderingList \in [Ends -> SUBSET Packet]
     /\ arrived \in [Ends -> Seq(Nat)]
     /\ windowSize \in [Ends -> MinWindow .. MaxWindow]
     /\ armed \in [Ends -> BOOLEAN]
     /\ dead \subseteq Ends
===============================================================================
