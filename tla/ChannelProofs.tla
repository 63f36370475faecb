----------------------------- MODULE ChannelProofs -----------------------------
(***************************************************************************)
(* Proofs about ReliabilityLayer, on top of ReliabilityProofs: what the      *)
(* programs at the two ends see of it.  No message is handed up twice.  As   *)
(* long as the eight-bit indexes can tell the messages on their way apart,   *)
(* the layer is the channel MessageChannel describes, and a reliable         *)
(* sequenced message is dropped only for a newer one that has arrived.       *)
(***************************************************************************)
EXTENDS ReliabilityProofs

(* The messages of a stream that the other end has sent, and those of them   *)
(* that have arrived.                                                       *)
Of(e, stream) == Positions(sent[Peer(e)], stream, Len(sent[Peer(e)]))
ArrivedOf(e, stream) == Of(e, stream) \cap Arrived(e)

(* What has arrived, and what waits for its turn, is in the log.             *)
OnceInv ==
  \A e \in Ends :
    /\ IsInjective(arrived[e])
    /\ \A m \in Arrived(e) : m \in 1 .. Len(sent[Peer(e)]) /\ NumberOf(m) \in received[e]
    /\ \A p \in orderingList[e] :
         p.num \in received[e] /\ p.msg \notin Arrived(e) /\ Stream(p.kind) = "ordered"

-------------------------------------------------------------------------------
(* What a step is for the programs.                                         *)

(* A packet whose number is new is handled.                                 *)
Taking(e, p) ==
  /\ p.num \notin received[e]
  /\ received' = [received EXCEPT ![e] = @ \cup {p.num}]
  /\ \/ Stream(p.kind) = "ordered" /\ HandleOrdered(e, p)
     \/ Stream(p.kind) = "sequenced" /\ HandleSequenced(e, p)
     \/ Stream(p.kind) = "none" /\ HandlePlain(e, p)

(* A packet of the datagram that e handles.                                 *)
InDatagram(e, p) ==
  \E i \in 1 .. Len(parsing[e]) : ~parsing[e][i].ack /\ parsing[e][i].body = p

Quiet == UNCHANGED receiveVars /\ sent' = sent /\ dead' = dead

Sending ==
  /\ UNCHANGED receiveVars /\ dead' = dead
  /\ \E e \in Ends, k \in Kinds : sent' = [sent EXCEPT ![e] = Append(@, k)]

GivingUp ==
  /\ UNCHANGED receiveVars /\ sent' = sent
  /\ \E e \in Ends : e \notin dead /\ dead' = dead \cup {e}

Arriving ==
  /\ sent' = sent /\ dead' = dead
  /\ \E e \in Ends : \E p \in Genuine(Peer(e)) : InDatagram(e, p) /\ Taking(e, p)

LEMMA StepOfPrograms ==
  ASSUME LayerInv, [Next]_vars
  PROVE  Quiet \/ Sending \/ GivingUp \/ Arriving
<1>1. CASE UNCHANGED vars
  BY <1>1 DEF vars, sendVars, receiveVars, Quiet
<1>2. ASSUME NEW e \in Ends, NEW t \in Threads, NEW k \in Kinds, ReadNumber(e, t, k)
      PROVE  Quiet
  BY <1>2 DEF ReadNumber, Quiet
<1>3. ASSUME NEW e \in Ends, NEW t \in Threads, Enqueue(e, t) PROVE Sending
  <2> DEFINE k == sending[e][t].kind
  <2>1. sending[e][t] # None /\ sent' = [sent EXCEPT ![e] = Append(@, k)]
    BY <1>3, Zenon DEF Enqueue
  <2>2. UNCHANGED receiveVars /\ dead' = dead
    BY <1>3 DEF Enqueue
  <2>3. k \in Kinds
    BY <2>1 DEF LayerInv, SendInv, CallOK
  <2> HIDE DEF k
  <2> QED
    BY <2>1, <2>2, <2>3 DEF Sending
<1>4. ASSUME NEW e \in Ends, NEW late, NEW ackDue, NEW lost, Frame(e, late, ackDue, lost)
      PROVE  Quiet
  <2>1. UNCHANGED <<sendVars, receiveVars, parseVars, dead>>
    BY <1>4, Zenon DEF Frame
  <2> QED
    BY <2>1 DEF Quiet, sendVars
<1>5. ASSUME NEW e \in Ends, dead = {}, TimeOut(e) \/ AssertFails(e) PROVE GivingUp
  BY <1>5 DEF TimeOut, AssertFails, GivingUp, sendVars
<1>6. ASSUME NEW e \in Ends, NEW d, NEW copy, Receive(e, d, copy) PROVE Quiet
  BY <1>6 DEF Receive, Quiet, sendVars
<1>7. ASSUME NEW e \in Ends, NEW calm, HandleAck(e, calm) PROVE Quiet
  BY <1>7 DEF HandleAck, Quiet, sendVars
<1>8. ASSUME NEW e \in Ends, NEW calm, HandlePacket(e, calm) PROVE Quiet \/ Arriving
  <2> DEFINE item == Head(parsing[e])
  <2>1. PICK p : p = item.body
    OBVIOUS
  <2>2. /\ parsing[e] # <<>> /\ ~item.ack /\ sent' = sent /\ dead' = dead
        /\ UNCHANGED receiveVars \/ Taking(e, p)
    BY <1>8, <2>1 DEF HandlePacket, Logged, Taking, sendVars
  <2>3. parsing[e] \in Seq(Items(e))
    BY DEF LayerInv, NetInv
  <2>4. item \in Items(e) /\ 1 \in 1 .. Len(parsing[e]) /\ item = parsing[e][1]
    BY <2>2, <2>3, HeadTailProperties, LenProperties
  <2> HIDE DEF item
  <2>5. p \in Genuine(Peer(e)) /\ InDatagram(e, p)
    BY <2>1, <2>2, <2>4 DEF Items, InDatagram
  <2> QED
    BY <2>2, <2>5 DEF Quiet, Arriving
<1> QED
  BY <1>1, <1>2, <1>3, <1>4, <1>5, <1>6, <1>7, <1>8, Zenon DEF Next

-------------------------------------------------------------------------------
(* Sequences without repetition.                                            *)

Elements(q) == {q[i] : i \in 1 .. Len(q)}

LEMMA JoinedOnce ==
  ASSUME NEW q \in Seq(Nat), NEW r \in Seq(Nat), IsInjective(q), IsInjective(r),
         \A m \in Elements(r) : m \notin Elements(q)
  PROVE  IsInjective(q \o r) /\ Elements(q \o r) = Elements(q) \cup Elements(r)
<1>1. /\ q \o r \in Seq(Nat)
      /\ Len(q) \in Nat /\ Len(r) \in Nat /\ Len(q \o r) = Len(q) + Len(r)
      /\ \A i \in 1 .. Len(q) + Len(r) :
           (q \o r)[i] = IF i <= Len(q) THEN q[i] ELSE r[i - Len(q)]
  BY JoinedSeq
<1>2. DOMAIN q = 1 .. Len(q) /\ DOMAIN r = 1 .. Len(r) /\ DOMAIN (q \o r) = 1 .. Len(q) + Len(r)
  BY <1>1, LenProperties
<1> DEFINE s == q \o r
<1> HIDE DEF s
<1>3. ASSUME NEW i \in 1 .. Len(q) + Len(r), NEW j \in 1 .. Len(q) + Len(r), s[i] = s[j]
      PROVE  i = j
  <2>1. CASE i <= Len(q) /\ j <= Len(q)
    <3>1. i \in 1 .. Len(q) /\ j \in 1 .. Len(q) /\ q[i] = q[j]
      BY <1>1, <1>3, <2>1 DEF s
    <3> QED
      BY <1>2, <3>1 DEF IsInjective
  <2>2. CASE ~(i <= Len(q)) /\ ~(j <= Len(q))
    <3>1. /\ i - Len(q) \in 1 .. Len(r) /\ j - Len(q) \in 1 .. Len(r)
          /\ r[i - Len(q)] = r[j - Len(q)]
      BY <1>1, <1>3, <2>2 DEF s
    <3>2. i - Len(q) = j - Len(q)
      BY <1>2, <3>1 DEF IsInjective
    <3> QED
      BY <1>1, <3>2
  <2>3. CASE i <= Len(q) /\ ~(j <= Len(q))
    <3>1. i \in 1 .. Len(q) /\ j - Len(q) \in 1 .. Len(r) /\ q[i] = r[j - Len(q)]
      BY <1>1, <1>3, <2>3 DEF s
    <3> QED
      BY <3>1 DEF Elements
  <2>4. CASE ~(i <= Len(q)) /\ j <= Len(q)
    <3>1. j \in 1 .. Len(q) /\ i - Len(q) \in 1 .. Len(r) /\ q[j] = r[i - Len(q)]
      BY <1>1, <1>3, <2>4 DEF s
    <3> QED
      BY <3>1 DEF Elements
  <2> QED
    BY <2>1, <2>2, <2>3, <2>4
<1>4. IsInjective(s)
  BY <1>2, <1>3 DEF IsInjective, s
<1>5. ASSUME NEW m \in Elements(s) PROVE m \in Elements(q) \cup Elements(r)
  <2>1. PICK i \in 1 .. Len(q) + Len(r) : m = s[i]
    BY <1>1, <1>5 DEF Elements, s
  <2>2. CASE i <= Len(q)
    BY <1>1, <2>1, <2>2 DEF Elements, s
  <2>3. CASE ~(i <= Len(q))
    <3>1. i - Len(q) \in 1 .. Len(r) /\ m = r[i - Len(q)]
      BY <1>1, <2>1, <2>3 DEF s
    <3> QED
      BY <3>1 DEF Elements
  <2> QED
    BY <2>2, <2>3
<1>6. ASSUME NEW m \in Elements(q) PROVE m \in Elements(s)
  <2>1. PICK i \in 1 .. Len(q) : m = q[i]
    BY <1>6 DEF Elements
  <2>2. i \in 1 .. Len(q) + Len(r) /\ m = s[i]
    BY <1>1, <2>1 DEF s
  <2> QED
    BY <1>1, <2>2 DEF Elements, s
<1>7. ASSUME NEW m \in Elements(r) PROVE m \in Elements(s)
  <2>1. PICK i \in 1 .. Len(r) : m = r[i]
    BY <1>7 DEF Elements
  <2>2. i + Len(q) \in 1 .. Len(q) + Len(r) /\ ~(i + Len(q) <= Len(q)) /\ i + Len(q) - Len(q) = i
    BY <1>1
  <2>3. m = s[i + Len(q)]
    BY <1>1, <2>1, <2>2 DEF s
  <2> QED
    BY <1>1, <2>2, <2>3 DEF Elements, s
<1> QED
  BY <1>4, <1>5, <1>6, <1>7 DEF s

(* The messages of a sequence of packets.                                    *)
Messages(packets) == [i \in 1 .. Len(packets) |-> packets[i].msg]

LEMMA MessagesOfPackets ==
  ASSUME NEW e, NEW packets \in Seq(Genuine(e))
  PROVE  /\ Messages(packets) \in Seq(Nat)
         /\ Len(Messages(packets)) = Len(packets) /\ Len(packets) \in Nat
         /\ \A i \in 1 .. Len(packets) :
              Messages(packets)[i] = packets[i].msg /\ packets[i] \in Genuine(e)
<1>1. \A i \in 1 .. Len(packets) : packets[i] \in Genuine(e)
  <2>1. ASSUME NEW i \in 1 .. Len(packets) PROVE packets[i] \in Genuine(e)
    BY ElementOfSeq
  <2> QED
    BY <2>1
<1>2. \A i \in 1 .. Len(packets) : packets[i].msg \in Nat
  BY <1>1 DEF Genuine
<1>3. Len(packets) \in Nat
  BY LenProperties
<1> QED
  BY <1>1, <1>2, <1>3 DEF Messages

LEMMA DeliveredOnce ==
  ASSUME ReceiveInv, NEW e \in Ends, NEW packets, Deliver(e, packets),
         Messages(packets) \in Seq(Nat), IsInjective(Messages(packets)), IsInjective(arrived[e]),
         \A m \in Elements(Messages(packets)) : m \notin Arrived(e)
  PROVE  /\ IsInjective(arrived'[e])
         /\ arrived'[e] = arrived[e] \o Messages(packets)
         /\ Arrived(e)' = Arrived(e) \cup Elements(Messages(packets))
         /\ \A f \in Ends : f # e => arrived'[f] = arrived[f] /\ Arrived(f)' = Arrived(f)
<1> DEFINE old == arrived[e]
           new == Messages(packets)
<1>1. old \in Seq(Nat) /\ new \in Seq(Nat) /\ Arrived(e) = Elements(old)
  BY DEF ReceiveInv, Arrived, Elements
<1>2. arrived'[e] = old \o new /\ \A f \in Ends : f # e => arrived'[f] = arrived[f]
  BY DEF Deliver, Messages, ReceiveInv
<1>3. Arrived(e)' = Elements(arrived'[e])
  BY DEF Arrived, Elements
<1>4. \A f \in Ends : f # e => Arrived(f)' = Arrived(f)
  BY <1>2 DEF Arrived
<1> HIDE DEF old, new
<1>5. IsInjective(old \o new) /\ Elements(old \o new) = Elements(old) \cup Elements(new)
  BY <1>1, JoinedOnce DEF old, new
<1> QED
  BY <1>1, <1>2, <1>3, <1>4, <1>5 DEF old, new

-------------------------------------------------------------------------------
(* No message comes twice.                                                  *)

LEMMA OnePacketToAMessage ==
  ASSUME NEW e, NEW p \in Genuine(e), NEW q \in Genuine(e), p.msg = q.msg,
         Stream(p.kind) = "ordered"
  PROVE  p = q
BY DEF Genuine

LEMMA NewPacketNotInHand ==
  ASSUME ReceiveInv, OnceInv, NEW e \in Ends, NEW p \in Genuine(Peer(e)), p.num \notin received[e]
  PROVE  p.msg \notin Arrived(e) /\ \A x \in orderingList[e] : x.msg # p.msg
<1>1. p.num = NumberOf(p.msg)
  BY DEF Genuine
<1>2. \A x \in orderingList[e] : x.num = NumberOf(x.msg) /\ x.num \in received[e]
  BY DEF ReceiveInv, Genuine, OnceInv
<1> QED
  BY <1>1, <1>2 DEF OnceInv

(* The packets that a packet takes out of the ordering list with it.         *)
LEMMA BatchTaken ==
  ASSUME ReceiveInv, OnceInv, NEW e \in Ends, NEW p \in Genuine(Peer(e)), p.num \notin received[e],
         NEW more \in Seq(orderingList[e]), IsInjective(more)
  PROVE  /\ <<p>> \o more \in Seq(Genuine(Peer(e)))
         /\ Len(more) \in Nat /\ Len(<<p>> \o more) = Len(more) + 1
         /\ (<<p>> \o more)[1] = p
         /\ \A i \in 1 .. Len(more) : (<<p>> \o more)[i + 1] = more[i] /\ more[i] \in orderingList[e]
         /\ Messages(<<p>> \o more) \in Seq(Nat)
         /\ IsInjective(Messages(<<p>> \o more))
         /\ Elements(Messages(<<p>> \o more)) = {p.msg} \cup {x.msg : x \in Range(more)}
         /\ \A m \in Elements(Messages(<<p>> \o more)) : m \notin Arrived(e)
<1> DEFINE list == orderingList[e]
           G == Genuine(Peer(e))
           head == <<p>>
           batch == head \o more
           new == Messages(batch)
<1>1. list \subseteq G /\ more \in Seq(list)
  BY DEF ReceiveInv
<1>2. head \in Seq(G) /\ Len(head) = 1 /\ head[1] = p
  OBVIOUS
<1>3. p.msg \notin Arrived(e) /\ \A x \in list : x.msg # p.msg
  BY NewPacketNotInHand
<1>4. \A x \in list : x.msg \notin Arrived(e) /\ Stream(x.kind) = "ordered"
  BY DEF OnceInv
<1>5. \A x, y \in list : x.msg = y.msg => x = y
  BY <1>1, <1>4, OnePacketToAMessage
<1> HIDE DEF list, head, G
<1>6. more \in Seq(G) /\ Len(more) \in Nat /\ DOMAIN more = 1 .. Len(more)
  BY <1>1, SeqMonotonic, LenProperties
<1>7. \A i \in 1 .. Len(more) : more[i] \in list
  <2>1. ASSUME NEW i \in 1 .. Len(more) PROVE more[i] \in list
    BY <1>1, ElementOfSeq
  <2> QED
    BY <2>1
<1>8. batch \in Seq(G) /\ Len(batch) = Len(more) + 1 /\ batch[1] = p
      /\ \A i \in 1 .. Len(more) : batch[i + 1] = more[i]
  <2>1. /\ head \o more \in Seq(G) /\ Len(head) \in Nat /\ Len(more) \in Nat
        /\ Len(head \o more) = Len(head) + Len(more)
        /\ \A i \in 1 .. Len(head) + Len(more) :
             (head \o more)[i] = IF i <= Len(head) THEN head[i] ELSE more[i - Len(head)]
    BY <1>2, <1>6, JoinedSeq
  <2>2. \A i \in 1 .. Len(more) : ~(i + 1 <= 1) /\ i + 1 - 1 = i /\ i + 1 \in 1 .. 1 + Len(more)
    BY <1>6
  <2>3. 1 \in 1 .. 1 + Len(more)
    BY <1>6
  <2> QED
    BY <1>2, <2>1, <2>2, <2>3
<1> HIDE DEF batch
<1>9. /\ new \in Seq(Nat) /\ Len(new) = Len(batch)
      /\ \A i \in 1 .. Len(batch) : new[i] = batch[i].msg
  BY <1>8, MessagesOfPackets DEF G
<1> HIDE DEF new
<1>10. new[1] = p.msg /\ \A i \in 1 .. Len(more) : new[i + 1] = more[i].msg
  <2>1. 1 \in 1 .. Len(batch) /\ \A i \in 1 .. Len(more) : i + 1 \in 1 .. Len(batch)
    BY <1>6, <1>8
  <2> QED
    BY <1>8, <1>9, <2>1
<1>11. IsInjective(new)
  <2>1. DOMAIN new = 1 .. Len(more) + 1
    BY <1>8, <1>9, LenProperties
  <2>2. ASSUME NEW i \in 1 .. Len(more) + 1, NEW j \in 1 .. Len(more) + 1, new[i] = new[j]
        PROVE  i = j
    <3>1. CASE i = 1 /\ j = 1
      BY <3>1
    <3>2. CASE i # 1 /\ j # 1
      <4>1. i - 1 \in 1 .. Len(more) /\ j - 1 \in 1 .. Len(more) /\ (i - 1) + 1 = i /\ (j - 1) + 1 = j
        BY <1>6, <3>2
      <4>2. more[i - 1].msg = more[j - 1].msg
        BY <1>10, <2>2, <4>1
      <4>3. more[i - 1] = more[j - 1]
        BY <1>5, <1>7, <4>1, <4>2
      <4>4. i - 1 = j - 1
        BY <1>6, <4>1, <4>3 DEF IsInjective
      <4> QED
        BY <4>1, <4>4
    <3>3. CASE i = 1 /\ j # 1
      <4>1. j - 1 \in 1 .. Len(more) /\ (j - 1) + 1 = j
        BY <1>6, <3>3
      <4> QED
        BY <1>3, <1>7, <1>10, <2>2, <3>3, <4>1
    <3>4. CASE i # 1 /\ j = 1
      <4>1. i - 1 \in 1 .. Len(more) /\ (i - 1) + 1 = i
        BY <1>6, <3>4
      <4> QED
        BY <1>3, <1>7, <1>10, <2>2, <3>4, <4>1
    <3> QED
      BY <3>1, <3>2, <3>3, <3>4
  <2> QED
    BY <2>1, <2>2 DEF IsInjective
<1>12. Elements(new) = {p.msg} \cup {x.msg : x \in Range(more)}
  <2>1. ASSUME NEW m \in Elements(new) PROVE m \in {p.msg} \cup {x.msg : x \in Range(more)}
    <3>1. PICK i \in 1 .. Len(more) + 1 : m = new[i]
      BY <1>8, <1>9, <2>1 DEF Elements
    <3>2. CASE i = 1
      BY <1>10, <3>1, <3>2
    <3>3. CASE i # 1
      <4>1. i - 1 \in 1 .. Len(more) /\ (i - 1) + 1 = i
        BY <1>6, <3>3
      <4>2. m = more[i - 1].msg /\ more[i - 1] \in Range(more)
        BY <1>6, <1>10, <3>1, <4>1 DEF Range
      <4> QED
        BY <4>2
    <3> QED
      BY <3>2, <3>3
  <2>2. p.msg \in Elements(new)
    BY <1>6, <1>8, <1>9, <1>10 DEF Elements
  <2>3. ASSUME NEW x \in Range(more) PROVE x.msg \in Elements(new)
    <3>1. PICK i \in 1 .. Len(more) : x = more[i]
      BY <1>6, <2>3 DEF Range
    <3>2. i + 1 \in 1 .. Len(new) /\ new[i + 1] = x.msg
      BY <1>6, <1>8, <1>9, <1>10, <3>1
    <3> QED
      BY <3>2 DEF Elements
  <2> QED
    BY <2>1, <2>2, <2>3
<1>13. \A m \in Elements(new) : m \notin Arrived(e)
  <2>1. \A x \in Range(more) : x \in list
    BY <1>6, <1>7 DEF Range
  <2> QED
    BY <1>3, <1>4, <1>12, <2>1
<1> QED
  BY <1>6, <1>7, <1>8, <1>9, <1>11, <1>12, <1>13 DEF batch, new, head, list, G

(* The messages sent so far stay what they are.                              *)
LEMMA SentGrows ==
  ASSUME SendInv, Quiet \/ Sending \/ GivingUp \/ Arriving, NEW e \in Ends
  PROVE  /\ Len(sent[e]) \in Nat /\ Len(sent'[e]) \in Nat /\ Len(sent[e]) <= Len(sent'[e])
         /\ \A i \in 1 .. Len(sent[e]) : sent'[e][i] = sent[e][i]
<1>1. sent \in [Ends -> Seq(Kinds)] /\ sent[e] \in Seq(Kinds) /\ Len(sent[e]) \in Nat
  BY LenProperties DEF SendInv
<1>2. CASE sent' = sent
  BY <1>1, <1>2
<1>3. CASE Sending
  <2>1. PICK f \in Ends, k \in Kinds : sent' = [sent EXCEPT ![f] = Append(@, k)]
    BY <1>3 DEF Sending
  <2>2. CASE f = e
    <3>1. sent'[e] = Append(sent[e], k)
      BY <1>1, <2>1, <2>2
    <3>2. /\ Len(Append(sent[e], k)) = Len(sent[e]) + 1
          /\ \A i \in 1 .. Len(sent[e]) : Append(sent[e], k)[i] = sent[e][i]
      BY <1>1, AppendedSeq
    <3> QED
      BY <1>1, <3>1, <3>2
  <2>3. CASE f # e
    BY <1>1, <2>1, <2>3
  <2> QED
    BY <2>2, <2>3
<1> QED
  BY <1>2, <1>3 DEF Quiet, GivingUp, Arriving

(* What is handed up, and what becomes of the ordering list.                 *)
LEMMA TakenOnce ==
  ASSUME ReceiveInv, OnceInv, NEW e \in Ends, NEW p \in Genuine(Peer(e)), Taking(e, p)
  PROVE  /\ \A f \in Ends : IsInjective(arrived'[f])
         /\ \A f \in Ends \ {e} : Arrived(f)' = Arrived(f) /\ orderingList'[f] = orderingList[f]
         /\ \A m \in Arrived(e)' :
              m \in Arrived(e) \/ m = p.msg \/ \E x \in orderingList[e] : m = x.msg
         /\ \A x \in orderingList'[e] :
              /\ x \in orderingList[e] \/ (x = p /\ Stream(p.kind) = "ordered")
              /\ x.msg \notin Arrived(e)'
<1> DEFINE list == orderingList[e]
<1>1. p.msg \notin Arrived(e) /\ \A x \in list : x.msg # p.msg
  BY NewPacketNotInHand DEF Taking
<1>2. \A f \in Ends : IsInjective(arrived[f])
  BY DEF OnceInv
<1>3. DOMAIN orderingList = Ends /\ list \subseteq Genuine(Peer(e)) /\ IsFiniteSet(list)
  BY DEF ReceiveInv
<1>4. \A x \in list : x.msg \notin Arrived(e) /\ Stream(x.kind) = "ordered"
  BY DEF OnceInv
<1>5. CASE arrived' = arrived /\ (orderingList' = orderingList
                                  \/ (/\ Stream(p.kind) = "ordered"
                                      /\ orderingList' = [orderingList EXCEPT ![e] = @ \cup {p}]))
  <2>1. \A f : Arrived(f)' = Arrived(f)
    BY <1>5 DEF Arrived
  <2>2. /\ \A f \in Ends \ {e} : orderingList'[f] = orderingList[f]
        /\ \A x \in orderingList'[e] : x \in list \/ (x = p /\ Stream(p.kind) = "ordered")
    BY <1>3, <1>5
  <2> QED
    BY <1>1, <1>2, <1>4, <1>5, <2>1, <2>2
<1>6. CASE Deliver(e, <<p>>) /\ orderingList' = orderingList
  <2>1. /\ Messages(<<p>>) \in Seq(Nat) /\ Len(Messages(<<p>>)) = 1 /\ Messages(<<p>>)[1] = p.msg
    <3> DEFINE one == <<p>>
    <3>1. one \in Seq(Genuine(Peer(e))) /\ Len(one) = 1 /\ one[1] = p
      OBVIOUS
    <3> HIDE DEF one
    <3>2. /\ Messages(one) \in Seq(Nat) /\ Len(Messages(one)) = 1
          /\ \A i \in 1 .. 1 : Messages(one)[i] = one[i].msg
      BY <3>1, MessagesOfPackets
    <3> QED
      BY <3>1, <3>2 DEF one
  <2>2. IsInjective(Messages(<<p>>)) /\ Elements(Messages(<<p>>)) = {p.msg}
    <3>1. DOMAIN Messages(<<p>>) = 1 .. 1
      BY <2>1, LenProperties
    <3> QED
      BY <2>1, <3>1 DEF IsInjective, Elements
  <2>3. /\ IsInjective(arrived'[e]) /\ Arrived(e)' = Arrived(e) \cup {p.msg}
        /\ \A f \in Ends : f # e => arrived'[f] = arrived[f] /\ Arrived(f)' = Arrived(f)
    BY <1>1, <1>2, <1>6, <2>1, <2>2, DeliveredOnce
  <2> QED
    BY <1>1, <1>2, <1>4, <1>6, <2>3
<1>7. CASE /\ Stream(p.kind) = "ordered"
           /\ Deliver(e, <<p>> \o Following(list, p.idx))
           /\ orderingList' = [orderingList EXCEPT ![e] = @ \ Range(Following(list, p.idx))]
  <2> DEFINE more == Following(list, p.idx)
  <2>1. more \in Seq(list) /\ IsInjective(more)
    BY <1>3, FollowingSeq
  <2> HIDE DEF more
  <2>2. /\ Messages(<<p>> \o more) \in Seq(Nat)
        /\ IsInjective(Messages(<<p>> \o more))
        /\ Elements(Messages(<<p>> \o more)) = {p.msg} \cup {x.msg : x \in Range(more)}
        /\ \A m \in Elements(Messages(<<p>> \o more)) : m \notin Arrived(e)
    BY <2>1, BatchTaken DEF Taking
  <2>3. /\ IsInjective(arrived'[e])
        /\ Arrived(e)' = Arrived(e) \cup ({p.msg} \cup {x.msg : x \in Range(more)})
        /\ \A f \in Ends : f # e => arrived'[f] = arrived[f] /\ Arrived(f)' = Arrived(f)
    BY <1>2, <1>7, <2>2, DeliveredOnce DEF more
  <2>4. Range(more) \subseteq list
    <3>1. \A i \in 1 .. Len(more) : more[i] \in list
      <4>1. ASSUME NEW i \in 1 .. Len(more) PROVE more[i] \in list
        BY <2>1, ElementOfSeq
      <4> QED
        BY <4>1
    <3> QED
      BY <2>1, <3>1, LenProperties DEF Range
  <2>5. /\ \A f \in Ends \ {e} : orderingList'[f] = orderingList[f]
        /\ orderingList'[e] = list \ Range(more)
    BY <1>3, <1>7 DEF more
  <2>6. ASSUME NEW x \in list \ Range(more) PROVE x.msg \notin Arrived(e)'
    <3>1. \A y \in Range(more) : x.msg # y.msg
      BY <1>3, <1>4, <2>4, OnePacketToAMessage
    <3> QED
      BY <1>1, <1>4, <2>3, <3>1
  <2>7. \A f \in Ends : IsInjective(arrived'[f])
    BY <1>2, <2>3
  <2>8. \A m \in Arrived(e)' : m \in Arrived(e) \/ m = p.msg \/ \E x \in list : m = x.msg
    BY <2>3, <2>4
  <2> QED
    BY <2>3, <2>5, <2>6, <2>7, <2>8
<1> QED
  BY <1>5, <1>6, <1>7 DEF Taking, HandleOrdered, HandleSequenced, HandlePlain

LEMMA OnceKept ==
  ASSUME LayerInv, OnceInv, [Next]_vars
  PROVE  OnceInv'
<1>1. Quiet \/ Sending \/ GivingUp \/ Arriving
  BY StepOfPrograms
<1>2. ReceiveInv /\ SendInv
  BY DEF LayerInv
<1>3. \A e \in Ends : /\ Len(sent[Peer(e)]) \in Nat /\ Len(sent'[Peer(e)]) \in Nat
                      /\ Len(sent[Peer(e)]) <= Len(sent'[Peer(e)])
  BY <1>1, <1>2, SentGrows, PeerOfPeer
<1>4. CASE UNCHANGED receiveVars
  <2>1. \A e : Arrived(e)' = Arrived(e)
    BY <1>4 DEF Arrived, receiveVars
  <2>2. ASSUME NEW e \in Ends, NEW m \in Arrived(e) PROVE m \in 1 .. Len(sent'[Peer(e)])
    <3>1. m \in 1 .. Len(sent[Peer(e)])
      BY DEF OnceInv
    <3> QED
      BY <1>3, <3>1
  <2> QED
    BY <1>4, <2>1, <2>2 DEF OnceInv, receiveVars
<1>5. CASE Arriving
  <2>1. sent' = sent
    BY <1>5 DEF Arriving
  <2>2. PICK e \in Ends : \E p \in Genuine(Peer(e)) : InDatagram(e, p) /\ Taking(e, p)
    BY <1>5 DEF Arriving
  <2>3. PICK p \in Genuine(Peer(e)) : Taking(e, p)
    BY <2>2
  <2>4. /\ \A f \in Ends : IsInjective(arrived'[f])
        /\ \A f \in Ends \ {e} : Arrived(f)' = Arrived(f) /\ orderingList'[f] = orderingList[f]
        /\ \A m \in Arrived(e)' :
             m \in Arrived(e) \/ m = p.msg \/ \E x \in orderingList[e] : m = x.msg
        /\ \A x \in orderingList'[e] :
             /\ x \in orderingList[e] \/ (x = p /\ Stream(p.kind) = "ordered")
             /\ x.msg \notin Arrived(e)'
    BY <1>2, <2>3, TakenOnce
  <2>5. p.num \in received'[e] /\ \A f \in Ends : received[f] \subseteq received'[f]
    BY <1>2, <2>3 DEF Taking, ReceiveInv
  <2>6. /\ p.msg \in 1 .. Len(sent[Peer(e)]) /\ p.num = NumberOf(p.msg)
        /\ \A x \in orderingList[e] :
             x.msg \in 1 .. Len(sent[Peer(e)]) /\ x.num = NumberOf(x.msg) /\ x.num \in received[e]
    BY <1>2 DEF Genuine, ReceiveInv, OnceInv
  <2>7. ASSUME NEW f \in Ends, NEW m \in Arrived(f)'
        PROVE  m \in 1 .. Len(sent[Peer(f)]) /\ NumberOf(m) \in received'[f]
    <3>1. CASE f = e
      BY <2>4, <2>5, <2>6, <2>7, <3>1 DEF OnceInv
    <3>2. CASE f # e
      BY <2>4, <2>5, <2>7, <3>2 DEF OnceInv
    <3> QED
      BY <3>1, <3>2
  <2>8. ASSUME NEW f \in Ends, NEW x \in orderingList'[f]
        PROVE  x.num \in received'[f] /\ x.msg \notin Arrived(f)' /\ Stream(x.kind) = "ordered"
    <3>1. CASE f = e
      BY <2>4, <2>5, <2>8, <3>1 DEF OnceInv
    <3>2. CASE f # e
      BY <2>4, <2>5, <2>8, <3>2 DEF OnceInv
    <3> QED
      BY <3>1, <3>2
  <2> QED
    BY <2>1, <2>4, <2>7, <2>8 DEF OnceInv
<1> QED
  BY <1>1, <1>4, <1>5 DEF Quiet, Sending, GivingUp

LEMMA OnceHolds ==
  ASSUME OneThread, ShortScripts
  PROVE  Spec => []OnceInv
<1>1. Init => OnceInv
  BY DEF Init, OnceInv, IsInjective, Arrived
<1>2. LayerInv /\ OnceInv /\ [Next]_vars => OnceInv'
  BY OnceKept
<1> QED
  BY <1>1, <1>2, LayerInvHolds, PTL DEF Spec

(* No message is handed up twice, whatever copies of its packet the network  *)
(* and the resend queue make (receivedPackets, ReliabilityLayer.cpp). *)
THEOREM NoMessageTwice ==
  ASSUME OneThread, ShortScripts
  PROVE  Spec => []AtMostOnce
<1>1. OnceInv => AtMostOnce
  BY DEF OnceInv, AtMostOnce
<1> QED
  BY <1>1, OnceHolds, PTL

-------------------------------------------------------------------------------
(* The order of the streams.  An index has eight bits, so it only tells      *)
(* messages apart that are close to each other.                             *)

(* The sequenced messages that have arrived or are older than one that has.  *)
Passed(e) ==
  {m \in Of(e, "sequenced") : \E n \in ArrivedOf(e, "sequenced") : m <= n}

(* No more ordered messages are on their way to e than there are indexes.    *)
OrderedClose ==
  \A e \in Ends : Cardinality(Of(e, "ordered") \ Arrived(e)) <= IndexRange

(* A sequenced packet that comes to e for the first time is less than half   *)
(* the range from the one that e waits for.                                 *)
SequencedClose ==
  \A e \in Ends : \A i \in 1 .. Len(parsing[e]) :
    LET p == parsing[e][i].body IN
    ~parsing[e][i].ack /\ Stream(p.kind) = "sequenced" /\ p.num \notin received[e]
      => Rank(sent[Peer(e)], p.msg) - Cardinality(Passed(e)) \in -126 .. 127

WithinIndexRange == OrderedClose /\ SequencedClose

(* The ordered messages that have arrived are the first ones, and their      *)
(* number gives the index that is waited for.                               *)
OrderOK(e) ==
  /\ \A m, n \in Of(e, "ordered") : m < n /\ n \in Arrived(e) => m \in Arrived(e)
  /\ readIndex[e]["ordered"] = (FirstIndex + Cardinality(ArrivedOf(e, "ordered"))) % IndexRange

OrderInv == \A e \in Ends : OrderOK(e)

(* The same for the sequenced messages that have been passed, among which    *)
(* are all that have been received.                                         *)
SequenceOK(e) ==
  /\ \A m \in Of(e, "sequenced") : NumberOf(m) \in received[e] => m \in Passed(e)
  /\ readIndex[e]["sequenced"] = (FirstIndex + Cardinality(Passed(e))) % IndexRange

SequenceInv == \A e \in Ends : SequenceOK(e)

(* The rank of a message grows with its number.                              *)
LEMMA RankGrows ==
  ASSUME NEW s, NEW m \in Nat \ {0}, NEW n \in Nat \ {0}, Stream(s[m]) = Stream(s[n])
  PROVE  /\ Rank(s, m) \in Nat /\ Rank(s, n) \in Nat
         /\ m < n <=> Rank(s, m) < Rank(s, n)
         /\ m = n <=> Rank(s, m) = Rank(s, n)
<1>1. Rank(s, m) \in Nat /\ Rank(s, n) \in Nat
  BY PositionsFinite DEF Rank
<1>2. ASSUME NEW i \in Nat \ {0}, NEW j \in Nat \ {0}, Stream(s[i]) = Stream(s[j]), i < j
      PROVE  Rank(s, i) < Rank(s, j)
  <2> DEFINE stream == Stream(s[j])
  <2>1. i - 1 \in Nat /\ j - 1 \in Nat
    OBVIOUS
  <2> HIDE DEF stream
  <2>2. IsFiniteSet(Positions(s, stream, i - 1)) /\ Cardinality(Positions(s, stream, i - 1)) \in Nat
        /\ IsFiniteSet(Positions(s, stream, j - 1)) /\ Cardinality(Positions(s, stream, j - 1)) \in Nat
    BY <2>1, PositionsFinite
  <2>3. i \notin Positions(s, stream, i - 1)
    BY DEF Positions
  <2>4. Positions(s, stream, i - 1) \cup {i} \subseteq Positions(s, stream, j - 1)
    BY <1>2 DEF Positions, stream
  <2>5. Cardinality(Positions(s, stream, i - 1) \cup {i}) = Cardinality(Positions(s, stream, i - 1)) + 1
    BY <2>2, <2>3, FS_AddElement
  <2>6. Cardinality(Positions(s, stream, i - 1) \cup {i}) <= Cardinality(Positions(s, stream, j - 1))
    BY <2>2, <2>4, FS_Subset
  <2>7. Rank(s, i) = Cardinality(Positions(s, stream, i - 1))
        /\ Rank(s, j) = Cardinality(Positions(s, stream, j - 1))
    BY <1>2 DEF Rank, stream
  <2> QED
    BY <2>2, <2>5, <2>6, <2>7
<1>3. m < n => Rank(s, m) < Rank(s, n)
  BY <1>2
<1>4. n < m => Rank(s, n) < Rank(s, m)
  BY <1>2
<1>5. m < n \/ n < m \/ m = n
  OBVIOUS
<1> QED
  BY <1>1, <1>3, <1>4, <1>5

LEMMA OfFinite ==
  ASSUME SendInv, NEW e \in Ends, NEW stream
  PROVE  /\ IsFiniteSet(Of(e, stream)) /\ Of(e, stream) \subseteq Nat \ {0}
         /\ \A m \in Of(e, stream) : Stream(sent[Peer(e)][m]) = stream
<1>1. Len(sent[Peer(e)]) \in Nat
  BY PeerOfPeer, LenProperties DEF SendInv
<1>2. IsFiniteSet(Of(e, stream))
  BY <1>1, PositionsFinite DEF Of
<1>3. Of(e, stream) \subseteq Nat \ {0} /\ \A m \in Of(e, stream) : Stream(sent[Peer(e)][m]) = stream
  BY <1>1 DEF Of, Positions
<1> QED
  BY <1>2, <1>3

(* The stream up to one of its messages.                                     *)
LEMMA UpToMessage ==
  ASSUME SendInv, NEW e \in Ends, NEW stream, NEW m \in Of(e, stream)
  PROVE  /\ Positions(sent[Peer(e)], stream, m) = {n \in Of(e, stream) : n <= m}
         /\ Positions(sent[Peer(e)], stream, m - 1) = {n \in Of(e, stream) : n < m}
         /\ Cardinality({n \in Of(e, stream) : n <= m}) = Rank(sent[Peer(e)], m) + 1
         /\ Cardinality({n \in Of(e, stream) : n < m}) = Rank(sent[Peer(e)], m)
         /\ Rank(sent[Peer(e)], m) \in Nat
<1> DEFINE s == sent[Peer(e)]
<1>1. Len(s) \in Nat
  BY PeerOfPeer, LenProperties DEF SendInv
<1> HIDE DEF s
<1>2. m \in 1 .. Len(s) /\ Stream(s[m]) = stream /\ m - 1 \in Nat /\ (m - 1) + 1 = m
  BY <1>1 DEF Of, Positions, s
<1>3. Of(e, stream) = Positions(s, stream, Len(s))
  BY DEF Of, s
<1>4. /\ Positions(s, stream, m) = {n \in Of(e, stream) : n <= m}
      /\ Positions(s, stream, m - 1) = {n \in Of(e, stream) : n < m}
  BY <1>1, <1>2, <1>3 DEF Positions
<1>5. Cardinality(Positions(s, stream, m)) = Cardinality(Positions(s, stream, m - 1)) + 1
  BY <1>2, PositionsNext
<1>6. Rank(s, m) = Cardinality(Positions(s, stream, m - 1)) /\ Rank(s, m) \in Nat
  BY <1>2, PositionsFinite DEF Rank
<1> QED
  BY <1>4, <1>5, <1>6 DEF s

(* An ordered message that has not arrived: its place is not before the one  *)
(* that is waited for, and less than the index range behind it.              *)
LEMMA OrderedWindow ==
  ASSUME SendInv, OrderInv, OrderedClose, NEW e \in Ends, NEW m \in Of(e, "ordered"),
         m \notin Arrived(e)
  PROVE  /\ Cardinality(ArrivedOf(e, "ordered")) \in Nat
         /\ Rank(sent[Peer(e)], m) >= Cardinality(ArrivedOf(e, "ordered"))
         /\ Rank(sent[Peer(e)], m) < Cardinality(ArrivedOf(e, "ordered")) + IndexRange
         /\ \A n \in ArrivedOf(e, "ordered") : n < m
         /\ Rank(sent[Peer(e)], m) = Cardinality(ArrivedOf(e, "ordered"))
              => \A n \in Of(e, "ordered") : n < m => n \in Arrived(e)
<1> DEFINE all == Of(e, "ordered")
           came == ArrivedOf(e, "ordered")
           before == {n \in all : n < m}
           r == Rank(sent[Peer(e)], m)
<1>1. IsFiniteSet(all) /\ all \subseteq Nat \ {0}
  BY OfFinite
<1>2. Cardinality(before) = r /\ r \in Nat
  BY UpToMessage
<1>3. \A n \in came : n \in before
  <2>1. ASSUME NEW n \in came PROVE n < m
    <3>1. n \in all /\ n \in Arrived(e) /\ n # m
      BY DEF ArrivedOf
    <3>2. ~(m < n)
      BY <3>1 DEF OrderInv, OrderOK
    <3> QED
      BY <1>1, <3>1, <3>2
  <2> QED
    BY <2>1 DEF ArrivedOf
<1>4. IsFiniteSet(before)
  BY <1>1, FS_Subset
<1>5. came \subseteq before
  BY <1>3
<1>6. all \ Arrived(e) = all \ came
  BY DEF ArrivedOf
<1>7. Cardinality(all \ came) <= IndexRange
  BY <1>6 DEF OrderedClose
<1>8. before \ came \subseteq (all \ came) \ {m} /\ m \in all \ came
  BY <1>1 DEF ArrivedOf
<1> HIDE DEF came, all, before, r
<1>9. IsFiniteSet(came) /\ Cardinality(came) \in Nat /\ Cardinality(came) <= r
      /\ (Cardinality(came) = r => came = before)
  BY <1>2, <1>4, <1>5, FS_Subset, FS_CardinalityType
<1>10. Cardinality(before \ came) = r - Cardinality(came) /\ IsFiniteSet(before \ came)
  <2>1. before \cap came = came
    BY <1>5
  <2> QED
    BY <1>2, <1>4, <2>1, FS_Difference
<1>11. r - Cardinality(came) < IndexRange
  <2>1. IsFiniteSet(all \ came) /\ Cardinality(all \ came) \in Nat
    BY <1>1, FS_Difference, FS_CardinalityType
  <2>2. /\ IsFiniteSet((all \ came) \ {m})
        /\ Cardinality((all \ came) \ {m}) = Cardinality(all \ came) - 1
    BY <1>8, <2>1, FS_RemoveElement
  <2>3. Cardinality(before \ came) <= Cardinality((all \ came) \ {m})
    BY <1>8, <2>2, FS_Subset
  <2> QED
    BY <1>2, <1>7, <1>9, <1>10, <2>1, <2>2, <2>3, Ranges
<1>12. Cardinality(came) = r => \A n \in all : n < m => n \in Arrived(e)
  BY <1>9 DEF before, came, ArrivedOf
<1>13. r < Cardinality(came) + IndexRange
  BY <1>2, <1>9, <1>11, Ranges
<1> QED
  BY <1>2, <1>3, <1>9, <1>12, <1>13 DEF came, all, before, r

(* Less than the range apart, one index means one place.                     *)
LEMMA OneIndexOnePlace ==
  ASSUME NEW i \in Nat, NEW j \in Nat, i < j + IndexRange, j < i + IndexRange,
         (FirstIndex + i) % IndexRange = (FirstIndex + j) % IndexRange
  PROVE  i = j
<1>1. FirstIndex \in Nat
  BY IndexAssumption
<1> QED
  BY <1>1 DEF IndexRange

LEMMA IndexesAdd ==
  ASSUME NEW i \in Nat, NEW j \in Nat
  PROVE  (((FirstIndex + i) % IndexRange) + j) % IndexRange = (FirstIndex + (i + j)) % IndexRange
<1>1. FirstIndex \in Nat
  BY IndexAssumption
<1> QED
  BY <1>1 DEF IndexRange

LEMMA IndexComesAround ==
  ASSUME NEW i \in Nat
  PROVE  (FirstIndex + (i + IndexRange)) % IndexRange = (FirstIndex + i) % IndexRange
<1>1. FirstIndex \in Nat
  BY IndexAssumption
<1> QED
  BY <1>1 DEF IndexRange

(* Less than half the range apart, the older place has the older index.      *)
LEMMA OlderIsOlder ==
  ASSUME NEW i \in Nat, NEW j \in Nat, i - j \in -126 .. 127
  PROVE  IsOlder((FirstIndex + i) % IndexRange, (FirstIndex + j) % IndexRange) <=> i < j
<1>1. FirstIndex \in Nat
  BY IndexAssumption
<1> DEFINE a == FirstIndex + i
           b == FirstIndex + j
<1>2. a \in Nat /\ b \in Nat /\ a - b = i - j /\ (i < j <=> a < b)
  BY <1>1
<1> HIDE DEF a, b
<1>3. \A x, y \in Nat : x - y \in -126 .. 127 =>
        LET u == x % 256
            v == y % 256
        IN (IF v > 127 THEN u >= v - 126 /\ u < v ELSE u >= (v - 128) % 256 \/ u < v) <=> x < y
  OBVIOUS
<1>4. IsOlder(a % IndexRange, b % IndexRange) <=> a < b
  BY <1>2, <1>3 DEF IsOlder, IndexRange
<1> QED
  BY <1>2, <1>4 DEF a, b

(* A sequenced message has been passed if its place is before the one waited *)
(* for.                                                                     *)
LEMMA PassedAreFirst ==
  ASSUME SendInv, NEW e \in Ends, NEW m \in Of(e, "sequenced")
  PROVE  /\ Cardinality(Passed(e)) \in Nat
         /\ m \in Passed(e) <=> Rank(sent[Peer(e)], m) < Cardinality(Passed(e))
<1> DEFINE all == Of(e, "sequenced")
           r == Rank(sent[Peer(e)], m)
<1>1. IsFiniteSet(all) /\ all \subseteq Nat \ {0}
  BY OfFinite
<1>2. Cardinality({n \in all : n < m}) = r /\ Cardinality({n \in all : n <= m}) = r + 1 /\ r \in Nat
  BY UpToMessage
<1>3. IsFiniteSet(Passed(e)) /\ Cardinality(Passed(e)) \in Nat
  <2>1. Passed(e) \subseteq all
    BY DEF Passed
  <2> QED
    BY <1>1, <2>1, FS_Subset, FS_CardinalityType
<1>4. CASE m \in Passed(e)
  <2>1. {n \in all : n <= m} \subseteq Passed(e)
    BY <1>1, <1>4 DEF Passed, ArrivedOf
  <2>2. Cardinality({n \in all : n <= m}) <= Cardinality(Passed(e))
    BY <1>3, <2>1, FS_Subset
  <2> QED
    BY <1>2, <1>3, <1>4, <2>2
<1>5. CASE m \notin Passed(e)
  <2>1. Passed(e) \subseteq {n \in all : n < m}
    BY <1>1, <1>5 DEF Passed, ArrivedOf
  <2>2. IsFiniteSet({n \in all : n < m})
    BY <1>1, FS_Subset
  <2>3. Cardinality(Passed(e)) <= Cardinality({n \in all : n < m})
    BY <2>1, <2>2, FS_Subset
  <2> QED
    BY <1>2, <1>3, <1>5, <2>3
<1> QED
  BY <1>3, <1>4, <1>5

-------------------------------------------------------------------------------
(* An ordered packet whose turn it is.                                      *)

(* The packets that follow it have the places after its own.                 *)
LEMMA FollowingInOrder ==
  ASSUME LayerInv, OnceInv, OrderInv, OrderedClose, NEW e \in Ends, NEW p \in Genuine(Peer(e)),
         p.num \notin received[e], Stream(p.kind) = "ordered",
         readIndex[e]["ordered"] = p.idx
  PROVE  /\ Rank(sent[Peer(e)], p.msg) = Cardinality(ArrivedOf(e, "ordered"))
         /\ Cardinality(ArrivedOf(e, "ordered")) \in Nat
         /\ LET more == Following(orderingList[e], p.idx) IN
            /\ more \in Seq(orderingList[e]) /\ IsInjective(more)
            /\ \A j \in 1 .. Len(more) :
                 Rank(sent[Peer(e)], more[j].msg) = Cardinality(ArrivedOf(e, "ordered")) + j
<1> DEFINE c == Cardinality(ArrivedOf(e, "ordered"))
           list == orderingList[e]
           R(x) == Rank(sent[Peer(e)], x.msg)
           S == {s \in Seq(list) : IsInjective(s) /\ \A j \in 1 .. Len(s) : R(s[j]) = c + j}
<1>1. SendInv /\ ReceiveInv
  BY DEF LayerInv
<1>2. /\ p.msg \notin Arrived(e) /\ \A x \in list : x.msg # p.msg
      /\ \A x \in list : x.msg \notin Arrived(e)
  BY <1>1, NewPacketNotInHand DEF OnceInv
<1>3. \A x \in list \cup {p} :
        /\ x.msg \in Of(e, "ordered") /\ x.msg \in Nat \ {0}
        /\ x.idx = (FirstIndex + R(x)) % IndexRange
  <2>1. ASSUME NEW x \in list \cup {p}
        PROVE  /\ x.msg \in Of(e, "ordered") /\ x.msg \in Nat \ {0}
               /\ x.idx = (FirstIndex + R(x)) % IndexRange
    <3>1. x \in Genuine(Peer(e)) /\ Stream(x.kind) = "ordered"
      BY <1>1 DEF ReceiveInv, OnceInv
    <3>2. /\ x.msg \in 1 .. Len(sent[Peer(e)]) /\ x.kind = sent[Peer(e)][x.msg]
          /\ x.idx = (FirstIndex + R(x)) % IndexRange
      BY <3>1 DEF Genuine
    <3>3. x.msg \in Of(e, "ordered")
      BY <3>1, <3>2 DEF Of, Positions
    <3> QED
      BY <1>1, <3>2, <3>3, OfFinite
  <2> QED
    BY <2>1
<1>4. /\ c \in Nat
      /\ \A x \in list \cup {p} : R(x) \in Nat /\ R(x) >= c /\ R(x) < c + IndexRange
  <2>1. ASSUME NEW x \in list \cup {p} PROVE R(x) \in Nat /\ R(x) >= c /\ R(x) < c + IndexRange /\ c \in Nat
    <3>1. x.msg \in Of(e, "ordered") /\ x.msg \notin Arrived(e)
      BY <1>2, <1>3
    <3>2. R(x) \in Nat
      BY <1>1, <3>1, UpToMessage
    <3> QED
      BY <1>1, <3>1, <3>2, OrderedWindow
  <2> QED
    BY <2>1
<1>5. R(p) = c
  <2>1. (FirstIndex + c) % IndexRange = (FirstIndex + R(p)) % IndexRange
    BY <1>3 DEF OrderInv, OrderOK
  <2> HIDE DEF c, R
  <2>2. R(p) \in Nat /\ c < R(p) + IndexRange /\ R(p) < c + IndexRange
    BY <1>4, Ranges
  <2> QED
    BY <1>4, <2>1, <2>2, OneIndexOnePlace
<1>6. \A x \in list : R(x) # c
  <2>1. ASSUME NEW x \in list, R(x) = R(p) PROVE FALSE
    <3>1. Stream(sent[Peer(e)][x.msg]) = Stream(sent[Peer(e)][p.msg])
      BY <1>1, <1>3, OfFinite
    <3>2. x.msg = p.msg
      BY <1>3, <2>1, <3>1, RankGrows
    <3> QED
      BY <1>2, <3>2
  <2> QED
    BY <1>5, <2>1
<1> HIDE DEF c, list, R
<1>7. <<>> \in S
  BY DEF IsInjective
<1>8. ASSUME NEW s \in S PROVE Longer(list, p.idx, s) \in S
  <2> DEFINE next == {x \in list \ Range(s) : x.idx = (p.idx + Len(s) + 1) % IndexRange}
             q == CHOOSE x \in next : TRUE
  <2>1. /\ s \in Seq(list) /\ IsInjective(s) /\ Len(s) \in Nat
        /\ \A j \in 1 .. Len(s) : R(s[j]) = c + j /\ s[j] \in list
    <3>1. s \in Seq(list) /\ \A j \in 1 .. Len(s) : R(s[j]) = c + j
      OBVIOUS
    <3>2. ASSUME NEW j \in 1 .. Len(s) PROVE s[j] \in list
      BY <3>1, ElementOfSeq
    <3> QED
      BY <3>1, <3>2, LenProperties
  <2>2. Longer(list, p.idx, s) \in Seq(list) /\ IsInjective(Longer(list, p.idx, s))
    BY <2>1, LongerSeq
  <2>3. CASE next = {}
    <3>1. Longer(list, p.idx, s) = s
      BY <2>3, Zenon DEF Longer
    <3> QED
      BY <3>1
  <2>4. CASE next # {}
    <3>1. q \in list /\ q.idx = (p.idx + Len(s) + 1) % IndexRange
      <4>1. q \in next
        <5> HIDE DEF next
        <5> QED
          BY <2>4
      <4> QED
        BY <4>1
    <3>2. Longer(list, p.idx, s) = Append(s, q)
      BY <2>4, Zenon DEF Longer
    <3> HIDE DEF q
    <3>3. (FirstIndex + R(q)) % IndexRange = (FirstIndex + (c + (Len(s) + 1))) % IndexRange
      <4>1. p.idx = (FirstIndex + c) % IndexRange
        BY <1>3, <1>5
      <4>2. (((FirstIndex + c) % IndexRange) + (Len(s) + 1)) % IndexRange
              = (FirstIndex + (c + (Len(s) + 1))) % IndexRange
        BY <1>4, <2>1, IndexesAdd
      <4>3. p.idx \in Int
        <5>1. FirstIndex + c \in Nat
          BY <1>4, IndexAssumption
        <5> QED
          BY <4>1, <5>1, IndexInRange DEF IndexSet
      <4>4. p.idx + Len(s) + 1 = p.idx + (Len(s) + 1)
        BY <2>1, <4>3
      <4>5. q.idx = (FirstIndex + R(q)) % IndexRange
        BY <1>3, <3>1
      <4> QED
        BY <3>1, <4>1, <4>2, <4>4, <4>5
    <3>4. R(q) \in Nat /\ R(q) > c /\ R(q) < c + IndexRange
      BY <1>4, <1>6, <3>1
    <3>5. Len(s) < IndexRange
      <4>1. SUFFICES ASSUME Len(s) >= IndexRange PROVE FALSE
        BY <2>1, Ranges
      <4>2. IndexRange \in 1 .. Len(s)
        BY <2>1, <4>1, Ranges
      <4>3. R(s[IndexRange]) = c + IndexRange /\ s[IndexRange] \in list
        BY <2>1, <4>2
      <4> QED
        BY <1>4, <4>3, Ranges
    <3>6. R(q) = c + (Len(s) + 1)
      <4>1. c + (Len(s) + 1) \in Nat
        BY <1>4, <2>1
      <4>2. CASE Len(s) + 1 < IndexRange
        <5>1. R(q) < (c + (Len(s) + 1)) + IndexRange /\ c + (Len(s) + 1) < R(q) + IndexRange
          BY <1>4, <2>1, <3>4, <4>2, Ranges
        <5> QED
          BY <3>3, <3>4, <4>1, <5>1, OneIndexOnePlace
      <4>3. CASE Len(s) + 1 = IndexRange
        <5>1. (FirstIndex + (c + IndexRange)) % IndexRange = (FirstIndex + c) % IndexRange
          BY <1>4, IndexComesAround
        <5>2. (FirstIndex + R(q)) % IndexRange = (FirstIndex + c) % IndexRange
          BY <3>3, <4>3, <5>1
        <5>3. R(q) < c + IndexRange /\ c < R(q) + IndexRange
          BY <1>4, <3>4, Ranges
        <5>4. R(q) = c
          BY <1>4, <3>4, <5>2, <5>3, OneIndexOnePlace
        <5> QED
          BY <1>4, <3>4, <5>4
      <4> QED
        BY <2>1, <3>5, <4>2, <4>3, Ranges
    <3>7. ASSUME NEW j \in 1 .. Len(Append(s, q)) PROVE R(Append(s, q)[j]) = c + j
      <4>1. /\ Len(Append(s, q)) = Len(s) + 1 /\ \A i \in 1 .. Len(s) : Append(s, q)[i] = s[i]
            /\ Append(s, q)[Len(s) + 1] = q
        BY <2>1, <3>1, AppendedSeq
      <4>2. CASE j = Len(s) + 1
        BY <3>6, <4>1, <4>2
      <4>3. CASE j # Len(s) + 1
        <5>1. j \in 1 .. Len(s)
          BY <2>1, <4>1, <4>3
        <5> QED
          BY <2>1, <4>1, <5>1
      <4> QED
        BY <4>2, <4>3
    <3> QED
      BY <2>2, <3>2, <3>7
  <2> QED
    BY <2>3, <2>4
<1> HIDE DEF S
<1>9. IsFiniteSet(list)
  BY <1>1 DEF ReceiveInv, list
<1>10. Following(list, p.idx) \in S
  BY <1>7, <1>8, <1>9, FollowingInduction
<1> QED
  BY <1>4, <1>5, <1>10 DEF S, c, list, R

(* Messages are handed up.                                                  *)
HandedUp(e, new) ==
  /\ arrived' = [arrived EXCEPT ![e] = @ \o new]
  /\ Arrived(e)' = Arrived(e) \cup Elements(new)
  /\ \A f \in Ends : f # e => Arrived(f)' = Arrived(f)
  /\ \A m \in Elements(new) : m \notin Arrived(e)

(* Ordered ones in their order and with none left out, and the index that is *)
(* waited for becomes that of the next.                                      *)
InTurn(e, new) ==
  /\ HandedUp(e, new)
  /\ Len(new) \in 1 .. Rank(sent[Peer(e)], new[Len(new)]) + 1
  /\ \A m \in Elements(new) : m \in Of(e, "ordered")
  /\ \A i, j \in 1 .. Len(new) : i < j => new[i] < new[j]
  /\ new[Len(new)] \in Of(e, "ordered")
  /\ ArrivedOf(e, "ordered") \cup Elements(new) = {n \in Of(e, "ordered") : n <= new[Len(new)]}
  /\ readIndex' = [readIndex EXCEPT ![e]["ordered"] =
                     (FirstIndex + (Rank(sent[Peer(e)], new[Len(new)]) + 1)) % IndexRange]

(* It is handed up with those that follow.                                   *)
LEMMA OrderedBatch ==
  ASSUME LayerInv, OnceInv, OrderInv, OrderedClose, NEW e \in Ends, NEW p \in Genuine(Peer(e)),
         Taking(e, p), Stream(p.kind) = "ordered", readIndex[e]["ordered"] = p.idx
  PROVE  \E new \in Seq(Nat) : InTurn(e, new)
<1> DEFINE c == Cardinality(ArrivedOf(e, "ordered"))
           list == orderingList[e]
           s == sent[Peer(e)]
           all == Of(e, "ordered")
           more == Following(list, p.idx)
           batch == <<p>> \o more
           new == Messages(batch)
           top == new[Len(new)]
<1>1. SendInv /\ ReceiveInv
  BY DEF LayerInv
<1>2. p.num \notin received[e]
  BY DEF Taking
<1>3. /\ Rank(s, p.msg) = c /\ c \in Nat /\ more \in Seq(list) /\ IsInjective(more)
      /\ \A j \in 1 .. Len(more) : Rank(s, more[j].msg) = c + j
  BY <1>2, FollowingInOrder
<1>4. /\ Deliver(e, batch)
      /\ readIndex' = [readIndex EXCEPT ![e]["ordered"] = (@ + 1 + Len(more)) % IndexRange]
  BY Zenon DEF Taking, HandleOrdered
<1> HIDE DEF more
<1>5. /\ batch \in Seq(Genuine(Peer(e)))
      /\ Len(more) \in Nat /\ Len(batch) = Len(more) + 1 /\ batch[1] = p
      /\ \A i \in 1 .. Len(more) : batch[i + 1] = more[i] /\ more[i] \in list
      /\ new \in Seq(Nat) /\ IsInjective(new)
      /\ \A m \in Elements(new) : m \notin Arrived(e)
  BY <1>1, <1>2, <1>3, BatchTaken
<1> HIDE DEF batch
<1>6. /\ Len(new) = Len(more) + 1
      /\ \A i \in 1 .. Len(new) : new[i] = batch[i].msg /\ batch[i] \in Genuine(Peer(e))
  BY <1>5, MessagesOfPackets
<1>7. ASSUME NEW i \in 1 .. Len(new) PROVE new[i] \in all /\ Rank(s, new[i]) = c + (i - 1)
  <2>1. Stream(batch[i].kind) = "ordered" /\ Rank(s, batch[i].msg) = c + (i - 1)
    <3>1. CASE i = 1
      BY <1>3, <1>5, <3>1
    <3>2. CASE i # 1
      <4>1. i - 1 \in 1 .. Len(more) /\ (i - 1) + 1 = i
        BY <1>5, <1>6, <3>2
      <4>2. batch[i] = more[i - 1] /\ more[i - 1] \in list
        BY <1>5, <4>1
      <4> QED
        BY <1>3, <4>1, <4>2 DEF OnceInv
    <3> QED
      BY <3>1, <3>2
  <2>2. batch[i].msg \in 1 .. Len(s) /\ batch[i].kind = s[batch[i].msg]
    BY <1>6 DEF Genuine
  <2> QED
    BY <1>6, <2>1, <2>2 DEF Of, Positions
<1>8. arrived' = [arrived EXCEPT ![e] = @ \o new]
  BY <1>4 DEF Deliver, Messages
<1>9. Arrived(e)' = Arrived(e) \cup Elements(new) /\ \A f \in Ends : f # e => Arrived(f)' = Arrived(f)
  <2>1. IsInjective(arrived[e])
    BY DEF OnceInv
  <2> QED
    BY <1>1, <1>4, <1>5, <2>1, DeliveredOnce
<1> HIDE DEF new
<1>10. Len(new) \in Nat \ {0} /\ Len(new) \in 1 .. Len(new) /\ Elements(new) \subseteq all
  BY <1>5, <1>6, <1>7 DEF Elements
<1>11. all \subseteq Nat \ {0} /\ \A m \in all : Stream(s[m]) = "ordered"
  BY <1>1, OfFinite
<1>12. \A m, n \in all : /\ Rank(s, m) \in Nat
                         /\ m < n <=> Rank(s, m) < Rank(s, n)
                         /\ m = n <=> Rank(s, m) = Rank(s, n)
  BY <1>11, RankGrows
<1> HIDE DEF all, c, s
<1>13. \A i, j \in 1 .. Len(new) : i < j => new[i] < new[j]
  <2>1. ASSUME NEW i \in 1 .. Len(new), NEW j \in 1 .. Len(new), i < j PROVE new[i] < new[j]
    <3>1. c + (i - 1) < c + (j - 1)
      BY <1>3, <1>10, <2>1
    <3> QED
      BY <1>7, <1>12, <3>1
  <2> QED
    BY <2>1
<1>14. top \in all /\ Rank(s, top) = c + (Len(new) - 1)
  BY <1>7, <1>10
<1>15. top \notin Arrived(e)
  BY <1>5, <1>10 DEF Elements
<1> HIDE DEF top
<1>16. ASSUME NEW n \in ArrivedOf(e, "ordered") \cup Elements(new) PROVE n \in all /\ n <= top
  <2>1. CASE n \in ArrivedOf(e, "ordered")
    <3>1. n < top
      BY <1>1, <1>14, <1>15, <2>1, OrderedWindow DEF all
    <3> QED
      BY <1>11, <1>14, <2>1, <3>1 DEF ArrivedOf, all
  <2>2. CASE n \in Elements(new)
    <3>1. PICK i \in 1 .. Len(new) : n = new[i]
      BY <2>2 DEF Elements
    <3>2. n \in all /\ n \in Nat /\ top \in Nat
      BY <1>10, <1>11, <1>14, <2>2
    <3>3. n <= top
      <4>1. CASE i = Len(new)
        <5>1. n = top
          BY <3>1, <4>1 DEF top
        <5> QED
          BY <3>2, <5>1
      <4>2. CASE i # Len(new)
        <5>1. i < Len(new)
          BY <1>10, <4>2
        <5>2. n < top
          BY <1>10, <1>13, <3>1, <5>1 DEF top
        <5> QED
          BY <3>2, <5>2
      <4> QED
        BY <4>1, <4>2
    <3> QED
      BY <3>2, <3>3
  <2> QED
    BY <2>1, <2>2
<1>17. ASSUME NEW n \in all, n <= top PROVE n \in ArrivedOf(e, "ordered") \cup Elements(new)
  <2>1. CASE n \in Arrived(e)
    BY <2>1 DEF ArrivedOf, all
  <2>2. CASE n \notin Arrived(e)
    <3>1. Rank(s, n) >= c
      BY <1>1, <2>2, OrderedWindow DEF all, s, c
    <3>2. Rank(s, n) <= Rank(s, top)
      BY <1>11, <1>12, <1>14, <1>17
    <3> DEFINE i == Rank(s, n) - c + 1
    <3>3. i \in 1 .. Len(new) /\ c + (i - 1) = Rank(s, n)
      BY <1>3, <1>10, <1>12, <1>14, <3>1, <3>2
    <3>4. Rank(s, new[i]) = Rank(s, n) /\ new[i] \in all
      BY <1>7, <3>3
    <3>5. new[i] = n
      BY <1>12, <3>4
    <3> QED
      BY <3>3, <3>5 DEF Elements
  <2> QED
    BY <2>1, <2>2
<1>18. ArrivedOf(e, "ordered") \cup Elements(new) = {n \in all : n <= top}
  BY <1>16, <1>17
<1>19. Rank(s, top) + 1 = c + Len(new)
  BY <1>3, <1>10, <1>14
<1>20. readIndex' = [readIndex EXCEPT ![e]["ordered"] = (FirstIndex + (Rank(s, top) + 1)) % IndexRange]
  <2>1. readIndex[e]["ordered"] = (FirstIndex + c) % IndexRange
    BY DEF OrderInv, OrderOK, c
  <2>2. readIndex[e]["ordered"] \in Nat
    BY <1>1, Ranges DEF ReceiveInv, Streams, IndexSet
  <2>3. readIndex[e]["ordered"] + 1 + Len(more) = readIndex[e]["ordered"] + Len(new)
    <3> DEFINE r == readIndex[e]["ordered"]
               k == Len(more)
    <3>1. r \in Nat /\ k \in Nat /\ Len(new) = k + 1
      BY <1>5, <1>6, <2>2
    <3> HIDE DEF r, k
    <3>2. r + 1 + k = r + Len(new)
      BY <3>1
    <3> QED
      BY <3>2 DEF r, k
  <2>4. (((FirstIndex + c) % IndexRange) + Len(new)) % IndexRange = (FirstIndex + (c + Len(new))) % IndexRange
    BY <1>3, <1>10, IndexesAdd
  <2> QED
    BY <1>4, <1>19, <2>1, <2>3, <2>4
<1>21. new \in Seq(Nat)
  BY <1>5
<1>22. Len(new) \in 1 .. Rank(s, top) + 1
  BY <1>3, <1>10, <1>19
<1> QED
  BY <1>5, <1>8, <1>9, <1>10, <1>13, <1>14, <1>18, <1>20, <1>21, <1>22 DEF InTurn, HandedUp, top, all, c, s

-------------------------------------------------------------------------------
(* A packet with no order of its own, and a sequenced one.                   *)

LEMMA OneHandedUp ==
  ASSUME ReceiveInv, OnceInv, NEW e \in Ends, NEW p \in Genuine(Peer(e)),
         p.num \notin received[e], Deliver(e, <<p>>)
  PROVE  /\ HandedUp(e, <<p.msg>>)
         /\ arrived' = [arrived EXCEPT ![e] = Append(@, p.msg)]
         /\ Arrived(e)' = Arrived(e) \cup {p.msg} /\ p.msg \notin Arrived(e)
<1> DEFINE one == <<p>>
           new == <<p.msg>>
<1>1. p.msg \notin Arrived(e) /\ IsInjective(arrived[e])
  BY NewPacketNotInHand DEF OnceInv
<1>2. one \in Seq(Genuine(Peer(e))) /\ Len(one) = 1 /\ one[1] = p
  OBVIOUS
<1>3. p.msg \in Nat /\ arrived \in [Ends -> Seq(Nat)]
  BY DEF Genuine, ReceiveInv
<1>4. new \in Seq(Nat) /\ Len(new) = 1 /\ new[1] = p.msg
  BY <1>3
<1>5. Messages(one) = new
  BY <1>2, <1>4 DEF Messages
<1>6. IsInjective(new) /\ Elements(new) = {p.msg}
  <2>1. DOMAIN new = 1 .. 1
    OBVIOUS
  <2> QED
    BY <1>4, <2>1 DEF IsInjective, Elements
<1>7. Append(arrived[e], p.msg) = arrived[e] \o new
  BY <1>3
<1> HIDE DEF one, new
<1>8. /\ Arrived(e)' = Arrived(e) \cup Elements(Messages(one))
      /\ \A f \in Ends : f # e => Arrived(f)' = Arrived(f)
  BY <1>1, <1>4, <1>5, <1>6, DeliveredOnce DEF one
<1>9. arrived' = [arrived EXCEPT ![e] = @ \o new]
  BY <1>5 DEF Deliver, Messages, one
<1> QED
  BY <1>1, <1>5, <1>6, <1>7, <1>8, <1>9 DEF HandedUp, new

(* A sequenced message that is newer than all that have arrived is handed    *)
(* up, and the index that is waited for becomes that of the next.            *)
Newest(e, m) ==
  /\ HandedUp(e, <<m>>)
  /\ arrived' = [arrived EXCEPT ![e] = Append(@, m)]
  /\ Arrived(e)' = Arrived(e) \cup {m} /\ m \notin Arrived(e)
  /\ m \in Of(e, "sequenced") /\ m \notin Passed(e)
  /\ readIndex' = [readIndex EXCEPT ![e]["sequenced"] =
                     (FirstIndex + (Rank(sent[Peer(e)], m) + 1)) % IndexRange]

LEMMA SequencedTaken ==
  ASSUME LayerInv, OnceInv, SequenceInv, SequencedClose, NEW e \in Ends,
         NEW p \in Genuine(Peer(e)), InDatagram(e, p), Taking(e, p), Stream(p.kind) = "sequenced"
  PROVE  \/ Newest(e, p.msg)
         \/ p.msg \in Passed(e) /\ UNCHANGED <<readIndex, arrived>>
<1> DEFINE r == Rank(sent[Peer(e)], p.msg)
           c == Cardinality(Passed(e))
<1>1. SendInv /\ ReceiveInv
  BY DEF LayerInv
<1>2. p.num \notin received[e] /\ HandleSequenced(e, p)
  BY DEF Taking
<1>3. p.msg \in Of(e, "sequenced") /\ p.idx = (FirstIndex + r) % IndexRange
  BY DEF Genuine, Of, Positions
<1>4. c \in Nat /\ r \in Nat /\ (p.msg \in Passed(e) <=> r < c)
  BY <1>1, <1>3, PassedAreFirst, UpToMessage
<1>5. r - c \in -126 .. 127
  BY <1>2, Zenon DEF SequencedClose, InDatagram
<1>6. readIndex[e]["sequenced"] = (FirstIndex + c) % IndexRange
  BY DEF SequenceInv, SequenceOK
<1>7. NextIndex(p.idx) = (FirstIndex + (r + 1)) % IndexRange
  BY <1>3, <1>4, IndexOfNext
<1> HIDE DEF r, c
<1>8. IsOlder(p.idx, readIndex[e]["sequenced"]) <=> p.msg \in Passed(e)
  BY <1>3, <1>4, <1>5, <1>6, OlderIsOlder
<1>9. CASE p.msg \in Passed(e)
  BY <1>2, <1>8, <1>9 DEF HandleSequenced
<1>10. CASE p.msg \notin Passed(e)
  <2>1. Deliver(e, <<p>>) /\ readIndex' = [readIndex EXCEPT ![e]["sequenced"] = NextIndex(p.idx)]
    BY <1>2, <1>8, <1>10 DEF HandleSequenced
  <2>2. /\ HandedUp(e, <<p.msg>>)
        /\ arrived' = [arrived EXCEPT ![e] = Append(@, p.msg)]
        /\ Arrived(e)' = Arrived(e) \cup {p.msg} /\ p.msg \notin Arrived(e)
    BY <1>1, <1>2, <2>1, OneHandedUp
  <2>3. readIndex' = [readIndex EXCEPT ![e]["sequenced"] = (FirstIndex + (r + 1)) % IndexRange]
    BY <1>7, <2>1
  <2> QED
    BY <1>3, <1>10, <2>2, <2>3 DEF Newest, r
<1> QED
  BY <1>9, <1>10

(* What a packet whose number is new does to what has arrived.               *)
LEMMA TakenCases ==
  ASSUME LayerInv, OnceInv, OrderInv, SequenceInv, WithinIndexRange, NEW e \in Ends,
         NEW p \in Genuine(Peer(e)), InDatagram(e, p), Taking(e, p)
  PROVE  \/ Stream(p.kind) = "ordered" /\ \E new \in Seq(Nat) : InTurn(e, new)
         \/ Stream(p.kind) = "sequenced" /\ Newest(e, p.msg)
         \/ /\ Stream(p.kind) = "none" /\ HandedUp(e, <<p.msg>>)
            /\ arrived' = [arrived EXCEPT ![e] = Append(@, p.msg)]
            /\ Arrived(e)' = Arrived(e) \cup {p.msg} /\ p.msg \notin Arrived(e)
            /\ readIndex' = readIndex
         \/ /\ UNCHANGED <<readIndex, arrived>>
            /\ Stream(p.kind) = "ordered" \/ (Stream(p.kind) = "sequenced" /\ p.msg \in Passed(e))
<1>1. ReceiveInv /\ OrderedClose /\ SequencedClose
  BY DEF LayerInv, WithinIndexRange
<1>2. CASE Stream(p.kind) = "ordered"
  <2>1. HandleOrdered(e, p)
    BY <1>2 DEF Taking
  <2>2. CASE readIndex[e]["ordered"] = p.idx
    BY <1>1, <1>2, <2>2, OrderedBatch
  <2>3. CASE readIndex[e]["ordered"] # p.idx
    BY <1>2, <2>1, <2>3 DEF HandleOrdered
  <2> QED
    BY <2>2, <2>3
<1>3. CASE Stream(p.kind) = "sequenced"
  BY <1>1, <1>3, SequencedTaken
<1>4. CASE Stream(p.kind) = "none"
  <2>1. p.num \notin received[e] /\ Deliver(e, <<p>>) /\ readIndex' = readIndex
    BY <1>4 DEF Taking, HandlePlain
  <2>2. /\ HandedUp(e, <<p.msg>>)
        /\ arrived' = [arrived EXCEPT ![e] = Append(@, p.msg)]
        /\ Arrived(e)' = Arrived(e) \cup {p.msg} /\ p.msg \notin Arrived(e)
    BY <1>1, <2>1, OneHandedUp
  <2> QED
    BY <1>4, <2>1, <2>2
<1> QED
  BY <1>2, <1>3, <1>4 DEF Taking

-------------------------------------------------------------------------------
(* The order is kept.                                                       *)

(* What is sent meanwhile comes after what has arrived.                      *)
LEMMA SentLater ==
  ASSUME SendInv, OnceInv, Quiet \/ Sending \/ GivingUp \/ Arriving, NEW e \in Ends, NEW stream
  PROVE  /\ Of(e, stream) \subseteq Of(e, stream)'
         /\ \A m \in Of(e, stream)' : \A n \in Arrived(e) : m <= n => m \in Of(e, stream)
         /\ \A m \in Of(e, stream)' : m \in 1 .. Len(sent[Peer(e)]) => m \in Of(e, stream)
         /\ UNCHANGED receiveVars
              => Arrived(e)' = Arrived(e) /\ ArrivedOf(e, stream)' = ArrivedOf(e, stream)
<1> DEFINE s == sent[Peer(e)]
           r == sent'[Peer(e)]
<1>1. /\ Len(s) \in Nat /\ Len(r) \in Nat /\ Len(s) <= Len(r)
      /\ \A i \in 1 .. Len(s) : r[i] = s[i]
  BY SentGrows, PeerOfPeer
<1>2. /\ Of(e, stream) = {i \in 1 .. Len(s) : Stream(s[i]) = stream}
      /\ Of(e, stream)' = {i \in 1 .. Len(r) : Stream(r[i]) = stream}
  BY DEF Of, Positions
<1> HIDE DEF s, r
<1>3. Of(e, stream) \subseteq Of(e, stream)'
  BY <1>1, <1>2
<1>4. \A m \in Of(e, stream)' : m \in 1 .. Len(s) => m \in Of(e, stream)
  BY <1>1, <1>2
<1>5. \A n \in Arrived(e) : n \in 1 .. Len(s)
  BY DEF OnceInv, s
<1>6. \A m \in Of(e, stream)' : \A n \in Arrived(e) : m <= n => m \in Of(e, stream)
  <2>1. ASSUME NEW m \in Of(e, stream)', NEW n \in Arrived(e), m <= n PROVE m \in 1 .. Len(s)
    BY <1>1, <1>2, <1>5, <2>1
  <2> QED
    BY <1>4, <2>1
<1>7. ASSUME UNCHANGED receiveVars
      PROVE  Arrived(e)' = Arrived(e) /\ ArrivedOf(e, stream)' = ArrivedOf(e, stream)
  <2>1. Arrived(e)' = Arrived(e)
    BY <1>7 DEF Arrived, receiveVars
  <2>2. \A n \in Arrived(e) : n <= n
    BY <1>1, <1>5
  <2> QED
    BY <1>3, <1>6, <2>1, <2>2 DEF ArrivedOf
<1> QED
  BY <1>3, <1>4, <1>6, <1>7 DEF s

LEMMA OrderOKSame ==
  ASSUME SendInv, OnceInv, Quiet \/ Sending \/ GivingUp \/ Arriving, NEW e \in Ends, OrderOK(e),
         ArrivedOf(e, "ordered")' = ArrivedOf(e, "ordered"),
         readIndex'[e]["ordered"] = readIndex[e]["ordered"]
  PROVE  OrderOK(e)'
<1>1. /\ Of(e, "ordered") \subseteq Of(e, "ordered")'
      /\ \A m \in Of(e, "ordered")' : \A n \in Arrived(e) : m <= n => m \in Of(e, "ordered")
  BY SentLater
<1>2. Of(e, "ordered")' \subseteq Nat
  BY DEF Of, Positions
<1>3. ASSUME NEW m \in Of(e, "ordered")', NEW n \in Of(e, "ordered")', m < n, n \in Arrived(e)'
      PROVE  m \in Arrived(e)'
  <2>1. n \in ArrivedOf(e, "ordered")
    BY <1>3 DEF ArrivedOf
  <2>2. m \in Of(e, "ordered")
    BY <1>1, <1>2, <1>3, <2>1 DEF ArrivedOf
  <2>3. m \in ArrivedOf(e, "ordered")
    BY <1>3, <2>1, <2>2 DEF ArrivedOf, OrderOK
  <2> QED
    BY <2>3 DEF ArrivedOf
<1> QED
  BY <1>3 DEF OrderOK

LEMMA OrderKept ==
  ASSUME LayerInv, OnceInv, OrderInv, SequenceInv, WithinIndexRange, [Next]_vars
  PROVE  OrderInv'
<1>1. Quiet \/ Sending \/ GivingUp \/ Arriving
  BY StepOfPrograms
<1>2. SendInv /\ ReceiveInv
  BY DEF LayerInv
<1>3. \A e \in Ends : OrderOK(e)
  BY DEF OrderInv
<1>4. SUFFICES \A e \in Ends : OrderOK(e)'
  BY DEF OrderInv
<1>5. CASE UNCHANGED receiveVars
  <2>1. ASSUME NEW e \in Ends
        PROVE  /\ ArrivedOf(e, "ordered")' = ArrivedOf(e, "ordered")
               /\ readIndex'[e]["ordered"] = readIndex[e]["ordered"]
    BY <1>1, <1>2, <1>5, SentLater DEF receiveVars
  <2> QED
    BY <1>1, <1>2, <1>3, <2>1, OrderOKSame
<1>6. CASE Arriving
  <2>1. sent' = sent
    BY <1>6 DEF Arriving
  <2>2. \A f, stream : Of(f, stream)' = Of(f, stream)
    BY <2>1 DEF Of
  <2>3. PICK e \in Ends : \E p \in Genuine(Peer(e)) : InDatagram(e, p) /\ Taking(e, p)
    BY <1>6 DEF Arriving
  <2>4. PICK p \in Genuine(Peer(e)) : InDatagram(e, p) /\ Taking(e, p)
    BY <2>3
  <2>5. p.msg \in Of(e, Stream(p.kind)) /\ \A s : p.msg \in Of(e, s) => s = Stream(p.kind)
    BY DEF Genuine, Of, Positions
  <2>6. readIndex \in [Ends -> [Streams -> IndexSet]]
    BY <1>2 DEF ReceiveInv
  <2>7. CASE \E new \in Seq(Nat) : InTurn(e, new)
    <3>1. PICK new \in Seq(Nat) : InTurn(e, new)
      BY <2>7
    <3> DEFINE top == new[Len(new)]
               s == sent[Peer(e)]
               all == Of(e, "ordered")
    <3>2. /\ Arrived(e)' = Arrived(e) \cup Elements(new)
          /\ \A f \in Ends : f # e => Arrived(f)' = Arrived(f)
          /\ \A m \in Elements(new) : m \in all
          /\ top \in all
          /\ ArrivedOf(e, "ordered") \cup Elements(new) = {n \in all : n <= top}
          /\ readIndex' = [readIndex EXCEPT ![e]["ordered"] = (FirstIndex + (Rank(s, top) + 1)) % IndexRange]
      BY <3>1 DEF InTurn, HandedUp
    <3>3. Cardinality({n \in all : n <= top}) = Rank(s, top) + 1
      BY <1>2, <3>2, UpToMessage
    <3>4. all \subseteq Nat
      BY <1>2, OfFinite
    <3> HIDE DEF top, s, all
    <3>5. ArrivedOf(e, "ordered")' = {n \in all : n <= top}
      BY <2>2, <3>2 DEF ArrivedOf, all
    <3>6. readIndex'[e]["ordered"] = (FirstIndex + (Rank(s, top) + 1)) % IndexRange
      BY <2>6, <3>2 DEF Streams
    <3>7. \A m, n \in all : m < n /\ n \in Arrived(e)' => m \in Arrived(e)'
      <4>1. ASSUME NEW m \in all, NEW n \in all, m < n, n \in Arrived(e)'
            PROVE  m \in Arrived(e)'
        <5>1. n \in ArrivedOf(e, "ordered")'
          BY <2>2, <4>1 DEF ArrivedOf, all
        <5>2. m <= top
          BY <3>2, <3>4, <3>5, <4>1, <5>1
        <5> QED
          BY <3>5, <5>2 DEF ArrivedOf
      <4> QED
        BY <4>1
    <3>8. OrderOK(e)'
      BY <2>2, <3>3, <3>5, <3>6, <3>7 DEF OrderOK, all
    <3>9. ASSUME NEW f \in Ends, f # e PROVE OrderOK(f)'
      <4>1. readIndex'[f] = readIndex[f] /\ Arrived(f)' = Arrived(f)
        BY <2>6, <3>2, <3>9
      <4> QED
        BY <1>3, <2>2, <4>1 DEF OrderOK, ArrivedOf
    <3> QED
      BY <3>8, <3>9
  <2>8. CASE /\ Stream(p.kind) # "ordered" /\ HandedUp(e, <<p.msg>>)
             /\ Arrived(e)' = Arrived(e) \cup {p.msg}
             /\ \A f \in Ends : readIndex'[f]["ordered"] = readIndex[f]["ordered"]
    <3>1. \A f \in Ends : f # e => Arrived(f)' = Arrived(f)
      BY <2>8 DEF HandedUp
    <3>2. ASSUME NEW f \in Ends PROVE ArrivedOf(f, "ordered")' = ArrivedOf(f, "ordered")
      <4>1. CASE f = e
        BY <2>2, <2>5, <2>8, <4>1 DEF ArrivedOf
      <4>2. CASE f # e
        BY <2>2, <3>1, <4>2 DEF ArrivedOf
      <4> QED
        BY <4>1, <4>2
    <3> QED
      BY <1>1, <1>2, <1>3, <2>8, <3>2, OrderOKSame
  <2>9. CASE UNCHANGED <<readIndex, arrived>>
    <3>1. \A f : Arrived(f)' = Arrived(f)
      BY <2>9 DEF Arrived
    <3>2. \A f \in Ends : ArrivedOf(f, "ordered")' = ArrivedOf(f, "ordered")
      BY <2>2, <3>1 DEF ArrivedOf
    <3> QED
      BY <1>1, <1>2, <1>3, <2>9, <3>2, OrderOKSame
  <2>10. CASE Newest(e, p.msg) /\ Stream(p.kind) = "sequenced"
    <3>1. \A f \in Ends : readIndex'[f]["ordered"] = readIndex[f]["ordered"]
      <4> DEFINE v == (FirstIndex + (Rank(sent[Peer(e)], p.msg) + 1)) % IndexRange
      <4>1. readIndex' = [readIndex EXCEPT ![e]["sequenced"] = v]
        BY <2>10 DEF Newest
      <4> HIDE DEF v
      <4> QED
        BY <2>6, <4>1 DEF Streams
    <3> QED
      BY <2>8, <2>10, <3>1 DEF Newest
  <2>11. CASE /\ Stream(p.kind) = "none" /\ HandedUp(e, <<p.msg>>)
              /\ Arrived(e)' = Arrived(e) \cup {p.msg}
              /\ readIndex' = readIndex
    BY <2>8, <2>11
  <2> QED
    BY <2>4, <2>7, <2>9, <2>10, <2>11, TakenCases
<1> QED
  BY <1>1, <1>5, <1>6 DEF Quiet, Sending, GivingUp

LEMMA SequenceOKSame ==
  ASSUME LayerInv, LayerInv', OnceInv, Quiet \/ Sending \/ GivingUp \/ Arriving,
         NEW e \in Ends, SequenceOK(e),
         ArrivedOf(e, "sequenced")' = ArrivedOf(e, "sequenced"),
         readIndex'[e]["sequenced"] = readIndex[e]["sequenced"],
         \A m \in Of(e, "sequenced")' :
           NumberOf(m) \in received'[e] => NumberOf(m) \in received[e] \/ m \in Passed(e)
  PROVE  SequenceOK(e)'
<1> DEFINE all == Of(e, "sequenced")
           s == sent[Peer(e)]
<1>1. SendInv /\ ReceiveInv /\ SendInv'
  BY DEF LayerInv
<1>2. /\ all \subseteq all'
      /\ \A m \in all' : \A n \in Arrived(e) : m <= n => m \in all
      /\ \A m \in all' : m \in 1 .. Len(s) => m \in all
  BY <1>1, SentLater
<1>3. Passed(e)' = Passed(e)
  BY <1>2 DEF Passed, ArrivedOf
<1>4. ASSUME NEW m \in all', NumberOf(m) \in received[e] PROVE m \in Passed(e)
  <2>1. PICK n \in 1 .. Len(s) : NumberOf(m) = NumberOf(n)
    BY <1>1, <1>4 DEF ReceiveInv
  <2>2. Len(s) \in Nat /\ Len(s) <= LogLength
    BY <1>1, PeerOfPeer, LenProperties DEF SendInv
  <2>3. m \in 1 .. Len(sent'[Peer(e)])
    BY DEF Of, Positions
  <2>4. Len(sent'[Peer(e)]) \in Nat /\ Len(sent'[Peer(e)]) <= LogLength
    <3>1. sent' \in [Ends -> Seq(Kinds)] /\ Len(sent'[Peer(e)]) <= LogLength
      BY <1>1, PeerOfPeer DEF SendInv
    <3> QED
      BY <3>1, PeerOfPeer, LenProperties
  <2>5. m = n
    <3> HIDE DEF s
    <3>1. m \in Nat \ {0} /\ n \in Nat \ {0} /\ m <= LogLength /\ n <= LogLength
      BY <2>1, <2>2, <2>3, <2>4, Ranges
    <3> QED
      BY <2>1, <3>1, NumberIsOwn
  <2>6. m \in all
    BY <1>2, <2>1, <2>5
  <2> QED
    BY <1>4, <2>6 DEF SequenceOK
<1>5. \A m \in all' : NumberOf(m) \in received'[e] => m \in Passed(e)
  BY <1>4
<1>6. \A m : NumberOf(m)' = NumberOf(m)
  BY DEF NumberOf
<1> QED
  BY <1>3, <1>5, <1>6 DEF SequenceOK

LEMMA SequenceKept ==
  ASSUME LayerInv, LayerInv', OnceInv, OrderInv, SequenceInv, WithinIndexRange, [Next]_vars
  PROVE  SequenceInv'
<1>1. Quiet \/ Sending \/ GivingUp \/ Arriving
  BY StepOfPrograms
<1>2. SendInv /\ ReceiveInv
  BY DEF LayerInv
<1>3. \A e \in Ends : SequenceOK(e)
  BY DEF SequenceInv
<1>4. SUFFICES \A e \in Ends : SequenceOK(e)'
  BY DEF SequenceInv
<1>5. CASE UNCHANGED receiveVars
  <2>1. ASSUME NEW e \in Ends
        PROVE  /\ ArrivedOf(e, "sequenced")' = ArrivedOf(e, "sequenced")
               /\ readIndex'[e]["sequenced"] = readIndex[e]["sequenced"]
               /\ received'[e] = received[e]
    BY <1>1, <1>2, <1>5, SentLater DEF receiveVars
  <2> QED
    BY <1>1, <1>3, <2>1, SequenceOKSame
<1>6. CASE Arriving
  <2>1. sent' = sent
    BY <1>6 DEF Arriving
  <2>2. \A f, stream : Of(f, stream)' = Of(f, stream)
    BY <2>1 DEF Of
  <2>3. PICK e \in Ends : \E p \in Genuine(Peer(e)) : InDatagram(e, p) /\ Taking(e, p)
    BY <1>6 DEF Arriving
  <2>4. PICK p \in Genuine(Peer(e)) : InDatagram(e, p) /\ Taking(e, p)
    BY <2>3
  <2>5. p.msg \in Of(e, Stream(p.kind)) /\ \A s : p.msg \in Of(e, s) => s = Stream(p.kind)
    BY DEF Genuine, Of, Positions
  <2>6. readIndex \in [Ends -> [Streams -> IndexSet]]
    BY <1>2 DEF ReceiveInv
  <2>7. ASSUME NEW f \in Ends, NEW m \in Of(f, "sequenced")', NumberOf(m) \in received'[f]
        PROVE  NumberOf(m) \in received[f] \/ (f = e /\ m = p.msg)
    <3>1. received' = [received EXCEPT ![e] = @ \cup {p.num}] /\ p.num = NumberOf(p.msg)
      BY <2>4 DEF Taking, Genuine
    <3>2. CASE f = e /\ NumberOf(m) = NumberOf(p.msg)
      <4>1. m \in 1 .. Len(sent[Peer(e)]) /\ p.msg \in 1 .. Len(sent[Peer(e)])
        <5>1. m \in Of(e, "sequenced")
          BY <2>2, <3>2
        <5> QED
          BY <2>5, <5>1 DEF Of, Positions
      <4>2. Len(sent[Peer(e)]) \in Nat /\ Len(sent[Peer(e)]) <= LogLength
        BY <1>2, PeerOfPeer, LenProperties DEF SendInv
      <4>3. m \in Nat \ {0} /\ p.msg \in Nat \ {0} /\ m <= LogLength /\ p.msg <= LogLength
        BY <4>1, <4>2, Ranges
      <4> QED
        BY <3>2, <4>3, NumberIsOwn
    <3> QED
      BY <1>2, <2>7, <3>1, <3>2 DEF ReceiveInv
  <2>8. CASE /\ Stream(p.kind) # "sequenced" \/ p.msg \in Passed(e)
             /\ \A f \in Ends : /\ ArrivedOf(f, "sequenced")' = ArrivedOf(f, "sequenced")
                                /\ readIndex'[f]["sequenced"] = readIndex[f]["sequenced"]
    <3>1. ASSUME NEW f \in Ends, NEW m \in Of(f, "sequenced")', NumberOf(m) \in received'[f]
          PROVE  NumberOf(m) \in received[f] \/ m \in Passed(f)
      BY <2>2, <2>5, <2>7, <2>8, <3>1
    <3> QED
      BY <1>1, <1>3, <2>8, <3>1, SequenceOKSame
  <2>9. CASE \E new \in Seq(Nat) : InTurn(e, new) /\ Stream(p.kind) = "ordered"
    <3>1. PICK new \in Seq(Nat) : InTurn(e, new) /\ Stream(p.kind) = "ordered"
      BY <2>9
    <3> DEFINE v == (FirstIndex + (Rank(sent[Peer(e)], new[Len(new)]) + 1)) % IndexRange
    <3>2. /\ Arrived(e)' = Arrived(e) \cup Elements(new)
          /\ \A f \in Ends : f # e => Arrived(f)' = Arrived(f)
          /\ \A m \in Elements(new) : m \in Of(e, "ordered")
          /\ readIndex' = [readIndex EXCEPT ![e]["ordered"] = v]
      BY <3>1 DEF InTurn, HandedUp
    <3> HIDE DEF v
    <3>3. \A f \in Ends : readIndex'[f]["sequenced"] = readIndex[f]["sequenced"]
      BY <2>6, <3>2 DEF Streams
    <3>4. \A m \in Of(e, "ordered") : m \notin Of(e, "sequenced")
      BY DEF Of, Positions
    <3>5. \A f \in Ends : ArrivedOf(f, "sequenced")' = ArrivedOf(f, "sequenced")
      BY <2>2, <3>2, <3>4 DEF ArrivedOf
    <3> QED
      BY <2>8, <3>1, <3>3, <3>5
  <2>10. CASE /\ Stream(p.kind) = "none" /\ HandedUp(e, <<p.msg>>)
              /\ Arrived(e)' = Arrived(e) \cup {p.msg}
              /\ readIndex' = readIndex
    <3>1. \A f \in Ends : f # e => Arrived(f)' = Arrived(f)
      BY <2>10 DEF HandedUp
    <3>2. \A f \in Ends : ArrivedOf(f, "sequenced")' = ArrivedOf(f, "sequenced")
      BY <2>2, <2>5, <2>10, <3>1 DEF ArrivedOf
    <3> QED
      BY <2>8, <2>10, <3>2
  <2>11. CASE /\ UNCHANGED <<readIndex, arrived>>
              /\ Stream(p.kind) = "ordered" \/ (Stream(p.kind) = "sequenced" /\ p.msg \in Passed(e))
    <3>1. \A f : Arrived(f)' = Arrived(f)
      BY <2>11 DEF Arrived
    <3>2. \A f \in Ends : ArrivedOf(f, "sequenced")' = ArrivedOf(f, "sequenced")
      BY <2>2, <3>1 DEF ArrivedOf
    <3> QED
      BY <2>8, <2>11, <3>2
  <2>12. CASE Newest(e, p.msg)
    <3> DEFINE m == p.msg
               all == Of(e, "sequenced")
               v == (FirstIndex + (Rank(sent[Peer(e)], m) + 1)) % IndexRange
    <3>1. /\ Arrived(e)' = Arrived(e) \cup {m}
          /\ \A f \in Ends : f # e => Arrived(f)' = Arrived(f)
          /\ m \in all /\ m \notin Passed(e)
          /\ readIndex' = [readIndex EXCEPT ![e]["sequenced"] = v]
      BY <2>12 DEF Newest, HandedUp
    <3>2. Cardinality({n \in all : n <= m}) = Rank(sent[Peer(e)], m) + 1 /\ all \subseteq Nat \ {0}
      BY <1>2, <3>1, UpToMessage, OfFinite
    <3>3. Passed(e)' = {n \in all : n <= m}
      <4>1. ASSUME NEW n \in Passed(e)' PROVE n \in all /\ n <= m
        <5>1. n \in all
          BY <2>2, <4>1 DEF Passed
        <5>2. PICK a \in ArrivedOf(e, "sequenced")' : n <= a
          BY <4>1 DEF Passed
        <5>3. a \in all /\ (a = m \/ a \in Arrived(e))
          BY <2>2, <3>1, <5>2 DEF ArrivedOf
        <5>4. CASE a = m
          BY <5>1, <5>2, <5>4
        <5>5. CASE a \in Arrived(e)
          <6>1. ~(m <= a)
            BY <3>1, <5>3, <5>5 DEF Passed, ArrivedOf
          <6>2. n \in Nat /\ a \in Nat /\ m \in Nat
            BY <3>1, <3>2, <5>1, <5>3
          <6> HIDE DEF m
          <6> QED
            BY <5>1, <5>2, <6>1, <6>2
        <5> QED
          BY <5>3, <5>4, <5>5
      <4>2. ASSUME NEW n \in all, n <= m PROVE n \in Passed(e)'
        <5>1. m \in ArrivedOf(e, "sequenced")'
          BY <2>2, <3>1 DEF ArrivedOf
        <5> QED
          BY <2>2, <4>2, <5>1 DEF Passed
      <4> QED
        BY <4>1, <4>2
    <3>4. readIndex'[e]["sequenced"] = v
      <4> HIDE DEF v
      <4> QED
        BY <2>6, <3>1 DEF Streams
    <3>5. \A n \in all : NumberOf(n) \in received'[e] => n \in Passed(e)'
      <4>1. ASSUME NEW n \in all, NumberOf(n) \in received'[e] PROVE n \in Passed(e)'
        <5>1. CASE NumberOf(n) \in received[e]
          <6>1. n \in Passed(e)
            BY <1>3, <5>1 DEF SequenceOK
          <6>2. PICK a \in ArrivedOf(e, "sequenced") : n <= a
            BY <6>1 DEF Passed
          <6>3. a \in ArrivedOf(e, "sequenced")'
            BY <2>2, <3>1 DEF ArrivedOf
          <6> QED
            BY <2>2, <6>2, <6>3 DEF Passed
        <5>2. CASE n = m
          BY <3>1, <3>2, <3>3, <5>2
        <5> QED
          BY <2>2, <2>7, <4>1, <5>1, <5>2
      <4> QED
        BY <4>1
    <3>6. SequenceOK(e)'
      <4>1. \A n : NumberOf(n)' = NumberOf(n)
        BY DEF NumberOf
      <4> QED
        BY <2>2, <3>2, <3>3, <3>4, <3>5, <4>1 DEF SequenceOK
    <3>7. ASSUME NEW f \in Ends, f # e PROVE SequenceOK(f)'
      <4>1. ArrivedOf(f, "sequenced")' = ArrivedOf(f, "sequenced")
        BY <2>2, <3>1, <3>7 DEF ArrivedOf
      <4>2. readIndex'[f]["sequenced"] = readIndex[f]["sequenced"]
        BY <2>6, <3>1, <3>7
      <4>3. \A n \in Of(f, "sequenced")' : NumberOf(n) \in received'[f] => NumberOf(n) \in received[f]
        BY <2>7, <3>7
      <4> QED
        BY <1>1, <1>3, <4>1, <4>2, <4>3, SequenceOKSame
    <3> QED
      BY <3>6, <3>7
  <2> QED
    BY <2>4, <2>9, <2>10, <2>11, <2>12, TakenCases
<1> QED
  BY <1>1, <1>5, <1>6 DEF Quiet, Sending, GivingUp

(* The streams stay in order as long as the indexes can tell their messages  *)
(* apart.                                                                   *)
LEMMA OrderHolds ==
  ASSUME OneThread, ShortScripts
  PROVE  Spec /\ []WithinIndexRange => [](OrderInv /\ SequenceInv)
<1>1. Init => OrderInv /\ SequenceInv
  <2>1. SUFFICES ASSUME Init, NEW e \in Ends PROVE OrderOK(e) /\ SequenceOK(e)
    BY DEF OrderInv, SequenceInv
  <2>2. Of(e, "ordered") = {} /\ Of(e, "sequenced") = {}
    BY <2>1, PeerOfPeer DEF Init, Of, Positions
  <2>3. ArrivedOf(e, "ordered") = {} /\ Passed(e) = {}
    BY <2>2 DEF ArrivedOf, Passed
  <2>4. Cardinality({}) = 0
    BY FS_EmptySet
  <2>5. FirstIndex % IndexRange = FirstIndex /\ FirstIndex + 0 = FirstIndex
    BY IndexAssumption, Ranges
  <2>6. \A s \in Streams : readIndex[e][s] = FirstIndex
    BY <2>1 DEF Init
  <2> QED
    BY <2>2, <2>3, <2>4, <2>5, <2>6 DEF OrderOK, SequenceOK, Streams
<1>2. LayerInv /\ LayerInv' /\ OnceInv /\ WithinIndexRange /\ OrderInv /\ SequenceInv /\ [Next]_vars
        => OrderInv' /\ SequenceInv'
  BY OrderKept, SequenceKept
<1> QED
  BY <1>1, <1>2, LayerInvHolds, OnceHolds, PTL DEF Spec

-------------------------------------------------------------------------------
(* The layer implements MessageChannel.                                     *)

LEMMA RankIsBefore ==
  ASSUME NEW s, NEW m \in Nat \ {0}
  PROVE  Rank(s, m) \in Nat /\ Rank(s, m) + 1 <= m
<1>1. m - 1 \in Nat /\ IsFiniteSet(1 .. m - 1) /\ Cardinality(1 .. m - 1) = m - 1
  <2>1. m - 1 \in Nat /\ 1 \in Int /\ m - 1 \in Int
    OBVIOUS
  <2>2. IsFiniteSet(1 .. m - 1) /\ Cardinality(1 .. m - 1) = IF 1 > m - 1 THEN 0 ELSE m - 1 - 1 + 1
    BY <2>1, FS_Interval
  <2> QED
    BY <2>1, <2>2
<1>2. Positions(s, Stream(s[m]), m - 1) \subseteq 1 .. m - 1
  BY DEF Positions
<1>3. Rank(s, m) \in Nat /\ Rank(s, m) <= m - 1
  BY <1>1, <1>2, FS_Subset, PositionsFinite DEF Rank
<1> QED
  BY <1>3

LEMMA SameNames ==
  /\ \A e : Channel!Peer(e) = Peer(e) /\ Channel!Arrived(e) = Arrived(e)
  /\ \A e : Channel!Messages(e) = 1 .. Len(sent[Peer(e)])
  /\ \A e, m : Channel!KindAt(e, m) = sent[Peer(e)][m]
  /\ \A k : (Channel!Ordered(k) <=> Stream(k) = "ordered") /\ (Channel!Sequenced(k) <=> Stream(k) = "sequenced")
  /\ \A f : Channel!Range(f) = Range(f)
<1>1. \A e : Channel!Peer(e) = Peer(e)
  BY DEF Channel!Peer, Peer
<1>2. \A e : Channel!Arrived(e) = Arrived(e)
  BY DEF Channel!Arrived, Arrived
<1>3. \A k : (Channel!Ordered(k) <=> Stream(k) = "ordered") /\ (Channel!Sequenced(k) <=> Stream(k) = "sequenced")
  BY DEF Channel!Ordered, Channel!Sequenced, Stream, Sequenced
<1> QED
  BY <1>1, <1>2, <1>3 DEF Channel!Messages, Channel!KindAt, Channel!Range, Range

LEMMA OrderedStep ==
  ASSUME LayerInv, sent' = sent, dead' = dead, NEW e \in Ends, NEW new \in Seq(Nat), InTurn(e, new)
  PROVE  Channel!Next
<1> DEFINE s == sent[Peer(e)]
           all == Of(e, "ordered")
           top == new[Len(new)]
<1>1. SendInv
  BY DEF LayerInv
<1>2. /\ arrived' = [arrived EXCEPT ![e] = @ \o new]
      /\ \A m \in Elements(new) : m \notin Arrived(e) /\ m \in all
      /\ Len(new) \in 1 .. Rank(s, top) + 1 /\ top \in all
      /\ \A i, j \in 1 .. Len(new) : i < j => new[i] < new[j]
      /\ ArrivedOf(e, "ordered") \cup Elements(new) = {n \in all : n <= top}
  BY DEF InTurn, HandedUp
<1>3. all = {n \in 1 .. Len(s) : Stream(s[n]) = "ordered"} /\ Len(s) \in Nat
  <2>1. Len(s) \in Nat
    BY <1>1, PeerOfPeer, LenProperties DEF SendInv
  <2> QED
    BY <2>1 DEF Of, Positions
<1>4. DOMAIN new = 1 .. Len(new) /\ Len(new) \in Nat
  BY LenProperties
<1> HIDE DEF s, all, top
<1>5. Len(new) \in 1 .. Len(s)
  <2>1. top \in Nat \ {0} /\ top <= Len(s)
    BY <1>2, <1>3
  <2>2. Rank(s, top) \in Nat /\ Rank(s, top) + 1 <= top
    BY <2>1, RankIsBefore
  <2> QED
    BY <1>2, <1>3, <1>4, <2>1, <2>2
<1>6. \A i \in 1 .. Len(new) : new[i] \in Elements(new)
  BY DEF Elements
<1>7. new \in [1 .. Len(new) -> 1 .. Len(s)]
  <2>1. \A i \in 1 .. Len(new) : new[i] \in 1 .. Len(s)
    BY <1>2, <1>3, <1>6
  <2>2. new = [i \in 1 .. Len(new) |-> new[i]]
    BY <1>4
  <2> QED
    BY <2>1, <2>2
<1>8. ASSUME NEW i \in 1 .. Len(new), NEW n \in 1 .. Len(s), n < new[i], Stream(s[n]) = "ordered"
      PROVE  n \in Arrived(e) \cup Range(new)
  <2>1. n \in all /\ new[i] <= top /\ new[i] \in all
    BY <1>2, <1>3, <1>6, <1>8
  <2>2. n \in Nat /\ new[i] \in Nat /\ top \in Nat
    BY <1>2, <1>3, <2>1
  <2>3. n \in ArrivedOf(e, "ordered") \cup Elements(new)
    BY <1>2, <1>8, <2>1, <2>2
  <2> QED
    BY <1>4, <2>3 DEF ArrivedOf, Elements, Range
<1>9. Channel!ArriveOrdered(e, new)
  BY <1>2, <1>3, <1>4, <1>6, <1>8, SameNames DEF Channel!ArriveOrdered, s
<1> QED
  BY <1>5, <1>7, <1>9, SameNames DEF Channel!Next, s

LEMMA ChannelStep ==
  ASSUME LayerInv, OnceInv, OrderInv, SequenceInv, WithinIndexRange, [Next]_vars
  PROVE  [Channel!Next]_Channel!vars
<1>1. Quiet \/ Sending \/ GivingUp \/ Arriving
  BY StepOfPrograms
<1>2. CASE Quiet
  BY <1>2 DEF Quiet, receiveVars, Channel!vars
<1>3. CASE Sending
  BY <1>3 DEF Sending, receiveVars, Channel!Next, Channel!HandOver
<1>4. CASE GivingUp
  BY <1>4 DEF GivingUp, receiveVars, Channel!Next, Channel!GiveUp
<1>5. CASE Arriving
  <2>1. sent' = sent /\ dead' = dead
    BY <1>5 DEF Arriving
  <2>2. PICK e \in Ends : \E p \in Genuine(Peer(e)) : InDatagram(e, p) /\ Taking(e, p)
    BY <1>5 DEF Arriving
  <2>3. PICK p \in Genuine(Peer(e)) : InDatagram(e, p) /\ Taking(e, p)
    BY <2>2
  <2>4. p.msg \in 1 .. Len(sent[Peer(e)]) /\ p.kind = sent[Peer(e)][p.msg]
    BY DEF Genuine
  <2>5. CASE \E new \in Seq(Nat) : InTurn(e, new)
    BY <2>1, <2>5, OrderedStep
  <2>6. CASE Newest(e, p.msg) /\ Stream(p.kind) = "sequenced"
    <3>1. ASSUME NEW n \in Arrived(e), Stream(sent[Peer(e)][n]) = "sequenced" PROVE n < p.msg
      <4>1. n \in 1 .. Len(sent[Peer(e)])
        BY DEF OnceInv
      <4>2. n \in ArrivedOf(e, "sequenced")
        BY <3>1, <4>1 DEF ArrivedOf, Of, Positions
      <4>3. ~(p.msg <= n)
        BY <2>6, <4>2 DEF Newest, Passed
      <4> QED
        BY <2>4, <4>1, <4>3
    <3>2. Channel!Arrive(e, p.msg)
      BY <2>1, <2>4, <2>6, <3>1, SameNames DEF Channel!Arrive, Newest
    <3> QED
      BY <2>4, <3>2, SameNames DEF Channel!Next
  <2>7. CASE /\ Stream(p.kind) = "none"
             /\ arrived' = [arrived EXCEPT ![e] = Append(@, p.msg)]
             /\ p.msg \notin Arrived(e)
    <3>1. Channel!Arrive(e, p.msg)
      BY <2>1, <2>4, <2>7, SameNames DEF Channel!Arrive
    <3> QED
      BY <2>4, <3>1, SameNames DEF Channel!Next
  <2>8. CASE arrived' = arrived
    BY <2>1, <2>8 DEF Channel!vars
  <2> QED
    BY <2>3, <2>5, <2>6, <2>7, <2>8, TakenCases
<1> QED
  BY <1>1, <1>2, <1>3, <1>4, <1>5

(* As long as the eight-bit indexes can tell the messages on their way       *)
(* apart, the two programs see a channel that hands ordered messages up in   *)
(* their order with none left out, and no sequenced message after a newer    *)
(* one, until it is given up or the assertion on ordered packets (line 723)  *)
(* aborts an end: GiveUp of the channel.  Where the assertion is compiled    *)
(* out, the packet it would stop on is stored and handed up in its place     *)
(* (HandleSocketReceiveFromConnectedPlayer, ReliabilityLayer.cpp).           *)
THEOREM LayerIsChannel ==
  ASSUME OneThread, ShortScripts
  PROVE  Spec /\ []WithinIndexRange => ImplementsChannel
<1>1. Init => Channel!Init
  BY DEF Init, Channel!Init
<1>2. LayerInv /\ OnceInv /\ OrderInv /\ SequenceInv /\ WithinIndexRange /\ [Next]_vars
        => [Channel!Next]_Channel!vars
  BY ChannelStep
<1> QED
  BY <1>1, <1>2, LayerInvHolds, OnceHolds, OrderHolds, PTL DEF Spec, ImplementsChannel, Channel!Spec

-------------------------------------------------------------------------------
(* A reliable sequenced message is dropped only for a newer one.             *)

(* Of two sequenced packets that an end keeps to send again, the newer is    *)
(* less than half the range behind the older.                               *)
ResendClose ==
  \A e \in Ends : \A x, y \in Entries(resendQueue[e]) :
    x.kind = "RELIABLE_SEQUENCED" /\ y.kind = "RELIABLE_SEQUENCED"
      => Rank(sent[e], x.msg) - Rank(sent[e], y.msg) <= 127

NewestInv ==
  \A e \in Ends : \A m \in 1 .. Len(sent[Peer(e)]) :
    sent[Peer(e)][m] = "RELIABLE_SEQUENCED"
      => m \in Passed(e) \/ \E x \in Waiting(Peer(e)) : x.msg = m

(* What an end keeps is its own.                                            *)
LEMMA WaitingIsGenuine ==
  ASSUME QueueInv, NEW e \in Ends
  PROVE  Waiting(e) \subseteq Genuine(e) /\ Entries(resendQueue[e]) \subseteq Genuine(e)
<1>1. Entries(sendQueue[e]) \subseteq Genuine(e)
  BY EntriesInside DEF QueueInv
<1>2. Entries(resendQueue[e]) \subseteq Genuine(e) \cup {Hole}
  BY EntriesInside DEF QueueInv
<1> QED
  BY <1>1, <1>2 DEF Waiting, Entries

(* What becomes of what is kept.                                            *)
LEMMA WaitingStep ==
  ASSUME OneThread, ShortScripts, LayerInv, [Next]_vars, NEW e \in Ends
  PROVE  /\ \A x \in Waiting(e) : Reliable(x.kind) => x \in Waiting(e)' \/ Answered(e, x)
         /\ \A m \in 1 .. Len(sent'[e]) :
              m \in 1 .. Len(sent[e]) \/ \E x \in Waiting(e)' : x.msg = m
<1>1. CASE sent' = sent /\ sendQueue' = sendQueue /\ resendQueue' = resendQueue
  BY <1>1 DEF Waiting
<1>2. ASSUME NEW f \in Ends, NEW t \in Threads, Enqueue(f, t) PROVE Waiting(e) \subseteq Waiting(e)'
        /\ \A m \in 1 .. Len(sent'[e]) :
              m \in 1 .. Len(sent[e]) \/ \E x \in Waiting(e)' : x.msg = m
  BY <1>2, EnqueueKeeps
<1>3. ASSUME NEW f \in Ends, NEW late \in 0 .. Len(resendQueue[f]),
             NEW ackDue \in BOOLEAN, NEW lost \in BOOLEAN, Frame(f, late, ackDue, lost)
      PROVE  sent' = sent /\ \A x \in Waiting(e) : Reliable(x.kind) => x \in Waiting(e)'
  <2>1. late \in Nat
    <3>1. Len(resendQueue[f]) \in Nat
      BY LenProperties DEF LayerInv, QueueInv
    <3> QED
      BY <3>1
  <2>2. UNCHANGED <<sendVars, receiveVars, parseVars, dead>>
    BY <1>3, Zenon DEF Frame
  <2> QED
    BY <1>3, <2>1, <2>2, FrameKeeps DEF sendVars
<1>4. ASSUME NEW f \in Ends, NEW calm \in BOOLEAN, HandleAck(f, calm)
      PROVE  sent' = sent /\ \A x \in Waiting(e) : x \in Waiting(e)' \/ Answered(e, x)
  BY <1>4, HandleAckKeeps DEF HandleAck, sendVars
<1>5. CASE \E f \in Ends, t \in Threads, k \in Kinds : ReadNumber(f, t, k)
  BY <1>1, <1>5 DEF ReadNumber, queueVars
<1>6. CASE \E f \in Ends : TimeOut(f) \/ AssertFails(f)
  BY <1>1, <1>6 DEF TimeOut, AssertFails, sendVars, queueVars
<1>7. CASE \E f \in Ends, d \in net, copy \in BOOLEAN : Receive(f, d, copy)
  BY <1>1, <1>7 DEF Receive, sendVars, queueVars
<1>8. CASE \E f \in Ends, calm \in BOOLEAN : HandlePacket(f, calm)
  BY <1>1, <1>8 DEF HandlePacket, sendVars, queueVars
<1>9. CASE UNCHANGED vars
  BY <1>1, <1>9 DEF vars, sendVars, queueVars
<1> QED
  BY <1>2, <1>3, <1>4, <1>5, <1>6, <1>7, <1>8, <1>9, Zenon DEF Next

LEMMA PassedGrows ==
  ASSUME LayerInv, OnceInv, OrderInv, SequenceInv, WithinIndexRange, [Next]_vars, NEW e \in Ends
  PROVE  Passed(e) \subseteq Passed(e)'
<1>1. Quiet \/ Sending \/ GivingUp \/ Arriving
  BY StepOfPrograms
<1>2. Of(e, "sequenced") \subseteq Of(e, "sequenced")'
  BY <1>1, SentLater DEF LayerInv
<1>3. Arrived(e) \subseteq Arrived(e)'
  <2>1. CASE arrived' = arrived
    BY <2>1 DEF Arrived
  <2>2. CASE Arriving
    <3>1. PICK f \in Ends : \E p \in Genuine(Peer(f)) : InDatagram(f, p) /\ Taking(f, p)
      BY <2>2 DEF Arriving
    <3>2. PICK p \in Genuine(Peer(f)) : InDatagram(f, p) /\ Taking(f, p)
      BY <3>1
    <3>3. \/ \E new \in Seq(Nat) : HandedUp(f, new)
          \/ arrived' = arrived
      <4>1. <<p.msg>> \in Seq(Nat)
        BY DEF Genuine
      <4> QED
        BY <3>2, <4>1, TakenCases DEF InTurn, Newest
    <3> QED
      BY <2>1, <3>3 DEF HandedUp
  <2> QED
    BY <1>1, <2>1, <2>2 DEF Quiet, Sending, GivingUp, receiveVars
<1> QED
  BY <1>2, <1>3 DEF Passed, ArrivedOf

LEMMA AnsweredIsPassed ==
  ASSUME LayerInv, SequenceInv, ResendClose, NEW e \in Ends, NEW x \in Genuine(Peer(e)),
         x.kind = "RELIABLE_SEQUENCED", Answered(Peer(e), x)
  PROVE  x.msg \in Passed(e)
<1>1. Peer(e) \in Ends /\ Peer(Peer(e)) = e
  BY PeerOfPeer
<1>2. SendInv /\ QueueInv
  BY DEF LayerInv
<1>3. ASSUME NEW y \in Genuine(Peer(e)), y.kind = "RELIABLE_SEQUENCED"
      PROVE  /\ y.msg \in Of(e, "sequenced") /\ y.num = NumberOf(y.msg)
             /\ y.idx = (FirstIndex + Rank(sent[Peer(e)], y.msg)) % IndexRange
             /\ Rank(sent[Peer(e)], y.msg) \in Nat
             /\ y.msg \in Nat \ {0} /\ Stream(sent[Peer(e)][y.msg]) = "sequenced"
  <2>1. Stream(y.kind) = "sequenced" /\ Stream(y.kind) # "none"
    BY <1>3 DEF Stream, Sequenced
  <2>2. y.msg \in Of(e, "sequenced")
    BY <2>1 DEF Genuine, Of, Positions
  <2>3. Rank(sent[Peer(e)], y.msg) \in Nat
    BY <1>2, <2>2, UpToMessage
  <2>4. y.msg \in Nat \ {0} /\ Stream(sent[Peer(e)][y.msg]) = "sequenced"
    BY <1>2, <2>2, OfFinite
  <2> QED
    BY <2>1, <2>2, <2>3, <2>4 DEF Genuine
<1>4. ASSUME NEW y \in Genuine(Peer(e)), y.kind = "RELIABLE_SEQUENCED", y.num \in received[e]
      PROVE  y.msg \in Passed(e)
  BY <1>3, <1>4 DEF SequenceInv, SequenceOK
<1>5. CASE x.num \in received[e]
  BY <1>4, <1>5
<1>6. CASE /\ x \in Entries(resendQueue[Peer(e)])
           /\ \E y \in Entries(resendQueue[Peer(e)]) : y.num \in received[e] /\ Outdates(y, x)
  <2>1. PICK y \in Entries(resendQueue[Peer(e)]) : y.num \in received[e] /\ Outdates(y, x)
    BY <1>6
  <2>2. y \in Genuine(Peer(e)) /\ y.kind = "RELIABLE_SEQUENCED" /\ IsOlder(x.idx, y.idx)
    BY <1>1, <1>2, <2>1, WaitingIsGenuine DEF Outdates
  <2> DEFINE i == Rank(sent[Peer(e)], x.msg)
             j == Rank(sent[Peer(e)], y.msg)
  <2>3. i \in Nat /\ j \in Nat /\ IsOlder((FirstIndex + i) % IndexRange, (FirstIndex + j) % IndexRange)
    BY <1>3, <2>2
  <2>4. i - j <= 127
    BY <1>1, <1>6, <2>2 DEF ResendClose
  <2>5. i < j => x.msg < y.msg
    <3>1. Stream(sent[Peer(e)][x.msg]) = Stream(sent[Peer(e)][y.msg])
      BY <1>3, <2>2
    <3>2. x.msg \in Nat \ {0} /\ y.msg \in Nat \ {0}
      BY <1>3, <2>2
    <3> QED
      BY <3>1, <3>2, RankGrows
  <2> HIDE DEF i, j
  <2>6. i < j
    <3>1. CASE i - j \in -126 .. 127
      BY <2>3, <3>1, OlderIsOlder
    <3>2. CASE ~(i - j \in -126 .. 127)
      BY <2>3, <2>4, <3>2
    <3> QED
      BY <3>1, <3>2
  <2>7. y.msg \in Passed(e)
    BY <1>4, <2>1, <2>2
  <2>8. PICK n \in ArrivedOf(e, "sequenced") : y.msg <= n
    BY <2>7 DEF Passed
  <2>9. x.msg \in Nat /\ y.msg \in Nat /\ n \in Nat /\ x.msg \in Of(e, "sequenced")
    BY <1>2, <1>3, <2>2, OfFinite DEF ArrivedOf
  <2>10. x.msg <= n
    BY <2>5, <2>6, <2>8, <2>9
  <2> QED
    BY <2>9, <2>10 DEF Passed
<1> QED
  BY <1>1, <1>5, <1>6 DEF Answered

LEMMA NewestInvKept ==
  ASSUME OneThread, ShortScripts, LayerInv, OnceInv, OrderInv, SequenceInv,
         WithinIndexRange, ResendClose, NewestInv, [Next]_vars
  PROVE  NewestInv'
<1>1. SUFFICES ASSUME NEW e \in Ends, NEW m \in 1 .. Len(sent'[Peer(e)]),
                      sent'[Peer(e)][m] = "RELIABLE_SEQUENCED"
               PROVE  m \in Passed(e)' \/ \E x \in Waiting(Peer(e))' : x.msg = m
  BY DEF NewestInv
<1>2. Peer(e) \in Ends
  BY PeerOfPeer
<1>3. /\ \A x \in Waiting(Peer(e)) :
           Reliable(x.kind) => x \in Waiting(Peer(e))' \/ Answered(Peer(e), x)
      /\ m \in 1 .. Len(sent[Peer(e)]) \/ \E x \in Waiting(Peer(e))' : x.msg = m
  BY <1>2, WaitingStep
<1>4. Passed(e) \subseteq Passed(e)'
  BY PassedGrows
<1>5. CASE m \in 1 .. Len(sent[Peer(e)])
  <2>1. sent[Peer(e)][m] = "RELIABLE_SEQUENCED"
    <3>1. Quiet \/ Sending \/ GivingUp \/ Arriving
      BY StepOfPrograms
    <3> QED
      BY <1>1, <1>2, <1>5, <3>1, SentGrows DEF LayerInv
  <2>2. CASE m \in Passed(e)
    BY <1>4, <2>2
  <2>3. CASE \E x \in Waiting(Peer(e)) : x.msg = m
    <3>1. PICK x \in Waiting(Peer(e)) : x.msg = m
      BY <2>3
    <3>2. x \in Genuine(Peer(e)) /\ x.kind = "RELIABLE_SEQUENCED"
      <4>1. x \in Genuine(Peer(e))
        BY <1>2, WaitingIsGenuine DEF LayerInv
      <4> QED
        BY <2>1, <3>1, <4>1 DEF Genuine
    <3>3. x \in Waiting(Peer(e))' \/ x.msg \in Passed(e)
      BY <1>3, <3>2, AnsweredIsPassed DEF Reliable
    <3> QED
      BY <1>4, <3>1, <3>3
  <2> QED
    BY <1>5, <2>1, <2>2, <2>3 DEF NewestInv
<1> QED
  BY <1>3, <1>5

(* A reliable sequenced message is dropped only for a newer one that has     *)
(* arrived, as long as the eight-bit indexes can tell the messages on their  *)
(* way and in the resend queue apart (IsOlderOrderedPacket, and the holes    *)
(* RemovePacketFromResendQueueAndDeleteOlderReliableSequenced makes, in      *)
(* ReliabilityLayer.cpp).                                                   *)
THEOREM NewestIsKept ==
  ASSUME OneThread, ShortScripts
  PROVE  Spec /\ []WithinIndexRange /\ []ResendClose => []NewestKept
<1>1. Init => NewestInv
  BY PeerOfPeer DEF Init, NewestInv
<1>2. LayerInv /\ OnceInv /\ OrderInv /\ SequenceInv /\ WithinIndexRange /\ ResendClose
        /\ NewestInv /\ [Next]_vars => NewestInv'
  BY NewestInvKept
<1>3. NewestInv => NewestKept
  <2>1. ASSUME NewestInv, NEW e \in Ends, NEW m \in 1 .. Len(sent[Peer(e)]),
               sent[Peer(e)][m] = "RELIABLE_SEQUENCED"
        PROVE  m \in Arrived(e) \/ Superseded(e, m) \/ Kept(e, m)
    <3>1. CASE m \in Passed(e)
      <4>1. PICK n \in ArrivedOf(e, "sequenced") : m <= n
        BY <3>1 DEF Passed
      <4>2. n \in Arrived(e) /\ n \in 1 .. Len(sent[Peer(e)]) /\ Sequenced(sent[Peer(e)][n])
        BY DEF ArrivedOf, Of, Positions, Stream
      <4>3. Sequenced(sent[Peer(e)][m]) /\ m \in DOMAIN sent[Peer(e)]
        BY <2>1, <3>1 DEF Passed, Of, Positions, Sequenced
      <4> QED
        BY <4>1, <4>2, <4>3 DEF Superseded
    <3>2. CASE \E x \in Waiting(Peer(e)) : x.msg = m
      BY <3>2 DEF Kept
    <3> QED
      BY <2>1, <3>1, <3>2 DEF NewestInv
  <2> QED
    BY <2>1 DEF NewestKept
<1> QED
  BY <1>1, <1>2, <1>3, LayerInvHolds, OnceHolds, OrderHolds, PTL DEF Spec

-------------------------------------------------------------------------------
(* A run too short for two messages to be half the range apart.              *)

Few == 126   \* IsOlder takes what is less than 127 places back for older
FewMessages == \A e \in Ends : \A s \in Scripts[e] : Len(s) <= Few

LEMMA FewFit ==
  /\ Few \in Nat /\ Few <= IndexRange /\ Few <= LogLength
  /\ \A i \in 0 .. Few - 1, j \in 0 .. Few : i - j <= 127 /\ i - j \in -126 .. 127
<1>1. Few \in Nat /\ Few <= IndexRange
  BY DEF Few, IndexRange
<1>2. Few <= LogLength
  BY DEF Few, LogLength
<1>3. ASSUME NEW i \in 0 .. Few - 1, NEW j \in 0 .. Few PROVE i - j <= 127 /\ i - j \in -126 .. 127
  BY DEF Few
<1> QED
  BY <1>1, <1>2, <1>3

(* What has been sent begins a script.                                       *)
InScript == \A e \in Ends : sent[e] = <<>> \/ Scripted(sent[e], e)

LEMMA InScriptHolds ==
  ASSUME OneThread, ShortScripts
  PROVE  Spec => []InScript
<1>1. Init => InScript
  BY DEF Init, InScript
<1>2. ASSUME LayerInv, InScript, [Next]_vars PROVE InScript'
  <2>1. CASE sent' = sent
    BY <1>2, <2>1 DEF InScript, Scripted
  <2>2. ASSUME NEW e \in Ends, NEW t \in Threads, Enqueue(e, t) PROVE InScript'
    <3> DEFINE k == sending[e][t].kind
    <3>1. sending[e][t] # None /\ sent' = [sent EXCEPT ![e] = Append(@, k)]
      BY <2>2, Zenon DEF Enqueue
    <3>2. Scripted(Append(sent[e], k), e) /\ sent \in [Ends -> Seq(Kinds)]
      BY <1>2, <3>1 DEF LayerInv, SendInv, CallOK
    <3> HIDE DEF k
    <3> QED
      BY <1>2, <3>1, <3>2 DEF InScript, Scripted
  <2>3. ASSUME NEW e \in Ends, NEW late, NEW ackDue, NEW lost, Frame(e, late, ackDue, lost)
        PROVE  sent' = sent
    <3>1. UNCHANGED <<sendVars, receiveVars, parseVars, dead>>
      BY <2>3, Zenon DEF Frame
    <3> QED
      BY <3>1 DEF sendVars
  <2>4. CASE \E e \in Ends : \/ \E t \in Threads, k \in Kinds : ReadNumber(e, t, k)
                             \/ TimeOut(e) \/ AssertFails(e)
                             \/ \E d \in net, copy \in BOOLEAN : Receive(e, d, copy)
                             \/ \E calm \in BOOLEAN : HandleAck(e, calm) \/ HandlePacket(e, calm)
    BY <2>1, <2>4 DEF ReadNumber, TimeOut, AssertFails, Receive, HandleAck, HandlePacket, sendVars
  <2>5. CASE UNCHANGED vars
    BY <2>1, <2>5 DEF vars, sendVars
  <2> QED
    BY <1>2, <2>1, <2>2, <2>3, <2>4, <2>5, Zenon DEF Next
<1> QED
  BY <1>1, <1>2, LayerInvHolds, PTL DEF Spec

LEMMA FewAreClose ==
  ASSUME FewMessages, LayerInv, InScript
  PROVE  WithinIndexRange /\ ResendClose
<1>1. SendInv /\ QueueInv /\ NetInv
  BY DEF LayerInv
<1>2. ASSUME NEW e \in Ends PROVE Len(sent[e]) \in 0 .. Few
  <2>1. Len(sent[e]) \in Nat
    BY <1>1, LenProperties DEF SendInv
  <2>2. CASE sent[e] = <<>>
    BY <2>2, FewFit
  <2>3. CASE Scripted(sent[e], e)
    <3>1. PICK script \in Scripts[e] : IsPrefix(sent[e], script)
      BY <2>3 DEF Scripted
    <3>2. Len(sent[e]) <= Len(script)
      BY <3>1 DEF IsPrefix
    <3>3. Len(script) \in Nat /\ Len(script) <= Few
      BY BoundAssumption, LenProperties DEF FewMessages
    <3> QED
      BY <2>1, <3>2, <3>3, FewFit
  <2> QED
    BY <2>2, <2>3 DEF InScript
<1>3. ASSUME NEW e \in Ends, NEW m \in 1 .. Len(sent[e])
      PROVE  Rank(sent[e], m) \in 0 .. Few - 1
  <2>1. m \in Nat \ {0} /\ m <= Few
    BY <1>2, FewFit
  <2>2. Rank(sent[e], m) \in Nat /\ Rank(sent[e], m) + 1 <= m
    BY <2>1, RankIsBefore
  <2> QED
    BY <2>1, <2>2, FewFit
<1>4. ASSUME NEW e \in Ends, NEW S, S \subseteq 1 .. Len(sent[Peer(e)])
      PROVE  Cardinality(S) \in 0 .. Few
  <2>1. S \subseteq 1 .. Few
    <3>1. Len(sent[Peer(e)]) \in 0 .. Few
      BY <1>2, PeerOfPeer
    <3> QED
      BY <1>4, <3>1, FewFit
  <2>2. IsFiniteSet(1 .. Few) /\ Cardinality(1 .. Few) = Few
    <3>1. 1 \in Int /\ Few \in Int /\ Few \in Nat
      BY FewFit
    <3>2. IsFiniteSet(1 .. Few) /\ Cardinality(1 .. Few) = IF 1 > Few THEN 0 ELSE Few - 1 + 1
      BY <3>1, FS_Interval
    <3> QED
      BY <3>1, <3>2
  <2>3. IsFiniteSet(S) /\ Cardinality(S) <= Few
    BY <2>1, <2>2, FS_Subset
  <2> QED
    <3>1. Cardinality(S) \in Nat
      BY <2>3, FS_CardinalityType
    <3> QED
      BY <2>3, <3>1, FewFit
<1>5. OrderedClose
  <2>1. ASSUME NEW e \in Ends PROVE Cardinality(Of(e, "ordered") \ Arrived(e)) <= IndexRange
    <3>1. Of(e, "ordered") \ Arrived(e) \subseteq 1 .. Len(sent[Peer(e)])
      BY DEF Of, Positions
    <3>2. Cardinality(Of(e, "ordered") \ Arrived(e)) \in 0 .. Few
      BY <1>4, <3>1
    <3> QED
      BY <3>2, FewFit, Ranges
  <2> QED
    BY <2>1 DEF OrderedClose
<1>6. SequencedClose
  <2>1. ASSUME NEW e \in Ends, NEW i \in 1 .. Len(parsing[e]), ~parsing[e][i].ack
        PROVE  Rank(sent[Peer(e)], parsing[e][i].body.msg) - Cardinality(Passed(e)) \in -126 .. 127
    <3>1. parsing[e][i] \in Items(e)
      <4>1. parsing[e] \in Seq(Items(e))
        BY <1>1 DEF NetInv
      <4> QED
        BY <4>1, ElementOfSeq
    <3>2. parsing[e][i].body \in Genuine(Peer(e))
      BY <2>1, <3>1 DEF Items
    <3>3. parsing[e][i].body.msg \in 1 .. Len(sent[Peer(e)])
      BY <3>2 DEF Genuine
    <3>4. Rank(sent[Peer(e)], parsing[e][i].body.msg) \in 0 .. Few - 1
      BY <1>3, <3>3, PeerOfPeer
    <3>5. Passed(e) \subseteq 1 .. Len(sent[Peer(e)])
      BY DEF Passed, Of, Positions
    <3>6. Cardinality(Passed(e)) \in 0 .. Few
      BY <1>4, <3>5
    <3> QED
      BY <3>4, <3>6, FewFit
  <2> QED
    BY <2>1, Zenon DEF SequencedClose
<1>7. ResendClose
  <2>1. ASSUME NEW e \in Ends, NEW x \in Entries(resendQueue[e]), NEW y \in Entries(resendQueue[e])
        PROVE  Rank(sent[e], x.msg) - Rank(sent[e], y.msg) <= 127
    <3>1. x \in Genuine(e) /\ y \in Genuine(e)
      BY <1>1, WaitingIsGenuine
    <3>2. x.msg \in 1 .. Len(sent[e]) /\ y.msg \in 1 .. Len(sent[e])
      BY <3>1 DEF Genuine
    <3>3. Rank(sent[e], x.msg) \in 0 .. Few - 1 /\ Rank(sent[e], y.msg) \in 0 .. Few - 1
      BY <1>3, <3>2
    <3>4. Rank(sent[e], y.msg) \in 0 .. Few
      BY <3>3, FewFit
    <3> QED
      BY <3>3, <3>4, FewFit
  <2> QED
    BY <2>1 DEF ResendClose
<1> QED
  BY <1>5, <1>6, <1>7 DEF WithinIndexRange

(* A run of no more than 126 messages to each end keeps within the range of  *)
(* the indexes, so there the layer is the channel it promises to be          *)
(* (Send and HandleSocketReceiveFromConnectedPlayer, ReliabilityLayer.cpp).  *)
THEOREM ShortRunIsChannel ==
  ASSUME OneThread, FewMessages
  PROVE  Spec => ImplementsChannel /\ []NewestKept
<1>1. ShortScripts
  <2>1. ASSUME NEW e \in Ends, NEW s \in Scripts[e] PROVE Len(s) <= LogLength
    <3>1. Len(s) \in Nat /\ Len(s) <= Few
      BY BoundAssumption, LenProperties DEF FewMessages
    <3> QED
      BY <3>1, FewFit, Ranges
  <2> QED
    BY <2>1 DEF ShortScripts
<1>2. Spec => []LayerInv /\ []InScript
  BY <1>1, LayerInvHolds, InScriptHolds, PTL
<1>3. LayerInv /\ InScript => WithinIndexRange /\ ResendClose
  BY FewAreClose
<1>4. Spec /\ []WithinIndexRange => ImplementsChannel
  BY <1>1, LayerIsChannel
<1>5. Spec /\ []WithinIndexRange /\ []ResendClose => []NewestKept
  BY <1>1, NewestIsKept
<1> QED
  BY <1>2, <1>3, <1>4, <1>5, PTL
===============================================================================
