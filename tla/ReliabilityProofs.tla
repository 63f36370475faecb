--------------------------- MODULE ReliabilityProofs ---------------------------
(***************************************************************************)
(* Proofs about ReliabilityLayer, for every window, frame size and network,  *)
(* and every number of messages: LayerInv is inductive, so no reliable       *)
(* message is forgotten and the timer runs while a packet waits.  A number   *)
(* must not come twice, hence one thread of each end sends, and no more than *)
(* there are packet numbers.                                                *)
(***************************************************************************)
EXTENDS ReliabilityLayer, SequenceTheorems, FiniteSetTheorems, WellFoundedInduction, TLAPS

OneThread == \E t : Threads = {t}
ShortScripts == \A e \in Ends : \A s \in Scripts[e] : Len(s) <= LogLength

-------------------------------------------------------------------------------
(* The inductive invariant.                                                 *)

IndexSet == 0 .. IndexRange - 1
NumberSet == 0 .. LogLength - 1

(* The messages of a stream among the first n of s, and how many of its own  *)
(* stream message m follows.                                                *)
Positions(s, stream, n) == {i \in 1 .. n : Stream(s[i]) = stream}
Rank(s, m) == Cardinality(Positions(s, Stream(s[m]), m - 1))

(* The packets of the messages that e has sent: a number for each, and the   *)
(* index of its place in its stream.                                        *)
Genuine(e) ==
  {p \in [msg : Nat, kind : Kinds, num : NumberSet, idx : IndexSet] :
     /\ p.msg \in 1 .. Len(sent[e]) /\ p.kind = sent[e][p.msg] /\ p.num = NumberOf(p.msg)
     /\ Stream(p.kind) # "none" => p.idx = (FirstIndex + Rank(sent[e], p.msg)) % IndexRange}

(* What a datagram to e may hold: numbers that the other end has received,   *)
(* and its packets.                                                         *)
Items(e) ==
  [ack : {TRUE}, body : received[Peer(e)]] \cup [ack : {FALSE}, body : Genuine(Peer(e))]

CallOK(e, call) ==
  /\ call.kind \in Kinds /\ call.num = packetNumber[e]
  /\ Scripted(Append(sent[e], call.kind), e)

SendInv ==
  /\ sent \in [Ends -> Seq(Kinds)] /\ writeIndex \in [Ends -> [Streams -> IndexSet]]
  /\ DOMAIN sending = Ends /\ \A e \in Ends : DOMAIN sending[e] = Threads
  /\ \A e \in Ends : \A t \in Threads : sending[e][t] # None => CallOK(e, sending[e][t])
  /\ packetNumber = [e \in Ends |-> NumberOf(Len(sent[e]) + 1)]
  /\ \A e \in Ends : Len(sent[e]) <= LogLength
  /\ \A e \in Ends : \A s \in Streams \ {"none"} :
       writeIndex[e][s] =
         (FirstIndex + Cardinality(Positions(sent[e], s, Len(sent[e])))) % IndexRange

QueueInv ==
  /\ DOMAIN sendQueue = Ends /\ \A e \in Ends : sendQueue[e] \in Seq(Genuine(e))
  /\ DOMAIN resendQueue = Ends /\ \A e \in Ends : resendQueue[e] \in Seq(Genuine(e) \cup {Hole})

NetInv ==
  /\ DOMAIN ackQueue = Ends /\ \A e \in Ends : ackQueue[e] \in Seq(received[e])
  /\ DOMAIN parsing = Ends /\ \A e \in Ends : parsing[e] \in Seq(Items(e))
  /\ \A d \in net : d.to \in Ends /\ d.items \in Seq(Items(d.to))

(* A number received is that of a message that was sent, which has arrived   *)
(* or waits for its turn unless it is sequenced.                            *)
ReceiveInv ==
  /\ received \in [Ends -> SUBSET NumberSet]
  /\ DOMAIN orderingList = Ends
  /\ \A e \in Ends : orderingList[e] \subseteq Genuine(Peer(e)) /\ IsFiniteSet(orderingList[e])
  /\ arrived \in [Ends -> Seq(Nat)] /\ readIndex \in [Ends -> [Streams -> IndexSet]]
  /\ \A e \in Ends : \A n \in received[e] : \E m \in 1 .. Len(sent[Peer(e)]) : n = NumberOf(m)
  /\ \A e \in Ends : \A m \in 1 .. Len(sent[Peer(e)]) :
       NumberOf(m) \in received[e] /\ sent[Peer(e)][m] \in {"RELIABLE", "RELIABLE_ORDERED"}
         => m \in Arrived(e) \/ \E p \in orderingList[e] : p.msg = m

WindowInv ==
  /\ windowSize \in [Ends -> MinWindow .. MaxWindow]
  /\ armed \in [Ends -> BOOLEAN]
  /\ dead \subseteq Ends

LayerInv ==
  SendInv /\ QueueInv /\ NetInv /\ ReceiveInv /\ WindowInv /\ NothingForgotten /\ TimerRuns

-------------------------------------------------------------------------------
(* Sets of numbers, and sequences.                                          *)

(* A set of numbers has a least one, which Min finds.                       *)
LEMMA LeastNumber ==
  ASSUME NEW T, T \subseteq Nat, T # {}
  PROVE  \E n \in T : \A m \in T : n <= m
<1> DEFINE R == {r \in Nat \X Nat : r[1] < r[2]}
<1>1. IsWellFoundedOn(R, Nat)
  BY NatLessThanWellFounded, Zenon DEF OpToRel
<1>2. PICK n \in T : \A m \in T : ~(<<m, n>> \in R)
  <2> HIDE DEF R
  <2> QED
    BY <1>1, WFMin
<1>3. \A m \in T : ~(m < n)
  BY <1>2
<1> QED
  BY <1>2, <1>3

LEMMA MinIsLeast ==
  ASSUME NEW T, T \subseteq Nat, T # {}
  PROVE  Min(T) \in T /\ \A n \in T : Min(T) <= n
BY LeastNumber DEF Min

(* Induction, with a set for the property.                                  *)
LEMMA AllUpTo ==
  ASSUME NEW n \in Nat, NEW P, 0 \in P, \A i \in 0 .. n - 1 : i \in P => i + 1 \in P
  PROVE  \A i \in 0 .. n : i \in P
<1> DEFINE T == {i \in 0 .. n : i \notin P}
<1>1. SUFFICES ASSUME T # {} PROVE FALSE
  OBVIOUS
<1>2. PICK i \in T : \A j \in T : i <= j
  <2>1. T \subseteq Nat
    OBVIOUS
  <2> HIDE DEF T
  <2> QED
    BY <1>1, <2>1, LeastNumber
<1>3. i - 1 \in 0 .. n - 1 /\ i - 1 \notin T
  BY <1>2
<1>4. (i - 1) + 1 = i
  BY <1>2
<1> QED
  BY <1>2, <1>3, <1>4

(* A leading and a trailing part of a sequence.                             *)
LEMMA PartOfSeq ==
  ASSUME NEW X, NEW q \in Seq(X), NEW a \in Nat \ {0}, NEW b \in 0 .. Len(q)
  PROVE  /\ SubSeq(q, a, b) \in Seq(X)
         /\ Len(SubSeq(q, a, b)) = IF a <= b THEN b - a + 1 ELSE 0
         /\ \A i \in 1 .. b - a + 1 : SubSeq(q, a, b)[i] = q[a + i - 1]
<1>1. \A i \in a .. b : q[i] \in X
  <2>1. ASSUME NEW i \in a .. b PROVE q[i] \in X
    BY ElementOfSeq
  <2> QED
    BY <2>1
<1> QED
  BY <1>1, SubSeqProperties

LEMMA AppendedSeq ==
  ASSUME NEW X, NEW q \in Seq(X), NEW x \in X
  PROVE  /\ Append(q, x) \in Seq(X)
         /\ Len(Append(q, x)) = Len(q) + 1
         /\ \A i \in 1 .. Len(q) : Append(q, x)[i] = q[i]
         /\ Append(q, x)[Len(q) + 1] = x
OBVIOUS

LEMMA JoinedSeq ==
  ASSUME NEW X, NEW q \in Seq(X), NEW r \in Seq(X)
  PROVE  /\ q \o r \in Seq(X)
         /\ Len(q) \in Nat /\ Len(r) \in Nat /\ Len(q \o r) = Len(q) + Len(r)
         /\ \A i \in 1 .. Len(q) + Len(r) :
              (q \o r)[i] = IF i <= Len(q) THEN q[i] ELSE r[i - Len(q)]
BY ConcatProperties, LenProperties

(* What a queue holds, when it is cut, continued or appended to.             *)
LEMMA EntriesOfConcat ==
  ASSUME NEW X, NEW q \in Seq(X), NEW r \in Seq(X)
  PROVE  Entries(q \o r) = Entries(q) \cup Entries(r)
<1>1. /\ Len(q) \in Nat /\ Len(r) \in Nat /\ Len(q \o r) = Len(q) + Len(r)
      /\ \A i \in 1 .. Len(q) + Len(r) :
           (q \o r)[i] = IF i <= Len(q) THEN q[i] ELSE r[i - Len(q)]
  BY JoinedSeq
<1>2. ASSUME NEW x \in Entries(q \o r) PROVE x \in Entries(q) \cup Entries(r)
  <2>1. PICK i \in 1 .. Len(q) + Len(r) : x = (q \o r)[i]
    BY <1>1, <1>2 DEF Entries
  <2>2. CASE i <= Len(q)
    BY <1>1, <1>2, <2>1, <2>2 DEF Entries
  <2>3. CASE ~(i <= Len(q))
    <3>1. i - Len(q) \in 1 .. Len(r) /\ x = r[i - Len(q)]
      BY <1>1, <2>1, <2>3
    <3> QED
      BY <1>2, <3>1 DEF Entries
  <2> QED
    BY <2>2, <2>3
<1>3. ASSUME NEW x \in Entries(q) PROVE x \in Entries(q \o r)
  <2>1. PICK i \in 1 .. Len(q) : x = q[i]
    BY <1>3 DEF Entries
  <2>2. i \in 1 .. Len(q \o r) /\ x = (q \o r)[i]
    BY <1>1, <2>1
  <2> QED
    BY <1>3, <2>2 DEF Entries
<1>4. ASSUME NEW x \in Entries(r) PROVE x \in Entries(q \o r)
  <2>1. PICK i \in 1 .. Len(r) : x = r[i]
    BY <1>4 DEF Entries
  <2>2. i + Len(q) \in 1 .. Len(q \o r) /\ x = (q \o r)[i + Len(q)]
    <3>1. ~(i + Len(q) <= Len(q)) /\ i + Len(q) - Len(q) = i
      BY <1>1
    <3> QED
      BY <1>1, <2>1, <3>1
  <2> QED
    BY <1>4, <2>2 DEF Entries
<1> QED
  BY <1>2, <1>3, <1>4

LEMMA EntriesOfAppend ==
  ASSUME NEW X, NEW q \in Seq(X), NEW x \in X
  PROVE  Entries(Append(q, x)) = Entries(q) \cup ({x} \ {Hole})
<1>1. Len(q) \in Nat
  BY LenProperties
<1> QED
  BY <1>1, AppendedSeq DEF Entries

LEMMA EntriesInside ==
  ASSUME NEW X, NEW q \in Seq(X)
  PROVE  Entries(q) \subseteq X
BY ElementOfSeq DEF Entries

-------------------------------------------------------------------------------
(* Selected keeps what is in the set, once for each place.                   *)

(* There is a function that satisfies the recursion of Selected.             *)
LEMMA SelectedIsDefined ==
  ASSUME NEW X, NEW q \in Seq(X), NEW S
  PROVE  \E g : g = [i \in 0 .. Len(q) |->
                       IF i = 0 THEN <<>>
                       ELSE IF q[i] \in S THEN Append(g[i - 1], q[i]) ELSE g[i - 1]]
<1> DEFINE Step(g, i) == IF i = 0 THEN <<>>
                         ELSE IF q[i] \in S THEN Append(g[i - 1], q[i]) ELSE g[i - 1]
           P == {k \in 0 .. Len(q) :
                   \E g : g = [i \in 0 .. k |-> g[i]] /\ \A i \in 0 .. k : g[i] = Step(g, i)}
<1>1. Len(q) \in Nat
  BY LenProperties
<1>2. 0 \in P
  <2> DEFINE g == [i \in 0 .. 0 |-> <<>>]
  <2>1. g = [i \in 0 .. 0 |-> g[i]] /\ \A i \in 0 .. 0 : g[i] = Step(g, i)
    OBVIOUS
  <2> HIDE DEF g
  <2> QED
    BY <1>1, <2>1
<1>3. ASSUME NEW k \in 0 .. Len(q) - 1, k \in P PROVE k + 1 \in P
  <2>1. PICK g : g = [i \in 0 .. k |-> g[i]] /\ \A i \in 0 .. k : g[i] = Step(g, i)
    BY <1>3
  <2> DEFINE h == [i \in 0 .. k + 1 |-> IF i = k + 1 THEN Step(g, k + 1) ELSE g[i]]
  <2>2. ASSUME NEW i \in 0 .. k + 1 PROVE h[i] = Step(h, i)
    <3>1. CASE i = k + 1
      <4>1. h[i] = Step(g, i) /\ h[i - 1] = g[i - 1] /\ i # 0
        BY <1>1, <3>1
      <4> HIDE DEF h
      <4> QED
        BY <4>1
    <3>2. CASE i # k + 1
      <4>1. i \in 0 .. k /\ h[i] = g[i] /\ (i # 0 => h[i - 1] = g[i - 1])
        BY <1>1, <3>2
      <4>2. g[i] = Step(g, i)
        BY <2>1, <4>1
      <4> HIDE DEF h
      <4> QED
        BY <4>1, <4>2
    <3> QED
      BY <3>1, <3>2
  <2>3. h = [i \in 0 .. k + 1 |-> h[i]]
    OBVIOUS
  <2>4. k + 1 \in 0 .. Len(q)
    BY <1>1
  <2> HIDE DEF h, Step
  <2> QED
    BY <2>2, <2>3, <2>4
<1>4. Len(q) \in P
  <2> HIDE DEF P
  <2>1. \A i \in 0 .. Len(q) - 1 : i \in P => i + 1 \in P
    BY <1>3
  <2>2. \A i \in 0 .. Len(q) : i \in P
    BY <1>1, <1>2, <2>1, AllUpTo
  <2> QED
    BY <1>1, <2>2
<1>5. PICK g : /\ g = [i \in 0 .. Len(q) |-> g[i]]
               /\ \A i \in 0 .. Len(q) : g[i] = Step(g, i)
  BY <1>4
<1>6. g = [i \in 0 .. Len(q) |-> Step(g, i)]
  <2> HIDE DEF Step
  <2> QED
    BY <1>5
<1> QED
  BY <1>6

Places(q, S) == {i \in 1 .. Len(q) : q[i] \in S}

LEMMA SelectedSeq ==
  ASSUME NEW X, NEW q \in Seq(X), NEW S
  PROVE  /\ Selected(q, S) \in Seq(X \cap S)
         /\ Entries(Selected(q, S)) = Entries(q) \cap S
         /\ Len(Selected(q, S)) = Cardinality(Places(q, S))
<1>1. Len(q) \in Nat
  BY LenProperties
<1> DEFINE J(k) == {i \in 1 .. k : q[i] \in S}
<1>0. J(Len(q)) = Places(q, S)
  BY DEF Places
<1>2. CASE \A i \in 1 .. Len(q) : q[i] \in S
  <2>1. Selected(q, S) = q
    BY <1>2, Zenon DEF Selected
  <2>2. J(Len(q)) = 1 .. Len(q)
    BY <1>2
  <2>3. Cardinality(1 .. Len(q)) = Len(q)
    <3>1. Cardinality(1 .. Len(q)) = IF 1 > Len(q) THEN 0 ELSE Len(q) - 1 + 1
      BY <1>1, FS_Interval
    <3> QED
      BY <1>1, <3>1
  <2>4. Entries(q) \subseteq S
    BY <1>2 DEF Entries
  <2>5. q \in Seq(X \cap S)
    <3>1. \A i \in 1 .. Len(q) : q[i] \in X \cap S
      BY <1>2, ElementOfSeq
    <3>2. SubSeq(q, 1, Len(q)) \in Seq(X \cap S)
      BY <1>1, <3>1, SubSeqProperties
    <3> QED
      BY <3>2, SubSeqFull
  <2> QED
    BY <1>0, <2>1, <2>2, <2>3, <2>4, <2>5
<1>3. CASE ~ \A i \in 1 .. Len(q) : q[i] \in S
  <2> DEFINE Body(g) == [i \in 0 .. Len(q) |->
                           IF i = 0 THEN <<>>
                           ELSE IF q[i] \in S THEN Append(g[i - 1], q[i]) ELSE g[i - 1]]
             f == CHOOSE g : g = Body(g)
  <2>1. Selected(q, S) = f[Len(q)]
    BY <1>3, Zenon DEF Selected
  <2>2. \E g : g = Body(g)
    BY SelectedIsDefined
  <2>3. f = Body(f)
    BY <2>2, Zenon
  <2> HIDE DEF f
  <2>4. /\ f[0] = <<>>
        /\ \A i \in 1 .. Len(q) : f[i] = IF q[i] \in S THEN Append(f[i - 1], q[i]) ELSE f[i - 1]
    <3>1. ASSUME NEW i \in 0 .. Len(q)
          PROVE  f[i] = IF i = 0 THEN <<>>
                        ELSE IF q[i] \in S THEN Append(f[i - 1], q[i]) ELSE f[i - 1]
      BY <2>3, Zenon
    <3>2. 0 \in 0 .. Len(q) /\ \A i \in 1 .. Len(q) : i \in 0 .. Len(q) /\ i # 0
      BY <1>1
    <3> QED
      BY <3>1, <3>2
  <2> DEFINE Good(k) == /\ f[k] \in Seq(X \cap S)
                        /\ Entries(f[k]) = {q[i] : i \in J(k)} \ {Hole}
                        /\ IsFiniteSet(J(k)) /\ Len(f[k]) = Cardinality(J(k))
             P == {k \in 0 .. Len(q) : Good(k)}
  <2> HIDE DEF Body
  <2>5. 0 \in P
    <3>1. J(0) = {}
      OBVIOUS
    <3>2. <<>> \in Seq(X \cap S) /\ Len(<<>>) = 0 /\ Entries(<<>>) = {}
      BY DEF Entries
    <3>3. {q[i] : i \in J(0)} = {}
      BY <3>1
    <3> HIDE DEF J
    <3>4. Good(0)
      BY <2>4, <3>1, <3>2, <3>3, FS_EmptySet
    <3> QED
      BY <1>1, <3>4
  <2>6. ASSUME NEW k \in 0 .. Len(q) - 1, k \in P PROVE k + 1 \in P
    <3>1. k + 1 \in 1 .. Len(q) /\ q[k + 1] \in X /\ (k + 1) - 1 = k /\ k + 1 \in 0 .. Len(q)
      BY <1>1, ElementOfSeq
    <3>2. Good(k)
      BY <2>6
    <3>3. f[k + 1] = IF q[k + 1] \in S THEN Append(f[k], q[k + 1]) ELSE f[k]
      BY <2>4, <3>1
    <3>4. CASE q[k + 1] \in S
      <4>1. J(k + 1) = J(k) \cup {k + 1} /\ k + 1 \notin J(k)
        BY <1>1, <3>4
      <4>2. {q[i] : i \in J(k + 1)} = {q[i] : i \in J(k)} \cup {q[k + 1]}
        BY <4>1
      <4>3. IsFiniteSet(J(k + 1)) /\ Cardinality(J(k + 1)) = Cardinality(J(k)) + 1
        <5> HIDE DEF J
        <5> QED
          BY <3>2, <4>1, FS_AddElement
      <4>4. f[k] \in Seq(X \cap S) /\ q[k + 1] \in X \cap S
        BY <3>1, <3>2, <3>4
      <4>5. /\ f[k + 1] \in Seq(X \cap S)
            /\ Len(f[k + 1]) = Len(f[k]) + 1
            /\ Entries(f[k + 1]) = Entries(f[k]) \cup ({q[k + 1]} \ {Hole})
        BY <3>3, <3>4, <4>4, AppendedSeq, EntriesOfAppend
      <4> HIDE DEF J
      <4> QED
        BY <3>1, <3>2, <4>2, <4>3, <4>5
    <3>5. CASE q[k + 1] \notin S
      <4>1. J(k + 1) = J(k)
        BY <1>1, <3>5
      <4> HIDE DEF J
      <4> QED
        BY <3>1, <3>2, <3>3, <3>5, <4>1
    <3> QED
      BY <3>4, <3>5
  <2>7. Good(Len(q))
    <3> HIDE DEF P
    <3>1. \A k \in 0 .. Len(q) - 1 : k \in P => k + 1 \in P
      BY <2>6
    <3>2. \A k \in 0 .. Len(q) : k \in P
      BY <1>1, <2>5, <3>1, AllUpTo
    <3>3. Len(q) \in P
      BY <1>1, <3>2
    <3> QED
      BY <3>3 DEF P
  <2>8. {q[i] : i \in J(Len(q))} \ {Hole} = Entries(q) \cap S
    BY DEF Entries
  <2> QED
    BY <1>0, <2>1, <2>7, <2>8
<1> QED
  BY <1>2, <1>3

-------------------------------------------------------------------------------
(* A frame.                                                                 *)

(* What is sent again fits the room that the frame has.                      *)
LEMMA ResentFits ==
  ASSUME NEW X, NEW q \in Seq(X), NEW late \in Nat, NEW room \in Nat
  PROVE  LET stop == Stop(q, late, room)
             passed == SubSeq(q, 1, stop - 1)
         IN /\ stop \in 1 .. Len(q) + 1
            /\ Len(Selected(passed, Entries(passed))) <= room
<1> DEFINE N(k) == {j \in 1 .. k : q[j] # Hole}
           stays == {i \in 1 .. Len(q) : q[i] # Hole /\ (i > late \/ Cardinality(N(i)) > room)}
           stop == Stop(q, late, room)
           passed == SubSeq(q, 1, stop - 1)
<1>1. Len(q) \in Nat
  BY LenProperties
<1>2. stop = Min({Len(q) + 1} \cup stays)
  BY DEF Stop
<1>3. stop \in {Len(q) + 1} \cup stays /\ \A n \in {Len(q) + 1} \cup stays : stop <= n
  <2>1. {Len(q) + 1} \cup stays \subseteq Nat
    BY <1>1
  <2> HIDE DEF stays, stop
  <2> QED
    BY <1>2, <2>1, MinIsLeast
<1>4. stop \in 1 .. Len(q) + 1
  BY <1>1, <1>3
<1>5. \A k \in 0 .. stop - 1 : IsFiniteSet(N(k)) /\ Cardinality(N(k)) <= room
  <2> DEFINE P == {k \in 0 .. stop - 1 : IsFiniteSet(N(k)) /\ Cardinality(N(k)) <= room}
  <2>1. stop - 1 \in Nat
    BY <1>1, <1>4
  <2>2. 0 \in P
    <3>1. N(0) = {}
      OBVIOUS
    <3>2. IsFiniteSet(N(0)) /\ Cardinality(N(0)) = 0
      BY <3>1, FS_EmptySet
    <3> HIDE DEF N, stop
    <3>3. 0 \in 0 .. stop - 1 /\ 0 <= room
      BY <2>1
    <3> QED
      BY <3>2, <3>3
  <2>3. ASSUME NEW k \in 0 .. stop - 1 - 1, k \in P PROVE k + 1 \in P
    <3>1. k + 1 \in 1 .. Len(q) /\ k + 1 \in 0 .. stop - 1 /\ ~(stop <= k + 1)
      BY <1>1, <1>4
    <3>2. k + 1 \notin stays
      <4> HIDE DEF stays, stop
      <4> QED
        BY <1>3, <3>1
    <3>3. CASE q[k + 1] = Hole
      <4>1. N(k + 1) = N(k)
        BY <3>1, <3>3
      <4> HIDE DEF N, stop
      <4> QED
        BY <2>3, <3>1, <4>1
    <3>4. CASE q[k + 1] # Hole
      <4>1. ~(Cardinality(N(k + 1)) > room)
        <5> HIDE DEF N, stop
        <5> QED
          BY <3>1, <3>2, <3>4
      <4>2. N(k + 1) = N(k) \cup {k + 1}
        BY <3>1, <3>4
      <4>3. IsFiniteSet(N(k + 1)) /\ Cardinality(N(k + 1)) \in Nat
        <5> HIDE DEF N, stop
        <5> QED
          BY <2>3, <4>2, FS_AddElement, FS_CardinalityType
      <4> HIDE DEF N, stop
      <4> QED
        BY <3>1, <4>1, <4>3
    <3> QED
      BY <3>3, <3>4
  <2>4. \A k \in 0 .. stop - 1 : k \in P
    <3> HIDE DEF P, stop
    <3>1. \A k \in 0 .. stop - 1 - 1 : k \in P => k + 1 \in P
      BY <2>3
    <3> QED
      BY <2>1, <2>2, <3>1, AllUpTo
  <2> HIDE DEF N, stop
  <2> QED
    BY <2>4
<1>6. /\ passed \in Seq(X) /\ Len(passed) = stop - 1
      /\ \A i \in 1 .. stop - 1 : passed[i] = q[i]
  <2> HIDE DEF stop
  <2>1. 1 \in Nat \ {0} /\ stop - 1 \in 0 .. Len(q)
    BY <1>1, <1>4
  <2>2. /\ passed \in Seq(X)
        /\ Len(passed) = IF 1 <= stop - 1 THEN stop - 1 - 1 + 1 ELSE 0
        /\ \A i \in 1 .. stop - 1 - 1 + 1 : passed[i] = q[1 + i - 1]
    BY <2>1, PartOfSeq
  <2>3. Len(passed) = stop - 1
    BY <1>1, <1>4, <2>2
  <2>4. ASSUME NEW i \in 1 .. stop - 1 PROVE passed[i] = q[i]
    <3>1. i \in 1 .. stop - 1 - 1 + 1 /\ 1 + i - 1 = i
      BY <1>1, <1>4
    <3> HIDE DEF passed
    <3> QED
      BY <2>2, <3>1
  <2> QED
    BY <2>2, <2>3, <2>4
<1>7. Places(passed, Entries(passed)) = N(stop - 1)
  <2> HIDE DEF passed, stop
  <2> QED
    BY <1>6 DEF Entries, Places
<1>8. Len(Selected(passed, Entries(passed))) = Cardinality(N(stop - 1))
  <2> DEFINE E == Entries(passed)
  <2>1. Len(Selected(passed, E)) = Cardinality(Places(passed, E))
    <3>1. passed \in Seq(X)
      BY <1>6
    <3> HIDE DEF passed, E, stop, N
    <3> QED
      BY <3>1, SelectedSeq
  <2> HIDE DEF passed, stop, N
  <2> QED
    BY <1>7, <2>1
<1>9. stop - 1 \in 0 .. stop - 1
  BY <1>1, <1>4
<1> HIDE DEF N
<1> QED
  BY <1>4, <1>5, <1>8, <1>9

LEMMA CutQueue ==
  ASSUME NEW X, NEW q \in Seq(X), NEW n \in 0 .. Len(q)
  PROVE  /\ SubSeq(q, 1, n) \in Seq(X) /\ Len(SubSeq(q, 1, n)) = n
         /\ SubSeq(q, n + 1, Len(q)) \in Seq(X)
         /\ Entries(q) = Entries(SubSeq(q, 1, n)) \cup Entries(SubSeq(q, n + 1, Len(q)))
<1>1. /\ Len(q) \in Nat /\ 1 \in Nat \ {0} /\ n + 1 \in Nat \ {0} /\ Len(q) \in 0 .. Len(q)
      /\ 1 \in 1 .. Len(q) + 1 /\ n \in 1 - 1 .. Len(q) /\ Len(q) \in n .. Len(q)
  BY LenProperties
<1>2. /\ SubSeq(q, 1, n) \in Seq(X) /\ SubSeq(q, n + 1, Len(q)) \in Seq(X)
      /\ Len(SubSeq(q, 1, n)) = IF 1 <= n THEN n - 1 + 1 ELSE 0
  BY <1>1, PartOfSeq
<1>3. SubSeq(q, 1, n) \o SubSeq(q, n + 1, Len(q)) = q
  BY <1>1, ConcatAdjacentSubSeq, SubSeqFull
<1>4. Len(SubSeq(q, 1, n)) = n
  BY <1>1, <1>2
<1> QED
  BY <1>2, <1>3, <1>4, EntriesOfConcat

(* What is sent again goes to the tail of the queue, and nothing gets lost.  *)
LEMMA ResentIsKept ==
  ASSUME NEW G, NEW q \in Seq(G \cup {Hole}), NEW stop \in 1 .. Len(q) + 1, Hole \notin G
  PROVE  LET passed == SubSeq(q, 1, stop - 1)
             resent == Selected(passed, Entries(passed))
             kept == SubSeq(q, stop, Len(q)) \o resent
         IN /\ resent \in Seq(G)
            /\ kept \in Seq(G \cup {Hole})
            /\ Entries(kept) = Entries(q)
            /\ q = <<>> => kept = <<>>
<1> DEFINE passed == SubSeq(q, 1, stop - 1)
           resent == Selected(passed, Entries(passed))
           behind == SubSeq(q, stop, Len(q))
<1>1. Len(q) \in Nat /\ stop - 1 \in 0 .. Len(q) /\ (stop - 1) + 1 = stop
  BY LenProperties
<1>2. /\ passed \in Seq(G \cup {Hole}) /\ behind \in Seq(G \cup {Hole})
      /\ Entries(q) = Entries(passed) \cup Entries(behind)
  BY <1>1, CutQueue
<1>3. /\ resent \in Seq((G \cup {Hole}) \cap Entries(passed))
      /\ Entries(resent) = Entries(passed)
  <2> DEFINE E == Entries(passed)
  <2>1. /\ Selected(passed, E) \in Seq((G \cup {Hole}) \cap E)
        /\ Entries(Selected(passed, E)) = Entries(passed) \cap E
    <3> HIDE DEF passed, E
    <3> QED
      BY <1>2, SelectedSeq
  <2> QED
    BY <2>1
<1>4. resent \in Seq(G)
  <2>1. (G \cup {Hole}) \cap Entries(passed) \subseteq G
    BY DEF Entries
  <2> HIDE DEF resent, passed
  <2> QED
    BY <1>3, <2>1, SeqMonotonic
<1>5. resent \in Seq(G \cup {Hole})
  <2> HIDE DEF resent
  <2> QED
    BY <1>4, SeqMonotonic
<1>6. behind \o resent \in Seq(G \cup {Hole}) /\ Entries(behind \o resent) = Entries(q)
  <2> HIDE DEF resent, behind, passed
  <2> QED
    BY <1>2, <1>3, <1>5, ConcatProperties, EntriesOfConcat
<1>7. ASSUME q = <<>> PROVE behind \o resent = <<>>
  <2>1. Entries(q) = {} /\ stop = 1 /\ Len(q) = 0
    BY <1>7 DEF Entries
  <2>2. behind = <<>>
    BY <2>1, SubSeqEmpty
  <2>3. resent = <<>>
    <3>1. resent \in Seq({})
      <4>1. (G \cup {Hole}) \cap Entries(passed) = {}
        BY <1>2, <2>1
      <4> HIDE DEF resent, passed
      <4> QED
        BY <1>3, <4>1
    <3> HIDE DEF resent
    <3> QED
      BY <3>1
  <2> HIDE DEF resent, behind
  <2> QED
    BY <2>2, <2>3
<1> QED
  BY <1>4, <1>6, <1>7

LEMMA FreshIsKept ==
  ASSUME NEW G, NEW q \in Seq(G), NEW n \in 0 .. Len(q)
  PROVE  LET fresh == SubSeq(q, 1, n)
             rest == SubSeq(q, n + 1, Len(q))
             toResend == Selected(fresh, {p \in Entries(fresh) : Reliable(p.kind)})
         IN /\ fresh \in Seq(G) /\ Len(fresh) = n /\ rest \in Seq(G) /\ toResend \in Seq(G)
            /\ Entries(q) = Entries(fresh) \cup Entries(rest)
            /\ Entries(toResend) = {p \in Entries(fresh) : Reliable(p.kind)}
<1> DEFINE fresh == SubSeq(q, 1, n)
           rest == SubSeq(q, n + 1, Len(q))
           S == {p \in Entries(fresh) : Reliable(p.kind)}
           toResend == Selected(fresh, S)
<1>1. /\ fresh \in Seq(G) /\ Len(fresh) = n /\ rest \in Seq(G)
      /\ Entries(q) = Entries(fresh) \cup Entries(rest)
  BY CutQueue
<1>2. toResend \in Seq(G \cap S) /\ Entries(toResend) = Entries(fresh) \cap S
  <2> HIDE DEF S, fresh
  <2> QED
    BY <1>1, SelectedSeq
<1>3. toResend \in Seq(G)
  <2> HIDE DEF toResend, S
  <2> QED
    BY <1>2, SeqMonotonic
<1>4. Entries(fresh) \cap S = S
  OBVIOUS
<1> QED
  BY <1>1, <1>2, <1>3, <1>4

-------------------------------------------------------------------------------
(* The places of messages in their streams.                                 *)

LEMMA PositionsFinite ==
  ASSUME NEW s, NEW stream, NEW n \in Nat
  PROVE  IsFiniteSet(Positions(s, stream, n)) /\ Cardinality(Positions(s, stream, n)) \in Nat
<1>1. Positions(s, stream, n) \subseteq 1 .. n
  BY DEF Positions
<1>2. IsFiniteSet(1 .. n)
  BY FS_Interval
<1> QED
  BY <1>1, <1>2, FS_Subset, FS_CardinalityType

LEMMA PositionsNext ==
  ASSUME NEW s, NEW stream, NEW n \in Nat
  PROVE  Cardinality(Positions(s, stream, n + 1)) =
           Cardinality(Positions(s, stream, n)) + (IF Stream(s[n + 1]) = stream THEN 1 ELSE 0)
<1>1. IsFiniteSet(Positions(s, stream, n)) /\ n + 1 \notin Positions(s, stream, n)
  BY PositionsFinite DEF Positions
<1>2. CASE Stream(s[n + 1]) = stream
  <2>1. Positions(s, stream, n + 1) = Positions(s, stream, n) \cup {n + 1}
    BY <1>2 DEF Positions
  <2> QED
    BY <1>1, <1>2, <2>1, FS_AddElement
<1>3. CASE Stream(s[n + 1]) # stream
  <2>1. Positions(s, stream, n + 1) = Positions(s, stream, n)
    BY <1>3 DEF Positions
  <2> QED
    BY <1>3, <2>1, PositionsFinite
<1> QED
  BY <1>2, <1>3

LEMMA SamePositions ==
  ASSUME NEW s, NEW r, NEW stream, NEW n \in Nat, \A i \in 1 .. n : s[i] = r[i]
  PROVE  Positions(s, stream, n) = Positions(r, stream, n)
BY DEF Positions

LEMMA SameRank ==
  ASSUME NEW s, NEW r, NEW m \in Nat \ {0}, \A i \in 1 .. m : s[i] = r[i]
  PROVE  Rank(s, m) = Rank(r, m)
<1>1. m - 1 \in Nat /\ \A i \in 1 .. m - 1 : s[i] = r[i]
  OBVIOUS
<1> QED
  BY <1>1, SamePositions DEF Rank

-------------------------------------------------------------------------------
(* The two ends, the numbers, and what lasts.                               *)

LEMMA PeerOfPeer ==
  ASSUME NEW e \in Ends
  PROVE  Peer(e) \in Ends /\ Peer(e) # e /\ Peer(Peer(e)) = e
<1>1. IsFiniteSet(Ends) /\ Cardinality(Ends) = 2
  BY BoundAssumption
<1>2. IsFiniteSet(Ends \ {e}) /\ Cardinality(Ends \ {e}) = 1
  <2>1. IsFiniteSet(Ends \ {e}) /\ Cardinality(Ends \ {e}) = Cardinality(Ends) - 1
    BY <1>1, FS_RemoveElement
  <2> QED
    BY <1>1, <2>1
<1>3. PICK p : Ends \ {e} = {p}
  BY <1>2, FS_Singleton
<1>4. p \in Ends /\ p # e /\ Ends = {e, p}
  BY <1>3
<1> QED
  BY <1>4 DEF Peer

LEMMA Ranges == LogLength \in Nat \ {0} /\ IndexRange \in Nat \ {0}
BY DEF LogLength, IndexRange

(* A message has a number of its own, that follows the one before.           *)
LEMMA NumberOfMessage ==
  ASSUME NEW m \in Nat \ {0}
  PROVE  /\ NumberOf(m) \in NumberSet
         /\ NextNumber(NumberOf(m)) = NumberOf(m + 1)
<1>1. FirstNumber + m - 1 \in Nat /\ (FirstNumber + m - 1) + 1 = FirstNumber + (m + 1) - 1
  BY IndexAssumption
<1>2. \A x \in Nat : /\ x % 65530 \in Nat /\ x % 65530 <= 65529
                     /\ ((x % 65530) + 1) % 65530 = (x + 1) % 65530
  OBVIOUS
<1>3. \A k : NumberOf(k) = (FirstNumber + k - 1) % 65530
  BY DEF NumberOf, LogLength
<1>4. \A k : NextNumber(k) = (k + 1) % 65530
  BY DEF NextNumber, LogLength
<1>5. \A x \in Nat : x <= 65529 => x < LogLength
  BY DEF LogLength
<1>6. \A x \in Nat : x < LogLength => x \in NumberSet
  BY Ranges DEF NumberSet
<1> QED
  BY <1>1, <1>2, <1>3, <1>4, <1>5, <1>6

LEMMA NumberIsOwn ==
  \A m, n \in Nat \ {0} :
    m <= LogLength /\ n <= LogLength /\ NumberOf(m) = NumberOf(n) => m = n
<1>1. SUFFICES ASSUME NEW m \in Nat \ {0}, NEW n \in Nat \ {0},
                      m <= LogLength /\ n <= LogLength, NumberOf(m) = NumberOf(n)
               PROVE  m = n
  OBVIOUS
<1>2. m <= 65530 /\ n <= 65530
  BY <1>1 DEF LogLength
<1>3. FirstNumber \in Nat /\ FirstNumber <= 65529
  BY IndexAssumption DEF LogLength
<1>4. \A k : NumberOf(k) = (FirstNumber + k - 1) % 65530
  BY DEF NumberOf, LogLength
<1>5. (FirstNumber + m - 1) % 65530 = (FirstNumber + n - 1) % 65530
  BY <1>1, <1>4
<1> QED
  BY <1>2, <1>3, <1>5

LEMMA IndexInRange ==
  \A i \in Nat : i % IndexRange \in IndexSet
BY Ranges DEF IndexSet

LEMMA IndexOfNext ==
  ASSUME NEW n \in Nat
  PROVE  NextIndex((FirstIndex + n) % IndexRange) = (FirstIndex + (n + 1)) % IndexRange
<1>1. FirstIndex \in Nat
  BY IndexAssumption
<1> QED
  BY <1>1 DEF NextIndex, IndexRange

LEMMA HoleIsNoPacket ==
  ASSUME NEW e
  PROVE  Hole \notin Genuine(e)
BY DEF Hole, Genuine

LEMMA SameItems ==
  ASSUME sent' = sent, received' = received, NEW e
  PROVE  Genuine(e)' = Genuine(e) /\ Items(e)' = Items(e)
BY DEF Genuine, Items

(* What a step does not touch.                                              *)
LEMMA SameSend ==
  ASSUME SendInv, UNCHANGED sendVars
  PROVE  SendInv'
BY DEF SendInv, CallOK, sendVars

LEMMA SameQueues ==
  ASSUME QueueInv, sent' = sent, sendQueue' = sendQueue, resendQueue' = resendQueue
  PROVE  QueueInv'
BY DEF QueueInv, Genuine

LEMMA SameNet ==
  ASSUME NetInv, sent' = sent, received' = received,
         ackQueue' = ackQueue, parsing' = parsing, net' = net
  PROVE  NetInv'
BY DEF NetInv, Items, Genuine

LEMMA MoreItems ==
  ASSUME NetInv, \A f \in Ends : Genuine(f) \subseteq Genuine(f)', received' = received,
         ackQueue' = ackQueue, parsing' = parsing, net' = net
  PROVE  NetInv'
<1>1. \A f \in Ends : Items(f) \subseteq Items(f)'
  BY PeerOfPeer DEF Items
<1>2. \A f \in Ends : Seq(Items(f)) \subseteq Seq(Items(f)')
  BY <1>1, SeqMonotonic
<1> QED
  BY <1>2 DEF NetInv

LEMMA SameReceive ==
  ASSUME ReceiveInv, sent' = sent, UNCHANGED receiveVars
  PROVE  ReceiveInv'
<1>1. \A e : Genuine(e)' = Genuine(e) /\ Arrived(e)' = Arrived(e)
  BY DEF Genuine, Arrived, receiveVars
<1> QED
  BY <1>1 DEF ReceiveInv, receiveVars

(* A packet may be dropped by its sender if it is not meant to be reliable,  *)
(* or when its number has been received.                                    *)
LEMMA StillKept ==
  ASSUME LayerInv, sent' = sent, arrived' = arrived, orderingList' = orderingList,
         \A p \in Ends : \A x \in Waiting(p) :
           x.kind \in {"RELIABLE", "RELIABLE_ORDERED"}
             => x \in Waiting(p)' \/ x.num \in received[Peer(p)]
  PROVE  NothingForgotten'
<1>1. SUFFICES ASSUME NEW e \in Ends, NEW m \in 1 .. Len(sent[Peer(e)]),
                      sent[Peer(e)][m] \in {"RELIABLE", "RELIABLE_ORDERED"}
               PROVE  m \in Arrived(e)' \/ Kept(e, m)'
  BY DEF NothingForgotten
<1>2. Arrived(e)' = Arrived(e)
  BY DEF Arrived
<1>3. m \in Arrived(e) \/ Kept(e, m)
  BY <1>1 DEF LayerInv, NothingForgotten
<1>4. Peer(e) \in Ends /\ Peer(Peer(e)) = e
  BY PeerOfPeer
<1>5. ASSUME NEW x \in Waiting(Peer(e)), x.msg = m
      PROVE  m \in Arrived(e)' \/ Kept(e, m)'
  <2>1. x \in Genuine(Peer(e))
    <3>1. x \in Entries(sendQueue[Peer(e)]) \/ x \in Entries(resendQueue[Peer(e)])
      BY <1>5 DEF Waiting
    <3>2. Entries(sendQueue[Peer(e)]) \subseteq Genuine(Peer(e))
      BY <1>4, EntriesInside DEF LayerInv, QueueInv
    <3>3. Entries(resendQueue[Peer(e)]) \subseteq Genuine(Peer(e)) \cup {Hole}
      BY <1>4, EntriesInside DEF LayerInv, QueueInv
    <3>4. x # Hole
      BY <3>1 DEF Entries
    <3> QED
      BY <3>1, <3>2, <3>3, <3>4
  <2>2. x.kind = sent[Peer(e)][m] /\ x.num = NumberOf(m)
    BY <1>5, <2>1 DEF Genuine
  <2>3. CASE x \in Waiting(Peer(e))'
    BY <1>5, <2>3 DEF Kept
  <2>4. CASE x.num \in received[e]
    <3>1. m \in Arrived(e) \/ \E p \in orderingList[e] : p.msg = m
      BY <1>1, <2>2, <2>4 DEF LayerInv, ReceiveInv
    <3> QED
      BY <1>2, <3>1 DEF Kept
  <2> QED
    BY <1>1, <1>4, <2>2, <2>3, <2>4
<1> QED
  BY <1>2, <1>3, <1>5 DEF Kept

-------------------------------------------------------------------------------
(* The steps of Send.                                                       *)

LEMMA ReadNumberKeeps ==
  ASSUME LayerInv, NEW e \in Ends, NEW t \in Threads, NEW k \in Kinds,
         Scripted(Append(sent[e], k), e), ReadNumber(e, t, k)
  PROVE  LayerInv'
<1>1. /\ UNCHANGED <<sent, packetNumber, writeIndex, sendQueue, resendQueue, armed, ackQueue>>
      /\ UNCHANGED <<windowSize, received, readIndex, orderingList, arrived, parsing, dead, net>>
      /\ sending' = [sending EXCEPT ![e][t] = [kind |-> k, num |-> packetNumber[e]]]
  BY DEF ReadNumber, queueVars, windowVars, receiveVars, parseVars
<1>2. SendInv'
  <2>1. ASSUME NEW f \in Ends, NEW u \in Threads, sending'[f][u] # None
        PROVE  /\ sending'[f][u].kind \in Kinds /\ sending'[f][u].num = packetNumber[f]
               /\ Scripted(Append(sent[f], sending'[f][u].kind), f)
    <3>1. CASE f = e /\ u = t
      <4>1. sending'[f][u] = [kind |-> k, num |-> packetNumber[e]]
        BY <1>1, <3>1 DEF LayerInv, SendInv
      <4> QED
        BY <1>1, <3>1, <4>1
    <3>2. CASE ~(f = e /\ u = t)
      <4>1. sending'[f][u] = sending[f][u]
        BY <1>1, <3>2 DEF LayerInv, SendInv
      <4>2. CallOK(f, sending[f][u])
        BY <2>1, <4>1 DEF LayerInv, SendInv
      <4> QED
        BY <4>1, <4>2 DEF CallOK
    <3> QED
      BY <3>1, <3>2
  <2>2. DOMAIN sending' = Ends /\ \A f \in Ends : DOMAIN sending'[f] = Threads
    BY <1>1 DEF LayerInv, SendInv
  <2> QED
    BY <1>1, <2>1, <2>2 DEF LayerInv, SendInv, CallOK
<1>3. QueueInv' /\ NetInv' /\ ReceiveInv' /\ WindowInv' /\ TimerRuns'
  BY <1>1, SameQueues, SameNet, SameReceive
  DEF LayerInv, WindowInv, TimerRuns, receiveVars
<1>4. NothingForgotten'
  BY <1>1, StillKept DEF Waiting
<1> QED
  BY <1>2, <1>3, <1>4 DEF LayerInv

LEMMA EnqueueKeeps ==
  ASSUME OneThread, ShortScripts, LayerInv, NEW e \in Ends, NEW t \in Threads, Enqueue(e, t)
  PROVE  /\ LayerInv'
         /\ \A f \in Ends : Waiting(f) \subseteq Waiting(f)'
         /\ \A f \in Ends : \A m \in 1 .. Len(sent'[f]) :
              m \in 1 .. Len(sent[f]) \/ \E x \in Waiting(f)' : x.msg = m
<1> DEFINE call == sending[e][t]
           k == call.kind
           m == Len(sent[e]) + 1
           p == [msg |-> m, kind |-> k, num |-> call.num, idx |-> writeIndex[e][Stream(k)]]
<1>1. /\ call # None
      /\ UNCHANGED <<resendQueue, armed, ackQueue, windowSize, received, readIndex>>
      /\ UNCHANGED <<orderingList, arrived, parsing, dead, net>>
      /\ sending' = [sending EXCEPT ![e][t] = None]
  BY DEF Enqueue, windowVars, receiveVars, parseVars
<1>2. /\ sent' = [sent EXCEPT ![e] = Append(@, k)]
      /\ packetNumber' = [packetNumber EXCEPT ![e] = NextNumber(@)]
      /\ writeIndex' = [writeIndex EXCEPT ![e] = Count(@, Stream(k))]
      /\ sendQueue' = [sendQueue EXCEPT ![e] = Append(@, p)]
  BY DEF Enqueue
<1>3. k \in Kinds /\ call.num = packetNumber[e] /\ Scripted(Append(sent[e], k), e)
  BY <1>1 DEF LayerInv, SendInv, CallOK
<1>4. sent \in [Ends -> Seq(Kinds)] /\ \A f \in Ends : sent[f] \in Seq(Kinds) /\ Len(sent[f]) \in Nat
  BY LenProperties DEF LayerInv, SendInv
<1>5. /\ sent' \in [Ends -> Seq(Kinds)]
      /\ Len(sent'[e]) = m /\ sent'[e][m] = k /\ m \in Nat \ {0}
      /\ \A i \in 1 .. Len(sent[e]) : sent'[e][i] = sent[e][i]
      /\ \A f \in Ends : f # e => sent'[f] = sent[f]
  <2>1. /\ Append(sent[e], k) \in Seq(Kinds) /\ Len(Append(sent[e], k)) = m
        /\ \A i \in 1 .. Len(sent[e]) : Append(sent[e], k)[i] = sent[e][i]
        /\ Append(sent[e], k)[m] = k
    BY <1>3, <1>4, AppendedSeq
  <2>2. sent'[e] = Append(sent[e], k) /\ \A f \in Ends : f # e => sent'[f] = sent[f]
    BY <1>2, <1>4
  <2>3. sent' \in [Ends -> Seq(Kinds)]
    <3> HIDE DEF k
    <3> QED
      BY <1>2, <1>4, <2>1
  <2> HIDE DEF k, m
  <2> QED
    BY <1>4, <2>1, <2>2, <2>3 DEF m
<1>6. m <= LogLength
  <2>1. PICK script \in Scripts[e] : IsPrefix(Append(sent[e], k), script)
    BY <1>3 DEF Scripted
  <2>2. Len(Append(sent[e], k)) <= Len(script)
    BY <2>1 DEF IsPrefix
  <2>3. Len(script) \in Nat /\ Len(script) <= LogLength
    BY BoundAssumption, LenProperties DEF ShortScripts
  <2>4. Len(Append(sent[e], k)) = m
    BY <1>3, <1>4, AppendedSeq
  <2> QED
    BY <1>4, <2>2, <2>3, <2>4, Ranges
<1>7. packetNumber[e] = NumberOf(m) /\ NextNumber(packetNumber[e]) = NumberOf(m + 1)
  BY <1>5, NumberOfMessage DEF LayerInv, SendInv
<1>8. \A f \in Ends : Genuine(f) \subseteq Genuine(f)'
  <2>1. ASSUME NEW f \in Ends, NEW x \in Genuine(f) PROVE x \in Genuine(f)'
    <3>1. CASE f = e
      <4>1. x.msg \in Nat \ {0} /\ x.msg \in 1 .. Len(sent[e])
        BY <1>4, <2>1, <3>1 DEF Genuine
      <4>2. \A i \in 1 .. x.msg : sent'[e][i] = sent[e][i]
        BY <1>4, <1>5, <4>1
      <4>3. Rank(sent'[e], x.msg) = Rank(sent[e], x.msg)
        BY <4>1, <4>2, SameRank
      <4> QED
        BY <1>4, <1>5, <2>1, <3>1, <4>3 DEF Genuine
    <3>2. CASE f # e
      BY <1>5, <2>1, <3>2 DEF Genuine
    <3> QED
      BY <3>1, <3>2
  <2> QED
    BY <2>1
<1>9. p \in Genuine(e)'
  <2>1. writeIndex[e][Stream(k)] \in IndexSet
    <3>1. Stream(k) \in Streams
      BY DEF Stream, Streams
    <3> QED
      BY <3>1 DEF LayerInv, SendInv
  <2>2. p.msg = m /\ p.kind = k /\ p.num = NumberOf(m) /\ NumberOf(m) \in NumberSet
    BY <1>3, <1>5, <1>7, NumberOfMessage
  <2>3. p \in [msg : Nat, kind : Kinds, num : NumberSet, idx : IndexSet]
    BY <1>3, <1>5, <2>1, <2>2
  <2>4. m \in 1 .. Len(sent'[e])
    BY <1>5
  <2>5. ASSUME Stream(k) # "none" PROVE p.idx = (FirstIndex + Rank(sent'[e], m)) % IndexRange
    <3>1. Rank(sent'[e], m) = Cardinality(Positions(sent[e], Stream(k), Len(sent[e])))
      <4>1. m - 1 = Len(sent[e])
        BY <1>4
      <4> HIDE DEF m, k
      <4>2. Positions(sent'[e], Stream(k), Len(sent[e])) = Positions(sent[e], Stream(k), Len(sent[e]))
        BY <1>4, <1>5, SamePositions
      <4> QED
        BY <1>5, <4>1, <4>2 DEF Rank
    <3>2. Stream(k) \in Streams \ {"none"}
      BY <2>5 DEF Stream, Streams
    <3> QED
      BY <3>1, <3>2 DEF LayerInv, SendInv
  <2> HIDE DEF p, m, k
  <2> QED
    BY <1>5, <2>2, <2>3, <2>4, <2>5 DEF Genuine
<1> HIDE DEF p, m, k
<1>10. SendInv'
  <2>1. ASSUME NEW f \in Ends, NEW u \in Threads, sending'[f][u] # None
        PROVE  f # e /\ sending'[f][u] = sending[f][u]
    <3>1. u = t
      BY DEF OneThread
    <3> QED
      BY <1>1, <2>1, <3>1 DEF LayerInv, SendInv
  <2>2. DOMAIN sending' = Ends /\ \A f \in Ends : DOMAIN sending'[f] = Threads
    BY <1>1 DEF LayerInv, SendInv
  <2>3. writeIndex' \in [Ends -> [Streams -> IndexSet]]
    <3>1. \A i \in IndexSet : NextIndex(i) \in IndexSet
      BY IndexInRange, Ranges DEF NextIndex, IndexSet
    <3>2. Count(writeIndex[e], Stream(k)) \in [Streams -> IndexSet]
      BY <3>1 DEF LayerInv, SendInv, Count
    <3> QED
      BY <1>2, <3>2 DEF LayerInv, SendInv
  <2>4. packetNumber' = [f \in Ends |-> NumberOf(Len(sent'[f]) + 1)]
    BY <1>2, <1>5, <1>7 DEF LayerInv, SendInv
  <2>5. \A f \in Ends : Len(sent'[f]) <= LogLength
    BY <1>5, <1>6 DEF LayerInv, SendInv
  <2>6. \A f \in Ends : \A u \in Threads : sending'[f][u] # None =>
          /\ sending'[f][u].kind \in Kinds /\ sending'[f][u].num = packetNumber'[f]
          /\ Scripted(Append(sent'[f], sending'[f][u].kind), f)
    BY <1>2, <1>5, <2>1 DEF LayerInv, SendInv, CallOK
  <2>7. ASSUME NEW f \in Ends, NEW s \in Streams \ {"none"}
        PROVE  writeIndex'[f][s] =
                 (FirstIndex + Cardinality(Positions(sent'[f], s, Len(sent'[f])))) % IndexRange
    <3> DEFINE before == Cardinality(Positions(sent[f], s, Len(sent[f])))
    <3>1. writeIndex[f][s] = (FirstIndex + before) % IndexRange /\ before \in Nat
      BY <1>4, PositionsFinite DEF LayerInv, SendInv
    <3>2. CASE f # e
      BY <1>2, <1>5, <3>1, <3>2 DEF LayerInv, SendInv
    <3>3. CASE f = e
      <4>1. Cardinality(Positions(sent'[e], s, m)) = before + IF Stream(k) = s THEN 1 ELSE 0
        <5>1. m = Len(sent[e]) + 1
          BY DEF m
        <5>2. Positions(sent'[e], s, Len(sent[e])) = Positions(sent[e], s, Len(sent[e]))
          BY <1>4, <1>5, SamePositions
        <5> QED
          BY <1>4, <1>5, <3>3, <5>1, <5>2, PositionsNext
      <4> HIDE DEF before
      <4>2. writeIndex'[e] = Count(writeIndex[e], Stream(k))
        BY <1>2 DEF LayerInv, SendInv
      <4>3. CASE Stream(k) = s
        <5>1. writeIndex'[e][s] = NextIndex(writeIndex[e][s])
          BY <4>2, <4>3 DEF Count, LayerInv, SendInv
        <5> QED
          BY <1>5, <3>1, <3>3, <4>1, <4>3, <5>1, IndexOfNext
      <4>4. CASE Stream(k) # s
        <5>1. writeIndex'[e][s] = writeIndex[e][s]
          BY <4>2, <4>4 DEF Count, LayerInv, SendInv
        <5> QED
          BY <1>5, <3>1, <3>3, <4>1, <4>4, <5>1
      <4> QED
        BY <4>3, <4>4
    <3> QED
      BY <3>2, <3>3
  <2> QED
    BY <1>5, <2>2, <2>3, <2>4, <2>5, <2>6, <2>7 DEF SendInv, CallOK
<1>11. QueueInv'
  <2>1. ASSUME NEW f \in Ends PROVE sendQueue'[f] \in Seq(Genuine(f)')
    <3>1. sendQueue[f] \in Seq(Genuine(f)')
      BY <1>8, SeqMonotonic DEF LayerInv, QueueInv
    <3>2. CASE f = e
      <4>1. Append(sendQueue[e], p) \in Seq(Genuine(e)')
        BY <1>9, <3>1, <3>2, AppendedSeq
      <4> QED
        BY <1>2, <3>2, <4>1 DEF LayerInv, QueueInv
    <3>3. CASE f # e
      BY <1>2, <3>1, <3>3 DEF LayerInv, QueueInv
    <3> QED
      BY <3>2, <3>3
  <2>2. ASSUME NEW f \in Ends PROVE resendQueue'[f] \in Seq(Genuine(f)' \cup {Hole})
    <3>1. Genuine(f) \cup {Hole} \subseteq Genuine(f)' \cup {Hole}
      BY <1>8
    <3> QED
      BY <1>1, <3>1, SeqMonotonic DEF LayerInv, QueueInv
  <2>3. DOMAIN sendQueue' = Ends /\ DOMAIN resendQueue' = Ends
    BY <1>1, <1>2 DEF LayerInv, QueueInv
  <2> QED
    BY <2>1, <2>2, <2>3 DEF QueueInv
<1>12. NetInv'
  BY <1>1, <1>8, MoreItems DEF LayerInv
<1>13. ASSUME NEW f \in Ends, NEW n \in 1 .. Len(sent'[f])
       PROVE  \/ n \in 1 .. Len(sent[f]) /\ sent'[f][n] = sent[f][n]
              \/ f = e /\ n = m
  BY <1>4, <1>5 DEF m
<1>14. ReceiveInv'
  <2>1. ASSUME NEW f \in Ends, NEW n \in received[f]
        PROVE  \E i \in 1 .. Len(sent'[Peer(f)]) : n = NumberOf(i)
    <3>1. PICK i \in 1 .. Len(sent[Peer(f)]) : n = NumberOf(i)
      BY DEF LayerInv, ReceiveInv
    <3>2. Peer(f) \in Ends
      BY PeerOfPeer
    <3>3. i \in 1 .. Len(sent'[Peer(f)])
      <4>1. CASE Peer(f) = e
        BY <1>4, <1>5, <4>1 DEF m
      <4>2. CASE Peer(f) # e
        BY <1>5, <3>2, <4>2
      <4> QED
        BY <4>1, <4>2
    <3> QED
      BY <3>1, <3>3
  <2>2. ASSUME NEW f \in Ends, NEW n \in 1 .. Len(sent'[Peer(f)]),
               NumberOf(n) \in received[f],
               sent'[Peer(f)][n] \in {"RELIABLE", "RELIABLE_ORDERED"}
        PROVE  n \in Arrived(f) \/ \E x \in orderingList[f] : x.msg = n
    <3>1. Peer(f) \in Ends
      BY PeerOfPeer
    <3>2. CASE n \in 1 .. Len(sent[Peer(f)]) /\ sent'[Peer(f)][n] = sent[Peer(f)][n]
      BY <2>2, <3>2 DEF LayerInv, ReceiveInv
    <3>3. CASE Peer(f) = e /\ n = m
      <4>1. PICK i \in 1 .. Len(sent[e]) : NumberOf(m) = NumberOf(i)
        BY <2>2, <3>3 DEF LayerInv, ReceiveInv
      <4>2. i \in Nat \ {0} /\ i <= LogLength /\ i < m
        BY <1>4, <1>6, <4>1, Ranges DEF m
      <4>3. i = m
        BY <1>5, <1>6, <4>1, <4>2, NumberIsOwn
      <4> QED
        BY <4>2, <4>3
    <3> QED
      BY <1>13, <3>1, <3>2, <3>3
  <2>3. \A f : Arrived(f)' = Arrived(f)
    BY <1>1 DEF Arrived
  <2>4. \A f \in Ends : orderingList[f] \subseteq Genuine(Peer(f))' /\ IsFiniteSet(orderingList[f])
    BY <1>8, PeerOfPeer DEF LayerInv, ReceiveInv
  <2>5. /\ received \in [Ends -> SUBSET NumberSet] /\ DOMAIN orderingList = Ends
        /\ arrived \in [Ends -> Seq(Nat)] /\ readIndex \in [Ends -> [Streams -> IndexSet]]
    BY DEF LayerInv, ReceiveInv
  <2> QED
    BY <1>1, <2>1, <2>2, <2>3, <2>4, <2>5 DEF ReceiveInv
<1>15. Waiting(e)' = Waiting(e) \cup {p} /\ \A f \in Ends : f # e => Waiting(f)' = Waiting(f)
  <2>1. sendQueue'[e] = Append(sendQueue[e], p) /\ \A f \in Ends : f # e => sendQueue'[f] = sendQueue[f]
    BY <1>2 DEF LayerInv, QueueInv
  <2>2. Entries(Append(sendQueue[e], p)) = Entries(sendQueue[e]) \cup {p}
    <3>1. sendQueue[e] \in Seq(Genuine(e)')
      BY <1>8, SeqMonotonic DEF LayerInv, QueueInv
    <3>2. p # Hole
      BY DEF p, Hole
    <3> QED
      BY <1>9, <3>1, <3>2, EntriesOfAppend
  <2> QED
    BY <1>1, <2>1, <2>2 DEF Waiting
<1>16. NothingForgotten'
  <2>2. ASSUME NEW f \in Ends, NEW n \in 1 .. Len(sent'[Peer(f)]),
               sent'[Peer(f)][n] \in {"RELIABLE", "RELIABLE_ORDERED"}
        PROVE  n \in Arrived(f)' \/ Kept(f, n)'
    <3>1. Peer(f) \in Ends
      BY PeerOfPeer
    <3>2. CASE n \in 1 .. Len(sent[Peer(f)]) /\ sent'[Peer(f)][n] = sent[Peer(f)][n]
      <4>1. n \in Arrived(f) \/ Kept(f, n)
        BY <2>2, <3>2 DEF LayerInv, NothingForgotten
      <4>2. Waiting(Peer(f)) \subseteq Waiting(Peer(f))'
        BY <1>15, <3>1
      <4> QED
        BY <1>1, <4>1, <4>2 DEF Kept, Arrived
    <3>3. CASE Peer(f) = e /\ n = m
      <4>1. p \in Waiting(Peer(f))' /\ p.msg = n
        BY <1>15, <3>3 DEF p
      <4> QED
        BY <4>1 DEF Kept
    <3> QED
      BY <1>13, <3>1, <3>2, <3>3
  <2> QED
    BY <2>2 DEF NothingForgotten
<1>17. WindowInv' /\ TimerRuns'
  BY <1>1 DEF LayerInv, WindowInv, TimerRuns
<1>18. p.msg = m
  BY DEF p
<1> QED
  BY <1>10, <1>11, <1>12, <1>13, <1>14, <1>17, <1>16, <1>15, <1>18 DEF LayerInv

-------------------------------------------------------------------------------
(* A connection given up, and a datagram taken from the network.             *)

(* A connection is given up, or an assertion ends the program.              *)
LEMMA TimeOutKeeps ==
  ASSUME LayerInv, NEW e \in Ends, TimeOut(e) \/ AssertFails(e)
  PROVE  LayerInv'
<1>1. /\ UNCHANGED sendVars
      /\ UNCHANGED <<sendQueue, resendQueue, armed, ackQueue, windowSize, parsing, net>>
      /\ UNCHANGED receiveVars
      /\ dead' = dead \cup {e}
  BY DEF TimeOut, AssertFails, queueVars, windowVars, parseVars
<1>2. sent' = sent /\ arrived' = arrived /\ orderingList' = orderingList /\ received' = received
  BY <1>1 DEF sendVars, receiveVars
<1>3. SendInv' /\ QueueInv' /\ NetInv' /\ ReceiveInv'
  BY <1>1, <1>2, SameSend, SameQueues, SameNet, SameReceive DEF LayerInv
<1>4. NothingForgotten'
  BY <1>1, <1>2, StillKept DEF Waiting
<1>5. WindowInv' /\ TimerRuns'
  BY <1>1 DEF LayerInv, WindowInv, TimerRuns
<1> QED
  BY <1>3, <1>4, <1>5 DEF LayerInv

LEMMA ReceiveKeeps ==
  ASSUME LayerInv, NEW e \in Ends, NEW d \in net, NEW copy \in BOOLEAN, Receive(e, d, copy)
  PROVE  LayerInv'
<1>1. /\ UNCHANGED sendVars
      /\ UNCHANGED <<sendQueue, resendQueue, armed, ackQueue, windowSize, dead>>
      /\ UNCHANGED receiveVars
      /\ parsing' = [parsing EXCEPT ![e] = d.items]
      /\ d.to = e /\ net' \subseteq net
  BY DEF Receive, queueVars, windowVars
<1>2. sent' = sent /\ arrived' = arrived /\ orderingList' = orderingList /\ received' = received
  BY <1>1 DEF sendVars, receiveVars
<1>3. SendInv' /\ QueueInv' /\ ReceiveInv'
  BY <1>1, <1>2, SameSend, SameQueues, SameReceive DEF LayerInv
<1>4. NetInv'
  <2>1. \A f : Items(f)' = Items(f)
    BY <1>2, SameItems
  <2>2. d.items \in Seq(Items(e))
    BY <1>1 DEF LayerInv, NetInv
  <2> QED
    BY <1>1, <1>2, <2>1, <2>2 DEF LayerInv, NetInv
<1>5. NothingForgotten'
  BY <1>1, <1>2, StillKept DEF Waiting
<1>6. WindowInv' /\ TimerRuns'
  BY <1>1 DEF LayerInv, WindowInv, TimerRuns
<1> QED
  BY <1>3, <1>4, <1>5, <1>6 DEF LayerInv

-------------------------------------------------------------------------------
(* An acknowledgement.                                                      *)

(* What the acknowledgement of y takes from the resend queue besides y.      *)
Outdates(y, x) ==
  y.kind = "RELIABLE_SEQUENCED" /\ x.kind = "RELIABLE_SEQUENCED" /\ IsOlder(x.idx, y.idx)

LEMMA AckedQueue ==
  ASSUME NEW G, NEW q \in Seq(G \cup {Hole}), NEW n
  PROVE  /\ Acked(q, n) \in Seq(G \cup {Hole})
         /\ \A x \in Entries(q) : \/ x \in Entries(Acked(q, n))
                                 \/ x.num = n
                                 \/ \E y \in Entries(q) : y.num = n /\ Outdates(y, x)
         /\ q = <<>> => Acked(q, n) = <<>>
<1> DEFINE hits == {i \in 1 .. Len(q) : q[i] # Hole /\ q[i].num = n}
           i == Min(hits)
           rest == IF i = 1 THEN Tail(q) ELSE [q EXCEPT ![i] = Hole]
           Outdated(p) == /\ p # Hole
                          /\ p.kind = "RELIABLE_SEQUENCED"
                          /\ IsOlder(p.idx, q[i].idx)
           final == IF q[i].kind # "RELIABLE_SEQUENCED" THEN rest
                    ELSE [j \in 1 .. Len(rest) |-> IF Outdated(rest[j]) THEN Hole ELSE rest[j]]
<1>1. Acked(q, n) = IF hits = {} THEN q ELSE final
  BY DEF Acked
<1>2. Len(q) \in Nat /\ \A j \in 1 .. Len(q) : q[j] \in G \cup {Hole}
  BY LenProperties, ElementOfSeq
<1>3. CASE hits = {}
  BY <1>1, <1>3
<1>4. CASE hits # {}
  <2>1. i \in 1 .. Len(q) /\ q[i].num = n /\ q[i] \in Entries(q)
    <3>1. hits \subseteq Nat
      BY <1>2
    <3>2. i \in hits
      <4> HIDE DEF hits
      <4> QED
        BY <1>4, <3>1, MinIsLeast
    <3> QED
      BY <3>2 DEF Entries
  <2> HIDE DEF hits, i
  <2>2. /\ rest \in Seq(G \cup {Hole})
        /\ \A x \in Entries(q) : x.num # n => x \in Entries(rest)
    <3>1. CASE i = 1
      <4>1. /\ Tail(q) \in Seq(G \cup {Hole}) /\ Len(Tail(q)) = Len(q) - 1
            /\ \A j \in 1 .. Len(q) - 1 : Tail(q)[j] = q[j + 1]
        BY <1>2, <2>1, HeadTailProperties
      <4>2. ASSUME NEW x \in Entries(q), x.num # n PROVE x \in Entries(Tail(q))
        <5>1. PICK j \in 1 .. Len(q) : x = q[j]
          BY DEF Entries
        <5>2. j # 1
          BY <2>1, <3>1, <4>2, <5>1
        <5>3. j - 1 \in 1 .. Len(Tail(q)) /\ Tail(q)[j - 1] = x
          BY <1>2, <4>1, <5>1, <5>2
        <5> QED
          BY <4>2, <5>3 DEF Entries
      <4> QED
        BY <3>1, <4>1, <4>2
    <3>2. CASE i # 1
      <4>1. /\ rest = [q EXCEPT ![i] = Hole] /\ rest \in Seq(G \cup {Hole})
            /\ Len(rest) = Len(q)
            /\ \A j \in 1 .. Len(q) : j # i => rest[j] = q[j]
        <5>1. [q EXCEPT ![i] = Hole] \in Seq(G \cup {Hole})
          BY <2>1, ExceptSeq
        <5>2. Len([q EXCEPT ![i] = Hole]) = Len(q)
          BY <2>1, ExceptSeq
        <5> QED
          BY <2>1, <3>2, <5>1, <5>2
      <4>2. ASSUME NEW x \in Entries(q), x.num # n PROVE x \in Entries(rest)
        <5>1. PICK j \in 1 .. Len(q) : x = q[j]
          BY DEF Entries
        <5>2. j # i
          BY <2>1, <4>2, <5>1
        <5> HIDE DEF rest
        <5> QED
          BY <4>1, <4>2, <5>1, <5>2 DEF Entries
      <4> QED
        BY <4>1, <4>2
    <3> QED
      BY <3>1, <3>2
  <2> HIDE DEF rest
  <2>3. CASE q[i].kind # "RELIABLE_SEQUENCED"
    <3>1. Acked(q, n) = rest /\ q # <<>>
      BY <1>1, <1>4, <2>1, <2>3
    <3> QED
      BY <2>2, <3>1
  <2>4. CASE q[i].kind = "RELIABLE_SEQUENCED"
    <3>1. Len(rest) \in Nat /\ \A j \in 1 .. Len(rest) : rest[j] \in G \cup {Hole}
      BY <2>2, LenProperties, ElementOfSeq
    <3> DEFINE Final(j) == IF Outdated(rest[j]) THEN Hole ELSE rest[j]
    <3>2. Acked(q, n) = [j \in 1 .. Len(rest) |-> Final(j)] /\ q # <<>>
      BY <1>1, <1>4, <2>1, <2>4
    <3>3. \A j \in 1 .. Len(rest) : Final(j) \in G \cup {Hole}
      BY <3>1
    <3>4. Acked(q, n) \in Seq(G \cup {Hole}) /\ Len(Acked(q, n)) = Len(rest)
          /\ \A j \in 1 .. Len(rest) : Acked(q, n)[j] = Final(j)
      <4> HIDE DEF Final
      <4> QED
        BY <3>1, <3>2, <3>3
    <3>5. ASSUME NEW x \in Entries(q), x.num # n, ~Outdates(q[i], x)
          PROVE  x \in Entries(Acked(q, n))
      <4>1. PICK j \in 1 .. Len(rest) : x = rest[j] /\ x # Hole
        BY <2>2, <3>5 DEF Entries
      <4>2. Final(j) = x
        BY <2>4, <3>5, <4>1 DEF Outdates
      <4> HIDE DEF Final
      <4> QED
        BY <3>4, <4>1, <4>2 DEF Entries
    <3> QED
      BY <2>1, <3>2, <3>4, <3>5
  <2> QED
    BY <2>3, <2>4
<1> QED
  BY <1>3, <1>4

LEMMA GrowthStaysInBounds ==
  ASSUME WindowInv, NEW e \in Ends, NEW count, NEW calm, Growth(e, count, calm)
  PROVE  windowSize' \in [Ends -> MinWindow .. MaxWindow]
<1> DEFINE larger == Lesser(windowSize[e] + 1, MaxWindow)
<1>1. windowSize' = windowSize \/ windowSize' = [windowSize EXCEPT ![e] = larger]
  BY DEF Growth, windowVars
<1>2. windowSize[e] \in MinWindow .. MaxWindow
  BY DEF WindowInv
<1>3. larger \in MinWindow .. MaxWindow
  BY <1>2, BoundAssumption DEF Lesser
<1> HIDE DEF larger
<1> QED
  BY <1>1, <1>3 DEF WindowInv

(* An acknowledgement of the packet itself, or of a newer sequenced one that *)
(* the sender keeps.                                                        *)
Answered(e, x) ==
  \/ x.num \in received[Peer(e)]
  \/ /\ x \in Entries(resendQueue[e])
     /\ \E y \in Entries(resendQueue[e]) : y.num \in received[Peer(e)] /\ Outdates(y, x)

LEMMA HandleAckKeeps ==
  ASSUME LayerInv, NEW e \in Ends, NEW calm \in BOOLEAN, HandleAck(e, calm)
  PROVE  LayerInv' /\ \A f \in Ends : \A x \in Waiting(f) : x \in Waiting(f)' \/ Answered(f, x)
<1> DEFINE item == Head(parsing[e])
<1>1. /\ parsing[e] # <<>> /\ item.ack
      /\ UNCHANGED sendVars /\ UNCHANGED receiveVars
      /\ UNCHANGED <<sendQueue, ackQueue, dead, net>>
      /\ armed' = [armed EXCEPT ![e] = resendQueue[e] # <<>>]
      /\ resendQueue' = [resendQueue EXCEPT ![e] = Acked(@, item.body)]
      /\ parsing' = [parsing EXCEPT ![e] = Tail(@)]
  BY DEF HandleAck, AckTimer
<1>2. sent' = sent /\ arrived' = arrived /\ orderingList' = orderingList /\ received' = received
  BY <1>1 DEF sendVars, receiveVars
<1>3. \A f : Genuine(f)' = Genuine(f) /\ Items(f)' = Items(f)
  BY <1>2, SameItems
<1>4. item.body \in received[Peer(e)] /\ Tail(parsing[e]) \in Seq(Items(e))
  <2>1. parsing[e] \in Seq(Items(e))
    BY DEF LayerInv, NetInv
  <2>2. item \in Items(e) /\ Tail(parsing[e]) \in Seq(Items(e))
    BY <1>1, <2>1, HeadTailProperties
  <2> QED
    BY <1>1, <2>2 DEF Items
<1>5. /\ Acked(resendQueue[e], item.body) \in Seq(Genuine(e) \cup {Hole})
      /\ \A x \in Entries(resendQueue[e]) :
           \/ x \in Entries(Acked(resendQueue[e], item.body))
           \/ x.num = item.body
           \/ \E y \in Entries(resendQueue[e]) : y.num = item.body /\ Outdates(y, x)
      /\ resendQueue[e] = <<>> => Acked(resendQueue[e], item.body) = <<>>
  <2>1. resendQueue[e] \in Seq(Genuine(e) \cup {Hole})
    BY DEF LayerInv, QueueInv
  <2> HIDE DEF item
  <2> QED
    BY <2>1, AckedQueue
<1>6. /\ resendQueue'[e] = Acked(resendQueue[e], item.body)
      /\ \A f \in Ends : f # e => resendQueue'[f] = resendQueue[f]
      /\ DOMAIN resendQueue' = Ends
  BY <1>1 DEF LayerInv, QueueInv
<1> HIDE DEF item
<1>7. SendInv' /\ ReceiveInv'
  BY <1>1, <1>2, SameSend, SameReceive DEF LayerInv
<1>8. QueueInv'
  BY <1>1, <1>3, <1>5, <1>6 DEF LayerInv, QueueInv
<1>9. NetInv'
  BY <1>1, <1>2, <1>3, <1>4 DEF LayerInv, NetInv
<1>10. ASSUME NEW f \in Ends, NEW x \in Waiting(f) PROVE x \in Waiting(f)' \/ Answered(f, x)
  <2>1. CASE f # e
    BY <1>1, <1>6, <1>10, <2>1 DEF Waiting
  <2>2. CASE f = e /\ x \in Entries(sendQueue[e])
    BY <1>1, <2>2 DEF Waiting
  <2>3. CASE f = e /\ x \in Entries(resendQueue[e])
    BY <1>4, <1>5, <1>6, <2>3 DEF Waiting, Answered
  <2> QED
    BY <1>10, <2>1, <2>2, <2>3 DEF Waiting
<1>11. NothingForgotten'
  <2>1. ASSUME NEW p \in Ends, NEW x \in Waiting(p), x.kind \in {"RELIABLE", "RELIABLE_ORDERED"}
        PROVE  x \in Waiting(p)' \/ x.num \in received[Peer(p)]
    BY <1>10, <2>1 DEF Answered, Outdates
  <2> QED
    BY <1>2, <2>1, StillKept
<1>12. WindowInv'
  <2>1. Growth(e, acksInFrame[e] + 1, calm)
    BY DEF HandleAck
  <2>2. windowSize' \in [Ends -> MinWindow .. MaxWindow]
    BY <2>1, GrowthStaysInBounds DEF LayerInv
  <2> QED
    BY <1>1, <2>2 DEF LayerInv, WindowInv
<1>13. TimerRuns'
  BY <1>1, <1>5, <1>6 DEF LayerInv, TimerRuns, WindowInv
<1> QED
  BY <1>7, <1>8, <1>9, <1>11, <1>12, <1>13, <1>10 DEF LayerInv

-------------------------------------------------------------------------------
(* A packet.                                                                *)

LEMMA LongerSeq ==
  ASSUME NEW list, NEW i, NEW s \in Seq(list), IsInjective(s)
  PROVE  Longer(list, i, s) \in Seq(list) /\ IsInjective(Longer(list, i, s))
<1> DEFINE next == {p \in list \ Range(s) : p.idx = (i + Len(s) + 1) % IndexRange}
           p == CHOOSE x \in next : TRUE
<1>1. CASE next = {}
  BY <1>1 DEF Longer
<1>2. CASE next # {}
  <2>1. p \in next
    <3> HIDE DEF next
    <3> QED
      BY <1>2
  <2>2. p \in list /\ p \notin Range(s)
    BY <2>1
  <2>3. Longer(list, i, s) = Append(s, p)
    BY <1>2, Zenon DEF Longer
  <2> HIDE DEF p
  <2>4. /\ Append(s, p) \in Seq(list) /\ Len(Append(s, p)) = Len(s) + 1 /\ Len(s) \in Nat
        /\ \A j \in 1 .. Len(s) : Append(s, p)[j] = s[j]
        /\ Append(s, p)[Len(s) + 1] = p
    BY <2>2, AppendedSeq, LenProperties
  <2>5. DOMAIN s = 1 .. Len(s) /\ DOMAIN Append(s, p) = 1 .. Len(s) + 1
    BY <2>4, LenProperties
  <2>6. ASSUME NEW j \in 1 .. Len(s) + 1, NEW k \in 1 .. Len(s) + 1,
               Append(s, p)[j] = Append(s, p)[k]
        PROVE  j = k
    <3>1. \A l \in 1 .. Len(s) : s[l] # p
      BY <2>2, <2>5 DEF Range
    <3>2. CASE j = Len(s) + 1 /\ k = Len(s) + 1
      BY <3>2
    <3>3. CASE j # Len(s) + 1 /\ k # Len(s) + 1
      <4>1. j \in 1 .. Len(s) /\ k \in 1 .. Len(s) /\ s[j] = s[k]
        BY <2>4, <2>6, <3>3
      <4> QED
        BY <2>5, <4>1 DEF IsInjective
    <3>4. CASE j = Len(s) + 1 /\ k # Len(s) + 1
      BY <2>4, <2>6, <3>1, <3>4
    <3>5. CASE j # Len(s) + 1 /\ k = Len(s) + 1
      BY <2>4, <2>6, <3>1, <3>5
    <3> QED
      BY <3>2, <3>3, <3>4, <3>5
  <2>7. IsInjective(Append(s, p))
    BY <2>5, <2>6 DEF IsInjective
  <2> QED
    BY <2>3, <2>4, <2>7
<1> QED
  BY <1>1, <1>2

(* The recursion of Following, of which its function is a fixed point.       *)
FollowingBody(list, i, C, g) ==
  [n \in 0 .. C |-> IF n = 0 THEN <<>> ELSE Longer(list, i, g[n - 1])]

LEMMA FollowingIsDefined ==
  ASSUME NEW list, NEW i, NEW C \in Nat
  PROVE  \E g : g = FollowingBody(list, i, C, g)
<1> DEFINE Step(g, n) == IF n = 0 THEN <<>> ELSE Longer(list, i, g[n - 1])
           P == {k \in 0 .. C :
                   \E g : g = [n \in 0 .. k |-> g[n]] /\ \A n \in 0 .. k : g[n] = Step(g, n)}
<1>1. 0 \in P
  <2> DEFINE g == [n \in 0 .. 0 |-> <<>>]
  <2>1. g = [n \in 0 .. 0 |-> g[n]] /\ \A n \in 0 .. 0 : g[n] = Step(g, n)
    OBVIOUS
  <2> HIDE DEF g
  <2> QED
    BY <2>1
<1>2. ASSUME NEW k \in 0 .. C - 1, k \in P PROVE k + 1 \in P
  <2>1. PICK g : g = [n \in 0 .. k |-> g[n]] /\ \A n \in 0 .. k : g[n] = Step(g, n)
    BY <1>2
  <2> DEFINE h == [n \in 0 .. k + 1 |-> IF n = k + 1 THEN Step(g, k + 1) ELSE g[n]]
  <2>2. ASSUME NEW n \in 0 .. k + 1 PROVE h[n] = Step(h, n)
    <3>1. CASE n = k + 1
      <4>1. h[n] = Step(g, n) /\ h[n - 1] = g[n - 1] /\ n # 0
        BY <3>1
      <4> HIDE DEF h
      <4> QED
        BY <4>1
    <3>2. CASE n # k + 1
      <4>1. n \in 0 .. k /\ h[n] = g[n] /\ (n # 0 => h[n - 1] = g[n - 1])
        BY <3>2
      <4>2. g[n] = Step(g, n)
        BY <2>1, <4>1
      <4> HIDE DEF h
      <4> QED
        BY <4>1, <4>2
    <3> QED
      BY <3>1, <3>2
  <2>3. h = [n \in 0 .. k + 1 |-> h[n]]
    OBVIOUS
  <2>4. k + 1 \in 0 .. C
    OBVIOUS
  <2> HIDE DEF h, Step
  <2> QED
    BY <2>2, <2>3, <2>4
<1>3. C \in P
  <2> HIDE DEF P
  <2>1. \A k \in 0 .. C - 1 : k \in P => k + 1 \in P
    BY <1>2
  <2>2. \A k \in 0 .. C : k \in P
    BY <1>1, <2>1, AllUpTo
  <2> QED
    BY <2>2
<1>4. PICK g : g = [n \in 0 .. C |-> g[n]] /\ \A n \in 0 .. C : g[n] = Step(g, n)
  BY <1>3
<1>5. g = [n \in 0 .. C |-> Step(g, n)]
  <2> HIDE DEF Step
  <2> QED
    BY <1>4
<1>6. g = FollowingBody(list, i, C, g)
  BY <1>5 DEF FollowingBody
<1> QED
  BY <1>6

(* What holds of no packet, and of one more, holds of those that follow.     *)
LEMMA FollowingInduction ==
  ASSUME NEW list, IsFiniteSet(list), NEW i, NEW S,
         <<>> \in S, \A s \in S : Longer(list, i, s) \in S
  PROVE  Following(list, i) \in S
<1> DEFINE C == Cardinality(list)
           f == CHOOSE g : g = FollowingBody(list, i, C, g)
           P == {n \in 0 .. C : f[n] \in S}
<1>1. C \in Nat
  BY FS_CardinalityType
<1>2. Following(list, i) = f[C]
  BY Zenon DEF Following, FollowingBody
<1> HIDE DEF C
<1>3. \E g : g = FollowingBody(list, i, C, g)
  BY <1>1, FollowingIsDefined
<1>4. f = FollowingBody(list, i, C, f)
  BY <1>3, Zenon
<1> HIDE DEF f
<1>5. f[0] = <<>> /\ \A n \in 1 .. C : f[n] = Longer(list, i, f[n - 1])
  <2>1. ASSUME NEW n \in 0 .. C PROVE f[n] = IF n = 0 THEN <<>> ELSE Longer(list, i, f[n - 1])
    BY <1>4, Zenon DEF FollowingBody
  <2>2. 0 \in 0 .. C /\ \A n \in 1 .. C : n \in 0 .. C /\ n # 0
    BY <1>1
  <2> QED
    BY <2>1, <2>2
<1>6. 0 \in P
  <2>1. 0 \in 0 .. C
    BY <1>1
  <2> QED
    BY <1>5, <2>1
<1>7. ASSUME NEW n \in 0 .. C - 1, n \in P PROVE n + 1 \in P
  <2>1. n + 1 \in 1 .. C /\ n + 1 \in 0 .. C /\ (n + 1) - 1 = n
    BY <1>1
  <2>2. f[n + 1] = Longer(list, i, f[n])
    BY <1>5, <2>1
  <2> QED
    BY <1>7, <2>1, <2>2
<1>8. C \in P
  <2> HIDE DEF P
  <2>1. \A n \in 0 .. C - 1 : n \in P => n + 1 \in P
    BY <1>7
  <2>2. \A n \in 0 .. C : n \in P
    BY <1>1, <1>6, <2>1, AllUpTo
  <2> QED
    BY <1>1, <2>2
<1> QED
  BY <1>2, <1>8

(* What follows is in the list, each packet once.                            *)
LEMMA FollowingSeq ==
  ASSUME NEW list, IsFiniteSet(list), NEW i
  PROVE  Following(list, i) \in Seq(list) /\ IsInjective(Following(list, i))
<1> DEFINE S == {s \in Seq(list) : IsInjective(s)}
<1>1. <<>> \in S
  BY DEF IsInjective
<1>2. \A s \in S : Longer(list, i, s) \in S
  BY LongerSeq
<1> HIDE DEF S
<1>3. Following(list, i) \in S
  BY <1>1, <1>2, FollowingInduction
<1> QED
  BY <1>3 DEF S

(* A message that has arrived, or waits for its turn.                        *)
InHand(e, m) == m \in Arrived(e) \/ \E p \in orderingList[e] : p.msg = m

LEMMA Delivered ==
  ASSUME ReceiveInv, NEW e \in Ends, NEW g, NEW packets \in Seq(Genuine(g)),
         Deliver(e, packets)
  PROVE  /\ arrived' \in [Ends -> Seq(Nat)]
         /\ \A f \in Ends : Arrived(f) \subseteq Arrived(f)'
         /\ \A i \in 1 .. Len(packets) : packets[i].msg \in Arrived(e)'
<1> DEFINE new == [i \in 1 .. Len(packets) |-> packets[i].msg]
<1>1. Len(packets) \in Nat /\ \A i \in 1 .. Len(packets) : packets[i].msg \in Nat
  <2>1. ASSUME NEW i \in 1 .. Len(packets) PROVE packets[i].msg \in Nat
    <3>1. packets[i] \in Genuine(g)
      BY ElementOfSeq
    <3> QED
      BY <3>1 DEF Genuine
  <2> QED
    BY <2>1, LenProperties
<1>2. new \in Seq(Nat) /\ Len(new) = Len(packets) /\ \A i \in 1 .. Len(packets) : new[i] = packets[i].msg
  BY <1>1
<1> HIDE DEF new
<1>3. arrived \in [Ends -> Seq(Nat)] /\ arrived' = [arrived EXCEPT ![e] = @ \o new]
  BY DEF ReceiveInv, Deliver, new
<1>4. /\ arrived[e] \o new \in Seq(Nat) /\ Len(arrived[e]) \in Nat
      /\ Len(arrived[e] \o new) = Len(arrived[e]) + Len(new)
      /\ \A i \in 1 .. Len(arrived[e]) + Len(new) :
           (arrived[e] \o new)[i] = IF i <= Len(arrived[e]) THEN arrived[e][i]
                                    ELSE new[i - Len(arrived[e])]
  <2> DEFINE old == arrived[e]
  <2>1. old \in Seq(Nat) /\ new \in Seq(Nat)
    BY <1>2, <1>3
  <2> HIDE DEF old
  <2>2. /\ old \o new \in Seq(Nat) /\ Len(old) \in Nat
        /\ Len(old \o new) = Len(old) + Len(new)
        /\ \A i \in 1 .. Len(old) + Len(new) :
             (old \o new)[i] = IF i <= Len(old) THEN old[i] ELSE new[i - Len(old)]
    BY <2>1, JoinedSeq
  <2> QED
    BY <2>2 DEF old
<1>5. arrived'[e] = arrived[e] \o new /\ \A f \in Ends : f # e => arrived'[f] = arrived[f]
  BY <1>3
<1>6. arrived' \in [Ends -> Seq(Nat)]
  BY <1>3, <1>4
<1>7. ASSUME NEW f \in Ends, NEW n \in Arrived(f) PROVE n \in Arrived(f)'
  <2>1. PICK i \in 1 .. Len(arrived[f]) : n = arrived[f][i]
    BY DEF Arrived
  <2>2. i \in 1 .. Len(arrived'[f]) /\ n = arrived'[f][i]
    <3>1. CASE f = e
      BY <1>1, <1>2, <1>4, <1>5, <2>1, <3>1
    <3>2. CASE f # e
      BY <1>5, <2>1, <3>2
    <3> QED
      BY <3>1, <3>2
  <2> QED
    BY <2>2 DEF Arrived
<1>8. ASSUME NEW i \in 1 .. Len(packets) PROVE packets[i].msg \in Arrived(e)'
  <2> DEFINE j == Len(arrived[e]) + i
  <2>1. j \in 1 .. Len(arrived[e]) + Len(new) /\ ~(j <= Len(arrived[e])) /\ j - Len(arrived[e]) = i
    BY <1>1, <1>2, <1>4
  <2> HIDE DEF j
  <2>2. j \in 1 .. Len(arrived'[e]) /\ arrived'[e][j] = packets[i].msg
    BY <1>2, <1>4, <1>5, <2>1
  <2> QED
    BY <2>2 DEF Arrived
<1> QED
  BY <1>6, <1>7, <1>8

(* A packet whose number is new: what was in hand stays, and a message that  *)
(* is not sequenced comes to it.                                            *)
Accepted(e, p) ==
  /\ arrived' \in [Ends -> Seq(Nat)] /\ readIndex' \in [Ends -> [Streams -> IndexSet]]
  /\ DOMAIN orderingList' = Ends
  /\ \A f \in Ends : orderingList'[f] \subseteq Genuine(Peer(f)) /\ IsFiniteSet(orderingList'[f])
  /\ \A f \in Ends : \A m : InHand(f, m) => InHand(f, m)'
  /\ p.kind \in {"RELIABLE", "RELIABLE_ORDERED"} => InHand(e, p.msg)'

LEMMA OrderedAccepted ==
  ASSUME ReceiveInv, NEW e \in Ends, NEW p \in Genuine(Peer(e)), HandleOrdered(e, p)
  PROVE  Accepted(e, p)
<1> DEFINE list == orderingList[e]
           more == Following(list, p.idx)
           packets == <<p>> \o more
<1>1. /\ arrived \in [Ends -> Seq(Nat)] /\ readIndex \in [Ends -> [Streams -> IndexSet]]
      /\ DOMAIN orderingList = Ends
      /\ \A f \in Ends : orderingList[f] \subseteq Genuine(Peer(f)) /\ IsFiniteSet(orderingList[f])
  BY DEF ReceiveInv
<1>2. CASE readIndex[e]["ordered"] # p.idx
  <2>1. /\ orderingList' = [orderingList EXCEPT ![e] = @ \cup {p}]
        /\ readIndex' = readIndex /\ arrived' = arrived
    BY <1>2 DEF HandleOrdered
  <2>2. /\ orderingList'[e] = list \cup {p} /\ DOMAIN orderingList' = Ends
        /\ \A f \in Ends : f # e => orderingList'[f] = orderingList[f]
    BY <1>1, <2>1
  <2>3. IsFiniteSet(list \cup {p})
    BY <1>1, FS_AddElement
  <2>4. \A f \in Ends : orderingList'[f] \subseteq Genuine(Peer(f)) /\ IsFiniteSet(orderingList'[f])
    BY <1>1, <2>2, <2>3
  <2>5. \A f \in Ends : \A m : InHand(f, m) => InHand(f, m)'
    BY <2>1, <2>2 DEF InHand, Arrived
  <2>6. InHand(e, p.msg)'
    BY <2>2 DEF InHand
  <2> QED
    BY <1>1, <2>1, <2>2, <2>4, <2>5, <2>6 DEF Accepted
<1>3. CASE readIndex[e]["ordered"] = p.idx
  <2>1. /\ Deliver(e, packets)
        /\ orderingList' = [orderingList EXCEPT ![e] = @ \ Range(more)]
        /\ readIndex' = [readIndex EXCEPT ![e]["ordered"] = (@ + 1 + Len(more)) % IndexRange]
    BY <1>3 DEF HandleOrdered
  <2>2. more \in Seq(list)
    BY <1>1, FollowingSeq
  <2> HIDE DEF more
  <2>3. more \in Seq(Genuine(Peer(e))) /\ <<p>> \in Seq(Genuine(Peer(e)))
    BY <1>1, <2>2, SeqMonotonic
  <2>4. /\ packets \in Seq(Genuine(Peer(e))) /\ Len(more) \in Nat /\ Len(packets) = 1 + Len(more)
        /\ \A i \in 1 .. 1 + Len(more) : packets[i] = IF i <= 1 THEN p ELSE more[i - 1]
    <3> DEFINE G == Genuine(Peer(e))
               head == <<p>>
    <3>1. more \in Seq(G) /\ head \in Seq(G) /\ Len(head) = 1 /\ head[1] = p
      BY <2>3
    <3> HIDE DEF G, head
    <3>2. /\ head \o more \in Seq(G) /\ Len(head) \in Nat /\ Len(more) \in Nat
          /\ Len(head \o more) = Len(head) + Len(more)
          /\ \A i \in 1 .. Len(head) + Len(more) :
               (head \o more)[i] = IF i <= Len(head) THEN head[i] ELSE more[i - Len(head)]
      BY <3>1, JoinedSeq
    <3>3. \A i \in 1 .. 1 + Len(more) : (head \o more)[i] = IF i <= 1 THEN p ELSE more[i - 1]
      BY <3>1, <3>2
    <3> QED
      BY <3>1, <3>2, <3>3 DEF G, head
  <2> HIDE DEF packets
  <2>5. /\ arrived' \in [Ends -> Seq(Nat)]
        /\ \A f \in Ends : Arrived(f) \subseteq Arrived(f)'
        /\ \A i \in 1 .. Len(packets) : packets[i].msg \in Arrived(e)'
    BY <2>1, <2>4, Delivered
  <2>6. p.msg \in Arrived(e)' /\ \A x \in Range(more) : x.msg \in Arrived(e)'
    <3>1. 1 \in 1 .. Len(packets) /\ packets[1] = p
      BY <2>4
    <3>2. ASSUME NEW x \in Range(more) PROVE x.msg \in Arrived(e)'
      <4>1. PICK j \in 1 .. Len(more) : x = more[j]
        BY <2>3, <2>4 DEF Range
      <4>2. j + 1 \in 1 .. Len(packets) /\ packets[j + 1] = x
        BY <2>4, <4>1
      <4> QED
        BY <2>5, <4>2
    <3> QED
      BY <2>5, <3>1, <3>2
  <2>7. /\ orderingList'[e] = list \ Range(more) /\ DOMAIN orderingList' = Ends
        /\ \A f \in Ends : f # e => orderingList'[f] = orderingList[f]
    BY <1>1, <2>1
  <2>8. IsFiniteSet(list \ Range(more))
    <3>1. IsFiniteSet(list) /\ list \ Range(more) \subseteq list
      BY <1>1
    <3> HIDE DEF list
    <3> QED
      BY <3>1, FS_Subset
  <2>9. \A f \in Ends : orderingList'[f] \subseteq Genuine(Peer(f)) /\ IsFiniteSet(orderingList'[f])
    BY <1>1, <2>7, <2>8
  <2>10. readIndex' \in [Ends -> [Streams -> IndexSet]]
    <3>1. readIndex[e]["ordered"] \in Nat
      BY <1>1, Ranges DEF Streams, IndexSet
    <3>2. (readIndex[e]["ordered"] + 1 + Len(more)) % IndexRange \in IndexSet
      BY <2>4, <3>1, IndexInRange
    <3> QED
      BY <1>1, <2>1, <3>2
  <2>11. ASSUME NEW f \in Ends, NEW m, InHand(f, m) PROVE InHand(f, m)'
    <3>1. CASE m \in Arrived(f)
      BY <2>5, <3>1 DEF InHand
    <3>2. ASSUME NEW x \in orderingList[f], x.msg = m PROVE InHand(f, m)'
      BY <2>6, <2>7, <3>2 DEF InHand
    <3> QED
      BY <2>11, <3>1, <3>2 DEF InHand
  <2>12. InHand(e, p.msg)'
    BY <2>6 DEF InHand
  <2> QED
    BY <2>5, <2>7, <2>9, <2>10, <2>11, <2>12 DEF Accepted
<1> QED
  BY <1>2, <1>3

LEMMA OtherAccepted ==
  ASSUME ReceiveInv, NEW e \in Ends, NEW p \in Genuine(Peer(e)),
         \/ Stream(p.kind) = "sequenced" /\ HandleSequenced(e, p)
         \/ Stream(p.kind) = "none" /\ HandlePlain(e, p)
  PROVE  Accepted(e, p)
<1>1. /\ arrived \in [Ends -> Seq(Nat)] /\ readIndex \in [Ends -> [Streams -> IndexSet]]
      /\ DOMAIN orderingList = Ends
      /\ \A f \in Ends : orderingList[f] \subseteq Genuine(Peer(f)) /\ IsFiniteSet(orderingList[f])
  BY DEF ReceiveInv
<1>2. orderingList' = orderingList
  BY DEF HandleSequenced, HandlePlain
<1>3. readIndex' \in [Ends -> [Streams -> IndexSet]]
  <2> DEFINE next == NextIndex(p.idx)
  <2>1. next \in IndexSet
    <3>1. p.idx \in IndexSet
      BY DEF Genuine
    <3>2. p.idx + 1 \in Nat
      BY <3>1, Ranges DEF IndexSet
    <3> QED
      BY <3>2, IndexInRange DEF NextIndex
  <2>2. readIndex' = readIndex \/ readIndex' = [readIndex EXCEPT ![e]["sequenced"] = next]
    BY DEF HandleSequenced, HandlePlain
  <2> HIDE DEF next
  <2>3. [readIndex EXCEPT ![e]["sequenced"] = next] \in [Ends -> [Streams -> IndexSet]]
    BY <1>1, <2>1
  <2> QED
    BY <1>1, <2>2, <2>3
<1>4. CASE Deliver(e, <<p>>)
  <2>1. <<p>> \in Seq(Genuine(Peer(e))) /\ Len(<<p>>) = 1 /\ <<p>>[1] = p
    OBVIOUS
  <2>2. /\ arrived' \in [Ends -> Seq(Nat)]
        /\ \A f \in Ends : Arrived(f) \subseteq Arrived(f)'
        /\ \A i \in 1 .. Len(<<p>>) : <<p>>[i].msg \in Arrived(e)'
    BY <1>4, <2>1, Delivered
  <2>3. p.msg \in Arrived(e)'
    BY <2>1, <2>2
  <2> QED
    BY <1>1, <1>2, <1>3, <2>2, <2>3 DEF Accepted, InHand
<1>5. CASE ~Deliver(e, <<p>>)
  <2>1. arrived' = arrived /\ Stream(p.kind) = "sequenced"
    BY <1>5 DEF HandleSequenced, HandlePlain
  <2>2. p.kind \notin {"RELIABLE", "RELIABLE_ORDERED"}
    BY <2>1 DEF Stream, Sequenced
  <2> QED
    BY <1>1, <1>2, <1>3, <2>1, <2>2 DEF Accepted, InHand, Arrived
<1> QED
  BY <1>4, <1>5

LEMMA HandlePacketKeeps ==
  ASSUME LayerInv, NEW e \in Ends, NEW calm \in BOOLEAN, HandlePacket(e, calm)
  PROVE  LayerInv'
<1> DEFINE item == Head(parsing[e])
<1>0. PICK p : p = item.body
  OBVIOUS
<1>1. /\ parsing[e] # <<>> /\ ~item.ack
      /\ ackQueue' = IF Reliable(p.kind) THEN [ackQueue EXCEPT ![e] = Append(@, p.num)] ELSE ackQueue
      /\ parsing' = [parsing EXCEPT ![e] = Tail(@)]
      /\ UNCHANGED sendVars /\ UNCHANGED <<sendQueue, resendQueue, armed, dead, net>>
  BY <1>0 DEF HandlePacket, queueVars
<1>2. \/ p.num \in received[e] /\ UNCHANGED receiveVars
      \/ /\ p.num \notin received[e]
         /\ received' = [received EXCEPT ![e] = @ \cup {p.num}]
         /\ \/ Stream(p.kind) = "ordered" /\ HandleOrdered(e, p)
            \/ Stream(p.kind) = "sequenced" /\ HandleSequenced(e, p)
            \/ Stream(p.kind) = "none" /\ HandlePlain(e, p)
  BY <1>0 DEF HandlePacket, Logged
<1>3. Growth(e, acksInFrame[e], calm)
  BY DEF HandlePacket
<1>4. p \in Genuine(Peer(e)) /\ Tail(parsing[e]) \in Seq(Items(e))
  <2>1. parsing[e] \in Seq(Items(e))
    BY DEF LayerInv, NetInv
  <2>2. item \in Items(e) /\ Tail(parsing[e]) \in Seq(Items(e))
    BY <1>1, <2>1, HeadTailProperties
  <2> QED
    BY <1>0, <1>1, <2>2 DEF Items
<1> HIDE DEF item
<1>5. /\ p.msg \in 1 .. Len(sent[Peer(e)]) /\ p.kind = sent[Peer(e)][p.msg]
      /\ p.num = NumberOf(p.msg) /\ p.num \in NumberSet
  BY <1>4 DEF Genuine
<1>6. sent' = sent /\ \A f : Genuine(f)' = Genuine(f) /\ Waiting(f)' = Waiting(f)
  BY <1>1 DEF sendVars, Genuine, Waiting
<1>7. /\ received' \in [Ends -> SUBSET NumberSet]
      /\ p.num \in received'[e] /\ \A f \in Ends : received[f] \subseteq received'[f]
      /\ \A f \in Ends : \A n \in received'[f] : n \in received[f] \/ (f = e /\ n = p.num)
  <2>1. received \in [Ends -> SUBSET NumberSet]
    BY DEF LayerInv, ReceiveInv
  <2>2. CASE p.num \in received[e] /\ UNCHANGED receiveVars
    BY <2>1, <2>2 DEF receiveVars
  <2>3. CASE received' = [received EXCEPT ![e] = @ \cup {p.num}]
    BY <1>5, <2>1, <2>3
  <2> QED
    BY <1>2, <2>2, <2>3
<1>8. /\ arrived' \in [Ends -> Seq(Nat)] /\ readIndex' \in [Ends -> [Streams -> IndexSet]]
      /\ DOMAIN orderingList' = Ends
      /\ \A f \in Ends : orderingList'[f] \subseteq Genuine(Peer(f)) /\ IsFiniteSet(orderingList'[f])
      /\ \A f \in Ends : \A m : InHand(f, m) => InHand(f, m)'
      /\ p.kind \in {"RELIABLE", "RELIABLE_ORDERED"} => InHand(e, p.msg)'
  <2>1. CASE p.num \in received[e] /\ UNCHANGED receiveVars
    <3>1. \A f \in Ends : \A m : InHand(f, m)' <=> InHand(f, m)
      BY <2>1 DEF InHand, Arrived, receiveVars
    <3>2. p.kind \in {"RELIABLE", "RELIABLE_ORDERED"} => InHand(e, p.msg)
      BY <1>5, <2>1 DEF LayerInv, ReceiveInv, InHand
    <3> QED
      BY <2>1, <3>1, <3>2 DEF LayerInv, ReceiveInv, receiveVars
  <2>2. CASE Stream(p.kind) = "ordered" /\ HandleOrdered(e, p)
    BY <1>4, <2>2, OrderedAccepted DEF LayerInv, Accepted
  <2>3. CASE \/ Stream(p.kind) = "sequenced" /\ HandleSequenced(e, p)
             \/ Stream(p.kind) = "none" /\ HandlePlain(e, p)
    BY <1>4, <2>3, OtherAccepted DEF LayerInv, Accepted
  <2> QED
    BY <1>2, <2>1, <2>2, <2>3
<1>9. SendInv' /\ QueueInv'
  BY <1>1, <1>6, SameSend, SameQueues DEF LayerInv
<1>10. NetInv'
  <2>1. \A f \in Ends : Seq(Items(f)) \subseteq Seq(Items(f)') /\ Seq(received[f]) \subseteq Seq(received'[f])
    <3>1. \A f \in Ends : Items(f) \subseteq Items(f)'
      BY <1>6, <1>7, PeerOfPeer DEF Items
    <3> QED
      BY <1>7, <3>1, SeqMonotonic
  <2>2. \A f \in Ends : ackQueue'[f] \in Seq(received'[f])
    <3>1. ackQueue[e] \in Seq(received'[e])
      BY <2>1 DEF LayerInv, NetInv
    <3>2. Append(ackQueue[e], p.num) \in Seq(received'[e])
      BY <1>7, <3>1, AppendedSeq
    <3> QED
      BY <1>1, <2>1, <3>2 DEF LayerInv, NetInv
  <2>3. \A f \in Ends : parsing'[f] \in Seq(Items(f)')
    BY <1>1, <1>4, <2>1 DEF LayerInv, NetInv
  <2>4. \A d \in net' : d.to \in Ends /\ d.items \in Seq(Items(d.to)')
    BY <1>1, <2>1 DEF LayerInv, NetInv
  <2>5. DOMAIN ackQueue' = Ends /\ DOMAIN parsing' = Ends
    BY <1>1 DEF LayerInv, NetInv
  <2> QED
    BY <2>2, <2>3, <2>4, <2>5 DEF NetInv
<1>11. ReceiveInv'
  <2>1. ASSUME NEW f \in Ends, NEW n \in received'[f]
        PROVE  \E m \in 1 .. Len(sent[Peer(f)]) : n = NumberOf(m)
    <3>1. n \in received[f] \/ (f = e /\ n = p.num)
      BY <1>7, <2>1
    <3>2. CASE n \in received[f]
      BY <3>2 DEF LayerInv, ReceiveInv
    <3>3. CASE f = e /\ n = p.num
      BY <1>5, <3>3
    <3> QED
      BY <3>1, <3>2, <3>3
  <2>2. ASSUME NEW f \in Ends, NEW m \in 1 .. Len(sent[Peer(f)]), NumberOf(m) \in received'[f],
               sent[Peer(f)][m] \in {"RELIABLE", "RELIABLE_ORDERED"}
        PROVE  InHand(f, m)'
    <3>1. CASE NumberOf(m) \in received[f]
      <4>1. InHand(f, m)
        BY <2>2, <3>1 DEF LayerInv, ReceiveInv, InHand
      <4> QED
        BY <1>8, <4>1
    <3>2. CASE f = e /\ NumberOf(m) = p.num
      <4>1. Len(sent[Peer(e)]) \in Nat /\ Len(sent[Peer(e)]) <= LogLength /\ LogLength \in Nat
        BY PeerOfPeer, LenProperties, Ranges DEF LayerInv, SendInv
      <4>2. /\ m \in Nat \ {0} /\ m <= LogLength
            /\ p.msg \in Nat \ {0} /\ p.msg <= LogLength
        BY <1>5, <3>2, <4>1
      <4>3. m = p.msg
        BY <1>5, <3>2, <4>2, NumberIsOwn
      <4> QED
        BY <1>5, <1>8, <2>2, <3>2, <4>3
    <3> QED
      BY <1>7, <2>2, <3>1, <3>2
  <2> QED
    BY <1>6, <1>7, <1>8, <2>1, <2>2 DEF ReceiveInv, InHand
<1>12. NothingForgotten'
  <2>1. ASSUME NEW f \in Ends, NEW m \in 1 .. Len(sent[Peer(f)]),
               sent[Peer(f)][m] \in {"RELIABLE", "RELIABLE_ORDERED"}
        PROVE  m \in Arrived(f)' \/ Kept(f, m)'
    <3>1. InHand(f, m) \/ \E x \in Waiting(Peer(f)) : x.msg = m
      BY <2>1 DEF LayerInv, NothingForgotten, InHand, Kept
    <3>2. CASE InHand(f, m)
      <4>1. InHand(f, m)'
        BY <1>8, <3>2
      <4> QED
        BY <4>1 DEF InHand, Kept
    <3>3. CASE \E x \in Waiting(Peer(f)) : x.msg = m
      BY <1>6, <3>3 DEF Kept
    <3> QED
      BY <3>1, <3>2, <3>3
  <2> QED
    BY <1>6, <2>1 DEF NothingForgotten
<1>13. WindowInv' /\ TimerRuns'
  <2>1. windowSize' \in [Ends -> MinWindow .. MaxWindow]
    BY <1>3, GrowthStaysInBounds DEF LayerInv
  <2> QED
    BY <1>1, <2>1 DEF LayerInv, WindowInv, TimerRuns
<1> QED
  BY <1>9, <1>10, <1>11, <1>12, <1>13 DEF LayerInv

-------------------------------------------------------------------------------
(* What a frame does.                                                       *)

LEMMA AcksThatOpen ==
  ASSUME NEW acks, Len(acks) \in Nat, NEW due
  PROVE  AcksFirst(acks, due) \in 0 .. Len(acks) /\ AcksFirst(acks, due) <= FrameSize
BY BoundAssumption DEF AcksFirst, Lesser

LEMMA DatagramItems ==
  ASSUME NEW e \in Ends, NEW acks \in Seq(received[e]), NEW data \in Seq(Genuine(e))
  PROVE  /\ Datagram(e, acks, data).to = Peer(e)
         /\ Datagram(e, acks, data).items \in Seq(Items(Peer(e)))
<1> DEFINE X == Items(Peer(e))
           first == [i \in 1 .. Len(acks) |-> [ack |-> TRUE, body |-> acks[i]]]
           second == [i \in 1 .. Len(data) |-> [ack |-> FALSE, body |-> data[i]]]
<1>1. X = [ack : {TRUE}, body : received[e]] \cup [ack : {FALSE}, body : Genuine(e)]
  BY PeerOfPeer DEF Items
<1>2. Len(acks) \in Nat /\ Len(data) \in Nat
  BY LenProperties
<1>3. /\ \A i \in 1 .. Len(acks) : [ack |-> TRUE, body |-> acks[i]] \in X
      /\ \A i \in 1 .. Len(data) : [ack |-> FALSE, body |-> data[i]] \in X
  BY <1>1, ElementOfSeq
<1> HIDE DEF X
<1>4. first \in Seq(X) /\ second \in Seq(X)
  BY <1>2, <1>3
<1> HIDE DEF first, second
<1>5. first \o second \in Seq(X)
  BY <1>4, JoinedSeq
<1> QED
  BY <1>5 DEF Datagram, first, second, X

LEMMA FrameKeeps ==
  ASSUME LayerInv, NEW e \in Ends, NEW late \in Nat, NEW ackDue \in BOOLEAN,
         NEW lost \in BOOLEAN, Frame(e, late, ackDue, lost)
  PROVE  /\ LayerInv'
         /\ \A f \in Ends : \A x \in Waiting(f) : Reliable(x.kind) => x \in Waiting(f)'
<1> DEFINE queue == resendQueue[e]
           acks == ackQueue[e]
           nAcks == AcksFirst(acks, ackDue)
           room == FrameSize - nAcks
           full == nAcks > 0 /\ room = 0
           stop == IF full THEN 1 ELSE Stop(queue, late, room)
           passed == SubSeq(queue, 1, stop - 1)
           resent == Selected(passed, Entries(passed))
           kept == SubSeq(queue, stop, Len(queue)) \o resent
           cramped == full \/ stop <= late
           window == IF resent = <<>> THEN windowSize[e] ELSE Greater(windowSize[e] - 1, MinWindow)
           throttled == Len(kept) >= window
           nFresh == IF cramped \/ throttled THEN 0
                     ELSE Lesser(Len(sendQueue[e]), room - Len(resent))
           fresh == SubSeq(sendQueue[e], 1, nFresh)
           toResend == Selected(fresh, {p \in Entries(fresh) : Reliable(p.kind)})
           data == resent \o fresh
           lateAcks == IF cramped \/ throttled \/ nAcks > 0 \/ data = <<>> THEN 0
                       ELSE Lesser(Len(acks), room - Len(data))
           ackCount == nAcks + lateAcks
<1>1. /\ UNCHANGED sendVars /\ UNCHANGED receiveVars /\ UNCHANGED parseVars /\ dead' = dead
      /\ resendQueue' = [resendQueue EXCEPT ![e] = kept \o toResend]
      /\ sendQueue' = [sendQueue EXCEPT ![e] = SubSeq(@, nFresh + 1, Len(@))]
      /\ ackQueue' = [ackQueue EXCEPT ![e] = SubSeq(@, ackCount + 1, Len(@))]
      /\ armed' = [armed EXCEPT ![e] = @ \/ resent # <<>> \/ toResend # <<>>]
      /\ windowSize' = [windowSize EXCEPT ![e] = window]
      /\ IF lost THEN net' = net ELSE Transmit(e, SubSeq(acks, 1, ackCount), data)
  BY Zenon DEF Frame
<1>2. /\ queue \in Seq(Genuine(e) \cup {Hole}) /\ acks \in Seq(received[e])
      /\ sendQueue[e] \in Seq(Genuine(e))
      /\ Len(queue) \in Nat /\ Len(acks) \in Nat /\ Len(sendQueue[e]) \in Nat
  BY LenProperties DEF LayerInv, QueueInv, NetInv
<1> DEFINE G == Genuine(e)
<1> HIDE DEF queue, acks
<1>3. nAcks \in 0 .. Len(acks) /\ nAcks <= FrameSize
  BY <1>2, AcksThatOpen
<1> HIDE DEF nAcks
<1>4. room \in Nat
  BY <1>2, <1>3, BoundAssumption
<1> HIDE DEF room
<1>5. stop \in 1 .. Len(queue) + 1 /\ (~full => Len(resent) <= room)
  <2>1. CASE full
    BY <1>2, <2>1
  <2>2. CASE ~full
    <3> DEFINE place == Stop(queue, late, room)
               before == SubSeq(queue, 1, place - 1)
    <3>1. /\ place \in 1 .. Len(queue) + 1
          /\ Len(Selected(before, Entries(before))) <= room
      BY <1>2, <1>4, ResentFits
    <3>2. stop = place
      BY <2>2
    <3> HIDE DEF place, stop
    <3> QED
      BY <3>1, <3>2
  <2> QED
    BY <2>1, <2>2
<1> HIDE DEF stop
<1>6. /\ resent \in Seq(G) /\ kept \in Seq(G \cup {Hole})
      /\ Entries(kept) = Entries(queue)
      /\ queue = <<>> => kept = <<>>
  <2> HIDE DEF full
  <2>1. Hole \notin G /\ queue \in Seq(G \cup {Hole})
    BY <1>2, HoleIsNoPacket
  <2> HIDE DEF G
  <2> QED
    BY <1>5, <2>1, ResentIsKept
<1> HIDE DEF passed, resent, kept
<1>7. Len(resent) \in Nat
  BY <1>6, LenProperties
<1>8. nFresh \in 0 .. Len(sendQueue[e]) /\ (~cramped => Len(resent) + nFresh <= room)
  <2> HIDE DEF throttled, full
  <2>1. CASE cramped
    BY <1>2, <2>1
  <2>2. CASE ~cramped /\ throttled
    BY <1>2, <1>4, <1>5, <1>7, <2>2
  <2>3. CASE ~cramped /\ ~throttled
    <3>1. Len(resent) <= room
      BY <1>5, <2>3
    <3>2. nFresh = Lesser(Len(sendQueue[e]), room - Len(resent))
      BY <2>3
    <3> HIDE DEF nFresh, cramped
    <3> QED
      BY <1>2, <1>4, <1>7, <3>1, <3>2 DEF Lesser
  <2> QED
    BY <2>1, <2>2, <2>3
<1> HIDE DEF nFresh
<1> DEFINE left == SubSeq(sendQueue[e], nFresh + 1, Len(sendQueue[e]))
<1>9. /\ fresh \in Seq(G) /\ Len(fresh) = nFresh /\ left \in Seq(G) /\ toResend \in Seq(G)
      /\ Entries(sendQueue[e]) = Entries(fresh) \cup Entries(left)
      /\ Entries(toResend) = {p \in Entries(fresh) : Reliable(p.kind)}
  <2>1. sendQueue[e] \in Seq(G)
    BY <1>2
  <2> HIDE DEF G
  <2> QED
    BY <1>8, <2>1, FreshIsKept
<1> HIDE DEF fresh, toResend, left
<1>10. data \in Seq(G) /\ Len(data) = Len(resent) + nFresh
  <2> HIDE DEF G
  <2> QED
    BY <1>6, <1>9, JoinedSeq
<1> HIDE DEF data
<1>11. ackCount \in 0 .. Len(acks)
  <2>1. CASE cramped \/ throttled \/ nAcks > 0 \/ data = <<>>
    <3>1. lateAcks = 0
      BY <2>1
    <3> HIDE DEF lateAcks
    <3> QED
      BY <1>2, <1>3, <3>1
  <2>2. CASE ~(cramped \/ throttled \/ nAcks > 0 \/ data = <<>>)
    <3>1. lateAcks = Lesser(Len(acks), room - Len(data)) /\ nAcks = 0
      BY <1>2, <1>3, <2>2
    <3>2. Len(data) <= room /\ Len(data) \in Nat
      BY <1>2, <1>7, <1>8, <1>10, <2>2
    <3> HIDE DEF lateAcks, cramped, throttled
    <3>3. lateAcks \in 0 .. Len(acks)
      BY <1>2, <1>4, <3>1, <3>2 DEF Lesser
    <3> QED
      BY <1>2, <3>1, <3>3
  <2> QED
    BY <2>1, <2>2
<1> HIDE DEF ackCount
<1>12. SubSeq(acks, 1, ackCount) \in Seq(received[e]) /\ SubSeq(acks, ackCount + 1, Len(acks)) \in Seq(received[e])
  BY <1>2, <1>11, CutQueue
<1>13. window \in MinWindow .. MaxWindow
  <2>1. windowSize[e] \in MinWindow .. MaxWindow
    BY DEF LayerInv, WindowInv
  <2> QED
    BY <2>1, BoundAssumption DEF Greater
<1> HIDE DEF window
<1>14. /\ sent' = sent /\ received' = received /\ arrived' = arrived
       /\ orderingList' = orderingList /\ parsing' = parsing
  BY <1>1 DEF sendVars, receiveVars, parseVars
<1>15. \A f : Genuine(f)' = Genuine(f) /\ Items(f)' = Items(f)
  BY <1>14, SameItems
<1>16. /\ kept \o toResend \in Seq(G \cup {Hole})
       /\ Entries(kept \o toResend) = Entries(queue) \cup {p \in Entries(fresh) : Reliable(p.kind)}
       /\ kept = <<>> /\ toResend = <<>> => kept \o toResend = <<>>
  <2>1. toResend \in Seq(G \cup {Hole})
    BY <1>9, SeqMonotonic
  <2>2. kept \o toResend \in Seq(G \cup {Hole})
        /\ Entries(kept \o toResend) = Entries(kept) \cup Entries(toResend)
    <3> DEFINE Y == G \cup {Hole}
    <3>1. kept \in Seq(Y) /\ toResend \in Seq(Y)
      BY <1>6, <2>1
    <3> HIDE DEF Y
    <3>2. kept \o toResend \in Seq(Y)
          /\ Entries(kept \o toResend) = Entries(kept) \cup Entries(toResend)
      BY <3>1, JoinedSeq, EntriesOfConcat
    <3> QED
      BY <3>2 DEF Y
  <2>3. kept = <<>> /\ toResend = <<>> => kept \o toResend = <<>>
    OBVIOUS
  <2> QED
    BY <1>6, <1>9, <2>2, <2>3
<1> DEFINE resending == kept \o toResend
<1>17. /\ resendQueue'[e] = resending /\ sendQueue'[e] = left
       /\ \A f \in Ends : f # e => resendQueue'[f] = resendQueue[f] /\ sendQueue'[f] = sendQueue[f]
       /\ DOMAIN resendQueue' = Ends /\ DOMAIN sendQueue' = Ends
  BY <1>1 DEF LayerInv, QueueInv, left
<1> HIDE DEF resending
<1>18. SendInv' /\ ReceiveInv'
  BY <1>1, <1>14, SameSend, SameReceive DEF LayerInv
<1>19. QueueInv'
  BY <1>9, <1>15, <1>16, <1>17 DEF LayerInv, QueueInv, resending
<1>20. NetInv'
  <2>1. ASSUME NEW d \in net' PROVE d.to \in Ends /\ d.items \in Seq(Items(d.to))
    <3>1. CASE d \in net
      BY <3>1 DEF LayerInv, NetInv
    <3>2. CASE d = Datagram(e, SubSeq(acks, 1, ackCount), data)
      BY <1>10, <1>12, <3>2, DatagramItems, PeerOfPeer
    <3> QED
      BY <1>1, <3>1, <3>2 DEF Transmit
  <2>2. /\ DOMAIN ackQueue' = Ends
        /\ \A f \in Ends : ackQueue'[f] \in Seq(received[f])
    BY <1>1, <1>12 DEF LayerInv, NetInv, acks
  <2> QED
    BY <1>14, <1>15, <2>1, <2>2 DEF LayerInv, NetInv
<1>21. ASSUME NEW f \in Ends, NEW x \in Waiting(f), Reliable(x.kind) PROVE x \in Waiting(f)'
  <2>1. CASE f # e
    BY <1>17, <2>1 DEF Waiting
  <2>2. CASE f = e /\ x \in Entries(queue)
    BY <1>16, <1>17, <2>2 DEF Waiting, resending
  <2>3. CASE f = e /\ x \in Entries(left)
    BY <1>17, <2>3 DEF Waiting
  <2>4. CASE f = e /\ x \in Entries(fresh)
    BY <1>16, <1>17, <1>21, <2>4 DEF Waiting, resending
  <2> QED
    BY <1>9, <2>1, <2>2, <2>3, <2>4 DEF Waiting, queue
<1>22. NothingForgotten'
  <2>1. ASSUME NEW f \in Ends, NEW x \in Waiting(f), x.kind \in {"RELIABLE", "RELIABLE_ORDERED"}
        PROVE  x \in Waiting(f)'
    BY <1>21, <2>1 DEF Reliable
  <2> QED
    BY <1>14, <2>1, StillKept
<1>23. WindowInv'
  BY <1>1, <1>13 DEF LayerInv, WindowInv
<1>24. TimerRuns'
  <2>1. ASSUME NEW f \in Ends, resendQueue'[f] # <<>> PROVE armed'[f]
    <3>1. CASE f # e
      BY <1>1, <1>17, <2>1, <3>1 DEF LayerInv, TimerRuns, WindowInv
    <3>2. CASE f = e
      <4>1. armed'[e] = (armed[e] \/ resent # <<>> \/ toResend # <<>>)
        BY <1>1 DEF LayerInv, WindowInv
      <4>2. toResend # <<>> \/ queue # <<>>
        BY <1>6, <1>16, <1>17, <2>1, <3>2 DEF resending
      <4>3. queue # <<>> => armed[e]
        BY DEF LayerInv, TimerRuns, queue
      <4> QED
        BY <3>2, <4>1, <4>2, <4>3
    <3> QED
      BY <3>1, <3>2
  <2> QED
    BY <2>1 DEF TimerRuns
<1> QED
  BY <1>18, <1>19, <1>20, <1>22, <1>23, <1>24, <1>21 DEF LayerInv

-------------------------------------------------------------------------------
(* The invariant is inductive.                                              *)

LEMMA InitEstablishes == Init => LayerInv
<1>1. SUFFICES ASSUME Init PROVE LayerInv
  OBVIOUS
<1> USE <1>1 DEF Init
<1>2. NumberOf(1) = FirstNumber
  <2>1. FirstNumber \in Nat /\ FirstNumber < LogLength /\ FirstNumber + 1 - 1 = FirstNumber
    BY IndexAssumption, Ranges
  <2>2. FirstNumber % LogLength = FirstNumber
    BY <2>1, Ranges
  <2> QED
    BY <2>1, <2>2 DEF NumberOf
<1>3. \A e \in Ends : Peer(e) \in Ends
  BY PeerOfPeer
<1>4. FirstIndex \in IndexSet
  BY IndexAssumption DEF IndexSet
<1>5. SendInv
  <2>1. FirstIndex % IndexRange = FirstIndex
    <3>1. FirstIndex \in Nat /\ FirstIndex < IndexRange
      BY IndexAssumption, Ranges
    <3> QED
      BY <3>1, Ranges
  <2>2. \A e \in Ends : \A s \in Streams : Cardinality(Positions(sent[e], s, Len(sent[e]))) = 0
    <3>1. \A q, s : Positions(q, s, 0) = {}
      BY DEF Positions
    <3> QED
      BY <3>1, FS_EmptySet
  <2>3. FirstIndex + 0 = FirstIndex
    BY IndexAssumption
  <2>4. \A e \in Ends : \A s \in Streams \ {"none"} :
          writeIndex[e][s] =
            (FirstIndex + Cardinality(Positions(sent[e], s, Len(sent[e])))) % IndexRange
    BY <2>1, <2>2, <2>3
  <2> QED
    BY <1>2, <1>4, <2>4, Ranges DEF SendInv
<1>6. QueueInv /\ NetInv
  BY DEF QueueInv, NetInv
<1>7. ReceiveInv
  BY <1>3, <1>4, FS_EmptySet DEF ReceiveInv
<1>8. WindowInv
  BY BoundAssumption DEF WindowInv
<1>9. NothingForgotten /\ TimerRuns
  BY <1>3 DEF NothingForgotten, TimerRuns
<1> QED
  BY <1>5, <1>6, <1>7, <1>8, <1>9 DEF LayerInv

LEMMA NextKeeps ==
  ASSUME OneThread, ShortScripts, LayerInv, [Next]_vars
  PROVE  LayerInv'
<1>1. CASE UNCHANGED vars
  <2>1. /\ UNCHANGED sendVars /\ UNCHANGED receiveVars /\ sent' = sent /\ received' = received
        /\ arrived' = arrived /\ orderingList' = orderingList
        /\ UNCHANGED <<sendQueue, resendQueue, armed, ackQueue, windowSize, parsing, dead, net>>
    BY <1>1 DEF vars, sendVars, receiveVars, queueVars, windowVars, parseVars
  <2>2. SendInv' /\ QueueInv' /\ NetInv' /\ ReceiveInv'
    BY <2>1, SameSend, SameQueues, SameNet, SameReceive DEF LayerInv
  <2>3. NothingForgotten'
    BY <2>1, StillKept DEF Waiting
  <2> QED
    BY <2>1, <2>2, <2>3 DEF LayerInv, WindowInv, TimerRuns
<1>2. ASSUME NEW e \in Ends, NEW t \in Threads, NEW k \in Kinds,
             Scripted(Append(sent[e], k), e), ReadNumber(e, t, k)
      PROVE  LayerInv'
  BY <1>2, ReadNumberKeeps
<1>3. ASSUME NEW e \in Ends, NEW t \in Threads, Enqueue(e, t) PROVE LayerInv'
  BY <1>3, EnqueueKeeps
<1>4. ASSUME NEW e \in Ends, NEW late \in 0 .. Len(resendQueue[e]), NEW ackDue \in BOOLEAN,
             NEW lost \in BOOLEAN, Frame(e, late, ackDue, lost)
      PROVE  LayerInv'
  <2>1. late \in Nat
    BY LenProperties DEF LayerInv, QueueInv
  <2> QED
    BY <1>4, <2>1, FrameKeeps
<1>5. ASSUME NEW e \in Ends, TimeOut(e) \/ AssertFails(e) PROVE LayerInv'
  BY <1>5, TimeOutKeeps
<1>6. ASSUME NEW e \in Ends, NEW d \in net, NEW copy \in BOOLEAN, Receive(e, d, copy)
      PROVE  LayerInv'
  BY <1>6, ReceiveKeeps
<1>7. ASSUME NEW e \in Ends, NEW calm \in BOOLEAN, HandleAck(e, calm) PROVE LayerInv'
  BY <1>7, HandleAckKeeps
<1>8. ASSUME NEW e \in Ends, NEW calm \in BOOLEAN, HandlePacket(e, calm) PROVE LayerInv'
  BY <1>8, HandlePacketKeeps
<1> QED
  BY <1>1, <1>2, <1>3, <1>4, <1>5, <1>6, <1>7, <1>8, Zenon DEF Next

-------------------------------------------------------------------------------
(* The theorems.                                                            *)

LEMMA LayerInvHolds ==
  ASSUME OneThread, ShortScripts
  PROVE  Spec => []LayerInv
<1>1. Init => LayerInv
  BY InitEstablishes
<1>2. LayerInv /\ [Next]_vars => LayerInv'
  BY NextKeeps
<1> QED
  BY <1>1, <1>2, PTL DEF Spec

(* No reliable message is forgotten, whatever the network loses, repeats or  *)
(* reorders, and whether an ordered packet that is early at the wrap of its  *)
(* index is stored or aborts the receiver (Send, GenerateFrame, SendBitStream *)
(* and HandleSocketReceiveFromConnectedPlayer with the assertion of line 723, *)
(* ReliabilityLayer.cpp).                                                   *)
THEOREM NoMessageForgotten ==
  ASSUME OneThread, ShortScripts
  PROVE  Spec => []NothingForgotten
<1>1. LayerInv => NothingForgotten
  BY DEF LayerInv
<1> QED
  BY <1>1, LayerInvHolds, PTL

(* While a packet waits for its acknowledgement the timer runs that gives    *)
(* up the connection to a silent peer (lastAckTime, ReliabilityLayer.cpp).   *)
THEOREM TimerAlwaysRuns ==
  ASSUME OneThread, ShortScripts
  PROVE  Spec => []TimerRuns
<1>1. LayerInv => TimerRuns
  BY DEF LayerInv
<1> QED
  BY <1>1, LayerInvHolds, PTL

-------------------------------------------------------------------------------
(* Type correctness: LayerInv, and that the queues are functions.            *)

PerEnd(f) == f = [e \in Ends |-> f[e]]

Shape ==
  PerEnd(sendQueue) /\ PerEnd(resendQueue) /\ PerEnd(ackQueue) /\ PerEnd(orderingList)

LEMMA UpdatedPerEnd ==
  ASSUME NEW f, PerEnd(f), NEW e, NEW v
  PROVE  PerEnd([f EXCEPT ![e] = v])
BY DEF PerEnd

LEMMA ShapeKept ==
  ASSUME Shape, [Next]_vars
  PROVE  Shape'
<1>1. CASE UNCHANGED vars
  BY <1>1 DEF Shape, vars, queueVars, receiveVars, PerEnd
<1>2. ASSUME NEW e \in Ends, NEW t \in Threads, NEW k \in Kinds, ReadNumber(e, t, k)
      PROVE  Shape'
  BY <1>2 DEF ReadNumber, Shape, queueVars, receiveVars, PerEnd
<1>3. ASSUME NEW e \in Ends, NEW t \in Threads, Enqueue(e, t) PROVE Shape'
  <2>1. \E v : sendQueue' = [sendQueue EXCEPT ![e] = v]
    BY <1>3, Zenon DEF Enqueue
  <2>2. UNCHANGED <<resendQueue, ackQueue, orderingList>>
    BY <1>3 DEF Enqueue, receiveVars
  <2> QED
    BY <2>1, <2>2, UpdatedPerEnd DEF Shape, PerEnd
<1>4. ASSUME NEW e \in Ends, NEW late, NEW ackDue, NEW lost, Frame(e, late, ackDue, lost)
      PROVE  Shape'
  <2>1. /\ \E v : sendQueue' = [sendQueue EXCEPT ![e] = v]
        /\ \E v : resendQueue' = [resendQueue EXCEPT ![e] = v]
        /\ \E v : ackQueue' = [ackQueue EXCEPT ![e] = v]
        /\ orderingList' = orderingList
    BY <1>4, Zenon DEF Frame, receiveVars
  <2> QED
    BY <2>1, UpdatedPerEnd DEF Shape, PerEnd
<1>5. ASSUME NEW e \in Ends, TimeOut(e) \/ AssertFails(e) PROVE Shape'
  BY <1>5 DEF TimeOut, AssertFails, Shape, queueVars, receiveVars, PerEnd
<1>6. ASSUME NEW e \in Ends, NEW d \in net, NEW copy, Receive(e, d, copy) PROVE Shape'
  BY <1>6 DEF Receive, Shape, queueVars, receiveVars, PerEnd
<1>7. ASSUME NEW e \in Ends, NEW calm, HandleAck(e, calm) PROVE Shape'
  <2>1. \E v : resendQueue' = [resendQueue EXCEPT ![e] = v]
    BY <1>7, Zenon DEF HandleAck
  <2>2. UNCHANGED <<sendQueue, ackQueue, orderingList>>
    BY <1>7 DEF HandleAck, receiveVars
  <2> QED
    BY <2>1, <2>2, UpdatedPerEnd DEF Shape, PerEnd
<1>8. ASSUME NEW e \in Ends, NEW calm, HandlePacket(e, calm) PROVE Shape'
  <2>1. ackQueue' = ackQueue \/ \E v : ackQueue' = [ackQueue EXCEPT ![e] = v]
    BY <1>8, Zenon DEF HandlePacket
  <2>2. orderingList' = orderingList \/ \E v : orderingList' = [orderingList EXCEPT ![e] = v]
    BY <1>8, Zenon DEF HandlePacket, HandleOrdered, HandleSequenced, HandlePlain, receiveVars
  <2>3. UNCHANGED <<sendQueue, resendQueue>>
    BY <1>8 DEF HandlePacket, queueVars
  <2> QED
    BY <2>1, <2>2, <2>3, UpdatedPerEnd DEF Shape, PerEnd
<1> QED
  BY <1>1, <1>2, <1>3, <1>4, <1>5, <1>6, <1>7, <1>8, Zenon DEF Next

(* The state is what the class ReliabilityLayer declares: windows within     *)
(* their bounds, queues of packets and holes, indexes and numbers in range.  *)
THEOREM TypeCorrect ==
  ASSUME OneThread, ShortScripts
  PROVE  Spec => []TypeOK
<1>1. Init => Shape
  BY DEF Init, Shape, PerEnd
<1>2. Shape /\ [Next]_vars => Shape'
  BY ShapeKept
<1>3. LayerInv /\ Shape => TypeOK
  <2>1. SUFFICES ASSUME LayerInv, Shape PROVE TypeOK
    OBVIOUS
  <2> DEFINE Packet == [msg : Nat, kind : Kinds, num : NumberSet, idx : IndexSet]
  <2>2. \A e \in Ends : Genuine(e) \subseteq Packet
    BY DEF Genuine
  <2> HIDE DEF Packet
  <2>3. \A e \in Ends : sendQueue[e] \in Seq(Packet) /\ resendQueue[e] \in Seq(Packet \cup {Hole})
    <3>1. ASSUME NEW e \in Ends PROVE sendQueue[e] \in Seq(Packet)
      BY <2>1, <2>2, SeqMonotonic DEF LayerInv, QueueInv
    <3>2. ASSUME NEW e \in Ends PROVE resendQueue[e] \in Seq(Packet \cup {Hole})
      <4>1. Genuine(e) \cup {Hole} \subseteq Packet \cup {Hole}
        BY <2>2
      <4> QED
        BY <2>1, <4>1, SeqMonotonic DEF LayerInv, QueueInv
    <3> QED
      BY <3>1, <3>2
  <2>4. \A e \in Ends : ackQueue[e] \in Seq(NumberSet)
    BY <2>1, SeqMonotonic DEF LayerInv, NetInv, ReceiveInv
  <2>5. \A e \in Ends : orderingList[e] \in SUBSET Packet
    BY <2>1, <2>2, PeerOfPeer DEF LayerInv, ReceiveInv
  <2>6. /\ sendQueue \in [Ends -> Seq(Packet)]
        /\ resendQueue \in [Ends -> Seq(Packet \cup {Hole})]
        /\ ackQueue \in [Ends -> Seq(NumberSet)]
        /\ orderingList \in [Ends -> SUBSET Packet]
    BY <2>1, <2>3, <2>4, <2>5 DEF Shape, PerEnd
  <2>7. packetNumber \in [Ends -> NumberSet]
    <3>1. \A e \in Ends : NumberOf(Len(sent[e]) + 1) \in NumberSet
      <4>1. \A e \in Ends : Len(sent[e]) + 1 \in Nat \ {0}
        BY <2>1, LenProperties DEF LayerInv, SendInv
      <4> QED
        BY <4>1, NumberOfMessage
    <3> QED
      BY <2>1, <3>1 DEF LayerInv, SendInv
  <2>8. /\ sent \in [Ends -> Seq(Kinds)] /\ writeIndex \in [Ends -> [Streams -> IndexSet]]
        /\ readIndex \in [Ends -> [Streams -> IndexSet]] /\ received \in [Ends -> SUBSET NumberSet]
        /\ arrived \in [Ends -> Seq(Nat)] /\ windowSize \in [Ends -> MinWindow .. MaxWindow]
        /\ armed \in [Ends -> BOOLEAN] /\ dead \subseteq Ends
    BY <2>1 DEF LayerInv, SendInv, ReceiveInv, WindowInv
  <2> QED
    BY <2>6, <2>7, <2>8, Zenon DEF TypeOK, Packet, NumberSet, IndexSet
<1> QED
  BY <1>1, <1>2, <1>3, LayerInvHolds, PTL DEF Spec
===============================================================================
