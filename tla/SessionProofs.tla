----------------------------- MODULE SessionProofs -----------------------------
(***************************************************************************)
(* Proofs about GameServer on top of TableInv: the sessions of an index      *)
(* (SessionInv), that messages act on the player of their sender, and that   *)
(* what the clients were told agrees with the pool.                         *)
(***************************************************************************)
EXTENDS GameServerProofs

-------------------------------------------------------------------------------
(* Packets and the sessions of an index.                                    *)

LEMMA InitSession == Init => SessionInv
  <1> SUFFICES ASSUME Init PROVE SessionInv
    OBVIOUS
  <1>1. /\ 1 .. Len(queue) = {}
        /\ main = "receive"
        /\ \A i \in Index : remote[i] = None
    BY DEF Init
  <1> QED
    BY <1>1 DEF SessionInv, PacketsBelong, SessionsApart, IndexOfSession, OwnerSpeaks

(* Queueing a packet of whoever is behind the index it carries; the entry   *)
(* is freed if the packet is the loss of it.                                *)
LEMMA PushSession ==
  ASSUME TypeOK, CoreInv, SessionInv, NEW p \in Packet, Push(p), remote[p.idx] = p.from,
         UNCHANGED <<slot, owner, main, index>>,
         \A i \in Index :
           \/ remote'[i] = remote[i]
           \/ i = p.idx /\ p = ClosedPacket(p.from, p.idx)
  PROVE  SessionInv'
  <1>1. /\ Len(queue) \in Nat
        /\ Len(queue') = Len(queue) + 1
        /\ \A k \in 1 .. Len(queue) : queue'[k] = queue[k]
        /\ queue'[Len(queue) + 1] = p
    BY PushFacts
  <1>2. \A k \in 1 .. Len(queue') :
          \/ k \in 1 .. Len(queue) /\ queue'[k] = queue[k]
          \/ k = Len(queue) + 1 /\ queue'[k] = p
    BY PushFacts
  <1>3. \A k \in 1 .. Len(queue) : queue[k].from \in Clients /\ queue[k].idx \in Index
    BY QueuedType
  <1>4. p.idx \in Index
    BY DEF Packet
  <1>5. \A k \in 1 .. Len(queue') :
          (\E l \in k .. Len(queue') : queue'[l] = ClosedPacket(queue'[k].from, queue'[k].idx))
            \/ remote'[queue'[k].idx] = queue'[k].from
    <2> TAKE k \in 1 .. Len(queue')
    <2>1. CASE k = Len(queue) + 1 /\ queue'[k] = p
      BY <1>1, <1>4, <2>1
    <2>2. CASE k \in 1 .. Len(queue) /\ queue'[k] = queue[k]
      <3>1. CASE remote[queue[k].idx] = queue[k].from
        BY <1>1, <1>3, <2>2, <3>1
      <3>2. CASE \E l \in k .. Len(queue) : queue[l] = ClosedPacket(queue[k].from, queue[k].idx)
        <4>1. PICK l \in k .. Len(queue) : queue[l] = ClosedPacket(queue[k].from, queue[k].idx)
          BY <3>2
        <4>2. l \in 1 .. Len(queue) /\ l \in k .. Len(queue')
          BY <1>1, <2>2
        <4> QED
          BY <1>1, <2>2, <4>1, <4>2
      <3> QED
        BY <2>2, <3>1, <3>2 DEF SessionInv, PacketsBelong
    <2> QED
      BY <1>2, <2>1, <2>2
  <1>6. PacketsBelong'
    BY <1>5 DEF PacketsBelong, ClosedPacket
  <1>7. ASSUME NEW k \in 1 .. Len(queue'), NEW l \in 1 .. Len(queue'), k < l,
               queue'[k].idx = queue'[l].idx, queue'[k].from # queue'[l].from
        PROVE  \E m \in k .. l - 1 : queue'[m] = ClosedPacket(queue'[k].from, queue'[k].idx)
    <2>1. k \in 1 .. Len(queue) /\ queue'[k] = queue[k]
      BY <1>1, <1>7
    <2>2. CASE l \in 1 .. Len(queue) /\ queue'[l] = queue[l]
      <3>1. PICK m \in k .. l - 1 : queue[m] = ClosedPacket(queue[k].from, queue[k].idx)
        BY <1>7, <2>1, <2>2 DEF SessionInv, SessionsApart
      <3>2. m \in 1 .. Len(queue)
        BY <2>1, <2>2
      <3> QED
        BY <1>1, <2>1, <3>1, <3>2
    <2>3. CASE l = Len(queue) + 1 /\ queue'[l] = p
      <3>1. remote[queue[k].idx] # queue[k].from
        BY <1>7, <2>1, <2>3
      <3>2. PICK m \in k .. Len(queue) : queue[m] = ClosedPacket(queue[k].from, queue[k].idx)
        BY <2>1, <3>1 DEF SessionInv, PacketsBelong
      <3>3. m \in 1 .. Len(queue) /\ m \in k .. l - 1
        BY <1>1, <2>1, <2>3
      <3> QED
        BY <1>1, <2>1, <3>2, <3>3
    <2> QED
      BY <1>2, <2>2, <2>3
  <1>8. SessionsApart'
    BY <1>7 DEF SessionsApart, ClosedPacket
  <1>9. IndexOfSession'
    BY PushFacts DEF SessionInv, IndexOfSession
  <1>10. ASSUME NEW k \in 1 .. Len(queue'), slot[queue'[k].idx],
                \A l \in 1 .. k - 1 :
                  ~(queue'[l].kind = "ConnectionClosed" /\ queue'[l].idx = queue'[k].idx)
         PROVE  owner[queue'[k].idx] = queue'[k].from
    <2>1. \A l \in 1 .. k - 1 : l \in 1 .. Len(queue) /\ queue'[l] = queue[l]
      BY <1>1
    <2>2. CASE k \in 1 .. Len(queue) /\ queue'[k] = queue[k]
      BY <1>10, <2>1, <2>2 DEF SessionInv, OwnerSpeaks, ClosedAt
    <2>3. CASE k = Len(queue) + 1 /\ queue'[k] = p
      <3>1. \A l \in 1 .. Len(queue) : queue[l] # ClosedPacket(owner[p.idx], p.idx)
        BY <1>1, <1>10, <2>3 DEF ClosedPacket
      <3>2. remote[p.idx] = owner[p.idx]
        BY <1>4, <1>10, <2>3, <3>1 DEF CoreInv, NoGhostPlayers
      <3> QED
        BY <2>3, <3>2
    <2> QED
      BY <1>2, <2>2, <2>3
  <1>11. OwnerSpeaks'
    BY <1>10 DEF OwnerSpeaks, ClosedAt
  <1> QED
    BY <1>6, <1>8, <1>9, <1>11 DEF SessionInv

(* A new connection has an entry that nobody speaks for.                    *)
LEMMA ConnectSession ==
  ASSUME TypeOK, CoreInv, SessionInv, NEW c \in Clients, Connect(c)
  PROVE  SessionInv'
  <1>1. PICK i \in Index : remote[i] = None /\ remote' = [remote EXCEPT ![i] = c]
    BY DEF Connect, FirstFree
  <1>2. UNCHANGED <<queue, slot, owner, main, index>>
    BY DEF Connect, poolVars, mainVars
  <1>3. \A k \in 1 .. Len(queue) :
          remote[queue[k].idx] = queue[k].from => remote'[queue[k].idx] = queue[k].from
    BY <1>1, QueuedType, ConstantsAssumption DEF TypeOK
  <1>4. PacketsBelong'
    BY <1>2, <1>3 DEF SessionInv, PacketsBelong, ClosedPacket
  <1>5. SessionsApart' /\ IndexOfSession' /\ OwnerSpeaks'
    BY <1>2 DEF SessionInv, SessionsApart, IndexOfSession, OwnerSpeaks, ClosedPacket, ClosedAt
  <1> QED
    BY <1>4, <1>5 DEF SessionInv

LEMMA NetworkSession ==
  ASSUME TypeOK, CoreInv, SessionInv, NEW c \in Clients, Network(c)
  PROVE  SessionInv'
  <1>1. CASE Connect(c)
    BY <1>1, ConnectSession
  <1>2. CASE SendClientJoin(c)
    <2>1. PICK i \in Index, n \in Nicks \cup {BadNick} :
            /\ remote[i] = c
            /\ Push([kind |-> "ClientJoin", from |-> c, idx |-> i, arg |-> n])
      BY <1>2 DEF SendClientJoin
    <2> DEFINE p == [kind |-> "ClientJoin", from |-> c, idx |-> i, arg |-> n]
    <2>2. p \in Packet /\ p.from = c /\ p.idx = i /\ Push(p)
      BY <2>1 DEF Packet, PacketKinds, Arguments
    <2>3. UNCHANGED <<remote, slot, owner, main, index>>
      BY <1>2 DEF SendClientJoin, poolVars, mainVars
    <2> HIDE DEF p
    <2> QED
      BY <2>1, <2>2, <2>3, PushSession
  <1>3. CASE SendGameMessage(c)
    <2>1. PICK i \in Index, k \in GameKinds :
            /\ remote[i] = c
            /\ \E a \in ArgumentsOf(k) :
                 Push([kind |-> k, from |-> c, idx |-> i, arg |-> a])
      BY <1>3 DEF SendGameMessage
    <2>2. PICK a \in ArgumentsOf(k) : Push([kind |-> k, from |-> c, idx |-> i, arg |-> a])
      BY <2>1
    <2> DEFINE p == [kind |-> k, from |-> c, idx |-> i, arg |-> a]
    <2>3. p \in Packet /\ p.from = c /\ p.idx = i /\ Push(p)
      BY <2>2, ArgumentsType DEF Packet
    <2>4. UNCHANGED <<remote, slot, owner, main, index>>
      BY <1>3 DEF SendGameMessage, poolVars, mainVars
    <2> HIDE DEF p
    <2> QED
      BY <2>1, <2>3, <2>4, PushSession
  <1>4. CASE Disconnect(c)
    <2>1. PICK i \in Index : remote[i] = c /\ CloseConnection(c, i)
      BY <1>4 DEF Disconnect
    <2> DEFINE p == ClosedPacket(c, i)
    <2>2. /\ p \in Packet /\ p.from = c /\ p.idx = i /\ Push(p)
          /\ p = ClosedPacket(p.from, p.idx)
      BY <2>1 DEF CloseConnection, ClosedPacket, Packet, PacketKinds, IndexedKinds, Arguments
    <2>3. \A j \in Index : j = i \/ remote'[j] = remote[j]
      BY <2>1 DEF CloseConnection, TypeOK
    <2>4. UNCHANGED <<slot, owner, main, index>>
      BY <1>4 DEF Disconnect, poolVars, mainVars
    <2> HIDE DEF p
    <2> QED
      BY <2>1, <2>2, <2>3, <2>4, PushSession
  <1> QED
    BY <1>1, <1>2, <1>3, <1>4 DEF Network

(* The entry a lookup finds is the one the packet was sent from: had the    *)
(* sender lost that one, its loss would be queued and it would have none.   *)
LEMMA ReceiveSession ==
  ASSUME TypeOK, CoreInv, SessionInv, Receive
  PROVE  SessionInv'
  <1>1. /\ UNCHANGED <<remote, queue, slot, owner>>
        /\ index' = HandlerIndex(Head(queue))
        /\ queue # <<>>
    BY DEF Receive, netVars, poolVars
  <1>2. /\ Head(queue) = queue[1] /\ 1 \in 1 .. Len(queue)
        /\ Sender \in Clients /\ Head(queue).idx \in Index
    BY <1>1, HandledType
  <1>3. PacketsBelong' /\ SessionsApart' /\ OwnerSpeaks'
    BY <1>1 DEF SessionInv, PacketsBelong, SessionsApart, OwnerSpeaks, ClosedPacket, ClosedAt
  <1>4. ASSUME index' \in Index PROVE index' = Head(queue).idx
    <2>1. CASE Head(queue).kind \in IndexedKinds
      BY <1>1, <2>1 DEF HandlerIndex
    <2>2. CASE Head(queue).kind \notin IndexedKinds
      <3>1. remote[index'] = Sender
        BY <1>1, <1>4, <2>2, LookupFinds DEF HandlerIndex, Sender
      <3>2. \A l \in 1 .. Len(queue) : queue[l] # ClosedPacket(Sender, Head(queue).idx)
        BY <1>4, <3>1 DEF CoreInv, ClosedIsGone, ClosedPacket, Connected
      <3>3. remote[Head(queue).idx] = Sender
        BY <1>2, <3>2 DEF SessionInv, PacketsBelong, Sender
      <3>4. Sender # None
        BY <1>2, ConstantsAssumption
      <3> QED
        BY <1>2, <1>4, <3>1, <3>3, <3>4 DEF CoreInv, OneEntryPerClient
    <2> QED
      BY <2>1, <2>2
  <1>5. IndexOfSession'
    BY <1>1, <1>4 DEF IndexOfSession
  <1> QED
    BY <1>3, <1>5 DEF SessionInv

(* Taking the head of the queue keeps the sessions of the rest, whatever    *)
(* the handler does to the pool.                                            *)
LEMMA ReturnSession ==
  ASSUME TypeOK, SessionInv, main = "handle", Return, UNCHANGED remote
  PROVE  PacketsBelong' /\ SessionsApart' /\ IndexOfSession'
  <1>1. /\ Len(queue) \in Nat \ {0}
        /\ Len(queue') = Len(queue) - 1
        /\ \A k \in 1 .. Len(queue') : k + 1 \in 2 .. Len(queue) /\ queue'[k] = queue[k + 1]
        /\ \A k \in 2 .. Len(queue) : k - 1 \in 1 .. Len(queue') /\ queue'[k - 1] = queue[k]
        /\ main' = "receive"
    BY ReturnFacts
  <1>2. ASSUME NEW k \in 1 .. Len(queue'), remote[queue'[k].idx] # queue'[k].from
        PROVE  \E l \in k .. Len(queue') : queue'[l] = ClosedPacket(queue'[k].from, queue'[k].idx)
    <2>1. k + 1 \in 1 .. Len(queue) /\ queue'[k] = queue[k + 1]
      BY <1>1
    <2>2. PICK l \in k + 1 .. Len(queue) :
            queue[l] = ClosedPacket(queue[k + 1].from, queue[k + 1].idx)
      BY <1>2, <2>1 DEF SessionInv, PacketsBelong
    <2>3. l \in 2 .. Len(queue) /\ l - 1 \in k .. Len(queue')
      BY <1>1, <2>1
    <2> QED
      BY <1>1, <2>1, <2>2, <2>3
  <1>3. PacketsBelong'
    BY <1>2 DEF PacketsBelong, ClosedPacket
  <1>4. ASSUME NEW k \in 1 .. Len(queue'), NEW l \in 1 .. Len(queue'), k < l,
               queue'[k].idx = queue'[l].idx, queue'[k].from # queue'[l].from
        PROVE  \E m \in k .. l - 1 : queue'[m] = ClosedPacket(queue'[k].from, queue'[k].idx)
    <2>1. /\ k + 1 \in 1 .. Len(queue) /\ queue'[k] = queue[k + 1]
          /\ l + 1 \in 1 .. Len(queue) /\ queue'[l] = queue[l + 1]
          /\ k + 1 < l + 1
      BY <1>1, <1>4
    <2>2. PICK m \in k + 1 .. (l + 1) - 1 :
            queue[m] = ClosedPacket(queue[k + 1].from, queue[k + 1].idx)
      BY <1>4, <2>1 DEF SessionInv, SessionsApart
    <2>3. m - 1 \in k .. l - 1
      OBVIOUS
    <2>4. m \in 2 .. Len(queue)
      BY <1>1, <2>1
    <2> QED
      BY <1>1, <2>1, <2>2, <2>3, <2>4
  <1>5. SessionsApart'
    BY <1>4 DEF SessionsApart, ClosedPacket
  <1>6. IndexOfSession'
    BY <1>1 DEF IndexOfSession
  <1> QED
    BY <1>3, <1>5, <1>6

(* Handlers that at most empty slots, the slot of a lost connection among   *)
(* them.                                                                    *)
LEMMA TakenSession ==
  ASSUME TypeOK, SessionInv, main = "handle", Return, UNCHANGED remote,
         \A i \in Index : slot'[i] => slot[i] /\ owner'[i] = owner[i] /\ ~ClosedAt(i, 1)
  PROVE  SessionInv'
  <1>1. PacketsBelong' /\ SessionsApart' /\ IndexOfSession'
    BY ReturnSession
  <1>2. /\ Len(queue) \in Nat \ {0}
        /\ Len(queue') = Len(queue) - 1
        /\ \A k \in 1 .. Len(queue') : k + 1 \in 2 .. Len(queue) /\ queue'[k] = queue[k + 1]
        /\ \A k \in 2 .. Len(queue) : k - 1 \in 1 .. Len(queue') /\ queue'[k - 1] = queue[k]
    BY ReturnFacts
  <1>3. ASSUME NEW k \in 1 .. Len(queue'), slot'[queue'[k].idx],
               \A l \in 1 .. k - 1 :
                 ~(queue'[l].kind = "ConnectionClosed" /\ queue'[l].idx = queue'[k].idx)
        PROVE  owner'[queue'[k].idx] = queue'[k].from
    <2>1. k + 1 \in 1 .. Len(queue) /\ queue'[k] = queue[k + 1] /\ queue[k + 1].idx \in Index
      BY <1>2, QueuedType
    <2>2. slot[queue[k + 1].idx] /\ owner'[queue[k + 1].idx] = owner[queue[k + 1].idx]
      BY <1>3, <2>1
    <2>3. ASSUME NEW l \in 1 .. (k + 1) - 1, ClosedAt(queue[k + 1].idx, l) PROVE FALSE
      <3>1. CASE l = 1
        BY <1>3, <2>1, <2>3, <3>1
      <3>2. CASE l # 1
        <4>1. l \in 2 .. Len(queue) /\ l - 1 \in 1 .. k - 1
          BY <2>1, <2>3, <3>2
        <4>2. queue'[l - 1] = queue[l]
          BY <1>2, <4>1
        <4> QED
          BY <1>3, <2>1, <2>3, <4>1, <4>2 DEF ClosedAt
      <3> QED
        BY <3>1, <3>2
    <2> QED
      BY <2>1, <2>2, <2>3 DEF SessionInv, OwnerSpeaks
  <1>4. OwnerSpeaks'
    BY <1>3 DEF OwnerSpeaks, ClosedAt
  <1> QED
    BY <1>1, <1>4 DEF SessionInv

(* Steps that leave the table and the queue alone.                          *)
LEMMA QuietSession ==
  ASSUME TypeOK, SessionInv, UNCHANGED <<remote, queue>>,
         main' = "handle" => main = "handle" /\ index' = index,
         \A i \in Index : slot'[i] => slot[i] /\ owner'[i] = owner[i]
  PROVE  SessionInv'
  <1>1. PacketsBelong' /\ SessionsApart' /\ IndexOfSession'
    BY DEF SessionInv, PacketsBelong, SessionsApart, IndexOfSession, ClosedPacket
  <1>2. ASSUME NEW k \in 1 .. Len(queue), slot'[queue[k].idx],
               \A l \in 1 .. k - 1 : ~ClosedAt(queue[k].idx, l)
        PROVE  owner'[queue[k].idx] = queue[k].from
    <2>1. queue[k].idx \in Index
      BY QueuedType
    <2> QED
      BY <1>2, <2>1 DEF SessionInv, OwnerSpeaks
  <1>3. OwnerSpeaks'
    BY <1>2 DEF OwnerSpeaks, ClosedAt
  <1> QED
    BY <1>1, <1>3 DEF SessionInv

(* A join: what else the queue holds at the index, up to the loss of the    *)
(* newcomer, was sent by the newcomer.                                      *)
LEMMA JoinSession ==
  ASSUME TypeOK, SessionInv, ClientJoin
  PROVE  SessionInv'
  <1>1. /\ main = "handle" /\ Head(queue).kind = "ClientJoin" /\ index \in Index
        /\ UNCHANGED <<remote, queue, main, index>>
    BY DEF ClientJoin, Handling, Stay
  <1>2. PacketsBelong' /\ SessionsApart' /\ IndexOfSession'
    BY <1>1 DEF SessionInv, PacketsBelong, SessionsApart, IndexOfSession, ClosedPacket
  <1>3. Len(queue) \in Nat \ {0} /\ Head(queue) = queue[1]
    BY <1>1, HandledType
  <1>4. owner'[index] = Sender
    BY <1>1 DEF ClientJoin, New, TypeOK
  <1>5. \A i \in Index : i # index => slot'[i] = slot[i] /\ owner'[i] = owner[i]
    BY <1>1 DEF ClientJoin, New, TypeOK
  <1>6. index = queue[1].idx /\ Sender = queue[1].from
    BY <1>1, <1>3 DEF SessionInv, IndexOfSession, Sender
  <1>7. ASSUME NEW k \in 1 .. Len(queue), slot'[queue[k].idx],
               \A l \in 1 .. k - 1 : ~ClosedAt(queue[k].idx, l)
        PROVE  owner'[queue[k].idx] = queue[k].from
    <2>1. queue[k].idx \in Index
      BY QueuedType
    <2>2. CASE queue[k].idx # index
      BY <1>5, <1>7, <2>1, <2>2 DEF SessionInv, OwnerSpeaks
    <2>3. CASE queue[k].idx = index
      <3>1. SUFFICES ASSUME queue[k].from # Sender PROVE FALSE
        BY <1>4, <2>3
      <3>2. k # 1 /\ 1 \in 1 .. Len(queue) /\ 1 < k
        BY <1>3, <1>6, <3>1
      <3>3. PICK m \in 1 .. k - 1 : queue[m] = ClosedPacket(Sender, index)
        BY <1>6, <2>3, <3>1, <3>2 DEF SessionInv, SessionsApart
      <3> QED
        BY <1>7, <2>3, <3>3 DEF ClosedAt, ClosedPacket
    <2> QED
      BY <2>2, <2>3
  <1>8. OwnerSpeaks'
    BY <1>1, <1>7 DEF OwnerSpeaks, ClosedAt
  <1> QED
    BY <1>2, <1>8 DEF SessionInv

LEMMA HandleSession ==
  ASSUME TypeOK, CoreInv, SessionInv, Handle
  PROVE  SessionInv'
  <1>1. CASE ClientJoin
    BY <1>1, JoinSession
  <1>2. CASE (KickPlayer /\ ~Done) \/ (ConnectionClosed /\ ~Done)
    <2>1. UNCHANGED <<remote, queue, main, index>>
      BY <1>2 DEF KickPlayer, ConnectionClosed, Stay
    <2>2. PICK i \in Index : Delete(i)
      BY <1>2 DEF KickPlayer, ConnectionClosed, GetSlotState
    <2>3. \A j \in Index : slot'[j] => slot[j] /\ owner'[j] = owner[j]
      BY <2>2, DeleteEmpties
    <2> QED
      BY <2>1, <2>3, QuietSession
  <1>3. CASE \/ ClientJoinBadIndex \/ (Chat /\ ~Done) \/ (PassengerSync /\ ~Done)
             \/ (Spawn /\ ~Done) \/ Death
    <2>1. /\ UNCHANGED <<remote, queue, slot, owner>>
          /\ main' = "handle" => main = "handle" /\ index' = index
      BY <1>3 DEF ClientJoinBadIndex, Chat, PassengerSync, Spawn, Death, Stay, Fail, poolVars
    <2> QED
      BY <2>1, QuietSession
  <1>4. CASE \/ ClientJoinRefused \/ IgnoreMessage \/ RequestClass \/ Admin
             \/ PlayerSync \/ VehicleSync
             \/ (Chat \/ PassengerSync \/ Spawn \/ KickPlayer) /\ Done
    <2>1. \/ ClientJoinRefused /\ Handling("ClientJoin")
          \/ IgnoreMessage /\ \E k \in GatedRPCs : Handling(k)
          \/ RequestClass /\ Handling("RequestClass")
          \/ Spawn /\ Done /\ Handling("Spawn")
          \/ Chat /\ Done /\ Handling("Chat")
          \/ KickPlayer /\ Done /\ Handling("KickPlayer")
          \/ Admin /\ Handling("Admin")
          \/ PlayerSync /\ Handling("PlayerSync")
          \/ VehicleSync /\ Handling("VehicleSync")
          \/ PassengerSync /\ Done /\ Handling("PassengerSync")
      BY <1>4 DEF ClientJoinRefused, IgnoreMessage, RequestClass, Spawn, Chat, KickPlayer, Admin,
                  PlayerSync, VehicleSync, PassengerSync, StoreSync, Gated
    <2>2. main = "handle" /\ Head(queue).kind # "ConnectionClosed"
      BY <2>1 DEF Handling, GatedRPCs
    <2>3. Return /\ UNCHANGED remote
      BY <1>4 DEF ClientJoinRefused, IgnoreMessage, RequestClass, Spawn, Chat, KickPlayer, Admin,
                  PlayerSync, VehicleSync, PassengerSync, StoreSync, Done
    <2>4. UNCHANGED <<slot, owner>>
      <3>1. ~Stay
        <4>1. queue \in Seq(Packet) /\ queue # <<>> /\ queue' = Tail(queue)
          BY <2>2, <2>3 DEF TypeOK, Return
        <4>2. queue' # queue
          BY <4>1, TailShifts
        <4> QED
          BY <4>2 DEF Stay
      <3> QED
        BY <1>4, <3>1 DEF ClientJoinRefused, IgnoreMessage, RequestClass, Spawn, Chat,
                          KickPlayer, Admin, PlayerSync, VehicleSync, PassengerSync, StoreSync,
                          poolVars
    <2>5. \A i \in Index : ~ClosedAt(i, 1)
      BY <2>2, HandledType DEF ClosedAt
    <2> QED
      BY <2>2, <2>3, <2>4, <2>5, TakenSession
  <1>5. CASE ConnectionClosed /\ Done
    <2>1. /\ main = "handle" /\ Head(queue).kind = "ConnectionClosed" /\ Return
          /\ UNCHANGED remote
      BY <1>5 DEF ConnectionClosed, Handling, Done
    <2>2. ~Stay
      <3>1. queue \in Seq(Packet) /\ queue # <<>> /\ queue' = Tail(queue)
        BY <2>1 DEF TypeOK, Return
      <3>2. queue' # queue
        BY <3>1, TailShifts
      <3> QED
        BY <3>2 DEF Stay
    <2>3. UNCHANGED <<slot, owner>> /\ ~GetSlotState(index)
      BY <1>5, <2>2 DEF ConnectionClosed, poolVars
    <2>4. index = Head(queue).idx
      BY <2>1 DEF CoreInv, IndexOfPacket, IndexedKinds
    <2>5. \A i \in Index : slot[i] => ~ClosedAt(i, 1)
      BY <2>1, <2>3, <2>4, HandledType DEF ClosedAt, GetSlotState
    <2> QED
      BY <2>1, <2>3, <2>5, TakenSession
  <1> QED
    BY <1>1, <1>2, <1>3, <1>4, <1>5 DEF Handle

(* The loops that send leave the sessions alone, and a loss they tell of    *)
(* has emptied its slot before.                                             *)
LEMMA SendSession ==
  ASSUME TypeOK, CoreInv, SessionInv, Send
  PROVE  SessionInv'
  <1>1. UNCHANGED <<remote, slot, owner>>
    BY DEF Send, SendToEntry, JoinAnnounced, SpawnForPlayer, SpawnAnnounced, EndAnnounced,
           poolVars
  <1>2. Sending
    BY DEF Send, SendToEntry, JoinAnnounced, SpawnForPlayer, SpawnAnnounced, EndAnnounced,
           Announced, Broadcasts, Sending
  <1>3. Stay \/ (Return /\ main = "handle")
    <2>1. cast.rpc # "ServerQuit" => main = "handle"
      BY <1>2 DEF CoreInv, CastOfHandler
    <2>2. main = "handle" \/ main = "rcon"
      BY <1>2 DEF CoreInv, CastOfHandler
    <2> QED
      BY <2>1, <2>2 DEF Send, SendToEntry, JoinAnnounced, SpawnForPlayer, SpawnAnnounced,
                        EndAnnounced, Announced, ListFrom
  <1>4. CASE Stay
    BY <1>1, <1>4, QuietSession DEF Stay
  <1>5. CASE Return /\ main = "handle"
    <2>1. \/ Head(queue).kind # "ConnectionClosed"
          \/ ~slot[Head(queue).idx]
      BY <1>2, <1>5, CastType DEF CoreInv, CastOfHandler, Broadcasts
    <2>2. \A i \in Index : slot[i] => ~ClosedAt(i, 1)
      BY <1>5, <2>1, HandledType DEF ClosedAt
    <2> QED
      BY <1>1, <1>5, <2>2, TakenSession
  <1> QED
    BY <1>3, <1>4, <1>5

LEMMA StepSession ==
  ASSUME TypeOK, CoreInv, SessionInv, [Next]_vars
  PROVE  SessionInv'
  <1>1. CASE Receive
    BY <1>1, ReceiveSession
  <1>2. CASE Handle
    BY <1>2, HandleSession
  <1>3. CASE ProcessPlayers \/ RconDone
    <2>1. UNCHANGED <<remote, queue, slot, owner>> /\ main' # "handle"
      BY <1>3 DEF ProcessPlayers, RconDone, netVars, poolVars
    <2> QED
      BY <2>1, QuietSession
  <1>4. CASE RconKick
    <2>1. UNCHANGED <<remote, queue>> /\ main' # "handle"
      BY <1>4 DEF RconKick, Stay
    <2>2. \A i \in Index : slot'[i] => slot[i] /\ owner'[i] = owner[i]
      BY <1>4, DeleteEmpties DEF RconKick
    <2> QED
      BY <2>1, <2>2, QuietSession
  <1>5. CASE Send
    BY <1>5, SendSession
  <1>6. CASE \E c \in Clients : Network(c)
    BY <1>6, NetworkSession
  <1>7. CASE UNCHANGED vars
    <2>1. UNCHANGED <<remote, queue, slot, owner, main, index>>
      BY <1>7 DEF vars
    <2> QED
      BY <2>1, QuietSession
  <1> QED
    BY <1>1, <1>2, <1>3, <1>4, <1>5, <1>6, <1>7 DEF Next, MainThread

(* Packets queued, handled and answered while an index changes hands stay   *)
(* with the session they were sent in.                                      *)
THEOREM SessionsCorrect == Spec => []SessionInv
  <1>1. TypeOK /\ TableInv /\ SessionInv /\ [Next]_vars => SessionInv'
    BY StepSession DEF TableInv, CoreInv
  <1> QED
    BY <1>1, InitSession, TypeCorrect, TableCorrect, PTL DEF Spec

(* A message changes the player of the client that sent it, whoever took    *)
(* over the index between its arrival and its handler.                      *)
THEOREM SendersOnly == Spec => MessagesActOnTheirSender
  <1> DEFINE Kinds == (GatedRPCs \ {"KickPlayer"}) \cup SyncKinds
             Player(i) == <<slot[i], active[i], wasted[i], update[i], info[i], admin[i]>>
             Act == main = "handle" /\ Head(queue).kind \in Kinds =>
                      \A i \in Index : Player(i)' # Player(i) => owner[i] = Sender
  <1>1. ASSUME TypeOK, TableInv, SessionInv, Next PROVE Act
    <2> SUFFICES ASSUME main = "handle", Head(queue).kind \in Kinds, NEW i \in Index,
                        Player(i)' # Player(i)
                 PROVE  owner[i] = Sender
      OBVIOUS
    <2>1. Head(queue) = queue[1] /\ 1 \in 1 .. Len(queue) /\ 1 .. 1 - 1 = {}
      BY <1>1, HandledType
    <2>2. GetSlotState(index) => owner[index] = Sender
      <3>1. CASE Head(queue).kind \in SyncKinds
        <4>1. index = Head(queue).idx
          BY <1>1, <3>1 DEF TableInv, IndexOfPacket, IndexedKinds
        <4> QED
          BY <1>1, <2>1, <4>1 DEF SessionInv, OwnerSpeaks, GetSlotState, Sender
      <3>2. CASE Head(queue).kind \notin SyncKinds
        <4>1. Head(queue).kind \notin IndexedKinds
          BY <3>2 DEF IndexedKinds, GatedRPCs
        <4> QED
          BY <1>1, <4>1 DEF TableInv, HandlerActsOnSender
      <3> QED
        BY <3>1, <3>2
    <2>3. CASE Handle
      <3>1. \/ IgnoreMessage \/ RequestClass \/ Spawn \/ Death \/ Chat \/ Admin
            \/ PlayerSync \/ VehicleSync \/ PassengerSync
        BY <2>3 DEF Handle, ClientJoinRefused, ClientJoin, ClientJoinBadIndex, KickPlayer,
                    ConnectionClosed, Gated, Handling, GatedRPCs, SyncKinds
      <3>2. UNCHANGED slot
        BY <3>1 DEF IgnoreMessage, RequestClass, Spawn, Death, Chat, Admin, PlayerSync,
                    VehicleSync, PassengerSync, StoreSync, poolVars
      <3>3. i = index /\ GetSlotState(index)
        <4>1. CASE IgnoreMessage \/ Chat \/ PassengerSync
          BY <4>1 DEF IgnoreMessage, Chat, PassengerSync, poolVars, playerVars
        <4>2. CASE RequestClass
          BY <1>1, <3>2, <4>2 DEF RequestClass, Gated, poolVars, TypeOK
        <4>3. CASE Spawn
          BY <4>3 DEF Spawn, poolVars, playerVars
        <4>4. CASE Death
          BY <1>1, <3>2, <4>4 DEF Death, Gated, TypeOK
        <4>5. CASE Admin
          BY <1>1, <3>2, <4>5 DEF Admin, Gated, playerVars, TypeOK
        <4>6. CASE PlayerSync \/ VehicleSync
          BY <1>1, <3>2, <4>6 DEF PlayerSync, VehicleSync, StoreSync, poolVars, TypeOK
        <4> QED
          BY <3>1, <4>1, <4>2, <4>3, <4>4, <4>5, <4>6
      <3> QED
        BY <2>2, <3>3
    <2>4. CASE Send
      <3>1. CASE SpawnAnnounced
        <4>1. i = index
          BY <1>1, <3>1 DEF SpawnAnnounced, poolVars, TypeOK
        <4>2. index = cast.idx /\ owner[cast.idx] = Sender
          BY <1>1, <3>1 DEF SpawnAnnounced, Announced, TableInv, CastOfHandler, Sending
        <4> QED
          BY <4>1, <4>2
      <3>2. CASE ~SpawnAnnounced
        BY <2>4, <3>2 DEF Send, SendToEntry, JoinAnnounced, SpawnForPlayer, EndAnnounced,
                          poolVars, playerVars
      <3> QED
        BY <3>1, <3>2
    <2>5. CASE ~Handle /\ ~Send
      <3>1. \E c \in Clients : Network(c)
        BY <1>1, <2>5 DEF Next, MainThread, Receive, ProcessPlayers, RconKick, RconDone
      <3> QED
        BY <3>1 DEF Network, Connect, SendClientJoin, SendGameMessage, Disconnect, poolVars,
                    playerVars
    <2> QED
      BY <2>3, <2>4, <2>5
  <1>2. TypeOK /\ TableInv /\ SessionInv /\ [Next]_vars => [Act]_vars
    BY <1>1
  <1> QED
    BY <1>2, TypeCorrect, TableCorrect, SessionsCorrect, PTL
       DEF Spec, MessagesActOnTheirSender

-------------------------------------------------------------------------------
(* What the clients were told.                                              *)

(* Whoever has no connection has been told of nobody.                       *)
StrangersKnowNothing == \A c \in Clients : ~Connected(c) => known[c] = {} /\ shown[c] = {}

(* What is announced of a player is true of it while the loop runs.         *)
CastIsTrue ==
  /\ cast.rpc = "List" => Spawned(cast.next)
  /\ cast.rpc = "Death" => ~active[cast.idx]

(* The players the loop has passed were shown the one that spawns.          *)
SpawnReached ==
  cast.rpc = "Spawn" =>
    \A i \in Index : i < cast.next /\ i # cast.idx /\ slot[i] /\ remote[i] = owner[i] =>
      cast.idx \in shown[owner[i]]

ViewInv ==
  /\ StrangersKnowNothing
  /\ ViewsSound
  /\ ViewsComplete
  /\ CastIsTrue
  /\ SpawnReached

LEMMA InitViews == Init => ViewInv
  <1> SUFFICES ASSUME Init PROVE ViewInv
    OBVIOUS
  <1>1. \A i \in Index : remote[i] = None /\ ~slot[i]
    BY DEF Init
  <1>2. \A c \in Clients : known[c] = {} /\ shown[c] = {}
    BY DEF Init
  <1>3. cast.rpc = "none"
    BY DEF Init, Silence
  <1> QED
    BY <1>1, <1>2, <1>3
       DEF ViewInv, StrangersKnowNothing, ViewsSound, ViewsComplete, CastIsTrue, SpawnReached

(* Whoever is connected is a client with one entry.                         *)
LEMMA TableFacts ==
  ASSUME TypeOK, CoreInv, NEW i \in Index, remote[i] # None
  PROVE  /\ remote[i] \in Clients /\ Connected(remote[i])
         /\ \A j \in Index : remote[j] = remote[i] => j = i
  BY DEF TypeOK, CoreInv, OneEntryPerClient, Connected

(* The client of a player with a connection.                                *)
LEMMA OwnerFacts ==
  ASSUME TypeOK, CoreInv, NEW i \in Index, slot[i], remote[i] = owner[i]
  PROVE  owner[i] \in Clients /\ owner[i] # None /\ Connected(owner[i])
  BY ConstantsAssumption DEF CoreInv, SlotsOwned, Connected

(* Steps that change neither the pool nor what anybody was told.            *)
LEMMA SilentViews ==
  ASSUME ViewInv, UNCHANGED <<remote, slot, owner, active, known, shown, cast>>
  PROVE  ViewInv'
  BY DEF ViewInv, StrangersKnowNothing, ViewsSound, ViewsComplete, CastIsTrue, SpawnReached,
         Connected, OnItsWay, Unlisted, Spawned

(* A connection of its own has been told of nobody, and owns no slot.       *)
LEMMA ConnectViews ==
  ASSUME TypeOK, CoreInv, ViewInv, NEW c \in Clients, Connect(c)
  PROVE  ViewInv'
  <1>1. ~Connected(c) /\ \A k \in 1 .. Len(queue) : queue[k].from # c
    BY DEF CoreInv, PhaseMatchesTable, Connect
  <1>2. \A i \in Index : slot[i] => owner[i] # c
    BY <1>1, SilentOwnsNothing
  <1>3. PICK e \in Index : remote[e] = None /\ remote' = [remote EXCEPT ![e] = c]
    BY DEF Connect, FirstFree
  <1>4. /\ remote'[e] = c
        /\ \A j \in Index : j # e => remote'[j] = remote[j]
    BY <1>3 DEF TypeOK
  <1>5. known[c] = {} /\ shown[c] = {}
    BY <1>1 DEF ViewInv, StrangersKnowNothing
  <1>6. UNCHANGED <<slot, owner, active, known, shown, cast>>
    BY DEF Connect, poolVars, playerVars, viewVars, mainVars
  <1>7. \A i \in Index : slot[i] /\ remote'[i] = owner[i] => remote[i] = owner[i]
    BY <1>2, <1>4
  <1>8. StrangersKnowNothing'
    <2>1. ASSUME NEW d \in Clients, ~Connected(d)' PROVE ~Connected(d)
      BY <1>3, <1>4, <2>1, ConstantsAssumption DEF Connected
    <2> QED
      BY <1>6, <2>1 DEF ViewInv, StrangersKnowNothing
  <1>9. ViewsSound'
    <2> SUFFICES ASSUME NEW i \in Index, NEW j \in Index, remote'[j] # None, i # j
                 PROVE  /\ i \in known[remote'[j]] => slot[i] \/ OnItsWay({"ServerQuit"}, i, j)
                        /\ i \in shown[remote'[j]] =>
                             \/ slot[i] /\ active[i]
                             \/ OnItsWay({"ServerQuit", "Death"}, i, j)
                             \/ cast.rpc = "Spawn" /\ cast.idx = i
      BY <1>6 DEF ViewsSound, OnItsWay
    <2>1. CASE j = e
      BY <1>4, <1>5, <2>1
    <2>2. CASE j # e
      <3>1. remote'[j] = remote[j]
        BY <1>4, <2>2
      <3> QED
        BY <3>1 DEF ViewInv, ViewsSound
    <2> QED
      BY <2>1, <2>2
  <1>10. ViewsComplete'
    BY <1>6, <1>7 DEF ViewInv, ViewsComplete, Unlisted
  <1>11. CastIsTrue' /\ SpawnReached'
    BY <1>6, <1>7 DEF ViewInv, CastIsTrue, SpawnReached, Spawned
  <1> QED
    BY <1>8, <1>9, <1>10, <1>11 DEF ViewInv

LEMMA DisconnectViews ==
  ASSUME TypeOK, CoreInv, ViewInv, NEW c \in Clients, Disconnect(c)
  PROVE  ViewInv'
  <1>1. PICK e \in Index : remote[e] = c /\ remote' = [remote EXCEPT ![e] = None]
    BY DEF Disconnect, CloseConnection
  <1>2. /\ remote'[e] = None
        /\ \A j \in Index : j # e => remote'[j] = remote[j]
    BY <1>1 DEF TypeOK
  <1>3. UNCHANGED <<slot, owner, active, cast>>
    BY DEF Disconnect, poolVars, playerVars, mainVars
  <1>4. /\ known'[c] = {} /\ shown'[c] = {}
        /\ \A d \in Clients : d # c => known'[d] = known[d] /\ shown'[d] = shown[d]
    BY DEF Disconnect, TypeOK
  <1>5. c # None /\ \A j \in Index : remote[j] = c => j = e
    BY <1>1, TableFacts, ConstantsAssumption
  <1>6. \A i \in Index : remote'[i] # None =>
          remote'[i] = remote[i] /\ remote[i] \in Clients /\ remote[i] # c
    BY <1>2, <1>5 DEF TypeOK
  <1>7. ASSUME NEW i \in Index, slot[i], remote'[i] = owner[i]
        PROVE  remote[i] = owner[i] /\ shown'[owner[i]] = shown[owner[i]]
    <2>1. owner[i] \in Clients /\ owner[i] # None
      BY <1>7, ConstantsAssumption DEF CoreInv, SlotsOwned
    <2> QED
      BY <1>4, <1>6, <1>7, <2>1
  <1>8. StrangersKnowNothing'
    <2>1. ASSUME NEW d \in Clients, d # c, ~Connected(d)' PROVE ~Connected(d)
      BY <1>1, <1>2, <2>1 DEF Connected
    <2> QED
      BY <1>4, <2>1 DEF ViewInv, StrangersKnowNothing
  <1>9. ViewsSound'
    <2> SUFFICES ASSUME NEW i \in Index, NEW j \in Index, remote'[j] # None, i # j
                 PROVE  /\ i \in known'[remote'[j]] => slot[i] \/ OnItsWay({"ServerQuit"}, i, j)
                        /\ i \in shown'[remote'[j]] =>
                             \/ slot[i] /\ active[i]
                             \/ OnItsWay({"ServerQuit", "Death"}, i, j)
                             \/ cast.rpc = "Spawn" /\ cast.idx = i
      BY <1>3 DEF ViewsSound, OnItsWay
    <2>1. /\ remote'[j] = remote[j] /\ known'[remote[j]] = known[remote[j]]
          /\ shown'[remote[j]] = shown[remote[j]]
      BY <1>4, <1>6
    <2> QED
      BY <2>1 DEF ViewInv, ViewsSound
  <1>10. ViewsComplete'
    BY <1>3, <1>7 DEF ViewInv, ViewsComplete, Unlisted
  <1>11. CastIsTrue' /\ SpawnReached'
    BY <1>3, <1>7 DEF ViewInv, CastIsTrue, SpawnReached, Spawned
  <1> QED
    BY <1>8, <1>9, <1>10, <1>11 DEF ViewInv

(* The newcomer takes a slot of which nobody believes anything, and the     *)
(* list of its join has everybody to come yet.                              *)
LEMMA JoinViews ==
  ASSUME TypeOK, CoreInv, ViewInv, ClientJoin
  PROVE  ViewInv'
  <1>1. /\ index \in Index /\ cast.rpc = "none"
        /\ UNCHANGED <<remote, known, shown>>
    BY DEF ClientJoin, Handling, Sending, viewVars
  <1>2. ~slot[index]
    BY <1>1, JoinSlotFree DEF ClientJoin, NoOverwrite, GetSlotState
  <1>3. /\ slot'[index] /\ ~active'[index]
        /\ \A j \in Index : j # index =>
             slot'[j] = slot[j] /\ owner'[j] = owner[j] /\ active'[j] = active[j]
    BY <1>1 DEF ClientJoin, New, TypeOK
  <1>4. cast'.rpc = "ServerJoin" /\ cast'.idx = index
    BY <1>1, AnnounceType DEF ClientJoin, New, Broadcasts
  <1>5. StrangersKnowNothing' /\ CastIsTrue' /\ SpawnReached'
    BY <1>1, <1>4 DEF ViewInv, StrangersKnowNothing, CastIsTrue, SpawnReached, Connected
  <1>6. ViewsSound'
    BY <1>1, <1>2, <1>3 DEF ViewInv, ViewsSound, OnItsWay
  <1>7. ViewsComplete'
    <2> SUFFICES ASSUME NEW i \in Index, slot'[i], remote[i] = owner'[i], NEW j \in Index,
                        slot'[j], active'[j], j # i, j \notin Unlisted(i)'
                 PROVE  j \in shown[owner'[i]]
      BY <1>1 DEF ViewsComplete
    <2>1. i # index
      BY <1>4 DEF Unlisted
    <2>2. slot[i] /\ owner'[i] = owner[i] /\ slot[j] /\ active[j]
      BY <1>3, <2>1
    <2>3. Unlisted(i) = {}
      BY <1>1 DEF Unlisted
    <2> QED
      BY <2>2, <2>3 DEF ViewInv, ViewsComplete
  <1> QED
    BY <1>5, <1>6, <1>7 DEF ViewInv

(* A player that goes or dies: the loop has everybody before it.            *)
LEMMA EndViews ==
  ASSUME TypeOK, ViewInv, ~Sending, UNCHANGED <<remote, known, shown>>,
         NEW rpc \in {"ServerQuit", "Death"}, NEW v \in Index, Announce(rpc, v),
         \A j \in Index : j # v => slot'[j] = slot[j] /\ active'[j] = active[j],
         \A j \in Index : slot'[j] => slot[j] /\ owner'[j] = owner[j],
         rpc = "Death" => slot'[v] = slot[v],
         ~active'[v]
  PROVE  ViewInv'
  <1>1. cast.rpc = "none"
    BY DEF Sending
  <1>2. cast'.rpc = rpc /\ cast'.idx = v /\ cast'.next = 0
    BY AnnounceType DEF Broadcasts
  <1>3. StrangersKnowNothing' /\ CastIsTrue' /\ SpawnReached'
    BY <1>1, <1>2 DEF ViewInv, StrangersKnowNothing, CastIsTrue, SpawnReached, Connected
  <1>4. \A j \in Index : 0 <= j
    BY DEF Index
  <1>5. ViewsSound'
    BY <1>1, <1>2, <1>4 DEF ViewInv, ViewsSound, OnItsWay
  <1>6. ViewsComplete'
    <2> SUFFICES ASSUME NEW i \in Index, slot'[i], remote[i] = owner'[i], NEW j \in Index,
                        slot'[j], active'[j], j # i
                 PROVE  j \in shown[owner'[i]]
      BY DEF ViewsComplete
    <2>1. slot[i] /\ owner'[i] = owner[i] /\ slot[j] /\ active[j] /\ Unlisted(i) = {}
      BY <1>1 DEF Unlisted
    <2> QED
      BY <2>1 DEF ViewInv, ViewsComplete
  <1> QED
    BY <1>3, <1>5, <1>6 DEF ViewInv

LEMMA DeleteViews ==
  ASSUME TypeOK, ViewInv, ~Sending, UNCHANGED <<remote, known, shown>>,
         NEW v \in Index, Delete(v)
  PROVE  ViewInv'
  <1>1. /\ ~slot'[v] /\ Announce("ServerQuit", v)
        /\ \A j \in Index : j # v => slot'[j] = slot[j] /\ owner'[j] = owner[j]
    BY DeleteEmpties
  <1>2. ~active'[v] /\ \A j \in Index : j # v => active'[j] = active[j]
    BY DEF Delete, TypeOK
  <1>3. \A j \in Index : slot'[j] => slot[j] /\ owner'[j] = owner[j]
    BY <1>1
  <1> QED
    BY <1>1, <1>2, <1>3, EndViews

LEMMA DeathViews ==
  ASSUME TypeOK, ViewInv, Death
  PROVE  ViewInv'
  <1>1. /\ index \in Index /\ ~Sending /\ Announce("Death", index)
        /\ UNCHANGED <<remote, slot, owner, known, shown>>
    BY DEF Death, Gated, GetSlotState, Handling, viewVars
  <1>2. ~active'[index] /\ \A j \in Index : j # index => active'[j] = active[j]
    BY <1>1 DEF Death, TypeOK
  <1> QED
    BY <1>1, <1>2, EndViews

LEMMA SpawnViews ==
  ASSUME TypeOK, ViewInv, Spawn
  PROVE  ViewInv'
  <1>1. UNCHANGED <<remote, slot, owner, active, known, shown>> /\ index \in Index
    BY DEF Spawn, Gated, GetSlotState, poolVars, playerVars, viewVars
  <1>2. CASE UNCHANGED cast
    BY <1>1, <1>2, SilentViews
  <1>3. CASE Announce("Spawn", index)
    <2>1. cast.rpc = "none"
      BY DEF Spawn, Gated, Handling, Sending
    <2>2. cast'.rpc = "Spawn" /\ cast'.idx = index /\ cast'.next = 0
      BY <1>1, <1>3, AnnounceType DEF Broadcasts
    <2>3. \A j \in Index : ~(j < 0)
      BY DEF Index
    <2>4. StrangersKnowNothing' /\ CastIsTrue' /\ SpawnReached'
      BY <1>1, <2>2, <2>3
         DEF ViewInv, StrangersKnowNothing, CastIsTrue, SpawnReached, Connected
    <2>5. ViewsSound'
      BY <1>1, <2>1 DEF ViewInv, ViewsSound, OnItsWay
    <2>6. ViewsComplete'
      <3>1. \A i \in Index : Unlisted(i) = {}
        BY <2>1 DEF Unlisted
      <3> QED
        BY <1>1, <3>1 DEF ViewInv, ViewsComplete
    <2> QED
      BY <2>4, <2>5, <2>6 DEF ViewInv
  <1> QED
    BY <1>2, <1>3 DEF Spawn, Done

-------------------------------------------------------------------------------
(* The loop over the table.                                                 *)

(* The address that is left out is at the entry of the player or nowhere.   *)
LEMMA ExceptFacts ==
  ASSUME TypeOK, CoreInv, Sending, NEW j \in Index, j # cast.idx, remote[j] # None
  PROVE  remote[j] # cast.except
  <1> SUFFICES ASSUME remote[j] = cast.except PROVE FALSE
    OBVIOUS
  <1>1. cast.except # None /\ cast.idx \in Index
    BY CastType
  <1>2. CASE remote[cast.idx] = cast.except
    BY <1>1, <1>2, TableFacts
  <1>3. CASE \E k \in 1 .. Len(queue) : queue[k] = ClosedPacket(cast.except, cast.idx)
    <2>1. PICK k \in 1 .. Len(queue) : queue[k] = ClosedPacket(cast.except, cast.idx)
      BY <1>3
    <2>2. ~Connected(cast.except)
      BY <2>1 DEF CoreInv, ClosedIsGone, ClosedPacket
    <2> QED
      BY <2>2 DEF Connected
  <1> QED
    BY <1>1, <1>2, <1>3 DEF CoreInv, CastOfHandler

(* One entry: only the client behind it learns something, of the player the *)
(* message is about, and it learns it unless the entry is that player's.    *)
LEMMA Reaches ==
  ASSUME TypeOK, CoreInv, cast.rpc \in Broadcasts, SendToConnection
  PROVE  /\ \A d \in Clients : d # remote[cast.next] =>
              known'[d] = known[d] /\ shown'[d] = shown[d]
         /\ \A d \in Clients, y \in Index : y # cast.idx =>
              (y \in known'[d] <=> y \in known[d]) /\ (y \in shown'[d] <=> y \in shown[d])
         /\ cast.rpc # "ServerJoin" => \A d \in Clients : known'[d] \subseteq known[d]
         /\ cast.rpc # "Spawn" => \A d \in Clients : shown'[d] \subseteq shown[d]
         /\ cast.rpc \in {"ServerJoin", "Spawn"} =>
              \A d \in Clients : shown[d] \subseteq shown'[d]
         /\ remote[cast.next] # None /\ cast.next # cast.idx =>
              /\ cast.rpc = "ServerQuit" => cast.idx \notin known'[remote[cast.next]]
              /\ cast.rpc \in {"ServerQuit", "Death"} =>
                   cast.idx \notin shown'[remote[cast.next]]
              /\ cast.rpc = "Spawn" => cast.idx \in shown'[remote[cast.next]]
  <1>1. cast.idx \in Index /\ cast.next \in Index
    BY CastType
  <1>2. known \in [Clients -> SUBSET Index] /\ shown \in [Clients -> SUBSET Index]
    BY DEF TypeOK
  <1>3. Sending
    BY DEF Sending, Broadcasts
  <1>4. remote[cast.next] # None /\ cast.next # cast.idx => remote[cast.next] # cast.except
    BY <1>1, <1>3, ExceptFacts
  <1>5. CASE ~(remote[cast.next] # None /\ remote[cast.next] # cast.except)
    <2>1. UNCHANGED viewVars
      BY <1>5 DEF SendToConnection
    <2>2. ~(remote[cast.next] # None /\ cast.next # cast.idx)
      BY <1>4, <1>5
    <2> QED
      BY <2>1, <2>2 DEF viewVars
  <1>6. CASE remote[cast.next] # None /\ remote[cast.next] # cast.except
    <2>0. remote[cast.next] \in Clients /\ Learns(remote[cast.next], cast.rpc, cast.idx)
      BY <1>1, <1>6 DEF SendToConnection, TypeOK
    <2> DEFINE c == remote[cast.next]
               x == cast.idx
    <2>1. /\ c \in Clients
          /\ Tell(known, c, x) = [known EXCEPT ![c] = known[c] \cup {x}]
          /\ Tell(shown, c, x) = [shown EXCEPT ![c] = shown[c] \cup {x}]
          /\ Withdraw(known, c, x) = [known EXCEPT ![c] = known[c] \ {x}]
          /\ Withdraw(shown, c, x) = [shown EXCEPT ![c] = shown[c] \ {x}]
      BY <2>0 DEF Tell, Withdraw
    <2>2. CASE cast.rpc = "ServerJoin"
      <3>1. known' = [known EXCEPT ![c] = known[c] \cup {x}] /\ shown' = shown
        BY <2>0, <2>1, <2>2 DEF Learns
      <3> QED
        BY <1>2, <2>1, <2>2, <3>1
    <2>3. CASE cast.rpc = "ServerQuit"
      <3>1. /\ known' = [known EXCEPT ![c] = known[c] \ {x}]
            /\ shown' = [shown EXCEPT ![c] = shown[c] \ {x}]
        BY <2>0, <2>1, <2>3 DEF Learns
      <3> QED
        BY <1>2, <2>1, <2>3, <3>1
    <2>4. CASE cast.rpc = "Spawn"
      <3>1. known' = known /\ shown' = [shown EXCEPT ![c] = shown[c] \cup {x}]
        BY <2>0, <2>1, <2>4 DEF Learns
      <3> QED
        BY <1>2, <2>1, <2>4, <3>1
    <2>5. CASE cast.rpc = "Death"
      <3>1. known' = known /\ shown' = [shown EXCEPT ![c] = shown[c] \ {x}]
        BY <2>0, <2>1, <2>5 DEF Learns
      <3> QED
        BY <1>2, <2>1, <2>5, <3>1
    <2> QED
      BY <2>2, <2>3, <2>4, <2>5 DEF Broadcasts
  <1> QED
    BY <1>5, <1>6

(* What one entry does to the views, with the rest of the loop before it.   *)
LEMMA EntryViews ==
  ASSUME TypeOK, CoreInv, ViewInv, cast.rpc \in Broadcasts, SendToConnection
  PROVE  /\ \A c \in Clients : ~Connected(c) => known'[c] = {} /\ shown'[c] = {}
         /\ \A i, j \in Index : remote[j] # None /\ i # j =>
              /\ i \in known'[remote[j]] =>
                   \/ slot[i]
                   \/ OnItsWay({"ServerQuit"}, i, j) /\ cast.next # j
              /\ i \in shown'[remote[j]] =>
                   \/ slot[i] /\ active[i]
                   \/ OnItsWay({"ServerQuit", "Death"}, i, j) /\ cast.next # j
                   \/ cast.rpc = "Spawn" /\ cast.idx = i
         /\ \A i, j \in Index :
              slot[i] /\ remote[i] = owner[i] /\ slot[j] /\ active[j] /\ j # i =>
                j \in Unlisted(i) \/ j \in shown'[owner[i]]
         /\ cast.rpc = "Spawn" =>
              \A i \in Index :
                i <= cast.next /\ i # cast.idx /\ slot[i] /\ remote[i] = owner[i] =>
                  cast.idx \in shown'[owner[i]]
  <1>1. cast.idx \in Index /\ cast.next \in Index /\ Sending
    BY CastType DEF Sending, Broadcasts
  <1>2. /\ \A d \in Clients : d # remote[cast.next] =>
              known'[d] = known[d] /\ shown'[d] = shown[d]
        /\ \A d \in Clients, y \in Index : y # cast.idx =>
              (y \in known'[d] <=> y \in known[d]) /\ (y \in shown'[d] <=> y \in shown[d])
        /\ cast.rpc # "ServerJoin" => \A d \in Clients : known'[d] \subseteq known[d]
        /\ cast.rpc # "Spawn" => \A d \in Clients : shown'[d] \subseteq shown[d]
        /\ cast.rpc \in {"ServerJoin", "Spawn"} =>
              \A d \in Clients : shown[d] \subseteq shown'[d]
        /\ remote[cast.next] # None /\ cast.next # cast.idx =>
              /\ cast.rpc = "ServerQuit" => cast.idx \notin known'[remote[cast.next]]
              /\ cast.rpc \in {"ServerQuit", "Death"} =>
                   cast.idx \notin shown'[remote[cast.next]]
              /\ cast.rpc = "Spawn" => cast.idx \in shown'[remote[cast.next]]
    BY Reaches
  <1>3. /\ cast.rpc # "ServerQuit" => slot[cast.idx]
        /\ cast.rpc = "ServerQuit" => ~slot[cast.idx]
        /\ cast.rpc = "Death" => ~active[cast.idx]
    BY <1>1 DEF CoreInv, CastOfHandler, ViewInv, CastIsTrue
  <1>4. \A c \in Clients : ~Connected(c) => known'[c] = {} /\ shown'[c] = {}
    <2> SUFFICES ASSUME NEW c \in Clients, ~Connected(c) PROVE known'[c] = {} /\ shown'[c] = {}
      OBVIOUS
    <2>1. c # remote[cast.next]
      BY <1>1 DEF Connected
    <2> QED
      BY <1>2, <2>1 DEF ViewInv, StrangersKnowNothing
  <1>5. ASSUME NEW i \in Index, NEW j \in Index, remote[j] # None, i # j
        PROVE  /\ i \in known'[remote[j]] =>
                    \/ slot[i]
                    \/ OnItsWay({"ServerQuit"}, i, j) /\ cast.next # j
               /\ i \in shown'[remote[j]] =>
                    \/ slot[i] /\ active[i]
                    \/ OnItsWay({"ServerQuit", "Death"}, i, j) /\ cast.next # j
                    \/ cast.rpc = "Spawn" /\ cast.idx = i
    <2>1. remote[j] \in Clients
      BY <1>5, TableFacts
    <2>2. /\ i \in known[remote[j]] => slot[i] \/ OnItsWay({"ServerQuit"}, i, j)
          /\ i \in shown[remote[j]] =>
               \/ slot[i] /\ active[i]
               \/ OnItsWay({"ServerQuit", "Death"}, i, j)
               \/ cast.rpc = "Spawn" /\ cast.idx = i
      BY <1>5 DEF ViewInv, ViewsSound
    <2>3. CASE i # cast.idx
      BY <1>2, <2>1, <2>2, <2>3 DEF OnItsWay
    <2>4. CASE i = cast.idx
      <3>1. CASE cast.rpc = "ServerJoin" \/ cast.rpc = "Spawn"
        BY <1>2, <1>3, <2>1, <2>2, <2>4, <3>1 DEF OnItsWay
      <3>2. CASE cast.rpc = "ServerQuit" \/ cast.rpc = "Death"
        <4>1. CASE cast.next = j
          BY <1>2, <1>3, <1>5, <2>4, <3>2, <4>1
        <4>2. CASE cast.next # j
          BY <1>2, <2>1, <2>2, <3>2, <4>2
        <4> QED
          BY <4>1, <4>2
      <3> QED
        BY <3>1, <3>2 DEF Broadcasts
    <2> QED
      BY <2>3, <2>4
  <1>6. ASSUME NEW i \in Index, NEW j \in Index,
               slot[i], remote[i] = owner[i], slot[j], active[j], j # i
        PROVE  j \in Unlisted(i) \/ j \in shown'[owner[i]]
    <2>1. owner[i] \in Clients
      BY <1>6, OwnerFacts
    <2>2. j \in Unlisted(i) \/ j \in shown[owner[i]]
      BY <1>6 DEF ViewInv, ViewsComplete
    <2>3. CASE j # cast.idx
      BY <1>2, <2>1, <2>2, <2>3
    <2>4. CASE j = cast.idx
      <3>1. cast.rpc \in {"ServerJoin", "Spawn"}
        BY <1>3, <1>6, <2>4 DEF Broadcasts
      <3> QED
        BY <1>2, <2>1, <2>2, <3>1
    <2> QED
      BY <2>3, <2>4
  <1>7. ASSUME cast.rpc = "Spawn", NEW i \in Index,
               i <= cast.next, i # cast.idx, slot[i], remote[i] = owner[i]
        PROVE  cast.idx \in shown'[owner[i]]
    <2>1. owner[i] \in Clients /\ remote[i] # None
      BY <1>7, OwnerFacts
    <2>2. CASE i = cast.next
      BY <1>2, <1>7, <2>1, <2>2
    <2>3. CASE i # cast.next
      <3>1. i < cast.next
        BY <1>1, <1>7, <2>3 DEF Index
      <3>2. cast.idx \in shown[owner[i]]
        BY <1>7, <3>1 DEF ViewInv, SpawnReached
      <3> QED
        BY <1>2, <1>7, <2>1, <3>2
    <2> QED
      BY <2>2, <2>3
  <1> QED
    BY <1>4, <1>5, <1>6, <1>7

LEMMA SendToEntryViews ==
  ASSUME TypeOK, CoreInv, ViewInv, SendToEntry
  PROVE  ViewInv'
  <1>1. /\ cast.rpc \in Broadcasts /\ SendToConnection
        /\ UNCHANGED <<remote, slot, owner, active>>
    BY DEF SendToEntry, poolVars, playerVars
  <1>2. cast'.rpc = cast.rpc /\ cast'.idx = cast.idx /\ cast'.next = cast.next + 1
    BY DEF SendToEntry, TypeOK, Casts
  <1>3. cast.next \in Index /\ Index \subseteq Int
    BY CastType DEF Index
  <1>4. \A j \in Index : (cast'.next <= j <=> (cast.next <= j /\ cast.next # j))
                         /\ (j < cast'.next <=> j <= cast.next)
    <2>1. \A n, j \in Int :
            (n + 1 <= j <=> (n <= j /\ n # j)) /\ (j < n + 1 <=> j <= n)
      OBVIOUS
    <2> TAKE j \in Index
    <2>2. cast.next \in Int /\ j \in Int
      BY <1>3
    <2>3. /\ cast.next + 1 <= j <=> (cast.next <= j /\ cast.next # j)
          /\ j < cast.next + 1 <=> j <= cast.next
      BY <2>1, <2>2
    <2> QED
      BY <1>2, <2>3, Zenon
  <1>5. StrangersKnowNothing'
    BY <1>1, EntryViews DEF StrangersKnowNothing, Connected
  <1>6. ViewsSound'
    <2> SUFFICES ASSUME NEW i \in Index, NEW j \in Index, remote[j] # None, i # j
                 PROVE  /\ i \in known'[remote[j]] => slot[i] \/ OnItsWay({"ServerQuit"}, i, j)'
                        /\ i \in shown'[remote[j]] =>
                             \/ slot[i] /\ active[i]
                             \/ OnItsWay({"ServerQuit", "Death"}, i, j)'
                             \/ cast'.rpc = "Spawn" /\ cast'.idx = i
      BY <1>1 DEF ViewsSound
    <2>1. /\ OnItsWay({"ServerQuit"}, i, j) /\ cast.next # j => OnItsWay({"ServerQuit"}, i, j)'
          /\ OnItsWay({"ServerQuit", "Death"}, i, j) /\ cast.next # j
               => OnItsWay({"ServerQuit", "Death"}, i, j)'
      BY <1>2, <1>4 DEF OnItsWay
    <2> QED
      BY <1>1, <1>2, <2>1, EntryViews
  <1>7. ViewsComplete'
    <2>1. \A i \in Index : Unlisted(i)' = Unlisted(i)
      BY <1>1, <1>2 DEF Unlisted, Broadcasts
    <2> QED
      BY <1>1, <2>1, EntryViews DEF ViewsComplete
  <1>8. CastIsTrue'
    BY <1>1, <1>2 DEF ViewInv, CastIsTrue, Broadcasts
  <1>9. SpawnReached'
    BY <1>1, <1>2, <1>4, EntryViews DEF SpawnReached
  <1> QED
    BY <1>5, <1>6, <1>7, <1>8, <1>9 DEF ViewInv

(* The last entry: whoever the message is for has it.                       *)
LEMMA LastEntryViews ==
  ASSUME TypeOK, CoreInv, ViewInv, NEW rpcs \in SUBSET Broadcasts, Announced(rpcs)
  PROVE  /\ \A i, j \in Index : remote[j] # None /\ i # j =>
              /\ i \in known'[remote[j]] => slot[i]
              /\ i \in shown'[remote[j]] =>
                   (slot[i] /\ active[i]) \/ (cast.rpc = "Spawn" /\ cast.idx = i)
         /\ \A i \in Index : i <= cast.next
  <1>1. cast.rpc \in Broadcasts /\ SendToConnection /\ cast.next = MaxPlayers - 1
    BY DEF Announced
  <1>2. \A j \in Index : j <= cast.next /\ ~(cast.next <= j /\ cast.next # j)
    BY <1>1, IndexType DEF Index
  <1>3. \A i, j \in Index :
          /\ ~(OnItsWay({"ServerQuit"}, i, j) /\ cast.next # j)
          /\ ~(OnItsWay({"ServerQuit", "Death"}, i, j) /\ cast.next # j)
    BY <1>2 DEF OnItsWay
  <1> QED
    BY <1>1, <1>2, <1>3, EntryViews

(* A list that goes on from x: who is spawned is listed from there on.      *)
LEMMA ListViews ==
  ASSUME TypeOK, CoreInv, queue # <<>>, NEW x \in Int, ListFrom(x),
         UNCHANGED <<remote, slot, owner, active>>,
         \A c \in Clients : ~Connected(c) => known'[c] = {} /\ shown'[c] = {},
         \A i, j \in Index : remote[j] # None /\ i # j =>
            /\ i \in known'[remote[j]] => slot[i]
            /\ i \in shown'[remote[j]] => slot[i] /\ active[i],
         \A i, j \in Index :
            slot[i] /\ remote[i] = owner[i] /\ slot[j] /\ active[j] /\ j # i =>
              (i = cast.idx /\ j >= x) \/ j \in shown'[owner[i]]
  PROVE  ViewInv'
  <1>1. \/ /\ cast' = Silence
           /\ \A z \in Index : z >= x => ~Spawned(z)
        \/ /\ cast'.rpc = "List" /\ cast'.idx = cast.idx
           /\ cast'.next \in Index /\ Spawned(cast'.next)
           /\ \A z \in Index : z >= x /\ z < cast'.next => ~Spawned(z)
    BY ListType
  <1>2. cast'.rpc \in {"none", "List"}
    BY <1>1 DEF Silence
  <1>3. StrangersKnowNothing'
    BY DEF StrangersKnowNothing, Connected
  <1>4. ViewsSound'
    BY DEF ViewsSound
  <1>5. ViewsComplete'
    <2> SUFFICES ASSUME NEW i \in Index, slot[i], remote[i] = owner[i], NEW j \in Index,
                        slot[j], active[j], j # i, j \notin Unlisted(i)'
                 PROVE  j \in shown'[owner[i]]
      BY DEF ViewsComplete
    <2>1. CASE i = cast.idx /\ j >= x
      <3>1. Spawned(j)
        BY <2>1 DEF Spawned
      <3>2. /\ cast'.rpc = "List" /\ cast'.idx = i
            /\ cast'.next \in Index /\ ~(j < cast'.next)
        BY <1>1, <2>1, <3>1
      <3>3. j \in cast'.next .. MaxPlayers - 1
        BY <3>2, IndexType DEF Index
      <3> QED
        BY <3>2, <3>3 DEF Unlisted
    <2> QED
      BY <2>1
  <1>6. CastIsTrue'
    BY <1>1, <1>2 DEF CastIsTrue, Spawned, Silence
  <1>7. SpawnReached'
    BY <1>2 DEF SpawnReached
  <1> QED
    BY <1>3, <1>4, <1>5, <1>6, <1>7 DEF ViewInv

LEMMA JoinAnnouncedViews ==
  ASSUME TypeOK, CoreInv, ViewInv, JoinAnnounced
  PROVE  ViewInv'
  <1>1. /\ cast.rpc = "ServerJoin" /\ SendToConnection /\ Announced({"ServerJoin"})
        /\ ListFrom(0) /\ UNCHANGED <<remote, slot, owner, active>>
    BY DEF JoinAnnounced, Announced, poolVars, playerVars
  <1>2. queue # <<>>
    BY <1>1, HandledType DEF CoreInv, CastOfHandler, Sending
  <1>3. cast.rpc \in Broadcasts /\ {"ServerJoin"} \in SUBSET Broadcasts
    BY <1>1 DEF Broadcasts
  <1>4. \A c \in Clients : ~Connected(c) => known'[c] = {} /\ shown'[c] = {}
    BY <1>1, <1>3, EntryViews
  <1>5. \A i, j \in Index : remote[j] # None /\ i # j =>
          /\ i \in known'[remote[j]] => slot[i]
          /\ i \in shown'[remote[j]] => slot[i] /\ active[i]
    BY <1>1, <1>3, LastEntryViews
  <1>6. \A i, j \in Index :
          slot[i] /\ remote[i] = owner[i] /\ slot[j] /\ active[j] /\ j # i =>
            (i = cast.idx /\ j >= 0) \/ j \in shown'[owner[i]]
    <2>1. \A i, j \in Index :
            slot[i] /\ remote[i] = owner[i] /\ slot[j] /\ active[j] /\ j # i =>
              j \in Unlisted(i) \/ j \in shown'[owner[i]]
      BY <1>1, <1>3, EntryViews
    <2>2. \A i, j \in Index : j \in Unlisted(i) => i = cast.idx /\ j >= 0
      BY DEF Unlisted, Index
    <2> QED
      BY <2>1, <2>2
  <1> QED
    BY <1>1, <1>2, <1>4, <1>5, <1>6, ListViews

LEMMA SpawnForPlayerViews ==
  ASSUME TypeOK, CoreInv, ViewInv, SpawnForPlayer
  PROVE  ViewInv'
  <1> DEFINE n == cast.next
             x == cast.idx
  <1>1. /\ cast.rpc = "List" /\ ListFrom(n + 1)
        /\ UNCHANGED <<remote, slot, owner, active, known>>
        /\ n \in Index /\ x \in Index
    BY CastType DEF SpawnForPlayer, poolVars, playerVars
  <1>2. queue # <<>>
    BY <1>1, HandledType DEF CoreInv, CastOfHandler, Sending
  <1>3. slot[n] /\ n # x /\ active[n]
    BY <1>1 DEF ViewInv, CastIsTrue, Spawned
  <1>4. /\ \A d \in Clients : d # remote[x] => shown'[d] = shown[d]
        /\ remote[x] # None => shown'[remote[x]] = shown[remote[x]] \cup {n}
    <2>1. CASE remote[x] = None
      BY <2>1 DEF SpawnForPlayer
    <2>2. CASE remote[x] # None
      <3>1. shown' = [shown EXCEPT ![remote[x]] = @ \cup {n}]
        BY <2>2 DEF SpawnForPlayer, Tell
      <3>2. remote[x] \in Clients /\ shown \in [Clients -> SUBSET Index]
        BY <1>1, <2>2 DEF TypeOK
      <3> QED
        BY <3>1, <3>2
    <2> QED
      BY <2>1, <2>2
  <1>5. \A c \in Clients : ~Connected(c) => known'[c] = {} /\ shown'[c] = {}
    <2>1. \A c \in Clients : ~Connected(c) => c # remote[x]
      BY <1>1 DEF Connected
    <2> QED
      BY <1>1, <1>4, <2>1 DEF ViewInv, StrangersKnowNothing
  <1>6. ASSUME NEW i \in Index, NEW j \in Index, remote[j] # None, i # j
        PROVE  /\ i \in known'[remote[j]] => slot[i]
               /\ i \in shown'[remote[j]] => slot[i] /\ active[i]
    <2>1. /\ i \in known[remote[j]] => slot[i]
          /\ i \in shown[remote[j]] => slot[i] /\ active[i]
      BY <1>1, <1>6 DEF ViewInv, ViewsSound, OnItsWay
    <2>2. remote[j] \in Clients
      BY <1>6, TableFacts
    <2>3. i \in shown'[remote[j]] => i \in shown[remote[j]] \/ i = n
      BY <1>4, <1>6, <2>2
    <2> QED
      BY <1>1, <1>3, <2>1, <2>3
  <1>7. ASSUME NEW i \in Index, NEW j \in Index,
               slot[i], remote[i] = owner[i], slot[j], active[j], j # i
        PROVE  (i = x /\ j >= n + 1) \/ j \in shown'[owner[i]]
    <2>1. owner[i] \in Clients /\ owner[i] # None
      BY <1>7, OwnerFacts
    <2>2. shown[owner[i]] \subseteq shown'[owner[i]]
      BY <1>4, <2>1
    <2>3. j \in Unlisted(i) \/ j \in shown[owner[i]]
      BY <1>7 DEF ViewInv, ViewsComplete
    <2>4. CASE j \in Unlisted(i)
      <3>1. i = x /\ j \in n .. MaxPlayers - 1
        BY <1>1, <2>4 DEF Unlisted
      <3>2. j = n => j \in shown'[owner[i]]
        BY <1>4, <1>7, <2>1, <3>1
      <3>3. j # n => j >= n + 1
        BY <1>1, <3>1 DEF Index
      <3> QED
        BY <3>1, <3>2, <3>3
    <2> QED
      BY <2>2, <2>3, <2>4
  <1>8. n + 1 \in Int
    BY <1>1 DEF Index
  <1> HIDE DEF n, x
  <1> QED
    BY <1>1, <1>2, <1>5, <1>6, <1>7, <1>8, ListViews DEF x

(* Everybody was shown the player when it becomes active.                   *)
LEMMA SpawnAnnouncedViews ==
  ASSUME TypeOK, CoreInv, ViewInv, SpawnAnnounced
  PROVE  ViewInv'
  <1> DEFINE x == cast.idx
  <1>1. /\ cast.rpc = "Spawn" /\ SendToConnection /\ Announced({"Spawn"})
        /\ cast' = Silence /\ UNCHANGED <<remote, slot, owner>>
        /\ active' = [active EXCEPT ![index] = TRUE]
    BY DEF SpawnAnnounced, Announced, poolVars
  <1>2. index = x /\ slot[x] /\ x \in Index
    BY <1>1, CastType DEF CoreInv, CastOfHandler, Sending
  <1>3. active'[x] /\ \A j \in Index : j # x => active'[j] = active[j]
    BY <1>1, <1>2 DEF TypeOK
  <1>4. cast.rpc \in Broadcasts /\ {"Spawn"} \in SUBSET Broadcasts
    BY <1>1 DEF Broadcasts
  <1>5. cast'.rpc = "none"
    BY <1>1 DEF Silence
  <1>6. StrangersKnowNothing'
    BY <1>1, <1>4, EntryViews DEF StrangersKnowNothing, Connected
  <1>7. ViewsSound'
    <2>1. \A i, j \in Index : remote[j] # None /\ i # j =>
            /\ i \in known'[remote[j]] => slot[i]
            /\ i \in shown'[remote[j]] => (slot[i] /\ active[i]) \/ i = x
      BY <1>1, <1>4, LastEntryViews
    <2> QED
      BY <1>1, <1>2, <1>3, <2>1 DEF ViewsSound
  <1>8. ViewsComplete'
    <2> SUFFICES ASSUME NEW i \in Index, slot[i], remote[i] = owner[i], NEW j \in Index,
                        slot[j], active'[j], j # i
                 PROVE  j \in shown'[owner[i]]
      BY <1>1 DEF ViewsComplete
    <2>1. CASE j = x
      <3>1. i <= cast.next /\ i # cast.idx
        BY <1>1, <1>4, <2>1, LastEntryViews
      <3> QED
        BY <1>1, <1>4, <2>1, <3>1, EntryViews
    <2>2. CASE j # x
      <3>1. active[j] /\ Unlisted(i) = {}
        BY <1>1, <1>3, <2>2 DEF Unlisted
      <3> QED
        BY <1>1, <1>4, <3>1, EntryViews
    <2> QED
      BY <2>1, <2>2
  <1>9. CastIsTrue' /\ SpawnReached'
    BY <1>5 DEF CastIsTrue, SpawnReached
  <1> QED
    BY <1>6, <1>7, <1>8, <1>9 DEF ViewInv

LEMMA EndAnnouncedViews ==
  ASSUME TypeOK, CoreInv, ViewInv, EndAnnounced
  PROVE  ViewInv'
  <1>1. /\ cast.rpc \in {"Death", "ServerQuit"} /\ SendToConnection
        /\ Announced({"Death", "ServerQuit"})
        /\ cast' = Silence /\ UNCHANGED <<remote, slot, owner, active>>
    BY DEF EndAnnounced, Announced, poolVars, playerVars
  <1>2. cast.rpc \in Broadcasts /\ {"Death", "ServerQuit"} \in SUBSET Broadcasts
    BY <1>1 DEF Broadcasts
  <1>3. cast'.rpc = "none"
    BY <1>1 DEF Silence
  <1>4. StrangersKnowNothing'
    BY <1>1, <1>2, EntryViews DEF StrangersKnowNothing, Connected
  <1>5. ViewsSound'
    <2>1. \A i, j \in Index : remote[j] # None /\ i # j =>
            /\ i \in known'[remote[j]] => slot[i]
            /\ i \in shown'[remote[j]] => slot[i] /\ active[i]
      BY <1>1, <1>2, LastEntryViews
    <2> QED
      BY <1>1, <2>1 DEF ViewsSound
  <1>6. ViewsComplete'
    <2>1. \A i \in Index : Unlisted(i) = {}
      BY <1>1 DEF Unlisted
    <2> QED
      BY <1>1, <1>2, <2>1, EntryViews DEF ViewsComplete
  <1>7. CastIsTrue' /\ SpawnReached'
    BY <1>3 DEF CastIsTrue, SpawnReached
  <1> QED
    BY <1>4, <1>5, <1>6, <1>7 DEF ViewInv

LEMMA StepViews ==
  ASSUME TypeOK, CoreInv, ViewInv, [Next]_vars
  PROVE  ViewInv'
  <1>1. CASE Spawn \/ Death \/ ClientJoin
    BY <1>1, SpawnViews, DeathViews, JoinViews
  <1>2. CASE KickPlayer \/ ConnectionClosed \/ RconKick
    <2>1. ~Sending /\ UNCHANGED <<remote, known, shown>>
      BY <1>2 DEF KickPlayer, ConnectionClosed, RconKick, Gated, Handling, viewVars
    <2>2. UNCHANGED <<slot, owner, active, cast>> \/ \E v \in Index : Delete(v)
      BY <1>2 DEF KickPlayer, ConnectionClosed, RconKick, GetSlotState, Done, poolVars,
                  playerVars
    <2> QED
      BY <2>1, <2>2, DeleteViews, SilentViews
  <1>3. CASE Send
    BY <1>3, SendToEntryViews, JoinAnnouncedViews, SpawnForPlayerViews, SpawnAnnouncedViews,
       EndAnnouncedViews DEF Send
  <1>4. CASE \/ ClientJoinRefused \/ ClientJoinBadIndex \/ IgnoreMessage \/ RequestClass
             \/ Chat \/ Admin \/ PlayerSync \/ VehicleSync \/ PassengerSync
             \/ Receive \/ ProcessPlayers \/ RconDone \/ UNCHANGED vars
    <2>1. UNCHANGED <<remote, slot, owner, active, known, shown, cast>>
      BY <1>4 DEF ClientJoinRefused, ClientJoinBadIndex, IgnoreMessage, RequestClass, Chat,
                  Admin, PlayerSync, VehicleSync, PassengerSync, StoreSync, Receive,
                  ProcessPlayers, RconDone, Done, Fail, netVars, poolVars, playerVars,
                  viewVars, vars
    <2> QED
      BY <2>1, SilentViews
  <1>5. CASE \E c \in Clients : Network(c)
    <2>1. PICK c \in Clients : Network(c)
      BY <1>5
    <2>2. CASE Connect(c)
      BY <2>2, ConnectViews
    <2>3. CASE SendClientJoin(c) \/ SendGameMessage(c)
      <3>1. UNCHANGED <<remote, slot, owner, active, known, shown, cast>>
        BY <2>3 DEF SendClientJoin, SendGameMessage, poolVars, playerVars, viewVars, mainVars
      <3> QED
        BY <3>1, SilentViews
    <2>4. CASE Disconnect(c)
      BY <2>4, DisconnectViews
    <2> QED
      BY <2>1, <2>2, <2>3, <2>4 DEF Network
  <1> QED
    BY <1>1, <1>2, <1>3, <1>4, <1>5 DEF Next, MainThread, Handle

LEMMA ViewCorrect == Spec => []ViewInv
  <1>1. TypeOK /\ TableInv /\ ViewInv /\ [Next]_vars => ViewInv'
    BY StepViews DEF TableInv, CoreInv
  <1> QED
    BY <1>1, InitViews, TypeCorrect, TableCorrect, PTL DEF Spec

(* No connected client believes in another player that is gone, or dead, or *)
(* not spawned, once the loop that tells of it has come to its entry,       *)
(* whoever has taken over which entry since the broadcast began.            *)
THEOREM ViewsAreSound == Spec => []ViewsSound
  <1>1. ViewInv => ViewsSound
    BY DEF ViewInv
  <1> QED
    BY <1>1, ViewCorrect, PTL

(* A player with a connection was shown every other player that is spawned, *)
(* but for those the list of its own join has not come to.                  *)
THEOREM ViewsAreComplete == Spec => []ViewsComplete
  <1>1. ViewInv => ViewsComplete
    BY DEF ViewInv
  <1> QED
    BY <1>1, ViewCorrect, PTL

===============================================================================
