--------------------------- MODULE GameServerProofs ---------------------------
(***************************************************************************)
(* Proofs about GameServer, for every number of clients, connections,       *)
(* nicknames and classes and every bound: type correctness and TableInv,    *)
(* the inductive invariant that relates the pool, the table of connections  *)
(* and the queue between them.                                              *)
(***************************************************************************)
EXTENDS GameServer, TLAPS

-------------------------------------------------------------------------------
(* Sequences, as the queue uses them.                                       *)

LEMMA AppendLast ==
  ASSUME NEW S, NEW q \in Seq(S), NEW e \in S
  PROVE  /\ Append(q, e) \in Seq(S)
         /\ Len(Append(q, e)) = Len(q) + 1
         /\ \A k \in 1 .. Len(q) : Append(q, e)[k] = q[k]
         /\ Append(q, e)[Len(q) + 1] = e
  OBVIOUS

LEMMA TailShifts ==
  ASSUME NEW S, NEW q \in Seq(S), q # <<>>
  PROVE  /\ Tail(q) \in Seq(S)
         /\ Len(q) \in Nat \ {0}
         /\ Len(Tail(q)) = Len(q) - 1
         /\ \A k \in 1 .. Len(Tail(q)) : k + 1 \in 2 .. Len(q) /\ Tail(q)[k] = q[k + 1]
         /\ Head(q) = q[1]
         /\ Head(q) \in S
  OBVIOUS

LEMMA IndexType == MaxPlayers \in 1 .. 32 /\ Index \subseteq 0 .. 31 /\ INVALID_PLAYER_ID \notin Index
  BY ConstantsAssumption DEF Index, INVALID_PLAYER_ID

LEMMA LookupType ==
  ASSUME NEW c
  PROVE  GetIndexFromPlayerID(c) \in Index \cup {INVALID_PLAYER_ID}
  BY DEF GetIndexFromPlayerID, Connected

(* What RakPeer finds for an address is an entry that holds the address.    *)
LEMMA LookupFinds ==
  ASSUME NEW c, GetIndexFromPlayerID(c) \in Index
  PROVE  remote[GetIndexFromPlayerID(c)] = c
  BY IndexType DEF GetIndexFromPlayerID, Connected

LEMMA ViewType ==
  ASSUME NEW view \in [Clients -> SUBSET Index], NEW c, NEW i \in Index
  PROVE  /\ Tell(view, c, i) \in [Clients -> SUBSET Index]
         /\ Withdraw(view, c, i) \in [Clients -> SUBSET Index]
  BY DEF Tell, Withdraw

LEMMA CastType ==
  /\ TypeOK => /\ cast.rpc \in Broadcasts \cup {"List", "none"}
               /\ cast.idx \in Index /\ cast.next \in Index
               /\ cast.except \in Clients \cup {None}
  /\ Silence \in Casts
  <1>1. TypeOK => cast \in Casts
    BY DEF TypeOK
  <1>2. 0 \in Index
    BY ConstantsAssumption DEF Index
  <1> QED
    BY <1>1, <1>2 DEF Casts, Silence

LEMMA AnnounceType ==
  ASSUME TypeOK, NEW rpc \in Broadcasts, NEW i \in Index, Announce(rpc, i)
  PROVE  /\ cast' \in Casts
         /\ cast'.rpc = rpc /\ cast'.idx = i /\ cast'.next = 0 /\ cast'.except = remote[i]
  <1>1. 0 \in Index
    BY ConstantsAssumption DEF Index
  <1>2. cast' = [rpc |-> rpc, idx |-> i, except |-> remote[i], next |-> 0]
    BY DEF Announce, GetPlayerIDFromIndex, FirstEntry
  <1>3. remote[i] \in Clients \cup {None}
    BY DEF TypeOK
  <1> QED
    BY <1>1, <1>2, <1>3 DEF Casts

LEMMA NewType ==
  ASSUME TypeOK, NEW i \in Index, NEW c \in Clients, NEW n \in Nicks, New(i, c, n)
  PROVE  /\ slot' \in [Index -> BOOLEAN]
         /\ owner' \in [Index -> Clients \cup {None}]
         /\ name' \in [Index -> Nicks \cup {BadNick}]
         /\ score' \in [Index -> Int]
         /\ admin' \in [Index -> BOOLEAN]
         /\ active' \in [Index -> BOOLEAN]
         /\ wasted' \in [Index -> BOOLEAN]
         /\ update' \in [Index -> {"none", "onfoot", "incar"}]
         /\ info' \in [Index -> SpawnInfo]
         /\ cast' \in Casts
  <1>2. cast' \in Casts
    BY AnnounceType DEF New, Broadcasts
  <1>3. info' \in [Index -> SpawnInfo]
    BY DEF TypeOK, New, SpawnInfo
  <1> QED
    BY <1>2, <1>3 DEF TypeOK, New, AdminOfNewcomer

LEMMA DeleteType ==
  ASSUME TypeOK, NEW i \in Index, Delete(i)
  PROVE  /\ slot' \in [Index -> BOOLEAN]
         /\ owner' \in [Index -> Clients \cup {None}]
         /\ name' \in [Index -> Nicks \cup {BadNick}]
         /\ score' \in [Index -> Int]
         /\ admin' \in [Index -> BOOLEAN]
         /\ active' \in [Index -> BOOLEAN]
         /\ wasted' \in [Index -> BOOLEAN]
         /\ update' \in [Index -> {"none", "onfoot", "incar"}]
         /\ info' \in [Index -> SpawnInfo]
         /\ cast' \in Casts
  <1>1. cast' \in Casts
    BY AnnounceType DEF Delete, Broadcasts
  <1> QED
    BY <1>1 DEF TypeOK, Delete, SpawnInfo

LEMMA ArgumentsType ==
  ASSUME NEW k \in GameKinds, NEW a \in ArgumentsOf(k)
  PROVE  a \in Arguments /\ k \in PacketKinds
  <1>1. k \in GatedRPCs \cup SyncKinds
    BY ConstantsAssumption
  <1>2. 0 .. NumClasses \subseteq 0 .. 255
    BY ConstantsAssumption
  <1>3. ArgumentsOf(k) \subseteq 0 .. 255
    BY <1>1, <1>2, IndexType DEF ArgumentsOf, GatedRPCs, SyncKinds, INVALID_PLAYER_ID
  <1> QED
    BY <1>1, <1>3 DEF Arguments, PacketKinds, IndexedKinds

LEMMA PushType ==
  ASSUME TypeOK, NEW p \in Packet, Push(p)
  PROVE  queue' \in Seq(Packet) /\ queue' # <<>>
  <1>1. queue \in Seq(Packet) /\ queue' = Append(queue, p)
    BY DEF TypeOK, Push
  <1> QED
    BY <1>1, AppendLast

LEMMA ReturnType ==
  ASSUME TypeOK, queue # <<>>, Return
  PROVE  /\ queue' \in Seq(Packet)
         /\ main' = "receive"
         /\ index' = INVALID_PLAYER_ID
  <1>1. queue \in Seq(Packet) /\ queue' = Tail(queue)
    BY DEF TypeOK, Return
  <1> QED
    BY <1>1, TailShifts DEF Return

(* While a handler runs its packet is at the head of the queue.             *)
LEMMA HandlingType ==
  ASSUME TypeOK, NEW k, Handling(k)
  PROVE  /\ queue # <<>>
         /\ Head(queue) \in Packet
         /\ Sender \in Clients
         /\ Arg \in Arguments
         /\ Head(queue).idx \in Index
  <1>1. queue # <<>> /\ queue \in Seq(Packet)
    BY DEF TypeOK, Handling
  <1>2. Head(queue) \in Packet
    BY <1>1, TailShifts
  <1> QED
    BY <1>1, <1>2 DEF Packet, Sender, Arg

LEMMA InitType == Init => TypeOK
  <1> SUFFICES ASSUME Init PROVE TypeOK
    OBVIOUS
  <1>1. known \in [Clients -> SUBSET Index] /\ shown \in [Clients -> SUBSET Index]
    BY DEF Init
  <1>2. queue \in Seq(Packet)
    BY DEF Init
  <1>3. score \in [Index -> Int] /\ info \in [Index -> SpawnInfo]
    BY DEF Init, SpawnInfo
  <1> QED
    BY <1>1, <1>2, <1>3, CastType DEF Init, TypeOK

LEMMA NetworkType ==
  ASSUME TypeOK, NEW c \in Clients, Network(c)
  PROVE  TypeOK'
  <1>1. CASE Connect(c)
    <2>1. remote' \in [Index -> Clients \cup {None}]
      BY <1>1 DEF TypeOK, Connect
    <2>2. phase' \in [Clients -> {"offline", "connected", "joining", "ingame", "rejected"}]
      BY <1>1 DEF TypeOK, Connect
    <2>4. authed' \in SUBSET Clients
      BY <1>1 DEF TypeOK, Connect
    <2> QED
      BY <1>1, <2>1, <2>2, <2>4 DEF TypeOK, Connect, poolVars, playerVars, mainVars, viewVars
  <1>2. CASE SendClientJoin(c)
    <2>1. PICK i \in Index, n \in Nicks \cup {BadNick} :
            Push([kind |-> "ClientJoin", from |-> c, idx |-> i, arg |-> n])
      BY <1>2 DEF SendClientJoin
    <2>2. [kind |-> "ClientJoin", from |-> c, idx |-> i, arg |-> n] \in Packet
      BY DEF Packet, PacketKinds, Arguments
    <2>3. queue' \in Seq(Packet) /\ queue' # <<>>
      BY <2>1, <2>2, PushType
    <2>4. phase' \in [Clients -> {"offline", "connected", "joining", "ingame", "rejected"}]
      BY <1>2 DEF TypeOK, SendClientJoin
    <2> QED
      BY <1>2, <2>3, <2>4 DEF TypeOK, SendClientJoin, poolVars, playerVars, mainVars, viewVars
  <1>3. CASE SendGameMessage(c)
    <2>1. PICK i \in Index, k \in GameKinds : \E a \in ArgumentsOf(k) :
            Push([kind |-> k, from |-> c, idx |-> i, arg |-> a])
      BY <1>3 DEF SendGameMessage
    <2> PICK a \in ArgumentsOf(k) : Push([kind |-> k, from |-> c, idx |-> i, arg |-> a])
      BY <2>1
    <2>2. [kind |-> k, from |-> c, idx |-> i, arg |-> a] \in Packet
      BY ArgumentsType DEF Packet
    <2>3. queue' \in Seq(Packet) /\ queue' # <<>>
      BY <2>2, PushType
    <2> QED
      BY <1>3, <2>3 DEF TypeOK, SendGameMessage, poolVars, playerVars, mainVars, viewVars
  <1>4. CASE Disconnect(c)
    <2>1. PICK i \in Index : CloseConnection(c, i)
      BY <1>4 DEF Disconnect
    <2>2. ClosedPacket(c, i) \in Packet
      BY DEF ClosedPacket, Packet, PacketKinds, IndexedKinds, Arguments
    <2>3. queue' \in Seq(Packet) /\ queue' # <<>>
      BY <2>1, <2>2, PushType DEF CloseConnection
    <2>4. remote' \in [Index -> Clients \cup {None}]
      BY <2>1 DEF TypeOK, CloseConnection
    <2>5. phase' \in [Clients -> {"offline", "connected", "joining", "ingame", "rejected"}]
      BY <1>4 DEF TypeOK, Disconnect
    <2>6. known' \in [Clients -> SUBSET Index] /\ shown' \in [Clients -> SUBSET Index]
      BY <1>4 DEF TypeOK, Disconnect
    <2> QED
      BY <1>4, <2>3, <2>4, <2>5, <2>6 DEF TypeOK, Disconnect, poolVars, playerVars, mainVars
  <1> QED
    BY <1>1, <1>2, <1>3, <1>4 DEF Network

LEMMA ReplyType ==
  ASSUME TypeOK, NEW c \in Clients, NEW p \in {"ingame", "rejected"}, Reply(c, p)
  PROVE  phase' \in [Clients -> {"offline", "connected", "joining", "ingame", "rejected"}]
  BY DEF TypeOK, Reply

LEMMA ScoreType ==
  ASSUME TypeOK, NEW killer, NEW victim, AddResponsibleDeath(killer, victim)
  PROVE  score' \in [Index -> Int]
  <1>1. CASE GetSlotState(killer)
    <2>1. PICK t \in TeamsOf(killer), u \in TeamsOf(victim) :
            score' = [score EXCEPT ![killer] = @ + ScoreChange(t, u)]
      BY <1>1 DEF AddResponsibleDeath
    <2>2. ScoreChange(t, u) \in Int
      BY DEF ScoreChange
    <2> QED
      BY <1>1, <2>1, <2>2 DEF TypeOK, GetSlotState
  <1>2. CASE ~GetSlotState(killer)
    BY <1>2 DEF TypeOK, AddResponsibleDeath
  <1> QED
    BY <1>1, <1>2

LEMMA JoinType ==
  ASSUME TypeOK, ClientJoinRefused \/ ClientJoin \/ ClientJoinBadIndex
  PROVE  TypeOK'
  <1>0. Handling("ClientJoin")
    BY DEF ClientJoinRefused, ClientJoin, ClientJoinBadIndex
  <1>1. queue # <<>> /\ Sender \in Clients /\ Head(queue) \in Packet
    BY <1>0, HandlingType
  <1>2. CASE ClientJoinRefused
    <2>1. phase' \in [Clients -> {"offline", "connected", "joining", "ingame", "rejected"}]
      BY <1>1, <1>2, ReplyType DEF ClientJoinRefused
    <2>2. /\ queue' \in Seq(Packet) /\ main' = "receive" /\ index' = INVALID_PLAYER_ID
          /\ UNCHANGED cast
      BY <1>1, <1>2, ReturnType DEF ClientJoinRefused, Done
    <2> QED
      BY <1>2, <2>1, <2>2 DEF TypeOK, ClientJoinRefused, poolVars, playerVars, viewVars
  <1>3. CASE ClientJoin
    <2>1. PICK n \in Nicks : New(index, Sender, n)
      BY <1>3 DEF ClientJoin, NickAccepted
    <2>2. UNCHANGED <<remote, queue, phase, main, index, known, shown, authed>>
      BY <1>3 DEF ClientJoin, Stay, viewVars
    <2> QED
      BY <1>1, <1>3, <2>1, <2>2, NewType DEF TypeOK, ClientJoin
  <1>4. CASE ClientJoinBadIndex
    BY <1>4 DEF TypeOK, ClientJoinBadIndex, Fail, Faults, poolVars, playerVars, viewVars
  <1> QED
    BY <1>2, <1>3, <1>4

LEMMA MessageType ==
  ASSUME TypeOK, NEW k \in PacketKinds, Handling(k),
         \/ IgnoreMessage \/ RequestClass \/ Spawn \/ Death \/ Chat \/ Admin
         \/ KickPlayer \/ ConnectionClosed \/ PlayerSync \/ VehicleSync \/ PassengerSync
  PROVE  TypeOK'
  <1>0. queue # <<>> /\ Sender \in Clients
    BY HandlingType
  <1>1. Done => /\ queue' \in Seq(Packet) /\ main' = "receive" /\ index' = INVALID_PLAYER_ID
                /\ UNCHANGED cast
    BY <1>0, ReturnType DEF Done
  <1>s. Stay => UNCHANGED <<queue, main, index>>
    BY DEF Stay
  <1> USE DEF poolVars, playerVars, viewVars
  <1>2. CASE IgnoreMessage
    BY <1>1, <1>2 DEF TypeOK, IgnoreMessage
  <1>3. CASE RequestClass
    <2>1. info' \in [Index -> SpawnInfo]
      BY <1>3 DEF TypeOK, RequestClass, SpawnInfo
    <2> QED
      BY <1>1, <1>3, <2>1 DEF TypeOK, RequestClass
  <1>4. CASE Spawn
    <2>1. index \in Index
      BY <1>4 DEF Spawn, Gated, GetSlotState
    <2>2. CASE info[index] # NoInfo
      <3>1. cast' \in Casts
        BY <1>4, <2>1, <2>2, AnnounceType DEF Spawn, Broadcasts
      <3> QED
        BY <1>s, <1>4, <2>2, <3>1 DEF TypeOK, Spawn
    <2>3. CASE info[index] = NoInfo
      BY <1>1, <1>4, <2>3 DEF TypeOK, Spawn
    <2> QED
      BY <2>2, <2>3
  <1>5. CASE Death
    <2>1. index \in Index
      BY <1>5 DEF Death, Gated, GetSlotState
    <2>2. cast' \in Casts
      BY <1>5, <2>1, AnnounceType DEF Death, Broadcasts
    <2>3. active' \in [Index -> BOOLEAN] /\ wasted' \in [Index -> BOOLEAN]
      BY <1>5 DEF TypeOK, Death
    <2>4. score' \in [Index -> Int]
      BY <1>5, ScoreType DEF Death
    <2> QED
      BY <1>s, <1>5, <2>2, <2>3, <2>4 DEF TypeOK, Death
  <1>6. CASE Chat
    BY <1>0, <1>1, <1>6 DEF TypeOK, Chat, Fail, Faults
  <1>7. CASE Admin
    <2>1. CASE Arg = 1
      <3>1. admin' = [admin EXCEPT ![index] = TRUE] /\ authed' = authed \cup {Sender}
        BY <1>7, <2>1 DEF Admin
      <3>2. admin' \in [Index -> BOOLEAN]
        BY <3>1 DEF TypeOK
      <3>3. authed' \in SUBSET Clients
        BY <1>0, <3>1 DEF TypeOK
      <3> QED
        BY <1>1, <1>7, <3>2, <3>3 DEF TypeOK, Admin
    <2>2. CASE Arg # 1
      BY <1>1, <1>7, <2>2 DEF TypeOK, Admin
    <2> QED
      BY <2>1, <2>2
  <1>8. CASE KickPlayer
    <2>1. CASE Delete(Arg) /\ Arg \in Index /\ Stay
      BY <1>s, <1>8, <2>1, DeleteType DEF TypeOK, KickPlayer
    <2>2. CASE Done /\ UNCHANGED <<poolVars, playerVars>>
      BY <1>1, <1>8, <2>2 DEF TypeOK, KickPlayer
    <2> QED
      BY <1>8, <2>1, <2>2 DEF KickPlayer, GetSlotState
  <1>9. CASE ConnectionClosed
    <2>1. CASE Delete(index) /\ index \in Index /\ Stay
      BY <1>s, <1>9, <2>1, DeleteType DEF TypeOK, ConnectionClosed
    <2>2. CASE Done /\ UNCHANGED <<poolVars, playerVars>>
      BY <1>1, <1>9, <2>2 DEF TypeOK, ConnectionClosed
    <2> QED
      BY <1>9, <2>1, <2>2 DEF ConnectionClosed, GetSlotState
  <1>10. CASE PlayerSync \/ VehicleSync
    BY <1>1, <1>10 DEF TypeOK, PlayerSync, VehicleSync, StoreSync
  <1>11. CASE PassengerSync
    BY <1>0, <1>1, <1>11 DEF TypeOK, PassengerSync, Fail, Faults
  <1> QED
    BY <1>2, <1>3, <1>4, <1>5, <1>6, <1>7, <1>8, <1>9, <1>10, <1>11

(* One step of a loop that sends changes what one client believes.          *)
LEMMA LearnType ==
  ASSUME TypeOK, SendToConnection
  PROVE  known' \in [Clients -> SUBSET Index] /\ shown' \in [Clients -> SUBSET Index]
  <1>1. known \in [Clients -> SUBSET Index] /\ shown \in [Clients -> SUBSET Index]
    BY DEF TypeOK
  <1>2. CASE UNCHANGED viewVars
    BY <1>1, <1>2 DEF viewVars
  <1>3. CASE Learns(remote[cast.next], cast.rpc, cast.idx)
    <2>1. cast.idx \in Index
      BY CastType
    <2>2. \/ known' = Tell(known, remote[cast.next], cast.idx)
          \/ known' = Withdraw(known, remote[cast.next], cast.idx)
          \/ known' = known
      BY <1>3 DEF Learns
    <2>3. \/ shown' = Tell(shown, remote[cast.next], cast.idx)
          \/ shown' = Withdraw(shown, remote[cast.next], cast.idx)
          \/ shown' = shown
      BY <1>3 DEF Learns
    <2> QED
      BY <1>1, <2>1, <2>2, <2>3, ViewType
  <1> QED
    BY <1>2, <1>3 DEF SendToConnection

LEMMA ListType ==
  ASSUME TypeOK, queue # <<>>, NEW x, ListFrom(x)
  PROVE  /\ cast' \in Casts
         /\ \/ cast' = Silence /\ Return
            \/ /\ Stay /\ cast'.rpc = "List" /\ cast'.idx = cast.idx /\ cast'.except = None
               /\ cast'.next \in Index /\ cast'.next >= x
               /\ Spawned(cast'.next)
               /\ \A z \in Index : z >= x /\ z < cast'.next => ~Spawned(z)
         /\ cast' = Silence => \A z \in Index : z >= x => ~Spawned(z)
  <1> DEFINE rest == {y \in Index : y >= x /\ Spawned(y)}
  <1>1. CASE rest = {} /\ cast' = Silence /\ Return
    BY <1>1, CastType
  <1>2. CASE \E y \in rest :
               /\ \A z \in rest : y <= z
               /\ cast' = [cast EXCEPT !.rpc = "List", !.except = None, !.next = y]
               /\ Stay
    <2>1. PICK y \in rest :
               /\ \A z \in rest : y <= z
               /\ cast' = [cast EXCEPT !.rpc = "List", !.except = None, !.next = y]
               /\ Stay
      BY <1>2
    <2>2. y \in Index /\ y >= x /\ Spawned(y)
      OBVIOUS
    <2>3. \A z \in Index : z >= x /\ z < y => ~Spawned(z)
      BY <2>1, <2>2 DEF Index
    <2>4. cast \in Casts
      BY DEF TypeOK
    <2>5. cast'.rpc = "List" /\ cast'.idx = cast.idx /\ cast'.except = None /\ cast'.next = y
      BY <2>1, <2>4 DEF Casts
    <2>6. cast' \in Casts
      BY <2>1, <2>2, <2>4 DEF Casts
    <2>7. cast' # Silence
      BY <2>5 DEF Silence
    <2> QED
      BY <2>1, <2>2, <2>3, <2>5, <2>6, <2>7
  <1> QED
    BY <1>1, <1>2 DEF ListFrom

(* While the loop sends, the packet of the handler is in the queue, unless  *)
(* the console has the word.                                                *)
LEMMA SendType ==
  ASSUME TypeOK, CastOfHandler, Send
  PROVE  TypeOK'
  <1> USE DEF poolVars, playerVars, viewVars
  <1>1. Return /\ main = "handle" =>
          queue' \in Seq(Packet) /\ main' = "receive" /\ index' = INVALID_PLAYER_ID
    BY ReturnType DEF TypeOK
  <1>2. Stay => UNCHANGED <<queue, main, index>>
    BY DEF Stay
  <1>3. cast.rpc \in {"ServerJoin", "List", "Spawn", "Death"} => main = "handle" /\ queue # <<>>
    BY DEF CastOfHandler, Sending, TypeOK
  <1>4. CASE SendToEntry
    <2>1. known' \in [Clients -> SUBSET Index] /\ shown' \in [Clients -> SUBSET Index]
      BY <1>4, LearnType DEF SendToEntry
    <2>2. cast.next + 1 \in Index
      BY <1>4, CastType, IndexType DEF SendToEntry, Index
    <2>3. cast' \in Casts
      BY <1>4, <2>2 DEF SendToEntry, TypeOK, Casts
    <2> QED
      BY <1>2, <1>4, <2>1, <2>3 DEF TypeOK, SendToEntry
  <1>5. CASE JoinAnnounced
    <2>1. main = "handle" /\ queue # <<>>
      BY <1>3, <1>5 DEF JoinAnnounced, Announced
    <2>2. known' \in [Clients -> SUBSET Index] /\ shown' \in [Clients -> SUBSET Index]
      BY <1>5, LearnType DEF JoinAnnounced, Announced
    <2>3. Sender \in Clients
      <3>1. queue \in Seq(Packet)
        BY DEF TypeOK
      <3>2. Head(queue) \in Packet
        BY <2>1, <3>1, TailShifts
      <3> QED
        BY <3>2 DEF Sender, Packet
    <2>4. phase' \in [Clients -> {"offline", "connected", "joining", "ingame", "rejected"}]
      BY <1>5, <2>3, ReplyType DEF JoinAnnounced
    <2>5. cast' \in Casts /\ (Stay \/ Return)
      BY <1>5, <2>1, ListType DEF JoinAnnounced
    <2>6. UNCHANGED <<remote, poolVars, playerVars, authed>>
      BY <1>5 DEF JoinAnnounced
    <2> QED
      BY <1>1, <1>2, <2>1, <2>2, <2>4, <2>5, <2>6 DEF TypeOK
  <1>6. CASE SpawnForPlayer
    <2>1. main = "handle" /\ queue # <<>>
      BY <1>3, <1>6 DEF SpawnForPlayer
    <2>2. shown' \in [Clients -> SUBSET Index]
      BY <1>6, ViewType, CastType DEF SpawnForPlayer, TypeOK
    <2>3. cast' \in Casts /\ (Stay \/ Return)
      BY <1>6, <2>1, ListType DEF SpawnForPlayer
    <2>4. UNCHANGED <<remote, phase, poolVars, playerVars, known, authed>>
      BY <1>6 DEF SpawnForPlayer
    <2> QED
      BY <1>1, <1>2, <2>1, <2>2, <2>3, <2>4 DEF TypeOK
  <1>7. CASE SpawnAnnounced
    <2>1. main = "handle" /\ Return /\ cast' \in Casts
      BY <1>3, <1>7, CastType DEF SpawnAnnounced, Announced
    <2>2. known' \in [Clients -> SUBSET Index] /\ shown' \in [Clients -> SUBSET Index]
      BY <1>7, LearnType DEF SpawnAnnounced, Announced
    <2>3. active' \in [Index -> BOOLEAN] /\ wasted' \in [Index -> BOOLEAN]
      BY <1>7 DEF TypeOK, SpawnAnnounced
    <2> QED
      BY <1>1, <1>7, <2>1, <2>2, <2>3 DEF TypeOK, SpawnAnnounced
  <1>8. CASE EndAnnounced
    <2>1. cast.rpc # "none" /\ cast' \in Casts
      BY <1>8, CastType DEF EndAnnounced, Announced
    <2>2. known' \in [Clients -> SUBSET Index] /\ shown' \in [Clients -> SUBSET Index]
      BY <1>8, LearnType DEF EndAnnounced, Announced
    <2>3. Stay \/ (main = "handle" /\ Return)
      BY <1>8, <2>1 DEF EndAnnounced, CastOfHandler, Sending
    <2> QED
      BY <1>1, <1>2, <1>8, <2>1, <2>2, <2>3 DEF TypeOK, EndAnnounced
  <1> QED
    BY <1>4, <1>5, <1>6, <1>7, <1>8 DEF Send

LEMMA LoopType ==
  ASSUME TypeOK, Receive \/ ProcessPlayers \/ RconKick \/ RconDone
  PROVE  TypeOK'
  <1> USE DEF netVars, poolVars, playerVars, viewVars, mainVars
  <1>1. CASE Receive
    <2>1. queue # <<>> /\ queue \in Seq(Packet) /\ Head(queue) \in Packet
      BY <1>1, TailShifts DEF TypeOK, Receive
    <2>2. index' \in Index \cup {INVALID_PLAYER_ID}
      BY <1>1, <2>1, LookupType DEF Receive, HandlerIndex, Packet
    <2> QED
      BY <1>1, <2>1, <2>2 DEF TypeOK, Receive
  <1>2. CASE ProcessPlayers
    BY <1>2 DEF TypeOK, ProcessPlayers
  <1>3. CASE RconKick
    <2>1. PICK i \in Index : Delete(i)
      BY <1>3 DEF RconKick
    <2> QED
      BY <1>3, <2>1, DeleteType DEF TypeOK, RconKick, Stay
  <1>4. CASE RconDone
    BY <1>4 DEF TypeOK, RconDone
  <1> QED
    BY <1>1, <1>2, <1>3, <1>4

LEMMA HandleType ==
  ASSUME TypeOK, Handle
  PROVE  TypeOK'
  <1>1. CASE ClientJoinRefused \/ ClientJoin \/ ClientJoinBadIndex
    BY <1>1, JoinType
  <1>2. CASE ~(ClientJoinRefused \/ ClientJoin \/ ClientJoinBadIndex)
    <2>1. \E k \in PacketKinds : Handling(k)
      BY <1>2
         DEF Handle, IgnoreMessage, RequestClass, Spawn, Death, Chat, Admin, KickPlayer,
             ConnectionClosed, PlayerSync, VehicleSync, StoreSync, PassengerSync, Gated,
             PacketKinds, GatedRPCs, IndexedKinds, SyncKinds
    <2> QED
      BY <1>2, <2>1, MessageType DEF Handle
  <1> QED
    BY <1>1, <1>2

LEMMA StepType ==
  ASSUME TypeOK, CastOfHandler, [Next]_vars
  PROVE  TypeOK'
  <1>1. CASE UNCHANGED vars
    BY <1>1 DEF TypeOK, vars
  <1>2. CASE \E c \in Clients : Network(c)
    BY <1>2, NetworkType
  <1>3. CASE Receive \/ ProcessPlayers \/ RconKick \/ RconDone
    BY <1>3, LoopType
  <1>4. CASE Handle
    BY <1>4, HandleType
  <1>5. CASE Send
    BY <1>5, SendType
  <1> QED
    BY <1>1, <1>2, <1>3, <1>4, <1>5 DEF Next, MainThread

-------------------------------------------------------------------------------
(* TableInv.  Its parts, AdminEarned apart, depend on the table, the queue, *)
(* the phases, the slots and the loop that sends.                           *)

CoreInv ==
  /\ SlotsOwned
  /\ OneEntryPerClient
  /\ PhaseMatchesTable
  /\ ClosedIsGone
  /\ OneJoinPerConnection
  /\ NewcomersDoNotPlay
  /\ ClosedBeforeSuccessor
  /\ IndexHeld
  /\ IndexOfPacket
  /\ HandlerActsOnSender
  /\ CastOfHandler
  /\ NoGhostPlayers
  /\ UniqueNicks

LEMMA QueuedType ==
  ASSUME TypeOK
  PROVE  \A k \in 1 .. Len(queue) :
           /\ queue[k] \in Packet
           /\ queue[k].kind \in PacketKinds
           /\ queue[k].from \in Clients
           /\ queue[k].idx \in Index
  <1>1. queue \in Seq(Packet)
    BY DEF TypeOK
  <1>2. \A k \in 1 .. Len(queue) : queue[k] \in Packet
    BY <1>1
  <1> QED
    BY <1>2 DEF Packet

LEMMA HandledType ==
  ASSUME TypeOK, main = "handle" \/ queue # <<>>
  PROVE  /\ queue # <<>>
         /\ Len(queue) \in Nat \ {0}
         /\ Head(queue) = queue[1]
         /\ Head(queue) \in Packet
         /\ Sender \in Clients
         /\ Head(queue).idx \in Index
  <1>1. queue # <<>> /\ queue \in Seq(Packet)
    BY DEF TypeOK
  <1>2. Len(queue) \in Nat \ {0} /\ Head(queue) = queue[1] /\ Head(queue) \in Packet
    BY <1>1, TailShifts
  <1> QED
    BY <1>1, <1>2 DEF Packet, Sender

LEMMA InitCore == Init => CoreInv /\ AdminEarned
  <1> SUFFICES ASSUME Init PROVE CoreInv /\ AdminEarned
    OBVIOUS
  <1>1. /\ \A i \in Index : ~slot[i] /\ remote[i] = None
        /\ \A c \in Clients : phase[c] = "offline"
        /\ main = "receive"
        /\ 1 .. Len(queue) = {}
        /\ ~Sending
    BY DEF Init, Sending, Silence
  <1>2. \A c \in Clients : ~Connected(c)
    BY <1>1, ConstantsAssumption DEF Connected
  <1> QED
    BY <1>1, <1>2
       DEF CoreInv, SlotsOwned, OneEntryPerClient, PhaseMatchesTable, ClosedIsGone,
           OneJoinPerConnection, NewcomersDoNotPlay, ClosedBeforeSuccessor, IndexHeld,
           IndexOfPacket, HandlerActsOnSender, CastOfHandler, NoGhostPlayers, UniqueNicks,
           AdminEarned

(* A player whose client is not in the table has a loss queued, so a client *)
(* with nothing in the queue and no connection has no player.               *)
LEMMA SilentOwnsNothing ==
  ASSUME TypeOK, CoreInv, NEW c \in Clients, ~Connected(c),
         \A k \in 1 .. Len(queue) : queue[k].from # c
  PROVE  \A i \in Index : slot[i] => owner[i] # c
  <1> SUFFICES ASSUME NEW i \in Index, slot[i], owner[i] = c PROVE FALSE
    OBVIOUS
  <1>1. remote[i] # c
    BY DEF Connected
  <1>2. PICK k \in 1 .. Len(queue) : queue[k] = ClosedPacket(c, i)
    BY <1>1 DEF CoreInv, NoGhostPlayers
  <1> QED
    BY <1>2 DEF ClosedPacket

LEMMA ConnectCore ==
  ASSUME TypeOK, CoreInv, AdminEarned, NEW c \in Clients, Connect(c)
  PROVE  CoreInv' /\ AdminEarned'
  <1>1. ~Connected(c)
    BY DEF CoreInv, PhaseMatchesTable, Connect
  <1>2. \A k \in 1 .. Len(queue) : queue[k].from # c
    BY DEF Connect
  <1>3. \A i \in Index : slot[i] => owner[i] # c
    BY <1>1, <1>2, SilentOwnsNothing
  <1>4. PICK i \in Index : remote[i] = None /\ remote' = [remote EXCEPT ![i] = c]
    BY DEF Connect, FirstFree
  <1>5. /\ remote'[i] = c
        /\ \A j \in Index : j # i => remote'[j] = remote[j]
        /\ \A d \in Clients : d # c => (Connected(d)' <=> Connected(d))
        /\ Connected(c)'
    <2>1. remote'[i] = c /\ \A j \in Index : j # i => remote'[j] = remote[j]
      BY <1>4 DEF TypeOK
    <2>2. ASSUME NEW d \in Clients, d # c PROVE Connected(d)' <=> Connected(d)
      <3>1. \A j \in Index : remote'[j] = d <=> remote[j] = d
        BY <1>4, <2>1, <2>2, ConstantsAssumption
      <3> QED
        BY <3>1 DEF Connected
    <2> QED
      BY <2>1, <2>2 DEF Connected
  <1>6. /\ phase'[c] = "connected"
        /\ \A d \in Clients : d # c => phase'[d] = phase[d]
        /\ UNCHANGED <<queue, slot, owner, name, admin, main, index, cast>>
        /\ authed' = authed \ {c}
    BY DEF TypeOK, Connect, poolVars, mainVars
  <1>7. \A k \in 1 .. Len(queue) : queue[k].from \in Clients /\ queue[k].idx \in Index
    BY QueuedType
  <1>8. SlotsOwned' /\ UniqueNicks' /\ HandlerActsOnSender' /\ IndexOfPacket'
    BY <1>6 DEF CoreInv, SlotsOwned, UniqueNicks, HandlerActsOnSender, IndexOfPacket,
                GetSlotState, Sender
  <1>9. OneEntryPerClient'
    BY <1>1, <1>5 DEF CoreInv, OneEntryPerClient, Connected
  <1>10. PhaseMatchesTable'
    BY <1>5, <1>6 DEF CoreInv, PhaseMatchesTable
  <1>11. ClosedIsGone'
    BY <1>2, <1>5, <1>6, <1>7 DEF CoreInv, ClosedIsGone
  <1>12. OneJoinPerConnection'
    BY <1>2, <1>6, <1>7 DEF CoreInv, OneJoinPerConnection, Joining
  <1>13. NewcomersDoNotPlay'
    BY <1>3, <1>6 DEF CoreInv, NewcomersDoNotPlay, SlotsOwned
  <1>14. ClosedBeforeSuccessor'
    BY <1>2, <1>5, <1>6, <1>7 DEF CoreInv, ClosedBeforeSuccessor
  <1>15. IndexHeld'
    <2> SUFFICES ASSUME main = "handle", Head(queue).kind \notin IndexedKinds, index \in Index
                 PROVE  \/ remote'[index] = Sender
                        \/ \E k \in 2 .. Len(queue) : queue[k] = ClosedPacket(Sender, index)
      BY <1>6 DEF IndexHeld, Sender, ClosedPacket
    <2>1. Sender \in Clients
      BY HandledType
    <2> QED
      BY <1>4, <1>5, <2>1, ConstantsAssumption DEF CoreInv, IndexHeld
  <1>16. NoGhostPlayers'
    BY <1>4, <1>5, <1>6, ConstantsAssumption
       DEF CoreInv, NoGhostPlayers, SlotsOwned, ClosedPacket
  <1>17. AdminEarned'
    BY <1>3, <1>6 DEF AdminEarned
  <1>18. CastOfHandler'
    <2>1. cast.idx \in Index
      BY CastType
    <2>2. cast.except # None /\ remote[cast.idx] = cast.except => remote'[cast.idx] = cast.except
      BY <1>4, <1>5, <2>1
    <2> QED
      BY <1>6, <2>2 DEF CoreInv, CastOfHandler, Sending, Sender, ClosedPacket
  <1> QED
    BY <1>8, <1>9, <1>10, <1>11, <1>12, <1>13, <1>14, <1>15, <1>16, <1>17, <1>18 DEF CoreInv

LEMMA PushFacts ==
  ASSUME TypeOK, NEW p \in Packet, Push(p)
  PROVE  /\ Len(queue) \in Nat
         /\ Len(queue') = Len(queue) + 1
         /\ \A k \in 1 .. Len(queue) : queue'[k] = queue[k]
         /\ queue'[Len(queue) + 1] = p
         /\ \A k \in 1 .. Len(queue') :
              \/ k \in 1 .. Len(queue) /\ queue'[k] = queue[k]
              \/ k = Len(queue) + 1 /\ queue'[k] = p
         /\ main = "handle" => Head(queue') = Head(queue)
  <1>1. /\ Len(queue) \in Nat
        /\ Len(queue') = Len(queue) + 1
        /\ \A k \in 1 .. Len(queue) : queue'[k] = queue[k]
        /\ queue'[Len(queue) + 1] = p
    <2>1. queue' = Append(queue, p) /\ queue \in Seq(Packet)
      BY DEF Push, TypeOK
    <2> QED
      BY <2>1, AppendLast
  <1>2. \A k \in 1 .. Len(queue') :
          \/ k \in 1 .. Len(queue) /\ queue'[k] = queue[k]
          \/ k = Len(queue) + 1 /\ queue'[k] = p
    <2> TAKE k \in 1 .. Len(queue')
    <2>1. k \in 1 .. Len(queue) + 1
      BY <1>1
    <2>2. k \in 1 .. Len(queue) \/ k = Len(queue) + 1
      BY <1>1, <2>1
    <2> QED
      BY <1>1, <2>2
  <1>3. main = "handle" => Head(queue') = Head(queue)
    <2> HAVE main = "handle"
    <2>1. queue # <<>> /\ Head(queue) = queue[1] /\ Len(queue) >= 1
      BY HandledType
    <2>2. Head(queue') = queue'[1]
      BY DEF Push, TypeOK
    <2> QED
      BY <1>1, <2>1, <2>2
  <1> QED
    BY <1>1, <1>2, <1>3

(* Appending a packet that is not a loss, from a client in the table: a     *)
(* ClientJoin only from one that has just connected.                        *)
LEMMA SendCore ==
  ASSUME TypeOK, CoreInv, NEW c \in Clients, NEW p \in Packet, Push(p), Connected(c),
         p.from = c, p.kind # "ConnectionClosed",
         UNCHANGED <<remote, slot, owner, name, main, index, cast>>,
         \/ p.kind # "ClientJoin" /\ UNCHANGED phase
         \/ phase[c] = "connected" /\ phase' = [phase EXCEPT ![c] = "joining"]
  PROVE  CoreInv'
  <1>1. /\ Len(queue) \in Nat
        /\ Len(queue') = Len(queue) + 1
        /\ \A k \in 1 .. Len(queue) : queue'[k] = queue[k]
        /\ queue'[Len(queue) + 1] = p
    BY PushFacts
  <1>2. \A k \in 1 .. Len(queue') :
          \/ k \in 1 .. Len(queue) /\ queue'[k] = queue[k]
          \/ k = Len(queue) + 1 /\ queue'[k] = p
    BY PushFacts
  <1>3. \A k \in 1 .. Len(queue) : queue[k].from \in Clients /\ queue[k].idx \in Index
    BY QueuedType
  <1>4. \A d \in Clients : Connected(d)' <=> Connected(d)
    BY DEF Connected
  <1>5. \A d \in Clients : d # c => phase'[d] = phase[d]
    BY DEF TypeOK
  <1>6. main = "handle" => Head(queue') = Head(queue)
    BY PushFacts
  <1>7. phase[c] # "offline"
    BY DEF CoreInv, PhaseMatchesTable
  <1>8. SlotsOwned' /\ UniqueNicks' /\ OneEntryPerClient'
    BY DEF CoreInv, SlotsOwned, UniqueNicks, OneEntryPerClient
  <1>9. HandlerActsOnSender' /\ IndexOfPacket'
    BY <1>6 DEF CoreInv, HandlerActsOnSender, IndexOfPacket, GetSlotState, Sender
  <1>10. PhaseMatchesTable'
    <2>1. phase'[c] # "offline"
      BY <1>7 DEF TypeOK
    <2> QED
      BY <1>4, <1>5, <2>1 DEF CoreInv, PhaseMatchesTable
  <1>11. ClosedIsGone'
    BY <1>2, <1>3, <1>4 DEF CoreInv, ClosedIsGone
  <1>12. OneJoinPerConnection'
    <2>1. CASE p.kind # "ClientJoin" /\ UNCHANGED phase
      BY <1>2, <1>3, <2>1 DEF CoreInv, OneJoinPerConnection, Joining
    <2>2. CASE phase[c] = "connected" /\ phase' = [phase EXCEPT ![c] = "joining"]
      <3>1. \A k \in 1 .. Len(queue) : queue[k].kind = "ClientJoin" => queue[k].from # c
        <4> SUFFICES ASSUME NEW k \in 1 .. Len(queue),
                            queue[k].kind = "ClientJoin", queue[k].from = c
                     PROVE  FALSE
          OBVIOUS
        <4>1. k = 1 /\ cast.rpc = "List"
          BY <2>2 DEF CoreInv, OneJoinPerConnection
        <4>2. /\ main = "handle" /\ slot[cast.idx] /\ owner[cast.idx] = Sender
              /\ cast.idx \in Index
          BY <4>1, CastType DEF CoreInv, CastOfHandler, Sending
        <4>3. Sender = c
          BY <4>1, <4>2, HandledType DEF Sender
        <4> QED
          BY <2>2, <4>2, <4>3 DEF CoreInv, NewcomersDoNotPlay
      <3>2. \A i \in Index : slot[i] => owner[i] # c
        BY <2>2 DEF CoreInv, NewcomersDoNotPlay
      <3>3. phase'[c] = "joining"
        BY <2>2 DEF TypeOK
      <3> QED
        BY <1>2, <1>3, <1>5, <3>1, <3>2, <3>3 DEF CoreInv, OneJoinPerConnection, Joining
    <2> QED
      BY <2>1, <2>2
  <1>13. NewcomersDoNotPlay'
    BY <1>5 DEF CoreInv, NewcomersDoNotPlay, SlotsOwned, TypeOK
  <1>14. ClosedBeforeSuccessor'
    <2> SUFFICES ASSUME NEW k \in 1 .. Len(queue'), NEW l \in 1 .. Len(queue'),
                        queue'[k].kind = "ConnectionClosed",
                        remote[queue'[k].idx] = queue'[l].from
                 PROVE  k < l
      BY DEF ClosedBeforeSuccessor
    <2>1. k \in 1 .. Len(queue) /\ queue'[k] = queue[k]
      BY <1>2
    <2>2. CASE l \in 1 .. Len(queue) /\ queue'[l] = queue[l]
      BY <2>1, <2>2 DEF CoreInv, ClosedBeforeSuccessor
    <2>3. CASE l = Len(queue) + 1
      BY <1>1, <2>1, <2>3
    <2> QED
      BY <1>2, <2>2, <2>3
  <1>15. IndexHeld'
    <2> SUFFICES ASSUME main = "handle", Head(queue).kind \notin IndexedKinds, index \in Index,
                        remote[index] # Sender
                 PROVE  \E k \in 2 .. Len(queue') : queue'[k] = ClosedPacket(Sender, index)
      BY <1>6 DEF IndexHeld, Sender, ClosedPacket
    <2>1. PICK k \in 2 .. Len(queue) : queue[k] = ClosedPacket(Sender, index)
      BY DEF CoreInv, IndexHeld
    <2> QED
      BY <1>1, <2>1
  <1>16. NoGhostPlayers'
    <2> SUFFICES ASSUME NEW i \in Index, slot[i], remote[i] # owner[i]
                 PROVE  \E k \in 1 .. Len(queue') : queue'[k] = ClosedPacket(owner[i], i)
      BY DEF NoGhostPlayers, ClosedPacket
    <2>1. PICK k \in 1 .. Len(queue) : queue[k] = ClosedPacket(owner[i], i)
      BY DEF CoreInv, NoGhostPlayers
    <2> QED
      BY <1>1, <2>1
  <1>17. CastOfHandler'
    <2>1. /\ main = "handle" => Sender' = Sender /\ Head(queue') = Head(queue)
          /\ UNCHANGED <<remote, slot, owner, main, index, cast>>
      BY <1>6 DEF Sender
    <2>2. \A q \in Packet : (\E k \in 1 .. Len(queue) : queue[k] = q)
                             => \E k \in 1 .. Len(queue') : queue'[k] = q
      BY <1>1
    <2>3. cast.except # None => ClosedPacket(cast.except, cast.idx) \in Packet
      BY CastType DEF ClosedPacket, Packet, PacketKinds, IndexedKinds, Arguments
    <2> QED
      BY <2>1, <2>2, <2>3 DEF CoreInv, CastOfHandler, Sending, ClosedPacket
  <1> QED
    BY <1>8, <1>9, <1>10, <1>11, <1>12, <1>13, <1>14, <1>15, <1>16, <1>17 DEF CoreInv

LEMMA DisconnectCore ==
  ASSUME TypeOK, CoreInv, NEW c \in Clients, Disconnect(c)
  PROVE  CoreInv'
  <1>1. PICK i \in Index : remote[i] = c /\ CloseConnection(c, i)
    BY DEF Disconnect
  <1> DEFINE p == ClosedPacket(c, i)
  <1>2. p \in Packet /\ p.kind = "ConnectionClosed" /\ p.from = c /\ p.idx = i
    BY DEF ClosedPacket, Packet, PacketKinds, IndexedKinds, Arguments
  <1>3. Push(p)
    BY <1>1 DEF CloseConnection
  <1> HIDE DEF p
  <1>4. /\ Len(queue) \in Nat
        /\ Len(queue') = Len(queue) + 1
        /\ \A k \in 1 .. Len(queue) : queue'[k] = queue[k]
        /\ queue'[Len(queue) + 1] = p
        /\ \A k \in 1 .. Len(queue') :
             \/ k \in 1 .. Len(queue) /\ queue'[k] = queue[k]
             \/ k = Len(queue) + 1 /\ queue'[k] = p
        /\ main = "handle" => Head(queue') = Head(queue)
    BY <1>2, <1>3, PushFacts
  <1>5. /\ remote'[i] = None
        /\ \A j \in Index : j # i => remote'[j] = remote[j] /\ remote[j] # c
    BY <1>1, ConstantsAssumption DEF CloseConnection, TypeOK, CoreInv, OneEntryPerClient
  <1>6. ~Connected(c)' /\ \A d \in Clients : d # c => (Connected(d)' <=> Connected(d))
    <2>1. ~Connected(c)'
      BY <1>5, ConstantsAssumption DEF Connected
    <2>2. ASSUME NEW d \in Clients, d # c PROVE Connected(d)' <=> Connected(d)
      <3>1. \A j \in Index : remote'[j] = d <=> remote[j] = d
        BY <1>1, <1>5, <2>2, ConstantsAssumption
      <3> QED
        BY <3>1 DEF Connected
    <2> QED
      BY <2>1, <2>2
  <1>7. /\ UNCHANGED <<slot, owner, name, main, index, cast>>
        /\ phase'[c] = "offline"
        /\ \A d \in Clients : d # c => phase'[d] = phase[d]
    BY DEF Disconnect, poolVars, mainVars, TypeOK
  <1>8. \A k \in 1 .. Len(queue) : queue[k].from \in Clients /\ queue[k].idx \in Index
    BY QueuedType
  <1>9. SlotsOwned' /\ UniqueNicks'
    BY <1>7 DEF CoreInv, SlotsOwned, UniqueNicks
  <1>10. OneEntryPerClient'
    BY <1>5 DEF CoreInv, OneEntryPerClient
  <1>11. HandlerActsOnSender' /\ IndexOfPacket'
    BY <1>4, <1>7 DEF CoreInv, HandlerActsOnSender, IndexOfPacket, GetSlotState, Sender
  <1>12. PhaseMatchesTable'
    BY <1>6, <1>7 DEF CoreInv, PhaseMatchesTable
  <1>13. ClosedIsGone'
    BY <1>2, <1>4, <1>6, <1>8 DEF CoreInv, ClosedIsGone
  <1>14. OneJoinPerConnection'
    BY <1>2, <1>4, <1>7, <1>8 DEF CoreInv, OneJoinPerConnection, Joining
  <1>15. NewcomersDoNotPlay'
    BY <1>7 DEF CoreInv, NewcomersDoNotPlay, SlotsOwned
  <1>16. ClosedBeforeSuccessor'
    <2> SUFFICES ASSUME NEW k \in 1 .. Len(queue'), NEW l \in 1 .. Len(queue'),
                        queue'[k].kind = "ConnectionClosed",
                        remote'[queue'[k].idx] = queue'[l].from
                 PROVE  k < l
      BY DEF ClosedBeforeSuccessor
    <2>1. queue'[l].from \in Clients
      BY <1>2, <1>4, <1>8
    <2>2. queue'[k].idx # i
      BY <1>5, <2>1, ConstantsAssumption
    <2>3. k \in 1 .. Len(queue) /\ queue'[k] = queue[k]
      BY <1>2, <1>4, <2>2
    <2>4. remote[queue[k].idx] = queue'[l].from
      BY <1>5, <1>8, <2>2, <2>3
    <2>5. CASE l \in 1 .. Len(queue) /\ queue'[l] = queue[l]
      BY <2>3, <2>4, <2>5 DEF CoreInv, ClosedBeforeSuccessor
    <2>6. CASE l = Len(queue) + 1
      BY <1>4, <2>3, <2>6
    <2> QED
      BY <1>4, <2>5, <2>6
  <1>17. IndexHeld'
    <2> SUFFICES ASSUME main = "handle", Head(queue).kind \notin IndexedKinds, index \in Index,
                        remote'[index] # Sender
                 PROVE  \E k \in 2 .. Len(queue') : queue'[k] = ClosedPacket(Sender, index)
      BY <1>4, <1>7 DEF IndexHeld, Sender, ClosedPacket
    <2>1. Len(queue) >= 1
      BY HandledType
    <2>2. CASE remote[index] = Sender
      <3>1. index = i /\ Sender = c
        BY <1>1, <1>5, <2>2
      <3> QED
        BY <1>4, <2>1, <3>1 DEF p
    <2>3. CASE remote[index] # Sender
      <3>1. PICK k \in 2 .. Len(queue) : queue[k] = ClosedPacket(Sender, index)
        BY <2>3 DEF CoreInv, IndexHeld
      <3> QED
        BY <1>4, <3>1
    <2> QED
      BY <2>2, <2>3
  <1>18. NoGhostPlayers'
    <2> SUFFICES ASSUME NEW j \in Index, slot[j], remote'[j] # owner[j]
                 PROVE  \E k \in 1 .. Len(queue') : queue'[k] = ClosedPacket(owner[j], j)
      BY <1>7 DEF NoGhostPlayers, ClosedPacket
    <2>1. CASE remote[j] = owner[j]
      <3>1. j = i /\ owner[j] = c
        BY <1>1, <1>5, <2>1
      <3> QED
        BY <1>4, <3>1 DEF p
    <2>2. CASE remote[j] # owner[j]
      <3>1. PICK k \in 1 .. Len(queue) : queue[k] = ClosedPacket(owner[j], j)
        BY <2>2 DEF CoreInv, NoGhostPlayers
      <3> QED
        BY <1>4, <3>1
    <2> QED
      BY <2>1, <2>2
  <1>19. CastOfHandler'
    <2>1. /\ main = "handle" => Sender' = Sender /\ Head(queue') = Head(queue)
          /\ UNCHANGED <<slot, owner, main, index, cast>>
      BY <1>4, <1>7 DEF Sender
    <2>2. cast.idx \in Index /\ cast.except \in Clients \cup {None}
      BY CastType
    <2>3. ASSUME Sending, cast.except # None
          PROVE  \/ remote'[cast.idx] = cast.except
                 \/ \E k \in 1 .. Len(queue') : queue'[k] = ClosedPacket(cast.except, cast.idx)
      <3>1. CASE remote[cast.idx] = cast.except
        <4>1. CASE cast.idx = i
          BY <1>1, <1>4, <3>1, <4>1 DEF p
        <4>2. CASE cast.idx # i
          BY <1>5, <2>2, <3>1, <4>2
        <4> QED
          BY <4>1, <4>2
      <3>2. CASE \E k \in 1 .. Len(queue) : queue[k] = ClosedPacket(cast.except, cast.idx)
        BY <1>4, <3>2
      <3> QED
        BY <2>3, <3>1, <3>2 DEF CoreInv, CastOfHandler
    <2> QED
      BY <2>1, <2>3 DEF CoreInv, CastOfHandler, Sending, ClosedPacket
  <1> QED
    BY <1>9, <1>10, <1>11, <1>12, <1>13, <1>14, <1>15, <1>16, <1>17, <1>18, <1>19 DEF CoreInv

(* Taking a packet: what it looks up is still true, and the sender owns the *)
(* player at the index, since the loss of a former owner would have come    *)
(* first.                                                                   *)
LEMMA ReceiveCore ==
  ASSUME TypeOK, CoreInv, Receive
  PROVE  CoreInv'
  <1>1. /\ UNCHANGED <<remote, queue, phase, slot, owner, name, cast>>
        /\ queue # <<>> /\ main = "receive"
        /\ index' = HandlerIndex(Head(queue))
    BY DEF Receive, netVars, poolVars
  <1>2. /\ Head(queue) = queue[1] /\ 1 \in 1 .. Len(queue)
        /\ Len(queue) \in Nat
        /\ Sender \in Clients
    BY <1>1, HandledType
  <1>3. /\ SlotsOwned' /\ OneEntryPerClient' /\ PhaseMatchesTable' /\ ClosedIsGone'
        /\ OneJoinPerConnection' /\ NewcomersDoNotPlay' /\ ClosedBeforeSuccessor'
        /\ NoGhostPlayers' /\ UniqueNicks'
    BY <1>1 DEF CoreInv, SlotsOwned, OneEntryPerClient, PhaseMatchesTable, ClosedIsGone,
                OneJoinPerConnection, NewcomersDoNotPlay, ClosedBeforeSuccessor,
                NoGhostPlayers, UniqueNicks, Connected, ClosedPacket, Joining
  <1>4. IndexOfPacket'
    BY <1>1 DEF IndexOfPacket, HandlerIndex
  <1>5. Head(queue).kind \notin IndexedKinds /\ index' \in Index => remote[index'] = Sender
    BY <1>1, LookupFinds DEF HandlerIndex, Sender
  <1>6. IndexHeld'
    BY <1>1, <1>5 DEF IndexHeld, Sender
  <1>7. HandlerActsOnSender'
    <2> SUFFICES ASSUME Head(queue).kind \notin IndexedKinds, index' \in Index, slot[index'],
                        owner[index'] # Sender
                 PROVE  FALSE
      BY <1>1 DEF HandlerActsOnSender, GetSlotState, Sender
    <2>1. remote[index'] = Sender
      BY <1>5
    <2>2. PICK k \in 1 .. Len(queue) : queue[k] = ClosedPacket(owner[index'], index')
      BY <2>1 DEF CoreInv, NoGhostPlayers
    <2>3. queue[k].kind = "ConnectionClosed" /\ queue[k].idx = index'
      BY <2>2 DEF ClosedPacket
    <2>4. k < 1
      BY <1>2, <2>1, <2>3 DEF CoreInv, ClosedBeforeSuccessor, Sender
    <2> QED
      BY <2>4
  <1>8. CastOfHandler'
    BY <1>1 DEF CoreInv, CastOfHandler, Sending
  <1> QED
    BY <1>3, <1>4, <1>6, <1>7, <1>8 DEF CoreInv

(* Steps that leave the queue alone, those of the loop that sends among      *)
(* them: slots may only be emptied.                                         *)
LEMMA QuietCore ==
  ASSUME TypeOK, CoreInv, UNCHANGED <<remote, queue>>,
         main' = "handle" => main = "handle" /\ index' = index,
         \A i \in Index : slot'[i] => /\ slot[i] /\ owner'[i] = owner[i] /\ name'[i] = name[i]
                                      /\ Joining(i) => Joining(i)',
         cast.rpc = "List" => cast'.rpc = "List",
         \A c \in Clients : phase'[c] # phase[c] =>
            /\ main = "handle" /\ Head(queue).kind = "ClientJoin" /\ c = Sender
            /\ phase[c] = "joining" /\ phase'[c] = "ingame" /\ cast'.rpc = "List",
         CastOfHandler'
  PROVE  CoreInv'
  <1>1. SlotsOwned' /\ UniqueNicks' /\ NewcomersDoNotPlay'
    BY DEF CoreInv, SlotsOwned, UniqueNicks, NewcomersDoNotPlay
  <1>2. OneEntryPerClient' /\ ClosedIsGone' /\ ClosedBeforeSuccessor'
    BY DEF CoreInv, OneEntryPerClient, ClosedIsGone, ClosedBeforeSuccessor, Connected
  <1>3. PhaseMatchesTable'
    <2>1. \A c \in Clients : phase'[c] = "offline" <=> phase[c] = "offline"
      OBVIOUS
    <2> QED
      BY <2>1 DEF CoreInv, PhaseMatchesTable, Connected
  <1>4. OneJoinPerConnection'
    <2> SUFFICES ASSUME NEW k \in 1 .. Len(queue), queue[k].kind = "ClientJoin"
                 PROVE  /\ \/ phase'[queue[k].from] \in {"joining", "offline"}
                           \/ k = 1 /\ cast'.rpc = "List"
                        /\ \A i \in Index : slot'[i] /\ owner'[i] = queue[k].from =>
                             k = 1 /\ Joining(i)'
                        /\ \A l \in 1 .. Len(queue) :
                             queue[l].kind = "ClientJoin" /\ queue[l].from = queue[k].from
                               => l = k
      BY DEF OneJoinPerConnection
    <2>1. /\ phase[queue[k].from] \in {"joining", "offline"} \/ (k = 1 /\ cast.rpc = "List")
          /\ \A i \in Index : slot[i] /\ owner[i] = queue[k].from => k = 1 /\ Joining(i)
          /\ \A l \in 1 .. Len(queue) :
               queue[l].kind = "ClientJoin" /\ queue[l].from = queue[k].from => l = k
      BY DEF CoreInv, OneJoinPerConnection
    <2>2. queue[k].from \in Clients
      BY QueuedType
    <2>3. CASE phase'[queue[k].from] = phase[queue[k].from]
      BY <2>1, <2>3
    <2>4. CASE phase'[queue[k].from] # phase[queue[k].from]
      <3>1. /\ main = "handle" /\ Head(queue).kind = "ClientJoin"
            /\ queue[k].from = Sender /\ cast'.rpc = "List"
        BY <2>2, <2>4
      <3>2. 1 \in 1 .. Len(queue) /\ Head(queue) = queue[1]
        BY <3>1, HandledType
      <3>3. k = 1
        BY <2>1, <3>1, <3>2 DEF Sender
      <3> QED
        BY <2>1, <3>1, <3>3
    <2> QED
      BY <2>3, <2>4
  <1>5. NoGhostPlayers'
    BY DEF CoreInv, NoGhostPlayers, ClosedPacket
  <1>6. IndexHeld' /\ IndexOfPacket' /\ HandlerActsOnSender'
    BY DEF CoreInv, IndexHeld, IndexOfPacket, HandlerActsOnSender, GetSlotState, Sender,
           ClosedPacket
  <1> QED
    BY <1>1, <1>2, <1>3, <1>4, <1>5, <1>6 DEF CoreInv

(* The queue without the packet that was handled.                           *)
LEMMA ReturnFacts ==
  ASSUME TypeOK, main = "handle", Return
  PROVE  /\ Len(queue) \in Nat \ {0}
         /\ Len(queue') = Len(queue) - 1
         /\ \A k \in 1 .. Len(queue') : k + 1 \in 2 .. Len(queue) /\ queue'[k] = queue[k + 1]
         /\ \A k \in 2 .. Len(queue) : k - 1 \in 1 .. Len(queue') /\ queue'[k - 1] = queue[k]
         /\ Head(queue) = queue[1]
         /\ main' = "receive"
  <1>1. queue \in Seq(Packet) /\ queue # <<>> /\ queue' = Tail(queue) /\ main' = "receive"
    BY DEF TypeOK, Return
  <1>2. /\ Len(queue) \in Nat \ {0}
        /\ Len(queue') = Len(queue) - 1
        /\ \A k \in 1 .. Len(queue') : k + 1 \in 2 .. Len(queue) /\ queue'[k] = queue[k + 1]
        /\ Head(queue) = queue[1]
    BY <1>1, TailShifts
  <1>3. ASSUME NEW k \in 2 .. Len(queue)
        PROVE  k - 1 \in 1 .. Len(queue') /\ queue'[k - 1] = queue[k]
    <2>1. k - 1 \in 1 .. Len(queue')
      BY <1>2
    <2>2. queue'[k - 1] = queue[(k - 1) + 1]
      BY <1>2, <2>1
    <2>3. (k - 1) + 1 = k
      OBVIOUS
    <2> QED
      BY <2>1, <2>2, <2>3
  <1> QED
    BY <1>1, <1>2, <1>3

(* What every handler keeps: the table, and the losses in the queue.        *)
LEMMA TakenQueue ==
  ASSUME TypeOK, CoreInv, main = "handle", Return, UNCHANGED remote,
         \A c \in Clients : phase'[c] = "offline" <=> phase[c] = "offline"
  PROVE  /\ OneEntryPerClient' /\ PhaseMatchesTable' /\ ClosedIsGone'
         /\ ClosedBeforeSuccessor' /\ IndexHeld' /\ IndexOfPacket' /\ HandlerActsOnSender'
  <1>1. OneEntryPerClient'
    BY DEF CoreInv, OneEntryPerClient
  <1>2. PhaseMatchesTable'
    BY DEF CoreInv, PhaseMatchesTable, Connected
  <1>3. ClosedIsGone'
    <2>1. ASSUME NEW k \in 1 .. Len(queue'), queue'[k].kind = "ConnectionClosed"
          PROVE  \A i \in Index : remote'[i] # queue'[k].from
      <3>1. k + 1 \in 1 .. Len(queue) /\ queue'[k] = queue[k + 1]
        BY ReturnFacts
      <3> QED
        BY <2>1, <3>1 DEF CoreInv, ClosedIsGone, Connected
    <2> QED
      BY <2>1 DEF ClosedIsGone, Connected
  <1>4. ClosedBeforeSuccessor'
    <2> SUFFICES ASSUME NEW k \in 1 .. Len(queue'), NEW l \in 1 .. Len(queue'),
                        queue'[k].kind = "ConnectionClosed",
                        remote[queue'[k].idx] = queue'[l].from
                 PROVE  k < l
      BY DEF ClosedBeforeSuccessor
    <2>1. /\ k + 1 \in 1 .. Len(queue) /\ queue'[k] = queue[k + 1]
          /\ l + 1 \in 1 .. Len(queue) /\ queue'[l] = queue[l + 1]
      BY ReturnFacts
    <2>2. k + 1 < l + 1
      BY <2>1 DEF CoreInv, ClosedBeforeSuccessor
    <2> QED
      BY <2>2
  <1>5. IndexHeld' /\ IndexOfPacket' /\ HandlerActsOnSender'
    BY ReturnFacts DEF IndexHeld, IndexOfPacket, HandlerActsOnSender
  <1> QED
    BY <1>1, <1>2, <1>3, <1>4, <1>5

(* A handler that empties slots at most: the one the packet is about, if    *)
(* the packet is the loss of its connection.                                *)
LEMMA TakenCore ==
  ASSUME TypeOK, CoreInv, main = "handle", Return, ~Sending', UNCHANGED remote,
         \A c \in Clients : phase'[c] # phase[c] =>
            /\ Head(queue).kind = "ClientJoin" /\ c = Sender
            /\ phase[c] = "joining" /\ phase'[c] \in {"ingame", "rejected"},
         \A i \in Index : slot'[i] =>
            /\ slot[i] /\ owner'[i] = owner[i] /\ name'[i] = name[i]
            /\ Head(queue) # ClosedPacket(owner[i], i)
  PROVE  CoreInv'
  <1>1. \A c \in Clients : phase'[c] = "offline" <=> phase[c] = "offline"
    OBVIOUS
  <1>2. /\ OneEntryPerClient' /\ PhaseMatchesTable' /\ ClosedIsGone'
        /\ ClosedBeforeSuccessor' /\ IndexHeld' /\ IndexOfPacket' /\ HandlerActsOnSender'
    BY <1>1, TakenQueue
  <1>3. SlotsOwned' /\ UniqueNicks'
    BY DEF CoreInv, SlotsOwned, UniqueNicks
  <1>4. NewcomersDoNotPlay'
    BY DEF CoreInv, NewcomersDoNotPlay, SlotsOwned
  <1>5. OneJoinPerConnection'
    <2>1. \A k \in 1 .. Len(queue') :
            k + 1 \in 1 .. Len(queue) /\ k + 1 # 1 /\ queue'[k] = queue[k + 1]
      BY ReturnFacts
    <2>2. 1 \in 1 .. Len(queue) /\ Head(queue) = queue[1]
      BY ReturnFacts
    <2> SUFFICES ASSUME NEW k \in 1 .. Len(queue'), queue'[k].kind = "ClientJoin"
                 PROVE  /\ phase'[queue'[k].from] \in {"joining", "offline"}
                        /\ \A i \in Index : slot'[i] => owner'[i] # queue'[k].from
                        /\ \A l \in 1 .. Len(queue') :
                             /\ queue'[l].kind = "ClientJoin"
                             /\ queue'[l].from = queue'[k].from
                             => l = k
      BY DEF OneJoinPerConnection
    <2>3. /\ k + 1 \in 1 .. Len(queue) /\ queue'[k] = queue[k + 1]
          /\ queue[k + 1].kind = "ClientJoin"
          /\ queue[k + 1].from \in Clients
      BY <2>1, QueuedType
    <2>4. /\ phase[queue[k + 1].from] \in {"joining", "offline"}
          /\ \A i \in Index : slot[i] => owner[i] # queue[k + 1].from
          /\ ~(Head(queue).kind = "ClientJoin" /\ queue[k + 1].from = Sender)
      <3>1. OneJoinPerConnection
        BY DEF CoreInv
      <3>2. k + 1 # 1
        BY <2>1
      <3> QED
        BY <2>2, <2>3, <3>1, <3>2 DEF OneJoinPerConnection, Sender
    <2>5. phase'[queue'[k].from] \in {"joining", "offline"}
      BY <2>3, <2>4
    <2>6. \A i \in Index : slot'[i] => owner'[i] # queue'[k].from
      BY <2>3, <2>4
    <2>7. ASSUME NEW l \in 1 .. Len(queue'),
                 queue'[l].kind = "ClientJoin", queue'[l].from = queue'[k].from
          PROVE  l = k
      <3>1. /\ k + 1 \in 1 .. Len(queue) /\ l + 1 \in 1 .. Len(queue)
            /\ queue[k + 1].kind = "ClientJoin" /\ queue[l + 1].kind = "ClientJoin"
            /\ queue[l + 1].from = queue[k + 1].from
        BY <2>1, <2>7
      <3>2. OneJoinPerConnection
        BY DEF CoreInv
      <3>3. l + 1 = k + 1
        BY <3>1, <3>2 DEF OneJoinPerConnection
      <3> QED
        BY <3>3
    <2> QED
      BY <2>5, <2>6, <2>7
  <1>6. NoGhostPlayers'
    <2> SUFFICES ASSUME NEW i \in Index, slot'[i], remote'[i] # owner'[i]
                 PROVE  \E k \in 1 .. Len(queue') : queue'[k] = ClosedPacket(owner'[i], i)
      BY DEF NoGhostPlayers, ClosedPacket
    <2>1. /\ slot[i] /\ remote[i] # owner[i] /\ owner'[i] = owner[i]
          /\ Head(queue) # ClosedPacket(owner[i], i)
      OBVIOUS
    <2>2. PICK k \in 1 .. Len(queue) : queue[k] = ClosedPacket(owner[i], i)
      BY <2>1 DEF CoreInv, NoGhostPlayers
    <2>3. Head(queue) = queue[1] /\ Len(queue) \in Nat
      BY ReturnFacts
    <2>4. k # 1
      BY <2>1, <2>2, <2>3
    <2>5. k \in 2 .. Len(queue)
      BY <2>3, <2>4
    <2> QED
      BY <2>1, <2>2, <2>5, ReturnFacts
  <1> QED
    BY <1>2, <1>3, <1>4, <1>5, <1>6 DEF CoreInv, CastOfHandler

(* The slot a ClientJoin is about to fill is free: its player would belong  *)
(* to the sender, who does not play while it asks.                          *)
LEMMA JoinSlotFree ==
  ASSUME TypeOK, CoreInv
  PROVE  NoOverwrite
  <1> SUFFICES ASSUME main = "handle", Head(queue).kind = "ClientJoin", GetSlotState(index),
                      cast.rpc = "none"
               PROVE  FALSE
    BY DEF NoOverwrite, Handling, Sending
  <1>1. 1 \in 1 .. Len(queue) /\ Head(queue) = queue[1]
    BY HandledType
  <1>2. owner[index] = Sender
    BY DEF CoreInv, HandlerActsOnSender, IndexedKinds, SyncKinds
  <1> QED
    BY <1>1, <1>2 DEF CoreInv, OneJoinPerConnection, GetSlotState, Sender, Joining

(* What a broadcast is about to send belongs to the handler that runs.      *)
LEMMA AnnounceCast ==
  ASSUME TypeOK, NEW rpc \in Broadcasts, NEW i \in Index, Announce(rpc, i), UNCHANGED remote,
         main' \in {"handle", "rcon"},
         rpc # "ServerQuit" =>
            /\ main' = "handle" /\ index' = i /\ slot'[i] /\ owner'[i] = Sender'
            /\ Head(queue').kind = (IF rpc = "ServerJoin" THEN "ClientJoin" ELSE rpc),
         rpc = "ServerQuit" =>
            /\ ~slot'[i]
            /\ main' = "handle" =>
                 \/ Head(queue').kind = "KickPlayer"
                 \/ Head(queue').kind = "ConnectionClosed" /\ Head(queue').idx = i
  PROVE  CastOfHandler' /\ cast'.rpc = rpc /\ cast'.idx = i
  <1>1. cast'.rpc = rpc /\ cast'.idx = i /\ cast'.except = remote'[i]
    BY AnnounceType
  <1>2. rpc \in {"ServerJoin", "ServerQuit", "Spawn", "Death"}
    BY DEF Broadcasts
  <1> QED
    BY <1>1, <1>2 DEF CastOfHandler, Sending

LEMMA JoinCore ==
  ASSUME TypeOK, CoreInv, AdminEarned, ClientJoin
  PROVE  CoreInv' /\ AdminEarned'
  <1>1. /\ main = "handle" /\ Head(queue).kind = "ClientJoin" /\ index \in Index
        /\ cast.rpc = "none"
        /\ UNCHANGED <<remote, queue, phase, main, index, authed>>
        /\ Arg \in Nicks /\ ~IsNickInUse(Arg)
    BY DEF ClientJoin, Handling, NickAccepted, Stay, Sending
  <1>2. Sender \in Clients /\ Head(queue) = queue[1] /\ 1 \in 1 .. Len(queue)
    BY <1>1, HandledType
  <1>3. ~slot[index]
    BY <1>1, JoinSlotFree DEF NoOverwrite, Handling, GetSlotState, Sending
  <1>4. /\ slot'[index] /\ owner'[index] = Sender /\ name'[index] = Arg /\ ~admin'[index]
        /\ \A i \in Index : i # index =>
             /\ slot'[i] = slot[i] /\ owner'[i] = owner[i]
             /\ name'[i] = name[i] /\ admin'[i] = admin[i]
    BY <1>1 DEF ClientJoin, New, AdminOfNewcomer, TypeOK
  <1>5. CastOfHandler' /\ cast'.rpc = "ServerJoin" /\ cast'.idx = index
    <2>1. Announce("ServerJoin", index)
      BY DEF ClientJoin, New
    <2>2. Head(queue').kind = "ClientJoin" /\ Sender' = Sender
      BY <1>1 DEF Sender
    <2> QED
      BY <1>1, <1>4, <2>1, <2>2, AnnounceCast DEF Broadcasts
  <1>6. \A k \in 1 .. Len(queue) : queue[k].from \in Clients
    BY QueuedType
  <1>7. phase[Sender] \in {"joining", "offline"}
    BY <1>1, <1>2 DEF CoreInv, OneJoinPerConnection, Sender
  <1>8. OneEntryPerClient' /\ PhaseMatchesTable' /\ ClosedIsGone' /\ ClosedBeforeSuccessor'
    BY <1>1 DEF CoreInv, OneEntryPerClient, PhaseMatchesTable, ClosedIsGone,
                ClosedBeforeSuccessor, Connected
  <1>9. IndexHeld' /\ IndexOfPacket'
    BY <1>1 DEF CoreInv, IndexHeld, IndexOfPacket, Sender, ClosedPacket
  <1>10. SlotsOwned' /\ HandlerActsOnSender'
    BY <1>1, <1>2, <1>4 DEF CoreInv, SlotsOwned, HandlerActsOnSender, Sender
  <1>11. UniqueNicks'
    BY <1>1, <1>3, <1>4 DEF CoreInv, UniqueNicks, IsNickInUse
  <1>12. NewcomersDoNotPlay'
    BY <1>1, <1>4, <1>7 DEF CoreInv, NewcomersDoNotPlay, SlotsOwned
  <1>13. OneJoinPerConnection'
    <2> SUFFICES ASSUME NEW k \in 1 .. Len(queue), queue[k].kind = "ClientJoin"
                 PROVE  /\ phase[queue[k].from] \in {"joining", "offline"}
                        /\ \A i \in Index : slot'[i] /\ owner'[i] = queue[k].from =>
                             k = 1 /\ Joining(i)'
                        /\ \A l \in 1 .. Len(queue) :
                             queue[l].kind = "ClientJoin" /\ queue[l].from = queue[k].from
                               => l = k
      BY <1>1 DEF OneJoinPerConnection
    <2>1. /\ phase[queue[k].from] \in {"joining", "offline"}
          /\ \A i \in Index : slot[i] => owner[i] # queue[k].from
          /\ \A l \in 1 .. Len(queue) :
               queue[l].kind = "ClientJoin" /\ queue[l].from = queue[k].from => l = k
      BY <1>1 DEF CoreInv, OneJoinPerConnection, Joining
    <2>2. queue[k].from = Sender => k = 1
      BY <1>1, <1>2, <2>1 DEF Sender
    <2>3. \A i \in Index : i = index => Joining(i)'
      BY <1>5 DEF Joining
    <2> QED
      BY <1>4, <2>1, <2>2, <2>3
  <1>14. NoGhostPlayers'
    <2> SUFFICES ASSUME NEW i \in Index, slot'[i], remote[i] # owner'[i]
                 PROVE  \E k \in 1 .. Len(queue) : queue[k] = ClosedPacket(owner'[i], i)
      BY <1>1 DEF NoGhostPlayers, ClosedPacket
    <2>1. CASE i = index
      <3>1. \E k \in 2 .. Len(queue) : queue[k] = ClosedPacket(Sender, index)
        BY <1>1, <1>4, <2>1 DEF CoreInv, IndexHeld, IndexedKinds, SyncKinds
      <3>2. Len(queue) \in Nat
        BY <1>1, HandledType
      <3> QED
        BY <1>4, <2>1, <3>1, <3>2
    <2>2. CASE i # index
      BY <1>4, <2>2 DEF CoreInv, NoGhostPlayers
    <2> QED
      BY <2>1, <2>2
  <1>15. AdminEarned'
    BY <1>1, <1>4 DEF AdminEarned
  <1> QED
    BY <1>5, <1>8, <1>9, <1>10, <1>11, <1>12, <1>13, <1>14, <1>15 DEF CoreInv

(* CPlayerPool::Delete empties one slot and keeps the rest of the pool.     *)
LEMMA DeleteEmpties ==
  ASSUME TypeOK, NEW i \in Index, Delete(i)
  PROVE  /\ ~slot'[i]
         /\ \A j \in Index : j # i => slot'[j] = slot[j] /\ owner'[j] = owner[j]
         /\ name' = name /\ admin' = admin
         /\ Announce("ServerQuit", i)
  BY DEF Delete, TypeOK

(* A player is taken from the pool, by a packet or by the console, and the  *)
(* clients are to be told.                                                  *)
LEMMA DeleteCore ==
  ASSUME TypeOK, CoreInv, AdminEarned, ~Sending, main \in {"handle", "rcon"},
         NEW i \in Index, Delete(i), Stay, UNCHANGED <<remote, phase, authed>>,
         main = "handle" => \/ Head(queue).kind = "KickPlayer"
                            \/ Head(queue).kind = "ConnectionClosed" /\ Head(queue).idx = i
  PROVE  CoreInv' /\ AdminEarned'
  <1>1. /\ ~slot'[i]
        /\ \A j \in Index : slot'[j] => slot[j] /\ owner'[j] = owner[j] /\ name'[j] = name[j]
        /\ admin' = admin /\ Announce("ServerQuit", i)
    BY DeleteEmpties
  <1>2. UNCHANGED <<queue, main, index>>
    BY DEF Stay
  <1>3. CastOfHandler'
    BY <1>1, <1>2, AnnounceCast DEF Broadcasts
  <1>4. cast.rpc = "none"
    BY DEF Sending
  <1>5. CoreInv'
    BY <1>1, <1>2, <1>3, <1>4, QuietCore DEF Joining
  <1> QED
    BY <1>1, <1>5 DEF AdminEarned

(* Messages that leave the slots as they are, when their handler is done.   *)
LEMMA PlayCore ==
  ASSUME TypeOK, CoreInv, AdminEarned, NEW k \in GatedRPCs \cup SyncKinds, Handling(k), Done,
         UNCHANGED <<remote, phase, slot, owner, name>>,
         \/ UNCHANGED <<admin, authed>>
         \/ /\ k = "Admin" /\ GetSlotState(index)
            /\ admin' = [admin EXCEPT ![index] = TRUE] /\ authed' = authed \cup {Sender}
  PROVE  CoreInv' /\ AdminEarned'
  <1>1. main = "handle" /\ Head(queue).kind = k /\ Return /\ ~Sending'
    BY DEF Handling, Done, Sending
  <1>2. CoreInv'
    <2>1. \A i \in Index : Head(queue) # ClosedPacket(owner[i], i)
      BY <1>1 DEF ClosedPacket, GatedRPCs, SyncKinds
    <2> QED
      BY <1>1, <2>1, TakenCore
  <1>3. AdminEarned'
    <2>1. CASE UNCHANGED <<admin, authed>>
      BY <2>1 DEF AdminEarned
    <2>2. CASE /\ k = "Admin" /\ GetSlotState(index)
               /\ admin' = [admin EXCEPT ![index] = TRUE] /\ authed' = authed \cup {Sender}
      <3>1. owner[index] = Sender
        BY <1>1, <2>2 DEF CoreInv, HandlerActsOnSender, IndexedKinds, SyncKinds
      <3>2. \A i \in Index : i # index => admin'[i] = admin[i]
        BY <2>2 DEF TypeOK
      <3> QED
        BY <2>2, <3>1, <3>2 DEF AdminEarned
    <2> QED
      BY <2>1, <2>2
  <1> QED
    BY <1>2, <1>3

(* A spawn or a death is about to be told.                                  *)
LEMMA LifeCore ==
  ASSUME TypeOK, CoreInv, AdminEarned, NEW rpc \in {"Spawn", "Death"}, Gated(rpc),
         Announce(rpc, index), Stay, UNCHANGED <<remote, phase, slot, owner, name, admin, authed>>
  PROVE  CoreInv' /\ AdminEarned'
  <1>1. /\ main = "handle" /\ cast.rpc = "none" /\ Head(queue).kind = rpc
        /\ index \in Index /\ slot[index]
        /\ UNCHANGED <<queue, main, index>>
    BY DEF Gated, Handling, Sending, GetSlotState, Stay
  <1>2. owner[index] = Sender
    BY <1>1 DEF CoreInv, HandlerActsOnSender, GetSlotState, IndexedKinds, SyncKinds
  <1>3. CastOfHandler'
    BY <1>1, <1>2, AnnounceCast DEF Broadcasts, Sender
  <1>4. CoreInv'
    BY <1>1, <1>3, QuietCore DEF Joining
  <1> QED
    BY <1>4 DEF AdminEarned

LEMMA NetworkCore ==
  ASSUME TypeOK, CoreInv, AdminEarned, NEW c \in Clients, Network(c)
  PROVE  CoreInv' /\ AdminEarned'
  <1>1. CASE Connect(c)
    BY <1>1, ConnectCore
  <1>2. CASE SendClientJoin(c)
    <2>1. PICK i \in Index, n \in Nicks \cup {BadNick} :
            /\ remote[i] = c
            /\ Push([kind |-> "ClientJoin", from |-> c, idx |-> i, arg |-> n])
      BY <1>2 DEF SendClientJoin
    <2> DEFINE p == [kind |-> "ClientJoin", from |-> c, idx |-> i, arg |-> n]
    <2>2. /\ p \in Packet /\ p.from = c
          /\ p.kind # "ConnectionClosed" /\ Push(p) /\ Connected(c)
      BY <2>1 DEF Packet, PacketKinds, Arguments, Connected
    <2>3. /\ phase[c] = "connected" /\ phase' = [phase EXCEPT ![c] = "joining"]
          /\ UNCHANGED <<remote, slot, owner, name, admin, main, index, cast, authed>>
      BY <1>2 DEF SendClientJoin, poolVars, mainVars
    <2> HIDE DEF p
    <2> QED
      BY <2>2, <2>3, SendCore DEF AdminEarned
  <1>3. CASE SendGameMessage(c)
    <2>1. PICK i \in Index, k \in GameKinds :
            /\ remote[i] = c
            /\ \E a \in ArgumentsOf(k) :
                 Push([kind |-> k, from |-> c, idx |-> i, arg |-> a])
      BY <1>3 DEF SendGameMessage
    <2>2. PICK a \in ArgumentsOf(k) : Push([kind |-> k, from |-> c, idx |-> i, arg |-> a])
      BY <2>1
    <2> DEFINE p == [kind |-> k, from |-> c, idx |-> i, arg |-> a]
    <2>3. k \in GatedRPCs \cup SyncKinds
      BY ConstantsAssumption
    <2>4. a \in Arguments
      BY ArgumentsType, <2>3
    <2>5. p.from = c /\ p.kind # "ConnectionClosed" /\ p.kind # "ClientJoin"
      BY <2>3 DEF GatedRPCs, SyncKinds
    <2>6. p \in Packet
      BY <2>3, <2>4 DEF Packet, PacketKinds, IndexedKinds
    <2>7. Push(p) /\ Connected(c)
      BY <2>1, <2>2 DEF Connected
    <2>8. UNCHANGED <<remote, phase, slot, owner, name, admin, main, index, cast, authed>>
      BY <1>3 DEF SendGameMessage, poolVars, mainVars
    <2> HIDE DEF p
    <2> QED
      BY <2>5, <2>6, <2>7, <2>8, SendCore DEF AdminEarned
  <1>4. CASE Disconnect(c)
    <2>1. UNCHANGED <<slot, owner, admin, authed>>
      BY <1>4 DEF Disconnect, poolVars
    <2> QED
      BY <1>4, <2>1, DisconnectCore DEF AdminEarned
  <1> QED
    BY <1>1, <1>2, <1>3, <1>4 DEF Network

(* The loss of a connection whose slot is empty already.                    *)
LEMMA NothingToDelete ==
  ASSUME TypeOK, CoreInv, AdminEarned, ConnectionClosed, ~GetSlotState(index)
  PROVE  CoreInv' /\ AdminEarned'
  <1>1. /\ main = "handle" /\ Head(queue).kind = "ConnectionClosed" /\ Return /\ ~Sending'
        /\ UNCHANGED <<remote, phase, slot, owner, name, admin, authed>>
    BY DEF ConnectionClosed, Handling, Done, Sending, poolVars
  <1>2. index = Head(queue).idx
    BY <1>1 DEF CoreInv, IndexOfPacket, IndexedKinds
  <1>3. \A i \in Index : slot[i] => Head(queue) # ClosedPacket(owner[i], i)
    BY <1>2 DEF ClosedPacket, GetSlotState
  <1>4. CoreInv'
    BY <1>1, <1>3, TakenCore
  <1> QED
    BY <1>1, <1>4 DEF AdminEarned

LEMMA HandleCore ==
  ASSUME TypeOK, CoreInv, AdminEarned, Handle
  PROVE  CoreInv' /\ AdminEarned'
  <1>1. CASE ClientJoin
    BY <1>1, JoinCore
  <1>2. CASE (KickPlayer /\ ~Done) \/ (ConnectionClosed /\ GetSlotState(index))
    <2>1. \E i \in Index : Delete(i) /\ (Head(queue).kind = "ConnectionClosed" => i = index)
      BY <1>2 DEF KickPlayer, ConnectionClosed, GetSlotState, Gated, Handling
    <2>2. PICK i \in Index : Delete(i) /\ (Head(queue).kind = "ConnectionClosed" => i = index)
      BY <2>1
    <2>3. /\ main = "handle" /\ ~Sending /\ Stay
          /\ Head(queue).kind \in {"KickPlayer", "ConnectionClosed"}
          /\ UNCHANGED <<remote, phase, authed>>
      BY <1>2 DEF KickPlayer, ConnectionClosed, Gated, Handling
    <2>4. Head(queue).kind = "ConnectionClosed" => Head(queue).idx = i
      BY <2>2, <2>3 DEF CoreInv, IndexOfPacket, IndexedKinds
    <2> QED
      BY <2>2, <2>3, <2>4, DeleteCore
  <1>3. CASE ClientJoinRefused
    <2>1. /\ main = "handle" /\ Head(queue).kind = "ClientJoin" /\ Return /\ ~Sending'
          /\ UNCHANGED <<remote, slot, owner, name, admin, authed>>
      BY <1>3 DEF ClientJoinRefused, Handling, Done, Sending, poolVars
    <2>2. \A c \in Clients : phase'[c] # phase[c] =>
            c = Sender /\ phase[c] = "joining" /\ phase'[c] = "rejected"
      BY <1>3 DEF ClientJoinRefused, Reply, TypeOK
    <2>3. \A i \in Index : Head(queue) # ClosedPacket(owner[i], i)
      BY <2>1 DEF ClosedPacket
    <2> QED
      BY <2>1, <2>2, <2>3, TakenCore DEF AdminEarned
  <1>4. CASE ClientJoinBadIndex \/ (Chat /\ ~Done) \/ (PassengerSync /\ ~Done)
    <2>1. /\ UNCHANGED <<remote, queue, phase, slot, owner, name, admin, cast, authed>>
          /\ main' # "handle" /\ ~Sending
      BY <1>4 DEF ClientJoinBadIndex, Chat, PassengerSync, Fail, poolVars, Gated, Handling
    <2>2. ~Sending' /\ cast.rpc = "none"
      BY <2>1 DEF Sending
    <2>3. CastOfHandler'
      BY <2>2 DEF CastOfHandler
    <2> QED
      BY <2>1, <2>2, <2>3, QuietCore DEF AdminEarned, Joining
  <1>5. CASE IgnoreMessage
    <2>1. PICK k \in GatedRPCs : Handling(k)
      BY <1>5 DEF IgnoreMessage
    <2>2. Done /\ UNCHANGED <<remote, phase, slot, owner, name, admin, authed>>
      BY <1>5 DEF IgnoreMessage, poolVars
    <2> QED
      BY <2>1, <2>2, PlayCore
  <1>6. CASE RequestClass \/ ((Spawn \/ Chat \/ KickPlayer) /\ Done)
    <2>1. PICK k \in GatedRPCs : Handling(k)
      BY <1>6 DEF RequestClass, Spawn, Chat, KickPlayer, Gated, GatedRPCs
    <2>2. Done
      BY <1>6 DEF RequestClass
    <2>3. queue' # queue
      <3>1. queue \in Seq(Packet) /\ queue # <<>> /\ queue' = Tail(queue)
        BY <2>1, <2>2, HandlingType DEF TypeOK, Done, Return
      <3> QED
        BY <3>1, TailShifts
    <2>4. UNCHANGED <<remote, phase, slot, owner, name, admin, authed>>
      BY <1>6, <2>3 DEF RequestClass, Spawn, Chat, KickPlayer, Stay, poolVars
    <2> QED
      BY <2>1, <2>2, <2>4, PlayCore
  <1>7. CASE Admin
    <2>1. Handling("Admin") /\ Done /\ GetSlotState(index)
      BY <1>7 DEF Admin, Gated
    <2>2. UNCHANGED <<remote, phase, slot, owner, name>>
      BY <1>7 DEF Admin
    <2>3. \/ UNCHANGED <<admin, authed>>
          \/ admin' = [admin EXCEPT ![index] = TRUE] /\ authed' = authed \cup {Sender}
      BY <1>7 DEF Admin
    <2> QED
      BY <2>1, <2>2, <2>3, PlayCore DEF GatedRPCs
  <1>8. CASE PlayerSync \/ VehicleSync \/ (PassengerSync /\ Done)
    <2>1. PICK k \in SyncKinds : Handling(k)
      BY <1>8 DEF PlayerSync, VehicleSync, PassengerSync, StoreSync, SyncKinds
    <2>2. Done /\ UNCHANGED <<remote, phase, slot, owner, name, admin, authed>>
      BY <1>8 DEF PlayerSync, VehicleSync, PassengerSync, StoreSync, poolVars
    <2> QED
      BY <2>1, <2>2, PlayCore
  <1>9. CASE Spawn /\ ~Done
    <2>1. /\ Gated("Spawn") /\ Announce("Spawn", index) /\ Stay
          /\ UNCHANGED <<remote, phase, slot, owner, name, admin, authed>>
      BY <1>9 DEF Spawn, poolVars
    <2> QED
      BY <2>1, LifeCore
  <1>10. CASE Death
    <2>1. /\ Gated("Death") /\ Announce("Death", index) /\ Stay
          /\ UNCHANGED <<remote, phase, slot, owner, name, admin, authed>>
      BY <1>10 DEF Death
    <2> QED
      BY <2>1, LifeCore
  <1>11. CASE ConnectionClosed /\ ~GetSlotState(index)
    BY <1>11, NothingToDelete
  <1> QED
    BY <1>1, <1>2, <1>3, <1>4, <1>5, <1>6, <1>7, <1>8, <1>9, <1>10, <1>11 DEF Handle

(* A step of a loop that does not end it.                                   *)
LEMMA SendingOn ==
  ASSUME TypeOK, CoreInv, Sending, Stay, UNCHANGED <<remote, slot, owner, name>>,
         cast'.idx = cast.idx,
         \/ cast'.rpc = cast.rpc /\ cast'.except = cast.except
         \/ cast.rpc \in {"ServerJoin", "List"} /\ cast'.rpc = "List" /\ cast'.except = None,
         \A c \in Clients : phase'[c] # phase[c] =>
            /\ c = Sender /\ phase[c] = "joining" /\ phase'[c] = "ingame"
            /\ cast.rpc = "ServerJoin" /\ cast'.rpc = "List"
  PROVE  CoreInv'
  <1>1. UNCHANGED <<queue, main, index>>
    BY DEF Stay
  <1>2. Sender' = Sender
    BY <1>1 DEF Sender
  <1>3. CastOfHandler
    BY DEF CoreInv
  <1>4. CastOfHandler'
    <2>1. CASE cast'.rpc = cast.rpc /\ cast'.except = cast.except
      BY <1>1, <1>2, <1>3, <2>1 DEF CastOfHandler, Sending, ClosedPacket
    <2>2. CASE cast.rpc \in {"ServerJoin", "List"} /\ cast'.rpc = "List" /\ cast'.except = None
      BY <1>1, <1>2, <1>3, <2>2 DEF CastOfHandler, Sending
    <2> QED
      BY <2>1, <2>2
  <1>5. cast.rpc = "ServerJoin" => main = "handle" /\ Head(queue).kind = "ClientJoin"
    BY <1>3 DEF CastOfHandler, Sending
  <1>6. cast.rpc = "List" => cast'.rpc = "List"
    OBVIOUS
  <1>7. \A i \in Index : Joining(i) => Joining(i)'
    BY DEF Joining
  <1> QED
    BY <1>1, <1>4, <1>5, <1>6, <1>7, QuietCore

(* A step that ends the loop, and with it the handler.                      *)
LEMMA SendingOver ==
  ASSUME TypeOK, CoreInv, Sending, main = "handle", Return, cast' = Silence,
         UNCHANGED <<remote, slot, owner, name>>,
         \A c \in Clients : phase'[c] # phase[c] =>
            /\ c = Sender /\ phase[c] = "joining" /\ phase'[c] = "ingame"
            /\ cast.rpc = "ServerJoin"
  PROVE  CoreInv'
  <1>1. CastOfHandler
    BY DEF CoreInv
  <1>2. \A i \in Index : slot[i] => Head(queue) # ClosedPacket(owner[i], i)
    <2>1. \/ Head(queue).kind \in {"ClientJoin", "Spawn", "Death", "KickPlayer"}
          \/ Head(queue).kind = "ConnectionClosed" /\ ~slot[Head(queue).idx]
      BY <1>1, CastType DEF CastOfHandler, Sending, Broadcasts
    <2> QED
      BY <2>1 DEF ClosedPacket
  <1>3. cast.rpc = "ServerJoin" => Head(queue).kind = "ClientJoin"
    BY <1>1 DEF CastOfHandler
  <1>4. ~Sending'
    BY DEF Sending, Silence
  <1> QED
    BY <1>2, <1>3, <1>4, TakenCore

LEMMA SendCastCore ==
  ASSUME TypeOK, CoreInv, AdminEarned, Send
  PROVE  CoreInv' /\ AdminEarned'
  <1>1. UNCHANGED <<remote, slot, owner, name, admin, authed>>
    BY DEF Send, SendToEntry, JoinAnnounced, SpawnForPlayer, SpawnAnnounced, EndAnnounced,
           poolVars
  <1>2. Sending
    BY DEF Send, SendToEntry, JoinAnnounced, SpawnForPlayer, SpawnAnnounced, EndAnnounced,
           Announced, Broadcasts, Sending
  <1>3. /\ main \in {"handle", "rcon"}
        /\ cast.rpc # "ServerQuit" => main = "handle"
    BY <1>2 DEF CoreInv, CastOfHandler
  <1>4. CASE SendToEntry
    <2>1. /\ Stay /\ UNCHANGED phase
          /\ cast'.rpc = cast.rpc /\ cast'.idx = cast.idx /\ cast'.except = cast.except
      BY <1>4 DEF SendToEntry, TypeOK, Casts
    <2> QED
      BY <1>1, <1>2, <2>1, SendingOn DEF AdminEarned
  <1>5. CASE JoinAnnounced
    <2>1. cast.rpc = "ServerJoin" /\ main = "handle" /\ queue # <<>> /\ Sender \in Clients
      BY <1>3, <1>5, HandledType DEF JoinAnnounced, Announced
    <2>2. \A c \in Clients : phase'[c] # phase[c] =>
            c = Sender /\ phase[c] = "joining" /\ phase'[c] = "ingame"
      BY <1>5, <2>1 DEF JoinAnnounced, Reply, TypeOK
    <2>3. \/ cast' = Silence /\ Return
          \/ Stay /\ cast'.rpc = "List" /\ cast'.idx = cast.idx /\ cast'.except = None
      BY <1>5, <2>1, ListType DEF JoinAnnounced
    <2> QED
      BY <1>1, <1>2, <2>1, <2>2, <2>3, SendingOn, SendingOver DEF AdminEarned
  <1>6. CASE SpawnForPlayer
    <2>1. cast.rpc = "List" /\ main = "handle" /\ queue # <<>>
      BY <1>3, <1>6, HandledType DEF SpawnForPlayer
    <2>2. \/ cast' = Silence /\ Return
          \/ Stay /\ cast'.rpc = "List" /\ cast'.idx = cast.idx /\ cast'.except = None
      BY <1>6, <2>1, ListType DEF SpawnForPlayer
    <2>3. UNCHANGED phase
      BY <1>6 DEF SpawnForPlayer
    <2> QED
      BY <1>1, <1>2, <2>1, <2>2, <2>3, SendingOn, SendingOver DEF AdminEarned
  <1>7. CASE SpawnAnnounced \/ (EndAnnounced /\ main = "handle")
    <2>1. main = "handle" /\ Return /\ cast' = Silence /\ UNCHANGED phase
      BY <1>3, <1>7 DEF SpawnAnnounced, EndAnnounced, Announced
    <2> QED
      BY <1>1, <1>2, <2>1, SendingOver DEF AdminEarned
  <1>8. CASE EndAnnounced /\ main = "rcon"
    <2>1. Stay /\ cast' = Silence /\ UNCHANGED phase /\ cast.rpc = "ServerQuit"
      BY <1>3, <1>8 DEF EndAnnounced, Announced
    <2>2. UNCHANGED <<queue, main, index>> /\ ~Sending'
      BY <2>1 DEF Stay, Sending, Silence
    <2>3. CastOfHandler'
      BY <2>2 DEF CastOfHandler
    <2>4. CoreInv'
      BY <1>1, <1>8, <2>1, <2>2, <2>3, QuietCore DEF Joining
    <2> QED
      BY <1>1, <2>4 DEF AdminEarned
  <1> QED
    BY <1>3, <1>4, <1>5, <1>6, <1>7, <1>8 DEF Send

LEMMA StepCore ==
  ASSUME TypeOK, CoreInv, AdminEarned, [Next]_vars
  PROVE  CoreInv' /\ AdminEarned'
  <1>1. CASE Receive
    <2>1. UNCHANGED <<slot, owner, admin, authed>>
      BY <1>1 DEF Receive, poolVars
    <2> QED
      BY <1>1, <2>1, ReceiveCore DEF AdminEarned
  <1>2. CASE Handle
    BY <1>2, HandleCore
  <1>3. CASE ProcessPlayers \/ RconDone
    <2>1. /\ UNCHANGED <<remote, queue, phase, slot, owner, name, admin, cast, authed>>
          /\ main' # "handle" /\ cast.rpc = "none"
      BY <1>3 DEF ProcessPlayers, RconDone, netVars, poolVars, CoreInv, CastOfHandler, Sending
    <2>2. CastOfHandler'
      BY <2>1 DEF CastOfHandler, Sending
    <2> QED
      BY <2>1, <2>2, QuietCore DEF AdminEarned, Joining
  <1>4. CASE RconKick
    <2>1. PICK i \in Index : Delete(i)
      BY <1>4 DEF RconKick
    <2>2. main = "rcon" /\ ~Sending /\ Stay /\ UNCHANGED <<remote, phase, authed>>
      BY <1>4 DEF RconKick
    <2> QED
      BY <2>1, <2>2, DeleteCore
  <1>5. CASE Send
    BY <1>5, SendCastCore
  <1>6. CASE \E c \in Clients : Network(c)
    BY <1>6, NetworkCore
  <1>7. CASE UNCHANGED vars
    <2>1. UNCHANGED <<remote, queue, phase, slot, owner, name, admin, main, index, cast, authed>>
      BY <1>7 DEF vars
    <2> QED
      BY <2>1
         DEF CoreInv, SlotsOwned, OneEntryPerClient, PhaseMatchesTable, ClosedIsGone,
             OneJoinPerConnection, NewcomersDoNotPlay, ClosedBeforeSuccessor, IndexHeld,
             IndexOfPacket, HandlerActsOnSender, CastOfHandler, NoGhostPlayers, UniqueNicks,
             AdminEarned, Connected, ClosedPacket, Sender, GetSlotState, Joining, Sending
  <1> QED
    BY <1>1, <1>2, <1>3, <1>4, <1>5, <1>6, <1>7 DEF Next, MainThread

(* What the table, the pool and the queue agree on in every reachable state, *)
(* with the types of all variables.                                         *)
LEMMA CoreCorrect == Spec => [](TypeOK /\ CoreInv /\ AdminEarned)
  <1>1. Init => TypeOK /\ CoreInv /\ AdminEarned
    BY InitType, InitCore
  <1>2. TypeOK /\ CoreInv /\ AdminEarned /\ [Next]_vars => (TypeOK /\ CoreInv /\ AdminEarned)'
    <2>1. CoreInv => CastOfHandler
      BY DEF CoreInv
    <2> QED
      BY <2>1, StepType, StepCore
  <1> QED
    BY <1>1, <1>2, PTL DEF Spec

(* Every variable keeps its type in every step of either thread.            *)
THEOREM TypeCorrect == Spec => []TypeOK
  BY CoreCorrect, PTL

(* The server's bookkeeping: slots, indexes, the order of the queue and the *)
(* loop that sends agree with the table of connections, in every reachable  *)
(* state.                                                                   *)
THEOREM TableCorrect == Spec => []TableInv
  <1>1. CoreInv /\ AdminEarned => TableInv
    BY DEF CoreInv, TableInv
  <1> QED
    BY <1>1, CoreCorrect, PTL

(* No player of the pool survives the connection it belongs to by more than *)
(* the packets in the queue.                                                *)
THEOREM GhostFree == Spec => []NoGhostPlayers
  <1>1. TableInv => NoGhostPlayers
    BY DEF TableInv
  <1> QED
    BY <1>1, TableCorrect, PTL

(* CPlayerPool::New never drops the player of a slot.                       *)
THEOREM NewFillsFreeSlots == Spec => []NoOverwrite
  <1>1. TypeOK /\ TableInv => NoOverwrite
    BY JoinSlotFree DEF TableInv, CoreInv
  <1> QED
    BY <1>1, TypeCorrect, TableCorrect, PTL

(* No two players carry the same name.                                      *)
THEOREM NicksUnique == Spec => []UniqueNicks
  <1>1. TableInv => UniqueNicks
    BY DEF TableInv
  <1> QED
    BY <1>1, TableCorrect, PTL

(* The rights of an administrator never pass to the next player of a slot.  *)
THEOREM AdminsEarned == Spec => []AdminEarned
  <1>1. TableInv => AdminEarned
    BY DEF TableInv
  <1> QED
    BY <1>1, TableCorrect, PTL

===============================================================================
