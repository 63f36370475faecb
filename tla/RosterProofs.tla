----------------------------- MODULE RosterProofs -----------------------------
(***************************************************************************)
(* Proofs about GameServer on top of TableInv and the sessions of an index:  *)
(* the server implements PlayerRoster.  Whatever the two threads do, each    *)
(* step is for the players one arrival, departure, refusal, join, spawn,     *)
(* death, authentication or dismissal, or nothing at all.                   *)
(***************************************************************************)
EXTENDS SessionProofs

-------------------------------------------------------------------------------
(* Where a client stands, from its slot.                                    *)

(* A client has one slot at most.                                           *)
OneSlotPerClient ==
  \A i, j \in Index : slot[i] /\ slot[j] /\ owner[i] = owner[j] => i = j

IsAdmin(c) == \E i \in Index : Plays(c, i) /\ admin[i]

Unchanged(c) ==
  StatusOf(c)' = StatusOf(c) /\ PointsOf(c)' = PointsOf(c) /\ (IsAdmin(c)' <=> IsAdmin(c))

LEMMA StandingOfPlayer ==
  ASSUME OneSlotPerClient, NEW i \in Index, NEW c, Plays(c, i)
  PROVE  /\ StatusOf(c) = IF active[i] THEN "alive" ELSE IF wasted[i] THEN "dead" ELSE "lobby"
         /\ PointsOf(c) = score[i]
         /\ IsAdmin(c) <=> admin[i]
<1>1. \A j \in Index : Plays(c, j) <=> j = i
  BY DEF OneSlotPerClient, Plays
<1>2. PointsOf(c) = score[i]
  BY <1>1 DEF PointsOf
<1> QED
  BY <1>1, <1>2 DEF StatusOf, IsAdmin

LEMMA StandingOfPlayerNext ==
  ASSUME OneSlotPerClient', NEW i \in Index, NEW c, Plays(c, i)'
  PROVE  /\ StatusOf(c)' = IF active'[i] THEN "alive" ELSE IF wasted'[i] THEN "dead" ELSE "lobby"
         /\ PointsOf(c)' = score'[i]
         /\ IsAdmin(c)' <=> admin'[i]
<1>1. \A j \in Index : Plays(c, j)' <=> j = i
  BY DEF OneSlotPerClient, Plays
<1>2. PointsOf(c)' = score'[i]
  BY <1>1 DEF PointsOf
<1> QED
  BY <1>1, <1>2 DEF StatusOf, IsAdmin

LEMMA StandingOfOther ==
  ASSUME NEW c, \A i \in Index : ~Plays(c, i)
  PROVE  /\ StatusOf(c) = IF Asks(c) THEN "asking" ELSE "out"
         /\ PointsOf(c) = 0
         /\ ~IsAdmin(c)
BY DEF StatusOf, PointsOf, IsAdmin

LEMMA StandingOfOtherNext ==
  ASSUME NEW c, \A i \in Index : ~Plays(c, i)'
  PROVE  /\ StatusOf(c)' = IF Asks(c)' THEN "asking" ELSE "out"
         /\ PointsOf(c)' = 0
         /\ ~IsAdmin(c)'
BY DEF StatusOf, PointsOf, IsAdmin

(* A client stands where it stood when its slot keeps what it holds, and,   *)
(* without a slot, when it asks as it did.                                  *)
LEMMA StaysWhereItStood ==
  ASSUME OneSlotPerClient, OneSlotPerClient', NEW c,
         \A i \in Index : Plays(c, i)' <=> Plays(c, i),
         \A i \in Index : Plays(c, i) =>
           active'[i] = active[i] /\ wasted'[i] = wasted[i]
           /\ score'[i] = score[i] /\ admin'[i] = admin[i],
         \/ Asks(c)' <=> Asks(c)
         \/ \E i \in Index : Plays(c, i)
  PROVE  Unchanged(c)
<1>1. CASE \E i \in Index : Plays(c, i)
  <2>1. PICK i \in Index : Plays(c, i)
    BY <1>1
  <2>2. Plays(c, i)'
    BY <2>1
  <2> QED
    BY <2>1, <2>2, StandingOfPlayer, StandingOfPlayerNext DEF Unchanged
<1>2. CASE \A i \in Index : ~Plays(c, i)
  <2>1. \A i \in Index : ~Plays(c, i)'
    BY <1>2
  <2>2. Asks(c)' <=> Asks(c)
    BY <1>2
  <2>3. StatusOf(c)' = StatusOf(c) /\ PointsOf(c)' = PointsOf(c) /\ ~IsAdmin(c)' /\ ~IsAdmin(c)
    BY <1>2, <2>1, <2>2, StandingOfOther, StandingOfOtherNext
  <2> QED
    BY <2>3 DEF Unchanged
<1> QED
  BY <1>1, <1>2

-------------------------------------------------------------------------------
(* The steps of PlayerRoster, from where each client stands.                *)

Online == {c \in Clients : Connected(c)}
Status == [c \in Clients |-> StatusOf(c)]
Points == [c \in Clients |-> PointsOf(c)]
Admins == {c \in Clients : IsAdmin(c)}

LEMMA NobodyChanges ==
  ASSUME \A c \in Clients : Unchanged(c), Online' = Online
  PROVE  UNCHANGED Roster!vars
<1>1. Status' = Status
  BY DEF Status, Unchanged
<1>2. Points' = Points
  BY DEF Points, Unchanged
<1>3. Admins' = Admins
  BY DEF Admins, Unchanged
<1> QED
  BY <1>1, <1>2, <1>3 DEF Roster!vars, Online, Status, Points, Admins, IsAdmin

LEMMA OneChanges ==
  ASSUME NEW c \in Clients, \A d \in Clients \ {c} : Unchanged(d)
  PROVE  /\ Status' = [Status EXCEPT ![c] = StatusOf(c)']
         /\ Points' = [Points EXCEPT ![c] = PointsOf(c)']
         /\ (IsAdmin(c)' <=> IsAdmin(c)) => Admins' = Admins
         /\ IsAdmin(c)' => Admins' = Admins \cup {c}
         /\ ~IsAdmin(c)' => Admins' = Admins \ {c}
         /\ PointsOf(c)' = PointsOf(c) => Points' = Points
         /\ StatusOf(c)' = StatusOf(c) => Status' = Status
<1>1. Status' = [Status EXCEPT ![c] = StatusOf(c)']
  BY DEF Status, Unchanged
<1>2. Points' = [Points EXCEPT ![c] = PointsOf(c)']
  BY DEF Points, Unchanged
<1>3. \A d \in Clients : d # c => (d \in Admins' <=> d \in Admins)
  BY DEF Admins, Unchanged
<1>4. (c \in Admins <=> IsAdmin(c)) /\ (c \in Admins' <=> IsAdmin(c)')
      /\ Admins \subseteq Clients /\ Admins' \subseteq Clients
  BY DEF Admins
<1>5. PointsOf(c)' = PointsOf(c) => Points' = Points
  BY DEF Points, Unchanged
<1>6. StatusOf(c)' = StatusOf(c) => Status' = Status
  BY DEF Status, Unchanged
<1> QED
  BY <1>1, <1>2, <1>3, <1>4, <1>5, <1>6

(* The state of PlayerRoster is the one these names stand for.              *)
LEMMA SameRoster ==
  /\ \A c \in Clients : Roster!Playing(c) <=> Status[c] \in {"lobby", "alive", "dead"}
  /\ \A c \in Clients : \A s : Roster!Become(c, s) <=> Status' = [Status EXCEPT ![c] = s]
BY DEF Roster!Playing, Roster!Become, Status

LEMMA ArriveStep ==
  ASSUME NEW c \in Clients, \A d \in Clients \ {c} : Unchanged(d),
         c \notin Online, Online' = Online \cup {c},
         StatusOf(c) = "out", StatusOf(c)' = "asking",
         PointsOf(c)' = PointsOf(c), IsAdmin(c)' <=> IsAdmin(c)
  PROVE  Roster!Next
<1>1. Status' = [Status EXCEPT ![c] = "asking"] /\ Points' = Points /\ Admins' = Admins
  BY OneChanges
<1>2. Roster!Arrive(c)
  BY <1>1, SameRoster DEF Roster!Arrive, Roster!Become, Online, Status, Points, Admins, IsAdmin
<1> QED
  BY <1>2 DEF Roster!Next

LEMMA DepartStep ==
  ASSUME NEW c \in Clients, \A d \in Clients \ {c} : Unchanged(d),
         c \in Online, Online' = Online \ {c},
         StatusOf(c)' = StatusOf(c) \/ (StatusOf(c) = "asking" /\ StatusOf(c)' = "out"),
         PointsOf(c)' = PointsOf(c), IsAdmin(c)' <=> IsAdmin(c)
  PROVE  Roster!Next
<1>1. /\ Status' = Status \/ (StatusOf(c) = "asking" /\ Status' = [Status EXCEPT ![c] = "out"])
      /\ Points' = Points /\ Admins' = Admins
  BY OneChanges
<1>2. Roster!Depart(c)
  BY <1>1, SameRoster DEF Roster!Depart, Roster!Become, Online, Status, Points, Admins, IsAdmin
<1> QED
  BY <1>2 DEF Roster!Next

LEMMA RefuseStep ==
  ASSUME NEW c \in Clients, \A d \in Clients \ {c} : Unchanged(d),
         Online' = Online, StatusOf(c) = "asking", StatusOf(c)' = "out",
         PointsOf(c)' = PointsOf(c), IsAdmin(c)' <=> IsAdmin(c)
  PROVE  Roster!Next
<1>1. Status' = [Status EXCEPT ![c] = "out"] /\ Points' = Points /\ Admins' = Admins
  BY OneChanges
<1>2. Roster!Refuse(c)
  BY <1>1, SameRoster DEF Roster!Refuse, Roster!Become, Online, Status, Points, Admins, IsAdmin
<1> QED
  BY <1>2 DEF Roster!Next

LEMMA JoinStep ==
  ASSUME NEW c \in Clients, \A d \in Clients \ {c} : Unchanged(d),
         Online' = Online, StatusOf(c) = "asking", StatusOf(c)' = "lobby",
         PointsOf(c)' = PointsOf(c), IsAdmin(c)' <=> IsAdmin(c)
  PROVE  Roster!Next
<1>1. Status' = [Status EXCEPT ![c] = "lobby"] /\ Points' = Points /\ Admins' = Admins
  BY OneChanges
<1>2. Roster!Join(c)
  BY <1>1, SameRoster DEF Roster!Join, Roster!Become, Online, Status, Points, Admins, IsAdmin
<1> QED
  BY <1>2 DEF Roster!Next

LEMMA SpawnStep ==
  ASSUME NEW c \in Clients, \A d \in Clients \ {c} : Unchanged(d),
         Online' = Online, StatusOf(c) \in {"lobby", "alive", "dead"}, StatusOf(c)' = "alive",
         PointsOf(c)' = PointsOf(c), IsAdmin(c)' <=> IsAdmin(c)
  PROVE  Roster!Next
<1>1. Status' = [Status EXCEPT ![c] = "alive"] /\ Points' = Points /\ Admins' = Admins
  BY OneChanges
<1>2. Roster!Spawn(c)
  BY <1>1, SameRoster DEF Roster!Spawn, Roster!Become, Online, Status, Points, Admins, IsAdmin
<1> QED
  BY <1>2 DEF Roster!Next

LEMMA AuthenticateStep ==
  ASSUME NEW c \in Clients, \A d \in Clients \ {c} : Unchanged(d),
         Online' = Online, StatusOf(c) \in {"lobby", "alive", "dead"},
         StatusOf(c)' = StatusOf(c), PointsOf(c)' = PointsOf(c), IsAdmin(c)'
  PROVE  Roster!Next
<1>1. Status' = Status /\ Points' = Points /\ Admins' = Admins \cup {c}
  BY OneChanges
<1>2. Roster!Authenticate(c)
  BY <1>1, SameRoster DEF Roster!Authenticate, Roster!Become, Online, Status, Points, Admins, IsAdmin
<1> QED
  BY <1>2 DEF Roster!Next

LEMMA LeaveStep ==
  ASSUME NEW c \in Clients, \A d \in Clients \ {c} : Unchanged(d),
         Online' = Online, StatusOf(c) \in {"lobby", "alive", "dead"},
         c \notin Online \/ Admins # {} \/ ConsoleKicks,
         StatusOf(c)' = "out", PointsOf(c)' = 0, ~IsAdmin(c)'
  PROVE  Roster!Next
<1>1. /\ Status' = [Status EXCEPT ![c] = "out"] /\ Points' = [Points EXCEPT ![c] = 0]
      /\ Admins' = Admins \ {c}
  BY OneChanges
<1>2. Roster!Leave(c)
  BY <1>1, SameRoster DEF Roster!Leave, Roster!Become, Online, Status, Points, Admins, IsAdmin
<1> QED
  BY <1>2 DEF Roster!Next

LEMMA DieStep ==
  ASSUME NEW c \in Clients, StatusOf(c) \in {"lobby", "alive", "dead"},
         Online' = Online, Admins' = Admins, Status' = [Status EXCEPT ![c] = "dead"],
         \/ Points' = Points
         \/ \E k \in Clients, d \in {-1, 1} :
              StatusOf(k) \in {"lobby", "alive", "dead"} /\ Points' = [Points EXCEPT ![k] = @ + d]
  PROVE  Roster!Next
<1>1. Roster!Die(c)
  BY SameRoster DEF Roster!Die, Roster!Become, Roster!Playing, Online, Status, Points, Admins, IsAdmin
<1> QED
  BY <1>1 DEF Roster!Next

-------------------------------------------------------------------------------
(* Who asks, and what the network does.                                     *)

LEMMA AsksAfterPush ==
  ASSUME TypeOK, NEW p \in Packet, Push(p), NEW c \in Clients,
         p.kind # "ClientJoin" \/ p.from # c,
         phase'[c] = "connected" <=> phase[c] = "connected"
  PROVE  Asks(c)' <=> Asks(c)
<1>1. /\ Len(queue) \in Nat /\ Len(queue') = Len(queue) + 1
      /\ \A k \in 1 .. Len(queue) : queue'[k] = queue[k]
      /\ \A k \in 1 .. Len(queue') :
           k \in 1 .. Len(queue) \/ (k = Len(queue) + 1 /\ queue'[k] = p)
  BY PushFacts
<1>2. (\E k \in 1 .. Len(queue') : queue'[k].kind = "ClientJoin" /\ queue'[k].from = c)
        <=> \E k \in 1 .. Len(queue) : queue[k].kind = "ClientJoin" /\ queue[k].from = c
  BY <1>1
<1> QED
  BY <1>2 DEF Asks

LEMMA AsksAfterReturn ==
  ASSUME TypeOK, main = "handle", Return, NEW c \in Clients,
         Head(queue).kind # "ClientJoin" \/ Sender # c,
         phase'[c] = "connected" <=> phase[c] = "connected"
  PROVE  Asks(c)' <=> Asks(c)
<1>1. /\ Len(queue) \in Nat \ {0} /\ Len(queue') = Len(queue) - 1
      /\ \A k \in 1 .. Len(queue') : k + 1 \in 2 .. Len(queue) /\ queue'[k] = queue[k + 1]
      /\ \A k \in 2 .. Len(queue) : k - 1 \in 1 .. Len(queue') /\ queue'[k - 1] = queue[k]
      /\ Head(queue) = queue[1]
  BY ReturnFacts
<1>2. (\E k \in 1 .. Len(queue') : queue'[k].kind = "ClientJoin" /\ queue'[k].from = c)
        => \E k \in 1 .. Len(queue) : queue[k].kind = "ClientJoin" /\ queue[k].from = c
  BY <1>1
<1>3. ASSUME NEW k \in 1 .. Len(queue), queue[k].kind = "ClientJoin", queue[k].from = c
      PROVE  \E l \in 1 .. Len(queue') : queue'[l].kind = "ClientJoin" /\ queue'[l].from = c
  <2>1. k # 1
    BY <1>1, <1>3 DEF Sender
  <2>2. k \in 2 .. Len(queue)
    BY <1>1, <2>1
  <2> QED
    BY <1>1, <1>3, <2>2
<1> QED
  BY <1>2, <1>3 DEF Asks

(* Whoever plays does not ask, unless the handler of its join still runs.   *)
LEMMA PlayersDoNotAsk ==
  ASSUME CoreInv, ~Sending, NEW c, NEW i \in Index, Plays(c, i)
  PROVE  ~Asks(c)
<1>1. ~Joining(i)
  BY DEF Joining, Sending
<1> QED
  BY <1>1 DEF CoreInv, OneJoinPerConnection, NewcomersDoNotPlay, Plays, Asks

LEMMA KeepsItsSlot ==
  ASSUME OneSlotPerClient, UNCHANGED <<slot, owner, active, wasted, score, admin>>,
         NEW c, (Asks(c)' <=> Asks(c)) \/ \E i \in Index : Plays(c, i)
  PROVE  Unchanged(c)
<1>1. OneSlotPerClient' /\ \A i \in Index : Plays(c, i)' <=> Plays(c, i)
  BY DEF OneSlotPerClient, Plays
<1> QED
  BY <1>1, StaysWhereItStood

LEMMA ConnectStep ==
  ASSUME TypeOK, CoreInv, OneSlotPerClient, NEW c \in Clients, Connect(c)
  PROVE  Roster!Next
<1>1. UNCHANGED <<queue, slot, owner, active, wasted, score, admin>>
      /\ phase[c] = "offline" /\ phase' = [phase EXCEPT ![c] = "connected"]
  BY DEF Connect, poolVars, playerVars
<1>2. ~Connected(c) /\ \A k \in 1 .. Len(queue) : queue[k].from # c
  BY DEF CoreInv, PhaseMatchesTable, Connect
<1>3. PICK i \in Index : remote[i] = None /\ remote' = [remote EXCEPT ![i] = c]
  BY DEF Connect, FirstFree
<1>4. /\ remote \in [Index -> Clients \cup {None}] /\ None \notin Clients
      /\ phase \in [Clients -> {"offline", "connected", "joining", "ingame", "rejected"}]
  BY ConstantsAssumption DEF TypeOK
<1>5. c \notin Online /\ Online' = Online \cup {c}
  BY <1>2, <1>3, <1>4 DEF Online, Connected
<1>6. ASSUME NEW d \in Clients \ {c} PROVE Unchanged(d)
  <2>1. Asks(d)' <=> Asks(d)
    BY <1>1, <1>4 DEF Asks
  <2> QED
    BY <1>1, <2>1, KeepsItsSlot
<1>7. \A j \in Index : ~Plays(c, j) /\ ~Plays(c, j)'
  BY <1>1, <1>2, SilentOwnsNothing DEF Plays
<1>8. ~Asks(c) /\ Asks(c)'
  BY <1>1, <1>2, <1>4 DEF Asks
<1>9. /\ StatusOf(c) = "out" /\ StatusOf(c)' = "asking"
      /\ PointsOf(c)' = PointsOf(c) /\ (IsAdmin(c)' <=> IsAdmin(c))
  BY <1>7, <1>8, StandingOfOther, StandingOfOtherNext
<1> QED
  BY <1>5, <1>6, <1>9, ArriveStep

LEMMA DisconnectStep ==
  ASSUME TypeOK, CoreInv, OneSlotPerClient, NEW c \in Clients, Disconnect(c)
  PROVE  Roster!Next
<1>1. UNCHANGED <<slot, owner, active, wasted, score, admin>>
      /\ phase' = [phase EXCEPT ![c] = "offline"]
  BY DEF Disconnect, poolVars, playerVars
<1>2. PICK i \in Index : remote[i] = c /\ remote' = [remote EXCEPT ![i] = None] /\ Push(ClosedPacket(c, i))
  BY DEF Disconnect, CloseConnection
<1>3. /\ remote \in [Index -> Clients \cup {None}] /\ None \notin Clients
      /\ phase \in [Clients -> {"offline", "connected", "joining", "ingame", "rejected"}]
      /\ \A j \in Index : remote[j] = c => j = i
  BY <1>2, ConstantsAssumption DEF TypeOK, CoreInv, OneEntryPerClient
<1>4. c \in Online /\ Online' = Online \ {c}
  <2>1. \A d \in Clients : Connected(d)' <=> Connected(d) /\ d # c
    BY <1>2, <1>3 DEF Connected
  <2>2. Connected(c)
    BY <1>2 DEF Connected
  <2> QED
    BY <2>1, <2>2 DEF Online
<1>5. /\ ClosedPacket(c, i) \in Packet /\ ClosedPacket(c, i).from = c
      /\ ClosedPacket(c, i).kind # "ClientJoin"
  <2>1. 0 \in Arguments
    BY DEF Arguments
  <2> QED
    BY <2>1 DEF ClosedPacket, Packet, PacketKinds, IndexedKinds
<1>6. ASSUME NEW d \in Clients \ {c} PROVE Unchanged(d)
  <2>1. Asks(d)' <=> Asks(d)
    BY <1>1, <1>2, <1>3, <1>5, AsksAfterPush
  <2> QED
    BY <1>1, <2>1, KeepsItsSlot
<1>7. CASE phase[c] = "connected"
  <2>1. \A j \in Index : ~Plays(c, j) /\ ~Plays(c, j)'
    BY <1>1, <1>7 DEF CoreInv, NewcomersDoNotPlay, Plays
  <2>2. Asks(c) /\ ~Asks(c)'
    <3>1. ASSUME NEW k \in 1 .. Len(queue), queue[k].kind = "ClientJoin", queue[k].from = c
          PROVE  FALSE
      <4>1. k = 1 /\ cast.rpc = "List"
        BY <1>7, <3>1 DEF CoreInv, OneJoinPerConnection
      <4>2. Sending /\ cast.rpc # "ServerQuit"
        BY <4>1 DEF Sending
      <4>3. main = "handle" /\ slot[cast.idx] /\ owner[cast.idx] = Sender /\ cast.idx \in Index
        BY <4>2, CastType DEF CoreInv, CastOfHandler
      <4>4. Sender = c
        BY <3>1, <4>1, <4>3, HandledType DEF Sender
      <4> QED
        BY <2>1, <4>3, <4>4 DEF Plays
    <3>2. \A k \in 1 .. Len(queue') : ~(queue'[k].kind = "ClientJoin" /\ queue'[k].from = c)
      BY <1>2, <1>5, <3>1, PushFacts
    <3>3. phase'[c] # "connected"
      BY <1>1, <1>3
    <3> QED
      BY <1>7, <3>2, <3>3 DEF Asks
  <2>3. /\ StatusOf(c) = "asking" /\ StatusOf(c)' = "out"
        /\ PointsOf(c)' = PointsOf(c) /\ (IsAdmin(c)' <=> IsAdmin(c))
    BY <2>1, <2>2, StandingOfOther, StandingOfOtherNext
  <2> QED
    BY <1>4, <1>6, <2>3, DepartStep
<1>8. CASE phase[c] # "connected"
  <2>1. Asks(c)' <=> Asks(c)
    BY <1>1, <1>2, <1>3, <1>5, <1>8, AsksAfterPush
  <2>2. Unchanged(c)
    BY <1>1, <2>1, KeepsItsSlot
  <2> QED
    BY <1>4, <1>6, <2>2, DepartStep DEF Unchanged
<1> QED
  BY <1>7, <1>8

LEMMA SendStep ==
  ASSUME TypeOK, OneSlotPerClient, NEW c \in Clients, SendClientJoin(c) \/ SendGameMessage(c)
  PROVE  UNCHANGED Roster!vars
<1>1. UNCHANGED <<remote, slot, owner, active, wasted, score, admin>>
  BY DEF SendClientJoin, SendGameMessage, poolVars, playerVars
<1>2. phase \in [Clients -> {"offline", "connected", "joining", "ingame", "rejected"}]
  BY DEF TypeOK
<1>3. ASSUME NEW d \in Clients PROVE Asks(d)' <=> Asks(d)
  <2>1. CASE SendClientJoin(c)
    <3>1. PICK i \in Index, n \in Nicks \cup {BadNick} :
            Push([kind |-> "ClientJoin", from |-> c, idx |-> i, arg |-> n])
      BY <2>1 DEF SendClientJoin
    <3> DEFINE p == [kind |-> "ClientJoin", from |-> c, idx |-> i, arg |-> n]
    <3>2. p \in Packet /\ p.from = c /\ p.kind = "ClientJoin"
      BY DEF Packet, PacketKinds, Arguments
    <3>3. phase[c] = "connected" /\ phase' = [phase EXCEPT ![c] = "joining"]
      BY <2>1 DEF SendClientJoin
    <3> HIDE DEF p
    <3>4. CASE d = c
      <4>1. /\ Len(queue) + 1 \in 1 .. Len(queue')
            /\ queue'[Len(queue) + 1] = p
        BY <3>1, <3>2, PushFacts DEF p
      <4> QED
        BY <3>2, <3>3, <3>4, <4>1 DEF Asks
    <3>5. CASE d # c
      <4>1. Push(p) /\ p.from # d /\ (phase'[d] = "connected" <=> phase[d] = "connected")
        BY <1>2, <3>1, <3>2, <3>3, <3>5 DEF p
      <4> QED
        BY <3>2, <4>1, AsksAfterPush
    <3> QED
      BY <3>4, <3>5
  <2>2. CASE SendGameMessage(c)
    <3>1. PICK i \in Index, k \in GameKinds : \E a \in ArgumentsOf(k) :
            Push([kind |-> k, from |-> c, idx |-> i, arg |-> a])
      BY <2>2 DEF SendGameMessage
    <3>2. PICK a \in ArgumentsOf(k) : Push([kind |-> k, from |-> c, idx |-> i, arg |-> a])
      BY <3>1
    <3> DEFINE p == [kind |-> k, from |-> c, idx |-> i, arg |-> a]
    <3>3. k # "ClientJoin"
      BY ConstantsAssumption DEF GatedRPCs, SyncKinds
    <3>4. p \in Packet /\ p.kind # "ClientJoin"
      BY <3>3, ArgumentsType DEF Packet
    <3>5. phase' = phase
      BY <2>2 DEF SendGameMessage
    <3> QED
      BY <3>2, <3>4, <3>5, AsksAfterPush
  <2> QED
    BY <2>1, <2>2
<1>4. Online' = Online
  BY <1>1 DEF Online, Connected
<1> QED
  BY <1>1, <1>3, <1>4, KeepsItsSlot, NobodyChanges

-------------------------------------------------------------------------------
(* The main thread.                                                         *)

(* A packet is done with, and it is no ClientJoin of a client that is still   *)
(* out: nobody stops asking who does not play.                              *)
Consumed ==
  \/ queue' = queue
  \/ /\ main = "handle" /\ Return
     /\ Head(queue).kind # "ClientJoin" \/ \E i \in Index : Plays(Sender, i)

NobodyConnects == \A c \in Clients : phase'[c] = "connected" <=> phase[c] = "connected"

LEMMA AsksAfterConsumed ==
  ASSUME TypeOK, Consumed, NobodyConnects, NEW c \in Clients
  PROVE  (Asks(c)' <=> Asks(c)) \/ \E i \in Index : Plays(c, i)
<1>1. CASE queue' = queue
  BY <1>1 DEF Asks, NobodyConnects
<1>2. CASE main = "handle" /\ Return /\ (Head(queue).kind # "ClientJoin" \/ Sender # c)
  BY <1>2, AsksAfterReturn DEF NobodyConnects
<1>3. CASE Sender = c /\ \E i \in Index : Plays(Sender, i)
  BY <1>3
<1> QED
  BY <1>1, <1>2, <1>3 DEF Consumed

LEMMA OnlineStays ==
  ASSUME UNCHANGED remote
  PROVE  Online' = Online
BY DEF Online, Connected

LEMMA QuietStep ==
  ASSUME TypeOK, OneSlotPerClient, Consumed, NobodyConnects,
         UNCHANGED <<remote, slot, owner, active, wasted, score, admin>>
  PROVE  UNCHANGED Roster!vars
BY AsksAfterConsumed, OnlineStays, KeepsItsSlot, NobodyChanges

LEMMA RefusedStep ==
  ASSUME TypeOK, CoreInv, OneSlotPerClient, ClientJoinRefused
  PROVE  Roster!Next
<1>1. /\ main = "handle" /\ Head(queue).kind = "ClientJoin" /\ Return /\ ~Sending
      /\ UNCHANGED <<remote, slot, owner, active, wasted, score, admin>>
      /\ phase' = IF phase[Sender] = "joining" THEN [phase EXCEPT ![Sender] = "rejected"] ELSE phase
  BY DEF ClientJoinRefused, Handling, Reply, Done, poolVars, playerVars
<1>2. /\ Sender \in Clients /\ Head(queue) = queue[1] /\ 1 \in 1 .. Len(queue)
      /\ phase \in [Clients -> {"offline", "connected", "joining", "ingame", "rejected"}]
  BY <1>1, HandledType DEF TypeOK
<1>3. /\ phase[Sender] # "connected"
      /\ \A i \in Index : ~Plays(Sender, i)
      /\ \A l \in 1 .. Len(queue) : queue[l].kind = "ClientJoin" /\ queue[l].from = Sender => l = 1
  BY <1>1, <1>2 DEF CoreInv, OneJoinPerConnection, Sender, Plays, Joining, Sending
<1>4. ASSUME NEW d \in Clients \ {Sender} PROVE Unchanged(d)
  <2>1. Asks(d)' <=> Asks(d)
    BY <1>1, <1>2, AsksAfterReturn
  <2> QED
    BY <1>1, <2>1, KeepsItsSlot
<1>5. Asks(Sender)
  BY <1>1, <1>2 DEF Asks, Sender
<1>6. \A c : c = Sender => ~(phase'[c] = "connected" \/
                          \E k \in 1 .. Len(queue') : queue'[k].kind = "ClientJoin" /\ queue'[k].from = c)
  <2>1. phase'[Sender] # "connected"
    BY <1>1, <1>2, <1>3
  <2>2. \A k \in 1 .. Len(queue') : k + 1 \in 2 .. Len(queue) /\ queue'[k] = queue[k + 1]
    BY <1>1, ReturnFacts
  <2> QED
    BY <1>3, <2>1, <2>2
<1>7. PICK c \in Clients : c = Sender
  BY <1>2
<1>8. Asks(c) /\ ~Asks(c)' /\ \A i \in Index : ~Plays(c, i) /\ ~Plays(c, i)'
  BY <1>1, <1>3, <1>5, <1>6, <1>7 DEF Asks, Plays
<1>9. /\ StatusOf(c) = "asking" /\ StatusOf(c)' = "out"
      /\ PointsOf(c)' = PointsOf(c) /\ (IsAdmin(c)' <=> IsAdmin(c))
  BY <1>8, StandingOfOther, StandingOfOtherNext
<1> QED
  BY <1>1, <1>4, <1>7, <1>9, OnlineStays, RefuseStep

LEMMA JoinedOneSlot ==
  ASSUME TypeOK, CoreInv, OneSlotPerClient, ClientJoin
  PROVE  /\ OneSlotPerClient' /\ index \in Index /\ ~slot[index] /\ slot'[index] /\ owner'[index] = Sender
         /\ \A i \in Index : i # index => slot'[i] = slot[i] /\ owner'[i] = owner[i]
         /\ \A i \in Index : ~Plays(Sender, i)
<1>1. main = "handle" /\ Head(queue).kind = "ClientJoin" /\ index \in Index /\ ~Sending
  BY DEF ClientJoin, Handling
<1>2. Head(queue) = queue[1] /\ 1 \in 1 .. Len(queue)
  BY <1>1, HandledType
<1>3. \A i \in Index : ~Plays(Sender, i)
  BY <1>1, <1>2 DEF CoreInv, OneJoinPerConnection, Sender, Plays, Joining, Sending
<1>4. ~slot[index]
  BY <1>1, JoinSlotFree DEF NoOverwrite, Handling, GetSlotState
<1>5. /\ slot'[index] /\ owner'[index] = Sender
      /\ \A i \in Index : i # index => slot'[i] = slot[i] /\ owner'[i] = owner[i]
  BY <1>1 DEF ClientJoin, New, TypeOK
<1>6. OneSlotPerClient'
  BY <1>3, <1>5 DEF OneSlotPerClient, Plays
<1> QED
  BY <1>1, <1>3, <1>4, <1>5, <1>6

LEMMA JoinedStep ==
  ASSUME TypeOK, CoreInv, OneSlotPerClient, ClientJoin
  PROVE  Roster!Next
<1>1. /\ main = "handle" /\ Head(queue).kind = "ClientJoin"
      /\ UNCHANGED <<remote, queue, phase>>
  BY DEF ClientJoin, Handling, Stay
<1>2. /\ Sender \in Clients /\ Head(queue) = queue[1] /\ 1 \in 1 .. Len(queue)
      /\ phase \in [Clients -> {"offline", "connected", "joining", "ingame", "rejected"}]
  BY <1>1, HandledType DEF TypeOK
<1>3. PICK c \in Clients, s \in Index : c = Sender /\ s = index
  BY <1>2, JoinedOneSlot
<1>4. /\ OneSlotPerClient' /\ ~slot[s] /\ Plays(c, s)'
      /\ \A i \in Index : i # s => slot'[i] = slot[i] /\ owner'[i] = owner[i]
      /\ \A i \in Index : ~Plays(c, i)
  BY <1>3, JoinedOneSlot DEF Plays
<1>5. /\ ~active'[s] /\ ~wasted'[s] /\ score'[s] = 0 /\ ~admin'[s]
      /\ \A i \in Index : i # s =>
           /\ active'[i] = active[i] /\ wasted'[i] = wasted[i]
           /\ score'[i] = score[i] /\ admin'[i] = admin[i]
  BY <1>3 DEF ClientJoin, New, AdminOfNewcomer, TypeOK
<1>6. ASSUME NEW d \in Clients \ {c} PROVE Unchanged(d)
  <2>1. Asks(d)' <=> Asks(d)
    BY <1>1 DEF Asks
  <2>2. \A i \in Index : Plays(d, i)' <=> Plays(d, i)
    BY <1>4 DEF Plays
  <2>3. \A i \in Index : Plays(d, i) => i # s
    BY <1>4 DEF Plays
  <2> QED
    BY <1>4, <1>5, <2>1, <2>2, <2>3, StaysWhereItStood
<1>7. Asks(c)
  BY <1>1, <1>2, <1>3 DEF Asks, Sender
<1>8. StatusOf(c) = "asking" /\ PointsOf(c) = 0 /\ ~IsAdmin(c)
  BY <1>4, <1>7, StandingOfOther
<1>9. StatusOf(c)' = "lobby" /\ PointsOf(c)' = 0 /\ ~IsAdmin(c)'
  BY <1>4, <1>5, StandingOfPlayerNext
<1> QED
  BY <1>1, <1>6, <1>8, <1>9, OnlineStays, JoinStep

LEMMA InSlot ==
  ASSUME CoreInv, OneSlotPerClient, NEW i \in Index, slot[i]
  PROVE  /\ owner[i] \in Clients /\ Plays(owner[i], i)
         /\ StatusOf(owner[i]) \in {"lobby", "alive", "dead"}
         /\ \A j \in Index : Plays(owner[i], j) <=> j = i
<1>1. owner[i] \in Clients /\ Plays(owner[i], i)
  BY DEF CoreInv, SlotsOwned, Plays
<1>2. StatusOf(owner[i]) \in {"lobby", "alive", "dead"}
  BY <1>1, StandingOfPlayer
<1>3. \A j \in Index : Plays(owner[i], j) <=> j = i
  BY DEF OneSlotPerClient, Plays
<1> QED
  BY <1>1, <1>2, <1>3

LEMMA FewerSlots ==
  ASSUME OneSlotPerClient, \A i \in Index : slot'[i] => slot[i] /\ owner'[i] = owner[i]
  PROVE  OneSlotPerClient'
BY DEF OneSlotPerClient

(* What the handler of a gated message knows.                               *)
LEMMA GatedFacts ==
  ASSUME TypeOK, NEW k \in GatedRPCs, Gated(k)
  PROVE  /\ main = "handle" /\ Head(queue).kind # "ClientJoin" /\ ~Sending
         /\ index \in Index /\ slot[index]
BY DEF Gated, Handling, GetSlotState, GatedRPCs

LEMMA SpawnedStep ==
  ASSUME TypeOK, CoreInv, OneSlotPerClient, SpawnAnnounced
  PROVE  [Roster!Next]_Roster!vars
<1>1. /\ main = "handle" /\ Return /\ Head(queue).kind # "ClientJoin"
      /\ index \in Index /\ slot[index]
      /\ UNCHANGED <<remote, phase, slot, owner, score, admin>>
  <2>1. cast.rpc = "Spawn" /\ Return /\ UNCHANGED <<remote, phase, slot, owner, score, admin>>
    BY DEF SpawnAnnounced, Announced, poolVars
  <2> QED
    BY <2>1, CastType DEF CoreInv, CastOfHandler, Sending
<1>2. Consumed /\ NobodyConnects
  BY <1>1 DEF Consumed, NobodyConnects
<1>3. active' = [active EXCEPT ![index] = TRUE] /\ wasted' = [wasted EXCEPT ![index] = FALSE]
  BY DEF SpawnAnnounced
<1> QED
  <2>1. PICK c \in Clients, s \in Index : c = owner[index] /\ s = index
    BY <1>1, InSlot
  <2>2. Plays(c, s) /\ StatusOf(c) \in {"lobby", "alive", "dead"} /\ \A j \in Index : Plays(c, j) <=> j = s
    BY <1>1, <2>1, InSlot
  <2>3. /\ active'[s] /\ \A i \in Index : i # s => active'[i] = active[i] /\ wasted'[i] = wasted[i]
    BY <1>3, <2>1 DEF TypeOK
  <2>4. /\ OneSlotPerClient'
        /\ \A d, i : Plays(d, i)' <=> Plays(d, i)
    BY <1>1 DEF OneSlotPerClient, Plays
  <2>5. ASSUME NEW d \in Clients \ {c} PROVE Unchanged(d)
    <3>1. (Asks(d)' <=> Asks(d)) \/ \E i \in Index : Plays(d, i)
      BY <1>2, AsksAfterConsumed
    <3>2. \A i \in Index : Plays(d, i) => i # s
      BY <2>2 DEF Plays
    <3> QED
      BY <1>1, <2>3, <2>4, <3>1, <3>2, StaysWhereItStood
  <2>6. StatusOf(c)' = "alive" /\ PointsOf(c)' = PointsOf(c) /\ (IsAdmin(c)' <=> IsAdmin(c))
    BY <1>1, <2>2, <2>3, <2>4, StandingOfPlayer, StandingOfPlayerNext
  <2> QED
    BY <1>1, <2>2, <2>5, <2>6, OnlineStays, SpawnStep

LEMMA AuthenticatedStep ==
  ASSUME TypeOK, CoreInv, OneSlotPerClient, Admin
  PROVE  [Roster!Next]_Roster!vars
<1>1. /\ main = "handle" /\ Return /\ Head(queue).kind # "ClientJoin"
      /\ index \in Index /\ slot[index]
      /\ UNCHANGED <<remote, phase, slot, owner, score, active, wasted>>
  BY GatedFacts DEF Admin, Done, playerVars, GatedRPCs
<1>2. Consumed /\ NobodyConnects
  BY <1>1 DEF Consumed, NobodyConnects
<1>3. CASE UNCHANGED admin
  BY <1>1, <1>2, <1>3, QuietStep
<1>4. CASE admin' = [admin EXCEPT ![index] = TRUE]
  <2>1. PICK c \in Clients, s \in Index : c = owner[index] /\ s = index
    BY <1>1, InSlot
  <2>2. Plays(c, s) /\ StatusOf(c) \in {"lobby", "alive", "dead"} /\ \A j \in Index : Plays(c, j) <=> j = s
    BY <1>1, <2>1, InSlot
  <2>3. /\ admin'[s] /\ \A i \in Index : i # s => admin'[i] = admin[i]
    BY <1>4, <2>1 DEF TypeOK
  <2>4. /\ OneSlotPerClient'
        /\ \A d, i : Plays(d, i)' <=> Plays(d, i)
    BY <1>1 DEF OneSlotPerClient, Plays
  <2>5. ASSUME NEW d \in Clients \ {c} PROVE Unchanged(d)
    <3>1. (Asks(d)' <=> Asks(d)) \/ \E i \in Index : Plays(d, i)
      BY <1>2, AsksAfterConsumed
    <3>2. \A i \in Index : Plays(d, i) => i # s
      BY <2>2 DEF Plays
    <3> QED
      BY <1>1, <2>3, <2>4, <3>1, <3>2, StaysWhereItStood
  <2>6. StatusOf(c)' = StatusOf(c) /\ PointsOf(c)' = PointsOf(c) /\ IsAdmin(c)'
    BY <1>1, <2>2, <2>3, <2>4, StandingOfPlayer, StandingOfPlayerNext
  <2> QED
    BY <1>1, <2>2, <2>5, <2>6, OnlineStays, AuthenticateStep
<1> QED
  BY <1>3, <1>4 DEF Admin

LEMMA RemovedStep ==
  ASSUME TypeOK, CoreInv, OneSlotPerClient, NEW s \in Index, slot[s], Delete(s), ~Sending,
         UNCHANGED <<remote, queue, phase>>,
         owner[s] \notin Online \/ Admins # {} \/ ConsoleKicks
  PROVE  Roster!Next
<1>1. PICK c \in Clients : c = owner[s]
  BY InSlot
<1>2. /\ Plays(c, s) /\ StatusOf(c) \in {"lobby", "alive", "dead"} /\ ~Asks(c)
      /\ \A j \in Index : Plays(c, j) <=> j = s
  BY <1>1, InSlot, PlayersDoNotAsk
<1>3. /\ ~slot'[s]
      /\ \A i \in Index : i # s => slot'[i] = slot[i] /\ owner'[i] = owner[i]
      /\ admin' = admin
  BY DeleteEmpties
<1>4. /\ \A i \in Index : i # s => active'[i] = active[i] /\ wasted'[i] = wasted[i]
      /\ score' = score
  BY DEF Delete, TypeOK
<1>5. OneSlotPerClient'
  BY <1>3, FewerSlots
<1>6. \A d \in Clients : Asks(d)' <=> Asks(d)
  BY DEF Asks
<1>7. ASSUME NEW d \in Clients \ {c} PROVE Unchanged(d)
  <2>1. \A i \in Index : Plays(d, i)' <=> Plays(d, i)
    BY <1>1, <1>3 DEF Plays
  <2>2. \A i \in Index : Plays(d, i) => i # s
    BY <1>1 DEF Plays
  <2> QED
    BY <1>3, <1>4, <1>5, <1>6, <2>1, <2>2, StaysWhereItStood
<1>8. \A i \in Index : ~Plays(c, i)'
  BY <1>2, <1>3 DEF Plays
<1>9. StatusOf(c)' = "out" /\ PointsOf(c)' = 0 /\ ~IsAdmin(c)'
  BY <1>2, <1>6, <1>8, StandingOfOtherNext
<1> QED
  BY <1>1, <1>2, <1>7, <1>9, OnlineStays, LeaveStep

LEMMA DiedStep ==
  ASSUME TypeOK, CoreInv, OneSlotPerClient, Death
  PROVE  Roster!Next
<1>1. /\ queue' = queue
      /\ index \in Index /\ slot[index]
      /\ UNCHANGED <<remote, phase, slot, owner, admin>>
      /\ AddResponsibleDeath(Arg, index)
  BY GatedFacts DEF Death, Stay, GatedRPCs
<1>2. \A d \in Clients : Asks(d)' <=> Asks(d)
  BY <1>1 DEF Asks
<1>3. PICK c \in Clients, s \in Index : c = owner[index] /\ s = index
  BY <1>1, InSlot
<1>4. Plays(c, s) /\ StatusOf(c) \in {"lobby", "alive", "dead"} /\ \A j \in Index : Plays(c, j) <=> j = s
  BY <1>1, <1>3, InSlot
<1>5. /\ ~active'[s] /\ wasted'[s]
      /\ \A i \in Index : i # s => active'[i] = active[i] /\ wasted'[i] = wasted[i]
  BY <1>3 DEF Death, TypeOK
<1>6. /\ OneSlotPerClient'
      /\ \A d, i : Plays(d, i)' <=> Plays(d, i)
  BY <1>1 DEF OneSlotPerClient, Plays
<1>7. ASSUME NEW d \in Clients, NEW i \in Index, Plays(d, i)
      PROVE  /\ StatusOf(d)' = IF d = c THEN "dead" ELSE StatusOf(d)
             /\ IsAdmin(d)' <=> IsAdmin(d)
             /\ PointsOf(d) = score[i] /\ PointsOf(d)' = score'[i]
  <2>1. d = c <=> i = s
    BY <1>4, <1>7 DEF Plays
  <2> QED
    BY <1>1, <1>5, <1>6, <1>7, <2>1, StandingOfPlayer, StandingOfPlayerNext
<1>8. ASSUME NEW d \in Clients, \A i \in Index : ~Plays(d, i)
      PROVE  Unchanged(d) /\ d # c
  BY <1>2, <1>4, <1>6, <1>8, StaysWhereItStood
<1>9. \A d \in Clients : /\ StatusOf(d)' = IF d = c THEN "dead" ELSE StatusOf(d)
                         /\ IsAdmin(d)' <=> IsAdmin(d)
  BY <1>7, <1>8 DEF Unchanged
<1>10. Status' = [Status EXCEPT ![c] = "dead"] /\ Admins' = Admins
  BY <1>9 DEF Status, Admins
<1>11. CASE UNCHANGED score
  <2>1. \A d \in Clients : PointsOf(d)' = PointsOf(d)
    BY <1>7, <1>8, <1>11 DEF Unchanged
  <2>2. Points' = Points
    BY <2>1 DEF Points
  <2> QED
    BY <1>1, <1>4, <1>10, <2>2, OnlineStays, DieStep
<1>12. CASE \E killer \in Index, d \in {-1, 1} :
              slot[killer] /\ score' = [score EXCEPT ![killer] = @ + d]
  <2>1. PICK killer \in Index, d \in {-1, 1} :
              slot[killer] /\ score' = [score EXCEPT ![killer] = @ + d]
    BY <1>12
  <2>2. PICK k \in Clients : k = owner[killer]
    BY <2>1, InSlot
  <2>3. /\ Plays(k, killer) /\ StatusOf(k) \in {"lobby", "alive", "dead"}
        /\ \A j \in Index : Plays(k, j) <=> j = killer
    BY <2>1, <2>2, InSlot
  <2>4. /\ score'[killer] = score[killer] + d
        /\ \A i \in Index : i # killer => score'[i] = score[i]
    BY <2>1 DEF TypeOK
  <2>5. PointsOf(k)' = PointsOf(k) + d
    BY <1>7, <2>3, <2>4
  <2>6. ASSUME NEW e \in Clients \ {k} PROVE PointsOf(e)' = PointsOf(e)
    <3>1. ASSUME NEW i \in Index, Plays(e, i) PROVE i # killer
      BY <2>2, <3>1 DEF Plays
    <3> QED
      BY <1>7, <1>8, <2>4, <3>1 DEF Unchanged
  <2>7. Points' = [Points EXCEPT ![k] = @ + d]
    BY <2>5, <2>6 DEF Points
  <2> QED
    BY <1>1, <1>4, <1>10, <2>3, <2>7, OnlineStays, DieStep
<1>13. UNCHANGED score \/ \E killer \in Index, d \in {-1, 1} :
              slot[killer] /\ score' = [score EXCEPT ![killer] = @ + d]
  BY <1>1 DEF AddResponsibleDeath, GetSlotState, ScoreChange
<1> QED
  BY <1>11, <1>12, <1>13

LEMMA KickedStep ==
  ASSUME TypeOK, CoreInv, OneSlotPerClient, KickPlayer
  PROVE  [Roster!Next]_Roster!vars
<1>1. /\ main = "handle" /\ Head(queue).kind # "ClientJoin" /\ ~Sending
      /\ index \in Index /\ slot[index] /\ UNCHANGED <<remote, phase>>
  BY GatedFacts DEF KickPlayer, GatedRPCs
<1>2. CASE admin[index] /\ GetSlotState(Arg) /\ Delete(Arg) /\ Stay
  <2>1. IsAdmin(owner[index]) /\ owner[index] \in Clients
    BY <1>1, <1>2, InSlot DEF IsAdmin
  <2>2. Admins # {}
    BY <2>1 DEF Admins
  <2>3. Arg \in Index /\ slot[Arg] /\ queue' = queue
    BY <1>2 DEF GetSlotState, Stay
  <2> QED
    BY <1>1, <1>2, <2>2, <2>3, RemovedStep
<1>3. CASE Done /\ UNCHANGED <<poolVars, playerVars>>
  <2>1. Consumed /\ NobodyConnects
    BY <1>1, <1>3 DEF Consumed, NobodyConnects, Done
  <2> QED
    BY <1>1, <1>3, <2>1, QuietStep DEF poolVars, playerVars
<1> QED
  BY <1>2, <1>3 DEF KickPlayer

(* The player that the loss of a connection removes is the one of that      *)
(* connection, which is gone.                                               *)
LEMMA ClosedStep ==
  ASSUME TypeOK, CoreInv, SessionInv, OneSlotPerClient, ConnectionClosed
  PROVE  [Roster!Next]_Roster!vars
<1>1. /\ main = "handle" /\ Head(queue).kind = "ConnectionClosed" /\ ~Sending
      /\ UNCHANGED <<remote, phase>>
  BY DEF ConnectionClosed, Handling
<1>2. CASE GetSlotState(index) /\ Delete(index) /\ Stay
  <2>1. index \in Index /\ slot[index] /\ queue' = queue
    BY <1>2 DEF GetSlotState, Stay
  <2>2. Head(queue) = queue[1] /\ 1 \in 1 .. Len(queue) /\ index = queue[1].idx
    BY <1>1, HandledType DEF CoreInv, IndexOfPacket, IndexedKinds
  <2>3. owner[index] = queue[1].from
    BY <2>1, <2>2 DEF SessionInv, OwnerSpeaks
  <2>4. owner[index] \notin Online
    BY <1>1, <2>2, <2>3 DEF CoreInv, ClosedIsGone, Online
  <2> QED
    BY <1>1, <1>2, <2>1, <2>4, RemovedStep
<1>3. CASE Done /\ UNCHANGED <<poolVars, playerVars>>
  <2>1. Consumed /\ NobodyConnects
    BY <1>1, <1>3 DEF Consumed, NobodyConnects, Done
  <2> QED
    BY <1>1, <1>3, <2>1, QuietStep DEF poolVars, playerVars
<1> QED
  BY <1>2, <1>3 DEF ConnectionClosed

(* The loop of a broadcast and the list of a join are nothing to the roster, *)
(* nor is the end of a handler whose ClientJoin has become a player.        *)
LEMMA ToldStep ==
  ASSUME TypeOK, CoreInv, OneSlotPerClient,
         SendToEntry \/ JoinAnnounced \/ SpawnForPlayer \/ EndAnnounced
  PROVE  UNCHANGED Roster!vars
<1>1. UNCHANGED <<remote, slot, owner, active, wasted, score, admin>>
  BY DEF SendToEntry, JoinAnnounced, SpawnForPlayer, EndAnnounced, poolVars, playerVars
<1>2. NobodyConnects
  <2>1. phase' = phase \/ Reply(Sender, "ingame")
    BY DEF SendToEntry, JoinAnnounced, SpawnForPlayer, EndAnnounced
  <2> QED
    BY <2>1 DEF NobodyConnects, Reply, TypeOK
<1>3. CASE SendToEntry \/ (EndAnnounced /\ main = "rcon")
  <2>1. queue' = queue
    BY <1>3 DEF SendToEntry, EndAnnounced, Stay
  <2> QED
    BY <1>1, <1>2, <2>1, QuietStep DEF Consumed
<1>4. CASE JoinAnnounced \/ SpawnForPlayer
  <2>1. cast.rpc \in {"ServerJoin", "List"} /\ (queue' = queue \/ Return)
    BY <1>4 DEF JoinAnnounced, SpawnForPlayer, Announced, ListFrom, Stay
  <2>2. main = "handle" /\ cast.idx \in Index /\ Plays(Sender, cast.idx)
    BY <2>1, CastType DEF CoreInv, CastOfHandler, Sending, Plays
  <2>3. Consumed
    BY <2>1, <2>2 DEF Consumed
  <2> QED
    BY <1>1, <1>2, <2>3, QuietStep
<1>5. CASE EndAnnounced /\ main # "rcon"
  <2>1. cast.rpc \in {"Death", "ServerQuit"} /\ Return
    BY <1>5 DEF EndAnnounced, Announced
  <2>2. main = "handle" /\ Head(queue).kind # "ClientJoin"
    BY <1>5, <2>1 DEF CoreInv, CastOfHandler, Sending
  <2> QED
    BY <1>1, <1>2, <2>1, <2>2, QuietStep DEF Consumed
<1> QED
  BY <1>3, <1>4, <1>5

LEMMA RosterStep ==
  ASSUME TypeOK, CoreInv, SessionInv, OneSlotPerClient, [Next]_vars
  PROVE  [Roster!Next]_Roster!vars
<1>1. CASE \E c \in Clients : Network(c)
  BY <1>1, ConnectStep, SendStep, DisconnectStep DEF Network
<1>2. CASE Receive \/ ProcessPlayers \/ RconDone \/ UNCHANGED vars
  <2>1. /\ queue' = queue
        /\ UNCHANGED <<remote, phase, slot, owner, active, wasted, score, admin>>
    BY <1>2 DEF Receive, ProcessPlayers, RconDone, vars, netVars, poolVars, playerVars
  <2> QED
    BY <2>1, QuietStep DEF Consumed, NobodyConnects
<1>3. CASE RconKick
  <2>1. PICK s \in Index : slot[s] /\ Delete(s)
    BY <1>3 DEF RconKick
  <2>2. UNCHANGED <<remote, queue, phase>> /\ ConsoleKicks /\ ~Sending
    BY <1>3 DEF RconKick, Stay
  <2> QED
    BY <2>1, <2>2, RemovedStep
<1>4. CASE \/ ClientJoinBadIndex \/ (Chat /\ ~Done) \/ (PassengerSync /\ ~Done)
           \/ (Spawn /\ ~Done)
  <2>1. /\ queue' = queue
        /\ UNCHANGED <<remote, phase, slot, owner, active, wasted, score, admin>>
    BY <1>4 DEF ClientJoinBadIndex, Chat, PassengerSync, Spawn, Fail, Stay, poolVars, playerVars
  <2> QED
    BY <2>1, QuietStep DEF Consumed, NobodyConnects
<1>5. CASE \/ IgnoreMessage \/ RequestClass \/ (Chat /\ Done)
           \/ PlayerSync \/ VehicleSync \/ (PassengerSync /\ Done) \/ (Spawn /\ Done)
  <2>1. \/ IgnoreMessage /\ \E k \in GatedRPCs : Handling(k)
        \/ RequestClass /\ Handling("RequestClass")
        \/ Chat /\ Done /\ Handling("Chat")
        \/ PlayerSync /\ Handling("PlayerSync")
        \/ VehicleSync /\ Handling("VehicleSync")
        \/ PassengerSync /\ Done /\ Handling("PassengerSync")
        \/ Spawn /\ Done /\ Handling("Spawn")
    BY <1>5 DEF IgnoreMessage, RequestClass, Spawn, Chat, PlayerSync, VehicleSync, PassengerSync,
                StoreSync, Gated
  <2>2. main = "handle" /\ Head(queue).kind # "ClientJoin"
    BY <2>1 DEF Handling, GatedRPCs
  <2>3. Done /\ UNCHANGED <<remote, phase, slot, owner, active, wasted, score, admin>>
    BY <1>5 DEF IgnoreMessage, RequestClass, Spawn, Chat, PlayerSync, VehicleSync, PassengerSync,
                StoreSync, poolVars, playerVars
  <2>4. Return
    BY <2>3 DEF Done
  <2> QED
    BY <2>2, <2>3, <2>4, QuietStep DEF Consumed, NobodyConnects
<1>6. CASE ClientJoinRefused \/ ClientJoin
  BY <1>6, RefusedStep, JoinedStep
<1>7. CASE Death \/ Admin \/ KickPlayer \/ ConnectionClosed
  BY <1>7, DiedStep, AuthenticatedStep, KickedStep, ClosedStep
<1>8. CASE Send
  BY <1>8, SpawnedStep, ToldStep DEF Send
<1> QED
  BY <1>1, <1>2, <1>3, <1>4, <1>5, <1>6, <1>7, <1>8 DEF Next, MainThread, Handle

LEMMA OneSlotKept ==
  ASSUME TypeOK, CoreInv, OneSlotPerClient, [Next]_vars
  PROVE  OneSlotPerClient'
<1>1. CASE ClientJoin
  BY <1>1, JoinedOneSlot
<1>2. CASE KickPlayer \/ ConnectionClosed \/ RconKick
  <2>1. UNCHANGED <<slot, owner>> \/ \E i \in Index : Delete(i)
    BY <1>2 DEF KickPlayer, ConnectionClosed, RconKick, GetSlotState, poolVars
  <2>2. \A i \in Index : slot'[i] => slot[i] /\ owner'[i] = owner[i]
    <3>1. CASE UNCHANGED <<slot, owner>>
      BY <3>1
    <3>2. CASE \E i \in Index : Delete(i)
      BY <3>2, DeleteEmpties
    <3> QED
      BY <2>1, <3>1, <3>2
  <2> QED
    BY <2>2, FewerSlots
<1>3. CASE \E c \in Clients : Network(c)
  <2>1. UNCHANGED <<slot, owner>>
    BY <1>3 DEF Network, Connect, SendClientJoin, SendGameMessage, Disconnect, poolVars
  <2> QED
    BY <2>1, FewerSlots
<1>4. CASE \/ Receive \/ ProcessPlayers \/ RconDone \/ ClientJoinRefused \/ ClientJoinBadIndex
           \/ IgnoreMessage \/ RequestClass \/ Spawn \/ Death \/ Chat \/ Admin
           \/ PlayerSync \/ VehicleSync \/ PassengerSync \/ Send \/ UNCHANGED vars
  <2>1. UNCHANGED <<slot, owner>>
    BY <1>4 DEF Receive, ProcessPlayers, RconDone, ClientJoinRefused, ClientJoinBadIndex,
                IgnoreMessage, RequestClass, Spawn, Death, Chat, Admin, PlayerSync,
                VehicleSync, PassengerSync, StoreSync, poolVars, vars, Send, SendToEntry,
                JoinAnnounced, SpawnForPlayer, SpawnAnnounced, EndAnnounced
  <2> QED
    BY <2>1, FewerSlots
<1> QED
  BY <1>1, <1>2, <1>3, <1>4 DEF Next, MainThread, Handle

LEMMA RosterInit == Init => Roster!Init
<1> SUFFICES ASSUME Init PROVE Roster!Init
  OBVIOUS
<1>1. \A c \in Clients : ~Connected(c)
  BY ConstantsAssumption DEF Init, Connected
<1>2. \A c \in Clients : ~Asks(c) /\ \A i \in Index : ~Plays(c, i)
  BY DEF Init, Asks, Plays
<1>3. \A c \in Clients : StatusOf(c) = "out" /\ PointsOf(c) = 0 /\ ~IsAdmin(c)
  BY <1>2, StandingOfOther
<1> QED
  BY <1>1, <1>3 DEF Roster!Init, IsAdmin

(* The server implements PlayerRoster: whatever messages, losses and console *)
(* commands interleave, every step of CNetGame::Process and of RakNet's      *)
(* thread is for the players one step of the roster, or none.                *)
THEOREM ServerIsRoster == Spec => ImplementsRoster
<1>1. Init => OneSlotPerClient
  BY DEF Init, OneSlotPerClient
<1>2. TypeOK /\ TableInv /\ OneSlotPerClient /\ [Next]_vars => OneSlotPerClient'
  BY OneSlotKept DEF TableInv, CoreInv
<1>3. TypeOK /\ TableInv /\ SessionInv /\ OneSlotPerClient /\ [Next]_vars
        => [Roster!Next]_Roster!vars
  BY RosterStep DEF TableInv, CoreInv
<1> QED
  BY <1>1, <1>2, <1>3, RosterInit, TypeCorrect, TableCorrect, SessionsCorrect, PTL
     DEF Spec, ImplementsRoster, Roster!Spec
===============================================================================
