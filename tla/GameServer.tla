------------------------------ MODULE GameServer ------------------------------
(***************************************************************************)
(* The game server: the thread of RakNet that owns the table of connections *)
(* and fills the queue of incoming packets, and the main thread that drains *)
(* that queue (CNetGame::Process), keeps the pool of players (CPlayerPool), *)
(* the state of each player (CPlayer) and tells the clients what changed.   *)
(*                                                                         *)
(* The threads share remoteSystemList and incomingPacketQueue.  A handler   *)
(* reads the table without a lock, and connections come and go in between:  *)
(* Receive takes a packet and turns its sender into an index; the handler   *)
(* changes the pool and reads whom its broadcast leaves out; the loop of    *)
(* RakPeer::Send then looks at one entry of the table after the other.      *)
(***************************************************************************)
EXTENDS Integers, Sequences, FiniteSets

CONSTANTS
  Clients,      \* addresses a client can connect from (PlayerID)
  None,         \* UNASSIGNED_PLAYER_ID
  MaxPlayers,   \* the number of connections the server was started with
  Nicks,        \* nicknames the server accepts
  BadNick,      \* a ClientJoin it must refuse: wrong version or bad nickname
  NumClasses,   \* m_iSpawnsAvailable
  TeamOf,       \* the team of each class of the configuration
  GameKinds,    \* the game messages the clients of an instance send
  ConsoleKicks, \* whether the remote console kicks players in an instance
  QueueBound,   \* bound on the length of incomingPacketQueue
  ScoreBound    \* a client reports no death while a score is beyond this bound

INVALID_PLAYER_ID == 255
NoTeam == 255
NoInfo == -1     \* m_bHasSpawnInfo is false
Garbage == -2    \* m_bHasSpawnInfo was never written and reads as true

Index == 0 .. MaxPlayers - 1
Classes == 0 .. NumClasses - 1
Teams == {TeamOf[c] : c \in Classes} \cup {NoTeam}
SpawnInfo == {NoInfo, Garbage} \cup Classes

(* Remote procedure calls whose handler returns early when the sender has  *)
(* no slot in the pool, and packets that carry the index their sender had   *)
(* when they were queued.                                                   *)
GatedRPCs == {"RequestClass", "Spawn", "Death", "Chat", "Admin", "KickPlayer"}
SyncKinds == {"PlayerSync", "VehicleSync", "PassengerSync"}
IndexedKinds == SyncKinds \cup {"ConnectionClosed"}
PacketKinds == {"ClientJoin"} \cup GatedRPCs \cup IndexedKinds
Arguments == Nicks \cup {BadNick} \cup (0 .. 255)

ASSUME ConstantsAssumption ==
  /\ None \notin Clients
  /\ MaxPlayers \in 1 .. 32
  /\ NumClasses \in 1 .. 255
  /\ TeamOf \in [Classes -> 0 .. 255]
  /\ BadNick \notin Nicks
  /\ GameKinds \subseteq GatedRPCs \cup SyncKinds
  /\ ConsoleKicks \in BOOLEAN
  /\ QueueBound \in Nat \ {0}
  /\ ScoreBound \in Nat

VARIABLES
  remote,   \* remoteSystemList[i].playerId
  queue,    \* incomingPacketQueue, the packet being handled at its head
  phase,    \* how far each client is with its connection
  slot,     \* m_bPlayerSlotState (m_pPlayers[i] is set exactly when it is true)
  owner,    \* history: the client whose ClientJoin filled the slot
  name,     \* m_szPlayerName
  score,    \* m_iPlayerScore
  admin,    \* m_bIsAnAdmin
  active,   \* m_bIsActive
  wasted,   \* m_bIsWasted
  update,   \* m_byteUpdateFromNetwork
  info,     \* m_bHasSpawnInfo and the class m_SpawnInfo was copied from
  main,     \* where the main thread is in its loop, or what it failed at
  index,    \* bytePlayerID of the handler that runs
  cast,     \* the loop that sends what the handler tells, if one is under way
  known,    \* history: the ids each client was told of and not told to forget
  shown,    \* history: of which it was told that they are spawned and alive
  authed    \* history: the clients that gave the admin password

netVars == <<remote, queue, phase>>
poolVars == <<slot, owner, name, score, admin>>
playerVars == <<active, wasted, update, info>>
mainVars == <<main, index, cast>>
viewVars == <<known, shown>>
vars == <<remote, queue, phase, slot, owner, name, score, admin, active, wasted,
          update, info, main, index, cast, known, shown, authed>>

(* The undefined behaviours: arrays written at index 255, the name of       *)
(* player 255 read, a CPlayer used that is not there.                       *)
Faults == {"bad_index", "bad_name", "null_player"}
Running == main \notin Faults

(* The messages that are broadcast of a player, and the Spawn messages that  *)
(* list the players for a newcomer.                                         *)
Broadcasts == {"ServerJoin", "ServerQuit", "Spawn", "Death"}
Casts == [rpc : Broadcasts \cup {"List", "none"}, idx : Index,
          except : Clients \cup {None}, next : Index]
Silence == [rpc |-> "none", idx |-> 0, except |-> None, next |-> 0]
Sending == cast.rpc # "none"

Packet == [kind : PacketKinds, from : Clients, idx : Index, arg : Arguments]

TypeOK ==
  /\ remote \in [Index -> Clients \cup {None}]
  /\ queue \in Seq(Packet)
  /\ phase \in [Clients -> {"offline", "connected", "joining", "ingame", "rejected"}]
  /\ slot \in [Index -> BOOLEAN]
  /\ owner \in [Index -> Clients \cup {None}]
  /\ name \in [Index -> Nicks \cup {BadNick}]
  /\ score \in [Index -> Int]
  /\ admin \in [Index -> BOOLEAN]
  /\ active \in [Index -> BOOLEAN]
  /\ wasted \in [Index -> BOOLEAN]
  /\ update \in [Index -> {"none", "onfoot", "incar"}]
  /\ info \in [Index -> SpawnInfo]
  /\ main \in {"receive", "handle", "rcon"} \cup Faults
  /\ main = "handle" => queue # <<>>
  /\ index \in Index \cup {INVALID_PLAYER_ID}
  /\ cast \in Casts
  /\ known \in [Clients -> SUBSET Index]
  /\ shown \in [Clients -> SUBSET Index]
  /\ authed \in SUBSET Clients

Init ==
  /\ remote = [i \in Index |-> None]
  /\ queue = <<>>
  /\ phase = [c \in Clients |-> "offline"]
  /\ slot = [i \in Index |-> FALSE]
  /\ owner = [i \in Index |-> None]
  /\ name = [i \in Index |-> BadNick]
  /\ score = [i \in Index |-> 0]
  /\ admin = [i \in Index |-> FALSE]
  /\ active = [i \in Index |-> FALSE]
  /\ wasted = [i \in Index |-> FALSE]
  /\ update = [i \in Index |-> "none"]
  /\ info = [i \in Index |-> NoInfo]
  /\ main = "receive"
  /\ index = INVALID_PLAYER_ID
  /\ cast = Silence
  /\ known = [c \in Clients |-> {}]
  /\ shown = [c \in Clients |-> {}]
  /\ authed = {}

-------------------------------------------------------------------------------
(* The table of connections and the pool, as the handlers read them.       *)

Connected(c) == \E i \in Index : remote[i] = c

(* RakPeer::GetIndexFromPlayerID, cast to a BYTE by every handler: the -1  *)
(* of an address that is no longer in the table becomes 255.               *)
GetIndexFromPlayerID_Int(c) ==
  IF Connected(c) THEN CHOOSE i \in Index : remote[i] = c ELSE -1
GetIndexFromPlayerID(c) ==
  IF Connected(c) THEN CHOOSE i \in Index : remote[i] = c ELSE INVALID_PLAYER_ID

GetPlayerIDFromIndex(i) == IF i \in Index THEN remote[i] ELSE None

GetSlotState(i) == i \in Index /\ slot[i]

IsNickInUse_Never(n) == FALSE
IsNickInUse(n) == \E i \in Index : slot[i] /\ name[i] = n

-------------------------------------------------------------------------------
(* The thread of RakNet and the clients behind it.                         *)

Push_Front(p) == queue' = <<p>> \o queue
Push(p) == queue' = Append(queue, p)

FirstFree(i) == remote[i] = None /\ \A j \in Index : j < i => remote[j] # None

(* HandleConnectionRequest gives an address the first free entry.  The      *)
(* main loop drains the queue every few milliseconds, a new connection of   *)
(* the same address takes several round trips: it is taken to come when     *)
(* everything the address sent before has been handled.                     *)
Connect(c) ==
  /\ Running
  /\ phase[c] = "offline"
  /\ \A k \in 1 .. Len(queue) : queue[k].from # c
  /\ \E i \in Index : FirstFree(i) /\ remote' = [remote EXCEPT ![i] = c]
  /\ phase' = [phase EXCEPT ![c] = "connected"]
  /\ authed' = authed \ {c}
  /\ UNCHANGED <<queue, poolVars, playerVars, mainVars, viewVars>>

(* RunUpdateCycle queues what a connection delivers.  A client sends        *)
(* ClientJoin once, when it is accepted, and plays once it got InitGame.    *)
SendClientJoin(c) ==
  /\ Running
  /\ phase[c] = "connected"
  /\ Len(queue) < QueueBound
  /\ \E i \in Index, n \in Nicks \cup {BadNick} :
       /\ remote[i] = c
       /\ Push([kind |-> "ClientJoin", from |-> c, idx |-> i, arg |-> n])
  /\ phase' = [phase EXCEPT ![c] = "joining"]
  /\ UNCHANGED <<remote, poolVars, playerVars, mainVars, viewVars, authed>>

(* What each game message carries: the class asked for (one past the last   *)
(* exists too), the killer, a wrong or right password, the player to kick.  *)
ArgumentsOf(k) ==
  CASE k = "RequestClass" -> 0 .. NumClasses
    [] k = "Death" -> Index \cup {INVALID_PLAYER_ID}
    [] k = "Admin" -> {0, 1}
    [] k = "KickPlayer" -> Index
    [] OTHER -> {0}

ScoresBounded == \A i \in Index : score[i] >= -ScoreBound /\ score[i] <= ScoreBound

SendGameMessage(c) ==
  /\ Running
  /\ phase[c] = "ingame"
  /\ Len(queue) < QueueBound
  /\ \E i \in Index, k \in GameKinds :
       /\ remote[i] = c
       /\ k = "Death" => ScoresBounded
       /\ \E a \in ArgumentsOf(k) : Push([kind |-> k, from |-> c, idx |-> i, arg |-> a])
  /\ UNCHANGED <<remote, phase, poolVars, playerVars, mainVars, viewVars, authed>>

(* A disconnection notification or a dead connection: the entry is freed    *)
(* and the loss queued in one update cycle, before any new connection.      *)
ClosedPacket(c, i) == [kind |-> "ConnectionClosed", from |-> c, idx |-> i, arg |-> 0]

CloseConnection_Silent(c, i) == remote' = [remote EXCEPT ![i] = None] /\ UNCHANGED queue
CloseConnection(c, i) == remote' = [remote EXCEPT ![i] = None] /\ Push(ClosedPacket(c, i))

Disconnect(c) ==
  /\ Running
  /\ Len(queue) < QueueBound
  /\ \E i \in Index : remote[i] = c /\ CloseConnection(c, i)
  /\ phase' = [phase EXCEPT ![c] = "offline"]
  /\ known' = [known EXCEPT ![c] = {}]
  /\ shown' = [shown EXCEPT ![c] = {}]
  /\ UNCHANGED <<poolVars, playerVars, mainVars, authed>>

Network(c) == Connect(c) \/ SendClientJoin(c) \/ SendGameMessage(c) \/ Disconnect(c)

-------------------------------------------------------------------------------
(* CPlayerPool and CPlayer.                                                *)

(* The argument of the call of RPC: whom the broadcast leaves out.  The loop *)
(* over the table starts later, at its first entry.                         *)
FirstEntry_One == 1
FirstEntry == 0

Announce(rpc, i) ==
  cast' = [rpc |-> rpc, idx |-> i, except |-> GetPlayerIDFromIndex(i), next |-> FirstEntry]

(* CPlayerPool::New, with the constructor of CPlayer, which leaves          *)
(* m_bHasSpawnInfo unwritten.                                               *)
AdminOfNewcomer_Kept(i) == admin[i]
AdminOfNewcomer(i) == FALSE

New(i, c, n) ==
  /\ slot' = [slot EXCEPT ![i] = TRUE]
  /\ owner' = [owner EXCEPT ![i] = c]
  /\ name' = [name EXCEPT ![i] = n]
  /\ score' = [score EXCEPT ![i] = 0]
  /\ admin' = [admin EXCEPT ![i] = AdminOfNewcomer(i)]
  /\ active' = [active EXCEPT ![i] = FALSE]
  /\ wasted' = [wasted EXCEPT ![i] = FALSE]
  /\ update' = [update EXCEPT ![i] = "none"]
  /\ \E g \in {NoInfo, Garbage} : info' = [info EXCEPT ![i] = g]
  /\ Announce("ServerJoin", i)

(* CPlayerPool::Delete: the player object goes, the name, the score and the *)
(* admin flag stay in their arrays.                                         *)
Delete(i) ==
  /\ slot' = [slot EXCEPT ![i] = FALSE]
  /\ owner' = [owner EXCEPT ![i] = None]
  /\ active' = [active EXCEPT ![i] = FALSE]
  /\ wasted' = [wasted EXCEPT ![i] = FALSE]
  /\ update' = [update EXCEPT ![i] = "none"]
  /\ info' = [info EXCEPT ![i] = NoInfo]
  /\ Announce("ServerQuit", i)
  /\ UNCHANGED <<name, score, admin>>

(* CPlayer::GetTeam; what an unwritten m_SpawnInfo reads as is anything.    *)
TeamsOf(i) ==
  IF info[i] = NoInfo THEN {NoTeam} ELSE IF info[i] = Garbage THEN Teams ELSE {TeamOf[info[i]]}

(* CPlayerPool::AddResponsibleDeath: a kill of another team, or by a player *)
(* without a team, scores; any other kill by a player of the pool costs.    *)
ScoreChange(t, u) == IF t = NoTeam \/ t # u THEN 1 ELSE -1

AddResponsibleDeath(killer, victim) ==
  IF GetSlotState(killer)
    THEN \E t \in TeamsOf(killer), u \in TeamsOf(victim) :
           /\ killer = victim => t = u
           /\ score' = [score EXCEPT ![killer] = @ + ScoreChange(t, u)]
    ELSE UNCHANGED score

-------------------------------------------------------------------------------
(* The main thread: RakPeer::Receive and the handlers.  A packet stays at   *)
(* the head of the queue until its handler returns, and a handler that      *)
(* announces something returns when its loop is through.                    *)

Sender == Head(queue).from
Arg == Head(queue).arg
Handling(k) == main = "handle" /\ ~Sending /\ Head(queue).kind = k
Return == queue' = Tail(queue) /\ main' = "receive" /\ index' = INVALID_PLAYER_ID
Done == Return /\ UNCHANGED cast
Stay == UNCHANGED <<queue, main, index>>
Fail(f) == main' = f /\ UNCHANGED <<queue, index, cast>>

(* A remote procedure call looks its sender up when it is handled; a sync   *)
(* packet and the loss of a connection use Packet::playerIndex.             *)
HandlerIndex_AlwaysLookedUp(p) == GetIndexFromPlayerID(p.from)
HandlerIndex(p) == IF p.kind \in IndexedKinds THEN p.idx ELSE GetIndexFromPlayerID(p.from)

Receive ==
  /\ main = "receive"
  /\ queue # <<>>
  /\ index' = HandlerIndex(Head(queue))
  /\ main' = "handle"
  /\ UNCHANGED <<cast, netVars, poolVars, playerVars, viewVars, authed>>

(* InitGame or ConnectionRejected, sent to an address that may be gone.     *)
Reply_AcceptedOnly(c, p) ==
  phase' = IF phase[c] = "joining" /\ p = "ingame" THEN [phase EXCEPT ![c] = p] ELSE phase
Reply(c, p) ==
  phase' = IF phase[c] = "joining" THEN [phase EXCEPT ![c] = p] ELSE phase

NickAccepted == Arg \in Nicks /\ ~IsNickInUse(Arg)

ClientJoinRefused ==
  /\ Handling("ClientJoin")
  /\ ~NickAccepted
  /\ Reply(Sender, "rejected")
  /\ Done
  /\ UNCHANGED <<remote, poolVars, playerVars, viewVars, authed>>

ClientJoin ==
  /\ Handling("ClientJoin")
  /\ NickAccepted
  /\ index \in Index
  /\ New(index, Sender, Arg)
  /\ Stay
  /\ UNCHANGED <<remote, phase, viewVars, authed>>

(* The sender is gone: New writes m_pPlayers[255] and the other arrays.     *)
ClientJoinBadIndex ==
  /\ Handling("ClientJoin")
  /\ NickAccepted
  /\ index \notin Index
  /\ Fail("bad_index")
  /\ UNCHANGED <<remote, phase, poolVars, playerVars, viewVars, authed>>

(* A gated message of a client without a slot: kicked, or gone.             *)
IgnoreMessage ==
  /\ \E k \in GatedRPCs : Handling(k)
  /\ ~GetSlotState(index)
  /\ Done
  /\ UNCHANGED <<remote, phase, poolVars, playerVars, viewVars, authed>>

Gated(k) == Handling(k) /\ GetSlotState(index)

(* HandleSpawnClassRequest                                                  *)
RequestClass ==
  /\ Gated("RequestClass")
  /\ info' = IF Arg \in Classes THEN [info EXCEPT ![index] = Arg] ELSE info
  /\ Done
  /\ UNCHANGED <<remote, phase, poolVars, active, wasted, update, viewVars, authed>>

(* CPlayer::Spawn and SpawnForWorld: the player becomes active when it has  *)
(* been announced (SpawnAnnounced).                                         *)
Spawn ==
  /\ Gated("Spawn")
  /\ IF info[index] # NoInfo THEN Announce("Spawn", index) /\ Stay ELSE Done
  /\ UNCHANGED <<remote, phase, poolVars, playerVars, viewVars, authed>>

(* CPlayer::HandleDeath                                                     *)
Death ==
  /\ Gated("Death")
  /\ active' = [active EXCEPT ![index] = FALSE]
  /\ wasted' = [wasted EXCEPT ![index] = TRUE]
  /\ AddResponsibleDeath(Arg, index)
  /\ Announce("Death", index)
  /\ Stay
  /\ UNCHANGED <<remote, phase, slot, owner, name, admin, update, info, viewVars, authed>>

(* Chat looks its sender up again after the gate: if it has just gone, the  *)
(* name of player 255 is read and relayed.                                  *)
Chat ==
  /\ Gated("Chat")
  /\ IF Connected(Sender) THEN Done ELSE Fail("bad_name")
  /\ UNCHANGED <<remote, phase, poolVars, playerVars, viewVars, authed>>

Admin ==
  /\ Gated("Admin")
  /\ IF Arg = 1
       THEN admin' = [admin EXCEPT ![index] = TRUE] /\ authed' = authed \cup {Sender}
       ELSE UNCHANGED <<admin, authed>>
  /\ Done
  /\ UNCHANGED <<remote, phase, slot, owner, name, score, playerVars, viewVars>>

KickPlayer ==
  /\ Gated("KickPlayer")
  /\ IF admin[index] /\ GetSlotState(Arg)
       THEN Delete(Arg) /\ Stay
       ELSE Done /\ UNCHANGED <<poolVars, playerVars>>
  /\ UNCHANGED <<remote, phase, viewVars, authed>>

(* ID_DISCONNECTION_NOTIFICATION and ID_CONNECTION_LOST                     *)
ConnectionClosed ==
  /\ Handling("ConnectionClosed")
  /\ IF GetSlotState(index)
       THEN Delete(index) /\ Stay
       ELSE Done /\ UNCHANGED <<poolVars, playerVars>>
  /\ UNCHANGED <<remote, phase, viewVars, authed>>

StoreSync(k, flag) ==
  /\ Handling(k)
  /\ update' = IF GetSlotState(index) THEN [update EXCEPT ![index] = flag] ELSE update
  /\ Done
  /\ UNCHANGED <<remote, phase, poolVars, active, wasted, info, viewVars, authed>>

PlayerSync == StoreSync("PlayerSync", "onfoot")
VehicleSync == StoreSync("VehicleSync", "incar")

(* PassengerSync uses the player without looking whether there is one.      *)
PassengerSync ==
  /\ Handling("PassengerSync")
  /\ IF GetSlotState(index) THEN Done ELSE Fail("null_player")
  /\ UNCHANGED <<remote, phase, poolVars, playerVars, viewVars, authed>>

(* CPlayerPool::Process, once the queue is empty.                           *)
ProcessPlayers ==
  /\ main = "receive"
  /\ queue = <<>>
  /\ update' = [i \in Index |-> IF slot[i] /\ active[i] THEN "none" ELSE update[i]]
  /\ main' = "rcon"
  /\ UNCHANGED <<netVars, poolVars, active, wasted, info, index, cast, viewVars, authed>>

(* CRcon::Process: the kick command, and the end of the loop.               *)
RconKick ==
  /\ main = "rcon" /\ ~Sending
  /\ ConsoleKicks
  /\ \E i \in Index : slot[i] /\ Delete(i)
  /\ Stay
  /\ UNCHANGED <<remote, phase, viewVars, authed>>

RconDone ==
  /\ main = "rcon" /\ ~Sending
  /\ main' = "receive"
  /\ UNCHANGED <<netVars, poolVars, playerVars, index, cast, viewVars, authed>>

-------------------------------------------------------------------------------
(* The loop of RakPeer::Send, beside the thread of RakNet.                  *)

Tell(view, c, i) == [view EXCEPT ![c] = @ \cup {i}]
Withdraw(view, c, i) == [view EXCEPT ![c] = @ \ {i}]

(* What a client that is sent the message believes afterwards.              *)
Learns(c, rpc, i) ==
  /\ known' = CASE rpc = "ServerJoin" -> Tell(known, c, i)
                [] rpc = "ServerQuit" -> Withdraw(known, c, i)
                [] OTHER -> known
  /\ shown' = CASE rpc = "Spawn" -> Tell(shown, c, i)
                [] rpc \in {"Death", "ServerQuit"} -> Withdraw(shown, c, i)
                [] OTHER -> shown

(* One entry of the table: a connection there is sent the message, unless   *)
(* it is the one that was read when the broadcast began.                    *)
SendToConnection_PlayersOnly ==
  LET c == remote[cast.next] IN
  IF c # None /\ c # cast.except /\ slot[cast.next]
    THEN Learns(c, cast.rpc, cast.idx) ELSE UNCHANGED viewVars
SendToConnection ==
  LET c == remote[cast.next] IN
  IF c # None /\ c # cast.except THEN Learns(c, cast.rpc, cast.idx) ELSE UNCHANGED viewVars

SendToEntry ==
  /\ cast.rpc \in Broadcasts /\ cast.next < MaxPlayers - 1
  /\ SendToConnection
  /\ cast' = [cast EXCEPT !.next = @ + 1]
  /\ Stay
  /\ UNCHANGED <<remote, phase, poolVars, playerVars, authed>>

(* The last entry.  What is left of the handler reads nothing that the      *)
(* other thread writes, and is part of the step.                            *)
Announced(rpcs) == cast.rpc \in rpcs /\ cast.next = MaxPlayers - 1 /\ SendToConnection

(* "Spawn players that are spawned": one message for each, to the           *)
(* connection that is behind the index of the newcomer by then.             *)
Spawned_Lower(x) == slot[x] /\ x < cast.idx /\ active[x]
Spawned(x) == slot[x] /\ x # cast.idx /\ active[x]

ListFrom(x) ==
  LET rest == {y \in Index : y >= x /\ Spawned(y)} IN
  \/ rest = {} /\ cast' = Silence /\ Return
  \/ \E y \in rest :
       /\ \A z \in rest : y <= z
       /\ cast' = [cast EXCEPT !.rpc = "List", !.except = None, !.next = y]
       /\ Stay

(* CPlayerPool::New returns; InitGame goes to the sender, then the list.    *)
JoinAnnounced ==
  /\ Announced({"ServerJoin"})
  /\ Reply(Sender, "ingame")
  /\ ListFrom(0)
  /\ UNCHANGED <<remote, poolVars, playerVars, authed>>

(* CPlayer::SpawnForPlayer                                                  *)
SpawnForPlayer ==
  /\ cast.rpc = "List"
  /\ shown' = IF remote[cast.idx] = None THEN shown
              ELSE Tell(shown, remote[cast.idx], cast.next)
  /\ ListFrom(cast.next + 1)
  /\ UNCHANGED <<remote, phase, poolVars, playerVars, known, authed>>

(* SpawnForWorld after its broadcast; the update flag is left as it is.     *)
SpawnAnnounced ==
  /\ Announced({"Spawn"})
  /\ active' = [active EXCEPT ![index] = TRUE]
  /\ wasted' = [wasted EXCEPT ![index] = FALSE]
  /\ cast' = Silence
  /\ Return
  /\ UNCHANGED <<remote, phase, poolVars, update, info, authed>>

(* Nothing is left to do for the handler, or for the command of the console. *)
EndAnnounced ==
  /\ Announced({"Death", "ServerQuit"})
  /\ cast' = Silence
  /\ IF main = "rcon" THEN Stay ELSE Return
  /\ UNCHANGED <<remote, phase, poolVars, playerVars, authed>>

Send == SendToEntry \/ JoinAnnounced \/ SpawnForPlayer \/ SpawnAnnounced \/ EndAnnounced

Handle ==
  \/ ClientJoinRefused \/ ClientJoin \/ ClientJoinBadIndex \/ IgnoreMessage
  \/ RequestClass \/ Spawn \/ Death \/ Chat \/ Admin \/ KickPlayer
  \/ ConnectionClosed \/ PlayerSync \/ VehicleSync \/ PassengerSync

MainThread == Receive \/ Handle \/ Send \/ ProcessPlayers \/ RconKick \/ RconDone

(* Nothing is claimed of the process once it ran into undefined behaviour.  *)
Next == MainThread \/ \E c \in Clients : Network(c)

Spec == Init /\ [][Next]_vars

(* The main loop runs until the operator stops the server; the clients and  *)
(* the network owe nothing.                                                 *)
FairSpec == Spec /\ WF_vars(MainThread)

-------------------------------------------------------------------------------
(* Safety.                                                                  *)

(* A player of the pool belongs to the connection at its index, or the      *)
(* packet that will remove it waits in the queue: the queue cannot lose or   *)
(* outrun the loss of a connection (CPlayerPool::Delete in UpdateNetwork).  *)
NoGhostPlayers ==
  \A i \in Index : slot[i] =>
    \/ remote[i] = owner[i]
    \/ \E k \in 1 .. Len(queue) : queue[k] = ClosedPacket(owner[i], i)

(* When ClientJoin calls CPlayerPool::New its slot is free, though the      *)
(* table hands the index of a lost connection to the next one at once: New  *)
(* would drop the CPlayer of whoever is there.                              *)
NoOverwrite ==
  Handling("ClientJoin") => ~GetSlotState(index)

(* No two players carry the same name (the test of ClientJoin, with other   *)
(* joins and losses in the queue).                                          *)
UniqueNicks ==
  \A i, j \in Index : slot[i] /\ slot[j] /\ name[i] = name[j] => i = j

(* A player is an administrator only if the client that owns the slot gave  *)
(* the password on this connection: the flag survives in m_bIsAnAdmin when   *)
(* a player goes, and another takes the slot.                               *)
AdminEarned ==
  \A i \in Index : slot[i] /\ admin[i] => owner[i] \in authed

(* The loop has not come to entry j yet with one of these messages of i.    *)
OnItsWay(rpcs, i, j) == cast.rpc \in rpcs /\ cast.idx = i /\ cast.next <= j

(* No connected client believes that a player at another index than its own *)
(* is in the game, or alive, after the loop that tells of its end has come  *)
(* to the entry of that client, whatever the table has gone through since    *)
(* the broadcast read whom to leave out (CPlayerPool::Delete, HandleDeath).  *)
ViewsSound ==
  \A i, j \in Index : remote[j] # None /\ i # j =>
    /\ i \in known[remote[j]] => slot[i] \/ OnItsWay({"ServerQuit"}, i, j)
    /\ i \in shown[remote[j]] =>
         \/ slot[i] /\ active[i]
         \/ OnItsWay({"ServerQuit", "Death"}, i, j)
         \/ cast.rpc = "Spawn" /\ cast.idx = i

(* The players that the join of i has not come to yet.                      *)
Unlisted(i) ==
  IF cast.idx # i THEN {}
  ELSE IF cast.rpc = "ServerJoin" THEN Index
  ELSE IF cast.rpc = "List" THEN cast.next .. MaxPlayers - 1 ELSE {}

(* A player with a connection was shown every other player that is spawned, *)
(* those spawned before it joined included, by the list of its join or by   *)
(* the broadcast, though both run beside a table that changes.              *)
ViewsComplete ==
  \A i \in Index : slot[i] /\ remote[i] = owner[i] =>
    {j \in Index : slot[j] /\ active[j]} \ ({i} \cup Unlisted(i)) \subseteq shown[owner[i]]

(* A message changes the state of the player its sender owns and of nobody  *)
(* who took over the index since it was queued.                             *)
MessagesActOnTheirSender ==
  [][main = "handle" /\ Head(queue).kind \in (GatedRPCs \ {"KickPlayer"}) \cup SyncKinds =>
       \A i \in Index :
         <<slot[i], active[i], wasted[i], update[i], info[i], admin[i]>>' #
         <<slot[i], active[i], wasted[i], update[i], info[i], admin[i]>>
           => owner[i] = Sender]_vars

(* The server implements PlayerRoster: its slots, indexes and queue show    *)
(* each client as out, asking, in the lobby, alive or dead, with its points. *)
Plays(c, i) == slot[i] /\ owner[i] = c
Asks(c) ==
  \/ phase[c] = "connected"
  \/ \E k \in 1 .. Len(queue) : queue[k].kind = "ClientJoin" /\ queue[k].from = c
StatusOf(c) ==
  IF \E i \in Index : Plays(c, i) /\ active[i] THEN "alive"
  ELSE IF \E i \in Index : Plays(c, i) /\ wasted[i] THEN "dead"
  ELSE IF \E i \in Index : Plays(c, i) THEN "lobby"
  ELSE IF Asks(c) THEN "asking" ELSE "out"
PointsOf(c) ==
  IF \E i \in Index : Plays(c, i) THEN score[CHOOSE i \in Index : Plays(c, i)] ELSE 0

Roster == INSTANCE PlayerRoster WITH
  online <- {c \in Clients : Connected(c)},
  status <- [c \in Clients |-> StatusOf(c)],
  points <- [c \in Clients |-> PointsOf(c)],
  admins <- {c \in Clients : \E i \in Index : Plays(c, i) /\ admin[i]}

ImplementsRoster == Roster!Spec

-------------------------------------------------------------------------------
(* The inductive invariant behind the safety properties.                    *)

SlotsOwned == \A i \in Index : slot[i] => owner[i] \in Clients

OneEntryPerClient ==
  \A i, j \in Index : remote[i] = remote[j] /\ remote[i] # None => i = j

PhaseMatchesTable == \A c \in Clients : phase[c] = "offline" <=> ~Connected(c)

ClosedIsGone ==
  \A k \in 1 .. Len(queue) : queue[k].kind = "ConnectionClosed" => ~Connected(queue[k].from)

(* The handler of a ClientJoin has filled slot i and has not returned yet.  *)
Joining(i) == cast.rpc \in {"ServerJoin", "List"} /\ cast.idx = i

(* A client asks once per connection, and not while it plays.               *)
OneJoinPerConnection ==
  \A k \in 1 .. Len(queue) : queue[k].kind = "ClientJoin" =>
    /\ phase[queue[k].from] \in {"joining", "offline"} \/ (k = 1 /\ cast.rpc = "List")
    /\ \A i \in Index : slot[i] /\ owner[i] = queue[k].from => k = 1 /\ Joining(i)
    /\ \A l \in 1 .. Len(queue) :
         queue[l].kind = "ClientJoin" /\ queue[l].from = queue[k].from => l = k

NewcomersDoNotPlay ==
  \A i \in Index : slot[i] => phase[owner[i]] # "connected"

(* Whoever took over an index speaks only after the loss of the former      *)
(* connection is in the queue.                                              *)
ClosedBeforeSuccessor ==
  \A k, l \in 1 .. Len(queue) :
    queue[k].kind = "ConnectionClosed" /\ remote[queue[k].idx] = queue[l].from => k < l

(* The index a handler works with is still its sender's, or the loss of the *)
(* connection is queued behind the packet being handled.                    *)
IndexHeld ==
  main = "handle" /\ Head(queue).kind \notin IndexedKinds /\ index \in Index =>
    \/ remote[index] = Sender
    \/ \E k \in 2 .. Len(queue) : queue[k] = ClosedPacket(Sender, index)

IndexOfPacket ==
  main = "handle" /\ Head(queue).kind \in IndexedKinds => index = Head(queue).idx

HandlerActsOnSender ==
  main = "handle" /\ Head(queue).kind \notin IndexedKinds /\ GetSlotState(index) =>
    owner[index] = Sender

(* What is sent of a player is sent by the handler that acts on it, and the *)
(* connection it leaves out is still there or its loss is queued.           *)
CastOfHandler ==
  Sending =>
    /\ main \in {"handle", "rcon"}
    /\ cast.rpc # "ServerQuit" =>
         /\ main = "handle" /\ index = cast.idx /\ slot[cast.idx]
         /\ owner[cast.idx] = Sender
         /\ Head(queue).kind = (CASE cast.rpc \in {"ServerJoin", "List"} -> "ClientJoin"
                                  [] OTHER -> cast.rpc)
    /\ cast.rpc = "ServerQuit" =>
         /\ ~slot[cast.idx]
         /\ main = "handle" =>
              \/ Head(queue).kind = "KickPlayer"
              \/ Head(queue).kind = "ConnectionClosed" /\ Head(queue).idx = cast.idx
    /\ cast.except # None =>
         \/ remote[cast.idx] = cast.except
         \/ \E k \in 1 .. Len(queue) : queue[k] = ClosedPacket(cast.except, cast.idx)

(* The server's bookkeeping agrees with the table of connections and with   *)
(* the order of the queue, whatever the interleaving of the two threads.    *)
TableInv ==
  /\ SlotsOwned
  /\ OneEntryPerClient
  /\ PhaseMatchesTable
  /\ ClosedIsGone
  /\ OneJoinPerConnection
  /\ NewcomersDoNotPlay
  /\ ClosedBeforeSuccessor
  /\ IndexHeld
  /\ IndexOfPacket
  /\ HandlerActsOnSender
  /\ CastOfHandler
  /\ NoGhostPlayers
  /\ UniqueNicks
  /\ AdminEarned

(* The sessions of an index: every packet carries the index its sender had  *)
(* when it was queued, whether the handler uses it or not.                  *)

(* A packet's sender still has its index, or its loss is queued behind.     *)
PacketsBelong ==
  \A k \in 1 .. Len(queue) :
    \/ remote[queue[k].idx] = queue[k].from
    \/ \E l \in k .. Len(queue) : queue[l] = ClosedPacket(queue[k].from, queue[k].idx)

(* Between two clients that had one index lies the loss of the first.       *)
SessionsApart ==
  \A k, l \in 1 .. Len(queue) :
    k < l /\ queue[k].idx = queue[l].idx /\ queue[k].from # queue[l].from =>
      \E m \in k .. l - 1 : queue[m] = ClosedPacket(queue[k].from, queue[k].idx)

(* The index a handler found is the one its sender had when it sent.        *)
IndexOfSession ==
  main = "handle" /\ index \in Index => index = Head(queue).idx

(* A packet with no loss at its index before it comes from whoever owns the *)
(* player there.                                                            *)
ClosedAt(i, k) == queue[k].kind = "ConnectionClosed" /\ queue[k].idx = i
OwnerSpeaks ==
  \A k \in 1 .. Len(queue) :
    slot[queue[k].idx] /\ (\A l \in 1 .. k - 1 : ~ClosedAt(queue[k].idx, l)) =>
      owner[queue[k].idx] = queue[k].from

(* Packets queued, handled and answered while an index changes hands stay   *)
(* with the session they were sent in.                                      *)
SessionInv ==
  /\ PacketsBelong
  /\ SessionsApart
  /\ IndexOfSession
  /\ OwnerSpeaks

-------------------------------------------------------------------------------
(* Liveness, under FairSpec.                                                *)

(* A player whose connection is gone leaves the pool, unless the server ran *)
(* into undefined behaviour first.                                          *)
DepartedFreed ==
  \A c \in Clients, i \in Index :
    (Plays(c, i) /\ remote[i] # c) ~> (~Plays(c, i) \/ ~Running)

(* Every ClientJoin that reaches the server is answered, with InitGame or   *)
(* ConnectionRejected, unless the connection goes first.                    *)
JoinAnswered ==
  \A c \in Clients :
    (phase[c] = "joining") ~> (phase[c] # "joining" \/ ~Running)

-------------------------------------------------------------------------------
(* What comments of the code say and the code does not do.                  *)

(* playerpool.cpp:85, "Notify all the other players that this client is      *)
(* quiting.": whoever was told of a player is told of its end.              *)
EveryQuitTold ==
  ~Sending => \A i, j \in Index : remote[j] # None /\ i \in known[remote[j]] => slot[i]

(* netrpc.cpp:58, "Add this client to the player pool.": an accepted client *)
(* has an index of the pool.                                                *)
AcceptedJoinHasIndex ==
  Handling("ClientJoin") /\ NickAccepted => index \in Index

(* netgame.cpp:277, "Now broadcast it.": the sender of a passenger sync is  *)
(* a player whose position can be stored and broadcast.                     *)
PassengerIsPlayer == Handling("PassengerSync") => GetSlotState(index)

===============================================================================
