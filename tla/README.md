# JVCMP in TLA+

JVCMP is a multiplayer modification of GTA Vice City: a dedicated server
(`src/server`), a client that runs inside the game (`src/vcmp`), a remote console
(`src/rcon`) and the RakNet library both sides talk through (`src/RakNet`). The
repository has no tests and no documentation beyond its comments, so every
definition here is translated from the code.

## Inventory

| Component | State | Operations | Works with | Correct when |
| --- | --- | --- | --- | --- |
| RakNet peer (`RakPeer`, `RakServer`) | `remoteSystemList` (who is connected, at which index), `incomingPacketQueue`, ban list, password, number of connections allowed | connect, close, queue a packet, `Receive`, index/address lookups, send, broadcast | its own thread fills the table and the queue; the server's main thread reads both | the loss of a connection is queued once, after everything the connection sent and before anything a successor sends |
| Handshake (`RakPeer`, both ends) | the client's request list, cookies and their random numbers, keys, bans, password, limit | request, respond, confirm, accept, refuse, time out, say farewell | the console changes the limits; the game reacts to what the peer reports | one entry to an address; both ends use one key; an entry without a client is given up |
| Reliability layer (`ReliabilityLayer`) | per connection: packet numbers, send and resend queue, acknowledgements, log of numbers received, ordering and sequencing indexes, window | send, make a frame, resend, acknowledge, deliver | one per entry of the table | no message is delivered twice, ordered streams in order, sequenced streams never backwards, no reliable message is forgotten |
| Player pool (`CPlayerPool`, server) | `m_bPlayerSlotState`, `m_pPlayers`, names, scores, admin flags | `New`, `Delete`, `Process`, `AddResponsibleDeath`, `IsNickInUse`, `SetAdmin` | called by handlers and by the console; announces joins and quits | a slot belongs to the connection at its index; names are unique; rights and scores stay with one connection |
| Player (`CPlayer`, server) | active, wasted, pending update, spawn information, last sync data | `Spawn`, `HandleDeath`, `SetSpawnInfo`, `Store...`, `Process` | pool, vehicles, broadcast | clients are told exactly of the players that are spawned |
| Packet loop and handlers (`CNetGame`, `netrpc.cpp`) | game state | `Process`, sync handlers, the remote procedure calls | everything above | a message acts on the player of its sender and on nobody else |
| Remote console (`CRcon`) | its own RakNet server | kick, ban, password, maxplayers | pool and peer | a command takes effect once, between two drains of the queue |
| Vehicles, colours, configuration (`CVehiclePool`, `CCarColManager`, `CConfig`) | tables filled at start | lookups, position updates | sync handlers | indexes stay inside the tables |
| Client session (`src/vcmp/net`) | game state (wait, connecting, awaiting join, connected) | handlers of the server's messages, timers | RakNet client thread, the game | it leaves only when the connection is over |
| Local player (`CLocalPlayer`, client `CGameModeGeneric`) | active, wasted, class chosen and class asked for, cleared to spawn | choose a class, spawn, notice death and rising | the ped of the game; `CPlayer` at the server | both ends agree on life and class, and neither waits for ever |
| Remote console program (`src/rcon`) | an event shared by two threads | read a line, send, receive | RakNet client | the threads take turns; shutdown does not use what is deleted |
| Game bindings, user interface, bundled libraries | | | | not modelled: memory of a foreign process, drawing, third-party code |

What is hard here: two threads share the table of connections and the queue; an
index is reused by the next client as soon as it is free; handlers look the sender up
when they run and not when the message arrived; a kick removes the player and keeps
the connection; the arrays of the pool keep the values of a former player;
datagrams are lost, repeated and overtaken, at every layer above UDP; indexes of
eight bits wrap; a request that is retried may be answered twice; messages of one
player reach the server in another order than they were sent; and the undefined
behaviours that follow from a lookup that fails.

## Modules

| Module | What it is |
| --- | --- |
| `PlayerRoster` | What the server promises about its players: who is online, who asks, plays, is alive or dead, the points and the administrators. No index, no slot, no queue. |
| `GameServer` | The server: RakNet's table and queue, the player pool, the players and every handler that the runs use, step by step. |
| `MessageChannel` | What a connection promises to the programs at its ends: kinds of messages, at most once, in order, never backwards. |
| `ReliabilityLayer` | The two ends of a connection and the network between them; implements `MessageChannel`. |
| `ConnectionHandshake` | How clients and the server come to a connection and lose it; the console's limits. |
| `PlayerLifecycle` | One player, from class selection to death and back, at the client and at the server; uses the promise of `MessageChannel` about `RELIABLE` and `RELIABLE_SEQUENCED` messages. |
| `MCGameServer`, `MCReliabilityLayer`, `MCConnectionHandshake` | Constants, scripts and symmetry for TLC. |
| `GameServerProofs` | Theorems about the bookkeeping of `GameServer`, for every value of its constants. |
| `SessionProofs` | On top of it: the sessions of an index, the senders of messages, what the clients were told. |
| `RosterProofs` | On top of both: the server implements `PlayerRoster`. |
| `HandshakeProofs` | Theorems about `ConnectionHandshake`: one entry to an address, one key to a connection. |
| `LifecycleProofs` | Theorems about `PlayerLifecycle`: agreement on life and class. |
| `ReliabilityProofs` | Theorems about `ReliabilityLayer`: no reliable message is forgotten, the timer runs, types. |
| `ChannelProofs` | On top of it: nothing arrives twice, the layer implements `MessageChannel`, the newest sequenced message is kept. |

### GameServer and the code

State: `remote` is `remoteSystemList[i].playerId`; `queue` is `incomingPacketQueue`;
`slot`, `name`, `score`, `admin` are the arrays of `CPlayerPool`; `active`, `wasted`,
`update`, `info` are the fields of `CPlayer`; `main` and `index` are the program counter of
the main thread and the local `bytePlayerID`; `cast` holds the locals of the loop in
`RakPeer::Send` (what is told of whom, the address left out, the entry it has come to).
`phase` is how far each client has come.
`owner`, `known`, `shown` and `authed` are history variables: whose join filled a slot,
what each client was told, and who gave the password. No action reads `owner`, `known`,
`shown` or `authed` to decide anything.

Two threads run. The *network thread* connects and closes entries of the table and
queues packets (`Connect`, `SendClientJoin`, `SendGameMessage`, `Disconnect`). The *main
thread* (`main.cpp`) drains the queue, processes the players, then the console. Taking a
packet and looking up its sender (`Receive`) and running the handler are
steps of their own, because the table is not locked in between; a packet stays at the head of
`queue` until its handler returns. A handler that tells nobody anything is one action.
A handler that broadcasts is taken apart where the other thread can come between:

1. the handler's action (`ClientJoin` with `New`, `Spawn`, `Death` with the score,
   `Delete` in a kick or a loss) changes the pool and reads the PlayerID to leave out
   (`Announce`; `playerpool.cpp:57-58`, `86-87`, `player.cpp:168` and `243`);
2. the loop of `RakPeer::Send` (`RakPeer.cpp:735-769`) looks at one entry of the live
   table per step (`SendToEntry`) and sends to whoever is there by then, unless it is
   the address that was read;
3. with the last entry the handler goes on: `SpawnAnnounced` sets the player active,
   `JoinAnnounced` answers the join and begins the list of the spawned players, which
   `SpawnForPlayer` sends one by one, each to the connection that is behind the index
   of the newcomer at that moment; `EndAnnounced` returns.

Connections come and go between any two of these steps. So an index may have a new
owner between step 1 and its turn in step 2: that client is then told of a player at
its own index, and the run `stale_entry` shows what follows. What survives is `ViewsSound`,
about the other indexes. `RconKick` is the console.

A lookup of an address that is gone gives -1, which every handler keeps in a
`BYTE`: 255. What the code then does without a test is undefined: `ClientJoin`
writes its arrays at 255, `Chat` reads the name of player 255, `PassengerSync`
uses a player that is not there. These end the run of the model (`main` in
`Faults`): nothing is claimed after them. The constructor of `CPlayer` does not
write `m_bHasSpawnInfo`; both readings are behaviours.

Abstractions, all of them:

* What two steps are merged into one, and why nothing is lost. The writes to the pool and
  the read of the excluded PlayerID are one step: the network thread reads neither the pool nor
  `cast`, so the writes may be moved to the read. The last entry of the loop is one step with
  what is left of the handler, which reads nothing of the table until the list or the end. `JoinAnnounced`
  sends `InitGame` in that step as well; an answer to a client that has gone meanwhile changes nothing.
  The list passes over players that are not spawned without a step. Looking at an entry and handing the
  message to its reliability layer are one step: a message handed to an entry that was freed or
  reassigned in between is cleared by the reset of the entry or comes as if the loop had been there later.
  A read of a PlayerID (an address and a port) that is torn by a write equals nobody's address: it has the
  effect of a read of the freed entry.
* Messages carry only what the handlers branch on. A nickname is a model value,
  `BadNick` stands for a wrong version or an unacceptable name. A sync packet
  changes only the pending update; positions, health, vehicles are left out.
* What a client "was told" is recorded when the server sends it. Delivery is the business
  of `ReliabilityLayer`.
* Freeing an entry and queueing its loss are one step. RakNet does the two
  in either order (`RakPeer.cpp:3486-3488` queues first, `RakPeer.cpp:3681-3690` closes first) in one
  pass of the update thread, in which nothing else of this connection and no new connection is
  processed. Between the two, a handler sees what it would see before or
  after both.
* A client that reconnects finds nothing of its former connection left in the queue
  (`Connect`). The queue is drained every 5 ms and a connection takes several
  round trips (`ConnectionHandshake` has them); this is an assumption about time, and it is listed as a hazard.
* A client sends `ClientJoin` once per connection, and game messages after
  `InitGame`, which is what `src/vcmp` does. The order and choice of game messages
  is free.
* A rejected or kicked client may stay connected: nothing in the server closes its
  connection.

An operator named `X_Suffix` (`Push_Front`, `SendToConnection_PlayersOnly`, ...) is a plausible but
wrong variant of `X`. The specification never uses it: put in the place of `X`, it makes one of the
properties fail, which shows that the property depends on that piece of code.

### PlayerRoster as abstraction

`ImplementsRoster` maps a state of the server to the roster: a client is online when the
table holds it, plays when a slot is its own, is alive or dead by the flags of that slot,
asks while it is connected and has not sent its join or the join is queued. Checked as a property,
it says that every step of the server, in whatever interleaving, is one of:
one client arrives, departs, is refused, joins, spawns, dies (moving the points of one
player by one), authenticates, or leaves because its connection is gone or because
somebody with the right to dismiss it did so; and that no step changes two clients.

### ReliabilityLayer and the code

State: `sendQueue`, `resendQueue`, `ackQueue`, `received`, `orderingList`, `packetNumber`,
`windowSize`, `lossyWindowSize` are the fields of the same or a similar name
(`acknowledgementQueue`, `receivedPackets`). `writeIndex` and `readIndex` are the four counters
`waitingFor...Index`; `armed` is `lastAckTime != 0`; `dead` is `deadConnection`. `parsing` is the
rest of the datagram in the loop of `HandleSocketReceiveFromConnectedPlayer`, `net` the network.
`sent` and `arrived` are histories, read by no guard but the bound on what is sent.

`ReadNumber` and `Enqueue` are the two critical sections of `Send`; `Frame` is a pass of
`Update`: `IsFrameReady`, `GenerateFrame` with the resending, the throttle, the fresh packets
and the late acknowledgements, and `SendBitStream`. `Receive` takes a datagram, `HandleAck` and
`HandlePacket` are one round of its loop each, with the window's growth at the end. `Hole` is
the null pointer that an acknowledgement out of order leaves in the queue.

An ordered packet that is not the awaited one is stored, after
`assert(waitingForOrderedPacketReadIndex[...] < internalPacket->orderingIndex)`
(`ReliabilityLayer.cpp:723`). The comparison does not know that the index wraps: when index 0 comes
while 255 is awaited it fails. The Release configurations of `server.vcproj` and `vcmp.vcproj` define
`NDEBUG`; their Debug configurations and `RakNet/Makefile` do not. The model has both: with such a packet
at the head of a datagram, `AssertFails` aborts the end (it joins `dead`, and nothing happens any more),
and `HandlePacket` stores it. What is checked and proved holds of both builds; `ordered_wrap` shows the
assertion failing.

Abstractions:

* No clock. In a frame any leading part of the resend queue may be overdue (`late`), and
  the acknowledgements may be (`ackDue`); `TimeOut` may happen whenever the timer runs. What the
  code decides by a lapse of time the model decides freely.
* Each clock shows more than `TIMEOUT_TIME` and a datagram lives shorter than that, so that the
  log of received numbers never forgets one too early.
* The timer that is restarted when a lone packet is resent (`ReliabilityLayer.cpp:2570`) needs
  durations and is not seen; it is listed as a hazard.
* One priority and one ordering channel; no message is split; datagrams are intact.
* The windows are smaller than the code's 5 and 500; `MinWindow` and `MaxWindow` are
  parameters.

### ConnectionHandshake and the code

State: `requested`, `link` are the client's `requestedConnectionsList` and its one entry of
`remoteSystemList`, `table` is that of the server; `allowed`, `banned`, `locked` are what the
console sets; `expired` is whether the old random number is over. A datagram has a direction, a
client, a type, the age of its cookie, and its key. `strained` (who asked twice, or came back
too early) and `alarmed` (who was told of a modified packet) are histories.

The actions of the client are `Start`, `AskAgain`, `Abandon`, `LoseConnection`, `Quit` and one
for what it takes: `TakeResponse`, `TakeAccepted`, `TakeRefusal`, `TakeData`, `TakeForeign`; of the
server `TakeRequest`, `TakeConfirmation` (with the choice of the entry and its reset),
`TakeConnected`, `SendSeed`, `GiveUp`, `Expire` and `Console`. They keep what the code does and one
would not expect: a full server answers a request both ways, a client with a password is
refused by a server without one, an old cookie is good when its time is over, more connections
may be allowed than the table holds, the farewell may not be sent at all.

Abstractions: a cookie is its age, because a datagram comes from the address it names; a
key is drawn fresh from `Keys`; any datagram may be lost, delayed or (with `Copies`) repeated.
A client that is started again finds none of its former datagrams in the network. An error of
`sendto` is a loss, but for the answer to a confirmation, whose error frees the entry again.

### PlayerLifecycle and the code

State: `active`, `wasted`, `info` are the fields of `CLocalPlayer`, `cleared` and `selected` those of
the client's `CGameModeGeneric`, `ped` the action of the ped in the game; `slot`, `srvActive`,
`srvWasted`, `srvInfo` are the server's. `up` and `down` are sets: messages overtake each other.
`Spawn` and `Death` carry their sequencing index (`count`, bounded by `MaxMessages`), and a newer
one makes older ones void (`Outdates`), which is what `ImplementsChannel` and `NewestKept`
establish of the layer below. `Kick` is the server's; the client is not told.

The model begins when `InitGame` is handled and ends with the connection. What other clients see
is `GameServer`'s matter.

## Runs

`CHECK_DEADLOCK` is off in every run: the model stops after a fault, as the
process may.

| Run | Instance | Shows |
| --- | --- | --- |
| `membership` | 3 clients, 2 indexes, queue of 2; admin, kick and chat messages, passenger packets | `NoGhostPlayers`, `NoOverwrite`, `UniqueNicks`, `AdminEarned`, `TableInv`, `SessionInv`, `ViewsSound`, `ImplementsRoster` while indexes change hands between all steps of handlers and broadcasts |
| `lives` | 3 clients, 2 indexes, queue of 2; spawn and death messages | `ViewsSound`, `ViewsComplete`: what clients were told is what is so; `MessagesActOnTheirSender`; the roster with lives and points |
| `service` | 2 clients, one nickname; class requests, spawns, sync packets, console kicks; fair main thread, no symmetry | `SessionInv` and `MessagesActOnTheirSender` for the messages the other runs leave out; `DepartedFreed`: a player without a connection leaves the pool; `JoinAnswered`: every join is answered |
| `stale_entry` | violation of `EveryQuitTold`; 2 clients, 2 indexes, no game messages | `playerpool.cpp:85` notifies "all the other players" but not the one that took the index over while the join was announced |
| `late_join` | violation of `AcceptedJoinHasIndex` | `netrpc.cpp:58` adds a player at index 255 |
| `kicked_passenger` | violation of `PassengerIsPlayer` | `netgame.cpp:277` is reached without a player |
| `transport` | A sends two ordered messages, two reliable sequenced ones, an unreliable and a reliable sequenced one, or a plain one; B only acknowledges; datagrams of 2; window 1 to 2 | the layer refines `MessageChannel`; `NothingForgotten`, `NewestKept` (a reliable sequenced message voided by a newer one included), `AtMostOnce`, `TimerRuns`; `Delivery` under fairness |
| `ordered_wrap` | violation of `OrderedIsLater`; two ordered messages, the first with index 255 | the assertion at `ReliabilityLayer.cpp:723` is false when the index wraps |
| `throttle_stall` | violation of `OldestGoesOut`; three plain messages, window 2 | `ReliabilityLayer.cpp:1182` looks at the head only, which is a hole when the second packet was acknowledged before the first |
| `handshake` | 2 clients, 1 entry, a datagram in flight to or from each; console commands | `TypeOK` (one entry to an address), `OneRequestIsSafe`, the inductive `HandshakeInv`; `GhostsLeave` under fairness |
| `false_alarm` | violation of `NoFalseAlarm`; the same with two datagrams of one client | `RakPeer.cpp:2965` forgets the response among what may be late |
| `lifecycle` | 3 classes, up to 5 spawns and deaths, a kick at any time | `Agreement`, `ClassAgreed`, the inductive `LifecycleInv`; `ClassAnswered` and `Told` under fairness |

Bounds. Two indexes and three clients are the least in which an index is taken over
by a client while another player watches; a queue of two holds the loss of the former
owner and the join of the successor, or a message in its handler and the loss of its
sender. Two entries also give the loop of a broadcast a first and a last one, with every
change of the table between. The game messages are divided among the three runs so that each stays within
its time; `stale_entry` needs none. `QueueBound` bounds the network, `ScoreBound` stops death messages once a score
has left `-ScoreBound..ScoreBound` (`int` in the code); both appear in guards only.
Two nicknames let two clients ask for the same and for different names. One class is
enough for the three cases of a team: none, that of the class, unwritten memory.
The proofs below need none of these bounds.

In `ReliabilityLayer`, two messages are the least that can be overtaken, two reliable sequenced ones the
least in which an acknowledgement voids an older packet of the resend queue (`Acked`), and a third with a window
of two the least that leaves a hole at the head of a full queue. `Scripts` bounds what is sent;
`NetBound` the datagrams in flight, two in the direction of the messages so that one overtakes the
other (in `throttle_stall` one is enough); `AckBound` the acknowledgements that wait when a datagram is taken. Numbers begin at 65529 and
indexes at 255, so that both wrap at the second message. `lossyWindowSize` stops at
`MaxWindow + 1`, which stands for all greater values.
In `ConnectionHandshake`, one entry makes the two clients contend for it; four keys are enough for
those in use at a time (`KeysLeft`); `Settings` holds one command of each kind; a single
datagram of each client still allows every loss and delay, since sending when one is in flight
means that one is lost. `Copies` is off: a request sent twice has the effects of one that is
repeated. In `PlayerLifecycle`, three classes have a first, a last and one between; five messages
are two lives and a third spawn.

Fairness. In `GameServer`, `FairSpec` asks weak fairness of the main thread as a whole: `main.cpp`
loops until the operator stops it, every handler returns, and it never waits for a
client. Nothing is asked of the network or the clients. Both liveness properties allow for
a fault of the process.

`Delivery` assumes that both update threads run and calls of `Send` end (weak fairness of `Enqueue` and of
the parsing loop), that overdue packets are noticed, and that the network is fair: what is sent
again and again is carried, and taken, in the end (strong fairness, as a datagram may
be lost or replaced meanwhile). It says that again and again there is a moment when all that was sent has
arrived or is superseded, or its sender is stalled (what `throttle_stall` shows), unless the connection is
given up or an end has aborted; with scripts that end, the first such moment without a stall lasts. The
fairness is that of a run in which no end is dead: nothing is owed by a program that has aborted.
`GhostsLeave` assumes the server's main loop polls (`SendSeed`, hence every nine seconds something
to acknowledge) and that a connection nobody answers for times out; strong fairness, since a
late acknowledgement puts it off. `ClassAnswered` and `Told` assume that both programs run, that a
ped gets up, and that messages arrive unless superseded, which is `Delivery`. Nothing is asked of
the player.

## Proofs

TLAPS proves, from `ConstantsAssumption` only and so for every number
of clients, indexes up to 32, classes, and any length of queue:

In `GameServerProofs`:

* `TypeCorrect`: `Spec => []TypeOK`.
* `TableCorrect`: `Spec => []TableInv`.
* `GhostFree`, `NewFillsFreeSlots`, `NicksUnique`, `AdminsEarned`: the safety
  properties as its consequences.

In `SessionProofs`:

* `SessionsCorrect`: `Spec => []SessionInv`.
* `SendersOnly`: `Spec => MessagesActOnTheirSender`, an action property.
* `ViewsAreSound`, `ViewsAreComplete`: what the clients were told.

In `RosterProofs`:

* `ServerIsRoster`: `Spec => ImplementsRoster`, the refinement.

The argument. None of the safety properties is inductive: that `New` finds a free slot
depends on the packets before the join. `TableInv` says what the
order of the queue guarantees. The central parts are `ClosedBeforeSuccessor` (if an
index whose loss is queued already belongs to another client, everything of that
client is behind the loss), `CastOfHandler` (the loop of a broadcast belongs to the handler at the
head of the queue, and the address it leaves out is at the index or has its loss queued), `NoGhostPlayers` (a player without its connection has
its loss in the queue), `OneJoinPerConnection` (a queued join is the only one of its client,
which does not play) and, for the handler that runs, `IndexHeld` and
`HandlerActsOnSender`. When a packet is taken (`ReceiveCore`), a player of somebody
else at the sender's index would have a loss queued before position 1, which cannot be; so the
sender owns the player, and stays the owner until the handler returns, because only the
main thread changes the pool. `ConnectCore`, `SendCore`, `DisconnectCore` show that the
network thread preserves this; `TakenCore` (a packet is done), `JoinCore`, `DeleteCore`, `PlayCore` and
`LifeCore` that the handlers do; `SendCastCore` that each step of a broadcast does; `QuietCore` covers the
loop and the console.

A sync packet is not looked up: it acts on the index its sender had when it was queued.
`SessionInv` says why that is safe. A queued packet belongs to the connection behind its
index or has the loss of its sender behind it (`PacketsBelong`); between two senders of
one index lies the loss of the first (`SessionsApart`); so a packet with no loss at
its index before it comes from the owner of the player there (`OwnerSpeaks`). The delicate step is
`JoinSession`: a join fills the slot, and whatever waits behind it at that index must come
from the newcomer, up to its loss. `SendersOnly` follows from `OwnerSpeaks` for sync
packets and from `HandlerActsOnSender` for the messages that look their sender up.

What the clients were told is `ViewInv`: `ViewsSound`, `ViewsComplete`, and what carries them through a
loop. `ViewsSound` speaks of entry `j` and index `i`, and lets a client believe in a player that is gone only
while the loop that tells of it has not come to `j`. That the loop tells everybody needs that it leaves out
nobody but the owner: `CastOfHandler` says that the address it leaves out is still at the index or has lost
its connection, and while that loss is queued the client does not come back, so no other entry can hold it
(`Reaches`). That a successor may be told of its own index does not disturb the claim, which is about the
others. `CastIsTrue` says that what is told of a player stays so while the loop runs (only the handler that
runs the loop changes the pool), `SpawnReached` that the entries a Spawn has passed heard of it, which is what
`ViewsComplete` needs when the player becomes active at the end; `StrangersKnowNothing` is for the client that
connects in the middle. `ViewsComplete` also needs `OneEntryPerClient` and `SilentOwnsNothing` (a
new connection owns no player yet), and follows the list of a join by `Unlisted`.

`ServerIsRoster` rests on one more invariant, `OneSlotPerClient`: where a client stands is read from its
slot, so it must have one at most, which `OneJoinPerConnection` gives when a join fills a slot. Then a
client that keeps its slot, and one without a slot that asks as before, stands where it stood
(`StaysWhereItStood`), which covers the steps of a broadcast as well (`ToldStep`), but for the last one of a
Spawn, at which the player begins to live (`SpawnedStep`); there is a lemma for each step of the roster in these terms (`ArriveStep` to
`DieStep`), and one per action of the server that shows which it is. The loss of a connection
dismisses the player of a client that is offline, because the packet at the head of the queue comes
from the owner of the slot (`OwnerSpeaks`); a kick is that of an administrator or of the console. A join that is refused
leaves nothing that asks, because it was the only one of its client.

In `HandshakeProofs`, from `BoundAssumption` (any number of clients, entries, keys and settings):

* `HandshakeInvariance`: `Spec => []HandshakeInv`, and from it `TypeCorrect` and
  `OneRequestSafety`.

`OneRequestIsSafe` speaks of a connected client and its entry only, which no step can be shown to
keep by itself. `OneAttempt` says what has to be true on the way: of a client that has asked once
there is at most one datagram that carries the handshake on, none when the client is connected,
only an acceptance when the server has an entry, and all keys of the client, in datagrams, entries
and memory, are one, with none before the response is answered. Whatever strains a client (a second
request, a repeated datagram, a return before the server has forgotten it) takes it out of the
claim. `NetInv` adds that what answers a key finds it made, `TableInv` that the entries of an address
are one. There is a lemma per action, and `false_alarm` shows that the exception for retries is needed.

In `LifecycleProofs`, from `NumClassesAssumption` (up to 256 classes, any number of messages):

* `LifecycleInvariance`: `Spec => []LifecycleInv`, and from it `TypeCorrect`, `AgreementHolds`,
  `ClassAgreedHolds`.

`ClassAgreed` holds because the client asks for one class at a time: `ClassInv` says that one request
or reply is under way, that nothing is while the player is cleared to spawn, and that then both ends
hold the class. `Agreement` holds because the last of the Spawn and Death messages cannot be dropped:
`LifeInv` says that it is on its way whenever any is, and that it is a Spawn exactly when the player
lives.

In `ReliabilityProofs`, from `BoundAssumption`, `IndexAssumption` (any window, frame size, network and
first number and index), `OneThread` and `ShortScripts`:

* `NoMessageForgotten`: `Spec => []NothingForgotten`.
* `TimerAlwaysRuns`: `Spec => []TimerRuns`.
* `TypeCorrect`: `Spec => []TypeOK`.

In `ChannelProofs`, from the same:

* `NoMessageTwice`: `Spec => []AtMostOnce`.
* `LayerIsChannel`: `Spec /\ []WithinIndexRange => ImplementsChannel`, the refinement.
* `NewestIsKept`: `Spec /\ []WithinIndexRange /\ []ResendClose => []NewestKept`.
* `ShortRunIsChannel`: with at most 126 messages to each end instead of `ShortScripts`,
  `Spec => ImplementsChannel /\ []NewestKept`.

The argument. `NothingForgotten` says where a message may be, and no step keeps that without knowing
what is in the queues. `LayerInv` says that every packet, in a queue, a datagram or the ordering
list, is genuine (`Genuine`: it carries the number of its message and the index of its place in its
stream), that an acknowledgement names a number that was received, and that a number in the log of
the receiver is that of a message which arrived or waits in the ordering list (`ReceiveInv`). So an
acknowledgement takes from the resend queue only what the other end holds, and older sequenced
messages. There is a lemma per action. The recursive functions (`Selected`, `Following`) are first
shown to exist, by induction over sets of numbers (`AllUpTo`, `LeastNumber`).
`OnceInv` adds that what arrived or waits in the ordering list is in the log, whence `AtMostOnce`.
`OrderInv` and `SequenceInv` give `readIndex` its meaning: the first index plus the number of
messages of the stream that arrived, or were passed by a newer one, modulo 256. Two indexes less than 256
places apart are equal only for one place (`OneIndexOnePlace`), and less than half of it apart the
order of indexes is that of places (`OlderIsOlder`); so each case of `HandleOrdered` and
`HandleSequenced` is the abstract arrival, `TakenCases`, and every step is a stutter, a `HandOver`,
a `GiveUp`, an `Arrive` or an `ArriveOrdered` of `MessageChannel`. `NewestInv` says that a reliable sequenced message was passed
or still waits at its sender.

A failing assertion (`AssertFails`) is a `GiveUp` of the channel and leaves everything else as it is, so the
invariants hold up to it; with the assertion compiled out `HandleOrdered` stores the packet, and `OrderInv`
shows that the stored one is handed up in its place. The theorems therefore hold of both builds, and none
says that a message arrives.

The hypotheses. `OneThread`: `Send` reads the packet number in one critical section and increments it
in another (`ReliabilityLayer.cpp:888`), so two threads can give one number to two messages, of which the
second is then dropped; with one thread of each end this cannot be. `ShortScripts`: no more
messages than the log has numbers; the code bounds their number by the time it remembers one
instead, and the model has no clock. `WithinIndexRange`
and `ResendClose` are hypotheses over the run, for the code has no window that enforces them: at
most 256 ordered messages are on their way, a sequenced packet comes at most 126 places late or 127
early, and two of the resend queue are at most 127 places apart. Beyond that an index of 8 bits means
two places, and a message is taken for another. `ShortRunIsChannel` proves that short runs keep them, so the
hypotheses are not empty, and the instance of `transport` is such a run.

Only model-checked: the liveness properties (`DepartedFreed`, `JoinAnswered`, `Delivery`,
`GhostsLeave`, `ClassAnswered`, `Told`), which are out of the prover's reach, as is ENABLED. What the
violations show (`EveryQuitTold`, `AcceptedJoinHasIndex`, `PassengerIsPlayer`, `OrderedIsLater`,
`OldestGoesOut`, `NoFalseAlarm`) is a behaviour of a small instance and needs no proof. No module has a RECURSIVE
operator; `Selected` and `Following` use recursive functions.

## What is left

The modules of the plan are written: `GameServer`, `ReliabilityLayer`, `ConnectionHandshake`,
`PlayerLifecycle` and the abstract `PlayerRoster` and `MessageChannel`. They are composed by
promise: each module assumes of the one below what that one is shown to
keep. What could be added, in this order: durations in `ReliabilityLayer` (the timer that a lone
packet restarts, the underflow of the log's age limit), split packets.

## Not modelled

* Timing: the 5 ms sleep, pings, timeouts as durations.
* The content of messages: positions, health, weapons, colours, chat text; with them the
  validation and packing of sync packets, the distance filter, and the vehicles, which only move.
* Entering and leaving vehicles: the client never sends these messages
  (`vcmp/game/hooks.cpp:400-421` is commented out).
* The client's pool of remote players: `ServerJoin` (`vcmp/net/netrpc.cpp:23-35`) takes the id of a
  newcomer for a count, so that no player is ever added.
* The list of the existing players that `netrpc.cpp:84-93` builds and never sends.
* Start-up and shutdown of the server, its configuration file, the remote console program: one
  thread, or faults that need no interleaving. `UpdateScoreAndPing` and the console's `players` only read.
* Split packets, several priorities and channels, statistics, bit streams, encryption and containers
  of RakNet, and the parts of it that JVCMP does not use.
* The game's memory and hooks, drawing, the bundled libraries.

These are most of the lines of the repository: headers of DirectX and JPEG, tinyxml, big-number
arithmetic, drawing. The reasons stand with each component in `PROJECT.json`.
