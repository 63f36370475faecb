---------------------------- MODULE PlayerLifecycle ----------------------------
(***************************************************************************)
(* The lives of one player, from InitGame on: the client that owns it       *)
(* (CLocalPlayer, CGameModeGeneric and the ped of the game) and the server   *)
(* (CPlayer), which choose a class together and tell each other of spawning *)
(* and dying.  The messages of the client keep no order between them: class *)
(* requests are RELIABLE, and of Spawn and Death, RELIABLE_SEQUENCED, one    *)
(* that arrives after a newer one is dropped (MessageChannel).              *)
(***************************************************************************)
EXTENDS Integers, FiniteSets

CONSTANTS
  NumClasses,   \* m_iSpawnsAvailable, at both ends
  MaxMessages   \* bound: how often the player spawns or dies

ASSUME NumClassesAssumption == NumClasses \in 0 .. 255 /\ MaxMessages \in Nat

Classes == 0 .. NumClasses - 1
NoInfo == -1     \* m_bHasSpawnInfo is false
Garbage == -2    \* it was never written and reads as true (class CPlayer)

VARIABLES
  ped,       \* the action of the player's ped in the game: "up" or "wasted"
  active,    \* m_bIsActive of CLocalPlayer
  wasted,    \* m_bIsWasted of CLocalPlayer
  info,      \* m_bHasSpawnInfo and m_SpawnInfo of CLocalPlayer
  cleared,   \* m_bClearedToSpawn
  selected,  \* m_byteSelectedClass
  count,     \* the sequencing index: how many times Spawn or Death was sent
  slot,      \* m_bPlayerSlotState of the player at the server
  srvActive, \* m_bIsActive, m_bIsWasted and the spawn information of CPlayer
  srvWasted,
  srvInfo,
  up,        \* messages on their way to the server
  down       \* replies on their way to the client

clientVars == <<ped, active, wasted, info, cleared, selected, count>>
serverVars == <<slot, srvActive, srvWasted, srvInfo>>
vars == <<clientVars, serverVars, up, down>>

RequestClass(class) == [type |-> "RequestClass", arg |-> class]
SpawnMessage(n) == [type |-> "Spawn", arg |-> n]
DeathMessage(n) == [type |-> "Death", arg |-> n]

Lives == {m \in up : m.type \in {"Spawn", "Death"}}
Requests == {m \in up : m.type = "RequestClass"}

(* InitGame has created the game logic, which asks for the first class.     *)
Init ==
  /\ ped = "up"
  /\ active = FALSE /\ wasted = FALSE
  /\ info = NoInfo
  /\ cleared = FALSE
  /\ selected = 0
  /\ count = 0
  /\ slot = TRUE
  /\ srvActive = FALSE /\ srvWasted = FALSE
  /\ srvInfo \in {NoInfo, Garbage}
  /\ up = {RequestClass(0)}
  /\ down = {}

-------------------------------------------------------------------------------
(* The client: CLocalPlayer::Process and CGameModeGeneric.                   *)

(* The game kills the ped, and lets it get up after a while.                *)
PedDies ==
  /\ active /\ ped = "up"
  /\ ped' = "wasted"
  /\ UNCHANGED <<active, wasted, info, cleared, selected, count, serverVars, up, down>>

PedRises ==
  /\ wasted /\ ped = "wasted"
  /\ ped' = "up"
  /\ UNCHANGED <<active, wasted, info, cleared, selected, count, serverVars, up, down>>

NoticeDeath ==
  /\ active /\ ~wasted /\ ped = "wasted" /\ count < MaxMessages
  /\ wasted' = TRUE
  /\ active' = FALSE
  /\ count' = count + 1
  /\ up' = up \cup {DeathMessage(count + 1)}
  /\ UNCHANGED <<ped, info, cleared, selected, serverVars, down>>

ClearedWhenAsking_Kept == cleared

(* No spawning and no further request before the reply.                     *)
ClearedWhenAsking == FALSE

(* HandleClassSelection                                                     *)
NoticeRising ==
  /\ wasted /\ ped = "up"
  /\ wasted' = FALSE
  /\ cleared' = ClearedWhenAsking
  /\ up' = up \cup {RequestClass(selected)}
  /\ UNCHANGED <<ped, active, info, selected, count, serverVars, down>>

Choosing == ~active /\ ~wasted /\ cleared

Left_NoWrap(class) == class - 1
Left(class) == IF class = 0 THEN NumClasses - 1 ELSE class - 1
Right(class) == IF class = NumClasses - 1 THEN 0 ELSE class + 1

SelectClass ==
  /\ Choosing
  /\ cleared' = ClearedWhenAsking
  /\ selected' \in {Left(selected), Right(selected)}
  /\ up' = up \cup {RequestClass(selected')}
  /\ UNCHANGED <<ped, active, wasted, info, count, serverVars, down>>

(* SpawnPlayer, with the class the client holds; the message names none.    *)
SpawnPlayer ==
  /\ Choosing /\ count < MaxMessages
  /\ ped' = "up"
  /\ active' = TRUE /\ wasted' = FALSE
  /\ count' = count + 1
  /\ up' = up \cup {SpawnMessage(count + 1)}
  /\ UNCHANGED <<info, cleared, selected, serverVars, down>>

(* The reply: a class that was refused leaves the player waiting.           *)
TakeReply ==
  \E r \in down :
    /\ down' = down \ {r}
    /\ IF r.outcome THEN info' = r.class /\ cleared' = TRUE ELSE UNCHANGED <<info, cleared>>
    /\ UNCHANGED <<ped, active, wasted, selected, count, serverVars, up>>

-------------------------------------------------------------------------------
(* The server: the handlers of netrpc.cpp and CPlayer.                       *)

Outdates_Never(m, x) == FALSE

(* Both are sequenced, on one channel: the older one is dropped.            *)
Outdates(m, x) ==
  /\ {m.type, x.type} \subseteq {"Spawn", "Death"}
  /\ x.arg < m.arg

Rest(m) == {x \in up \ {m} : ~Outdates(m, x)}

Valid_BelowLast(class) == class < NumClasses - 1

(* HandleSpawnClassRequest                                                  *)
Valid(class) == class <= NumClasses - 1

TakeRequest ==
  \E m \in Requests :
    /\ up' = Rest(m)
    /\ IF ~slot THEN UNCHANGED <<serverVars, down>>
       ELSE /\ srvInfo' = IF Valid(m.arg) THEN m.arg ELSE srvInfo
            /\ down' = down \cup {[outcome |-> Valid(m.arg), class |-> srvInfo']}
            /\ UNCHANGED <<slot, srvActive, srvWasted>>
    /\ UNCHANGED clientVars

(* CPlayer::Spawn does nothing for a player without spawn information.      *)
TakeSpawn(n) ==
  /\ SpawnMessage(n) \in up
  /\ up' = Rest(SpawnMessage(n))
  /\ IF slot /\ srvInfo # NoInfo
       THEN srvActive' = TRUE /\ srvWasted' = FALSE
       ELSE UNCHANGED <<srvActive, srvWasted>>
  /\ UNCHANGED <<clientVars, slot, srvInfo, down>>

TakeDeath(n) ==
  /\ DeathMessage(n) \in up
  /\ up' = Rest(DeathMessage(n))
  /\ IF slot THEN srvActive' = FALSE /\ srvWasted' = TRUE
             ELSE UNCHANGED <<srvActive, srvWasted>>
  /\ UNCHANGED <<clientVars, slot, srvInfo, down>>

(* A kick removes the player and leaves the connection open.                *)
Kick ==
  /\ slot
  /\ slot' = FALSE
  /\ srvActive' = FALSE /\ srvWasted' = FALSE
  /\ srvInfo' = NoInfo
  /\ UNCHANGED <<clientVars, up, down>>

-------------------------------------------------------------------------------
Client ==
  PedDies \/ PedRises \/ NoticeDeath \/ NoticeRising \/ SelectClass \/ SpawnPlayer \/ TakeReply

Server == TakeRequest \/ Kick \/ \E n \in 1 .. MaxMessages : TakeSpawn(n) \/ TakeDeath(n)

Next == Client \/ Server

Spec == Init /\ [][Next]_vars

(* The main loops of both ends run, a ped does not lie on the ground for    *)
(* ever, and what the channel carries reaches the other end unless it is     *)
(* superseded (Delivery of ReliabilityLayer).  The player owes nothing.      *)
FairSpec ==
  /\ Spec
  /\ WF_vars(NoticeDeath) /\ WF_vars(NoticeRising) /\ WF_vars(PedRises)
  /\ WF_vars(TakeReply) /\ WF_vars(TakeRequest)
  /\ \A n \in 1 .. MaxMessages : WF_vars(TakeSpawn(n)) /\ WF_vars(TakeDeath(n))

-------------------------------------------------------------------------------
TypeOK ==
  /\ ped \in {"up", "wasted"}
  /\ active \in BOOLEAN /\ wasted \in BOOLEAN /\ cleared \in BOOLEAN
  /\ slot \in BOOLEAN /\ srvActive \in BOOLEAN /\ srvWasted \in BOOLEAN
  /\ info \in Classes \cup {NoInfo}
  /\ selected \in Classes \cup {0}
  /\ count \in 0 .. MaxMessages
  /\ srvInfo \in Classes \cup {NoInfo, Garbage}
  /\ \A m \in up : m \in [type : {"RequestClass", "Spawn", "Death"}, arg : Nat]
  /\ \A r \in down : r \in [outcome : BOOLEAN, class : Classes \cup {NoInfo, Garbage}]

(* Whatever was lost, resent or overtaken: with no Spawn and no Death on its *)
(* way, the server counts the player as alive exactly when its client does,  *)
(* and as dead when it has lived before.                                    *)
Agreement ==
  Lives = {} /\ slot => (srvActive <=> active) /\ (srvWasted <=> count > 0 /\ ~active)

(* Spawn names no class, and class requests and Spawn keep no order: the     *)
(* server announces the class the client spawns with all the same, and never *)
(* one that nobody chose (m_bHasSpawnInfo is left unwritten).               *)
ClassAgreed ==
  /\ active /\ slot => srvInfo = info
  /\ srvActive => srvInfo \in Classes

(* A player that waits for a class may spawn in the end, or was kicked.      *)
ClassAnswered == NumClasses > 0 => (~cleared ~> (cleared \/ ~slot))

(* The server learns of the last spawn or death, unless it kicks the player. *)
Told == (active # srvActive) ~> (active = srvActive \/ ~slot)

-------------------------------------------------------------------------------
(* The inductive invariant.  One class request or reply is under way, and    *)
(* none once the client may spawn: then both ends hold the class.           *)
ClassInv ==
  /\ \A m, k \in Requests : m = k
  /\ \A r, s \in down : r = s
  /\ Requests = {} \/ down = {}
  /\ cleared => Requests = {} /\ down = {} /\ info \in Classes /\ (slot => srvInfo = info)
  /\ \A r \in down : r.outcome => r.class \in Classes /\ (slot => srvInfo = r.class)
  /\ \A m \in Requests : m.arg = selected
  /\ active \/ wasted \/ count > 0 => info \in Classes
  /\ active \/ wasted => cleared
  /\ ~(active /\ wasted)
  /\ ~slot => ~srvActive
  /\ slot /\ count > 0 => srvInfo \in Classes
  /\ srvActive => count > 0

(* The last Spawn or Death is on its way, or was the last to be handled.     *)
LifeInv ==
  /\ \A m \in Lives : m.arg \in 1 .. count
  /\ \A m \in Lives : m.arg = count => (m.type = "Spawn" <=> active)
  /\ Lives # {} => \E m \in Lives : m.arg = count
  /\ Agreement

LifecycleInv == TypeOK /\ ClassInv /\ LifeInv
===============================================================================
