---------------------------- MODULE LifecycleProofs ----------------------------
(***************************************************************************)
(* Proofs about PlayerLifecycle, for any number of classes and any number   *)
(* of lives.  LifecycleInv is inductive: its part about classes says that   *)
(* one request or reply is under way at most, and none while the player may *)
(* spawn; its part about lives, that the newest Spawn or Death is on its way *)
(* or was the last the server handled, for it voids the older ones.         *)
(***************************************************************************)
EXTENDS PlayerLifecycle, TLAPS

USE NumClassesAssumption

(* What the conjuncts of the invariant say of the messages on their way.     *)
LEMMA UpRecords ==
  ASSUME TypeOK, NEW m \in up
  PROVE  /\ m \in [type : {"RequestClass", "Spawn", "Death"}, arg : Nat]
         /\ m \in Lives <=> m.type \in {"Spawn", "Death"}
         /\ m \in Requests <=> m.type = "RequestClass"
         /\ m \in Lives \/ m \in Requests
BY DEF TypeOK, Lives, Requests

LEMMA InitInv == Init => LifecycleInv
<1> SUFFICES ASSUME Init PROVE LifecycleInv
    OBVIOUS
<1>1. up = {RequestClass(0)} /\ RequestClass(0).type = "RequestClass" /\ RequestClass(0).arg = 0
      BY DEF Init, RequestClass
<1>2. Lives = {} /\ Requests = {RequestClass(0)}
      BY <1>1 DEF Lives, Requests
<1>3. RequestClass(0) \in [type : {"RequestClass", "Spawn", "Death"}, arg : Nat]
      BY DEF RequestClass
<1>4. TypeOK
  <2>1. count \in 0 .. MaxMessages
        BY DEF Init
  <2>2. \A m \in up : m \in [type : {"RequestClass", "Spawn", "Death"}, arg : Nat]
        BY <1>1, <1>3
  <2> QED
      BY <2>1, <2>2 DEF Init, TypeOK
<1>5. ClassInv
      BY <1>1, <1>2 DEF Init, ClassInv
<1>6. LifeInv
      BY <1>2 DEF Init, LifeInv, Agreement
<1> QED
    BY <1>4, <1>5, <1>6 DEF LifecycleInv

-------------------------------------------------------------------------------
(* The client.                                                              *)

LEMMA PedInv ==
  ASSUME LifecycleInv, PedDies \/ PedRises
  PROVE  LifecycleInv'
<1>1. /\ ped' \in {"up", "wasted"}
      /\ UNCHANGED <<active, wasted, info, cleared, selected, count, serverVars, up, down>>
      BY DEF PedDies, PedRises
<1>2. Lives' = Lives /\ Requests' = Requests
      BY <1>1 DEF Lives, Requests
<1> QED
    BY <1>1, <1>2 DEF LifecycleInv, TypeOK, ClassInv, LifeInv, Agreement, serverVars

(* A client that asks for a class had nothing under way.                    *)
LEMMA AskInv ==
  ASSUME LifecycleInv, NoticeRising \/ SelectClass
  PROVE  LifecycleInv'
<1> DEFINE m == RequestClass(selected')
<1>1. /\ up' = up \cup {m}
      /\ cleared /\ ~cleared' /\ ~active /\ ~wasted'
      /\ cleared' \in BOOLEAN /\ wasted' \in BOOLEAN
      /\ UNCHANGED <<ped, active, info, count, serverVars, down>>
  <2>1. CASE NoticeRising
        BY <2>1 DEF NoticeRising, LifecycleInv, ClassInv, ClearedWhenAsking
  <2>2. CASE SelectClass
        BY <2>2 DEF SelectClass, Choosing, LifecycleInv, TypeOK, ClearedWhenAsking
  <2> QED
      BY <2>1, <2>2
<1>2. info \in Classes /\ Requests = {} /\ down = {} /\ selected \in Classes
      BY <1>1 DEF LifecycleInv, ClassInv, TypeOK, Classes
<1>3. selected' \in Classes
      BY <1>2 DEF NoticeRising, SelectClass, Left, Right, Classes
<1>4. m.type = "RequestClass" /\ m.arg = selected'
      BY DEF RequestClass
<1>5. m \in [type : {"RequestClass", "Spawn", "Death"}, arg : Nat]
      BY <1>3 DEF RequestClass, Classes
<1> HIDE DEF m
<1>6. Lives' = Lives /\ Requests' = {m}
      BY <1>1, <1>2, <1>4 DEF Lives, Requests
<1>7. TypeOK'
      BY <1>1, <1>3, <1>5 DEF LifecycleInv, TypeOK, serverVars
<1>8. ClassInv'
  <2>1. \A k, l \in Requests' : k = l /\ k.arg = selected'
        BY <1>4, <1>6
  <2>2. slot' = slot /\ srvActive' = srvActive /\ srvInfo' = srvInfo /\ down' = {}
        BY <1>1, <1>2 DEF serverVars
  <2> QED
      BY <1>1, <1>2, <2>1, <2>2 DEF LifecycleInv, ClassInv
<1>9. LifeInv'
      BY <1>1, <1>6 DEF LifecycleInv, LifeInv, Agreement, serverVars
<1> QED
    BY <1>7, <1>8, <1>9 DEF LifecycleInv

(* A Spawn or a Death is newer than what is on its way.                     *)
LEMMA LifeInvAfter ==
  ASSUME LifecycleInv, NEW m,
         m.arg = count + 1, m.type \in {"Spawn", "Death"}, m.type = "Spawn" <=> active',
         up' = up \cup {m}, count' = count + 1
  PROVE  /\ LifeInv' /\ Requests' = Requests
<1>1. Lives' = Lives \cup {m} /\ Requests' = Requests
      BY DEF Lives, Requests
<1>2. count \in Nat
      BY DEF LifecycleInv, TypeOK
<1>3. \A k \in Lives' : k.arg \in 1 .. count'
      BY <1>1, <1>2 DEF LifecycleInv, LifeInv
<1>4. \A k \in Lives' : k.arg = count' => (k.type = "Spawn" <=> active')
      BY <1>1, <1>2 DEF LifecycleInv, LifeInv
<1>5. m \in Lives' /\ m.arg = count'
      BY <1>1
<1> QED
    BY <1>1, <1>3, <1>4, <1>5 DEF LifeInv, Agreement

LEMMA DeathInv ==
  ASSUME LifecycleInv, NoticeDeath
  PROVE  LifecycleInv'
<1> DEFINE m == DeathMessage(count + 1)
<1>1. count \in Nat /\ count + 1 \in 0 .. MaxMessages
      BY DEF LifecycleInv, TypeOK, NoticeDeath
<1>2. m.type = "Death" /\ m.arg = count + 1
      BY DEF DeathMessage
<1>3. m \in [type : {"RequestClass", "Spawn", "Death"}, arg : Nat]
      BY <1>1 DEF DeathMessage
<1>4. /\ up' = up \cup {m} /\ count' = count + 1 /\ active /\ ~active' /\ wasted'
      /\ wasted' \in BOOLEAN /\ active' \in BOOLEAN
      /\ UNCHANGED <<ped, info, cleared, selected, serverVars, down>>
      BY DEF NoticeDeath
<1> HIDE DEF m
<1>5. LifeInv' /\ Requests' = Requests
      BY <1>2, <1>4, LifeInvAfter
<1>6. TypeOK'
      BY <1>1, <1>3, <1>4 DEF LifecycleInv, TypeOK, serverVars
<1>7. ClassInv'
      BY <1>1, <1>4, <1>5 DEF LifecycleInv, ClassInv, serverVars
<1> QED
    BY <1>5, <1>6, <1>7 DEF LifecycleInv

LEMMA SpawnInv ==
  ASSUME LifecycleInv, SpawnPlayer
  PROVE  LifecycleInv'
<1> DEFINE m == SpawnMessage(count + 1)
<1>1. count \in Nat /\ count + 1 \in 0 .. MaxMessages
      BY DEF LifecycleInv, TypeOK, SpawnPlayer
<1>2. m.type = "Spawn" /\ m.arg = count + 1
      BY DEF SpawnMessage
<1>3. m \in [type : {"RequestClass", "Spawn", "Death"}, arg : Nat]
      BY <1>1 DEF SpawnMessage
<1>4. /\ up' = up \cup {m} /\ count' = count + 1 /\ cleared /\ active' /\ ~wasted'
      /\ wasted' \in BOOLEAN /\ active' \in BOOLEAN /\ ped' = "up"
      /\ UNCHANGED <<info, cleared, selected, serverVars, down>>
      BY DEF SpawnPlayer, Choosing
<1> HIDE DEF m
<1>5. LifeInv' /\ Requests' = Requests
      BY <1>2, <1>4, LifeInvAfter
<1>6. TypeOK'
      BY <1>1, <1>3, <1>4 DEF LifecycleInv, TypeOK, serverVars
<1>7. ClassInv'
      BY <1>1, <1>4, <1>5 DEF LifecycleInv, ClassInv, serverVars
<1> QED
    BY <1>5, <1>6, <1>7 DEF LifecycleInv

LEMMA ReplyInv ==
  ASSUME LifecycleInv, TakeReply
  PROVE  LifecycleInv'
<1>1. PICK r \in down :
        /\ down' = down \ {r}
        /\ IF r.outcome THEN info' = r.class /\ cleared' = TRUE ELSE UNCHANGED <<info, cleared>>
        /\ UNCHANGED <<ped, active, wasted, selected, count, serverVars, up>>
      BY DEF TakeReply
<1>2. Lives' = Lives /\ Requests' = Requests /\ Requests = {} /\ down' = {} /\ ~cleared
      BY <1>1 DEF Lives, Requests, LifecycleInv, ClassInv
<1>3. r.outcome => r.class \in Classes /\ (slot => srvInfo = r.class)
      BY <1>1 DEF LifecycleInv, ClassInv
<1>4. TypeOK'
      BY <1>1, <1>3 DEF LifecycleInv, TypeOK, serverVars
<1>5. ClassInv'
      BY <1>1, <1>2, <1>3 DEF LifecycleInv, ClassInv, serverVars
<1>6. LifeInv'
      BY <1>1, <1>2 DEF LifecycleInv, LifeInv, Agreement, serverVars
<1> QED
    BY <1>4, <1>5, <1>6 DEF LifecycleInv

-------------------------------------------------------------------------------
(* The server.                                                              *)

LEMMA RequestInv ==
  ASSUME LifecycleInv, TakeRequest
  PROVE  LifecycleInv'
<1>1. PICK m \in Requests :
        /\ up' = Rest(m)
        /\ IF ~slot THEN UNCHANGED <<serverVars, down>>
           ELSE /\ srvInfo' = IF Valid(m.arg) THEN m.arg ELSE srvInfo
                /\ down' = down \cup {[outcome |-> Valid(m.arg), class |-> srvInfo']}
                /\ UNCHANGED <<slot, srvActive, srvWasted>>
        /\ UNCHANGED clientVars
      BY DEF TakeRequest
<1>2. m.type = "RequestClass" /\ m \in up
      BY DEF Requests
<1>3. up' = up \ {m}
      BY <1>1, <1>2 DEF Rest, Outdates
<1>4. Lives' = Lives /\ Requests' = {} /\ down = {} /\ ~cleared /\ ~active
      BY <1>2, <1>3 DEF Lives, Requests, LifecycleInv, ClassInv
<1>5. m.arg \in Nat /\ Valid(m.arg) \in BOOLEAN /\ (Valid(m.arg) <=> m.arg \in Classes)
      BY <1>2 DEF Valid, Classes, LifecycleInv, TypeOK
<1>6. slot => srvInfo' \in Classes \cup {NoInfo, Garbage} /\ (Valid(m.arg) => srvInfo' \in Classes)
      BY <1>1, <1>5 DEF LifecycleInv, TypeOK
<1>7. \A r \in down' :
        /\ slot
        /\ r \in [outcome : BOOLEAN, class : Classes \cup {NoInfo, Garbage}]
        /\ r.outcome = Valid(m.arg) /\ r.class = srvInfo'
      BY <1>1, <1>4, <1>5, <1>6
<1>8. TypeOK'
      BY <1>1, <1>3, <1>6, <1>7 DEF LifecycleInv, TypeOK, serverVars, clientVars
<1>9. ClassInv'
  <2>1. \A r, s \in down' : r = s
        BY <1>1, <1>4
  <2>2. slot' /\ count' > 0 => srvInfo' \in Classes
        BY <1>1, <1>5 DEF LifecycleInv, ClassInv, serverVars, clientVars
  <2> QED
      BY <1>1, <1>4, <1>6, <1>7, <2>1, <2>2 DEF LifecycleInv, ClassInv, serverVars, clientVars
<1>10. LifeInv'
       BY <1>1, <1>4 DEF LifecycleInv, LifeInv, Agreement, serverVars, clientVars
<1> QED
    BY <1>8, <1>9, <1>10 DEF LifecycleInv

(* Once a Spawn or a Death is handled, the newer ones are still on their way. *)
LEMMA LivesAfter ==
  ASSUME LifecycleInv, NEW m \in Lives, up' = Rest(m), UNCHANGED <<active, count>>
  PROVE  /\ Lives' = {k \in Lives : k.arg > m.arg \/ (k.arg = m.arg /\ k # m)}
         /\ Requests' = Requests
         /\ \A k \in Lives' : k.arg \in 1 .. count'
         /\ \A k \in Lives' : k.arg = count' => (k.type = "Spawn" <=> active')
         /\ Lives' # {} => \E k \in Lives' : k.arg = count'
         /\ Lives' = {} => m.arg = count
<1>1. \A k \in Lives : k \in up /\ k.arg \in 1 .. count /\ k.type \in {"Spawn", "Death"}
      BY DEF Lives, LifecycleInv, LifeInv
<1>2. count \in Nat
      BY DEF LifecycleInv, TypeOK
<1>3. Lives' = {k \in Lives : k.arg > m.arg \/ (k.arg = m.arg /\ k # m)}
      BY <1>1, <1>2 DEF Lives, Rest, Outdates
<1>4. Requests' = Requests
      BY <1>1 DEF Requests, Rest, Outdates
<1>5. \A k \in Lives' : k.arg \in 1 .. count' /\ (k.arg = count' => (k.type = "Spawn" <=> active'))
      BY <1>3 DEF LifecycleInv, LifeInv
<1>6. PICK n \in Lives : n.arg = count
      BY DEF LifecycleInv, LifeInv
<1>7. n \in Lives' \/ m.arg = count
      BY <1>1, <1>2, <1>3, <1>6
<1>8. ASSUME NEW k \in Lives' PROVE \E l \in Lives' : l.arg = count'
  <2>1. CASE n \in Lives'
        BY <2>1, <1>6
  <2>2. CASE m.arg = count
        BY <2>2, <1>1, <1>2, <1>3
  <2> QED
      BY <2>1, <2>2, <1>7
<1>9. Lives' = {} => m.arg = count
      BY <1>7
<1> QED
    BY <1>3, <1>4, <1>5, <1>8, <1>9

LEMMA SpawnTakenInv ==
  ASSUME LifecycleInv, NEW n \in 1 .. MaxMessages, TakeSpawn(n)
  PROVE  LifecycleInv'
<1> DEFINE m == SpawnMessage(n)
<1>1. m.type = "Spawn" /\ m.arg = n
      BY DEF SpawnMessage
<1>2. m \in up /\ up' = Rest(m) /\ UNCHANGED <<clientVars, slot, srvInfo, down>>
      BY DEF TakeSpawn
<1> HIDE DEF m
<1>3. m \in Lives
      BY <1>1, <1>2 DEF Lives
<1>4. n \in 1 .. count /\ count > 0
      BY <1>1, <1>3 DEF LifecycleInv, LifeInv, TypeOK
<1>5. IF slot THEN srvActive' = TRUE /\ srvWasted' = FALSE ELSE UNCHANGED <<srvActive, srvWasted>>
      BY <1>4 DEF TakeSpawn, LifecycleInv, ClassInv, Classes, NoInfo
<1>6. /\ Requests' = Requests
      /\ \A k \in Lives' : k.arg \in 1 .. count'
      /\ \A k \in Lives' : k.arg = count' => (k.type = "Spawn" <=> active')
      /\ Lives' # {} => \E k \in Lives' : k.arg = count'
      /\ Lives' = {} => m.arg = count
      BY <1>2, <1>3, LivesAfter DEF clientVars
<1>7. TypeOK'
      BY <1>2, <1>5 DEF LifecycleInv, TypeOK, clientVars, Rest
<1>8. ClassInv'
      BY <1>2, <1>4, <1>5, <1>6 DEF LifecycleInv, ClassInv, clientVars
<1>9. m.arg = count => active
      BY <1>1, <1>3 DEF LifecycleInv, LifeInv
<1>10. LifeInv'
       BY <1>2, <1>4, <1>5, <1>6, <1>9 DEF LifecycleInv, TypeOK, LifeInv, Agreement, clientVars
<1> QED
    BY <1>7, <1>8, <1>10 DEF LifecycleInv

LEMMA DeathTakenInv ==
  ASSUME LifecycleInv, NEW n \in 1 .. MaxMessages, TakeDeath(n)
  PROVE  LifecycleInv'
<1> DEFINE m == DeathMessage(n)
<1>1. m.type = "Death" /\ m.arg = n
      BY DEF DeathMessage
<1>2. /\ m \in up /\ up' = Rest(m) /\ UNCHANGED <<clientVars, slot, srvInfo, down>>
      /\ IF slot THEN srvActive' = FALSE /\ srvWasted' = TRUE
                 ELSE UNCHANGED <<srvActive, srvWasted>>
      BY DEF TakeDeath
<1> HIDE DEF m
<1>3. m \in Lives
      BY <1>1, <1>2 DEF Lives
<1>4. n \in 1 .. count /\ count > 0
      BY <1>1, <1>3 DEF LifecycleInv, LifeInv, TypeOK
<1>5. /\ Requests' = Requests
      /\ \A k \in Lives' : k.arg \in 1 .. count'
      /\ \A k \in Lives' : k.arg = count' => (k.type = "Spawn" <=> active')
      /\ Lives' # {} => \E k \in Lives' : k.arg = count'
      /\ Lives' = {} => m.arg = count
      BY <1>2, <1>3, LivesAfter DEF clientVars
<1>6. TypeOK'
      BY <1>2 DEF LifecycleInv, TypeOK, clientVars, Rest
<1>7. ClassInv'
      BY <1>2, <1>4, <1>5 DEF LifecycleInv, ClassInv, clientVars
<1>8. m.arg = count => ~active
      BY <1>1, <1>3 DEF LifecycleInv, LifeInv
<1>9. LifeInv'
      BY <1>2, <1>4, <1>5, <1>8 DEF LifecycleInv, TypeOK, LifeInv, Agreement, clientVars
<1> QED
    BY <1>6, <1>7, <1>9 DEF LifecycleInv

LEMMA KickInv ==
  ASSUME LifecycleInv, Kick
  PROVE  LifecycleInv'
<1>1. /\ ~slot' /\ slot' \in BOOLEAN /\ ~srvActive' /\ srvActive' \in BOOLEAN
      /\ srvWasted' \in BOOLEAN /\ srvInfo' = NoInfo /\ UNCHANGED <<clientVars, up, down>>
      BY DEF Kick
<1>2. Lives' = Lives /\ Requests' = Requests
      BY <1>1 DEF Lives, Requests
<1>3. TypeOK'
      BY <1>1 DEF LifecycleInv, TypeOK, clientVars
<1>4. ClassInv'
      BY <1>1, <1>2 DEF LifecycleInv, ClassInv, clientVars
<1>5. LifeInv'
      BY <1>1, <1>2 DEF LifecycleInv, LifeInv, Agreement, clientVars
<1> QED
    BY <1>3, <1>4, <1>5 DEF LifecycleInv

-------------------------------------------------------------------------------
(* The invariant of all that the client and the server do: one request at a  *)
(* time, and the newest Spawn or Death on its way or handled last.          *)
THEOREM LifecycleInvariance == Spec => []LifecycleInv
<1>1. Init => LifecycleInv
      BY InitInv
<1>2. LifecycleInv /\ [Next]_vars => LifecycleInv'
  <2> SUFFICES ASSUME LifecycleInv, [Next]_vars PROVE LifecycleInv'
      OBVIOUS
  <2>1. CASE UNCHANGED vars
    <3>1. Lives' = Lives /\ Requests' = Requests
          BY <2>1 DEF vars, Lives, Requests
    <3> QED
        BY <2>1, <3>1
        DEF vars, clientVars, serverVars, LifecycleInv, TypeOK, ClassInv, LifeInv, Agreement
  <2>2. CASE PedDies \/ PedRises
        BY <2>2, PedInv
  <2>3. CASE NoticeDeath
        BY <2>3, DeathInv
  <2>4. CASE NoticeRising \/ SelectClass
        BY <2>4, AskInv
  <2>5. CASE SpawnPlayer
        BY <2>5, SpawnInv
  <2>6. CASE TakeReply
        BY <2>6, ReplyInv
  <2>7. CASE TakeRequest
        BY <2>7, RequestInv
  <2>8. CASE Kick
        BY <2>8, KickInv
  <2>9. ASSUME NEW n \in 1 .. MaxMessages, TakeSpawn(n) PROVE LifecycleInv'
        BY <2>9, SpawnTakenInv
  <2>10. ASSUME NEW n \in 1 .. MaxMessages, TakeDeath(n) PROVE LifecycleInv'
         BY <2>10, DeathTakenInv
  <2> QED
      BY <2>1, <2>2, <2>3, <2>4, <2>5, <2>6, <2>7, <2>8, <2>9, <2>10 DEF Next, Client, Server
<1> QED
    BY <1>1, <1>2, PTL DEF Spec

(* The variables of both ends keep their types.                             *)
THEOREM TypeCorrect == Spec => []TypeOK
<1>1. LifecycleInv => TypeOK
      BY DEF LifecycleInv
<1> QED
    BY <1>1, LifecycleInvariance, PTL

(* With no Spawn and no Death on its way, both ends agree whether the player *)
(* is alive.                                                                *)
THEOREM AgreementHolds == Spec => []Agreement
<1>1. LifecycleInv => Agreement
      BY DEF LifecycleInv, LifeInv
<1> QED
    BY <1>1, LifecycleInvariance, PTL

(* The server announces the class its client spawned with, and a chosen one. *)
THEOREM ClassAgreedHolds == Spec => []ClassAgreed
<1>1. LifecycleInv => ClassAgreed
      BY DEF LifecycleInv, ClassInv, ClassAgreed
<1> QED
    BY <1>1, LifecycleInvariance, PTL
===============================================================================
