---------------------------- MODULE MessageChannel ----------------------------
(***************************************************************************)
(* What a RakNet connection promises to the two programs at its ends, with  *)
(* no packet number, no acknowledgement, no resend queue and no datagram:   *)
(* each end hands over messages of a chosen reliability, and the other end  *)
(* gets each of them at most once, the ordered ones in the order they were  *)
(* handed over with none left out, the sequenced ones never after a newer   *)
(* one.  Which of the reliable messages arrive is a matter of liveness.     *)
(***************************************************************************)
EXTENDS Naturals, Sequences, Functions

CONSTANTS Ends, Kinds

VARIABLES
  sent,     \* per end, the kinds of the messages handed over so far
  arrived,  \* per end, which messages of the other end it was given, in order
  dead      \* the ends that have given the connection up, or have aborted

vars == <<sent, arrived, dead>>

Peer(e) == CHOOSE p \in Ends : p # e

Ordered(k) == k = "RELIABLE_ORDERED"
Sequenced(k) == k \in {"UNRELIABLE_SEQUENCED", "RELIABLE_SEQUENCED"}

Messages(e) == 1 .. Len(sent[Peer(e)])
KindAt(e, m) == sent[Peer(e)][m]
Arrived(e) == {arrived[e][i] : i \in 1 .. Len(arrived[e])}

Init ==
  /\ sent = [e \in Ends |-> <<>>]
  /\ arrived = [e \in Ends |-> <<>>]
  /\ dead = {}

(* A message may still be handed over to a connection that has been given up. *)
HandOver(e, k) ==
  /\ sent' = [sent EXCEPT ![e] = Append(@, k)]
  /\ UNCHANGED <<arrived, dead>>

(* A message with no order of its own comes when it comes; a sequenced one   *)
(* only if no newer one was there before it.                                *)
Arrive(e, m) ==
  /\ m \in Messages(e) \ Arrived(e)
  /\ ~Ordered(KindAt(e, m))
  /\ Sequenced(KindAt(e, m)) =>
       \A n \in Arrived(e) : Sequenced(KindAt(e, n)) => n < m
  /\ arrived' = [arrived EXCEPT ![e] = Append(@, m)]
  /\ UNCHANGED <<sent, dead>>

(* Ordered messages come in their order, one or several at a time.          *)
ArriveOrdered(e, batch) ==
  /\ \A i \in DOMAIN batch :
       /\ batch[i] \notin Arrived(e) /\ Ordered(KindAt(e, batch[i]))
       /\ \A n \in Messages(e) :
            n < batch[i] /\ Ordered(KindAt(e, n)) => n \in Arrived(e) \cup Range(batch)
  /\ \A i, j \in DOMAIN batch : i < j => batch[i] < batch[j]
  /\ arrived' = [arrived EXCEPT ![e] = @ \o batch]
  /\ UNCHANGED <<sent, dead>>

GiveUp(e) ==
  /\ e \notin dead
  /\ dead' = dead \cup {e}
  /\ UNCHANGED <<sent, arrived>>

Next ==
  \E e \in Ends :
    \/ \E k \in Kinds : HandOver(e, k)
    \/ \E m \in Messages(e) : Arrive(e, m)
    \/ \E size \in Messages(e) : \E batch \in [1 .. size -> Messages(e)] : ArriveOrdered(e, batch)
    \/ GiveUp(e)

Spec == Init /\ [][Next]_vars
===============================================================================
