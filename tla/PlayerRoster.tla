----------------------------- MODULE PlayerRoster -----------------------------
(***************************************************************************)
(* What the server promises about its players, with no table, no slot, no   *)
(* index and no queue: who is connected, who asks to join, who plays and    *)
(* how many points each has.  A client joins at most once per connection,   *)
(* leaves only when its connection is gone or somebody with the right to do *)
(* so dismisses it, and no step changes the standing of two clients.        *)
(***************************************************************************)
EXTENDS Integers

CONSTANTS
  Clients,
  ConsoleKicks   \* whether the remote console may dismiss players

VARIABLES
  online,    \* the clients with a connection
  status,    \* "out", "asking", "lobby", "alive" or "dead"
  points,    \* the score of each client that plays
  admins     \* the clients that play and have given the admin password

vars == <<online, status, points, admins>>

Playing(c) == status[c] \in {"lobby", "alive", "dead"}

Init ==
  /\ online = {}
  /\ status = [c \in Clients |-> "out"]
  /\ points = [c \in Clients |-> 0]
  /\ admins = {}

Become(c, s) == status' = [status EXCEPT ![c] = s]

Arrive(c) ==
  /\ c \notin online
  /\ status[c] = "out"
  /\ online' = online \cup {c}
  /\ Become(c, "asking")
  /\ UNCHANGED <<points, admins>>

(* A client that goes before it asked to join leaves no request behind.     *)
Depart(c) ==
  /\ c \in online
  /\ online' = online \ {c}
  /\ status' = status \/ (status[c] = "asking" /\ Become(c, "out"))
  /\ UNCHANGED <<points, admins>>

Refuse(c) ==
  /\ status[c] = "asking"
  /\ Become(c, "out")
  /\ UNCHANGED <<online, points, admins>>

Join(c) ==
  /\ status[c] = "asking"
  /\ Become(c, "lobby")
  /\ UNCHANGED <<online, points, admins>>

Spawn(c) ==
  /\ Playing(c)
  /\ Become(c, "alive")
  /\ UNCHANGED <<online, points, admins>>

(* A death moves the points of at most one player, by one.                  *)
Die(c) ==
  /\ Playing(c)
  /\ Become(c, "dead")
  /\ \/ UNCHANGED points
     \/ \E k \in Clients, d \in {-1, 1} :
          Playing(k) /\ points' = [points EXCEPT ![k] = @ + d]
  /\ UNCHANGED <<online, admins>>

Authenticate(c) ==
  /\ Playing(c)
  /\ admins' = admins \cup {c}
  /\ UNCHANGED <<online, status, points>>

Leave(c) ==
  /\ Playing(c)
  /\ c \notin online \/ admins # {} \/ ConsoleKicks
  /\ Become(c, "out")
  /\ points' = [points EXCEPT ![c] = 0]
  /\ admins' = admins \ {c}
  /\ UNCHANGED online

Next ==
  \E c \in Clients :
    \/ Arrive(c) \/ Depart(c) \/ Refuse(c) \/ Join(c) \/ Spawn(c)
    \/ Die(c) \/ Authenticate(c) \/ Leave(c)

Spec == Init /\ [][Next]_vars

===============================================================================
