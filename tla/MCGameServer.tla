----------------------------- MODULE MCGameServer -----------------------------
(* Instances of GameServer for TLC: the clients are interchangeable, and so  *)
(* are the nicknames; every class of the configuration is of one team.       *)
EXTENDS GameServer, TLC

MCTeamOf == [c \in Classes |-> 0]
ClientSymmetry == Permutations(Clients) \cup Permutations(Nicks)

===============================================================================
