------------------------ MODULE MCConnectionHandshake ------------------------
(* Instances of ConnectionHandshake for TLC.                                 *)
EXTENDS ConnectionHandshake

CONSTANTS c1, c2

(* One place more than the table has, or one player banned, or a password.   *)
Commands == {<<MaxPeers, {}, FALSE>>, <<MaxPeers + 1, {}, FALSE>>,
             <<MaxPeers, {c2}, FALSE>>, <<MaxPeers, {}, TRUE>>}

(* One datagram of each client is in flight, or two of the first.           *)
Single == [c \in {c1, c2} |-> 1]
Double == [c \in {c1, c2} |-> IF c = c1 THEN 2 ELSE 1]
===============================================================================
