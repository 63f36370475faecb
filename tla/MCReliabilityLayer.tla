-------------------------- MODULE MCReliabilityLayer --------------------------
(* Instances of ReliabilityLayer for TLC: A sends, B answers.                *)
EXTENDS ReliabilityLayer

CONSTANTS A, B

(* Datagrams to B overtake each other; one at a time comes back to A.        *)
Links == [e \in {A, B} |-> IF e = A THEN 1 ELSE 2]

(* One datagram at a time each way.                                        *)
OneByOne == [e \in {A, B} |-> 1]

OneSender(scripts) == [e \in {A, B} |-> IF e = A THEN scripts ELSE {}]

(* Two ordered messages; two sequenced ones, the older of which goes out     *)
(* once, or is kept until the newer one voids it; one with no order.         *)
Pairs == OneSender({<<"RELIABLE_ORDERED", "RELIABLE_ORDERED">>,
                    <<"UNRELIABLE_SEQUENCED", "RELIABLE_SEQUENCED">>,
                    <<"RELIABLE_SEQUENCED", "RELIABLE_SEQUENCED">>,
                    <<"RELIABLE">>})

(* Three messages with no order of their own.                                *)
Burst == OneSender({<<"RELIABLE", "RELIABLE", "RELIABLE">>})

(* Two ordered messages.                                                     *)
InOrder == OneSender({<<"RELIABLE_ORDERED", "RELIABLE_ORDERED">>})
===============================================================================
