------------------------- MODULE ConnectionHandshake -------------------------
(***************************************************************************)
(* How a game client and the server come to a connection and lose it again: *)
(* the secured handshake of two RakPeers over datagrams that are lost,      *)
(* repeated and delayed, the server's table of connections, the limits the  *)
(* remote console sets, and the keys both ends encrypt with.                *)
(*                                                                         *)
(* A cookie is the hash of an address and of a random number of the server. *)
(* A datagram comes from the address it names, so what matters of a cookie  *)
(* is how many numbers the server has drawn since: its age.  A key is made  *)
(* of the cookie and of a random number of the client, drawn for this one   *)
(* key: it stands for the key.  A client that is started again finds none   *)
(* of its former datagrams in the network: they do not live that long.      *)
(***************************************************************************)
EXTENDS Integers, FiniteSets, FiniteSetsExt

CONSTANTS
  Clients,   \* the clients, each with an address of its own
  Knowing,   \* those that were given a password
  None,
  MaxPeers,  \* maximumNumberOfPeers of the server
  Settings,  \* bound: what the console brings <<allowed, banned, locked>> to
  Keys,      \* the keys of a client, each a number
  NetBound,  \* bound: how many datagrams of each client are in flight
  Copies     \* whether the network repeats datagrams

ASSUME BoundAssumption ==
  /\ Knowing \subseteq Clients /\ None \notin Clients \cup Keys \cup {0}
  /\ MaxPeers \in Nat \ {0} /\ NetBound \in [Clients -> Nat]
  /\ Keys \subseteq Nat \ {0} /\ Copies \in BOOLEAN
  /\ Settings \subseteq Nat \X (SUBSET Clients) \X BOOLEAN

VARIABLES
  running,    \* the clients that have been started
  requested,  \* requestedConnectionsList of a client: its entry, with the key
  link,       \* remoteSystemList[0] of a client: its key
  table,      \* remoteSystemList of the server
  allowed,    \* maximumIncomingConnections of the server
  banned,     \* banList
  locked,     \* the server has a password
  expired,    \* randomNumberExpirationTime is over
  net,        \* the datagrams in flight
  strained,   \* who asked twice, had a datagram repeated, or came back while
              \* the server still held its former connection (history)
  alarmed     \* the clients told of a modified packet (history)

clientVars == <<running, requested, link>>
consoleVars == <<allowed, banned, locked>>
historyVars == <<strained, alarmed>>
vars == <<clientVars, table, consoleVars, expired, net, historyVars>>

Indexes == 0 .. MaxPeers - 1
Unset == 0        \* the key of a connection that is not encrypted
Ages == 0 .. 2    \* of a cookie: newRandomNumber, oldRandomNumber, one before

Datagram(dir, c, type, age, key) ==
  [dir |-> dir, client |-> c, type |-> type, age |-> age, key |-> key]

Up(c, type, key) == Datagram("up", c, type, 0, key)
Down(c, type, key) == Datagram("down", c, type, 0, key)

InFlight(c) == {d \in net : d.client = c}

Occupied == {i \in Indexes : table[i] # None}
EntriesOf(c) == {i \in Occupied : table[i].client = c}

(* What remains when d is taken, and which of the datagrams sent arrive.     *)
Rest(d, copy) == IF copy THEN net ELSE net \ {d}

Send(rest, out) ==
  \E carried \in SUBSET out :
    /\ net' = rest \cup carried
    /\ \A d \in carried : Cardinality({x \in net' : x.client = d.client}) <= NetBound[d.client]

Took(d, copy) == strained' = IF copy THEN strained \cup {d.client} ELSE strained

Init ==
  /\ running = {}
  /\ requested = [c \in Clients |-> None]
  /\ link = [c \in Clients |-> None]
  /\ table = [i \in Indexes |-> None]
  /\ allowed = MaxPeers
  /\ banned = {}
  /\ locked = FALSE
  /\ expired = FALSE
  /\ net = {}
  /\ strained = {}
  /\ alarmed = {}

-------------------------------------------------------------------------------
(* The client.                                                              *)

Start(c) ==
  /\ c \notin running /\ InFlight(c) = {}
  /\ running' = running \cup {c}
  /\ requested' = [requested EXCEPT ![c] = Unset]
  /\ Send(net, {Up(c, "request", Unset)})
  /\ strained' = IF EntriesOf(c) = {} THEN strained \ {c} ELSE strained \cup {c}
  /\ alarmed' = alarmed \ {c}
  /\ UNCHANGED <<link, table, consoleVars, expired>>

(* Two seconds without an answer: the request goes out again.               *)
AskAgain(c) ==
  /\ requested[c] # None
  /\ Send(net, {Up(c, "request", Unset)})
  /\ strained' = strained \cup {c}
  /\ UNCHANGED <<clientVars, table, consoleVars, expired, alarmed>>

(* Ten seconds without one: the attempt is dropped, and nobody is told.     *)
Abandon(c) ==
  /\ requested[c] # None
  /\ requested' = [requested EXCEPT ![c] = None]
  /\ UNCHANGED <<running, link, table, consoleVars, expired, net, historyVars>>

KeysLeft(c) ==
  Keys \ ({d.key : d \in InFlight(c)} \cup {requested[c], link[c]}
          \cup {table[i].key : i \in Occupied})

(* SecuredConnectionConfirmation: every response makes a key anew.          *)
TakeResponse(d, copy) ==
  LET c == d.client
      key == Min(KeysLeft(c)) IN
  /\ d.type = "response" /\ link[c] = None
  /\ IF requested[c] = None THEN net' = Rest(d, copy) /\ UNCHANGED requested
     ELSE /\ KeysLeft(c) # {}
          /\ requested' = [requested EXCEPT ![c] = key]
          /\ Send(Rest(d, copy), {Datagram("up", c, "confirmation", d.age, key)})
  /\ Took(d, copy)
  /\ UNCHANGED <<running, link, table, consoleVars, expired, alarmed>>

Wanted_Always(c) == TRUE
Wanted(c) == requested[c] # None

TakeAccepted(d, copy) ==
  LET c == d.client
      key == IF requested[c] = None THEN Unset ELSE requested[c] IN
  /\ d.type = "accepted" /\ link[c] = None
  /\ IF ~Wanted(c) THEN net' = Rest(d, copy) /\ UNCHANGED <<requested, link>>
     ELSE /\ link' = [link EXCEPT ![c] = key]
          /\ requested' = [requested EXCEPT ![c] = None]
          /\ Send(Rest(d, copy), {Up(c, "data", key)})
  /\ Took(d, copy)
  /\ UNCHANGED <<running, table, consoleVars, expired, alarmed>>

(* A refusal is shown to the player, or not even that, and the attempt goes  *)
(* on; to a connected client it is a datagram of one byte, which is skipped. *)
TakeRefusal(d, copy) ==
  /\ \/ d.type \in {"full", "banned", "bad password"}
     \/ d.type = "data" /\ link[d.client] = None
  /\ net' = Rest(d, copy)
  /\ Took(d, copy)
  /\ UNCHANGED <<clientVars, table, consoleVars, expired, alarmed>>

(* Data of a connected client is decrypted and acknowledged.                 *)
TakeData(d, copy) ==
  LET c == d.client IN
  /\ d.type = "data" /\ link[c] = d.key
  /\ Send(Rest(d, copy), {Up(c, "data", link[c])})
  /\ UNCHANGED <<clientVars, table, consoleVars, expired, historyVars>>

(* Whatever does not decrypt is a modified packet, and the game leaves.     *)
TakeForeign(d, copy) ==
  LET c == d.client IN
  /\ link[c] # None
  /\ \/ d.type \in {"response", "accepted"}
     \/ d.type = "data" /\ link[c] # d.key
  /\ alarmed' = alarmed \cup {c}
  /\ running' = running \ {c}
  /\ link' = [link EXCEPT ![c] = None]
  /\ Send(Rest(d, copy), {Up(c, "farewell", link[c])})
  /\ Took(d, copy)
  /\ UNCHANGED <<requested, table, consoleVars, expired>>

(* TIMEOUT_TIME without an acknowledgement.  The game goes on as it was.     *)
LoseConnection(c) ==
  /\ link[c] # None
  /\ link' = [link EXCEPT ![c] = None]
  /\ UNCHANGED <<running, requested, table, consoleVars, expired, net, historyVars>>

(* The player leaves; the farewell is sent if the update thread runs before  *)
(* Disconnect has reset the connection.                                     *)
Quit(c) ==
  /\ c \in running
  /\ running' = running \ {c}
  /\ requested' = [requested EXCEPT ![c] = None]
  /\ link' = [link EXCEPT ![c] = None]
  /\ IF link[c] = None THEN net' = net ELSE Send(net, {Up(c, "farewell", link[c])})
  /\ UNCHANGED <<table, consoleVars, expired, historyVars>>

-------------------------------------------------------------------------------
(* The server.                                                              *)

(* A client with a password is refused by a server without one, too.        *)
Matches(c) == locked <=> c \in Knowing

Refusal(c) ==
  IF c \in banned THEN {"banned"} ELSE IF Matches(c) THEN {} ELSE {"bad password"}

(* A full server says so, and answers the request all the same.             *)
TakeRequest(d, copy) ==
  LET c == d.client
      full == IF Cardinality(Occupied) >= allowed THEN {"full"} ELSE {}
      response == IF Refusal(c) = {} THEN {"response"} ELSE {}
  IN
  /\ d.type = "request" /\ EntriesOf(c) = {}
  /\ Send(Rest(d, copy), {Down(c, t, Unset) : t \in full \cup Refusal(c) \cup response})
  /\ Took(d, copy)
  /\ UNCHANGED <<clientVars, table, consoleVars, expired, alarmed>>

(* The number before the last is good again when its time is over.          *)
IsCookie(age) == age = 0 \/ (age = 1 /\ expired)

(* GenerateSYNCookieRandomNumber, after the newest cookie has been used.     *)
Older(d) ==
  [d EXCEPT !.age = IF d.type \in {"response", "confirmation"} /\ @ < 2 THEN @ + 1 ELSE @]

AfterUse(age, datagrams) == IF age = 0 THEN {Older(d) : d \in datagrams} ELSE datagrams

(* HandleConnectionRequest.  There is no answer if more connections are      *)
(* allowed than the table holds, or if sendto fails, when the entry is freed *)
(* again.                                                                   *)
TakeConfirmation(d, copy) ==
  LET c == d.client
      rest == AfterUse(d.age, Rest(d, copy))
      free == Indexes \ Occupied
      entry == [client |-> c, key |-> d.key, waiting |-> FALSE]
  IN
  /\ d.type = "confirmation" /\ EntriesOf(c) = {}
  /\ Took(d, copy)
  /\ UNCHANGED <<clientVars, consoleVars, alarmed>>
  /\ \/ /\ ~IsCookie(d.age)
        /\ net' = Rest(d, copy)
        /\ UNCHANGED <<table, expired>>
     \/ /\ IsCookie(d.age)
        /\ expired' = (expired /\ d.age # 0)
        /\ \/ /\ Cardinality(Occupied) >= allowed
              /\ Send(rest, {Down(c, "full", Unset)})
              /\ UNCHANGED table
           \/ /\ Cardinality(Occupied) < allowed
              /\ net' = rest
              /\ UNCHANGED table
           \/ /\ Cardinality(Occupied) < allowed /\ free # {}
              /\ table' = [table EXCEPT ![Min(free)] = entry]
              /\ Send(rest, {Down(c, "accepted", Unset)})

(* To a connected client's reliability layer: requests and confirmations are *)
(* known to be late, anything that does not decrypt is reported to a game    *)
(* that does not listen; an acknowledgement ends the waiting, a farewell the *)
(* connection.                                                              *)
TakeConnected(d, copy) ==
  LET c == d.client
      genuine == {i \in EntriesOf(c) : table[i].key = d.key}
      seen == IF d.type = "data" THEN genuine ELSE {}
      left == IF d.type = "farewell" THEN genuine ELSE {}
  IN
  /\ d.dir = "up"
  /\ EntriesOf(c) # {} \/ d.type \in {"data", "farewell"}
  /\ table' = [i \in Indexes |-> IF i \in left THEN None
                                 ELSE IF i \in seen THEN [table[i] EXCEPT !.waiting = FALSE]
                                 ELSE table[i]]
  /\ net' = Rest(d, copy)
  /\ Took(d, copy)
  /\ UNCHANGED <<clientVars, consoleVars, expired, alarmed>>

Kept_Unreliable(entry) == entry

(* A reliable message waits until it is acknowledged.                       *)
Kept(entry) == [entry EXCEPT !.waiting = TRUE]

(* The seed of the shared random numbers, every nine seconds, to everybody.  *)
SendSeed ==
  /\ Occupied # {}
  /\ table' = [i \in Indexes |-> IF i \in Occupied THEN Kept(table[i]) ELSE None]
  /\ Send(net, {Down(table[i].client, "data", table[i].key) : i \in Occupied})
  /\ UNCHANGED <<clientVars, consoleVars, expired, historyVars>>

(* TIMEOUT_TIME without an acknowledgement.                                 *)
GiveUp(i) ==
  /\ table[i] # None /\ table[i].waiting
  /\ table' = [table EXCEPT ![i] = None]
  /\ UNCHANGED <<clientVars, consoleVars, expired, net, historyVars>>

Expire ==
  /\ ~expired
  /\ expired' = TRUE
  /\ UNCHANGED <<clientVars, table, consoleVars, net, historyVars>>

(* The console: maxplayers, ban and password.                               *)
Console ==
  /\ \E s \in Settings :
       \/ allowed' = s[1] /\ UNCHANGED <<banned, locked>>
       \/ \E c \in s[2] : banned' = banned \cup {c} /\ UNCHANGED <<allowed, locked>>
       \/ locked' = s[3] /\ UNCHANGED <<allowed, banned>>
  /\ consoleVars' \in Settings
  /\ UNCHANGED <<clientVars, table, expired, net, historyVars>>

-------------------------------------------------------------------------------
TakeUp(d, copy) ==
  TakeRequest(d, copy) \/ TakeConfirmation(d, copy) \/ TakeConnected(d, copy)

TakeDown(d, copy) ==
  \/ TakeResponse(d, copy) \/ TakeAccepted(d, copy) \/ TakeRefusal(d, copy)
  \/ TakeData(d, copy) \/ TakeForeign(d, copy)

Next ==
  \/ \E c \in Clients :
       Start(c) \/ AskAgain(c) \/ Abandon(c) \/ LoseConnection(c) \/ Quit(c)
  \/ \E d \in net, copy \in {FALSE, Copies} :
       \/ d.dir = "up" /\ TakeUp(d, copy)
       \/ d.dir = "down" /\ TakeDown(d, copy)
  \/ SendSeed \/ Expire \/ Console
  \/ \E i \in Indexes : GiveUp(i)

Spec == Init /\ [][Next]_vars

(* A connection of the table that its client does not share.                 *)
Ghost(i) == table[i] # None /\ link[table[i].client] # table[i].key

(* The main thread polls the network, hence sends the seeds; what nobody      *)
(* acknowledges times out, for a datagram of the past is not repeated for    *)
(* ever.                                                                    *)
FairSpec ==
  Spec /\ WF_vars(SendSeed) /\ \A i \in Indexes : SF_vars(Ghost(i) /\ GiveUp(i))

-------------------------------------------------------------------------------
TypeOK ==
  /\ running \subseteq Clients
  /\ requested \in [Clients -> Keys \cup {None, Unset}]
  /\ link \in [Clients -> Keys \cup {None}]
  /\ \A i \in Occupied : /\ table[i].client \in Clients
                         /\ table[i].key \in Keys
                         /\ table[i].waiting \in BOOLEAN
  /\ \A c \in Clients : Cardinality(EntriesOf(c)) <= 1

(* If the first request and its answers come through without a repetition,   *)
(* and the server has forgotten the client's former connection, both ends use *)
(* one key and no datagram is mistaken for a modified one.                  *)
OneRequestIsSafe ==
  \A c \in Clients \ strained :
    /\ c \notin alarmed
    /\ \A i \in EntriesOf(c) : link[c] # None => link[c] = table[i].key

(* What the proof of OneRequestIsSafe rests on.  The datagrams and the table *)
(* are as they are built, with an entry to each address; a client that does  *)
(* not run asks for nothing; what answers a key finds the key made.         *)
Types == {"request", "response", "confirmation", "accepted", "full", "banned",
          "bad password", "data", "farewell"}

NetInv ==
  /\ net \subseteq [dir : {"up", "down"}, client : Clients, type : Types, age : Ages,
                    key : Keys \cup {Unset}]
  /\ \A d \in net : d.type \in {"confirmation", "data", "farewell"} => d.key \in Keys
  /\ \A d \in net : d.type \in {"confirmation", "accepted"} => requested[d.client] # Unset

TableInv ==
  /\ table \in [Indexes -> [client : Clients, key : Keys, waiting : BOOLEAN] \cup {None}]
  /\ \A i, j \in Occupied : table[i].client = table[j].client => i = j

ClientInv ==
  /\ running \subseteq Clients
  /\ requested \in [Clients -> Keys \cup {None, Unset}]
  /\ link \in [Clients -> Keys \cup {None}]
  /\ \A c \in Clients \ running : requested[c] = None /\ link[c] = None
  /\ \A c \in Clients : link[c] # None => requested[c] = None

(* The datagrams that carry the handshake of c on, and the keys of c that an *)
(* end holds or a datagram was encrypted with.                              *)
Chain(c) == {d \in InFlight(c) : d.type \in {"request", "response", "confirmation", "accepted"}}

KeysOf(c) ==
  {d.key : d \in {x \in InFlight(c) : x.type \in {"confirmation", "data", "farewell"}}}
  \cup ({requested[c], link[c]} \ {None, Unset})
  \cup {table[i].key : i \in EntriesOf(c)}

(* A client that asked once takes one way: a single datagram carries its     *)
(* handshake on, and none once it is connected; there is one key, and none   *)
(* before the response is answered.                                         *)
OneAttempt(c) ==
  /\ c \notin alarmed
  /\ \A d, e \in Chain(c) : d = e
  /\ link[c] # None => Chain(c) = {}
  /\ EntriesOf(c) # {} => \A d \in Chain(c) : d.type = "accepted"
  /\ \A k, l \in KeysOf(c) : k = l
  /\ \A d \in Chain(c) : d.type \in {"request", "response"} => KeysOf(c) = {}

HandshakeInv ==
  NetInv /\ TableInv /\ ClientInv /\ \A c \in Clients \ strained : OneAttempt(c)

(* A connection that its client does not share leaves the table.            *)
GhostsLeave == \A i \in Indexes : Ghost(i) ~> ~Ghost(i)

(* "These kinds of packets may have been duplicated and incorrectly          *)
(* determined to be cheat packets.  Anything else really is a cheat packet": *)
(* with two honest ends none is reported.                                   *)
NoFalseAlarm == alarmed = {}
===============================================================================
