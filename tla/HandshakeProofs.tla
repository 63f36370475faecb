---------------------------- MODULE HandshakeProofs ----------------------------
(***************************************************************************)
(* Proofs about ConnectionHandshake, for every number of clients and places, *)
(* every command of the console and any number of datagrams in flight:      *)
(* HandshakeInv is inductive, so the table holds one entry to an address and *)
(* a client that asked once is connected with one key and never alarmed.    *)
(***************************************************************************)
EXTENDS ConnectionHandshake, FiniteSetTheorems, WellFoundedInduction, TLAPS

-------------------------------------------------------------------------------
(* A set of numbers has a least one, which Min finds.                       *)

LEMMA LeastNumber ==
  ASSUME NEW T, T \subseteq Nat, T # {}
  PROVE  \E n \in T : \A m \in T : n <= m
<1> DEFINE R == {r \in Nat \X Nat : r[1] < r[2]}
<1>1. IsWellFoundedOn(R, Nat)
  BY NatLessThanWellFounded, Zenon DEF OpToRel
<1>2. PICK n \in T : \A m \in T : ~(<<m, n>> \in R)
  <2> HIDE DEF R
  <2> QED
    BY <1>1, WFMin
<1>3. \A m \in T : ~(m < n)
  BY <1>2
<1> QED
  BY <1>2, <1>3

LEMMA MinIsMember ==
  ASSUME NEW T, T \subseteq Nat, T # {}
  PROVE  Min(T) \in T
BY LeastNumber DEF Min

-------------------------------------------------------------------------------
(* What the helpers give.                                                   *)

Datagrams ==
  [dir : {"up", "down"}, client : Clients, type : Types, age : Ages, key : Keys \cup {Unset}]

Entry == [client : Clients, key : Keys, waiting : BOOLEAN]

LEMMA SendCarries ==
  ASSUME NEW rest, NEW out, Send(rest, out)
  PROVE  /\ net' \subseteq rest \cup out
         /\ \A d \in net' : d \notin rest => d \in out
BY DEF Send

(* A cookie that ages leaves its datagram what it was.                      *)
LEMMA OlderSame ==
  ASSUME NEW d \in Datagrams
  PROVE  /\ Older(d) \in Datagrams
         /\ Older(d).client = d.client
         /\ Older(d).type = d.type
         /\ Older(d).key = d.key
BY DEF Older, Datagrams, Ages

(* A new key is one of the keys, and no key is missing.                     *)
LEMMA NewKey ==
  ASSUME NEW c, KeysLeft(c) # {}
  PROVE  Min(KeysLeft(c)) \in Keys
<1>1. KeysLeft(c) \subseteq Keys /\ KeysLeft(c) \subseteq Nat
  BY BoundAssumption DEF KeysLeft
<1> QED
  BY <1>1, MinIsMember

LEMMA FreePlace ==
  ASSUME Indexes \ Occupied # {}
  PROVE  Min(Indexes \ Occupied) \in Indexes \ Occupied
<1>1. Indexes \ Occupied \subseteq Nat
  BY BoundAssumption DEF Indexes
<1> QED
  BY <1>1, MinIsMember

-------------------------------------------------------------------------------
(* One client among the others.                                             *)

(* A datagram as the network goes on with it.                               *)
Onward(d, used) == IF used THEN Older(d) ELSE d

LEMMA OnwardSame ==
  ASSUME NEW d \in Datagrams, NEW used
  PROVE  /\ Onward(d, used) \in Datagrams
         /\ Onward(d, used).client = d.client
         /\ Onward(d, used).type = d.type
         /\ Onward(d, used).key = d.key
BY OlderSame DEF Onward

(* What does not answer the handshake of c, nor forgets a key to use another *)
(* one, leaves the attempt of c as it was.                                   *)
Undisturbed(c, used) ==
  /\ c \notin alarmed'
  /\ link'[c] \in {link[c], None}
  /\ requested'[c] \in {requested[c], None}
  /\ \A i \in Indexes : table'[i] # None /\ table'[i].client = c =>
       table[i] # None /\ table[i].client = c /\ table'[i].key = table[i].key
  /\ \A d \in net' : d.client = c =>
       \/ \E o \in net : o.client = c /\ d = Onward(o, used)
       \/ d.type \in {"data", "farewell"} /\ d.key \in KeysOf(c)
       \/ d.type \in {"full", "banned", "bad password"}

LEMMA UndisturbedAttempt ==
  ASSUME NetInv, NEW c \in Clients, OneAttempt(c), NEW used, Undisturbed(c, used)
  PROVE  OneAttempt(c)'
<1>1. net \subseteq Datagrams
  BY DEF NetInv, Datagrams
<1>2. \A d \in Chain(c)' : \E o \in Chain(c) : d = Onward(o, used) /\ d.type = o.type
  <2>1. TAKE d \in Chain(c)'
  <2>2. d \in net' /\ d.client = c /\ d.type \in {"request", "response", "confirmation", "accepted"}
    BY <2>1 DEF Chain, InFlight
  <2>3. PICK o \in net : o.client = c /\ d = Onward(o, used)
    BY <2>2 DEF Undisturbed
  <2>4. o.type = d.type
    BY <1>1, <2>3, OnwardSame
  <2> QED
    BY <2>2, <2>3, <2>4 DEF Chain, InFlight
<1>3. \A i \in EntriesOf(c)' : i \in EntriesOf(c) /\ table'[i].key = table[i].key
  BY DEF Undisturbed, EntriesOf, Occupied
<1>4. KeysOf(c)' \subseteq KeysOf(c)
  <2>1. SUFFICES ASSUME NEW k \in KeysOf(c)' PROVE k \in KeysOf(c)
    OBVIOUS
  <2>2. CASE k \in {requested'[c], link'[c]} \ {None, Unset}
    BY <2>2 DEF Undisturbed, KeysOf
  <2>3. CASE \E i \in EntriesOf(c)' : k = table'[i].key
    BY <2>3, <1>3 DEF KeysOf
  <2>4. CASE \E d \in net' : /\ d.client = c /\ k = d.key
                             /\ d.type \in {"confirmation", "data", "farewell"}
    <3>1. PICK d \in net' : /\ d.client = c /\ k = d.key
                            /\ d.type \in {"confirmation", "data", "farewell"}
      BY <2>4
    <3>2. CASE d.type \in {"data", "farewell"} /\ d.key \in KeysOf(c)
      BY <3>1, <3>2
    <3>3. CASE \E o \in net : o.client = c /\ d = Onward(o, used)
      <4>1. PICK o \in net : o.client = c /\ d = Onward(o, used)
        BY <3>3
      <4>2. o.type = d.type /\ o.key = d.key
        BY <1>1, <4>1, OnwardSame
      <4> QED
        BY <3>1, <4>1, <4>2 DEF KeysOf, InFlight
    <3> QED
      BY <3>1, <3>2, <3>3 DEF Undisturbed
  <2> QED
    BY <2>1, <2>2, <2>3, <2>4 DEF KeysOf, InFlight
<1>5. \A d, e \in Chain(c)' : d = e
  BY <1>2 DEF OneAttempt
<1>6. link'[c] # None => Chain(c)' = {}
  BY <1>2 DEF OneAttempt, Undisturbed
<1>7. EntriesOf(c)' # {} => \A d \in Chain(c)' : d.type = "accepted"
  BY <1>2, <1>3 DEF OneAttempt
<1>8. \A k, l \in KeysOf(c)' : k = l
  BY <1>4 DEF OneAttempt
<1>9. \A d \in Chain(c)' : d.type \in {"request", "response"} => KeysOf(c)' = {}
  BY <1>2, <1>4 DEF OneAttempt
<1>10. c \notin alarmed'
  BY DEF Undisturbed
<1> QED
  BY <1>5, <1>6, <1>7, <1>8, <1>9, <1>10 DEF OneAttempt

-------------------------------------------------------------------------------
(* What every step does to the datagrams and the clients it does not serve. *)

LEMMA NetStep ==
  ASSUME NetInv, NEW used,
         \A o \in net : requested'[o.client] = Unset => requested[o.client] = Unset,
         \A d \in net' :
           \/ \E o \in net : d = Onward(o, used)
           \/ /\ d \in Datagrams
              /\ d.type \in {"confirmation", "data", "farewell"} => d.key \in Keys
              /\ d.type \in {"confirmation", "accepted"} => requested'[d.client] # Unset
  PROVE  NetInv'
<1>1. net \subseteq Datagrams
  BY DEF NetInv, Datagrams
<1>2. SUFFICES ASSUME NEW d \in net'
               PROVE  /\ d \in Datagrams
                      /\ d.type \in {"confirmation", "data", "farewell"} => d.key \in Keys
                      /\ d.type \in {"confirmation", "accepted"} => requested'[d.client] # Unset
  BY DEF NetInv, Datagrams, Types, Ages, Unset
<1>3. CASE \E o \in net : d = Onward(o, used)
  <2>1. PICK o \in net : d = Onward(o, used)
    BY <1>3
  <2>2. /\ d \in Datagrams /\ d.client = o.client
        /\ d.type = o.type /\ d.key = o.key
    BY <1>1, <2>1, OnwardSame
  <2> QED
    BY <2>2 DEF NetInv
<1> QED
  BY <1>2, <1>3

(* A step that serves client c leaves the others as they were.              *)
LEMMA OthersUndisturbed ==
  ASSUME NEW c, NEW x, x # c, NEW used, x \notin alarmed,
         alarmed' \ alarmed \subseteq {c},
         link'[x] = link[x], requested'[x] = requested[x],
         \A i \in Indexes : table'[i] # None /\ table'[i].client = x =>
           table[i] # None /\ table[i].client = x /\ table'[i].key = table[i].key,
         \A d \in net' : (\E o \in net : d = Onward(o, used)) \/ d.client = c,
         net \subseteq Datagrams
  PROVE  Undisturbed(x, used)
<1>1. x \notin alarmed'
  OBVIOUS
<1>2. ASSUME NEW d \in net', d.client = x
      PROVE  \E o \in net : o.client = x /\ d = Onward(o, used)
  <2>1. PICK o \in net : d = Onward(o, used)
    BY <1>2
  <2>2. o.client = d.client
    BY <2>1, OnwardSame
  <2> QED
    BY <1>2, <2>1, <2>2
<1> QED
  BY <1>1, <1>2 DEF Undisturbed

-------------------------------------------------------------------------------
(* The client.                                                              *)

LEMMA StartKeeps ==
  ASSUME HandshakeInv, NEW c \in Clients, Start(c)
  PROVE  HandshakeInv'
<1>1. NetInv /\ TableInv /\ ClientInv /\ net \subseteq Datagrams
  BY DEF HandshakeInv, NetInv, Datagrams
<1> DEFINE ask == Up(c, "request", Unset)
<1>2. /\ ask \in Datagrams /\ ask.client = c /\ ask.type = "request"
  BY DEF Up, Datagram, Datagrams, Ages, Types
<1>3. \A d \in net' : d \in net \/ d = ask
  BY SendCarries DEF Start
<1>4. \A d \in net : d.client # c
  BY DEF Start, InFlight
<1>5. NetInv'
  <2>1. \A o \in net : requested'[o.client] = Unset => requested[o.client] = Unset
    BY <1>1, <1>4 DEF Start, ClientInv
  <2>2. \A d \in net' : (\E o \in net : d = Onward(o, FALSE)) \/ d = ask
    BY <1>3 DEF Onward
  <2> HIDE DEF ask
  <2> QED
    BY <1>1, <1>2, <2>1, <2>2, NetStep
<1>6. TableInv'
  BY <1>1 DEF Start, TableInv, Occupied
<1>7. ClientInv'
  BY <1>1 DEF Start, ClientInv, Unset
<1>8. ASSUME NEW x \in Clients \ strained' PROVE OneAttempt(x)'
  <2>1. CASE x # c
    <3>1. x \notin strained
      BY <1>8, <2>1 DEF Start
    <3>2. OneAttempt(x) /\ x \notin alarmed
      BY <3>1 DEF HandshakeInv, OneAttempt
    <3>3. \A d \in net' : (\E o \in net : d = Onward(o, FALSE)) \/ d.client = c
      BY <1>2, <1>3 DEF Onward
    <3>4. link'[x] = link[x] /\ requested'[x] = requested[x]
      BY <1>1, <2>1 DEF Start, ClientInv
    <3>5. table' = table /\ alarmed' \subseteq alarmed
      BY DEF Start
    <3>6. Undisturbed(x, FALSE)
      BY <1>1, <2>1, <3>2, <3>3, <3>4, <3>5, OthersUndisturbed
    <3> QED
      BY <1>1, <3>2, <3>6, UndisturbedAttempt
  <2>2. CASE x = c
    <3>1. EntriesOf(c)' = {}
      BY <1>8, <2>2 DEF Start, EntriesOf, Occupied
    <3>2. link'[c] = None /\ requested'[c] = Unset /\ c \notin alarmed'
      BY <1>1 DEF Start, ClientInv
    <3>3. \A d \in InFlight(c)' : d = ask
      BY <1>3, <1>4 DEF InFlight
    <3> HIDE DEF ask
    <3>4. KeysOf(c)' = {}
      BY <1>2, <3>1, <3>2, <3>3 DEF KeysOf
    <3> QED
      BY <2>2, <3>1, <3>2, <3>3, <3>4 DEF OneAttempt, Chain
  <2> QED
    BY <2>1, <2>2
<1> QED
  BY <1>5, <1>6, <1>7, <1>8 DEF HandshakeInv

LEMMA AskAgainKeeps ==
  ASSUME HandshakeInv, NEW c \in Clients, AskAgain(c)
  PROVE  HandshakeInv'
<1>1. NetInv /\ TableInv /\ ClientInv /\ net \subseteq Datagrams
  BY DEF HandshakeInv, NetInv, Datagrams
<1> DEFINE ask == Up(c, "request", Unset)
<1>2. /\ ask \in Datagrams /\ ask.client = c /\ ask.type = "request"
  BY DEF Up, Datagram, Datagrams, Ages, Types
<1>3. \A d \in net' : (\E o \in net : d = Onward(o, FALSE)) \/ d = ask
  BY SendCarries DEF AskAgain, Onward
<1> HIDE DEF ask
<1>4. /\ running' = running /\ requested' = requested /\ link' = link
      /\ table' = table /\ alarmed' = alarmed /\ strained' = strained \cup {c}
  BY DEF AskAgain, clientVars
<1>5. NetInv'
  BY <1>1, <1>2, <1>3, <1>4, NetStep
<1>6. TableInv' /\ ClientInv'
  BY <1>1, <1>4 DEF TableInv, ClientInv, Occupied
<1>7. ASSUME NEW x \in Clients \ strained' PROVE OneAttempt(x)'
  <2>1. x # c /\ OneAttempt(x) /\ x \notin alarmed
    BY <1>4, <1>7 DEF HandshakeInv, OneAttempt
  <2>2. Undisturbed(x, FALSE)
    BY <1>1, <1>2, <1>3, <1>4, <2>1, OthersUndisturbed
  <2> QED
    BY <1>1, <2>1, <2>2, UndisturbedAttempt
<1> QED
  BY <1>5, <1>6, <1>7 DEF HandshakeInv

(* A client that lets go of its attempt, or of its connection, and may say so. *)
LEMMA LettingGoKeeps ==
  ASSUME HandshakeInv, NEW c \in Clients,
         Abandon(c) \/ LoseConnection(c) \/ Quit(c)
  PROVE  HandshakeInv'
<1>1. NetInv /\ TableInv /\ ClientInv /\ net \subseteq Datagrams
  BY DEF HandshakeInv, NetInv, Datagrams
<1> DEFINE bye == Up(c, "farewell", link[c])
<1>2. link[c] # None => bye \in Datagrams /\ bye.client = c /\ bye.type = "farewell" /\ bye.key = link[c]
  <2>1. SUFFICES ASSUME link[c] # None
                 PROVE  bye \in Datagrams /\ bye.client = c /\ bye.type = "farewell" /\ bye.key = link[c]
    OBVIOUS
  <2>2. link[c] \in Keys
    BY <1>1, <2>1 DEF ClientInv
  <2> QED
    BY <2>2 DEF Up, Datagram, Datagrams, Ages, Types
<1>3. \A d \in net' : (\E o \in net : d = Onward(o, FALSE)) \/ (link[c] # None /\ d = bye)
  BY SendCarries DEF Abandon, LoseConnection, Quit, Onward
<1> HIDE DEF bye
<1>4. /\ table' = table /\ alarmed' = alarmed /\ strained' = strained
      /\ running' \in {running, running \ {c}}
      /\ requested' \in {requested, [requested EXCEPT ![c] = None]}
      /\ link' \in {link, [link EXCEPT ![c] = None]}
      /\ running' # running =>
           requested' = [requested EXCEPT ![c] = None] /\ link' = [link EXCEPT ![c] = None]
  BY DEF Abandon, LoseConnection, Quit, historyVars
<1>5. \A x \in Clients : requested'[x] \in {requested[x], None} /\ link'[x] \in {link[x], None}
  BY <1>1, <1>4 DEF ClientInv
<1>6. NetInv'
  <2>1. \A o \in net : requested'[o.client] = Unset => requested[o.client] = Unset
    BY <1>1, <1>5, BoundAssumption DEF NetInv, Unset
  <2>2. link[c] # None => link[c] \in Keys
    BY <1>1 DEF ClientInv
  <2> QED
    BY <1>1, <1>2, <1>3, <2>1, <2>2, NetStep
<1>7. TableInv' /\ ClientInv'
  BY <1>1, <1>4 DEF TableInv, ClientInv, Occupied
<1>8. ASSUME NEW x \in Clients \ strained' PROVE OneAttempt(x)'
  <2>1. OneAttempt(x) /\ x \notin alarmed'
    BY <1>4, <1>8 DEF HandshakeInv, OneAttempt
  <2>2. ASSUME NEW d \in net', d.client = x
        PROVE  \/ \E o \in net : o.client = x /\ d = Onward(o, FALSE)
               \/ d.type \in {"data", "farewell"} /\ d.key \in KeysOf(x)
    <3>1. CASE \E o \in net : d = Onward(o, FALSE)
      BY <2>2, <3>1 DEF Onward
    <3>2. CASE link[c] # None /\ d = bye
      BY <1>1, <1>2, <2>2, <3>2, BoundAssumption DEF KeysOf, ClientInv, Unset
    <3> QED
      BY <1>3, <3>1, <3>2
  <2>3. Undisturbed(x, FALSE)
    BY <1>4, <1>5, <2>1, <2>2 DEF Undisturbed
  <2> QED
    BY <1>1, <2>1, <2>3, UndisturbedAttempt
<1> QED
  BY <1>6, <1>7, <1>8 DEF HandshakeInv

(* The only datagram of an attempt is gone once it is taken.                *)
LEMMA AttemptTaken ==
  ASSUME NEW d \in net, OneAttempt(d.client), NEW used, net \subseteq Datagrams,
         d.type \in {"request", "response", "confirmation", "accepted"},
         NEW x \in net \ {d}, x.client = d.client
  PROVE  Onward(x, used).type \notin {"request", "response", "confirmation", "accepted"}
<1>1. Onward(x, used).type = x.type
  BY OnwardSame
<1>2. d \in Chain(d.client)
  BY DEF Chain, InFlight
<1>3. x.type \in {"request", "response", "confirmation", "accepted"} => x \in Chain(d.client)
  BY DEF Chain, InFlight
<1> QED
  BY <1>1, <1>2, <1>3 DEF OneAttempt

LEMMA TakeResponseKeeps ==
  ASSUME HandshakeInv, NEW d \in net, NEW copy \in BOOLEAN, TakeResponse(d, copy)
  PROVE  HandshakeInv'
<1> DEFINE c == d.client
           key == Min(KeysLeft(c))
           answer == Datagram("up", c, "confirmation", d.age, key)
<1>1. NetInv /\ TableInv /\ ClientInv /\ net \subseteq Datagrams
  BY DEF HandshakeInv, NetInv, Datagrams
<1>2. c \in Clients /\ d.age \in Ages
  BY <1>1 DEF Datagrams
<1>3. /\ running' = running /\ link' = link /\ table' = table /\ alarmed' = alarmed
      /\ strained' = IF copy THEN strained \cup {c} ELSE strained
      /\ link[c] = None /\ d.type = "response"
  BY DEF TakeResponse, Took
<1>4. TableInv'
  BY <1>1, <1>3 DEF TableInv, Occupied
<1>5. CASE requested[c] = None
  <2>1. requested' = requested /\ \A x \in net' : \E o \in net : x = Onward(o, FALSE) /\ o = x
    BY <1>5 DEF TakeResponse, Rest, Onward
  <2>2. NetInv'
    BY <1>1, <2>1, NetStep
  <2>3. ClientInv'
    BY <1>1, <1>3, <2>1 DEF ClientInv
  <2>4. ASSUME NEW x \in Clients \ strained' PROVE OneAttempt(x)'
    <3>1. OneAttempt(x)
      BY <1>3, <2>4 DEF HandshakeInv
    <3>2. Undisturbed(x, FALSE)
      BY <1>3, <2>1, <3>1 DEF Undisturbed, OneAttempt
    <3> QED
      BY <1>1, <3>1, <3>2, UndisturbedAttempt
  <2> QED
    BY <1>4, <2>2, <2>3, <2>4 DEF HandshakeInv
<1>6. CASE requested[c] # None
  <2>1. /\ key \in Keys
        /\ requested' = [requested EXCEPT ![c] = key]
        /\ \A x \in net' : x \in Rest(d, copy) \/ x = answer
    BY <1>6, NewKey, SendCarries DEF TakeResponse
  <2>2. /\ answer \in Datagrams /\ answer.client = c
        /\ answer.type = "confirmation" /\ answer.key = key
    <3> HIDE DEF key, c
    <3> QED
      BY <1>2, <2>1 DEF Datagram, Datagrams, Types
  <2> HIDE DEF answer, key
  <2>3. requested'[c] = key /\ key # None /\ key # Unset
    BY <1>1, <1>2, <2>1, BoundAssumption DEF ClientInv, Unset
  <2>4. \A x \in net' : (\E o \in net : x = Onward(o, FALSE)) \/ x = answer
    BY <2>1 DEF Rest, Onward
  <2>5. NetInv'
    <3>1. \A o \in net : requested'[o.client] = Unset => requested[o.client] = Unset
      BY <1>1, <2>1, <2>3 DEF ClientInv, Datagrams
    <3> QED
      BY <1>1, <2>1, <2>2, <2>3, <2>4, <3>1, NetStep
  <2>6. ClientInv'
    BY <1>1, <1>2, <1>3, <1>6, <2>1 DEF ClientInv
  <2>7. ASSUME NEW x \in Clients \ strained' PROVE OneAttempt(x)'
    <3>1. OneAttempt(x) /\ x \notin alarmed
      BY <1>3, <2>7 DEF HandshakeInv, OneAttempt
    <3>2. CASE x # c
      <4>1. link'[x] = link[x] /\ requested'[x] = requested[x]
        BY <1>1, <1>3, <2>1, <3>2 DEF ClientInv
      <4>2. Undisturbed(x, FALSE)
        BY <1>1, <1>3, <2>2, <2>4, <3>1, <3>2, <4>1, OthersUndisturbed
      <4> QED
        BY <1>1, <3>1, <4>2, UndisturbedAttempt
    <3>3. CASE x = c
      <4>1. ~copy
        BY <1>3, <2>7, <3>3
      <4>2. d \in Chain(c) /\ OneAttempt(c)
        BY <1>3, <3>1, <3>3 DEF Chain, InFlight
      <4>3. KeysOf(c) = {} /\ EntriesOf(c) = {}
        BY <1>3, <4>2 DEF OneAttempt
      <4>4. EntriesOf(c)' = {}
        BY <1>3, <4>3 DEF EntriesOf, Occupied
      <4>5. \A y \in net' : y.client = c => (y \in net /\ y # d) \/ y = answer
        BY <2>1, <4>1 DEF Rest
      <4>6. \A y \in net' : y.client = c /\ y # answer =>
              y.type \notin {"request", "response", "confirmation", "accepted"}
        BY <1>1, <1>3, <4>2, <4>5, AttemptTaken DEF Onward
      <4>7. \A y \in net' : y.client = c /\ y # answer =>
              y.type \notin {"confirmation", "data", "farewell"}
        BY <4>3, <4>5 DEF KeysOf, InFlight
      <4>8. Chain(c)' \subseteq {answer}
        BY <4>6 DEF Chain, InFlight
      <4>9. \A k \in KeysOf(c)' : k = key
        BY <1>3, <2>2, <2>3, <4>4, <4>7 DEF KeysOf, InFlight
      <4>10. link'[c] = None /\ c \notin alarmed'
        BY <1>3, <3>1, <3>3
      <4> QED
        BY <2>2, <3>3, <4>4, <4>8, <4>9, <4>10 DEF OneAttempt
    <3> QED
      BY <3>2, <3>3
  <2> QED
    BY <1>4, <2>5, <2>6, <2>7 DEF HandshakeInv
<1> QED
  BY <1>5, <1>6

LEMMA TakeAcceptedKeeps ==
  ASSUME HandshakeInv, NEW d \in net, NEW copy \in BOOLEAN, TakeAccepted(d, copy)
  PROVE  HandshakeInv'
<1> DEFINE c == d.client
           first == Up(c, "data", requested[c])
<1>1. NetInv /\ TableInv /\ ClientInv /\ net \subseteq Datagrams
  BY DEF HandshakeInv, NetInv, Datagrams
<1>2. c \in Clients
  BY <1>1 DEF Datagrams
<1>3. /\ running' = running /\ table' = table /\ alarmed' = alarmed
      /\ strained' = IF copy THEN strained \cup {c} ELSE strained
      /\ link[c] = None /\ d.type = "accepted"
  BY DEF TakeAccepted, Took
<1>4. TableInv'
  BY <1>1, <1>3 DEF TableInv, Occupied
<1>5. CASE requested[c] = None
  <2>1. /\ requested' = requested /\ link' = link
        /\ \A x \in net' : \E o \in net : x = Onward(o, FALSE) /\ o = x
    BY <1>5 DEF TakeAccepted, Wanted, Rest, Onward
  <2>2. NetInv'
    BY <1>1, <2>1, NetStep
  <2>3. ClientInv'
    BY <1>1, <1>3, <2>1 DEF ClientInv
  <2>4. ASSUME NEW x \in Clients \ strained' PROVE OneAttempt(x)'
    <3>1. OneAttempt(x)
      BY <1>3, <2>4 DEF HandshakeInv
    <3>2. Undisturbed(x, FALSE)
      BY <1>3, <2>1, <3>1 DEF Undisturbed, OneAttempt
    <3> QED
      BY <1>1, <3>1, <3>2, UndisturbedAttempt
  <2> QED
    BY <1>4, <2>2, <2>3, <2>4 DEF HandshakeInv
<1>6. CASE requested[c] # None
  <2>1. requested[c] \in Keys /\ requested[c] # Unset
    BY <1>1, <1>2, <1>3, <1>6 DEF NetInv, ClientInv
  <2>2. /\ link' = [link EXCEPT ![c] = requested[c]]
        /\ requested' = [requested EXCEPT ![c] = None]
        /\ \A x \in net' : x \in Rest(d, copy) \/ x = first
    BY <1>6, SendCarries DEF TakeAccepted, Wanted
  <2>3. /\ first \in Datagrams /\ first.client = c
        /\ first.type = "data" /\ first.key = requested[c]
    <3> HIDE DEF c
    <3> QED
      BY <1>2, <2>1 DEF Up, Datagram, Datagrams, Types, Ages
  <2> HIDE DEF first
  <2>4. link'[c] = requested[c] /\ requested'[c] = None
    BY <1>1, <1>2, <2>2 DEF ClientInv
  <2>5. \A x \in net' : (\E o \in net : x = Onward(o, FALSE)) \/ x = first
    BY <2>2 DEF Rest, Onward
  <2>6. NetInv'
    <3>1. \A o \in net : requested'[o.client] = Unset => requested[o.client] = Unset
      BY <1>1, <2>2, <2>4, BoundAssumption DEF ClientInv, Datagrams, Unset
    <3> QED
      BY <1>1, <2>1, <2>3, <2>5, <3>1, NetStep
  <2>7. ClientInv'
    BY <1>1, <1>2, <1>3, <1>6, <2>1, <2>2 DEF ClientInv
  <2>8. ASSUME NEW x \in Clients \ strained' PROVE OneAttempt(x)'
    <3>1. OneAttempt(x) /\ x \notin alarmed
      BY <1>3, <2>8 DEF HandshakeInv, OneAttempt
    <3>2. CASE x # c
      <4>1. link'[x] = link[x] /\ requested'[x] = requested[x]
        BY <1>1, <2>2, <3>2 DEF ClientInv
      <4>2. Undisturbed(x, FALSE)
        BY <1>1, <1>3, <2>3, <2>5, <3>1, <3>2, <4>1, OthersUndisturbed
      <4> QED
        BY <1>1, <3>1, <4>2, UndisturbedAttempt
    <3>3. CASE x = c
      <4>1. ~copy
        BY <1>3, <2>8, <3>3
      <4>2. \A y \in net' : y.client = c => (y \in net /\ y # d) \/ y = first
        BY <2>2, <4>1 DEF Rest
      <4>3. \A y \in net' : y.client = c =>
              y.type \notin {"request", "response", "confirmation", "accepted"}
        BY <1>1, <1>3, <2>3, <3>1, <3>3, <4>2, AttemptTaken DEF Onward
      <4>4. Chain(c)' = {}
        BY <4>3 DEF Chain, InFlight
      <4>5. requested[c] \in KeysOf(c) /\ EntriesOf(c)' = EntriesOf(c)
        BY <1>3, <1>6, <2>1 DEF KeysOf, EntriesOf, Occupied
      <4>6. KeysOf(c)' \subseteq KeysOf(c)
        <5>1. SUFFICES ASSUME NEW k \in KeysOf(c)' PROVE k \in KeysOf(c)
          OBVIOUS
        <5>2. CASE k \in {requested'[c], link'[c]} \ {None, Unset}
          BY <2>4, <4>5, <5>2
        <5>3. CASE \E i \in EntriesOf(c)' : k = table'[i].key
          BY <1>3, <4>5, <5>3 DEF KeysOf
        <5>4. CASE \E y \in net' : /\ y.client = c /\ k = y.key
                                   /\ y.type \in {"confirmation", "data", "farewell"}
          BY <2>3, <4>2, <4>5, <5>4 DEF KeysOf, InFlight
        <5> QED
          BY <5>1, <5>2, <5>3, <5>4 DEF KeysOf, InFlight
      <4>7. \A k, l \in KeysOf(c)' : k = l
        BY <3>1, <3>3, <4>6 DEF OneAttempt
      <4>8. c \notin alarmed'
        BY <1>3, <3>1, <3>3
      <4> QED
        BY <3>3, <4>4, <4>7, <4>8 DEF OneAttempt
    <3> QED
      BY <3>2, <3>3
  <2> QED
    BY <1>4, <2>6, <2>7, <2>8 DEF HandshakeInv
<1> QED
  BY <1>5, <1>6

LEMMA TakeRefusalKeeps ==
  ASSUME HandshakeInv, NEW d \in net, NEW copy \in BOOLEAN, TakeRefusal(d, copy)
  PROVE  HandshakeInv'
<1>1. NetInv /\ TableInv /\ ClientInv
  BY DEF HandshakeInv
<1>2. /\ running' = running /\ requested' = requested /\ link' = link
      /\ table' = table /\ alarmed' = alarmed /\ strained \subseteq strained'
      /\ \A x \in net' : \E o \in net : x = Onward(o, FALSE) /\ o = x
  BY DEF TakeRefusal, Took, clientVars, Rest, Onward
<1>3. NetInv' /\ TableInv' /\ ClientInv'
  BY <1>1, <1>2, NetStep DEF TableInv, ClientInv, Occupied
<1>4. ASSUME NEW x \in Clients \ strained' PROVE OneAttempt(x)'
  <2>1. OneAttempt(x)
    BY <1>2, <1>4 DEF HandshakeInv
  <2>2. Undisturbed(x, FALSE)
    BY <1>2, <2>1 DEF Undisturbed, OneAttempt
  <2> QED
    BY <1>1, <2>1, <2>2, UndisturbedAttempt
<1> QED
  BY <1>3, <1>4 DEF HandshakeInv

LEMMA TakeDataKeeps ==
  ASSUME HandshakeInv, NEW d \in net, NEW copy \in BOOLEAN, TakeData(d, copy)
  PROVE  HandshakeInv'
<1> DEFINE c == d.client
           ack == Up(c, "data", link[c])
<1>1. NetInv /\ TableInv /\ ClientInv /\ net \subseteq Datagrams
  BY DEF HandshakeInv, NetInv, Datagrams
<1>2. c \in Clients /\ d.type = "data" /\ link[c] = d.key /\ d.key \in Keys
  BY <1>1 DEF TakeData, NetInv, Datagrams
<1>3. /\ ack \in Datagrams /\ ack.client = c /\ ack.type = "data" /\ ack.key = d.key
  <2> HIDE DEF c
  <2> QED
    BY <1>2 DEF Up, Datagram, Datagrams, Types, Ages
<1>4. \A x \in net' : (\E o \in net : x = Onward(o, FALSE) /\ o = x) \/ x = ack
  BY SendCarries DEF TakeData, Rest, Onward
<1> HIDE DEF ack
<1>5. /\ running' = running /\ requested' = requested /\ link' = link
      /\ table' = table /\ alarmed' = alarmed /\ strained' = strained
  BY DEF TakeData, clientVars, historyVars
<1>6. NetInv'
  BY <1>1, <1>2, <1>3, <1>4, <1>5, NetStep
<1>7. TableInv' /\ ClientInv'
  BY <1>1, <1>5 DEF TableInv, ClientInv, Occupied
<1>8. ASSUME NEW x \in Clients \ strained' PROVE OneAttempt(x)'
  <2>1. OneAttempt(x) /\ x \notin alarmed
    BY <1>5, <1>8 DEF HandshakeInv, OneAttempt
  <2>2. d.key \in KeysOf(c)
    BY <1>2 DEF KeysOf, InFlight
  <2>3. Undisturbed(x, FALSE)
    BY <1>3, <1>4, <1>5, <2>1, <2>2 DEF Undisturbed
  <2> QED
    BY <1>1, <2>1, <2>3, UndisturbedAttempt
<1> QED
  BY <1>6, <1>7, <1>8 DEF HandshakeInv

(* A client whose attempt was a single one is never alarmed.                *)
LEMMA TakeForeignKeeps ==
  ASSUME HandshakeInv, NEW d \in net, NEW copy \in BOOLEAN, TakeForeign(d, copy)
  PROVE  HandshakeInv'
<1> DEFINE c == d.client
           bye == Up(c, "farewell", link[c])
<1>1. NetInv /\ TableInv /\ ClientInv /\ net \subseteq Datagrams
  BY DEF HandshakeInv, NetInv, Datagrams
<1>2. c \in Clients /\ link[c] # None /\ link[c] \in Keys /\ requested[c] = None
  BY <1>1 DEF TakeForeign, ClientInv, Datagrams
<1>3. /\ bye \in Datagrams /\ bye.client = c /\ bye.type = "farewell" /\ bye.key = link[c]
  <2> HIDE DEF c
  <2> QED
    BY <1>2 DEF Up, Datagram, Datagrams, Types, Ages
<1>4. \A x \in net' : (\E o \in net : x = Onward(o, FALSE)) \/ x = bye
  BY SendCarries DEF TakeForeign, Rest, Onward
<1> HIDE DEF bye
<1>5. /\ running' = running \ {c} /\ requested' = requested
      /\ link' = [link EXCEPT ![c] = None]
      /\ table' = table /\ alarmed' = alarmed \cup {c} /\ strained \subseteq strained'
  BY DEF TakeForeign, Took
<1>6. NetInv'
  BY <1>1, <1>2, <1>3, <1>4, <1>5, NetStep
<1>7. TableInv' /\ ClientInv'
  BY <1>1, <1>2, <1>5 DEF TableInv, ClientInv, Occupied
<1>8. ASSUME NEW x \in Clients \ strained' PROVE OneAttempt(x)'
  <2>1. OneAttempt(x) /\ x \notin alarmed
    BY <1>5, <1>8 DEF HandshakeInv, OneAttempt
  <2>2. x # c
    <3>1. SUFFICES ASSUME x = c PROVE FALSE
      OBVIOUS
    <3>2. Chain(c) = {} /\ d \in InFlight(c)
      BY <1>2, <2>1, <3>1 DEF OneAttempt, InFlight
    <3>3. d.type = "data" /\ link[c] # d.key
      BY <3>2 DEF TakeForeign, Chain
    <3>4. d.key \in KeysOf(c) /\ link[c] \in KeysOf(c)
      BY <1>2, <3>2, <3>3, BoundAssumption DEF KeysOf, Unset
    <3> QED
      BY <2>1, <3>1, <3>3, <3>4 DEF OneAttempt
  <2>3. link'[x] = link[x]
    BY <1>1, <1>5, <2>2 DEF ClientInv
  <2>4. Undisturbed(x, FALSE)
    BY <1>1, <1>3, <1>4, <1>5, <2>1, <2>2, <2>3, OthersUndisturbed
  <2> QED
    BY <1>1, <2>1, <2>4, UndisturbedAttempt
<1> QED
  BY <1>6, <1>7, <1>8 DEF HandshakeInv

-------------------------------------------------------------------------------
(* The server.                                                              *)

LEMMA TakeRequestKeeps ==
  ASSUME HandshakeInv, NEW d \in net, NEW copy \in BOOLEAN, TakeRequest(d, copy)
  PROVE  HandshakeInv'
<1> DEFINE c == d.client
           answers == {"full", "banned", "bad password", "response"}
<1>1. NetInv /\ TableInv /\ ClientInv /\ net \subseteq Datagrams
  BY DEF HandshakeInv, NetInv, Datagrams
<1>2. c \in Clients
  BY <1>1 DEF Datagrams
<1>3. /\ running' = running /\ requested' = requested /\ link' = link
      /\ table' = table /\ alarmed' = alarmed
      /\ strained' = IF copy THEN strained \cup {c} ELSE strained
      /\ EntriesOf(c) = {} /\ d.type = "request"
  BY DEF TakeRequest, Took, clientVars
<1>4. \A x \in net' : x \in Rest(d, copy) \/ \E t \in answers : x = Down(c, t, Unset)
  <2> DEFINE full == IF Cardinality(Occupied) >= allowed THEN {"full"} ELSE {}
             response == IF Refusal(c) = {} THEN {"response"} ELSE {}
             said == full \cup Refusal(c) \cup response
             out == {Down(c, t, Unset) : t \in said}
  <2>1. Send(Rest(d, copy), out)
    BY DEF TakeRequest
  <2>2. said \subseteq answers
    BY DEF Refusal
  <2>3. \A x \in net' : x \in Rest(d, copy) \/ x \in out
    <3> HIDE DEF out
    <3> QED
      BY <2>1, SendCarries
  <2>4. \A x \in out : \E t \in said : x = Down(c, t, Unset)
    <3> HIDE DEF said
    <3> QED
      OBVIOUS
  <2> HIDE DEF out, said, answers
  <2> QED
    BY <2>2, <2>3, <2>4
<1>5. ASSUME NEW t \in answers
      PROVE  /\ Down(c, t, Unset) \in Datagrams /\ Down(c, t, Unset).client = c
             /\ Down(c, t, Unset).type = t
  <2>1. t \in Types
    BY <1>5 DEF Types
  <2> HIDE DEF c, answers
  <2> QED
    BY <1>2, <2>1 DEF Down, Datagram, Datagrams, Ages
<1>6. \A x \in net' : \/ x \in Rest(d, copy)
                      \/ x \in Datagrams /\ x.client = c /\ x.type \in answers
  BY <1>4, <1>5
<1>7. \A x \in net' : x.type = "response" =>
        x \in Rest(d, copy) \/ x = Down(c, "response", Unset)
  BY <1>4, <1>5
<1>8. NetInv'
  <2>1. \A x \in net' : \/ \E o \in net : x = Onward(o, FALSE)
                        \/ x \in Datagrams /\ x.client = c /\ x.type \in answers
    BY <1>6 DEF Rest, Onward
  <2> QED
    BY <1>1, <1>3, <2>1, NetStep
<1>9. TableInv' /\ ClientInv'
  BY <1>1, <1>3 DEF TableInv, ClientInv, Occupied
<1>10. ASSUME NEW x \in Clients \ strained' PROVE OneAttempt(x)'
  <2>1. OneAttempt(x) /\ x \notin alarmed
    BY <1>3, <1>10 DEF HandshakeInv, OneAttempt
  <2>2. CASE x # c
    <3>1. \A y \in net' : (\E o \in net : y = Onward(o, FALSE)) \/ y.client = c
      BY <1>6 DEF Rest, Onward
    <3>2. Undisturbed(x, FALSE)
      BY <1>1, <1>3, <2>1, <2>2, <3>1, OthersUndisturbed
    <3> QED
      BY <1>1, <2>1, <3>2, UndisturbedAttempt
  <2>3. CASE x = c
    <3>1. ~copy
      BY <1>3, <1>10, <2>3
    <3>2. d \in Chain(c)
      BY <1>3 DEF Chain, InFlight
    <3>3. KeysOf(c) = {} /\ link[c] = None
      BY <1>3, <2>1, <2>3, <3>2 DEF OneAttempt
    <3>4. EntriesOf(c)' = {}
      BY <1>3 DEF EntriesOf, Occupied
    <3>5. \A y \in net' : y.client = c => (y \in net /\ y # d) \/ y.type \in answers
      BY <1>6, <3>1 DEF Rest
    <3>6. \A y \in net : y.client = c /\ y # d =>
            y.type \notin {"request", "response", "confirmation", "accepted"}
      BY <1>1, <1>3, <2>1, <2>3, AttemptTaken DEF Onward
    <3>7. Chain(c)' \subseteq {Down(c, "response", Unset)}
      BY <1>7, <3>1, <3>5, <3>6 DEF Chain, InFlight, Rest
    <3>8. KeysOf(c)' = {}
      <4>0. \A y \in net : y.client = c =>
              y.type \notin {"confirmation", "data", "farewell"}
        BY <3>3 DEF KeysOf, InFlight
      <4>1. \A y \in net' : y.client = c =>
              y.type \notin {"confirmation", "data", "farewell"}
        BY <3>5, <4>0
      <4> QED
        BY <1>3, <3>3, <3>4, <4>1 DEF KeysOf, InFlight
    <3>9. link'[c] = None /\ c \notin alarmed'
      BY <1>3, <2>1, <2>3, <3>3
    <3> QED
      BY <2>3, <3>4, <3>7, <3>8, <3>9 DEF OneAttempt
  <2> QED
    BY <2>2, <2>3
<1> QED
  BY <1>8, <1>9, <1>10 DEF HandshakeInv

(* The answer to a confirmation, and what its use does to the cookies.      *)
LEMMA ConfirmationStep ==
  ASSUME NEW d \in net, NEW copy \in BOOLEAN, TakeConfirmation(d, copy),
         NEW c, c = d.client, net \subseteq Datagrams
  PROVE  \E used \in BOOLEAN :
           \/ /\ table' = table
              /\ \A x \in net' : \/ \E o \in Rest(d, copy) : x = Onward(o, used)
                                 \/ x = Down(c, "full", Unset)
           \/ /\ \A x \in net' : \/ \E o \in Rest(d, copy) : x = Onward(o, used)
                                 \/ x = Down(c, "accepted", Unset)
              /\ \E i \in Indexes \ Occupied :
                   table' = [table EXCEPT ![i] = [client |-> c, key |-> d.key, waiting |-> FALSE]]
<1> DEFINE rest == AfterUse(d.age, Rest(d, copy))
<1>1. \E used \in BOOLEAN : \A x \in rest : \E o \in Rest(d, copy) : x = Onward(o, used)
  <2>1. CASE d.age = 0
    <3>1. \A x \in rest : \E o \in Rest(d, copy) : x = Onward(o, TRUE)
      BY <2>1 DEF AfterUse, Onward
    <3> QED
      BY <3>1
  <2>2. CASE d.age # 0
    <3>1. \A x \in rest : \E o \in Rest(d, copy) : x = Onward(o, FALSE)
      BY <2>2 DEF AfterUse, Onward
    <3> QED
      BY <3>1
  <2> QED
    BY <2>1, <2>2
<1>2. PICK used \in BOOLEAN : \A x \in rest : \E o \in Rest(d, copy) : x = Onward(o, used)
  BY <1>1
<1>3. CASE net' = Rest(d, copy) /\ table' = table
  <2>1. \A x \in net' : \E o \in Rest(d, copy) : x = Onward(o, FALSE)
    BY <1>3 DEF Onward
  <2> QED
    BY <1>3, <2>1
<1>4. CASE Send(rest, {Down(c, "full", Unset)}) /\ table' = table
  <2>1. \A x \in net' : x \in rest \/ x = Down(c, "full", Unset)
    <3> HIDE DEF rest
    <3> QED
      BY <1>4, SendCarries
  <2> QED
    BY <1>2, <1>4, <2>1
<1>5. CASE net' = rest /\ table' = table
  BY <1>2, <1>5
<1>6. CASE /\ Send(rest, {Down(c, "accepted", Unset)})
           /\ Indexes \ Occupied # {}
           /\ table' = [table EXCEPT ![Min(Indexes \ Occupied)] =
                          [client |-> c, key |-> d.key, waiting |-> FALSE]]
  <2>1. \A x \in net' : x \in rest \/ x = Down(c, "accepted", Unset)
    <3> HIDE DEF rest
    <3> QED
      BY <1>6, SendCarries
  <2>2. Min(Indexes \ Occupied) \in Indexes \ Occupied
    BY <1>6, FreePlace
  <2>3. \E i \in Indexes \ Occupied :
          table' = [table EXCEPT ![i] = [client |-> c, key |-> d.key, waiting |-> FALSE]]
    BY <1>6, <2>2
  <2>4. \A x \in net' : \/ \E o \in Rest(d, copy) : x = Onward(o, used)
                        \/ x = Down(c, "accepted", Unset)
    BY <1>2, <2>1
  <2> QED
    BY <2>3, <2>4
<1> QED
  BY <1>3, <1>4, <1>5, <1>6 DEF TakeConfirmation

LEMMA TakeConfirmationKeeps ==
  ASSUME HandshakeInv, NEW d \in net, NEW copy \in BOOLEAN, TakeConfirmation(d, copy)
  PROVE  HandshakeInv'
<1>1. NetInv /\ TableInv /\ ClientInv /\ net \subseteq Datagrams
  BY DEF HandshakeInv, NetInv, Datagrams
<1>2. PICK c \in Clients : c = d.client
  BY <1>1 DEF Datagrams
<1>3. /\ running' = running /\ requested' = requested /\ link' = link /\ alarmed' = alarmed
      /\ strained' = IF copy THEN strained \cup {c} ELSE strained
      /\ EntriesOf(c) = {} /\ d.type = "confirmation"
  BY <1>2 DEF TakeConfirmation, Took, clientVars
<1>4. d.key \in Keys /\ requested[c] # Unset
  BY <1>1, <1>2, <1>3 DEF NetInv
<1> DEFINE Stays == table' = table
           Enters(i) == table' = [table EXCEPT ![i] = [client |-> c, key |-> d.key, waiting |-> FALSE]]
<1>5. PICK used \in BOOLEAN, t \in {"full", "accepted"} :
        /\ \A x \in net' : \/ \E o \in Rest(d, copy) : x = Onward(o, used)
                           \/ x = Down(c, t, Unset)
        /\ \/ Stays /\ t = "full"
           \/ t = "accepted" /\ \E i \in Indexes \ Occupied : Enters(i)
  <2>1. PICK used \in BOOLEAN :
           \/ /\ table' = table
              /\ \A x \in net' : \/ \E o \in Rest(d, copy) : x = Onward(o, used)
                                 \/ x = Down(c, "full", Unset)
           \/ /\ \A x \in net' : \/ \E o \in Rest(d, copy) : x = Onward(o, used)
                                 \/ x = Down(c, "accepted", Unset)
              /\ \E i \in Indexes \ Occupied :
                   table' = [table EXCEPT ![i] = [client |-> c, key |-> d.key, waiting |-> FALSE]]
    BY <1>1, <1>2, ConfirmationStep
  <2> QED
    BY <2>1
<1> DEFINE answer == Down(c, t, Unset)
<1>6. answer \in Datagrams /\ answer.client = c /\ answer.type = t
  <2>1. t \in Types
    BY DEF Types
  <2> QED
    BY <2>1 DEF Down, Datagram, Datagrams, Ages
<1> HIDE DEF answer
<1>7. \A x \in net' : (\E o \in net : x = Onward(o, used)) \/ x = answer
  BY <1>5 DEF Rest, answer
<1>8. NetInv'
  <2>1. answer.type \notin {"confirmation", "data", "farewell"} /\ requested'[answer.client] # Unset
    BY <1>3, <1>4, <1>6
  <2> QED
    BY <1>1, <1>3, <1>6, <1>7, <2>1, NetStep
<1>9. ClientInv'
  BY <1>1, <1>3 DEF ClientInv
<1>10. \A i \in Indexes : table'[i] # table[i] => /\ table[i] = None /\ table'[i].client = c
                                                  /\ table'[i].key = d.key
  <2>1. CASE Stays
    BY <2>1
  <2>2. CASE \E i \in Indexes \ Occupied : Enters(i)
    <3>1. PICK i \in Indexes \ Occupied : Enters(i)
      BY <2>2
    <3> QED
      BY <1>1, <3>1 DEF TableInv, Occupied
  <2> QED
    BY <1>5, <2>1, <2>2
<1>11. TableInv'
  <2>1. CASE Stays
    BY <1>1, <2>1 DEF TableInv, Occupied
  <2>2. CASE \E i \in Indexes \ Occupied : Enters(i)
    <3>1. PICK i \in Indexes \ Occupied : Enters(i)
      BY <2>2
    <3>2. table' \in [Indexes -> [client : Clients, key : Keys, waiting : BOOLEAN] \cup {None}]
      BY <1>1, <1>4, <3>1 DEF TableInv
    <3>3. \A j \in Indexes : j # i => table'[j] = table[j]
      BY <1>1, <3>1 DEF TableInv
    <3>4. \A j \in Occupied : table[j].client # c
      BY <1>3 DEF EntriesOf
    <3>5. table'[i].client = c
      BY <1>1, <3>1 DEF TableInv
    <3>6. \A j, k \in Occupied' : table'[j].client = table'[k].client => j = k
      BY <1>1, <3>3, <3>4, <3>5 DEF TableInv, Occupied
    <3> QED
      BY <3>2, <3>6 DEF TableInv
  <2> QED
    BY <1>5, <2>1, <2>2
<1>12. ASSUME NEW x \in Clients \ strained' PROVE OneAttempt(x)'
  <2>1. OneAttempt(x) /\ x \notin alarmed
    BY <1>3, <1>12 DEF HandshakeInv, OneAttempt
  <2>2. CASE x # c
    <3>1. \A i \in Indexes : table'[i] # None /\ table'[i].client = x =>
            table[i] # None /\ table[i].client = x /\ table'[i].key = table[i].key
      BY <1>10, <2>2
    <3>2. \A y \in net' : (\E o \in net : y = Onward(o, used)) \/ y.client = c
      BY <1>6, <1>7
    <3>3. Undisturbed(x, used)
      BY <1>1, <1>3, <2>1, <2>2, <3>1, <3>2, OthersUndisturbed
    <3> QED
      BY <1>1, <2>1, <3>3, UndisturbedAttempt
  <2>3. CASE x = c
    <3>1. ~copy /\ OneAttempt(c) /\ c \notin alarmed'
      BY <1>3, <1>12, <2>1, <2>3
    <3>2. d \in Chain(c) /\ d.key \in KeysOf(c)
      BY <1>2, <1>3 DEF Chain, KeysOf, InFlight
    <3>3. link[c] = None
      BY <3>1, <3>2 DEF OneAttempt
    <3>4. ASSUME NEW y \in net', y.client = c, y # answer
          PROVE  /\ y.type \notin {"request", "response", "confirmation", "accepted"}
                 /\ \E o \in net : o.client = c /\ o.type = y.type /\ o.key = y.key
      <4>1. PICK o \in net \ {d} : y = Onward(o, used)
        BY <1>5, <3>1, <3>4 DEF Rest, answer
      <4>2. o.client = y.client /\ o.type = y.type /\ o.key = y.key
        BY <1>1, <4>1, OnwardSame
      <4> QED
        BY <1>1, <1>2, <1>3, <3>1, <3>4, <4>1, <4>2, AttemptTaken
    <3>5. Chain(c)' \subseteq {answer}
      BY <3>4 DEF Chain, InFlight
    <3>6. EntriesOf(c)' # {} => t = "accepted"
      <4>1. EntriesOf(c)' # {} => ~Stays
        BY <1>3 DEF EntriesOf, Occupied
      <4> QED
        BY <1>5, <4>1
    <3>7. \A i \in EntriesOf(c)' : table'[i].key = d.key
      BY <1>3, <1>10 DEF EntriesOf, Occupied
    <3>8. KeysOf(c)' \subseteq KeysOf(c)
      <4>1. SUFFICES ASSUME NEW k \in KeysOf(c)' PROVE k \in KeysOf(c)
        OBVIOUS
      <4>2. CASE k \in {requested'[c], link'[c]} \ {None, Unset}
        BY <1>3, <4>2 DEF KeysOf
      <4>3. CASE \E i \in EntriesOf(c)' : k = table'[i].key
        BY <3>2, <3>7, <4>3
      <4>4. CASE \E y \in net' : /\ y.client = c /\ k = y.key
                                 /\ y.type \in {"confirmation", "data", "farewell"}
        <5>1. PICK y \in net' : /\ y.client = c /\ k = y.key
                               /\ y.type \in {"confirmation", "data", "farewell"}
          BY <4>4
        <5>2. y # answer
          BY <1>6, <5>1
        <5>3. PICK o \in net : o.client = c /\ o.type = y.type /\ o.key = y.key
          BY <3>4, <5>1, <5>2
        <5> QED
          BY <5>1, <5>3 DEF KeysOf, InFlight
      <4> QED
        BY <4>1, <4>2, <4>3, <4>4 DEF KeysOf, InFlight
    <3>9. \A k, l \in KeysOf(c)' : k = l
      BY <3>1, <3>8 DEF OneAttempt
    <3>10. \A y \in Chain(c)' : y.type \notin {"request", "response"}
      BY <1>6, <3>5
    <3>11. link'[c] = None
      BY <1>3, <3>3
    <3> QED
      BY <1>6, <2>3, <3>1, <3>5, <3>6, <3>9, <3>10, <3>11 DEF OneAttempt
  <2> QED
    BY <2>2, <2>3
<1> QED
  BY <1>8, <1>9, <1>11, <1>12 DEF HandshakeInv

(* A step that only takes from the network and from the table.              *)
LEMMA TakingAwayKeeps ==
  ASSUME HandshakeInv,
         running' = running, requested' = requested, link' = link, alarmed' = alarmed,
         strained \subseteq strained', net' \subseteq net, TableInv',
         \A i \in Indexes : table'[i] # None =>
           table[i] # None /\ table'[i].client = table[i].client /\ table'[i].key = table[i].key
  PROVE  HandshakeInv'
<1>1. NetInv /\ ClientInv
  BY DEF HandshakeInv
<1>2. \A x \in net' : \E o \in net : x = Onward(o, FALSE) /\ o = x
  BY DEF Onward
<1>3. NetInv' /\ ClientInv'
  BY <1>1, <1>2, NetStep DEF ClientInv
<1>4. ASSUME NEW x \in Clients \ strained' PROVE OneAttempt(x)'
  <2>1. OneAttempt(x)
    BY <1>4 DEF HandshakeInv
  <2>2. Undisturbed(x, FALSE)
    BY <1>2, <2>1 DEF Undisturbed, OneAttempt
  <2> QED
    BY <1>1, <2>1, <2>2, UndisturbedAttempt
<1> QED
  BY <1>3, <1>4 DEF HandshakeInv

LEMMA TakeConnectedKeeps ==
  ASSUME HandshakeInv, NEW d \in net, NEW copy \in BOOLEAN, TakeConnected(d, copy)
  PROVE  HandshakeInv'
<1>1. TableInv
  BY DEF HandshakeInv
<1>2. \A i \in Indexes : table'[i] \in {None, table[i], [table[i] EXCEPT !.waiting = FALSE]}
  BY DEF TakeConnected
<1>3. \A i \in Indexes : table'[i] = [table[i] EXCEPT !.waiting = FALSE] =>
        table'[i] = table[i] \/ i \in Occupied
  BY DEF TakeConnected, EntriesOf
<1>4. \A i \in Indexes : table'[i] # None =>
        table[i] # None /\ table'[i].client = table[i].client /\ table'[i].key = table[i].key
  BY <1>1, <1>2, <1>3 DEF TableInv, Occupied
<1>5. table' \in [Indexes -> Entry \cup {None}]
  <2>1. ASSUME NEW i \in Indexes PROVE table'[i] \in Entry \cup {None}
    <3>1. table[i] \in Entry \cup {None}
      BY <1>1 DEF TableInv, Entry
    <3>2. CASE table'[i] = table[i] \/ table'[i] = None
      BY <3>1, <3>2
    <3>3. CASE i \in Occupied /\ table'[i] = [table[i] EXCEPT !.waiting = FALSE]
      <4>1. table[i] \in Entry
        BY <3>1, <3>3 DEF Occupied
      <4> QED
        BY <3>3, <4>1 DEF Entry
    <3> QED
      BY <1>2, <1>3, <3>2, <3>3
  <2>2. table' = [i \in Indexes |-> table'[i]]
    BY DEF TakeConnected
  <2> QED
    BY <2>1, <2>2
<1>6. TableInv'
  BY <1>1, <1>4, <1>5 DEF TableInv, Occupied, Entry
<1>7. /\ running' = running /\ requested' = requested /\ link' = link
      /\ alarmed' = alarmed /\ strained \subseteq strained' /\ net' \subseteq net
  BY DEF TakeConnected, Took, Rest, clientVars
<1> QED
  BY <1>4, <1>6, <1>7, TakingAwayKeeps

LEMMA GiveUpKeeps ==
  ASSUME HandshakeInv, NEW i \in Indexes, GiveUp(i)
  PROVE  HandshakeInv'
<1>1. TableInv /\ table' = [table EXCEPT ![i] = None]
  BY DEF HandshakeInv, GiveUp
<1>2. \A j \in Indexes : table'[j] # None => table[j] # None /\ table'[j] = table[j]
  BY <1>1 DEF TableInv
<1>3. TableInv'
  BY <1>1, <1>2 DEF TableInv, Occupied
<1> QED
  BY <1>2, <1>3, TakingAwayKeeps DEF GiveUp, clientVars, historyVars

LEMMA UnrelatedKeeps ==
  ASSUME HandshakeInv, Expire \/ Console \/ UNCHANGED vars
  PROVE  HandshakeInv'
<1>1. /\ running' = running /\ requested' = requested /\ link' = link /\ table' = table
      /\ net' = net /\ strained' = strained /\ alarmed' = alarmed
  BY DEF Expire, Console, vars, clientVars, historyVars
<1>2. TableInv'
  BY <1>1 DEF HandshakeInv, TableInv, Occupied
<1> QED
  BY <1>1, <1>2, TakingAwayKeeps

LEMMA SendSeedKeeps ==
  ASSUME HandshakeInv, SendSeed
  PROVE  HandshakeInv'
<1>1. NetInv /\ TableInv /\ ClientInv
  BY DEF HandshakeInv
<1>2. /\ running' = running /\ requested' = requested /\ link' = link
      /\ strained' = strained /\ alarmed' = alarmed
      /\ table' = [i \in Indexes |-> IF i \in Occupied THEN Kept(table[i]) ELSE None]
  BY DEF SendSeed, clientVars, historyVars
<1>3. \A i \in Occupied : table[i] \in Entry /\ i \in Indexes
  BY <1>1 DEF TableInv, Occupied, Entry
<1>4. ASSUME NEW i \in Occupied
      PROVE  Kept(table[i]) \in Entry /\ Kept(table[i]).client = table[i].client
             /\ Kept(table[i]).key = table[i].key
  BY <1>3 DEF Kept, Entry
<1>5. \A i \in Indexes : table'[i] # None =>
        table[i] # None /\ table'[i].client = table[i].client /\ table'[i].key = table[i].key
  BY <1>2, <1>4 DEF Occupied
<1>6. TableInv'
  <2>1. table' \in [Indexes -> Entry \cup {None}]
    BY <1>2, <1>4
  <2> QED
    BY <1>1, <1>5, <2>1 DEF TableInv, Occupied, Entry
<1>7. \A x \in net' : \/ \E o \in net : x = Onward(o, FALSE) /\ o = x
                      \/ \E i \in Occupied : x = Down(table[i].client, "data", table[i].key)
  BY SendCarries DEF SendSeed, Onward
<1>8. ASSUME NEW i \in Occupied
      PROVE  LET x == Down(table[i].client, "data", table[i].key)
             IN x \in Datagrams /\ x.client = table[i].client /\ x.type = "data" /\ x.key = table[i].key
  <2>1. table[i].client \in Clients /\ table[i].key \in Keys
    BY <1>3 DEF Entry
  <2> QED
    BY <2>1 DEF Down, Datagram, Datagrams, Ages, Types
<1>9. \A x \in net' : \/ \E o \in net : x = Onward(o, FALSE) /\ o = x
                      \/ /\ x \in Datagrams /\ x.type = "data" /\ x.key \in Keys
                         /\ \E i \in Occupied : x.client = table[i].client /\ x.key = table[i].key
  <2>1. SUFFICES ASSUME NEW x \in net', NEW i \in Occupied,
                        x = Down(table[i].client, "data", table[i].key)
                 PROVE  /\ x \in Datagrams /\ x.type = "data" /\ x.key \in Keys
                        /\ x.client = table[i].client /\ x.key = table[i].key
    BY <1>7
  <2> QED
    BY <1>3, <1>8, <2>1 DEF Entry
<1>10. NetInv'
  BY <1>1, <1>2, <1>9, NetStep
<1>11. ClientInv'
  BY <1>1, <1>2 DEF ClientInv
<1>12. ASSUME NEW x \in Clients \ strained' PROVE OneAttempt(x)'
  <2>1. OneAttempt(x) /\ x \notin alarmed'
    BY <1>2, <1>12 DEF HandshakeInv, OneAttempt
  <2>2. \A i \in Occupied : table[i].client = x => table[i].key \in KeysOf(x)
    BY DEF KeysOf, EntriesOf
  <2>3. ASSUME NEW y \in net', y.client = x
        PROVE  \/ \E o \in net : o.client = x /\ y = Onward(o, FALSE)
               \/ y.type \in {"data", "farewell"} /\ y.key \in KeysOf(x)
    BY <1>9, <2>2, <2>3
  <2>4. \A i \in Indexes : table'[i] # None /\ table'[i].client = x =>
          table[i] # None /\ table[i].client = x /\ table'[i].key = table[i].key
    BY <1>5
  <2>5. Undisturbed(x, FALSE)
    BY <1>2, <2>1, <2>3, <2>4 DEF Undisturbed
  <2> QED
    BY <1>1, <2>1, <2>5, UndisturbedAttempt
<1> QED
  BY <1>6, <1>10, <1>11, <1>12 DEF HandshakeInv

-------------------------------------------------------------------------------
(* HandshakeInv is an invariant: what a datagram, the table and a client may *)
(* hold, and that a client that asked once takes one way through the         *)
(* handshake (RakPeer's ProcessNetworkPacket, SecuredConnectionResponse and  *)
(* SecuredConnectionConfirmation).                                          *)
THEOREM HandshakeInvariance == Spec => []HandshakeInv
<1>1. Init => HandshakeInv
  <2>1. SUFFICES ASSUME Init PROVE HandshakeInv
    OBVIOUS
  <2>2. TableInv
    BY <2>1 DEF Init, TableInv, Occupied
  <2>3. \A c \in Clients : Chain(c) = {} /\ EntriesOf(c) = {} /\ KeysOf(c) = {}
    BY <2>1 DEF Init, Chain, EntriesOf, KeysOf, InFlight, Occupied
  <2>4. \A c \in Clients : OneAttempt(c)
    BY <2>1, <2>3 DEF Init, OneAttempt
  <2> QED
    BY <2>1, <2>2, <2>4 DEF Init, HandshakeInv, NetInv, ClientInv
<1>2. HandshakeInv /\ [Next]_vars => HandshakeInv'
  <2>1. SUFFICES ASSUME HandshakeInv, [Next]_vars PROVE HandshakeInv'
    OBVIOUS
  <2>2. CASE \E c \in Clients :
               Start(c) \/ AskAgain(c) \/ Abandon(c) \/ LoseConnection(c) \/ Quit(c)
    BY <2>1, <2>2, StartKeeps, AskAgainKeeps, LettingGoKeeps
  <2>3. CASE \E d \in net, copy \in {FALSE, Copies} : TakeUp(d, copy)
    <3>1. PICK d \in net, copy \in BOOLEAN : TakeUp(d, copy)
      BY <2>3, BoundAssumption
    <3> QED
      BY <2>1, <3>1, TakeRequestKeeps, TakeConfirmationKeeps, TakeConnectedKeeps DEF TakeUp
  <2>4. CASE \E d \in net, copy \in {FALSE, Copies} : TakeDown(d, copy)
    <3>1. PICK d \in net, copy \in BOOLEAN : TakeDown(d, copy)
      BY <2>4, BoundAssumption
    <3> QED
      BY <2>1, <3>1, TakeResponseKeeps, TakeAcceptedKeeps, TakeRefusalKeeps,
         TakeDataKeeps, TakeForeignKeeps DEF TakeDown
  <2>5. CASE SendSeed
    BY <2>1, <2>5, SendSeedKeeps
  <2>6. CASE \E i \in Indexes : GiveUp(i)
    BY <2>1, <2>6, GiveUpKeeps
  <2>7. CASE Expire \/ Console \/ UNCHANGED vars
    BY <2>1, <2>7, UnrelatedKeeps
  <2> QED
    BY <2>1, <2>2, <2>3, <2>4, <2>5, <2>6, <2>7 DEF Next
<1> QED
  BY <1>1, <1>2, PTL DEF Spec

(* The state is what RakPeer declares, and the table never holds two entries *)
(* of one address, however requests and confirmations are repeated (the test *)
(* by address in ProcessNetworkPacket, RakPeer.cpp:2952).                    *)
THEOREM TypeCorrect == Spec => []TypeOK
<1>1. HandshakeInv => TypeOK
  <2>1. SUFFICES ASSUME HandshakeInv PROVE TypeOK
    OBVIOUS
  <2>2. ASSUME NEW i \in Occupied
        PROVE  /\ table[i].client \in Clients
               /\ table[i].key \in Keys
               /\ table[i].waiting \in BOOLEAN
    BY <2>1, <2>2 DEF HandshakeInv, TableInv, Occupied
  <2>3. ASSUME NEW c \in Clients PROVE Cardinality(EntriesOf(c)) <= 1
    <3>1. \A i, j \in EntriesOf(c) : i = j
      BY <2>1 DEF HandshakeInv, TableInv, EntriesOf
    <3>2. CASE EntriesOf(c) = {}
      BY <3>2, FS_EmptySet
    <3>3. CASE EntriesOf(c) # {}
      <4>1. PICK i : EntriesOf(c) = {i}
        BY <3>1, <3>3
      <4> QED
        BY <4>1, FS_Singleton
    <3> QED
      BY <3>2, <3>3
  <2> QED
    BY <2>1, <2>2, <2>3 DEF HandshakeInv, ClientInv, TypeOK
<1> QED
  BY <1>1, HandshakeInvariance, PTL

(* If the first request and its answers come through unrepeated, both ends   *)
(* encrypt with one key and the game is not told of a modified packet.      *)
THEOREM OneRequestSafety == Spec => []OneRequestIsSafe
<1>1. HandshakeInv => OneRequestIsSafe
  <2>1. SUFFICES ASSUME HandshakeInv, NEW c \in Clients \ strained
                 PROVE  /\ c \notin alarmed
                        /\ \A i \in EntriesOf(c) : link[c] # None => link[c] = table[i].key
    BY DEF OneRequestIsSafe
  <2>2. OneAttempt(c) /\ link[c] \in Keys \cup {None}
    BY <2>1 DEF HandshakeInv, ClientInv
  <2>3. ASSUME NEW i \in EntriesOf(c), link[c] # None PROVE link[c] = table[i].key
    <3>1. link[c] \in KeysOf(c) /\ table[i].key \in KeysOf(c)
      BY <2>2, <2>3, BoundAssumption DEF KeysOf, Unset
    <3> QED
      BY <2>2, <3>1 DEF OneAttempt
  <2> QED
    BY <2>2, <2>3 DEF OneAttempt
<1> QED
  BY <1>1, HandshakeInvariance, PTL
===============================================================================
