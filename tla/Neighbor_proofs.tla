---------------------------- MODULE Neighbor_proofs ----------------------------
(***************************************************************************)
(* What two neighbors know of each other, for every number of connections  *)
(* and frames, and every pair of times that NeighborAssumption allows.     *)
(* First the state without its clocks: types, the addresses of an entry,   *)
(* and the connections these lead to (StateInv).  Then the clocks          *)
(* (TimeInv): how old an entry can be, seen from the time that has passed  *)
(* since the other end last said hello.                                    *)
(***************************************************************************)
EXTENDS Neighbor, TLAPS

Known == [address : Links \cup {"server"}, port : Links]

Entries ==
  [addresses : Seq(Known), sendHello : (0..SEND_HELLO_INTERVAL) \cup {Off},
   expiration : 0..NEIGHBOR_EXPIRATION_TIMEOUT]

Frames == [from : Nodes, link : Links, type : {"Hello", "KeepAlive", "Data"}]

OneAtMost(entries) == \A e, f \in entries : e = f

TypeOK ==
  /\ entry \in [Nodes -> SUBSET Entries] /\ \A n \in Nodes : OneAtMost(entry[n])
  /\ open \in [Nodes -> SUBSET Links] /\ connections \in [Nodes -> SUBSET Links]
  /\ connecting \in SUBSET Connections
  /\ network \in SUBSET Frames /\ delayed \in [Nodes -> SUBSET Frames]
  /\ hellos \in Nat /\ disturbances \in Nat
  /\ calm \in 0..Settling
  /\ flaws \in SUBSET Flaws

(* The addresses of an entry of n differ by their ports and tell them; a    *)
(* timer that is not set tells of the flaw.                                 *)
EntryOK(n, e) ==
  /\ \A i, j \in DOMAIN e.addresses : e.addresses[i].port = e.addresses[j].port => i = j
  /\ \A i \in DOMAIN e.addresses : e.addresses[i].address = Address(n, e.addresses[i].port)
  /\ e.sendHello = Off => "unarmed" \in flaws

EntriesInv == \A n \in Nodes : \A e \in entry[n] : EntryOK(n, e)

(* Whatever is not at rest has happened just now.                           *)
CalmInv ==
  /\ open[Client] # open[Server] => calm = 0
  /\ \A frame \in network : frame.type = "Hello" => calm = 0
  /\ \A n \in Nodes : \A frame \in delayed[n] : frame.type = "Data" /\ frame.from = Other(n)

(* #connections tells which ports are open, and an end knows only addresses *)
(* of open ports; there is one connection between the two at a time.        *)
Live ==
  /\ \A n \in Nodes : Serial \in open[n] /\ open[n] = connections[n]
  /\ \A n \in Nodes : \A e \in entry[n] : \A i \in DOMAIN e.addresses :
       e.addresses[i].port \in open[n]
  /\ \A c, d \in connecting : c = d
  /\ connecting # {} => connections[Client] \cap Connections = {}
  /\ \A c, d \in open[Client] \cap Connections : c = d

LiveInv == flaws \cap {"twice", "late"} = {} => Live

StateInv == TypeOK /\ EntriesInv /\ CalmInv /\ LiveInv

-----------------------------------------------------------------------------
(* The operators. *)

LEMMA OtherType ==
  ASSUME NEW n \in Nodes
  PROVE  Other(n) \in Nodes /\ Other(n) # n /\ Other(Other(n)) = n /\ Nodes = {n, Other(n)}
BY NeighborAssumption DEF Other, Nodes

LEMMA Times ==
  /\ SEND_HELLO_INTERVAL \in Nat /\ SEND_HELLO_INTERVAL > 0
  /\ NEIGHBOR_EXPIRATION_TIMEOUT \in Nat
  /\ NEIGHBOR_EXPIRATION_TIMEOUT > 2 * SEND_HELLO_INTERVAL
  /\ Settling = NEIGHBOR_EXPIRATION_TIMEOUT + SEND_HELLO_INTERVAL + 1 /\ Settling \in Nat
  /\ Off = -1
BY NeighborAssumption DEF Settling, Off

LEMMA AddressParts ==
  ASSUME NEW n \in Nodes, NEW link \in Links
  PROVE  /\ Address(n, link) \in Links \cup {"server"}
         /\ [address |-> Address(n, link), port |-> link] \in Known
         /\ IsWebSocket(n, Address(n, link)) => link \in Connections
         /\ Address(n, link) = Address(n, Serial) => link = Serial
         /\ n = Server \/ link = Serial => Address(n, link) = link
         /\ n = Client /\ link # Serial => Address(n, link) = "server"
BY NeighborAssumption DEF Address, Links, Known, IsWebSocket, Nodes

LEMMA EntryParts ==
  ASSUME NEW e \in Entries
  PROVE  /\ e.addresses \in Seq(Known)
         /\ e.sendHello \in (0..SEND_HELLO_INTERVAL) \cup {Off}
         /\ e.expiration \in 0..NEIGHBOR_EXPIRATION_TIMEOUT
BY DEF Entries

LEMMA FrameType ==
  ASSUME NEW n \in Nodes, NEW link \in Links, NEW type \in {"Hello", "KeepAlive", "Data"}
  PROVE  /\ Frame(n, link, type) \in Frames
         /\ Frame(n, link, type).from = n /\ Frame(n, link, type).type = type
BY DEF Frame, Frames

LEMMA SentType ==
  ASSUME NEW n \in Nodes, NEW type \in {"Hello", "KeepAlive", "Data"}
  PROVE  /\ \A links \in SUBSET Links : \A frame \in SentOver(n, links, type) :
              frame \in Frames /\ frame.from = n /\ frame.type = type
         /\ \A address : \A frame \in Sent(n, address, type) :
              frame \in Frames /\ frame.from = n /\ frame.type = type
<1>1. ASSUME NEW links \in SUBSET Links, NEW frame \in SentOver(n, links, type)
      PROVE  frame \in Frames /\ frame.from = n /\ frame.type = type
  BY <1>1, FrameType DEF SentOver
<1>2. ASSUME NEW address, NEW frame \in Sent(n, address, type)
      PROVE  frame \in Frames /\ frame.from = n /\ frame.type = type
  BY <1>1, <1>2 DEF Sent
<1> QED BY <1>1, <1>2

LEMMA OneOrNone ==
  ASSUME TypeOK, NEW n \in Nodes
  PROVE  /\ entry[n] \in SUBSET Entries
         /\ entry[n] = {} \/ \E e \in Entries : entry[n] = {e}
         /\ \A e \in entry[n] : entry[n] = {e}
BY DEF TypeOK, OneAtMost

(* A step that changes the entry of one end only.                           *)
LEMMA SetEntry ==
  ASSUME TypeOK, NEW n \in Nodes, NEW entries \in SUBSET Entries, OneAtMost(entries),
         entry' = [entry EXCEPT ![n] = entries]
  PROVE  /\ entry' \in [Nodes -> SUBSET Entries] /\ \A m \in Nodes : OneAtMost(entry'[m])
         /\ entry'[n] = entries /\ entry'[Other(n)] = entry[Other(n)]
         /\ \A m \in Nodes : m # n => entry'[m] = entry[m]
BY OtherType DEF TypeOK

LEMMA DelayEffect ==
  ASSUME NEW e \in Entries
  PROVE  /\ DelayExpiration({e}) = {[e EXCEPT !.expiration = NEIGHBOR_EXPIRATION_TIMEOUT]}
         /\ DelayHelloInterval({e}) = {[e EXCEPT !.sendHello = SEND_HELLO_INTERVAL]}
         /\ [e EXCEPT !.expiration = NEIGHBOR_EXPIRATION_TIMEOUT] \in Entries
         /\ [e EXCEPT !.sendHello = SEND_HELLO_INTERVAL] \in Entries
         /\ [e EXCEPT !.sendHello = Off] \in Entries
BY Times DEF Entries, DelayExpiration, DelayHelloInterval

LEMMA DelayNothing ==
  DelayExpiration({}) = {} /\ DelayHelloInterval({}) = {}
BY DEF DelayExpiration, DelayHelloInterval

LEMMA RemoveSound ==
  ASSUME NEW S, NEW s \in Seq(S), NEW i \in DOMAIN s
  PROVE  /\ RemoveAt(s, i) \in Seq(S)
         /\ \A j \in DOMAIN RemoveAt(s, i) : \E k \in DOMAIN s :
              k # i /\ RemoveAt(s, i)[j] = s[k] /\ k = IF j < i THEN j ELSE j + 1
<1>1. i \in 1..Len(s) /\ Len(s) \in Nat
  OBVIOUS
<1>2. /\ SubSeq(s, 1, i - 1) \in Seq(S) /\ Len(SubSeq(s, 1, i - 1)) = i - 1
      /\ \A j \in 1..(i - 1) : SubSeq(s, 1, i - 1)[j] = s[j]
  BY <1>1
<1>3. /\ SubSeq(s, i + 1, Len(s)) \in Seq(S) /\ Len(SubSeq(s, i + 1, Len(s))) = Len(s) - i
      /\ \A j \in 1..(Len(s) - i) : SubSeq(s, i + 1, Len(s))[j] = s[i + j]
  BY <1>1
<1>4. PICK before \in Seq(S), after \in Seq(S) :
        /\ before = SubSeq(s, 1, i - 1) /\ after = SubSeq(s, i + 1, Len(s))
        /\ Len(before) = i - 1 /\ Len(after) = Len(s) - i
        /\ \A j \in 1..(i - 1) : before[j] = s[j]
        /\ \A j \in 1..(Len(s) - i) : after[j] = s[i + j]
  BY <1>2, <1>3, Zenon
<1>5. RemoveAt(s, i) = before \o after
  BY <1>4, Zenon DEF RemoveAt
<1> HIDE <1>2, <1>3, <1>5
<1>6. /\ before \o after \in Seq(S)
      /\ DOMAIN (before \o after) = 1..(Len(s) - 1)
      /\ \A j \in 1..(i - 1) : (before \o after)[j] = s[j]
      /\ \A j \in i..(Len(s) - 1) : (before \o after)[j] = s[j + 1]
  <2>1. Len(before) = i - 1 /\ Len(after) = Len(s) - i
    BY <1>4
  <2>2. \A j \in 1..Len(before) + Len(after) :
          (before \o after)[j] = IF j <= Len(before) THEN before[j] ELSE after[j - Len(before)]
    OBVIOUS
  <2>3. DOMAIN (before \o after) = 1..(Len(s) - 1) /\ before \o after \in Seq(S)
    BY <1>1, <2>1
  <2>4. ASSUME NEW j \in 1..(i - 1) PROVE (before \o after)[j] = s[j]
    <3>1. j \in 1..Len(before) + Len(after) /\ j <= Len(before)
      BY <1>1, <2>1
    <3>2. (before \o after)[j] = before[j]
      BY <2>2, <3>1
    <3> QED BY <1>4, <3>2
  <2>5. ASSUME NEW j \in i..(Len(s) - 1) PROVE (before \o after)[j] = s[j + 1]
    <3>1. j - (i - 1) \in 1..(Len(s) - i) /\ i + (j - (i - 1)) = j + 1
      BY <1>1
    <3>2. (before \o after)[j] = after[j - (i - 1)]
      BY <1>1, <2>1, <2>2
    <3> QED BY <1>4, <3>1, <3>2
  <2> QED BY <2>3, <2>4, <2>5
<1>7. ASSUME NEW j \in DOMAIN (before \o after)
      PROVE  \E k \in DOMAIN s :
               k # i /\ (before \o after)[j] = s[k] /\ k = IF j < i THEN j ELSE j + 1
  <2>1. j \in 1..(Len(s) - 1)
    BY <1>6
  <2>2. CASE j < i
    <3>1. /\ j \in 1..(i - 1) /\ j \in DOMAIN s /\ j # i
          /\ j = IF j < i THEN j ELSE j + 1
      BY <1>1, <2>1, <2>2
    <3>2. (before \o after)[j] = s[j]
      BY <1>6, <3>1
    <3> QED BY <3>1, <3>2
  <2>3. CASE j >= i
    <3>1. /\ j \in i..(Len(s) - 1) /\ j + 1 \in DOMAIN s /\ j + 1 # i
          /\ j + 1 = IF j < i THEN j ELSE j + 1
      BY <1>1, <2>1, <2>3
    <3>2. (before \o after)[j] = s[j + 1]
      BY <1>6, <3>1
    <3> QED BY <3>1, <3>2
  <2> QED BY <1>1, <2>1, <2>2, <2>3
<1> QED BY <1>5, <1>6, <1>7, Zenon

(* The port that closes leaves the entry, and nothing else.                 *)
LEMMA RemoveAddressEffect ==
  ASSUME NEW n \in Nodes, NEW e \in Entries, EntryOK(n, e), NEW port
  PROVE  /\ RemoveAddress(e, port) \in Entries
         /\ EntryOK(n, RemoveAddress(e, port))
         /\ \A i \in DOMAIN RemoveAddress(e, port).addresses :
              /\ RemoveAddress(e, port).addresses[i].port # port
              /\ \E k \in DOMAIN e.addresses : RemoveAddress(e, port).addresses[i] = e.addresses[k]
<1> DEFINE s == e.addresses
<1>1. s \in Seq(Known)
  BY EntryParts
<1>2. CASE ~\E i \in DOMAIN s : s[i].port = port
  BY <1>2 DEF RemoveAddress
<1>3. CASE \E i \in DOMAIN s : s[i].port = port
  <2> DEFINE i == CHOOSE i \in DOMAIN s : s[i].port = port
             rest == RemoveAt(s, i)
  <2>1. i \in DOMAIN s /\ s[i].port = port
    BY <1>3
  <2>2. RemoveAddress(e, port) = [e EXCEPT !.addresses = rest]
    BY <1>3 DEF RemoveAddress
  <2> HIDE DEF i
  <2>3. /\ rest \in Seq(Known)
        /\ \A j \in DOMAIN rest : \E k \in DOMAIN s :
             k # i /\ rest[j] = s[k] /\ k = IF j < i THEN j ELSE j + 1
    BY <1>1, <2>1, RemoveSound
  <2> HIDE DEF rest
  <2>4. /\ RemoveAddress(e, port) \in Entries
        /\ RemoveAddress(e, port).addresses = rest
        /\ RemoveAddress(e, port).sendHello = e.sendHello
    BY <2>2, <2>3 DEF Entries
  <2>5. \A j \in DOMAIN rest : rest[j].port # port /\ \E k \in DOMAIN s : rest[j] = s[k]
    BY <2>1, <2>3 DEF EntryOK
  <2>6. ASSUME NEW j \in DOMAIN rest, NEW l \in DOMAIN rest, rest[j].port = rest[l].port
        PROVE  j = l
    <3>1. PICK k \in DOMAIN s : k # i /\ rest[j] = s[k] /\ k = IF j < i THEN j ELSE j + 1
      BY <2>3
    <3>2. PICK m \in DOMAIN s : m # i /\ rest[l] = s[m] /\ m = IF l < i THEN l ELSE l + 1
      BY <2>3
    <3>3. k = m
      BY <2>6, <3>1, <3>2 DEF EntryOK
    <3>4. i \in Nat /\ j \in Nat /\ l \in Nat
      BY <1>1, <2>1, <2>3
    <3> QED BY <3>1, <3>2, <3>3, <3>4
  <2>7. \A j \in DOMAIN rest : rest[j].address = Address(n, rest[j].port)
    BY <2>3 DEF EntryOK
  <2>8. EntryOK(n, RemoveAddress(e, port))
    BY <2>4, <2>6, <2>7 DEF EntryOK
  <2> QED BY <2>4, <2>5, <2>8
<1> QED BY <1>2, <1>3

(* What the sender of a hello becomes.                                      *)
LEMMA AddNeighborEffect ==
  ASSUME NEW n \in Nodes, NEW link \in Links, NEW entries \in SUBSET Entries,
         entries = {} \/ \E e \in Entries : entries = {e},
         \A e \in entries : EntryOK(n, e)
  PROVE  \E d \in Entries :
           /\ AddNeighbor(entries, [address |-> Address(n, link), port |-> link]) = {d}
           /\ EntryOK(n, d)
           /\ \A i \in DOMAIN d.addresses :
                \/ d.addresses[i].port = link
                \/ \E e \in entries : \E k \in DOMAIN e.addresses : d.addresses[i] = e.addresses[k]
           /\ entries = {} => d.sendHello = SEND_HELLO_INTERVAL
           /\ \A e \in entries : d.sendHello = e.sendHello
<1> DEFINE known == [address |-> Address(n, link), port |-> link]
<1>1. known \in Known /\ known.address = Address(n, link) /\ known.port = link
  BY AddressParts
<1> HIDE DEF known
<1>2. CASE entries = {}
  <2> DEFINE d == Entry(<<known>>)
  <2>1. /\ d \in Entries /\ d.addresses = <<known>> /\ d.sendHello = SEND_HELLO_INTERVAL
        /\ d.sendHello # Off
    BY <1>1, Times DEF Entry, Entries
  <2>2. AddNeighbor(entries, known) = {d}
    BY <1>2 DEF AddNeighbor
  <2>3. EntryOK(n, d)
    BY <1>1, <2>1 DEF EntryOK
  <2> QED BY <1>1, <1>2, <2>1, <2>2, <2>3 DEF known
<1>3. CASE \E e \in Entries : entries = {e}
  <2>1. PICK e \in Entries : entries = {e} /\ EntryOK(n, e)
    BY <1>3
  <2>2. AddNeighbor(entries, known) = {AddAddressIfNotExists(e, known)}
    BY <2>1 DEF AddNeighbor
  <2>3. CASE HasAddress(e, known.address)
    BY <1>1, <2>1, <2>2, <2>3 DEF AddAddressIfNotExists, known
  <2>4. CASE ~HasAddress(e, known.address)
    <3> DEFINE s == e.addresses
               d == [e EXCEPT !.addresses = Append(s, known)]
    <3>1. s \in Seq(Known)
      BY EntryParts
    <3>2. /\ Append(s, known) \in Seq(Known)
          /\ DOMAIN Append(s, known) = 1..(Len(s) + 1) /\ DOMAIN s = 1..Len(s)
          /\ \A i \in 1..Len(s) : Append(s, known)[i] = s[i]
          /\ Append(s, known)[Len(s) + 1] = known
          /\ Len(s) \in Nat
      BY <1>1, <3>1
    <3>3. /\ AddAddressIfNotExists(e, known) = d
          /\ d \in Entries /\ d.addresses = Append(s, known) /\ d.sendHello = e.sendHello
      BY <2>4, <3>2 DEF AddAddressIfNotExists, Entries
    <3> HIDE DEF d
    <3>4. ASSUME NEW i \in 1..Len(s) PROVE s[i].port # link
      <4>1. s[i].address # known.address
        BY <2>4, <3>2 DEF HasAddress, ToSet
      <4> QED BY <1>1, <2>1, <3>2, <4>1 DEF EntryOK
    <3>5. ASSUME NEW i \in DOMAIN d.addresses
          PROVE  \/ i \in 1..Len(s) /\ d.addresses[i] = s[i]
                 \/ i = Len(s) + 1 /\ d.addresses[i] = known
      BY <3>2, <3>3
    <3>6. EntryOK(n, d)
      BY <1>1, <2>1, <3>2, <3>3, <3>4, <3>5 DEF EntryOK
    <3>7. \A i \in DOMAIN d.addresses :
            \/ d.addresses[i].port = link
            \/ \E k \in DOMAIN e.addresses : d.addresses[i] = e.addresses[k]
      BY <1>1, <3>2, <3>5
    <3> QED BY <2>1, <2>2, <3>3, <3>6, <3>7 DEF known
  <2> QED BY <2>3, <2>4
<1> QED BY <1>2, <1>3

-----------------------------------------------------------------------------
(* The state without its clocks. *)

(* A step of one end that leaves the media as they are.                     *)
LEMMA EndStep ==
  ASSUME StateInv, NEW n \in Nodes, UNCHANGED media,
         flaws \subseteq flaws', flaws' \in SUBSET Flaws,
         NEW entries \in SUBSET Entries, OneAtMost(entries),
         entry' = [entry EXCEPT ![n] = entries],
         \A d \in entries : EntryOK(n, d)',
         flaws' \cap {"twice", "late"} = {} =>
           \A d \in entries : \A i \in DOMAIN d.addresses : d.addresses[i].port \in open[n],
         network' \in SUBSET Frames,
         \A frame \in network' : frame \in network \/ frame.type # "Hello" \/ calm' = 0,
         delayed' \in [Nodes -> SUBSET Frames],
         \A m \in Nodes : \A frame \in delayed'[m] :
           frame \in delayed[m] \/ (frame.type = "Data" /\ frame.from = Other(m)),
         hellos' \in Nat, disturbances' \in Nat, calm' \in {0, calm}
  PROVE  StateInv'
<1>1. TypeOK /\ EntriesInv /\ CalmInv /\ LiveInv
  BY DEF StateInv
<1>2. /\ entry' \in [Nodes -> SUBSET Entries] /\ \A m \in Nodes : OneAtMost(entry'[m])
      /\ entry'[n] = entries /\ \A m \in Nodes : m # n => entry'[m] = entry[m]
  BY <1>1, SetEntry
<1>3. open' = open /\ connections' = connections /\ connecting' = connecting
  BY DEF media
<1>4. TypeOK'
  <2>1. calm' \in 0..Settling
    BY <1>1, Times DEF TypeOK
  <2> QED BY <1>1, <1>2, <1>3, <2>1 DEF TypeOK
<1>5. EntriesInv'
  <2>1. ASSUME NEW m \in Nodes, NEW e \in entry'[m] PROVE EntryOK(m, e)'
    <3>1. CASE m = n
      BY <1>2, <2>1, <3>1
    <3>2. CASE m # n
      <4>1. e \in entry[m] /\ EntryOK(m, e)
        BY <1>1, <1>2, <2>1, <3>2 DEF EntriesInv
      <4> QED BY <4>1 DEF EntryOK
    <3> QED BY <3>1, <3>2
  <2> QED BY <2>1 DEF EntriesInv
<1>6. CalmInv'
  BY <1>1, <1>3 DEF CalmInv
<1>7. LiveInv'
  <2>1. SUFFICES ASSUME flaws' \cap {"twice", "late"} = {} PROVE Live'
    BY DEF LiveInv
  <2>2. Live
    BY <1>1, <2>1 DEF LiveInv
  <2>3. ASSUME NEW m \in Nodes, NEW e \in entry'[m], NEW i \in DOMAIN e.addresses
        PROVE  e.addresses[i].port \in open[m]
    <3>1. CASE m = n
      BY <1>2, <2>1, <2>3, <3>1
    <3>2. CASE m # n
      BY <1>2, <2>2, <2>3, <3>2 DEF Live
    <3> QED BY <3>1, <3>2
  <2> QED BY <1>3, <2>2, <2>3 DEF Live
<1> QED BY <1>4, <1>5, <1>6, <1>7 DEF StateInv

(* One that leaves the entries as they are, too.                            *)
LEMMA FrameStep ==
  ASSUME StateInv, UNCHANGED <<entry, media, flaws>>,
         network' \in SUBSET Frames,
         \A frame \in network' : frame \in network \/ frame.type # "Hello" \/ calm' = 0,
         delayed' \in [Nodes -> SUBSET Frames],
         \A m \in Nodes : \A frame \in delayed'[m] :
           frame \in delayed[m] \/ (frame.type = "Data" /\ frame.from = Other(m)),
         hellos' \in Nat, disturbances' \in Nat, calm' \in {0, calm}
  PROVE  StateInv'
<1>1. TypeOK /\ EntriesInv /\ LiveInv /\ Client \in Nodes
  BY DEF StateInv, Nodes
<1>2. /\ entry[Client] \in SUBSET Entries /\ OneAtMost(entry[Client])
      /\ entry' = [entry EXCEPT ![Client] = entry[Client]]
      /\ flaws \subseteq flaws' /\ flaws' \in SUBSET Flaws /\ UNCHANGED media
  BY <1>1 DEF TypeOK
<1>3. \A d \in entry[Client] : EntryOK(Client, d)'
  BY <1>1 DEF EntriesInv, EntryOK
<1>4. flaws' \cap {"twice", "late"} = {} =>
        \A d \in entry[Client] : \A i \in DOMAIN d.addresses : d.addresses[i].port \in open[Client]
  BY <1>1 DEF LiveInv, Live
<1> QED BY <1>1, <1>2, <1>3, <1>4, EndStep

LEMMA SendHelloState ==
  ASSUME StateInv, NEW n \in Nodes, NEW address, SendHello(n, address)
  PROVE  StateInv' /\ calm' = 0
<1>1. /\ network' = network \cup Sent(n, address, "Hello") /\ calm' = 0
      /\ UNCHANGED <<entry, media, delayed, disturbances, flaws>> /\ hellos' = hellos + 1
  BY DEF SendHello, Send
<1>2. network' \in SUBSET Frames /\ hellos' \in Nat /\ disturbances' \in Nat
      /\ delayed' \in [Nodes -> SUBSET Frames]
  BY <1>1, SentType DEF StateInv, TypeOK
<1>3. /\ \A frame \in network' : frame \in network \/ frame.type # "Hello" \/ calm' = 0
      /\ \A m \in Nodes : \A frame \in delayed'[m] :
           frame \in delayed[m] \/ (frame.type = "Data" /\ frame.from = Other(m))
      /\ calm' \in {0, calm} /\ UNCHANGED <<entry, media, flaws>>
  BY <1>1
<1> QED BY <1>1, <1>2, <1>3, FrameStep

(* While nothing is amiss, every address of an entry leads to the other end. *)
LEMMA AddressLeads ==
  ASSUME StateInv, Live, NEW n \in Nodes, NEW e \in entry[n], NEW i \in DOMAIN e.addresses
  PROVE  /\ e.addresses[i].port \in Links \cap connections[n] \cap open[n]
         /\ Address(n, e.addresses[i].port) = e.addresses[i].address
         /\ calm # 0 => e.addresses[i].port \in open[Other(n)]
<1>1. e \in Entries /\ e.addresses[i] \in Known /\ e.addresses[i].port \in Links
  <2>1. e \in Entries
    BY DEF StateInv, TypeOK
  <2>2. e.addresses \in Seq(Known)
    BY <2>1, EntryParts
  <2>3. e.addresses[i] \in Known
    BY <2>2
  <2> QED BY <2>1, <2>3 DEF Known
<1>2. e.addresses[i].port \in open[n] /\ open[n] = connections[n]
  BY DEF Live
<1>3. Address(n, e.addresses[i].port) = e.addresses[i].address
  BY DEF StateInv, EntriesInv, EntryOK
<1>4. calm # 0 => open[n] = open[Other(n)]
  BY OtherType DEF StateInv, CalmInv, Nodes, Other
<1> QED BY <1>1, <1>2, <1>3, <1>4

LEMMA SentReaches ==
  ASSUME StateInv, Live, calm # 0, NEW n \in Nodes, NEW e \in entry[n], e.addresses # <<>>,
         NEW type \in {"Hello", "KeepAlive", "Data"}
  PROVE  \E frame \in Sent(n, Head(e.addresses).address, type) : frame.from = n
<1>1. e.addresses \in Seq(Known)
  BY EntryParts DEF StateInv, TypeOK
<1>2. 1 \in DOMAIN e.addresses /\ Head(e.addresses) = e.addresses[1]
  BY <1>1
<1> DEFINE port == e.addresses[1].port
<1>3. /\ port \in Links \cap connections[n] \cap open[Other(n)]
      /\ Address(n, port) = Head(e.addresses).address
  BY <1>2, AddressLeads
<1>4. Frame(n, port, type) \in Sent(n, Head(e.addresses).address, type)
  BY <1>3 DEF Sent, SentOver
<1> QED BY <1>3, <1>4, FrameType

LEMMA BroadcastReaches ==
  ASSUME StateInv, Live, calm # 0, NEW n \in Nodes, NEW e \in entry[n],
         NEW known \in ToSet(e.addresses), IsWebSocket(n, known.address)
  PROVE  \E frame \in SentOver(n, Connections, "Data") : frame.from = n
<1>1. PICK i \in DOMAIN e.addresses : known = e.addresses[i]
  BY DEF ToSet
<1> DEFINE port == e.addresses[i].port
<1>2. /\ port \in Links \cap connections[n] \cap open[Other(n)]
      /\ Address(n, port) = known.address
  BY <1>1, AddressLeads
<1>3. port \in Connections
  BY <1>2, AddressParts
<1>4. Frame(n, port, "Data") \in SentOver(n, Connections, "Data")
  BY <1>2, <1>3 DEF SentOver
<1> QED BY <1>2, <1>4, FrameType

(* What an end does on its own: it may send, and whenever it sets its hello *)
(* timer, it has sent.                                                      *)
Speaks(n) ==
  /\ UNCHANGED <<delayed, calm>>
  /\ network \subseteq network'
  /\ \A frame \in network' :
       frame \in network \/ (frame.from = n /\ (frame.type = "KeepAlive" => entry[n] # {}))
  /\ entry'[Other(n)] = entry[Other(n)]
  /\ \/ entry[n] = {} /\ entry'[n] = {}
     \/ \E e \in entry[n], d \in entry'[n] :
          /\ entry'[n] = {d} /\ d.expiration = e.expiration
          /\ \/ d.sendHello = e.sendHello
             \/ /\ d.sendHello = SEND_HELLO_INTERVAL
                /\ calm = 0 \/ \E frame \in network' : frame.from = n

(* Such a step: e becomes d.                                                *)
LEMMA SpeakStep ==
  ASSUME StateInv, NEW n \in Nodes, NEW e \in entry[n], NEW d \in Entries,
         UNCHANGED <<media, delayed, hellos, disturbances, calm>>,
         entry' = [entry EXCEPT ![n] = {d}],
         d.addresses = e.addresses, d.expiration = e.expiration,
         NEW frames \in SUBSET Frames, network' = network \cup frames,
         \A frame \in frames : frame.from = n /\ frame.type # "Hello",
         flaws \subseteq flaws', flaws' \in SUBSET Flaws,
         \/ d.sendHello = e.sendHello
         \/ d.sendHello = Off /\ "unarmed" \in flaws'
         \/ /\ d.sendHello = SEND_HELLO_INTERVAL
            /\ calm # 0 /\ Live => \E frame \in frames : frame.from = n
  PROVE  StateInv' /\ (flaws' = {} => Speaks(n))
<1>1. TypeOK /\ EntriesInv /\ LiveInv /\ e \in Entries
  BY DEF StateInv, TypeOK
<1>2. /\ {d} \in SUBSET Entries /\ OneAtMost({d}) /\ UNCHANGED media
      /\ network' \in SUBSET Frames /\ delayed' \in [Nodes -> SUBSET Frames]
      /\ hellos' \in Nat /\ disturbances' \in Nat /\ calm' \in {0, calm}
      /\ \A frame \in network' : frame \in network \/ frame.type # "Hello" \/ calm' = 0
      /\ \A m \in Nodes : \A frame \in delayed'[m] :
           frame \in delayed[m] \/ (frame.type = "Data" /\ frame.from = Other(m))
  BY <1>1 DEF TypeOK, OneAtMost
<1>3. EntryOK(n, d)'
  BY <1>1, Times DEF EntriesInv, EntryOK
<1>4. flaws' \cap {"twice", "late"} = {} =>
        \A i \in DOMAIN d.addresses : d.addresses[i].port \in open[n]
  BY <1>1 DEF LiveInv, Live
<1>5. StateInv'
  BY <1>2, <1>3, <1>4, EndStep
<1>6. ASSUME flaws' = {} PROVE Speaks(n)
  <2>1. Live
    BY <1>1, <1>6 DEF LiveInv
  <2>2. entry'[n] = {d} /\ entry'[Other(n)] = entry[Other(n)]
    BY <1>1, <1>2, SetEntry
  <2>3. \/ d.sendHello = e.sendHello
        \/ /\ d.sendHello = SEND_HELLO_INTERVAL
           /\ calm = 0 \/ \E frame \in network' : frame.from = n
    BY <1>6, <2>1
  <2> QED BY <2>2, <2>3 DEF Speaks
<1> QED BY <1>5, <1>6

LEMMA HelloIntervalState ==
  ASSUME StateInv, NEW n \in Nodes, HelloInterval(n)
  PROVE  StateInv' /\ (flaws' = {} => Speaks(n))
<1>1. PICK e \in entry[n] :
        /\ UNCHANGED <<media, delayed, hellos, disturbances, calm>>
        /\ \/ /\ entry' = [entry EXCEPT ![n] = {[e EXCEPT !.sendHello = Off]}]
              /\ flaws' = flaws \cup {"unarmed"} /\ network' = network
           \/ /\ e.addresses # <<>>
              /\ entry' = [entry EXCEPT ![n] = DelayHelloInterval({e})]
              /\ network' = network \cup Sent(n, Head(e.addresses).address, "KeepAlive")
              /\ flaws' = flaws
  BY DEF HelloInterval, Send
<1>2. e \in Entries /\ flaws \in SUBSET Flaws /\ "unarmed" \in Flaws
  BY DEF StateInv, TypeOK, Flaws
<1>3. CASE /\ entry' = [entry EXCEPT ![n] = {[e EXCEPT !.sendHello = Off]}]
           /\ flaws' = flaws \cup {"unarmed"} /\ network' = network
  <2> DEFINE d == [e EXCEPT !.sendHello = Off]
             frames == {}
  <2>1. /\ d \in Entries /\ d.addresses = e.addresses /\ d.expiration = e.expiration
        /\ d.sendHello = Off
    BY <1>2, DelayEffect DEF Entries
  <2>2. /\ network' = network \cup frames /\ frames \in SUBSET Frames
        /\ flaws \subseteq flaws' /\ flaws' \in SUBSET Flaws /\ "unarmed" \in flaws'
    BY <1>2, <1>3
  <2>3. entry' = [entry EXCEPT ![n] = {d}]
    BY <1>3
  <2>4. \A frame \in frames : frame.from = n /\ frame.type # "Hello"
    OBVIOUS
  <2> HIDE DEF d, frames
  <2> QED BY <1>1, <2>1, <2>2, <2>3, <2>4, SpeakStep
<1>4. CASE /\ e.addresses # <<>>
           /\ entry' = [entry EXCEPT ![n] = DelayHelloInterval({e})]
           /\ network' = network \cup Sent(n, Head(e.addresses).address, "KeepAlive")
           /\ flaws' = flaws
  <2> DEFINE d == [e EXCEPT !.sendHello = SEND_HELLO_INTERVAL]
             frames == Sent(n, Head(e.addresses).address, "KeepAlive")
  <2>1. /\ d \in Entries /\ d.addresses = e.addresses /\ d.expiration = e.expiration
        /\ d.sendHello = SEND_HELLO_INTERVAL /\ DelayHelloInterval({e}) = {d}
    BY <1>2, DelayEffect DEF Entries
  <2>2. /\ frames \in SUBSET Frames
        /\ \A frame \in frames : frame.from = n /\ frame.type # "Hello"
    BY SentType
  <2>3. (calm # 0 /\ Live) => \E frame \in frames : frame.from = n
    BY <1>4, SentReaches
  <2>4. /\ entry' = [entry EXCEPT ![n] = {d}] /\ network' = network \cup frames
        /\ flaws \subseteq flaws' /\ flaws' \in SUBSET Flaws
    BY <1>2, <1>4, <2>1
  <2> HIDE DEF d, frames
  <2> QED BY <1>1, <2>1, <2>2, <2>3, <2>4, SpeakStep
<1> QED BY <1>1, <1>3, <1>4

LEMMA SendFrameState ==
  ASSUME StateInv, NEW n \in Nodes, SendFrame(n)
  PROVE  StateInv' /\ (flaws' = {} => Speaks(n))
<1>1. PICK e \in entry[n] :
        /\ UNCHANGED <<media, delayed, hellos, disturbances, calm, flaws>>
        /\ e.addresses # <<>>
        /\ entry' = [entry EXCEPT ![n] = DelayHelloInterval({e})]
        /\ network' = network \cup Sent(n, Head(e.addresses).address, "Data")
  BY DEF SendFrame, Send
<1>2. e \in Entries /\ flaws \in SUBSET Flaws
  BY DEF StateInv, TypeOK
<1> DEFINE d == [e EXCEPT !.sendHello = SEND_HELLO_INTERVAL]
           frames == Sent(n, Head(e.addresses).address, "Data")
<1>3. /\ d \in Entries /\ d.addresses = e.addresses /\ d.expiration = e.expiration
      /\ d.sendHello = SEND_HELLO_INTERVAL /\ DelayHelloInterval({e}) = {d}
  BY <1>2, DelayEffect DEF Entries
<1>4. /\ frames \in SUBSET Frames
      /\ \A frame \in frames : frame.from = n /\ frame.type # "Hello"
  BY SentType
<1>5. (calm # 0 /\ Live) => \E frame \in frames : frame.from = n
  BY <1>1, SentReaches
<1>6. /\ entry' = [entry EXCEPT ![n] = {d}] /\ network' = network \cup frames
      /\ UNCHANGED <<media, delayed, hellos, disturbances, calm>>
      /\ flaws \subseteq flaws' /\ flaws' \in SUBSET Flaws
  BY <1>1, <1>2, <1>3
<1> HIDE DEF d, frames
<1> QED BY <1>3, <1>4, <1>5, <1>6, SpeakStep

(* A broadcast goes to the neighbor over a connection, or to its first      *)
(* address, or not at all.                                                  *)
LEMMA SendBroadcastState ==
  ASSUME StateInv, NEW n \in Nodes, NEW ignored \in BOOLEAN, SendBroadcast(n, ignored)
  PROVE  StateInv' /\ (flaws' = {} => Speaks(n))
<1> DEFINE reached == {e \in entry[n] :
                         \E known \in ToSet(e.addresses) : IsWebSocket(n, known.address)}
           single == IF ignored THEN {} ELSE {e \in entry[n] \ reached : e.addresses # <<>>}
           direct == UNION {Sent(n, Head(e.addresses).address, "Data") : e \in single}
           frames == SentOver(n, Connections, "Data") \cup direct
           entries == DelayHelloInterval(reached \cup single)
                        \cup (entry[n] \ (reached \cup single))
<1>1. /\ UNCHANGED <<media, delayed, hellos, disturbances, calm, flaws>>
      /\ network' = network \cup frames
      /\ entry' = [entry EXCEPT ![n] = entries]
  BY DEF SendBroadcast, Send
<1>2. /\ frames \in SUBSET Frames
      /\ \A frame \in frames : frame.from = n /\ frame.type # "Hello"
  <2>1. Connections \in SUBSET Links
    BY DEF Links
  <2>2. \A frame \in SentOver(n, Connections, "Data") :
          frame \in Frames /\ frame.from = n /\ frame.type # "Hello"
    BY <2>1, SentType
  <2>3. ASSUME NEW frame \in direct
        PROVE  frame \in Frames /\ frame.from = n /\ frame.type # "Hello"
    <3>1. PICK e \in single : frame \in Sent(n, Head(e.addresses).address, "Data")
      BY <2>3
    <3> QED BY <3>1, SentType
  <2> QED BY <2>2, <2>3
<1>3. TypeOK /\ flaws \subseteq flaws' /\ flaws' \in SUBSET Flaws
  BY <1>1 DEF StateInv, TypeOK
<1>4. CASE entry[n] = {}
  <2>1. entries = {}
    BY <1>4, DelayNothing
  <2>2. entry' = [entry EXCEPT ![n] = {}]
    BY <1>1, <2>1
  <2>3. /\ {} \in SUBSET Entries /\ OneAtMost({}) /\ UNCHANGED media
        /\ network' \in SUBSET Frames /\ delayed' \in [Nodes -> SUBSET Frames]
        /\ hellos' \in Nat /\ disturbances' \in Nat /\ calm' \in {0, calm}
        /\ \A frame \in network' : frame \in network \/ frame.type # "Hello" \/ calm' = 0
        /\ \A m \in Nodes : \A frame \in delayed'[m] :
             frame \in delayed[m] \/ (frame.type = "Data" /\ frame.from = Other(m))
    BY <1>1, <1>2, <1>3 DEF TypeOK, OneAtMost
  <2> HIDE DEF entries, frames
  <2>4. StateInv'
    BY <1>3, <2>2, <2>3, EndStep
  <2>5. entry'[n] = {} /\ entry'[Other(n)] = entry[Other(n)]
    BY <1>3, <2>2, <2>3, SetEntry
  <2>6. \A frame \in frames : frame.type # "KeepAlive"
    <3>1. Connections \in SUBSET Links /\ direct = {}
      BY <1>4 DEF Links
    <3> QED BY <3>1, SentType DEF frames
  <2>7. Speaks(n)
    BY <1>1, <1>2, <1>4, <2>5, <2>6 DEF Speaks
  <2> QED BY <2>4, <2>7
<1>5. CASE entry[n] # {}
  <2>1. PICK e \in Entries : entry[n] = {e}
    BY <1>3, <1>5, OneOrNone
  <2>2. CASE e \in reached \cup single
    <3> DEFINE d == [e EXCEPT !.sendHello = SEND_HELLO_INTERVAL]
    <3>1. /\ d \in Entries /\ d.addresses = e.addresses /\ d.expiration = e.expiration
          /\ d.sendHello = SEND_HELLO_INTERVAL /\ DelayHelloInterval({e}) = {d}
      BY DelayEffect DEF Entries
    <3>2. reached \cup single = {e}
      BY <2>1, <2>2
    <3>3. entries = {d}
      <4>1. entry[n] \ (reached \cup single) = {}
        BY <2>1, <3>2
      <4> QED BY <3>1, <3>2, <4>1
    <3>4. (calm # 0 /\ Live) => \E frame \in frames : frame.from = n
      <4>1. CASE e \in reached
        BY <2>1, <4>1, BroadcastReaches
      <4>2. CASE e \in single
        BY <2>1, <4>2, SentReaches
      <4> QED BY <2>2, <4>1, <4>2
    <3>5. entry' = [entry EXCEPT ![n] = {d}]
      BY <1>1, <3>3
    <3>6. /\ e \in entry[n] /\ network' = network \cup frames
          /\ UNCHANGED <<media, delayed, hellos, disturbances, calm>>
      BY <1>1, <2>1
    <3> HIDE DEF d, frames, entries
    <3> QED BY <1>2, <1>3, <3>1, <3>4, <3>5, <3>6, SpeakStep
  <2>3. CASE e \notin reached \cup single
    <3>1. reached \cup single = {}
      BY <2>1, <2>3
    <3>2. entries = {e}
      BY <2>1, <3>1, DelayNothing
    <3>3. entry' = [entry EXCEPT ![n] = {e}]
      BY <1>1, <3>2
    <3> HIDE DEF frames, entries
    <3> QED BY <1>1, <1>2, <1>3, <2>1, <3>3, SpeakStep
  <2> QED BY <2>2, <2>3
<1> QED BY <1>4, <1>5

(* What an end hears: frames leave the network or the wait, and the         *)
(* expiration of its neighbor starts anew.                                  *)
Hears(n) ==
  /\ UNCHANGED calm /\ network' \subseteq network
  /\ \A m \in Nodes : delayed'[m] \subseteq delayed[m]
  /\ delayed'[Other(n)] = delayed[Other(n)]
  /\ \A frame \in network : frame.from = n => frame \in network'
  /\ entry'[Other(n)] = entry[Other(n)]
  /\ \E d \in entry'[n] :
       /\ entry'[n] = {d} /\ d.expiration = NEIGHBOR_EXPIRATION_TIMEOUT
       /\ \A e \in entry[n] : d.sendHello = e.sendHello
       /\ entry[n] = {} =>
            /\ d.sendHello = SEND_HELLO_INTERVAL
            /\ \E frame \in network : frame.from = Other(n) /\ frame.type = "KeepAlive"

LEMMA ReceiveHelloState ==
  ASSUME StateInv, NEW frame \in network, NEW n \in Nodes, n = Other(frame.from),
         ReceiveHello(n, frame)
  PROVE  StateInv' /\ (calm' = 0 \/ Hears(n))
<1> DEFINE known == [address |-> Address(n, frame.link), port |-> frame.link]
           added == AddNeighbor(entry[n], known)
           entries == DelayExpiration(added)
           reply == frame.type = "Hello"
           sent == Sent(n, Address(n, frame.link), "KeepAlive")
<1>1. /\ frame.type \in {"Hello", "KeepAlive"}
      /\ entry' = [entry EXCEPT ![n] = IF reply THEN DelayHelloInterval(entries) ELSE entries]
      /\ network' = IF reply THEN (network \ {frame}) \cup sent ELSE network \ {frame}
      /\ flaws' = flaws \cup Late(n, frame)
      /\ UNCHANGED <<media, delayed, hellos, disturbances, calm>>
  BY DEF ReceiveHello
<1>2. /\ TypeOK /\ EntriesInv /\ CalmInv /\ LiveInv
      /\ frame \in Frames /\ frame.link \in Links /\ frame.from \in Nodes
  BY DEF StateInv, TypeOK, Frames
<1>3. PICK f \in Entries :
        /\ added = {f} /\ EntryOK(n, f)
        /\ \A i \in DOMAIN f.addresses :
             \/ f.addresses[i].port = frame.link
             \/ \E e \in entry[n] : \E k \in DOMAIN e.addresses : f.addresses[i] = e.addresses[k]
        /\ entry[n] = {} => f.sendHello = SEND_HELLO_INTERVAL
        /\ \A e \in entry[n] : f.sendHello = e.sendHello
  <2>1. /\ entry[n] \in SUBSET Entries
        /\ entry[n] = {} \/ \E e \in Entries : entry[n] = {e}
        /\ \A e \in entry[n] : EntryOK(n, e)
    BY <1>2, OneOrNone DEF EntriesInv
  <2> QED BY <1>2, <2>1, AddNeighborEffect
<1> DEFINE heard == [f EXCEPT !.expiration = NEIGHBOR_EXPIRATION_TIMEOUT]
           d == IF reply THEN [heard EXCEPT !.sendHello = SEND_HELLO_INTERVAL] ELSE heard
<1> HIDE DEF added
<1>4. /\ d \in Entries /\ d.addresses = f.addresses
      /\ d.expiration = NEIGHBOR_EXPIRATION_TIMEOUT
      /\ d.sendHello = IF reply THEN SEND_HELLO_INTERVAL ELSE f.sendHello
  <2>1. heard \in Entries
    BY DelayEffect
  <2>2. [heard EXCEPT !.sendHello = SEND_HELLO_INTERVAL] \in Entries
    BY <2>1, DelayEffect
  <2> QED BY <2>1, <2>2 DEF Entries
<1>5. entry' = [entry EXCEPT ![n] = {d}]
  <2>1. entries = {heard} /\ heard \in Entries
    BY <1>3, DelayEffect
  <2>2. DelayHelloInterval(entries) = {[heard EXCEPT !.sendHello = SEND_HELLO_INTERVAL]}
    BY <2>1, DelayEffect
  <2> QED BY <1>1, <2>1, <2>2
<1> HIDE DEF d, heard, entries
<1>6. /\ {d} \in SUBSET Entries /\ OneAtMost({d}) /\ UNCHANGED media
      /\ network' \in SUBSET Frames /\ delayed' \in [Nodes -> SUBSET Frames]
      /\ hellos' \in Nat /\ disturbances' \in Nat /\ calm' \in {0, calm}
      /\ flaws \subseteq flaws' /\ flaws' \in SUBSET Flaws
      /\ \A new \in network' : new \in network \/ new.type # "Hello" \/ calm' = 0
      /\ \A m \in Nodes : \A waiting \in delayed'[m] :
           waiting \in delayed[m] \/ (waiting.type = "Data" /\ waiting.from = Other(m))
  <2>1. \A new \in sent : new \in Frames /\ new.from = n /\ new.type = "KeepAlive"
    BY SentType
  <2>2. Late(n, frame) \in SUBSET Flaws
    BY DEF Late, Flaws
  <2> QED BY <1>1, <1>2, <1>4, <2>1, <2>2 DEF TypeOK, OneAtMost
<1>7. EntryOK(n, d)'
  <2>1. d.sendHello = Off => f.sendHello = Off
    BY <1>4, Times
  <2> QED BY <1>3, <1>4, <1>6, <2>1 DEF EntryOK
<1>8. ASSUME flaws' \cap {"twice", "late"} = {}
      PROVE  \A i \in DOMAIN d.addresses : d.addresses[i].port \in open[n]
  <2>1. Live
    BY <1>2, <1>6, <1>8 DEF LiveInv
  <2>2. frame.link \in open[n]
    BY <1>1, <1>8 DEF Late
  <2> QED BY <1>3, <1>4, <2>1, <2>2 DEF Live
<1>9. StateInv'
  BY <1>5, <1>6, <1>7, <1>8, EndStep
<1>10. CASE reply
  BY <1>1, <1>2, <1>9, <1>10 DEF CalmInv
<1>11. CASE ~reply
  <2>1. entry'[n] = {d} /\ entry'[Other(n)] = entry[Other(n)]
    BY <1>2, <1>5, <1>6, SetEntry
  <2>2. frame.from = Other(n) /\ frame.from # n
    BY <1>2, OtherType
  <2>3. network' = network \ {frame} /\ UNCHANGED <<delayed, calm>> /\ frame.type = "KeepAlive"
    BY <1>1, <1>11
  <2>4. /\ \A e \in entry[n] : d.sendHello = e.sendHello
        /\ entry[n] = {} => d.sendHello = SEND_HELLO_INTERVAL
    BY <1>3, <1>4, <1>11
  <2>5. \A other \in network : other.from = n => other \in network'
    BY <2>2, <2>3
  <2>6. Hears(n)
    BY <1>4, <2>1, <2>2, <2>3, <2>4, <2>5 DEF Hears
  <2> QED BY <1>9, <2>6
<1> QED BY <1>10, <1>11

LEMMA DeliverState ==
  ASSUME StateInv, NEW n \in Nodes, NEW frame \in delayed[n], Deliver(n, frame)
  PROVE  StateInv' /\ (calm' = 0 \/ Hears(n))
<1>1. /\ delayed' = [delayed EXCEPT ![n] = @ \ {frame}]
      /\ entry' = [entry EXCEPT ![n] = DelayExpiration(entry[n])]
      /\ calm' = IF entry[n] = {} THEN 0 ELSE calm
      /\ UNCHANGED <<media, network, hellos, disturbances, flaws>>
  BY DEF Deliver
<1>2. TypeOK /\ EntriesInv /\ LiveInv
  BY DEF StateInv
<1>3. /\ UNCHANGED media /\ network' \in SUBSET Frames /\ delayed' \in [Nodes -> SUBSET Frames]
      /\ hellos' \in Nat /\ disturbances' \in Nat /\ calm' \in {0, calm}
      /\ flaws \subseteq flaws' /\ flaws' \in SUBSET Flaws
      /\ \A new \in network' : new \in network \/ new.type # "Hello" \/ calm' = 0
      /\ \A m \in Nodes : \A waiting \in delayed'[m] :
           waiting \in delayed[m] \/ (waiting.type = "Data" /\ waiting.from = Other(m))
  BY <1>1, <1>2 DEF TypeOK
<1>4. CASE entry[n] = {}
  <2>1. {} \in SUBSET Entries /\ OneAtMost({}) /\ entry' = [entry EXCEPT ![n] = {}]
    BY <1>1, <1>4, DelayNothing DEF OneAtMost
  <2>2. StateInv'
    BY <1>3, <2>1, EndStep
  <2> QED BY <1>1, <1>4, <2>2
<1>5. CASE entry[n] # {}
  <2>1. PICK e \in Entries : entry[n] = {e}
    BY <1>2, <1>5, OneOrNone
  <2> DEFINE d == [e EXCEPT !.expiration = NEIGHBOR_EXPIRATION_TIMEOUT]
  <2>2. /\ d \in Entries /\ d.addresses = e.addresses /\ d.sendHello = e.sendHello
        /\ d.expiration = NEIGHBOR_EXPIRATION_TIMEOUT
        /\ entry' = [entry EXCEPT ![n] = {d}]
    BY <1>1, <2>1, DelayEffect DEF Entries
  <2> HIDE DEF d
  <2>3. {d} \in SUBSET Entries /\ OneAtMost({d})
    BY <2>2 DEF OneAtMost
  <2>4. EntryOK(n, d)'
    BY <1>1, <1>2, <2>1, <2>2 DEF EntriesInv, EntryOK
  <2>5. flaws' \cap {"twice", "late"} = {} =>
          \A i \in DOMAIN d.addresses : d.addresses[i].port \in open[n]
    BY <1>1, <1>2, <2>1, <2>2 DEF LiveInv, Live
  <2>6. StateInv'
    BY <1>3, <2>2, <2>3, <2>4, <2>5, EndStep
  <2>7. entry'[n] = {d} /\ entry'[Other(n)] = entry[Other(n)]
    BY <1>2, <2>2, <2>3, SetEntry
  <2>8. /\ \A m \in Nodes : delayed'[m] \subseteq delayed[m]
        /\ delayed'[Other(n)] = delayed[Other(n)]
    BY <1>1, <1>2, OtherType DEF TypeOK
  <2>9. Hears(n)
    BY <1>1, <1>5, <2>1, <2>2, <2>7, <2>8 DEF Hears
  <2> QED BY <2>6, <2>9
<1> QED BY <1>4, <1>5

(* No frame of n is on its way or waits.                                    *)
Quiet(n) == (\A frame \in network : frame.from # n) /\ delayed[Other(n)] = {}

(* A frame that waits, now, instead of being on its way.                    *)
Waits ==
  /\ UNCHANGED <<entry, calm>> /\ network' \subseteq network
  /\ \A n \in Nodes : Quiet(n)' => Quiet(n)

LEMMA ReceiveFrameState ==
  ASSUME StateInv, NEW frame \in network, NEW n \in Nodes, n = Other(frame.from),
         ReceiveFrame(n, frame)
  PROVE  StateInv' /\ (calm' = 0 \/ Waits)
<1> DEFINE isKnown == \E e \in entry[n] : HasAddress(e, Address(n, frame.link))
<1>1. /\ frame.type = "Data" /\ network' = network \ {frame}
      /\ delayed' = IF isKnown THEN [delayed EXCEPT ![n] = @ \cup {frame}] ELSE delayed
      /\ calm' = IF isKnown THEN calm ELSE 0
      /\ UNCHANGED <<entry, media, hellos, disturbances, flaws>>
  BY DEF ReceiveFrame
<1> HIDE DEF isKnown
<1>2. TypeOK /\ CalmInv /\ frame \in Frames /\ frame.from \in Nodes
  BY DEF StateInv, TypeOK, Frames
<1>3. frame.from = Other(n) /\ n # Other(n) /\ Other(n) \in Nodes
  BY <1>2, OtherType
<1>4. /\ network' \in SUBSET Frames /\ hellos' \in Nat /\ disturbances' \in Nat
      /\ calm' \in {0, calm} /\ UNCHANGED <<entry, media, flaws>>
      /\ \A new \in network' : new \in network \/ new.type # "Hello" \/ calm' = 0
  BY <1>1, <1>2 DEF TypeOK
<1>5. CASE isKnown
  <2>1. /\ delayed' \in [Nodes -> SUBSET Frames] /\ frame \in delayed'[n]
        /\ \A m \in Nodes : m # n => delayed'[m] = delayed[m]
        /\ delayed'[n] = delayed[n] \cup {frame}
    BY <1>1, <1>2, <1>5 DEF TypeOK
  <2>2. \A m \in Nodes : \A waiting \in delayed'[m] :
          waiting \in delayed[m] \/ (waiting.type = "Data" /\ waiting.from = Other(m))
    BY <1>1, <1>3, <2>1
  <2>3. StateInv'
    BY <1>4, <2>1, <2>2, FrameStep
  <2>4. ASSUME NEW m \in Nodes, Quiet(m)' PROVE Quiet(m)
    <3>1. CASE m = n
      BY <1>1, <1>3, <2>1, <2>4, <3>1 DEF Quiet
    <3>2. CASE m = Other(n)
      <4>1. Other(m) = n
        BY <3>2, OtherType
      <4> QED BY <2>1, <2>4, <4>1 DEF Quiet
    <3> QED BY <3>1, <3>2, OtherType
  <2>5. Waits
    BY <1>1, <1>5, <2>4 DEF Waits
  <2> QED BY <2>3, <2>5
<1>6. CASE ~isKnown
  <2>1. /\ delayed' \in [Nodes -> SUBSET Frames]
        /\ \A m \in Nodes : \A waiting \in delayed'[m] :
             waiting \in delayed[m] \/ (waiting.type = "Data" /\ waiting.from = Other(m))
    BY <1>1, <1>2, <1>6 DEF TypeOK
  <2>2. StateInv'
    BY <1>4, <2>1, FrameStep
  <2> QED BY <1>1, <1>6, <2>2
<1> QED BY <1>5, <1>6

LEMMA LoseState ==
  ASSUME StateInv, NEW frame \in network, Lose(frame) \/ Drop(frame)
  PROVE  StateInv' /\ calm' = 0
<1>1. /\ network' = network \ {frame} /\ calm' = 0
      /\ UNCHANGED <<entry, media, delayed, hellos, flaws>>
      /\ disturbances' \in {disturbances, disturbances + 1}
  BY DEF Lose, Drop, Disturb
<1>2. /\ network' \in SUBSET Frames /\ hellos' \in Nat /\ disturbances' \in Nat
      /\ delayed' \in [Nodes -> SUBSET Frames] /\ calm' \in {0, calm}
      /\ UNCHANGED <<entry, media, flaws>>
      /\ \A new \in network' : new \in network \/ new.type # "Hello" \/ calm' = 0
      /\ \A m \in Nodes : \A waiting \in delayed'[m] :
           waiting \in delayed[m] \/ (waiting.type = "Data" /\ waiting.from = Other(m))
  BY <1>1 DEF StateInv, TypeOK
<1> QED BY <1>1, <1>2, FrameStep

LEMMA ExpireState ==
  ASSUME StateInv, NEW n \in Nodes, Expire(n)
  PROVE  StateInv'
<1>1. /\ entry' = [entry EXCEPT ![n] = {}]
      /\ UNCHANGED <<media, network, delayed, hellos, disturbances, calm, flaws>>
  BY DEF Expire
<1>2. /\ network' \in SUBSET Frames /\ hellos' \in Nat /\ disturbances' \in Nat
      /\ delayed' \in [Nodes -> SUBSET Frames] /\ calm' \in {0, calm} /\ UNCHANGED media
      /\ flaws \subseteq flaws' /\ flaws' \in SUBSET Flaws
      /\ \A new \in network' : new \in network \/ new.type # "Hello" \/ calm' = 0
      /\ \A m \in Nodes : \A waiting \in delayed'[m] :
           waiting \in delayed[m] \/ (waiting.type = "Data" /\ waiting.from = Other(m))
  BY <1>1 DEF StateInv, TypeOK
<1>3. {} \in SUBSET Entries /\ OneAtMost({})
  BY DEF OneAtMost
<1> QED BY <1>1, <1>2, <1>3, EndStep

(* The client's connections all lead to the one address of the server, the *)
(* serial line to its own; at the server each link is an address.           *)
LEMMA SameAddress ==
  ASSUME NEW n \in Nodes, NEW c \in Connections, NEW link \in Links
  PROVE  Address(n, link) = Address(n, c) <=> link = c \/ (n = Client /\ link \in Connections)
BY NeighborAssumption DEF Address, Links

LEMMA ConnectState ==
  ASSUME StateInv, NEW c \in Connections, Connect(c)
  PROVE  StateInv'
<1>1. /\ connections[Client] \cap Connections = {}
      /\ connecting' = connecting \cup {c}
      /\ flaws' = IF connecting = {} THEN flaws ELSE flaws \cup {"twice"}
      /\ UNCHANGED <<entry, open, connections, network, delayed, hellos, disturbances, calm>>
  BY DEF Connect
<1>2. TypeOK /\ EntriesInv /\ CalmInv /\ LiveInv
  BY DEF StateInv
<1>3. TypeOK'
  BY <1>1, <1>2 DEF TypeOK, Flaws
<1>4. EntriesInv'
  BY <1>1, <1>2 DEF EntriesInv, EntryOK
<1>5. CalmInv'
  BY <1>1, <1>2 DEF CalmInv
<1>6. LiveInv'
  <2>1. SUFFICES ASSUME flaws' \cap {"twice", "late"} = {} PROVE Live'
    BY DEF LiveInv
  <2>2. connecting = {} /\ Live
    BY <1>1, <1>2, <2>1 DEF LiveInv
  <2> QED BY <1>1, <2>2 DEF Live
<1> QED BY <1>3, <1>4, <1>5, <1>6 DEF StateInv

LEMMA ConnectedState ==
  ASSUME StateInv, NEW c \in Connections, Connected(c)
  PROVE  StateInv' /\ calm' = 0
<1>1. /\ c \in connecting /\ connecting' = connecting \ {c}
      /\ open' = [n \in Nodes |-> open[n] \cup {c}]
      /\ connections' = [n \in Nodes |-> AddConnection(n, c)]
      /\ calm' = 0
      /\ UNCHANGED <<entry, network, delayed, hellos, disturbances, flaws>>
  BY DEF Connected
<1>2. TypeOK /\ EntriesInv /\ CalmInv /\ LiveInv /\ c \in Links
  BY DEF StateInv, Links
<1>3. \A n \in Nodes : AddConnection(n, c) \in SUBSET Links
  BY <1>2 DEF TypeOK, AddConnection
<1>4. TypeOK'
  <2>1. 0 \in 0..Settling
    BY Times
  <2> QED BY <1>1, <1>2, <1>3, <2>1 DEF TypeOK
<1>5. EntriesInv'
  BY <1>1, <1>2 DEF EntriesInv, EntryOK
<1>6. CalmInv'
  BY <1>1, <1>2 DEF CalmInv
<1>7. LiveInv'
  <2>1. SUFFICES ASSUME flaws' \cap {"twice", "late"} = {} PROVE Live'
    BY DEF LiveInv
  <2>2. Live
    BY <1>1, <1>2, <2>1 DEF LiveInv
  <2>3. connecting' = {} /\ connections[Client] \cap Connections = {} /\ Client \in Nodes
    BY <1>1, <2>2 DEF Live, Nodes
  <2>4. ASSUME NEW n \in Nodes PROVE connections'[n] = open[n] \cup {c}
    <3>1. connections'[n] = {link \in connections[n] : Address(n, link) # Address(n, c)} \cup {c}
      BY <1>1 DEF AddConnection
    <3>2. \A link \in connections[n] : link # c => Address(n, link) # Address(n, c)
      BY <1>2, <2>3, SameAddress DEF TypeOK
    <3> QED BY <2>2, <3>1, <3>2 DEF Live
  <2>5. \A n \in Nodes : open'[n] = connections'[n] /\ open'[n] = open[n] \cup {c}
    BY <1>1, <2>4
  <2>6. open'[Client] \cap Connections = {c}
    BY <2>2, <2>3, <2>5 DEF Live
  <2> QED BY <1>1, <2>2, <2>3, <2>5, <2>6 DEF Live
<1> QED BY <1>1, <1>4, <1>5, <1>6, <1>7 DEF StateInv

LEMMA OnCloseState ==
  ASSUME StateInv, NEW n \in Nodes, NEW c \in Connections, c \in open[n],
         OnClose(n, c), calm' = 0, disturbances' \in Nat
  PROVE  StateInv'
<1>1. /\ open' = [open EXCEPT ![n] = @ \ {c}]
      /\ connections' = [connections EXCEPT ![n] =
                           {link \in connections[n] : Address(n, link) # Address(n, c)}]
      /\ entry' = [entry EXCEPT ![n] = {RemoveAddress(e, c) : e \in entry[n]}]
      /\ UNCHANGED <<connecting, network, delayed, hellos, flaws>>
  BY DEF OnClose
<1>2. TypeOK /\ EntriesInv /\ CalmInv /\ LiveInv /\ c \in Links
  BY DEF StateInv, Links
<1> DEFINE entries == {RemoveAddress(e, c) : e \in entry[n]}
<1>3. ASSUME NEW e \in entry[n]
      PROVE  /\ RemoveAddress(e, c) \in Entries /\ EntryOK(n, RemoveAddress(e, c))
             /\ \A i \in DOMAIN RemoveAddress(e, c).addresses :
                  /\ RemoveAddress(e, c).addresses[i].port # c
                  /\ \E k \in DOMAIN e.addresses :
                       RemoveAddress(e, c).addresses[i] = e.addresses[k]
  <2>1. e \in Entries /\ EntryOK(n, e)
    BY <1>2 DEF TypeOK, EntriesInv
  <2> QED BY <2>1, RemoveAddressEffect
<1>4. entries \in SUBSET Entries /\ OneAtMost(entries)
  BY <1>2, <1>3 DEF TypeOK, OneAtMost
<1> HIDE DEF entries
<1>5. /\ entry' \in [Nodes -> SUBSET Entries] /\ \A m \in Nodes : OneAtMost(entry'[m])
      /\ entry'[n] = entries /\ \A m \in Nodes : m # n => entry'[m] = entry[m]
  BY <1>1, <1>2, <1>4, SetEntry DEF entries
<1>6. TypeOK'
  <2>1. 0 \in 0..Settling
    BY Times
  <2>2. open' \in [Nodes -> SUBSET Links] /\ connections' \in [Nodes -> SUBSET Links]
    BY <1>1, <1>2 DEF TypeOK
  <2> QED BY <1>1, <1>2, <1>5, <2>1, <2>2 DEF TypeOK
<1>7. EntriesInv'
  <2>1. ASSUME NEW m \in Nodes, NEW e \in entry'[m] PROVE EntryOK(m, e)
    <3>1. CASE m = n
      BY <1>3, <1>5, <2>1, <3>1 DEF entries
    <3>2. CASE m # n
      BY <1>2, <1>5, <2>1, <3>2 DEF EntriesInv
    <3> QED BY <3>1, <3>2
  <2> QED BY <1>1, <2>1 DEF EntriesInv, EntryOK
<1>8. CalmInv'
  BY <1>1, <1>2 DEF CalmInv
<1>9. LiveInv'
  <2>1. SUFFICES ASSUME flaws' \cap {"twice", "late"} = {} PROVE Live'
    BY DEF LiveInv
  <2>2. Live
    BY <1>1, <1>2, <2>1 DEF LiveInv
  <2>3. /\ open'[n] = open[n] \ {c} /\ \A m \in Nodes : m # n => open'[m] = open[m]
        /\ connections'[n] = {link \in connections[n] : Address(n, link) # Address(n, c)}
        /\ \A m \in Nodes : m # n => connections'[m] = connections[m]
    BY <1>1, <1>2 DEF TypeOK
  <2>4. connections'[n] = open'[n]
    <3>1. ASSUME NEW link \in connections[n] PROVE Address(n, link) = Address(n, c) <=> link = c
      <4>1. link \in Links /\ link \in open[n]
        BY <1>2, <2>2 DEF TypeOK, Live
      <4>2. n = Client /\ link \in Connections => link = c
        BY <2>2, <4>1 DEF Live
      <4> QED BY <4>1, <4>2, SameAddress
    <3> QED BY <2>2, <2>3, <3>1 DEF Live
  <2>5. ASSUME NEW m \in Nodes, NEW e \in entry'[m], NEW i \in DOMAIN e.addresses
        PROVE  e.addresses[i].port \in open'[m]
    <3>1. CASE m = n
      <4>1. PICK f \in entry[n] : e = RemoveAddress(f, c)
        BY <1>5, <2>5, <3>1 DEF entries
      <4>2. PICK k \in DOMAIN f.addresses : e.addresses[i] = f.addresses[k]
        BY <1>3, <2>5, <4>1
      <4>3. e.addresses[i].port # c
        BY <1>3, <2>5, <4>1
      <4> QED BY <2>2, <2>3, <3>1, <4>2, <4>3 DEF Live
    <3>2. CASE m # n
      BY <1>5, <2>2, <2>3, <2>5, <3>2 DEF Live
    <3> QED BY <3>1, <3>2
  <2>6. /\ connections'[Client] \subseteq connections[Client] /\ open'[Client] \subseteq open[Client]
        /\ Client \in Nodes
    BY <2>3 DEF Nodes
  <2>7. \A m \in Nodes : Serial \in open'[m] /\ open'[m] = connections'[m]
    BY <2>2, <2>3, <2>4, NeighborAssumption DEF Live
  <2> QED BY <1>1, <2>2, <2>5, <2>6, <2>7 DEF Live
<1> QED BY <1>6, <1>7, <1>8, <1>9 DEF StateInv

LEMMA CloseState ==
  ASSUME StateInv, NEW n \in Nodes, NEW c \in Connections, Close(n, c) \/ Closed(n, c)
  PROVE  StateInv' /\ calm' = 0
<1>1. c \in open[n] /\ OnClose(n, c) /\ calm' = 0 /\ disturbances' \in Nat
  BY DEF Close, Closed, Disturb, StateInv, TypeOK
<1> QED BY <1>1, OnCloseState

LEMMA PassedEffect ==
  ASSUME NEW e \in Entries, ~Due(e)
  PROVE  /\ Passed(e) \in Entries
         /\ Passed(e).addresses = e.addresses
         /\ Passed(e).expiration = e.expiration - 1
         /\ e.sendHello = Off => Passed(e).sendHello = Off
         /\ e.sendHello # Off =>
              Passed(e).sendHello = e.sendHello - 1 /\ Passed(e).sendHello # Off
<1>1. /\ e.addresses \in Seq(Known) /\ e.expiration \in 1..NEIGHBOR_EXPIRATION_TIMEOUT
      /\ e.sendHello \in (1..SEND_HELLO_INTERVAL) \cup {Off}
  BY EntryParts, Times DEF Due
<1> DEFINE s == IF e.sendHello = Off THEN Off ELSE e.sendHello - 1
<1>2. Passed(e) = [e EXCEPT !.expiration = e.expiration - 1, !.sendHello = s]
  BY DEF Passed
<1>3. /\ e.expiration - 1 \in 0..NEIGHBOR_EXPIRATION_TIMEOUT
      /\ s \in (0..SEND_HELLO_INTERVAL) \cup {Off}
      /\ e.sendHello # Off => s = e.sendHello - 1 /\ s # Off
  BY <1>1, Times
<1> HIDE DEF s
<1>4. /\ Passed(e) \in Entries /\ Passed(e).addresses = e.addresses
      /\ Passed(e).expiration = e.expiration - 1 /\ Passed(e).sendHello = s
  BY <1>2, <1>3 DEF Entries
<1> QED BY <1>3, <1>4 DEF s

LEMMA TickEffect ==
  ASSUME StateInv, Tick
  PROVE  /\ network = {} /\ network' = {} /\ \A n \in Nodes : delayed[n] = {} /\ delayed'[n] = {}
         /\ flaws' = flaws
         /\ calm' = 0 \/ (calm' <= calm + 1 /\ open[Client] = open[Server])
         /\ \A n \in Nodes : \A e \in entry[n] : ~Due(e)
         /\ \A n \in Nodes : entry'[n] = {Passed(e) : e \in entry[n]}
BY Times DEF Tick, StateInv, TypeOK

LEMMA TickState ==
  ASSUME StateInv, Tick
  PROVE  StateInv'
<1>1. TypeOK /\ EntriesInv /\ CalmInv /\ LiveInv
  BY DEF StateInv
<1>2. /\ UNCHANGED <<media, network, delayed, hellos, disturbances, flaws>>
      /\ \A n \in Nodes : \A e \in entry[n] : ~Due(e)
      /\ entry' = [n \in Nodes |-> {Passed(e) : e \in entry[n]}]
      /\ open[Client] # open[Server] => calm' = 0
      /\ calm' \in {0, calm, calm + 1} /\ calm' <= Settling
  BY <1>1, Times DEF Tick, TypeOK
<1>3. open' = open /\ connections' = connections /\ connecting' = connecting
  BY <1>2 DEF media
<1>4. ASSUME NEW n \in Nodes, NEW e \in entry[n]
      PROVE  /\ Passed(e) \in Entries /\ Passed(e).addresses = e.addresses
             /\ Passed(e).sendHello = Off => e.sendHello = Off
  BY <1>1, <1>2, PassedEffect DEF TypeOK
<1>5. ASSUME NEW n \in Nodes, NEW d \in entry'[n]
      PROVE  \E e \in entry[n] : d = Passed(e)
  BY <1>2
<1>6. TypeOK'
  <2>1. entry' \in [Nodes -> SUBSET Entries]
    BY <1>2, <1>4
  <2>2. \A n \in Nodes : OneAtMost(entry'[n])
    BY <1>1, <1>5 DEF TypeOK, OneAtMost
  <2>3. calm' \in 0..Settling
    BY <1>1, <1>2, Times DEF TypeOK
  <2> QED BY <1>1, <1>2, <1>3, <2>1, <2>2, <2>3 DEF TypeOK
<1>7. EntriesInv'
  <2>1. ASSUME NEW n \in Nodes, NEW d \in entry'[n] PROVE EntryOK(n, d)'
    <3>1. PICK e \in entry[n] : d = Passed(e)
      BY <1>5, <2>1
    <3>2. EntryOK(n, e) /\ d.addresses = e.addresses /\ (d.sendHello = Off => e.sendHello = Off)
      BY <1>1, <1>4, <3>1 DEF EntriesInv
    <3> QED BY <1>2, <3>2 DEF EntryOK
  <2> QED BY <2>1 DEF EntriesInv
<1>8. CalmInv'
  <2>1. network = {}
    BY DEF Tick
  <2> QED BY <1>1, <1>2, <1>3, <2>1 DEF CalmInv
<1>9. LiveInv'
  <2>1. SUFFICES ASSUME flaws' \cap {"twice", "late"} = {} PROVE Live'
    BY DEF LiveInv
  <2>2. Live
    BY <1>1, <1>2, <2>1 DEF LiveInv
  <2>3. ASSUME NEW n \in Nodes, NEW d \in entry'[n], NEW i \in DOMAIN d.addresses
        PROVE  d.addresses[i].port \in open[n]
    <3>1. PICK e \in entry[n] : d = Passed(e)
      BY <1>5, <2>3
    <3> QED BY <1>4, <2>2, <2>3, <3>1 DEF Live
  <2> QED BY <1>3, <2>2, <2>3 DEF Live
<1> QED BY <1>6, <1>7, <1>8, <1>9 DEF StateInv

LEMMA InitState ==
  ASSUME Init
  PROVE  StateInv
<1>1. TypeOK
  <2>1. Serial \in Links /\ 0 \in 0..Settling
    BY Times DEF Links
  <2> QED BY <2>1 DEF Init, TypeOK, OneAtMost
<1>2. EntriesInv /\ CalmInv
  BY DEF Init, EntriesInv, CalmInv, Nodes
<1>3. LiveInv
  <2>1. open[Client] = {Serial}
    BY DEF Init, Nodes
  <2> QED BY <2>1, NeighborAssumption DEF Init, LiveInv, Live
<1> QED BY <1>1, <1>2, <1>3 DEF StateInv

-----------------------------------------------------------------------------
(* The clocks.  Nothing below holds once one of the flaws has happened.     *)

(* Ticks since the neighbor was last heard.                                 *)
Age(e) == NEIGHBOR_EXPIRATION_TIMEOUT - e.expiration

(* What n sent when it last set its hello timer has arrived: in the tick in *)
(* which a timer is set, it may be on its way.                              *)
Arrived(n, e) == e.sendHello < SEND_HELLO_INTERVAL \/ Quiet(n)

(* A neighbor that was known when the hello timer was last set, has heard   *)
(* the hello that was sent then.                                            *)
HelloHeard(n) ==
  \A e \in entry[n] :
    (/\ SEND_HELLO_INTERVAL - e.sendHello < Age(e)
     /\ SEND_HELLO_INTERVAL - e.sendHello < calm
     /\ Arrived(n, e)) =>
       \E f \in entry[Other(n)] : Age(f) <= SEND_HELLO_INTERVAL - e.sendHello

(* A neighbor that has not been heard for longer than the interval of the   *)
(* hellos has heard from this end within the interval.                      *)
HeardLately(n) ==
  \A e \in entry[n] :
    (Age(e) > SEND_HELLO_INTERVAL /\ calm >= Age(e)) =>
      \E f \in entry[Other(n)] : Age(f) <= SEND_HELLO_INTERVAL

(* Of two neighbors that know each other, neither waits for two intervals.  *)
WaitBounded(n) ==
  \A e \in entry[n], f \in entry[Other(n)] :
    calm >= Age(e) =>
      /\ Age(e) <= 2 * SEND_HELLO_INTERVAL
      /\ Arrived(Other(n), f) => Age(e) + f.sendHello <= 2 * SEND_HELLO_INTERVAL

(* A keep-alive of an end that does not know its neighbor: the neighbor has *)
(* expired there, for something was lost.                                   *)
KeepAliveKnown(n) ==
  entry[n] = {} =>
    \A frame \in network : (frame.from = n /\ frame.type = "KeepAlive") =>
      calm < NEIGHBOR_EXPIRATION_TIMEOUT

(* An end that is not known to its neighbor makes itself known by its next  *)
(* hello.                                                                   *)
UnknownBounded(n) ==
  entry[n] = {} =>
    \A f \in entry[Other(n)] :
      /\ calm <= NEIGHBOR_EXPIRATION_TIMEOUT + SEND_HELLO_INTERVAL
      /\ Arrived(Other(n), f) =>
           calm <= NEIGHBOR_EXPIRATION_TIMEOUT + SEND_HELLO_INTERVAL - f.sendHello

Clocks ==
  \A n \in Nodes : /\ HelloHeard(n) /\ HeardLately(n) /\ WaitBounded(n)
                   /\ KeepAliveKnown(n) /\ UnknownBounded(n)

TimeInv == flaws = {} => Clocks

(* Without a flaw, a hello timer that has gone off is set again.            *)
LEMMA Clock ==
  ASSUME StateInv, NEW n \in Nodes, NEW e \in entry[n]
  PROVE  /\ Age(e) \in 0..NEIGHBOR_EXPIRATION_TIMEOUT
         /\ flaws = {} => e.sendHello \in 0..SEND_HELLO_INTERVAL
<1>1. e \in Entries /\ EntryOK(n, e)
  BY DEF StateInv, TypeOK, EntriesInv
<1>2. Age(e) \in 0..NEIGHBOR_EXPIRATION_TIMEOUT
  BY <1>1, EntryParts, Times DEF Age
<1>3. flaws = {} => e.sendHello \in 0..SEND_HELLO_INTERVAL
  BY <1>1, EntryParts DEF EntryOK
<1> QED BY <1>2, <1>3

LEMMA CalmIsNat ==
  ASSUME StateInv
  PROVE  calm \in Nat /\ calm <= NEIGHBOR_EXPIRATION_TIMEOUT + SEND_HELLO_INTERVAL + 1
BY Times DEF StateInv, TypeOK

(* Nothing is claimed of the moment of a disturbance.                       *)
LEMMA ClocksAtZero ==
  ASSUME StateInv, calm = 0, flaws = {}
  PROVE  Clocks
<1>1. ASSUME NEW n \in Nodes
      PROVE  /\ HelloHeard(n) /\ HeardLately(n) /\ WaitBounded(n)
             /\ KeepAliveKnown(n) /\ UnknownBounded(n)
  <2>1. HelloHeard(n)
    BY Clock, Times DEF HelloHeard
  <2>2. HeardLately(n)
    BY Clock, Times DEF HeardLately
  <2>3. WaitBounded(n)
    <3>1. ASSUME NEW e \in entry[n], NEW f \in entry[Other(n)], calm >= Age(e)
          PROVE  Age(e) = 0 /\ f.sendHello \in 0..SEND_HELLO_INTERVAL
      BY <3>1, Clock, OtherType, Times
    <3> QED BY <3>1, Times DEF WaitBounded
  <2>4. KeepAliveKnown(n)
    BY Times DEF KeepAliveKnown
  <2>5. UnknownBounded(n)
    <3>1. \A f \in entry[Other(n)] : f.sendHello \in 0..SEND_HELLO_INTERVAL
      BY Clock, OtherType
    <3> QED BY <3>1, Times DEF UnknownBounded
  <2> QED BY <2>1, <2>2, <2>3, <2>4, <2>5
<1> QED BY <1>1 DEF Clocks

LEMMA ClocksAtZeroNext == (StateInv /\ calm = 0 /\ flaws = {} => Clocks)'
<1>1. StateInv /\ calm = 0 /\ flaws = {} => Clocks
  BY ClocksAtZero
<1> QED BY <1>1, PTL

LEMMA ClockNext ==
  (StateInv /\ flaws = {} =>
     \A n \in Nodes : \A e \in entry[n] :
       Age(e) \in 0..NEIGHBOR_EXPIRATION_TIMEOUT /\ e.sendHello \in 0..SEND_HELLO_INTERVAL)'
<1>1. StateInv /\ flaws = {} =>
        \A n \in Nodes : \A e \in entry[n] :
          Age(e) \in 0..NEIGHBOR_EXPIRATION_TIMEOUT /\ e.sendHello \in 0..SEND_HELLO_INTERVAL
  BY Clock
<1> QED BY <1>1, PTL

(* Steps that the clocks do not notice.                                     *)
LEMMA SameClocks ==
  ASSUME Clocks, UNCHANGED calm, \A n \in Nodes : entry'[n] = entry[n],
         \A n \in Nodes : Quiet(n)' => Quiet(n),
         \A n \in Nodes : \A frame \in network' :
           (frame.from = n /\ frame.type = "KeepAlive" /\ entry[n] = {}) => frame \in network
  PROVE  Clocks'
<1>1. ASSUME NEW n \in Nodes
      PROVE  HelloHeard(n)' /\ HeardLately(n)' /\ WaitBounded(n)'
             /\ KeepAliveKnown(n)' /\ UnknownBounded(n)'
  <2>1. /\ HelloHeard(n) /\ HeardLately(n) /\ WaitBounded(n)
        /\ KeepAliveKnown(n) /\ UnknownBounded(n)
    BY DEF Clocks
  <2>2. /\ Other(n) \in Nodes /\ entry'[n] = entry[n] /\ entry'[Other(n)] = entry[Other(n)]
        /\ \A e : Arrived(n, e)' => Arrived(n, e)
        /\ \A e : Arrived(Other(n), e)' => Arrived(Other(n), e)
    BY OtherType DEF Arrived
  <2>3. HelloHeard(n)'
    BY <2>1, <2>2 DEF HelloHeard
  <2>4. HeardLately(n)'
    BY <2>1, <2>2 DEF HeardLately
  <2>5. WaitBounded(n)'
    BY <2>1, <2>2 DEF WaitBounded
  <2>6. KeepAliveKnown(n)'
    BY <2>1, <2>2 DEF KeepAliveKnown
  <2>7. UnknownBounded(n)'
    BY <2>1, <2>2 DEF UnknownBounded
  <2> QED BY <2>3, <2>4, <2>5, <2>6, <2>7
<1> QED BY <1>1 DEF Clocks

LEMMA SpeakClocks ==
  ASSUME StateInv, StateInv', Clocks, flaws = {}, flaws' = {}, NEW n \in Nodes, Speaks(n)
  PROVE  Clocks'
<1> DEFINE m == Other(n)
<1>1. m \in Nodes /\ m # n /\ Other(m) = n /\ Nodes = {n, m}
  BY OtherType
<1>2. /\ delayed' = delayed /\ calm' = calm /\ network \subseteq network'
      /\ \A frame \in network' :
           frame \in network \/ (frame.from = n /\ (frame.type = "KeepAlive" => entry[n] # {}))
      /\ entry'[m] = entry[m]
  BY DEF Speaks
<1>3. (Quiet(m)' <=> Quiet(m)) /\ (Quiet(n)' => Quiet(n))
  BY <1>1, <1>2 DEF Quiet
<1>4. CASE calm = 0
  BY <1>2, <1>4, ClocksAtZeroNext
<1>5. CASE entry[n] = {} /\ entry'[n] = {}
  <2>1. \A k \in Nodes : entry'[k] = entry[k] /\ (Quiet(k)' => Quiet(k))
    BY <1>1, <1>2, <1>3, <1>5
  <2>2. \A k \in Nodes : \A frame \in network' :
          (frame.from = k /\ frame.type = "KeepAlive" /\ entry[k] = {}) => frame \in network
    BY <1>2, <1>5
  <2> QED BY <1>2, <2>1, <2>2, SameClocks
<1>6. CASE ~(entry[n] = {} /\ entry'[n] = {}) /\ calm # 0
  <2>1. PICK e \in entry[n], d \in entry'[n] :
          /\ entry'[n] = {d} /\ d.expiration = e.expiration
          /\ \/ d.sendHello = e.sendHello
             \/ d.sendHello = SEND_HELLO_INTERVAL /\ \E frame \in network' : frame.from = n
    BY <1>6 DEF Speaks
  <2>2. entry[n] = {e} /\ Age(d) = Age(e)
    BY <2>1, OneOrNone DEF StateInv, Age
  <2>3. Arrived(n, d)' => d.sendHello = e.sendHello /\ Arrived(n, e)
    <3>1. CASE d.sendHello = e.sendHello
      BY <1>3, <3>1 DEF Arrived
    <3>2. CASE d.sendHello = SEND_HELLO_INTERVAL /\ \E frame \in network' : frame.from = n
      BY <3>2, Times DEF Arrived, Quiet
    <3> QED BY <2>1, <3>1, <3>2
  <2>4. \A f : Arrived(m, f)' <=> Arrived(m, f)
    BY <1>3 DEF Arrived
  <2>5. /\ HelloHeard(n) /\ HeardLately(n) /\ WaitBounded(n)
        /\ HelloHeard(m) /\ HeardLately(m) /\ WaitBounded(m)
        /\ KeepAliveKnown(m) /\ UnknownBounded(m)
    BY <1>1 DEF Clocks
  <2>6. HelloHeard(n)' /\ HeardLately(n)'
    BY <1>2, <2>1, <2>2, <2>3, <2>5 DEF HelloHeard, HeardLately
  <2>7. HelloHeard(m)' /\ HeardLately(m)'
    BY <1>1, <1>2, <2>1, <2>2, <2>4, <2>5 DEF HelloHeard, HeardLately
  <2>8. WaitBounded(n)'
    BY <1>2, <2>1, <2>2, <2>4, <2>5 DEF WaitBounded
  <2>9. WaitBounded(m)'
    BY <1>1, <1>2, <2>1, <2>2, <2>3, <2>5 DEF WaitBounded
  <2>10. KeepAliveKnown(n)' /\ UnknownBounded(n)'
    BY <2>1 DEF KeepAliveKnown, UnknownBounded
  <2>11. KeepAliveKnown(m)'
    BY <1>1, <1>2, <2>5 DEF KeepAliveKnown
  <2>12. UnknownBounded(m)'
    <3>1. ASSUME entry[m] = {}
          PROVE  /\ calm <= NEIGHBOR_EXPIRATION_TIMEOUT + SEND_HELLO_INTERVAL
                 /\ Arrived(n, d)' =>
                      calm <= NEIGHBOR_EXPIRATION_TIMEOUT + SEND_HELLO_INTERVAL - d.sendHello
      BY <1>1, <2>2, <2>3, <2>5, <3>1 DEF UnknownBounded
    <3> QED BY <1>1, <1>2, <2>1, <3>1 DEF UnknownBounded
  <2> QED BY <1>1, <2>6, <2>7, <2>8, <2>9, <2>10, <2>11, <2>12 DEF Clocks
<1> QED BY <1>4, <1>5, <1>6

LEMMA HearClocks ==
  ASSUME StateInv, StateInv', Clocks, flaws = {}, flaws' = {}, NEW n \in Nodes, Hears(n)
  PROVE  Clocks'
<1> DEFINE m == Other(n)
<1>1. m \in Nodes /\ m # n /\ Other(m) = n /\ Nodes = {n, m}
  BY OtherType
<1>2. /\ calm' = calm /\ network' \subseteq network /\ entry'[m] = entry[m]
      /\ delayed'[m] = delayed[m] /\ \A frame \in network : frame.from = n => frame \in network'
  BY DEF Hears
<1>3. PICK d \in entry'[n] :
        /\ entry'[n] = {d} /\ d.expiration = NEIGHBOR_EXPIRATION_TIMEOUT
        /\ \A e \in entry[n] : d.sendHello = e.sendHello
        /\ entry[n] = {} =>
             /\ d.sendHello = SEND_HELLO_INTERVAL
             /\ \E frame \in network : frame.from = m /\ frame.type = "KeepAlive"
  BY DEF Hears
<1>4. Age(d) = 0 /\ d.sendHello \in 0..SEND_HELLO_INTERVAL
  BY <1>3, ClockNext, Times DEF Age
<1>5. Quiet(n)' <=> Quiet(n)
  BY <1>1, <1>2 DEF Quiet
<1>6. /\ HelloHeard(m) /\ HeardLately(m) /\ WaitBounded(m)
      /\ KeepAliveKnown(m) /\ UnknownBounded(m)
  BY <1>1 DEF Clocks
<1>7. calm \in Nat /\ \A g \in entry[m] : Age(g) \in Nat /\ g.sendHello \in 0..SEND_HELLO_INTERVAL
  BY <1>1, Clock, CalmIsNat, Times
<1>8. HelloHeard(n)' /\ HeardLately(n)'
  BY <1>3, <1>4, Times DEF HelloHeard, HeardLately
<1>9. HelloHeard(m)' /\ HeardLately(m)'
  BY <1>1, <1>2, <1>3, <1>4, <1>7, Times DEF HelloHeard, HeardLately
<1>10. WaitBounded(n)'
  <2>1. ASSUME NEW g \in entry[m] PROVE Age(d) + g.sendHello <= 2 * SEND_HELLO_INTERVAL
    BY <1>4, <1>7, Times
  <2> QED BY <1>2, <1>3, <1>4, <2>1, Times DEF WaitBounded
<1>11. WaitBounded(m)'
  <2>1. ASSUME NEW g \in entry[m], calm >= Age(g)
        PROVE  /\ Age(g) <= 2 * SEND_HELLO_INTERVAL
               /\ Arrived(n, d)' => Age(g) + d.sendHello <= 2 * SEND_HELLO_INTERVAL
    <3>1. CASE entry[n] = {}
      <4>1. Age(g) <= SEND_HELLO_INTERVAL
        BY <1>1, <1>6, <1>7, <2>1, <3>1, Times DEF HeardLately
      <4> QED BY <1>4, <1>7, <4>1, Times
    <3>2. CASE entry[n] # {}
      <4>1. PICK e \in entry[n] : d.sendHello = e.sendHello
        BY <1>3, <3>2
      <4>2. Arrived(n, d)' => Arrived(n, e)
        BY <1>5, <4>1 DEF Arrived
      <4> QED BY <1>1, <1>6, <2>1, <4>1, <4>2 DEF WaitBounded
    <3> QED BY <3>1, <3>2
  <2> QED BY <1>1, <1>2, <1>3, <2>1 DEF WaitBounded
<1>12. KeepAliveKnown(n)' /\ UnknownBounded(n)'
  BY <1>3 DEF KeepAliveKnown, UnknownBounded
<1>13. KeepAliveKnown(m)'
  BY <1>2, <1>6 DEF KeepAliveKnown
<1>14. UnknownBounded(m)'
  <2>1. ASSUME entry[m] = {}
        PROVE  /\ calm <= NEIGHBOR_EXPIRATION_TIMEOUT + SEND_HELLO_INTERVAL
               /\ Arrived(n, d)' =>
                    calm <= NEIGHBOR_EXPIRATION_TIMEOUT + SEND_HELLO_INTERVAL - d.sendHello
    <3>1. CASE entry[n] = {}
      <4>1. calm < NEIGHBOR_EXPIRATION_TIMEOUT
        BY <1>3, <1>6, <2>1, <3>1 DEF KeepAliveKnown
      <4> QED BY <1>4, <1>7, <4>1, Times
    <3>2. CASE entry[n] # {}
      <4>1. PICK e \in entry[n] : d.sendHello = e.sendHello
        BY <1>3, <3>2
      <4>2. Arrived(n, d)' => Arrived(n, e)
        BY <1>5, <4>1 DEF Arrived
      <4> QED BY <1>1, <1>6, <2>1, <4>1, <4>2 DEF UnknownBounded
    <3> QED BY <3>1, <3>2
  <2> QED BY <1>1, <1>2, <1>3, <2>1 DEF UnknownBounded
<1> QED BY <1>1, <1>8, <1>9, <1>10, <1>11, <1>12, <1>13, <1>14 DEF Clocks

(* Only a neighbor that was lost expires.                                   *)
LEMMA ExpireLate ==
  ASSUME StateInv, Clocks, flaws = {}, NEW n \in Nodes, Expire(n)
  PROVE  /\ calm < NEIGHBOR_EXPIRATION_TIMEOUT
         /\ \A e \in entry[n] : Age(e) = NEIGHBOR_EXPIRATION_TIMEOUT
<1>1. PICK e \in entry[n] : e.expiration = 0
  BY DEF Expire
<1>2. entry[n] = {e} /\ Age(e) = NEIGHBOR_EXPIRATION_TIMEOUT
  BY <1>1, OneOrNone, Times DEF StateInv, Age
<1>3. HeardLately(n) /\ WaitBounded(n)
  BY DEF Clocks
<1>4. ASSUME calm >= NEIGHBOR_EXPIRATION_TIMEOUT PROVE FALSE
  <2>1. PICK f \in entry[Other(n)] : Age(f) <= SEND_HELLO_INTERVAL
    BY <1>2, <1>3, <1>4, Times DEF HeardLately
  <2>2. Age(e) <= 2 * SEND_HELLO_INTERVAL
    BY <1>2, <1>3, <1>4, <2>1 DEF WaitBounded
  <2> QED BY <1>2, <2>2, Times
<1>5. calm < NEIGHBOR_EXPIRATION_TIMEOUT
  BY <1>4, CalmIsNat, Times
<1> QED BY <1>2, <1>5

LEMMA ExpireClocks ==
  ASSUME StateInv, StateInv', Clocks, flaws = {}, NEW n \in Nodes, Expire(n)
  PROVE  Clocks'
<1> DEFINE m == Other(n)
<1>1. m \in Nodes /\ m # n /\ Other(m) = n /\ Nodes = {n, m}
  BY OtherType
<1>2. /\ UNCHANGED <<network, delayed, calm>> /\ entry'[n] = {} /\ entry'[m] = entry[m]
  BY <1>1 DEF Expire, StateInv, TypeOK
<1>3. /\ calm < NEIGHBOR_EXPIRATION_TIMEOUT
      /\ \A e \in entry[n] : Age(e) = NEIGHBOR_EXPIRATION_TIMEOUT
  BY ExpireLate
<1>4. \A k \in Nodes : Quiet(k)' <=> Quiet(k)
  BY <1>2 DEF Quiet
<1>5. /\ calm \in Nat
      /\ \A g \in entry[m] : Age(g) \in Nat /\ g.sendHello \in 0..SEND_HELLO_INTERVAL
  BY <1>1, Clock, CalmIsNat, Times
<1>6. HelloHeard(m) /\ HeardLately(m) /\ KeepAliveKnown(m)
  BY <1>1 DEF Clocks
<1>7. HelloHeard(n)' /\ HeardLately(n)' /\ WaitBounded(n)'
  BY <1>2 DEF HelloHeard, HeardLately, WaitBounded
<1>8. HelloHeard(m)' /\ HeardLately(m)'
  <2>1. ASSUME NEW g \in entry[m], Arrived(m, g)',
               SEND_HELLO_INTERVAL - g.sendHello < Age(g), SEND_HELLO_INTERVAL - g.sendHello < calm
        PROVE  FALSE
    <3>1. Arrived(m, g)
      BY <1>1, <1>4, <2>1 DEF Arrived
    <3>2. \E f \in entry[n] : Age(f) <= SEND_HELLO_INTERVAL - g.sendHello
      BY <1>1, <1>6, <2>1, <3>1 DEF HelloHeard
    <3> QED BY <1>3, <1>5, <3>2, Times
  <2>2. ASSUME NEW g \in entry[m], Age(g) > SEND_HELLO_INTERVAL, calm >= Age(g) PROVE FALSE
    <3>1. \E f \in entry[n] : Age(f) <= SEND_HELLO_INTERVAL
      BY <1>1, <1>6, <2>2 DEF HeardLately
    <3> QED BY <1>3, <3>1, Times
  <2> QED BY <1>2, <2>1, <2>2 DEF HelloHeard, HeardLately
<1>9. WaitBounded(m)'
  BY <1>1, <1>2 DEF WaitBounded
<1>10. KeepAliveKnown(n)' /\ KeepAliveKnown(m)'
  BY <1>2, <1>3, <1>6 DEF KeepAliveKnown
<1>11. UnknownBounded(n)'
  <2>1. \A f \in entry[m] : /\ calm <= NEIGHBOR_EXPIRATION_TIMEOUT + SEND_HELLO_INTERVAL
                            /\ calm <= NEIGHBOR_EXPIRATION_TIMEOUT + SEND_HELLO_INTERVAL - f.sendHello
    BY <1>3, <1>5, Times
  <2> QED BY <1>2, <2>1 DEF UnknownBounded
<1>12. UnknownBounded(m)'
  BY <1>1, <1>2 DEF UnknownBounded
<1> QED BY <1>1, <1>7, <1>8, <1>9, <1>10, <1>11, <1>12 DEF Clocks

LEMMA TickClocks ==
  ASSUME StateInv, StateInv', Clocks, flaws = {}, flaws' = {}, Tick
  PROVE  Clocks'
<1>1. /\ network = {} /\ network' = {} /\ \A n \in Nodes : delayed[n] = {} /\ delayed'[n] = {}
      /\ calm' = 0 \/ calm' <= calm + 1
      /\ \A n \in Nodes : \A e \in entry[n] : ~Due(e)
      /\ \A n \in Nodes : entry'[n] = {Passed(e) : e \in entry[n]}
  BY TickEffect
<1>2. CASE calm' = 0
  BY <1>2, ClocksAtZeroNext
<1>3. CASE calm' # 0
  <2>1. calm' <= calm + 1 /\ calm \in Nat /\ calm' \in Nat
    <3>1. calm \in Nat
      BY CalmIsNat
    <3>2. calm' \in Nat
      BY Times DEF StateInv, TypeOK
    <3> QED BY <1>1, <1>3, <3>1, <3>2
  <2>2. ASSUME NEW n \in Nodes, NEW e \in entry[n]
        PROVE  /\ Age(Passed(e)) = Age(e) + 1 /\ Age(e) \in Nat
               /\ Passed(e).sendHello = e.sendHello - 1
               /\ e.sendHello \in 1..SEND_HELLO_INTERVAL
               /\ Arrived(n, e)
    <3>1. e \in Entries /\ ~Due(e) /\ e.sendHello \in 0..SEND_HELLO_INTERVAL /\ Age(e) \in Nat
      BY <1>1, <2>2, Clock, Times DEF StateInv, TypeOK
    <3>2. e.sendHello # 0 /\ e.sendHello # Off
      BY <3>1, Times DEF Due
    <3>3. Passed(e).expiration = e.expiration - 1 /\ Passed(e).sendHello = e.sendHello - 1
      BY <3>1, <3>2, PassedEffect
    <3>4. Age(Passed(e)) = Age(e) + 1
      BY <3>1, <3>3, EntryParts, Times DEF Age
    <3>5. Quiet(n)
      BY <1>1, OtherType DEF Quiet
    <3> QED BY <3>1, <3>2, <3>3, <3>4, <3>5 DEF Arrived
  <2>3. ASSUME NEW n \in Nodes
        PROVE  HelloHeard(n)' /\ HeardLately(n)' /\ WaitBounded(n)'
               /\ KeepAliveKnown(n)' /\ UnknownBounded(n)'
    <3> DEFINE m == Other(n)
    <3>1. m \in Nodes /\ HelloHeard(n) /\ HeardLately(n) /\ WaitBounded(n) /\ UnknownBounded(n)
      BY OtherType DEF Clocks
    <3>2. /\ \A d \in entry'[n] : \E e \in entry[n] : d = Passed(e)
          /\ \A f \in entry[m] : Passed(f) \in entry'[m]
          /\ \A d \in entry'[m] : \E f \in entry[m] : d = Passed(f)
          /\ entry'[n] = {} => entry[n] = {}
      BY <1>1, <3>1
    <3>3. ASSUME NEW d \in entry'[n], SEND_HELLO_INTERVAL - d.sendHello < Age(d),
                 SEND_HELLO_INTERVAL - d.sendHello < calm'
          PROVE  \E f \in entry'[m] : Age(f) <= SEND_HELLO_INTERVAL - d.sendHello
      <4>1. PICK e \in entry[n] : d = Passed(e)
        BY <3>2
      <4>2. \E f \in entry[m] : Age(f) <= SEND_HELLO_INTERVAL - e.sendHello
        BY <2>1, <2>2, <3>1, <3>3, <4>1, Times DEF HelloHeard
      <4>3. PICK f \in entry[m] : Age(f) <= SEND_HELLO_INTERVAL - e.sendHello
        BY <4>2
      <4>4. Age(Passed(f)) <= SEND_HELLO_INTERVAL - d.sendHello
        BY <2>2, <3>1, <4>1, <4>3, Times
      <4> QED BY <3>2, <4>3, <4>4
    <3>4. ASSUME NEW d \in entry'[n], Age(d) > SEND_HELLO_INTERVAL, calm' >= Age(d)
          PROVE  \E f \in entry'[m] : Age(f) <= SEND_HELLO_INTERVAL
      <4>1. PICK e \in entry[n] : d = Passed(e)
        BY <3>2
      <4>2. /\ SEND_HELLO_INTERVAL - e.sendHello < Age(e)
            /\ SEND_HELLO_INTERVAL - e.sendHello < calm
        BY <2>1, <2>2, <3>4, <4>1, Times
      <4>3. PICK f \in entry[m] : Age(f) <= SEND_HELLO_INTERVAL - e.sendHello
        BY <2>2, <3>1, <4>2 DEF HelloHeard
      <4>4. Age(Passed(f)) <= SEND_HELLO_INTERVAL
        BY <2>2, <3>1, <4>3, Times
      <4> QED BY <3>2, <4>3, <4>4
    <3>5. ASSUME NEW d \in entry'[n], NEW f \in entry'[m], calm' >= Age(d)
          PROVE  /\ Age(d) <= 2 * SEND_HELLO_INTERVAL
                 /\ Age(d) + f.sendHello <= 2 * SEND_HELLO_INTERVAL
      <4>1. PICK e \in entry[n] : d = Passed(e)
        BY <3>2
      <4>2. PICK g \in entry[m] : f = Passed(g)
        BY <3>2
      <4>3. calm >= Age(e)
        BY <2>1, <2>2, <3>5, <4>1
      <4>4. Age(e) + g.sendHello <= 2 * SEND_HELLO_INTERVAL
        BY <2>2, <3>1, <4>3 DEF WaitBounded
      <4> QED BY <2>2, <3>1, <4>1, <4>2, <4>4, Times
    <3>6. ASSUME entry'[n] = {}, NEW f \in entry'[m]
          PROVE  calm' <= NEIGHBOR_EXPIRATION_TIMEOUT + SEND_HELLO_INTERVAL - f.sendHello
                 /\ calm' <= NEIGHBOR_EXPIRATION_TIMEOUT + SEND_HELLO_INTERVAL
      <4>1. PICK g \in entry[m] : f = Passed(g)
        BY <3>2
      <4>2. calm <= NEIGHBOR_EXPIRATION_TIMEOUT + SEND_HELLO_INTERVAL - g.sendHello
        BY <2>2, <3>1, <3>2, <3>6 DEF UnknownBounded
      <4> QED BY <2>1, <2>2, <3>1, <4>1, <4>2, Times
    <3>7. HelloHeard(n)' /\ HeardLately(n)'
      BY <3>3, <3>4 DEF HelloHeard, HeardLately
    <3>8. WaitBounded(n)'
      BY <3>5 DEF WaitBounded
    <3>9. KeepAliveKnown(n)' /\ UnknownBounded(n)'
      BY <1>1, <3>6 DEF KeepAliveKnown, UnknownBounded
    <3> QED BY <3>7, <3>8, <3>9
  <2> QED BY <2>3 DEF Clocks
<1> QED BY <1>2, <1>3

-----------------------------------------------------------------------------
(* The theorems. *)

Inv == StateInv /\ TimeInv

LEMMA FlawsStay ==
  ASSUME Next
  PROVE  flaws \subseteq flaws'
BY DEF Next, SendHello, HelloInterval, Expire, SendFrame, SendBroadcast, Deliver, Close, Closed,
       OnClose, ReceiveHello, ReceiveFrame, Lose, Drop, Connect, Connected, Tick

LEMMA WaitClocks ==
  ASSUME Clocks, Waits
  PROVE  Clocks'
<1>1. /\ calm' = calm /\ \A n \in Nodes : entry'[n] = entry[n] /\ (Quiet(n)' => Quiet(n))
      /\ network' \subseteq network
  BY DEF Waits
<1> QED BY <1>1, SameClocks

LEMMA ConnectClocks ==
  ASSUME Clocks, NEW c \in Connections, Connect(c)
  PROVE  Clocks'
<1>1. UNCHANGED <<entry, network, delayed, calm>>
  BY DEF Connect
<1>2. \A n \in Nodes : Quiet(n)' => Quiet(n)
  BY <1>1 DEF Quiet
<1> QED BY <1>1, <1>2, SameClocks

LEMMA NextInv ==
  ASSUME Inv, Next
  PROVE  Inv'
<1>1. StateInv /\ TimeInv /\ (flaws' = {} => flaws = {} /\ Clocks)
  BY FlawsStay DEF Inv, TimeInv
<1>2. StateInv' /\ calm' = 0 => Inv'
  BY ClocksAtZeroNext DEF Inv, TimeInv
<1>3. StateInv' /\ (flaws' = {} => Clocks') => Inv'
  BY DEF Inv, TimeInv
<1>4. CASE \E n \in Nodes : \E address \in {Address(n, link) : link \in Links} : SendHello(n, address)
  BY <1>1, <1>2, <1>4, SendHelloState
<1>5. CASE \E n \in Nodes : HelloInterval(n) \/ SendFrame(n)
  <2>1. PICK n \in Nodes : HelloInterval(n) \/ SendFrame(n)
    BY <1>5
  <2>2. StateInv' /\ (flaws' = {} => Speaks(n))
    BY <1>1, <2>1, HelloIntervalState, SendFrameState
  <2> QED BY <1>1, <1>3, <2>2, SpeakClocks
<1>6. CASE \E n \in Nodes : \E ignored \in BOOLEAN : SendBroadcast(n, ignored)
  <2>1. PICK n \in Nodes, ignored \in BOOLEAN : SendBroadcast(n, ignored)
    BY <1>6
  <2>2. StateInv' /\ (flaws' = {} => Speaks(n))
    BY <1>1, <2>1, SendBroadcastState
  <2> QED BY <1>1, <1>3, <2>2, SpeakClocks
<1>7. CASE \E n \in Nodes : Expire(n)
  BY <1>1, <1>3, <1>7, ExpireState, ExpireClocks
<1>8. CASE \E n \in Nodes : \E frame \in delayed[n] : Deliver(n, frame)
  <2>1. PICK n \in Nodes : \E frame \in delayed[n] : Deliver(n, frame)
    BY <1>8
  <2>2. StateInv' /\ (calm' = 0 \/ Hears(n))
    BY <1>1, <2>1, DeliverState
  <2> QED BY <1>1, <1>2, <1>3, <2>2, HearClocks
<1>9. CASE \E n \in Nodes : \E c \in Connections : Close(n, c) \/ Closed(n, c)
  BY <1>1, <1>2, <1>9, CloseState
<1>10. CASE \E frame \in network : ReceiveHello(Other(frame.from), frame)
  <2>1. PICK frame \in network : ReceiveHello(Other(frame.from), frame)
    BY <1>10
  <2>2. Other(frame.from) \in Nodes
    BY <1>1, OtherType DEF StateInv, TypeOK, Frames
  <2>3. StateInv' /\ (calm' = 0 \/ Hears(Other(frame.from)))
    BY <1>1, <2>1, <2>2, ReceiveHelloState
  <2> QED BY <1>1, <1>2, <1>3, <2>2, <2>3, HearClocks
<1>11. CASE \E frame \in network : ReceiveFrame(Other(frame.from), frame)
  <2>1. PICK frame \in network : ReceiveFrame(Other(frame.from), frame)
    BY <1>11
  <2>2. Other(frame.from) \in Nodes
    BY <1>1, OtherType DEF StateInv, TypeOK, Frames
  <2>3. StateInv' /\ (calm' = 0 \/ Waits)
    BY <1>1, <2>1, <2>2, ReceiveFrameState
  <2> QED BY <1>1, <1>2, <1>3, <2>3, WaitClocks
<1>12. CASE \E frame \in network : Lose(frame) \/ Drop(frame)
  BY <1>1, <1>2, <1>12, LoseState
<1>13. CASE \E c \in Connections : Connect(c)
  BY <1>1, <1>3, <1>13, ConnectState, ConnectClocks
<1>14. CASE \E c \in Connections : Connected(c)
  BY <1>1, <1>2, <1>14, ConnectedState
<1>15. CASE Tick
  BY <1>1, <1>3, <1>15, TickState, TickClocks
<1> QED BY <1>4, <1>5, <1>6, <1>7, <1>8, <1>9, <1>10, <1>11, <1>12, <1>13, <1>14, <1>15 DEF Next

(* The state keeps its shape, and what an end sends over its first address  *)
(* comes out at the other end; a neighbor is heard in time.                 *)
THEOREM Invariance == Spec => []Inv
<1>1. Init => Inv
  <2>1. Init => StateInv /\ calm = 0
    BY InitState DEF Init
  <2> QED BY <2>1, ClocksAtZero DEF Inv, TimeInv
<1>2. Inv /\ [Next]_vars => Inv'
  <2>1. CASE UNCHANGED vars
    BY <2>1 DEF vars, media, Inv, StateInv, TypeOK, EntriesInv, EntryOK, CalmInv, LiveInv, Live,
                TimeInv, Clocks, HelloHeard, HeardLately, WaitBounded, KeepAliveKnown,
                UnknownBounded, Arrived, Quiet
  <2> QED BY <2>1, NextInv
<1> QED BY <1>1, <1>2, PTL DEF Spec

(* Every address an end knows leads over an open port to the other end: the *)
(* removal of addresses with their ports, of NeighborNodeEntry, and the     *)
(* table of connections of the WebSocket handler go together.               *)
THEOREM AddressesStayLive == Spec => []AddressesLive
<1>1. Inv => AddressesLive
  <2>1. SUFFICES ASSUME Inv, flaws \cap {"twice", "late"} = {},
                        NEW n \in Nodes, NEW e \in entry[n], NEW known \in ToSet(e.addresses)
                 PROVE  \E link \in connections[n] \cap open[n] : Address(n, link) = known.address
    BY DEF AddressesLive
  <2>2. StateInv /\ Live
    BY <2>1 DEF Inv, StateInv, LiveInv
  <2>3. PICK i \in DOMAIN e.addresses : known = e.addresses[i]
    BY DEF ToSet
  <2> QED BY <2>2, <2>3, AddressLeads
<1> QED BY <1>1, Invariance, PTL

(* An entry goes by its expiration timer only.                              *)
LEMMA NotEmptied ==
  ASSUME NEW entries, entries # {}
  PROVE  /\ DelayExpiration(entries) # {} /\ DelayHelloInterval(entries) # {}
         /\ \A known : AddNeighbor(entries, known) # {}
BY DEF DelayExpiration, DelayHelloInterval, AddNeighbor

LEMMA OnlyExpire ==
  ASSUME TypeOK, Next, NEW n \in Nodes, entry[n] # {}, entry'[n] = {}
  PROVE  Expire(n)
<1>1. ASSUME NEW k \in Nodes, NEW entries, entries # {} \/ k # n,
             entry' = [entry EXCEPT ![k] = entries]
      PROVE  FALSE
  BY <1>1 DEF TypeOK
<1>2. ASSUME NEW k \in Nodes, HelloInterval(k) \/ SendFrame(k) PROVE FALSE
  <2>1. PICK e \in entry[k] :
          \/ entry' = [entry EXCEPT ![k] = {[e EXCEPT !.sendHello = Off]}]
          \/ entry' = [entry EXCEPT ![k] = DelayHelloInterval({e})]
    BY <1>2 DEF HelloInterval, SendFrame
  <2>2. DelayHelloInterval({e}) # {}
    BY NotEmptied
  <2> QED BY <1>1, <2>1, <2>2
<1>3. ASSUME NEW k \in Nodes, NEW ignored \in BOOLEAN, SendBroadcast(k, ignored) PROVE FALSE
  <2>1. PICK reached, single :
          entry' = [entry EXCEPT ![k] = DelayHelloInterval(reached \cup single)
                                          \cup (entry[k] \ (reached \cup single))]
    BY <1>3 DEF SendBroadcast
  <2> DEFINE entries == DelayHelloInterval(reached \cup single)
                          \cup (entry[k] \ (reached \cup single))
  <2>2. entries # {} \/ k # n
    BY NotEmptied
  <2> QED BY <1>1, <2>1, <2>2
<1>4. ASSUME NEW k \in Nodes, Expire(k) PROVE Expire(n)
  <2>1. k = n
    BY <1>1, <1>4 DEF Expire
  <2> QED BY <1>4, <2>1
<1>5. ASSUME NEW k \in Nodes, NEW frame, Deliver(k, frame) PROVE FALSE
  <2>1. entry' = [entry EXCEPT ![k] = DelayExpiration(entry[k])]
    BY <1>5 DEF Deliver
  <2>2. DelayExpiration(entry[k]) # {} \/ k # n
    BY NotEmptied
  <2> QED BY <1>1, <2>1, <2>2
<1>6. ASSUME NEW k \in Nodes, NEW c, Close(k, c) \/ Closed(k, c) PROVE FALSE
  <2>1. entry' = [entry EXCEPT ![k] = {RemoveAddress(e, c) : e \in entry[k]}]
    BY <1>6 DEF Close, Closed, OnClose
  <2>2. {RemoveAddress(e, c) : e \in entry[k]} # {} \/ k # n
    OBVIOUS
  <2> QED BY <1>1, <2>1, <2>2
<1>7. ASSUME NEW frame \in network, ReceiveHello(Other(frame.from), frame) PROVE FALSE
  <2> DEFINE k == Other(frame.from)
             known == [address |-> Address(k, frame.link), port |-> frame.link]
             entries == DelayExpiration(AddNeighbor(entry[k], known))
  <2>1. \/ entry' = [entry EXCEPT ![k] = entries]
        \/ entry' = [entry EXCEPT ![k] = DelayHelloInterval(entries)]
    BY <1>7 DEF ReceiveHello
  <2>2. k \in Nodes
    BY OtherType DEF TypeOK, Frames
  <2>3. (entries # {} /\ DelayHelloInterval(entries) # {}) \/ k # n
    BY NotEmptied
  <2> HIDE DEF k, entries
  <2> QED BY <1>1, <2>1, <2>2, <2>3
<1>8. ASSUME Tick PROVE FALSE
  <2>1. entry'[n] = {Passed(e) : e \in entry[n]}
    BY <1>8 DEF Tick
  <2> QED BY <2>1
<1>9. ASSUME entry' = entry PROVE FALSE
  BY <1>9
<1> QED BY <1>2, <1>3, <1>4, <1>5, <1>6, <1>7, <1>8, <1>9
           DEF Next, SendHello, ReceiveFrame, Lose, Drop, Connect, Connected

(* An end drops its neighbor only if something was lost, changed or ignored *)
(* within the time of an expiration: what resets the hello timers, a hello  *)
(* or a frame, is heard before the expiration timer of the other end goes   *)
(* off.                                                                     *)
THEOREM NeighborsStay == Spec => NeighborStays
<1> DEFINE Stays == \A n \in Nodes :
                      (entry[n] # {} /\ entry'[n] = {}) =>
                        calm < NEIGHBOR_EXPIRATION_TIMEOUT \/ flaws # {}
<1>1. Inv /\ [Next]_vars => Stays
  <2>1. SUFFICES ASSUME Inv, [Next]_vars, NEW n \in Nodes, entry[n] # {}, entry'[n] = {},
                        flaws = {}
                 PROVE  calm < NEIGHBOR_EXPIRATION_TIMEOUT
    OBVIOUS
  <2>2. StateInv /\ Clocks
    BY <2>1 DEF Inv, TimeInv
  <2>3. Expire(n)
    <3>1. entry' # entry
      BY <2>1
    <3>2. Next
      BY <2>1, <3>1 DEF vars
    <3> QED BY <2>1, <2>2, <3>2, OnlyExpire DEF StateInv
  <2> QED BY <2>1, <2>2, <2>3, ExpireLate
<1>2. Stays \in BOOLEAN
  OBVIOUS
<1> QED BY <1>1, Invariance, PTL DEF Spec, NeighborStays

(* Once nothing has been lost, changed or ignored for longer than an        *)
(* expiration and a hello, either both ends know each other or neither: the *)
(* one that does not know the other learns of it by the other's next hello, *)
(* or the other drops it.                                                   *)
THEOREM TablesStayAgreed == Spec => []TablesAgree
<1>1. Inv => TablesAgree
  <2>1. SUFFICES ASSUME Inv, flaws = {}, calm = Settling, NEW n \in Nodes, entry[n] = {},
                        NEW f \in entry[Other(n)]
                 PROVE  FALSE
    BY DEF TablesAgree
  <2>2. UnknownBounded(n)
    BY <2>1 DEF Inv, TimeInv, Clocks
  <2>3. calm <= NEIGHBOR_EXPIRATION_TIMEOUT + SEND_HELLO_INTERVAL
    BY <2>1, <2>2 DEF UnknownBounded
  <2> QED BY <2>1, <2>3, Times
<1> QED BY <1>1, Invariance, PTL
=============================================================================
