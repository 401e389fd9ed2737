---------------------------- MODULE NetworkProofs ----------------------------
(***************************************************************************)
(* The link, for every number of hosts, clients and browsers, every set of *)
(* services and names, and every loss, repetition and order of delivery.   *)
(***************************************************************************)
EXTENDS Network, QuestionsProofs, FiniteSetTheorems

-----------------------------------------------------------------------------
(* What a host answers. *)

(* The types of a query. *)
Types == {"A", "AAAA", "SRV", "PTR"}

(* A name a client may ask for is a string: a name cut off is one too. *)
LEMMA QueriedNamesType ==
    ASSUME NEW c \in Clients, NEW name \in QueriedNames(c)
    PROVE  name \in String
<1>1. Config[c].query_target \in String /\ LeftOver \subseteq String
  BY NetworkAssumption
<1> DEFINE s == Config[c].query_target \o <<Dot>> \o Local
<1>2. s \in Seq(Token)
  <2> DEFINE a == Config[c].query_target
             d == <<Dot>>
             e == Local
  <2>1. a \in Seq(Token) /\ d \in Seq(Token) /\ e \in Seq(Token)
    <3>1. PICK t \in Token \ {Dot} : Local = <<t>>
      BY NamesAssumption
    <3> QED
      BY <1>1, <3>1, NamesAssumption DEF String
  <2> HIDE DEF a, d, e
  <2>2. a \o d \in Seq(Token)
    BY <2>1, ConcatProperties
  <2>3. (a \o d) \o e \in Seq(Token)
    BY <2>1, <2>2, ConcatProperties
  <2> QED
    BY <2>3 DEF a, d, e
<1> HIDE DEF s
<1>3. Cut(s) \in String
  <2> DEFINE S == {n \in 1 .. Len(s) : StrLen(SubSeq(s, 1, n)) < NAME_SIZE}
             k == Cardinality(S)
  <2>1. Len(s) \in Nat /\ \A i \in 1 .. Len(s) : s[i] \in Token
    BY <1>2, LenProperties, ElementOfSeq
  <2>2. IsFiniteSet(1 .. Len(s)) /\ Cardinality(1 .. Len(s)) = Len(s)
    BY <2>1, FS_Interval
  <2>3. S \subseteq 1 .. Len(s)
    OBVIOUS
  <2> HIDE DEF S
  <2>4. k \in Nat /\ k <= Len(s)
    BY <2>2, <2>3, FS_Subset, FS_CardinalityType
  <2>5. Cut(s) = SubSeq(s, 1, k)
    BY DEF Cut, S
  <2> HIDE DEF k
  <2>6. \A i \in 1 .. k : s[i] \in Token
    BY <2>1, <2>4
  <2>7. SubSeq(s, 1, k) \in Seq(Token)
    BY <1>2, <2>4, <2>6, SubSeqProperties
  <2> QED
    BY <2>5, <2>7 DEF String
<1> QED
  BY <1>1, <1>3 DEF QueriedNames, s

(* A client asks for an address of one family or for a service. *)
LEMMA QTypeType ==
    ASSUME NEW c \in Clients
    PROVE  QType(c) \in {"A", "AAAA", "SRV"}
BY DEF QType

(* Every question that is asked is one of labels, of a type of a query. *)
LEMMA QuestionsType ==
    ASSUME NEW q \in Questions
    PROVE  q[1] \in Seq(Token \ {Dot}) /\ q[2] \in Types
<1>1. CASE q \in {<<r.labels, r.qtype>> : r \in Outside}
  BY <1>1, NetworkAssumption DEF Types
<1>2. CASE q = <<TextToWire(BrowsedType), BrowserQType>>
  BY <1>2, TextToWireEquations, NetworkAssumption DEF BrowserQType, Types
<1>3. CASE \E c \in Clients : \E name \in QueriedNames(c) : q = <<TextToWire(name), QType(c)>>
  <2>0. PICK c \in Clients : \E name \in QueriedNames(c) : q = <<TextToWire(name), QType(c)>>
    BY <1>3
  <2>1. PICK name \in QueriedNames(c) : q = <<TextToWire(name), QType(c)>>
    BY <2>0
  <2>2. TextToWire(name) \in Seq(Token \ {Dot}) /\ QType(c) \in Types
    BY QueriedNamesType, TextToWireEquations, QTypeType DEF Types
  <2> QED
    BY <2>1, <2>2
<1> QED
  BY <1>1, <1>2, <1>3 DEF Questions

(* The services of a host are what the registry holds. *)
LEMMA RegistryFacts ==
    ASSUME NEW h \in Hosts
    PROVE  /\ HostName[h] \in String
           /\ Len(Registry[h]) \in Nat /\ DOMAIN Registry[h] = 1 .. Len(Registry[h])
           /\ \A k \in 1 .. Len(Registry[h]) : IsRegistered(Registry[h][k])
<1>1. HostName[h] \in String /\ Registry[h] \in Seq(Service)
  BY NetworkAssumption
<1>2. \A svc \in Service : IsRegistered(svc)
  BY DEF Service, IsRegistered, IsDescribed, Findable
<1> QED
  BY <1>1, <1>2, LenProperties, ElementOfSeq

(* A host answers what it can answer in full. *)
LEMMA KnowingIsAnswered ==
    ASSUME NEW h \in Hosts, NEW q \in Knowing[h]
    PROVE  q \in Answering[h]
<1> DEFINE d == Asked(q[1], q[2])
           reg == Registry[h]
           W == Wanted(reg, d)
<1>1. q \in Questions /\ Answerable(d, reg, HostName[h])
  BY DEF Knowing
<1>2. d.labels \in Seq(WireLabel) /\ d.qtype = q[2]
  BY <1>1, QuestionsType, WiredEquations DEF Asked
<1> HIDE DEF d
<1>3. /\ Accepted(d, HostName[h])
      /\ d.qtype = "SRV" =>
            /\ Found(reg, QName(d)) = W
            /\ DOMAIN W = 1 .. Len(W) /\ Len(W) \in Nat \ {0}
            /\ \A n \in DOMAIN W : HoldsBoth(ServiceAnswers(d, W), n)
      /\ d.qtype # "SRV" => d.qtype \in {"A", "AAAA"} /\ AddressFits(d)
  BY <1>1, <1>2, RegistryFacts, AnswerableIsAnswered
<1>4. CASE d.qtype = "SRV"
  <2>1. 1 \in DOMAIN W
    BY <1>3, <1>4
  <2>2. \E i \in 1 .. Len(ServiceAnswers(d, W)) : TRUE
    BY <1>3, <1>4, <2>1 DEF HoldsBoth
  <2> DEFINE answers == ServiceAnswers(d, W)
  <2> HIDE DEF answers
  <2>3. answers # << >>
    <3>1. Len(<< >>) = 0
      OBVIOUS
    <3> QED
      BY <2>2, <3>1 DEF answers
  <2>4. Replies(h, d)
    BY <1>3, <1>4, <2>3 DEF Replies, answers
  <2> QED
    BY <1>1, <2>4 DEF Answering, d
<1>5. CASE d.qtype # "SRV"
  <2>1. Replies(h, d)
    BY <1>3, <1>5 DEF Replies
  <2> QED
    BY <1>1, <2>1 DEF Answering, d
<1> QED
  BY <1>4, <1>5

(* A host answers only what concerns it: from no service comes no record. *)
LEMMA AnsweringConcerns ==
    ASSUME NEW h \in Hosts, NEW q \in Answering[h]
    PROVE  q \in Concerned[h]
<1> DEFINE d == Asked(q[1], q[2])
           reg == Registry[h]
           found == Found(reg, QName(d))
           Right == AskedFor(reg, QName(d))
<1>1. q \in Questions /\ Replies(h, d)
  BY DEF Answering
<1>2. /\ d.labels \in Seq(WireLabel) /\ DotFree(d.labels) /\ Bare(d.labels) = q[1]
      /\ d.qtype = q[2]
  BY <1>1, QuestionsType, WiredEquations DEF Asked
<1> HIDE DEF d
<1>3. QName(d) \in String /\ TextToWire(QName(d)) = q[1]
  BY <1>2, BareQuestion DEF Repeated
<1>4. /\ Accepted(d, HostName[h])
      /\ d.qtype = "SRV" => ServiceAnswers(d, found) # << >>
  BY <1>1 DEF Replies
<1>5. CASE d.qtype = "SRV"
  <2>1. found \in Seq(Right)
    BY <1>2, <1>3, RegistryFacts, FoundIsSound DEF IsRegistered
  <2>2. found # << >>
    <3> SUFFICES ASSUME found = << >> PROVE FALSE
      OBVIOUS
    <3>1. Len(found) = 0
      OBVIOUS
    <3>2. 1 .. Len(found) = {}
      BY <3>1
    <3> DEFINE none == found
    <3>3. Len(none) \in Nat /\ \A k \in 1 .. Len(none) : IsDescribed(none[k])
      BY <3>1, <3>2
    <3> HIDE DEF none
    <3>4. Answered(QName(d), none, OUT_LEN) \in Seq((1 .. Len(none)) \X {"SRV", "TXT"})
      BY <1>3, <3>3, AnsweredType, QuestionsAssumption
    <3> DEFINE answers == Answered(QName(d), none, OUT_LEN)
               R == (1 .. Len(none)) \X {"SRV", "TXT"}
    <3>5. R = {}
      BY <3>2 DEF none
    <3>6. answers \in Seq(R)
      BY <3>4
    <3> HIDE DEF answers, R
    <3>7. answers = << >>
      <4>1. Len(answers) \in Nat /\ \A k \in 1 .. Len(answers) : answers[k] \in R
        BY <3>6, LenProperties, ElementOfSeq
      <4>2. Len(answers) = 0
        <5> SUFFICES ASSUME Len(answers) # 0 PROVE FALSE
          OBVIOUS
        <5>1. 1 \in 1 .. Len(answers)
          BY <4>1
        <5> QED
          BY <3>5, <4>1, <5>1
      <4> QED
        BY <3>6, <4>2, EmptySeq
    <3> QED
      BY <1>4, <1>5, <3>7 DEF answers, none, ServiceAnswers
  <2> HIDE DEF found
  <2>3. PICK svc \in Right : TRUE
    <3>1. Len(found) \in Nat /\ Len(found) # 0 /\ \A k \in 1 .. Len(found) : found[k] \in Right
      <4> HIDE DEF Right
      <4> QED
        BY <2>1, <2>2, LenProperties, ElementOfSeq, EmptySeq
    <3>2. 1 \in 1 .. Len(found)
      BY <3>1
    <3> QED
      BY <3>1, <3>2
  <2>4. \E k \in 1 .. Len(reg) : IsAskedFor(reg[k], QName(d))
    BY <2>3 DEF AskedFor
  <2> QED
    BY <1>1, <1>2, <1>3, <1>5, <2>4, RegistryFacts DEF Concerned, Concerns, IsAskedFor
<1>6. CASE d.qtype # "SRV"
  <2>1. d.qtype \in {"A", "AAAA"} /\ hostdb_lookup(QName(d), HostName[h])
    BY <1>4, <1>6 DEF Accepted, is_supported_query_type
  <2>2. SameLabels(q[1], HostName[h])
    BY <1>3, <2>1, RegistryFacts, LookupIsDnsName
  <2> QED
    BY <1>1, <1>2, <2>1, <2>2 DEF Concerned, Concerns
<1> QED
  BY <1>5, <1>6

-----------------------------------------------------------------------------
(* The invariant. *)

(* A question that was asked from an address, by a client that does not    *)
(* ask again, by a browser or by another program.                          *)
ByClient(addr, labels, qtype) ==
    \E k \in Clients : /\ pc[k] \in {"waiting", "ended"}
                       /\ question[k] = [src |-> addr, labels |-> labels, qtype |-> qtype]
ByOthers(addr, labels, qtype) ==
    \/ \E h \in browsing : <<addr, labels, qtype>> =
                            <<<<h, MDNS_PORT>>, TextToWire(BrowsedType), BrowserQType>>
    \/ \E q \in outside : <<addr, labels, qtype>> = <<<<q.host, MDNS_PORT>>, q.labels, q.qtype>>
HasAsked(addr, labels, qtype) == ByClient(addr, labels, qtype) \/ ByOthers(addr, labels, qtype)

(* A datagram under way: a question goes to the mDNS port, an answer comes *)
(* from there and from a host that makes it; both belong to a question     *)
(* that was asked; and only a response goes to another port.               *)
IsTraffic(m) ==
    /\ m.kind = "query" =>
          /\ m.dst[2] = MDNS_PORT
          /\ HasAsked(m.src, m.labels, m.qtype)
    /\ m.kind # "query" =>
          /\ m.src[2] = MDNS_PORT
          /\ <<m.labels, m.qtype>> \in Answering[m.src[1]]
          /\ m.dst[2] # MDNS_PORT => m.kind = "response"
          /\ m.kind = "response" => HasAsked(m.dst, m.labels, m.qtype)
TrafficInv == \A m \in net : IsTraffic(m)

(* The clients: the sockets of two are not bound to one port. *)
Asking == [src : Addresses, labels : Seq(Token \ {Dot}), qtype : {"A", "AAAA", "SRV"}]
ClientInv ==
    /\ pc \in [Clients -> {"start", "bound", "waiting", "ended"}]
    /\ status \in [Clients -> 0 .. 1]
    /\ port \in [Clients -> Ports \cup {NULL}]
    /\ question \in [Clients -> Asking \cup {NULL}]
    /\ \A c \in Clients :
          /\ (port[c] # NULL) = (pc[c] \in {"bound", "waiting"})
          /\ pc[c] = "waiting" => question[c] \in Asking /\ question[c].src = Address(c)
    /\ \A c, k \in Clients :
          c # k /\ port[c] # NULL /\ port[k] # NULL => Address(c) # Address(k)

(* The rest. *)
LinkInv ==
    /\ up \subseteq Hosts /\ browsing \subseteq Browsers /\ outside \subseteq Outside
    /\ net \subseteq Messages
    /\ missed \subseteq Hosts /\ repeats \in 0 .. MAX_REPEATS /\ stops \in 0 .. MAX_STOPS

(* A query is a datagram of the link. *)
LEMMA QueryType ==
    ASSUME NEW src \in Addresses, NEW h \in Hosts,
           NEW labels \in Seq(Token \ {Dot}), NEW qtype \in Types
    PROVE  Query(src, h, labels, qtype) \in Messages
<1> DEFINE L == Seq(Token \ {Dot})
<1>1. <<h, MDNS_PORT>> \in Addresses
  BY DEF Addresses
<1>2. labels \in L
  OBVIOUS
<1>3. Messages = [kind : {"query", "response", "echo"}, src : Addresses, dst : Addresses,
                  labels : L, qtype : {"A", "AAAA", "SRV", "PTR"}]
  BY DEF Messages
<1> HIDE DEF L
<1> QED
  BY <1>1, <1>2, <1>3 DEF Query, Types

(* So is the answer to one: it comes from the host's mDNS port and goes *)
(* back where the question came from. *)
LEMMA ResponseType ==
    ASSUME NEW h \in Hosts, NEW m \in Messages
    PROVE  /\ Response(h, m) \in Messages
           /\ Response(h, m).src = <<h, MDNS_PORT>> /\ Response(h, m).dst = m.src
           /\ Response(h, m).labels = m.labels /\ Response(h, m).qtype = m.qtype
           /\ Response(h, m).kind = IF m.kind = "query" THEN "response" ELSE "echo"
<1> DEFINE L == Seq(Token \ {Dot})
<1>1. <<h, MDNS_PORT>> \in Addresses
  BY DEF Addresses
<1>2. Messages = [kind : {"query", "response", "echo"}, src : Addresses, dst : Addresses,
                  labels : L, qtype : {"A", "AAAA", "SRV", "PTR"}]
  BY DEF Messages
<1> HIDE DEF L, Messages
<1>3. m.src \in Addresses /\ m.labels \in L /\ m.qtype \in {"A", "AAAA", "SRV", "PTR"}
  BY <1>2
<1> QED
  BY <1>1, <1>2, <1>3 DEF Response

(* A client that leaves closes its socket. *)
LEMMA LeavesKeeps ==
    ASSUME ClientInv, NEW c \in Clients, NEW code \in 0 .. 1, Leaves(c, code),
           UNCHANGED question
    PROVE  ClientInv'
<1>1. /\ pc' = [pc EXCEPT ![c] = "ended"] /\ status' = [status EXCEPT ![c] = code]
      /\ port' = [port EXCEPT ![c] = NULL] /\ question' = question
  BY DEF Leaves
<1>2. /\ pc' \in [Clients -> {"start", "bound", "waiting", "ended"}]
      /\ status' \in [Clients -> 0 .. 1]
      /\ port' \in [Clients -> Ports \cup {NULL}]
      /\ question' \in [Clients -> Asking \cup {NULL}]
  BY <1>1 DEF ClientInv
<1>3. pc'[c] = "ended" /\ status'[c] = code /\ port'[c] = NULL
  BY <1>1 DEF ClientInv
<1>4. \A k \in Clients \ {c} : /\ pc'[k] = pc[k] /\ status'[k] = status[k] /\ port'[k] = port[k]
                               /\ Address(k)' = Address(k)
  BY <1>1 DEF ClientInv, Address
<1>5. ASSUME NEW k \in Clients
      PROVE  /\ (port'[k] # NULL) = (pc'[k] \in {"bound", "waiting"})
             /\ pc'[k] = "waiting" => question'[k] \in Asking /\ question'[k].src = Address(k)'
  <2>1. CASE k = c
    BY <2>1, <1>3
  <2>2. CASE k # c
    BY <2>2, <1>1, <1>4 DEF ClientInv
  <2> QED
    BY <2>1, <2>2
<1>6. ASSUME NEW j \in Clients, NEW k \in Clients, j # k, port'[j] # NULL, port'[k] # NULL
      PROVE  Address(j)' # Address(k)'
  <2>1. j # c /\ k # c
    BY <1>3, <1>6
  <2>2. Address(j)' = Address(j) /\ Address(k)' = Address(k)
        /\ port[j] # NULL /\ port[k] # NULL
    BY <1>4, <1>6, <2>1
  <2> QED
    BY <1>6, <2>2 DEF ClientInv
<1> QED
  BY <1>2, <1>5, <1>6 DEF ClientInv

(* bind finds a port that no other client of the host has. *)
LEMMA StartKeeps ==
    ASSUME ClientInv, NEW c \in Clients, ClientStarts(c)
    PROVE  ClientInv'
<1>1. PICK p \in FreePorts(Host(c)) : /\ port' = [port EXCEPT ![c] = p]
                                      /\ pc' = [pc EXCEPT ![c] = "bound"]
  BY DEF ClientStarts
<1>2. /\ p \in Ports /\ p # NULL
      /\ \A k \in Clients : Host(k) = Host(c) => port[k] # p
  BY NetworkAssumption DEF FreePorts
<1>3. pc[c] = "start" /\ UNCHANGED <<status, question>>
  BY DEF ClientStarts
<1>4. pc'[c] = "bound" /\ port'[c] = p /\ Address(c)' = <<Host(c), p>>
  BY <1>1 DEF ClientInv, Address, Host
<1>5. \A k \in Clients \ {c} : /\ pc'[k] = pc[k] /\ port'[k] = port[k]
                               /\ Address(k)' = Address(k)
  BY <1>1 DEF ClientInv, Address, Host
<1>6. ASSUME NEW k \in Clients
      PROVE  /\ (port'[k] # NULL) = (pc'[k] \in {"bound", "waiting"})
             /\ pc'[k] = "waiting" => question'[k] \in Asking /\ question'[k].src = Address(k)'
  <2>1. CASE k = c
    BY <2>1, <1>2, <1>3, <1>4 DEF ClientInv
  <2>2. CASE k # c
    BY <2>2, <1>3, <1>5 DEF ClientInv
  <2> QED
    BY <2>1, <2>2
<1>7. \A k \in Clients \ {c} : port[k] # NULL => Address(k) # <<Host(c), p>>
  BY <1>2 DEF Address
<1>8. ASSUME NEW j \in Clients, NEW k \in Clients, j # k, port'[j] # NULL, port'[k] # NULL
      PROVE  Address(j)' # Address(k)'
  <2>1. CASE j = c
    BY <2>1, <1>4, <1>5, <1>7, <1>8
  <2>2. CASE k = c
    BY <2>2, <1>4, <1>5, <1>7, <1>8
  <2>3. CASE j # c /\ k # c
    BY <2>3, <1>5, <1>8 DEF ClientInv
  <2> QED
    BY <2>1, <2>2, <2>3
<1>9. /\ pc' \in [Clients -> {"start", "bound", "waiting", "ended"}]
      /\ port' \in [Clients -> Ports \cup {NULL}]
  BY <1>1, <1>2 DEF ClientInv
<1> QED
  BY <1>3, <1>6, <1>8, <1>9 DEF ClientInv

(* What a client asks, and where from. *)
LEMMA AskFacts ==
    ASSUME ClientInv, NEW c \in Clients, ClientAsks(c)
    PROVE  \E labels \in Seq(Token \ {Dot}) :
              /\ net' = net \cup Multicast(Address(c), labels, QType(c))
              /\ question' = [question EXCEPT ![c] =
                    [src |-> Address(c), labels |-> labels, qtype |-> QType(c)]]
              /\ Address(c) \in Addresses /\ Address(c)[2] # MDNS_PORT
              /\ [src |-> Address(c), labels |-> labels, qtype |-> QType(c)] \in Asking
<1>1. PICK name \in QueriedNames(c) :
         /\ net' = net \cup Multicast(Address(c), TextToWire(name), QType(c))
         /\ question' = [question EXCEPT ![c] =
               [src |-> Address(c), labels |-> TextToWire(name), qtype |-> QType(c)]]
  BY DEF ClientAsks
<1>2. TextToWire(name) \in Seq(Token \ {Dot}) /\ QType(c) \in {"A", "AAAA", "SRV"}
  BY QueriedNamesType, TextToWireEquations, QTypeType
<1>3. pc[c] = "bound" /\ port[c] \in Ports /\ Host(c) \in Hosts
  BY NetworkAssumption DEF ClientAsks, ClientInv, Host
<1>4. Address(c) \in Addresses /\ Address(c)[2] # MDNS_PORT
  BY <1>3, NetworkAssumption DEF Address, Addresses
<1> DEFINE labels == TextToWire(name)
<1> HIDE DEF labels
<1>5. [src |-> Address(c), labels |-> labels, qtype |-> QType(c)] \in Asking
  <2> DEFINE L == Seq(Token \ {Dot})
  <2>1. Asking = [src : Addresses, labels : L, qtype : {"A", "AAAA", "SRV"}]
    BY DEF Asking
  <2>2. labels \in L
    BY <1>2 DEF labels
  <2> HIDE DEF L
  <2> QED
    BY <1>2, <1>4, <2>1, <2>2
<1> QED
  BY <1>1, <1>2, <1>4, <1>5 DEF labels

(* A client that asks keeps the clients' invariant. *)
LEMMA AskKeeps ==
    ASSUME ClientInv, NEW c \in Clients, ClientAsks(c)
    PROVE  ClientInv'
<1>1. PICK labels \in Seq(Token \ {Dot}) :
         /\ question' = [question EXCEPT ![c] =
               [src |-> Address(c), labels |-> labels, qtype |-> QType(c)]]
         /\ [src |-> Address(c), labels |-> labels, qtype |-> QType(c)] \in Asking
  BY AskFacts
<1> DEFINE q == [src |-> Address(c), labels |-> labels, qtype |-> QType(c)]
<1>2. q.src = Address(c) /\ q \in Asking
  BY <1>1
<1>3. /\ pc[c] = "bound" /\ pc' = [pc EXCEPT ![c] = "waiting"]
      /\ UNCHANGED <<status, port>>
  BY DEF ClientAsks
<1>4. question' = [question EXCEPT ![c] = q]
  BY <1>1
<1> HIDE DEF q
<1>5. /\ pc' \in [Clients -> {"start", "bound", "waiting", "ended"}]
      /\ question' \in [Clients -> Asking \cup {NULL}]
  BY <1>2, <1>3, <1>4 DEF ClientInv
<1>6. pc'[c] = "waiting" /\ question'[c] = q
  BY <1>3, <1>4 DEF ClientInv
<1>7. \A k \in Clients \ {c} : pc'[k] = pc[k] /\ question'[k] = question[k]
  BY <1>3, <1>4 DEF ClientInv
<1>8. \A k \in Clients : Address(k)' = Address(k)
  BY <1>3 DEF Address
<1>9. ASSUME NEW k \in Clients
      PROVE  /\ (port'[k] # NULL) = (pc'[k] \in {"bound", "waiting"})
             /\ pc'[k] = "waiting" => question'[k] \in Asking /\ question'[k].src = Address(k)'
  <2>1. CASE k = c
    BY <2>1, <1>2, <1>3, <1>6, <1>8 DEF ClientInv
  <2>2. CASE k # c
    BY <2>2, <1>3, <1>7, <1>8 DEF ClientInv
  <2> QED
    BY <2>1, <2>2
<1> QED
  BY <1>3, <1>5, <1>8, <1>9 DEF ClientInv

(* Every step keeps it: the port that a client binds is one that nobody *)
(* has. *)
LEMMA ClientStep == ClientInv /\ LinkInv /\ [Next]_vars => ClientInv'
<1> SUFFICES ASSUME ClientInv, LinkInv, [Next]_vars PROVE ClientInv'
  OBVIOUS
<1>1. ASSUME UNCHANGED <<clients, question>> PROVE ClientInv'
  <2>1. \A k \in Clients : Address(k)' = Address(k)
    BY <1>1 DEF Address, clients
  <2> QED
    BY <1>1, <2>1 DEF ClientInv, clients
<1>2. ASSUME NEW m \in net, NEW c \in Clients, ClientReceives(c, m) PROVE ClientInv'
  BY <1>2, LeavesKeeps DEF ClientReceives
<1>3. ASSUME NEW c \in Clients, Leaves(c, 1), UNCHANGED question PROVE ClientInv'
  BY <1>3, LeavesKeeps
<1>4. CASE \E m \in net, c \in Clients : ClientReceives(c, m)
  BY <1>4, <1>2
<1>5. CASE \E c \in Clients : ClientStarts(c)
  BY <1>5, StartKeeps
<1>6. CASE \E c \in Clients : ClientAsks(c)
  BY <1>6, AskKeeps
<1>7. CASE \E c \in Clients : ClientFailsToStart(c) \/ ClientFailsToAsk(c) \/ ClientGivesUp(c)
  BY <1>7, <1>3 DEF ClientFailsToStart, ClientFailsToAsk, ClientGivesUp, Waiting
<1>8. CASE \E m \in net : (\E h \in Hosts : ServerHandles(h, m)) \/ Undelivered(m) \/ Lose(m)
  BY <1>8, <1>1 DEF ServerHandles, Undelivered, Lose
<1>9. CASE \/ \E h \in Hosts : ServerStarts(h) \/ ServerStops(h) \/ BrowserAsks(h)
           \/ \E q \in Outside : OutsiderAsks(q)
           \/ UNCHANGED vars
  BY <1>9, <1>1 DEF ServerStarts, ServerStops, BrowserAsks, OutsiderAsks, vars
<1> QED
  BY <1>4, <1>5, <1>6, <1>7, <1>8, <1>9 DEF Next, Progress

(* What is sent is a message. *)
LEMMA MulticastType ==
    ASSUME NEW src \in Addresses, NEW labels \in Seq(Token \ {Dot}), NEW qtype \in Types
    PROVE  Multicast(src, labels, qtype) \subseteq Messages
BY QueryType DEF Multicast

(* Every step keeps the link's types. *)
LEMMA LinkStep == ClientInv /\ LinkInv /\ [Next]_vars => LinkInv'
<1> SUFFICES ASSUME ClientInv, LinkInv, [Next]_vars PROVE LinkInv'
  OBVIOUS
<1>1. net \subseteq Messages /\ missed \subseteq Hosts
  BY DEF LinkInv
<1>2. \A m \in net : m.dst[1] \in Hosts /\ m.src[1] \in Hosts
  <2>1. \A a \in Addresses : a[1] \in Hosts
    BY DEF Addresses
  <2>2. \A m \in Messages : m.dst \in Addresses /\ m.src \in Addresses
    BY DEF Messages
  <2> QED
    BY <1>1, <2>1, <2>2
<1>3. MAX_REPEATS \in Nat /\ MAX_STOPS \in Nat
  BY NetworkAssumption
<1>4. \A h \in Hosts : <<h, MDNS_PORT>> \in Addresses
  BY DEF Addresses
<1> HIDE DEF Messages, Addresses
<1>5. ASSUME NEW m \in net, NEW sent, sent \subseteq Messages, Delivers(m, sent)
      PROVE  net' \subseteq Messages /\ repeats' \in 0 .. MAX_REPEATS
  BY <1>1, <1>3, <1>5 DEF Delivers, LinkInv
<1>6. CASE \E m \in net : \E h \in Hosts : ServerHandles(h, m)
  <2>1. PICK m \in net, h \in Hosts : ServerHandles(h, m)
    BY <1>6
  <2> DEFINE sent == IF HasAnswer(h, m) THEN {Response(h, m)} ELSE {}
  <2>2. sent \subseteq Messages
    BY <1>1, ResponseType
  <2>3. Delivers(m, sent) /\ UNCHANGED <<up, askers, missed, stops>>
    BY <2>1 DEF ServerHandles
  <2> HIDE DEF sent
  <2> QED
    BY <1>5, <2>2, <2>3 DEF LinkInv, askers
<1>7. CASE \E m \in net, c \in Clients : ClientReceives(c, m)
  <2>1. PICK m \in net, c \in Clients : ClientReceives(c, m)
    BY <1>7
  <2>2. Delivers(m, {}) /\ UNCHANGED <<up, askers, missed, stops>>
    BY <2>1 DEF ClientReceives
  <2> QED
    BY <1>5, <2>2 DEF LinkInv, askers
<1>8. CASE \E m \in net : Undelivered(m) \/ Lose(m)
  <2>1. PICK m \in net : Undelivered(m) \/ Lose(m)
    BY <1>8
  <2>2. net' \subseteq Messages /\ UNCHANGED <<up, askers, repeats, stops>>
    BY <1>1, <2>1 DEF Undelivered, Lose
  <2>3. missed' \subseteq Hosts
    BY <1>1, <1>2, <2>1 DEF Undelivered, Lose
  <2> QED
    BY <2>2, <2>3 DEF LinkInv, askers
<1>9. CASE \E c \in Clients : ClientAsks(c)
  <2>1. PICK c \in Clients : ClientAsks(c)
    BY <1>9
  <2>2. PICK labels \in Seq(Token \ {Dot}) :
           /\ net' = net \cup Multicast(Address(c), labels, QType(c))
           /\ Address(c) \in Addresses
    BY <2>1, AskFacts
  <2>3. QType(c) \in Types
    BY QTypeType DEF Types
  <2>4. net' \subseteq Messages
    BY <1>1, <2>2, <2>3, MulticastType
  <2> QED
    BY <2>1, <2>4 DEF ClientAsks, LinkInv, askers
<1>10. CASE \E c \in Clients : \/ ClientStarts(c) \/ ClientFailsToStart(c)
                               \/ ClientFailsToAsk(c) \/ ClientGivesUp(c)
  BY <1>10 DEF ClientStarts, ClientFailsToStart, ClientFailsToAsk, ClientGivesUp, LinkInv, askers
<1>11. CASE \E h \in Hosts : ServerStarts(h)
  BY <1>11 DEF ServerStarts, LinkInv, askers
<1>12. CASE \E h \in Hosts : ServerStops(h)
  <2>1. PICK h \in Hosts : ServerStops(h)
    BY <1>12
  <2>2. up' \subseteq Hosts /\ net' \subseteq Messages /\ missed' \subseteq Hosts
    BY <2>1 DEF ServerStops, LinkInv
  <2>3. stops' \in 0 .. MAX_STOPS
    BY <1>3, <2>1 DEF ServerStops, LinkInv
  <2> QED
    BY <2>1, <2>2, <2>3 DEF ServerStops, LinkInv, askers
<1>13. CASE \E h \in Hosts : BrowserAsks(h)
  <2>1. PICK h \in Hosts : BrowserAsks(h)
    BY <1>13
  <2>2. TextToWire(BrowsedType) \in Seq(Token \ {Dot}) /\ BrowserQType \in Types
    BY TextToWireEquations, NetworkAssumption DEF BrowserQType, Types
  <2>3. Multicast(<<h, MDNS_PORT>>, TextToWire(BrowsedType), BrowserQType) \subseteq Messages
    BY <1>4, <2>2, MulticastType
  <2>4. net' \subseteq Messages /\ browsing' \subseteq Browsers
    BY <1>1, <2>1, <2>3 DEF BrowserAsks, LinkInv
  <2> QED
    BY <2>1, <2>4 DEF BrowserAsks, LinkInv
<1>14. CASE \E q \in Outside : OutsiderAsks(q)
  <2>1. PICK q \in Outside : OutsiderAsks(q)
    BY <1>14
  <2>2. q.labels \in Seq(Token \ {Dot}) /\ q.qtype \in Types /\ q.host \in Hosts
    BY NetworkAssumption DEF Types
  <2>3. Multicast(<<q.host, MDNS_PORT>>, q.labels, q.qtype) \subseteq Messages
    BY <1>4, <2>2, MulticastType
  <2>4. net' \subseteq Messages /\ outside' \subseteq Outside
    BY <1>1, <2>1, <2>3 DEF OutsiderAsks, LinkInv
  <2> QED
    BY <2>1, <2>4 DEF OutsiderAsks, LinkInv
<1>15. CASE UNCHANGED vars
  BY <1>15 DEF vars, LinkInv, askers
<1> QED
  BY <1>6, <1>7, <1>8, <1>9, <1>10, <1>11, <1>12, <1>13, <1>14, <1>15 DEF Next, Progress

(* Both hold in every state. *)
LEMMA ClientInvariance == Spec => [](ClientInv /\ LinkInv)
<1>1. Init => ClientInv /\ LinkInv
  BY NetworkAssumption DEF Init, ClientInv, LinkInv
<1>2. ClientInv /\ LinkInv /\ [Next]_vars => (ClientInv /\ LinkInv)'
  BY ClientStep, LinkStep
<1> QED
  BY <1>1, <1>2, PTL DEF Spec

(* No two sockets of the clients have one address, and a client has its    *)
(* port from bind to close, an answer when it has ended with one.          *)
THEOREM TypeCorrect == Spec => []TypeOK
<1>1. ClientInv /\ LinkInv => TypeOK
  BY DEF ClientInv, LinkInv, TypeOK
<1> QED
  BY <1>1, ClientInvariance, PTL

-----------------------------------------------------------------------------
(* Answers. *)

(* A client that has asked does not ask again, and what was asked once is  *)
(* still on record.                                                        *)
LEMMA AskedKept ==
    ASSUME ClientInv, [Next]_vars
    PROVE  /\ \A k \in Clients : pc[k] \in {"waiting", "ended"} =>
                 pc'[k] \in {"waiting", "ended"} /\ question'[k] = question[k]
           /\ \A addr, labels, qtype : HasAsked(addr, labels, qtype) => HasAsked(addr, labels, qtype)'
           /\ \A m : IsTraffic(m) => IsTraffic(m)'
<1>1. ASSUME NEW c \in Clients, NEW code, Leaves(c, code), NEW k \in Clients,
             pc[k] \in {"waiting", "ended"}
      PROVE  pc'[k] \in {"waiting", "ended"}
  BY <1>1 DEF Leaves, ClientInv
<1>2. ASSUME NEW k \in Clients, pc[k] \in {"waiting", "ended"}
      PROVE  pc'[k] \in {"waiting", "ended"} /\ question'[k] = question[k]
  <2>1. CASE UNCHANGED <<pc, question>>
    BY <1>2, <2>1
  <2>2. CASE \E c \in Clients : ClientStarts(c)
    BY <1>2, <2>2 DEF ClientStarts, ClientInv
  <2>3. CASE \E c \in Clients : ClientAsks(c)
    <3>1. PICK c \in Clients : ClientAsks(c)
      BY <2>3
    <3>2. PICK q : question' = [question EXCEPT ![c] = q]
      BY <3>1 DEF ClientAsks
    <3>3. pc[c] = "bound" /\ pc' = [pc EXCEPT ![c] = "waiting"] /\ k # c
      BY <1>2, <3>1 DEF ClientAsks
    <3> QED
      BY <1>2, <3>2, <3>3 DEF ClientInv
  <2>4. CASE \E c \in Clients : \/ ClientFailsToStart(c) \/ ClientFailsToAsk(c) \/ ClientGivesUp(c)
                                \/ \E m \in net : ClientReceives(c, m)
    <3>1. PICK c \in Clients, code \in {0, 1} : Leaves(c, code)
      BY <2>4 DEF ClientFailsToStart, ClientFailsToAsk, ClientGivesUp, ClientReceives
    <3>2. UNCHANGED question
      BY <2>4 DEF ClientFailsToStart, ClientFailsToAsk, ClientGivesUp, ClientReceives
    <3> QED
      BY <1>1, <1>2, <3>1, <3>2
  <2> QED
    BY <2>1, <2>2, <2>3, <2>4 DEF Next, Progress, vars, clients, ServerHandles, Undelivered, Lose,
          ServerStarts, ServerStops, BrowserAsks, OutsiderAsks
<1>3. \A addr, labels, qtype : HasAsked(addr, labels, qtype) => HasAsked(addr, labels, qtype)'
  <2>1. browsing \subseteq browsing' /\ outside \subseteq outside'
    BY DEF Next, Progress, vars, askers, ServerHandles, Undelivered, Lose, ServerStarts,
           ServerStops, BrowserAsks, OutsiderAsks, ClientReceives, ClientStarts,
           ClientFailsToStart, ClientAsks, ClientFailsToAsk, ClientGivesUp
  <2>2. \A addr, labels, qtype : ByClient(addr, labels, qtype) => ByClient(addr, labels, qtype)'
    BY <1>2 DEF ByClient
  <2>3. \A addr, labels, qtype : ByOthers(addr, labels, qtype) => ByOthers(addr, labels, qtype)'
    BY <2>1 DEF ByOthers
  <2> QED
    BY <2>2, <2>3 DEF HasAsked
<1>4. \A m : IsTraffic(m) => IsTraffic(m)'
  BY <1>3 DEF IsTraffic
<1> QED
  BY <1>2, <1>3, <1>4

(* A question that has been asked is traffic. *)
LEMMA MulticastIsTraffic ==
    ASSUME NEW src, NEW labels, NEW qtype, HasAsked(src, labels, qtype)',
           NEW m \in Multicast(src, labels, qtype)
    PROVE  IsTraffic(m)'
<1>1. /\ m.kind = "query" /\ m.dst[2] = MDNS_PORT
      /\ m.src = src /\ m.labels = labels /\ m.qtype = qtype
  BY DEF Multicast, Query
<1>2. HasAsked(m.src, m.labels, m.qtype)'
  BY <1>1 DEF HasAsked, ByClient, ByOthers
<1> QED
  BY <1>1, <1>2 DEF IsTraffic

(* Every datagram that a step puts on the link is traffic, and what was *)
(* traffic before the step still is. *)
LEMMA TrafficStep == ClientInv /\ LinkInv /\ TrafficInv /\ [Next]_vars => TrafficInv'
<1> SUFFICES ASSUME ClientInv, LinkInv, TrafficInv, [Next]_vars PROVE TrafficInv'
  OBVIOUS
<1>1. \A m \in net : IsTraffic(m)'
  BY AskedKept DEF TrafficInv
<1>2. CASE net' \subseteq net
  BY <1>1, <1>2 DEF TrafficInv
<1>3. CASE \E m \in net : \E h \in Hosts : ServerHandles(h, m)
  <2>1. PICK m \in net, h \in Hosts : ServerHandles(h, m)
    BY <1>3
  <2>2. net' \subseteq net \cup (IF HasAnswer(h, m) THEN {Response(h, m)} ELSE {})
    BY <2>1 DEF ServerHandles, Delivers
  <2>3. ASSUME HasAnswer(h, m) PROVE IsTraffic(Response(h, m))'
    <3> DEFINE r == Response(h, m)
    <3>1. m \in Messages /\ m.kind \in {"query", "response", "echo"}
      BY DEF LinkInv, Messages
    <3>2. /\ r.src = <<h, MDNS_PORT>> /\ r.dst = m.src
          /\ r.labels = m.labels /\ r.qtype = m.qtype
          /\ r.kind = IF m.kind = "query" THEN "response" ELSE "echo"
      BY <3>1, ResponseType
    <3>3. IsTraffic(m)'
      BY <1>1
    <3>4. <<r.labels, r.qtype>> \in Answering[h]
      BY <2>3, <3>2 DEF HasAnswer
    <3> HIDE DEF r
    <3>5. /\ r.dst[2] # MDNS_PORT => r.kind = "response"
          /\ r.kind = "response" => HasAsked(r.dst, r.labels, r.qtype)'
      <4>1. m.kind # "query" => m.src[2] = MDNS_PORT
        BY <3>3 DEF IsTraffic
      <4>2. m.kind = "query" => HasAsked(m.src, m.labels, m.qtype)'
        BY <3>3 DEF IsTraffic
      <4>3. m.kind = "query" => HasAsked(r.dst, r.labels, r.qtype)'
        BY <3>2, <4>2 DEF HasAsked, ByClient, ByOthers
      <4> QED
        BY <3>1, <3>2, <4>1, <4>3
    <3>6. r.kind # "query" /\ r.src[2] = MDNS_PORT /\ r.src[1] = h
      BY <3>1, <3>2
    <3>7. IsTraffic(r)'
      BY <3>4, <3>5, <3>6 DEF IsTraffic
    <3> QED
      BY <3>7 DEF r
  <2> QED
    BY <1>1, <2>2, <2>3 DEF TrafficInv
<1>4. CASE \E c \in Clients : ClientAsks(c)
  <2>1. PICK c \in Clients : ClientAsks(c)
    BY <1>4
  <2>2. PICK labels \in Seq(Token \ {Dot}) :
           /\ net' = net \cup Multicast(Address(c), labels, QType(c))
           /\ question' = [question EXCEPT ![c] =
                 [src |-> Address(c), labels |-> labels, qtype |-> QType(c)]]
    BY <2>1, AskFacts
  <2>3. pc'[c] = "waiting"
    BY <2>1 DEF ClientAsks, ClientInv
  <2>4. HasAsked(Address(c), labels, QType(c))'
    <3> DEFINE q == [src |-> Address(c), labels |-> labels, qtype |-> QType(c)]
    <3>1. question' = [question EXCEPT ![c] = q]
      BY <2>2
    <3> HIDE DEF q
    <3>2. question'[c] = q
      BY <3>1 DEF ClientInv
    <3>3. q = [src |-> <<Host(c), port[c]>>, labels |-> labels, qtype |-> QType(c)]
      BY DEF q, Address
    <3> DEFINE a == Address(c)
               t == QType(c)
    <3>4. \E k \in Clients : /\ pc'[k] \in {"waiting", "ended"}
                             /\ question'[k] = [src |-> a, labels |-> labels, qtype |-> t]
      BY <2>3, <3>2 DEF q
    <3>5. Address(c)' = Address(c) /\ QType(c)' = QType(c)
      BY <2>1 DEF ClientAsks, Address, QType
    <3> QED
      BY <3>4, <3>5 DEF HasAsked, ByClient
  <2>5. ASSUME NEW m \in Multicast(Address(c), labels, QType(c)) PROVE IsTraffic(m)'
    <3>1. /\ m.kind = "query" /\ m.dst[2] = MDNS_PORT
          /\ m.src = Address(c) /\ m.labels = labels /\ m.qtype = QType(c)
      BY DEF Multicast, Query
    <3>2. Address(c)' = Address(c) /\ QType(c)' = QType(c)
      BY <2>1 DEF ClientAsks, Address, QType
    <3>3. HasAsked(m.src, m.labels, m.qtype)'
      BY <2>4, <3>1, <3>2 DEF HasAsked, ByClient, ByOthers
    <3> QED
      BY <3>1, <3>3 DEF IsTraffic
  <2> QED
    BY <1>1, <2>2, <2>5 DEF TrafficInv
<1>5. CASE \E h \in Hosts : BrowserAsks(h)
  <2>1. PICK h \in Hosts : BrowserAsks(h)
    BY <1>5
  <2>2. net' = net \cup Multicast(<<h, MDNS_PORT>>, TextToWire(BrowsedType), BrowserQType)
    BY <2>1 DEF BrowserAsks
  <2>3. HasAsked(<<h, MDNS_PORT>>, TextToWire(BrowsedType), BrowserQType)'
    BY <2>1 DEF BrowserAsks, HasAsked, ByOthers, BrowserQType
  <2> QED
    BY <1>1, <2>2, <2>3, MulticastIsTraffic DEF TrafficInv
<1>6. CASE \E q \in Outside : OutsiderAsks(q)
  <2>1. PICK q \in Outside : OutsiderAsks(q)
    BY <1>6
  <2>2. net' = net \cup Multicast(<<q.host, MDNS_PORT>>, q.labels, q.qtype) /\ q.host \in Hosts
    BY <2>1, NetworkAssumption DEF OutsiderAsks
  <2>3. HasAsked(<<q.host, MDNS_PORT>>, q.labels, q.qtype)'
    BY <2>1 DEF OutsiderAsks, HasAsked, ByOthers
  <2> QED
    BY <1>1, <2>2, <2>3, MulticastIsTraffic DEF TrafficInv
<1> QED
  BY <1>2, <1>3, <1>4, <1>5, <1>6 DEF Next, Progress, vars, ClientReceives, Delivers, Undelivered,
        Lose, ClientStarts, ClientFailsToStart, ClientFailsToAsk, ClientGivesUp, ServerStarts,
        ServerStops

(* Everything under way is traffic. *)
LEMMA TrafficInvariance == Spec => []TrafficInv
<1>1. Init => TrafficInv
  BY DEF Init, TrafficInv
<1>2. ClientInv /\ LinkInv /\ TrafficInv /\ [Next]_vars => TrafficInv'
  BY TrafficStep
<1> QED
  BY <1>1, <1>2, ClientInvariance, PTL DEF Spec

(* A response under way answers a question that was asked from the address *)
(* it goes to, and comes from a host that the question concerns, however   *)
(* the ports are used again and whatever the link loses and repeats.       *)
THEOREM ResponsesAnswer == Spec => []AnswersAreWanted
<1>1. LinkInv /\ TrafficInv => AnswersAreWanted
  <2> SUFFICES ASSUME LinkInv, TrafficInv, NEW m \in net, m.kind = "response"
               PROVE  /\ WasAsked(m.dst, m.labels, m.qtype)
                      /\ <<m.labels, m.qtype>> \in Concerned[m.src[1]]
    BY DEF AnswersAreWanted
  <2>1. HasAsked(m.dst, m.labels, m.qtype) /\ <<m.labels, m.qtype>> \in Answering[m.src[1]]
    BY DEF TrafficInv, IsTraffic
  <2>2. m.src[1] \in Hosts
    BY DEF LinkInv, Messages, Addresses
  <2>3. <<m.labels, m.qtype>> \in Concerned[m.src[1]]
    BY <2>1, <2>2, AnsweringConcerns
  <2> QED
    BY <2>1, <2>3 DEF HasAsked, ByClient, ByOthers, WasAsked
<1> QED
  BY <1>1, ClientInvariance, TrafficInvariance, PTL

-----------------------------------------------------------------------------
(* Nobody is forgotten. *)

(* What NobodyForgotten says of one client and one host. *)
OnItsWay(c, h, m) ==
    /\ m.labels = question[c].labels /\ m.qtype = question[c].qtype
    /\ <<m.src, m.dst>> \in {<<question[c].src, <<h, MDNS_PORT>>>>,
                             <<<<h, MDNS_PORT>>, question[c].src>>}

(* The client waits where it has asked from, not at the mDNS port: what is *)
(* on its way is a question to the host, or an answer of the host.         *)
LEMMA OnItsWayFacts ==
    ASSUME ClientInv, LinkInv, TrafficInv, NEW c \in Clients, Waiting(c), NEW h \in Hosts,
           NEW m \in net, OnItsWay(c, h, m)
    PROVE  /\ question[c].src = Address(c) /\ Address(c)[2] # MDNS_PORT /\ port[c] # NULL
           /\ \/ m.kind = "query" /\ m.src = Address(c) /\ m.dst = <<h, MDNS_PORT>>
              \/ m.kind # "query" /\ m.src = <<h, MDNS_PORT>> /\ m.dst = Address(c)
<1>1. pc[c] = "waiting" /\ question[c].src = Address(c) /\ port[c] # NULL /\ port[c] \in Ports
  BY DEF ClientInv, Waiting
<1>2. Address(c)[2] # MDNS_PORT
  BY <1>1, NetworkAssumption DEF Address
<1>3. IsTraffic(m)
  BY DEF TrafficInv
<1>4. \/ m.src = Address(c) /\ m.dst = <<h, MDNS_PORT>>
      \/ m.src = <<h, MDNS_PORT>> /\ m.dst = Address(c)
  BY <1>1 DEF OnItsWay
<1> QED
  BY <1>1, <1>2, <1>3, <1>4 DEF IsTraffic

(* A datagram that stays is still on its way. *)
LEMMA StaysOnItsWay ==
    ASSUME NEW c \in Clients, NEW h, NEW m \in net', OnItsWay(c, h, m),
           question'[c] = question[c]
    PROVE  \E n \in net' : OnItsWay(c, h, n)'
BY DEF OnItsWay

(* After a step a client that waits still has its question or an answer *)
(* on its way, for every host that knows and was not missed. *)
LEMMA ForgottenStep ==
    ASSUME ClientInv, LinkInv, TrafficInv, NobodyForgotten, [Next]_vars,
           NEW c \in Clients, NEW h \in Hosts, h \notin missed', Waiting(c)',
           Knows(h, question[c])'
    PROVE  \E m \in net' : OnItsWay(c, h, m)'
<1>1. CASE \E k \in Clients : ClientAsks(k)
  <2>1. PICK k \in Clients : ClientAsks(k)
    BY <1>1
  <2>2. PICK labels \in Seq(Token \ {Dot}) :
           /\ net' = net \cup Multicast(Address(k), labels, QType(k))
           /\ question' = [question EXCEPT ![k] =
                 [src |-> Address(k), labels |-> labels, qtype |-> QType(k)]]
    BY <2>1, AskFacts
  <2>3. CASE k = c
    <3> DEFINE m == Query(Address(k), h, labels, QType(k))
    <3>1. m \in net'
      BY <2>2 DEF Multicast
    <3>2. question'[c] = [src |-> Address(k), labels |-> labels, qtype |-> QType(k)]
      BY <2>2, <2>3 DEF ClientInv
    <3>3. /\ m.labels = labels /\ m.qtype = QType(k)
          /\ m.src = Address(k) /\ m.dst = <<h, MDNS_PORT>>
      BY DEF Query
    <3> HIDE DEF m
    <3>4. /\ m.labels = question'[c].labels /\ m.qtype = question'[c].qtype
          /\ <<m.src, m.dst>> = <<question'[c].src, <<h, MDNS_PORT>>>>
      BY <3>2, <3>3
    <3> QED
      BY <3>1, <3>4 DEF OnItsWay
  <2>4. CASE k # c
    <3>1. question'[c] = question[c] /\ pc'[c] = pc[c] /\ UNCHANGED missed
      BY <2>1, <2>2, <2>4 DEF ClientAsks, ClientInv
    <3>2. Waiting(c) /\ Knows(h, question[c])
      BY <3>1 DEF Waiting, Knows
    <3>3. PICK m \in net : OnItsWay(c, h, m)
      BY <3>1, <3>2 DEF NobodyForgotten, OnItsWay
    <3> QED
      BY <2>2, <3>1, <3>3, StaysOnItsWay
  <2> QED
    BY <2>3, <2>4
<1>2. CASE ~ \E k \in Clients : ClientAsks(k)
  <2>1. question' = question
    BY <1>2 DEF Next, Progress, vars, ServerHandles, ClientReceives, Undelivered, Lose, ClientStarts,
          ClientFailsToStart, ClientFailsToAsk, ClientGivesUp, ServerStarts, ServerStops,
          BrowserAsks, OutsiderAsks
  <2>2. Waiting(c)
    <3>1. CASE \E k \in Clients : ClientStarts(k)
      BY <3>1 DEF ClientStarts, ClientInv, Waiting
    <3>2. ASSUME NEW k \in Clients, NEW code, Leaves(k, code) PROVE Waiting(c)
      BY <3>2 DEF Leaves, ClientInv, Waiting
    <3> QED
      BY <1>2, <3>1, <3>2 DEF Next, Progress, vars, clients, ServerHandles, ClientReceives,
            Undelivered, Lose, ClientFailsToStart, ClientFailsToAsk, ClientGivesUp,
            ServerStarts, ServerStops, BrowserAsks, OutsiderAsks, Waiting
  <2>3. h \notin missed
    BY DEF Next, Progress, vars, ServerHandles, ClientReceives, Undelivered, Lose, ClientStarts,
          ClientAsks, ClientFailsToStart, ClientFailsToAsk, ClientGivesUp, ServerStarts,
          ServerStops, BrowserAsks, OutsiderAsks
  <2>4. Knows(h, question[c])
    BY <2>1 DEF Knows
  <2>5. PICK m \in net : OnItsWay(c, h, m)
    BY <2>2, <2>3, <2>4 DEF NobodyForgotten, OnItsWay
  <2>6. /\ question[c].src = Address(c) /\ Address(c)[2] # MDNS_PORT /\ port[c] # NULL
        /\ \/ m.kind = "query" /\ m.src = Address(c) /\ m.dst = <<h, MDNS_PORT>>
           \/ m.kind # "query" /\ m.src = <<h, MDNS_PORT>> /\ m.dst = Address(c)
    BY <2>2, <2>5, OnItsWayFacts
  <2>7. CASE m \in net'
    BY <2>1, <2>5, <2>7, StaysOnItsWay
  <2>8. CASE m \notin net'
    <3>1. CASE \E n \in net, g \in Hosts : ServerHandles(g, n)
      <4>1. PICK n \in net, g \in Hosts : ServerHandles(g, n)
        BY <3>1
      <4>2. n = m /\ m.dst = <<g, MDNS_PORT>>
        BY <4>1, <2>8 DEF ServerHandles, Delivers
      <4>3. m.src = Address(c) /\ g = h
        BY <2>6, <4>2
      <4>4. HasAnswer(h, m)
        <5>1. <<m.labels, m.qtype>> \in Knowing[h]
          BY <2>4, <2>5 DEF Knows, OnItsWay
        <5> QED
          BY <5>1, KnowingIsAnswered DEF HasAnswer
      <4> DEFINE r == Response(h, m)
      <4>5. r \in net'
        BY <4>1, <4>2, <4>3, <4>4 DEF ServerHandles, Delivers
      <4>6. r.src = <<h, MDNS_PORT>> /\ r.dst = m.src /\ r.labels = m.labels /\ r.qtype = m.qtype
        BY ResponseType DEF LinkInv
      <4> HIDE DEF r
      <4>7. OnItsWay(c, h, r)
        BY <2>5, <2>6, <4>3, <4>6 DEF OnItsWay
      <4> QED
        BY <2>1, <4>5, <4>7, StaysOnItsWay
    <3>2. CASE \E n \in net, k \in Clients : ClientReceives(k, n)
      <4>1. PICK n \in net, k \in Clients : ClientReceives(k, n)
        BY <3>2
      <4>2. n = m /\ m.dst = Address(k) /\ pc[k] = "waiting" /\ pc' = [pc EXCEPT ![k] = "ended"]
        BY <4>1, <2>8 DEF ClientReceives, Delivers, Waiting, Leaves
      <4>3. k # c
        BY <4>2 DEF Waiting, ClientInv
      <4>4. port[k] # NULL /\ port[k] \in Ports
        BY <4>2 DEF ClientInv
      <4>5. Address(k)[2] # MDNS_PORT
        BY <4>4, NetworkAssumption DEF Address
      <4>6. m.dst = Address(c)
        BY <2>6, <4>2, <4>5
      <4> QED
        BY <2>6, <4>2, <4>3, <4>4, <4>6 DEF ClientInv
    <3>3. CASE \E n \in net : Undelivered(n)
      <4>1. PICK n \in net : Undelivered(n)
        BY <3>3
      <4>2. n = m
        BY <4>1, <2>8 DEF Undelivered
      <4>3. CASE m.kind = "query"
        BY <2>6, <4>1, <4>2, <4>3 DEF Undelivered
      <4>4. CASE m.kind # "query"
        BY <2>6, <4>1, <4>2, <4>4 DEF Undelivered
      <4> QED
        BY <4>3, <4>4
    <3>4. CASE \E n \in net : Lose(n)
      <4>1. PICK n \in net : Lose(n)
        BY <3>4
      <4>2. n = m
        BY <4>1, <2>8 DEF Lose
      <4> QED
        BY <2>6, <4>1, <4>2 DEF Lose
    <3>5. CASE \E g \in Hosts : ServerStops(g)
      <4>1. PICK g \in Hosts : ServerStops(g)
        BY <3>5
      <4>2. m.dst = <<g, MDNS_PORT>> /\ g \in missed'
        BY <4>1, <2>8 DEF ServerStops
      <4> QED
        BY <2>6, <4>2
    <3> QED
      BY <1>2, <2>8, <3>1, <3>2, <3>3, <3>4, <3>5 DEF Next, Progress, vars, ClientStarts,
            ClientFailsToStart, ClientFailsToAsk, ClientGivesUp, ServerStarts, BrowserAsks,
            OutsiderAsks
  <2> QED
    BY <2>7, <2>8
<1> QED
  BY <1>1, <1>2

(* No question is dropped but by the link or by a server that is not       *)
(* there: while a client waits, its question is under way to every host    *)
(* that can answer it, or the answer is under way back.                    *)
THEOREM NoneForgotten == Spec => []NobodyForgotten
<1>1. Init => NobodyForgotten
  BY DEF Init, NobodyForgotten, Waiting
<1>2. ClientInv /\ LinkInv /\ TrafficInv /\ NobodyForgotten /\ [Next]_vars => NobodyForgotten'
  <2> SUFFICES ASSUME ClientInv, LinkInv, TrafficInv, NobodyForgotten, [Next]_vars
               PROVE  NobodyForgotten'
    OBVIOUS
  <2>1. \A c \in Clients, h \in Hosts :
           h \notin missed' /\ Waiting(c)' /\ Knows(h, question[c])' =>
              \E m \in net' : OnItsWay(c, h, m)'
    BY ForgottenStep
  <2> QED
    BY <2>1 DEF NobodyForgotten, OnItsWay
<1> QED
  BY <1>1, <1>2, ClientInvariance, TrafficInvariance, PTL DEF Spec
=============================================================================
