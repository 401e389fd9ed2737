------------------------------ MODULE Network ------------------------------
(***************************************************************************)
(* Servers, clients and browsers on one link.  A question goes to every    *)
(* host, an answer to the address the question came from; the link may     *)
(* lose, repeat and reorder.  What a server answers is in Questions; the   *)
(* client is mdns_client; of the browser only the question matters here.   *)
(* A server handles a datagram in one step: its registry does not change   *)
(* once it is loaded, and nothing else is shared.                          *)
(***************************************************************************)
EXTENDS Questions, FiniteSets

CONSTANTS
    Hosts,
    Registry,       \* Host -> the services of its server
    HostName,       \* Host -> its name
    Clients,        \* The runs of mdns_client
    Config,         \* Client -> [host, query_type, query_target, ipv6_only]
    LeftOver,       \* What full_name may hold after the end of its block
    Ports,          \* The ephemeral ports of a host
    Browsers,       \* The hosts where a browser runs
    BrowsedType,    \* Name it asks for: see Browse
    Outside,        \* Questions other programs ask from the mDNS port
    MDNS_PORT,
    MAX_OTHERS,     \* Bound: questions from the mDNS port
    MAX_REPEATS,    \* Bound: datagrams the link repeats
    MAX_STOPS       \* Bound: how often servers are stopped

(* What is sent. *)
Addresses == Hosts \X (Ports \cup {MDNS_PORT})
Messages == [kind : {"query", "response", "echo"}, src : Addresses, dst : Addresses,
             labels : Seq(Token \ {Dot}), qtype : {"A", "AAAA", "SRV", "PTR"}]

(* What the registry takes: see HostDb. *)
Service == {svc \in [instance : String, service_type : String, domain : String,
                     target_host : String, port : Nat, ttl : Nat,
                     txt_kv : Seq(DOMAIN TxtOctets) \cup {NULL}] :
               IsText(svc.service_type) /\ StrCaseEq(svc.domain, Local)}

ASSUME NetworkAssumption ==
    /\ DOMAIN Registry = Hosts /\ HostName \in [Hosts -> String]
    /\ \A h \in Hosts : Registry[h] \in Seq(Service)
    /\ \A c \in Clients : /\ Config[c].host \in Hosts
                          /\ Config[c].query_target \in String
                          /\ Config[c].query_type \in {"hostname", "service", "ipv4", "ipv6"}
                          /\ Config[c].ipv6_only \in BOOLEAN
    /\ LeftOver \subseteq String /\ Browsers \subseteq Hosts /\ BrowsedType \in String
    /\ \A q \in Outside : /\ q.host \in Hosts /\ q.labels \in Seq(Token \ {Dot})
                          /\ q.qtype \in {"A", "AAAA", "SRV", "PTR"}
    /\ MDNS_PORT \notin Ports /\ NULL \notin Ports
    /\ NULL \notin Messages
    /\ {MAX_OTHERS, MAX_REPEATS, MAX_STOPS} \subseteq Nat

VARIABLES
    up,             \* The hosts whose server is in its loop
    pc, status,     \* Of each client
    port,           \* Of each client's socket; NULL when it is closed
    browsing,       \* The browsers that have asked
    outside,        \* The outside questions that have been asked
    net,            \* The datagrams under way
    question,       \* History: what each client has asked, or NULL
    missed,         \* History: hosts whose server has missed a question or
                    \* whose answer was lost
    repeats, stops  \* How many, against their bounds

clients == <<pc, status, port>>
askers == <<browsing, outside>>
vars == <<up, clients, askers, net, question, missed, repeats, stops>>

-----------------------------------------------------------------------------
(* What is asked. *)

HasDot(s) == \E n \in DOMAIN s : s[n] = Dot

(* The names it may ask for.  A host name without a dot is completed in    *)
(* full_name, whose block has ended when the name is used: the buffer then *)
(* still holds it, or anything else that reuses it.                        *)
QueriedNames(c) ==
    IF Config[c].query_type = "hostname" /\ ~ HasDot(Config[c].query_target)
    THEN {Cut(Config[c].query_target \o <<Dot>> \o Local)} \cup LeftOver
    ELSE {Config[c].query_target}

(* A service by SRV; a host by A, or AAAA with -6, never both. *)
QType(c) ==
    IF Config[c].query_type = "service" THEN "SRV"
    ELSE IF \/ Config[c].query_type = "ipv6"
            \/ Config[c].query_type = "hostname" /\ Config[c].ipv6_only
         THEN "AAAA" ELSE "A"

BrowserQType == "PTR"

Questions ==
    {<<q.labels, q.qtype>> : q \in Outside}
    \cup {<<TextToWire(BrowsedType), BrowserQType>>}
    \cup UNION {{<<TextToWire(name), QType(c)>> : name \in QueriedNames(c)} : c \in Clients}

-----------------------------------------------------------------------------
(* Datagrams.  A response repeats the question it answers, and begins a    *)
(* message of its own for whoever takes it for one: "echo" is a response   *)
(* to a response, a distinction no program here makes.                     *)

Query(src, h, labels, qtype) ==
    [kind |-> "query", src |-> src, dst |-> <<h, MDNS_PORT>>, labels |-> labels, qtype |-> qtype]

(* ff02::fb: to the mDNS port of every host. *)
Multicast(src, labels, qtype) == {Query(src, h, labels, qtype) : h \in Hosts}

(* A question as a server reads it; who asks makes no difference to it. *)
Asked(labels, qtype) ==
    [from |-> "", whole |-> TRUE, qdcount |-> 1, labels |-> Wired(labels), qtype |-> qtype]

(* The server of h makes an answer of it, from the parser to the builder.  *)
Replies(h, d) ==
    /\ Accepted(d, HostName[h])
    /\ IF d.qtype = "SRV" THEN ServiceAnswers(d, Found(Registry[h], QName(d))) # << >>
       ELSE AddressFits(d)

(* The questions each server answers. *)
Answering == [h \in Hosts |-> {q \in Questions : Replies(h, Asked(q[1], q[2]))}]
HasAnswer(h, m) == <<m.labels, m.qtype>> \in Answering[h]

(* Mutant of Response: it goes to the mDNS port, as RFC 6762 has it. *)
ToTheMdnsPort(h, m) ==
    [kind |-> IF m.kind = "query" THEN "response" ELSE "echo",
     src |-> <<h, MDNS_PORT>>, dst |-> <<m.src[1], MDNS_PORT>>, labels |-> m.labels, qtype |-> m.qtype]

Response(h, m) ==
    [kind |-> IF m.kind = "query" THEN "response" ELSE "echo",
     src |-> <<h, MDNS_PORT>>, dst |-> m.src, labels |-> m.labels, qtype |-> m.qtype]

-----------------------------------------------------------------------------
Init ==
    /\ up = {}
    /\ pc = [c \in Clients |-> "start"] /\ status = [c \in Clients |-> 0]
    /\ port = [c \in Clients |-> NULL]
    /\ browsing = {} /\ outside = {}
    /\ net = {} /\ question = [c \in Clients |-> NULL] /\ missed = {}
    /\ repeats = 0 /\ stops = 0

(* The server: started, its socket joins the group; stopped, what it has   *)
(* not read is gone.                                                       *)
ServerStarts(h) ==
    /\ h \notin up
    /\ up' = up \cup {h}
    /\ UNCHANGED <<clients, askers, net, question, missed, repeats, stops>>

ServerStops(h) ==
    /\ h \in up /\ stops < MAX_STOPS
    /\ up' = up \ {h} /\ stops' = stops + 1
    /\ net' = {m \in net : m.dst # <<h, MDNS_PORT>>}
    /\ missed' = missed \cup {h}
    /\ UNCHANGED <<clients, askers, question, repeats>>

(* The link delivers m: it takes it off, or keeps it to deliver it again.  *)
Delivers(m, sent) ==
    \/ net' = (net \ {m}) \cup sent /\ UNCHANGED repeats
    \/ /\ repeats < MAX_REPEATS /\ repeats' = repeats + 1
       /\ net' = net \cup sent

(* One turn of the server's loop; the QR bit of m is not looked at. *)
ServerHandles(h, m) ==
    /\ h \in up /\ m.dst = <<h, MDNS_PORT>>
    /\ Delivers(m, IF HasAnswer(h, m) THEN {Response(h, m)} ELSE {})
    /\ UNCHANGED <<up, clients, askers, question, missed, stops>>

-----------------------------------------------------------------------------
(* mdns_client. *)

Host(c) == Config[c].host
Address(c) == <<Host(c), port[c]>>
Waiting(c) == pc[c] = "waiting"

Leaves(c, code) ==
    /\ pc' = [pc EXCEPT ![c] = "ended"]
    /\ status' = [status EXCEPT ![c] = code]
    /\ port' = [port EXCEPT ![c] = NULL]

(* Mutant of FreePorts: a port in use is bound again. *)
AnyPort(h) == Ports

(* bind to port 0. *)
FreePorts(h) == Ports \ {port[c] : c \in {k \in Clients : Host(k) = h}}

ClientStarts(c) ==
    /\ pc[c] = "start"
    /\ \E p \in FreePorts(Host(c)) :
          /\ port' = [port EXCEPT ![c] = p]
          /\ pc' = [pc EXCEPT ![c] = "bound"]
    /\ UNCHANGED <<up, status, askers, net, question, missed, repeats, stops>>

(* socket, bind, the interface: whatever fails, the socket is closed. *)
ClientFailsToStart(c) ==
    /\ pc[c] = "start"
    /\ Leaves(c, 1)
    /\ UNCHANGED <<up, askers, net, question, missed, repeats, stops>>

(* send_mdns_query *)
ClientAsks(c) ==
    /\ pc[c] = "bound"
    /\ \E name \in QueriedNames(c) :
          /\ QuestionFits(name, OUT_LEN)
          /\ net' = net \cup Multicast(Address(c), TextToWire(name), QType(c))
          /\ question' = [question EXCEPT ![c] =
                [src |-> Address(c), labels |-> TextToWire(name), qtype |-> QType(c)]]
    /\ pc' = [pc EXCEPT ![c] = "waiting"]
    /\ UNCHANGED <<up, status, port, askers, missed, repeats, stops>>

(* The name cannot be encoded or does not fit, or sendto fails. *)
ClientFailsToAsk(c) ==
    /\ pc[c] = "bound"
    /\ Leaves(c, 1)
    /\ UNCHANGED <<up, askers, net, question, missed, repeats, stops>>

(* The first datagram to its port ends the wait, whatever it holds: also   *)
(* the answer to a client that had the port before.                        *)
ClientReceives(c, m) ==
    /\ Waiting(c) /\ m.dst = Address(c)
    /\ Leaves(c, 0)
    /\ Delivers(m, {})
    /\ UNCHANGED <<up, askers, question, missed, stops>>

(* Mutant of ClientGivesUp: select without a timeout. *)
WaitsOn(c) == Waiting(c) /\ UNCHANGED vars

(* A second has passed, or select or recvfrom has failed. *)
ClientGivesUp(c) ==
    /\ Waiting(c)
    /\ Leaves(c, 1)
    /\ UNCHANGED <<up, askers, net, question, missed, repeats, stops>>

-----------------------------------------------------------------------------
(* The others, who ask from the mDNS port. *)

OthersMay == Cardinality(browsing) + Cardinality(outside) < MAX_OTHERS

BrowserAsks(h) ==
    /\ OthersMay /\ h \in Browsers \ browsing
    /\ browsing' = browsing \cup {h}
    /\ net' = net \cup Multicast(<<h, MDNS_PORT>>, TextToWire(BrowsedType), BrowserQType)
    /\ UNCHANGED <<up, clients, outside, question, missed, repeats, stops>>

OutsiderAsks(q) ==
    /\ OthersMay /\ q \notin outside
    /\ outside' = outside \cup {q}
    /\ net' = net \cup Multicast(<<q.host, MDNS_PORT>>, q.labels, q.qtype)
    /\ UNCHANGED <<up, clients, browsing, question, missed, repeats, stops>>

(* Nobody listens where m goes to: a server that has not started, a client *)
(* that has ended.  Or another program that has bound the mDNS port takes  *)
(* it: SO_REUSEADDR lets it, and only multicast goes to all.               *)
SharesPort(h) == h \in browsing \/ \E q \in outside : q.host = h
Undelivered(m) ==
    /\ \/ m.dst[2] = MDNS_PORT /\ m.dst[1] \notin up
       \/ m.dst[2] = MDNS_PORT /\ m.kind # "query" /\ SharesPort(m.dst[1])
       \/ m.dst[2] # MDNS_PORT /\ \A c \in Clients : port[c] # NULL => m.dst # Address(c)
    /\ net' = net \ {m}
    /\ missed' = IF m.kind = "query" THEN missed \cup {m.dst[1]} ELSE missed
    /\ UNCHANGED <<up, clients, askers, question, repeats, stops>>

Lose(m) ==
    /\ net' = net \ {m}
    /\ missed' = missed \cup {IF m.kind = "query" THEN m.dst[1] ELSE m.src[1]}
    /\ UNCHANGED <<up, clients, askers, question, repeats, stops>>

-----------------------------------------------------------------------------
(* What is bound to happen, and what may. *)
Progress ==
    \/ \E m \in net : \/ \E h \in Hosts : ServerHandles(h, m)
                      \/ \E c \in Clients : ClientReceives(c, m)
                      \/ Undelivered(m)
    \/ \E c \in Clients : \/ ClientStarts(c) \/ ClientFailsToStart(c)
                          \/ ClientAsks(c) \/ ClientFailsToAsk(c)
                          \/ ClientGivesUp(c)

Next ==
    \/ Progress
    \/ \E h \in Hosts : ServerStarts(h) \/ ServerStops(h) \/ BrowserAsks(h)
    \/ \E q \in Outside : OutsiderAsks(q)
    \/ \E m \in net : Lose(m)

Spec == Init /\ [][Next]_vars

(* The link delivers what it does not lose, the programs are scheduled,    *)
(* and a second passes.                                                    *)
FairSpec == Spec /\ WF_vars(Progress)
-----------------------------------------------------------------------------
(* Properties. *)

TypeOK ==
    /\ up \subseteq Hosts /\ browsing \subseteq Browsers /\ outside \subseteq Outside
    /\ pc \in [Clients -> {"start", "bound", "waiting", "ended"}]
    /\ status \in [Clients -> 0 .. 1]
    /\ \A c \in Clients : /\ (port[c] # NULL) = (pc[c] \in {"bound", "waiting"})
                          /\ port[c] # NULL => port[c] \in Ports
    /\ \A c, k \in Clients :
          c # k /\ port[c] # NULL /\ port[k] # NULL => Address(c) # Address(k)
    /\ net \subseteq Messages
    /\ missed \subseteq Hosts /\ repeats \in 0 .. MAX_REPEATS /\ stops \in 0 .. MAX_STOPS

(* A question concerns a host: it is for its name, or for the type or the  *)
(* whole name of one of its services.                                      *)
Concerns(h, labels, qtype) ==
    \/ qtype \in {"A", "AAAA"} /\ SameLabels(labels, HostName[h])
    \/ /\ qtype = "SRV"
       /\ \E k \in DOMAIN Registry[h] : \/ IsOfType(Registry[h][k], labels)
                                        \/ SameLabels(labels, Fqdn(Registry[h][k]))
Concerned == [h \in Hosts |-> {q \in Questions : Concerns(h, q[1], q[2])}]

(* The questions a host can answer in full. *)
Knowing == [h \in Hosts |->
               {q \in Questions : Answerable(Asked(q[1], q[2]), Registry[h], HostName[h])}]
Knows(h, m) == <<m.labels, m.qtype>> \in Knowing[h]

(* Somebody has asked the question from the address. *)
WasAsked(addr, labels, qtype) ==
    \/ \E k \in Clients : question[k] = [src |-> addr, labels |-> labels, qtype |-> qtype]
    \/ \E h \in browsing : <<addr, labels, qtype>> =
                            <<<<h, MDNS_PORT>>, TextToWire(BrowsedType), BrowserQType>>
    \/ \E q \in outside : <<addr, labels, qtype>> = <<<<q.host, MDNS_PORT>>, q.labels, q.qtype>>

(* A response under way answers a question that was asked from the address *)
(* it goes to, and comes from a host that the question concerns, whatever  *)
(* is lost, repeated or late and whoever holds the port by now.  Who takes *)
(* it is another matter: ClientReceives takes any.                         *)
AnswersAreWanted ==
    \A m \in net : m.kind = "response" =>
        /\ WasAsked(m.dst, m.labels, m.qtype)
        /\ <<m.labels, m.qtype>> \in Concerned[m.src[1]]

(* A client that waits has its question under way to, or an answer under   *)
(* way from, every host that can answer it, unless the host has missed a   *)
(* question, by a loss or because its server did not run, or an answer of  *)
(* it was lost.                                                            *)
NobodyForgotten ==
    \A c \in Clients, h \in Hosts \ missed :
        Waiting(c) /\ Knows(h, question[c]) =>
            \E m \in net : /\ m.labels = question[c].labels /\ m.qtype = question[c].qtype
                           /\ <<m.src, m.dst>> \in {<<question[c].src, <<h, MDNS_PORT>>>>,
                                                    <<<<h, MDNS_PORT>>, question[c].src>>}

(* The network comes to rest once nobody asks any more, provided that no   *)
(* response was taken for a question: every client ends, and the last      *)
(* question is followed by the last answer.  Without the proviso it need   *)
(* not: two servers that hold services of one type answer each other's     *)
(* responses for ever, and OnlyQueriesAnswered fails.                      *)
ComesToRest ==
    [](\A m \in net : m.kind # "echo")
        => <>[](net = {} /\ \A c \in Clients : pc[c] = "ended")

-----------------------------------------------------------------------------
(* What the documentation says, and the program does not do. *)

(* doc/mdns/a-record-exchange.md: the responder checks that what it has    *)
(* received is a query, not a response.                                    *)
OnlyQueriesAnswered == \A m \in net : m.kind # "echo"
=============================================================================
