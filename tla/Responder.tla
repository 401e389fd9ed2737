----------------------------- MODULE Responder -----------------------------
(***************************************************************************)
(* mdns_server: it loads its services into the registry, opens its socket, *)
(* then answers one datagram at a time until a signal stops it.            *)
(*                                                                         *)
(* The registry is the one of HostDb, the way from a question to its reply *)
(* the one of Questions.  The kernel is modelled from how the program uses *)
(* it: select with its timeout of one second, a receive queue that drops   *)
(* what does not fit, and signals, whose handler signal() resets to the    *)
(* default once it has run (the build's -std=c99 and                       *)
(* -D_POSIX_C_SOURCE=200809L select the System V semantics).               *)
(***************************************************************************)
EXTENDS Questions, FiniteSets

CONSTANTS
    Addr, Params, DEFAULT_TTL, INITIAL_CAPACITY,  \* As in HostDb
    HostNames,      \* What gethostname may return
    Datagrams,      \* What may arrive
    RX_QUEUE,       \* Datagrams the kernel keeps for the socket
    MAX_SIGNALS     \* Bound: signals sent to the process in a run

Signals == {"SIGINT", "SIGTERM"}

ASSUME ResponderAssumption ==
    /\ HostNames \subseteq String
    /\ Datagrams \subseteq Datagram
    /\ {RX_QUEUE, MAX_SIGNALS} \subseteq Nat

VARIABLES
    services, service_capacity, heap,   \* The registry
    pc,          \* Where main is
    hostname,    \* local_record.hostname
    sock,        \* The socket is open
    g_running,
    handlers,    \* Signal -> its disposition
    rxq,         \* Datagrams received by the kernel
    in,          \* The datagram being handled, or NULL
    found,       \* services[0 .. service_count - 1]: what the lookup returned
    reply,       \* What is about to be sent, or NULL
    outbox,      \* What has been sent since a datagram was last received
    sent_signals,   \* How many, against their bound
    late         \* Datagrams received with g_running already 0

registry == <<services, service_capacity, heap>>
kernel == <<rxq, sent_signals>>
vars == <<registry, pc, hostname, sock, g_running, handlers, kernel, in, found, reply, outbox, late>>

H == INSTANCE HostDb WITH QueryNames <- {}

(* What is sent. *)
Responses == [to : {d.from : d \in Datagrams}, question : Datagrams, about : Seq(H!Service),
            answers : Seq(Nat \X {"SRV", "TXT"})]

(* Of HostDb; and what is known of types, TXT strings and messages. *)
ASSUME RegistryAssumption ==
    /\ IsFiniteSet(Addr) /\ NULL \notin Seq(STRING)
    /\ {DEFAULT_TTL, INITIAL_CAPACITY} \subseteq Nat \ {0}
    /\ Params \subseteq H!Param
    /\ \A svc \in Params : /\ IsText(svc.service_type)
                           /\ svc.txt_kv \in Seq(DOMAIN TxtOctets) \cup {NULL}
    /\ NULL \notin Responses

Alive == pc \notin {"exited", "failed", "killed"}

-----------------------------------------------------------------------------
Init ==
    /\ H!Init
    /\ pc = "config"
    /\ hostname \in {StripTrailingDot(n) : n \in HostNames}
    /\ sock = FALSE
    /\ g_running = TRUE
    /\ handlers = [s \in Signals |-> "default"]
    /\ rxq = << >> /\ sent_signals = 0
    /\ in = NULL /\ found = << >> /\ reply = NULL
    /\ outbox = {}
    /\ late = 0

(* config_load_services: one call of mdns_register_service per section.    *)
(* What the loader does between the calls is in ConfigLoader.              *)
LoadService(svc) ==
    /\ pc = "config"
    /\ H!Register(svc) \/ H!RegisterOutOfMemory(svc)
    /\ UNCHANGED <<pc, hostname, sock, g_running, handlers, kernel, in, found, reply, outbox, late>>

LoadEnds ==
    /\ pc = "config"
    /\ pc' = "open"
    /\ UNCHANGED <<registry, hostname, sock, g_running, handlers, kernel, in, found, reply, outbox, late>>

(* mdns_socket_open; when it fails main returns 1 and frees nothing. *)
OpenSocket ==
    /\ pc = "open"
    /\ \/ pc' = "handlers" /\ sock' = TRUE
       \/ pc' = "failed" /\ UNCHANGED sock
    /\ UNCHANGED <<registry, hostname, g_running, handlers, kernel, in, found, reply, outbox, late>>

InstallHandlers ==
    /\ pc = "handlers"
    /\ handlers' = [s \in Signals |-> "on_signal"]
    /\ pc' = "check"
    /\ UNCHANGED <<registry, hostname, sock, g_running, kernel, in, found, reply, outbox, late>>

(* Mutant of CheckRunning: what is queued is answered before leaving. *)
DrainsFirst ==
    /\ pc = "check"
    /\ pc' = IF g_running \/ rxq # << >> THEN "select" ELSE "close"
    /\ UNCHANGED <<registry, hostname, sock, g_running, handlers, kernel, in, found, reply, outbox, late>>

(* while (g_running) *)
CheckRunning ==
    /\ pc = "check"
    /\ pc' = IF g_running THEN "select" ELSE "close"
    /\ UNCHANGED <<registry, hostname, sock, g_running, handlers, kernel, in, found, reply, outbox, late>>

(* Mutants of SelectReturns: select without a timeout; and a wrong test of  *)
(* what it returned.                                                       *)
WaitsForever ==
    /\ pc = "select" /\ rxq # << >>
    /\ pc' = "recv"
    /\ UNCHANGED <<registry, hostname, sock, g_running, handlers, kernel, in, found, reply, outbox, late>>
NeverReady ==
    /\ pc = "select"
    /\ pc' = "check"
    /\ UNCHANGED <<registry, hostname, sock, g_running, handlers, kernel, in, found, reply, outbox, late>>

(* select returns: a datagram is there, or a second has passed. *)
SelectReturns ==
    /\ pc = "select"
    /\ pc' = IF rxq # << >> THEN "recv" ELSE "check"
    /\ UNCHANGED <<registry, hostname, sock, g_running, handlers, kernel, in, found, reply, outbox, late>>

(* select fails for another reason than a signal: the loop is left. *)
SelectFails ==
    /\ pc = "select"
    /\ pc' = "close"
    /\ UNCHANGED <<registry, hostname, sock, g_running, handlers, kernel, in, found, reply, outbox, late>>

(* recvfrom.  When it fails the loop only goes on; whether the datagram is *)
(* still there is the kernel's affair.                                     *)
Receive ==
    /\ pc = "recv"
    /\ \/ pc' = "lookup" /\ in' = Head(rxq) /\ rxq' = Tail(rxq)
       \/ pc' = "check" /\ rxq' \in {rxq, Tail(rxq)} /\ UNCHANGED in
    /\ late' = IF g_running THEN late ELSE late + 1
    /\ outbox' = {}
    /\ UNCHANGED <<registry, hostname, sock, g_running, handlers, sent_signals, found, reply>>

(* Parsing and lookup.  To ignore a datagram is to reach Reply with nothing *)
(* to send.                                                                *)
Lookup ==
    /\ pc = "lookup"
    /\ \/ /\ Accepted(in, hostname)
          /\ found' = IF in.qtype = "SRV" THEN Found(services, QName(in)) ELSE << >>
          /\ pc' = "build"
       \/ /\ ~ Accepted(in, hostname)
          /\ pc' = "reply"
          /\ UNCHANGED found
    /\ UNCHANGED <<registry, hostname, sock, g_running, handlers, kernel, in, reply, outbox, late>>

(* Building the response; an SRV question without a match gets none.       *)
Build ==
    /\ pc = "build"
    /\ reply' = IF in.qtype = "SRV" THEN ServiceReply(in, found) ELSE AddressReply(in)
    /\ pc' = "reply"
    /\ UNCHANGED <<registry, hostname, sock, g_running, handlers, kernel, in, found, outbox, late>>

(* sendto, whose failure is only logged; nothing to send is no call. *)
Reply ==
    /\ pc = "reply"
    /\ \/ reply # NULL /\ outbox' = {reply}
       \/ UNCHANGED outbox
    /\ in' = NULL /\ found' = << >> /\ reply' = NULL
    /\ pc' = "check"
    /\ UNCHANGED <<registry, hostname, sock, g_running, handlers, kernel, late>>

CloseSocket ==
    /\ pc = "close"
    /\ sock' = FALSE /\ rxq' = << >>
    /\ pc' = "cleanup"
    /\ UNCHANGED <<registry, hostname, g_running, handlers, sent_signals, in,
                   found, reply, outbox, late>>

(* Mutant of CleanupAndExit: the call of mdns_cleanup_services is missing. *)
ExitWithoutCleanup ==
    /\ pc = "cleanup"
    /\ pc' = "exited"
    /\ UNCHANGED <<registry, hostname, sock, g_running, handlers, kernel, in, found, reply, outbox, late>>

CleanupAndExit ==
    /\ pc = "cleanup"
    /\ H!Cleanup
    /\ pc' = "exited"
    /\ UNCHANGED <<hostname, sock, g_running, handlers, kernel, in, found, reply, outbox, late>>

-----------------------------------------------------------------------------
(* The environment. *)

(* There is no end to what arrives; what the queue does not hold is lost. *)
Arrive(d) ==
    /\ Alive /\ sock
    /\ rxq' = IF Len(rxq) < RX_QUEUE THEN Append(rxq, d) ELSE rxq
    /\ UNCHANGED <<registry, pc, hostname, sock, g_running, handlers, sent_signals, in,
                   found, reply, outbox, late>>

(* A handled signal interrupts select with EINTR, and the loop goes on to  *)
(* its test; one that comes between the test and the call does not, and    *)
(* select waits as if nothing had happened.  Without a handler the signal  *)
(* ends the process.                                                       *)
Signal(s) ==
    /\ Alive
    /\ sent_signals < MAX_SIGNALS
    /\ sent_signals' = sent_signals + 1
    /\ \/ /\ handlers[s] = "on_signal"
          /\ g_running' = FALSE
          /\ handlers' = [handlers EXCEPT ![s] = "default"]
          /\ \/ UNCHANGED pc
             \/ pc = "select" /\ pc' = "check"
       \/ /\ handlers[s] = "default"
          /\ pc' = "killed"
          /\ UNCHANGED <<g_running, handlers>>
    /\ UNCHANGED <<registry, hostname, sock, rxq, in, found, reply, outbox, late>>

Main ==
    \/ LoadEnds \/ OpenSocket \/ InstallHandlers
    \/ CheckRunning \/ SelectReturns \/ Receive \/ Lookup \/ Build \/ Reply
    \/ CloseSocket \/ CleanupAndExit

Stopped == ~ Alive /\ UNCHANGED vars

Next ==
    \/ Main
    \/ SelectFails
    \/ \E svc \in Params : LoadService(svc)
    \/ \E d \in Datagrams : Arrive(d)
    \/ \E s \in Signals : Signal(s)
    \/ Stopped

Spec == Init /\ [][Next]_vars

(* The process is scheduled, and select returns: at the latest after its   *)
(* timeout.                                                                *)
FairSpec == Spec /\ WF_vars(Main)
-----------------------------------------------------------------------------
(* Properties. *)

TypeOK ==
    /\ H!TypeOK
    /\ pc \in {"config", "open", "handlers", "check", "select", "recv", "lookup", "build",
               "reply", "close", "cleanup", "exited", "failed", "killed"}
    /\ hostname \in String
    /\ sock \in BOOLEAN /\ g_running \in BOOLEAN
    /\ handlers \in [Signals -> {"default", "on_signal"}]
    /\ rxq \in Seq(Datagrams) /\ Len(rxq) <= RX_QUEUE
    /\ in \in Datagrams \cup {NULL}
    /\ found \in Seq(H!Service)
    /\ reply \in Responses \cup {NULL}
    /\ outbox \subseteq Responses
    /\ sent_signals \in 0 .. MAX_SIGNALS
    /\ late \in Nat

(* The service the n-th record of a response is about. *)
Subject(r, n) == r.about[r.answers[n][1]]

(* What is sent answers what was asked: it goes to the sender of the       *)
(* question, an address is given for this host's name only, and every      *)
(* record is of a service that is registered and that has the type and     *)
(* domain, or the whole name, that was asked for.  The question is the one *)
(* the response repeats, compared label by label as DNS does.  For labels  *)
(* without a dot or NUL it is the question received: parse_qname,          *)
(* strcasecmp, parse_service_type_query and encode_qname agree with DNS.   *)
(* For others it is what the text of the name spells, cut at its NUL and   *)
(* split at its dots, which is the question the response repeats.          *)
RepliesSound ==
    \A r \in outbox :
        LET asked == Repeated(r.question)
        IN  /\ r.to = r.question.from
            /\ DotFree(r.question.labels) => asked = Bare(r.question.labels)
            /\ r.answers = << >> => /\ r.question.qtype \in {"A", "AAAA"}
                                   /\ SameLabels(asked, hostname)
            /\ \A n \in DOMAIN r.answers :
                  /\ r.question.qtype = "SRV"
                  /\ IsOfType(Subject(r, n), asked) \/ SameLabels(asked, Fqdn(Subject(r, n)))
                  /\ pc # "exited" => \E k \in DOMAIN services : services[k] = Subject(r, n)

(* A question that can be answered is: one for a type gets an SRV and a    *)
(* TXT record of each registered service of that type, letter case aside   *)
(* (of the first MAX_FOUND, when there are more), and one for the host's   *)
(* name gets an address.                                                   *)
AnswersComplete ==
    pc = "reply" /\ Answerable(in, services, hostname) =>
        /\ reply # NULL
        /\ in.qtype = "SRV" =>
              \A n \in DOMAIN Wanted(services, in), rr \in {"SRV", "TXT"} :
                  \E k \in DOMAIN reply.answers :
                      Subject(reply, k) = Wanted(services, in)[n] /\ reply.answers[k][2] = rr

(* A stop request is honoured after the datagram at hand at the latest,    *)
(* also when it comes between the test of g_running and select.            *)
AtMostOneLate == late <= 1

(* The way out through the end of main frees every block of the registry   *)
(* and the socket, whatever was loaded and whichever allocation failed.    *)
(* The strings the loader has made of each section (config.c:79-115) are   *)
(* not among them: it keeps them when the section is registered.           *)
ExitReleasesAll ==
    pc = "exited" => /\ \A a \in Addr : heap[a] = 0
                     /\ services = << >> /\ ~ sock /\ rxq = << >>

(* A stop request ends the process, however many datagrams arrive. *)
ShutsDown == ~ g_running ~> ~ Alive

(* The server keeps up with datagrams that never end: while the kernel     *)
(* holds one the loop gets to recvfrom again, and with every datagram it   *)
(* receives it is done, unless the server is on its way out.               *)
QueueServed ==
    /\ rxq # << >> ~> (pc = "recv" \/ ~ g_running \/ ~ Alive)
    /\ in # NULL ~> (in = NULL \/ ~ Alive)

-----------------------------------------------------------------------------
(* What the documentation says, and the program does not do. *)

(* doc/server/README.md: for a targeted query, named by instance, the      *)
(* server looks up the exact service and returns its SRV and TXT records.  *)
TargetedQueryAnswered ==
    pc = "reply" /\ WellFormed(in) /\ in.qtype = "SRV" =>
        \A k \in DOMAIN services :
            /\ SameLabels(Bare(in.labels), Fqdn(services[k]))
            /\ AllGoIn(in, <<services[k]>>)
            => reply # NULL

(* README.md: graceful shutdown on SIGINT and SIGTERM.  Then a shutdown    *)
(* that a signal has begun ends at the end of main.                        *)
ShutdownIsGraceful == ~ g_running => pc # "killed"
=============================================================================
