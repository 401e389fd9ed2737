--------------------------- MODULE ResponderProofs ---------------------------
(***************************************************************************)
(* The server's invariants, for every host name, every set of services and *)
(* every datagram.                                                         *)
(*                                                                         *)
(* The server uses the registry as HostDb describes it, so what is proved  *)
(* there holds of the services it answers for.                             *)
(***************************************************************************)
EXTENDS Responder, QuestionsProofs

P == INSTANCE HostDbProofs WITH QueryNames <- {}

-----------------------------------------------------------------------------
(* The registry. *)

(* The responder gives the registry services and names that it can hold. *)
LEMMA HostDbAssumed == P!HostDbAssumption
<1>1. H!Param = P!Param
  BY DEF H!Param, P!Param, H!String, P!String
<1>2. {} \subseteq P!String
  OBVIOUS
<1>3. P!IsFiniteSet(Addr)
  BY RegistryAssumption DEF IsFiniteSet, P!IsFiniteSet
<1> QED
  BY <1>1, <1>2, <1>3, RegistryAssumption DEF P!HostDbAssumption

(* The registry's operations, under either of its names here. *)
LEMMA SameOperators ==
    ASSUME NEW s, NEW a, NEW reg, NEW n, NEW c, NEW txt, NEW k
    PROVE  /\ H!validate_service(s) <=> P!validate_service(s)
           /\ H!IsDuplicate(reg, s) <=> P!IsDuplicate(reg, s)
           /\ H!NewService(a, s) = P!NewService(a, s)
           /\ H!NewCapacity(n, c) = P!NewCapacity(n, c)
           /\ H!CopiedTxt(s) = P!CopiedTxt(s)
           /\ H!BlocksOf(n, txt) = P!BlocksOf(n, txt)
           /\ H!free_service(n, txt, k) = P!free_service(n, txt, k)
           /\ H!PartialServices(s) = P!PartialServices(s)
<1>1. H!Fqdn(s) = P!Fqdn(s) /\ \A i : H!Fqdn(i) = P!Fqdn(i)
  BY DEF H!Fqdn, P!Fqdn
<1>2. \A u, v : H!StrCaseEq(u, v) <=> P!StrCaseEq(u, v)
  BY DEF H!StrCaseEq, P!StrCaseEq, H!Folded, P!Folded
<1>3. \A u : H!StrLen(u) = P!StrLen(u)
  BY DEF H!StrLen, P!StrLen, H!String, P!String, H!Front, P!Front, H!Last, P!Last
<1>4. \A u : H!Fits(u) <=> P!Fits(u)
  BY <1>1, <1>3 DEF H!Fits, P!Fits
<1>5. H!validate_service(s) <=> P!validate_service(s)
  BY <1>2 DEF H!validate_service, P!validate_service, H!StartsWithUnderscore, P!StartsWithUnderscore
<1>6. H!IsDuplicate(reg, s) <=> P!IsDuplicate(reg, s)
  BY <1>1, <1>2, <1>4 DEF H!IsDuplicate, P!IsDuplicate, H!HasName, P!HasName
<1>7. H!CopiedTxt(s) = P!CopiedTxt(s)
  BY DEF H!CopiedTxt, P!CopiedTxt
<1>8. H!NewService(a, s) = P!NewService(a, s)
  BY <1>7 DEF H!NewService, P!NewService, H!Ttl, P!Ttl, H!CountOf, P!CountOf
<1>9. H!PartialServices(s) = P!PartialServices(s)
  BY <1>7 DEF H!PartialServices, P!PartialServices
<1>10. /\ H!NewCapacity(n, c) = P!NewCapacity(n, c)
       /\ H!BlocksOf(n, txt) = P!BlocksOf(n, txt)
       /\ H!free_service(n, txt, k) = P!free_service(n, txt, k)
  BY DEF H!NewCapacity, P!NewCapacity, H!BlocksOf, P!BlocksOf, H!free_service, P!free_service
<1> QED
  BY <1>5, <1>6, <1>7, <1>8, <1>9, <1>10

(* A registration that the responder makes is one of the registry's own. *)
LEMMA SameRegistrations ==
    ASSUME NEW s
    PROVE  /\ H!Register(s) => P!Register(s)
           /\ H!RegisterOutOfMemory(s) => P!RegisterOutOfMemory(s)
<1>1. /\ H!validate_service(s) <=> P!validate_service(s)
      /\ H!IsDuplicate(services, s) <=> P!IsDuplicate(services, s)
      /\ \A a : H!NewService(a, s) = P!NewService(a, s)
      /\ H!NewCapacity(Len(services), service_capacity)
            = P!NewCapacity(Len(services), service_capacity)
      /\ H!CopiedTxt(s) = P!CopiedTxt(s)
      /\ \A n, txt : H!BlocksOf(n, txt) = P!BlocksOf(n, txt)
      /\ \A n, txt, k : H!free_service(n, txt, k) = P!free_service(n, txt, k)
      /\ H!PartialServices(s) = P!PartialServices(s)
  BY SameOperators, Zenon
<1>2. ASSUME H!Register(s) PROVE P!Register(s)
  BY <1>1, <1>2 DEF H!Register, P!Register
<1>3. ASSUME H!RegisterOutOfMemory(s) PROVE P!RegisterOutOfMemory(s)
  BY <1>1, <1>3 DEF H!RegisterOutOfMemory, P!RegisterOutOfMemory
<1> QED
  BY <1>2, <1>3


(* So is its cleanup. *)
LEMMA SameCleanup == H!Cleanup => P!Cleanup
<1>1. \A s : H!FreeOf(s) = P!FreeOf(s)
  BY DEF H!FreeOf, P!FreeOf, H!free_service, P!free_service
<1> QED
  BY <1>1 DEF H!Cleanup, P!Cleanup

(* A step of the server is one of the registry's own, or leaves it alone. *)
LEMMA RegistryStep == [Next]_vars => [P!Next]_(P!vars)
<1> SUFFICES ASSUME [Next]_vars, ~ UNCHANGED registry PROVE P!Next
  BY DEF registry, P!vars
<1>1. CASE \E svc \in Params : LoadService(svc)
  <2>1. PICK svc \in Params : LoadService(svc)
    BY <1>1
  <2>2. P!Register(svc) \/ P!RegisterOutOfMemory(svc)
    BY <2>1, SameRegistrations DEF LoadService
  <2> QED
    BY <2>2 DEF P!Next
<1>2. CASE CleanupAndExit
  BY <1>2, SameCleanup DEF CleanupAndExit, P!Next
<1> QED
  BY <1>1, <1>2 DEF Next, Main, vars, LoadEnds, OpenSocket, InstallHandlers, CheckRunning,
                    SelectReturns, SelectFails, Receive, Lookup, Build, Reply, CloseSocket,
                    Arrive, Signal, Stopped

(* The server uses the registry as HostDb describes it. *)
THEOREM UsesTheRegistry == Spec => P!Spec
<1>1. Init => P!Init
  BY DEF Init, H!Init, P!Init
<1>2. [Next]_vars => [P!Next]_(P!vars)
  BY RegistryStep
<1> QED
  BY <1>1, <1>2, PTL DEF Spec, P!Spec

(* So what the registry promises holds of the services the server answers  *)
(* for: names are unique, every block has its owner, and each service is   *)
(* one validate_service accepts.                                           *)
THEOREM RegistrySound == Spec => []P!IInv
<1>1. P!Spec => []P!IInv
  BY HostDbAssumed, NamesAssumption, P!Invariance DEF P!HostDbAssumption
<1> QED
  BY <1>1, UsesTheRegistry, PTL

-----------------------------------------------------------------------------
(* Stopping. *)

(* Once a stop was asked for, no datagram has been received since, or the  *)
(* server is past the one it had at hand and does not wait again.          *)
LateInv ==
    /\ late \in {0, 1}
    /\ g_running => late = 0
    /\ pc \in {"select", "recv"} => late = 0

(* The invariant of late answers holds in every state. *)
LEMMA LateInvariance == Spec => []LateInv
<1>1. Init => LateInv
  BY DEF Init, LateInv
<1>2. LateInv /\ [Next]_vars => LateInv'
  <2> SUFFICES ASSUME LateInv, [Next]_vars PROVE LateInv'
    OBVIOUS
  <2>1. CASE Receive
    BY <2>1 DEF LateInv, Receive
  <2>2. CASE CheckRunning
    BY <2>2 DEF LateInv, CheckRunning
  <2>3. CASE \E s \in Signals : Signal(s)
    BY <2>3 DEF LateInv, Signal
  <2>4. CASE SelectReturns \/ SelectFails
    BY <2>4 DEF LateInv, SelectReturns, SelectFails
  <2>5. CASE LoadEnds \/ OpenSocket \/ InstallHandlers \/ \E svc \in Params : LoadService(svc)
    BY <2>5 DEF LateInv, LoadEnds, OpenSocket, InstallHandlers, LoadService
  <2>6. CASE Lookup \/ Build \/ Reply
    BY <2>6 DEF LateInv, Lookup, Build, Reply
  <2>7. CASE CloseSocket \/ CleanupAndExit
    BY <2>7 DEF LateInv, CloseSocket, CleanupAndExit
  <2>8. CASE UNCHANGED vars \/ \E d \in Datagrams : Arrive(d)
    BY <2>8 DEF LateInv, vars, Arrive
  <2> QED
    BY <2>1, <2>2, <2>3, <2>4, <2>5, <2>6, <2>7, <2>8 DEF Next, Main, Stopped
<1> QED
  BY <1>1, <1>2, PTL DEF Spec

(* A stop request is honoured after the datagram at hand at the latest,    *)
(* wherever in the loop the signal comes.                                  *)
THEOREM StopsInTime == Spec => []AtMostOneLate
<1>1. LateInv => AtMostOneLate
  BY DEF LateInv, AtMostOneLate
<1> QED
  BY <1>1, LateInvariance, PTL

(* What is released on the way out stays released. *)
ReleaseInv ==
    /\ pc \in {"cleanup", "exited"} => ~ sock /\ rxq = << >>
    /\ pc = "exited" => services = << >>

(* The way out through the end of main frees each block of the registry and  *)
(* the socket.                                                             *)
(* That no block is left follows from the registry's own invariant: one    *)
(* that belongs to no service of the list is free.                         *)
THEOREM ExitReleases == Spec => []ExitReleasesAll
<1>1. Init => ReleaseInv
  BY DEF Init, ReleaseInv
<1>2. ReleaseInv /\ [Next]_vars => ReleaseInv'
  <2> SUFFICES ASSUME ReleaseInv, [Next]_vars PROVE ReleaseInv'
    OBVIOUS
  <2>1. CASE \E svc \in Params : LoadService(svc)
    BY <2>1 DEF ReleaseInv, LoadService
  <2>2. CASE CloseSocket
    BY <2>2 DEF ReleaseInv, CloseSocket
  <2>3. CASE CleanupAndExit
    BY <2>3 DEF ReleaseInv, CleanupAndExit, kernel, H!Cleanup
  <2>4. CASE \E s \in Signals : Signal(s)
    BY <2>4 DEF ReleaseInv, Signal, Alive, registry
  <2>5. CASE \E d \in Datagrams : Arrive(d)
    BY <2>5 DEF ReleaseInv, Arrive, registry
  <2>6. CASE LoadEnds \/ OpenSocket \/ InstallHandlers \/ CheckRunning
    BY <2>6 DEF ReleaseInv, LoadEnds, OpenSocket, InstallHandlers, CheckRunning
  <2>7. CASE SelectReturns \/ SelectFails \/ Receive \/ Lookup \/ Build \/ Reply
    BY <2>7 DEF ReleaseInv, SelectReturns, SelectFails, Receive, Lookup, Build, Reply
  <2>8. CASE UNCHANGED vars
    BY <2>8 DEF ReleaseInv, vars, registry, kernel
  <2> QED
    BY <2>1, <2>2, <2>3, <2>4, <2>5, <2>6, <2>7, <2>8 DEF Next, Main, Stopped
<1>3. ReleaseInv /\ P!IInv => ExitReleasesAll
  BY DEF ReleaseInv, ExitReleasesAll, P!IInv, P!HeapExact
<1> QED
  BY <1>1, <1>2, <1>3, RegistrySound, PTL DEF Spec

-----------------------------------------------------------------------------
(* The services the server answers for. *)

(* The lengths of their TXT strings are known, and their types are texts. *)
IsBuildable(svc) ==
    svc.txt_kv \in Seq(DOMAIN TxtOctets) \cup {NULL} /\ IsText(svc.service_type)
TxtInv == \A k \in 1 .. Len(services) : IsBuildable(services[k])

(* Every registered service is one the builder can encode. *)
LEMMA TxtInvariance == Spec => []TxtInv
<1>1. Init => TxtInv
  BY DEF Init, H!Init, TxtInv
<1>2. P!IInv /\ TxtInv /\ [Next]_vars => TxtInv'
  <2> SUFFICES ASSUME P!IInv, TxtInv, [Next]_vars PROVE TxtInv'
    OBVIOUS
  <2>1. services \in Seq(P!Service) /\ Len(services) \in Nat
    BY LenProperties DEF P!IInv, P!TypeOK
  <2>2. CASE \E svc \in Params : LoadService(svc)
    <3>1. PICK svc \in Params : LoadService(svc)
      BY <2>2
    <3>2. CASE H!Register(svc)
      <4>1. PICK a \in Addr : services' = Append(services, H!NewService(a, svc))
        BY <3>2 DEF H!Register
      <4>2. IsBuildable(H!NewService(a, svc))
        BY RegistryAssumption DEF H!NewService, H!CopiedTxt, IsBuildable
      <4> DEFINE new == H!NewService(a, svc)
      <4> HIDE DEF new
      <4>3. /\ Len(services') = Len(services) + 1
            /\ services'[Len(services) + 1] = new
            /\ \A k \in 1 .. Len(services) : services'[k] = services[k]
        BY <2>1, <4>1 DEF new
      <4>4. ASSUME NEW k \in 1 .. Len(services')
            PROVE  IsBuildable(services'[k])
        <5>1. CASE k = Len(services) + 1
          BY <5>1, <4>2, <4>3 DEF new
        <5>2. CASE k # Len(services) + 1
          <6>1. k \in 1 .. Len(services)
            BY <5>2, <4>3, <2>1
          <6> QED
            BY <6>1, <4>3 DEF TxtInv
        <5> QED
          BY <5>1, <5>2
      <4> QED
        BY <4>4 DEF TxtInv, IsBuildable
    <3>3. CASE H!RegisterOutOfMemory(svc)
      BY <3>3 DEF H!RegisterOutOfMemory, TxtInv
    <3> QED
      BY <3>1, <3>2, <3>3 DEF LoadService
  <2>3. CASE CleanupAndExit
    BY <2>3 DEF CleanupAndExit, H!Cleanup, TxtInv
  <2>4. CASE UNCHANGED services
    BY <2>4 DEF TxtInv
  <2> QED
    BY <2>2, <2>3, <2>4 DEF Next, Main, vars, registry, LoadEnds, OpenSocket, InstallHandlers,
          CheckRunning, SelectReturns, SelectFails, Receive, Lookup, Build, Reply, CloseSocket,
          Arrive, Signal, Stopped
<1> QED
  BY <1>1, <1>2, RegistrySound, PTL DEF Spec

(* What a registered service is to the lookups and to the builders. *)
LEMMA ServiceFacts ==
    ASSUME P!IInv, TxtInv
    PROVE  /\ services \in Seq(H!Service)
           /\ Len(services) \in Nat /\ DOMAIN services = 1 .. Len(services)
           /\ \A k \in 1 .. Len(services) : /\ services[k] \in H!Service
                                            /\ Findable(services[k])
                                            /\ IsDescribed(services[k])
                                            /\ IsRegistered(services[k])
<1>1. H!Service = P!Service /\ H!String = String
  BY DEF H!Service, P!Service, H!String, P!String, String
<1>2. services \in Seq(H!Service)
  BY <1>1 DEF P!IInv, P!TypeOK
<1>3. Len(services) \in Nat /\ DOMAIN services = 1 .. Len(services)
  BY <1>2, LenProperties
<1>4. ASSUME NEW k \in 1 .. Len(services)
      PROVE  /\ services[k] \in H!Service
             /\ Findable(services[k]) /\ IsDescribed(services[k]) /\ IsRegistered(services[k])
  <2>1. services[k] \in H!Service
    BY <1>2, ElementOfSeq
  <2>2. StrCaseEq(services[k].domain, Local)
    BY <1>3 DEF P!IInv, P!StoredServicesAreValid, P!validate_service, P!StrCaseEq, P!Folded,
                StrCaseEq, Folded
  <2>3. /\ services[k].instance \in String /\ services[k].service_type \in String
        /\ services[k].domain \in String /\ services[k].target_host \in String
    BY <1>1, <2>1 DEF H!Service
  <2>4. /\ services[k].txt_kv \in Seq(DOMAIN TxtOctets) \cup {NULL}
        /\ IsText(services[k].service_type)
    BY DEF TxtInv, IsBuildable
  <2> QED
    BY <2>1, <2>2, <2>3, <2>4 DEF Findable, IsDescribed, IsRegistered
<1> QED
  BY <1>2, <1>3, <1>4

-----------------------------------------------------------------------------
(* The two builders. *)

(* A question holds labels of any bytes, and is read as a string.  What is *)
(* repeated of it is the question itself when no label has a dot or NUL.   *)
LEMMA DatagramFacts ==
    ASSUME NEW d \in Datagrams
    PROVE  /\ d.labels \in Seq(WireLabel) /\ QName(d) \in String
           /\ DotFree(d.labels) => Repeated(d) = Bare(d.labels)
<1>1. d.labels \in Seq(WireLabel)
  BY ResponderAssumption DEF Datagram
<1> QED
  BY <1>1, QNameIsString, BareQuestion

(* A reply about services is sent back to who asked, has a record, and all *)
(* its records are of services it was built from.                          *)
LEMMA ServiceReplyFacts ==
    ASSUME NEW d \in Datagrams, NEW svcs \in Seq(H!Service),
           \A k \in 1 .. Len(svcs) : IsDescribed(svcs[k]),
           NEW r, r = ServiceReply(d, svcs), r # NULL
    PROVE  /\ r \in Responses /\ r.to = d.from /\ r.question = d /\ r.answers # << >>
           /\ \A n \in DOMAIN r.answers : \E k \in 1 .. Len(svcs) : Subject(r, n) = svcs[k]
<1> DEFINE answers == Answered(QName(d), svcs, OUT_LEN)
<1>1. r = Message(d, svcs, answers) /\ answers # << >>
  BY DEF ServiceReply, ServiceAnswers
<1>2. answers \in Seq((1 .. Len(svcs)) \X {"SRV", "TXT"})
  <2>1. QName(d) \in String /\ Len(svcs) \in Nat /\ OUT_LEN \in Nat
    BY DatagramFacts, LenProperties, QuestionsAssumption
  <2> QED
    BY <2>1, AnsweredType
<1> HIDE DEF answers
<1>3. answers \in Seq(Nat \X {"SRV", "TXT"})
  <2>1. (1 .. Len(svcs)) \X {"SRV", "TXT"} \subseteq Nat \X {"SRV", "TXT"}
    BY LenProperties
  <2> QED
    BY <1>2, <2>1, SeqMonotonic
<1>4. r \in Responses
  BY <1>1, <1>3 DEF Message, Responses
<1>5. ASSUME NEW n \in DOMAIN r.answers
      PROVE  \E k \in 1 .. Len(svcs) : Subject(r, n) = svcs[k]
  <2>1. r.answers = answers /\ r.about = svcs
    BY <1>1 DEF Message
  <2>2. answers[n] \in (1 .. Len(svcs)) \X {"SRV", "TXT"}
    BY <1>2, <2>1, ElementOfSeq, LenProperties
  <2>3. answers[n][1] \in 1 .. Len(svcs)
    BY <2>2
  <2> QED
    BY <2>1, <2>3 DEF Subject
<1> QED
  BY <1>1, <1>4, <1>5 DEF Message

(* An address is sent back to who asked, and there is nothing else in it. *)
LEMMA AddressReplyFacts ==
    ASSUME NEW d \in Datagrams, NEW r, r = AddressReply(d), r # NULL
    PROVE  r \in Responses /\ r.to = d.from /\ r.question = d /\ r.answers = << >>
<1>1. r = Message(d, << >>, << >>)
  BY DEF AddressReply
<1>2. << >> \in Seq(Nat \X {"SRV", "TXT"}) /\ << >> \in Seq(H!Service)
  BY EmptySeq
<1> QED
  BY <1>1, <1>2 DEF Message, Responses

-----------------------------------------------------------------------------
(* What the server sends. *)

(* The services of the list that have the type or the name that is asked for. *)
Right(d) == AskedFor(services, QName(d))

(* What RepliesSound says of one reply. *)
SoundReply(r) ==
    /\ r \in Responses
    /\ r.to = r.question.from
    /\ DotFree(r.question.labels) => Repeated(r.question) = Bare(r.question.labels)
    /\ r.answers = << >> => /\ r.question.qtype \in {"A", "AAAA"}
                           /\ SameLabels(Repeated(r.question), hostname)
    /\ \A n \in DOMAIN r.answers :
          /\ r.question.qtype = "SRV"
          /\ \/ IsOfType(Subject(r, n), Repeated(r.question))
             \/ SameLabels(Repeated(r.question), Fqdn(Subject(r, n)))
          /\ pc # "exited" => \E k \in DOMAIN services : services[k] = Subject(r, n)

(* Where main is tells what it has at hand: a datagram was accepted before *)
(* its reply is built, and what the lookup found is still registered and   *)
(* still what was asked for.                                               *)
AnswerInv ==
    /\ hostname \in String
    /\ rxq \in Seq(Datagrams) /\ Len(rxq) <= RX_QUEUE
    /\ pc = "recv" => rxq # << >>
    /\ in \in Datagrams \cup {NULL}
    /\ pc \in {"lookup", "build"} => in \in Datagrams
    /\ pc = "build" => Accepted(in, hostname) /\ found \in Seq(Right(in))
    /\ found \in Seq(H!Service)
    /\ reply # NULL => SoundReply(reply)
    /\ \A r \in outbox : SoundReply(r)
    /\ pc = "config" => found = << >> /\ reply = NULL /\ outbox = {}

(* A reply stays sound while the registry and the host's name stay as *)
(* they are. *)
LEMMA SoundReplyKept ==
    ASSUME NEW r, SoundReply(r), UNCHANGED <<services, hostname>>,
           pc' # "exited" => pc # "exited"
    PROVE  SoundReply(r)'
<1>1. \A n : Subject(r, n)' = Subject(r, n)
  BY DEF Subject
<1> QED
  BY <1>1 DEF SoundReply

(* A step that leaves the registry and what is at hand alone. *)
LEMMA AtHandKept ==
    ASSUME AnswerInv, UNCHANGED <<services, hostname, in, found, reply, outbox>>,
           rxq' \in Seq(Datagrams), Len(rxq') <= RX_QUEUE, pc' = "recv" => rxq' # << >>,
           pc' \in {"lookup", "build", "config"} => pc' = pc,
           pc' # "exited" => pc # "exited"
    PROVE  AnswerInv'
<1>1. /\ reply' # NULL => SoundReply(reply)'
      /\ \A r \in outbox' : SoundReply(r)'
  BY SoundReplyKept DEF AnswerInv
<1>2. Right(in)' = Right(in)
  BY DEF Right
<1>3. (pc = "build" => Accepted(in, hostname) /\ found \in Seq(Right(in)))'
  BY <1>2 DEF AnswerInv
<1> QED
  BY <1>1, <1>3 DEF AnswerInv

(* The invariant of answers holds before the configuration is loaded. *)
LEMMA AnswerInit == Init => AnswerInv
<1> SUFFICES ASSUME Init PROVE AnswerInv
  OBVIOUS
<1>1. hostname \in String
  BY TextToWireOfStripped, ResponderAssumption DEF Init
<1>2. << >> \in Seq(Datagrams) /\ Len(<< >>) <= RX_QUEUE /\ << >> \in Seq(H!Service)
  <2>1. << >> \in Seq(Datagrams) /\ << >> \in Seq(H!Service)
    BY EmptySeq
  <2>2. Len(<< >>) = 0 /\ RX_QUEUE \in Nat
    BY ResponderAssumption
  <2> QED
    BY <2>1, <2>2
<1> QED
  BY <1>1, <1>2 DEF Init, AnswerInv

(* Loading a service keeps it: nothing is being answered yet. *)
LEMMA LoadServiceAnswers ==
    ASSUME AnswerInv, NEW svc \in Params, LoadService(svc)
    PROVE  AnswerInv'
BY DEF AnswerInv, LoadService, kernel

(* recvfrom keeps it, and what it looks up is what the registry holds. *)
LEMMA ReceiveAnswers ==
    ASSUME AnswerInv, Receive
    PROVE  AnswerInv'
<1>1. /\ rxq \in Seq(Datagrams) /\ rxq # << >> /\ Len(rxq) <= RX_QUEUE /\ RX_QUEUE \in Nat
      /\ UNCHANGED <<services, hostname, found, reply>> /\ outbox' = {} /\ pc = "recv"
      /\ pc' \in {"lookup", "check"}
  BY ResponderAssumption DEF AnswerInv, Receive, registry
<1>2. /\ Head(rxq) \in Datagrams /\ Tail(rxq) \in Seq(Datagrams)
      /\ Len(Tail(rxq)) = Len(rxq) - 1 /\ Len(rxq) \in Nat
  BY <1>1, HeadTailProperties, LenProperties
<1>3. rxq' \in Seq(Datagrams) /\ Len(rxq') <= RX_QUEUE
  BY <1>1, <1>2 DEF Receive
<1>4. /\ in' \in Datagrams \cup {NULL}
      /\ pc' = "lookup" => in' \in Datagrams
  BY <1>2 DEF Receive, AnswerInv
<1>5. /\ reply' # NULL => SoundReply(reply)'
      /\ outbox' = {}
  BY <1>1, SoundReplyKept DEF AnswerInv
<1> QED
  BY <1>1, <1>2, <1>3, <1>4, <1>5 DEF AnswerInv

(* Only services that are asked for are found, and only host questions     *)
(* go on without one.                                                      *)
LEMMA LookupAnswers ==
    ASSUME P!IInv, TxtInv, AnswerInv, Lookup
    PROVE  AnswerInv'
<1>1. /\ UNCHANGED <<services, hostname, rxq, in, reply, outbox>> /\ pc = "lookup"
      /\ in \in Datagrams /\ pc' \in {"build", "reply"}
  BY DEF AnswerInv, Lookup, registry, kernel
<1>2. /\ reply' # NULL => SoundReply(reply)'
      /\ \A r \in outbox' : SoundReply(r)'
  BY <1>1, SoundReplyKept DEF AnswerInv
<1>3. CASE Accepted(in, hostname) /\ pc' = "build"
           /\ found' = IF in.qtype = "SRV" THEN Found(services, QName(in)) ELSE << >>
  <2>1. Accepted(in, hostname)' /\ Right(in)' = Right(in)
    BY <1>1, <1>3 DEF Right
  <2>2. Found(services, QName(in)) \in Seq(Right(in))
    BY <1>1, ServiceFacts, DatagramFacts, FoundIsSound DEF Right
  <2>3. << >> \in Seq(Right(in))
    BY EmptySeq
  <2>4. found' \in Seq(Right(in))
    BY <1>3, <2>2, <2>3
  <2>5. Right(in) \subseteq H!Service
    BY ServiceFacts DEF Right, AskedFor
  <2>6. found' \in Seq(H!Service)
    BY <2>4, <2>5, SeqMonotonic
  <2> QED
    BY <1>1, <1>2, <1>3, <2>1, <2>4, <2>6 DEF AnswerInv
<1>4. CASE pc' = "reply" /\ UNCHANGED found
  BY <1>1, <1>2, <1>4 DEF AnswerInv
<1> QED
  BY <1>3, <1>4 DEF Lookup

(* Building keeps it: what was looked up is what the reply holds. *)
LEMMA BuildAnswers ==
    ASSUME P!IInv, TxtInv, AnswerInv, Build
    PROVE  AnswerInv'
<1>1. /\ UNCHANGED <<services, hostname, rxq, in, found, outbox>> /\ pc = "build"
      /\ in \in Datagrams /\ pc' = "reply"
      /\ Accepted(in, hostname) /\ found \in Seq(Right(in)) /\ found \in Seq(H!Service)
  BY DEF AnswerInv, Build, registry, kernel
<1>2. \A r \in outbox' : SoundReply(r)'
  BY <1>1, SoundReplyKept DEF AnswerInv
<1>3. ASSUME reply' # NULL PROVE SoundReply(reply')
  <2>1. CASE in.qtype = "SRV"
    <3>1. reply' = ServiceReply(in, found)
      BY <2>1 DEF Build
    <3>2. \A k \in 1 .. Len(found) : found[k] \in Right(in)
      BY <1>1, ElementOfSeq
    <3>3. \A k \in 1 .. Len(found) : IsDescribed(found[k])
      BY <3>2, ServiceFacts DEF Right, AskedFor
    <3>4. /\ reply' \in Responses /\ reply'.to = in.from /\ reply'.question = in
          /\ reply'.answers # << >>
          /\ \A n \in DOMAIN reply'.answers :
                \E k \in 1 .. Len(found) : Subject(reply', n) = found[k]
      BY <1>1, <1>3, <3>1, <3>3, ServiceReplyFacts
    <3>5. ASSUME NEW n \in DOMAIN reply'.answers
          PROVE  /\ \/ IsOfType(Subject(reply', n), Repeated(in))
                    \/ SameLabels(Repeated(in), Fqdn(Subject(reply', n)))
                 /\ \E k \in DOMAIN services : services[k] = Subject(reply', n)
      <4>1. Subject(reply', n) \in Right(in)
        BY <3>2, <3>4
      <4>2. PICK j \in 1 .. Len(services) : /\ IsAskedFor(services[j], QName(in))
                                            /\ Subject(reply', n) = services[j]
        BY <4>1 DEF Right, AskedFor
      <4>3. j \in DOMAIN services
        BY ServiceFacts
      <4> QED
        BY <4>2, <4>3 DEF IsAskedFor, Repeated
    <3> QED
      BY <1>1, <2>1, <3>4, <3>5, DatagramFacts DEF SoundReply
  <2>2. CASE in.qtype # "SRV"
    <3>1. reply' = AddressReply(in)
      BY <2>2 DEF Build
    <3>2. /\ reply' \in Responses /\ reply'.to = in.from /\ reply'.question = in
          /\ reply'.answers = << >>
      BY <1>1, <1>3, <3>1, AddressReplyFacts
    <3>3. in.qtype \in {"A", "AAAA"} /\ hostdb_lookup(QName(in), hostname)
      BY <1>1, <2>2 DEF Accepted, is_supported_query_type
    <3>4. SameLabels(Repeated(in), hostname)
      BY <1>1, <3>3, DatagramFacts, LookupIsDnsName DEF Repeated, AnswerInv
    <3>5. DOMAIN << >> = {}
      OBVIOUS
    <3> QED
      BY <1>1, <3>2, <3>3, <3>4, <3>5, DatagramFacts DEF SoundReply
  <2> QED
    BY <2>1, <2>2
<1>4. ASSUME reply' # NULL PROVE SoundReply(reply)'
  <2> DEFINE r == reply'
  <2>1. SoundReply(r)
    BY <1>3, <1>4
  <2> HIDE DEF r
  <2>2. \A n : Subject(r, n) = r.about[r.answers[n][1]]
    BY DEF Subject
  <2> QED
    BY <2>1, <2>2, <1>1 DEF SoundReply, Subject, r
<1> QED
  BY <1>1, <1>2, <1>4 DEF AnswerInv

(* sendto keeps it. *)
LEMMA ReplyAnswers ==
    ASSUME AnswerInv, Reply
    PROVE  AnswerInv'
<1>1. /\ UNCHANGED <<services, hostname, rxq>> /\ pc = "reply" /\ pc' = "check"
      /\ in' = NULL /\ found' = << >> /\ reply' = NULL
  BY DEF Reply, registry, kernel
<1>2. \A r \in outbox' : SoundReply(r)
  <2>1. CASE reply # NULL /\ outbox' = {reply}
    BY <2>1 DEF AnswerInv
  <2>2. CASE UNCHANGED outbox
    BY <2>2 DEF AnswerInv
  <2> QED
    BY <2>1, <2>2 DEF Reply
<1>3. \A r \in outbox' : SoundReply(r)'
  BY <1>1, <1>2, SoundReplyKept
<1>4. << >> \in Seq(H!Service)
  BY EmptySeq
<1> QED
  BY <1>1, <1>3, <1>4 DEF AnswerInv

(* A datagram that arrives keeps it. *)
LEMMA ArriveAnswers ==
    ASSUME AnswerInv, NEW d \in Datagrams, Arrive(d)
    PROVE  AnswerInv'
<1>1. rxq \in Seq(Datagrams) /\ Len(rxq) \in Nat /\ Len(rxq) <= RX_QUEUE /\ RX_QUEUE \in Nat
  BY ResponderAssumption, LenProperties DEF AnswerInv
<1>2. /\ Append(rxq, d) \in Seq(Datagrams) /\ Len(Append(rxq, d)) = Len(rxq) + 1
      /\ Append(rxq, d) # << >>
  BY <1>1, AppendProperties
<1>3. rxq' = IF Len(rxq) < RX_QUEUE THEN Append(rxq, d) ELSE rxq
  BY DEF Arrive
<1>4. rxq' \in Seq(Datagrams) /\ Len(rxq') <= RX_QUEUE /\ (pc = "recv" => rxq' # << >>)
  BY <1>1, <1>2, <1>3 DEF AnswerInv
<1>5. UNCHANGED <<services, pc, hostname, in, found, reply, outbox>>
  BY DEF Arrive, registry
<1> QED
  BY <1>4, <1>5, AtHandKept

(* Cleaning up on exit keeps it. *)
LEMMA CleanupAnswers ==
    ASSUME AnswerInv, CleanupAndExit
    PROVE  AnswerInv'
<1>1. /\ UNCHANGED <<hostname, rxq, in, found, reply, outbox>> /\ pc' = "exited"
  BY DEF CleanupAndExit, kernel
<1>2. \A r : SoundReply(r) => SoundReply(r)'
  BY <1>1 DEF SoundReply, Subject
<1>3. /\ reply' # NULL => SoundReply(reply)'
      /\ \A r \in outbox' : SoundReply(r)'
  BY <1>1, <1>2 DEF AnswerInv
<1> QED
  BY <1>1, <1>3 DEF AnswerInv

(* Every step keeps it. *)
LEMMA AnswerStep == P!IInv /\ TxtInv /\ AnswerInv /\ [Next]_vars => AnswerInv'
<1> SUFFICES ASSUME P!IInv, TxtInv, AnswerInv, [Next]_vars PROVE AnswerInv'
  OBVIOUS
<1>1. CASE \E svc \in Params : LoadService(svc)
  BY <1>1, LoadServiceAnswers
<1>2. CASE Receive
  BY <1>2, ReceiveAnswers
<1>3. CASE Lookup
  BY <1>3, LookupAnswers
<1>4. CASE Build
  BY <1>4, BuildAnswers
<1>5. CASE Reply
  BY <1>5, ReplyAnswers
<1>6. CASE CleanupAndExit
  BY <1>6, CleanupAnswers
<1>7. CASE \E d \in Datagrams : Arrive(d)
  BY <1>7, ArriveAnswers
<1>8. CASE LoadEnds \/ OpenSocket \/ InstallHandlers \/ CheckRunning \/ SelectReturns \/ SelectFails
  <2>1. UNCHANGED <<services, hostname, in, found, reply, outbox, rxq>>
    BY <1>8 DEF LoadEnds, OpenSocket, InstallHandlers, CheckRunning, SelectReturns, SelectFails,
                registry, kernel
  <2>2. /\ pc' = "recv" => rxq # << >>
        /\ pc' \notin {"lookup", "build", "config"} /\ pc # "exited"
    BY <1>8 DEF LoadEnds, OpenSocket, InstallHandlers, CheckRunning, SelectReturns, SelectFails
  <2> QED
    BY <2>1, <2>2, AtHandKept DEF AnswerInv
<1>9. CASE CloseSocket
  <2>1. << >> \in Seq(Datagrams) /\ Len(<< >>) = 0 /\ RX_QUEUE \in Nat
    BY EmptySeq, ResponderAssumption
  <2>2. /\ UNCHANGED <<services, hostname, in, found, reply, outbox>> /\ rxq' = << >>
        /\ pc' = "cleanup" /\ pc = "close"
    BY <1>9 DEF CloseSocket, registry
  <2>3. rxq' \in Seq(Datagrams) /\ Len(rxq') <= RX_QUEUE
    BY <2>1, <2>2
  <2> QED
    BY <2>2, <2>3, AtHandKept
<1>10. CASE \E s \in Signals : Signal(s)
  <2>1. UNCHANGED <<services, hostname, in, found, reply, outbox, rxq>>
    BY <1>10 DEF Signal, registry
  <2>2. pc' \in {pc, "check", "killed"} /\ pc # "exited"
    BY <1>10 DEF Signal, Alive
  <2> QED
    BY <2>1, <2>2, AtHandKept DEF AnswerInv
<1>11. CASE UNCHANGED vars
  <2>1. UNCHANGED <<services, hostname, in, found, reply, outbox, rxq, pc>>
    BY <1>11 DEF vars, registry, kernel
  <2> QED
    BY <2>1, AtHandKept DEF AnswerInv
<1> QED
  BY <1>1, <1>2, <1>3, <1>4, <1>5, <1>6, <1>7, <1>8, <1>9, <1>10, <1>11 DEF Next, Main, Stopped

(* It holds in every state. *)
LEMMA AnswerInvariance == Spec => []AnswerInv
<1>1. Init => AnswerInv
  BY AnswerInit
<1>2. P!IInv /\ TxtInv /\ AnswerInv /\ [Next]_vars => AnswerInv'
  BY AnswerStep
<1> QED
  BY <1>1, <1>2, RegistrySound, TxtInvariance, PTL DEF Spec

(* What is sent answers the question it repeats, which is the one received *)
(* when no label of it holds a dot or NUL: it goes to the sender, an       *)
(* address is given for this host's name only, and every record is of a    *)
(* service that is registered and has the type or the whole name asked     *)
(* for, whatever the names, their letter case and the bytes of the labels. *)
THEOREM AnswersSound == Spec => []RepliesSound
<1>1. AnswerInv => RepliesSound
  BY DEF AnswerInv, SoundReply, RepliesSound
<1> QED
  BY <1>1, AnswerInvariance, PTL

-----------------------------------------------------------------------------
(* Nothing is left out. *)

(* What is due for a datagram. *)
Due(d) ==
    IF d.qtype = "SRV" THEN ServiceReply(d, Found(services, QName(d))) ELSE AddressReply(d)

(* A datagram that was accepted is still the one at hand when its reply is *)
(* built and sent, and the registry is still the one that was searched.    *)
DueInv ==
    /\ pc \in {"lookup", "build", "reply"} => in \in Datagrams
    /\ pc = "build" /\ in.qtype = "SRV" => found = Found(services, QName(in))
    /\ pc = "reply" /\ Accepted(in, hostname) => reply = Due(in)

(* The reply that is about to be sent is the one the question was due. *)
LEMMA DueInvariance == Spec => []DueInv
<1>1. Init => DueInv
  BY DEF Init, DueInv
<1>2. AnswerInv /\ DueInv /\ [Next]_vars => DueInv'
  <2> SUFFICES ASSUME AnswerInv, DueInv, [Next]_vars PROVE DueInv'
    OBVIOUS
  <2> DEFINE Free == {"lookup", "build", "reply"}
  <2>1. CASE Lookup
    <3>1. UNCHANGED <<services, hostname, in>> /\ in \in Datagrams
      BY <2>1 DEF Lookup, DueInv, registry
    <3> QED
      BY <2>1, <3>1 DEF Lookup, DueInv
  <2>2. CASE Build
    <3>1. UNCHANGED <<services, hostname, in>> /\ in \in Datagrams /\ pc = "build"
      BY <2>2 DEF Build, DueInv, registry
    <3>2. in.qtype = "SRV" => found = Found(services, QName(in))
      BY <3>1 DEF DueInv
    <3>3. reply' = Due(in)
      BY <2>2, <3>2 DEF Build, Due
    <3>4. Due(in)' = Due(in)
      BY <3>1 DEF Due
    <3> QED
      BY <2>2, <3>1, <3>3, <3>4 DEF Build, DueInv
  <2>3. CASE Receive
    <3>1. pc' \in {"lookup", "check"} /\ (pc' = "lookup" => in' = Head(rxq)) /\ pc = "recv"
      BY <2>3 DEF Receive
    <3>2. Head(rxq) \in Datagrams
      BY <3>1, HeadTailProperties DEF AnswerInv
    <3> QED
      BY <3>1, <3>2 DEF DueInv
  <2>4. CASE LoadEnds \/ OpenSocket \/ InstallHandlers \/ CheckRunning \/ SelectReturns
             \/ SelectFails \/ Reply \/ CloseSocket \/ CleanupAndExit
    <3>1. pc' \notin Free
      BY <2>4 DEF LoadEnds, OpenSocket, InstallHandlers, CheckRunning, SelectReturns,
                  SelectFails, Reply, CloseSocket, CleanupAndExit
    <3> QED
      BY <3>1 DEF DueInv
  <2>5. CASE \E svc \in Params : LoadService(svc)
    <3>1. pc' \notin Free
      BY <2>5 DEF LoadService
    <3> QED
      BY <3>1 DEF DueInv
  <2>6. CASE \/ UNCHANGED vars \/ (\E d \in Datagrams : Arrive(d)) \/ (\E s \in Signals : Signal(s))
    <3>1. UNCHANGED <<services, hostname, in, found, reply>>
      BY <2>6 DEF vars, registry, kernel, Arrive, Signal
    <3>2. pc' = pc \/ pc' \notin Free
      BY <2>6 DEF vars, Arrive, Signal
    <3>3. Due(in)' = Due(in)
      BY <3>1 DEF Due
    <3> QED
      BY <3>1, <3>2, <3>3 DEF DueInv
  <2> QED
    BY <2>1, <2>2, <2>3, <2>4, <2>5, <2>6 DEF Next, Main, Stopped
<1> QED
  BY <1>1, <1>2, AnswerInvariance, PTL DEF Spec

(* A message is no null pointer. *)
LEMMA MessageFacts ==
    ASSUME NEW d \in Datagrams, NEW svcs \in Seq(H!Service),
           NEW answers \in Seq(Nat \X {"SRV", "TXT"})
    PROVE  Message(d, svcs, answers) # NULL
<1>1. Message(d, svcs, answers) \in Responses
  BY DEF Message, Responses
<1> QED
  BY <1>1, RegistryAssumption

(* A question that can be answered in full is: one for a type gets an SRV  *)
(* and a TXT record of every registered service of that type, and one for  *)
(* the host's name gets the address, whatever the letter case.             *)
THEOREM NothingLeftOut == Spec => []AnswersComplete
<1>1. P!IInv /\ TxtInv /\ AnswerInv /\ DueInv => AnswersComplete
  <2> SUFFICES ASSUME P!IInv, TxtInv, AnswerInv, DueInv,
                      pc = "reply", Answerable(in, services, hostname)
               PROVE  /\ reply # NULL
                      /\ in.qtype = "SRV" =>
                            \A n \in DOMAIN Wanted(services, in), rr \in {"SRV", "TXT"} :
                                \E k \in DOMAIN reply.answers :
                                    /\ Subject(reply, k) = Wanted(services, in)[n]
                                    /\ reply.answers[k][2] = rr
    BY DEF AnswersComplete
  <2> DEFINE W == Wanted(services, in)
             answers == ServiceAnswers(in, W)
  <2>1. in \in Datagrams /\ hostname \in String
    BY DEF DueInv, AnswerInv
  <2>2. /\ Accepted(in, hostname)
        /\ in.qtype = "SRV" =>
              /\ Found(services, QName(in)) = W
              /\ DOMAIN W = 1 .. Len(W) /\ Len(W) \in Nat \ {0}
              /\ \A n \in DOMAIN W : HoldsBoth(answers, n)
        /\ in.qtype # "SRV" => in.qtype \in {"A", "AAAA"} /\ AddressFits(in)
    BY <2>1, ServiceFacts, DatagramFacts, AnswerableIsAnswered
  <2>3. reply = Due(in)
    BY <2>2 DEF DueInv
  <2>4. CASE in.qtype # "SRV"
    <3>1. reply = Message(in, << >>, << >>)
      BY <2>2, <2>3, <2>4 DEF Due, AddressReply
    <3>2. << >> \in Seq(Nat \X {"SRV", "TXT"}) /\ << >> \in Seq(H!Service)
      BY EmptySeq
    <3> QED
      BY <2>1, <2>4, <3>1, <3>2, MessageFacts
  <2>5. CASE in.qtype = "SRV"
    <3>1. W \in Seq(H!Service)
      <4>1. W = Found(services, QName(in))
        BY <2>2, <2>5
      <4>2. Found(services, QName(in)) \in Seq(Right(in))
        BY <2>1, ServiceFacts, DatagramFacts, FoundIsSound DEF Right
      <4>3. Right(in) \subseteq H!Service
        BY ServiceFacts DEF Right, AskedFor
      <4> QED
        BY <4>1, <4>2, <4>3, SeqMonotonic
    <3>2. answers \in Seq((1 .. Len(W)) \X {"SRV", "TXT"})
      <4>1. W \in Seq(Right(in))
        BY <2>1, <2>2, <2>5, ServiceFacts, DatagramFacts, FoundIsSound, ZenonT(60) DEF Right
      <4>2. \A k \in 1 .. Len(W) : IsDescribed(W[k])
        BY <4>1, ElementOfSeq, ServiceFacts DEF Right, AskedFor
      <4>3. QName(in) \in String /\ Len(W) \in Nat /\ OUT_LEN \in Nat
        BY <2>1, <2>2, <2>5, DatagramFacts, QuestionsAssumption
      <4> HIDE DEF W
      <4>4. Answered(QName(in), W, OUT_LEN) \in Seq((1 .. Len(W)) \X {"SRV", "TXT"})
        BY <4>2, <4>3, AnsweredType
      <4> QED
        BY <4>4 DEF ServiceAnswers
    <3>3. answers \in Seq(Nat \X {"SRV", "TXT"})
      <4>1. (1 .. Len(W)) \X {"SRV", "TXT"} \subseteq Nat \X {"SRV", "TXT"}
        OBVIOUS
      <4> HIDE DEF answers, W
      <4> QED
        BY <3>2, <4>1, SeqMonotonic
    <3>4. DOMAIN answers = 1 .. Len(answers)
      BY <3>3, LenProperties
    <3>5. answers # << >>
      <4>1. 1 \in DOMAIN W
        BY <2>2, <2>5
      <4>2. \E i \in 1 .. Len(answers) : TRUE
        BY <2>2, <2>5, <4>1 DEF HoldsBoth
      <4>3. Len(<< >>) = 0
        OBVIOUS
      <4> HIDE DEF answers
      <4> QED
        BY <4>2, <4>3
    <3>6. reply = Message(in, W, answers)
      BY <2>2, <2>3, <2>5, <3>5 DEF Due, ServiceReply
    <3>7. reply # NULL
      BY <2>1, <3>1, <3>3, <3>6, MessageFacts
    <3>8. reply.about = W /\ reply.answers = answers
      BY <3>6 DEF Message
    <3> HIDE DEF answers, W
    <3>9. ASSUME NEW n \in DOMAIN W, NEW rr \in {"SRV", "TXT"}
          PROVE  \E k \in DOMAIN answers : /\ Subject(reply, k) = W[n]
                                           /\ reply.answers[k][2] = rr
      <4>1. PICK k \in 1 .. Len(answers) : answers[k] = <<n, rr>>
        BY <2>2, <2>5 DEF HoldsBoth
      <4>2. answers[k][1] = n /\ answers[k][2] = rr
        BY <4>1
      <4> QED
        BY <3>4, <3>8, <4>1, <4>2 DEF Subject
    <3> QED
      BY <3>7, <3>8, <3>9 DEF W
  <2> QED
    BY <2>4, <2>5
<1> QED
  BY <1>1, RegistrySound, TxtInvariance, AnswerInvariance, DueInvariance, PTL

-----------------------------------------------------------------------------
(* The variables of main, of the signals and of the counters. *)
ControlInv ==
    /\ pc \in {"config", "open", "handlers", "check", "select", "recv", "lookup", "build",
               "reply", "close", "cleanup", "exited", "failed", "killed"}
    /\ sock \in BOOLEAN /\ g_running \in BOOLEAN
    /\ handlers \in [Signals -> {"default", "on_signal"}]
    /\ sent_signals \in 0 .. MAX_SIGNALS

(* The program's place, its signals and its counters keep their ranges. *)
LEMMA ControlInvariance == Spec => []ControlInv
<1>1. Init => ControlInv
  <2>1. 0 \in 0 .. MAX_SIGNALS
    BY ResponderAssumption
  <2>2. [s \in Signals |-> "default"] \in [Signals -> {"default", "on_signal"}]
    OBVIOUS
  <2> QED
    BY <2>1, <2>2 DEF Init, ControlInv
<1>2. ControlInv /\ [Next]_vars => ControlInv'
  <2> SUFFICES ASSUME ControlInv, [Next]_vars PROVE ControlInv'
    OBVIOUS
  <2> USE DEF ControlInv, registry, kernel
  <2>1. CASE \E svc \in Params : LoadService(svc)
    BY <2>1 DEF LoadService
  <2>2. CASE LoadEnds \/ OpenSocket \/ InstallHandlers \/ CheckRunning
    BY <2>2 DEF LoadEnds, OpenSocket, InstallHandlers, CheckRunning
  <2>3. CASE SelectReturns \/ SelectFails \/ Receive
    BY <2>3 DEF SelectReturns, SelectFails, Receive
  <2>4. CASE Lookup \/ Build \/ Reply
    BY <2>4 DEF Lookup, Build, Reply
  <2>5. CASE CloseSocket \/ CleanupAndExit
    BY <2>5 DEF CloseSocket, CleanupAndExit
  <2>6. CASE \E d \in Datagrams : Arrive(d)
    BY <2>6, ResponderAssumption DEF Arrive
  <2>7. CASE \E s \in Signals : Signal(s)
    <3>1. PICK s \in Signals : Signal(s)
      BY <2>7
    <3>2. sent_signals' \in 0 .. MAX_SIGNALS
      BY <3>1, ResponderAssumption DEF Signal
    <3>3. handlers' \in [Signals -> {"default", "on_signal"}]
      BY <3>1 DEF Signal
    <3> QED
      BY <3>1, <3>2, <3>3 DEF Signal
  <2>8. CASE UNCHANGED vars
    BY <2>8 DEF vars
  <2> QED
    BY <2>1, <2>2, <2>3, <2>4, <2>5, <2>6, <2>7, <2>8 DEF Next, Main, Stopped
<1> QED
  BY <1>1, <1>2, PTL DEF Spec

(* The variables hold what the program may put there: above all, a reply   *)
(* is built from services of the registry, and a datagram is at hand only  *)
(* after one was received.                                                 *)
THEOREM TypeCorrect == Spec => []TypeOK
<1>1. P!IInv /\ ControlInv /\ LateInv /\ AnswerInv => TypeOK
  <2> SUFFICES ASSUME P!IInv, ControlInv, LateInv, AnswerInv PROVE TypeOK
    OBVIOUS
  <2>1. H!Service = P!Service
    BY DEF H!Service, P!Service, H!String, P!String
  <2>2. H!TypeOK
    BY <2>1 DEF P!IInv, P!TypeOK, H!TypeOK
  <2>3. reply \in Responses \cup {NULL} /\ outbox \subseteq Responses
    BY DEF AnswerInv, SoundReply
  <2>4. late \in Nat
    BY DEF LateInv
  <2> QED
    BY <2>2, <2>3, <2>4 DEF TypeOK, ControlInv, AnswerInv
<1> QED
  BY <1>1, RegistrySound, ControlInvariance, LateInvariance, AnswerInvariance, PTL
=============================================================================
