------------------------------- MODULE Browse -------------------------------
(***************************************************************************)
(* mdns_browse: it opens its sockets, asks for a service type on each, and *)
(* prints the records of whatever arrives until its deadline.              *)
(*                                                                         *)
(* A packet is what print_response_records can tell apart of it: whether   *)
(* its header and questions are whole, and its records, each of which is   *)
(* "broken" (its name or its fields run out of the packet), "opaque" (its  *)
(* rdata cannot be decoded or is of a type not printed) or "plain".        *)
(* How a name is decoded is in NameReaders.                                *)
(***************************************************************************)
EXTENDS Names

CONSTANTS
    ServiceTypes,   \* What -s may be given
    Families,       \* Sets of address families -p may stand for
    Datagrams,      \* What may arrive: [from, whole, rrs]
    TIMEOUT,        \* -w, in ticks of the clock
    Shifts,         \* By how much the wall clock may be set
    MAX_SETTINGS,   \* Bound: how often it is set
    MAX_ELAPSED,    \* Bound: time since the question
    MAX_ARRIVALS    \* Bound: datagrams that arrive

RR == [labels : Seq(WireLabel), type : {"PTR", "SRV", "TXT", "A", "AAAA"},
       shape : {"broken", "opaque", "plain"}]

ASSUME BrowseAssumption ==
    /\ ServiceTypes \subseteq String /\ \A s \in ServiceTypes : IsText(s)
    /\ Families \subseteq (SUBSET {"v4", "v6"}) \ {{}}
    /\ NULL \notin Datagrams
    /\ \A d \in Datagrams : /\ {"from", "whole", "rrs"} = DOMAIN d
                            /\ d.whole \in BOOLEAN /\ d.rrs \in Seq(RR)
    /\ TIMEOUT \in Nat \ {0} /\ Shifts \subseteq Int \ {0}
    /\ {MAX_SETTINGS, MAX_ELAPSED, MAX_ARRIVALS} \subseteq Nat

Both == {"v4", "v6"}

VARIABLES
    service_type, protocol_mode,   \* The arguments
    pc, status,       \* Where main is; its exit code
    service_type_fqdn,
    sock,             \* The open sockets
    asked,            \* Where the question was sent
    now, deadline,    \* Wall clock
    timer,            \* What is left of select's timeout
    delay,            \* History: time since it was computed, until select
    ready,            \* Sockets in rfds and not read yet
    rx,               \* What the kernel has received for each socket
    in, i, printed,   \* print_response_records: packet, record, count
    total_records,
    screen,           \* Lines printed
    handled,          \* The packets received so far
    elapsed, set_back, set_forward,   \* Time since the question; clock settings
    settings, arrivals                \* How many, against their bounds

args == <<service_type, protocol_mode>>
reading == <<in, i, printed>>
waiting == <<timer, delay>>
clock == <<now, elapsed, set_back, set_forward, settings>>
network == <<rx, arrivals>>
results == <<total_records, screen, handled>>
vars == <<args, pc, status, service_type_fqdn, sock, asked, deadline, waiting, ready,
          reading, clock, network, results>>

Ended == pc = "ended"
-----------------------------------------------------------------------------
(* build_fqdn_service_type.  That snprintf has cut the name is not noticed. *)

DotLocal == <<Dot>> \o Local
EndsWithLocal(s) ==
    /\ Len(s) >= Len(DotLocal)
    /\ StrCaseEq(SubSeq(s, Len(s) - Len(DotLocal) + 1, Len(s)), DotLocal)

(* Mutant of Qualified: ".local" is always added. *)
AlwaysAdded(s) == s \o DotLocal

Qualified(s) == IF EndsWithLocal(s) THEN s ELSE s \o DotLocal

-----------------------------------------------------------------------------
Init ==
    /\ service_type \in ServiceTypes /\ protocol_mode \in Families
    /\ pc = "name" /\ status = 0
    /\ service_type_fqdn = << >>
    /\ sock = {} /\ asked = {}
    /\ now = 0 /\ deadline = 0 /\ timer = 0 /\ delay = 0
    /\ elapsed = 0 /\ set_back = 0 /\ set_forward = 0 /\ settings = 0
    /\ ready = {}
    /\ rx = [f \in Both |-> << >>] /\ arrivals = 0
    /\ in = NULL /\ i = 1 /\ printed = 0
    /\ total_records = 0 /\ screen = << >> /\ handled = << >>

(* The ways out: what is open is closed. *)
Exit(code) ==
    /\ pc' = "ended" /\ status' = code
    /\ sock' = {}

BuildName ==
    /\ pc = "name"
    /\ \/ /\ StrLen(service_type) >= NAME_SIZE
          /\ Exit(1)
          /\ UNCHANGED service_type_fqdn
       \/ /\ StrLen(service_type) < NAME_SIZE
          /\ service_type_fqdn' = Cut(Qualified(service_type))
          /\ pc' = "open"
          /\ UNCHANGED <<sock, status>>
    /\ UNCHANGED <<args, asked, deadline, waiting, ready, reading, clock, network, results>>

(* Which of the wanted sockets is next: IPv4 before IPv6. *)
FirstOf(S) == IF "v4" \in S THEN "v4" ELSE "v6"

OpenSucceeds ==
    /\ pc = "open" /\ sock # protocol_mode
    /\ sock' = sock \cup {FirstOf(protocol_mode \ sock)}
    /\ UNCHANGED <<args, pc, status, service_type_fqdn, asked, deadline, waiting, ready, reading,
                   clock, network, results>>

OpenFails ==
    /\ pc = "open" /\ sock # protocol_mode
    /\ Exit(1)
    /\ UNCHANGED <<args, service_type_fqdn, asked, deadline, waiting, ready, reading, clock,
                   network, results>>

(* send_ptr_query_v4 and send_ptr_query: the name must be one that can be  *)
(* encoded, and sendto may fail.                                           *)
SendSucceeds ==
    /\ pc = "open" /\ sock = protocol_mode /\ asked # sock
    /\ Encodable(service_type_fqdn)
    /\ asked' = asked \cup {FirstOf(sock \ asked)}
    /\ UNCHANGED <<args, pc, status, service_type_fqdn, sock, deadline, waiting, ready, reading,
                   clock, network, results>>

SendFails ==
    /\ pc = "open" /\ sock = protocol_mode /\ asked # sock
    /\ Exit(1)
    /\ UNCHANGED <<args, service_type_fqdn, asked, deadline, waiting, ready, reading, clock,
                   network, results>>

StartTimer ==
    /\ pc = "open" /\ sock = protocol_mode /\ asked = sock
    /\ deadline' = now + TIMEOUT
    /\ elapsed' = 0 /\ set_back' = 0 /\ set_forward' = 0
    /\ pc' = "check"
    /\ UNCHANGED <<args, status, service_type_fqdn, sock, asked, waiting, ready, reading, now,
                   settings, network, results>>

-----------------------------------------------------------------------------
(* The loop. *)

(* What select is given: it computes its timeout from one reading of the   *)
(* clock, and calls select later.                                          *)
Prepares(timeout) == pc' = "call" /\ timer' = timeout /\ delay' = 0

(* Mutants of CheckDeadline: what remains is not looked at; and select is *)
(* given the whole timeout again.                                          *)
NotLookedAt ==
    /\ pc = "check"
    /\ Prepares(deadline - now)
    /\ UNCHANGED <<args, status, service_type_fqdn, sock, asked, deadline, ready, reading, clock,
                   network, results>>
WholeTimeoutAgain ==
    /\ pc = "check"
    /\ \/ deadline <= now /\ pc' = "report" /\ UNCHANGED waiting
       \/ deadline > now /\ Prepares(TIMEOUT)
    /\ UNCHANGED <<args, status, service_type_fqdn, sock, asked, deadline, ready, reading, clock,
                   network, results>>

CheckDeadline ==
    /\ pc = "check"
    /\ \/ deadline <= now /\ pc' = "report" /\ UNCHANGED waiting
       \/ deadline > now /\ Prepares(deadline - now)
    /\ UNCHANGED <<args, status, service_type_fqdn, sock, asked, deadline, ready, reading, clock,
                   network, results>>

CallSelect ==
    /\ pc = "call"
    /\ pc' = "select"
    /\ UNCHANGED <<args, status, service_type_fqdn, sock, asked, deadline, waiting, ready, reading,
                   clock, network, results>>

Arrived == {f \in sock : rx[f] # << >>}

(* Mutant of SelectTimesOut: no timeout. *)
NeverTimesOut == pc = "select" /\ FALSE /\ UNCHANGED vars

SelectTimesOut ==
    /\ pc = "select" /\ timer = 0 /\ Arrived = {}
    /\ pc' = "check"
    /\ UNCHANGED <<args, status, service_type_fqdn, sock, asked, deadline, waiting, ready, reading,
                   clock, network, results>>

SelectReturns ==
    /\ pc = "select" /\ Arrived # {}
    /\ ready' = Arrived
    /\ pc' = "receive"
    /\ UNCHANGED <<args, status, service_type_fqdn, sock, asked, deadline, waiting, reading, clock,
                   network, results>>

SelectFails ==
    /\ pc = "select"
    /\ Exit(1)
    /\ UNCHANGED <<args, service_type_fqdn, asked, deadline, waiting, ready, reading, clock,
                   network, results>>

(* recvfrom on the sockets select has named, IPv4 first. *)
Receive ==
    /\ pc = "receive" /\ ready # {}
    /\ LET f == FirstOf(ready)
       IN  /\ rx' = [rx EXCEPT ![f] = Tail(@)]
           /\ ready' = ready \ {f}
           /\ in' = Head(rx[f])
           /\ handled' = Append(handled, Head(rx[f]))
    /\ i' = 1 /\ printed' = 0
    /\ pc' = "print"
    /\ UNCHANGED <<args, status, service_type_fqdn, sock, asked, deadline, waiting, clock, arrivals,
                   total_records, screen>>

(* What a failing recvfrom leaves of the socket's datagrams is the kernel's *)
(* affair.                                                                 *)
KeptOrDropped(f) == rx' \in {rx, [rx EXCEPT ![f] = Tail(@)]}

(* Mutant of ReceiveFails: after a failure the other socket is not read. *)
ReceiveFailsForBoth ==
    /\ pc = "receive" /\ ready # {}
    /\ KeptOrDropped(FirstOf(ready))
    /\ pc' = "check"
    /\ UNCHANGED <<args, status, service_type_fqdn, sock, asked, deadline, waiting, ready, reading,
                   clock, arrivals, results>>

ReceiveFails ==
    /\ pc = "receive" /\ ready # {}
    /\ KeptOrDropped(FirstOf(ready))
    /\ ready' = ready \ {FirstOf(ready)}
    /\ UNCHANGED <<args, pc, status, service_type_fqdn, sock, asked, deadline, waiting, reading,
                   clock, arrivals, results>>

BothRead ==
    /\ pc = "receive" /\ ready = {}
    /\ pc' = "check"
    /\ UNCHANGED <<args, status, service_type_fqdn, sock, asked, deadline, waiting, ready, reading,
                   clock, network, results>>

-----------------------------------------------------------------------------
(* print_response_records *)

Record == in.rrs[i]

(* What decode_name makes of a name: no dot at its end, and the root is ".". *)
DecodedName(labels) == IF labels = << >> THEN <<Dot>> ELSE CText(Front(Spelled(labels)))

(* A PTR record is printed when it is of the type that was asked for; the  *)
(* names of the others are not looked at.                                  *)
Printable(rr) ==
    /\ rr.shape = "plain"
    /\ rr.type = "PTR" => StrCaseEq(DecodedName(rr.labels), service_type_fqdn)

Header(d) == [from |-> d.from, record |-> NULL]
Line(d, rr) == [from |-> d.from, record |-> rr]

PrintRecord ==
    /\ pc = "print" /\ in.whole
    /\ i <= Len(in.rrs) /\ Record.shape # "broken"
    /\ i' = i + 1
    /\ \/ /\ Printable(Record)
          /\ screen' = screen \o (IF printed = 0 THEN <<Header(in)>> ELSE << >>)
                              \o <<Line(in, Record)>>
          /\ printed' = printed + 1
       \/ /\ ~ Printable(Record)
          /\ UNCHANGED <<screen, printed>>
    /\ UNCHANGED <<args, pc, status, service_type_fqdn, sock, asked, deadline, waiting, ready, in,
                   clock, network, total_records, handled>>

(* Its result: -1 for a packet that is broken anywhere. *)
Malformed == ~ in.whole \/ (i <= Len(in.rrs) /\ Record.shape = "broken")

(* Mutant of PrintEnds: only the last packet counts. *)
LastPacketCounts ==
    /\ pc = "print"
    /\ Malformed \/ i > Len(in.rrs)
    /\ total_records' = IF Malformed THEN total_records ELSE printed
    /\ in' = NULL /\ i' = 1 /\ printed' = 0
    /\ pc' = "receive"
    /\ UNCHANGED <<args, status, service_type_fqdn, sock, asked, deadline, waiting, ready, clock,
                   network, screen, handled>>

PrintEnds ==
    /\ pc = "print"
    /\ Malformed \/ i > Len(in.rrs)
    /\ total_records' = IF Malformed THEN total_records ELSE total_records + printed
    /\ in' = NULL /\ i' = 1 /\ printed' = 0
    /\ pc' = "receive"
    /\ UNCHANGED <<args, status, service_type_fqdn, sock, asked, deadline, waiting, ready, clock,
                   network, screen, handled>>

(* "No responses ..." when nothing was counted. *)
NoResponses == [from |-> NULL, record |-> NULL]

Report ==
    /\ pc = "report"
    /\ \/ total_records > 0 /\ Exit(0) /\ UNCHANGED screen
       \/ total_records = 0 /\ Exit(1) /\ screen' = Append(screen, NoResponses)
    /\ UNCHANGED <<args, service_type_fqdn, asked, deadline, waiting, ready, reading, clock,
                   network, total_records, handled>>

-----------------------------------------------------------------------------
(* The environment. *)

(* Before the timer is started no clock is read, and none is modelled. *)
ClockMatters == pc \notin {"name", "open", "ended"}

(* Time passes, whatever the browser does; for select it does not stop     *)
(* before its timeout has run out.                                         *)
Tick ==
    /\ ClockMatters /\ (elapsed < MAX_ELAPSED \/ (pc = "select" /\ timer > 0))
    /\ now' = now + 1
    /\ elapsed' = elapsed + 1
    /\ timer' = IF pc = "select" /\ timer > 0 THEN timer - 1 ELSE timer
    /\ delay' = IF pc = "call" THEN delay + 1 ELSE delay
    /\ UNCHANGED <<args, pc, status, service_type_fqdn, sock, asked, deadline, ready, reading,
                   set_back, set_forward, settings, network, results>>

(* The wall clock is set; select's timeout does not notice. *)
SetClock(shift) ==
    /\ ClockMatters /\ settings < MAX_SETTINGS
    /\ now' = now + shift
    /\ set_back' = IF shift < 0 THEN set_back - shift ELSE set_back
    /\ set_forward' = IF shift > 0 THEN set_forward + shift ELSE set_forward
    /\ settings' = settings + 1
    /\ UNCHANGED <<args, pc, status, service_type_fqdn, sock, asked, deadline, waiting, ready,
                   reading, elapsed, network, results>>

Arrive(f, d) ==
    /\ f \in sock /\ arrivals < MAX_ARRIVALS
    /\ rx' = [rx EXCEPT ![f] = Append(@, d)]
    /\ arrivals' = arrivals + 1
    /\ UNCHANGED <<args, pc, status, service_type_fqdn, sock, asked, deadline, waiting, ready,
                   reading, clock, results>>

Main ==
    \/ BuildName \/ OpenSucceeds \/ SendSucceeds \/ StartTimer
    \/ CheckDeadline \/ CallSelect \/ SelectTimesOut \/ SelectReturns \/ Receive \/ BothRead
    \/ PrintRecord \/ PrintEnds \/ Report
    \/ ~ Encodable(service_type_fqdn) /\ SendFails

Failure == OpenFails \/ SendFails \/ SelectFails \/ ReceiveFails

Next ==
    \/ Main \/ Failure
    \/ Tick
    \/ \E shift \in Shifts : SetClock(shift)
    \/ \E f \in Both, d \in Datagrams : Arrive(f, d)
    \/ Ended /\ UNCHANGED vars

Spec == Init /\ [][Next]_vars

(* The browser is scheduled, and time passes. *)
FairSpec == Spec /\ WF_vars(Main) /\ WF_vars(Tick)
-----------------------------------------------------------------------------
(* Properties. *)

TypeOK ==
    /\ service_type \in ServiceTypes /\ protocol_mode \in Families
    /\ pc \in {"name", "open", "check", "call", "select", "receive", "print", "report", "ended"}
    /\ status \in 0 .. 1
    /\ service_type_fqdn \in String
    /\ sock \subseteq protocol_mode /\ asked \subseteq protocol_mode
    /\ ready \subseteq protocol_mode
    /\ now \in Int /\ deadline \in Int /\ timer \in Nat
    /\ {delay, elapsed, set_back, set_forward} \subseteq Nat
    /\ settings \in 0 .. MAX_SETTINGS /\ arrivals \in 0 .. MAX_ARRIVALS
    /\ rx \in [Both -> Seq(Datagrams)]
    /\ in \in Datagrams \cup {NULL}
    /\ printed \in 0 .. i - 1 /\ total_records \in Nat
    /\ i \in 1 .. (IF in = NULL THEN 1 ELSE Len(in.rrs) + 1)
    /\ handled \in Seq(Datagrams)

(* The labels the user asks for: those given, in the domain local. *)
AskedLabels ==
    LET labels == TextToWire(service_type)
    IN  IF Len(labels) > 1 /\ StrCaseEq(<<Last(labels)>>, Local) THEN labels
        ELSE labels \o Local

(* What of a packet is to be seen: its sender, and its records up to the   *)
(* first that is broken, but for those that have nothing to show.          *)
Whole(d) ==
    LET broken == {n \in DOMAIN d.rrs : d.rrs[n].shape = "broken"}
    IN  IF ~ d.whole THEN << >>
        ELSE IF broken = {} THEN d.rrs
        ELSE SubSeq(d.rrs, 1, (CHOOSE n \in broken : \A m \in broken : n <= m) - 1)
IsBroken(d) == ~ d.whole \/ \E n \in DOMAIN d.rrs : d.rrs[n].shape = "broken"
(* A name is the one asked for.  One with a dot or a NUL in a label, which  *)
(* DNS tells from it, is shown when its text reads like the other's.       *)
SameName(wire, labels) ==
    IF DotFree(wire) THEN Folded(Bare(wire)) = Folded(labels)
    ELSE StrCaseEq(CText(Front(Spelled(wire))), Front(WireToText(labels)))
ToBeSeen(labels, rr) == rr.shape = "plain" /\ (rr.type = "PTR" => SameName(rr.labels, labels))
Seen(labels, rrs) ==
    LET seen[s \in Seq(RR)] ==
            IF s = << >> THEN << >>
            ELSE IF ToBeSeen(labels, Last(s)) THEN Append(seen[Front(s)], Last(s))
            ELSE seen[Front(s)]
    IN  seen[rrs]
Shown(labels, d) == Seen(labels, Whole(d))
CountOf(labels, d) == IF IsBroken(d) THEN 0 ELSE Len(Shown(labels, d))

LinesFor(d, shown) ==
    IF shown = << >> THEN << >>
    ELSE <<Header(d)>> \o [n \in DOMAIN shown |-> Line(d, shown[n])]
Lines(labels, packets) ==
    LET lines[s \in Seq(Datagrams)] ==
            IF s = << >> THEN << >>
            ELSE lines[Front(s)] \o LinesFor(Last(s), Shown(labels, Last(s)))
    IN  lines[packets]
Total(labels, packets) ==
    LET total[s \in Seq(Datagrams)] ==
            IF s = << >> THEN 0 ELSE total[Front(s)] + CountOf(labels, Last(s))
    IN  total[packets]

AtRest == pc \in {"check", "call", "select", "receive", "report"}
NameFits == StrLen(Qualified(service_type)) < NAME_SIZE

(* What is on the screen is what was received, from both sockets, in the   *)
(* order of arrival and each record below the address of its sender: of    *)
(* the PTR records those that point to an instance of the type asked for,  *)
(* compared as SameName says; of the others all that can be shown,         *)
(* whatever their name.                                                    *)
ScreenAsReceived ==
    AtRest /\ NameFits => screen = Lines(AskedLabels, handled)

(* Records count when their packet is whole, however many packets come.    *)
CountExact ==
    AtRest /\ NameFits => total_records = Total(AskedLabels, handled)

(* The browser listens for the time it was told to, however often packets  *)
(* wake it up: select is given no more than was left when the clock was    *)
(* last read, so that it waits beyond the deadline by no more than the     *)
(* time between that reading and the call, and the report does not come    *)
(* before the deadline.  Setting the clock moves the end by as much as the *)
(* clock, and no more.                                                     *)
DeadlineKept ==
    /\ pc \in {"call", "select"} /\ timer > 0 => elapsed + timer <= TIMEOUT + set_back + delay
    /\ pc = "report" => elapsed >= TIMEOUT - set_forward

(* A packet on one socket does not keep the other from being read. *)
BothServed == pc \in {"check", "report"} => ready = {}

(* The browser ends. *)
Ends == <>Ended
=============================================================================
