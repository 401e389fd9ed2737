----------------------------- MODULE Questions -----------------------------
(***************************************************************************)
(* What mdns_server makes of a datagram: from the parser to the builder,   *)
(* as a function of the services registered and of the host's name.        *)
(***************************************************************************)
EXTENDS Answers, Lookups

CONSTANTS
    OUT_LEN,        \* MDNS_MAX_PACKET
    MAX_FOUND       \* mdns_service_t *services[32]

ASSUME QuestionsAssumption == OUT_LEN \in Nat /\ MAX_FOUND \in Nat

(* A datagram: whether it is long enough to have a header and its one      *)
(* question is whole, its QDCOUNT, and the question's labels and type.     *)
Datagram == [from : STRING, whole : BOOLEAN, qdcount : Nat,
             labels : Seq(WireLabel), qtype : STRING]

-----------------------------------------------------------------------------
is_supported_query_type(qtype) == qtype \in {"A", "AAAA", "SRV"}

(* mdns_parse_query returns 1, and question->name. *)
Parsed(d) == d.whole /\ d.qdcount > 0 /\ WireNameAccepted(d.labels)
QName(d) == CText(Spelled(d.labels))

(* The question section of the response: the name as encode_qname writes   *)
(* it back.                                                                *)
Repeated(d) == TextToWire(QName(d))

hostdb_lookup(qname, hostname) == StrCaseEq(StripTrailingDot(qname), hostname)

is_general_service_query(qname) == StartsWithUnderscore(qname)

(* parse_service_type_query succeeds: the first two labels start with '_'. *)
HasServiceType(qname) ==
    /\ Len(qname) >= 4
    /\ qname[1] \in Underscored /\ qname[2] = Dot
    /\ qname[3] \in Underscored /\ qname[4] = Dot
TypePart(qname) == SubSeq(qname, 1, 3)

(* Mutant of DomainPart: the domain of the question is not looked at. *)
AnyDomain(qname) == Local

DomainPart(qname) == StripTrailingDot(SubSeq(qname, 5, Len(qname)))

OfType(reg, qname) ==
    IF HasServiceType(qname)
    THEN mdns_find_services_by_type(reg, TypePart(qname), DomainPart(qname), MAX_FOUND)
    ELSE << >>

Named(reg, qname) == {n \in DOMAIN reg : FindsByFqdn(reg, qname, n)}

(* Mutant of Found: no test that the instance was found. *)
FoundUnchecked(reg, qname) ==
    IF is_general_service_query(qname) THEN OfType(reg, qname)
    ELSE << IF Named(reg, qname) = {} THEN NULL ELSE reg[CHOOSE n \in Named(reg, qname) : TRUE] >>

(* The services an SRV question asks for. *)
Found(reg, qname) ==
    IF is_general_service_query(qname) THEN OfType(reg, qname)
    ELSE IF Named(reg, qname) = {} THEN << >>
    ELSE << reg[CHOOSE n \in Named(reg, qname) : TRUE] >>

(* The datagrams that get past the checks of the loop, up to the lookup:   *)
(* an address question must be for the host's name.                        *)
Accepted(d, hostname) ==
    /\ Parsed(d)
    /\ is_supported_query_type(d.qtype)
    /\ d.qtype # "SRV" => hostdb_lookup(QName(d), hostname)

(* The two builders: NULL when there is nothing to send.  answers are the  *)
(* records <<k, type>> of the k-th service of about.                       *)
Message(d, svcs, answers) == [to |-> d.from, question |-> d, about |-> svcs, answers |-> answers]

ServiceAnswers(d, svcs) == Answered(QName(d), svcs, OUT_LEN)
ServiceReply(d, svcs) ==
    LET answers == ServiceAnswers(d, svcs)
    IN  IF answers = << >> THEN NULL ELSE Message(d, svcs, answers)

AddressFits(d) ==
    /\ QuestionFits(QName(d), OUT_LEN)
    /\ AddressEnd(QName(d), IF d.qtype = "A" THEN 4 ELSE 16) <= OUT_LEN
AddressReply(d) == IF AddressFits(d) THEN Message(d, << >>, << >>) ELSE NULL

-----------------------------------------------------------------------------
(* DNS's own view of names, which knows labels and no dots. *)
SameLabels(labels, text) == Folded(labels) = Folded(TextToWire(text))
IsOfType(svc, labels) ==
    Folded(labels) = Folded(TextToWire(svc.service_type) \o TextToWire(svc.domain))

(* A question of a name as programs write them, at most 255 bytes. *)
WellFormed(d) ==
    /\ d.whole /\ d.qdcount > 0
    /\ d.labels # << >> /\ DotFree(d.labels) /\ EncodedLen(QName(d)) < NAME_SIZE

(* The services of a list that have the type of a question, in its order:  *)
(* all of them, or as many as the server looks for.                        *)
WithWanted(wanted, svc, d) ==
    IF IsOfType(svc, Bare(d.labels)) /\ Len(wanted) < MAX_FOUND THEN Append(wanted, svc) ELSE wanted
Wanted(reg, d) ==
    LET wanted[n \in 0 .. Len(reg)] ==
            IF n = 0 THEN << >> ELSE WithWanted(wanted[n - 1], reg[n], d)
    IN  wanted[Len(reg)]

(* The response to every service of a list goes in the buffer. *)
SizeOf(svcs, n) ==
    LET end[k \in 0 .. n] ==
            IF k = 0 THEN 0 ELSE TxtEnd(svcs[k], SrvEnd(svcs[k], end[k - 1]))
    IN  end[n]
AllGoIn(d, svcs) ==
    /\ Encodable(QName(d))
    /\ \A n \in DOMAIN svcs : /\ Fits(svcs[n]) /\ Encodable(Fqdn(svcs[n]))
                              /\ Encodable(svcs[n].target_host)
    /\ QuestionEnd(QName(d)) + SizeOf(svcs, Len(svcs)) + 2 <= OUT_LEN

(* A name of DNS, without the dot at its end: no empty label. *)
IsName(text) == text = StripTrailingDot(WireToText(TextToWire(text)))

(* A question that can be answered: one for a type _service._proto.local,  *)
(* whose services, as many as the server looks for, all go in the buffer;  *)
(* or one for the host's name.                                             *)
Answerable(d, reg, hostname) ==
    /\ WellFormed(d)
    /\ \/ /\ d.qtype = "SRV"
          /\ Len(d.labels) = 3 /\ {d.labels[1][1], d.labels[2][1]} \subseteq Underscored
          /\ Wanted(reg, d) # << >>
          /\ AllGoIn(d, Wanted(reg, d))
       \/ /\ d.qtype \in {"A", "AAAA"}
          /\ IsName(hostname) /\ SameLabels(Bare(d.labels), hostname)
          /\ QuestionFits(QName(d), OUT_LEN)
          /\ AddressEnd(QName(d), 16) <= OUT_LEN
=============================================================================
