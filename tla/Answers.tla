------------------------------ MODULE Answers ------------------------------
(***************************************************************************)
(* What a response of mdns.c holds, as a function of the question, of the  *)
(* services found and of the size of the buffer.  ResponseBuilder models   *)
(* how the code gets there, byte by byte, and is checked against this.     *)
(***************************************************************************)
EXTENDS Names

CONSTANTS
    TxtOctets,   \* TXT string -> its length
    MAX_TXT      \* A TXT string is cut after this many bytes (255)

ASSUME AnswersAssumption ==
    /\ TxtOctets \in [DOMAIN TxtOctets -> Nat]
    /\ MAX_TXT \in Nat

HEADER == 12

MinOf(a, b) == IF a < b THEN a ELSE b

(* Header and question section: the name, type and class. *)
QuestionEnd(qname) == HEADER + EncodedLen(qname) + 4

QuestionFits(qname, out_len) ==
    /\ HEADER <= out_len
    /\ Encodable(qname)
    /\ QuestionEnd(qname) <= out_len

(* The one answer of mdns_build_response: a pointer to the name, eight     *)
(* bytes of type, class and TTL, RDLENGTH, and the address.                *)
AddressEnd(qname, size) == QuestionEnd(qname) + 12 + size

-----------------------------------------------------------------------------
(* mdns_build_service_response. *)

HasTxt(svc) == svc.txt_kv # NULL /\ svc.txt_kv # << >>

TxtBytes(svc) ==
    LET txt == IF HasTxt(svc) THEN svc.txt_kv ELSE << >>
        sum[n \in 0 .. Len(txt)] ==
            IF n = 0 THEN 0 ELSE sum[n - 1] + 1 + MinOf(TxtOctets[txt[n]], MAX_TXT)
    IN  IF HasTxt(svc) THEN sum[Len(txt)] ELSE 1

(* write_answer_header asks for room for RDLENGTH but moves over the eight *)
(* bytes before it only.                                                   *)
HeaderFits(svc, at, out_len) ==
    Encodable(Fqdn(svc)) /\ at + EncodedLen(Fqdn(svc)) + 10 <= out_len
HeaderEnd(svc, at) == at + EncodedLen(Fqdn(svc)) + 8

SrvEnd(svc, at) == HeaderEnd(svc, at) + 6 + EncodedLen(svc.target_host)
SrvFits(svc, at, out_len) ==
    /\ HeaderFits(svc, at, out_len)
    /\ Encodable(svc.target_host)
    /\ SrvEnd(svc, at) <= out_len

TxtEnd(svc, at) == HeaderEnd(svc, at) + TxtBytes(svc)
TxtFits(svc, at, out_len) ==
    HeaderFits(svc, at, out_len) /\ TxtEnd(svc, at) <= out_len

(* What is written so far: up to where, whether the loop has ended, and    *)
(* the records <<k, type>>, each of the k-th service.                      *)
Written == [at : Nat, ended : BOOLEAN, records : Seq(Nat \X {"SRV", "TXT"})]

(* The turn of the loop for the k-th service.  The first that does not go  *)
(* in whole ends it; one whose name does not fit service_fqdn is passed    *)
(* over.                                                                   *)
WithAnswer(w, k, svc, out_len) ==
    LET mid == SrvEnd(svc, w.at)
        srv == Append(w.records, <<k, "SRV">>)
    IN  IF w.ended \/ ~ Fits(svc) THEN w
        ELSE IF ~ SrvFits(svc, w.at, out_len) THEN [w EXCEPT !.ended = TRUE]
        ELSE IF ~ TxtFits(svc, mid, out_len)
             THEN [at |-> mid, ended |-> TRUE, records |-> srv]
        ELSE [at |-> TxtEnd(svc, mid), ended |-> FALSE, records |-> Append(srv, <<k, "TXT">>)]

Answered(qname, svcs, out_len) ==
    LET after[k \in 0 .. Len(svcs)] ==
            IF k = 0 THEN [at |-> QuestionEnd(qname), ended |-> FALSE, records |-> << >>]
            ELSE WithAnswer(after[k - 1], k, svcs[k], out_len)
    IN  IF QuestionFits(qname, out_len) THEN after[Len(svcs)].records ELSE << >>
=============================================================================
