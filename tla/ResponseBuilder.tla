-------------------------- MODULE ResponseBuilder --------------------------
(***************************************************************************)
(* The response builders of shared/src/mdns.c, one step per check and      *)
(* write: mdns_build_response (A, AAAA) and mdns_build_service_response    *)
(* (SRV), with encode_qname as the loop over labels that both call.        *)
(*                                                                         *)
(* The buffer keeps, for each byte, the field it was last written for and  *)
(* the record that field belongs to.  The calls of the server are the      *)
(* initial states: any question, any list of services, any buffer size.    *)
(***************************************************************************)
EXTENDS Answers, FiniteSets

CONSTANTS
    Questions,  \* [name, qtype] records, as mdns_parse_query leaves them
    Lists,      \* Lists of services the server can have found
    OutLens     \* Sizes of the output buffer (1500 in the server)

FoundService ==
    [instance : String, service_type : String, domain : String, target_host : String,
     txt_kv : Seq(DOMAIN TxtOctets) \cup {NULL}]

ASSUME BuilderAssumption ==
    /\ Questions \subseteq [name : String, qtype : {"A", "AAAA", "SRV"}]
    /\ Lists \subseteq Seq(FoundService)
    /\ OutLens \subseteq Nat
    /\ \A q \in Questions : IsText(q.name)
    /\ \A list \in Lists : \A n \in DOMAIN list :
          /\ IsText(list[n].instance) /\ IsText(list[n].service_type)
          /\ IsText(list[n].domain) /\ IsText(list[n].target_host)

VARIABLES
    pc,            \* The statement to execute next
    question, svcs, out_len,                      \* The parameters
    offset, i, answer_count, rdlength_pos, rdata_start,
    txt_i,         \* encode_txt_rdata: entries written
    enc,           \* encode_qname: its call site, the rest of the name, written
    out,           \* The buffer: byte -> <<field, record>>
    high,          \* One past the last byte ever written
    records,       \* The records counted in answer_count, in order
    committed,     \* Where the question, then the last counted record, ends
    result         \* What the builder returns

params == <<question, svcs, out_len>>
counters == <<i, answer_count, rdlength_pos, rdata_start, txt_i, records, committed>>
buffer == <<out, high>>
vars == <<pc, params, offset, counters, enc, buffer, result>>

(* n bytes of a field of the current record, written from position at. *)
Write(at, n, field) ==
    /\ out' = [x \in DOMAIN out |->
                 IF at <= x /\ x < at + n THEN <<field, answer_count + 1>> ELSE out[x]]
    /\ high' = IF n > 0 /\ at + n > high THEN at + n ELSE high

NoEncoding == [site |-> "none", rest |-> << >>, written |-> 0]

Return(r) == pc' = "done" /\ result' = r

-----------------------------------------------------------------------------
Init ==
    /\ question \in Questions
    /\ svcs \in Lists
    /\ (question.qtype = "SRV") <=> svcs # << >>
    /\ out_len \in OutLens
    /\ pc = "start"
    /\ offset = 0 /\ i = 1 /\ answer_count = 0
    /\ rdlength_pos = 0 /\ rdata_start = 0 /\ txt_i = 0
    /\ enc = NoEncoding
    /\ out = [x \in 0 .. (out_len - 1) |-> <<"zero", 0>>]
    /\ high = 0
    /\ records = << >>
    /\ committed = 0
    /\ result = 0

(* encode_qname(name, &out[offset], out_len - offset, ...), called from site. *)
Call(site, name) ==
    /\ pc' = "encode"
    /\ enc' = [site |-> site, rest |-> name, written |-> 0]

(* The header, behind the check that it fits. *)
Start ==
    /\ pc = "start"
    /\ \/ /\ out_len < HEADER
          /\ Return(-1)
          /\ UNCHANGED <<offset, enc, buffer>>
       \/ /\ out_len >= HEADER
          /\ Write(0, HEADER, "header")
          /\ offset' = HEADER
          /\ Call("question", question.name)
          /\ UNCHANGED result
    /\ UNCHANGED <<params, counters>>

avail == out_len - offset

LabelLen == IF Head(enc.rest) = Dot THEN 0 ELSE Octets[Head(enc.rest)]

LabelRefused ==
    \/ LabelLen = 0
    \/ LabelLen > MAX_LABEL
    \/ enc.written + 1 + LabelLen >= avail

(* One label and its length byte. *)
EncodeLabel ==
    /\ pc = "encode"
    /\ enc.rest # << >>
    /\ ~ LabelRefused
    /\ Write(offset + enc.written, 1 + LabelLen, "name")
    /\ enc' = [site |-> enc.site, rest |-> SubSeq(enc.rest, 3, Len(enc.rest)),
               written |-> enc.written + 1 + LabelLen]
    /\ UNCHANGED <<pc, params, offset, counters, result>>

(* encode_qname returns -1: the question cannot be repeated, or the loop   *)
(* over the services ends.  Labels already written stay where they are.    *)
EncodeFails ==
    /\ pc = "encode"
    /\ \/ enc.rest # << >> /\ LabelRefused
       \/ enc.rest = << >> /\ enc.written >= avail
    /\ \/ enc.site = "question" /\ Return(-1)
       \/ enc.site # "question" /\ pc' = "finish" /\ UNCHANGED result
    /\ enc' = NoEncoding
    /\ UNCHANGED <<params, offset, counters, buffer>>

AfterName ==
    CASE enc.site = "question" -> "question"
      [] enc.site = "SRV"      -> "header"
      [] enc.site = "TXT"      -> "header"
      [] enc.site = "target"   -> "rdlength"

(* The byte that ends the name; the caller's offset moves over the name. *)
EncodeEnds ==
    /\ pc = "encode"
    /\ enc.rest = << >>
    /\ enc.written < avail
    /\ Write(offset + enc.written, 1, "name")
    /\ offset' = offset + enc.written + 1
    /\ pc' = AfterName
    /\ enc' = [enc EXCEPT !.written = 0]
    /\ UNCHANGED <<params, counters, result>>

(* QTYPE and QCLASS. *)
QuestionTail ==
    /\ pc = "question"
    /\ \/ /\ offset + 4 > out_len
          /\ Return(-1)
          /\ UNCHANGED <<offset, committed, buffer>>
       \/ /\ offset + 4 <= out_len
          /\ Write(offset, 4, "question")
          /\ offset' = offset + 4
          /\ committed' = offset + 4
          /\ pc' = IF question.qtype = "SRV" THEN "next" ELSE "address"
          /\ UNCHANGED result
    /\ UNCHANGED <<params, i, answer_count, rdlength_pos, rdata_start, txt_i, records, enc>>

(* The answer of mdns_build_response.  hostdb_init gives the host both     *)
(* addresses.                                                              *)
AddressSize == IF question.qtype = "A" THEN 4 ELSE 16

AddressAnswer ==
    /\ pc = "address"
    /\ \/ /\ offset + 12 + AddressSize > out_len
          /\ Return(-1)
          /\ UNCHANGED <<offset, answer_count, buffer>>
       \/ /\ offset + 12 + AddressSize <= out_len
          /\ Write(offset, 12 + AddressSize, "address")
          /\ offset' = offset + 12 + AddressSize
          /\ answer_count' = 1
          /\ Return(offset + 12 + AddressSize)
    /\ UNCHANGED <<params, i, rdlength_pos, rdata_start, txt_i, records, committed, enc>>

-----------------------------------------------------------------------------
(* The loop over the services. *)

svc == svcs[i]

(* Mutants of NextService: a name too long for service_fqdn ends the loop;  *)
(* it is passed over without going to the next service; or with a second   *)
(* i++ next to the one of the for.                                         *)
SkipsAs(nexti, nextpc) ==
    /\ pc = "next"
    /\ \/ i > Len(svcs) /\ pc' = "finish" /\ UNCHANGED <<i, enc>>
       \/ i <= Len(svcs) /\ ~ Fits(svc) /\ i' = nexti /\ pc' = nextpc /\ UNCHANGED enc
       \/ i <= Len(svcs) /\ Fits(svc) /\ Call("SRV", Fqdn(svc)) /\ UNCHANGED i
    /\ UNCHANGED <<params, offset, answer_count, rdlength_pos, rdata_start, txt_i,
                   records, committed, buffer, result>>
StopsAtLongName == SkipsAs(i, "finish")
StaysAtLongName == SkipsAs(i, "next")
SkipsTwo == SkipsAs(i + 2, "next")

NextService ==
    /\ pc = "next"
    /\ \/ i > Len(svcs) /\ pc' = "finish" /\ UNCHANGED <<i, enc>>
       \/ i <= Len(svcs) /\ ~ Fits(svc) /\ i' = i + 1 /\ UNCHANGED <<pc, enc>>
       \/ i <= Len(svcs) /\ Fits(svc) /\ Call("SRV", Fqdn(svc)) /\ UNCHANGED i
    /\ UNCHANGED <<params, offset, answer_count, rdlength_pos, rdata_start, txt_i,
                   records, committed, buffer, result>>

(* Mutants of AnswerHeader: no room asked for RDLENGTH; and RDLENGTH kept   *)
(* where the first record had it.                                          *)
HeaderAs(room, lengthpos) ==
    /\ pc = "header"
    /\ \/ /\ offset + room > out_len
          /\ pc' = "finish"
          /\ UNCHANGED <<offset, rdlength_pos, rdata_start, txt_i, buffer>>
       \/ /\ offset + room <= out_len
          /\ Write(offset, 8, "type_class_ttl")
          /\ offset' = offset + 8
          /\ rdlength_pos' = lengthpos
          /\ rdata_start' = offset + 8
          /\ txt_i' = 0
          /\ pc' = enc.site
    /\ UNCHANGED <<params, i, answer_count, records, committed, enc, result>>
NoRoomForRdlength == HeaderAs(8, offset + 8)
RdlengthOfTheFirst == HeaderAs(10, IF answer_count = 0 THEN offset + 8 ELSE rdlength_pos)

(* The rest of write_answer_header: TYPE, CLASS and TTL. *)
AnswerHeader ==
    /\ pc = "header"
    /\ \/ /\ offset + 10 > out_len
          /\ pc' = "finish"
          /\ UNCHANGED <<offset, rdlength_pos, rdata_start, txt_i, buffer>>
       \/ /\ offset + 10 <= out_len
          /\ Write(offset, 8, "type_class_ttl")
          /\ offset' = offset + 8
          /\ rdlength_pos' = offset + 8
          /\ rdata_start' = offset + 8
          /\ txt_i' = 0
          /\ pc' = enc.site
    /\ UNCHANGED <<params, i, answer_count, records, committed, enc, result>>

(* encode_srv_rdata up to the target host. *)
SrvNumbers ==
    /\ pc = "SRV"
    /\ \/ /\ offset + 6 > out_len
          /\ pc' = "finish"
          /\ UNCHANGED <<offset, enc, buffer>>
       \/ /\ offset + 6 <= out_len
          /\ Write(offset, 6, "numbers")
          /\ offset' = offset + 6
          /\ Call("target", svc.target_host)
    /\ UNCHANGED <<params, counters, result>>

(* encode_txt_rdata, one string at a time; no strings is one empty string. *)
TxtSize(n) == IF HasTxt(svc) THEN 1 + MinOf(TxtOctets[svc.txt_kv[n]], MAX_TXT) ELSE 1
TxtCount == IF HasTxt(svc) THEN Len(svc.txt_kv) ELSE 1

TxtString ==
    /\ pc = "TXT"
    /\ txt_i < TxtCount
    /\ \/ /\ offset + TxtSize(txt_i + 1) > out_len
          /\ pc' = "finish"
          /\ UNCHANGED <<offset, txt_i, buffer>>
       \/ /\ offset + TxtSize(txt_i + 1) <= out_len
          /\ Write(offset, TxtSize(txt_i + 1), "txt")
          /\ offset' = offset + TxtSize(txt_i + 1)
          /\ txt_i' = txt_i + 1
          /\ UNCHANGED pc
    /\ UNCHANGED <<params, i, answer_count, rdlength_pos, rdata_start, records, committed,
                   enc, result>>

TxtEnds ==
    /\ pc = "TXT"
    /\ txt_i = TxtCount
    /\ pc' = "rdlength"
    /\ UNCHANGED <<params, offset, counters, enc, buffer, result>>

(* RDLENGTH is filled in and the record counted. *)
RecordEnds ==
    /\ pc = "rdlength"
    /\ Write(rdlength_pos, 2, "rdlength")
    /\ answer_count' = answer_count + 1
    /\ records' = Append(records,
          [of |-> <<i, IF enc.site = "target" THEN "SRV" ELSE "TXT">>,
           rdata_start |-> rdata_start, end |-> offset])
    /\ committed' = offset
    /\ \/ /\ enc.site = "target"
          /\ Call("TXT", Fqdn(svc))
          /\ UNCHANGED i
       \/ /\ enc.site = "TXT"
          /\ pc' = "next"
          /\ i' = i + 1
          /\ enc' = NoEncoding
    /\ UNCHANGED <<params, offset, rdlength_pos, rdata_start, txt_i, result>>

(* Mutant of Finish: a response without answers has a length, too. *)
FinishesAnyway ==
    /\ pc = "finish"
    /\ Write(6, 2, "ancount")
    /\ Return(offset)
    /\ enc' = NoEncoding
    /\ UNCHANGED <<params, offset, counters>>

(* ANCOUNT, and the length of the message. *)
Finish ==
    /\ pc = "finish"
    /\ Write(6, 2, "ancount")
    /\ Return(IF answer_count > 0 THEN offset ELSE 0)
    /\ enc' = NoEncoding
    /\ UNCHANGED <<params, offset, counters>>

Done == pc = "done" /\ UNCHANGED vars

Next ==
    \/ Start \/ EncodeLabel \/ EncodeFails \/ EncodeEnds
    \/ QuestionTail \/ AddressAnswer
    \/ NextService \/ AnswerHeader \/ SrvNumbers \/ TxtString \/ TxtEnds
    \/ RecordEnds \/ Finish
    \/ Done

Spec == Init /\ [][Next]_vars
FairSpec == Spec /\ WF_vars(Next)

-----------------------------------------------------------------------------
(* Properties. *)

TypeOK ==
    /\ pc \in {"start", "encode", "question", "address", "next", "header", "SRV",
               "TXT", "rdlength", "finish", "done"}
    /\ question \in Questions /\ svcs \in Lists /\ out_len \in OutLens
    /\ offset \in Nat /\ answer_count \in Nat /\ txt_i \in Nat
    /\ rdlength_pos \in Nat /\ rdata_start \in Nat
    /\ high \in Nat /\ committed \in Nat
    /\ i \in 1 .. (Len(svcs) + 1)
    /\ enc \in [site : {"none", "question", "SRV", "target", "TXT"},
               rest : String, written : Nat]
    /\ DOMAIN out = 0 .. (out_len - 1)
    /\ result \in Int

(* Memory safety: whatever the names, the services and the size of the     *)
(* buffer, no write of the builders goes past its end, RDLENGTH included,  *)
(* which is written behind the offset it was reserved at; and the length   *)
(* returned is within it.                                                  *)
WritesInBounds == high <= out_len /\ offset <= out_len /\ result <= out_len

(* Whose a byte is: the question's and the counted records' lie before     *)
(* committed, and what was written for a counted record is its own behind  *)
(* it, too.                                                                *)
IsOwned(x) == x < committed \/ out[x][2] \in 1 .. answer_count

(* The one byte written behind its record: the low byte of RDLENGTH when   *)
(* RDATA is a single byte, as it is of a TXT record without strings.       *)
LowByteBehind(x) ==
    \E n \in DOMAIN records :
        /\ records[n].end = records[n].rdata_start + 1
        /\ x = records[n].end /\ out[x] = <<"rdlength", n>>

(* A step leaves all others as they are. *)
KeepsCommitted ==
    \A x \in HEADER .. (out_len - 1) : IsOwned(x) /\ ~ LowByteBehind(x) => out'[x] = out[x]

(* Building a record never disturbs a byte written for the question or for *)
(* a record counted before it, wherever that byte is, with one exception:  *)
(* RDLENGTH of a TXT record without strings has its low byte behind the    *)
(* record, where the next record's name overwrites it (mdns.c:248,         *)
(* 351-352).  ANCOUNT is in the header.                                    *)
CommittedBytesStable == [][KeepsCommitted]_vars

(* The message declares the records it holds: the builder stops, skips and *)
(* counts exactly as the sizes of the records demand, whichever check      *)
(* stops it.                                                               *)
RecordsAsSpecified ==
    pc = "done" /\ question.qtype = "SRV" =>
        /\ answer_count = Len(records)
        /\ [n \in 1 .. Len(records) |-> records[n].of]
              = Answered(question.name, svcs, out_len)

(* A response goes out exactly when there is something to say: a positive  *)
(* length means at least one answer, and a host address is answered        *)
(* whenever the buffer can hold it.                                        *)
LengthMeansAnswers ==
    pc = "done" =>
        /\ result > 0 <=> answer_count > 0
        /\ question.qtype # "SRV" =>
              (answer_count = 1 <=>
                 /\ QuestionFits(question.name, out_len)
                 /\ AddressEnd(question.name, AddressSize) <= out_len)

(* The builder returns: no service list or name keeps its loops running. *)
Returns == <>(pc = "done")

(* write_answer_header's comment: it writes the name, type, class, TTL and *)
(* an RDLENGTH placeholder, and returns the offset to write RDATA.  Then   *)
(* RDATA is behind RDLENGTH, and its bytes are still there when the record *)
(* is counted.                                                             *)
RdataFollowsRdlength ==
    \A n \in 1 .. Len(records) :
        \A x \in records[n].rdata_start .. (records[n].end - 1) :
            out[x] # <<"rdlength", n>>
=============================================================================
