----------------------- MODULE ResponseBuilderProofs -----------------------
(***************************************************************************)
(* No write of the response builders leaves the buffer, none disturbs a    *)
(* finished record, and the response holds the records that fit: for every *)
(* question, every list of services and every size of the buffer.          *)
(*                                                                         *)
(* QuestionsProofs is here for its lemmas on names and answers.            *)
(***************************************************************************)
EXTENDS ResponseBuilder, QuestionsProofs

(* The builder is at a service of the list. *)
InLoop ==
    \/ pc \in {"header", "SRV", "TXT", "rdlength"}
    \/ pc = "encode" /\ enc.site \in {"SRV", "target", "TXT"}

(* RDLENGTH has a place that is still to be filled in. *)
InRecord ==
    \/ pc \in {"SRV", "TXT", "rdlength"}
    \/ pc = "encode" /\ enc.site = "target"

SitesMatch ==
    /\ pc = "encode" => enc.site # "none"
    /\ pc = "header" => enc.site \in {"SRV", "TXT"}
    /\ pc = "TXT" => enc.site = "TXT"
    /\ pc = "rdlength" => enc.site \in {"target", "TXT"}

(* What the checks of the code establish for the writes behind them. *)
RoomChecked ==
    /\ offset <= out_len
    /\ pc = "start" => offset = 0
    /\ pc \notin {"start", "done"} => HEADER <= out_len
    /\ pc = "encode" => offset + enc.written <= out_len
    /\ InRecord => rdlength_pos + 2 <= out_len

(* Nothing behind the offset is committed. *)
WritesAhead ==
    /\ committed <= offset
    /\ InRecord => committed <= rdlength_pos

IInv ==
    /\ TypeOK
    /\ WritesInBounds
    /\ InLoop => i <= Len(svcs)
    /\ SitesMatch
    /\ RoomChecked
    /\ WritesAhead

-----------------------------------------------------------------------------
(* Lemmas. *)

(* A write within out_len stays within the buffer. *)
LEMMA WriteStays ==
    ASSUME NEW at \in Nat, NEW n \in Nat, NEW field,
           at + n <= out_len, out_len \in Nat, high \in Nat, high <= out_len,
           Write(at, n, field)
    PROVE  high' \in Nat /\ high' <= out_len /\ DOMAIN out' = DOMAIN out
BY DEF Write

(* A step leaves the question and the counted records as they are, as far  *)
(* as committed reaches.                                                   *)
KeepsBelow == \A x \in HEADER .. (committed - 1) : out'[x] = out[x]

(* A write behind the committed bytes, or into the header, changes *)
(* nothing committed. *)
LEMMA WriteKeeps ==
    ASSUME NEW at \in Nat, NEW n \in Nat, NEW field,
           committed \in Nat, committed <= out_len, out_len \in Nat,
           DOMAIN out = 0 .. (out_len - 1),
           committed <= at \/ at + n <= HEADER,
           Write(at, n, field)
    PROVE  KeepsBelow
BY DEF Write, KeepsBelow, HEADER

(* What the builder is called with keeps its type. *)
LEMMA ParamTypes ==
    ASSUME TypeOK
    PROVE  /\ out_len \in Nat
           /\ question.name \in String
           /\ svcs \in Seq(FoundService) /\ Len(svcs) \in Nat
BY BuilderAssumption, LenProperties DEF TypeOK

(* The service at hand, its names, and the sizes written for it. *)
LEMMA ServiceTypes ==
    ASSUME TypeOK, i <= Len(svcs)
    PROVE  /\ svc \in FoundService
           /\ Fqdn(svc) \in String
           /\ svc.target_host \in String
           /\ TxtCount \in Nat
           /\ \A n \in 1 .. TxtCount : TxtSize(n) \in Nat
<1>1. svc \in FoundService
  BY ParamTypes, ElementOfSeq DEF svc, TypeOK
<1>2. /\ svc.instance \in Seq(Token) /\ svc.service_type \in Seq(Token)
      /\ svc.domain \in Seq(Token) /\ <<Dot>> \in Seq(Token)
  BY <1>1, NamesAssumption DEF FoundService, String
<1>3. Fqdn(svc) \in String
  <2>1. svc.instance \o <<Dot>> \in Seq(Token)
    BY <1>2, ConcatProperties
  <2>2. svc.instance \o <<Dot>> \o svc.service_type \in Seq(Token)
    BY <1>2, <2>1, ConcatProperties
  <2>3. svc.instance \o <<Dot>> \o svc.service_type \o <<Dot>> \in Seq(Token)
    BY <1>2, <2>2, ConcatProperties
  <2> QED
    BY <1>2, <2>3, ConcatProperties DEF Fqdn, String
<1>4. HasTxt(svc) => svc.txt_kv \in Seq(DOMAIN TxtOctets)
  BY <1>1 DEF HasTxt, FoundService
<1>5. TxtCount \in Nat
  BY <1>4, LenProperties DEF TxtCount
<1>6. \A n \in 1 .. TxtCount : TxtSize(n) \in Nat
  <2> SUFFICES ASSUME NEW n \in 1 .. TxtCount, HasTxt(svc)
               PROVE  TxtSize(n) \in Nat
    BY DEF TxtSize
  <2>1. TxtOctets[svc.txt_kv[n]] \in Nat
    BY <1>4, ElementOfSeq, AnswersAssumption DEF TxtCount
  <2> QED
    BY <2>1, AnswersAssumption DEF TxtSize, MinOf
<1> QED
  BY <1>1, <1>3, <1>5, <1>6 DEF FoundService

(* What is left of a name after a label, and the label's size. *)
LEMMA LabelTypes ==
    ASSUME TypeOK, enc.rest # << >>
    PROVE  /\ LabelLen \in Nat
           /\ SubSeq(enc.rest, 3, Len(enc.rest)) \in String
<1>1. enc.rest \in Seq(Token) /\ Len(enc.rest) \in Nat \ {0}
  BY EmptySeq DEF TypeOK, String
<1>2. Head(enc.rest) \in Token
  BY <1>1
<1>3. LabelLen \in Nat
  BY <1>2, NamesAssumption DEF LabelLen
<1>4. SubSeq(enc.rest, 3, Len(enc.rest)) \in Seq(Token)
  BY <1>1, ElementOfSeq, SubSeqProperties
<1> QED
  BY <1>3, <1>4 DEF String

-----------------------------------------------------------------------------
(* The invariant holds initially and every action keeps it, and keeps what *)
(* is committed.                                                           *)

(* The invariant holds before the builder is called. *)
LEMMA InitIInv == Init => IInv
<1> SUFFICES ASSUME Init PROVE IInv
  OBVIOUS
<1>1. out_len \in Nat /\ svcs \in Seq(FoundService) /\ Len(svcs) \in Nat
  BY BuilderAssumption, LenProperties DEF Init
<1>2. << >> \in String
  BY DEF String
<1> QED
  BY <1>1, <1>2 DEF Init, IInv, TypeOK, WritesInBounds, InLoop, InRecord, SitesMatch,
                    RoomChecked, WritesAhead, NoEncoding

USE DEF HEADER

(* The builder's entry keeps it, and what is committed. *)
LEMMA StartStep ==
    ASSUME IInv, Start
    PROVE  IInv' /\ KeepsBelow
<1>1. TypeOK /\ out_len \in Nat /\ question.name \in String
  BY ParamTypes DEF IInv
<1>2. CASE out_len < HEADER
  BY <1>1, <1>2 DEF Start, Return, IInv, TypeOK, WritesInBounds, InLoop, InRecord,
     SitesMatch, RoomChecked, WritesAhead, KeepsBelow, params, counters, buffer
<1>3. CASE out_len >= HEADER
  <2>1. Write(0, HEADER, "header")
    BY <1>1, <1>3 DEF Start
  <2>2. high' \in Nat /\ high' <= out_len /\ DOMAIN out' = DOMAIN out
    BY <1>1, <1>3, <2>1, WriteStays DEF IInv, TypeOK, WritesInBounds
  <2>3. KeepsBelow
    BY <1>1, <1>3, <2>1, WriteKeeps DEF IInv, TypeOK, RoomChecked, WritesAhead
  <2>4. IInv'
    BY <1>1, <1>3, <2>2 DEF Start, Call, IInv, TypeOK, WritesInBounds, InLoop, InRecord,
       SitesMatch, RoomChecked, WritesAhead, params, counters
  <2> QED
    BY <2>3, <2>4
<1> QED
  BY <1>1, <1>2, <1>3

(* So does writing one label of a name, *)
LEMMA EncodeLabelStep ==
    ASSUME IInv, EncodeLabel
    PROVE  IInv' /\ KeepsBelow
<1>1. /\ TypeOK /\ out_len \in Nat /\ offset \in Nat /\ enc.written \in Nat
      /\ LabelLen \in Nat /\ SubSeq(enc.rest, 3, Len(enc.rest)) \in String
  BY ParamTypes, LabelTypes DEF IInv, EncodeLabel, TypeOK
<1>2. offset + enc.written + (1 + LabelLen) <= out_len
  BY <1>1 DEF EncodeLabel, LabelRefused, avail
<1>3. Write(offset + enc.written, 1 + LabelLen, "name")
  BY DEF EncodeLabel
<1>4. high' \in Nat /\ high' <= out_len /\ DOMAIN out' = DOMAIN out
  BY <1>1, <1>2, <1>3, WriteStays DEF IInv, TypeOK, WritesInBounds
<1>5. KeepsBelow
  BY <1>1, <1>2, <1>3, WriteKeeps DEF IInv, TypeOK, RoomChecked, WritesAhead
<1>6. /\ enc' \in [site : {"none", "question", "SRV", "target", "TXT"},
                   rest : String, written : Nat]
      /\ enc'.site = enc.site
      /\ enc'.written = enc.written + 1 + LabelLen
  <2> DEFINE rest == SubSeq(enc.rest, 3, Len(enc.rest))
  <2>1. enc' = [site |-> enc.site, rest |-> rest, written |-> enc.written + 1 + LabelLen]
    BY DEF EncodeLabel
  <2>2. /\ enc.site \in {"none", "question", "SRV", "target", "TXT"}
        /\ rest \in String /\ enc.written + 1 + LabelLen \in Nat
    BY <1>1 DEF TypeOK
  <2> HIDE DEF rest
  <2> QED
    BY <2>1, <2>2
<1>7. IInv'
  BY <1>1, <1>2, <1>4, <1>6, SMTT(60) DEF EncodeLabel, IInv, TypeOK, WritesInBounds, InLoop,
     InRecord, SitesMatch, RoomChecked, WritesAhead, params, counters
<1> QED
  BY <1>5, <1>7

(* the name that does not fit, *)
LEMMA EncodeFailsStep ==
    ASSUME IInv, EncodeFails
    PROVE  IInv' /\ KeepsBelow
<1>1. TypeOK /\ out_len \in Nat /\ << >> \in String
  BY ParamTypes DEF IInv, String
<1> QED
  BY <1>1 DEF EncodeFails, Return, NoEncoding, IInv, TypeOK, WritesInBounds, InLoop,
     InRecord, SitesMatch, RoomChecked, WritesAhead, KeepsBelow,
     params, counters, buffer

(* the name's end, *)
LEMMA EncodeEndsStep ==
    ASSUME IInv, EncodeEnds
    PROVE  IInv' /\ KeepsBelow
<1>1. /\ TypeOK /\ out_len \in Nat /\ offset \in Nat /\ enc.written \in Nat
      /\ enc.site \in {"question", "SRV", "target", "TXT"}
  BY ParamTypes DEF IInv, EncodeEnds, TypeOK, SitesMatch
<1>2. offset + enc.written + 1 <= out_len
  BY <1>1 DEF EncodeEnds, avail
<1>3. Write(offset + enc.written, 1, "name")
  BY DEF EncodeEnds
<1>4. high' \in Nat /\ high' <= out_len /\ DOMAIN out' = DOMAIN out
  BY <1>1, <1>2, <1>3, WriteStays DEF IInv, TypeOK, WritesInBounds
<1>5. KeepsBelow
  BY <1>1, <1>2, <1>3, WriteKeeps DEF IInv, TypeOK, RoomChecked, WritesAhead
<1>6. /\ enc' \in [site : {"none", "question", "SRV", "target", "TXT"},
                   rest : String, written : Nat]
      /\ enc'.site = enc.site
  BY <1>1 DEF EncodeEnds, TypeOK
<1>7. /\ enc.site = "question" => pc' = "question"
      /\ enc.site \in {"SRV", "TXT"} => pc' = "header"
      /\ enc.site = "target" => pc' = "rdlength"
  BY DEF EncodeEnds, AfterName
<1>8. /\ pc = "encode" /\ offset' = offset + enc.written + 1
      /\ UNCHANGED <<question, svcs, out_len, i, answer_count, rdlength_pos,
                     rdata_start, txt_i, committed, result>>
  BY DEF EncodeEnds, params, counters
<1>9. TypeOK'
  BY <1>1, <1>4, <1>6, <1>7, <1>8 DEF TypeOK
<1>10. WritesInBounds'
  BY <1>1, <1>2, <1>4, <1>8 DEF IInv, WritesInBounds
<1>11. (InLoop => i <= Len(svcs))' /\ SitesMatch'
  BY <1>1, <1>6, <1>7, <1>8 DEF IInv, InLoop, SitesMatch
<1>12. RoomChecked' /\ WritesAhead'
  <2>1. (InRecord => rdlength_pos + 2 <= out_len /\ committed <= rdlength_pos)'
    <3>1. enc.site # "target" => ~ InRecord'
      BY <1>1, <1>7 DEF InRecord
    <3>2. enc.site = "target" => InRecord
      BY <1>8 DEF InRecord
    <3> QED
      BY <3>1, <3>2, <1>8 DEF IInv, RoomChecked, WritesAhead
  <2>2. HEADER <= out_len /\ pc' \notin {"start", "encode"}
    BY <1>1, <1>7, <1>8 DEF IInv, RoomChecked
  <2>3. committed' <= offset'
    BY <1>1, <1>8 DEF IInv, TypeOK, WritesAhead
  <2> QED
    BY <2>1, <2>2, <2>3, <1>1, <1>2, <1>8 DEF RoomChecked, WritesAhead
<1> QED
  BY <1>5, <1>9, <1>10, <1>11, <1>12 DEF IInv

(* the type and class of the question, *)
LEMMA QuestionTailStep ==
    ASSUME IInv, QuestionTail
    PROVE  IInv' /\ KeepsBelow
<1>1. TypeOK /\ out_len \in Nat /\ offset \in Nat
  BY ParamTypes DEF IInv, TypeOK
<1>2. CASE offset + 4 > out_len
  BY <1>1, <1>2 DEF QuestionTail, Return, IInv, TypeOK, WritesInBounds, InLoop, InRecord,
     SitesMatch, RoomChecked, WritesAhead, KeepsBelow, params, buffer
<1>3. CASE offset + 4 <= out_len
  <2>1. Write(offset, 4, "question")
    BY <1>1, <1>3 DEF QuestionTail
  <2>2. high' \in Nat /\ high' <= out_len /\ DOMAIN out' = DOMAIN out
    BY <1>1, <1>3, <2>1, WriteStays DEF IInv, WritesInBounds, TypeOK
  <2>3. KeepsBelow
    BY <1>1, <2>1, WriteKeeps DEF IInv, TypeOK, RoomChecked, WritesAhead
  <2>4. IInv'
    BY <1>1, <1>3, <2>2 DEF QuestionTail, IInv, TypeOK, WritesInBounds, InLoop, InRecord,
       SitesMatch, RoomChecked, WritesAhead, params
  <2> QED
    BY <2>3, <2>4
<1> QED
  BY <1>1, <1>2, <1>3

(* the address record, *)
LEMMA AddressAnswerStep ==
    ASSUME IInv, AddressAnswer
    PROVE  IInv' /\ KeepsBelow
<1>1. TypeOK /\ out_len \in Nat /\ offset \in Nat /\ AddressSize \in Nat
  BY ParamTypes DEF IInv, TypeOK, AddressSize
<1>2. CASE offset + 12 + AddressSize > out_len
  BY <1>1, <1>2 DEF AddressAnswer, Return, IInv, TypeOK, WritesInBounds, InLoop, InRecord,
     SitesMatch, RoomChecked, WritesAhead, KeepsBelow, params, buffer
<1>3. CASE offset + 12 + AddressSize <= out_len
  <2>1. Write(offset, 12 + AddressSize, "address")
    BY <1>1, <1>3 DEF AddressAnswer
  <2>2. high' \in Nat /\ high' <= out_len /\ DOMAIN out' = DOMAIN out
    BY <1>1, <1>3, <2>1, WriteStays DEF IInv, WritesInBounds, TypeOK
  <2>3. KeepsBelow
    BY <1>1, <2>1, WriteKeeps DEF IInv, TypeOK, RoomChecked, WritesAhead
  <2>4. IInv'
    BY <1>1, <1>3, <2>2 DEF AddressAnswer, Return, IInv, TypeOK, WritesInBounds, InLoop,
       InRecord, SitesMatch, RoomChecked, WritesAhead, params
  <2> QED
    BY <2>3, <2>4
<1> QED
  BY <1>1, <1>2, <1>3

(* going on to the next service, *)
LEMMA NextServiceStep ==
    ASSUME IInv, NextService
    PROVE  IInv' /\ KeepsBelow
<1>1. /\ TypeOK /\ out_len \in Nat /\ Len(svcs) \in Nat /\ i \in Nat
      /\ i <= Len(svcs) => Fqdn(svc) \in String
  BY ParamTypes, ServiceTypes DEF IInv, TypeOK
<1> QED
  BY <1>1 DEF NextService, Call, IInv, TypeOK, WritesInBounds, InLoop, InRecord,
     SitesMatch, RoomChecked, WritesAhead, KeepsBelow, params, buffer

(* the fixed part of a record, *)
LEMMA AnswerHeaderStep ==
    ASSUME IInv, AnswerHeader
    PROVE  IInv' /\ KeepsBelow
<1>1. TypeOK /\ out_len \in Nat /\ offset \in Nat
  BY ParamTypes DEF IInv, TypeOK
<1>2. CASE offset + 10 > out_len
  BY <1>1, <1>2, SMTT(60) DEF AnswerHeader, IInv, TypeOK, WritesInBounds, InLoop, InRecord,
     SitesMatch, RoomChecked, WritesAhead, KeepsBelow, params, buffer
<1>3. CASE offset + 10 <= out_len
  <2>1. Write(offset, 8, "type_class_ttl")
    BY <1>1, <1>3 DEF AnswerHeader
  <2>2. high' \in Nat /\ high' <= out_len /\ DOMAIN out' = DOMAIN out
    BY <1>1, <1>3, <2>1, WriteStays DEF IInv, WritesInBounds, TypeOK
  <2>3. KeepsBelow
    BY <1>1, <2>1, WriteKeeps DEF IInv, TypeOK, RoomChecked, WritesAhead
  <2>4. pc' = enc.site /\ enc.site \in {"SRV", "TXT"} /\ i <= Len(svcs)
    BY <1>1, <1>3 DEF AnswerHeader, IInv, SitesMatch, InLoop
  <2>5. IInv'
    BY <1>1, <1>3, <2>2, <2>4, SMTT(60) DEF AnswerHeader, IInv, TypeOK, WritesInBounds, InLoop,
       InRecord, SitesMatch, RoomChecked, WritesAhead, params
  <2> QED
    BY <2>3, <2>5
<1> QED
  BY <1>1, <1>2, <1>3

(* the numbers of an SRV record, *)
LEMMA SrvNumbersStep ==
    ASSUME IInv, SrvNumbers
    PROVE  IInv' /\ KeepsBelow
<1>1. TypeOK /\ out_len \in Nat /\ offset \in Nat /\ svc.target_host \in String
  BY ParamTypes, ServiceTypes DEF IInv, TypeOK, SrvNumbers, InLoop
<1>2. CASE offset + 6 > out_len
  BY <1>1, <1>2 DEF SrvNumbers, IInv, TypeOK, WritesInBounds, InLoop, InRecord,
     SitesMatch, RoomChecked, WritesAhead, KeepsBelow, params, counters, buffer
<1>3. CASE offset + 6 <= out_len
  <2>1. Write(offset, 6, "numbers")
    BY <1>1, <1>3 DEF SrvNumbers
  <2>2. high' \in Nat /\ high' <= out_len /\ DOMAIN out' = DOMAIN out
    BY <1>1, <1>3, <2>1, WriteStays DEF IInv, WritesInBounds, TypeOK
  <2>3. KeepsBelow
    BY <1>1, <2>1, WriteKeeps DEF IInv, TypeOK, RoomChecked, WritesAhead
  <2>4. IInv'
    BY <1>1, <1>3, <2>2 DEF SrvNumbers, Call, IInv, TypeOK, WritesInBounds, InLoop,
       InRecord, SitesMatch, RoomChecked, WritesAhead, params, counters
  <2> QED
    BY <2>3, <2>4
<1> QED
  BY <1>1, <1>2, <1>3

(* a string of a TXT record, *)
LEMMA TxtStringStep ==
    ASSUME IInv, TxtString
    PROVE  IInv' /\ KeepsBelow
<1> DEFINE size == TxtSize(txt_i + 1)
<1>1. TypeOK /\ out_len \in Nat /\ offset \in Nat /\ txt_i \in Nat
  BY ParamTypes DEF IInv, TypeOK
<1>2. size \in Nat
  BY <1>1, ServiceTypes DEF IInv, TxtString, InLoop
<1> HIDE DEF size
<1>3. CASE offset + size > out_len
  BY <1>1, <1>2, <1>3, SMTT(60) DEF TxtString, IInv, TypeOK, WritesInBounds, InLoop, InRecord,
     SitesMatch, RoomChecked, WritesAhead, KeepsBelow, params, buffer, size
<1>4. CASE offset + size <= out_len
  <2>1. /\ Write(offset, size, "txt")
        /\ offset' = offset + size /\ txt_i' = txt_i + 1 /\ pc' = pc
    BY <1>1, <1>2, <1>4 DEF TxtString, size
  <2>2. high' \in Nat /\ high' <= out_len /\ DOMAIN out' = DOMAIN out
    BY <1>1, <1>2, <1>4, <2>1, WriteStays DEF IInv, WritesInBounds, TypeOK
  <2>3. KeepsBelow
    BY <1>1, <1>2, <2>1, WriteKeeps DEF IInv, TypeOK, RoomChecked, WritesAhead
  <2>4. IInv'
    BY <1>1, <1>2, <1>4, <2>1, <2>2 DEF TxtString, IInv, TypeOK, WritesInBounds, InLoop,
       InRecord, SitesMatch, RoomChecked, WritesAhead, params
  <2> QED
    BY <2>3, <2>4
<1> QED
  BY <1>1, <1>2, <1>3, <1>4

(* the end of its strings, *)
LEMMA TxtEndsStep ==
    ASSUME IInv, TxtEnds
    PROVE  IInv' /\ KeepsBelow
BY ParamTypes DEF TxtEnds, IInv, TypeOK, WritesInBounds, InLoop, InRecord,
   SitesMatch, RoomChecked, WritesAhead, KeepsBelow, params, counters, buffer

(* the length patched into the record and its count, *)
LEMMA RecordEndsStep ==
    ASSUME IInv, RecordEnds
    PROVE  IInv' /\ KeepsBelow
<1>1. /\ TypeOK /\ out_len \in Nat /\ offset \in Nat /\ rdlength_pos \in Nat
      /\ Len(svcs) \in Nat /\ i \in 1 .. Len(svcs)
      /\ Fqdn(svc) \in String /\ << >> \in String
  BY ParamTypes, ServiceTypes DEF IInv, TypeOK, RecordEnds, InLoop, String
<1>2. rdlength_pos + 2 <= out_len /\ committed <= rdlength_pos
  BY DEF IInv, RecordEnds, RoomChecked, WritesAhead, InRecord
<1>3. Write(rdlength_pos, 2, "rdlength")
  BY DEF RecordEnds
<1>4. high' \in Nat /\ high' <= out_len /\ DOMAIN out' = DOMAIN out
  BY <1>1, <1>2, <1>3, WriteStays DEF IInv, WritesInBounds, TypeOK
<1>5. KeepsBelow
  BY <1>1, <1>2, <1>3, WriteKeeps DEF IInv, TypeOK, RoomChecked, WritesAhead
<1>6. IInv'
  BY <1>1, <1>2, <1>4, SMTT(60) DEF RecordEnds, Call, NoEncoding, IInv, TypeOK, WritesInBounds,
     InLoop, InRecord, SitesMatch, RoomChecked, WritesAhead, params
<1> QED
  BY <1>5, <1>6

(* and the counts patched into the header. *)
LEMMA FinishStep ==
    ASSUME IInv, Finish
    PROVE  IInv' /\ KeepsBelow
<1>1. TypeOK /\ out_len \in Nat /\ offset \in Nat /\ HEADER <= out_len
      /\ << >> \in String
  BY ParamTypes DEF IInv, TypeOK, Finish, RoomChecked, String
<1>2. Write(6, 2, "ancount")
  BY DEF Finish
<1>3. high' \in Nat /\ high' <= out_len /\ DOMAIN out' = DOMAIN out
  BY <1>1, <1>2, WriteStays DEF IInv, WritesInBounds, TypeOK
<1>4. KeepsBelow
  BY <1>1, <1>2, WriteKeeps DEF IInv, TypeOK, RoomChecked, WritesAhead
<1>5. IInv'
  BY <1>1, <1>3 DEF Finish, Return, NoEncoding, IInv, TypeOK, WritesInBounds, InLoop,
     InRecord, SitesMatch, RoomChecked, WritesAhead, params, counters
<1> QED
  BY <1>4, <1>5

(* Every step keeps the invariant and what is committed. *)
LEMMA NextStep ==
    ASSUME IInv, [Next]_vars
    PROVE  IInv' /\ KeepsBelow
<1>1. CASE UNCHANGED vars
  BY <1>1 DEF vars, params, counters, buffer, IInv, TypeOK, WritesInBounds, InLoop,
     InRecord, SitesMatch, RoomChecked, WritesAhead, KeepsBelow
<1>2. CASE Done
  BY <1>1, <1>2 DEF Done
<1> QED
  BY <1>1, <1>2, StartStep, EncodeLabelStep, EncodeFailsStep, EncodeEndsStep,
     QuestionTailStep, AddressAnswerStep, NextServiceStep, AnswerHeaderStep,
     SrvNumbersStep, TxtStringStep, TxtEndsStep, RecordEndsStep, FinishStep DEF Next

-----------------------------------------------------------------------------
(* The theorems. *)

(* The invariant, with the types of the builder's variables. *)
THEOREM Invariance == Spec => []IInv
<1>1. Init => IInv
  BY InitIInv
<1>2. IInv /\ [Next]_vars => IInv'
  BY NextStep
<1> QED
  BY <1>1, <1>2, PTL DEF Spec

(* The builder's variables keep their types. *)
THEOREM TypeCorrect == Spec => []TypeOK
<1>1. IInv => TypeOK
  BY DEF IInv
<1> QED
  BY <1>1, Invariance, PTL

(* No call of the builders writes past the end of the buffer it is given,  *)
(* of any size, nor returns a length beyond it.                            *)
THEOREM BufferSafe == Spec => []WritesInBounds
<1>1. IInv => WritesInBounds
  BY DEF IInv
<1> QED
  BY <1>1, Invariance, PTL

-----------------------------------------------------------------------------
(* What the response holds.  First names, as encode_qname goes through     *)
(* them.                                                                   *)

(* The label that encode_qname has before it, and the name behind it. *)
Rest(s) == SubSeq(s, 3, Len(s))

(* A text that begins with a label is that label, a dot and the rest, or   *)
(* the label alone.                                                        *)
LEMMA TextInParts ==
    ASSUME NEW s \in String, IsText(s), s # << >>, s[1] # Dot
    PROVE  /\ Rest(s) \in String /\ IsText(Rest(s))
           /\ s[1] \in Token \ {Dot}
           /\ \/ s = <<s[1]>> /\ Rest(s) = << >>
              \/ s = <<s[1], Dot>> \o Rest(s)
<1>1. s \in Seq(Token) /\ Len(s) \in Nat \ {0}
  BY EmptySeq DEF String
<1>2. \A k \in 1 .. Len(s) : s[k] \in Token
  BY <1>1, ElementOfSeq
<1>3. \A k \in 3 .. Len(s) : s[k] \in Token
  BY <1>1, <1>2
<1>4. Rest(s) \in Seq(Token)
  BY <1>1, <1>3, SubSeqProperties DEF Rest
<1>5. CASE Len(s) = 1
  <2>1. Rest(s) = << >>
    BY <1>1, <1>4, <1>5 DEF Rest
  <2>2. s = <<s[1]>>
    BY <1>1, <1>5
  <2>3. IsText(<< >>)
    BY DEF IsText
  <2> QED
    BY <1>1, <1>2, <1>4, <2>1, <2>2, <2>3 DEF String
<1>6. CASE Len(s) # 1
  <2>1. Len(s) >= 2 /\ s[2] = Dot
    <3>1. Len(s) >= 2 /\ 2 \in 2 .. Len(s) /\ 2 - 1 = 1
      <4> DEFINE n == Len(s)
      <4>1. n \in Nat \ {0} /\ n # 1
        BY <1>1, <1>6
      <4> HIDE DEF n
      <4> QED
        BY <4>1 DEF n
    <3>2. Dot \in {s[2 - 1], s[2]}
      BY <3>1, Zenon DEF IsText
    <3> QED
      BY <3>1, <3>2
  <2>2. Len(Rest(s)) = Len(s) - 2 /\ \A k \in 1 .. (Len(s) - 2) : Rest(s)[k] = s[k + 2]
    <3>1. Len(Rest(s)) = Len(s) - 3 + 1
      <4> DEFINE n == Len(s)
      <4>1. n \in Nat /\ n >= 2 /\ \A k \in 3 .. n : s[k] \in Token
        BY <1>1, <1>3, <2>1
      <4>2. Rest(s) = SubSeq(s, 3, n)
        BY DEF Rest
      <4> HIDE DEF n
      <4>3. Len(SubSeq(s, 3, n)) = IF 3 <= n THEN n - 3 + 1 ELSE 0
        BY <4>1, SubSeqProperties
      <4>4. (IF 3 <= n THEN n - 3 + 1 ELSE 0) = n - 3 + 1
        BY <4>1
      <4>5. Len(Rest(s)) = n - 3 + 1
        BY <4>2, <4>3, <4>4
      <4> QED
        BY <4>5 DEF n
    <3>2. \A k \in 1 .. Len(s) - 3 + 1 : Rest(s)[k] = s[3 + k - 1]
      BY <1>1, <1>3, <2>1, SubSeqProperties DEF Rest
    <3>3. Len(s) - 3 + 1 = Len(s) - 2 /\ \A k \in 1 .. (Len(s) - 2) : 3 + k - 1 = k + 2
      BY <1>1
    <3> QED
      BY <3>1, <3>2, <3>3
  <2>3. s = <<s[1], Dot>> \o Rest(s)
    <3> DEFINE r == Rest(s)
               p == <<s[1], Dot>>
    <3>1. p \in Seq(Token) /\ Len(p) = 2 /\ r \in Seq(Token) /\ p[1] = s[1] /\ p[2] = s[2]
      BY <1>1, <1>2, <1>4, <2>1
    <3>2. Len(r) = Len(s) - 2 /\ \A k \in 1 .. Len(r) : r[k] = s[k + 2]
      BY <2>2
    <3> HIDE DEF p, r
    <3>3. /\ p \o r \in Seq(Token) /\ Len(p \o r) = 2 + Len(r)
          /\ \A k \in 1 .. 2 + Len(r) : (p \o r)[k] = IF k <= 2 THEN p[k] ELSE r[k - 2]
      <4>1. p \in Seq(Token) /\ r \in Seq(Token) /\ Len(p) = 2
        BY <3>1
      <4>2. /\ p \o r \in Seq(Token) /\ Len(p \o r) = Len(p) + Len(r)
            /\ \A k \in 1 .. Len(p) + Len(r) :
                   (p \o r)[k] = IF k <= Len(p) THEN p[k] ELSE r[k - Len(p)]
        BY <4>1, ConcatProperties, Zenon
      <4> QED
        BY <4>1, <4>2, Zenon
    <3>4. \A k \in 1 .. Len(s) : (p \o r)[k] = s[k]
      <4> TAKE k \in 1 .. Len(s)
      <4>1. CASE k <= 2
        <5>1. k = 1 \/ k = 2
          BY <1>1, <4>1
        <5> QED
          BY <5>1, <1>1, <2>1, <3>1, <3>2, <3>3
      <4>2. CASE k > 2
        <5>1. k - 2 \in 1 .. Len(r) /\ k \in 1 .. 2 + Len(r) /\ (k - 2) + 2 = k
          BY <1>1, <3>2, <4>2
        <5> QED
          BY <4>2, <5>1, <3>2, <3>3
      <4>3. k <= 2 \/ k > 2
        BY <1>1
      <4> QED
        BY <4>1, <4>2, <4>3
    <3>5. Len(p \o r) = Len(s)
      BY <1>1, <2>1, <3>2, <3>3
    <3> QED
      BY <1>1, <3>3, <3>4, <3>5, SeqEqual DEF p, r
  <2>4. IsText(Rest(s))
    <3> SUFFICES ASSUME NEW k \in 2 .. Len(Rest(s)) PROVE Dot \in {Rest(s)[k - 1], Rest(s)[k]}
      BY DEF IsText
    <3>1. /\ k + 2 \in 2 .. Len(s) /\ k \in 1 .. (Len(s) - 2) /\ k - 1 \in 1 .. (Len(s) - 2)
          /\ (k - 1) + 2 = (k + 2) - 1
      BY <1>1, <2>2
    <3>2. Dot \in {s[(k + 2) - 1], s[k + 2]}
      BY <3>1 DEF IsText
    <3> QED
      BY <2>2, <3>1, <3>2
  <2> QED
    BY <1>1, <1>2, <1>4, <2>3, <2>4 DEF String
<1> QED
  BY <1>5, <1>6

(* What encode_qname writes of a name is its first label and what it       *)
(* writes of the rest; and it refuses the name for the one or the other.   *)
LEMMA LabelByLabel ==
    ASSUME NEW s \in String, IsText(s), s # << >>, s[1] # Dot
    PROVE  /\ EncodedLen(s) = 1 + Octets[s[1]] + EncodedLen(Rest(s))
           /\ Encodable(s) <=> Octets[s[1]] <= MAX_LABEL /\ Encodable(Rest(s))
<1> DEFINE l == s[1]
           r == Rest(s)
           w == TextToWire(r)
<1>1. /\ r \in String /\ l \in Token /\ l # Dot /\ Octets[l] \in Nat
      /\ \/ s = <<l>> /\ r = << >>
         \/ s = <<l, Dot>> \o r
  BY TextInParts, NamesAssumption
<1>2. w \in Seq(Token \ {Dot}) /\ w \in String
  BY <1>1, TextToWireEquations, TextToWireOfLabels
<1>3. TextToWire(<<l>>) = <<l>> /\ TextToWire(<<l, Dot>>) = <<l>>
  <2>1. << >> \in String /\ <<l>> \in String /\ <<l>> = Append(<< >>, l)
        /\ <<l, Dot>> = Append(<<l>>, Dot)
    BY <1>1 DEF String
  <2>2. TextToWire(<<l>>) = WithToken(<< >>, l)
    BY <1>1, <2>1, TextToWireEquations
  <2>3. TextToWire(<<l, Dot>>) = WithToken(TextToWire(<<l>>), Dot)
    BY <2>1, TextToWireEquations, NamesAssumption
  <2> QED
    BY <1>1, <2>1, <2>2, <2>3 DEF WithToken
<1>4. TextToWire(s) = <<l>> \o w
  <2>1. CASE s = <<l>> /\ r = << >>
    <3>1. w = << >>
      BY <2>1, TextToWireEquations
    <3>2. <<l>> \o << >> = <<l>>
      BY <1>1, ConcatEmptySeq
    <3> QED
      BY <1>3, <2>1, <3>1, <3>2
  <2>2. CASE s = <<l, Dot>> \o r
    <3>1. <<l, Dot>> \in String
      BY <1>1, NamesAssumption DEF String
    <3> DEFINE p == <<l, Dot>>
    <3>2. p \in String /\ TextToWire(p) = <<l>> /\ s = p \o r
      BY <1>3, <2>2, <3>1
    <3> HIDE DEF p, l, r
    <3> QED
      BY <1>1, <3>2, TextToWireOfConcat
  <2> QED
    BY <1>1, <2>1, <2>2
<1> HIDE DEF w, r, l
<1>5. <<l>> \in String /\ StrLen(<<l>>) = Octets[l] /\ Len(<<l>>) = 1
  <2>1. << >> \in String /\ <<l>> = Append(<< >>, l)
    BY <1>1 DEF String
  <2>2. StrLen(<<l>>) = StrLen(<< >>) + Octets[l]
    BY <1>1, <2>1, StrLenEquations
  <2> QED
    BY <1>1, <2>2, StrLenEquations DEF String
<1>6. EncodedLen(s) = 1 + Octets[l] + EncodedLen(r)
  <2>1. StrLen(<<l>> \o w) = Octets[l] + StrLen(w)
    BY <1>2, <1>5, StrLenOfConcat
  <2>2. Len(<<l>> \o w) = 1 + Len(w)
    BY <1>2, <1>5, ConcatProperties DEF String
  <2>3. StrLen(w) \in Nat /\ Len(w) \in Nat
    BY <1>2, StrLenEquations, LenProperties
  <2>4. EncodedLen(s) = 1 + (Octets[l] + StrLen(w)) + (1 + Len(w))
    BY <1>4, <2>1, <2>2 DEF EncodedLen
  <2>5. EncodedLen(r) = 1 + StrLen(w) + Len(w)
    BY DEF EncodedLen, w
  <2> DEFINE a == StrLen(w)
             b == Len(w)
             o == Octets[l]
  <2>6. a \in Nat /\ b \in Nat /\ o \in Nat
    BY <1>1, <2>3
  <2>7. EncodedLen(s) = 1 + (o + a) + (1 + b) /\ EncodedLen(r) = 1 + a + b
    BY <2>4, <2>5
  <2> HIDE DEF a, b, o
  <2>8. EncodedLen(s) = 1 + o + EncodedLen(r)
    BY <2>6, <2>7
  <2> QED
    BY <2>8 DEF o
<1>7. Encodable(s) <=> Octets[l] <= MAX_LABEL /\ Encodable(r)
  <2>1. s[1] = l
    BY DEF l
  <2>2. CASE s = <<l>> /\ r = << >>
    BY <1>1, <2>2 DEF Encodable
  <2>3. CASE s = <<l, Dot>> \o r
    <3> DEFINE n == Len(r)
    <3>0. r \in Seq(Token) /\ n \in Nat
      BY <1>1, LenProperties DEF String
    <3>1. /\ Len(s) = n + 2 /\ s[2] = Dot
          /\ \A k \in 1 .. n : s[k + 2] = r[k]
      <4> DEFINE p == <<l, Dot>>
      <4>1. p \in Seq(Token) /\ Len(p) = 2 /\ p[2] = Dot
        BY <1>1, NamesAssumption
      <4> HIDE DEF p
      <4>2. /\ Len(p \o r) = Len(p) + Len(r)
            /\ \A k \in 1 .. Len(p) + Len(r) :
                  (p \o r)[k] = IF k <= Len(p) THEN p[k] ELSE r[k - Len(p)]
        BY <3>0, <4>1, ConcatProperties
      <4>3. Len(s) = n + 2
        BY <2>3, <3>0, <4>1, <4>2 DEF p
      <4>4. s[2] = Dot
        BY <2>3, <3>0, <4>1, <4>2 DEF p
      <4>5. \A k \in 1 .. n : s[k + 2] = r[k]
        <5> TAKE k \in 1 .. n
        <5>1. k + 2 \in 1 .. 2 + n /\ ~ (k + 2 <= 2) /\ (k + 2) - 2 = k
          BY <3>0
        <5> QED
          BY <2>3, <4>1, <4>2, <5>1 DEF p
      <4> QED
        BY <4>3, <4>4, <4>5
    <3> HIDE DEF n
    <3>2. ASSUME Octets[l] <= MAX_LABEL, Encodable(r) PROVE Encodable(s)
      <4> SUFFICES ASSUME NEW k \in 1 .. Len(s)
                   PROVE  /\ s[k] = Dot => k > 1 /\ s[k - 1] # Dot
                          /\ s[k] # Dot => Octets[s[k]] <= MAX_LABEL
        BY DEF Encodable
      <4>1. CASE k = 1
        BY <1>1, <2>1, <3>2, <4>1
      <4>2. CASE k = 2
        BY <1>1, <2>1, <3>1, <4>2
      <4>3. CASE k > 2
        <5>1. k - 2 \in 1 .. n /\ (k - 2) + 2 = k
          BY <3>0, <3>1, <4>3
        <5>2. s[k] = r[k - 2]
          BY <3>1, <5>1
        <5>3. /\ r[k - 2] = Dot => k - 2 > 1 /\ r[(k - 2) - 1] # Dot
              /\ r[k - 2] # Dot => Octets[r[k - 2]] <= MAX_LABEL
          BY <3>2, <5>1 DEF Encodable, n
        <5>4. k - 2 > 1 => (k - 2) - 1 \in 1 .. n /\ ((k - 2) - 1) + 2 = k - 1
          BY <3>0, <5>1
        <5>5. k - 2 > 1 => s[k - 1] = r[(k - 2) - 1]
          BY <3>1, <5>4
        <5> QED
          BY <4>3, <5>2, <5>3, <5>5
      <4> QED
        BY <3>0, <3>1, <4>1, <4>2, <4>3
    <3>3. ASSUME Encodable(s) PROVE Octets[l] <= MAX_LABEL /\ Encodable(r)
      <4>1. 1 \in 1 .. Len(s)
        BY <3>0, <3>1
      <4>2. Octets[l] <= MAX_LABEL
        BY <1>1, <2>1, <3>3, <4>1 DEF Encodable
      <4> SUFFICES ASSUME NEW k \in 1 .. n
                   PROVE  /\ r[k] = Dot => k > 1 /\ r[k - 1] # Dot
                          /\ r[k] # Dot => Octets[r[k]] <= MAX_LABEL
        BY <4>2 DEF Encodable, n
      <4>3. k + 2 \in 1 .. Len(s) /\ s[k + 2] = r[k]
        BY <3>0, <3>1
      <4>4. /\ s[k + 2] = Dot => s[(k + 2) - 1] # Dot
            /\ s[k + 2] # Dot => Octets[s[k + 2]] <= MAX_LABEL
        BY <3>3, <4>3 DEF Encodable
      <4>5. CASE k = 1
        <5>1. (k + 2) - 1 = 2
          BY <4>5
        <5> QED
          BY <3>1, <4>3, <4>4, <5>1
      <4>6. CASE k # 1
        <5>1. k > 1 /\ k - 1 \in 1 .. n /\ (k - 1) + 2 = (k + 2) - 1
          BY <3>0, <4>6
        <5>2. s[(k + 2) - 1] = r[k - 1]
          BY <3>1, <5>1
        <5> QED
          BY <4>3, <4>4, <5>1, <5>2
      <4> QED
        BY <4>5, <4>6
    <3> QED
      BY <3>2, <3>3
  <2> QED
    BY <1>1, <2>2, <2>3
<1> QED
  BY <1>6, <1>7 DEF l, r

-----------------------------------------------------------------------------
(* TXT records and the turns of the loop, as they add up. *)

(* The strings of a TXT record, none being one empty string.               *)
Strings(s) == IF HasTxt(s) THEN Len(s.txt_kv) ELSE 1
StringSize(s, n) == IF HasTxt(s) THEN 1 + MinOf(TxtOctets[s.txt_kv[n]], MAX_TXT) ELSE 1

(* sum[n] are the bytes of the first n of them. *)
IsTxtSum(sum, s) ==
    /\ sum[0] = 0 /\ sum[Strings(s)] = TxtBytes(s)
    /\ \A n \in 0 .. Strings(s) : sum[n] \in Nat /\ sum[n] <= TxtBytes(s)
    /\ \A n \in 1 .. Strings(s) : sum[n] = sum[n - 1] + StringSize(s, n)

(* The bytes of a TXT record are those of its strings.                     *)
LEMMA TxtAddsUp ==
    ASSUME NEW s, s.txt_kv \in Seq(DOMAIN TxtOctets) \cup {NULL}
    PROVE  \E sum : IsTxtSum(sum, s)
<1>1. CASE ~ HasTxt(s)
  <2> DEFINE sum == [n \in 0 .. 1 |-> n]
  <2>1. TxtBytes(s) = 1 /\ Strings(s) = 1 /\ \A n : StringSize(s, n) = 1
    BY <1>1 DEF TxtBytes, Strings, StringSize
  <2>2. sum[0] = 0 /\ sum[1] = 1 /\ 0 .. 1 = {0, 1} /\ 1 .. 1 = {1} /\ 1 - 1 = 0
    OBVIOUS
  <2> HIDE DEF sum
  <2>3. IsTxtSum(sum, s)
    BY <2>1, <2>2 DEF IsTxtSum
  <2> QED
    BY <2>3
<1>2. CASE HasTxt(s)
  <2> DEFINE txt == IF HasTxt(s) THEN s.txt_kv ELSE << >>
             m == Len(txt)
             cost(n) == MinOf(TxtOctets[txt[n]], MAX_TXT)
             step == [x \in Nat |-> [n \in 1 .. m |-> x + 1 + cost(n)]]
             Body(f) == [n \in 0 .. m |-> IF n = 0 THEN 0 ELSE f[n - 1] + 1 + cost(n)]
             sum == CHOOSE f : f = Body(f)
  <2>1. txt \in Seq(DOMAIN TxtOctets) /\ m \in Nat
    <3>1. txt \in Seq(DOMAIN TxtOctets)
      BY <1>2 DEF HasTxt
    <3> HIDE DEF txt
    <3> QED
      BY <3>1, LenProperties
  <2>2. \A n \in 1 .. m : cost(n) \in Nat
    <3> TAKE n \in 1 .. m
    <3>1. txt[n] \in DOMAIN TxtOctets
      BY <2>1, ElementOfSeq
    <3>2. TxtOctets[txt[n]] \in Nat /\ MAX_TXT \in Nat
      BY <3>1, AnswersAssumption
    <3> QED
      BY <3>2 DEF MinOf
  <2>3. Strings(s) = m /\ \A n : StringSize(s, n) = 1 + cost(n)
    BY <1>2 DEF Strings, StringSize
  <2>4. TxtBytes(s) = sum[m]
    BY <1>2 DEF TxtBytes
  <2> HIDE DEF txt, m, cost
  <2>5. /\ step \in [Nat -> [1 .. m -> Nat]]
        /\ \A x \in Nat, n \in 1 .. m : step[x][n] = x + 1 + cost(n)
    BY <2>2
  <2> HIDE DEF step
  <2>6. PICK f \in [0 .. m -> Nat] : IsLoop(f, 0, step, m)
    BY <2>1, <2>5, CountedRecursion
  <2>7. f = Body(f)
    <3>1. \A n \in 0 .. m : f[n] = IF n = 0 THEN 0 ELSE f[n - 1] + 1 + cost(n)
      <4> TAKE n \in 0 .. m
      <4>1. CASE n = 0
        BY <4>1, <2>6 DEF IsLoop
      <4>2. CASE n # 0
        <5>1. n \in 1 .. m /\ n - 1 \in 0 .. m
          BY <2>1, <4>2
        <5> QED
          BY <4>2, <5>1, <2>5, <2>6 DEF IsLoop
      <4> QED
        BY <4>1, <4>2
    <3>2. f = [n \in 0 .. m |-> f[n]]
      OBVIOUS
    <3> QED
      BY <3>1, <3>2, Zenon
  <2>8. sum = Body(sum)
    BY <2>7
  <2> HIDE DEF sum
  <2>9. sum[0] = 0 /\ \A n \in 1 .. m : sum[n] = sum[n - 1] + 1 + cost(n)
    <3>1. 0 \in 0 .. m /\ \A n \in 1 .. m : n \in 0 .. m /\ n # 0
      BY <2>1
    <3> QED
      BY <2>8, <3>1
  <2>10. \A k \in 0 .. m : sum[k] \in Nat
    <3> TAKE k \in 0 .. m
    <3>1. \A n \in 1 .. k : n \in 1 .. m
      BY <2>1
    <3>2. \A n \in 1 .. k : sum[n - 1] \in Nat => sum[n] \in Nat
      BY <2>2, <2>9, <3>1
    <3> QED
      <4>1. k \in Nat /\ sum[0] \in Nat
        BY <2>1, <2>9
      <4> QED
        BY <3>2, <4>1, LoopKeeps, Zenon
  <2>11. \A k \in 0 .. m : sum[k] <= sum[m]
    <3> TAKE k \in 0 .. m
    <3> DEFINE T == {n \in Nat : k + n <= m => sum[k] <= sum[k + n]}
    <3>1. 0 \in T
      BY <2>10
    <3>2. ASSUME NEW n \in Nat, n \in T PROVE n + 1 \in T
      <4> SUFFICES ASSUME k + (n + 1) <= m PROVE sum[k] <= sum[k + (n + 1)]
        OBVIOUS
      <4>1. /\ k + n \in 0 .. m /\ k + (n + 1) \in 1 .. m /\ (k + (n + 1)) - 1 = k + n
            /\ k + n <= m
        BY <2>1
      <4>2. sum[k + (n + 1)] = sum[k + n] + 1 + cost(k + (n + 1))
        BY <2>9, <4>1
      <4>3. sum[k + n] \in Nat /\ cost(k + (n + 1)) \in Nat /\ sum[k] \in Nat
        BY <2>2, <2>10, <4>1
      <4>4. sum[k] <= sum[k + n]
        BY <3>2, <4>1
      <4> QED
        BY <4>2, <4>3, <4>4
    <3> HIDE DEF T
    <3>3. Nat \subseteq T
      BY <3>1, <3>2, Induction
    <3>4. m - k \in T /\ k + (m - k) = m
      BY <2>1, <3>3
    <3> QED
      BY <3>4, <2>1 DEF T
  <2>12. ASSUME NEW n \in 1 .. m PROVE sum[n] = sum[n - 1] + StringSize(s, n)
    <3>1. n - 1 \in 0 .. m
      BY <2>1
    <3> DEFINE a == sum[n - 1]
               c == cost(n)
    <3>2. sum[n] = a + 1 + c /\ StringSize(s, n) = 1 + c
      BY <2>3, <2>9
    <3>3. a \in Nat /\ c \in Nat
      BY <2>2, <2>10, <3>1
    <3> HIDE DEF a, c
    <3>4. sum[n] = a + StringSize(s, n)
      BY <3>2, <3>3
    <3> QED
      BY <3>4 DEF a
  <2>13. IsTxtSum(sum, s)
    BY <2>3, <2>4, <2>9, <2>10, <2>11, <2>12 DEF IsTxtSum
  <2> QED
    BY <2>13
<1> QED
  BY <1>1, <1>2

(* What the loop has written when it stops is what it has at the end.      *)
LEMMA EndedStays ==
    ASSUME NEW after, NEW qname, NEW list, NEW len, IsWriting(after, qname, list, len),
           Len(list) \in Nat, NEW k \in 0 .. Len(list), after[k].ended
    PROVE  after[Len(list)] = after[k]
<1> DEFINE m == Len(list)
           T == {n \in Nat : k + n <= m => after[k + n] = after[k]}
<1>1. 0 \in T
  OBVIOUS
<1>2. ASSUME NEW n \in Nat, n \in T PROVE n + 1 \in T
  <2> SUFFICES ASSUME k + (n + 1) <= m PROVE after[k + (n + 1)] = after[k]
    OBVIOUS
  <2>1. k + (n + 1) \in 1 .. m /\ (k + (n + 1)) - 1 = k + n /\ k + n <= m
    OBVIOUS
  <2>2. after[k + (n + 1)] = WithAnswer(after[k + n], k + (n + 1), list[k + (n + 1)], len)
    BY <2>1 DEF IsWriting
  <2>3. after[k + n] = after[k]
    BY <1>2, <2>1
  <2> QED
    BY <2>2, <2>3 DEF WithAnswer
<1> HIDE DEF T
<1>3. Nat \subseteq T
  BY <1>1, <1>2, Induction
<1>4. m - k \in T /\ k + (m - k) = m
  BY <1>3
<1> QED
  BY <1>4 DEF T

(* A turn of the loop from w to next, for the k-th service, by what fits   *)
(* of it: the loop goes on, or the response holds the records of last.     *)
TurnIs(w, k, s, len, next, last) ==
    LET mid == SrvEnd(s, w.at)
        srv == Append(w.records, <<k, "SRV">>)
    IN  /\ ~ Fits(s) => next = w
        /\ Fits(s) /\ ~ SrvFits(s, w.at, len) => last.records = w.records
        /\ Fits(s) /\ SrvFits(s, w.at, len) /\ ~ TxtFits(s, mid, len) =>
              last.records = srv
        /\ Fits(s) /\ SrvFits(s, w.at, len) /\ TxtFits(s, mid, len) =>
              /\ ~ next.ended /\ next.at = TxtEnd(s, mid)
              /\ next.records = Append(srv, <<k, "TXT">>)

(* That is a turn of the loop. *)
LEMMA Turn ==
    ASSUME NEW after, NEW qname, NEW list, NEW len, IsWriting(after, qname, list, len),
           Len(list) \in Nat, NEW k \in 1 .. Len(list), ~ after[k - 1].ended
    PROVE  TurnIs(after[k - 1], k, list[k], len, after[k], after[Len(list)])
<1> DEFINE w == after[k - 1]
           s == list[k]
           mid == SrvEnd(s, w.at)
<1>1. ~ w.ended
  OBVIOUS
<1>2. w \in [at : Nat, ended : BOOLEAN,
              records : Seq((1 .. Len(list)) \X {"SRV", "TXT"})]
  <2>1. k - 1 \in 0 .. Len(list)
    OBVIOUS
  <2> QED
    BY <2>1 DEF IsWriting
<1>3. after[k] = WithAnswer(w, k, s, len) /\ k \in 0 .. Len(list)
  BY DEF IsWriting
<1> HIDE DEF mid, s, w
<1>4. CASE ~ Fits(s)
  <2>1. after[k] = w
    BY <1>1, <1>3, <1>4 DEF WithAnswer
  <2> QED
    BY <1>4, <2>1 DEF TurnIs, s, w
<1>5. CASE Fits(s) /\ ~ SrvFits(s, w.at, len)
  <2>1. after[k] = [w EXCEPT !.ended = TRUE]
    BY <1>1, <1>3, <1>5 DEF WithAnswer, mid
  <2>2. w \in [at : Nat, ended : BOOLEAN,
               records : Seq((1 .. Len(list)) \X {"SRV", "TXT"})]
    BY <1>2
  <2>3. after[k].ended /\ after[k].records = w.records
    BY <2>1, <2>2
  <2>4. after[Len(list)].records = w.records
    BY <1>3, <2>3, EndedStays
  <2> QED
    BY <1>5, <2>4 DEF TurnIs, s, w
<1>6. CASE Fits(s) /\ SrvFits(s, w.at, len) /\ ~ TxtFits(s, mid, len)
  <2>1. after[k] = [at |-> mid, ended |-> TRUE, records |-> Append(w.records, <<k, "SRV">>)]
    BY <1>1, <1>3, <1>6 DEF WithAnswer, mid
  <2>2. after[k].ended /\ after[k].records = Append(w.records, <<k, "SRV">>)
    BY <2>1
  <2>3. after[Len(list)].records = Append(w.records, <<k, "SRV">>)
    BY <1>3, <2>2, EndedStays
  <2> QED
    BY <1>6, <2>3 DEF TurnIs, mid, s, w
<1>7. CASE Fits(s) /\ SrvFits(s, w.at, len) /\ TxtFits(s, mid, len)
  <2>1. after[k] = [at |-> TxtEnd(s, mid), ended |-> FALSE,
                    records |-> Append(Append(w.records, <<k, "SRV">>), <<k, "TXT">>)]
    BY <1>1, <1>3, <1>7 DEF WithAnswer, mid
  <2> QED
    BY <1>7, <2>1, SMTT(60) DEF TurnIs, mid, s, w
<1> QED
  BY <1>4, <1>5, <1>6, <1>7 DEF mid

-----------------------------------------------------------------------------
(* How far a response has come. *)

(* The turns of the loop, the strings of a TXT record, as they add up. *)
Writing(qname, list, len) == CHOOSE after : IsWriting(after, qname, list, len)
TxtSum(s) == CHOOSE sum : IsTxtSum(sum, s)

(* What the first k services have been written as. *)
After(k) == Writing(question.name, svcs, out_len)[k]

(* The records counted so far, as Answered has them. *)
Record == [of : Nat \X {"SRV", "TXT"}, rdata_start : Nat, end : Nat]
Kept == [n \in 1 .. Len(records) |-> records[n].of]

(* encode_qname is in the middle of a name: the rest decides whether it is *)
(* accepted, and is what there is still to write.                          *)
Encodes(e, name) ==
    /\ IsText(e.rest)
    /\ Encodable(name) <=> Encodable(e.rest)
    /\ EncodedLen(name) = e.written + EncodedLen(e.rest)

(* Header and question. *)
Fresh == answer_count = 0 /\ records = << >> /\ i = 1
QuestionInv ==
    /\ pc \in {"start", "question", "address"} => Fresh
    /\ pc = "encode" /\ enc.site = "question" =>
          Fresh /\ HEADER <= out_len /\ offset = HEADER /\ Encodes(enc, question.name)
    /\ pc = "question" =>
          /\ HEADER <= out_len /\ Encodable(question.name)
          /\ offset = HEADER + EncodedLen(question.name)
    /\ pc = "address" =>
          /\ question.qtype # "SRV" /\ QuestionFits(question.name, out_len)
          /\ offset = QuestionEnd(question.name)

(* The loop over the services: what is counted is what the services before *)
(* this one have been written as,                                          *)
LoopInv ==
    /\ InLoop \/ pc \in {"next", "finish"} =>
          /\ question.qtype = "SRV" /\ QuestionFits(question.name, out_len)
          /\ answer_count = Len(records) /\ offset > 0
    /\ InLoop \/ pc = "next" => ~ After(i - 1).ended
    /\ InLoop => Fits(svc) /\ (pc = "SRV" => enc.site = "SRV")
    /\ pc = "next" => offset = After(i - 1).at /\ Kept = After(i - 1).records
    /\ pc = "finish" => Kept = After(Len(svcs)).records

(* and the first record of this one ends at mid,                           *)
SrvInv ==
    LET w == After(i - 1)
    IN  InLoop /\ enc.site # "TXT" =>
          /\ Kept = w.records
          /\ pc = "encode" /\ enc.site = "SRV" => offset = w.at /\ Encodes(enc, Fqdn(svc))
          /\ pc = "header" => Encodable(Fqdn(svc)) /\ offset = w.at + EncodedLen(Fqdn(svc))
          /\ pc = "SRV" => HeaderFits(svc, w.at, out_len) /\ offset = HeaderEnd(svc, w.at)
          /\ pc = "encode" /\ enc.site = "target" =>
                /\ HeaderFits(svc, w.at, out_len) /\ offset = HeaderEnd(svc, w.at) + 6
                /\ Encodes(enc, svc.target_host)
          /\ pc = "rdlength" => SrvFits(svc, w.at, out_len) /\ offset = SrvEnd(svc, w.at)

(* from where its second record begins.                                    *)
TxtInv ==
    LET w   == After(i - 1)
        mid == SrvEnd(svc, w.at)
    IN  InLoop /\ enc.site = "TXT" =>
          /\ SrvFits(svc, w.at, out_len) /\ Kept = Append(w.records, <<i, "SRV">>)
          /\ pc = "encode" => offset = mid /\ Encodes(enc, Fqdn(svc))
          /\ pc = "header" => Encodable(Fqdn(svc)) /\ offset = mid + EncodedLen(Fqdn(svc))
          /\ pc = "TXT" =>
                /\ HeaderFits(svc, mid, out_len) /\ txt_i \in 0 .. Strings(svc)
                /\ offset = HeaderEnd(svc, mid) + TxtSum(svc)[txt_i]
          /\ pc = "rdlength" => TxtFits(svc, mid, out_len) /\ offset = TxtEnd(svc, mid)

(* The response. *)
DoneInv ==
    pc = "done" =>
        /\ question.qtype = "SRV" =>
              /\ answer_count = Len(records)
              /\ Kept = Answered(question.name, svcs, out_len)
        /\ LengthMeansAnswers

HoldsInv ==
    /\ records \in Seq(Record)
    /\ QuestionInv /\ LoopInv /\ SrvInv /\ TxtInv /\ DoneInv

-----------------------------------------------------------------------------
(* Names, label by label. *)

(* Two texts with a dot between them are a text. *)
LEMMA TextJoined ==
    ASSUME NEW s \in String, NEW u \in String, IsText(s), IsText(u)
    PROVE  /\ s \o <<Dot>> \o u \in String
           /\ IsText(s \o <<Dot>> \o u)
<1> DEFINE d == <<Dot>>
           p == s \o d
           q == p \o u
           m == Len(s)
           n == Len(u)
<1>1. s \in Seq(Token) /\ u \in Seq(Token) /\ m \in Nat /\ n \in Nat
  BY LenProperties DEF String
<1>2. d \in Seq(Token) /\ Len(d) = 1 /\ d[1] = Dot
  BY NamesAssumption
<1> HIDE DEF d, m, n
<1>3. /\ p \in Seq(Token) /\ Len(p) = m + 1
      /\ \A k \in 1 .. m + 1 : p[k] = IF k <= m THEN s[k] ELSE d[k - m]
  <2>1. /\ p \in Seq(Token) /\ Len(p) = Len(s) + Len(d)
        /\ \A k \in 1 .. Len(s) + Len(d) :
              p[k] = IF k <= Len(s) THEN s[k] ELSE d[k - Len(s)]
    BY <1>1, <1>2, ConcatProperties
  <2>2. Len(s) = m
    BY DEF m
  <2> QED
    BY <1>2, <2>1, <2>2
<1> HIDE DEF p
<1>4. /\ q \in Seq(Token) /\ Len(q) = m + 1 + n
      /\ \A k \in 1 .. m + 1 + n : q[k] = IF k <= m + 1 THEN p[k] ELSE u[k - (m + 1)]
  <2>1. /\ q \in Seq(Token) /\ Len(q) = Len(p) + Len(u)
        /\ \A k \in 1 .. Len(p) + Len(u) :
              q[k] = IF k <= Len(p) THEN p[k] ELSE u[k - Len(p)]
    BY <1>1, <1>3, ConcatProperties
  <2>2. Len(u) = n
    BY DEF n
  <2> QED
    BY <1>3, <2>1, <2>2
<1> HIDE DEF q
<1>5. ASSUME NEW k \in 2 .. Len(q) PROVE Dot \in {q[k - 1], q[k]}
  <2>1. CASE k <= m
    <3>1. q[k - 1] = s[k - 1] /\ q[k] = s[k] /\ k \in 2 .. Len(s)
      BY <1>1, <1>3, <1>4, <1>5, <2>1, SMTT(60) DEF m
    <3> QED
      BY <3>1 DEF IsText
  <2>2. CASE k = m + 1
    BY <1>1, <1>2, <1>3, <1>4, <1>5, <2>2
  <2>3. CASE k = m + 2
    <3>1. k - 1 = m + 1 /\ q[m + 1] = p[m + 1] /\ p[m + 1] = d[1]
      BY <1>1, <1>3, <1>4, <1>5, <2>3
    <3> QED
      BY <1>2, <3>1
  <2>4. CASE k > m + 2
    <3>1. /\ k - (m + 1) \in 2 .. Len(u) /\ (k - 1) - (m + 1) = (k - (m + 1)) - 1
          /\ k - 1 \in 1 .. m + 1 + n /\ k \in 1 .. m + 1 + n
          /\ ~ (k - 1 <= m + 1) /\ ~ (k <= m + 1)
      BY <1>1, <1>4, <1>5, <2>4 DEF n
    <3>2. q[k - 1] = u[(k - (m + 1)) - 1] /\ q[k] = u[k - (m + 1)]
      BY <1>4, <3>1
    <3> QED
      BY <3>1, <3>2 DEF IsText
  <2> QED
    BY <1>1, <1>4, <1>5, <2>1, <2>2, <2>3, <2>4
<1> QED
  BY <1>4, <1>5 DEF IsText, String, q, p, d

(* The names of the service at hand are texts. *)
LEMMA ServiceTexts ==
    ASSUME TypeOK, i <= Len(svcs)
    PROVE  /\ IsText(svc.target_host) /\ IsText(Fqdn(svc))
           /\ svc.txt_kv \in Seq(DOMAIN TxtOctets) \cup {NULL}
<1> DEFINE a == svc.instance
           b == svc.service_type
           c == svc.domain
<1>1. svc \in FoundService /\ i \in DOMAIN svcs
  BY ParamTypes, ServiceTypes DEF TypeOK
<1>2. /\ IsText(svc.target_host) /\ IsText(a) /\ IsText(b) /\ IsText(c)
  BY <1>1, BuilderAssumption DEF svc, TypeOK
<1>3. a \in String /\ b \in String /\ c \in String
  BY <1>1 DEF FoundService
<1>4. Fqdn(svc) = (a \o <<Dot>> \o b) \o <<Dot>> \o c
  BY DEF Fqdn
<1> HIDE DEF a, b, c
<1>5. a \o <<Dot>> \o b \in String /\ IsText(a \o <<Dot>> \o b)
  BY <1>2, <1>3, TextJoined
<1> DEFINE ab == a \o <<Dot>> \o b
<1> HIDE DEF ab
<1>6. IsText(ab \o <<Dot>> \o c)
  BY <1>2, <1>3, <1>5, TextJoined DEF ab
<1> QED
  BY <1>1, <1>2, <1>4, <1>6 DEF FoundService, ab

(* The shortest name is one byte. *)
LEMMA EncodedLenPositive ==
    ASSUME NEW s \in String
    PROVE  EncodedLen(s) \in Nat \ {0}
<1>1. TextToWire(s) \in String
  BY TextToWireEquations, TextToWireOfLabels
<1>2. StrLen(TextToWire(s)) \in Nat /\ Len(TextToWire(s)) \in Nat
  BY <1>1, StrLenEquations, LenProperties DEF String
<1> QED
  BY <1>2 DEF EncodedLen

(* At its call encode_qname has all of the name before it. *)
LEMMA EncodingBegins ==
    ASSUME NEW name \in String, IsText(name), NEW site
    PROVE  Encodes([site |-> site, rest |-> name, written |-> 0], name)
BY EncodedLenType DEF Encodes

(* A label goes from what there is to write to what is written. *)
LEMMA EncodingGoesOn ==
    ASSUME NEW name \in String, NEW s \in String, NEW n \in Nat, NEW e, NEW f,
           e.rest = s, e.written = n, Encodes(e, name),
           s # << >>, s[1] # Dot, Octets[s[1]] <= MAX_LABEL,
           f.rest = Rest(s), f.written = n + 1 + Octets[s[1]]
    PROVE  Encodes(f, name)
<1>1. /\ Rest(s) \in String /\ IsText(Rest(s)) /\ s[1] \in Token
  BY TextInParts DEF Encodes
<1>2. /\ EncodedLen(s) = 1 + Octets[s[1]] + EncodedLen(Rest(s))
      /\ Encodable(s) <=> Octets[s[1]] <= MAX_LABEL /\ Encodable(Rest(s))
  BY LabelByLabel DEF Encodes
<1>3. EncodedLen(Rest(s)) \in Nat /\ Octets[s[1]] \in Nat
  BY <1>1, EncodedLenType, NamesAssumption
<1> QED
  BY <1>1, <1>2, <1>3 DEF Encodes

(* With nothing left to write the name is accepted, *)
LEMMA EncodingEnds ==
    ASSUME NEW name \in String, NEW n \in Nat, NEW e,
           e.rest = << >>, e.written = n, Encodes(e, name)
    PROVE  Encodable(name) /\ EncodedLen(name) = n + 1
<1>1. Encodable(<< >>)
  BY DEF Encodable
<1>2. EncodedLen(<< >>) = 1
  <2>1. << >> \in String
    BY DEF String
  <2> QED
    BY <2>1, TextToWireEquations, StrLenEquations DEF EncodedLen
<1> QED
  BY <1>1, <1>2 DEF Encodes

(* and what makes encode_qname fail is that the name is not accepted or    *)
(* that it does not fit.                                                   *)
LEMMA EncodingFails ==
    ASSUME NEW name \in String, NEW s \in String, NEW n \in Nat, NEW room \in Int, NEW e,
           e.rest = s, e.written = n, Encodes(e, name), s # << >>,
           \/ s[1] = Dot
           \/ Octets[s[1]] > MAX_LABEL
           \/ n + 1 + Octets[s[1]] >= room
    PROVE  ~ Encodable(name) \/ EncodedLen(name) > room
<1>1. Len(s) \in Nat \ {0} /\ s[1] \in Token
  BY EmptySeq, ElementOfSeq DEF String
<1>2. CASE s[1] = Dot
  <2>1. 1 \in 1 .. Len(s)
    BY <1>1
  <2>2. ~ Encodable(s)
    BY <1>2, <2>1 DEF Encodable
  <2> QED
    BY <2>2 DEF Encodes
<1>3. CASE s[1] # Dot
  <2>1. /\ Rest(s) \in String
        /\ EncodedLen(s) = 1 + Octets[s[1]] + EncodedLen(Rest(s))
        /\ Encodable(s) <=> Octets[s[1]] <= MAX_LABEL /\ Encodable(Rest(s))
    BY <1>3, TextInParts, LabelByLabel DEF Encodes
  <2>2. EncodedLen(Rest(s)) \in Nat \ {0} /\ Octets[s[1]] \in Nat /\ MAX_LABEL \in Nat
    BY <1>1, <2>1, EncodedLenPositive, NamesAssumption
  <2> QED
    BY <1>3, <2>1, <2>2 DEF Encodes
<1> QED
  BY <1>2, <1>3

-----------------------------------------------------------------------------
(* What a step begins with. *)

(* There are turns of the loop to speak of. *)
LEMMA WritingIs ==
    ASSUME TypeOK
    PROVE  IsWriting(Writing(question.name, svcs, out_len), question.name, svcs, out_len)
<1>1. question.name \in String /\ out_len \in Nat /\ Len(svcs) \in Nat
  BY ParamTypes
<1>2. \A k \in 1 .. Len(svcs) : IsDescribed(svcs[k])
  <2> TAKE k \in 1 .. Len(svcs)
  <2>1. svcs[k] \in FoundService
    BY ParamTypes, ElementOfSeq
  <2> QED
    BY <2>1 DEF IsDescribed, FoundService
<1>3. \E after : IsWriting(after, question.name, svcs, out_len)
  BY <1>1, <1>2, AnswersWritten
<1> QED
  BY <1>3 DEF Writing

(* How far the first k services go is a number of bytes, and before the    *)
(* first of them there is the question.                                    *)
LEMMA AfterTypes ==
    ASSUME TypeOK
    PROVE  /\ After(0) = [at |-> QuestionEnd(question.name), ended |-> FALSE, records |-> << >>]
           /\ \A k \in 0 .. Len(svcs) : After(k).at \in Nat
           /\ Answered(question.name, svcs, out_len) =
                 IF QuestionFits(question.name, out_len)
                 THEN After(Len(svcs)).records ELSE << >>
<1> DEFINE after == Writing(question.name, svcs, out_len)
<1>1. IsWriting(after, question.name, svcs, out_len)
  BY WritingIs
<1>2. \A k : After(k) = after[k]
  BY DEF After
<1> HIDE DEF after
<1> QED
  BY <1>1, <1>2 DEF IsWriting

(* What the service at hand adds. *)
LEMMA TurnHere ==
    ASSUME TypeOK, i <= Len(svcs), ~ After(i - 1).ended
    PROVE  TurnIs(After(i - 1), i, svc, out_len, After(i), After(Len(svcs)))
<1> DEFINE after == Writing(question.name, svcs, out_len)
           n == i
<1>1. IsWriting(after, question.name, svcs, out_len)
  BY WritingIs
<1>2. \A k : After(k) = after[k]
  BY DEF After
<1>3. n \in 1 .. Len(svcs) /\ svc = svcs[n] /\ Len(svcs) \in Nat
  BY ParamTypes DEF TypeOK, svc
<1>4. ~ after[n - 1].ended
  BY <1>2
<1> HIDE DEF after, n
<1>5. TurnIs(after[n - 1], n, svcs[n], out_len, after[n], after[Len(svcs)])
  BY <1>1, <1>3, <1>4, Turn
<1> QED
  BY <1>2, <1>3, <1>5 DEF n

(* The sizes of the service at hand. *)
LEMMA ServiceSizes ==
    ASSUME TypeOK, i <= Len(svcs)
    PROVE  /\ EncodedLen(Fqdn(svc)) \in Nat \ {0}
           /\ EncodedLen(svc.target_host) \in Nat \ {0}
           /\ TxtBytes(svc) \in Nat
           /\ After(i - 1).at \in Nat
           /\ IsTxtSum(TxtSum(svc), svc)
<1>1. \E sum : IsTxtSum(sum, svc)
  BY ServiceTexts, TxtAddsUp
<1>2. IsTxtSum(TxtSum(svc), svc)
  BY <1>1 DEF TxtSum
<1>3. After(i - 1).at \in Nat
  <2>1. i - 1 \in 0 .. Len(svcs)
    BY ParamTypes DEF TypeOK
  <2> QED
    BY <2>1, AfterTypes
<1>4. TxtBytes(svc) \in Nat
  BY ServiceTexts, TxtBytesType
<1>5. Fqdn(svc) \in String /\ svc.target_host \in String
  BY ServiceTypes
<1> QED
  BY <1>2, <1>3, <1>4, <1>5, EncodedLenPositive

(* A counted record is kept as what it is a record of. *)
LEMMA RecordIsKept ==
    ASSUME records \in Seq(Record), NEW r \in Record, records' = Append(records, r)
    PROVE  /\ records' \in Seq(Record) /\ Len(records') = Len(records) + 1
           /\ Kept' = Append(Kept, r.of)
<1> DEFINE n == Len(records)
<1>1. /\ n \in Nat /\ records' \in Seq(Record) /\ Len(records') = n + 1
      /\ \A k \in 1 .. n : records'[k] = records[k]
      /\ records'[n + 1] = r
  BY LenProperties, AppendProperties
<1>2. \A k \in 1 .. n : records[k] \in Record
  BY ElementOfSeq
<1>3. /\ Kept \in Seq(Nat \X {"SRV", "TXT"}) /\ Len(Kept) = n
      /\ \A k \in 1 .. n : Kept[k] = records[k].of
  BY <1>1, <1>2, SMTT(60) DEF Kept, Record
<1>4. /\ Kept' \in Seq(Nat \X {"SRV", "TXT"}) /\ Len(Kept') = n + 1
      /\ \A k \in 1 .. n + 1 : Kept'[k] = records'[k].of
  <2>1. \A k \in 1 .. n + 1 : records'[k] \in Record
    BY <1>1, ElementOfSeq
  <2> QED
    BY <1>1, <2>1, SMTT(60) DEF Kept, Record
<1> DEFINE of == r.of
           old == Kept
<1>5. of \in Nat \X {"SRV", "TXT"}
  BY DEF Record
<1>6. old \in Seq(Nat \X {"SRV", "TXT"}) /\ Len(old) = n /\ old = Kept
  BY <1>3
<1> HIDE DEF of, old, n
<1>7. /\ Append(old, of) \in Seq(Nat \X {"SRV", "TXT"}) /\ Len(Append(old, of)) = n + 1
      /\ \A k \in 1 .. n : Append(old, of)[k] = old[k]
      /\ Append(old, of)[n + 1] = of
  BY <1>5, <1>6, AppendProperties
<1>8. \A k \in 1 .. n + 1 : Kept'[k] = Append(old, of)[k]
  <2> TAKE k \in 1 .. n + 1
  <2>1. CASE k = n + 1
    BY <1>1, <1>4, <1>7, <2>1 DEF of
  <2>2. CASE k # n + 1
    <3>1. k \in 1 .. n
      BY <1>1, <2>2
    <3> QED
      BY <1>1, <1>3, <1>4, <1>6, <1>7, <3>1
  <2> QED
    BY <2>1, <2>2
<1>9. Kept' = Append(old, of)
  BY <1>4, <1>7, <1>8, SeqEqual
<1> QED
  BY <1>1, <1>6, <1>9 DEF of, n

-----------------------------------------------------------------------------
(* Every action keeps it. *)

(* It holds before the builder is called. *)
LEMMA InitHolds == Init => HoldsInv
<1> SUFFICES ASSUME Init PROVE HoldsInv
  OBVIOUS
<1>1. records \in Seq(Record)
  BY DEF Init
<1> QED
  BY <1>1 DEF Init, HoldsInv, QuestionInv, Fresh, LoopInv, SrvInv, TxtInv, DoneInv,
              InLoop, NoEncoding

(* With no room for the header there is no response. *)
LEMMA StartHolds ==
    ASSUME IInv, HoldsInv, Start
    PROVE  HoldsInv'
<1>1. TypeOK /\ out_len \in Nat /\ question.name \in String /\ Len(svcs) \in Nat
  BY ParamTypes DEF IInv
<1>2. Fresh /\ pc = "start" /\ records \in Seq(Record)
  BY DEF Start, HoldsInv, QuestionInv
<1>3. CASE out_len < HEADER
  <2>1. pc' = "done" /\ result' = -1 /\ UNCHANGED <<params, counters>>
    BY <1>1, <1>3 DEF Start, Return
  <2>2. ~ QuestionFits(question.name, out_len)
    BY <1>1, <1>3 DEF QuestionFits
  <2>3. Kept' = << >>
    BY <1>2, <2>1 DEF Kept, Fresh, counters
  <2>4. Answered(question.name, svcs, out_len) = << >>
    BY <1>1, <2>2, AfterTypes
  <2>5. DoneInv'
    BY <1>2, <2>1, <2>2, <2>3, <2>4 DEF DoneInv, LengthMeansAnswers, Fresh, params, counters
  <2> QED
    BY <1>2, <2>1, <2>5 DEF HoldsInv, QuestionInv, LoopInv, SrvInv, TxtInv, InLoop,
       Fresh, params, counters
<1>4. CASE out_len >= HEADER
  <2>1. /\ pc' = "encode" /\ enc' = [site |-> "question", rest |-> question.name, written |-> 0]
        /\ offset' = HEADER /\ UNCHANGED <<params, counters>>
    BY <1>1, <1>4 DEF Start, Call
  <2>2. IsText(question.name)
    BY <1>1, BuilderAssumption DEF TypeOK
  <2>3. Encodes([site |-> "question", rest |-> question.name, written |-> 0], question.name)
    BY <1>1, <2>2, EncodingBegins
  <2>4. Encodes(enc, question.name)'
    BY <2>1, <2>3 DEF params
  <2> QED
    BY <1>2, <1>4, <2>1, <2>4 DEF HoldsInv, QuestionInv, LoopInv, SrvInv, TxtInv, DoneInv,
       InLoop, Fresh, params, counters
<1> QED
  BY <1>1, <1>3, <1>4

(* A label more leaves the name what it is. *)
LEMMA EncodeLabelHolds ==
    ASSUME IInv, HoldsInv, EncodeLabel
    PROVE  HoldsInv'
<1>1. /\ TypeOK /\ out_len \in Nat /\ question.name \in String /\ Len(svcs) \in Nat
      /\ pc = "encode" /\ pc' = "encode"
      /\ UNCHANGED <<params, offset, counters>>
  BY ParamTypes DEF IInv, EncodeLabel
<1>2. enc'.site = enc.site
  BY DEF EncodeLabel
<1>3. ASSUME NEW name \in String, Encodes(enc, name)
      PROVE  Encodes(enc', name)
  <2> DEFINE s == enc.rest
             n == enc.written
  <2>1. /\ s \in String /\ s # << >> /\ n \in Nat
        /\ s[1] # Dot /\ Octets[s[1]] <= MAX_LABEL
    <3>1. s \in String /\ n \in Nat /\ s # << >> /\ Head(s) = s[1]
      BY <1>1 DEF TypeOK, EncodeLabel, String
    <3>2. LabelLen # 0 /\ ~ (LabelLen > MAX_LABEL) /\ LabelLen \in Nat /\ MAX_LABEL \in Nat
      BY <1>1, <3>1, LabelTypes, NamesAssumption DEF EncodeLabel, LabelRefused
    <3>3. s[1] # Dot /\ LabelLen = Octets[s[1]]
      BY <3>1, <3>2 DEF LabelLen
    <3> QED
      BY <3>1, <3>2, <3>3
  <2>2. enc'.rest = Rest(s) /\ enc'.written = n + 1 + Octets[s[1]]
    <3>1. LabelLen = Octets[s[1]]
      <4>1. Head(s) = s[1]
        BY <2>1 DEF String
      <4> QED
        BY <2>1, <4>1 DEF LabelLen
    <3> QED
      BY <3>1 DEF EncodeLabel, Rest
  <2>3. enc.rest = s /\ enc.written = n
    OBVIOUS
  <2> HIDE DEF s, n
  <2>4. PICK e : e = enc
    OBVIOUS
  <2>5. PICK f : f = enc'
    OBVIOUS
  <2>6. Encodes(f, name)
    BY <1>3, <2>1, <2>2, <2>3, <2>4, <2>5, EncodingGoesOn
  <2> QED
    BY <2>5, <2>6
<1>4. InLoop => Fqdn(svc) \in String /\ svc.target_host \in String
  BY <1>1, ServiceTypes DEF IInv
<1>5. records' \in Seq(Record)
  BY <1>1 DEF HoldsInv, counters
<1>6. QuestionInv'
  BY <1>1, <1>2, <1>3 DEF HoldsInv, QuestionInv, Fresh, params, counters
<1>7. InLoop' <=> InLoop
  BY <1>1, <1>2 DEF InLoop
<1>8. LoopInv'
  BY <1>1, <1>7 DEF HoldsInv, LoopInv, After, svc, params, counters
<1>9. SrvInv'
  BY <1>1, <1>2, <1>3, <1>4, <1>7 DEF HoldsInv, SrvInv, After, Kept, svc, params, counters
<1>10. TxtInv'
  BY <1>1, <1>2, <1>3, <1>4, <1>7 DEF HoldsInv, TxtInv, After, Kept, svc, params, counters
<1> QED
  BY <1>1, <1>5, <1>6, <1>8, <1>9, <1>10 DEF HoldsInv, DoneInv

(* A name that does not go in whole ends the response, as it should. *)
LEMMA EncodeFailsHolds ==
    ASSUME IInv, HoldsInv, EncodeFails
    PROVE  HoldsInv'
<1>1. /\ TypeOK /\ out_len \in Nat /\ offset \in Nat /\ offset <= out_len
      /\ question.name \in String /\ Len(svcs) \in Nat
      /\ pc = "encode" /\ enc.site \in {"question", "SRV", "TXT", "target"}
      /\ UNCHANGED <<params, offset, counters>>
  BY ParamTypes DEF IInv, EncodeFails, SitesMatch, RoomChecked, TypeOK
<1>2. ASSUME NEW name \in String, Encodes(enc, name)
      PROVE  ~ Encodable(name) \/ offset + EncodedLen(name) > out_len
  <2> DEFINE s == enc.rest
             n == enc.written
             room == out_len - offset
  <2>1. s \in String /\ n \in Nat /\ room \in Int /\ enc.rest = s /\ enc.written = n
    BY <1>1 DEF TypeOK
  <2>2. EncodedLen(name) \in Nat
    BY EncodedLenType
  <2>3. CASE s = << >>
    <3>1. n >= room
      BY <2>3 DEF EncodeFails, avail
    <3> HIDE DEF s, n
    <3>2. EncodedLen(name) = n + 1
      BY <1>2, <2>1, <2>3, EncodingEnds
    <3> QED
      BY <1>1, <2>1, <3>1, <3>2
  <2>4. CASE s # << >>
    <3>1. Head(s) = s[1] /\ s[1] \in Token /\ Octets[s[1]] \in Nat
      <4>1. s \in Seq(Token) /\ Len(s) \in Nat \ {0}
        BY <2>1, <2>4, EmptySeq DEF String
      <4>2. Head(s) = s[1] /\ s[1] \in Token
        BY <4>1, ElementOfSeq
      <4> QED
        BY <4>2, NamesAssumption
    <3>2. \/ s[1] = Dot
          \/ Octets[s[1]] > MAX_LABEL
          \/ n + 1 + Octets[s[1]] >= room
      <4>1. LabelRefused
        BY <2>4 DEF EncodeFails
      <4>2. s[1] # Dot => LabelLen = Octets[s[1]] /\ Octets[s[1]] # 0
        BY <3>1, NamesAssumption DEF LabelLen
      <4> QED
        BY <4>1, <4>2 DEF LabelRefused, avail
    <3> HIDE DEF s, n, room
    <3>3. ~ Encodable(name) \/ EncodedLen(name) > room
      BY <1>2, <2>1, <2>4, <3>2, EncodingFails
    <3> QED
      BY <1>1, <2>2, <3>3 DEF room
  <2> QED
    BY <2>3, <2>4
<1>3. records' \in Seq(Record)
  BY <1>1 DEF HoldsInv, counters
<1>4. CASE enc.site = "question"
  <2>1. pc' = "done" /\ result' = -1
    BY <1>4 DEF EncodeFails, Return
  <2>2. Fresh /\ offset = HEADER
    BY <1>1, <1>4 DEF HoldsInv, QuestionInv
  <2>3. ~ QuestionFits(question.name, out_len)
    <3>1. ~ Encodable(question.name) \/ offset + EncodedLen(question.name) > out_len
      BY <1>1, <1>2, <1>4 DEF HoldsInv, QuestionInv
    <3>2. EncodedLen(question.name) \in Nat
      BY <1>1, EncodedLenType
    <3> QED
      BY <1>1, <2>2, <3>1, <3>2 DEF QuestionFits, QuestionEnd
  <2>4. Kept' = << >>
    BY <1>1, <2>2 DEF Kept, Fresh, counters
  <2>5. Answered(question.name, svcs, out_len) = << >>
    BY <1>1, <2>3, AfterTypes
  <2>6. DoneInv'
    BY <1>1, <2>1, <2>2, <2>3, <2>4, <2>5 DEF DoneInv, LengthMeansAnswers, Fresh,
       params, counters
  <2> QED
    BY <1>3, <2>1, <2>6 DEF HoldsInv, QuestionInv, LoopInv, SrvInv, TxtInv, InLoop
<1>5. CASE enc.site # "question"
  <2>1. pc' = "finish" /\ InLoop
    BY <1>1, <1>5 DEF EncodeFails, InLoop
  <2>2. /\ Fits(svc) /\ ~ After(i - 1).ended /\ i <= Len(svcs)
        /\ Fqdn(svc) \in String /\ svc.target_host \in String
    BY <1>1, <2>1, ServiceTypes DEF IInv, HoldsInv, LoopInv
  <2>3. TurnIs(After(i - 1), i, svc, out_len, After(i), After(Len(svcs)))
    BY <1>1, <2>2, TurnHere
  <2>4. Kept = After(Len(svcs)).records
    <3> DEFINE w == After(i - 1)
               mid == SrvEnd(svc, w.at)
    <3>1. /\ EncodedLen(Fqdn(svc)) \in Nat /\ EncodedLen(svc.target_host) \in Nat
          /\ w.at \in Nat /\ TxtBytes(svc) \in Nat
      BY <1>1, <2>2, ServiceSizes
    <3>2. CASE enc.site = "SRV"
      <4>1. Kept = w.records /\ offset = w.at /\ Encodes(enc, Fqdn(svc))
        BY <1>1, <2>1, <3>2 DEF HoldsInv, SrvInv
      <4>2. ~ Encodable(Fqdn(svc)) \/ offset + EncodedLen(Fqdn(svc)) > out_len
        BY <1>2, <2>2, <4>1
      <4>3. ~ SrvFits(svc, w.at, out_len)
        BY <1>1, <3>1, <4>1, <4>2 DEF SrvFits, HeaderFits
      <4> QED
        BY <2>2, <2>3, <4>1, <4>3 DEF TurnIs
    <3>3. CASE enc.site = "target"
      <4>1. /\ Kept = w.records /\ offset = HeaderEnd(svc, w.at) + 6
            /\ Encodes(enc, svc.target_host)
        BY <1>1, <2>1, <3>3 DEF HoldsInv, SrvInv
      <4>2. ~ Encodable(svc.target_host) \/ offset + EncodedLen(svc.target_host) > out_len
        BY <1>2, <2>2, <4>1
      <4>3. ~ SrvFits(svc, w.at, out_len)
        BY <1>1, <3>1, <4>1, <4>2 DEF SrvFits, SrvEnd, HeaderEnd
      <4> QED
        BY <2>2, <2>3, <4>1, <4>3 DEF TurnIs
    <3>4. CASE enc.site = "TXT"
      <4>1. /\ Kept = Append(w.records, <<i, "SRV">>) /\ offset = mid
            /\ SrvFits(svc, w.at, out_len) /\ Encodes(enc, Fqdn(svc))
        BY <1>1, <2>1, <3>4 DEF HoldsInv, TxtInv
      <4>2. ~ Encodable(Fqdn(svc)) \/ offset + EncodedLen(Fqdn(svc)) > out_len
        BY <1>2, <2>2, <4>1
      <4>3. ~ TxtFits(svc, mid, out_len)
        BY <1>1, <3>1, <4>1, <4>2 DEF TxtFits, HeaderFits
      <4> QED
        BY <2>2, <2>3, <4>1, <4>3 DEF TurnIs
    <3> QED
      BY <1>1, <1>5, <3>2, <3>3, <3>4
  <2>5. Kept' = Kept /\ (After(Len(svcs)).records)' = After(Len(svcs)).records
    BY <1>1 DEF Kept, After, params, counters
  <2>6. LoopInv'
    BY <1>1, <2>1, <2>4, <2>5 DEF HoldsInv, LoopInv, InLoop, params, counters
  <2> QED
    BY <1>3, <2>1, <2>6 DEF HoldsInv, QuestionInv, SrvInv, TxtInv, DoneInv, InLoop
<1> QED
  BY <1>4, <1>5

(* A name that does is written as the records are to be. *)
LEMMA EncodeEndsHolds ==
    ASSUME IInv, HoldsInv, EncodeEnds
    PROVE  HoldsInv'
<1>1. /\ TypeOK /\ out_len \in Nat /\ offset \in Nat
      /\ question.name \in String /\ Len(svcs) \in Nat
      /\ pc = "encode" /\ enc.site \in {"question", "SRV", "TXT", "target"}
      /\ UNCHANGED <<params, counters>>
  BY ParamTypes DEF IInv, EncodeEnds, SitesMatch, TypeOK
<1>2. enc'.site = enc.site
  BY <1>1 DEF EncodeEnds, TypeOK
<1>3. /\ enc.site = "question" => pc' = "question"
      /\ enc.site \in {"SRV", "TXT"} => pc' = "header"
      /\ enc.site = "target" => pc' = "rdlength"
  BY DEF EncodeEnds, AfterName
<1>4. offset' <= out_len
  BY <1>1, SMTT(60) DEF EncodeEnds, avail, TypeOK
<1>5. ASSUME NEW name \in String, Encodes(enc, name)
      PROVE  Encodable(name) /\ offset' = offset + EncodedLen(name)
  <2> DEFINE n == enc.written
  <2>1. enc.rest = << >> /\ n \in Nat /\ offset' = offset + n + 1
    BY <1>1 DEF EncodeEnds, TypeOK
  <2>2. enc.written = n
    OBVIOUS
  <2> HIDE DEF n
  <2>3. Encodable(name) /\ EncodedLen(name) = n + 1
    BY <1>5, <2>1, <2>2, EncodingEnds
  <2> QED
    BY <1>1, <2>1, <2>3
<1>6. records' \in Seq(Record)
  BY <1>1 DEF HoldsInv, counters
<1>7. CASE enc.site = "question"
  <2>1. /\ Fresh /\ HEADER <= out_len /\ offset = HEADER /\ Encodes(enc, question.name)
    BY <1>1, <1>7 DEF HoldsInv, QuestionInv
  <2>2. Encodable(question.name) /\ offset' = HEADER + EncodedLen(question.name)
    BY <1>1, <1>5, <2>1
  <2> QED
    BY <1>1, <1>3, <1>6, <1>7, <2>1, <2>2 DEF HoldsInv, QuestionInv, Fresh, LoopInv, SrvInv,
       TxtInv, DoneInv, InLoop, params, counters
<1>8. CASE enc.site # "question"
  <2> DEFINE w == After(i - 1)
             mid == SrvEnd(svc, w.at)
  <2>1. InLoop /\ InLoop'
    BY <1>1, <1>3, <1>8 DEF InLoop
  <2>2. /\ i <= Len(svcs) /\ Fqdn(svc) \in String /\ svc.target_host \in String
        /\ EncodedLen(Fqdn(svc)) \in Nat /\ EncodedLen(svc.target_host) \in Nat
        /\ w.at \in Nat /\ TxtBytes(svc) \in Nat
    BY <1>1, <2>1, ServiceTypes, ServiceSizes DEF IInv
  <2>3. LoopInv'
    <3>1. offset' > 0
      BY <1>1, SMTT(60) DEF EncodeEnds, TypeOK
    <3> QED
      BY <1>1, <1>3, <1>8, <2>1, <3>1 DEF HoldsInv, LoopInv, After, svc, params, counters
  <2>4. SrvInv'
    <3>1. CASE enc.site = "SRV"
      <4>1. Kept = w.records /\ offset = w.at /\ Encodes(enc, Fqdn(svc))
        BY <1>1, <2>1, <3>1 DEF HoldsInv, SrvInv
      <4>2. Encodable(Fqdn(svc)) /\ offset' = w.at + EncodedLen(Fqdn(svc))
        BY <1>5, <2>2, <4>1
      <4> QED
        BY <1>1, <1>2, <1>3, <3>1, <4>1, <4>2 DEF SrvInv, After, Kept, svc, params, counters
    <3>2. CASE enc.site = "target"
      <4>1. /\ Kept = w.records /\ HeaderFits(svc, w.at, out_len)
            /\ offset = HeaderEnd(svc, w.at) + 6 /\ Encodes(enc, svc.target_host)
        BY <1>1, <2>1, <3>2 DEF HoldsInv, SrvInv
      <4>2. /\ Encodable(svc.target_host)
            /\ offset' = HeaderEnd(svc, w.at) + 6 + EncodedLen(svc.target_host)
        BY <1>5, <2>2, <4>1
      <4>3. SrvFits(svc, w.at, out_len) /\ offset' = SrvEnd(svc, w.at)
        BY <1>4, <4>1, <4>2 DEF SrvFits, SrvEnd
      <4> QED
        BY <1>1, <1>2, <1>3, <3>2, <4>1, <4>3 DEF SrvInv, After, Kept, svc, params, counters
    <3>3. CASE enc.site = "TXT"
      BY <1>2, <3>3 DEF SrvInv
    <3> QED
      BY <1>1, <1>8, <3>1, <3>2, <3>3
  <2>5. TxtInv'
    <3>1. CASE enc.site = "TXT"
      <4>1. /\ Kept = Append(w.records, <<i, "SRV">>) /\ offset = mid
            /\ SrvFits(svc, w.at, out_len) /\ Encodes(enc, Fqdn(svc))
        BY <1>1, <2>1, <3>1 DEF HoldsInv, TxtInv
      <4>2. Encodable(Fqdn(svc)) /\ offset' = mid + EncodedLen(Fqdn(svc))
        BY <1>5, <2>2, <4>1
      <4> QED
        BY <1>1, <1>2, <1>3, <3>1, <4>1, <4>2 DEF TxtInv, After, Kept, svc, params, counters
    <3>2. CASE enc.site # "TXT"
      BY <1>2, <3>2 DEF TxtInv
    <3> QED
      BY <3>1, <3>2
  <2> QED
    BY <1>1, <1>3, <1>6, <1>8, <2>3, <2>4, <2>5 DEF HoldsInv, QuestionInv, DoneInv
<1> QED
  BY <1>7, <1>8

(* The question goes in, or there is no response. *)
LEMMA QuestionTailHolds ==
    ASSUME IInv, HoldsInv, QuestionTail
    PROVE  HoldsInv'
<1>1. /\ TypeOK /\ out_len \in Nat /\ offset \in Nat /\ question.name \in String
      /\ EncodedLen(question.name) \in Nat /\ Len(svcs) \in Nat
      /\ UNCHANGED <<params, i, answer_count, records>>
  BY ParamTypes, EncodedLenType DEF IInv, QuestionTail, TypeOK
<1>2. /\ Fresh /\ HEADER <= out_len /\ Encodable(question.name)
      /\ offset + 4 = QuestionEnd(question.name) /\ pc = "question"
  BY <1>1 DEF HoldsInv, QuestionInv, QuestionTail, QuestionEnd
<1>3. records' \in Seq(Record)
  BY <1>1 DEF HoldsInv
<1>4. CASE offset + 4 > out_len
  <2>1. pc' = "done" /\ result' = -1
    BY <1>1, <1>4 DEF QuestionTail, Return
  <2>2. ~ QuestionFits(question.name, out_len)
    BY <1>1, <1>2, <1>4 DEF QuestionFits
  <2>3. Kept' = << >>
    BY <1>1, <1>2 DEF Kept, Fresh
  <2>4. Answered(question.name, svcs, out_len) = << >>
    BY <1>1, <2>2, AfterTypes
  <2>5. DoneInv'
    BY <1>1, <1>2, <2>1, <2>2, <2>3, <2>4 DEF DoneInv, LengthMeansAnswers, Fresh, params
  <2> QED
    BY <1>3, <2>1, <2>5 DEF HoldsInv, QuestionInv, LoopInv, SrvInv, TxtInv, InLoop
<1>5. CASE offset + 4 <= out_len
  <2>1. /\ pc' = IF question.qtype = "SRV" THEN "next" ELSE "address"
        /\ offset' = offset + 4
    BY <1>1, <1>5 DEF QuestionTail
  <2>2. QuestionFits(question.name, out_len) /\ offset' = QuestionEnd(question.name)
    BY <1>1, <1>2, <1>5, <2>1 DEF QuestionFits
  <2>3. After(0) = [at |-> offset', ended |-> FALSE, records |-> << >>]
    BY <1>1, <2>2, AfterTypes
  <2>4. Kept' = << >> /\ Len(records') = 0 /\ answer_count' = 0 /\ i' - 1 = 0
    BY <1>1, <1>2 DEF Kept, Fresh
  <2>5. After(i - 1)' = After(0)
    BY <1>1, <2>4 DEF After, params
  <2>6. offset' > 0
    BY <1>1, <2>1
  <2>7. LoopInv'
    <3> SUFFICES ASSUME pc' = "next" PROVE LoopInv'
      BY <2>1 DEF LoopInv, InLoop
    <3> QED
      BY <1>1, <2>1, <2>2, <2>3, <2>4, <2>5, <2>6 DEF LoopInv, InLoop, params
  <2> QED
    BY <1>1, <1>2, <1>3, <2>1, <2>2, <2>7 DEF HoldsInv, QuestionInv, Fresh, SrvInv, TxtInv,
       DoneInv, InLoop, params
<1> QED
  BY <1>1, <1>4, <1>5

(* The address goes in, or there is no response. *)
LEMMA AddressAnswerHolds ==
    ASSUME IInv, HoldsInv, AddressAnswer
    PROVE  HoldsInv'
<1>1. /\ TypeOK /\ out_len \in Nat /\ offset \in Nat /\ AddressSize \in Nat
      /\ UNCHANGED <<params, i, records>> /\ AddressSize' = AddressSize
  BY ParamTypes DEF IInv, AddressAnswer, TypeOK, AddressSize, params
<1>2. /\ Fresh /\ question.qtype # "SRV" /\ QuestionFits(question.name, out_len)
      /\ offset = QuestionEnd(question.name)
  BY DEF HoldsInv, QuestionInv, AddressAnswer
<1>3. /\ pc' = "done"
      /\ \/ /\ offset + 12 + AddressSize > out_len
            /\ answer_count' = 0 /\ result' = -1
         \/ /\ offset + 12 + AddressSize <= out_len
            /\ answer_count' = 1 /\ result' = offset + 12 + AddressSize
  BY <1>1, <1>2 DEF AddressAnswer, Return, Fresh
<1>4. records' \in Seq(Record)
  BY <1>1 DEF HoldsInv
<1>5. AddressEnd(question.name, AddressSize) = offset + 12 + AddressSize
  BY <1>2 DEF AddressEnd
<1>6. DoneInv'
  BY <1>1, <1>2, <1>3, <1>5 DEF DoneInv, LengthMeansAnswers, params
<1> QED
  BY <1>3, <1>4, <1>6 DEF HoldsInv, QuestionInv, LoopInv, SrvInv, TxtInv, InLoop

(* The loop goes on to a service's name, over a service whose name does    *)
(* not fit, or to its end.                                                 *)
LEMMA NextServiceHolds ==
    ASSUME IInv, HoldsInv, NextService
    PROVE  HoldsInv'
<1>1. /\ TypeOK /\ out_len \in Nat /\ Len(svcs) \in Nat /\ i \in Nat
      /\ i \in 1 .. (Len(svcs) + 1) /\ pc = "next"
      /\ UNCHANGED <<params, offset, answer_count, records>>
  BY ParamTypes DEF IInv, NextService, TypeOK
<1>2. /\ question.qtype = "SRV" /\ QuestionFits(question.name, out_len)
      /\ answer_count = Len(records) /\ offset > 0 /\ ~ After(i - 1).ended
      /\ offset = After(i - 1).at /\ Kept = After(i - 1).records
  BY <1>1 DEF HoldsInv, LoopInv
<1>3. records' \in Seq(Record) /\ Kept' = Kept
  BY <1>1 DEF HoldsInv, Kept
<1>4. CASE i > Len(svcs)
  <2>1. pc' = "finish" /\ i - 1 = Len(svcs)
    BY <1>1, <1>4 DEF NextService
  <2>2. Kept = After(Len(svcs)).records
    BY <1>2, <2>1
  <2>3. LoopInv'
    BY <1>1, <1>2, <1>3, <2>1, <2>2 DEF LoopInv, InLoop, After, params
  <2> QED
    BY <1>3, <2>1, <2>3 DEF HoldsInv, QuestionInv, SrvInv, TxtInv, DoneInv, InLoop
<1>5. CASE i <= Len(svcs) /\ ~ Fits(svc)
  <2>1. i' = i + 1 /\ pc' = "next"
    BY <1>1, <1>5 DEF NextService
  <2>2. TurnIs(After(i - 1), i, svc, out_len, After(i), After(Len(svcs)))
    BY <1>1, <1>2, <1>5, TurnHere
  <2>3. After(i) = After(i - 1) /\ i' - 1 = i
    BY <1>1, <1>5, <2>1, <2>2 DEF TurnIs
  <2>4. LoopInv'
    BY <1>1, <1>2, <1>3, <2>1, <2>3 DEF LoopInv, InLoop, After, params
  <2> QED
    BY <1>3, <2>1, <2>4 DEF HoldsInv, QuestionInv, SrvInv, TxtInv, DoneInv, InLoop
<1>6. CASE i <= Len(svcs) /\ Fits(svc)
  <2>1. /\ pc' = "encode" /\ UNCHANGED i
        /\ enc' = [site |-> "SRV", rest |-> Fqdn(svc), written |-> 0]
    BY <1>1, <1>6 DEF NextService, Call
  <2>2. Fqdn(svc) \in String /\ IsText(Fqdn(svc))
    BY <1>1, <1>6, ServiceTypes, ServiceTexts
  <2>3. Encodes(enc', Fqdn(svc))
    BY <2>1, <2>2, EncodingBegins
  <2>4. LoopInv'
    BY <1>1, <1>2, <1>3, <1>6, <2>1 DEF LoopInv, InLoop, After, svc, params
  <2>5. SrvInv'
    BY <1>1, <1>2, <1>3, <2>1, <2>3 DEF SrvInv, After, svc, params
  <2> QED
    BY <1>3, <2>1, <2>4, <2>5 DEF HoldsInv, QuestionInv, TxtInv, DoneInv, InLoop
<1> QED
  BY <1>1, <1>4, <1>5, <1>6

(* Whatever of a service does not fit ends the loop as it should. *)
LEMMA ToFinish ==
    ASSUME IInv, HoldsInv, InLoop, pc' = "finish",
           UNCHANGED <<params, i, answer_count, records>>, offset' = offset,
           LET w == After(i - 1)
               mid == SrvEnd(svc, w.at)
           IN  IF enc.site = "TXT" THEN ~ TxtFits(svc, mid, out_len)
                                   ELSE ~ SrvFits(svc, w.at, out_len)
    PROVE  HoldsInv'
<1>1. /\ TypeOK /\ i <= Len(svcs) /\ Fits(svc) /\ ~ After(i - 1).ended
  BY DEF IInv, HoldsInv, LoopInv
<1>2. TurnIs(After(i - 1), i, svc, out_len, After(i), After(Len(svcs)))
  BY <1>1, TurnHere
<1>3. Kept = After(Len(svcs)).records
  BY <1>1, <1>2 DEF HoldsInv, SrvInv, TxtInv, TurnIs
<1>4. Kept' = Kept
  BY DEF Kept
<1>5. LoopInv'
  BY <1>3, <1>4 DEF HoldsInv, LoopInv, InLoop, After, params
<1>6. records' \in Seq(Record)
  BY DEF HoldsInv
<1> QED
  BY <1>5, <1>6 DEF HoldsInv, QuestionInv, SrvInv, TxtInv, DoneInv, InLoop

(* The fixed part of a record, *)
LEMMA AnswerHeaderHolds ==
    ASSUME IInv, HoldsInv, AnswerHeader
    PROVE  HoldsInv'
<1> DEFINE w == After(i - 1)
           mid == SrvEnd(svc, w.at)
           at == IF enc.site = "TXT" THEN mid ELSE w.at
<1>1. /\ TypeOK /\ out_len \in Nat /\ offset \in Nat /\ InLoop /\ i <= Len(svcs)
      /\ pc = "header" /\ enc.site \in {"SRV", "TXT"}
      /\ UNCHANGED <<params, i, answer_count, records, enc>>
  BY ParamTypes DEF IInv, AnswerHeader, TypeOK, SitesMatch, InLoop
<1>2. /\ EncodedLen(Fqdn(svc)) \in Nat /\ EncodedLen(svc.target_host) \in Nat \ {0}
      /\ w.at \in Nat /\ TxtBytes(svc) \in Nat /\ IsTxtSum(TxtSum(svc), svc)
  BY <1>1, ServiceSizes
<1>3. /\ Encodable(Fqdn(svc)) /\ offset = at + EncodedLen(Fqdn(svc))
      /\ enc.site = "SRV" => Kept = w.records
      /\ enc.site = "TXT" =>
            Kept = Append(w.records, <<i, "SRV">>) /\ SrvFits(svc, w.at, out_len)
  BY <1>1 DEF HoldsInv, SrvInv, TxtInv
<1>4. CASE offset + 10 > out_len
  <2>1. pc' = "finish" /\ offset' = offset
    BY <1>1, <1>4 DEF AnswerHeader
  <2>2. ~ HeaderFits(svc, at, out_len)
    <3>1. offset = at + EncodedLen(Fqdn(svc))
      BY <1>3
    <3>2. at \in Nat
      BY <1>2 DEF SrvEnd, HeaderEnd
    <3> HIDE DEF at
    <3> QED
      BY <1>1, <1>2, <1>4, <3>1, <3>2 DEF HeaderFits
  <2> HIDE DEF w, mid
  <2>3. IF enc.site = "TXT" THEN ~ TxtFits(svc, mid, out_len) ELSE ~ SrvFits(svc, w.at, out_len)
    BY <2>2 DEF SrvFits, TxtFits
  <2> QED
    BY <1>1, <2>1, <2>3, ToFinish DEF w, mid
<1>5. CASE offset + 10 <= out_len
  <2>1. pc' = enc.site /\ offset' = offset + 8 /\ txt_i' = 0
    BY <1>1, <1>5 DEF AnswerHeader
  <2>2. HeaderFits(svc, at, out_len) /\ offset' = HeaderEnd(svc, at)
    <3>1. at \in Nat
      BY <1>2 DEF SrvEnd, HeaderEnd
    <3> HIDE DEF at
    <3> QED
      BY <1>1, <1>2, <1>3, <1>5, <2>1, <3>1 DEF HeaderFits, HeaderEnd
  <2>3. InLoop' /\ Kept' = Kept /\ After(i - 1)' = After(i - 1) /\ records' \in Seq(Record)
    BY <1>1, <2>1 DEF InLoop, Kept, After, params, HoldsInv
  <2>4. LoopInv'
    <3>1. offset' > 0
      BY <1>1, <2>1
    <3> QED
      BY <1>1, <2>1, <2>3, <3>1 DEF HoldsInv, LoopInv, After, svc, params
  <2>5. SrvInv'
    BY <1>1, <1>3, <2>1, <2>2, <2>3 DEF SrvInv, After, svc, params
  <2>6. TxtInv'
    <3>1. TxtSum(svc)[0] = 0 /\ 0 \in 0 .. Strings(svc)
      <4>1. Strings(svc) \in Nat
        BY <1>1, ServiceTexts, LenProperties DEF Strings, HasTxt
      <4> QED
        BY <1>2, <4>1 DEF IsTxtSum
    <3>2. offset' \in Nat /\ offset' + 0 = offset'
      BY <1>1, <2>1
    <3> QED
      BY <1>1, <1>3, <2>1, <2>2, <2>3, <3>1, <3>2 DEF TxtInv, After, svc, params
  <2> QED
    BY <1>1, <2>1, <2>3, <2>4, <2>5, <2>6 DEF HoldsInv, QuestionInv, DoneInv
<1> QED
  BY <1>1, <1>4, <1>5

(* the numbers of an SRV record, *)
LEMMA SrvNumbersHolds ==
    ASSUME IInv, HoldsInv, SrvNumbers
    PROVE  HoldsInv'
<1> DEFINE w == After(i - 1)
           host == svc.target_host
<1>1. /\ TypeOK /\ out_len \in Nat /\ offset \in Nat /\ InLoop /\ i <= Len(svcs)
      /\ pc = "SRV" /\ enc.site = "SRV" /\ UNCHANGED <<params, i, answer_count, records>>
  BY ParamTypes DEF IInv, HoldsInv, LoopInv, SrvNumbers, TypeOK, InLoop, counters
<1>2. /\ EncodedLen(host) \in Nat \ {0} /\ w.at \in Nat /\ host \in String /\ IsText(host)
  BY <1>1, ServiceSizes, ServiceTypes, ServiceTexts
<1>3. /\ HeaderFits(svc, w.at, out_len) /\ offset = HeaderEnd(svc, w.at) /\ Kept = w.records
  BY <1>1 DEF HoldsInv, SrvInv
<1>4. CASE offset + 6 > out_len
  <2>1. pc' = "finish" /\ offset' = offset
    BY <1>1, <1>4 DEF SrvNumbers
  <2>2. ~ SrvFits(svc, w.at, out_len)
    BY <1>1, <1>2, <1>3, <1>4 DEF SrvFits, SrvEnd
  <2> QED
    BY <1>1, <2>1, <2>2, ToFinish
<1>5. CASE offset + 6 <= out_len
  <2>1. /\ pc' = "encode" /\ offset' = offset + 6
        /\ enc' = [site |-> "target", rest |-> host, written |-> 0]
    BY <1>1, <1>5 DEF SrvNumbers, Call
  <2>2. Encodes(enc', host)
    BY <1>2, <2>1, EncodingBegins
  <2>3. InLoop' /\ Kept' = Kept /\ After(i - 1)' = After(i - 1) /\ records' \in Seq(Record)
    BY <1>1, <2>1 DEF InLoop, Kept, After, params, HoldsInv
  <2>4. LoopInv'
    <3>1. offset' > 0
      BY <1>1, <2>1
    <3> QED
      BY <1>1, <2>1, <2>3, <3>1 DEF HoldsInv, LoopInv, After, svc, params
  <2>5. SrvInv'
    BY <1>1, <1>3, <2>1, <2>2, <2>3 DEF SrvInv, After, svc, params
  <2> QED
    BY <2>1, <2>3, <2>4, <2>5 DEF HoldsInv, QuestionInv, TxtInv, DoneInv
<1> QED
  BY <1>1, <1>4, <1>5

(* a string of a TXT record, *)
LEMMA TxtStringHolds ==
    ASSUME IInv, HoldsInv, TxtString
    PROVE  HoldsInv'
<1> DEFINE w == After(i - 1)
           mid == SrvEnd(svc, w.at)
           sum == TxtSum(svc)
           n == txt_i
           size == TxtSize(txt_i + 1)
<1>1. /\ TypeOK /\ out_len \in Nat /\ offset \in Nat /\ InLoop /\ i <= Len(svcs)
      /\ pc = "TXT" /\ enc.site = "TXT" /\ n \in Nat /\ n < Strings(svc)
      /\ UNCHANGED <<params, i, answer_count, records, enc>>
  BY ParamTypes DEF IInv, TxtString, TypeOK, SitesMatch, InLoop, TxtCount, Strings
<1>2. /\ TxtBytes(svc) \in Nat /\ w.at \in Nat /\ IsTxtSum(sum, svc)
      /\ Strings(svc) \in Nat /\ HeaderEnd(svc, mid) \in Nat
  <2>1. Strings(svc) \in Nat
    BY <1>1, ServiceTexts, LenProperties DEF Strings, HasTxt
  <2>2. /\ EncodedLen(Fqdn(svc)) \in Nat /\ EncodedLen(svc.target_host) \in Nat
        /\ TxtBytes(svc) \in Nat /\ w.at \in Nat /\ IsTxtSum(sum, svc)
    BY <1>1, ServiceSizes
  <2> HIDE DEF w, sum
  <2>3. HeaderEnd(svc, mid) \in Nat
    BY <2>2 DEF SrvEnd, HeaderEnd
  <2> QED
    BY <2>1, <2>2, <2>3
<1>3. /\ SrvFits(svc, w.at, out_len) /\ Kept = Append(w.records, <<i, "SRV">>)
      /\ HeaderFits(svc, mid, out_len) /\ offset = HeaderEnd(svc, mid) + sum[n]
  BY <1>1 DEF HoldsInv, TxtInv
<1>4. /\ sum[n] \in Nat /\ sum[n + 1] \in Nat /\ sum[n + 1] <= TxtBytes(svc)
      /\ size \in Nat /\ sum[n + 1] = sum[n] + size
  <2>1. n \in 0 .. Strings(svc) /\ n + 1 \in 1 .. Strings(svc) /\ n + 1 \in 0 .. Strings(svc)
        /\ (n + 1) - 1 = n
    BY <1>1, <1>2
  <2>2. size = StringSize(svc, n + 1)
    BY DEF TxtSize, StringSize
  <2>3. size \in Nat
    <3>1. n + 1 \in 1 .. TxtCount
      BY <2>1 DEF TxtCount, Strings
    <3> QED
      BY <1>1, <3>1, ServiceTypes
  <2> HIDE DEF size, n, sum
  <2> QED
    BY <1>2, <2>1, <2>2, <2>3 DEF IsTxtSum
<1>5. CASE offset + size > out_len
  <2>1. pc' = "finish" /\ offset' = offset
    BY <1>1, <1>4, <1>5 DEF TxtString
  <2>2. ~ TxtFits(svc, mid, out_len)
    <3> DEFINE h == HeaderEnd(svc, mid)
               a == sum[n]
               b == sum[n + 1]
               bytes == TxtBytes(svc)
    <3>1. h \in Nat /\ offset = h + a /\ TxtEnd(svc, mid) = h + bytes
      BY <1>2, <1>3 DEF TxtEnd
    <3>2. a \in Nat /\ b \in Nat /\ bytes \in Nat /\ b <= bytes /\ b = a + size
      BY <1>2, <1>4
    <3>3. size \in Nat
      BY <1>4
    <3> HIDE DEF h, a, b, bytes, size, n, mid
    <3>4. h + bytes > out_len
      BY <1>1, <1>5, <3>1, <3>2, <3>3
    <3> QED
      BY <1>1, <3>1, <3>2, <3>4 DEF TxtFits
  <2> QED
    BY <1>1, <2>1, <2>2, ToFinish
<1>6. CASE offset + size <= out_len
  <2>1. pc' = pc /\ offset' = offset + size /\ txt_i' = n + 1
    BY <1>1, <1>4, <1>6 DEF TxtString
  <2>2. offset' = HeaderEnd(svc, mid) + sum[n + 1] /\ n + 1 \in 0 .. Strings(svc)
    <3> DEFINE h == HeaderEnd(svc, mid)
    <3>1. h \in Nat /\ offset = h + sum[n]
      BY <1>2, <1>3
    <3> HIDE DEF h, sum, size, n, mid
    <3>2. offset' = h + sum[n + 1]
      BY <1>4, <2>1, <3>1
    <3> QED
      BY <1>1, <1>2, <3>2 DEF h
  <2>3. InLoop' /\ Kept' = Kept /\ After(i - 1)' = After(i - 1) /\ records' \in Seq(Record)
    BY <1>1, <2>1 DEF InLoop, Kept, After, params, HoldsInv
  <2>4. LoopInv'
    <3>1. offset' > 0
      BY <1>1, <1>4, <2>1 DEF HoldsInv, LoopInv
    <3> QED
      BY <1>1, <2>1, <2>3, <3>1 DEF HoldsInv, LoopInv, After, svc, params
  <2>5. TxtInv'
    BY <1>1, <1>3, <2>1, <2>2, <2>3 DEF TxtInv, After, svc, params
  <2> QED
    BY <1>1, <2>1, <2>3, <2>4, <2>5 DEF HoldsInv, QuestionInv, SrvInv, DoneInv
<1> QED
  BY <1>1, <1>4, <1>5, <1>6

(* the end of its strings, *)
LEMMA TxtEndsHolds ==
    ASSUME IInv, HoldsInv, TxtEnds
    PROVE  HoldsInv'
<1> DEFINE w == After(i - 1)
           mid == SrvEnd(svc, w.at)
<1>1. /\ TypeOK /\ InLoop /\ i <= Len(svcs) /\ offset <= out_len
      /\ pc = "TXT" /\ enc.site = "TXT" /\ txt_i = Strings(svc)
      /\ pc' = "rdlength" /\ UNCHANGED <<params, i, offset, answer_count, records, enc>>
  BY DEF IInv, TxtEnds, SitesMatch, RoomChecked, InLoop, TxtCount, Strings, counters
<1>2. IsTxtSum(TxtSum(svc), svc)
  BY <1>1, ServiceSizes
<1>3. /\ SrvFits(svc, w.at, out_len) /\ Kept = Append(w.records, <<i, "SRV">>)
      /\ HeaderFits(svc, mid, out_len) /\ offset = HeaderEnd(svc, mid) + TxtBytes(svc)
  BY <1>1, <1>2 DEF HoldsInv, TxtInv, IsTxtSum
<1>4. TxtFits(svc, mid, out_len) /\ offset = TxtEnd(svc, mid)
  BY <1>1, <1>3 DEF TxtFits, TxtEnd
<1>5. InLoop' /\ Kept' = Kept /\ After(i - 1)' = After(i - 1) /\ records' \in Seq(Record)
  BY <1>1 DEF InLoop, Kept, After, params, HoldsInv
<1>6. LoopInv'
  BY <1>1, <1>5 DEF HoldsInv, LoopInv, After, svc, params
<1>7. TxtInv'
  BY <1>1, <1>3, <1>4, <1>5 DEF TxtInv, After, svc, params
<1> QED
  BY <1>1, <1>5, <1>6, <1>7 DEF HoldsInv, QuestionInv, SrvInv, DoneInv

(* and the record when it is counted. *)
LEMMA RecordEndsHolds ==
    ASSUME IInv, HoldsInv, RecordEnds
    PROVE  HoldsInv'
<1> DEFINE w == After(i - 1)
           mid == SrvEnd(svc, w.at)
           type == IF enc.site = "target" THEN "SRV" ELSE "TXT"
           r == [of |-> <<i, type>>, rdata_start |-> rdata_start, end |-> offset]
<1>1. /\ TypeOK /\ InLoop /\ i <= Len(svcs) /\ i \in Nat /\ i \in 1 .. Len(svcs)
      /\ Len(svcs) \in Nat /\ pc = "rdlength" /\ enc.site \in {"target", "TXT"}
      /\ UNCHANGED <<params, offset>>
  BY ParamTypes DEF IInv, RecordEnds, SitesMatch, InLoop, TypeOK
<1>2. /\ question.qtype = "SRV" /\ QuestionFits(question.name, out_len) /\ Fits(svc)
      /\ answer_count = Len(records) /\ offset > 0 /\ ~ After(i - 1).ended
  BY <1>1 DEF HoldsInv, LoopInv
<1>3. records \in Seq(Record) /\ r \in Record /\ records' = Append(records, r)
  BY <1>1 DEF HoldsInv, Record, RecordEnds, TypeOK
<1>4. /\ records' \in Seq(Record) /\ Len(records') = Len(records) + 1
      /\ Kept' = Append(Kept, <<i, type>>)
  <2>1. r.of = <<i, type>>
    OBVIOUS
  <2> HIDE DEF r
  <2> QED
    BY <1>3, <2>1, RecordIsKept
<1>5. answer_count' = Len(records')
  BY <1>2, <1>4 DEF RecordEnds
<1>6. CASE enc.site = "target"
  <2>1. /\ pc' = "encode" /\ enc' = [site |-> "TXT", rest |-> Fqdn(svc), written |-> 0]
        /\ UNCHANGED i
    BY <1>6 DEF RecordEnds, Call
  <2>2. Kept = w.records /\ SrvFits(svc, w.at, out_len) /\ offset = mid
    BY <1>1, <1>6 DEF HoldsInv, SrvInv
  <2>3. Kept' = Append(w.records, <<i, "SRV">>)
    BY <1>4, <1>6, <2>2
  <2>4. Encodes(enc', Fqdn(svc))
    BY <1>1, <2>1, ServiceTypes, ServiceTexts, EncodingBegins
  <2>5. InLoop' /\ After(i - 1)' = After(i - 1)
    BY <1>1, <2>1 DEF InLoop, After, params
  <2>6. LoopInv'
    BY <1>1, <1>2, <1>5, <2>1, <2>5 DEF LoopInv, After, svc, params
  <2>7. TxtInv'
    BY <1>1, <2>1, <2>2, <2>3, <2>4, <2>5 DEF TxtInv, After, svc, params
  <2> QED
    BY <1>4, <2>1, <2>6, <2>7 DEF HoldsInv, QuestionInv, SrvInv, DoneInv
<1>7. CASE enc.site = "TXT"
  <2>1. pc' = "next" /\ i' = i + 1
    BY <1>7 DEF RecordEnds
  <2>2. /\ Kept = Append(w.records, <<i, "SRV">>) /\ SrvFits(svc, w.at, out_len)
        /\ TxtFits(svc, mid, out_len) /\ offset = TxtEnd(svc, mid)
    BY <1>1, <1>7 DEF HoldsInv, TxtInv
  <2>3. TurnIs(After(i - 1), i, svc, out_len, After(i), After(Len(svcs)))
    BY <1>1, <1>2, TurnHere
  <2>4. /\ ~ After(i).ended /\ After(i).at = offset
        /\ After(i).records = Append(Append(w.records, <<i, "SRV">>), <<i, "TXT">>)
    BY <1>2, <2>2, <2>3 DEF TurnIs
  <2>5. Kept' = After(i).records
    BY <1>4, <1>7, <2>2, <2>4
  <2>6. After(i - 1)' = After(i)
    <3>1. i' - 1 = i
      BY <1>1, <2>1
    <3> QED
      BY <1>1, <3>1 DEF After, params
  <2>7. LoopInv'
    BY <1>1, <1>2, <1>5, <2>1, <2>4, <2>5, <2>6 DEF LoopInv, InLoop, params
  <2> QED
    BY <1>4, <2>1, <2>7 DEF HoldsInv, QuestionInv, SrvInv, TxtInv, DoneInv, InLoop
<1> QED
  BY <1>1, <1>6, <1>7

(* The response then holds what it is to hold. *)
LEMMA FinishHolds ==
    ASSUME IInv, HoldsInv, Finish
    PROVE  HoldsInv'
<1>1. /\ TypeOK /\ pc = "finish" /\ pc' = "done"
      /\ result' = IF answer_count > 0 THEN offset ELSE 0
      /\ UNCHANGED <<params, counters>> /\ answer_count \in Nat /\ offset \in Nat
  BY DEF IInv, Finish, Return, TypeOK
<1>2. /\ question.qtype = "SRV" /\ QuestionFits(question.name, out_len)
      /\ answer_count = Len(records) /\ offset > 0 /\ Kept = After(Len(svcs)).records
  BY <1>1 DEF HoldsInv, LoopInv
<1>3. Kept' = Answered(question.name, svcs, out_len)
  BY <1>1, <1>2, AfterTypes DEF Kept, counters
<1>4. records' \in Seq(Record)
  BY <1>1 DEF HoldsInv, counters
<1>5. DoneInv'
  BY <1>1, <1>2, <1>3 DEF DoneInv, LengthMeansAnswers, params, counters
<1> QED
  BY <1>1, <1>4, <1>5 DEF HoldsInv, QuestionInv, LoopInv, SrvInv, TxtInv, InLoop

(* Every step keeps it. *)
LEMMA NextHolds ==
    ASSUME IInv, HoldsInv, [Next]_vars
    PROVE  HoldsInv'
<1>1. CASE UNCHANGED vars
  <2>1. Kept' = Kept /\ \A k : After(k)' = After(k)
    BY <1>1 DEF vars, params, counters, Kept, After
  <2>2. UNCHANGED <<pc, question, svcs, out_len, offset, i, answer_count, txt_i, records,
                    enc, result>>
    BY <1>1 DEF vars, params, counters
  <2>3. QuestionInv' /\ LoopInv'
    BY <2>1, <2>2 DEF HoldsInv, QuestionInv, LoopInv, Fresh, InLoop, After, svc
  <2>4. SrvInv' /\ TxtInv'
    BY <2>1, <2>2 DEF HoldsInv, SrvInv, TxtInv, InLoop, After, svc
  <2>5. DoneInv'
    BY <2>1, <2>2 DEF HoldsInv, DoneInv, LengthMeansAnswers, AddressSize
  <2> QED
    BY <2>2, <2>3, <2>4, <2>5 DEF HoldsInv
<1>2. CASE Done
  BY <1>1, <1>2 DEF Done
<1> QED
  BY <1>1, <1>2, StartHolds, EncodeLabelHolds, EncodeFailsHolds, EncodeEndsHolds,
     QuestionTailHolds, AddressAnswerHolds, NextServiceHolds, AnswerHeaderHolds,
     SrvNumbersHolds, TxtStringHolds, TxtEndsHolds, RecordEndsHolds, FinishHolds DEF Next

(* The response holds what the services before have been written as. *)
THEOREM HoldsInvariance == Spec => []HoldsInv
<1>1. Init => HoldsInv
  BY InitHolds
<1>2. IInv /\ HoldsInv /\ [Next]_vars => HoldsInv'
  BY NextHolds
<1> QED
  BY <1>1, <1>2, Invariance, PTL DEF Spec

(* The message declares the records it holds, and they are the ones that   *)
(* fit: for every list of services and every size of the buffer.           *)
THEOREM RecordsFit == Spec => []RecordsAsSpecified
<1>1. HoldsInv => RecordsAsSpecified
  BY DEF HoldsInv, DoneInv, RecordsAsSpecified, Kept
<1> QED
  BY <1>1, HoldsInvariance, PTL

(* A response goes out exactly when it says something.                     *)
THEOREM LengthIsHonest == Spec => []LengthMeansAnswers
<1>1. HoldsInv => LengthMeansAnswers
  BY DEF HoldsInv, DoneInv, LengthMeansAnswers
<1> QED
  BY <1>1, HoldsInvariance, PTL

-----------------------------------------------------------------------------
(* Whose the bytes behind the counted records are. *)

(* RDATA follows the place of RDLENGTH, and has a byte once it is whole.   *)
RdataInv ==
    /\ InRecord => rdlength_pos = rdata_start /\ rdata_start <= offset
    /\ pc = "TXT" /\ txt_i > 0 => rdata_start < offset
    /\ pc = "rdlength" \/ (pc = "encode" /\ enc.site = "target") => rdata_start < offset

(* While a record is built, nothing of it lies behind what is written, and *)
(* behind the counted records nothing of theirs but the byte of RDLENGTH.  *)
Building == pc \notin {"finish", "done"}
MarkInv ==
    Building =>
        /\ pc # "encode" => enc.written = 0
        /\ \A x \in DOMAIN out :
              /\ out[x][2] \in Nat /\ out[x][2] <= answer_count + 1
              /\ x >= offset + enc.written => out[x][2] <= answer_count
              /\ x >= committed /\ out[x][2] \in 1 .. answer_count => LowByteBehind(x)

(* RDATA follows RDLENGTH in every state. *)
LEMMA RdataStep ==
    ASSUME IInv, RdataInv, [Next]_vars
    PROVE  RdataInv'
<1> USE DEF RdataInv, InRecord, params, counters
<1>1. /\ offset \in Nat /\ rdata_start \in Nat /\ txt_i \in Nat /\ enc.written \in Nat
      /\ SitesMatch
  BY DEF IInv, TypeOK
<1>2. CASE Start \/ NextService \/ QuestionTail \/ AddressAnswer
  BY <1>2 DEF Start, NextService, QuestionTail, AddressAnswer, Call, Return
<1>3. CASE EncodeLabel
  <2>1. enc'.site = enc.site
    BY <1>3 DEF EncodeLabel
  <2> QED
    BY <1>3, <2>1 DEF EncodeLabel
<1>4. CASE EncodeFails \/ Finish
  BY <1>4 DEF EncodeFails, Finish, Return
<1>5. CASE EncodeEnds
  <2>1. /\ pc = "encode" /\ pc' \in {"question", "header", "rdlength"}
        /\ pc' = "rdlength" => enc.site = "target"
        /\ offset' = offset + enc.written + 1
        /\ UNCHANGED <<rdlength_pos, rdata_start, txt_i>>
    BY <1>1, <1>5 DEF EncodeEnds, AfterName, SitesMatch, IInv, TypeOK
  <2> QED
    BY <1>1, <2>1
<1>6. CASE AnswerHeader
  <2>1. enc.site \in {"SRV", "TXT"} /\ pc' \in {"finish", enc.site} /\ UNCHANGED enc
    BY <1>1, <1>6 DEF AnswerHeader, SitesMatch
  <2>2. pc' # "finish" => /\ offset' = offset + 8 /\ rdlength_pos' = offset + 8
                          /\ rdata_start' = offset + 8 /\ txt_i' = 0
    BY <1>1, <1>6 DEF AnswerHeader
  <2> QED
    BY <1>1, <2>1, <2>2
<1>7. CASE SrvNumbers
  <2>1. /\ pc = "SRV" /\ pc' \in {"finish", "encode"}
        /\ pc' = "encode" => offset' = offset + 6
        /\ UNCHANGED <<rdlength_pos, rdata_start, txt_i>>
    BY <1>7 DEF SrvNumbers, Call
  <2> QED
    BY <1>1, <2>1
<1>8. CASE TxtString
  <2> DEFINE size == TxtSize(txt_i + 1)
  <2>1. size \in Nat /\ size >= 1
    <3>1. size \in Nat
      BY <1>1, <1>8, ServiceTypes DEF IInv, TxtString, InLoop
    <3>2. HasTxt(svc) => TxtOctets[svc.txt_kv[txt_i + 1]] \in Nat
      <4>1. HasTxt(svc) => svc.txt_kv \in Seq(DOMAIN TxtOctets)
        BY <1>8, ServiceTypes DEF IInv, TxtString, InLoop, HasTxt, FoundService
      <4>2. HasTxt(svc) => txt_i + 1 \in 1 .. Len(svc.txt_kv)
        BY <1>1, <1>8, <4>1, LenProperties DEF TxtString, TxtCount
      <4> QED
        BY <4>1, <4>2, ElementOfSeq, AnswersAssumption
    <3> QED
      BY <3>1, <3>2, AnswersAssumption DEF TxtSize, MinOf
  <2> HIDE DEF size
  <2>2. /\ pc = "TXT" /\ pc' \in {"finish", "TXT"}
        /\ pc' = "TXT" => offset' = offset + size
        /\ UNCHANGED <<rdlength_pos, rdata_start, enc>>
    BY <1>8 DEF TxtString, size
  <2> QED
    BY <1>1, <2>1, <2>2
<1>9. CASE TxtEnds
  <2>1. TxtCount >= 1
    <3>1. HasTxt(svc) => svc.txt_kv \in Seq(DOMAIN TxtOctets) /\ svc.txt_kv # << >>
      BY <1>9, ServiceTypes DEF IInv, TxtEnds, InLoop, HasTxt, FoundService
    <3>2. HasTxt(svc) => Len(svc.txt_kv) \in Nat /\ Len(svc.txt_kv) # 0
      BY <3>1, LenProperties, EmptySeq
    <3> QED
      BY <3>2 DEF TxtCount
  <2> QED
    BY <1>1, <1>9, <2>1 DEF TxtEnds, buffer
<1>10. CASE RecordEnds
  <2>1. pc' \in {"encode", "next"} /\ (pc' = "encode" => enc'.site = "TXT")
    BY <1>10 DEF RecordEnds, Call
  <2> QED
    BY <2>1
<1>11. CASE UNCHANGED vars
  BY <1>11 DEF vars
<1>12. CASE Done
  BY <1>11, <1>12 DEF Done
<1> QED
  BY <1>2, <1>3, <1>4, <1>5, <1>6, <1>7, <1>8, <1>9, <1>10, <1>11, <1>12 DEF Next

(* A field written where the builder stands marks the bytes behind it only. *)
LEMMA MarksAhead ==
    ASSUME IInv, MarkInv, Building,
           NEW n \in Nat, NEW field, Write(offset + enc.written, n, field),
           UNCHANGED <<answer_count, records>>, committed' \in Nat, committed' >= committed,
           offset' \in Nat, enc'.written \in Nat, pc' # "encode" => enc'.written = 0,
           offset' + enc'.written >= offset + enc.written + n
    PROVE  MarkInv'
<1> DEFINE at == offset + enc.written
           k == answer_count
<1>1. /\ offset \in Nat /\ enc.written \in Nat /\ at \in Nat /\ k \in Nat
      /\ committed \in Nat /\ committed <= at
      /\ DOMAIN out \subseteq Int /\ DOMAIN out' = DOMAIN out
  BY DEF IInv, TypeOK, WritesAhead, Write
<1> SUFFICES ASSUME NEW x \in DOMAIN out
             PROVE  /\ out'[x][2] \in Nat /\ out'[x][2] <= k + 1
                    /\ x >= offset' + enc'.written => out'[x][2] <= k
                    /\ x >= committed' /\ out'[x][2] \in 1 .. k => LowByteBehind(x)'
  BY <1>1 DEF MarkInv
<1>2. /\ out[x][2] \in Nat /\ out[x][2] <= k + 1
      /\ x >= at => out[x][2] <= k
      /\ x >= committed /\ out[x][2] \in 1 .. k => LowByteBehind(x)
  BY DEF MarkInv
<1>3. CASE at <= x /\ x < at + n
  <2>1. out'[x] = <<field, k + 1>>
    BY <1>3 DEF Write
  <2>2. out'[x][2] = k + 1
    BY <2>1
  <2> QED
    BY <1>1, <1>3, <2>2
<1>4. CASE ~ (at <= x /\ x < at + n)
  <2>1. out'[x] = out[x]
    BY <1>4 DEF Write
  <2>2. LowByteBehind(x) => LowByteBehind(x)'
    BY <2>1 DEF LowByteBehind
  <2> QED
    BY <1>1, <1>2, <2>1, <2>2
<1> QED
  BY <1>3, <1>4

(* RDLENGTH marks the two bytes kept for it, of which the second may be    *)
(* the one behind the record.                                              *)
LEMMA RecordEndsMarks ==
    ASSUME IInv, HoldsInv, RdataInv, MarkInv, RecordEnds
    PROVE  MarkInv'
<1> DEFINE at == rdlength_pos
           k == answer_count
           r == [of |-> <<i, IF enc.site = "target" THEN "SRV" ELSE "TXT">>,
                 rdata_start |-> rdata_start, end |-> offset]
<1>1. /\ pc = "rdlength" /\ Building /\ enc.written = 0
      /\ Write(at, 2, "rdlength") /\ records' = Append(records, r)
      /\ answer_count' = k + 1 /\ committed' = offset /\ offset' = offset
      /\ enc'.written = 0
  BY DEF RecordEnds, Call, NoEncoding, Building, MarkInv
<1>2. /\ offset \in Nat /\ k \in Nat /\ committed \in Nat /\ committed <= offset
      /\ DOMAIN out \subseteq Int /\ DOMAIN out' = DOMAIN out /\ at \in Nat
      /\ rdata_start \in Nat
  BY <1>1 DEF IInv, TypeOK, WritesAhead, Write
<1>3. at = rdata_start /\ at < offset
  BY <1>1 DEF RdataInv, InRecord
<1>4. /\ k = Len(records) /\ DOMAIN records = 1 .. k /\ DOMAIN records' = 1 .. k + 1
      /\ \A m \in 1 .. k : records'[m] = records[m]
      /\ records'[k + 1].rdata_start = rdata_start /\ records'[k + 1].end = offset
  <2>1. records \in Seq(Record) /\ k = Len(records) /\ r \in Record
    <3>1. i \in Nat
      BY ParamTypes DEF IInv, TypeOK
    <3> QED
      BY <1>1, <1>2, <3>1 DEF HoldsInv, LoopInv, InLoop, Record
  <2>2. r.rdata_start = rdata_start /\ r.end = offset
    OBVIOUS
  <2> HIDE DEF r
  <2>3. /\ Len(records') = k + 1 /\ records'[k + 1] = r /\ records' \in Seq(Record)
        /\ \A m \in 1 .. k : records'[m] = records[m]
    BY <1>1, <2>1, AppendProperties
  <2> QED
    BY <2>1, <2>2, <2>3, LenProperties
<1> HIDE DEF r
<1> SUFFICES ASSUME NEW x \in DOMAIN out
             PROVE  /\ out'[x][2] \in Nat /\ out'[x][2] <= k + 2
                    /\ x >= offset => out'[x][2] <= k + 1
                    /\ x >= offset /\ out'[x][2] \in 1 .. k + 1 => LowByteBehind(x)'
  BY <1>1, <1>2 DEF MarkInv
<1>5. /\ out[x][2] \in Nat /\ out[x][2] <= k + 1
      /\ x >= offset => out[x][2] <= k
      /\ x >= committed /\ out[x][2] \in 1 .. k => LowByteBehind(x)
  BY <1>1, <1>2 DEF MarkInv
<1>6. CASE at <= x /\ x < at + 2
  <2>1. out'[x] = <<"rdlength", k + 1>> /\ out'[x][2] = k + 1
    BY <1>1, <1>6 DEF Write
  <2>2. x >= offset => LowByteBehind(x)'
    <3> SUFFICES ASSUME x >= offset PROVE LowByteBehind(x)'
      OBVIOUS
    <3>1. x = offset /\ offset = rdata_start + 1
      BY <1>2, <1>3, <1>6
    <3>2. k + 1 \in DOMAIN records'
      BY <1>2, <1>4
    <3> QED
      BY <1>4, <2>1, <3>1, <3>2 DEF LowByteBehind
  <2> QED
    BY <1>2, <2>1, <2>2
<1>7. CASE ~ (at <= x /\ x < at + 2)
  <2>1. out'[x] = out[x]
    BY <1>1, <1>7 DEF Write
  <2>2. LowByteBehind(x) => LowByteBehind(x)'
    <3> SUFFICES ASSUME NEW m \in DOMAIN records,
                        records[m].end = records[m].rdata_start + 1,
                        x = records[m].end, out[x] = <<"rdlength", m>>
                 PROVE  LowByteBehind(x)'
      BY DEF LowByteBehind
    <3>1. m \in DOMAIN records' /\ records'[m] = records[m]
      BY <1>2, <1>4
    <3> QED
      BY <2>1, <3>1 DEF LowByteBehind
  <2>3. x >= offset => x >= committed /\ out[x][2] <= k
    BY <1>2, <1>5
  <2> QED
    BY <1>2, <1>5, <2>1, <2>2, <2>3
<1> QED
  BY <1>6, <1>7

(* The marks are in place at every step. *)
LEMMA MarkStep ==
    ASSUME IInv, HoldsInv, RdataInv, MarkInv, [Next]_vars
    PROVE  MarkInv'
<1> USE DEF params, counters, buffer
<1>1. /\ offset \in Nat /\ enc.written \in Nat /\ committed \in Nat /\ committed <= offset
      /\ pc # "encode" /\ Building => offset + enc.written = offset
  BY DEF IInv, TypeOK, WritesAhead, MarkInv
<1>2. ASSUME ~ Building' PROVE MarkInv'
  BY <1>2 DEF MarkInv
<1>3. ASSUME Building, UNCHANGED <<out, answer_count, records, committed, offset>>,
             enc'.written = enc.written, pc' # "encode" => enc'.written = 0
      PROVE  MarkInv'
  BY <1>3 DEF MarkInv, LowByteBehind
<1>4. CASE Start
  <2>1. CASE pc' = "done"
    BY <1>2, <2>1 DEF Building
  <2>2. CASE pc' # "done"
    <3>1. /\ pc = "start" /\ offset = 0 /\ Building
          /\ Write(0, HEADER, "header") /\ offset' = HEADER /\ enc'.written = 0
          /\ UNCHANGED <<answer_count, records, committed>>
      BY <1>4, <2>2 DEF Start, Call, Return, IInv, RoomChecked, Building
    <3> QED
      BY <1>1, <3>1, MarksAhead
  <2> QED
    BY <2>1, <2>2
<1>5. CASE EncodeLabel
  <2>1. /\ pc = "encode" /\ pc' = "encode" /\ Building
        /\ Write(offset + enc.written, 1 + LabelLen, "name") /\ offset' = offset
        /\ enc'.written = enc.written + 1 + LabelLen
        /\ UNCHANGED <<answer_count, records, committed>>
    BY <1>5 DEF EncodeLabel, Building
  <2>2. LabelLen \in Nat
    BY <1>5, LabelTypes DEF EncodeLabel, IInv
  <2> QED
    BY <1>1, <2>1, <2>2, MarksAhead
<1>6. CASE EncodeFails \/ AddressAnswer \/ Finish
  <2>1. ~ Building'
    BY <1>6 DEF EncodeFails, AddressAnswer, Finish, Return, Building
  <2> QED
    BY <1>2, <2>1
<1>7. CASE EncodeEnds
  <2>1. /\ pc = "encode" /\ pc' # "encode" /\ Building
        /\ Write(offset + enc.written, 1, "name") /\ offset' = offset + enc.written + 1
        /\ enc'.written = 0
        /\ UNCHANGED <<answer_count, records, committed>>
    BY <1>7 DEF EncodeEnds, AfterName, Building, IInv, TypeOK, SitesMatch
  <2> QED
    BY <1>1, <2>1, MarksAhead
<1>8. CASE QuestionTail
  <2>1. CASE pc' = "done"
    BY <1>2, <2>1 DEF Building
  <2>2. CASE pc' # "done"
    <3>1. /\ pc = "question" /\ pc' # "encode" /\ Building
          /\ Write(offset, 4, "question") /\ offset' = offset + 4 /\ committed' = offset + 4
          /\ UNCHANGED <<answer_count, records, enc>>
      BY <1>1, <1>8, <2>2 DEF QuestionTail, Return, Building, IInv
    <3>2. enc.written = 0
      BY <3>1 DEF MarkInv
    <3> QED
      BY <1>1, <3>1, <3>2, MarksAhead
  <2> QED
    BY <2>1, <2>2
<1>9. CASE NextService
  <2>1. /\ pc = "next" /\ Building /\ UNCHANGED <<out, answer_count, records, committed, offset>>
        /\ pc' = "finish" \/ UNCHANGED enc \/ enc'.written = 0
    BY <1>9 DEF NextService, Call, Building
  <2>2. enc.written = 0
    BY <2>1 DEF MarkInv
  <2>3. CASE pc' = "finish"
    BY <1>2, <2>3 DEF Building
  <2> QED
    BY <1>3, <2>1, <2>2, <2>3
<1>10. CASE AnswerHeader
  <2>1. CASE pc' = "finish"
    BY <1>2, <2>1 DEF Building
  <2>2. CASE pc' # "finish"
    <3>1. /\ pc = "header" /\ Building
          /\ Write(offset, 8, "type_class_ttl") /\ offset' = offset + 8
          /\ UNCHANGED <<answer_count, records, committed, enc>>
      BY <1>10, <2>2 DEF AnswerHeader, Building
    <3>2. enc.written = 0
      BY <3>1 DEF MarkInv
    <3> QED
      BY <1>1, <3>1, <3>2, MarksAhead
  <2> QED
    BY <2>1, <2>2
<1>11. CASE SrvNumbers
  <2>1. CASE pc' = "finish"
    BY <1>2, <2>1 DEF Building
  <2>2. CASE pc' # "finish"
    <3>1. /\ pc = "SRV" /\ Building
          /\ Write(offset, 6, "numbers") /\ offset' = offset + 6 /\ enc'.written = 0
          /\ UNCHANGED <<answer_count, records, committed>>
      BY <1>11, <2>2 DEF SrvNumbers, Call, Building
    <3> QED
      BY <1>1, <3>1, MarksAhead
  <2> QED
    BY <2>1, <2>2
<1>12. CASE TxtString
  <2> DEFINE size == TxtSize(txt_i + 1)
  <2>1. size \in Nat
    BY <1>12, ServiceTypes DEF IInv, TypeOK, TxtString, InLoop
  <2> HIDE DEF size
  <2>2. CASE pc' = "finish"
    BY <1>2, <2>2 DEF Building
  <2>3. CASE pc' # "finish"
    <3>1. /\ pc = "TXT" /\ Building
          /\ Write(offset, size, "txt") /\ offset' = offset + size
          /\ UNCHANGED <<answer_count, records, committed, enc>>
      BY <1>12, <2>3 DEF TxtString, Building, size
    <3>2. enc.written = 0
      BY <3>1 DEF MarkInv
    <3> QED
      BY <1>1, <2>1, <3>1, <3>2, MarksAhead
  <2> QED
    BY <2>2, <2>3
<1>13. CASE TxtEnds
  <2>1. /\ pc = "TXT" /\ Building /\ UNCHANGED <<out, answer_count, records, committed, offset, enc>>
    BY <1>13 DEF TxtEnds, Building
  <2>2. enc.written = 0
    BY <2>1 DEF MarkInv
  <2> QED
    BY <1>3, <2>1, <2>2
<1>14. CASE RecordEnds
  BY <1>14, RecordEndsMarks
<1>15. CASE UNCHANGED vars
  <2>1. UNCHANGED <<pc, out, answer_count, records, committed, offset, enc>>
    BY <1>15 DEF vars
  <2> QED
    BY <2>1 DEF MarkInv, LowByteBehind, Building
<1>16. CASE Done
  BY <1>15, <1>16 DEF Done
<1> QED
  BY <1>4, <1>5, <1>6, <1>7, <1>8, <1>9, <1>10, <1>11, <1>12, <1>13, <1>14, <1>15, <1>16 DEF Next

(* What a step writes is not owned, but for the byte behind its record. *)
LEMMA OwnedKept ==
    ASSUME IInv, MarkInv, [Next]_vars
    PROVE  KeepsCommitted
<1> SUFFICES ASSUME NEW x \in HEADER .. (out_len - 1), IsOwned(x), ~ LowByteBehind(x)
             PROVE  out'[x] = out[x]
  BY DEF KeepsCommitted
<1>1. x \in DOMAIN out /\ x \in Nat /\ x >= HEADER /\ committed \in Nat
  BY ParamTypes DEF IInv, TypeOK
<1>2. CASE x < committed
  <2>1. x \in HEADER .. (committed - 1)
    BY <1>1, <1>2
  <2> QED
    BY <2>1, NextStep DEF KeepsBelow
<1>3. CASE ~ (x < committed) /\ Building
  BY <1>1, <1>3 DEF IsOwned, MarkInv
<1>4. CASE pc = "finish"
  <2>1. Finish \/ UNCHANGED vars
    BY <1>4 DEF Next, Start, EncodeLabel, EncodeFails, EncodeEnds, QuestionTail, AddressAnswer,
       NextService, AnswerHeader, SrvNumbers, TxtString, TxtEnds, RecordEnds, Done, SkipsAs
  <2>2. CASE Finish
    <3>1. Write(6, 2, "ancount")
      BY <2>2 DEF Finish
    <3> QED
      BY <1>1, <3>1 DEF Write
  <2> QED
    BY <2>1, <2>2 DEF vars, buffer
<1>5. CASE pc = "done"
  <2>1. UNCHANGED vars
    BY <1>5 DEF Next, Start, EncodeLabel, EncodeFails, EncodeEnds, QuestionTail, AddressAnswer,
       NextService, AnswerHeader, SrvNumbers, TxtString, TxtEnds, RecordEnds, Finish, Done
  <2> QED
    BY <2>1 DEF vars, buffer
<1> QED
  BY <1>2, <1>3, <1>4, <1>5 DEF Building

(* The bytes of the question and of the counted records are sent as they   *)
(* were written, wherever they lie, but for the low byte of RDLENGTH of a  *)
(* TXT record without strings, which is behind its record.                 *)
THEOREM RecordsStable == Spec => CommittedBytesStable
<1>1. Init => RdataInv /\ MarkInv
  <2> SUFFICES ASSUME Init PROVE RdataInv /\ MarkInv
    OBVIOUS
  <2>1. RdataInv
    BY DEF Init, RdataInv, InRecord
  <2>2. \A x \in DOMAIN out : out[x][2] = 0
    BY DEF Init
  <2>3. answer_count = 0 /\ enc.written = 0
    BY DEF Init, NoEncoding
  <2> QED
    BY <2>1, <2>2, <2>3 DEF MarkInv
<1>2. IInv /\ RdataInv /\ [Next]_vars => RdataInv'
  BY RdataStep
<1>3. IInv /\ HoldsInv /\ RdataInv /\ MarkInv /\ [Next]_vars => MarkInv'
  BY MarkStep
<1>4. IInv /\ MarkInv /\ [Next]_vars => [KeepsCommitted]_vars
  BY OwnedKept
<1> QED
  BY <1>1, <1>2, <1>3, <1>4, Invariance, HoldsInvariance, PTL DEF Spec, CommittedBytesStable
=============================================================================
