------------------------- MODULE NameReadersProofs -------------------------
(***************************************************************************)
(* parse_qname and decode_name stay within the packet and the buffer, for  *)
(* every packet, offset and buffer; the name they read is the one that is  *)
(* there, the offset they return is its end, and encode_qname writes a     *)
(* question again as it was.                                               *)
(***************************************************************************)
EXTENDS NameReaders, QuestionsProofs, FiniteSetTheorems

(* What the loop keeps: there is always room for a NUL, and until the      *)
(* first jump the name ends where the next byte is read.                   *)
LoopInv ==
    /\ pc = "loop" => Len(out) < out_len
    /\ ~ jumped /\ pc = "loop" => local_next = pos /\ offset <= pos
    /\ jumped \/ pc = "ok" => local_next \in offset + 1 .. packet_len

IInv == TypeOK /\ StaysInBounds /\ LoopInv

(* The offset a reader hands back is behind the name and in the packet. *)
NextInPacket == pc = "ok" => local_next \in offset + 1 .. packet_len

(* A call starts with an empty buffer and has read nothing. *)
LEMMA InitEstablishes == Init => IInv
<1> SUFFICES ASSUME Init PROVE IInv
  OBVIOUS
<1>1. packet_len \in Nat /\ offset \in Nat /\ out_len \in Nat \ {0} /\ out = << >>
  BY ReadersAssumption DEF Init, packet_len
<1>2. TypeOK
  <2>1. out \in Seq(Byte)
    BY <1>1
  <2>2. pos \in Nat /\ local_next \in Nat /\ jumps \in 0 .. packet_len + 1
    BY <1>1 DEF Init
  <2>3. jumped \in BOOLEAN /\ pc \in {"loop", "ok", "failed"} /\ read_to \in Nat /\ wrote_to \in Nat
    BY DEF Init
  <2> QED
    BY <2>1, <2>2, <2>3 DEF Init, TypeOK
<1> QED
  BY <1>1, <1>2 DEF Init, IInv, StaysInBounds, LoopInv

(* What is read in the loop is a byte, and the byte behind a pointer's too. *)
LEMMA HereIsByte ==
    ASSUME TypeOK, Loop
    PROVE  /\ packet \in Seq(Byte) /\ packet_len \in Nat
           /\ Here \in Byte
           /\ pos + 1 < packet_len => Target \in Nat
<1>1. packet \in Seq(Byte)
  BY ReadersAssumption DEF TypeOK
<1>2. packet_len \in Nat /\ pos \in Nat /\ pos < packet_len
  BY <1>1 DEF packet_len, Loop, TypeOK
<1>3. Here \in Byte
  BY <1>1, <1>2 DEF Here, packet_len
<1>4. pos + 1 < packet_len => packet[pos + 2] \in Byte
  BY <1>1, <1>2 DEF packet_len
<1>5. pos + 1 < packet_len => Target \in Nat
  BY <1>3, <1>4 DEF Target, Byte
<1> QED
  BY <1>1, <1>2, <1>3, <1>5

(* Reading a label keeps the invariant. *)
LEMMA LabelPreserves ==
    ASSUME IInv, Label
    PROVE  IInv'
<1> USE DEF IInv
<1>1. /\ packet \in Seq(Byte) /\ packet_len \in Nat /\ Here \in Byte /\ Here > 0
      /\ pos \in Nat /\ out \in Seq(Byte) /\ out_len \in Nat
  <2>1. TypeOK /\ Loop /\ Here # 0
    BY DEF Label
  <2>2. /\ packet \in Seq(Byte) /\ packet_len \in Nat /\ Here \in Byte
    BY <2>1, HereIsByte
  <2> QED
    BY <2>1, <2>2, ReadersAssumption DEF TypeOK, Byte
<1> DEFINE label == SubSeq(packet, pos + 2, pos + 1 + Here)
<1>2. label \in Seq(Byte) /\ Len(label) = Here
  <2>1. pos + 1 + Here <= Len(packet)
    BY DEF Label, InPacket, packet_len
  <2>2. Here \in Nat /\ pos + 2 <= pos + 1 + Here
    BY <1>1 DEF Byte
  <2> HIDE DEF Here
  <2> QED
    BY <1>1, <2>1, <2>2
<1>3. out' = out \o label \o <<DOT>>
  BY DEF Label
<1>4. <<DOT>> \in Seq(Byte) /\ Len(<<DOT>>) = 1
  BY ReadersAssumption
<1> HIDE DEF label
<1>5. out' \in Seq(Byte) /\ Len(out') = Len(out) + Here + 1
  <2>1. out \o label \in Seq(Byte) /\ Len(out \o label) = Len(out) + Here
    BY <1>1, <1>2
  <2>2. <<DOT>> \in Seq(Byte) /\ Len(<<DOT>>) = 1
    BY <1>4
  <2> QED
    BY <1>1, <1>3, <2>1, <2>2
<1>6. Len(out') < out_len
  BY <1>5 DEF Label, InBuffer
<1>7. pos' = pos + 1 + Here /\ pos' <= packet_len /\ pos' \in Nat
  BY <1>1 DEF Label, InPacket, Byte
<1>8. /\ read_to' = Maximum(read_to, pos') /\ wrote_to' = Len(out')
      /\ local_next' = IF jumped THEN local_next ELSE pos'
      /\ UNCHANGED <<call, pc, jumps, jumped>> /\ pc = "loop"
  BY DEF Label, Loop
<1>9. TypeOK'
  BY <1>1, <1>5, <1>7, <1>8 DEF TypeOK, call, packet_len, Maximum
<1>10. StaysInBounds'
  BY <1>1, <1>6, <1>7, <1>8, <1>5, ReadersAssumption DEF StaysInBounds, call, packet_len, Maximum, TypeOK
<1>11. LoopInv'
  <2>1. packet_len' = packet_len /\ out_len' = out_len /\ offset' = offset
    BY <1>8 DEF call, packet_len
  <2>2. jumped => local_next' \in offset + 1 .. packet_len
    BY <1>8 DEF LoopInv
  <2>3. ~ jumped => local_next' = pos' /\ offset <= pos'
    BY <1>1, <1>7, <1>8, ReadersAssumption DEF LoopInv, TypeOK, Byte
  <2> QED
    BY <1>6, <1>8, <2>1, <2>2, <2>3 DEF LoopInv
<1> QED
  BY <1>9, <1>10, <1>11

(* Following a compression pointer keeps it. *)
LEMMA PointerPreserves ==
    ASSUME IInv, Pointer
    PROVE  IInv'
<1> USE DEF IInv
<1>1. packet_len \in Nat /\ Target \in Nat /\ pos \in Nat /\ pos + 2 <= packet_len
  BY HereIsByte DEF Pointer, PointerIsRead, TypeOK
<1>2. jumps \in Nat /\ jumps + 1 <= packet_len + 1
  BY <1>1 DEF Pointer, JumpAllowed, TypeOK
<1>3. TypeOK'
  BY <1>1, <1>2 DEF Pointer, Loop, TypeOK, call, packet_len, Maximum
<1>4. StaysInBounds'
  BY <1>1 DEF Pointer, StaysInBounds, call, packet_len, Maximum, TypeOK
<1>5. LoopInv'
  BY <1>1, ReadersAssumption DEF Pointer, Loop, LoopInv, call, packet_len, TypeOK
<1> QED
  BY <1>3, <1>4, <1>5

(* The root label, which ends the name, keeps it. *)
LEMMA RootPreserves ==
    ASSUME IInv, Root
    PROVE  IInv'
<1> USE DEF IInv
<1>1. /\ packet_len \in Nat /\ pos \in Nat /\ pos + 1 <= packet_len
      /\ out \in Seq(Byte) /\ out_len \in Nat \ {0} /\ Len(out) < out_len
  BY HereIsByte, ReadersAssumption DEF Root, Loop, LoopInv, TypeOK
<1>2. out' \in Seq(Byte) /\ Len(out') + 1 <= out_len
  <2>1. CASE reader = "parse_qname"
    BY <1>1, <2>1 DEF Root
  <2>2. CASE reader # "parse_qname" /\ out = << >>
    BY <1>1, <2>2, ReadersAssumption DEF Root, RootAccepted
  <2>3. CASE reader # "parse_qname" /\ out # << >>
    <3>1. Len(out) > 0
      BY <1>1, <2>3
    <3>2. out' = SubSeq(out, 1, Len(out) - 1)
      BY <2>3 DEF Root, Front
    <3> QED
      BY <1>1, <3>1, <3>2
  <2> QED
    BY <2>1, <2>2, <2>3
<1>3. /\ wrote_to' = Maximum(wrote_to, Len(out') + 1)
      /\ local_next' = IF jumped THEN local_next ELSE pos + 1
      /\ read_to' = Maximum(read_to, pos + 1)
      /\ pc = "loop" /\ pc' = "ok"
      /\ UNCHANGED <<call, pos, jumps, jumped>>
  BY DEF Root, Loop
<1>4. TypeOK'
  BY <1>1, <1>2, <1>3 DEF TypeOK, call, packet_len, Maximum
<1>5. StaysInBounds'
  BY <1>1, <1>2, <1>3 DEF StaysInBounds, call, packet_len, Maximum, TypeOK
<1>6. LoopInv'
  BY <1>1, <1>3, ReadersAssumption DEF LoopInv, call, packet_len, TypeOK
<1> QED
  BY <1>4, <1>5, <1>6

(* A reader that gives up keeps it. *)
LEMMA FailPreserves ==
    ASSUME IInv, Fail
    PROVE  IInv'
<1> USE DEF IInv
<1>1. packet_len \in Nat /\ pos \in Nat
  BY ReadersAssumption DEF TypeOK, packet_len
<1>2. read_to' \in Nat /\ read_to' <= packet_len
  BY <1>1 DEF Fail, Loop, PointerIsRead, StaysInBounds, TypeOK, Maximum
<1>3. pc' = "failed" /\ UNCHANGED <<call, pos, out, jumps, jumped, local_next, wrote_to>>
  BY DEF Fail
<1>4. TypeOK' /\ StaysInBounds'
  BY <1>2, <1>3 DEF TypeOK, StaysInBounds, call, packet_len
<1>5. LoopInv'
  BY <1>3 DEF LoopInv, call, packet_len
<1> QED
  BY <1>4, <1>5

(* Every step of either reader keeps the invariant. *)
LEMMA StepPreserves == IInv /\ [Next]_vars => IInv'
<1> SUFFICES ASSUME IInv, [Next]_vars PROVE IInv'
  OBVIOUS
<1>1. CASE Label
  BY <1>1, LabelPreserves
<1>2. CASE Pointer
  BY <1>2, PointerPreserves
<1>3. CASE Root
  BY <1>3, RootPreserves
<1>4. CASE Fail
  BY <1>4, FailPreserves
<1>5. CASE UNCHANGED vars
  BY <1>5 DEF vars, call, IInv, TypeOK, StaysInBounds, LoopInv, packet_len
<1> QED
  BY <1>1, <1>2, <1>3, <1>4, <1>5 DEF Next, Done

(* The invariant holds in every state of a reader. *)
LEMMA Invariance == Spec => []IInv
BY InitEstablishes, StepPreserves, PTL DEF Spec

(* The readers' variables keep their types; in particular no name is worth *)
(* more jumps than the packet has bytes and one, whatever its pointers.    *)
THEOREM TypeCorrect == Spec => []TypeOK
BY Invariance, PTL DEF IInv

(* No read beyond the packet and no write beyond the buffer. *)
THEOREM ReadersSafe == Spec => []StaysInBounds
BY Invariance, PTL DEF IInv

(* The offset handed back lies behind the name's start and inside the      *)
(* packet, so the caller's walk over the records advances and its own      *)
(* checks against packet_len start from a valid place.                     *)
THEOREM CallerAdvances == Spec => []NextInPacket
<1>1. IInv => NextInPacket
  BY DEF IInv, LoopInv, NextInPacket
<1> QED
  BY <1>1, Invariance, PTL
-----------------------------------------------------------------------------
(* What a name in a packet is. *)

Name == [labels : Seq(Seq(Byte)), end : Nat]

(* What may stand at an offset of a packet. *)
RootAt(bytes, at) == at < Len(bytes) /\ bytes[at + 1] = 0
LabelAt(bytes, at) ==
    /\ at < Len(bytes) /\ bytes[at + 1] # 0
    /\ IsLabel(bytes[at + 1]) /\ at + 1 + bytes[at + 1] <= Len(bytes)
PointerAt(bytes, who, at) ==
    at + 1 < Len(bytes) /\ IsPointer(bytes[at + 1]) /\ who = "decode_name"

LabelTextAt(bytes, at) == SubSeq(bytes, at + 2, at + 1 + bytes[at + 1])
BehindLabel(bytes, at) == at + 1 + bytes[at + 1]
TargetAt(bytes, at) == (bytes[at + 1] % 64) * 256 + bytes[at + 2]

(* The name that is the root label, and the names behind a label and behind*)
(* a pointer.                                                              *)
RootEnding(at) == [labels |-> << >>, end |-> at]
WithLabel(label, names) ==
    { [labels |-> << label >> \o name.labels, end |-> name.end] : name \in names }
EndingAt(at, names) == { [labels |-> name.labels, end |-> at] : name \in names }

(* What stands at an offset says where the reader goes on. *)
LEMMA PlacesType ==
    ASSUME NEW bytes \in Seq(Byte), NEW who, NEW at \in Nat
    PROVE  /\ LabelAt(bytes, at) =>
                /\ bytes[at + 1] \in 1 .. 63
                /\ LabelTextAt(bytes, at) \in Seq(Byte)
                /\ Len(LabelTextAt(bytes, at)) = bytes[at + 1]
                /\ BehindLabel(bytes, at) \in Nat
           /\ PointerAt(bytes, who, at) => TargetAt(bytes, at) \in Nat
<1>1. Len(bytes) \in Nat /\ \A i \in 1 .. Len(bytes) : bytes[i] \in Byte
  BY LenProperties, ElementOfSeq
<1>2. ASSUME LabelAt(bytes, at)
      PROVE  /\ bytes[at + 1] \in 1 .. 63
             /\ LabelTextAt(bytes, at) \in Seq(Byte)
             /\ Len(LabelTextAt(bytes, at)) = bytes[at + 1]
             /\ BehindLabel(bytes, at) \in Nat
  <2>1. PICK b \in Byte : b = bytes[at + 1]
    BY <1>1, <1>2 DEF LabelAt
  <2>2. b # 0 /\ b \div 64 = 0 /\ at + 1 + b <= Len(bytes)
    BY <1>2, <2>1 DEF LabelAt, IsLabel
  <2>3. b \in 1 .. 63
    <3>1. \A n \in Int : n \div 64 = 0 => n < 64
      OBVIOUS
    <3>2. b \in Int /\ b > 0
      BY <2>1, <2>2 DEF Byte
    <3>3. b < 64
      BY <2>2, <3>1, <3>2
    <3> QED
      BY <3>2, <3>3
  <2>4. \A i \in (at + 2) .. (at + 1 + b) : bytes[i] \in Byte
    BY <1>1, <2>2, <2>3
  <2>5. /\ SubSeq(bytes, at + 2, at + 1 + b) \in Seq(Byte)
        /\ Len(SubSeq(bytes, at + 2, at + 1 + b)) =
              IF at + 2 <= at + 1 + b THEN (at + 1 + b) - (at + 2) + 1 ELSE 0
    BY <2>3, <2>4, SubSeqProperties
  <2>6. LabelTextAt(bytes, at) = SubSeq(bytes, at + 2, at + 1 + b) /\ BehindLabel(bytes, at) = at + 1 + b
    BY <2>1 DEF LabelTextAt, BehindLabel
  <2>7. Len(SubSeq(bytes, at + 2, at + 1 + b)) = b /\ at + 1 + b \in Nat
    BY <2>3, <2>5
  <2> QED
    BY <2>1, <2>3, <2>5, <2>6, <2>7
<1>3. ASSUME PointerAt(bytes, who, at) PROVE TargetAt(bytes, at) \in Nat
  <2>1. bytes[at + 1] \in Byte /\ bytes[at + 2] \in Byte
    BY <1>1, <1>3 DEF PointerAt
  <2>2. \A b, c \in Byte : (b % 64) * 256 + c \in Nat
    <3>1. \A b \in Byte : b % 64 \in Nat
      BY DEF Byte
    <3> QED
      BY <3>1 DEF Byte
  <2> QED
    BY <2>1, <2>2 DEF TargetAt
<1> QED
  BY <1>2, <1>3

(* A place is the root, a label, a pointer or none of a name's. *)
LEMMA NameAtCases ==
    ASSUME NEW bytes \in Seq(Byte), NEW who, NEW at \in Nat, NEW rest
    PROVE  /\ RootAt(bytes, at) =>
                NameAt(bytes, who, at, rest) = { RootEnding(at + 1) }
           /\ LabelAt(bytes, at) =>
                NameAt(bytes, who, at, rest) =
                   WithLabel(LabelTextAt(bytes, at), rest[BehindLabel(bytes, at)])
           /\ PointerAt(bytes, who, at) =>
                NameAt(bytes, who, at, rest) = EndingAt(at + 2, rest[TargetAt(bytes, at)])
           /\ ~ (RootAt(bytes, at) \/ LabelAt(bytes, at) \/ PointerAt(bytes, who, at)) =>
                NameAt(bytes, who, at, rest) = {}
<1>1. CASE at >= Len(bytes)
  <2>1. NameAt(bytes, who, at, rest) = {}
    BY <1>1 DEF NameAt
  <2>2. ~ RootAt(bytes, at) /\ ~ LabelAt(bytes, at) /\ ~ PointerAt(bytes, who, at)
    BY <1>1, LenProperties DEF RootAt, LabelAt, PointerAt
  <2> QED
    BY <2>1, <2>2
<1>2. CASE ~ (at >= Len(bytes))
  <2>1. Len(bytes) \in Nat /\ at < Len(bytes)
    BY <1>2, LenProperties
  <2>2. PICK b \in Byte : b = bytes[at + 1]
    BY <2>1, ElementOfSeq
  <2>3. NameAt(bytes, who, at, rest) =
          CASE b = 0 -> { RootEnding(at + 1) }
            [] b # 0 /\ IsLabel(b) /\ at + 1 + b <= Len(bytes) ->
                 WithLabel(LabelTextAt(bytes, at), rest[BehindLabel(bytes, at)])
            [] IsPointer(b) /\ who = "decode_name" /\ at + 1 < Len(bytes) ->
                 EndingAt(at + 2, rest[TargetAt(bytes, at)])
            [] OTHER -> {}
    BY <1>2, <2>2 DEF NameAt, RootEnding, WithLabel, EndingAt, LabelTextAt, BehindLabel, TargetAt
  <2>4. ~ (IsLabel(b) /\ IsPointer(b)) /\ (b = 0 => ~ IsPointer(b))
    BY <2>2 DEF IsLabel, IsPointer, Byte
  <2>5. RootAt(bytes, at) <=> b = 0
    BY <2>1, <2>2 DEF RootAt
  <2>6. LabelAt(bytes, at) <=> b # 0 /\ IsLabel(b) /\ at + 1 + b <= Len(bytes)
    BY <2>1, <2>2 DEF LabelAt
  <2>7. PointerAt(bytes, who, at) <=> IsPointer(b) /\ who = "decode_name" /\ at + 1 < Len(bytes)
    BY <2>1, <2>2 DEF PointerAt
  <2> QED
    BY <2>3, <2>4, <2>5, <2>6, <2>7, Zenon
<1> QED
  BY <1>1, <1>2

(* A label is put before the names behind it. *)
LEMMA NameAtLabel ==
    ASSUME NEW bytes \in Seq(Byte), NEW who, NEW at \in Nat, NEW rest, LabelAt(bytes, at)
    PROVE  NameAt(bytes, who, at, rest) =
              WithLabel(LabelTextAt(bytes, at), rest[BehindLabel(bytes, at)])
BY NameAtCases

(* A pointer leads to the names it ends. *)
LEMMA NameAtPointer ==
    ASSUME NEW bytes \in Seq(Byte), NEW who, NEW at \in Nat, NEW rest, PointerAt(bytes, who, at)
    PROVE  NameAt(bytes, who, at, rest) = EndingAt(at + 2, rest[TargetAt(bytes, at)])
BY NameAtCases

(* Names behind a place are names. *)
LEMMA NameAtType ==
    ASSUME NEW bytes \in Seq(Byte), NEW who, NEW at \in Nat,
           NEW rest, \A a \in Nat : rest[a] \subseteq Name
    PROVE  NameAt(bytes, who, at, rest) \subseteq Name
<1>1. << >> \in Seq(Seq(Byte))
  BY EmptySeq
<1>2. \A label \in Seq(Byte), names \in SUBSET Name : WithLabel(label, names) \subseteq Name
  <2> SUFFICES ASSUME NEW label \in Seq(Byte), NEW names \in SUBSET Name, NEW name \in names
               PROVE  [labels |-> << label >> \o name.labels, end |-> name.end] \in Name
    BY DEF WithLabel
  <2>1. << label >> \in Seq(Seq(Byte)) /\ name.labels \in Seq(Seq(Byte)) /\ name.end \in Nat
    BY DEF Name
  <2>2. << label >> \o name.labels \in Seq(Seq(Byte))
    BY <2>1, ConcatProperties
  <2> QED
    BY <2>1, <2>2 DEF Name
<1>3. \A end \in Nat, names \in SUBSET Name : EndingAt(end, names) \subseteq Name
  BY DEF EndingAt, Name
<1>4. CASE RootAt(bytes, at)
  <2>1. RootEnding(at + 1) \in Name
    BY <1>1 DEF Name, RootEnding
  <2>2. NameAt(bytes, who, at, rest) = { RootEnding(at + 1) }
    BY <1>4, NameAtCases DEF RootEnding, RootAt
  <2> QED
    BY <2>1, <2>2
<1>5. CASE LabelAt(bytes, at)
  <2>1. rest[BehindLabel(bytes, at)] \subseteq Name /\ LabelTextAt(bytes, at) \in Seq(Byte)
    BY <1>5, PlacesType
  <2>2. WithLabel(LabelTextAt(bytes, at), rest[BehindLabel(bytes, at)]) \subseteq Name
    BY <1>2, <2>1
  <2>3. NameAt(bytes, who, at, rest) =
          WithLabel(LabelTextAt(bytes, at), rest[BehindLabel(bytes, at)])
    BY <1>5, NameAtCases, ZenonT(60)
  <2> QED
    BY <2>2, <2>3
<1>6. CASE PointerAt(bytes, who, at)
  <2>1. rest[TargetAt(bytes, at)] \subseteq Name /\ at + 2 \in Nat
    BY <1>6, PlacesType
  <2>2. EndingAt(at + 2, rest[TargetAt(bytes, at)]) \subseteq Name
    BY <1>3, <2>1
  <2> QED
    BY <1>6, <2>2, NameAtCases
<1>7. CASE ~ (RootAt(bytes, at) \/ LabelAt(bytes, at) \/ PointerAt(bytes, who, at))
  BY <1>7, NameAtCases
<1> QED
  BY <1>4, <1>5, <1>6, <1>7

(* The names of a packet by their offsets. *)
Table(bytes, who, steps) == [a \in Nat |-> NameIn(bytes, who, steps, a)]

(* One step of reading after another finds the name. *)
LEMMA NameInEquations ==
    ASSUME NEW bytes \in Seq(Byte), NEW who
    PROVE  /\ \A at \in Nat : NameIn(bytes, who, 0, at) = {}
           /\ \A n \in 0 .. Len(bytes) + 1, at \in Nat : NameIn(bytes, who, n, at) \subseteq Name
           /\ \A n \in 0 .. Len(bytes), at \in Nat :
                NameIn(bytes, who, n + 1, at) = NameAt(bytes, who, at, Table(bytes, who, n))
<1> DEFINE S == [Nat -> SUBSET Name]
           m == Len(bytes) + 1
           base == [a \in Nat |-> {}]
           After(x) == [a \in Nat |-> NameAt(bytes, who, a, x)]
           step == [x \in S |-> [n \in 1 .. m |-> After(x)]]
           Body(f) == [n \in 0 .. m |->
                          [a \in Nat |-> IF n = 0 THEN {} ELSE NameAt(bytes, who, a, f[n - 1])]]
           found == CHOOSE f : f = Body(f)
<1>1. m \in Nat /\ 0 \in 0 .. m
  BY LenProperties
<1>2. base \in S
  OBVIOUS
<1>3. ASSUME NEW x \in S PROVE After(x) \in S
  <2>1. \A a \in Nat : NameAt(bytes, who, a, x) \subseteq Name
    BY NameAtType
  <2> QED
    BY <2>1
<1> HIDE DEF m
<1>4. step \in [S -> [1 .. m -> S]] /\ \A x \in S, n \in 1 .. m : step[x][n] = After(x)
  BY <1>3
<1> HIDE DEF step, After
<1>5. PICK f \in [0 .. m -> S] : IsLoop(f, base, step, m)
  <2> HIDE DEF base, S
  <2> QED
    BY <1>1, <1>2, <1>4, CountedRecursion
<1>6. ASSUME NEW n \in 1 .. m PROVE f[n] = After(f[n - 1]) /\ n \in 0 .. m /\ n - 1 \in 0 .. m
  <2>1. n \in 0 .. m /\ n - 1 \in 0 .. m
    BY <1>1
  <2>2. f[n - 1] \in S /\ f[n] = step[f[n - 1]][n]
    BY <1>5, <2>1 DEF IsLoop
  <2> QED
    BY <1>4, <2>1, <2>2
<1>7. f[0] = base
  BY <1>5 DEF IsLoop
<1>8. f = Body(f)
  <2>1. ASSUME NEW n \in 0 .. m PROVE f[n] = Body(f)[n]
    <3>1. CASE n = 0
      BY <1>7, <3>1
    <3>2. CASE n # 0
      <4>1. n \in 1 .. m
        BY <1>1, <3>2
      <4>2. f[n] = After(f[n - 1])
        BY <4>1, <1>6
      <4>3. Body(f)[n] = [a \in Nat |-> NameAt(bytes, who, a, f[n - 1])]
        BY <3>2
      <4> QED
        BY <4>2, <4>3 DEF After
    <3> QED
      BY <3>1, <3>2
  <2>2. f = [n \in 0 .. m |-> f[n]]
    OBVIOUS
  <2> HIDE DEF S
  <2> QED
    BY <2>1, <2>2
<1>9. found = Body(found)
  BY <1>8
<1> HIDE DEF found
<1>10. \A n \in 0 .. m, at \in Nat : NameIn(bytes, who, n, at) = found[n][at]
  BY DEF NameIn, found, m
<1>11. \A at \in Nat : NameIn(bytes, who, 0, at) = {}
  BY <1>1, <1>9, <1>10
<1>12. ASSUME NEW n \in 1 .. m
       PROVE  /\ n \in 0 .. m
              /\ [a \in Nat |-> NameIn(bytes, who, n - 1, a)] = found[n - 1]
              /\ \A at \in Nat : NameIn(bytes, who, n, at) =
                   NameAt(bytes, who, at, found[n - 1])
  <2>1. n \in 0 .. m /\ n - 1 \in 0 .. m /\ n # 0
    BY <1>1
  <2>2. \A a \in Nat : NameIn(bytes, who, n - 1, a) = found[n - 1][a]
    BY <2>1, <1>10
  <2>3. found[n - 1] = [a \in Nat |-> found[n - 1][a]]
    <3>1. found[n - 1] = Body(found)[n - 1]
      BY <1>9
    <3>2. Body(found)[n - 1] =
            [a \in Nat |-> IF n - 1 = 0 THEN {} ELSE NameAt(bytes, who, a, found[n - 1 - 1])]
      BY <2>1
    <3> QED
      BY <3>1, <3>2
  <2>4. [a \in Nat |-> NameIn(bytes, who, n - 1, a)] = found[n - 1]
    BY <2>2, <2>3
  <2>5. \A at \in Nat : found[n][at] = NameAt(bytes, who, at, found[n - 1])
    <3>1. found[n] = Body(found)[n]
      BY <1>9
    <3>2. Body(found)[n] = [a \in Nat |-> NameAt(bytes, who, a, found[n - 1])]
      BY <2>1
    <3> QED
      BY <3>1, <3>2
  <2>6. \A at \in Nat : NameIn(bytes, who, n, at) = found[n][at]
    BY <2>1, <1>10
  <2> QED
    BY <2>1, <2>4, <2>5, <2>6
<1>13. \A n \in 0 .. m : \A at \in Nat : NameIn(bytes, who, n, at) \subseteq Name
  <2> DEFINE T == {n \in Nat : n <= m => \A at \in Nat : NameIn(bytes, who, n, at) \subseteq Name}
  <2>1. 0 \in T
    BY <1>11
  <2>2. ASSUME NEW n \in Nat, n \in T PROVE n + 1 \in T
    <3> SUFFICES ASSUME n + 1 <= m, NEW at \in Nat PROVE NameIn(bytes, who, n + 1, at) \subseteq Name
      OBVIOUS
    <3>1. PICK rest : rest = [a \in Nat |-> NameIn(bytes, who, n, a)]
      OBVIOUS
    <3>2. \A a \in Nat : rest[a] \subseteq Name
      BY <2>2, <3>1, <1>1
    <3>3. PICK k \in 1 .. m : k = n + 1 /\ k - 1 = n
      BY <1>1
    <3>4. NameIn(bytes, who, k, at) = NameAt(bytes, who, at, rest)
      BY <1>12, <3>1, <3>3
    <3> QED
      BY <3>2, <3>3, <3>4, NameAtType
  <2> HIDE DEF T
  <2>3. Nat \subseteq T
    BY <2>1, <2>2, Induction
  <2> QED
    BY <2>3, <1>1 DEF T
<1> QED
  <2>1. ASSUME NEW n \in 0 .. Len(bytes), NEW at \in Nat
        PROVE  NameIn(bytes, who, n + 1, at) = NameAt(bytes, who, at, Table(bytes, who, n))
    <3>1. PICK k \in 1 .. m : k = n + 1 /\ n = k - 1
      BY <1>1 DEF m
    <3>2. Table(bytes, who, k - 1) = found[k - 1]
      BY <1>12 DEF Table
    <3>3. NameIn(bytes, who, k, at) = NameAt(bytes, who, at, found[k - 1])
      BY <1>12
    <3> QED
      BY <3>1, <3>2, <3>3
  <2> QED
    BY <1>11, <1>13, <2>1 DEF m

(* At most one name stands at a place. *)
One(names) == \A p, q \in names : p = q

(* More names to go on with give more names. *)
LEMMA NameAtGrows ==
    ASSUME NEW bytes \in Seq(Byte), NEW who, NEW at \in Nat,
           NEW few, NEW more, \A a \in Nat : few[a] \subseteq more[a]
    PROVE  NameAt(bytes, who, at, few) \subseteq NameAt(bytes, who, at, more)
<1>1. CASE RootAt(bytes, at)
  <2>1. /\ NameAt(bytes, who, at, few) = { RootEnding(at + 1) }
        /\ NameAt(bytes, who, at, more) = { RootEnding(at + 1) }
    BY <1>1, NameAtCases DEF RootAt, RootEnding
  <2> QED
    BY <2>1
<1>2. CASE LabelAt(bytes, at)
  <2>1. few[BehindLabel(bytes, at)] \subseteq more[BehindLabel(bytes, at)]
    BY <1>2, PlacesType
  <2>2. /\ NameAt(bytes, who, at, few) =
             WithLabel(LabelTextAt(bytes, at), few[BehindLabel(bytes, at)])
        /\ NameAt(bytes, who, at, more) =
             WithLabel(LabelTextAt(bytes, at), more[BehindLabel(bytes, at)])
    BY <1>2, NameAtCases, ZenonT(60)
  <2> QED
    BY <2>1, <2>2 DEF WithLabel
<1>3. CASE PointerAt(bytes, who, at)
  <2>1. few[TargetAt(bytes, at)] \subseteq more[TargetAt(bytes, at)]
    BY <1>3, PlacesType
  <2>2. /\ NameAt(bytes, who, at, few) = EndingAt(at + 2, few[TargetAt(bytes, at)])
        /\ NameAt(bytes, who, at, more) = EndingAt(at + 2, more[TargetAt(bytes, at)])
    BY <1>3, NameAtCases
  <2> QED
    BY <2>1, <2>2 DEF EndingAt
<1>4. CASE ~ (RootAt(bytes, at) \/ LabelAt(bytes, at) \/ PointerAt(bytes, who, at))
  BY <1>4, NameAtCases
<1> QED
  BY <1>1, <1>2, <1>3, <1>4

(* One name to go on with gives one name. *)
LEMMA NameAtOne ==
    ASSUME NEW bytes \in Seq(Byte), NEW who, NEW at \in Nat,
           NEW rest, \A a \in Nat : One(rest[a])
    PROVE  One(NameAt(bytes, who, at, rest))
<1>1. CASE RootAt(bytes, at)
  <2>1. NameAt(bytes, who, at, rest) = { RootEnding(at + 1) }
    BY <1>1, NameAtCases DEF RootAt, RootEnding
  <2> QED
    BY <2>1 DEF One
<1>2. CASE LabelAt(bytes, at)
  <2>1. One(rest[BehindLabel(bytes, at)])
    BY <1>2, PlacesType
  <2>2. NameAt(bytes, who, at, rest) =
          WithLabel(LabelTextAt(bytes, at), rest[BehindLabel(bytes, at)])
    BY <1>2, NameAtCases, ZenonT(60)
  <2> QED
    BY <2>1, <2>2 DEF WithLabel, One
<1>3. CASE PointerAt(bytes, who, at)
  <2>1. One(rest[TargetAt(bytes, at)])
    BY <1>3, PlacesType
  <2>2. NameAt(bytes, who, at, rest) = EndingAt(at + 2, rest[TargetAt(bytes, at)])
    BY <1>3, NameAtCases
  <2> QED
    BY <2>1, <2>2 DEF EndingAt, One
<1>4. CASE ~ (RootAt(bytes, at) \/ LabelAt(bytes, at) \/ PointerAt(bytes, who, at))
  BY <1>4, NameAtCases DEF One
<1> QED
  BY <1>1, <1>2, <1>3, <1>4

(* More steps find no fewer names, and never two. *)
LEMMA NameInGrows ==
    ASSUME NEW bytes \in Seq(Byte), NEW who
    PROVE  \A n \in 0 .. Len(bytes), at \in Nat :
              /\ NameIn(bytes, who, n, at) \subseteq NameIn(bytes, who, n + 1, at)
              /\ One(NameIn(bytes, who, n, at)) /\ One(NameIn(bytes, who, n + 1, at))
<1> DEFINE L == Len(bytes)
           Good(n) == \A at \in Nat :
              /\ NameIn(bytes, who, n, at) \subseteq NameIn(bytes, who, n + 1, at)
              /\ One(NameIn(bytes, who, n, at)) /\ One(NameIn(bytes, who, n + 1, at))
           T == {n \in Nat : n <= L => Good(n)}
<1>1. L \in Nat
  BY LenProperties
<1>2. ASSUME NEW n \in Nat, n <= L, NEW at \in Nat
      PROVE  /\ NameIn(bytes, who, n + 1, at) = NameAt(bytes, who, at, Table(bytes, who, n))
             /\ \A a \in Nat : Table(bytes, who, n)[a] = NameIn(bytes, who, n, a)
  <2>1. n \in 0 .. Len(bytes)
    BY <1>1, <1>2
  <2>2. NameIn(bytes, who, n + 1, at) = NameAt(bytes, who, at, Table(bytes, who, n))
    BY <2>1, NameInEquations
  <2> QED
    BY <2>2 DEF Table
<1>3. \A at \in Nat : NameIn(bytes, who, 0, at) = {} /\ One(NameIn(bytes, who, 0, at))
  BY NameInEquations DEF One
<1>4. Good(0)
  <2> SUFFICES ASSUME NEW at \in Nat PROVE One(NameIn(bytes, who, 1, at))
    BY <1>3
  <2>1. NameIn(bytes, who, 0 + 1, at) = NameAt(bytes, who, at, Table(bytes, who, 0))
    BY <1>1, <1>2
  <2>2. \A a \in Nat : One(Table(bytes, who, 0)[a])
    BY <1>1, <1>2, <1>3
  <2>3. One(NameAt(bytes, who, at, Table(bytes, who, 0)))
    BY <2>2, NameAtOne
  <2> QED
    BY <2>1, <2>3
<1>5. ASSUME NEW n \in Nat, n + 1 <= L, Good(n) PROVE Good(n + 1)
  <2> SUFFICES ASSUME NEW at \in Nat
               PROVE  /\ NameIn(bytes, who, n + 1, at) \subseteq NameIn(bytes, who, n + 1 + 1, at)
                      /\ One(NameIn(bytes, who, n + 1 + 1, at))
    BY <1>5
  <2>1. /\ NameIn(bytes, who, n + 1, at) = NameAt(bytes, who, at, Table(bytes, who, n))
        /\ NameIn(bytes, who, n + 1 + 1, at) = NameAt(bytes, who, at, Table(bytes, who, n + 1))
    BY <1>1, <1>2, <1>5
  <2>2. \A a \in Nat : Table(bytes, who, n)[a] \subseteq Table(bytes, who, n + 1)[a] /\ One(Table(bytes, who, n + 1)[a])
    BY <1>1, <1>2, <1>5
  <2>3. NameAt(bytes, who, at, Table(bytes, who, n)) \subseteq NameAt(bytes, who, at, Table(bytes, who, n + 1))
    BY <2>2, NameAtGrows
  <2>4. One(NameAt(bytes, who, at, Table(bytes, who, n + 1)))
    BY <2>2, NameAtOne
  <2> QED
    BY <2>1, <2>3, <2>4
<1> HIDE DEF Good
<1>6. 0 \in T /\ \A n \in Nat : n \in T => n + 1 \in T
  BY <1>1, <1>4, <1>5
<1> HIDE DEF T
<1>7. Nat \subseteq T
  BY <1>6, Induction
<1>8. \A n \in 0 .. L : Good(n)
  BY <1>1, <1>7 DEF T
<1> QED
  BY <1>8 DEF Good

(* A chain of sets of at most m numbers does not grow m + 1 times. *)
LEMMA ChainRests ==
    ASSUME NEW m \in Nat, NEW d \in [0 .. m + 1 -> SUBSET (0 .. m - 1)],
           \A n \in 0 .. m : d[n] \subseteq d[n + 1]
    PROVE  \E n \in 0 .. m : d[n] = d[n + 1]
<1> SUFFICES ASSUME \A n \in 0 .. m : d[n] # d[n + 1] PROVE FALSE
  OBVIOUS
<1> DEFINE T == {n \in Nat : n <= m + 1 => Cardinality(d[n]) >= n}
<1>1. IsFiniteSet(0 .. m - 1) /\ Cardinality(0 .. m - 1) = m
  <2>1. PICK z \in Int : z = m - 1
    OBVIOUS
  <2>2. IsFiniteSet(0 .. z) /\ Cardinality(0 .. z) = IF 0 > z THEN 0 ELSE z - 0 + 1
    BY <2>1, FS_Interval
  <2> QED
    BY <2>1, <2>2
<1>2. \A n \in 0 .. m + 1 :
         IsFiniteSet(d[n]) /\ Cardinality(d[n]) \in Nat /\ Cardinality(d[n]) <= m
  BY <1>1, FS_Subset, FS_CardinalityType
<1>3. 0 \in T
  BY <1>2
<1>4. ASSUME NEW n \in Nat, n \in T PROVE n + 1 \in T
  <2> SUFFICES ASSUME n + 1 <= m + 1 PROVE Cardinality(d[n + 1]) >= n + 1
    OBVIOUS
  <2>1. n \in 0 .. m /\ n \in 0 .. m + 1 /\ n + 1 \in 0 .. m + 1
    OBVIOUS
  <2>2. d[n] \in SUBSET d[n + 1] /\ d[n] # d[n + 1]
    BY <2>1
  <2>3. /\ IsFiniteSet(d[n + 1]) /\ Cardinality(d[n + 1]) \in Nat
        /\ Cardinality(d[n]) \in Nat /\ Cardinality(d[n]) >= n
    BY <2>1, <1>2, <1>4
  <2>4. /\ Cardinality(d[n]) <= Cardinality(d[n + 1])
        /\ Cardinality(d[n + 1]) # Cardinality(d[n])
    BY <2>2, <2>3, FS_Subset
  <2> QED
    BY <2>3, <2>4
<1> HIDE DEF T
<1>5. Nat \subseteq T
  BY <1>3, <1>4, Induction
<1>6. m + 1 \in T /\ m + 1 \in 0 .. m + 1
  BY <1>5
<1> QED
  BY <1>2, <1>6 DEF T

(* As many steps as the packet has bytes find what there is to find. *)
LEMMA NameInRests ==
    ASSUME NEW bytes \in Seq(Byte), NEW who
    PROVE  \A at \in Nat :
              /\ NameIn(bytes, who, Len(bytes) + 1, at) =
                    NameAt(bytes, who, at, Table(bytes, who, Len(bytes) + 1))
              /\ NameIn(bytes, who, Len(bytes) + 1, at) \subseteq Name
              /\ One(NameIn(bytes, who, Len(bytes) + 1, at))
<1> DEFINE L == Len(bytes)
           d == [n \in 0 .. L + 1 |-> {a \in 0 .. L - 1 : NameIn(bytes, who, n, a) # {}}]
<1>1. L \in Nat
  BY LenProperties
<1>2. ASSUME NEW n \in Nat, n <= L, NEW at \in Nat
      PROVE  /\ NameIn(bytes, who, n + 1, at) = NameAt(bytes, who, at, Table(bytes, who, n))
             /\ NameIn(bytes, who, n, at) \subseteq NameIn(bytes, who, n + 1, at)
             /\ One(NameIn(bytes, who, n, at)) /\ One(NameIn(bytes, who, n + 1, at))
  <2>1. n \in 0 .. Len(bytes)
    BY <1>1, <1>2
  <2>2. NameIn(bytes, who, n + 1, at) = NameAt(bytes, who, at, Table(bytes, who, n))
    BY <2>1, NameInEquations
  <2>3. /\ NameIn(bytes, who, n, at) \subseteq NameIn(bytes, who, n + 1, at)
        /\ One(NameIn(bytes, who, n, at)) /\ One(NameIn(bytes, who, n + 1, at))
    BY <2>1, NameInGrows
  <2> QED
    BY <2>2, <2>3
<1>4. ASSUME NEW n \in Nat, NEW k \in Nat,
             \A at \in Nat : NameIn(bytes, who, n, at) = NameIn(bytes, who, k, at)
      PROVE  Table(bytes, who, n) = Table(bytes, who, k)
  BY <1>4 DEF Table
<1>5. ASSUME NEW n \in 0 .. L + 1, NEW at \in Nat, at >= L PROVE NameIn(bytes, who, n, at) = {}
  <2>1. CASE n = 0
    BY <2>1, NameInEquations
  <2>2. CASE n # 0
    <3>1. n - 1 \in Nat /\ n - 1 <= L /\ n - 1 + 1 = n
      BY <1>1, <2>2
    <3>2. NameIn(bytes, who, n, at) = NameAt(bytes, who, at, Table(bytes, who, n - 1))
      BY <1>2, <3>1
    <3> QED
      BY <1>5, <3>2 DEF NameAt
  <2> QED
    BY <2>1, <2>2
<1>6. PICK n \in 0 .. L : d[n] = d[n + 1]
  <2>1. d \in [0 .. L + 1 -> SUBSET (0 .. L - 1)]
    OBVIOUS
  <2>2. ASSUME NEW n \in 0 .. L PROVE d[n] \subseteq d[n + 1]
    <3>1. n \in Nat /\ n \in 0 .. L + 1 /\ n + 1 \in 0 .. L + 1 /\ n <= L
      BY <1>1
    <3>2. \A a \in 0 .. L - 1 : NameIn(bytes, who, n, a) \subseteq NameIn(bytes, who, n + 1, a)
      BY <1>2, <3>1
    <3> QED
      BY <3>1, <3>2
  <2> HIDE DEF d, L
  <2> QED
    BY <1>1, <2>1, <2>2, ChainRests
<1>7. n \in Nat /\ n <= L /\ n \in 0 .. L + 1 /\ n + 1 \in 0 .. L + 1
  BY <1>1
<1>8. Table(bytes, who, n) = Table(bytes, who, n + 1)
  <2>1. ASSUME NEW at \in Nat
        PROVE  NameIn(bytes, who, n, at) = NameIn(bytes, who, n + 1, at)
    <3>1. CASE at >= L
      BY <1>5, <1>7, <3>1
    <3>2. CASE at < L
      <4>1. at \in 0 .. L - 1
        BY <1>1, <3>2
      <4>2. NameIn(bytes, who, n, at) # {} <=> NameIn(bytes, who, n + 1, at) # {}
        BY <1>6, <1>7, <4>1
      <4>3. /\ NameIn(bytes, who, n, at) \subseteq NameIn(bytes, who, n + 1, at)
            /\ One(NameIn(bytes, who, n + 1, at))
        BY <1>2, <1>7
      <4> QED
        BY <4>2, <4>3 DEF One
    <3> QED
      BY <1>1, <3>1, <3>2
  <2> QED
    BY <1>4, <1>7, <2>1
<1>9. \A k \in Nat : k <= L => (k >= n => Table(bytes, who, k) = Table(bytes, who, k + 1))
  <2> DEFINE T == {k \in Nat : k <= L => (k >= n => Table(bytes, who, k) = Table(bytes, who, k + 1))}
  <2>1. 0 \in T
    <3>1. CASE n = 0
      BY <1>8, <3>1
    <3>2. CASE n # 0
      BY <1>7, <3>2
    <3> QED
      BY <3>1, <3>2
  <2>2. ASSUME NEW k \in Nat, k \in T PROVE k + 1 \in T
    <3> SUFFICES ASSUME k + 1 <= L, k + 1 >= n PROVE Table(bytes, who, k + 1) = Table(bytes, who, k + 1 + 1)
      OBVIOUS
    <3>1. CASE k + 1 = n
      BY <1>8, <3>1
    <3>2. CASE k + 1 # n
      <4>1. Table(bytes, who, k) = Table(bytes, who, k + 1)
        BY <1>1, <1>7, <2>2, <3>2
      <4>2. \A at \in Nat : /\ NameIn(bytes, who, k + 1, at) = NameAt(bytes, who, at, Table(bytes, who, k))
                            /\ NameIn(bytes, who, k + 1 + 1, at) = NameAt(bytes, who, at, Table(bytes, who, k + 1))
        BY <1>1, <1>2
      <4> QED
        BY <1>4, <4>1, <4>2
    <3> QED
      BY <3>1, <3>2
  <2> HIDE DEF T
  <2>3. Nat \subseteq T
    BY <2>1, <2>2, Induction
  <2> QED
    BY <2>3 DEF T
<1>10. Table(bytes, who, L) = Table(bytes, who, L + 1)
  BY <1>1, <1>7, <1>9
<1> SUFFICES ASSUME NEW at \in Nat
             PROVE  /\ NameIn(bytes, who, L + 1, at) = NameAt(bytes, who, at, Table(bytes, who, L + 1))
                    /\ NameIn(bytes, who, L + 1, at) \subseteq Name
                    /\ One(NameIn(bytes, who, L + 1, at))
  OBVIOUS
<1>11. NameIn(bytes, who, L + 1, at) = NameAt(bytes, who, at, Table(bytes, who, L))
       /\ One(NameIn(bytes, who, L + 1, at))
  BY <1>1, <1>2
<1>12. NameIn(bytes, who, L + 1, at) \subseteq Name
  <2>1. L + 1 \in 0 .. L + 1
    BY <1>1
  <2> QED
    BY <2>1, NameInEquations
<1> QED
  BY <1>10, <1>11, <1>12
-----------------------------------------------------------------------------
(* Names as text. *)

(* A name is written label by label, each with a dot behind it. *)
LEMMA DottedEquations ==
    /\ Dotted(<< >>) = << >>
    /\ \A labels \in Seq(Seq(Byte)) : Dotted(labels) \in Seq(Byte)
    /\ \A labels \in Seq(Seq(Byte)), label \in Seq(Byte) :
          Dotted(Append(labels, label)) = Dotted(labels) \o Append(label, DOT)
<1> DEFINE E == Seq(Byte)
           step == [text \in E |-> [label \in E |-> text \o Append(label, DOT)]]
           Body(f) == [l \in Seq(E) |->
                          IF l = << >> THEN << >> ELSE f[Front(l)] \o Append(Last(l), DOT)]
           dotted == CHOOSE f : f = Body(f)
<1>1. step \in [E -> [E -> E]] /\ \A text \in E, label \in E : step[text][label] = text \o Append(label, DOT)
  <2>1. ASSUME NEW text \in E, NEW label \in E PROVE text \o Append(label, DOT) \in E
    <3>1. Append(label, DOT) \in Seq(Byte)
      BY ReadersAssumption, AppendProperties
    <3> QED
      BY <3>1, ConcatProperties
  <2> HIDE DEF E
  <2> QED
    BY <2>1
<1>2. << >> \in E /\ << >> \in Seq(E)
  BY EmptySeq
<1> HIDE DEF E, step
<1>3. PICK f \in [Seq(E) -> E] : IsFold(f, E, << >>, step)
  BY <1>1, <1>2, SequenceRecursion
<1>4. f = Body(f)
  <2>1. ASSUME NEW l \in Seq(E), l # << >> PROVE f[l] = f[Front(l)] \o Append(Last(l), DOT)
    <3>1. /\ Last(l) \in E /\ f[Front(l)] \in E
          /\ f[l] = step[f[Front(l)]][Last(l)]
      BY <1>3, <2>1, FoldSteps
    <3> QED
      BY <3>1, <1>1
  <2>2. f = [l \in Seq(E) |-> f[l]]
    OBVIOUS
  <2>3. \A l \in Seq(E) : f[l] = Body(f)[l]
    BY <1>3, <2>1 DEF IsFold
  <2> QED
    BY <2>2, <2>3
<1>5. dotted = Body(dotted)
  BY <1>4
<1> HIDE DEF dotted
<1>6. \A labels \in Seq(E) : Dotted(labels) = dotted[labels]
  BY DEF Dotted, dotted, E
<1>7. dotted[<< >>] = << >>
  BY <1>2, <1>5
<1>8. ASSUME NEW labels \in Seq(E), NEW label \in E
      PROVE  /\ Append(labels, label) \in Seq(E)
             /\ dotted[Append(labels, label)] = dotted[labels] \o Append(label, DOT)
  <2>1. Append(labels, label) \in Seq(E) /\ Append(labels, label) # << >>
    BY AppendProperties
  <2>2. Front(Append(labels, label)) = labels /\ Last(Append(labels, label)) = label
    BY FrontLastOfAppend
  <2>3. dotted[Append(labels, label)] =
          dotted[Front(Append(labels, label))] \o Append(Last(Append(labels, label)), DOT)
    BY <1>5, <2>1
  <2> QED
    BY <2>1, <2>2, <2>3
<1>9. \A labels \in Seq(E) : dotted[labels] \in E
  <2> DEFINE P == {labels \in Seq(E) : dotted[labels] \in E}
  <2>1. << >> \in P
    BY <1>2, <1>7
  <2>2. ASSUME NEW labels \in Seq(E), NEW label \in E, labels \in P PROVE Append(labels, label) \in P
    <3>1. step[dotted[labels]][label] \in E
      BY <1>1, <2>2
    <3> QED
      BY <1>1, <1>8, <2>2, <3>1
  <2> HIDE DEF P
  <2>3. Seq(E) \subseteq P
    BY <2>1, <2>2, SequenceInduction
  <2> QED
    BY <2>3 DEF P
<1> QED
  BY <1>2, <1>6, <1>7, <1>8, <1>9 DEF E

(* Texts are put together from either side. *)
LEMMA TextsAssociate ==
    ASSUME NEW a \in Seq(Byte), NEW b \in Seq(Byte), NEW c \in Seq(Byte)
    PROVE  (a \o b) \o c = a \o (b \o c)
BY ConcatAssociative

(* The text of a longer name is the text of its parts. *)
LEMMA DottedOfConcat ==
    ASSUME NEW front \in Seq(Seq(Byte))
    PROVE  \A rest \in Seq(Seq(Byte)) :
              Dotted(front \o rest) = Dotted(front) \o Dotted(rest)
<1> DEFINE E == Seq(Byte)
           P == {rest \in Seq(E) : Dotted(front \o rest) = Dotted(front) \o Dotted(rest)}
<1>1. << >> \in P
  <2>1. << >> \in Seq(E) /\ front \o << >> = front
    BY EmptySeq, ConcatEmptySeq
  <2>2. Dotted(front) \o << >> = Dotted(front)
    BY DottedEquations, ConcatEmptySeq
  <2> QED
    BY <2>1, <2>2, DottedEquations
<1>2. ASSUME NEW rest \in Seq(E), NEW label \in E, rest \in P PROVE Append(rest, label) \in P
  <2> DEFINE more == Append(label, DOT)
  <2>1. /\ front \o rest \in Seq(E)
        /\ Append(rest, label) \in Seq(E)
        /\ front \o Append(rest, label) = Append(front \o rest, label)
    <3> DEFINE u == <<label>>
    <3>1. u \in Seq(E) /\ Append(rest, label) = rest \o u
      BY AppendIsConcat
    <3>2. front \o rest \in Seq(E)
      BY ConcatProperties
    <3>3. Append(front \o rest, label) = (front \o rest) \o u
      BY <3>2, AppendIsConcat
    <3> HIDE DEF u, E
    <3>4. front \in Seq(E) /\ rest \in Seq(E)
      BY DEF E
    <3>5. (front \o rest) \o u = front \o (rest \o u)
      BY <3>1, <3>4, ConcatAssociative
    <3> QED
      BY <3>1, <3>2, <3>3, <3>5, AppendProperties
  <2>2. more \in Seq(Byte)
    BY ReadersAssumption, AppendProperties
  <2> HIDE DEF more
  <2>3. Dotted(Append(front \o rest, label)) = Dotted(front \o rest) \o more
    BY <2>1, DottedEquations DEF more
  <2>4. Dotted(Append(rest, label)) = Dotted(rest) \o more
    BY DottedEquations DEF more
  <2>5. Dotted(front) \in Seq(Byte) /\ Dotted(rest) \in Seq(Byte)
    BY DottedEquations
  <2>6. (Dotted(front) \o Dotted(rest)) \o more = Dotted(front) \o (Dotted(rest) \o more)
    BY <2>2, <2>5, TextsAssociate, ZenonT(60)
  <2>7. Dotted(front \o rest) = Dotted(front) \o Dotted(rest)
    BY <1>2
  <2> QED
    BY <2>1, <2>3, <2>4, <2>6, <2>7
<1> HIDE DEF P
<1>3. Seq(E) \subseteq P
  BY <1>1, <1>2, SequenceInduction
<1> QED
  BY <1>3 DEF P

(* One label, one dot. *)
LEMMA DottedOfLabel ==
    ASSUME NEW label \in Seq(Byte)
    PROVE  /\ Dotted(<< label >>) = Append(label, DOT)
           /\ Append(label, DOT) \in Seq(Byte) /\ Len(Append(label, DOT)) = Len(label) + 1
<1>1. Append(label, DOT) \in Seq(Byte) /\ Len(Append(label, DOT)) = Len(label) + 1
  BY ReadersAssumption, AppendProperties
<1>2. << >> \in Seq(Seq(Byte)) /\ Append(<< >>, label) = << label >>
  BY EmptySeq
<1>3. Dotted(Append(<< >>, label)) = Dotted(<< >>) \o Append(label, DOT)
  BY <1>2, DottedEquations
<1>4. << >> \o Append(label, DOT) = Append(label, DOT)
  BY <1>1, ConcatEmptySeq
<1> QED
  BY <1>1, <1>2, <1>3, <1>4, DottedEquations

(* A text is no shorter than the number of its labels. *)
LEMMA DottedLen ==
    ASSUME NEW labels \in Seq(Seq(Byte))
    PROVE  Len(labels) <= Len(Dotted(labels))
<1> DEFINE E == Seq(Byte)
           P == {l \in Seq(E) : Len(l) <= Len(Dotted(l))}
<1>1. << >> \in P
  BY EmptySeq, DottedEquations
<1>2. ASSUME NEW l \in Seq(E), NEW label \in E, l \in P PROVE Append(l, label) \in P
  <2>1. Append(l, label) \in Seq(E) /\ Len(Append(l, label)) = Len(l) + 1 /\ Len(l) \in Nat
    BY AppendProperties, LenProperties
  <2>2. Dotted(l) \in Seq(Byte) /\ Dotted(Append(l, label)) = Dotted(l) \o Append(label, DOT)
    BY DottedEquations
  <2>3. Append(label, DOT) \in Seq(Byte) /\ Len(Append(label, DOT)) = Len(label) + 1
    BY DottedOfLabel
  <2>4. Len(Dotted(l) \o Append(label, DOT)) = Len(Dotted(l)) + Len(label) + 1
        /\ Len(Dotted(l)) \in Nat /\ Len(label) \in Nat
    BY <2>2, <2>3, ConcatProperties, LenProperties
  <2> QED
    BY <1>2, <2>1, <2>2, <2>4
<1> HIDE DEF P, E
<1>3. Seq(E) \subseteq P
  BY <1>1, <1>2, SequenceInduction
<1> QED
  BY <1>3 DEF P, E
-----------------------------------------------------------------------------
(* The readers read the name. *)

(* The names that go on, behind the labels seen, with names. *)
Behind(seen, names) ==
    { [labels |-> seen \o name.labels, end |-> name.end] : name \in names }

(* The name that goes on at pos. *)
Ahead == NameIn(packet, reader, packet_len + 1, pos)

(* The text is of the labels read, and the name is those and what is ahead;*)
(* what is ahead can be read in the jumps that are left.                   *)
Reading ==
    pc = "loop" =>
        /\ \E seen \in Seq(Seq(Byte)) :
              /\ out = Dotted(seen)
              /\ ~ jumped => Meaning = Behind(seen, Ahead)
              /\ jumped => Meaning = EndingAt(local_next, Behind(seen, Ahead))
        /\ Ahead # {} => NameIn(packet, reader, packet_len + 1 - jumps, pos) # {}

NamesInv == IInv /\ Reading /\ NameIsMeaning /\ NextOffsetIsEnd

(* What has been read takes over what is ahead: nothing, ... *)
LEMMA BehindNothing ==
    ASSUME NEW names, names \subseteq Name
    PROVE  Behind(<< >>, names) = names
<1>1. \A name \in names : [labels |-> << >> \o name.labels, end |-> name.end] = name
  <2> TAKE name \in names
  <2>1. name \in Name
    OBVIOUS
  <2>2. << >> \o name.labels = name.labels
    BY <2>1, ConcatEmptySeq DEF Name
  <2>3. [labels |-> name.labels, end |-> name.end] = name
    BY <2>1 DEF Name
  <2> QED
    BY <2>2, <2>3
<1> QED
  BY <1>1 DEF Behind

(* ... a label, ... *)
LEMMA BehindWithLabel ==
    ASSUME NEW names, names \subseteq Name, NEW seen \in Seq(Seq(Byte)), NEW label \in Seq(Byte)
    PROVE  Behind(seen, WithLabel(label, names)) = Behind(Append(seen, label), names)
<1> DEFINE Long(name) == [labels |-> << label >> \o name.labels, end |-> name.end]
           Left(name) == [labels |-> seen \o name.labels, end |-> name.end]
           Right(name) == [labels |-> Append(seen, label) \o name.labels, end |-> name.end]
<1>1. \A name \in names : Left(Long(name)) = Right(name)
  <2> TAKE name \in names
  <2>1. name.labels \in Seq(Seq(Byte))
    BY DEF Name
  <2>2. Append(seen, label) = seen \o << label >> /\ << label >> \in Seq(Seq(Byte))
    BY AppendIsConcat
  <2>3. seen \o (<< label >> \o name.labels) = (seen \o << label >>) \o name.labels
    <3> DEFINE E == Seq(Byte)
               u == << label >>
               v == name.labels
    <3>1. seen \in Seq(E) /\ u \in Seq(E) /\ v \in Seq(E)
      BY <2>1, <2>2
    <3> HIDE DEF E, u, v
    <3>2. (seen \o u) \o v = seen \o (u \o v)
      BY <3>1, ConcatAssociative
    <3> QED
      BY <3>2 DEF u, v
  <2> QED
    BY <2>2, <2>3
<1>2. Behind(seen, WithLabel(label, names)) = { Left(Long(name)) : name \in names }
  BY DEF Behind, WithLabel
<1>3. Behind(Append(seen, label), names) = { Right(name) : name \in names }
  BY DEF Behind
<1> HIDE DEF Long, Left, Right
<1> QED
  BY <1>1, <1>2, <1>3

(* ... a pointer, of which the first one counts, ... *)
LEMMA BehindEndingAt ==
    ASSUME NEW names, NEW seen, NEW at, NEW first
    PROVE  /\ Behind(seen, EndingAt(at, names)) = EndingAt(at, Behind(seen, names))
           /\ EndingAt(first, EndingAt(at, names)) = EndingAt(first, names)
<1> DEFINE Short(e, name) == [labels |-> name.labels, end |-> e]
           Long(name) == [labels |-> seen \o name.labels, end |-> name.end]
<1>1. \A name \in names : Long(Short(at, name)) = Short(at, Long(name))
  OBVIOUS
<1>2. \A name \in names : Short(first, Short(at, name)) = Short(first, name)
  OBVIOUS
<1>3. /\ Behind(seen, EndingAt(at, names)) = { Long(Short(at, name)) : name \in names }
      /\ EndingAt(at, Behind(seen, names)) = { Short(at, Long(name)) : name \in names }
  BY DEF Behind, EndingAt
<1>4. /\ EndingAt(first, EndingAt(at, names)) = { Short(first, Short(at, name)) : name \in names }
      /\ EndingAt(first, names) = { Short(first, name) : name \in names }
  BY DEF EndingAt
<1> HIDE DEF Short, Long
<1>5. { Long(Short(at, name)) : name \in names } = { Short(at, Long(name)) : name \in names }
  BY <1>1
<1>6. { Short(first, Short(at, name)) : name \in names } = { Short(first, name) : name \in names }
  BY <1>2
<1> QED
  BY <1>3, <1>4, <1>5, <1>6

(* ... or the root label, with which the name is at an end. *)
LEMMA BehindRoot ==
    ASSUME NEW seen \in Seq(Seq(Byte)), NEW at
    PROVE  Behind(seen, { RootEnding(at) }) = { [labels |-> seen, end |-> at] }
<1>1. seen \o << >> = seen
  BY ConcatEmptySeq
<1>2. RootEnding(at).labels = << >> /\ RootEnding(at).end = at
  BY DEF RootEnding
<1>3. Behind(seen, { RootEnding(at) }) =
        { [labels |-> seen \o RootEnding(at).labels, end |-> RootEnding(at).end] }
  BY DEF Behind
<1> QED
  BY <1>1, <1>2, <1>3

(* What is ahead depends on what stands at pos. *)
LEMMA AheadIs ==
    ASSUME NEW bytes \in Seq(Byte), NEW who, NEW at \in Nat
    PROVE  /\ NameIn(bytes, who, Len(bytes) + 1, at) \subseteq Name
           /\ RootAt(bytes, at) =>
                NameIn(bytes, who, Len(bytes) + 1, at) = { RootEnding(at + 1) }
           /\ LabelAt(bytes, at) =>
                NameIn(bytes, who, Len(bytes) + 1, at) =
                   WithLabel(LabelTextAt(bytes, at),
                             NameIn(bytes, who, Len(bytes) + 1, BehindLabel(bytes, at)))
           /\ PointerAt(bytes, who, at) =>
                NameIn(bytes, who, Len(bytes) + 1, at) =
                   EndingAt(at + 2, NameIn(bytes, who, Len(bytes) + 1, TargetAt(bytes, at)))
           /\ ~ (RootAt(bytes, at) \/ LabelAt(bytes, at) \/ PointerAt(bytes, who, at)) =>
                NameIn(bytes, who, Len(bytes) + 1, at) = {}
<1> DEFINE L == Len(bytes)
<1>1. /\ NameIn(bytes, who, L + 1, at) = NameAt(bytes, who, at, Table(bytes, who, L + 1))
      /\ NameIn(bytes, who, L + 1, at) \subseteq Name
  BY NameInRests
<1>2. \A k : \A a \in Nat : Table(bytes, who, k)[a] = NameIn(bytes, who, k, a)
  BY DEF Table
<1> HIDE DEF L
<1>3. ASSUME RootAt(bytes, at) PROVE NameIn(bytes, who, L + 1, at) = { RootEnding(at + 1) }
  <2>1. NameAt(bytes, who, at, Table(bytes, who, L + 1)) = { RootEnding(at + 1) }
    BY <1>3, NameAtCases DEF RootAt, RootEnding
  <2> QED
    BY <1>1, <2>1
<1>4. ASSUME LabelAt(bytes, at)
      PROVE  NameIn(bytes, who, L + 1, at) =
                WithLabel(LabelTextAt(bytes, at),
                          NameIn(bytes, who, L + 1, BehindLabel(bytes, at)))
  <2>1. PICK a \in Nat : a = BehindLabel(bytes, at)
    BY <1>4, PlacesType
  <2>2. NameAt(bytes, who, at, Table(bytes, who, L + 1)) =
          WithLabel(LabelTextAt(bytes, at), Table(bytes, who, L + 1)[BehindLabel(bytes, at)])
    BY <1>4, NameAtLabel
  <2> QED
    BY <1>1, <1>2, <2>1, <2>2
<1>5. ASSUME PointerAt(bytes, who, at)
      PROVE  NameIn(bytes, who, L + 1, at) =
                EndingAt(at + 2, NameIn(bytes, who, L + 1, TargetAt(bytes, at)))
  <2>1. PICK a \in Nat : a = TargetAt(bytes, at)
    BY <1>5, PlacesType
  <2>2. NameAt(bytes, who, at, Table(bytes, who, L + 1)) =
          EndingAt(at + 2, Table(bytes, who, L + 1)[TargetAt(bytes, at)])
    BY <1>5, NameAtPointer
  <2> QED
    BY <1>1, <1>2, <2>1, <2>2
<1>6. ASSUME ~ (RootAt(bytes, at) \/ LabelAt(bytes, at) \/ PointerAt(bytes, who, at))
      PROVE  NameIn(bytes, who, L + 1, at) = {}
  BY <1>1, <1>6, NameAtCases
<1> QED
  BY <1>1, <1>3, <1>4, <1>5, <1>6 DEF L

(* A name that is read in n steps goes on with one that is read in fewer.  *)
LEMMA StepsLeft ==
    ASSUME NEW bytes \in Seq(Byte), NEW who, NEW at \in Nat, NEW n \in 0 .. Len(bytes) + 1,
           NameIn(bytes, who, n, at) # {}
    PROVE  /\ n > 0
           /\ LabelAt(bytes, at) => NameIn(bytes, who, n, BehindLabel(bytes, at)) # {}
           /\ PointerAt(bytes, who, at) => NameIn(bytes, who, n - 1, TargetAt(bytes, at)) # {}
<1>1. Len(bytes) \in Nat /\ n # 0
  BY LenProperties, NameInEquations
<1>2. PICK k \in 0 .. Len(bytes) : k = n - 1 /\ n = k + 1
  BY <1>1
<1>3. NameIn(bytes, who, n, at) = NameAt(bytes, who, at, Table(bytes, who, k))
  BY <1>2, NameInEquations
<1>4. \A a \in Nat : Table(bytes, who, k)[a] = NameIn(bytes, who, k, a)
  BY DEF Table
<1>5. ASSUME LabelAt(bytes, at) PROVE NameIn(bytes, who, n, BehindLabel(bytes, at)) # {}
  <2>1. PICK a \in Nat : a = BehindLabel(bytes, at)
    BY <1>5, PlacesType
  <2>2. NameAt(bytes, who, at, Table(bytes, who, k)) =
          WithLabel(LabelTextAt(bytes, at), Table(bytes, who, k)[BehindLabel(bytes, at)])
    BY <1>5, NameAtLabel
  <2>3. NameIn(bytes, who, k, a) # {}
    BY <1>3, <1>4, <2>1, <2>2 DEF WithLabel
  <2>4. NameIn(bytes, who, k, a) \subseteq NameIn(bytes, who, k + 1, a)
    BY <1>2, NameInGrows
  <2> QED
    BY <1>2, <2>1, <2>3, <2>4
<1>6. ASSUME PointerAt(bytes, who, at) PROVE NameIn(bytes, who, n - 1, TargetAt(bytes, at)) # {}
  <2>1. PICK a \in Nat : a = TargetAt(bytes, at)
    BY <1>6, PlacesType
  <2>2. NameAt(bytes, who, at, Table(bytes, who, k)) =
          EndingAt(at + 2, Table(bytes, who, k)[TargetAt(bytes, at)])
    BY <1>6, NameAtPointer
  <2> QED
    BY <1>2, <1>3, <1>4, <2>1, <2>2 DEF EndingAt
<1> QED
  BY <1>1, <1>2, <1>5, <1>6

(* The call and its numbers. *)
LEMMA CallIs ==
    ASSUME TypeOK
    PROVE  /\ packet \in Seq(Byte) /\ packet_len \in Nat /\ packet_len = Len(packet)
           /\ pos \in Nat /\ offset \in Nat
           /\ jumps \in Nat /\ packet_len + 1 - jumps \in 0 .. Len(packet) + 1
<1>1. packet \in Seq(Byte) /\ pos \in Nat /\ offset \in Nat /\ jumps \in 0 .. packet_len + 1
  BY ReadersAssumption DEF TypeOK
<1>2. packet_len \in Nat /\ packet_len = Len(packet)
  BY <1>1, LenProperties DEF packet_len
<1> QED
  BY <1>1, <1>2

(* A call starts with everything ahead. *)
LEMMA InitReads == Init => NamesInv
<1> SUFFICES ASSUME Init PROVE NamesInv
  OBVIOUS
<1>1. IInv
  BY InitEstablishes
<1>2. packet \in Seq(Byte) /\ offset \in Nat /\ packet_len = Len(packet)
  BY <1>1, CallIs DEF IInv
<1>3. Ahead = Meaning /\ Meaning \subseteq Name
  <2>1. Ahead = Meaning
    BY DEF Init, Ahead, Meaning
  <2>2. NameIn(packet, reader, Len(packet) + 1, offset) \subseteq Name
    BY <1>2, NameInRests
  <2> QED
    BY <1>2, <2>1, <2>2 DEF Meaning
<1>4. << >> \in Seq(Seq(Byte)) /\ out = Dotted(<< >>) /\ jumped = FALSE
  BY EmptySeq, DottedEquations DEF Init
<1>5. Meaning = Behind(<< >>, Ahead)
  BY <1>3, <1>4, BehindNothing
<1>6. packet_len + 1 - jumps = packet_len + 1
  BY <1>1, CallIs DEF Init, IInv
<1>7. Reading
  BY <1>4, <1>5, <1>6 DEF Reading, Ahead
<1> QED
  BY <1>1, <1>7 DEF NamesInv, NameIsMeaning, NextOffsetIsEnd, Init

(* A label that is read is the next of the name. *)
LEMMA LabelReads ==
    ASSUME NamesInv, Label
    PROVE  NamesInv'
<1>1. TypeOK /\ IInv' /\ pc = "loop" /\ pc' = "loop"
  BY LabelPreserves DEF NamesInv, IInv, Label, Loop
<1>2. /\ packet \in Seq(Byte) /\ packet_len = Len(packet) /\ pos \in Nat
      /\ packet_len + 1 - jumps \in 0 .. Len(packet) + 1
  BY <1>1, CallIs
<1> DEFINE label == LabelTextAt(packet, pos)
           behind == NameIn(packet, reader, packet_len + 1, pos')
<1>3. /\ LabelAt(packet, pos) /\ pos' = BehindLabel(packet, pos)
      /\ out' = out \o label \o << DOT >>
  BY <1>2 DEF Label, Loop, Here, InPacket, LabelAt, BehindLabel, LabelTextAt, packet_len
<1>4. /\ packet' = packet /\ reader' = reader /\ jumps' = jumps /\ jumped' = jumped
      /\ packet_len' = packet_len /\ Meaning' = Meaning
      /\ jumped => local_next' = local_next
  BY DEF Label, call, Meaning, packet_len
<1>5. Ahead' = behind
  BY <1>4 DEF Ahead
<1>6. label \in Seq(Byte)
  BY <1>2, <1>3, PlacesType
<1>7. Ahead = WithLabel(label, behind) /\ behind \subseteq Name
  <2>1. pos' \in Nat
    BY <1>2, <1>3, PlacesType
  <2>2. behind \subseteq Name
    BY <1>2, <2>1, NameInRests
  <2>3. Ahead = WithLabel(label, behind)
    BY <1>2, <1>3, <2>1, AheadIs DEF Ahead
  <2> QED
    BY <2>2, <2>3
<1> HIDE DEF label, behind
<1>8. PICK seen \in Seq(Seq(Byte)) :
         /\ out = Dotted(seen)
         /\ ~ jumped => Meaning = Behind(seen, Ahead)
         /\ jumped => Meaning = EndingAt(local_next, Behind(seen, Ahead))
  BY <1>1 DEF NamesInv, Reading
<1>9. Append(seen, label) \in Seq(Seq(Byte)) /\ out' = Dotted(Append(seen, label))
  <2>1. Append(seen, label) \in Seq(Seq(Byte))
    BY <1>6, AppendProperties
  <2>2. Dotted(Append(seen, label)) = Dotted(seen) \o Append(label, DOT)
    BY <1>6, DottedEquations
  <2>3. Append(label, DOT) = label \o << DOT >> /\ << DOT >> \in Seq(Byte)
    BY <1>6, ReadersAssumption, AppendIsConcat
  <2>4. Dotted(seen) \in Seq(Byte)
    BY DottedEquations
  <2>5. (Dotted(seen) \o label) \o << DOT >> = Dotted(seen) \o (label \o << DOT >>)
    BY <1>6, <2>3, <2>4, TextsAssociate
  <2> QED
    BY <1>3, <1>8, <2>1, <2>2, <2>3, <2>5
<1>10. /\ ~ jumped' => Meaning' = Behind(Append(seen, label), Ahead')
       /\ jumped' => Meaning' = EndingAt(local_next', Behind(Append(seen, label), Ahead'))
  <2>1. Behind(seen, WithLabel(label, behind)) = Behind(Append(seen, label), behind)
    BY <1>6, <1>7, BehindWithLabel
  <2> QED
    BY <1>4, <1>5, <1>7, <1>8, <2>1
<1>11. Ahead' # {} => NameIn(packet, reader, packet_len + 1 - jumps, pos)' # {}
  <2>1. PICK k \in 0 .. Len(packet) + 1 : k = packet_len + 1 - jumps
    BY <1>2
  <2>2. NameIn(packet, reader, packet_len + 1 - jumps, pos)' = NameIn(packet, reader, k, pos')
    BY <1>4, <2>1
  <2> SUFFICES ASSUME behind # {} PROVE NameIn(packet, reader, k, pos') # {}
    BY <1>5, <2>2
  <2>3. Ahead # {}
    BY <1>7 DEF WithLabel
  <2>4. NameIn(packet, reader, k, pos) # {}
    BY <1>1, <2>1, <2>3 DEF NamesInv, Reading
  <2> QED
    <3>1. NameIn(packet, reader, k, BehindLabel(packet, pos)) # {}
      BY <1>2, <1>3, <2>4, StepsLeft
    <3> QED
      BY <1>3, <3>1
<1>12. \E s \in Seq(Seq(Byte)) :
          /\ out' = Dotted(s)
          /\ ~ jumped' => Meaning' = Behind(s, Ahead')
          /\ jumped' => Meaning' = EndingAt(local_next', Behind(s, Ahead'))
  BY <1>9, <1>10
<1>13. Reading'
  BY <1>11, <1>12 DEF Reading
<1> QED
  BY <1>1, <1>13 DEF NamesInv, NameIsMeaning, NextOffsetIsEnd

(* A pointer that is followed leads to the rest of the name. *)
LEMMA PointerReads ==
    ASSUME NamesInv, Pointer
    PROVE  NamesInv'
<1>1. TypeOK /\ IInv' /\ pc = "loop" /\ pc' = "loop" /\ jumped \in BOOLEAN
  BY PointerPreserves DEF NamesInv, IInv, Pointer, Loop, TypeOK
<1>2. /\ packet \in Seq(Byte) /\ packet_len = Len(packet) /\ pos \in Nat /\ jumps \in Nat
      /\ packet_len \in Nat /\ packet_len + 1 - jumps \in 0 .. Len(packet) + 1
  BY <1>1, CallIs
<1> DEFINE behind == NameIn(packet, reader, packet_len + 1, pos')
<1>3. PointerAt(packet, reader, pos) /\ pos' = TargetAt(packet, pos)
  BY <1>2 DEF Pointer, PointerIsRead, Here, Target, PointerAt, TargetAt
<1>4. /\ packet' = packet /\ reader' = reader /\ jumps' = jumps + 1 /\ jumped' = TRUE
      /\ packet_len' = packet_len /\ Meaning' = Meaning
      /\ out' = out /\ local_next' = IF jumped THEN local_next ELSE pos + 2
  <2>1. /\ packet' = packet /\ reader' = reader /\ jumps' = jumps + 1 /\ jumped' = TRUE
        /\ out' = out /\ local_next' = IF jumped THEN local_next ELSE pos + 2
        /\ offset' = offset
    BY DEF Pointer, call
  <2> QED
    BY <2>1 DEF Meaning, packet_len
<1>5. Ahead' = behind
  BY <1>4 DEF Ahead
<1>6. Ahead = EndingAt(pos + 2, behind)
  BY <1>2, <1>3, AheadIs DEF Ahead
<1> HIDE DEF behind
<1>7. PICK seen \in Seq(Seq(Byte)) :
         /\ out = Dotted(seen)
         /\ ~ jumped => Meaning = Behind(seen, Ahead)
         /\ jumped => Meaning = EndingAt(local_next, Behind(seen, Ahead))
  BY <1>1 DEF NamesInv, Reading
<1>8. jumped' /\ Meaning' = EndingAt(local_next', Behind(seen, Ahead'))
  <2>1. PICK at : at = pos + 2
    OBVIOUS
  <2>2. Behind(seen, Ahead) = EndingAt(at, Behind(seen, behind))
    BY <1>6, <2>1, BehindEndingAt
  <2>3. CASE jumped
    <3>1. EndingAt(local_next, EndingAt(at, Behind(seen, behind))) =
            EndingAt(local_next, Behind(seen, behind))
      BY BehindEndingAt
    <3> QED
      BY <1>4, <1>5, <1>7, <2>2, <2>3, <3>1
  <2>4. CASE ~ jumped
    BY <1>4, <1>5, <1>7, <2>1, <2>2, <2>4
  <2> QED
    BY <2>3, <2>4
<1>9. Ahead' # {} => NameIn(packet, reader, packet_len + 1 - jumps, pos)' # {}
  <2>1. PICK k \in 0 .. Len(packet) + 1 : k = packet_len + 1 - jumps
    BY <1>2
  <2>2. packet_len' + 1 - jumps' = k - 1
    BY <1>2, <1>4, <2>1
  <2>3. NameIn(packet, reader, packet_len + 1 - jumps, pos)' = NameIn(packet, reader, k - 1, pos')
    BY <1>4, <2>2
  <2> SUFFICES ASSUME behind # {} PROVE NameIn(packet, reader, k - 1, pos') # {}
    BY <1>5, <2>3
  <2>4. Ahead # {}
    BY <1>6 DEF EndingAt
  <2>5. NameIn(packet, reader, k, pos) # {}
    BY <1>1, <2>1, <2>4 DEF NamesInv, Reading
  <2> QED
    <3>1. NameIn(packet, reader, k - 1, TargetAt(packet, pos)) # {}
      BY <1>2, <1>3, <2>5, StepsLeft
    <3> QED
      BY <1>3, <3>1
<1>10. \E s \in Seq(Seq(Byte)) :
          /\ out' = Dotted(s)
          /\ ~ jumped' => Meaning' = Behind(s, Ahead')
          /\ jumped' => Meaning' = EndingAt(local_next', Behind(s, Ahead'))
  BY <1>4, <1>7, <1>8
<1>11. Reading'
  BY <1>9, <1>10 DEF Reading
<1> QED
  BY <1>1, <1>11 DEF NamesInv, NameIsMeaning, NextOffsetIsEnd

(* Only the root name has no text. *)
LEMMA TextIsEmpty ==
    ASSUME NEW labels \in Seq(Seq(Byte))
    PROVE  Dotted(labels) = << >> <=> labels = << >>
<1>1. Len(labels) \in Nat /\ Len(labels) <= Len(Dotted(labels))
  BY DottedLen, LenProperties
<1>2. Dotted(labels) = << >> => Len(labels) = 0
  BY <1>1
<1>3. labels # << >> => Len(labels) # 0
  BY EmptySeq
<1> QED
  BY <1>2, <1>3, DottedEquations

(* The root label ends the name that has been read. *)
LEMMA RootReads ==
    ASSUME NamesInv, Root
    PROVE  NamesInv'
<1>1. TypeOK /\ IInv' /\ pc = "loop" /\ pc' = "ok"
  BY RootPreserves DEF NamesInv, IInv, Root, Loop
<1>2. packet \in Seq(Byte) /\ packet_len = Len(packet) /\ pos \in Nat
  BY <1>1, CallIs
<1>3. RootAt(packet, pos)
  BY <1>2 DEF Root, Loop, Here, RootAt
<1>4. Ahead = { RootEnding(pos + 1) }
  BY <1>2, <1>3, AheadIs DEF Ahead
<1>5. PICK seen \in Seq(Seq(Byte)) :
         /\ out = Dotted(seen)
         /\ ~ jumped => Meaning = Behind(seen, Ahead)
         /\ jumped => Meaning = EndingAt(local_next, Behind(seen, Ahead))
  BY <1>1 DEF NamesInv, Reading
<1>6. /\ Meaning' = Meaning /\ reader' = reader
      /\ local_next' = IF jumped THEN local_next ELSE pos + 1
      /\ out' = IF reader = "parse_qname" THEN out
                ELSE IF out = << >> THEN << DOT >> ELSE Front(out)
  BY DEF Root, call, Meaning, packet_len
<1> DEFINE read == [labels |-> seen, end |-> local_next']
<1>7. Meaning = { read }
  <2>1. Behind(seen, Ahead) = { [labels |-> seen, end |-> pos + 1] }
    BY <1>4, BehindRoot
  <2>2. CASE jumped
    <3>1. EndingAt(local_next, Behind(seen, Ahead)) = { [labels |-> seen, end |-> local_next] }
      BY <2>1 DEF EndingAt
    <3> QED
      BY <1>5, <1>6, <2>2, <3>1
  <2>3. CASE ~ jumped
    BY <1>5, <1>6, <2>1, <2>3
  <2> QED
    BY <2>2, <2>3
<1>8. read.labels = seen /\ read.end = local_next'
  OBVIOUS
<1> HIDE DEF read
<1>9. out' = IF reader' = "parse_qname" THEN Dotted(read.labels)
             ELSE IF read.labels = << >> THEN << DOT >> ELSE Front(Dotted(read.labels))
  BY <1>5, <1>6, <1>8, TextIsEmpty
<1>10. NameIsMeaning'
  <2>1. read \in Meaning'
    BY <1>6, <1>7
  <2>2. \E name \in Meaning' :
           out' = IF reader' = "parse_qname" THEN Dotted(name.labels)
                  ELSE IF name.labels = << >> THEN << DOT >> ELSE Front(Dotted(name.labels))
    BY <1>9, <2>1
  <2> QED
    BY <1>1, <2>2 DEF NameIsMeaning
<1>11. NextOffsetIsEnd'
  <2>1. \E name \in Meaning' : local_next' = name.end
    BY <1>6, <1>7, <1>8
  <2>2. (local_next \in offset + 1 .. packet_len)'
    BY <1>1 DEF IInv, LoopInv
  <2> QED
    BY <2>1, <2>2 DEF NextOffsetIsEnd
<1> QED
  BY <1>1, <1>10, <1>11 DEF NamesInv, Reading

(* A name that begins with the labels seen is as long as their text. *)
LEMMA TextGrows ==
    ASSUME NEW seen \in Seq(Seq(Byte)), NEW rest \in Seq(Seq(Byte))
    PROVE  /\ seen \o rest \in Seq(Seq(Byte))
           /\ Len(Dotted(seen)) \in Nat /\ Len(Dotted(rest)) \in Nat
           /\ Len(Dotted(seen \o rest)) = Len(Dotted(seen)) + Len(Dotted(rest))
<1>1. seen \o rest \in Seq(Seq(Byte))
  BY ConcatProperties
<1>2. Dotted(seen) \in Seq(Byte) /\ Dotted(rest) \in Seq(Byte)
  BY DottedEquations
<1>3. Dotted(seen \o rest) = Dotted(seen) \o Dotted(rest)
  BY DottedOfConcat
<1> QED
  BY <1>1, <1>2, <1>3, ConcatProperties, LenProperties

(* A reader gives up where there is no name, or none that it can take. *)
LEMMA FailReads ==
    ASSUME NamesInv, Fail
    PROVE  NamesInv'
<1>1. TypeOK /\ IInv' /\ pc = "loop" /\ pc' = "failed"
  BY FailPreserves DEF NamesInv, IInv, Fail
<1>2. /\ packet \in Seq(Byte) /\ packet_len = Len(packet) /\ pos \in Nat
      /\ packet_len + 1 - jumps \in 0 .. Len(packet) + 1
      /\ packet_len \in Nat /\ jumps \in Nat
  BY <1>1, CallIs
<1>3. Meaning' = Meaning /\ reader' = reader /\ out_len' = out_len
  BY DEF Fail, call, Meaning, packet_len
<1>4. PICK seen \in Seq(Seq(Byte)) :
         /\ out = Dotted(seen)
         /\ ~ jumped => Meaning = Behind(seen, Ahead)
         /\ jumped => Meaning = EndingAt(local_next, Behind(seen, Ahead))
  BY <1>1 DEF NamesInv, Reading
<1>5. \A name \in Meaning : \E more \in Ahead : name.labels = seen \o more.labels
  BY <1>4, SMTT(60) DEF Behind, EndingAt
<1> DEFINE Excused(name) ==
              TooLong(name.labels) \/ (reader = "parse_qname" /\ name.labels = << >>)
<1> SUFFICES \A name \in Meaning : Excused(name)
  <2> SUFFICES ASSUME \A name \in Meaning : Excused(name) PROVE NamesInv'
    OBVIOUS
  <2>1. NameIsMeaning'
    BY <1>1, <1>3 DEF NameIsMeaning, TooLong
  <2> QED
    BY <1>1, <2>1 DEF NamesInv, Reading, NextOffsetIsEnd
<1>6. out_len \in Nat \ {0}
  BY <1>1, ReadersAssumption DEF TypeOK
<1>7. CASE RootAt(packet, pos)
  <2>1. Loop /\ Here = 0 /\ ~ RootAccepted
    <3>1. Loop /\ Here = 0
      BY <1>1, <1>2, <1>7 DEF RootAt, Loop, Here
    <3>2. Refused /\ ~ IsPointer(Here)
      BY <3>1 DEF Fail, Loop, IsPointer
    <3> QED
      BY <3>1, <3>2 DEF Refused
  <2>2. out = << >> /\ (reader # "parse_qname" => ~ (out_len >= 2))
    BY <2>1 DEF RootAccepted
  <2>3. seen = << >>
    BY <1>4, <2>2, TextIsEmpty
  <2>4. Ahead = { RootEnding(pos + 1) }
    BY <1>2, <1>7, AheadIs DEF Ahead
  <2>5. RootEnding(pos + 1).labels = << >> /\ << >> \o << >> = << >>
    BY ConcatEmptySeq, EmptySeq DEF RootEnding
  <2>6. \A name \in Meaning : name.labels = << >>
    BY <1>5, <2>3, <2>4, <2>5
  <2>7. reader # "parse_qname" => TooLong(<< >>)
    BY <1>6, <2>2, DottedEquations DEF TooLong, Maximum
  <2> QED
    BY <2>6, <2>7
<1>8. CASE LabelAt(packet, pos)
  <2> DEFINE label == LabelTextAt(packet, pos)
             behind == NameIn(packet, reader, Len(packet) + 1, BehindLabel(packet, pos))
  <2>1. /\ Here = packet[pos + 1] /\ Here \in 1 .. 63
        /\ label \in Seq(Byte) /\ Len(label) = Here /\ BehindLabel(packet, pos) \in Nat
    BY <1>2, <1>8, PlacesType DEF Here
  <2>2. Loop /\ IsLabel(Here) /\ InPacket(Here)
    BY <1>1, <1>2, <1>8, <2>1 DEF LabelAt, Loop, InPacket
  <2>3. ~ InBuffer(Here)
    <3>1. Here # 0 /\ ~ IsPointer(Here)
      <4>1. Here # 0
        BY <1>8, <2>1 DEF LabelAt
      <4>2. ~ IsPointer(Here)
        BY <2>2 DEF IsLabel, IsPointer
      <4> QED
        BY <4>1, <4>2
    <3>2. Refused
      BY <2>2 DEF Fail, Loop
    <3> QED
      BY <2>2, <3>1, <3>2 DEF Refused
  <2>4. Ahead = WithLabel(label, behind) /\ behind \subseteq Name
    BY <1>2, <1>8, <2>1, AheadIs, NameInRests DEF Ahead
  <2> HIDE DEF label, behind
  <2>5. Len(out) + Here + 1 >= out_len /\ Len(out) \in Nat
    BY <1>1, <1>6, <2>1, <2>3, LenProperties DEF InBuffer, TypeOK
  <2>6. ASSUME NEW name \in Meaning PROVE TooLong(name.labels)
    <3>1. PICK more \in Ahead : name.labels = seen \o more.labels
      BY <1>5
    <3>2. PICK last \in behind : more.labels = << label >> \o last.labels
      BY <2>4, SMTT(60) DEF WithLabel
    <3>3. last.labels \in Seq(Seq(Byte)) /\ << label >> \in Seq(Seq(Byte))
      BY <2>1, <2>4 DEF Name
    <3>4. Len(Dotted(<< label >>)) = Here + 1
      BY <2>1, DottedOfLabel
    <3>5. /\ more.labels \in Seq(Seq(Byte))
          /\ Len(Dotted(more.labels)) = Here + 1 + Len(Dotted(last.labels))
          /\ Len(Dotted(last.labels)) \in Nat
      BY <3>2, <3>3, <3>4, TextGrows
    <3>6. Len(Dotted(name.labels)) = Len(out) + Len(Dotted(more.labels))
      BY <1>4, <3>1, <3>5, TextGrows
    <3>7. \A a, b, c, d, e, f \in Nat :
             e = a + b /\ b = d + 1 + c /\ a + d + 1 >= f => e >= f
      OBVIOUS
    <3>8. Len(Dotted(name.labels)) >= out_len
      <4>1. /\ Len(Dotted(name.labels)) \in Nat /\ Len(Dotted(more.labels)) \in Nat
            /\ out_len \in Nat /\ Here \in Nat
        BY <1>6, <2>1, <2>5, <3>5, <3>6
      <4> QED
        BY <2>5, <3>5, <3>6, <3>7, <4>1
    <3> QED
      BY <1>6, <3>8 DEF TooLong, Maximum
  <2> QED
    BY <2>6
<1>9. CASE PointerAt(packet, reader, pos)
  <2>1. Here = packet[pos + 1] /\ Target = TargetAt(packet, pos) /\ Target \in Nat
    BY <1>2, <1>9, PlacesType DEF Here, Target, TargetAt
  <2>2. Loop /\ IsPointer(Here) /\ reader = "decode_name" /\ PointerIsRead
    BY <1>1, <1>2, <1>9, <2>1 DEF PointerAt, Loop, PointerIsRead
  <2>3. ~ JumpAllowed
    <3>1. Here \in Byte
      BY <1>2, <2>1, <2>2, ElementOfSeq DEF Loop
    <3>2. Here # 0 /\ ~ IsLabel(Here)
      BY <2>2, <3>1 DEF IsPointer, IsLabel, Byte
    <3>3. Refused
      BY <2>2 DEF Fail, Loop
    <3> QED
      BY <2>2, <3>2, <3>3 DEF Refused
  <2>4. Ahead = {}
    <3>1. CASE Target >= packet_len
      <4>1. NameIn(packet, reader, Len(packet) + 1, Target) = {}
        <5>1. ~ RootAt(packet, Target) /\ ~ LabelAt(packet, Target) /\ ~ PointerAt(packet, reader, Target)
          BY <1>2, <2>1, <3>1 DEF RootAt, LabelAt, PointerAt
        <5> QED
          BY <1>2, <2>1, <5>1, AheadIs
      <4>2. Ahead = EndingAt(pos + 2, NameIn(packet, reader, Len(packet) + 1, Target))
        BY <1>2, <1>9, <2>1, AheadIs DEF Ahead
      <4> QED
        BY <4>1, <4>2 DEF EndingAt
    <3>2. CASE Target < packet_len
      <4>1. packet_len + 1 - jumps = 0
        BY <1>2, <2>3, <3>2 DEF JumpAllowed
      <4>2. NameIn(packet, reader, packet_len + 1 - jumps, pos) = {}
        BY <1>2, <4>1, NameInEquations
      <4> QED
        BY <1>1, <4>2 DEF NamesInv, Reading
    <3> QED
      BY <1>2, <2>1, <3>1, <3>2
  <2> QED
    BY <1>5, <2>4
<1>10. CASE ~ (RootAt(packet, pos) \/ LabelAt(packet, pos) \/ PointerAt(packet, reader, pos))
  <2>1. Ahead = {}
    BY <1>2, <1>10, AheadIs DEF Ahead
  <2> QED
    BY <1>5, <2>1
<1> QED
  BY <1>7, <1>8, <1>9, <1>10

(* Every step of either reader keeps what is read a part of the name. *)
LEMMA StepReads == NamesInv /\ [Next]_vars => NamesInv'
<1> SUFFICES ASSUME NamesInv, [Next]_vars PROVE NamesInv'
  OBVIOUS
<1>1. CASE Label
  BY <1>1, LabelReads
<1>2. CASE Pointer
  BY <1>2, PointerReads
<1>3. CASE Root
  BY <1>3, RootReads
<1>4. CASE Fail
  BY <1>4, FailReads
<1>5. CASE UNCHANGED vars
  <2>1. IInv'
    BY <1>5, StepPreserves DEF NamesInv
  <2>2. /\ packet' = packet /\ reader' = reader /\ offset' = offset /\ out_len' = out_len
        /\ pc' = pc /\ pos' = pos /\ out' = out /\ jumps' = jumps /\ jumped' = jumped
        /\ local_next' = local_next
    BY <1>5 DEF vars, call
  <2>3. Reading' /\ NameIsMeaning' /\ NextOffsetIsEnd'
    BY <2>2 DEF NamesInv, Reading, NameIsMeaning, NextOffsetIsEnd, TooLong, Meaning, Ahead,
                packet_len
  <2> QED
    BY <2>1, <2>3 DEF NamesInv
<1> QED
  BY <1>1, <1>2, <1>3, <1>4, <1>5 DEF Next, Done

(* What has been read is a part of the name in every state of a reader.    *)
LEMMA NamesAreRead == Spec => []NamesInv
BY InitReads, StepReads, PTL DEF Spec

(* A name is read if and only if there is one and it goes in the buffer,   *)
(* and it is that name: for every packet, the text of parse_qname and of   *)
(* decode_name is the name's, and the limit on jumps refuses no name.      *)
THEOREM NamesAreMeant == Spec => []NameIsMeaning
BY NamesAreRead, PTL DEF NamesInv

(* The caller goes on behind the name, not behind what a pointer led to.   *)
THEOREM CallerGoesOnBehind == Spec => []NextOffsetIsEnd
BY NamesAreRead, PTL DEF NamesInv
-----------------------------------------------------------------------------
(* What is read is written again. *)

(* What encode_qname makes of the end of a text in m steps or fewer. *)
Encoder(m) ==
    CHOOSE f : f = [n \in 0 .. m |->
                      [cursor \in Seq(Byte) |->
                          IF n = 0 THEN {} ELSE EncodeLabels(cursor, f[n - 1])]]

(* strlen and strchr find the first such byte, if there is one. *)
LEMMA UntilIs ==
    ASSUME NEW text \in Seq(Byte), NEW byte
    PROVE  /\ Until(text, byte) \in 0 .. Len(text)
           /\ (\A i \in 1 .. Len(text) : text[i] # byte) => Until(text, byte) = Len(text)
           /\ \A k \in 1 .. Len(text) :
                 text[k] = byte /\ (\A j \in 1 .. k - 1 : text[j] # byte) =>
                    Until(text, byte) = k - 1
<1>1. Len(text) \in Nat /\ DOMAIN text = 1 .. Len(text)
  BY LenProperties
<1> DEFINE First(i) == text[i] = byte /\ \A j \in 1 .. i - 1 : text[j] # byte
<1>2. CASE \A i \in 1 .. Len(text) : text[i] # byte
  <2>1. Until(text, byte) = Len(text)
    BY <1>1, <1>2 DEF Until
  <2> QED
    BY <1>1, <1>2, <2>1
<1>3. CASE \E i \in 1 .. Len(text) : text[i] = byte
  <2> DEFINE Places == {i \in 1 .. Len(text) : text[i] = byte}
  <2>1. Places \subseteq Nat /\ Places # {}
    BY <1>3
  <2>2. PICK i \in Places : \A j \in Places : i <= j
    <3> HIDE DEF Places
    <3> QED
      BY <2>1, LeastNumber
  <2>3. i \in 1 .. Len(text) /\ First(i)
    BY <1>1, <2>2
  <2>4. \A k, l \in 1 .. Len(text) : First(k) /\ First(l) => k = l
    <3> SUFFICES ASSUME NEW k \in 1 .. Len(text), NEW l \in 1 .. Len(text), First(k), First(l)
                 PROVE  k = l
      OBVIOUS
    <3>1. ~ (k < l) /\ ~ (l < k)
      BY <1>1
    <3> QED
      BY <1>1, <3>1
  <2>5. Until(text, byte) = (CHOOSE k \in 1 .. Len(text) : First(k)) - 1
    BY <1>1, <1>3 DEF Until
  <2> HIDE DEF First
  <2>6. (CHOOSE k \in 1 .. Len(text) : First(k)) = i
    BY <2>3, <2>4
  <2>7. Until(text, byte) = i - 1
    BY <2>5, <2>6
  <2>8. \A k \in 1 .. Len(text) : First(k) => Until(text, byte) = k - 1
    BY <2>3, <2>4, <2>7
  <2>9. i - 1 \in 0 .. Len(text)
    BY <1>1, <2>3
  <2> QED
    BY <1>3, <2>7, <2>8, <2>9 DEF First
<1> QED
  BY <1>2, <1>3

(* Without a NUL in it a text is a C string. *)
LEMMA CStringIs ==
    ASSUME NEW text \in Seq(Byte), \A i \in 1 .. Len(text) : text[i] # 0
    PROVE  CString(text) = text
<1>1. Until(text, 0) = Len(text)
  BY UntilIs
<1> QED
  BY <1>1, SubSeqFull DEF CString

(* What is written for a label and what follows it is bytes. *)
LEMMA EncodeLabelsType ==
    ASSUME NEW cursor \in Seq(Byte), NEW rest, \A t \in Seq(Byte) : rest[t] \subseteq Seq(Byte)
    PROVE  EncodeLabels(cursor, rest) \subseteq Seq(Byte)
<1> DEFINE len == Until(cursor, DOT)
           tail == SubSeq(cursor, len + 2, Len(cursor))
<1>1. len \in 0 .. Len(cursor) /\ Len(cursor) \in Nat /\ \A i \in 1 .. Len(cursor) : cursor[i] \in Byte
  BY UntilIs, LenProperties, ElementOfSeq
<1>2. EncodeLabels(cursor, rest) =
        IF cursor = << >> THEN { << 0 >> }
        ELSE IF len \notin 1 .. 63 THEN {}
        ELSE { << len >> \o SubSeq(cursor, 1, len) \o more : more \in rest[tail] }
  BY DEF EncodeLabels
<1>3. tail \in Seq(Byte)
  <2> HIDE DEF len
  <2>1. \A i \in (len + 2) .. Len(cursor) : cursor[i] \in Byte
    BY <1>1
  <2> QED
    BY <1>1, <2>1, SubSeqProperties
<1> HIDE DEF len, tail
<1>4. << 0 >> \in Seq(Byte)
  BY DEF Byte
<1>5. ASSUME len \in 1 .. 63, NEW more \in rest[tail]
      PROVE  << len >> \o SubSeq(cursor, 1, len) \o more \in Seq(Byte)
  <2>1. << len >> \in Seq(Byte)
    BY <1>5 DEF Byte
  <2>2. SubSeq(cursor, 1, len) \in Seq(Byte)
    <3>1. \A i \in 1 .. len : cursor[i] \in Byte
      BY <1>1
    <3> QED
      BY <1>1, <3>1, SubSeqProperties
  <2>3. more \in Seq(Byte)
    BY <1>3, <1>5
  <2>4. << len >> \o SubSeq(cursor, 1, len) \in Seq(Byte)
    BY <2>1, <2>2, ConcatProperties
  <2> QED
    BY <2>3, <2>4, ConcatProperties
<1> QED
  BY <1>2, <1>4, <1>5

(* The loop of encode_qname writes a label at a time. *)
LEMMA EncoderEquations ==
    ASSUME NEW m \in Nat
    PROVE  \A n \in 0 .. m - 1, cursor \in Seq(Byte) :
              Encoder(m)[n + 1][cursor] = EncodeLabels(cursor, Encoder(m)[n])
<1> DEFINE S == [Seq(Byte) -> SUBSET Seq(Byte)]
           base == [cursor \in Seq(Byte) |-> {}]
           After(x) == [cursor \in Seq(Byte) |-> EncodeLabels(cursor, x)]
           step == [x \in S |-> [n \in 1 .. m |-> After(x)]]
           Body(f) == [n \in 0 .. m |->
                          [cursor \in Seq(Byte) |->
                              IF n = 0 THEN {} ELSE EncodeLabels(cursor, f[n - 1])]]
<1>1. base \in S
  OBVIOUS
<1>2. ASSUME NEW x \in S PROVE After(x) \in S
  <2>1. \A cursor \in Seq(Byte) : EncodeLabels(cursor, x) \subseteq Seq(Byte)
    BY EncodeLabelsType
  <2> QED
    BY <2>1
<1> HIDE DEF After
<1>3. step \in [S -> [1 .. m -> S]] /\ \A x \in S, n \in 1 .. m : step[x][n] = After(x)
  BY <1>2
<1> HIDE DEF step
<1>4. PICK f \in [0 .. m -> S] : IsLoop(f, base, step, m)
  <2> HIDE DEF base, S
  <2> QED
    BY <1>1, <1>3, CountedRecursion
<1>5. f = Body(f)
  <2>1. ASSUME NEW n \in 0 .. m PROVE f[n] = Body(f)[n]
    <3>1. CASE n = 0
      BY <1>4, <3>1 DEF IsLoop
    <3>2. CASE n # 0
      <4>1. n \in 1 .. m /\ n - 1 \in 0 .. m
        BY <3>2
      <4>2. f[n - 1] \in S /\ f[n] = step[f[n - 1]][n]
        BY <1>4, <4>1 DEF IsLoop
      <4>3. f[n] = After(f[n - 1])
        BY <1>3, <4>1, <4>2
      <4>4. Body(f)[n] = [cursor \in Seq(Byte) |-> EncodeLabels(cursor, f[n - 1])]
        BY <3>2
      <4> QED
        BY <4>3, <4>4 DEF After
    <3> QED
      BY <3>1, <3>2
  <2>2. f = [n \in 0 .. m |-> f[n]]
    OBVIOUS
  <2> HIDE DEF S
  <2> QED
    BY <2>1, <2>2
<1>6. Encoder(m) = Body(Encoder(m))
  BY <1>5 DEF Encoder
<1> SUFFICES ASSUME NEW n \in 0 .. m - 1, NEW cursor \in Seq(Byte)
             PROVE  Encoder(m)[n + 1][cursor] = EncodeLabels(cursor, Encoder(m)[n])
  OBVIOUS
<1>7. PICK k \in 1 .. m : k = n + 1 /\ k - 1 = n
  OBVIOUS
<1>8. Encoder(m)[k] = Body(Encoder(m))[k]
  BY <1>6
<1>9. Body(Encoder(m))[k] = [c \in Seq(Byte) |-> EncodeLabels(c, Encoder(m)[k - 1])]
  BY <1>7
<1> QED
  BY <1>7, <1>8, <1>9

(* A label that holds no dot is found again in front of a text. *)
LEMMA LabelIsFound ==
    ASSUME NEW label \in Seq(Byte), Len(label) \in 1 .. 63,
           \A k \in 1 .. Len(label) : label[k] # DOT, NEW text \in Seq(Byte), NEW rest
    PROVE  /\ Append(label, DOT) \o text \in Seq(Byte)
           /\ EncodeLabels(Append(label, DOT) \o text, rest) =
                 { << Len(label) >> \o label \o more : more \in rest[text] }
<1> DEFINE cursor == Append(label, DOT) \o text
           n == Len(label)
<1>1. /\ Append(label, DOT) \in Seq(Byte) /\ Len(Append(label, DOT)) = n + 1
      /\ Append(label, DOT)[n + 1] = DOT
      /\ \A k \in 1 .. n : Append(label, DOT)[k] = label[k]
  BY ReadersAssumption, AppendProperties
<1>2. Len(text) \in Nat /\ n \in 1 .. 63
  BY LenProperties
<1>3. /\ cursor \in Seq(Byte) /\ Len(cursor) = n + 1 + Len(text)
      /\ \A i \in 1 .. n + 1 + Len(text) :
            cursor[i] = IF i <= n + 1 THEN Append(label, DOT)[i] ELSE text[i - (n + 1)]
  BY <1>1, ConcatProperties
<1> HIDE DEF cursor, n
<1>4. cursor[n + 1] = DOT /\ \A j \in 1 .. n : cursor[j] = label[j] /\ cursor[j] # DOT
  BY <1>1, <1>2, <1>3 DEF n
<1>5. Until(cursor, DOT) = n
  <2> DEFINE k == n + 1
  <2>1. k \in 1 .. Len(cursor) /\ k - 1 = n
    <3>1. Len(cursor) = n + 1 + Len(text)
      BY <1>3
    <3> QED
      BY <1>2, <3>1
  <2>2. k = n + 1
    OBVIOUS
  <2> HIDE DEF k
  <2>3. cursor[k] = DOT /\ \A j \in 1 .. k - 1 : cursor[j] # DOT
    BY <1>4, <2>1, <2>2
  <2>4. \A l \in 1 .. Len(cursor) :
           cursor[l] = DOT /\ (\A j \in 1 .. l - 1 : cursor[j] # DOT) =>
              Until(cursor, DOT) = l - 1
    <3>1. cursor \in Seq(Byte)
      BY <1>3
    <3> QED
      BY <3>1, UntilIs
  <2>5. Until(cursor, DOT) = k - 1
    BY <2>1, <2>3, <2>4
  <2> QED
    BY <2>1, <2>5
<1>6. SubSeq(cursor, 1, n) = label
  <2>1. \A i \in 1 .. n : cursor[i] \in Byte
    BY <1>2, <1>3, ElementOfSeq
  <2>2. /\ SubSeq(cursor, 1, n) \in Seq(Byte)
        /\ Len(SubSeq(cursor, 1, n)) = IF 1 <= n THEN n - 1 + 1 ELSE 0
        /\ \A i \in 1 .. n - 1 + 1 : SubSeq(cursor, 1, n)[i] = cursor[1 + i - 1]
    BY <1>2, <2>1, SubSeqProperties
  <2>3. Len(SubSeq(cursor, 1, n)) = n /\ \A i \in 1 .. n : SubSeq(cursor, 1, n)[i] = label[i]
    BY <1>2, <1>4, <2>2
  <2> QED
    BY <2>2, <2>3, SeqEqual DEF n
<1>7. SubSeq(cursor, n + 2, Len(cursor)) = text
  <2> DEFINE part == SubSeq(cursor, n + 2, n + 1 + Len(text))
  <2>1. \A i \in (n + 2) .. (n + 1 + Len(text)) : cursor[i] \in Byte
    BY <1>2, <1>3, ElementOfSeq
  <2>2. /\ part \in Seq(Byte)
        /\ Len(part) = IF n + 2 <= n + 1 + Len(text) THEN n + 1 + Len(text) - (n + 2) + 1 ELSE 0
        /\ \A i \in 1 .. n + 1 + Len(text) - (n + 2) + 1 : part[i] = cursor[n + 2 + i - 1]
    BY <1>2, <2>1, SubSeqProperties
  <2> HIDE DEF part
  <2>3. Len(part) = Len(text)
    BY <1>2, <2>2
  <2>4. ASSUME NEW i \in 1 .. Len(text) PROVE part[i] = text[i]
    <3>1. PICK k \in 1 .. n + 1 + Len(text) : k = n + 2 + i - 1 /\ ~ (k <= n + 1) /\ k - (n + 1) = i
      BY <1>2
    <3>2. cursor[k] = text[i]
      BY <1>3, <3>1
    <3>3. part[i] = cursor[n + 2 + i - 1]
      BY <1>2, <2>2
    <3> QED
      BY <3>1, <3>2, <3>3
  <2>5. part = text
    BY <2>2, <2>3, <2>4, SeqEqual
  <2> QED
    BY <1>3, <2>5 DEF part
<1>8. cursor # << >>
  BY <1>2, <1>3, EmptySeq
<1>9. EncodeLabels(cursor, rest) = { << n >> \o label \o more : more \in rest[text] }
  BY <1>2, <1>5, <1>6, <1>7, <1>8 DEF EncodeLabels
<1> QED
  BY <1>3, <1>9 DEF cursor, n

(* No label holds a dot or a NUL. *)
Clean(labels) == \A i \in DOMAIN labels : \A k \in DOMAIN labels[i] : labels[i][k] \notin {0, DOT}

(* Such a name's text holds no NUL. *)
LEMMA TextIsClean ==
    ASSUME NEW labels \in Seq(Seq(Byte)), Clean(labels)
    PROVE  \A i \in 1 .. Len(Dotted(labels)) : Dotted(labels)[i] # 0
<1> DEFINE E == Seq(Byte)
           P == {l \in Seq(E) : Clean(l) => \A i \in 1 .. Len(Dotted(l)) : Dotted(l)[i] # 0}
<1>1. << >> \in P
  BY EmptySeq, DottedEquations
<1>2. ASSUME NEW l \in Seq(E), NEW label \in E, l \in P PROVE Append(l, label) \in P
  <2>1. /\ Append(l, label) \in Seq(E) /\ Len(l) \in Nat
        /\ Len(Append(l, label)) = Len(l) + 1 /\ Append(l, label)[Len(l) + 1] = label
        /\ \A i \in 1 .. Len(l) : Append(l, label)[i] = l[i]
    BY AppendProperties, LenProperties
  <2> SUFFICES ASSUME Clean(Append(l, label)), NEW i \in 1 .. Len(Dotted(Append(l, label)))
               PROVE  Dotted(Append(l, label))[i] # 0
    BY <2>1
  <2>2. DOMAIN l = 1 .. Len(l) /\ DOMAIN label = 1 .. Len(label) /\ Len(label) \in Nat
        /\ DOMAIN Append(l, label) = 1 .. Len(l) + 1
    BY <2>1, LenProperties
  <2>3. Clean(l) /\ \A k \in 1 .. Len(label) : label[k] # 0
    <3>1. \A j \in 1 .. Len(l) : j \in DOMAIN Append(l, label) /\ Append(l, label)[j] = l[j]
      BY <2>1, <2>2
    <3>2. Len(l) + 1 \in DOMAIN Append(l, label)
      BY <2>1, <2>2
    <3> QED
      BY <2>1, <2>2, <3>1, <3>2 DEF Clean
  <2> DEFINE front == Dotted(l)
             last == Append(label, DOT)
  <2>4. front \in Seq(Byte) /\ Dotted(Append(l, label)) = front \o last
    BY DottedEquations
  <2>5. \A k \in 1 .. Len(front) : front[k] # 0
    BY <1>2, <2>3
  <2>6. /\ last \in Seq(Byte) /\ Len(last) = Len(label) + 1
        /\ \A k \in 1 .. Len(label) : last[k] = label[k]
        /\ last[Len(label) + 1] = DOT /\ DOT # 0
    BY ReadersAssumption, AppendProperties
  <2> HIDE DEF front, last
  <2>7. ASSUME NEW k \in 1 .. Len(last) PROVE last[k] # 0
    <3>1. k = Len(label) + 1 \/ k \in 1 .. Len(label)
      BY <2>2, <2>6
    <3>2. ASSUME k \in 1 .. Len(label) PROVE last[k] # 0
      BY <2>3, <2>6, <3>2
    <3> QED
      BY <2>6, <3>1, <3>2
  <2>8. /\ Len(front \o last) = Len(front) + Len(last) /\ Len(front) \in Nat /\ Len(last) \in Nat
        /\ \A k \in 1 .. Len(front) + Len(last) :
              (front \o last)[k] = IF k <= Len(front) THEN front[k] ELSE last[k - Len(front)]
    BY <2>4, <2>6, ConcatProperties, LenProperties
  <2>9. i \in 1 .. Len(front) + Len(last)
    BY <2>4, <2>8
  <2>10. CASE i <= Len(front)
    <3>1. i \in 1 .. Len(front)
      BY <2>8, <2>9, <2>10
    <3> QED
      BY <2>4, <2>5, <2>8, <2>9, <2>10, <3>1
  <2>11. CASE ~ (i <= Len(front))
    <3>1. i - Len(front) \in 1 .. Len(last)
      BY <2>8, <2>9, <2>11
    <3> QED
      BY <2>4, <2>7, <2>8, <2>9, <2>11, <3>1
  <2> QED
    BY <2>10, <2>11
<1> HIDE DEF P, E
<1>3. Seq(E) \subseteq P
  BY <1>1, <1>2, SequenceInduction
<1>4. labels \in P
  BY <1>3 DEF E
<1> QED
  BY <1>4 DEF P

(* Three pieces of a packet that lie behind one another. *)
LEMMA PiecesJoin ==
    ASSUME NEW bytes \in Seq(Byte), NEW at \in Nat, NEW len \in Nat, NEW end \in Nat,
           at + 1 + len <= end, end <= Len(bytes)
    PROVE  << bytes[at + 1] >> \o SubSeq(bytes, at + 2, at + 1 + len)
              \o SubSeq(bytes, at + 1 + len + 1, end) = SubSeq(bytes, at + 1, end)
<1>1. PICK m \in Nat, k \in Nat : m = at + 1 /\ k = at + 1 + len
  OBVIOUS
<1>2. /\ m \in 1 .. Len(bytes) /\ k \in m .. Len(bytes) /\ k \in m - 1 .. Len(bytes)
      /\ end \in k .. Len(bytes) /\ m \in 1 .. Len(bytes) + 1
  BY <1>1, LenProperties
<1>3. SubSeq(bytes, m, k) = << bytes[m] >> \o SubSeq(bytes, m + 1, k)
  BY <1>2, SubSeqRecursiveFirst
<1>4. SubSeq(bytes, m, k) \o SubSeq(bytes, k + 1, end) = SubSeq(bytes, m, end)
  BY <1>2, ConcatAdjacentSubSeq
<1>5. m + 1 = at + 2
  BY <1>1
<1> QED
  BY <1>1, <1>3, <1>4, <1>5

(* The text of a name without pointers is written as the name was.         *)
LEMMA NameIsWritten ==
    ASSUME NEW bytes \in Seq(Byte), NEW m \in Nat
    PROVE  \A n \in 0 .. Len(bytes) + 1, at \in Nat :
              \A name \in NameIn(bytes, "parse_qname", n, at) :
                 Clean(name.labels) =>
                    /\ at + 1 <= name.end /\ name.end <= Len(bytes)
                    /\ \A k \in 0 .. m :
                          k > Len(name.labels) =>
                             Encoder(m)[k][Dotted(name.labels)] = { SubSeq(bytes, at + 1, name.end) }
<1> DEFINE who == "parse_qname"
           Back(name, at) ==
              /\ at + 1 <= name.end /\ name.end <= Len(bytes)
              /\ \A k \in 0 .. m :
                    k > Len(name.labels) =>
                       Encoder(m)[k][Dotted(name.labels)] = { SubSeq(bytes, at + 1, name.end) }
           Good(n) == \A at \in Nat : \A name \in NameIn(bytes, who, n, at) :
                         Clean(name.labels) => Back(name, at)
           T == {n \in Nat : n <= Len(bytes) + 1 => Good(n)}
<1>1. Len(bytes) \in Nat
  BY LenProperties
<1>2. Good(0)
  BY NameInEquations
<1>3. ASSUME NEW n \in Nat, n + 1 <= Len(bytes) + 1, Good(n) PROVE Good(n + 1)
  <2> SUFFICES ASSUME NEW at \in Nat, NEW name \in NameIn(bytes, who, n + 1, at), Clean(name.labels)
               PROVE  Back(name, at)
    OBVIOUS
  <2>1. /\ NameIn(bytes, who, n + 1, at) = NameAt(bytes, who, at, Table(bytes, who, n))
        /\ \A a \in Nat : Table(bytes, who, n)[a] = NameIn(bytes, who, n, a)
        /\ \A a \in Nat : NameIn(bytes, who, n, a) \subseteq Name
    <3>1. n \in 0 .. Len(bytes) /\ n \in 0 .. Len(bytes) + 1
      BY <1>1, <1>3
    <3> QED
      BY <3>1, NameInEquations DEF Table
  <2>2. CASE RootAt(bytes, at)
    <3>1. NameAt(bytes, who, at, Table(bytes, who, n)) = { RootEnding(at + 1) }
      BY <2>2, NameAtCases DEF RootAt, RootEnding
    <3>2. name.labels = << >> /\ name.end = at + 1
      BY <2>1, <3>1 DEF RootEnding
    <3>3. at + 1 <= Len(bytes) /\ bytes[at + 1] = 0
      BY <1>1, <2>2 DEF RootAt
    <3>4. SubSeq(bytes, at + 1, at + 1) = << 0 >>
      <4>1. PICK p \in 1 .. Len(bytes) : p = at + 1
        BY <1>1, <3>3
      <4>2. SubSeq(bytes, p, p) = << bytes[p] >> \o SubSeq(bytes, p + 1, p)
        BY <1>1, <4>1, SubSeqRecursiveFirst
      <4>3. SubSeq(bytes, p + 1, p) = << >>
        BY <4>1, SubSeqEmpty
      <4>4. << 0 >> \in Seq(Byte) /\ << 0 >> \o << >> = << 0 >>
        <5>1. << 0 >> \in Seq(Byte)
          BY DEF Byte
        <5> QED
          BY <5>1, ConcatEmptySeq
      <4> QED
        BY <3>3, <4>1, <4>2, <4>3, <4>4
    <3>5. ASSUME NEW k \in 0 .. m, k > 0 PROVE Encoder(m)[k][<< >>] = { << 0 >> }
      <4>1. PICK j \in 0 .. m - 1 : k = j + 1
        BY <3>5
      <4>2. << >> \in Seq(Byte)
        BY EmptySeq
      <4>3. Encoder(m)[j + 1][<< >>] = EncodeLabels(<< >>, Encoder(m)[j])
        BY <4>2, EncoderEquations
      <4>4. EncodeLabels(<< >>, Encoder(m)[j]) = { << 0 >> }
        BY DEF EncodeLabels
      <4> QED
        BY <4>1, <4>3, <4>4
    <3>6. Len(name.labels) = 0 /\ Dotted(name.labels) = << >>
      BY <3>2, EmptySeq, DottedEquations
    <3> QED
      BY <1>1, <3>2, <3>3, <3>4, <3>5, <3>6
  <2>3. CASE LabelAt(bytes, at)
    <3>1. PICK len \in 1 .. 63, label \in Seq(Byte), behind \in Nat :
             /\ len = bytes[at + 1] /\ Len(label) = len /\ behind = at + 1 + len
             /\ label = LabelTextAt(bytes, at) /\ behind = BehindLabel(bytes, at)
             /\ label = SubSeq(bytes, at + 2, at + 1 + len)
      BY <2>3, PlacesType DEF LabelTextAt, BehindLabel
    <3>2. NameAt(bytes, who, at, Table(bytes, who, n)) =
            WithLabel(label, NameIn(bytes, who, n, behind))
      <4>1. NameAt(bytes, who, at, Table(bytes, who, n)) =
              WithLabel(LabelTextAt(bytes, at), Table(bytes, who, n)[BehindLabel(bytes, at)])
        BY <2>3, NameAtLabel
      <4> QED
        BY <2>1, <3>1, <4>1
    <3>3. PICK last \in NameIn(bytes, who, n, behind) :
             name.labels = << label >> \o last.labels /\ name.end = last.end
      <4>1. name \in WithLabel(label, NameIn(bytes, who, n, behind))
        BY <2>1, <3>2
      <4> HIDE DEF who
      <4>2. PICK last \in NameIn(bytes, who, n, behind) :
               name = [labels |-> << label >> \o last.labels, end |-> last.end]
        BY <4>1 DEF WithLabel
      <4> QED
        BY <4>2
    <3>4. last.labels \in Seq(Seq(Byte)) /\ last.end \in Nat /\ Len(last.labels) \in Nat
      BY <2>1, <3>1, <3>3, LenProperties DEF Name
    <3>5. /\ Len(name.labels) = Len(last.labels) + 1
          /\ DOMAIN name.labels = 1 .. Len(last.labels) + 1
          /\ name.labels[1] = label
          /\ \A i \in 1 .. Len(last.labels) : name.labels[i + 1] = last.labels[i]
      <4> DEFINE one == << label >>
      <4>1. one \in Seq(Seq(Byte)) /\ Len(one) = 1 /\ one[1] = label
        OBVIOUS
      <4> HIDE DEF one
      <4>2. /\ one \o last.labels \in Seq(Seq(Byte))
            /\ Len(one \o last.labels) = 1 + Len(last.labels)
            /\ \A i \in 1 .. 1 + Len(last.labels) :
                  (one \o last.labels)[i] = IF i <= 1 THEN one[i] ELSE last.labels[i - 1]
        <5>1. PICK rest \in Seq(Seq(Byte)) : rest = last.labels
          BY <3>4
        <5>2. /\ one \o rest \in Seq(Seq(Byte))
              /\ Len(one \o rest) = Len(one) + Len(rest)
              /\ \A i \in 1 .. Len(one) + Len(rest) :
                    (one \o rest)[i] = IF i <= Len(one) THEN one[i] ELSE rest[i - Len(one)]
          BY <4>1, ConcatProperties
        <5> QED
          BY <4>1, <5>1, <5>2
      <4>3. DOMAIN (one \o last.labels) = 1 .. 1 + Len(last.labels)
        BY <4>2, LenProperties
      <4>4. \A i \in 1 .. Len(last.labels) : (one \o last.labels)[i + 1] = last.labels[i]
        <5> TAKE i \in 1 .. Len(last.labels)
        <5>1. i + 1 \in 1 .. 1 + Len(last.labels) /\ ~ (i + 1 <= 1) /\ (i + 1) - 1 = i
          BY <3>4
        <5> QED
          BY <4>2, <5>1
      <4>5. (one \o last.labels)[1] = label
        BY <3>4, <4>1, <4>2
      <4>6. name.labels = one \o last.labels
        BY <3>3 DEF one
      <4> QED
        <5>1. 1 + Len(last.labels) = Len(last.labels) + 1
          BY <3>4
        <5> QED
          BY <4>2, <4>3, <4>4, <4>5, <4>6, <5>1
    <3>6. Clean(last.labels) /\ \A k \in 1 .. Len(label) : label[k] # DOT
      <4>1. DOMAIN last.labels = 1 .. Len(last.labels) /\ DOMAIN label = 1 .. Len(label)
        BY <3>1, <3>4, LenProperties
      <4>2. 1 \in DOMAIN name.labels /\ \A i \in 1 .. Len(last.labels) : i + 1 \in DOMAIN name.labels
        BY <3>4, <3>5
      <4> QED
        BY <3>5, <4>1, <4>2 DEF Clean
    <3>7. Back(last, behind)
      BY <1>3, <3>1, <3>3, <3>6
    <3>8. at + 1 <= name.end /\ name.end <= Len(bytes)
      <4>1. at + 1 <= behind + 1
        BY <3>1
      <4>2. behind + 1 <= last.end /\ last.end <= Len(bytes)
        BY <3>7
      <4>3. name.end = last.end
        BY <3>3
      <4> QED
        BY <1>1, <3>4, <4>1, <4>2, <4>3
    <3>9. ASSUME NEW k \in 0 .. m, k > Len(name.labels)
          PROVE  Encoder(m)[k][Dotted(name.labels)] = { SubSeq(bytes, at + 1, name.end) }
      <4>1. PICK j \in 0 .. m - 1 : k = j + 1 /\ j \in 0 .. m /\ j > Len(last.labels)
        BY <3>4, <3>5, <3>9
      <4>2. /\ Dotted(name.labels) = Append(label, DOT) \o Dotted(last.labels)
            /\ Dotted(last.labels) \in Seq(Byte)
        <5>1. << label >> \in Seq(Seq(Byte))
          BY <3>1
        <5>2. Dotted(<< label >> \o last.labels) = Dotted(<< label >>) \o Dotted(last.labels)
          BY <3>4, <5>1, DottedOfConcat
        <5>3. Dotted(<< label >>) = Append(label, DOT)
          BY <3>1, DottedOfLabel
        <5> QED
          BY <3>3, <3>4, <5>2, <5>3, DottedEquations
      <4>3. Len(label) \in 1 .. 63
        BY <3>1
      <4>4. /\ Append(label, DOT) \o Dotted(last.labels) \in Seq(Byte)
            /\ EncodeLabels(Append(label, DOT) \o Dotted(last.labels), Encoder(m)[j]) =
                 { << Len(label) >> \o label \o more : more \in Encoder(m)[j][Dotted(last.labels)] }
        BY <3>1, <3>6, <4>2, <4>3, LabelIsFound
      <4>5. Encoder(m)[j][Dotted(last.labels)] = { SubSeq(bytes, behind + 1, last.end) }
        BY <3>7, <4>1
      <4>6. Encoder(m)[j + 1][Dotted(name.labels)] =
              EncodeLabels(Dotted(name.labels), Encoder(m)[j])
        BY <4>1, <4>2, <4>4, EncoderEquations, ZenonT(60)
      <4>7. Encoder(m)[k][Dotted(name.labels)] =
              { << len >> \o label \o SubSeq(bytes, behind + 1, last.end) }
        BY <3>1, <4>1, <4>2, <4>4, <4>5, <4>6
      <4>8. << len >> \o label \o SubSeq(bytes, behind + 1, last.end) = SubSeq(bytes, at + 1, last.end)
        <5>1. PICK end \in Nat : end = last.end
          BY <3>4
        <5>2. at + 1 + len <= end /\ end <= Len(bytes) /\ len \in Nat
          <6>1. behind + 1 <= end /\ end <= Len(bytes)
            BY <3>7, <5>1
          <6>2. len \in Nat
            OBVIOUS
          <6>3. behind = at + 1 + len
            BY <3>1, Zenon
          <6> QED
            BY <1>1, <6>1, <6>2, <6>3
        <5>3. << bytes[at + 1] >> \o SubSeq(bytes, at + 2, at + 1 + len)
                 \o SubSeq(bytes, at + 1 + len + 1, end) = SubSeq(bytes, at + 1, end)
          BY <5>2, PiecesJoin
        <5> QED
          BY <3>1, <5>1, <5>3
      <4> QED
        BY <3>3, <4>7, <4>8
    <3> QED
      BY <3>8, <3>9
  <2>4. CASE ~ RootAt(bytes, at) /\ ~ LabelAt(bytes, at)
    <3>1. ~ PointerAt(bytes, who, at)
      BY DEF PointerAt
    <3>2. NameAt(bytes, who, at, Table(bytes, who, n)) = {}
      BY <2>4, <3>1, NameAtCases
    <3> QED
      BY <2>1, <3>2
  <2> QED
    BY <2>2, <2>3, <2>4
<1> HIDE DEF Good
<1>4. 0 \in T /\ \A n \in Nat : n \in T => n + 1 \in T
  BY <1>1, <1>2, <1>3
<1> HIDE DEF T
<1>5. Nat \subseteq T
  BY <1>4, Induction
<1>6. \A n \in 0 .. Len(bytes) + 1 : Good(n)
  BY <1>1, <1>5 DEF T
<1> QED
  BY <1>6 DEF Good

(* What parse_qname has read is what encode_qname writes. *)
LEMMA ReadIsWritten == NamesInv => EchoFaithful
<1> SUFFICES ASSUME NamesInv, pc = "ok", reader = "parse_qname",
                    NEW name \in Meaning, Clean(name.labels)
             PROVE  EncodeQname(out) = { SubSeq(packet, offset + 1, local_next) }
  BY DEF EchoFaithful, Clean
<1>1. packet \in Seq(Byte) /\ packet_len = Len(packet) /\ offset \in Nat /\ packet_len \in Nat
  BY CallIs DEF NamesInv, IInv
<1>2. Meaning = NameIn(packet, "parse_qname", Len(packet) + 1, offset)
  BY <1>1 DEF Meaning
<1>3. One(Meaning) /\ Meaning \subseteq Name
  <2>1. /\ NameIn(packet, "parse_qname", Len(packet) + 1, offset) \subseteq Name
        /\ One(NameIn(packet, "parse_qname", Len(packet) + 1, offset))
    BY <1>1, NameInRests
  <2> QED
    BY <1>2, <2>1
<1>4. name.labels \in Seq(Seq(Byte))
  BY <1>3 DEF Name
<1>5. out = Dotted(name.labels) /\ local_next = name.end
  BY <1>3 DEF NamesInv, NameIsMeaning, NextOffsetIsEnd, One
<1>6. out \in Seq(Byte) /\ \A i \in 1 .. Len(out) : out[i] # 0
  BY <1>4, <1>5, DottedEquations, TextIsClean
<1>7. CString(out) = out
  BY <1>6, CStringIs
<1>8. PICK m \in Nat : m = Len(out) + 1
  BY <1>6, LenProperties
<1>9. EncodeQname(out) = Encoder(m)[m][out]
  BY <1>7, <1>8 DEF EncodeQname, Encoder
<1>10. m \in 0 .. m /\ m > Len(name.labels)
  <2>1. Len(name.labels) \in Nat /\ Len(out) \in Nat /\ Len(name.labels) <= Len(out)
    BY <1>4, <1>5, <1>6, DottedLen, LenProperties
  <2> QED
    BY <1>8, <2>1
<1>11. Encoder(m)[m][Dotted(name.labels)] = { SubSeq(packet, offset + 1, name.end) }
  <2> DEFINE Writes(bytes, read) ==
                Clean(read.labels) =>
                   \A k \in 0 .. m :
                      k > Len(read.labels) =>
                         Encoder(m)[k][Dotted(read.labels)] = { SubSeq(bytes, offset + 1, read.end) }
  <2>1. Len(packet) + 1 \in 0 .. Len(packet) + 1
    BY <1>1
  <2>2. \A n \in 0 .. Len(packet) + 1 :
           \A read \in NameIn(packet, "parse_qname", n, offset) : Writes(packet, read)
    BY <1>1, NameIsWritten, SMTT(60)
  <2> HIDE DEF Writes
  <2>3. Writes(packet, name)
    BY <1>2, <2>1, <2>2
  <2> QED
    BY <1>10, <2>3 DEF Writes
<1> QED
  BY <1>5, <1>9, <1>11

(* The server repeats the question it has read, byte for byte, whatever    *)
(* the packet, unless a label holds a dot or a NUL.                        *)
THEOREM QuestionIsRepeated == Spec => []EchoFaithful
BY NamesAreRead, ReadIsWritten, PTL
=============================================================================
