---------------------------- MODULE NameReaders ----------------------------
(***************************************************************************)
(* The two functions that read a name from a packet, byte by byte:         *)
(* parse_qname, with which the server reads a question, and decode_name,   *)
(* with which the browser reads any name of a response.  They are one loop *)
(* with two differences: decode_name follows compression pointers, and     *)
(* they end the text differently.                                          *)
(*                                                                         *)
(* Offsets count from 0, as in the code; sequences count from 1.           *)
(***************************************************************************)
EXTENDS Integers, Sequences, SequencesExt

CONSTANTS
    Packets,     \* The packets to read from
    Offsets,     \* Where a name may be asked for
    OutLens,     \* Sizes of the caller's buffer
    DOT          \* The byte '.'

Byte == 0 .. 255
Readers == {"parse_qname", "decode_name"}

ASSUME ReadersAssumption ==
    /\ Packets \subseteq Seq(Byte)
    /\ Offsets \subseteq Nat
    /\ OutLens \subseteq Nat \ {0}
    /\ DOT \in Byte \ {0}

VARIABLES
    reader, packet, offset, out_len,   \* The call
    pc,
    pos,          \* The next byte to read
    out,          \* The text so far
    jumps, jumped,
    local_next,   \* Where the name ends in the packet
    read_to,      \* How far the packet was read
    wrote_to      \* How far the buffer was written

call == <<reader, packet, offset, out_len>>
vars == <<call, pc, pos, out, jumps, jumped, local_next, read_to, wrote_to>>

packet_len == Len(packet)
Maximum(a, b) == IF a > b THEN a ELSE b

(* The two high bits of a length byte say what follows. *)
IsLabel(b) == b \div 64 = 0
IsPointer(b) == b \div 64 = 3

-----------------------------------------------------------------------------
Init ==
    /\ reader \in Readers
    /\ packet \in Packets /\ offset \in Offsets /\ out_len \in OutLens
    /\ pc = "loop"
    /\ pos = offset /\ local_next = offset
    /\ out = << >>
    /\ jumps = 0 /\ jumped = FALSE
    /\ read_to = 0 /\ wrote_to = 0

Loop == pc = "loop" /\ pos < packet_len
Here == packet[pos + 1]

(* Mutant of InBuffer: the byte for the NUL is forgotten. *)
InBufferWithoutNul(len) == Len(out) + len + 1 <= out_len

(* The label is in the packet; it goes in the buffer with a dot and a NUL. *)
InPacket(len) == pos + 1 + len <= packet_len
InBuffer(len) == Len(out) + len + 1 < out_len

(* Mutant of Label: no dot between labels. *)
LabelWithoutDot ==
    /\ Loop
    /\ Here # 0 /\ IsLabel(Here) /\ InPacket(Here) /\ InBuffer(Here)
    /\ out' = out \o SubSeq(packet, pos + 2, pos + 1 + Here)
    /\ pos' = pos + 1 + Here
    /\ local_next' = IF jumped THEN local_next ELSE pos'
    /\ read_to' = Maximum(read_to, pos') /\ wrote_to' = Len(out')
    /\ UNCHANGED <<call, pc, jumps, jumped>>

(* A label is copied, with a dot behind it. *)
Label ==
    /\ Loop
    /\ Here # 0 /\ IsLabel(Here) /\ InPacket(Here) /\ InBuffer(Here)
    /\ out' = out \o SubSeq(packet, pos + 2, pos + 1 + Here) \o <<DOT>>
    /\ pos' = pos + 1 + Here
    /\ local_next' = IF jumped THEN local_next ELSE pos'
    /\ read_to' = Maximum(read_to, pos') /\ wrote_to' = Len(out')
    /\ UNCHANGED <<call, pc, jumps, jumped>>

Target == (Here % 64) * 256 + packet[pos + 2]

(* Mutants of JumpAllowed: no limit on jumps; and one jump per name. *)
NoJumpLimit == Target < packet_len
OneJump == Target < packet_len /\ jumps = 0

(* ptr >= packet_len || jumps++ > packet_len fails *)
JumpAllowed == Target < packet_len /\ jumps <= packet_len

PointerIsRead == reader = "decode_name" /\ IsPointer(Here) /\ pos + 1 < packet_len

(* Mutants of Pointer: only the first jump counts; and every jump moves    *)
(* the end of the name.                                                    *)
CountsFirstJump ==
    /\ Loop
    /\ PointerIsRead /\ JumpAllowed
    /\ pos' = Target
    /\ jumps' = 1 /\ jumped' = TRUE
    /\ local_next' = IF jumped THEN local_next ELSE pos + 2
    /\ read_to' = Maximum(read_to, pos + 2)
    /\ UNCHANGED <<call, pc, out, wrote_to>>
EndMovesWithJumps ==
    /\ Loop
    /\ PointerIsRead /\ JumpAllowed
    /\ pos' = Target
    /\ jumps' = jumps + 1 /\ jumped' = TRUE
    /\ local_next' = pos + 2
    /\ read_to' = Maximum(read_to, pos + 2)
    /\ UNCHANGED <<call, pc, out, wrote_to>>

(* A compression pointer. *)
Pointer ==
    /\ Loop
    /\ PointerIsRead /\ JumpAllowed
    /\ pos' = Target
    /\ jumps' = jumps + 1 /\ jumped' = TRUE
    /\ local_next' = IF jumped THEN local_next ELSE pos + 2
    /\ read_to' = Maximum(read_to, pos + 2)
    /\ UNCHANGED <<call, pc, out, wrote_to>>

(* The root label ends the name: parse_qname refuses a name that is        *)
(* nothing else and keeps the last dot, decode_name gives "." and drops it.*)
RootAccepted == IF reader = "parse_qname" THEN out # << >> ELSE out = << >> => out_len >= 2

Root ==
    /\ Loop
    /\ Here = 0 /\ RootAccepted
    /\ out' = IF reader = "parse_qname" THEN out
              ELSE IF out = << >> THEN <<DOT>> ELSE Front(out)
    /\ wrote_to' = Maximum(wrote_to, Len(out') + 1)
    /\ local_next' = IF jumped THEN local_next ELSE pos + 1
    /\ read_to' = Maximum(read_to, pos + 1)
    /\ pc' = "ok"
    /\ UNCHANGED <<call, pos, jumps, jumped>>

Refused ==
    CASE Here = 0 -> ~ RootAccepted
      [] Here # 0 /\ IsLabel(Here) -> ~ (InPacket(Here) /\ InBuffer(Here))
      [] IsPointer(Here) /\ reader = "decode_name" ->
            PointerIsRead => ~ JumpAllowed
      [] OTHER -> TRUE

(* return -1: at the end of the packet, or at what is refused. *)
Fail ==
    /\ pc = "loop"
    /\ pos < packet_len => Refused
    /\ read_to' = IF ~ Loop THEN read_to
                  ELSE Maximum(read_to, IF PointerIsRead THEN pos + 2 ELSE pos + 1)
    /\ pc' = "failed"
    /\ UNCHANGED <<call, pos, out, jumps, jumped, local_next, wrote_to>>

Done == pc \in {"ok", "failed"} /\ UNCHANGED vars

Next == Label \/ Pointer \/ Root \/ Fail \/ Done

Spec == Init /\ [][Next]_vars

(* Sequential code: it is scheduled. *)
FairSpec == Spec /\ WF_vars(Next)
-----------------------------------------------------------------------------
(* What a name in a packet is, by the rules of DNS: its labels, and where  *)
(* it ends in the packet, which is behind its root label or its first      *)
(* pointer.  rest gives the names that may follow a label or a pointer.    *)
NameAt(bytes, who, at, rest) ==
    IF at >= Len(bytes) THEN {}
    ELSE LET b == bytes[at + 1]
         IN  CASE b = 0 -> { [labels |-> << >>, end |-> at + 1] }
               [] b # 0 /\ IsLabel(b) /\ at + 1 + b <= Len(bytes) ->
                    { [labels |-> << SubSeq(bytes, at + 2, at + 1 + b) >> \o name.labels,
                       end |-> name.end] : name \in rest[at + 1 + b] }
               [] IsPointer(b) /\ who = "decode_name" /\ at + 1 < Len(bytes) ->
                    { [labels |-> name.labels, end |-> at + 2] :
                         name \in rest[(b % 64) * 256 + bytes[at + 2]] }
               [] OTHER -> {}

(* The name at an offset, {name}, or {} where there is none that is read   *)
(* in so many steps.  Reading it takes no more steps than the packet has   *)
(* bytes or goes round for ever.                                           *)
NameIn(bytes, who, steps, at) ==
    LET name[n \in 0 .. Len(bytes) + 1] ==
            [a \in Nat |-> IF n = 0 THEN {} ELSE NameAt(bytes, who, a, name[n - 1])]
    IN  name[steps][at]

Meaning == NameIn(packet, reader, packet_len + 1, offset)

Dotted(labels) ==
    LET dotted[l \in Seq(Seq(Byte))] ==
            IF l = << >> THEN << >> ELSE dotted[Front(l)] \o Append(Last(l), DOT)
    IN  dotted[labels]
TooLong(labels) == Maximum(Len(Dotted(labels)), 1) >= out_len

(* strlen, strchr(., '.') *)
Until(text, byte) ==
    IF \E i \in DOMAIN text : text[i] = byte
    THEN (CHOOSE i \in DOMAIN text : text[i] = byte /\ \A j \in 1 .. i - 1 : text[j] # byte) - 1
    ELSE Len(text)

CString(text) == SubSeq(text, 1, Until(text, 0))

(* encode_qname takes the bytes up to a dot for a label, of 63 at most.    *)
EncodeLabels(cursor, rest) ==
    LET label_len == Until(cursor, DOT)
    IN  IF cursor = << >> THEN { <<0>> }
        ELSE IF label_len \notin 1 .. 63 THEN {}
        ELSE { <<label_len>> \o SubSeq(cursor, 1, label_len) \o more :
                   more \in rest[SubSeq(cursor, label_len + 2, Len(cursor))] }

(* encode_qname of a C string: {bytes}, or {} where it fails (room to     *)
(* write is ResponseBuilder's matter).                                     *)
EncodeQname(text) ==
    LET name == CString(text)
        encode[n \in 0 .. Len(name) + 1] ==
            [cursor \in Seq(Byte) |->
                IF n = 0 THEN {} ELSE EncodeLabels(cursor, encode[n - 1])]
    IN  encode[Len(name) + 1][name]
-----------------------------------------------------------------------------
(* Properties. *)

TypeOK ==
    /\ reader \in Readers
    /\ packet \in Packets /\ offset \in Offsets /\ out_len \in OutLens
    /\ pc \in {"loop", "ok", "failed"}
    /\ pos \in Nat /\ local_next \in Nat
    /\ out \in Seq(Byte)
    /\ jumps \in 0 .. packet_len + 1 /\ jumped \in BOOLEAN
    /\ read_to \in Nat /\ wrote_to \in Nat

(* Whatever the packet holds (a label cut off by its end, pointers in a    *)
(* circle or past the end), no byte beyond the packet is read and none     *)
(* beyond the caller's buffer is written, the NUL included.                *)
StaysInBounds == read_to <= packet_len /\ wrote_to <= out_len

(* A name is read if and only if there is one and it goes in the buffer,   *)
(* and it is that name.  The limit on jumps refuses nothing DNS allows.    *)
NameIsMeaning ==
    /\ pc = "ok" =>
          \E name \in Meaning :
             out = IF reader = "parse_qname" THEN Dotted(name.labels)
                   ELSE IF name.labels = << >> THEN <<DOT>> ELSE Front(Dotted(name.labels))
    /\ pc = "failed" =>
          \A name \in Meaning :
             TooLong(name.labels) \/ (reader = "parse_qname" /\ name.labels = << >>)

(* The caller goes on behind the name, not behind what a pointer led to:   *)
(* record headers and rdata are read at the right place, inside the packet.*)
NextOffsetIsEnd ==
    pc = "ok" =>
        /\ \E name \in Meaning : local_next = name.end
        /\ local_next \in offset + 1 .. packet_len

(* The server repeats in its response the question it has read: the text   *)
(* between parse_qname and encode_qname loses nothing, unless a label holds*)
(* a dot or a NUL, which C strings and the dotted form cannot tell apart   *)
(* from a separator or an end.                                             *)
EchoFaithful ==
    pc = "ok" /\ reader = "parse_qname" =>
        \A name \in Meaning :
            (\A i \in DOMAIN name.labels : \A k \in DOMAIN name.labels[i] :
                name.labels[i][k] \notin {0, DOT})
            => EncodeQname(out) = { SubSeq(packet, offset + 1, local_next) }

(* Pointers in a circle do not keep the reader. *)
Returns == <>(pc \in {"ok", "failed"})
=============================================================================
