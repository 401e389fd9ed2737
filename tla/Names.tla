------------------------------- MODULE Names -------------------------------
(***************************************************************************)
(* Domain names as this program handles them: C strings compared with      *)
(* strcasecmp, joined with snprintf and split at dots.                     *)
(*                                                                         *)
(* A string is a sequence of tokens.  A token is either Dot, the '.'       *)
(* character, or a label: a run of characters without a dot, of which the  *)
(* model keeps what the code can tell apart, that is its lower-case form,  *)
(* its length in bytes and whether its first character is an underscore.   *)
(* A label on the wire may also hold NUL, where a C string ends.           *)
(***************************************************************************)
EXTENDS Integers, Sequences, FiniteSets, SequencesExt

CONSTANTS
    Token,        \* The tokens, Dot among them
    Dot,          \* The separator
    Nul,          \* The character NUL, which only the wire may hold
    Underscored,  \* The labels whose first character is '_'
    Lower,        \* Token -> Token: the lower-case form
    Octets,       \* Token -> length in bytes
    Local,        \* The string "local"
    FQDN_SIZE,    \* char fqdn[512] in hostdb.c and mdns.c
    NAME_SIZE,    \* char name[256] in mdns.h, hostname[256] in hostdb.h
    MAX_LABEL,    \* Longest label encode_qname accepts (63)
    NULL          \* The null pointer

ASSUME NamesAssumption ==
    /\ Dot \in Token /\ Nul \notin Token
    /\ Underscored \subseteq Token \ {Dot}
    /\ Lower \in [Token -> Token]
    /\ \A t \in Token : /\ Lower[Lower[t]] = Lower[t]
                        /\ Lower[t] = Dot <=> t = Dot
    /\ Octets \in [Token -> Nat \ {0}] /\ Octets[Dot] = 1
    /\ \E t \in Token \ {Dot} : Local = <<t>>
    /\ FQDN_SIZE \in Nat /\ NAME_SIZE \in Nat /\ MAX_LABEL \in Nat

String == Seq(Token)

(* Two labels in a row would be one: a C string has one form only. *)
IsText(s) == \A i \in 2 .. Len(s) : Dot \in {s[i - 1], s[i]}

(* Mutant of StrCaseEq: strcmp. *)
StrEq(s, t) == s = t

(* What strcasecmp compares. *)
Folded(s) == [i \in 1 .. Len(s) |-> Lower[s[i]]]
StrCaseEq(s, t) == Folded(s) = Folded(t)

(* strlen *)
StrLen(s) ==
    LET len[t \in String] == IF t = << >> THEN 0 ELSE len[Front(t)] + Octets[Last(t)]
    IN  len[s]

StartsWithUnderscore(s) == s # << >> /\ Head(s) \in Underscored

(* snprintf("%s.%s.%s") of the parts of a service's name, and whether the  *)
(* result fits the buffer with its terminator.                             *)
Fqdn(svc) == svc.instance \o <<Dot>> \o svc.service_type \o <<Dot>> \o svc.domain
Fits(svc) == StrLen(Fqdn(svc)) < FQDN_SIZE

(* snprintf into a buffer of NAME_SIZE bytes: what does not fit is cut off. *)
(* The prefixes that fit are the shorter ones, so their number is the      *)
(* length of the longest.                                                  *)
Cut(s) ==
    SubSeq(s, 1, Cardinality({n \in 1 .. Len(s) : StrLen(SubSeq(s, 1, n)) < NAME_SIZE}))

StripTrailingDot(s) ==
    IF s # << >> /\ Last(s) = Dot THEN Front(s) ELSE s

-----------------------------------------------------------------------------
(* Names on the wire: a sequence of labels, each of any bytes, so that a    *)
(* label may hold dots and NULs among its runs of other characters.        *)
WireLabel == {l \in Seq(Token \cup {Nul}) :
                 /\ l # << >>
                 /\ \A i \in 2 .. Len(l) : {l[i - 1], l[i]} \cap {Dot, Nul} # {}}

(* The names of labels that are one run of characters each, as programs    *)
(* write them; these runs; and the labels of a list of runs.               *)
DotFree(labels) == \A n \in DOMAIN labels : Len(labels[n]) = 1 /\ labels[n][1] \notin {Dot, Nul}
Bare(labels) == [n \in 1 .. Len(labels) |-> labels[n][1]]
Wired(names) == [n \in 1 .. Len(names) |-> <<names[n]>>]

(* What parse_qname copies: a dot after EVERY label, the last one included. *)
Spelled(labels) ==
    LET text[l \in Seq(WireLabel)] ==
            IF l = << >> THEN << >> ELSE text[Front(l)] \o Last(l) \o <<Dot>>
    IN  text[labels]
WireToText(names) ==
    [i \in 1 .. 2 * Len(names) |-> IF i % 2 = 1 THEN names[(i + 1) \div 2] ELSE Dot]

(* What is left of it as a C string. *)
Nuls(s) == {i \in DOMAIN s : s[i] = Nul}
FirstNul(s) == CHOOSE i \in Nuls(s) : \A j \in Nuls(s) : i <= j
CText(s) == IF Nuls(s) = {} THEN s ELSE SubSeq(s, 1, FirstNul(s) - 1)

(* The bytes it takes: a NUL takes one, as a dot does. *)
WireLen(labels) ==
    LET s == Spelled(labels)
    IN  StrLen([i \in DOMAIN s |-> IF s[i] = Nul THEN Dot ELSE s[i]])

(* parse_qname refuses the root name and a text that does not fit          *)
(* question->name.                                                         *)
WireNameAccepted(labels) == labels # << >> /\ WireLen(labels) < NAME_SIZE

(* encode_qname: no empty label (a single trailing dot is accepted), no    *)
(* label of more than MAX_LABEL bytes.                                     *)
Encodable(name) ==
    /\ \A i \in 1 .. Len(name) :
          /\ name[i] = Dot => i > 1 /\ name[i - 1] # Dot
          /\ name[i] # Dot => Octets[name[i]] <= MAX_LABEL

(* The labels a text name stands for, and the bytes encode_qname writes.   *)
WithToken(labels, t) == IF t = Dot THEN labels ELSE Append(labels, t)
TextToWire(name) ==
    LET labels[t \in String] ==
            IF t = << >> THEN << >> ELSE WithToken(labels[Front(t)], Last(t))
    IN  labels[name]
EncodedLen(name) == 1 + StrLen(TextToWire(name)) + Len(TextToWire(name))
=============================================================================
