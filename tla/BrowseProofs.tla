---------------------------- MODULE BrowseProofs ----------------------------
(***************************************************************************)
(* The browser's two sockets are both read, its deadline is kept, and what *)
(* it shows and counts is what it has received, for every argument,        *)
(* timeout, packet and setting of the clock.                               *)
(***************************************************************************)
EXTENDS Browse, QuestionsProofs, FiniteSetTheorems

(* A socket select has named has a datagram, and is read before the next   *)
(* select; a packet is at hand while it is printed.                        *)
ReadyInv ==
    /\ \A f \in ready : rx[f] # << >>
    /\ pc \notin {"receive", "print"} => ready = {}
    /\ pc = "print" => in # NULL

(* Until the report the deadline is as far ahead of the wall clock as the  *)
(* time that has passed and the settings of the clock leave it.            *)
TimeInv ==
    pc \in {"check", "call", "select", "receive", "print"} =>
        deadline - now = TIMEOUT - elapsed + set_back - set_forward

IInv == TypeOK /\ ReadyInv /\ TimeInv /\ DeadlineKept

(* The part of the packet at hand that has been printed. *)
SeenSoFar == Seen(AskedLabels, SubSeq(in.rrs, 1, i - 1))

(* The question is sent before anything is read, and for the name that the *)
(* user means; at rest the screen shows the packets received, and while    *)
(* one is printed those before it and its records so far, none broken.     *)
ScreenInv ==
    /\ pc \in {"name", "open"} => screen = << >> /\ handled = << >> /\ total_records = 0
    /\ pc = "name" => asked = {}
    /\ pc \notin {"name", "open", "ended"} => asked # {}
    /\ asked # {} => Encodable(service_type_fqdn)
    /\ NameFits /\ pc \notin {"name", "ended"} => service_type_fqdn = Qualified(service_type)
    /\ ScreenAsReceived /\ CountExact
    /\ pc = "print" /\ NameFits =>
          /\ handled = Append(Front(handled), in) /\ Front(handled) \in Seq(Datagrams)
          /\ ~ in.whole => i = 1
          /\ \A m \in 1 .. i - 1 : in.rrs[m].shape # "broken"
          /\ screen = Lines(AskedLabels, Front(handled)) \o LinesFor(in, SeenSoFar)
          /\ printed = Len(SeenSoFar)
          /\ total_records = Total(AskedLabels, Front(handled))

-----------------------------------------------------------------------------
(* A name that is cut is a name. *)
LEMMA CutIsString ==
    ASSUME NEW s \in String
    PROVE  Cut(s) \in String
<1> DEFINE fits == {n \in 1 .. Len(s) : StrLen(SubSeq(s, 1, n)) < NAME_SIZE}
<1>1. Len(s) \in Nat
  BY DEF String
<1>2. IsFiniteSet(1 .. Len(s)) /\ Cardinality(1 .. Len(s)) = Len(s)
  <2> DEFINE n == Len(s)
  <2>1. 1 \in Int /\ n \in Int /\ n >= 0
    BY <1>1
  <2> HIDE DEF n
  <2>2. IsFiniteSet(1 .. n) /\ Cardinality(1 .. n) = IF 1 > n THEN 0 ELSE n - 1 + 1
    BY <2>1, FS_Interval
  <2>3. Cardinality(1 .. n) = n
    BY <2>1, <2>2
  <2> QED
    BY <2>2, <2>3 DEF n
<1>3. Cardinality(fits) \in Nat /\ Cardinality(fits) <= Len(s)
  <2>1. fits \subseteq 1 .. Len(s)
    OBVIOUS
  <2> QED
    BY <2>1, <1>2, FS_Subset, FS_CardinalityType
<1> HIDE DEF fits
<1>4. SubSeq(s, 1, Cardinality(fits)) \in Seq(Token)
  BY <1>1, <1>3 DEF String
<1> QED
  BY <1>4 DEF Cut, fits, String

(* What the user gives, completed, is a name. *)
LEMMA QualifiedIsString ==
    ASSUME NEW s \in String
    PROVE  Qualified(s) \in String
<1>1. DotLocal \in Seq(Token)
  BY NamesAssumption DEF DotLocal
<1> QED
  BY <1>1 DEF Qualified, String

(* The family that is served first is one of those to serve. *)
LEMMA FirstOfIsMember ==
    ASSUME NEW S \in SUBSET Both, S # {}
    PROVE  FirstOf(S) \in S
BY DEF FirstOf, Both

-----------------------------------------------------------------------------
(* What is to be seen, one record and one packet at a time. *)

(* The records to be seen are chosen one by one. *)
LEMMA SeenEquations ==
    ASSUME NEW labels
    PROVE  /\ Seen(labels, << >>) = << >>
           /\ \A s \in Seq(RR) : Seen(labels, s) \in Seq(RR)
           /\ \A s \in Seq(RR), rr \in RR :
                 Seen(labels, Append(s, rr)) = IF ToBeSeen(labels, rr) THEN Append(Seen(labels, s), rr)
                                              ELSE Seen(labels, s)
<1> DEFINE turn(u, rr) == IF ToBeSeen(labels, rr) THEN Append(u, rr) ELSE u
           S == Seq(RR)
           step == [u \in S |-> [rr \in RR |-> turn(u, rr)]]
           Body(f) == [s \in Seq(RR) |->
                          IF s = << >> THEN << >>
                          ELSE IF ToBeSeen(labels, Last(s)) THEN Append(f[Front(s)], Last(s))
                          ELSE f[Front(s)]]
           seen == CHOOSE f : f = Body(f)
<1>1. << >> \in S /\ \A u \in S, rr \in RR : turn(u, rr) \in S
  <2>1. \A u \in Seq(RR), rr \in RR : Append(u, rr) \in Seq(RR)
    BY AppendProperties
  <2> QED
    BY <2>1, EmptySeq
<1> HIDE DEF S
<1>2. /\ step \in [S -> [RR -> S]]
      /\ \A u \in S, rr \in RR : step[u][rr] = turn(u, rr)
  BY <1>1
<1> HIDE DEF step
<1>3. PICK f \in [Seq(RR) -> S] : IsFold(f, RR, << >>, step)
  BY <1>1, <1>2, SequenceRecursion
<1>4. f = Body(f)
  <2>1. \A s \in Seq(RR) : f[s] = Body(f)[s]
    <3> TAKE s \in Seq(RR)
    <3>1. CASE s = << >>
      BY <3>1, <1>3 DEF IsFold
    <3>2. CASE s # << >>
      <4>1. /\ Last(s) \in RR /\ f[Front(s)] \in S
            /\ f[s] = step[f[Front(s)]][Last(s)]
        BY <3>2, <1>3, FoldSteps
      <4>2. f[s] = turn(f[Front(s)], Last(s))
        BY <4>1, <1>2
      <4> QED
        BY <3>2, <4>2
    <3> QED
      BY <3>1, <3>2
  <2>2. f = [s \in Seq(RR) |-> f[s]] /\ Body(f) = [s \in Seq(RR) |-> Body(f)[s]]
    OBVIOUS
  <2> HIDE DEF Body
  <2> QED
    BY <2>1, <2>2, Zenon
<1>5. seen = Body(seen)
  BY <1>4
<1> HIDE DEF seen
<1>6. \A s : Seen(labels, s) = seen[s]
  BY DEF Seen, seen
<1>7. seen[<< >>] = << >>
  BY <1>5, EmptySeq
<1>8. \A s \in Seq(RR), rr \in RR : seen[Append(s, rr)] = turn(seen[s], rr)
  <2> TAKE s \in Seq(RR), rr \in RR
  <2>1. Append(s, rr) \in Seq(RR) /\ Append(s, rr) # << >>
    BY AppendProperties
  <2>2. Front(Append(s, rr)) = s /\ Last(Append(s, rr)) = rr
    BY FrontLastOfAppend
  <2> QED
    BY <1>5, <2>1, <2>2
<1>9. \A s \in Seq(RR) : seen[s] \in S
  <2> DEFINE P == {s \in Seq(RR) : seen[s] \in S}
  <2>1. << >> \in P
    BY <1>1, <1>7, EmptySeq
  <2> HIDE DEF turn
  <2>2. \A s \in Seq(RR), rr \in RR : s \in P => Append(s, rr) \in P
    BY <1>1, <1>8, AppendProperties
  <2> HIDE DEF P
  <2>3. Seq(RR) \subseteq P
    BY <2>1, <2>2, SequenceInduction
  <2> QED
    BY <2>3 DEF P
<1> QED
  BY <1>6, <1>7, <1>8, <1>9 DEF S

(* A line of the screen, below its header or the header itself. *)
ScreenLine == [from : {d.from : d \in Datagrams}, record : RR \cup {NULL}]

(* A packet's fields. *)
LEMMA PacketFields ==
    ASSUME NEW d \in Datagrams
    PROVE  /\ d.whole \in BOOLEAN /\ d.rrs \in Seq(RR) /\ Len(d.rrs) \in Nat
           /\ DOMAIN d.rrs = 1 .. Len(d.rrs)
           /\ \A n \in 1 .. Len(d.rrs) : d.rrs[n] \in RR
           /\ d # NULL
BY BrowseAssumption, LenProperties, ElementOfSeq

(* The first of its records that is broken, and those before it. *)
LEMMA WholeIs ==
    ASSUME NEW d \in Datagrams, NEW n \in 1 .. Len(d.rrs) + 1,
           \A m \in 1 .. n - 1 : d.rrs[m].shape # "broken"
    PROVE  /\ ~ d.whole => Whole(d) = << >> /\ IsBroken(d)
           /\ d.whole /\ n = Len(d.rrs) + 1 => Whole(d) = SubSeq(d.rrs, 1, n - 1) /\ ~ IsBroken(d)
           /\ d.whole /\ n <= Len(d.rrs) /\ d.rrs[n].shape = "broken" =>
                  Whole(d) = SubSeq(d.rrs, 1, n - 1) /\ IsBroken(d)
<1> DEFINE broken == {m \in DOMAIN d.rrs : d.rrs[m].shape = "broken"}
<1>1. /\ d.rrs \in Seq(RR) /\ Len(d.rrs) \in Nat /\ DOMAIN d.rrs = 1 .. Len(d.rrs)
      /\ d.whole \in BOOLEAN
  BY PacketFields
<1>2. ASSUME d.whole, n = Len(d.rrs) + 1
      PROVE  Whole(d) = SubSeq(d.rrs, 1, n - 1) /\ ~ IsBroken(d)
  <2>1. n - 1 = Len(d.rrs) /\ broken = {}
    BY <1>1, <1>2
  <2>2. SubSeq(d.rrs, 1, n - 1) = d.rrs
    BY <1>1, <2>1, SubSeqFull
  <2> QED
    BY <1>1, <1>2, <2>1, <2>2 DEF Whole, IsBroken
<1>3. ASSUME d.whole, n <= Len(d.rrs), d.rrs[n].shape = "broken"
      PROVE  Whole(d) = SubSeq(d.rrs, 1, n - 1) /\ IsBroken(d)
  <2>1. n \in broken
    BY <1>1, <1>3
  <2>2. \A m \in broken : m \in Nat /\ n <= m
    <3> TAKE m \in broken
    <3>1. m \in 1 .. Len(d.rrs) /\ m \notin 1 .. n - 1
      BY <1>1
    <3> QED
      BY <1>1, <3>1
  <2>3. \A x \in broken : (\A m \in broken : x <= m) => x = n
    BY <2>1, <2>2
  <2> HIDE DEF broken
  <2>4. (CHOOSE x \in broken : \A m \in broken : x <= m) = n
    BY <2>1, <2>2, <2>3
  <2>5. Whole(d) = SubSeq(d.rrs, 1, (CHOOSE x \in broken : \A m \in broken : x <= m) - 1)
    BY <1>3, <2>1 DEF Whole, broken
  <2>6. IsBroken(d)
    BY <2>1 DEF IsBroken, broken
  <2> QED
    BY <2>4, <2>5, <2>6
<1>4. ~ d.whole => Whole(d) = << >> /\ IsBroken(d)
  BY DEF Whole, IsBroken
<1> QED
  BY <1>2, <1>3, <1>4

(* What is whole of a packet is a list of records. *)
LEMMA WholeType ==
    ASSUME NEW d \in Datagrams
    PROVE  Whole(d) \in Seq(RR)
<1> DEFINE T == {n \in Nat : n \in 1 .. Len(d.rrs) /\ d.rrs[n].shape = "broken"}
<1>1. /\ d.rrs \in Seq(RR) /\ Len(d.rrs) \in Nat /\ d.whole \in BOOLEAN
      /\ \A n \in 1 .. Len(d.rrs) : d.rrs[n] \in RR
  BY PacketFields
<1>2. PICK n \in 1 .. Len(d.rrs) + 1 :
         /\ \A m \in 1 .. n - 1 : d.rrs[m].shape # "broken"
         /\ n = Len(d.rrs) + 1 \/ (n <= Len(d.rrs) /\ d.rrs[n].shape = "broken")
  <2>1. CASE T = {}
    <3>1. Len(d.rrs) + 1 \in 1 .. Len(d.rrs) + 1 /\ (Len(d.rrs) + 1) - 1 = Len(d.rrs)
      BY <1>1
    <3>2. \A m \in 1 .. Len(d.rrs) : d.rrs[m].shape # "broken"
      BY <1>1, <2>1
    <3> QED
      BY <3>1, <3>2
  <2>2. CASE T # {}
    <3>1. PICK n \in T : \A m \in T : n <= m
      BY <2>2, LeastNumber
    <3>2. n \in 1 .. Len(d.rrs) /\ d.rrs[n].shape = "broken"
      BY <3>1
    <3>3. \A m \in 1 .. n - 1 : m \in Nat /\ m \in 1 .. Len(d.rrs) /\ ~ (n <= m)
      BY <1>1, <3>2
    <3>4. n \in 1 .. Len(d.rrs) + 1 /\ n <= Len(d.rrs)
      BY <1>1, <3>2
    <3> QED
      BY <3>1, <3>2, <3>3, <3>4
  <2> QED
    BY <2>1, <2>2
<1>3. SubSeq(d.rrs, 1, n - 1) \in Seq(RR)
  <2>1. \A m \in 1 .. n - 1 : d.rrs[m] \in RR
    BY <1>1, <1>2
  <2> QED
    BY <1>1, <2>1, SubSeqProperties
<1>4. << >> \in Seq(RR)
  BY EmptySeq
<1> QED
  BY <1>1, <1>2, <1>3, <1>4, WholeIs

(* The lines of a packet, and one more record to be seen. *)
LEMMA LinesForEquations ==
    ASSUME NEW d \in Datagrams, NEW shown \in Seq(RR), NEW rr \in RR
    PROVE  /\ LinesFor(d, << >>) = << >>
           /\ LinesFor(d, shown) \in Seq(ScreenLine)
           /\ LinesFor(d, Append(shown, rr)) =
                 LinesFor(d, shown) \o (IF shown = << >> THEN <<Header(d)>> ELSE << >>)
                                   \o <<Line(d, rr)>>
<1> DEFINE at(u) == [n \in DOMAIN u |-> Line(d, u[n])]
<1>1. Header(d) \in ScreenLine /\ \A r \in RR : Line(d, r) \in ScreenLine
  BY DEF Header, Line, ScreenLine
<1>2. ASSUME NEW u \in Seq(RR)
      PROVE  /\ at(u) \in Seq(ScreenLine) /\ Len(at(u)) = Len(u)
             /\ \A n \in 1 .. Len(u) : at(u)[n] = Line(d, u[n])
  <2>1. Len(u) \in Nat /\ DOMAIN u = 1 .. Len(u) /\ \A n \in 1 .. Len(u) : u[n] \in RR
    BY LenProperties, ElementOfSeq
  <2>2. at(u) = [n \in 1 .. Len(u) |-> Line(d, u[n])]
    BY <2>1
  <2>3. [n \in 1 .. Len(u) |-> Line(d, u[n])] \in [1 .. Len(u) -> ScreenLine]
    BY <1>1, <2>1
  <2> HIDE DEF at
  <2> QED
    BY <2>1, <2>2, <2>3
<1>3. ASSUME NEW u \in Seq(RR) PROVE LinesFor(d, u) \in Seq(ScreenLine)
  <2>1. at(u) \in Seq(ScreenLine) /\ <<Header(d)>> \in Seq(ScreenLine)
        /\ << >> \in Seq(ScreenLine)
    BY <1>1, <1>2
  <2>2. <<Header(d)>> \o at(u) \in Seq(ScreenLine)
    <3> HIDE DEF at
    <3> QED
      BY <2>1, ConcatProperties
  <2> QED
    BY <2>1, <2>2 DEF LinesFor
<1>4. LinesFor(d, << >>) = << >>
  BY DEF LinesFor
<1>5. LinesFor(d, Append(shown, rr)) =
        LinesFor(d, shown) \o (IF shown = << >> THEN <<Header(d)>> ELSE << >>) \o <<Line(d, rr)>>
  <2> DEFINE more == Append(shown, rr)
             h == <<Header(d)>>
             l == <<Line(d, rr)>>
             a == at(shown)
  <2>1. /\ more \in Seq(RR) /\ more # << >> /\ Len(more) = Len(shown) + 1 /\ Len(shown) \in Nat
        /\ \A n \in 1 .. Len(shown) : more[n] = shown[n]
        /\ more[Len(shown) + 1] = rr
    BY AppendProperties, LenProperties
  <2>2. h \in Seq(ScreenLine) /\ l \in Seq(ScreenLine) /\ a \in Seq(ScreenLine)
    BY <1>1, <1>2
  <2>3. at(more) = Append(a, Line(d, rr))
    <3> DEFINE b == at(more)
               c == Append(a, Line(d, rr))
               n == Len(shown)
               L == Line(d, rr)
    <3>1. /\ b \in Seq(ScreenLine) /\ Len(b) = n + 1 /\ n \in Nat
          /\ \A k \in 1 .. n + 1 : b[k] = Line(d, more[k])
      <4>1. Len(at(more)) = Len(more) /\ Len(more) = n + 1
        BY <1>2, <2>1
      <4> HIDE DEF more, at
      <4> QED
        BY <1>2, <2>1, <4>1
    <3>2. /\ Len(a) = n /\ \A k \in 1 .. n : a[k] = Line(d, shown[k])
          /\ L \in ScreenLine
      BY <1>1, <1>2
    <3> HIDE DEF a, n, L
    <3>3. /\ c \in Seq(ScreenLine) /\ Len(c) = n + 1 /\ c[n + 1] = L
          /\ \A k \in 1 .. n : c[k] = a[k]
      BY <2>2, <3>2, AppendProperties DEF L
    <3> HIDE DEF b, c, more
    <3>4. \A k \in 1 .. n + 1 : b[k] = c[k]
      <4> TAKE k \in 1 .. n + 1
      <4>1. CASE k = n + 1
        BY <4>1, <3>1, <3>3, <2>1 DEF L, n
      <4>2. CASE k # n + 1
        <5>1. k \in 1 .. n
          BY <3>1, <4>2
        <5> QED
          BY <5>1, <3>1, <3>2, <3>3, <2>1 DEF n
      <4> QED
        BY <4>1, <4>2
    <3>5. b = c
      BY <3>1, <3>3, <3>4, SeqEqual
    <3> QED
      BY <3>5 DEF b, c, L
  <2>4. LinesFor(d, more) = h \o at(more)
    BY <2>1 DEF LinesFor
  <2>5. Append(a, Line(d, rr)) = a \o l
    BY <1>1, <2>2, AppendIsConcat
  <2>6. LinesFor(d, more) = (h \o a) \o l
    <3> HIDE DEF h, a, l, more, at
    <3>1. h \o (a \o l) = (h \o a) \o l
      BY <2>2, ConcatAssociative, SMTT(60)
    <3> QED
      BY <2>3, <2>4, <2>5, <3>1
  <2>7. CASE shown = << >>
    <3>1. a = << >>
      <4>1. Len(a) = 0 /\ a \in Seq(ScreenLine)
        BY <2>7, <1>2
      <4> HIDE DEF a
      <4> QED
        BY <4>1, EmptySeq
    <3>2. h \o a = << >> \o h
      <4> HIDE DEF h, a
      <4> QED
        BY <2>2, <3>1, ConcatEmptySeq
    <3> HIDE DEF h, a, l, more, at
    <3> QED
      BY <1>4, <2>6, <2>7, <3>2 DEF h, l, more
  <2>8. CASE shown # << >>
    <3>1. LinesFor(d, shown) = h \o a
      BY <2>8 DEF LinesFor
    <3>2. h \o a \in Seq(ScreenLine)
      <4> HIDE DEF h, a
      <4> QED
        BY <2>2, ConcatProperties
    <3>3. (h \o a) \o << >> = h \o a
      <4> HIDE DEF h, a
      <4> QED
        BY <3>2, ConcatEmptySeq
    <3> HIDE DEF h, a, l, more, at
    <3> QED
      BY <2>6, <2>8, <3>1, <3>3 DEF h, l, more
  <2> QED
    BY <2>7, <2>8
<1> QED
  BY <1>3, <1>4, <1>5

(* The lines of the packets follow each other. *)
LEMMA LinesEquations ==
    ASSUME NEW labels
    PROVE  /\ Lines(labels, << >>) = << >>
           /\ \A s \in Seq(Datagrams) : Lines(labels, s) \in Seq(ScreenLine)
           /\ \A s \in Seq(Datagrams), d \in Datagrams :
                 Lines(labels, Append(s, d)) = Lines(labels, s) \o LinesFor(d, Shown(labels, d))
<1> DEFINE turn(u, d) == u \o LinesFor(d, Shown(labels, d))
           S == Seq(ScreenLine)
           step == [u \in S |-> [d \in Datagrams |-> turn(u, d)]]
           Body(f) == [s \in Seq(Datagrams) |->
                          IF s = << >> THEN << >>
                          ELSE f[Front(s)] \o LinesFor(Last(s), Shown(labels, Last(s)))]
           lines == CHOOSE f : f = Body(f)
<1>1. << >> \in S /\ \A u \in S, d \in Datagrams : turn(u, d) \in S
  <2>1. \A d \in Datagrams : LinesFor(d, Shown(labels, d)) \in Seq(ScreenLine)
    <3> TAKE d \in Datagrams
    <3>1. Shown(labels, d) \in Seq(RR)
      BY WholeType, SeenEquations DEF Shown
    <3>2. CASE RR = {}
      <4>1. Shown(labels, d) = << >>
        BY <3>1, <3>2, EmptySeq, ElementOfSeq
      <4> QED
        BY <4>1, EmptySeq DEF LinesFor
    <3>3. CASE RR # {}
      BY <3>1, <3>3, LinesForEquations
    <3> QED
      BY <3>2, <3>3
  <2>2. \A u \in Seq(ScreenLine), v \in Seq(ScreenLine) : u \o v \in Seq(ScreenLine)
    BY ConcatProperties
  <2> QED
    BY <2>1, <2>2, EmptySeq
<1> HIDE DEF S
<1>2. /\ step \in [S -> [Datagrams -> S]]
      /\ \A u \in S, d \in Datagrams : step[u][d] = turn(u, d)
  BY <1>1
<1> HIDE DEF step
<1>3. PICK f \in [Seq(Datagrams) -> S] : IsFold(f, Datagrams, << >>, step)
  BY <1>1, <1>2, SequenceRecursion
<1>4. f = Body(f)
  <2>1. \A s \in Seq(Datagrams) : f[s] = Body(f)[s]
    <3> TAKE s \in Seq(Datagrams)
    <3>1. CASE s = << >>
      BY <3>1, <1>3 DEF IsFold
    <3>2. CASE s # << >>
      <4>1. /\ Last(s) \in Datagrams /\ f[Front(s)] \in S
            /\ f[s] = step[f[Front(s)]][Last(s)]
        BY <3>2, <1>3, FoldSteps
      <4>2. f[s] = turn(f[Front(s)], Last(s))
        BY <4>1, <1>2
      <4> QED
        BY <3>2, <4>2
    <3> QED
      BY <3>1, <3>2
  <2>2. f = [s \in Seq(Datagrams) |-> f[s]] /\ Body(f) = [s \in Seq(Datagrams) |-> Body(f)[s]]
    OBVIOUS
  <2> HIDE DEF Body
  <2> QED
    BY <2>1, <2>2, Zenon
<1>5. lines = Body(lines)
  BY <1>4
<1> HIDE DEF lines
<1>6. \A s : Lines(labels, s) = lines[s]
  BY DEF Lines, lines
<1>7. lines[<< >>] = << >>
  BY <1>5, EmptySeq
<1>8. \A s \in Seq(Datagrams), d \in Datagrams : lines[Append(s, d)] = turn(lines[s], d)
  <2> TAKE s \in Seq(Datagrams), d \in Datagrams
  <2>1. Append(s, d) \in Seq(Datagrams) /\ Append(s, d) # << >>
    BY AppendProperties
  <2>2. Front(Append(s, d)) = s /\ Last(Append(s, d)) = d
    BY FrontLastOfAppend
  <2> QED
    BY <1>5, <2>1, <2>2
<1>9. \A s \in Seq(Datagrams) : lines[s] \in S
  <2> DEFINE P == {s \in Seq(Datagrams) : lines[s] \in S}
  <2>1. << >> \in P
    BY <1>1, <1>7, EmptySeq
  <2> HIDE DEF turn
  <2>2. \A s \in Seq(Datagrams), d \in Datagrams : s \in P => Append(s, d) \in P
    BY <1>1, <1>8, AppendProperties
  <2> HIDE DEF P
  <2>3. Seq(Datagrams) \subseteq P
    BY <2>1, <2>2, SequenceInduction
  <2> QED
    BY <2>3 DEF P
<1> QED
  BY <1>6, <1>7, <1>8, <1>9 DEF S

(* The counts of the packets are added up. *)
LEMMA TotalEquations ==
    ASSUME NEW labels
    PROVE  /\ Total(labels, << >>) = 0
           /\ \A s \in Seq(Datagrams) : Total(labels, s) \in Nat
           /\ \A s \in Seq(Datagrams), d \in Datagrams :
                 Total(labels, Append(s, d)) = Total(labels, s) + CountOf(labels, d)
<1> DEFINE turn(u, d) == u + CountOf(labels, d)
           S == Nat
           step == [u \in S |-> [d \in Datagrams |-> turn(u, d)]]
           Body(f) == [s \in Seq(Datagrams) |->
                          IF s = << >> THEN 0
                          ELSE f[Front(s)] + CountOf(labels, Last(s))]
           total == CHOOSE f : f = Body(f)
<1>1. 0 \in S /\ \A u \in S, d \in Datagrams : turn(u, d) \in S
  <2>1. \A d \in Datagrams : CountOf(labels, d) \in Nat
    BY WholeType, SeenEquations, LenProperties DEF Shown, CountOf
  <2> QED
    BY <2>1
<1> HIDE DEF S
<1>2. /\ step \in [S -> [Datagrams -> S]]
      /\ \A u \in S, d \in Datagrams : step[u][d] = turn(u, d)
  BY <1>1
<1> HIDE DEF step
<1>3. PICK f \in [Seq(Datagrams) -> S] : IsFold(f, Datagrams, 0, step)
  BY <1>1, <1>2, SequenceRecursion
<1>4. f = Body(f)
  <2>1. \A s \in Seq(Datagrams) : f[s] = Body(f)[s]
    <3> TAKE s \in Seq(Datagrams)
    <3>1. CASE s = << >>
      BY <3>1, <1>3 DEF IsFold
    <3>2. CASE s # << >>
      <4>1. /\ Last(s) \in Datagrams /\ f[Front(s)] \in S
            /\ f[s] = step[f[Front(s)]][Last(s)]
        BY <3>2, <1>3, FoldSteps
      <4>2. f[s] = turn(f[Front(s)], Last(s))
        BY <4>1, <1>2
      <4> QED
        BY <3>2, <4>2
    <3> QED
      BY <3>1, <3>2
  <2>2. f = [s \in Seq(Datagrams) |-> f[s]] /\ Body(f) = [s \in Seq(Datagrams) |-> Body(f)[s]]
    OBVIOUS
  <2> HIDE DEF Body
  <2> QED
    BY <2>1, <2>2, Zenon
<1>5. total = Body(total)
  BY <1>4
<1> HIDE DEF total
<1>6. \A s : Total(labels, s) = total[s]
  BY DEF Total, total
<1>7. total[<< >>] = 0
  BY <1>5, EmptySeq
<1>8. \A s \in Seq(Datagrams), d \in Datagrams : total[Append(s, d)] = turn(total[s], d)
  <2> TAKE s \in Seq(Datagrams), d \in Datagrams
  <2>1. Append(s, d) \in Seq(Datagrams) /\ Append(s, d) # << >>
    BY AppendProperties
  <2>2. Front(Append(s, d)) = s /\ Last(Append(s, d)) = d
    BY FrontLastOfAppend
  <2> QED
    BY <1>5, <2>1, <2>2
<1>9. \A s \in Seq(Datagrams) : total[s] \in S
  <2> DEFINE P == {s \in Seq(Datagrams) : total[s] \in S}
  <2>1. << >> \in P
    BY <1>1, <1>7, EmptySeq
  <2> HIDE DEF turn
  <2>2. \A s \in Seq(Datagrams), d \in Datagrams : s \in P => Append(s, d) \in P
    BY <1>1, <1>8, AppendProperties
  <2> HIDE DEF P
  <2>3. Seq(Datagrams) \subseteq P
    BY <2>1, <2>2, SequenceInduction
  <2> QED
    BY <2>3 DEF P
<1> QED
  BY <1>6, <1>7, <1>8, <1>9 DEF S

-----------------------------------------------------------------------------
(* The name that is asked for. *)

(* A name that fits is not cut. *)
LEMMA CutOfShort ==
    ASSUME NEW s \in String, StrLen(s) < NAME_SIZE
    PROVE  Cut(s) = s
<1> DEFINE n == Len(s)
           fits == {k \in 1 .. n : StrLen(SubSeq(s, 1, k)) < NAME_SIZE}
<1>1. n \in Nat /\ \A k \in 1 .. n : s[k] \in Token
  BY DEF String
<1>2. fits = 1 .. n
  <2> SUFFICES ASSUME NEW k \in 1 .. n PROVE StrLen(SubSeq(s, 1, k)) < NAME_SIZE
    OBVIOUS
  <2>1. SubSeq(s, 1, k) \in String /\ SubSeq(s, k + 1, n) \in String
    <3>1. \A a, b \in Int : (\A j \in a .. b : s[j] \in Token) => SubSeq(s, a, b) \in Seq(Token)
      BY SubSeqProperties
    <3>2. k \in Int /\ k + 1 \in Int /\ n \in Int
      BY <1>1
    <3>3. (\A j \in 1 .. k : s[j] \in Token) /\ (\A j \in k + 1 .. n : s[j] \in Token)
      BY <1>1
    <3> QED
      BY <3>1, <3>2, <3>3 DEF String
  <2>2. SubSeq(s, 1, k) \o SubSeq(s, k + 1, n) = s
    <3>1. 1 \in 1 .. Len(s) + 1 /\ k \in 1 - 1 .. Len(s) /\ n \in k .. Len(s)
      BY <1>1
    <3>2. s \in Seq(Token)
      BY DEF String
    <3>3. SubSeq(s, 1, k) \o SubSeq(s, k + 1, n) = SubSeq(s, 1, n)
      BY <3>1, <3>2, ConcatAdjacentSubSeq
    <3> QED
      BY <3>2, <3>3, SubSeqFull
  <2> DEFINE p == SubSeq(s, 1, k)
             q == SubSeq(s, k + 1, n)
  <2>3. StrLen(s) = StrLen(p) + StrLen(q) /\ StrLen(p) \in Nat /\ StrLen(q) \in Nat
    <3>1. p \in String /\ q \in String /\ p \o q = s
      BY <2>1, <2>2
    <3> HIDE DEF p, q
    <3> QED
      BY <3>1, StrLenOfConcat, StrLenEquations
  <2>4. StrLen(s) \in Nat /\ NAME_SIZE \in Nat
    BY StrLenEquations, NamesAssumption
  <2> HIDE DEF p, q
  <2>5. StrLen(p) < NAME_SIZE
    BY <2>3, <2>4
  <2> QED
    BY <2>5 DEF p
<1>3. Cardinality(1 .. n) = n
  <2>1. 1 \in Int /\ n \in Int /\ n >= 0
    BY <1>1
  <2> HIDE DEF n
  <2>2. Cardinality(1 .. n) = IF 1 > n THEN 0 ELSE n - 1 + 1
    BY <2>1, FS_Interval
  <2> QED
    BY <2>1, <2>2
<1>4. Cardinality(fits) = Len(s)
  BY <1>2, <1>3
<1>5. SubSeq(s, 1, Len(s)) = s
  BY SubSeqFull DEF String
<1> QED
  BY <1>4, <1>5 DEF Cut

(* ".local" is two tokens. *)
LEMMA DotLocalIs ==
    \E l \in Token \ {Dot} :
        /\ Local = <<l>> /\ DotLocal = <<Dot, l>> /\ DotLocal = Append(<<Dot>>, l)
<1>1. PICK l \in Token \ {Dot} : Local = <<l>>
  BY NamesAssumption
<1>2. <<Dot>> \o <<l>> = <<Dot, l>> /\ <<Dot>> \o <<l>> = Append(<<Dot>>, l)
  <2>1. <<Dot>> \in Seq(Token) /\ l \in Token
    BY NamesAssumption
  <2>2. Append(<<Dot>>, l) = <<Dot>> \o <<l>>
    BY <2>1, AppendIsConcat
  <2>3. Append(<<Dot>>, l) = <<Dot, l>>
    <3> DEFINE a == Append(<<Dot>>, l)
               b == <<Dot, l>>
    <3>1. a \in Seq(Token) /\ Len(a) = 2 /\ a[1] = Dot /\ a[2] = l
      BY <2>1
    <3>2. b \in Seq(Token) /\ Len(b) = 2 /\ b[1] = Dot /\ b[2] = l
      BY <2>1, NamesAssumption
    <3> HIDE DEF a, b
    <3>3. \A k \in 1 .. 2 : a[k] = b[k]
      BY <3>1, <3>2
    <3>4. a = b
      BY <3>1, <3>2, <3>3, SeqEqual
    <3> QED
      BY <3>4 DEF a, b
  <2> QED
    BY <2>2, <2>3
<1> QED
  BY <1>1, <1>2 DEF DotLocal

(* A name that can be encoded has no dot at its ends, and the user's text, *)
(* completed, is one of DNS.                                               *)
LEMMA QualifiedIsShaped ==
    ASSUME NEW s \in String, IsText(s), Encodable(Qualified(s))
    PROVE  /\ Qualified(s) \in String /\ IsShaped(Qualified(s)) /\ Qualified(s) # << >>
           /\ Qualified(s)[1] # Dot /\ Last(Qualified(s)) # Dot
           /\ s # << >> /\ Last(s) # Dot /\ IsShaped(s)
<1> DEFINE f == Qualified(s)
           n == Len(s)
<1>1. PICK l \in Token \ {Dot} :
         Local = <<l>> /\ DotLocal = <<Dot, l>> /\ DotLocal = Append(<<Dot>>, l)
  BY DotLocalIs
<1>2. /\ n \in Nat /\ \A j \in 1 .. n : s[j] \in Token
      /\ s = << >> <=> n = 0
  BY EmptySeq DEF String
<1>3. f \in String
  BY QualifiedIsString
<1>4. \A j \in 1 .. Len(f) : f[j] = Dot => j > 1 /\ f[j - 1] # Dot
  BY DEF Encodable
<1>5. CASE EndsWithLocal(s)
  <2>1. f = s
    BY <1>5 DEF Qualified
  <2> DEFINE e == SubSeq(s, n - 1, n)
  <2>2. Len(DotLocal) = 2 /\ n >= 2 /\ n - 1 \in 1 .. n /\ n - 2 + 1 = n - 1
    BY <1>1, <1>2, <1>5 DEF EndsWithLocal
  <2>3. /\ e \in String /\ Len(e) = 2 /\ e[2] = s[n]
    <3>1. \A j \in n - 1 .. n : s[j] \in Token
      BY <1>2, <2>2
    <3>2. n - 1 \in Int /\ n \in Int /\ n - (n - 1) + 1 = 2 /\ 2 \in 1 .. 2 /\ n - 1 + 2 - 1 = n
      BY <1>2
    <3>3. /\ e \in Seq(Token) /\ Len(e) = IF n - 1 <= n THEN n - (n - 1) + 1 ELSE 0
          /\ \A j \in 1 .. n - (n - 1) + 1 : e[j] = s[n - 1 + j - 1]
      BY <3>1, <3>2, SubSeqProperties
    <3> QED
      BY <1>2, <3>2, <3>3 DEF String
  <2>4. Folded(e) = Folded(DotLocal) /\ DotLocal \in String /\ DotLocal[2] = l
    <3>1. StrCaseEq(e, DotLocal)
      BY <1>5, <2>2 DEF EndsWithLocal
    <3> QED
      BY <1>1, <3>1, NamesAssumption DEF StrCaseEq, String
  <2> HIDE DEF e
  <2>5. Lower[s[n]] = Lower[l]
    BY <2>2, <2>3, <2>4, CaseEqTokens
  <2>6. s[n] # Dot
    BY <1>1, <1>2, <2>2, <2>5, NamesAssumption
  <2>7. Last(s) # Dot
    BY <2>6 DEF Last
  <2>8. 1 \in 1 .. Len(f)
    BY <1>2, <2>1, <2>2
  <2> QED
    BY <1>2, <1>3, <1>4, <2>1, <2>2, <2>7, <2>8 DEF IsShaped
<1>6. CASE ~ EndsWithLocal(s)
  <2>1. f = s \o <<Dot, l>>
    BY <1>1, <1>6 DEF Qualified
  <2>2. /\ Len(f) = n + 2
        /\ \A j \in 1 .. n : f[j] = s[j]
        /\ f[n + 1] = Dot /\ f[n + 2] = l
    <3>1. s \in Seq(Token) /\ <<Dot, l>> \in Seq(Token)
      BY NamesAssumption DEF String
    <3> QED
      BY <2>1, <3>1
  <2> HIDE DEF f
  <2>3. n > 0 /\ f[n] # Dot
    <3>1. n + 1 \in 1 .. Len(f) /\ (n + 1) - 1 = n
      BY <1>2, <2>2
    <3> QED
      BY <1>2, <1>4, <2>2, <3>1
  <2>4. s # << >> /\ Last(s) # Dot
    <3>1. n \in 1 .. n
      BY <1>2, <2>3
    <3> QED
      BY <1>2, <2>2, <2>3, <3>1 DEF Last
  <2>5. IsShaped(s)
    <3> SUFFICES ASSUME NEW j \in 1 .. n, s[j] = Dot PROVE j > 1 /\ s[j - 1] # Dot
      BY DEF IsShaped
    <3>1. j \in 1 .. Len(f) /\ f[j] = Dot
      BY <1>2, <2>2
    <3>2. j > 1 /\ f[j - 1] # Dot
      BY <1>4, <3>1
    <3>3. j - 1 \in 1 .. n
      BY <1>2, <3>2
    <3> QED
      BY <2>2, <3>2, <3>3
  <2>6. IsText(f)
    <3> SUFFICES ASSUME NEW j \in 2 .. Len(f) PROVE Dot \in {f[j - 1], f[j]}
      BY DEF IsText
    <3>1. CASE j <= n
      <4>1. j \in 2 .. Len(s) /\ j - 1 \in 1 .. n /\ j \in 1 .. n
        BY <1>2, <3>1
      <4>2. Dot \in {s[j - 1], s[j]}
        BY <4>1 DEF IsText
      <4> QED
        BY <2>2, <4>1, <4>2
    <3>2. CASE j = n + 1
      BY <2>2, <3>2
    <3>3. CASE j = n + 2
      <4>1. j - 1 = n + 1
        BY <1>2, <3>3
      <4> QED
        BY <2>2, <4>1
    <3> QED
      BY <1>2, <2>2, <3>1, <3>2, <3>3
  <2>7. 1 \in 1 .. Len(f) /\ Len(f) # 0
    BY <1>2, <2>2
  <2>8. f # << >> /\ f[1] # Dot /\ Last(f) # Dot
    BY <1>1, <1>4, <2>2, <2>7 DEF Last
  <2> QED
    BY <1>3, <1>4, <2>4, <2>5, <2>6, <2>8 DEF f, IsShaped
<1> QED
  BY <1>5, <1>6

(* The labels of such a text, and where they stand in it. *)
LEMMA LabelsOfShaped ==
    ASSUME NEW s \in String, IsShaped(s), s # << >>, Last(s) # Dot
    PROVE  \E k \in Nat \ {0} :
              /\ Len(s) = 2 * k - 1 /\ Len(TextToWire(s)) = k
              /\ TextToWire(s) \in Seq(Token \ {Dot})
              /\ TextToWire(s) # << >> /\ Last(TextToWire(s)) = s[Len(s)]
              /\ k > 1 => s[Len(s) - 1] = Dot
<1> DEFINE w == TextToWire(s)
           k == Len(w)
           n == Len(s)
           u == WireToText(w)
<1>1. /\ w \in Seq(Token \ {Dot}) /\ w \in Seq(Token) /\ k \in Nat
  <2>1. w \in Seq(Token \ {Dot})
    BY TextToWireEquations
  <2> HIDE DEF w
  <2> QED
    BY <2>1, TextToWireOfLabels, LenProperties DEF String
<1>2. u = Append(s, Dot)
  BY WireToTextOfText
<1>3. Len(u) = 2 * k
  <2> HIDE DEF w
  <2> QED
    BY <1>1, WireToTextEquations
<1>4. n \in Nat /\ Len(u) = n + 1 /\ \A j \in 1 .. n : u[j] = s[j]
  <2>1. s \in Seq(Token) /\ Dot \in Token
    BY NamesAssumption DEF String
  <2> QED
    BY <1>2, <2>1
<1>5. \A j \in 1 .. 2 * k : u[j] = IF j % 2 = 1 THEN w[(j + 1) \div 2] ELSE Dot
  BY DEF WireToText
<1> HIDE DEF u, w
<1>6. n # 0
  BY EmptySeq DEF String
<1>7. k # 0 /\ n = 2 * k - 1 /\ k \in Nat \ {0}
  BY <1>1, <1>3, <1>4, <1>6
<1>8. u[2 * k - 1] = w[k]
  <2>1. 2 * k - 1 \in 1 .. 2 * k /\ (2 * k - 1) % 2 = 1 /\ ((2 * k - 1) + 1) \div 2 = k
    BY <1>1, <1>7
  <2> QED
    BY <1>5, <2>1
<1>9. k > 1 => u[2 * k - 2] = Dot /\ 2 * k - 2 \in 1 .. n /\ n - 1 = 2 * k - 2
  <2> SUFFICES ASSUME k > 1 PROVE u[2 * k - 2] = Dot /\ 2 * k - 2 \in 1 .. n /\ n - 1 = 2 * k - 2
    OBVIOUS
  <2>1. 2 * k - 2 \in 1 .. 2 * k /\ (2 * k - 2) % 2 = 0 /\ 2 * k - 2 \in 1 .. n /\ n - 1 = 2 * k - 2
    BY <1>1, <1>7
  <2> QED
    BY <1>5, <2>1
<1>10. w # << >> /\ Last(w) = s[n]
  <2>1. n \in 1 .. n
    BY <1>4, <1>6
  <2> QED
    BY <1>1, <1>4, <1>7, <1>8, <2>1 DEF Last
<1>11. k > 1 => s[n - 1] = Dot
  BY <1>4, <1>9
<1> QED
  BY <1>1, <1>7, <1>10, <1>11 DEF w

(* What the question asks for is what the user asks for, in the domain     *)
(* local unless it is there already.                                       *)
LEMMA AskedIsGiven ==
    ASSUME service_type \in String, IsText(service_type), Encodable(Qualified(service_type))
    PROVE  /\ TextToWire(Qualified(service_type)) = AskedLabels
           /\ AskedLabels \in Seq(Token \ {Dot}) /\ AskedLabels # << >>
<1> DEFINE s == service_type
           f == Qualified(s)
           w == TextToWire(s)
           n == Len(s)
<1>1. PICK l \in Token \ {Dot} :
         Local = <<l>> /\ DotLocal = <<Dot, l>> /\ DotLocal = Append(<<Dot>>, l)
  BY DotLocalIs
<1>2. /\ s \in String /\ s # << >> /\ Last(s) # Dot /\ IsShaped(s)
      /\ n \in Nat /\ \A j \in 1 .. n : s[j] \in Token
  BY QualifiedIsShaped DEF String
<1>3. PICK k \in Nat \ {0} :
         /\ n = 2 * k - 1 /\ Len(w) = k
         /\ w \in Seq(Token \ {Dot})
         /\ w # << >> /\ Last(w) = s[n]
         /\ k > 1 => s[n - 1] = Dot
  <2> HIDE DEF s
  <2> QED
    BY <1>2, LabelsOfShaped
<1>4. AskedLabels = IF Len(w) > 1 /\ StrCaseEq(<<Last(w)>>, Local) THEN w ELSE w \o Local
  BY DEF AskedLabels
<1>5. ASSUME n > 1
      PROVE  EndsWithLocal(s) <=> s[n - 1] = Dot /\ Lower[s[n]] = Lower[l]
  <2> DEFINE e == SubSeq(s, n - 1, n)
  <2>1. Len(DotLocal) = 2 /\ n >= 2 /\ n - 2 + 1 = n - 1
    BY <1>1, <1>2, <1>5
  <2>2. /\ e \in String /\ Len(e) = 2 /\ e[1] = s[n - 1] /\ e[2] = s[n]
    <3>1. \A j \in n - 1 .. n : s[j] \in Token
      BY <1>2, <2>1
    <3>2. /\ n - 1 \in Int /\ n \in Int /\ n - (n - 1) + 1 = 2 /\ 1 \in 1 .. 2 /\ 2 \in 1 .. 2
          /\ n - 1 + 2 - 1 = n /\ n - 1 + 1 - 1 = n - 1
      BY <1>2
    <3>3. /\ e \in Seq(Token) /\ Len(e) = IF n - 1 <= n THEN n - (n - 1) + 1 ELSE 0
          /\ \A j \in 1 .. n - (n - 1) + 1 : e[j] = s[n - 1 + j - 1]
      BY <3>1, <3>2, SubSeqProperties
    <3> QED
      BY <1>2, <3>2, <3>3 DEF String
  <2>3. EndsWithLocal(s) <=> StrCaseEq(e, DotLocal)
    BY <2>1 DEF EndsWithLocal
  <2>4. DotLocal \in String /\ DotLocal[1] = Dot /\ DotLocal[2] = l
    BY <1>1, NamesAssumption DEF String
  <2> HIDE DEF e
  <2>5. StrCaseEq(e, DotLocal) => Lower[s[n - 1]] = Lower[Dot] /\ Lower[s[n]] = Lower[l]
    BY <2>2, <2>4, CaseEqTokens DEF StrCaseEq
  <2>6. Lower[s[n - 1]] = Lower[Dot] /\ Lower[s[n]] = Lower[l] => StrCaseEq(e, DotLocal)
    <3> SUFFICES ASSUME Lower[s[n - 1]] = Lower[Dot], Lower[s[n]] = Lower[l]
                 PROVE  StrCaseEq(e, DotLocal)
      OBVIOUS
    <3>1. \A j \in 1 .. Len(e) : Lower[e[j]] = Lower[DotLocal[j]]
      BY <2>2, <2>4
    <3>2. Len(e) = Len(DotLocal)
      BY <2>1, <2>2
    <3> QED
      BY <2>2, <2>4, <3>1, <3>2, CaseEqByToken
  <2>7. n - 1 \in 1 .. n
    BY <1>2, <1>5
  <2>8. Lower[s[n - 1]] = Lower[Dot] <=> s[n - 1] = Dot
    BY <1>2, <2>7, NamesAssumption
  <2> QED
    BY <2>3, <2>5, <2>6, <2>8
<1>6. StrCaseEq(<<Last(w)>>, Local) <=> Lower[s[n]] = Lower[l]
  <2> DEFINE a == <<s[n]>>
             b == <<l>>
  <2>1. n \in 1 .. n
    BY <1>2, <1>3
  <2>2. a \in String /\ b \in String /\ Len(a) = 1 /\ Len(b) = 1 /\ a[1] = s[n] /\ b[1] = l
    BY <1>1, <1>2, <2>1 DEF String
  <2> HIDE DEF a, b
  <2>3. StrCaseEq(a, b) => Lower[s[n]] = Lower[l]
    BY <2>2, CaseEqTokens DEF StrCaseEq
  <2>4. Lower[s[n]] = Lower[l] => StrCaseEq(a, b)
    BY <2>2, CaseEqByToken
  <2> QED
    BY <1>1, <1>3, <2>3, <2>4 DEF a, b
<1> HIDE DEF s, w
<1>7. CASE EndsWithLocal(s)
  <2>1. f = s
    BY <1>7 DEF Qualified
  <2>2. n >= 2
    BY <1>1, <1>7 DEF EndsWithLocal
  <2>3. k > 1 /\ Lower[s[n]] = Lower[l]
    BY <1>2, <1>3, <1>5, <1>7, <2>2
  <2>4. AskedLabels = w
    BY <1>3, <1>4, <1>6, <2>3
  <2> QED
    BY <1>3, <2>1, <2>4 DEF s, w
<1>8. CASE ~ EndsWithLocal(s)
  <2>1. f = s \o DotLocal
    BY <1>8 DEF Qualified
  <2>2. DotLocal \in String /\ TextToWire(DotLocal) = Local
    <3>1. /\ << >> \in String /\ <<Dot>> \in String
          /\ Append(<< >>, Dot) = <<Dot>> /\ Append(<<Dot>>, l) = DotLocal
          /\ DotLocal \in String /\ Append(<< >>, l) = <<l>>
      <4>1. Append(<< >>, Dot) = <<Dot>> /\ Append(<< >>, l) = <<l>>
        OBVIOUS
      <4>2. << >> \in String /\ <<Dot>> \in String
        BY NamesAssumption DEF String
      <4>3. l \in Token /\ Append(<<Dot>>, l) \in String
        BY <4>2, AppendProperties DEF String
      <4> QED
        BY <1>1, <4>1, <4>2, <4>3
    <3>2. TextToWire(<<Dot>>) = << >>
      BY <3>1, TextToWireEquations, NamesAssumption DEF WithToken
    <3>3. TextToWire(DotLocal) = Append(<< >>, l)
      BY <3>1, <3>2, TextToWireEquations DEF WithToken
    <3> QED
      BY <1>1, <3>1, <3>3
  <2>3. TextToWire(f) = w \o Local
    <3>1. TextToWire(s \o DotLocal) = TextToWire(s) \o TextToWire(DotLocal)
      BY <1>2, <2>2, TextToWireOfConcat
    <3> QED
      BY <2>1, <2>2, <3>1 DEF w
  <2>4. ~ (k > 1 /\ Lower[s[n]] = Lower[l])
    <3>1. k > 1 => n > 1
      BY <1>3
    <3> QED
      BY <1>3, <1>5, <1>8, <3>1
  <2>5. AskedLabels = w \o Local
    BY <1>3, <1>4, <1>6, <2>4
  <2>6. w \o Local \in Seq(Token \ {Dot}) /\ w \o Local # << >>
    BY <1>1, <1>3
  <2> QED
    BY <2>3, <2>5, <2>6 DEF s
<1> QED
  BY <1>7, <1>8

(* The text of labels ends in the dot that is stripped. *)
LEMMA StrippedWire ==
    ASSUME NEW w \in Seq(Token \ {Dot}), w # << >>
    PROVE  /\ WireToText(w) # << >> /\ Last(WireToText(w)) = Dot
           /\ StripTrailingDot(WireToText(w)) = Front(WireToText(w))
<1> DEFINE u == WireToText(w)
           n == 2 * Len(w)
<1>1. w \in Seq(Token)
  BY TextToWireOfLabels DEF String
<1>2. u \in String /\ Len(u) = n /\ Len(w) \in Nat /\ Len(w) # 0
  BY <1>1, WireToTextEquations, LenProperties, EmptySeq
<1>3. n \in 1 .. n /\ n % 2 # 1 /\ n # 0
  BY <1>2
<1>4. u[n] = Dot
  BY <1>3 DEF WireToText
<1>5. u # << >>
  <2> HIDE DEF u, n
  <2> QED
    BY <1>2, <1>3, EmptySeq
<1>6. Last(u) = Dot
  BY <1>2, <1>4 DEF Last
<1> QED
  BY <1>5, <1>6 DEF StripTrailingDot

(* strcasecmp on the decoded name chooses the records that have the name   *)
(* that was asked for.                                                     *)
LEMMA PrintableIsToBeSeen ==
    ASSUME service_type \in String, IsText(service_type), Encodable(Qualified(service_type)),
           service_type_fqdn = Qualified(service_type), NEW rr \in RR
    PROVE  Printable(rr) <=> ToBeSeen(AskedLabels, rr)
<1> DEFINE f == Qualified(service_type)
           w == AskedLabels
           x == rr.labels
           name == DecodedName(x)
<1>1. /\ f \in String /\ IsShaped(f) /\ f # << >> /\ f[1] # Dot /\ Last(f) # Dot
  BY QualifiedIsShaped
<1>2. TextToWire(f) = w /\ w \in Seq(Token \ {Dot}) /\ w # << >> /\ w \in String
  BY AskedIsGiven, TextToWireOfLabels
<1>3. x \in Seq(WireLabel)
  BY DEF RR
<1> SUFFICES StrCaseEq(name, f) <=> SameName(x, w)
  BY DEF Printable, ToBeSeen
<1>4. f = StripTrailingDot(WireToText(w))
  <2>1. IsName(f)
    BY <1>1, ShapedIsName
  <2> QED
    BY <1>2, <2>1 DEF IsName
<1>5. Len(f) \in Nat /\ Len(f) # 0 /\ f[1] \in Token
  <2>1. f \in Seq(Token)
    BY <1>1 DEF String
  <2> HIDE DEF f
  <2>2. Len(f) \in Nat /\ Len(f) # 0
    BY <1>1, <2>1, EmptySeq
  <2>3. 1 \in 1 .. Len(f)
    BY <2>2
  <2> QED
    BY <2>1, <2>2, <2>3, ElementOfSeq
<1>6. x = << >> => name = <<Dot>>
  BY DEF DecodedName
<1>7. x # << >> => name = CText(Front(Spelled(x)))
  BY DEF DecodedName
<1> HIDE DEF f, w, x, name
<1>8. CASE DotFree(x)
  <2> DEFINE v == Bare(x)
  <2>1. /\ v \in Seq(Token \ {Dot}) /\ v \in String /\ v \in Seq(Token)
        /\ v = << >> <=> x = << >>
    <3>1. v \in Seq(Token \ {Dot}) /\ Len(v) = Len(x) /\ Len(x) \in Nat
      BY <1>3, <1>8, BareEquations
    <3> HIDE DEF v
    <3> QED
      BY <1>3, <3>1, TextToWireOfLabels, EmptySeq DEF String
  <2>2. Spelled(x) = WireToText(v)
    BY <1>3, <1>8, SpelledOfBare
  <2>3. SameName(x, w) <=> Folded(v) = Folded(w)
    BY <1>8 DEF SameName
  <2> HIDE DEF v
  <2>4. CASE v = << >>
    <3>1. ~ StrCaseEq(name, f)
      <4> SUFFICES ASSUME StrCaseEq(name, f) PROVE FALSE
        OBVIOUS
      <4> DEFINE d == <<Dot>>
      <4>1. name = d
        BY <1>6, <2>1, <2>4
      <4>2. d \in String /\ d[1] = Dot /\ Len(d) = 1
        BY NamesAssumption DEF String
      <4> HIDE DEF d
      <4>3. 1 \in 1 .. Len(d)
        BY <4>2
      <4>4. Lower[d[1]] = Lower[f[1]]
        BY <1>1, <4>1, <4>2, <4>3, CaseEqTokens DEF StrCaseEq
      <4> QED
        BY <1>1, <1>5, <4>2, <4>4, NamesAssumption
    <3>2. Folded(v) # Folded(w)
      <4>1. Len(Folded(v)) = Len(v) /\ Len(Folded(w)) = Len(w)
        BY <1>2, <2>1, FoldedEquations
      <4>2. Len(v) = 0 /\ Len(w) # 0
        BY <1>2, <2>4, EmptySeq
      <4> QED
        BY <4>1, <4>2
    <3> QED
      BY <2>3, <3>1, <3>2
  <2>5. CASE v # << >>
    <3> DEFINE u == WireToText(v)
    <3>1. Front(u) = StripTrailingDot(u) /\ u \in String
      BY <2>1, <2>5, StrippedWire, WireToTextEquations
    <3>2. StripTrailingDot(u) \in String /\ TextToWire(StripTrailingDot(u)) = v
      <4>1. TextToWire(u) = v
        BY <2>1, TextToWireOfWire
      <4> HIDE DEF u
      <4> QED
        BY <3>1, <4>1, TextToWireOfStripped
    <3>3. name = StripTrailingDot(u)
      <4> DEFINE t == Front(u)
      <4>1. t \in String /\ name = CText(t)
        BY <1>7, <2>1, <2>2, <2>5, <3>1, <3>2
      <4> HIDE DEF t
      <4>2. t \in Seq(Token \cup {Nul})
        BY <4>1, SeqMonotonic DEF String
      <4>3. CText(t) = t
        BY <4>1, <4>2, CTextIsString
      <4> QED
        BY <3>1, <4>1, <4>3 DEF t
    <3>4. StrCaseEq(name, f) => Folded(v) = Folded(w)
      <4> SUFFICES ASSUME StrCaseEq(name, f) PROVE Folded(v) = Folded(w)
        OBVIOUS
      <4>1. Folded(TextToWire(StripTrailingDot(u))) = Folded(TextToWire(f))
        <5> HIDE DEF u
        <5> QED
          BY <1>1, <3>2, <3>3, TextToWireRespectsCase
      <4> QED
        BY <1>2, <3>2, <4>1
    <3>5. Folded(v) = Folded(w) => StrCaseEq(name, f)
      BY <1>2, <1>4, <2>1, <3>3, QuestionRespectsCase
    <3> QED
      BY <2>3, <3>4, <3>5
  <2> QED
    BY <2>4, <2>5
<1>9. CASE ~ DotFree(x)
  <2>1. x # << >>
    BY <1>9 DEF DotFree
  <2>2. f = Front(WireToText(w))
    BY <1>2, <1>4, StrippedWire
  <2> QED
    BY <1>7, <1>9, <2>1, <2>2 DEF SameName
<1> QED
  BY <1>8, <1>9

-----------------------------------------------------------------------------
(* The invariant holds before the browser starts. *)
LEMMA InitEstablishes == Init => IInv
<1> SUFFICES ASSUME Init PROVE IInv
  OBVIOUS
<1>1. rx \in [Both -> Seq(Datagrams)] /\ handled \in Seq(Datagrams) /\ service_type_fqdn \in String
  BY DEF Init, String
<1>2. service_type \in ServiceTypes /\ protocol_mode \in Families /\ in = NULL
  BY DEF Init
<1>3. /\ settings \in 0 .. MAX_SETTINGS /\ arrivals \in 0 .. MAX_ARRIVALS
      /\ printed \in 0 .. i - 1 /\ i \in 1 .. 1
  BY BrowseAssumption DEF Init
<1>4. TypeOK
  BY <1>1, <1>2, <1>3 DEF Init, TypeOK
<1> QED
  BY <1>4 DEF Init, IInv, ReadyInv, TimeInv, DeadlineKept

-----------------------------------------------------------------------------
(* Before the loop. *)

(* Building the name, opening the sockets, sending and starting the timer *)
(* keep it. *)
LEMMA StartPreserves ==
    ASSUME IInv, BuildName \/ OpenSucceeds \/ SendSucceeds \/ StartTimer
    PROVE  IInv'
<1> USE DEF IInv, args, reading, waiting, clock, network, results
<1>1. CASE BuildName
  <2>1. service_type \in String
    BY BrowseAssumption DEF TypeOK
  <2>2. Cut(Qualified(service_type)) \in String
    BY <2>1, QualifiedIsString, CutIsString
  <2>3. TypeOK'
    BY <1>1, <2>2 DEF TypeOK, BuildName, Exit
  <2> QED
    BY <1>1, <2>3 DEF BuildName, Exit, ReadyInv, TimeInv, DeadlineKept
<1>2. protocol_mode \subseteq Both
  BY BrowseAssumption DEF TypeOK, Both
<1>3. CASE OpenSucceeds
  <2>1. protocol_mode \ sock # {}
    BY <1>3 DEF OpenSucceeds, TypeOK
  <2>2. FirstOf(protocol_mode \ sock) \in protocol_mode
    BY <1>2, <2>1, FirstOfIsMember
  <2>3. TypeOK'
    BY <1>3, <2>2 DEF TypeOK, OpenSucceeds
  <2> QED
    BY <1>3, <2>3 DEF OpenSucceeds, ReadyInv, TimeInv, DeadlineKept
<1>4. CASE SendSucceeds
  <2>1. asked' \subseteq protocol_mode
    <3>1. sock \ asked # {}
      BY <1>4 DEF SendSucceeds, TypeOK
    <3>2. FirstOf(sock \ asked) \in sock
      BY <1>2, <3>1, FirstOfIsMember DEF TypeOK
    <3> QED
      BY <1>4, <3>2 DEF SendSucceeds, TypeOK
  <2>2. TypeOK'
    BY <1>4, <2>1 DEF TypeOK, SendSucceeds
  <2> QED
    BY <1>4, <2>2 DEF SendSucceeds, ReadyInv, TimeInv, DeadlineKept
<1>5. CASE StartTimer
  <2>1. TypeOK'
    BY <1>5, BrowseAssumption DEF TypeOK, StartTimer
  <2> QED
    BY <1>5, <2>1, BrowseAssumption DEF TypeOK, StartTimer, ReadyInv, TimeInv, DeadlineKept
<1> QED
  BY <1>1, <1>3, <1>4, <1>5

-----------------------------------------------------------------------------
(* The loop. *)

(* So do the loop's deadline and the returns of select. *)
LEMMA WaitPreserves ==
    ASSUME IInv, CheckDeadline \/ CallSelect \/ SelectTimesOut \/ SelectReturns \/ BothRead
    PROVE  IInv'
<1> USE BrowseAssumption DEF IInv, args, reading, waiting, clock, network, results
<1>1. CASE CheckDeadline
  <2>1. TypeOK'
    BY <1>1 DEF TypeOK, CheckDeadline, Prepares
  <2>2. ReadyInv' /\ TimeInv'
    BY <1>1 DEF CheckDeadline, Prepares, ReadyInv, TimeInv
  <2>3. DeadlineKept'
    BY <1>1, SMTT(60) DEF TypeOK, CheckDeadline, Prepares, TimeInv, DeadlineKept
  <2> QED
    BY <2>1, <2>2, <2>3
<1>2. CASE SelectTimesOut
  BY <1>2 DEF TypeOK, SelectTimesOut, ReadyInv, TimeInv, DeadlineKept
<1>3. CASE SelectReturns
  <2>1. TypeOK'
    BY <1>3 DEF TypeOK, SelectReturns, Arrived
  <2> QED
    BY <1>3, <2>1 DEF SelectReturns, Arrived, ReadyInv, TimeInv, DeadlineKept
<1>4. CASE BothRead
  <2>1. TypeOK'
    BY <1>4 DEF TypeOK, BothRead
  <2> QED
    BY <1>4, <2>1 DEF BothRead, ReadyInv, TimeInv, DeadlineKept
<1>5. CASE CallSelect
  BY <1>5 DEF TypeOK, CallSelect, ReadyInv, TimeInv, DeadlineKept
<1> QED
  BY <1>1, <1>2, <1>3, <1>4, <1>5

(* Reading a socket touches the queue of that socket alone. *)
LEMMA ReceivePreserves ==
    ASSUME IInv, Receive \/ ReceiveFails
    PROVE  IInv'
<1> USE DEF IInv, args, waiting, clock, results
<1> DEFINE f == FirstOf(ready)
<1>1. pc = "receive" /\ ready # {}
  BY DEF Receive, ReceiveFails
<1>2. f \in ready /\ f \in Both
  <2>1. ready \subseteq Both
    BY BrowseAssumption DEF TypeOK, Both
  <2> QED
    BY <1>1, <2>1, FirstOfIsMember
<1>3. rx' \in {rx, [rx EXCEPT ![f] = Tail(@)]} /\ ready' = ready \ {f}
  BY DEF Receive, ReceiveFails, KeptOrDropped
<1> HIDE DEF f
<1>4. rx[f] \in Seq(Datagrams) /\ rx[f] # << >>
  BY <1>2 DEF TypeOK, ReadyInv
<1>5. Head(rx[f]) \in Datagrams /\ Tail(rx[f]) \in Seq(Datagrams)
  BY <1>4
<1>6. rx' \in [Both -> Seq(Datagrams)] /\ ready' \subseteq protocol_mode
  BY <1>2, <1>3, <1>5 DEF TypeOK
<1>7. \A g \in ready' : rx'[g] # << >>
  <2> TAKE g \in ready'
  <2>1. g \in ready /\ g # f /\ g \in Both
    BY <1>3, BrowseAssumption DEF TypeOK, Both
  <2>2. rx'[g] = rx[g]
    BY <1>3, <2>1 DEF TypeOK
  <2> QED
    BY <2>1, <2>2 DEF ReadyInv
<1>8. CASE Receive
  <2>1. in' = Head(rx[f]) /\ handled' = Append(handled, Head(rx[f]))
    BY <1>8 DEF Receive, f
  <2>2. in' \in Datagrams /\ handled' \in Seq(Datagrams)
    BY <1>5, <2>1 DEF TypeOK
  <2>3. i' \in 1 .. (IF in' = NULL THEN 1 ELSE Len(in'.rrs) + 1) /\ printed' \in 0 .. i' - 1
    <3>1. in' # NULL /\ Len(in'.rrs) \in Nat
      BY <2>2, BrowseAssumption
    <3> QED
      BY <1>8, <3>1 DEF Receive
  <2>4. TypeOK'
    BY <1>6, <1>8, <2>2, <2>3 DEF TypeOK, Receive
  <2>5. ReadyInv'
    BY <1>7, <1>8, <2>2, BrowseAssumption DEF ReadyInv, Receive
  <2> QED
    BY <1>8, <2>4, <2>5 DEF Receive, TimeInv, DeadlineKept
<1>9. CASE ReceiveFails
  <2>1. TypeOK'
    BY <1>6, <1>9 DEF TypeOK, ReceiveFails, reading
  <2>2. ReadyInv'
    BY <1>7, <1>9 DEF ReadyInv, ReceiveFails, reading
  <2> QED
    BY <1>9, <2>1, <2>2 DEF ReceiveFails, TimeInv, DeadlineKept
<1> QED
  BY <1>8, <1>9

(* So do the printing of the records of a datagram and the final report. *)
LEMMA PrintPreserves ==
    ASSUME IInv, PrintRecord \/ PrintEnds \/ Report
    PROVE  IInv'
<1> USE DEF IInv, args, reading, waiting, clock, network, results
<1>1. CASE PrintRecord
  <2>1. in \in Datagrams /\ in # NULL /\ Len(in.rrs) \in Nat
    BY <1>1, BrowseAssumption DEF TypeOK, ReadyInv, PrintRecord
  <2>2. i' \in 1 .. Len(in'.rrs) + 1 /\ printed' \in 0 .. i' - 1
    BY <1>1, <2>1 DEF TypeOK, PrintRecord
  <2>3. TypeOK'
    BY <1>1, <2>1, <2>2 DEF TypeOK, PrintRecord
  <2> QED
    BY <1>1, <2>3 DEF PrintRecord, ReadyInv, TimeInv, DeadlineKept
<1>2. CASE PrintEnds
  <2>1. total_records' \in Nat
    BY <1>2 DEF TypeOK, PrintEnds
  <2>2. i' \in 1 .. 1 /\ printed' \in 0 .. i' - 1 /\ in' = NULL
    BY <1>2 DEF PrintEnds
  <2>3. TypeOK'
    BY <1>2, <2>1, <2>2 DEF TypeOK, PrintEnds
  <2> QED
    BY <1>2, <2>3 DEF PrintEnds, ReadyInv, TimeInv, DeadlineKept
<1>3. CASE Report
  <2>1. TypeOK'
    BY <1>3 DEF TypeOK, Report, Exit
  <2> QED
    BY <1>3, <2>1 DEF Report, Exit, ReadyInv, TimeInv, DeadlineKept
<1> QED
  BY <1>1, <1>2, <1>3

(* So do the three failures that end the browser early. *)
LEMMA FailurePreserves ==
    ASSUME IInv, OpenFails \/ SendFails \/ SelectFails
    PROVE  IInv'
<1> USE DEF IInv, args, reading, waiting, clock, network, results
<1>1. /\ pc' = "ended" /\ status' = 1 /\ sock' = {}
      /\ UNCHANGED <<args, service_type_fqdn, asked, deadline, waiting, ready, reading, clock,
                     network, results>>
  BY DEF OpenFails, SendFails, SelectFails, Exit
<1>2. TypeOK'
  BY <1>1 DEF TypeOK
<1>3. ReadyInv' /\ TimeInv' /\ DeadlineKept'
  BY <1>1 DEF OpenFails, SendFails, SelectFails, ReadyInv, TimeInv, DeadlineKept
<1> QED
  BY <1>2, <1>3

-----------------------------------------------------------------------------
(* The environment. *)

(* Time that passes keeps the invariant. *)
LEMMA TickPreserves ==
    ASSUME IInv, Tick
    PROVE  IInv'
<1> USE DEF IInv, args, reading, waiting, network, results
<1>1. /\ now \in Int /\ deadline \in Int /\ elapsed \in Nat /\ timer \in Nat /\ TIMEOUT \in Nat
      /\ set_back \in Nat /\ set_forward \in Nat /\ delay \in Nat
  BY BrowseAssumption DEF TypeOK
<1>2. /\ now' = now + 1 /\ elapsed' = elapsed + 1
      /\ timer' = IF pc = "select" /\ timer > 0 THEN timer - 1 ELSE timer
      /\ delay' = IF pc = "call" THEN delay + 1 ELSE delay
      /\ UNCHANGED <<pc, deadline, set_back, set_forward>>
  BY DEF Tick
<1>3. now' \in Int /\ elapsed' \in Nat /\ timer' \in Nat /\ delay' \in Nat
  BY <1>1, <1>2
<1>4. TypeOK'
  BY <1>3 DEF TypeOK, Tick
<1>5. ReadyInv'
  BY DEF ReadyInv, Tick
<1>6. TimeInv'
  BY <1>1, <1>2 DEF TimeInv
<1>7. DeadlineKept'
  BY <1>1, <1>2 DEF DeadlineKept
<1> QED
  BY <1>4, <1>5, <1>6, <1>7

(* A wall clock that is set, forward or back, keeps it. *)
LEMMA SetClockPreserves ==
    ASSUME IInv, NEW shift \in Shifts, SetClock(shift)
    PROVE  IInv'
<1> USE DEF IInv, args, reading, waiting, network, results
<1>1. /\ shift \in Int /\ now \in Int /\ deadline \in Int /\ elapsed \in Nat /\ TIMEOUT \in Nat
      /\ timer \in Nat /\ delay \in Nat /\ set_back \in Nat /\ set_forward \in Nat
      /\ settings \in Nat /\ MAX_SETTINGS \in Nat
  BY BrowseAssumption DEF TypeOK
<1>2. /\ now' = now + shift /\ settings' = settings + 1 /\ settings' <= MAX_SETTINGS
      /\ \/ shift < 0 /\ set_back' = set_back - shift /\ set_forward' = set_forward
         \/ shift >= 0 /\ set_back' = set_back /\ set_forward' = set_forward + shift
      /\ UNCHANGED <<pc, elapsed, timer, delay, deadline>>
  BY <1>1 DEF SetClock
<1>3. now' \in Int /\ set_back' \in Nat /\ set_forward' \in Nat /\ settings' \in 0 .. MAX_SETTINGS
  BY <1>1, <1>2
<1>4. TypeOK'
  BY <1>3 DEF TypeOK, SetClock
<1>5. ReadyInv'
  BY DEF ReadyInv, SetClock
<1>6. TimeInv'
  BY <1>1, <1>2 DEF TimeInv
<1>7. DeadlineKept'
  BY <1>1, <1>2 DEF DeadlineKept
<1> QED
  BY <1>4, <1>5, <1>6, <1>7

(* A datagram that arrives keeps it. *)
LEMMA ArrivePreserves ==
    ASSUME IInv, NEW f \in Both, NEW d \in Datagrams, Arrive(f, d)
    PROVE  IInv'
<1> USE DEF IInv, args, reading, waiting, clock, results, Arrive
<1>1. rx' \in [Both -> Seq(Datagrams)] /\ \A g \in Both : rx[g] # << >> => rx'[g] # << >>
  <2>1. rx \in [Both -> Seq(Datagrams)] /\ rx' = [rx EXCEPT ![f] = Append(rx[f], d)]
    BY DEF TypeOK
  <2>2. Append(rx[f], d) \in Seq(Datagrams) /\ Append(rx[f], d) # << >>
    BY <2>1
  <2> QED
    BY <2>1, <2>2
<1>2. TypeOK'
  BY <1>1, BrowseAssumption DEF TypeOK
<1>3. ready \subseteq Both
  BY BrowseAssumption DEF TypeOK, Both
<1>4. ReadyInv'
  BY <1>1, <1>3 DEF ReadyInv
<1> QED
  BY <1>2, <1>4 DEF TimeInv, DeadlineKept

-----------------------------------------------------------------------------
(* Every step keeps it. *)
LEMMA StepPreserves == IInv /\ [Next]_vars => IInv'
<1> SUFFICES ASSUME IInv, [Next]_vars PROVE IInv'
  OBVIOUS
<1>1. CASE BuildName \/ OpenSucceeds \/ SendSucceeds \/ StartTimer
  BY <1>1, StartPreserves
<1>2. CASE CheckDeadline \/ CallSelect \/ SelectTimesOut \/ SelectReturns \/ BothRead
  BY <1>2, WaitPreserves
<1>3. CASE Receive \/ ReceiveFails
  BY <1>3, ReceivePreserves
<1>4. CASE PrintRecord \/ PrintEnds \/ Report
  BY <1>4, PrintPreserves
<1>5. CASE OpenFails \/ SendFails \/ SelectFails
  BY <1>5, FailurePreserves
<1>6. CASE Tick
  BY <1>6, TickPreserves
<1>7. CASE \E shift \in Shifts : SetClock(shift)
  BY <1>7, SetClockPreserves
<1>8. CASE \E f \in Both, d \in Datagrams : Arrive(f, d)
  BY <1>8, ArrivePreserves
<1>9. CASE UNCHANGED vars
  BY <1>9 DEF IInv, TypeOK, ReadyInv, TimeInv, DeadlineKept, vars, args, reading, waiting,
              clock, network, results
<1> QED
  BY <1>1, <1>2, <1>3, <1>4, <1>5, <1>6, <1>7, <1>8, <1>9 DEF Next, Main, Failure

-----------------------------------------------------------------------------
(* What is on the screen. *)

(* Before anything is received the screen is empty. *)
LEMMA InitShows == Init => ScreenInv
<1> SUFFICES ASSUME Init PROVE ScreenInv
  OBVIOUS
<1> QED
  BY DEF Init, ScreenInv, ScreenAsReceived, CountExact, AtRest

(* Once it is sent, the question is for the type the user means. *)
LEMMA FqdnIsAsked ==
    ASSUME IInv, ScreenInv, NameFits, pc \notin {"name", "open", "ended"}
    PROVE  /\ service_type \in String /\ IsText(service_type)
           /\ Encodable(Qualified(service_type))
           /\ service_type_fqdn = Qualified(service_type)
BY BrowseAssumption DEF IInv, TypeOK, ScreenInv

(* Before the loop nothing is shown; the name that fits is the one asked   *)
(* for, and the loop starts when it has been sent.                         *)
LEMMA StartShows ==
    ASSUME IInv, ScreenInv, BuildName \/ OpenSucceeds \/ SendSucceeds \/ StartTimer
    PROVE  ScreenInv'
<1> USE DEF args, reading, waiting, clock, network, results
<1>1. service_type' = service_type /\ UNCHANGED results /\ UNCHANGED reading
  BY DEF BuildName, OpenSucceeds, SendSucceeds, StartTimer
<1>2. NameFits' = NameFits /\ AskedLabels' = AskedLabels
  BY <1>1 DEF NameFits, AskedLabels
<1>3. screen = << >> /\ handled = << >> /\ total_records = 0
  BY DEF BuildName, OpenSucceeds, SendSucceeds, StartTimer, ScreenInv
<1>4. Lines(AskedLabels, handled) = screen /\ Total(AskedLabels, handled) = total_records
  BY <1>3, LinesEquations, TotalEquations
<1>5. Lines(AskedLabels, handled)' = screen' /\ Total(AskedLabels, handled)' = total_records'
  BY <1>1, <1>2, <1>4
<1>6. ScreenAsReceived' /\ CountExact'
  BY <1>5 DEF ScreenAsReceived, CountExact
<1>7. CASE BuildName
  <2>1. service_type \in String /\ Qualified(service_type) \in String
    BY BrowseAssumption, QualifiedIsString DEF IInv, TypeOK
  <2>2. NameFits => Cut(Qualified(service_type)) = Qualified(service_type)
    BY <2>1, CutOfShort DEF NameFits
  <2>3. pc = "name" /\ asked' = {} /\ pc' \in {"open", "ended"}
    BY <1>7 DEF BuildName, Exit, ScreenInv
  <2>4. pc' = "open" => service_type_fqdn' = Cut(Qualified(service_type))
    BY <1>7 DEF BuildName, Exit
  <2> QED
    BY <1>1, <1>2, <1>3, <1>6, <2>2, <2>3, <2>4 DEF ScreenInv
<1>8. CASE OpenSucceeds
  BY <1>1, <1>2, <1>3, <1>6, <1>8 DEF OpenSucceeds, ScreenInv
<1>9. CASE SendSucceeds
  BY <1>1, <1>2, <1>3, <1>6, <1>9 DEF SendSucceeds, ScreenInv
<1>10. CASE StartTimer
  <2>1. asked # {}
    BY <1>10, BrowseAssumption DEF StartTimer, IInv, TypeOK
  <2> QED
    BY <1>1, <1>2, <1>3, <1>6, <1>10, <2>1 DEF StartTimer, ScreenInv
<1> QED
  BY <1>7, <1>8, <1>9, <1>10

(* A step that prints nothing and reads nothing leaves it as it is: the    *)
(* loop's own steps, a failure, the clock and what arrives.                *)
LEMMA OthersShow ==
    ASSUME ScreenInv,
           \/ CheckDeadline \/ CallSelect \/ SelectTimesOut \/ SelectReturns \/ BothRead
           \/ ReceiveFails \/ Report \/ OpenFails \/ SendFails \/ SelectFails
           \/ Tick \/ (\E shift \in Shifts : SetClock(shift))
           \/ (\E f \in Both, d \in Datagrams : Arrive(f, d))
           \/ UNCHANGED vars
    PROVE  ScreenInv'
<1> USE DEF args, reading, waiting, clock, network, results
<1>1. /\ UNCHANGED <<service_type, service_type_fqdn, asked, reading, total_records, handled>>
      /\ \/ UNCHANGED <<pc, screen>>
         \/ AtRest /\ AtRest' /\ UNCHANGED screen
         \/ pc' = "ended"
  BY DEF CheckDeadline, Prepares, CallSelect, SelectTimesOut, SelectReturns, BothRead, ReceiveFails,
         Report, OpenFails, SendFails, SelectFails, Exit, Tick, SetClock, Arrive, vars, AtRest
<1>2. /\ NameFits' = NameFits /\ AskedLabels' = AskedLabels /\ SeenSoFar' = SeenSoFar
  BY <1>1 DEF NameFits, AskedLabels, SeenSoFar
<1>3. CASE UNCHANGED <<pc, screen>>
  BY <1>1, <1>2, <1>3 DEF ScreenInv, ScreenAsReceived, CountExact, AtRest
<1>4. CASE AtRest /\ AtRest' /\ UNCHANGED screen
  BY <1>1, <1>2, <1>4 DEF ScreenInv, ScreenAsReceived, CountExact, AtRest
<1>5. CASE pc' = "ended"
  BY <1>1, <1>2, <1>5 DEF ScreenInv, ScreenAsReceived, CountExact, AtRest
<1> QED
  BY <1>1, <1>3, <1>4, <1>5

(* A packet that is read is the last one, and nothing of it is shown yet. *)
LEMMA ReceiveShows ==
    ASSUME IInv, ScreenInv, Receive
    PROVE  ScreenInv'
<1> USE DEF args, reading, waiting, clock, network, results
<1> DEFINE d == Head(rx[FirstOf(ready)])
<1>1. /\ pc = "receive" /\ ready # {} /\ pc' = "print" /\ i' = 1 /\ printed' = 0
      /\ in' = d /\ handled' = Append(handled, d)
      /\ UNCHANGED <<service_type, service_type_fqdn, asked, screen, total_records>>
  BY DEF Receive
<1>2. d \in Datagrams
  <2>1. ready \subseteq Both
    BY BrowseAssumption DEF IInv, TypeOK, Both
  <2>2. FirstOf(ready) \in ready /\ FirstOf(ready) \in Both
    BY <1>1, <2>1, FirstOfIsMember
  <2>3. rx[FirstOf(ready)] \in Seq(Datagrams) /\ rx[FirstOf(ready)] # << >>
    BY <2>2 DEF IInv, TypeOK, ReadyInv
  <2> QED
    BY <2>3
<1> HIDE DEF d
<1>3. NameFits' = NameFits /\ AskedLabels' = AskedLabels
  BY <1>1 DEF NameFits, AskedLabels
<1>4. /\ Front(handled') = handled /\ handled \in Seq(Datagrams)
      /\ handled' = Append(Front(handled'), in')
  BY <1>1, <1>2, FrontLastOfAppend DEF IInv, TypeOK
<1>5. SubSeq(in'.rrs, 1, i' - 1) = << >> /\ SeenSoFar' = << >>
  <2>1. i' - 1 = 0
    BY <1>1
  <2>2. SubSeq(in'.rrs, 1, 0) = << >>
    BY SubSeqEmpty
  <2> QED
    BY <2>1, <2>2, SeenEquations DEF SeenSoFar
<1>6. ASSUME NameFits
      PROVE  /\ screen' = Lines(AskedLabels', Front(handled')) \o LinesFor(in', SeenSoFar')
             /\ total_records' = Total(AskedLabels', Front(handled'))
  <2>1. screen = Lines(AskedLabels, handled) /\ total_records = Total(AskedLabels, handled)
    BY <1>1, <1>6 DEF ScreenInv, ScreenAsReceived, CountExact, AtRest
  <2>2. LinesFor(in', SeenSoFar') = << >>
    BY <1>5 DEF LinesFor
  <2>3. screen \in Seq(ScreenLine)
    BY <1>4, <2>1, LinesEquations
  <2>4. screen \o << >> = screen
    BY <2>3, ConcatEmptySeq
  <2> QED
    BY <1>1, <1>3, <1>4, <2>1, <2>2, <2>4
<1>7. printed' = Len(SeenSoFar') /\ 1 .. i' - 1 = {}
  BY <1>1, <1>5
<1> QED
  BY <1>1, <1>3, <1>4, <1>6, <1>7 DEF ScreenInv, ScreenAsReceived, CountExact, AtRest

(* Lines that follow each other do so however they are grouped. *)
LEMMA LinesAssociate ==
    ASSUME NEW a \in Seq(ScreenLine), NEW b \in Seq(ScreenLine), NEW c \in Seq(ScreenLine)
    PROVE  (a \o b) \o c = a \o (b \o c)
BY ConcatAssociative

(* A record that is printed is one to be seen, below its packet's header. *)
LEMMA PrintShows ==
    ASSUME IInv, ScreenInv, PrintRecord
    PROVE  ScreenInv'
<1> USE DEF args, clock, network
<1> DEFINE rr == in.rrs[i]
           seen == SeenSoFar
<1>1. /\ pc = "print" /\ in.whole /\ i <= Len(in.rrs) /\ rr.shape # "broken"
      /\ i' = i + 1 /\ pc' = pc /\ in' = in
      /\ UNCHANGED <<service_type, service_type_fqdn, asked, total_records, handled>>
      /\ \/ /\ Printable(rr)
            /\ screen' = screen \o (IF printed = 0 THEN <<Header(in)>> ELSE << >>)
                                \o <<Line(in, rr)>>
            /\ printed' = printed + 1
         \/ ~ Printable(rr) /\ UNCHANGED <<screen, printed>>
  BY DEF PrintRecord, Record
<1>2. NameFits' = NameFits /\ AskedLabels' = AskedLabels
  BY <1>1 DEF NameFits, AskedLabels
<1>3. in \in Datagrams /\ i \in Nat \ {0} /\ Len(in.rrs) \in Nat
  BY <1>1, PacketFields DEF IInv, TypeOK, ReadyInv
<1>4. in.rrs \in Seq(RR) /\ \A m \in 1 .. Len(in.rrs) : in.rrs[m] \in RR
  BY <1>3, PacketFields
<1>5. SUFFICES ASSUME NameFits
               PROVE  /\ \A m \in 1 .. i' - 1 : in'.rrs[m].shape # "broken"
                      /\ screen' = Lines(AskedLabels', Front(handled')) \o LinesFor(in', SeenSoFar')
                      /\ printed' = Len(SeenSoFar')
  BY <1>1, <1>2 DEF ScreenInv, ScreenAsReceived, CountExact, AtRest
<1>6. /\ Front(handled) \in Seq(Datagrams)
      /\ \A m \in 1 .. i - 1 : in.rrs[m].shape # "broken"
      /\ screen = Lines(AskedLabels, Front(handled)) \o LinesFor(in, seen)
      /\ printed = Len(seen)
  BY <1>1, <1>5 DEF ScreenInv
<1>7. \A m \in 1 .. i' - 1 : in'.rrs[m].shape # "broken"
  <2> TAKE m \in 1 .. i' - 1
  <2>1. m = i \/ m \in 1 .. i - 1
    BY <1>1, <1>3
  <2> QED
    BY <1>1, <1>6, <2>1
<1>8. rr \in RR /\ seen \in Seq(RR)
      /\ SeenSoFar' = IF ToBeSeen(AskedLabels, rr) THEN Append(seen, rr) ELSE seen
  <2> DEFINE p == SubSeq(in.rrs, 1, i - 1)
  <2>1. /\ i \in 1 .. Len(in.rrs) /\ \A m \in 1 .. i - 1 : in.rrs[m] \in RR
        /\ (i + 1) - 1 = (i - 1) + 1 /\ i - 1 + 1 = i /\ i - 1 \in Nat
    BY <1>1, <1>3, <1>4
  <2>2. p \in Seq(RR) /\ rr \in RR
    BY <1>4, <2>1, SubSeqProperties
  <2>3. SubSeq(in.rrs, 1, i) = Append(p, rr)
    <3> DEFINE q == SubSeq(in.rrs, 1, i)
               r == Append(p, rr)
    <3>1. /\ q \in Seq(RR) /\ Len(q) = i /\ \A m \in 1 .. i : q[m] = in.rrs[m]
      <4>1. \A m \in 1 .. i : in.rrs[m] \in RR
        BY <1>3, <1>4, <2>1
      <4>2. 1 \in Int /\ i \in Int /\ 1 <= i /\ i - 1 + 1 = i /\ \A m \in 1 .. i : 1 + m - 1 = m
        BY <1>3
      <4> QED
        BY <4>1, <4>2, SubSeqProperties
    <3>2. /\ Len(p) = i - 1 /\ \A m \in 1 .. i - 1 : p[m] = in.rrs[m]
      <4>1. 1 \in Int /\ i - 1 \in Int /\ i - 1 - 1 + 1 = i - 1 /\ (1 <= i - 1 \/ i - 1 = 0)
            /\ \A m \in 1 .. i - 1 : 1 + m - 1 = m
        BY <1>3
      <4> QED
        BY <2>1, <4>1, SubSeqProperties
    <3>3. /\ r \in Seq(RR) /\ Len(r) = i /\ r[i] = rr /\ \A m \in 1 .. i - 1 : r[m] = in.rrs[m]
      <4> HIDE DEF p, rr
      <4> QED
        BY <2>1, <2>2, <3>2, AppendProperties
    <3> HIDE DEF q, r
    <3>4. \A m \in 1 .. i : q[m] = r[m]
      <4> TAKE m \in 1 .. i
      <4>1. m = i \/ m \in 1 .. i - 1
        BY <1>3
      <4> QED
        BY <3>1, <3>3, <4>1
    <3>5. q = r
      BY <3>1, <3>3, <3>4, SeqEqual
    <3> QED
      BY <3>5 DEF q, r
  <2>4. SeenSoFar' = Seen(AskedLabels, Append(p, rr)) /\ seen = Seen(AskedLabels, p)
    <3>1. i' - 1 = i /\ in' = in
      BY <1>1, <1>3
    <3> QED
      BY <1>2, <2>3, <3>1 DEF SeenSoFar
  <2> HIDE DEF p, rr, seen
  <2> QED
    BY <2>2, <2>4, SeenEquations
<1>9. Printable(rr) <=> ToBeSeen(AskedLabels, rr)
  BY <1>1, <1>5, <1>8, FqdnIsAsked, PrintableIsToBeSeen
<1> DEFINE l == Lines(AskedLabels, Front(handled))
           a == LinesFor(in, seen)
           h == IF printed = 0 THEN <<Header(in)>> ELSE << >>
           t == <<Line(in, rr)>>
<1>10. /\ l \in Seq(ScreenLine) /\ a \in Seq(ScreenLine)
       /\ h \in Seq(ScreenLine) /\ t \in Seq(ScreenLine)
  <2>1. Header(in) \in ScreenLine /\ Line(in, rr) \in ScreenLine
    BY <1>3, <1>8 DEF Header, Line, ScreenLine
  <2>2. l \in Seq(ScreenLine) /\ a \in Seq(ScreenLine)
    BY <1>3, <1>6, <1>8, LinesEquations, LinesForEquations
  <2>3. h \in Seq(ScreenLine) /\ t \in Seq(ScreenLine)
    BY <2>1
  <2> QED
    BY <2>2, <2>3
<1>11. seen = << >> <=> printed = 0
  BY <1>6, <1>8, EmptySeq
<1>12. CASE Printable(rr)
  <2>1. SeenSoFar' = Append(seen, rr)
    BY <1>8, <1>9, <1>12
  <2>2. LinesFor(in, Append(seen, rr)) = a \o h \o t
    BY <1>3, <1>8, <1>11, LinesForEquations
  <2>3. screen' = ((l \o a) \o h) \o t /\ printed' = printed + 1
    BY <1>1, <1>6, <1>12
  <2>4. Len(Append(seen, rr)) = Len(seen) + 1
    BY <1>8, AppendProperties
  <2>5. ((l \o a) \o h) \o t = l \o ((a \o h) \o t)
    <3> HIDE DEF l, a, h, t
    <3>1. /\ l \in Seq(ScreenLine) /\ a \in Seq(ScreenLine)
          /\ h \in Seq(ScreenLine) /\ t \in Seq(ScreenLine)
      BY <1>10
    <3>2. (l \o a) \o h = l \o (a \o h)
      BY <3>1, LinesAssociate, SMTT(60)
    <3> DEFINE b == a \o h
    <3>3. b \in Seq(ScreenLine)
      BY <3>1, ConcatProperties
    <3> HIDE DEF b
    <3>4. (l \o b) \o t = l \o (b \o t)
      BY <3>1, <3>3, LinesAssociate, SMTT(60)
    <3> QED
      BY <3>2, <3>4 DEF b
  <2>6. screen' = l \o LinesFor(in', SeenSoFar') /\ printed' = Len(SeenSoFar')
    <3> HIDE DEF l, a, h, t, seen, rr
    <3> QED
      BY <1>1, <1>6, <2>1, <2>2, <2>3, <2>4, <2>5
  <2>7. Lines(AskedLabels', Front(handled')) = l
    BY <1>1, <1>2
  <2> QED
    BY <1>7, <2>6, <2>7
<1>13. CASE ~ Printable(rr)
  <2>1. SeenSoFar' = seen
    BY <1>8, <1>9, <1>13
  <2>2. UNCHANGED <<screen, printed>>
    BY <1>1, <1>13
  <2>3. Lines(AskedLabels', Front(handled')) = l
    BY <1>1, <1>2
  <2> QED
    BY <1>1, <1>6, <1>7, <2>1, <2>2, <2>3
<1> QED
  BY <1>12, <1>13

(* When a packet ends, all there was to be seen of it has been, and what   *)
(* counts of it is counted: nothing, if a part of it was broken.           *)
LEMMA EndShows ==
    ASSUME IInv, ScreenInv, PrintEnds
    PROVE  ScreenInv'
<1> USE DEF args, clock, network
<1>1. /\ pc = "print" /\ pc' = "receive"
      /\ Malformed \/ i > Len(in.rrs)
      /\ total_records' = IF Malformed THEN total_records ELSE total_records + printed
      /\ UNCHANGED <<service_type, service_type_fqdn, asked, screen, handled>>
  BY DEF PrintEnds
<1>2. NameFits' = NameFits /\ AskedLabels' = AskedLabels
  BY <1>1 DEF NameFits, AskedLabels
<1>3. /\ in \in Datagrams /\ i \in 1 .. Len(in.rrs) + 1 /\ Len(in.rrs) \in Nat
      /\ in.whole \in BOOLEAN
  BY <1>1, PacketFields DEF IInv, TypeOK, ReadyInv
<1>4. SUFFICES ASSUME NameFits
               PROVE  /\ screen' = Lines(AskedLabels', handled')
                      /\ total_records' = Total(AskedLabels', handled')
  BY <1>1, <1>2 DEF ScreenInv, ScreenAsReceived, CountExact, AtRest
<1> DEFINE s == Front(handled)
<1>5. /\ handled = Append(s, in) /\ s \in Seq(Datagrams)
      /\ ~ in.whole => i = 1
      /\ \A m \in 1 .. i - 1 : in.rrs[m].shape # "broken"
      /\ screen = Lines(AskedLabels, s) \o LinesFor(in, SeenSoFar)
      /\ printed = Len(SeenSoFar)
      /\ total_records = Total(AskedLabels, s)
  BY <1>1, <1>4 DEF ScreenInv
<1> HIDE DEF s
<1>6. Whole(in) = SubSeq(in.rrs, 1, i - 1) /\ (IsBroken(in) <=> Malformed)
  <2>1. CASE ~ in.whole
    <3>1. Whole(in) = << >> /\ IsBroken(in)
      BY <1>3, <1>5, <2>1, WholeIs
    <3>2. i - 1 = 0 /\ SubSeq(in.rrs, 1, 0) = << >>
      BY <1>5, <2>1, SubSeqEmpty
    <3> QED
      BY <2>1, <3>1, <3>2 DEF Malformed
  <2>2. CASE in.whole /\ i = Len(in.rrs) + 1
    <3>1. ~ (i <= Len(in.rrs))
      BY <1>3, <2>2
    <3> QED
      BY <1>3, <1>5, <2>2, <3>1, WholeIs DEF Malformed
  <2>3. CASE in.whole /\ i # Len(in.rrs) + 1
    <3>1. i <= Len(in.rrs)
      BY <1>3, <2>3
    <3>2. in.rrs[i].shape = "broken"
      BY <1>1, <1>3, <2>3, <3>1 DEF Malformed, Record
    <3> QED
      BY <1>3, <1>5, <2>3, <3>1, <3>2, WholeIs DEF Malformed, Record
  <2> QED
    BY <2>1, <2>2, <2>3
<1>7. SeenSoFar = Shown(AskedLabels, in)
  BY <1>6 DEF SeenSoFar, Shown
<1>8. Lines(AskedLabels, handled) = screen
  BY <1>3, <1>5, <1>7, LinesEquations
<1>9. CountOf(AskedLabels, in) = IF Malformed THEN 0 ELSE printed
  BY <1>5, <1>6, <1>7 DEF CountOf
<1>10. Total(AskedLabels, handled) = total_records'
  <2>1. Total(AskedLabels, s) \in Nat
    BY <1>5, TotalEquations
  <2>2. Total(AskedLabels, handled) = Total(AskedLabels, s) + CountOf(AskedLabels, in)
    BY <1>3, <1>5, TotalEquations
  <2> QED
    BY <1>1, <1>5, <1>9, <2>1, <2>2
<1> QED
  BY <1>1, <1>2, <1>8, <1>10

(* Every step keeps the screen as it should be. *)
LEMMA StepShows == IInv /\ ScreenInv /\ [Next]_vars => ScreenInv'
<1> SUFFICES ASSUME IInv, ScreenInv, [Next]_vars PROVE ScreenInv'
  OBVIOUS
<1>1. CASE BuildName \/ OpenSucceeds \/ SendSucceeds \/ StartTimer
  BY <1>1, StartShows
<1>2. CASE Receive
  BY <1>2, ReceiveShows
<1>3. CASE PrintRecord
  BY <1>3, PrintShows
<1>4. CASE PrintEnds
  BY <1>4, EndShows
<1>5. CASE \/ CheckDeadline \/ CallSelect \/ SelectTimesOut \/ SelectReturns \/ BothRead
           \/ ReceiveFails \/ Report \/ OpenFails \/ SendFails \/ SelectFails
           \/ Tick \/ (\E shift \in Shifts : SetClock(shift))
           \/ (\E f \in Both, d \in Datagrams : Arrive(f, d))
           \/ UNCHANGED vars
  BY <1>5, OthersShow
<1> QED
  BY <1>1, <1>2, <1>3, <1>4, <1>5 DEF Next, Main, Failure

-----------------------------------------------------------------------------
(* Whatever arrives and however the clock is set, the browser's state is   *)
(* as declared: no packet is printed before one is read, and no record     *)
(* behind the last of a packet (mdns_browse.c, main).                      *)
THEOREM TypeCorrect == Spec => []TypeOK
<1>1. IInv => TypeOK
  BY DEF IInv
<1> QED
  BY <1>1, InitEstablishes, StepPreserves, PTL DEF Spec

(* However many packets wake it up, select is asked to wait no longer than *)
(* was left when the clock was last read, so beyond the deadline for no    *)
(* more than the time between that reading and the call; and the report    *)
(* does not come before the deadline (the loop of main).                   *)
THEOREM ListensUntilDeadline == Spec => []DeadlineKept
<1>1. IInv => DeadlineKept
  BY DEF IInv
<1> QED
  BY <1>1, InitEstablishes, StepPreserves, PTL DEF Spec

(* Both sockets named by select are read before it is called again.        *)
THEOREM SocketsServed == Spec => []BothServed
<1>1. IInv => BothServed
  BY DEF IInv, ReadyInv, BothServed
<1> QED
  BY <1>1, InitEstablishes, StepPreserves, PTL DEF Spec

(* What the browser shows is what it has received, from both sockets, each *)
(* record below its sender: of the PTR records those with the name asked   *)
(* for, of the SRV, TXT, A and AAAA records all, whatever their name; for  *)
(* every service type that fits and packets whose labels hold any bytes,   *)
(* dots and NULs among them (print_response_records).                      *)
THEOREM ScreenIsReceived == Spec => []ScreenAsReceived
<1>1. ScreenInv => ScreenAsReceived
  BY DEF ScreenInv
<1> QED
  BY <1>1, InitEstablishes, InitShows, StepPreserves, StepShows, PTL DEF Spec

(* The records of the packets that are whole are counted, those of the     *)
(* others are not, however many packets come (total_records in main).      *)
THEOREM RecordsCounted == Spec => []CountExact
<1>1. ScreenInv => CountExact
  BY DEF ScreenInv
<1> QED
  BY <1>1, InitEstablishes, InitShows, StepPreserves, StepShows, PTL DEF Spec
=============================================================================
