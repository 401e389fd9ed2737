--------------------------- MODULE QuestionsProofs ---------------------------
(***************************************************************************)
(* From a question to its answer: what the functions of Names, Lookups,    *)
(* Answers and Questions compute, for every name, registry and datagram.   *)
(*                                                                         *)
(* They are defined by recursion, and their equations are proved from the  *)
(* well-ordering of the naturals: induction and recursion come first.      *)
(***************************************************************************)
EXTENDS Questions, SequenceTheorems, WellFoundedInduction, TLAPS

-----------------------------------------------------------------------------
(* Induction and recursion. *)

(* A set of naturals that is not empty has a least element. *)
LEMMA LeastNumber ==
    ASSUME NEW T, T \subseteq Nat, T # {}
    PROVE  \E n \in T : \A m \in T : n <= m
<1>1. PICK n \in T : \A m \in T : ~ (<<m, n>> \in OpToRel(<, Nat))
  BY WFMin, NatLessThanWellFounded, Zenon
<1>2. \A m \in T : ~ (m < n)
  BY <1>1 DEF OpToRel
<1>3. \A m \in T : m \in Nat /\ n \in Nat
  OBVIOUS
<1> QED
  BY <1>2, <1>3

(* Induction, for a set rather than for a formula. *)
LEMMA Induction ==
    ASSUME NEW T, 0 \in T, \A n \in Nat : n \in T => n + 1 \in T
    PROVE  Nat \subseteq T
<1> SUFFICES ASSUME Nat \ T # {} PROVE FALSE
  OBVIOUS
<1>1. PICK n \in Nat \ T : \A m \in Nat \ T : n <= m
  BY LeastNumber
<1>2. n # 0 /\ n - 1 \in Nat
  BY <1>1
<1>3. n - 1 \in T
  BY <1>1, <1>2
<1> QED
  BY <1>1, <1>2, <1>3

(* Induction over the sequences, from the shorter to the longer. *)
LEMMA SequenceInduction ==
    ASSUME NEW S, NEW P, << >> \in P,
           \A s \in Seq(S), e \in S : s \in P => Append(s, e) \in P
    PROVE  Seq(S) \subseteq P
<1> DEFINE T == {n \in Nat : \A s \in Seq(S) : Len(s) = n => s \in P}
<1>1. 0 \in T
  <2>1. \A s \in Seq(S) : Len(s) = 0 => s = << >>
    BY EmptySeq
  <2> QED
    BY <2>1
<1>2. ASSUME NEW n \in Nat, n \in T PROVE n + 1 \in T
  <2> SUFFICES ASSUME NEW s \in Seq(S), Len(s) = n + 1 PROVE s \in P
    OBVIOUS
  <2>1. s # << >>
    BY <1>2, EmptySeq
  <2>2. PICK t \in Seq(S), e \in S : s = Append(t, e)
    BY <2>1, SequenceEmptyOrAppend
  <2>3. Len(t) \in Nat /\ Len(s) = Len(t) + 1
    BY <2>2, AppendProperties, LenProperties
  <2>4. t \in P
    BY <1>2, <2>3
  <2> QED
    BY <2>2, <2>4
<1> HIDE DEF T
<1>3. Nat \subseteq T
  BY <1>1, <1>2, Induction
<1>4. \A s \in Seq(S) : Len(s) \in Nat
  BY LenProperties
<1> QED
  BY <1>3, <1>4 DEF T

(* g continues f with x. *)
IsExtension(g, f, n, x) == g[n + 1] = x /\ \A k \in 0 .. n : g[k] = f[k]

(* A function of the numbers up to n continues with any x at n + 1. *)
LEMMA Extension ==
    ASSUME NEW S, NEW n \in Nat, NEW f \in [0 .. n -> S], NEW x \in S
    PROVE  \E g \in [0 .. (n + 1) -> S] : IsExtension(g, f, n, x)
<1> DEFINE g == [k \in 0 .. (n + 1) |-> IF k = n + 1 THEN x ELSE f[k]]
<1>1. \A k \in 0 .. (n + 1) : k = n + 1 \/ k \in 0 .. n
  OBVIOUS
<1>2. g \in [0 .. (n + 1) -> S]
  BY <1>1
<1>3. g[n + 1] = x
  OBVIOUS
<1>4. \A k \in 0 .. n : k \in 0 .. (n + 1) /\ k # n + 1
  OBVIOUS
<1>5. \A k \in 0 .. n : g[k] = f[k]
  BY <1>4
<1> HIDE DEF g
<1> QED
  BY <1>2, <1>3, <1>5 DEF IsExtension

(* f is what a loop computes: base, then one step for each k. *)
IsLoop(f, base, step, m) == f[0] = base /\ \A k \in 1 .. m : f[k] = step[f[k - 1]][k]

(* A loop over the first m numbers computes something. *)
LEMMA CountedRecursion ==
    ASSUME NEW S, NEW base \in S, NEW m \in Nat, NEW step \in [S -> [1 .. m -> S]]
    PROVE  \E f \in [0 .. m -> S] : IsLoop(f, base, step, m)
<1> DEFINE Has(n) == \E f \in [0 .. n -> S] : IsLoop(f, base, step, n)
           T == {n \in Nat : n <= m => Has(n)}
<1>1. Has(0)
  <2> DEFINE f == [k \in 0 .. 0 |-> base]
  <2>1. f \in [0 .. 0 -> S] /\ f[0] = base
    OBVIOUS
  <2>2. 1 .. 0 = {}
    OBVIOUS
  <2> HIDE DEF f
  <2> QED
    BY <2>1, <2>2 DEF IsLoop
<1>2. ASSUME NEW n \in Nat, n + 1 <= m, Has(n) PROVE Has(n + 1)
  <2>1. PICK f \in [0 .. n -> S] : IsLoop(f, base, step, n)
    BY <1>2
  <2>2. n \in 0 .. n /\ 0 \in 0 .. n /\ n + 1 \in 1 .. m /\ n = (n + 1) - 1
    BY <1>2
  <2> DEFINE x == step[f[n]][n + 1]
  <2>3. x \in S
    BY <2>2
  <2> HIDE DEF x
  <2>4. PICK g \in [0 .. (n + 1) -> S] : IsExtension(g, f, n, x)
    BY <1>2, <2>3, Extension
  <2>5. ASSUME NEW k \in 1 .. (n + 1) PROVE g[k] = step[g[k - 1]][k]
    <3>1. CASE k = n + 1
      BY <3>1, <2>2, <2>4 DEF x, IsExtension
    <3>2. CASE k # n + 1
      <4>1. k \in 1 .. n /\ k \in 0 .. n /\ k - 1 \in 0 .. n
        BY <3>2
      <4> QED
        BY <4>1, <2>1, <2>4 DEF IsLoop, IsExtension
    <3> QED
      BY <3>1, <3>2
  <2> QED
    BY <2>1, <2>2, <2>4, <2>5 DEF IsLoop, IsExtension
<1> HIDE DEF Has
<1>3. 0 \in T /\ \A n \in Nat : n \in T => n + 1 \in T
  BY <1>1, <1>2
<1>4. Nat \subseteq T
  <2> HIDE DEF T
  <2> QED
    BY <1>3, Induction
<1>5. Has(m)
  BY <1>4
<1> QED
  BY <1>5 DEF Has

(* Two functions that start alike and go on alike end alike. *)
LEMMA CountedUnique ==
    ASSUME NEW m \in Nat, NEW f, NEW g, f[0] = g[0],
           \A k \in 1 .. m : f[k - 1] = g[k - 1] => f[k] = g[k]
    PROVE  f[m] = g[m]
<1> DEFINE T == {n \in Nat : n <= m => f[n] = g[n]}
<1>1. 0 \in T
  OBVIOUS
<1>2. ASSUME NEW n \in Nat, n \in T PROVE n + 1 \in T
  <2> SUFFICES ASSUME n + 1 <= m PROVE f[n + 1] = g[n + 1]
    OBVIOUS
  <2>1. f[n] = g[n] /\ n + 1 \in 1 .. m /\ (n + 1) - 1 = n
    BY <1>2
  <2> QED
    BY <2>1
<1> HIDE DEF T
<1>3. Nat \subseteq T
  BY <1>1, <1>2, Induction
<1> QED
  BY <1>3 DEF T

(* f is what a loop over the elements of a sequence computes. *)
IsFold(f, E, base, step) ==
    /\ f[<< >>] = base
    /\ \A t \in Seq(E), e \in E : f[Append(t, e)] = step[f[t]][e]

(* A fold over the sequences of E exists. *)
LEMMA SequenceRecursion ==
    ASSUME NEW E, NEW S, NEW base \in S, NEW step \in [S -> [E -> S]]
    PROVE  \E f \in [Seq(E) -> S] : IsFold(f, E, base, step)
<1> DEFINE Is(f, t) == /\ f \in [0 .. Len(t) -> S]
                       /\ f[0] = base
                       /\ \A k \in 1 .. Len(t) : f[k] = step[f[k - 1]][t[k]]
           Of(t) == CHOOSE f : Is(f, t)
           F == [t \in Seq(E) |-> Of(t)[Len(t)]]
<1>1. ASSUME NEW t \in Seq(E) PROVE Is(Of(t), t)
  <2> DEFINE m == Len(t)
             st == [x \in S |-> [k \in 1 .. m |-> step[x][t[k]]]]
  <2>1. m \in Nat /\ \A k \in 1 .. m : t[k] \in E
    BY LenProperties, ElementOfSeq
  <2>2. st \in [S -> [1 .. m -> S]]
    BY <2>1
  <2>3. \A x \in S, k \in 1 .. m : st[x][k] = step[x][t[k]]
    OBVIOUS
  <2> HIDE DEF m, st
  <2>4. PICK f \in [0 .. m -> S] : IsLoop(f, base, st, m)
    BY <2>1, <2>2, CountedRecursion
  <2>5. \A k \in 1 .. m : k - 1 \in 0 .. m
    BY <2>1
  <2>6. Is(f, t)
    BY <2>1, <2>3, <2>4, <2>5 DEF m, IsLoop
  <2> QED
    BY <2>6
<1>2. \A t \in Seq(E) : Len(t) \in Nat /\ Of(t)[Len(t)] \in S
  <2> TAKE t \in Seq(E)
  <2>1. Len(t) \in Nat /\ Len(t) \in 0 .. Len(t)
    BY LenProperties
  <2>2. Is(Of(t), t)
    BY <1>1
  <2> HIDE DEF Of
  <2> QED
    BY <2>1, <2>2
<1> HIDE DEF Of
<1>3. F \in [Seq(E) -> S]
  BY <1>2
<1>4. << >> \in Seq(E) /\ F[<< >>] = base
  BY <1>1, EmptySeq
<1>5. ASSUME NEW t \in Seq(E), NEW e \in E PROVE F[Append(t, e)] = step[F[t]][e]
  <2> DEFINE u == Append(t, e)
             n == Len(t)
  <2>1. /\ u \in Seq(E) /\ Len(u) = n + 1 /\ n \in Nat
        /\ u[n + 1] = e /\ \A k \in 1 .. n : u[k] = t[k]
    BY AppendProperties, LenProperties
  <2> HIDE DEF u, n
  <2>2. Is(Of(u), u) /\ Is(Of(t), t)
    BY <1>1, <2>1
  <2>3. Of(u)[n] = Of(t)[n]
    <3>1. Of(u)[0] = Of(t)[0]
      BY <2>2
    <3>2. \A k \in 1 .. n : Of(u)[k - 1] = Of(t)[k - 1] => Of(u)[k] = Of(t)[k]
      <4> TAKE k \in 1 .. n
      <4>1. Len(t) = n /\ k \in 1 .. Len(u)
        BY <2>1 DEF n
      <4>2. /\ Of(u)[k] = step[Of(u)[k - 1]][u[k]]
            /\ Of(t)[k] = step[Of(t)[k - 1]][t[k]]
        BY <2>2, <4>1
      <4> QED
        BY <4>2, <2>1
    <3> QED
      BY <2>1, <3>1, <3>2, CountedUnique, Zenon
  <2>4. Of(u)[n + 1] = step[Of(u)[n]][e]
    BY <2>1, <2>2
  <2> QED
    BY <2>1, <2>3, <2>4 DEF u, n
<1> HIDE DEF F
<1> QED
  BY <1>3, <1>4, <1>5 DEF IsFold
-----------------------------------------------------------------------------
(* Strings. *)

(* Append is undone by Front and Last. *)
LEMMA FrontLastOfAppend ==
    ASSUME NEW S, NEW s \in Seq(S), NEW e \in S
    PROVE  /\ Append(s, e) # << >>
           /\ Front(Append(s, e)) = s /\ Last(Append(s, e)) = e
<1> DEFINE t == Append(s, e)
           n == Len(s)
<1>1. /\ t \in Seq(S) /\ Len(t) = n + 1 /\ n \in Nat /\ t # << >>
      /\ t[n + 1] = e /\ \A k \in 1 .. n : t[k] = s[k] /\ s[k] \in S
  BY AppendProperties, LenProperties, ElementOfSeq
<1> HIDE DEF t, n
<1>2. /\ SubSeq(t, 1, n) \in Seq(S) /\ Len(SubSeq(t, 1, n)) = n
      /\ \A k \in 1 .. n : SubSeq(t, 1, n)[k] = t[k]
  <2>1. \A k \in 1 .. n : t[k] \in S
    BY <1>1
  <2>2. /\ SubSeq(t, 1, n) \in Seq(S)
        /\ Len(SubSeq(t, 1, n)) = IF 1 <= n THEN n - 1 + 1 ELSE 0
        /\ \A k \in 1 .. n - 1 + 1 : SubSeq(t, 1, n)[k] = t[1 + k - 1]
    BY <1>1, <2>1, SubSeqProperties
  <2>3. \A k \in 1 .. n : k \in 1 .. n - 1 + 1 /\ 1 + k - 1 = k
    BY <1>1
  <2> QED
    BY <1>1, <2>2, <2>3
<1>3. SubSeq(t, 1, n) = s
  BY <1>1, <1>2, SeqEqual DEF n
<1> QED
  BY <1>1, <1>3 DEF Front, Last, t

(* A fold takes one step for the last element of a sequence. *)
LEMMA FoldSteps ==
    ASSUME NEW E, NEW S, NEW base, NEW step, NEW f \in [Seq(E) -> S], IsFold(f, E, base, step),
           NEW s \in Seq(E), s # << >>
    PROVE  /\ Front(s) \in Seq(E) /\ Last(s) \in E
           /\ f[Front(s)] \in S /\ f[s] = step[f[Front(s)]][Last(s)]
<1>1. PICK t \in Seq(E), e \in E : s = Append(t, e)
  BY SequenceEmptyOrAppend
<1>2. Front(s) = t /\ Last(s) = e
  BY <1>1, FrontLastOfAppend
<1> QED
  BY <1>1, <1>2 DEF IsFold

(* A string is empty, or a shorter string and its last token. *)
LEMMA StringCases ==
    ASSUME NEW s \in String, s # << >>
    PROVE  /\ Front(s) \in String /\ Last(s) \in Token
           /\ s = Append(Front(s), Last(s))
<1>1. PICK t \in Seq(Token), e \in Token : s = Append(t, e)
  BY SequenceEmptyOrAppend DEF String
<1> QED
  BY <1>1, FrontLastOfAppend DEF String

(* strlen adds up the tokens. *)
LEMMA StrLenEquations ==
    /\ StrLen(<< >>) = 0
    /\ \A s \in String : StrLen(s) \in Nat
    /\ \A s \in String, t \in Token : StrLen(Append(s, t)) = StrLen(s) + Octets[t]
<1> DEFINE step == [n \in Nat |-> [t \in Token |-> n + Octets[t]]]
           Body(f) == [t \in String |->
                          IF t = << >> THEN 0 ELSE f[Front(t)] + Octets[Last(t)]]
           len == CHOOSE f : f = Body(f)
<1>1. step \in [Nat -> [Token -> Nat]]
  BY NamesAssumption
<1>2. \A n \in Nat, t \in Token : step[n][t] = n + Octets[t]
  OBVIOUS
<1> HIDE DEF step
<1>3. PICK f \in [Seq(Token) -> Nat] : IsFold(f, Token, 0, step)
  BY <1>1, SequenceRecursion
<1>4. f = Body(f)
  <2>1. ASSUME NEW s \in String, s # << >>
        PROVE  f[s] = f[Front(s)] + Octets[Last(s)]
    <3>1. Front(s) \in String /\ Last(s) \in Token /\ s = Append(Front(s), Last(s))
      BY <2>1, StringCases
    <3>2. f[s] = step[f[Front(s)]][Last(s)] /\ f[Front(s)] \in Nat
      BY <3>1, <1>3 DEF String, IsFold
    <3> QED
      BY <3>1, <3>2, <1>2
  <2>2. f = [s \in String |-> f[s]]
    BY DEF String
  <2>3. \A s \in String : f[s] = Body(f)[s]
    BY <1>3, <2>1 DEF IsFold
  <2> QED
    BY <2>2, <2>3
<1>5. len = Body(len)
  BY <1>4
<1> HIDE DEF len
<1>6. \A s \in String : StrLen(s) = len[s]
  BY DEF StrLen, len
<1>7. << >> \in String /\ len[<< >>] = 0
  BY <1>5, EmptySeq DEF String
<1>8. \A s \in String, t \in Token :
         Append(s, t) \in String /\ len[Append(s, t)] = len[s] + Octets[t]
  <2> TAKE s \in String, t \in Token
  <2>1. Append(s, t) \in String /\ Append(s, t) # << >>
    BY AppendProperties DEF String
  <2>2. Front(Append(s, t)) = s /\ Last(Append(s, t)) = t
    BY FrontLastOfAppend DEF String
  <2>3. len[Append(s, t)] = len[Front(Append(s, t))] + Octets[Last(Append(s, t))]
    BY <1>5, <2>1
  <2> QED
    BY <2>1, <2>2, <2>3
<1>9. \A s \in String : len[s] \in Nat
  <2> DEFINE P == {s \in String : len[s] \in Nat}
  <2>1. << >> \in P
    BY <1>7
  <2>2. \A s \in Seq(Token), t \in Token : s \in P => Append(s, t) \in P
    BY <1>8, NamesAssumption DEF String
  <2> HIDE DEF P
  <2>3. Seq(Token) \subseteq P
    BY <2>1, <2>2, SequenceInduction
  <2> QED
    BY <2>3 DEF P, String
<1> QED
  BY <1>6, <1>7, <1>8, <1>9

(* encode_qname writes the labels one after the other, and no dots. *)
LEMMA TextToWireEquations ==
    /\ TextToWire(<< >>) = << >>
    /\ \A s \in String : TextToWire(s) \in Seq(Token \ {Dot})
    /\ \A s \in String, t \in Token : TextToWire(Append(s, t)) = WithToken(TextToWire(s), t)
<1> DEFINE Labels == Seq(Token \ {Dot})
           step == [w \in Labels |-> [t \in Token |-> WithToken(w, t)]]
           Body(f) == [t \in String |->
                          IF t = << >> THEN << >> ELSE WithToken(f[Front(t)], Last(t))]
           labels == CHOOSE f : f = Body(f)
<1>1. \A w \in Labels, t \in Token : WithToken(w, t) \in Labels
  <2> TAKE w \in Labels, t \in Token
  <2>1. CASE t = Dot
    BY <2>1 DEF WithToken
  <2>2. CASE t # Dot
    <3>1. Append(w, t) \in Seq(Token \ {Dot})
      BY <2>2, AppendProperties
    <3> QED
      BY <3>1, <2>2 DEF WithToken
  <2> QED
    BY <2>1, <2>2
<1>2. /\ step \in [Labels -> [Token -> Labels]]
      /\ \A w \in Labels, t \in Token : step[w][t] = WithToken(w, t)
  BY <1>1
<1>3. << >> \in Labels
  BY EmptySeq
<1> HIDE DEF step, Labels
<1>4. PICK f \in [Seq(Token) -> Labels] : IsFold(f, Token, << >>, step)
  BY <1>2, <1>3, SequenceRecursion
<1>5. f = Body(f)
  <2>1. ASSUME NEW s \in String, s # << >>
        PROVE  f[s] = WithToken(f[Front(s)], Last(s))
    <3>1. Front(s) \in String /\ Last(s) \in Token /\ s = Append(Front(s), Last(s))
      BY <2>1, StringCases
    <3>2. f[s] = step[f[Front(s)]][Last(s)] /\ f[Front(s)] \in Labels
      BY <3>1, <1>4 DEF String, IsFold
    <3> QED
      BY <3>1, <3>2, <1>2
  <2>2. f = [s \in String |-> f[s]]
    BY DEF String
  <2>3. \A s \in String : f[s] = Body(f)[s]
    BY <1>4, <2>1 DEF IsFold
  <2> QED
    BY <2>2, <2>3
<1>6. labels = Body(labels)
  BY <1>5
<1> HIDE DEF labels
<1>7. \A s \in String : TextToWire(s) = labels[s]
  BY DEF TextToWire, labels
<1>8. << >> \in String /\ labels[<< >>] = << >>
  BY <1>6, EmptySeq DEF String
<1>9. \A s \in String, t \in Token :
         Append(s, t) \in String /\ labels[Append(s, t)] = WithToken(labels[s], t)
  <2> TAKE s \in String, t \in Token
  <2>1. Append(s, t) \in String /\ Append(s, t) # << >>
    BY AppendProperties DEF String
  <2>2. Front(Append(s, t)) = s /\ Last(Append(s, t)) = t
    BY FrontLastOfAppend DEF String
  <2>3. labels[Append(s, t)] = WithToken(labels[Front(Append(s, t))], Last(Append(s, t)))
    BY <1>6, <2>1
  <2> QED
    BY <2>1, <2>2, <2>3
<1>10. \A s \in String : labels[s] \in Labels
  <2> DEFINE P == {s \in String : labels[s] \in Labels}
  <2>1. << >> \in P
    BY <1>3, <1>8
  <2>2. \A s \in Seq(Token), t \in Token : s \in P => Append(s, t) \in P
    BY <1>1, <1>9 DEF String
  <2> HIDE DEF P
  <2>3. Seq(Token) \subseteq P
    BY <2>1, <2>2, SequenceInduction
  <2> QED
    BY <2>3 DEF P, String
<1> QED
  BY <1>7, <1>8, <1>9, <1>10 DEF Labels

(* The labels of two strings in a row are those of the one, then those of  *)
(* the other.                                                              *)
LEMMA TextToWireOfConcat ==
    ASSUME NEW s \in String, NEW u \in String
    PROVE  TextToWire(s \o u) = TextToWire(s) \o TextToWire(u)
<1> DEFINE Good(v) == TextToWire(s \o v) = TextToWire(s) \o TextToWire(v)
           P == {v \in String : Good(v)}
<1>1. Good(<< >>)
  <2>1. s \o << >> = s /\ TextToWire(s) \o << >> = TextToWire(s)
    BY ConcatEmptySeq, TextToWireEquations DEF String
  <2> QED
    BY <2>1, TextToWireEquations
<1>2. ASSUME NEW v \in String, NEW t \in Token, Good(v) PROVE Good(Append(v, t))
  <2>1. s \o v \in String /\ TextToWire(s) \in Seq(Token \ {Dot}) /\ TextToWire(v) \in Seq(Token \ {Dot})
    BY ConcatProperties, TextToWireEquations DEF String
  <2>2. s \o Append(v, t) = Append(s \o v, t)
    <3>1. <<t>> \in Seq(Token) /\ s \in Seq(Token) /\ v \in Seq(Token) /\ s \o v \in Seq(Token)
      BY <2>1 DEF String
    <3>2. Append(v, t) = v \o <<t>> /\ Append(s \o v, t) = (s \o v) \o <<t>>
      BY <3>1, AppendIsConcat
    <3>3. (s \o v) \o <<t>> = s \o (v \o <<t>>)
      BY <3>1, ConcatAssociative
    <3> QED
      BY <3>2, <3>3
  <2>3. TextToWire(s \o Append(v, t)) = WithToken(TextToWire(s) \o TextToWire(v), t)
    BY <1>2, <2>1, <2>2, TextToWireEquations
  <2>4. TextToWire(Append(v, t)) = WithToken(TextToWire(v), t)
    BY TextToWireEquations
  <2>5. CASE t = Dot
    BY <2>3, <2>4, <2>5 DEF WithToken
  <2>6. CASE t # Dot
    <3> DEFINE a == TextToWire(s)
               b == TextToWire(v)
               L == Token \ {Dot}
    <3>1. a \in Seq(L) /\ b \in Seq(L) /\ t \in L /\ <<t>> \in Seq(L)
      BY <2>1, <2>6
    <3> HIDE DEF a, b, L
    <3>2. a \o b \in Seq(L)
      BY <3>1, ConcatProperties
    <3>3. Append(b, t) = b \o <<t>> /\ Append(a \o b, t) = (a \o b) \o <<t>>
      BY <3>1, <3>2, AppendIsConcat
    <3>4. (a \o b) \o <<t>> = a \o (b \o <<t>>)
      BY <3>1, ConcatAssociative
    <3> QED
      BY <2>3, <2>4, <2>6, <3>3, <3>4 DEF WithToken, a, b
  <2> QED
    BY <2>5, <2>6
<1>3. << >> \in P /\ \A v \in Seq(Token), t \in Token : v \in P => Append(v, t) \in P
  <2>1. << >> \in String /\ \A v \in String, t \in Token : Append(v, t) \in String
    BY EmptySeq, AppendProperties DEF String
  <2> HIDE DEF Good
  <2> QED
    BY <1>1, <1>2, <2>1 DEF String
<1>4. Seq(Token) \subseteq P
  <2> HIDE DEF P
  <2> QED
    BY <1>3, SequenceInduction
<1> QED
  BY <1>4 DEF String

(* strlen of two strings in a row. *)
LEMMA StrLenOfConcat ==
    ASSUME NEW s \in String, NEW u \in String
    PROVE  StrLen(s \o u) = StrLen(s) + StrLen(u)
<1> DEFINE Good(v) == StrLen(s \o v) = StrLen(s) + StrLen(v)
           P == {v \in String : Good(v)}
<1>1. Good(<< >>)
  <2>1. s \o << >> = s
    BY ConcatEmptySeq DEF String
  <2> QED
    BY <2>1, StrLenEquations
<1>2. ASSUME NEW v \in String, NEW t \in Token, Good(v) PROVE Good(Append(v, t))
  <2>1. <<t>> \in Seq(Token) /\ s \in Seq(Token) /\ v \in Seq(Token) /\ s \o v \in Seq(Token)
    BY ConcatProperties DEF String
  <2>2. s \o Append(v, t) = Append(s \o v, t)
    <3>1. Append(v, t) = v \o <<t>> /\ Append(s \o v, t) = (s \o v) \o <<t>>
      BY <2>1, AppendIsConcat
    <3>2. (s \o v) \o <<t>> = s \o (v \o <<t>>)
      BY <2>1, ConcatAssociative
    <3> QED
      BY <3>1, <3>2
  <2>3. s \o v \in String
    BY <2>1 DEF String
  <2>4. /\ StrLen(s \o Append(v, t)) = StrLen(s \o v) + Octets[t]
        /\ StrLen(Append(v, t)) = StrLen(v) + Octets[t]
    BY <2>2, <2>3, StrLenEquations
  <2>5. StrLen(s) \in Nat /\ StrLen(v) \in Nat /\ Octets[t] \in Nat
    BY StrLenEquations, NamesAssumption
  <2> QED
    BY <1>2, <2>4, <2>5
<1>3. << >> \in P /\ \A v \in Seq(Token), t \in Token : v \in P => Append(v, t) \in P
  <2>1. << >> \in String /\ \A v \in String, t \in Token : Append(v, t) \in String
    BY EmptySeq, AppendProperties DEF String
  <2> HIDE DEF Good
  <2> QED
    BY <1>1, <1>2, <2>1 DEF String
<1>4. Seq(Token) \subseteq P
  <2> HIDE DEF P
  <2> QED
    BY <1>3, SequenceInduction
<1> QED
  BY <1>4 DEF String

(* Lower-casing, token by token. *)
LEMMA FoldedEquations ==
    /\ Folded(<< >>) = << >>
    /\ \A s \in String : Folded(s) \in String /\ Len(Folded(s)) = Len(s)
    /\ \A s \in String, t \in Token : Folded(Append(s, t)) = Append(Folded(s), Lower[t])
<1>1. ASSUME NEW s \in String
      PROVE  /\ Folded(s) \in Seq(Token) /\ Len(Folded(s)) = Len(s) /\ Len(s) \in Nat
             /\ \A i \in 1 .. Len(s) : Folded(s)[i] = Lower[s[i]] /\ s[i] \in Token
  <2>1. Len(s) \in Nat /\ \A i \in 1 .. Len(s) : s[i] \in Token /\ Lower[s[i]] \in Token
    BY LenProperties, ElementOfSeq, NamesAssumption DEF String
  <2> QED
    BY <2>1, IsASeq DEF Folded
<1>2. Folded(<< >>) = << >>
  <2>1. << >> \in String /\ Len(<< >>) = 0
    BY EmptySeq DEF String
  <2>2. Folded(<< >>) \in Seq(Token) /\ Len(Folded(<< >>)) = 0
    BY <1>1, <2>1
  <2> QED
    BY <2>2, EmptySeq
<1>3. ASSUME NEW s \in String, NEW t \in Token
      PROVE  Folded(Append(s, t)) = Append(Folded(s), Lower[t])
  <2> DEFINE u == Append(s, t)
             v == Append(Folded(s), Lower[t])
             n == Len(s)
  <2>1. /\ u \in String /\ Len(u) = n + 1 /\ n \in Nat
        /\ u[n + 1] = t /\ \A i \in 1 .. n : u[i] = s[i]
    BY <1>1, AppendProperties DEF String
  <2>2. /\ v \in Seq(Token) /\ Len(v) = n + 1
        /\ v[n + 1] = Lower[t] /\ \A i \in 1 .. n : v[i] = Folded(s)[i]
    <3>1. Lower[t] \in Token
      BY NamesAssumption
    <3> QED
      BY <3>1, <1>1, AppendProperties
  <2> HIDE DEF u, v
  <2>3. /\ Folded(u) \in Seq(Token) /\ Len(Folded(u)) = n + 1
        /\ \A i \in 1 .. n + 1 : Folded(u)[i] = Lower[u[i]]
    BY <1>1, <2>1
  <2>4. \A i \in 1 .. n + 1 : Folded(u)[i] = v[i]
    <3> TAKE i \in 1 .. n + 1
    <3>1. CASE i = n + 1
      BY <3>1, <2>1, <2>2, <2>3
    <3>2. CASE i # n + 1
      <4>1. i \in 1 .. n
        BY <3>2, <2>1
      <4> QED
        BY <4>1, <1>1, <2>1, <2>2, <2>3
    <3> QED
      BY <3>1, <3>2
  <2>5. Folded(u) = v
    BY <2>2, <2>3, <2>4, SeqEqual
  <2> QED
    BY <2>5 DEF u, v
<1> QED
  BY <1>1, <1>2, <1>3 DEF String

(* Letter case makes no difference to where the labels are. *)
LEMMA TextToWireOfFolded ==
    ASSUME NEW s \in String
    PROVE  Folded(TextToWire(s)) = TextToWire(Folded(s))
<1> DEFINE P == {v \in String : Folded(TextToWire(v)) = TextToWire(Folded(v))}
<1>1. << >> \in P
  BY EmptySeq, TextToWireEquations, FoldedEquations DEF String
<1>2. ASSUME NEW v \in String, NEW t \in Token,
             Folded(TextToWire(v)) = TextToWire(Folded(v))
      PROVE  Folded(TextToWire(Append(v, t))) = TextToWire(Folded(Append(v, t)))
  <2>1. Lower[t] \in Token /\ (Lower[t] = Dot <=> t = Dot)
    BY NamesAssumption
  <2>2. Folded(v) \in String
    BY FoldedEquations
  <2>3. TextToWire(v) \in String
    BY TextToWireEquations, SeqMonotonic DEF String
  <2>4. TextToWire(Folded(Append(v, t))) = WithToken(TextToWire(Folded(v)), Lower[t])
    BY <2>1, <2>2, FoldedEquations, TextToWireEquations
  <2>5. TextToWire(Append(v, t)) = WithToken(TextToWire(v), t)
    BY TextToWireEquations
  <2>6. CASE t = Dot
    BY <2>1, <2>4, <2>5, <2>6, <1>2 DEF WithToken
  <2>7. CASE t # Dot
    <3>1. Folded(Append(TextToWire(v), t)) = Append(Folded(TextToWire(v)), Lower[t])
      BY <2>3, FoldedEquations
    <3> QED
      BY <3>1, <2>1, <2>4, <2>5, <2>7, <1>2 DEF WithToken
  <2> QED
    BY <2>6, <2>7
<1>3. \A v \in Seq(Token), t \in Token : v \in P => Append(v, t) \in P
  <2>1. \A v \in String, t \in Token : Append(v, t) \in String
    BY AppendProperties DEF String
  <2> QED
    BY <1>2, <2>1 DEF String
<1> HIDE DEF P
<1>4. Seq(Token) \subseteq P
  BY <1>1, <1>3, SequenceInduction
<1> QED
  BY <1>4 DEF P, String

(* Names that differ in case only go on the wire as labels that do so. *)
LEMMA TextToWireRespectsCase ==
    ASSUME NEW s \in String, NEW u \in String, StrCaseEq(s, u)
    PROVE  Folded(TextToWire(s)) = Folded(TextToWire(u))
BY TextToWireOfFolded DEF StrCaseEq

(* Names without a dot are their own labels. *)
LEMMA TextToWireOfLabels ==
    ASSUME NEW s \in Seq(Token \ {Dot})
    PROVE  s \in String /\ TextToWire(s) = s
<1> DEFINE P == {v \in Seq(Token \ {Dot}) : TextToWire(v) = v}
<1>1. << >> \in P
  BY EmptySeq, TextToWireEquations
<1>2. \A v \in Seq(Token \ {Dot}) : v \in String
  BY SeqMonotonic DEF String
<1>3. \A v \in Seq(Token \ {Dot}), t \in Token \ {Dot} : v \in P => Append(v, t) \in P
  BY <1>2, TextToWireEquations, AppendProperties DEF WithToken
<1> HIDE DEF P
<1>4. Seq(Token \ {Dot}) \subseteq P
  BY <1>1, <1>3, SequenceInduction
<1> QED
  BY <1>2, <1>4 DEF P

(* A trailing dot is no label. *)
LEMMA TextToWireOfStripped ==
    ASSUME NEW s \in String
    PROVE  /\ StripTrailingDot(s) \in String
           /\ TextToWire(StripTrailingDot(s)) = TextToWire(s)
<1>1. CASE s # << >> /\ Last(s) = Dot
  <2>1. Front(s) \in String /\ s = Append(Front(s), Dot)
    BY <1>1, StringCases
  <2>2. TextToWire(Append(Front(s), Dot)) = TextToWire(Front(s))
    BY <2>1, TextToWireEquations, NamesAssumption DEF WithToken
  <2> QED
    BY <1>1, <2>1, <2>2 DEF StripTrailingDot
<1>2. CASE ~ (s # << >> /\ Last(s) = Dot)
  BY <1>2 DEF StripTrailingDot
<1> QED
  BY <1>1, <1>2

(* parse_qname writes each label and a dot behind it. *)
LEMMA WireToTextEquations ==
    /\ WireToText(<< >>) = << >>
    /\ \A w \in Seq(Token) : WireToText(w) \in String /\ Len(WireToText(w)) = 2 * Len(w)
    /\ \A w \in Seq(Token), t \in Token :
          WireToText(Append(w, t)) = Append(Append(WireToText(w), t), Dot)
<1>1. ASSUME NEW w \in Seq(Token)
      PROVE  /\ WireToText(w) \in Seq(Token) /\ Len(WireToText(w)) = 2 * Len(w)
             /\ \A i \in 1 .. 2 * Len(w) :
                   WireToText(w)[i] = IF i % 2 = 1 THEN w[(i + 1) \div 2] ELSE Dot
  <2> DEFINE n == 2 * Len(w)
             E(i) == IF i % 2 = 1 THEN w[(i + 1) \div 2] ELSE Dot
  <2>1. n \in Nat /\ Len(w) \in Nat
    BY LenProperties
  <2>2. \A i \in 1 .. n : E(i) \in Token
    <3> TAKE i \in 1 .. n
    <3>1. CASE i % 2 = 1
      <4>1. (i + 1) \div 2 \in 1 .. Len(w)
        BY <2>1
      <4> QED
        BY <3>1, <4>1, ElementOfSeq
    <3>2. CASE i % 2 # 1
      BY <3>2, NamesAssumption
    <3> QED
      BY <3>1, <3>2
  <2> HIDE DEF n, E
  <2>3. WireToText(w) = [i \in 1 .. n |-> E(i)]
    BY DEF WireToText, n, E
  <2>4. [i \in 1 .. n |-> E(i)] \in Seq(Token)
    BY <2>1, <2>2, IsASeq
  <2>5. Len([i \in 1 .. n |-> E(i)]) = n
    BY <2>1, <2>4
  <2> QED
    BY <2>3, <2>4, <2>5 DEF n, E
<1>2. WireToText(<< >>) = << >>
  <2> DEFINE e == << >>
  <2>1. e \in Seq(Token) /\ Len(e) = 0
    BY EmptySeq
  <2> HIDE DEF e
  <2>2. WireToText(e) \in Seq(Token) /\ Len(WireToText(e)) = 2 * 0
    BY <1>1, <2>1
  <2>3. WireToText(e) = << >>
    BY <2>2, EmptySeq
  <2> QED
    BY <2>3 DEF e
<1>3. ASSUME NEW w \in Seq(Token), NEW t \in Token
      PROVE  WireToText(Append(w, t)) = Append(Append(WireToText(w), t), Dot)
  <2> DEFINE n == Len(w)
             a == WireToText(Append(w, t))
             b == Append(Append(WireToText(w), t), Dot)
  <2>1. /\ Append(w, t) \in Seq(Token) /\ Len(Append(w, t)) = n + 1 /\ n \in Nat
        /\ Append(w, t)[n + 1] = t /\ \A i \in 1 .. n : Append(w, t)[i] = w[i]
    BY AppendProperties, LenProperties
  <2>2. /\ a \in Seq(Token) /\ Len(a) = 2 * (n + 1)
        /\ \A i \in 1 .. 2 * (n + 1) :
              a[i] = IF i % 2 = 1 THEN Append(w, t)[(i + 1) \div 2] ELSE Dot
    BY <1>1, <2>1
  <2>3. /\ b \in Seq(Token) /\ Len(b) = 2 * n + 2
        /\ b[2 * n + 1] = t /\ b[2 * n + 2] = Dot
        /\ \A i \in 1 .. 2 * n : b[i] = WireToText(w)[i]
    <3> DEFINE d == WireToText(w)
               c == Append(d, t)
    <3>0. d \in Seq(Token) /\ Len(d) = 2 * n
      BY <1>1
    <3> HIDE DEF d
    <3>1. /\ c \in Seq(Token) /\ Len(c) = 2 * n + 1 /\ c[2 * n + 1] = t
          /\ \A i \in 1 .. 2 * n : c[i] = d[i]
      BY <3>0, AppendProperties
    <3> HIDE DEF c
    <3>2. Dot \in Token
      BY NamesAssumption
    <3>3. /\ Append(c, Dot) \in Seq(Token) /\ Len(Append(c, Dot)) = Len(c) + 1
          /\ \A i \in 1 .. Len(c) : Append(c, Dot)[i] = c[i]
          /\ Append(c, Dot)[Len(c) + 1] = Dot
      BY <3>1, <3>2, AppendProperties, SMTT(60)
    <3> QED
      BY <3>1, <3>3, <2>1 DEF c, d
  <2> HIDE DEF a, b
  <2>4. \A i \in 1 .. 2 * n + 2 : a[i] = b[i]
    <3> TAKE i \in 1 .. 2 * n + 2
    <3>1. CASE i \in 1 .. 2 * n
      <4>1. i % 2 = 1 => (i + 1) \div 2 \in 1 .. n
        BY <3>1, <2>1
      <4>2. a[i] = IF i % 2 = 1 THEN w[(i + 1) \div 2] ELSE Dot
        BY <4>1, <2>1, <2>2
      <4> QED
        BY <4>2, <3>1, <2>3, <1>1
    <3>2. CASE i = 2 * n + 1
      <4>1. i % 2 = 1 /\ (i + 1) \div 2 = n + 1
        BY <3>2, <2>1
      <4> QED
        BY <4>1, <3>2, <2>1, <2>2, <2>3
    <3>3. CASE i = 2 * n + 2
      <4>1. i % 2 # 1
        BY <3>3, <2>1
      <4> QED
        BY <4>1, <3>3, <2>1, <2>2, <2>3
    <3> QED
      BY <3>1, <3>2, <3>3, <2>1
  <2>5. Len(a) = 2 * n + 2
    BY <2>1, <2>2
  <2>6. a = b
    BY <2>2, <2>3, <2>4, <2>5, SeqEqual
  <2> QED
    BY <2>6 DEF a, b
<1> QED
  BY <1>1, <1>2, <1>3 DEF String

(* The text of a question has the labels of the question. *)
LEMMA TextToWireOfWire ==
    ASSUME NEW w \in Seq(Token \ {Dot})
    PROVE  WireToText(w) \in String /\ TextToWire(WireToText(w)) = w
<1> DEFINE L == Token \ {Dot}
           P == {v \in Seq(L) : TextToWire(WireToText(v)) = v}
<1>1. << >> \in P
  BY EmptySeq, WireToTextEquations, TextToWireEquations
<1>2. ASSUME NEW v \in Seq(L), NEW t \in L, TextToWire(WireToText(v)) = v
      PROVE  Append(v, t) \in Seq(L) /\ TextToWire(WireToText(Append(v, t))) = Append(v, t)
  <2> DEFINE a == WireToText(v)
  <2>1. v \in Seq(Token) /\ Dot \in Token /\ Append(v, t) \in Seq(L)
    BY SeqMonotonic, AppendProperties, NamesAssumption
  <2>2. a \in String /\ Append(a, t) \in String
    BY <2>1, WireToTextEquations, AppendProperties DEF String
  <2>3. WireToText(Append(v, t)) = Append(Append(a, t), Dot)
    BY <2>1, WireToTextEquations
  <2> HIDE DEF a
  <2>4. TextToWire(Append(Append(a, t), Dot)) = WithToken(WithToken(TextToWire(a), t), Dot)
    BY <2>1, <2>2, TextToWireEquations
  <2> QED
    BY <1>2, <2>1, <2>3, <2>4 DEF WithToken, a
<1>3. \A v \in Seq(L), t \in L : v \in P => Append(v, t) \in P
  BY <1>2
<1>4. w \in String
  BY TextToWireOfLabels
<1> HIDE DEF P, L
<1>5. Seq(L) \subseteq P
  BY <1>1, <1>3, SequenceInduction
<1> QED
  BY <1>4, <1>5, WireToTextEquations DEF P, L, String

(* What parse_qname copies, label by label. *)
LEMMA SpelledEquations ==
    /\ Spelled(<< >>) = << >>
    /\ \A w \in Seq(WireLabel) : Spelled(w) \in Seq(Token \cup {Nul})
    /\ \A w \in Seq(WireLabel), x \in WireLabel :
          Spelled(Append(w, x)) = Spelled(w) \o x \o <<Dot>>
<1> DEFINE S == Seq(Token \cup {Nul})
           L == WireLabel
           turn(u, x) == u \o x \o <<Dot>>
           step == [u \in S |-> [x \in L |-> turn(u, x)]]
           Body(f) == [w \in Seq(L) |->
                          IF w = << >> THEN << >> ELSE f[Front(w)] \o Last(w) \o <<Dot>>]
           text == CHOOSE f : f = Body(f)
<1>1. \A u \in S, x \in L : turn(u, x) \in S
  <2> TAKE u \in S, x \in L
  <2>1. u \in Seq(Token \cup {Nul}) /\ x \in Seq(Token \cup {Nul})
    BY DEF WireLabel
  <2>2. <<Dot>> \in Seq(Token \cup {Nul})
    BY NamesAssumption
  <2>3. u \o x \in Seq(Token \cup {Nul})
    BY <2>1, ConcatProperties
  <2> QED
    BY <2>2, <2>3, ConcatProperties
<1>2. << >> \in S
  BY EmptySeq
<1> HIDE DEF S, L, turn
<1>3. /\ step \in [S -> [L -> S]]
      /\ \A u \in S, x \in L : step[u][x] = turn(u, x)
  BY <1>1
<1> HIDE DEF step
<1>4. PICK f \in [Seq(L) -> S] : IsFold(f, L, << >>, step)
  BY <1>2, <1>3, SequenceRecursion
<1>5. f = Body(f)
  <2>1. \A w \in Seq(L) : f[w] = Body(f)[w]
    <3> TAKE w \in Seq(L)
    <3>1. CASE w = << >>
      BY <3>1, <1>4 DEF IsFold
    <3>2. CASE w # << >>
      <4>1. /\ Last(w) \in L /\ f[Front(w)] \in S
            /\ f[w] = step[f[Front(w)]][Last(w)]
        BY <1>4, <3>2, FoldSteps
      <4>2. f[w] = turn(f[Front(w)], Last(w))
        BY <4>1, <1>3
      <4> QED
        BY <3>2, <4>2 DEF turn
    <3> QED
      BY <3>1, <3>2
  <2>2. f = [w \in Seq(L) |-> f[w]] /\ Body(f) = [w \in Seq(L) |-> Body(f)[w]]
    OBVIOUS
  <2> HIDE DEF Body
  <2> QED
    BY <2>1, <2>2, Zenon
<1>6. text = Body(text)
  BY <1>5
<1> HIDE DEF text
<1>7. \A w \in Seq(L) : Spelled(w) = text[w]
  BY DEF Spelled, text, L
<1>8. << >> \in Seq(L) /\ text[<< >>] = << >>
  BY <1>6, EmptySeq
<1>9. \A w \in Seq(L), x \in L : Append(w, x) \in Seq(L) /\ text[Append(w, x)] = turn(text[w], x)
  <2> TAKE w \in Seq(L), x \in L
  <2>1. Append(w, x) \in Seq(L) /\ Append(w, x) # << >>
    BY AppendProperties
  <2>2. Front(Append(w, x)) = w /\ Last(Append(w, x)) = x
    BY FrontLastOfAppend
  <2> QED
    BY <1>6, <2>1, <2>2 DEF turn
<1>10. \A w \in Seq(L) : text[w] \in S
  <2> DEFINE P == {w \in Seq(L) : text[w] \in S}
  <2>1. << >> \in P
    BY <1>2, <1>8
  <2>2. \A w \in Seq(L), x \in L : w \in P => Append(w, x) \in P
    BY <1>1, <1>9
  <2> HIDE DEF P
  <2>3. Seq(L) \subseteq P
    BY <2>1, <2>2, SequenceInduction
  <2> QED
    BY <2>3 DEF P
<1> QED
  BY <1>7, <1>8, <1>9, <1>10 DEF S, L, turn

(* A C string holds no NUL; what holds none is a C string as it is. *)
LEMMA CTextIsString ==
    ASSUME NEW s \in Seq(Token \cup {Nul})
    PROVE  /\ CText(s) \in String
           /\ s \in String => CText(s) = s
<1>1. s \in String => Nuls(s) = {}
  <2> SUFFICES ASSUME s \in Seq(Token), NEW i \in DOMAIN s, s[i] = Nul PROVE FALSE
    BY DEF Nuls, String
  <2>1. s[i] \in Token
    BY ElementOfSeq, LenProperties
  <2> QED
    BY <2>1, NamesAssumption
<1>2. CASE Nuls(s) = {}
  <2>1. \A i \in 1 .. Len(s) : s[i] \in Token
    <3>1. \A i \in 1 .. Len(s) : s[i] \in Token \cup {Nul} /\ i \in DOMAIN s
      BY ElementOfSeq, LenProperties
    <3> QED
      BY <1>2, <3>1 DEF Nuls
  <2>2. s = [i \in 1 .. Len(s) |-> s[i]] /\ Len(s) \in Nat
    BY LenProperties
  <2>3. [i \in 1 .. Len(s) |-> s[i]] \in Seq(Token)
    BY <2>1, <2>2, IsASeq
  <2> QED
    BY <1>2, <2>2, <2>3 DEF CText, String
<1>3. CASE Nuls(s) # {}
  <2>1. Nuls(s) \subseteq Nat /\ Nuls(s) \subseteq 1 .. Len(s)
    BY LenProperties DEF Nuls
  <2>2. \E i \in Nuls(s) : \A j \in Nuls(s) : i <= j
    BY <1>3, <2>1, LeastNumber
  <2> DEFINE n == FirstNul(s)
             e == n - 1
  <2>3. n \in Nuls(s) /\ \A j \in Nuls(s) : n <= j
    BY <2>2 DEF FirstNul
  <2> HIDE DEF n
  <2>4. n \in 1 .. Len(s) /\ Len(s) \in Nat /\ e \in Nat /\ e <= Len(s)
    BY <2>1, <2>3, LenProperties
  <2>5. \A i \in 1 .. e : s[i] \in Token
    <3> TAKE i \in 1 .. e
    <3>1. i \in 1 .. Len(s) /\ ~ (n <= i)
      BY <2>4
    <3>2. s[i] \in Token \cup {Nul} /\ i \in DOMAIN s
      BY <3>1, ElementOfSeq, LenProperties
    <3>3. i \notin Nuls(s)
      BY <2>3, <3>1
    <3> QED
      BY <3>2, <3>3 DEF Nuls
  <2> HIDE DEF e
  <2>6. SubSeq(s, 1, e) = [i \in 1 .. e |-> s[i]]
    BY <2>4
  <2>7. [i \in 1 .. e |-> s[i]] \in Seq(Token)
    BY <2>4, <2>5, IsASeq
  <2>8. CText(s) \in String
    BY <1>3, <2>6, <2>7 DEF CText, String, e, n
  <2> QED
    BY <1>1, <1>3, <2>8
<1> QED
  BY <1>2, <1>3

(* The name of a question is a C string. *)
LEMMA QNameIsString ==
    ASSUME NEW d, d.labels \in Seq(WireLabel)
    PROVE  QName(d) \in String
BY SpelledEquations, CTextIsString DEF QName

(* A label without a dot or NUL is one token, and the labels are the tokens. *)
LEMMA BareEquations ==
    ASSUME NEW w \in Seq(WireLabel), DotFree(w)
    PROVE  /\ Bare(w) \in Seq(Token \ {Dot}) /\ Len(Bare(w)) = Len(w) /\ Len(w) \in Nat
           /\ \A n \in 1 .. Len(w) : Bare(w)[n] = w[n][1]
           /\ w = Wired(Bare(w))
<1>1. Len(w) \in Nat /\ DOMAIN w = 1 .. Len(w)
  BY LenProperties
<1>2. ASSUME NEW n \in 1 .. Len(w)
      PROVE  w[n][1] \in Token \ {Dot} /\ w[n] = <<w[n][1]>>
  <2> DEFINE x == w[n]
  <2>1. x \in Seq(Token \cup {Nul})
    BY ElementOfSeq DEF WireLabel
  <2>2. Len(x) = 1 /\ x[1] \notin {Dot, Nul}
    BY <1>1 DEF DotFree
  <2> HIDE DEF x
  <2>3. x[1] \in Token \cup {Nul}
    <3>1. 1 \in 1 .. Len(x)
      BY <2>2
    <3> QED
      BY <2>1, <3>1, ElementOfSeq
  <2>4. x = <<x[1]>>
    BY <2>1, <2>2
  <2> QED
    BY <2>2, <2>3, <2>4 DEF x
<1>3. [n \in 1 .. Len(w) |-> w[n][1]] \in Seq(Token \ {Dot})
  BY <1>1, <1>2, IsASeq
<1>4. Len([n \in 1 .. Len(w) |-> w[n][1]]) = Len(w)
  BY <1>1, <1>3
<1>5. w = [n \in 1 .. Len(w) |-> w[n]]
  BY <1>1
<1>6. Wired(Bare(w)) = [n \in 1 .. Len(w) |-> <<w[n][1]>>]
  BY <1>1, <1>4 DEF Wired, Bare
<1> QED
  BY <1>1, <1>2, <1>3, <1>4, <1>5, <1>6 DEF Bare

(* Names on the wire without dots or NULs are their labels, and back. *)
LEMMA WiredEquations ==
    ASSUME NEW names \in Seq(Token \ {Dot})
    PROVE  /\ Wired(names) \in Seq(WireLabel)
           /\ DotFree(Wired(names)) /\ Bare(Wired(names)) = names
           /\ Len(Wired(names)) = Len(names)
<1>1. /\ Len(names) \in Nat /\ names = [n \in 1 .. Len(names) |-> names[n]]
      /\ \A n \in 1 .. Len(names) : names[n] \in Token \ {Dot}
  BY LenProperties, ElementOfSeq
<1>2. \A t \in Token : <<t>> \in WireLabel
  <2> TAKE t \in Token
  <2>1. <<t>> \in Seq(Token \cup {Nul}) /\ <<t>> # << >> /\ Len(<<t>>) = 1 /\ 2 .. 1 = {}
    OBVIOUS
  <2> QED
    BY <2>1 DEF WireLabel
<1>3. \A n \in 1 .. Len(names) : <<names[n]>> \in WireLabel
  BY <1>1, <1>2
<1>4. [n \in 1 .. Len(names) |-> <<names[n]>>] \in Seq(WireLabel)
  BY <1>1, <1>3, IsASeq
<1> DEFINE w == Wired(names)
<1>5. w \in Seq(WireLabel) /\ Len(w) = Len(names) /\ DOMAIN w = 1 .. Len(names)
      /\ \A n \in 1 .. Len(names) : w[n] = <<names[n]>>
  BY <1>1, <1>4 DEF Wired
<1> HIDE DEF w
<1>6. DotFree(w)
  <2>1. \A n \in 1 .. Len(names) : Len(w[n]) = 1 /\ w[n][1] = names[n] /\ names[n] \notin {Dot, Nul}
    BY <1>1, <1>5, NamesAssumption
  <2> QED
    BY <1>5, <2>1 DEF DotFree
<1>7. Bare(w) = [n \in 1 .. Len(names) |-> names[n]]
  BY <1>5 DEF Bare
<1> QED
  BY <1>1, <1>5, <1>6, <1>7 DEF w

(* parse_qname writes labels without dots or NULs with dots behind them.   *)
LEMMA SpelledOfBare ==
    ASSUME NEW w \in Seq(WireLabel), DotFree(w)
    PROVE  Spelled(w) = WireToText(Bare(w))
<1> DEFINE N == Token \ {Dot}
           P == {v \in Seq(N) : Spelled(Wired(v)) = WireToText(v)}
<1>1. << >> \in P
  <2>1. << >> \in Seq(N) /\ Len(<< >>) = 0
    BY EmptySeq
  <2>2. Wired(<< >>) = << >>
    <3>1. Wired(<< >>) \in Seq(WireLabel) /\ Len(Wired(<< >>)) = 0
      BY <2>1, WiredEquations
    <3> QED
      BY <3>1, EmptySeq
  <2> QED
    BY <2>1, <2>2, SpelledEquations, WireToTextEquations
<1>2. ASSUME NEW v \in Seq(N), NEW t \in N, v \in P PROVE Append(v, t) \in P
  <2> DEFINE u == Append(v, t)
             n == Len(v)
             x == <<t>>
  <2>1. /\ u \in Seq(N) /\ Len(u) = n + 1 /\ n \in Nat
        /\ u[n + 1] = t /\ \A i \in 1 .. n : u[i] = v[i]
    BY AppendProperties, LenProperties
  <2> HIDE DEF u, n
  <2>2. /\ Wired(v) \in Seq(WireLabel) /\ Len(Wired(v)) = n
        /\ \A i \in 1 .. n : Wired(v)[i] = <<v[i]>>
    BY <2>1, WiredEquations DEF Wired, n
  <2>3. /\ Wired(u) \in Seq(WireLabel) /\ Len(Wired(u)) = n + 1
        /\ \A i \in 1 .. n + 1 : Wired(u)[i] = <<u[i]>>
    BY <2>1, WiredEquations DEF Wired
  <2>4. x \in WireLabel
    <3>1. Wired(u)[n + 1] = x /\ n + 1 \in 1 .. Len(Wired(u))
      BY <2>1, <2>3
    <3> QED
      BY <2>3, <3>1, ElementOfSeq
  <2> HIDE DEF x
  <2>5. Wired(u) = Append(Wired(v), x)
    <3>1. /\ Append(Wired(v), x) \in Seq(WireLabel) /\ Len(Append(Wired(v), x)) = n + 1
          /\ Append(Wired(v), x)[n + 1] = x
          /\ \A i \in 1 .. n : Append(Wired(v), x)[i] = Wired(v)[i]
      BY <2>1, <2>2, <2>4, AppendProperties
    <3>2. \A i \in 1 .. n + 1 : Wired(u)[i] = Append(Wired(v), x)[i]
      <4> TAKE i \in 1 .. n + 1
      <4>1. CASE i = n + 1
        BY <4>1, <3>1, <2>1, <2>3 DEF x
      <4>2. CASE i # n + 1
        <5>1. i \in 1 .. n
          BY <2>1, <4>2
        <5> QED
          BY <5>1, <3>1, <2>1, <2>2, <2>3
      <4> QED
        BY <4>1, <4>2
    <3> QED
      BY <2>1, <2>3, <3>1, <3>2, SeqEqual
  <2>6. Spelled(Wired(u)) = Spelled(Wired(v)) \o x \o <<Dot>>
    BY <2>2, <2>4, <2>5, SpelledEquations
  <2> DEFINE a == WireToText(v)
  <2>7. a \in Seq(Token) /\ WireToText(u) = Append(Append(a, t), Dot) /\ t \in Token /\ Dot \in Token
    <3>1. v \in Seq(Token)
      BY SeqMonotonic
    <3> QED
      BY <3>1, WireToTextEquations, NamesAssumption DEF u, String
  <2>8. Spelled(Wired(v)) = a
    BY <1>2
  <2> HIDE DEF a
  <2>9. a \o <<t>> \o <<Dot>> = Append(Append(a, t), Dot)
    <3>1. a \o <<t>> = Append(a, t)
      BY <2>7, AppendIsConcat
    <3>2. Append(a, t) \in Seq(Token)
      BY <2>7, AppendProperties
    <3>3. Append(a, t) \o <<Dot>> = Append(Append(a, t), Dot)
      BY <2>7, <3>2, AppendIsConcat
    <3> QED
      BY <3>1, <3>3
  <2>10. Spelled(Wired(u)) = WireToText(u)
    BY <2>6, <2>7, <2>8, <2>9 DEF x
  <2> QED
    BY <2>1, <2>10 DEF u
<1> HIDE DEF P, N
<1>3. Seq(N) \subseteq P
  BY <1>1, <1>2, SequenceInduction
<1>4. Bare(w) \in Seq(N) /\ w = Wired(Bare(w))
  BY BareEquations DEF N
<1> QED
  BY <1>3, <1>4 DEF P

(* So the name of a question without dots and NULs in its labels has these *)
(* labels, and what the response repeats is what was asked.                *)
LEMMA BareQuestion ==
    ASSUME NEW d, d.labels \in Seq(WireLabel), DotFree(d.labels)
    PROVE  /\ Bare(d.labels) \in Seq(Token \ {Dot}) /\ Len(Bare(d.labels)) = Len(d.labels)
           /\ QName(d) = WireToText(Bare(d.labels)) /\ QName(d) \in String
           /\ Repeated(d) = Bare(d.labels)
           /\ WireLen(d.labels) = StrLen(WireToText(Bare(d.labels)))
<1> DEFINE w == Bare(d.labels)
           s == WireToText(w)
<1>1. w \in Seq(Token \ {Dot}) /\ Len(w) = Len(d.labels)
  BY BareEquations
<1>2. s \in String /\ TextToWire(s) = w
  BY <1>1, TextToWireOfWire
<1>3. Spelled(d.labels) = s
  BY SpelledOfBare
<1> HIDE DEF w, s
<1>4. s \in Seq(Token \cup {Nul}) /\ s \in Seq(Token)
  BY <1>2, SeqMonotonic DEF String
<1>5. CText(s) = s
  BY <1>2, <1>4, CTextIsString
<1>6. WireLen(d.labels) = StrLen(s)
  <2>1. \A i \in DOMAIN s : s[i] # Nul
    <3>1. \A i \in DOMAIN s : s[i] \in Token
      BY <1>4, ElementOfSeq, LenProperties
    <3> QED
      BY <3>1, NamesAssumption
  <2>2. s = [i \in DOMAIN s |-> s[i]]
    BY <1>4, LenProperties
  <2>3. [i \in DOMAIN s |-> IF s[i] = Nul THEN Dot ELSE s[i]] = [i \in DOMAIN s |-> s[i]]
    BY <2>1
  <2> QED
    BY <1>3, <2>2, <2>3 DEF WireLen
<1>7. QName(d) = s
  BY <1>3, <1>5 DEF QName
<1> QED
  BY <1>1, <1>2, <1>6, <1>7 DEF Repeated, w, s

-----------------------------------------------------------------------------
(* Lookups. *)

(* What a loop keeps from each turn to the next it keeps to the end. *)
LEMMA LoopKeeps ==
    ASSUME NEW S, NEW m \in Nat, NEW g, g[0] \in S,
           \A k \in 1 .. m : g[k - 1] \in S => g[k] \in S
    PROVE  g[m] \in S
<1> DEFINE T == {n \in Nat : n <= m => g[n] \in S}
<1>1. 0 \in T
  OBVIOUS
<1>2. ASSUME NEW n \in Nat, n \in T PROVE n + 1 \in T
  <2> SUFFICES ASSUME n + 1 <= m PROVE g[n + 1] \in S
    OBVIOUS
  <2>1. g[n] \in S /\ n + 1 \in 1 .. m /\ (n + 1) - 1 = n
    BY <1>2
  <2> QED
    BY <2>1
<1> HIDE DEF T
<1>3. Nat \subseteq T
  BY <1>1, <1>2, Induction
<1> QED
  BY <1>3 DEF T

(* A service of the list that has the type and the domain asked for. *)
Matching(reg, service_type, domain) ==
    {reg[k] : k \in {j \in 1 .. Len(reg) : /\ StrCaseEq(reg[j].service_type, service_type)
                                           /\ StrCaseEq(reg[j].domain, domain)}}

(* found[n] is what mdns_find_services_by_type has after n services: only  *)
(* ones that have the type and the domain asked for, and no more than the  *)
(* array holds.                                                            *)
IsSearch(found, reg, t, d, max_items) ==
    /\ found[0] = << >>
    /\ \A n \in 1 .. Len(reg) : found[n] = WithService(found[n - 1], reg[n], t, d, max_items)
    /\ \A n \in 0 .. Len(reg) : found[n] \in Seq(Matching(reg, t, d)) /\ Len(found[n]) <= max_items
    /\ mdns_find_services_by_type(reg, t, d, max_items) = found[Len(reg)]

(* There is such a search. *)
LEMMA SearchByType ==
    ASSUME NEW reg, Len(reg) \in Nat, NEW t, NEW d, NEW max_items \in Nat
    PROVE  \E found : IsSearch(found, reg, t, d, max_items)
<1> DEFINE m == Len(reg)
           M == Matching(reg, t, d)
           S == {s \in Seq(M) : Len(s) <= max_items}
           turn(s, k) == WithService(s, reg[k], t, d, max_items)
           step == [s \in S |-> [k \in 1 .. m |-> turn(s, k)]]
           Body(f) == [n \in 0 .. m |-> IF n = 0 THEN << >> ELSE turn(f[n - 1], n)]
           found == CHOOSE f : f = Body(f)
<1>1. << >> \in S
  BY EmptySeq
<1>2. ASSUME NEW s \in S, NEW k \in 1 .. m PROVE turn(s, k) \in S
  <2>1. CASE /\ Len(s) < max_items
             /\ StrCaseEq(reg[k].service_type, t) /\ StrCaseEq(reg[k].domain, d)
    <3>1. reg[k] \in M
      BY <2>1 DEF Matching
    <3> HIDE DEF M
    <3>2. Append(s, reg[k]) \in Seq(M) /\ Len(Append(s, reg[k])) = Len(s) + 1 /\ Len(s) \in Nat
      BY <3>1, AppendProperties, LenProperties
    <3> QED
      BY <2>1, <3>2 DEF WithService
  <2>2. CASE ~ (/\ Len(s) < max_items
                /\ StrCaseEq(reg[k].service_type, t) /\ StrCaseEq(reg[k].domain, d))
    BY <2>2 DEF WithService
  <2> QED
    BY <2>1, <2>2
<1>3. /\ step \in [S -> [1 .. m -> S]]
      /\ \A s \in S, k \in 1 .. m : step[s][k] = turn(s, k)
  BY <1>2
<1> HIDE DEF step, S, turn
<1>4. PICK f \in [0 .. m -> S] : IsLoop(f, << >>, step, m)
  BY <1>1, <1>3, CountedRecursion
<1>5. f = Body(f)
  <2>1. \A n \in 0 .. m : f[n] = IF n = 0 THEN << >> ELSE turn(f[n - 1], n)
    <3> TAKE n \in 0 .. m
    <3>1. CASE n = 0
      BY <3>1, <1>4 DEF IsLoop
    <3>2. CASE n # 0
      <4>1. n \in 1 .. m /\ n - 1 \in 0 .. m
        BY <3>2
      <4> QED
        BY <3>2, <4>1, <1>3, <1>4 DEF IsLoop
    <3> QED
      BY <3>1, <3>2
  <2>2. f = [n \in 0 .. m |-> f[n]]
    OBVIOUS
  <2> QED
    BY <2>1, <2>2, Zenon
<1>6. found = Body(found)
  BY <1>5
<1> HIDE DEF found
<1>7. /\ found[0] = << >>
      /\ \A n \in 1 .. m : found[n] = turn(found[n - 1], n)
  <2>1. \A n \in 1 .. m : n \in 0 .. m /\ n # 0
    OBVIOUS
  <2> QED
    BY <1>6, <2>1
<1>8. \A n \in 0 .. m : found[n] \in S
  <2> TAKE n \in 0 .. m
  <2>1. n \in Nat /\ \A k \in 1 .. n : k \in 1 .. m
    OBVIOUS
  <2>2. \A k \in 1 .. n : found[k - 1] \in S => found[k] \in S
    BY <1>2, <1>7, <2>1
  <2>3. found[0] \in S
    BY <1>1, <1>7
  <2> QED
    BY <2>1, <2>2, <2>3, LoopKeeps, Zenon
<1>9. mdns_find_services_by_type(reg, t, d, max_items) = found[m]
  BY DEF mdns_find_services_by_type, found, turn
<1>10. IsSearch(found, reg, t, d, max_items)
  BY <1>7, <1>8, <1>9 DEF IsSearch, S, turn
<1> QED
  BY <1>10

(* mdns_find_services_by_type finds only services of the list that have    *)
(* the type and the domain asked for, and no more than the array holds.    *)
LEMMA FoundByType ==
    ASSUME NEW reg, Len(reg) \in Nat, NEW t, NEW d, NEW max_items \in Nat
    PROVE  /\ mdns_find_services_by_type(reg, t, d, max_items) \in Seq(Matching(reg, t, d))
           /\ Len(mdns_find_services_by_type(reg, t, d, max_items)) <= max_items
<1>1. PICK found : IsSearch(found, reg, t, d, max_items)
  BY SearchByType
<1> QED
  BY <1>1 DEF IsSearch

(* Lower-casing two strings in a row is lower-casing each. *)
LEMMA FoldedOfConcat ==
    ASSUME NEW a \in String, NEW b \in String
    PROVE  Folded(a \o b) = Folded(a) \o Folded(b)
<1>1. \A s \in String : /\ s \in Seq(Token) /\ Len(s) \in Nat
                        /\ Folded(s) \in Seq(Token) /\ Len(Folded(s)) = Len(s)
                        /\ \A i \in 1 .. Len(s) : Folded(s)[i] = Lower[s[i]]
  BY FoldedEquations, LenProperties DEF Folded, String
<1>2. /\ a \o b \in String /\ Len(a \o b) = Len(a) + Len(b)
      /\ \A i \in 1 .. Len(a) + Len(b) :
            (a \o b)[i] = IF i <= Len(a) THEN a[i] ELSE b[i - Len(a)]
  BY <1>1, ConcatProperties DEF String
<1>3. /\ Folded(a) \o Folded(b) \in Seq(Token) /\ Len(Folded(a) \o Folded(b)) = Len(a) + Len(b)
      /\ \A i \in 1 .. Len(a) + Len(b) :
            (Folded(a) \o Folded(b))[i] = IF i <= Len(a) THEN Folded(a)[i] ELSE Folded(b)[i - Len(a)]
  <2> DEFINE x == Folded(a)
             y == Folded(b)
  <2>1. x \in Seq(Token) /\ y \in Seq(Token) /\ Len(x) = Len(a) /\ Len(y) = Len(b)
    BY <1>1
  <2> HIDE DEF x, y
  <2>2. /\ x \o y \in Seq(Token) /\ Len(x \o y) = Len(x) + Len(y)
        /\ \A i \in 1 .. Len(x) + Len(y) : (x \o y)[i] = IF i <= Len(x) THEN x[i] ELSE y[i - Len(x)]
    BY <2>1, ConcatProperties
  <2> QED
    BY <2>1, <2>2 DEF x, y
<1>4. \A i \in 1 .. Len(a) + Len(b) : Folded(a \o b)[i] = (Folded(a) \o Folded(b))[i]
  <2> TAKE i \in 1 .. Len(a) + Len(b)
  <2>1. Folded(a \o b)[i] = Lower[(a \o b)[i]]
    BY <1>1, <1>2
  <2>2. CASE i <= Len(a)
    <3>1. i \in 1 .. Len(a)
      BY <1>1, <2>2
    <3> QED
      BY <3>1, <2>1, <2>2, <1>1, <1>2, <1>3
  <2>3. CASE ~ (i <= Len(a))
    <3>1. i - Len(a) \in 1 .. Len(b)
      BY <1>1, <2>3
    <3> QED
      BY <3>1, <2>1, <2>3, <1>1, <1>2, <1>3
  <2> QED
    BY <2>2, <2>3
<1>5. Folded(a \o b) \in Seq(Token) /\ Len(Folded(a \o b)) = Len(a) + Len(b)
  BY <1>1, <1>2
<1> QED
  BY <1>3, <1>4, <1>5, SeqEqual

(* A name that parse_service_type_query takes is its type, a dot, and a    *)
(* domain.                                                                 *)
LEMMA NameInParts ==
    ASSUME NEW q \in String, HasServiceType(q)
    PROVE  /\ TypePart(q) \in String /\ SubSeq(q, 5, Len(q)) \in String
           /\ q = (TypePart(q) \o <<Dot>>) \o SubSeq(q, 5, Len(q))
<1> DEFINE n == Len(q)
           a == SubSeq(q, 1, 3)
           r == SubSeq(q, 5, n)
           d == <<Dot>>
<1>1. q \in Seq(Token) /\ n \in Nat /\ n >= 4 /\ q[4] = Dot /\ \A i \in 1 .. n : q[i] \in Token
  BY LenProperties, ElementOfSeq DEF HasServiceType, String
<1>2. /\ a \in Seq(Token) /\ Len(a) = 3 /\ \A i \in 1 .. 3 : a[i] = q[i]
  <2>1. \A i \in 1 .. 3 : q[i] \in Token
    BY <1>1
  <2>2. /\ SubSeq(q, 1, 3) \in Seq(Token)
        /\ Len(SubSeq(q, 1, 3)) = IF 1 <= 3 THEN 3 - 1 + 1 ELSE 0
        /\ \A i \in 1 .. 3 - 1 + 1 : SubSeq(q, 1, 3)[i] = q[1 + i - 1]
    BY <1>1, <2>1, SubSeqProperties
  <2>3. \A i \in 1 .. 3 : i \in 1 .. 3 - 1 + 1 /\ 1 + i - 1 = i
    OBVIOUS
  <2> QED
    BY <2>2, <2>3
<1>3. /\ r \in Seq(Token) /\ Len(r) = n - 4 /\ \A i \in 1 .. n - 4 : r[i] = q[i + 4]
  <2>1. \A i \in 5 .. n : q[i] \in Token
    BY <1>1
  <2>2. /\ SubSeq(q, 5, n) \in Seq(Token)
        /\ Len(SubSeq(q, 5, n)) = IF 5 <= n THEN n - 5 + 1 ELSE 0
        /\ \A i \in 1 .. n - 5 + 1 : SubSeq(q, 5, n)[i] = q[5 + i - 1]
    BY <1>1, <2>1, SubSeqProperties
  <2>3. \A i \in 1 .. n - 4 : i \in 1 .. n - 5 + 1 /\ 5 + i - 1 = i + 4
    BY <1>1
  <2>4. n \in Nat /\ n >= 4
    BY <1>1
  <2> HIDE DEF n
  <2>5. (IF 5 <= n THEN n - 5 + 1 ELSE 0) = n - 4
    BY <2>4
  <2> QED
    BY <2>2, <2>3, <2>5
<1>4. d \in Seq(Token) /\ Len(d) = 1 /\ d[1] = Dot
  BY NamesAssumption
<1> HIDE DEF a, r, d, n
<1>5. /\ a \o d \in Seq(Token) /\ Len(a \o d) = 4
      /\ \A i \in 1 .. 4 : (a \o d)[i] = IF i <= 3 THEN a[i] ELSE d[i - 3]
  <2>1. /\ a \o d \in Seq(Token) /\ Len(a \o d) = Len(a) + Len(d)
        /\ \A i \in 1 .. Len(a) + Len(d) : (a \o d)[i] = IF i <= Len(a) THEN a[i] ELSE d[i - Len(a)]
    BY <1>2, <1>4, ConcatProperties
  <2> QED
    BY <1>2, <1>4, <2>1
<1>6. \A i \in 1 .. 4 : (a \o d)[i] = q[i]
  <2> TAKE i \in 1 .. 4
  <2>1. i \in 1 .. 3 \/ i = 4
    OBVIOUS
  <2> QED
    BY <2>1, <1>1, <1>2, <1>4, <1>5, SMTT(60)
<1> DEFINE b == a \o d
<1>7. b \in Seq(Token) /\ Len(b) = 4 /\ \A i \in 1 .. 4 : b[i] = q[i]
  BY <1>5, <1>6
<1> HIDE DEF b
<1>8. /\ b \o r \in Seq(Token) /\ Len(b \o r) = Len(b) + Len(r)
      /\ \A i \in 1 .. Len(b) + Len(r) : (b \o r)[i] = IF i <= Len(b) THEN b[i] ELSE r[i - Len(b)]
  <2>1. b \in Seq(Token) /\ r \in Seq(Token)
    BY <1>3, <1>7
  <2> QED
    BY <2>1, ConcatProperties
<1>9. Len(b \o r) = n /\ \A i \in 1 .. n : (b \o r)[i] = q[i]
  <2>1. Len(b) + Len(r) = n
    BY <1>1, <1>3, <1>7
  <2>2. \A i \in 1 .. n : (b \o r)[i] = q[i]
    <3> TAKE i \in 1 .. n
    <3>1. CASE i \in 1 .. 4
      BY <3>1, <2>1, <1>7, <1>8
    <3>2. CASE i \notin 1 .. 4
      <4>1. i - 4 \in 1 .. n - 4 /\ (i - 4) + 4 = i /\ ~ (i <= 4)
        BY <3>2, <1>1
      <4> QED
        BY <4>1, <2>1, <1>3, <1>7, <1>8
    <3> QED
      BY <3>1, <3>2
  <2> QED
    BY <2>1, <2>2, <1>8
<1>10. b \o r = q
  BY <1>1, <1>8, <1>9, SeqEqual DEF n
<1> QED
  BY <1>2, <1>3, <1>10 DEF a, b, r, d, n, TypePart, String

(* A service found by type is, label by label, of the type that the text   *)
(* of the question names: parse_service_type_query and strcasecmp agree    *)
(* with DNS.                                                               *)
LEMMA TypeIsDnsType ==
    ASSUME NEW svc, svc.service_type \in String, svc.domain \in String,
           NEW q \in String, HasServiceType(q),
           StrCaseEq(svc.service_type, TypePart(q)), StrCaseEq(svc.domain, DomainPart(q))
    PROVE  IsOfType(svc, TextToWire(q))
<1> DEFINE a == TypePart(q)
           r == SubSeq(q, 5, Len(q))
           d == <<Dot>>
           labels == TextToWire(q)
<1>2. a \in String /\ r \in String /\ q = (a \o d) \o r
  BY NameInParts
<1>3. d \in String /\ a \o d \in String /\ TextToWire(d) = << >>
  <2>1. << >> \in String /\ Dot \in Token /\ d = Append(<< >>, Dot) /\ d \in String
    BY NamesAssumption, EmptySeq DEF String
  <2>2. TextToWire(Append(<< >>, Dot)) = << >>
    BY <2>1, TextToWireEquations DEF WithToken
  <2>3. a \o d \in Seq(Token)
    BY <1>2, <2>1, ConcatProperties DEF String
  <2> QED
    BY <2>1, <2>2, <2>3 DEF String
<1>4. StrCaseEq(svc.domain, StripTrailingDot(r)) /\ StrCaseEq(svc.service_type, a)
  BY DEF DomainPart
<1> HIDE DEF a, r, d
<1> DEFINE x == TextToWire(a)
           y == TextToWire(r)
           u == TextToWire(svc.service_type)
           v == TextToWire(svc.domain)
<1>5. x \in String /\ y \in String /\ u \in String /\ v \in String
  <2>1. \A s \in String : TextToWire(s) \in String
    BY TextToWireEquations, TextToWireOfLabels
  <2> QED
    BY <2>1, <1>2
<1>6. labels = x \o y
  <2>1. TextToWire((a \o d) \o r) = TextToWire(a \o d) \o y
    BY <1>2, <1>3, TextToWireOfConcat
  <2>2. TextToWire(a \o d) = x \o << >>
    BY <1>2, <1>3, TextToWireOfConcat, ZenonT(60)
  <2>3. x \o << >> = x
    BY <1>5, ConcatEmptySeq DEF String
  <2> QED
    BY <1>2, <2>1, <2>2, <2>3
<1>7. Folded(u) = Folded(x)
  BY <1>2, <1>4, TextToWireRespectsCase
<1>8. Folded(v) = Folded(y)
  <2>1. StripTrailingDot(r) \in String /\ TextToWire(StripTrailingDot(r)) = y
    BY <1>2, TextToWireOfStripped
  <2>2. Folded(v) = Folded(TextToWire(StripTrailingDot(r)))
    BY <1>4, <2>1, TextToWireRespectsCase
  <2> QED
    BY <2>1, <2>2
<1> HIDE DEF x, y, u, v, labels
<1>9. Folded(x \o y) = Folded(x) \o Folded(y) /\ Folded(u \o v) = Folded(u) \o Folded(v)
  BY <1>5, FoldedOfConcat
<1> QED
  BY <1>6, <1>7, <1>8, <1>9 DEF IsOfType, u, v, labels

(* The services a registry may hold, as far as its names go. *)
Findable(svc) ==
    /\ svc.instance \in String /\ svc.service_type \in String /\ svc.domain \in String
    /\ StrCaseEq(svc.domain, Local)

(* A service asked for: of the type, or of the whole name, that a text is. *)
IsAskedFor(svc, q) ==
    IsOfType(svc, TextToWire(q)) \/ SameLabels(TextToWire(q), Fqdn(svc))
AskedFor(reg, q) == {reg[k] : k \in {j \in 1 .. Len(reg) : IsAskedFor(reg[j], q)}}

(* The name of a service is a string. *)
LEMMA FqdnIsString ==
    ASSUME NEW svc, svc.instance \in String, svc.service_type \in String, svc.domain \in String
    PROVE  Fqdn(svc) \in String
<1> DEFINE i == svc.instance
           s == svc.service_type
           d == <<Dot>>
           e == svc.domain
<1>1. i \in Seq(Token) /\ s \in Seq(Token) /\ d \in Seq(Token) /\ e \in Seq(Token)
  BY NamesAssumption DEF String
<1> HIDE DEF i, s, d, e
<1>2. i \o d \in Seq(Token)
  BY <1>1, ConcatProperties
<1>3. (i \o d) \o s \in Seq(Token)
  BY <1>1, <1>2, ConcatProperties
<1>4. ((i \o d) \o s) \o d \in Seq(Token)
  BY <1>1, <1>3, ConcatProperties
<1>5. (((i \o d) \o s) \o d) \o e \in Seq(Token)
  BY <1>1, <1>4, ConcatProperties
<1> QED
  BY <1>5 DEF i, s, d, e, String, Fqdn

(* Every service found for the name of a question is one of the list, and  *)
(* was asked for.                                                          *)
LEMMA FoundIsSound ==
    ASSUME NEW reg, Len(reg) \in Nat, DOMAIN reg = 1 .. Len(reg),
           \A k \in 1 .. Len(reg) : Findable(reg[k]),
           NEW q \in String
    PROVE  Found(reg, q) \in Seq(AskedFor(reg, q))
<1> DEFINE Right == AskedFor(reg, q)
           n == CHOOSE k \in Named(reg, q) : TRUE
<1>1. MAX_FOUND \in Nat /\ << >> \in Seq(Right)
  BY QuestionsAssumption, EmptySeq
<1>2. CASE is_general_service_query(q) /\ HasServiceType(q)
  <2> DEFINE M == Matching(reg, TypePart(q), DomainPart(q))
             f == mdns_find_services_by_type(reg, TypePart(q), DomainPart(q), MAX_FOUND)
  <2>1. f \in Seq(M)
    BY <1>1, FoundByType
  <2>2. M \subseteq Right
    <3> SUFFICES ASSUME NEW j \in 1 .. Len(reg),
                        StrCaseEq(reg[j].service_type, TypePart(q)),
                        StrCaseEq(reg[j].domain, DomainPart(q))
                 PROVE  IsOfType(reg[j], TextToWire(q))
      BY DEF Matching, AskedFor, IsAskedFor
    <3>1. Findable(reg[j])
      OBVIOUS
    <3> QED
      BY <1>2, <3>1, TypeIsDnsType DEF Findable
  <2>3. Found(reg, q) = f
    BY <1>2 DEF Found, OfType
  <2> HIDE DEF M, f, Right
  <2>4. f \in Seq(Right)
    BY <2>1, <2>2, SeqMonotonic
  <2> QED
    BY <2>3, <2>4 DEF Right
<1>3. CASE is_general_service_query(q) /\ ~ HasServiceType(q)
  BY <1>1, <1>3 DEF Found, OfType
<1>4. CASE ~ is_general_service_query(q) /\ Named(reg, q) = {}
  BY <1>1, <1>4 DEF Found
<1>5. CASE ~ is_general_service_query(q) /\ Named(reg, q) # {}
  <2>1. Found(reg, q) = <<reg[n]>> /\ n \in Named(reg, q)
    BY <1>5 DEF Found
  <2> HIDE DEF n
  <2>2. n \in 1 .. Len(reg) /\ StrCaseEq(q, Fqdn(reg[n]))
    BY <2>1 DEF Named, FindsByFqdn, HasName
  <2>3. Findable(reg[n])
    BY <2>2
  <2>4. Fqdn(reg[n]) \in String
    BY <2>3, FqdnIsString DEF Findable
  <2>5. SameLabels(TextToWire(q), Fqdn(reg[n]))
    BY <2>2, <2>4, TextToWireRespectsCase DEF SameLabels
  <2>6. reg[n] \in Right
    BY <2>2, <2>5 DEF AskedFor, IsAskedFor
  <2> HIDE DEF Right
  <2>7. <<reg[n]>> \in Seq(Right)
    BY <2>6
  <2> QED
    BY <2>1, <2>7 DEF Right
<1> QED
  BY <1>2, <1>3, <1>4, <1>5

(* The host's name found in a question is the host's name to DNS. *)
LEMMA LookupIsDnsName ==
    ASSUME NEW q \in String, NEW hostname \in String, hostdb_lookup(q, hostname)
    PROVE  SameLabels(TextToWire(q), hostname)
<1>1. StripTrailingDot(q) \in String /\ TextToWire(StripTrailingDot(q)) = TextToWire(q)
  BY TextToWireOfStripped
<1>2. StrCaseEq(StripTrailingDot(q), hostname)
  BY DEF hostdb_lookup
<1> QED
  BY <1>1, <1>2, TextToWireRespectsCase DEF SameLabels

-----------------------------------------------------------------------------
(* Answers. *)

(* The bytes of a name are a number of bytes. *)
LEMMA EncodedLenType ==
    ASSUME NEW s \in String
    PROVE  EncodedLen(s) \in Nat
<1>1. TextToWire(s) \in String
  BY TextToWireEquations, TextToWireOfLabels
<1>2. StrLen(TextToWire(s)) \in Nat /\ Len(TextToWire(s)) \in Nat
  BY <1>1, StrLenEquations, LenProperties DEF String
<1> QED
  BY <1>2 DEF EncodedLen

(* A service that a response can be built from: its names are strings, and *)
(* its TXT strings have lengths.                                           *)
IsDescribed(svc) ==
    /\ svc.instance \in String /\ svc.service_type \in String /\ svc.domain \in String
    /\ svc.target_host \in String
    /\ svc.txt_kv \in Seq(DOMAIN TxtOctets) \cup {NULL}

(* Its name is a string. *)
LEMMA FqdnType ==
    ASSUME NEW svc, IsDescribed(svc)
    PROVE  Fqdn(svc) \in String
BY FqdnIsString DEF IsDescribed

(* The bytes of its TXT record are a number. *)
LEMMA TxtBytesType ==
    ASSUME NEW svc, svc.txt_kv \in Seq(DOMAIN TxtOctets) \cup {NULL}
    PROVE  TxtBytes(svc) \in Nat
<1> DEFINE txt == IF HasTxt(svc) THEN svc.txt_kv ELSE << >>
           m == Len(txt)
           cost(n) == MinOf(TxtOctets[txt[n]], MAX_TXT)
           step == [x \in Nat |-> [n \in 1 .. m |-> x + 1 + cost(n)]]
           Body(f) == [n \in 0 .. m |-> IF n = 0 THEN 0 ELSE f[n - 1] + 1 + cost(n)]
           sum == CHOOSE f : f = Body(f)
<1>1. txt \in Seq(DOMAIN TxtOctets) /\ m \in Nat
  <2>1. txt \in Seq(DOMAIN TxtOctets)
    BY EmptySeq DEF HasTxt
  <2> HIDE DEF txt
  <2> QED
    BY <2>1, LenProperties
<1>2. \A n \in 1 .. m : cost(n) \in Nat
  <2> TAKE n \in 1 .. m
  <2>1. txt[n] \in DOMAIN TxtOctets
    BY <1>1, ElementOfSeq
  <2>2. TxtOctets[txt[n]] \in Nat /\ MAX_TXT \in Nat
    BY <2>1, AnswersAssumption
  <2> QED
    BY <2>2 DEF MinOf
<1> HIDE DEF txt, m, cost
<1>3. /\ step \in [Nat -> [1 .. m -> Nat]]
      /\ \A x \in Nat, n \in 1 .. m : step[x][n] = x + 1 + cost(n)
  BY <1>2
<1> HIDE DEF step
<1>4. PICK f \in [0 .. m -> Nat] : IsLoop(f, 0, step, m)
  BY <1>1, <1>3, CountedRecursion
<1>5. f = Body(f)
  <2>1. \A n \in 0 .. m : f[n] = IF n = 0 THEN 0 ELSE f[n - 1] + 1 + cost(n)
    <3> TAKE n \in 0 .. m
    <3>1. CASE n = 0
      BY <3>1, <1>4 DEF IsLoop
    <3>2. CASE n # 0
      <4>1. n \in 1 .. m /\ n - 1 \in 0 .. m
        BY <1>1, <3>2
      <4> QED
        BY <3>2, <4>1, <1>3, <1>4 DEF IsLoop
    <3> QED
      BY <3>1, <3>2
  <2>2. f = [n \in 0 .. m |-> f[n]]
    OBVIOUS
  <2> QED
    BY <2>1, <2>2, Zenon
<1>6. sum = Body(sum)
  BY <1>5
<1> HIDE DEF sum
<1>7. sum[0] \in Nat
  BY <1>1, <1>6
<1>8. \A k \in 1 .. m : sum[k - 1] \in Nat => sum[k] \in Nat
  <2> TAKE k \in 1 .. m
  <2>1. k \in 0 .. m /\ k # 0
    BY <1>1
  <2>2. sum[k] = sum[k - 1] + 1 + cost(k) /\ cost(k) \in Nat
    BY <1>2, <1>6, <2>1
  <2> QED
    BY <2>2
<1>9. sum[m] \in Nat
  BY <1>1, <1>7, <1>8, LoopKeeps
<1>10. TxtBytes(svc) = IF HasTxt(svc) THEN sum[m] ELSE 1
  BY DEF TxtBytes, sum, m, cost, txt
<1> QED
  BY <1>9, <1>10

(* The turn of the loop for a service adds only records of that service.   *)
LEMMA WithAnswerType ==
    ASSUME NEW n \in Nat, NEW k \in 1 .. n, NEW svc, IsDescribed(svc), NEW out_len \in Nat,
           NEW w \in [at : Nat, ended : BOOLEAN, records : Seq((1 .. n) \X {"SRV", "TXT"})]
    PROVE  WithAnswer(w, k, svc, out_len)
             \in [at : Nat, ended : BOOLEAN, records : Seq((1 .. n) \X {"SRV", "TXT"})]
<1> DEFINE R == (1 .. n) \X {"SRV", "TXT"}
           srv == Append(w.records, <<k, "SRV">>)
           both == Append(srv, <<k, "TXT">>)
           mid == SrvEnd(svc, w.at)
<1>1. w.at \in Nat /\ w.ended \in BOOLEAN /\ w.records \in Seq(R)
  OBVIOUS
<1>2. <<k, "SRV">> \in R /\ <<k, "TXT">> \in R
  OBVIOUS
<1>3. Fqdn(svc) \in String
  BY FqdnType
<1>4. EncodedLen(Fqdn(svc)) \in Nat /\ EncodedLen(svc.target_host) \in Nat /\ TxtBytes(svc) \in Nat
  BY <1>3, EncodedLenType, TxtBytesType DEF IsDescribed
<1>5. mid \in Nat
  BY <1>1, <1>4 DEF SrvEnd, HeaderEnd
<1>6. TxtEnd(svc, mid) \in Nat
  BY <1>4, <1>5 DEF TxtEnd, HeaderEnd
<1> HIDE DEF R
<1>7. srv \in Seq(R)
  BY <1>1, <1>2, AppendProperties
<1>8. both \in Seq(R)
  <2> HIDE DEF srv
  <2> QED
    BY <1>2, <1>7, AppendProperties
<1>9. WithAnswer(w, k, svc, out_len) \in
         {w, [w EXCEPT !.ended = TRUE], [at |-> mid, ended |-> TRUE, records |-> srv],
          [at |-> TxtEnd(svc, mid), ended |-> FALSE, records |-> both]}
  BY DEF WithAnswer
<1> DEFINE end == TxtEnd(svc, mid)
           Q == Seq(R)
           W == [at : Nat, ended : BOOLEAN, records : Q]
<1> HIDE DEF mid, srv, both, end, Q
<1>10. [w EXCEPT !.ended = TRUE] \in W
  BY DEF Q, R
<1>11. /\ [at |-> mid, ended |-> TRUE, records |-> srv] \in W
       /\ [at |-> end, ended |-> FALSE, records |-> both] \in W
  <2>1. mid \in Nat /\ end \in Nat /\ srv \in Q /\ both \in Q
    BY <1>5, <1>6, <1>7, <1>8 DEF end, Q
  <2> QED
    BY <2>1
<1>12. w \in W
  BY DEF Q, R
<1> HIDE DEF W
<1>13. WithAnswer(w, k, svc, out_len) \in W
  BY <1>9, <1>10, <1>11, <1>12 DEF end
<1> QED
  BY <1>13 DEF W, Q, R

(* after[k] is what mdns_build_service_response has after k services: it   *)
(* holds records of those services, and of no other.                       *)
IsWriting(after, qname, svcs, out_len) ==
    /\ after[0] = [at |-> QuestionEnd(qname), ended |-> FALSE, records |-> << >>]
    /\ \A k \in 1 .. Len(svcs) : after[k] = WithAnswer(after[k - 1], k, svcs[k], out_len)
    /\ \A k \in 0 .. Len(svcs) :
          after[k] \in [at : Nat, ended : BOOLEAN,
                        records : Seq((1 .. Len(svcs)) \X {"SRV", "TXT"})]
    /\ Answered(qname, svcs, out_len) =
          IF QuestionFits(qname, out_len) THEN after[Len(svcs)].records ELSE << >>

(* The loop writes something for every list of services. *)
LEMMA AnswersWritten ==
    ASSUME NEW qname \in String, NEW svcs, Len(svcs) \in Nat, NEW out_len \in Nat,
           \A k \in 1 .. Len(svcs) : IsDescribed(svcs[k])
    PROVE  \E after : IsWriting(after, qname, svcs, out_len)
<1> DEFINE m == Len(svcs)
           R == Seq((1 .. m) \X {"SRV", "TXT"})
           S == [at : Nat, ended : BOOLEAN, records : R]
           base == [at |-> QuestionEnd(qname), ended |-> FALSE, records |-> << >>]
           turn(w, k) == WithAnswer(w, k, svcs[k], out_len)
           step == [w \in S |-> [k \in 1 .. m |-> turn(w, k)]]
           Body(f) == [k \in 0 .. m |-> IF k = 0 THEN base ELSE turn(f[k - 1], k)]
           after == CHOOSE f : f = Body(f)
<1>1. base \in S
  <2>1. QuestionEnd(qname) \in Nat
    BY EncodedLenType DEF QuestionEnd, HEADER
  <2>2. << >> \in R
    BY EmptySeq
  <2> HIDE DEF R
  <2> QED
    BY <2>1, <2>2
<1>2. ASSUME NEW w \in S, NEW k \in 1 .. m PROVE turn(w, k) \in S
  <2>1. IsDescribed(svcs[k]) /\ m \in Nat
    OBVIOUS
  <2> QED
    BY <2>1, WithAnswerType
<1> HIDE DEF base, turn, S, m
<1>3. /\ step \in [S -> [1 .. m -> S]]
      /\ \A w \in S, k \in 1 .. m : step[w][k] = turn(w, k)
  BY <1>2
<1> HIDE DEF step
<1>0. m \in Nat
  BY DEF m
<1>4. PICK f \in [0 .. m -> S] : IsLoop(f, base, step, m)
  BY <1>0, <1>1, <1>3, CountedRecursion
<1>5. f = Body(f)
  <2>1. \A k \in 0 .. m : f[k] = IF k = 0 THEN base ELSE turn(f[k - 1], k)
    <3> TAKE k \in 0 .. m
    <3>1. CASE k = 0
      BY <3>1, <1>4 DEF IsLoop
    <3>2. CASE k # 0
      <4>1. k \in 1 .. m /\ k - 1 \in 0 .. m
        BY <1>0, <3>2
      <4> QED
        BY <3>2, <4>1, <1>3, <1>4 DEF IsLoop
    <3> QED
      BY <3>1, <3>2
  <2>2. f = [k \in 0 .. m |-> f[k]]
    OBVIOUS
  <2> QED
    BY <2>1, <2>2, Zenon
<1>6. after = Body(after)
  BY <1>5
<1> HIDE DEF after
<1>7. /\ after[0] = base
      /\ \A n \in 1 .. m : after[n] = turn(after[n - 1], n)
  <2>1. 0 \in 0 .. m /\ \A n \in 1 .. m : n \in 0 .. m /\ n # 0
    BY <1>0
  <2> QED
    BY <1>6, <2>1
<1>8. \A n \in 0 .. m : after[n] \in S
  <2> TAKE n \in 0 .. m
  <2>1. n \in Nat /\ \A k \in 1 .. n : k \in 1 .. m
    BY <1>0
  <2>2. \A k \in 1 .. n : after[k - 1] \in S => after[k] \in S
    BY <1>2, <1>7, <2>1
  <2>3. after[0] \in S
    BY <1>1, <1>7
  <2> QED
    BY <2>1, <2>2, <2>3, LoopKeeps, Zenon
<1>9. Answered(qname, svcs, out_len) =
         IF QuestionFits(qname, out_len) THEN after[m].records ELSE << >>
  BY DEF Answered, after, turn, base, m
<1>10. IsWriting(after, qname, svcs, out_len)
  BY <1>7, <1>8, <1>9 DEF IsWriting, S, R, turn, base, m
<1> QED
  BY <1>10

(* A response holds records of the services found, and of no other. *)
LEMMA AnsweredType ==
    ASSUME NEW qname \in String, NEW svcs, Len(svcs) \in Nat, NEW out_len \in Nat,
           \A k \in 1 .. Len(svcs) : IsDescribed(svcs[k])
    PROVE  Answered(qname, svcs, out_len) \in Seq((1 .. Len(svcs)) \X {"SRV", "TXT"})
<1> DEFINE R == Seq((1 .. Len(svcs)) \X {"SRV", "TXT"})
<1>1. PICK after : IsWriting(after, qname, svcs, out_len)
  BY AnswersWritten
<1>2. after[Len(svcs)].records \in R
  <2>1. Len(svcs) \in 0 .. Len(svcs)
    OBVIOUS
  <2>2. after[Len(svcs)] \in [at : Nat, ended : BOOLEAN, records : R]
    BY <1>1, <2>1 DEF IsWriting
  <2> HIDE DEF R
  <2> QED
    BY <2>2
<1>3. << >> \in R
  BY EmptySeq
<1> QED
  BY <1>1, <1>2, <1>3 DEF IsWriting

-----------------------------------------------------------------------------
(* Completeness: what can be answered is. *)

(* A dot stands behind a label only, and a label behind a dot only. *)
IsShaped(s) ==
    /\ IsText(s)
    /\ \A i \in 1 .. Len(s) : s[i] = Dot => i > 1 /\ s[i - 1] # Dot

(* Such a text is what its labels are written as, up to the dot at its end. *)
LEMMA WireToTextOfText ==
    ASSUME NEW s \in String, IsShaped(s)
    PROVE  WireToText(TextToWire(s)) = IF s = << >> \/ Last(s) = Dot THEN s ELSE Append(s, Dot)
<1> DEFINE Good(v) == WireToText(TextToWire(v)) = IF v = << >> \/ Last(v) = Dot THEN v ELSE Append(v, Dot)
           P == {v \in String : IsShaped(v) => Good(v)}
<1>1. << >> \in P
  BY EmptySeq, TextToWireEquations, WireToTextEquations DEF String
<1>2. ASSUME NEW v \in String, NEW t \in Token, IsShaped(v) => Good(v), IsShaped(Append(v, t))
      PROVE  Good(Append(v, t))
  <2> DEFINE u == Append(v, t)
             n == Len(v)
  <2>1. /\ u \in String /\ Len(u) = n + 1 /\ n \in Nat /\ u # << >> /\ Last(u) = t
        /\ u[n + 1] = t /\ \A i \in 1 .. n : u[i] = v[i]
    BY AppendProperties, LenProperties, FrontLastOfAppend DEF String
  <2>2. n = 0 <=> v = << >>
    BY EmptySeq DEF String
  <2>3. v # << >> => Last(v) = v[n]
    BY DEF Last
  <2> HIDE DEF u, n
  <2>4. IsShaped(u)
    BY <1>2 DEF u
  <2>5. IsShaped(v)
    <3>1. \A i \in 1 .. n : i \in 1 .. Len(u) /\ i - 1 \in 0 .. n
      BY <2>1
    <3>2. \A i \in 2 .. n : i \in 2 .. Len(u) /\ i \in 1 .. n /\ i - 1 \in 1 .. n
      BY <2>1
    <3>3. IsText(v)
      BY <2>1, <2>4, <3>2 DEF IsShaped, IsText, n
    <3>4. ASSUME NEW i \in 1 .. n, v[i] = Dot PROVE i > 1 /\ v[i - 1] # Dot
      <4>1. i > 1 /\ u[i - 1] # Dot
        BY <2>1, <2>4, <3>1, <3>4 DEF IsShaped
      <4>2. i - 1 \in 1 .. n
        BY <2>1, <4>1
      <4> QED
        BY <2>1, <4>1, <4>2
    <3> QED
      BY <3>3, <3>4 DEF IsShaped, n
  <2>6. Good(v)
    BY <1>2, <2>5
  <2>7. TextToWire(u) = WithToken(TextToWire(v), t) /\ TextToWire(v) \in Seq(Token)
    BY TextToWireEquations, TextToWireOfLabels DEF u, String
  <2>8. CASE t = Dot
    <3>1. n + 1 > 1 /\ u[n] # Dot
      BY <2>1, <2>4, <2>8 DEF IsShaped
    <3>2. v # << >> /\ Last(v) # Dot
      BY <2>1, <2>2, <2>3, <3>1
    <3>3. WireToText(TextToWire(v)) = Append(v, Dot)
      BY <2>6, <3>2
    <3> QED
      BY <2>1, <2>7, <2>8, <3>3 DEF WithToken, u
  <2>9. CASE t # Dot
    <3>1. v = << >> \/ Last(v) = Dot
      <4>1. CASE n = 0
        BY <2>2, <4>1
      <4>2. CASE n # 0
        <5>1. n + 1 \in 2 .. Len(u) /\ (n + 1) - 1 = n /\ n \in 1 .. n
          BY <2>1, <4>2
        <5>2. Dot \in {u[n], u[n + 1]}
          BY <2>4, <5>1 DEF IsShaped, IsText
        <5> QED
          BY <2>1, <2>2, <2>3, <2>9, <4>2, <5>1, <5>2
      <4> QED
        BY <4>1, <4>2
    <3>2. WireToText(TextToWire(v)) = v
      BY <2>6, <3>1
    <3>3. WireToText(Append(TextToWire(v), t)) = Append(Append(v, t), Dot)
      BY <2>7, <3>2, WireToTextEquations
    <3> QED
      BY <2>1, <2>7, <2>9, <3>3 DEF WithToken, u
  <2> QED
    BY <2>8, <2>9
<1>3. \A v \in Seq(Token), t \in Token : v \in P => Append(v, t) \in P
  <2>1. \A v \in String, t \in Token : Append(v, t) \in String
    BY AppendProperties DEF String
  <2> HIDE DEF Good
  <2> QED
    BY <1>2, <2>1 DEF String
<1> HIDE DEF P
<1>4. Seq(Token) \subseteq P
  BY <1>1, <1>3, SequenceInduction
<1> QED
  BY <1>4 DEF P, String

(* Without a dot at its end it is a name of DNS. *)
LEMMA ShapedIsName ==
    ASSUME NEW s \in String, IsShaped(s), s # << >> => Last(s) # Dot
    PROVE  IsName(s)
<1>1. CASE s = << >>
  <2>1. WireToText(TextToWire(s)) = s
    BY <1>1, WireToTextOfText
  <2> QED
    BY <1>1, <2>1 DEF IsName, StripTrailingDot
<1>2. CASE s # << >>
  <2>1. WireToText(TextToWire(s)) = Append(s, Dot)
    BY <1>2, WireToTextOfText
  <2>2. /\ Append(s, Dot) # << >>
        /\ Front(Append(s, Dot)) = s /\ Last(Append(s, Dot)) = Dot
    BY FrontLastOfAppend, NamesAssumption DEF String
  <2> QED
    BY <2>1, <2>2 DEF IsName, StripTrailingDot
<1> QED
  BY <1>1, <1>2

(* The bytes of the text of a question are those of its labels and dots:   *)
(* a name that DNS allows is accepted.                                     *)
LEMMA StrLenOfWire ==
    ASSUME NEW w \in Seq(Token \ {Dot})
    PROVE  StrLen(WireToText(w)) = StrLen(w) + Len(w)
<1> DEFINE L == Token \ {Dot}
           P == {v \in Seq(L) : StrLen(WireToText(v)) = StrLen(v) + Len(v)}
<1>1. << >> \in P
  <2>1. << >> \in Seq(L) /\ Len(<< >>) = 0
    BY EmptySeq
  <2> QED
    BY <2>1, WireToTextEquations, StrLenEquations
<1>2. ASSUME NEW v \in Seq(L), NEW t \in L, StrLen(WireToText(v)) = StrLen(v) + Len(v)
      PROVE  Append(v, t) \in P
  <2> DEFINE a == WireToText(v)
  <2>1. /\ v \in String /\ Dot \in Token /\ t \in Token /\ Octets[Dot] = 1 /\ Octets[t] \in Nat
        /\ Append(v, t) \in Seq(L) /\ Len(Append(v, t)) = Len(v) + 1 /\ Len(v) \in Nat
    BY SeqMonotonic, AppendProperties, LenProperties, NamesAssumption DEF String
  <2>2. a \in String /\ Append(a, t) \in String
    BY <2>1, WireToTextEquations, AppendProperties DEF String
  <2>3. WireToText(Append(v, t)) = Append(Append(a, t), Dot)
    BY <2>1, WireToTextEquations DEF String
  <2> HIDE DEF a
  <2>4. /\ StrLen(Append(Append(a, t), Dot)) = StrLen(a) + Octets[t] + 1
        /\ StrLen(Append(v, t)) = StrLen(v) + Octets[t]
    BY <2>1, <2>2, StrLenEquations
  <2>5. StrLen(a) \in Nat /\ StrLen(v) \in Nat
    BY <2>1, <2>2, StrLenEquations
  <2>6. StrLen(a) = StrLen(v) + Len(v)
    BY <1>2 DEF a
  <2>7. StrLen(WireToText(Append(v, t))) = StrLen(a) + Octets[t] + 1
    BY <2>3, <2>4
  <2>8. StrLen(WireToText(Append(v, t))) = StrLen(Append(v, t)) + Len(Append(v, t))
    <3> DEFINE x == StrLen(a)
               y == StrLen(v)
               z == Octets[t]
               n == Len(v)
    <3>1. x \in Nat /\ y \in Nat /\ z \in Nat /\ n \in Nat /\ x = y + n
      BY <2>1, <2>5, <2>6
    <3>2. /\ StrLen(WireToText(Append(v, t))) = x + z + 1
          /\ StrLen(Append(v, t)) = y + z /\ Len(Append(v, t)) = n + 1
      BY <2>1, <2>4, <2>7
    <3> HIDE DEF x, y, z, n
    <3> QED
      BY <3>1, <3>2
  <2> QED
    BY <2>1, <2>8
<1>3. \A v \in Seq(L), t \in L : v \in P => Append(v, t) \in P
  BY <1>2
<1> HIDE DEF P, L
<1>4. Seq(L) \subseteq P
  BY <1>1, <1>3, SequenceInduction
<1> QED
  BY <1>4 DEF P, L

(* A question of a name as programs write them is parsed. *)
LEMMA WellFormedIsParsed ==
    ASSUME NEW d, d.labels \in Seq(WireLabel), WellFormed(d)
    PROVE  Parsed(d)
<1> DEFINE w == Bare(d.labels)
<1>1. /\ w \in Seq(Token \ {Dot}) /\ QName(d) = WireToText(w)
      /\ WireLen(d.labels) = StrLen(WireToText(w))
  BY BareQuestion DEF WellFormed
<1>2. d.whole /\ d.qdcount > 0 /\ d.labels # << >> /\ EncodedLen(QName(d)) < NAME_SIZE
  BY DEF WellFormed
<1> HIDE DEF w
<1>3. EncodedLen(QName(d)) = 1 + StrLen(w) + Len(w)
  BY <1>1, TextToWireOfWire DEF EncodedLen
<1>4. StrLen(w) \in Nat /\ Len(w) \in Nat /\ NAME_SIZE \in Nat
  BY <1>1, TextToWireOfLabels, StrLenEquations, LenProperties, NamesAssumption
<1>5. WireLen(d.labels) = StrLen(w) + Len(w)
  BY <1>1, StrLenOfWire
<1>6. WireLen(d.labels) < NAME_SIZE
  BY <1>2, <1>3, <1>4, <1>5
<1> QED
  BY <1>2, <1>6 DEF Parsed, WireNameAccepted

(* In the name of a service its type stands between two dots. *)
LEMMA TypeInFqdn ==
    ASSUME NEW svc, IsDescribed(svc)
    PROVE  \E n \in Nat \ {0} :
              /\ Len(svc.service_type) \in Nat
              /\ n + Len(svc.service_type) + 1 <= Len(Fqdn(svc))
              /\ Len(Fqdn(svc)) \in Nat
              /\ Fqdn(svc)[n] = Dot /\ Fqdn(svc)[n + Len(svc.service_type) + 1] = Dot
              /\ \A i \in 1 .. Len(svc.service_type) : Fqdn(svc)[n + i] = svc.service_type[i]
<1> DEFINE i == svc.instance
           s == svc.service_type
           e == svc.domain
           d == <<Dot>>
           a == i \o d
           b == a \o s
           c == b \o d
           f == c \o e
<1>1. /\ i \in Seq(Token) /\ s \in Seq(Token) /\ e \in Seq(Token)
      /\ d \in Seq(Token) /\ Len(d) = 1 /\ d[1] = Dot
  BY NamesAssumption DEF IsDescribed, String
<1>2. Fqdn(svc) = f
  BY DEF Fqdn
<1> HIDE DEF i, s, e, d
<1>3. /\ a \in Seq(Token) /\ Len(a) = Len(i) + Len(d)
      /\ \A j \in 1 .. Len(i) + Len(d) : a[j] = IF j <= Len(i) THEN i[j] ELSE d[j - Len(i)]
  BY <1>1, ConcatProperties
<1> HIDE DEF a
<1>4. /\ b \in Seq(Token) /\ Len(b) = Len(a) + Len(s)
      /\ \A j \in 1 .. Len(a) + Len(s) : b[j] = IF j <= Len(a) THEN a[j] ELSE s[j - Len(a)]
  <2>1. a \in Seq(Token) /\ s \in Seq(Token)
    BY <1>1, <1>3
  <2> QED
    BY <2>1, ConcatProperties
<1> HIDE DEF b
<1>5. /\ c \in Seq(Token) /\ Len(c) = Len(b) + Len(d)
      /\ \A j \in 1 .. Len(b) + Len(d) : c[j] = IF j <= Len(b) THEN b[j] ELSE d[j - Len(b)]
  <2>1. b \in Seq(Token) /\ d \in Seq(Token)
    BY <1>1, <1>4
  <2> QED
    BY <2>1, ConcatProperties
<1> HIDE DEF c
<1>6. /\ f \in Seq(Token) /\ Len(f) = Len(c) + Len(e)
      /\ \A j \in 1 .. Len(c) + Len(e) : f[j] = IF j <= Len(c) THEN c[j] ELSE e[j - Len(c)]
  <2>1. c \in Seq(Token) /\ e \in Seq(Token)
    BY <1>1, <1>5
  <2> QED
    BY <2>1, ConcatProperties
<1> HIDE DEF f
<1> DEFINE n == Len(a)
           k == Len(s)
<1>7. n \in Nat \ {0} /\ k \in Nat /\ Len(e) \in Nat /\ Len(i) \in Nat /\ n = Len(i) + 1
  <2>1. Len(i) \in Nat /\ Len(s) \in Nat /\ Len(e) \in Nat
    BY <1>1, LenProperties
  <2> QED
    BY <2>1, <1>1, <1>3
<1>8. Len(b) = n + k /\ Len(c) = n + k + 1 /\ Len(f) = n + k + 1 + Len(e)
  BY <1>1, <1>4, <1>5, <1>6, <1>7
<1>9. a[n] = Dot
  <2>1. n \in 1 .. Len(i) + Len(d) /\ ~ (n <= Len(i)) /\ n - Len(i) = 1
    BY <1>1, <1>7
  <2> QED
    BY <2>1, <1>1, <1>3
<1> HIDE DEF n, k
<1>10. \A j \in 1 .. n + k : f[j] = b[j]
  <2> TAKE j \in 1 .. n + k
  <2>1. /\ j \in 1 .. Len(b) + Len(d) /\ j <= Len(b)
        /\ j \in 1 .. Len(c) + Len(e) /\ j <= Len(c)
    BY <1>1, <1>7, <1>8
  <2> QED
    BY <2>1, <1>5, <1>6
<1>11. f[n] = Dot
  <2>1. n \in 1 .. n + k /\ n \in 1 .. Len(a) + Len(s) /\ n <= Len(a)
    BY <1>7 DEF n, k
  <2> QED
    BY <2>1, <1>4, <1>9, <1>10
<1>12. f[n + k + 1] = Dot
  <2>1. /\ n + k + 1 \in 1 .. Len(c) + Len(e) /\ n + k + 1 <= Len(c)
        /\ n + k + 1 \in 1 .. Len(b) + Len(d) /\ ~ (n + k + 1 <= Len(b))
        /\ (n + k + 1) - Len(b) = 1
    BY <1>1, <1>7, <1>8
  <2> QED
    BY <2>1, <1>1, <1>5, <1>6
<1>13. \A j \in 1 .. k : f[n + j] = s[j]
  <2> TAKE j \in 1 .. k
  <2>1. /\ n + j \in 1 .. n + k /\ n + j \in 1 .. Len(a) + Len(s)
        /\ ~ (n + j <= Len(a)) /\ (n + j) - Len(a) = j
    BY <1>7 DEF n, k
  <2> QED
    BY <2>1, <1>4, <1>10
<1>14. n + k + 1 <= Len(f) /\ Len(f) \in Nat
  BY <1>7, <1>8
<1>15. f = Fqdn(svc) /\ k = Len(svc.service_type) /\ s = svc.service_type
  BY <1>2 DEF k, s
<1> QED
  BY <1>7, <1>11, <1>12, <1>13, <1>14, <1>15

(* When encode_qname accepts the name of a service, its type is a name. *)
LEMMA EncodableTypeIsName ==
    ASSUME NEW svc, IsDescribed(svc), IsText(svc.service_type), Encodable(Fqdn(svc))
    PROVE  IsName(svc.service_type)
<1> DEFINE s == svc.service_type
           f == Fqdn(svc)
           k == Len(s)
<1>1. PICK n \in Nat \ {0} :
         /\ k \in Nat /\ n + k + 1 <= Len(f) /\ Len(f) \in Nat
         /\ f[n] = Dot /\ f[n + k + 1] = Dot
         /\ \A i \in 1 .. k : f[n + i] = s[i]
  BY TypeInFqdn
<1>2. \A i \in 1 .. Len(f) : f[i] = Dot => f[i - 1] # Dot
  BY DEF Encodable
<1>3. IsText(s) /\ s \in String
  BY DEF IsDescribed
<1> HIDE DEF s, f
<1>4. ASSUME NEW i \in 1 .. k, s[i] = Dot PROVE i > 1 /\ s[i - 1] # Dot
  <2>1. n + i \in 1 .. Len(f) /\ (n + i) - 1 = n + (i - 1)
    BY <1>1
  <2>2. f[n + i] = Dot
    BY <1>1, <1>4
  <2>3. f[n + (i - 1)] # Dot
    BY <1>2, <2>1, <2>2
  <2>4. CASE i = 1
    <3>1. n + (i - 1) = n
      BY <2>4
    <3> QED
      BY <1>1, <2>3, <3>1
  <2>5. CASE i # 1
    <3>1. i - 1 \in 1 .. k /\ i > 1
      BY <1>1, <2>5
    <3> QED
      BY <1>1, <2>3, <3>1
  <2> QED
    BY <2>4, <2>5
<1>5. s # << >> => Last(s) # Dot
  <2> SUFFICES ASSUME s # << >> PROVE Last(s) # Dot
    OBVIOUS
  <2>1. k \in 1 .. k
    <3>1. k # 0
      BY <1>3, EmptySeq DEF String
    <3> QED
      BY <1>1, <3>1
  <2>2. n + k + 1 \in 1 .. Len(f) /\ (n + k + 1) - 1 = n + k
    BY <1>1
  <2>3. f[n + k] # Dot
    BY <1>1, <1>2, <2>2
  <2> QED
    BY <1>1, <2>1, <2>3 DEF Last
<1>6. IsShaped(s)
  BY <1>3, <1>4 DEF IsShaped
<1> QED
  BY <1>3, <1>5, <1>6, ShapedIsName DEF s

(* strcasecmp compares token by token. *)
LEMMA CaseEqByToken ==
    ASSUME NEW s \in String, NEW u \in String, Len(s) = Len(u),
           \A i \in 1 .. Len(s) : Lower[s[i]] = Lower[u[i]]
    PROVE  StrCaseEq(s, u)
BY DEF StrCaseEq, Folded

(* And two strings that are equal for it are equal so. *)
LEMMA CaseEqTokens ==
    ASSUME NEW s \in String, NEW u \in String, Folded(s) = Folded(u)
    PROVE  /\ Len(s) \in Nat /\ Len(s) = Len(u)
           /\ \A i \in 1 .. Len(s) : /\ s[i] \in Token /\ u[i] \in Token
                                     /\ Lower[s[i]] = Lower[u[i]]
<1>1. \A v \in String : /\ Len(v) \in Nat /\ Len(Folded(v)) = Len(v)
                        /\ \A i \in 1 .. Len(v) : Folded(v)[i] = Lower[v[i]] /\ v[i] \in Token
  BY FoldedEquations, LenProperties, ElementOfSeq DEF Folded, String
<1> QED
  BY <1>1

(* A domain that validate_service accepts is one label. *)
LEMMA DomainIsLabel ==
    ASSUME NEW s \in String, StrCaseEq(s, Local)
    PROVE  s \in Seq(Token \ {Dot}) /\ Len(s) = 1 /\ s[1] \in Token \ {Dot}
<1>1. PICK t \in Token \ {Dot} : Local = <<t>>
  BY NamesAssumption
<1>2. Local \in String /\ Len(Local) = 1 /\ Local[1] = t
  BY <1>1 DEF String
<1>3. Len(s) = 1 /\ s[1] \in Token /\ Lower[s[1]] = Lower[t]
  BY <1>2, CaseEqTokens DEF StrCaseEq
<1>4. s[1] \in Token \ {Dot}
  BY <1>3, NamesAssumption
<1> DEFINE x == s[1]
<1>5. s = <<x>>
  BY <1>3 DEF String
<1>6. x \in Token \ {Dot}
  BY <1>4
<1> HIDE DEF x
<1>7. s \in Seq(Token \ {Dot})
  BY <1>5, <1>6
<1> QED
  BY <1>3, <1>4, <1>7

(* The token before a trailing dot stays. *)
LEMMA StrippedTokens ==
    ASSUME NEW s \in String, NEW n \in Nat, Len(s) = n + 1, s[n + 1] = Dot
    PROVE  /\ StripTrailingDot(s) \in String /\ Len(StripTrailingDot(s)) = n
           /\ \A i \in 1 .. n : StripTrailingDot(s)[i] = s[i]
<1>1. s # << >> /\ Last(s) = Dot
  BY EmptySeq DEF String, Last
<1>2. Front(s) \in String /\ s = Append(Front(s), Dot)
  BY <1>1, StringCases
<1>3. StripTrailingDot(s) = Front(s)
  BY <1>1 DEF StripTrailingDot
<1> DEFINE r == Front(s)
<1>4. r \in Seq(Token) /\ Len(r) \in Nat /\ s = Append(r, Dot) /\ Dot \in Token
  BY <1>2, LenProperties, NamesAssumption DEF String
<1> HIDE DEF r
<1>5. Len(s) = Len(r) + 1 /\ \A i \in 1 .. Len(r) : s[i] = r[i]
  BY <1>4, AppendProperties
<1> QED
  BY <1>3, <1>4, <1>5 DEF r, String

(* The text of a question of three labels, as parse_service_type_query     *)
(* takes it apart.                                                         *)
LEMMA QuestionInParts ==
    ASSUME NEW labels \in Seq(Token \ {Dot}), Len(labels) = 3,
           NEW q, q = WireToText(labels)
    PROVE  /\ q \in String /\ Len(q) = 6 /\ q[1] = labels[1] /\ q[2] = Dot
           /\ q[3] = labels[2] /\ q[4] = Dot
           /\ TypePart(q) \in String /\ Len(TypePart(q)) = 3 /\ TypePart(q)[1] = labels[1]
           /\ TypePart(q)[2] = Dot /\ TypePart(q)[3] = labels[2]
           /\ DomainPart(q) \in String /\ Len(DomainPart(q)) = 1 /\ DomainPart(q)[1] = labels[3]
<1>1. q \in String /\ Len(q) = 6
  <2>1. labels \in Seq(Token)
    BY SeqMonotonic
  <2>2. Len(q) = 2 * Len(labels) /\ q \in String
    BY <2>1, WireToTextEquations
  <2> QED
    BY <2>2
<1>2. \A i \in 1 .. 6 : q[i] = IF i % 2 = 1 THEN labels[(i + 1) \div 2] ELSE Dot
  BY DEF WireToText
<1>3. /\ q[1] = labels[1] /\ q[2] = Dot /\ q[3] = labels[2]
      /\ q[4] = Dot /\ q[5] = labels[3] /\ q[6] = Dot
  BY <1>2
<1>4. q \in Seq(Token) /\ \A i \in 1 .. 6 : q[i] \in Token
  BY <1>1, ElementOfSeq DEF String
<1> HIDE DEF WireToText
<1>5. /\ SubSeq(q, 1, 3) \in Seq(Token) /\ Len(SubSeq(q, 1, 3)) = 3
      /\ SubSeq(q, 1, 3)[1] = q[1] /\ SubSeq(q, 1, 3)[2] = q[2] /\ SubSeq(q, 1, 3)[3] = q[3]
  <2>1. \A i \in 1 .. 3 : q[i] \in Token
    BY <1>4
  <2>2. /\ SubSeq(q, 1, 3) \in Seq(Token)
        /\ Len(SubSeq(q, 1, 3)) = IF 1 <= 3 THEN 3 - 1 + 1 ELSE 0
        /\ \A i \in 1 .. 3 - 1 + 1 : SubSeq(q, 1, 3)[i] = q[1 + i - 1]
    BY <1>4, <2>1, SubSeqProperties
  <2> QED
    BY <2>2
<1>6. /\ SubSeq(q, 5, 6) \in String /\ Len(SubSeq(q, 5, 6)) = 1 + 1
      /\ SubSeq(q, 5, 6)[1] = q[5] /\ SubSeq(q, 5, 6)[1 + 1] = q[6]
  <2>1. \A i \in 5 .. 6 : q[i] \in Token
    BY <1>4
  <2>2. /\ SubSeq(q, 5, 6) \in Seq(Token)
        /\ Len(SubSeq(q, 5, 6)) = IF 5 <= 6 THEN 6 - 5 + 1 ELSE 0
        /\ \A i \in 1 .. 6 - 5 + 1 : SubSeq(q, 5, 6)[i] = q[5 + i - 1]
    BY <1>4, <2>1, SubSeqProperties
  <2> QED
    BY <2>2 DEF String
<1>7. DomainPart(q) = StripTrailingDot(SubSeq(q, 5, 6))
  BY <1>1 DEF DomainPart
<1>8. DomainPart(q) \in String /\ Len(DomainPart(q)) = 1 /\ DomainPart(q)[1] = q[5]
  <2> DEFINE r == SubSeq(q, 5, 6)
  <2>1. r \in String /\ Len(r) = 1 + 1 /\ r[1 + 1] = Dot /\ r[1] = q[5]
    BY <1>3, <1>6
  <2> HIDE DEF r
  <2>2. /\ StripTrailingDot(r) \in String /\ Len(StripTrailingDot(r)) = 1
        /\ \A i \in 1 .. 1 : StripTrailingDot(r)[i] = r[i]
    BY <2>1, StrippedTokens
  <2> QED
    BY <1>7, <2>1, <2>2 DEF r
<1> QED
  BY <1>1, <1>3, <1>5, <1>8 DEF TypePart, String

(* A service of the type of a question is found by its type: strcasecmp on *)
(* the two texts misses nothing that DNS takes for equal.                  *)
LEMMA WantedIsMatched ==
    ASSUME NEW svc, Findable(svc), IsName(svc.service_type),
           NEW labels \in Seq(Token \ {Dot}), Len(labels) = 3, IsOfType(svc, labels),
           NEW q, q = WireToText(labels)
    PROVE  /\ StrCaseEq(svc.service_type, TypePart(q))
           /\ StrCaseEq(svc.domain, DomainPart(q))
<1> DEFINE s == svc.service_type
           e == svc.domain
           u == TextToWire(s)
<1>1. /\ s \in String /\ e \in Seq(Token \ {Dot}) /\ e \in String
      /\ Len(e) = 1 /\ e[1] \in Token \ {Dot}
  BY DomainIsLabel DEF Findable
<1>2. TextToWire(e) = e
  BY <1>1, TextToWireOfLabels
<1>3. u \in Seq(Token \ {Dot}) /\ u \in String /\ Len(u) \in Nat
  <2>1. u \in Seq(Token \ {Dot})
    BY <1>1, TextToWireEquations
  <2> HIDE DEF u
  <2> QED
    BY <2>1, TextToWireOfLabels, LenProperties
<1>4. Folded(labels) = Folded(u \o e)
  BY <1>2 DEF IsOfType
<1>5. s = StripTrailingDot(WireToText(u))
  BY DEF IsName
<1> HIDE DEF s, e, u
<1>6. /\ u \o e \in String /\ Len(u \o e) = Len(u) + 1
      /\ \A i \in 1 .. Len(u) + 1 : (u \o e)[i] = IF i <= Len(u) THEN u[i] ELSE e[i - Len(u)]
  <2>1. u \in Seq(Token) /\ e \in Seq(Token)
    BY <1>1, <1>3 DEF String
  <2>2. /\ u \o e \in Seq(Token) /\ Len(u \o e) = Len(u) + Len(e)
        /\ \A i \in 1 .. Len(u) + Len(e) : (u \o e)[i] = IF i <= Len(u) THEN u[i] ELSE e[i - Len(u)]
    BY <2>1, ConcatProperties
  <2> QED
    BY <1>1, <2>2 DEF String
<1>7. labels \in String
  BY TextToWireOfLabels
<1>8. /\ Len(labels) = Len(u \o e)
      /\ \A i \in 1 .. 3 : Lower[labels[i]] = Lower[(u \o e)[i]]
  BY <1>4, <1>6, <1>7, CaseEqTokens, ZenonT(60)
<1>9. Len(u) = 2
  <2> DEFINE n == Len(u)
  <2>1. n \in Nat /\ n + 1 = 3
    BY <1>3, <1>6, <1>8
  <2> HIDE DEF n
  <2>2. n = 2
    BY <2>1
  <2> QED
    BY <2>2 DEF n
<1>10. /\ Lower[labels[1]] = Lower[u[1]] /\ Lower[labels[2]] = Lower[u[2]]
       /\ Lower[labels[3]] = Lower[e[1]]
  <2>1. (u \o e)[1] = u[1] /\ (u \o e)[2] = u[2] /\ (u \o e)[3] = e[1]
    BY <1>6, <1>9
  <2> QED
    BY <1>8, <2>1
<1>11. s \in String /\ Len(s) = 3 /\ s[1] = u[1] /\ s[2] = Dot /\ s[3] = u[2]
  <2> DEFINE w == WireToText(u)
  <2>1. w \in String /\ Len(w) = 3 + 1
    <3>1. u \in Seq(Token)
      BY <1>3 DEF String
    <3>2. w \in String /\ Len(w) = 2 * Len(u)
      BY <3>1, WireToTextEquations
    <3> QED
      BY <1>9, <3>2
  <2>2. \A i \in 1 .. 4 : w[i] = IF i % 2 = 1 THEN u[(i + 1) \div 2] ELSE Dot
    BY <1>9 DEF WireToText
  <2>3. w[1] = u[1] /\ w[2] = Dot /\ w[3] = u[2] /\ w[3 + 1] = Dot
    BY <2>2
  <2> HIDE DEF w
  <2>4. /\ StripTrailingDot(w) \in String /\ Len(StripTrailingDot(w)) = 3
        /\ \A i \in 1 .. 3 : StripTrailingDot(w)[i] = w[i]
    BY <2>1, <2>3, StrippedTokens
  <2> QED
    BY <1>5, <2>3, <2>4 DEF w
<1>12. /\ TypePart(q) \in String /\ Len(TypePart(q)) = 3 /\ TypePart(q)[1] = labels[1]
       /\ TypePart(q)[2] = Dot /\ TypePart(q)[3] = labels[2]
       /\ DomainPart(q) \in String /\ Len(DomainPart(q)) = 1 /\ DomainPart(q)[1] = labels[3]
  BY QuestionInParts
<1>13. StrCaseEq(s, TypePart(q))
  <2>1. \A i \in 1 .. 3 : Lower[s[i]] = Lower[TypePart(q)[i]]
    <3> TAKE i \in 1 .. 3
    <3>1. i = 1 \/ i = 2 \/ i = 3
      OBVIOUS
    <3> QED
      BY <3>1, <1>10, <1>11, <1>12
  <2> QED
    BY <2>1, <1>11, <1>12, CaseEqByToken
<1>14. StrCaseEq(e, DomainPart(q))
  <2>1. \A i \in 1 .. 1 : Lower[e[i]] = Lower[DomainPart(q)[i]]
    BY <1>10, <1>12
  <2> QED
    BY <2>1, <1>1, <1>12, CaseEqByToken
<1> QED
  BY <1>13, <1>14 DEF s, e

(* The services of a list that have the type of a question. *)
HaveType(reg, d) == {reg[k] : k \in {j \in 1 .. Len(reg) : IsOfType(reg[j], Bare(d.labels))}}

(* wanted[n] are the services wanted among the first n. *)
IsChoice(wanted, reg, d) ==
    /\ wanted[0] = << >>
    /\ \A n \in 1 .. Len(reg) : wanted[n] = WithWanted(wanted[n - 1], reg[n], d)
    /\ \A n \in 0 .. Len(reg) : wanted[n] \in Seq(HaveType(reg, d))
    /\ Wanted(reg, d) = wanted[Len(reg)]

(* There are such services, or none. *)
LEMMA WantedChosen ==
    ASSUME NEW reg, Len(reg) \in Nat, NEW d
    PROVE  \E wanted : IsChoice(wanted, reg, d)
<1> DEFINE m == Len(reg)
           M == HaveType(reg, d)
           S == Seq(M)
           turn(s, k) == WithWanted(s, reg[k], d)
           step == [s \in S |-> [k \in 1 .. m |-> turn(s, k)]]
           Body(f) == [n \in 0 .. m |->
                          IF n = 0 THEN << >> ELSE WithWanted(f[n - 1], reg[n], d)]
           wanted == CHOOSE f : f = Body(f)
<1>1. << >> \in S
  BY EmptySeq
<1>2. ASSUME NEW s \in S, NEW k \in 1 .. m PROVE turn(s, k) \in S
  <2>1. CASE IsOfType(reg[k], Bare(d.labels))
    <3>1. reg[k] \in M
      BY <2>1 DEF HaveType
    <3> HIDE DEF M
    <3>2. Append(s, reg[k]) \in Seq(M)
      BY <3>1, AppendProperties
    <3> QED
      BY <2>1, <3>2 DEF WithWanted
  <2>2. CASE ~ IsOfType(reg[k], Bare(d.labels))
    BY <2>2 DEF WithWanted
  <2> QED
    BY <2>1, <2>2
<1> HIDE DEF S
<1>3. /\ step \in [S -> [1 .. m -> S]]
      /\ \A s \in S, k \in 1 .. m : step[s][k] = turn(s, k)
  BY <1>2
<1> HIDE DEF step
<1>4. PICK f \in [0 .. m -> S] : IsLoop(f, << >>, step, m)
  BY <1>1, <1>3, CountedRecursion
<1>5. f = Body(f)
  <2>1. \A n \in 0 .. m : f[n] = Body(f)[n]
    <3> TAKE n \in 0 .. m
    <3>1. CASE n = 0
      BY <3>1, <1>4 DEF IsLoop
    <3>2. CASE n # 0
      <4>1. n \in 1 .. m /\ n - 1 \in 0 .. m
        BY <3>2
      <4>2. f[n] = turn(f[n - 1], n)
        BY <4>1, <1>3, <1>4 DEF IsLoop
      <4> QED
        BY <3>2, <4>2
    <3> QED
      BY <3>1, <3>2
  <2>2. f = [n \in 0 .. m |-> f[n]]
    OBVIOUS
  <2>3. Body(f) = [n \in 0 .. m |-> Body(f)[n]]
    OBVIOUS
  <2> HIDE DEF Body
  <2> QED
    BY <2>1, <2>2, <2>3, Zenon
<1>6. wanted = Body(wanted)
  BY <1>5
<1> HIDE DEF wanted
<1>7. /\ wanted[0] = << >>
      /\ \A n \in 1 .. m : wanted[n] = turn(wanted[n - 1], n)
  <2>1. 0 \in 0 .. m /\ \A n \in 1 .. m : n \in 0 .. m /\ n # 0
    OBVIOUS
  <2> QED
    BY <1>6, <2>1
<1>8. \A n \in 0 .. m : wanted[n] \in S
  <2> TAKE n \in 0 .. m
  <2>1. n \in Nat /\ \A k \in 1 .. n : k \in 1 .. m
    OBVIOUS
  <2> HIDE DEF turn
  <2>2. \A k \in 1 .. n : wanted[k - 1] \in S => wanted[k] \in S
    BY <1>2, <1>7, <2>1
  <2>3. wanted[0] \in S
    BY <1>1, <1>7
  <2> QED
    BY <2>1, <2>2, <2>3, LoopKeeps, Zenon
<1>9. Wanted(reg, d) = wanted[m]
  BY DEF Wanted, wanted
<1>10. IsChoice(wanted, reg, d)
  BY <1>7, <1>8, <1>9 DEF IsChoice, S
<1> QED
  BY <1>10

(* A service of the type asked for has its place among them, unless they   *)
(* are as many as the server looks for, and keeps it.                      *)
LEMMA WantedHasPlace ==
    ASSUME NEW reg, Len(reg) \in Nat, NEW d, NEW wanted, IsChoice(wanted, reg, d),
           NEW n \in 1 .. Len(reg), IsOfType(reg[n], Bare(d.labels)),
           Len(wanted[n - 1]) < MAX_FOUND
    PROVE  LET place == Len(wanted[n - 1]) + 1
           IN  place \in 1 .. Len(Wanted(reg, d)) /\ Wanted(reg, d)[place] = reg[n]
<1> DEFINE m == Len(reg)
           M == HaveType(reg, d)
           p == Len(wanted[n - 1]) + 1
           Holds(s) == p \in 1 .. Len(s) /\ s[p] = reg[n]
           T == {j \in Nat : n <= j /\ j <= m => Holds(wanted[j])}
<1>1. \A j \in 0 .. m : wanted[j] \in Seq(M) /\ Len(wanted[j]) \in Nat
  BY LenProperties DEF IsChoice
<1>2. \A j \in 1 .. m : wanted[j] = WithWanted(wanted[j - 1], reg[j], d)
  BY DEF IsChoice
<1>3. \A j \in 1 .. m : IsOfType(reg[j], Bare(d.labels)) => reg[j] \in M
  BY DEF HaveType
<1>4. n \in 1 .. m /\ n - 1 \in 0 .. m /\ p \in Nat /\ p >= 1
  BY <1>1
<1> HIDE DEF M, m
<1>5. Holds(wanted[n])
  <2>1. wanted[n] = Append(wanted[n - 1], reg[n]) /\ reg[n] \in M /\ wanted[n - 1] \in Seq(M)
    BY <1>1, <1>2, <1>3, <1>4 DEF WithWanted
  <2> DEFINE s == wanted[n - 1]
             e == reg[n]
  <2> HIDE DEF s, e
  <2>2. s \in Seq(M) /\ e \in M
    BY <2>1 DEF s, e
  <2>3. Len(Append(s, e)) = Len(s) + 1 /\ Append(s, e)[Len(s) + 1] = e
    BY <2>2, AppendProperties
  <2> QED
    BY <2>1, <2>3, <1>4 DEF s, e
<1> HIDE DEF p
<1>6. ASSUME NEW j \in Nat, j \in T PROVE j + 1 \in T
  <2> SUFFICES ASSUME n <= j + 1, j + 1 <= m PROVE Holds(wanted[j + 1])
    OBVIOUS
  <2>1. CASE n = j + 1
    BY <1>5, <2>1
  <2>2. CASE n # j + 1
    <3>1. j + 1 \in 1 .. m /\ (j + 1) - 1 = j /\ j \in 0 .. m /\ n <= j /\ j <= m
      BY <1>4, <2>2 DEF m
    <3>2. Holds(wanted[j])
      BY <1>6, <3>1
    <3> DEFINE s == wanted[j]
               e == reg[j + 1]
    <3>3. s \in Seq(M) /\ Len(s) \in Nat
      BY <1>1, <3>1
    <3>4. wanted[j + 1] = WithWanted(s, e, d)
      BY <1>2, <3>1
    <3>5. IsOfType(e, Bare(d.labels)) => e \in M
      BY <1>3, <3>1
    <3> HIDE DEF s, e
    <3>6. CASE IsOfType(e, Bare(d.labels)) /\ Len(s) < MAX_FOUND
      <4>1. Len(Append(s, e)) = Len(s) + 1 /\ \A i \in 1 .. Len(s) : Append(s, e)[i] = s[i]
        BY <3>3, <3>5, <3>6, AppendProperties
      <4>2. p \in 1 .. Len(s) /\ s[p] = reg[n]
        BY <3>2 DEF s
      <4>3. p \in 1 .. Len(s) + 1
        BY <3>3, <4>2
      <4> QED
        BY <3>4, <3>6, <4>1, <4>2, <4>3 DEF WithWanted
    <3>7. CASE ~ (IsOfType(e, Bare(d.labels)) /\ Len(s) < MAX_FOUND)
      BY <3>2, <3>4, <3>7 DEF WithWanted, s
    <3> QED
      BY <3>6, <3>7
  <2> QED
    BY <2>1, <2>2
<1>7. 0 \in T
  BY <1>4
<1> HIDE DEF T
<1>8. Nat \subseteq T
  BY <1>6, <1>7, Induction
<1>9. Holds(wanted[m])
  BY <1>4, <1>8 DEF T, m
<1>10. Wanted(reg, d) = wanted[m]
  BY DEF IsChoice, m
<1> QED
  BY <1>9, <1>10 DEF p

(* A question for a type finds the services of it, in their order: all, or *)
(* as many as the server looks for.                                        *)
LEMMA FoundIsWanted ==
    ASSUME NEW reg, Len(reg) \in Nat,
           NEW d, d.labels \in Seq(WireLabel), DotFree(d.labels), Len(d.labels) = 3,
           {d.labels[1][1], d.labels[2][1]} \subseteq Underscored,
           \A k \in 1 .. Len(reg) : Findable(reg[k]),
           \A n \in 1 .. Len(Wanted(reg, d)) : IsName(Wanted(reg, d)[n].service_type)
    PROVE  Found(reg, QName(d)) = Wanted(reg, d)
<1> DEFINE q == QName(d)
           w == Bare(d.labels)
           t == TypePart(q)
           e == DomainPart(q)
<1>1. /\ q = WireToText(w) /\ w \in Seq(Token \ {Dot}) /\ Len(w) = 3
      /\ w[1] = d.labels[1][1] /\ w[2] = d.labels[2][1]
  BY BareQuestion, BareEquations
<1> HIDE DEF q, w
<1>2. /\ q \in String /\ Len(q) = 6 /\ q[1] = w[1] /\ q[2] = Dot
      /\ q[3] = w[2] /\ q[4] = Dot
  BY <1>1, QuestionInParts
<1>3. HasServiceType(q)
  BY <1>1, <1>2 DEF HasServiceType
<1>4. is_general_service_query(q)
  <2>1. q # << >>
    BY <1>2, EmptySeq DEF String
  <2> QED
    BY <1>1, <1>2, <2>1 DEF is_general_service_query, StartsWithUnderscore
<1>5. Found(reg, q) = mdns_find_services_by_type(reg, t, e, MAX_FOUND)
  BY <1>3, <1>4 DEF Found, OfType
<1>6. PICK found : IsSearch(found, reg, t, e, MAX_FOUND)
  BY SearchByType, QuestionsAssumption
<1>7. PICK wanted : IsChoice(wanted, reg, d)
  BY WantedChosen
<1>8. ASSUME NEW k \in 1 .. Len(reg), found[k - 1] = wanted[k - 1] PROVE found[k] = wanted[k]
  <2>1. found[k] = WithService(found[k - 1], reg[k], t, e, MAX_FOUND)
    BY <1>6 DEF IsSearch
  <2>2. wanted[k] = WithWanted(wanted[k - 1], reg[k], d)
    BY <1>7 DEF IsChoice
  <2>3. CASE IsOfType(reg[k], w) /\ Len(wanted[k - 1]) < MAX_FOUND
    <3>1. IsName(reg[k].service_type)
      BY <1>7, <2>3, WantedHasPlace DEF w
    <3>2. StrCaseEq(reg[k].service_type, t) /\ StrCaseEq(reg[k].domain, e)
      BY <1>1, <2>3, <3>1, WantedIsMatched
    <3> QED
      BY <1>8, <2>1, <2>2, <2>3, <3>2 DEF WithService, WithWanted, w
  <2>4. CASE ~ (Len(wanted[k - 1]) < MAX_FOUND)
    BY <1>8, <2>1, <2>2, <2>4 DEF WithService, WithWanted
  <2>5. CASE ~ IsOfType(reg[k], w)
    <3>1. ~ (StrCaseEq(reg[k].service_type, t) /\ StrCaseEq(reg[k].domain, e))
      <4>1. reg[k].service_type \in String /\ reg[k].domain \in String
        BY DEF Findable
      <4>2. TextToWire(q) = w
        BY <1>1, TextToWireOfWire
      <4> QED
        BY <4>1, <4>2, <1>2, <1>3, <2>5, TypeIsDnsType
    <3> QED
      BY <1>8, <2>1, <2>2, <2>5, <3>1 DEF WithService, WithWanted, w
  <2> QED
    BY <2>3, <2>4, <2>5
<1>9. found[0] = wanted[0]
  BY <1>6, <1>7 DEF IsSearch, IsChoice
<1>10. found[Len(reg)] = wanted[Len(reg)]
  BY <1>8, <1>9, CountedUnique
<1> QED
  BY <1>5, <1>6, <1>7, <1>10 DEF IsSearch, IsChoice, q

(* When all the services asked for go in the buffer, encode_qname accepts  *)
(* their names: their types are names of DNS.                              *)
LEMMA WantedTypesAreNames ==
    ASSUME NEW d, NEW wanted, NEW n \in DOMAIN wanted, AllGoIn(d, wanted),
           IsDescribed(wanted[n]), IsText(wanted[n].service_type)
    PROVE  IsName(wanted[n].service_type)
<1>1. Encodable(Fqdn(wanted[n]))
  BY DEF AllGoIn
<1> QED
  BY <1>1, EncodableTypeIsName

-----------------------------------------------------------------------------
(* What the buffer takes. *)

(* The bytes of the two records of a service. *)
RecordsLen(svc) == 2 * EncodedLen(Fqdn(svc)) + EncodedLen(svc.target_host) + TxtBytes(svc) + 22

(* What the two records of a service take of the buffer does not depend *)
(* on where they begin. *)
LEMMA RecordsLenAdded ==
    ASSUME NEW svc, IsDescribed(svc), NEW at \in Nat
    PROVE  /\ RecordsLen(svc) \in Nat
           /\ SrvEnd(svc, at) = at + EncodedLen(Fqdn(svc)) + EncodedLen(svc.target_host) + 14
           /\ TxtEnd(svc, SrvEnd(svc, at)) = at + RecordsLen(svc)
<1>1. EncodedLen(Fqdn(svc)) \in Nat /\ EncodedLen(svc.target_host) \in Nat /\ TxtBytes(svc) \in Nat
  BY FqdnType, EncodedLenType, TxtBytesType DEF IsDescribed
<1> DEFINE f == EncodedLen(Fqdn(svc))
           t == EncodedLen(svc.target_host)
           b == TxtBytes(svc)
<1>2. /\ SrvEnd(svc, at) = ((at + f) + 8) + 6 + t
      /\ TxtEnd(svc, SrvEnd(svc, at)) = ((SrvEnd(svc, at) + f) + 8) + b
      /\ RecordsLen(svc) = 2 * f + t + b + 22
  BY DEF SrvEnd, TxtEnd, HeaderEnd, RecordsLen
<1>3. f \in Nat /\ t \in Nat /\ b \in Nat
  BY <1>1
<1> HIDE DEF f, t, b
<1>4. SrvEnd(svc, at) = at + f + t + 14
  BY <1>2, <1>3
<1>5. TxtEnd(svc, SrvEnd(svc, at)) = at + (2 * f + t + b + 22) /\ 2 * f + t + b + 22 \in Nat
  BY <1>2, <1>3, <1>4
<1> QED
  BY <1>2, <1>4, <1>5 DEF f, t

(* The two records of a service are written whole when they leave two      *)
(* bytes: write_answer_header asks for room it does not use.               *)
LEMMA ServiceIsWritten ==
    ASSUME NEW svc, IsDescribed(svc), Fits(svc), Encodable(Fqdn(svc)), Encodable(svc.target_host),
           NEW k, NEW out_len \in Nat, NEW w, w.at \in Nat, ~ w.ended,
           w.at + RecordsLen(svc) + 2 <= out_len
    PROVE  WithAnswer(w, k, svc, out_len) =
              [at |-> w.at + RecordsLen(svc), ended |-> FALSE,
               records |-> Append(Append(w.records, <<k, "SRV">>), <<k, "TXT">>)]
<1> DEFINE f == EncodedLen(Fqdn(svc))
           t == EncodedLen(svc.target_host)
           b == TxtBytes(svc)
           at == w.at
           mid == SrvEnd(svc, at)
           len == RecordsLen(svc)
<1>1. f \in Nat /\ t \in Nat /\ b \in Nat
  BY FqdnType, EncodedLenType, TxtBytesType DEF IsDescribed
<1>2. at \in Nat /\ len = 2 * f + t + b + 22 /\ at + len + 2 <= out_len
  BY DEF RecordsLen
<1>3. mid = at + f + t + 14 /\ TxtEnd(svc, mid) = at + len
  BY RecordsLenAdded
<1> HIDE DEF f, t, b, at, mid, len
<1>4. at + f + 10 <= out_len /\ mid <= out_len /\ mid + f + 10 <= out_len /\ at + len <= out_len
  BY <1>1, <1>2, <1>3
<1>5. SrvFits(svc, at, out_len)
  BY <1>4 DEF SrvFits, HeaderFits, f, mid
<1>6. TxtFits(svc, mid, out_len)
  BY <1>3, <1>4 DEF TxtFits, HeaderFits, f
<1> QED
  BY <1>3, <1>5, <1>6 DEF WithAnswer, at, mid, len

(* end[k] are the bytes of the first k services. *)
IsSizing(end, svcs) ==
    /\ end[0] = 0
    /\ \A k \in 1 .. Len(svcs) : end[k] = end[k - 1] + RecordsLen(svcs[k])
    /\ \A k \in 0 .. Len(svcs) : end[k] \in Nat
    /\ SizeOf(svcs, Len(svcs)) = end[Len(svcs)]

(* SizeOf adds them up. *)
LEMMA SizesAdded ==
    ASSUME NEW svcs, Len(svcs) \in Nat, \A k \in 1 .. Len(svcs) : IsDescribed(svcs[k])
    PROVE  \E end : IsSizing(end, svcs)
<1> DEFINE m == Len(svcs)
           turn(x, k) == TxtEnd(svcs[k], SrvEnd(svcs[k], x))
           step == [x \in Nat |-> [k \in 1 .. m |-> turn(x, k)]]
           Body(f) == [k \in 0 .. m |-> IF k = 0 THEN 0 ELSE turn(f[k - 1], k)]
           end == CHOOSE f : f = Body(f)
<1>1. \A x \in Nat, k \in 1 .. m : turn(x, k) = x + RecordsLen(svcs[k]) /\ turn(x, k) \in Nat
  <2> TAKE x \in Nat, k \in 1 .. m
  <2> DEFINE len == RecordsLen(svcs[k])
  <2>1. turn(x, k) = x + len /\ len \in Nat
    BY RecordsLenAdded
  <2> HIDE DEF len, turn
  <2>2. x + len \in Nat
    BY <2>1
  <2> QED
    BY <2>1, <2>2 DEF len
<1> HIDE DEF turn
<1>2. /\ step \in [Nat -> [1 .. m -> Nat]]
      /\ \A x \in Nat, k \in 1 .. m : step[x][k] = turn(x, k)
  BY <1>1
<1> HIDE DEF step
<1>3. PICK f \in [0 .. m -> Nat] : IsLoop(f, 0, step, m)
  BY <1>2, CountedRecursion
<1>4. f = Body(f)
  <2>1. \A k \in 0 .. m : f[k] = IF k = 0 THEN 0 ELSE turn(f[k - 1], k)
    <3> TAKE k \in 0 .. m
    <3>1. CASE k = 0
      BY <3>1, <1>3 DEF IsLoop
    <3>2. CASE k # 0
      <4>1. k \in 1 .. m /\ k - 1 \in 0 .. m
        BY <3>2
      <4> QED
        BY <3>2, <4>1, <1>2, <1>3 DEF IsLoop
    <3> QED
      BY <3>1, <3>2
  <2>2. f = [k \in 0 .. m |-> f[k]]
    OBVIOUS
  <2> QED
    BY <2>1, <2>2, Zenon
<1>5. end = Body(end)
  BY <1>4
<1> HIDE DEF end
<1>6. end[0] = 0 /\ \A k \in 1 .. m : end[k] = turn(end[k - 1], k)
  <2>1. 0 \in 0 .. m /\ \A k \in 1 .. m : k \in 0 .. m /\ k # 0
    OBVIOUS
  <2> QED
    BY <1>5, <2>1
<1>7. \A n \in 0 .. m : end[n] \in Nat
  <2> TAKE n \in 0 .. m
  <2>1. n \in Nat /\ \A k \in 1 .. n : k \in 1 .. m
    OBVIOUS
  <2>2. \A k \in 1 .. n : end[k - 1] \in Nat => end[k] \in Nat
    BY <1>1, <1>6, <2>1
  <2>3. end[0] \in Nat
    BY <1>6
  <2> QED
    BY <2>1, <2>2, <2>3, LoopKeeps, Zenon
<1>8. \A k \in 1 .. m : end[k] = end[k - 1] + RecordsLen(svcs[k])
  <2> TAKE k \in 1 .. m
  <2>1. k - 1 \in 0 .. m
    OBVIOUS
  <2> QED
    BY <2>1, <1>1, <1>6, <1>7
<1>9. SizeOf(svcs, m) = end[m]
  BY DEF SizeOf, end, turn
<1>10. IsSizing(end, svcs)
  BY <1>6, <1>7, <1>8, <1>9 DEF IsSizing
<1> QED
  BY <1>10

(* None has more than all. *)
LEMMA SizesGrow ==
    ASSUME NEW svcs, Len(svcs) \in Nat, \A k \in 1 .. Len(svcs) : IsDescribed(svcs[k]),
           NEW end, IsSizing(end, svcs), NEW n \in 0 .. Len(svcs)
    PROVE  end[n] <= SizeOf(svcs, Len(svcs))
<1> DEFINE m == Len(svcs)
           T == {k \in Nat : n <= k /\ k <= m => end[n] <= end[k]}
<1>1. 0 \in T
  <2>1. n <= 0 => n = 0
    OBVIOUS
  <2> QED
    BY <2>1 DEF IsSizing
<1>2. ASSUME NEW k \in Nat, k \in T PROVE k + 1 \in T
  <2> SUFFICES ASSUME n <= k + 1, k + 1 <= m PROVE end[n] <= end[k + 1]
    OBVIOUS
  <2>1. end[n] \in Nat
    BY DEF IsSizing
  <2>2. CASE n = k + 1
    BY <2>1, <2>2
  <2>3. CASE n # k + 1
    <3>1. n <= k /\ k <= m /\ k + 1 \in 1 .. m /\ (k + 1) - 1 = k /\ k \in 0 .. m
      BY <2>3
    <3>2. end[k + 1] = end[k] + RecordsLen(svcs[k + 1]) /\ end[k] \in Nat
      BY <3>1 DEF IsSizing
    <3>3. RecordsLen(svcs[k + 1]) \in Nat
      BY <3>1, RecordsLenAdded
    <3>4. end[n] <= end[k]
      BY <1>2, <3>1
    <3> QED
      BY <2>1, <3>2, <3>3, <3>4
  <2> QED
    BY <2>2, <2>3
<1> HIDE DEF T
<1>3. Nat \subseteq T
  BY <1>1, <1>2, Induction
<1>4. end[n] <= end[m]
  BY <1>3 DEF T
<1> QED
  BY <1>4 DEF IsSizing

(* The two records of the n-th service are among those written. *)
HoldsBoth(records, n) ==
    \A type \in {"SRV", "TXT"} : \E i \in 1 .. Len(records) : records[i] = <<n, type>>

(* After its SRV and TXT records are appended a service has both, and no *)
(* service loses its own. *)
LEMMA HoldsBothAppended ==
    ASSUME NEW R, NEW records \in Seq(R), NEW k, <<k, "SRV">> \in R, <<k, "TXT">> \in R,
           NEW after, after = Append(Append(records, <<k, "SRV">>), <<k, "TXT">>)
    PROVE  HoldsBoth(after, k) /\ \A n : HoldsBoth(records, n) => HoldsBoth(after, n)
<1> DEFINE x == <<k, "SRV">>
           y == <<k, "TXT">>
           srv == Append(records, x)
           m == Len(records)
<1>1. x \in R /\ y \in R /\ m \in Nat
  BY LenProperties
<1>2. after = Append(srv, y)
  OBVIOUS
<1> HIDE DEF x, y
<1>3. /\ srv \in Seq(R) /\ Len(srv) = m + 1 /\ srv[m + 1] = x
      /\ \A i \in 1 .. m : srv[i] = records[i]
  BY <1>1, AppendProperties
<1> HIDE DEF srv
<1>4. /\ Len(after) = m + 2 /\ after[m + 2] = y /\ \A i \in 1 .. m + 1 : after[i] = srv[i]
  <2>0. srv \in Seq(R) /\ y \in R
    BY <1>1, <1>3
  <2>1. /\ Len(Append(srv, y)) = Len(srv) + 1 /\ Append(srv, y)[Len(srv) + 1] = y
        /\ \A i \in 1 .. Len(srv) : Append(srv, y)[i] = srv[i]
    BY <2>0, AppendProperties
  <2>2. /\ Len(after) = Len(srv) + 1 /\ after[Len(srv) + 1] = y
        /\ \A i \in 1 .. Len(srv) : after[i] = srv[i]
    BY <1>2, <2>1
  <2>3. Len(srv) = m + 1 /\ Len(srv) + 1 = m + 2
    BY <1>1, <1>3
  <2> QED
    BY <2>2, <2>3
<1> HIDE DEF m
<1>5. m + 1 \in 1 .. Len(after) /\ m + 2 \in 1 .. Len(after) /\ after[m + 1] = x /\ after[m + 2] = y
  BY <1>1, <1>3, <1>4
<1>6. \A i \in 1 .. m : i \in 1 .. Len(after) /\ after[i] = records[i]
  BY <1>1, <1>3, <1>4
<1>7. HoldsBoth(after, k)
  BY <1>5 DEF HoldsBoth, x, y
<1> QED
  BY <1>6, <1>7 DEF HoldsBoth, m

(* When the response goes in the buffer whole, it holds both records of    *)
(* every service.                                                          *)
LEMMA AllRecorded ==
    ASSUME NEW d, QName(d) \in String, NEW svcs, Len(svcs) \in Nat,
           DOMAIN svcs = 1 .. Len(svcs), \A k \in 1 .. Len(svcs) : IsDescribed(svcs[k]),
           AllGoIn(d, svcs)
    PROVE  /\ QuestionFits(QName(d), OUT_LEN)
           /\ \A n \in 1 .. Len(svcs) : HoldsBoth(ServiceAnswers(d, svcs), n)
<1> DEFINE q == QName(d)
           m == Len(svcs)
           base == QuestionEnd(q)
           size == SizeOf(svcs, m)
<1>1. PICK end : IsSizing(end, svcs)
  BY SizesAdded
<1>2. PICK after : IsWriting(after, q, svcs, OUT_LEN)
  BY AnswersWritten, QuestionsAssumption
<1>3. /\ base \in Nat /\ base >= HEADER /\ size \in Nat /\ OUT_LEN \in Nat
      /\ base + size + 2 <= OUT_LEN
  <2>1. EncodedLen(q) \in Nat
    BY EncodedLenType
  <2>2. base \in Nat /\ base >= HEADER
    BY <2>1 DEF QuestionEnd, HEADER
  <2>3. size \in Nat
    BY <1>1 DEF IsSizing
  <2> QED
    BY <2>2, <2>3, QuestionsAssumption DEF AllGoIn
<1>4. QuestionFits(q, OUT_LEN)
  <2>1. HEADER <= OUT_LEN /\ QuestionEnd(q) <= OUT_LEN
    <3> DEFINE h == HEADER
    <3>1. h \in Nat
      BY DEF HEADER
    <3> HIDE DEF h, base, size
    <3>2. h <= OUT_LEN /\ base <= OUT_LEN
      BY <1>3, <3>1 DEF h
    <3> QED
      BY <3>2 DEF h, base
  <2> QED
    BY <2>1 DEF QuestionFits, AllGoIn
<1> DEFINE Full(k) == /\ ~ after[k].ended /\ after[k].at = base + end[k]
                      /\ \A n \in 1 .. k : HoldsBoth(after[k].records, n)
           T == {k \in Nat : k <= m => Full(k)}
<1>5. 0 \in T
  <2>1. after[0] = [at |-> base, ended |-> FALSE, records |-> << >>]
    BY <1>2 DEF IsWriting
  <2>2. end[0] = 0
    BY <1>1 DEF IsSizing
  <2> HIDE DEF base
  <2>3. after[0].at = base + end[0]
    BY <1>3, <2>1, <2>2
  <2>4. ~ after[0].ended
    BY <2>1
  <2>5. 1 .. 0 = {}
    OBVIOUS
  <2> QED
    BY <2>3, <2>4, <2>5
<1>6. ASSUME NEW j \in Nat, j \in T PROVE j + 1 \in T
  <2> SUFFICES ASSUME j + 1 <= m PROVE Full(j + 1)
    OBVIOUS
  <2> DEFINE k == j + 1
             w == after[j]
             svc == svcs[k]
             len == RecordsLen(svc)
             R == (1 .. m) \X {"SRV", "TXT"}
  <2>1. k \in 1 .. m /\ k - 1 = j /\ j \in 0 .. m /\ k \in 0 .. m /\ j <= m
    OBVIOUS
  <2>2. ~ w.ended /\ w.at = base + end[j] /\ \A n \in 1 .. j : HoldsBoth(w.records, n)
    BY <1>6, <2>1
  <2>3. after[k] = WithAnswer(w, k, svc, OUT_LEN)
    BY <1>2, <2>1 DEF IsWriting
  <2>4. w.at \in Nat /\ w.records \in Seq(R)
    BY <1>2, <2>1 DEF IsWriting
  <2>5. IsDescribed(svc) /\ Fits(svc) /\ Encodable(Fqdn(svc)) /\ Encodable(svc.target_host)
    BY <2>1 DEF AllGoIn
  <2>6. end[k] = end[j] + len /\ end[j] \in Nat /\ end[k] \in Nat
    BY <1>1, <2>1 DEF IsSizing
  <2>7. end[k] <= size
    BY <1>1, <2>1, SizesGrow
  <2>8. len \in Nat
    BY <2>5, RecordsLenAdded
  <2>9. <<k, "SRV">> \in R /\ <<k, "TXT">> \in R
    BY <2>1
  <2> HIDE DEF k, w, svc, len, R, base, size, m
  <2>10. w.at + len + 2 <= OUT_LEN
    BY <1>3, <2>2, <2>6, <2>7, <2>8, SMTT(60)
  <2>11. after[k] = [at |-> w.at + len, ended |-> FALSE,
                     records |-> Append(Append(w.records, <<k, "SRV">>), <<k, "TXT">>)]
    <3>1. w.at + RecordsLen(svc) + 2 <= OUT_LEN
      BY <2>10 DEF len
    <3>2. WithAnswer(w, k, svc, OUT_LEN) =
              [at |-> w.at + RecordsLen(svc), ended |-> FALSE,
               records |-> Append(Append(w.records, <<k, "SRV">>), <<k, "TXT">>)]
      BY <1>3, <2>2, <2>4, <2>5, <3>1, ServiceIsWritten
    <3> QED
      BY <2>3, <3>2 DEF len
  <2>12. ~ after[k].ended /\ after[k].at = base + end[k]
    <3>1. ~ after[k].ended /\ after[k].at = w.at + len
      BY <2>11
    <3>2. w.at + len = base + end[k]
      BY <1>3, <2>2, <2>6, <2>8
    <3> QED
      BY <3>1, <3>2
  <2>13. /\ HoldsBoth(after[k].records, k)
         /\ \A n : HoldsBoth(w.records, n) => HoldsBoth(after[k].records, n)
    <3>1. after[k].records = Append(Append(w.records, <<k, "SRV">>), <<k, "TXT">>)
      BY <2>11
    <3> QED
      BY <2>4, <2>9, <3>1, HoldsBothAppended, ZenonT(60)
  <2>14. \A n \in 1 .. k : n = k \/ n \in 1 .. j
    BY DEF k
  <2> QED
    BY <2>2, <2>12, <2>13, <2>14 DEF k
<1> HIDE DEF T
<1>7. Nat \subseteq T
  BY <1>5, <1>6, Induction
<1>8. Full(m)
  BY <1>7 DEF T
<1>9. ServiceAnswers(d, svcs) = after[m].records
  BY <1>2, <1>4 DEF ServiceAnswers, IsWriting
<1> QED
  BY <1>4, <1>8, <1>9

-----------------------------------------------------------------------------
(* Questions that can be answered. *)

(* Letter case makes no difference to the text of a question. *)
LEMMA QuestionRespectsCase ==
    ASSUME NEW w \in Seq(Token \ {Dot}), NEW v \in Seq(Token \ {Dot}), Folded(w) = Folded(v)
    PROVE  StrCaseEq(StripTrailingDot(WireToText(w)), StripTrailingDot(WireToText(v)))
<1> DEFINE a == WireToText(w)
           b == WireToText(v)
           n == Len(w)
<1>1. w \in String /\ v \in String /\ w \in Seq(Token) /\ v \in Seq(Token)
  BY TextToWireOfLabels DEF String
<1>2. /\ n \in Nat /\ Len(v) = n
      /\ \A i \in 1 .. n : Lower[w[i]] = Lower[v[i]]
  BY <1>1, CaseEqTokens
<1>3. a \in String /\ b \in String /\ Len(a) = 2 * n /\ Len(b) = 2 * n
  BY <1>1, <1>2, WireToTextEquations
<1>4. /\ \A i \in 1 .. 2 * n : a[i] = IF i % 2 = 1 THEN w[(i + 1) \div 2] ELSE Dot
      /\ \A i \in 1 .. 2 * n : b[i] = IF i % 2 = 1 THEN v[(i + 1) \div 2] ELSE Dot
  BY <1>2 DEF WireToText
<1> HIDE DEF a, b, n
<1>5. \A i \in 1 .. 2 * n : Lower[a[i]] = Lower[b[i]]
  <2> TAKE i \in 1 .. 2 * n
  <2>1. CASE i % 2 = 1
    <3>1. (i + 1) \div 2 \in 1 .. n
      BY <1>2, <2>1
    <3> QED
      BY <1>2, <1>4, <2>1, <3>1
  <2>2. CASE i % 2 # 1
    BY <1>4, <2>2
  <2> QED
    BY <2>1, <2>2
<1>6. CASE n = 0
  <2>1. a = << >> /\ b = << >>
    BY <1>3, <1>6, EmptySeq DEF String
  <2> QED
    BY <2>1 DEF a, b, StrCaseEq
<1>7. CASE n # 0
  <2> DEFINE k == 2 * n - 1
  <2>1. k \in Nat /\ k + 1 = 2 * n /\ (k + 1) % 2 = 0 /\ k + 1 \in 1 .. 2 * n
    BY <1>2, <1>7
  <2>2. Len(a) = k + 1 /\ a[k + 1] = Dot /\ Len(b) = k + 1 /\ b[k + 1] = Dot
    BY <1>3, <1>4, <2>1
  <2>3. \A i \in 1 .. k : i \in 1 .. 2 * n
    BY <1>2
  <2> HIDE DEF k
  <2>4. /\ StripTrailingDot(a) \in String /\ Len(StripTrailingDot(a)) = k
        /\ \A i \in 1 .. k : StripTrailingDot(a)[i] = a[i]
    BY <1>3, <2>1, <2>2, StrippedTokens
  <2>5. /\ StripTrailingDot(b) \in String /\ Len(StripTrailingDot(b)) = k
        /\ \A i \in 1 .. k : StripTrailingDot(b)[i] = b[i]
    BY <1>3, <2>1, <2>2, StrippedTokens
  <2>6. \A i \in 1 .. k : Lower[StripTrailingDot(a)[i]] = Lower[StripTrailingDot(b)[i]]
    BY <1>5, <2>3, <2>4, <2>5
  <2>7. StrCaseEq(StripTrailingDot(a), StripTrailingDot(b))
    BY <2>4, <2>5, <2>6, CaseEqByToken
  <2> QED
    BY <2>7 DEF a, b
<1> QED
  BY <1>6, <1>7

(* A question for the host's name is recognised. *)
LEMMA NameIsLookedUp ==
    ASSUME NEW labels \in Seq(Token \ {Dot}), NEW hostname \in String, IsName(hostname),
           SameLabels(labels, hostname)
    PROVE  hostdb_lookup(WireToText(labels), hostname)
<1>1. TextToWire(hostname) \in Seq(Token \ {Dot})
  BY TextToWireEquations
<1>2. Folded(labels) = Folded(TextToWire(hostname))
  BY DEF SameLabels
<1>3. StrCaseEq(StripTrailingDot(WireToText(labels)),
                StripTrailingDot(WireToText(TextToWire(hostname))))
  BY <1>1, <1>2, QuestionRespectsCase
<1> QED
  BY <1>3 DEF hostdb_lookup, IsName

(* A service as the registry holds it. *)
IsRegistered(svc) == IsDescribed(svc) /\ Findable(svc) /\ IsText(svc.service_type)

(* The server answers in full every question that can be answered so: one  *)
(* for a type with both records of every service of the type, and one for  *)
(* the host's name with the address.                                       *)
LEMMA AnswerableIsAnswered ==
    ASSUME NEW reg, Len(reg) \in Nat, DOMAIN reg = 1 .. Len(reg),
           \A k \in 1 .. Len(reg) : IsRegistered(reg[k]),
           NEW hostname \in String,
           NEW d, d.labels \in Seq(WireLabel), Answerable(d, reg, hostname)
    PROVE  /\ Accepted(d, hostname)
           /\ d.qtype = "SRV" =>
                 /\ Found(reg, QName(d)) = Wanted(reg, d)
                 /\ DOMAIN Wanted(reg, d) = 1 .. Len(Wanted(reg, d))
                 /\ Len(Wanted(reg, d)) \in Nat \ {0}
                 /\ \A n \in DOMAIN Wanted(reg, d) :
                       HoldsBoth(ServiceAnswers(d, Wanted(reg, d)), n)
           /\ d.qtype # "SRV" => d.qtype \in {"A", "AAAA"} /\ AddressFits(d)
<1> DEFINE q == QName(d)
           W == Wanted(reg, d)
<1>1. WellFormed(d) /\ d.qtype \in {"A", "AAAA", "SRV"}
  BY DEF Answerable
<1>2. Parsed(d) /\ is_supported_query_type(d.qtype)
  BY <1>1, WellFormedIsParsed DEF is_supported_query_type
<1> DEFINE w == Bare(d.labels)
<1>3. /\ q \in String /\ q = WireToText(w) /\ w \in Seq(Token \ {Dot}) /\ DotFree(d.labels)
  BY <1>1, BareQuestion DEF WellFormed
<1>4. CASE d.qtype = "SRV"
  <2>1. /\ Len(d.labels) = 3 /\ {d.labels[1][1], d.labels[2][1]} \subseteq Underscored
        /\ W # << >> /\ AllGoIn(d, W)
    BY <1>4 DEF Answerable
  <2> DEFINE M == HaveType(reg, d)
  <2>2. W \in Seq(M)
    <3>1. PICK wanted : IsChoice(wanted, reg, d)
      BY WantedChosen
    <3>2. Len(reg) \in 0 .. Len(reg)
      OBVIOUS
    <3> QED
      BY <3>1, <3>2 DEF IsChoice
  <2>3. \A svc \in M : IsRegistered(svc)
    BY DEF HaveType
  <2> HIDE DEF M, W
  <2>4. DOMAIN W = 1 .. Len(W) /\ Len(W) \in Nat /\ \A k \in 1 .. Len(W) : W[k] \in M
    BY <2>2, LenProperties, ElementOfSeq
  <2>5. \A n \in 1 .. Len(W) : IsName(W[n].service_type)
    <3> TAKE n \in 1 .. Len(W)
    <3>1. IsDescribed(W[n]) /\ IsText(W[n].service_type) /\ n \in DOMAIN W
      BY <2>3, <2>4 DEF IsRegistered
    <3> QED
      BY <2>1, <3>1, WantedTypesAreNames
  <2>6. \A k \in 1 .. Len(reg) : Findable(reg[k])
    BY DEF IsRegistered
  <2>7. Found(reg, QName(d)) = W
    BY <1>3, <2>1, <2>5, <2>6, FoundIsWanted DEF W
  <2>8. Len(W) \in Nat \ {0}
    BY <2>1, <2>2, <2>4, EmptySeq
  <2>9. \A n \in 1 .. Len(W) : HoldsBoth(ServiceAnswers(d, W), n)
    BY <1>3, <2>1, <2>3, <2>4, AllRecorded DEF IsRegistered
  <2> QED
    BY <1>2, <1>4, <2>4, <2>7, <2>8, <2>9 DEF Accepted, W
<1>5. CASE d.qtype # "SRV"
  <2>1. /\ d.qtype \in {"A", "AAAA"} /\ IsName(hostname) /\ SameLabels(w, hostname)
        /\ QuestionFits(q, OUT_LEN) /\ AddressEnd(q, 16) <= OUT_LEN
    BY <1>5 DEF Answerable
  <2>2. Accepted(d, hostname)
    BY <1>2, <1>3, <2>1, NameIsLookedUp DEF Accepted
  <2>3. AddressEnd(q, 4) <= OUT_LEN
    <3> DEFINE x == QuestionEnd(q)
    <3>1. EncodedLen(q) \in Nat
      BY <1>3, EncodedLenType
    <3>2. x \in Nat
      BY <3>1 DEF QuestionEnd, HEADER
    <3>3. AddressEnd(q, 4) = x + 12 + 4 /\ AddressEnd(q, 16) = x + 12 + 16
      BY DEF AddressEnd
    <3> HIDE DEF x
    <3> QED
      BY <2>1, <3>2, <3>3, QuestionsAssumption
  <2>4. AddressFits(d)
    BY <2>1, <2>3 DEF AddressFits
  <2> QED
    BY <1>5, <2>1, <2>2, <2>4
<1> QED
  BY <1>4, <1>5
=============================================================================
