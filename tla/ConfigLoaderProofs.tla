------------------------- MODULE ConfigLoaderProofs -------------------------
(***************************************************************************)
(* The loader's invariants, for every set of configuration files.          *)
(*                                                                         *)
(* Whatever it reads, the loader drives the registry through the           *)
(* registry's own operations only, with services of the registry's type:   *)
(* it implements HostDb, and the invariants proved there hold of it.       *)
(* Unless memory runs out, what it has registered at the end is what the   *)
(* file declares.                                                          *)
(***************************************************************************)
EXTENDS ConfigLoader, QuestionsProofs

P == INSTANCE HostDbProofs WITH Params <- H!Param, QueryNames <- {}

(* Services as a section's lines make them: typed, with a list of TXT      *)
(* strings that may be empty but is there.                                 *)
BeingRead(s) == s \in H!Param /\ s.port < PORT_RANGE /\ s.txt_kv \in Seq(STRING)

(* The part of TypeOK that is about the loader's own variables, and it is  *)
(* inductive: a service that is being read has a list of TXT strings.      *)
LoaderInv ==
    /\ file \in Files
    /\ pc \in {"top", "section", "validate", "register", "done", "aborted"}
    /\ line_num \in 0 .. Len(file)
    /\ g_pending_line \in 0 .. line_num
    /\ BeingRead(svc)
    /\ has \subseteq Required
    /\ domain_is_literal \in BOOLEAN /\ out_of_memory \in BOOLEAN
    /\ service_count \in Nat

(* The last line of what is being read: a header that is left for the main *)
(* loop is behind it.                                                      *)
ReadUpTo == IF g_pending_line = 0 THEN line_num ELSE line_num - 1

(* The registry holds these services, in this order. *)
Holds(declared) ==
    /\ Len(services) = Len(declared)
    /\ \A n \in 1 .. Len(services) : H!NewService(services[n].addr, declared[n]) = services[n]

(* What is being read is the section at line h, from there up to line      *)
(* last, and the sections before it have been dealt with.                  *)
Reads(h, last) ==
    /\ StartsService(file[h])
    /\ \A n \in (h + 1) .. last : ~ IsHeader(file[n])
    /\ svc = ServiceUpTo(file, h, last)
    /\ has = Required \cap KeysIn(file, h, last)
    /\ Holds(DeclaredUpTo(file, h - 1)) /\ DeclaredUpTo(file, last) = DeclaredUpTo(file, h)

(* As long as memory lasts, the registry holds what the lines that are     *)
(* dealt with declare, and the service at hand what its own lines say.     *)
Loading ==
    /\ g_pending_line # 0 => g_pending_line = line_num /\ IsHeader(file[line_num])
    /\ pc = "section" => g_pending_line = 0
    /\ pc = "done" => g_pending_line = 0 /\ line_num = Len(file)
    /\ pc \in {"top", "done"} => Holds(DeclaredUpTo(file, ReadUpTo))
    /\ pc \in {"section", "validate", "register"} =>
          \E h \in 1 .. ReadUpTo :
              Reads(h, ReadUpTo) /\ (pc # "section" => EndOf(file, h) = ReadUpTo)
    /\ pc = "register" => has = Required
LoadInv == ~ out_of_memory => Loading

-----------------------------------------------------------------------------
(* Lemmas. *)

(* A file is a sequence of lines. *)
LEMMA FileFacts ==
    ASSUME NEW f \in Files
    PROVE  /\ Len(f) \in Nat
           /\ \A n \in 1 .. Len(f) : f[n] \in Line
<1>1. f \in Seq(Line)
  BY ConfigAssumption
<1> QED
  BY <1>1, LenProperties, ElementOfSeq

(* What a section starts from is such a service. *)
LEMMA BlankServiceType == BeingRead(BlankService)
<1>1. Local \in Seq(Token) /\ << >> \in Seq(Token)
  BY NamesAssumption
<1>2. << >> \in Seq(STRING)
  OBVIOUS
<1>3. 0 \in Nat /\ 0 < PORT_RANGE /\ DEFAULT_TTL \in Nat
  BY ConfigAssumption
<1> QED
  BY <1>1, <1>2, <1>3 DEF BeingRead, BlankService, H!Param, H!String

(* So is what a line makes of one, whether malloc succeeds or not. *)
LEMMA WithKeyType ==
    ASSUME NEW s, BeingRead(s), NEW line \in Line, NEW copied \in BOOLEAN
    PROVE  BeingRead(WithKey(s, line, copied))
<1> DEFINE text == IF copied THEN line.text ELSE << >>
           txt == IF line.name \in {"txt.a", "txt.b"} /\ copied /\ Len(s.txt_kv) < MAX_TXT_RECORDS
                  THEN Append(s.txt_kv, line.name) ELSE s.txt_kv
           port == IF line.name = "port" THEN Port(line.num) ELSE s.port
           ttl == IF line.name = "ttl" THEN line.num ELSE s.ttl
<1>1. text \in Seq(Token) /\ line.num \in Nat /\ line.name \in STRING
  BY DEF Line, String
<1>2. Port(line.num) \in Nat /\ Port(line.num) < PORT_RANGE
  BY <1>1, ConfigAssumption DEF Port
<1>3. port \in Nat /\ port < PORT_RANGE /\ ttl \in Nat
  BY <1>1, <1>2 DEF BeingRead, H!Param
<1>4. txt \in Seq(STRING)
  <2>1. s.txt_kv \in Seq(STRING)
    BY DEF BeingRead
  <2>2. Append(s.txt_kv, line.name) \in Seq(STRING)
    BY <1>1, <2>1, AppendProperties
  <2> QED
    BY <2>1, <2>2
<1>5. WithKey(s, line, copied) =
        [s EXCEPT
            !.instance = IF line.name = "instance" THEN text ELSE @,
            !.service_type = IF line.name = "type" THEN text ELSE @,
            !.target_host = IF line.name = "target" THEN text ELSE @,
            !.domain = IF line.name = "domain" THEN text ELSE @,
            !.port = port, !.ttl = ttl, !.txt_kv = txt]
  BY DEF WithKey, BeingRead, H!Param
<1> HIDE DEF text, port, txt, ttl
<1> QED
  BY <1>1, <1>3, <1>4, <1>5, ZenonT(60) DEF BeingRead, H!Param, H!String

-----------------------------------------------------------------------------
(* The file as a document. *)

(* A section ends before the next header, or with the file. *)
LEMMA EndOfIs ==
    ASSUME NEW lines \in Files, NEW h \in 1 .. Len(lines), NEW l \in h .. Len(lines),
           \A n \in (h + 1) .. l : ~ IsHeader(lines[n]),
           l = Len(lines) \/ IsHeader(lines[l + 1])
    PROVE  EndOf(lines, h) = l
<1> DEFINE N == Len(lines)
           after == {n \in (h + 1) .. N : IsHeader(lines[n])}
<1>1. N \in Nat /\ h \in Nat /\ l \in Nat /\ h <= l /\ l <= N
  BY FileFacts
<1> HIDE DEF N
<1>2. CASE after = {}
  <2>1. l = N
    <3> SUFFICES ASSUME l # N PROVE FALSE
      OBVIOUS
    <3>1. l + 1 \in (h + 1) .. N /\ IsHeader(lines[l + 1])
      BY <1>1 DEF N
    <3> QED
      BY <1>2, <3>1
  <2> QED
    BY <1>2, <2>1 DEF EndOf, N
<1>3. CASE after # {}
  <2>1. \A n \in after : n \in Nat /\ l + 1 <= n
    <3> TAKE n \in after
    <3>1. n \in Nat /\ n \in (h + 1) .. N /\ n \notin (h + 1) .. l
      BY <1>1
    <3> QED
      BY <1>1, <3>1
  <2>2. l + 1 \in after
    <3>1. l # N
      <4> SUFFICES ASSUME l = N PROVE FALSE
        OBVIOUS
      <4>1. PICK n \in after : TRUE
        BY <1>3
      <4>2. n <= N /\ l + 1 <= n /\ n \in Nat
        BY <1>1, <2>1, <4>1
      <4> QED
        BY <1>1, <4>2
    <3>2. l + 1 \in (h + 1) .. N
      BY <1>1, <3>1
    <3> QED
      BY <3>1, <3>2 DEF N
  <2> HIDE DEF after
  <2> DEFINE first == CHOOSE n \in after : \A m \in after : n <= m
  <2>3. first = l + 1
    <3>1. \A x \in after : (\A m \in after : x <= m) => x = l + 1
      BY <1>1, <2>1, <2>2
    <3>2. \A m \in after : l + 1 <= m
      BY <2>1
    <3> QED
      BY <2>2, <3>1, <3>2
  <2>4. EndOf(lines, h) = first - 1
    BY <1>3 DEF EndOf, after, N
  <2> HIDE DEF first
  <2> QED
    BY <1>1, <2>3, <2>4
<1> QED
  BY <1>2, <1>3

(* It has an end. *)
LEMMA EndOfType ==
    ASSUME NEW lines \in Files, NEW h \in 1 .. Len(lines)
    PROVE  EndOf(lines, h) \in h .. Len(lines)
<1> DEFINE N == Len(lines)
           T == {n \in Nat : n \in (h + 1) .. N /\ IsHeader(lines[n])}
<1>1. N \in Nat /\ h \in Nat /\ h <= N
  BY FileFacts
<1>2. \E l \in h .. N : /\ \A n \in (h + 1) .. l : ~ IsHeader(lines[n])
                        /\ l = N \/ IsHeader(lines[l + 1])
  <2> HIDE DEF N
  <2>1. CASE T = {}
    <3>1. N \in h .. N /\ \A n \in (h + 1) .. N : n \in Nat
      BY <1>1
    <3> QED
      BY <2>1, <3>1
  <2>2. CASE T # {}
    <3>1. PICK n \in T : \A m \in T : n <= m
      BY <2>2, LeastNumber
    <3>2. n - 1 \in h .. N /\ (n - 1) + 1 = n /\ IsHeader(lines[n])
      BY <1>1, <3>1
    <3>3. ASSUME NEW m \in (h + 1) .. (n - 1) PROVE ~ IsHeader(lines[m])
      <4>1. m \in Nat /\ m \in (h + 1) .. N /\ ~ (n <= m)
        BY <1>1, <3>1
      <4> QED
        BY <3>1, <4>1
    <3> QED
      BY <3>2, <3>3
  <2> QED
    BY <2>1, <2>2
<1> QED
  BY <1>2, EndOfIs

(* The service of a section grows line by line. *)
LEMMA ServiceUpToEquations ==
    ASSUME NEW lines \in Files, NEW h \in 1 .. Len(lines)
    PROVE  /\ ServiceUpTo(lines, h, h) = BlankService
           /\ \A l \in (h + 1) .. Len(lines) :
                 ServiceUpTo(lines, h, l) =
                    IF lines[l].kind = "key"
                    THEN WithKey(ServiceUpTo(lines, h, l - 1), lines[l], TRUE)
                    ELSE ServiceUpTo(lines, h, l - 1)
           /\ \A l \in 0 .. Len(lines) : BeingRead(ServiceUpTo(lines, h, l))
<1> DEFINE N == Len(lines)
           turn(s, n) == IF n <= h THEN BlankService
                         ELSE IF lines[n].kind = "key" THEN WithKey(s, lines[n], TRUE) ELSE s
           S == {s \in H!Param : BeingRead(s)}
           step == [s \in S |-> [n \in 1 .. N |-> turn(s, n)]]
           Body(f) == [n \in 0 .. Len(lines) |->
                          IF n <= h THEN BlankService
                          ELSE IF lines[n].kind = "key" THEN WithKey(f[n - 1], lines[n], TRUE)
                          ELSE f[n - 1]]
           upto == CHOOSE f : f = Body(f)
<1>1. /\ N \in Nat /\ h \in Nat /\ h >= 1 /\ h <= N /\ \A n \in 1 .. N : lines[n] \in Line
  BY FileFacts
<1>2. BlankService \in S /\ \A s \in S, n \in 1 .. N : turn(s, n) \in S
  <2>1. \A s : BeingRead(s) => s \in S
    BY DEF BeingRead
  <2>2. \A s \in S, n \in 1 .. N : BeingRead(WithKey(s, lines[n], TRUE))
    BY <1>1, WithKeyType
  <2>3. BeingRead(BlankService)
    BY BlankServiceType
  <2> HIDE DEF S
  <2> QED
    BY <2>1, <2>2, <2>3
<1>3. \A s \in S : BeingRead(s)
  OBVIOUS
<1> HIDE DEF S
<1>4. /\ step \in [S -> [1 .. N -> S]]
      /\ \A s \in S, n \in 1 .. N : step[s][n] = turn(s, n)
  BY <1>2
<1> HIDE DEF step
<1>5. PICK f \in [0 .. N -> S] : IsLoop(f, BlankService, step, N)
  <2> HIDE DEF N
  <2> QED
    BY <1>1, <1>2, <1>4, CountedRecursion
<1>6. f = Body(f)
  <2>1. \A n \in 0 .. N : f[n] = Body(f)[n]
    <3> TAKE n \in 0 .. N
    <3>1. CASE n = 0
      BY <1>1, <1>5, <3>1 DEF IsLoop
    <3>2. CASE n # 0
      <4>1. n \in 1 .. N /\ n - 1 \in 0 .. N
        BY <1>1, <3>2
      <4>2. f[n] = turn(f[n - 1], n)
        BY <1>4, <1>5, <4>1 DEF IsLoop
      <4> QED
        BY <4>2
    <3> QED
      BY <3>1, <3>2
  <2>2. f = [n \in 0 .. N |-> f[n]] /\ Body(f) = [n \in 0 .. N |-> Body(f)[n]]
    BY <1>5
  <2> HIDE DEF Body
  <2> QED
    BY <2>1, <2>2, Zenon
<1>7. upto = Body(upto)
  BY <1>6
<1> HIDE DEF upto
<1>8. \A l : ServiceUpTo(lines, h, l) = upto[l]
  BY DEF ServiceUpTo, upto
<1>9. /\ upto[0] = BlankService
      /\ \A n \in 1 .. N : upto[n] = turn(upto[n - 1], n)
  <2>1. 0 \in 0 .. N /\ 0 <= h /\ \A n \in 1 .. N : n \in 0 .. N
    BY <1>1
  <2> QED
    BY <1>7, <2>1
<1>10. \A l \in 0 .. N : upto[l] \in S
  <2> DEFINE T == {l \in Nat : l <= N => upto[l] \in S}
  <2> HIDE DEF turn, N
  <2>1. 0 \in T
    BY <1>2, <1>9
  <2>2. ASSUME NEW l \in Nat, l \in T PROVE l + 1 \in T
    <3> SUFFICES ASSUME l + 1 <= N PROVE upto[l + 1] \in S
      OBVIOUS
    <3>1. l + 1 \in 1 .. N /\ (l + 1) - 1 = l /\ upto[l] \in S
      BY <1>1, <2>2
    <3> QED
      BY <1>2, <1>9, <3>1
  <2> HIDE DEF T
  <2>3. Nat \subseteq T
    BY <2>1, <2>2, Induction
  <2> QED
    BY <2>3 DEF T
<1>11. upto[h] = BlankService
  <2>1. h \in 1 .. N /\ h <= h
    BY <1>1
  <2> HIDE DEF N
  <2>2. upto[h] = turn(upto[h - 1], h)
    BY <1>9, <2>1
  <2> QED
    BY <2>1, <2>2
<1>12. \A l \in (h + 1) .. N : l \in 1 .. N /\ ~ (l <= h)
  BY <1>1
<1>13. \A l \in (h + 1) .. N :
          upto[l] = IF lines[l].kind = "key" THEN WithKey(upto[l - 1], lines[l], TRUE)
                    ELSE upto[l - 1]
  BY <1>9, <1>12
<1> QED
  BY <1>3, <1>8, <1>10, <1>11, <1>13

(* The sections that register are found line by line. *)
LEMMA DeclaredEquations ==
    ASSUME NEW lines \in Files
    PROVE  /\ DeclaredUpTo(lines, 0) = << >>
           /\ \A l \in 1 .. Len(lines) :
                 DeclaredUpTo(lines, l) =
                    IF Registers(lines, l, DeclaredUpTo(lines, l - 1))
                    THEN Append(DeclaredUpTo(lines, l - 1), ServiceAt(lines, l))
                    ELSE DeclaredUpTo(lines, l - 1)
           /\ \A l \in 0 .. Len(lines) : DeclaredUpTo(lines, l) \in Seq(H!Param)
<1> DEFINE N == Len(lines)
           turn(s, n) == IF Registers(lines, n, s) THEN Append(s, ServiceAt(lines, n)) ELSE s
           S == Seq(H!Param)
           step == [s \in S |-> [n \in 1 .. N |-> turn(s, n)]]
           Body(f) == [n \in 0 .. Len(lines) |->
                          IF n = 0 THEN << >>
                          ELSE IF Registers(lines, n, f[n - 1])
                               THEN Append(f[n - 1], ServiceAt(lines, n))
                               ELSE f[n - 1]]
           upto == CHOOSE f : f = Body(f)
<1>1. N \in Nat
  BY FileFacts
<1>2. << >> \in S /\ \A s \in S, n \in 1 .. N : turn(s, n) \in S
  <2>1. ASSUME NEW n \in 1 .. N PROVE ServiceAt(lines, n) \in H!Param
    <3>1. EndOf(lines, n) \in n .. Len(lines)
      BY EndOfType
    <3>2. EndOf(lines, n) \in 0 .. Len(lines)
      BY <1>1, <3>1
    <3> QED
      BY <3>2, ServiceUpToEquations DEF ServiceAt, BeingRead
  <2>2. \A s \in Seq(H!Param), e \in H!Param : Append(s, e) \in Seq(H!Param)
    BY AppendProperties
  <2> QED
    BY <2>1, <2>2, EmptySeq
<1>3. S = Seq(H!Param)
  OBVIOUS
<1> HIDE DEF S
<1>4. /\ step \in [S -> [1 .. N -> S]]
      /\ \A s \in S, n \in 1 .. N : step[s][n] = turn(s, n)
  BY <1>2
<1> HIDE DEF step
<1>5. PICK f \in [0 .. N -> S] : IsLoop(f, << >>, step, N)
  <2> HIDE DEF N
  <2> QED
    BY <1>1, <1>2, <1>4, CountedRecursion
<1>6. f = Body(f)
  <2>1. \A n \in 0 .. N : f[n] = Body(f)[n]
    <3> TAKE n \in 0 .. N
    <3>1. CASE n = 0
      BY <1>1, <1>5, <3>1 DEF IsLoop
    <3>2. CASE n # 0
      <4>1. n \in 1 .. N /\ n - 1 \in 0 .. N
        BY <1>1, <3>2
      <4>2. f[n] = turn(f[n - 1], n)
        BY <1>4, <1>5, <4>1 DEF IsLoop
      <4> QED
        BY <3>2, <4>2
    <3> QED
      BY <3>1, <3>2
  <2>2. f = [n \in 0 .. N |-> f[n]] /\ Body(f) = [n \in 0 .. N |-> Body(f)[n]]
    BY <1>5
  <2> HIDE DEF Body
  <2> QED
    BY <2>1, <2>2, Zenon
<1>7. upto = Body(upto)
  BY <1>6
<1> HIDE DEF upto
<1>8. \A l : DeclaredUpTo(lines, l) = upto[l]
  BY DEF DeclaredUpTo, upto
<1>9. upto[0] = << >> /\ \A n \in 1 .. N : upto[n] = turn(upto[n - 1], n)
  <2>1. 0 \in 0 .. N /\ \A n \in 1 .. N : n \in 0 .. N /\ n # 0
    BY <1>1
  <2> QED
    BY <1>7, <2>1
<1>10. \A l \in 0 .. N : upto[l] \in S
  <2> DEFINE T == {l \in Nat : l <= N => upto[l] \in S}
  <2> HIDE DEF turn, N
  <2>1. 0 \in T
    BY <1>2, <1>9
  <2>2. ASSUME NEW l \in Nat, l \in T PROVE l + 1 \in T
    <3> SUFFICES ASSUME l + 1 <= N PROVE upto[l + 1] \in S
      OBVIOUS
    <3>1. l + 1 \in 1 .. N /\ (l + 1) - 1 = l /\ upto[l] \in S
      BY <1>1, <2>2
    <3> QED
      BY <1>2, <1>9, <3>1
  <2> HIDE DEF T
  <2>3. Nat \subseteq T
    BY <2>1, <2>2, Induction
  <2> QED
    BY <2>3 DEF T
<1> QED
  BY <1>3, <1>8, <1>9, <1>10

-----------------------------------------------------------------------------
(* The loader's own variables. *)

(* The loader's invariant holds before the file is opened. *)
LEMMA LoaderInit == Init => LoaderInv
<1> SUFFICES ASSUME Init PROVE LoaderInv
  OBVIOUS
<1>1. file \in Files /\ Len(file) \in Nat
  BY FileFacts DEF Init
<1>2. BeingRead(svc)
  BY BlankServiceType DEF Init
<1>3. line_num \in 0 .. Len(file) /\ g_pending_line \in 0 .. line_num
  BY <1>1 DEF Init
<1>4. has \subseteq Required /\ service_count \in Nat
  BY DEF Init
<1> QED
  BY <1>1, <1>2, <1>3, <1>4 DEF Init, LoaderInv

(* The main loop, wherever its line comes from. *)
LEMMA TakeLineStep ==
    ASSUME LoaderInv, NEW n, TakeLine(n), file' = file, service_count' = service_count,
           out_of_memory' = out_of_memory,
           line_num' \in 0 .. Len(file), g_pending_line' \in 0 .. line_num'
    PROVE  LoaderInv'
<1>1. BeingRead(svc)' /\ has' \subseteq Required /\ domain_is_literal' \in BOOLEAN
  BY BlankServiceType DEF LoaderInv, TakeLine, section, BeingRead
<1>2. pc' \in {"top", "section", "validate", "register", "done", "aborted"}
  BY DEF LoaderInv, TakeLine
<1> QED
  BY <1>1, <1>2 DEF LoaderInv

(* Every step of the loader keeps it. *)
LEMMA LoaderStep == LoaderInv /\ [Next]_vars => LoaderInv'
<1> SUFFICES ASSUME LoaderInv, [Next]_vars PROVE LoaderInv'
  OBVIOUS
<1> USE DEF section
<1>0. Len(file) \in Nat /\ line_num \in Nat
  BY FileFacts DEF LoaderInv
<1>1. CASE TakePending
  <2>1. g_pending_line' \in 0 .. line_num' /\ line_num' = line_num
    BY <1>0, <1>1 DEF TakePending
  <2> QED
    BY <1>1, <2>1, TakeLineStep DEF TakePending, LoaderInv
<1>2. CASE TakeNext
  <2>1. line_num' \in 0 .. Len(file) /\ g_pending_line' \in 0 .. line_num'
    BY <1>0, <1>2 DEF TakeNext, LoaderInv
  <2>2. TakeLine(line_num + 1)
    BY <1>2 DEF TakeNext
  <2> QED
    BY <1>2, <2>1, <2>2, TakeLineStep DEF TakeNext
<1>3. CASE EndOfFile
  BY <1>3 DEF EndOfFile, LoaderInv, BeingRead
<1>4. CASE ReadKey
  <2> DEFINE line == file[line_num + 1]
  <2>1. line_num + 1 \in 1 .. Len(file)
    BY <1>0, <1>4 DEF ReadKey
  <2>2. line \in Line
    BY <2>1, FileFacts DEF LoaderInv
  <2> HIDE DEF line
  <2>3. PICK copied \in {TRUE, ~ Copies(line)} :
              /\ svc' = WithKey(svc, line, copied)
              /\ out_of_memory' = (out_of_memory \/ ~ copied)
    BY <1>4 DEF ReadKey, line
  <2>4. copied \in BOOLEAN /\ out_of_memory' \in BOOLEAN
    BY <2>3 DEF LoaderInv, Copies
  <2>5. BeingRead(svc')
    BY <2>2, <2>3, <2>4, WithKeyType DEF LoaderInv
  <2>6. /\ line_num' = line_num + 1
        /\ has' = has \cup (Required \cap {line.name})
        /\ domain_is_literal' = (domain_is_literal /\ line.name # "domain")
        /\ UNCHANGED <<file, pc, g_pending_line, service_count>>
    BY <1>4 DEF ReadKey, line
  <2>7. has' \subseteq Required /\ domain_is_literal' \in BOOLEAN
    BY <2>6 DEF LoaderInv
  <2>8. line_num' \in 0 .. Len(file') /\ g_pending_line' \in 0 .. line_num'
    BY <2>1, <2>6, <1>0 DEF LoaderInv
  <2> QED
    BY <2>4, <2>5, <2>6, <2>7, <2>8 DEF LoaderInv, BeingRead
<1>5. CASE SkipLine
  <2>1. line_num' \in 0 .. Len(file') /\ g_pending_line' \in 0 .. line_num'
    BY <1>0, <1>5 DEF SkipLine, LoaderInv
  <2> QED
    BY <1>5, <2>1 DEF SkipLine, LoaderInv, BeingRead
<1>6. CASE SectionEnds
  <2>1. line_num' \in 0 .. Len(file') /\ g_pending_line' \in 0 .. line_num'
    BY <1>0, <1>6 DEF SectionEnds, LoaderInv
  <2> QED
    BY <1>6, <2>1 DEF SectionEnds, LoaderInv, BeingRead
<1>7. CASE Validate
  BY <1>7 DEF Validate, Reject, LoaderInv, BeingRead
<1>8. CASE RegisterFails
  <2>1. out_of_memory' \in BOOLEAN
    BY <1>8 DEF RegisterFails, LoaderInv
  <2>2. /\ pc' \in {"top", "aborted"}
        /\ UNCHANGED <<file, line_num, g_pending_line, svc, has, domain_is_literal, service_count>>
    BY <1>8 DEF RegisterFails, Reject
  <2> QED
    BY <2>1, <2>2 DEF LoaderInv, BeingRead
<1>9. CASE RegisterSucceeds
  <2>1. service_count' \in Nat
    BY <1>9 DEF RegisterSucceeds, LoaderInv
  <2>2. /\ pc' = "top"
        /\ UNCHANGED <<file, line_num, g_pending_line, svc, has, domain_is_literal, out_of_memory>>
    BY <1>9 DEF RegisterSucceeds
  <2> QED
    BY <2>1, <2>2 DEF LoaderInv, BeingRead
<1>10. CASE UNCHANGED vars
  BY <1>10 DEF vars, LoaderInv, BeingRead
<1> QED
  BY <1>1, <1>2, <1>3, <1>4, <1>5, <1>6, <1>7, <1>8, <1>9, <1>10 DEF Next, Stopped

(* What the loader reads is typed, whatever the file. *)
LEMMA LoaderInvariance == Spec => []LoaderInv
<1>1. Init => LoaderInv
  BY LoaderInit
<1>2. LoaderInv /\ [Next]_vars => LoaderInv'
  BY LoaderStep
<1> QED
  BY <1>1, <1>2, PTL DEF Spec

-----------------------------------------------------------------------------
(* The registry. *)

(* The registry is given services and names that it can hold. *)
LEMMA RegistryAssumption == P!HostDbAssumption
<1>1. H!Param = P!Param
  BY DEF H!Param, P!Param, H!String, P!String
<1>2. {} \subseteq P!String
  OBVIOUS
<1>3. P!IsFiniteSet(Addr)
  BY ConfigAssumption DEF IsFiniteSet, P!IsFiniteSet
<1> QED
  BY <1>1, <1>2, <1>3, ConfigAssumption DEF P!HostDbAssumption

(* The registry's operations, under either of its names here. *)
LEMMA SameOperators ==
    ASSUME NEW s, NEW a, NEW reg, NEW n, NEW c, NEW txt, NEW k
    PROVE  /\ H!validate_service(s) <=> P!validate_service(s)
           /\ H!IsDuplicate(reg, s) <=> P!IsDuplicate(reg, s)
           /\ H!NewService(a, s) = P!NewService(a, s)
           /\ H!NewCapacity(n, c) = P!NewCapacity(n, c)
           /\ H!CopiedTxt(s) = P!CopiedTxt(s)
           /\ H!BlocksOf(n, txt) = P!BlocksOf(n, txt)
           /\ H!free_service(n, txt, k) = P!free_service(n, txt, k)
           /\ H!PartialServices(s) = P!PartialServices(s)
<1>1. H!Fqdn(s) = P!Fqdn(s) /\ \A i : H!Fqdn(i) = P!Fqdn(i)
  BY DEF H!Fqdn, P!Fqdn
<1>2. \A u, v : H!StrCaseEq(u, v) <=> P!StrCaseEq(u, v)
  BY DEF H!StrCaseEq, P!StrCaseEq, H!Folded, P!Folded
<1>3. \A u : H!StrLen(u) = P!StrLen(u)
  BY DEF H!StrLen, P!StrLen, H!String, P!String, H!Front, P!Front, H!Last, P!Last
<1>4. \A u : H!Fits(u) <=> P!Fits(u)
  BY <1>1, <1>3 DEF H!Fits, P!Fits
<1>5. H!validate_service(s) <=> P!validate_service(s)
  BY <1>2 DEF H!validate_service, P!validate_service, H!StartsWithUnderscore, P!StartsWithUnderscore
<1>6. H!IsDuplicate(reg, s) <=> P!IsDuplicate(reg, s)
  BY <1>1, <1>2, <1>4 DEF H!IsDuplicate, P!IsDuplicate, H!HasName, P!HasName
<1>7. H!CopiedTxt(s) = P!CopiedTxt(s)
  BY DEF H!CopiedTxt, P!CopiedTxt
<1>8. H!NewService(a, s) = P!NewService(a, s)
  BY <1>7 DEF H!NewService, P!NewService, H!Ttl, P!Ttl, H!CountOf, P!CountOf
<1>9. H!PartialServices(s) = P!PartialServices(s)
  BY <1>7 DEF H!PartialServices, P!PartialServices
<1>10. /\ H!NewCapacity(n, c) = P!NewCapacity(n, c)
       /\ H!BlocksOf(n, txt) = P!BlocksOf(n, txt)
       /\ H!free_service(n, txt, k) = P!free_service(n, txt, k)
  BY DEF H!NewCapacity, P!NewCapacity, H!BlocksOf, P!BlocksOf, H!free_service, P!free_service
<1> QED
  BY <1>5, <1>6, <1>7, <1>8, <1>9, <1>10

(* A registration that the loader makes is one of the registry's own. *)
LEMMA SameRegistrations ==
    ASSUME NEW s
    PROVE  /\ H!Register(s) => P!Register(s)
           /\ H!RegisterOutOfMemory(s) => P!RegisterOutOfMemory(s)
<1>1. /\ H!validate_service(s) <=> P!validate_service(s)
      /\ H!IsDuplicate(services, s) <=> P!IsDuplicate(services, s)
      /\ \A a : H!NewService(a, s) = P!NewService(a, s)
      /\ H!NewCapacity(Len(services), service_capacity)
            = P!NewCapacity(Len(services), service_capacity)
      /\ H!CopiedTxt(s) = P!CopiedTxt(s)
      /\ \A n, txt : H!BlocksOf(n, txt) = P!BlocksOf(n, txt)
      /\ \A n, txt, k : H!free_service(n, txt, k) = P!free_service(n, txt, k)
      /\ H!PartialServices(s) = P!PartialServices(s)
  BY SameOperators, Zenon
<1>2. ASSUME H!Register(s) PROVE P!Register(s)
  BY <1>1, <1>2 DEF H!Register, P!Register
<1>3. ASSUME H!RegisterOutOfMemory(s) PROVE P!RegisterOutOfMemory(s)
  BY <1>1, <1>3 DEF H!RegisterOutOfMemory, P!RegisterOutOfMemory
<1> QED
  BY <1>2, <1>3

(* A step of the loader is one of the registry's own, or leaves it alone. *)
LEMMA RegistryStep == LoaderInv /\ [Next]_vars => [P!Next]_(P!vars)
<1> SUFFICES ASSUME LoaderInv, [Next]_vars, ~ UNCHANGED registry PROVE P!Next
  BY DEF registry, P!vars
<1>1. svc \in H!Param
  BY DEF LoaderInv, BeingRead
<1>2. CASE RegisterFails
  <2>1. P!RegisterOutOfMemory(svc)
    BY <1>2, SameRegistrations DEF RegisterFails
  <2> QED
    BY <1>1, <2>1 DEF P!Next
<1>3. CASE RegisterSucceeds
  <2>1. P!Register(svc)
    BY <1>3, SameRegistrations DEF RegisterSucceeds
  <2> QED
    BY <1>1, <2>1 DEF P!Next
<1> QED
  BY <1>2, <1>3 DEF Next, vars, TakePending, TakeNext, EndOfFile, ReadKey, SkipLine,
                    SectionEnds, Validate, Stopped

(* The loader drives the registry as HostDb describes it. *)
THEOREM DrivesTheRegistry == Spec => P!Spec
<1>1. Init => P!Init
  BY DEF Init, H!Init, P!Init
<1>2. LoaderInv /\ [Next]_vars => [P!Next]_(P!vars)
  BY RegistryStep
<1> QED
  BY <1>1, <1>2, LoaderInvariance, PTL DEF Spec, P!Spec

(* So what the registry promises holds while it is loaded: names are       *)
(* unique, every block has its owner, and stored services are valid.       *)
THEOREM RegistrySound == Spec => []P!IInv
<1>1. P!Spec => []P!IInv
  BY RegistryAssumption, NamesAssumption, P!Invariance DEF P!HostDbAssumption
<1> QED
  BY <1>1, DrivesTheRegistry, PTL

-----------------------------------------------------------------------------
(* What is loaded. *)

(* A service has the name of the section it was made from. *)
LEMMA HeldDuplicates ==
    ASSUME NEW declared \in Seq(H!Param), Holds(declared), services \in Seq(P!Service), NEW s
    PROVE  H!IsDuplicate(services, s) <=> H!IsDuplicate(declared, s)
<1>1. /\ Len(services) = Len(declared)
      /\ \A n \in 1 .. Len(services) : H!NewService(services[n].addr, declared[n]) = services[n]
  BY DEF Holds
<1>2. \A a, p : /\ H!NewService(a, p).instance = p.instance
                /\ H!NewService(a, p).service_type = p.service_type
                /\ H!NewService(a, p).domain = p.domain
  BY DEF H!NewService
<1>3. \A n \in 1 .. Len(services) : H!Fqdn(services[n]) = H!Fqdn(declared[n])
  <2> TAKE n \in 1 .. Len(services)
  <2>1. /\ services[n].instance = declared[n].instance
        /\ services[n].service_type = declared[n].service_type
        /\ services[n].domain = declared[n].domain
    BY <1>1, <1>2
  <2> QED
    BY <2>1 DEF H!Fqdn
<1>4. DOMAIN services = 1 .. Len(services) /\ DOMAIN declared = 1 .. Len(services)
  BY <1>1, LenProperties
<1>5. \A n \in 1 .. Len(services) : \A f : H!HasName(services[n], f) <=> H!HasName(declared[n], f)
  BY <1>3 DEF H!HasName, H!Fits
<1> QED
  BY <1>4, <1>5 DEF H!IsDuplicate

(* One more service, made from one more section. *)
LEMMA HeldAppended ==
    ASSUME NEW declared \in Seq(H!Param), Holds(declared), services \in Seq(P!Service),
           NEW s \in H!Param, NEW a, services' = Append(services, H!NewService(a, s))
    PROVE  Holds(Append(declared, s))'
<1> DEFINE x == H!NewService(a, s)
           S == P!Service \cup {x}
           n == Len(services)
<1>1. services \in Seq(S) /\ x \in S
  BY SeqMonotonic
<1>2. /\ n \in Nat /\ Len(services') = n + 1 /\ services'[n + 1] = x
      /\ \A k \in 1 .. n : services'[k] = services[k]
  <2> HIDE DEF S, x
  <2> QED
    BY <1>1, AppendProperties, LenProperties DEF x
<1>3. /\ Len(declared) = n /\ Len(Append(declared, s)) = n + 1 /\ Append(declared, s)[n + 1] = s
      /\ \A k \in 1 .. n : Append(declared, s)[k] = declared[k]
  <2>1. Len(declared) = n
    BY DEF Holds
  <2> QED
    BY <2>1, AppendProperties
<1>4. x.addr = a
  BY DEF H!NewService
<1>5. \A k \in 1 .. n : H!NewService(services[k].addr, declared[k]) = services[k]
  BY DEF Holds
<1> HIDE DEF n, x
<1>6. ASSUME NEW k \in 1 .. n + 1
      PROVE  H!NewService(services'[k].addr, Append(declared, s)[k]) = services'[k]
  <2>1. CASE k = n + 1
    BY <1>2, <1>3, <1>4, <2>1 DEF x
  <2>2. CASE k # n + 1
    <3>1. k \in 1 .. n
      BY <1>2, <2>2
    <3> QED
      BY <1>2, <1>3, <1>5, <3>1
  <2> QED
    BY <2>1, <2>2
<1> QED
  BY <1>2, <1>3, <1>6 DEF Holds

(* Before the first line nothing is declared and nothing registered. *)
LEMMA LoadInit == Init => LoadInv
<1> SUFFICES ASSUME Init PROVE Loading
  BY DEF LoadInv
<1>1. file \in Files /\ services = << >> /\ line_num = 0 /\ g_pending_line = 0 /\ pc = "top"
  BY DEF Init, H!Init
<1>2. DeclaredUpTo(file, 0) = << >>
  BY <1>1, DeclaredEquations
<1>3. Holds(<< >>)
  <2>1. Len(<< >>) = 0 /\ 1 .. 0 = {}
    OBVIOUS
  <2> QED
    BY <1>1, <2>1 DEF Holds
<1> QED
  BY <1>1, <1>2, <1>3 DEF Loading, ReadUpTo

(* The main loop takes the next line, or the one that was left, once: a    *)
(* section starts at it, or it declares nothing.                           *)
LEMMA TakeLineLoads ==
    ASSUME LoaderInv, Loading, pc = "top", NEW n \in 1 .. Len(file), n = ReadUpTo + 1, TakeLine(n),
           line_num' = n, g_pending_line' = 0, UNCHANGED <<file, services>>
    PROVE  Loading'
<1>1. file \in Files /\ Len(file) \in Nat /\ n \in Nat /\ n >= 1
  BY FileFacts DEF LoaderInv
<1>2. ReadUpTo \in Nat /\ n - 1 = ReadUpTo
  BY <1>1 DEF ReadUpTo, LoaderInv
<1>3. Holds(DeclaredUpTo(file, n - 1))
  BY <1>2 DEF Loading
<1>4. ReadUpTo' = n
  BY DEF ReadUpTo
<1>5. CASE StartsService(file[n])
  <2>1. pc' = "section" /\ svc' = BlankService /\ has' = {}
    BY <1>5 DEF TakeLine
  <2>2. ServiceUpTo(file, n, n) = BlankService
    BY <1>1, ServiceUpToEquations
  <2>3. (n + 1) .. n = {} /\ KeysIn(file, n, n) = {}
    BY <1>1 DEF KeysIn
  <2>4. Holds(DeclaredUpTo(file, n - 1))'
    BY <1>3 DEF Holds
  <2>5. Reads(n, n)'
    BY <1>5, <2>1, <2>2, <2>3, <2>4 DEF Reads
  <2>6. n \in 1 .. ReadUpTo'
    BY <1>1, <1>4
  <2> QED
    BY <1>4, <2>1, <2>5, <2>6 DEF Loading
<1>6. CASE ~ StartsService(file[n])
  <2>1. pc' = "top"
    BY <1>6 DEF TakeLine
  <2>2. DeclaredUpTo(file, n) = DeclaredUpTo(file, n - 1)
    BY <1>1, <1>6, DeclaredEquations DEF Registers
  <2>3. Holds(DeclaredUpTo(file, n))'
    BY <1>3, <2>2 DEF Holds
  <2> QED
    BY <1>4, <2>1, <2>3 DEF Loading
<1> QED
  BY <1>5, <1>6

(* A line of a section adds its key to the service, if it has one. *)
LEMMA SectionLoads ==
    ASSUME LoaderInv, Loading, ReadKey \/ SkipLine, ~ out_of_memory'
    PROVE  Loading'
<1>0. PICK l \in Nat : l = line_num
  BY FileFacts DEF LoaderInv
<1> DEFINE line == file[l + 1]
<1>1. /\ pc = "section" /\ l < Len(file) /\ line_num' = l + 1
      /\ UNCHANGED <<registry, file, pc, g_pending_line>>
      /\ ~ IsHeader(line)
  BY <1>0 DEF ReadKey, SkipLine, IsHeader
<1>2. file \in Files /\ Len(file) \in Nat
  BY FileFacts DEF LoaderInv
<1>3. g_pending_line = 0 /\ ReadUpTo = l /\ ReadUpTo' = l + 1
  BY <1>0, <1>1 DEF Loading, ReadUpTo
<1>4. PICK h \in 1 .. l : Reads(h, l)
  BY <1>1, <1>3 DEF Loading
<1>5. h \in 1 .. Len(file) /\ l + 1 \in (h + 1) .. Len(file) /\ (l + 1) - 1 = l /\ h \in 1 .. l + 1
      /\ l + 1 \in 1 .. Len(file) /\ (l + 1) \in (h + 1) .. l + 1
  BY <1>1, <1>2, <1>4
<1>6. \A n \in (h + 1) .. l + 1 : n = l + 1 \/ n \in (h + 1) .. l
  BY <1>2, <1>4
<1>7. (h + 1) .. l \subseteq (h + 1) .. l + 1
  BY <1>2, <1>4
<1>8. ServiceUpTo(file, h, l + 1) =
        IF line.kind = "key" THEN WithKey(ServiceUpTo(file, h, l), line, TRUE)
        ELSE ServiceUpTo(file, h, l)
  <2> HIDE DEF line
  <2>1. ServiceUpTo(file, h, l + 1) =
          IF file[l + 1].kind = "key"
          THEN WithKey(ServiceUpTo(file, h, (l + 1) - 1), file[l + 1], TRUE)
          ELSE ServiceUpTo(file, h, (l + 1) - 1)
    BY <1>2, <1>5, ServiceUpToEquations
  <2> QED
    BY <1>5, <2>1 DEF line
<1>9. KeysIn(file, h, l + 1) = KeysIn(file, h, l) \cup (IF line.kind = "key" THEN {line.name} ELSE {})
  <2> DEFINE A == {m \in (h + 1) .. l : file[m].kind = "key"}
             B == {m \in (h + 1) .. l + 1 : file[m].kind = "key"}
  <2>1. B = A \cup (IF line.kind = "key" THEN {l + 1} ELSE {})
    BY <1>5, <1>6, <1>7
  <2>2. KeysIn(file, h, l) = {file[n].name : n \in A} /\ KeysIn(file, h, l + 1) = {file[n].name : n \in B}
    BY DEF KeysIn
  <2> HIDE DEF A, B
  <2> QED
    BY <2>1, <2>2
<1>10. DeclaredUpTo(file, l + 1) = DeclaredUpTo(file, l)
  <2>1. ~ StartsService(file[l + 1])
    BY <1>1 DEF IsHeader, StartsService
  <2> HIDE DEF line
  <2>2. DeclaredUpTo(file, l + 1) = DeclaredUpTo(file, (l + 1) - 1)
    BY <1>2, <1>5, <2>1, DeclaredEquations DEF Registers
  <2> QED
    BY <1>5, <2>2
<1>11. svc' = ServiceUpTo(file, h, l + 1) /\ has' = Required \cap KeysIn(file, h, l + 1)
  <2>1. svc = ServiceUpTo(file, h, l) /\ has = Required \cap KeysIn(file, h, l)
    BY <1>4 DEF Reads
  <2>2. CASE ReadKey
    <3>1. line.kind = "key" /\ has' = has \cup (Required \cap {line.name})
      BY <1>0, <2>2 DEF ReadKey
    <3>2. PICK copied \in {TRUE, ~ Copies(line)} :
                /\ svc' = WithKey(svc, line, copied)
                /\ out_of_memory' = (out_of_memory \/ ~ copied)
      BY <1>0, <2>2 DEF ReadKey
    <3>3. copied \in BOOLEAN /\ copied
      BY <3>2 DEF Copies
    <3>4. copied = TRUE
      BY <3>3
    <3> HIDE DEF line
    <3> QED
      BY <1>8, <1>9, <2>1, <3>1, <3>2, <3>4
  <2>3. CASE SkipLine
    <3>1. line.kind # "key" /\ UNCHANGED <<svc, has>>
      BY <1>0, <2>3 DEF SkipLine, section
    <3> QED
      BY <1>8, <1>9, <2>1, <3>1
  <2> QED
    BY <2>2, <2>3
<1>12. Reads(h, l + 1)'
  <2>1. /\ StartsService(file[h]) /\ \A n \in (h + 1) .. l : ~ IsHeader(file[n])
        /\ Holds(DeclaredUpTo(file, h - 1)) /\ DeclaredUpTo(file, l) = DeclaredUpTo(file, h)
    BY <1>4 DEF Reads
  <2>2. \A n \in (h + 1) .. l + 1 : ~ IsHeader(file[n])
    BY <1>1, <1>6, <2>1
  <2>3. services' = services /\ file' = file
    BY <1>1 DEF registry
  <2>4. Holds(DeclaredUpTo(file, h - 1))'
    BY <2>1, <2>3 DEF Holds
  <2> HIDE DEF line
  <2> QED
    BY <1>1, <1>10, <1>11, <2>1, <2>2, <2>3, <2>4 DEF Reads
<1> QED
  BY <1>1, <1>3, <1>5, <1>12 DEF Loading

(* A section ends at the header it leaves, or with the file. *)
LEMMA SectionEndLoads ==
    ASSUME LoaderInv, Loading, SectionEnds
    PROVE  Loading'
<1>0. PICK l \in Nat : l = line_num
  BY FileFacts DEF LoaderInv
<1>1. /\ pc = "section" /\ pc' = "validate"
      /\ UNCHANGED <<services, file, svc, has>>
      /\ \/ l = Len(file) /\ UNCHANGED <<line_num, g_pending_line>>
         \/ /\ l < Len(file) /\ IsHeader(file[l + 1])
            /\ line_num' = l + 1 /\ g_pending_line' = l + 1
  BY <1>0 DEF SectionEnds, section, registry
<1>2. file \in Files /\ Len(file) \in Nat /\ l <= Len(file) /\ l + 1 # 0 /\ (l + 1) - 1 = l
  BY <1>0, FileFacts DEF LoaderInv
<1>3. g_pending_line = 0 /\ ReadUpTo = l
  BY <1>0, <1>1 DEF Loading, ReadUpTo
<1>4. PICK h \in 1 .. l : Reads(h, l)
  BY <1>1, <1>3 DEF Loading
<1>5. ReadUpTo' = l
  BY <1>0, <1>1, <1>2, <1>3 DEF ReadUpTo
<1>6. EndOf(file, h) = l
  <2>1. h \in 1 .. Len(file) /\ l \in h .. Len(file)
    BY <1>2, <1>4
  <2>2. \A n \in (h + 1) .. l : ~ IsHeader(file[n])
    BY <1>4 DEF Reads
  <2>3. l = Len(file) \/ IsHeader(file[l + 1])
    BY <1>1
  <2> QED
    BY <1>2, <2>1, <2>2, <2>3, EndOfIs
<1>7. Reads(h, l)'
  <2>1. Holds(DeclaredUpTo(file, h - 1))'
    BY <1>1, <1>4 DEF Reads, Holds
  <2> QED
    BY <1>1, <1>4, <2>1 DEF Reads
<1>8. /\ g_pending_line' # 0 => g_pending_line' = line_num' /\ IsHeader(file'[line_num'])
      /\ EndOf(file', h) = l
  BY <1>1, <1>2, <1>3, <1>6
<1> QED
  BY <1>1, <1>4, <1>5, <1>7, <1>8 DEF Loading

(* What has been read is dealt with when the section is declared, or was   *)
(* not to be.                                                              *)
LEMMA SettledLoads ==
    ASSUME Loading, pc' = "top", NEW h \in 1 .. ReadUpTo, Reads(h, ReadUpTo),
           UNCHANGED <<file, line_num, g_pending_line>>, Holds(DeclaredUpTo(file, h))'
    PROVE  Loading'
<1>1. ReadUpTo' = ReadUpTo
  BY DEF ReadUpTo
<1>2. DeclaredUpTo(file, ReadUpTo) = DeclaredUpTo(file, h)
  BY DEF Reads
<1>3. DeclaredUpTo(file', ReadUpTo') = DeclaredUpTo(file', h)
  BY <1>1, <1>2
<1>4. Holds(DeclaredUpTo(file, ReadUpTo))'
  BY <1>3 DEF Holds
<1> QED
  BY <1>4 DEF Loading

(* A complete section is registered, when the registry takes it; the       *)
(* registry refuses what the file is not to declare, and nothing else.     *)
LEMMA RegisterLoads ==
    ASSUME LoaderInv, services \in Seq(P!Service), Loading, ~ out_of_memory',
           Validate \/ RegisterFails \/ RegisterSucceeds
    PROVE  Loading'
<1>1. /\ pc \in {"validate", "register"}
      /\ UNCHANGED <<file, line_num, g_pending_line, svc, has>>
  BY DEF Validate, RegisterFails, RegisterSucceeds, section
<1>2. PICK h \in 1 .. ReadUpTo : Reads(h, ReadUpTo) /\ EndOf(file, h) = ReadUpTo
  BY <1>1 DEF Loading
<1>3. ReadUpTo' = ReadUpTo
  BY <1>1 DEF ReadUpTo
<1>4. file \in Files /\ h \in 1 .. Len(file) /\ h - 1 \in 0 .. Len(file)
  BY <1>2, FileFacts DEF LoaderInv, ReadUpTo
<1>5. /\ StartsService(file[h])
      /\ svc = ServiceAt(file, h)
      /\ has = Required \cap KeysIn(file, h, EndOf(file, h))
      /\ Holds(DeclaredUpTo(file, h - 1))
  BY <1>2 DEF Reads, ServiceAt
<1>6. Complete(file, h) <=> has = Required
  BY <1>5 DEF Complete
<1> DEFINE before == DeclaredUpTo(file, h - 1)
<1>7. /\ before \in Seq(H!Param)
      /\ DeclaredUpTo(file, h) = IF Registers(file, h, before) THEN Append(before, svc) ELSE before
  BY <1>4, <1>5, DeclaredEquations
<1>8. Registers(file, h, before) <=>
        has = Required /\ H!validate_service(svc) /\ ~ H!IsDuplicate(services, svc)
  <2>1. H!IsDuplicate(services, svc) <=> H!IsDuplicate(before, svc)
    BY <1>5, <1>7, HeldDuplicates
  <2> HIDE DEF before
  <2> QED
    BY <1>5, <1>6, <2>1 DEF Registers
<1> HIDE DEF before
<1>9. CASE Validate
  <2>1. pc = "validate" /\ services' = services
    BY <1>9 DEF Validate, registry
  <2>2. CASE has = Required /\ pc' = "register"
    <3>1. Reads(h, ReadUpTo)'
      <4>1. Holds(DeclaredUpTo(file, h - 1))'
        BY <1>1, <1>5, <2>1 DEF Holds
      <4> QED
        BY <1>1, <1>2, <1>3, <4>1 DEF Reads
    <3> QED
      BY <1>1, <1>2, <1>3, <2>2, <3>1 DEF Loading
  <2>3. CASE has # Required /\ pc' = "top"
    <3>1. DeclaredUpTo(file, h) = before
      BY <1>7, <1>8, <2>3
    <3>2. Holds(DeclaredUpTo(file, h))'
      BY <1>1, <1>5, <2>1, <3>1 DEF Holds, before
    <3> QED
      BY <1>1, <1>2, <2>3, <3>2, SettledLoads
  <2>4. CASE pc' = "aborted"
    BY <1>1, <2>4 DEF Loading
  <2> QED
    BY <1>9, <2>2, <2>3, <2>4 DEF Validate, Reject
<1>10. CASE RegisterFails
  <2>1. Refused /\ services' = services
    BY <1>10 DEF RegisterFails, registry
  <2>2. DeclaredUpTo(file, h) = before
    BY <1>7, <1>8, <2>1 DEF Refused
  <2>3. Holds(DeclaredUpTo(file, h))'
    BY <1>1, <1>5, <2>1, <2>2 DEF Holds, before
  <2>4. CASE pc' = "top"
    BY <1>1, <1>2, <2>3, <2>4, SettledLoads
  <2>5. CASE pc' = "aborted"
    BY <1>1, <2>5 DEF Loading
  <2> QED
    BY <1>10, <2>4, <2>5 DEF RegisterFails, Reject
<1>11. CASE RegisterSucceeds
  <2>1. pc = "register" /\ pc' = "top" /\ H!Register(svc)
    BY <1>11 DEF RegisterSucceeds
  <2>2. has = Required
    BY <2>1 DEF Loading
  <2>3. PICK a : /\ H!validate_service(svc) /\ ~ H!IsDuplicate(services, svc)
                 /\ services' = Append(services, H!NewService(a, svc))
    BY <2>1 DEF H!Register
  <2>4. DeclaredUpTo(file, h) = Append(before, svc)
    BY <1>7, <1>8, <2>2, <2>3
  <2>5. PICK s \in H!Param, d \in Seq(H!Param) : s = svc /\ d = before
    BY <1>7 DEF LoaderInv, BeingRead
  <2>6. Holds(Append(d, s))'
    BY <1>5, <2>3, <2>5, HeldAppended DEF before
  <2>7. DeclaredUpTo(file', h) = Append(d, s)
    BY <1>1, <2>4, <2>5
  <2>8. Holds(DeclaredUpTo(file, h))'
    BY <2>6, <2>7 DEF Holds
  <2> QED
    BY <1>1, <1>2, <2>1, <2>8, SettledLoads
<1> QED
  BY <1>9, <1>10, <1>11

(* Every step of the loader keeps it, until an allocation fails. *)
LEMMA LoadStep == LoaderInv /\ P!IInv /\ LoadInv /\ [Next]_vars => LoadInv'
<1> SUFFICES ASSUME LoaderInv, P!IInv, LoadInv, [Next]_vars, ~ out_of_memory' PROVE Loading'
  BY DEF LoadInv
<1>1. services \in Seq(P!Service)
  BY DEF P!IInv, P!TypeOK
<1>2. ~ out_of_memory
  BY DEF Next, vars, TakePending, TakeNext, EndOfFile, ReadKey, SkipLine, SectionEnds, Validate,
         RegisterFails, RegisterSucceeds, Stopped
<1>3. Loading
  BY <1>2 DEF LoadInv
<1>4. file \in Files /\ Len(file) \in Nat /\ line_num \in 0 .. Len(file)
  BY FileFacts DEF LoaderInv
<1>5. CASE TakePending
  <2>1. pc = "top" /\ g_pending_line # 0 /\ g_pending_line = line_num
    BY <1>3, <1>5 DEF TakePending, Loading
  <2>2. PICK n \in 1 .. Len(file) : n = line_num
    BY <1>4, <2>1 DEF LoaderInv
  <2>3. /\ n = ReadUpTo + 1 /\ TakeLine(n) /\ line_num' = n /\ g_pending_line' = 0
        /\ UNCHANGED <<file, services>>
    BY <1>4, <1>5, <2>1, <2>2 DEF TakePending, ReadUpTo, registry
  <2> QED
    BY <1>3, <2>1, <2>3, TakeLineLoads
<1>6. CASE TakeNext
  <2>1. PICK n \in 1 .. Len(file) : n = line_num + 1
    BY <1>4, <1>6 DEF TakeNext
  <2>2. /\ n = ReadUpTo + 1 /\ TakeLine(n) /\ line_num' = n /\ g_pending_line' = 0
        /\ UNCHANGED <<file, services>> /\ pc = "top"
    BY <1>4, <1>6, <2>1 DEF TakeNext, ReadUpTo, registry
  <2> QED
    BY <1>3, <2>2, TakeLineLoads
<1>7. CASE EndOfFile
  <2>1. /\ pc = "top" /\ pc' = "done" /\ g_pending_line = 0 /\ line_num = Len(file)
        /\ UNCHANGED <<services, file, line_num, g_pending_line>>
    BY <1>7 DEF EndOfFile, registry
  <2>2. Holds(DeclaredUpTo(file, ReadUpTo)) /\ ReadUpTo' = ReadUpTo
    BY <1>3, <2>1 DEF Loading, ReadUpTo
  <2>3. Holds(DeclaredUpTo(file, ReadUpTo))'
    BY <2>1, <2>2 DEF Holds
  <2> QED
    BY <2>1, <2>3 DEF Loading
<1>8. CASE ReadKey \/ SkipLine
  BY <1>3, <1>8, SectionLoads
<1>9. CASE SectionEnds
  BY <1>3, <1>9, SectionEndLoads
<1>10. CASE Validate \/ RegisterFails \/ RegisterSucceeds
  BY <1>1, <1>3, <1>10, RegisterLoads
<1>11. CASE UNCHANGED vars
  <2>1. UNCHANGED <<services, file, pc, line_num, g_pending_line, svc, has>>
    BY <1>11 DEF vars, registry, section
  <2> QED
    BY <1>3, <2>1 DEF Loading, Reads, Holds, ReadUpTo
<1> QED
  BY <1>5, <1>6, <1>7, <1>8, <1>9, <1>10, <1>11 DEF Next, Stopped

-----------------------------------------------------------------------------
(* The loader's invariants. *)

(* Whatever the file holds and whichever allocation fails, the loader's    *)
(* variables and the registry keep the shapes the C declarations allow.    *)
THEOREM TypeCorrect == Spec => []TypeOK
<1>1. LoaderInv /\ P!IInv => TypeOK
  <2> SUFFICES ASSUME LoaderInv, P!IInv PROVE TypeOK
    OBVIOUS
  <2>1. H!Service = P!Service
    BY DEF H!Service, P!Service, H!String, P!String
  <2>2. H!TypeOK
    BY <2>1 DEF P!IInv, P!TypeOK, H!TypeOK
  <2> QED
    BY <2>2 DEF LoaderInv, BeingRead, TypeOK
<1> QED
  BY <1>1, LoaderInvariance, RegistrySound, PTL

(* The number the loader reports is the number of services registered: the *)
(* count moves with the list, whichever sections are refused, duplicates   *)
(* or lost to a failed allocation.                                         *)
THEOREM CountExact == Spec => []CountIsExact
<1>1. Init => CountIsExact
  <2>1. Len(<< >>) = 0
    OBVIOUS
  <2> QED
    BY <2>1 DEF Init, H!Init, CountIsExact
<1>2. P!IInv /\ CountIsExact /\ [Next]_vars => CountIsExact'
  <2> SUFFICES ASSUME P!IInv, CountIsExact, [Next]_vars PROVE CountIsExact'
    OBVIOUS
  <2>1. services \in Seq(P!Service)
    BY DEF P!IInv, P!TypeOK
  <2>2. CASE RegisterSucceeds
    <3>1. PICK a \in Addr : services' = Append(services, H!NewService(a, svc))
      BY <2>2 DEF RegisterSucceeds, H!Register
    <3>2. Len(services') = Len(services) + 1
      BY <2>1, <3>1
    <3> QED
      BY <2>2, <3>2 DEF RegisterSucceeds, CountIsExact
  <2>3. CASE RegisterFails
    <3>1. service_count' = service_count /\ services' = services
      BY <2>3 DEF RegisterFails, Reject, H!RegisterOutOfMemory, registry
    <3> QED
      BY <3>1 DEF CountIsExact
  <2>4. CASE ~ RegisterSucceeds /\ ~ RegisterFails
    <3>1. service_count' = service_count /\ services' = services
      BY <2>4 DEF Next, vars, registry, TakePending, TakeNext, EndOfFile, ReadKey, SkipLine,
                  SectionEnds, Validate, Stopped, Reject
    <3> QED
      BY <3>1 DEF CountIsExact
  <2> QED
    BY <2>2, <2>3, <2>4
<1> QED
  BY <1>1, <1>2, RegistrySound, PTL DEF Spec

(* What the server will answer for is what the file declares: every        *)
(* complete, valid and new section is registered with its own keys, in the *)
(* order of the file, whatever stands between sections and however each of *)
(* them ends (config_load_services, parse_service_section).                *)
THEOREM LoadsWhatIsDeclared == Spec => []LoadedAsDeclared
<1>1. P!IInv /\ LoadInv => LoadedAsDeclared
  <2> SUFFICES ASSUME P!IInv, LoadInv, pc = "done", ~ out_of_memory
               PROVE  /\ Len(services) = Len(Declared)
                      /\ \A n \in DOMAIN services :
                            H!NewService(services[n].addr, Declared[n]) = services[n]
    BY DEF LoadedAsDeclared
  <2>1. Holds(Declared)
    BY DEF LoadInv, Loading, ReadUpTo, Declared
  <2>2. DOMAIN services = 1 .. Len(services)
    BY LenProperties DEF P!IInv, P!TypeOK
  <2> QED
    BY <2>1, <2>2 DEF Holds
<1>2. LoadInv /\ LoaderInv /\ P!IInv /\ [Next]_vars => LoadInv'
  BY LoadStep
<1> QED
  BY <1>1, <1>2, LoadInit, LoaderInvariance, RegistrySound, PTL DEF Spec
=============================================================================
