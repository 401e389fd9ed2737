---------------------------- MODULE HostDbProofs ----------------------------
(***************************************************************************)
(* The registry's invariants hold for every set of addresses, services and *)
(* names.  They are proved together, as IInv: the heap is exact because    *)
(* txt_kv_count is, and stays typed because it is exact.                   *)
(***************************************************************************)
EXTENDS HostDb, SequenceTheorems, TLAPS

IInv ==
    /\ TypeOK
    /\ UniqueFqdn
    /\ HeapExact
    /\ CapacityCovers
    /\ StoredServicesAreValid

-----------------------------------------------------------------------------
(* Lemmas. *)

(* The TXT a stored service gets is one its type allows. *)
LEMMA CopiedTxtType ==
    ASSUME NEW svc \in Params
    PROVE  /\ CopiedTxt(svc) \in Seq(STRING) \cup {NULL}
           /\ CountOf(CopiedTxt(svc)) \in Nat
BY HostDbAssumption DEF CopiedTxt, CountOf, Param

(* The TXT copy that an update leaves behind is a list of strings or *)
(* none. *)
LEMMA UpdatedTxtType ==
    ASSUME NEW svc \in Params, NEW txt \in UpdatedTxt(svc)
    PROVE  /\ txt \in Seq(STRING) \cup {NULL}
           /\ CountOf(txt) \in Nat
<1> DEFINE all == CopiedTxt(svc)
<1>1. all \in Seq(STRING) \cup {NULL}
  BY CopiedTxtType
<1>2. txt \in Seq(STRING) \cup {NULL}
  <2>1. CASE txt \in {all, NULL}
    BY <2>1, <1>1
  <2>2. CASE all # NULL /\ \E k \in 0 .. (Len(all) - 1) : txt = SubSeq(all, 1, k)
    <3>1. PICK k \in 0 .. (Len(all) - 1) : txt = SubSeq(all, 1, k)
      BY <2>2
    <3>2. all \in Seq(STRING) /\ 1 \in Nat /\ k \in Nat
      BY <1>1, <2>2
    <3>3. \A j \in 1 .. k : all[j] \in STRING
      BY <3>2, <3>1
    <3> QED
      BY <3>1, <3>2, <3>3, SubSeqProperties
  <2> QED
    BY <2>1, <2>2 DEF UpdatedTxt
<1> QED
  BY <1>2 DEF CountOf

(* A registered service is typed, valid and named as the caller's. *)
LEMMA NewServiceFacts ==
    ASSUME NEW svc \in Params, NEW a \in Addr, validate_service(svc)
    PROVE  /\ NewService(a, svc) \in Service
           /\ validate_service(NewService(a, svc))
           /\ NewService(a, svc).ttl > 0
           /\ NewService(a, svc).addr = a
           /\ NewService(a, svc).txt_kv = CopiedTxt(svc)
           /\ NewService(a, svc).txt_kv_count = CountOf(CopiedTxt(svc))
           /\ Fqdn(NewService(a, svc)) = Fqdn(svc)
           /\ Fits(NewService(a, svc)) = Fits(svc)
<1>1. svc \in Param
  BY HostDbAssumption
<1>2. Ttl(svc) \in Nat /\ Ttl(svc) > 0
  BY <1>1, HostDbAssumption DEF Ttl, Param
<1>3. /\ CopiedTxt(svc) \in Seq(STRING) \cup {NULL}
      /\ CountOf(CopiedTxt(svc)) \in Nat
  BY CopiedTxtType
<1>4. NewService(a, svc) \in Service
  BY <1>1, <1>2, <1>3 DEF NewService, Service, Param
<1>5. Fqdn(NewService(a, svc)) = Fqdn(svc)
  BY DEF NewService, Fqdn
<1>6. validate_service(NewService(a, svc))
  BY DEF validate_service, NewService
<1> QED
  BY <1>2, <1>4, <1>5, <1>6 DEF NewService, Fits

(* What the list is after one entry has gone. *)
LEMMA ShiftDownFacts ==
    ASSUME NEW S, NEW reg \in Seq(S), NEW i \in 1 .. Len(reg)
    PROVE  /\ ShiftDown(reg, i) \in Seq(S)
           /\ Len(ShiftDown(reg, i)) = Len(reg) - 1
           /\ \A j \in 1 .. (Len(reg) - 1) :
                 ShiftDown(reg, i)[j] = reg[IF j < i THEN j ELSE j + 1]
<1> DEFINE n == Len(reg) - 1
<1>1. n \in Nat
  BY LenProperties
<1>2. ShiftDown(reg, i) = [j \in 1 .. n |-> reg[IF j < i THEN j ELSE j + 1]]
  BY DEF ShiftDown
<1>3. \A j \in 1 .. n : reg[IF j < i THEN j ELSE j + 1] \in S
  BY ElementOfSeq
<1>4. [j \in 1 .. n |-> reg[IF j < i THEN j ELSE j + 1]] \in Seq(S)
  BY <1>1, <1>3, IsASeq
<1> HIDE DEF n
<1>5. Len([j \in 1 .. n |-> reg[IF j < i THEN j ELSE j + 1]]) = n
  BY <1>1, <1>4
<1> QED
  BY <1>1, <1>2, <1>4, <1>5 DEF n

(* A service's memory is at least its struct and its strings. *)
LEMMA BlocksOfType ==
    ASSUME NEW txt \in Seq(STRING) \cup {NULL}
    PROVE  /\ BlocksOf(4, txt) \in Nat /\ BlocksOf(4, txt) > 0
           /\ free_service(4, txt, CountOf(txt)) = BlocksOf(4, txt)
BY DEF BlocksOf, free_service, CountOf

(* The capacity that register grows the array to has room for one service *)
(* more. *)
LEMMA NewCapacityCovers ==
    ASSUME NEW count \in Nat, NEW capacity \in Nat, count <= capacity
    PROVE  /\ NewCapacity(count, capacity) \in Nat
           /\ count + 1 <= NewCapacity(count, capacity)
BY HostDbAssumption DEF NewCapacity

-----------------------------------------------------------------------------
(* The invariant is inductive: the initial state, then one lemma for each  *)
(* action.                                                                 *)

(* The invariant holds in an empty registry. *)
LEMMA InitIInv == Init => IInv
<1> SUFFICES ASSUME Init PROVE IInv
  OBVIOUS
<1>1. services \in Seq(Service) /\ Len(services) = 0 /\ DOMAIN services = {}
  BY DEF Init
<1> QED
  BY <1>1 DEF Init, IInv, TypeOK, UniqueFqdn, HeapExact, DistinctStructs,
              CapacityCovers, StoredServicesAreValid

(* What IInv says of one entry of the list. *)
LEMMA EntryFacts ==
    ASSUME IInv, NEW i \in 1 .. Len(services)
    PROVE  /\ services[i] \in Service
           /\ services[i].addr \in Addr
           /\ services[i].txt_kv \in Seq(STRING) \cup {NULL}
           /\ services[i].txt_kv_count = CountOf(services[i].txt_kv)
           /\ heap[services[i].addr] = BlocksOf(4, services[i].txt_kv)
           /\ heap[services[i].addr] > 0
           /\ FreeOf(services[i]) = heap[services[i].addr]
           /\ i \in DOMAIN services
<1>1. services \in Seq(Service)
  BY DEF IInv, TypeOK
<1>2. i \in DOMAIN services
  BY <1>1, LenProperties
<1>3. services[i] \in Service
  BY <1>1, ElementOfSeq
<1>4. /\ services[i].addr \in Addr
      /\ services[i].txt_kv \in Seq(STRING) \cup {NULL}
  BY <1>3 DEF Service
<1>5. services[i].txt_kv_count = CountOf(services[i].txt_kv)
  BY <1>2 DEF IInv, StoredServicesAreValid
<1>6. heap[services[i].addr] = BlocksOf(4, services[i].txt_kv)
  BY <1>2 DEF IInv, HeapExact
<1> QED
  BY <1>2, <1>3, <1>4, <1>5, <1>6, BlocksOfType DEF FreeOf

(* mdns_register_service keeps it, whichever of its returns is taken. *)
LEMMA RegisterStep ==
    ASSUME IInv, NEW svc \in Params, Register(svc)
    PROVE  IInv'
<1>1. PICK a \in Addr :
         /\ heap[a] = 0
         /\ services' = Append(services, NewService(a, svc))
         /\ heap' = [heap EXCEPT ![a] = BlocksOf(4, CopiedTxt(svc))]
  BY DEF Register
<1> DEFINE n == Len(services)
           new == NewService(a, svc)
<1>2. /\ services \in Seq(Service) /\ n \in Nat
      /\ service_capacity \in Nat /\ heap \in [Addr -> Nat]
      /\ DOMAIN services = 1 .. n
  BY LenProperties DEF IInv, TypeOK
<1>3. /\ new \in Service /\ validate_service(new) /\ new.ttl > 0
      /\ new.addr = a /\ new.txt_kv = CopiedTxt(svc)
      /\ new.txt_kv_count = CountOf(new.txt_kv)
      /\ Fqdn(new) = Fqdn(svc) /\ Fits(new) = Fits(svc)
  BY NewServiceFacts DEF Register
<1>4. /\ services' \in Seq(Service) /\ Len(services') = n + 1
      /\ DOMAIN services' = 1 .. (n + 1)
      /\ \A i \in 1 .. n : services'[i] = services[i]
      /\ services'[n + 1] = new
  BY <1>1, <1>2, <1>3, AppendProperties, LenProperties
<1>5. \A i \in 1 .. n : services[i].addr # a
  BY <1>1, EntryFacts
<1>6. BlocksOf(4, new.txt_kv) \in Nat
  BY <1>3, CopiedTxtType, BlocksOfType
<1> HIDE DEF n, new
<1>7. TypeOK'
  <2>1. service_capacity' \in Nat
    BY <1>2, NewCapacityCovers DEF Register, IInv, CapacityCovers, n
  <2>2. heap' \in [Addr -> Nat]
    BY <1>1, <1>2, <1>3, <1>6
  <2> QED
    BY <1>4, <2>1, <2>2 DEF TypeOK
<1>8. UniqueFqdn'
  <2> SUFFICES ASSUME NEW i \in 1 .. (n + 1), NEW j \in 1 .. (n + 1), i # j,
                      Fits(services'[i]), Fits(services'[j])
               PROVE  ~ StrCaseEq(Fqdn(services'[i]), Fqdn(services'[j]))
    BY <1>4 DEF UniqueFqdn
  <2>1. \A k \in 1 .. n : Fits(services[k]) /\ Fits(svc)
           => ~ StrCaseEq(Fqdn(svc), Fqdn(services[k]))
    BY <1>2 DEF Register, IsDuplicate, HasName
  <2>2. CASE i \in 1 .. n /\ j \in 1 .. n
    BY <2>2, <1>2, <1>4 DEF IInv, UniqueFqdn
  <2>3. CASE i = n + 1 /\ j \in 1 .. n
    BY <2>1, <2>3, <1>3, <1>4
  <2>4. CASE i \in 1 .. n /\ j = n + 1
    BY <2>1, <2>4, <1>3, <1>4 DEF StrCaseEq
  <2> QED
    BY <1>2, <2>2, <2>3, <2>4
<1>9. HeapExact'
  <2>1. DistinctStructs'
    BY <1>2, <1>3, <1>4, <1>5 DEF IInv, HeapExact, DistinctStructs
  <2>2. \A i \in 1 .. (n + 1) :
           heap'[services'[i].addr] = BlocksOf(4, services'[i].txt_kv)
    <3> TAKE i \in 1 .. (n + 1)
    <3>1. CASE i \in 1 .. n
      BY <3>1, <1>1, <1>2, <1>4, <1>5, EntryFacts DEF n
    <3>2. CASE i = n + 1
      BY <3>2, <1>1, <1>2, <1>3, <1>4
    <3> QED
      BY <1>2, <3>1, <3>2
  <2>3. ASSUME NEW b \in Addr, \A i \in 1 .. (n + 1) : services'[i].addr # b
        PROVE  heap'[b] = 0
    <3>1. b # a
      BY <2>3, <1>2, <1>3, <1>4
    <3>2. \A i \in 1 .. n : services[i].addr # b
      BY <2>3, <1>2, <1>4
    <3> QED
      BY <3>1, <3>2, <1>1, <1>2 DEF IInv, HeapExact
  <2> QED
    BY <2>1, <2>2, <2>3, <1>4 DEF HeapExact
<1>10. CapacityCovers'
  BY <1>2, <1>4, NewCapacityCovers DEF Register, IInv, CapacityCovers, n
<1>11. StoredServicesAreValid'
  BY <1>2, <1>3, <1>4 DEF IInv, StoredServicesAreValid
<1> QED
  BY <1>7, <1>8, <1>9, <1>10, <1>11 DEF IInv

(* It keeps it when the allocator fails half way. *)
LEMMA RegisterOutOfMemoryStep ==
    ASSUME IInv, NEW svc \in Params, RegisterOutOfMemory(svc)
    PROVE  IInv'
<1>1. PICK a \in Addr, p \in PartialServices(svc) :
         /\ heap[a] = 0
         /\ heap' = [heap EXCEPT ![a] = BlocksOf(p.n, p.txt_kv)
                                        - free_service(p.n, p.txt_kv, p.txt_kv_count)]
  BY DEF RegisterOutOfMemory
<1>2. BlocksOf(p.n, p.txt_kv) = free_service(p.n, p.txt_kv, p.txt_kv_count)
      /\ BlocksOf(p.n, p.txt_kv) \in Int
  <2> DEFINE txt == CopiedTxt(svc)
  <2>1. CASE \E k \in 0 .. 4 : p = [n |-> k, txt_kv |-> NULL, txt_kv_count |-> 0]
    BY <2>1 DEF BlocksOf, free_service
  <2>2. CASE /\ txt # NULL
             /\ \E k \in 0 .. Len(txt) :
                   p = [n |-> 4, txt_kv |-> SubSeq(txt, 1, k), txt_kv_count |-> k]
    <3>1. PICK k \in 0 .. Len(txt) :
             p = [n |-> 4, txt_kv |-> SubSeq(txt, 1, k), txt_kv_count |-> k]
      BY <2>2
    <3>2. txt \in Seq(STRING)
      BY <2>2, CopiedTxtType
    <3>3. \A j \in 1 .. k : txt[j] \in STRING
      BY <3>2
    <3>4. SubSeq(txt, 1, k) \in Seq(STRING) /\ Len(SubSeq(txt, 1, k)) = k
      BY <3>2, <3>3, SubSeqProperties
    <3>5. SubSeq(txt, 1, k) # NULL
      BY <3>4, HostDbAssumption
    <3> QED
      BY <3>1, <3>4, <3>5 DEF BlocksOf, free_service
  <2> QED
    BY <2>1, <2>2 DEF PartialServices
<1>3. heap' = heap
  BY <1>1, <1>2 DEF IInv, TypeOK
<1> QED
  BY <1>3 DEF RegisterOutOfMemory, IInv, TypeOK, UniqueFqdn, HeapExact,
              DistinctStructs, CapacityCovers, StoredServicesAreValid

(* A step that rewrites numbers, target host and TXT of one entry, without *)
(* touching its identity, keeps what the invariant says of the others.     *)
LEMMA RewriteEntry ==
    ASSUME IInv, NEW svc \in Params, validate_service(svc),
           NEW i \in 1 .. Len(services),
           NEW host \in String, host # << >>,
           NEW txt \in Seq(STRING) \cup {NULL},
           services' = [services EXCEPT ![i] = [@ EXCEPT
               !.port = svc.port, !.ttl = Ttl(svc), !.target_host = host,
               !.txt_kv = txt, !.txt_kv_count = CountOf(txt)]],
           heap' = [heap EXCEPT ![services[i].addr] = BlocksOf(4, txt)],
           UNCHANGED service_capacity
    PROVE  IInv'
<1> DEFINE n == Len(services)
           s == [services[i] EXCEPT !.port = svc.port, !.ttl = Ttl(svc),
                    !.target_host = host, !.txt_kv = txt, !.txt_kv_count = CountOf(txt)]
<1>1. /\ services \in Seq(Service) /\ n \in Nat
      /\ service_capacity \in Nat /\ heap \in [Addr -> Nat]
      /\ DOMAIN services = 1 .. n
  BY LenProperties DEF IInv, TypeOK
<1>2. svc \in Param /\ services[i] \in Service
  BY <1>1, HostDbAssumption, ElementOfSeq
<1>3. /\ s \in Service /\ s.addr = services[i].addr
      /\ Ttl(svc) > 0 /\ CountOf(txt) \in Nat
  <2>1. Ttl(svc) \in Nat /\ Ttl(svc) > 0 /\ svc.port \in Nat
    BY <1>2, HostDbAssumption DEF Param, Ttl
  <2>2. CountOf(txt) \in Nat
    BY DEF CountOf
  <2>3. s \in Service /\ s.addr = services[i].addr
    BY <1>2, <2>1, <2>2 DEF Service
  <2> QED
    BY <2>1, <2>2, <2>3
<1>4. services' = [services EXCEPT ![i] = s]
  BY <1>1, <1>2 DEF Service
<1>5. /\ Fqdn(s) = Fqdn(services[i]) /\ Fits(s) = Fits(services[i])
      /\ s.txt_kv = txt /\ s.txt_kv_count = CountOf(txt) /\ s.ttl = Ttl(svc)
  BY <1>2 DEF Service, Fqdn, Fits
<1>6. validate_service(services[i])
  BY <1>1 DEF IInv, StoredServicesAreValid
<1>7. validate_service(s)
  BY <1>2, <1>6 DEF validate_service, Service
<1> HIDE DEF n, s
<1>8. /\ services' \in Seq(Service) /\ Len(services') = n
      /\ DOMAIN services' = 1 .. n
      /\ \A j \in 1 .. n : services'[j] = IF j = i THEN s ELSE services[j]
  BY <1>1, <1>3, <1>4, ExceptSeq, LenProperties DEF n
<1>9. /\ BlocksOf(4, txt) \in Nat
  BY BlocksOfType
<1>10. TypeOK'
  BY <1>1, <1>8, <1>9 DEF TypeOK
<1>11. UniqueFqdn'
  BY <1>1, <1>5, <1>8 DEF IInv, UniqueFqdn
<1>12. HeapExact'
  <2>1. DistinctStructs'
    BY <1>1, <1>3, <1>8 DEF IInv, HeapExact, DistinctStructs
  <2>2. \A j \in 1 .. n : heap'[services'[j].addr] = BlocksOf(4, services'[j].txt_kv)
    <3> TAKE j \in 1 .. n
    <3>1. CASE j = i
      BY <3>1, <1>1, <1>3, <1>5, <1>8, EntryFacts DEF n
    <3>2. CASE j # i
      <4>1. services[j].addr # services[i].addr
        BY <3>2, <1>1 DEF IInv, HeapExact, DistinctStructs, n
      <4> QED
        BY <3>2, <4>1, <1>1, <1>8, EntryFacts DEF n
    <3> QED
      BY <3>1, <3>2
  <2>3. ASSUME NEW b \in Addr, \A j \in 1 .. n : services'[j].addr # b
        PROVE  heap'[b] = 0
    <3>1. \A j \in 1 .. n : services[j].addr # b
      BY <2>3, <1>3, <1>8
    <3> QED
      BY <3>1, <1>1 DEF IInv, HeapExact, n
  <2> QED
    BY <2>1, <2>2, <2>3, <1>8 DEF HeapExact
<1>13. CapacityCovers'
  BY <1>8 DEF IInv, CapacityCovers, n
<1>14. StoredServicesAreValid'
  BY <1>1, <1>3, <1>5, <1>7, <1>8 DEF IInv, StoredServicesAreValid
<1> QED
  BY <1>10, <1>11, <1>12, <1>13, <1>14 DEF IInv

(* mdns_update_service keeps it. *)
LEMMA UpdateStep ==
    ASSUME IInv, NEW svc \in Params, Update(svc)
    PROVE  IInv'
<1>1. PICK i \in 1 .. Len(services), txt \in UpdatedTxt(svc) :
         /\ services' = [services EXCEPT ![i] = [@ EXCEPT
               !.port = svc.port, !.ttl = Ttl(svc),
               !.target_host = svc.target_host,
               !.txt_kv = txt, !.txt_kv_count = CountOf(txt)]]
         /\ heap' = [heap EXCEPT ![services[i].addr] =
               @ - (IF services[i].txt_kv = NULL THEN 0
                    ELSE 1 + services[i].txt_kv_count)
                 + (IF txt = NULL THEN 0 ELSE 1 + Len(txt))]
  BY DEF Update
<1>2. txt \in Seq(STRING) \cup {NULL}
  BY UpdatedTxtType
<1>3. heap[services[i].addr] - (IF services[i].txt_kv = NULL THEN 0
                                ELSE 1 + services[i].txt_kv_count)
        + (IF txt = NULL THEN 0 ELSE 1 + Len(txt)) = BlocksOf(4, txt)
  BY <1>2, EntryFacts DEF BlocksOf, CountOf
<1>4. heap' = [heap EXCEPT ![services[i].addr] = BlocksOf(4, txt)]
  BY <1>1, <1>3
<1>5. svc.target_host \in String /\ svc.target_host # << >>
  BY HostDbAssumption DEF Param, Update, validate_service
<1> QED
  BY <1>1, <1>2, <1>4, <1>5, RewriteEntry, ZenonT(60) DEF Update

(* It keeps it with a TXT list that could not be copied to the end. *)
LEMMA UpdateOutOfMemoryStep ==
    ASSUME IInv, NEW svc \in Params, UpdateOutOfMemory(svc)
    PROVE  IInv'
<1>1. PICK i \in 1 .. Len(services) :
         services' = [services EXCEPT ![i] = [@ EXCEPT
            !.port = svc.port, !.ttl = Ttl(svc)]]
  BY DEF UpdateOutOfMemory
<1> DEFINE host == services[i].target_host
           txt == services[i].txt_kv
<1>2. /\ services[i] \in Service /\ i \in DOMAIN services
      /\ txt \in Seq(STRING) \cup {NULL} /\ services[i].txt_kv_count = CountOf(txt)
      /\ services[i].addr \in Addr /\ heap[services[i].addr] = BlocksOf(4, txt)
  BY EntryFacts
<1>3. host \in String /\ host # << >>
  BY <1>2 DEF IInv, StoredServicesAreValid, validate_service, Service
<1>4. [services[i] EXCEPT !.port = svc.port, !.ttl = Ttl(svc)]
         = [services[i] EXCEPT !.port = svc.port, !.ttl = Ttl(svc),
               !.target_host = host, !.txt_kv = txt, !.txt_kv_count = CountOf(txt)]
  BY <1>2 DEF Service
<1>6. services' = [services EXCEPT ![i] = [@ EXCEPT
         !.port = svc.port, !.ttl = Ttl(svc), !.target_host = host,
         !.txt_kv = txt, !.txt_kv_count = CountOf(txt)]]
  BY <1>1, <1>4
<1>5. heap' = [heap EXCEPT ![services[i].addr] = BlocksOf(4, txt)]
  BY <1>2 DEF UpdateOutOfMemory, IInv, TypeOK
<1> HIDE DEF host, txt
<1> QED
  BY <1>2, <1>3, <1>5, <1>6, RewriteEntry DEF UpdateOutOfMemory

(* mdns_unregister_service keeps it: the services behind move down one *)
(* place. *)
LEMMA UnregisterStep ==
    ASSUME IInv, NEW name \in QueryNames, Unregister(name)
    PROVE  IInv'
<1>1. PICK i \in 1 .. Len(services) :
         /\ services' = ShiftDown(services, i)
         /\ heap' = [heap EXCEPT ![services[i].addr] = @ - FreeOf(services[i])]
  BY DEF Unregister
<1> DEFINE n == Len(services)
           Was(j) == IF j < i THEN j ELSE j + 1
<1>2. /\ services \in Seq(Service) /\ n \in Nat
      /\ service_capacity \in Nat /\ heap \in [Addr -> Nat]
      /\ DOMAIN services = 1 .. n
  BY LenProperties DEF IInv, TypeOK
<1>3. /\ services' \in Seq(Service) /\ Len(services') = n - 1
      /\ DOMAIN services' = 1 .. (n - 1)
      /\ \A j \in 1 .. (n - 1) : services'[j] = services[Was(j)]
  BY <1>1, <1>2, ShiftDownFacts, LenProperties, ZenonT(60)
<1>4. /\ services[i].addr \in Addr
      /\ heap' = [heap EXCEPT ![services[i].addr] = 0]
  <2>1. /\ services[i].addr \in Addr
        /\ FreeOf(services[i]) = heap[services[i].addr]
    BY EntryFacts
  <2>2. heap[services[i].addr] - FreeOf(services[i]) = 0
    BY <1>2, <2>1
  <2> QED
    BY <1>1, <2>1, <2>2
<1>5. /\ \A j \in 1 .. (n - 1) : Was(j) \in 1 .. n /\ Was(j) # i
      /\ \A j, k \in 1 .. (n - 1) : j # k => Was(j) # Was(k)
      /\ \A k \in 1 .. n : k # i => \E j \in 1 .. (n - 1) : Was(j) = k
  <2>1. ASSUME NEW k \in 1 .. n, k # i
        PROVE  \E j \in 1 .. (n - 1) : Was(j) = k
    <3>1. CASE k < i
      <4>1. k \in 1 .. (n - 1) /\ Was(k) = k
        BY <3>1, <1>2
      <4> QED
        BY <4>1
    <3>2. CASE k > i
      <4>1. k - 1 \in 1 .. (n - 1) /\ Was(k - 1) = k
        BY <3>2, <1>2
      <4> QED
        BY <4>1
    <3> QED
      BY <2>1, <3>1, <3>2, <1>2
  <2> QED
    BY <2>1, <1>2
<1> HIDE DEF n, Was
<1>6. TypeOK'
  BY <1>2, <1>3, <1>4 DEF TypeOK, Unregister
<1>7. UniqueFqdn'
  BY <1>2, <1>3, <1>5 DEF IInv, UniqueFqdn
<1>8. HeapExact'
  <2>1. DistinctStructs'
    <3> SUFFICES ASSUME NEW j \in 1 .. (n - 1), NEW k \in 1 .. (n - 1),
                        services'[j].addr = services'[k].addr
                 PROVE  j = k
      BY <1>3 DEF DistinctStructs
    <3>1. services[Was(j)].addr = services[Was(k)].addr
      BY <1>3
    <3>2. Was(j) = Was(k)
      BY <3>1, <1>2, <1>5 DEF IInv, HeapExact, DistinctStructs
    <3> QED
      BY <3>2, <1>5
  <2>2. \A j \in 1 .. (n - 1) :
           heap'[services'[j].addr] = BlocksOf(4, services'[j].txt_kv)
    <3> TAKE j \in 1 .. (n - 1)
    <3>1. services[Was(j)].addr # services[i].addr
      BY <1>2, <1>5 DEF IInv, HeapExact, DistinctStructs, n
    <3>2. /\ services[Was(j)].addr \in Addr
          /\ heap[services[Was(j)].addr] = BlocksOf(4, services[Was(j)].txt_kv)
      BY <1>5, EntryFacts DEF n
    <3> QED
      BY <3>1, <3>2, <1>2, <1>3, <1>4
  <2>3. ASSUME NEW b \in Addr, \A j \in 1 .. (n - 1) : services'[j].addr # b
        PROVE  heap'[b] = 0
    <3>1. CASE b = services[i].addr
      BY <3>1, <1>2, <1>4
    <3>2. CASE b # services[i].addr
      <4>1. \A k \in 1 .. n : services[k].addr # b
        BY <2>3, <3>2, <1>3, <1>5
      <4> QED
        BY <4>1, <3>2, <1>2, <1>4 DEF IInv, HeapExact
    <3> QED
      BY <3>1, <3>2
  <2> QED
    BY <2>1, <2>2, <2>3, <1>3 DEF HeapExact
<1>9. CapacityCovers'
  BY <1>2, <1>3 DEF IInv, CapacityCovers, Unregister, n
<1>10. StoredServicesAreValid'
  BY <1>2, <1>3, <1>5 DEF IInv, StoredServicesAreValid
<1> QED
  BY <1>6, <1>7, <1>8, <1>9, <1>10 DEF IInv

(* mdns_cleanup keeps it. *)
LEMMA CleanupStep ==
    ASSUME IInv, Cleanup
    PROVE  IInv'
<1>1. heap \in [Addr -> Nat] /\ services \in Seq(Service)
      /\ DOMAIN services = 1 .. Len(services)
  BY LenProperties DEF IInv, TypeOK
<1>2. \A a \in Addr : heap'[a] = 0
  <2> TAKE a \in Addr
  <2>1. CASE \E i \in DOMAIN services : services[i].addr = a
    <3> DEFINE i == CHOOSE i \in DOMAIN services : services[i].addr = a
    <3>1. i \in DOMAIN services /\ services[i].addr = a
      BY <2>1
    <3>2. heap'[a] = heap[a] - FreeOf(services[i])
      BY <2>1 DEF Cleanup
    <3> HIDE DEF i
    <3> QED
      BY <3>1, <3>2, <1>1, EntryFacts
  <2>2. CASE \A i \in DOMAIN services : services[i].addr # a
    BY <2>2 DEF Cleanup, IInv, HeapExact
  <2> QED
    BY <2>1, <2>2
<1>3. heap' \in [Addr -> Nat]
  <2>1. DOMAIN heap' = Addr /\ heap' = [a \in Addr |-> heap'[a]]
    BY DEF Cleanup
  <2> QED
    BY <2>1, <1>2
<1>4. /\ services' \in Seq(Service) /\ Len(services') = 0 /\ DOMAIN services' = {}
      /\ service_capacity' = 0
  BY DEF Cleanup
<1> QED
  BY <1>2, <1>3, <1>4 DEF IInv, TypeOK, UniqueFqdn, HeapExact, DistinctStructs,
                          CapacityCovers, StoredServicesAreValid

(* A step that leaves the registry alone keeps it. *)
LEMMA StutterStep ==
    ASSUME IInv, UNCHANGED vars
    PROVE  IInv'
BY DEF vars, IInv, TypeOK, UniqueFqdn, HeapExact, DistinctStructs,
       CapacityCovers, StoredServicesAreValid

(* Every step keeps it. *)
LEMMA NextStep ==
    ASSUME IInv, [Next]_vars
    PROVE  IInv'
<1>1. CASE Next
  <2>1. ASSUME NEW svc \in Params, Register(svc) PROVE IInv'
    BY <2>1, RegisterStep
  <2>2. ASSUME NEW svc \in Params, RegisterOutOfMemory(svc) PROVE IInv'
    BY <2>2, RegisterOutOfMemoryStep
  <2>3. ASSUME NEW svc \in Params, Update(svc) PROVE IInv'
    BY <2>3, UpdateStep
  <2>4. ASSUME NEW svc \in Params, UpdateOutOfMemory(svc) PROVE IInv'
    BY <2>4, UpdateOutOfMemoryStep
  <2>5. ASSUME NEW name \in QueryNames, Unregister(name) PROVE IInv'
    BY <2>5, UnregisterStep
  <2>6. CASE Cleanup
    BY <2>6, CleanupStep
  <2> QED
    BY <1>1, <2>1, <2>2, <2>3, <2>4, <2>5, <2>6 DEF Next
<1>2. CASE UNCHANGED vars
  BY <1>2, StutterStep
<1> QED
  BY <1>1, <1>2

-----------------------------------------------------------------------------
(* The theorems. *)

(* The invariants of the registry, all together. *)
THEOREM Invariance == Spec => []IInv
<1>1. Init => IInv
  BY InitIInv
<1>2. IInv /\ [Next]_vars => IInv'
  BY NextStep
<1> QED
  BY <1>1, <1>2, PTL DEF Spec

(* The variables of hostdb.c keep their types; in particular no free takes *)
(* a block count below zero.                                               *)
THEOREM TypeCorrect == Spec => []TypeOK
<1>1. IInv => TypeOK
  BY DEF IInv
<1> QED
  BY <1>1, Invariance, PTL

(* No history of calls leaves two services answering to one name. *)
THEOREM NamesUnique == Spec => []UniqueFqdn
<1>1. IInv => UniqueFqdn
  BY DEF IInv
<1> QED
  BY <1>1, Invariance, PTL

(* No history of calls, failing allocations included, leaks a block, frees *)
(* one twice or leaves a freed struct in the list.                         *)
THEOREM MemoryExact == Spec => []HeapExact
<1>1. IInv => HeapExact
  BY DEF IInv
<1> QED
  BY <1>1, Invariance, PTL

(* The list never outgrows its array. *)
THEOREM ListInBounds == Spec => []CapacityCovers
<1>1. IInv => CapacityCovers
  BY DEF IInv
<1> QED
  BY <1>1, Invariance, PTL

(* Every service in the list is fit to be answered with, whatever update   *)
(* failed half-way on it.                                                  *)
THEOREM ServicesValid == Spec => []StoredServicesAreValid
<1>1. IInv => StoredServicesAreValid
  BY DEF IInv
<1> QED
  BY <1>1, Invariance, PTL

(* mdns_find_service_by_fqdn, asked for the name of a registered service   *)
(* in any letter case, returns that service, never one that shadows it.    *)
FindReturnsTheService ==
    \A i \in DOMAIN services, name \in String :
        HasName(services[i], name) => FindsByFqdn(services, name, i)

(* That holds in every state of the registry. *)
THEOREM LookupExact == Spec => []FindReturnsTheService
<1>1. IInv => FindReturnsTheService
  <2> SUFFICES ASSUME IInv,
                      NEW i \in DOMAIN services, NEW name \in String,
                      HasName(services[i], name)
               PROVE  FindsByFqdn(services, name, i)
    BY DEF FindReturnsTheService
  <2>1. DOMAIN services = 1 .. Len(services) /\ Len(services) \in Nat
    BY LenProperties DEF IInv, TypeOK
  <2>2. ASSUME NEW j \in 1 .. (i - 1), HasName(services[j], name)
        PROVE  FALSE
    <3>1. j \in DOMAIN services /\ j # i
      BY <2>1
    <3> QED
      BY <2>2, <3>1 DEF HasName, StrCaseEq, IInv, UniqueFqdn
  <2> QED
    BY <2>2 DEF FindsByFqdn
<1> QED
  BY <1>1, Invariance, PTL

-----------------------------------------------------------------------------
(* Identity and order. *)

(* Moving the services behind down one place removes one from the *)
(* sequence. *)
LEMMA ShiftDownRemoves ==
    ASSUME NEW S, NEW reg \in Seq(S), NEW i \in 1 .. Len(reg)
    PROVE  ShiftDown(reg, i) = RemoveAt(reg, i)
<1> DEFINE n == Len(reg)
           front == SubSeq(reg, 1, i - 1)
           back == SubSeq(reg, i + 1, n)
<1>1. n \in Nat /\ \A j \in 1 .. n : reg[j] \in S
  BY LenProperties, ElementOfSeq
<1>2. /\ front \in Seq(S) /\ Len(front) = i - 1
      /\ \A j \in 1 .. (i - 1) : front[j] = reg[j]
  BY <1>1, SubSeqProperties
<1>3. /\ back \in Seq(S) /\ Len(back) = n - i
      /\ \A j \in 1 .. (n - i) : back[j] = reg[i + j]
  BY <1>1, SubSeqProperties
<1> HIDE DEF front, back
<1>4. /\ front \o back \in Seq(S) /\ Len(front \o back) = n - 1
      /\ \A j \in 1 .. (n - 1) :
            (front \o back)[j] = IF j <= i - 1 THEN front[j] ELSE back[j - (i - 1)]
  <2>1. /\ front \o back \in Seq(S)
        /\ Len(front \o back) = Len(front) + Len(back)
        /\ \A j \in 1 .. (Len(front) + Len(back)) :
              (front \o back)[j] = IF j <= Len(front) THEN front[j]
                                   ELSE back[j - Len(front)]
    BY <1>2, <1>3, ConcatProperties
  <2>2. Len(front) = i - 1 /\ Len(front) + Len(back) = n - 1
    BY <1>1, <1>2, <1>3
  <2> QED
    BY <2>1, <2>2
<1>5. \A j \in 1 .. (n - 1) : ShiftDown(reg, i)[j] = (front \o back)[j]
  <2> TAKE j \in 1 .. (n - 1)
  <2>1. ShiftDown(reg, i)[j] = reg[IF j < i THEN j ELSE j + 1]
    BY ShiftDownFacts
  <2>2. CASE j < i
    BY <2>1, <2>2, <1>1, <1>2, <1>4
  <2>3. CASE ~(j < i)
    <3>1. j - (i - 1) \in 1 .. (n - i) /\ i + (j - (i - 1)) = j + 1
      BY <2>3, <1>1
    <3> QED
      BY <2>1, <2>3, <3>1, <1>1, <1>3, <1>4
  <2> QED
    BY <2>2, <2>3
<1>6. ShiftDown(reg, i) = front \o back
  <2>1. ShiftDown(reg, i) \in Seq(S) /\ Len(ShiftDown(reg, i)) = n - 1
    BY ShiftDownFacts
  <2> QED
    BY <2>1, <1>4, <1>5, SeqEqual
<1> QED
  BY <1>6 DEF RemoveAt, front, back

(* Every step keeps identity and order. *)
LEMMA StepKeepsIdentityAndOrder ==
    ASSUME IInv, Next
    PROVE  KeepsIdentityAndOrder
<1> DEFINE n == Len(services)
<1>1. services \in Seq(Service) /\ n \in Nat /\ DOMAIN services = 1 .. n
  BY LenProperties DEF IInv, TypeOK
<1>2. ASSUME NEW svc \in Params, Register(svc) PROVE KeepsIdentityAndOrder
  <2>1. PICK a \in Addr : services' = Append(services, NewService(a, svc))
    BY <1>2 DEF Register
  <2>2. NewService(a, svc) \in Service
    BY <1>2, NewServiceFacts DEF Register
  <2>3. Len(services') = n + 1 /\ \A i \in 1 .. n : services'[i] = services[i]
    BY <2>1, <2>2, <1>1, AppendProperties
  <2> QED
    BY <2>3, <1>1 DEF KeepsIdentityAndOrder, SameIdentity
<1>3. ASSUME UNCHANGED services PROVE KeepsIdentityAndOrder
  BY <1>1, <1>3 DEF KeepsIdentityAndOrder, SameIdentity
<1>4. ASSUME NEW i \in 1 .. n, NEW s,
             s.addr = services[i].addr, s.instance = services[i].instance,
             s.service_type = services[i].service_type,
             s.domain = services[i].domain,
             services' = [services EXCEPT ![i] = s]
      PROVE  KeepsIdentityAndOrder
  <2>1. /\ Len(services') = n
        /\ \A j \in 1 .. n : services'[j] = IF j = i THEN s ELSE services[j]
    BY <1>1, <1>4
  <2> QED
    BY <2>1, <1>1, <1>4 DEF KeepsIdentityAndOrder, SameIdentity
<1>5. ASSUME NEW svc \in Params, Update(svc) PROVE KeepsIdentityAndOrder
  <2>1. PICK i \in 1 .. n, txt \in UpdatedTxt(svc) :
           services' = [services EXCEPT ![i] = [services[i] EXCEPT
               !.port = svc.port, !.ttl = Ttl(svc), !.target_host = svc.target_host,
               !.txt_kv = txt, !.txt_kv_count = CountOf(txt)]]
    BY <1>5 DEF Update
  <2> DEFINE s == [services[i] EXCEPT
               !.port = svc.port, !.ttl = Ttl(svc), !.target_host = svc.target_host,
               !.txt_kv = txt, !.txt_kv_count = CountOf(txt)]
  <2>2. services[i] \in Service
    BY <1>1, ElementOfSeq
  <2>3. /\ s.addr = services[i].addr /\ s.instance = services[i].instance
        /\ s.service_type = services[i].service_type /\ s.domain = services[i].domain
    BY <2>2 DEF Service
  <2> HIDE DEF s
  <2> QED
    BY <2>1, <2>3, <1>4 DEF s
<1>6. ASSUME NEW svc \in Params, UpdateOutOfMemory(svc) PROVE KeepsIdentityAndOrder
  <2>1. PICK i \in 1 .. n :
           services' = [services EXCEPT ![i] = [services[i] EXCEPT
               !.port = svc.port, !.ttl = Ttl(svc)]]
    BY <1>6 DEF UpdateOutOfMemory
  <2> DEFINE s == [services[i] EXCEPT !.port = svc.port, !.ttl = Ttl(svc)]
  <2>2. services[i] \in Service
    BY <1>1, ElementOfSeq
  <2>3. /\ s.addr = services[i].addr /\ s.instance = services[i].instance
        /\ s.service_type = services[i].service_type /\ s.domain = services[i].domain
    BY <2>2 DEF Service
  <2> HIDE DEF s
  <2> QED
    BY <2>1, <2>3, <1>4 DEF s
<1>7. ASSUME NEW name \in QueryNames, Unregister(name) PROVE KeepsIdentityAndOrder
  <2>1. PICK i \in 1 .. n : services' = ShiftDown(services, i)
    BY <1>7 DEF Unregister
  <2>2. services' = RemoveAt(services, i)
    BY <2>1, <1>1, ShiftDownRemoves
  <2> QED
    BY <2>2, <1>1 DEF KeepsIdentityAndOrder
<1>8. CASE Cleanup
  BY <1>8 DEF Cleanup, KeepsIdentityAndOrder
<1> QED
  BY <1>2, <1>3, <1>5, <1>6, <1>7, <1>8 DEF Next, RegisterOutOfMemory

(* A pointer into the list keeps its meaning for as long as the service is *)
(* registered, whatever calls are made in between.                         *)
THEOREM PointersKeepMeaning == Spec => IdentityAndOrderKept
<1>1. IInv /\ [Next]_vars => [KeepsIdentityAndOrder]_vars
  BY StepKeepsIdentityAndOrder
<1> QED
  BY <1>1, Invariance, PTL DEF Spec, IdentityAndOrderKept

-----------------------------------------------------------------------------
(* The registry implements the directory of Directory.tla.  The state is   *)
(* mapped by DirectoryOf: each name that fits the buffer stands for the    *)
(* struct of the service that carries it, and the mapping is well defined  *)
(* because names are unique (UniqueFqdn).                                  *)

Uniq(reg) ==
    \A i, j \in DOMAIN reg :
        i # j /\ Fits(reg[i]) /\ Fits(reg[j]) => Key(reg[i]) # Key(reg[j])

(* The invariant, as the refinement uses it. *)
LEMMA ListFacts ==
    ASSUME IInv
    PROVE  /\ services \in Seq(Service) /\ Len(services) \in Nat
           /\ DOMAIN services = 1 .. Len(services)
           /\ Uniq(services)
BY LenProperties DEF IInv, TypeOK, UniqueFqdn, Uniq, Key, StrCaseEq

(* The name of each service is in the directory and stands for its struct. *)
LEMMA NamedByKey ==
    ASSUME NEW reg, Uniq(reg), NEW i \in DOMAIN reg, Fits(reg[i])
    PROVE  /\ Key(reg[i]) \in NamesIn(reg)
           /\ StructNamed(reg, Key(reg[i])) = reg[i].addr
<1> DEFINE j == CHOOSE j \in DOMAIN reg : Fits(reg[j]) /\ Key(reg[j]) = Key(reg[i])
<1>1. j \in DOMAIN reg /\ Fits(reg[j]) /\ Key(reg[j]) = Key(reg[i])
  OBVIOUS
<1>2. StructNamed(reg, Key(reg[i])) = reg[j].addr
  BY DEF StructNamed
<1> HIDE DEF j
<1>3. j = i
  BY <1>1 DEF Uniq
<1>4. Key(reg[i]) \in NamesIn(reg)
  BY DEF NamesIn
<1> QED
  BY <1>2, <1>3, <1>4

(* Two lists that name the same structs have the same directory. *)
LEMMA SameDirectory ==
    ASSUME NEW reg, Uniq(reg), NEW old, Uniq(old),
           \A i \in DOMAIN reg : Fits(reg[i]) =>
               \E j \in DOMAIN old : /\ Fits(old[j]) /\ Key(old[j]) = Key(reg[i])
                                     /\ old[j].addr = reg[i].addr,
           \A j \in DOMAIN old : Fits(old[j]) =>
               \E i \in DOMAIN reg : Fits(reg[i]) /\ Key(reg[i]) = Key(old[j])
    PROVE  DirectoryOf(reg) = DirectoryOf(old)
<1>1. NamesIn(reg) = NamesIn(old)
  BY DEF NamesIn
<1>2. \A n \in NamesIn(reg) : StructNamed(reg, n) = StructNamed(old, n)
  <2> TAKE n \in NamesIn(reg)
  <2>1. PICK i \in DOMAIN reg : Fits(reg[i]) /\ Key(reg[i]) = n
    BY DEF NamesIn
  <2>2. PICK j \in DOMAIN old : /\ Fits(old[j]) /\ Key(old[j]) = n
                                /\ old[j].addr = reg[i].addr
    BY <2>1
  <2> QED
    BY <2>1, <2>2, NamedByKey
<1> QED
  BY <1>1, <1>2 DEF DirectoryOf

(* What the directory holds, name by name. *)
LEMMA DirectoryEntries ==
    ASSUME NEW reg, Uniq(reg), NEW n \in DOMAIN DirectoryOf(reg)
    PROVE  \E i \in DOMAIN reg : /\ Fits(reg[i]) /\ Key(reg[i]) = n
                                 /\ DirectoryOf(reg)[n] = reg[i].addr
<1>1. n \in NamesIn(reg) /\ DirectoryOf(reg)[n] = StructNamed(reg, n)
  BY DEF DirectoryOf
<1>2. PICK i \in DOMAIN reg : Fits(reg[i]) /\ Key(reg[i]) = n
  BY <1>1 DEF NamesIn
<1> QED
  BY <1>1, <1>2, NamedByKey

-----------------------------------------------------------------------------
(* Initial states and steps. *)

(* An empty registry is an empty directory. *)
LEMMA InitRefines == Init => D!Init
<1>1. Init => DOMAIN services = {}
  BY DEF Init
<1> QED
  BY <1>1 DEF D!Init, DirectoryOf, NamesIn

(* A registration is a step of the directory, or changes nothing in it. *)
LEMMA RegisterRefines ==
    ASSUME IInv, IInv', NEW svc \in Params, Register(svc)
    PROVE  D!Next \/ UNCHANGED DirectoryOf(services)
<1>1. PICK a \in Addr :
         heap[a] = 0 /\ services' = Append(services, NewService(a, svc))
  BY DEF Register
<1> DEFINE n == Len(services)
           new == NewService(a, svc)
           key == Key(svc)
<1>2. /\ n \in Nat /\ DOMAIN services = 1 .. n /\ Uniq(services)
      /\ services \in Seq(Service)
  BY ListFacts
<1>3. /\ new \in Service /\ new.addr = a
      /\ Fits(new) = Fits(svc) /\ Key(new) = key
  BY NewServiceFacts DEF Register, Key
<1>4. /\ DOMAIN services' = 1 .. (n + 1)
      /\ \A i \in 1 .. n : services'[i] = services[i]
      /\ services'[n + 1] = new
  BY <1>1, <1>2, <1>3, AppendProperties
<1>5. Uniq(services')
  BY DEF IInv, UniqueFqdn, Uniq, Key, StrCaseEq
<1> HIDE DEF n, new
<1>6. CASE ~ Fits(svc)
  <2>1. \A i \in DOMAIN services' : Fits(services'[i]) =>
           i \in DOMAIN services /\ services'[i] = services[i]
    BY <1>2, <1>3, <1>4, <1>6
  <2>2. \A i \in DOMAIN services : i \in DOMAIN services' /\ services'[i] = services[i]
    BY <1>2, <1>4
  <2>3. DirectoryOf(services') = DirectoryOf(services)
    BY <1>2, <1>5, <2>1, <2>2, SameDirectory
  <2> QED
    BY <2>3
<1>7. CASE Fits(svc)
  <2>1. key \notin NamesIn(services)
    BY <1>2, <1>7 DEF Register, IsDuplicate, HasName, StrCaseEq, NamesIn, Key
  <2>2. NamesIn(services') = NamesIn(services) \cup {key}
    <3>1. ASSUME NEW m \in NamesIn(services') PROVE m \in NamesIn(services) \cup {key}
      <4>1. PICK i \in 1 .. (n + 1) : Fits(services'[i]) /\ Key(services'[i]) = m
        BY <1>4 DEF NamesIn
      <4>2. CASE i = n + 1
        BY <4>1, <4>2, <1>3, <1>4
      <4>3. CASE i \in 1 .. n
        BY <4>1, <4>3, <1>2, <1>4 DEF NamesIn
      <4> QED
        BY <4>2, <4>3, <1>2
    <3>2. key \in NamesIn(services')
      <4>1. n + 1 \in DOMAIN services' /\ Fits(services'[n + 1])
            /\ Key(services'[n + 1]) = key
        BY <1>2, <1>3, <1>4, <1>7
      <4> QED
        BY <4>1 DEF NamesIn
    <3>3. ASSUME NEW m \in NamesIn(services) PROVE m \in NamesIn(services')
      <4>1. PICK i \in 1 .. n : Fits(services[i]) /\ Key(services[i]) = m
        BY <1>2 DEF NamesIn
      <4> QED
        BY <4>1, <1>2, <1>4 DEF NamesIn
    <3> QED
      BY <3>1, <3>2, <3>3
  <2>3. StructNamed(services', key) = a
    <3>1. /\ n + 1 \in DOMAIN services' /\ Fits(services'[n + 1])
          /\ Key(services'[n + 1]) = key /\ services'[n + 1].addr = a
      BY <1>2, <1>3, <1>4, <1>7
    <3>2. StructNamed(services', Key(services'[n + 1])) = services'[n + 1].addr
      BY <3>1, <1>5, NamedByKey
    <3> QED
      BY <3>1, <3>2
  <2>4. \A m \in NamesIn(services) : StructNamed(services', m) = StructNamed(services, m)
    <3> TAKE m \in NamesIn(services)
    <3>1. PICK i \in 1 .. n : Fits(services[i]) /\ Key(services[i]) = m
      BY <1>2 DEF NamesIn
    <3>2. StructNamed(services, m) = services[i].addr
      BY <3>1, <1>2, NamedByKey
    <3>3. StructNamed(services', m) = services[i].addr
      BY <3>1, <1>2, <1>4, <1>5, NamedByKey
    <3> QED
      BY <3>2, <3>3
  <2>5. \A m \in DOMAIN DirectoryOf(services) : DirectoryOf(services)[m] # a
    <3> TAKE m \in DOMAIN DirectoryOf(services)
    <3>1. PICK i \in DOMAIN services : DirectoryOf(services)[m] = services[i].addr
      BY <1>2, DirectoryEntries
    <3> QED
      BY <3>1, <1>1, <1>2, EntryFacts DEF n
  <2>6. DirectoryOf(services') =
           [m \in DOMAIN DirectoryOf(services) \cup {key} |->
               IF m = key THEN a ELSE DirectoryOf(services)[m]]
    BY <2>1, <2>2, <2>3, <2>4 DEF DirectoryOf
  <2>7. D!Add(key, a)
    BY <2>1, <2>5, <2>6 DEF D!Add, DirectoryOf
  <2> QED
    BY <2>7 DEF D!Next
<1> QED
  BY <1>6, <1>7

(* A service rewritten under its own name and address leaves the *)
(* directory alone. *)
LEMMA RewriteRefines ==
    ASSUME IInv, IInv', NEW i \in 1 .. Len(services), NEW s,
           services' = [services EXCEPT ![i] = s],
           s.addr = services[i].addr, Fqdn(s) = Fqdn(services[i])
    PROVE  UNCHANGED DirectoryOf(services)
<1>1. /\ DOMAIN services = 1 .. Len(services) /\ Uniq(services)
      /\ services \in Seq(Service)
  BY ListFacts
<1>2. Uniq(services')
  BY DEF IInv, UniqueFqdn, Uniq, Key, StrCaseEq
<1>3. /\ DOMAIN services' = DOMAIN services
      /\ \A j \in DOMAIN services :
            /\ services'[j].addr = services[j].addr
            /\ Fits(services'[j]) = Fits(services[j])
            /\ Key(services'[j]) = Key(services[j])
  BY <1>1 DEF Fits, Key
<1> QED
  BY <1>1, <1>2, <1>3, SameDirectory

(* Unregistering is a step of the directory. *)
LEMMA UnregisterRefines ==
    ASSUME IInv, IInv', NEW name \in QueryNames, Unregister(name)
    PROVE  D!Next
<1> DEFINE n == Len(services)
<1>1. /\ n \in Nat /\ DOMAIN services = 1 .. n /\ Uniq(services)
      /\ services \in Seq(Service)
  BY ListFacts
<1>2. PICK i \in 1 .. n :
         FindsByFqdn(services, name, i) /\ services' = ShiftDown(services, i)
  BY DEF Unregister
<1> DEFINE key == Key(services[i])
           Was(j) == IF j < i THEN j ELSE j + 1
<1>3. /\ services' \in Seq(Service)
      /\ DOMAIN services' = 1 .. (n - 1)
      /\ \A j \in 1 .. (n - 1) : services'[j] = services[Was(j)]
  BY <1>1, <1>2, ShiftDownFacts, LenProperties
<1>4. \A j \in 1 .. (n - 1) : Was(j) \in 1 .. n /\ Was(j) # i
  BY <1>1
<1>5. \A k \in 1 .. n : k # i => \E j \in 1 .. (n - 1) : Was(j) = k
  <2> SUFFICES ASSUME NEW k \in 1 .. n, k # i
               PROVE  \E j \in 1 .. (n - 1) : Was(j) = k
    OBVIOUS
  <2>1. CASE k < i
    <3>1. k \in 1 .. (n - 1) /\ Was(k) = k
      BY <2>1, <1>1
    <3> QED
      BY <3>1
  <2>2. CASE k > i
    <3>1. k - 1 \in 1 .. (n - 1) /\ Was(k - 1) = k
      BY <2>2, <1>1
    <3> QED
      BY <3>1
  <2> QED
    BY <2>1, <2>2, <1>1
<1>6. Uniq(services')
  BY DEF IInv, UniqueFqdn, Uniq, Key, StrCaseEq
<1>7. Fits(services[i]) /\ key \in NamesIn(services)
  BY <1>1, <1>2, NamedByKey DEF FindsByFqdn, HasName
<1> HIDE DEF n, Was, key
<1>8. NamesIn(services') = NamesIn(services) \ {key}
  <2>1. ASSUME NEW m \in NamesIn(services')
        PROVE  m \in NamesIn(services) /\ m # key
    <3>1. PICK j \in 1 .. (n - 1) : Fits(services'[j]) /\ Key(services'[j]) = m
      BY <1>3 DEF NamesIn
    <3>2. /\ Fits(services[Was(j)]) /\ Key(services[Was(j)]) = m
          /\ Was(j) \in DOMAIN services /\ Was(j) # i
      BY <3>1, <1>1, <1>3, <1>4
    <3> QED
      BY <3>2, <1>1, <1>7, i \in DOMAIN services DEF NamesIn, Uniq, key
  <2>2. ASSUME NEW m \in NamesIn(services), m # key
        PROVE  m \in NamesIn(services')
    <3>1. PICK k \in 1 .. n : Fits(services[k]) /\ Key(services[k]) = m
      BY <1>1 DEF NamesIn
    <3>2. PICK j \in 1 .. (n - 1) : Was(j) = k
      BY <2>2, <3>1, <1>5 DEF key
    <3>3. j \in DOMAIN services' /\ services'[j] = services[k]
      BY <3>2, <1>3
    <3> QED
      BY <3>1, <3>3 DEF NamesIn
  <2> QED
    BY <2>1, <2>2
<1>9. \A m \in NamesIn(services') : StructNamed(services', m) = StructNamed(services, m)
  <2> TAKE m \in NamesIn(services')
  <2>1. PICK j \in 1 .. (n - 1) : Fits(services'[j]) /\ Key(services'[j]) = m
    BY <1>3 DEF NamesIn
  <2>2. StructNamed(services', m) = services'[j].addr
    BY <2>1, <1>3, <1>6, NamedByKey
  <2>3. services'[j] = services[Was(j)] /\ Was(j) \in DOMAIN services
    BY <1>1, <1>3, <1>4
  <2>4. StructNamed(services, m) = services[Was(j)].addr
    BY <2>1, <2>3, <1>1, NamedByKey
  <2> QED
    BY <2>2, <2>3, <2>4
<1>10. D!Remove(key)
  BY <1>8, <1>9 DEF D!Remove, DirectoryOf
<1>11. key \in DOMAIN DirectoryOf(services)
  BY <1>7 DEF DirectoryOf
<1> QED
  BY <1>10, <1>11 DEF D!Next

(* Cleanup clears the directory. *)
LEMMA CleanupRefines ==
    ASSUME Cleanup
    PROVE  D!Next
<1>1. DOMAIN services' = {}
  BY DEF Cleanup
<1>2. D!Clear
  BY <1>1 DEF D!Clear, DirectoryOf, NamesIn
<1> QED
  BY <1>2 DEF D!Next

(* Every step of the registry is a step of the directory or leaves it *)
(* alone. *)
LEMMA StepRefines ==
    ASSUME IInv, IInv', [Next]_vars
    PROVE  D!Next \/ UNCHANGED DirectoryOf(services)
<1>1. ASSUME NEW svc \in Params, Register(svc)
      PROVE  D!Next \/ UNCHANGED DirectoryOf(services)
  BY <1>1, RegisterRefines
<1>2. ASSUME NEW svc \in Params, Update(svc)
      PROVE  UNCHANGED DirectoryOf(services)
  <2>1. PICK i \in 1 .. Len(services), txt \in UpdatedTxt(svc) :
           services' = [services EXCEPT ![i] = [services[i] EXCEPT
               !.port = svc.port, !.ttl = Ttl(svc), !.target_host = svc.target_host,
               !.txt_kv = txt, !.txt_kv_count = CountOf(txt)]]
    BY <1>2 DEF Update
  <2> DEFINE s == [services[i] EXCEPT
               !.port = svc.port, !.ttl = Ttl(svc), !.target_host = svc.target_host,
               !.txt_kv = txt, !.txt_kv_count = CountOf(txt)]
  <2>2. services[i] \in Service
    BY EntryFacts
  <2>3. s.addr = services[i].addr /\ Fqdn(s) = Fqdn(services[i])
    BY <2>2 DEF Service, Fqdn
  <2> HIDE DEF s
  <2> QED
    BY <2>1, <2>3, RewriteRefines DEF s
<1>3. ASSUME NEW svc \in Params, UpdateOutOfMemory(svc)
      PROVE  UNCHANGED DirectoryOf(services)
  <2>1. PICK i \in 1 .. Len(services) :
           services' = [services EXCEPT ![i] = [services[i] EXCEPT
               !.port = svc.port, !.ttl = Ttl(svc)]]
    BY <1>3 DEF UpdateOutOfMemory
  <2> DEFINE s == [services[i] EXCEPT !.port = svc.port, !.ttl = Ttl(svc)]
  <2>2. services[i] \in Service
    BY EntryFacts
  <2>3. s.addr = services[i].addr /\ Fqdn(s) = Fqdn(services[i])
    BY <2>2 DEF Service, Fqdn
  <2> HIDE DEF s
  <2> QED
    BY <2>1, <2>3, RewriteRefines DEF s
<1>4. ASSUME NEW name \in QueryNames, Unregister(name) PROVE D!Next
  BY <1>4, UnregisterRefines
<1>5. ASSUME UNCHANGED services PROVE UNCHANGED DirectoryOf(services)
  BY <1>5
<1> QED
  BY <1>1, <1>2, <1>3, <1>4, <1>5, CleanupRefines DEF Next, vars, RegisterOutOfMemory

(* Whatever the calls and whichever allocations fail, the registry behaves *)
(* as a directory of names: each stands for one struct from the call that  *)
(* registers it to the call that removes it.                               *)
THEOREM Refinement == Spec => ImplementsDirectory
<1>1. Init => D!Init
  BY InitRefines
<1>2. IInv /\ IInv' /\ [Next]_vars => [D!Next]_(DirectoryOf(services))
  BY StepRefines
<1> QED
  BY <1>1, <1>2, Invariance, PTL DEF Spec, ImplementsDirectory, D!Spec
=============================================================================
