------------------------------- MODULE HostDb -------------------------------
(***************************************************************************)
(* The service registry of shared/src/hostdb.c: the list the server fills  *)
(* from its configuration file and reads to answer SRV queries.            *)
(*                                                                         *)
(* The four C strings of a service are kept as the names they hold, the    *)
(* numeric fields priority, weight and port, always copied together, as    *)
(* port.  Memory is counted: heap[a] is the number of blocks allocated and *)
(* not yet freed for the service whose struct is at address a.             *)
(***************************************************************************)
EXTENDS Lookups, FiniteSets

CONSTANTS
    Addr,              \* Addresses calloc can return for a service struct
    Params,            \* The services callers pass to register and update
    QueryNames,        \* The names callers pass to unregister
    DEFAULT_TTL,       \* 120
    INITIAL_CAPACITY   \* 8

VARIABLES
    services,          \* The list, as a sequence (its length is service_count)
    service_capacity,  \* Slots the array has room for
    heap               \* Addr -> blocks allocated for that service

vars == <<services, service_capacity, heap>>

Param == [instance : String, service_type : String, domain : String,
          target_host : String, port : Nat, ttl : Nat,
          txt_kv : Seq(STRING) \cup {NULL}]

Service == [addr : Addr, instance : String, service_type : String,
            domain : String, target_host : String, port : Nat, ttl : Nat,
            txt_kv : Seq(STRING) \cup {NULL}, txt_kv_count : Nat]

ASSUME HostDbAssumption ==
    /\ IsFiniteSet(Addr)
    /\ Params \subseteq Param
    /\ QueryNames \subseteq String
    /\ NULL \notin Seq(STRING)
    /\ DEFAULT_TTL \in Nat \ {0}
    /\ INITIAL_CAPACITY \in Nat \ {0}

-----------------------------------------------------------------------------
(* A null string and an empty one are refused alike: both are << >>. *)
validate_service(svc) ==
    /\ svc.instance # << >> /\ svc.service_type # << >>
    /\ svc.domain # << >> /\ svc.target_host # << >>
    /\ svc.port # 0
    /\ StrCaseEq(svc.domain, Local)
    /\ StartsWithUnderscore(svc.service_type)

-----------------------------------------------------------------------------
(* Memory. *)

(* Blocks of a service with n of its four strings and with TXT array txt.  *)
(* A slot of the array without a string is not part of txt.                *)
BlocksOf(n, txt) == 1 + n + (IF txt = NULL THEN 0 ELSE 1 + Len(txt))

(* Mutant of free_service: the loop over txt_kv runs to <= txt_kv_count. *)
FreesOneTooMany(n, txt, txt_kv_count) ==
    1 + n + (IF txt = NULL THEN 0 ELSE 2 + txt_kv_count)

(* The blocks free_service frees: it trusts txt_kv_count. *)
free_service(n, txt, txt_kv_count) ==
    1 + n + (IF txt = NULL THEN 0 ELSE 1 + txt_kv_count)

CountOf(txt) == IF txt = NULL THEN 0 ELSE Len(txt)

CopiedTxt(svc) == IF svc.txt_kv = << >> THEN NULL ELSE svc.txt_kv

(* Mutant of Ttl: the default for a TTL of 0 is forgotten. *)
TtlAsGiven(svc) == svc.ttl

Ttl(svc) == IF svc.ttl > 0 THEN svc.ttl ELSE DEFAULT_TTL

NewService(a, svc) ==
    [addr |-> a, instance |-> svc.instance, service_type |-> svc.service_type,
     domain |-> svc.domain, target_host |-> svc.target_host,
     port |-> svc.port, ttl |-> Ttl(svc),
     txt_kv |-> CopiedTxt(svc), txt_kv_count |-> CountOf(CopiedTxt(svc))]

(* Mutant of PartialServices: txt_kv_count is set after the entries are     *)
(* copied, not before.                                                     *)
CountSetLate(svc) ==
    LET txt == CopiedTxt(svc)
    IN  {[n |-> n, txt_kv |-> NULL, txt_kv_count |-> 0] : n \in 0 .. 4}
        \cup (IF txt = NULL THEN {}
              ELSE {[n |-> 4, txt_kv |-> SubSeq(txt, 1, k), txt_kv_count |-> 0]
                        : k \in 0 .. Len(txt)})

(* Where an allocation fails: n strings copied; or all four and the first  *)
(* k TXT entries, txt_kv_count being set to k first, or no TXT array.  All *)
(* copied is the failure of the realloc that grows the list.               *)
PartialServices(svc) ==
    LET txt == CopiedTxt(svc)
    IN  {[n |-> n, txt_kv |-> NULL, txt_kv_count |-> 0] : n \in 0 .. 4}
        \cup (IF txt = NULL THEN {}
              ELSE {[n |-> 4, txt_kv |-> SubSeq(txt, 1, k), txt_kv_count |-> k]
                        : k \in 0 .. Len(txt)})

-----------------------------------------------------------------------------
(* Operations. *)

(* Mutants of IsDuplicate: strcmp for strcasecmp; and the parts of the name *)
(* compared one by one.                                                    *)
DuplicateByCase(reg, svc) ==
    Fits(svc) /\ \E i \in DOMAIN reg : Fits(reg[i]) /\ Fqdn(reg[i]) = Fqdn(svc)
DuplicateByParts(reg, svc) ==
    Fits(svc) /\ \E i \in DOMAIN reg :
        /\ StrCaseEq(reg[i].instance, svc.instance)
        /\ StrCaseEq(reg[i].service_type, svc.service_type)

(* The check for a duplicate, which a name too long for the buffer skips.  *)
IsDuplicate(reg, svc) ==
    Fits(svc) /\ \E i \in DOMAIN reg : HasName(reg[i], Fqdn(svc))

(* Mutant of NewCapacity: the array grows one call late. *)
GrowsLate(count, capacity) ==
    IF count <= capacity /\ capacity > 0 THEN capacity
    ELSE IF capacity = 0 THEN INITIAL_CAPACITY ELSE 2 * capacity

NewCapacity(count, capacity) ==
    IF count < capacity THEN capacity
    ELSE IF capacity = 0 THEN INITIAL_CAPACITY ELSE 2 * capacity

Init ==
    /\ services = << >>
    /\ service_capacity = 0
    /\ heap = [a \in Addr |-> 0]

(* mdns_register_service(svc) returning 0.  Its refusals change nothing.   *)
Register(svc) ==
    /\ validate_service(svc)
    /\ ~ IsDuplicate(services, svc)
    /\ \E a \in Addr :
          /\ heap[a] = 0
          /\ services' = Append(services, NewService(a, svc))
          /\ heap' = [heap EXCEPT ![a] = BlocksOf(4, CopiedTxt(svc))]
    /\ service_capacity' = NewCapacity(Len(services), service_capacity)

(* mdns_register_service(svc) when the struct was allocated and something  *)
(* later was not: what was built is handed to free_service.                *)
RegisterOutOfMemory(svc) ==
    /\ validate_service(svc)
    /\ ~ IsDuplicate(services, svc)
    /\ \E a \in Addr, p \in PartialServices(svc) :
          /\ heap[a] = 0
          /\ heap' = [heap EXCEPT ![a] = BlocksOf(p.n, p.txt_kv)
                                         - free_service(p.n, p.txt_kv, p.txt_kv_count)]
    /\ UNCHANGED <<services, service_capacity>>

(* What update leaves in txt_kv: the caller's TXT; or, out of memory, no   *)
(* array or the entries copied until then.                                 *)
UpdatedTxt(svc) ==
    LET txt == CopiedTxt(svc)
    IN  {txt, NULL} \cup (IF txt = NULL THEN {}
                          ELSE {SubSeq(txt, 1, k) : k \in 0 .. (Len(txt) - 1)})

(* mdns_update_service(svc) past the copy of the new target host, which    *)
(* takes the place of the old one, freed next.                             *)
Update(svc) ==
    /\ validate_service(svc)
    /\ Fits(svc)
    /\ \E i \in 1 .. Len(services) :
          /\ FindsByFqdn(services, Fqdn(svc), i)
          /\ \E txt \in UpdatedTxt(svc) :
                /\ services' = [services EXCEPT ![i] = [@ EXCEPT
                      !.port = svc.port, !.ttl = Ttl(svc),
                      !.target_host = svc.target_host,
                      !.txt_kv = txt, !.txt_kv_count = CountOf(txt)]]
                /\ heap' = [heap EXCEPT ![services[i].addr] =
                      @ - (IF services[i].txt_kv = NULL THEN 0
                           ELSE 1 + services[i].txt_kv_count)
                        + (IF txt = NULL THEN 0 ELSE 1 + Len(txt))]
    /\ UNCHANGED service_capacity

(* mdns_update_service(svc) when the copy of the target host fails: the    *)
(* numeric fields have changed already.                                    *)
UpdateOutOfMemory(svc) ==
    /\ validate_service(svc)
    /\ Fits(svc)
    /\ \E i \in 1 .. Len(services) :
          /\ FindsByFqdn(services, Fqdn(svc), i)
          /\ services' = [services EXCEPT ![i] = [@ EXCEPT
                !.port = svc.port, !.ttl = Ttl(svc)]]
    /\ UNCHANGED <<service_capacity, heap>>

FreeOf(s) == free_service(4, s.txt_kv, s.txt_kv_count)

(* Mutant of ShiftDown: the last entry takes the freed slot. *)
SwapWithLast(reg, i) ==
    [j \in 1 .. (Len(reg) - 1) |-> IF j = i THEN reg[Len(reg)] ELSE reg[j]]

(* The list after the entries behind position i moved one slot forward.    *)
ShiftDown(reg, i) ==
    [j \in 1 .. (Len(reg) - 1) |-> IF j < i THEN reg[j] ELSE reg[j + 1]]

(* mdns_unregister_service(instance_fqdn) returning 0. *)
Unregister(instance_fqdn) ==
    /\ \E i \in 1 .. Len(services) :
          /\ FindsByFqdn(services, instance_fqdn, i)
          /\ services' = ShiftDown(services, i)
          /\ heap' = [heap EXCEPT ![services[i].addr] = @ - FreeOf(services[i])]
    /\ UNCHANGED service_capacity

(* mdns_cleanup_services() *)
Cleanup ==
    /\ services' = << >>
    /\ service_capacity' = 0
    /\ heap' = [a \in Addr |->
                  IF \E i \in DOMAIN services : services[i].addr = a
                  THEN heap[a] - FreeOf(services[CHOOSE i \in DOMAIN services :
                                                    services[i].addr = a])
                  ELSE heap[a]]

Next ==
    \/ \E svc \in Params : \/ Register(svc)
                           \/ RegisterOutOfMemory(svc)
                           \/ Update(svc)
                           \/ UpdateOutOfMemory(svc)
    \/ \E name \in QueryNames : Unregister(name)
    \/ Cleanup

Spec == Init /\ [][Next]_vars

-----------------------------------------------------------------------------
(* Properties. *)

(* The variables hold what the C declarations allow. *)
TypeOK ==
    /\ services \in Seq(Service)
    /\ service_capacity \in Nat
    /\ heap \in [Addr -> Nat]

(* No two registered services answer to one name: mdns_register_service    *)
(* refuses a conflict whatever the case and however the name is split into *)
(* instance and type, and no later call brings one back.  Names that do    *)
(* not fit the buffer are exempt: the code does not compare them.          *)
UniqueFqdn ==
    \A i, j \in DOMAIN services :
        /\ i # j
        /\ Fits(services[i]) /\ Fits(services[j])
        => ~ StrCaseEq(Fqdn(services[i]), Fqdn(services[j]))

(* The list points to distinct structs. *)
DistinctStructs ==
    \A i, j \in DOMAIN services :
        services[i].addr = services[j].addr => i = j

(* Ownership: every block allocated for a service belongs to exactly one   *)
(* entry of the list, and is freed exactly once, through every failed      *)
(* registration and every half-done update: no leak, no double free, no    *)
(* entry of the list whose memory is gone.                                 *)
HeapExact ==
    /\ DistinctStructs
    /\ \A i \in DOMAIN services :
          heap[services[i].addr] = BlocksOf(4, services[i].txt_kv)
    /\ \A a \in Addr :
          (\A i \in DOMAIN services : services[i].addr # a) => heap[a] = 0

(* services[service_count++] is inside the array. *)
CapacityCovers == Len(services) <= service_capacity

(* Whatever calls fail half-way, a service in the list is one that         *)
(* validate_service accepts, with a positive TTL, and txt_kv_count never   *)
(* exceeds the entries behind txt_kv: the response builder may trust it.   *)
StoredServicesAreValid ==
    \A i \in DOMAIN services :
        /\ validate_service(services[i])
        /\ services[i].ttl > 0
        /\ services[i].txt_kv_count = CountOf(services[i].txt_kv)

SameIdentity(s, t) ==
    /\ s.addr = t.addr /\ s.instance = t.instance
    /\ s.service_type = t.service_type /\ s.domain = t.domain

(* A pointer handed out by find or list keeps denoting the same service    *)
(* while it is registered, and list order is stable: a step keeps every    *)
(* service in its place, or drops one and keeps the order of the others,   *)
(* or empties the list.                                                    *)
KeepsIdentityAndOrder ==
    \/ /\ Len(services') >= Len(services)
       /\ \A i \in DOMAIN services : SameIdentity(services'[i], services[i])
    \/ \E i \in DOMAIN services : services' = RemoveAt(services, i)
    \/ services' = << >>

IdentityAndOrderKept == [][KeepsIdentityAndOrder]_vars

(* The refinement: a name that fits the buffer stands for the struct that  *)
(* carries it.  Services whose names do not fit are in no directory.       *)
Key(svc) == Folded(Fqdn(svc))

NamesIn(reg) == {Key(reg[i]) : i \in {j \in DOMAIN reg : Fits(reg[j])}}

StructNamed(reg, n) ==
    reg[CHOOSE i \in DOMAIN reg : Fits(reg[i]) /\ Key(reg[i]) = n].addr

DirectoryOf(reg) == [n \in NamesIn(reg) |-> StructNamed(reg, n)]

D == INSTANCE Directory WITH
        Name <- {Key(svc) : svc \in Params}, Struct <- Addr,
        entries <- DirectoryOf(services)

(* The registry implements the directory: a name is added only when it is  *)
(* free, keeps its struct through every update, and goes by unregister or  *)
(* cleanup only.                                                           *)
ImplementsDirectory == D!Spec
=============================================================================
