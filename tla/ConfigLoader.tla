---------------------------- MODULE ConfigLoader ----------------------------
(***************************************************************************)
(* server/src/config.c: reading [service] sections and registering them.   *)
(*                                                                         *)
(* A section ends where the next header starts.  By then the line with the *)
(* header has been read, so the parser of sections leaves it to the main   *)
(* loop in g_pending_line.                                                 *)
(*                                                                         *)
(* A line is kept as what trim and strchr make of it, its key as one of    *)
(* those the parser knows or another, its value as a text and as the       *)
(* number atoi makes of it, which is not negative; priority and weight are *)
(* left out, and so are lines of MAX_LINE bytes or more, of which fgets    *)
(* makes several.  malloc may fail: a text it was for is then null, which  *)
(* the registry takes as empty.                                            *)
(***************************************************************************)
EXTENDS Names, FiniteSets

CONSTANTS
    Addr, DEFAULT_TTL, INITIAL_CAPACITY,   \* As in HostDb
    Files,             \* The configuration files: sequences of lines
    PORT_RANGE,        \* 2^16: what a uint16_t holds
    MAX_TXT_RECORDS    \* 32

(* blank: empty or a comment.  header: of a section called name.           *)
(* unclosed: a '[' without ']'.  junk: no '='.  key: name = text, of which *)
(* atoi makes num.                                                         *)
Line == [kind : {"blank", "header", "unclosed", "junk", "key"},
         name : STRING, text : String, num : Nat]

ASSUME ConfigAssumption ==
    /\ Files \subseteq Seq(Line)
    /\ PORT_RANGE \in Nat \ {0} /\ MAX_TXT_RECORDS \in Nat
    /\ IsFiniteSet(Addr) /\ NULL \notin Seq(STRING)
    /\ {DEFAULT_TTL, INITIAL_CAPACITY} \subseteq Nat \ {0}

VARIABLES
    services, service_capacity, heap,   \* The registry
    file,
    pc,              \* top: the loop of config_load_services; section,
                     \* validate, register: in parse_service_section
    line_num,        \* Lines fgets has returned
    g_pending_line,  \* The number of the line left by a section, or 0
    svc,             \* The service being read
    has,             \* Which of the required fields have been seen
    domain_is_literal,   \* svc.domain is "local" itself, not a copy
    service_count,   \* config_load_services' counter
    out_of_memory    \* Some allocation has failed

registry == <<services, service_capacity, heap>>
section == <<svc, has, domain_is_literal>>
vars == <<registry, file, pc, line_num, g_pending_line, section, service_count, out_of_memory>>

H == INSTANCE HostDb WITH Params <- {}, QueryNames <- {}

Required == {"instance", "type", "port", "target"}

BlankService ==
    [instance |-> << >>, service_type |-> << >>, domain |-> Local, target_host |-> << >>,
     port |-> 0, ttl |-> DEFAULT_TTL, txt_kv |-> << >>]

IsHeader(line) == line.kind \in {"header", "unclosed"}
StartsService(line) == line.kind = "header" /\ line.name = "service"

(* Mutant of Port: a field wider than the port. *)
PortUncut(num) == num

(* (uint16_t)atoi(value) *)
Port(num) == num % PORT_RANGE

(* The service once the line "name = text" is read; copied is FALSE when   *)
(* malloc fails.                                                           *)
WithKey(s, line, copied) ==
    LET text == IF copied THEN line.text ELSE << >>
        goes(field) == line.name = field
        is_txt == line.name \in {"txt.a", "txt.b"}
    IN  [s EXCEPT
            !.instance = IF goes("instance") THEN text ELSE @,
            !.service_type = IF goes("type") THEN text ELSE @,
            !.target_host = IF goes("target") THEN text ELSE @,
            !.domain = IF goes("domain") THEN text ELSE @,
            !.port = IF goes("port") THEN Port(line.num) ELSE @,
            !.ttl = IF goes("ttl") THEN line.num ELSE @,
            !.txt_kv = IF is_txt /\ copied /\ Len(@) < MAX_TXT_RECORDS
                       THEN Append(@, line.name) ELSE @]

Copies(line) == line.name \in {"instance", "type", "target", "domain", "txt.a", "txt.b"}

-----------------------------------------------------------------------------
Init ==
    /\ H!Init
    /\ file \in Files
    /\ pc = "top" /\ line_num = 0 /\ g_pending_line = 0
    /\ svc = BlankService /\ has = {} /\ domain_is_literal = TRUE
    /\ service_count = 0
    /\ out_of_memory = FALSE

(* What the main loop does with line n. *)
TakeLine(n) ==
    IF StartsService(file[n])
    THEN /\ pc' = "section"
         /\ svc' = BlankService /\ has' = {} /\ domain_is_literal' = TRUE
    ELSE UNCHANGED <<pc, section>>

(* Mutant of TakePending: g_has_pending stays set. *)
KeepsPending ==
    /\ pc = "top" /\ g_pending_line # 0
    /\ TakeLine(g_pending_line)
    /\ UNCHANGED <<registry, file, line_num, g_pending_line, service_count, out_of_memory>>

TakePending ==
    /\ pc = "top" /\ g_pending_line # 0
    /\ TakeLine(g_pending_line)
    /\ g_pending_line' = 0
    /\ UNCHANGED <<registry, file, line_num, service_count, out_of_memory>>

TakeNext ==
    /\ pc = "top" /\ g_pending_line = 0
    /\ line_num < Len(file)
    /\ line_num' = line_num + 1
    /\ TakeLine(line_num + 1)
    /\ UNCHANGED <<registry, file, g_pending_line, service_count, out_of_memory>>

EndOfFile ==
    /\ pc = "top" /\ g_pending_line = 0
    /\ line_num = Len(file)
    /\ pc' = "done"
    /\ UNCHANGED <<registry, file, line_num, g_pending_line, section, service_count, out_of_memory>>

-----------------------------------------------------------------------------
(* parse_service_section. *)

ReadKey ==
    LET line == file[line_num + 1]
    IN  /\ pc = "section" /\ line_num < Len(file)
        /\ line.kind = "key"
        /\ line_num' = line_num + 1
        /\ \E copied \in {TRUE, ~ Copies(line)} :
              /\ svc' = WithKey(svc, line, copied)
              /\ out_of_memory' = (out_of_memory \/ ~ copied)
        /\ has' = has \cup (Required \cap {line.name})
        /\ domain_is_literal' = (domain_is_literal /\ line.name # "domain")
        /\ UNCHANGED <<registry, file, pc, g_pending_line, service_count>>

SkipLine ==
    /\ pc = "section" /\ line_num < Len(file)
    /\ file[line_num + 1].kind \in {"blank", "junk"}
    /\ line_num' = line_num + 1
    /\ UNCHANGED <<registry, file, pc, g_pending_line, section, service_count, out_of_memory>>

(* Mutant of SectionEnds: the header that ends a section is forgotten. *)
HeaderLost ==
    /\ pc = "section"
    /\ line_num < Len(file) => IsHeader(file[line_num + 1])
    /\ line_num' = IF line_num = Len(file) THEN line_num ELSE line_num + 1
    /\ pc' = "validate"
    /\ UNCHANGED <<registry, file, g_pending_line, section, service_count, out_of_memory>>

SectionEnds ==
    /\ pc = "section"
    /\ \/ line_num = Len(file) /\ UNCHANGED <<line_num, g_pending_line>>
       \/ /\ line_num < Len(file)
          /\ IsHeader(file[line_num + 1])
          /\ line_num' = line_num + 1
          /\ g_pending_line' = line_num + 1
    /\ pc' = "validate"
    /\ UNCHANGED <<registry, file, section, service_count, out_of_memory>>

(* A section that is not taken has its strings freed, svc.domain with      *)
(* them.  To free the literal is undefined: the C library aborts, or does  *)
(* not notice.                                                             *)
Reject ==
    /\ \/ pc' = "top"
       \/ domain_is_literal /\ pc' = "aborted"
    /\ UNCHANGED service_count

Validate ==
    /\ pc = "validate"
    /\ \/ has = Required /\ pc' = "register" /\ UNCHANGED service_count
       \/ has # Required /\ Reject
    /\ UNCHANGED <<registry, file, line_num, g_pending_line, section, out_of_memory>>

Refused == ~ H!validate_service(svc) \/ H!IsDuplicate(services, svc)

(* mdns_register_service(&svc): it may also fail at its first allocation.  *)
RegisterFails ==
    /\ pc = "register"
    /\ Reject
    /\ \/ Refused /\ UNCHANGED <<registry, out_of_memory>>
       \/ /\ ~ Refused
          /\ H!RegisterOutOfMemory(svc) \/ UNCHANGED registry
          /\ out_of_memory' = TRUE
    /\ UNCHANGED <<file, line_num, g_pending_line, section>>

(* Mutant of RegisterSucceeds: parse_service_section returns nothing. *)
NotCounted ==
    /\ pc = "register"
    /\ H!Register(svc)
    /\ pc' = "top"
    /\ UNCHANGED <<file, line_num, g_pending_line, section, service_count, out_of_memory>>

RegisterSucceeds ==
    /\ pc = "register"
    /\ H!Register(svc)
    /\ service_count' = service_count + 1
    /\ pc' = "top"
    /\ UNCHANGED <<file, line_num, g_pending_line, section, out_of_memory>>

Stopped == pc \in {"done", "aborted"} /\ UNCHANGED vars

Next ==
    \/ TakePending \/ TakeNext \/ EndOfFile
    \/ ReadKey \/ SkipLine \/ SectionEnds
    \/ Validate \/ RegisterFails \/ RegisterSucceeds
    \/ Stopped

Spec == Init /\ [][Next]_vars
FairSpec == Spec /\ WF_vars(Next)

-----------------------------------------------------------------------------
(* Properties. *)

TypeOK ==
    /\ H!TypeOK
    /\ file \in Files
    /\ pc \in {"top", "section", "validate", "register", "done", "aborted"}
    /\ line_num \in 0 .. Len(file)
    /\ g_pending_line \in 0 .. line_num
    /\ svc \in H!Param /\ svc.port < PORT_RANGE
    /\ has \subseteq Required
    /\ domain_is_literal \in BOOLEAN /\ out_of_memory \in BOOLEAN
    /\ service_count \in Nat

(* A file read as a document: the body of the section at line h goes up    *)
(* to the next line that starts with '['; the last value of a key counts.  *)
EndOf(lines, h) ==
    LET after == {n \in (h + 1) .. Len(lines) : IsHeader(lines[n])}
    IN  IF after = {} THEN Len(lines) ELSE (CHOOSE n \in after : \A m \in after : n <= m) - 1

KeysIn(lines, h, last) ==
    {lines[n].name : n \in {m \in (h + 1) .. last : lines[m].kind = "key"}}
Complete(lines, h) == Required \subseteq KeysIn(lines, h, EndOf(lines, h))

ServiceUpTo(lines, h, last) ==
    LET upto[n \in 0 .. Len(lines)] ==
            IF n <= h THEN BlankService
            ELSE IF lines[n].kind = "key" THEN WithKey(upto[n - 1], lines[n], TRUE)
            ELSE upto[n - 1]
    IN  upto[last]
ServiceAt(lines, h) == ServiceUpTo(lines, h, EndOf(lines, h))

(* The sections that register, in order, among those of the first lines.   *)
Registers(lines, h, before) ==
    /\ StartsService(lines[h]) /\ Complete(lines, h)
    /\ H!validate_service(ServiceAt(lines, h))
    /\ ~ H!IsDuplicate(before, ServiceAt(lines, h))
DeclaredUpTo(lines, last) ==
    LET upto[n \in 0 .. Len(lines)] ==
            IF n = 0 THEN << >>
            ELSE IF Registers(lines, n, upto[n - 1])
                 THEN Append(upto[n - 1], ServiceAt(lines, n))
                 ELSE upto[n - 1]
    IN  upto[last]
Declared == DeclaredUpTo(file, Len(file))

(* Every complete, valid and new section of the file is registered, with   *)
(* its own keys and no other section's, in the order of the file, wherever *)
(* sections stop and whatever stands between them: the header that ends a  *)
(* section is neither lost nor taken twice.                                *)
LoadedAsDeclared ==
    pc = "done" /\ ~ out_of_memory =>
        /\ Len(services) = Len(Declared)
        /\ \A n \in DOMAIN services :
              H!NewService(services[n].addr, Declared[n]) = services[n]

(* The number reported is the number of services the server will answer    *)
(* for, through duplicates, refused sections and failed allocations.       *)
CountIsExact == service_count = Len(services)

(* Loading ends: a line left for the main loop is not taken for ever. *)
LoadEnds == <>(pc \in {"done", "aborted"})
=============================================================================
