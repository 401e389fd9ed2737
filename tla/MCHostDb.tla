------------------------------ MODULE MCHostDb ------------------------------
(***************************************************************************)
(* A small registry for TLC.  The services callers pass include: two that  *)
(* differ in letter case only; two whose names are one string split        *)
(* differently into instance and type; one whose name does not fit the     *)
(* buffer; and one that validate_service refuses.                          *)
(***************************************************************************)
EXTENDS HostDb

CONSTANTS a1, a2, a3

MCToken == {".", "web", "WEB", "_sub", "_http", "_tcp", "local", "huge"}
MCUnderscored == {"_sub", "_http", "_tcp"}
MCLower == [t \in MCToken |-> IF t = "WEB" THEN "web" ELSE t]
MCOctets == [t \in MCToken |-> CASE t = "." -> 1 [] t = "huge" -> 30 [] OTHER -> 4]
MCLocal == <<"local">>

HttpType == <<"_http", ".", "_tcp">>
SubHttpType == <<"_sub", ".", "_http", ".", "_tcp">>

Svc(instance, type, host, txt) ==
    [instance |-> instance, service_type |-> type, domain |-> <<"local">>,
     target_host |-> <<host, ".", "local">>, port |-> 80, ttl |-> 0, txt_kv |-> txt]

Web == Svc(<<"web">>, HttpType, "web", <<"path", "ver">>)

MCParams == {
    Web,
    [Web EXCEPT !.instance = <<"WEB">>, !.port = 8080, !.txt_kv = NULL],
    Svc(<<"web">>, SubHttpType, "web", <<"path">>),
    Svc(<<"web", ".", "_sub">>, HttpType, "huge", NULL),
    Svc(<<"huge">>, HttpType, "web", NULL),
    [Web EXCEPT !.port = 0],
    [Web EXCEPT !.service_type = <<"web">>]}

MCQueryNames == {
    <<"WEB", ".", "_http", ".", "_tcp", ".", "local">>,
    <<"web", ".", "_sub", ".", "_http", ".", "_tcp", ".", "local">>,
    <<"huge", ".", "_http", ".", "_tcp", ".", "local">>,
    <<"web", ".", "_http", ".", "_tcp", ".", "local", ".">>}

Symmetry == Permutations(Addr)
=============================================================================
