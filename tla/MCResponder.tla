---------------------------- MODULE MCResponder ----------------------------
(***************************************************************************)
(* A server for TLC: three service structs, where a question looks for two *)
(* services; four services (one of a type of one label, which no question  *)
(* for its type reaches); a response buffer in which Web and Ftp both go   *)
(* but Web and Deep do not; and a datagram of each kind the handler tells  *)
(* apart.  In two of them a label holds dots, in two a NUL.                *)
(***************************************************************************)
EXTENDS Responder, TLC

CONSTANTS a1, a2, a3

MCToken == {".", "web", "ftp", "host", "deephost", "_http", "_HTTP", "_tcp", "local"}
MCUnderscored == {"_http", "_HTTP", "_tcp"}
MCLower == [t \in MCToken |-> IF t = "_HTTP" THEN "_http" ELSE t]
MCOctets == [t \in MCToken |-> CASE t = "." -> 1 [] t = "deephost" -> 9 [] OTHER -> 4]
MCTxtOctets == [t \in {"k"} |-> 2]
MCLocal == <<"local">>

Web == [instance |-> <<"web">>, service_type |-> <<"_http", ".", "_tcp">>,
        domain |-> <<"local">>, target_host |-> <<"host", ".", "local">>,
        port |-> 80, ttl |-> 0, txt_kv |-> <<"k">>]
Ftp == [Web EXCEPT !.instance = <<"ftp">>, !.txt_kv = NULL]
OneLabel == [Ftp EXCEPT !.service_type = <<"_tcp">>]
Deep == [Web EXCEPT !.instance = <<"deephost">>, !.target_host = <<"deephost", ".", "local">>]
MCParams == {Web, Ftp, OneLabel, Deep}

AskWire(from, labels, qtype) ==
    [from |-> from, whole |-> TRUE, qdcount |-> 1, labels |-> labels, qtype |-> qtype]
Ask(from, labels, qtype) == AskWire(from, Wired(labels), qtype)
General == Ask("c1", <<"_http", "_tcp", "local">>, "SRV")

MCDatagrams == {
    General,
    Ask("c2", <<"_HTTP", "_tcp", "local">>, "SRV"),
    Ask("c1", <<"web", "_http", "_tcp", "local">>, "SRV"),
    Ask("c1", <<"_tcp", "local">>, "SRV"),
    Ask("c2", <<"host", "local">>, "A"),
    Ask("c1", <<"web", "local">>, "AAAA"),
    Ask("c1", <<"_http", "_tcp", "local">>, "PTR"),
    [General EXCEPT !.whole = FALSE],
    Ask("c1", <<"_http", "_tcp", "web">>, "SRV"),
    Ask("c1", << >>, "SRV"),
    AskWire("c2", <<<<"_http", ".", "_tcp">>, <<"local">>>>, "SRV"),
    AskWire("c2", <<<<"web", ".">>, <<"local">>>>, "AAAA"),
    AskWire("c2", <<<<"web">>, <<"_http">>, <<"_tcp">>, <<"local", Nul, "web">>>>, "SRV"),
    AskWire("c2", <<<<"host">>, <<"local", Nul>>, <<"web">>>>, "A")}

(* Less of both, for what must happen in the end. *)
FewParams == {Web, Ftp}
FewDatagrams == {General, Ask("c2", <<"host", "local">>, "A")}

Symmetry == Permutations(Addr)

MCHostNames == {<<"host", ".", "local">>}
=============================================================================
