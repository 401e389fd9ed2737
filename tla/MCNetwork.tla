----------------------------- MODULE MCNetwork -----------------------------
(***************************************************************************)
(* A link for TLC: two hosts with services of the same type.  Two clients  *)
(* on the first use its one ephemeral port in turn: one asks for the       *)
(* services, one for the second host.  A browser on the second looks for   *)
(* the type.                                                               *)
(***************************************************************************)
EXTENDS Network

CONSTANTS h1, h2, c1, c2

MCToken == {".", "web", "one", "two", "_http", "_tcp", "local"}
MCUnderscored == {"_http", "_tcp"}
MCLower == [t \in MCToken |-> t]
MCOctets == [t \in MCToken |-> IF t = "." THEN 1 ELSE 4]
MCTxtOctets == [t \in {"k"} |-> 2]
MCLocal == <<"local">>

Http == <<"_http", ".", "_tcp", ".", "local">>
Web(target) ==
    [instance |-> <<"web">>, service_type |-> <<"_http", ".", "_tcp">>, domain |-> <<"local">>,
     target_host |-> <<target, ".", "local">>, port |-> 80, ttl |-> 120, txt_kv |-> NULL]

MCHosts == {h1, h2}
MCRegistry == (h1 :> <<Web("one")>>) @@ (h2 :> <<Web("two")>>)
MCHostName == (h1 :> <<"one", ".", "local">>) @@ (h2 :> <<"two", ".", "local">>)

MCClients == {c1, c2}
MCConfig == (c1 :> [host |-> h1, query_type |-> "service", query_target |-> Http, ipv6_only |-> FALSE])
         @@ (c2 :> [host |-> h1, query_type |-> "hostname", query_target |-> <<"two">>, ipv6_only |-> FALSE])
MCLeftOver == {<< >>}
MCPorts == {1}

MCBrowsers == {h2}

(* Questions from the mDNS port of a host: one that its server cannot      *)
(* answer; and one that it can, so that a response to it is a question to  *)
(* the server in turn.                                                     *)
MCOutside == {[host |-> h1, labels |-> <<"two", "local">>, qtype |-> "A"],
              [host |-> h1, labels |-> <<"_http", "_tcp", "local">>, qtype |-> "SRV"]}
=============================================================================
