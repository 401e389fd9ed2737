------------------------------ MODULE MCBrowse ------------------------------
(***************************************************************************)
(* A browser for TLC: service types in every form of the argument, and a   *)
(* packet of each kind: whole, of another type and case and with a dot or  *)
(* a NUL in a label, cut off after its first record, and without a header. *)
(***************************************************************************)
EXTENDS Browse

MCToken == {".", "_http", "_HTTP", "_tcp", "local", "host", "long"}
MCUnderscored == {"_http", "_HTTP", "_tcp"}
MCLower == [t \in MCToken |-> IF t = "_HTTP" THEN "_http" ELSE t]
MCOctets == [t \in MCToken |-> CASE t = "." -> 1 [] t = "long" -> 18 [] OTHER -> 4]
MCLocal == <<"local">>

MCServiceTypes == {
    <<"_http", ".", "_tcp">>,
    <<"_HTTP", ".", "_tcp", ".", "local">>,
    <<"_http", ".", "_tcp", ".">>,
    <<"_http", ".", "long">>,
    <<"long", ".", "long">>}
MCShifts == {-1, 1}
MCFamilies == {{"v4", "v6"}, {"v6"}}

Rec(labels, type, shape) == [labels |-> labels, type |-> type, shape |-> shape]
Http == Wired(<<"_http", "_tcp", "local">>)
Instance == Wired(<<"host", "_http", "_tcp", "local">>)
Dotted == <<<<"_http", ".", "_tcp">>, <<"local">>>>
EndedByNul == <<<<"_http">>, <<"_tcp">>, <<"local", Nul, "host">>>>

Answer == [from |-> "a", whole |-> TRUE,
           rrs |-> <<Rec(Wired(<<"_HTTP", "_tcp", "local">>), "PTR", "plain"),
                     Rec(Dotted, "PTR", "plain"), Rec(Instance, "SRV", "plain")>>]
Other == [from |-> "b", whole |-> TRUE,
          rrs |-> <<Rec(Wired(<<"_tcp", "local">>), "PTR", "plain"), Rec(Instance, "TXT", "opaque"),
                    Rec(EndedByNul, "PTR", "plain"), Rec(<< >>, "A", "plain")>>]
CutOff == [from |-> "b", whole |-> TRUE,
           rrs |-> <<Rec(Http, "PTR", "plain"), Rec(Instance, "SRV", "broken")>>]
NoHeader == [from |-> "a", whole |-> FALSE, rrs |-> << >>]
MCDatagrams == {Answer, Other, CutOff, NoHeader}
=============================================================================
