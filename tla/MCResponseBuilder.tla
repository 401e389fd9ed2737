------------------------- MODULE MCResponseBuilder -------------------------
(***************************************************************************)
(* Responses for TLC: every buffer from too small for a header to large    *)
(* enough for the two services of a list, cut at every byte in between.    *)
(* Labels have one byte, except "long", more than a label may have, and    *)
(* "big", with which a service's name does not fit service_fqdn.           *)
(***************************************************************************)
EXTENDS ResponseBuilder

MCToken == {".", "a", "b", "_h", "_t", "local", "long", "big"}
MCLower == [t \in MCToken |-> t]
MCOctets == [t \in MCToken |-> CASE t = "long" -> 9 [] t = "big" -> 12 [] OTHER -> 1]
MCLocal == <<"local">>
MCTxtOctets == [t \in {"k", "v"} |-> IF t = "k" THEN 2 ELSE 5]

Svc(instance, host, txt) ==
    [instance |-> <<instance>>, service_type |-> <<"_h", ".", "_t">>,
     domain |-> <<"local">>, target_host |-> <<host, ".", "local">>, txt_kv |-> txt]

Plain == Svc("a", "a", NULL)
WithTxt == [Svc("b", "b", <<"k", "v">>) EXCEPT !.target_host = <<"b", ".", "local", ".">>]
NameTooLong == Svc("big", "a", NULL)
LabelTooLong == Svc("long", "a", NULL)
BadTarget == Svc("b", "long", NULL)
EmptyLabel == [Plain EXCEPT !.target_host = <<"a", ".", ".", "local">>]

Found == {Plain, WithTxt, NameTooLong, LabelTooLong, BadTarget, EmptyLabel}
MCLists == {<< >>} \cup {<<s>> : s \in Found}
           \cup {<<s, t>> : s \in {Plain, WithTxt, NameTooLong, BadTarget}, t \in Found}

MCQuestions == {
    [name |-> <<"_h", ".", "_t", ".", "local", ".">>, qtype |-> "SRV"],
    [name |-> <<"a", ".", "local", ".">>, qtype |-> "A"],
    [name |-> <<"a", ".", "local", ".">>, qtype |-> "AAAA"]}

MCOutLens == {0, 11} \cup 12 .. 82 \cup {115, 125}
=============================================================================
