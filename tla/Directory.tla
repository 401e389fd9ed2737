----------------------------- MODULE Directory -----------------------------
(***************************************************************************)
(* What the service registry promises its callers, whatever list, buffers  *)
(* and allocations are behind it: a set of names, each standing for one    *)
(* struct from the call that registers it to the call that removes it.     *)
(***************************************************************************)
CONSTANTS
    Name,      \* Names of services, letter case aside
    Struct     \* Service structs

VARIABLE entries   \* The registered names and the struct of each

TypeOK == entries \in UNION {[S -> Struct] : S \in SUBSET Name}

Init == entries = [n \in {} |-> CHOOSE s \in Struct : TRUE]

(* Only a name that is free is added, and only with a struct of its own. *)
Add(n, s) ==
    /\ n \notin DOMAIN entries
    /\ \A m \in DOMAIN entries : entries[m] # s
    /\ entries' = [m \in DOMAIN entries \cup {n} |-> IF m = n THEN s ELSE entries[m]]

Remove(n) ==
    entries' = [m \in DOMAIN entries \ {n} |-> entries[m]]

Clear == entries' = [n \in {} |-> CHOOSE s \in Struct : TRUE]

Next ==
    \/ \E n \in Name, s \in Struct : Add(n, s)
    \/ \E n \in DOMAIN entries : Remove(n)
    \/ Clear

Spec == Init /\ [][Next]_entries
=============================================================================
