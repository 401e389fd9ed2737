------------------------------ MODULE Lookups ------------------------------
(***************************************************************************)
(* The two lookups of shared/src/hostdb.c, as functions of the registered  *)
(* services.                                                               *)
(***************************************************************************)
EXTENDS Names

HasName(svc, fqdn) == Fits(svc) /\ StrCaseEq(fqdn, Fqdn(svc))

(* mdns_find_service_by_fqdn returns services[i]. *)
FindsByFqdn(reg, fqdn, i) ==
    /\ i \in DOMAIN reg
    /\ HasName(reg[i], fqdn)
    /\ \A j \in 1 .. (i - 1) : ~ HasName(reg[j], fqdn)

(* The first max_items services of a type, in list order. *)
WithService(found, svc, service_type, domain, max_items) ==
    IF /\ Len(found) < max_items
       /\ StrCaseEq(svc.service_type, service_type)
       /\ StrCaseEq(svc.domain, domain)
    THEN Append(found, svc) ELSE found

mdns_find_services_by_type(reg, service_type, domain, max_items) ==
    LET found[n \in 0 .. Len(reg)] ==
            IF n = 0 THEN << >>
            ELSE WithService(found[n - 1], reg[n], service_type, domain, max_items)
    IN  found[Len(reg)]
=============================================================================
