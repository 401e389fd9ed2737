--------------------------- MODULE MCNameReaders ---------------------------
(***************************************************************************)
(* Every packet of up to five bytes over an alphabet in which a byte may   *)
(* be a root label, a short length, a pointer, a reserved length or a dot. *)
(***************************************************************************)
EXTENDS NameReaders

MCPackets == UNION {[1 .. n -> {0, 1, 2, 46, 64, 192}] : n \in 0 .. 5}
=============================================================================
