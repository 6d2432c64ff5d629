--------------------------- MODULE MCFiniteIndex ---------------------------
(***************************************************************************)
(* A paged Fixed Array whose pages and checksums a flush does not join:    *)
(* they lie on different pages of the gathering, or nothing is gathered.   *)
(***************************************************************************)
EXTENDS FiniteIndex

MCModes == {[pipeline |-> "lossless", edges |-> FALSE, reencoding |-> "Reject",
             index |-> "paged", header |-> TRUE, joined |-> FALSE, start |-> 0]}
=============================================================================
