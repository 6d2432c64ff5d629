---------------------------- MODULE MCFlatSpace ----------------------------
(* A file of two bytes that may grow to seven, with a threshold of two.    *)
EXTENDS FlatSpace
=============================================================================
