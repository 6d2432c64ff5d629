-------------------------- MODULE MCStagedHandles ---------------------------
(***************************************************************************)
(* Two handles on one path, with or without the object they replace.       *)
(***************************************************************************)
EXTENDS StagedHandles, TLC

CONSTANTS h1, h2

MCHandles == {h1, h2}

Symmetry == Permutations(MCHandles)
=============================================================================
