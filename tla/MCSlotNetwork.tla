---------------------------- MODULE MCSlotNetwork ----------------------------
(* Small instances of SlotNetwork for TLC. *)
EXTENDS SlotNetwork, TLC

Symmetry == Permutations(Boats)
==============================================================================
