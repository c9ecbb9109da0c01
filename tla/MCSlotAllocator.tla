--------------------------- MODULE MCSlotAllocator ---------------------------
(* Small instances of SlotAllocator for TLC. *)
EXTENDS SlotAllocator, TLC

\* The course is set up: every fix is placed against the start line.
RaceFixes == {f \in FixKinds : f.known}

AllFixes == FixKinds

Symmetry == Permutations(Boats)
==============================================================================
