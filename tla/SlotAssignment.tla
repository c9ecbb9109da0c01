---------------------------- MODULE SlotAssignment ----------------------------
(***************************************************************************)
(* What the base's slot table promises the fleet, without saying how it is *)
(* decided: every transmit slot has at most one owner, an owner keeps the  *)
(* very slot it was given until that slot is withdrawn, and a slot passes  *)
(* directly from one boat to another only when every slot is owned, from a *)
(* boat that is not racing to one that is.                                 *)
(*                                                                         *)
(* SlotAllocator (src/src/slotTable.js) implements it, see there and       *)
(* SlotAllocatorProofs.                                                    *)
(***************************************************************************)
EXTENDS Integers

CONSTANTS
  Boats,      \* the boats the base may hear
  Assignable  \* how many slots of a cycle the base may hand out, at least one

VARIABLES
  slot,     \* the slot each boat owns, or NoSlot
  started   \* the boats that are racing

NoSlot == -1
Slots  == 0 .. Assignable - 1
Taken  == {slot[b] : b \in Boats} \ {NoSlot}

Init ==
  /\ slot = [b \in Boats |-> NoSlot]
  /\ started \in SUBSET Boats

Give(b, s) ==
  /\ slot[b] = NoSlot
  /\ s \in Slots \ Taken
  /\ slot' = [slot EXCEPT ![b] = s]

Withdraw(S) ==
  slot' = [b \in Boats |-> IF b \in S THEN NoSlot ELSE slot[b]]

\* The boat that hands over may only have lost its racing status in an earlier step.
HandOver(v, b) ==
  /\ Taken = Slots
  /\ slot[b] = NoSlot
  /\ slot[v] # NoSlot
  /\ v \notin started'
  /\ b \in started'
  /\ slot' = [slot EXCEPT ![v] = NoSlot, ![b] = slot[v]]

Next ==
  /\ started' \in SUBSET Boats
  /\ \/ \E b \in Boats, s \in Slots : Give(b, s)
     \/ \E S \in SUBSET Boats : Withdraw(S)
     \/ \E v, b \in Boats : HandOver(v, b)

Spec == Init /\ [][Next]_<<slot, started>>
===============================================================================
