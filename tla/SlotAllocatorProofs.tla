-------------------------- MODULE SlotAllocatorProofs --------------------------
(***************************************************************************)
(* Theorems about SlotAllocator, for any number of boats and slots and any *)
(* timing constants. The inductive invariant is TypeOK with Ownership, the *)
(* three invariants about who has a claim on what. OwnersAreRacing needs   *)
(* one strengthening more, RaceBacked, and ParkedClaimsNothing: a parked   *)
(* boat owns nothing, so leaving the zone ends no owner's race. What a     *)
(* step may do to the slots is stated once, SlotStep, and both the action  *)
(* property and the refinement follow from it. Spread rests on EvenClaims: *)
(* where boats are no more than half the slots, an even one is always left *)
(* (by counting claims), and the slots come bit-reversed, the even ones    *)
(* first (ReversedBits, by induction over the bits).                       *)
(***************************************************************************)
EXTENDS SlotAllocator, FiniteSetTheorems, WellFoundedInduction, TLAPS

USE SlotAllocatorAssumption

-------------------------------------------------------------------------------
(* Types.                                                                  *)

\* One more fix keeps a stay in the zone well formed (ZoneState.update).
LEMMA ZoneUpdateType ==
  ASSUME NEW z \in ZoneStates, NEW f \in FixKinds
  PROVE  ZoneUpdate(z, f) \in ZoneStates
<1>1. CASE f.place = "grid"
  BY <1>1 DEF ZoneUpdate, ZoneStates, FixKinds, NotInside
<1>2. CASE f.place # "grid"
  BY <1>2 DEF ZoneUpdate, ZoneStates, FixKinds, NotInside
<1> QED BY <1>1, <1>2

LEMMA NoZoneType == NoZone \in ZoneStates
BY DEF NoZone, ZoneStates, NotInside

\* In practice mode a fix is still one of the kinds of fix.
LEMMA SeenType ==
  ASSUME NEW f \in Fixes
  PROVE  Seen(f) \in FixKinds
BY DEF Seen, FixKinds, Places

LEMMA ZoneAfterType ==
  ASSUME TypeOK, NEW b \in Boats, NEW f \in FixKinds
  PROVE  /\ ZoneAfter(b, f) \in ZoneStates
         /\ ~Parks(b, f) => ~ZoneAfter(b, f).parked
<1>1. StayBefore(b, f) \in ZoneStates
  BY NoZoneType DEF TypeOK, StayBefore
<1>2. Stay(b, f) \in ZoneStates
  BY <1>1, NoZoneType, ZoneUpdateType DEF Stay
<1> QED BY <1>2, NoZoneType DEF ZoneAfter, Parks, NoZone

LEMMA RacingAfterType ==
  ASSUME TypeOK, NEW b \in Boats, NEW f \in FixKinds
  PROVE  RacingAfter(b, f) \in NotRacing .. RacingTtl + 1
BY DEF TypeOK, RacingAfter, NotRacing

LEMMA FramesType == /\ FrameDepth \in Nat \ {0}
                    /\ NoFixes \in [Frames -> 0 .. ActiveWindow + 1]
BY DEF FrameDepth, Frames, NoFixes

LEMMA PushedType ==
  ASSUME TypeOK, NEW b \in Boats
  PROVE  Pushed(b) \in [Frames -> 0 .. ActiveWindow + 1]
BY FramesType DEF TypeOK, Pushed, Frames

LEMMA OlderType ==
  ASSUME NEW limit \in Nat, NEW age \in 0 .. limit + 1
  PROVE  /\ Older(age, limit) \in 0 .. limit + 1
         /\ age <= Older(age, limit)
BY DEF Older

LEMMA ZeroIsAnAge == /\ 0 \in 0 .. Stale + 1
                     /\ 0 \in 0 .. Hold + 1
OBVIOUS

\* The slot _assign settles on is one nobody has.
LEMMA ChoiceIsFree ==
  ASSUME TypeOK, NEW b \in Boats
  PROVE  Choice(b) \subseteq Slots \ Taken
BY DEF Choice, OwnSlotFree, PickSlot, TypeOK

LEMMA SlotsType == NoSlot \notin Slots /\ Slots \subseteq Int
BY DEF Slots, NoSlot, Assignable

-------------------------------------------------------------------------------

LEMMA InitType == Init => TypeOK
<1> SUFFICES ASSUME Init PROVE TypeOK
  OBVIOUS
<1>1. /\ zone \in [Boats -> ZoneStates]
      /\ fixAge \in [Boats -> [Frames -> 0 .. ActiveWindow + 1]]
  BY NoZoneType, FramesType DEF Init
<1>2. /\ slot \in [Boats -> Slots \cup {NoSlot}]
      /\ heldSlot \in [Boats -> Slots \cup {NoSlot}]
  BY DEF Init
<1>3. /\ silent \in [Boats -> 0 .. Stale + 1]
      /\ heldFor \in [Boats -> 0 .. Hold + 1]
  BY DEF Init
<1> QED BY <1>1, <1>2, <1>3 DEF Init, TypeOK

LEMMA CountedType ==
  ASSUME TypeOK, NEW b \in Boats, NEW f \in FixKinds, Counted(b, f)
  PROVE  /\ zone' \in [Boats -> ZoneStates]
         /\ racing' \in [Boats -> NotRacing .. RacingTtl + 1]
         /\ tracked' \in SUBSET Boats
         /\ fixAge' \in [Boats -> [Frames -> 0 .. ActiveWindow + 1]]
<1>1. zone' \in [Boats -> ZoneStates]
  BY ZoneAfterType DEF Counted, TypeOK
<1>2. racing' \in [Boats -> NotRacing .. RacingTtl + 1]
  <2> DEFINE age == IF Active(b, f) /\ RacingAfter(b, f) # NotRacing THEN 0 ELSE RacingAfter(b, f)
  <2>1. age \in NotRacing .. RacingTtl + 1
    BY RacingAfterType DEF NotRacing
  <2>2. racing' = [racing EXCEPT ![b] = age]
    BY DEF Counted
  <2> HIDE DEF age
  <2> QED BY <2>1, <2>2 DEF TypeOK
<1>3. tracked' \in SUBSET Boats
  BY DEF Counted, TypeOK
<1>4. fixAge' \in [Boats -> [Frames -> 0 .. ActiveWindow + 1]]
  BY PushedType DEF Counted, TypeOK
<1> QED BY <1>1, <1>2, <1>3, <1>4

LEMMA NoteHeardType ==
  ASSUME TypeOK, NEW b \in Boats, NEW g \in Fixes, NoteHeard(b, g)
  PROVE  TypeOK'
<1> DEFINE f == Seen(g)
<1>0. f \in FixKinds
  BY SeenType
<1> HIDE DEF f
<1>1. CASE HeardParked(b, f)
  <2>1. zone' \in [Boats -> ZoneStates]
    BY <1>0, <1>1, ZoneAfterType DEF HeardParked, TypeOK
  <2>2. /\ tracked' \in SUBSET Boats
        /\ overflow' \in SUBSET Boats
        /\ changed' \in BOOLEAN
    BY <1>1 DEF HeardParked, Forget, TypeOK, slotVars
  <2>5. racing' \in [Boats -> NotRacing .. RacingTtl + 1]
    BY <1>1 DEF HeardParked, TypeOK, NotRacing
  <2>3. fixAge' \in [Boats -> [Frames -> 0 .. ActiveWindow + 1]]
    BY <1>1, FramesType DEF HeardParked, Forget, TypeOK
  <2>4. /\ slot' \in [Boats -> Slots \cup {NoSlot}]
        /\ silent' \in [Boats -> 0 .. Stale + 1]
        /\ heldSlot' \in [Boats -> Slots \cup {NoSlot}]
        /\ heldFor' \in [Boats -> 0 .. Hold + 1]
    <3>1. CASE slot[b] = NoSlot
      BY <1>1, <3>1 DEF HeardParked, TypeOK, slotVars
    <3>2. CASE slot[b] # NoSlot
      <4>1. /\ slot' = [slot EXCEPT ![b] = NoSlot]
            /\ silent' = [silent EXCEPT ![b] = 0]
            /\ heldSlot' = [heldSlot EXCEPT ![b] = slot[b]]
            /\ heldFor' = [heldFor EXCEPT ![b] = 0]
        BY <1>1, <3>2 DEF HeardParked
      <4> QED BY <4>1, ZeroIsAnAge, Zenon DEF TypeOK
    <3> QED BY <3>1, <3>2
  <2> QED BY <2>1, <2>2, <2>3, <2>4, <2>5 DEF TypeOK, NoteHeard
<1>2. CASE HeardEntering(b, f)
  <2>1. zone' \in [Boats -> ZoneStates]
    BY <1>0, <1>2, ZoneAfterType DEF HeardEntering, TypeOK
  <2>2. racing' \in [Boats -> NotRacing .. RacingTtl + 1]
    BY <1>0, <1>2, RacingAfterType DEF HeardEntering, TypeOK
  <2>3. /\ tracked' \in SUBSET Boats
        /\ fixAge' \in [Boats -> [Frames -> 0 .. ActiveWindow + 1]]
    BY <1>2, FramesType DEF HeardEntering, Forget, TypeOK
  <2> QED BY <1>2, <2>1, <2>2, <2>3 DEF HeardEntering, TypeOK, NoteHeard, slotVars
<1>3. CASE HeardOwner(b, f)
  <2>1. silent' \in [Boats -> 0 .. Stale + 1]
    BY <1>3 DEF HeardOwner, TypeOK
  <2> QED BY <1>0, <1>3, <2>1, CountedType DEF HeardOwner, TypeOK, NoteHeard
<1>4. CASE HeardUnentitled(b, f)
  BY <1>0, <1>4, CountedType DEF HeardUnentitled, TypeOK, NoteHeard, slotVars
<1>5. CASE HeardGivenFreeSlot(b, f)
  <2>1. slot' \in [Boats -> Slots \cup {NoSlot}]
    BY <1>5, ChoiceIsFree DEF HeardGivenFreeSlot, TypeOK
  <2>2. /\ silent' \in [Boats -> 0 .. Stale + 1]
        /\ heldSlot' \in [Boats -> Slots \cup {NoSlot}]
        /\ heldFor' \in [Boats -> 0 .. Hold + 1]
    BY <1>5 DEF HeardGivenFreeSlot, TypeOK
  <2> QED BY <1>0, <1>5, <2>1, <2>2, CountedType DEF HeardGivenFreeSlot, TypeOK, NoteHeard
<1>6. CASE HeardTakingOver(b, f)
  <2>1. PICK v \in LongestSilent(b) :
          /\ slot' = [slot EXCEPT ![v] = NoSlot, ![b] = slot[v]]
          /\ silent' = [silent EXCEPT ![v] = 0, ![b] = 0]
          /\ heldSlot' = [heldSlot EXCEPT ![v] = slot[v], ![b] = NoSlot]
          /\ heldFor' = [heldFor EXCEPT ![v] = 0, ![b] = 0]
    BY <1>6 DEF HeardTakingOver
  <2>2. v \in Boats
    BY DEF LongestSilent, Victims, Owners
  <2>3. slot[v] \in Slots \cup {NoSlot}
    BY <2>2 DEF TypeOK
  <2>4. /\ slot' \in [Boats -> Slots \cup {NoSlot}]
        /\ heldSlot' \in [Boats -> Slots \cup {NoSlot}]
    BY <2>1, <2>3 DEF TypeOK
  <2>5. /\ silent' \in [Boats -> 0 .. Stale + 1]
        /\ heldFor' \in [Boats -> 0 .. Hold + 1]
    BY <2>1, ZeroIsAnAge, Zenon DEF TypeOK
  <2> QED BY <1>0, <1>6, <2>4, <2>5, CountedType DEF HeardTakingOver, TypeOK, NoteHeard
<1>7. CASE HeardOverflowing(b, f)
  <2>1. /\ heldSlot' \in [Boats -> Slots \cup {NoSlot}]
        /\ heldFor' \in [Boats -> 0 .. Hold + 1]
        /\ overflow' \in SUBSET Boats
    BY <1>7 DEF HeardOverflowing, TypeOK
  <2> QED BY <1>0, <1>7, <2>1, CountedType DEF HeardOverflowing, TypeOK, NoteHeard
<1> QED BY <1>1, <1>2, <1>3, <1>4, <1>5, <1>6, <1>7 DEF NoteHeard, f

LEMMA SweepType == TypeOK /\ Sweep => TypeOK'
<1> SUFFICES ASSUME TypeOK, Sweep PROVE TypeOK'
  OBVIOUS
<1>1. zone' \in [Boats -> ZoneStates]
  BY NoZoneType DEF Sweep, TypeOK
<1>2. racing' \in [Boats -> NotRacing .. RacingTtl + 1]
  BY DEF Sweep, TypeOK, NotRacing
<1>3. /\ slot' \in [Boats -> Slots \cup {NoSlot}]
      /\ silent' \in [Boats -> 0 .. Stale + 1]
  BY DEF Sweep, GiveUp, TypeOK
<1>4. /\ heldSlot' \in [Boats -> Slots \cup {NoSlot}]
      /\ heldFor' \in [Boats -> 0 .. Hold + 1]
  BY DEF Sweep, TypeOK
<1>5. fixAge' \in [Boats -> [Frames -> 0 .. ActiveWindow + 1]]
  BY FramesType DEF Sweep, TypeOK
<1> QED BY <1>1, <1>2, <1>3, <1>4, <1>5 DEF Sweep, TypeOK

LEMMA ReleaseType ==
  ASSUME TypeOK, NEW S \in SUBSET Boats, ReleaseSlots(S)
  PROVE  TypeOK'
<1>1. /\ slot' \in [Boats -> Slots \cup {NoSlot}]
      /\ silent' \in [Boats -> 0 .. Stale + 1]
  BY DEF ReleaseSlots, Release, GiveUp, TypeOK
<1>2. /\ heldSlot' \in [Boats -> Slots \cup {NoSlot}]
      /\ heldFor' \in [Boats -> 0 .. Hold + 1]
  BY DEF ReleaseSlots, Release, TypeOK
<1>3. fixAge' \in [Boats -> [Frames -> 0 .. ActiveWindow + 1]]
  BY FramesType DEF ReleaseSlots, Release, TypeOK
<1> QED BY <1>1, <1>2, <1>3 DEF ReleaseSlots, Release, TypeOK, zoneVars

LEMMA SetPracticeType == TypeOK /\ SetPractice => TypeOK'
<1> SUFFICES ASSUME TypeOK, SetPractice PROVE TypeOK'
  OBVIOUS
<1>1. /\ zone' \in [Boats -> ZoneStates]
      /\ racing' \in [Boats -> NotRacing .. RacingTtl + 1]
      /\ fixAge' \in [Boats -> [Frames -> 0 .. ActiveWindow + 1]]
  BY NoZoneType, FramesType DEF SetPractice, NotRacing
<1>2. /\ slot' \in [Boats -> Slots \cup {NoSlot}]
      /\ silent' \in [Boats -> 0 .. Stale + 1]
      /\ heldSlot' \in [Boats -> Slots \cup {NoSlot}]
      /\ heldFor' \in [Boats -> 0 .. Hold + 1]
  BY DEF SetPractice, GiveUp, TypeOK
<1> QED BY <1>1, <1>2 DEF SetPractice, TypeOK

LEMMA TickType == TypeOK /\ Tick => TypeOK'
<1> SUFFICES ASSUME TypeOK, Tick PROVE TypeOK'
  OBVIOUS
<1>1. zone' \in [Boats -> ZoneStates]
  <2> SUFFICES ASSUME NEW b \in Boats PROVE zone'[b] \in ZoneStates
    BY DEF Tick
  <2>1. CASE zone[b] = NoZone
    BY <2>1, NoZoneType DEF Tick
  <2>2. CASE zone[b] # NoZone
    <3>1. /\ zone[b] \in ZoneStates
          /\ zone'[b] = [zone[b] EXCEPT !.heard = Older(@, ZoneTtl),
                                        !.entered = IF @ < ParkDwell THEN @ + 1 ELSE @]
      BY <2>2 DEF Tick, TypeOK
    <3>2. Older(zone[b].heard, ZoneTtl) \in 0 .. ZoneTtl + 1
      BY <3>1, OlderType DEF ZoneStates
    <3>3. (IF zone[b].entered < ParkDwell THEN zone[b].entered + 1 ELSE zone[b].entered)
             \in NotInside .. ParkDwell
      BY <3>1 DEF ZoneStates, NotInside
    <3> QED BY <3>1, <3>2, <3>3 DEF ZoneStates
  <2> QED BY <2>1, <2>2
<1>2. racing' \in [Boats -> NotRacing .. RacingTtl + 1]
  <2> SUFFICES ASSUME NEW b \in Boats PROVE racing'[b] \in NotRacing .. RacingTtl + 1
    BY DEF Tick
  <2>1. CASE Racing(b)
    <3>1. racing[b] \in 0 .. RacingTtl + 1
      BY <2>1 DEF TypeOK, Racing, NotRacing
    <3>2. racing'[b] = Older(racing[b], RacingTtl)
      BY <2>1 DEF Tick
    <3>3. Older(racing[b], RacingTtl) \in 0 .. RacingTtl + 1
      BY <3>1, OlderType
    <3> QED BY <3>2, <3>3 DEF NotRacing
  <2>2. CASE ~Racing(b)
    <3>1. racing'[b] = NotRacing
      BY <2>2 DEF Tick
    <3> QED BY <3>1 DEF NotRacing
  <2> QED BY <2>1, <2>2
<1>3. silent' \in [Boats -> 0 .. Stale + 1]
  <2> SUFFICES ASSUME NEW b \in Boats PROVE silent'[b] \in 0 .. Stale + 1
    BY DEF Tick
  <2>1. Older(silent[b], Stale) \in 0 .. Stale + 1
    BY OlderType DEF TypeOK
  <2> QED BY <2>1, ZeroIsAnAge, Zenon DEF Tick
<1>4. heldFor' \in [Boats -> 0 .. Hold + 1]
  <2> SUFFICES ASSUME NEW b \in Boats PROVE heldFor'[b] \in 0 .. Hold + 1
    BY DEF Tick
  <2>1. Older(heldFor[b], Hold) \in 0 .. Hold + 1
    BY OlderType DEF TypeOK
  <2> QED BY <2>1, ZeroIsAnAge, Zenon DEF Tick
<1>5. fixAge' \in [Boats -> [Frames -> 0 .. ActiveWindow + 1]]
  <2> SUFFICES ASSUME NEW b \in Boats, NEW i \in Frames
               PROVE  Older(fixAge[b][i], ActiveWindow) \in 0 .. ActiveWindow + 1
    BY DEF Tick
  <2> QED BY OlderType DEF TypeOK
<1> QED BY <1>1, <1>2, <1>3, <1>4, <1>5 DEF Tick, TypeOK

LEMMA NextType == TypeOK /\ [Next]_vars => TypeOK'
<1> SUFFICES ASSUME TypeOK, [Next]_vars PROVE TypeOK'
  OBVIOUS
<1>1. CASE TakeChanged
  BY <1>1 DEF TakeChanged, TypeOK, zoneVars, slotVars, waitVars
<1>2. CASE UNCHANGED vars
  BY <1>2 DEF vars, TypeOK, zoneVars, slotVars, waitVars
<1> QED
  BY <1>1, <1>2, NoteHeardType, SweepType, ReleaseType, SetPracticeType, TickType DEF Next

\* Every variable always has its type.
THEOREM TypeCorrect == Spec => []TypeOK
BY InitType, NextType, PTL DEF Spec
-------------------------------------------------------------------------------
(* Ownership: UniqueSlots, OneClaim and ParkedClaimsNothing together.      *)

Ownership == UniqueSlots /\ OneClaim /\ ParkedClaimsNothing

\* A boat the fix is not about keeps its stay in the zone and its race.
LEMMA HeardLeavesOthersAlone ==
  ASSUME TypeOK, NEW b \in Boats, NEW g \in Fixes, NoteHeard(b, g), NEW c \in Boats \ {b}
  PROVE  zone'[c] = zone[c] /\ racing'[c] = racing[c]
<1> DEFINE f == Seen(g)
<1> HIDE DEF f
<1>1. CASE HeardParked(b, f)
  BY <1>1 DEF HeardParked, TypeOK
<1>2. CASE HeardEntering(b, f)
  BY <1>2 DEF HeardEntering, TypeOK
<1>3. CASE Counted(b, f)
  BY <1>3 DEF Counted, TypeOK
<1> QED BY <1>1, <1>2, <1>3
  DEF NoteHeard, f, HeardOwner, HeardUnentitled, HeardGivenFreeSlot, HeardTakingOver, HeardOverflowing

\* Whoever is heard and not parked by it is not parked afterwards.
LEMMA HeardUnparked ==
  ASSUME TypeOK, NEW b \in Boats, NEW f \in FixKinds, ~Parks(b, f),
         zone' = [zone EXCEPT ![b] = ZoneAfter(b, f)]
  PROVE  ~zone'[b].parked
BY ZoneAfterType DEF TypeOK

\* Taking a slot nobody has keeps the slots distinct.
LEMMA GivingIsUnique ==
  ASSUME TypeOK, UniqueSlots, NEW b \in Boats, NEW s \in Slots \ Taken,
         slot' = [slot EXCEPT ![b] = s]
  PROVE  UniqueSlots'
BY SlotsType DEF TypeOK, UniqueSlots, Taken, Owners

\* Handing a slot over keeps the slots distinct.
LEMMA HandingOverIsUnique ==
  ASSUME TypeOK, UniqueSlots, NEW v \in Owners, NEW b \in Boats, slot[b] = NoSlot,
         slot' = [slot EXCEPT ![v] = NoSlot, ![b] = slot[v]]
  PROVE  UniqueSlots'
BY SlotsType DEF TypeOK, UniqueSlots, Owners

LEMMA NoteHeardOwnership ==
  ASSUME TypeOK, Ownership, NEW b \in Boats, NEW g \in Fixes, NoteHeard(b, g)
  PROVE  Ownership'
<1> DEFINE f == Seen(g)
<1>0. f \in FixKinds
  BY SeenType
<1>a. \A c \in Boats \ {b} : zone'[c] = zone[c] /\ racing'[c] = racing[c]
  BY HeardLeavesOthersAlone
<1> HIDE DEF f
<1>1. CASE HeardParked(b, f)
  <2>1. slot' = [slot EXCEPT ![b] = NoSlot]
    BY <1>1 DEF HeardParked, slotVars, TypeOK
  <2>2. UniqueSlots'
    BY <2>1 DEF UniqueSlots, Ownership, TypeOK
  <2>3. /\ overflow' = overflow \ {b}
        /\ tracked' = tracked \ {b}
        /\ racing'[b] = NotRacing
        /\ \A c \in Boats \ {b} : heldSlot'[c] = heldSlot[c] /\ slot'[c] = slot[c]
    BY <1>1 DEF HeardParked, Forget, TypeOK, slotVars
  <2>4. OneClaim'
    BY <2>1, <2>3 DEF OneClaim, Ownership, Owners, TypeOK
  <2>5. ParkedClaimsNothing'
    BY <1>a, <2>1, <2>3 DEF ParkedClaimsNothing, Ownership, Parked, Racing, TypeOK
  <2> QED BY <2>2, <2>4, <2>5 DEF Ownership
<1>2. CASE HeardEntering(b, f)
  <2>1. slot' = slot /\ heldSlot' = heldSlot /\ overflow' = overflow /\ tracked' = tracked \ {b}
    BY <1>2 DEF HeardEntering, Forget, slotVars
  <2>2. ~zone'[b].parked
    BY <1>0, <1>2, HeardUnparked DEF HeardEntering
  <2>3. UniqueSlots' /\ OneClaim'
    BY <2>1 DEF UniqueSlots, OneClaim, Ownership, Owners
  <2>4. ParkedClaimsNothing'
    BY <1>a, <2>1, <2>2 DEF ParkedClaimsNothing, Ownership, Parked, Racing
  <2> QED BY <2>3, <2>4 DEF Ownership
<1>3. ASSUME Counted(b, f),
             UniqueSlots',
             OneClaim',
             \A c \in Boats \ {b} : slot'[c] \in {slot[c], NoSlot},
             overflow' \subseteq overflow \cup {b}
      PROVE  Ownership'
  <2>1. ~zone'[b].parked
    BY <1>0, <1>3, HeardUnparked DEF Counted
  <2>2. tracked' = tracked \cup {b}
    BY <1>3 DEF Counted
  <2>3. ParkedClaimsNothing'
    BY <1>a, <1>3, <2>1, <2>2 DEF ParkedClaimsNothing, Ownership, Parked, Racing
  <2> QED BY <1>3, <2>3 DEF Ownership
<1>4. CASE HeardOwner(b, f) \/ HeardUnentitled(b, f)
  <2>1. Counted(b, f) /\ slot' = slot /\ heldSlot' = heldSlot /\ overflow' = overflow
    BY <1>4 DEF HeardOwner, HeardUnentitled, slotVars
  <2>2. UniqueSlots' /\ OneClaim'
    BY <2>1 DEF UniqueSlots, OneClaim, Ownership, Owners
  <2> QED BY <1>3, <2>1, <2>2
<1>5. CASE HeardGivenFreeSlot(b, f)
  <2>1. PICK s \in Choice(b) : slot' = [slot EXCEPT ![b] = s]
    BY <1>5 DEF HeardGivenFreeSlot
  <2>2. s \in Slots \ Taken
    BY ChoiceIsFree
  <2>3. UniqueSlots'
    BY <2>1, <2>2, GivingIsUnique DEF Ownership
  <2>4. heldSlot' = [heldSlot EXCEPT ![b] = NoSlot] /\ overflow' = overflow \ {b}
    BY <1>5 DEF HeardGivenFreeSlot
  <2>5. OneClaim'
    BY <2>1, <2>4 DEF OneClaim, Ownership, Owners, TypeOK
  <2>6. \A c \in Boats \ {b} : slot'[c] \in {slot[c], NoSlot}
    BY <2>1 DEF TypeOK
  <2> QED BY <1>3, <1>5, <2>3, <2>4, <2>5, <2>6 DEF HeardGivenFreeSlot
<1>6. CASE HeardTakingOver(b, f)
  <2>1. PICK v \in LongestSilent(b) :
          /\ slot' = [slot EXCEPT ![v] = NoSlot, ![b] = slot[v]]
          /\ heldSlot' = [heldSlot EXCEPT ![v] = slot[v], ![b] = NoSlot]
    BY <1>6 DEF HeardTakingOver
  <2>2. v \in Owners /\ slot[b] = NoSlot /\ v # b
    BY <1>6 DEF LongestSilent, Victims, Owners, HeardTakingOver
  <2>3. UniqueSlots'
    BY <2>1, <2>2, HandingOverIsUnique DEF Ownership
  <2>4. overflow' = overflow \ {b}
    BY <1>6 DEF HeardTakingOver
  <2>5. OneClaim'
    BY <2>1, <2>2, <2>4 DEF OneClaim, Ownership, Owners, TypeOK
  <2>6. \A c \in Boats \ {b} : slot'[c] \in {slot[c], NoSlot}
    BY <2>1, <2>2 DEF TypeOK
  <2> QED BY <1>3, <1>6, <2>3, <2>4, <2>5, <2>6 DEF HeardTakingOver
<1>7. CASE HeardOverflowing(b, f)
  <2>1. /\ slot' = slot /\ slot[b] = NoSlot /\ Counted(b, f)
        /\ heldSlot' = [heldSlot EXCEPT ![b] = NoSlot]
        /\ overflow' = overflow \cup {b}
    BY <1>7 DEF HeardOverflowing
  <2>2. UniqueSlots' /\ OneClaim'
    BY <2>1 DEF UniqueSlots, OneClaim, Ownership, Owners, TypeOK
  <2> QED BY <1>3, <2>1, <2>2
<1> QED BY <1>1, <1>2, <1>4, <1>5, <1>6, <1>7 DEF NoteHeard, f

\* Giving slots up keeps the invariant when the boats that give them up are
\* the only ones that come to be remembered with a slot.
LEMMA GivingUpOwnership ==
  ASSUME TypeOK, Ownership, NEW S \in SUBSET Boats, GiveUp(S),
         \A b \in Boats \ S : heldSlot'[b] \in {heldSlot[b], NoSlot},
         overflow' \subseteq overflow,
         tracked' \subseteq tracked,
         \A b \in Boats : zone'[b].parked => zone[b].parked,
         \A b \in Boats : racing[b] = NotRacing => racing'[b] = NotRacing
  PROVE  Ownership'
<1>1. UniqueSlots'
  BY DEF GiveUp, UniqueSlots, Ownership
<1>2. OneClaim'
  BY DEF GiveUp, OneClaim, Ownership, Owners
<1>3. ParkedClaimsNothing'
  BY DEF GiveUp, ParkedClaimsNothing, Ownership, Parked, Racing
<1> QED BY <1>1, <1>2, <1>3 DEF Ownership

LEMMA SweepOwnership == TypeOK /\ Ownership /\ Sweep => Ownership'
<1> SUFFICES ASSUME TypeOK, Ownership, Sweep PROVE Ownership'
  OBVIOUS
<1>1. StaleOwners \in SUBSET Boats /\ GiveUp(StaleOwners)
  BY DEF StaleOwners, Owners, Sweep
<1>2. \A b \in Boats \ StaleOwners : heldSlot'[b] \in {heldSlot[b], NoSlot}
  BY DEF Sweep
<1>3. \A b \in Boats : zone'[b].parked => zone[b].parked
  BY DEF Sweep, NoZone
<1>4. \A b \in Boats : racing[b] = NotRacing => racing'[b] = NotRacing
  BY DEF Sweep
<1>5. overflow' \subseteq overflow /\ tracked' \subseteq tracked
  BY DEF Sweep
<1> QED BY <1>1, <1>2, <1>3, <1>4, <1>5, GivingUpOwnership

LEMMA ReleaseOwnership ==
  ASSUME TypeOK, Ownership, NEW S \in SUBSET Boats, ReleaseSlots(S)
  PROVE  Ownership'
<1>1. GiveUp(S) /\ \A b \in Boats \ S : heldSlot'[b] \in {heldSlot[b], NoSlot}
  BY DEF ReleaseSlots, Release
<1>2. zone' = zone /\ racing' = racing /\ overflow' \subseteq overflow /\ tracked' \subseteq tracked
  BY DEF ReleaseSlots, Release, zoneVars
<1> QED BY <1>1, <1>2, GivingUpOwnership

LEMMA SetPracticeOwnership == TypeOK /\ Ownership /\ SetPractice => Ownership'
<1> SUFFICES ASSUME TypeOK, Ownership, SetPractice PROVE Ownership'
  OBVIOUS
<1>1. GiveUp(Boats) /\ overflow' \subseteq overflow /\ tracked' \subseteq tracked
  BY DEF SetPractice
<1>2. \A b \in Boats : ~zone'[b].parked /\ racing'[b] = NotRacing
  BY DEF SetPractice, NoZone
<1> QED BY <1>1, <1>2, GivingUpOwnership

LEMMA TickOwnership == TypeOK /\ Ownership /\ Tick => Ownership'
<1> SUFFICES ASSUME TypeOK, Ownership, Tick PROVE Ownership'
  OBVIOUS
<1>1. slot' = slot /\ heldSlot' = heldSlot /\ overflow' = overflow /\ tracked' = tracked
  BY DEF Tick
<1>2. \A b \in Boats : zone'[b].parked = zone[b].parked
  <2> SUFFICES ASSUME NEW b \in Boats PROVE zone'[b].parked = zone[b].parked
    OBVIOUS
  <2>1. zone[b] \in ZoneStates
    BY DEF TypeOK
  <2> QED BY <2>1 DEF Tick, ZoneStates
<1>3. \A b \in Boats : racing[b] = NotRacing => racing'[b] = NotRacing
  BY DEF Tick, Racing
<1>4. UniqueSlots' /\ OneClaim'
  BY <1>1 DEF UniqueSlots, OneClaim, Ownership, Owners
<1>5. ParkedClaimsNothing'
  BY <1>1, <1>2, <1>3 DEF ParkedClaimsNothing, Ownership, Parked, Racing
<1> QED BY <1>4, <1>5 DEF Ownership

LEMMA InitOwnership == Init => Ownership
BY DEF Init, Ownership, UniqueSlots, OneClaim, ParkedClaimsNothing, Owners, Parked, NoZone

LEMMA NextOwnership == TypeOK /\ Ownership /\ [Next]_vars => Ownership'
<1> SUFFICES ASSUME TypeOK, Ownership, [Next]_vars PROVE Ownership'
  OBVIOUS
<1>1. CASE TakeChanged \/ UNCHANGED vars
  BY <1>1 DEF TakeChanged, vars, zoneVars, slotVars, waitVars, Ownership, UniqueSlots,
              OneClaim, ParkedClaimsNothing, Owners, Parked, Racing
<1> QED
  BY <1>1, NoteHeardOwnership, SweepOwnership, ReleaseOwnership, SetPracticeOwnership,
     TickOwnership DEF Next

LEMMA OwnershipInvariant == Spec => []Ownership
BY InitType, NextType, InitOwnership, NextOwnership, PTL DEF Spec

\* No two boats are ever assigned the same slot.
THEOREM SlotsAreUnique == Spec => []UniqueSlots
BY OwnershipInvariant, PTL DEF Ownership

\* A boat has at most one claim on a slot.
THEOREM ClaimsAreSingle == Spec => []OneClaim
BY OwnershipInvariant, PTL DEF Ownership

\* A parked boat owns nothing, is not racing and waits for nothing.
THEOREM ParkingForfeits == Spec => []ParkedClaimsNothing
BY OwnershipInvariant, PTL DEF Ownership

-------------------------------------------------------------------------------
(* Owners race. An active report refreshes an owner's race and its         *)
(* ownership alike, so an owner's race is never older than its silence:    *)
(* the strengthening that makes OwnersAreRacing inductive.                 *)

\* Every fix is placed on the course, and a race outlives an ownership
\* (racingTtlMs is at least staleMs in the configuration of the base).
RaceOutlivesSilence == (\A f \in Fixes : f.known) /\ Stale <= RacingTtl

RaceBacked ==
  GridOnlyNow => \A b \in Owners : /\ Racing(b)
                                   /\ silent[b] <= Stale => racing[b] <= silent[b]

\* Nothing a fix says about an owner ends its race: ending it takes parking.
LEMMA OwnerKeepsRacing ==
  ASSUME TypeOK, Ownership, NEW b \in Owners, NEW f \in FixKinds, Racing(b), ~Parks(b, f)
  PROVE  RacingAfter(b, f) = racing[b]
<1>1. ~zone[b].parked
  BY DEF Ownership, ParkedClaimsNothing, Parked, Owners
<1>2. ~Unparks(b, f)
  BY <1>1 DEF Unparks, StayBefore, NoZone
<1> QED BY <1>2 DEF RacingAfter, Starts

LEMMA NoteHeardBacked ==
  ASSUME RaceOutlivesSilence, TypeOK, Ownership, RaceBacked,
         NEW b \in Boats, NEW g \in Fixes, NoteHeard(b, g)
  PROVE  RaceBacked'
<1> SUFFICES ASSUME GridOnlyNow', NEW c \in Boats, slot'[c] # NoSlot
             PROVE  /\ racing'[c] # NotRacing
                    /\ silent'[c] <= Stale => racing'[c] <= silent'[c]
  BY DEF RaceBacked, Racing, Owners
<1> DEFINE f == Seen(g)
<1>0. f \in FixKinds /\ f.known /\ GridOnlyNow
  BY SeenType DEF GridOnlyNow, NoteHeard, Seen, RaceOutlivesSilence
<1>a. c # b => zone'[c] = zone[c] /\ racing'[c] = racing[c]
  BY HeardLeavesOthersAlone
<1>b. slot[c] # NoSlot => /\ racing[c] # NotRacing
                          /\ silent[c] <= Stale => racing[c] <= silent[c]
  BY <1>0 DEF RaceBacked, Owners, Racing
<1> HIDE DEF f
<1>1. CASE HeardParked(b, f)
  <2>1. c # b
    BY <1>1 DEF HeardParked, slotVars, TypeOK
  <2>2. slot'[c] = slot[c] /\ silent'[c] = silent[c]
    BY <1>1, <2>1 DEF HeardParked, slotVars, TypeOK
  <2> QED BY <1>a, <1>b, <2>1, <2>2
<1>2. CASE HeardEntering(b, f)
  <2>1. slot[b] = NoSlot /\ slot' = slot /\ silent' = silent
    BY <1>2 DEF HeardEntering, slotVars
  <2> QED BY <1>a, <1>b, <2>1
<1>3. CASE HeardOwner(b, f)
  <2>1. slot' = slot /\ silent' = [silent EXCEPT ![b] = IF Active(b, f) THEN 0 ELSE silent[b]]
    BY <1>3 DEF HeardOwner
  <2>2. CASE c # b
    BY <1>a, <1>b, <2>1, <2>2 DEF TypeOK
  <2>3. CASE c = b
    <3>1. RacingAfter(b, f) = racing[b] /\ racing[b] # NotRacing
      BY <1>0, <1>3, <1>b, <2>1, <2>3, OwnerKeepsRacing DEF HeardOwner, Counted, Owners, Racing
    <3>2. racing'[b] = IF Active(b, f) THEN 0 ELSE racing[b]
      BY <1>3, <3>1 DEF HeardOwner, Counted, TypeOK
    <3>3. silent'[b] = IF Active(b, f) THEN 0 ELSE silent[b]
      BY <2>1 DEF TypeOK
    <3> QED BY <1>b, <2>1, <2>3, <3>1, <3>2, <3>3 DEF NotRacing
  <2> QED BY <2>2, <2>3
<1>4. CASE HeardUnentitled(b, f)
  <2>1. slot[b] = NoSlot /\ slot' = slot /\ silent' = silent
    BY <1>4 DEF HeardUnentitled, slotVars
  <2> QED BY <1>a, <1>b, <2>1
<1>5. ASSUME Entitled(b, f), Counted(b, f)
      PROVE  racing'[b] = 0
  <2>1. Active(b, f) /\ RacingAfter(b, f) # NotRacing
    BY <1>0, <1>5 DEF Entitled
  <2> QED BY <1>5, <2>1 DEF Counted, TypeOK
<1>6. CASE HeardGivenFreeSlot(b, f)
  <2>1. racing'[b] = 0 /\ silent' = [silent EXCEPT ![b] = 0]
    BY <1>5, <1>6 DEF HeardGivenFreeSlot
  <2>2. c # b => slot'[c] = slot[c]
    BY <1>6 DEF HeardGivenFreeSlot, TypeOK
  <2> QED BY <1>a, <1>b, <2>1, <2>2 DEF TypeOK, NotRacing
<1>7. CASE HeardTakingOver(b, f)
  <2>1. PICK v \in LongestSilent(b) :
          /\ slot' = [slot EXCEPT ![v] = NoSlot, ![b] = slot[v]]
          /\ silent' = [silent EXCEPT ![v] = 0, ![b] = 0]
    BY <1>7 DEF HeardTakingOver
  <2>2. v \in Boats /\ slot[v] # NoSlot /\ slot[b] = NoSlot
    BY <1>7 DEF LongestSilent, Victims, Owners, HeardTakingOver
  <2>3. racing'[b] = 0
    BY <1>5, <1>7 DEF HeardTakingOver
  <2>4. silent'[b] = 0 /\ c # v
    BY <2>1, <2>2 DEF TypeOK
  <2>5. c # b => slot'[c] = slot[c] /\ silent'[c] = silent[c]
    BY <2>1, <2>4 DEF TypeOK
  <2> QED BY <1>a, <1>b, <2>3, <2>4, <2>5 DEF NotRacing
<1>8. CASE HeardOverflowing(b, f)
  <2>1. slot[b] = NoSlot /\ slot' = slot /\ silent' = silent
    BY <1>8 DEF HeardOverflowing
  <2> QED BY <1>a, <1>b, <2>1
<1> QED BY <1>1, <1>2, <1>3, <1>4, <1>6, <1>7, <1>8 DEF NoteHeard, f

LEMMA SweepBacked ==
  ASSUME RaceOutlivesSilence, TypeOK, RaceBacked, Sweep
  PROVE  RaceBacked'
<1> SUFFICES ASSUME GridOnlyNow', NEW c \in Boats, slot'[c] # NoSlot
             PROVE  /\ racing'[c] # NotRacing
                    /\ silent'[c] <= Stale => racing'[c] <= silent'[c]
  BY DEF RaceBacked, Racing, Owners
<1>1. GridOnlyNow
  BY DEF Sweep, GridOnlyNow
<1>2. c \notin StaleOwners /\ slot'[c] = slot[c] /\ silent'[c] = silent[c]
  BY DEF Sweep, GiveUp
<1>3. silent[c] <= Stale
  BY <1>2 DEF StaleOwners, Owners, TypeOK
<1>4. racing[c] # NotRacing /\ racing[c] <= silent[c]
  BY <1>1, <1>2, <1>3 DEF RaceBacked, Owners, Racing
<1>5. racing[c] <= RacingTtl
  BY <1>3, <1>4 DEF RaceOutlivesSilence, TypeOK, NotRacing
<1>6. racing'[c] = racing[c]
  BY <1>5 DEF Sweep, TypeOK, NotRacing
<1> QED BY <1>2, <1>4, <1>6

LEMMA TickBacked ==
  ASSUME RaceOutlivesSilence, TypeOK, RaceBacked, Tick
  PROVE  RaceBacked'
<1> SUFFICES ASSUME GridOnlyNow', NEW c \in Boats, slot'[c] # NoSlot
             PROVE  /\ racing'[c] # NotRacing
                    /\ silent'[c] <= Stale => racing'[c] <= silent'[c]
  BY DEF RaceBacked, Racing, Owners
<1>1. GridOnlyNow /\ slot' = slot
  BY DEF Tick, GridOnlyNow
<1>2. racing[c] # NotRacing /\ (silent[c] <= Stale => racing[c] <= silent[c])
  BY <1>1 DEF RaceBacked, Owners, Racing
<1>3. racing'[c] = Older(racing[c], RacingTtl) /\ silent'[c] = Older(silent[c], Stale)
  BY <1>1, <1>2 DEF Tick, Racing
<1>4. racing[c] \in 0 .. RacingTtl + 1 /\ silent[c] \in 0 .. Stale + 1
  BY <1>2 DEF TypeOK, NotRacing
<1> QED BY <1>2, <1>3, <1>4 DEF Older, NotRacing

LEMMA NextBacked ==
  ASSUME RaceOutlivesSilence, TypeOK, Ownership, RaceBacked, [Next]_vars
  PROVE  RaceBacked'
<1>1. CASE TakeChanged \/ UNCHANGED vars
  BY <1>1 DEF TakeChanged, vars, zoneVars, slotVars, waitVars, RaceBacked, GridOnlyNow, Owners, Racing
<1>2. CASE SetPractice
  BY <1>2 DEF SetPractice, GiveUp, RaceBacked, Owners
<1>3. ASSUME NEW S \in SUBSET Boats, ReleaseSlots(S)
      PROVE  RaceBacked'
  BY <1>3 DEF ReleaseSlots, Release, GiveUp, zoneVars, RaceBacked, GridOnlyNow, Owners, Racing
<1> QED BY <1>1, <1>2, <1>3, NoteHeardBacked, SweepBacked, TickBacked DEF Next

\* With the course known and a race outliving an ownership, every owner of a
\* slot outside practice mode is racing.
THEOREM OwnersRace ==
  ASSUME RaceOutlivesSilence
  PROVE  Spec => []OwnersAreRacing
<1>1. Init => RaceBacked
  BY DEF Init, RaceBacked, Owners
<1>2. TypeOK /\ Ownership /\ RaceBacked /\ [Next]_vars => RaceBacked'
  BY NextBacked
<1>3. RaceBacked => OwnersAreRacing
  BY DEF RaceBacked, OwnersAreRacing
<1> QED BY <1>1, <1>2, <1>3, TypeCorrect, OwnershipInvariant, PTL DEF Spec
-------------------------------------------------------------------------------
(* Steps: what no step may do, and the abstract slot table.                *)

\* What a step does to the slots is one of: nothing, one boat is given a slot
\* nobody has, some boats lose theirs, or every slot is owned and one passes
\* from a boat that is not racing to one that is.
SlotStep ==
  \/ slot' = slot
  \/ \E b \in Boats, s \in Slots \ Taken : slot[b] = NoSlot /\ slot' = [slot EXCEPT ![b] = s]
  \/ \E S \in SUBSET Boats : slot' = [b \in Boats |-> IF b \in S THEN NoSlot ELSE slot[b]]
  \/ \E v, b \in Boats :
       /\ Taken = Slots
       /\ slot[v] # NoSlot /\ slot[b] = NoSlot
       /\ racing'[v] = NotRacing /\ racing'[b] # NotRacing
       /\ slot' = [slot EXCEPT ![v] = NoSlot, ![b] = slot[v]]

LEMMA NoteHeardSlotStep ==
  ASSUME TypeOK, NEW b \in Boats, NEW g \in Fixes, NoteHeard(b, g)
  PROVE  SlotStep
<1> DEFINE f == Seen(g)
<1>a. \A c \in Boats \ {b} : racing'[c] = racing[c]
  BY HeardLeavesOthersAlone
<1> HIDE DEF f
<1>1. CASE HeardParked(b, f)
  <2>1. CASE slot[b] = NoSlot
    BY <1>1, <2>1 DEF HeardParked, slotVars, SlotStep
  <2>2. CASE slot[b] # NoSlot
    <3>1. slot' = [c \in Boats |-> IF c \in {b} THEN NoSlot ELSE slot[c]]
      BY <1>1, <2>2 DEF HeardParked, TypeOK
    <3>2. {b} \in SUBSET Boats
      OBVIOUS
    <3> QED BY <3>1, <3>2 DEF SlotStep
  <2> QED BY <2>1, <2>2
<1>2. CASE HeardEntering(b, f) \/ HeardOwner(b, f) \/ HeardUnentitled(b, f) \/ HeardOverflowing(b, f)
  BY <1>2 DEF HeardEntering, HeardOwner, HeardUnentitled, HeardOverflowing, slotVars, SlotStep
<1>3. CASE HeardGivenFreeSlot(b, f)
  BY <1>3, ChoiceIsFree DEF HeardGivenFreeSlot, SlotStep
<1>4. CASE HeardTakingOver(b, f)
  <2>1. PICK v \in LongestSilent(b) : slot' = [slot EXCEPT ![v] = NoSlot, ![b] = slot[v]]
    BY <1>4 DEF HeardTakingOver
  <2>2. v \in Boats /\ slot[v] # NoSlot /\ slot[b] = NoSlot /\ racing[v] = NotRacing /\ Taken = Slots
    BY <1>4 DEF LongestSilent, Victims, Owners, Racing, HeardTakingOver
  <2>3. racing'[v] = NotRacing
    BY <1>a, <2>2
  <2>4. racing'[b] # NotRacing
    BY <1>4 DEF HeardTakingOver, Counted, TypeOK, NotRacing
  <2> QED BY <2>1, <2>2, <2>3, <2>4 DEF SlotStep
<1> QED BY <1>1, <1>2, <1>3, <1>4 DEF NoteHeard, f

LEMMA NextSlotStep == TypeOK /\ [Next]_vars => SlotStep
<1> SUFFICES ASSUME TypeOK, [Next]_vars PROVE SlotStep
  OBVIOUS
<1>1. CASE TakeChanged \/ Tick \/ UNCHANGED vars
  BY <1>1 DEF TakeChanged, Tick, vars, slotVars, SlotStep
<1>2. CASE Sweep
  <2>1. StaleOwners \in SUBSET Boats
    BY DEF StaleOwners, Owners
  <2> QED BY <1>2, <2>1 DEF Sweep, GiveUp, SlotStep
<1>3. CASE SetPractice
  BY <1>3 DEF SetPractice, GiveUp, SlotStep
<1>4. ASSUME NEW S \in SUBSET Boats, ReleaseSlots(S)
      PROVE  SlotStep
  BY <1>4 DEF ReleaseSlots, Release, GiveUp, SlotStep
<1> QED BY <1>1, <1>2, <1>3, <1>4, NoteHeardSlotStep DEF Next

\* Nobody's slot ever moves: from one slot a boat only ever goes to none.
THEOREM SlotsStayPut == Spec => SlotsNeverMove
<1>1. TypeOK /\ [Next]_vars => [\A b \in Boats : slot[b] # NoSlot => slot'[b] \in {slot[b], NoSlot}]_vars
  <2> SUFFICES ASSUME TypeOK, SlotStep, NEW b \in Boats, slot[b] # NoSlot
               PROVE  slot'[b] \in {slot[b], NoSlot}
    BY NextSlotStep
  <2> QED BY DEF SlotStep, TypeOK
<1> QED BY <1>1, TypeCorrect, PTL DEF Spec, SlotsNeverMove

\* A racing boat heard under way off the grid ends up without a slot only if
\* every slot is owned by a racing boat.
THEOREM RacersAreServed == Spec => NoRacerShutOut
<1> DEFINE Left(b) == slot'[b] = NoSlot /\ racing'[b] = 0
           Served  == \A s \in Slots : \E c \in Boats : slot'[c] = s /\ racing'[c] # NotRacing
<1>0. 0 # NotRacing
  BY DEF NotRacing
<1>1. ASSUME TypeOK, NEW b \in Boats, Left(b), NEW g \in Fixes, g.moving, Seen(g).place # "grid",
             NoteHeard(b, g)
      PROVE  Served
  <2> DEFINE f == Seen(g)
  <2>1. f \in FixKinds /\ f.moving /\ f.place # "grid"
    BY <1>1, SeenType DEF Seen
  <2>2. Active(b, f)
    BY <2>1 DEF Active
  <2>a. \A c \in Boats \ {b} : racing'[c] = racing[c]
    BY <1>1, HeardLeavesOthersAlone
  <2> HIDE DEF f
  <2>3. ~HeardParked(b, f) /\ ~HeardEntering(b, f)
    BY <1>0, <1>1, <2>1 DEF HeardParked, HeardEntering, TypeOK
  <2>4. ~HeardOwner(b, f)
    BY <1>1 DEF HeardOwner
  <2>5. ~HeardUnentitled(b, f)
    BY <1>0, <1>1, <2>2 DEF HeardUnentitled, Counted, Entitled, TypeOK
  <2>6. ~HeardGivenFreeSlot(b, f)
    BY <1>1, ChoiceIsFree, SlotsType DEF HeardGivenFreeSlot, TypeOK
  <2>7. ~HeardTakingOver(b, f)
    <3> SUFFICES ASSUME HeardTakingOver(b, f) PROVE FALSE
      OBVIOUS
    <3>1. PICK v \in LongestSilent(b) : slot' = [slot EXCEPT ![v] = NoSlot, ![b] = slot[v]]
      BY DEF HeardTakingOver
    <3>2. slot[v] # NoSlot
      BY DEF LongestSilent, Victims, Owners
    <3> QED BY <1>1, <3>1, <3>2 DEF TypeOK
  <2>8. CASE HeardOverflowing(b, f)
    <3>1. slot' = slot /\ Taken = Slots /\ slot[b] = NoSlot
      BY <2>8 DEF HeardOverflowing
    <3>2. RacingAfter(b, f) # NotRacing
      BY <1>0, <1>1, <2>8 DEF HeardOverflowing, Counted, TypeOK
    <3>3. Victims(b) = {}
      BY <2>8, <3>2 DEF HeardOverflowing
    <3> QED BY <1>0, <1>1, <2>a, <3>1, <3>3 DEF Taken, Owners, Victims, Racing
  <2> QED BY <1>1, <2>3, <2>4, <2>5, <2>6, <2>7, <2>8 DEF NoteHeard, f
<1>2. TypeOK =>
        \A b \in {c \in Boats : slot'[c] = NoSlot /\ racing'[c] = 0} :
          \/ \A s \in Slots : \E c \in Boats : slot'[c] = s /\ racing'[c] # NotRacing
          \/ ~\E f \in Fixes : f.moving /\ Seen(f).place # "grid" /\ NoteHeard(b, f)
  BY <1>1
<1> QED BY <1>2, TypeCorrect, PTL DEF Spec, NoRacerShutOut

-------------------------------------------------------------------------------
\* The allocator implements the abstract slot table.
THEOREM AllocatorImplementsAssignment == Spec => ImplementsAssignment
<1> DEFINE started == {b \in Boats : Racing(b)}
<1>1. Init => Assignment!Init
  BY DEF Init, Assignment!Init, Assignment!NoSlot, NoSlot
<1>2. ASSUME TypeOK, [Next]_vars
      PROVE  [Assignment!Next]_<<slot, started>>
  <2>1. started' \in SUBSET Boats
    OBVIOUS
  <2>2. Assignment!Slots = Slots /\ Assignment!NoSlot = NoSlot /\ Assignment!Taken = Taken
    BY DEF Assignment!Slots, Slots, Assignment!NoSlot, NoSlot, Assignment!Taken, Taken, Owners
  <2>3. \A b \in Boats : b \in started' <=> racing'[b] # NotRacing
    BY DEF Racing
  <2>4. CASE slot' = slot
    <3>1. slot' = [b \in Boats |-> IF b \in {} THEN Assignment!NoSlot ELSE slot[b]]
      BY <1>2, <2>4 DEF TypeOK
    <3>2. {} \in SUBSET Boats
      OBVIOUS
    <3> HIDE DEF started
    <3> QED BY <2>1, <3>1, <3>2 DEF Assignment!Next, Assignment!Withdraw, started
  <2>5. ASSUME NEW b \in Boats, NEW s \in Slots \ Taken, slot[b] = NoSlot, slot' = [slot EXCEPT ![b] = s]
        PROVE  Assignment!Next
    <3>1. Assignment!Give(b, s)
      BY <2>2, <2>5 DEF Assignment!Give
    <3> QED BY <2>1, <2>2, <3>1 DEF Assignment!Next
  <2>6. ASSUME NEW S \in SUBSET Boats, slot' = [b \in Boats |-> IF b \in S THEN NoSlot ELSE slot[b]]
        PROVE  Assignment!Next
    <3>1. Assignment!Withdraw(S)
      BY <2>2, <2>6 DEF Assignment!Withdraw
    <3> QED BY <2>1, <3>1 DEF Assignment!Next
  <2>7. ASSUME NEW v \in Boats, NEW b \in Boats,
               Taken = Slots, slot[v] # NoSlot, slot[b] = NoSlot,
               racing'[v] = NotRacing, racing'[b] # NotRacing,
               slot' = [slot EXCEPT ![v] = NoSlot, ![b] = slot[v]]
        PROVE  Assignment!Next
    <3>1. Assignment!HandOver(v, b)
      BY <2>2, <2>3, <2>7 DEF Assignment!HandOver
    <3> QED BY <2>1, <3>1 DEF Assignment!Next
  <2> QED BY <1>2, <2>4, <2>5, <2>6, <2>7, NextSlotStep DEF SlotStep
<1> QED BY <1>1, <1>2, TypeCorrect, PTL DEF Spec, ImplementsAssignment, Assignment!Spec

-------------------------------------------------------------------------------
(* Induction over data, first order: a set of numbers instead of a         *)
(* predicate, so that the provers can instantiate it.                      *)

\* Induction, as a fact about sets of numbers.
LEMMA NatSetInduction ==
  ASSUME NEW N \in Nat, NEW T, 0 \in T, \A n \in 0 .. N - 1 : n \in T => n + 1 \in T
  PROVE  0 .. N \subseteq T
<1> DEFINE R == OpToRel(<, Nat)
           U == (0 .. N) \ T
<1> SUFFICES ASSUME U # {}
             PROVE  FALSE
  OBVIOUS
<1>1. U \subseteq Nat
  OBVIOUS
<1>2. PICK x \in U : \A y \in U : ~(<<y, x>> \in R)
  <2>1. IsWellFoundedOn(R, Nat)
    BY NatLessThanWellFounded
  <2> HIDE DEF R, U
  <2> QED
    BY <1>1, <2>1, WFMin
<1>3. x \in 1 .. N /\ x - 1 \in 0 .. N - 1
  OBVIOUS
<1>4. x - 1 \in U
  BY <1>3
<1>5. <<x - 1, x>> \in R
  BY <1>3 DEF OpToRel
<1> QED
  BY <1>2, <1>4, <1>5

\* A function that is defined by recursion on 0 .. N exists.
Recurs(f, N, S, a, step) ==
  /\ f \in [0 .. N -> S]
  /\ \A n \in 0 .. N : f[n] = IF n = 0 THEN a ELSE step[<<n, f[n - 1]>>]
LEMMA Recursion ==
  ASSUME NEW N \in Nat, NEW S, NEW a \in S, NEW step \in [(1 .. N) \X S -> S]
  PROVE  \E f : Recurs(f, N, S, a, step)
<1> DEFINE Good(f, n) == /\ f \in [0 .. n -> S]
                         /\ \A m \in 0 .. n : f[m] = IF m = 0 THEN a ELSE step[<<m, f[m - 1]>>]
           T == {n \in 0 .. N : \E f : Good(f, n)}
<1>1. 0 \in T
  <2> DEFINE g == [m \in 0 .. 0 |-> a]
  <2>1. Good(g, 0)
    OBVIOUS
  <2> HIDE DEF g, Good
  <2> QED
    BY <2>1
<1>2. ASSUME NEW n \in 0 .. N - 1, n \in T
      PROVE  n + 1 \in T
  <2>1. PICK f : Good(f, n)
    BY <1>2
  <2> DEFINE g == [m \in 0 .. n + 1 |-> IF m = n + 1 THEN step[<<n + 1, f[n]>>] ELSE f[m]]
  <2>2. step[<<n + 1, f[n]>>] \in S
    <3>1. <<n + 1, f[n]>> \in (1 .. N) \X S
      BY <2>1
    <3> QED
      BY <3>1
  <2>3. g \in [0 .. n + 1 -> S]
    BY <2>1, <2>2
  <2>4. \A m \in 0 .. n : g[m] = f[m]
    OBVIOUS
  <2>5. g[n + 1] = step[<<n + 1, f[n]>>]
    OBVIOUS
  <2> HIDE DEF g
  <2>6. \A m \in 0 .. n + 1 : g[m] = IF m = 0 THEN a ELSE step[<<m, g[m - 1]>>]
    <3> TAKE m \in 0 .. n + 1
    <3>1. CASE m = n + 1
      BY <3>1, <2>4, <2>5
    <3>2. CASE m # n + 1
      <4>1. m \in 0 .. n /\ (m # 0 => m - 1 \in 0 .. n)
        BY <3>2
      <4> QED
        BY <4>1, <2>1, <2>4
    <3> QED
      BY <3>1, <3>2
  <2> QED
    BY <2>3, <2>6
<1> HIDE DEF T
<1>3. N \in T
  BY <1>1, <1>2, NatSetInduction
<1> QED
  BY <1>3 DEF T, Recurs

-------------------------------------------------------------------------------
(* slotOrder: the slot numbers bit-reversed.                               *)

LEMMA AssignableType == Assignable \in Nat \ {0}
BY DEF Assignable

\* 1 << n.
LEMMA PowersOfTwo ==
  /\ PowerOf2 \in [0 .. Assignable -> Nat]
  /\ PowerOf2[0] = 1
  /\ \A n \in 1 .. Assignable : PowerOf2[n] = 2 * PowerOf2[n - 1]
<1> DEFINE N == Assignable
           step == [x \in (1 .. N) \X Nat |-> 2 * x[2]]
           F(f) == f = [n \in 0 .. N |-> IF n = 0 THEN 1 ELSE 2 * f[n - 1]]
<1>1. N \in Nat /\ step \in [(1 .. N) \X Nat -> Nat]
  BY AssignableType
<1>2a. PICK f : Recurs(f, N, Nat, 1, step)
  <2>1. 1 \in Nat
    OBVIOUS
  <2> HIDE DEF step, N
  <2> QED
    BY <1>1, <2>1, Recursion
<1>2. f \in [0 .. N -> Nat] /\ \A n \in 0 .. N : f[n] = IF n = 0 THEN 1 ELSE step[<<n, f[n - 1]>>]
  BY <1>2a DEF Recurs
<1>3. \A n \in 0 .. N : f[n] = IF n = 0 THEN 1 ELSE 2 * f[n - 1]
  <2> TAKE n \in 0 .. N
  <2>1. CASE n = 0
    BY <1>2, <2>1
  <2>2. CASE n # 0
    <3>1. n \in 1 .. N /\ f[n - 1] \in Nat
      BY <1>1, <1>2, <2>2
    <3> QED
      BY <1>2, <2>2, <3>1
  <2> QED
    BY <2>1, <2>2
<1>4. F(f)
  BY <1>2, <1>3
<1>5. F(PowerOf2)
  <2>1. PowerOf2 = CHOOSE g : F(g)
    BY DEF PowerOf2
  <2> HIDE DEF F
  <2> QED
    BY <1>4, <2>1
<1>6. \A n \in 0 .. N : PowerOf2[n] \in Nat
  <2> DEFINE T == {n \in 0 .. N : PowerOf2[n] \in Nat}
  <2>1. 0 \in T
    BY <1>5, <1>1
  <2>2. \A n \in 0 .. N - 1 : n \in T => n + 1 \in T
    BY <1>5, <1>1
  <2> HIDE DEF T
  <2>3. 0 .. N \subseteq T
    BY <1>1, <2>1, <2>2, NatSetInduction
  <2> QED
    BY <2>3 DEF T
<1> QED
  BY <1>1, <1>5, <1>6

LEMMA BitsAreEnough ==
  /\ Bits \in 0 .. Assignable
  /\ PowerOf2[Bits] >= Assignable
<1> DEFINE N == Assignable
           T == {n \in 0 .. N : PowerOf2[n] >= n + 1}
           Enough(n) == n \in 0 .. N /\ PowerOf2[n] >= N
           U == {n \in Nat : Enough(n)}
           R == OpToRel(<, Nat)
<1>1. N \in Nat
  BY AssignableType
<1>2. 0 .. N \subseteq T
  <2>1. 0 \in T
    BY <1>1, PowersOfTwo
  <2>2. \A n \in 0 .. N - 1 : n \in T => n + 1 \in T
    BY <1>1, PowersOfTwo
  <2> HIDE DEF T
  <2> QED
    BY <1>1, <2>1, <2>2, NatSetInduction
<1>3. N \in U
  BY <1>1, <1>2, PowersOfTwo
<1>4. PICK x \in U : \A y \in U : ~(<<y, x>> \in R)
  <2>1. U \subseteq Nat /\ U # {} /\ IsWellFoundedOn(R, Nat)
    BY <1>3, NatLessThanWellFounded
  <2> HIDE DEF U, R
  <2> QED
    BY <2>1, WFMin
<1>5. \A m \in 0 .. x - 1 : PowerOf2[m] < N
  <2> TAKE m \in 0 .. x - 1
  <2>1. <<m, x>> \in R
    BY DEF OpToRel
  <2>2. m \notin U
    BY <1>4, <2>1
  <2>0. x \in 0 .. N
    BY <1>4
  <2>3. m \in 0 .. N /\ m \in Nat
    BY <1>1, <2>0
  <2> QED
    BY <1>1, <2>2, <2>3, PowersOfTwo
<1>6. \E n \in 0 .. N : PowerOf2[n] >= N /\ \A m \in 0 .. n - 1 : PowerOf2[m] < N
  BY <1>4, <1>5
<1> QED
  BY <1>6 DEF Bits

\* The bits of a slot number, reversed.
Bit(s, n) == (s \div PowerOf2[n - 1]) % 2
LEMMA BitIsABit ==
  ASSUME NEW s \in Slots, NEW n \in 1 .. Bits
  PROVE  Bit(s, n) \in {0, 1}
<1>1. n - 1 \in 0 .. Assignable
  BY AssignableType, BitsAreEnough
<1>2. \A k \in 0 .. Assignable : PowerOf2[k] >= 1
  <2> DEFINE T == {k \in 0 .. Assignable : PowerOf2[k] >= 1}
  <2>1. 0 \in T
    BY AssignableType, PowersOfTwo
  <2>2. \A k \in 0 .. Assignable - 1 : k \in T => k + 1 \in T
    BY AssignableType, PowersOfTwo
  <2> HIDE DEF T
  <2>3. 0 .. Assignable \subseteq T
    BY AssignableType, <2>1, <2>2, NatSetInduction
  <2> QED
    BY <2>3 DEF T
<1>3. PowerOf2[n - 1] \in Nat /\ PowerOf2[n - 1] >= 1 /\ s \in Nat
  BY <1>1, <1>2, PowersOfTwo DEF Slots
<1> DEFINE p == PowerOf2[n - 1]
<1> HIDE DEF p
<1>4. s \div p \in Int
  BY <1>3 DEF p
<1> QED
  BY <1>4 DEF Bit, p

LEMMA ReversedBits ==
  ASSUME NEW s \in Slots
  PROVE  \E f \in [0 .. Bits -> Int] :
           Rank(s) = f[Bits] /\ f[0] = 0 /\ \A n \in 1 .. Bits : f[n] = 2 * f[n - 1] + Bit(s, n)
<1> DEFINE N == Bits
           step == [x \in (1 .. N) \X Int |-> 2 * x[2] + Bit(s, x[1])]
           F(f) == f = [n \in 0 .. N |-> IF n = 0 THEN 0 ELSE 2 * f[n - 1] + Bit(s, n)]
<1>1. N \in Nat
  BY AssignableType, BitsAreEnough
<1>2. \A n \in 1 .. N : Bit(s, n) \in {0, 1}
  BY BitIsABit
<1>3. step \in [(1 .. N) \X Int -> Int]
  BY <1>2
<1>4a. PICK f : Recurs(f, N, Int, 0, step)
  <2>1. 0 \in Int
    OBVIOUS
  <2> HIDE DEF step, N
  <2> QED
    BY <1>1, <1>3, <2>1, Recursion
<1>4. f \in [0 .. N -> Int] /\ \A n \in 0 .. N : f[n] = IF n = 0 THEN 0 ELSE step[<<n, f[n - 1]>>]
  BY <1>4a DEF Recurs
<1>5. \A n \in 1 .. N : f[n] = 2 * f[n - 1] + Bit(s, n)
  <2> TAKE n \in 1 .. N
  <2> DEFINE x == <<n, f[n - 1]>>
  <2>1. n - 1 \in 0 .. N /\ n \in 0 .. N /\ n # 0
    BY <1>1
  <2>2. f[n - 1] \in Int
    BY <1>4, <2>1
  <2>3. step[x] = 2 * f[n - 1] + Bit(s, n)
    BY <2>2
  <2> HIDE DEF step
  <2>4. f[n] = step[x]
    BY <1>4, <2>1
  <2> QED
    BY <2>3, <2>4
<1>6. f[0] = 0
  <2>1. 0 \in 0 .. N
    BY <1>1
  <2> HIDE DEF step
  <2> QED
    BY <1>4, <2>1
<1>7. F(f)
  BY <1>1, <1>4, <1>5, <1>6
<1> DEFINE r == CHOOSE g : F(g)
<1>8. Rank(s) = r[N]
  BY DEF Rank, Bit
<1>9. F(r)
  <2> HIDE DEF F
  <2> QED
    BY <1>7
<1> HIDE DEF r
<1>10. r[0] = 0 /\ \A n \in 1 .. N : r[n] = 2 * r[n - 1] + Bit(s, n)
  BY <1>1, <1>9
<1>11. r \in [0 .. N -> Int]
  <2> DEFINE T == {n \in 0 .. N : r[n] \in Int}
  <2>1. 0 \in T
    BY <1>1, <1>10
  <2>2. \A n \in 0 .. N - 1 : n \in T => n + 1 \in T
    <3> TAKE n \in 0 .. N - 1
    <3>1. n + 1 \in 1 .. N /\ (n + 1) - 1 = n
      BY <1>1
    <3>2. r[n + 1] = 2 * r[n] + Bit(s, n + 1) /\ Bit(s, n + 1) \in Int
      BY <1>10, <1>2, <3>1
    <3> QED
      BY <3>1, <3>2
  <2> HIDE DEF T
  <2>3. 0 .. N \subseteq T
    BY <1>1, <2>1, <2>2, NatSetInduction
  <2> QED
    BY <2>3, <1>9 DEF T
<1> QED
  BY <1>8, <1>10, <1>11

LEMMA RankType ==
  ASSUME NEW s \in Slots
  PROVE  Rank(s) \in Int
<1>1. Bits \in 0 .. Bits
  BY AssignableType, BitsAreEnough
<1> QED
  BY <1>1, ReversedBits

Evens == {s \in Slots : s % 2 = 0}

\* slotOrder hands out every even slot before any odd one.
LEMMA EvensFirst ==
  ASSUME NEW s \in Evens, NEW u \in Slots \ Evens
  PROVE  Rank(s) < Rank(u)
<1>1. PICK f \in [0 .. Bits -> Int] :
        Rank(s) = f[Bits] /\ f[0] = 0 /\ \A n \in 1 .. Bits : f[n] = 2 * f[n - 1] + Bit(s, n)
  BY ReversedBits DEF Evens
<1>2. PICK g \in [0 .. Bits -> Int] :
        Rank(u) = g[Bits] /\ g[0] = 0 /\ \A n \in 1 .. Bits : g[n] = 2 * g[n - 1] + Bit(u, n)
  BY ReversedBits
<1>3. Bits \in Nat /\ Bits >= 1
  <2>1. Assignable >= 2
    BY AssignableType DEF Evens, Slots
  <2> QED
    BY <2>1, AssignableType, BitsAreEnough, PowersOfTwo
<1>4. Bit(s, 1) = 0 /\ Bit(u, 1) = 1
  <2>1. PowerOf2[1 - 1] = 1
    BY PowersOfTwo
  <2>2. s \in Nat /\ s % 2 = 0 /\ u \in Nat /\ u % 2 = 1
    BY DEF Evens, Slots
  <2> QED
    BY <2>1, <2>2 DEF Bit
<1> DEFINE last == Bits - 1
           T == {n \in 0 .. last : f[n + 1] < g[n + 1]}
<1>5. 0 \in T
  BY <1>1, <1>2, <1>3, <1>4
<1>6. ASSUME NEW n \in 0 .. last - 1, n \in T
      PROVE  n + 1 \in T
  <2>1. n + 1 \in 1 .. Bits /\ (n + 1) + 1 \in 1 .. Bits /\ n + 1 \in 0 .. last /\ ((n + 1) + 1) - 1 = n + 1
    BY <1>3
  <2> DEFINE m == (n + 1) + 1
  <2>2. f[m] = 2 * f[m - 1] + Bit(s, m)
    BY <1>1, <2>1
  <2>3. g[m] = 2 * g[m - 1] + Bit(u, m)
    BY <1>2, <2>1
  <2>4. f[n + 1] \in Int /\ g[n + 1] \in Int
    BY <1>1, <1>2, <1>3, <2>1
  <2>5. Bit(s, m) \in {0, 1} /\ Bit(u, m) \in {0, 1}
    BY <2>1, BitIsABit DEF Evens
  <2>6. f[n + 1] < g[n + 1]
    BY <1>6
  <2>7. f[m] < g[m]
    BY <2>1, <2>2, <2>3, <2>4, <2>5, <2>6
  <2> QED
    BY <2>1, <2>7
<1>7. last \in Nat
  BY <1>3
<1> HIDE DEF T, last
<1>8. last \in T
  <2>1. \A n \in 0 .. last - 1 : n \in T => n + 1 \in T
    BY <1>6
  <2>2. 0 .. last \subseteq T
    BY <1>5, <1>7, <2>1, NatSetInduction
  <2> QED
    BY <1>7, <2>2
<1> QED
  BY <1>1, <1>2, <1>3, <1>8 DEF T, last

-------------------------------------------------------------------------------
(* Spread.                                                                 *)

HalfTheSlots == IsFiniteSet(Boats) /\ 2 * Cardinality(Boats) <= Assignable + 1

EvenClaims == \A b \in Boats : {slot[b], heldSlot[b]} \subseteq Evens \cup {NoSlot}

LEMMA EvensAreHalf ==
  \A k \in Nat : 2 * k <= Assignable + 1 => IsFiniteSet(Evens) /\ k <= Cardinality(Evens)
<1> SUFFICES ASSUME NEW k \in Nat, 2 * k <= Assignable + 1
             PROVE  IsFiniteSet(Evens) /\ k <= Cardinality(Evens)
  OBVIOUS
<1>1. IsFiniteSet(Evens)
  <2>1. IsFiniteSet(0 .. Assignable - 1)
    BY AssignableType, FS_Interval
  <2> QED
    BY <2>1, FS_Subset DEF Evens, Slots
<1> DEFINE f == [i \in 1 .. k |-> 2 * (i - 1)]
<1>2. f \in Injection(1 .. k, Evens)
  <2>1. \A i \in 1 .. k : 2 * (i - 1) \in Evens
    BY AssignableType DEF Evens, Slots
  <2>2. f \in [1 .. k -> Evens]
    BY <2>1
  <2>3. \A i, j \in 1 .. k : f[i] = f[j] => i = j
    OBVIOUS
  <2> HIDE DEF f
  <2> QED
    BY <2>2, <2>3 DEF Injection, IsInjective
<1> HIDE DEF f
<1>3. Cardinality(1 .. k) <= Cardinality(Evens)
  BY <1>1, <1>2, FS_Injection
<1>4. Cardinality(1 .. k) = k
  <2>1. Cardinality(1 .. k) = IF 1 > k THEN 0 ELSE k - 1 + 1
    BY FS_Interval
  <2> QED
    BY <2>1
<1> QED
  BY <1>1, <1>3, <1>4

\* Each of the other boats lays claim to one slot at most, so an even one is left.
LEMMA EvenSlotIsLeft ==
  ASSUME HalfTheSlots, TypeOK, OneClaim, NEW b \in Boats, slot[b] = NoSlot
  PROVE  Evens \ (Taken \cup HeldForOthers(b)) # {}
<1> DEFINE Others == Boats \ {b}
           Claimed(c, e) == e \in {slot[c], heldSlot[c]}
<1> SUFFICES ASSUME Evens \subseteq Taken \cup HeldForOthers(b)
             PROVE  FALSE
  OBVIOUS
<1>1. Cardinality(Boats) \in Nat /\ IsFiniteSet(Others) /\ Cardinality(Others) = Cardinality(Boats) - 1
  BY FS_CardinalityType, FS_RemoveElement DEF HalfTheSlots
<1>2. IsFiniteSet(Evens) /\ Cardinality(Boats) <= Cardinality(Evens)
  BY <1>1, EvensAreHalf DEF HalfTheSlots
<1>3. Cardinality(Evens) \in Nat
  BY <1>2, FS_CardinalityType
<1>4. \A e \in Evens : \E c \in Others : Claimed(c, e)
  <2> SUFFICES ASSUME NEW e \in Evens
               PROVE  \E c \in Others : Claimed(c, e)
    OBVIOUS
  <2>1. CASE e \in Taken
    <3>1. PICK c \in Boats : slot[c] = e /\ slot[c] # NoSlot
      BY <2>1 DEF Taken, Owners
    <3> QED
      BY <3>1
  <2>2. CASE e \in HeldForOthers(b)
    BY <2>2 DEF HeldForOthers
  <2> QED
    BY <2>1, <2>2
<1> DEFINE f == [e \in Evens |-> CHOOSE c \in Others : Claimed(c, e)]
<1>5. \A e \in Evens : f[e] \in Others /\ Claimed(f[e], e)
  BY <1>4
<1>6. f \in [Evens -> Others]
  BY <1>5
<1>7. Cardinality(Others) < Cardinality(Evens)
  BY <1>1, <1>2, <1>3
<1> HIDE DEF f
<1>8. PICK x, y \in Evens : x # y /\ f[x] = f[y]
  BY <1>1, <1>2, <1>6, <1>7, FS_PigeonHole
<1>9. PICK c \in Others : Claimed(c, x) /\ Claimed(c, y)
  BY <1>5, <1>8
<1>10. slot[c] # NoSlot /\ heldSlot[c] # NoSlot
  BY <1>8, <1>9 DEF Evens, Slots, NoSlot
<1> QED
  BY <1>10 DEF OneClaim, Owners

LEMMA PickIsEven ==
  ASSUME NEW X, Evens \ X # {}
  PROVE  PickSlot(X) \subseteq Evens
<1>1. PICK e \in Evens : e \notin X
  OBVIOUS
<1> SUFFICES ASSUME NEW s \in PickSlot(X), s \notin Evens
             PROVE  FALSE
  OBVIOUS
<1>2. s \in Slots \ Evens /\ Rank(s) <= Rank(e)
  BY <1>1 DEF PickSlot, Evens
<1>3. Rank(e) < Rank(s)
  BY <1>2, EvensFirst
<1>4. Rank(e) \in Int /\ Rank(s) \in Int
  BY <1>2, RankType DEF Evens
<1> QED
  BY <1>2, <1>3, <1>4

LEMMA ChoiceIsEven ==
  ASSUME HalfTheSlots, TypeOK, OneClaim, EvenClaims, NEW b \in Boats, slot[b] = NoSlot
  PROVE  Choice(b) \subseteq Evens
<1>1. Evens \ (Taken \cup HeldForOthers(b)) # {} /\ Evens \ Taken # {}
  BY EvenSlotIsLeft
<1>2. /\ PickSlot(Taken \cup HeldForOthers(b)) \subseteq Evens
      /\ PickSlot(Taken) \subseteq Evens
  BY <1>1, PickIsEven
<1>3. OwnSlotFree(b) => heldSlot[b] \in Evens
  BY DEF OwnSlotFree, EvenClaims
<1> QED
  BY <1>2, <1>3 DEF Choice

LEMMA NoteHeardEven ==
  ASSUME HalfTheSlots, TypeOK, OneClaim, EvenClaims, NEW b \in Boats, NEW g \in Fixes, NoteHeard(b, g)
  PROVE  EvenClaims'
<1> DEFINE f == Seen(g)
<1> HIDE DEF f
<1>1. CASE HeardParked(b, f)
  BY <1>1 DEF HeardParked, EvenClaims, TypeOK, slotVars
<1>2. CASE HeardEntering(b, f) \/ HeardUnentitled(b, f)
  BY <1>2 DEF HeardEntering, HeardUnentitled, EvenClaims, slotVars
<1>3. CASE HeardOwner(b, f)
  BY <1>3 DEF HeardOwner, EvenClaims
<1>4. CASE HeardGivenFreeSlot(b, f)
  <2>1. PICK s \in Evens : slot' = [slot EXCEPT ![b] = s]
    BY <1>4, ChoiceIsEven DEF HeardGivenFreeSlot
  <2> QED
    BY <1>4, <2>1 DEF HeardGivenFreeSlot, EvenClaims, TypeOK
<1>5. CASE HeardTakingOver(b, f)
  <2>1. PICK v \in Boats :
          /\ slot' = [slot EXCEPT ![v] = NoSlot, ![b] = slot[v]]
          /\ heldSlot' = [heldSlot EXCEPT ![v] = slot[v], ![b] = NoSlot]
    BY <1>5 DEF HeardTakingOver, LongestSilent, Victims, Owners
  <2> QED
    BY <2>1 DEF EvenClaims, TypeOK
<1>6. CASE HeardOverflowing(b, f)
  BY <1>6 DEF HeardOverflowing, EvenClaims, TypeOK
<1> QED
  BY <1>1, <1>2, <1>3, <1>4, <1>5, <1>6 DEF NoteHeard, f

LEMMA NextEven ==
  ASSUME HalfTheSlots, TypeOK, OneClaim, EvenClaims, [Next]_vars
  PROVE  EvenClaims'
<1>1. ASSUME NEW b \in Boats, NEW f \in Fixes, NoteHeard(b, f)
      PROVE  EvenClaims'
  BY <1>1, NoteHeardEven
<1>2. CASE Sweep
  BY <1>2 DEF Sweep, GiveUp, EvenClaims
<1>3. ASSUME NEW S \in SUBSET Boats \ {{}}, ReleaseSlots(S)
      PROVE  EvenClaims'
  BY <1>3 DEF ReleaseSlots, Release, GiveUp, EvenClaims
<1>4. CASE SetPractice
  BY <1>4 DEF SetPractice, GiveUp, EvenClaims
<1>5. CASE TakeChanged \/ Tick \/ UNCHANGED vars
  BY <1>5 DEF TakeChanged, Tick, vars, slotVars, EvenClaims
<1> QED
  BY <1>1, <1>2, <1>3, <1>4, <1>5 DEF Next

\* A fleet of at most half as many boats as slots never has two boats in neighbouring slots,
\* however many slots there are and in whatever order boats come, go and return (slotOrder, _assign).
THEOREM FleetIsSpread ==
  ASSUME HalfTheSlots
  PROVE  Spec => []Spread
<1>1. Init => EvenClaims
  <2> SUFFICES ASSUME Init, NEW b \in Boats
               PROVE  {slot[b], heldSlot[b]} \subseteq Evens \cup {NoSlot}
    BY DEF EvenClaims
  <2>1. slot[b] = NoSlot /\ heldSlot[b] = NoSlot
    BY DEF Init
  <2> QED
    BY <2>1
<1>2. TypeOK /\ Ownership /\ EvenClaims /\ [Next]_vars => EvenClaims'
  BY NextEven DEF Ownership
<1>3. EvenClaims => Spread
  <2> SUFFICES ASSUME EvenClaims, NEW b \in Owners, NEW c \in Owners
               PROVE  slot[c] # slot[b] + 1
    BY DEF Spread
  <2>1. slot[b] \in Evens /\ slot[c] \in Evens
    BY DEF EvenClaims, Owners
  <2> QED
    BY <2>1 DEF Evens, Slots
<1> QED
  BY <1>1, <1>2, <1>3, TypeCorrect, OwnershipInvariant, PTL DEF Spec
===============================================================================
