----------------------------- MODULE SlotAllocator -----------------------------
(***************************************************************************)
(* The base's transmit-slot allocator: classes ZoneState and SlotAllocator *)
(* of src/src/slotTable.js, with the two helpers that pick a slot.         *)
(*                                                                         *)
(* Time is kept as AGES: where the code stores the time of an event and    *)
(* later compares `now - then` with a limit, the model stores how long ago *)
(* the event was, in steps of Tick, and stops counting once the age is     *)
(* past the limit it is compared with (Older). A Map of the code that has  *)
(* no entry for a boat is a sentinel here: NoSlot, NotRacing, NoZone, or a  *)
(* boat outside the sets "tracked" and "overflow".                          *)
(***************************************************************************)
EXTENDS Integers

CONSTANTS
  Boats,         \* the boats the base may hear
  SlotCount,     \* slots for boats in a cycle, the join slots included
  JoinSlots,     \* how many of them, the last ones, are never assigned
  UnparkFixes,   \* fixes in a row outside the zone that end a stay
  ParkDwell,     \* how long a moving boat stays in the zone before it is parked
  Stale,         \* an owner not actively reporting for longer loses its slot
  ActiveFrames,  \* this many recent fixes count as active (0: only moving does)
  ActiveWindow,  \* how long a fix counts as recent
  GridOnly,      \* configured: only boats that started get a slot
  RacingTtl,     \* a boat inactive for longer is no longer racing
  ZoneTtl,       \* a boat silent for longer is no longer parked
  Hold,          \* how long a slot given up is remembered for its boat
  Fixes          \* the kinds of fix the fleet can produce, a subset of FixKinds

(* A fix, as startGridState and the speed threshold of baseStation.js see  *)
(* it: under way or not; inside the start grid zone, past the start line   *)
(* on the course side, or elsewhere; seen to cross the start line since    *)
(* the previous fix; and whether the course marks, so the zone, are known. *)
Places   == {"grid", "course", "elsewhere"}
FixKinds == {f \in [moving : BOOLEAN, place : Places, crossed : BOOLEAN, known : BOOLEAN] :
               ~f.known => f.place = "elsewhere" /\ ~f.crossed}

ASSUME SlotAllocatorAssumption ==
  /\ SlotCount \in Nat \ {0}
  /\ JoinSlots \in 0 .. SlotCount - 1
  /\ UnparkFixes \in Nat \ {0}
  /\ ParkDwell \in Nat
  /\ Stale \in Nat
  /\ ActiveFrames \in Nat
  /\ ActiveWindow \in Nat
  /\ GridOnly \in BOOLEAN
  /\ RacingTtl \in Nat
  /\ ZoneTtl \in Nat
  /\ Hold \in Nat
  /\ Fixes \subseteq FixKinds

VARIABLES
  practice,  \* practice mode: no start grid management at all
  zone,      \* zone[b]: b's stay in the start grid zone, or NoZone
  racing,    \* racing[b]: age of b's last activity as a racing boat, or NotRacing
  slot,      \* slot[b]: the slot b owns, or NoSlot            (byBoat)
  silent,    \* silent[b]: age of b's last active report while it owns a slot
  heldSlot,  \* heldSlot[b]: the slot b last gave up, or NoSlot  (released)
  heldFor,   \* heldFor[b]: how long ago it gave that slot up
  tracked,   \* the boats whose recent fixes are being counted   (recent)
  fixAge,    \* fixAge[b][i]: age of b's i-th newest counted fix
  overflow,  \* boats heard while every slot was taken
  changed    \* an assignment changed since the table was last taken

zoneVars   == <<zone, racing>>
slotVars   == <<slot, silent, heldSlot, heldFor>>
waitVars   == <<tracked, fixAge, overflow>>
vars       == <<practice, zoneVars, slotVars, waitVars, changed>>

NoSlot     == -1
NotRacing  == -1
NotInside  == -1
Assignable == SlotCount - JoinSlots
Slots      == 0 .. Assignable - 1
FrameDepth == IF ActiveFrames > 1 THEN ActiveFrames ELSE 1
Frames     == 1 .. FrameDepth

NoZone == [parked |-> FALSE, outside |-> 0, entered |-> NotInside, crossedLine |-> FALSE, heard |-> 0]
ZoneStates ==
  [parked : BOOLEAN, outside : 0 .. UnparkFixes - 1, entered : NotInside .. ParkDwell,
   crossedLine : BOOLEAN, heard : 0 .. ZoneTtl + 1]

Older(age, limit)  == IF age > limit THEN age ELSE age + 1
NoFixes            == [i \in Frames |-> ActiveWindow + 1]
Owners             == {b \in Boats : slot[b] # NoSlot}
Taken              == {slot[b] : b \in Owners}
Parked(b)          == zone[b].parked
Racing(b)          == racing[b] # NotRacing
GridOnlyNow        == GridOnly /\ ~practice

-------------------------------------------------------------------------------
(* Which slot: the numbers below Assignable in bit-reversed order.         *)

PowerOf2[n \in 0 .. Assignable] == IF n = 0 THEN 1 ELSE 2 * PowerOf2[n - 1]   \* 1 << n
Bits == CHOOSE n \in 0 .. Assignable :
          PowerOf2[n] >= Assignable /\ \A m \in 0 .. n - 1 : PowerOf2[m] < Assignable

\* Mutant of Rank: slots are handed out in ascending order.
RankAscending(s) == s

Rank(s) ==
  LET reversed[n \in 0 .. Bits] ==
        IF n = 0 THEN 0 ELSE 2 * reversed[n - 1] + ((s \div PowerOf2[n - 1]) % 2)
  IN  reversed[Bits]

\* The slot pickSlot returns, as a set: empty when every slot is excluded.
PickSlot(excluded) ==
  {s \in Slots \ excluded : \A u \in Slots \ excluded : Rank(s) <= Rank(u)}

-------------------------------------------------------------------------------
(* ZoneState.update: one more fix of a boat known to the zone.             *)
ZoneUpdate(z, f) ==
  LET inside  == f.place = "grid"
      entered == IF z.entered = NotInside THEN 0 ELSE z.entered
      gone    == z.outside + 1 >= UnparkFixes
  IN  IF inside
      THEN [parked |-> z.parked \/ ~f.moving \/ entered >= ParkDwell,
            outside |-> 0, entered |-> entered, crossedLine |-> FALSE, heard |-> 0]
      ELSE [parked |-> z.parked /\ ~gone,
            outside |-> IF gone THEN 0 ELSE z.outside + 1,
            entered |-> IF gone THEN NotInside ELSE z.entered,
            crossedLine |-> z.crossedLine \/ (z.parked /\ f.place = "course"),
            heard |-> 0]

(* The part of noteHeard before any slot is looked at. Starts: the boat is *)
(* seen to cross the start line. Its stay in the zone is forgotten then,   *)
(* and a fix inside the zone begins a new one.                             *)
Starts(b, f)     == f.crossed /\ ~Racing(b)
StayBefore(b, f) == IF Starts(b, f) THEN NoZone ELSE zone[b]
Stay(b, f) ==
  LET z == StayBefore(b, f)
  IN  IF z = NoZone /\ f.place # "grid" THEN NoZone ELSE ZoneUpdate(z, f)

ZoneAfter(b, f) == IF Stay(b, f).entered = NotInside THEN NoZone ELSE Stay(b, f)
Parks(b, f)     == Stay(b, f).parked
Unparks(b, f)   == StayBefore(b, f).parked /\ ~Parks(b, f)

RacingAfter(b, f) ==
  IF Parks(b, f) THEN NotRacing
  ELSE IF Unparks(b, f) THEN (IF Stay(b, f).crossedLine THEN 0 ELSE NotRacing)
  ELSE IF Starts(b, f) THEN 0
  ELSE racing[b]

\* The fix times kept for b once this fix is added, and whether b is active by them.
Pushed(b)    == [i \in Frames |-> IF i = 1 THEN 0 ELSE fixAge[b][i - 1]]
Active(b, f) == f.moving \/ (ActiveFrames > 0 /\ Pushed(b)[FrameDepth] <= ActiveWindow)
Entitled(b, f) ==
  /\ Active(b, f)
  /\ GridOnlyNow /\ f.known => RacingAfter(b, f) # NotRacing

Init ==
  /\ practice \in BOOLEAN
  /\ zone = [b \in Boats |-> NoZone]
  /\ racing \in [Boats -> NotRacing .. RacingTtl + 1]  \* whatever importRacing restored
  /\ slot = [b \in Boats |-> NoSlot]
  /\ silent = [b \in Boats |-> 0]
  /\ heldSlot = [b \in Boats |-> NoSlot]
  /\ heldFor = [b \in Boats |-> 0]
  /\ tracked = {}
  /\ fixAge = [b \in Boats |-> NoFixes]
  /\ overflow = {}
  /\ changed = FALSE

-------------------------------------------------------------------------------
(* noteHeard(b, fix): one action per way through it. In practice mode      *)
(* every fix is taken for one outside the zone with no course known.       *)

Seen(f) == IF practice THEN [moving |-> f.moving, place |-> "elsewhere", crossed |-> FALSE, known |-> FALSE]
           ELSE f

Forget(b) ==
  /\ tracked' = tracked \ {b}
  /\ fixAge' = [fixAge EXCEPT ![b] = NoFixes]

\* Mutant of HeardParked: the boat stays among those waiting for a slot.
HeardParkedStillWaiting(b, f) ==
  /\ Parks(b, f)
  /\ zone' = [zone EXCEPT ![b] = ZoneAfter(b, f)]
  /\ racing' = [racing EXCEPT ![b] = NotRacing]
  /\ IF slot[b] = NoSlot
     THEN UNCHANGED <<slotVars, changed>>
     ELSE /\ slot' = [slot EXCEPT ![b] = NoSlot]
          /\ silent' = [silent EXCEPT ![b] = 0]
          /\ heldSlot' = [heldSlot EXCEPT ![b] = slot[b]]
          /\ heldFor' = [heldFor EXCEPT ![b] = 0]
          /\ changed' = TRUE
  /\ Forget(b)
  /\ UNCHANGED overflow

\* Parked: no slot while there, and one it had is freed but remembered for it.
HeardParked(b, f) ==
  /\ Parks(b, f)
  /\ zone' = [zone EXCEPT ![b] = ZoneAfter(b, f)]
  /\ racing' = [racing EXCEPT ![b] = NotRacing]
  /\ IF slot[b] = NoSlot
     THEN UNCHANGED <<slotVars, changed>>
     ELSE /\ slot' = [slot EXCEPT ![b] = NoSlot]
          /\ silent' = [silent EXCEPT ![b] = 0]
          /\ heldSlot' = [heldSlot EXCEPT ![b] = slot[b]]
          /\ heldFor' = [heldFor EXCEPT ![b] = 0]
          /\ changed' = TRUE
  /\ Forget(b)
  /\ overflow' = overflow \ {b}

\* In the zone, the dwell not up yet, without a slot: it is not given one.
HeardEntering(b, f) ==
  /\ ~Parks(b, f)
  /\ f.place = "grid"
  /\ slot[b] = NoSlot
  /\ zone' = [zone EXCEPT ![b] = ZoneAfter(b, f)]
  /\ racing' = [racing EXCEPT ![b] = RacingAfter(b, f)]
  /\ Forget(b)
  /\ UNCHANGED <<slotVars, overflow, changed>>

\* Mutant of Counted: an active report no longer keeps a boat racing.
CountedNotRefreshed(b, f) ==
  /\ ~Parks(b, f)
  /\ f.place = "grid" => slot[b] # NoSlot
  /\ zone' = [zone EXCEPT ![b] = ZoneAfter(b, f)]
  /\ racing' = [racing EXCEPT ![b] = RacingAfter(b, f)]
  /\ tracked' = tracked \cup {b}
  /\ fixAge' = [fixAge EXCEPT ![b] = Pushed(b)]

\* What every other fix does: it is counted, and an active boat stays racing.
Counted(b, f) ==
  /\ ~Parks(b, f)
  /\ f.place = "grid" => slot[b] # NoSlot
  /\ zone' = [zone EXCEPT ![b] = ZoneAfter(b, f)]
  /\ racing' = [racing EXCEPT ![b] =
                  IF Active(b, f) /\ RacingAfter(b, f) # NotRacing THEN 0 ELSE RacingAfter(b, f)]
  /\ tracked' = tracked \cup {b}
  /\ fixAge' = [fixAge EXCEPT ![b] = Pushed(b)]

HeardOwner(b, f) ==
  /\ Counted(b, f)
  /\ slot[b] # NoSlot
  /\ silent' = [silent EXCEPT ![b] = IF Active(b, f) THEN 0 ELSE silent[b]]
  /\ UNCHANGED <<slot, heldSlot, heldFor, overflow, changed>>

HeardUnentitled(b, f) ==
  /\ Counted(b, f)
  /\ slot[b] = NoSlot
  /\ ~Entitled(b, f)
  /\ UNCHANGED <<slotVars, overflow, changed>>

\* Mutant of OwnSlotFree: nobody looks whether the slot has been given away.
OwnSlotTakenBack(b) ==
  /\ heldSlot[b] # NoSlot
  /\ heldFor[b] <= Hold

(* _assign: the boat's previous slot if it is still free, else a free slot *)
(* no other boat gave up recently, else any free slot ...                  *)
OwnSlotFree(b) ==
  /\ heldSlot[b] # NoSlot
  /\ heldFor[b] <= Hold
  /\ heldSlot[b] \notin Taken

HeldForOthers(b) == {heldSlot[c] : c \in {d \in Boats \ {b} : heldSlot[d] # NoSlot /\ heldFor[d] <= Hold}}

Choice(b) ==
  IF OwnSlotFree(b) THEN {heldSlot[b]}
  ELSE IF Slots \ (Taken \cup HeldForOthers(b)) # {} THEN PickSlot(Taken \cup HeldForOthers(b))
  ELSE PickSlot(Taken)

\* Mutant of HeardGivenFreeSlot: the slot it gave up stays remembered for the boat.
HeardGivenSlotHolding(b, f) ==
  /\ Counted(b, f)
  /\ slot[b] = NoSlot
  /\ Entitled(b, f)
  /\ \E s \in Choice(b) : slot' = [slot EXCEPT ![b] = s]
  /\ silent' = [silent EXCEPT ![b] = 0]
  /\ overflow' = overflow \ {b}
  /\ changed' = TRUE
  /\ UNCHANGED <<heldSlot, heldFor>>

\* Mutant of HeardGivenFreeSlot: an owner that is heard is assigned a slot again.
HeardGivenSlotAgain(b, f) ==
  /\ Counted(b, f)
  /\ Entitled(b, f)
  /\ \E s \in Choice(b) : slot' = [slot EXCEPT ![b] = s]
  /\ silent' = [silent EXCEPT ![b] = 0]
  /\ heldSlot' = [heldSlot EXCEPT ![b] = NoSlot]
  /\ heldFor' = [heldFor EXCEPT ![b] = 0]
  /\ overflow' = overflow \ {b}
  /\ changed' = TRUE

HeardGivenFreeSlot(b, f) ==
  /\ Counted(b, f)
  /\ slot[b] = NoSlot
  /\ Entitled(b, f)
  /\ \E s \in Choice(b) : slot' = [slot EXCEPT ![b] = s]
  /\ silent' = [silent EXCEPT ![b] = 0]
  /\ heldSlot' = [heldSlot EXCEPT ![b] = NoSlot]
  /\ heldFor' = [heldFor EXCEPT ![b] = 0]
  /\ overflow' = overflow \ {b}
  /\ changed' = TRUE

\* Mutant of Victims: a racing boat may be robbed too.
AnyOwner(b) == Owners

\* Mutant of Victims: only a boat that has fallen silent may be robbed.
SilentVictims(b) == {v \in Owners : ~Racing(v) /\ silent[v] > 0}

(* ... else, for a racing boat, the slot of the longest silent owner that  *)
(* is not racing (sweeps run each second, so two owners silent for longer  *)
(* than Stale are as good as never compared) ...                           *)
Victims(b)       == {v \in Owners : ~Racing(v)}
LongestSilent(b) == {v \in Victims(b) : \A w \in Victims(b) : silent[w] <= silent[v]}

HeardTakingOver(b, f) ==
  /\ Counted(b, f)
  /\ slot[b] = NoSlot
  /\ Entitled(b, f)
  /\ Taken = Slots
  /\ RacingAfter(b, f) # NotRacing
  /\ \E v \in LongestSilent(b) :
       /\ slot' = [slot EXCEPT ![v] = NoSlot, ![b] = slot[v]]
       /\ silent' = [silent EXCEPT ![v] = 0, ![b] = 0]
       /\ heldSlot' = [heldSlot EXCEPT ![v] = slot[v], ![b] = NoSlot]
       /\ heldFor' = [heldFor EXCEPT ![v] = 0, ![b] = 0]
  /\ overflow' = overflow \ {b}
  /\ changed' = TRUE

\* ... else none: the boat is left waiting in the join slots.
HeardOverflowing(b, f) ==
  /\ Counted(b, f)
  /\ slot[b] = NoSlot
  /\ Entitled(b, f)
  /\ Taken = Slots
  /\ RacingAfter(b, f) = NotRacing \/ Victims(b) = {}
  /\ heldSlot' = [heldSlot EXCEPT ![b] = NoSlot]
  /\ heldFor' = [heldFor EXCEPT ![b] = 0]
  /\ overflow' = overflow \cup {b}
  /\ UNCHANGED <<slot, silent, changed>>

NoteHeard(b, f) ==
  /\ \/ HeardParked(b, Seen(f))
     \/ HeardEntering(b, Seen(f))
     \/ HeardOwner(b, Seen(f))
     \/ HeardUnentitled(b, Seen(f))
     \/ HeardGivenFreeSlot(b, Seen(f))
     \/ HeardTakingOver(b, Seen(f))
     \/ HeardOverflowing(b, Seen(f))
  /\ UNCHANGED practice

-------------------------------------------------------------------------------
\* The slots of the boats of S are given up, and remembered for them.
GiveUp(S) ==
  /\ slot' = [b \in Boats |-> IF b \in S THEN NoSlot ELSE slot[b]]
  /\ silent' = [b \in Boats |-> IF b \in S THEN 0 ELSE silent[b]]

\* Mutant of StaleOwners: a heartbeat is enough to keep a slot.
UnheardOwners == {b \in Owners : silent[b] > Stale /\ fixAge[b][1] > ActiveWindow}

(* sweep: boats that stopped reporting actively lose their slot, those     *)
(* waiting that have gone quiet leave the queue, and what has outlived its *)
(* time is forgotten.                                                      *)
StaleOwners == {b \in Owners : silent[b] > Stale}
Quiet       == {b \in tracked : fixAge[b][1] > ActiveWindow}

Sweep ==
  /\ GiveUp(StaleOwners)
  /\ heldSlot' = [b \in Boats |-> IF b \in StaleOwners THEN slot[b]
                                  ELSE IF heldFor[b] > Hold THEN NoSlot ELSE heldSlot[b]]
  /\ heldFor' = [b \in Boats |-> IF b \in StaleOwners \/ heldFor[b] > Hold THEN 0 ELSE heldFor[b]]
  /\ tracked' = tracked \ (Quiet \cup StaleOwners)
  /\ fixAge' = [b \in Boats |-> IF b \in Quiet \cup StaleOwners THEN NoFixes ELSE fixAge[b]]
  /\ overflow' = overflow \ Quiet
  /\ racing' = [b \in Boats |-> IF racing[b] > RacingTtl THEN NotRacing ELSE racing[b]]
  /\ zone' = [b \in Boats |-> IF zone[b].heard > ZoneTtl THEN NoZone ELSE zone[b]]
  /\ changed' = (changed \/ StaleOwners # {})
  /\ UNCHANGED practice

\* release(boatIds): all the boats when S is all of them.
Release(S) ==
  /\ GiveUp(S)
  /\ heldSlot' = [b \in Boats |-> IF b \in S \cap Owners THEN slot[b] ELSE heldSlot[b]]
  /\ heldFor' = [b \in Boats |-> IF b \in S \cap Owners THEN 0 ELSE heldFor[b]]
  /\ tracked' = tracked \ S
  /\ fixAge' = [b \in Boats |-> IF b \in S THEN NoFixes ELSE fixAge[b]]
  /\ overflow' = overflow \ S
  /\ changed' = (changed \/ S \cap Owners # {})

ReleaseSlots(S) ==
  /\ Release(S)
  /\ UNCHANGED <<practice, zoneVars>>

\* setPractice: everything the old mode knew about boats is dropped.
SetPractice ==
  /\ practice' = ~practice
  /\ zone' = [b \in Boats |-> NoZone]
  /\ racing' = [b \in Boats |-> NotRacing]
  /\ GiveUp(Boats)
  /\ heldSlot' = [b \in Boats |-> IF b \in Owners THEN slot[b] ELSE heldSlot[b]]
  /\ heldFor' = [b \in Boats |-> IF b \in Owners THEN 0 ELSE heldFor[b]]
  /\ tracked' = {}
  /\ fixAge' = [b \in Boats |-> NoFixes]
  /\ overflow' = {}
  /\ changed' = TRUE

TakeChanged ==
  /\ changed
  /\ changed' = FALSE
  /\ UNCHANGED <<practice, zoneVars, slotVars, waitVars>>

\* Time passes for everything that is remembered with a time.
Tick ==
  /\ racing' = [b \in Boats |-> IF Racing(b) THEN Older(racing[b], RacingTtl) ELSE NotRacing]
  /\ zone' = [b \in Boats |->
                IF zone[b] = NoZone THEN NoZone
                ELSE [zone[b] EXCEPT !.heard = Older(@, ZoneTtl),
                                     !.entered = IF @ < ParkDwell THEN @ + 1 ELSE @]]
  /\ silent' = [b \in Boats |-> IF slot[b] # NoSlot THEN Older(silent[b], Stale) ELSE 0]
  /\ heldFor' = [b \in Boats |-> IF heldSlot[b] # NoSlot THEN Older(heldFor[b], Hold) ELSE 0]
  /\ fixAge' = [b \in Boats |-> [i \in Frames |-> Older(fixAge[b][i], ActiveWindow)]]
  /\ UNCHANGED <<practice, slot, heldSlot, tracked, overflow, changed>>

Next ==
  \/ \E b \in Boats, f \in Fixes : NoteHeard(b, f)
  \/ Sweep
  \/ \E S \in SUBSET Boats \ {{}} : ReleaseSlots(S)
  \/ SetPractice
  \/ TakeChanged
  \/ Tick

Spec == Init /\ [][Next]_vars

\* The base sweeps every second and time does not stop; nothing makes a boat report.
FairSpec == Spec /\ WF_vars(Tick) /\ WF_vars(Sweep)

-------------------------------------------------------------------------------
(* Properties.                                                             *)

\* Every variable has its type (the shape of the Maps of the class).
TypeOK ==
  /\ practice \in BOOLEAN
  /\ zone \in [Boats -> ZoneStates]
  /\ racing \in [Boats -> NotRacing .. RacingTtl + 1]
  /\ slot \in [Boats -> Slots \cup {NoSlot}]
  /\ silent \in [Boats -> 0 .. Stale + 1]
  /\ heldSlot \in [Boats -> Slots \cup {NoSlot}]
  /\ heldFor \in [Boats -> 0 .. Hold + 1]
  /\ tracked \in SUBSET Boats
  /\ fixAge \in [Boats -> [Frames -> 0 .. ActiveWindow + 1]]
  /\ overflow \in SUBSET Boats
  /\ changed \in BOOLEAN

\* No two boats are ever assigned the same slot, however slots are freed,
\* remembered, taken over and handed out again (noteHeard, _assign, sweep).
UniqueSlots == \A b, c \in Boats : b # c /\ slot[b] = slot[c] => slot[b] = NoSlot

\* A boat parked on the start grid owns no slot, is not racing and is not
\* waiting for a slot: nothing it had before parking survives (noteHeard).
ParkedClaimsNothing ==
  \A b \in Boats : Parked(b) => /\ slot[b] = NoSlot
                                /\ ~Racing(b)
                                /\ b \notin overflow \cup tracked

\* A boat has one claim at most: it owns a slot, or is remembered with the
\* one it gave up, and only a boat without a slot waits for one. Breaking it
\* would let a boat reserve one slot while using another.
OneClaim ==
  \A b \in Owners : heldSlot[b] = NoSlot /\ b \notin overflow

\* With the course known, outside practice mode, a slot is only ever owned
\* by a boat that started from the grid and is still racing: ending its race
\* always ends its ownership first (gridOnly, racingTtlMs against staleMs).
OwnersAreRacing ==
  GridOnlyNow => \A b \in Owners : Racing(b)

\* A fleet of at most half as many boats as slots never has two boats in
\* neighbouring slots, in whatever order boats come, go and return: the
\* spread order of slotOrder survives slots that are held back.
Spread ==
  \A b, c \in Owners : slot[c] # slot[b] + 1

\* Nobody's slot ever moves: an owner keeps the very slot it has until it
\* owns none (the allocator's header: joining or leaving moves no one).
SlotsNeverMove ==
  [][\A b \in Boats : slot[b] # NoSlot => slot'[b] \in {slot[b], NoSlot}]_vars

\* A racing boat heard under way off the grid (so active this very moment) is
\* left without a slot only if every slot is owned by a racing boat.
NoRacerShutOut ==
  [][\A b \in {c \in Boats : slot'[c] = NoSlot /\ racing'[c] = 0} :
       \/ \A s \in Slots : \E c \in Boats : slot'[c] = s /\ racing'[c] # NotRacing
       \/ ~\E f \in Fixes : f.moving /\ Seen(f).place # "grid" /\ NoteHeard(b, f)]_vars

\* An owner either keeps reporting actively or loses its slot (sweep).
SilentOwnersFreed ==
  \A b \in Boats : []<>(slot[b] = NoSlot \/ silent[b] = 0)

\* The allocator implements the abstract slot table.
Assignment == INSTANCE SlotAssignment WITH started <- {b \in Boats : Racing(b)}
ImplementsAssignment == Assignment!Spec
===============================================================================
