------------------------------ MODULE SlotNetwork ------------------------------
(***************************************************************************)
(* The slot table on the air: the base broadcasts who owns which transmit  *)
(* slot, and each boat follows what it hears of it (class                  *)
(* SlotTableFollower of src/src/slotTable.js, driven by src/src/boatAgent.js*)
(* on the boat, and by the slot timer of src/src/baseStation.js and the    *)
(* supersede rule of src/src/txScheduler.js on the base).                  *)
(*                                                                         *)
(* How the base decides is SlotAssignment, which SlotAllocator implements. *)
(* A frame may be heard by any of the boats: a frame nobody hears stands   *)
(* for one lost, expired or dropped from the base's queue. Every boat and  *)
(* the base can restart at any time.                                       *)
(***************************************************************************)
EXTENDS Integers, Sequences, FiniteSets

CONSTANTS
  Boats,        \* the boats of the fleet
  Assignable,   \* the slots the base hands out: 0 .. Assignable - 1
  JoinSlots,    \* the slots after those, shared by boats that own none
  FrameSize,    \* how many boats one table frame lists (MAX_SLOT_ENTRIES)
  RevertAfter,  \* how long after its last entry an unlisted boat may give up
  RevertTables, \* and how many frames without it a boat must have heard: 3
  UnparkFixes,  \* fixes in a row outside the zone that end a stay
  Modes         \* the practice modes the base can be in

ASSUME SlotNetworkAssumption ==
  /\ Assignable \in Nat \ {0}
  /\ JoinSlots \in Nat
  /\ FrameSize \in Nat \ {0}
  /\ RevertAfter \in Nat
  /\ RevertTables \in Nat \ {0}
  /\ UnparkFixes \in Nat \ {0}
  /\ Modes \subseteq BOOLEAN

VARIABLES
  \* the base
  slot,      \* the slot each boat owns, or NoSlot
  started,   \* the boats that are racing
  practice,  \* practice mode
  changed,   \* an assignment changed since the table was last taken
  queue,     \* the table frames waiting for the base's own slot
  \* boat b
  inMode,    \* inMode[b]: b believes the base to be in practice mode
  zone,      \* zone[b]: b's own ZoneState: parked, and the fixes outside since
  parked,    \* parked[b]: b has parked itself
  layout,    \* layout[b]: b has heard a table since it started
  assigned,  \* assigned[b]: the slot a table gave b, or NoSlot
  using,     \* using[b]: the slot b transmits in, or Shared (the join slots)
  entryAge,  \* entryAge[b]: how long ago a table last listed b
  missed     \* missed[b]: frames heard since then that did not

baseVars == <<slot, started, practice, changed, queue>>
boatVars == <<inMode, zone, parked, layout, assigned, using, entryAge, missed>>
vars     == <<baseVars, boatVars>>

Table == INSTANCE SlotAssignment

NoSlot   == -1
Shared   == -2
Slots    == 0 .. Assignable - 1
NotStaying == [parked |-> FALSE, outside |-> 0]

\* Without join slots a boat that owns none transmits in the last slot.
Unassigned == IF JoinSlots > 0 THEN Shared ELSE Assignable - 1

(* The table as frames: the owners in the order of their slots, FrameSize  *)
(* to a frame, and one empty frame when nobody owns a slot.                *)
Owned    == {slot[b] : b \in Boats} \ {NoSlot}
Frame(n) == [practice |-> practice,
             entry |-> [b \in Boats |->
                          IF slot[b] # NoSlot /\ Cardinality({s \in Owned : s < slot[b]}) \div FrameSize = n - 1
                          THEN slot[b] ELSE NoSlot]]
Frames   == [n \in 1 .. (IF Owned = {} THEN 1 ELSE (Cardinality(Owned) - 1) \div FrameSize + 1) |-> Frame(n)]
FrameSet == [practice : BOOLEAN, entry : [Boats -> Slots \cup {NoSlot}]]

Init ==
  /\ Table!Init
  /\ practice \in Modes
  /\ changed = FALSE
  /\ queue = <<>>
  /\ inMode = [b \in Boats |-> FALSE]
  /\ zone = [b \in Boats |-> NotStaying]
  /\ parked = [b \in Boats |-> FALSE]
  /\ layout = [b \in Boats |-> FALSE]
  /\ assigned = [b \in Boats |-> NoSlot]
  /\ using = [b \in Boats |-> Unassigned]
  /\ entryAge = [b \in Boats |-> 0]
  /\ missed = [b \in Boats |-> 0]

-------------------------------------------------------------------------------
(* The base.                                                               *)

\* Mutant of Reassign: a slot that is only withdrawn does not count as a change.
ReassignQuietly ==
  /\ Table!Next
  /\ slot' # slot
  /\ changed' = (changed \/ \E b \in Boats : slot[b] = NoSlot /\ slot'[b] # NoSlot)
  /\ UNCHANGED <<practice, queue, boatVars>>

\* Fixes heard, sweeps and sleep commands: whatever makes the allocator reassign.
Reassign ==
  /\ Table!Next
  /\ slot' # slot
  /\ changed' = TRUE
  /\ UNCHANGED <<practice, queue, boatVars>>

SetPractice ==
  /\ practice' \in Modes \ {practice}
  /\ slot' = [b \in Boats |-> NoSlot]
  /\ started' = {}
  /\ changed' = TRUE
  /\ UNCHANGED <<queue, boatVars>>

\* Mutant of Broadcast: the frames of the table before stay in the queue.
BroadcastAfterOld ==
  /\ changed' = FALSE
  /\ queue' = queue \o SelectSeq(Frames, LAMBDA f : \A i \in DOMAIN queue : queue[i] # f)
  /\ UNCHANGED <<slot, started, practice, boatVars>>

\* Mutant of Broadcast: the table is sent when it changes, and never again.
BroadcastOnce ==
  /\ changed' = FALSE
  /\ queue' = IF changed THEN Frames ELSE queue
  /\ UNCHANGED <<slot, started, practice, boatVars>>

\* The frames of the table that do not wait already.
Absent == {n \in DOMAIN Frames : \A i \in DOMAIN queue : queue[i] # Frames[n]}

(* The slot timer, when the table changed or its interval is up. A frame   *)
(* of an older version still waiting is dropped, and one that is waiting   *)
(* already is not queued twice.                                            *)
Broadcast ==
  /\ changed' = FALSE
  /\ IF changed THEN queue' = Frames
     ELSE \E g \in [1 .. Cardinality(Absent) -> Absent] :
            /\ \A i, j \in DOMAIN g : i < j => g[i] < g[j]
            /\ queue' = queue \o [i \in DOMAIN g |-> Frames[g[i]]]
  /\ UNCHANGED <<slot, started, practice, boatVars>>

BaseRestarts ==
  /\ slot' = [b \in Boats |-> NoSlot]
  /\ started' \in SUBSET started
  /\ changed' = FALSE
  /\ queue' = <<>>
  /\ UNCHANGED <<practice, boatVars>>

-------------------------------------------------------------------------------
(* A boat.                                                                 *)

\* onTable, with the onPractice callback of boatAgent.js it makes.
StaysParked(b, f) == parked[b] /\ ~(f.practice /\ ~inMode[b])
\* Mutant of Entry: a parked boat takes the slot a table gives it.
EntryAlways(b, f) == f.entry[b]

Entry(b, f)       == IF StaysParked(b, f) THEN NoSlot ELSE f.entry[b]
Unlisted(b, f)    == Entry(b, f) = NoSlot /\ assigned[b] # NoSlot /\ ~StaysParked(b, f)
Missed(b)         == IF missed[b] < RevertTables THEN missed[b] + 1 ELSE missed[b]
GivesUp(b, f)     == Unlisted(b, f) /\ entryAge[b] >= RevertAfter /\ Missed(b) >= RevertTables

AssignedAfter(b, f) == IF Entry(b, f) # NoSlot THEN Entry(b, f)
                       ELSE IF GivesUp(b, f) THEN NoSlot ELSE assigned[b]

\* Mutant of UsingAfter: a boat that is unlisted does not leave its slot.
UsingStill(b, f) == IF Entry(b, f) # NoSlot THEN Entry(b, f) ELSE using[b]

UsingAfter(b, f)    == IF Entry(b, f) # NoSlot THEN Entry(b, f)
                       ELSE IF AssignedAfter(b, f) = NoSlot /\ JoinSlots > 0 THEN Shared ELSE using[b]

\* The head of the queue goes out, and the boats of S hear it.
Transmit(S) ==
  LET f == Head(queue)
  IN  /\ queue # <<>>
      /\ queue' = Tail(queue)
      /\ inMode' = [b \in Boats |-> IF b \in S THEN f.practice ELSE inMode[b]]
      /\ parked' = [b \in Boats |-> IF b \in S THEN StaysParked(b, f) ELSE parked[b]]
      /\ layout' = [b \in Boats |-> layout[b] \/ b \in S]
      /\ assigned' = [b \in Boats |-> IF b \in S THEN AssignedAfter(b, f) ELSE assigned[b]]
      /\ using' = [b \in Boats |-> IF b \in S THEN UsingAfter(b, f) ELSE using[b]]
      /\ entryAge' = [b \in Boats |-> IF b \in S /\ Entry(b, f) # NoSlot THEN 0 ELSE entryAge[b]]
      /\ missed' = [b \in Boats |->
                      IF b \in S /\ Entry(b, f) # NoSlot THEN 0
                      ELSE IF b \in S /\ Unlisted(b, f) THEN Missed(b)
                      ELSE missed[b]]
      /\ UNCHANGED <<slot, started, practice, changed, zone>>

\* ZoneState.update, as far as the boat uses it.
ZoneAfter(b, inside, enough) ==
  LET out == zone[b].outside + 1
  IN  IF inside THEN [parked |-> zone[b].parked \/ enough, outside |-> 0]
      ELSE IF zone[b].parked /\ out < UnparkFixes THEN [parked |-> TRUE, outside |-> out]
      ELSE NotStaying

(* updateParked: a fix of b's own GPS, inside the start grid zone or not,  *)
(* and by now enough of a stay there to park on (stopped, or the dwell up).*)
BoatFix(b, inside, enough) ==
  LET now == ZoneAfter(b, inside, enough)
  IN  /\ ~inMode[b]
      /\ zone' = [zone EXCEPT ![b] = now]
      /\ parked' = [parked EXCEPT ![b] = now.parked]
      /\ IF now.parked /\ ~parked[b] /\ layout[b] /\ JoinSlots > 0
         THEN /\ assigned' = [assigned EXCEPT ![b] = NoSlot]
              /\ using' = [using EXCEPT ![b] = Shared]
         ELSE UNCHANGED <<assigned, using>>
      /\ UNCHANGED <<baseVars, inMode, layout, entryAge, missed>>

BoatRestarts(b) ==
  /\ inMode' = [inMode EXCEPT ![b] = FALSE]
  /\ zone' = [zone EXCEPT ![b] = NotStaying]
  /\ parked' = [parked EXCEPT ![b] = FALSE]
  /\ layout' = [layout EXCEPT ![b] = FALSE]
  /\ assigned' = [assigned EXCEPT ![b] = NoSlot]
  /\ using' = [using EXCEPT ![b] = Unassigned]
  /\ entryAge' = [entryAge EXCEPT ![b] = 0]
  /\ missed' = [missed EXCEPT ![b] = 0]
  /\ UNCHANGED baseVars

Tick ==
  /\ entryAge' = [b \in Boats |-> IF assigned[b] # NoSlot /\ entryAge[b] < RevertAfter
                                  THEN entryAge[b] + 1 ELSE entryAge[b]]
  /\ UNCHANGED <<baseVars, inMode, zone, parked, layout, assigned, using, missed>>

Next ==
  \/ Reassign
  \/ SetPractice
  \/ Broadcast
  \/ BaseRestarts
  \/ \E S \in SUBSET Boats : Transmit(S)
  \/ \E b \in Boats, inside, enough \in BOOLEAN : BoatFix(b, inside, enough)
  \/ \E b \in Boats : BoatRestarts(b)
  \/ Tick

Spec == Init /\ [][Next]_vars

-------------------------------------------------------------------------------
(* Fairness: the slot timer and the base's queue keep going, time passes,  *)
(* and no boat is out of range for ever, for the frames that list it or    *)
(* for those that do not.                                                  *)
Hears(b, listed) ==
  \E S \in SUBSET Boats : b \in S /\ Transmit(S) /\ (Head(queue).entry[b] # NoSlot) = listed

Fairness ==
  /\ WF_vars(Broadcast)
  /\ WF_vars(\E S \in SUBSET Boats : Transmit(S))
  /\ WF_vars(Tick)
  /\ \A b \in Boats, listed \in BOOLEAN : SF_vars(Hears(b, listed))

FairSpec == Spec /\ Fairness

-------------------------------------------------------------------------------
(* Properties.                                                             *)

\* Every variable has its type.
TypeOK ==
  /\ slot \in [Boats -> Slots \cup {NoSlot}]
  /\ started \in SUBSET Boats
  /\ practice \in BOOLEAN
  /\ changed \in BOOLEAN
  /\ queue \in Seq(FrameSet)
  /\ inMode \in [Boats -> BOOLEAN]
  /\ zone \in [Boats -> [parked : BOOLEAN, outside : 0 .. UnparkFixes - 1]]
  /\ parked \in [Boats -> BOOLEAN]
  /\ layout \in [Boats -> BOOLEAN]
  /\ assigned \in [Boats -> Slots \cup {NoSlot}]
  /\ using \in [Boats -> Slots \cup {NoSlot, Shared}]
  /\ entryAge \in [Boats -> 0 .. RevertAfter]
  /\ missed \in [Boats -> 0 .. RevertTables]

\* A boat transmits in a slot of its own only while a table has given it that
\* slot and it is not parked: on the grid it is in the shared join slots, as
\* "its old slot is being freed by the base" (SlotTableFollower.setParked).
\* (The type invariant is checked with it.)
OwnSlotOnlyWhenAssigned ==
  /\ TypeOK
  /\ \A b \in Boats : /\ using[b] # Shared => using[b] = assigned[b]
                      /\ parked[b] => using[b] = Shared

\* The base never sends a table that is out of date: once the slot timer has
\* taken a change, every frame waiting lists its boats as they are assigned,
\* and a boat that moves to a slot of its own moves to the one it owns.
TablesAreCurrent ==
  ~changed => \A i \in DOMAIN queue :
                /\ queue[i].practice = practice
                /\ \A b \in Boats : queue[i].entry[b] \in {slot[b], NoSlot}

MovesToOwnedSlot ==
  [][\A b \in Boats : ~changed /\ using'[b] \notin {using[b], Shared} => using'[b] = slot[b]]_vars

\* Once the base stops reassigning and no boat is parked or restarts, every
\* boat comes to transmit in exactly the slot it owns, whatever it missed.
Settled ==
  /\ UNCHANGED <<slot, practice>>
  /\ \A b \in Boats : ~parked'[b] /\ (layout[b] => layout'[b])

FollowersConverge ==
  <>[][Settled]_vars => <>[](\A b \in Boats : using[b] = IF slot[b] = NoSlot THEN Shared ELSE slot[b])

\* slotTable.js:560 A boat the base no longer lists goes back to the join slots
\* "so it can't collide with whoever has it now": nobody stays for ever in a
\* slot that is somebody else's.
Squats(b) == \E c \in Boats \ {b} : using[b] = slot[c] /\ slot[c] # NoSlot

SquattersLeave == \A b \in Boats : Squats(b) ~> ~Squats(b)

\* A boat parks itself only on the grid: it is a fix inside the start grid zone
\* that parks it, never one taken elsewhere (README: leaving practice mode
\* "forgets who was parked").
ParksOnTheGrid ==
  [][\A b \in Boats : ~parked[b] /\ parked'[b] => zone'[b].outside = 0]_vars
===============================================================================
