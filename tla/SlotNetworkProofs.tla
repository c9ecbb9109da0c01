--------------------------- MODULE SlotNetworkProofs ---------------------------
(***************************************************************************)
(* Theorems about SlotNetwork for any fleet, number of slots and size of a *)
(* table frame, as long as there are join slots: the base sends no table   *)
(* that is out of date, and a boat transmits in a slot of its own only if  *)
(* the base gave it that slot.                                             *)
(***************************************************************************)
EXTENDS SlotNetwork, FiniteSetTheorems, TLAPS

\* What a table frame says of boat b is what the base has assigned, or nothing.
LEMMA FrameIsTyped ==
  ASSUME slot \in [Boats -> Slots \cup {NoSlot}], practice \in BOOLEAN, NEW n
  PROVE  /\ Frame(n) \in FrameSet
         /\ Frame(n).practice = practice
         /\ \A b \in Boats : Frame(n).entry[b] \in {slot[b], NoSlot}
  BY DEF Frame, FrameSet

\* The table is a sequence of such frames.
LEMMA TableIsTyped ==
  ASSUME slot \in [Boats -> Slots \cup {NoSlot}], practice \in BOOLEAN
  PROVE  /\ Frames \in Seq(FrameSet)
         /\ \A n \in DOMAIN Frames : Frames[n] = Frame(n)
<1>1. IsFiniteSet(0 .. Assignable - 1)
  BY SlotNetworkAssumption, FS_Interval DEF SlotNetworkAssumption
<1>2. Owned \subseteq 0 .. Assignable - 1
  BY DEF Owned, Slots
<1>3. Cardinality(Owned) \in Nat
  BY <1>1, <1>2, FS_Subset, FS_CardinalityType
<1>4. Owned # {} => Cardinality(Owned) # 0
  BY <1>1, <1>2, FS_Subset, FS_EmptySet
<1> DEFINE size == IF Owned = {} THEN 1 ELSE (Cardinality(Owned) - 1) \div FrameSize + 1
<1>5. size \in Nat
  BY <1>3, <1>4, SlotNetworkAssumption DEF SlotNetworkAssumption
<1>6. Frames = [n \in 1 .. size |-> Frame(n)]
  BY Zenon DEF Frames
<1> HIDE DEF size
<1>7. \A n \in 1 .. size : Frame(n) \in FrameSet
  BY FrameIsTyped
<1> QED BY <1>5, <1>6, <1>7

\* A table queued behind what waits already, or instead of it, is typed, and each of its
\* frames is one that waited or one of the table.
LEMMA BroadcastQueue ==
  ASSUME slot \in [Boats -> Slots \cup {NoSlot}], practice \in BOOLEAN, queue \in Seq(FrameSet), Broadcast
  PROVE  /\ queue' \in Seq(FrameSet)
         /\ \A i \in DOMAIN queue' :
              \/ ~changed /\ \E j \in DOMAIN queue : queue'[i] = queue[j]
              \/ \E n : queue'[i] = Frame(n)
<1>1. CASE changed
  BY <1>1, TableIsTyped DEF Broadcast
<1>2. CASE ~changed
  <2>1. PICK g \in [1 .. Cardinality(Absent) -> Absent] : queue' = queue \o [i \in DOMAIN g |-> Frames[g[i]]]
    BY <1>2 DEF Broadcast
  <2> DEFINE new == [i \in DOMAIN g |-> Frames[g[i]]]
  <2>2. Absent \subseteq DOMAIN Frames
    BY DEF Absent
  <2>3. IsFiniteSet(DOMAIN Frames)
    BY TableIsTyped, FS_Interval
  <2>4. Cardinality(Absent) \in Nat
    BY <2>2, <2>3, FS_Subset, FS_CardinalityType
  <2>5. \A i \in DOMAIN g : g[i] \in DOMAIN Frames
    BY <2>2
  <2>6. new \in Seq(FrameSet) /\ \A i \in DOMAIN new : new[i] = Frame(g[i])
    <3>1. \A i \in DOMAIN g : Frames[g[i]] = Frame(g[i])
      BY <2>5, TableIsTyped
    <3>2. \A i \in DOMAIN g : Frames[g[i]] \in FrameSet
      BY <3>1, FrameIsTyped
    <3>3. DOMAIN g = 1 .. Cardinality(Absent)
      OBVIOUS
    <3> QED BY <2>4, <3>1, <3>2, <3>3
  <2> HIDE DEF new
  <2>7. queue' = queue \o new
    BY <2>1 DEF new
  <2>8. queue' \in Seq(FrameSet)
    BY <2>6, <2>7
  <2>9. ASSUME NEW i \in DOMAIN queue'
        PROVE  (\E j \in DOMAIN queue : queue'[i] = queue[j]) \/ \E n : queue'[i] = Frame(n)
    <3>1. CASE i \in DOMAIN queue
      BY <3>1, <2>6, <2>7
    <3>2. CASE i \notin DOMAIN queue
      <4>1. i - Len(queue) \in DOMAIN new /\ queue'[i] = new[i - Len(queue)]
        BY <3>2, <2>6, <2>7
      <4> QED BY <4>1, <2>6
    <3> QED BY <3>1, <3>2
  <2> QED BY <1>2, <2>8, <2>9
<1> QED BY <1>1, <1>2

-----------------------------------------------------------------------------
\* What a step of the base may do to the slots stays within their type.
LEMMA SlotsTyped ==
  ASSUME slot \in [Boats -> Slots \cup {NoSlot}], Table!Next
  PROVE  slot' \in [Boats -> Slots \cup {NoSlot}] /\ started' \in SUBSET Boats
  BY DEF Table!Next, Table!Give, Table!Withdraw, Table!HandOver, Table!Slots, Table!NoSlot, Table!Taken,
         Slots, NoSlot

LEMMA NetInit == Init => TypeOK /\ TablesAreCurrent
<1> SUFFICES ASSUME Init PROVE TypeOK /\ TablesAreCurrent
  OBVIOUS
<1>1. slot \in [Boats -> Slots \cup {NoSlot}] /\ started \in SUBSET Boats /\ queue = <<>>
  BY DEF Init, Table!Init, Table!NoSlot, NoSlot
<1>2. practice \in BOOLEAN /\ changed \in BOOLEAN
  BY SlotNetworkAssumption DEF Init, SlotNetworkAssumption
<1>3. /\ inMode \in [Boats -> BOOLEAN] /\ parked \in [Boats -> BOOLEAN] /\ layout \in [Boats -> BOOLEAN]
      /\ zone \in [Boats -> [parked : BOOLEAN, outside : 0 .. UnparkFixes - 1]]
      /\ assigned \in [Boats -> Slots \cup {NoSlot}] /\ using \in [Boats -> Slots \cup {NoSlot, Shared}]
      /\ entryAge \in [Boats -> 0 .. RevertAfter] /\ missed \in [Boats -> 0 .. RevertTables]
  BY SlotNetworkAssumption DEF Init, SlotNetworkAssumption, NotStaying, Unassigned, Slots
<1> QED BY <1>1, <1>2, <1>3 DEF TypeOK, TablesAreCurrent

BoatTypes ==
  /\ inMode \in [Boats -> BOOLEAN]
  /\ zone \in [Boats -> [parked : BOOLEAN, outside : 0 .. UnparkFixes - 1]]
  /\ parked \in [Boats -> BOOLEAN]
  /\ layout \in [Boats -> BOOLEAN]
  /\ assigned \in [Boats -> Slots \cup {NoSlot}]
  /\ using \in [Boats -> Slots \cup {NoSlot, Shared}]
  /\ entryAge \in [Boats -> 0 .. RevertAfter]
  /\ missed \in [Boats -> 0 .. RevertTables]

\* The base's half of the types, and what waits in its queue.
BaseInv ==
  /\ slot \in [Boats -> Slots \cup {NoSlot}]
  /\ started \in SUBSET Boats
  /\ practice \in BOOLEAN
  /\ changed \in BOOLEAN
  /\ queue \in Seq(FrameSet)
  /\ TablesAreCurrent

LEMMA BaseStep ==
  ASSUME BaseInv, [Next]_vars
  PROVE  BaseInv'
<1> USE DEF BaseInv
<1>1. CASE UNCHANGED vars
  BY <1>1 DEF vars, baseVars, TablesAreCurrent
<1>2. CASE Reassign
  <2>1. /\ Table!Next /\ changed' = TRUE /\ UNCHANGED <<practice, queue>>
    BY <1>2 DEF Reassign
  <2> QED BY <2>1, SlotsTyped DEF TablesAreCurrent
<1>3. CASE SetPractice
  <2>1. /\ practice' \in BOOLEAN /\ slot' = [b \in Boats |-> NoSlot] /\ started' = {} /\ changed' = TRUE
        /\ UNCHANGED queue
    BY <1>3, SlotNetworkAssumption DEF SetPractice, SlotNetworkAssumption
  <2> QED BY <2>1 DEF TablesAreCurrent
<1>4. CASE Broadcast
  <2>1. changed' = FALSE /\ UNCHANGED <<slot, started, practice>>
    BY <1>4 DEF Broadcast
  <2>2. queue' \in Seq(FrameSet)
    BY <1>4, BroadcastQueue
  <2>3. ASSUME NEW i \in DOMAIN queue'
        PROVE  /\ queue'[i].practice = practice
               /\ \A b \in Boats : queue'[i].entry[b] \in {slot[b], NoSlot}
    <3>1. CASE ~changed /\ \E j \in DOMAIN queue : queue'[i] = queue[j]
      BY <3>1 DEF TablesAreCurrent
    <3>2. CASE \E n : queue'[i] = Frame(n)
      BY <3>2, FrameIsTyped
    <3> QED BY <1>4, <2>3, <3>1, <3>2, BroadcastQueue
  <2> QED BY <2>1, <2>2, <2>3 DEF TablesAreCurrent
<1>5. CASE BaseRestarts
  <2>1. /\ slot' = [b \in Boats |-> NoSlot] /\ started' \in SUBSET started /\ changed' = FALSE /\ queue' = <<>>
        /\ UNCHANGED practice
    BY <1>5 DEF BaseRestarts
  <2>2. started' \in SUBSET Boats
    BY <2>1
  <2>3. queue' \in Seq(FrameSet) /\ DOMAIN queue' = {}
    BY <2>1
  <2> QED BY <2>1, <2>2, <2>3 DEF TablesAreCurrent
<1>6. ASSUME NEW S \in SUBSET Boats, Transmit(S) PROVE BaseInv'
  <2>1. queue # <<>> /\ queue' = Tail(queue) /\ UNCHANGED <<slot, started, practice, changed>>
    BY <1>6 DEF Transmit
  <2>2. queue' \in Seq(FrameSet) /\ \A i \in DOMAIN queue' : i + 1 \in DOMAIN queue /\ queue'[i] = queue[i + 1]
    BY <2>1
  <2> QED BY <2>1, <2>2 DEF TablesAreCurrent
<1>7. ASSUME NEW b \in Boats, NEW inside \in BOOLEAN, NEW enough \in BOOLEAN, BoatFix(b, inside, enough)
      PROVE  BaseInv'
  BY <1>7 DEF BoatFix, baseVars, TablesAreCurrent
<1>8. ASSUME NEW b \in Boats, BoatRestarts(b) PROVE BaseInv'
  BY <1>8 DEF BoatRestarts, baseVars, TablesAreCurrent
<1>9. CASE Tick
  BY <1>9 DEF Tick, baseVars, TablesAreCurrent
<1> QED
  BY <1>1, <1>2, <1>3, <1>4, <1>5, <1>6, <1>7, <1>8, <1>9 DEF Next

\* A boat that has heard no table since it started is in a join slot; one that transmits in a slot
\* of its own has it from a table; one that is parked does not.
Followed ==
  \A b \in Boats : /\ ~layout[b] => assigned[b] = NoSlot /\ using[b] = Shared
                   /\ using[b] # Shared => using[b] = assigned[b]
                   /\ parked[b] => using[b] = Shared

BoatInv == BoatTypes /\ Followed

\* What a boat makes of a frame.
LEMMA EntryStep ==
  ASSUME JoinSlots # 0, BoatInv, NEW f \in FrameSet, NEW b \in Boats
  PROVE  /\ AssignedAfter(b, f) \in Slots \cup {NoSlot}
         /\ UsingAfter(b, f) \in Slots \cup {NoSlot, Shared}
         /\ UsingAfter(b, f) # Shared => UsingAfter(b, f) = AssignedAfter(b, f)
         /\ StaysParked(b, f) \in BOOLEAN
         /\ StaysParked(b, f) => UsingAfter(b, f) = Shared
         /\ Missed(b) \in 0 .. RevertTables
         /\ UsingAfter(b, f) \notin {using[b], Shared} => UsingAfter(b, f) = f.entry[b]
<1> USE DEF BoatInv, BoatTypes, Followed
<1>1. f.entry[b] \in Slots \cup {NoSlot} /\ Entry(b, f) \in {f.entry[b], NoSlot}
  BY DEF FrameSet, Entry
<1>2. AssignedAfter(b, f) \in Slots \cup {NoSlot}
  BY <1>1 DEF AssignedAfter
<1>3. UsingAfter(b, f) \in Slots \cup {NoSlot, Shared}
  BY <1>1 DEF UsingAfter
<1>4. UsingAfter(b, f) # Shared => UsingAfter(b, f) = AssignedAfter(b, f)
  BY SlotNetworkAssumption DEF UsingAfter, AssignedAfter, SlotNetworkAssumption
<1>5. StaysParked(b, f) \in BOOLEAN /\ (StaysParked(b, f) => UsingAfter(b, f) = Shared)
  BY DEF StaysParked, UsingAfter, Entry
<1>6. Missed(b) \in 0 .. RevertTables
  BY SlotNetworkAssumption DEF Missed, SlotNetworkAssumption
<1>7. UsingAfter(b, f) \notin {using[b], Shared} => UsingAfter(b, f) = f.entry[b]
  BY <1>1 DEF UsingAfter
<1> QED BY <1>2, <1>3, <1>4, <1>5, <1>6, <1>7

LEMMA BoatInit == JoinSlots # 0 /\ Init => BoatInv
<1> SUFFICES ASSUME JoinSlots # 0, Init PROVE BoatInv
  OBVIOUS
<1>1. BoatTypes
  BY NetInit DEF BoatTypes, TypeOK
<1>2. Followed
  BY SlotNetworkAssumption DEF Init, Followed, Unassigned, SlotNetworkAssumption
<1> QED BY <1>1, <1>2 DEF BoatInv

LEMMA BoatStep ==
  ASSUME JoinSlots # 0, BaseInv, BoatInv, [Next]_vars
  PROVE  BoatInv'
<1> USE DEF BoatInv, BoatTypes, Followed
<1>1. CASE UNCHANGED vars
  BY <1>1 DEF vars, boatVars
<1>2. CASE Reassign \/ SetPractice \/ Broadcast \/ BaseRestarts
  <2>1. UNCHANGED boatVars
    BY <1>2 DEF Reassign, SetPractice, Broadcast, BaseRestarts
  <2> QED BY <2>1 DEF boatVars
<1>3. ASSUME NEW S \in SUBSET Boats, Transmit(S) PROVE BoatInv'
  <2> DEFINE f == Head(queue)
  <2>1. f \in FrameSet /\ f.practice \in BOOLEAN
    <3>1. queue # <<>> /\ queue \in Seq(FrameSet)
      BY <1>3 DEF Transmit, BaseInv
    <3>2. f \in FrameSet
      BY <3>1
    <3> HIDE DEF f
    <3> QED BY <3>2 DEF FrameSet
  <2>2. /\ inMode' = [b \in Boats |-> IF b \in S THEN f.practice ELSE inMode[b]]
        /\ parked' = [b \in Boats |-> IF b \in S THEN StaysParked(b, f) ELSE parked[b]]
        /\ layout' = [b \in Boats |-> layout[b] \/ b \in S]
        /\ assigned' = [b \in Boats |-> IF b \in S THEN AssignedAfter(b, f) ELSE assigned[b]]
        /\ using' = [b \in Boats |-> IF b \in S THEN UsingAfter(b, f) ELSE using[b]]
        /\ entryAge' = [b \in Boats |-> IF b \in S /\ Entry(b, f) # NoSlot THEN 0 ELSE entryAge[b]]
        /\ missed' = [b \in Boats |->
                        IF b \in S /\ Entry(b, f) # NoSlot THEN 0
                        ELSE IF b \in S /\ Unlisted(b, f) THEN Missed(b)
                        ELSE missed[b]]
        /\ UNCHANGED zone
    BY <1>3 DEF Transmit
  <2> HIDE DEF f
  <2>3. \A b \in Boats : /\ AssignedAfter(b, f) \in Slots \cup {NoSlot}
                         /\ UsingAfter(b, f) \in Slots \cup {NoSlot, Shared}
                         /\ UsingAfter(b, f) # Shared => UsingAfter(b, f) = AssignedAfter(b, f)
                         /\ StaysParked(b, f) \in BOOLEAN
                         /\ StaysParked(b, f) => UsingAfter(b, f) = Shared
                         /\ Missed(b) \in 0 .. RevertTables
    BY <2>1, EntryStep
  <2>4. inMode' \in [Boats -> BOOLEAN] /\ parked' \in [Boats -> BOOLEAN] /\ layout' \in [Boats -> BOOLEAN]
    BY <2>1, <2>2, <2>3
  <2>5. assigned' \in [Boats -> Slots \cup {NoSlot}] /\ using' \in [Boats -> Slots \cup {NoSlot, Shared}]
    BY <2>2, <2>3
  <2>6. entryAge' \in [Boats -> 0 .. RevertAfter] /\ missed' \in [Boats -> 0 .. RevertTables]
    BY <2>2, <2>3, SlotNetworkAssumption DEF SlotNetworkAssumption
  <2>7. Followed'
    <3> SUFFICES ASSUME NEW b \in Boats
                 PROVE  /\ ~layout'[b] => assigned'[b] = NoSlot /\ using'[b] = Shared
                        /\ using'[b] # Shared => using'[b] = assigned'[b]
                        /\ parked'[b] => using'[b] = Shared
      OBVIOUS
    <3>1. CASE b \in S
      BY <2>2, <2>3, <3>1
    <3>2. CASE b \notin S
      BY <2>2, <3>2
    <3> QED BY <3>1, <3>2
  <2> QED BY <2>2, <2>4, <2>5, <2>6, <2>7
<1>4. ASSUME NEW b \in Boats, NEW inside \in BOOLEAN, NEW enough \in BOOLEAN, BoatFix(b, inside, enough)
      PROVE  BoatInv'
  <2> DEFINE now == ZoneAfter(b, inside, enough)
  <2>1. now \in [parked : BOOLEAN, outside : 0 .. UnparkFixes - 1]
    BY SlotNetworkAssumption DEF ZoneAfter, NotStaying, SlotNetworkAssumption
  <2>2. /\ zone' = [zone EXCEPT ![b] = now]
        /\ parked' = [parked EXCEPT ![b] = now.parked]
        /\ IF now.parked /\ ~parked[b] /\ layout[b] /\ JoinSlots > 0
           THEN /\ assigned' = [assigned EXCEPT ![b] = NoSlot]
                /\ using' = [using EXCEPT ![b] = Shared]
           ELSE UNCHANGED <<assigned, using>>
        /\ UNCHANGED <<inMode, layout, entryAge, missed>>
    BY <1>4 DEF BoatFix
  <2> HIDE DEF now
  <2>3. zone' \in [Boats -> [parked : BOOLEAN, outside : 0 .. UnparkFixes - 1]] /\ parked' \in [Boats -> BOOLEAN]
    BY <2>1, <2>2
  <2>4. CASE now.parked /\ ~parked[b] /\ layout[b] /\ JoinSlots > 0
    BY <2>2, <2>3, <2>4
  <2>5. CASE ~(now.parked /\ ~parked[b] /\ layout[b] /\ JoinSlots > 0)
    \* It was parked before, or is in a join slot since it has heard no table.
    <3>1. now.parked => using[b] = Shared
      BY <2>5, SlotNetworkAssumption DEF SlotNetworkAssumption
    <3>2. UNCHANGED <<assigned, using>>
      BY <2>2, <2>5
    <3>3. \A c \in Boats : parked'[c] => using[c] = Shared
      BY <2>2, <3>1
    <3> QED BY <2>2, <2>3, <3>2, <3>3
  <2> QED BY <2>4, <2>5
<1>5. ASSUME NEW b \in Boats, BoatRestarts(b) PROVE BoatInv'
  <2>1. Unassigned = Shared
    BY SlotNetworkAssumption DEF Unassigned, SlotNetworkAssumption
  <2>2. NotStaying \in [parked : BOOLEAN, outside : 0 .. UnparkFixes - 1]
    BY SlotNetworkAssumption DEF NotStaying, SlotNetworkAssumption
  <2> QED BY <1>5, <2>1, <2>2, SlotNetworkAssumption DEF BoatRestarts, SlotNetworkAssumption
<1>6. CASE Tick
  <2>1. entryAge' \in [Boats -> 0 .. RevertAfter]
    BY <1>6, SlotNetworkAssumption DEF Tick, SlotNetworkAssumption
  <2> QED BY <1>6, <2>1 DEF Tick
<1> QED
  BY <1>1, <1>2, <1>3, <1>4, <1>5, <1>6 DEF Next

-----------------------------------------------------------------------------
LEMMA BaseInit == Init => BaseInv
  BY NetInit DEF BaseInv, TypeOK

\* The base's queue of frames holds no table that is out of date, whatever boats hear or miss, with
\* any sizes of fleet and frame (the slot timer of baseStation.js and the supersede rule of
\* txScheduler.js).
THEOREM NoStaleTable == Spec => []TablesAreCurrent
<1>1. BaseInv => TablesAreCurrent
  BY DEF BaseInv
<1> QED
  BY <1>1, BaseInit, BaseStep, PTL DEF Spec

\* A boat transmits in a slot of its own only while a table has given it that slot and it is not
\* parked (SlotTableFollower of slotTable.js), if there are join slots to go back to.
THEOREM OwnSlotIsGiven ==
  ASSUME JoinSlots # 0
  PROVE  Spec => []OwnSlotOnlyWhenAssigned
<1>1. BaseInv /\ BoatInv => OwnSlotOnlyWhenAssigned
  BY DEF BaseInv, BoatInv, BoatTypes, Followed, OwnSlotOnlyWhenAssigned, TypeOK
<1> QED
  BY <1>1, BaseInit, BaseStep, BoatInit, BoatStep, PTL DEF Spec

\* A boat that moves to a slot of its own moves to the one it owns at that moment, once the slot
\* timer has taken the last change: no frame it missed, and no restart, leads it elsewhere.
THEOREM OnlyToOwnedSlots ==
  ASSUME JoinSlots # 0
  PROVE  Spec => MovesToOwnedSlot
<1> DEFINE Moves == \A b \in Boats : ~changed /\ using'[b] \notin {using[b], Shared} => using'[b] = slot[b]
<1>1. ASSUME BaseInv, BoatInv, [Next]_vars
      PROVE  [Moves]_vars
  <2> SUFFICES ASSUME NEW b \in Boats, ~changed /\ using'[b] \notin {using[b], Shared}
               PROVE  using'[b] = slot[b]
    OBVIOUS
  <2>0. ~changed /\ using'[b] \notin {using[b], Shared}
    OBVIOUS
  <2>1. CASE UNCHANGED using
    BY <2>0, <2>1
  <2>2. ASSUME NEW S \in SUBSET Boats, Transmit(S) PROVE using'[b] = slot[b]
    <3>1. queue # <<>> /\ using'[b] = IF b \in S THEN UsingAfter(b, Head(queue)) ELSE using[b]
      BY <2>2 DEF Transmit
    <3>2. Head(queue) \in FrameSet /\ Head(queue).entry[b] \in {slot[b], NoSlot}
      <4>1. Head(queue) = queue[1] /\ 1 \in DOMAIN queue /\ Head(queue) \in FrameSet
        BY <1>1, <3>1 DEF BaseInv
      <4> QED BY <1>1, <2>0, <4>1 DEF BaseInv, TablesAreCurrent
    <3>3. using'[b] = Head(queue).entry[b]
      BY <1>1, <2>0, <3>1, <3>2, EntryStep
    <3>4. using'[b] # NoSlot
      BY <1>1, <2>0, <3>1, <3>2, <3>3 DEF UsingAfter, AssignedAfter, Entry, BoatInv, Followed
    <3> QED BY <3>2, <3>3, <3>4
  <2>3. ASSUME NEW c \in Boats, NEW inside \in BOOLEAN, NEW enough \in BOOLEAN, BoatFix(c, inside, enough)
        PROVE  using'[b] = slot[b]
    <3>1. using'[b] \in {using[b], Shared}
      <4>1. using \in [Boats -> Slots \cup {NoSlot, Shared}]
        BY <1>1 DEF BoatInv, BoatTypes
      <4>2. UNCHANGED using \/ using' = [using EXCEPT ![c] = Shared]
        BY <2>3 DEF BoatFix
      <4> QED BY <4>1, <4>2
    <3> QED BY <3>1
  <2>4. ASSUME NEW c \in Boats, BoatRestarts(c) PROVE using'[b] = slot[b]
    <3>1. using'[b] \in {using[b], Unassigned} /\ Unassigned = Shared
      BY <1>1, <2>4, SlotNetworkAssumption DEF BoatRestarts, BoatInv, BoatTypes, Unassigned, SlotNetworkAssumption
    <3> QED BY <3>1
  <2>5. CASE UNCHANGED vars \/ Reassign \/ SetPractice \/ Broadcast \/ BaseRestarts \/ Tick
    <3>1. UNCHANGED using
      BY <2>5 DEF vars, boatVars, Reassign, SetPractice, Broadcast, BaseRestarts, Tick
    <3> QED BY <2>0, <3>1
  <2> QED BY <1>1, <2>2, <2>3, <2>4, <2>5 DEF Next
<1> QED
  BY <1>1, BaseInit, BaseStep, BoatInit, BoatStep, PTL DEF Spec, MovesToOwnedSlot

=============================================================================
