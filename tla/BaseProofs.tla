----------------------------- MODULE BaseProofs -----------------------------
(***************************************************************************)
(* Theorems about seven parts of the base: the tracks it keeps             *)
(* (TrackStore), the start it simulates (FleetStart), its GPS receiver     *)
(* (BaseReceiver), the alarms on its links (FleetHealth), the log files    *)
(* the boats send it (LogUpload), the marks of its regatta (CourseMarks)   *)
(* and the events it finds in the boats' fixes (RaceEvents).               *)
(***************************************************************************)
EXTENDS TrackStore, FleetStart, BaseReceiver, FleetHealth, LogUpload, CourseMarks, RaceEvents,
        FiniteSetTheorems, SequenceTheorems, WellFoundedInduction, TLAPS

-----------------------------------------------------------------------------
(***************************************************************************)
(* TrackStore: the movement gate never measures from a fix that was lost on*)
(* its way to Redis, for any number of batches, fixes and regattas.        *)
(***************************************************************************)

-----------------------------------------------------------------------------
(* Sequences and the places in them.                                        *)

\* What a queue holds after one more was put in.
LEMMA ToSetAppend ==
  ASSUME NEW S, NEW s \in Seq(S), NEW x \in S
  PROVE  ToSet(Append(s, x)) = ToSet(s) \cup {x}
<1>1. DOMAIN Append(s, x) = 1 .. Len(s) + 1 /\ DOMAIN s = 1 .. Len(s)
  OBVIOUS
<1>2. \A i \in 1 .. Len(s) : Append(s, x)[i] = s[i]
  OBVIOUS
<1>3. Append(s, x)[Len(s) + 1] = x
  OBVIOUS
<1> QED BY <1>1, <1>2, <1>3 DEF ToSet

\* An element but the first is in the rest.
LEMMA TailKeeps ==
  ASSUME NEW S, NEW s \in Seq(S), s # <<>>, NEW i \in 1 .. Len(s), i # 1
  PROVE  i - 1 \in 1 .. Len(Tail(s)) /\ Tail(s)[i - 1] = s[i]
  OBVIOUS

PlacesOf(q)   == {b.fix.at : b \in ToSet(q)}
PlacesAloft(fs) == UNION {PlacesOf(fs[i].batch) : i \in 1 .. Len(fs)}

\* A batch that is sent takes its places with it.
LEMMA AloftAppend ==
  ASSUME NEW S, NEW fs \in Seq(S), NEW fl \in S
  PROVE  PlacesAloft(Append(fs, fl)) = PlacesAloft(fs) \cup PlacesOf(fl.batch)
<1>1. Len(Append(fs, fl)) = Len(fs) + 1 /\ Append(fs, fl)[Len(fs) + 1] = fl
  OBVIOUS
<1>2. \A i \in 1 .. Len(fs) : Append(fs, fl)[i] = fs[i]
  OBVIOUS
<1>3. 1 .. Len(fs) + 1 = 1 .. Len(fs) \cup {Len(fs) + 1}
  OBVIOUS
<1> QED BY <1>1, <1>2, <1>3 DEF PlacesAloft

\* What is on its way is in the first batch or in one behind it.
LEMMA AloftTail ==
  ASSUME NEW S, NEW fs \in Seq(S), fs # <<>>
  PROVE  PlacesAloft(fs) \subseteq PlacesOf(Head(fs).batch) \cup PlacesAloft(Tail(fs))
<1> SUFFICES ASSUME NEW i \in 1 .. Len(fs), NEW p \in PlacesOf(fs[i].batch)
             PROVE  p \in PlacesOf(Head(fs).batch) \cup PlacesAloft(Tail(fs))
  BY DEF PlacesAloft
<1>1. CASE i = 1
  BY <1>1
<1>2. CASE i # 1
  <2>1. i - 1 \in 1 .. Len(Tail(fs)) /\ Tail(fs)[i - 1] = fs[i]
    BY <1>2, TailKeeps
  <2> QED BY <2>1 DEF PlacesAloft
<1> QED BY <1>1, <1>2

-----------------------------------------------------------------------------
(* What the argument needs of the types.                                    *)

QueuedFixes == [fix : TrackFixes, of : TrackRegattas]
Times   == {0} \cup {Newest(q, r) : q \in Seq(QueuedFixes), r \in TrackRegattas}
FlightSet == [batch : Seq(QueuedFixes), last : [TrackRegattas -> Times]]

StoreTypes ==
  /\ ofRegatta \in TrackRegattas
  /\ waiting \in Seq(QueuedFixes)
  /\ flights \in Seq(FlightSet)
  /\ track \in [TrackRegattas -> SUBSET TrackFixes]

InTracks == UNION {{f.at : f \in track[r]} : r \in TrackRegattas}

StoreInv ==
  /\ StoreTypes
  /\ gateAt # NoSpot => gateAt \in PlacesOf(waiting) \cup dropped \cup PlacesAloft(flights) \cup InTracks

\* What a batch puts into the tracks.
LEMMA BatchIsWritten ==
  ASSUME StoreTypes, NEW fl \in FlightSet
  PROVE  /\ WithTrack(fl) \in [TrackRegattas -> SUBSET TrackFixes]
         /\ InTracks \cup PlacesOf(fl.batch) \subseteq UNION {{f.at : f \in WithTrack(fl)[r]} : r \in TrackRegattas}
<1>1. \A b \in ToSet(fl.batch) : b.fix \in TrackFixes /\ b.of \in TrackRegattas
  <2>1. fl.batch \in Seq(QueuedFixes)
    BY DEF FlightSet
  <2>2. \A i \in DOMAIN fl.batch : fl.batch[i] \in QueuedFixes
    BY <2>1
  <2> QED BY <2>2 DEF ToSet, QueuedFixes
<1>2. WithTrack(fl) \in [TrackRegattas -> SUBSET TrackFixes]
  BY <1>1 DEF StoreTypes, WithTrack
<1>3. ASSUME NEW b \in ToSet(fl.batch)
      PROVE  b.fix \in WithTrack(fl)[b.of]
  BY <1>1, <1>3 DEF WithTrack
<1>4. \A r \in TrackRegattas : track[r] \subseteq WithTrack(fl)[r]
  BY DEF WithTrack
<1>5. PlacesOf(fl.batch) \subseteq UNION {{f.at : f \in WithTrack(fl)[r]} : r \in TrackRegattas}
  BY <1>1, <1>3 DEF PlacesOf
<1> QED BY <1>2, <1>4, <1>5 DEF InTracks

-----------------------------------------------------------------------------
LEMMA StoreInit == TrackInit => StoreInv
  BY DEF TrackInit, StoreInv, StoreTypes

\* Every step keeps a written fix, or one on its way, for the gate to measure from.
LEMMA StoreStep ==
  ASSUME StoreInv, [TrackNext]_trackVars
  PROVE  StoreInv'
<1>1. CASE UNCHANGED trackVars
  BY <1>1 DEF trackVars, StoreInv, StoreTypes, PlacesOf, PlacesAloft, InTracks
<1>2. ASSUME NEW f \in TrackFixes, NEW plausible \in BOOLEAN, RecordFix(f, plausible) PROVE StoreInv'
  <2>1. UNCHANGED <<ofRegatta, flights, track>>
    BY <1>2 DEF RecordFix
  <2>2. CASE UNCHANGED <<gateAt, waiting, dropped>>
    BY <2>1, <2>2 DEF StoreInv, StoreTypes, PlacesOf, PlacesAloft, InTracks
  <2>3. CASE gateAt' = f.at /\ waiting' = Append(waiting, [fix |-> f, of |-> ofRegatta])
    <3> DEFINE new == [fix |-> f, of |-> ofRegatta]
    <3>1. new \in QueuedFixes /\ waiting \in Seq(QueuedFixes)
      BY DEF QueuedFixes, StoreInv, StoreTypes
    <3>2. waiting' \in Seq(QueuedFixes) /\ ToSet(waiting') = ToSet(waiting) \cup {new}
      BY <2>3, <3>1, ToSetAppend
    <3>3. f.at \in PlacesOf(waiting')
      BY <3>2 DEF PlacesOf
    <3> QED BY <2>1, <2>3, <3>2, <3>3 DEF StoreInv, StoreTypes
  <2> QED BY <1>2, <2>2, <2>3 DEF RecordFix
<1>3. CASE Flush
  <2> DEFINE fl == [batch |-> waiting,
                    last |-> [r \in TrackRegattas |->
                                IF Newest(waiting, r) > lastAt[r] THEN Newest(waiting, r) ELSE 0]]
  <2>1. flights' = Append(flights, fl) /\ waiting' = <<>> /\ UNCHANGED <<ofRegatta, gateAt, track, dropped>>
    BY <1>3 DEF Flush
  <2>2. fl \in FlightSet /\ flights \in Seq(FlightSet)
    BY DEF StoreInv, StoreTypes, FlightSet, Times
  <2>3. fl.batch = waiting
    OBVIOUS
  <2> HIDE DEF fl
  <2>4. flights' \in Seq(FlightSet) /\ PlacesAloft(flights') = PlacesAloft(flights) \cup PlacesOf(waiting)
    BY <2>1, <2>2, <2>3, AloftAppend
  <2> QED BY <2>1, <2>4 DEF StoreInv, StoreTypes, InTracks
<1>4. CASE FlushOk
  <2>1. /\ flights # <<>> /\ flights' = Tail(flights) /\ track' = WithTrack(Head(flights))
        /\ UNCHANGED <<ofRegatta, gateAt, waiting, dropped>>
    BY <1>4 DEF FlushOk
  <2>2. Head(flights) \in FlightSet /\ Tail(flights) \in Seq(FlightSet) /\ StoreTypes
    BY <2>1 DEF StoreInv, StoreTypes
  <2>3. PlacesAloft(flights) \subseteq PlacesOf(Head(flights).batch) \cup PlacesAloft(flights')
    BY <2>1, AloftTail DEF StoreInv, StoreTypes
  <2>4. /\ track' \in [TrackRegattas -> SUBSET TrackFixes]
        /\ InTracks \cup PlacesOf(Head(flights).batch) \subseteq InTracks'
    BY <2>1, <2>2, BatchIsWritten DEF InTracks
  <2>5. PlacesOf(waiting)' = PlacesOf(waiting)
    BY <2>1 DEF PlacesOf
  <2> QED BY <2>1, <2>2, <2>3, <2>4, <2>5 DEF StoreInv, StoreTypes
<1>5. ASSUME NEW tracked \in BOOLEAN, NEW lasted \in BOOLEAN, FlushFails(tracked, lasted) PROVE StoreInv'
  <2>1. /\ flights # <<>> /\ flights' = Tail(flights) /\ gateAt' = NoSpot
        /\ track' = (IF tracked THEN WithTrack(Head(flights)) ELSE track)
        /\ UNCHANGED <<ofRegatta, waiting>>
    BY <1>5 DEF FlushFails
  <2>2. Head(flights) \in FlightSet /\ Tail(flights) \in Seq(FlightSet) /\ StoreTypes
    BY <2>1 DEF StoreInv, StoreTypes
  <2>3. track' \in [TrackRegattas -> SUBSET TrackFixes]
    BY <2>1, <2>2, BatchIsWritten DEF StoreTypes
  <2> QED BY <2>1, <2>2, <2>3 DEF StoreInv, StoreTypes
<1>6. ASSUME NEW r \in TrackRegattas, Trim(r) PROVE StoreInv'
  <2> DEFINE oldest == Min({f.time : f \in track[r]})
  <2>1. /\ track' = [track EXCEPT ![r] = {f \in @ : f.time # oldest}]
        /\ dropped' = dropped \cup ({gateAt} \cap {f.at : f \in {g \in track[r] : g.time = oldest}})
        /\ UNCHANGED <<ofRegatta, gateAt, waiting, flights>>
    BY <1>6 DEF Trim
  <2> HIDE DEF oldest
  <2>2. track' \in [TrackRegattas -> SUBSET TrackFixes]
    BY <2>1 DEF StoreInv, StoreTypes
  <2>3. gateAt \in InTracks => gateAt \in InTracks' \cup dropped'
    \* If the fix it is measured from leaves a track, that is remembered.
    <3> SUFFICES ASSUME NEW q \in TrackRegattas, NEW f \in track[q], f.at = gateAt
                 PROVE  f.at \in InTracks' \cup dropped'
      BY DEF InTracks
    <3>1. CASE q = r /\ f.time = oldest
      BY <2>1, <3>1
    <3>2. CASE ~(q = r /\ f.time = oldest)
      <4>1. f \in track'[q]
        BY <2>1, <3>2 DEF StoreInv, StoreTypes
      <4> QED BY <4>1 DEF InTracks
    <3> QED BY <3>1, <3>2
  <2>4. UNCHANGED <<PlacesOf(waiting), PlacesAloft(flights)>> /\ dropped \subseteq dropped'
    BY <2>1 DEF PlacesOf, PlacesAloft
  <2> QED BY <2>1, <2>2, <2>3, <2>4 DEF StoreInv, StoreTypes
<1>7. ASSUME NEW r \in TrackRegattas, SetCurrentRegatta(r) PROVE StoreInv'
  BY <1>7 DEF SetCurrentRegatta, StoreInv, StoreTypes, PlacesOf, PlacesAloft, InTracks
<1>8. CASE StoreRestarts
  BY <1>8 DEF StoreRestarts, StoreInv, StoreTypes
<1> QED
  BY <1>1, <1>2, <1>3, <1>4, <1>5, <1>6, <1>7, <1>8 DEF TrackNext

\* The fix a boat's movement is measured from is in a track, on its way there, or left the track
\* because of its limits, however batches overlap and fail in part (decideRecord, writeFix and
\* _flushFixes of redisStore.js).
THEOREM GateHoldsNoLostFix == TrackSpec => []GateIsWritten
<1>1. StoreInv => GateIsWritten
  BY DEF StoreInv, GateIsWritten, PlacesOf, PlacesAloft, InTracks
<1> QED
  BY <1>1, StoreInit, StoreStep, PTL DEF TrackSpec

LEMMA NatSetInduction ==
  ASSUME NEW N \in Nat, NEW T, 0 \in T, \A n \in 0 .. N - 1 : n \in T => n + 1 \in T
  PROVE  0 .. N \subseteq T
<1> DEFINE R == OpToRel(<, Nat)
           U == (0 .. N) \ T
<1> SUFFICES ASSUME U # {}
             PROVE  FALSE
  OBVIOUS
<1>1. U \subseteq Nat
  OBVIOUS
<1>2. PICK x \in U : \A y \in U : ~(<<y, x>> \in R)
  <2>1. IsWellFoundedOn(R, Nat)
    BY NatLessThanWellFounded
  <2> HIDE DEF R, U
  <2> QED
    BY <1>1, <2>1, WFMin
<1>3. x \in 1 .. N /\ x - 1 \in 0 .. N - 1
  OBVIOUS
<1>4. x - 1 \in U
  BY <1>3
<1>5. <<x - 1, x>> \in R
  BY <1>3 DEF OpToRel
<1> QED
  BY <1>2, <1>4, <1>5

\* The newest time of a batch for a regatta is that of one of its fixes, or 0 without one.
LEMMA NewestIsATime ==
  ASSUME NEW q \in Seq(QueuedFixes), NEW r \in TrackRegattas
  PROVE  Newest(q, r) \in {f.time : f \in TrackFixes} \cup {0}
<1> DEFINE Upto(n) == {q[i].fix.time : i \in {j \in 1 .. n : q[j].of = r}} \cup {0}
           T == {n \in 0 .. Len(q) : \E m \in Upto(n) : \A x \in Upto(n) : m >= x}
<1>1. \A i \in 1 .. Len(q) : q[i].fix \in TrackFixes /\ q[i].fix.time \in Nat
  <2>1. \A i \in 1 .. Len(q) : q[i] \in QueuedFixes
    OBVIOUS
  <2> QED BY <2>1, TrackAssumption DEF QueuedFixes, TrackAssumption
<1>2. Len(q) \in Nat
  OBVIOUS
<1>3. {b.fix.time : b \in {c \in ToSet(q) : c.of = r}} \cup {0} = Upto(Len(q))
  <2>1. ToSet(q) = {q[i] : i \in 1 .. Len(q)}
    BY DEF ToSet
  <2> QED BY <2>1
<1>4. \A n \in 0 .. Len(q) : Upto(n) \subseteq Nat
  BY <1>1
<1>5. 0 \in T
  BY <1>2
<1>6. ASSUME NEW n \in 0 .. Len(q) - 1, n \in T
      PROVE  n + 1 \in T
  <2>1. PICK m \in Upto(n) : \A x \in Upto(n) : m >= x
    BY <1>6
  <2>2. n + 1 \in 1 .. Len(q) /\ n \in 0 .. Len(q) /\ n + 1 \in 0 .. Len(q)
    BY <1>2
  <2> DEFINE t == q[n + 1].fix.time
  <2>3. t \in Nat /\ m \in Nat
    BY <1>1, <1>4, <2>1, <2>2
  <2>4. Upto(n + 1) = IF q[n + 1].of = r THEN Upto(n) \cup {t} ELSE Upto(n)
    <3>1. 1 .. n + 1 = 1 .. n \cup {n + 1}
      OBVIOUS
    <3> QED BY <3>1
  <2> HIDE DEF t, Upto
  <2>5. \E k \in Upto(n + 1) : \A x \in Upto(n + 1) : k >= x
    <3>1. CASE q[n + 1].of = r /\ t > m
      <4>1. t \in Upto(n + 1)
        BY <2>4, <3>1
      <4>2. \A x \in Upto(n) : x \in Nat
        BY <1>4, <2>2
      <4>3. \A x \in Upto(n + 1) : t >= x
        BY <2>1, <2>3, <2>4, <3>1, <4>2
      <4> QED BY <4>1, <4>3
    <3>2. CASE ~(q[n + 1].of = r /\ t > m)
      BY <2>1, <2>3, <2>4, <3>2
    <3> QED BY <3>1, <3>2
  <2> QED BY <2>2, <2>5
<1> HIDE DEF T
<1>7. 0 .. Len(q) \subseteq T
  BY <1>2, <1>5, <1>6, NatSetInduction
<1>8. Len(q) \in T
  BY <1>2, <1>7
<1>9. PICK top \in Upto(Len(q)) : \A x \in Upto(Len(q)) : top >= x
  BY <1>8 DEF T
<1>10. Newest(q, r) \in Upto(Len(q))
  <2>1. Newest(q, r) = CHOOSE m \in Upto(Len(q)) : \A x \in Upto(Len(q)) : m >= x
    BY <1>3 DEF Newest, Max
  <2> HIDE DEF Upto
  <2> QED BY <1>9, <2>1
<1> QED BY <1>1, <1>10

\* What StoreInv leaves out of the type.
TrackTimes == {f.time : f \in TrackFixes} \cup {0}
Spots == {f.at : f \in TrackFixes} \cup {NoSpot}
StoreRest ==
  /\ gateAt \in Spots /\ healthy \in BOOLEAN
  /\ Len(waiting) <= MaxQueue /\ Len(flights) <= MaxFlights
  /\ lastFix \in [TrackRegattas -> TrackTimes]
  /\ \A i \in 1 .. Len(flights) : flights[i].last \in [TrackRegattas -> TrackTimes]

LEMMA StoreRestKept ==
  ASSUME StoreInv, StoreRest, [TrackNext]_trackVars
  PROVE  StoreRest'
<1>0. /\ waiting \in Seq(QueuedFixes) /\ flights \in Seq(FlightSet) /\ MaxQueue \in Nat /\ MaxFlights \in Nat
  BY TrackAssumption DEF StoreInv, StoreTypes, TrackAssumption
<1>1. CASE UNCHANGED trackVars
  BY <1>1 DEF trackVars, StoreRest
<1>2. ASSUME NEW f \in TrackFixes, NEW plausible \in BOOLEAN, RecordFix(f, plausible) PROVE StoreRest'
  <2> DEFINE new == [fix |-> f, of |-> ofRegatta]
  <2>1. UNCHANGED <<flights, lastFix, healthy>> /\ Len(waiting) < MaxQueue
    BY <1>2 DEF RecordFix
  <2>2. UNCHANGED <<gateAt, waiting>> \/ (gateAt' = f.at /\ waiting' = Append(waiting, new))
    BY <1>2 DEF RecordFix
  <2> HIDE DEF new
  <2>3. Len(waiting') <= MaxQueue
    BY <1>0, <2>1, <2>2
  <2>4. gateAt' \in Spots
    BY <2>2 DEF StoreRest, Spots
  <2> QED BY <2>1, <2>3, <2>4 DEF StoreRest
<1>3. CASE Flush
  <2> DEFINE last == [r \in TrackRegattas |->
                        IF Newest(waiting, r) > lastAt[r] THEN Newest(waiting, r) ELSE 0]
             fl == [batch |-> waiting, last |-> last]
  <2>1. /\ flights' = Append(flights, fl) /\ waiting' = <<>> /\ Len(flights) < MaxFlights
        /\ UNCHANGED <<gateAt, lastFix, healthy>>
    BY <1>3 DEF Flush
  <2>2. last \in [TrackRegattas -> TrackTimes]
    BY <1>0, NewestIsATime DEF TrackTimes
  <2>3. fl.last = last
    OBVIOUS
  <2> HIDE DEF fl, last
  <2>4. /\ Len(flights') = Len(flights) + 1 /\ Len(flights) \in Nat
        /\ flights'[Len(flights) + 1] = fl /\ \A i \in 1 .. Len(flights) : flights'[i] = flights[i]
    BY <1>0, <2>1
  <2>5. \A i \in 1 .. Len(flights') : flights'[i].last \in [TrackRegattas -> TrackTimes]
    <3> SUFFICES ASSUME NEW i \in 1 .. Len(flights')
                 PROVE  flights'[i].last \in [TrackRegattas -> TrackTimes]
      OBVIOUS
    <3>1. CASE i = Len(flights) + 1
      BY <2>2, <2>3, <2>4, <3>1
    <3>2. CASE i # Len(flights) + 1
      <4>1. i \in 1 .. Len(flights)
        BY <2>4, <3>2
      <4> QED BY <2>4, <4>1 DEF StoreRest
    <3> QED BY <3>1, <3>2
  <2>6. Len(waiting') <= MaxQueue /\ Len(flights') <= MaxFlights
    BY <1>0, <2>1, <2>4
  <2> QED BY <2>1, <2>5, <2>6 DEF StoreRest
<1>4. ASSUME flights # <<>>, flights' = Tail(flights), lastFix' \in {lastFix, WithLast(lastFix, Head(flights))},
             gateAt' \in {gateAt, NoSpot}, healthy' \in BOOLEAN, waiting' = waiting
      PROVE  StoreRest'
  <2>1. /\ Len(flights') = Len(flights) - 1 /\ Len(flights) \in Nat \ {0}
        /\ \A i \in 1 .. Len(flights') : i + 1 \in 1 .. Len(flights) /\ flights'[i] = flights[i + 1]
        /\ Head(flights) = flights[1] /\ 1 \in 1 .. Len(flights)
    BY <1>0, <1>4
  <2>2. lastFix' \in [TrackRegattas -> TrackTimes]
    <3>1. flights[1].last \in [TrackRegattas -> TrackTimes]
      BY <2>1 DEF StoreRest
    <3>2. Head(flights).last \in [TrackRegattas -> TrackTimes]
      BY <2>1, <3>1
    <3>3. WithLast(lastFix, Head(flights)) \in [TrackRegattas -> TrackTimes]
      BY <3>2 DEF StoreRest, WithLast
    <3> QED BY <1>4, <3>3 DEF StoreRest
  <2>3. Len(flights') <= MaxFlights
    BY <1>0, <2>1 DEF StoreRest
  <2>4. gateAt' \in Spots
    BY <1>4 DEF StoreRest, Spots
  <2>5. \A i \in 1 .. Len(flights') : flights'[i].last \in [TrackRegattas -> TrackTimes]
    BY <2>1 DEF StoreRest
  <2> QED BY <1>4, <2>2, <2>3, <2>4, <2>5 DEF StoreRest
<1>5. CASE FlushOk
  BY <1>4, <1>5 DEF FlushOk, StoreRest
<1>6. ASSUME NEW tracked \in BOOLEAN, NEW lasted \in BOOLEAN, FlushFails(tracked, lasted) PROVE StoreRest'
  BY <1>4, <1>6 DEF FlushFails
<1>7. ASSUME NEW r \in TrackRegattas, Trim(r) \/ SetCurrentRegatta(r) PROVE StoreRest'
  BY <1>7 DEF Trim, SetCurrentRegatta, StoreRest
<1>8. CASE StoreRestarts
  BY <1>0, <1>8 DEF StoreRestarts, StoreRest, Spots
<1> QED
  BY <1>1, <1>2, <1>3, <1>5, <1>6, <1>7, <1>8 DEF TrackNext

\* The tracks, the batches on their way and the times of the last fixes keep their types
\* (redisStore.js): a time the base believes of Redis is that of a fix that came.
THEOREM TrackTypeCorrect == TrackSpec => []TrackTypeOK
<1>1. TrackInit => StoreRest
  <2>1. MaxQueue \in Nat /\ MaxFlights \in Nat
    BY TrackAssumption DEF TrackAssumption
  <2> QED BY <2>1 DEF TrackInit, StoreRest, Spots, TrackTimes
<1>2. StoreInv /\ StoreRest /\ [TrackNext]_trackVars => StoreRest'
  BY StoreRestKept
<1>3. StoreInv /\ StoreRest => TrackTypeOK
  <2> SUFFICES ASSUME StoreInv, StoreRest
               PROVE  TrackTypeOK
    OBVIOUS
  <2>1. ofRegatta \in TrackRegattas /\ track \in [TrackRegattas -> SUBSET TrackFixes]
    BY DEF StoreInv, StoreTypes
  <2> QED BY <2>1 DEF StoreRest, Spots, TrackTimes, TrackTypeOK
<1> QED BY <1>1, <1>2, <1>3, StoreInit, StoreStep, PTL DEF TrackSpec

-----------------------------------------------------------------------------
(***************************************************************************)
(* FleetStart: the start signal reaches every boat of a simulated fleet, in*)
(* whatever order processes, courses and the signal come, for any fleet.   *)
(***************************************************************************)

StartMessages == {"start-race"}

StartTypes ==
  /\ stage \in [FleetBoats -> Stages]
  /\ signalled \in [FleetBoats -> BOOLEAN]
  /\ post \in [FleetBoats -> Seq(StartMessages)]

\* What makes NoneLeftBehind inductive: a boat that is not there yet has heard the signal or is
\* going to, and one that heard it does not hold.
SignalKept ==
  \A b \in FleetBoats :
    /\ pressed /\ stage[b] \in {"unborn", "ashore", "held"} => signalled[b] \/ post[b] # <<>>
    /\ stage[b] = "held" => ~signalled[b]

StartInv == StartTypes /\ SignalKept

LEMMA StartInit == FleetInit => StartInv
  BY DEF FleetInit, StartInv, StartTypes, SignalKept, Stages

\* Every step keeps the signal for the boats that have yet to hear it.
LEMMA StartStep ==
  ASSUME StartInv, [FleetNext]_fleetVars
  PROVE  StartInv'
<1> USE DEF StartInv, StartTypes, SignalKept, Stages
<1>1. CASE UNCHANGED fleetVars
  BY <1>1 DEF fleetVars
<1>2. CASE MarksFetched \/ FleetStops \/ BridgeDrains
  BY <1>2 DEF MarksFetched, FleetStops, BridgeDrains, bridgeVars
<1>3. CASE SpacePressed
  <2>1. \A b \in FleetBoats : Append(post[b], "start-race") \in Seq(StartMessages) /\ Append(post[b], "start-race") # <<>>
    BY DEF StartMessages
  <2>2. post' = [b \in FleetBoats |-> IF stage[b] = "gone" THEN post[b] ELSE Append(post[b], "start-race")]
        /\ UNCHANGED <<stage, signalled>>
    BY <1>3 DEF SpacePressed
  <2> HIDE DEF StartMessages
  <2> QED BY <2>1, <2>2
<1>4. CASE FleetAgain
  BY <1>4 DEF FleetAgain
<1>5. ASSUME NEW b \in FleetBoats, Spawned(b) PROVE StartInv'
  BY <1>5 DEF Spawned, bridgeVars
<1>6. ASSUME NEW b \in FleetBoats, StillWaiting(b) \/ HearsBoat(b) \/ BridgeHears(b) PROVE StartInv'
  BY <1>6 DEF StillWaiting, HearsBoat, BridgeHears, bridgeVars
<1>7. ASSUME NEW b \in FleetBoats, OnTheGrid(b) PROVE StartInv'
  BY <1>7 DEF OnTheGrid, bridgeVars
<1>8. ASSUME NEW b \in FleetBoats, HearsStart(b) PROVE StartInv'
  <2>1. Tail(post[b]) \in Seq(StartMessages)
    BY <1>8 DEF HearsStart
  <2>2. /\ post' = [post EXCEPT ![b] = Tail(@)]
        /\ signalled' = [signalled EXCEPT ![b] = TRUE]
        /\ stage' = IF stage[b] = "held" THEN [stage EXCEPT ![b] = "off"] ELSE stage
        /\ UNCHANGED pressed
    BY <1>8 DEF HearsStart
  <2> HIDE DEF StartMessages
  <2> QED BY <2>1, <2>2
<1>9. ASSUME NEW b \in FleetBoats, Leaves(b) PROVE StartInv'
  BY <1>9 DEF Leaves, Running, bridgeVars
<1> QED
  BY <1>1, <1>2, <1>3, <1>4, <1>5, <1>6, <1>7, <1>8, <1>9 DEF FleetNext

\* No boat of a started fleet holds on the grid without the signal being on its way to it
\* (startGpsSimIfReady and releaseHold of boatAgent.js, startRace of fleetSim.js).
THEOREM SignalReachesAll == FleetSpec => []NoneLeftBehind
<1>1. StartInv => NoneLeftBehind
  BY DEF StartInv, SignalKept, NoneLeftBehind
<1> QED
  BY <1>1, StartInit, StartStep, PTL DEF FleetSpec

\* What a boat may have on its way to the fleet; whose boats have yet to be counted; which have
\* left the shore.
PossibleReports == {<<>>, <<"waiting-for-fix">>, <<"on-grid">>, <<"waiting-for-fix", "on-grid">>}
ToldReports == {<<"on-grid">>, <<"waiting-for-fix", "on-grid">>}
ToTell == {b \in FleetBoats : reports[b] \in ToldReports}
Aboard == {b \in FleetBoats : stage[b] \notin {"unborn", "ashore"}}

\* A boat is counted once: those that are counted have left the shore and have no report on its way.
GridBounds ==
  /\ gridCount \in Nat
  /\ reports \in [FleetBoats -> PossibleReports]
  /\ ToTell \subseteq Aboard
  /\ gridCount <= Cardinality(Aboard \ ToTell)
QueueBounds ==
  /\ fleet \in {"fetching", "running", "over"}
  /\ unfixed \subseteq FleetBoats
  /\ bridge \in Seq(FleetBoats) /\ Len(bridge) <= QueueMost
  /\ sentOf \in [FleetBoats -> 0 .. FrameMost]

\* What a sequence is with one more behind it, and a pair.
LEMMA Appended ==
  ASSUME NEW S, NEW s \in Seq(S), NEW e \in S
  PROVE  /\ Append(s, e) \in Seq(S) /\ Len(Append(s, e)) = Len(s) + 1
         /\ \A i \in 1 .. Len(s) : Append(s, e)[i] = s[i]
         /\ Append(s, e)[Len(s) + 1] = e
  OBVIOUS

LEMMA AppendTwo ==
  ASSUME NEW x, NEW y
  PROVE  Append(<<x>>, y) = <<x, y>>
<1> DEFINE S == {x, y}  s == <<x>>  t == <<x, y>>  a == Append(s, y)
<1>2. s \in Seq(S) /\ Len(s) = 1 /\ s[1] = x
  OBVIOUS
<1>3. t \in Seq(S) /\ Len(t) = 2 /\ t[1] = x /\ t[2] = y
  OBVIOUS
<1>0. y \in S
  OBVIOUS
<1> HIDE DEF S, s, t
<1>4. a \in Seq(S) /\ Len(a) = Len(s) + 1 /\ (\A i \in 1 .. Len(s) : a[i] = s[i]) /\ a[Len(s) + 1] = y
  BY <1>0, <1>2, Appended
<1> HIDE DEF a
<1>5. a \in Seq(S) /\ Len(a) = 2 /\ a[1] = x /\ a[2] = y
  BY <1>2, <1>4
<1>6. a = t
  BY <1>3, <1>5
<1> QED BY <1>6 DEF s, t, a

\* How the reports of a boat grow and are taken.
LEMMA ReportsOf ==
  /\ Append(<<>>, "waiting-for-fix") \in PossibleReports \ ToldReports
  /\ \A r \in PossibleReports \ ToldReports : Append(r, "on-grid") \in ToldReports
  /\ ToldReports \subseteq PossibleReports
  /\ \A r \in PossibleReports : r # <<>> =>
       /\ Tail(r) \in PossibleReports
       /\ Head(r) = "on-grid" => r \in ToldReports /\ Tail(r) \notin ToldReports
       /\ Head(r) # "on-grid" => (Tail(r) \in ToldReports <=> r \in ToldReports)
<1> DEFINE w == <<"waiting-for-fix">>  g == <<"on-grid">>  wg == <<"waiting-for-fix", "on-grid">>
<1>1. Append(<<>>, "waiting-for-fix") = w /\ Append(<<>>, "on-grid") = g /\ Append(w, "on-grid") = wg
  <2>1. \A x : Append(<<>>, x) = <<x>>
    OBVIOUS
  <2>2. \A x, y : Append(<<x>>, y) = <<x, y>>
    BY AppendTwo
  <2> QED BY <2>1, <2>2
<1>2. /\ Tail(w) = <<>> /\ Tail(g) = <<>> /\ Tail(wg) = g
      /\ Head(w) = "waiting-for-fix" /\ Head(g) = "on-grid" /\ Head(wg) = "waiting-for-fix"
  OBVIOUS
<1>3. w # g /\ w # wg /\ g # wg /\ w # <<>> /\ g # <<>> /\ wg # <<>>
  OBVIOUS
<1>4. PossibleReports = {<<>>, w, g, wg} /\ ToldReports = {g, wg}
  BY DEF PossibleReports, ToldReports
<1> HIDE DEF w, g, wg
<1> QED BY <1>1, <1>2, <1>3, <1>4

\* More boats that are to be counted, or as many, keep the count within them.
LEMMA CountKept ==
  ASSUME NEW S, NEW T, S \subseteq FleetBoats, T \subseteq FleetBoats, S \subseteq T
  PROVE  Cardinality(S) \in Nat /\ Cardinality(T) \in Nat /\ Cardinality(S) <= Cardinality(T)
<1>1. IsFiniteSet(FleetBoats)
  BY FleetAssumption DEF FleetAssumption
<1>2. IsFiniteSet(S) /\ IsFiniteSet(T)
  BY <1>1, FS_Subset
<1> QED BY <1>2, FS_Subset, FS_CardinalityType

\* A step that counts nobody and after which all that were aboard and counted still are.
LEMMA GridStays ==
  ASSUME GridBounds, gridCount' = gridCount, reports' \in [FleetBoats -> PossibleReports],
         ToTell' \subseteq Aboard', Aboard \ ToTell \subseteq Aboard' \ ToTell'
  PROVE  GridBounds'
<1>1. Cardinality(Aboard \ ToTell) \in Nat /\ Cardinality(Aboard' \ ToTell') \in Nat
      /\ Cardinality(Aboard \ ToTell) <= Cardinality(Aboard' \ ToTell')
  BY CountKept DEF Aboard
<1>2. Cardinality(Aboard' \ ToTell') = Cardinality(Aboard \ ToTell)'
  OBVIOUS
<1> QED BY <1>1, <1>2 DEF GridBounds

LEMMA GridStep ==
  ASSUME StartInv, GridBounds, [FleetNext]_fleetVars
  PROVE  GridBounds'
<1> DEFINE S == Aboard \ ToTell
<1>1. stage \in [FleetBoats -> Stages] /\ reports \in [FleetBoats -> PossibleReports] /\ ToTell \subseteq Aboard
  BY DEF StartInv, StartTypes, GridBounds
<1>2. CASE UNCHANGED <<gridCount, reports, stage>>
  BY <1>2, <1>1, GridStays DEF ToTell, Aboard
<1>3. CASE MarksFetched \/ SpacePressed \/ FleetStops \/ BridgeDrains
  BY <1>2, <1>3 DEF MarksFetched, SpacePressed, FleetStops, BridgeDrains
<1>4. CASE FleetAgain
  <2>1. gridCount' = 0 /\ reports' = [b \in FleetBoats |-> <<>>]
    BY <1>4 DEF FleetAgain
  <2>2. <<>> \in PossibleReports /\ <<>> \notin ToldReports
    BY DEF PossibleReports, ToldReports
  <2>3. ToTell' = {} /\ reports' \in [FleetBoats -> PossibleReports]
    BY <2>1, <2>2 DEF ToTell
  <2>4. Cardinality(Aboard' \ ToTell') \in Nat
    BY CountKept DEF Aboard
  <2>5. Cardinality(Aboard' \ ToTell') = Cardinality(Aboard \ ToTell)'
    OBVIOUS
  <2> QED BY <2>1, <2>3, <2>4, <2>5 DEF GridBounds
<1>5. ASSUME NEW b \in FleetBoats, Spawned(b) PROVE GridBounds'
  <2>1. stage' = [stage EXCEPT ![b] = "ashore"] /\ stage[b] = "unborn" /\ UNCHANGED <<gridCount, reports>>
    BY <1>5 DEF Spawned
  <2>2. Aboard' = Aboard /\ ToTell' = ToTell
    BY <1>1, <2>1 DEF Aboard, ToTell
  <2> QED BY <1>1, <2>1, <2>2, GridStays
<1>6. ASSUME NEW b \in FleetBoats, StillWaiting(b) PROVE GridBounds'
  <2>1. reports[b] = <<>> /\ reports' = [reports EXCEPT ![b] = Append(<<>>, "waiting-for-fix")]
        /\ UNCHANGED <<gridCount, stage>>
    BY <1>6 DEF StillWaiting
  <2>2. Append(<<>>, "waiting-for-fix") \in PossibleReports \ ToldReports
    BY ReportsOf
  <2>3. reports' \in [FleetBoats -> PossibleReports] /\ Aboard' = Aboard
    BY <1>1, <2>1, <2>2 DEF Aboard
  <2>4. ToTell' \subseteq ToTell
    BY <1>1, <2>1, <2>2 DEF ToTell
  <2> QED BY <1>1, <2>1, <2>3, <2>4, GridStays
<1>7. ASSUME NEW b \in FleetBoats, OnTheGrid(b) PROVE GridBounds'
  <2>1. /\ stage[b] = "ashore" /\ stage'[b] \in {"held", "off"}
        /\ \A c \in FleetBoats \ {b} : stage'[c] = stage[c] /\ reports'[c] = reports[c]
        /\ reports' = reports \/ reports' = [reports EXCEPT ![b] = Append(reports[b], "on-grid")]
        /\ gridCount' = gridCount
    BY <1>1, <1>7 DEF OnTheGrid
  <2>2. b \notin Aboard /\ reports[b] \in PossibleReports \ ToldReports
    BY <1>1, <2>1 DEF Aboard, ToTell
  <2>3. reports' \in [FleetBoats -> PossibleReports]
    <3>1. Append(reports[b], "on-grid") \in PossibleReports
      BY <2>2, ReportsOf
    <3> QED BY <1>1, <2>1, <3>1
  <2>4. Aboard' = Aboard \cup {b} /\ ToTell' \subseteq ToTell \cup {b}
    BY <1>1, <2>1 DEF Aboard, ToTell
  <2> QED BY <1>1, <2>1, <2>2, <2>3, <2>4, GridStays
<1>8. ASSUME NEW b \in FleetBoats, HearsBoat(b) PROVE GridBounds'
  <2>1. /\ reports[b] # <<>> /\ reports' = [reports EXCEPT ![b] = Tail(reports[b])]
        /\ gridCount' = IF Head(reports[b]) = "on-grid" THEN gridCount + 1 ELSE gridCount
        /\ UNCHANGED stage
    BY <1>8 DEF HearsBoat
  <2>2. reports[b] \in PossibleReports /\ Tail(reports[b]) \in PossibleReports
    BY <1>1, <2>1, ReportsOf
  <2>3. reports' \in [FleetBoats -> PossibleReports] /\ Aboard' = Aboard
    BY <1>1, <2>1, <2>2 DEF Aboard
  <2>4. CASE Head(reports[b]) # "on-grid"
    <3>1. Tail(reports[b]) \in ToldReports <=> reports[b] \in ToldReports
      BY <2>1, <2>2, <2>4, ReportsOf
    <3>2. ToTell' = ToTell
      BY <1>1, <2>1, <3>1 DEF ToTell
    <3> QED BY <1>1, <2>1, <2>3, <2>4, <3>2, GridStays
  <2>5. CASE Head(reports[b]) = "on-grid"
    <3>1. reports[b] \in ToldReports /\ Tail(reports[b]) \notin ToldReports
      BY <2>1, <2>2, <2>5, ReportsOf
    <3>2. b \in ToTell /\ ToTell' = ToTell \ {b}
      BY <1>1, <2>1, <3>1 DEF ToTell
    <3>3. Aboard' \ ToTell' = S \cup {b} /\ b \notin S
      BY <1>1, <2>3, <3>2
    <3>4. IsFiniteSet(S) /\ Cardinality(S) \in Nat
      BY FleetAssumption, FS_Subset, FS_CardinalityType DEF FleetAssumption, Aboard
    <3>5. Cardinality(S \cup {b}) = Cardinality(S) + 1
      BY <3>3, <3>4, FS_AddElement
    <3>6. gridCount \in Nat /\ gridCount <= Cardinality(S)
      BY DEF GridBounds
    <3>7. gridCount' \in Nat /\ gridCount' <= Cardinality(Aboard' \ ToTell')
      <4>1. Cardinality(Aboard' \ ToTell') = Cardinality(S) + 1
        BY <3>3, <3>5
      <4>2. gridCount' = gridCount + 1
        BY <2>1, <2>5
      <4> DEFINE n == Cardinality(S)  m == Cardinality(Aboard' \ ToTell')
      <4>3. n \in Nat /\ m = n + 1 /\ gridCount \in Nat /\ gridCount <= n
        BY <3>4, <3>6, <4>1
      <4> HIDE DEF n, m, S
      <4>4. gridCount' \in Nat /\ gridCount' <= m
        BY <4>2, <4>3
      <4> QED BY <4>4 DEF m
    <3>8. Cardinality(Aboard' \ ToTell') = Cardinality(Aboard \ ToTell)'
      OBVIOUS
    <3> QED BY <1>1, <2>3, <3>2, <3>7, <3>8 DEF GridBounds
  <2> QED BY <2>4, <2>5
<1>9. ASSUME NEW b \in FleetBoats, HearsStart(b) \/ Leaves(b) PROVE GridBounds'
  <2>1. /\ \A c \in FleetBoats : c \in Aboard => stage'[c] \notin {"unborn", "ashore"}
        /\ UNCHANGED <<gridCount, reports>>
    BY <1>1, <1>9 DEF HearsStart, Leaves, Aboard
  <2>2. Aboard \subseteq Aboard' /\ ToTell' = ToTell
    BY <2>1 DEF Aboard, ToTell
  <2> QED BY <1>1, <2>1, <2>2, GridStays
<1>10. ASSUME NEW b \in FleetBoats, BridgeHears(b) PROVE GridBounds'
  BY <1>2, <1>10 DEF BridgeHears
<1> QED
  BY <1>2, <1>3, <1>4, <1>5, <1>6, <1>7, <1>8, <1>9, <1>10 DEF FleetNext, fleetVars

LEMMA QueueStep ==
  ASSUME QueueBounds, [FleetNext]_fleetVars
  PROVE  QueueBounds'
<1>1. QueueMost \in Nat \ {0} /\ FrameMost \in Nat
  BY FleetAssumption DEF FleetAssumption
<1> USE DEF QueueBounds
<1>2. CASE UNCHANGED fleetVars
  BY <1>2 DEF fleetVars
<1>3. CASE MarksFetched \/ SpacePressed \/ FleetStops
  BY <1>3 DEF MarksFetched, SpacePressed, FleetStops, bridgeVars
<1>4. CASE BridgeDrains
  BY <1>1, <1>4 DEF BridgeDrains
<1>5. CASE FleetAgain
  BY <1>1, <1>5 DEF FleetAgain
<1>6. ASSUME NEW b \in FleetBoats, Spawned(b) \/ StillWaiting(b) \/ OnTheGrid(b) \/ HearsStart(b)
      PROVE  QueueBounds'
  BY <1>6 DEF Spawned, StillWaiting, OnTheGrid, HearsStart, bridgeVars
<1>7. ASSUME NEW b \in FleetBoats, HearsBoat(b) PROVE QueueBounds'
  <2>1. unfixed' \subseteq unfixed \cup {b} /\ UNCHANGED <<fleet, bridge, sentOf>>
    BY <1>7 DEF HearsBoat, bridgeVars
  <2> QED BY <2>1
<1>8. ASSUME NEW b \in FleetBoats, Leaves(b) PROVE QueueBounds'
  BY <1>8 DEF Leaves, bridgeVars
<1>9. ASSUME NEW b \in FleetBoats, BridgeHears(b) PROVE QueueBounds'
  <2>1. /\ sentOf[b] < FrameMost /\ sentOf' = [sentOf EXCEPT ![b] = sentOf[b] + 1]
        /\ bridge' = Paced(bridge, b) \/ bridge' = bridge
        /\ UNCHANGED <<fleet, unfixed>>
    BY <1>9 DEF BridgeHears
  <2>2. sentOf' \in [FleetBoats -> 0 .. FrameMost]
    BY <1>1, <2>1
  <2>3. Paced(bridge, b) \in Seq(FleetBoats) /\ Len(Paced(bridge, b)) <= QueueMost
    <3> DEFINE room == IF Len(bridge) >= QueueMost THEN Tail(bridge) ELSE bridge
    <3>1. room \in Seq(FleetBoats) /\ Len(room) + 1 <= QueueMost
      BY <1>1
    <3> HIDE DEF room
    <3>2. Append(room, b) \in Seq(FleetBoats) /\ Len(Append(room, b)) = Len(room) + 1
      BY <3>1
    <3> QED BY <1>1, <3>1, <3>2 DEF Paced, room
  <2> QED BY <2>1, <2>2, <2>3
<1> QED
  BY <1>2, <1>3, <1>4, <1>5, <1>6, <1>7, <1>8, <1>9 DEF FleetNext

\* Every boat of a simulated fleet is counted on the grid once at most, whatever it reported before
\* and whenever it was heard, and the bridge never holds more frames than it may (fleetSim.js).
THEOREM FleetTypeCorrect == FleetSpec => []FleetTypeOK
<1> DEFINE Inv == StartInv /\ GridBounds /\ QueueBounds
<1>1. FleetInit => Inv
  <2> SUFFICES ASSUME FleetInit PROVE Inv
    OBVIOUS
  <2>1. <<>> \in PossibleReports /\ <<>> \notin ToldReports
    BY DEF PossibleReports, ToldReports
  <2>2. reports \in [FleetBoats -> PossibleReports] /\ ToTell = {} /\ Aboard = {} /\ gridCount = 0
    BY <2>1 DEF FleetInit, ToTell, Aboard
  <2>3. GridBounds
    BY <2>2, FS_EmptySet DEF GridBounds
  <2>4. QueueBounds
    BY FleetAssumption DEF FleetInit, QueueBounds, FleetAssumption
  <2> QED BY <2>3, <2>4, StartInit
<1>2. Inv /\ [FleetNext]_fleetVars => Inv'
  BY StartStep, GridStep, QueueStep
<1>3. Inv => FleetTypeOK
  <2> SUFFICES ASSUME Inv PROVE FleetTypeOK
    OBVIOUS
  <2>1. IsFiniteSet(FleetBoats) /\ Cardinality(FleetBoats) \in Nat
    BY FleetAssumption, FS_CardinalityType DEF FleetAssumption
  <2>2. Cardinality(Aboard \ ToTell) \in Nat /\ Cardinality(Aboard \ ToTell) <= Cardinality(FleetBoats)
    BY CountKept DEF Aboard
  <2>3. gridCount \in 0 .. Cardinality(FleetBoats)
    BY <2>1, <2>2 DEF GridBounds
  <2> QED BY <2>3 DEF FleetTypeOK, StartInv, StartTypes, QueueBounds
<1> HIDE DEF Inv
<1>4. FleetSpec => []Inv
  BY <1>1, <1>2, PTL DEF FleetSpec
<1> QED
  BY <1>3, <1>4, PTL

-----------------------------------------------------------------------------
(***************************************************************************)
(* BaseReceiver: the mode and position shown are those the receiver has, for*)
(* any positions and any order of commands and answers.                    *)
(***************************************************************************)

Split    == [main : Int, hp : Int]
Tmode3s  == [mode : {0, 1}] \cup [mode : {2}, lla : Split]
Commands == [do : {"poll", "save"}] \cup [do : {"set"}, tmode3 : Tmode3s]
Messages == [kind : {"cfg-tmode3"}, body : Tmode3s]
            \cup [kind : {"nav-pvt"}, body : [pos : Int, utcValid : BOOLEAN]]
            \cup [kind : {"nav-svin"}, body : [valid : BOOLEAN, mean : Split]]

\* A position that is sent in two parts is what it was, below zero too.
LEMMA PartsOfAPosition ==
  ASSUME NEW units \in Int
  PROVE  SplitHP(units) \in Split /\ JoinHP(SplitHP(units)) = units
<1> DEFINE main == IF units < 0 THEN -(-units \div 100) ELSE units \div 100
<1>1. main \in Int
  OBVIOUS
<1>2. SplitHP(units) = [main |-> main, hp |-> units - 100 * main]
  BY DEF SplitHP
<1> HIDE DEF main
<1>3. 100 * main + (units - 100 * main) = units
  BY <1>1
<1> QED BY <1>1, <1>2, <1>3 DEF Split, JoinHP

LEMMA JoinedIs == ASSUME NEW s \in Split PROVE JoinHP(s) \in Int
  BY DEF JoinHP, Split

LEMMA SetMade ==
  ASSUME NEW pos \in Int
  PROVE  SetTmode3(1, 0) \in Commands /\ SetTmode3(2, pos) \in Commands
<1>1. SetTmode3(1, 0) = [do |-> "set", tmode3 |-> [mode |-> 1]]
      /\ SetTmode3(2, pos) = [do |-> "set", tmode3 |-> [mode |-> 2, lla |-> SplitHP(pos)]]
  BY DEF SetTmode3
<1>2. [mode |-> 1] \in Tmode3s /\ [mode |-> 2, lla |-> SplitHP(pos)] \in Tmode3s
  BY PartsOfAPosition DEF Tmode3s
<1> QED BY <1>1, <1>2 DEF Commands

ReceiverTypes ==
  /\ gpsPort \in {"none", "opening", "open"}
  /\ pollIn \in Int /\ pollIn <= PollEvery /\ (gpsPort # "none" => pollIn >= 0)
  /\ refreshIn \subseteq Nat
  /\ toReceiver \in Seq(Commands)
  /\ fromReceiver = <<>> \/ \E m \in Messages : fromReceiver = <<m>>
  /\ swallow \in Nat
  /\ receiver \in [tmode3 : Tmode3s, saved : Tmode3s, here : Int]
  /\ shownSvin = NotHeard \/ shownSvin \in [valid : BOOLEAN, pos : Int]
  /\ shownFix = NotHeard \/ shownFix \in [pos : Int, stamp : {"gps", "local"}]
  /\ steady \in [for : Nat, byUs : BOOLEAN]

Shown == shownMode = DecodeTmode3(receiver.tmode3)

CommandWaits(do) == \E i \in 1 .. Len(toReceiver) : toReceiver[i].do = do
Answers   == fromReceiver # <<>> /\ Head(fromReceiver).kind = "cfg-tmode3"
Asked     == CommandWaits("poll") \/ (Answers /\ Head(fromReceiver).body = receiver.tmode3)

\* Behind every command that waits there is a refresh, with all of its time before it.
RefreshBehind == CommandWaits("set") => RefreshDelay \in refreshIn

\* An answer the receiver would not give any more was given before it lost its power.
OldAnswer == Answers /\ Head(fromReceiver).body # receiver.tmode3 => steady = Unsteady

\* A mode that is not shown is going to be asked for while it is still young, or has been asked for.
PolledSoon ==
  gpsPort = "open" /\ ~Shown =>
    /\ steady.for <= PollEvery
    /\ Asked \/ pollIn + steady.for <= PollEvery
RefreshedSoon ==
  gpsPort = "open" /\ steady.byUs /\ ~Shown =>
    /\ steady.for <= RefreshDelay
    /\ Asked \/ \E left \in refreshIn : left + steady.for <= RefreshDelay

ReceiverInv == ReceiverTypes /\ RefreshBehind /\ OldAnswer /\ PolledSoon /\ RefreshedSoon

LEMMA ReceiverInitInv == ReceiverInit => ReceiverInv
<1> SUFFICES ASSUME ReceiverInit PROVE ReceiverInv
  OBVIOUS
<1> USE ReceiverAssumption DEF ReceiverInit, ReceiverAssumption
<1>1. Disabled \in Tmode3s /\ (CHOOSE p \in Sites : TRUE) \in Int
  BY DEF Disabled, Tmode3s
<1>2. receiver \in [tmode3 : Tmode3s, saved : Tmode3s, here : Int]
  BY <1>1
<1>3. toReceiver = <<>> /\ toReceiver \in Seq(Commands) /\ fromReceiver = <<>> /\ gpsPort = "none"
  OBVIOUS
<1>4. steady \in [for : Nat, byUs : BOOLEAN]
  BY DEF Unsteady
<1>5. pollIn \in Int /\ pollIn <= PollEvery /\ refreshIn \subseteq Nat /\ swallow \in Nat
  BY DEF TimerOff
<1> HIDE DEF ReceiverInit
<1>6. ReceiverTypes
  BY <1>2, <1>3, <1>4, <1>5 DEF ReceiverTypes, ReceiverInit
<1> QED BY <1>3, <1>6 DEF ReceiverInv, RefreshBehind, OldAnswer, PolledSoon, RefreshedSoon, CommandWaits, Answers

\* The queue to the receiver: what is put behind it, and what is taken from it.
LEMMA MoreWaits ==
  ASSUME toReceiver \in Seq(Commands), NEW c \in Commands, toReceiver' = Append(toReceiver, c)
  PROVE  /\ toReceiver' \in Seq(Commands)
         /\ \A do : CommandWaits(do)' <=> CommandWaits(do) \/ do = c.do
<1>1. toReceiver' \in Seq(Commands) /\ Len(toReceiver') = Len(toReceiver) + 1
      /\ toReceiver'[Len(toReceiver) + 1] = c
      /\ \A i \in 1 .. Len(toReceiver) : toReceiver'[i] = toReceiver[i]
  OBVIOUS
<1>2. 1 .. Len(toReceiver') = 1 .. Len(toReceiver) \cup {Len(toReceiver) + 1}
  BY <1>1
<1> QED BY <1>1, <1>2 DEF CommandWaits

LEMMA FewerWait ==
  ASSUME toReceiver \in Seq(Commands), toReceiver # <<>>, toReceiver' = Tail(toReceiver)
  PROVE  /\ toReceiver' \in Seq(Commands) /\ Head(toReceiver) \in Commands
         /\ \A do : CommandWaits(do)' => CommandWaits(do)
         /\ \A do : CommandWaits(do) => CommandWaits(do)' \/ do = Head(toReceiver).do
         /\ CommandWaits(Head(toReceiver).do)
<1>1. toReceiver' \in Seq(Commands) /\ Len(toReceiver') = Len(toReceiver) - 1 /\ Len(toReceiver) \in Nat
      /\ \A i \in 1 .. Len(toReceiver) - 1 : toReceiver'[i] = toReceiver[i + 1]
      /\ Head(toReceiver) = toReceiver[1] /\ 1 \in 1 .. Len(toReceiver)
  OBVIOUS
<1>2. ASSUME NEW do, CommandWaits(do)' PROVE CommandWaits(do)
  <2>1. PICK i \in 1 .. Len(toReceiver') : toReceiver'[i].do = do
    BY <1>2 DEF CommandWaits
  <2>2. i + 1 \in 1 .. Len(toReceiver) /\ toReceiver[i + 1].do = do
    BY <1>1, <2>1
  <2> QED BY <2>2 DEF CommandWaits
<1>3. ASSUME NEW do, CommandWaits(do), do # Head(toReceiver).do PROVE CommandWaits(do)'
  <2>1. PICK i \in 1 .. Len(toReceiver) : toReceiver[i].do = do
    BY <1>3 DEF CommandWaits
  <2>2. i # 1
    BY <1>1, <1>3, <2>1
  <2>3. i - 1 \in 1 .. Len(toReceiver') /\ toReceiver'[i - 1].do = do
    BY <1>1, <2>1, <2>2
  <2> QED BY <2>3 DEF CommandWaits
<1>4. CommandWaits(Head(toReceiver).do)
  BY <1>1 DEF CommandWaits
<1>5. Head(toReceiver) \in Commands
  BY <1>1
<1> QED BY <1>1, <1>2, <1>3, <1>4, <1>5

LEMMA InvNow ==
  ASSUME ReceiverInv
  PROVE  /\ ReceiverTypes /\ RefreshBehind /\ OldAnswer /\ PolledSoon /\ RefreshedSoon
         /\ toReceiver \in Seq(Commands) /\ pollIn \in Int /\ pollIn <= PollEvery /\ refreshIn \subseteq Nat
         /\ (gpsPort # "none" => pollIn >= 0)
         /\ steady.for \in Nat /\ steady.byUs \in BOOLEAN /\ swallow \in Nat
         /\ RefreshDelay \in Nat /\ RefreshDelay > 0 /\ PollEvery \in Nat /\ ReopenDelay \in Nat
         /\ gpsPort \in {"none", "opening", "open"}
  BY ReceiverAssumption DEF ReceiverInv, ReceiverTypes, ReceiverAssumption

\* The port.
LEMMA PortSteps ==
  ASSUME ReceiverInv, OpenPort \/ PortIsOpen \/ PortFails
  PROVE  ReceiverInv'
<1>0. Unsteady \in [for : Nat, byUs : BOOLEAN] /\ Unsteady.for = 0 /\ Unsteady.byUs = FALSE
  BY DEF Unsteady
<1>1. CASE OpenPort
  <2>1. /\ gpsPort' = "opening" /\ toReceiver' = <<PollTmode3>> /\ fromReceiver' = <<>> /\ swallow' = 0
        /\ pollIn' = PollEvery /\ UNCHANGED <<refreshIn, receiver, shownMode, shownSvin, shownFix, steady>>
    BY <1>1 DEF OpenPort
  <2>2. toReceiver' \in Seq(Commands) /\ ~CommandWaits("set")'
    <3>1. PollTmode3 \in Commands /\ PollTmode3.do = "poll"
      BY DEF PollTmode3, Commands
    <3> QED BY <2>1, <3>1 DEF CommandWaits
  <2>3. ReceiverTypes'
    BY <2>1, <2>2, InvNow DEF ReceiverTypes
  <2>4. RefreshBehind' /\ OldAnswer' /\ PolledSoon' /\ RefreshedSoon'
    BY <2>1, <2>2 DEF RefreshBehind, OldAnswer, PolledSoon, RefreshedSoon, Answers
  <2> QED BY <2>3, <2>4 DEF ReceiverInv
<1>2. CASE PortIsOpen
  <2>1. /\ gpsPort = "opening" /\ gpsPort' = "open" /\ steady' = Unsteady
        /\ UNCHANGED <<pollIn, refreshIn, toReceiver, fromReceiver, swallow, receiver, shownMode, shownSvin, shownFix>>
    BY <1>2 DEF PortIsOpen
  <2>2. ReceiverTypes'
    BY <1>0, <2>1, InvNow DEF ReceiverTypes
  <2>3. RefreshBehind' /\ OldAnswer'
    BY <2>1, InvNow DEF RefreshBehind, OldAnswer, CommandWaits
  <2>4. PolledSoon' /\ RefreshedSoon'
    BY <1>0, <2>1, InvNow DEF PolledSoon, RefreshedSoon
  <2> QED BY <2>2, <2>3, <2>4 DEF ReceiverInv
<1>3. CASE PortFails
  <2>1. /\ gpsPort' = "none" /\ steady' = Unsteady /\ toReceiver' = <<>> /\ fromReceiver' = <<>> /\ swallow' = 0
        /\ pollIn' = TimerOff /\ UNCHANGED <<refreshIn, receiver, shownMode, shownSvin, shownFix>>
    BY <1>3 DEF PortFails
  <2>2. toReceiver' \in Seq(Commands) /\ ~CommandWaits("set")'
    BY <2>1 DEF CommandWaits
  <2>3. pollIn' \in Int /\ pollIn' <= PollEvery
    BY <2>1, InvNow DEF TimerOff
  <2>4. ReceiverTypes'
    BY <1>0, <2>1, <2>2, <2>3, InvNow DEF ReceiverTypes
  <2>5. RefreshBehind' /\ OldAnswer' /\ PolledSoon' /\ RefreshedSoon'
    BY <2>1, <2>2 DEF RefreshBehind, OldAnswer, PolledSoon, RefreshedSoon, Answers
  <2> QED BY <2>4, <2>5 DEF ReceiverInv
<1> QED BY <1>1, <1>2, <1>3

\* The timers put a poll in the queue.
LEMMA TimerSteps ==
  ASSUME ReceiverInv, PollTimer \/ RefreshTimer
  PROVE  ReceiverInv'
<1>0. PollTmode3 \in Commands /\ PollTmode3.do = "poll"
  BY DEF PollTmode3, Commands
<1>1. UNCHANGED <<gpsPort, reopenIn, fromReceiver, swallow, receiver, shownMode, shownSvin, shownFix, steady>>
  BY DEF PollTimer, RefreshTimer
<1>2. OldAnswer' /\ Shown' = Shown /\ Answers' = Answers
  BY <1>1, InvNow DEF OldAnswer, Answers, Shown
<1>3. CASE PollTimer
  <2>1. pollIn' = PollEvery /\ toReceiver' = Append(toReceiver, PollTmode3) /\ refreshIn' = refreshIn
    BY <1>3 DEF PollTimer
  <2>2. toReceiver' \in Seq(Commands) /\ CommandWaits("poll")' /\ (CommandWaits("set")' <=> CommandWaits("set"))
    BY <1>0, <2>1, InvNow, MoreWaits
  <2>3. ReceiverTypes'
    BY <1>1, <2>1, <2>2, InvNow DEF ReceiverTypes
  <2>4. RefreshBehind'
    BY <2>1, <2>2, InvNow DEF RefreshBehind
  <2>5. PolledSoon' /\ RefreshedSoon'
    BY <1>1, <1>2, <2>2, InvNow DEF PolledSoon, RefreshedSoon, Asked
  <2> QED BY <1>2, <2>3, <2>4, <2>5 DEF ReceiverInv
<1>4. CASE RefreshTimer
  <2>1. refreshIn' = refreshIn \ {0} /\ pollIn' = pollIn
    BY <1>4 DEF RefreshTimer
  <2>2. CASE gpsPort = "none"
    <3>1. toReceiver' = toReceiver
      BY <1>4, <2>2 DEF RefreshTimer
    <3>2. CommandWaits("set")' = CommandWaits("set")
      BY <3>1 DEF CommandWaits
    <3>3. ReceiverTypes'
      BY <1>1, <2>1, <3>1, InvNow DEF ReceiverTypes
    <3>4. RefreshBehind' /\ PolledSoon' /\ RefreshedSoon'
      BY <1>1, <2>1, <2>2, <3>2, InvNow DEF RefreshBehind, PolledSoon, RefreshedSoon
    <3> QED BY <1>2, <3>3, <3>4 DEF ReceiverInv
  <2>3. CASE gpsPort # "none"
    <3>1. toReceiver' = Append(toReceiver, PollTmode3)
      BY <1>4, <2>3 DEF RefreshTimer
    <3>2. toReceiver' \in Seq(Commands) /\ CommandWaits("poll")' /\ (CommandWaits("set")' <=> CommandWaits("set"))
      BY <1>0, <3>1, InvNow, MoreWaits
    <3>3. ReceiverTypes'
      BY <1>1, <2>1, <3>2, InvNow DEF ReceiverTypes
    <3>4. RefreshBehind'
      BY <2>1, <3>2, InvNow DEF RefreshBehind
    <3>5. PolledSoon' /\ RefreshedSoon'
      BY <1>1, <1>2, <3>2, InvNow DEF PolledSoon, RefreshedSoon, Asked
    <3> QED BY <1>2, <3>3, <3>4, <3>5 DEF ReceiverInv
  <2> QED BY <2>2, <2>3
<1> QED BY <1>3, <1>4

\* A command, with the refresh behind it.
LEMMA CommandStep ==
  ASSUME ReceiverInv, NEW c \in Commands, Commanded(c)
  PROVE  ReceiverInv'
<1>1. /\ toReceiver' = Append(toReceiver, c)
      /\ refreshIn' = IF c.do = "set" THEN refreshIn \cup {RefreshDelay} ELSE refreshIn
      /\ UNCHANGED <<gpsPort, pollIn, fromReceiver, swallow, receiver, shownMode, shownSvin, shownFix, steady>>
  BY DEF Commanded
<1>2. /\ toReceiver' \in Seq(Commands) /\ (CommandWaits("poll") => CommandWaits("poll")')
      /\ CommandWaits("set")' => CommandWaits("set") \/ c.do = "set"
  BY <1>1, InvNow, MoreWaits
<1>3. ReceiverTypes'
  BY <1>1, <1>2, InvNow DEF ReceiverTypes
<1>4. RefreshBehind'
  BY <1>1, <1>2, InvNow DEF RefreshBehind
<1>5. OldAnswer' /\ Shown' = Shown /\ (Asked => Asked')
  BY <1>1, <1>2, InvNow DEF OldAnswer, Shown, Asked, Answers
<1>6. PolledSoon' /\ RefreshedSoon'
  BY <1>1, <1>5, InvNow DEF PolledSoon, RefreshedSoon
<1> QED BY <1>3, <1>4, <1>5, <1>6 DEF ReceiverInv

LEMMA CommandSteps ==
  ASSUME ReceiverInv, SetSurveyIn \/ SetFixed \/ SaveConfig
  PROVE  ReceiverInv'
<1>1. CASE SetSurveyIn
  BY <1>1, SetMade, CommandStep DEF SetSurveyIn
<1>2. CASE SaveConfig
  <2>1. [do |-> "save"] \in Commands
    BY DEF Commands
  <2> QED BY <1>2, <2>1, CommandStep DEF SaveConfig
<1>3. CASE SetFixed
  <2>1. \A typed \in Typed : typed \in Int
    BY ReceiverAssumption DEF ReceiverAssumption
  <2>2. shownSvin # NotHeard => shownSvin.pos \in Int
    BY InvNow DEF ReceiverTypes
  <2>3. shownFix # NotHeard => shownFix.pos \in Int
    BY InvNow DEF ReceiverTypes
  <2>4. PICK pos \in Int : Commanded(SetTmode3(2, pos))
    BY <1>3, <2>1, <2>2, <2>3 DEF SetFixed
  <2> QED BY <2>4, SetMade, CommandStep
<1> QED BY <1>1, <1>2, <1>3

\* The receiver.
LEMMA HearsStep ==
  ASSUME ReceiverInv, ReceiverHears
  PROVE  ReceiverInv'
<1> DEFINE c == Head(toReceiver)
<1>0. /\ gpsPort = "open" /\ toReceiver # <<>> /\ fromReceiver = <<>> /\ toReceiver' = Tail(toReceiver)
      /\ UNCHANGED <<gpsPort, pollIn, refreshIn, swallow, shownMode, shownSvin, shownFix>>
  BY DEF ReceiverHears
<1>1. /\ toReceiver' \in Seq(Commands) /\ c \in Commands /\ CommandWaits(c.do)
      /\ \A do : CommandWaits(do)' => CommandWaits(do)
      /\ \A do : CommandWaits(do) => CommandWaits(do)' \/ do = c.do
  BY <1>0, InvNow, FewerWait
<1>2. RefreshBehind'
  BY <1>0, <1>1, InvNow DEF RefreshBehind
<1>3. receiver \in [tmode3 : Tmode3s, saved : Tmode3s, here : Int]
  BY InvNow DEF ReceiverTypes
<1>4. c.do \in {"poll", "set", "save"} /\ (c.do = "set" => c.tmode3 \in Tmode3s)
  BY <1>1 DEF Commands
<1> HIDE DEF c
<1>5. CASE c.do = "poll"
  <2> DEFINE m == [kind |-> "cfg-tmode3", body |-> receiver.tmode3]
  <2>1. fromReceiver' = Append(fromReceiver, m) /\ UNCHANGED <<receiver, steady>>
    BY <1>5 DEF ReceiverHears, c
  <2>2. m \in Messages /\ m.kind = "cfg-tmode3" /\ m.body = receiver.tmode3
    BY <1>3 DEF Messages
  <2> HIDE DEF m
  <2>3. fromReceiver' = <<m>> /\ Head(fromReceiver') = m /\ fromReceiver' # <<>>
    BY <1>0, <2>1
  <2>4. ReceiverTypes'
    BY <1>0, <1>1, <2>1, <2>2, <2>3, InvNow DEF ReceiverTypes
  <2>5. OldAnswer' /\ Asked'
    BY <2>1, <2>2, <2>3 DEF OldAnswer, Answers, Asked
  <2>6. PolledSoon' /\ RefreshedSoon'
    BY <1>0, <2>1, <2>5, InvNow DEF PolledSoon, RefreshedSoon, Shown
  <2> QED BY <1>2, <2>4, <2>5, <2>6 DEF ReceiverInv
<1>6. CASE c.do = "set"
  <2>1. /\ receiver' = [receiver EXCEPT !.tmode3 = c.tmode3] /\ steady' = [for |-> 0, byUs |-> TRUE]
        /\ fromReceiver' = fromReceiver
    BY <1>6 DEF ReceiverHears, c
  <2>2. receiver' \in [tmode3 : Tmode3s, saved : Tmode3s, here : Int]
    BY <1>3, <1>4, <1>6, <2>1
  <2>3. steady' \in [for : Nat, byUs : BOOLEAN] /\ steady'.for = 0
    BY <2>1
  <2>4. ReceiverTypes'
    BY <1>0, <1>1, <2>1, <2>2, <2>3, InvNow DEF ReceiverTypes
  <2>5. OldAnswer'
    BY <1>0, <2>1 DEF OldAnswer, Answers
  <2>6. RefreshDelay \in refreshIn'
    BY <1>0, <1>1, <1>6, InvNow DEF RefreshBehind
  <2>7. PolledSoon' /\ RefreshedSoon'
    BY <1>0, <2>3, <2>6, InvNow DEF PolledSoon, RefreshedSoon
  <2> QED BY <1>2, <2>4, <2>5, <2>7 DEF ReceiverInv
<1>7. CASE c.do = "save"
  <2>1. receiver' = [receiver EXCEPT !.saved = receiver.tmode3] /\ UNCHANGED <<fromReceiver, steady>>
    BY <1>7 DEF ReceiverHears, c
  <2>2. receiver' \in [tmode3 : Tmode3s, saved : Tmode3s, here : Int] /\ receiver'.tmode3 = receiver.tmode3
    BY <1>3, <2>1
  <2>3. ReceiverTypes'
    BY <1>0, <1>1, <2>1, <2>2, InvNow DEF ReceiverTypes
  <2>4. OldAnswer' /\ (Asked => Asked') /\ Shown' = Shown
    BY <1>0, <1>1, <1>7, <2>1, <2>2 DEF OldAnswer, Answers, Asked, Shown
  <2>5. PolledSoon' /\ RefreshedSoon'
    BY <1>0, <2>1, <2>4, InvNow DEF PolledSoon, RefreshedSoon
  <2> QED BY <1>2, <2>3, <2>4, <2>5 DEF ReceiverInv
<1> QED BY <1>4, <1>5, <1>6, <1>7

LEMMA ReportStep ==
  ASSUME ReceiverInv, ReceiverReports
  PROVE  ReceiverInv'
<1> DEFINE pvts  == {[kind |-> "nav-pvt", body |-> [pos |-> receiver.here, utcValid |-> valid]] : valid \in Clocks}
           svins == {[kind |-> "nav-svin", body |-> [valid |-> done, mean |-> SplitHP(receiver.here)]] : done \in BOOLEAN}
<1>1. /\ fromReceiver = <<>>
      /\ UNCHANGED <<gpsPort, pollIn, refreshIn, toReceiver, swallow, receiver, shownMode, shownSvin, shownFix, steady>>
  BY DEF ReceiverReports
<1>2. PICK m \in pvts \cup svins : fromReceiver' = <<m>>
  BY DEF ReceiverReports
<1>3. m \in Messages /\ m.kind # "cfg-tmode3"
  <2>1. receiver.here \in Int /\ SplitHP(receiver.here) \in Split
    BY InvNow, PartsOfAPosition DEF ReceiverTypes
  <2>2. \A valid \in Clocks : valid \in BOOLEAN
    BY ReceiverAssumption DEF ReceiverAssumption
  <2>3. CASE m \in pvts
    BY <2>1, <2>2, <2>3 DEF Messages
  <2>4. CASE m \in svins
    BY <2>1, <2>4 DEF Messages
  <2> QED BY <2>3, <2>4
<1> HIDE DEF pvts, svins
<1>4. ~Answers /\ ~Answers'
  BY <1>1, <1>2, <1>3 DEF Answers
<1>5. ReceiverTypes'
  BY <1>1, <1>2, <1>3, InvNow DEF ReceiverTypes
<1>6. RefreshBehind' /\ OldAnswer' /\ (Asked => Asked') /\ Shown' = Shown
  BY <1>1, <1>4, InvNow DEF RefreshBehind, OldAnswer, Asked, CommandWaits, Shown
<1>7. PolledSoon' /\ RefreshedSoon'
  BY <1>1, <1>6, InvNow DEF PolledSoon, RefreshedSoon
<1> QED BY <1>5, <1>6, <1>7 DEF ReceiverInv

LEMMA RestartStep ==
  ASSUME ReceiverInv, ReceiverRestarts
  PROVE  ReceiverInv'
<1>1. /\ steady' = Unsteady
      /\ UNCHANGED <<gpsPort, pollIn, refreshIn, toReceiver, fromReceiver, swallow, shownMode, shownSvin, shownFix>>
  BY DEF ReceiverRestarts
<1>2. PICK place \in Sites : receiver' = [receiver EXCEPT !.tmode3 = receiver.saved, !.here = place]
  BY DEF ReceiverRestarts
<1>3. receiver' \in [tmode3 : Tmode3s, saved : Tmode3s, here : Int]
  <2>1. place \in Int
    BY ReceiverAssumption DEF ReceiverAssumption
  <2> QED BY <1>2, <2>1, InvNow DEF ReceiverTypes
<1>4. steady' \in [for : Nat, byUs : BOOLEAN] /\ steady'.for = 0 /\ steady'.byUs = FALSE
  BY <1>1 DEF Unsteady
<1>5. ReceiverTypes'
  BY <1>1, <1>3, <1>4, InvNow DEF ReceiverTypes
<1>6. RefreshBehind' /\ OldAnswer'
  BY <1>1, InvNow DEF RefreshBehind, OldAnswer, CommandWaits
<1>7. PolledSoon' /\ RefreshedSoon'
  BY <1>1, <1>4, InvNow DEF PolledSoon, RefreshedSoon
<1> QED BY <1>5, <1>6, <1>7 DEF ReceiverInv

\* The parser takes an answer whole, or loses it, after which the modes are unsteady again.
LEMMA ParseStep ==
  ASSUME ReceiverInv, ParserTakes
  PROVE  ReceiverInv'
<1>0. /\ fromReceiver # <<>> /\ fromReceiver' = Tail(fromReceiver)
      /\ UNCHANGED <<gpsPort, pollIn, refreshIn, toReceiver, receiver>>
  BY DEF ParserTakes
<1>1. PICK m \in Messages : fromReceiver = <<m>>
  BY <1>0, InvNow DEF ReceiverTypes
<1>2. fromReceiver' = <<>> /\ Head(fromReceiver) = m
  BY <1>0, <1>1
<1>3. PICK damaged \in BOOLEAN :
        /\ shownMode' = IF ~damaged /\ swallow = 0 /\ m.kind = "cfg-tmode3" THEN DecodeTmode3(m.body) ELSE shownMode
        /\ shownSvin' = IF ~damaged /\ swallow = 0 /\ m.kind = "nav-svin" THEN DecodeSvin(m.body) ELSE shownSvin
        /\ shownFix'  = IF ~damaged /\ swallow = 0 /\ m.kind = "nav-pvt" THEN DecodePvt(m.body) ELSE shownFix
        /\ IF swallow > 0 THEN swallow' = swallow - 1
           ELSE IF damaged THEN swallow' \in 0 .. SwallowMost ELSE UNCHANGED swallow
        /\ steady' = IF damaged \/ swallow > 0 THEN Unsteady ELSE steady
  BY <1>2 DEF ParserTakes
<1>4. swallow' \in Nat
  BY <1>3, InvNow, ReceiverAssumption DEF ReceiverAssumption
<1>5. steady' \in [for : Nat, byUs : BOOLEAN]
  BY <1>3, InvNow DEF ReceiverTypes, Unsteady
<1>6. shownSvin' = NotHeard \/ shownSvin' \in [valid : BOOLEAN, pos : Int]
  <2>1. CASE ~damaged /\ swallow = 0 /\ m.kind = "nav-svin"
    <3>1. m.body \in [valid : BOOLEAN, mean : Split]
      BY <2>1 DEF Messages
    <3> QED BY <1>3, <2>1, <3>1, JoinedIs DEF DecodeSvin
  <2>2. CASE ~(~damaged /\ swallow = 0 /\ m.kind = "nav-svin")
    BY <1>3, <2>2, InvNow DEF ReceiverTypes
  <2> QED BY <2>1, <2>2
<1>7. shownFix' = NotHeard \/ shownFix' \in [pos : Int, stamp : {"gps", "local"}]
  <2>1. CASE ~damaged /\ swallow = 0 /\ m.kind = "nav-pvt"
    <3>1. m.body \in [pos : Int, utcValid : BOOLEAN]
      BY <2>1 DEF Messages
    <3> QED BY <1>3, <2>1, <3>1 DEF DecodePvt
  <2>2. CASE ~(~damaged /\ swallow = 0 /\ m.kind = "nav-pvt")
    BY <1>3, <2>2, InvNow DEF ReceiverTypes
  <2> QED BY <2>1, <2>2
<1>8. ReceiverTypes'
  BY <1>0, <1>2, <1>4, <1>5, <1>6, <1>7, InvNow DEF ReceiverTypes
<1>9. RefreshBehind' /\ OldAnswer' /\ (\A do : CommandWaits(do)' = CommandWaits(do))
  BY <1>0, <1>2, InvNow DEF RefreshBehind, OldAnswer, Answers, CommandWaits
<1>10. PolledSoon' /\ RefreshedSoon'
  <2>1. CASE damaged \/ swallow > 0
    <3>1. steady'.for = 0 /\ steady'.byUs = FALSE
      BY <1>3, <2>1 DEF Unsteady
    <3> QED BY <1>0, <3>1, InvNow DEF PolledSoon, RefreshedSoon
  <2>2. CASE ~damaged /\ swallow = 0 /\ m.kind = "cfg-tmode3"
    <3>1. shownMode' = DecodeTmode3(m.body) /\ steady' = steady
      BY <1>3, <2>2
    <3>2. CASE m.body = receiver.tmode3
      BY <1>0, <3>1, <3>2 DEF PolledSoon, RefreshedSoon, Shown
    <3>3. CASE m.body # receiver.tmode3
      \* Whoever is told an old mode has just seen the receiver restart.
      <4>1. steady'.for = 0 /\ steady'.byUs = FALSE
        BY <1>0, <1>2, <2>2, <3>1, <3>3, InvNow DEF OldAnswer, Answers, Unsteady
      <4> QED BY <1>0, <4>1, InvNow DEF PolledSoon, RefreshedSoon
    <3> QED BY <3>2, <3>3
  <2>3. CASE ~damaged /\ swallow = 0 /\ m.kind # "cfg-tmode3"
    <3>1. shownMode' = shownMode /\ steady' = steady /\ ~Answers
      BY <1>2, <1>3, <2>3 DEF Answers
    <3>2. Shown' = Shown /\ (Asked => Asked')
      BY <1>0, <1>9, <3>1 DEF Shown, Asked
    <3> QED BY <1>0, <3>1, <3>2, InvNow DEF PolledSoon, RefreshedSoon
  <2> QED BY <2>1, <2>2, <2>3, InvNow
<1> QED BY <1>8, <1>9, <1>10 DEF ReceiverInv

\* Time passes when nothing is under way: what has to be asked for comes nearer as fast as the
\* mode grows old.
LEMMA TickStep ==
  ASSUME ReceiverInv, ReceiverTick
  PROVE  ReceiverInv'
<1>0. /\ fromReceiver = <<>> /\ toReceiver = <<>> /\ pollIn # 0 /\ 0 \notin refreshIn
      /\ pollIn' = (IF pollIn = TimerOff THEN TimerOff ELSE pollIn - 1)
      /\ refreshIn' = {left - 1 : left \in refreshIn}
      /\ steady' = [steady EXCEPT !.for = IF @ > PollEvery \/ gpsPort # "open" THEN @ ELSE @ + 1]
      /\ UNCHANGED <<gpsPort, toReceiver, fromReceiver, swallow, receiver, shownMode, shownSvin, shownFix>>
  BY DEF ReceiverTick
<1>1. /\ steady' \in [for : Nat, byUs : BOOLEAN] /\ steady'.byUs = steady.byUs
      /\ steady'.for = IF steady.for > PollEvery \/ gpsPort # "open" THEN steady.for ELSE steady.for + 1
  BY <1>0, InvNow DEF ReceiverTypes
<1>2. /\ pollIn' \in Int /\ pollIn' <= PollEvery /\ refreshIn' \subseteq Nat
      /\ gpsPort # "none" => pollIn >= 1 /\ pollIn' = pollIn - 1
  <2>1. refreshIn' \subseteq Nat
    BY <1>0, InvNow
  <2> QED BY <1>0, <2>1, InvNow DEF TimerOff
<1>3. ReceiverTypes'
  BY <1>0, <1>1, <1>2, InvNow DEF ReceiverTypes
<1>4. ~CommandWaits("poll") /\ ~CommandWaits("set")' /\ ~Answers /\ ~Answers' /\ Shown' = Shown
  BY <1>0 DEF CommandWaits, Answers, Shown
<1>5. RefreshBehind' /\ OldAnswer'
  BY <1>4 DEF RefreshBehind, OldAnswer
<1>6. PolledSoon'
  <2> SUFFICES ASSUME gpsPort = "open", ~Shown PROVE steady'.for <= PollEvery /\ pollIn' + steady'.for <= PollEvery
    BY <1>0, <1>4 DEF PolledSoon
  <2>1. pollIn + steady.for <= PollEvery /\ steady.for <= PollEvery
    BY <1>4, InvNow DEF PolledSoon, Asked
  <2> QED BY <1>1, <1>2, <2>1, InvNow
<1>7. RefreshedSoon'
  <2> SUFFICES ASSUME gpsPort = "open", ~Shown, steady.byUs
               PROVE  steady'.for <= RefreshDelay /\ \E left \in refreshIn' : left + steady'.for <= RefreshDelay
    BY <1>0, <1>1, <1>4 DEF RefreshedSoon
  <2>1. PICK left \in refreshIn : left + steady.for <= RefreshDelay
    BY <1>4, InvNow DEF RefreshedSoon, Asked
  <2>2. left \in Nat /\ left # 0
    BY <1>0, InvNow
  <2>3. left - 1 \in refreshIn'
    BY <1>0
  <2>4. steady'.for <= steady.for + 1 /\ steady'.for \in Nat
    BY <1>1, InvNow
  <2> QED BY <2>1, <2>2, <2>3, <2>4, InvNow
<1> QED BY <1>3, <1>5, <1>6, <1>7 DEF ReceiverInv

LEMMA ReceiverStep ==
  ASSUME ReceiverInv, [ReceiverNext]_receiverVars
  PROVE  ReceiverInv'
<1>1. CASE UNCHANGED receiverVars
  BY <1>1 DEF receiverVars, ReceiverInv, ReceiverTypes, RefreshBehind, OldAnswer, PolledSoon, RefreshedSoon, Asked,
     Answers, CommandWaits, Shown
<1> QED
  BY <1>1, PortSteps, TimerSteps, CommandSteps, HearsStep, ReportStep, RestartStep, ParseStep, TickStep DEF ReceiverNext

\* The dashboard shows the mode, and the position, that the receiver really has: after a command
\* once its refresh has been answered, after anything else with the next poll (baseGps.js and
\* ubxParser.js), however commands, lost and damaged answers, power cuts and ports that close
\* interleave, and however often.
THEOREM ModesAreShown == ReceiverSpec => []ModeIsShown
<1>1. ReceiverInv => ModeIsShown
  BY InvNow DEF PolledSoon, RefreshedSoon, ModeIsShown, Shown
<1> QED
  BY <1>1, ReceiverInitInv, ReceiverStep, PTL DEF ReceiverSpec

\* ReceiverTypeOK, and what steady is beside it.
ReceiverBounds ==
  /\ ReceiverTypeOK
  /\ steady \in [for : Nat, byUs : BOOLEAN]

LEMMA ReceiverBoundsKept ==
  ASSUME ReceiverInv, ReceiverBounds, [ReceiverNext]_receiverVars
  PROVE  ReceiverBounds'
<1> DEFINE Port == gpsPort \in {"none", "opening", "open"}
           Reopen == reopenIn \in TimerOff .. ReopenDelay /\ (reopenIn = TimerOff <=> gpsPort # "none")
           Poll == pollIn \in TimerOff .. PollEvery /\ (pollIn = TimerOff <=> gpsPort = "none")
           Refresh == refreshIn \subseteq 0 .. RefreshDelay
           Swallow == swallow \in 0 .. SwallowMost
           Steady == steady \in [for : Nat, byUs : BOOLEAN] /\ steady.for <= PollEvery + 1
<1>1. RefreshDelay \in Nat \ {0} /\ PollEvery \in Nat \ {0} /\ ReopenDelay \in Nat \ {0} /\ SwallowMost \in Nat
  BY ReceiverAssumption DEF ReceiverAssumption
<1>2. Port /\ Reopen /\ Poll /\ Refresh /\ Swallow /\ Steady
  BY <1>1 DEF ReceiverBounds, ReceiverTypeOK
<1>3. Unsteady \in [for : Nat, byUs : BOOLEAN] /\ Unsteady.for <= PollEvery + 1
      /\ [for |-> 0, byUs |-> TRUE] \in [for : Nat, byUs : BOOLEAN] /\ [for |-> 0, byUs |-> TRUE].for <= PollEvery + 1
  BY <1>1 DEF Unsteady
<1>4. Port' /\ Reopen' /\ Poll' /\ Refresh' /\ Swallow' /\ Steady' => ReceiverBounds'
  BY <1>1 DEF ReceiverBounds, ReceiverTypeOK
<1>5. CASE UNCHANGED <<gpsPort, reopenIn, pollIn, refreshIn, swallow, steady>>
  BY <1>2, <1>4, <1>5
<1>6. CASE OpenPort
  BY <1>1, <1>2, <1>4, <1>6 DEF OpenPort, TimerOff
<1>7. CASE PortIsOpen
  BY <1>2, <1>3, <1>4, <1>7 DEF PortIsOpen
<1>8. CASE PortFails
  BY <1>1, <1>2, <1>3, <1>4, <1>8 DEF PortFails, TimerOff
<1>9. CASE PollTimer
  BY <1>1, <1>2, <1>4, <1>9 DEF PollTimer, TimerOff
<1>10. CASE RefreshTimer
  BY <1>2, <1>4, <1>10 DEF RefreshTimer
<1>11. ASSUME NEW command, Commanded(command)
       PROVE  ReceiverBounds'
  BY <1>1, <1>2, <1>4, <1>11 DEF Commanded
<1>12. CASE SetSurveyIn \/ SetFixed \/ SaveConfig
  BY <1>11, <1>12 DEF SetSurveyIn, SetFixed, SaveConfig
<1>13. CASE ReceiverHears
  <2>1. UNCHANGED <<gpsPort, reopenIn, pollIn, refreshIn, swallow>>
    BY <1>13 DEF ReceiverHears
  <2>2. steady' = steady \/ steady' = [for |-> 0, byUs |-> TRUE]
    <3>1. CASE Head(toReceiver).do = "poll"
      BY <1>13, <3>1 DEF ReceiverHears
    <3>2. CASE Head(toReceiver).do = "set"
      BY <1>13, <3>2 DEF ReceiverHears
    <3>3. CASE Head(toReceiver).do = "save"
      BY <1>13, <3>3 DEF ReceiverHears
    <3>4. toReceiver \in Seq(Commands) /\ toReceiver # <<>>
      BY <1>13 DEF ReceiverHears, ReceiverInv, ReceiverTypes
    <3>5. Head(toReceiver) \in Commands
      BY <3>4
    <3>6. Head(toReceiver).do \in {"poll", "set", "save"}
      BY <3>5 DEF Commands
    <3> QED BY <3>1, <3>2, <3>3, <3>6
  <2> QED BY <1>2, <1>3, <1>4, <2>1, <2>2
<1>14. CASE ReceiverReports
  BY <1>5, <1>14 DEF ReceiverReports
<1>15. CASE ReceiverRestarts
  BY <1>2, <1>3, <1>4, <1>15 DEF ReceiverRestarts
<1>16. CASE ParserTakes
  <2>1. UNCHANGED <<gpsPort, reopenIn, pollIn, refreshIn>>
    BY <1>16 DEF ParserTakes
  <2>2. Swallow'
    BY <1>1, <1>2, <1>16 DEF ParserTakes
  <2>3. steady' = steady \/ steady' = Unsteady
    BY <1>16 DEF ParserTakes
  <2> QED BY <1>2, <1>3, <1>4, <2>1, <2>2, <2>3
<1>17. CASE ReceiverTick
  <2>1. /\ UNCHANGED <<gpsPort, swallow>>
        /\ reopenIn # 0 /\ pollIn # 0 /\ 0 \notin refreshIn
        /\ reopenIn' = IF reopenIn = TimerOff THEN TimerOff ELSE reopenIn - 1
        /\ pollIn' = IF pollIn = TimerOff THEN TimerOff ELSE pollIn - 1
        /\ refreshIn' = {left - 1 : left \in refreshIn}
        /\ steady' = [steady EXCEPT !.for = IF steady.for > PollEvery \/ gpsPort # "open" THEN steady.for ELSE steady.for + 1]
    BY <1>17 DEF ReceiverTick
  <2>2. Reopen' /\ Poll'
    BY <1>1, <1>2, <2>1 DEF TimerOff
  <2>3. Refresh'
    BY <1>1, <1>2, <2>1
  <2>4. Steady'
    BY <1>1, <1>2, <2>1
  <2> QED BY <1>2, <1>4, <2>1, <2>2, <2>3, <2>4
<1> QED
  BY <1>5, <1>6, <1>7, <1>8, <1>9, <1>10, <1>12, <1>13, <1>14, <1>15, <1>16, <1>17 DEF ReceiverNext, receiverVars

\* The timers of baseGps.js stay within their intervals, and each of them runs exactly while there
\* is something for it to do: the one that opens the port while there is none, the poll while there
\* is one.
THEOREM ReceiverTypeCorrect == ReceiverSpec => []ReceiverTypeOK
<1>1. ReceiverInit => ReceiverBounds
  <2>1. ReopenDelay \in Nat /\ PollEvery \in Nat /\ SwallowMost \in Nat
    BY ReceiverAssumption DEF ReceiverAssumption
  <2> QED BY <2>1 DEF ReceiverInit, ReceiverBounds, ReceiverTypeOK, Unsteady, TimerOff
<1>2. ReceiverBounds => ReceiverTypeOK
  BY DEF ReceiverBounds
<1>3. ReceiverInv /\ ReceiverBounds /\ [ReceiverNext]_receiverVars => ReceiverInv' /\ ReceiverBounds'
  BY ReceiverStep, ReceiverBoundsKept
<1> QED
  BY <1>1, <1>2, <1>3, ReceiverInitInv, PTL DEF ReceiverSpec

-----------------------------------------------------------------------------
(***************************************************************************)
(* FleetHealth: no alarm comes out of nothing, for any fleet, any          *)
(* reporting intervals and any limits.                                     *)
(***************************************************************************)

States == {"slot", "parked", "waiting"}
Reasons == {"no", "lost", "stopped", "off", "rate"}
AGap == [age : Nat, cause : BOOLEAN]

\* What is kept of one boat; its fixes were taken when they arrived.
Card(h) ==
  h = [samples |-> h.samples, gaps |-> h.gaps, ts |-> h.ts, t |-> h.t, speed |-> h.speed,
       state |-> h.state, finished |-> h.finished]
Kept(h) ==
  /\ Card(h)
  /\ h.gaps \in Seq(AGap)
  /\ h.t \in Nat /\ h.ts = h.t /\ h.speed \in Speeds /\ h.state \in States

HealthTypes ==
  /\ bursts \in BOOLEAN
  /\ health = [b \in HealthBoats |-> health[b]]
  /\ missed \in [HealthBoats -> Reasons]
  /\ due \in [HealthBoats -> [since : 0 .. CycleTime, within : 0 .. CycleTime]]
  /\ \A b \in HealthBoats : health[b] # Unheard => Kept(health[b])

\* A boat of which nothing was missed is due as its last fix says, and one that is due has been
\* silent no longer than since it last sent.
DueAsHeard ==
  \A b \in HealthBoats : health[b] # Unheard =>
    /\ missed[b] = "no" => due[b].within = Within(health[b].speed, health[b].state)
    /\ due[b].within > 0 => health[b].t <= due[b].since
NotLate == \A b \in HealthBoats : due[b].within > 0 => due[b].since <= due[b].within

GapsExplained ==
  \A b \in HealthBoats : health[b] # Unheard => \A i \in DOMAIN health[b].gaps : health[b].gaps[i].cause

HealthInv == HealthTypes /\ DueAsHeard /\ NotLate /\ GapsExplained

-----------------------------------------------------------------------------
LEMMA MinOfTwo ==
  ASSUME NEW a \in Int, NEW b \in Int
  PROVE  Min({a, b}) = IF a <= b THEN a ELSE b
<1>1. \E x \in {a, b} : \A y \in {a, b} : x <= y
  OBVIOUS
<1>2. Min({a, b}) \in {a, b} /\ \A y \in {a, b} : Min({a, b}) <= y
  BY <1>1 DEF Min
<1> QED
  BY <1>2

LEMMA MaxOfTwo ==
  ASSUME NEW a \in Int, NEW b \in Int
  PROVE  Max({a, b}) = IF a <= b THEN b ELSE a
<1>1. \E x \in {a, b} : \A y \in {a, b} : x >= y
  OBVIOUS
<1>2. Max({a, b}) \in {a, b} /\ \A y \in {a, b} : Max({a, b}) >= y
  BY <1>1 DEF Max
<1> QED
  BY <1>2

LEMMA MaxOfFour ==
  ASSUME NEW a \in Int, NEW b \in Int, NEW c \in Int, NEW d \in Int
  PROVE  Max({a, b, c, d}) \in {a, b, c, d}
<1>1. \E x \in {a, b, c, d} : \A y \in {a, b, c, d} : x >= y
  OBVIOUS
<1> QED
  BY <1>1 DEF Max

LEMMA MaxOfThree ==
  ASSUME NEW a \in Nat, NEW b \in Nat, NEW c \in Nat
  PROVE  Max({a, b, c}) \in Nat
<1>1. \E x \in {a, b, c} : \A y \in {a, b, c} : x >= y
  OBVIOUS
<1> QED
  BY <1>1 DEF Max

\* The ages stop counting, but a boat's are never ahead of the time.
LEMMA AgesCount ==
  ASSUME NEW a \in Nat
  PROVE  Aged(a) \in Nat /\ Aged(a) <= a + 1
<1>1. Long \in Nat
  BY HealthAssumption, MaxOfThree DEF Long, HealthAssumption
<1> QED
  BY <1>1, MinOfTwo DEF Aged

\* What a cycle allows between two fixes of a boat in a slot is no gap.
LEMMA DueIsNoGap ==
  ASSUME bursts \in BOOLEAN, NEW speed \in Speeds, NEW state \in States
  PROVE  /\ Within(speed, state) \in 0 .. CycleTime
         /\ Within(speed, state) <= GapLimit
         /\ 1 <= GapLimit /\ GapLimit \in Nat
         /\ (speed = Moving /\ state = "slot") <=> Within(speed, state) > 0
<1>1. CycleTime \in Nat \ {0} /\ GapTime \in Nat \ {0} /\ GapTime <= CycleTime /\ Speeds \subseteq 0 .. 2
  BY HealthAssumption DEF HealthAssumption, Moving
<1>2. (3 * CycleTime + 1) \div 2 >= CycleTime /\ (3 * CycleTime + 1) \div 2 \in Nat
  BY <1>1
<1>3. GapLimit = IF bursts /\ GapTime <= (3 * CycleTime + 1) \div 2 THEN (3 * CycleTime + 1) \div 2 ELSE GapTime
  BY <1>1, <1>2, MaxOfTwo DEF GapLimit
<1>4. CASE bursts
  BY <1>1, <1>2, <1>3, <1>4 DEF Within, Moving
<1>5. CASE ~bursts
  BY <1>1, <1>2, <1>3, <1>5 DEF Within, Moving
<1> QED
  BY <1>4, <1>5

\* Pruning drops from the front and changes nothing of what stays.
LEMMA PrunedFrom ==
  ASSUME NEW S, NEW seq \in Seq(S)
  PROVE  /\ Keep(seq) \in Seq(S)
         /\ \A i \in DOMAIN Keep(seq) : \E j \in DOMAIN seq : Keep(seq)[i] = seq[j]
<1> DEFINE Front1 == {i \in DOMAIN seq : \A j \in 1 .. i : TooOld(seq[j])}
           n == Cardinality(Front1)
<1>1. n \in Nat
  <2>1. IsFiniteSet(1 .. Len(seq))
    BY FS_Interval
  <2>2. Front1 \subseteq 1 .. Len(seq)
    OBVIOUS
  <2> QED
    BY <2>1, <2>2, FS_Subset, FS_CardinalityType
<1>2. Keep(seq) = SubSeq(seq, n + 1, Len(seq))
  BY DEF Keep
<1> HIDE DEF n
<1> QED
  BY <1>1, <1>2

\* What a fix that was taken old ago finds: gaps that are explained, and no more than a gap allows.
HealthFits(h, b, old) ==
  h # Unheard =>
    /\ h.gaps \in Seq(AGap) /\ h.ts \in Nat /\ h.state \in States /\ h.speed \in Speeds
    /\ \A i \in DOMAIN h.gaps : h.gaps[i].cause
    /\ missed[b] = "no" /\ h.state = "slot" /\ h.speed = Moving => h.ts - old <= GapLimit

\* A fix of a boat of which nothing is missed is no gap.
LEMMA FixIsKept ==
  ASSUME bursts \in BOOLEAN, NEW b \in HealthBoats, missed[b] \in Reasons,
         NEW h, NEW old \in {0, 1}, NEW rtk \in BOOLEAN, NEW speed \in Speeds, NEW state \in States,
         HealthFits(h, b, old)
  PROVE  LET r == Recorded(h, b, old, rtk, speed, state)
         IN /\ r.gaps \in Seq(AGap)
            /\ \A i \in DOMAIN r.gaps : r.gaps[i].cause
            /\ r.t = 0 /\ r.ts = old /\ r.speed = speed /\ r.state = state /\ Card(r)
<1> DEFINE r == Recorded(h, b, old, rtk, speed, state)
           gap == h.ts - old
           isGap == /\ h # Unheard
                    /\ state = "slot" /\ h.state = "slot"
                    /\ gap > GapLimit /\ gap <= MaxGapTime /\ Min({h.speed, speed}) >= Moving
           before == IF h = Unheard THEN [samples |-> <<>>, gaps |-> <<>>, finished |-> Long] ELSE h
           note == [age |-> 0, cause |-> missed[b] # "no"]
<1> USE DEF HealthFits
<1>1. r.t = 0 /\ r.ts = old /\ r.speed = speed /\ r.state = state /\ Card(r)
  BY DEF Recorded, Card
<1>2. r.gaps = IF isGap THEN Append(before.gaps, note) ELSE before.gaps
  BY DEF Recorded
<1>3. before.gaps \in Seq(AGap) /\ \A i \in DOMAIN before.gaps : before.gaps[i].cause
  <2>1. CASE h = Unheard
    <3>1. before.gaps = <<>>
      BY <2>1
    <3> QED
      BY <3>1
  <2>2. CASE h # Unheard
    <3>1. before = h
      BY <2>2
    <3> QED
      BY <2>2, <3>1
  <2> QED
    BY <2>1, <2>2
<1>4. isGap => missed[b] # "no"
  <2> SUFFICES ASSUME isGap, missed[b] = "no"
               PROVE  FALSE
    OBVIOUS
  <2>1. Speeds \subseteq 0 .. 2
    BY HealthAssumption DEF HealthAssumption, Moving
  <2>2. /\ h.speed \in 0 .. 2 /\ h.state = "slot" /\ h.ts \in Nat
        /\ Min({h.speed, speed}) >= 2 /\ h.ts - old > GapLimit
    BY <2>1 DEF Moving
  <2>3. Min({h.speed, speed}) = IF h.speed <= speed THEN h.speed ELSE speed
    BY <2>1, <2>2, MinOfTwo
  <2>4. h.speed = Moving
    BY <2>1, <2>2, <2>3 DEF Moving
  <2>5. GapLimit \in Nat
    BY DueIsNoGap
  <2> QED
    BY <2>2, <2>4, <2>5
<1>5. note \in AGap /\ (isGap => note.cause)
  BY <1>4 DEF AGap
<1> HIDE DEF note, isGap, before, r
<1>6. CASE isGap
  <2>1. r.gaps = Append(before.gaps, note)
    BY <1>2, <1>6
  <2>2. r.gaps \in Seq(AGap)
    BY <2>1, <1>3, <1>5
  <2>3. \A i \in DOMAIN r.gaps : r.gaps[i].cause
    <3> TAKE i \in DOMAIN r.gaps
    <3>1. CASE i = Len(before.gaps) + 1
      BY <3>1, <2>1, <1>3, <1>5, <1>6
    <3>2. CASE i # Len(before.gaps) + 1
      <4>1. i \in DOMAIN before.gaps /\ r.gaps[i] = before.gaps[i]
        BY <3>2, <2>1, <1>3
      <4> QED
        BY <4>1, <1>3
    <3> QED
      BY <3>1, <3>2
  <2> QED
    BY <1>1, <2>2, <2>3 DEF r
<1>7. CASE ~isGap
  BY <1>1, <1>2, <1>3, <1>7 DEF r
<1> QED
  BY <1>6, <1>7

-----------------------------------------------------------------------------
LEMMA InitHealth == HealthInit => HealthInv
<1> SUFFICES ASSUME HealthInit
             PROVE  HealthInv
  OBVIOUS
<1> USE DEF HealthInit
<1>1. HealthTypes
  BY HealthAssumption DEF HealthTypes, HealthAssumption, Reasons
<1>2. DueAsHeard /\ NotLate /\ GapsExplained
  BY DEF DueAsHeard, NotLate, GapsExplained
<1> QED
  BY <1>1, <1>2 DEF HealthInv

\* The alerter forgets boats, and changes nothing of the others.
LEMMA CheckStep ==
  ASSUME HealthInv, HealthCheck
  PROVE  HealthInv'
<1> USE DEF HealthInv
<1>1. /\ UNCHANGED <<bursts, due, missed>>
      /\ health' = [b \in HealthBoats |-> IF Seen(health[b]) THEN health[b] ELSE Unheard]
  BY DEF HealthCheck
<1>2. \A b \in HealthBoats : health'[b] # Unheard => health'[b] = health[b]
  BY <1>1
<1>3. HealthTypes'
  BY <1>1, <1>2 DEF HealthTypes
<1>4. DueAsHeard' /\ NotLate' /\ GapsExplained'
  BY <1>1, <1>2 DEF DueAsHeard, NotLate, GapsExplained, Within
<1> QED
  BY <1>3, <1>4

LEMMA BurstsStep ==
  ASSUME HealthInv, BurstsChange
  PROVE  HealthInv'
<1> USE DEF HealthInv
<1>1. /\ UNCHANGED <<health, badBoats, due>> /\ bursts' = ~bursts
      /\ missed' = [b \in HealthBoats |-> IF missed[b] = "no" THEN "rate" ELSE missed[b]]
  BY DEF BurstsChange
<1>2. \A b \in HealthBoats : missed'[b] # "no" /\ missed'[b] \in Reasons
  BY <1>1 DEF HealthTypes, Reasons
<1>3. HealthTypes'
  <2>1. bursts' \in BOOLEAN
    BY <1>1
  <2>2. missed' \in [HealthBoats -> Reasons]
    BY <1>1, <1>2
  <2> QED
    BY <1>1, <2>1, <2>2 DEF HealthTypes
<1>4. DueAsHeard' /\ NotLate' /\ GapsExplained'
  BY <1>1, <1>2 DEF DueAsHeard, NotLate, GapsExplained
<1> QED
  BY <1>3, <1>4

LEMMA MissStep ==
  ASSUME HealthInv, NEW b \in HealthBoats, Misses(b) \/ StopsClose(b) \/ SwitchedOff(b)
  PROVE  HealthInv'
<1> USE DEF HealthInv
<1>1. /\ UNCHANGED <<bursts, health, badBoats>>
      /\ missed' \in [HealthBoats -> Reasons] /\ missed'[b] # "no"
      /\ due' \in [HealthBoats -> [since : 0 .. CycleTime, within : 0 .. CycleTime]] /\ due'[b].within = 0
      /\ \A c \in HealthBoats \ {b} : missed'[c] = missed[c] /\ due'[c] = due[c]
  <2>1. CycleTime \in Nat
    BY HealthAssumption DEF HealthAssumption
  <2>2. CASE Misses(b)
    BY <2>1, <2>2 DEF Misses, HealthTypes, Reasons
  <2>3. CASE SwitchedOff(b)
    BY <2>1, <2>3 DEF SwitchedOff, HealthTypes, Reasons
  <2>4. CASE StopsClose(b)
    BY <2>1, <2>4 DEF StopsClose, HealthTypes, Reasons
  <2> QED
    BY <2>2, <2>3, <2>4
<1>2. HealthTypes'
  BY <1>1 DEF HealthTypes
<1>3. DueAsHeard'
  BY <1>1 DEF DueAsHeard, Within
<1>4. NotLate' /\ GapsExplained'
  BY <1>1 DEF NotLate, GapsExplained
<1> QED
  BY <1>2, <1>3, <1>4

LEMMA HealthReportStep ==
  ASSUME HealthInv, NEW b \in HealthBoats, Reports(b)
  PROVE  HealthInv'
<1> USE DEF HealthInv
<1>1. PICK speed \in Speeds, state \in {"slot", "parked", "waiting"}, rtk \in BOOLEAN, finish \in BOOLEAN :
        LET one == Recorded(health[b], b, 0, rtk, speed, state)
            two == Recorded(Recorded(health[b], b, 1, rtk, speed, state), b, 0, rtk, speed, state)
        IN \E h \in {one} \cup (IF due[b].since > 1 THEN {two} ELSE {}) :
             /\ health' = [health EXCEPT ![b] = IF finish THEN [h EXCEPT !.finished = 0] ELSE h]
             /\ finish => state = "slot"
             /\ due' = [due EXCEPT ![b] = [since |-> 0, within |-> Within(speed, state)]]
        /\ due[b].since > 0
        /\ missed' = [missed EXCEPT ![b] = "no"]
        /\ UNCHANGED <<bursts, badBoats>>
  BY DEF Reports
<1> DEFINE one == Recorded(health[b], b, 0, rtk, speed, state)
           first == Recorded(health[b], b, 1, rtk, speed, state)
           two == Recorded(first, b, 0, rtk, speed, state)
<1>2. PICK h \in {one} \cup (IF due[b].since > 1 THEN {two} ELSE {}) :
        /\ health' = [health EXCEPT ![b] = IF finish THEN [h EXCEPT !.finished = 0] ELSE h]
        /\ due' = [due EXCEPT ![b] = [since |-> 0, within |-> Within(speed, state)]]
  BY <1>1
<1>2a. missed' = [missed EXCEPT ![b] = "no"] /\ UNCHANGED <<bursts, badBoats>> /\ state \in States
  BY <1>1 DEF States
<1>3. /\ bursts \in BOOLEAN /\ missed[b] \in Reasons
      /\ Within(speed, state) \in 0 .. CycleTime /\ 1 <= GapLimit /\ GapLimit \in Nat
  BY <1>2a, DueIsNoGap DEF HealthTypes
\* The gap since the last fix that was heard is at most what the boat was due within.
<1>4. HealthFits(health[b], b, 0) /\ HealthFits(health[b], b, 1)
  <2> SUFFICES ASSUME health[b] # Unheard
               PROVE  HealthFits(health[b], b, 0) /\ HealthFits(health[b], b, 1)
    BY DEF HealthFits
  <2>1. Kept(health[b])
    BY DEF HealthTypes
  <2>2. \A i \in DOMAIN health[b].gaps : health[b].gaps[i].cause
    BY DEF GapsExplained
  <2>3. ASSUME missed[b] = "no", health[b].state = "slot", health[b].speed = Moving
        PROVE  health[b].ts <= GapLimit
    <3>1. /\ Within(health[b].speed, health[b].state) > 0
          /\ Within(health[b].speed, health[b].state) <= GapLimit
          /\ Within(health[b].speed, health[b].state) \in 0 .. CycleTime
      BY <1>3, <2>1, <2>3, DueIsNoGap DEF Kept
    <3>2. due[b].within = Within(health[b].speed, health[b].state)
      BY <2>3 DEF DueAsHeard
    <3>3. health[b].t <= due[b].since /\ due[b].since <= due[b].within
      BY <3>1, <3>2 DEF DueAsHeard, NotLate
    <3>4. due[b].since \in 0 .. CycleTime /\ CycleTime \in Nat
      BY HealthAssumption DEF HealthTypes, HealthAssumption
    <3> HIDE DEF HealthInv
    <3>5. health[b].t \in Nat /\ health[b].ts = health[b].t
      BY <2>1 DEF Kept
    <3> QED
      BY <3>1, <3>2, <3>3, <3>4, <3>5, <1>3
  <2> QED
    <3>1. health[b].ts <= GapLimit => health[b].ts - 0 <= GapLimit /\ health[b].ts - 1 <= GapLimit
      BY <2>1, <1>3 DEF Kept
    <3> QED
      BY <2>1, <2>2, <2>3, <3>1 DEF Kept, HealthFits
<1>5. /\ h.gaps \in Seq(AGap)
      /\ \A i \in DOMAIN h.gaps : h.gaps[i].cause
      /\ h.t = 0 /\ h.ts = 0 /\ h.speed = speed /\ h.state = state /\ Card(h)
  <2>1. CASE h = one
    BY <1>2a, <1>3, <1>4, <2>1, FixIsKept
  <2>2. CASE h = two
    <3>1. /\ first.gaps \in Seq(AGap)
          /\ \A i \in DOMAIN first.gaps : first.gaps[i].cause
          /\ first.ts = 1 /\ first.speed = speed /\ first.state = state
      BY <1>2a, <1>3, <1>4, FixIsKept
    <3> HIDE DEF first
    <3>2. HealthFits(first, b, 0)
      BY <3>1, <1>3, <1>2a DEF HealthFits
    <3> QED
      BY <1>2a, <1>3, <2>2, <3>2, FixIsKept
  <2> QED
    BY <1>2, <2>1, <2>2
<1> HIDE DEF one, two, first
<1>6. LET n == health'[b] IN
      /\ n.gaps \in Seq(AGap)
      /\ \A i \in DOMAIN n.gaps : n.gaps[i].cause
      /\ n.t = 0 /\ n.ts = 0 /\ n.speed = speed /\ n.state = state /\ Card(n)
  <2>1. health'[b] = IF finish THEN [h EXCEPT !.finished = 0] ELSE h
    BY <1>2, <1>2a DEF HealthTypes
  <2>2. LET n == [h EXCEPT !.finished = 0] IN
        n.gaps = h.gaps /\ n.t = h.t /\ n.ts = h.ts /\ n.speed = h.speed /\ n.state = h.state /\ Card(n)
    BY <1>5 DEF Card
  <2> QED
    BY <2>1, <2>2, <1>5
<1>7. due'[b] = [since |-> 0, within |-> Within(speed, state)] /\ missed'[b] = "no"
  BY <1>2, <1>2a DEF HealthTypes
<1>8. \A c \in HealthBoats \ {b} : health'[c] = health[c] /\ due'[c] = due[c] /\ missed'[c] = missed[c]
  BY <1>2, <1>2a DEF HealthTypes
<1>9. HealthTypes'
  <2>1. Kept(health'[b])
    BY <1>6, <1>2a DEF Kept
  <2>2. \A c \in HealthBoats : health'[c] # Unheard => Kept(health'[c])
    BY <1>8, <2>1 DEF HealthTypes
  <2>3. health' = [c \in HealthBoats |-> health'[c]]
    BY <1>2, <1>2a DEF HealthTypes
  <2>4. missed' \in [HealthBoats -> Reasons]
    BY <1>2, <1>2a DEF HealthTypes, Reasons
  <2>5. due' \in [HealthBoats -> [since : 0 .. CycleTime, within : 0 .. CycleTime]]
    BY <1>2, <1>2a, <1>3, HealthAssumption DEF HealthTypes, HealthAssumption
  <2> QED
    BY <1>2, <1>2a, <2>2, <2>3, <2>4, <2>5 DEF HealthTypes
<1>10. DueAsHeard'
  <2>1. Within(speed, state)' = Within(speed, state)
    BY <1>2a DEF Within
  <2>2. /\ missed'[b] = "no" => due'[b].within = Within(health'[b].speed, health'[b].state)
        /\ due'[b].within > 0 => health'[b].t <= due'[b].since
    BY <1>6, <1>7, <1>3
  <2>3. \A c \in HealthBoats \ {b} : health'[c] # Unheard =>
          /\ missed'[c] = "no" => due'[c].within = Within(health'[c].speed, health'[c].state)
          /\ due'[c].within > 0 => health'[c].t <= due'[c].since
    BY <1>8 DEF DueAsHeard
  <2> QED
    BY <1>2, <1>2a, <2>2, <2>3 DEF DueAsHeard, Within
<1>11. NotLate'
  BY <1>3, <1>7, <1>8 DEF NotLate
<1>12. GapsExplained'
  BY <1>6, <1>8 DEF GapsExplained
<1> QED
  BY <1>9, <1>10, <1>11, <1>12

\* What a boat is after a second, as HealthTick says.
HealthLater(h) ==
  [h EXCEPT !.samples = Keep([i \in DOMAIN @ |-> Older1(@[i])]),
            !.gaps = Keep([i \in DOMAIN @ |-> Older1(@[i])]),
            !.ts = Aged(@), !.t = Aged(@), !.finished = Aged(@)]

LEMMA AgedGaps ==
  ASSUME NEW seq \in Seq(AGap), \A i \in DOMAIN seq : seq[i].cause
  PROVE  LET later == Keep([i \in DOMAIN seq |-> Older1(seq[i])])
         IN later \in Seq(AGap) /\ \A i \in DOMAIN later : later[i].cause
<1> DEFINE older == [i \in DOMAIN seq |-> Older1(seq[i])]
<1>1. \A e \in AGap : Older1(e) \in AGap /\ (e.cause => Older1(e).cause)
  <2> SUFFICES ASSUME NEW e \in AGap
               PROVE  Older1(e) \in AGap /\ (e.cause => Older1(e).cause)
    OBVIOUS
  <2>1. Older1(e) = [age |-> e.age + 1, cause |-> e.cause]
    BY DEF Older1, AGap
  <2>2. e.age + 1 \in Nat /\ e.cause \in BOOLEAN
    BY DEF AGap
  <2> QED
    BY <2>1, <2>2 DEF AGap
<1>2. older \in Seq(AGap) /\ DOMAIN older = DOMAIN seq /\ \A i \in DOMAIN seq : older[i] = Older1(seq[i])
  BY <1>1
<1>3. \A i \in DOMAIN older : older[i].cause
  <2> TAKE i \in DOMAIN older
  <2>1. seq[i] \in AGap /\ seq[i].cause /\ older[i] = Older1(seq[i])
    BY <1>2
  <2> QED
    BY <2>1, <1>1
<1> HIDE DEF older
<1>4. Keep(older) \in Seq(AGap) /\ \A i \in DOMAIN Keep(older) : \E j \in DOMAIN older : Keep(older)[i] = older[j]
  BY <1>2, PrunedFrom
<1> QED
  BY <1>3, <1>4 DEF older

LEMMA LaterIsKept ==
  ASSUME NEW h, Kept(h), \A i \in DOMAIN h.gaps : h.gaps[i].cause
  PROVE  /\ Kept(HealthLater(h))
         /\ \A i \in DOMAIN HealthLater(h).gaps : HealthLater(h).gaps[i].cause
         /\ HealthLater(h).speed = h.speed /\ HealthLater(h).state = h.state /\ HealthLater(h).t <= h.t + 1
<1> DEFINE gaps == Keep([i \in DOMAIN h.gaps |-> Older1(h.gaps[i])])
<1>1. gaps \in Seq(AGap) /\ \A i \in DOMAIN gaps : gaps[i].cause
  BY AgedGaps DEF Kept
<1> DEFINE samples == Keep([i \in DOMAIN h.samples |-> Older1(h.samples[i])])
<1>2a. HealthLater(h) = [h EXCEPT !.samples = samples, !.gaps = gaps, !.ts = Aged(h.ts), !.t = Aged(h.t),
                                  !.finished = Aged(h.finished)]
  BY DEF HealthLater
<1> HIDE DEF gaps, samples
<1>2. HealthLater(h) = [samples |-> samples, gaps |-> gaps, ts |-> Aged(h.ts), t |-> Aged(h.t), speed |-> h.speed,
                  state |-> h.state, finished |-> Aged(h.finished)]
  BY <1>2a DEF Kept, Card
<1>3. Aged(h.t) \in Nat /\ Aged(h.t) <= h.t + 1 /\ h.ts = h.t
  BY AgesCount DEF Kept
<1> QED
  BY <1>1, <1>2, <1>3 DEF Kept, Card

LEMMA HealthTickStep ==
  ASSUME HealthInv, HealthTick
  PROVE  HealthInv'
<1> USE DEF HealthInv
<1>1. /\ \A b \in HealthBoats : due[b].within = 0 \/ due[b].since < due[b].within
      /\ health' = [b \in HealthBoats |-> IF health[b] = Unheard THEN Unheard ELSE HealthLater(health[b])]
      /\ due' = [b \in HealthBoats |-> [due[b] EXCEPT !.since = Min({@ + 1, CycleTime})]]
      /\ UNCHANGED <<bursts, badBoats, missed>>
  BY DEF HealthTick, HealthLater
<1>2. ASSUME NEW b \in HealthBoats
      PROVE  /\ due'[b] \in [since : 0 .. CycleTime, within : 0 .. CycleTime]
             /\ due'[b].within = due[b].within
             /\ due'[b].within > 0 => due'[b].since <= due'[b].within /\ due'[b].since = due[b].since + 1
  <2>1. CycleTime \in Nat /\ due[b].since \in 0 .. CycleTime /\ due[b].within \in 0 .. CycleTime
    BY HealthAssumption DEF HealthAssumption, HealthTypes
  <2>2. due'[b] = [since |-> Min({due[b].since + 1, CycleTime}), within |-> due[b].within]
    BY <1>1 DEF HealthTypes
  <2>3. Min({due[b].since + 1, CycleTime}) = IF due[b].since + 1 <= CycleTime THEN due[b].since + 1 ELSE CycleTime
    BY <2>1, MinOfTwo
  <2>4. due[b].within = 0 \/ due[b].since < due[b].within
    BY <1>1
  <2> HIDE DEF HealthInv
  <2> QED
    BY <2>1, <2>2, <2>3, <2>4
<1>3. ASSUME NEW b \in HealthBoats, health'[b] # Unheard
      PROVE  /\ health[b] # Unheard /\ Kept(health[b]) /\ health'[b] = HealthLater(health[b])
             /\ Kept(health'[b])
             /\ \A i \in DOMAIN health'[b].gaps : health'[b].gaps[i].cause
             /\ health'[b].speed = health[b].speed /\ health'[b].state = health[b].state
             /\ health'[b].t <= health[b].t + 1
  <2>1. health[b] # Unheard /\ health'[b] = HealthLater(health[b])
    BY <1>1, <1>3
  <2>2. Kept(health[b]) /\ \A i \in DOMAIN health[b].gaps : health[b].gaps[i].cause
    BY <2>1 DEF HealthTypes, GapsExplained
  <2> QED
    BY <2>1, <2>2, LaterIsKept
<1>4. HealthTypes'
  <2>1. due' \in [HealthBoats -> [since : 0 .. CycleTime, within : 0 .. CycleTime]]
    BY <1>1, <1>2
  <2>2. health' = [b \in HealthBoats |-> health'[b]]
    BY <1>1
  <2> QED
    BY <1>1, <1>3, <2>1, <2>2 DEF HealthTypes
<1>5. DueAsHeard'
  <2> SUFFICES ASSUME NEW b \in HealthBoats, health'[b] # Unheard
               PROVE  /\ missed'[b] = "no" => due'[b].within = Within(health[b].speed, health[b].state)'
                      /\ due'[b].within > 0 => health'[b].t <= due'[b].since
    BY DEF DueAsHeard
  <2>1. missed'[b] = "no" => due'[b].within = Within(health[b].speed, health[b].state)'
    BY <1>1, <1>2, <1>3 DEF DueAsHeard, Within
  <2>2. ASSUME due'[b].within > 0
        PROVE  health'[b].t <= due'[b].since
    <3>1. health[b].t <= due[b].since /\ due'[b].since = due[b].since + 1
      BY <1>2, <1>3, <2>2 DEF DueAsHeard
    <3>2. health'[b].t <= health[b].t + 1 /\ health[b].t \in Nat /\ health'[b].t \in Nat
      BY <1>3 DEF Kept
    <3>3. due[b].since \in Nat
      BY HealthAssumption DEF HealthAssumption, HealthTypes
    <3> HIDE DEF HealthInv
    <3> QED
      BY <3>1, <3>2, <3>3
  <2> QED
    BY <2>1, <2>2
<1>6. NotLate'
  BY <1>2 DEF NotLate
<1>7. GapsExplained'
  BY <1>3 DEF GapsExplained
<1> QED
  BY <1>4, <1>5, <1>6, <1>7

LEMMA HealthStep ==
  ASSUME HealthInv, [HealthNext]_healthVars
  PROVE  HealthInv'
<1>1. CASE HealthCheck
  BY <1>1, CheckStep
<1>2. CASE BurstsChange
  BY <1>2, BurstsStep
<1>3. CASE HealthTick
  BY <1>3, HealthTickStep
<1>4. ASSUME NEW b \in HealthBoats, Reports(b)
      PROVE  HealthInv'
  BY <1>4, HealthReportStep
<1>5. ASSUME NEW b \in HealthBoats, Misses(b) \/ StopsClose(b) \/ SwitchedOff(b)
      PROVE  HealthInv'
  BY <1>5, MissStep
<1>6. CASE UNCHANGED healthVars
  BY <1>6 DEF healthVars, HealthInv, HealthTypes, DueAsHeard, NotLate, GapsExplained, Within
<1> QED
  BY <1>1, <1>2, <1>3, <1>4, <1>5, <1>6 DEF HealthNext

-----------------------------------------------------------------------------
\* A boat that is not missed, or finished and stopped or is off, is not silent for too long.
LEMMA NotTooSilent ==
  ASSUME HealthInv, NEW b \in HealthBoats, health[b] # Unheard,
         missed[b] = "no" \/ (missed[b] \in {"off", "stopped"} /\ Finished(health[b]))
  PROVE  SilentLevel(health[b]) # Bad
<1> DEFINE h == health[b]
<1> SUFFICES ASSUME WasMoving(h), h.t >= SilentBad
             PROVE  FALSE
  BY DEF SilentLevel, Ok, Warn, Bad
<1>1. /\ CycleTime \in Nat /\ SilentBad \in Nat /\ FinishSlack \in Nat
      /\ CycleTime < SilentBad /\ FinishSlack < SilentBad
  BY HealthAssumption DEF HealthAssumption
<1>2. Kept(h) /\ bursts \in BOOLEAN
  BY DEF HealthInv, HealthTypes
<1>3. CASE missed[b] = "no"
  <2>1. Within(h.speed, h.state) > 0 /\ Within(h.speed, h.state) \in 0 .. CycleTime
    BY <1>2, DueIsNoGap DEF WasMoving, Kept
  <2>2. due[b].within = Within(h.speed, h.state)
    BY <1>3 DEF HealthInv, DueAsHeard
  <2>3. h.t <= due[b].since /\ due[b].since <= due[b].within
    BY <2>1, <2>2 DEF HealthInv, DueAsHeard, NotLate
  <2>4. due[b].since \in 0 .. CycleTime /\ h.t \in Nat
    BY <1>2 DEF HealthInv, HealthTypes, Kept
  <2> QED
    BY <1>1, <2>1, <2>2, <2>3, <2>4
<1>4. CASE missed[b] \in {"off", "stopped"} /\ Finished(h)
  <2>1. ~(h.t > FinishSlack)
    BY <1>4 DEF WasMoving
  <2> QED
    BY <1>1, <1>2, <2>1 DEF Kept
<1> QED
  BY <1>3, <1>4

LEMMA NeverFalse == HealthInv => NoFalseAlarm
<1> SUFFICES ASSUME HealthInv, NEW b \in HealthBoats, Seen(health[b])
             PROVE  /\ \A i \in DOMAIN health[b].gaps : health[b].gaps[i].cause
                    /\ /\ health[b].gaps = <<>> /\ RtkLevel(health[b]) # Bad
                       /\ missed[b] = "no" \/ (missed[b] \in {"off", "stopped"} /\ Finished(health[b]))
                       => Level(health[b]) # Bad
  BY DEF NoFalseAlarm
<1> DEFINE h == health[b]
<1>1. h # Unheard
  BY DEF Seen
<1>2. \A i \in DOMAIN h.gaps : h.gaps[i].cause
  BY <1>1 DEF HealthInv, GapsExplained
<1>3. ASSUME h.gaps = <<>>, RtkLevel(h) # Bad, missed[b] = "no" \/ (missed[b] \in {"off", "stopped"} /\ Finished(h))
      PROVE  Level(h) # Bad
  <2> DEFINE waits == IF h.state = "waiting" THEN Warn ELSE Ok
  <2>1. SilentLevel(h) \in {Ok, Warn} 
    <3>1. SilentLevel(h) # Bad
      BY <1>1, <1>3, NotTooSilent
    <3> QED
      BY <3>1 DEF SilentLevel
  <2>2. GapLevel(h) = Ok
    <3>1. Len(h.gaps) = 0 /\ GapsBad \in Nat \ {0}
      BY <1>3, HealthAssumption DEF HealthAssumption
    <3> QED
      BY <1>3, <3>1 DEF GapLevel
  <2>3. RtkLevel(h) \in {Ok, Warn}
    BY <1>3 DEF RtkLevel
  <2>4. waits \in {Ok, Warn}
    OBVIOUS
  <2> HIDE DEF waits
  <2>5. Max({RtkLevel(h), GapLevel(h), SilentLevel(h), waits}) \in {Ok, Warn}
    <3>1. \A l \in {Ok, Warn} : l \in Int
      BY DEF Ok, Warn
    <3> QED
      BY <2>1, <2>2, <2>3, <2>4, <3>1, MaxOfFour
  <2>6. Level(h) \in {Quiet, Max({RtkLevel(h), GapLevel(h), SilentLevel(h), waits})}
    BY DEF Level, waits
  <2> QED
    BY <2>5, <2>6 DEF Quiet, Ok, Warn, Bad
<1> QED
  BY <1>2, <1>3

\* What an alarm of linkHealth.js can be blamed on, whatever the intervals and the thresholds are: every
\* gap that counts has a lost frame, a boat that was off, one that stopped within TX_DISTANCE_M of its
\* last report or a change of the rate behind it; and a boat whose frames all arrive is not bad while it
\* goes on, nor after it finished and stopped.
THEOREM AlarmsAreTrue == HealthSpec => []NoFalseAlarm
<1>1. HealthInit => HealthInv
  BY InitHealth
<1>2. HealthInv /\ [HealthNext]_healthVars => HealthInv'
  BY HealthStep
<1>3. HealthInv => NoFalseAlarm
  BY NeverFalse
<1> QED
  BY <1>1, <1>2, <1>3, PTL DEF HealthSpec

\* HealthTypeOK beside what HealthInv says of the ages and the states.
HealthBounds ==
  /\ badBoats \subseteq HealthBoats
  /\ \A b \in HealthBoats : health[b] # Unheard => health[b].t <= Long

LEMMA ReportsNow ==
  ASSUME HealthInv, NEW b \in HealthBoats, Reports(b)
  PROVE  /\ \A c \in HealthBoats \ {b} : health'[c] = health[c]
         /\ health'[b].t = 0
<1>1. \A g, old, rtk, speed, state :
        LET r == Recorded(g, b, old, rtk, speed, state) IN r.t = 0 /\ [r EXCEPT !.finished = 0].t = 0
  <2>1. \A samples, gaps, ts, speed, state, finished :
          LET r == [samples |-> samples, gaps |-> gaps, ts |-> ts, t |-> 0, speed |-> speed, state |-> state,
                    finished |-> finished]
          IN r.t = 0 /\ [r EXCEPT !.finished = 0].t = 0
    OBVIOUS
  <2> QED BY <2>1 DEF Recorded
<1>2. PICK speed \in Speeds, state \in {"slot", "parked", "waiting"}, rtk \in BOOLEAN, finish \in BOOLEAN :
        LET one == Recorded(health[b], b, 0, rtk, speed, state)
            two == Recorded(Recorded(health[b], b, 1, rtk, speed, state), b, 0, rtk, speed, state)
        IN \E h \in {one} \cup (IF due[b].since > 1 THEN {two} ELSE {}) :
             /\ health' = [health EXCEPT ![b] = IF finish THEN [h EXCEPT !.finished = 0] ELSE h]
             /\ finish => state = "slot"
             /\ due' = [due EXCEPT ![b] = [since |-> 0, within |-> Within(speed, state)]]
        /\ due[b].since > 0
        /\ missed' = [missed EXCEPT ![b] = "no"]
        /\ UNCHANGED <<bursts, badBoats>>
  BY DEF Reports
<1> DEFINE one == Recorded(health[b], b, 0, rtk, speed, state)
           two == Recorded(Recorded(health[b], b, 1, rtk, speed, state), b, 0, rtk, speed, state)
<1>3. PICK h \in {one} \cup (IF due[b].since > 1 THEN {two} ELSE {}) :
        health' = [health EXCEPT ![b] = IF finish THEN [h EXCEPT !.finished = 0] ELSE h]
  BY <1>2
<1>4. one.t = 0 /\ [one EXCEPT !.finished = 0].t = 0 /\ two.t = 0 /\ [two EXCEPT !.finished = 0].t = 0
  BY <1>1
<1> HIDE DEF one, two
<1>5. h.t = 0 /\ [h EXCEPT !.finished = 0].t = 0
  BY <1>3, <1>4
<1>6. health = [c \in HealthBoats |-> health[c]]
  BY DEF HealthInv, HealthTypes
<1> QED BY <1>3, <1>5, <1>6

LEMMA HealthBoundsKept ==
  ASSUME HealthInv, HealthBounds, [HealthNext]_healthVars
  PROVE  HealthBounds'
<1> USE DEF HealthBounds
<1>1. Long \in Nat
  BY HealthAssumption, MaxOfThree DEF Long, HealthAssumption
<1>1a. ASSUME NEW a \in Nat
       PROVE  Aged(a) <= Long
  BY <1>1, MinOfTwo DEF Aged
<1>2. CASE UNCHANGED healthVars
  BY <1>2 DEF healthVars
<1>3. CASE HealthCheck
  <2>1. /\ badBoats' \subseteq HealthBoats
        /\ health' = [b \in HealthBoats |-> IF Seen(health[b]) THEN health[b] ELSE Unheard]
    BY <1>3 DEF HealthCheck
  <2>2. \A b \in HealthBoats : health'[b] # Unheard => health'[b] = health[b]
    BY <2>1
  <2> QED BY <2>1, <2>2
<1>4. CASE BurstsChange
  BY <1>4 DEF BurstsChange
<1>5. CASE HealthTick
  <2>1. /\ badBoats' = badBoats
        /\ health' = [b \in HealthBoats |-> IF health[b] = Unheard THEN Unheard ELSE HealthLater(health[b])]
    BY <1>5 DEF HealthTick, HealthLater
  <2>2. ASSUME NEW b \in HealthBoats, health'[b] # Unheard
        PROVE  health'[b].t <= Long
    <3>1. health[b] # Unheard /\ health'[b] = HealthLater(health[b]) /\ Kept(health[b])
      BY <2>1, <2>2 DEF HealthInv, HealthTypes
    <3>2. HealthLater(health[b]).t = Aged(health[b].t) /\ health[b].t \in Nat
      BY <3>1 DEF HealthLater, Kept, Card
    <3>3. Aged(health[b].t) <= Long
      BY <1>1a, <3>2
    <3> QED BY <3>1, <3>2, <3>3
  <2> QED BY <2>1, <2>2
<1>6. ASSUME NEW b \in HealthBoats, Reports(b)
      PROVE  HealthBounds'
  <2>1. badBoats' = badBoats
    BY <1>6 DEF Reports
  <2>2. /\ \A c \in HealthBoats \ {b} : health'[c] = health[c]
        /\ health'[b].t = 0
    BY <1>6, ReportsNow
  <2> QED BY <1>1, <2>1, <2>2
<1>7. ASSUME NEW b \in HealthBoats, Misses(b) \/ StopsClose(b) \/ SwitchedOff(b)
      PROVE  HealthBounds'
  BY <1>7 DEF Misses, StopsClose, SwitchedOff
<1> QED
  BY <1>2, <1>3, <1>4, <1>5, <1>6, <1>7 DEF HealthNext

\* What linkHealth.js keeps of a boat is well formed: a fix never arrives before it was taken, and
\* the alerter names only boats of the fleet.
THEOREM HealthTypeCorrect == HealthSpec => []HealthTypeOK
<1>1. HealthInit => HealthInv /\ HealthBounds
  BY InitHealth DEF HealthInit, HealthBounds
<1>2. HealthInv /\ HealthBounds /\ [HealthNext]_healthVars => HealthInv' /\ HealthBounds'
  BY HealthStep, HealthBoundsKept
<1>3. HealthInv /\ HealthBounds => HealthTypeOK
  <2> SUFFICES ASSUME HealthInv, HealthBounds
               PROVE  HealthTypeOK
    OBVIOUS
  <2>1. Long \in Nat
    BY HealthAssumption, MaxOfThree DEF Long, HealthAssumption
  <2>2. \A b \in HealthBoats : health[b] # Unheard =>
          health[b].t \in Nat /\ health[b].ts = health[b].t /\ health[b].state \in States /\ health[b].t <= Long
    BY DEF HealthInv, HealthTypes, Kept, HealthBounds
  <2> HIDE DEF Long
  <2>3. \A b \in HealthBoats : health[b] = Unheard \/
       (health[b].t \in 0 .. Long /\ health[b].state \in {"slot", "parked", "waiting"} /\ health[b].ts >= health[b].t)
    BY <2>1, <2>2 DEF States
  <2> QED BY <2>3 DEF HealthTypeOK, HealthInv, HealthTypes, HealthBounds
<1> QED
  BY <1>1, <1>2, <1>3, PTL DEF HealthSpec

-----------------------------------------------------------------------------
(***************************************************************************)
(* LogUpload: a log file that a boat has marked as sent is whole at the    *)
(* base, for any number of files, regattas, open connections and troubles. *)
(***************************************************************************)

\* What is left of a sequence without one element.
LEMMA WithoutOne ==
  ASSUME NEW S, NEW s \in Seq(S), NEW i \in 1 .. Len(s)
  PROVE  /\ RemoveAt(s, i) \in Seq(S)
         /\ Len(RemoveAt(s, i)) = Len(s) - 1
         /\ \A j \in 1 .. Len(s) - 1 : RemoveAt(s, i)[j] = IF j < i THEN s[j] ELSE s[j + 1]
<1> DEFINE front == SubSeq(s, 1, i - 1)
           back  == SubSeq(s, i + 1, Len(s))
<1>1. front \in Seq(S) /\ Len(front) = i - 1 /\ \A j \in 1 .. i - 1 : front[j] = s[j]
  OBVIOUS
<1>2. back \in Seq(S) /\ Len(back) = Len(s) - i /\ \A j \in 1 .. Len(s) - i : back[j] = s[j + i]
  OBVIOUS
<1>3. RemoveAt(s, i) = front \o back
  BY DEF RemoveAt
<1> HIDE DEF front, back
<1>4. RemoveAt(s, i) \in Seq(S) /\ Len(RemoveAt(s, i)) = Len(s) - 1
  BY <1>1, <1>2, <1>3
<1>5. ASSUME NEW j \in 1 .. Len(s) - 1
      PROVE  RemoveAt(s, i)[j] = IF j < i THEN s[j] ELSE s[j + 1]
  <2>1. CASE j < i
    BY <1>1, <1>2, <1>3, <2>1
  <2>2. CASE ~(j < i)
    <3>1. (front \o back)[j] = back[j - (i - 1)]
      BY <1>1, <1>2, <2>2
    <3>2. back[j - (i - 1)] = s[(j - (i - 1)) + i]
      BY <1>2, <2>2
    <3> QED BY <1>3, <2>2, <3>1, <3>2
  <2> QED BY <2>1, <2>2
<1> QED BY <1>4, <1>5

-----------------------------------------------------------------------------
LogNames == Buckets \X (1 .. Chunks)
Files == [n : Nat, has : SUBSET Halves, there : BOOLEAN]
Conns == [of : LogNames, n : Nat, next : 1 .. 3, file : {"part", "stored", "removed"}, heard : BOOLEAN]
Doings == {"nothing", "found", "sending", "answered"}

BoatTypes ==
  /\ slice \in Nat
  /\ lines \in [1 .. Chunks -> Int] /\ \A c \in 1 .. Chunks : lines[c] >= Gone
  /\ late \in [1 .. Chunks -> Nat]
  /\ marked \subseteq 1 .. Chunks
  /\ client \in [doing : Doings, chunk : 0 .. Chunks]

UploadTypes ==
  /\ conns \in Seq(Conns)
  /\ bucket \in Buckets
  /\ parts \in [LogNames -> Files]
  /\ stored \in [LogNames -> Files]

\* A file is only written for a slice that has come, and what the client has to do with is a file of
\* a slice that is over, and not marked until it is answered.
Order ==
  /\ \A c \in 1 .. Chunks : lines[c] # Gone => c <= slice
  /\ client # Waiting => client.doing # "nothing" /\ client.chunk \in 1 .. slice - 1
  /\ client.doing \in {"found", "sending"} => client.chunk \notin marked
  /\ \A c \in marked : c < slice

\* n lines are all that a file c had when its slice ended.
EnoughCopied(n, c) == lines[c] # Gone => n >= lines[c] - late[c]

\* The connection the client listens to is the last one opened, is for the file the client sends, and
\* if there is a .part file, it is the one this connection has written to since it opened it.
Listening ==
  \A i \in 1 .. Len(conns) : conns[i].heard =>
    LET w == conns[i] IN
    /\ i = Len(conns)
    /\ client.doing = "sending" /\ client.chunk = w.of[2]
    /\ EnoughCopied(w.n, w.of[2])
    /\ parts[w.of].there => /\ w.file = "part"
                            /\ 1 .. w.next - 1 \subseteq parts[w.of].has
                            /\ parts[w.of].n >= w.n

\* A file c is stored, and no .part file can be renamed over it.
Safe(c) == \E b \in Buckets : /\ ~parts[<<b, c>>].there
                              /\ Whole(stored[<<b, c>>])
                              /\ EnoughCopied(stored[<<b, c>>].n, c)

FilesKept ==
  /\ \A c \in marked : Safe(c)
  /\ client.doing = "answered" => Safe(client.chunk)

UploadInv == BoatTypes /\ UploadTypes /\ Order /\ Listening /\ FilesKept

-----------------------------------------------------------------------------
\* No connection open is heard: nothing is said of any.
LEMMA GivenUpIs ==
  ASSUME conns \in Seq(Conns)
  PROVE  /\ GivenUp \in Seq(Conns)
         /\ Len(GivenUp) = Len(conns)
         /\ \A i \in 1 .. Len(GivenUp) : ~GivenUp[i].heard
<1>1. \A i \in 1 .. Len(conns) : conns[i] \in Conns
  OBVIOUS
<1>2. \A i \in 1 .. Len(conns) : [conns[i] EXCEPT !.heard = FALSE] \in Conns
  BY <1>1 DEF Conns
<1>3. \A i \in 1 .. Len(conns) : ~[conns[i] EXCEPT !.heard = FALSE].heard
  BY <1>1 DEF Conns
<1> QED BY <1>2, <1>3 DEF GivenUp

\* The connections that are left when connection i ends are as they were, but for what they write to
\* when that is the .part file of the same upload.
LEMMA RestIs ==
  ASSUME conns \in Seq(Conns), NEW i \in 1 .. Len(conns), NEW moved \in BOOLEAN
  PROVE  /\ Rest(i, moved) \in Seq(Conns)
         /\ Len(Rest(i, moved)) = Len(conns) - 1
         /\ \A j \in 1 .. Len(conns) - 1 :
              LET v == Rest(i, moved)[j]
                  u == conns[IF j < i THEN j ELSE j + 1]
              IN /\ v.of = u.of /\ v.n = u.n /\ v.next = u.next /\ v.heard = u.heard
                 /\ u.of # conns[i].of => v.file = u.file
<1> DEFINE w == conns[i]
           now(v) == IF v.of # w.of THEN v.file
                     ELSE IF v.file = "part" THEN (IF moved THEN "stored" ELSE "removed")
                     ELSE IF moved THEN "removed" ELSE v.file
           new(v) == [v EXCEPT !.file = now(v)]
           all == [j \in 1 .. Len(conns) |-> [conns[j] EXCEPT !.file = now(conns[j])]]
<1>1. ASSUME NEW v \in Conns
      PROVE  /\ new(v) \in Conns
             /\ new(v).of = v.of /\ new(v).n = v.n /\ new(v).next = v.next /\ new(v).heard = v.heard
             /\ v.of # w.of => new(v).file = v.file
  BY <1>1 DEF Conns
<1>2. \A j \in 1 .. Len(conns) : conns[j] \in Conns
  OBVIOUS
<1>3. all \in Seq(Conns) /\ Len(all) = Len(conns) /\ \A j \in 1 .. Len(conns) : all[j] = new(conns[j])
  BY <1>1, <1>2
<1>4. Rest(i, moved) = RemoveAt(all, i)
  BY DEF Rest
<1> HIDE DEF all, new
<1>5. i \in 1 .. Len(all)
  BY <1>3
<1>6. /\ RemoveAt(all, i) \in Seq(Conns)
      /\ Len(RemoveAt(all, i)) = Len(all) - 1
      /\ \A j \in 1 .. Len(all) - 1 : RemoveAt(all, i)[j] = IF j < i THEN all[j] ELSE all[j + 1]
  BY <1>3, <1>5, WithoutOne
<1>7. ASSUME NEW j \in 1 .. Len(conns) - 1
      PROVE  LET v == Rest(i, moved)[j]
                 u == conns[IF j < i THEN j ELSE j + 1]
             IN /\ v.of = u.of /\ v.n = u.n /\ v.next = u.next /\ v.heard = u.heard
                /\ u.of # conns[i].of => v.file = u.file
  <2> DEFINE k == IF j < i THEN j ELSE j + 1
  <2>1. Len(conns) \in Nat
    OBVIOUS
  <2>2. k \in 1 .. Len(conns)
    BY <2>1
  <2>3. Rest(i, moved)[j] = all[k]
    BY <1>3, <1>4, <1>6
  <2>4. Rest(i, moved)[j] = new(conns[k])
    BY <1>3, <2>2, <2>3
  <2> HIDE DEF k
  <2>5. conns[k] \in Conns
    BY <1>2, <2>2
  <2>6. LET v == new(conns[k])
            u == conns[k]
        IN /\ v.of = u.of /\ v.n = u.n /\ v.next = u.next /\ v.heard = u.heard
           /\ u.of # conns[i].of => v.file = u.file
    BY <1>1, <2>5
  <2> QED BY <2>4, <2>6 DEF k
<1> QED BY <1>3, <1>4, <1>6, <1>7

LEMMA StartKept ==
  ASSUME LogInit PROVE UploadInv
<1> USE LogAssumption DEF LogInit, LogAssumption
<1>1. BoatTypes
  BY DEF BoatTypes, Waiting, Doings, Gone
<1>2. NoSuchFile \in Files
  BY DEF NoSuchFile, Files
<1>3. UploadTypes
  BY <1>2 DEF UploadTypes, LogNames
<1>4. Order /\ Listening /\ FilesKept
  BY DEF Order, Listening, FilesKept, Waiting
<1> QED BY <1>1, <1>3, <1>4 DEF UploadInv

-----------------------------------------------------------------------------
(* The boat's files.                                                        *)

LEMMA LogPvtKeeps ==
  ASSUME UploadInv, NEW c \in 1 .. Chunks, LogPvt(c) PROVE UploadInv'
<1> USE DEF UploadInv
<1>1. BoatTypes' /\ UploadTypes'
  BY LogAssumption DEF LogPvt, BoatTypes, UploadTypes, baseFiles, Gone, Trouble
<1>2. Order'
  BY DEF LogPvt, BoatTypes, Order, Gone
<1>3. ASSUME NEW d \in 1 .. Chunks, d < slice, NEW n \in Nat, EnoughCopied(n, d)
      PROVE  EnoughCopied(n, d)'
  BY <1>3 DEF LogPvt, BoatTypes, EnoughCopied, Gone
<1>4. Listening'
  <2> SUFFICES ASSUME NEW i \in 1 .. Len(conns), conns[i].heard
               PROVE  EnoughCopied(conns[i].n, conns[i].of[2])'
    BY DEF LogPvt, Listening, baseFiles
  <2>1. conns[i] \in Conns
    BY DEF UploadTypes
  <2>2. client.doing = "sending" /\ client.chunk = conns[i].of[2] /\ EnoughCopied(conns[i].n, conns[i].of[2])
    BY DEF Listening
  <2>3. client.chunk \in 1 .. slice - 1
    BY <2>2 DEF Order, Waiting
  <2>4. conns[i].of[2] \in 1 .. Chunks /\ conns[i].of[2] < slice /\ conns[i].n \in Nat
    BY <2>1, <2>2, <2>3 DEF Conns, LogNames, BoatTypes
  <2>5. conns' = conns
    BY DEF LogPvt
  <2> QED BY <1>3, <2>2, <2>4, <2>5 DEF EnoughCopied
<1>5. ASSUME NEW d \in 1 .. Chunks, d < slice, Safe(d) PROVE Safe(d)'
  <2>1. PICK b \in Buckets : ~parts[<<b, d>>].there /\ Whole(stored[<<b, d>>])
                             /\ EnoughCopied(stored[<<b, d>>].n, d)
    BY <1>5 DEF Safe
  <2>2. stored[<<b, d>>] \in Files
    BY DEF UploadTypes, LogNames
  <2>3. parts' = parts /\ stored' = stored
    BY DEF LogPvt, baseFiles
  <2>4. stored[<<b, d>>].n \in Nat
    BY <2>2 DEF Files
  <2>5. EnoughCopied(stored[<<b, d>>].n, d)'
    BY <1>3, <1>5, <2>1, <2>3, <2>4 DEF EnoughCopied
  <2> QED BY <2>1, <2>3, <2>5 DEF Safe, Whole
<1>6. FilesKept'
  <2>1. marked' = marked /\ client' = client
    BY DEF LogPvt
  <2>2. client.doing = "answered" => client.chunk \in 1 .. Chunks /\ client.chunk < slice
    BY DEF Order, Waiting, BoatTypes
  <2> QED BY <1>5, <2>1, <2>2 DEF FilesKept, Order, BoatTypes
<1> QED BY <1>1, <1>2, <1>4, <1>6

LEMMA NextSliceKeeps ==
  ASSUME UploadInv, NextSlice PROVE UploadInv'
<1> USE DEF UploadInv, NextSlice, baseFiles
<1>1. BoatTypes' /\ UploadTypes'
  BY DEF BoatTypes, UploadTypes
<1>2. Order'
  BY DEF BoatTypes, Order
<1>3. Listening' /\ FilesKept'
  BY DEF Listening, FilesKept, Safe, EnoughCopied, Whole
<1> QED BY <1>1, <1>2, <1>3

LEMMA PruneKeeps ==
  ASSUME UploadInv, NEW c \in 1 .. Chunks, Prune(c) PROVE UploadInv'
<1> USE DEF UploadInv
<1>1. BoatTypes' /\ UploadTypes'
  BY DEF Prune, BoatTypes, UploadTypes, baseFiles, Gone, Trouble
<1>2. Order'
  BY DEF Prune, BoatTypes, Order, Gone
<1>3. ASSUME NEW d \in 1 .. Chunks, NEW n, EnoughCopied(n, d) PROVE EnoughCopied(n, d)'
  BY <1>3 DEF Prune, BoatTypes, EnoughCopied, Gone
<1>4. parts' = parts /\ stored' = stored /\ conns' = conns /\ client' = client /\ marked' = marked
  BY DEF Prune, baseFiles
<1>5. Listening'
  <2> SUFFICES ASSUME NEW i \in 1 .. Len(conns), conns[i].heard
               PROVE  EnoughCopied(conns[i].n, conns[i].of[2])'
    BY <1>4 DEF Listening
  <2>1. conns[i] \in Conns
    BY DEF UploadTypes
  <2>2. conns[i].of[2] \in 1 .. Chunks
    BY <2>1 DEF Conns, LogNames
  <2> QED BY <1>3, <1>4, <2>2 DEF Listening, EnoughCopied
<1>6. ASSUME NEW d \in 1 .. Chunks, Safe(d) PROVE Safe(d)'
  <2>1. PICK b \in Buckets : ~parts[<<b, d>>].there /\ Whole(stored[<<b, d>>])
                             /\ EnoughCopied(stored[<<b, d>>].n, d)
    BY <1>6 DEF Safe
  <2>2. EnoughCopied(stored[<<b, d>>].n, d)'
    BY <1>3, <1>4, <2>1 DEF EnoughCopied
  <2> QED BY <1>4, <2>1, <2>2 DEF Safe, Whole
<1>7. FilesKept'
  <2>1. client.doing = "answered" => client.chunk \in 1 .. Chunks
    BY DEF Order, Waiting, BoatTypes
  <2> QED BY <1>4, <1>6, <2>1 DEF FilesKept, BoatTypes
<1> QED BY <1>1, <1>2, <1>5, <1>7

-----------------------------------------------------------------------------
(* The client.                                                              *)

\* What stays when a step is not about the files: a file that is safe is still safe.
LEMMA SafeStays ==
  ASSUME UNCHANGED <<lines, late, parts, stored>>, NEW d, Safe(d) PROVE Safe(d)'
BY DEF Safe, Whole, EnoughCopied

LEMMA ClientTickKeeps ==
  ASSUME UploadInv, ClientTick PROVE UploadInv'
<1> USE DEF UploadInv
<1>1. PICK c \in Pending : client' = [doing |-> "found", chunk |-> c]
  BY DEF ClientTick
<1>2. UNCHANGED <<slice, lines, marked, late, conns, bucket, parts, stored>>
  BY DEF ClientTick, boatFiles, baseFiles
<1>3. c \in 1 .. Chunks /\ c < slice /\ c \notin marked
  BY DEF Pending, Order, BoatTypes
<1>4. BoatTypes' /\ UploadTypes'
  BY <1>1, <1>2, <1>3 DEF BoatTypes, UploadTypes, Doings
<1>5. Order'
  BY <1>1, <1>2, <1>3 DEF Order, BoatTypes
<1>6. Listening'
  BY <1>2 DEF Listening, ClientTick, Waiting
<1>7. FilesKept'
  BY <1>1, <1>2, SafeStays DEF FilesKept
<1> QED BY <1>4, <1>5, <1>6, <1>7

LEMMA UploadStartsKeeps ==
  ASSUME UploadInv, UploadStarts PROVE UploadInv'
<1> USE DEF UploadInv
<1> DEFINE c == client.chunk
           k == <<bucket, c>>
           w == [of |-> k, n |-> lines[c], next |-> 1, file |-> "part", heard |-> TRUE]
           f == [n |-> lines[c], has |-> {}, there |-> TRUE]
<1>1. client.doing = "found" /\ UNCHANGED <<slice, lines, marked, late, bucket, stored>>
  BY DEF UploadStarts, boatFiles
<1>2. c \in 1 .. Chunks /\ c \in 1 .. slice - 1 /\ c \notin marked
  BY <1>1 DEF Order, Waiting, BoatTypes
<1>3. \A i \in 1 .. Len(conns) : ~conns[i].heard
  BY <1>1 DEF Listening
<1>4. CASE lines[c] = Gone
  <2>1. client' = Waiting /\ conns' = conns /\ parts' = parts
    BY <1>4 DEF UploadStarts, ClientDies
  <2>2. BoatTypes' /\ UploadTypes' /\ Order'
    BY <1>1, <2>1, LogAssumption DEF BoatTypes, UploadTypes, Order, Waiting, Doings, LogAssumption
  <2>3. Listening'
    BY <1>3, <2>1 DEF Listening
  <2>4. FilesKept'
    BY <1>1, <2>1, SafeStays DEF FilesKept, Waiting
  <2> QED BY <2>2, <2>3, <2>4
<1>5. CASE lines[c] # Gone
  <2>1. conns' = Append(conns, w) /\ parts' = [parts EXCEPT ![k] = f]
        /\ client' = [client EXCEPT !.doing = "sending"]
    BY <1>5 DEF UploadStarts
  <2>2. lines[c] \in Nat
    BY <1>2, <1>5 DEF BoatTypes, Gone
  <2>3. k \in LogNames
    BY <1>2 DEF LogNames, UploadTypes
  <2>4. w \in Conns /\ f \in Files
    BY <2>2, <2>3 DEF Conns, Files
  <2>5. BoatTypes'
    BY <1>1, <2>1 DEF BoatTypes, Doings
  <2>6. UploadTypes'
    <3> HIDE DEF w, f, k
    <3> QED BY <1>1, <2>1, <2>3, <2>4 DEF UploadTypes
  <2>7. client'.doing = "sending" /\ client'.chunk = c
    BY <2>1 DEF BoatTypes
  <2>8. Order'
    BY <1>1, <1>2, <2>7 DEF Order
  <2>9. Listening'
    <3> SUFFICES ASSUME NEW i \in 1 .. Len(conns'), conns'[i].heard
                 PROVE  LET v == conns'[i] IN
                        /\ i = Len(conns')
                        /\ client'.doing = "sending" /\ client'.chunk = v.of[2]
                        /\ lines'[v.of[2]] # Gone => v.n >= lines'[v.of[2]] - late'[v.of[2]]
                        /\ parts'[v.of].there => /\ v.file = "part"
                                                 /\ 1 .. v.next - 1 \subseteq parts'[v.of].has
                                                 /\ parts'[v.of].n >= v.n
      BY DEF Listening, EnoughCopied
    <3>1. conns \in Seq(Conns)
      BY DEF UploadTypes
    <3>2. Len(conns') = Len(conns) + 1 /\ conns'[Len(conns) + 1] = w
          /\ \A j \in 1 .. Len(conns) : conns'[j] = conns[j]
      <4> HIDE DEF w
      <4> QED BY <2>1, <2>4, <3>1
    <3>3. i = Len(conns) + 1 /\ conns'[i] = w
      BY <1>3, <3>1, <3>2
    <3>4. parts'[k] = f
      BY <2>1, <2>3 DEF UploadTypes
    <3>5. lines[c] >= lines[c] - late[c]
      BY <1>2, <2>2 DEF BoatTypes
    <3>6. 1 .. 0 \subseteq f.has
      OBVIOUS
    <3>7. w.of = k /\ w.n = lines[c] /\ w.next = 1 /\ w.file = "part" /\ k[2] = c
          /\ f.n = lines[c] /\ f.n >= w.n
      BY <2>2
    <3> HIDE DEF c, k, w, f
    <3>8. conns'[i].of = k /\ conns'[i].next - 1 = 0
      BY <3>3, <3>7
    <3> QED BY <1>1, <2>7, <3>2, <3>3, <3>4, <3>5, <3>6, <3>7, <3>8
  <2>10. FilesKept'
    <3>1. ASSUME NEW d \in marked PROVE Safe(d)'
      <4>1. d # c
        BY <1>2
      <4>2. PICK b \in Buckets : ~parts[<<b, d>>].there /\ Whole(stored[<<b, d>>])
                                 /\ EnoughCopied(stored[<<b, d>>].n, d)
        BY <3>1 DEF FilesKept, Safe
      <4>3. <<b, d>> \in LogNames /\ <<b, d>> # k
        BY <3>1, <4>1 DEF LogNames, BoatTypes
      <4>4. parts'[<<b, d>>] = parts[<<b, d>>]
        BY <2>1, <4>3 DEF UploadTypes
      <4> QED BY <1>1, <4>2, <4>4 DEF Safe, Whole, EnoughCopied
    <3> QED BY <1>1, <2>7, <3>1 DEF FilesKept
  <2> QED BY <2>5, <2>6, <2>8, <2>9, <2>10
<1> QED BY <1>4, <1>5

\* The client gives up, for whatever reason, and no connection is heard any more.
LEMMA GivenUpKeeps ==
  ASSUME UploadInv, Timeout \/ BoatRestarts PROVE UploadInv'
<1> USE DEF UploadInv
<1>1. client' = Waiting /\ conns' = GivenUp /\ UNCHANGED <<slice, lines, marked, late, bucket, parts, stored>>
  BY DEF Timeout, BoatRestarts, ClientDies, boatFiles, baseFiles
<1>2. GivenUp \in Seq(Conns) /\ \A i \in 1 .. Len(GivenUp) : ~GivenUp[i].heard
  BY GivenUpIs DEF UploadTypes
<1>3. BoatTypes' /\ UploadTypes' /\ Order'
  BY <1>1, <1>2, LogAssumption DEF BoatTypes, UploadTypes, Order, Waiting, Doings, LogAssumption
<1>4. Listening'
  BY <1>1, <1>2 DEF Listening
<1>5. FilesKept'
  BY <1>1, SafeStays DEF FilesKept, Waiting
<1> QED BY <1>3, <1>4, <1>5

LEMMA MarkUploadedKeeps ==
  ASSUME UploadInv, NEW written \in BOOLEAN, MarkUploaded(written) PROVE UploadInv'
<1> USE DEF UploadInv
<1>1. client.doing = "answered" /\ client' = Waiting /\ marked' \in {marked, marked \cup {client.chunk}}
      /\ UNCHANGED <<slice, lines, late, conns, bucket, parts, stored>>
  BY DEF MarkUploaded, ClientDies, baseFiles
<1>2. client.chunk \in 1 .. Chunks /\ client.chunk \in 1 .. slice - 1
  BY <1>1 DEF Order, Waiting, BoatTypes
<1>3. BoatTypes' /\ UploadTypes'
  BY <1>1, <1>2, LogAssumption DEF BoatTypes, UploadTypes, Waiting, Doings, LogAssumption
<1>4. Order'
  BY <1>1, <1>2 DEF Order, Waiting, BoatTypes
<1>5. Listening'
  BY <1>1 DEF Listening
<1>6. \A d \in marked' : Safe(d)
  BY <1>1 DEF FilesKept
<1>7. FilesKept'
  BY <1>1, <1>6, SafeStays DEF FilesKept, Waiting
<1> QED BY <1>3, <1>4, <1>5, <1>7

-----------------------------------------------------------------------------
(* The server.                                                              *)

\* The files f when m lines' half h is written to k.
Put(f, k, h, m) == [f EXCEPT ![k].has = @ \cup {h}, ![k].n = IF @ > m THEN @ ELSE m]

\* What a file had, and the lines it was to have, are still there when a half is written to it.
LEMMA WithHalf ==
  ASSUME NEW f \in [LogNames -> Files], NEW k \in LogNames, NEW h \in Halves, NEW m \in Nat
  PROVE  /\ Put(f, k, h, m) \in [LogNames -> Files]
         /\ \A e \in LogNames : /\ Put(f, k, h, m)[e].there = f[e].there
                                /\ f[e].has \subseteq Put(f, k, h, m)[e].has
                                /\ f[e].n <= Put(f, k, h, m)[e].n
         /\ h \in Put(f, k, h, m)[k].has
<1> DEFINE new == [f[k] EXCEPT !.has = f[k].has \cup {h}, !.n = IF f[k].n > m THEN f[k].n ELSE m]
<1>1. f[k] \in Files
  OBVIOUS
<1>2. new \in Files /\ new.there = f[k].there /\ new.has = f[k].has \cup {h}
      /\ new.n = IF f[k].n > m THEN f[k].n ELSE m
  BY <1>1 DEF Files
<1>3. f[k].n <= new.n
  BY <1>1, <1>2 DEF Files
<1> DEFINE g == Put(f, k, h, m)
<1>4. g \in [LogNames -> Files] /\ g[k] = new /\ \A e \in LogNames : e # k => g[e] = f[e]
  BY <1>1, <1>2 DEF Files, Put
<1> HIDE DEF new, g
<1>5. \A e \in LogNames : f[e].n <= f[e].n
  BY DEF Files
<1> QED BY <1>2, <1>3, <1>4, <1>5 DEF g

\* A stored file only grows, and no .part file appears: what is safe stays so.
LEMMA GrowsSafe ==
  ASSUME NEW d \in 1 .. Chunks, Safe(d), BoatTypes, stored \in [LogNames -> Files], stored' \in [LogNames -> Files],
         UNCHANGED <<lines, late>>,
         \A e \in LogNames : /\ parts'[e].there => parts[e].there
                             /\ stored'[e].there = stored[e].there
                             /\ stored[e].has \subseteq stored'[e].has
                             /\ stored[e].n <= stored'[e].n
  PROVE  Safe(d)'
<1>1. PICK b \in Buckets : ~parts[<<b, d>>].there /\ Whole(stored[<<b, d>>]) /\ EnoughCopied(stored[<<b, d>>].n, d)
  BY DEF Safe
<1> DEFINE e == <<b, d>>
<1>2. e \in LogNames
  BY DEF LogNames
<1>3. stored[e] \in Files /\ stored'[e] \in Files
  BY <1>2
<1>4. ~parts'[e].there
  BY <1>1, <1>2
<1>5. stored'[e].there /\ stored'[e].has = Halves
  BY <1>1, <1>2, <1>3 DEF Whole, Files
<1>6. lines'[d] # Gone => stored'[e].n >= lines'[d] - late'[d]
  <2>1. stored[e].n \in Nat /\ stored'[e].n \in Nat /\ stored[e].n <= stored'[e].n
    BY <1>2, <1>3 DEF Files
  <2> QED BY <1>1, <2>1 DEF EnoughCopied, BoatTypes
<1> QED BY <1>4, <1>5, <1>6 DEF Safe, Whole, EnoughCopied

LEMMA ReceiveChunkKeeps ==
  ASSUME UploadInv, NEW i \in 1 .. Len(conns), ReceiveChunk(i) PROVE UploadInv'
<1> USE DEF UploadInv
<1> DEFINE w == conns[i]
<1>1. w \in Conns /\ conns \in Seq(Conns)
  BY DEF UploadTypes
<1>2. w.next \in Halves /\ conns' = [conns EXCEPT ![i].next = @ + 1]
      /\ UNCHANGED <<slice, lines, marked, late, client, bucket>>
  BY DEF ReceiveChunk, boatFiles
<1>3. /\ Len(conns') = Len(conns)
      /\ conns' \in Seq(Conns)
      /\ \A j \in 1 .. Len(conns) :
           /\ conns'[j].of = conns[j].of /\ conns'[j].n = conns[j].n
           /\ conns'[j].file = conns[j].file /\ conns'[j].heard = conns[j].heard
           /\ conns'[j].next = IF j = i THEN conns[j].next + 1 ELSE conns[j].next
  <2>1. [w EXCEPT !.next = @ + 1] \in Conns
    <3>1. w.next + 1 \in 1 .. 3
      BY <1>2 DEF Halves
    <3> QED BY <1>1, <3>1 DEF Conns
  <2>2. conns' = [conns EXCEPT ![i] = [w EXCEPT !.next = @ + 1]]
    BY <1>2
  <2>3. conns' \in Seq(Conns) /\ Len(conns') = Len(conns)
        /\ \A j \in 1 .. Len(conns) : conns'[j] = IF j = i THEN [w EXCEPT !.next = @ + 1] ELSE conns[j]
    BY <1>1, <2>1, <2>2
  <2> QED BY <1>1, <2>3 DEF Conns
<1>4. /\ parts' \in [LogNames -> Files]
      /\ \A e \in LogNames : /\ parts'[e].there = parts[e].there
                             /\ parts[e].has \subseteq parts'[e].has
                             /\ parts[e].n <= parts'[e].n
      /\ w.file = "part" => w.next \in parts'[w.of].has
  <2>1. CASE w.file = "part"
    <3>1. parts' = Put(parts, w.of, w.next, w.n)
      BY <2>1 DEF ReceiveChunk, Put
    <3>2. w.of \in LogNames /\ w.n \in Nat /\ parts \in [LogNames -> Files]
      BY <1>1 DEF Conns, UploadTypes
    <3> HIDE DEF w
    <3> QED BY <1>2, <3>1, <3>2, WithHalf
  <2>2. CASE w.file # "part"
    <3>1. parts' = parts
      BY <2>2 DEF ReceiveChunk
    <3>2. parts \in [LogNames -> Files]
      BY DEF UploadTypes
    <3>3. \A e \in LogNames : parts[e].n <= parts[e].n
      BY <3>2 DEF Files
    <3> QED BY <2>2, <3>1, <3>2, <3>3
  <2> QED BY <2>1, <2>2
<1>5. /\ stored' \in [LogNames -> Files]
      /\ \A e \in LogNames : /\ stored'[e].there = stored[e].there
                             /\ stored[e].has \subseteq stored'[e].has
                             /\ stored[e].n <= stored'[e].n
  <2>1. CASE w.file = "stored"
    <3>1. stored' = Put(stored, w.of, w.next, w.n)
      BY <2>1 DEF ReceiveChunk, Put
    <3>2. w.of \in LogNames /\ w.n \in Nat /\ stored \in [LogNames -> Files]
      BY <1>1 DEF Conns, UploadTypes
    <3> HIDE DEF w
    <3> QED BY <1>2, <3>1, <3>2, WithHalf
  <2>2. CASE w.file # "stored"
    <3>1. stored' = stored
      BY <2>2 DEF ReceiveChunk
    <3>2. stored \in [LogNames -> Files]
      BY DEF UploadTypes
    <3>3. \A e \in LogNames : stored[e].n <= stored[e].n
      BY <3>2 DEF Files
    <3> QED BY <3>1, <3>2, <3>3
  <2> QED BY <2>1, <2>2
<1>6. BoatTypes' /\ UploadTypes' /\ Order'
  BY <1>2, <1>3, <1>4, <1>5 DEF BoatTypes, UploadTypes, Order
<1>7. Listening'
  <2> SUFFICES ASSUME NEW j \in 1 .. Len(conns'), conns'[j].heard
               PROVE  LET v == conns'[j] IN
                      /\ j = Len(conns')
                      /\ client'.doing = "sending" /\ client'.chunk = v.of[2]
                      /\ lines'[v.of[2]] # Gone => v.n >= lines'[v.of[2]] - late'[v.of[2]]
                      /\ parts'[v.of].there => /\ v.file = "part"
                                               /\ 1 .. v.next - 1 \subseteq parts'[v.of].has
                                               /\ parts'[v.of].n >= v.n
    BY DEF Listening, EnoughCopied
  <2> DEFINE u == conns[j]
  <2>1. j \in 1 .. Len(conns) /\ u.heard /\ u \in Conns
    BY <1>1, <1>3
  <2>2. /\ j = Len(conns)
        /\ client.doing = "sending" /\ client.chunk = u.of[2]
        /\ lines[u.of[2]] # Gone => u.n >= lines[u.of[2]] - late[u.of[2]]
        /\ parts[u.of].there => /\ u.file = "part"
                                /\ 1 .. u.next - 1 \subseteq parts[u.of].has
                                /\ parts[u.of].n >= u.n
    BY <2>1 DEF Listening, EnoughCopied
  <2>3. ASSUME parts'[u.of].there
        PROVE  /\ u.file = "part"
               /\ 1 .. conns'[j].next - 1 \subseteq parts'[u.of].has
               /\ parts'[u.of].n >= u.n
    <3>1. u.of \in LogNames /\ u.n \in Nat
      BY <2>1 DEF Conns
    <3>2. parts[u.of].there /\ parts[u.of].has \subseteq parts'[u.of].has /\ parts[u.of].n <= parts'[u.of].n
      BY <1>4, <2>3, <3>1
    <3>3. u.file = "part" /\ 1 .. u.next - 1 \subseteq parts'[u.of].has /\ parts[u.of].n >= u.n
      BY <2>2, <3>2
    <3>4. parts'[u.of].n >= u.n
      <4>1. parts[u.of] \in Files /\ parts'[u.of] \in Files
        BY <1>4, <3>1 DEF UploadTypes
      <4>2. parts[u.of].n \in Nat /\ parts'[u.of].n \in Nat
        BY <4>1 DEF Files
      <4> QED BY <3>1, <3>2, <3>3, <4>2
    <3>5. 1 .. conns'[j].next - 1 \subseteq parts'[u.of].has
      <4>1. CASE j = i
        <5>1. u.next \in parts'[u.of].has /\ conns'[j].next = u.next + 1 /\ u.next \in 1 .. 3
          BY <1>3, <1>4, <2>1, <3>3, <4>1 DEF Conns
        <5>2. 1 .. (u.next + 1) - 1 = (1 .. u.next - 1) \cup {u.next}
          BY <5>1
        <5> QED BY <3>3, <5>1, <5>2
      <4>2. CASE j # i
        BY <1>3, <2>1, <3>3, <4>2
      <4> QED BY <4>1, <4>2
    <3> QED BY <3>3, <3>4, <3>5
  <2> QED BY <1>2, <1>3, <2>1, <2>2, <2>3
<1>8. FilesKept'
  <2>1. ASSUME NEW d \in 1 .. Chunks, Safe(d) PROVE Safe(d)'
    BY <1>2, <1>4, <1>5, <2>1, GrowsSafe DEF UploadTypes
  <2>2. client.doing = "answered" => client.chunk \in 1 .. Chunks
    BY DEF Order, Waiting, BoatTypes
  <2> QED BY <1>2, <2>1, <2>2 DEF FilesKept, BoatTypes
<1> QED BY <1>6, <1>7, <1>8

\* What the end of connection i leaves of the others and of the .part files.
Ended(i) ==
  /\ conns' \in Seq(Conns)
  /\ Len(conns') = Len(conns) - 1
  /\ \A j \in 1 .. Len(conns) - 1 :
       LET v == conns'[j]
           u == conns[IF j < i THEN j ELSE j + 1]
       IN /\ v.of = u.of /\ v.n = u.n /\ v.next = u.next /\ v.heard = u.heard
          /\ u.of # conns[i].of => v.file = u.file
  /\ parts' \in [LogNames -> Files]
  /\ ~parts'[conns[i].of].there
  /\ \A e \in LogNames : e # conns[i].of => parts'[e] = parts[e]

LEMMA FinishEnds ==
  ASSUME UploadTypes, NEW i \in 1 .. Len(conns), Finish(i) PROVE Ended(i)
<1> DEFINE w == conns[i]
<1>0. conns \in Seq(Conns) /\ w \in Conns /\ parts \in [LogNames -> Files]
  BY DEF UploadTypes
<1>1. conns \in Seq(Conns) /\ w.of \in LogNames /\ parts \in [LogNames -> Files]
  BY <1>0 DEF Conns
<1>2. CASE parts[w.of].there
  <2>1. conns' = Rest(i, TRUE) /\ parts' = [parts EXCEPT ![w.of] = NoSuchFile]
    BY <1>2 DEF Finish
  <2>2. NoSuchFile \in Files /\ ~NoSuchFile.there
    BY DEF NoSuchFile, Files
  <2>3. parts' \in [LogNames -> Files] /\ ~parts'[w.of].there /\ \A e \in LogNames : e # w.of => parts'[e] = parts[e]
    BY <1>1, <2>1, <2>2
  <2> QED BY <1>1, <2>1, <2>3, RestIs DEF Ended
<1>3. CASE ~parts[w.of].there
  <2>1. conns' = RemoveAt(conns, i) /\ parts' = parts
    BY <1>3 DEF Finish, baseFiles
  <2> QED BY <1>1, <1>3, <2>1, WithoutOne DEF Ended
<1> QED BY <1>2, <1>3

LEMMA BrokenEnds ==
  ASSUME UploadTypes, NEW i \in 1 .. Len(conns), Broken(i) PROVE Ended(i)
<1> DEFINE w == conns[i]
<1>0. conns \in Seq(Conns) /\ w \in Conns /\ parts \in [LogNames -> Files]
  BY DEF UploadTypes
<1>1. conns \in Seq(Conns) /\ w.of \in LogNames /\ parts \in [LogNames -> Files]
  BY <1>0 DEF Conns
<1>2. conns' = Rest(i, FALSE) /\ parts' = [parts EXCEPT ![w.of] = NoSuchFile]
  BY DEF Broken
<1>3. NoSuchFile \in Files /\ ~NoSuchFile.there
  BY DEF NoSuchFile, Files
<1>4. parts' \in [LogNames -> Files] /\ ~parts'[w.of].there /\ \A e \in LogNames : e # w.of => parts'[e] = parts[e]
  BY <1>1, <1>2, <1>3
<1> QED BY <1>1, <1>2, <1>4, RestIs DEF Ended

\* Whoever is heard after a connection ended was heard before, and that was not the one that ended.
LEMMA EndedListening ==
  ASSUME UploadTypes, Listening, NEW i \in 1 .. Len(conns), Ended(i),
         UNCHANGED <<lines, late>>, conns[i].heard \/ UNCHANGED client
  PROVE  Listening'
<1> SUFFICES ASSUME NEW j \in 1 .. Len(conns'), conns'[j].heard
             PROVE  LET v == conns'[j] IN
                    /\ j = Len(conns')
                    /\ client'.doing = "sending" /\ client'.chunk = v.of[2]
                    /\ lines'[v.of[2]] # Gone => v.n >= lines'[v.of[2]] - late'[v.of[2]]
                    /\ parts'[v.of].there => /\ v.file = "part"
                                             /\ 1 .. v.next - 1 \subseteq parts'[v.of].has
                                             /\ parts'[v.of].n >= v.n
  BY DEF Listening, EnoughCopied
<1> DEFINE k == IF j < i THEN j ELSE j + 1
           u == conns[k]
           v == conns'[j]
<1>1. conns \in Seq(Conns) /\ Len(conns) \in Nat
  BY DEF UploadTypes
<1>2. j \in 1 .. Len(conns) - 1 /\ Len(conns') = Len(conns) - 1
  BY <1>1 DEF Ended
<1>3. k \in 1 .. Len(conns) /\ k # i
  BY <1>1, <1>2
<1>4. /\ v.of = u.of /\ v.n = u.n /\ v.next = u.next /\ v.heard = u.heard
      /\ u.of # conns[i].of => v.file = u.file
  BY <1>2 DEF Ended
<1> HIDE DEF k
<1>5. u.of \in LogNames
  <2>1. u \in Conns
    BY <1>1, <1>3
  <2> QED BY <2>1 DEF Conns
<1>6. /\ k = Len(conns)
      /\ client.doing = "sending" /\ client.chunk = u.of[2]
      /\ lines[u.of[2]] # Gone => u.n >= lines[u.of[2]] - late[u.of[2]]
      /\ parts[u.of].there => /\ u.file = "part"
                              /\ 1 .. u.next - 1 \subseteq parts[u.of].has
                              /\ parts[u.of].n >= u.n
  BY <1>3, <1>4 DEF Listening, EnoughCopied
<1>7. ~conns[i].heard
  BY <1>3, <1>6 DEF Listening
<1>8. j = Len(conns')
  BY <1>1, <1>2, <1>6 DEF k
<1>9. client' = client
  BY <1>7
<1>10. ASSUME parts'[v.of].there
       PROVE  v.file = "part" /\ 1 .. v.next - 1 \subseteq parts'[v.of].has /\ parts'[v.of].n >= v.n
  <2>1. u.of # conns[i].of
    BY <1>4, <1>10 DEF Ended
  <2>2. parts'[u.of] = parts[u.of]
    BY <1>5, <2>1 DEF Ended
  <2> QED BY <1>4, <1>6, <1>10, <2>1, <2>2
<1> QED BY <1>4, <1>6, <1>8, <1>9, <1>10

\* The client hears at most the answer to what it sends.
LEMMA AnswerKeepsOrder ==
  ASSUME BoatTypes, Order, Listening, NEW i \in 1 .. Len(conns), NEW ok \in BOOLEAN, Answered(conns[i], ok),
         UNCHANGED <<slice, lines, late, marked>>
  PROVE  /\ BoatTypes' /\ Order'
         /\ client' = client \/ client' = Waiting
            \/ (ok /\ conns[i].heard /\ client'.doing = "answered" /\ client'.chunk = conns[i].of[2])
         /\ conns[i].heard \/ UNCHANGED client
<1>1. Waiting \in [doing : Doings, chunk : 0 .. Chunks]
  BY LogAssumption DEF Waiting, Doings, LogAssumption
<1>2. ASSUME client' = client \/ client' = Waiting PROVE BoatTypes' /\ Order'
  <2>1. CASE client' = client
    BY <2>1 DEF BoatTypes, Order, Waiting
  <2>2. CASE client' = Waiting
    <3>1. BoatTypes'
      BY <1>1, <2>2 DEF BoatTypes
    <3>2. Order'
      BY <2>2 DEF Order, Waiting
    <3> QED BY <3>1, <3>2
  <2> QED BY <1>2, <2>1, <2>2
<1>3. CASE client' = client \/ (conns[i].heard /\ ~ok)
  <2>1. client' = client \/ (conns[i].heard /\ client' = Waiting)
    BY <1>3 DEF Answered
  <2> QED BY <1>2, <2>1
<1>4. CASE conns[i].heard /\ ok
  <2>1. client.doing = "sending" /\ client.chunk = conns[i].of[2]
    BY <1>4 DEF Listening
  <2>2. client' = [client EXCEPT !.doing = "answered"]
    BY <1>4 DEF Answered
  <2>3. client' \in [doing : Doings, chunk : 0 .. Chunks]
        /\ client'.doing = "answered" /\ client'.chunk = client.chunk
    BY <2>2 DEF BoatTypes, Doings
  <2>4. client.chunk \in 1 .. slice - 1
    BY <2>1 DEF Order, Waiting
  <2> QED BY <1>4, <2>1, <2>3, <2>4 DEF BoatTypes, Order
<1> QED BY <1>3, <1>4 DEF Answered

\* File d is safe after the step.
SafeNext(d) == \E b \in Buckets : /\ ~parts'[<<b, d>>].there
                                  /\ Whole(stored'[<<b, d>>])
                                  /\ lines'[d] # Gone => stored'[<<b, d>>].n >= lines'[d] - late'[d]

\* The .part files that are left are as before, and so is what is stored, but for a file renamed over it.
LEMMA EndedSafe ==
  ASSUME UploadTypes, NEW i \in 1 .. Len(conns), Ended(i), UNCHANGED <<lines, late>>,
         stored' = stored \/ (parts[conns[i].of].there /\ stored' = [stored EXCEPT ![conns[i].of] = parts[conns[i].of]]),
         NEW d \in 1 .. Chunks, Safe(d)
  PROVE  SafeNext(d)
<1>1. PICK b \in Buckets : ~parts[<<b, d>>].there /\ Whole(stored[<<b, d>>]) /\ EnoughCopied(stored[<<b, d>>].n, d)
  BY DEF Safe
<1> DEFINE e == <<b, d>>
<1>2. e \in LogNames
  BY DEF LogNames
<1>3. ~parts'[e].there
  BY <1>1, <1>2 DEF Ended
<1>4. stored'[e] = stored[e]
  BY <1>1, <1>2 DEF UploadTypes
<1> QED BY <1>1, <1>3, <1>4 DEF SafeNext, Whole, EnoughCopied

LEMMA FinishKeeps ==
  ASSUME UploadInv, NEW i \in 1 .. Len(conns), Finish(i) PROVE UploadInv'
<1> USE DEF UploadInv
<1> DEFINE w == conns[i]
<1>1. UNCHANGED <<slice, lines, marked, late, bucket>> /\ Ended(i)
  BY FinishEnds DEF Finish, boatFiles
<1>2. w \in Conns /\ w.of \in LogNames /\ w.next = 3
  <2>1. w \in Conns /\ w.next \notin Halves
    BY DEF UploadTypes, Finish
  <2> QED BY <2>1 DEF Conns, Halves
<1> DEFINE ok == parts[w.of].there
<1>3. ok \in BOOLEAN
  BY <1>2 DEF UploadTypes, Files
<1>4. Answered(w, ok)
  BY <1>3 DEF Finish
<1> HIDE DEF w, ok
<1>5. /\ BoatTypes' /\ Order'
      /\ client' = client \/ client' = Waiting
         \/ (ok /\ w.heard /\ client'.doing = "answered" /\ client'.chunk = w.of[2])
      /\ w.heard \/ UNCHANGED client
  BY <1>1, <1>3, <1>4, AnswerKeepsOrder DEF w
<1>6. Listening'
  BY <1>1, <1>5, EndedListening DEF w
<1>7. (stored' = stored /\ ~ok) \/ (ok /\ stored' = [stored EXCEPT ![w.of] = parts[w.of]])
  <2>1. CASE ok
    BY <2>1 DEF Finish, ok, w
  <2>2. CASE ~ok
    BY <2>2 DEF Finish, ok, w, baseFiles
  <2> QED BY <2>1, <2>2
<1>8. UploadTypes'
  <2>1. stored' \in [LogNames -> Files]
    BY <1>2, <1>7 DEF UploadTypes
  <2> QED BY <1>1, <2>1 DEF UploadTypes, Ended
<1>9. ASSUME NEW d \in 1 .. Chunks, Safe(d) PROVE SafeNext(d)
  BY <1>1, <1>7, <1>9, EndedSafe DEF w, ok
<1>10. ASSUME ok, w.heard PROVE SafeNext(w.of[2])
  <2>1. PICK b \in Buckets, c \in 1 .. Chunks : w.of = <<b, c>>
    BY <1>2 DEF LogNames
  <2>2. /\ EnoughCopied(w.n, c)
        /\ 1 .. w.next - 1 \subseteq parts[w.of].has
        /\ parts[w.of].n >= w.n
    BY <1>10, <2>1 DEF Listening, w, ok
  <2>3. stored'[w.of] = parts[w.of]
    BY <1>2, <1>7, <1>10 DEF UploadTypes
  <2>4. parts[w.of] \in Files
    BY <1>2 DEF UploadTypes
  <2>5. Whole(parts[w.of])
    <3>1. 1 \in parts[w.of].has /\ 2 \in parts[w.of].has
      BY <1>2, <2>2
    <3> QED BY <1>10, <2>4, <3>1 DEF Whole, Files, Halves, ok
  <2>6. lines'[c] # Gone => parts[w.of].n >= lines'[c] - late'[c]
    <3>1. w.n \in Nat /\ parts[w.of].n \in Nat
      BY <1>2, <2>4 DEF Conns, Files
    <3> QED BY <1>1, <2>2, <3>1 DEF EnoughCopied, BoatTypes
  <2>7. ~parts'[w.of].there
    BY <1>1 DEF Ended, w
  <2>8. w.of[2] = c
    BY <2>1
  <2> QED BY <2>1, <2>3, <2>5, <2>6, <2>7, <2>8 DEF SafeNext
<1>11. FilesKept'
  <2>1. client.doing = "answered" => client.chunk \in 1 .. Chunks
    BY DEF Order, Waiting, BoatTypes
  <2>2. ASSUME client'.doing = "answered" PROVE SafeNext(client'.chunk)
    <3>1. CASE client' = client
      BY <1>9, <2>1, <2>2, <3>1 DEF FilesKept
    <3>2. client' # Waiting
      BY <2>2 DEF Waiting
    <3> QED BY <1>5, <1>10, <3>1, <3>2
  <2>3. \A d \in marked' : SafeNext(d)
    BY <1>1, <1>9 DEF FilesKept, BoatTypes
  <2> QED BY <2>2, <2>3 DEF FilesKept, Safe, SafeNext, EnoughCopied
<1> QED BY <1>5, <1>6, <1>8, <1>11

LEMMA BrokenKeeps ==
  ASSUME UploadInv, NEW i \in 1 .. Len(conns), Broken(i) PROVE UploadInv'
<1> USE DEF UploadInv
<1>1. UNCHANGED <<slice, lines, marked, late, bucket, stored>> /\ Ended(i) /\ Answered(conns[i], FALSE)
  BY BrokenEnds DEF Broken, boatFiles
<1>2. /\ BoatTypes' /\ Order'
      /\ client' = client \/ client' = Waiting
      /\ conns[i].heard \/ UNCHANGED client
  BY <1>1, AnswerKeepsOrder
<1>3. Listening'
  BY <1>1, <1>2, EndedListening
<1>4. UploadTypes'
  BY <1>1 DEF UploadTypes, Ended
<1>5. ASSUME NEW d \in 1 .. Chunks, Safe(d) PROVE SafeNext(d)
  BY <1>1, <1>5, EndedSafe
<1>6. client.doing = "answered" => client.chunk \in 1 .. Chunks
  BY DEF Order, Waiting, BoatTypes
<1>7. client'.doing = "answered" => SafeNext(client'.chunk)
  <2>1. Waiting.doing # "answered"
    BY DEF Waiting
  <2> QED BY <1>2, <1>5, <1>6, <2>1 DEF FilesKept
<1>8. \A d \in marked' : SafeNext(d)
  BY <1>1, <1>5 DEF FilesKept, BoatTypes
<1>9. FilesKept'
  BY <1>7, <1>8 DEF FilesKept, Safe, SafeNext, EnoughCopied
<1> QED BY <1>2, <1>3, <1>4, <1>9

LEMMA BaseDownKeeps ==
  ASSUME UploadInv, BaseDown PROVE UploadInv'
<1> USE DEF UploadInv
<1>1. UNCHANGED <<slice, lines, marked, late, bucket, parts, stored>> /\ conns' = <<>>
      /\ client' = (IF client.doing = "sending" THEN Waiting ELSE client)
  BY DEF BaseDown, boatFiles, baseFiles
<1>2. BoatTypes' /\ UploadTypes' /\ Order' /\ Listening'
  BY <1>1, LogAssumption DEF BoatTypes, UploadTypes, Order, Listening, Waiting, Doings, LogAssumption
<1>3. FilesKept'
  BY <1>1, SafeStays DEF FilesKept, Waiting
<1> QED BY <1>2, <1>3

\* The inductive invariant.
LEMMA StepKept ==
  ASSUME UploadInv, [LogNext]_logVars PROVE UploadInv'
<1>1. ASSUME NEW b \in Buckets, SwitchBucket(b) PROVE UploadInv'
  BY <1>1 DEF UploadInv, SwitchBucket, boatFiles, baseFiles, BoatTypes, UploadTypes, Order, Listening, FilesKept,
              Safe, Whole, EnoughCopied
<1>2. CASE UNCHANGED logVars
  BY <1>2 DEF logVars, UploadInv, BoatTypes, UploadTypes, Order, Listening, FilesKept, Safe, Whole, EnoughCopied
<1> QED
  BY <1>1, <1>2, LogPvtKeeps, NextSliceKeeps, PruneKeeps, ClientTickKeeps, UploadStartsKeeps, GivenUpKeeps,
     MarkUploadedKeeps, ReceiveChunkKeeps, FinishKeeps, BrokenKeeps, BaseDownKeeps DEF LogNext, AllLogged

\* A file the boat will never send again is whole at the base, with every line it got while its slice
\* lasted: whatever connections stall, whoever gives up and whichever side restarts, a marker is
\* only written for a file that was renamed into place, and that no other connection can take away.
THEOREM MarkedAreSafe == LogSpec => []MarkedIsStored
<1>1. LogInit => UploadInv
  BY StartKept
<1>2. UploadInv /\ [LogNext]_logVars => UploadInv'
  BY StepKept
<1>3. UploadInv => MarkedIsStored
  BY DEF UploadInv, FilesKept, Safe, EnoughCopied, MarkedIsStored
<1> QED BY <1>1, <1>2, <1>3, PTL DEF LogSpec

\* What UploadInv leaves out of the type: how far the slices, the files and the connections go.
LogBounds ==
  /\ slice \in 1 .. Chunks + 1
  /\ \A c \in 1 .. Chunks : lines[c] <= MaxLines
  /\ Len(conns) <= MaxConns

LEMMA LogBoundsKept ==
  ASSUME UploadInv, LogBounds, [LogNext]_logVars
  PROVE  LogBounds'
<1>0. /\ BoatTypes /\ UploadTypes /\ conns \in Seq(Conns) /\ Len(conns) \in Nat /\ slice \in Nat
      /\ lines \in [1 .. Chunks -> Int]
      /\ Chunks \in Nat \ {0} /\ MaxLines \in Nat \ {0} /\ MaxConns \in Nat \ {0}
  BY LogAssumption DEF UploadInv, BoatTypes, UploadTypes, LogAssumption
<1>1. ASSUME UNCHANGED <<slice, lines>>, Len(conns') <= MaxConns PROVE LogBounds'
  BY <1>1 DEF LogBounds
<1>2. ASSUME UNCHANGED <<slice, lines, conns>> PROVE LogBounds'
  BY <1>2 DEF LogBounds
<1>3. ASSUME NEW c \in 1 .. Chunks, LogPvt(c) PROVE LogBounds'
  <2> DEFINE more == IF lines[c] = Gone THEN 1 ELSE lines[c] + 1
  <2>1. /\ lines[c] < MaxLines /\ lines' = [lines EXCEPT ![c] = more]
        /\ UNCHANGED <<slice, conns>>
    BY <1>3 DEF LogPvt
  <2>2. more <= MaxLines
    BY <1>0, <2>1
  <2> HIDE DEF more
  <2> QED BY <1>0, <2>1, <2>2 DEF LogBounds
<1>4. ASSUME NEW c \in 1 .. Chunks, Prune(c) PROVE LogBounds'
  <2>1. lines' = [lines EXCEPT ![c] = Gone] /\ UNCHANGED <<slice, conns>>
    BY <1>4 DEF Prune
  <2>2. Gone <= MaxLines
    BY <1>0 DEF Gone
  <2> QED BY <1>0, <2>1, <2>2 DEF LogBounds
<1>5. CASE NextSlice
  <2>1. slice <= Chunks /\ slice' = slice + 1 /\ UNCHANGED <<lines, conns>>
    BY <1>5 DEF NextSlice
  <2>2. slice' \in 1 .. Chunks + 1
    BY <1>0, <2>1
  <2> QED BY <2>1, <2>2 DEF LogBounds
<1>6. CASE ClientTick
  BY <1>2, <1>6 DEF ClientTick, boatFiles
<1>7. CASE UploadStarts
  <2>1. UNCHANGED <<slice, lines>>
    BY <1>7 DEF UploadStarts, boatFiles
  <2>2. \/ conns' = conns
        \/ Len(conns) < MaxConns /\ \E w : conns' = Append(conns, w)
    BY <1>7 DEF UploadStarts
  <2>3. Len(conns') <= MaxConns
    BY <1>0, <2>2 DEF LogBounds
  <2> QED BY <1>1, <2>1, <2>3
<1>8. CASE Timeout \/ BoatRestarts
  <2>1. UNCHANGED <<slice, lines>> /\ conns' = GivenUp
    BY <1>8 DEF Timeout, BoatRestarts, boatFiles
  <2>2. Len(conns') <= MaxConns
    BY <1>0, <2>1, GivenUpIs DEF LogBounds
  <2> QED BY <1>1, <2>1, <2>2
<1>9. ASSUME NEW written \in BOOLEAN, MarkUploaded(written) PROVE LogBounds'
  BY <1>2, <1>9 DEF MarkUploaded
<1>10. ASSUME NEW i \in 1 .. Len(conns), ReceiveChunk(i) PROVE LogBounds'
  <2>1. UNCHANGED <<slice, lines>> /\ conns' = [conns EXCEPT ![i].next = @ + 1]
    BY <1>10 DEF ReceiveChunk, boatFiles
  <2>2. Len(conns') <= MaxConns
    BY <1>0, <2>1 DEF LogBounds
  <2> QED BY <1>1, <2>1, <2>2
<1>11. ASSUME NEW i \in 1 .. Len(conns), Finish(i) \/ Broken(i) PROVE LogBounds'
  <2>1. UNCHANGED <<slice, lines>>
    BY <1>11 DEF Finish, Broken, boatFiles
  <2>2. Len(conns') = Len(conns) - 1
    BY <1>0, <1>11, FinishEnds, BrokenEnds DEF Ended
  <2>3. Len(conns') <= MaxConns
    BY <1>0, <2>2 DEF LogBounds
  <2> QED BY <1>1, <2>1, <2>3
<1>12. CASE BaseDown
  <2>1. UNCHANGED <<slice, lines>> /\ conns' = <<>>
    BY <1>12 DEF BaseDown, boatFiles
  <2> QED BY <1>0, <1>1, <2>1
<1>13. ASSUME NEW b \in Buckets, SwitchBucket(b) PROVE LogBounds'
  BY <1>2, <1>13 DEF SwitchBucket, boatFiles
<1>14. CASE AllLogged \/ UNCHANGED logVars
  BY <1>2, <1>14 DEF AllLogged, logVars
<1> QED
  BY <1>3, <1>4, <1>5, <1>6, <1>7, <1>8, <1>9, <1>10, <1>11, <1>12, <1>13, <1>14 DEF LogNext

\* The files of the boat and of the base, the marks and the connections keep their types (sdLogger.js,
\* uploadClient.js, uploadServer.js), whatever stalls, stops or starts again.
THEOREM LogTypeCorrect == LogSpec => []LogTypeOK
<1>1. LogInit => LogBounds
  <2>1. Chunks \in Nat \ {0} /\ MaxLines \in Nat \ {0} /\ MaxConns \in Nat \ {0}
    BY LogAssumption DEF LogAssumption
  <2> QED BY <2>1 DEF LogInit, LogBounds, Gone
<1>2. UploadInv /\ LogBounds /\ [LogNext]_logVars => LogBounds'
  BY LogBoundsKept
<1>3. UploadInv /\ LogBounds => LogTypeOK
  <2> SUFFICES ASSUME UploadInv, LogBounds
               PROVE  LogTypeOK
    OBVIOUS
  <2>1. BoatTypes /\ UploadTypes /\ MaxLines \in Nat
    BY LogAssumption DEF UploadInv, LogAssumption
  <2>2. \A c \in 1 .. Chunks : lines[c] \in Gone .. MaxLines
    BY <2>1 DEF BoatTypes, LogBounds, Gone
  <2>3. \A i \in 1 .. Len(conns) : conns[i].file \in {"part", "stored", "removed"} /\ conns[i].next \in 1 .. 3
    <3>1. \A i \in 1 .. Len(conns) : conns[i] \in Conns
      BY <2>1 DEF UploadTypes
    <3> QED BY <3>1 DEF Conns
  <2>4. client.doing \in {"nothing", "found", "sending", "answered"} /\ marked \subseteq 1 .. Chunks
    BY <2>1 DEF BoatTypes, Doings
  <2>5. \A k \in DOMAIN parts : parts[k].has \subseteq Halves /\ stored[k].has \subseteq Halves
    BY <2>1 DEF UploadTypes, Files
  <2> QED BY <2>1, <2>2, <2>3, <2>4, <2>5 DEF UploadTypes, LogBounds, LogTypeOK
<1>4. LogInit => UploadInv
  BY StartKept
<1>5. UploadInv /\ [LogNext]_logVars => UploadInv'
  BY StepKept
<1> QED BY <1>1, <1>2, <1>3, <1>4, <1>5, PTL DEF LogSpec

-----------------------------------------------------------------------------
(***************************************************************************)
(* CourseMarks, for any marks, places and regattas. The inductive          *)
(* invariant, CourseInv, says what a sync and a check that wait for Redis  *)
(* know while nothing has disturbed them (SyncIsFresh, CheckIsFresh), that *)
(* a sync sees an edit that began after it read (EditSeen), and that what  *)
(* was healed stays so (HealedIsSo).                                       *)
(***************************************************************************)

CoursePlaces == MarkPlaces \cup {0}
Regs == Regattas \cup {NoRegatta}
Poses == [Marks -> CoursePlaces]
KeySet == [pos : Poses, on : BOOLEAN, gate : CoursePlaces, zone : CoursePlaces]
CourseSet == [pos : Poses, gate : BOOLEAN, known : BOOLEAN, of : Regs]
JobSet == [op : {"set", "reset", "gate", "resolve"}, step : Int, mark : Marks \cup {NoMark}, to : CoursePlaces, own : BOOLEAN, of : Regs,
           pos : Poses, on : BOOLEAN]
SyncSet == [step : {1, 2}, got : Poses, clean : BOOLEAN, touched : SUBSET (Marks \cup {NoMark}), alone : BOOLEAN]
CheckSet == [zone : CoursePlaces, got : CoursePlaces, alone : BOOLEAN]

-----------------------------------------------------------------------------
(* Redis.                                                                   *)

LEMMA DefaultPlace == DefaultAt \in CoursePlaces /\ 0 \in CoursePlaces /\ NoRegatta \in Regs
  BY CourseAssumption DEF CourseAssumption, CoursePlaces, Regs

LEMMA EmptyType == EmptyKeys \in KeySet /\ NoMarks \in CourseSet /\ EmptyKeys.pos \in Poses
  BY DefaultPlace DEF EmptyKeys, NoMarks, KeySet, CourseSet, Poses

LEMMA KeysFilled ==
  ASSUME NEW pos \in Poses PROVE Filled(pos) \in Poses
  BY DefaultPlace DEF Filled, Poses

LEMMA KeysWritten ==
  ASSUME NEW k \in [Regs -> KeySet], NEW r \in Regs, NEW m \in Marks, NEW p \in CoursePlaces, NEW on \in BOOLEAN,
         NEW pos \in Poses
  PROVE  /\ PutMark(k, r, m, p) \in [Regs -> KeySet]
         /\ PutSwitch(k, r, on) \in [Regs -> KeySet]
         /\ KeysCleared(k, r) \in [Regs -> KeySet]
         /\ PutMissing(k, r, pos) \in [Regs -> KeySet]
<1>0. k[r] \in KeySet /\ k[r].pos \in Poses
  BY DEF KeySet
<1>1. PutMark(k, r, m, p) \in [Regs -> KeySet]
  <2>1. [k[r].pos EXCEPT ![m] = p] \in Poses
    BY <1>0 DEF Poses
  <2>2. [k[r] EXCEPT !.pos[m] = p] \in KeySet
    BY <1>0, <2>1 DEF KeySet
  <2> QED BY <2>2 DEF PutMark
<1>2. PutSwitch(k, r, on) \in [Regs -> KeySet]
  <2>1. [k[r] EXCEPT !.on = on] \in KeySet
    BY <1>0 DEF KeySet
  <2> QED BY <2>1 DEF PutSwitch
<1>3. KeysCleared(k, r) \in [Regs -> KeySet]
  BY EmptyType DEF KeysCleared
<1>4. PutMissing(k, r, pos) \in [Regs -> KeySet]
  <2> DEFINE new == [q \in Marks |-> IF q \in Missing(pos) THEN DefaultAt ELSE k[r].pos[q]]
  <2>1. new \in Poses
    BY <1>0, DefaultPlace DEF Poses
  <2>2. PutMissing(k, r, pos) = [k EXCEPT ![r] = [k[r] EXCEPT !.pos = new]]
    BY <1>0 DEF PutMissing
  <2> HIDE DEF new
  <2>3. [k[r] EXCEPT !.pos = new] \in KeySet
    BY <1>0, <2>1 DEF KeySet
  <2> QED BY <2>2, <2>3
<1> QED BY <1>1, <1>2, <1>3, <1>4

\* The zone and the pin boundary gate are beside the places, and each of them beside the other.
LEMMA ZoneWritten ==
  ASSUME NEW k \in [Regs -> KeySet], NEW r \in Regs, NEW p \in CoursePlaces
  PROVE  /\ PutZone(k, r, p) \in [Regs -> KeySet]
         /\ PutZone(k, r, p)[r].zone = p
         /\ \A q \in Regs : PutZone(k, r, p)[q].pos = k[q].pos
<1>1. [k[r] EXCEPT !.zone = p] \in KeySet /\ [k[r] EXCEPT !.zone = p].zone = p
      /\ [k[r] EXCEPT !.zone = p].pos = k[r].pos
  BY DEF KeySet
<1>2. PutZone(k, r, p) = [k EXCEPT ![r] = [k[r] EXCEPT !.zone = p]]
  BY DEF PutZone
<1> QED BY <1>1, <1>2

LEMMA GateWritten ==
  ASSUME NEW k \in [Regs -> KeySet], NEW c \in CourseSet, selected \in Regs
  PROVE  /\ Gated(k, c) \in [Regs -> KeySet]
         /\ \A q \in Regs : Gated(k, c)[q].pos = k[q].pos /\ Gated(k, c)[q].zone = k[q].zone
<1> DEFINE p == IF c.gate THEN c.pos.pin ELSE 0
<1>0. p \in CoursePlaces
  BY DefaultPlace DEF CourseSet, Poses, Marks
<1>1. Gated(k, c) = [k EXCEPT ![selected] = [k[selected] EXCEPT !.gate = p]]
  BY DEF Gated
<1> HIDE DEF p
<1>2. [k[selected] EXCEPT !.gate = p] \in KeySet
      /\ [k[selected] EXCEPT !.gate = p].zone = k[selected].zone
      /\ [k[selected] EXCEPT !.gate = p].pos = k[selected].pos
  BY <1>0 DEF KeySet
<1> QED BY <1>1, <1>2

LEMMA BroadcastDone ==
  ASSUME NEW k \in [Regs -> KeySet], NEW c \in CourseSet, NEW forced \in BOOLEAN, selected \in Regs
  PROVE  /\ Broadcast(k, c, forced) \in [Regs -> KeySet]
         /\ \A q \in Regs : Broadcast(k, c, forced)[q].pos = k[q].pos
         /\ forced /\ c.known /\ selected # NoRegatta => Broadcast(k, c, forced)[selected].zone = c.pos.pin
         /\ ~(forced /\ c.known /\ selected # NoRegatta) => Broadcast(k, c, forced) = k
<1>1. c.pos.pin \in CoursePlaces
  BY DEF CourseSet, Poses, Marks
<1>2. CASE forced /\ c.known /\ selected # NoRegatta
  BY <1>1, <1>2, ZoneWritten DEF Broadcast
<1>3. CASE ~(forced /\ c.known /\ selected # NoRegatta)
  BY <1>3 DEF Broadcast
<1> QED BY <1>2, <1>3

-----------------------------------------------------------------------------
(* The functions under way.                                                 *)

Edits(js) == \E i \in 1 .. Len(js) : js[i].op \in {"set", "reset"}

\* What is left of a sequence without one element.
LEMMA LeftOver ==
  ASSUME NEW S, NEW s \in Seq(S), NEW i \in 1 .. Len(s)
  PROVE  /\ RemoveAt(s, i) \in Seq(S)
         /\ Len(RemoveAt(s, i)) = Len(s) - 1
         /\ \A j \in 1 .. Len(s) - 1 : RemoveAt(s, i)[j] = IF j < i THEN s[j] ELSE s[j + 1]
<1> DEFINE front == SubSeq(s, 1, i - 1)
           back  == SubSeq(s, i + 1, Len(s))
<1>1. front \in Seq(S) /\ Len(front) = i - 1 /\ \A j \in 1 .. i - 1 : front[j] = s[j]
  OBVIOUS
<1>2. back \in Seq(S) /\ Len(back) = Len(s) - i /\ \A j \in 1 .. Len(s) - i : back[j] = s[j + i]
  OBVIOUS
<1>3. RemoveAt(s, i) = front \o back
  BY DEF RemoveAt
<1> HIDE DEF front, back
<1>4. RemoveAt(s, i) \in Seq(S) /\ Len(RemoveAt(s, i)) = Len(s) - 1
  BY <1>1, <1>2, <1>3
<1>5. ASSUME NEW j \in 1 .. Len(s) - 1
      PROVE  RemoveAt(s, i)[j] = IF j < i THEN s[j] ELSE s[j + 1]
  <2>1. CASE j < i
    BY <1>1, <1>2, <1>3, <2>1
  <2>2. CASE ~(j < i)
    <3>1. (front \o back)[j] = back[j - (i - 1)]
      BY <1>1, <1>2, <2>2
    <3>2. back[j - (i - 1)] = s[(j - (i - 1)) + i]
      BY <1>2, <2>2
    <3> QED BY <1>3, <2>2, <3>1, <3>2
  <2> QED BY <2>1, <2>2
<1> QED BY <1>4, <1>5

\* A function that ends is gone from the list; the edits that are left are those of the others.
LEMMA JobEnds ==
  ASSUME NEW js \in Seq(JobSet), NEW i \in 1 .. Len(js)
  PROVE  /\ RemoveAt(js, i) \in Seq(JobSet)
         /\ Len(RemoveAt(js, i)) = Len(js) - 1
         /\ Edits(js) /\ js[i].op \notin {"set", "reset"} => Edits(RemoveAt(js, i))
<1> DEFINE rest == RemoveAt(js, i)
<1>1. /\ rest \in Seq(JobSet) /\ Len(rest) = Len(js) - 1
      /\ \A j \in 1 .. Len(js) - 1 : rest[j] = IF j < i THEN js[j] ELSE js[j + 1]
  BY LeftOver
<1> HIDE DEF rest
<1>2. ASSUME Edits(js), js[i].op \notin {"set", "reset"}
      PROVE  Edits(rest)
  <2>1. PICK k \in 1 .. Len(js) : js[k].op \in {"set", "reset"}
    BY <1>2 DEF Edits
  <2>2. k # i
    BY <1>2, <2>1
  <2>3. CASE k < i
    <3>1. k \in 1 .. Len(rest) /\ rest[k] = js[k]
      BY <1>1, <2>3
    <3> QED BY <2>1, <3>1 DEF Edits
  <2>4. CASE k > i
    <3>1. k - 1 \in 1 .. Len(rest) /\ rest[k - 1] = js[k]
      BY <1>1, <2>4
    <3> QED BY <2>1, <3>1 DEF Edits
  <2> QED BY <2>2, <2>3, <2>4
<1> QED BY <1>1, <1>2 DEF rest

LEMMA JobStarts ==
  ASSUME NEW js \in Seq(JobSet), NEW j \in JobSet
  PROVE  /\ Append(js, j) \in Seq(JobSet)
         /\ Edits(js) \/ j.op \in {"set", "reset"} => Edits(Append(js, j))
<1>1. Append(js, j) \in Seq(JobSet) /\ Len(Append(js, j)) = Len(js) + 1
      /\ Append(js, j)[Len(js) + 1] = j
      /\ \A i \in 1 .. Len(js) : Append(js, j)[i] = js[i]
  OBVIOUS
<1>2. CASE Edits(js)
  BY <1>1, <1>2 DEF Edits
<1>3. CASE j.op \in {"set", "reset"}
  <2>1. Len(js) + 1 \in 1 .. Len(Append(js, j))
    BY <1>1
  <2> QED BY <1>1, <1>3, <2>1 DEF Edits
<1> QED BY <1>1, <1>2, <1>3

\* A function that goes on is what it was.
LEMMA JobGoesOn ==
  ASSUME NEW js \in Seq(JobSet), NEW i \in 1 .. Len(js), NEW j \in JobSet, j.op = js[i].op
  PROVE  /\ [js EXCEPT ![i] = j] \in Seq(JobSet)
         /\ Len([js EXCEPT ![i] = j]) = Len(js)
         /\ Edits([js EXCEPT ![i] = j]) <=> Edits(js)
  BY DEF Edits

Stepped(js, i, n) == [js EXCEPT ![i].step = n]
WithPos(js, i, n, pos) == [js EXCEPT ![i].step = n, ![i].pos = pos]
Sees(js, i, n, on) == [js EXCEPT ![i].step = n, ![i].on = on]

LEMMA JobSteps ==
  ASSUME NEW js \in Seq(JobSet), NEW i \in 1 .. Len(js), NEW n \in Int
  PROVE  /\ Stepped(js, i, n) \in Seq(JobSet)
         /\ Len(Stepped(js, i, n)) = Len(js)
         /\ Edits(Stepped(js, i, n)) <=> Edits(js)
<1> DEFINE j == [js[i] EXCEPT !.step = n]
<1>1. js[i] \in JobSet
  OBVIOUS
<1>2. j \in JobSet /\ j.op = js[i].op
  BY <1>1 DEF JobSet
<1>3. Stepped(js, i, n) = [js EXCEPT ![i] = j]
  BY DEF Stepped
<1> HIDE DEF j
<1>4. /\ [js EXCEPT ![i] = j] \in Seq(JobSet)
      /\ Len([js EXCEPT ![i] = j]) = Len(js)
      /\ Edits([js EXCEPT ![i] = j]) <=> Edits(js)
  BY <1>2, JobGoesOn
<1> QED BY <1>3, <1>4

LEMMA JobHolds ==
  ASSUME NEW js \in Seq(JobSet), NEW i \in 1 .. Len(js), NEW n \in Int, NEW pos \in Poses
  PROVE  /\ WithPos(js, i, n, pos) \in Seq(JobSet)
         /\ Len(WithPos(js, i, n, pos)) = Len(js)
         /\ Edits(WithPos(js, i, n, pos)) <=> Edits(js)
<1> DEFINE j == [js[i] EXCEPT !.step = n, !.pos = pos]
<1>1. js[i] \in JobSet
  OBVIOUS
<1>2. j \in JobSet /\ j.op = js[i].op
  BY <1>1 DEF JobSet
<1>3. WithPos(js, i, n, pos) = [js EXCEPT ![i] = j]
  BY DEF WithPos
<1> HIDE DEF j
<1>4. /\ [js EXCEPT ![i] = j] \in Seq(JobSet)
      /\ Len([js EXCEPT ![i] = j]) = Len(js)
      /\ Edits([js EXCEPT ![i] = j]) <=> Edits(js)
  BY <1>2, JobGoesOn
<1> QED BY <1>3, <1>4

LEMMA JobReads ==
  ASSUME jobs \in Seq(JobSet), Keys.pos \in Poses, selected \in Regs,
         NEW i \in 1 .. Len(jobs), NEW n \in Int, Reads(i, n)
  PROVE  /\ jobs' \in Seq(JobSet)
         /\ Len(jobs') = Len(jobs)
         /\ Edits(jobs') <=> Edits(jobs)
<1> DEFINE j == [jobs[i] EXCEPT !.step = n, !.pos = Keys.pos, !.of = selected]
<1>1. jobs[i] \in JobSet
  OBVIOUS
<1>2. j \in JobSet /\ j.op = jobs[i].op
  BY <1>1 DEF JobSet
<1>3. jobs' = [jobs EXCEPT ![i] = j]
  BY DEF Reads
<1> HIDE DEF j
<1>4. /\ [jobs EXCEPT ![i] = j] \in Seq(JobSet)
      /\ Len([jobs EXCEPT ![i] = j]) = Len(jobs)
      /\ Edits([jobs EXCEPT ![i] = j]) <=> Edits(jobs)
  BY <1>2, JobGoesOn
<1> QED BY <1>3, <1>4

LEMMA JobSees ==
  ASSUME NEW js \in Seq(JobSet), NEW i \in 1 .. Len(js), NEW n \in Int, NEW on \in BOOLEAN
  PROVE  /\ Sees(js, i, n, on) \in Seq(JobSet)
         /\ Len(Sees(js, i, n, on)) = Len(js)
         /\ Edits(Sees(js, i, n, on)) <=> Edits(js)
<1> DEFINE j == [js[i] EXCEPT !.step = n, !.on = on]
<1>1. js[i] \in JobSet
  OBVIOUS
<1>2. j \in JobSet /\ j.op = js[i].op
  BY <1>1 DEF JobSet
<1>3. Sees(js, i, n, on) = [js EXCEPT ![i] = j]
  BY DEF Sees
<1> HIDE DEF j
<1>4. /\ [js EXCEPT ![i] = j] \in Seq(JobSet)
      /\ Len([js EXCEPT ![i] = j]) = Len(js)
      /\ Edits([js EXCEPT ![i] = j]) <=> Edits(js)
  BY <1>2, JobGoesOn
<1> QED BY <1>3, <1>4

-----------------------------------------------------------------------------
(* The inductive invariant.                                                 *)

CourseTypes ==
  /\ running \in BOOLEAN /\ selected \in Regs /\ remembered \in Regs
  /\ redis \in [Regs -> KeySet] /\ course \in CourseSet /\ jobs \in Seq(JobSet)
  /\ syncing = Idle \/ syncing \in SyncSet
  /\ checks \in Seq(CheckSet)
  /\ posted \in CoursePlaces /\ healed \in {0, 1, 2}

Syncing == syncing # Idle

\* A sync that read Redis before an edit began sees that edit under way, or knows that one ended.
EditSeen == Syncing /\ syncing.clean /\ syncing.touched # {} => Edits(jobs)

\* The places in memory are those of the regatta, of as many of them as Redis has.
Agrees == Changed(course.pos, Keys.pos) = {}

\* A sync that nothing has disturbed holds what Redis holds, and has used it once it comes to the
\* gate; one that may still be used has a course to use it for.
SyncIsFresh ==
  /\ Syncing /\ syncing.clean /\ syncing.step = 1 => course.known
  /\ Syncing /\ syncing.alone =>
       /\ jobs = <<>> /\ course.known /\ selected # NoRegatta
       /\ syncing.clean /\ syncing.got = Keys.pos
       /\ syncing.step = 2 => Agrees

\* A check that nothing has disturbed is the only one. It read what Redis holds, unless a sync has
\* written it anew, or is about to.
CheckIsFresh ==
  \A k \in 1 .. Len(checks) : checks[k].alone =>
    /\ Len(checks) = 1 /\ jobs = <<>> /\ course.known /\ selected # NoRegatta
    /\ \/ Keys.zone \in {checks[k].got, course.pos.pin}
       \/ Syncing /\ syncing.step = 2

\* Once healed the marks agree, and so does every sync that is under way; and once the zone was
\* checked too every check that is under way has the place of the pin.
HealedIsSo ==
  /\ healed >= 1 => /\ Agrees /\ jobs = <<>> /\ course.known /\ selected # NoRegatta
                    /\ Syncing => syncing.alone /\ syncing.step = 1
  /\ healed = 2 => /\ Keys.zone = course.pos.pin
                   /\ \A k \in 1 .. Len(checks) : checks[k].zone = course.pos.pin

\* While the base is down it does nothing.
DownIsIdle == ~running => /\ jobs = <<>> /\ ~Syncing /\ checks = <<>> /\ healed = 0

CourseInv == CourseTypes /\ EditSeen /\ SyncIsFresh /\ CheckIsFresh /\ HealedIsSo /\ DownIsIdle

-----------------------------------------------------------------------------
(* What a step leaves a sync and a check with.                              *)

LEMMA SyncMarked ==
  ASSUME NEW s \in SyncSet, NEW m \in Marks \cup {NoMark}
  PROVE  /\ s # Idle
         /\ Beside(s) \in SyncSet /\ ~Beside(s).alone /\ Beside(s).clean = s.clean /\ Beside(s).touched = s.touched
         /\ Beside(s).step = s.step
         /\ Overtaken(s) \in SyncSet /\ ~Overtaken(s).alone /\ ~Overtaken(s).clean
         /\ Touched(s, m) \in SyncSet /\ ~Touched(s, m).alone /\ Touched(s, m).clean = s.clean
         /\ Touched(s, m).step = s.step
<1>1. s # Idle
  BY DEF SyncSet, Idle
<1>2. s.touched \cup {m} \in SUBSET (Marks \cup {NoMark})
  BY DEF SyncSet
<1>3. Beside(s) = [s EXCEPT !.alone = FALSE] /\ Overtaken(s) = [s EXCEPT !.clean = FALSE, !.alone = FALSE]
      /\ Touched(s, m) = [s EXCEPT !.alone = FALSE, !.touched = s.touched \cup {m}]
  BY <1>1 DEF Beside, Overtaken, Touched, SyncSet
<1>4. Beside(s) \in SyncSet /\ ~Beside(s).alone /\ Beside(s).clean = s.clean /\ Beside(s).touched = s.touched
      /\ Beside(s).step = s.step
  BY <1>3 DEF SyncSet
<1>5. Overtaken(s) \in SyncSet /\ ~Overtaken(s).alone /\ ~Overtaken(s).clean
  BY <1>3 DEF SyncSet
<1>6. Touched(s, m) \in SyncSet /\ ~Touched(s, m).alone /\ Touched(s, m).clean = s.clean
      /\ Touched(s, m).step = s.step
  BY <1>2, <1>3 DEF SyncSet
<1> QED BY <1>1, <1>4, <1>5, <1>6

LEMMA IdleMarked ==
  Beside(Idle) = Idle /\ Overtaken(Idle) = Idle /\ \A m : Touched(Idle, m) = Idle
  BY DEF Beside, Overtaken, Touched

LEMMA CheckMarked ==
  ASSUME NEW c \in CheckSet
  PROVE  Beside(c) \in CheckSet /\ ~Beside(c).alone /\ Beside(c).zone = c.zone
<1>1. c # Idle
  BY DEF CheckSet, Idle
<1>2. Beside(c) = [c EXCEPT !.alone = FALSE]
  BY <1>1 DEF Beside
<1> QED BY <1>1, <1>2 DEF CheckSet

\* All the checks under way, none of them alone any more.
AllBeside == [k \in DOMAIN checks |-> Beside(checks[k])]

LEMMA ChecksMarked ==
  ASSUME CourseTypes
  PROVE  /\ AllBeside \in Seq(CheckSet) /\ Len(AllBeside) = Len(checks)
         /\ \A k \in 1 .. Len(checks) : ~AllBeside[k].alone /\ AllBeside[k].zone = checks[k].zone
<1>1. checks \in Seq(CheckSet) /\ Len(checks) \in Nat /\ DOMAIN checks = 1 .. Len(checks)
      /\ \A k \in 1 .. Len(checks) : checks[k] \in CheckSet
  BY DEF CourseTypes
<1>2. \A k \in 1 .. Len(checks) : /\ Beside(checks[k]) \in CheckSet /\ ~Beside(checks[k]).alone
                                 /\ Beside(checks[k]).zone = checks[k].zone
  BY <1>1, CheckMarked
<1>3. AllBeside \in [1 .. Len(checks) -> CheckSet]
  BY <1>1, <1>2 DEF AllBeside
<1>4. AllBeside \in Seq(CheckSet) /\ Len(AllBeside) = Len(checks)
  BY <1>1, <1>3
<1> QED BY <1>1, <1>2, <1>4 DEF AllBeside

\* What a check starts with is what Redis holds at that moment, and the others are not alone.
LEMMA CheckStarts ==
  ASSUME CourseTypes, NEW k \in [Regs -> KeySet], NEW c \in CourseSet, ChecksZone(k, c)
  PROVE  /\ checks' \in Seq(CheckSet) /\ Len(checks') = Len(checks) + 1
         /\ \A n \in 1 .. Len(checks) : ~checks'[n].alone /\ checks'[n].zone = checks[n].zone
         /\ checks'[Len(checks')].zone = c.pos.pin /\ checks'[Len(checks')].got = k[selected].zone
         /\ checks'[Len(checks')].alone => jobs = <<>> /\ Len(checks) = 0
<1>1. /\ AllBeside \in Seq(CheckSet) /\ Len(AllBeside) = Len(checks) /\ Len(checks) \in Nat
      /\ \A n \in 1 .. Len(checks) : ~AllBeside[n].alone /\ AllBeside[n].zone = checks[n].zone
  BY ChecksMarked DEF CourseTypes
<1>2. /\ Checked(k, c) \in CheckSet /\ Checked(k, c).zone = c.pos.pin /\ Checked(k, c).got = k[selected].zone
      /\ Checked(k, c).alone => jobs = <<>> /\ checks = <<>>
  BY DEF Checked, CheckSet, CourseSet, Poses, Marks, KeySet, CourseTypes
<1>3. checks' = Append(AllBeside, Checked(k, c))
  BY DEF ChecksZone, AllBeside
<1>4. checks = <<>> => Len(checks) = 0
  OBVIOUS
<1> QED BY <1>1, <1>2, <1>3, <1>4

\* What is kept of a sync that a step disturbs, and of a check.
SyncDisturbed ==
  /\ syncing' = Idle \/ syncing' \in SyncSet
  /\ Syncing' => ~syncing'.alone
  /\ EditSeen'
  /\ Syncing' /\ syncing'.clean /\ syncing'.step = 1 => course'.known
CheckDisturbed ==
  /\ checks' \in Seq(CheckSet)
  /\ \A k \in 1 .. Len(checks') : ~checks'[k].alone

LEMMA CheckBeside ==
  ASSUME CourseTypes, NotAlone PROVE CheckDisturbed
<1>1. checks' = AllBeside
  BY DEF NotAlone, AllBeside
<1> QED BY <1>1, ChecksMarked DEF CheckDisturbed

LEMMA SyncOvertaken ==
  ASSUME CourseTypes, NEW m \in Marks \cup {NoMark}, syncing' \in {Overtaken(syncing), Overtaken(Touched(syncing, m))}
  PROVE  SyncDisturbed
<1>1. CASE syncing = Idle
  BY <1>1, IdleMarked DEF SyncDisturbed, EditSeen, Syncing
<1>2. CASE syncing \in SyncSet
  BY <1>2, SyncMarked DEF SyncDisturbed, EditSeen, Syncing
<1> QED BY <1>1, <1>2 DEF CourseTypes

LEMMA SyncTouched ==
  ASSUME CourseTypes, SyncIsFresh, NEW m \in Marks \cup {NoMark}, syncing' = Touched(syncing, m), Edits(jobs'),
         course.known => course'.known
  PROVE  SyncDisturbed
<1>1. CASE syncing = Idle
  BY <1>1, IdleMarked DEF SyncDisturbed, EditSeen, Syncing
<1>2. CASE syncing \in SyncSet
  BY <1>2, SyncMarked DEF SyncDisturbed, EditSeen, Syncing, SyncIsFresh
<1> QED BY <1>1, <1>2 DEF CourseTypes

LEMMA SyncStays ==
  ASSUME CourseTypes, SyncIsFresh, EditSeen, Edits(jobs) => Edits(jobs'), course.known => course'.known,
         syncing' = Beside(syncing) \/ (syncing' = syncing /\ jobs # <<>>)
  PROVE  SyncDisturbed
<1>1. CASE syncing = Idle
  BY <1>1, IdleMarked DEF SyncDisturbed, EditSeen, Syncing
<1>2. CASE syncing \in SyncSet
  <2>0. syncing # Idle /\ NoMark \in Marks \cup {NoMark}
    BY <1>2, SyncMarked
  <2>1. CASE syncing' = Beside(syncing)
    <3>1. /\ syncing' \in SyncSet /\ ~syncing'.alone /\ syncing'.clean = syncing.clean
          /\ syncing'.touched = syncing.touched /\ syncing'.step = syncing.step
      BY <1>2, <2>0, <2>1, SyncMarked
    <3> QED BY <2>0, <3>1 DEF SyncDisturbed, EditSeen, Syncing, SyncIsFresh
  <2>2. CASE syncing' = syncing /\ jobs # <<>>
    BY <1>2, <2>0, <2>2 DEF SyncDisturbed, EditSeen, Syncing, SyncIsFresh
  <2> QED BY <2>1, <2>2
<1> QED BY <1>1, <1>2 DEF CourseTypes

\* A step that disturbs both promises nothing more.
LEMMA DisturbedIsFine ==
  ASSUME CourseInv, CourseTypes', SyncDisturbed, CheckDisturbed, healed' = 0, running'
  PROVE  CourseInv'
  BY DEF CourseInv, SyncDisturbed, CheckDisturbed, SyncIsFresh, CheckIsFresh, HealedIsSo, DownIsIdle

LEMMA CourseInitInv == CourseInit => CourseInv
<1> SUFFICES ASSUME CourseInit PROVE CourseInv
  OBVIOUS
<1> USE DEF CourseInit
<1>1. redis \in [Regs -> KeySet]
  <2>1. [m \in Marks |-> DefaultAt] \in Poses
    BY DefaultPlace DEF Poses
  <2>2. [EmptyKeys EXCEPT !.pos = [m \in Marks |-> DefaultAt]] \in KeySet
    BY <2>1, EmptyType DEF KeySet
  <2> QED BY <2>2, EmptyType DEF Regs
<1>2. jobs \in Seq(JobSet)
  OBVIOUS
<1>5. checks \in Seq(CheckSet)
  OBVIOUS
<1>3. CourseTypes
  BY <1>1, <1>2, <1>5, EmptyType, DefaultPlace DEF CourseTypes
<1>4. checks = <<>> /\ Len(checks) = 0
  OBVIOUS
<1> QED BY <1>3, <1>4 DEF CourseInv, EditSeen, SyncIsFresh, CheckIsFresh, HealedIsSo, DownIsIdle, Syncing

-----------------------------------------------------------------------------
(* Functions that go on. Each leaves types and, of a sync, what a disturbed *)
(* one has to keep.                                                         *)

GoneOn ==
  /\ redis' \in [Regs -> KeySet] /\ course' \in CourseSet /\ jobs' \in Seq(JobSet) /\ posted' \in CoursePlaces
  /\ SyncDisturbed

LEMMA Replied ==
  ASSUME CourseInv, NEW i \in 1 .. Len(jobs)
  PROVE  /\ CourseTypes /\ SyncIsFresh /\ EditSeen
         /\ jobs[i] \in JobSet /\ jobs # <<>> /\ jobs[i].pos \in Poses /\ jobs[i].to \in CoursePlaces
         /\ jobs[i].pos.pin \in CoursePlaces
         /\ Keys \in KeySet /\ Keys.pos \in Poses /\ Keys.on \in BOOLEAN
<1>1. CourseTypes /\ SyncIsFresh /\ EditSeen
  BY DEF CourseInv
<1>2. jobs[i] \in JobSet /\ jobs # <<>>
  BY <1>1 DEF CourseTypes
<1>3. jobs[i].pos \in Poses /\ jobs[i].to \in CoursePlaces /\ jobs[i].pos.pin \in CoursePlaces
  BY <1>2 DEF JobSet, Poses, Marks
<1>4. Keys \in KeySet
  BY <1>1 DEF CourseTypes, Keys
<1>5. Keys.pos \in Poses /\ Keys.on \in BOOLEAN
  BY <1>4 DEF KeySet
<1> QED BY <1>1, <1>2, <1>3, <1>4, <1>5

LEMMA SetMarkReplied ==
  ASSUME CourseInv, NEW i \in 1 .. Len(jobs), SetMarkGoesOn(i)
  PROVE  GoneOn
<1> DEFINE j == jobs[i]
           done == [course EXCEPT !.pos[j.mark] = j.to]
           gate == j.mark = "pin" /\ course.gate
<1>0. /\ CourseTypes /\ SyncIsFresh /\ EditSeen /\ j \in JobSet /\ jobs # <<>> /\ j.to \in CoursePlaces
      /\ j.mark \in Marks \cup {NoMark} /\ j.step \in Int
  BY Replied DEF JobSet
<1>1. done \in CourseSet /\ done.known = course.known
  <2>1. [course.pos EXCEPT ![j.mark] = j.to] \in Poses
    BY <1>0 DEF CourseTypes, CourseSet, Poses
  <2> QED BY <1>0, <2>1 DEF CourseTypes, CourseSet
<1>2. j.op = "set"
  BY DEF SetMarkGoesOn
<1>3. Edits(jobs)
  BY <1>2 DEF Edits
<1>4. CASE j.step = 1
  <2>1. Goes(i, 2) /\ UNCHANGED <<course, redis, syncing, posted>>
    BY <1>4 DEF SetMarkGoesOn
  <2>2. jobs' \in Seq(JobSet) /\ Edits(jobs')
    <3>1. Stepped(jobs, i, 2) \in Seq(JobSet) /\ (Edits(Stepped(jobs, i, 2)) <=> Edits(jobs))
      BY <1>0, JobSteps DEF CourseTypes
    <3> QED BY <1>3, <2>1, <3>1 DEF Goes, Stepped, WithPos
  <2>3. SyncDisturbed
    BY <1>0, <2>1, <2>2, SyncStays
  <2> QED BY <1>0, <2>1, <2>2, <2>3 DEF GoneOn, CourseTypes
<1>5. CASE j.step = 2 /\ ~course.known
  <2>0. j.step # 1 /\ j.step = 2 /\ ~course.known
    BY <1>5
  <2>1. Ends(i) /\ syncing' = Overtaken(syncing) /\ UNCHANGED <<course, redis, posted>>
    BY <2>0 DEF SetMarkGoesOn
  <2>2. jobs' \in Seq(JobSet)
    BY <1>0, <2>1, JobEnds DEF Ends, CourseTypes
  <2>3. SyncDisturbed
    BY <1>0, <2>1, SyncOvertaken
  <2> QED BY <1>0, <2>1, <2>2, <2>3 DEF GoneOn, CourseTypes
<1>6. CASE j.step = 2 /\ course.known /\ gate
  <2>1. /\ course' = done /\ redis' = Gated(redis, done) /\ syncing' = Touched(syncing, j.mark)
        /\ Goes(i, 3) /\ UNCHANGED posted
    BY <1>6 DEF SetMarkGoesOn
  <2>2. jobs' \in Seq(JobSet) /\ Edits(jobs')
    <3>1. jobs \in Seq(JobSet)
      BY <1>0 DEF CourseTypes
    <3>2. Stepped(jobs, i, 3) \in Seq(JobSet) /\ (Edits(Stepped(jobs, i, 3)) <=> Edits(jobs))
      <4> HIDE DEF j, done, gate
      <4> QED BY <3>1, JobSteps
    <3> QED BY <1>3, <2>1, <3>2 DEF Goes, Stepped, WithPos
  <2> HIDE DEF done
  <2>3. SyncDisturbed
    BY <1>0, <1>1, <2>1, <2>2, SyncTouched
  <2>4. redis' \in [Regs -> KeySet]
    BY <1>0, <1>1, <2>1, GateWritten DEF CourseTypes
  <2> QED BY <1>0, <1>1, <2>1, <2>2, <2>3, <2>4 DEF GoneOn, CourseTypes
<1>7. CASE ~(j.step = 1) /\ ~(j.step = 2 /\ ~course.known) /\ ~(j.step = 2 /\ course.known /\ gate)
  <2>1. /\ course' = IF j.step = 2 THEN done ELSE course
        /\ redis' = Broadcast(redis, course', TRUE)
        /\ syncing' = Overtaken(Touched(syncing, j.mark))
        /\ posted' = IF j.own THEN j.to ELSE posted
        /\ Ends(i)
    BY <1>7 DEF SetMarkGoesOn
  <2> HIDE DEF done
  <2>2. jobs' \in Seq(JobSet)
    BY <1>0, <2>1, JobEnds DEF Ends, CourseTypes
  <2>3. SyncDisturbed
    BY <1>0, <2>1, SyncOvertaken
  <2>4. course' \in CourseSet
    BY <1>0, <1>1, <2>1 DEF CourseTypes
  <2>5. redis' \in [Regs -> KeySet]
    BY <1>0, <2>1, <2>4, BroadcastDone DEF CourseTypes
  <2> QED BY <1>0, <2>1, <2>2, <2>3, <2>4, <2>5 DEF GoneOn, CourseTypes
<1> QED BY <1>4, <1>5, <1>6, <1>7

LEMMA ResetReplied ==
  ASSUME CourseInv, NEW i \in 1 .. Len(jobs), ResetGoesOn(i)
  PROVE  GoneOn
<1> DEFINE j == jobs[i]
           fresh == [pos |-> j.pos, gate |-> FALSE, known |-> TRUE, of |-> j.of]
<1>0. /\ CourseTypes /\ SyncIsFresh /\ EditSeen /\ j \in JobSet /\ jobs # <<>> /\ j.pos \in Poses
      /\ j.of \in Regs /\ j.pos.pin \in CoursePlaces /\ Keys.pos \in Poses
      /\ jobs \in Seq(JobSet) /\ redis \in [Regs -> KeySet] /\ selected \in Regs /\ course \in CourseSet
      /\ posted \in CoursePlaces
  BY Replied DEF JobSet, CourseTypes
<1>1. fresh \in CourseSet
  BY <1>0 DEF CourseSet
<1>2. j.op = "reset" /\ posted' = posted
  BY DEF ResetGoesOn
<1>3. Edits(jobs)
  BY <1>2 DEF Edits
<1> HIDE DEF fresh
<1>4. CASE /\ j.step = 1 /\ redis' = KeysCleared(redis, j.of) /\ Goes(i, 2) /\ UNCHANGED <<course, syncing>>
  <2>1. jobs' \in Seq(JobSet) /\ Edits(jobs')
    <3>1. Stepped(jobs, i, 2) \in Seq(JobSet) /\ (Edits(Stepped(jobs, i, 2)) <=> Edits(jobs))
      BY <1>0, JobSteps DEF CourseTypes
    <3> QED BY <1>3, <1>4, <3>1 DEF Goes, Stepped, WithPos
  <2>2. redis' \in [Regs -> KeySet]
    BY <1>0, <1>4, EmptyType DEF KeysCleared
  <2>3. SyncDisturbed
    BY <1>0, <1>4, <2>1, SyncStays
  <2> QED BY <1>0, <1>2, <1>4, <2>1, <2>2, <2>3 DEF GoneOn
<1>5. CASE /\ j.step = 2 /\ Reads(i, 3)
           /\ UNCHANGED <<redis, course, syncing>>
  <2>1. jobs' \in Seq(JobSet) /\ Edits(jobs')
    BY <1>0, <1>3, <1>5, JobReads
  <2>2. SyncDisturbed
    BY <1>0, <1>5, <2>1, SyncStays
  <2> QED BY <1>0, <1>2, <1>5, <2>1, <2>2 DEF GoneOn
<1>6. CASE /\ j.step = 3 /\ redis' = PutMissing(redis, selected, j.pos)
           /\ jobs' = [jobs EXCEPT ![i].step = 4, ![i].pos = Filled(j.pos)]
           /\ UNCHANGED <<course, syncing>>
  <2>1. jobs' \in Seq(JobSet) /\ Edits(jobs')
    <3>1. WithPos(jobs, i, 4, Filled(j.pos)) \in Seq(JobSet) /\ (Edits(WithPos(jobs, i, 4, Filled(j.pos))) <=> Edits(jobs))
      BY <1>0, JobHolds, KeysFilled DEF CourseTypes
    <3> QED BY <1>3, <1>6, <3>1 DEF Goes, Stepped, WithPos
  <2>2. redis' \in [Regs -> KeySet]
    BY <1>0, <1>6, KeysWritten, DefaultPlace DEF Marks
  <2>3. SyncDisturbed
    BY <1>0, <1>6, <2>1, SyncStays
  <2> QED BY <1>0, <1>2, <1>6, <2>1, <2>2, <2>3 DEF GoneOn
<1>7. CASE /\ j.step = 4 /\ redis' = PutZone(redis, selected, j.pos.pin) /\ Goes(i, 5) /\ UNCHANGED <<course, syncing>>
  <2>1. jobs' \in Seq(JobSet) /\ Edits(jobs')
    <3>1. Stepped(jobs, i, 5) \in Seq(JobSet) /\ (Edits(Stepped(jobs, i, 5)) <=> Edits(jobs))
      BY <1>0, JobSteps DEF CourseTypes
    <3> QED BY <1>3, <1>7, <3>1 DEF Goes, Stepped, WithPos
  <2>2. redis' \in [Regs -> KeySet]
    BY <1>0, <1>7, ZoneWritten
  <2>3. SyncDisturbed
    BY <1>0, <1>7, <2>1, SyncStays
  <2> QED BY <1>0, <1>2, <1>7, <2>1, <2>2, <2>3 DEF GoneOn
<1>8. CASE /\ j.step = 5 /\ course' = fresh /\ redis' = Broadcast(redis, fresh, TRUE)
           /\ syncing' = Overtaken(syncing) /\ Ends(i)
  <2>1. jobs' \in Seq(JobSet)
    BY <1>0, <1>8, JobEnds DEF Ends
  <2>2. redis' \in [Regs -> KeySet]
    BY <1>0, <1>1, <1>8, BroadcastDone
  <2>3. SyncDisturbed
    BY <1>0, <1>8, SyncOvertaken
  <2> QED BY <1>0, <1>1, <1>2, <1>8, <2>1, <2>2, <2>3 DEF GoneOn
<1> QED BY <1>4, <1>5, <1>6, <1>7, <1>8 DEF ResetGoesOn, fresh

LEMMA GateReplied ==
  ASSUME CourseInv, NEW i \in 1 .. Len(jobs), GateGoesOn(i)
  PROVE  GoneOn
<1> DEFINE j == jobs[i]
<1>0. /\ CourseTypes /\ SyncIsFresh /\ EditSeen /\ j \in JobSet /\ jobs # <<>>
      /\ jobs \in Seq(JobSet) /\ redis \in [Regs -> KeySet] /\ selected \in Regs /\ course \in CourseSet
      /\ posted \in CoursePlaces
  BY Replied DEF CourseTypes
<1>1. j.op = "gate" /\ UNCHANGED <<course, syncing, posted>>
  BY DEF GateGoesOn
<1>2. CASE redis' = Gated(redis, course) /\ Goes(i, 2)
  <2>1. Stepped(jobs, i, 2) \in Seq(JobSet) /\ (Edits(Stepped(jobs, i, 2)) <=> Edits(jobs))
    BY <1>0, JobSteps
  <2>2. jobs' = Stepped(jobs, i, 2)
    BY <1>2 DEF Goes, Stepped
  <2>3. SyncDisturbed
    BY <1>0, <1>1, <2>1, <2>2, SyncStays
  <2> QED BY <1>0, <1>1, <1>2, <2>1, <2>2, <2>3, GateWritten DEF GoneOn
<1>3. CASE redis' = Broadcast(redis, course, TRUE) /\ Ends(i)
  <2>1. jobs' \in Seq(JobSet) /\ (Edits(jobs) => Edits(jobs'))
    BY <1>0, <1>1, <1>3, JobEnds DEF Ends
  <2>2. SyncDisturbed
    BY <1>0, <1>1, <2>1, SyncStays
  <2> QED BY <1>0, <1>1, <1>3, <2>1, <2>2, BroadcastDone DEF GoneOn
<1> QED BY <1>2, <1>3 DEF GateGoesOn

\* A look-up that found nothing, or whose read failed.
LEMMA NothingFound ==
  ASSUME CourseInv, NEW i \in 1 .. Len(jobs), ResolvedNone(i)
  PROVE  course' \in CourseSet /\ jobs' \in Seq(JobSet) /\ SyncDisturbed
<1>0. CourseTypes /\ jobs \in Seq(JobSet) /\ NoMark \in Marks \cup {NoMark}
  BY Replied DEF CourseTypes
<1>1. course' = NoMarks /\ syncing' = Overtaken(syncing) /\ (Goes(i, 0) \/ Ends(i))
  BY DEF ResolvedNone
<1>2. Stepped(jobs, i, 0) \in Seq(JobSet) /\ RemoveAt(jobs, i) \in Seq(JobSet)
  BY <1>0, JobSteps, JobEnds
<1>3. jobs' \in Seq(JobSet)
  BY <1>1, <1>2 DEF Goes, Ends, Stepped
<1>4. SyncDisturbed
  BY <1>0, <1>1, SyncOvertaken
<1> QED BY <1>1, <1>3, <1>4, EmptyType

LEMMA ResolveReplied ==
  ASSUME CourseInv, NEW i \in 1 .. Len(jobs), ResolveGoesOn(i)
  PROVE  GoneOn
<1> DEFINE j == jobs[i]
           found == [pos |-> j.pos, gate |-> j.on, known |-> TRUE, of |-> j.of]
<1>0. /\ CourseTypes /\ SyncIsFresh /\ EditSeen /\ j \in JobSet /\ jobs # <<>> /\ j.pos \in Poses /\ j.on \in BOOLEAN
      /\ j.of \in Regs
      /\ Keys.pos \in Poses /\ Keys.on \in BOOLEAN
      /\ jobs \in Seq(JobSet) /\ redis \in [Regs -> KeySet] /\ selected \in Regs /\ course \in CourseSet
      /\ posted \in CoursePlaces
  BY Replied DEF JobSet, CourseTypes
<1>1. found \in CourseSet
  BY <1>0 DEF CourseSet
<1>2. j.op = "resolve" /\ posted' = posted
  BY DEF ResolveGoesOn
<1> HIDE DEF found
<1>3. CASE /\ j.step = 0 /\ (IF course.known THEN Ends(i) ELSE Reads(i, 1))
           /\ UNCHANGED <<course, redis, syncing>>
  <2>1. jobs' \in Seq(JobSet) /\ (Edits(jobs) => Edits(jobs'))
    <3>1. CASE Ends(i)
      BY <1>0, <1>2, <3>1, JobEnds DEF Ends
    <3>2. CASE Reads(i, 1)
      BY <1>0, <3>2, JobReads
    <3> QED BY <1>3, <3>1, <3>2
  <2>2. SyncDisturbed
    BY <1>0, <1>3, <2>1, SyncStays
  <2> QED BY <1>0, <1>2, <1>3, <2>1, <2>2 DEF GoneOn
<1>4. CASE j.step = 1 /\ j.pos.finish = 0 /\ ResolvedNone(i) /\ UNCHANGED redis
  BY <1>0, <1>2, <1>4, NothingFound DEF GoneOn
<1>5. CASE /\ j.step = 1 /\ j.pos.finish # 0 /\ jobs' = [jobs EXCEPT ![i].step = 2, ![i].on = Keys.on]
           /\ UNCHANGED <<course, redis, syncing>>
  <2>1. Sees(jobs, i, 2, Keys.on) \in Seq(JobSet) /\ (Edits(Sees(jobs, i, 2, Keys.on)) <=> Edits(jobs))
    BY <1>0, JobSees
  <2>2. jobs' = Sees(jobs, i, 2, Keys.on)
    BY <1>5 DEF Sees
  <2>3. SyncDisturbed
    BY <1>0, <1>5, <2>1, <2>2, SyncStays
  <2> QED BY <1>0, <1>2, <1>5, <2>1, <2>2, <2>3 DEF GoneOn
<1>6. CASE /\ j.step = 2 /\ course' = found /\ redis' = Gated(redis, found) /\ syncing' = Overtaken(syncing)
           /\ Goes(i, 3)
  <2>1. Stepped(jobs, i, 3) \in Seq(JobSet)
    BY <1>0, JobSteps
  <2>2. jobs' = Stepped(jobs, i, 3)
    BY <1>6 DEF Goes, Stepped
  <2>3. SyncDisturbed
    BY <1>0, <1>6, SyncOvertaken
  <2> QED BY <1>0, <1>1, <1>2, <1>6, <2>1, <2>2, <2>3, GateWritten DEF GoneOn
<1>7. CASE /\ j.step = 3 /\ Ends(i) /\ UNCHANGED <<course, redis, syncing>>
  <2>1. jobs' \in Seq(JobSet) /\ (Edits(jobs) => Edits(jobs'))
    BY <1>0, <1>2, <1>7, JobEnds DEF Ends
  <2>2. SyncDisturbed
    BY <1>0, <1>7, <2>1, SyncStays
  <2> QED BY <1>0, <1>2, <1>7, <2>1, <2>2 DEF GoneOn
<1> QED BY <1>3, <1>4, <1>5, <1>6, <1>7 DEF ResolveGoesOn, found

LEMMA AReply ==
  ASSUME CourseInv, NEW i \in 1 .. Len(jobs), GoesOn(i)
  PROVE  CourseInv'
<1>1. GoneOn
  BY SetMarkReplied, ResetReplied, GateReplied, ResolveReplied DEF GoesOn
<1>2. CourseTypes /\ jobs # <<>> /\ redis \in [Regs -> KeySet] /\ course \in CourseSet /\ selected \in Regs
  BY Replied DEF CourseTypes
<1>3. running /\ running'
  BY <1>2 DEF GoesOn, CourseInv, DownIsIdle, CourseTypes
<1>4. healed' = 0 /\ UNCHANGED <<running, selected, remembered>>
  BY DEF GoesOn, Disturbed
<1>5. CheckDisturbed
  <2>1. CASE NotAlone
    BY <1>2, <2>1, CheckBeside
  <2>2. CASE ChecksZone(redis, course)
    <3>1. /\ checks' \in Seq(CheckSet) /\ Len(checks') = Len(checks) + 1 /\ Len(checks) \in Nat
          /\ \A n \in 1 .. Len(checks) : ~checks'[n].alone
          /\ ~checks'[Len(checks')].alone
      BY <1>2, <2>2, CheckStarts DEF CourseTypes
    <3> QED BY <3>1 DEF CheckDisturbed
  <2> QED BY <2>1, <2>2 DEF GoesOn
<1>6. CourseTypes'
  BY <1>1, <1>2, <1>4, <1>5 DEF CourseTypes, GoneOn, SyncDisturbed, CheckDisturbed
<1> QED BY <1>1, <1>3, <1>4, <1>5, <1>6, DisturbedIsFine DEF GoneOn

-----------------------------------------------------------------------------
(* What operators, RegattaUp and failures do.                               *)

LEMMA TypesNow ==
  ASSUME CourseInv
  PROVE  /\ CourseTypes /\ SyncIsFresh /\ EditSeen
         /\ redis \in [Regs -> KeySet] /\ course \in CourseSet /\ jobs \in Seq(JobSet) /\ selected \in Regs
         /\ remembered \in Regs /\ running \in BOOLEAN /\ posted \in CoursePlaces
  BY DEF CourseInv, CourseTypes

LEMMA AnEdit ==
  ASSUME CourseInv, \/ \E m \in Marks, p \in MarkPlaces, own \in BOOLEAN : SetMark(m, p, own)
                    \/ ResetCourse
                    \/ \E on \in BOOLEAN : SetGate(on)
  PROVE  CourseInv'
<1>0. /\ CourseTypes /\ SyncIsFresh /\ EditSeen
      /\ redis \in [Regs -> KeySet] /\ course \in CourseSet /\ jobs \in Seq(JobSet) /\ selected \in Regs
      /\ EmptyKeys.pos \in Poses /\ NoMark \in Marks \cup {NoMark} /\ 0 \in CoursePlaces
  BY TypesNow, EmptyType, DefaultPlace
<1>1. /\ running' /\ healed' = 0 /\ CheckDisturbed /\ UNCHANGED <<selected, remembered, posted>>
  <2>1. CASE \E m \in Marks, p \in MarkPlaces, own \in BOOLEAN : SetMark(m, p, own)
    BY <1>0, <2>1, CheckBeside DEF SetMark, Disturbed
  <2>2. CASE ResetCourse
    BY <1>0, <2>2, CheckBeside DEF ResetCourse, Disturbed
  <2>3. CASE \E on \in BOOLEAN : SetGate(on)
    BY <1>0, <2>3, CheckBeside DEF SetGate, Disturbed
  <2> QED BY <2>1, <2>2, <2>3
<1>2. ASSUME NEW m \in Marks, NEW p \in MarkPlaces, NEW own \in BOOLEAN, SetMark(m, p, own)
      PROVE  redis' \in [Regs -> KeySet] /\ course' \in CourseSet /\ jobs' \in Seq(JobSet) /\ SyncDisturbed
  <2> DEFINE j == Job("set", m, p, own, selected, EmptyKeys.pos)
  <2>1. p \in CoursePlaces
    BY DEF CoursePlaces
  <2>2. j \in JobSet /\ j.op = "set"
    BY <1>0, <2>1 DEF Job, JobSet
  <2>3. jobs' = Append(jobs, j) /\ redis' = PutMark(redis, selected, m, p) /\ syncing' = Touched(syncing, m)
        /\ UNCHANGED course
    BY <1>2 DEF SetMark, Starts
  <2> HIDE DEF j
  <2>4. jobs' \in Seq(JobSet) /\ Edits(jobs')
    BY <1>0, <2>2, <2>3, JobStarts
  <2>5. SyncDisturbed
    BY <1>0, <2>3, <2>4, SyncTouched
  <2>6. redis' \in [Regs -> KeySet]
    BY <1>0, <2>1, <2>3, KeysWritten
  <2> QED BY <1>0, <2>3, <2>4, <2>5, <2>6
<1>3. ASSUME ResetCourse
      PROVE  redis' \in [Regs -> KeySet] /\ course' \in CourseSet /\ jobs' \in Seq(JobSet) /\ SyncDisturbed
  <2> DEFINE j == Job("reset", NoMark, 0, FALSE, selected, EmptyKeys.pos)
  <2>1. j \in JobSet /\ j.op = "reset"
    BY <1>0 DEF Job, JobSet
  <2>2. jobs' = Append(jobs, j) /\ syncing' = Beside(syncing) /\ UNCHANGED <<course, redis>>
    BY <1>3 DEF ResetCourse, Starts
  <2> HIDE DEF j
  <2>3. jobs' \in Seq(JobSet) /\ Edits(jobs')
    BY <1>0, <2>1, <2>2, JobStarts
  <2>4. SyncDisturbed
    BY <1>0, <2>2, <2>3, SyncStays
  <2> QED BY <1>0, <2>2, <2>3, <2>4
<1>4. ASSUME NEW on \in BOOLEAN, SetGate(on)
      PROVE  redis' \in [Regs -> KeySet] /\ course' \in CourseSet /\ jobs' \in Seq(JobSet) /\ SyncDisturbed
  <2> DEFINE j == Job("gate", NoMark, 0, FALSE, selected, EmptyKeys.pos)
  <2>1. j \in JobSet
    BY <1>0 DEF Job, JobSet
  <2>2. jobs' = Append(jobs, j) /\ syncing' = Beside(syncing) /\ course' = [course EXCEPT !.gate = on]
        /\ redis' = PutSwitch(redis, selected, on)
    BY <1>4 DEF SetGate, Starts
  <2> HIDE DEF j
  <2>3. jobs' \in Seq(JobSet) /\ (Edits(jobs) => Edits(jobs'))
    BY <1>0, <2>1, <2>2, JobStarts
  <2>4. course' \in CourseSet /\ course'.known = course.known
    BY <1>0, <2>2 DEF CourseSet
  <2>5. SyncDisturbed
    BY <1>0, <2>2, <2>3, <2>4, SyncStays
  <2>6. redis' \in [Regs -> KeySet]
    BY <1>0, <2>2, KeysWritten DEF Marks
  <2> QED BY <2>3, <2>4, <2>5, <2>6
<1>5. redis' \in [Regs -> KeySet] /\ course' \in CourseSet /\ jobs' \in Seq(JobSet) /\ SyncDisturbed
  BY <1>0, <1>2, <1>3, <1>4
<1>6. CourseTypes'
  BY <1>0, <1>1, <1>5 DEF CourseTypes, SyncDisturbed, CheckDisturbed
<1> QED BY <1>1, <1>5, <1>6, DisturbedIsFine

LEMMA AFailure ==
  ASSUME CourseInv, NEW i \in 1 .. Len(jobs), Fails(i)
  PROVE  CourseInv'
<1> DEFINE j == jobs[i]
<1>0. /\ CourseTypes /\ SyncIsFresh /\ EditSeen /\ jobs \in Seq(JobSet) /\ NoMark \in Marks \cup {NoMark}
      /\ jobs # <<>> /\ j \in JobSet /\ course \in CourseSet
  BY TypesNow, Replied
<1>1. /\ NotAlone /\ healed' = 0 /\ UNCHANGED <<running, selected, remembered, redis, posted>>
  BY DEF Fails, Disturbed
<1>2. \/ ResolvedNone(i)
      \/ Ends(i) /\ UNCHANGED course /\ syncing' = Overtaken(syncing)
      \/ Ends(i) /\ UNCHANGED course /\ j.op \notin {"set", "reset"} /\ syncing' = Beside(syncing)
  BY DEF Fails
<1>3. course' \in CourseSet /\ jobs' \in Seq(JobSet) /\ SyncDisturbed
  <2>1. CASE ResolvedNone(i)
    BY <2>1, NothingFound
  <2>2. CASE Ends(i) /\ UNCHANGED course /\ syncing' = Overtaken(syncing)
    BY <1>0, <2>2, JobEnds, SyncOvertaken DEF Ends
  <2>3. CASE Ends(i) /\ UNCHANGED course /\ j.op \notin {"set", "reset"} /\ syncing' = Beside(syncing)
    <3>1. jobs' \in Seq(JobSet) /\ (Edits(jobs) => Edits(jobs'))
      BY <1>0, <2>3, JobEnds DEF Ends
    <3> QED BY <1>0, <2>3, <3>1, SyncStays
  <2> QED BY <1>2, <2>1, <2>2, <2>3
<1>4. CheckDisturbed
  BY <1>0, <1>1, CheckBeside
<1>5. running'
  BY <1>0, <1>1 DEF CourseInv, DownIsIdle, CourseTypes
<1>6. CourseTypes'
  BY <1>0, <1>1, <1>3, <1>4 DEF CourseTypes, SyncDisturbed, CheckDisturbed
<1> QED BY <1>1, <1>3, <1>4, <1>5, <1>6, DisturbedIsFine

\* Another regatta, or the same one again.
LEMMA ARegatta ==
  ASSUME CourseInv, NEW r \in Regattas, SelectRegattaId(r)
  PROVE  CourseInv'
<1>0. /\ CourseTypes /\ SyncIsFresh /\ EditSeen
      /\ redis \in [Regs -> KeySet] /\ course \in CourseSet /\ jobs \in Seq(JobSet) /\ selected \in Regs
      /\ NoMark \in Marks \cup {NoMark} /\ 0 \in CoursePlaces /\ r \in Regs
  BY TypesNow, DefaultPlace DEF Regs
<1>1. running' /\ healed' = 0 /\ CheckDisturbed /\ selected' = r /\ remembered' = r /\ UNCHANGED <<redis, posted>>
  BY <1>0, CheckBeside DEF SelectRegattaId, Disturbed
<1>2. CASE r = selected
  <2>1. UNCHANGED <<course, jobs, syncing>>
    BY <1>2 DEF SelectRegattaId
  <2>2. CourseTypes'
    BY <1>0, <1>1, <2>1 DEF CourseTypes, CheckDisturbed
  <2>3. EditSeen' /\ SyncIsFresh' /\ CheckIsFresh' /\ HealedIsSo' /\ DownIsIdle'
    BY <1>0, <1>1, <1>2, <2>1 DEF EditSeen, SyncIsFresh, CheckIsFresh, HealedIsSo, DownIsIdle, CheckDisturbed, Syncing, Keys, Agrees
  <2> QED BY <2>2, <2>3 DEF CourseInv
<1>3. CASE r # selected
  <2>1. course' = NoMarks /\ jobs' = Append(jobs, Resolving(FALSE)) /\ syncing' = Overtaken(syncing)
    BY <1>3 DEF SelectRegattaId, Starts
  <2>2. Resolving(FALSE) \in JobSet
    <3>1. redis'[selected'].pos \in Poses /\ selected' \in Regs
      BY <1>0, <1>1 DEF KeySet
    <3>2. redis[selected'].pos \in Poses
      BY <1>1, <3>1
    <3> QED BY <1>0, <3>1, <3>2 DEF Resolving, Job, JobSet
  <2>3. jobs' \in Seq(JobSet) /\ course' \in CourseSet
    BY <1>0, <2>1, <2>2, JobStarts, EmptyType
  <2>4. SyncDisturbed
    BY <1>0, <2>1, SyncOvertaken
  <2>5. CourseTypes'
    BY <1>0, <1>1, <2>3, <2>4 DEF CourseTypes, SyncDisturbed, CheckDisturbed
  <2> QED BY <1>1, <2>4, <2>5, DisturbedIsFine
<1> QED BY <1>2, <1>3

\* Somebody else's step, or the end of a regatta.
LEMMA FromOutside ==
  ASSUME CourseInv,
         \/ \E r \in Regattas : RegattaEnds(r)
         \/ RefreshRegattas
         \/ \E m \in Marks \cup {NoMark} : Assign(m)
         \/ \E r \in Regattas, m \in Marks, p \in MarkPlaces : Outside(r, m, p)
  PROVE  CourseInv'
<1>0. /\ CourseTypes /\ SyncIsFresh /\ EditSeen
      /\ redis \in [Regs -> KeySet] /\ course \in CourseSet /\ jobs \in Seq(JobSet) /\ selected \in Regs
      /\ 0 \in CoursePlaces /\ NoRegatta \in Regs
  BY TypesNow, DefaultPlace
<1>1. ASSUME NEW r \in Regattas, RegattaEnds(r) PROVE CourseInv'
  <2>1. UNCHANGED <<running, selected, remembered, redis, course, jobs, syncing, checks, posted, healed>>
    BY <1>1 DEF RegattaEnds
  <2> QED BY <2>1 DEF CourseInv, CourseTypes, EditSeen, SyncIsFresh, CheckIsFresh, HealedIsSo, DownIsIdle, Keys, Syncing, Agrees
<1>2. CASE RefreshRegattas
  <2>1. /\ running' /\ healed' = 0 /\ NotAlone /\ syncing' = Beside(syncing)
        /\ selected' = NoRegatta /\ remembered' = NoRegatta /\ UNCHANGED <<running, redis, course, jobs, posted>>
    BY <1>2 DEF RefreshRegattas, Disturbed
  <2>2. SyncDisturbed /\ CheckDisturbed
    BY <1>0, <2>1, SyncStays, CheckBeside
  <2>3. CourseTypes'
    BY <1>0, <2>1, <2>2 DEF CourseTypes, SyncDisturbed, CheckDisturbed
  <2> QED BY <2>1, <2>2, <2>3, DisturbedIsFine
<1>3. ASSUME NEW m \in Marks \cup {NoMark}, Assign(m) PROVE CourseInv'
  <2>1. UNCHANGED <<running, selected, remembered, redis, course, jobs, syncing, checks, healed>> /\ posted' = 0
    BY <1>3 DEF Assign
  <2> QED BY <1>0, <2>1 DEF CourseInv, CourseTypes, EditSeen, SyncIsFresh, CheckIsFresh, HealedIsSo, DownIsIdle, Keys, Syncing, Agrees
<1>4. ASSUME NEW r \in Regattas, NEW m \in Marks, NEW p \in MarkPlaces, Outside(r, m, p) PROVE CourseInv'
  <2>1. /\ redis' = PutMark(redis, r, m, p) /\ healed' = 0 /\ NotAlone /\ syncing' = Beside(syncing)
        /\ UNCHANGED <<running, selected, remembered, course, jobs, posted>>
    BY <1>4 DEF Outside, Disturbed
  <2>2. redis' \in [Regs -> KeySet]
    BY <1>0, <2>1, KeysWritten, EmptyType DEF Regs, CoursePlaces
  <2>3. SyncDisturbed /\ CheckDisturbed
    BY <1>0, <2>1, SyncStays, CheckBeside
  <2>4. CourseTypes'
    BY <1>0, <2>1, <2>2, <2>3 DEF CourseTypes, SyncDisturbed, CheckDisturbed
  <2>5. CASE running
    BY <2>1, <2>3, <2>4, <2>5, DisturbedIsFine
  <2>6. CASE ~running
    <3>1. syncing' = Idle /\ checks' = <<>> /\ jobs' = <<>>
      BY <2>1, <2>6, IdleMarked DEF CourseInv, DownIsIdle, Syncing, NotAlone
    <3> QED BY <2>1, <2>4, <3>1 DEF CourseInv, EditSeen, SyncIsFresh, CheckIsFresh, HealedIsSo, DownIsIdle, Syncing
  <2> QED BY <1>0, <2>5, <2>6
<1> QED BY <1>1, <1>2, <1>3, <1>4

-----------------------------------------------------------------------------
(* What comes round by itself.                                              *)

LEMMA SyncReads ==
  ASSUME CourseInv, SyncRead PROVE CourseInv'
<1> DEFINE s == [step |-> 1, got |-> Keys.pos, clean |-> TRUE, touched |-> {}, alone |-> jobs = <<>>]
<1>1. /\ syncing' = s /\ running /\ syncing = Idle /\ course.known /\ selected # NoRegatta
      /\ UNCHANGED <<running, selected, remembered, redis, course, jobs, checks, posted, healed>>
  BY DEF SyncRead
<1>2. CourseTypes /\ Keys.pos \in Poses
  BY TypesNow DEF Keys, KeySet
<1>3. s \in SyncSet /\ s # Idle /\ s.step = 1 /\ s.got = Keys.pos /\ s.clean = TRUE /\ s.touched = {}
      /\ (s.alone <=> jobs = <<>>)
  BY <1>2 DEF SyncSet, Idle
<1> HIDE DEF s
<1>4. CourseTypes'
  BY <1>1, <1>2, <1>3 DEF CourseTypes
<1>5. EditSeen' /\ DownIsIdle' /\ SyncIsFresh'
  <2>1. EditSeen'
    BY <1>1, <1>3 DEF EditSeen, Syncing
  <2>2. DownIsIdle'
    BY <1>1 DEF DownIsIdle
  <2>3. SyncIsFresh'
    <3>1. Keys' = Keys
      BY <1>1 DEF Keys
    <3> QED BY <1>1, <1>3, <3>1 DEF SyncIsFresh, Syncing
  <2> QED BY <2>1, <2>2, <2>3
<1>6. CheckIsFresh'
  BY <1>1 DEF CourseInv, CheckIsFresh, Syncing, Keys
<1>7. HealedIsSo'
  BY <1>1, <1>3 DEF CourseInv, HealedIsSo, Syncing, Keys, Agrees
<1> QED BY <1>4, <1>5, <1>6, <1>7 DEF CourseInv

\* What a sync puts in memory.
Moved ==
  [course EXCEPT !.pos = [m \in Marks |-> IF m \in Changed(course.pos, syncing.got) THEN syncing.got[m] ELSE @[m]]]

LEMMA MovedAgrees ==
  ASSUME course \in CourseSet, syncing \in SyncSet
  PROVE  /\ Moved \in CourseSet /\ Moved.known = course.known /\ Changed(Moved.pos, syncing.got) = {}
         /\ "pin" \notin Changed(course.pos, syncing.got) => Moved.pos.pin = course.pos.pin
<1> DEFINE new == [m \in Marks |-> IF m \in Changed(course.pos, syncing.got) THEN syncing.got[m] ELSE course.pos[m]]
<1>1. course.pos \in Poses /\ syncing.got \in Poses
  BY DEF CourseSet, SyncSet
<1>2. new \in Poses
  BY <1>1 DEF Poses
<1>3. Moved = [course EXCEPT !.pos = new]
  BY DEF Moved, CourseSet
<1>4. Changed(new, syncing.got) = {}
  BY DEF Changed
<1>5. "pin" \notin Changed(course.pos, syncing.got) => new["pin"] = course.pos["pin"]
  BY DEF Marks
<1> HIDE DEF new
<1>6. [course EXCEPT !.pos = new] \in CourseSet /\ [course EXCEPT !.pos = new].known = course.known
      /\ [course EXCEPT !.pos = new].pos = new
  BY <1>2 DEF CourseSet
<1> QED BY <1>3, <1>4, <1>5, <1>6

\* A check that starts is fresh, and no other is left alone.
LEMMA OneMoreCheck ==
  ASSUME CourseTypes, NEW c \in CourseSet, ChecksZone(redis, c), c = course', course'.known, selected # NoRegatta,
         UNCHANGED <<selected, redis, jobs>>
  PROVE  CheckIsFresh'
<1>1. /\ checks' \in Seq(CheckSet) /\ Len(checks') = Len(checks) + 1 /\ Len(checks) \in Nat
      /\ \A n \in 1 .. Len(checks) : ~checks'[n].alone
      /\ checks'[Len(checks')].got = Keys.zone
      /\ checks'[Len(checks')].alone => jobs = <<>> /\ Len(checks) = 0
  BY CheckStarts DEF CourseTypes, Keys
<1>2. Keys' = Keys
  BY DEF Keys
<1>3. SUFFICES ASSUME NEW k \in 1 .. Len(checks'), checks'[k].alone
               PROVE  /\ Len(checks') = 1 /\ jobs' = <<>> /\ course'.known /\ selected' # NoRegatta
                      /\ Keys'.zone \in {checks'[k].got, course'.pos.pin}
  BY DEF CheckIsFresh
<1>4. k = Len(checks')
  BY <1>1, <1>3
<1> QED BY <1>1, <1>2, <1>3, <1>4

\* A sync that is over without having changed anything, or after the last of its changes.
LEMMA SyncEnds ==
  ASSUME CourseInv, Syncing, running, SyncIsOver, CourseTypes', UNCHANGED <<running, selected, jobs>>,
         syncing.alone /\ healed = 0 => Agrees' /\ course'.known,
         CheckIsFresh',
         \/ UNCHANGED <<course, checks, redis>>
         \/ healed = 0
  PROVE  CourseInv'
<1>1. syncing' = Idle /\ ~Syncing'
  BY DEF SyncIsOver, Syncing
<1>2. EditSeen' /\ SyncIsFresh' /\ DownIsIdle'
  BY <1>1 DEF EditSeen, SyncIsFresh, DownIsIdle, Syncing
<1>3. HealedIsSo'
  <2>1. CASE syncing.alone /\ healed = 0
    <3>1. healed' = 1
      BY <2>1 DEF SyncIsOver
    <3> QED BY <1>1, <2>1, <3>1 DEF CourseInv, SyncIsFresh, HealedIsSo
  <2>2. CASE ~(syncing.alone /\ healed = 0)
    <3>1. healed' = healed
      BY <2>2 DEF SyncIsOver
    <3>2. CASE healed = 0
      BY <3>1, <3>2 DEF HealedIsSo
    <3>3. CASE healed # 0 /\ UNCHANGED <<course, checks, redis>>
      BY <1>1, <3>1, <3>3 DEF CourseInv, HealedIsSo, Agrees, Keys
    <3> QED BY <3>2, <3>3
  <2> QED BY <2>1, <2>2
<1> QED BY <1>2, <1>3 DEF CourseInv

LEMMA Applies ==
  ASSUME CourseInv, SyncApply
  PROVE  CourseInv'
<1> DEFINE changed == Changed(course.pos, syncing.got)
<1>0. /\ CourseTypes /\ SyncIsFresh /\ EditSeen
      /\ redis \in [Regs -> KeySet] /\ course \in CourseSet /\ jobs \in Seq(JobSet) /\ selected \in Regs
  BY TypesNow
<1>1. /\ syncing.step = 1 /\ UNCHANGED <<running, selected, remembered, jobs, posted>>
  BY DEF SyncApply
<1>2. syncing \in SyncSet /\ Syncing
  BY <1>0, <1>1 DEF CourseTypes, Idle, Syncing
<1>3. running
  BY <1>0, <1>2 DEF CourseInv, DownIsIdle, CourseTypes
<1>4. CASE (~syncing.clean \/ Editing \/ changed = {}) /\ SyncIsOver /\ UNCHANGED <<course, redis, checks>>
  <2>1. CourseTypes'
    BY <1>0, <1>1, <1>4 DEF CourseTypes, SyncIsOver
  <2>2. syncing.alone => changed = {} /\ syncing.got = Keys.pos /\ course.known
    BY <1>0, <1>2, <1>4 DEF SyncIsFresh, Editing
  <2>3. syncing.alone => Agrees' /\ course'.known
    BY <1>1, <1>4, <2>2 DEF Agrees, Keys
  <2>4. CheckIsFresh'
    BY <1>1, <1>4 DEF CourseInv, CheckIsFresh, Keys
  <2> QED BY <1>1, <1>2, <1>3, <1>4, <2>1, <2>3, <2>4, SyncEnds
<1>5. CASE ~(~syncing.clean \/ Editing \/ changed = {})
  <2>0. syncing.clean /\ changed # {} /\ course.known
    BY <1>0, <1>1, <1>2, <1>5 DEF SyncIsFresh
  <2>1. course' = Moved
    BY <1>5 DEF SyncApply, Moved
  <2>2. /\ course' \in CourseSet /\ course'.known /\ Changed(course'.pos, syncing.got) = {}
        /\ "pin" \notin changed => course'.pos.pin = course.pos.pin
    BY <1>0, <1>2, <2>0, <2>1, MovedAgrees
  \* Once healed nothing is left to change.
  <2>3. healed = 0
    <3>1. healed >= 1 => changed = {}
      BY <1>0, <1>2 DEF CourseInv, HealedIsSo, SyncIsFresh, Agrees
    <3> QED BY <1>0, <2>0, <3>1 DEF CourseTypes
  <2>4. syncing.alone => jobs = <<>> /\ selected # NoRegatta /\ syncing.got = Keys.pos
    BY <1>0, <1>2 DEF SyncIsFresh
  <2>5. CASE "pin" \in changed /\ course.gate
    <3>1. /\ redis' = Gated(redis, course') /\ syncing' = [syncing EXCEPT !.step = 2]
          /\ UNCHANGED <<checks, healed>>
      BY <1>5, <2>1, <2>5 DEF SyncApply, Moved
    <3>2. /\ redis' \in [Regs -> KeySet]
          /\ Keys'.pos = Keys.pos /\ Keys'.zone = Keys.zone
      BY <1>0, <1>1, <2>2, <3>1, GateWritten DEF Keys
    <3>3. /\ syncing' \in SyncSet /\ syncing'.step = 2 /\ syncing'.got = syncing.got /\ syncing'.clean = syncing.clean
          /\ syncing'.touched = syncing.touched /\ syncing'.alone = syncing.alone /\ syncing' # Idle
      BY <1>2, <3>1 DEF SyncSet, Idle
    <3>4. CourseTypes'
      BY <1>0, <1>1, <2>2, <3>1, <3>2, <3>3 DEF CourseTypes
    <3>5. EditSeen' /\ DownIsIdle'
      BY <1>0, <1>1, <1>2, <1>3, <3>3 DEF EditSeen, DownIsIdle, Syncing
    <3>6. SyncIsFresh'
      BY <1>0, <1>1, <1>2, <2>0, <2>2, <2>4, <3>2, <3>3 DEF SyncIsFresh, Syncing, Agrees
    <3>7. CheckIsFresh'
      BY <1>1, <2>2, <3>1, <3>3 DEF CourseInv, CheckIsFresh, Syncing
    <3>8. HealedIsSo'
      BY <2>3, <3>1 DEF HealedIsSo
    <3> QED BY <3>4, <3>5, <3>6, <3>7, <3>8 DEF CourseInv
  <2>6. CASE ~("pin" \in changed /\ course.gate)
    <3>1. /\ redis' = Broadcast(redis, course', "pin" \in changed)
          /\ \/ "pin" \in changed \/ selected = NoRegatta
             \/ ChecksZone(redis, course')
          /\ ("pin" \in changed \/ selected = NoRegatta) => UNCHANGED checks
          /\ SyncIsOver
      BY <1>5, <2>1, <2>6 DEF SyncApply, Moved
    <3> DEFINE forced == "pin" \in changed
    <3>2. forced \in BOOLEAN
      OBVIOUS
    <3> HIDE DEF forced
    <3>3. redis' = Broadcast(redis, course', forced)
      BY <3>1 DEF forced
    <3>4. /\ redis' \in [Regs -> KeySet]
          /\ Keys'.pos = Keys.pos
          /\ forced /\ selected # NoRegatta => Keys'.zone = course'.pos.pin
          /\ ~(forced /\ selected # NoRegatta) => redis' = redis
      BY <1>0, <1>1, <2>2, <3>2, <3>3, BroadcastDone DEF Keys
    <3>5. checks' \in Seq(CheckSet)
      BY <1>0, <2>2, <3>1, CheckStarts DEF CourseTypes
    <3>6. CourseTypes'
      BY <1>0, <1>1, <2>2, <3>1, <3>4, <3>5 DEF CourseTypes, SyncIsOver
    <3>7. syncing.alone => Agrees' /\ course'.known
      BY <2>2, <2>4, <3>4 DEF Agrees
    <3>8. CheckIsFresh'
      <4>1. CASE UNCHANGED checks /\ forced
        BY <1>1, <2>2, <3>4, <4>1 DEF CourseInv, CheckIsFresh
      <4>2. CASE UNCHANGED checks /\ ~forced /\ selected = NoRegatta
        BY <1>1, <4>2 DEF CourseInv, CheckIsFresh
      <4>3. CASE ~forced /\ selected # NoRegatta
        <5>1. ChecksZone(redis, course') /\ redis' = redis
          BY <3>1, <3>4, <4>3 DEF forced
        <5> QED BY <1>0, <1>1, <2>2, <4>3, <5>1, OneMoreCheck
      <4> QED BY <3>1, <4>1, <4>2, <4>3 DEF forced
    <3> QED BY <1>1, <1>2, <1>3, <2>3, <3>1, <3>6, <3>7, <3>8, SyncEnds
  <2> QED BY <2>5, <2>6
<1> QED BY <1>4, <1>5 DEF SyncApply

LEMMA GateThenZone ==
  ASSUME CourseInv, SyncGated
  PROVE  CourseInv'
<1>0. /\ CourseTypes /\ SyncIsFresh
      /\ redis \in [Regs -> KeySet] /\ course \in CourseSet /\ selected \in Regs
  BY TypesNow
<1>1. /\ syncing.step = 2 /\ redis' = Broadcast(redis, course, TRUE) /\ SyncIsOver
      /\ UNCHANGED <<running, selected, remembered, course, jobs, checks, posted>>
  BY DEF SyncGated
<1>2. Syncing
  BY <1>1 DEF Idle, Syncing
<1>3. running /\ healed = 0
  BY <1>0, <1>1, <1>2 DEF CourseInv, DownIsIdle, HealedIsSo, CourseTypes
<1>4. /\ redis' \in [Regs -> KeySet] /\ Keys'.pos = Keys.pos
      /\ course.known /\ selected # NoRegatta => Keys'.zone = course.pos.pin
  BY <1>0, <1>1, BroadcastDone DEF Keys
<1>5. CourseTypes'
  BY <1>0, <1>1, <1>4 DEF CourseTypes, SyncIsOver
<1>6. CheckIsFresh'
  BY <1>1, <1>4 DEF CourseInv, CheckIsFresh
<1>7. syncing.alone => Agrees' /\ course'.known
  BY <1>0, <1>1, <1>2, <1>4 DEF SyncIsFresh, Agrees
<1> QED BY <1>1, <1>2, <1>3, <1>5, <1>6, <1>7, SyncEnds

LEMMA GoesDark ==
  ASSUME CourseInv, Lost
  PROVE  CourseInv'
<1>1. /\ running' = FALSE /\ selected' = NoRegatta /\ course' = NoMarks /\ jobs' = <<>> /\ syncing' = Idle
      /\ checks' = <<>> /\ posted' = 0 /\ healed' = 0 /\ UNCHANGED <<remembered, redis>>
  BY DEF Lost
<1>2. CourseTypes'
  <2>1. jobs' \in Seq(JobSet)
    BY <1>1
  <2>2. course' \in CourseSet /\ selected' \in Regs /\ posted' \in CoursePlaces
    BY <1>1, EmptyType, DefaultPlace
  <2>3. running' \in BOOLEAN /\ healed' \in {0, 1, 2}
    BY <1>1
  <2>4. redis' \in [Regs -> KeySet] /\ remembered' \in Regs
    BY <1>1, TypesNow
  <2> QED BY <1>1, <2>1, <2>2, <2>3, <2>4 DEF CourseTypes
<1> QED
  BY <1>1, <1>2 DEF CourseInv, EditSeen, SyncIsFresh, CheckIsFresh, HealedIsSo, DownIsIdle, Syncing

LEMMA Beats ==
  ASSUME CourseInv, CourseHeartbeat
  PROVE  CourseInv'
<1>0. /\ CourseTypes /\ redis \in [Regs -> KeySet] /\ course \in CourseSet /\ selected \in Regs
  BY TypesNow
<1>1. CASE Lost
  BY <1>1, GoesDark
<1>2. CASE /\ selected # NoRegatta /\ ChecksZone(redis, course)
           /\ UNCHANGED <<running, selected, remembered, redis, course, jobs, syncing, posted, healed>>
  <2>1. /\ checks' \in Seq(CheckSet) /\ Len(checks') = Len(checks) + 1 /\ Len(checks) \in Nat
        /\ \A n \in 1 .. Len(checks) : checks'[n].zone = checks[n].zone
        /\ checks'[Len(checks')].zone = course.pos.pin
    BY <1>0, <1>2, CheckStarts DEF CourseTypes
  <2>2. course.known /\ running
    BY DEF CourseHeartbeat
  <2>3. CourseTypes'
    BY <1>0, <1>2, <2>1 DEF CourseTypes
  <2>4. EditSeen' /\ SyncIsFresh'
    BY <1>2 DEF CourseInv, EditSeen, SyncIsFresh, Syncing, Keys, Agrees
  <2>5. CheckIsFresh'
    BY <1>0, <1>2, <2>2, OneMoreCheck
  <2>6. HealedIsSo' /\ DownIsIdle'
    <3>1. Keys' = Keys /\ Agrees' = Agrees /\ Syncing' = Syncing
      BY <1>2 DEF Keys, Agrees, Syncing
    <3>2. healed = 2 => \A k \in 1 .. Len(checks') : checks'[k].zone = course.pos.pin
      <4> SUFFICES ASSUME healed = 2, NEW k \in 1 .. Len(checks') PROVE checks'[k].zone = course.pos.pin
        OBVIOUS
      <4>1. CASE k = Len(checks')
        BY <2>1, <4>1
      <4>2. CASE k # Len(checks')
        <5>1. k \in 1 .. Len(checks)
          BY <2>1, <4>2
        <5> QED BY <2>1, <5>1 DEF CourseInv, HealedIsSo
      <4> QED BY <4>1, <4>2
    <3>3. HealedIsSo'
      BY <1>2, <3>1, <3>2 DEF CourseInv, HealedIsSo
    <3>4. DownIsIdle'
      BY <1>2, <2>2 DEF DownIsIdle
    <3> QED BY <3>3, <3>4
  <2> QED BY <2>3, <2>4, <2>5, <2>6 DEF CourseInv
<1> QED BY <1>1, <1>2 DEF CourseHeartbeat

\* What is left of the checks once the oldest is over: none of them is alone.
LEMMA OneCheckLess ==
  ASSUME CourseInv, checks # <<>>
  PROVE  /\ Head(checks) \in CheckSet /\ Head(checks) = checks[1] /\ 1 \in 1 .. Len(checks)
         /\ Tail(checks) \in Seq(CheckSet) /\ Len(Tail(checks)) \in Nat
         /\ \A k \in 1 .. Len(Tail(checks)) : /\ k + 1 \in 1 .. Len(checks) /\ Tail(checks)[k] = checks[k + 1]
                                            /\ ~Tail(checks)[k].alone
<1>1. checks \in Seq(CheckSet)
  BY DEF CourseInv, CourseTypes
<1>2. /\ Head(checks) \in CheckSet /\ Head(checks) = checks[1] /\ 1 \in 1 .. Len(checks)
      /\ Tail(checks) \in Seq(CheckSet) /\ Len(Tail(checks)) \in Nat
  BY <1>1
<1>3. ASSUME NEW k \in 1 .. Len(Tail(checks))
      PROVE  k + 1 \in 1 .. Len(checks) /\ Tail(checks)[k] = checks[k + 1] /\ Len(checks) # 1
  <2>1. Len(Tail(checks)) = Len(checks) - 1 /\ Len(checks) \in Nat
    BY <1>1
  <2>2. k \in Int /\ 1 <= k /\ k <= Len(checks) - 1
    BY <2>1
  <2> QED BY <1>1, <2>1, <2>2
<1>4. ASSUME NEW k \in 1 .. Len(Tail(checks)) PROVE ~Tail(checks)[k].alone
  BY <1>3 DEF CourseInv, CheckIsFresh
<1> QED BY <1>2, <1>3, <1>4

LEMMA CheckAnswered ==
  ASSUME CourseInv, ZoneChecked
  PROVE  CourseInv'
<1> DEFINE c == Head(checks)
<1>0. /\ CourseTypes /\ redis \in [Regs -> KeySet] /\ course \in CourseSet /\ selected \in Regs
  BY TypesNow
<1>1. /\ checks # <<>> /\ checks' = Tail(checks)
      /\ redis' = (IF c.got = c.zone THEN redis ELSE PutZone(redis, selected, c.zone))
      /\ healed' = IF c.alone /\ c.zone = course.pos.pin /\ healed = 1 THEN 2 ELSE healed
      /\ UNCHANGED <<running, selected, remembered, course, jobs, syncing, posted>>
  BY DEF ZoneChecked, HealedBy
<1>2. /\ c \in CheckSet /\ c = checks[1] /\ 1 \in 1 .. Len(checks) /\ checks' \in Seq(CheckSet)
      /\ \A k \in 1 .. Len(checks') : /\ k + 1 \in 1 .. Len(checks) /\ checks'[k] = checks[k + 1]
                                     /\ ~checks'[k].alone
  BY <1>1, OneCheckLess
<1> HIDE DEF c
<1>3. /\ redis' \in [Regs -> KeySet] /\ Keys'.pos = Keys.pos
      /\ c.got = c.zone => Keys' = Keys
      /\ c.got # c.zone => Keys'.zone = c.zone
  <2>1. c.zone \in CoursePlaces
    BY <1>2 DEF CheckSet
  <2> QED BY <1>0, <1>1, <2>1, ZoneWritten DEF Keys
<1>4. running
  BY <1>0, <1>1 DEF CourseInv, DownIsIdle, CourseTypes
<1>5. CourseTypes'
  BY <1>0, <1>1, <1>2, <1>3 DEF CourseTypes
<1>6. EditSeen' /\ SyncIsFresh' /\ DownIsIdle'
  BY <1>1, <1>3, <1>4 DEF CourseInv, EditSeen, SyncIsFresh, DownIsIdle, Syncing, Agrees
<1>7. CheckIsFresh'
  BY <1>2 DEF CheckIsFresh
<1>8. HealedIsSo'
  <2>1. CASE healed = 0
    BY <1>1, <2>1 DEF HealedIsSo
  <2>2. CASE healed # 0
    <3>1. healed >= 1 /\ healed' >= 1
      BY <1>0, <1>1, <2>2 DEF CourseTypes
    <3>2. /\ Agrees /\ jobs = <<>> /\ course.known /\ selected # NoRegatta
          /\ Syncing => syncing.alone /\ syncing.step = 1
      BY <3>1 DEF CourseInv, HealedIsSo
    \* Healed already, or healed by a check that was not disturbed, with none behind it.
    <3>3. CASE healed = 2
      <4>1. Keys.zone = course.pos.pin /\ \A k \in 1 .. Len(checks) : checks[k].zone = course.pos.pin
        BY <3>3 DEF CourseInv, HealedIsSo
      <4>2. Keys'.zone = course.pos.pin /\ \A k \in 1 .. Len(checks') : checks'[k].zone = course.pos.pin
        BY <1>2, <1>3, <4>1
      <4> QED BY <1>1, <1>3, <3>2, <4>2 DEF HealedIsSo, Agrees, Syncing
    <3>4. CASE healed = 1 /\ c.alone /\ c.zone = course.pos.pin
      <4>1. Len(checks) = 1 /\ Keys.zone \in {c.got, course.pos.pin}
        BY <1>2, <3>2, <3>4 DEF CourseInv, CheckIsFresh
      <4>2. Keys'.zone = course.pos.pin
        BY <1>3, <3>4, <4>1
      <4>3. \A k \in 1 .. Len(checks') : FALSE
        BY <1>2, <4>1
      <4> QED BY <1>1, <1>3, <3>2, <4>2, <4>3 DEF HealedIsSo, Agrees, Syncing
    <3>5. CASE healed = 1 /\ ~(c.alone /\ c.zone = course.pos.pin)
      BY <1>1, <1>3, <3>2, <3>5 DEF HealedIsSo, Agrees, Syncing
    <3> QED BY <1>0, <2>2, <3>3, <3>4, <3>5 DEF CourseTypes
  <2> QED BY <2>1, <2>2
<1> QED BY <1>5, <1>6, <1>7, <1>8 DEF CourseInv

LEMMA CheckStopped ==
  ASSUME CourseInv, CheckFails
  PROVE  CourseInv'
<1>1. /\ checks # <<>> /\ checks' = Tail(checks)
      /\ UNCHANGED <<running, selected, remembered, redis, course, jobs, syncing, posted, healed>>
  BY DEF CheckFails
<1>2. /\ checks' \in Seq(CheckSet)
      /\ \A k \in 1 .. Len(checks') : /\ k + 1 \in 1 .. Len(checks) /\ checks'[k] = checks[k + 1]
                                     /\ ~checks'[k].alone
  BY <1>1, OneCheckLess
<1>3. CourseTypes' /\ CheckIsFresh'
  BY <1>1, <1>2 DEF CourseInv, CourseTypes, CheckIsFresh
<1>4. EditSeen' /\ SyncIsFresh' /\ DownIsIdle'
  BY <1>1 DEF CourseInv, EditSeen, SyncIsFresh, DownIsIdle, Syncing, Keys, Agrees
<1>5. HealedIsSo'
  BY <1>1, <1>2 DEF CourseInv, HealedIsSo, Syncing, Keys, Agrees
<1> QED BY <1>3, <1>4, <1>5 DEF CourseInv

LEMMA SyncStopped ==
  ASSUME CourseInv, SyncFails
  PROVE  CourseInv'
<1>1. /\ Syncing /\ syncing' = Idle /\ NotAlone /\ healed' = 0
      /\ UNCHANGED <<running, selected, remembered, redis, course, jobs, posted>>
  BY DEF SyncFails, Syncing, Disturbed
<1>2. SyncDisturbed
  BY <1>1 DEF SyncDisturbed, EditSeen, Syncing
<1>3. CheckDisturbed
  BY <1>1, TypesNow, CheckBeside
<1>4. running'
  BY <1>1 DEF CourseInv, DownIsIdle, CourseTypes
<1>5. CourseTypes'
  BY <1>1, <1>3 DEF CourseInv, CourseTypes, CheckDisturbed
<1> QED BY <1>1, <1>2, <1>3, <1>4, <1>5, DisturbedIsFine

LEMMA Boots ==
  ASSUME CourseInv, Boot
  PROVE  CourseInv'
<1>0. CourseTypes /\ redis \in [Regs -> KeySet] /\ NoRegatta \in Regs
  BY TypesNow, DefaultPlace
<1>1. /\ ~running /\ running' = TRUE /\ UNCHANGED <<redis, course, syncing, checks, posted, healed>>
  BY DEF Boot
<1>2. PICK r \in AtBoot : /\ selected' = r
                          /\ remembered' = IF r = NoRegatta THEN remembered ELSE r
                          /\ jobs' = IF r = NoRegatta THEN <<>> ELSE <<Resolving(TRUE)>>
  BY DEF Boot
<1>3. r \in Regs
  BY <1>0 DEF AtBoot, Regs
<1>4. jobs' \in Seq(JobSet)
  <2>1. Resolving(TRUE) \in JobSet
    <3>1. redis[r].pos \in Poses
      BY <1>0, <1>3 DEF KeySet
    <3>2. redis[selected'].pos \in Poses /\ selected' \in Regs /\ NoMark \in Marks \cup {NoMark} /\ 0 \in CoursePlaces
      BY <1>2, <1>3, <3>1, DefaultPlace
    <3> QED BY <3>2 DEF Resolving, Job, JobSet
  <2>2. \A j \in JobSet : <<j>> \in Seq(JobSet)
    OBVIOUS
  <2>3. <<>> \in Seq(JobSet)
    OBVIOUS
  <2> QED BY <1>2, <2>1, <2>2, <2>3
<1>5. CourseTypes'
  BY <1>0, <1>1, <1>2, <1>3, <1>4 DEF CourseTypes
<1>6. ~Syncing /\ checks = <<>> /\ healed = 0
  BY <1>1 DEF CourseInv, DownIsIdle
<1> QED
  BY <1>1, <1>5, <1>6 DEF CourseInv, EditSeen, SyncIsFresh, CheckIsFresh, HealedIsSo, DownIsIdle, Syncing

LEMMA CourseStep ==
  ASSUME CourseInv, [CourseNext]_courseVars
  PROVE  CourseInv'
<1>1. CASE UNCHANGED courseVars
  BY <1>1 DEF courseVars, CourseInv, CourseTypes, EditSeen, SyncIsFresh, CheckIsFresh, HealedIsSo, DownIsIdle, Syncing,
      Keys, Agrees
<1>2. CASE CourseNext
  <2>1. CASE \/ \E m \in Marks, p \in MarkPlaces, own \in BOOLEAN : SetMark(m, p, own)
             \/ ResetCourse
             \/ \E on \in BOOLEAN : SetGate(on)
    BY <2>1, AnEdit
  <2>2. CASE \E i \in 1 .. Len(jobs) : GoesOn(i) \/ Fails(i)
    BY <2>2, AReply, AFailure
  <2>3. CASE \E r \in Regattas : SelectRegattaId(r)
    BY <2>3, ARegatta
  <2>4. CASE \/ \E r \in Regattas : RegattaEnds(r)
             \/ RefreshRegattas
             \/ \E m \in Marks \cup {NoMark} : Assign(m)
             \/ \E r \in Regattas, m \in Marks, p \in MarkPlaces : Outside(r, m, p)
    BY <2>4, FromOutside
  <2>5. CASE SyncRead \/ SyncApply \/ SyncGated \/ SyncFails
    BY <2>5, SyncReads, Applies, GateThenZone, SyncStopped
  <2>6. CASE CourseHeartbeat \/ ZoneChecked \/ CheckFails \/ Stops \/ Boot
    BY <2>6, Beats, CheckAnswered, CheckStopped, GoesDark, Boots DEF Stops
  <2> QED BY <1>2, <2>1, <2>2, <2>3, <2>4, <2>5, <2>6 DEF CourseNext
<1> QED BY <1>1, <1>2

LEMMA CourseInvariant == CourseSpec => []CourseInv
  BY CourseInitInv, CourseStep, PTL DEF CourseSpec

\* Whatever edits, regatta switches, resets, outside writes, failures and restarts did to each
\* other, and however many functions and checks run at a time, the next undisturbed
\* syncMarksFromRedis moves the marks in memory to where Redis has them for the selected regatta, those
\* that Redis has, and the next undisturbed check of the on-grid zone behind it makes the published
\* zone that of the marks in memory, which the checks that come later leave so (baseStation.js).
THEOREM MarksHeal == CourseSpec => []CourseHeals
<1>1. CourseInv => CourseHeals
  BY DEF CourseInv, CourseTypes, HealedIsSo, CourseHeals, Agrees, Changed
<1> QED BY <1>1, CourseInvariant, PTL

\* A sync never puts back the place a mark had before an edit made here (markEdits of
\* baseStation.js): it sees the edit under way, or its epoch.
THEOREM EditsAreKept == CourseSpec => EditKept
<1>1. CourseInv /\ [CourseNext]_courseVars
        => [SyncApply /\ course' # course
              => \A m \in syncing.touched : course'.pos[m] = course.pos[m]]_courseVars
  <2> SUFFICES ASSUME CourseInv, SyncApply, course' # course
               PROVE  syncing.touched = {}
    OBVIOUS
  <2>1. syncing.clean /\ ~Edits(jobs) /\ Syncing
    BY DEF SyncApply, Editing, Edits, Syncing, Idle
  <2> QED BY <2>1 DEF CourseInv, EditSeen
<1> QED BY <1>1, CourseInvariant, PTL DEF CourseSpec, EditKept

\* What CourseInv leaves out of the type: how many functions and checks are under way, what ended, what is assigned.
CourseRest ==
  /\ ended \subseteq Regattas /\ assigned \in Marks \cup {NoMark}
  /\ Len(jobs) <= MaxJobs /\ Len(checks) <= MaxChecks

\* A function goes on or ends: the list is no longer than it was.
LEMMA ListIsNoLonger ==
  ASSUME CourseTypes, NEW i \in 1 .. Len(jobs), GoesOn(i) \/ Fails(i)
  PROVE  Len(jobs') <= Len(jobs)
<1>1. jobs \in Seq(JobSet)
  BY DEF CourseTypes
<1>2. ASSUME Ends(i) PROVE Len(jobs') <= Len(jobs)
  BY <1>1, <1>2, JobEnds DEF Ends
<1>3. ASSUME NEW n \in Int, Goes(i, n) PROVE Len(jobs') <= Len(jobs)
  BY <1>1, <1>3, JobSteps DEF Goes, Stepped
<1>4. ASSUME NEW n \in Int, NEW pos, jobs' = [jobs EXCEPT ![i].step = n, ![i].pos = pos]
      PROVE  Len(jobs') <= Len(jobs)
  BY <1>1, <1>4
<1>5. ASSUME jobs' = [jobs EXCEPT ![i].step = 2, ![i].on = Keys.on]
      PROVE  Len(jobs') <= Len(jobs)
  BY <1>1, <1>5
<1>11. ASSUME NEW n \in Int, Reads(i, n)
      PROVE  Len(jobs') <= Len(jobs)
  BY <1>1, <1>11 DEF Reads
<1>12. ResolvedNone(i) => Goes(i, 0) \/ Ends(i)
  BY DEF ResolvedNone
<1>6. CASE Fails(i)
  <2>1. Ends(i) \/ Goes(i, 0)
    BY <1>6, <1>12 DEF Fails
  <2> QED BY <1>2, <1>3, <2>1
<1>7. CASE SetMarkGoesOn(i)
  <2>1. Ends(i) \/ Goes(i, 2) \/ Goes(i, 3)
    BY <1>7 DEF SetMarkGoesOn
  <2> QED BY <1>2, <1>3, <2>1
<1>8. CASE ResetGoesOn(i)
  <2>1. \/ Ends(i) \/ Goes(i, 2) \/ Goes(i, 5)
        \/ Reads(i, 3)
        \/ jobs' = [jobs EXCEPT ![i].step = 4, ![i].pos = Filled(jobs[i].pos)]
    BY <1>8 DEF ResetGoesOn
  <2> QED BY <1>2, <1>3, <1>4, <1>11, <2>1
<1>9. CASE GateGoesOn(i)
  <2>1. Ends(i) \/ Goes(i, 2)
    BY <1>9 DEF GateGoesOn
  <2> QED BY <1>2, <1>3, <2>1
<1>10. CASE ResolveGoesOn(i)
  <2>1. \/ Ends(i) \/ Goes(i, 0) \/ Goes(i, 3) \/ Reads(i, 1)
        \/ jobs' = [jobs EXCEPT ![i].step = 2, ![i].on = Keys.on]
    BY <1>10, <1>12 DEF ResolveGoesOn
  <2> QED BY <1>2, <1>3, <1>5, <1>11, <2>1
<1> QED BY <1>6, <1>7, <1>8, <1>9, <1>10 DEF GoesOn

\* A check is started only where there is room for it; the others change nothing in their number.
ChecksMove ==
  \/ NotAlone
  \/ UNCHANGED checks
  \/ checks' = Tail(checks) /\ checks # <<>>
  \/ \E k \in [Regs -> KeySet], c \in CourseSet : ChecksZone(k, c)

LEMMA FewChecks ==
  ASSUME CourseTypes, Len(checks) <= MaxChecks, MaxChecks \in Nat, ChecksMove
  PROVE  Len(checks') <= MaxChecks
<1>1. checks \in Seq(CheckSet) /\ Len(checks) \in Nat
  BY DEF CourseTypes
<1>2. CASE NotAlone
  BY <1>1, <1>2, ChecksMarked DEF NotAlone, AllBeside
<1>3. CASE UNCHANGED checks
  BY <1>3
<1>4. CASE checks' = Tail(checks) /\ checks # <<>>
  BY <1>1, <1>4
<1>5. ASSUME NEW k \in [Regs -> KeySet], NEW c \in CourseSet, ChecksZone(k, c)
      PROVE  Len(checks') <= MaxChecks
  <2>1. Len(checks) < MaxChecks
    BY <1>5 DEF ChecksZone
  <2>2. Len(checks') = Len(checks) + 1
    BY <1>5, CheckStarts
  <2> QED BY <1>1, <2>1, <2>2
<1> QED BY <1>2, <1>3, <1>4, <1>5 DEF ChecksMove

LEMMA CourseRestKept ==
  ASSUME CourseInv, CourseRest, [CourseNext]_courseVars
  PROVE  CourseRest'
<1>0. /\ CourseTypes /\ jobs \in Seq(JobSet) /\ Len(jobs) \in Nat /\ MaxJobs \in Nat \ {0}
      /\ MaxChecks \in Nat /\ redis \in [Regs -> KeySet] /\ course \in CourseSet
      /\ Len(checks) <= MaxChecks /\ Len(jobs) <= MaxJobs
  BY CourseAssumption DEF CourseInv, CourseTypes, CourseAssumption, CourseRest
<1>1. ASSUME NEW j, Starts(j) PROVE Len(jobs') <= MaxJobs
  BY <1>0, <1>1 DEF Starts
<1>2. CASE \/ \E m \in Marks, p \in MarkPlaces, own \in BOOLEAN : SetMark(m, p, own)
           \/ ResetCourse
           \/ \E on \in BOOLEAN : SetGate(on)
  <2>1. /\ \E j : Starts(j)
        /\ NotAlone /\ ended' = ended /\ assigned' = assigned
    BY <1>2 DEF SetMark, ResetCourse, SetGate
  <2>2. Len(checks') <= MaxChecks
    BY <1>0, <2>1, FewChecks DEF ChecksMove
  <2> QED BY <1>1, <2>1, <2>2 DEF CourseRest
<1>3. CASE \E i \in 1 .. Len(jobs) : GoesOn(i) \/ Fails(i)
  <2>1. PICK i \in 1 .. Len(jobs) : GoesOn(i) \/ Fails(i)
    BY <1>3
  <2>2. Len(jobs') <= Len(jobs) /\ jobs' \in Seq(JobSet)
    <3>1. CourseInv'
      BY CourseStep, <2>1 DEF CourseNext
    <3> QED BY <1>0, <2>1, <3>1, ListIsNoLonger DEF CourseInv, CourseTypes
  <2>3. ended' = ended /\ assigned' = assigned /\ (NotAlone \/ ChecksZone(redis, course))
    BY <2>1 DEF GoesOn, Fails
  <2>4. Len(jobs') \in Nat
    BY <2>2
  <2>5. Len(checks') <= MaxChecks
    BY <1>0, <2>3, FewChecks DEF ChecksMove
  <2> QED BY <1>0, <2>2, <2>3, <2>4, <2>5 DEF CourseRest
<1>4. CASE \E r \in Regattas : SelectRegattaId(r) \/ RegattaEnds(r)
  <2>1. PICK r \in Regattas : SelectRegattaId(r) \/ RegattaEnds(r)
    BY <1>4
  <2>2. CASE SelectRegattaId(r)
    <3>1. jobs' = jobs \/ Starts(Resolving(FALSE))
      BY <2>2 DEF SelectRegattaId
    <3>2. ended' = ended /\ assigned' = assigned /\ NotAlone
      BY <2>2 DEF SelectRegattaId
    <3>3. Len(checks') <= MaxChecks
      BY <1>0, <3>2, FewChecks DEF ChecksMove
    <3> QED BY <1>1, <3>1, <3>2, <3>3 DEF CourseRest
  <2>3. CASE RegattaEnds(r)
    BY <2>3 DEF RegattaEnds, CourseRest
  <2> QED BY <2>1, <2>2, <2>3
<1>5. CASE \/ RefreshRegattas
           \/ \E m \in Marks \cup {NoMark} : Assign(m)
           \/ \E r \in Regattas, m \in Marks, p \in MarkPlaces : Outside(r, m, p)
           \/ SyncRead \/ SyncGated \/ SyncFails \/ ZoneChecked \/ CheckFails \/ UNCHANGED courseVars
  <2>1. /\ jobs' = jobs /\ ended' = ended /\ assigned' \in {assigned} \cup Marks \cup {NoMark}
        /\ \/ NotAlone \/ UNCHANGED checks
           \/ checks' = Tail(checks) /\ checks # <<>>
    BY <1>5 DEF RefreshRegattas, Assign, Outside, SyncRead, SyncGated, SyncFails, ZoneChecked, CheckFails, courseVars
  <2>2. Len(checks') <= MaxChecks
    BY <1>0, <2>1, FewChecks DEF ChecksMove
  <2> QED BY <2>1, <2>2 DEF CourseRest
<1>6. CASE SyncApply
  <2>1. jobs' = jobs /\ ended' = ended /\ assigned' = assigned
    BY <1>6 DEF SyncApply
  <2>2. UNCHANGED checks \/ ChecksZone(redis, Moved)
    BY <1>6 DEF SyncApply, Moved
  <2>3. Moved \in CourseSet
    <3>1. syncing \in SyncSet
      BY <1>0, <1>6 DEF SyncApply, CourseTypes, Idle
    <3> QED BY <1>0, <3>1, MovedAgrees
  <2>4. Len(checks') <= MaxChecks
    BY <1>0, <2>2, <2>3, FewChecks DEF ChecksMove
  <2> QED BY <2>1, <2>4 DEF CourseRest
<1>7. ASSUME Lost PROVE CourseRest'
  <2>1. jobs' = <<>> /\ checks' = <<>> /\ ended' = ended /\ assigned' = assigned
    BY <1>7 DEF Lost
  <2> QED BY <1>0, <2>1 DEF CourseRest
<1>8. CASE CourseHeartbeat
  <2>1. CASE Lost
    BY <1>7, <2>1
  <2>2. CASE jobs' = jobs /\ ended' = ended /\ assigned' = assigned /\ ChecksZone(redis, course)
    <3>1. Len(checks') <= MaxChecks
      BY <1>0, <2>2, FewChecks DEF ChecksMove
    <3> QED BY <2>2, <3>1 DEF CourseRest
  <2> QED BY <1>8, <2>1, <2>2 DEF CourseHeartbeat
<1>9. CASE Stops
  BY <1>7, <1>9 DEF Stops
<1>10. CASE Boot
  <2>1. Len(jobs') <= 1 /\ Len(jobs') \in Nat /\ ended' = ended /\ assigned' = assigned /\ checks' = checks
    <3> DEFINE j == Resolving(TRUE)
    <3>1. ended' = ended /\ assigned' = assigned /\ checks' = checks
      BY <1>10 DEF Boot
    <3>2. jobs' = <<>> \/ jobs' = <<j>>
      BY <1>10 DEF Boot
    <3> HIDE DEF j
    <3>3. Len(jobs') <= 1 /\ Len(jobs') \in Nat
      BY <3>2
    <3> QED BY <3>1, <3>3
  <2>2. Len(jobs') <= MaxJobs
    BY <1>0, <2>1
  <2> QED BY <2>1, <2>2 DEF CourseRest
<1> QED BY <1>2, <1>3, <1>4, <1>5, <1>6, <1>7, <1>8, <1>9, <1>10 DEF CourseNext

\* The base keeps its course, the functions under way and what Redis holds of each regatta within their
\* types (baseStation.js, redisStore.js), however many of those functions run at a time.
THEOREM CourseTypeCorrect == CourseSpec => []CourseTypeOK
<1>1. CourseInit => CourseRest
  BY CourseAssumption DEF CourseInit, CourseRest, CourseAssumption
<1>2. CourseInv /\ CourseRest /\ [CourseNext]_courseVars => CourseRest'
  BY CourseRestKept
<1>3. CourseInv /\ CourseRest => CourseTypeOK
  <2> SUFFICES ASSUME CourseInv, CourseRest
               PROVE  CourseTypeOK
    OBVIOUS
  <2>1. /\ running \in BOOLEAN /\ selected \in Regs /\ remembered \in Regs
        /\ redis \in [Regs -> KeySet] /\ course \in CourseSet /\ healed \in {0, 1, 2}
        /\ syncing = Idle \/ syncing \in SyncSet
    BY DEF CourseInv, CourseTypes
  <2>2. \A r \in DOMAIN redis, m \in Marks : redis[r].pos[m] \in MarkPlaces \cup {0}
    BY <2>1 DEF KeySet, Poses, CoursePlaces
  <2>3. (\A m \in Marks : course.pos[m] \in MarkPlaces \cup {0}) /\ {running, course.gate, course.known} \subseteq BOOLEAN
    BY <2>1 DEF CourseSet, Poses, CoursePlaces
  <2>4. syncing.step \in 0 .. 2 /\ healed \in 0 .. 2
    BY <2>1 DEF Idle, SyncSet
  <2> QED BY <2>1, <2>2, <2>3, <2>4 DEF CourseRest, CourseTypeOK, Regs
<1> QED BY <1>1, <1>2, <1>3, CourseInvariant, PTL DEF CourseSpec

-----------------------------------------------------------------------------
(***************************************************************************)
(* RaceEvents, for any courses, places, intervals and bounds. The          *)
(* inductive invariant, RaceInv, relates the watchers' last fix to the     *)
(* history (WatchKept), says of each fix still to come in that it is       *)
(* either left out as too old or known to the history (Comes), and of two  *)
(* of them what the later knows of the earlier (CameBefore); and that a    *)
(* boat on the grid whose report is not held has been reported (Told).     *)
(***************************************************************************)

FixSet == [at : Waters, age : 0 .. Old, south : BOOLEAN]
Chosen == DOMAIN Courses
CourseOrNone == Chosen \cup {NoCourse}
Vectors == {Minus(p, q) : p \in Waters, q \in Waters} \cup {NoPlace}
Events == {"lap", "ongrid", "rounding", "foul", "finish foul"}

\* What the watchers remember, and for how long.
DetSet == [built : CourseOrNone, prev : Waters \cup {NoPlace}, vec : Vectors, near : BOOLEAN,
           sweep : 0 .. SweepMin, grid : CourseOrNone, onGrid : BOOLEAN, held : BOOLEAN]
AgeSet == [newest : Never .. Old, finish : Never .. Old, enter : Never .. Old, round : Never .. Old,
           told : Never .. Old]
RaceStates == [course : CourseOrNone, det : DetSet, ages : AgeSet, out : SUBSET Events, south : BOOLEAN,
           false : BOOLEAN]
\* A boat on the grid whose report is not held has been reported.
Told(d, a) == d.onGrid /\ ~d.held => a.told # Never

\* Neither the grid watcher nor the others touch what the laps are counted from.
Same(s, r) ==
  /\ r \in RaceStates /\ Told(r.det, r.ages)
  /\ r.course = s.course /\ r.south = s.south /\ r.false = s.false
  /\ r.det.built = s.det.built /\ r.det.prev = s.det.prev /\ r.ages.newest = s.ages.newest
SameGrid(s, r) ==
  /\ r.det.onGrid = s.det.onGrid /\ r.det.held = s.det.held /\ r.ages.told = s.ages.told

\* A state whose watchers are d, whose ages are a and whose events are out.
With(s, d, a, out) == [s EXCEPT !.det = d, !.ages = a, !.out = out]
Made(s, d, a, out, r) ==
  /\ r \in RaceStates /\ r.det = d /\ r.ages = a /\ r.out = out
  /\ r.course = s.course /\ r.south = s.south /\ r.false = s.false
LEMMA WithIs ==
  ASSUME NEW s \in RaceStates, NEW d \in DetSet, NEW a \in AgeSet, NEW out \in SUBSET Events
  PROVE  Made(s, d, a, out, With(s, d, a, out))
BY DEF RaceStates, Made, With

\* Such a state, when what the laps are counted from is as it was.
LEMMA SameParts ==
  ASSUME NEW s \in RaceStates, NEW d \in DetSet, NEW a \in AgeSet, NEW out \in SUBSET Events,
         d.built = s.det.built, d.prev = s.det.prev, a.newest = s.ages.newest, Told(d, a)
  PROVE  Same(s, With(s, d, a, out))
<1> DEFINE r == With(s, d, a, out)
<1>1. Made(s, d, a, out, r)
  BY WithIs
<1> HIDE DEF r
<1>2. Same(s, r)
  BY <1>1 DEF Same, Made
<1> QED
  BY <1>2 DEF r

\* The on-grid check and its report: a boat on the grid that does not race has been told of lately.
LEMMA GriddedKeeps ==
  ASSUME NEW s \in RaceStates, Told(s.det, s.ages), NEW f \in FixSet, s.course \in Chosen, racing \in BOOLEAN
  PROVE  /\ Same(s, Gridded(s, f))
         /\ Gridded(s, f).det.onGrid /\ ~racing => Gridded(s, f).ages.told \in 0 .. Resend - 1
<1> DEFINE c == IF s.det.grid = NoCourse THEN s.course ELSE s.det.grid
           in == f.at \in Zones[c]
           overdue == s.ages.told # Never /\ s.ages.told >= Resend
           posts == in /\ ~racing /\ (~s.det.onGrid \/ overdue \/ s.det.held)
           held == IF in THEN racing /\ (s.det.held \/ ~s.det.onGrid)
                         ELSE s.det.held /\ ~s.det.onGrid
           told == IF posts THEN 0 ELSE s.ages.told
           d == [s.det EXCEPT !.grid = c, !.onGrid = in, !.held = held]
           a == [s.ages EXCEPT !.told = told]
           out == IF posts THEN s.out \cup {"ongrid"} ELSE s.out
           r == [s EXCEPT !.det = d, !.ages = a, !.out = out]
<1>1. Gridded(s, f) = r
  BY DEF Gridded
<1>t. /\ s.det \in DetSet /\ s.ages \in AgeSet /\ s.out \in SUBSET Events
      /\ s.det.grid \in CourseOrNone /\ s.det.onGrid \in BOOLEAN /\ s.det.held \in BOOLEAN
      /\ s.ages.told \in Never .. Old
  BY DEF RaceStates, DetSet, AgeSet
<1>n. Resend \in 1 .. Old - 1 /\ Old \in Nat
  BY RaceAssumption DEF RaceAssumption
<1>2. c \in CourseOrNone
  BY <1>t DEF Chosen, CourseOrNone
<1>b. in \in BOOLEAN
  OBVIOUS
<1>c. overdue \in BOOLEAN
  OBVIOUS
<1>d. held \in BOOLEAN
  <2> HIDE DEF in
  <2>1. CASE in
    BY <1>t, <2>1
  <2>2. CASE ~in
    BY <1>t, <2>2
  <2> QED
    BY <2>1, <2>2
<1> HIDE DEF c, in
<1>3. posts => in /\ ~racing
  OBVIOUS
<1>4. in /\ ~held /\ ~posts => s.det.onGrid /\ ~s.det.held
  BY <1>t
<1>5. in /\ ~racing /\ ~posts => s.det.onGrid /\ ~s.det.held /\ ~overdue
  BY <1>t
<1>o. out \in SUBSET Events
  BY <1>t DEF Events
<1> HIDE DEF posts, held, out
<1>6. told \in Never .. Old
  BY <1>n, <1>t DEF Never
<1>7. in /\ ~racing => told \in 0 .. Resend - 1
  <2>1. CASE posts
    BY <2>1, <1>n
  <2>2. CASE ~posts
    <3> SUFFICES ASSUME in /\ ~racing
                 PROVE  told \in 0 .. Resend - 1
      OBVIOUS
    <3>1. s.ages.told # Never /\ ~overdue
      BY <1>5, <2>2 DEF Told
    <3>2. ~(s.ages.told >= Resend)
      BY <3>1
    <3> QED
      BY <2>2, <3>1, <3>2, <1>n, <1>t DEF Never
  <2> QED
    BY <2>1, <2>2
<1>8. in /\ ~held => told # Never
  <2>1. CASE posts
    BY <2>1 DEF Never
  <2>2. CASE ~posts
    BY <1>4, <2>2 DEF Told
  <2> QED
    BY <2>1, <2>2
<1> HIDE DEF told, overdue
<1>9. d \in DetSet /\ d.built = s.det.built /\ d.prev = s.det.prev
  BY <1>t, <1>2, <1>b, <1>d DEF DetSet
<1>10. (d.onGrid <=> in) /\ (d.held <=> held)
  BY <1>t, <1>2, <1>b, <1>d DEF DetSet
<1>11. a \in AgeSet /\ a.newest = s.ages.newest /\ a.told = told
  BY <1>6, <1>t DEF AgeSet
<1> HIDE DEF d, a
<1>12. Told(d, a)
  BY <1>8, <1>10, <1>11 DEF Told
<1>13. r.det = d /\ r.ages = a
  <2>1. Made(s, d, a, out, r)
    BY <1>o, <1>9, <1>11, WithIs DEF With
  <2> HIDE DEF r
  <2> QED
    BY <2>1 DEF Made
<1>14. Same(s, r)
  BY <1>o, <1>9, <1>11, <1>12, SameParts DEF With
<1> HIDE DEF r
<1>15. r.det.onGrid /\ ~racing => r.ages.told \in 0 .. Resend - 1
  BY <1>7, <1>10, <1>11, <1>13
<1> QED
  BY <1>1, <1>14, <1>15

\* A turn is at most half a circle, in eighths.
LEMMA TurnType == ASSUME NEW v, NEW w PROVE Turn(v, w) \in 0 .. 3
<1> DEFINE d == Dot(v, w)
           x == AbsOf(Wedge(v, w))
<1>1. Turn(v, w) = IF d = 0 /\ x = 0 THEN 0
                   ELSE IF d > x THEN 0 ELSE IF d > 0 THEN 1 ELSE IF d > -x THEN 2 ELSE 3
  BY DEF Turn
<1> HIDE DEF d, x
<1> QED
  BY <1>1

\* The rounding watcher.
LEMMA RoundedKeeps ==
  ASSUME NEW s \in RaceStates, Told(s.det, s.ages), NEW f \in FixSet
  PROVE  Same(s, Rounded(s, f)) /\ SameGrid(s, Rounded(s, f))
<1> DEFINE from == s.det.prev
           mark == Minus(f.at, Courses[s.det.built].windward)
           move == Minus(f.at, from)
           turn == IF s.det.near THEN Turn(s.det.vec, move) ELSE 0
           total == IF s.det.near THEN s.det.sweep + turn ELSE 0
           counts == /\ s.det.sweep >= SweepMin
                     /\ s.ages.round \in {Never, Old} \/ s.ages.round - s.ages.enter >= Debounce
           sweep == IF total > SweepMin THEN SweepMin ELSE total
           enter == IF s.det.near THEN s.ages.enter ELSE f.age
           round == IF counts THEN s.ages.enter ELSE s.ages.round
           finish == IF counts THEN Never ELSE s.ages.finish
           d1 == [s.det EXCEPT !.near = TRUE, !.vec = move, !.sweep = sweep]
           a1 == [s.ages EXCEPT !.enter = enter]
           d2 == [s.det EXCEPT !.near = FALSE, !.vec = NoPlace, !.sweep = 0]
           a2 == [s.ages EXCEPT !.enter = Never, !.round = round, !.finish = finish]
           out == IF counts THEN s.out \cup {"rounding"} ELSE s.out
           r1 == [s EXCEPT !.det = d1, !.ages = a1]
           r2 == [s EXCEPT !.det = d2, !.ages = a2, !.out = out]
<1>1. Rounded(s, f) = s \/ (Rounded(s, f) = r1 /\ from # NoPlace) \/ Rounded(s, f) = r2
  BY DEF Rounded
<1>2. SweepMin \in Nat /\ Old \in Nat
  BY RaceAssumption DEF RaceAssumption
<1>t. /\ s.det \in DetSet /\ s.ages \in AgeSet /\ s.out \in SUBSET Events
      /\ s.det.sweep \in 0 .. SweepMin /\ s.det.prev \in Waters \cup {NoPlace}
      /\ s.ages.enter \in Never .. Old /\ s.ages.round \in Never .. Old /\ s.ages.finish \in Never .. Old
  BY DEF RaceStates, DetSet, AgeSet
<1>3. sweep \in 0 .. SweepMin
  <2>1. turn \in 0 .. 3
    BY TurnType
  <2> HIDE DEF turn
  <2> QED
    BY <1>2, <2>1, <1>t
<1>4. f.age \in Never .. Old /\ Never \in Never .. Old
  BY <1>2 DEF FixSet, Never
<1>5. enter \in Never .. Old /\ round \in Never .. Old /\ finish \in Never .. Old
  <2> HIDE DEF counts
  <2> QED
    BY <1>4, <1>t
<1>6. out \in SUBSET Events
  BY <1>t DEF Events
<1>7. from # NoPlace => move \in Vectors
  BY <1>t DEF Vectors, FixSet
<1>8. NoPlace \in Vectors /\ 0 \in 0 .. SweepMin
  BY <1>2 DEF Vectors
<1> HIDE DEF mark, move, turn, total, counts, sweep, out, enter, round, finish
<1>9. Same(s, s) /\ SameGrid(s, s)
  BY DEF Same, SameGrid
<1>10. from # NoPlace => Same(s, r1) /\ SameGrid(s, r1)
  <2> SUFFICES ASSUME from # NoPlace
               PROVE  Same(s, r1) /\ SameGrid(s, r1)
    OBVIOUS
  <2>1. /\ d1 \in DetSet /\ d1.built = s.det.built /\ d1.prev = s.det.prev
        /\ d1.onGrid = s.det.onGrid /\ d1.held = s.det.held
    BY <1>3, <1>7, <1>t DEF DetSet
  <2>2. a1 \in AgeSet /\ a1.newest = s.ages.newest /\ a1.told = s.ages.told
    BY <1>5, <1>t DEF AgeSet
  <2> HIDE DEF d1, a1
  <2>3. r1 = With(s, d1, a1, s.out)
    BY DEF RaceStates, With
  <2>4. Told(d1, a1)
    BY <2>1, <2>2 DEF Told
  <2> HIDE DEF r1
  <2>5. r1.det = d1 /\ r1.ages = a1
    <3>1. Made(s, d1, a1, s.out, r1)
      BY <1>t, <2>1, <2>2, <2>3, WithIs
    <3> QED
      BY <3>1 DEF Made
  <2>6. Same(s, r1)
    BY <1>t, <2>1, <2>2, <2>3, <2>4, SameParts
  <2> QED
    BY <2>1, <2>2, <2>5, <2>6 DEF SameGrid
<1>11. Same(s, r2) /\ SameGrid(s, r2)
  <2>1. /\ d2 \in DetSet /\ d2.built = s.det.built /\ d2.prev = s.det.prev
        /\ d2.onGrid = s.det.onGrid /\ d2.held = s.det.held
    BY <1>8, <1>t DEF DetSet
  <2>2. a2 \in AgeSet /\ a2.newest = s.ages.newest /\ a2.told = s.ages.told
    BY <1>4, <1>5, <1>t DEF AgeSet
  <2> HIDE DEF d2, a2
  <2>3. Told(d2, a2)
    BY <2>1, <2>2 DEF Told
  <2>m. r2 = With(s, d2, a2, out)
    BY DEF With
  <2> HIDE DEF r2
  <2>4. r2.det = d2 /\ r2.ages = a2
    <3>1. Made(s, d2, a2, out, r2)
      BY <1>6, <2>1, <2>2, <2>m, WithIs
    <3> QED
      BY <3>1 DEF Made
  <2>5. Same(s, r2)
    BY <1>6, <2>1, <2>2, <2>3, <2>m, SameParts
  <2> QED
    BY <2>1, <2>2, <2>4, <2>5 DEF SameGrid
<1> HIDE DEF r1, r2, from
<1> QED
  BY <1>1, <1>9, <1>10, <1>11

\* The foul watcher.
LEMMA FouledKeeps ==
  ASSUME NEW s \in RaceStates, Told(s.det, s.ages), NEW f \in FixSet
  PROVE  Same(s, Fouled(s, f)) /\ SameGrid(s, Fouled(s, f))
<1> DEFINE finish == IF s.det.prev = NoPlace THEN s.ages.finish ELSE FinishAge(s, f)
           a == [s.ages EXCEPT !.finish = finish]
           out == s.out \cup Fouls(s, f)
           r == [s EXCEPT !.ages = a, !.out = out]
<1>1. Fouled(s, f) = r
  BY DEF Fouled
<1>t. /\ s.det \in DetSet /\ s.ages \in AgeSet /\ s.out \in SUBSET Events
      /\ s.ages.finish \in Never .. Old
  BY DEF RaceStates, DetSet, AgeSet
<1>2. finish \in Never .. Old
  <2>1. FinishAge(s, f) \in {f.age, s.ages.finish}
    BY DEF FinishAge
  <2>2. f.age \in Never .. Old
    BY RaceAssumption DEF RaceAssumption, FixSet, Never
  <2> QED
    BY <1>t, <2>1, <2>2
<1>3. out \in SUBSET Events
  <2>1. Fouls(s, f) \subseteq {"finish foul", "foul"}
    BY DEF Fouls
  <2> QED
    BY <1>t, <2>1 DEF Events
<1> HIDE DEF finish, out
<1>4. a \in AgeSet /\ a.newest = s.ages.newest /\ a.told = s.ages.told
  BY <1>2, <1>t DEF AgeSet
<1> HIDE DEF a
<1>5. r = With(s, s.det, a, out)
  BY DEF RaceStates, With
<1> HIDE DEF r
<1>6. Told(s.det, a)
  BY <1>4 DEF Told
<1>7. r.det = s.det /\ r.ages = a
  <2>1. Made(s, s.det, a, out, r)
    BY <1>t, <1>3, <1>4, <1>5, WithIs
  <2> QED
    BY <2>1 DEF Made
<1>8. Same(s, r)
  BY <1>t, <1>3, <1>4, <1>5, <1>6, SameParts
<1> QED
  BY <1>1, <1>4, <1>7, <1>8 DEF SameGrid

\* The third segment is the finish line, whether the pin boundary is there or not.
LEMMA ThirdOfMore ==
  ASSUME NEW S, NEW s \in Seq(S), NEW t \in Seq(S), Len(s) = 3
  PROVE  3 \in 1 .. Len(s \o t) /\ (s \o t)[3] = s[3]
<1>1. Len(t) \in Nat
  OBVIOUS
<1>2. Len(s \o t) = Len(s) + Len(t)
  BY ConcatProperties
<1>3. 3 \in 1 .. Len(s \o t)
  BY <1>1, <1>2
<1>4. (s \o t)[3] = IF 3 <= Len(s) THEN s[3] ELSE t[3 - Len(s)]
  BY <1>3, ConcatProperties, Zenon, <1>2
<1> QED
  BY <1>3, <1>4

LEMMA FinishIsThird ==
  ASSUME NEW c \in DOMAIN Courses
  PROVE  /\ 3 \in 1 .. Len(Segments[c])
         /\ Segments[c][3] = [a |-> Courses[c].committeeFinish, b |-> Courses[c].finish, oneWay |-> TRUE]
<1> DEFINE m == Courses[c]
           far == <<m.pin[1] - 50 * (m.committeeStart[1] - m.pin[1]),
                    m.pin[2] - 50 * (m.committeeStart[2] - m.pin[2])>>
           s1 == [a |-> m.pin, b |-> m.committeeStart, oneWay |-> TRUE]
           s2 == [a |-> m.committeeStart, b |-> m.committeeFinish, oneWay |-> FALSE]
           s3 == [a |-> m.committeeFinish, b |-> m.finish, oneWay |-> TRUE]
           s4 == [a |-> far, b |-> m.pin, oneWay |-> TRUE]
           more == IF m.pinBoundary THEN <<s4>> ELSE <<>>
<1>1. Segments[c] = <<s1, s2, s3>> \o more
  BY DEF Segments
<1> HIDE DEF s1, s2, s4, far
<1>2. <<s1, s2, s3>> \in Seq({s1, s2, s3, s4}) /\ Len(<<s1, s2, s3>>) = 3
      /\ more \in Seq({s1, s2, s3, s4}) /\ <<s1, s2, s3>>[3] = s3
  <2> HIDE DEF s3
  <2>1. more \in Seq({s1, s2, s3, s4})
    <3>1. <<s4>> \in Seq({s1, s2, s3, s4}) /\ <<>> \in Seq({s1, s2, s3, s4})
      OBVIOUS
    <3> QED
      BY <3>1
  <2>2. <<s1, s2, s3>> \in Seq({s1, s2, s3, s4})
    OBVIOUS
  <2> QED
    BY <2>1, <2>2
<1> HIDE DEF more
<1>3. 3 \in 1 .. Len(Segments[c]) /\ Segments[c][3] = s3
  <2> HIDE DEF s3
  <2> QED
    BY <1>1, <1>2, ThirdOfMore
<1> QED
  BY <1>3

\* What is counted as a lap is no foul of the finish line: it crosses it upwind.
LEMMA LapIsNoFoul ==
  ASSUME NEW s, NEW f \in FixSet, s.det.prev \in Waters, s.det.built \in Chosen, Lap(s, f)
  PROVE  "finish foul" \notin Fouls(s, f)
<1> DEFINE c == s.det.built
           p == s.det.prev
           q == f.at
           seg == Segments[c][FinishSegment]
           m == Courses[c]
<1>1. c \in DOMAIN Courses /\ p \in Waters /\ q \in Waters
  BY DEF FixSet, Chosen
<1>2. FinishSegment \in Legal(s, f)
  <2>1. 3 \in 1 .. Len(Segments[c]) /\ seg = [a |-> m.committeeFinish, b |-> m.finish, oneWay |-> TRUE]
    BY <1>1, FinishIsThird DEF FinishSegment
  <2>2. seg.a = m.committeeFinish /\ seg.b = m.finish /\ seg.oneWay
    <3> HIDE DEF seg, m
    <3> QED
      BY <2>1
  <2>3. Upwind(p, q, m.committeeFinish, m.finish)
    BY DEF Lap
  <2>4. Upwind(p, q, seg.a, seg.b) /\ Meets(p, q, seg.a, seg.b)
    <3> HIDE DEF seg, m, p, q
    <3> QED
      BY <2>2, <2>3 DEF Upwind
  <2> HIDE DEF c, p, q, m
  <2> DEFINE move == <<p, q>>
  <2>a. move \in Moves /\ move[1] = p /\ move[2] = q
    BY <1>1 DEF Moves
  <2> HIDE DEF move
  <2>5. 3 \in Crossed[c][move]
    <3>1. Crossed[c][move] =
            {i \in 1 .. Len(Segments[c]) : Meets(move[1], move[2], Segments[c][i].a, Segments[c][i].b)}
      BY <1>1, <2>a DEF Crossed
    <3> QED
      BY <3>1, <2>1, <2>4, <2>a DEF FinishSegment
  <2>6. 3 \in CrossedUpwind[c][move]
    <3>1. CrossedUpwind[c][move] = {i \in Crossed[c][move] :
            Segments[c][i].oneWay /\ Upwind(move[1], move[2], Segments[c][i].a, Segments[c][i].b)}
      BY <1>1, <2>a DEF CrossedUpwind
    <3> QED
      BY <3>1, <2>2, <2>4, <2>5, <2>a DEF FinishSegment
  <2> QED
    BY <2>6 DEF Legal, FinishSegment, c, p, q, move
<1> QED
  BY <1>2 DEF Fouls

\* What a fix that is looked at changes: the watchers have it as their last, and it is a lap only
\* when it leads north over the finish line.
Watches(s, f, r) ==
  /\ r \in RaceStates /\ Told(r.det, r.ages)
  /\ r.course = s.course /\ r.ages.newest = f.age /\ r.det.prev = f.at /\ r.det.built \in Chosen
  /\ r.det.onGrid /\ ~racing => r.ages.told \in 0 .. Resend - 1
  /\ \/ r.south = s.south /\ r.false = s.false
     \/ /\ s.det.prev # NoPlace /\ ~NorthOf(s.det.built, s.det.prev) /\ NorthOf(r.det.built, f.at)
        /\ r.south = f.south /\ (s.south => r.false = s.false)

\* A fix that is looked at, by all the watchers.
LEMMA WatchedKeeps ==
  ASSUME NEW s \in RaceStates, Told(s.det, s.ages), NEW f \in FixSet, s.course \in Chosen, racing \in BOOLEAN,
         s.det.built = NoCourse => s.det.prev = NoPlace
  PROVE  Watches(s, f, Watched(s, f))
<1> DEFINE built == IF s.det.built = NoCourse THEN s.course ELSE s.det.built
           a1 == [s.ages EXCEPT !.newest = f.age]
           d1 == [s.det EXCEPT !.built = built]
           s1 == [s EXCEPT !.ages = a1, !.det = d1]
           l  == Lapped(s1, f)
           g  == Gridded(l, f)
           s2 == Rounded(g, f)
           s3 == Fouled(s2, f)
           d4 == [s3.det EXCEPT !.prev = f.at]
           bad == s3.false \/ (Lap(s1, f) /\ "finish foul" \in Fouls(s1, f))
           r  == [s3 EXCEPT !.det = d4, !.false = bad]
<1>1. Watched(s, f) = r
  BY DEF Watched
<1>t. /\ s.det \in DetSet /\ s.ages \in AgeSet /\ s.out \in SUBSET Events /\ s.south \in BOOLEAN
      /\ s.false \in BOOLEAN /\ s.det.built \in CourseOrNone /\ s.det.prev \in Waters \cup {NoPlace}
  BY DEF RaceStates, DetSet
<1>f. f.age \in Never .. Old /\ f.at \in Waters /\ f.south \in BOOLEAN
  BY RaceAssumption DEF RaceAssumption, FixSet, Never
<1>2. built \in Chosen /\ built \in CourseOrNone
  BY <1>t DEF Chosen, CourseOrNone
<1>3. s.det.prev # NoPlace => built = s.det.built
  OBVIOUS
<1> HIDE DEF built
<1>4. a1 \in AgeSet /\ a1.newest = f.age /\ a1.told = s.ages.told
  BY <1>f, <1>t DEF AgeSet
<1>5. /\ d1 \in DetSet /\ d1.built = built /\ d1.prev = s.det.prev
      /\ d1.onGrid = s.det.onGrid /\ d1.held = s.det.held
  BY <1>2, <1>t DEF DetSet
<1> HIDE DEF a1, d1
<1>6. /\ s1 \in RaceStates /\ s1.det = d1 /\ s1.ages = a1 /\ s1.course = s.course /\ s1.south = s.south
      /\ s1.false = s.false /\ s1.out = s.out
  BY <1>4, <1>5 DEF RaceStates
<1>7. Told(s1.det, s1.ages)
  BY <1>4, <1>5, <1>6 DEF Told
<1> HIDE DEF s1
<1>8. /\ l \in RaceStates /\ l.det = s1.det /\ l.ages = s1.ages /\ l.course = s.course
  <2>1. CASE ~Lap(s1, f)
    BY <1>6, <2>1 DEF Lapped
  <2>2. CASE Lap(s1, f)
    <3> DEFINE out == s1.out \cup {"lap"}
               false == s1.false \/ ~s1.south
    <3>1. out \in SUBSET Events
      BY <1>6, <1>t DEF Events
    <3>2. false \in BOOLEAN
      OBVIOUS
    <3>3. l = [s1 EXCEPT !.out = out, !.false = false, !.south = f.south]
      BY <2>2 DEF Lapped
    <3> HIDE DEF out, false, l
    <3> QED
      BY <1>6, <1>f, <3>1, <3>2, <3>3 DEF RaceStates
  <2> QED
    BY <2>1, <2>2
<1>9. /\ ~Lap(s1, f) => l.south = s.south /\ l.false = s.false
      /\ Lap(s1, f) => l.south = f.south
  BY <1>6 DEF Lapped, RaceStates
<1>10. Lap(s1, f) /\ s.south => l.false = s.false
  <2> SUFFICES ASSUME Lap(s1, f), s.south
               PROVE  l.false = s.false
    OBVIOUS
  <2> DEFINE false == s1.false \/ ~s1.south
  <2>1. false = s.false
    BY <1>6, <1>t
  <2>2. l.false = false
    <3> DEFINE out == s1.out \cup {"lap"}
    <3>1. l = [s1 EXCEPT !.out = out, !.false = false, !.south = f.south]
      BY DEF Lapped
    <3> HIDE DEF out, false, l
    <3> QED
      BY <1>6, <3>1 DEF RaceStates
  <2> QED
    BY <2>1, <2>2
<1> HIDE DEF l
<1>11. Same(l, g) /\ (g.det.onGrid /\ ~racing => g.ages.told \in 0 .. Resend - 1)
  BY <1>7, <1>8, GriddedKeeps
<1> HIDE DEF g
<1>12. Same(g, s2) /\ SameGrid(g, s2)
  BY <1>11, RoundedKeeps DEF Same
<1> HIDE DEF s2
<1>13. Same(s2, s3) /\ SameGrid(s2, s3)
  BY <1>12, FouledKeeps DEF Same
<1> HIDE DEF s3
<1>14. /\ s3 \in RaceStates /\ Told(s3.det, s3.ages)
       /\ s3.course = s.course /\ s3.south = l.south /\ s3.false = l.false
       /\ s3.det.built = built /\ s3.ages.newest = f.age
  BY <1>4, <1>5, <1>6, <1>8, <1>11, <1>12, <1>13 DEF Same
<1>15. s3.det.onGrid /\ ~racing => s3.ages.told \in 0 .. Resend - 1
  BY <1>11, <1>12, <1>13 DEF SameGrid
<1>16. Lap(s1, f) => s.det.prev # NoPlace /\ ~NorthOf(built, s.det.prev) /\ NorthOf(built, f.at)
  <2> SUFFICES ASSUME Lap(s1, f)
               PROVE  s.det.prev # NoPlace /\ ~NorthOf(built, s.det.prev) /\ NorthOf(built, f.at)
    OBVIOUS
  <2>1. s1.det.built = built /\ s1.det.prev = s.det.prev
    BY <1>5, <1>6
  <2>2. s.det.prev # NoPlace
    BY <2>1 DEF Lap
  <2> DEFINE m == Courses[built]
             from == Side(m.committeeFinish, m.finish, s.det.prev) > 0
             to   == Side(m.committeeFinish, m.finish, f.at) > 0
  <2>3. Upwind(s.det.prev, f.at, m.committeeFinish, m.finish)
    BY <2>1 DEF Lap
  <2>4. from # to /\ to
    BY <2>3 DEF Upwind, Meets
  <2>5. ~from
    <3> HIDE DEF to
    <3> QED
      BY <2>4
  <2> QED
    BY <2>2, <2>4, <2>5 DEF NorthOf
<1>17. bad = s3.false
  <2>1. Lap(s1, f) => "finish foul" \notin Fouls(s1, f)
    <3> SUFFICES ASSUME Lap(s1, f)
                 PROVE  "finish foul" \notin Fouls(s1, f)
      OBVIOUS
    <3>1. s1.det.prev \in Waters /\ s1.det.built \in Chosen
      BY <1>2, <1>5, <1>6, <1>16, <1>t
    <3> QED
      BY <3>1, LapIsNoFoul
  <2>2. s3.false \in BOOLEAN
    BY <1>14 DEF RaceStates
  <2> QED
    BY <2>1, <2>2
<1> HIDE DEF bad
<1>18. /\ d4 \in DetSet /\ d4.prev = f.at /\ d4.built = built
       /\ d4.onGrid = s3.det.onGrid /\ d4.held = s3.det.held
  <2>1. s3.det \in DetSet
    BY <1>14 DEF RaceStates
  <2> QED
    BY <1>14, <1>f, <2>1 DEF DetSet
<1> HIDE DEF d4
<1>19. /\ r \in RaceStates /\ r.det = d4 /\ r.ages = s3.ages /\ r.course = s.course
       /\ r.south = l.south /\ r.false = l.false
  <2>1. s3.false \in BOOLEAN
    BY <1>14 DEF RaceStates
  <2> QED
    BY <1>14, <1>17, <1>18, <2>1 DEF RaceStates
<1> HIDE DEF r
<1>20. Told(r.det, r.ages)
  BY <1>14, <1>18, <1>19 DEF Told
<1>21. r.det.onGrid /\ ~racing => r.ages.told \in 0 .. Resend - 1
  BY <1>15, <1>18, <1>19
<1>22. \/ r.south = s.south /\ r.false = s.false
       \/ /\ s.det.prev # NoPlace /\ ~NorthOf(s.det.built, s.det.prev) /\ NorthOf(r.det.built, f.at)
          /\ r.south = f.south /\ (s.south => r.false = s.false)
  <2>1. CASE ~Lap(s1, f)
    BY <1>9, <1>19, <2>1
  <2>2. CASE Lap(s1, f)
    BY <1>3, <1>9, <1>10, <1>16, <1>18, <1>19, <2>2
  <2> QED
    BY <2>1, <2>2
<1> QED
  BY <1>1, <1>2, <1>14, <1>18, <1>19, <1>20, <1>21, <1>22 DEF Watches

-----------------------------------------------------------------------------
\* The watchers' last fix, and what the history knows: a boat that is not north of the finish line
\* it is watched at has been south since its last lap.
WatchKept(d, south) ==
  /\ d.built = NoCourse => d.prev = NoPlace
  /\ d.prev # NoPlace /\ ~NorthOf(d.built, d.prev) => south
GoodState(s) == /\ s \in RaceStates /\ Told(s.det, s.ages) /\ WatchKept(s.det, s.south)
                /\ s.false = FALSE

\* A fix that is still to come in is left out as too old, or is known to the history.
Stale(newest, f) == newest # Never /\ f.age > newest
Comes(newest, south, f) ==
  /\ newest # Never => f.age # newest /\ f.age <= newest + MaxLag
  /\ ~Stale(newest, f) /\ f.at \in South => south
\* Two fixes, the first of which comes in first.
CameBefore(f, g) ==
  /\ f.age # g.age /\ g.age <= f.age + MaxLag
  /\ g.age < f.age /\ g.at \in South => f.south

\* After f, with the events of r.
PassedOn(s, f, r) ==
  /\ GoodState(r) /\ r.course = s.course
  /\ \A g \in FixSet : Comes(s.ages.newest, s.south, g) /\ CameBefore(f, g) => Comes(r.ages.newest, r.south, g)

\* A fix that comes in, whether it is left out as too old or looked at.
LEMMA DetectedPasses ==
  ASSUME NEW s, GoodState(s), NEW f \in FixSet, s.course \in Chosen, racing \in BOOLEAN,
         Comes(s.ages.newest, s.south, f)
  PROVE  PassedOn(s, f, Detected(s, f))
<1>1. CASE Detected(s, f) = s
  BY <1>1 DEF PassedOn
<1>2. CASE Detected(s, f) # s
  <2> DEFINE r == Detected(s, f)
             n == s.ages.newest
  <2>1. r = Watched(s, f) /\ ~(n # Never /\ f.age > n /\ f.age - n < Tolerance)
    BY <1>2 DEF Detected
  <2>2. Watches(s, f, r)
    BY <2>1, WatchedKeeps DEF GoodState, WatchKept
  <2> HIDE DEF r
  <2>t. n \in Never .. Old /\ f.age \in 0 .. Old /\ f.south \in BOOLEAN /\ s.south \in BOOLEAN
    BY DEF GoodState, RaceStates, AgeSet, FixSet
  <2>n. MaxLag \in Nat /\ Tolerance \in Nat /\ MaxLag < Tolerance /\ Old \in Nat
    BY RaceAssumption DEF RaceAssumption
  <2>3. ~Stale(n, f)
    <3>1. n # Never => f.age # n /\ f.age <= n + MaxLag
      BY DEF Comes
    <3> HIDE DEF n
    <3> QED
      BY <2>1, <2>t, <2>n, <3>1 DEF Stale, Never
  <2>4. f.at \in South => s.south
    BY <2>3 DEF Comes
  <2>5. ~NorthOf(r.det.built, f.at) => f.at \in South
    BY <2>2 DEF South, FixSet, Watches, Chosen
  <2> DEFINE lap == /\ s.det.prev # NoPlace /\ ~NorthOf(s.det.built, s.det.prev)
                    /\ NorthOf(r.det.built, f.at) /\ r.south = f.south
  <2>6. (r.south = s.south \/ lap) /\ r.false = FALSE
    BY <2>2 DEF Watches, GoodState, WatchKept
  <2>7. WatchKept(r.det, r.south)
    <3>1. r.det.built = NoCourse => r.det.prev = NoPlace
      BY <2>2, RaceAssumption DEF Watches, Chosen, RaceAssumption
    <3>2. ~NorthOf(r.det.built, r.det.prev) => r.south
      BY <2>2, <2>4, <2>5, <2>6 DEF Watches
    <3> QED
      BY <3>1, <3>2 DEF WatchKept
  <2>8. GoodState(r) /\ r.course = s.course
    BY <2>2, <2>6, <2>7 DEF Watches, GoodState
  <2>9. ASSUME NEW g \in FixSet, Comes(n, s.south, g), CameBefore(f, g)
        PROVE  Comes(r.ages.newest, r.south, g)
    <3>1. r.ages.newest = f.age
      BY <2>2 DEF Watches
    <3>2. g.age # f.age /\ g.age <= f.age + MaxLag /\ g.age \in 0 .. Old
      BY <2>9 DEF CameBefore, FixSet
    <3>3. ASSUME ~Stale(f.age, g), g.at \in South
          PROVE  r.south
      <4>1. g.age < f.age
        BY <3>2, <3>3, <2>t DEF Stale, Never
      <4>2. f.south
        BY <3>3, <4>1, <2>9 DEF CameBefore
      <4>3. s.south
        <5>1. ~Stale(n, g)
          <6> HIDE DEF n
          <6> QED
            BY <2>3, <4>1, <2>t, <3>2 DEF Stale, Never
        <5> QED
          BY <5>1, <3>3, <2>9 DEF Comes
      <4> QED
        BY <4>2, <4>3, <2>6
    <3> QED
      BY <3>1, <3>2, <3>3 DEF Comes
  <2> QED
    BY <2>8, <2>9 DEF PassedOn, r
<1> QED
  BY <1>1, <1>2

-----------------------------------------------------------------------------
\* The fixes that waited for the marks are looked at one after another.
Looked(h, s, fs, n) == h = [i \in 0 .. n |-> IF i = 0 THEN s ELSE Detected(h[i - 1], fs[i])]

\* That recursion has a solution.
LEMMA LookedExists ==
  ASSUME NEW s, NEW fs, NEW N \in Nat
  PROVE  \E h : Looked(h, s, fs, N)
<1> DEFINE Upto(h, n) == /\ h = [i \in 0 .. n |-> h[i]]
                         /\ \A i \in 0 .. n : h[i] = IF i = 0 THEN s ELSE Detected(h[i - 1], fs[i])
           T == {n \in 0 .. N : \E h : Upto(h, n)}
<1>1. 0 \in T
  <2> DEFINE g == [i \in 0 .. 0 |-> s]
  <2>1. Upto(g, 0)
    OBVIOUS
  <2> HIDE DEF g, Upto
  <2> QED
    BY <2>1
<1>2. ASSUME NEW n \in 0 .. N - 1, n \in T
      PROVE  n + 1 \in T
  <2>1. PICK h : Upto(h, n)
    BY <1>2
  <2> DEFINE new == Detected(h[n], fs[n + 1])
  <2> HIDE DEF new
  <2> DEFINE g == [i \in 0 .. n + 1 |-> IF i = n + 1 THEN new ELSE h[i]]
  <2>2. \A i \in 0 .. n : g[i] = h[i]
    OBVIOUS
  <2>3. g[n + 1] = new /\ g = [i \in 0 .. n + 1 |-> g[i]]
    OBVIOUS
  <2> HIDE DEF g
  <2>4. \A i \in 0 .. n + 1 : g[i] = IF i = 0 THEN s ELSE Detected(g[i - 1], fs[i])
    <3> TAKE i \in 0 .. n + 1
    <3>1. CASE i = n + 1
      <4>1. i # 0 /\ i - 1 = n /\ g[n] = h[n]
        BY <3>1, <2>2
      <4> QED
        BY <4>1, <3>1, <2>3 DEF new
    <3>2. CASE i # n + 1
      <4>1. i \in 0 .. n /\ (i # 0 => i - 1 \in 0 .. n)
        BY <3>2
      <4>2. h[i] = IF i = 0 THEN s ELSE Detected(h[i - 1], fs[i])
        BY <4>1, <2>1
      <4>3. g[i] = h[i] /\ (i # 0 => g[i - 1] = h[i - 1])
        BY <4>1, <2>2
      <4> QED
        BY <4>2, <4>3
    <3> QED
      BY <3>1, <3>2
  <2>5. Upto(g, n + 1)
    BY <2>3, <2>4
  <2> HIDE DEF Upto
  <2> QED
    BY <2>5
<1>3. N \in T
  <2> HIDE DEF T
  <2> QED
    BY <1>1, <1>2, NatSetInduction
<1>4. PICK h : Upto(h, N)
  BY <1>3
<1> DEFINE all == [i \in 0 .. N |-> IF i = 0 THEN s ELSE Detected(h[i - 1], fs[i])]
<1>5. h = all
  BY <1>4
<1> QED
  BY <1>5 DEF Looked

\* After the first n of fs, with the events of r.
AllPassed(s, fs, n, r) ==
  /\ GoodState(r) /\ r.course = s.course
  /\ \A g \in FixSet : Comes(s.ages.newest, s.south, g) /\ (\A j \in 1 .. n : CameBefore(fs[j], g))
                      => Comes(r.ages.newest, r.south, g)

\* All the fixes that waited.
LEMMA DetectedAllPasses ==
  ASSUME NEW s, GoodState(s), s.course \in Chosen, racing \in BOOLEAN, NEW fs \in Seq(FixSet),
         \A i \in 1 .. Len(fs) : Comes(s.ages.newest, s.south, fs[i]),
         \A i, j \in 1 .. Len(fs) : j < i => CameBefore(fs[j], fs[i])
  PROVE  AllPassed(s, fs, Len(fs), DetectedAll(s, fs))
<1> DEFINE N == Len(fs)
<1>1. N \in Nat /\ \A i \in 1 .. N : fs[i] \in FixSet
  OBVIOUS
<1> DEFINE h == CHOOSE h : h = [i \in 0 .. N |-> IF i = 0 THEN s ELSE Detected(h[i - 1], fs[i])]
<1>2. Looked(h, s, fs, N)
  <2>1. \E g : g = [i \in 0 .. N |-> IF i = 0 THEN s ELSE Detected(g[i - 1], fs[i])]
    <3>1. PICK g : Looked(g, s, fs, N)
      BY <1>1, LookedExists
    <3> QED
      BY Zenon, <3>1 DEF Looked
  <2> HIDE DEF N
  <2> QED
    BY <2>1 DEF Looked
<1>3. DetectedAll(s, fs) = h[N]
  BY Zenon DEF DetectedAll
<1> HIDE DEF h
<1>4. h[0] = s /\ \A i \in 1 .. N : h[i] = Detected(h[i - 1], fs[i])
  <2> HIDE DEF N
  <2> QED
    BY <1>1, <1>2 DEF Looked
<1>5. /\ \A i \in 1 .. N : Comes(s.ages.newest, s.south, fs[i])
      /\ \A i, j \in 1 .. N : j < i => CameBefore(fs[j], fs[i])
  OBVIOUS
<1> HIDE DEF N
<1> DEFINE T == {i \in 0 .. N : AllPassed(s, fs, i, h[i])}
<1>6. 0 \in T
  BY <1>1, <1>4 DEF AllPassed
<1>7. ASSUME NEW i \in 0 .. N - 1, AllPassed(s, fs, i, h[i])
      PROVE  AllPassed(s, fs, i + 1, h[i + 1])
  <2> DEFINE f == fs[i + 1]
             q == h[i]
             r == h[i + 1]
  <2>1. i + 1 \in 1 .. N /\ i + 1 - 1 = i
    BY <1>1
  <2>2. r = Detected(q, f) /\ f \in FixSet
    BY <1>1, <1>4, <2>1
  <2>3. \A j \in 1 .. i : CameBefore(fs[j], f)
    <3> TAKE j \in 1 .. i
    <3>1. j \in 1 .. N /\ j < i + 1
      BY <1>1
    <3> QED
      BY <1>5, <2>1, <3>1
  <2>4. Comes(s.ages.newest, s.south, f)
    BY <1>5, <2>1
  <2>5. GoodState(q) /\ q.course = s.course
    BY <1>7 DEF AllPassed
  <2>6. Comes(q.ages.newest, q.south, f)
    BY <1>7, <2>2, <2>3, <2>4 DEF AllPassed
  <2>7. PassedOn(q, f, r)
    <3> HIDE DEF f, q, r
    <3> QED
      BY <2>2, <2>5, <2>6, DetectedPasses
  <2>8. ASSUME NEW g \in FixSet, Comes(s.ages.newest, s.south, g), \A j \in 1 .. i + 1 : CameBefore(fs[j], g)
        PROVE  Comes(r.ages.newest, r.south, g)
    <3>1. \A j \in 1 .. i : CameBefore(fs[j], g)
      BY <2>8
    <3>2. CameBefore(f, g)
      <4>1. i + 1 \in 1 .. i + 1
        BY <1>1
      <4> QED
        BY <2>8, <4>1
    <3>3. Comes(q.ages.newest, q.south, g)
      BY <1>7, <2>8, <3>1 DEF AllPassed
    <3> HIDE DEF f, q, r
    <3> QED
      BY <2>7, <3>2, <3>3 DEF PassedOn
  <2> QED
    BY <2>5, <2>7, <2>8 DEF PassedOn, AllPassed
<1>8. \A i \in 0 .. N - 1 : i \in T => i + 1 \in T
  <2>1. \A i \in 0 .. N - 1 : i + 1 \in 0 .. N
    BY <1>1
  <2> QED
    BY <1>7, <2>1
<1>9. N \in T
  <2>1. 0 .. N \subseteq T
    <3> HIDE DEF T
    <3> QED
      BY <1>1, <1>6, <1>8, NatSetInduction
  <2>2. N \in 0 .. N
    BY <1>1
  <2> QED
    BY <2>1, <2>2
<1> QED
  BY <1>3, <1>9 DEF N

-----------------------------------------------------------------------------
\* What is forgotten, and what is not: the watchers' last fix goes, the newest time stays.
Clears(s, r) ==
  /\ GoodState(r) /\ r.course = s.course /\ r.ages.newest = s.ages.newest /\ r.south = s.south

\* A reconnect and a ping forget the grid only.
LEMMA GridForgottenClears ==
  ASSUME NEW s, GoodState(s)
  PROVE  Clears(s, GridForgotten(s))
<1> DEFINE d == [s.det EXCEPT !.grid = NoCourse, !.onGrid = FALSE]
           a == [s.ages EXCEPT !.told = Never]
           r == [s EXCEPT !.det = d, !.ages = a]
<1>1. GridForgotten(s) = r
  BY DEF GridForgotten
<1>2. s \in RaceStates /\ s.det \in DetSet /\ s.ages \in AgeSet
  BY DEF GoodState, RaceStates
<1>3. d \in DetSet /\ d.built = s.det.built /\ d.prev = s.det.prev /\ d.onGrid = FALSE
  BY <1>2 DEF DetSet, CourseOrNone
<1>4. a \in AgeSet /\ a.newest = s.ages.newest
  <2>1. Never \in Never .. Old
    BY RaceAssumption DEF RaceAssumption, Never
  <2> QED
    BY <1>2, <2>1 DEF AgeSet
<1> HIDE DEF d, a
<1>5. /\ r \in RaceStates /\ r.det = d /\ r.ages = a /\ r.course = s.course /\ r.south = s.south
      /\ r.false = s.false
  BY <1>2, <1>3, <1>4 DEF RaceStates
<1> HIDE DEF r
<1> QED
  BY <1>1, <1>3, <1>4, <1>5 DEF Clears, GoodState, Told, WatchKept

\* Marks that move and a new regatta forget all the watchers.
LEMMA ForgottenClears ==
  ASSUME NEW s, GoodState(s)
  PROVE  Clears(s, Forgotten(s))
<1> DEFINE s1 == GridForgotten(s)
           d == [DetInit EXCEPT !.held = s.det.held]
           a == [s1.ages EXCEPT !.finish = Never, !.enter = Never, !.round = Never]
           r == [s1 EXCEPT !.det = d, !.ages = a]
<1>1. Forgotten(s) = r
  BY DEF Forgotten
<1>2. Clears(s, s1)
  BY GridForgottenClears
<1> HIDE DEF s1
<1>3. s1 \in RaceStates /\ s1.ages \in AgeSet
  BY <1>2 DEF Clears, GoodState, RaceStates
<1>4. s.det.held \in BOOLEAN
  BY DEF GoodState, RaceStates, DetSet
<1>5. DetInit \in DetSet
  BY RaceAssumption DEF RaceAssumption, DetInit, DetSet, CourseOrNone, Vectors
<1>6. d \in DetSet /\ d.built = NoCourse /\ d.prev = NoPlace /\ d.onGrid = FALSE
  BY <1>4, <1>5 DEF DetInit, DetSet
<1>7. a \in AgeSet /\ a.newest = s1.ages.newest
  <2>1. Never \in Never .. Old
    BY RaceAssumption DEF RaceAssumption, Never
  <2> QED
    BY <1>3, <2>1 DEF AgeSet
<1> HIDE DEF d, a
<1>8. /\ r \in RaceStates /\ r.det = d /\ r.ages = a /\ r.course = s1.course /\ r.south = s1.south
      /\ r.false = s1.false
  BY <1>3, <1>6, <1>7 DEF RaceStates
<1> HIDE DEF r
<1> QED
  BY <1>1, <1>2, <1>6, <1>7, <1>8 DEF Clears, GoodState, Told, WatchKept

\* A frame that is heard, after a silence or not, with the marks known or not.
LEMMA HeardPasses ==
  ASSUME NEW s, GoodState(s), NEW f \in FixSet, NEW quiet, s.course = marks, marks \in CourseOrNone,
         racing \in BOOLEAN, Comes(s.ages.newest, s.south, f)
  PROVE  /\ PassedOn(s, f, Heard(s, f, quiet))
         /\ marks = NoCourse => Clears(s, Heard(s, f, quiet))
<1> DEFINE s1 == IF quiet > SilentGap THEN GridForgotten(s) ELSE s
           r == Heard(s, f, quiet)
<1>1. r = IF marks = NoCourse THEN s1 ELSE Detected(s1, f)
  BY DEF Heard
<1>2. Clears(s, s1)
  <2>1. Clears(s, s)
    BY DEF Clears
  <2>2. Clears(s, GridForgotten(s))
    BY GridForgottenClears
  <2> QED
    BY <2>1, <2>2
<1> HIDE DEF s1, r
<1>3. CASE marks = NoCourse
  <2>1. Clears(s, r)
    BY <1>1, <1>2, <1>3
  <2>2. PassedOn(s, f, r)
    BY <2>1 DEF Clears, PassedOn
  <2> QED
    BY <2>1, <2>2 DEF r
<1>4. CASE marks # NoCourse
  <2>1. GoodState(s1) /\ s1.course \in Chosen /\ Comes(s1.ages.newest, s1.south, f)
    BY <1>2, <1>4 DEF Clears, CourseOrNone
  <2>2. PassedOn(s1, f, r)
    BY <1>1, <1>4, <2>1, DetectedPasses
  <2>3. PassedOn(s, f, r)
    BY <1>2, <2>2 DEF Clears, PassedOn
  <2> QED
    BY <1>4, <2>3 DEF r
<1> QED
  BY <1>3, <1>4

\* A fix that comes in at once is looked at, and a boat it finds on the grid has been told of.
LEMMA HeardTells ==
  ASSUME NEW s, GoodState(s), NEW f \in FixSet, NEW quiet, s.course = marks, marks \in Chosen,
         racing = FALSE, f.age = 0, Heard(s, f, quiet).det.onGrid
  PROVE  Heard(s, f, quiet).ages.told \in 0 .. Resend - 1
<1> DEFINE s1 == IF quiet > SilentGap THEN GridForgotten(s) ELSE s
           r == Heard(s, f, quiet)
<1>1. r = Detected(s1, f)
  BY RaceAssumption DEF Heard, Chosen, RaceAssumption
<1>2. Clears(s, s1)
  <2>1. Clears(s, s)
    BY DEF Clears
  <2>2. Clears(s, GridForgotten(s))
    BY GridForgottenClears
  <2> QED
    BY <2>1, <2>2
<1>h. r.det.onGrid
  OBVIOUS
<1> HIDE DEF s1, r
<1>3. ~(s1.ages.newest # Never /\ f.age > s1.ages.newest)
  <2>1. s1.ages.newest \in Never .. Old
    BY <1>2 DEF Clears, GoodState, RaceStates, AgeSet
  <2> QED
    BY <2>1, RaceAssumption DEF RaceAssumption, Never
<1>4. r = Watched(s1, f)
  BY <1>1, <1>3 DEF Detected
<1>5. Watches(s1, f, r)
  BY <1>2, <1>4, WatchedKeeps DEF Clears, GoodState, WatchKept
<1> QED
  BY <1>h, <1>5 DEF Watches, r

-----------------------------------------------------------------------------
\* The inductive invariant.
RaceTypes ==
  /\ marks \in CourseOrNone /\ boat \in Waters /\ racing \in BOOLEAN /\ southSince \in BOOLEAN
  /\ det \in DetSet /\ ages \in AgeSet
  /\ silent \in 0 .. SilentGap + 1
  /\ pending \in Seq(FixSet) /\ Len(pending) <= MaxPending
  /\ lag \in FixSet \cup {NoLag}
PendingKept ==
  /\ marks # NoCourse => Len(pending) = 0
  /\ \A i \in 1 .. Len(pending) : pending[i].age < Old /\ Comes(ages.newest, southSince, pending[i])
  /\ \A i, j \in 1 .. Len(pending) : j < i => CameBefore(pending[j], pending[i])
LagKept ==
  \/ lag = NoLag
  \/ /\ lag \in FixSet /\ lag.age <= MaxLag /\ Comes(ages.newest, southSince, lag)
     /\ \A i \in 1 .. Len(pending) : CameBefore(pending[i], lag)
RaceInv ==
  /\ RaceTypes
  /\ Told(det, ages)
  /\ WatchKept(det, southSince)
  /\ PendingKept
  /\ LagKept
  /\ "false lap" \notin reported

\* Nothing held up is told apart from every fix.
LEMMA NoLagIsNoFix == NoLag \notin FixSet /\ NoLag.age = Never
<1>1. NoLag.age = Never
  BY DEF NoLag
<1>2. \A f \in FixSet : f.age \in 0 .. Old
  BY DEF FixSet
<1> QED
  BY <1>1, <1>2, RaceAssumption DEF Never, RaceAssumption

\* What the assumption says of the bounds.
LEMMA Numbers ==
  /\ Old \in Nat /\ MaxLag \in Nat /\ MaxLag < Old /\ SilentGap \in Nat /\ MaxPending \in Nat
  /\ \A f \in FixSet : f.age \in 0 .. Old
BY RaceAssumption DEF RaceAssumption, FixSet

\* A fix that is not too late yet.
LEMMA Younger == \A a \in 0 .. Old : a <= MaxLag /\ a # MaxLag => a < MaxLag
BY Numbers

\* What the invariant says of the types.
LEMMA FixTypes ==
  ASSUME RaceInv
  PROVE  /\ pending \in Seq(FixSet) /\ Len(pending) \in Nat /\ \A i \in 1 .. Len(pending) : pending[i] \in FixSet
         /\ southSince \in BOOLEAN /\ ages.newest \in Never .. Old /\ ages.told \in Never .. Old
<1>1. pending \in Seq(FixSet) /\ ages \in AgeSet /\ southSince \in BOOLEAN
  BY DEF RaceInv, RaceTypes
<1> QED
  BY <1>1 DEF AgeSet

\* The invariant holds at the start.
LEMMA RaceInitInv == RaceInit => RaceInv
<1> SUFFICES ASSUME RaceInit
             PROVE  RaceInv
  OBVIOUS
<1>n. Old \in Nat /\ SweepMin \in Nat /\ SilentGap \in Nat /\ MaxPending \in Nat
  BY RaceAssumption DEF RaceAssumption
<1>1. DetInit \in DetSet /\ DetInit.built = NoCourse /\ DetInit.prev = NoPlace /\ DetInit.onGrid = FALSE
  BY <1>n DEF DetInit, DetSet, CourseOrNone, Vectors
<1>2. AgesInit \in AgeSet
  BY <1>n DEF AgesInit, AgeSet, Never
<1>3. RaceTypes
  <2>1. pending \in Seq(FixSet) /\ Len(pending) = 0
    BY DEF RaceInit
  <2>2. silent \in 0 .. SilentGap + 1 /\ Len(pending) <= MaxPending
    BY <1>n, <2>1 DEF RaceInit
  <2>3. marks \in CourseOrNone /\ boat \in Waters /\ racing \in BOOLEAN /\ southSince \in BOOLEAN /\ lag = NoLag
    BY DEF RaceInit, CourseOrNone
  <2> QED
    BY <1>1, <1>2, <2>1, <2>2, <2>3 DEF RaceInit, RaceTypes
<1>4. Told(det, ages) /\ WatchKept(det, southSince)
  BY <1>1 DEF RaceInit, Told, WatchKept
<1>5. PendingKept /\ LagKept
  <2>1. Len(pending) = 0
    BY DEF RaceInit
  <2> QED
    BY <2>1 DEF PendingKept, LagKept, RaceInit
<1>6. "false lap" \notin reported
  BY DEF RaceInit
<1> QED
  BY <1>3, <1>4, <1>5, <1>6 DEF RaceInv

\* What a handler starts from.
StartsFrom(a, c, south, s) ==
  GoodState(s) /\ s.course = c /\ s.ages = a /\ s.south = south /\ s.det = det
LEMMA StartIsGood ==
  ASSUME RaceInv, NEW a \in AgeSet, a.told = Never <=> ages.told = Never, NEW c \in CourseOrNone,
         NEW south \in BOOLEAN, southSince => south
  PROVE  StartsFrom(a, c, south, [EventState(a, c) EXCEPT !.south = south])
<1> DEFINE e == [course |-> c, det |-> det, ages |-> a, out |-> {}, south |-> southSince, false |-> FALSE]
           s == [e EXCEPT !.south = south]
<1>1. EventState(a, c) = e
  BY DEF EventState
<1>2. e \in RaceStates
  BY DEF RaceStates, RaceInv, RaceTypes
<1>3. s \in RaceStates /\ s.course = c /\ s.ages = a /\ s.south = south /\ s.det = det /\ s.false = FALSE
  <2>1. e.course = c /\ e.ages = a /\ e.det = det /\ e.false = FALSE
    OBVIOUS
  <2> HIDE DEF e
  <2> QED
    BY <1>2, <2>1 DEF RaceStates
<1> HIDE DEF s, e
<1>4. GoodState(s)
  BY <1>3 DEF GoodState, Told, WatchKept, RaceInv
<1> QED
  BY <1>1, <1>3, <1>4 DEF s, StartsFrom

\* The same, for a handler that takes no time.
LEMMA NowIsGood ==
  ASSUME RaceInv, NEW c \in CourseOrNone
  PROVE  /\ GoodState(EventState(ages, c)) /\ EventState(ages, c).course = c
         /\ EventState(ages, c).ages = ages /\ EventState(ages, c).south = southSince
<1> DEFINE e == [course |-> c, det |-> det, ages |-> ages, out |-> {}, south |-> southSince, false |-> FALSE]
<1>1. EventState(ages, c) = e
  BY DEF EventState
<1>2. /\ e \in RaceStates /\ e.course = c /\ e.ages = ages /\ e.det = det /\ e.false = FALSE
      /\ e.south = southSince
  BY DEF RaceStates, RaceInv, RaceTypes
<1> HIDE DEF e
<1> QED
  BY <1>1, <1>2 DEF GoodState, RaceInv

\* What it leaves behind.
LEMMA TakeKeeps ==
  ASSUME NEW s, GoodState(s), Take(s)
  PROVE  /\ det' \in DetSet /\ ages' \in AgeSet /\ southSince' \in BOOLEAN
         /\ ages' = s.ages /\ southSince' = s.south
         /\ Told(det', ages') /\ WatchKept(det', southSince')
         /\ "false lap" \notin reported'
<1>1. /\ s.det \in DetSet /\ s.ages \in AgeSet /\ s.south \in BOOLEAN /\ s.out \in SUBSET Events
      /\ s.false = FALSE
  BY DEF GoodState, RaceStates
<1>2. "false lap" \notin Events
  BY DEF Events
<1>3. det' = s.det /\ ages' = s.ages /\ southSince' = s.south /\ reported' = s.out \cup {}
  BY <1>1 DEF Take
<1> QED
  BY <1>1, <1>2, <1>3 DEF GoodState

\* The handlers that look at no fix.
LEMMA ClearingStep ==
  ASSUME RaceInv, NEW s, Clears(EventState(ages, marks), s), Take(s),
         marks' \in CourseOrNone, racing' \in BOOLEAN, marks' # NoCourse => marks # NoCourse,
         UNCHANGED <<boat, lag, pending, silent>>
  PROVE  RaceInv'
<1>1. marks \in CourseOrNone
  BY DEF RaceInv, RaceTypes
<1>2. GoodState(s) /\ s.ages.newest = ages.newest /\ s.south = southSince
  BY <1>1, NowIsGood DEF Clears
<1>3. /\ det' \in DetSet /\ ages' \in AgeSet /\ southSince' \in BOOLEAN
      /\ ages'.newest = ages.newest /\ southSince' = southSince
      /\ Told(det', ages') /\ WatchKept(det', southSince')
      /\ "false lap" \notin reported'
  BY <1>2, TakeKeeps
<1>4. RaceTypes'
  BY <1>3 DEF RaceInv, RaceTypes
<1>5. PendingKept'
  BY <1>3 DEF RaceInv, PendingKept
<1>6. LagKept'
  BY <1>3 DEF RaceInv, LagKept
<1> QED
  BY <1>3, <1>4, <1>5, <1>6 DEF RaceInv

\* A regatta is selected, the fleet pinged, a mark moved, or the boat starts.
LEMMA ClearingSteps ==
  ASSUME RaceInv, SelectRegatta \/ PingFleet \/ StartOrStop \/ \E c \in Chosen : Edit(c)
  PROVE  RaceInv'
<1>1. marks \in CourseOrNone /\ racing \in BOOLEAN
  BY DEF RaceInv, RaceTypes
<1>2. GoodState(Now) /\ Now = EventState(ages, marks)
  BY <1>1, NowIsGood DEF Now
<1>3. /\ Clears(Now, Now) /\ Clears(Now, GridForgotten(Now)) /\ Clears(Now, Forgotten(Now))
  BY <1>2, GridForgottenClears, ForgottenClears DEF Clears
<1> HIDE DEF Now
<1>4. CASE SelectRegatta
  BY <1>1, <1>2, <1>3, <1>4, ClearingStep DEF SelectRegatta, CourseOrNone
<1>5. CASE PingFleet
  BY <1>1, <1>2, <1>3, <1>5, ClearingStep DEF PingFleet
<1>6. CASE StartOrStop
  BY <1>1, <1>2, <1>3, <1>6, ClearingStep DEF StartOrStop
<1>7. ASSUME NEW c \in Chosen, Edit(c)
      PROVE  RaceInv'
  BY <1>1, <1>2, <1>3, <1>7, ClearingStep DEF Edit, CourseOrNone
<1> QED
  BY <1>4, <1>5, <1>6, <1>7

\* The marks are known.
LEMMA ResolveStep ==
  ASSUME RaceInv, NEW c \in Chosen, Resolve(c)
  PROVE  RaceInv'
<1> DEFINE s == EventState(ages, c)
           r == DetectedAll(s, pending)
<1>1. c \in CourseOrNone /\ pending \in Seq(FixSet) /\ racing \in BOOLEAN
  BY DEF RaceInv, RaceTypes, CourseOrNone
<1>2. GoodState(s) /\ s.course = c /\ s.ages = ages /\ s.south = southSince
  BY <1>1, NowIsGood
<1> HIDE DEF s
<1>3. AllPassed(s, pending, Len(pending), r)
  BY <1>1, <1>2, DetectedAllPasses DEF RaceInv, PendingKept
<1>4. Take(r) /\ marks' = c /\ pending' = <<>> /\ UNCHANGED <<boat, lag, silent, racing>>
  BY DEF Resolve, s
<1> HIDE DEF r
<1>5. /\ det' \in DetSet /\ ages' \in AgeSet /\ southSince' \in BOOLEAN
      /\ ages' = r.ages /\ southSince' = r.south
      /\ Told(det', ages') /\ WatchKept(det', southSince')
      /\ "false lap" \notin reported'
  BY <1>3, <1>4, TakeKeeps DEF AllPassed
<1>6. pending' \in Seq(FixSet) /\ Len(pending') = 0
  BY <1>4
<1>7. RaceTypes'
  <2>1. Len(pending') <= MaxPending
    BY <1>6, RaceAssumption DEF RaceAssumption
  <2>2. /\ boat \in Waters /\ racing \in BOOLEAN /\ silent \in 0 .. SilentGap + 1
        /\ lag \in FixSet \cup {NoLag}
    BY DEF RaceInv, RaceTypes
  <2> QED
    BY <1>1, <1>4, <1>5, <1>6, <2>1, <2>2 DEF RaceTypes
<1>8. PendingKept'
  BY <1>6 DEF PendingKept
<1>9. LagKept'
  <2>1. CASE lag = NoLag
    BY <1>4, <2>1 DEF LagKept
  <2>2. CASE lag # NoLag
    <3>1. /\ lag \in FixSet /\ lag.age <= MaxLag /\ Comes(ages.newest, southSince, lag)
          /\ \A i \in 1 .. Len(pending) : CameBefore(pending[i], lag)
      BY <2>2 DEF RaceInv, LagKept
    <3>2. Comes(ages'.newest, southSince', lag)
      BY <1>2, <1>3, <1>5, <3>1 DEF AllPassed
    <3> QED
      BY <1>4, <1>6, <3>1, <3>2 DEF LagKept
  <2> QED
    BY <2>1, <2>2
<1> QED
  BY <1>5, <1>7, <1>8, <1>9 DEF RaceInv

\* One more fix waits for the marks.
LEMMA OneMoreWaits ==
  ASSUME NEW ps \in Seq(FixSet), NEW f \in FixSet, NEW n, NEW south, f.age < Old, Comes(n, south, f),
         \A i \in 1 .. Len(ps) : ps[i].age < Old /\ Comes(n, south, ps[i]) /\ CameBefore(ps[i], f),
         \A i, j \in 1 .. Len(ps) : j < i => CameBefore(ps[j], ps[i])
  PROVE  LET qs == Append(ps, f)
         IN /\ qs \in Seq(FixSet) /\ Len(qs) = Len(ps) + 1
            /\ \A i \in 1 .. Len(qs) : qs[i].age < Old /\ Comes(n, south, qs[i])
            /\ \A i, j \in 1 .. Len(qs) : j < i => CameBefore(qs[j], qs[i])
            /\ \A g \in FixSet : CameBefore(f, g) /\ (\A i \in 1 .. Len(ps) : CameBefore(ps[i], g))
                                => \A i \in 1 .. Len(qs) : CameBefore(qs[i], g)
<1> DEFINE qs == Append(ps, f)
           L  == Len(ps)
<1>1. qs \in Seq(FixSet) /\ Len(qs) = L + 1 /\ L \in Nat
  OBVIOUS
<1>2. qs[L + 1] = f /\ \A i \in 1 .. L : qs[i] = ps[i]
  OBVIOUS
<1>3. /\ \A i \in 1 .. L : ps[i].age < Old /\ Comes(n, south, ps[i]) /\ CameBefore(ps[i], f)
      /\ \A i, j \in 1 .. L : j < i => CameBefore(ps[j], ps[i])
  OBVIOUS
<1> HIDE DEF qs, L
<1>4. \A i \in 1 .. Len(qs) : i = L + 1 \/ i \in 1 .. L
  BY <1>1
<1>5. \A i \in 1 .. Len(qs) : qs[i].age < Old /\ Comes(n, south, qs[i])
  BY <1>2, <1>3, <1>4
<1>6. ASSUME NEW i \in 1 .. Len(qs), NEW j \in 1 .. Len(qs), j < i
      PROVE  CameBefore(qs[j], qs[i])
  <2>1. j \in 1 .. L
    BY <1>1, <1>6
  <2> QED
    BY <1>2, <1>3, <1>4, <1>6, <2>1
<1>7. ASSUME NEW g \in FixSet, CameBefore(f, g), \A i \in 1 .. L : CameBefore(ps[i], g)
      PROVE  \A i \in 1 .. Len(qs) : CameBefore(qs[i], g)
  BY <1>2, <1>4, <1>7
<1> QED
  BY <1>1, <1>5, <1>6, <1>7 DEF qs, L

\* The fix that was held up comes in.
LEMMA LateStep ==
  ASSUME RaceInv, ComesLate
  PROVE  RaceInv'
<1> DEFINE r == Heard(Now, lag, silent)
<1>1. marks \in CourseOrNone /\ racing \in BOOLEAN /\ pending \in Seq(FixSet)
  BY DEF RaceInv, RaceTypes
<1>2. GoodState(Now) /\ Now.course = marks /\ Now.ages = ages /\ Now.south = southSince
  BY <1>1, NowIsGood DEF Now
<1> HIDE DEF Now
<1>3. /\ lag \in FixSet /\ lag.age <= MaxLag /\ Comes(ages.newest, southSince, lag)
      /\ \A i \in 1 .. Len(pending) : CameBefore(pending[i], lag)
  BY DEF RaceInv, LagKept, ComesLate
<1>4. /\ GoodState(r) /\ (marks = NoCourse => r.ages.newest = ages.newest /\ r.south = southSince)
  BY <1>1, <1>2, <1>3, HeardPasses DEF PassedOn, Clears
<1>5. /\ Take(r) /\ Buffered(lag) /\ lag' = NoLag /\ silent' = 0
      /\ UNCHANGED <<marks, boat, racing>> /\ (marks = NoCourse => Len(pending) < MaxPending)
  BY DEF ComesLate
<1> HIDE DEF r
<1>6. /\ det' \in DetSet /\ ages' \in AgeSet /\ southSince' \in BOOLEAN
      /\ ages' = r.ages /\ southSince' = r.south
      /\ Told(det', ages') /\ WatchKept(det', southSince')
      /\ "false lap" \notin reported'
  BY <1>4, <1>5, TakeKeeps
<1>7. LagKept'
  BY <1>5 DEF LagKept
<1>8. pending' \in Seq(FixSet) /\ Len(pending') <= MaxPending /\ PendingKept'
  <2>1. CASE marks # NoCourse
    <3>1. pending' = pending /\ Len(pending) = 0
      BY <1>5, <2>1 DEF Buffered, RaceInv, PendingKept
    <3>2. Len(pending) <= MaxPending
      BY DEF RaceInv, RaceTypes
    <3>3. PendingKept'
      BY <3>1 DEF PendingKept
    <3> QED
      BY <1>1, <3>1, <3>2, <3>3
  <2>2. CASE marks = NoCourse
    <3>1. pending' = Append(pending, lag) /\ ages'.newest = ages.newest /\ southSince' = southSince
      BY <1>4, <1>5, <1>6, <2>2 DEF Buffered
    <3>2. lag.age < Old
      BY <1>3, RaceAssumption DEF RaceAssumption, FixSet
    <3>3. /\ pending' \in Seq(FixSet) /\ Len(pending') = Len(pending) + 1
          /\ \A i \in 1 .. Len(pending') : pending'[i].age < Old /\ Comes(ages.newest, southSince, pending'[i])
          /\ \A i, j \in 1 .. Len(pending') : j < i => CameBefore(pending'[j], pending'[i])
      BY <1>1, <1>3, <3>1, <3>2, OneMoreWaits DEF RaceInv, PendingKept
    <3>4. Len(pending') <= MaxPending
      BY <1>1, <1>5, <2>2, <3>3, RaceAssumption DEF RaceAssumption
    <3>5. marks' = NoCourse
      BY <1>5, <2>2
    <3> QED
      BY <3>1, <3>3, <3>4, <3>5 DEF PendingKept
  <2> QED
    BY <2>1, <2>2
<1>9. RaceTypes'
  <2>1. silent' \in 0 .. SilentGap + 1
    BY <1>5, RaceAssumption DEF RaceAssumption
  <2>2. boat \in Waters
    BY DEF RaceInv, RaceTypes
  <2> QED
    BY <1>1, <1>5, <1>6, <1>8, <2>1, <2>2 DEF RaceTypes
<1> QED
  BY <1>6, <1>7, <1>8, <1>9 DEF RaceInv

-----------------------------------------------------------------------------
\* The boat sails on: everything is a fix older, and the boat may have been south meanwhile.
LaterOf(g, south) == [g EXCEPT !.age = Older(@), !.south = @ \/ south]

\* A fix, one later.
LEMMA LaterFix ==
  ASSUME NEW g \in FixSet, NEW south \in BOOLEAN, g.age < Old - 1
  PROVE  /\ LaterOf(g, south) \in FixSet
         /\ LaterOf(g, south).age = g.age + 1 /\ LaterOf(g, south).at = g.at
         /\ LaterOf(g, south).south <=> (g.south \/ south)
<1>1. g.age \in 0 .. Old /\ Old \in Nat
  BY RaceAssumption DEF RaceAssumption, FixSet
<1>2. Older(g.age) = g.age + 1 /\ Older(g.age) \in 0 .. Old
  BY <1>1 DEF Older, Never
<1> DEFINE a == Older(g.age)
           o == g.south \/ south
           h == [g EXCEPT !.age = a, !.south = o]
<1>3. LaterOf(g, south) = h
  BY DEF LaterOf
<1>4. a \in 0 .. Old /\ o \in BOOLEAN
  BY <1>2
<1> HIDE DEF a
<1>5. h \in FixSet /\ h.age = a /\ h.at = g.at /\ (h.south <=> o)
  <2> HIDE DEF o
  <2> QED
    BY <1>4 DEF FixSet
<1> HIDE DEF h
<1> QED
  BY <1>2, <1>3, <1>5 DEF a

\* What is known of a fix stays known as it gets older.
LEMMA LaterComes ==
  ASSUME NEW g \in FixSet, NEW south \in BOOLEAN, g.age < Old - 1, NEW n \in Never .. Old,
         NEW before \in BOOLEAN, Comes(n, before, g)
  PROVE  Comes(Older(n), before \/ south, LaterOf(g, south))
<1>1. LaterOf(g, south).age = g.age + 1 /\ LaterOf(g, south).at = g.at
  BY LaterFix
<1> DEFINE h == LaterOf(g, south)
<1> HIDE DEF h
<1>2. g.age \in 0 .. Old /\ Old \in Nat /\ MaxLag \in Nat
  BY RaceAssumption DEF RaceAssumption, FixSet
<1>3. n # Never => g.age # n /\ g.age <= n + MaxLag
  BY DEF Comes
<1>4. Older(n) # Never => h.age # Older(n) /\ h.age <= Older(n) + MaxLag
  BY <1>1, <1>2, <1>3 DEF Older, Never, h
<1>5. Stale(n, g) => Stale(Older(n), h)
  BY <1>1, <1>2 DEF Stale, Older, Never, h
<1>6. ~Stale(Older(n), h) /\ h.at \in South => before \/ south
  BY <1>1, <1>5 DEF Comes, h
<1> QED
  BY <1>4, <1>6 DEF Comes, h

\* Two fixes stay in order.
LEMMA LaterBefore ==
  ASSUME NEW f \in FixSet, NEW g \in FixSet, NEW south \in BOOLEAN, f.age < Old - 1, g.age < Old - 1,
         CameBefore(f, g)
  PROVE  CameBefore(LaterOf(f, south), LaterOf(g, south))
<1> DEFINE p == LaterOf(f, south)
           q == LaterOf(g, south)
<1>1. p.age = f.age + 1 /\ (p.south <=> (f.south \/ south))
  BY LaterFix
<1>2. q.age = g.age + 1 /\ q.at = g.at
  BY LaterFix
<1> HIDE DEF p, q
<1>3. f.age \in 0 .. Old /\ g.age \in 0 .. Old /\ MaxLag \in Nat /\ Old \in Nat
  BY RaceAssumption DEF RaceAssumption, FixSet
<1>4. f.age # g.age /\ g.age <= f.age + MaxLag
  BY DEF CameBefore
<1>5. p.age # q.age /\ q.age <= p.age + MaxLag
  BY <1>1, <1>2, <1>3, <1>4
<1>6. q.age < p.age => g.age < f.age
  BY <1>1, <1>2, <1>3
<1>7. q.age < p.age /\ q.at \in South => p.south
  BY <1>1, <1>2, <1>6 DEF CameBefore
<1> QED
  BY <1>5, <1>7 DEF CameBefore, p, q

\* The new fix is known to the history.
LEMMA NewComes ==
  ASSUME NEW to \in Waters, NEW n \in Never .. Old, NEW before \in BOOLEAN, NEW f,
         f = [at |-> to, age |-> 0, south |-> FALSE]
  PROVE  f \in FixSet /\ f.age = 0 /\ f.age < Old /\ f.age <= MaxLag
         /\ Comes(Older(n), before \/ to \in South, f)
<1>1. Old \in Nat /\ Old > 1 /\ MaxLag \in Nat /\ 0 \in 0 .. Old
  BY RaceAssumption DEF RaceAssumption
<1>2. f \in FixSet /\ f.age = 0 /\ f.at = to
  BY <1>1 DEF FixSet
<1>3. Older(n) # Never => Older(n) \in 1 .. Old
  BY <1>1 DEF Older, Never
<1>4. Older(n) # Never => f.age # Older(n) /\ f.age <= Older(n) + MaxLag
  BY <1>1, <1>2, <1>3
<1> QED
  BY <1>1, <1>2, <1>4 DEF Comes

\* And after those that wait, before the one that is held up.
LEMMA NewBefore ==
  ASSUME NEW to \in Waters, NEW g \in FixSet, NEW south \in BOOLEAN, to \in South => south, g.age < Old - 1, NEW f,
         f = [at |-> to, age |-> 0, south |-> FALSE]
  PROVE  /\ CameBefore(LaterOf(g, south), f)
         /\ g.age < MaxLag => CameBefore(f, LaterOf(g, south))
<1> DEFINE h == LaterOf(g, south)
<1>2. h.age = g.age + 1 /\ (h.south <=> (g.south \/ south))
  BY LaterFix
<1> HIDE DEF h
<1>3. g.age \in 0 .. Old /\ Old \in Nat /\ MaxLag \in Nat
  BY RaceAssumption DEF RaceAssumption, FixSet
<1>4. f.age = 0 /\ f.at = to
  OBVIOUS
<1>5. CameBefore(h, f)
  <2>1. h.age # f.age /\ f.age <= h.age + MaxLag
    BY <1>2, <1>3, <1>4
  <2>2. f.at \in South => h.south
    BY <1>2, <1>4
  <2> QED
    BY <2>1, <2>2 DEF CameBefore
<1>6. g.age < MaxLag => CameBefore(f, h)
  <2>1. f.age # h.age /\ (g.age < MaxLag => h.age <= f.age + MaxLag) /\ ~(h.age < f.age)
    BY <1>2, <1>3, <1>4
  <2> QED
    BY <2>1 DEF CameBefore
<1> QED
  BY <1>5, <1>6 DEF h

\* The fixes that wait, later.
LEMMA WaitingLater ==
  ASSUME RaceInv, NEW to \in Waters, NEW south \in BOOLEAN, to \in South => south,
         \A i \in 1 .. Len(pending) : pending[i].age < Old - 1,
         NEW old, old = [i \in 1 .. Len(pending) |-> LaterOf(pending[i], south)],
         NEW f, f = [at |-> to, age |-> 0, south |-> FALSE]
  PROVE  /\ old \in Seq(FixSet) /\ Len(old) = Len(pending)
         /\ \A i \in 1 .. Len(old) : /\ old[i].age < Old /\ CameBefore(old[i], f)
                                     /\ Comes(Older(ages.newest), southSince \/ south, old[i])
         /\ \A i, j \in 1 .. Len(old) : j < i => CameBefore(old[j], old[i])
<1> DEFINE L == Len(pending)
<1>1. L \in Nat /\ \A i \in 1 .. L : pending[i] \in FixSet
  BY FixTypes
<1>2. /\ \A i \in 1 .. L : Comes(ages.newest, southSince, pending[i])
      /\ \A i, j \in 1 .. L : j < i => CameBefore(pending[j], pending[i])
      /\ \A i \in 1 .. L : pending[i].age < Old - 1
  BY DEF RaceInv, PendingKept
<1>3. southSince \in BOOLEAN /\ ages.newest \in Never .. Old
  BY FixTypes
<1> HIDE DEF L
<1>4. old = [i \in 1 .. L |-> LaterOf(pending[i], south)]
  BY DEF L
<1>5. \A i \in 1 .. L : LaterOf(pending[i], south) \in FixSet
  BY <1>1, <1>2, <1>3, LaterFix
<1>6. old \in Seq(FixSet) /\ Len(old) = L /\ \A i \in 1 .. L : old[i] = LaterOf(pending[i], south)
  BY <1>1, <1>4, <1>5
<1>7. ASSUME NEW i \in 1 .. L
      PROVE  /\ old[i].age < Old /\ CameBefore(old[i], f)
             /\ Comes(Older(ages.newest), southSince \/ south, old[i])
  <2> DEFINE g == pending[i]
  <2>1. g \in FixSet /\ g.age < Old - 1 /\ Comes(ages.newest, southSince, g)
    BY <1>1, <1>2
  <2>2. old[i] = LaterOf(g, south)
    BY <1>6
  <2> HIDE DEF g
  <2>3. LaterOf(g, south).age = g.age + 1
    BY <1>3, <2>1, LaterFix
  <2>4. g.age + 1 < Old
    BY <2>1, RaceAssumption DEF RaceAssumption, FixSet
  <2>5. CameBefore(LaterOf(g, south), f)
    BY <2>1, NewBefore
  <2>6. Comes(Older(ages.newest), southSince \/ south, LaterOf(g, south))
    BY <1>3, <2>1, LaterComes
  <2> QED
    BY <2>2, <2>3, <2>4, <2>5, <2>6
<1>8. ASSUME NEW i \in 1 .. L, NEW j \in 1 .. L, j < i
      PROVE  CameBefore(old[j], old[i])
  <2>1. CameBefore(pending[j], pending[i])
    BY <1>2, <1>8
  <2>2. CameBefore(LaterOf(pending[j], south), LaterOf(pending[i], south))
    BY <1>1, <1>2, <1>3, <2>1, LaterBefore
  <2> QED
    BY <1>6, <2>2
<1>9. Len(old) = Len(pending)
  BY <1>6 DEF L
<1> QED
  BY <1>6, <1>7, <1>8, <1>9

\* The fix that is held up, later.
LEMMA LagLater ==
  ASSUME RaceInv, NEW to \in Waters, NEW south \in BOOLEAN, to \in South => south, lag # NoLag, lag.age < MaxLag,
         NEW f, f = [at |-> to, age |-> 0, south |-> FALSE]
  PROVE  LET h == LaterOf(lag, south)
         IN /\ h \in FixSet /\ h.age <= MaxLag /\ CameBefore(f, h)
            /\ Comes(Older(ages.newest), southSince \/ south, h)
            /\ \A i \in 1 .. Len(pending) :
                 pending[i].age < Old - 1 => CameBefore(LaterOf(pending[i], south), h)
<1>1. /\ lag \in FixSet /\ Comes(ages.newest, southSince, lag)
      /\ \A i \in 1 .. Len(pending) : CameBefore(pending[i], lag)
  BY DEF RaceInv, LagKept
<1>2. southSince \in BOOLEAN /\ ages.newest \in Never .. Old
  BY FixTypes
<1>3. \A i \in 1 .. Len(pending) : pending[i] \in FixSet
  BY FixTypes
<1>4. lag.age \in 0 .. Old /\ MaxLag \in Nat /\ MaxLag < Old /\ Old \in Nat
  BY <1>1, RaceAssumption DEF RaceAssumption, FixSet
<1>5. lag.age < Old - 1
  BY <1>4
<1> DEFINE h == LaterOf(lag, south)
<1>6. h \in FixSet /\ h.age = lag.age + 1
  BY <1>1, <1>2, <1>5, LaterFix
<1>7. CameBefore(f, h)
  BY <1>1, <1>5, NewBefore
<1>8. Comes(Older(ages.newest), southSince \/ south, h)
  BY <1>1, <1>2, <1>5, LaterComes
<1>9. \A i \in 1 .. Len(pending) : pending[i].age < Old - 1 => CameBefore(LaterOf(pending[i], south), h)
  BY <1>1, <1>2, <1>3, <1>5, LaterBefore
<1> HIDE DEF h
<1>10. h.age <= MaxLag
  BY <1>4, <1>6
<1> QED
  BY <1>6, <1>7, <1>8, <1>9, <1>10 DEF h

\* All the ages, one later.
LEMMA AgedAges ==
  ASSUME RaceInv
  PROVE  LET aged == [n \in DOMAIN ages |-> Older(ages[n])]
         IN aged \in AgeSet /\ aged.newest = Older(ages.newest) /\ aged.told = Older(ages.told)
<1>1. ages \in AgeSet
  BY DEF RaceInv, RaceTypes
<1>2. \A a \in Never .. Old : Older(a) \in Never .. Old
  BY RaceAssumption DEF RaceAssumption, Older, Never
<1> QED
  BY <1>1, <1>2 DEF AgeSet

\* The state a fix that the boat sends finds.
OlderAges == [n \in DOMAIN ages |-> Older(ages[n])]
SailedTo(south) == [EventState(OlderAges, marks) EXCEPT !.south = @ \/ south]
FixAt(to) == [at |-> to, age |-> 0, south |-> FALSE]
LongerSilent == IF silent > SilentGap THEN silent ELSE silent + 1

\* That state is a good one.
LEMMA SailedIsGood ==
  ASSUME RaceInv, NEW south \in BOOLEAN
  PROVE  /\ GoodState(SailedTo(south)) /\ SailedTo(south).course = marks
         /\ SailedTo(south).ages.newest = Older(ages.newest)
         /\ SailedTo(south).south = (southSince \/ south)
<1> DEFINE s2 == [EventState(OlderAges, marks) EXCEPT !.south = southSince \/ south]
<1>1. SailedTo(south) = s2
  BY DEF SailedTo, EventState
<1>2. OlderAges \in AgeSet /\ OlderAges.newest = Older(ages.newest) /\ OlderAges.told = Older(ages.told)
  BY AgedAges DEF OlderAges
<1>3. OlderAges.told = Never <=> ages.told = Never
  <2>1. ages.told \in Never .. Old
    BY FixTypes
  <2> QED
    BY <1>2, <2>1, RaceAssumption DEF RaceAssumption, Older, Never
<1>4. marks \in CourseOrNone /\ (southSince \/ south) \in BOOLEAN
  BY DEF RaceInv, RaceTypes
<1>5. GoodState(s2) /\ s2.course = marks /\ s2.ages = OlderAges /\ s2.south = (southSince \/ south)
  <2> DEFINE after == southSince \/ south
  <2>1. after \in BOOLEAN /\ (southSince => after)
    BY FixTypes
  <2> HIDE DEF after
  <2>2. StartsFrom(OlderAges, marks, after, [EventState(OlderAges, marks) EXCEPT !.south = after])
    BY <1>2, <1>3, <1>4, <2>1, StartIsGood
  <2> QED
    BY <2>2 DEF StartsFrom, after
<1> HIDE DEF s2
<1> QED
  BY <1>1, <1>2, <1>5

\* What Sail does, in those words.
SailsTo(to, fate) ==
  LET f == FixAt(to)
      south == to \in South
      old == [i \in 1 .. Len(pending) |-> LaterOf(pending[i], south)]
  IN /\ fate # "heard" => lag.age < MaxLag
     /\ fate = "heard" /\ marks = NoCourse => Len(pending) < MaxPending
     /\ \A i \in 1 .. Len(pending) : pending[i].age < Old - 1
     /\ boat' = to
     /\ lag' = IF fate = "held up" THEN f
               ELSE IF lag.age \in {Never, MaxLag} THEN NoLag ELSE LaterOf(lag, south)
     /\ silent' = IF fate = "heard" THEN 0 ELSE LongerSilent
     /\ Take(IF fate = "heard" THEN Heard(SailedTo(south), f, LongerSilent) ELSE SailedTo(south))
     /\ pending' = IF fate = "heard" /\ marks = NoCourse THEN Append(old, f) ELSE old
     /\ UNCHANGED <<marks, racing>>

\* The action, unfolded.
LEMMA SailSails ==
  ASSUME NEW to, NEW fate, Sail(to, fate)
  PROVE  SailsTo(to, fate)
BY Zenon DEF Sail, SailsTo, FixAt, LongerSilent, SailedTo, OlderAges, LaterOf

\* The boat sails on, and its fix is heard, lost or held up.
LEMMA SailStep ==
  ASSUME RaceInv, NEW to \in Waters, NEW fate, SailsTo(to, fate)
  PROVE  RaceInv'
<1> DEFINE f == FixAt(to)
           south == to \in South
           old == [i \in 1 .. Len(pending) |-> LaterOf(pending[i], south)]
           s == SailedTo(south)
           r == IF fate = "heard" THEN Heard(s, f, LongerSilent) ELSE s
           n == Older(ages.newest)
           went == southSince \/ south
<1>1. /\ fate # "heard" => lag.age < MaxLag
      /\ fate = "heard" /\ marks = NoCourse => Len(pending) < MaxPending
      /\ \A i \in 1 .. Len(pending) : pending[i].age < Old - 1
      /\ boat' = to
      /\ lag' = IF fate = "held up" THEN f
                ELSE IF lag.age \in {Never, MaxLag} THEN NoLag ELSE LaterOf(lag, south)
      /\ silent' = IF fate = "heard" THEN 0 ELSE LongerSilent
      /\ Take(r)
      /\ pending' = IF fate = "heard" /\ marks = NoCourse THEN Append(old, f) ELSE old
      /\ UNCHANGED <<marks, racing>>
  BY DEF SailsTo
<1>2. marks \in CourseOrNone /\ racing \in BOOLEAN
  BY DEF RaceInv, RaceTypes
<1>3. south \in BOOLEAN
  <2> HIDE DEF f, old, s, r, n, went
  <2> QED
    OBVIOUS
<1>o. old = [i \in 1 .. Len(pending) |-> LaterOf(pending[i], south)]
  OBVIOUS
<1>4. f = [at |-> to, age |-> 0, south |-> FALSE]
  BY DEF FixAt
<1>5. /\ f \in FixSet /\ f.age = 0 /\ f.age < Old /\ f.age <= MaxLag /\ Comes(n, went, f)
  BY <1>4, FixTypes, NewComes
<1>6. /\ GoodState(s) /\ s.course = marks /\ s.ages.newest = n /\ s.south = went
  BY <1>3, SailedIsGood
<1>s. to \in South => south
  OBVIOUS
<1> HIDE DEF s, f, south, old
<1>7. /\ old \in Seq(FixSet) /\ Len(old) = Len(pending)
      /\ \A i \in 1 .. Len(old) : old[i].age < Old /\ CameBefore(old[i], f) /\ Comes(n, went, old[i])
      /\ \A i, j \in 1 .. Len(old) : j < i => CameBefore(old[j], old[i])
  BY <1>o, <1>1, <1>3, <1>4, <1>s, WaitingLater
<1>8. /\ \A i \in 1 .. Len(old) : i \in 1 .. Len(pending) /\ old[i] = LaterOf(pending[i], south)
  BY <1>7, <1>o
<1> HIDE DEF n, went
\* The fix that is still held up, if it is not the new one.
<1>9. fate # "held up" =>
        \/ lag' = NoLag
        \/ /\ lag' \in FixSet /\ lag'.age <= MaxLag /\ CameBefore(f, lag') /\ Comes(n, went, lag')
           /\ \A i \in 1 .. Len(old) : CameBefore(old[i], lag')
  <2> SUFFICES ASSUME fate # "held up", lag' # NoLag
               PROVE  /\ lag' \in FixSet /\ lag'.age <= MaxLag /\ CameBefore(f, lag') /\ Comes(n, went, lag')
                      /\ \A i \in 1 .. Len(old) : CameBefore(old[i], lag')
    OBVIOUS
  <2>1. lag' = LaterOf(lag, south) /\ lag.age # Never /\ lag.age # MaxLag
    BY <1>1
  <2>2. lag # NoLag
    BY <2>1, NoLagIsNoFix
  <2>3. lag.age < MaxLag
    <3>1. lag \in FixSet /\ lag.age <= MaxLag
      BY <2>2 DEF RaceInv, LagKept
    <3>2. lag.age \in 0 .. Old /\ MaxLag \in Nat /\ Old \in Nat
      BY <3>1, Numbers
    <3>3. lag.age # MaxLag
      BY <2>1
    <3> QED
      BY Zenon, <3>1, <3>2, <3>3, Numbers, Younger
  <2> DEFINE h == LaterOf(lag, south)
  <2>4. /\ h \in FixSet /\ h.age <= MaxLag /\ CameBefore(f, h) /\ Comes(n, went, h)
        /\ \A i \in 1 .. Len(pending) : pending[i].age < Old - 1 => CameBefore(LaterOf(pending[i], south), h)
    BY <1>3, <1>4, <1>s, <2>2, <2>3, LagLater DEF n, went
  <2> HIDE DEF h
  <2>5. \A i \in 1 .. Len(old) : CameBefore(old[i], h)
    BY <1>1, <1>8, <2>4
  <2> QED
    BY <2>1, <2>4, <2>5 DEF h
\* What the base makes of the new fix, or that it never came.
<1>10. /\ GoodState(r)
       /\ fate # "heard" \/ marks = NoCourse => r.ages.newest = n /\ r.south = went
       /\ \A g \in FixSet : Comes(n, went, g) /\ CameBefore(f, g) => Comes(r.ages.newest, r.south, g)
  <2>1. CASE fate # "heard"
    <3>1. r = s
      BY <2>1
    <3> QED
      BY <1>6, <3>1
  <2>2. CASE fate = "heard"
    <3>1. r = Heard(s, f, LongerSilent)
      BY <2>2
    <3> HIDE DEF r
    <3>2. PassedOn(s, f, r) /\ (marks = NoCourse => Clears(s, r))
      BY <1>2, <1>5, <1>6, <3>1, HeardPasses
    <3> QED
      BY <1>6, <2>2, <3>2 DEF PassedOn, Clears
  <2> QED
    BY <2>1, <2>2
<1> HIDE DEF r
<1>11. /\ det' \in DetSet /\ ages' \in AgeSet /\ southSince' \in BOOLEAN
       /\ ages' = r.ages /\ southSince' = r.south
       /\ Told(det', ages') /\ WatchKept(det', southSince')
       /\ "false lap" \notin reported'
  BY <1>1, <1>10, TakeKeeps
<1>12. \A g \in FixSet : Comes(n, went, g) /\ CameBefore(f, g) => Comes(ages'.newest, southSince', g)
  BY <1>10, <1>11
<1>13. fate # "heard" \/ marks = NoCourse => ages'.newest = n /\ southSince' = went
  BY <1>10, <1>11
<1>14. /\ pending' \in Seq(FixSet) /\ Len(pending') <= MaxPending /\ PendingKept'
       /\ \A g \in FixSet : CameBefore(f, g) /\ (\A i \in 1 .. Len(old) : CameBefore(old[i], g))
                           => \A i \in 1 .. Len(pending') : CameBefore(pending'[i], g)
  <2>t. Len(pending) \in Nat /\ Len(pending) <= MaxPending /\ MaxPending \in Nat
    BY FixTypes, RaceAssumption DEF RaceInv, RaceTypes, RaceAssumption
  <2>1. CASE fate = "heard" /\ marks = NoCourse
    <3>1. pending' = Append(old, f) /\ marks' = NoCourse
      BY <1>1, <2>1
    <3>2. /\ pending' \in Seq(FixSet) /\ Len(pending') = Len(old) + 1
          /\ \A i \in 1 .. Len(pending') : pending'[i].age < Old /\ Comes(n, went, pending'[i])
          /\ \A i, j \in 1 .. Len(pending') : j < i => CameBefore(pending'[j], pending'[i])
          /\ \A g \in FixSet : CameBefore(f, g) /\ (\A i \in 1 .. Len(old) : CameBefore(old[i], g))
                              => \A i \in 1 .. Len(pending') : CameBefore(pending'[i], g)
      BY <1>5, <1>7, <3>1, OneMoreWaits
    <3>3. Len(pending') <= MaxPending
      BY <1>1, <1>7, <2>1, <2>t, <3>2
    <3>4. ages'.newest = n /\ southSince' = went
      BY <1>13, <2>1
    <3>5. PendingKept'
      BY <3>1, <3>2, <3>4 DEF PendingKept
    <3> QED
      BY <3>2, <3>3, <3>5
  <2>2. CASE ~(fate = "heard" /\ marks = NoCourse)
    <3>1. pending' = old /\ marks' = marks
      BY <1>1, <2>2
    <3>2. Len(pending') <= MaxPending
      BY <1>7, <2>t, <3>1
    <3>3. PendingKept'
      <4>1. CASE marks # NoCourse
        <5>1. Len(pending') = 0
          BY <1>7, <3>1, <4>1 DEF RaceInv, PendingKept
        <5> QED
          <6>1. ~\E i : i \in 1 .. Len(pending')
            BY <5>1
          <6> QED
            BY <5>1, <6>1 DEF PendingKept
      <4>2. CASE marks = NoCourse
        <5>1. ages'.newest = n /\ southSince' = went /\ marks' = NoCourse
          BY <1>13, <2>2, <3>1, <4>2
        <5> QED
          BY <1>7, <3>1, <5>1 DEF PendingKept
      <4> QED
        BY <4>1, <4>2
    <3> QED
      BY <1>7, <3>1, <3>2, <3>3
  <2> QED
    BY <2>1, <2>2
<1>15. LagKept'
  <2>1. CASE fate = "held up"
    <3>1. lag' = f /\ pending' = old /\ ages'.newest = n /\ southSince' = went
      BY <1>1, <1>13, <2>1
    <3> QED
      BY <1>5, <1>7, <3>1 DEF LagKept
  <2>2. CASE fate # "held up"
    <3>1. CASE lag' = NoLag
      BY <3>1 DEF LagKept
    <3>2. CASE lag' # NoLag
      <4>1. /\ lag' \in FixSet /\ lag'.age <= MaxLag /\ CameBefore(f, lag') /\ Comes(n, went, lag')
            /\ \A i \in 1 .. Len(old) : CameBefore(old[i], lag')
        BY <1>9, <2>2, <3>2
      <4>2. Comes(ages'.newest, southSince', lag')
        BY <1>12, <4>1
      <4>3. \A i \in 1 .. Len(pending') : CameBefore(pending'[i], lag')
        BY <1>14, <4>1
      <4> QED
        BY <4>1, <4>2, <4>3 DEF LagKept
    <3> QED
      BY <3>1, <3>2
  <2> QED
    BY <2>1, <2>2
<1>16. RaceTypes'
  <2>1. silent' \in 0 .. SilentGap + 1
    <3>1. silent \in 0 .. SilentGap + 1
      BY DEF RaceInv, RaceTypes
    <3>2. SilentGap \in Nat
      BY Numbers
    <3>3. silent' \in {0, LongerSilent}
      BY <1>1
    <3>4. LongerSilent \in 0 .. SilentGap + 1
      BY <3>1, <3>2 DEF LongerSilent
    <3> QED
      BY <3>2, <3>3, <3>4
  <2>2. lag' \in FixSet \cup {NoLag}
    BY <1>5, <1>9, <1>1
  <2>3. boat' \in Waters /\ marks' \in CourseOrNone /\ racing' \in BOOLEAN
    BY <1>1, <1>2
  <2> QED
    BY <1>11, <1>14, <2>1, <2>2, <2>3 DEF RaceTypes
<1> QED
  BY <1>11, <1>14, <1>15, <1>16 DEF RaceInv

\* The invariant is kept by every step.
LEMMA RaceStep == RaceInv /\ [RaceNext]_raceVars => RaceInv'
<1> SUFFICES ASSUME RaceInv, [RaceNext]_raceVars
             PROVE  RaceInv'
  OBVIOUS
<1>1. ASSUME NEW to \in Waters, NEW fate \in {"heard", "lost", "held up"}, Sail(to, fate)
      PROVE  RaceInv'
  BY <1>1, SailSails, SailStep
<1>2. CASE ComesLate
  BY <1>2, LateStep
<1>3. ASSUME NEW c \in DOMAIN Courses, Resolve(c)
      PROVE  RaceInv'
  BY <1>3, ResolveStep DEF Chosen
<1>4. CASE SelectRegatta \/ PingFleet \/ StartOrStop \/ \E c \in DOMAIN Courses : Edit(c)
  BY <1>4, ClearingSteps DEF Chosen
<1>5. CASE UNCHANGED raceVars
  BY <1>5 DEF raceVars, RaceInv, RaceTypes, PendingKept, LagKept
<1> QED
  BY <1>1, <1>2, <1>3, <1>4, <1>5 DEF RaceNext

\* No crossing of the finish line is counted as two laps, or as a lap and a foul, for any courses,
\* places and bounds: fixes may be lost, late or held until the marks are known, and marks moved.
THEOREM LapsAreTrue == RaceSpec => []NoFalseLap
<1>1. RaceInv => NoFalseLap
  BY DEF RaceInv, NoFalseLap
<1> QED
  BY RaceInitInv, RaceStep, <1>1, PTL DEF RaceSpec

\* The type invariant of RaceEvents.
THEOREM RaceTypeCorrect == RaceSpec => []RaceTypeOK
<1>1. RaceInv => RaceTypeOK
  <2> SUFFICES ASSUME RaceInv
               PROVE  RaceTypeOK
    OBVIOUS
  <2>1. RaceTypes
    BY DEF RaceInv
  <2>2. /\ {det.built, det.grid} \subseteq DOMAIN Courses \cup {NoCourse}
        /\ det.prev \in Waters \cup {NoPlace} /\ det.sweep \in 0 .. SweepMin
        /\ {det.near, det.onGrid, det.held} \subseteq BOOLEAN
    BY <2>1 DEF RaceTypes, DetSet, CourseOrNone, Chosen
  <2>3. \A n \in DOMAIN ages : ages[n] \in Never .. Old
    BY <2>1 DEF RaceTypes, AgeSet
  <2>4. \A i \in 1 .. Len(pending) : pending[i].at \in Waters /\ pending[i].age \in 0 .. Old
    BY FixTypes DEF FixSet
  <2>5. lag.age \in Never .. MaxLag
    <3>1. CASE lag = NoLag
      BY <3>1, NoLagIsNoFix, RaceAssumption DEF RaceAssumption, Never
    <3>2. CASE lag # NoLag
      <4>1. lag \in FixSet /\ lag.age <= MaxLag
        BY <3>2 DEF RaceInv, LagKept
      <4> QED
        BY <4>1, Numbers DEF Never
    <3> QED
      BY <3>1, <3>2
  <2> QED
    BY <2>1, <2>2, <2>3, <2>4, <2>5 DEF RaceTypeOK, RaceTypes, CourseOrNone, Chosen
<1> QED
  BY RaceInitInv, RaceStep, <1>1, PTL DEF RaceSpec

\* Each time the base hears a boat on the grid that does not race, RegattaUp has been told of it
\* within the resend interval, whatever was held back or forgotten meanwhile.
THEOREM GridIsTold == RaceSpec => OnGridTold
<1>1. ASSUME RaceInv, RaceInv', det'.onGrid, ~racing, marks # NoCourse, Sail(boat', "heard")
      PROVE  ages'.told \in 0 .. Resend - 1
  <2> DEFINE to == boat'
             f == FixAt(to)
             south == to \in South
             s == SailedTo(south)
             r == Heard(s, f, LongerSilent)
  <2>1. SailsTo(to, "heard")
    BY Zenon, <1>1 DEF Sail, SailsTo, FixAt, LongerSilent, SailedTo, OlderAges, LaterOf
  <2>2. Take(r)
    BY <2>1 DEF SailsTo
  <2>3. to \in Waters /\ marks \in Chosen /\ racing = FALSE
    BY <1>1 DEF RaceInv, RaceTypes, CourseOrNone
  <2>4. south \in BOOLEAN
    OBVIOUS
  <2> HIDE DEF to, south
  <2>5. GoodState(s) /\ s.course = marks
    BY <1>1, <2>4, SailedIsGood
  <2>6. f \in FixSet /\ f.age = 0
    <3>1. f = [at |-> to, age |-> 0, south |-> FALSE]
      BY DEF FixAt
    <3> QED
      BY <1>1, <2>3, <3>1, NewComes, FixTypes
  <2>7. det' = r.det /\ ages' = r.ages
    BY <2>2 DEF Take
  <2> HIDE DEF s, f
  <2>8. r.det.onGrid
    BY <1>1, <2>7
  <2>9. r.ages.told \in 0 .. Resend - 1
    BY <2>3, <2>5, <2>6, <2>8, HeardTells
  <2> QED
    BY <2>7, <2>9
<1>2. RaceInv /\ RaceInv' /\ [RaceNext]_raceVars =>
        [det'.onGrid /\ ~racing /\ marks # NoCourse /\ Sail(boat', "heard")
           => ages'.told \in 0 .. Resend - 1]_raceVars
  BY <1>1
<1> QED
  BY RaceInitInv, RaceStep, <1>2, PTL DEF RaceSpec, OnGridTold
=============================================================================
