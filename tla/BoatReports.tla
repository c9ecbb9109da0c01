------------------------------ MODULE BoatReports ------------------------------
(***************************************************************************)
(* From a fix to a frame: what a boat does with each fix of its GPS        *)
(* (handlePvt, queueFixForTx, flushPendingBatch and sendFixes of           *)
(* src/src/boatAgent.js), with the distance gate (distanceGate.js), the    *)
(* fixes around a race event (eventBoost.js), the pacing of a boat that is *)
(* parked or has no slot (ParkedReporter and JoinBackoff of slotTable.js)  *)
(* and the thinning of a cycle's fixes (thinFixes.js).                     *)
(*                                                                         *)
(* A fix is its number, which is also the time. TxQueue models when frames *)
(* go out; here a frame goes at once or waits, and one that waits goes,    *)
(* is refused by the radio or is dropped at any time. A handler reads and  *)
(* writes most of the pipeline, so that is one record, and the parts of a  *)
(* handler are operators from such records to sets of them.                *)
(***************************************************************************)
EXTENDS Integers, Sequences, FiniteSets, SequencesExt

CONSTANTS
  MaxFix,      \* bound: the number of fixes
  Heartbeat,   \* a boat that stays still reports this often (TX_INTERVAL_S)
  BatchSize,   \* fixes of a batch outside slots (txBatchSize), at least 2
  PerFrame,    \* fixes of a frame sent in a slot (maxFixesPerFrame)
  Rate,        \* fixes of a cycle sent far from a mark (byRate, bySlot)
  FrameLimit,  \* frames the scheduler holds (maxQueue)
  BoostFor,    \* every fix passes for so long after an event (windowMs)
  BackfillAge, \* BACKFILL_MAX_AGE_MS
  ParkedEvery, \* intervalMs of ParkedReporter
  Backoff      \* the steps of the two backoffs: a function from their names to sequences

ASSUME ReportsAssumption ==
  /\ {MaxFix, BatchSize, PerFrame, Rate, FrameLimit, ParkedEvery} \subseteq Nat \ {0}
  /\ {Heartbeat, BoostFor, BackfillAge} \subseteq Nat
  /\ DOMAIN Backoff = {"join", "moving"}
  /\ \A b \in DOMAIN Backoff : Backoff[b] \in Seq(Nat) /\ Backoff[b] # <<>>

VARIABLES
  now,         \* the newest fix (lastPvt)
  since,       \* the fix since which the boat is where it is, within TX_DISTANCE_M
  pipe,        \* what is on its way, see PipeInit
  pacer,       \* the pacers of the boat, see PacerInit
  urgentFor,   \* how long after this fix all fixes pass (urgentUntil of EventBoost)
  place,       \* what the boat is to the slot table, see Places
  asleep,      \* sleeper.isSleeping()
  announce,    \* announceNextFix
  newest       \* the newest fix the radio took

reportVars == <<now, since, pipe, pacer, urgentFor, place, asleep, announce, newest>>

NoFix == 0

\* "free": no bursts are heard; "lost": they are no longer heard, and the scheduler has
\* still to say so; with bursts: in a slot of its own, sharing the join slots, parked.
Places  == {"free", "lost", "slot", "join", "parked"}
Aligned == place \in {"slot", "join", "parked"}

PipeInit ==
  [ref      |-> NoFix,  \* ref of DistanceGate
   lastSent |-> NoFix,  \* lastSent of DistanceGate
   batch    |-> <<>>,   \* pendingBatch
   waiting  |-> <<>>,   \* waitingFixes
   frames   |-> <<>>]   \* the frames the scheduler holds

PacerInit ==
  [parked |-> [in |-> 0, first |-> FALSE, repeats |-> 0],
   join   |-> [in |-> 0, step |-> 1],
   moving |-> [in |-> 0, step |-> 1]]

-----------------------------------------------------------------------------
(* The distance gate.                                                       *)

Cleared(p, t, still) ==
  \/ p.ref = NoFix
  \/ p.ref < still
  \/ Heartbeat > 0 /\ t - p.ref >= Heartbeat

\* Mutant of Failed: a frame that failed leaves the gate as it is.
FailedQuietly(p) == p

Failed(p) == [p EXCEPT !.ref = p.lastSent]

-----------------------------------------------------------------------------
(* Pacing (sendPacer). A boat under way near a mark is not paced.           *)

Pacers(under, near, urgent) ==
  IF urgent THEN {}
  ELSE IF place = "parked" THEN {"parked"}
  ELSE IF place = "join" THEN (IF ~under THEN {"join"} ELSE IF near THEN {} ELSE {"moving"})
  ELSE {}

WantsRepeat(pace) == pace.parked.first /\ pace.parked.repeats > 0 /\ pace.parked.in = 0

\* sent() of ParkedReporter and of JoinBackoff; the jitter is left out.
ParkedSent(r) ==
  IF ~r.first THEN [r EXCEPT !.first = TRUE,
                             !.in = IF r.repeats > 0 THEN 1 ELSE ParkedEvery]
  ELSE [r EXCEPT !.in = ParkedEvery, !.repeats = IF @ > 0 THEN @ - 1 ELSE 0]

BackoffSent(name, b) ==
  [in   |-> Backoff[name][b.step],
   step |-> IF b.step < Len(Backoff[name]) THEN b.step + 1 ELSE b.step]

PacerSent(pace, name) ==
  [pace EXCEPT ![name] = IF name = "parked" THEN ParkedSent(@) ELSE BackoffSent(name, @)]

-----------------------------------------------------------------------------
(* Frames.                                                                  *)

Newer(n, fs) == IF Last(fs) > n THEN Last(fs) ELSE n

\* Mutant of Sent: one frame more is held than there is room for.
SentOneMore(s, fs, clear, radio) ==
  IF s.pipe.frames = <<>> /\ clear
  THEN IF radio /\ ~asleep
       THEN [s EXCEPT !.newest = Newer(@, fs), !.lastTx = Last(fs)]
       ELSE [s EXCEPT !.pipe = Failed(@)]
  ELSE LET p == IF Len(s.pipe.frames) <= FrameLimit THEN s.pipe
                ELSE Failed([s.pipe EXCEPT !.frames = Tail(@)])
       IN [s EXCEPT !.pipe = [p EXCEPT !.frames = Append(@, fs)], !.lastTx = Last(fs)]

\* What the radio and the scheduler make of a frame of the fixes fs handed to them (send):
\* it goes at once if nothing waits and the way is clear, and is refused if the radio is
\* not there. Only a frame that waits is known to the gate when it goes (frameLastFix is
\* set after send has returned).
Sent(s, fs, clear, radio) ==
  IF s.pipe.frames = <<>> /\ clear
  THEN IF radio /\ ~asleep
       THEN [s EXCEPT !.newest = Newer(@, fs), !.lastTx = Last(fs)]
       ELSE [s EXCEPT !.pipe = Failed(@)]
  ELSE LET p == IF Len(s.pipe.frames) < FrameLimit THEN s.pipe
                ELSE Failed([s.pipe EXCEPT !.frames = Tail(@)])
       IN [s EXCEPT !.pipe = [p EXCEPT !.frames = Append(@, fs)], !.lastTx = Last(fs)]

Batches(fs, n) ==
  [i \in 1 .. (Len(fs) + n - 1) \div n |->
     SubSeq(fs, (i - 1) * n + 1, IF i * n < Len(fs) THEN i * n ELSE Len(fs))]

\* sendFixes for each chunk of fs.
SendAll(s, fs, n, clear, radio) ==
  LET chunks == Batches(fs, n)
      after[i \in 0 .. Len(chunks)] == IF i = 0 THEN s ELSE Sent(after[i - 1], chunks[i], clear, radio)
  IN after[Len(chunks)]

-----------------------------------------------------------------------------
(* Thinning. Which fixes lie on a straight line is left open; the newest    *)
(* stays, and so does the oldest unless the last cycle's is its neighbour.  *)

\* The members of fs at the places keep, in their order.
Picked(fs, keep) == [i \in 1 .. Cardinality(keep) |->
                       fs[CHOOSE k \in keep : Cardinality({j \in keep : j < k}) = i - 1]]

Thinned(fs, cap) ==
  IF Len(fs) <= cap THEN {fs}
  ELSE {Picked(fs, keep) : keep \in
          {k \in SUBSET (1 .. Len(fs)) :
             Len(fs) \in k /\ (Cardinality(k) = cap \/ (cap = 1 /\ k = {1, Len(fs)}))}}

\* thinBackfill: turns are kept over straight runs, the ends always.
Backfills(held) ==
  IF Len(held) < 3 THEN {held}
  ELSE {Picked(held, keep) : keep \in {k \in SUBSET (1 .. Len(held)) : {1, Len(held)} \subseteq k}}

\* holdWhileWaiting. The code holds a fix once more at every opening it waits through.
Held(waiting, fs) ==
  LET all == waiting \o Picked(fs, {i \in DOMAIN fs : waiting = <<>> \/ fs[i] > Last(waiting)})
  IN Picked(all, {i \in DOMAIN all : all[i] >= Last(all) - BackfillAge})

-----------------------------------------------------------------------------
(* The parts of the handlers: from what there is to what there may be.      *)

\* lastTx: lastTxTime, which matters only within the handling of a fix.
PipeState(p, pace) == [pipe |-> p, pacer |-> pace, newest |-> newest, lastTx |-> NoFix]

\* s with the fixes b in the batch and w those that wait.
Holding(s, b, w) == [s EXCEPT !.pipe = [@ EXCEPT !.batch = b, !.waiting = w]]

\* flushPendingBatch; by: the pacer that applies, if any.
Flushed(s, forSlot, final, by, near, clear, radio) ==
  LET p    == s.pipe
      fs   == p.batch
      wait == by \cap {"join", "moving"} # {}
      name == CHOOSE b \in by : TRUE
      old  == Picked(p.waiting, {i \in DOMAIN p.waiting : p.waiting[i] \in Head(fs) - BackfillAge .. Head(fs) - 1})
      perFrame == IF forSlot THEN PerFrame ELSE BatchSize
      kept == IF ~wait THEN <<>> ELSE p.waiting
  IN CASE fs = <<>> \/ asleep -> {Holding(s, <<>>, p.waiting)}
       [] fs # <<>> /\ ~asleep /\ by # {} /\ s.pacer[name].in > 0 ->
            {Holding(s, <<Last(fs)>>, IF wait THEN Held(kept, fs) ELSE <<>>)}
       [] fs # <<>> /\ ~asleep /\ by # {} /\ s.pacer[name].in = 0 ->
            LET front == Front(fs)
                paced == [s EXCEPT !.pacer = PacerSent(@, name)]
            IN {SendAll(Holding(paced, <<>>, IF wait /\ front # <<>> THEN Held(kept, front) ELSE kept),
                        <<Last(fs)>>, perFrame, clear, radio)}
       [] OTHER ->
            LET some  == forSlot /\ ~final /\ old # <<>>
                whole == near \/ some
                all   == {(IF some THEN b ELSE <<>>) \o fs : b \in Backfills(old)}
                out   == UNION {IF forSlot /\ ~final /\ ~whole THEN Thinned(a, Rate) ELSE {a} : a \in all}
            IN {SendAll(Holding(s, <<>>, <<>>), o, perFrame, clear, radio) : o \in out}

\* queueFixForTx for the newest fix t.
Queued(s, t, by, near, clear, radio) ==
  LET p == s.pipe
      b == Append(p.batch, t)
      hold == by \cap {"join", "moving"} # {} /\ p.batch # <<>>
  IN IF by # {}
     THEN {Holding(s, <<t>>, IF hold THEN Held(p.waiting, p.batch) ELSE p.waiting)}
     ELSE IF \/ ~Aligned /\ Len(b) >= BatchSize
             \/ Heartbeat > 0 /\ t - Head(b) >= Heartbeat
     THEN Flushed(Holding(s, b, p.waiting), FALSE, FALSE, by, near, clear, radio)
     ELSE {Holding(s, b, p.waiting)}

\* transmitFix, for the newest fix t when a fresh fix is to be announced.
Transmitted(s, t, by, clear, radio) ==
  LET name == CHOOSE b \in by : TRUE
  IN IF asleep THEN {s}
     ELSE IF by # {} /\ s.pacer[name].in > 0 THEN {[s EXCEPT !.pipe = Failed(@)]}
     ELSE {Sent(IF by = {} THEN s ELSE [s EXCEPT !.pacer = PacerSent(@, name)],
                <<t>>, clear, radio)}

\* The fixes just before an event go back into the batch (boost.before).
Boosted(p, t) ==
  LET from == IF p.batch = <<>> THEN 0 ELSE Last(p.batch)
      before == <<t - 2, t - 1>>
  IN [p EXCEPT !.batch = @ \o Picked(before, {i \in DOMAIN before : before[i] > from})]

Settle(s) == /\ pipe' = s.pipe
             /\ pacer' = s.pacer
             /\ newest' = s.newest

Tick(pace) == [n \in DOMAIN pace |-> [pace[n] EXCEPT !.in = IF @ > 0 THEN @ - 1 ELSE 0]]

-----------------------------------------------------------------------------
ReportInit ==
  /\ now = 0
  /\ since = 0
  /\ pipe = PipeInit
  /\ pacer = PacerInit
  /\ urgentFor = 0
  /\ place = "free"
  /\ asleep = FALSE
  /\ announce = FALSE
  /\ newest = NoFix

\* onGpsFix and handlePvt: the boat moved a cell or stayed, and crossed a line or did not.
Fix(under, event, near, clear, radio) ==
  LET t == now + 1
      still == IF under \/ now = 0 THEN t ELSE since
      urgent == event \/ urgentFor > 0
      by == Pacers(under, near, urgent)
      paced == Tick(pacer)
      p1 == IF event THEN Boosted(pipe, t) ELSE pipe
      clears == urgent \/ Cleared(p1, t, still) \/ (place = "parked" /\ WantsRepeat(paced))
      after == IF ~clears THEN {PipeState(p1, paced)}
               ELSE Queued(PipeState([p1 EXCEPT !.ref = t], paced), t, by, near, clear, radio)
  IN /\ t <= MaxFix
     /\ event => under /\ t > 2
     /\ now' = t
     /\ since' = still
     /\ urgentFor' = IF event THEN BoostFor ELSE IF urgentFor > 0 THEN urgentFor - 1 ELSE 0
     /\ \E s \in after :
          \E s2 \in IF ~announce \/ asleep THEN {s}
                    ELSE IF s.pipe.batch # <<>>
                    THEN Flushed(s, FALSE, FALSE, by, near, clear, radio)
                    ELSE IF s.lastTx # t THEN Transmitted(s, t, by, clear, radio) ELSE {s} :
            Settle(s2)
     /\ announce' = (announce /\ asleep)
     /\ UNCHANGED <<place, asleep>>

\* The scheduler's flush: at the opening of the boat's slot, and once when it has none any more.
SlotFlush(near, clear, radio) ==
  /\ Aligned \/ place = "lost"
  /\ pipe.batch # <<>>
  /\ LET by == Pacers(since = now, near, urgentFor > 0)
     IN \E s \in Flushed(PipeState(pipe, pacer), TRUE, FALSE, by, near, clear, radio) : Settle(s)
  /\ place' = IF place = "lost" THEN "free" ELSE place
  /\ UNCHANGED <<now, since, urgentFor, asleep, announce>>

\* The scheduler is done with the frame it held longest: it went (onSent), or was refused,
\* as by a radio that sleeps, or was too old (onDropped).
FrameDone(went) ==
  /\ pipe.frames # <<>>
  /\ went => ~asleep
  /\ LET f == Head(pipe.frames)
         p == [pipe EXCEPT !.frames = Tail(@)]
     IN IF went THEN pipe' = [p EXCEPT !.lastSent = Last(f)] /\ newest' = Newer(newest, f)
                ELSE pipe' = Failed(p) /\ UNCHANGED newest
  /\ UNCHANGED <<now, since, pacer, urgentFor, place, asleep, announce>>

\* The base's table, the zone and the bursts put the boat elsewhere: parked
\* (updateParked), in a slot (onAssigned), among those that wait for one, or on its own.
Move(to) ==
  /\ to # place
  /\ CASE to = "lost" -> Aligned
       [] to = "free" -> FALSE
       [] OTHER -> place # "lost"
  /\ place' = to
  /\ pacer' = CASE to = "parked" -> [pacer EXCEPT !.parked = [in |-> 1, first |-> FALSE, repeats |-> 1]]
                [] to = "slot" -> PacerInit
                [] OTHER -> [pacer EXCEPT !.parked = PacerInit.parked]
  /\ UNCHANGED <<now, since, pipe, urgentFor, asleep, announce, newest>>

\* Radio sleep: what was waiting is dropped, and a fresh fix is announced after waking.
FallAsleep ==
  /\ ~asleep
  /\ asleep' = TRUE
  /\ announce' = FALSE
  /\ pipe' = [pipe EXCEPT !.batch = <<>>]
  /\ UNCHANGED <<now, since, pacer, urgentFor, place, newest>>

WakeUp ==
  /\ asleep
  /\ asleep' = FALSE
  /\ announce' = TRUE
  /\ UNCHANGED <<now, since, pipe, pacer, urgentFor, place, newest>>

\* exitAfterFlush: the last fixes and the frames held go out, and the boat starts again.
Exit(radio) ==
  /\ now > 0
  /\ \E s \in Flushed(PipeState(pipe, pacer), TRUE, TRUE, {}, FALSE, FALSE, radio) :
       newest' = IF radio /\ ~asleep /\ s.pipe.frames # <<>>
                 THEN Newer(s.newest, Last(s.pipe.frames)) ELSE s.newest
  /\ pipe' = PipeInit
  /\ pacer' = PacerInit
  /\ urgentFor' = 0
  /\ place' = "free"
  /\ asleep' = FALSE
  /\ announce' = FALSE
  /\ UNCHANGED <<now, since>>

ReportNext ==
  \/ \E under, event, near, clear, radio \in BOOLEAN : Fix(under, event, near, clear, radio)
  \/ \E near, clear, radio \in BOOLEAN : SlotFlush(near, clear, radio)
  \/ \E went \in BOOLEAN : FrameDone(went)
  \/ \E to \in Places : Move(to)
  \/ FallAsleep
  \/ WakeUp
  \/ \E radio \in BOOLEAN : Exit(radio)

ReportSpec == ReportInit /\ [][ReportNext]_reportVars

-----------------------------------------------------------------------------
Fixes == 1 .. MaxFix

ReportTypeOK ==
  /\ now \in 0 .. MaxFix
  /\ {since, newest, pipe.ref, pipe.lastSent} \subseteq 0 .. now
  /\ pipe.batch \in Seq(Fixes) /\ pipe.waiting \in Seq(Fixes)
  /\ pipe.frames \in Seq(Seq(Fixes)) /\ Len(pipe.frames) <= FrameLimit
  /\ \A n \in DOMAIN pacer : pacer[n].in \in Nat
  /\ urgentFor \in 0 .. BoostFor
  /\ place \in Places
  /\ {asleep, announce} \subseteq BOOLEAN

\* The gate counts no fix as reported that was lost on the way: its reference or a newer
\* fix went out or still waits, unless the boat sleeps or has yet to announce itself.
OnItsWay == {newest} \cup ToSet(pipe.batch) \cup UNION {ToSet(f) : f \in ToSet(pipe.frames)}
GateHonest ==
  \/ \E f \in OnItsWay : f >= pipe.ref
  \/ asleep \/ announce

=============================================================================
