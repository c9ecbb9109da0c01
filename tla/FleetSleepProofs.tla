---------------------------- MODULE FleetSleepProofs ----------------------------
(***************************************************************************)
(* The radio sleep mode of any fleet: the types of its state, that no      *)
(* left-over of a sleep command reaches a rover after it was woken, and    *)
(* that a wake gives every rover it names two chances, where the base's    *)
(* frames go out at once.                                                  *)
(***************************************************************************)
EXTENDS FleetSleep, TLAPS

-------------------------------------------------------------------------------
(* Types.                                                                  *)

\* TypeOK, with what it takes to keep it: a wake that is not yet due for its next frame has time
\* left, and a frame that tells rovers to sleep names a cycle.
SleepTypes ==
  /\ TypeOK
  /\ job.running /\ job.due = 1 => job.left > 0
  /\ \A i \in 1 .. Len(queue) : queue[i].action = "sleep" => queue[i].cycle \in Cycles

LEMMA JobsAreTyped ==
  ASSUME NEW m \in Nat
  PROVE  NoJob \in [ids : SUBSET Rovers, left : 0 .. m + Listen + Margin, due : 0 .. 1,
                    heard : SUBSET Rovers, running : BOOLEAN]
BY FleetSleepAssumption DEF NoJob

\* What joins the queue is all that is new in it.
LEMMA SubmitKeeps ==
  ASSUME queue \in Seq(FrameSet), Len(queue) <= MaxQueue,
         \A i \in 1 .. Len(queue) : queue[i].action = "sleep" => queue[i].cycle \in Cycles,
         NEW f \in FrameSet, f.action = "sleep" => f.cycle \in Cycles, Submit(f)
  PROVE  /\ queue' \in Seq(FrameSet) /\ Len(queue') <= MaxQueue
         /\ \A i \in 1 .. Len(queue') : queue'[i].action = "sleep" => queue'[i].cycle \in Cycles
<1> DEFINE q == IF Len(queue) < MaxQueue THEN queue ELSE Tail(queue)
<1>1. MaxQueue \in Nat \ {0}
  BY FleetSleepAssumption
<1>2. q \in Seq(FrameSet) /\ Len(q) < MaxQueue
      /\ \A i \in 1 .. Len(q) : q[i].action = "sleep" => q[i].cycle \in Cycles
  <2>1. CASE Len(queue) < MaxQueue
    BY <2>1
  <2>2. CASE ~(Len(queue) < MaxQueue)
    <3>1. queue # <<>>
      BY <1>1, <2>2
    <3>2. Tail(queue) \in Seq(FrameSet) /\ Len(Tail(queue)) = Len(queue) - 1
          /\ \A i \in 1 .. Len(queue) - 1 : Tail(queue)[i] = queue[i + 1]
      BY <3>1
    <3> QED BY <1>1, <2>2, <3>1, <3>2
  <2> QED BY <2>1, <2>2
<1>3. queue' = Append(q, f)
  BY DEF Submit
<1> HIDE DEF q
<1>4. queue' \in Seq(FrameSet) /\ Len(queue') = Len(q) + 1
      /\ \A i \in 1 .. Len(q) + 1 : queue'[i] = IF i <= Len(q) THEN q[i] ELSE f
  BY <1>2, <1>3
<1>5. Len(queue') <= MaxQueue
  BY <1>1, <1>2, <1>4
<1> QED BY <1>2, <1>4, <1>5

LEMMA TypesStart == Init => SleepTypes
<1> SUFFICES ASSUME Init PROVE SleepTypes
  OBVIOUS
<1>1. DefaultCycle \in Nat
  BY FleetSleepAssumption
<1>2. job \in [ids : SUBSET Rovers, left : 0 .. maxCycle + Listen + Margin, due : 0 .. 1,
               heard : SUBSET Rovers, running : BOOLEAN]
  BY <1>1, JobsAreTyped DEF Init
<1>3. TypeOK
  BY <1>1, <1>2, FleetSleepAssumption DEF Init, TypeOK, NotAsleep, NoFrame
<1> QED BY <1>3 DEF Init, SleepTypes, NoJob

LEMMA TypesStep ==
  ASSUME SleepTypes, [Next]_vars PROVE SleepTypes'
<1> USE DEF SleepTypes
<1> DEFINE JobSet == [ids : SUBSET Rovers, left : 0 .. maxCycle + Listen + Margin, due : 0 .. 1,
                      heard : SUBSET Rovers, running : BOOLEAN]
<1>0. maxCycle \in Nat /\ Listen \in Nat \ {0} /\ Margin \in Nat /\ DefaultCycle \in Nat /\ Cycles \subseteq Nat
      /\ SleepRepeats \in Nat \ {0} /\ SlotPeriod \in Nat \ {0} /\ MaxQueue \in Nat \ {0} /\ Transit \in Nat
      /\ Grace \in Nat
  <2>1. maxCycle \in Cycles \cup {DefaultCycle} /\ Cycles \subseteq Nat \ {0} /\ DefaultCycle \in Nat \ {0}
    BY FleetSleepAssumption DEF TypeOK
  <2>2. Cycles \subseteq Nat
    BY <2>1
  <2>3. maxCycle \in Nat
    BY <2>1, <2>2
  <2> QED BY <2>2, <2>3, FleetSleepAssumption
<1>1. ASSUME NEW S \in SUBSET Rovers, Transmit(S) PROVE SleepTypes'
  <2>1. queue # <<>> /\ queue' = Tail(queue) /\ Head(queue) \in FrameSet
        /\ (Head(queue).action = "sleep" => Head(queue).cycle \in Cycles)
    BY <1>1 DEF Transmit, TypeOK
  <2>2. queue' \in Seq(FrameSet) /\ Len(queue') <= MaxQueue
        /\ \A i \in 1 .. Len(queue') : queue'[i].action = "sleep" => queue'[i].cycle \in Cycles
    <3>1. queue' \in Seq(FrameSet) /\ Len(queue') = Len(queue) - 1
          /\ \A i \in 1 .. Len(queue) - 1 : queue'[i] = queue[i + 1]
      BY <2>1 DEF TypeOK
    <3>2. Len(queue) \in Nat
      BY DEF TypeOK
    <3>3. \A i \in 1 .. Len(queue') : queue'[i].action = "sleep" => queue'[i].cycle \in Cycles
      <4>1. \A i \in 1 .. Len(queue') : i + 1 \in 1 .. Len(queue) /\ queue'[i] = queue[i + 1]
        BY <3>1, <3>2
      <4> QED BY <4>1
    <3>4. Len(queue') <= MaxQueue
      BY <1>0, <3>1, <3>2 DEF TypeOK
    <3> QED BY <3>1, <3>3, <3>4
  <2> DEFINE f      == Head(queue)
             sleeps == {b \in S : Names(f.ids, b) /\ f.action = "sleep"}
             wakes  == {b \in S : Names(f.ids, b) /\ f.action = "wake"}
  <2>3. /\ state' = [b \in Rovers |-> IF b \in sleeps THEN "asleep" ELSE IF b \in wakes THEN "awake" ELSE state[b]]
        /\ cycle' = [b \in Rovers |-> IF b \in sleeps THEN f.cycle ELSE cycle[b]]
        /\ timer' = [b \in Rovers |-> IF b \in sleeps THEN f.cycle ELSE IF b \in wakes THEN 0 ELSE timer[b]]
        /\ UNCHANGED <<believed, known, maxCycle, job, repeats, phase, sending>>
    BY <1>1 DEF Transmit
  <2>4. \A b \in sleeps : f.cycle \in Cycles /\ f.cycle \in Nat
    BY <1>0, <2>1
  <2> HIDE DEF sleeps, wakes, f
  <2>5. /\ state' \in [Rovers -> {"awake", "asleep", "listening"}]
        /\ cycle' \in [Rovers -> Cycles \cup {DefaultCycle}]
        /\ timer' \in [Rovers -> Nat]
        /\ \A b \in Rovers : state'[b] = "awake" => timer'[b] = 0
    BY <2>3, <2>4 DEF TypeOK
  <2> QED BY <2>2, <2>3, <2>5 DEF TypeOK
<1>2. ASSUME NEW ids \in SUBSET Rovers, Wake(ids) PROVE SleepTypes'
  <2>1. Submit(WakeFrame(ids)) /\ WakeFrame(ids) \in FrameSet /\ WakeFrame(ids).action # "sleep"
    BY <1>2 DEF Wake, WakeFrame, FrameSet
  <2>2. queue' \in Seq(FrameSet) /\ Len(queue') <= MaxQueue
        /\ \A i \in 1 .. Len(queue') : queue'[i].action = "sleep" => queue'[i].cycle \in Cycles
    BY <2>1, SubmitKeeps DEF TypeOK
  <2>3. job' = [ids |-> ids, left |-> maxCycle + Listen + Margin, due |-> 1, heard |-> {}, running |-> TRUE]
        /\ repeats' = {} /\ UNCHANGED <<believed, known, maxCycle, phase, state, cycle, timer, sending>>
    BY <1>2 DEF Wake, roverVars
  <2>4. maxCycle + Listen + Margin \in 0 .. maxCycle + Listen + Margin /\ maxCycle + Listen + Margin > 0
    BY <1>0
  <2>5. job' \in [ids : SUBSET Rovers, left : 0 .. maxCycle + Listen + Margin, due : 0 .. 1,
                  heard : SUBSET Rovers, running : BOOLEAN] /\ job'.left > 0
    BY <2>3, <2>4
  <2> QED BY <2>2, <2>3, <2>5 DEF TypeOK
<1>3. ASSUME NEW ids \in SUBSET Rovers, NEW c \in Cycles, Sleep(ids, c) PROVE SleepTypes'
  <2>1. maxCycle' \in Cycles \cup {DefaultCycle} /\ maxCycle' \in Nat
    BY <1>0, <1>3 DEF Sleep, TypeOK
  <2>2. job' = NoJob /\ UNCHANGED <<known, queue, phase, state, cycle, timer, sending>>
    BY <1>3 DEF Sleep, roverVars
  <2>3. job' \in [ids : SUBSET Rovers, left : 0 .. maxCycle' + Listen + Margin, due : 0 .. 1,
                  heard : SUBSET Rovers, running : BOOLEAN] /\ ~job'.running
    <3>1. ~NoJob.running
      BY DEF NoJob
    <3> QED BY <2>1, <2>2, <3>1, JobsAreTyped
  <2>4. repeats' \in SUBSET [ids : SUBSET Rovers, cycle : Cycles, due : 0 .. SleepRepeats - 1]
    BY <1>0, <1>3 DEF Sleep, TypeOK
  <2>5. believed' \in [Rovers -> NotAsleep .. Grace + 1]
    BY <1>0, <1>3 DEF Sleep, TypeOK, NotAsleep
  <2> QED BY <2>1, <2>2, <2>3, <2>4, <2>5 DEF TypeOK
<1>4. ASSUME NEW r \in repeats, SleepRepeat(r) PROVE SleepTypes'
  <2>1. r \in [ids : SUBSET Rovers, cycle : Cycles, due : 0 .. SleepRepeats - 1]
    BY DEF TypeOK
  <2>2. Submit(SleepFrame(r.ids, r.cycle)) /\ SleepFrame(r.ids, r.cycle) \in FrameSet
        /\ SleepFrame(r.ids, r.cycle).cycle \in Cycles
    BY <1>4, <2>1 DEF SleepRepeat, SleepFrame, FrameSet
  <2>3. queue' \in Seq(FrameSet) /\ Len(queue') <= MaxQueue
        /\ \A i \in 1 .. Len(queue') : queue'[i].action = "sleep" => queue'[i].cycle \in Cycles
    BY <2>2, SubmitKeeps DEF TypeOK
  <2>4. repeats' \subseteq repeats /\ UNCHANGED <<believed, known, maxCycle, job, phase, state, cycle, timer, sending>>
    BY <1>4 DEF SleepRepeat, roverVars
  <2> QED BY <2>3, <2>4 DEF TypeOK
<1>5. ASSUME WakeAgain PROVE SleepTypes'
  <2>1. Submit(WakeFrame(job.ids)) /\ WakeFrame(job.ids) \in FrameSet /\ WakeFrame(job.ids).action # "sleep"
    BY <1>5 DEF WakeAgain, WakeFrame, FrameSet, TypeOK
  <2>2. queue' \in Seq(FrameSet) /\ Len(queue') <= MaxQueue
        /\ \A i \in 1 .. Len(queue') : queue'[i].action = "sleep" => queue'[i].cycle \in Cycles
    BY <2>1, SubmitKeeps DEF TypeOK
  <2>3. job.left > 0 /\ job' = [job EXCEPT !.due = 1]
        /\ UNCHANGED <<believed, known, maxCycle, repeats, phase, state, cycle, timer, sending>>
    BY <1>5 DEF WakeAgain, roverVars
  <2>4. job' \in [ids : SUBSET Rovers, left : 0 .. maxCycle + Listen + Margin, due : 0 .. 1,
                  heard : SUBSET Rovers, running : BOOLEAN] /\ job'.left > 0
    <3>1. job \in JobSet /\ 1 \in 0 .. 1
      BY DEF TypeOK
    <3> QED BY <2>3, <3>1
  <2> QED BY <2>2, <2>3, <2>4 DEF TypeOK
<1>6. ASSUME WakeTimesOut PROVE SleepTypes'
  <2>1. job' = NoJob /\ ~NoJob.running
        /\ UNCHANGED <<believed, known, maxCycle, repeats, queue, phase, state, cycle, timer, sending>>
    BY <1>6 DEF WakeTimesOut, roverVars, NoJob
  <2> QED BY <1>0, <2>1, JobsAreTyped DEF TypeOK
<1>7. ASSUME BaseRestarts PROVE SleepTypes'
  <2>1. /\ believed' = [b \in Rovers |-> NotAsleep] /\ known' = {} /\ maxCycle' = DefaultCycle
        /\ job' = NoJob /\ repeats' = {} /\ queue' = <<>> /\ ~NoJob.running
        /\ UNCHANGED <<phase, state, cycle, timer, sending>>
    BY <1>7 DEF BaseRestarts, roverVars, NoJob
  <2>2. job' \in [ids : SUBSET Rovers, left : 0 .. maxCycle' + Listen + Margin, due : 0 .. 1,
                  heard : SUBSET Rovers, running : BOOLEAN]
    BY <1>0, <2>1, JobsAreTyped
  <2>3. believed' \in [Rovers -> NotAsleep .. Grace + 1]
    BY <1>0, <2>1 DEF NotAsleep
  <2> QED BY <1>0, <2>1, <2>2, <2>3 DEF TypeOK
<1>8. ASSUME NEW b \in Rovers, Heard(b) PROVE SleepTypes'
  <2>1. sending' \in [Rovers -> NoFrame .. Transit] /\ known' \in SUBSET Rovers
        /\ believed' \in [Rovers -> NotAsleep .. Grace + 1]
    <3>1. NoFrame \in NoFrame .. Transit /\ NotAsleep \in NotAsleep .. Grace + 1
      BY <1>0 DEF NoFrame, NotAsleep
    <3> QED BY <1>8, <3>1 DEF Heard, TypeOK
  <2>2. job' \in [ids : SUBSET Rovers, left : 0 .. maxCycle + Listen + Margin, due : 0 .. 1,
                  heard : SUBSET Rovers, running : BOOLEAN]
        /\ (job'.running /\ job'.due = 1 => job'.left > 0)
    <3>1. CASE job' = job
      BY <3>1 DEF TypeOK
    <3>2. CASE job' = NoJob
      BY <1>0, <3>2, JobsAreTyped DEF NoJob
    <3>3. CASE job' = [job EXCEPT !.heard = job.heard \cup {b}]
      BY <3>3 DEF TypeOK
    <3> QED BY <1>8, <3>1, <3>2, <3>3 DEF Heard
  <2>3. UNCHANGED <<maxCycle, repeats, queue, phase, state, cycle, timer>>
    BY <1>8 DEF Heard, roverVars
  <2> QED BY <2>1, <2>2, <2>3 DEF TypeOK
<1>9. ASSUME NEW b \in Rovers, Lost(b) \/ Report(b) PROVE SleepTypes'
  <2>1. sending' \in [Rovers -> NoFrame .. Transit]
    <3>1. NoFrame \in NoFrame .. Transit /\ 0 \in NoFrame .. Transit
      BY <1>0 DEF NoFrame
    <3>2. PICK n \in NoFrame .. Transit : sending' = [sending EXCEPT ![b] = n]
      BY <1>9, <3>1 DEF Lost, Report
    <3> QED BY <3>2 DEF TypeOK
  <2> QED BY <1>9, <2>1 DEF Lost, Report, TypeOK, baseVars, roverVars
<1>10. ASSUME NEW b \in Rovers, RadioTimer(b) PROVE SleepTypes'
  <2>1. /\ state' \in [Rovers -> {"awake", "asleep", "listening"}]
        /\ timer' \in [Rovers -> Nat]
        /\ \A d \in Rovers : state'[d] = "awake" => timer'[d] = 0
    <3>1. cycle[b] \in Nat
      BY <1>0 DEF TypeOK
    <3>2. state[b] \in {"asleep", "listening"}
      BY <1>10 DEF RadioTimer, TypeOK
    <3>3. state' \in [Rovers -> {"awake", "asleep", "listening"}] /\ timer' \in [Rovers -> Nat]
      BY <1>0, <1>10, <3>1 DEF RadioTimer, TypeOK
    <3>4. state'[b] # "awake"
      BY <1>10, <3>2 DEF RadioTimer, TypeOK
    <3>5. \A d \in Rovers : d # b => state'[d] = state[d] /\ timer'[d] = timer[d]
      BY <1>10 DEF RadioTimer, TypeOK
    <3> QED BY <3>3, <3>4, <3>5 DEF TypeOK
  <2> QED BY <1>10, <2>1 DEF RadioTimer, TypeOK, baseVars
<1>11. ASSUME NEW b \in Rovers, RoverRestarts(b) PROVE SleepTypes'
  BY <1>11 DEF RoverRestarts, TypeOK, baseVars
<1>12. ASSUME Tick PROVE SleepTypes'
  <2>1. /\ ~Due
        /\ \A b \in Rovers : sending[b] < Transit
        /\ UNCHANGED <<known, maxCycle, queue, state, cycle>>
    BY <1>12 DEF Tick
  <2>2. phase' \in 0 .. SlotPeriod - 1
    <3>1. phase' = (phase + 1) % SlotPeriod /\ phase + 1 \in Nat
      BY <1>12 DEF Tick, TypeOK
    <3> QED BY <1>0, <3>1
  <2>3. job' \in [ids : SUBSET Rovers, left : 0 .. maxCycle + Listen + Margin, due : 0 .. 1,
                  heard : SUBSET Rovers, running : BOOLEAN]
        /\ (job'.running /\ job'.due = 1 => job'.left > 0)
    <3>1. CASE job.running
      <4>1. job.due = 1 /\ job.left > 0
        BY <2>1, <3>1 DEF Due, TypeOK
      <4>2. job' = [job EXCEPT !.left = @ - 1, !.due = @ - 1]
        BY <1>12, <3>1 DEF Tick
      <4>3. job \in JobSet
        BY DEF TypeOK
      <4>4. job.left - 1 \in 0 .. maxCycle + Listen + Margin /\ job.due - 1 = 0
        BY <1>0, <4>1, <4>3
      <4>5. job' = [job EXCEPT !.left = job.left - 1, !.due = 0]
        BY <4>2, <4>4
      <4>6. job' \in JobSet /\ job'.due = 0
        <5> DEFINE n == job.left - 1
                   Left == 0 .. maxCycle + Listen + Margin
        <5>1. n \in Left /\ 0 \in 0 .. 1 /\ job' = [job EXCEPT !.left = n, !.due = 0]
          BY <4>4, <4>5
        <5>2. job \in [ids : SUBSET Rovers, left : Left, due : 0 .. 1, heard : SUBSET Rovers, running : BOOLEAN]
          BY <4>3
        <5> HIDE DEF n, Left
        <5>3. job' \in [ids : SUBSET Rovers, left : Left, due : 0 .. 1, heard : SUBSET Rovers, running : BOOLEAN]
              /\ job'.due = 0
          BY <5>1, <5>2
        <5> QED BY <5>3 DEF Left
      <4> QED BY <4>6
    <3>2. CASE ~job.running
      BY <1>12, <3>2 DEF Tick, TypeOK
    <3> QED BY <3>1, <3>2
  <2>4. repeats' \in SUBSET [ids : SUBSET Rovers, cycle : Cycles, due : 0 .. SleepRepeats - 1]
    <3>1. ASSUME NEW r \in repeats
          PROVE  [r EXCEPT !.due = @ - 1] \in [ids : SUBSET Rovers, cycle : Cycles, due : 0 .. SleepRepeats - 1]
      <4>1. r \in [ids : SUBSET Rovers, cycle : Cycles, due : 0 .. SleepRepeats - 1] /\ r.due # 0
        BY <2>1 DEF Due, TypeOK
      <4>2. r.due - 1 \in 0 .. SleepRepeats - 1
        BY <1>0, <4>1
      <4> QED BY <4>1, <4>2
    <3>2. repeats' = {[r EXCEPT !.due = @ - 1] : r \in repeats}
      BY <1>12 DEF Tick
    <3> QED BY <3>1, <3>2
  <2>5. believed' \in [Rovers -> NotAsleep .. Grace + 1]
    <3>1. \A n \in 0 .. Grace : n + 1 \in NotAsleep .. Grace + 1
      BY <1>0 DEF NotAsleep
    <3>2. believed' = [b \in Rovers |-> IF believed[b] \in 0 .. Grace THEN believed[b] + 1 ELSE believed[b]]
      BY <1>12 DEF Tick
    <3> QED BY <3>1, <3>2 DEF TypeOK
  <2>6. timer' \in [Rovers -> Nat] /\ \A b \in Rovers : state'[b] = "awake" => timer'[b] = 0
    BY <1>12, <2>1 DEF Tick, Due, TypeOK
  <2>7. sending' \in [Rovers -> NoFrame .. Transit]
    <3>1. \A n \in NoFrame .. Transit : n < Transit /\ n # NoFrame => n + 1 \in NoFrame .. Transit
      BY <1>0 DEF NoFrame
    <3>2. NoFrame \in NoFrame .. Transit
      BY <1>0 DEF NoFrame
    <3>3. sending' = [b \in Rovers |-> IF sending[b] # NoFrame THEN sending[b] + 1 ELSE NoFrame]
      BY <1>12 DEF Tick
    <3> QED BY <2>1, <3>1, <3>2, <3>3 DEF TypeOK
  <2> QED BY <2>1, <2>2, <2>3, <2>4, <2>5, <2>6, <2>7 DEF TypeOK
<1>13. CASE UNCHANGED vars
  BY <1>13 DEF vars, baseVars, roverVars, TypeOK
<1> QED
  BY <1>1, <1>2, <1>3, <1>4, <1>5, <1>6, <1>7, <1>8, <1>9, <1>10, <1>11, <1>12, <1>13 DEF Next

\* Every variable of the radio sleep mode has its type: counters stay in their bounds, the base's
\* queue does not grow past its limit, and no timer of an awake rover runs.
THEOREM SleepTypesHold == Spec => []TypeOK
<1>1. SleepTypes => TypeOK
  BY DEF SleepTypes
<1> QED BY <1>1, TypesStart, TypesStep, PTL DEF Spec

-------------------------------------------------------------------------------
(* A rover that was woken stays awake.                                     *)

\* Nothing that would put a rover to sleep is left over from before the last command that names it:
\* neither a repeat to come nor a frame that waits.
NoLeftOver ==
  /\ \A r \in repeats : \A b \in Rovers : Names(r.ids, b) => told[b] = "sleep"
  /\ \A i \in 1 .. Len(queue) :
       queue[i].action = "sleep" => \A b \in Rovers : Names(queue[i].ids, b) => told[b] = "sleep"

LEMMA NoLeftOverStep ==
  ASSUME SlotPeriod = 1, TypeOK, NoLeftOver, [Next]_vars PROVE NoLeftOver'
<1>1. ASSUME NEW S \in SUBSET Rovers, Transmit(S) PROVE NoLeftOver'
  <2>1. queue # <<>> /\ queue' = Tail(queue) /\ UNCHANGED <<repeats, told>> /\ queue \in Seq(FrameSet)
    BY <1>1 DEF Transmit, TypeOK
  <2>2. Len(queue') = Len(queue) - 1 /\ \A i \in 1 .. Len(queue) - 1 : queue'[i] = queue[i + 1]
    BY <2>1
  <2>3. Len(queue) \in Nat
    BY <2>1
  <2>4. ASSUME NEW i \in 1 .. Len(queue'), queue'[i].action = "sleep", NEW b \in Rovers, Names(queue'[i].ids, b)
        PROVE  told[b] = "sleep"
    <3>1. i + 1 \in 1 .. Len(queue) /\ queue'[i] = queue[i + 1]
      BY <2>2, <2>3
    <3> QED BY <2>4, <3>1 DEF NoLeftOver
  <2> QED BY <2>1, <2>4 DEF NoLeftOver
<1>2. CASE Held /\ ~\E S \in SUBSET Rovers : Transmit(S)
  <2>1. queue = <<>> /\ Len(queue) < MaxQueue
    BY <1>2, FleetSleepAssumption DEF Held
  <2>2. ASSUME NEW f, Submit(f) PROVE queue' = <<f>>
    BY <2>1, <2>2 DEF Submit
  <2>3. ASSUME NEW ids \in SUBSET Rovers, Wake(ids) PROVE NoLeftOver'
    <3>1. queue' = <<WakeFrame(ids)>> /\ repeats' = {}
      BY <2>2, <2>3 DEF Wake
    <3>2. WakeFrame(ids).action # "sleep"
      BY DEF WakeFrame
    <3> HIDE DEF WakeFrame
    <3> QED BY <3>1, <3>2 DEF NoLeftOver
  <2>4. ASSUME NEW ids \in SUBSET Rovers, NEW c \in Cycles, Sleep(ids, c) PROVE NoLeftOver'
    <3>1. told' = [b \in Rovers |-> IF Names(ids, b) THEN "sleep" ELSE told[b]] /\ queue' = queue
      BY <2>4 DEF Sleep, Commanded
    <3>2. ASSUME NEW r \in repeats' PROVE r \in repeats \/ r.ids = ids
      BY <2>4 DEF Sleep
    <3> QED BY <2>1, <3>1, <3>2 DEF NoLeftOver
  <2>5. ASSUME NEW r \in repeats, SleepRepeat(r) PROVE NoLeftOver'
    <3>1. queue' = <<SleepFrame(r.ids, r.cycle)>> /\ repeats' \subseteq repeats /\ told' = told
      BY <2>2, <2>5 DEF SleepRepeat, seenVars
    <3>2. SleepFrame(r.ids, r.cycle).ids = r.ids
      BY DEF SleepFrame
    <3> HIDE DEF SleepFrame
    <3> QED BY <3>1, <3>2 DEF NoLeftOver
  <2>6. ASSUME WakeAgain PROVE NoLeftOver'
    <3>1. queue' = <<WakeFrame(job.ids)>> /\ UNCHANGED <<repeats, told>>
      BY <2>2, <2>6 DEF WakeAgain, seenVars
    <3>2. WakeFrame(job.ids).action # "sleep"
      BY DEF WakeFrame
    <3> HIDE DEF WakeFrame
    <3> QED BY <3>1, <3>2 DEF NoLeftOver
  <2>7. ASSUME BaseRestarts PROVE NoLeftOver'
    BY <2>7 DEF BaseRestarts, NoLeftOver
  <2>8. ASSUME Tick PROVE NoLeftOver'
    <3>1. queue' = queue /\ told' = told
      BY <2>8 DEF Tick, seenVars
    <3>2. ASSUME NEW r \in repeats' PROVE \E s \in repeats : r.ids = s.ids
      <4>1. PICK s \in repeats : r = [s EXCEPT !.due = @ - 1]
        BY <2>8, <3>2 DEF Tick
      <4>2. s \in [ids : SUBSET Rovers, cycle : Cycles, due : 0 .. SleepRepeats - 1]
        BY DEF TypeOK
      <4> QED BY <4>1, <4>2
    <3> QED BY <2>1, <3>1, <3>2 DEF NoLeftOver
  <2>9. ASSUME WakeTimesOut \/ \E b \in Rovers : Heard(b) \/ Lost(b) \/ Report(b) \/ RadioTimer(b) \/ RoverRestarts(b)
        PROVE  NoLeftOver'
    BY <2>9 DEF WakeTimesOut, Heard, Lost, Report, RadioTimer, RoverRestarts, baseVars, seenVars, NoLeftOver
  <2>10. CASE UNCHANGED vars
    BY <2>10 DEF vars, baseVars, seenVars, NoLeftOver
  <2> QED BY <1>2, <2>3, <2>4, <2>5, <2>6, <2>7, <2>8, <2>9, <2>10 DEF Next
<1>3. CASE UNCHANGED vars
  BY <1>3 DEF vars, baseVars, seenVars, NoLeftOver
<1> QED BY <1>1, <1>2, <1>3 DEF Next

\* What puts an awake rover to sleep is a frame.
LEMMA FramesPutToSleep ==
  ASSUME TypeOK, NoLeftOver, [Next]_vars, NEW b \in Rovers, state[b] = "awake", state'[b] = "asleep"
  PROVE  told[b] = "sleep"
<1>1. ASSUME NEW S \in SUBSET Rovers, Transmit(S) PROVE told[b] = "sleep"
  <2>1. queue # <<>> /\ queue \in Seq(FrameSet)
    BY <1>1 DEF Transmit, TypeOK
  <2>2. 1 \in 1 .. Len(queue) /\ Head(queue) = queue[1]
    BY <2>1
  <2>3. Head(queue).action = "sleep" /\ Names(Head(queue).ids, b)
    BY <1>1 DEF Transmit
  <2> QED BY <2>2, <2>3 DEF NoLeftOver
<1>2. ASSUME NEW d \in Rovers, RadioTimer(d) PROVE FALSE
  BY <1>2 DEF RadioTimer, TypeOK
<1>3. ASSUME NEW d \in Rovers, RoverRestarts(d) PROVE FALSE
  BY <1>3 DEF RoverRestarts, TypeOK
<1>4. \/ \E S \in SUBSET Rovers : Transmit(S)
      \/ \E d \in Rovers : RadioTimer(d) \/ RoverRestarts(d)
      \/ state' = state
  BY DEF Next, Wake, Sleep, SleepRepeat, WakeAgain, WakeTimesOut, BaseRestarts, Heard, Lost, Report, Tick,
         vars, roverVars
<1> QED BY <1>1, <1>2, <1>3, <1>4

\* Where the base's frames go out at once, a rover only falls asleep if the last command that names
\* it told it to: wake() takes back what is left of sleep commands before it calls anyone.
THEOREM WokenStay ==
  ASSUME SlotPeriod = 1 PROVE Spec => WokenStaysAwake
<1>1. Init => SleepTypes /\ NoLeftOver
  <2>1. Init => NoLeftOver
    BY DEF Init, NoLeftOver
  <2> QED BY <2>1, TypesStart
<1>2. SleepTypes /\ NoLeftOver /\ [Next]_vars => (SleepTypes /\ NoLeftOver)'
  BY TypesStep, NoLeftOverStep DEF SleepTypes
<1>3. SleepTypes /\ NoLeftOver /\ [Next]_vars
        => [\A b \in Rovers : state[b] = "awake" /\ state'[b] = "asleep" => told[b] = "sleep"]_vars
  BY FramesPutToSleep DEF SleepTypes
<1> QED BY <1>1, <1>2, <1>3, PTL DEF Spec, WokenStaysAwake
-------------------------------------------------------------------------------
(* A wake that runs its full time reaches everyone.                        *)

\* What the time a wake has left promises a rover it names. Either the rover is awake, or it could
\* hear the wake twice, counting the frame that waits (p: 1 if one does) and one for each tick that is
\* left of its window; or there is time for a whole window yet.
StillCalled(s, n, p, left, due, t, c) ==
  LET window == (IF t < left THEN t ELSE left) - due
      frames == IF window > 0 THEN p + window ELSE p
  IN  \/ s = "awake"
      \/ n >= 2
      \/ s = "asleep" /\ n + left - t >= 3
      \/ s = "listening" /\ (n + frames >= 2 \/ n + frames + (left - 1 - t - c) >= 2)

LEMMA CalledAtFirst ==
  ASSUME Listen >= 3, NEW s, NEW m \in Nat, NEW t \in Nat, NEW c \in Nat, c <= m,
         s = "asleep" => t <= c, s = "listening" => t <= Listen, s \in {"awake", "asleep", "listening"}
  PROVE  StillCalled(s, 0, 1, m + Listen + Margin, 1, t, c)
BY FleetSleepAssumption DEF StillCalled

LEMMA CalledAgain ==
  ASSUME NEW s, NEW n \in Nat, NEW left \in Nat, NEW t \in Nat, NEW c \in Nat, left > 0,
         StillCalled(s, n, 0, left, 0, t, c)
  PROVE  StillCalled(s, n, 1, left, 1, t, c)
BY DEF StillCalled

LEMMA CalledInTime ==
  ASSUME NEW s, NEW n \in Nat, NEW left \in Nat, NEW t \in Nat, NEW c \in Nat, left > 0, t > 0,
         StillCalled(s, n, 0, left, 1, t, c)
  PROVE  StillCalled(s, n, 0, left - 1, 0, t - 1, c)
BY DEF StillCalled

LEMMA CalledInWindow ==
  ASSUME Listen >= 3, NEW n \in Nat, NEW left \in Nat, NEW due \in Nat, due <= 1, NEW c \in Nat,
         StillCalled("asleep", n, 0, left, due, 0, c)
  PROVE  StillCalled("listening", n, 0, left, due, Listen, c)
BY FleetSleepAssumption DEF StillCalled

LEMMA CalledAfterWindow ==
  ASSUME NEW n \in Nat, NEW left \in Nat, NEW due \in Nat, NEW c \in Nat,
         StillCalled("listening", n, 0, left, due, 0, c)
  PROVE  StillCalled("asleep", n, 0, left, due, c, c)
BY DEF StillCalled

LEMMA CalledWhenSent ==
  ASSUME NEW s, NEW n \in Nat, NEW left \in Nat, NEW due \in Nat, NEW t \in Nat, NEW c \in Nat,
         StillCalled(s, n, 1, left, due, t, c)
  PROVE  StillCalled(s, IF s # "asleep" /\ n < 2 THEN n + 1 ELSE n, 0, left, due, t, c)
BY DEF StillCalled

LEMMA CalledToTheEnd ==
  ASSUME NEW s, NEW n \in Nat, NEW t \in Nat, NEW c \in Nat, StillCalled(s, n, 0, 0, 0, t, c)
  PROVE  s = "awake" \/ n >= 2
BY DEF StillCalled

\* The wakes of a base that knows the longest cycle of its rovers: no frame and no rover has a longer
\* one, no window is longer than the longest, and a wake under way has dropped what was left of sleep commands
\* and calls every rover it names.
CyclesKnown ==
  /\ DefaultCycle <= maxCycle
  /\ \A b \in Rovers : cycle[b] <= maxCycle
  /\ \A r \in repeats : r.cycle <= maxCycle
  /\ \A i \in 1 .. Len(queue) : queue[i].cycle <= maxCycle

InCycle ==
  \A b \in Rovers : /\ state[b] = "asleep" => timer[b] <= cycle[b]
                    /\ state[b] = "listening" => timer[b] <= Listen

Waiting == IF queue = <<>> THEN 0 ELSE 1

Calls ==
  /\ chances \in [Rovers -> Nat]
  /\ job.running =>
       /\ repeats = {}
       /\ queue = <<>> \/ queue = <<WakeFrame(job.ids)>>
       /\ \A b \in Rovers : Names(job.ids, b) =>
            StillCalled(state[b], chances[b], Waiting, job.left, job.due, timer[b], cycle[b])

CallInv == CyclesKnown /\ InCycle /\ Calls

\* A base that restarts forgets the longest cycle it gave out.
NoForgottenCycle == MaxRestarts = 0 \/ \A c \in Cycles : c <= DefaultCycle
LEMMA SentAlone ==
  ASSUME SlotPeriod = 1, Held, NEW f, Submit(f) PROVE queue = <<>> /\ queue' = <<f>>
<1>1. queue = <<>> /\ Len(queue) < MaxQueue
  BY FleetSleepAssumption DEF Held
<1> QED BY <1>1 DEF Submit

LEMMA CyclesKnownStep ==
  ASSUME SlotPeriod = 1, NoForgottenCycle, SleepTypes, restarts \in Nat, CyclesKnown, [Next]_vars
  PROVE  CyclesKnown'
<1>0. /\ maxCycle \in Nat /\ DefaultCycle \in Nat /\ Cycles \subseteq Nat /\ MaxRestarts \in Nat
      /\ \A b \in Rovers : cycle[b] \in Nat
      /\ cycle \in [Rovers -> Cycles \cup {DefaultCycle}]
  <2>1. maxCycle \in Cycles \cup {DefaultCycle} /\ Cycles \subseteq Nat \ {0} /\ DefaultCycle \in Nat \ {0}
        /\ cycle \in [Rovers -> Cycles \cup {DefaultCycle}] /\ MaxRestarts \in Nat
    BY FleetSleepAssumption DEF SleepTypes, TypeOK
  <2>2. Cycles \cup {DefaultCycle} \subseteq Nat
    BY <2>1
  <2> QED BY <2>1, <2>2
<1>1. ASSUME NEW S \in SUBSET Rovers, Transmit(S) PROVE CyclesKnown'
  <2>1. queue # <<>> /\ queue' = Tail(queue) /\ queue \in Seq(FrameSet) /\ UNCHANGED <<repeats, maxCycle>>
    BY <1>1 DEF Transmit, SleepTypes, TypeOK
  <2>2. Len(queue') = Len(queue) - 1 /\ (\A i \in 1 .. Len(queue) - 1 : queue'[i] = queue[i + 1])
        /\ Len(queue) \in Nat \ {0} /\ Head(queue) = queue[1]
    BY <2>1
  <2>3. ASSUME NEW i \in 1 .. Len(queue') PROVE queue'[i].cycle <= maxCycle
    <3>1. i + 1 \in 1 .. Len(queue) /\ queue'[i] = queue[i + 1]
      BY <2>2
    <3> QED BY <3>1 DEF CyclesKnown
  <2>4. Head(queue).cycle <= maxCycle
    BY <2>2 DEF CyclesKnown
  <2>5. \A b \in Rovers : cycle'[b] = Head(queue).cycle \/ cycle'[b] = cycle[b]
    BY <1>1 DEF Transmit
  <2> QED BY <2>1, <2>3, <2>4, <2>5 DEF CyclesKnown
<1>2. CASE Held /\ ~\E S \in SUBSET Rovers : Transmit(S)
  <2>0. queue = <<>>
    BY <1>2, FleetSleepAssumption DEF Held
  <2>1. ASSUME NEW f, Submit(f), f.cycle <= maxCycle, UNCHANGED <<maxCycle, roverVars>>, repeats' \subseteq repeats
        PROVE  CyclesKnown'
    <3>1. queue' = <<f>>
      BY <1>2, <2>1, SentAlone
    <3>2. \A i \in 1 .. Len(queue') : queue'[i] = f
      BY <3>1
    <3> QED BY <2>1, <3>2 DEF CyclesKnown, roverVars
  <2>2. ASSUME NEW ids, WakeFrame(ids).cycle > maxCycle PROVE FALSE
    BY <1>0, <2>2 DEF WakeFrame
  <2>3. ASSUME NEW ids \in SUBSET Rovers, Wake(ids) PROVE CyclesKnown'
    <3>1. WakeFrame(ids).cycle <= maxCycle
      BY <1>0 DEF WakeFrame
    <3> QED BY <2>1, <2>3, <3>1 DEF Wake
  <2>4. ASSUME NEW ids \in SUBSET Rovers, NEW c \in Cycles, Sleep(ids, c) PROVE CyclesKnown'
    <3>1. c \in Nat /\ maxCycle' = (IF c > maxCycle THEN c ELSE maxCycle) /\ queue' = queue /\ cycle' = cycle
      BY <1>0, <2>4 DEF Sleep, roverVars
    <3>2. maxCycle <= maxCycle' /\ c <= maxCycle' /\ maxCycle' \in Nat
      BY <1>0, <3>1
    <3>3. ASSUME NEW r \in repeats' PROVE r.cycle <= maxCycle'
      <4>1. r \in repeats \/ r.cycle = c
        BY <2>4 DEF Sleep
      <4>2. ASSUME r \in repeats PROVE r.cycle \in Nat /\ r.cycle <= maxCycle
        BY <1>0, <4>2 DEF SleepTypes, TypeOK, CyclesKnown
      <4> QED BY <1>0, <3>2, <4>1, <4>2
    <3>4. \A b \in Rovers : cycle[b] <= maxCycle'
      BY <1>0, <3>2 DEF CyclesKnown
    <3>5. 1 .. Len(queue') = {}
      BY <2>0, <3>1
    <3>6. DefaultCycle <= maxCycle'
      BY <1>0, <3>2 DEF CyclesKnown
    <3> QED BY <3>1, <3>3, <3>4, <3>5, <3>6 DEF CyclesKnown
  <2>5. ASSUME NEW r \in repeats, SleepRepeat(r) PROVE CyclesKnown'
    <3>1. SleepFrame(r.ids, r.cycle).cycle <= maxCycle
      BY DEF SleepFrame, CyclesKnown
    <3> QED BY <2>1, <2>5, <3>1 DEF SleepRepeat
  <2>6. ASSUME WakeAgain PROVE CyclesKnown'
    <3>1. WakeFrame(job.ids).cycle <= maxCycle
      BY <1>0 DEF WakeFrame
    <3> QED BY <2>1, <2>6, <3>1 DEF WakeAgain
  <2>7. ASSUME BaseRestarts PROVE CyclesKnown'
    <3>1. \A c \in Cycles : c <= DefaultCycle
      BY <1>0, <2>7 DEF BaseRestarts, NoForgottenCycle
    <3>2. maxCycle' = DefaultCycle /\ repeats' = {} /\ 1 .. Len(queue') = {} /\ cycle' = cycle
      BY <2>7 DEF BaseRestarts, roverVars
    <3>3. \A b \in Rovers : cycle[b] <= DefaultCycle
      BY <1>0, <3>1
    <3>4. DefaultCycle <= maxCycle' /\ \A b \in Rovers : cycle'[b] <= maxCycle'
      BY <1>0, <3>2, <3>3
    <3> QED BY <3>2, <3>4 DEF CyclesKnown
  <2>8. ASSUME NEW b \in Rovers, RoverRestarts(b) PROVE CyclesKnown'
    <3>1. cycle' = [cycle EXCEPT ![b] = DefaultCycle] /\ UNCHANGED <<maxCycle, repeats, queue>>
      BY <2>8 DEF RoverRestarts, baseVars
    <3>2. \A d \in Rovers : cycle'[d] = DefaultCycle \/ cycle'[d] = cycle[d]
      BY <1>0, <3>1
    <3> QED BY <2>0, <3>1, <3>2 DEF CyclesKnown
  <2>9. ASSUME Tick PROVE CyclesKnown'
    <3>1. UNCHANGED <<maxCycle, queue, cycle>>
      BY <2>9 DEF Tick
    <3>2. ASSUME NEW r \in repeats' PROVE r.cycle <= maxCycle
      <4>1. PICK s \in repeats : r = [s EXCEPT !.due = @ - 1]
        BY <2>9, <3>2 DEF Tick
      <4>2. s \in [ids : SUBSET Rovers, cycle : Cycles, due : 0 .. SleepRepeats - 1]
        BY DEF SleepTypes, TypeOK
      <4>3. r.cycle = s.cycle
        BY <4>1, <4>2
      <4> QED BY <4>3 DEF CyclesKnown
    <3> QED BY <2>0, <3>1, <3>2 DEF CyclesKnown
  <2>10. ASSUME WakeTimesOut \/ \E b \in Rovers : Heard(b) \/ Lost(b) \/ Report(b) \/ RadioTimer(b)
         PROVE  CyclesKnown'
    BY <2>10 DEF WakeTimesOut, Heard, Lost, Report, RadioTimer, baseVars, roverVars, CyclesKnown
  <2>11. CASE UNCHANGED vars
    BY <2>11 DEF vars, baseVars, roverVars, CyclesKnown
  <2> QED BY <1>2, <2>3, <2>4, <2>5, <2>6, <2>7, <2>8, <2>9, <2>10, <2>11 DEF Next
<1>3. CASE UNCHANGED vars
  BY <1>3 DEF vars, baseVars, roverVars, CyclesKnown
<1> QED BY <1>1, <1>2, <1>3 DEF Next

LEMMA InCycleStep ==
  ASSUME SleepTypes, InCycle, [Next]_vars PROVE InCycle'
<1>0. /\ Listen \in Nat
      /\ \A b \in Rovers : cycle[b] \in Nat /\ timer[b] \in Nat /\ state[b] \in {"awake", "asleep", "listening"}
      /\ state \in [Rovers -> {"awake", "asleep", "listening"}] /\ timer \in [Rovers -> Nat]
      /\ cycle \in [Rovers -> Cycles \cup {DefaultCycle}]
  <2>1. Cycles \cup {DefaultCycle} \subseteq Nat
    BY FleetSleepAssumption
  <2> QED BY <2>1, FleetSleepAssumption DEF SleepTypes, TypeOK
<1>1. ASSUME NEW S \in SUBSET Rovers, Transmit(S) PROVE InCycle'
  <2> DEFINE f      == Head(queue)
             sleeps == {b \in S : Names(f.ids, b) /\ f.action = "sleep"}
             wakes  == {b \in S : Names(f.ids, b) /\ f.action = "wake"}
  <2>1. /\ state' = [b \in Rovers |-> IF b \in sleeps THEN "asleep" ELSE IF b \in wakes THEN "awake" ELSE state[b]]
        /\ cycle' = [b \in Rovers |-> IF b \in sleeps THEN f.cycle ELSE cycle[b]]
        /\ timer' = [b \in Rovers |-> IF b \in sleeps THEN f.cycle ELSE IF b \in wakes THEN 0 ELSE timer[b]]
    BY <1>1 DEF Transmit
  <2>2. f.action = "sleep" => f.cycle \in Nat
    <3>1. queue # <<>> /\ queue \in Seq(FrameSet) /\ Cycles \subseteq Nat
      BY <1>1, FleetSleepAssumption DEF Transmit, SleepTypes, TypeOK
    <3>2. 1 \in 1 .. Len(queue) /\ f = queue[1]
      BY <3>1
    <3> QED BY <3>1, <3>2 DEF SleepTypes
  <2>3. \A b \in sleeps : f.cycle \in Nat
    BY <2>2
  <2> HIDE DEF sleeps, wakes, f
  <2> QED BY <1>0, <2>1, <2>3 DEF InCycle
<1>2. ASSUME NEW b \in Rovers, RadioTimer(b) PROVE InCycle'
  <2>1. cycle' = cycle /\ state' = [state EXCEPT ![b] = IF @ = "asleep" THEN "listening" ELSE "asleep"]
        /\ timer' = [timer EXCEPT ![b] = IF state[b] = "asleep" THEN Listen ELSE cycle[b]]
    BY <1>2 DEF RadioTimer
  <2>2. \A d \in Rovers : IF d = b THEN /\ state'[d] = (IF state[d] = "asleep" THEN "listening" ELSE "asleep")
                                        /\ timer'[d] = (IF state[d] = "asleep" THEN Listen ELSE cycle[d])
                          ELSE state'[d] = state[d] /\ timer'[d] = timer[d]
    BY <1>0, <2>1
  <2> QED BY <1>0, <2>1, <2>2 DEF InCycle
<1>3. ASSUME NEW b \in Rovers, RoverRestarts(b) PROVE InCycle'
  <2>1. \A d \in Rovers : IF d = b THEN state'[d] = "awake"
                          ELSE state'[d] = state[d] /\ timer'[d] = timer[d] /\ cycle'[d] = cycle[d]
    BY <1>0, <1>3 DEF RoverRestarts
  <2> QED BY <2>1 DEF InCycle
<1>4. ASSUME Tick PROVE InCycle'
  <2>1. UNCHANGED <<state, cycle>>
        /\ timer' = [b \in Rovers |-> IF state[b] # "awake" THEN timer[b] - 1 ELSE timer[b]]
    BY <1>4 DEF Tick
  <2> QED BY <1>0, <2>1 DEF InCycle
<1>5. CASE UNCHANGED roverVars
  BY <1>5 DEF roverVars, InCycle
<1> QED BY <1>1, <1>2, <1>3, <1>4, <1>5 DEF Next, Wake, Sleep, SleepRepeat, WakeAgain, WakeTimesOut, BaseRestarts,
                                          Heard, Lost, Report, vars
\* The numbers of a rover.
LEMMA RoverFigures ==
  ASSUME SleepTypes, NEW b \in Rovers
  PROVE  /\ state[b] \in {"awake", "asleep", "listening"} /\ timer[b] \in Nat /\ cycle[b] \in Nat
         /\ (job.running => job.left \in Nat /\ job.due \in 0 .. 1)
<1>1. Cycles \cup {DefaultCycle} \subseteq Nat
  BY FleetSleepAssumption
<1>2. job.left \in 0 .. maxCycle + Listen + Margin /\ job.due \in 0 .. 1
  BY DEF SleepTypes, TypeOK
<1> QED BY <1>1, <1>2 DEF SleepTypes, TypeOK

LEMMA CallsStep ==
  ASSUME SlotPeriod = 1, Listen >= 3, SleepTypes, CallInv, [Next]_vars
  PROVE  Calls'
<1> DEFINE Called(b) == StillCalled(state[b], chances[b], Waiting, job.left, job.due, timer[b], cycle[b])
<1>0. /\ \A b \in Rovers : chances[b] \in Nat
      /\ chances \in [Rovers -> Nat]
      /\ state \in [Rovers -> {"awake", "asleep", "listening"}] /\ timer \in [Rovers -> Nat]
      /\ job.running => \A b \in Rovers : Names(job.ids, b) => Called(b)
  BY DEF CallInv, Calls, SleepTypes, TypeOK
<1>1. ASSUME NEW S \in SUBSET Rovers, Transmit(S) PROVE Calls'
  <2>1. queue # <<>> /\ queue' = Tail(queue) /\ UNCHANGED <<job, repeats>>
    BY <1>1 DEF Transmit
  <2> DEFINE f       == Head(queue)
             sleeps  == {b \in S : Names(f.ids, b) /\ f.action = "sleep"}
             wakes   == {b \in S : Names(f.ids, b) /\ f.action = "wake"}
             reached == {b \in Rovers : state[b] # "asleep" /\ Names(f.ids, b) /\ f.action = "wake"}
  <2>2. /\ state' = [b \in Rovers |-> IF b \in sleeps THEN "asleep" ELSE IF b \in wakes THEN "awake" ELSE state[b]]
        /\ cycle' = [b \in Rovers |-> IF b \in sleeps THEN f.cycle ELSE cycle[b]]
        /\ timer' = [b \in Rovers |-> IF b \in sleeps THEN f.cycle ELSE IF b \in wakes THEN 0 ELSE timer[b]]
        /\ chances' = [b \in Rovers |-> IF b \in reached /\ chances[b] < 2 THEN chances[b] + 1 ELSE chances[b]]
    BY <1>1 DEF Transmit
  <2>3. ASSUME job.running
        PROVE  f = WakeFrame(job.ids) /\ queue' = <<>> /\ repeats = {} /\ f.action = "wake" /\ f.ids = job.ids
    <3>1. queue = <<WakeFrame(job.ids)>> /\ repeats = {}
      BY <2>1, <2>3 DEF CallInv, Calls
    <3>2. f = WakeFrame(job.ids) /\ queue' = <<>>
      BY <2>1, <3>1
    <3> QED BY <3>1, <3>2 DEF WakeFrame
  <2>4. ASSUME job.running, NEW b \in Rovers, Names(job.ids, b)
        PROVE  StillCalled(state'[b], chances'[b], 0, job.left, job.due, timer'[b], cycle'[b])
    <3>1. b \notin sleeps /\ (b \in reached <=> state[b] # "asleep")
      BY <2>3, <2>4
    <3>2. CASE b \in wakes
      <4>1. state'[b] = "awake"
        BY <2>2, <3>1, <3>2
      <4> QED BY <4>1 DEF StillCalled
    <3>3. CASE b \notin wakes
      <4>1. state'[b] = state[b] /\ timer'[b] = timer[b] /\ cycle'[b] = cycle[b]
            /\ chances'[b] = IF state[b] # "asleep" /\ chances[b] < 2 THEN chances[b] + 1 ELSE chances[b]
        BY <2>2, <3>1, <3>3
      <4>2. StillCalled(state[b], chances[b], 1, job.left, job.due, timer[b], cycle[b])
        BY <1>0, <2>1, <2>4 DEF Waiting
      <4>3. job.left \in Nat /\ job.due \in Nat /\ timer[b] \in Nat /\ cycle[b] \in Nat /\ chances[b] \in Nat
        BY <1>0, <2>4, RoverFigures
      <4> QED BY <4>1, <4>2, <4>3, CalledWhenSent
    <3> QED BY <3>2, <3>3
  <2> HIDE DEF sleeps, wakes, reached, f
  <2>5. chances' \in [Rovers -> Nat]
    BY <1>0, <2>2
  <2>6. job.running => Waiting' = 0
    BY <2>3 DEF Waiting
  <2> QED BY <2>1, <2>3, <2>4, <2>5, <2>6 DEF Calls
<1>2. CASE Held /\ ~\E S \in SUBSET Rovers : Transmit(S)
  <2>0. queue = <<>> /\ Waiting = 0
    BY <1>2, FleetSleepAssumption DEF Held, Waiting
  <2>1. ASSUME NEW f, Submit(f) PROVE queue' = <<f>> /\ Waiting' = 1
    BY <1>2, <2>1, SentAlone DEF Waiting
  <2>2. ASSUME ~job'.running, chances' = chances PROVE Calls'
    BY <1>0, <2>2 DEF Calls
  <2>3. ~NoJob.running
    BY DEF NoJob
  <2>4. ASSUME NEW ids \in SUBSET Rovers, Wake(ids) PROVE Calls'
    <3>1. /\ job' = [ids |-> ids, left |-> maxCycle + Listen + Margin, due |-> 1, heard |-> {}, running |-> TRUE]
          /\ queue' = <<WakeFrame(ids)>> /\ Waiting' = 1 /\ repeats' = {} /\ chances' = [b \in Rovers |-> 0]
          /\ UNCHANGED <<state, timer, cycle>>
      BY <2>1, <2>4 DEF Wake, roverVars
    <3>2. ASSUME NEW b \in Rovers
          PROVE  StillCalled(state[b], 0, 1, maxCycle + Listen + Margin, 1, timer[b], cycle[b])
      <4>1. maxCycle \in Nat
        <5>1. Cycles \cup {DefaultCycle} \subseteq Nat
          BY FleetSleepAssumption
        <5> QED BY <5>1 DEF SleepTypes, TypeOK
      <4> QED BY <4>1, RoverFigures, CalledAtFirst DEF CallInv, CyclesKnown, InCycle
    <3> QED BY <3>1, <3>2 DEF Calls
  <2>5. ASSUME NEW ids \in SUBSET Rovers, NEW c \in Cycles, Sleep(ids, c) PROVE Calls'
    BY <2>2, <2>3, <2>5 DEF Sleep
  <2>6. ASSUME NEW r \in repeats, SleepRepeat(r) PROVE Calls'
    <3>1. ~job'.running
      BY <2>6 DEF SleepRepeat, CallInv, Calls
    <3> QED BY <2>2, <2>6, <3>1 DEF SleepRepeat, seenVars
  <2>7. ASSUME WakeAgain PROVE Calls'
    <3>1. job.running /\ job.due = 0 /\ job.left > 0 /\ job' = [job EXCEPT !.due = 1]
          /\ UNCHANGED <<repeats, state, timer, cycle, chances>>
      BY <2>7 DEF WakeAgain, roverVars, seenVars
    <3>2. queue' = <<WakeFrame(job.ids)>> /\ Waiting' = 1
      BY <2>1, <2>7 DEF WakeAgain
    <3>3. job'.ids = job.ids /\ job'.left = job.left /\ job'.due = 1
      BY <3>1 DEF SleepTypes, TypeOK
    <3>4. ASSUME NEW b \in Rovers, Names(job.ids, b)
          PROVE  StillCalled(state[b], chances[b], 1, job.left, 1, timer[b], cycle[b])
      <4>1. StillCalled(state[b], chances[b], 0, job.left, 0, timer[b], cycle[b])
        BY <1>0, <2>0, <3>1, <3>4
      <4>2. job.left \in Nat /\ timer[b] \in Nat /\ cycle[b] \in Nat /\ chances[b] \in Nat
        BY <1>0, <3>1, RoverFigures
      <4> QED BY <3>1, <4>1, <4>2, CalledAgain
    <3>5. repeats = {}
      BY <3>1 DEF CallInv, Calls
    <3> QED BY <1>0, <3>1, <3>2, <3>3, <3>4, <3>5 DEF Calls
  <2>8. ASSUME WakeTimesOut \/ BaseRestarts PROVE Calls'
    BY <2>2, <2>3, <2>8 DEF WakeTimesOut, BaseRestarts, seenVars
  <2>9. ASSUME NEW b \in Rovers, Heard(b) PROVE Calls'
    <3>1. UNCHANGED <<repeats, queue, state, timer, cycle, chances>>
      BY <2>9 DEF Heard, roverVars, seenVars
    <3>2. job' = job \/ job' = NoJob \/ job' = [job EXCEPT !.heard = job.heard \cup {b}]
      BY <2>9 DEF Heard
    <3>3. job'.running => job.running /\ job'.ids = job.ids /\ job'.left = job.left /\ job'.due = job.due
      BY <2>3, <3>2 DEF SleepTypes, TypeOK
    <3>4. Waiting' = Waiting
      BY <3>1 DEF Waiting
    <3> QED BY <3>1, <3>3, <3>4 DEF CallInv, Calls
  <2>10. ASSUME NEW b \in Rovers, RadioTimer(b) PROVE Calls'
    <3>1. /\ state[b] # "awake" /\ timer[b] = 0
          /\ state' = [state EXCEPT ![b] = IF @ = "asleep" THEN "listening" ELSE "asleep"]
          /\ timer' = [timer EXCEPT ![b] = IF state[b] = "asleep" THEN Listen ELSE cycle[b]]
          /\ UNCHANGED <<repeats, queue, job, cycle, chances>>
      BY <2>10 DEF RadioTimer, baseVars, seenVars
    <3>2. Waiting' = 0
      BY <2>0, <3>1 DEF Waiting
    <3>3. ASSUME job.running, NEW d \in Rovers, Names(job.ids, d)
          PROVE  StillCalled(state'[d], chances[d], 0, job.left, job.due, timer'[d], cycle[d])
      <4>1. StillCalled(state[d], chances[d], 0, job.left, job.due, timer[d], cycle[d])
        BY <1>0, <2>0, <3>3
      <4>2. job.left \in Nat /\ job.due \in Nat /\ job.due <= 1 /\ cycle[d] \in Nat /\ chances[d] \in Nat
        BY <1>0, <3>3, RoverFigures
      <4>3. CASE d # b
        BY <1>0, <3>1, <4>1, <4>3
      <4>4. CASE d = b /\ state[b] = "asleep"
        <5>1. state'[d] = "listening" /\ timer'[d] = Listen
          BY <1>0, <3>1, <4>4
        <5> QED BY <3>1, <4>1, <4>2, <4>4, <5>1, CalledInWindow
      <4>5. CASE d = b /\ state[b] = "listening"
        <5>1. state'[d] = "asleep" /\ timer'[d] = cycle[d]
          BY <1>0, <3>1, <4>5
        <5> QED BY <3>1, <4>1, <4>2, <4>5, <5>1, CalledAfterWindow
      <4> QED BY <1>0, <3>1, <4>3, <4>4, <4>5
    <3> QED BY <1>0, <3>1, <3>2, <3>3 DEF CallInv, Calls
  <2>11. ASSUME NEW b \in Rovers, RoverRestarts(b) PROVE Calls'
    <3>1. /\ state' = [state EXCEPT ![b] = "awake"] /\ cycle' = [cycle EXCEPT ![b] = DefaultCycle]
          /\ timer' = [timer EXCEPT ![b] = 0] /\ UNCHANGED <<repeats, queue, job, chances>>
      BY <2>11 DEF RoverRestarts, baseVars
    <3>2. Waiting' = Waiting
      BY <3>1 DEF Waiting
    <3>3. ASSUME NEW d \in Rovers, d # b
          PROVE  state'[d] = state[d] /\ cycle'[d] = cycle[d] /\ timer'[d] = timer[d]
      <4>1. cycle \in [Rovers -> Cycles \cup {DefaultCycle}]
        BY DEF SleepTypes, TypeOK
      <4> QED BY <1>0, <3>1, <3>3, <4>1
    <3>4. ASSUME NEW d \in Rovers, Called(d)
          PROVE  StillCalled(state'[d], chances[d], Waiting, job.left, job.due, timer'[d], cycle'[d])
      <4>1. CASE d = b
        <5>1. state'[d] = "awake"
          BY <1>0, <3>1, <4>1
        <5> QED BY <5>1 DEF StillCalled
      <4> QED BY <3>3, <3>4, <4>1
    <3> QED BY <1>0, <3>1, <3>2, <3>4 DEF CallInv, Calls
  <2>12. ASSUME Tick PROVE Calls'
    <3>1. /\ ~Due /\ UNCHANGED <<queue, state, cycle, chances>>
          /\ timer' = [b \in Rovers |-> IF state[b] # "awake" THEN timer[b] - 1 ELSE timer[b]]
          /\ job' = IF job.running THEN [job EXCEPT !.left = @ - 1, !.due = @ - 1] ELSE job
          /\ repeats' = {[r EXCEPT !.due = @ - 1] : r \in repeats}
      BY <2>12 DEF Tick, seenVars
    <3>2. Waiting' = 0 /\ queue' = <<>>
      BY <2>0, <3>1 DEF Waiting
    <3>3. CASE ~job.running
      BY <2>2, <3>1, <3>3
    <3>4. CASE job.running
      <4>1. job.due = 1 /\ job.left > 0 /\ job.left \in Nat
        <5>1. job.left \in 0 .. maxCycle + Listen + Margin /\ job.due \in 0 .. 1
          BY DEF SleepTypes, TypeOK
        <5> QED BY <3>1, <3>4, <5>1 DEF Due, SleepTypes
      <4>2. job'.ids = job.ids /\ job'.left = job.left - 1 /\ job'.due = 0
        BY <3>1, <3>4, <4>1 DEF SleepTypes, TypeOK
      <4>3. repeats' = {}
        BY <3>1, <3>4 DEF CallInv, Calls
      <4>4. ASSUME NEW b \in Rovers, Names(job.ids, b)
            PROVE  StillCalled(state[b], chances[b], 0, job.left - 1, 0, timer'[b], cycle[b])
        <5>1. StillCalled(state[b], chances[b], 0, job.left, 1, timer[b], cycle[b])
          BY <1>0, <2>0, <3>4, <4>1, <4>4
        <5>2. timer[b] \in Nat /\ cycle[b] \in Nat /\ chances[b] \in Nat
          BY <1>0, RoverFigures
        <5>3. CASE state[b] = "awake"
          BY <5>3 DEF StillCalled
        <5>4. CASE state[b] # "awake"
          <6>1. timer[b] # 0 /\ timer'[b] = timer[b] - 1
            BY <3>1, <5>4 DEF Due
          <6> QED BY <4>1, <5>1, <5>2, <6>1, CalledInTime
        <5> QED BY <5>3, <5>4
      <4> QED BY <1>0, <3>1, <3>2, <4>2, <4>3, <4>4 DEF Calls
    <3> QED BY <3>3, <3>4
  <2>13. ASSUME NEW b \in Rovers, Lost(b) \/ Report(b) PROVE Calls'
    BY <2>13 DEF Lost, Report, baseVars, roverVars, seenVars, CallInv, Calls, Waiting
  <2>14. CASE UNCHANGED vars
    BY <2>14 DEF vars, baseVars, roverVars, seenVars, CallInv, Calls, Waiting
  <2> QED BY <1>2, <2>4, <2>5, <2>6, <2>7, <2>8, <2>9, <2>10, <2>11, <2>12, <2>13, <2>14 DEF Next
<1>3. CASE UNCHANGED vars
  BY <1>3 DEF vars, baseVars, roverVars, seenVars, CallInv, Calls, Waiting
<1> QED BY <1>1, <1>2, <1>3 DEF Next

\* A wake whose time is up has given every rover it named two chances.
LEMMA CallsAreHeard ==
  ASSUME SlotPeriod = 1, SleepTypes, CallInv, [Next]_vars, WakeTimesOut
  PROVE  \A b \in Rovers : Names(job.ids, b) => state[b] = "awake" \/ chances[b] >= 2
<1>1. job.running /\ job.due = 0 /\ job.left = 0 /\ queue' = queue
  BY DEF WakeTimesOut
<1>2. queue = <<>>
  <2>1. CASE Held
    BY <2>1 DEF Held
  <2>2. CASE ~Held
    <3>1. UNCHANGED vars \/ \E S \in SUBSET Rovers : Transmit(S)
      BY <2>2 DEF Next
    <3>2. ~UNCHANGED vars
      BY <1>1 DEF vars, baseVars, WakeTimesOut, NoJob
    <3>3. PICK S \in SUBSET Rovers : Transmit(S)
      BY <3>1, <3>2
    <3> QED BY <1>1, <3>3 DEF Transmit, WakeTimesOut, NoJob
  <2> QED BY <2>1, <2>2
<1>3. ASSUME NEW b \in Rovers, Names(job.ids, b) PROVE state[b] = "awake" \/ chances[b] >= 2
  <2>1. StillCalled(state[b], chances[b], 0, 0, 0, timer[b], cycle[b])
    BY <1>1, <1>2, <1>3 DEF CallInv, Calls, Waiting
  <2>2. chances[b] \in Nat /\ timer[b] \in Nat /\ cycle[b] \in Nat
    BY RoverFigures DEF CallInv, Calls
  <2> QED BY <2>1, <2>2, CalledToTheEnd
<1> QED BY <1>3

\* Where the base's frames go out at once, and a listen window lasts three repeats or more, a wake
\* that runs its full time leaves no rover it names asleep that could not have heard it
\* twice, whenever that rover's radio comes on.
THEOREM WakesReachAll ==
  ASSUME SlotPeriod = 1, Listen >= 3, NoForgottenCycle
  PROVE  Spec => WakeReachesAll
<1> DEFINE Inv == SleepTypes /\ restarts \in Nat /\ CallInv
<1>1. Init => Inv
  <2> SUFFICES ASSUME Init PROVE restarts \in Nat /\ CallInv
    BY TypesStart
  <2>1. DefaultCycle \in Nat
    BY FleetSleepAssumption
  <2>2. CyclesKnown
    BY <2>1 DEF Init, CyclesKnown
  <2>3. InCycle
    BY DEF Init, InCycle
  <2>4. Calls
    BY DEF Init, Calls, NoJob
  <2> QED BY <2>2, <2>3, <2>4 DEF Init, CallInv
<1>2. Inv /\ [Next]_vars => Inv'
  <2> SUFFICES ASSUME Inv, [Next]_vars PROVE Inv'
    OBVIOUS
  <2>1. restarts' \in Nat
    BY DEF Next, Transmit, Wake, Sleep, SleepRepeat, WakeAgain, WakeTimesOut, BaseRestarts, Heard, Lost, Report,
           RadioTimer, RoverRestarts, Tick, Commanded, seenVars, vars
  <2> QED BY <2>1, TypesStep, CyclesKnownStep, InCycleStep, CallsStep DEF CallInv
<1>3. Inv /\ [Next]_vars
        => [WakeTimesOut => \A b \in Rovers : Names(job.ids, b) => state[b] = "awake" \/ chances[b] >= 2]_vars
  BY CallsAreHeard
<1> QED BY <1>1, <1>2, <1>3, PTL DEF Spec, WakeReachesAll
===============================================================================
