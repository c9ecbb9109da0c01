-------------------------------- MODULE TxQueue --------------------------------
(***************************************************************************)
(* The transmit scheduler of a boat (class TxScheduler of                  *)
(* src/src/txScheduler.js): frames wait until they are clear of the base's *)
(* correction bursts (src/src/txGate.js) and, in slot mode, until the      *)
(* boat's slot of the cycle. The cycle is timed from the bursts the boat   *)
(* hears (src/src/burstTracker.js), of which it may miss any.              *)
(*                                                                         *)
(* Time is discrete. It is counted from the last burst heard, since all of *)
(* the code's arithmetic is relative to it. A timer that is due may be up  *)
(* to MaxLate ticks late, as Node's are when a handler is busy.            *)
(***************************************************************************)
EXTENDS Integers, Sequences, FiniteSets, SequencesExt, FiniteSetsExt

CONSTANTS
  Cycle,      \* the true time between two bursts
  After,      \* a write is unsafe this long after a burst starts (TxGate.afterMs)
  Before,     \* and this long before the next one (TxGate.beforeMs)
  Width,      \* the width of a slot
  Guard,      \* a frame ends at least this long before its slot does
  Need,       \* the air time of a frame (airMs)
  Slots,      \* the slots this boat may be moved to
  FirstSlot,  \* the one it starts in, a join slot of its own
  Slack,      \* bursts are still heard until this long after the third missed one
  KeepGaps,   \* how many spacings of bursts are remembered (KEEP_STARTS - 1)
  MaxGap,     \* a spacing of more cycles is not counted (MAX_PERIOD_MS)
  QueueLimit, \* maxQueue
  MaxAge,     \* maxAgeMs
  Poll,       \* how often a boat out of step looks for bursts (_armFlush)
  SubmitAt,   \* bound: the moments of a cycle at which frames are submitted
  MaxLate     \* bound: how late a timer may be

ASSUME TxAssumption ==
  /\ {Cycle, Width, Need, KeepGaps, MaxGap, QueueLimit, Poll} \subseteq Nat \ {0}
  /\ {After, Before, Guard, Slack, MaxAge, MaxLate} \subseteq Nat
  /\ FirstSlot \in Slots /\ Slots \subseteq Nat
  /\ SubmitAt \subseteq 0 .. Cycle - 1

VARIABLES
  sinceBurst,      \* time since the last burst heard (t - tracker.lastStart)
  gaps,            \* the last spacings of bursts, in cycles (differences of tracker.starts)
  slot,            \* slot.index
  held,            \* queue: the frames that wait, oldest first
  pumpIn,          \* time left on timer, or NoTimer
  window,          \* window: the opening being filled, and how much of it is used
  flushIn,         \* time left on flushTimer
  flushArmed,      \* whether it was armed for a slot (wasAligned of _flushTick)
  flushWasAligned, \* flushWasAligned
  gathered,        \* how long the oldest fix held for this slot waits, or NoTimer
  wrote,           \* the frames written to the radio in the last step
  aired,           \* air time this boat used of its slot in this cycle
  lateBy,            \* how long a timer has been due
  moved            \* bound: the slot changes once between two ticks of flushTimer

txVars == <<sinceBurst, gaps, slot, held, pumpIn, window, flushIn, flushArmed,
            flushWasAligned, gathered, wrote, aired, lateBy, moved>>

NoTimer  == -1
NoWindow == [opens |-> -Width, used |-> 0]
Frames   == [slotted : BOOLEAN, age : 0 .. MaxAge + 1]

-----------------------------------------------------------------------------
(* What the tracker makes of the bursts it heard.                           *)

\* The i-th smallest spacing: i of them are not longer.
Ranked(i) == Min({x \in 1 .. MaxGap : Cardinality({j \in DOMAIN gaps : gaps[j] <= x}) >= i})

Period == (Cycle * (Ranked((Len(gaps) + 1) \div 2) + Ranked(Len(gaps) \div 2 + 1))) \div 2

\* The longest time a boat that heard nothing still counts on the bursts.
Horizon == 3 * MaxGap * Cycle + Slack

Hears == gaps # <<>> /\ sinceBurst <= 3 * Period + Slack

\* The burst, heard or predicted, at or before s (startAtOrBefore).
StartBefore(s) == (s \div Period) * Period

GateWait(s) ==
  LET prev == StartBefore(s)
      next == prev + Period
  IN  CASE ~Hears                -> 0
        [] Hears /\ s <= prev + After  -> prev + After - s
        [] Hears /\ s > prev + After /\ s >= next - Before -> next + After - s
        [] OTHER                 -> 0

SlotFits == After + slot * Width + Need + Before <= Period

\* The opening of the boat's slot in the k-th cycle from s on.
Opens(k, s) == StartBefore(s) + k * Period + After + slot * Width

Used(opens, w) == IF w.opens = opens THEN w.used ELSE 0

\* A frame may not start in this opening any more: it is over, too far gone or full.
Passed(opens, s, w) ==
  \/ s >= opens + Width
  \/ /\ s >= opens
     /\ \/ opens + Width - s < Need + Guard /\ opens + Width - s < Width
        \/ Used(opens, w) > 0 /\ Used(opens, w) + Need > Width - Guard

\* Mutant of SlotWait: one tick short.
SlotWaitNext(s, w) ==
  LET left == {k \in 0 .. 2 : ~Passed(Opens(k, s), s, w)}
  IN IF ~SlotFits \/ left = {} THEN 0
     ELSE LET opens == Opens(CHOOSE k \in left : \A j \in left : k <= j, s)
          IN IF s >= opens THEN 0 ELSE opens - s - 1

SlotWait(s, w) ==
  LET left == {k \in 0 .. 2 : ~Passed(Opens(k, s), s, w)}
  IN IF ~SlotFits \/ left = {} THEN 0
     ELSE LET opens == Opens(CHOOSE k \in left : \A j \in left : k <= j, s)
          IN IF s >= opens THEN 0 ELSE opens - s

\* _waitFor
WaitFor(slotted, w) ==
  LET gate == GateWait(sinceBurst)
  IN gate + IF slotted /\ Hears THEN SlotWait(sinceBurst + gate, w) ELSE 0

\* _markSlotUsed
Marked(w) ==
  LET ks == {k \in 0 .. 2 : sinceBurst < Opens(k, sinceBurst) + Width}
      opens == Opens(CHOOSE k \in ks : \A j \in ks : k <= j, sinceBurst)
  IN [opens |-> opens, used |-> Used(opens, w) + Need]

-----------------------------------------------------------------------------
(* Writing and holding frames.                                              *)

\* What the radio was handed, with what the property about slots asks of it.
FrameWritten(f, forced) ==
  [slotted |-> f.slotted, forced |-> forced, timed |-> Hears /\ SlotFits]

Airtime(fs) == Need * Cardinality({i \in DOMAIN fs : fs[i].slotted /\ fs[i].timed /\ ~fs[i].forced})

\* The queue without the frames at its head that are too old.
Fresh(q) == SubSeq(q, Max({0} \cup {n \in DOMAIN q : \A i \in 1 .. n : q[i].age > MaxAge}) + 1, Len(q))

\* The loop of _pump and _sendHead: frames of the queue q go out, and fill the window, as long as
\* they are clear; the others stay.
Sending(q) ==
  LET filled[n \in 0 .. Len(q)] ==
        IF n = 0 THEN window
        ELSE IF q[n].slotted /\ Hears THEN Marked(filled[n - 1]) ELSE filled[n - 1]
      clear(i) == ~Hears \/ WaitFor(q[i].slotted, filled[i - 1]) = 0
      n == Max({m \in 0 .. Len(q) : \A i \in 1 .. m : clear(i)})
  IN [out |-> [i \in 1 .. n |-> FrameWritten(q[i], FALSE)], left |-> SubSeq(q, n + 1, Len(q)), window |-> filled[n]]

\* submit: with nothing waiting a frame that is clear goes at once, else it queues.
Submit(slotted) ==
  LET f == [slotted |-> slotted, age |-> 0]
      clear == held = <<>> /\ (~Hears \/ WaitFor(slotted, window) = 0)
  IN IF clear
     THEN /\ wrote' = <<FrameWritten(f, FALSE)>>
          /\ window' = IF slotted /\ Hears THEN Marked(window) ELSE window
          /\ UNCHANGED <<held, pumpIn>>
     ELSE /\ held' = Append(IF Len(held) >= QueueLimit THEN Tail(held) ELSE held, f)
          /\ pumpIn' = 0
          /\ wrote' = <<>>
          /\ UNCHANGED window

\* Delay and alignment of the next _flushTick (_armFlush).
FlushDelay(s) ==
  LET opens == {o \in {StartBefore(s) + k * Period + After
                         + (IF SlotFits THEN slot ELSE 0) * Width : k \in 0 .. 2} : o > s}
  IN IF ~Hears THEN Poll
     ELSE (CHOOSE o \in opens : \A p \in opens : o <= p) - s

ArmFlush ==
  /\ flushIn' = FlushDelay(sinceBurst)
  /\ flushArmed' = Hears

-----------------------------------------------------------------------------
TxInit ==
  /\ sinceBurst = Horizon + 1
  /\ gaps = <<>>
  /\ slot = FirstSlot
  /\ held = <<>>
  /\ pumpIn = NoTimer
  /\ window = NoWindow
  /\ flushIn = Poll
  /\ flushArmed = FALSE
  /\ flushWasAligned = FALSE
  /\ gathered = NoTimer
  /\ wrote = <<>>
  /\ aired = 0
  /\ lateBy = 0
  /\ moved = FALSE

Moment == sinceBurst % Cycle

AiredNow == aired' = aired + Airtime(wrote')

\* A frame that belongs in no slot: a hello, an answer to a ping, a mark.
SubmitPlain ==
  /\ Moment \in SubmitAt
  /\ Submit(FALSE)
  /\ AiredNow
  /\ UNCHANGED <<sinceBurst, gaps, slot, flushIn, flushArmed, flushWasAligned, gathered, lateBy, moved>>

\* A fix of the boat: held for its slot while there is one, else a frame of its own
\* (queueFixForTx of boatAgent.js).
FixQueued ==
  /\ Moment \in SubmitAt
  /\ IF Hears
     THEN /\ gathered = NoTimer
          /\ gathered' = 0
          /\ wrote' = <<>>
          /\ UNCHANGED <<held, pumpIn, window>>
     ELSE Submit(TRUE) /\ gathered' = NoTimer
  /\ AiredNow
  /\ UNCHANGED <<sinceBurst, gaps, slot, flushIn, flushArmed, flushWasAligned, lateBy, moved>>

\* Mutant of Pump: what is not clear yet waits without a timer.
PumpOnce ==
  LET sent == Sending(Fresh(held))
  IN /\ pumpIn = 0
     /\ held' = sent.left
     /\ wrote' = sent.out
     /\ window' = sent.window
     /\ pumpIn' = NoTimer
     /\ AiredNow
     /\ UNCHANGED <<sinceBurst, gaps, slot, flushIn, flushArmed, flushWasAligned, gathered, lateBy, moved>>

\* _pump: what is too old goes, then all that is clear is sent, and a timer waits for the rest.
Pump ==
  LET sent == Sending(Fresh(held))
  IN /\ pumpIn = 0
     /\ held' = sent.left
     /\ wrote' = sent.out
     /\ window' = sent.window
     /\ pumpIn' = IF sent.left = <<>> THEN NoTimer
                  ELSE WaitFor(Head(sent.left).slotted, sent.window)
     /\ AiredNow
     /\ UNCHANGED <<sinceBurst, gaps, slot, flushIn, flushArmed, flushWasAligned, gathered, lateBy, moved>>

\* _flushTick: when its slot opens, and once when the bursts are lost, the boat sends
\* what it gathered (flushPendingBatch of boatAgent.js).
FlushTick ==
  /\ flushIn = 0
  /\ IF (flushArmed \/ (flushWasAligned /\ ~Hears)) /\ gathered # NoTimer
     THEN Submit(TRUE) /\ gathered' = NoTimer
     ELSE wrote' = <<>> /\ UNCHANGED <<held, pumpIn, window, gathered>>
  /\ flushWasAligned' = Hears
  /\ ArmFlush
  /\ AiredNow
  /\ moved' = FALSE
  /\ UNCHANGED <<sinceBurst, gaps, slot, lateBy>>

\* setSlot: the base's table gave the boat another slot.
SetSlot(s) ==
  /\ s # slot /\ ~moved
  /\ moved' = TRUE
  /\ slot' = s
  /\ UNCHANGED <<sinceBurst, gaps, held, flushWasAligned, lateBy>>
  /\ gathered' = IF gathered = NoTimer THEN NoTimer ELSE 0
  /\ window' = NoWindow
  /\ pumpIn' = IF held = <<>> THEN pumpIn ELSE 0
  /\ flushIn' = FlushDelay(sinceBurst)'
  /\ flushArmed' = Hears
  /\ wrote' = <<>>
  /\ aired' = 0

\* flushNow: the boat is about to exit, and starts again later.
FlushNow ==
  /\ held # <<>>
  /\ wrote' = [i \in 1 .. Len(held) |-> FrameWritten(held[i], TRUE)]
  /\ sinceBurst' = Horizon + 1
  /\ gaps' = <<>>
  /\ slot' = FirstSlot
  /\ held' = <<>>
  /\ pumpIn' = NoTimer
  /\ window' = NoWindow
  /\ flushIn' = Poll
  /\ flushArmed' = FALSE
  /\ flushWasAligned' = FALSE
  /\ gathered' = NoTimer
  /\ aired' = 0
  /\ lateBy' = 0
  /\ moved' = FALSE

-----------------------------------------------------------------------------
(* Time, and the bursts.                                                    *)

Due == 0 \in {pumpIn, flushIn}
Less(t) == IF t > 0 THEN t - 1 ELSE t
AgedFrame(f) == [f EXCEPT !.age = IF f.age > MaxAge THEN f.age ELSE f.age + 1]

\* Time passes; heard: a burst starts and this boat hears it (onRtcm).
Pass(heard) ==
  LET now == IF sinceBurst > Horizon THEN sinceBurst ELSE sinceBurst + 1
      gap == now \div Cycle
  IN /\ ~Due \/ lateBy < MaxLate
     /\ heard => now > Horizon \/ now % Cycle = 0
     /\ sinceBurst' = IF heard THEN 0 ELSE now
     /\ gaps' = IF ~heard \/ now > Horizon \/ gap > MaxGap THEN gaps
                ELSE Append(IF Len(gaps) = KeepGaps THEN Tail(gaps) ELSE gaps, gap)
     /\ window' = IF window.opens + Width <= now THEN NoWindow
                  ELSE IF heard THEN [window EXCEPT !.opens = @ - now] ELSE window
     /\ held' = [i \in 1 .. Len(held) |-> AgedFrame(held[i])]
     /\ pumpIn' = Less(pumpIn)
     /\ flushIn' = Less(flushIn)
     /\ gathered' = IF gathered = NoTimer \/ gathered > Horizon THEN gathered ELSE gathered + 1
     /\ lateBy' = IF Due THEN lateBy + 1 ELSE 0
     /\ aired' = IF sinceBurst' % Cycle = 0 THEN 0 ELSE aired
     /\ wrote' = <<>>
     /\ UNCHANGED <<slot, flushArmed, flushWasAligned, moved>>

TxNext ==
  \/ SubmitPlain
  \/ FixQueued
  \/ Pump
  \/ FlushTick
  \/ \E s \in Slots : SetSlot(s)
  \/ FlushNow
  \/ \E heard \in BOOLEAN : Pass(heard)

TxSpec == TxInit /\ [][TxNext]_txVars

-----------------------------------------------------------------------------
TxTypeOK ==
  /\ sinceBurst \in 0 .. Horizon + 1
  /\ gaps \in Seq(1 .. MaxGap) /\ Len(gaps) <= KeepGaps
  /\ slot \in Slots
  /\ held \in Seq(Frames) /\ Len(held) <= QueueLimit
  /\ pumpIn \in Int /\ flushIn \in Int
  /\ window \in [opens : Int, used : Nat]
  /\ {flushArmed, flushWasAligned, moved} \subseteq BOOLEAN
  /\ gathered \in -1 .. Horizon + 1
  /\ aired \in Nat
  /\ lateBy \in 0 .. MaxLate

\* Each slot starts, and is last free for a frame, in the cycle it is meant for. SlotFits says less:
\* that the slot is in the period, which a boat that heard few bursts takes for several cycles.
SlotsInCycle ==
  \A s \in Slots : After + s * Width < Cycle /\ After + (s + 1) * Width - Need - Guard <= Cycle - 1

\* The flush is in time: a boat looks for bursts again before those it hears can be lost, and
\* its polling and the lateness of its timers are short against the longest cycle.
FlushInTime ==
  After <= Cycle /\ Poll + MaxLate <= 3 * Cycle + Slack /\ Poll + 2 * MaxLate <= MaxGap * Cycle

\* A frame may start in no more than half a cycle after the slot opens.
SlotIsShort == 2 * (Width - Need - Guard) <= Cycle

\* A frame of a slot goes out in the boat's own slot of the true cycle, whatever the
\* boat heard or missed, as long as its idea of the period is a whole number of cycles.
InOwnSlot ==
  [][\A i \in 1 .. Len(wrote') :
       /\ wrote'[i].slotted /\ wrote'[i].timed /\ ~wrote'[i].forced
       /\ Period % Cycle = 0
       => Moment \in After + slot * Width .. After + (slot + 1) * Width - 1]_txVars

\* The slot is enough, and nothing is left in it: the frames of one cycle leave the guard free
\* for the next boat's, however they were released (at once, by the timer or by the flush), no
\* frame waits without a timer, and what the boat gathers for its slot is let go within two
\* cycles as it counts them, also when the bursts fall silent.
NothingStuck ==
  /\ aired <= Width - Guard \/ aired <= Need
  /\ held # <<>> => pumpIn # NoTimer
  /\ gathered <= 2 * MaxGap * Cycle

=============================================================================
