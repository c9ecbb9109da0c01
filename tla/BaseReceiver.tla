------------------------------ MODULE BaseReceiver ------------------------------
(***************************************************************************)
(* The base's own GPS receiver (src/src/baseGps.js) and the UBX parser in  *)
(* front of it (src/src/ubxParser.js): the serial port that is opened      *)
(* again after an error, the polls for the receiver's TMODE3 mode, and the *)
(* commands of the dashboard that switch it to survey-in or to a fixed     *)
(* position and save that. The receiver itself is modelled from how the    *)
(* code uses it. Time is counted in steps of half a second.                *)
(***************************************************************************)
EXTENDS Integers, Sequences, SequencesExt

CONSTANTS
  Sites, Typed, \* where the antenna may stand, and the positions an operator types: small units, as in splitHP
  RefreshDelay, PollEvery, ReopenDelay, \* TMODE3_REFRESH_DELAY_MS, TMODE3_POLL_INTERVAL_MS, REOPEN_DELAY_MS
  Clocks,       \* whether its clock may be valid: of BOOLEAN
  CommandsMost, \* bound: commands on their way to the receiver
  SwallowMost   \* bound: messages a damaged length may swallow

ReceiverAssumption ==
  /\ Sites \cup Typed \subseteq Int /\ Sites # {} /\ Clocks \subseteq BOOLEAN /\ Clocks # {}
  /\ {RefreshDelay, PollEvery, ReopenDelay, CommandsMost} \subseteq Nat \ {0} /\ SwallowMost \in Nat
  /\ RefreshDelay < PollEvery
ASSUME ReceiverAssumption

VARIABLES
  gpsPort,    \* currentGpsPort: "none", "opening" (what is written waits), "open"
  reopenIn, pollIn, \* the timers: time left, or Unset
  refreshIn,  \* the times left of requestTmode3Refresh
  toReceiver, fromReceiver,
  swallow,    \* how many of the next messages the parser takes for the payload of a damaged one
  receiver,   \* the receiver: its mode, the saved one, and where its antenna is
  shownMode, shownSvin, shownFix, \* baseGpsTmode3, baseGpsSvin, baseGpsFix
  steady      \* [for, byUs]: how long nothing was lost and the mode did not change, and who changed it last

receiverVars == <<gpsPort, reopenIn, pollIn, refreshIn, toReceiver, fromReceiver, swallow,
                  receiver, shownMode, shownSvin, shownFix, steady>>

TimerOff   == -1
NotHeard == [none |-> TRUE]
PollTmode3    == [do |-> "poll"]
Unsteady == [for |-> 0, byUs |-> FALSE]

-----------------------------------------------------------------------------
(* What goes over the wire.                                                 *)

\* splitHP: truncated, so that the remainder has the sign of the whole.
SplitHP(units) ==
  LET main == IF units < 0 THEN -(-units \div 100) ELSE units \div 100
  IN [main |-> main, hp |-> units - 100 * main]
JoinHP(split) == 100 * split.main + split.hp

Disabled == [mode |-> 0]
SetTmode3(mode, pos) ==
  [do |-> "set", tmode3 |-> IF mode = 2 THEN [mode |-> 2, lla |-> SplitHP(pos)] ELSE [mode |-> mode]]

DecodeTmode3(t) == IF t.mode = 2 THEN [mode |-> 2, pos |-> JoinHP(t.lla)] ELSE [mode |-> t.mode]
DecodeSvin(s) == [valid |-> s.valid, pos |-> JoinHP(s.mean)]
\* The clock of the receiver counts once it is valid, until then that of the base.
DecodePvt(p) == [pos |-> p.pos, stamp |-> IF p.utcValid THEN "gps" ELSE "local"]

-----------------------------------------------------------------------------
ReceiverInit ==
  /\ gpsPort = "none" /\ reopenIn = 0 /\ pollIn = TimerOff /\ refreshIn = {}
  /\ toReceiver = <<>> /\ fromReceiver = <<>> /\ swallow = 0
  /\ receiver = [tmode3 |-> Disabled, saved |-> Disabled, here |-> CHOOSE p \in Sites : TRUE]
  /\ shownMode = NotHeard /\ shownSvin = NotHeard /\ shownFix = NotHeard
  /\ steady = Unsteady

\* open: the first poll is written before the port is known to open.
OpenPort ==
  /\ gpsPort = "none" /\ reopenIn = 0
  /\ gpsPort' = "opening" /\ reopenIn' = TimerOff
  /\ toReceiver' = <<PollTmode3>> /\ fromReceiver' = <<>> /\ swallow' = 0
  /\ pollIn' = PollEvery
  /\ UNCHANGED <<refreshIn, receiver, shownMode, shownSvin, shownFix, steady>>

PortIsOpen ==
  /\ gpsPort = "opening" /\ gpsPort' = "open"
  /\ steady' = Unsteady
  /\ UNCHANGED <<reopenIn, pollIn, refreshIn, toReceiver, fromReceiver, swallow, receiver, shownMode, shownSvin, shownFix>>

\* It fails to open, or closes: what was written is lost, and another parser starts with the next
\* port. What was heard of the receiver stays. (The poll timer of a port that fails to open is
\* never cleared: it goes on writing to a port nobody has.)
PortFails ==
  /\ gpsPort # "none"
  /\ gpsPort' = "none" /\ reopenIn' = ReopenDelay
  /\ toReceiver' = <<>> /\ fromReceiver' = <<>> /\ swallow' = 0
  /\ pollIn' = TimerOff /\ steady' = Unsteady
  /\ UNCHANGED <<refreshIn, receiver, shownMode, shownSvin, shownFix>>

\* Mutant of PollTimer: the receiver is asked once, when the port opens.
PollTimerOnce ==
  /\ gpsPort # "none" /\ pollIn = 0
  /\ pollIn' = PollEvery
  /\ UNCHANGED <<gpsPort, reopenIn, refreshIn, toReceiver, fromReceiver, swallow, receiver, shownMode, shownSvin, shownFix, steady>>

PollTimer ==
  /\ gpsPort # "none" /\ pollIn = 0
  /\ pollIn' = PollEvery
  /\ toReceiver' = Append(toReceiver, PollTmode3)
  /\ UNCHANGED <<gpsPort, reopenIn, refreshIn, fromReceiver, swallow, receiver, shownMode, shownSvin, shownFix, steady>>

\* requestTmode3Refresh runs out: whichever port there is now is asked.
RefreshTimer ==
  /\ 0 \in refreshIn
  /\ refreshIn' = refreshIn \ {0}
  /\ toReceiver' = IF gpsPort = "none" THEN toReceiver ELSE Append(toReceiver, PollTmode3)
  /\ UNCHANGED <<gpsPort, reopenIn, pollIn, fromReceiver, swallow, receiver, shownMode, shownSvin, shownFix, steady>>

-----------------------------------------------------------------------------
(* The dashboard. Every command is refused while there is no port.          *)

Commanded(command) ==
  /\ gpsPort # "none" /\ Len(toReceiver) < CommandsMost
  /\ toReceiver' = Append(toReceiver, command)
  /\ refreshIn' = IF command.do = "set" THEN refreshIn \cup {RefreshDelay} ELSE refreshIn
  /\ UNCHANGED <<gpsPort, reopenIn, pollIn, fromReceiver, swallow, receiver, shownMode, shownSvin, shownFix, steady>>

SetSurveyIn == Commanded(SetTmode3(1, 0))

\* A typed position, or the mean of a valid survey, or else the last fix.
SetFixed ==
  \/ \E typed \in Typed : Commanded(SetTmode3(2, typed))
  \/ shownSvin # NotHeard /\ shownSvin.valid /\ Commanded(SetTmode3(2, shownSvin.pos))
  \/ ~(shownSvin # NotHeard /\ shownSvin.valid) /\ shownFix # NotHeard /\ Commanded(SetTmode3(2, shownFix.pos))

SaveConfig == Commanded([do |-> "save"])

-----------------------------------------------------------------------------
(* The receiver, external.                                                  *)

ReceiverHears ==
  /\ gpsPort = "open" /\ toReceiver # <<>> /\ fromReceiver = <<>>
  /\ LET command == Head(toReceiver)
     IN CASE command.do = "poll" ->
               /\ fromReceiver' = Append(fromReceiver, [kind |-> "cfg-tmode3", body |-> receiver.tmode3])
               /\ UNCHANGED <<receiver, steady>>
          [] command.do = "set" ->
               /\ receiver' = [receiver EXCEPT !.tmode3 = command.tmode3]
               /\ steady' = [for |-> 0, byUs |-> TRUE]
               /\ UNCHANGED fromReceiver
          [] command.do = "save" ->
               /\ receiver' = [receiver EXCEPT !.saved = receiver.tmode3]
               /\ UNCHANGED <<fromReceiver, steady>>
  /\ toReceiver' = Tail(toReceiver)
  /\ UNCHANGED <<gpsPort, reopenIn, pollIn, refreshIn, swallow, shownMode, shownSvin, shownFix>>

\* A fix, or while it surveys how far it is.
ReceiverReports ==
  /\ gpsPort = "open" /\ fromReceiver = <<>>
  /\ \E message \in {[kind |-> "nav-pvt", body |-> [pos |-> receiver.here, utcValid |-> valid]] : valid \in Clocks}
        \cup (IF receiver.tmode3.mode = 1
              THEN {[kind |-> "nav-svin", body |-> [valid |-> done, mean |-> SplitHP(receiver.here)]] : done \in BOOLEAN}
              ELSE {}) :
       fromReceiver' = <<message>>
  /\ UNCHANGED <<gpsPort, reopenIn, pollIn, refreshIn, toReceiver, swallow, receiver, shownMode, shownSvin, shownFix, steady>>

\* It loses its power, and may be set up elsewhere: it starts with what was saved.
ReceiverRestarts ==
  /\ \E place \in Sites :
       receiver' = [receiver EXCEPT !.tmode3 = receiver.saved, !.here = place]
  /\ steady' = Unsteady
  /\ UNCHANGED <<gpsPort, reopenIn, pollIn, refreshIn, toReceiver, fromReceiver, swallow, shownMode, shownSvin, shownFix>>

-----------------------------------------------------------------------------
\* _process, of the next message: it is whole; or it was damaged, fails its checksum and is
\* skipped for as long as its length says, with the messages that follow if that was damaged.
ParserTakes ==
  /\ fromReceiver # <<>> /\ fromReceiver' = Tail(fromReceiver)
  /\ \E damaged \in BOOLEAN :
       LET message == Head(fromReceiver)
           is(kind) == ~damaged /\ swallow = 0 /\ message.kind = kind
       IN /\ shownMode' = IF is("cfg-tmode3") THEN DecodeTmode3(message.body) ELSE shownMode
          /\ shownSvin' = IF is("nav-svin") THEN DecodeSvin(message.body) ELSE shownSvin
          /\ shownFix'  = IF is("nav-pvt") THEN DecodePvt(message.body) ELSE shownFix
          /\ IF swallow > 0 THEN swallow' = swallow - 1
             ELSE IF damaged THEN swallow' \in 0 .. SwallowMost ELSE UNCHANGED swallow
          /\ steady' = IF damaged \/ swallow > 0 THEN Unsteady ELSE steady
  /\ UNCHANGED <<gpsPort, reopenIn, pollIn, refreshIn, toReceiver, receiver>>

\* A port opens or fails, and everything on its way arrives, within a step; no timer that is due waits.
ReceiverTick ==
  /\ fromReceiver = <<>> /\ toReceiver = <<>>
  /\ reopenIn # 0 /\ pollIn # 0 /\ 0 \notin refreshIn
  /\ reopenIn' = IF reopenIn = TimerOff THEN TimerOff ELSE reopenIn - 1
  /\ pollIn' = IF pollIn = TimerOff THEN TimerOff ELSE pollIn - 1
  /\ refreshIn' = {left - 1 : left \in refreshIn}
  /\ steady' = [steady EXCEPT !.for = IF @ > PollEvery \/ gpsPort # "open" THEN @ ELSE @ + 1]
  /\ UNCHANGED <<gpsPort, toReceiver, fromReceiver, swallow, receiver, shownMode, shownSvin, shownFix>>

ReceiverNext ==
  \/ OpenPort \/ PortIsOpen \/ PortFails \/ PollTimer \/ RefreshTimer
  \/ SetSurveyIn \/ SetFixed \/ SaveConfig
  \/ ReceiverHears \/ ReceiverReports \/ ReceiverRestarts
  \/ ParserTakes \/ ReceiverTick

ReceiverSpec == ReceiverInit /\ [][ReceiverNext]_receiverVars

-----------------------------------------------------------------------------
ReceiverTypeOK ==
  /\ gpsPort \in {"none", "opening", "open"}
  /\ reopenIn \in TimerOff .. ReopenDelay /\ (reopenIn = TimerOff <=> gpsPort # "none")
  /\ pollIn \in TimerOff .. PollEvery /\ (pollIn = TimerOff <=> gpsPort = "none")
  /\ refreshIn \subseteq 0 .. RefreshDelay
  /\ swallow \in 0 .. SwallowMost /\ steady.for \in 0 .. PollEvery + 1

\* The dashboard shows the mode, and the position, the receiver really has: after a command as
\* soon as the refresh behind it has been answered, and after a power cut, a lost answer or a
\* port that came back with the next poll at the latest.
ModeIsShown ==
  gpsPort = "open" /\ steady.for > (IF steady.byUs THEN RefreshDelay ELSE PollEvery)
    => shownMode = DecodeTmode3(receiver.tmode3)

=============================================================================
