------------------------------- MODULE FrameKinds -------------------------------
(***************************************************************************)
(* The frames of the fleet's radio (src/src/protocol.js): what each kind   *)
(* is made of, how its writer squeezes values into fields, and what its    *)
(* reader makes of the fields. A frame is the sequence of its fields after *)
(* the sync byte, each a number of the field's width; ids, names and notes *)
(* are numbers too. FrameScan finds frames in the stream, and              *)
(* DeltaFrames does the arithmetic of the delta-coded batch.               *)
(*                                                                         *)
(* One writer sends one frame to one reader. The checksum is a sum, so     *)
(* damage may pass it: a reader checks what it acts on.                    *)
(***************************************************************************)
EXTENDS DeltaFrames, Integers, Sequences, FiniteSets, SequencesExt, FiniteSetsExt, Functions

CONSTANTS
  FrameValues, \* the frames that are sent: records [kind, of]
  Flips        \* the numbers a damaged field may turn into

VARIABLES
  wanted,  \* the value that was sent, a member of FrameValues
  wire,    \* the frame on its way, [kind, fields, intact]
  gotten   \* what the reader made of it: a value, or Unread

kindVars == <<wanted, wire, gotten>>

Unread  == [null |-> TRUE]
NoFrame == [kind |-> "none", fields |-> <<>>, intact |-> TRUE]

-----------------------------------------------------------------------------
(* Layouts: bytes of the fixed fields and of one item, and how many items.   *)

IdLen     == 5                          \* BOAT_ID_LEN
FixFields == <<4, 2, 4, 4, 2, 2, 1>>    \* time_s, time_ms, lat, lon, speed, heading, status
Bytes(widths) == FoldLeft(+, 0, widths)

FrameOf(sync, fixed, item, counts) == [sync |-> sync, fixed |-> fixed, item |-> item, counts |-> counts]

PositionFrame      == FrameOf(170, <<IdLen>> \o FixFields, <<>>, {0})
MarksFrame         == FrameOf(187, <<4, 2, 2, 1, 16>>, <<4, 4>>, {8})
PingFrame          == FrameOf(204, <<4>>, <<>>, {0})
PowerScheduleFrame == FrameOf(181, <<1, 1, 1, 4, 2, 2, 4, 4, 1, 1, 2, 2, 2, 2>>, <<>>, {0})
HelloFrame         == FrameOf(221, <<IdLen>>, <<>>, {0})
StatusHelloFrame   == FrameOf(157, <<IdLen, 1, 1, 1, 1, 2>>, <<>>, {0})
BatteryHelloFrame  == FrameOf(158, <<IdLen, 1, 1, 1, 1, 2, 1, 1>>, <<>>, {0})
BatchFrame         == FrameOf(238, <<1, IdLen>>, FixFields, 1 .. 4)
SetMarkFrame       == FrameOf(255, <<IdLen, 1, 1, 4, 4>>, <<>>, {0})
MarkLogFrame       == FrameOf(136, <<IdLen, 20>>, <<>>, {0})
DeltaBatchFrame    == FrameOf(231, <<1, IdLen>> \o FixFields, <<1, 2, 2, 1, 1, 1>>, 1 .. 7)
PowerFrame         == FrameOf(153, <<1, 1, 1>>, <<IdLen>>, 0 .. 18)
SlotTableFrame     == FrameOf(167, <<1, 1, 1, 1, 1>>, <<IdLen, 1>>, 0 .. 15)

Layouts ==
  {PositionFrame, MarksFrame, PingFrame, PowerScheduleFrame, HelloFrame, StatusHelloFrame,
   BatteryHelloFrame, BatchFrame, SetMarkFrame, MarkLogFrame, DeltaBatchFrame, PowerFrame, SlotTableFrame}
RtcmSync == 211

\* The sync byte, the fields and the checksum.
LengthOf(frame, n) == 1 + Bytes(frame.fixed) + n * Bytes(frame.item) + 1
Longest(frame)     == LengthOf(frame, Max(frame.counts))

RadioMaxPayload == 100  \* RADIO_MAX_PAYLOAD: what the radio sends in one packet

\* What protocol.js checks when it is loaded, and what its comments say of it: every kind starts
\* differently, fits one packet, the marks even with encryption on, and the delta-coded frame is
\* no bigger than the batch the slots are sized for (protocol.js:833).
FrameKindAssumption ==
  /\ \A k, l \in Layouts : k.sync = l.sync => k = l
  /\ \A k \in Layouts : k.sync # RtcmSync /\ Longest(k) <= RadioMaxPayload
  /\ Longest(MarksFrame) <= RadioMaxPayload - 9
  /\ Longest(DeltaBatchFrame) <= Longest(BatchFrame)
  /\ Longest(PositionFrame) = 26 /\ Longest(PowerScheduleFrame) = 31 /\ Longest(PingFrame) = 6
ASSUME FrameKindAssumption

-----------------------------------------------------------------------------
(* What the writers are handed: what they check themselves (an error is    *)
(* thrown) or their callers do. Numbers of 32 bits have no bound here.     *)

Uint8      == 0 .. 255
Uint16     == 0 .. Full16
MarkCount  == 8   \* MARK_NAMES
Latitudes  == -90 .. 90
Longitudes == -180 .. 180
WittyModes == 0 .. 2
Minutes    == 0 .. 1439

\* A part of the power schedule that the base has not set is null.
NoPart   == [managed |-> FALSE]
WittyParts == [managed : {TRUE}, mode : WittyModes, halts : BOOLEAN, start : Minutes, end : Minutes, lat : Int, lon : Int,
             before : Nat, after : Nat, days : Nat]
ShutdownParts == [managed : {TRUE}, enabled : BOOLEAN, whenIdle : BOOLEAN, time : Minutes, idle : Uint16, speed : Uint16]

NoPvt == [type |-> -1, carr |-> 0]
RadioFixes == [ts : Nat, lat : Int, lon : Int, speed : Int, heading : Int, ok : BOOLEAN, carr : Nat, sv : Nat]
Tables ==
  [version : 0 .. 127, practice : BOOLEAN, slotCount : Uint8 \ {0}, width : Uint8 \ {0}, joinSlots : Uint8,
   entries : Seq(Int \X Nat)]

Handed(kind) ==
  CASE kind = "position"  -> [id : Int, fix : RadioFixes]
    [] kind = "marks"     -> {v \in [marks : Seq(Int \X Int), ip : Int, port : Uint16, adminPort : Uint16, gate : BOOLEAN,
                                     name : Int] : Len(v.marks) = MarkCount}
    [] kind = "ping"      -> [ts : Nat]
    [] kind = "schedule"  -> [stamp : Nat, witty : WittyParts \cup {NoPart}, shutdown : ShutdownParts \cup {NoPart}]
    [] kind = "hello"     -> [id : Int]
    [] kind = "status"    -> [id : Int, flags : Uint8, power : Uint8, sv : Uint8,
                              fix : [type : 0 .. 5, carr : 0 .. 3] \cup {NoPvt},
                              build : Nat, dirty : BOOLEAN, battery : (Nat \X Nat) \cup {<<>>}]
    [] kind = "batch"     -> {v \in [id : Int, fixes : Seq(RadioFixes)] : Len(v.fixes) \in BatchFrame.counts}
    [] kind = "setMark"   -> [id : Int, mark : 0 .. MarkCount - 1, continuous : BOOLEAN, lat : Latitudes, lon : Longitudes]
    [] kind = "markLog"   -> [id : Int, label : Int]
    [] kind = "power"     -> {v \in [action : {"sleep", "wake"}, sleepS : Uint8, ids : Seq(Int)] :
                               Len(v.ids) \in PowerFrame.counts}
    [] kind = "slotTable" -> {v \in Tables :
                               /\ Len(v.entries) \in SlotTableFrame.counts /\ v.joinSlots < v.slotCount
                               /\ \A i \in DOMAIN v.entries : v.entries[i][2] < v.slotCount - v.joinSlots}

SentKinds == {"position", "marks", "ping", "schedule", "hello", "status", "batch", "setMark", "markLog", "power", "slotTable"}

FrameValuesAssumption ==
  /\ \A v \in FrameValues : v = [kind |-> v.kind, of |-> v.of] /\ v.kind \in SentKinds /\ v.of \in Handed(v.kind)
  /\ Flips \subseteq Nat
ASSUME FrameValuesAssumption

-----------------------------------------------------------------------------
(* Writing and reading fields.                                              *)

Bit(on)          == IF on THEN 1 ELSE 0
Between(x, a, b) == IF x < a THEN a ELSE IF x > b THEN b ELSE x

\* writeFixFields, readFixFields: a fix is [ts, lat, lon, speed, heading, ok, carr, sv]
WriteFixFields(f) ==
  <<f.ts \div 1000, f.ts % 1000, f.lat, f.lon, Between(f.speed, 0, 65535), f.heading % 3600,
    Bit(f.ok) + 2 * (f.carr % 4) + 8 * Between(f.sv, 0, 31)>>
ReadFixFields(w) ==
  [ts |-> w[1] * 1000 + w[2], lat |-> w[3], lon |-> w[4], speed |-> w[5], heading |-> w[6],
   ok |-> w[7] % 2 = 1, carr |-> (w[7] \div 2) % 4, sv |-> w[7] \div 8]

Encode(v) == <<v.id>> \o WriteFixFields(v.fix)
Decode(w) == [id |-> w[1], fix |-> ReadFixFields(Tail(w))]

\* Marks go in MARK_NAMES order; the rest of the frame is the base's addresses, gate and regatta.
EncodeMarks(v) == FlattenSeq(v.marks) \o <<v.ip, v.port, v.adminPort, Bit(v.gate), v.name>>
DecodeMarks(w) ==
  LET n == (Len(w) - 5) \div 2
  IN [marks |-> [i \in 1 .. n |-> <<w[2 * i - 1], w[2 * i]>>], ip |-> w[2 * n + 1], port |-> w[2 * n + 2],
      adminPort |-> w[2 * n + 3], gate |-> w[2 * n + 4] = 1, name |-> w[2 * n + 5]]

EncodePing(v) == <<v.ts \div 1000>>
DecodePing(w) == [ts |-> w[1] * 1000]

\* The bit of a part that is null is clear and its fields stay zero.
WittyFields(p) ==
  IF ~p.managed THEN <<0, 0, 0, 0, 0, 0, 0, 0>>
  ELSE <<p.mode + 128 * Bit(p.halts), p.start, p.end, p.lat, p.lon,
         Between(p.before, 0, 255), Between(p.after, 0, 255), Between(p.days, 0, 65535)>>
ShutdownFields(p) ==
  IF ~p.managed THEN <<0, 0, 0, 0>>
  ELSE <<Bit(p.enabled) + 2 * Bit(p.whenIdle), p.time, Between(p.idle, 0, 65535), Between(p.speed, 0, 65535)>>
EncodePowerSchedule(v) ==
  LET t == WittyFields(v.witty) s == ShutdownFields(v.shutdown)
  IN <<Bit(v.witty.managed) + 2 * Bit(v.shutdown.managed), t[1], s[1], v.stamp>> \o Tail(t) \o Tail(s)

DecodePowerSchedule(w) ==
  IF w[2] % 4 \notin WittyModes THEN Unread
  ELSE [stamp |-> w[4],
        witty |-> IF w[1] % 2 = 0 THEN NoPart
                  ELSE [managed |-> TRUE, mode |-> w[2] % 4, halts |-> w[2] >= 128,
                        start |-> w[5] % 1440, end |-> w[6] % 1440, lat |-> w[7], lon |-> w[8],
                        before |-> w[9], after |-> w[10], days |-> w[11]],
        shutdown |-> IF (w[1] \div 2) % 2 = 0 THEN NoPart
                     ELSE [managed |-> TRUE, enabled |-> w[3] % 2 = 1, whenIdle |-> (w[3] \div 2) % 2 = 1,
                           time |-> w[12] % 1440, idle |-> w[13], speed |-> w[14]]]

EncodeHello(v) == <<v.id>>
DecodeHello(w) == [id |-> w[1]]

\* The status hello: no PVT is 255, an unknown build 0, and the battery comes in a frame of its own.
EncodeStatusHello(v) ==
  <<v.id, v.flags % 256, v.power % 256, Between(v.sv, 0, 255),
    IF v.fix = NoPvt THEN 255 ELSE (v.fix.type % 16) + 16 * (v.fix.carr % 16),
    Between(v.build, 0, 32767) + 32768 * Bit(v.dirty)>>
  \o (IF v.battery = <<>> THEN <<>> ELSE <<Between(v.battery[1], 0, 100), Between(v.battery[2], 0, 255)>>)
DecodeStatusHello(w) ==
  [id |-> w[1], flags |-> w[2], power |-> w[3], sv |-> w[4],
   fix |-> IF w[5] = 255 THEN NoPvt ELSE [type |-> w[5] % 16, carr |-> w[5] \div 16],
   build |-> w[6] % 32768, dirty |-> w[6] >= 32768,
   battery |-> IF Len(w) = 6 THEN <<>> ELSE <<w[7], w[8]>>]

\* The fixes of one boat, oldest first. Count and length have to agree.
EncodeBatch(v) == <<Len(v.fixes), v.id>> \o FlattenSeq([i \in DOMAIN v.fixes |-> WriteFixFields(v.fixes[i])])
DecodeBatch(w) ==
  IF w[1] \notin BatchFrame.counts \/ Len(w) # 2 + 7 * w[1] THEN Unread
  ELSE [id |-> w[2], fixes |-> [i \in 1 .. w[1] |-> ReadFixFields(SubSeq(w, 7 * i - 4, 7 * i + 2))]]

\* Positions in a set-mark frame are checked against the globe, here in degrees.
EncodeSetMark(v) == <<v.id, v.mark, Bit(v.continuous), v.lat, v.lon>>
DecodeSetMark(w) ==
  IF w[2] >= MarkCount \/ w[4] \notin Latitudes \/ w[5] \notin Longitudes THEN Unread
  ELSE [id |-> w[1], mark |-> w[2], continuous |-> w[3] = 1, lat |-> w[4], lon |-> w[5]]

EncodeMarkLog(v) == <<v.id, v.label>>
DecodeMarkLog(w) == [id |-> w[1], label |-> w[2]]

\* Sleep is 1 and wake 2; no ids means every rover.
EncodePower(v) == <<IF v.action = "sleep" THEN 1 ELSE 2, v.sleepS, Len(v.ids)>> \o v.ids
DecodePower(w) ==
  IF w[1] \notin {1, 2} \/ w[3] \notin PowerFrame.counts \/ Len(w) # 3 + w[3] THEN Unread
  ELSE [action |-> IF w[1] = 1 THEN "sleep" ELSE "wake", sleepS |-> w[2], all |-> w[3] = 0, ids |-> SubSeq(w, 4, Len(w))]

EncodeSlotTable(v) ==
  <<v.version + 128 * Bit(v.practice), v.slotCount, v.width, v.joinSlots, Len(v.entries)>> \o FlattenSeq(v.entries)

\* The table is taken as a whole or not at all: no entry may lie outside the slots boats may own.
DecodeSlotTable(w) ==
  IF \/ w[5] \notin SlotTableFrame.counts \/ Len(w) # 5 + 2 * w[5]
     \/ w[2] < 1 \/ w[3] < 1 \/ w[4] >= w[2]
     \/ \E i \in 1 .. w[5] : w[2 * i + 5] >= w[2] - w[4]
  THEN Unread
  ELSE [version |-> w[1] % 128, practice |-> w[1] >= 128, slotCount |-> w[2], width |-> w[3], joinSlots |-> w[4],
        entries |-> [i \in 1 .. w[5] |-> <<w[2 * i + 4], w[2 * i + 5]>>]]

Written(kind, v) ==
  CASE kind = "position"  -> Encode(v)
    [] kind = "marks"     -> EncodeMarks(v)
    [] kind = "ping"      -> EncodePing(v)
    [] kind = "schedule"  -> EncodePowerSchedule(v)
    [] kind = "hello"     -> EncodeHello(v)
    [] kind = "status"    -> EncodeStatusHello(v)
    [] kind = "batch"     -> EncodeBatch(v)
    [] kind = "setMark"   -> EncodeSetMark(v)
    [] kind = "markLog"   -> EncodeMarkLog(v)
    [] kind = "power"     -> EncodePower(v)
    [] kind = "slotTable" -> EncodeSlotTable(v)

ReadBack(kind, w) ==
  CASE kind = "position"  -> Decode(w)
    [] kind = "marks"     -> DecodeMarks(w)
    [] kind = "ping"      -> DecodePing(w)
    [] kind = "schedule"  -> DecodePowerSchedule(w)
    [] kind = "hello"     -> DecodeHello(w)
    [] kind = "status"    -> DecodeStatusHello(w)
    [] kind = "batch"     -> DecodeBatch(w)
    [] kind = "setMark"   -> DecodeSetMark(w)
    [] kind = "markLog"   -> DecodeMarkLog(w)
    [] kind = "power"     -> DecodePower(w)
    [] kind = "slotTable" -> DecodeSlotTable(w)

-----------------------------------------------------------------------------
NoValue == [kind |-> "none", of |-> Unread]

KindInit == wanted = NoValue /\ wire = NoFrame /\ gotten = Unread

WriteFrame(v) ==
  /\ wire = NoFrame
  /\ wanted' = v
  /\ wire' = [kind |-> v.kind, fields |-> Written(v.kind, v.of), intact |-> TRUE]
  /\ gotten' = Unread

\* A field is damaged, and the checksum passes all the same.
DamageField ==
  /\ wire.intact
  /\ \E i \in DOMAIN wire.fields : \E x \in Flips :
       wire' = [kind |-> wire.kind, fields |-> [wire.fields EXCEPT ![i] = x], intact |-> FALSE]
  /\ UNCHANGED <<wanted, gotten>>

ReadFrameBack ==
  /\ wire # NoFrame
  /\ gotten' = ReadBack(wire.kind, wire.fields)
  /\ wire' = NoFrame
  /\ wanted' = IF wire.intact THEN wanted ELSE NoValue

KindNext == DamageField \/ ReadFrameBack \/ \E v \in FrameValues : WriteFrame(v)

KindSpec == KindInit /\ [][KindNext]_kindVars

-----------------------------------------------------------------------------
\* What a reader is meant to see: the value, cut to what the fields hold.
FixMeant(f) ==
  [f EXCEPT !.speed = Between(@, 0, 65535), !.heading = @ % 3600, !.carr = @ % 4, !.sv = Min({@, 31})]
WittyMeant(p) ==
  [p EXCEPT !.before = Min({@, 255}), !.after = Min({@, 255}), !.days = Min({@, 65535})]
Meant(kind, v) ==
  CASE kind = "position" -> [v EXCEPT !.fix = FixMeant(@)]
    [] kind = "batch"    -> [v EXCEPT !.fixes = [i \in DOMAIN @ |-> FixMeant(@[i])]]
    [] kind = "schedule" -> [v EXCEPT !.witty = IF @ = NoPart THEN @ ELSE WittyMeant(@)]
    [] kind = "ping"     -> [ts |-> 1000 * (v.ts \div 1000)]
    [] kind = "status"   -> [v EXCEPT !.build = Min({@, 32767}),
                                      !.battery = IF @ = <<>> THEN @ ELSE <<Min({@[1], 100}), Min({@[2], 255})>>]
    [] kind = "power"    -> [action |-> v.action, sleepS |-> v.sleepS, ids |-> v.ids, all |-> v.ids = <<>>]
    [] OTHER             -> v

\* What the handlers of a frame rely on, whoever sent it.
Usable(got) ==
  /\ "entries" \in DOMAIN got =>
       \A i \in DOMAIN got.entries : got.entries[i][2] < got.slotCount - got.joinSlots
  /\ "mark" \in DOMAIN got => got.mark < MarkCount /\ got.lat \in Latitudes
  /\ "witty" \in DOMAIN got => got.witty = NoPart \/ (got.witty.mode \in WittyModes /\ got.witty.start < 1440)

KindTypeOK ==
  /\ wanted \in FrameValues \cup {NoValue}
  /\ wire.kind \in {v.kind : v \in FrameValues} \cup {"none"} /\ wire.intact \in BOOLEAN

\* Every kind of frame is read as it was meant, whatever the corner of its values: bits shared by
\* two meanings (table version and practice flag, build and local changes, mode and halting), counts of
\* none and of the most, "not set". And damage that gets past the checksum never makes a reader
\* take a slot, a mark or a mode that does not exist: the frame is refused as a whole.
ReadAsMeant ==
  /\ wire = NoFrame /\ wanted # NoValue => gotten = Meant(wanted.kind, wanted.of)
  /\ gotten # Unread => Usable(gotten)

\* What a frame is read as is what was written into it, whichever kind it is: a batch of fixes that
\* are sent as differences (deltaOf, decodeDeltaBatch) never drifts from the fixes it was made of
\* by more than the steps of its units, also when a whole frame of it is lost, and any other frame
\* gives back its fields or is not read at all.
FramesReadAsSent == DeltaIsClose /\ ReadAsMeant

=============================================================================
