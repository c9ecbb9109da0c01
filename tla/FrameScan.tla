------------------------------- MODULE FrameScan -------------------------------
(***************************************************************************)
(* How a radio's byte stream becomes frames (RadioLink._onData of          *)
(* src/src/radioLink.js, over the formats of src/src/protocol.js). All     *)
(* frames of the fleet and the RTCM corrections share the stream; each     *)
(* kind has a sync byte, a length that is fixed or follows from a count in *)
(* its header, and a checksum. Bytes are lost and damaged on the way, and  *)
(* any byte of a frame may look like the start of another.                 *)
(*                                                                         *)
(* Bytes are the numbers below Radix, and the checksum is the sum of all   *)
(* bytes but the first modulo Radix, as it is modulo 256 in the code.      *)
(***************************************************************************)
EXTENDS Integers, Sequences, FiniteSets, SequencesExt, FiniteSetsExt

CONSTANTS
  Radix,      \* number of byte values
  FrameTypes, \* RadioLink.FRAME_TYPES: records [sync, header, place, counts, unit]: the bytes before
              \* the items, where the count of items is and which counts are valid (none: a
              \* fixed length), and the bytes of an item
  MaxHeard,   \* bound: bytes in a behaviour
  MaxChunk    \* bound: bytes that arrive together

FrameAssumption ==
  /\ Radix \in Nat \ {0} /\ MaxHeard \in Nat /\ MaxChunk \in Nat \ {0} /\ FrameTypes # {}
  /\ \A k \in FrameTypes : /\ k.sync \in 0 .. Radix - 1 /\ k.counts \subseteq 0 .. Radix - 1 /\ k.unit \in Nat
                          /\ k.header \in Nat \ {0, 1} /\ k.place \in 1 .. k.header
  /\ \A k, l \in FrameTypes : k.sync = l.sync => k = l
ASSUME FrameAssumption

VARIABLES
  heard,     \* history: every byte that arrived
  scanBuf,   \* _buf
  scanned,   \* history: how many bytes have left the buffer
  delivered  \* history: the frames emitted, as the places of their first and last bytes

frameVars == <<heard, scanBuf, scanned, delivered>>

ScanInit == heard = <<>> /\ scanBuf = <<>> /\ scanned = 0 /\ delivered = {}

\* The sum that ends a frame.
Checksum(bytes) == FoldLeft(+, 0, SubSeq(bytes, 2, Len(bytes) - 1)) % Radix

\* batchFrameLen and its like: a count out of range gives a length that is known at once, so that
\* noise never makes the scanner wait for a frame that cannot come.
FrameLen(k, bytes) ==
  IF k.counts # {} /\ bytes[k.place] \in k.counts
  THEN k.header + bytes[k.place] * k.unit + 1
  ELSE k.header + 1

\* FrameTypes with a getLen need their header before the length is known.
LenIsKnown(k, bytes) == k.counts = {} \/ Len(bytes) >= k.header

LongestFrame == Max({k.header + Max(k.counts \cup {0}) * k.unit + 1 : k \in FrameTypes})

\* decode: the whole candidate is a frame of this kind.
Decodes(k, bytes) ==
  /\ Len(bytes) > k.header /\ bytes[1] = k.sync
  /\ k.counts # {} => bytes[k.place] \in k.counts
  /\ Len(bytes) = FrameLen(k, bytes)
  /\ bytes[Len(bytes)] = Checksum(bytes)

KindOf(b) == CHOOSE k \in FrameTypes : k.sync = b
Syncs     == {k.sync : k \in FrameTypes}

\* n bytes leave the buffer, and frames are emitted.
Cut(s, n, frames) == [buf |-> SubSeq(s.buf, n + 1, Len(s.buf)), at |-> s.at + n, got |-> s.got \cup frames]

\* Mutant of Resync: a candidate that fails is dropped as a whole.
ResyncAfter(s, len) == Cut(s, len, {})

\* A false sync or a damaged frame: one byte goes, and the rest is searched again.
Resync(s, len) == Cut(s, 1, {})

\* One round of the loop, for a buffer that starts with a sync byte.
TryFrame(s) ==
  LET k     == KindOf(s.buf[1])
      len   == FrameLen(k, s.buf)
      whole == LenIsKnown(k, s.buf) /\ Len(s.buf) >= len
  IN CASE ~whole -> s  \* the rest has yet to arrive
       [] whole /\ Decodes(k, SubSeq(s.buf, 1, len)) -> Cut(s, len, {<<s.at + 1, s.at + len>>})
       [] OTHER -> Resync(s, len)

ScanRound(s) ==
  LET starts == {i \in DOMAIN s.buf : s.buf[i] \in Syncs}
  IN IF starts = {} THEN Cut(s, Len(s.buf), {}) ELSE TryFrame(Cut(s, Min(starts) - 1, {}))

\* The rounds until the buffer waits: each but the last drops a byte.
Scanned(start) ==
  LET after[n \in 0 .. Len(start.buf)] == IF n = 0 THEN start ELSE ScanRound(after[n - 1])
  IN after[Len(start.buf)]

\* _onData
ScanBytes(chunk) ==
  /\ Len(heard) + Len(chunk) <= MaxHeard
  /\ heard' = heard \o chunk
  /\ LET end == Scanned([buf |-> scanBuf \o chunk, at |-> scanned, got |-> delivered])
     IN scanBuf' = end.buf /\ scanned' = end.at /\ delivered' = end.got

ScanNext ==
  \/ \E n \in 1 .. MaxChunk : \E chunk \in [1 .. n -> 0 .. Radix - 1] : ScanBytes(chunk)
  \/ Len(heard) = MaxHeard /\ UNCHANGED frameVars  \* the bound is reached

ScanSpec == ScanInit /\ [][ScanNext]_frameVars

-----------------------------------------------------------------------------
ScanTypeOK ==
  /\ heard \in Seq(0 .. Radix - 1) /\ Len(heard) <= MaxHeard
  /\ scanned + Len(scanBuf) = Len(heard)
  /\ delivered \subseteq (1 .. Len(heard)) \X (1 .. Len(heard))

\* Every frame that arrived whole is delivered, whatever surrounds it: noise, halves of other
\* frames, bytes in it that look like the start of a frame, however the stream was cut into
\* chunks. It is only missed if its first byte belongs to something the checksum took for a
\* frame, and it waits for fewer bytes than the longest frame has.
FramesGetThrough ==
  /\ Len(scanBuf) < LongestFrame
  /\ \A p \in 1 .. scanned :
       heard[p] \in Syncs =>
         \A last \in p .. Len(heard) :
           Decodes(KindOf(heard[p]), SubSeq(heard, p, last)) =>
             \E d \in delivered : d[1] <= p /\ p <= d[2]

=============================================================================
