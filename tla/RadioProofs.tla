------------------------------- MODULE RadioProofs -------------------------------
(***************************************************************************)
(* Theorems about TxQueue, FrameScan, DeltaFrames and FrameKinds, for      *)
(* every value of their constants: when a boat's frames go out, what the   *)
(* stream of bytes becomes at the other end, what is read of a batch of    *)
(* fixes that is sent as differences, and of every other kind of frame.    *)
(***************************************************************************)
EXTENDS TxQueue, FrameScan, FrameKinds, FiniteSetTheorems, SequenceTheorems, WellFoundedInduction, TLAPS

\* Induction, as a fact about sets of numbers.
LEMMA UpToInduction ==
  ASSUME NEW N \in Nat, NEW T, 0 \in T, \A n \in 0 .. N - 1 : n \in T => n + 1 \in T
  PROVE  0 .. N \subseteq T
<1> DEFINE R == OpToRel(<, Nat)
           U == (0 .. N) \ T
<1> SUFFICES ASSUME U # {}
             PROVE  FALSE
  OBVIOUS
<1>1. U \subseteq Nat
  OBVIOUS
<1>2. PICK x \in U : \A y \in U : ~(<<y, x>> \in R)
  <2>1. IsWellFoundedOn(R, Nat)
    BY NatLessThanWellFounded
  <2> HIDE DEF R, U
  <2> QED
    BY <1>1, <2>1, WFMin
<1>3. x \in 1 .. N /\ x - 1 \in 0 .. N - 1
  OBVIOUS
<1>4. x - 1 \in U
  BY <1>3
<1>5. <<x - 1, x>> \in R
  BY <1>3 DEF OpToRel
<1> QED
  BY <1>2, <1>4, <1>5

-----------------------------------------------------------------------------
(* The largest of a set of numbers.                                         *)

LEMMA BoundedMax ==
  ASSUME NEW S \in SUBSET Nat, S # {}, NEW u \in Nat, \A x \in S : x <= u
  PROVE  Max(S) \in S /\ \A x \in S : x <= Max(S)
<1> DEFINE R == OpToRel(<, Nat)
           U == {u - x : x \in S}
<1>1. U \subseteq Nat /\ U # {}
  OBVIOUS
<1>2. PICK y \in U : \A z \in U : ~(<<z, y>> \in R)
  <2>1. IsWellFoundedOn(R, Nat)
    BY NatLessThanWellFounded
  <2> HIDE DEF R, U
  <2> QED
    BY <1>1, <2>1, WFMin
<1>3. PICK x \in S : y = u - x
  OBVIOUS
<1>4. ASSUME NEW z \in S
      PROVE  x >= z
  <2>1. u - z \in U /\ u - z \in Nat /\ y \in Nat /\ x \in Nat /\ z \in Nat
    BY <1>1
  <2> HIDE DEF U
  <2>2. u - z < y => <<u - z, y>> \in R
    BY <2>1 DEF OpToRel
  <2> HIDE DEF R
  <2>3. ~(u - z < y)
    BY <1>2, <2>1, <2>2
  <2> QED
    BY <1>3, <2>1, <2>3
<1>5. \E m \in S : \A z \in S : m >= z
  BY <1>4
<1>6. Max(S) \in S /\ \A z \in S : Max(S) >= z
  BY <1>5 DEF Max
<1> QED
  BY <1>6

LEMMA LeastIsIn ==
  ASSUME NEW S \in SUBSET Nat, S # {}
  PROVE  Min(S) \in S /\ \A x \in S : Min(S) <= x
<1> DEFINE R == OpToRel(<, Nat)
<1>1. PICK y \in S : \A z \in S : ~(<<z, y>> \in R)
  <2>1. IsWellFoundedOn(R, Nat)
    BY NatLessThanWellFounded
  <2> HIDE DEF R
  <2> QED
    BY <2>1, WFMin
<1>2. ASSUME NEW z \in S
      PROVE  y <= z
  <2>1. y \in Nat /\ z \in Nat
    OBVIOUS
  <2>2. z < y => <<z, y>> \in R
    BY <2>1 DEF OpToRel
  <2> HIDE DEF R
  <2> QED
    BY <1>1, <2>1, <2>2
<1>3. \E m \in S : \A z \in S : m <= z
  BY <1>2
<1>4. Min(S) \in S /\ \A z \in S : Min(S) <= z
  BY <1>3 DEF Min
<1> QED
  BY <1>4

LEMMA FiniteIsBounded ==
  ASSUME NEW S \in SUBSET Nat, IsFiniteSet(S)
  PROVE  \E u \in Nat : \A x \in S : x <= u
<1>1. PICK seq \in Seq(S) : \A x \in S : \E n \in 1 .. Len(seq) : seq[n] = x
  BY DEF IsFiniteSet
<1> DEFINE N == Len(seq)
           T == {n \in 0 .. N : \E u \in Nat : \A i \in 1 .. n : seq[i] <= u}
<1>2. N \in Nat /\ \A i \in 1 .. N : seq[i] \in Nat
  <2>1. N \in Nat
    BY LenProperties
  <2>2. \A i \in 1 .. N : seq[i] \in S
    BY ElementOfSeq
  <2> QED
    BY <2>1, <2>2
<1>3. 0 \in T
  BY <1>2
<1>4. ASSUME NEW n \in 0 .. N - 1, n \in T
      PROVE  n + 1 \in T
  <2>1. PICK u \in Nat : \A i \in 1 .. n : seq[i] <= u
    BY <1>4
  <2>2. seq[n + 1] \in Nat
    BY <1>2
  <2>3. \A i \in 1 .. n + 1 : seq[i] <= u + seq[n + 1]
    <3> TAKE i \in 1 .. n + 1
    <3>1. CASE i = n + 1
      BY <3>1, <2>2
    <3>2. CASE i # n + 1
      <4>1. i \in 1 .. n /\ seq[i] \in Nat
        BY <3>2, <1>2
      <4> QED
        BY <4>1, <2>1, <2>2
    <3> QED
      BY <3>1, <3>2
  <2>4. u + seq[n + 1] \in Nat /\ n + 1 \in 0 .. N
    BY <2>2, <1>2
  <2> QED
    BY <2>3, <2>4
<1>5. N \in T
  <2> HIDE DEF T
  <2>1. N \in Nat
    BY <1>2
  <2> HIDE DEF N
  <2>2. 0 .. N \subseteq T
    BY <1>3, <1>4, <2>1, UpToInduction
  <2> QED
    BY <2>1, <2>2
<1> QED
  BY <1>1, <1>5

-----------------------------------------------------------------------------
(* Products and remainders.                                                 *)

LEMMA Remainder ==
  ASSUME NEW a \in Int, NEW b \in Int, b > 0
  PROVE  a % b = a - b * (a \div b)
OBVIOUS

LEMMA DivMod ==
  ASSUME NEW a \in Int, NEW b \in Nat \ {0}
  PROVE  a \div b \in Int /\ a % b \in 0 .. b - 1
OBVIOUS

LEMMA ProductIsInt ==
  ASSUME NEW x \in Int, NEW y \in Int
  PROVE  x * y \in Int
OBVIOUS

LEMMA Grows ==
  ASSUME NEW x \in Int, NEW b \in Nat \ {0}, x >= 1
  PROVE  b * x >= b
OBVIOUS

LEMMA Dist ==
  ASSUME NEW x \in Int, NEW y \in Int, NEW b \in Int
  PROVE  b * x - b * y = b * (x - y)
OBVIOUS

LEMMA Assoc ==
  ASSUME NEW x \in Int, NEW y \in Int, NEW b \in Int
  PROVE  x * (b * y) = b * (x * y)
OBVIOUS

LEMMA ModIs ==
  ASSUME NEW n \in Int, NEW b \in Nat \ {0}, NEW r \in 0 .. b - 1
  PROVE  (b * n + r) % b = r
<1> DEFINE a == b * n + r
           q == a \div b
           m == a % b
<1>1. a \in Int
  BY ProductIsInt
<1>2. q \in Int /\ m \in 0 .. b - 1 /\ m = a - b * q
  <2>1. b \in Int /\ b > 0
    OBVIOUS
  <2> HIDE DEF a
  <2>2. q \in Int /\ m \in 0 .. b - 1
    BY <1>1, DivMod
  <2>3. m = a - b * q
    BY <1>1, <2>1, Remainder
  <2> QED
    BY <2>2, <2>3
<1>3. b * n \in Int /\ b * q \in Int /\ a = b * n + r
  BY <1>2, ProductIsInt
<1> HIDE DEF a, q, m
<1>4. CASE q > n
  <2>1. b * (q - n) >= b
    BY <1>2, <1>4, Grows
  <2>2. b * q - b * n >= b
    BY <1>2, <2>1, Dist
  <2> QED
    BY <1>2, <1>3, <2>2
<1>5. CASE q < n
  <2>1. b * (n - q) >= b
    BY <1>2, <1>5, Grows
  <2>2. b * n - b * q >= b
    BY <1>2, <2>1, Dist
  <2> QED
    BY <1>2, <1>3, <2>2
<1>6. CASE q = n
  <2>1. m = r
    BY <1>2, <1>3, <1>6
  <2> QED
    BY <2>1 DEF m, a
<1> QED
  BY <1>2, <1>4, <1>5, <1>6

LEMMA ProductGrows ==
  ASSUME NEW x \in Nat, NEW y \in Nat, NEW u \in Nat, x <= y
  PROVE  x * u \in Nat /\ x * u <= y * u
OBVIOUS

-----------------------------------------------------------------------------
(***************************************************************************)
(* FrameScan: every frame that arrives whole is delivered, for any kinds   *)
(* of frames, any bytes and any chunks.                                    *)
(***************************************************************************)

ByteValues == 0 .. Radix - 1
Stream == Seq(ByteValues)

\* What is left of a stream from a place on, and what a part of it holds.
LEMMA RestOf ==
  ASSUME NEW all \in Stream, NEW a \in 1 .. Len(all) + 1
  PROVE  /\ SubSeq(all, a, Len(all)) \in Stream
         /\ Len(SubSeq(all, a, Len(all))) = Len(all) - a + 1
         /\ \A i \in 1 .. Len(all) - a + 1 : SubSeq(all, a, Len(all))[i] = all[a + i - 1]
<1>1. Len(all) \in Nat /\ \A i \in 1 .. Len(all) : all[i] \in ByteValues
  BY LenProperties, ElementOfSeq DEF Stream
<1>2. \A i \in a .. Len(all) : all[i] \in ByteValues
  BY <1>1
<1> QED
  BY <1>1, <1>2, SubSeqProperties DEF Stream

LEMMA PartOf ==
  ASSUME NEW all \in Stream, NEW a \in 1 .. Len(all), NEW b \in a .. Len(all)
  PROVE  /\ SubSeq(all, a, b) \in Stream /\ Len(SubSeq(all, a, b)) = b - a + 1
         /\ \A i \in 1 .. b - a + 1 : SubSeq(all, a, b)[i] = all[a + i - 1]
<1>1. Len(all) \in Nat /\ \A i \in 1 .. Len(all) : all[i] \in ByteValues
  BY LenProperties, ElementOfSeq DEF Stream
<1>2. \A i \in a .. b : all[i] \in ByteValues
  BY <1>1
<1> QED
  BY <1>1, <1>2, SubSeqProperties DEF Stream

\* Streams are equal if their bytes are.
LEMMA SameBytes ==
  ASSUME NEW s \in Stream, NEW t \in Stream, Len(s) = Len(t), \A i \in 1 .. Len(s) : s[i] = t[i]
  PROVE  s = t
BY SeqEqual DEF Stream

-----------------------------------------------------------------------------
(* Lengths.                                                                 *)

LEMMA KindsType ==
  ASSUME NEW k \in FrameTypes
  PROVE  /\ k.sync \in ByteValues /\ k.header \in Nat \ {0, 1} /\ k.place \in 1 .. k.header
         /\ k.unit \in Nat /\ k.counts \subseteq ByteValues
BY FrameAssumption DEF FrameAssumption, ByteValues

LEMMA KindOfSync ==
  ASSUME NEW b \in Syncs
  PROVE  KindOf(b) \in FrameTypes /\ KindOf(b).sync = b
BY DEF Syncs, KindOf

\* How far a kind of frame may reach.
Reach(k) == k.header + Max(k.counts \cup {0}) * k.unit + 1

LEMMA LenType ==
  ASSUME NEW k \in FrameTypes, NEW s
  PROVE  FrameLen(k, s) \in Nat /\ FrameLen(k, s) >= k.header + 1 /\ FrameLen(k, s) <= Reach(k) /\ Reach(k) \in Nat
<1> DEFINE C == k.counts \cup {0}
           most == Max(C)
<1>1. /\ Radix \in Nat \ {0} /\ k.header \in Nat \ {0, 1} /\ k.unit \in Nat /\ k.counts \subseteq 0 .. Radix - 1
  BY KindsType, FrameAssumption DEF FrameAssumption, ByteValues
<1>2. most \in C /\ \A x \in C : x <= most
  <2>1. C \subseteq Nat /\ C # {} /\ \A x \in C : x <= Radix
    BY <1>1
  <2> HIDE DEF C
  <2> QED
    BY <1>1, <2>1, BoundedMax
<1>3. most \in Nat /\ 0 <= most
  BY <1>1, <1>2
<1>4. \A x \in k.counts : x \in Nat /\ x <= most
  BY <1>1, <1>2
<1> HIDE DEF most
<1>5. most * k.unit \in Nat
  BY <1>1, <1>3, ProductGrows
<1>6. Reach(k) = k.header + most * k.unit + 1
  BY DEF Reach, most
<1>7. CASE k.counts # {} /\ s[k.place] \in k.counts
  <2> DEFINE n == s[k.place]
  <2>1. n \in Nat /\ n <= most
    BY <1>4, <1>7
  <2>2. FrameLen(k, s) = k.header + n * k.unit + 1
    BY <1>7 DEF FrameLen
  <2> HIDE DEF n
  <2>3. n * k.unit \in Nat /\ n * k.unit <= most * k.unit
    BY <1>1, <1>3, <2>1, ProductGrows
  <2> QED
    BY <1>1, <1>5, <1>6, <2>2, <2>3
<1>8. CASE ~(k.counts # {} /\ s[k.place] \in k.counts)
  <2>1. FrameLen(k, s) = k.header + 1
    BY <1>8 DEF FrameLen
  <2> QED
    BY <1>1, <1>5, <1>6, <2>1
<1> QED
  BY <1>7, <1>8

LEMMA ReachIsLongest ==
  ASSUME NEW k \in FrameTypes
  PROVE  LongestFrame \in Nat /\ Reach(k) <= LongestFrame
<1> DEFINE S == {Reach(l) : l \in FrameTypes}
<1>1. S \subseteq Nat /\ S # {}
  <2> SUFFICES ASSUME NEW l \in FrameTypes
               PROVE  Reach(l) \in Nat
    OBVIOUS
  <2> QED
    BY LenType
<1>2. IsFiniteSet(S)
  <2> DEFINE f == [l \in FrameTypes |-> l.sync]
             g == [l \in FrameTypes |-> Reach(l)]
  <2>1. IsFiniteSet(ByteValues)
    BY FS_Interval, FrameAssumption DEF FrameAssumption, ByteValues
  <2>2. f \in Injection(FrameTypes, ByteValues)
    BY KindsType, FrameAssumption DEF FrameAssumption, Injection, IsInjective
  <2>3. IsFiniteSet(FrameTypes)
    BY <2>1, <2>2, FS_Injection
  <2>4. g \in Surjection(FrameTypes, S)
    BY DEF Surjection
  <2> QED
    BY <2>3, <2>4, FS_Surjection
<1>3. LongestFrame = Max(S)
  BY DEF LongestFrame, Reach
<1> HIDE DEF S
<1>4. PICK u \in Nat : \A x \in S : x <= u
  BY <1>1, <1>2, FiniteIsBounded
<1>5. Max(S) \in S /\ \A x \in S : x <= Max(S)
  BY <1>1, <1>4, BoundedMax
<1>6. Reach(k) \in S
  BY DEF S
<1> QED
  BY <1>1, <1>3, <1>5, <1>6

\* A length is told by the header alone.
LEMMA LenByHeader ==
  ASSUME NEW k \in FrameTypes, NEW s \in Stream, NEW t \in Stream,
         k.counts = {} \/ Len(s) >= k.header, Len(s) <= Len(t), \A i \in 1 .. Len(s) : s[i] = t[i]
  PROVE  FrameLen(k, s) = FrameLen(k, t)
<1>1. k.counts # {} => s[k.place] = t[k.place]
  <2>1. Len(s) \in Nat /\ k.place \in 1 .. k.header /\ k.header \in Nat
    BY KindsType, LenProperties DEF Stream
  <2> QED
    BY <2>1
<1> QED
  BY <1>1 DEF FrameLen

-----------------------------------------------------------------------------
(* What the scanner has made of the bytes that left its buffer.             *)

\* Read with the bytes behind it, the byte at p starts no frame, and never will.
NoFrameAt(all, p) ==
  LET rest == SubSeq(all, p, Len(all))
      k    == KindOf(all[p])
  IN /\ LenIsKnown(k, rest) /\ FrameLen(k, rest) <= Len(rest)
     /\ ~Decodes(k, SubSeq(rest, 1, FrameLen(k, rest)))

Covered(got, p) == \E d \in got : d[1] <= p /\ p <= d[2]

ScanStates == [buf : Stream, at : Nat, got : SUBSET (Nat \X Nat)]

\* s has the bytes of all that have not left the buffer, and those that have are accounted for.
ScanGood(s, all) ==
  /\ s \in ScanStates
  /\ s.at \in 0 .. Len(all) /\ s.buf = SubSeq(all, s.at + 1, Len(all))
  /\ s.got \subseteq (1 .. Len(all)) \X (1 .. Len(all))
  /\ \A p \in 1 .. s.at : all[p] \in Syncs => Covered(s.got, p) \/ NoFrameAt(all, p)

\* A buffer that is left as it is.
Waits(buf) ==
  \/ buf = <<>>
  \/ /\ buf[1] \in Syncs
     /\ ~(LenIsKnown(KindOf(buf[1]), buf) /\ Len(buf) >= FrameLen(KindOf(buf[1]), buf))

\* A byte that starts no frame starts none wherever that is said to end.
LEMMA FailsMeans ==
  ASSUME NEW all \in Stream, NEW p \in 1 .. Len(all), all[p] \in Syncs, NoFrameAt(all, p), NEW last \in p .. Len(all)
  PROVE  ~Decodes(KindOf(all[p]), SubSeq(all, p, last))
<1> DEFINE k == KindOf(all[p])
           rest == SubSeq(all, p, Len(all))
           part == SubSeq(all, p, last)
           len == FrameLen(k, rest)
<1>0. Len(all) \in Nat
  BY LenProperties DEF Stream
<1>1. k \in FrameTypes
  BY KindOfSync
<1>2. rest \in Stream /\ Len(rest) = Len(all) - p + 1 /\ \A i \in 1 .. Len(rest) : rest[i] = all[p + i - 1]
  BY <1>0, RestOf
<1>3. part \in Stream /\ Len(part) = last - p + 1 /\ \A i \in 1 .. Len(part) : part[i] = all[p + i - 1]
  BY PartOf
<1>4. len \in Nat /\ len >= k.header + 1 /\ k.header \in Nat
  BY <1>1, LenType, KindsType
<1>5. len <= Len(rest) /\ ~Decodes(k, SubSeq(rest, 1, len))
  BY DEF NoFrameAt
<1> SUFFICES ASSUME Decodes(k, part)
             PROVE  FALSE
  OBVIOUS
<1> HIDE DEF k, rest, part
<1>6. Len(part) > k.header /\ Len(part) = FrameLen(k, part)
  BY DEF Decodes
<1>7. FrameLen(k, part) = len
  <2>1. k.counts = {} \/ Len(part) >= k.header
    BY <1>0, <1>3, <1>4, <1>6
  <2>2. Len(part) <= Len(rest) /\ \A i \in 1 .. Len(part) : part[i] = rest[i]
    BY <1>0, <1>2, <1>3
  <2>3. FrameLen(k, part) = FrameLen(k, rest)
    BY <1>1, <1>2, <1>3, <2>1, <2>2, LenByHeader
  <2> QED
    BY <2>3
<1> HIDE DEF len
<1>8. SubSeq(rest, 1, len) = part
  <2> DEFINE x == SubSeq(rest, 1, len)
  <2>1. 1 \in 1 .. Len(rest) /\ len \in 1 .. Len(rest)
    BY <1>0, <1>2, <1>4, <1>5
  <2>2. x \in Stream /\ Len(x) = len - 1 + 1 /\ \A i \in 1 .. len - 1 + 1 : x[i] = rest[1 + i - 1]
    BY <1>2, <2>1, PartOf
  <2> HIDE DEF x
  <2>3. Len(x) = Len(part) /\ \A i \in 1 .. Len(x) : x[i] = part[i]
    BY <1>0, <1>2, <1>3, <1>4, <1>5, <1>6, <1>7, <2>2
  <2>4. x = part
    BY <1>3, <2>2, <2>3, SameBytes
  <2> QED
    BY <2>4 DEF x
<1> QED
  BY <1>5, <1>8

\* And does so whatever arrives later.
LEMMA FailsStays ==
  ASSUME NEW all \in Stream, NEW p \in 1 .. Len(all), all[p] \in Syncs, NoFrameAt(all, p),
         NEW more \in Stream, NEW whole, whole = all \o more
  PROVE  NoFrameAt(whole, p)
<1> DEFINE k == KindOf(all[p])
           rest == SubSeq(all, p, Len(all))
           long == SubSeq(whole, p, Len(whole))
           len == FrameLen(k, rest)
<1>0. Len(all) \in Nat /\ Len(more) \in Nat
  BY LenProperties DEF Stream
<1>1. k \in FrameTypes
  BY KindOfSync
<1>2. whole \in Stream /\ Len(whole) = Len(all) + Len(more) /\ \A i \in 1 .. Len(all) : whole[i] = all[i]
  BY <1>0, ConcatProperties DEF Stream
<1>3. rest \in Stream /\ Len(rest) = Len(all) - p + 1 /\ \A i \in 1 .. Len(rest) : rest[i] = all[p + i - 1]
  BY <1>0, RestOf
<1>4. long \in Stream /\ Len(long) = Len(whole) - p + 1 /\ \A i \in 1 .. Len(long) : long[i] = whole[p + i - 1]
  <2>1. p \in 1 .. Len(whole) + 1
    BY <1>0, <1>2
  <2>2. Len(long) = Len(whole) - p + 1 /\ Len(whole) - p + 1 \in Nat
    BY <1>0, <1>2, <2>1, RestOf
  <2> QED
    BY <1>2, <2>1, <2>2, RestOf
<1>5. len \in Nat /\ len >= k.header + 1 /\ k.header \in Nat
  BY <1>1, LenType, KindsType
<1>6. LenIsKnown(k, rest) /\ len <= Len(rest) /\ ~Decodes(k, SubSeq(rest, 1, len))
  BY DEF NoFrameAt
<1>7. whole[p] = all[p]
  BY <1>2
<1> HIDE DEF rest, long
<1>8. Len(rest) <= Len(long) /\ \A i \in 1 .. Len(rest) : rest[i] = long[i]
  <2>1. Len(rest) <= Len(long)
    BY <1>0, <1>2, <1>3, <1>4
  <2>2. ASSUME NEW i \in 1 .. Len(rest)
        PROVE  rest[i] = long[i]
    <3>1. p + i - 1 \in 1 .. Len(all) /\ i \in 1 .. Len(long)
      BY <1>0, <1>2, <1>3, <1>4
    <3> QED
      BY <1>2, <1>3, <1>4, <3>1
  <2> QED
    BY <2>1, <2>2
<1>9. FrameLen(k, long) = len
  BY <1>1, <1>3, <1>4, <1>6, <1>8, LenByHeader DEF LenIsKnown
<1> HIDE DEF len
<1>10. LenIsKnown(k, long) /\ len <= Len(long)
  BY <1>3, <1>4, <1>5, <1>6, <1>8, <1>0, <1>2 DEF LenIsKnown
<1>11. SubSeq(long, 1, len) = SubSeq(rest, 1, len)
  <2>1. 1 \in 1 .. Len(rest) /\ len \in 1 .. Len(rest)
    BY <1>0, <1>3, <1>5, <1>6
  <2>2. 1 \in 1 .. Len(long) /\ len \in 1 .. Len(long)
    BY <1>0, <1>2, <1>4, <1>5, <1>10
  <2> DEFINE x == SubSeq(rest, 1, len)
             y == SubSeq(long, 1, len)
  <2>3. x \in Stream /\ Len(x) = len - 1 + 1 /\ \A i \in 1 .. len - 1 + 1 : x[i] = rest[1 + i - 1]
    BY <1>3, <2>1, PartOf
  <2>4. y \in Stream /\ Len(y) = len - 1 + 1 /\ \A i \in 1 .. len - 1 + 1 : y[i] = long[1 + i - 1]
    BY <1>4, <2>2, PartOf
  <2> HIDE DEF x, y
  <2>5. Len(x) = Len(y) /\ \A i \in 1 .. Len(x) : x[i] = y[i]
    <3>1. len - 1 + 1 = len /\ \A i \in 1 .. len : 1 + i - 1 = i /\ i \in 1 .. Len(rest)
      BY <1>0, <1>3, <1>5, <1>6
    <3> QED
      BY <1>8, <2>3, <2>4, <3>1
  <2>6. x = y
    BY <2>3, <2>4, <2>5, SameBytes
  <2> QED
    BY <2>6 DEF x, y
<1> QED
  BY <1>6, <1>7, <1>9, <1>10, <1>11 DEF NoFrameAt, k, long

-----------------------------------------------------------------------------
(* A round of the scanner.                                                  *)

LEMMA GoodBuffer ==
  ASSUME NEW all \in Stream, NEW s, ScanGood(s, all)
  PROVE  /\ Len(all) \in Nat /\ s.at \in 0 .. Len(all) /\ s.buf \in Stream /\ Len(s.buf) = Len(all) - s.at
         /\ \A i \in 1 .. Len(s.buf) : s.buf[i] = all[s.at + i]
<1>1. Len(all) \in Nat
  BY LenProperties DEF Stream
<1>2. s.at \in 0 .. Len(all) /\ s.buf = SubSeq(all, s.at + 1, Len(all))
  BY DEF ScanGood
<1>3. s.at + 1 \in 1 .. Len(all) + 1
  BY <1>1, <1>2
<1>4. /\ SubSeq(all, s.at + 1, Len(all)) \in Stream
      /\ Len(SubSeq(all, s.at + 1, Len(all))) = Len(all) - (s.at + 1) + 1
      /\ \A i \in 1 .. Len(all) - (s.at + 1) + 1 : SubSeq(all, s.at + 1, Len(all))[i] = all[s.at + 1 + i - 1]
  BY <1>3, RestOf
<1>5. Len(s.buf) = Len(all) - s.at
  BY <1>1, <1>2, <1>4
<1>6. ASSUME NEW i \in 1 .. Len(s.buf)
      PROVE  s.buf[i] = all[s.at + i]
  <2>1. i \in 1 .. Len(all) - (s.at + 1) + 1 /\ s.at + 1 + i - 1 = s.at + i
    BY <1>1, <1>2, <1>5
  <2>2. SubSeq(all, s.at + 1, Len(all))[i] = all[s.at + 1 + i - 1]
    BY <1>4, <2>1
  <2> QED
    BY <1>2, <2>1, <2>2
<1> QED
  BY <1>1, <1>2, <1>4, <1>5, <1>6

\* A cut is sound if the bytes that leave it are accounted for.
LEMMA CutGood ==
  ASSUME NEW all \in Stream, NEW s, ScanGood(s, all), NEW n \in 0 .. Len(s.buf),
         NEW frames \in SUBSET ((1 .. Len(all)) \X (1 .. Len(all))),
         \A p \in s.at + 1 .. s.at + n : all[p] \in Syncs => Covered(frames, p) \/ NoFrameAt(all, p)
  PROVE  /\ ScanGood(Cut(s, n, frames), all) /\ Len(Cut(s, n, frames).buf) = Len(s.buf) - n
         /\ \A i \in 1 .. Len(s.buf) - n : Cut(s, n, frames).buf[i] = s.buf[n + i]
<1> DEFINE rest == SubSeq(s.buf, n + 1, Len(s.buf))
           same == SubSeq(all, s.at + n + 1, Len(all))
           got == s.got \cup frames
<1>1. /\ Len(all) \in Nat /\ s.at \in 0 .. Len(all) /\ s.buf \in Stream /\ Len(s.buf) = Len(all) - s.at
      /\ \A i \in 1 .. Len(s.buf) : s.buf[i] = all[s.at + i]
  BY GoodBuffer
<1>2. n + 1 \in 1 .. Len(s.buf) + 1 /\ s.at + n + 1 \in 1 .. Len(all) + 1
  BY <1>1
<1>0. Len(s.buf) \in Nat /\ s.at \in Nat /\ n \in Nat /\ n <= Len(s.buf)
  <2>1. Len(s.buf) \in Nat
    BY <1>1, LenProperties DEF Stream
  <2> QED
    BY <1>1, <2>1
<1>3. /\ rest \in Stream /\ Len(rest) = Len(s.buf) - n
      /\ \A i \in 1 .. Len(s.buf) - n : rest[i] = s.buf[n + i]
  <2>1. /\ rest \in Stream /\ Len(rest) = Len(s.buf) - (n + 1) + 1
        /\ \A i \in 1 .. Len(s.buf) - (n + 1) + 1 : rest[i] = s.buf[n + 1 + i - 1]
    BY <1>1, <1>2, RestOf
  <2> HIDE DEF rest
  <2>2. Len(s.buf) - (n + 1) + 1 = Len(s.buf) - n
    BY <1>0
  <2>3. ASSUME NEW i \in 1 .. Len(s.buf) - n
        PROVE  rest[i] = s.buf[n + i]
    <3>1. n + 1 + i - 1 = n + i
      BY <1>0
    <3> QED
      BY <2>1, <2>2, <3>1
  <2> QED
    BY <2>1, <2>2, <2>3
<1>4. /\ same \in Stream /\ Len(same) = Len(s.buf) - n
      /\ \A i \in 1 .. Len(s.buf) - n : same[i] = all[s.at + n + i]
  <2>1. /\ same \in Stream /\ Len(same) = Len(all) - (s.at + n + 1) + 1
        /\ \A i \in 1 .. Len(all) - (s.at + n + 1) + 1 : same[i] = all[s.at + n + 1 + i - 1]
    BY <1>2, RestOf
  <2> HIDE DEF same
  <2>2. Len(all) - (s.at + n + 1) + 1 = Len(s.buf) - n
    BY <1>0, <1>1
  <2>3. ASSUME NEW i \in 1 .. Len(s.buf) - n
        PROVE  same[i] = all[s.at + n + i]
    <3>1. s.at + n + 1 + i - 1 = s.at + n + i
      BY <1>0
    <3> QED
      BY <2>1, <2>2, <3>1
  <2> QED
    BY <2>1, <2>2, <2>3
<1> HIDE DEF rest, same, got
<1>5. rest = same
  <2>1. ASSUME NEW i \in 1 .. Len(rest)
        PROVE  rest[i] = same[i]
    <3>1. i \in 1 .. Len(s.buf) - n /\ n + i \in 1 .. Len(s.buf) /\ s.at + (n + i) = s.at + n + i
      BY <1>1, <1>3
    <3> QED
      BY <1>1, <1>3, <1>4, <3>1
  <2> QED
    BY <1>3, <1>4, <2>1, SameBytes
<1>6. s.at + n \in 0 .. Len(all) /\ s.at + n \in Nat
  BY <1>1
<1>7. /\ \A p \in 1 .. s.at : all[p] \in Syncs => Covered(got, p) \/ NoFrameAt(all, p)
      /\ \A p \in s.at + 1 .. s.at + n : all[p] \in Syncs => Covered(got, p) \/ NoFrameAt(all, p)
      /\ got \subseteq (1 .. Len(all)) \X (1 .. Len(all))
  <2>1. \A p : Covered(s.got, p) \/ Covered(frames, p) => Covered(got, p)
    BY DEF Covered, got
  <2>2. s.got \subseteq (1 .. Len(all)) \X (1 .. Len(all))
    BY DEF ScanGood
  <2>3. got \subseteq (1 .. Len(all)) \X (1 .. Len(all))
    BY <2>2 DEF got
  <2>4. \A p \in 1 .. s.at : all[p] \in Syncs => Covered(s.got, p) \/ NoFrameAt(all, p)
    BY DEF ScanGood
  <2> QED
    BY <2>1, <2>3, <2>4
<1>8. \A p \in 1 .. s.at + n : all[p] \in Syncs => Covered(got, p) \/ NoFrameAt(all, p)
  <2> TAKE p \in 1 .. s.at + n
  <2>1. p \in 1 .. s.at \/ p \in s.at + 1 .. s.at + n
    BY <1>1
  <2> QED
    BY <1>7, <2>1
<1>9. got \in SUBSET (Nat \X Nat)
  BY <1>1, <1>7
<1>10. /\ Cut(s, n, frames).buf = rest /\ Cut(s, n, frames).at = s.at + n /\ Cut(s, n, frames).got = got
       /\ Cut(s, n, frames) \in ScanStates
  BY <1>3, <1>6, <1>9 DEF Cut, rest, got, ScanStates
<1>11. Cut(s, n, frames).buf = SubSeq(all, Cut(s, n, frames).at + 1, Len(all))
  BY <1>5, <1>10 DEF same
<1> QED
  BY <1>3, <1>6, <1>7, <1>8, <1>10, <1>11 DEF ScanGood

\* A round for a buffer that starts with a sync byte.
LEMMA TryGood ==
  ASSUME NEW all \in Stream, NEW s, ScanGood(s, all), s.buf # <<>>, s.buf[1] \in Syncs
  PROVE  /\ ScanGood(TryFrame(s), all) /\ Len(TryFrame(s).buf) <= Len(s.buf)
         /\ Waits(s.buf) => TryFrame(s) = s
         /\ ~Waits(s.buf) => Len(TryFrame(s).buf) < Len(s.buf)
<1> DEFINE k == KindOf(s.buf[1])
           len == FrameLen(k, s.buf)
           whole == LenIsKnown(k, s.buf) /\ Len(s.buf) >= len
           frame == {<<s.at + 1, s.at + len>>}
<1>1. /\ Len(all) \in Nat /\ s.at \in 0 .. Len(all) /\ s.buf \in Stream /\ Len(s.buf) = Len(all) - s.at
      /\ \A i \in 1 .. Len(s.buf) : s.buf[i] = all[s.at + i]
  BY GoodBuffer
<1>2. s.at \in Nat /\ Len(s.buf) \in Nat /\ Len(s.buf) >= 1 /\ Len(s.buf) <= Len(all) - s.at
  <2>1. Len(s.buf) \in Nat /\ Len(s.buf) # 0
    BY <1>1, LenProperties, EmptySeq DEF Stream
  <2> QED
    BY <1>1, <2>1
<1>3. k \in FrameTypes
  BY KindOfSync
<1>4. len \in Nat /\ len >= 3
  <2>1. k.header \in Nat \ {0, 1}
    BY <1>3, KindsType
  <2>2. len \in Nat /\ len >= k.header + 1
    BY <1>3, LenType
  <2> HIDE DEF len, k
  <2> QED
    BY <2>1, <2>2
<1>5. Waits(s.buf) <=> ~whole
  BY DEF Waits
<1>6. TryFrame(s) = IF ~whole THEN s
                    ELSE IF Decodes(k, SubSeq(s.buf, 1, len)) THEN Cut(s, len, frame) ELSE Cut(s, 1, {})
  BY DEF TryFrame, Resync
<1>7. CASE ~whole
  BY <1>2, <1>5, <1>6, <1>7
<1>8. CASE whole /\ Decodes(k, SubSeq(s.buf, 1, len))
  <2>1. TryFrame(s) = Cut(s, len, frame)
    BY <1>6, <1>8
  <2>2. len <= Len(s.buf)
    BY <1>8
  <2> HIDE DEF len
  <2>3. frame \in SUBSET ((1 .. Len(all)) \X (1 .. Len(all)))
    <3>1. s.at + 1 \in 1 .. Len(all) /\ s.at + len \in 1 .. Len(all)
      BY <1>1, <1>2, <1>4, <2>2
    <3> QED
      BY <3>1
  <2>4. \A p \in s.at + 1 .. s.at + len : Covered(frame, p)
    BY <1>2, <1>4 DEF Covered
  <2>5. len \in 0 .. Len(s.buf)
    BY <1>2, <1>4, <2>2
  <2> HIDE DEF frame
  <2>6. ScanGood(Cut(s, len, frame), all) /\ Len(Cut(s, len, frame).buf) = Len(s.buf) - len
    BY <2>3, <2>4, <2>5, CutGood
  <2>7. Len(s.buf) - len < Len(s.buf)
    BY <1>2, <1>4
  <2> HIDE DEF k, whole
  <2> QED
    BY <1>2, <1>5, <1>8, <2>1, <2>6, <2>7
<1>9. CASE whole /\ ~Decodes(k, SubSeq(s.buf, 1, len))
  <2>1. TryFrame(s) = Cut(s, 1, {})
    BY <1>6, <1>9
  <2>2. all[s.at + 1] = s.buf[1] /\ SubSeq(all, s.at + 1, Len(all)) = s.buf
    <3>1. 1 \in 1 .. Len(s.buf)
      BY <1>2
    <3> QED
      BY <1>1, <3>1 DEF ScanGood
  <2>3. NoFrameAt(all, s.at + 1)
    BY <1>9, <2>2 DEF NoFrameAt
  <2>4. \A p \in s.at + 1 .. s.at + 1 : all[p] \in Syncs => Covered({}, p) \/ NoFrameAt(all, p)
    <3> TAKE p \in s.at + 1 .. s.at + 1
    <3>1. p = s.at + 1
      BY <1>2
    <3> QED
      BY <2>3, <3>1
  <2>5. 1 \in 0 .. Len(s.buf) /\ {} \in SUBSET ((1 .. Len(all)) \X (1 .. Len(all)))
    BY <1>2
  <2>6. ScanGood(Cut(s, 1, {}), all) /\ Len(Cut(s, 1, {}).buf) = Len(s.buf) - 1
    <3>1. \A n \in 0 .. Len(s.buf) :
            (\A p \in s.at + 1 .. s.at + n : all[p] \in Syncs => Covered({}, p) \/ NoFrameAt(all, p))
            => ScanGood(Cut(s, n, {}), all) /\ Len(Cut(s, n, {}).buf) = Len(s.buf) - n
      BY <2>5, CutGood
    <3> QED
      BY <2>4, <2>5, <3>1
  <2>7. Len(s.buf) - 1 < Len(s.buf)
    BY <1>2
  <2> HIDE DEF k, whole
  <2> QED
    BY <1>2, <1>5, <1>9, <2>1, <2>6, <2>7
<1> QED
  BY <1>7, <1>8, <1>9

\* A round keeps the account, and drops a byte unless the buffer waits.
LEMMA RoundGood ==
  ASSUME NEW all \in Stream, NEW s, ScanGood(s, all)
  PROVE  /\ ScanGood(ScanRound(s), all)
         /\ Waits(s.buf) => Waits(ScanRound(s).buf)
         /\ ~Waits(s.buf) => Len(ScanRound(s).buf) < Len(s.buf)
<1> DEFINE starts == {i \in DOMAIN s.buf : s.buf[i] \in Syncs}
           first == Min(starts)
           c == Cut(s, first - 1, {})
<1>1. /\ Len(all) \in Nat /\ s.at \in 0 .. Len(all) /\ s.buf \in Stream /\ Len(s.buf) = Len(all) - s.at
      /\ \A i \in 1 .. Len(s.buf) : s.buf[i] = all[s.at + i]
  BY GoodBuffer
<1>2. s.at \in Nat /\ Len(s.buf) \in Nat /\ DOMAIN s.buf = 1 .. Len(s.buf)
  <2>1. Len(s.buf) \in Nat /\ DOMAIN s.buf = 1 .. Len(s.buf)
    BY <1>1, LenProperties DEF Stream
  <2> QED
    BY <1>1, <2>1
<1>3. ASSUME NEW n \in 0 .. Len(s.buf), \A i \in 1 .. n : i \notin starts
      PROVE  /\ ScanGood(Cut(s, n, {}), all) /\ Len(Cut(s, n, {}).buf) = Len(s.buf) - n
             /\ \A i \in 1 .. Len(s.buf) - n : Cut(s, n, {}).buf[i] = s.buf[n + i]
  <2>1. \A p \in s.at + 1 .. s.at + n : all[p] \in Syncs => Covered({}, p) \/ NoFrameAt(all, p)
    <3> TAKE p \in s.at + 1 .. s.at + n
    <3> DEFINE i == p - s.at
    <3>1. i \in 1 .. n /\ i \in 1 .. Len(s.buf) /\ s.at + i = p
      BY <1>2
    <3>2. s.buf[i] = all[p]
      BY <1>1, <3>1
    <3>3. s.buf[i] \notin Syncs
      BY <1>2, <1>3, <3>1
    <3> QED
      BY <3>2, <3>3
  <2>2. {} \in SUBSET ((1 .. Len(all)) \X (1 .. Len(all)))
    OBVIOUS
  <2> HIDE DEF starts
  <2> QED
    BY <2>1, <2>2, CutGood
<1>4. CASE starts = {}
  <2>1. ScanRound(s) = Cut(s, Len(s.buf), {})
    BY <1>4 DEF ScanRound
  <2>2. Len(s.buf) \in 0 .. Len(s.buf) /\ \A i \in 1 .. Len(s.buf) : i \notin starts
    BY <1>2, <1>4
  <2> HIDE DEF starts
  <2>3. ScanGood(ScanRound(s), all) /\ Len(ScanRound(s).buf) = Len(s.buf) - Len(s.buf)
    BY <1>3, <2>1, <2>2
  <2>4. Len(ScanRound(s).buf) = 0
    BY <1>2, <2>3
  <2>5. Waits(ScanRound(s).buf)
    <3>1. ScanRound(s).buf \in Stream
      BY <2>3, GoodBuffer
    <3> QED
      BY <2>4, <3>1, EmptySeq DEF Stream, Waits
  <2>6. ~Waits(s.buf) => Len(s.buf) > 0
    <3>1. Len(s.buf) = 0 => s.buf = <<>>
      BY <1>1, EmptySeq DEF Stream
    <3> QED
      BY <1>2, <3>1 DEF Waits
  <2> QED
    BY <2>3, <2>4, <2>5, <2>6
<1>5. CASE starts # {}
  <2>1. ScanRound(s) = TryFrame(c)
    BY <1>5 DEF ScanRound
  <2>2. first \in starts /\ \A i \in starts : first <= i
    <3>1. starts \in SUBSET Nat
      BY <1>2
    <3> HIDE DEF starts
    <3> QED
      BY <1>5, <3>1, LeastIsIn
  <2>3. first \in 1 .. Len(s.buf) /\ s.buf[first] \in Syncs
    BY <1>2, <2>2
  <2>4. ~ (\E i \in 1 .. first - 1 : i \in starts)
    <3> HIDE DEF starts, first
    <3> QED
      BY <1>2, <2>2, <2>3
  <2> HIDE DEF first
  <2>5. first - 1 \in 0 .. Len(s.buf)
    BY <1>2, <2>3
  <2>6. /\ ScanGood(c, all) /\ Len(c.buf) = Len(s.buf) - (first - 1)
        /\ \A i \in 1 .. Len(s.buf) - (first - 1) : c.buf[i] = s.buf[first - 1 + i]
    BY <1>3, <2>4, <2>5
  <2> HIDE DEF c, starts
  <2>7. 1 \in 1 .. Len(s.buf) - (first - 1) /\ first - 1 + 1 = first /\ Len(c.buf) >= 1
    BY <1>2, <2>3, <2>6
  <2>8. c.buf[1] \in Syncs /\ c.buf # <<>>
    BY <2>3, <2>6, <2>7, EmptySeq
  <2>9. /\ ScanGood(TryFrame(c), all) /\ Len(TryFrame(c).buf) <= Len(c.buf)
        /\ Waits(c.buf) => TryFrame(c) = c
        /\ ~Waits(c.buf) => Len(TryFrame(c).buf) < Len(c.buf)
    BY <2>6, <2>8, TryGood
  <2>10. CASE first = 1
    <3>1. c.buf = s.buf
      <4>1. c.buf \in Stream /\ Len(c.buf) = Len(s.buf) /\ \A i \in 1 .. Len(c.buf) : c.buf[i] = s.buf[i]
        <5>1. c.buf \in Stream
          BY <2>6, GoodBuffer
        <5>2. Len(c.buf) = Len(s.buf) /\ \A i \in 1 .. Len(c.buf) : first - 1 + i = i
          BY <1>2, <2>6, <2>10
        <5> QED
          BY <2>6, <5>1, <5>2
      <4> QED
        BY <1>1, <4>1, SameBytes
    <3> QED
      BY <2>1, <2>9, <3>1
  <2>11. CASE first # 1
    <3>1. ~Waits(s.buf)
      <4>1. 1 \in DOMAIN s.buf /\ 1 \notin starts
        BY <1>2, <2>2, <2>3, <2>11
      <4>2. s.buf # <<>> /\ s.buf[1] \notin Syncs
        BY <4>1 DEF starts
      <4> QED
        BY <4>2 DEF Waits
    <3>2. Len(c.buf) < Len(s.buf) /\ Len(c.buf) \in Nat
      BY <1>2, <2>3, <2>6, <2>11
    <3>3. TryFrame(c).buf \in Stream
      BY <2>9, GoodBuffer
    <3>4. Len(TryFrame(c).buf) \in Nat
      BY <3>3, LenProperties DEF Stream
    <3>5. Len(TryFrame(c).buf) < Len(s.buf)
      BY <1>2, <2>9, <3>2, <3>4
    <3> QED
      BY <2>1, <2>9, <3>1, <3>5
  <2> QED
    BY <2>10, <2>11
<1> QED
  BY <1>4, <1>5

-----------------------------------------------------------------------------
(* The rounds of one call.                                                  *)

\* h is what the recursion of Scanned defines.
Rounds(h, s, N) == h = [n \in 0 .. N |-> IF n = 0 THEN s ELSE ScanRound(h[n - 1])]

LEMMA RoundsExist ==
  ASSUME NEW s, NEW N \in Nat
  PROVE  \E h : Rounds(h, s, N)
<1> DEFINE Upto(h, n) == /\ h = [i \in 0 .. n |-> h[i]]
                         /\ \A i \in 0 .. n : h[i] = IF i = 0 THEN s ELSE ScanRound(h[i - 1])
           T == {n \in 0 .. N : \E h : Upto(h, n)}
<1>1. 0 \in T
  <2> DEFINE g == [i \in 0 .. 0 |-> s]
  <2>1. Upto(g, 0)
    OBVIOUS
  <2> HIDE DEF g, Upto
  <2> QED
    BY <2>1
<1>2. ASSUME NEW n \in 0 .. N - 1, n \in T
      PROVE  n + 1 \in T
  <2>1. PICK h : Upto(h, n)
    BY <1>2
  <2> DEFINE new == ScanRound(h[n])
  <2> HIDE DEF new
  <2> DEFINE g == [i \in 0 .. n + 1 |-> IF i = n + 1 THEN new ELSE h[i]]
  <2>2. \A i \in 0 .. n : g[i] = h[i]
    OBVIOUS
  <2>3. g[n + 1] = new /\ g = [i \in 0 .. n + 1 |-> g[i]]
    OBVIOUS
  <2> HIDE DEF g
  <2>4. \A i \in 0 .. n + 1 : g[i] = IF i = 0 THEN s ELSE ScanRound(g[i - 1])
    <3> TAKE i \in 0 .. n + 1
    <3>1. CASE i = n + 1
      <4>1. i # 0 /\ i - 1 = n /\ g[n] = h[n]
        BY <3>1, <2>2
      <4> QED
        BY <4>1, <3>1, <2>3 DEF new
    <3>2. CASE i # n + 1
      <4>1. i \in 0 .. n /\ (i # 0 => i - 1 \in 0 .. n)
        BY <3>2
      <4>2. h[i] = IF i = 0 THEN s ELSE ScanRound(h[i - 1])
        BY <4>1, <2>1
      <4>3. g[i] = h[i] /\ (i # 0 => g[i - 1] = h[i - 1])
        BY <4>1, <2>2
      <4> QED
        BY <4>2, <4>3
    <3> QED
      BY <3>1, <3>2
  <2>5. Upto(g, n + 1)
    BY <2>3, <2>4
  <2> HIDE DEF Upto
  <2> QED
    BY <2>5
<1>3. N \in T
  <2> HIDE DEF T
  <2> QED
    BY <1>1, <1>2, UpToInduction
<1>4. PICK h : Upto(h, N)
  BY <1>3
<1> DEFINE all == [i \in 0 .. N |-> IF i = 0 THEN s ELSE ScanRound(h[i - 1])]
<1>5. h = all
  BY <1>4
<1> QED
  BY <1>5 DEF Rounds

\* The rounds keep the account, and in the end the buffer waits.
LEMMA ScannedGood ==
  ASSUME NEW all \in Stream, NEW s, ScanGood(s, all)
  PROVE  ScanGood(Scanned(s), all) /\ Waits(Scanned(s).buf)
<1> DEFINE N == Len(s.buf)
           h == CHOOSE h : h = [n \in 0 .. N |-> IF n = 0 THEN s ELSE ScanRound(h[n - 1])]
<1>1. N \in Nat
  BY GoodBuffer, LenProperties DEF Stream
<1>2. Rounds(h, s, N)
  <2>1. \E g : g = [n \in 0 .. N |-> IF n = 0 THEN s ELSE ScanRound(g[n - 1])]
    <3>1. PICK g : Rounds(g, s, N)
      BY <1>1, RoundsExist
    <3> QED
      BY Zenon, <3>1 DEF Rounds
  <2> HIDE DEF N
  <2> QED
    BY <2>1 DEF Rounds
<1>3. Scanned(s) = h[N]
  BY Zenon DEF Scanned
<1> HIDE DEF h
<1>4. h[0] = s /\ \A n \in 1 .. N : h[n] = ScanRound(h[n - 1])
  <2> HIDE DEF N
  <2> QED
    BY <1>1, <1>2 DEF Rounds
<1> DEFINE Done(n) == ScanGood(h[n], all) /\ (Waits(h[n].buf) \/ Len(h[n].buf) <= N - n)
           T == {n \in 0 .. N : Done(n)}
<1>5. 0 \in T
  BY <1>1, <1>4
<1>6. ASSUME NEW n \in 0 .. N - 1, n \in T
      PROVE  n + 1 \in T
  <2> DEFINE q == h[n]
             r == h[n + 1]
  <2>1. n + 1 \in 1 .. N /\ n + 1 \in 0 .. N /\ n + 1 - 1 = n
    BY <1>1
  <2>2. r = ScanRound(q)
    BY <1>4, <2>1
  <2>3. ScanGood(q, all) /\ (Waits(q.buf) \/ Len(q.buf) <= N - n)
    BY <1>6
  <2> HIDE DEF N, q, r
  <2>4. ScanGood(r, all) /\ (Waits(q.buf) => Waits(r.buf)) /\ (~Waits(q.buf) => Len(r.buf) < Len(q.buf))
    BY <2>2, <2>3, RoundGood
  <2>5. Len(q.buf) \in Nat /\ Len(r.buf) \in Nat
    BY <2>3, <2>4, GoodBuffer, LenProperties DEF Stream
  <2>6. Waits(r.buf) \/ Len(r.buf) <= N - (n + 1)
    BY <1>1, <2>3, <2>4, <2>5
  <2>7. Done(n + 1)
    BY <2>4, <2>6 DEF r
  <2> HIDE DEF Done
  <2> QED
    BY <2>1, <2>7
<1>7. N \in T
  <2> HIDE DEF T, N
  <2> QED
    BY <1>1, <1>5, <1>6, UpToInduction
<1>8. Done(N)
  BY <1>7
<1> HIDE DEF N
<1>9. Waits(h[N].buf)
  <2>1. h[N].buf \in Stream /\ Len(h[N].buf) \in Nat
    BY <1>8, GoodBuffer, LenProperties DEF Stream
  <2>2. Len(h[N].buf) <= N - N => Len(h[N].buf) = 0
    BY <1>1, <2>1
  <2>3. Len(h[N].buf) = 0 => h[N].buf = <<>>
    BY <2>1, EmptySeq DEF Stream
  <2> QED
    BY <1>8, <2>2, <2>3 DEF Waits
<1> QED
  BY <1>3, <1>8, <1>9

\* Bytes that arrive change nothing of what is accounted for.
Grown(s, chunk) == [buf |-> s.buf \o chunk, at |-> s.at, got |-> s.got]
LEMMA GrownGood ==
  ASSUME NEW all \in Stream, NEW s, ScanGood(s, all), NEW chunk \in Stream
  PROVE  all \o chunk \in Stream /\ ScanGood(Grown(s, chunk), all \o chunk)
<1> DEFINE whole == all \o chunk
           buf == s.buf \o chunk
           rest == SubSeq(whole, s.at + 1, Len(whole))
<1>1. /\ Len(all) \in Nat /\ s.at \in 0 .. Len(all) /\ s.buf \in Stream /\ Len(s.buf) = Len(all) - s.at
      /\ \A i \in 1 .. Len(s.buf) : s.buf[i] = all[s.at + i]
  BY GoodBuffer
<1>2. Len(chunk) \in Nat /\ Len(s.buf) \in Nat /\ s.at \in Nat
  BY <1>1, LenProperties DEF Stream
<1>3. /\ whole \in Stream /\ Len(whole) = Len(all) + Len(chunk)
      /\ \A i \in 1 .. Len(all) + Len(chunk) : whole[i] = IF i <= Len(all) THEN all[i] ELSE chunk[i - Len(all)]
  BY ConcatProperties DEF Stream
<1>4. /\ buf \in Stream /\ Len(buf) = Len(s.buf) + Len(chunk)
      /\ \A i \in 1 .. Len(s.buf) + Len(chunk) : buf[i] = IF i <= Len(s.buf) THEN s.buf[i] ELSE chunk[i - Len(s.buf)]
  BY <1>1, ConcatProperties DEF Stream
<1> HIDE DEF whole, buf
<1>5. /\ rest \in Stream /\ Len(rest) = Len(whole) - (s.at + 1) + 1
      /\ \A i \in 1 .. Len(whole) - (s.at + 1) + 1 : rest[i] = whole[s.at + 1 + i - 1]
  <2>1. s.at + 1 \in 1 .. Len(whole) + 1
    BY <1>1, <1>2, <1>3
  <2> QED
    BY <1>3, <2>1, RestOf
<1> HIDE DEF rest
<1>6. Len(rest) = Len(buf)
  BY <1>1, <1>2, <1>3, <1>4, <1>5
<1>7. ASSUME NEW i \in 1 .. Len(buf)
      PROVE  buf[i] = rest[i]
  <2>0. Len(whole) - (s.at + 1) + 1 = Len(buf) /\ s.at + Len(buf) = Len(all) + Len(chunk) /\ Len(buf) \in Nat
    BY <1>1, <1>2, <1>3, <1>4
  <2>1. PICK j \in Nat : j = s.at + i
    BY <1>2
  <2>2. i \in Nat /\ i >= 1 /\ i <= Len(buf)
    BY <2>0
  <2>3. j \in 1 .. Len(all) + Len(chunk)
    <3>1. \A x, y, z \in Nat : z >= 1 /\ z <= y => x + z >= 1 /\ x + z <= x + y
      OBVIOUS
    <3>2. j >= 1 /\ j <= s.at + Len(buf)
      BY <1>2, <2>0, <2>1, <2>2, <3>1
    <3>3. j <= Len(all) + Len(chunk)
      BY <2>0, <3>2
    <3> QED
      BY <2>1, <3>2, <3>3
  <2>4. rest[i] = whole[j]
    <3>1. s.at + 1 + i - 1 = j
      BY <1>2, <2>1, <2>2
    <3>2. i \in 1 .. Len(whole) - (s.at + 1) + 1
      BY <2>0
    <3> QED
      BY <1>5, <3>1, <3>2
  <2>5. whole[j] = IF j <= Len(all) THEN all[j] ELSE chunk[j - Len(all)]
    BY <1>3, <2>3
  <2>6. buf[i] = IF i <= Len(s.buf) THEN s.buf[i] ELSE chunk[i - Len(s.buf)]
    BY <1>4
  <2>7. CASE i <= Len(s.buf)
    <3>1. i \in 1 .. Len(s.buf) /\ j <= Len(all)
      BY <1>1, <1>2, <2>1, <2>2, <2>7
    <3>2. s.buf[i] = all[j]
      BY <1>1, <2>1, <3>1
    <3> QED
      BY <2>4, <2>5, <2>6, <2>7, <3>1, <3>2
  <2>8. CASE ~(i <= Len(s.buf))
    <3>1. ~(j <= Len(all)) /\ j - Len(all) = i - Len(s.buf)
      BY <1>1, <1>2, <2>1, <2>2, <2>8
    <3> QED
      BY <2>4, <2>5, <2>6, <2>8, <3>1
  <2> QED
    BY <2>7, <2>8
<1>8. buf = rest
  BY <1>4, <1>5, <1>6, <1>7, SameBytes
<1>9. \A p \in 1 .. s.at : whole[p] \in Syncs => Covered(s.got, p) \/ NoFrameAt(whole, p)
  <2> TAKE p \in 1 .. s.at
  <2>1. p \in 1 .. Len(all) /\ whole[p] = all[p]
    BY <1>1, <1>2, <1>3
  <2>2. all[p] \in Syncs => Covered(s.got, p) \/ NoFrameAt(all, p)
    BY DEF ScanGood
  <2>3. all[p] \in Syncs /\ NoFrameAt(all, p) => NoFrameAt(whole, p)
    BY <2>1, FailsStays DEF whole
  <2> QED
    BY <2>1, <2>2, <2>3
<1>10. s.at \in 0 .. Len(whole) /\ s.got \subseteq (1 .. Len(whole)) \X (1 .. Len(whole))
  <2>1. s.got \subseteq (1 .. Len(all)) \X (1 .. Len(all))
    BY DEF ScanGood
  <2>2. 1 .. Len(all) \subseteq 1 .. Len(whole)
    BY <1>1, <1>2, <1>3
  <2>3. s.at \in 0 .. Len(whole)
    BY <1>1, <1>2, <1>3
  <2> QED
    BY <2>1, <2>2, <2>3
<1>11. s.got \in SUBSET (Nat \X Nat)
  BY DEF ScanGood, ScanStates
<1>12. /\ Grown(s, chunk).buf = buf /\ Grown(s, chunk).at = s.at /\ Grown(s, chunk).got = s.got
       /\ Grown(s, chunk) \in ScanStates
  BY <1>2, <1>4, <1>11 DEF Grown, buf, ScanStates
<1>13. Grown(s, chunk).buf = SubSeq(whole, Grown(s, chunk).at + 1, Len(whole))
  BY <1>8, <1>12 DEF rest
<1>14. ScanGood(Grown(s, chunk), whole)
  BY <1>9, <1>10, <1>12, <1>13 DEF ScanGood
<1> QED
  BY <1>3, <1>14 DEF whole

-----------------------------------------------------------------------------
(* The invariant.                                                           *)

ScanState == [buf |-> scanBuf, at |-> scanned, got |-> delivered]
ScanInv ==
  /\ heard \in Stream /\ Len(heard) <= MaxHeard
  /\ ScanGood(ScanState, heard)
  /\ Waits(scanBuf)

LEMMA ScanInitInv == ScanInit => ScanInv
<1> SUFFICES ASSUME ScanInit
             PROVE  ScanInv
  OBVIOUS
<1>1. heard = <<>> /\ scanBuf = <<>> /\ scanned = 0 /\ delivered = {} /\ Len(heard) = 0 /\ heard \in Stream
  BY EmptySeq DEF ScanInit, Stream
<1>2. SubSeq(heard, 1, 0) = <<>>
  <2>1. 1 \in 1 .. Len(heard) + 1
    BY <1>1
  <2>2. SubSeq(heard, 1, Len(heard)) \in Stream /\ Len(SubSeq(heard, 1, Len(heard))) = Len(heard) - 1 + 1
    BY <1>1, <2>1, RestOf
  <2>3. Len(SubSeq(heard, 1, 0)) = 0 /\ SubSeq(heard, 1, 0) \in Stream
    BY <1>1, <2>2
  <2> QED
    BY <2>3, EmptySeq DEF Stream
<1>3. ScanState \in ScanStates
  BY <1>1 DEF ScanState, ScanStates
<1>4. ScanGood(ScanState, heard)
  BY <1>1, <1>2, <1>3 DEF ScanGood, ScanState
<1>5. 0 <= MaxHeard
  BY FrameAssumption DEF FrameAssumption
<1> QED
  BY <1>1, <1>4, <1>5 DEF ScanInv, Waits

LEMMA ScanStepInv == ScanInv /\ [ScanNext]_frameVars => ScanInv'
<1> SUFFICES ASSUME ScanInv, [ScanNext]_frameVars
             PROVE  ScanInv'
  OBVIOUS
<1>1. ASSUME NEW n \in 1 .. MaxChunk, NEW chunk \in [1 .. n -> 0 .. Radix - 1], ScanBytes(chunk)
      PROVE  ScanInv'
  <2> DEFINE start == [buf |-> scanBuf \o chunk, at |-> scanned, got |-> delivered]
             end == Scanned(start)
  <2>1. chunk \in Stream
    <3>1. n \in Nat
      BY FrameAssumption DEF FrameAssumption
    <3> QED
      BY <3>1, SeqDef DEF Stream, ByteValues
  <2>2. heard \o chunk \in Stream /\ ScanGood(Grown(ScanState, chunk), heard \o chunk)
    BY <2>1, GrownGood DEF ScanInv
  <2>3. Grown(ScanState, chunk) = start
    BY DEF Grown, ScanState
  <2> HIDE DEF start
  <2>4. ScanGood(end, heard \o chunk) /\ Waits(end.buf)
    BY <2>2, <2>3, ScannedGood
  <2>5. heard' = heard \o chunk /\ scanBuf' = end.buf /\ scanned' = end.at /\ delivered' = end.got
    BY <1>1 DEF ScanBytes, start
  <2>6. Len(heard \o chunk) <= MaxHeard
    <3>1. Len(heard \o chunk) = Len(heard) + Len(chunk)
      BY <2>1, ConcatProperties DEF ScanInv, Stream
    <3> QED
      BY <1>1, <3>1 DEF ScanBytes
  <2> HIDE DEF end
  <2>7. ScanState' = end
    <3>1. end \in ScanStates
      BY <2>4 DEF ScanGood
    <3>2. end = [buf |-> end.buf, at |-> end.at, got |-> end.got]
      BY <3>1 DEF ScanStates
    <3> QED
      BY <2>5, <3>2 DEF ScanState
  <2> QED
    BY <2>2, <2>4, <2>5, <2>6, <2>7 DEF ScanInv
<1>2. CASE UNCHANGED frameVars
  <2>1. heard' = heard /\ scanBuf' = scanBuf /\ scanned' = scanned /\ delivered' = delivered
    BY <1>2 DEF frameVars
  <2>2. ScanState' = ScanState
    BY <2>1 DEF ScanState
  <2> QED
    BY <2>1, <2>2 DEF ScanInv
<1> QED
  BY <1>1, <1>2 DEF ScanNext

LEMMA ScanInvariant == ScanSpec => []ScanInv
BY ScanInitInv, ScanStepInv, PTL DEF ScanSpec

LEMMA ScanInvGetsThrough == ScanInv => FramesGetThrough
<1> SUFFICES ASSUME ScanInv
             PROVE  FramesGetThrough
  OBVIOUS
<1>1. /\ heard \in Stream /\ scanBuf \in Stream /\ scanned \in 0 .. Len(heard) /\ Len(heard) \in Nat
      /\ Len(scanBuf) \in Nat
      /\ \A p \in 1 .. scanned : heard[p] \in Syncs => Covered(delivered, p) \/ NoFrameAt(heard, p)
  <2>1. heard \in Stream /\ ScanGood(ScanState, heard)
    BY DEF ScanInv
  <2>2. /\ Len(heard) \in Nat /\ ScanState.at \in 0 .. Len(heard) /\ ScanState.buf \in Stream
    BY <2>1, GoodBuffer
  <2>3. \A p \in 1 .. ScanState.at : heard[p] \in Syncs => Covered(ScanState.got, p) \/ NoFrameAt(heard, p)
    BY <2>1 DEF ScanGood
  <2>4. ScanState.at = scanned /\ ScanState.buf = scanBuf /\ ScanState.got = delivered
    BY DEF ScanState
  <2>5. Len(scanBuf) \in Nat
    BY <2>2, <2>4, LenProperties DEF Stream
  <2> QED
    BY <2>1, <2>2, <2>3, <2>4, <2>5
<1>2. Len(scanBuf) < LongestFrame
  <2>1. CASE scanBuf = <<>>
    <3>1. PICK k \in FrameTypes : TRUE
      BY FrameAssumption DEF FrameAssumption
    <3>2. FrameLen(k, <<>>) \in Nat /\ FrameLen(k, <<>>) >= k.header + 1 /\ FrameLen(k, <<>>) <= Reach(k)
      BY LenType
    <3>3. Reach(k) \in Nat /\ LongestFrame \in Nat /\ Reach(k) <= LongestFrame /\ k.header \in Nat \ {0, 1}
      BY LenType, ReachIsLongest, KindsType
    <3>4. Len(scanBuf) = 0
      BY <2>1, EmptySeq
    <3> QED
      BY <3>2, <3>3, <3>4
  <2>2. CASE scanBuf # <<>>
    <3> DEFINE k == KindOf(scanBuf[1])
               len == FrameLen(k, scanBuf)
    <3>1. scanBuf[1] \in Syncs /\ ~(LenIsKnown(k, scanBuf) /\ Len(scanBuf) >= len)
      BY <2>2 DEF ScanInv, Waits
    <3>2. k \in FrameTypes
      BY <3>1, KindOfSync
    <3> HIDE DEF k
    <3>3. len \in Nat /\ len >= k.header + 1 /\ len <= Reach(k) /\ Reach(k) \in Nat /\ k.header \in Nat
      BY <3>2, LenType, KindsType
    <3>4. LongestFrame \in Nat /\ Reach(k) <= LongestFrame
      BY <3>2, ReachIsLongest
    <3> HIDE DEF len
    <3>5. ~LenIsKnown(k, scanBuf) => Len(scanBuf) < k.header
      BY <1>1, <3>3 DEF LenIsKnown
    <3> QED
      BY <1>1, <3>1, <3>3, <3>4, <3>5
  <2> QED
    BY <2>1, <2>2
<1>3. ASSUME NEW p \in 1 .. scanned, heard[p] \in Syncs, NEW last \in p .. Len(heard),
             Decodes(KindOf(heard[p]), SubSeq(heard, p, last))
      PROVE  \E d \in delivered : d[1] <= p /\ p <= d[2]
  <2>1. p \in 1 .. Len(heard)
    BY <1>1
  <2>2. ~NoFrameAt(heard, p)
    BY <1>1, <1>3, <2>1, FailsMeans
  <2>3. Covered(delivered, p)
    BY <1>1, <1>3, <2>2
  <2> QED
    BY <2>3 DEF Covered
<1> QED
  BY <1>2, <1>3 DEF FramesGetThrough

\* Every frame that arrives whole is delivered, for all kinds of frames, streams and cuts into
\* chunks (FramesGetThrough): RadioLink._onData, which drops one byte at a time when a frame fails.
THEOREM FramesArrive == ScanSpec => []FramesGetThrough
BY ScanInvariant, ScanInvGetsThrough, PTL

\* The bytes that arrived are those that left the buffer and those that are still in it.
THEOREM ScanTypesHold == ScanSpec => []ScanTypeOK
<1>1. ScanInv => ScanTypeOK
  <2> SUFFICES ASSUME ScanInv
               PROVE  ScanTypeOK
    OBVIOUS
  <2>1. heard \in Stream /\ ScanGood(ScanState, heard) /\ Len(heard) <= MaxHeard
    BY DEF ScanInv
  <2>2. Len(heard) \in Nat /\ ScanState.at \in 0 .. Len(heard) /\ Len(ScanState.buf) = Len(heard) - ScanState.at
    BY <2>1, GoodBuffer
  <2>3. ScanState.at = scanned /\ ScanState.buf = scanBuf /\ ScanState.got = delivered
    BY DEF ScanState
  <2>4. delivered \subseteq (1 .. Len(heard)) \X (1 .. Len(heard))
    BY <2>1, <2>3 DEF ScanGood
  <2>5. scanned + Len(scanBuf) = Len(heard)
    BY <2>2, <2>3
  <2> QED
    BY <2>1, <2>4, <2>5 DEF ScanTypeOK, Stream, ByteValues
<1> QED
  BY <1>1, ScanInvariant, PTL

-----------------------------------------------------------------------------
(***************************************************************************)
(* TxQueue: the frames of a slot go out in the slot, and no queue is       *)
(* forgotten.  First, what the boat knows of the bursts.                   *)
(***************************************************************************)

LEMMA TxConstants ==
  /\ Cycle \in Nat \ {0} /\ Width \in Nat \ {0} /\ Need \in Nat \ {0} /\ KeepGaps \in Nat \ {0}
  /\ MaxGap \in Nat \ {0} /\ QueueLimit \in Nat \ {0} /\ Poll \in Nat \ {0}
  /\ After \in Nat /\ Before \in Nat /\ Guard \in Nat /\ Slack \in Nat /\ MaxAge \in Nat /\ MaxLate \in Nat
  /\ FirstSlot \in Slots /\ Slots \subseteq Nat
BY TxAssumption DEF TxAssumption

\* What the boat knows of the time.
Timed ==
  /\ sinceBurst \in Nat
  /\ gaps \in Seq(1 .. MaxGap)
  /\ slot \in Slots

LEMMA GapsType ==
  ASSUME Timed
  PROVE  Len(gaps) \in Nat /\ DOMAIN gaps = 1 .. Len(gaps) /\ \A i \in 1 .. Len(gaps) : gaps[i] \in 1 .. MaxGap
BY LenProperties, ElementOfSeq DEF Timed

LEMMA RankedType ==
  ASSUME Timed, NEW i \in 1 .. Len(gaps)
  PROVE  Ranked(i) \in 1 .. MaxGap
<1> DEFINE below(x) == {j \in DOMAIN gaps : gaps[j] <= x}
           S == {x \in 1 .. MaxGap : Cardinality(below(x)) >= i}
<1>1. MaxGap \in S
  <2>1. below(MaxGap) = 1 .. Len(gaps)
    BY GapsType, TxConstants
  <2>2. Cardinality(1 .. Len(gaps)) = Len(gaps)
    <3>1. Len(gaps) \in Int /\ 1 \in Int /\ Len(gaps) >= 1
      BY GapsType
    <3>2. Cardinality(1 .. Len(gaps)) = IF 1 > Len(gaps) THEN 0 ELSE Len(gaps) - 1 + 1
      BY <3>1, FS_Interval
    <3> QED
      BY <3>1, <3>2
  <2>3. MaxGap \in 1 .. MaxGap /\ Len(gaps) >= i
    BY GapsType, TxConstants
  <2> HIDE DEF below
  <2> QED
    BY <2>1, <2>2, <2>3
<1>2. S \in SUBSET Nat
  BY TxConstants
<1>3. Ranked(i) = Min(S)
  BY DEF Ranked
<1>4. Min(S) \in S
  <2> HIDE DEF S
  <2> QED
    BY <1>1, <1>2, LeastIsIn
<1> QED
  BY <1>3, <1>4

LEMMA PeriodType ==
  ASSUME Timed, gaps # <<>>
  PROVE  Period \in Nat \ {0}
<1> DEFINE n == Len(gaps)
           x == Ranked((n + 1) \div 2)
           y == Ranked(n \div 2 + 1)
<1>1. n \in Nat /\ n >= 1
  BY GapsType, EmptySeq DEF Timed
<1>2. (n + 1) \div 2 \in 1 .. n /\ n \div 2 + 1 \in 1 .. n
  <2> HIDE DEF n
  <2> QED
    BY <1>1
<1>3. x \in 1 .. MaxGap /\ y \in 1 .. MaxGap
  BY <1>2, RankedType
<1>4. Period = (Cycle * (x + y)) \div 2
  BY DEF Period
<1> HIDE DEF x, y
<1>5. Cycle * (x + y) \in Nat /\ Cycle * (x + y) >= 2
  <2>1. x + y \in Nat /\ x + y >= 2 /\ Cycle \in Nat /\ 1 <= Cycle
    BY <1>3, TxConstants
  <2>2. 1 * (x + y) <= Cycle * (x + y) /\ Cycle * (x + y) \in Nat
    BY <2>1, ProductGrows
  <2> QED
    BY <2>1, <2>2
<1> DEFINE z == Cycle * (x + y)
<1>6. z \in Nat /\ z >= 2 /\ Period = z \div 2
  BY <1>4, <1>5
<1> HIDE DEF z
<1> QED
  BY <1>6

\* The burst at or before a moment, and the next.
LEMMA BurstBefore ==
  ASSUME Timed, gaps # <<>>, NEW s \in Nat
  PROVE  /\ StartBefore(s) \in Int /\ StartBefore(s) <= s /\ s < StartBefore(s) + Period
         /\ \E n \in Int : StartBefore(s) = n * Period
<1>1. Period \in Nat \ {0} /\ Period \in Int /\ Period > 0 /\ s \in Int
  BY PeriodType
<1> DEFINE q == s \div Period
           r == s % Period
<1>2. q \in Int /\ r \in 0 .. Period - 1
  BY <1>1, DivMod
<1>3. r = s - Period * q
  BY <1>1, Remainder
<1>4. StartBefore(s) = q * Period
  BY DEF StartBefore
<1> HIDE DEF q, r
<1>5. q * Period = Period * q /\ Period * q \in Int
  BY <1>1, <1>2
<1> QED
  BY <1>1, <1>2, <1>3, <1>4, <1>5

-----------------------------------------------------------------------------
(* What a frame waits for.                                                  *)

LEMMA GateType ==
  ASSUME Timed, NEW s \in Nat
  PROVE  GateWait(s) \in Nat
<1> DEFINE prev == StartBefore(s)
           next == prev + Period
<1>1. CASE ~Hears
  BY <1>1 DEF GateWait
<1>2. CASE Hears
  <2>1. gaps # <<>>
    BY <1>2 DEF Hears
  <2>2. prev \in Int /\ prev <= s /\ s < prev + Period /\ Period \in Nat
    BY <2>1, BurstBefore, PeriodType
  <2>3. GateWait(s) = CASE ~Hears -> 0
                        [] Hears /\ s <= prev + After -> prev + After - s
                        [] Hears /\ s > prev + After /\ s >= next - Before -> next + After - s
                        [] OTHER -> 0
    BY DEF GateWait
  <2> HIDE DEF prev
  <2>4. After \in Nat /\ Before \in Nat
    BY TxConstants
  <2>5. CASE s <= prev + After
    <3>1. GateWait(s) = prev + After - s
      BY <1>2, <2>2, <2>3, <2>4, <2>5
    <3> QED
      BY <2>2, <2>4, <2>5, <3>1
  <2>6. CASE s > prev + After /\ s >= next - Before
    <3>1. GateWait(s) = next + After - s
      BY <1>2, <2>2, <2>3, <2>4, <2>6
    <3> QED
      BY <2>2, <2>4, <3>1
  <2>7. CASE s > prev + After /\ ~(s >= next - Before)
    <3>1. GateWait(s) = 0
      BY <1>2, <2>2, <2>3, <2>4, <2>7
    <3> QED
      BY <3>1
  <2> QED
    BY <2>2, <2>4, <2>5, <2>6, <2>7
<1> QED
  BY <1>1, <1>2

\* The openings of the slot: the second of them has yet to come.
LEMMA OpensType ==
  ASSUME Timed, gaps # <<>>, NEW s \in Nat
  PROVE  /\ \A k \in 0 .. 2 : Opens(k, s) \in Int
         /\ Opens(0, s) = StartBefore(s) + After + slot * Width
         /\ Opens(1, s) > s /\ Opens(2, s) > s
<1>1. StartBefore(s) \in Int /\ s < StartBefore(s) + Period /\ Period \in Nat
  BY BurstBefore, PeriodType
<1>2. slot \in Nat /\ Width \in Nat /\ After \in Nat
  BY TxConstants DEF Timed
<1>3. slot * Width \in Nat
  BY <1>2, ProductGrows
<1>4. 0 * Period = 0 /\ 1 * Period = Period /\ 2 * Period = Period + Period
  BY <1>1
<1>5. /\ Opens(0, s) = StartBefore(s) + 0 * Period + After + slot * Width
      /\ Opens(1, s) = StartBefore(s) + 1 * Period + After + slot * Width
      /\ Opens(2, s) = StartBefore(s) + 2 * Period + After + slot * Width
  BY DEF Opens
<1>6. Opens(0, s) \in Int /\ Opens(1, s) \in Int /\ Opens(2, s) \in Int
  BY <1>1, <1>2, <1>3, <1>4, <1>5
<1>7. \A k \in 0 .. 2 : k = 0 \/ k = 1 \/ k = 2
  OBVIOUS
<1>8. \A k \in 0 .. 2 : Opens(k, s) \in Int
  BY <1>6, <1>7
<1> QED
  BY <1>1, <1>2, <1>3, <1>4, <1>5, <1>8

\* The opening that SlotWait waits for.
LEMMA OpeningChosen ==
  ASSUME Timed, gaps # <<>>, NEW s \in Nat, NEW w
  PROVE  \E k \in 0 .. 2 : /\ ~Passed(Opens(k, s), s, w)
                          /\ SlotWait(s, w) = IF ~SlotFits \/ s >= Opens(k, s) THEN 0 ELSE Opens(k, s) - s
<1> DEFINE left == {k \in 0 .. 2 : ~Passed(Opens(k, s), s, w)}
           first == CHOOSE k \in left : \A j \in left : k <= j
<1>1. 2 \in left
  <2>1. Opens(2, s) \in Int /\ Opens(2, s) > s
    BY OpensType
  <2>2. Width \in Nat
    BY TxConstants
  <2>3. ~(s >= Opens(2, s) + Width) /\ ~(s >= Opens(2, s))
    BY <2>1, <2>2
  <2> QED
    BY <2>3 DEF Passed
<1>2. \E k \in left : \A j \in left : k <= j
  <2>1. left \subseteq 0 .. 2
    OBVIOUS
  <2> HIDE DEF left
  <2>2. CASE 0 \in left
    BY <2>1, <2>2
  <2>3. CASE 0 \notin left /\ 1 \in left
    BY <2>1, <2>3
  <2>4. CASE 0 \notin left /\ 1 \notin left
    <3>1. \A j \in left : j = 2
      BY <2>1, <2>4
    <3> QED
      BY <1>1, <3>1
  <2> QED
    BY <2>2, <2>3, <2>4
<1>3. first \in left
  <2> HIDE DEF left
  <2> QED
    BY <1>2
<1>4. SlotWait(s, w) = IF ~SlotFits \/ left = {} THEN 0
                       ELSE IF s >= Opens(first, s) THEN 0 ELSE Opens(first, s) - s
  BY DEF SlotWait
<1> HIDE DEF first
<1>5. first \in 0 .. 2 /\ ~Passed(Opens(first, s), s, w)
  BY <1>3
<1>6. SlotWait(s, w) = IF ~SlotFits \/ s >= Opens(first, s) THEN 0 ELSE Opens(first, s) - s
  <2>1. left # {}
    BY <1>1
  <2> HIDE DEF left
  <2> QED
    BY <1>4, <2>1
<1> QED
  BY <1>5, <1>6

LEMMA WaitType ==
  ASSUME Timed, NEW slotted \in BOOLEAN, NEW w
  PROVE  WaitFor(slotted, w) \in Nat
<1> DEFINE gate == GateWait(sinceBurst)
           s == sinceBurst + gate
<1>1. gate \in Nat /\ s \in Nat
  BY GateType DEF Timed
<1>2. gaps # <<>> => SlotWait(s, w) \in Nat
  <2> SUFFICES ASSUME gaps # <<>>
               PROVE  SlotWait(s, w) \in Nat
    OBVIOUS
  <2> HIDE DEF s, gate
  <2>1. PICK k \in 0 .. 2 : SlotWait(s, w) = IF ~SlotFits \/ s >= Opens(k, s) THEN 0 ELSE Opens(k, s) - s
    BY <1>1, OpeningChosen
  <2>2. Opens(k, s) \in Int
    BY <1>1, OpensType
  <2> QED
    BY <1>1, <2>1, <2>2
<1>3. Hears => gaps # <<>>
  BY DEF Hears
<1>4. WaitFor(slotted, w) = gate + IF slotted /\ Hears THEN SlotWait(s, w) ELSE 0
  BY DEF WaitFor
<1> HIDE DEF s, gate
<1> QED
  BY <1>1, <1>2, <1>3, <1>4

\* A frame of a slot that need not wait is within it, as the boat counts.
InOpening(s) == \E d \in 0 .. Width - 1 : s = Opens(0, s) + d /\ (d = 0 \/ d <= Width - Need - Guard)

\* A frame that takes the opening o has room in what the window w has left of it.
RoomIn(o, w) == ~(Used(o, w) > 0 /\ Used(o, w) + Need > Width - Guard)

LEMMA NoWaitInOpening ==
  ASSUME Timed, Hears, SlotFits, NEW w, WaitFor(TRUE, w) = 0
  PROVE  InOpening(sinceBurst) /\ RoomIn(Opens(0, sinceBurst), w)
<1> DEFINE s == sinceBurst
<1>1. gaps # <<>> /\ s \in Nat
  BY DEF Hears, Timed
<1>2. GateWait(s) = 0 /\ SlotWait(s, w) = 0
  <2> DEFINE g == GateWait(s)
  <2>1. g \in Nat /\ s + g \in Nat
    BY <1>1, GateType
  <2>2. WaitFor(TRUE, w) = g + SlotWait(s + g, w)
    BY DEF WaitFor
  <2> HIDE DEF g
  <2>3. PICK k \in 0 .. 2 : SlotWait(s + g, w) = IF ~SlotFits \/ s + g >= Opens(k, s + g) THEN 0 ELSE Opens(k, s + g) - (s + g)
    BY <1>1, <2>1, OpeningChosen
  <2>4. Opens(k, s + g) \in Int
    BY <1>1, <2>1, OpensType
  <2>5. SlotWait(s + g, w) \in Nat
    BY <2>1, <2>3, <2>4
  <2>6. g = 0 /\ SlotWait(s + g, w) = 0
    <3> DEFINE v == SlotWait(s + g, w)
    <3>1. v \in Nat /\ g + v = 0
      BY <2>2, <2>5
    <3> HIDE DEF v
    <3>2. g = 0 /\ v = 0
      BY <2>1, <3>1
    <3> QED
      BY <3>2 DEF v
  <2>7. s + g = s
    BY <1>1, <2>6
  <2> QED
    BY <2>6, <2>7 DEF g
<1>3. PICK k \in 0 .. 2 : /\ ~Passed(Opens(k, s), s, w)
                        /\ SlotWait(s, w) = IF ~SlotFits \/ s >= Opens(k, s) THEN 0 ELSE Opens(k, s) - s
  BY <1>1, OpeningChosen
<1>4. /\ Opens(k, s) \in Int /\ Opens(0, s) = StartBefore(s) + After + slot * Width
      /\ Opens(1, s) > s /\ Opens(2, s) > s
  BY <1>1, OpensType
<1>5. s >= Opens(k, s)
  BY <1>1, <1>2, <1>3, <1>4
<1>6. k = 0
  <2>1. k # 1 /\ k # 2
    <3>1. Opens(1, s) \in Int /\ Opens(2, s) \in Int
      BY <1>1, OpensType
    <3> QED
      BY <1>1, <1>4, <1>5, <3>1
  <2> QED
    BY <2>1
<1> DEFINE o == Opens(0, s)
           d == s - o
<1>7. o \in Int /\ s >= o /\ ~(s >= o + Width) /\ ~(o + Width - s < Need + Guard /\ o + Width - s < Width)
  BY <1>3, <1>4, <1>5, <1>6 DEF Passed
<1>11. RoomIn(Opens(0, s), w)
  BY <1>3, <1>5, <1>6 DEF Passed, RoomIn
<1>8. Width \in Nat /\ Need \in Nat /\ Guard \in Nat /\ s \in Nat
  BY <1>1, TxConstants
<1> HIDE DEF o
<1>9. d \in 0 .. Width - 1 /\ (d = 0 \/ d <= Width - Need - Guard) /\ s = o + d
  BY <1>7, <1>8
<1>10. s = Opens(0, s) + d
  BY <1>9 DEF o
<1>12. InOpening(sinceBurst)
  <2> HIDE DEF d, s
  <2> QED
    BY <1>9, <1>10 DEF InOpening, s
<1> QED
  BY <1>11, <1>12

-----------------------------------------------------------------------------
(* InOwnSlot.                                                               *)

OwnSlotNow == Moment \in After + slot * Width .. After + (slot + 1) * Width - 1

\* What the radio is handed when a frame is clear.
Clear == Hears /\ SlotFits /\ Period % Cycle = 0 => OwnSlotNow

LEMMA OpeningIsOwn ==
  ASSUME SlotsInCycle, Timed, gaps # <<>>, Period % Cycle = 0, InOpening(sinceBurst)
  PROVE  OwnSlotNow
<1> DEFINE s == sinceBurst
           x == slot * Width
           a == After + x
<1>0. PICK b \in Int, n \in Int : b = StartBefore(s) /\ b = n * Period
  BY BurstBefore DEF Timed
<1>6. /\ slot \in Nat /\ Width \in Nat \ {0} /\ After \in Nat /\ Need \in Nat /\ Guard \in Nat
      /\ slot * Width \in Nat /\ (slot + 1) * Width = slot * Width + Width
  <2>1. slot \in Nat /\ Width \in Nat \ {0} /\ After \in Nat /\ Need \in Nat /\ Guard \in Nat
    BY TxConstants DEF Timed
  <2>2. \A j, m \in Int : (j + 1) * m = j * m + m
    OBVIOUS
  <2> QED
    BY <2>1, <2>2, ProductGrows
<1>1. PICK d \in 0 .. Width - 1 : s = Opens(0, s) + d /\ (d = 0 \/ d <= Width - Need - Guard)
  BY DEF InOpening
<1>2. Opens(0, s) = b + After + x /\ Opens(0, s) \in Int
  <2>1. Opens(0, s) = StartBefore(s) + After + slot * Width /\ Opens(0, s) \in Int
    BY OpensType DEF Timed
  <2> QED
    BY <1>0, <2>1
<1>3. Period \in Int /\ Cycle \in Int /\ Cycle > 0 /\ Cycle \in Nat \ {0}
  BY PeriodType, TxConstants
<1> DEFINE q == Period \div Cycle
           rem == Period % Cycle
<1>4. q \in Int /\ Period = Cycle * q
  <2>1. q \in Int
    BY <1>3, DivMod
  <2>2. rem = Period - Cycle * q
    BY <1>3, Remainder
  <2>3. rem = 0
    OBVIOUS
  <2> HIDE DEF q, rem
  <2>4. Cycle * q \in Int
    BY <1>3, <2>1
  <2> QED
    BY <1>3, <2>1, <2>2, <2>3, <2>4
<1> HIDE DEF q
<1>5. n * Period = Cycle * (n * q) /\ n * q \in Int /\ Cycle * (n * q) \in Int
  <2>1. n * (Cycle * q) = Cycle * (n * q)
    BY <1>3, <1>4, Assoc
  <2> QED
    BY <1>3, <1>4, <2>1
<1>7. After + slot * Width < Cycle /\ After + (slot + 1) * Width - Need - Guard <= Cycle - 1
  BY DEF SlotsInCycle, Timed
<1>8. x \in Nat /\ a = After + x /\ (slot + 1) * Width = x + Width /\ After + x < Cycle
      /\ After + (x + Width) - Need - Guard <= Cycle - 1
  BY <1>6, <1>7
<1> HIDE DEF x, a
<1>9. a + d \in 0 .. Cycle - 1
  BY <1>1, <1>3, <1>6, <1>8
<1>10. s = Cycle * (n * q) + (a + d)
  <2> DEFINE y == Cycle * (n * q)
             o == Opens(0, s)
  <2>1. b = y /\ y \in Int
    BY <1>0, <1>5
  <2>2. o = b + After + x /\ o \in Int /\ s = o + d
    BY <1>1, <1>2
  <2> HIDE DEF y, o, s
  <2>3. s = y + (a + d)
    BY <1>1, <1>6, <1>8, <2>1, <2>2
  <2> QED
    BY <2>3 DEF y
<1>11. (Cycle * (n * q) + (a + d)) % Cycle = a + d
  BY <1>3, <1>5, <1>9, ModIs
<1>12. Moment = a + d
  BY <1>10, <1>11 DEF Moment
<1>13. a + d \in After + slot * Width .. After + (slot + 1) * Width - 1
  <2>1. a + d \in After + x .. After + (x + Width) - 1
    BY <1>1, <1>6, <1>8
  <2> QED
    BY <1>8, <2>1 DEF x
<1> QED
  BY <1>12, <1>13 DEF OwnSlotNow

LEMMA ClearIsOwn ==
  ASSUME SlotsInCycle, Timed, NEW w, WaitFor(TRUE, w) = 0
  PROVE  Clear
<1> SUFFICES ASSUME Hears, SlotFits, Period % Cycle = 0
             PROVE  OwnSlotNow
  BY DEF Clear
<1>1. gaps # <<>>
  BY DEF Hears
<1>2. InOpening(sinceBurst)
  BY NoWaitInOpening
<1> QED
  BY <1>1, <1>2, OpeningIsOwn

-----------------------------------------------------------------------------
(* What is written, and what stays.                                         *)

Windows == [opens : Int, used : Nat]
SentSet    == [slotted : BOOLEAN, forced : BOOLEAN, timed : BOOLEAN]

\* The slot is in the cycle, and some window lets a frame of it go now.
Open == Hears /\ SlotFits /\ \E w : WaitFor(TRUE, w) = 0

\* Frames of the slot are only written when it is open.
SentGood(out) ==
  out \in Seq(SentSet) /\ \A i \in 1 .. Len(out) : out[i].slotted /\ out[i].timed /\ ~out[i].forced => Open

LEMMA NothingSent == SentGood(<<>>)
BY EmptySeq DEF SentGood

LEMMA FrameType ==
  ASSUME NEW f \in Frames, NEW forced \in BOOLEAN
  PROVE  /\ FrameWritten(f, forced) \in SentSet /\ FrameWritten(f, forced).slotted = f.slotted
         /\ FrameWritten(f, forced).forced = forced /\ FrameWritten(f, forced).timed = (Hears /\ SlotFits)
<1>1. (Hears /\ SlotFits) \in BOOLEAN /\ f.slotted \in BOOLEAN
  BY DEF Frames
<1> QED
  BY <1>1 DEF FrameWritten, SentSet

LEMMA AirType ==
  ASSUME NEW out \in Seq(SentSet)
  PROVE  Airtime(out) \in Nat
<1> DEFINE S == {i \in DOMAIN out : out[i].slotted /\ out[i].timed /\ ~out[i].forced}
<1>1. Len(out) \in Nat /\ DOMAIN out = 1 .. Len(out)
  BY LenProperties
<1>2. IsFiniteSet(S)
  <2>1. IsFiniteSet(1 .. Len(out))
    BY <1>1, FS_Interval
  <2>2. S \subseteq 1 .. Len(out)
    BY <1>1
  <2> QED
    BY <2>1, <2>2, FS_Subset
<1>3. Cardinality(S) \in Nat
  BY <1>2, FS_CardinalityType
<1>4. Airtime(out) = Need * Cardinality(S)
  BY DEF Airtime
<1> HIDE DEF S
<1> QED
  BY <1>3, <1>4, TxConstants, ProductGrows

LEMMA MarkedType ==
  ASSUME Timed, gaps # <<>>, NEW w \in Windows
  PROVE  Marked(w) \in Windows
<1> DEFINE ks == {k \in 0 .. 2 : sinceBurst < Opens(k, sinceBurst) + Width}
           first == CHOOSE k \in ks : \A j \in ks : k <= j
           o == Opens(first, sinceBurst)
<1>1. 2 \in ks
  <2>1. Opens(2, sinceBurst) \in Int /\ Opens(2, sinceBurst) > sinceBurst /\ sinceBurst \in Nat /\ Width \in Nat
    <3>1. sinceBurst \in Nat /\ Width \in Nat
      BY TxConstants DEF Timed
    <3>2. Opens(2, sinceBurst) \in Int /\ Opens(2, sinceBurst) > sinceBurst
      BY <3>1, OpensType
    <3> QED
      BY <3>1, <3>2
  <2> QED
    BY <2>1
<1>2. first \in ks
  <2>1. ks \in SUBSET Nat
    OBVIOUS
  <2> HIDE DEF ks
  <2>2. \E k \in ks : \A j \in ks : k <= j
    BY <1>1, <2>1, LeastIsIn
  <2> QED
    BY <2>2
<1>3. o \in Int
  BY <1>2, OpensType DEF Timed
<1>4. Used(o, w) \in Nat /\ Need \in Nat
  BY TxConstants DEF Used, Windows
<1>5. Marked(w) = [opens |-> o, used |-> Used(o, w) + Need]
  BY DEF Marked
<1> HIDE DEF o
<1> QED
  BY <1>3, <1>4, <1>5 DEF Windows

\* The rest of a queue.
LEMMA RestOfQueue ==
  ASSUME NEW S, NEW q \in Seq(S), NEW m \in 0 .. Len(q)
  PROVE  SubSeq(q, m + 1, Len(q)) \in Seq(S) /\ Len(SubSeq(q, m + 1, Len(q))) = Len(q) - m
<1>1. Len(q) \in Nat /\ \A i \in 1 .. Len(q) : q[i] \in S
  BY LenProperties, ElementOfSeq
<1>2. \A i \in m + 1 .. Len(q) : q[i] \in S
  BY <1>1
<1>3. /\ SubSeq(q, m + 1, Len(q)) \in Seq(S)
      /\ Len(SubSeq(q, m + 1, Len(q))) = IF m + 1 <= Len(q) THEN Len(q) - (m + 1) + 1 ELSE 0
  BY <1>1, <1>2, SubSeqProperties
<1> QED
  BY <1>1, <1>3

LEMMA FreshType ==
  ASSUME NEW q \in Seq(Frames)
  PROVE  Fresh(q) \in Seq(Frames) /\ Len(Fresh(q)) <= Len(q) /\ Len(Fresh(q)) \in Nat
<1> DEFINE S == {0} \cup {n \in DOMAIN q : \A i \in 1 .. n : q[i].age > MaxAge}
           m == Max(S)
<1>1. Len(q) \in Nat /\ DOMAIN q = 1 .. Len(q)
  BY LenProperties
<1>2. m \in 0 .. Len(q)
  <2>1. S \subseteq 0 .. Len(q) /\ S # {}
    BY <1>1
  <2> HIDE DEF S
  <2>2. S \in SUBSET Nat /\ \A x \in S : x <= Len(q)
    BY <1>1, <2>1
  <2>3. Max(S) \in S
    BY <1>1, <2>1, <2>2, BoundedMax
  <2> QED
    BY <2>1, <2>3
<1>3. Fresh(q) = SubSeq(q, m + 1, Len(q))
  BY DEF Fresh
<1> HIDE DEF m
<1>4. Fresh(q) \in Seq(Frames) /\ Len(Fresh(q)) = Len(q) - m
  BY <1>2, <1>3, RestOfQueue
<1> QED
  BY <1>1, <1>2, <1>4

\* h is what the recursion of Sending defines.
Filling(h, q, N) ==
  h = [n \in 0 .. N |-> IF n = 0 THEN window ELSE IF q[n].slotted /\ Hears THEN Marked(h[n - 1]) ELSE h[n - 1]]

LEMMA FilledExists ==
  ASSUME NEW q, NEW N \in Nat
  PROVE  \E h : Filling(h, q, N)
<1> DEFINE FillNext(n, w) == IF q[n].slotted /\ Hears THEN Marked(w) ELSE w
<1> HIDE DEF FillNext
<1> DEFINE Upto(h, n) == /\ h = [i \in 0 .. n |-> h[i]]
                         /\ \A i \in 0 .. n : h[i] = IF i = 0 THEN window ELSE FillNext(i, h[i - 1])
           T == {n \in 0 .. N : \E h : Upto(h, n)}
<1>1. 0 \in T
  <2> DEFINE g == [i \in 0 .. 0 |-> window]
  <2>1. Upto(g, 0)
    OBVIOUS
  <2> HIDE DEF g, Upto
  <2> QED
    BY <2>1
<1>2. ASSUME NEW n \in 0 .. N - 1, n \in T
      PROVE  n + 1 \in T
  <2>1. PICK h : Upto(h, n)
    BY <1>2
  <2> DEFINE new == FillNext(n + 1, h[n])
  <2> HIDE DEF new
  <2> DEFINE g == [i \in 0 .. n + 1 |-> IF i = n + 1 THEN new ELSE h[i]]
  <2>2. \A i \in 0 .. n : g[i] = h[i]
    OBVIOUS
  <2>3. g[n + 1] = new /\ g = [i \in 0 .. n + 1 |-> g[i]]
    OBVIOUS
  <2> HIDE DEF g
  <2>4. \A i \in 0 .. n + 1 : g[i] = IF i = 0 THEN window ELSE FillNext(i, g[i - 1])
    <3> TAKE i \in 0 .. n + 1
    <3>1. CASE i = n + 1
      <4>1. i # 0 /\ i - 1 = n /\ g[n] = h[n]
        BY <3>1, <2>2
      <4> QED
        BY <4>1, <3>1, <2>3 DEF new
    <3>2. CASE i # n + 1
      <4>1. i \in 0 .. n /\ (i # 0 => i - 1 \in 0 .. n)
        BY <3>2
      <4>2. h[i] = IF i = 0 THEN window ELSE FillNext(i, h[i - 1])
        BY <4>1, <2>1
      <4>3. g[i] = h[i] /\ (i # 0 => g[i - 1] = h[i - 1])
        BY <4>1, <2>2
      <4> QED
        BY <4>2, <4>3
    <3> QED
      BY <3>1, <3>2
  <2>5. Upto(g, n + 1)
    BY <2>3, <2>4
  <2> HIDE DEF Upto
  <2> QED
    BY <2>5
<1>3. N \in T
  <2> HIDE DEF T
  <2> QED
    BY <1>1, <1>2, UpToInduction
<1>4. PICK h : Upto(h, N)
  BY <1>3
<1> DEFINE all == [i \in 0 .. N |-> IF i = 0 THEN window ELSE FillNext(i, h[i - 1])]
<1>5. h = all
  BY <1>4
<1> QED
  BY <1>5 DEF Filling, FillNext

\* The first n frames of q go, and h is how they fill the window.
Loop(h, n, q) ==
  /\ n \in 0 .. Len(q) /\ h[0] = window
  /\ \A i \in 1 .. Len(q) : h[i] = IF q[i].slotted /\ Hears THEN Marked(h[i - 1]) ELSE h[i - 1]
  /\ \A i \in 1 .. n : ~Hears \/ WaitFor(q[i].slotted, h[i - 1]) = 0
  /\ \A i \in 0 .. Len(q) : h[i] \in Windows

SentFirst(q, n, w) ==
  [out |-> [i \in 1 .. n |-> FrameWritten(q[i], FALSE)], left |-> SubSeq(q, n + 1, Len(q)), window |-> w]

LEMMA SendingUnfolded ==
  ASSUME Timed, window \in Windows, NEW q \in Seq(Frames)
  PROVE  \E h, n : Loop(h, n, q) /\ Sending(q) = SentFirst(q, n, h[n])
<1> DEFINE N == Len(q)
           h == CHOOSE h : h = [n \in 0 .. N |-> IF n = 0 THEN window
                                                  ELSE IF q[n].slotted /\ Hears THEN Marked(h[n - 1]) ELSE h[n - 1]]
           clear(i) == ~Hears \/ WaitFor(q[i].slotted, h[i - 1]) = 0
           S == {m \in 0 .. N : \A i \in 1 .. m : clear(i)}
           n == Max(S)
<1>1. N \in Nat /\ \A i \in 1 .. N : q[i] \in Frames
  BY LenProperties, ElementOfSeq
<1>2. Filling(h, q, N)
  <2>1. \E g : g = [k \in 0 .. N |-> IF k = 0 THEN window
                                      ELSE IF q[k].slotted /\ Hears THEN Marked(g[k - 1]) ELSE g[k - 1]]
    <3>1. PICK g : Filling(g, q, N)
      BY <1>1, FilledExists
    <3> QED
      BY Zenon, <3>1 DEF Filling
  <2> HIDE DEF N
  <2> QED
    BY <2>1 DEF Filling
<1>3. Sending(q) = [out |-> [i \in 1 .. n |-> FrameWritten(q[i], FALSE)], left |-> SubSeq(q, n + 1, Len(q)), window |-> h[n]]
  BY Zenon DEF Sending
<1> HIDE DEF h
<1>4. h[0] = window /\ \A i \in 1 .. N : h[i] = IF q[i].slotted /\ Hears THEN Marked(h[i - 1]) ELSE h[i - 1]
  <2> HIDE DEF N
  <2> QED
    BY <1>1, <1>2 DEF Filling
<1>5. n \in 0 .. N /\ \A i \in 1 .. n : clear(i)
  <2>1. S \in SUBSET Nat /\ 0 \in S /\ \A x \in S : x <= N
    BY <1>1
  <2>2. n \in S
    <3> HIDE DEF S, N
    <3> QED
      BY <1>1, <2>1, BoundedMax
  <2> HIDE DEF n
  <2> QED
    BY <2>2
<1> HIDE DEF n, N
<1>6. \A i \in 0 .. N : h[i] \in Windows
  <2> DEFINE T == {i \in 0 .. N : h[i] \in Windows}
  <2>1. 0 \in T
    BY <1>1, <1>4
  <2>2. ASSUME NEW i \in 0 .. N - 1, i \in T
        PROVE  i + 1 \in T
    <3>1. i + 1 \in 1 .. N /\ i + 1 - 1 = i /\ i + 1 \in 0 .. N
      BY <1>1
    <3>2. h[i + 1] = IF q[i + 1].slotted /\ Hears THEN Marked(h[i]) ELSE h[i]
      BY <1>4, <3>1
    <3>3. Hears => Marked(h[i]) \in Windows
      BY <2>2, MarkedType DEF Hears
    <3> QED
      BY <2>2, <3>1, <3>2, <3>3
  <2> HIDE DEF T
  <2>3. N \in Nat
    BY <1>1
  <2>4. 0 .. N \subseteq T
    BY <2>1, <2>2, <2>3, UpToInduction
  <2> QED
    BY <2>4 DEF T
<1>7. Sending(q) = SentFirst(q, n, h[n])
  BY <1>3 DEF SentFirst
<1>8. Loop(h, n, q)
  BY <1>4, <1>5, <1>6 DEF Loop, N
<1> QED
  BY <1>7, <1>8

\* What the loop of the pump sends is clear, and the rest stays.
SendingGood(q, r) ==
  /\ SentGood(r.out) /\ r.left \in Seq(Frames) /\ Len(r.left) <= Len(q) /\ r.window \in Windows
LEMMA Outcome ==
  ASSUME NEW a, NEW b, NEW c, NEW q, SentGood(a), b \in Seq(Frames), Len(b) <= Len(q), c \in Windows
  PROVE  SendingGood(q, [out |-> a, left |-> b, window |-> c])
BY DEF SendingGood

LEMMA SendingIsGood ==
  ASSUME Timed, window \in Windows, NEW q \in Seq(Frames)
  PROVE  SendingGood(q, Sending(q))
<1> DEFINE N == Len(q)
<1>1. N \in Nat /\ \A i \in 1 .. N : q[i] \in Frames
  BY LenProperties, ElementOfSeq
<1>2. PICK h, n : Loop(h, n, q) /\ Sending(q) = SentFirst(q, n, h[n])
  BY SendingUnfolded
<1>5. n \in 0 .. N /\ \A i \in 1 .. n : ~Hears \/ WaitFor(q[i].slotted, h[i - 1]) = 0
  BY <1>2 DEF Loop
<1>6. h[n] \in Windows
  BY <1>2 DEF Loop
<1> HIDE DEF N
<1> DEFINE out == [i \in 1 .. n |-> FrameWritten(q[i], FALSE)]
<1>33. Sending(q) = [out |-> out, left |-> SubSeq(q, n + 1, Len(q)), window |-> h[n]]
  BY <1>2 DEF SentFirst
<1>7. SentGood(out)
  <2>1. n \in Nat /\ \A i \in 1 .. n : i \in 1 .. N
    BY <1>1, <1>5
  <2>2. \A i \in 1 .. n : FrameWritten(q[i], FALSE) \in SentSet
    BY <1>1, <2>1, FrameType
  <2>3. out \in [1 .. n -> SentSet]
    BY <2>2
  <2>4. out \in Seq(SentSet)
    BY <2>1, <2>3, SeqDef
  <2>5. Len(out) = n
    BY <2>1, <2>3, <2>4, LenProperties
  <2>6. ASSUME NEW i \in 1 .. n, out[i].slotted, out[i].timed
        PROVE  Open
    <3>1. out[i] = FrameWritten(q[i], FALSE) /\ q[i] \in Frames
      BY <1>1, <2>1
    <3> HIDE DEF out
    <3>2. q[i].slotted /\ Hears /\ SlotFits
      BY <2>6, <3>1, FrameType
    <3>3. WaitFor(q[i].slotted, h[i - 1]) = 0
      BY <1>5, <3>2
    <3>4. q[i].slotted = TRUE
      BY <3>1, <3>2 DEF Frames
    <3> QED
      BY <3>2, <3>3, <3>4 DEF Open
  <2> HIDE DEF out
  <2> QED
    BY <2>4, <2>5, <2>6 DEF SentGood
<1>8. SubSeq(q, n + 1, Len(q)) \in Seq(Frames) /\ Len(SubSeq(q, n + 1, Len(q))) <= Len(q)
  <2>1. n \in 0 .. Len(q) /\ Len(q) \in Nat
    BY <1>1, <1>5 DEF N
  <2>2. SubSeq(q, n + 1, Len(q)) \in Seq(Frames) /\ Len(SubSeq(q, n + 1, Len(q))) = Len(q) - n
    BY <2>1, RestOfQueue
  <2> QED
    BY <2>1, <2>2
<1> HIDE DEF out
<1>9. SendingGood(q, [out |-> out, left |-> SubSeq(q, n + 1, Len(q)), window |-> h[n]])
  BY <1>6, <1>7, <1>8, Outcome
<1> QED
  BY <1>33, <1>9

-----------------------------------------------------------------------------
(* The steps.                                                               *)

\* A frame that waits has a timer.
HeldHaveTimer == held # <<>> => pumpIn \in Nat

TxInv == TxTypeOK /\ HeldHaveTimer

LEMMA InvIsTimed == TxInv => Timed /\ window \in Windows
BY TxConstants DEF TxInv, TxTypeOK, Timed, Windows

\* submit.
SubmitOutcome ==
  /\ SentGood(wrote') /\ held' \in Seq(Frames) /\ Len(held') <= QueueLimit
  /\ pumpIn' \in Int /\ (held' # <<>> => pumpIn' \in Nat) /\ window' \in Windows

LEMMA SubmitGood ==
  ASSUME TxInv, NEW slotted \in BOOLEAN, Submit(slotted)
  PROVE  SubmitOutcome
<1> DEFINE f == [slotted |-> slotted, age |-> 0]
           clear == held = <<>> /\ (~Hears \/ WaitFor(slotted, window) = 0)
           kept == IF Len(held) >= QueueLimit THEN Tail(held) ELSE held
<1>1. Timed /\ window \in Windows
  BY InvIsTimed
<1>2. /\ held \in Seq(Frames) /\ Len(held) \in Nat /\ Len(held) <= QueueLimit /\ pumpIn \in Int
      /\ held # <<>> => pumpIn \in Nat
  BY LenProperties DEF TxInv, TxTypeOK, HeldHaveTimer
<1>3. f \in Frames /\ f.slotted = slotted
  BY TxConstants DEF Frames
<1>4. \/ /\ clear
         /\ wrote' = <<FrameWritten(f, FALSE)>>
         /\ window' = IF slotted /\ Hears THEN Marked(window) ELSE window
         /\ held' = held /\ pumpIn' = pumpIn
      \/ held' = Append(kept, f) /\ pumpIn' = 0 /\ wrote' = <<>> /\ window' = window
  BY DEF Submit
<1> HIDE DEF f
<1>5. CASE /\ clear
           /\ wrote' = <<FrameWritten(f, FALSE)>>
           /\ window' = IF slotted /\ Hears THEN Marked(window) ELSE window
           /\ held' = held /\ pumpIn' = pumpIn
  <2> DEFINE g == FrameWritten(f, FALSE)
  <2>1. g \in SentSet /\ g.slotted = slotted /\ g.timed = (Hears /\ SlotFits)
    BY <1>3, FrameType
  <2> HIDE DEF g
  <2>2. <<g>> \in Seq(SentSet) /\ Len(<<g>>) = 1 /\ <<g>>[1] = g
    BY <2>1
  <2>3. g.slotted /\ g.timed => Open
    <3> SUFFICES ASSUME g.slotted, g.timed
                 PROVE  Open
      OBVIOUS
    <3>1. slotted = TRUE /\ Hears /\ SlotFits
      BY <2>1
    <3>2. WaitFor(slotted, window) = 0
      BY <1>5, <3>1
    <3> QED
      BY <3>1, <3>2 DEF Open
  <2>4. SentGood(<<g>>)
    <3>1. \A i \in 1 .. Len(<<g>>) : <<g>>[i] = g
      BY <2>2
    <3> QED
      BY <2>2, <2>3, <3>1 DEF SentGood
  <2>5. wrote' = <<g>>
    BY <1>5 DEF g
  <2>6. window' \in Windows
    <3>1. Hears => Marked(window) \in Windows
      BY <1>1, MarkedType DEF Hears
    <3> QED
      BY <1>1, <1>5, <3>1
  <2>7. held' = held /\ pumpIn' = pumpIn
    BY <1>5
  <2> QED
    BY <1>2, <2>4, <2>5, <2>6, <2>7 DEF SubmitOutcome
<1>6. CASE held' = Append(kept, f) /\ pumpIn' = 0 /\ wrote' = <<>> /\ window' = window
  <2>1. kept \in Seq(Frames) /\ Len(kept) + 1 <= QueueLimit /\ Len(kept) \in Nat
    <3>1. QueueLimit \in Nat \ {0}
      BY TxConstants
    <3>2. CASE Len(held) >= QueueLimit
      <4>1. held # <<>>
        BY <1>2, <3>1, <3>2, EmptySeq
      <4>2. Tail(held) \in Seq(Frames) /\ Len(Tail(held)) = Len(held) - 1
        BY <1>2, <4>1, HeadTailProperties
      <4> QED
        BY <1>2, <3>1, <3>2, <4>2, LenProperties
    <3>3. CASE ~(Len(held) >= QueueLimit)
      BY <1>2, <3>1, <3>3
    <3> QED
      BY <3>2, <3>3
  <2> HIDE DEF kept
  <2>2. Append(kept, f) \in Seq(Frames) /\ Len(Append(kept, f)) = Len(kept) + 1
    BY <1>3, <2>1
  <2>3. held' \in Seq(Frames) /\ Len(held') <= QueueLimit /\ SentGood(wrote')
    BY <1>6, <2>1, <2>2, NothingSent
  <2> QED
    BY <1>1, <1>6, <2>3 DEF SubmitOutcome
<1> QED
  BY <1>4, <1>5, <1>6

\* What a step writes, keeps and counts, while the time stands still.
StepOutcome ==
  /\ SubmitOutcome /\ aired' \in Nat /\ gathered' \in -1 .. Horizon + 1

LEMMA HorizonType == Horizon \in Nat
<1>1. \A x, y \in Nat : x * y \in Nat
  BY ProductGrows
<1>2. 3 * MaxGap \in Nat /\ Cycle \in Nat /\ Slack \in Nat
  BY TxConstants
<1>3. 3 * MaxGap * Cycle \in Nat
  BY <1>1, <1>2
<1> QED
  BY <1>2, <1>3 DEF Horizon

LEMMA AiredGood ==
  ASSUME TxInv, AiredNow, SentGood(wrote')
  PROVE  aired' \in Nat
<1>1. Airtime(wrote') \in Nat
  BY AirType DEF SentGood
<1>2. aired \in Nat /\ aired' = aired + Airtime(wrote')
  BY DEF AiredNow, TxInv, TxTypeOK
<1> QED
  BY <1>1, <1>2

\* A step that writes nothing.
LEMMA QuietGood ==
  ASSUME TxInv, wrote' = <<>>, UNCHANGED <<held, pumpIn, window>>
  PROVE  SubmitOutcome
<1>1. held' = held /\ pumpIn' = pumpIn /\ window' = window
  OBVIOUS
<1>2. SentGood(wrote')
  BY NothingSent
<1>3. window \in Windows
  BY InvIsTimed
<1> QED
  BY <1>1, <1>2, <1>3 DEF SubmitOutcome, TxInv, TxTypeOK, HeldHaveTimer

LEMMA PlainGood ==
  ASSUME TxInv, SubmitPlain
  PROVE  StepOutcome
<1>1. SubmitOutcome
  BY SubmitGood DEF SubmitPlain
<1>2. aired' \in Nat
  BY <1>1, AiredGood DEF SubmitPlain, SubmitOutcome
<1>3. gathered' \in -1 .. Horizon + 1
  BY DEF SubmitPlain, TxInv, TxTypeOK
<1> QED
  BY <1>1, <1>2, <1>3 DEF StepOutcome

LEMMA FixGood ==
  ASSUME TxInv, FixQueued
  PROVE  StepOutcome
<1>1. SubmitOutcome
  <2>1. CASE Hears
    BY <2>1, QuietGood DEF FixQueued
  <2>2. CASE ~Hears
    BY <2>2, SubmitGood DEF FixQueued
  <2> QED
    BY <2>1, <2>2
<1>2. aired' \in Nat
  BY <1>1, AiredGood DEF FixQueued, SubmitOutcome
<1>3. gathered' \in {0, NoTimer}
  BY DEF FixQueued
<1>4. gathered' \in -1 .. Horizon + 1
  BY <1>3, HorizonType DEF NoTimer
<1> QED
  BY <1>1, <1>2, <1>4 DEF StepOutcome

LEMMA FlushTickGood ==
  ASSUME TxInv, FlushTick
  PROVE  StepOutcome
<1>1. gathered \in -1 .. Horizon + 1
  BY DEF TxInv, TxTypeOK
<1>2. \/ Submit(TRUE) /\ gathered' = NoTimer
      \/ wrote' = <<>> /\ UNCHANGED <<held, pumpIn, window>> /\ gathered' = gathered
  BY DEF FlushTick
<1>3. SubmitOutcome
  BY <1>2, SubmitGood, QuietGood
<1>4. aired' \in Nat
  BY <1>3, AiredGood DEF FlushTick, SubmitOutcome
<1>5. gathered' \in -1 .. Horizon + 1
  <2>1. gathered' = -1 \/ gathered' = gathered
    BY <1>2 DEF NoTimer
  <2> QED
    BY <1>1, <2>1, HorizonType
<1> QED
  BY <1>3, <1>4, <1>5 DEF StepOutcome

LEMMA PumpGood ==
  ASSUME TxInv, Pump
  PROVE  StepOutcome
<1> DEFINE r == Sending(Fresh(held))
<1>1. Timed /\ window \in Windows /\ held \in Seq(Frames) /\ Len(held) \in Nat /\ Len(held) <= QueueLimit
  BY InvIsTimed, LenProperties DEF TxInv, TxTypeOK
<1>2. Fresh(held) \in Seq(Frames) /\ Len(Fresh(held)) <= Len(held) /\ Len(Fresh(held)) \in Nat
  BY <1>1, FreshType
<1>3. SendingGood(Fresh(held), r)
  BY <1>1, <1>2, SendingIsGood
<1>4. /\ held' = r.left /\ wrote' = r.out /\ window' = r.window
      /\ pumpIn' = IF r.left = <<>> THEN NoTimer ELSE WaitFor(Head(r.left).slotted, r.window)
      /\ AiredNow /\ gathered' = gathered
  BY DEF Pump
<1> HIDE DEF r
<1>5. SentGood(r.out) /\ r.left \in Seq(Frames) /\ Len(r.left) <= Len(Fresh(held)) /\ r.window \in Windows
  BY <1>3 DEF SendingGood
<1>6. pumpIn' \in Int /\ (held' # <<>> => pumpIn' \in Nat)
  <2>1. CASE r.left = <<>>
    BY <1>4, <2>1 DEF NoTimer
  <2>2. CASE r.left # <<>>
    <3>1. Head(r.left) \in Frames
      BY <1>5, <2>2, HeadTailProperties
    <3>2. Head(r.left).slotted \in BOOLEAN
      BY <3>1 DEF Frames
    <3>3. WaitFor(Head(r.left).slotted, r.window) \in Nat
      BY <1>1, <3>2, WaitType
    <3> QED
      BY <1>4, <2>2, <3>3
  <2> QED
    BY <2>1, <2>2
<1>7. Len(held') <= QueueLimit
  <2>1. Len(r.left) \in Nat /\ QueueLimit \in Nat
    BY <1>5, LenProperties, TxConstants
  <2> QED
    BY <1>1, <1>2, <1>4, <1>5, <2>1
<1>8. SubmitOutcome
  BY <1>4, <1>5, <1>6, <1>7 DEF SubmitOutcome
<1>9. aired' \in Nat
  BY <1>4, <1>5, AiredGood
<1>10. gathered' \in -1 .. Horizon + 1
  BY <1>4 DEF TxInv, TxTypeOK
<1> QED
  BY <1>8, <1>9, <1>10 DEF StepOutcome

\* The next tick of the flush.
LEMMA DelayType == Timed => FlushDelay(sinceBurst) \in Int
<1> SUFFICES ASSUME Timed
             PROVE  FlushDelay(sinceBurst) \in Int
  OBVIOUS
<1> DEFINE s == sinceBurst
           at(k) == StartBefore(s) + k * Period + After + (IF SlotFits THEN slot ELSE 0) * Width
           opens == {o \in {at(k) : k \in 0 .. 2} : o > s}
           first == CHOOSE o \in opens : \A p \in opens : o <= p
<1>1. CASE ~Hears
  BY <1>1, TxConstants DEF FlushDelay
<1>2. CASE Hears
  <2>1. gaps # <<>> /\ s \in Nat
    BY <1>2 DEF Hears, Timed
  <2>2. StartBefore(s) \in Int /\ s < StartBefore(s) + Period /\ Period \in Nat
    BY <2>1, BurstBefore, PeriodType
  <2> DEFINE x == (IF SlotFits THEN slot ELSE 0) * Width
  <2>3. x \in Nat /\ After \in Nat
    <3>1. (IF SlotFits THEN slot ELSE 0) \in Nat /\ Width \in Nat /\ After \in Nat
      BY TxConstants DEF Timed
    <3> QED
      BY <3>1, ProductGrows
  <2>4. \A k \in 0 .. 2 : at(k) = StartBefore(s) + k * Period + After + x
    OBVIOUS
  <2> HIDE DEF x, at
  <2>5. 0 * Period = 0 /\ 1 * Period = Period /\ 2 * Period = Period + Period
    BY <2>2
  <2>6. at(0) \in Int /\ at(1) \in Int /\ at(2) \in Int /\ at(2) > s
    BY <2>1, <2>2, <2>3, <2>4, <2>5
  <2>7. \A k \in 0 .. 2 : at(k) \in Int
    <3>1. \A k \in 0 .. 2 : k = 0 \/ k = 1 \/ k = 2
      OBVIOUS
    <3> QED
      BY <2>6, <3>1
  <2>8. opens \in SUBSET Nat /\ opens # {}
    <3>1. at(2) \in opens
      BY <2>6
    <3>2. \A o \in opens : o \in Int /\ o > s
      BY <2>7
    <3> HIDE DEF opens
    <3>3. \A o \in opens : o \in Nat
      BY <2>1, <3>2
    <3> QED
      BY <3>1, <3>3
  <2>9. first \in opens
    <3> HIDE DEF opens
    <3>1. \E o \in opens : \A p \in opens : o <= p
      BY <2>8, LeastIsIn
    <3> QED
      BY <3>1
  <2>10. FlushDelay(s) = first - s
    BY <1>2 DEF FlushDelay, at
  <2>11. first \in Nat
    BY <2>8, <2>9
  <2> HIDE DEF first
  <2> QED
    BY <2>1, <2>10, <2>11
<1> QED
  BY <1>1, <1>2

\* The steps of the scheduler that leave the clock alone.
LEMMA StillStep ==
  ASSUME TxInv, SubmitPlain \/ FixQueued \/ Pump \/ FlushTick
  PROVE  TxInv'
<1>1. StepOutcome
  BY PlainGood, FixGood, PumpGood, FlushTickGood
<1>2. /\ sinceBurst' = sinceBurst /\ gaps' = gaps /\ slot' = slot /\ lateBy' = lateBy
      /\ moved' \in {moved, FALSE}
  BY DEF SubmitPlain, FixQueued, Pump, FlushTick
<1>3. flushIn' \in Int /\ flushArmed' \in BOOLEAN /\ flushWasAligned' \in BOOLEAN
  <2>1. flushIn \in Int /\ flushArmed \in BOOLEAN /\ flushWasAligned \in BOOLEAN
    BY DEF TxInv, TxTypeOK
  <2>2. CASE SubmitPlain \/ FixQueued \/ Pump
    BY <2>1, <2>2 DEF SubmitPlain, FixQueued, Pump
  <2>3. CASE FlushTick
    <3>1. FlushDelay(sinceBurst) \in Int
      BY InvIsTimed, DelayType
    <3>2. Hears \in BOOLEAN
      BY DEF Hears
    <3> QED
      BY <2>3, <3>1, <3>2 DEF FlushTick, ArmFlush
  <2> QED
    BY <2>2, <2>3
<1>4. moved' \in BOOLEAN
  BY <1>2 DEF TxInv, TxTypeOK
<1>5. HeldHaveTimer'
  BY <1>1 DEF StepOutcome, SubmitOutcome, HeldHaveTimer
<1>6. TxTypeOK'
  <2>1. Horizon' = Horizon
    BY DEF Horizon
  <2>2. /\ sinceBurst' \in 0 .. Horizon + 1 /\ gaps' \in Seq(1 .. MaxGap) /\ Len(gaps') <= KeepGaps
        /\ slot' \in Slots /\ lateBy' \in 0 .. MaxLate
    BY <1>2 DEF TxInv, TxTypeOK
  <2>3. /\ held' \in Seq(Frames) /\ Len(held') <= QueueLimit /\ pumpIn' \in Int
        /\ window' \in [opens : Int, used : Nat] /\ gathered' \in -1 .. Horizon + 1 /\ aired' \in Nat
    BY <1>1 DEF StepOutcome, SubmitOutcome, Windows
  <2> QED
    BY <1>3, <1>4, <2>1, <2>2, <2>3 DEF TxTypeOK, Frames
<1> QED
  BY <1>5, <1>6 DEF TxInv

LEMMA TxInitInv == TxInit => TxInv
<1> SUFFICES ASSUME TxInit
             PROVE  TxInv
  OBVIOUS
<1>1. Horizon + 1 \in 0 .. Horizon + 1 /\ -1 \in -1 .. Horizon + 1 /\ 0 \in 0 .. MaxLate /\ 0 <= KeepGaps /\ 0 <= QueueLimit
  BY HorizonType, TxConstants
<1>2. <<>> \in Seq(1 .. MaxGap) /\ <<>> \in Seq(Frames) /\ Len(<<>>) = 0
  BY EmptySeq
<1>3. NoWindow \in [opens : Int, used : Nat]
  BY TxConstants DEF NoWindow
<1>4. TxTypeOK
  <2>1. sinceBurst \in 0 .. Horizon + 1 /\ gathered \in -1 .. Horizon + 1 /\ lateBy \in 0 .. MaxLate
    BY <1>1 DEF TxInit, NoTimer
  <2>2. gaps \in Seq(1 .. MaxGap) /\ Len(gaps) <= KeepGaps /\ held \in Seq(Frames) /\ Len(held) <= QueueLimit
    BY <1>1, <1>2 DEF TxInit
  <2>3. slot \in Slots /\ pumpIn \in Int /\ flushIn \in Int /\ aired \in Nat /\ window \in [opens : Int, used : Nat]
    BY <1>3, TxConstants DEF TxInit, NoTimer
  <2>4. {flushArmed, flushWasAligned, moved} \subseteq BOOLEAN
    BY DEF TxInit
  <2> QED
    BY <2>1, <2>2, <2>3, <2>4 DEF TxTypeOK
<1> QED
  BY <1>4 DEF TxInit, TxInv, HeldHaveTimer

LEMMA SetSlotStep ==
  ASSUME TxInv, NEW s \in Slots, SetSlot(s)
  PROVE  TxInv'
<1>1. /\ sinceBurst' = sinceBurst /\ gaps' = gaps /\ slot' = s /\ lateBy' = lateBy /\ held' = held /\ moved' = TRUE
      /\ flushWasAligned' = flushWasAligned /\ window' = NoWindow /\ aired' = 0
      /\ gathered' \in {NoTimer, 0} /\ pumpIn' = (IF held = <<>> THEN pumpIn ELSE 0)
      /\ flushIn' = FlushDelay(sinceBurst)' /\ flushArmed' = Hears
  BY DEF SetSlot
<1>2. Timed'
  <2>1. Timed
    BY InvIsTimed
  <2> QED
    BY <1>1, <2>1 DEF Timed
<1>3. flushIn' \in Int
  <2>1. (FlushDelay(sinceBurst) \in Int)'
    BY <1>2, DelayType, PTL
  <2> QED
    BY <1>1, <2>1
<1>4. NoWindow \in [opens : Int, used : Nat] /\ NoTimer \in -1 .. Horizon + 1 /\ 0 \in -1 .. Horizon + 1
  BY TxConstants, HorizonType DEF NoWindow, NoTimer
<1>5. pumpIn' \in Int /\ (held' # <<>> => pumpIn' \in Nat)
  BY <1>1 DEF TxInv, TxTypeOK
<1>6. Hears \in BOOLEAN
  BY DEF Hears
<1>7. TxTypeOK'
  <2>1. Horizon' = Horizon
    BY DEF Horizon
  <2>2. /\ sinceBurst' \in 0 .. Horizon + 1 /\ gaps' \in Seq(1 .. MaxGap) /\ Len(gaps') <= KeepGaps
        /\ slot' \in Slots /\ lateBy' \in 0 .. MaxLate /\ held' \in Seq(Frames) /\ Len(held') <= QueueLimit
    BY <1>1 DEF TxInv, TxTypeOK
  <2>3. window' \in [opens : Int, used : Nat] /\ gathered' \in -1 .. Horizon + 1 /\ aired' \in Nat
    BY <1>1, <1>4
  <2>4. flushWasAligned' \in BOOLEAN /\ moved' \in BOOLEAN /\ flushArmed' \in BOOLEAN
    BY <1>1, <1>6 DEF TxInv, TxTypeOK
  <2> QED
    BY <1>3, <1>5, <2>1, <2>2, <2>3, <2>4 DEF TxTypeOK, Frames
<1> QED
  BY <1>5, <1>7 DEF TxInv, HeldHaveTimer

LEMMA FlushNowStep ==
  ASSUME TxInv, FlushNow
  PROVE  TxInv'
<1>1. Horizon + 1 \in 0 .. Horizon + 1 /\ -1 \in -1 .. Horizon + 1 /\ 0 \in 0 .. MaxLate /\ 0 <= KeepGaps /\ 0 <= QueueLimit
  BY HorizonType, TxConstants
<1>2. <<>> \in Seq(1 .. MaxGap) /\ <<>> \in Seq(Frames) /\ Len(<<>>) = 0
  BY EmptySeq
<1>3. NoWindow \in [opens : Int, used : Nat]
  BY TxConstants DEF NoWindow
<1>4. Horizon' = Horizon
  BY DEF Horizon
<1>5. TxTypeOK'
  <2>1. sinceBurst' \in 0 .. Horizon + 1 /\ gathered' \in -1 .. Horizon + 1 /\ lateBy' \in 0 .. MaxLate
    BY <1>1 DEF FlushNow, NoTimer
  <2>2. gaps' \in Seq(1 .. MaxGap) /\ Len(gaps') <= KeepGaps /\ held' \in Seq(Frames) /\ Len(held') <= QueueLimit
    BY <1>1, <1>2 DEF FlushNow
  <2>3. slot' \in Slots /\ pumpIn' \in Int /\ flushIn' \in Int /\ aired' \in Nat /\ window' \in [opens : Int, used : Nat]
    BY <1>3, TxConstants DEF FlushNow, NoTimer
  <2>4. {flushArmed', flushWasAligned', moved'} \subseteq BOOLEAN
    BY DEF FlushNow
  <2> QED
    BY <1>4, <2>1, <2>2, <2>3, <2>4 DEF TxTypeOK, Frames
<1>6. held' = <<>>
  BY DEF FlushNow
<1> QED
  BY <1>5, <1>6 DEF TxInv, HeldHaveTimer

\* A spacing that is counted is one of at least a cycle.
LEMMA PassStep ==
  ASSUME TxInv, NEW hears \in BOOLEAN, Pass(hears)
  PROVE  TxInv'
<1> DEFINE now == IF sinceBurst > Horizon THEN sinceBurst ELSE sinceBurst + 1
           gap == now \div Cycle
           short == IF Len(gaps) = KeepGaps THEN Tail(gaps) ELSE gaps
<1>0. Horizon \in Nat /\ Horizon' = Horizon
  BY HorizonType DEF Horizon
<1>1. sinceBurst \in 0 .. Horizon + 1 /\ now \in 1 .. Horizon + 1
  BY <1>0 DEF TxInv, TxTypeOK
<1>2. /\ hears => now > Horizon \/ now % Cycle = 0
      /\ sinceBurst' = IF hears THEN 0 ELSE now
      /\ gaps' = IF ~hears \/ now > Horizon \/ gap > MaxGap THEN gaps ELSE Append(short, gap)
      /\ window' = IF window.opens + Width <= now THEN NoWindow
                   ELSE IF hears THEN [window EXCEPT !.opens = @ - now] ELSE window
      /\ held' = [i \in 1 .. Len(held) |-> AgedFrame(held[i])]
      /\ pumpIn' = Less(pumpIn) /\ flushIn' = Less(flushIn)
      /\ gathered' = IF gathered = NoTimer \/ gathered > Horizon THEN gathered ELSE gathered + 1
      /\ aired' \in {0, aired}
      /\ slot' = slot /\ flushArmed' = flushArmed /\ flushWasAligned' = flushWasAligned /\ moved' = moved
  BY DEF Pass
<1>3. lateBy' \in 0 .. MaxLate
  <2>1. lateBy \in 0 .. MaxLate /\ MaxLate \in Nat /\ (~Due \/ lateBy < MaxLate) /\ lateBy' = IF Due THEN lateBy + 1 ELSE 0
    BY TxConstants DEF Pass, TxInv, TxTypeOK
  <2> QED
    BY <2>1
<1> HIDE DEF now
<1>4. sinceBurst' \in 0 .. Horizon + 1
  BY <1>0, <1>1, <1>2
<1>5. gaps' \in Seq(1 .. MaxGap) /\ Len(gaps') <= KeepGaps
  <2>1. gaps \in Seq(1 .. MaxGap) /\ Len(gaps) <= KeepGaps /\ Len(gaps) \in Nat /\ KeepGaps \in Nat \ {0}
    BY LenProperties, TxConstants DEF TxInv, TxTypeOK
  <2>2. CASE ~hears \/ now > Horizon \/ gap > MaxGap
    BY <1>2, <2>1, <2>2
  <2>3. CASE hears /\ ~(now > Horizon) /\ ~(gap > MaxGap)
    <3>1. now \in Int /\ Cycle \in Nat \ {0} /\ Cycle \in Int /\ Cycle > 0
      BY <1>0, <1>1, TxConstants
    <3> DEFINE rem == now % Cycle
    <3>2. rem = 0
      BY <1>2, <2>3
    <3>3. gap \in Int
      BY <3>1, DivMod
    <3>4. rem = now - Cycle * gap
      BY <3>1, Remainder
    <3> HIDE DEF gap, rem
    <3>5. Cycle * gap \in Int /\ Cycle * gap >= 1
      BY <1>0, <1>1, <3>1, <3>2, <3>3, <3>4
    <3>6. gap >= 1
      <4> SUFFICES ASSUME ~(gap >= 1)
                   PROVE  FALSE
        OBVIOUS
      <4>1. 1 - gap \in Int /\ 1 - gap >= 1
        BY <3>3
      <4>2. Cycle * (1 - gap) >= Cycle
        BY <3>1, <4>1, Grows
      <4>3. Cycle * 1 - Cycle * gap = Cycle * (1 - gap)
        BY <3>1, <3>3, Dist
      <4> QED
        BY <3>1, <3>5, <4>2, <4>3
    <3>7. gap \in 1 .. MaxGap
      BY <2>3, <3>3, <3>6, TxConstants
    <3>8. short \in Seq(1 .. MaxGap) /\ Len(short) + 1 <= KeepGaps
      <4>1. CASE Len(gaps) = KeepGaps
        <5>1. gaps # <<>>
          BY <2>1, <4>1, EmptySeq
        <5>2. Tail(gaps) \in Seq(1 .. MaxGap) /\ Len(Tail(gaps)) = Len(gaps) - 1
          BY <2>1, <5>1, HeadTailProperties
        <5> QED
          BY <2>1, <4>1, <5>2
      <4>2. CASE Len(gaps) # KeepGaps
        BY <2>1, <4>2
      <4> QED
        BY <4>1, <4>2
    <3> HIDE DEF short
    <3>9. Append(short, gap) \in Seq(1 .. MaxGap) /\ Len(Append(short, gap)) = Len(short) + 1
      BY <3>7, <3>8
    <3>10. gaps' = Append(short, gap)
      BY <1>2, <2>3
    <3> QED
      BY <3>8, <3>9, <3>10
  <2> QED
    BY <2>2, <2>3
<1>6. window' \in [opens : Int, used : Nat]
  <2>1. window \in [opens : Int, used : Nat] /\ now \in Int
    BY <1>0, <1>1 DEF TxInv, TxTypeOK
  <2>2. NoWindow \in [opens : Int, used : Nat]
    BY TxConstants DEF NoWindow
  <2>3. [window EXCEPT !.opens = @ - now] \in [opens : Int, used : Nat]
    BY <2>1
  <2> QED
    BY <1>2, <2>1, <2>2, <2>3
<1>7. held' \in Seq(Frames) /\ Len(held') = Len(held) /\ Len(held) <= QueueLimit /\ (held' # <<>> => held # <<>>)
  <2>1. held \in Seq(Frames) /\ Len(held) \in Nat /\ Len(held) <= QueueLimit /\ \A i \in 1 .. Len(held) : held[i] \in Frames
    BY LenProperties, ElementOfSeq DEF TxInv, TxTypeOK
  <2>2. ASSUME NEW f \in Frames
        PROVE  AgedFrame(f) \in Frames
    <3>1. f.age \in 0 .. MaxAge + 1 /\ MaxAge \in Nat
      BY TxConstants DEF Frames
    <3>2. (IF f.age > MaxAge THEN f.age ELSE f.age + 1) \in 0 .. MaxAge + 1
      BY <3>1
    <3> QED
      BY <3>2 DEF AgedFrame, Frames
  <2>3. held' \in [1 .. Len(held) -> Frames]
    BY <1>2, <2>1, <2>2
  <2>4. held' \in Seq(Frames)
    BY <2>1, <2>3, SeqDef
  <2>5. Len(held') = Len(held)
    BY <2>1, <2>3, <2>4, LenProperties
  <2>6. Len(held) # 0 => held # <<>>
    BY EmptySeq
  <2>7. Len(held') = 0 => held' = <<>>
    BY <2>4, EmptySeq
  <2> QED
    BY <2>1, <2>4, <2>5, <2>6, <2>7
<1>8. pumpIn' \in Int /\ flushIn' \in Int /\ (held' # <<>> => pumpIn' \in Nat)
  <2>1. pumpIn \in Int /\ flushIn \in Int /\ (held # <<>> => pumpIn \in Nat)
    BY DEF TxInv, TxTypeOK, HeldHaveTimer
  <2>2. \A t \in Int : Less(t) \in Int /\ (t \in Nat => Less(t) \in Nat)
    BY DEF Less
  <2> QED
    BY <1>2, <1>7, <2>1, <2>2
<1>9. gathered' \in -1 .. Horizon + 1 /\ aired' \in Nat
  <2>1. gathered \in -1 .. Horizon + 1 /\ aired \in Nat
    BY DEF TxInv, TxTypeOK
  <2> QED
    BY <1>0, <1>2, <2>1
<1>10. slot' \in Slots /\ flushArmed' \in BOOLEAN /\ flushWasAligned' \in BOOLEAN /\ moved' \in BOOLEAN
  BY <1>2 DEF TxInv, TxTypeOK
<1>11. TxTypeOK'
  BY <1>0, <1>3, <1>4, <1>5, <1>6, <1>7, <1>8, <1>9, <1>10 DEF TxTypeOK, Frames
<1> QED
  BY <1>8, <1>11 DEF TxInv, HeldHaveTimer

LEMMA TxStepInv == TxInv /\ [TxNext]_txVars => TxInv'
<1> SUFFICES ASSUME TxInv, [TxNext]_txVars
             PROVE  TxInv'
  OBVIOUS
<1>1. CASE SubmitPlain \/ FixQueued \/ Pump \/ FlushTick
  BY <1>1, StillStep
<1>2. ASSUME NEW s \in Slots, SetSlot(s)
      PROVE  TxInv'
  BY <1>2, SetSlotStep
<1>3. CASE FlushNow
  BY <1>3, FlushNowStep
<1>4. ASSUME NEW h \in BOOLEAN, Pass(h)
      PROVE  TxInv'
  BY <1>4, PassStep
<1>5. CASE UNCHANGED txVars
  <2>1. Horizon' = Horizon
    BY DEF Horizon
  <2> QED
    BY <1>5, <2>1 DEF txVars, TxInv, TxTypeOK, HeldHaveTimer, Frames
<1> QED
  BY <1>1, <1>2, <1>3, <1>4, <1>5 DEF TxNext

LEMMA TxInvariant == TxSpec => []TxInv
BY TxInitInv, TxStepInv, PTL DEF TxSpec

\* What the scheduler of a boat keeps is always of its type, however late the timers are and
\* whatever bursts are missed: the idea of the cycle is never empty or zero, and no queue overflows.
THEOREM TxTypesHold == TxSpec => []TxTypeOK
<1>1. TxInv => TxTypeOK
  BY DEF TxInv
<1> QED
  BY <1>1, TxInvariant, PTL

\* A frame that waits has a timer to let it go: submit, _pump and setSlot never leave one behind.
THEOREM NoFrameForgotten == TxSpec => [](held # <<>> => pumpIn # NoTimer)
<1>1. TxInv => (held # <<>> => pumpIn # NoTimer)
  BY DEF TxInv, HeldHaveTimer, NoTimer
<1> QED
  BY <1>1, TxInvariant, PTL

\* If the frames of each slot start in its own cycle, a boat sends them in its slot of the true
\* cycle, whatever bursts it heard or missed and however late its timers are (InOwnSlot).
THEOREM SlotsAreKept ==
  ASSUME SlotsInCycle
  PROVE  TxSpec => InOwnSlot
<1> DEFINE P == \A i \in 1 .. Len(wrote') :
                  /\ wrote'[i].slotted /\ wrote'[i].timed /\ ~wrote'[i].forced
                  /\ Period % Cycle = 0
                  => Moment \in After + slot * Width .. After + (slot + 1) * Width - 1
<1>1. ASSUME TxInv, [TxNext]_txVars
      PROVE  [P]_txVars
  <2> SUFFICES ASSUME TxNext
               PROVE  P
    BY <1>1
  <2>0. TxInv
    BY <1>1
  <2>1. Open => Clear /\ Hears /\ SlotFits
    BY <2>0, InvIsTimed, ClearIsOwn DEF Open
  <2>2. CASE SentGood(wrote')
    BY <2>1, <2>2 DEF SentGood, Clear, OwnSlotNow
  <2>3. CASE wrote' = <<>>
    BY <2>3, NothingSent, <2>2
  <2>4. CASE SubmitPlain \/ FixQueued \/ Pump \/ FlushTick
    <3>1. SentGood(wrote')
      BY <2>0, <2>4, PlainGood, FixGood, PumpGood, FlushTickGood DEF StepOutcome, SubmitOutcome
    <3> QED
      BY <2>2, <3>1
  <2>5. CASE \/ \E s \in Slots : SetSlot(s)
            \/ \E h \in BOOLEAN : Pass(h)
    BY <2>3, <2>5 DEF SetSlot, Pass
  <2>6. CASE FlushNow
    <3>1. held \in Seq(Frames) /\ Len(held) \in Nat /\ \A i \in 1 .. Len(held) : held[i] \in Frames
      BY <2>0, LenProperties, ElementOfSeq DEF TxInv, TxTypeOK
    <3>2. wrote' = [i \in 1 .. Len(held) |-> FrameWritten(held[i], TRUE)]
      BY <2>6 DEF FlushNow
    <3>3. \A i \in 1 .. Len(held) : FrameWritten(held[i], TRUE) \in SentSet /\ FrameWritten(held[i], TRUE).forced = TRUE
      BY <3>1, FrameType
    <3>4. wrote' \in [1 .. Len(held) -> SentSet] /\ \A i \in 1 .. Len(held) : wrote'[i].forced = TRUE
      BY <3>2, <3>3
    <3>5. Len(wrote') = Len(held)
      <4>1. wrote' \in Seq(SentSet)
        BY <3>1, <3>4, SeqDef
      <4> QED
        BY <3>1, <3>4, <4>1, LenProperties
    <3> QED
      BY <3>4, <3>5
  <2> QED
    BY <2>4, <2>5, <2>6 DEF TxNext
<1> QED
  BY <1>1, TxInvariant, PTL DEF TxSpec, InOwnSlot

-----------------------------------------------------------------------------
(* NothingStuck.  First, how far the boat's idea of the cycle may be off.   *)

LEMMA HalfOfEven == \A z, c, j \in Int : z = c * (2 * j) => z \div 2 = c * j
<1> SUFFICES ASSUME NEW z \in Int, NEW c \in Int, NEW j \in Int, z = c * (2 * j)
             PROVE  z \div 2 = c * j
  OBVIOUS
<1>1. c * j \in Int /\ c * (2 * j) = 2 * (c * j)
  BY Assoc, ProductIsInt
<1> DEFINE y == c * j
<1>2. y \in Int /\ z = 2 * y
  BY <1>1
<1> HIDE DEF y
<1>3. z \div 2 = y
  BY <1>2
<1> QED
  BY <1>3 DEF y

\* A period is whole cycles, or one and a half cycles or more; and it is not longer than the longest spacing.
LEMMA PeriodRange ==
  ASSUME Timed, gaps # <<>>
  PROVE  /\ Period \in Nat \ {0} /\ Cycle <= Period /\ Period <= MaxGap * Cycle
         /\ (\E j \in Int : Period = Cycle * j) \/ 2 * Period >= 3 * Cycle - 1
<1> DEFINE n == Len(gaps)
           x == Ranked((n + 1) \div 2)
           y == Ranked(n \div 2 + 1)
<1>1. n \in Nat /\ n >= 1
  BY GapsType, EmptySeq DEF Timed
<1>2. (n + 1) \div 2 \in 1 .. n /\ n \div 2 + 1 \in 1 .. n
  <2> HIDE DEF n
  <2> QED
    BY <1>1
<1>3. x \in 1 .. MaxGap /\ y \in 1 .. MaxGap
  BY <1>2, RankedType
<1>4. Period = (Cycle * (x + y)) \div 2
  BY DEF Period
<1> HIDE DEF x, y, n
<1>5. Cycle \in Nat \ {0} /\ Cycle \in Int /\ MaxGap \in Nat \ {0} /\ x + y \in Nat /\ x + y >= 2 /\ x + y <= 2 * MaxGap
  BY <1>3, TxConstants
<1> DEFINE t == x + y
           z == Cycle * t
<1>6. t \in Int /\ t >= 2 /\ t <= 2 * MaxGap
  BY <1>5
<1> HIDE DEF t
<1>7. z \in Int /\ Cycle * 2 <= z /\ z <= Cycle * (2 * MaxGap)
  <2>1. t - 2 \in Nat /\ 2 * MaxGap - t \in Nat /\ 2 * MaxGap \in Int
    BY <1>5, <1>6
  <2>2. Cycle * (t - 2) \in Nat /\ Cycle * (2 * MaxGap - t) \in Nat
    BY <1>5, <2>1, ProductGrows
  <2>3. Cycle * t - Cycle * 2 = Cycle * (t - 2) /\ Cycle * (2 * MaxGap) - Cycle * t = Cycle * (2 * MaxGap - t)
    BY <1>5, <1>6, <2>1, Dist
  <2>4. Cycle * t \in Int /\ Cycle * 2 \in Int /\ Cycle * (2 * MaxGap) \in Int
    BY <1>5, <1>6, <2>1, ProductIsInt
  <2> QED
    BY <2>2, <2>3, <2>4
<1>8. Period = z \div 2
  BY <1>4 DEF t
<1>9. Cycle * (2 * MaxGap) = 2 * (MaxGap * Cycle) /\ MaxGap * Cycle \in Int
  <2>1. Cycle * (2 * MaxGap) = 2 * (Cycle * MaxGap) /\ Cycle * MaxGap = MaxGap * Cycle /\ Cycle * MaxGap \in Int
    BY <1>5, Assoc, ProductIsInt
  <2> QED
    BY <2>1
<1> DEFINE top == MaxGap * Cycle
<1>10. (\E j \in Int : Period = Cycle * j) \/ 2 * Period >= 3 * Cycle - 1
  <2>1. CASE t % 2 = 0
    <3>1. PICK j \in Int : t = 2 * j
      BY <1>6, <2>1
    <3>2. z = Cycle * (2 * j)
      BY <3>1
    <3> HIDE DEF z
    <3>3. z \div 2 = Cycle * j
      BY <1>5, <1>7, <3>1, <3>2, HalfOfEven
    <3> QED
      BY <1>8, <3>1, <3>3
  <2>2. CASE t % 2 # 0
    <3>1. t - 3 \in Nat
      BY <1>6, <2>2
    <3>2. Cycle * (t - 3) \in Nat /\ Cycle * t - Cycle * 3 = Cycle * (t - 3) /\ Cycle * 3 \in Int
      BY <1>5, <1>6, <3>1, ProductGrows, Dist, ProductIsInt
    <3>3. z >= 3 * Cycle
      BY <1>5, <1>7, <3>2
    <3> HIDE DEF z
    <3> QED
      BY <1>5, <1>7, <1>8, <3>3
  <2> QED
    BY <2>1, <2>2
<1>11. Period \in Nat \ {0} /\ Cycle <= Period /\ Period <= top
  <2>1. top \in Int /\ z <= 2 * top
    BY <1>7, <1>9
  <2>2. Cycle * 2 = 2 * Cycle
    BY <1>5
  <2> HIDE DEF top, z
  <2> QED
    BY <1>5, <1>7, <1>8, <2>1, <2>2
<1> QED
  BY <1>10, <1>11

\* There is one opening of the slot in a true cycle in which frames go out.
LEMMA OneOpening ==
  ASSUME Timed, gaps # <<>>, SlotIsShort, NEW s \in Nat, NEW u \in Nat, s <= u, s \div Cycle = u \div Cycle,
         InOpening(s), InOpening(u)
  PROVE  Opens(0, s) = Opens(0, u)
<1> DEFINE P == Period
           a == After + slot * Width
           c == s \div Cycle
<1>1. /\ P \in Nat \ {0} /\ Cycle <= P /\ Cycle \in Nat \ {0} /\ Cycle \in Int /\ P \in Int /\ a \in Int
      /\ (\E j \in Int : P = Cycle * j) \/ 2 * P >= 3 * Cycle - 1
  <2>1. slot \in Nat /\ Width \in Nat /\ After \in Nat /\ Cycle \in Nat \ {0}
    BY TxConstants DEF Timed
  <2>2. a \in Int
    BY <2>1, ProductIsInt
  <2> HIDE DEF a
  <2> QED
    BY <2>1, <2>2, PeriodRange
<1>2. PICK m \in Int : StartBefore(s) = m * P /\ m * P \in Int /\ m * P <= s /\ s < m * P + P
  BY BurstBefore
<1>3. PICK n \in Int : StartBefore(u) = n * P /\ n * P \in Int /\ n * P <= u /\ u < n * P + P
  BY BurstBefore
<1>4. Opens(0, s) = m * P + a /\ Opens(0, u) = n * P + a
  <2>1. Opens(0, s) = StartBefore(s) + After + slot * Width /\ Opens(0, u) = StartBefore(u) + After + slot * Width
    BY OpensType
  <2>2. slot \in Nat /\ Width \in Nat /\ After \in Nat
    BY TxConstants DEF Timed
  <2>3. slot * Width \in Int
    BY <2>2, ProductIsInt
  <2> QED
    BY <1>2, <1>3, <2>1, <2>2, <2>3
<1>5. c \in Int /\ Cycle * c \in Int /\ Cycle * c <= s /\ u < Cycle * c + Cycle
  <2>0. s \in Int /\ u \in Int /\ Cycle > 0
    BY <1>1
  <2>1. c \in Int /\ s % Cycle \in 0 .. Cycle - 1 /\ s % Cycle = s - Cycle * c
    <3>1. c \in Int /\ s % Cycle \in 0 .. Cycle - 1
      BY <1>1, <2>0, DivMod
    <3>2. s % Cycle = s - Cycle * (s \div Cycle)
      BY <1>1, <2>0, Remainder
    <3> QED
      BY <3>1, <3>2
  <2>2. u % Cycle \in 0 .. Cycle - 1 /\ u % Cycle = u - Cycle * (u \div Cycle)
    <3>1. u % Cycle \in 0 .. Cycle - 1
      BY <1>1, <2>0, DivMod
    <3>2. u % Cycle = u - Cycle * (u \div Cycle)
      BY <1>1, <2>0, Remainder
    <3> QED
      BY <3>1, <3>2
  <2>3. Cycle * c \in Int
    BY <1>1, <2>1, ProductIsInt
  <2> DEFINE r == u % Cycle
             q == s % Cycle
  <2>4. r = u - Cycle * c /\ q = s - Cycle * c /\ r \in 0 .. Cycle - 1 /\ q \in 0 .. Cycle - 1
    BY <2>1, <2>2
  <2> HIDE DEF r, q, c
  <2> QED
    BY <1>1, <2>1, <2>3, <2>4
<1> SUFFICES ASSUME m # n
             PROVE  FALSE
  BY <1>4
<1> HIDE DEF c, a, P
<1>6. m < n
  <2> SUFFICES ASSUME m > n
               PROVE  FALSE
    BY <1>2, <1>3
  <2>1. P * (m - n) >= P
    BY <1>1, Grows
  <2>2. P * m - P * n = P * (m - n) /\ P * m = m * P /\ P * n = n * P
    BY <1>1, Dist
  <2> QED
    BY <1>1, <1>2, <1>3, <2>1, <2>2
<1>7. m * P + P <= n * P
  <2>1. P * (n - m) >= P
    BY <1>1, <1>6, Grows
  <2>2. P * n - P * m = P * (n - m) /\ P * m = m * P /\ P * n = n * P
    BY <1>1, Dist
  <2> QED
    BY <1>1, <1>2, <1>3, <2>1, <2>2
<1>8. CASE \E j \in Int : P = Cycle * j
  <2>1. PICK j \in Int : P = Cycle * j
    BY <1>8
  <2>2. n * P = Cycle * (n * j) /\ n * j \in Int
    BY <1>1, <2>1, Assoc, ProductIsInt
  <2> DEFINE k == n * j
  <2>3. k \in Int /\ n * P = Cycle * k /\ Cycle * k \in Int
    BY <1>1, <2>2, ProductIsInt
  <2> HIDE DEF k
  <2>4. s < Cycle * k /\ Cycle * k <= u
    BY <1>1, <1>2, <1>3, <1>7, <2>3
  <2>5. k > c
    <3> SUFFICES ASSUME ~(k > c)
                 PROVE  FALSE
      OBVIOUS
    <3>1. c - k \in Nat
      BY <1>5, <2>3
    <3>2. Cycle * (c - k) \in Nat /\ Cycle * c - Cycle * k = Cycle * (c - k)
      BY <1>1, <1>5, <2>3, <3>1, ProductGrows, Dist
    <3> QED
      BY <1>5, <2>3, <2>4, <3>2
  <2>6. Cycle * (k - c) >= Cycle /\ Cycle * k - Cycle * c = Cycle * (k - c)
    BY <1>1, <1>5, <2>3, <2>5, Grows, Dist
  <2> QED
    BY <1>1, <1>5, <2>3, <2>4, <2>6
<1>9. CASE 2 * P >= 3 * Cycle - 1
  <2>1. Width \in Nat /\ Need \in Nat /\ Guard \in Nat
    BY TxConstants
  <2>2. PICK d \in 0 .. Width - 1 : s = Opens(0, s) + d /\ (d = 0 \/ d <= Width - Need - Guard)
    BY DEF InOpening
  <2>3. PICK e \in 0 .. Width - 1 : u = Opens(0, u) + e
    BY DEF InOpening
  <2>4. s = m * P + a + d /\ u = n * P + a + e
    BY <1>4, <2>2, <2>3
  <2>5. u - s <= Cycle - 1
    BY <1>1, <1>5
  <2>6. P - d <= Cycle - 1
    BY <1>1, <1>2, <1>3, <1>7, <2>1, <2>4, <2>5
  <2> QED
    BY <1>1, <1>9, <2>1, <2>2, <2>6 DEF SlotIsShort
<1> QED
  BY <1>1, <1>8, <1>9
-----------------------------------------------------------------------------
(* The air time of a slot.                                                  *)

EnoughAir(a) == a <= Width - Guard \/ a <= Need

\* The air time a used in this true cycle was used in one opening of the slot: that which the window
\* w accounts for, or one that is over.
AirFits(w, a) ==
  a # 0 => \E s \in 0 .. sinceBurst :
             /\ gaps # <<>> /\ SlotFits /\ InOpening(s) /\ s \div Cycle = sinceBurst \div Cycle
             /\ \/ w.opens = Opens(0, s) /\ a <= w.used /\ EnoughAir(w.used)
                \/ sinceBurst >= Opens(0, s) + Width /\ EnoughAir(a)

LEMMA MarkedIs ==
  ASSUME Timed, gaps # <<>>, InOpening(sinceBurst), NEW w \in Windows
  PROVE  /\ Marked(w).opens = Opens(0, sinceBurst)
         /\ Marked(w).used = Used(Opens(0, sinceBurst), w) + Need
<1> DEFINE ks == {k \in 0 .. 2 : sinceBurst < Opens(k, sinceBurst) + Width}
           first == CHOOSE k \in ks : \A j \in ks : k <= j
           o == Opens(first, sinceBurst)
<1>1. 0 \in ks
  <2>1. Opens(0, sinceBurst) \in Int /\ Width \in Nat
    BY OpensType, TxConstants DEF Timed
  <2>2. PICK d \in 0 .. Width - 1 : sinceBurst = Opens(0, sinceBurst) + d
    BY DEF InOpening
  <2>3. sinceBurst < Opens(0, sinceBurst) + Width
    BY <2>1, <2>2
  <2> QED
    BY <2>3
<1>2. first = 0
  <2>1. \A k \in ks : k \in 0 .. 2
    OBVIOUS
  <2> HIDE DEF ks
  <2>2. \A k \in ks : 0 <= k
    BY <2>1
  <2>3. first \in ks /\ \A j \in ks : first <= j
    BY <1>1, <2>2
  <2> HIDE DEF first
  <2> QED
    BY <1>1, <2>1, <2>3
<1>3. Marked(w) = [opens |-> o, used |-> Used(o, w) + Need]
  BY DEF Marked
<1> HIDE DEF first
<1> QED
  BY <1>2, <1>3

\* A frame that is clear for the slot is in the opening the air time of this cycle was used in.
LEMMA FrameFits ==
  ASSUME Timed, SlotIsShort, Hears, SlotFits, NEW w \in Windows, NEW a \in Nat, AirFits(w, a), WaitFor(TRUE, w) = 0
  PROVE  AirFits(Marked(w), a + Need)
<1> DEFINE u == sinceBurst
           o == Opens(0, u)
<1>1. /\ gaps # <<>> /\ u \in Nat /\ InOpening(u) /\ RoomIn(o, w) /\ o \in Int
      /\ Need \in Nat \ {0} /\ Width \in Nat /\ Guard \in Nat /\ Cycle \in Nat \ {0} /\ w.used \in Nat
  <2>1. gaps # <<>> /\ u \in Nat
    BY DEF Hears, Timed
  <2>2. InOpening(sinceBurst) /\ RoomIn(Opens(0, sinceBurst), w)
    BY NoWaitInOpening
  <2> QED
    BY <2>1, <2>2, OpensType, TxConstants DEF Windows
<1>2. Marked(w).opens = o /\ Marked(w).used = Used(o, w) + Need
  BY <1>1, MarkedIs
<1>3. Used(o, w) \in Nat /\ (Used(o, w) = 0 \/ Used(o, w) + Need <= Width - Guard)
  BY <1>1 DEF Used, RoomIn
<1>4. a <= Used(o, w)
  <2>1. CASE a = 0
    BY <1>3, <2>1
  <2>2. CASE a # 0
    <3>1. PICK s \in 0 .. u : /\ InOpening(s) /\ s \div Cycle = u \div Cycle
                             /\ \/ w.opens = Opens(0, s) /\ a <= w.used
                                \/ u >= Opens(0, s) + Width
      BY <2>2 DEF AirFits
    <3>2. Opens(0, s) = o
      <4>1. s \in Nat /\ s <= u
        BY <1>1
      <4> QED
        BY <1>1, <3>1, <4>1, OneOpening
    <3>3. ~(u >= o + Width)
      <4>1. PICK d \in 0 .. Width - 1 : u = o + d
        BY <1>1 DEF InOpening
      <4> HIDE DEF u, o
      <4> QED
        BY <1>1, <4>1
    <3>4. w.opens = o /\ a <= w.used
      BY <3>1, <3>2, <3>3
    <3> QED
      BY <3>4 DEF Used
  <2> QED
    BY <2>1, <2>2
<1>5. a + Need <= Marked(w).used /\ EnoughAir(Marked(w).used)
  <2>1. a + Need <= Used(o, w) + Need /\ (Used(o, w) + Need <= Width - Guard \/ Used(o, w) + Need <= Need)
    BY <1>1, <1>3, <1>4
  <2> QED
    BY <1>2, <2>1 DEF EnoughAir
<1>6. u \in 0 .. sinceBurst
  BY <1>1
<1> QED
  BY <1>1, <1>2, <1>5, <1>6 DEF AirFits

\* Counting the frames of a queue one by one.
LEMMA CountFrames ==
  ASSUME NEW q, NEW n \in Nat
  PROVE  /\ Cardinality({k \in 1 .. 0 : q[k].slotted}) = 0
         /\ Cardinality({k \in 1 .. n : q[k].slotted}) \in Nat
         /\ Cardinality({k \in 1 .. n + 1 : q[k].slotted})
              = Cardinality({k \in 1 .. n : q[k].slotted}) + (IF q[n + 1].slotted THEN 1 ELSE 0)
<1> DEFINE S(m) == {k \in 1 .. m : q[k].slotted}
<1>1. IsFiniteSet(S(n)) /\ Cardinality(S(n)) \in Nat
  <2>1. IsFiniteSet(1 .. n)
    BY FS_Interval
  <2>2. S(n) \subseteq 1 .. n
    OBVIOUS
  <2>3. IsFiniteSet(S(n))
    BY <2>1, <2>2, FS_Subset
  <2> QED
    BY <2>3, FS_CardinalityType
<1>2. S(0) = {} /\ Cardinality({}) = 0
  BY FS_EmptySet
<1>3. CASE q[n + 1].slotted
  <2>1. S(n + 1) = S(n) \cup {n + 1} /\ n + 1 \notin S(n)
    BY <1>3
  <2> HIDE DEF S
  <2>2. Cardinality(S(n + 1)) = Cardinality(S(n)) + 1
    BY <1>1, <2>1, FS_AddElement
  <2> QED
    BY <1>1, <1>2, <1>3, <2>2 DEF S
<1>4. CASE ~q[n + 1].slotted
  <2>1. S(n + 1) = S(n)
    BY <1>4
  <2> HIDE DEF S
  <2>2. Cardinality(S(n + 1)) = Cardinality(S(n)) + 0
    BY <1>1, <2>1
  <2> QED
    BY <1>1, <1>2, <1>4, <2>2 DEF S
<1> QED
  BY <1>3, <1>4

LEMMA LoopFits ==
  ASSUME Timed, SlotIsShort, Hears, SlotFits, NEW q \in Seq(Frames), NEW h, NEW n, Loop(h, n, q),
         NEW a \in Nat, AirFits(window, a)
  PROVE  AirFits(h[n], a + Need * Cardinality({k \in 1 .. n : q[k].slotted}))
<1> DEFINE C(i) == Cardinality({k \in 1 .. i : q[k].slotted})
           T == {i \in 0 .. n : AirFits(h[i], a + Need * C(i))}
<1>1. Len(q) \in Nat /\ n \in 0 .. Len(q) /\ Need \in Nat /\ \A i \in 1 .. Len(q) : q[i] \in Frames
  BY LenProperties, ElementOfSeq, TxConstants DEF Loop
<1>2. 0 \in T
  <2>1. C(0) = 0
    BY CountFrames
  <2> HIDE DEF C
  <2>2. a + Need * C(0) = a
    BY <1>1, <2>1
  <2> QED
    BY <1>1, <2>2 DEF Loop
<1>3. ASSUME NEW i \in 0 .. n - 1, i \in T
      PROVE  i + 1 \in T
  <2>1. i \in Nat /\ i + 1 \in 1 .. n /\ i + 1 \in 1 .. Len(q) /\ i + 1 - 1 = i /\ i + 1 \in 0 .. n /\ i \in 0 .. Len(q)
    BY <1>1
  <2>2. h[i + 1] = (IF q[i + 1].slotted /\ Hears THEN Marked(h[i]) ELSE h[i]) /\ h[i] \in Windows
        /\ WaitFor(q[i + 1].slotted, h[i]) = 0
    BY <2>1 DEF Loop
  <2>3. C(i) \in Nat /\ C(i + 1) = C(i) + (IF q[i + 1].slotted THEN 1 ELSE 0)
    BY <2>1, CountFrames
  <2>4. AirFits(h[i], a + Need * C(i))
    BY <1>3
  <2> HIDE DEF T, C
  <2>5. Need * C(i) \in Nat /\ Need * (C(i) + 1) = Need * C(i) + Need /\ Need * (C(i) + 0) = Need * C(i)
    BY <1>1, <2>3, ProductGrows
  <2>6. CASE q[i + 1].slotted
    <3>1. q[i + 1].slotted = TRUE
      BY <1>1, <2>1, <2>6 DEF Frames
    <3>2. AirFits(Marked(h[i]), a + Need * C(i) + Need)
      <4>1. a + Need * C(i) \in Nat
        BY <2>5
      <4> QED
        BY <2>2, <2>4, <3>1, <4>1, FrameFits
    <3>3. a + Need * C(i) + Need = a + Need * C(i + 1)
      <4>1. C(i + 1) = C(i) + 1
        BY <2>3, <2>6
      <4>2. Need * C(i + 1) = Need * C(i) + Need
        BY Zenon, <2>5, <4>1
      <4>3. Need * C(i) \in Nat
        BY <2>5
      <4> DEFINE x == Need * C(i)
                 y == Need * C(i + 1)
      <4>4. y = x + Need /\ x \in Nat
        BY <4>2, <4>3
      <4> HIDE DEF x, y
      <4>5. a + x + Need = a + y
        BY <1>1, <4>4
      <4> QED
        BY <4>5 DEF x, y
    <3> QED
      BY <2>1, <2>2, <2>6, <3>2, <3>3 DEF T
  <2>7. CASE ~q[i + 1].slotted
    <3>1. a + Need * C(i) = a + Need * C(i + 1)
      <4>1. C(i + 1) = C(i)
        BY <2>3, <2>7
      <4> QED
        BY <4>1
    <3> QED
      BY <2>1, <2>2, <2>4, <2>7, <3>1 DEF T
  <2> QED
    BY <2>6, <2>7
<1> HIDE DEF T
<1>4. n \in Nat
  BY <1>1
<1>5. 0 .. n \subseteq T
  BY <1>2, <1>3, <1>4, UpToInduction
<1>6. n \in T
  BY <1>4, <1>5
<1> QED
  BY <1>6 DEF T

\* What the frames of a queue add to the air time of the slot.
LEMMA AirOf ==
  ASSUME Timed, NEW q \in Seq(Frames), NEW n \in 0 .. Len(q)
  PROVE  Airtime([i \in 1 .. n |-> FrameWritten(q[i], FALSE)])
           = IF Hears /\ SlotFits THEN Need * Cardinality({k \in 1 .. n : q[k].slotted}) ELSE 0
<1> DEFINE out == [i \in 1 .. n |-> FrameWritten(q[i], FALSE)]
           S == {i \in DOMAIN out : out[i].slotted /\ out[i].timed /\ ~out[i].forced}
<1>1. Len(q) \in Nat /\ \A i \in 1 .. n : q[i] \in Frames
  BY LenProperties, ElementOfSeq
<1>2. DOMAIN out = 1 .. n /\ Airtime(out) = Need * Cardinality(S)
  BY DEF Airtime
<1>3. \A i \in 1 .. n : out[i].slotted = q[i].slotted /\ out[i].forced = FALSE /\ out[i].timed = (Hears /\ SlotFits)
  <2> TAKE i \in 1 .. n
  <2>1. out[i] = FrameWritten(q[i], FALSE)
    OBVIOUS
  <2> HIDE DEF out
  <2>2. q[i] \in Frames /\ FALSE \in BOOLEAN
    BY <1>1
  <2>3. /\ FrameWritten(q[i], FALSE).slotted = q[i].slotted /\ FrameWritten(q[i], FALSE).forced = FALSE
        /\ FrameWritten(q[i], FALSE).timed = (Hears /\ SlotFits)
    BY Zenon, <2>2, FrameType
  <2> QED
    BY Zenon, <2>1, <2>3
<1> HIDE DEF out
<1>4. CASE Hears /\ SlotFits
  <2>1. S = {k \in 1 .. n : q[k].slotted}
    BY <1>2, <1>3, <1>4
  <2> HIDE DEF S
  <2> QED
    BY Zenon, <1>2, <1>4, <2>1 DEF out
<1>5. CASE ~(Hears /\ SlotFits)
  <2>1. S = {}
    BY <1>2, <1>3, <1>5
  <2> HIDE DEF S
  <2>2. Need * Cardinality(S) = 0
    <3>1. Cardinality(S) = 0 /\ Need \in Nat
      BY <2>1, FS_EmptySet, TxConstants
    <3> QED
      BY <3>1
  <2> QED
    BY Zenon, <1>2, <1>5, <2>2 DEF out
<1> QED
  BY <1>4, <1>5

\* A boat that hears nothing fills no window.
LEMMA WindowStill ==
  ASSUME ~Hears, NEW q \in Seq(Frames), NEW h, NEW n, Loop(h, n, q)
  PROVE  h[n] = window
<1> DEFINE T == {i \in 0 .. n : h[i] = window}
<1>1. Len(q) \in Nat /\ n \in 0 .. Len(q)
  BY LenProperties DEF Loop
<1>2. 0 \in T
  BY <1>1 DEF Loop
<1>3. ASSUME NEW i \in 0 .. n - 1, i \in T
      PROVE  i + 1 \in T
  <2>1. i + 1 \in 1 .. Len(q) /\ i + 1 - 1 = i /\ i + 1 \in 0 .. n
    BY <1>1
  <2>2. h[i + 1] = h[i]
    BY <2>1 DEF Loop
  <2> QED
    BY <1>3, <2>1, <2>2
<1> HIDE DEF T
<1>4. n \in Nat
  BY <1>1
<1>5. 0 .. n \subseteq T
  BY <1>2, <1>3, <1>4, UpToInduction
<1> QED
  BY <1>4, <1>5 DEF T

\* Frames that are not timed need none of the air time of the slot.
LEMMA UntimedFits ==
  ASSUME NEW a \in Nat, NEW w, NEW v, AirFits(w, a), ~(Hears /\ SlotFits), Hears \/ v = w
  PROVE  AirFits(v, a)
<1>1. CASE a = 0
  BY <1>1 DEF AirFits
<1>2. CASE a # 0
  <2>1. SlotFits
    BY <1>2 DEF AirFits
  <2> QED
    BY <2>1
<1> QED
  BY <1>1, <1>2

LEMMA SendingFits ==
  ASSUME Timed, SlotIsShort, window \in Windows, NEW q \in Seq(Frames), NEW a \in Nat, AirFits(window, a)
  PROVE  AirFits(Sending(q).window, a + Airtime(Sending(q).out))
<1>1. PICK h, n : Loop(h, n, q) /\ Sending(q) = SentFirst(q, n, h[n])
  BY SendingUnfolded
<1> DEFINE out == [i \in 1 .. n |-> FrameWritten(q[i], FALSE)]
<1>2. n \in 0 .. Len(q)
  BY <1>1 DEF Loop
<1>3. Sending(q).window = h[n] /\ Sending(q).out = out
  BY <1>1 DEF SentFirst
<1>4. Airtime(out) = IF Hears /\ SlotFits THEN Need * Cardinality({k \in 1 .. n : q[k].slotted}) ELSE 0
  BY <1>2, AirOf
<1> HIDE DEF out
<1>5. CASE Hears /\ SlotFits
  <2>1. AirFits(h[n], a + Need * Cardinality({k \in 1 .. n : q[k].slotted}))
    BY <1>1, <1>5, LoopFits
  <2> QED
    BY Zenon, <1>3, <1>4, <1>5, <2>1
<1>6. CASE ~(Hears /\ SlotFits)
  <2>1. Hears \/ h[n] = window
    BY <1>1, WindowStill
  <2>2. AirFits(h[n], a)
    BY <1>6, <2>1, UntimedFits
  <2>3. a + Airtime(out) = a
    BY <1>4, <1>6
  <2> QED
    BY <1>3, <2>2, <2>3
<1> QED
  BY <1>5, <1>6

LEMMA SubmitFits ==
  ASSUME TxInv, SlotIsShort, NEW slotted \in BOOLEAN, Submit(slotted), AirFits(window, aired)
  PROVE  AirFits(window', aired + Airtime(wrote'))
<1> DEFINE f == [slotted |-> slotted, age |-> 0]
           q == <<f>>
<1>1. Timed /\ window \in Windows /\ aired \in Nat
  BY InvIsTimed DEF TxInv, TxTypeOK
<1>2. f \in Frames /\ f.slotted = slotted
  BY TxConstants DEF Frames
<1>3. \/ /\ held = <<>> /\ (~Hears \/ WaitFor(slotted, window) = 0)
         /\ wrote' = <<FrameWritten(f, FALSE)>>
         /\ window' = IF slotted /\ Hears THEN Marked(window) ELSE window
      \/ wrote' = <<>> /\ window' = window
  BY DEF Submit
<1> HIDE DEF f
<1>4. q \in Seq(Frames) /\ Len(q) = 1 /\ q[1] = f
  BY <1>2
<1>5. CASE wrote' = <<>> /\ window' = window
  <2>1. Airtime(<<>>) = 0
    <3>1. {i \in DOMAIN <<>> : <<>>[i].slotted /\ <<>>[i].timed /\ ~<<>>[i].forced} = {}
      OBVIOUS
    <3>2. Cardinality({}) = 0 /\ Need * 0 = 0
      BY FS_EmptySet, TxConstants
    <3> QED
      BY <3>1, <3>2 DEF Airtime
  <2>2. aired + Airtime(<<>>) = aired
    BY <1>1, <2>1
  <2> QED
    BY <1>5, <2>2
<1>6. CASE /\ held = <<>> /\ (~Hears \/ WaitFor(slotted, window) = 0)
           /\ wrote' = <<FrameWritten(f, FALSE)>>
           /\ window' = IF slotted /\ Hears THEN Marked(window) ELSE window
  <2> DEFINE h == [i \in 0 .. 1 |-> IF i = 0 THEN window ELSE window']
             out == [i \in 1 .. 1 |-> FrameWritten(q[i], FALSE)]
  <2>1. window' \in Windows
    <3>1. Hears => Marked(window) \in Windows
      BY <1>1, MarkedType DEF Hears
    <3> QED
      BY <1>1, <1>6, <3>1
  <2>2. h[0] = window /\ h[1] = window'
    OBVIOUS
  <2> HIDE DEF h
  <2>3. \A i \in 1 .. 1 : i = 1 /\ i - 1 = 0
    OBVIOUS
  <2>4. \A i \in 0 .. 1 : h[i] \in Windows
    <3>1. \A i \in 0 .. 1 : i = 0 \/ i = 1
      OBVIOUS
    <3> QED
      BY <1>1, <2>1, <2>2, <3>1
  <2>5. Loop(h, 1, q)
    <3>1. 1 \in 0 .. Len(q)
      BY <1>4
    <3>2. \A i \in 1 .. Len(q) : h[i] = IF q[i].slotted /\ Hears THEN Marked(h[i - 1]) ELSE h[i - 1]
      BY <1>2, <1>4, <1>6, <2>2, <2>3
    <3>3. \A i \in 1 .. 1 : ~Hears \/ WaitFor(q[i].slotted, h[i - 1]) = 0
      BY <1>2, <1>4, <1>6, <2>2, <2>3
    <3> QED
      BY <1>4, <2>2, <2>4, <3>1, <3>2, <3>3 DEF Loop
  <2>6. wrote' = out
    <3> DEFINE g == FrameWritten(f, FALSE)
    <3>1. g \in SentSet
      BY <1>2, FrameType
    <3>2. \A i \in 1 .. 1 : out[i] = g
      BY <1>4, <2>3
    <3> HIDE DEF g
    <3>3. out \in [1 .. 1 -> SentSet]
      BY <3>1, <3>2
    <3>4. out \in Seq(SentSet) /\ Len(out) = 1
      <4> DEFINE one == 1
      <4>1. one \in Nat /\ out \in [1 .. one -> SentSet]
        BY <3>3
      <4> HIDE DEF out, one
      <4>2. out \in Seq(SentSet)
        BY <4>1, SeqDef
      <4>3. Len(out) = one
        BY <4>1, <4>2, LenProperties
      <4> QED
        BY <4>2, <4>3 DEF one
    <3>5. <<g>> \in Seq(SentSet) /\ Len(<<g>>) = 1 /\ <<g>>[1] = g
      BY <3>1
    <3> HIDE DEF out
    <3>6. out = <<g>>
      BY <3>2, <3>4, <3>5, SeqEqual
    <3> QED
      BY <1>6, <3>6 DEF g
  <2>7. Airtime(out) = IF Hears /\ SlotFits THEN Need * Cardinality({k \in 1 .. 1 : q[k].slotted}) ELSE 0
    <3>1. 1 \in 0 .. Len(q)
      BY <1>4
    <3> QED
      BY <1>1, <1>4, <3>1, AirOf
  <2> HIDE DEF out, q
  <2>8. CASE Hears /\ SlotFits
    <3>1. AirFits(h[1], aired + Need * Cardinality({k \in 1 .. 1 : q[k].slotted}))
      BY <1>1, <1>4, <2>5, <2>8, LoopFits
    <3> QED
      BY Zenon, <2>2, <2>6, <2>7, <2>8, <3>1
  <2>9. CASE ~(Hears /\ SlotFits)
    <3>1. Hears \/ window' = window
      BY <1>6
    <3>2. AirFits(window', aired)
      BY <1>1, <2>9, <3>1, UntimedFits
    <3>3. aired + Airtime(out) = aired
      BY <1>1, <2>7, <2>9
    <3> QED
      BY <2>6, <3>2, <3>3
  <2> QED
    BY <2>8, <2>9
<1> QED
  BY <1>3, <1>5, <1>6

-----------------------------------------------------------------------------
(* The steps, and the air time.                                             *)

LEMMA SamePeriod ==
  ASSUME gaps' = gaps
  PROVE  Period' = Period /\ \A s : StartBefore(s)' = StartBefore(s)
<1>1. \A i : Ranked(i)' = Ranked(i)
  BY DEF Ranked
<1>2. Period' = Period
  BY <1>1 DEF Period
<1> QED
  BY <1>2 DEF StartBefore

LEMMA SameOpenings ==
  ASSUME gaps' = gaps, slot' = slot
  PROVE  SlotFits' = SlotFits /\ \A s : Opens(0, s)' = Opens(0, s) /\ InOpening(s)' = InOpening(s)
<1>1. Period' = Period /\ \A s : StartBefore(s)' = StartBefore(s)
  BY SamePeriod
<1>2. SlotFits' = SlotFits
  BY <1>1 DEF SlotFits
<1>3. \A s : Opens(0, s)' = Opens(0, s)
  BY <1>1 DEF Opens
<1>4. \A s : InOpening(s)' = InOpening(s)
  BY <1>3 DEF InOpening
<1> QED
  BY <1>2, <1>3, <1>4

\* While the clock stands still.
LEMMA StillFits ==
  ASSUME UNCHANGED <<sinceBurst, gaps, slot>>, AirFits(window', aired')
  PROVE  AirFits(window, aired)'
<1>1. SlotFits' = SlotFits /\ \A s : Opens(0, s)' = Opens(0, s) /\ InOpening(s)' = InOpening(s)
  BY SameOpenings
<1> SUFFICES ASSUME aired' # 0
             PROVE  (\E s \in 0 .. sinceBurst :
                       /\ gaps # <<>> /\ SlotFits /\ InOpening(s) /\ s \div Cycle = sinceBurst \div Cycle
                       /\ \/ window.opens = Opens(0, s) /\ aired <= window.used /\ EnoughAir(window.used)
                          \/ sinceBurst >= Opens(0, s) + Width /\ EnoughAir(aired))'
  BY DEF AirFits
<1>2. PICK s \in 0 .. sinceBurst :
             /\ gaps # <<>> /\ SlotFits /\ InOpening(s) /\ s \div Cycle = sinceBurst \div Cycle
             /\ \/ window'.opens = Opens(0, s) /\ aired' <= window'.used /\ EnoughAir(window'.used)
                \/ sinceBurst >= Opens(0, s) + Width /\ EnoughAir(aired')
  BY DEF AirFits
<1>3. EnoughAir(window.used)' = EnoughAir(window'.used) /\ EnoughAir(aired)' = EnoughAir(aired')
  BY DEF EnoughAir
<1> QED
  BY <1>1, <1>2, <1>3

\* A moment later in the same cycle.
LEMMA SameCycleLater ==
  ASSUME NEW u \in Nat, (u + 1) % Cycle # 0
  PROVE  (u + 1) \div Cycle = u \div Cycle
<1> DEFINE c == u \div Cycle
           r == u % Cycle
           q == (u + 1) % Cycle
           d == (u + 1) \div Cycle
<1>1. Cycle \in Nat \ {0} /\ Cycle \in Int /\ Cycle > 0 /\ u \in Int /\ u + 1 \in Int
  BY TxConstants
<1>2. c \in Int /\ r \in 0 .. Cycle - 1 /\ d \in Int /\ q \in 0 .. Cycle - 1
  BY <1>1, DivMod
<1>3. r = u - Cycle * c
  BY <1>1, Remainder
<1>4. q = u + 1 - Cycle * d
  BY <1>1, Remainder
<1>5. q # 0
  OBVIOUS
<1>6. Cycle * c \in Int /\ Cycle * d \in Int
  BY <1>1, <1>2, ProductIsInt
<1> HIDE DEF c, r, q, d
<1>7. ~(d > c)
  <2> SUFFICES ASSUME d > c
               PROVE  FALSE
    OBVIOUS
  <2>1. Cycle * (d - c) >= Cycle /\ Cycle * d - Cycle * c = Cycle * (d - c)
    BY <1>1, <1>2, Grows, Dist
  <2> QED
    BY <1>1, <1>2, <1>3, <1>4, <1>5, <1>6, <2>1
<1>8. ~(d < c)
  <2> SUFFICES ASSUME d < c
               PROVE  FALSE
    OBVIOUS
  <2>1. Cycle * (c - d) >= Cycle /\ Cycle * c - Cycle * d = Cycle * (c - d)
    BY <1>1, <1>2, Grows, Dist
  <2> QED
    BY <1>1, <1>2, <1>3, <1>4, <1>5, <1>6, <2>1
<1>9. d = c
  BY <1>2, <1>7, <1>8
<1> QED
  BY <1>9 DEF c, d

LEMMA PassFits ==
  ASSUME TxInv, NEW hears \in BOOLEAN, Pass(hears), AirFits(window, aired)
  PROVE  AirFits(window, aired)'
<1> DEFINE now == IF sinceBurst > Horizon THEN sinceBurst ELSE sinceBurst + 1
<1>1. sinceBurst \in Nat /\ Horizon \in Nat /\ now \in Nat /\ sinceBurst <= now /\ now \in {sinceBurst, sinceBurst + 1}
      /\ Width \in Nat /\ Need \in Nat /\ Guard \in Nat /\ Cycle \in Nat \ {0}
  <2>1. sinceBurst \in Nat
    BY DEF TxInv, TxTypeOK
  <2> QED
    BY <2>1, HorizonType, TxConstants
<1>2. /\ sinceBurst' = IF hears THEN 0 ELSE now
      /\ aired' = IF sinceBurst' % Cycle = 0 THEN 0 ELSE aired
      /\ slot' = slot /\ (~hears => gaps' = gaps)
      /\ window' = IF window.opens + Width <= now THEN NoWindow
                   ELSE IF hears THEN [window EXCEPT !.opens = @ - now] ELSE window
  BY DEF Pass
<1> HIDE DEF now
<1>3. CASE sinceBurst' % Cycle = 0
  <2>1. aired' = 0
    BY <1>2, <1>3
  <2> QED
    BY <2>1 DEF AirFits
<1>4. CASE sinceBurst' % Cycle # 0
  <2>1. ~hears
    <3> SUFFICES ASSUME hears
                 PROVE  FALSE
      OBVIOUS
    <3>1. sinceBurst' = 0
      BY <1>2
    <3>2. 0 % Cycle = 0
      BY <1>1
    <3> QED
      BY <1>4, <3>1, <3>2
  <2>2. sinceBurst' = now /\ aired' = aired /\ gaps' = gaps /\ slot' = slot
        /\ window' \in {window, NoWindow} /\ (window' # window => window.opens + Width <= now)
    BY <1>2, <1>4, <2>1
  <2>3. SlotFits' = SlotFits /\ \A s : Opens(0, s)' = Opens(0, s) /\ InOpening(s)' = InOpening(s)
    BY <2>2, SameOpenings
  <2>4. now \div Cycle = sinceBurst \div Cycle
    <3>1. CASE now = sinceBurst
      BY <3>1
    <3>2. CASE now = sinceBurst + 1
      <4>1. (sinceBurst + 1) % Cycle # 0
        BY <1>4, <2>2, <3>2
      <4> QED
        BY <1>1, <3>2, <4>1, SameCycleLater
    <3> QED
      BY <1>1, <3>1, <3>2
  <2> SUFFICES ASSUME aired # 0
               PROVE  AirFits(window, aired)'
    BY <2>2 DEF AirFits
  <2>5. PICK s \in 0 .. sinceBurst :
             /\ gaps # <<>> /\ SlotFits /\ InOpening(s) /\ s \div Cycle = sinceBurst \div Cycle
             /\ \/ window.opens = Opens(0, s) /\ aired <= window.used /\ EnoughAir(window.used)
                \/ sinceBurst >= Opens(0, s) + Width /\ EnoughAir(aired)
    BY DEF AirFits
  <2>6. Opens(0, s) \in Int
    <3>1. Timed /\ s \in Nat
      BY <1>1, InvIsTimed
    <3> QED
      BY <2>5, <3>1, OpensType
  <2>7. \/ window' = window /\ window.opens = Opens(0, s) /\ aired <= window.used /\ EnoughAir(window.used)
        \/ now >= Opens(0, s) + Width /\ EnoughAir(aired)
    <3>1. CASE window.opens = Opens(0, s) /\ aired <= window.used /\ EnoughAir(window.used)
      <4>1. CASE window' = window
        BY <3>1, <4>1
      <4>2. CASE window' # window
        <5>1. now >= Opens(0, s) + Width
          BY <1>1, <2>2, <2>6, <3>1, <4>2
        <5>2. aired \in Nat /\ window.used \in Nat
          BY DEF TxInv, TxTypeOK
        <5>3. EnoughAir(aired)
          BY <1>1, <3>1, <5>2 DEF EnoughAir
        <5> QED
          BY <5>1, <5>3
      <4> QED
        BY <4>1, <4>2
    <3>2. CASE sinceBurst >= Opens(0, s) + Width /\ EnoughAir(aired)
      BY <1>1, <2>6, <3>2
    <3> QED
      BY <2>5, <3>1, <3>2
  <2>8. s \in 0 .. now /\ s \div Cycle = now \div Cycle
    BY <1>1, <2>4, <2>5
  <2>9. EnoughAir(aired)' = EnoughAir(aired') /\ EnoughAir(window.used)' = EnoughAir(window'.used)
    BY DEF EnoughAir
  <2>10. (\E x \in 0 .. sinceBurst :
             /\ gaps # <<>> /\ SlotFits /\ InOpening(x) /\ x \div Cycle = sinceBurst \div Cycle
             /\ \/ window.opens = Opens(0, x) /\ aired <= window.used /\ EnoughAir(window.used)
                \/ sinceBurst >= Opens(0, x) + Width /\ EnoughAir(aired))'
    <3>1. s \in 0 .. sinceBurst' /\ s \div Cycle = sinceBurst' \div Cycle
      BY <2>2, <2>8
    <3>2. gaps' # <<>> /\ SlotFits' /\ InOpening(s)'
      BY <2>2, <2>3, <2>5
    <3>3. \/ window'.opens = Opens(0, s)' /\ aired' <= window'.used /\ EnoughAir(window.used)'
          \/ sinceBurst' >= Opens(0, s)' + Width /\ EnoughAir(aired)'
      BY <2>2, <2>3, <2>7, <2>9
    <3> QED
      BY <3>1, <3>2, <3>3
  <2> QED
    BY <2>10 DEF AirFits
<1> QED
  BY <1>3, <1>4

\* What goes out of the slot in a cycle.
AiredInv == AirFits(window, aired)

LEMMA AiredStep ==
  ASSUME TxInv, SlotIsShort, AiredInv, [TxNext]_txVars
  PROVE  AiredInv'
<1>1. Timed /\ window \in Windows /\ aired \in Nat
  BY InvIsTimed DEF TxInv, TxTypeOK
<1>2. ASSUME NEW slotted \in BOOLEAN, Submit(slotted), AiredNow, UNCHANGED <<sinceBurst, gaps, slot>>
      PROVE  AiredInv'
  <2>1. AirFits(window', aired')
    BY <1>2, SubmitFits DEF AiredInv, AiredNow
  <2> QED
    BY <1>2, <2>1, StillFits DEF AiredInv
<1>3. ASSUME wrote' = <<>>, window' = window, AiredNow, UNCHANGED <<sinceBurst, gaps, slot>>
      PROVE  AiredInv'
  <2>1. Airtime(<<>>) = 0
    <3>1. {i \in DOMAIN <<>> : <<>>[i].slotted /\ <<>>[i].timed /\ ~<<>>[i].forced} = {}
      OBVIOUS
    <3>2. Cardinality({}) = 0 /\ Need * 0 = 0
      BY FS_EmptySet, TxConstants
    <3> QED
      BY <3>1, <3>2 DEF Airtime
  <2>2. aired' = aired
    BY <1>1, <1>3, <2>1 DEF AiredNow
  <2>3. AirFits(window', aired')
    BY <1>3, <2>2 DEF AiredInv
  <2> QED
    BY <1>3, <2>3, StillFits DEF AiredInv
<1>4. CASE SubmitPlain
  BY <1>2, <1>4 DEF SubmitPlain
<1>5. CASE FixQueued
  <2>1. CASE Hears
    BY <1>3, <1>5, <2>1 DEF FixQueued
  <2>2. CASE ~Hears
    BY <1>2, <1>5, <2>2 DEF FixQueued
  <2> QED
    BY <2>1, <2>2
<1>6. CASE FlushTick
  <2>1. Submit(TRUE) \/ (wrote' = <<>> /\ window' = window)
    BY <1>6 DEF FlushTick
  <2>2. AiredNow /\ UNCHANGED <<sinceBurst, gaps, slot>>
    BY <1>6 DEF FlushTick
  <2> QED
    BY <1>2, <1>3, <2>1, <2>2
<1>7. CASE Pump
  <2> DEFINE q == Fresh(held)
  <2>1. wrote' = Sending(q).out /\ window' = Sending(q).window /\ AiredNow /\ UNCHANGED <<sinceBurst, gaps, slot>>
    BY <1>7 DEF Pump
  <2>2. q \in Seq(Frames)
    BY FreshType DEF TxInv, TxTypeOK
  <2> HIDE DEF q
  <2>3. AirFits(Sending(q).window, aired + Airtime(Sending(q).out))
    BY <1>1, <2>2, SendingFits DEF AiredInv
  <2>4. AirFits(window', aired')
    BY <2>1, <2>3 DEF AiredNow
  <2> QED
    BY <2>1, <2>4, StillFits DEF AiredInv
<1>8. CASE FlushNow \/ \E s \in Slots : SetSlot(s)
  <2>1. aired' = 0
    BY <1>8 DEF FlushNow, SetSlot
  <2> QED
    BY <2>1 DEF AiredInv, AirFits
<1>9. ASSUME NEW h \in BOOLEAN, Pass(h)
      PROVE  AiredInv'
  BY <1>9, PassFits DEF AiredInv
<1>10. CASE UNCHANGED txVars
  <2>1. window' = window /\ aired' = aired /\ UNCHANGED <<sinceBurst, gaps, slot>>
    BY <1>10 DEF txVars
  <2> QED
    BY <2>1, StillFits DEF AiredInv
<1> QED
  BY <1>4, <1>5, <1>6, <1>7, <1>8, <1>9, <1>10 DEF TxNext

-----------------------------------------------------------------------------
(* The steps, and the fixes that are held for the slot.                     *)

LongestGap == MaxGap * Cycle

\* The next tick of the flush is the next opening, a period away or less, or the poll of a boat out of step.
DelayIsShort ==
  IF Hears THEN FlushDelay(sinceBurst) \in 1 .. LongestGap ELSE FlushDelay(sinceBurst) = Poll

LEMMA DelayBound == After <= Cycle /\ Timed => DelayIsShort
<1> SUFFICES ASSUME After <= Cycle, Timed
             PROVE  DelayIsShort
  OBVIOUS
<1> DEFINE s == sinceBurst
           at(k) == StartBefore(s) + k * Period + After + (IF SlotFits THEN slot ELSE 0) * Width
           opens == {o \in {at(k) : k \in 0 .. 2} : o > s}
           first == CHOOSE o \in opens : \A p \in opens : o <= p
<1>1. CASE ~Hears
  BY <1>1 DEF FlushDelay, DelayIsShort
<1>2. CASE Hears
  <2>1. gaps # <<>> /\ s \in Nat
    BY <1>2 DEF Hears, Timed
  <2>2. /\ StartBefore(s) \in Int /\ StartBefore(s) <= s /\ s < StartBefore(s) + Period
        /\ Period \in Nat /\ Cycle <= Period /\ Period <= LongestGap
    BY <2>1, BurstBefore, PeriodRange DEF LongestGap
  <2> DEFINE x == (IF SlotFits THEN slot ELSE 0) * Width
  <2>3. x \in Nat /\ After \in Nat /\ Cycle \in Nat /\ After + x <= Period /\ LongestGap \in Int
    <3>1. slot \in Nat /\ Width \in Nat /\ After \in Nat /\ Cycle \in Nat /\ MaxGap \in Nat /\ Need \in Nat /\ Before \in Nat
      BY TxConstants DEF Timed
    <3>2. LongestGap \in Int
      BY <3>1, ProductIsInt DEF LongestGap
    <3>3. CASE SlotFits
      <4>1. x = slot * Width /\ After + slot * Width + Need + Before <= Period
        BY <3>3 DEF SlotFits
      <4>2. slot * Width \in Nat
        BY <3>1, ProductGrows
      <4> HIDE DEF x
      <4> QED
        BY <2>2, <3>1, <3>2, <4>1, <4>2
    <3>4. CASE ~SlotFits
      <4>1. x = 0
        BY <3>1, <3>4
      <4> HIDE DEF x
      <4> QED
        BY <2>2, <3>1, <3>2, <4>1
    <3> QED
      BY <3>3, <3>4
  <2>4. \A k \in 0 .. 2 : at(k) = StartBefore(s) + k * Period + After + x
    OBVIOUS
  <2> HIDE DEF x, at
  <2>5. 0 * Period = 0 /\ 1 * Period = Period /\ 2 * Period = Period + Period
    BY <2>2
  <2>6. /\ at(0) = StartBefore(s) + After + x /\ at(1) = StartBefore(s) + Period + After + x
        /\ at(2) = StartBefore(s) + Period + Period + After + x
    <3>1. 0 \in 0 .. 2 /\ 1 \in 0 .. 2 /\ 2 \in 0 .. 2
      OBVIOUS
    <3> QED
      BY <2>2, <2>3, <2>4, <2>5, <3>1
  <2>7. \A k \in 0 .. 2 : at(k) \in Int
    <3>1. \A k \in 0 .. 2 : k = 0 \/ k = 1 \/ k = 2
      OBVIOUS
    <3> QED
      BY <2>2, <2>3, <2>6, <3>1
  <2>8. \E o \in opens : o <= s + Period
    <3>1. CASE at(0) > s
      <4>1. at(0) \in opens /\ at(0) <= s + Period
        BY <2>1, <2>2, <2>3, <2>6, <3>1
      <4> QED
        BY <4>1
    <3>2. CASE ~(at(0) > s)
      <4>1. at(1) \in opens /\ at(1) <= s + Period
        BY <2>1, <2>2, <2>3, <2>6, <3>2
      <4> QED
        BY <4>1
    <3> QED
      BY <3>1, <3>2
  <2>9. \A o \in opens : o \in Nat /\ o > s
    <3>1. \A o \in opens : o \in Int /\ o > s
      BY <2>7
    <3> HIDE DEF opens
    <3> QED
      BY <2>1, <3>1
  <2>10. first \in opens /\ \A o \in opens : first <= o
    <3> HIDE DEF opens
    <3>1. \E o \in opens : \A p \in opens : o <= p
      <4>1. opens \in SUBSET Nat /\ opens # {}
        BY <2>8, <2>9
      <4> QED
        BY <4>1, LeastIsIn
    <3> QED
      BY <3>1
  <2>11. FlushDelay(s) = first - s
    BY <1>2 DEF FlushDelay, at
  <2> HIDE DEF opens, first
  <2>12. first \in Nat /\ first > s /\ first <= s + Period
    <3>1. PICK o \in opens : o <= s + Period
      BY <2>8
    <3>2. first <= o /\ o \in Nat /\ first \in Nat /\ first > s
      BY <2>9, <2>10
    <3> QED
      BY <2>1, <2>2, <3>1, <3>2
  <2>13. FlushDelay(s) \in 1 .. LongestGap
    BY <2>1, <2>2, <2>3, <2>11, <2>12
  <2> QED
    BY <1>2, <2>13 DEF DelayIsShort
<1> QED
  BY <1>1, <1>2

\* How long the tick of the flush has been due.
Overdue == IF flushIn = 0 THEN lateBy ELSE 0

\* The flush looks again soon enough. A boat that was out of step at the last tick, and still is not armed
\* for its slot, gathers only if it is in step by now, and the tick comes before the bursts can be lost again.
FlushPaced ==
  /\ flushIn \in Nat
  /\ flushIn <= (IF flushArmed THEN LongestGap ELSE Poll)
  /\ flushArmed /\ ~flushWasAligned => moved
  /\ ~flushArmed /\ ~flushWasAligned => /\ gathered # NoTimer => Hears
                                        /\ Hears => sinceBurst + flushIn <= Poll + Overdue
  /\ gathered # NoTimer =>
       gathered + flushIn <= Overdue + (IF flushArmed THEN LongestGap + Poll + MaxLate ELSE Poll)

LEMMA PaceTypes ==
  ASSUME TxInv, FlushPaced
  PROVE  /\ sinceBurst \in Nat /\ flushIn \in Nat /\ lateBy \in Nat /\ lateBy <= MaxLate /\ Overdue \in Nat /\ Overdue <= MaxLate
         /\ gathered \in Int /\ gathered >= -1 /\ gathered <= Horizon + 1
         /\ LongestGap \in Nat /\ Poll \in Nat /\ MaxLate \in Nat /\ Slack \in Nat /\ Cycle \in Nat /\ Horizon \in Nat
         /\ flushArmed \in BOOLEAN /\ flushWasAligned \in BOOLEAN /\ moved \in BOOLEAN
<1>1. LongestGap \in Nat /\ Poll \in Nat /\ MaxLate \in Nat /\ Slack \in Nat /\ Cycle \in Nat /\ Horizon \in Nat
  <2>1. MaxGap \in Nat /\ Cycle \in Nat /\ Poll \in Nat /\ MaxLate \in Nat /\ Slack \in Nat
    BY TxConstants
  <2>2. MaxGap * Cycle \in Nat
    BY <2>1, ProductGrows
  <2> QED
    BY <2>1, <2>2, HorizonType DEF LongestGap
<1>2. sinceBurst \in Nat /\ lateBy \in Nat /\ lateBy <= MaxLate /\ gathered \in Int /\ gathered >= -1 /\ gathered <= Horizon + 1
  BY <1>1 DEF TxInv, TxTypeOK
<1>3. flushArmed \in BOOLEAN /\ flushWasAligned \in BOOLEAN /\ moved \in BOOLEAN
  BY DEF TxInv, TxTypeOK
<1>4. flushIn \in Nat
  BY DEF FlushPaced
<1> QED
  BY <1>1, <1>2, <1>3, <1>4 DEF Overdue

LEMMA PacedInit == TxInit => FlushPaced
<1> SUFFICES ASSUME TxInit
             PROVE  FlushPaced
  OBVIOUS
<1>1. flushIn = Poll /\ ~flushArmed /\ gathered = NoTimer /\ gaps = <<>> /\ Poll \in Nat
  BY TxConstants DEF TxInit
<1>2. ~Hears
  BY <1>1 DEF Hears
<1> QED
  BY <1>1, <1>2 DEF FlushPaced

LEMMA SameHears ==
  ASSUME UNCHANGED <<sinceBurst, gaps>>
  PROVE  Hears' = Hears
<1>1. Period' = Period
  BY SamePeriod
<1> QED
  BY <1>1 DEF Hears

\* A step that leaves the timer of the flush alone.
LEMMA PacedStill ==
  ASSUME FlushPaced, UNCHANGED <<sinceBurst, gaps, flushIn, flushArmed, flushWasAligned, lateBy, moved>>,
         gathered' = gathered \/ gathered' = NoTimer
  PROVE  FlushPaced'
<1>1. Hears' = Hears /\ Overdue' = Overdue /\ LongestGap' = LongestGap
  BY SameHears DEF Overdue, LongestGap
<1> QED
  BY <1>1 DEF FlushPaced, NoTimer

LEMMA PacedFix ==
  ASSUME TxInv, FlushPaced, FixQueued
  PROVE  FlushPaced'
<1>1. UNCHANGED <<sinceBurst, gaps, flushIn, flushArmed, flushWasAligned, lateBy, moved>>
  BY DEF FixQueued
<1>2. CASE ~Hears
  <2>1. gathered' = NoTimer
    BY <1>2 DEF FixQueued
  <2> QED
    BY <1>1, <2>1, PacedStill
<1>3. CASE Hears
  <2>1. gathered' = 0
    BY <1>3 DEF FixQueued
  <2>2. Hears' = Hears /\ Overdue' = Overdue /\ LongestGap' = LongestGap
    BY <1>1, SameHears DEF Overdue, LongestGap
  <2>3. 0 + flushIn <= Overdue + (IF flushArmed THEN LongestGap + Poll + MaxLate ELSE Poll)
    BY PaceTypes DEF FlushPaced
  <2> QED
    BY <1>1, <1>3, <2>1, <2>2, <2>3 DEF FlushPaced
<1> QED
  BY <1>2, <1>3

LEMMA PacedTick ==
  ASSUME TxInv, FlushInTime, FlushPaced, FlushTick
  PROVE  FlushPaced'
<1>1. /\ flushIn = 0 /\ flushIn' = FlushDelay(sinceBurst) /\ flushArmed' = Hears /\ flushWasAligned' = Hears
      /\ UNCHANGED <<sinceBurst, gaps, lateBy>>
      /\ \/ gathered' = NoTimer
         \/ /\ gathered' = gathered
            /\ gathered = NoTimer \/ (~flushArmed /\ ~(flushWasAligned /\ ~Hears))
  BY DEF FlushTick, ArmFlush
<1>2. Hears' = Hears /\ LongestGap' = LongestGap
  BY <1>1, SameHears DEF LongestGap
<1>3. DelayIsShort
  BY InvIsTimed, DelayBound DEF FlushInTime
<1>4. CASE Hears
  <2>1. flushIn' \in Nat /\ flushIn' <= LongestGap /\ flushIn' # 0
    BY <1>1, <1>3, <1>4, PaceTypes DEF DelayIsShort
  <2>2. Overdue' = 0
    BY <2>1 DEF Overdue
  <2>3. gathered' # NoTimer => gathered' + flushIn' <= LongestGap + Poll + MaxLate
    <3> SUFFICES ASSUME gathered' # NoTimer
                 PROVE  gathered' + flushIn' <= LongestGap + Poll + MaxLate
      OBVIOUS
    <3>1. gathered' = gathered /\ gathered # NoTimer /\ ~flushArmed
      BY <1>1, PaceTypes
    <3>2. gathered + 0 <= Overdue + Poll
      BY <1>1, <3>1 DEF FlushPaced
    <3> QED
      BY <2>1, <3>1, <3>2, PaceTypes
  <2>4. flushArmed' = TRUE /\ flushWasAligned' = TRUE
    BY <1>1, <1>4 DEF Hears
  <2>5. 0 + (LongestGap + Poll + MaxLate) = LongestGap + Poll + MaxLate
    BY PaceTypes
  <2> QED
    BY <1>2, <2>1, <2>2, <2>3, <2>4, <2>5 DEF FlushPaced
<1>5. CASE ~Hears
  <2>1. flushIn' = Poll /\ Poll \in Nat
    BY <1>1, <1>3, <1>5, PaceTypes DEF DelayIsShort
  <2>2. gathered' = NoTimer
    <3> SUFFICES ASSUME gathered' # NoTimer
                 PROVE  FALSE
      OBVIOUS
    <3>1. gathered # NoTimer /\ ~flushArmed /\ ~flushWasAligned
      BY <1>1, <1>5
    <3> QED
      BY <1>5, <3>1 DEF FlushPaced
  <2>3. flushArmed' = FALSE /\ flushWasAligned' = FALSE
    BY <1>1, <1>5 DEF Hears
  <2> QED
    BY <1>2, <1>5, <2>1, <2>2, <2>3 DEF FlushPaced
<1> QED
  BY <1>4, <1>5

LEMMA PacedSlot ==
  ASSUME TxInv, FlushInTime, FlushPaced, NEW s \in Slots, SetSlot(s)
  PROVE  FlushPaced'
<1>1. /\ ~moved /\ moved' = TRUE /\ slot' = s
      /\ UNCHANGED <<sinceBurst, gaps, flushWasAligned, lateBy>>
      /\ gathered' = IF gathered = NoTimer THEN NoTimer ELSE 0
      /\ flushIn' = FlushDelay(sinceBurst)' /\ flushArmed' = Hears
  BY DEF SetSlot
<1>2. Hears' = Hears /\ LongestGap' = LongestGap /\ Poll' = Poll
  BY <1>1, SameHears DEF LongestGap
<1>3. DelayIsShort'
  <2>1. Timed'
    <3>1. Timed
      BY InvIsTimed
    <3> QED
      BY <1>1, <3>1 DEF Timed
  <2>2. (After <= Cycle)'
    BY DEF FlushInTime
  <2> QED
    BY <2>1, <2>2, DelayBound, PTL
<1>4. Overdue' \in Nat
  <2>1. lateBy' \in Nat
    BY <1>1, PaceTypes
  <2> QED
    BY <2>1 DEF Overdue
<1>5. CASE Hears
  <2>1. flushIn' \in Nat /\ flushIn' <= LongestGap
    BY <1>1, <1>2, <1>3, <1>5, PaceTypes DEF DelayIsShort
  <2>2. flushArmed' = TRUE
    BY <1>1, <1>5 DEF Hears
  <2>3. gathered' # NoTimer => gathered' + flushIn' <= Overdue' + (LongestGap + Poll + MaxLate)
    <3>1. gathered' # NoTimer => gathered' = 0
      BY <1>1
    <3> QED
      BY <1>4, <2>1, <3>1, PaceTypes
  <2> QED
    BY <1>1, <1>2, <2>1, <2>2, <2>3 DEF FlushPaced
<1>6. CASE ~Hears
  <2>1. flushIn' = Poll /\ Poll \in Nat
    BY <1>1, <1>2, <1>3, <1>6, PaceTypes DEF DelayIsShort
  <2>2. flushArmed' = FALSE
    BY <1>1, <1>6 DEF Hears
  <2>3. gathered' # NoTimer => gathered' + flushIn' <= Overdue' + Poll
    <3>1. gathered' # NoTimer => gathered' = 0
      BY <1>1
    <3> DEFINE due == Overdue'
               left == flushIn'
    <3>2. due \in Nat /\ left \in Nat /\ left = Poll
      BY <1>4, <2>1
    <3> HIDE DEF due, left
    <3>3. 0 + left <= due + Poll
      BY <3>2
    <3>4. 0 + flushIn' <= Overdue' + Poll
      BY <3>3 DEF due, left
    <3> QED
      BY <3>1, <3>4
  <2>4. ~flushWasAligned' => gathered' = NoTimer
    <3> SUFFICES ASSUME ~flushWasAligned'
                 PROVE  gathered' = NoTimer
      OBVIOUS
    <3>1. ~flushWasAligned /\ ~flushArmed
      BY <1>1 DEF FlushPaced
    <3>2. gathered = NoTimer
      BY <1>6, <3>1 DEF FlushPaced
    <3> QED
      BY <1>1, <3>2
  <2>5. ~Hears'
    BY <1>2, <1>6
  <2> QED
    BY <1>2, <2>1, <2>2, <2>3, <2>4, <2>5 DEF FlushPaced
<1> QED
  BY <1>5, <1>6

LEMMA PacedExit ==
  ASSUME FlushNow
  PROVE  FlushPaced'
<1>1. flushIn' = Poll /\ flushArmed' = FALSE /\ gathered' = NoTimer /\ gaps' = <<>> /\ Poll \in Nat
  BY TxConstants DEF FlushNow
<1>2. ~Hears'
  BY <1>1 DEF Hears
<1> QED
  BY <1>1, <1>2 DEF FlushPaced

LEMMA PeriodKnown == Timed /\ gaps # <<>> => Period \in Nat
BY PeriodType

\* The pass of time: what was timed is a moment older, or overdue by a moment more.
LEMMA PacedPass ==
  ASSUME TxInv, FlushInTime, FlushPaced, NEW hears \in BOOLEAN, Pass(hears)
  PROVE  FlushPaced'
<1> DEFINE now == IF sinceBurst > Horizon THEN sinceBurst ELSE sinceBurst + 1
           ready == Poll + Overdue
<1>1. /\ ~Due \/ lateBy < MaxLate
      /\ sinceBurst' = IF hears THEN 0 ELSE now
      /\ (~hears => gaps' = gaps) /\ (gaps' = <<>> => gaps = <<>> \/ hears)
      /\ flushIn' = Less(flushIn)
      /\ gathered' = IF gathered = NoTimer \/ gathered > Horizon THEN gathered ELSE gathered + 1
      /\ lateBy' = IF Due THEN lateBy + 1 ELSE 0
      /\ flushArmed' = flushArmed /\ flushWasAligned' = flushWasAligned /\ moved' = moved
  BY DEF Pass
<1>2. sinceBurst <= now /\ now <= sinceBurst + 1 /\ now \in Nat
  BY PaceTypes
<1> HIDE DEF now
<1>3. /\ flushIn' \in Nat /\ Overdue' \in Nat /\ LongestGap' = LongestGap
      /\ \/ flushIn # 0 /\ flushIn' = flushIn - 1 /\ Overdue = 0
         \/ flushIn = 0 /\ flushIn' = 0 /\ Overdue = lateBy /\ Overdue' = lateBy + 1 /\ lateBy < MaxLate
  <2>1. LongestGap' = LongestGap
    BY DEF LongestGap
  <2>2. CASE flushIn = 0
    <3>1. Due
      BY <2>2 DEF Due
    <3>2. flushIn' = 0
      BY <1>1, <2>2 DEF Less
    <3>3. Overdue' = lateBy + 1 /\ Overdue = lateBy
      BY <1>1, <2>2, <3>1, <3>2 DEF Overdue
    <3> QED
      BY <1>1, <2>1, <2>2, <3>1, <3>2, <3>3, PaceTypes
  <2>3. CASE flushIn # 0
    <3>1. flushIn' = flushIn - 1
      BY <1>1, <2>3, PaceTypes DEF Less
    <3>2. lateBy' \in Nat
      BY <1>1, PaceTypes
    <3>3. Overdue' \in Nat
      BY <3>2 DEF Overdue
    <3> QED
      BY <2>1, <2>3, <3>1, <3>3, PaceTypes DEF Overdue
  <2> QED
    BY <2>2, <2>3
<1>4. /\ gathered' # NoTimer => gathered # NoTimer /\ gathered' \in Int /\ gathered' <= gathered + 1
      /\ gathered \in Int /\ flushIn \in Nat /\ lateBy \in Nat
      /\ LongestGap \in Nat /\ Poll \in Nat /\ MaxLate \in Nat /\ Overdue \in Nat
  BY <1>1, PaceTypes DEF NoTimer
<1>5. gathered' # NoTimer =>
        gathered' + flushIn' <= Overdue' + (IF flushArmed THEN LongestGap + Poll + MaxLate ELSE Poll)
  <2> SUFFICES ASSUME gathered' # NoTimer
               PROVE  gathered' + flushIn' <= Overdue' + (IF flushArmed THEN LongestGap + Poll + MaxLate ELSE Poll)
    OBVIOUS
  <2> DEFINE most == IF flushArmed THEN LongestGap + Poll + MaxLate ELSE Poll
  <2>1. most \in Nat
    BY <1>4
  <2>2. gathered + flushIn <= Overdue + most
    BY <1>4 DEF FlushPaced
  <2> HIDE DEF most
  <2>3. gathered' + flushIn' <= Overdue' + most
    BY <1>3, <1>4, <2>1, <2>2
  <2> QED
    BY <2>3 DEF most
<1>6. ASSUME ~flushArmed, ~flushWasAligned
      PROVE  (gathered' # NoTimer => Hears') /\ (Hears' => sinceBurst' + flushIn' <= Poll + Overdue')
  <2>1. flushIn <= Poll /\ (gathered # NoTimer => Hears) /\ (Hears => sinceBurst + flushIn <= Poll + Overdue)
    BY <1>6 DEF FlushPaced
  <2>2. flushIn' <= Poll
    BY <1>3, <1>4, <2>1
  <2>3. CASE hears
    <3>1. sinceBurst' = 0
      BY <1>1, <2>3
    <3>2. gaps # <<>> => Hears'
      <4> SUFFICES ASSUME gaps # <<>>
                   PROVE  Hears'
        OBVIOUS
      <4>1. gaps' # <<>>
        <5>1. gaps \in Seq(1 .. MaxGap) /\ (Len(gaps) = KeepGaps => gaps # <<>>)
          BY DEF TxInv, TxTypeOK
        <5>2. \/ gaps' = gaps
              \/ \E g : gaps' = Append(IF Len(gaps) = KeepGaps THEN Tail(gaps) ELSE gaps, g)
          BY DEF Pass
        <5>3. ASSUME NEW g, gaps' = Append(IF Len(gaps) = KeepGaps THEN Tail(gaps) ELSE gaps, g)
              PROVE  gaps' # <<>>
          <6> DEFINE t == IF Len(gaps) = KeepGaps THEN Tail(gaps) ELSE gaps
          <6>1. Len(t) \in Nat /\ t \in Seq(1 .. MaxGap)
            <7>1. Tail(gaps) \in Seq(1 .. MaxGap)
              BY <5>1, HeadTailProperties
            <7>2. t \in Seq(1 .. MaxGap)
              BY <5>1, <7>1
            <7> QED
              BY <7>2, LenProperties
          <6> HIDE DEF t
          <6>2. Len(Append(t, g)) = Len(t) + 1
            BY <6>1
          <6>3. Len(<<>>) = 0
            BY EmptySeq
          <6> QED
            BY <5>3, <6>1, <6>2, <6>3 DEF t
        <5> QED
          BY <5>2, <5>3
      <4>2. Period' \in Nat
        <5>1. TxInv'
          BY PassStep
        <5>2. Timed'
          BY <5>1 DEF TxInv, TxTypeOK, Timed
        <5>3. (Timed /\ gaps # <<>> => Period \in Nat)'
          BY PeriodKnown, PTL
        <5> QED
          BY <4>1, <5>2, <5>3
      <4>3. 0 <= 3 * Period' + Slack
        BY <4>2, PaceTypes
      <4> QED
        BY <3>1, <4>1, <4>3 DEF Hears
    <3>3. gathered' # NoTimer => gaps # <<>>
      BY <1>4, <2>1 DEF Hears
    <3>4. sinceBurst' + flushIn' <= Poll + Overdue'
      <4> DEFINE due == Overdue'
                 left == flushIn'
      <4>1. due \in Nat /\ left \in Nat /\ left <= Poll /\ Poll \in Nat
        BY <1>3, <1>4, <2>2
      <4> HIDE DEF due, left
      <4>2. 0 + left <= Poll + due
        BY <4>1
      <4> QED
        BY <3>1, <4>2 DEF due, left
    <3> QED
      BY <3>2, <3>3, <3>4
  <2>4. CASE ~hears
    <3>1. sinceBurst' = now /\ gaps' = gaps
      BY <1>1, <2>4
    <3>2. Period' = Period
      BY <3>1, SamePeriod
    <3>3. Hears' <=> gaps # <<>> /\ now <= 3 * Period + Slack
      BY <3>1, <3>2 DEF Hears
    <3>4. gaps # <<>> => Period \in Nat /\ Cycle <= Period
      BY InvIsTimed, PeriodRange
    <3>5. Hears => gaps # <<>>
      BY DEF Hears
    <3>6. Hears' => Hears
      <4> SUFFICES ASSUME Hears'
                   PROVE  Hears
        OBVIOUS
      <4>1. gaps # <<>> /\ sinceBurst <= 3 * Period + Slack
        BY <1>2, <3>3, <3>4, PaceTypes
      <4> QED
        BY <4>1 DEF Hears
    <3>7. Hears => now + flushIn' <= Poll + Overdue' /\ now <= Poll + MaxLate
      <4> SUFFICES ASSUME Hears
                   PROVE  now + flushIn' <= Poll + Overdue' /\ now <= Poll + MaxLate
        OBVIOUS
      <4>1. sinceBurst + flushIn <= Poll + Overdue /\ sinceBurst \in Nat
        BY <2>1, PaceTypes
      <4> DEFINE due == Overdue'
                 left == flushIn'
      <4>2. /\ due \in Nat /\ left \in Nat /\ flushIn \in Nat /\ Overdue \in Nat /\ MaxLate \in Nat /\ Poll \in Nat
            /\ \/ flushIn # 0 /\ left = flushIn - 1 /\ Overdue = 0
               \/ flushIn = 0 /\ left = 0 /\ due = Overdue + 1 /\ Overdue < MaxLate
        BY <1>3, <1>4
      <4> HIDE DEF due, left
      <4>3. now + left <= Poll + due /\ now <= Poll + MaxLate
        BY <1>2, <4>1, <4>2
      <4> QED
        BY <4>3 DEF due, left
    <3>8. Hears => Hears'
      <4> SUFFICES ASSUME Hears
                   PROVE  Hears'
        OBVIOUS
      <4>1. Poll + MaxLate <= 3 * Cycle + Slack /\ Cycle \in Nat /\ Slack \in Nat
        BY PaceTypes DEF FlushInTime
      <4>2. now <= 3 * Period + Slack
        BY <1>2, <1>4, <3>4, <3>5, <3>7, <4>1
      <4> QED
        BY <3>3, <3>5, <4>2
    <3> QED
      BY <1>4, <2>1, <3>1, <3>6, <3>7, <3>8
  <2> QED
    BY <2>3, <2>4
<1>7. flushIn' <= (IF flushArmed THEN LongestGap ELSE Poll)
  <2>1. flushIn <= (IF flushArmed THEN LongestGap ELSE Poll)
    BY DEF FlushPaced
  <2> QED
    BY <1>3, <1>4, <2>1
<1>8. flushArmed /\ ~flushWasAligned => moved
  BY DEF FlushPaced
<1> QED
  BY <1>1, <1>3, <1>5, <1>6, <1>7, <1>8 DEF FlushPaced

LEMMA PacedStep ==
  ASSUME TxInv, FlushInTime, FlushPaced, [TxNext]_txVars
  PROVE  FlushPaced'
<1>1. CASE SubmitPlain \/ Pump \/ UNCHANGED txVars
  <2>1. /\ UNCHANGED <<sinceBurst, gaps, flushIn, flushArmed, flushWasAligned, lateBy, moved>>
        /\ gathered' = gathered
    BY <1>1 DEF SubmitPlain, Pump, txVars
  <2> QED
    BY <2>1, PacedStill
<1>2. ASSUME NEW s \in Slots, SetSlot(s)
      PROVE  FlushPaced'
  BY <1>2, PacedSlot
<1>3. ASSUME NEW h \in BOOLEAN, Pass(h)
      PROVE  FlushPaced'
  BY <1>3, PacedPass
<1> QED
  BY <1>1, <1>2, <1>3, PacedFix, PacedTick, PacedExit DEF TxNext

\* Nothing is left in the scheduler: with its polls short against the time the bursts are waited for,
\* and slots that are short against the cycle, what a boat sends of its slot in a cycle leaves the guard
\* free, no frame waits without a timer, and what it gathers is let go within two of the longest
\* cycles, whatever bursts it missed and however its timers are late.
THEOREM NothingGetsStuck ==
  ASSUME FlushInTime, SlotIsShort
  PROVE  TxSpec => []NothingStuck
<1>1. TxInit => AiredInv
  BY DEF TxInit, AiredInv, AirFits
<1>2. TxInv /\ AiredInv /\ FlushPaced /\ [TxNext]_txVars => AiredInv' /\ FlushPaced'
  BY AiredStep, PacedStep
<1>3. TxSpec => [](TxInv /\ AiredInv /\ FlushPaced)
  BY <1>1, <1>2, PacedInit, TxInvariant, PTL DEF TxSpec
<1>4. ASSUME TxInv, AiredInv, FlushPaced
      PROVE  NothingStuck
  <2>1. EnoughAir(aired)
    <3>1. aired \in Nat /\ window.used \in Nat /\ Width \in Nat /\ Guard \in Nat /\ Need \in Nat
      BY <1>4, TxConstants DEF TxInv, TxTypeOK
    <3>2. CASE aired = 0
      BY <3>1, <3>2 DEF EnoughAir
    <3>3. CASE aired # 0
      <4>1. (aired <= window.used /\ EnoughAir(window.used)) \/ EnoughAir(aired)
        BY <1>4, <3>3 DEF AiredInv, AirFits
      <4> QED
        BY <3>1, <4>1 DEF EnoughAir
    <3> QED
      BY <3>2, <3>3
  <2>2. held # <<>> => pumpIn # NoTimer
    BY <1>4 DEF TxInv, HeldHaveTimer, NoTimer
  <2>3. gathered <= 2 * MaxGap * Cycle
    <3>1. 2 * MaxGap * Cycle = 2 * LongestGap
      <4>1. MaxGap \in Int /\ Cycle \in Int
        BY TxConstants
      <4> QED
        BY <4>1 DEF LongestGap
    <3>2. LongestGap \in Nat /\ Poll \in Nat /\ MaxLate \in Nat /\ Poll + 2 * MaxLate <= LongestGap
      BY <1>4, PaceTypes DEF FlushInTime, LongestGap
    <3>3. CASE gathered = NoTimer
      BY <3>1, <3>2, <3>3 DEF NoTimer
    <3>4. CASE gathered # NoTimer
      <4>1. gathered + flushIn <= Overdue + (IF flushArmed THEN LongestGap + Poll + MaxLate ELSE Poll)
        BY <1>4, <3>4 DEF FlushPaced
      <4>2. gathered \in Int /\ flushIn \in Nat /\ Overdue \in Nat /\ Overdue <= MaxLate
        BY <1>4, PaceTypes
      <4> QED
        BY <3>1, <3>2, <4>1, <4>2
    <3> QED
      BY <3>3, <3>4
  <2> QED
    BY <2>1, <2>2, <2>3 DEF NothingStuck, EnoughAir
<1> QED
  BY <1>3, <1>4, PTL

-----------------------------------------------------------------------------
(***************************************************************************)
(* DeltaFrames: what is read is what was held, each fix rounded once, for  *)
(* any fixes, frames of any length and any that are lost.                  *)
(***************************************************************************)

Decodable == [ts : Nat, pos : Int, speed : 0 .. Full16, heading : Int]
Deltas    == [dt : 0 .. 255, dpos : -32768 .. 32767, dspeed : -128 .. 127, dheading : -128 .. 127]

\* Rounded, a difference is at most half a unit off.
LEMMA RoundedTime ==
  ASSUME NEW x \in Int
  PROVE  RoundDiv(x, 2) \in Int /\ RoundDiv(x, 2) * 2 - x \in 0 .. 1
BY DEF RoundDiv

LEMMA RoundedSpeed ==
  ASSUME NEW x \in Int
  PROVE  RoundDiv(x, 5) \in Int /\ RoundDiv(x, 5) * 5 - x \in -2 .. 2
BY DEF RoundDiv

LEMMA RoundedHeading ==
  ASSUME NEW x \in Int
  PROVE  RoundDiv(x, 20) \in Int /\ RoundDiv(x, 20) * 20 - x \in -10 .. 10
BY DEF RoundDiv

LEMMA Turns ==
  ASSUME NEW a \in Int, NEW b \in Int, NEW e \in Int, -10 <= e, e <= 10, NEW k \in Int, k = HeadingDiff(a, b) + e
  PROVE  (a + k) % 3600 \in Int /\ HeadingDiff(b, (a + k) % 3600) = e
BY DEF HeadingDiff

LEMMA FullIs == Full16 \in Nat /\ Full16 >= 2
BY DEF Full16

LEMMA Clamped ==
  ASSUME NEW a \in Int, NEW b \in 0 .. Full16, a - b \in -2 .. 2
  PROVE  Clamp16(a) \in 0 .. Full16 /\ Clamp16(a) - b \in -2 .. 2
BY FullIs DEF Clamp16

\* One step of the coding: what the decoder gets is near the fix, whatever it had before.
LEMMA DeltaIsNear ==
  ASSUME NEW prev \in Decodable, NEW fix \in Decodable, Fits(DeltaOf(prev, fix))
  PROVE  LET d == DeltaOf(prev, fix) IN
         /\ d \in Deltas /\ ApplyDelta(prev, d) \in Decodable
         /\ Near(ApplyDelta(prev, d), fix) /\ ApplyDelta(prev, d).ts >= prev.ts
<1> DEFINE t == RoundDiv(fix.ts - prev.ts, 2)
           p == fix.pos - prev.pos
           s == RoundDiv(fix.speed - prev.speed, 5)
           h == RoundDiv(HeadingDiff(prev.heading, fix.heading), 20)
           got == ApplyDelta(prev, DeltaOf(prev, fix))
<1>1. /\ prev.ts \in Nat /\ prev.pos \in Int /\ prev.speed \in 0 .. Full16 /\ prev.heading \in Int
      /\ fix.ts \in Nat /\ fix.pos \in Int /\ fix.speed \in 0 .. Full16 /\ fix.heading \in Int
  BY FullIs DEF Decodable
<1>2. DeltaOf(prev, fix) = [dt |-> t, dpos |-> p, dspeed |-> s, dheading |-> h]
  BY DEF DeltaOf
<1>3. t \in Int /\ t * 2 - (fix.ts - prev.ts) \in 0 .. 1
  BY <1>1, RoundedTime
<1>4. s \in Int /\ s * 5 - (fix.speed - prev.speed) \in -2 .. 2
  BY <1>1, RoundedSpeed
<1>5. prev.heading \in Int /\ fix.heading \in Int /\ HeadingDiff(prev.heading, fix.heading) \in Int
  <2>1. prev.heading \in Int /\ fix.heading \in Int
    BY <1>1
  <2> QED
    BY <2>1 DEF HeadingDiff
<1>6. h \in Int /\ h * 20 - HeadingDiff(prev.heading, fix.heading) \in -10 .. 10
  BY <1>5, RoundedHeading
<1> HIDE DEF t, p, s, h
<1>7. t \in 0 .. 255 /\ p \in -32768 .. 32767 /\ s \in -128 .. 127 /\ h \in -128 .. 127
  BY <1>2 DEF Fits
<1>8. DeltaOf(prev, fix) \in Deltas
  BY <1>2, <1>7 DEF Deltas
<1>9. got = [ts |-> prev.ts + t * 2, pos |-> prev.pos + p, speed |-> Clamp16(prev.speed + s * 5),
             heading |-> (prev.heading + h * 20) % 3600]
  BY <1>2 DEF ApplyDelta
<1>10. Clamp16(prev.speed + s * 5) \in 0 .. Full16 /\ Clamp16(prev.speed + s * 5) - fix.speed \in -2 .. 2
  <2>1. prev.speed + s * 5 \in Int /\ (prev.speed + s * 5) - fix.speed \in -2 .. 2
    BY <1>1, <1>4
  <2> QED
    BY <1>1, <2>1, Clamped
<1>11. /\ (prev.heading + h * 20) % 3600 \in Int
       /\ HeadingDiff(fix.heading, (prev.heading + h * 20) % 3600) \in -10 .. 10
  <2> DEFINE e == h * 20 - HeadingDiff(prev.heading, fix.heading)
  <2> DEFINE k == h * 20
  <2>1. e \in -10 .. 10 /\ k \in Int /\ k = HeadingDiff(prev.heading, fix.heading) + e
    BY <1>5, <1>6
  <2> HIDE DEF e, k
  <2>2. (prev.heading + k) % 3600 \in Int /\ HeadingDiff(fix.heading, (prev.heading + k) % 3600) = e
    <3> DEFINE a == prev.heading
               b == fix.heading
    <3>1. a \in Int /\ b \in Int /\ k = HeadingDiff(a, b) + e
      BY <1>5, <2>1
    <3> HIDE DEF a, b
    <3>2. e \in Int /\ -10 <= e /\ e <= 10 /\ k \in Int
      BY <2>1
    <3>3. (a + k) % 3600 \in Int /\ HeadingDiff(b, (a + k) % 3600) = e
      BY <3>1, <3>2, Turns
    <3> QED
      BY <3>3 DEF a, b
  <2> QED
    BY <2>1, <2>2 DEF k
<1>12. prev.ts + t * 2 \in Nat /\ (prev.ts + t * 2) - fix.ts \in 0 .. 1 /\ prev.ts + t * 2 >= prev.ts
  BY <1>1, <1>3, <1>7
<1>13. prev.pos + p = fix.pos
  BY <1>1 DEF p
<1>14. got \in Decodable
  BY <1>1, <1>9, <1>10, <1>11, <1>12, <1>13 DEF Decodable
<1>15. Near(got, fix) /\ got.ts >= prev.ts
  BY <1>9, <1>10, <1>11, <1>12, <1>13 DEF Near
<1> QED
  BY <1>8, <1>14, <1>15

\* A fix is read as itself when it begins a frame.
LEMMA FirstIsExact ==
  ASSUME NEW fix \in Decodable
  PROVE  Near(fix, fix)
<1>1. fix.ts \in Nat /\ fix.pos \in Int /\ fix.speed \in 0 .. Full16 /\ fix.heading \in Int
  BY FullIs DEF Decodable
<1>2. HeadingDiff(fix.heading, fix.heading) = 0
  <2>1. fix.heading \in Int
    BY <1>1
  <2> QED
    BY <2>1 DEF HeadingDiff
<1> QED
  BY <1>1, <1>2 DEF Near

-----------------------------------------------------------------------------
(* Frames.                                                                  *)

\* r is what the decoder makes of a frame, one fix after the other.
DecodedBy(g, r) ==
  /\ r \in [1 .. Len(g.deltas) + 1 -> Decodable]
  /\ r[1] = g.first /\ r[Len(g.deltas) + 1] = g.prev
  /\ \A i \in 1 .. Len(g.deltas) : r[i + 1] = ApplyDelta(r[i], g.deltas[i]) /\ r[i + 1].ts >= r[i].ts
  /\ \A i \in 1 .. Len(g.deltas) + 1 : Near(r[i], g.truth[i])

GoodFrames ==
  {g \in [first : Decodable, deltas : Seq(Deltas), truth : Seq(DeltaFixes), prev : Decodable] :
     /\ Len(g.deltas) < MaxDeltas /\ Len(g.truth) = Len(g.deltas) + 1
     /\ \E r : DecodedBy(g, r)}

LEMMA FixesDecodable == DeltaFixes \subseteq Decodable /\ MaxDeltas \in Nat /\ MaxDeltas > 1 /\ MaxDeltaHeld \in Nat
<1>1. Headings \subseteq Int
  BY DEF Headings
<1>2. MaxDeltas \in Nat /\ MaxDeltas > 1 /\ MaxDeltaHeld \in Nat
  BY DeltaAssumption DEF DeltaAssumption
<1>3. DeltaFixes \subseteq [ts : Nat, pos : Int, speed : 0 .. Full16, heading : Headings]
  BY DeltaAssumption DEF DeltaAssumption
<1>4. \A f \in [ts : Nat, pos : Int, speed : 0 .. Full16, heading : Headings] : f \in Decodable
  BY <1>1 DEF Decodable
<1> QED
  BY <1>2, <1>3, <1>4

LEMMA NewIsGood ==
  ASSUME NEW fix \in DeltaFixes
  PROVE  NewFrame(fix) \in GoodFrames
<1> DEFINE r == [i \in 1 .. 1 |-> fix]
           g == NewFrame(fix)
<1>1. fix \in Decodable
  BY FixesDecodable
<1>2. /\ g.first = fix /\ g.deltas = <<>> /\ g.truth = <<fix>> /\ g.prev = fix
      /\ g \in [first : Decodable, deltas : Seq(Deltas), truth : Seq(DeltaFixes), prev : Decodable]
  BY <1>1 DEF NewFrame
<1>3. Len(g.deltas) = 0 /\ Len(g.truth) = 1 /\ g.truth[1] = fix
  BY <1>2
<1>4. r \in [1 .. 1 -> Decodable] /\ r[1] = fix
  BY <1>1
<1> HIDE DEF r, g
<1>5. DecodedBy(g, r)
  BY <1>1, <1>2, <1>3, <1>4, FirstIsExact DEF DecodedBy
<1>6. Len(g.deltas) < MaxDeltas
  BY <1>3, FixesDecodable
<1>7. Len(g.truth) = Len(g.deltas) + 1
  BY <1>3
<1>8. g \in GoodFrames
  BY <1>2, <1>5, <1>6, <1>7 DEF GoodFrames
<1> QED
  BY <1>8 DEF g

\* The frame that a fix joins.
Longer(g, fix) ==
  LET d == DeltaOf(g.prev, fix)
  IN [first |-> g.first, deltas |-> Append(g.deltas, d), truth |-> Append(g.truth, fix), prev |-> ApplyDelta(g.prev, d)]

LEMMA LongerIsGood ==
  ASSUME NEW g \in GoodFrames, NEW fix \in DeltaFixes, Len(g.deltas) < MaxDeltas - 1, Fits(DeltaOf(g.prev, fix))
  PROVE  Longer(g, fix) \in GoodFrames
<1> DEFINE d == DeltaOf(g.prev, fix)
           n == Len(g.deltas)
           w == Longer(g, fix)
<1>1. PICK r : DecodedBy(g, r)
  BY DEF GoodFrames
<1>2. /\ g.first \in Decodable /\ g.deltas \in Seq(Deltas) /\ g.truth \in Seq(DeltaFixes) /\ g.prev \in Decodable
      /\ n \in Nat /\ n < MaxDeltas - 1 /\ Len(g.truth) = n + 1 /\ fix \in Decodable
  BY LenProperties, FixesDecodable DEF GoodFrames
<1>3. d \in Deltas /\ ApplyDelta(g.prev, d) \in Decodable /\ Near(ApplyDelta(g.prev, d), fix) /\ ApplyDelta(g.prev, d).ts >= g.prev.ts
  BY <1>2, DeltaIsNear
<1> DEFINE last == ApplyDelta(g.prev, d)
           more == Append(g.deltas, d)
           all  == Append(g.truth, fix)
<1>4. w = [first |-> g.first, deltas |-> more, truth |-> all, prev |-> last]
  BY DEF Longer
<1>5. /\ more \in Seq(Deltas) /\ Len(more) = n + 1 /\ more[n + 1] = d /\ \A i \in 1 .. n : more[i] = g.deltas[i]
  BY <1>2, <1>3, AppendProperties
<1>6. /\ all \in Seq(DeltaFixes) /\ Len(all) = n + 2 /\ all[n + 2] = fix /\ \A i \in 1 .. n + 1 : all[i] = g.truth[i]
  <2>1. all \in Seq(DeltaFixes) /\ Len(all) = Len(g.truth) + 1 /\ all[Len(g.truth) + 1] = fix
        /\ \A i \in 1 .. Len(g.truth) : all[i] = g.truth[i]
    BY <1>2, AppendProperties
  <2> QED
    BY <1>2, <2>1
<1>7. d = DeltaOf(g.prev, fix) /\ last = ApplyDelta(g.prev, d)
  OBVIOUS
<1> DEFINE q == [i \in 1 .. n + 2 |-> IF i = n + 2 THEN last ELSE r[i]]
<1>8. q[n + 2] = last /\ \A i \in 1 .. n + 1 : q[i] = r[i]
  BY <1>2
<1>9. q \in [1 .. n + 2 -> Decodable]
  <2>1. \A i \in 1 .. n + 1 : r[i] \in Decodable
    BY <1>1 DEF DecodedBy
  <2> HIDE DEF last
  <2> QED
    BY <1>2, <1>3, <2>1, <1>7
<1> HIDE DEF d, n, w, last, more, all, q
<1>10. /\ r[1] = g.first /\ r[n + 1] = g.prev
       /\ \A i \in 1 .. n : r[i + 1] = ApplyDelta(r[i], g.deltas[i]) /\ r[i + 1].ts >= r[i].ts
       /\ \A i \in 1 .. n + 1 : Near(r[i], g.truth[i])
  BY <1>1 DEF DecodedBy, n
<1>11. ASSUME NEW i \in 1 .. n + 1
       PROVE  q[i + 1] = ApplyDelta(q[i], more[i]) /\ q[i + 1].ts >= q[i].ts
  <2>1. CASE i = n + 1
    <3>1. i + 1 = n + 2 /\ q[i] = r[n + 1] /\ more[i] = d
      BY <1>2, <1>5, <1>8, <2>1
    <3> QED
      BY <1>3, <1>7, <1>8, <1>10, <3>1
  <2>2. CASE i # n + 1
    <3>1. i \in 1 .. n /\ i + 1 \in 1 .. n + 1
      BY <1>2, <2>2
    <3>2. q[i + 1] = r[i + 1] /\ q[i] = r[i] /\ more[i] = g.deltas[i]
      BY <1>5, <1>8, <3>1
    <3> QED
      BY <1>10, <3>1, <3>2
  <2> QED
    BY <2>1, <2>2
<1>12. ASSUME NEW i \in 1 .. n + 2
       PROVE  Near(q[i], all[i])
  <2>1. CASE i = n + 2
    BY <1>3, <1>6, <1>7, <1>8, <2>1
  <2>2. CASE i # n + 2
    <3>1. i \in 1 .. n + 1
      BY <1>2, <2>2
    <3> QED
      BY <1>6, <1>8, <1>10, <3>1
  <2> QED
    BY <2>1, <2>2
<1>13. w.first = g.first /\ w.deltas = more /\ w.truth = all /\ w.prev = last
  BY <1>4
<1>14. Len(w.deltas) + 1 = n + 2 /\ Len(w.deltas) = n + 1 /\ 1 \in 1 .. n + 1
  BY <1>2, <1>5, <1>13
<1>15. DecodedBy(w, q)
  BY <1>8, <1>9, <1>10, <1>11, <1>12, <1>13, <1>14 DEF DecodedBy
<1>16. w \in [first : Decodable, deltas : Seq(Deltas), truth : Seq(DeltaFixes), prev : Decodable]
  BY <1>2, <1>3, <1>4, <1>5, <1>6, <1>7
<1>17. n + 1 < MaxDeltas /\ Len(w.truth) = Len(w.deltas) + 1
  BY <1>2, <1>6, <1>13, <1>14, FixesDecodable
<1> QED
  BY <1>14, <1>15, <1>16, <1>17 DEF GoodFrames, w

LEMMA AddIsGood ==
  ASSUME NEW fs \in Seq(GoodFrames), NEW fix \in DeltaFixes
  PROVE  AddFix(fs, fix) \in Seq(GoodFrames)
<1>1. NewFrame(fix) \in GoodFrames
  BY NewIsGood
<1>2. CASE fs = <<>>
  BY <1>1, <1>2 DEF AddFix
<1>3. CASE fs # <<>>
  <2> DEFINE open == fs[Len(fs)]
             d    == DeltaOf(open.prev, fix)
             front == SubSeq(fs, 1, Len(fs) - 1)
  <2>1. Len(fs) \in Nat /\ Len(fs) >= 1
    BY <1>3, LenProperties, EmptySeq
  <2>2. open \in GoodFrames
    BY <2>1, ElementOfSeq
  <2>3. front \in Seq(GoodFrames)
    BY <2>1, SubSeqProperties
  <2>4. AddFix(fs, fix) = IF Len(open.deltas) >= MaxDeltas - 1 \/ ~Fits(d)
                          THEN Append(fs, NewFrame(fix))
                          ELSE Append(front, Longer(open, fix))
    BY <1>3 DEF AddFix, Last, Front, Longer, NextPrev
  <2>5. Len(open.deltas) \in Nat /\ MaxDeltas \in Nat
    BY <2>2, LenProperties, FixesDecodable DEF GoodFrames
  <2> HIDE DEF open, front
  <2>6. CASE Len(open.deltas) >= MaxDeltas - 1 \/ ~Fits(d)
    BY <1>1, <2>4, <2>6, AppendProperties
  <2>7. CASE ~(Len(open.deltas) >= MaxDeltas - 1 \/ ~Fits(d))
    <3>1. Longer(open, fix) \in GoodFrames
      BY <2>2, <2>5, <2>7, LongerIsGood
    <3> QED
      BY <2>3, <2>4, <2>7, <3>1, AppendProperties
  <2> QED
    BY <2>6, <2>7
<1> QED
  BY <1>2, <1>3

\* h is what the recursion of EncodeDeltaFrames defines.
Coded(h, fixes, N) == h = [n \in 0 .. N |-> IF n = 0 THEN <<>> ELSE AddFix(h[n - 1], fixes[n])]

LEMMA CodedExists ==
  ASSUME NEW fixes, NEW N \in Nat
  PROVE  \E h : Coded(h, fixes, N)
<1> DEFINE Joined(n, fs) == AddFix(fs, fixes[n])
<1> HIDE DEF Joined
<1> DEFINE Upto(h, n) == /\ h = [i \in 0 .. n |-> h[i]]
                         /\ \A i \in 0 .. n : h[i] = IF i = 0 THEN <<>> ELSE Joined(i, h[i - 1])
           T == {n \in 0 .. N : \E h : Upto(h, n)}
<1>1. 0 \in T
  <2> DEFINE g == [i \in 0 .. 0 |-> <<>>]
  <2>1. Upto(g, 0)
    OBVIOUS
  <2> HIDE DEF g, Upto
  <2> QED
    BY <2>1
<1>2. ASSUME NEW n \in 0 .. N - 1, n \in T
      PROVE  n + 1 \in T
  <2>1. PICK h : Upto(h, n)
    BY <1>2
  <2> DEFINE new == Joined(n + 1, h[n])
  <2> HIDE DEF new
  <2> DEFINE g == [i \in 0 .. n + 1 |-> IF i = n + 1 THEN new ELSE h[i]]
  <2>2. \A i \in 0 .. n : g[i] = h[i]
    OBVIOUS
  <2>3. g[n + 1] = new /\ g = [i \in 0 .. n + 1 |-> g[i]]
    OBVIOUS
  <2> HIDE DEF g
  <2>4. \A i \in 0 .. n + 1 : g[i] = IF i = 0 THEN <<>> ELSE Joined(i, g[i - 1])
    <3> TAKE i \in 0 .. n + 1
    <3>1. CASE i = n + 1
      <4>1. i # 0 /\ i - 1 = n /\ g[n] = h[n]
        BY <3>1, <2>2
      <4> QED
        BY <4>1, <3>1, <2>3 DEF new
    <3>2. CASE i # n + 1
      <4>1. i \in 0 .. n /\ (i # 0 => i - 1 \in 0 .. n)
        BY <3>2
      <4>2. h[i] = IF i = 0 THEN <<>> ELSE Joined(i, h[i - 1])
        BY <4>1, <2>1
      <4>3. g[i] = h[i] /\ (i # 0 => g[i - 1] = h[i - 1])
        BY <4>1, <2>2
      <4> QED
        BY <4>2, <4>3
    <3> QED
      BY <3>1, <3>2
  <2>5. Upto(g, n + 1)
    BY <2>3, <2>4
  <2> HIDE DEF Upto
  <2> QED
    BY <2>5
<1>3. N \in T
  <2> HIDE DEF T
  <2> QED
    BY <1>1, <1>2, UpToInduction
<1>4. PICK h : Upto(h, N)
  BY <1>3
<1> DEFINE all == [i \in 0 .. N |-> IF i = 0 THEN <<>> ELSE Joined(i, h[i - 1])]
<1>5. h = all
  BY <1>4
<1> QED
  BY <1>5 DEF Coded, Joined

\* Whatever is held, the frames it goes out in are good ones.
LEMMA EncodedGood ==
  ASSUME NEW fixes \in Seq(DeltaFixes)
  PROVE  EncodeDeltaFrames(fixes) \in Seq(GoodFrames)
<1> DEFINE N == Len(fixes)
           h == CHOOSE h : h = [n \in 0 .. N |-> IF n = 0 THEN <<>> ELSE AddFix(h[n - 1], fixes[n])]
<1>1. N \in Nat /\ \A i \in 1 .. N : fixes[i] \in DeltaFixes
  BY LenProperties, ElementOfSeq
<1>2. Coded(h, fixes, N)
  <2>1. \E g : g = [n \in 0 .. N |-> IF n = 0 THEN <<>> ELSE AddFix(g[n - 1], fixes[n])]
    <3>1. PICK g : Coded(g, fixes, N)
      BY <1>1, CodedExists
    <3> QED
      BY Zenon, <3>1 DEF Coded
  <2> HIDE DEF N
  <2> QED
    BY <2>1 DEF Coded
<1>3. EncodeDeltaFrames(fixes) = h[N]
  BY Zenon DEF EncodeDeltaFrames
<1> HIDE DEF h
<1>4. h[0] = <<>> /\ \A n \in 1 .. N : h[n] = AddFix(h[n - 1], fixes[n])
  <2> HIDE DEF N
  <2> QED
    BY <1>1, <1>2 DEF Coded
<1> DEFINE T == {n \in 0 .. N : h[n] \in Seq(GoodFrames)}
<1>5. 0 \in T
  <2>1. <<>> \in Seq(GoodFrames)
    OBVIOUS
  <2>2. 0 \in 0 .. N
    BY <1>1
  <2> QED
    BY <1>4, <2>1, <2>2
<1>6. ASSUME NEW n \in 0 .. N - 1, n \in T
      PROVE  n + 1 \in T
  <2>1. n + 1 \in 1 .. N /\ n + 1 - 1 = n /\ n + 1 \in 0 .. N
    BY <1>1
  <2>2. h[n + 1] = AddFix(h[n], fixes[n + 1]) /\ h[n] \in Seq(GoodFrames) /\ fixes[n + 1] \in DeltaFixes
    BY <1>1, <1>4, <1>6, <2>1
  <2> QED
    BY <2>1, <2>2, AddIsGood
<1>7. N \in T
  <2> HIDE DEF T, N
  <2>1. N \in Nat /\ N \in 0 .. N
    BY <1>1
  <2>2. 0 .. N \subseteq T
    BY <1>5, <1>6, <2>1, UpToInduction
  <2> QED
    BY <2>1, <2>2
<1> QED
  BY <1>3, <1>7

\* The decoder retraces the chain.
LEMMA DecodedIsChain ==
  ASSUME NEW g \in GoodFrames, NEW r, DecodedBy(g, r)
  PROVE  DecodeDeltaBatch(g) = r
<1> DEFINE N == Len(g.deltas) + 1
           h == CHOOSE h : h = [i \in 1 .. N |-> IF i = 1 THEN g.first ELSE ApplyDelta(h[i - 1], g.deltas[i - 1])]
<1>1. N \in Nat /\ N >= 1
  BY LenProperties DEF GoodFrames
<1>2. r = [i \in 1 .. N |-> IF i = 1 THEN g.first ELSE ApplyDelta(r[i - 1], g.deltas[i - 1])]
  <2>1. r = [i \in 1 .. N |-> r[i]] /\ r[1] = g.first
    BY DEF DecodedBy
  <2>2. \A i \in 1 .. N - 1 : r[i + 1] = ApplyDelta(r[i], g.deltas[i])
    BY <1>1 DEF DecodedBy
  <2> HIDE DEF N
  <2>3. ASSUME NEW i \in 1 .. N
        PROVE  r[i] = IF i = 1 THEN g.first ELSE ApplyDelta(r[i - 1], g.deltas[i - 1])
    <3>1. CASE i = 1
      BY <2>1, <3>1
    <3>2. CASE i # 1
      <4>1. i - 1 \in 1 .. N - 1 /\ (i - 1) + 1 = i
        BY <1>1, <3>2
      <4> QED
        BY <2>2, <3>2, <4>1
    <3> QED
      BY <3>1, <3>2
  <2> QED
    BY <2>1, <2>3
<1>3. h = [i \in 1 .. N |-> IF i = 1 THEN g.first ELSE ApplyDelta(h[i - 1], g.deltas[i - 1])]
  <2> HIDE DEF N
  <2> QED
    BY <1>2
<1>4. DecodeDeltaBatch(g) = h
  BY Zenon DEF DecodeDeltaBatch
<1> HIDE DEF h, N
<1> DEFINE T == {n \in 0 .. N - 1 : h[n + 1] = r[n + 1]}
<1>5. 0 \in T
  BY <1>1, <1>2, <1>3
<1>6. ASSUME NEW n \in 0 .. (N - 1) - 1, n \in T
      PROVE  n + 1 \in T
  <2>1. /\ n + 1 \in 0 .. N - 1 /\ (n + 1) + 1 \in 1 .. N /\ (n + 1) + 1 # 1 /\ ((n + 1) + 1) - 1 = n + 1
    BY <1>1
  <2>2. h[n + 1] = r[n + 1]
    BY <1>6
  <2>3. /\ h[(n + 1) + 1] = ApplyDelta(h[n + 1], g.deltas[n + 1])
        /\ r[(n + 1) + 1] = ApplyDelta(r[n + 1], g.deltas[n + 1])
    <3> DEFINE k == (n + 1) + 1
    <3>1. h[k] = ApplyDelta(h[k - 1], g.deltas[k - 1]) /\ r[k] = ApplyDelta(r[k - 1], g.deltas[k - 1])
      BY <1>2, <1>3, <2>1
    <3> QED
      BY <2>1, <3>1
  <2> QED
    BY <2>1, <2>2, <2>3
<1>7. \A i \in 1 .. N : h[i] = r[i]
  <2>1. 0 .. N - 1 \subseteq T
    <3>1. N - 1 \in Nat
      BY <1>1
    <3> HIDE DEF T
    <3> QED
      BY <1>5, <1>6, <3>1, UpToInduction
  <2>2. ASSUME NEW i \in 1 .. N
        PROVE  h[i] = r[i]
    <3>1. i - 1 \in 0 .. N - 1 /\ (i - 1) + 1 = i
      BY <1>1
    <3>2. i - 1 \in T
      BY <2>1, <3>1
    <3> QED
      BY <3>1, <3>2
  <2> QED
    BY <2>2
<1>8. h = [i \in 1 .. N |-> h[i]] /\ r = [i \in 1 .. N |-> r[i]]
  BY <1>2, <1>3
<1> QED
  BY <1>4, <1>7, <1>8

-----------------------------------------------------------------------------
ReadWell(read) ==
  /\ \A i \in DOMAIN read : read[i].was \in DeltaFixes /\ Near(read[i].got, read[i].was)
  /\ \A i \in DOMAIN read : i > 1 => read[i].got.ts >= read[i - 1].got.ts

DeltaInv ==
  /\ heldFixes \in Seq(DeltaFixes) /\ Len(heldFixes) <= MaxDeltaHeld
  /\ deltaAir \in Seq(GoodFrames)
  /\ ReadWell(deltaRead)

LEMMA NothingRead == ReadWell(<<>>)
BY DEF ReadWell

LEMMA DeltaInitInv == DeltaInit => DeltaInv
<1> SUFFICES ASSUME DeltaInit
             PROVE  DeltaInv
  OBVIOUS
<1>1. Len(<<>>) <= MaxDeltaHeld
  BY FixesDecodable
<1> QED
  BY <1>1, NothingRead DEF DeltaInit, DeltaInv

LEMMA ReadFrameStep ==
  ASSUME DeltaInv, ReadFrame
  PROVE  DeltaInv'
<1> DEFINE g == Head(deltaAir)
           got == DecodeDeltaBatch(g)
<1>1. deltaAir \in Seq(GoodFrames) /\ deltaAir # <<>> /\ deltaAir' = Tail(deltaAir) /\ heldFixes' = heldFixes
  BY DEF DeltaInv, ReadFrame
<1>2. g \in GoodFrames /\ deltaAir' \in Seq(GoodFrames)
  BY <1>1, HeadTailProperties
<1>3. PICK r : DecodedBy(g, r)
  BY <1>2 DEF GoodFrames
<1>4. got = r
  BY <1>2, <1>3, DecodedIsChain
<1> DEFINE N == Len(g.deltas) + 1
<1>5. N \in Nat /\ Len(g.truth) = N /\ g.truth \in Seq(DeltaFixes)
  BY <1>2, LenProperties DEF GoodFrames
<1>6. deltaRead' = [i \in 1 .. Len(got) |-> [got |-> got[i], was |-> g.truth[i]]]
  BY DEF ReadFrame
<1> HIDE DEF g, got
<1>7. /\ r \in [1 .. N -> Decodable]
      /\ \A i \in 1 .. N - 1 : r[i + 1].ts >= r[i].ts
      /\ \A i \in 1 .. N : Near(r[i], g.truth[i])
  BY <1>3, <1>5 DEF DecodedBy
<1> HIDE DEF N
<1>8. Len(r) = N
  <2>1. r \in Seq(Decodable)
    BY <1>5, <1>7, SeqDef
  <2> QED
    BY <1>5, <1>7, <2>1, LenProperties
<1>9. deltaRead' = [i \in 1 .. N |-> [got |-> r[i], was |-> g.truth[i]]]
  BY <1>4, <1>6, <1>8
<1>10. DOMAIN deltaRead' = 1 .. N /\ \A i \in 1 .. N : deltaRead'[i].got = r[i] /\ deltaRead'[i].was = g.truth[i]
  BY <1>9
<1>11. \A i \in 1 .. N : g.truth[i] \in DeltaFixes
  BY <1>5, ElementOfSeq
<1>12. \A i \in 1 .. N : i > 1 => r[i].ts >= r[i - 1].ts
  <2> TAKE i \in 1 .. N
  <2> HAVE i > 1
  <2>1. i - 1 \in 1 .. N - 1 /\ (i - 1) + 1 = i
    BY <1>5
  <2> QED
    BY <1>7, <2>1
<1>13. \A i \in 1 .. N : i > 1 => i - 1 \in 1 .. N
  BY <1>5
<1>14. ReadWell(deltaRead')
  BY <1>7, <1>10, <1>11, <1>12, <1>13 DEF ReadWell
<1> QED
  BY <1>1, <1>2, <1>14 DEF DeltaInv

LEMMA DeltaStepInv == DeltaInv /\ [DeltaNext]_deltaVars => DeltaInv'
<1> SUFFICES ASSUME DeltaInv, [DeltaNext]_deltaVars
             PROVE  DeltaInv'
  OBVIOUS
<1>1. ASSUME NEW fix \in DeltaFixes, HoldFix(fix)
      PROVE  DeltaInv'
  <2>1. heldFixes \in Seq(DeltaFixes) /\ Len(heldFixes) \in Nat /\ Len(heldFixes) < MaxDeltaHeld
    BY <1>1, LenProperties DEF DeltaInv, HoldFix
  <2>2. heldFixes' \in Seq(DeltaFixes) /\ Len(heldFixes') = Len(heldFixes) + 1
    BY <1>1, <2>1, AppendProperties DEF HoldFix
  <2>3. Len(heldFixes') <= MaxDeltaHeld
    BY <2>1, <2>2, FixesDecodable
  <2> QED
    BY <1>1, <2>2, <2>3, NothingRead DEF DeltaInv, HoldFix
<1>2. CASE SendHeld
  <2>1. heldFixes \in Seq(DeltaFixes)
    BY DEF DeltaInv
  <2>2. deltaAir' \in Seq(GoodFrames)
    BY <1>2, <2>1, EncodedGood DEF SendHeld
  <2>3. heldFixes' \in Seq(DeltaFixes) /\ Len(heldFixes') <= MaxDeltaHeld
    BY <1>2, FixesDecodable DEF SendHeld
  <2> QED
    BY <1>2, <2>2, <2>3 DEF DeltaInv, SendHeld
<1>3. CASE ReadFrame
  BY <1>3, ReadFrameStep
<1>4. CASE LoseDeltaFrame
  <2>1. deltaAir' \in Seq(GoodFrames)
    BY <1>4, HeadTailProperties DEF DeltaInv, LoseDeltaFrame
  <2> QED
    BY <1>4, <2>1, NothingRead DEF DeltaInv, LoseDeltaFrame
<1>5. CASE UNCHANGED deltaVars
  BY <1>5 DEF deltaVars, DeltaInv
<1> QED
  BY <1>1, <1>2, <1>3, <1>4, <1>5 DEF DeltaNext

LEMMA DeltaInvariant == DeltaSpec => []DeltaInv
BY DeltaInitInv, DeltaStepInv, PTL DEF DeltaSpec

\* What the base reads of a frame is near what the boat held, whatever fixes, however many in a
\* frame and whichever frames are lost (encodeDeltaFrames, decodeDeltaBatch): rounding does not add
\* up, a turn through north is a small one, and time does not run backwards.
THEOREM DeltasAreClose == DeltaSpec => []DeltaIsClose
<1>1. DeltaInv => DeltaIsClose
  BY DEF DeltaInv, ReadWell, DeltaIsClose
<1> QED
  BY <1>1, DeltaInvariant, PTL

\* The types of the boat's held fixes and of the frames: no frame carries more fixes than its
\* count may say, and each is made of as many fixes as it carries.
THEOREM DeltaTypesHold == DeltaSpec => []DeltaTypeOK
<1>1. DeltaInv => DeltaTypeOK
  <2> SUFFICES ASSUME DeltaInv
               PROVE  DeltaTypeOK
    OBVIOUS
  <2>1. \A i \in DOMAIN deltaAir : deltaAir[i] \in GoodFrames
    BY ElementOfSeq, LenProperties DEF DeltaInv
  <2> QED
    BY <2>1 DEF DeltaInv, ReadWell, DeltaTypeOK, GoodFrames
<1> QED
  BY <1>1, DeltaInvariant, PTL

-----------------------------------------------------------------------------
(***************************************************************************)
(* FrameKinds: every kind's reader gives back what its writer was handed,  *)
(* for any such value, and refuses what its handlers could not use.        *)
(* First, the numbers and bits that fields are made of.                    *)
(***************************************************************************)

LEMMA Bytes8 == \A x : x \in Uint8 <=> x \in Int /\ 0 <= x /\ x < 256
BY DEF Uint8

LEMMA FullIs65535 == Full16 = 65535
BY DEF Full16

LEMMA Bytes16 == \A x : x \in Uint16 <=> x \in Int /\ 0 <= x /\ x <= Full16
BY FullIs DEF Uint16

LEMMA ClockIs == \A x : x \in Minutes <=> x \in Int /\ 0 <= x /\ x < 1440
BY DEF Minutes

\* The smaller of two numbers.
LEMMA MinIs ==
  ASSUME NEW a \in Int, NEW b \in Int
  PROVE  Min({a, b}) = IF a < b THEN a ELSE b
<1>1. Min({a, b}) \in {a, b} /\ \A y \in {a, b} : Min({a, b}) =< y
  <2>1. \E x \in {a, b} : \A y \in {a, b} : x =< y
    BY a <= b \/ b <= a
  <2> QED
    BY <2>1 DEF Min
<1> QED
  BY <1>1

LEMMA BitIs == \A on \in BOOLEAN : Bit(on) \in 0 .. 1 /\ ((Bit(on) = 1) = on) /\ ((Bit(on) = 0) = ~on)
BY DEF Bit

\* A number and a bit above it, or bits side by side, are told apart again.
LEMMA BitOnTop ==
  ASSUME NEW x \in Nat, NEW b \in 0 .. 1, x < 128
  PROVE  /\ (x + 128 * b) % 128 = x /\ (x + 128 * b >= 128) = (b = 1)
         /\ (x + 128 * b) \in Nat
OBVIOUS

LEMMA BitOnTop15 ==
  ASSUME NEW x \in Nat, NEW b \in 0 .. 1, x < 32768
  PROVE  /\ (x + 32768 * b) % 32768 = x /\ (x + 32768 * b >= 32768) = (b = 1)
         /\ (x + 32768 * b) \in Nat
OBVIOUS

LEMMA ModeAndBit ==
  ASSUME NEW m \in 0 .. 2, NEW b \in 0 .. 1
  PROVE  (m + 128 * b) % 4 = m /\ (m + 128 * b >= 128) = (b = 1)
OBVIOUS

LEMMA TwoBits ==
  ASSUME NEW a \in 0 .. 1, NEW b \in 0 .. 1
  PROVE  /\ (a + 2 * b) % 2 = a /\ ((a + 2 * b) \div 2) % 2 = b
OBVIOUS

LEMMA Nibbles ==
  ASSUME NEW t \in 0 .. 5, NEW c \in 0 .. 3
  PROVE  /\ t % 16 = t /\ c % 16 = c
         /\ (t + 16 * c) % 16 = t /\ (t + 16 * c) \div 16 = c /\ t + 16 * c # 255
OBVIOUS

LEMMA StatusBits ==
  ASSUME NEW a \in 0 .. 1, NEW c \in Nat, c < 4, NEW n \in Nat
  PROVE  /\ (a + 2 * c + 8 * n) % 2 = a /\ ((a + 2 * c + 8 * n) \div 2) % 4 = c /\ (a + 2 * c + 8 * n) \div 8 = n
OBVIOUS

LEMMA Seconds ==
  ASSUME NEW t \in Nat
  PROVE  /\ (t \div 1000) * 1000 + (t % 1000) = t
         /\ t \div 1000 \in Int /\ t % 1000 \in Int
<1> DEFINE q == t \div 1000
           r == t % 1000
<1>1. q \in Int /\ r \in Int /\ r = t - 1000 * q
  OBVIOUS
<1> HIDE DEF q, r
<1>2. q * 1000 + r = t
  BY <1>1
<1> QED
  BY <1>1, <1>2 DEF q, r

LEMMA HeadingIs ==
  ASSUME NEW h \in Int
  PROVE  h % 3600 \in Int
OBVIOUS

-----------------------------------------------------------------------------
(* The kinds whose fields are few and fixed.                                *)

LEMMA PingMeant ==
  ASSUME NEW v \in Handed("ping")
  PROVE  ReadBack("ping", Written("ping", v)) = Meant("ping", v)
<1>1. v \in [ts : Nat]
  BY DEF Handed
<1>2. Written("ping", v) = <<v.ts \div 1000>>
  BY DEF Written, EncodePing
<1>3. ReadBack("ping", <<v.ts \div 1000>>) = [ts |-> (v.ts \div 1000) * 1000]
  BY DEF ReadBack, DecodePing
<1>4. Meant("ping", v) = [ts |-> 1000 * (v.ts \div 1000)]
  BY DEF Meant
<1>5. (v.ts \div 1000) * 1000 = 1000 * (v.ts \div 1000)
  BY <1>1
<1> QED
  BY <1>2, <1>3, <1>4, <1>5

LEMMA HelloMeant ==
  ASSUME NEW v \in Handed("hello")
  PROVE  ReadBack("hello", Written("hello", v)) = Meant("hello", v)
<1>1. v \in [id : Int]
  BY DEF Handed
<1> QED
  BY <1>1 DEF Written, EncodeHello, ReadBack, DecodeHello, Meant

LEMMA MarkLogMeant ==
  ASSUME NEW v \in Handed("markLog")
  PROVE  ReadBack("markLog", Written("markLog", v)) = Meant("markLog", v)
<1>1. v \in [id : Int, label : Int]
  BY DEF Handed
<1> QED
  BY <1>1 DEF Written, EncodeMarkLog, ReadBack, DecodeMarkLog, Meant

LEMMA SetMarkMeant ==
  ASSUME NEW v \in Handed("setMark")
  PROVE  /\ ReadBack("setMark", Written("setMark", v)) = Meant("setMark", v)
         /\ Written("setMark", v) \in Seq(Int) /\ Len(Written("setMark", v)) = 5
<1>1. v \in [id : Int, mark : 0 .. MarkCount - 1, continuous : BOOLEAN, lat : Latitudes, lon : Longitudes]
  BY DEF Handed
<1>2. v.mark \in Int /\ v.mark < MarkCount /\ MarkCount \in Int
  BY <1>1 DEF MarkCount
<1>3. (Bit(v.continuous) = 1) = v.continuous
  BY <1>1 DEF Bit
<1> DEFINE w == <<v.id, v.mark, Bit(v.continuous), v.lat, v.lon>>
           got == [id |-> v.id, mark |-> v.mark, continuous |-> Bit(v.continuous) = 1, lat |-> v.lat, lon |-> v.lon]
<1>4. DecodeSetMark(w) = got
  BY <1>1, <1>2 DEF DecodeSetMark
<1>5. v = [id |-> v.id, mark |-> v.mark, continuous |-> v.continuous, lat |-> v.lat, lon |-> v.lon]
  BY <1>1
<1>6. got = v
  BY <1>3, <1>5
<1>7. Written("setMark", v) = w
  BY DEF Written, EncodeSetMark
<1>8. w \in Seq(Int) /\ Len(w) = 5
  BY <1>1, <1>2 DEF Bit, Latitudes, Longitudes
<1> HIDE DEF w, got
<1>9. ReadBack("setMark", w) = DecodeSetMark(w)
  BY DEF ReadBack
<1>10. Meant("setMark", v) = v
  BY DEF Meant
<1> QED
  BY <1>4, <1>6, <1>7, <1>8, <1>9, <1>10

-----------------------------------------------------------------------------
(* The power schedule, and the status of a boat.                            *)

\* A part of which three values are cut is the record with these in their places.
LEMMA WittyCut ==
  ASSUME NEW p \in WittyParts, NEW b, NEW a, NEW d
  PROVE  [p EXCEPT !.before = b, !.after = a, !.days = d]
           = [managed |-> p.managed, mode |-> p.mode, halts |-> p.halts, start |-> p.start, end |-> p.end,
              lat |-> p.lat, lon |-> p.lon, before |-> b, after |-> a, days |-> d]
<1> DEFINE e1 == p.managed
           e2 == p.mode
           e3 == p.halts
           e4 == p.start
           e5 == p.end
           e6 == p.lat
           e7 == p.lon
           e8 == p.before
           e9 == p.after
           e10 == p.days
           Part(x, y, z) == [managed |-> e1, mode |-> e2, halts |-> e3, start |-> e4, end |-> e5, lat |-> e6, lon |-> e7,
                             before |-> x, after |-> y, days |-> z]
<1>1. p = Part(e8, e9, e10)
  BY DEF WittyParts
<1> HIDE DEF e1, e2, e3, e4, e5, e6, e7, e8, e9, e10
<1>2. [p EXCEPT !.before = b] = Part(b, e9, e10)
  BY <1>1
<1>3. [Part(b, e9, e10) EXCEPT !.after = a] = Part(b, a, e10)
  OBVIOUS
<1>4. [Part(b, a, e10) EXCEPT !.days = d] = Part(b, a, d)
  OBVIOUS
<1>5. [p EXCEPT !.before = b, !.after = a, !.days = d] = [[[p EXCEPT !.before = b] EXCEPT !.after = a] EXCEPT !.days = d]
  OBVIOUS
<1>6. [p EXCEPT !.before = b, !.after = a, !.days = d] = Part(b, a, d)
  <2> HIDE DEF Part
  <2> QED
    BY <1>2, <1>3, <1>4, <1>5
<1> QED
  BY <1>6 DEF e1, e2, e3, e4, e5, e6, e7

\* What the writer makes of a part and the reader of its fields.
ReadWitty(a, b, c, d, e, f, g, h) ==
  [managed |-> TRUE, mode |-> a % 4, halts |-> a >= 128, start |-> b % 1440, end |-> c % 1440, lat |-> d, lon |-> e,
   before |-> f, after |-> g, days |-> h]
ReadShutdown(a, b, c, d) ==
  [managed |-> TRUE, enabled |-> a % 2 = 1, whenIdle |-> (a \div 2) % 2 = 1, time |-> b % 1440, idle |-> c, speed |-> d]

LEMMA WittyRead ==
  ASSUME NEW p \in WittyParts
  PROVE  LET t == WittyFields(p)
         IN ReadWitty(t[1], t[2], t[3], t[4], t[5], t[6], t[7], t[8]) = WittyMeant(p) /\ t[1] % 4 \in WittyModes
<1>1. /\ p.mode \in 0 .. 2 /\ p.halts \in BOOLEAN /\ p.start \in Minutes /\ p.end \in Minutes
      /\ p.before \in Nat /\ p.after \in Nat /\ p.days \in Nat /\ p.managed
  BY DEF WittyParts, WittyModes
<1>2. /\ (p.mode + 128 * Bit(p.halts)) % 4 = p.mode
      /\ (p.mode + 128 * Bit(p.halts) >= 128) = p.halts
  <2>1. Bit(p.halts) \in 0 .. 1 /\ (Bit(p.halts) = 1) = p.halts
    BY <1>1, BitIs
  <2> QED
    BY <1>1, <2>1, ModeAndBit
<1>3. p.start % 1440 = p.start /\ p.end % 1440 = p.end
  BY <1>1, ClockIs
<1>4. /\ Between(p.before, 0, 255) = Min({p.before, 255}) /\ Between(p.after, 0, 255) = Min({p.after, 255})
      /\ Between(p.days, 0, 65535) = Min({p.days, 65535})
  BY <1>1, MinIs DEF Between
<1>5. WittyFields(p) = <<p.mode + 128 * Bit(p.halts), p.start, p.end, p.lat, p.lon,
                         Between(p.before, 0, 255), Between(p.after, 0, 255), Between(p.days, 0, 65535)>>
  BY <1>1 DEF WittyFields
<1> DEFINE b == Min({p.before, 255})
           a == Min({p.after, 255})
           d == Min({p.days, 65535})
           m == p.mode + 128 * Bit(p.halts)
<1>7. WittyMeant(p) = [p EXCEPT !.before = b, !.after = a, !.days = d]
  BY DEF WittyMeant
<1> HIDE DEF a, b, d, m
<1>8. [p EXCEPT !.before = b, !.after = a, !.days = d]
       = [managed |-> TRUE, mode |-> p.mode, halts |-> p.halts, start |-> p.start, end |-> p.end,
          lat |-> p.lat, lon |-> p.lon, before |-> b, after |-> a, days |-> d]
  BY <1>1, WittyCut
<1>9. WittyFields(p) = <<m, p.start, p.end, p.lat, p.lon, b, a, d>>
  BY <1>4, <1>5 DEF a, b, d, m
<1>10. m % 4 = p.mode /\ (m >= 128) = p.halts
  BY <1>2 DEF m
<1> DEFINE t == WittyFields(p)
           mode == t[1] % 4
           halts == t[1] >= 128
           start == t[2] % 1440
           end == t[3] % 1440
<1>11. mode = p.mode /\ halts = p.halts /\ start = p.start /\ end = p.end
  BY <1>3, <1>9, <1>10
<1>12. t[4] = p.lat /\ t[5] = p.lon /\ t[6] = b /\ t[7] = a /\ t[8] = d
  BY <1>9
<1> HIDE DEF t, mode, halts, start, end
<1>13. [managed |-> TRUE, mode |-> mode, halts |-> halts, start |-> start, end |-> end,
        lat |-> t[4], lon |-> t[5], before |-> t[6], after |-> t[7], days |-> t[8]] = WittyMeant(p)
  BY <1>7, <1>8, <1>11, <1>12, Zenon
<1>14. p.mode \in WittyModes
  BY DEF WittyParts
<1> QED
  BY <1>11, <1>13, <1>14 DEF t, mode, halts, start, end, ReadWitty

LEMMA ShutdownRead ==
  ASSUME NEW p \in ShutdownParts
  PROVE  LET t == ShutdownFields(p)
         IN ReadShutdown(t[1], t[2], t[3], t[4]) = p
<1>1. /\ p.enabled \in BOOLEAN /\ p.whenIdle \in BOOLEAN /\ p.time \in Minutes /\ p.managed
      /\ p.idle \in Uint16 /\ p.speed \in Uint16
  BY DEF ShutdownParts
<1> DEFINE m == Bit(p.enabled) + 2 * Bit(p.whenIdle)
<1>2. (m % 2 = 1) = p.enabled /\ ((m \div 2) % 2 = 1) = p.whenIdle
  BY <1>1, BitIs, TwoBits
<1> HIDE DEF m
<1>3. p.time % 1440 = p.time
  BY <1>1, ClockIs
<1>4. Between(p.idle, 0, 65535) = p.idle /\ Between(p.speed, 0, 65535) = p.speed
  BY <1>1, Bytes16, FullIs65535 DEF Between
<1>5. ShutdownFields(p) = <<m, p.time, p.idle, p.speed>>
  BY <1>1, <1>4 DEF ShutdownFields, m
<1>6. p = [managed |-> TRUE, enabled |-> p.enabled, whenIdle |-> p.whenIdle, time |-> p.time, idle |-> p.idle,
           speed |-> p.speed]
  BY DEF ShutdownParts
<1> QED
  BY <1>2, <1>3, <1>5, <1>6 DEF ReadShutdown

\* The fields of a power schedule: a head of four, and the rest of each part's.
LEMMA ScheduleFields ==
  ASSUME NEW a \in Int, NEW b \in Int, NEW c \in Int, NEW d \in Int,
         NEW e \in Int, NEW f \in Int, NEW g \in Int, NEW h \in Int, NEW i \in Int, NEW j \in Int, NEW k \in Int,
         NEW l \in Int, NEW m \in Int, NEW n \in Int, NEW x, NEW y,
         NEW w, w = <<a, b, c, d>> \o Tail(<<x, e, f, g, h, i, j, k>>) \o Tail(<<y, l, m, n>>)
  PROVE  /\ w \in Seq(Int) /\ Len(w) = 14
         /\ w[1] = a /\ w[2] = b /\ w[3] = c /\ w[4] = d
         /\ w[5] = e /\ w[6] = f /\ w[7] = g /\ w[8] = h /\ w[9] = i /\ w[10] = j /\ w[11] = k
         /\ w[12] = l /\ w[13] = m /\ w[14] = n
<1>1. Tail(<<x, e, f, g, h, i, j, k>>) = <<e, f, g, h, i, j, k>> /\ Tail(<<y, l, m, n>>) = <<l, m, n>>
  OBVIOUS
<1>2. w = <<a, b, c, d>> \o <<e, f, g, h, i, j, k>> \o <<l, m, n>>
  BY <1>1, Zenon
<1>3. w \in Seq(Int) /\ Len(w) = 14
  BY <1>2
<1>4. w[1] = a /\ w[2] = b /\ w[3] = c /\ w[4] = d
  BY <1>2
<1>5. w[5] = e /\ w[6] = f /\ w[7] = g /\ w[8] = h /\ w[9] = i /\ w[10] = j /\ w[11] = k
  BY <1>2
<1>6. w[12] = l /\ w[13] = m /\ w[14] = n
  BY <1>2
<1> QED
  BY <1>3, <1>4, <1>5, <1>6

LEMMA PartsAre ==
  /\ \A p \in WittyParts : /\ p.managed /\ p.mode \in Int /\ p.halts \in BOOLEAN /\ p.start \in Int /\ p.end \in Int
                            /\ p.lat \in Int /\ p.lon \in Int /\ p.before \in Nat /\ p.after \in Nat /\ p.days \in Nat
  /\ \A p \in ShutdownParts : /\ p.managed /\ p.enabled \in BOOLEAN /\ p.whenIdle \in BOOLEAN /\ p.time \in Int
                               /\ p.idle \in Int /\ p.speed \in Int
<1>1. ASSUME NEW p \in WittyParts
      PROVE  /\ p.managed /\ p.mode \in Int /\ p.halts \in BOOLEAN /\ p.start \in Int /\ p.end \in Int
             /\ p.lat \in Int /\ p.lon \in Int /\ p.before \in Nat /\ p.after \in Nat /\ p.days \in Nat
  <2>1. /\ p.managed /\ p.mode \in WittyModes /\ p.halts \in BOOLEAN /\ p.start \in Minutes /\ p.end \in Minutes
        /\ p.lat \in Int /\ p.lon \in Int /\ p.before \in Nat /\ p.after \in Nat /\ p.days \in Nat
    BY DEF WittyParts
  <2>2. p.mode \in Int
    BY <2>1 DEF WittyModes
  <2>3. p.start \in Int /\ p.end \in Int
    BY <2>1, ClockIs
  <2> QED
    BY <2>1, <2>2, <2>3
<1>2. ASSUME NEW p \in ShutdownParts
      PROVE  /\ p.managed /\ p.enabled \in BOOLEAN /\ p.whenIdle \in BOOLEAN /\ p.time \in Int
             /\ p.idle \in Int /\ p.speed \in Int
  <2>1. /\ p.managed /\ p.enabled \in BOOLEAN /\ p.whenIdle \in BOOLEAN /\ p.time \in Minutes
        /\ p.idle \in Uint16 /\ p.speed \in Uint16
    BY DEF ShutdownParts
  <2> QED
    BY <2>1, ClockIs, Bytes16
<1> QED
  BY <1>1, <1>2

EightInts(w) == \E a, b, c, d, e, f, g, h \in Int : w = <<a, b, c, d, e, f, g, h>>
FourInts(w)  == \E a, b, c, d \in Int : w = <<a, b, c, d>>

LEMMA PartFields ==
  /\ \A p \in WittyParts \cup {NoPart} : EightInts(WittyFields(p))
  /\ \A p \in ShutdownParts \cup {NoPart} : FourInts(ShutdownFields(p))
<1>1. ASSUME NEW p \in WittyParts
      PROVE  EightInts(WittyFields(p))
  <2> DEFINE m == p.mode + 128 * Bit(p.halts)
             b == Between(p.before, 0, 255)
             a == Between(p.after, 0, 255)
             d == Between(p.days, 0, 65535)
  <2>1. WittyFields(p) = <<m, p.start, p.end, p.lat, p.lon, b, a, d>>
    BY PartsAre DEF WittyFields
  <2>2. m \in Int /\ b \in Int /\ a \in Int /\ d \in Int
    BY PartsAre DEF Between, Bit
  <2>3. p.start \in Int /\ p.end \in Int /\ p.lat \in Int /\ p.lon \in Int
    BY PartsAre
  <2> HIDE DEF m, b, a, d
  <2> QED
    BY <2>1, <2>2, <2>3 DEF EightInts
<1>2. EightInts(WittyFields(NoPart))
  <2>1. WittyFields(NoPart) = <<0, 0, 0, 0, 0, 0, 0, 0>> /\ 0 \in Int
    BY DEF WittyFields, NoPart
  <2> QED
    BY <2>1 DEF EightInts
<1>3. ASSUME NEW p \in ShutdownParts
      PROVE  FourInts(ShutdownFields(p))
  <2> DEFINE m == Bit(p.enabled) + 2 * Bit(p.whenIdle)
             i == Between(p.idle, 0, 65535)
             s == Between(p.speed, 0, 65535)
  <2>1. ShutdownFields(p) = <<m, p.time, i, s>>
    BY PartsAre DEF ShutdownFields
  <2>2. m \in Int /\ i \in Int /\ s \in Int /\ p.time \in Int
    BY PartsAre DEF Between, Bit
  <2> HIDE DEF m, i, s
  <2> QED
    BY <2>1, <2>2 DEF FourInts
<1>4. FourInts(ShutdownFields(NoPart))
  <2>1. ShutdownFields(NoPart) = <<0, 0, 0, 0>> /\ 0 \in Int
    BY DEF ShutdownFields, NoPart
  <2> QED
    BY <2>1 DEF FourInts
<1> QED
  BY <1>1, <1>2, <1>3, <1>4

LEMMA ScheduleMeant ==
  ASSUME NEW v \in Handed("schedule")
  PROVE  /\ ReadBack("schedule", Written("schedule", v)) = Meant("schedule", v)
         /\ Written("schedule", v) \in Seq(Int) /\ Len(Written("schedule", v)) = 14
<1> DEFINE t == WittyFields(v.witty)
           s == ShutdownFields(v.shutdown)
           m == Bit(v.witty.managed) + 2 * Bit(v.shutdown.managed)
           w == <<m, t[1], s[1], v.stamp>> \o Tail(t) \o Tail(s)
<1>1. /\ v \in [stamp : Nat, witty : WittyParts \cup {NoPart}, shutdown : ShutdownParts \cup {NoPart}]
      /\ v.stamp \in Int
  BY DEF Handed
<1>2. v.witty.managed = (v.witty # NoPart) /\ v.shutdown.managed = (v.shutdown # NoPart)
  <2>1. NoPart.managed = FALSE
    BY DEF NoPart
  <2>2. \A p \in WittyParts : p.managed = TRUE /\ p # NoPart
    BY <2>1 DEF WittyParts
  <2>3. \A p \in ShutdownParts : p.managed = TRUE /\ p # NoPart
    BY <2>1 DEF ShutdownParts
  <2> QED
    BY <1>1, <2>1, <2>2, <2>3
<1>3. m \in Int /\ (m % 2 = 0) = (v.witty = NoPart) /\ ((m \div 2) % 2 = 0) = (v.shutdown = NoPart)
  <2> DEFINE i == Bit(v.witty.managed)
             j == Bit(v.shutdown.managed)
  <2>1. i \in 0 .. 1 /\ j \in 0 .. 1 /\ (i = 0) = (v.witty = NoPart) /\ (j = 0) = (v.shutdown = NoPart)
    <3>1. i = (IF v.witty # NoPart THEN 1 ELSE 0) /\ j = (IF v.shutdown # NoPart THEN 1 ELSE 0)
      BY <1>2, Zenon DEF Bit
    <3> HIDE DEF i, j
    <3> QED
      BY <3>1
  <2> HIDE DEF i, j
  <2>2. m = i + 2 * j
    BY DEF i, j
  <2>3. (i + 2 * j) % 2 = i /\ ((i + 2 * j) \div 2) % 2 = j /\ i + 2 * j \in Int
    BY <2>1, TwoBits
  <2> HIDE DEF m
  <2> QED
    BY <2>1, <2>2, <2>3
<1> HIDE DEF t, s, m
<1>4. EightInts(t) /\ FourInts(s)
  BY <1>1, PartFields DEF t, s
<1>5. PICK a1 \in Int, a2 \in Int, a3 \in Int, a4 \in Int, a5 \in Int, a6 \in Int, a7 \in Int, a8 \in Int :
        t = <<a1, a2, a3, a4, a5, a6, a7, a8>>
  BY <1>4 DEF EightInts
<1>6. PICK b1 \in Int, b2 \in Int, b3 \in Int, b4 \in Int : s = <<b1, b2, b3, b4>>
  BY <1>4 DEF FourInts
<1>7. Written("schedule", v) = w
  BY DEF Written, EncodePowerSchedule, t, s, m
<1>8. /\ w \in Seq(Int) /\ Len(w) = 14
      /\ w[1] = m /\ w[2] = a1 /\ w[3] = b1 /\ w[4] = v.stamp
      /\ w[5] = a2 /\ w[6] = a3 /\ w[7] = a4 /\ w[8] = a5 /\ w[9] = a6 /\ w[10] = a7 /\ w[11] = a8
      /\ w[12] = b2 /\ w[13] = b3 /\ w[14] = b4
  <2>1. t[1] = a1 /\ s[1] = b1
    BY <1>5, <1>6
  <2>2. w = <<m, a1, b1, v.stamp>> \o Tail(<<a1, a2, a3, a4, a5, a6, a7, a8>>) \o Tail(<<b1, b2, b3, b4>>)
    BY <1>5, <1>6, <2>1, Zenon
  <2> HIDE DEF w
  <2> QED
    BY <1>1, <1>3, <2>2, ScheduleFields
<1> HIDE DEF w
<1> DEFINE wittyRead == IF m % 2 = 0 THEN NoPart ELSE ReadWitty(a1, a2, a3, a4, a5, a6, a7, a8)
           shutdownRead == IF (m \div 2) % 2 = 0 THEN NoPart ELSE ReadShutdown(b1, b2, b3, b4)
           wittyMeant == IF v.witty = NoPart THEN v.witty ELSE WittyMeant(v.witty)
<1>9. wittyRead = wittyMeant /\ a1 % 4 \in WittyModes
  <2>1. CASE v.witty = NoPart
    <3>1. t = <<0, 0, 0, 0, 0, 0, 0, 0>>
      BY <2>1 DEF NoPart, t, WittyFields
    <3>2. a1 = 0
      BY <1>5, <3>1
    <3>3. 0 % 4 \in WittyModes
      BY DEF WittyModes
    <3> QED
      BY <2>1, <3>2, <3>3, <1>3
  <2>2. CASE v.witty # NoPart
    <3>1. v.witty \in WittyParts
      BY <1>1, <2>2
    <3>2. /\ ReadWitty(t[1], t[2], t[3], t[4], t[5], t[6], t[7], t[8]) = WittyMeant(v.witty)
          /\ t[1] % 4 \in WittyModes
      BY <3>1, WittyRead DEF t
    <3>3. t[1] = a1 /\ t[2] = a2 /\ t[3] = a3 /\ t[4] = a4 /\ t[5] = a5 /\ t[6] = a6 /\ t[7] = a7 /\ t[8] = a8
      BY <1>5
    <3> QED
      BY <2>2, <3>2, <3>3, <1>3
  <2> QED
    BY <2>1, <2>2
<1>10. shutdownRead = v.shutdown
  <2>1. CASE v.shutdown = NoPart
    BY <2>1, <1>3
  <2>2. CASE v.shutdown # NoPart
    <3>1. v.shutdown \in ShutdownParts
      BY <1>1, <2>2
    <3>2. ReadShutdown(s[1], s[2], s[3], s[4]) = v.shutdown
      BY <3>1, ShutdownRead DEF s
    <3>3. s[1] = b1 /\ s[2] = b2 /\ s[3] = b3 /\ s[4] = b4
      BY <1>6
    <3> QED
      BY <2>2, <3>2, <3>3, <1>3
  <2> QED
    BY <2>1, <2>2
<1>11. ReadBack("schedule", w) = [stamp |-> v.stamp, witty |-> wittyRead, shutdown |-> shutdownRead]
  <2>1. ReadBack("schedule", w) = DecodePowerSchedule(w)
    BY DEF ReadBack
  <2>2. DecodePowerSchedule(w) = [stamp |-> v.stamp, witty |-> wittyRead, shutdown |-> shutdownRead]
    BY <1>8, <1>9 DEF DecodePowerSchedule, ReadWitty, ReadShutdown
  <2> QED
    BY <2>1, <2>2
<1> HIDE DEF wittyRead, shutdownRead
<1>12. Meant("schedule", v) = [v EXCEPT !.witty = wittyMeant]
  BY DEF Meant
<1> HIDE DEF wittyMeant
<1>13. [v EXCEPT !.witty = wittyMeant] = [stamp |-> v.stamp, witty |-> wittyMeant, shutdown |-> v.shutdown]
  BY <1>1
<1> QED
  BY <1>7, <1>8, <1>9, <1>10, <1>11, <1>12, <1>13

\* A status whose build and battery are cut.
LEMMA StatusCut ==
  ASSUME NEW v \in Handed("status"), NEW b, NEW c
  PROVE  [v EXCEPT !.build = b, !.battery = c]
           = [id |-> v.id, flags |-> v.flags, power |-> v.power, sv |-> v.sv, fix |-> v.fix,
              build |-> b, dirty |-> v.dirty, battery |-> c]
<1> DEFINE e1 == v.id
           e2 == v.flags
           e3 == v.power
           e4 == v.sv
           e5 == v.fix
           e6 == v.build
           e7 == v.dirty
           e8 == v.battery
           Status(x, y) == [id |-> e1, flags |-> e2, power |-> e3, sv |-> e4, fix |-> e5, build |-> x, dirty |-> e7, battery |-> y]
<1>1. v = Status(e6, e8)
  BY DEF Handed
<1> HIDE DEF e1, e2, e3, e4, e5, e6, e7, e8
<1>2. [v EXCEPT !.build = b] = Status(b, e8)
  BY <1>1
<1>3. [Status(b, e8) EXCEPT !.battery = c] = Status(b, c)
  OBVIOUS
<1>4. [v EXCEPT !.build = b, !.battery = c] = [[v EXCEPT !.build = b] EXCEPT !.battery = c]
  OBVIOUS
<1>5. [v EXCEPT !.build = b, !.battery = c] = Status(b, c)
  <2> HIDE DEF Status
  <2> QED
    BY <1>2, <1>3, <1>4
<1> QED
  BY <1>5 DEF e1, e2, e3, e4, e5, e7

LEMMA StatusMeant ==
  ASSUME NEW v \in Handed("status")
  PROVE  ReadBack("status", Written("status", v)) = Meant("status", v)
<1> DEFINE x == IF v.fix = NoPvt THEN 255 ELSE (v.fix.type % 16) + 16 * (v.fix.carr % 16)
           n == Between(v.build, 0, 32767)
           y == n + 32768 * Bit(v.dirty)
           h == <<v.id, v.flags % 256, v.power % 256, Between(v.sv, 0, 255), x, y>>
           b == IF v.battery = <<>> THEN <<>> ELSE <<Between(v.battery[1], 0, 100), Between(v.battery[2], 0, 255)>>
           w == h \o b
<1>1. v \in [id : Int, flags : Uint8, power : Uint8, sv : Uint8, fix : [type : 0 .. 5, carr : 0 .. 3] \cup {NoPvt},
              build : Nat, dirty : BOOLEAN, battery : (Nat \X Nat) \cup {<<>>}]
  BY DEF Handed
<1>2. v.flags % 256 = v.flags /\ v.power % 256 = v.power /\ Between(v.sv, 0, 255) = v.sv
      /\ v.flags \in Int /\ v.power \in Int /\ v.sv \in Int
  BY <1>1, Bytes8 DEF Between
<1>3. x \in Int /\ (IF x = 255 THEN NoPvt ELSE [type |-> x % 16, carr |-> x \div 16]) = v.fix
  <2>1. CASE v.fix = NoPvt
    BY <2>1
  <2>2. CASE v.fix \in [type : 0 .. 5, carr : 0 .. 3]
    <3>1. v.fix # NoPvt /\ v.fix.type \in 0 .. 5 /\ v.fix.carr \in 0 .. 3 /\ v.fix = [type |-> v.fix.type, carr |-> v.fix.carr]
      BY <2>2 DEF NoPvt
    <3>2. x = v.fix.type + 16 * v.fix.carr
      BY <3>1, Nibbles
    <3> QED
      BY <3>1, <3>2, Nibbles
  <2> QED
    BY <1>1, <2>1, <2>2
<1>4. n = Min({v.build, 32767}) /\ n \in Nat /\ n < 32768
  BY <1>1, MinIs DEF Between
<1>5. y \in Nat /\ y % 32768 = n /\ (y >= 32768) = v.dirty
  <2>1. Bit(v.dirty) \in 0 .. 1 /\ (Bit(v.dirty) = 1) = v.dirty
    BY <1>1, BitIs
  <2> HIDE DEF n
  <2> QED
    BY <1>4, <2>1, BitOnTop15
<1>6. Written("status", v) = w
  BY DEF Written, EncodeStatusHello
<1> HIDE DEF x, n, y
<1> DEFINE c1 == Min({v.battery[1], 100})
           c2 == Min({v.battery[2], 255})
<1>7. h = <<v.id, v.flags, v.power, v.sv, x, y>> /\ v.id \in Int
  BY <1>1, <1>2
<1>8. v.battery # <<>> => b = <<c1, c2>>
  <2> SUFFICES ASSUME v.battery # <<>>
               PROVE  b = <<c1, c2>>
    OBVIOUS
  <2>1. v.battery[1] \in Nat /\ v.battery[2] \in Nat
    BY <1>1
  <2>2. Between(v.battery[1], 0, 100) = c1 /\ Between(v.battery[2], 0, 255) = c2
    BY <2>1, MinIs DEF Between
  <2> HIDE DEF c1, c2
  <2> QED
    BY <2>2
<1>9. v.battery = <<>> => b = <<>>
  OBVIOUS
<1> HIDE DEF h, b, c1, c2
<1>10. /\ w[1] = v.id /\ w[2] = v.flags /\ w[3] = v.power /\ w[4] = v.sv /\ w[5] = x /\ w[6] = y
       /\ v.battery = <<>> => Len(w) = 6
       /\ v.battery # <<>> => Len(w) = 8 /\ w[7] = c1 /\ w[8] = c2
  <2>1. CASE v.battery = <<>>
    <3>1. h \in Seq(Int)
      BY <1>2, <1>3, <1>5, <1>7
    <3>2. w = h
      BY <2>1, <3>1, <1>9, ConcatEmptySeq
    <3> HIDE DEF w
    <3> QED
      BY <2>1, <3>2, <1>7
  <2>2. CASE v.battery # <<>>
    <3>1. w = <<v.id, v.flags, v.power, v.sv, x, y>> \o <<c1, c2>>
      BY <2>2, <1>7, <1>8, Zenon
    <3> HIDE DEF w
    <3> QED
      BY <2>2, <3>1
  <2> QED
    BY <2>1, <2>2
<1> HIDE DEF w
<1> DEFINE battery == IF Len(w) = 6 THEN <<>> ELSE <<w[7], w[8]>>
           meant == IF v.battery = <<>> THEN v.battery ELSE <<c1, c2>>
<1>11. battery = meant
  BY <1>10
<1>12. ReadBack("status", w) = [id |-> v.id, flags |-> v.flags, power |-> v.power, sv |-> v.sv, fix |-> v.fix,
                                build |-> n, dirty |-> v.dirty, battery |-> battery]
  <2>1. ReadBack("status", w) = DecodeStatusHello(w)
    BY DEF ReadBack
  <2> HIDE DEF battery
  <2>2. DecodeStatusHello(w) = [id |-> w[1], flags |-> w[2], power |-> w[3], sv |-> w[4],
                                fix |-> IF w[5] = 255 THEN NoPvt ELSE [type |-> w[5] % 16, carr |-> w[5] \div 16],
                                build |-> w[6] % 32768, dirty |-> w[6] >= 32768, battery |-> battery]
    BY DEF DecodeStatusHello, battery
  <2> QED
    BY <2>1, <2>2, <1>3, <1>5, <1>10
<1> DEFINE built == Min({v.build, 32767})
<1>13. Meant("status", v) = [v EXCEPT !.build = built, !.battery = meant]
  BY DEF Meant, c1, c2
<1> HIDE DEF built, meant, battery
<1>14. [v EXCEPT !.build = built, !.battery = meant]
         = [id |-> v.id, flags |-> v.flags, power |-> v.power, sv |-> v.sv, fix |-> v.fix,
            build |-> built, dirty |-> v.dirty, battery |-> meant]
  BY StatusCut
<1>15. n = built
  BY <1>4 DEF built
<1> QED
  BY <1>6, <1>11, <1>12, <1>13, <1>14, <1>15

-----------------------------------------------------------------------------
(* Fixes, one and by the batch.                                             *)

\* A fix of which four values are cut.
CutFix(f, a, b, c, d) == [f EXCEPT !.speed = a, !.heading = b, !.carr = c, !.sv = d]

LEMMA FixCut ==
  ASSUME NEW f \in RadioFixes, NEW a, NEW b, NEW c, NEW d
  PROVE  CutFix(f, a, b, c, d)
           = [ts |-> f.ts, lat |-> f.lat, lon |-> f.lon, speed |-> a, heading |-> b, ok |-> f.ok, carr |-> c, sv |-> d]
<1> DEFINE e1 == f.ts
           e2 == f.lat
           e3 == f.lon
           e4 == f.speed
           e5 == f.heading
           e6 == f.ok
           e7 == f.carr
           e8 == f.sv
           Fix(x, y, u, z) == [ts |-> e1, lat |-> e2, lon |-> e3, speed |-> x, heading |-> y, ok |-> e6, carr |-> u, sv |-> z]
<1>1. f = Fix(e4, e5, e7, e8)
  BY DEF RadioFixes
<1> HIDE DEF e1, e2, e3, e4, e5, e6, e7, e8
<1>2. [f EXCEPT !.speed = a] = Fix(a, e5, e7, e8)
  BY <1>1
<1>3. [Fix(a, e5, e7, e8) EXCEPT !.heading = b] = Fix(a, b, e7, e8)
  OBVIOUS
<1>4. [Fix(a, b, e7, e8) EXCEPT !.carr = c] = Fix(a, b, c, e8)
  OBVIOUS
<1>5. [Fix(a, b, c, e8) EXCEPT !.sv = d] = Fix(a, b, c, d)
  OBVIOUS
<1>6. [f EXCEPT !.speed = a, !.heading = b, !.carr = c, !.sv = d]
        = [[[[f EXCEPT !.speed = a] EXCEPT !.heading = b] EXCEPT !.carr = c] EXCEPT !.sv = d]
  OBVIOUS
<1>7. [f EXCEPT !.speed = a, !.heading = b, !.carr = c, !.sv = d] = Fix(a, b, c, d)
  <2> HIDE DEF Fix
  <2> QED
    BY <1>2, <1>3, <1>4, <1>5, <1>6
<1> QED
  BY <1>7 DEF CutFix, e1, e2, e3, e6

LEMMA FixFieldsAre ==
  ASSUME NEW f \in RadioFixes
  PROVE  /\ WriteFixFields(f) \in Seq(Int) /\ Len(WriteFixFields(f)) = 7
         /\ ReadFixFields(WriteFixFields(f)) = FixMeant(f)
<1> DEFINE q == f.ts \div 1000
           r == f.ts % 1000
           speed == Between(f.speed, 0, 65535)
           sv == Between(f.sv, 0, 31)
           carr == f.carr % 4
           head == f.heading % 3600
           x == Bit(f.ok) + 2 * carr + 8 * sv
           w == <<q, r, f.lat, f.lon, speed, head, x>>
<1>1. /\ f.ts \in Nat /\ f.lat \in Int /\ f.lon \in Int /\ f.speed \in Int /\ f.heading \in Int /\ f.ok \in BOOLEAN
      /\ f.carr \in Nat /\ f.sv \in Nat
  BY DEF RadioFixes
<1>2. q \in Int /\ r \in Int /\ q * 1000 + r = f.ts
  BY <1>1, Seconds
<1>3. speed \in Int /\ head \in Int
  <2>1. head \in Int
    BY <1>1, HeadingIs
  <2>2. speed \in Int
    BY <1>1 DEF Between
  <2> QED
    BY <2>1, <2>2
<1>4. sv = Min({f.sv, 31}) /\ sv \in Nat /\ carr \in Nat /\ carr < 4
  BY <1>1, MinIs DEF Between
<1>5. x \in Int /\ (x % 2 = 1) = f.ok /\ (x \div 2) % 4 = carr /\ x \div 8 = sv
  <2> DEFINE i == Bit(f.ok)
  <2>1. i \in 0 .. 1 /\ (i = 1) = f.ok
    BY <1>1, BitIs
  <2>2. x = i + 2 * carr + 8 * sv
    OBVIOUS
  <2> HIDE DEF carr, sv, i, x
  <2>3. /\ (i + 2 * carr + 8 * sv) % 2 = i /\ ((i + 2 * carr + 8 * sv) \div 2) % 4 = carr
        /\ (i + 2 * carr + 8 * sv) \div 8 = sv
    BY <1>4, <2>1, StatusBits
  <2>4. i + 2 * carr + 8 * sv \in Int
    BY <1>4, <2>1
  <2> QED
    BY <2>1, <2>2, <2>3, <2>4
<1>6. WriteFixFields(f) = w
  BY DEF WriteFixFields
<1> DEFINE least == Min({f.sv, 31})
<1>7. FixMeant(f) = CutFix(f, speed, head, carr, least)
  BY DEF FixMeant, CutFix
<1> HIDE DEF q, r, speed, sv, carr, head, x, least
<1>8. ReadFixFields(w) = [ts |-> f.ts, lat |-> f.lat, lon |-> f.lon, speed |-> speed, heading |-> head, ok |-> f.ok,
                          carr |-> carr, sv |-> sv]
  BY <1>2, <1>5 DEF ReadFixFields
<1>10. CutFix(f, speed, head, carr, least)
         = [ts |-> f.ts, lat |-> f.lat, lon |-> f.lon, speed |-> speed, heading |-> head, ok |-> f.ok,
            carr |-> carr, sv |-> least]
  BY FixCut
<1>11. sv = least
  BY <1>4 DEF least
<1>12. w \in Seq(Int) /\ Len(w) = 7
  BY <1>1, <1>2, <1>3, <1>5
<1> QED
  BY <1>6, <1>7, <1>8, <1>10, <1>11, <1>12

\* Only the seven fields of a fix matter to who reads it.
LEMMA FixReadFrom ==
  ASSUME NEW f \in RadioFixes, NEW w, \A i \in 1 .. 7 : w[i] = WriteFixFields(f)[i]
  PROVE  ReadFixFields(w) = FixMeant(f)
<1> DEFINE u == WriteFixFields(f)
<1>1. w[1] = u[1] /\ w[2] = u[2] /\ w[3] = u[3] /\ w[4] = u[4] /\ w[5] = u[5] /\ w[6] = u[6] /\ w[7] = u[7]
  OBVIOUS
<1> HIDE DEF u
<1>2. ReadFixFields(w) = ReadFixFields(u)
  BY <1>1 DEF ReadFixFields
<1> QED
  BY <1>2, FixFieldsAre DEF u

\* A field put before others, and these read again.
LEMMA TailOfJoined ==
  ASSUME NEW a \in Int, NEW u \in Seq(Int)
  PROVE  <<a>> \o u \in Seq(Int) /\ (<<a>> \o u)[1] = a /\ Tail(<<a>> \o u) = u
<1> DEFINE h == <<a>>
           w == h \o u
           r == Tail(w)
           n == Len(u)
<1>1. h \in Seq(Int) /\ Len(h) = 1 /\ h[1] = a
  OBVIOUS
<1>2. n \in Nat
  BY LenProperties
<1> HIDE DEF h, n
<1>3. /\ w \in Seq(Int) /\ Len(w) = 1 + n
      /\ \A i \in 1 .. 1 + n : w[i] = IF i <= 1 THEN h[i] ELSE u[i - 1]
  <2>1. h \in Seq(Int)
    BY <1>1
  <2>2. /\ w \in Seq(Int) /\ Len(w) = Len(h) + Len(u)
        /\ \A i \in 1 .. Len(h) + Len(u) : w[i] = IF i <= Len(h) THEN h[i] ELSE u[i - Len(h)]
    BY <2>1, ConcatProperties
  <2> HIDE DEF w
  <2> QED
    BY <1>1, <2>2 DEF n
<1> HIDE DEF w
<1>4. w # <<>>
  BY <1>2, <1>3
<1>5. r \in Seq(Int) /\ Len(r) = Len(w) - 1 /\ \A i \in 1 .. Len(r) : r[i] = w[i + 1]
  BY <1>3, <1>4, HeadTailProperties
<1> HIDE DEF r
<1>6. Len(r) = n
  BY <1>2, <1>3, <1>5
<1>7. \A i \in 1 .. n : r[i] = u[i]
  <2> TAKE i \in 1 .. n
  <2>1. i + 1 \in 1 .. 1 + n /\ ~(i + 1 <= 1) /\ (i + 1) - 1 = i
    BY <1>2
  <2>2. w[i + 1] = u[(i + 1) - 1]
    BY <1>3, <2>1
  <2> QED
    BY <1>5, <1>6, <2>1, <2>2
<1>8. r = u
  BY <1>5, <1>6, <1>7, SeqEqual DEF n
<1>9. w[1] = a
  BY <1>1, <1>2, <1>3
<1> QED
  BY <1>3, <1>8, <1>9 DEF r, w, h

LEMMA PositionMeant ==
  ASSUME NEW v \in Handed("position")
  PROVE  ReadBack("position", Written("position", v)) = Meant("position", v)
<1> DEFINE u == WriteFixFields(v.fix)
           w == <<v.id>> \o u
           meant == FixMeant(v.fix)
<1>1. v \in [id : Int, fix : RadioFixes]
  BY DEF Handed
<1>2. u \in Seq(Int) /\ v.id \in Int
  BY <1>1, FixFieldsAre
<1>3. Written("position", v) = w
  BY DEF Written, Encode
<1>4. ReadFixFields(u) = meant
  BY <1>1, FixFieldsAre
<1>5. w[1] = v.id /\ Tail(w) = u
  <2> HIDE DEF u
  <2> QED
    BY <1>2, TailOfJoined
<1> HIDE DEF w, u
<1>7. Meant("position", v) = [v EXCEPT !.fix = meant]
  BY DEF Meant
<1> HIDE DEF meant
<1>8. ReadBack("position", w) = [id |-> v.id, fix |-> meant]
  <2>1. ReadBack("position", w) = Decode(w)
    BY DEF ReadBack
  <2> QED
    BY <2>1, <1>4, <1>5 DEF Decode
<1>9. [v EXCEPT !.fix = meant] = [id |-> v.id, fix |-> meant]
  BY <1>1
<1> QED
  BY <1>3, <1>7, <1>8, <1>9

\* Sequences laid one behind the other, as FlattenSeq does it.
Laid(h, s, N) == h = [i \in 1 .. N |-> IF i = 1 THEN s[i] ELSE h[i - 1] \o s[i]]

LEMMA LaidExists ==
  ASSUME NEW s, NEW N \in Nat
  PROVE  \E h : Laid(h, s, N)
<1> DEFINE Upto(h, n) == /\ h = [i \in 1 .. n |-> h[i]]
                         /\ \A i \in 1 .. n : h[i] = IF i = 1 THEN s[i] ELSE h[i - 1] \o s[i]
           T == {n \in 0 .. N : \E h : Upto(h, n)}
<1>1. 0 \in T
  <2> DEFINE g == [i \in 1 .. 0 |-> s[i]]
  <2>1. Upto(g, 0)
    OBVIOUS
  <2> HIDE DEF g, Upto
  <2> QED
    BY <2>1
<1>2. ASSUME NEW n \in 0 .. N - 1, n \in T
      PROVE  n + 1 \in T
  <2>1. PICK h : Upto(h, n)
    BY <1>2
  <2> DEFINE new == IF n = 0 THEN s[1] ELSE h[n] \o s[n + 1]
  <2> HIDE DEF new
  <2> DEFINE g == [i \in 1 .. n + 1 |-> IF i = n + 1 THEN new ELSE h[i]]
  <2>2. \A i \in 1 .. n : g[i] = h[i]
    OBVIOUS
  <2>3. g[n + 1] = new /\ g = [i \in 1 .. n + 1 |-> g[i]]
    OBVIOUS
  <2> HIDE DEF g
  <2>4. \A i \in 1 .. n + 1 : g[i] = IF i = 1 THEN s[i] ELSE g[i - 1] \o s[i]
    <3> TAKE i \in 1 .. n + 1
    <3>1. CASE i = n + 1 /\ i = 1
      BY <3>1, <2>3 DEF new
    <3>2. CASE i = n + 1 /\ i # 1
      <4>1. i - 1 = n /\ n \in 1 .. n /\ n # 0
        BY <3>2
      <4>2. g[i - 1] = h[n]
        BY <4>1, <2>2
      <4> QED
        BY <4>1, <4>2, <3>2, <2>3 DEF new
    <3>3. CASE i # n + 1
      <4>1. i \in 1 .. n /\ (i # 1 => i - 1 \in 1 .. n)
        BY <3>3
      <4>2. h[i] = IF i = 1 THEN s[i] ELSE h[i - 1] \o s[i]
        BY <4>1, <2>1
      <4>3. g[i] = h[i] /\ (i # 1 => g[i - 1] = h[i - 1])
        BY <4>1, <2>2
      <4> QED
        BY <4>2, <4>3
    <3> QED
      BY <3>1, <3>2, <3>3
  <2>5. Upto(g, n + 1)
    BY <2>3, <2>4
  <2> HIDE DEF Upto
  <2> QED
    BY <2>5
<1>3. N \in T
  <2> HIDE DEF T
  <2> QED
    BY <1>1, <1>2, UpToInduction
<1>4. PICK h : Upto(h, N)
  BY <1>3
<1> DEFINE all == [i \in 1 .. N |-> IF i = 1 THEN s[i] ELSE h[i - 1] \o s[i]]
<1>5. h = all
  BY <1>4
<1> QED
  BY <1>5 DEF Laid

\* Sequences of k numbers each (k: the fields of a fix, of a pair) are found again at every k-th place.
LEMMA Flattened ==
  ASSUME NEW k \in {2, 7}, NEW s \in Seq(Seq(Int)), \A i \in 1 .. Len(s) : Len(s[i]) = k
  PROVE  /\ FlattenSeq(s) \in Seq(Int) /\ Len(FlattenSeq(s)) = k * Len(s)
         /\ \A m \in 1 .. Len(s) : \A j \in 1 .. k : FlattenSeq(s)[k * (m - 1) + j] = s[m][j]
<1> DEFINE N == Len(s)
           h == CHOOSE h : h = [i \in 1 .. N |-> IF i = 1 THEN s[i] ELSE h[i - 1] \o s[i]]
<1>1. N \in Nat /\ \A i \in 1 .. N : s[i] \in Seq(Int) /\ Len(s[i]) = k
  BY LenProperties, ElementOfSeq
<1>2. Laid(h, s, N)
  <2>1. \E g : g = [i \in 1 .. N |-> IF i = 1 THEN s[i] ELSE g[i - 1] \o s[i]]
    <3>1. PICK g : Laid(g, s, N)
      BY <1>1, LaidExists
    <3> QED
      BY Zenon, <3>1 DEF Laid
  <2> HIDE DEF N
  <2> QED
    BY <2>1 DEF Laid
<1>3. FlattenSeq(s) = IF N = 0 THEN s ELSE h[N]
  BY Zenon DEF FlattenSeq
<1> HIDE DEF h, N
<1>4. \A i \in 1 .. N : h[i] = IF i = 1 THEN s[i] ELSE h[i - 1] \o s[i]
  BY <1>2 DEF Laid
<1>5. CASE N = 0
  <2>1. s = <<>> /\ Len(s) = 0 /\ FlattenSeq(s) = <<>>
    BY <1>3, <1>5, EmptySeq DEF N
  <2>2. k * 0 = 0 /\ <<>> \in Seq(Int) /\ Len(<<>>) = 0
    OBVIOUS
  <2>3. FlattenSeq(s) \in Seq(Int) /\ Len(FlattenSeq(s)) = k * Len(s)
    BY <2>1, <2>2
  <2>4. \A m \in 1 .. Len(s) : FALSE
    BY <2>1
  <2> QED
    BY <2>3, <2>4
<1>6. CASE N # 0
  <2> DEFINE Good(i) == /\ h[i] \in Seq(Int) /\ Len(h[i]) = k * i
                        /\ \A m \in 1 .. i : \A j \in 1 .. k : h[i][k * (m - 1) + j] = s[m][j]
             M == N - 1
             T == {n \in 0 .. M : Good(n + 1)}
  <2>1. 0 \in T
    <3>1. h[1] = s[1] /\ s[1] \in Seq(Int) /\ Len(s[1]) = k
      BY <1>1, <1>4, <1>6
    <3>2. \A j \in 1 .. k : k * (1 - 1) + j = j
      OBVIOUS
    <3>3. Good(1)
      BY <3>1, <3>2
    <3> HIDE DEF Good
    <3> QED
      BY <3>3, <1>1, <1>6
  <2>2. ASSUME NEW n \in 0 .. M - 1, n \in T
        PROVE  n + 1 \in T
    <3> DEFINE i == n + 1
    <3>1. i \in 1 .. N - 1 /\ i + 1 \in 1 .. N /\ i + 1 # 1 /\ (i + 1) - 1 = i /\ Good(i)
      BY <1>1, <2>2
    <3> HIDE DEF i
    <3>2. h[i + 1] = h[i] \o s[i + 1] /\ s[i + 1] \in Seq(Int) /\ Len(s[i + 1]) = k
      BY <1>1, <1>4, <3>1
    <3>3. /\ h[i + 1] \in Seq(Int) /\ Len(h[i + 1]) = k * i + k
          /\ \A x \in 1 .. k * i + k : h[i + 1][x] = IF x <= k * i THEN h[i][x] ELSE s[i + 1][x - k * i]
      <4> HIDE DEF Good
      <4>1. h[i] \in Seq(Int) /\ Len(h[i]) = k * i
        BY <3>1 DEF Good
      <4> DEFINE g == h[i]
                 e == s[i + 1]
                 w == g \o e
      <4>2. w = h[i + 1] /\ g \in Seq(Int) /\ e \in Seq(Int)
        BY <3>2, <4>1
      <4> HIDE DEF g, e
      <4>3. /\ w \in Seq(Int) /\ Len(w) = Len(g) + Len(e)
            /\ \A x \in 1 .. Len(g) + Len(e) : w[x] = IF x <= Len(g) THEN g[x] ELSE e[x - Len(g)]
        BY <4>2, ConcatProperties
      <4>4. Len(g) = k * i /\ Len(e) = k
        BY <3>2, <4>1 DEF g, e
      <4> HIDE DEF w
      <4> QED
        BY <4>2, <4>3, <4>4 DEF g, e
    <3>4. k * (i + 1) = k * i + k
      BY <3>1
    <3>5. ASSUME NEW m \in 1 .. i + 1, NEW j \in 1 .. k
          PROVE  h[i + 1][k * (m - 1) + j] = s[m][j]
      <4> DEFINE x == k * (m - 1) + j
      <4>1. CASE m = i + 1
        <5> DEFINE q == k * i
        <5>1. q \in Nat /\ j \in Nat /\ 1 <= j /\ j <= k /\ k \in Nat
          BY <3>1
        <5>2. x = q + j
          <6>1. m - 1 = i
            BY <3>1, <4>1
          <6> QED
            BY <6>1
        <5>3. h[i + 1][q + j] = IF q + j <= q THEN h[i][q + j] ELSE s[i + 1][(q + j) - q]
          <6> HIDE DEF q
          <6>1. q + j \in 1 .. q + k
            BY <5>1
          <6> QED
            BY <3>3, <6>1 DEF q
        <5> HIDE DEF q, x
        <5>4. ~(q + j <= q) /\ (q + j) - q = j
          BY <5>1
        <5>5. h[i + 1][x] = s[m][j]
          BY <4>1, <5>2, <5>3, <5>4
        <5> QED
          BY <5>5 DEF x
      <4>2. CASE m \in 1 .. i
        <5>1. x \in 1 .. k * i /\ x \in 1 .. k * i + k
          BY <3>1, <4>2
        <5>2. h[i][x] = s[m][j]
          BY <3>1, <4>2
        <5> HIDE DEF x
        <5>3. h[i + 1][x] = h[i][x]
          BY <3>3, <5>1
        <5> QED
          BY <5>2, <5>3 DEF x
      <4> QED
        BY <3>1, <4>1, <4>2
    <3>6. Good(i + 1)
      BY <3>3, <3>4, <3>5
    <3>7. i \in 0 .. N - 1
      BY <1>1, <3>1
    <3> HIDE DEF Good
    <3> QED
      BY <3>6, <3>7 DEF i
  <2>3. M \in T
    <3>1. M \in Nat
      BY <1>1, <1>6
    <3> HIDE DEF T, M
    <3>2. \A n \in 0 .. M - 1 : n \in T => n + 1 \in T
      BY <2>2
    <3>3. 0 .. M \subseteq T
      BY <2>1, <3>1, <3>2, UpToInduction
    <3> QED
      BY <3>1, <3>3
  <2>4. Good(N)
    <3>1. (N - 1) + 1 = N
      BY <1>1
    <3> HIDE DEF Good
    <3> QED
      BY <2>3, <3>1
  <2> QED
    BY <1>3, <1>6, <2>4 DEF N
<1> QED
  BY <1>5, <1>6

\* One sequence behind another.
LEMMA Joined ==
  ASSUME NEW s \in Seq(Int), NEW t \in Seq(Int), NEW w, w = s \o t
  PROVE  /\ w \in Seq(Int) /\ Len(w) = Len(s) + Len(t)
         /\ \A i \in 1 .. Len(s) : w[i] = s[i]
         /\ \A i \in 1 .. Len(t) : w[Len(s) + i] = t[i]
<1> DEFINE p == Len(s)
           q == Len(t)
<1>1. p \in Nat /\ q \in Nat
  BY LenProperties
<1>2. /\ w \in Seq(Int) /\ Len(w) = p + q
      /\ \A i \in 1 .. p + q : w[i] = IF i <= p THEN s[i] ELSE t[i - p]
  BY ConcatProperties
<1> HIDE DEF p, q
<1>3. \A i \in 1 .. p : w[i] = s[i]
  BY <1>1, <1>2
<1>4. \A i \in 1 .. q : w[p + i] = t[i]
  <2> TAKE i \in 1 .. q
  <2>1. p + i \in 1 .. p + q /\ ~(p + i <= p) /\ (p + i) - p = i
    BY <1>1
  <2> QED
    BY <1>2, <2>1
<1> QED
  BY <1>2, <1>3, <1>4 DEF p, q

\* A head and behind it items of k fields each.
AllOf(s, k) == \A i \in 1 .. Len(s) : Len(s[i]) = k
HeadThenItems(w, h, s, k) ==
  /\ w \in Seq(Int) /\ Len(w) = Len(h) + k * Len(s)
  /\ \A i \in 1 .. Len(h) : w[i] = h[i]
  /\ \A m \in 1 .. Len(s) : \A j \in 1 .. k : w[Len(h) + k * (m - 1) + j] = s[m][j]

LEMMA HeadAndItems ==
  ASSUME NEW k \in {2, 7}, NEW h \in Seq(Int), NEW s \in Seq(Seq(Int)), AllOf(s, k)
  PROVE  HeadThenItems(h \o FlattenSeq(s), h, s, k)
<1> DEFINE w == h \o FlattenSeq(s)
<1>0. \A i \in 1 .. Len(s) : Len(s[i]) = k
  BY DEF AllOf
<1>1. /\ FlattenSeq(s) \in Seq(Int) /\ Len(FlattenSeq(s)) = k * Len(s)
      /\ \A m \in 1 .. Len(s) : \A j \in 1 .. k : FlattenSeq(s)[k * (m - 1) + j] = s[m][j]
  BY <1>0, Flattened
<1> DEFINE f == FlattenSeq(s)
           H == Len(h)
           N == Len(s)
           F == Len(f)
<1>2. H \in Nat /\ N \in Nat
  BY LenProperties
<1>3. f \in Seq(Int) /\ w = h \o f
  BY <1>1
<1>4. F = k * N /\ \A m \in 1 .. N : \A j \in 1 .. k : f[k * (m - 1) + j] = s[m][j]
  BY <1>1
<1> HIDE DEF f
<1> HIDE DEF w
<1>5. /\ w \in Seq(Int) /\ Len(w) = H + F /\ \A i \in 1 .. H : w[i] = h[i]
      /\ \A x \in 1 .. F : w[H + x] = f[x]
  BY <1>3, Joined
<1> HIDE DEF H, N, F
<1>6. ASSUME NEW m \in 1 .. N, NEW j \in 1 .. k
      PROVE  w[H + k * (m - 1) + j] = s[m][j]
  <2> DEFINE x == k * (m - 1) + j
  <2>1. x \in 1 .. k * N /\ H + k * (m - 1) + j = H + x
    BY <1>2
  <2>2. w[H + x] = f[x]
    <3> HIDE DEF x
    <3> QED
      BY <1>4, <1>5, <2>1
  <2>3. f[x] = s[m][j]
    BY <1>4
  <2> QED
    BY <2>1, <2>2, <2>3
<1>7. HeadThenItems(w, h, s, k)
  BY <1>4, <1>5, <1>6 DEF H, N, HeadThenItems
<1> QED
  BY <1>7 DEF w

LEMMA BatchMeant ==
  ASSUME NEW v \in Handed("batch")
  PROVE  ReadBack("batch", Written("batch", v)) = Meant("batch", v)
<1> DEFINE n == Len(v.fixes)
           s == [i \in DOMAIN v.fixes |-> WriteFixFields(v.fixes[i])]
           h == <<n, v.id>>
           w == h \o FlattenSeq(s)
           meant == [i \in DOMAIN v.fixes |-> FixMeant(v.fixes[i])]
<1>1. v \in [id : Int, fixes : Seq(RadioFixes)] /\ n \in BatchFrame.counts
  BY DEF Handed
<1>2. n \in Nat /\ DOMAIN v.fixes = 1 .. n /\ \A i \in 1 .. n : v.fixes[i] \in RadioFixes
  BY <1>1, LenProperties, ElementOfSeq
<1> HIDE DEF n
<1>3. s \in Seq(Seq(Int)) /\ Len(s) = n /\ \A i \in 1 .. n : s[i] = WriteFixFields(v.fixes[i]) /\ Len(s[i]) = 7
  <2>1. \A i \in 1 .. n : s[i] = WriteFixFields(v.fixes[i]) /\ s[i] \in Seq(Int) /\ Len(s[i]) = 7
    BY <1>2, FixFieldsAre
  <2>2. s \in [1 .. n -> Seq(Int)]
    BY <1>2, <2>1
  <2> HIDE DEF s
  <2>3. s \in Seq(Seq(Int))
    BY <1>2, <2>2, SeqDef
  <2> QED
    BY <1>2, <2>1, <2>2, <2>3, LenProperties
<1>4. h \in Seq(Int) /\ Len(h) = 2 /\ h[1] = n /\ h[2] = v.id
  BY <1>1, <1>2
<1>5. Written("batch", v) = w
  BY DEF Written, EncodeBatch, n
<1> HIDE DEF s, h
<1>6. /\ w \in Seq(Int) /\ Len(w) = 2 + 7 * n /\ w[1] = n /\ w[2] = v.id
      /\ \A m \in 1 .. n : \A j \in 1 .. 7 : w[2 + 7 * (m - 1) + j] = s[m][j]
  <2> DEFINE k == 7
  <2>1. w = h \o FlattenSeq(s) /\ k \in {2, 7}
    OBVIOUS
  <2> HIDE DEF w
  <2>2. h \in Seq(Int) /\ s \in Seq(Seq(Int)) /\ AllOf(s, k)
    BY <1>3, <1>4 DEF AllOf
  <2> HIDE DEF k
  <2>0. HeadThenItems(w, h, s, k)
    BY <2>1, <2>2, HeadAndItems
  <2>3. /\ w \in Seq(Int) /\ Len(w) = Len(h) + k * Len(s)
        /\ \A i \in 1 .. Len(h) : w[i] = h[i]
        /\ \A m \in 1 .. Len(s) : \A j \in 1 .. k : w[Len(h) + k * (m - 1) + j] = s[m][j]
    BY <2>0 DEF HeadThenItems
  <2>4. /\ w \in Seq(Int) /\ Len(w) = 2 + k * n /\ w[1] = n /\ w[2] = v.id
        /\ \A m \in 1 .. n : \A j \in 1 .. k : w[2 + k * (m - 1) + j] = s[m][j]
    BY <1>3, <1>4, <2>3
  <2> QED
    BY <2>4 DEF k
<1> HIDE DEF w
<1>7. ASSUME NEW i \in 1 .. n
      PROVE  ReadFixFields(SubSeq(w, 7 * i - 4, 7 * i + 2)) = FixMeant(v.fixes[i])
  <2> DEFINE u == SubSeq(w, 7 * i - 4, 7 * i + 2)
  <2>1. \A x \in 7 * i - 4 .. 7 * i + 2 : x \in 1 .. Len(w)
    BY <1>2, <1>6
  <2>2. \A x \in 7 * i - 4 .. 7 * i + 2 : w[x] \in Int
    BY <2>1, <1>6, ElementOfSeq
  <2>3. 7 * i - 4 \in Int /\ 7 * i + 2 \in Int /\ (7 * i + 2) - (7 * i - 4) + 1 = 7
    BY <1>2
  <2>4. \A j \in 1 .. 7 : u[j] = w[(7 * i - 4) + j - 1]
    BY <2>2, <2>3, SubSeqProperties
  <2> HIDE DEF u
  <2>5. \A j \in 1 .. 7 : (7 * i - 4) + j - 1 = 2 + 7 * (i - 1) + j
    BY <1>2
  <2>6. \A j \in 1 .. 7 : u[j] = WriteFixFields(v.fixes[i])[j]
    BY <2>4, <2>5, <1>3, <1>6
  <2>7. v.fixes[i] \in RadioFixes
    BY <1>2
  <2>8. ReadFixFields(u) = FixMeant(v.fixes[i])
    BY <2>6, <2>7, FixReadFrom
  <2> QED
    BY <2>8 DEF u
<1>8. [i \in 1 .. n |-> ReadFixFields(SubSeq(w, 7 * i - 4, 7 * i + 2))] = meant
  BY <1>2, <1>7
<1>9. ReadBack("batch", w) = [id |-> v.id, fixes |-> meant]
  <2>1. ReadBack("batch", w) = DecodeBatch(w)
    BY DEF ReadBack
  <2>2. w[1] \in BatchFrame.counts
    BY <1>1, <1>6 DEF n
  <2> QED
    BY <2>1, <2>2, <1>6, <1>8 DEF DecodeBatch
<1>10. Meant("batch", v) = [v EXCEPT !.fixes = meant]
  BY DEF Meant
<1> HIDE DEF meant
<1>11. [v EXCEPT !.fixes = meant] = [id |-> v.id, fixes |-> meant]
  BY <1>1
<1> QED
  BY <1>5, <1>9, <1>10, <1>11

-----------------------------------------------------------------------------
(* Marks, power commands and the slot table.                                *)

\* Pairs of numbers are sequences of two.
LEMMA PairsAre ==
  ASSUME NEW s \in Seq(Int \X Int)
  PROVE  /\ s \in Seq(Seq(Int)) /\ Len(s) \in Nat
         /\ \A i \in 1 .. Len(s) : Len(s[i]) = 2 /\ s[i] = <<s[i][1], s[i][2]>> /\ s[i][1] \in Int /\ s[i][2] \in Int
<1> DEFINE n == Len(s)
<1>1. n \in Nat /\ s \in [1 .. n -> Int \X Int]
  BY LenProperties
<1> HIDE DEF n
<1>2. ASSUME NEW p \in Int \X Int
      PROVE  p \in Seq(Int) /\ Len(p) = 2 /\ p = <<p[1], p[2]>> /\ p[1] \in Int /\ p[2] \in Int
  <2>1. p = <<p[1], p[2]>> /\ p[1] \in Int /\ p[2] \in Int
    OBVIOUS
  <2>2. <<p[1], p[2]>> \in Seq(Int) /\ Len(<<p[1], p[2]>>) = 2
    BY <2>1
  <2> QED
    BY <2>1, <2>2, Zenon
<1>3. \A i \in 1 .. n : s[i] \in Int \X Int
  BY <1>1
<1>4. \A i \in 1 .. n : Len(s[i]) = 2 /\ s[i] = <<s[i][1], s[i][2]>> /\ s[i][1] \in Int /\ s[i][2] \in Int
  BY <1>2, <1>3
<1>5. s \in [1 .. n -> Seq(Int)]
  <2>1. \A i \in 1 .. n : s[i] \in Seq(Int)
    BY <1>2, <1>3
  <2> QED
    BY <1>1, <2>1
<1>6. s \in Seq(Seq(Int))
  BY <1>1, <1>5, SeqDef
<1> QED
  BY <1>1, <1>4, <1>6 DEF n

LEMMA MarksMeant ==
  ASSUME NEW v \in Handed("marks")
  PROVE  ReadBack("marks", Written("marks", v)) = Meant("marks", v)
<1> DEFINE f == FlattenSeq(v.marks)
           h == <<v.ip, v.port, v.adminPort, Bit(v.gate), v.name>>
           w == f \o h
<1>1. /\ v \in [marks : Seq(Int \X Int), ip : Int, port : Uint16, adminPort : Uint16, gate : BOOLEAN, name : Int]
      /\ Len(v.marks) = 8
  BY DEF Handed, MarkCount
<1>2. \A i \in 1 .. 8 : v.marks[i] = <<v.marks[i][1], v.marks[i][2]>>
  BY <1>1, PairsAre
<1>3. f \in Seq(Int) /\ Len(f) = 16 /\ \A m \in 1 .. 8 : f[2 * m - 1] = v.marks[m][1] /\ f[2 * m] = v.marks[m][2]
  <2> DEFINE k == 2
             M == Len(v.marks)
  <2>1. v.marks \in Seq(Seq(Int)) /\ k \in {2, 7} /\ \A i \in 1 .. Len(v.marks) : Len(v.marks[i]) = k
    BY <1>1, PairsAre
  <2> HIDE DEF k
  <2>2. f \in Seq(Int) /\ Len(f) = k * M /\ \A m \in 1 .. M : \A j \in 1 .. k : f[k * (m - 1) + j] = v.marks[m][j]
    BY <2>1, Flattened
  <2> HIDE DEF f
  <2>3. ASSUME NEW m \in 1 .. M
        PROVE  f[2 * m - 1] = v.marks[m][1] /\ f[2 * m] = v.marks[m][2]
    <3>1. 1 \in 1 .. k /\ 2 \in 1 .. k
      BY DEF k
    <3>2. f[k * (m - 1) + 1] = v.marks[m][1] /\ f[k * (m - 1) + 2] = v.marks[m][2]
      BY <2>2, <3>1
    <3>3. k * (m - 1) + 1 = 2 * m - 1 /\ k * (m - 1) + 2 = 2 * m
      BY DEF k
    <3> QED
      BY <3>2, <3>3
  <2>4. M = 8
    BY <1>1
  <2> HIDE DEF M
  <2> QED
    BY <2>2, <2>3, <2>4 DEF k
<1>4. v.port \in Int /\ v.adminPort \in Int /\ Bit(v.gate) \in Int /\ (Bit(v.gate) = 1) = v.gate
  BY <1>1, BitIs, Bytes16
<1>5. /\ h \in Seq(Int) /\ Len(h) = 5
      /\ h[1] = v.ip /\ h[2] = v.port /\ h[3] = v.adminPort /\ h[4] = Bit(v.gate) /\ h[5] = v.name
  BY <1>1, <1>4
<1>6. Written("marks", v) = w
  BY DEF Written, EncodeMarks
<1> HIDE DEF f, h
<1>7. /\ w \in Seq(Int) /\ Len(w) = 21 /\ \A x \in 1 .. 16 : w[x] = f[x]
      /\ w[17] = h[1] /\ w[18] = h[2] /\ w[19] = h[3] /\ w[20] = h[4] /\ w[21] = h[5]
  <2>1. f \in Seq(Int) /\ h \in Seq(Int) /\ w = f \o h
    BY <1>3, <1>5
  <2> HIDE DEF w
  <2>2. /\ w \in Seq(Int) /\ Len(w) = Len(f) + Len(h)
        /\ \A i \in 1 .. Len(f) : w[i] = f[i]
        /\ \A i \in 1 .. Len(h) : w[Len(f) + i] = h[i]
    BY <2>1, Joined
  <2>3. 1 \in 1 .. Len(h) /\ 2 \in 1 .. Len(h) /\ 3 \in 1 .. Len(h) /\ 4 \in 1 .. Len(h) /\ 5 \in 1 .. Len(h)
    BY <1>5
  <2>4. w[16 + 1] = h[1] /\ w[16 + 2] = h[2] /\ w[16 + 3] = h[3] /\ w[16 + 4] = h[4] /\ w[16 + 5] = h[5]
    BY <2>2, <2>3, <1>3
  <2> QED
    BY <2>2, <2>4, <1>3, <1>5
<1> HIDE DEF w
<1> DEFINE marks == [i \in 1 .. 8 |-> <<w[2 * i - 1], w[2 * i]>>]
<1>8. marks = v.marks
  <2>1. ASSUME NEW i \in 1 .. 8
        PROVE  <<w[2 * i - 1], w[2 * i]>> = v.marks[i]
    <3>1. 2 * i - 1 \in 1 .. 16 /\ 2 * i \in 1 .. 16
      OBVIOUS
    <3>2. w[2 * i - 1] = f[2 * i - 1] /\ w[2 * i] = f[2 * i]
      BY <3>1, <1>7
    <3>3. w[2 * i - 1] = v.marks[i][1] /\ w[2 * i] = v.marks[i][2]
      BY <3>2, <1>3
    <3> QED
      BY <3>3, <1>2
  <2>2. v.marks = [i \in 1 .. 8 |-> v.marks[i]]
    <3>1. v.marks \in [1 .. 8 -> Int \X Int]
      BY <1>1, LenProperties
    <3> QED
      BY <3>1
  <2> QED
    BY <2>1, <2>2
<1>9. ReadBack("marks", w) = [marks |-> marks, ip |-> v.ip, port |-> v.port, adminPort |-> v.adminPort,
                              gate |-> v.gate, name |-> v.name]
  <2>1. ReadBack("marks", w) = DecodeMarks(w)
    BY DEF ReadBack
  <2>2. (Len(w) - 5) \div 2 = 8
    BY <1>7
  <2> DEFINE n == (Len(w) - 5) \div 2
  <2>3. DecodeMarks(w) = [marks |-> [i \in 1 .. n |-> <<w[2 * i - 1], w[2 * i]>>], ip |-> w[2 * n + 1], port |-> w[2 * n + 2],
                          adminPort |-> w[2 * n + 3], gate |-> w[2 * n + 4] = 1, name |-> w[2 * n + 5]]
    BY DEF DecodeMarks
  <2> HIDE DEF n
  <2>4. n = 8 /\ 2 * n + 1 = 17 /\ 2 * n + 2 = 18 /\ 2 * n + 3 = 19 /\ 2 * n + 4 = 20 /\ 2 * n + 5 = 21
    BY <2>2 DEF n
  <2>5. marks = [i \in 1 .. n |-> <<w[2 * i - 1], w[2 * i]>>]
    BY <2>4
  <2> HIDE DEF marks
  <2>6. DecodeMarks(w) = [marks |-> marks, ip |-> w[17], port |-> w[18], adminPort |-> w[19], gate |-> w[20] = 1, name |-> w[21]]
    BY <2>3, <2>4, <2>5
  <2> QED
    BY <2>1, <2>6, <1>4, <1>5, <1>7
<1> HIDE DEF marks
<1>10. v = [marks |-> v.marks, ip |-> v.ip, port |-> v.port, adminPort |-> v.adminPort, gate |-> v.gate, name |-> v.name]
  BY <1>1
<1>11. Meant("marks", v) = v
  BY DEF Meant
<1> QED
  BY <1>6, <1>8, <1>9, <1>10, <1>11

LEMMA PowerMeant ==
  ASSUME NEW v \in Handed("power")
  PROVE  ReadBack("power", Written("power", v)) = Meant("power", v)
<1> DEFINE a == IF v.action = "sleep" THEN 1 ELSE 2
           n == Len(v.ids)
           h == <<a, v.sleepS, n>>
           w == h \o v.ids
<1>1. /\ v \in [action : {"sleep", "wake"}, sleepS : Uint8, ids : Seq(Int)] /\ n \in PowerFrame.counts
      /\ v.sleepS \in Int /\ n \in Nat
  BY Bytes8, LenProperties DEF Handed
<1>2. h \in Seq(Int) /\ Len(h) = 3 /\ h[1] = a /\ h[2] = v.sleepS /\ h[3] = n
  BY <1>1
<1>3. Written("power", v) = w
  BY DEF Written, EncodePower
<1>4. a \in {1, 2} /\ (IF a = 1 THEN "sleep" ELSE "wake") = v.action
  BY <1>1
<1>5. (n = 0) = (v.ids = <<>>)
  BY <1>1, EmptySeq
<1> HIDE DEF h, a, n
<1>6. /\ w \in Seq(Int) /\ Len(w) = 3 + n /\ w[1] = a /\ w[2] = v.sleepS /\ w[3] = n
      /\ \A i \in 1 .. n : w[3 + i] = v.ids[i]
  <2>1. h \in Seq(Int) /\ v.ids \in Seq(Int) /\ w = h \o v.ids
    BY <1>1, <1>2
  <2> HIDE DEF w
  <2>2. /\ w \in Seq(Int) /\ Len(w) = Len(h) + Len(v.ids)
        /\ \A i \in 1 .. Len(h) : w[i] = h[i]
        /\ \A i \in 1 .. Len(v.ids) : w[Len(h) + i] = v.ids[i]
    BY <2>1, Joined
  <2>3. 1 \in 1 .. Len(h) /\ 2 \in 1 .. Len(h) /\ 3 \in 1 .. Len(h)
    BY <1>2
  <2>4. w[1] = h[1] /\ w[2] = h[2] /\ w[3] = h[3]
    BY <2>2, <2>3
  <2> QED
    BY <1>2, <2>2, <2>4 DEF n
<1> HIDE DEF w
<1>7. SubSeq(w, 4, Len(w)) = v.ids
  <2> DEFINE u == SubSeq(w, 4, Len(w))
  <2>1. \A x \in 4 .. 3 + n : x \in 1 .. Len(w)
    BY <1>1, <1>6
  <2>2. \A x \in 4 .. 3 + n : w[x] \in Int
    BY <2>1, <1>6, ElementOfSeq
  <2>3. 3 + n \in Int /\ (3 + n) - 4 + 1 = n /\ (4 <= 3 + n \/ n = 0)
    BY <1>1
  <2>4. u \in Seq(Int) /\ Len(u) = n /\ \A i \in 1 .. n : u[i] = w[4 + i - 1]
    BY <2>2, <2>3, <1>6, SubSeqProperties
  <2>5. \A i \in 1 .. n : 4 + i - 1 = 3 + i
    BY <1>1
  <2> HIDE DEF u
  <2>6. Len(u) = Len(v.ids) /\ \A i \in 1 .. Len(u) : u[i] = v.ids[i]
    BY <2>4, <2>5, <1>6 DEF n
  <2>7. u = v.ids
    BY <2>4, <2>6, <1>1, SeqEqual
  <2> QED
    BY <2>7 DEF u
<1>8. ReadBack("power", w) = [action |-> v.action, sleepS |-> v.sleepS, all |-> n = 0, ids |-> v.ids]
  <2>1. ReadBack("power", w) = DecodePower(w)
    BY DEF ReadBack
  <2>2. w[3] \in PowerFrame.counts
    BY <1>1, <1>6
  <2> QED
    BY <2>1, <2>2, <1>4, <1>6, <1>7 DEF DecodePower
<1>9. Meant("power", v) = [action |-> v.action, sleepS |-> v.sleepS, ids |-> v.ids, all |-> v.ids = <<>>]
  BY DEF Meant
<1> QED
  BY <1>3, <1>5, <1>8, <1>9

LEMMA SlotTableMeant ==
  ASSUME NEW v \in Handed("slotTable")
  PROVE  /\ ReadBack("slotTable", Written("slotTable", v)) = Meant("slotTable", v)
         /\ Written("slotTable", v) \in Seq(Int) /\ Len(Written("slotTable", v)) >= 5
<1> DEFINE n == Len(v.entries)
           x == v.version + 128 * Bit(v.practice)
           h == <<x, v.slotCount, v.width, v.joinSlots, n>>
           w == h \o FlattenSeq(v.entries)
           top == v.slotCount - v.joinSlots
<1>1. /\ v \in Tables /\ n \in SlotTableFrame.counts /\ v.joinSlots < v.slotCount
      /\ \A i \in DOMAIN v.entries : v.entries[i][2] < top
  BY DEF Handed
<1>2. /\ v.version \in Nat /\ v.version < 128 /\ v.practice \in BOOLEAN /\ v.slotCount \in Int /\ v.slotCount >= 1
      /\ v.width \in Int /\ v.width >= 1 /\ v.joinSlots \in Int
  <2>1. \A y \in Uint8 \ {0} : y \in Int /\ y >= 1
    BY Bytes8
  <2>2. \A y \in 0 .. 127 : y \in Nat /\ y < 128
    OBVIOUS
  <2> QED
    BY <1>1, <2>1, <2>2, Bytes8 DEF Tables
<1>3. v.entries \in Seq(Int \X Nat) /\ v.entries \in Seq(Int \X Int) /\ n \in Nat /\ DOMAIN v.entries = 1 .. n
  <2>1. v.entries \in Seq(Int \X Nat)
    BY <1>1 DEF Tables
  <2>2. n \in Nat /\ DOMAIN v.entries = 1 .. n /\ v.entries \in [1 .. n -> Int \X Nat]
    BY <2>1, LenProperties
  <2>3. v.entries \in [1 .. n -> Int \X Int]
    BY <2>2
  <2> QED
    BY <2>1, <2>2, <2>3, SeqDef
<1>4. /\ v.entries \in Seq(Seq(Int))
      /\ \A i \in 1 .. n : /\ Len(v.entries[i]) = 2 /\ v.entries[i] = <<v.entries[i][1], v.entries[i][2]>>
                           /\ v.entries[i][2] \in Int
  BY <1>3, PairsAre
<1>5. x \in Nat /\ x % 128 = v.version /\ (x >= 128) = v.practice
  BY <1>2, BitIs, BitOnTop
<1> HIDE DEF n, x
<1>6. h \in Seq(Int) /\ Len(h) = 5 /\ h[1] = x /\ h[2] = v.slotCount /\ h[3] = v.width /\ h[4] = v.joinSlots /\ h[5] = n
  BY <1>2, <1>3, <1>5
<1>7. Written("slotTable", v) = w
  BY DEF Written, EncodeSlotTable, x, n
<1> HIDE DEF h
<1>8. /\ w \in Seq(Int) /\ Len(w) = 5 + 2 * n
      /\ w[1] = x /\ w[2] = v.slotCount /\ w[3] = v.width /\ w[4] = v.joinSlots /\ w[5] = n
      /\ \A i \in 1 .. n : w[2 * i + 4] = v.entries[i][1] /\ w[2 * i + 5] = v.entries[i][2]
  <2> DEFINE k == 2
  <2>1. w = h \o FlattenSeq(v.entries) /\ k \in {2, 7}
    OBVIOUS
  <2> HIDE DEF w
  <2>2. h \in Seq(Int) /\ v.entries \in Seq(Seq(Int)) /\ AllOf(v.entries, k)
    BY <1>4, <1>6 DEF AllOf, n
  <2> HIDE DEF k
  <2>3. HeadThenItems(w, h, v.entries, k)
    BY <2>1, <2>2, HeadAndItems
  <2>4. /\ w \in Seq(Int) /\ Len(w) = Len(h) + k * Len(v.entries)
        /\ \A i \in 1 .. Len(h) : w[i] = h[i]
        /\ \A m \in 1 .. Len(v.entries) : \A j \in 1 .. k : w[Len(h) + k * (m - 1) + j] = v.entries[m][j]
    BY <2>3 DEF HeadThenItems
  <2>5. w[1] = h[1] /\ w[2] = h[2] /\ w[3] = h[3] /\ w[4] = h[4] /\ w[5] = h[5]
    <3>1. 1 \in 1 .. Len(h) /\ 2 \in 1 .. Len(h) /\ 3 \in 1 .. Len(h) /\ 4 \in 1 .. Len(h) /\ 5 \in 1 .. Len(h)
      BY <1>6
    <3> QED
      BY <3>1, <2>4
  <2>6. ASSUME NEW i \in 1 .. n
        PROVE  w[2 * i + 4] = v.entries[i][1] /\ w[2 * i + 5] = v.entries[i][2]
    <3>1. 1 \in 1 .. k /\ 2 \in 1 .. k
      BY DEF k
    <3>2. w[Len(h) + k * (i - 1) + 1] = v.entries[i][1] /\ w[Len(h) + k * (i - 1) + 2] = v.entries[i][2]
      BY <2>4, <3>1 DEF n
    <3>3. Len(h) + k * (i - 1) + 1 = 2 * i + 4 /\ Len(h) + k * (i - 1) + 2 = 2 * i + 5
      BY <1>3, <1>6 DEF k
    <3> QED
      BY <3>2, <3>3
  <2>7. Len(w) = 5 + 2 * n
    BY <2>4, <1>6 DEF k, n
  <2> QED
    BY <2>4, <2>5, <2>6, <2>7, <1>6
<1> HIDE DEF w
<1>10. [i \in 1 .. n |-> <<w[2 * i + 4], w[2 * i + 5]>>] = v.entries
  <2>1. v.entries = [i \in 1 .. n |-> v.entries[i]]
    <3>1. v.entries \in [1 .. n -> Int \X Int]
      BY <1>3, LenProperties DEF n
    <3> QED
      BY <3>1
  <2>2. \A i \in 1 .. n : <<w[2 * i + 4], w[2 * i + 5]>> = v.entries[i]
    BY <1>4, <1>8
  <2> QED
    BY <2>1, <2>2
<1>11. \A i \in 1 .. n : ~(w[2 * i + 5] >= w[2] - w[4])
  <2> TAKE i \in 1 .. n
  <2>1. v.entries[i][2] < top /\ v.entries[i][2] \in Int
    BY <1>1, <1>3, <1>4
  <2> DEFINE e == v.entries[i][2]
  <2>2. w[2 * i + 5] = e /\ w[2] = v.slotCount /\ w[4] = v.joinSlots
    BY <1>8
  <2>3. e \in Int /\ e < v.slotCount - v.joinSlots /\ v.slotCount \in Int /\ v.joinSlots \in Int
    BY <2>1, <1>2
  <2> HIDE DEF e
  <2> QED
    BY <2>2, <2>3
<1>12. ReadBack("slotTable", w) = [version |-> v.version, practice |-> v.practice, slotCount |-> v.slotCount,
                                   width |-> v.width, joinSlots |-> v.joinSlots, entries |-> v.entries]
  <2>1. ReadBack("slotTable", w) = DecodeSlotTable(w)
    BY DEF ReadBack
  <2>2. /\ w[5] \in SlotTableFrame.counts /\ Len(w) = 5 + 2 * w[5]
        /\ ~(w[2] < 1) /\ ~(w[3] < 1) /\ ~(w[4] >= w[2])
    <3>1. n \in SlotTableFrame.counts /\ v.joinSlots < v.slotCount
      BY <1>1
    <3>2. w[5] \in SlotTableFrame.counts /\ Len(w) = 5 + 2 * w[5]
      BY <3>1, <1>8
    <3>3. ~(w[2] < 1)
      BY <1>2, <1>8
    <3>4. ~(w[3] < 1)
      BY <1>2, <1>8
    <3>5. ~(w[4] >= w[2])
      BY <3>1, <1>2, <1>8
    <3> QED
      BY <3>2, <3>3, <3>4, <3>5
  <2>3. ~\E i \in 1 .. w[5] : w[2 * i + 5] >= w[2] - w[4]
    BY <1>8, <1>11
  <2>4. DecodeSlotTable(w) = [version |-> w[1] % 128, practice |-> w[1] >= 128, slotCount |-> w[2], width |-> w[3],
                              joinSlots |-> w[4], entries |-> [i \in 1 .. w[5] |-> <<w[2 * i + 4], w[2 * i + 5]>>]]
    BY <2>2, <2>3 DEF DecodeSlotTable
  <2> QED
    BY <2>1, <2>4, <1>5, <1>8, <1>10
<1>13. v = [version |-> v.version, practice |-> v.practice, slotCount |-> v.slotCount,
            width |-> v.width, joinSlots |-> v.joinSlots, entries |-> v.entries]
  BY <1>1 DEF Tables
<1>14. Meant("slotTable", v) = v
  BY DEF Meant
<1> QED
  BY <1>3, <1>7, <1>8, <1>12, <1>13, <1>14

-----------------------------------------------------------------------------
(* What a reader makes of fields that are not as they were written.         *)

\* The kinds whose readers refuse what their handlers cannot use, and the fields they look at for it.
CheckedKinds == {"setMark", "schedule", "slotTable"}
Enough(kind, w) ==
  kind \in CheckedKinds => w \in Seq(Int) /\ Len(w) >= (IF kind = "schedule" THEN 14 ELSE 5)

LEMMA OthersAreUsable ==
  ASSUME NEW kind \in SentKinds \ CheckedKinds, NEW w
  PROVE  Usable(ReadBack(kind, w))
<1>1. CASE kind = "position"
  BY <1>1 DEF ReadBack, Decode, Usable
<1>2. CASE kind = "marks"
  BY <1>2 DEF ReadBack, DecodeMarks, Usable
<1>3. CASE kind = "ping"
  BY <1>3 DEF ReadBack, DecodePing, Usable
<1>4. CASE kind = "hello"
  BY <1>4 DEF ReadBack, DecodeHello, Usable
<1>5. CASE kind = "markLog"
  BY <1>5 DEF ReadBack, DecodeMarkLog, Usable
<1>6. CASE kind = "status"
  BY <1>6 DEF ReadBack, DecodeStatusHello, Usable
<1>7. CASE kind = "batch"
  BY <1>7 DEF ReadBack, DecodeBatch, Usable, Unread
<1>8. CASE kind = "power"
  BY <1>8 DEF ReadBack, DecodePower, Usable, Unread
<1> QED
  BY <1>1, <1>2, <1>3, <1>4, <1>5, <1>6, <1>7, <1>8 DEF SentKinds, CheckedKinds

\* Whatever the fields are, a reader refuses the frame or makes of it what its handlers can use.
LEMMA ReadIsUsable ==
  ASSUME NEW kind \in SentKinds, NEW w, Enough(kind, w), ReadBack(kind, w) # Unread
  PROVE  Usable(ReadBack(kind, w))
<1> DEFINE got == ReadBack(kind, w)
<1>1. CASE kind = "setMark"
  <2>1. w[2] \in Int /\ MarkCount \in Int
    BY <1>1, LenProperties DEF Enough, CheckedKinds, MarkCount
  <2>2. got = DecodeSetMark(w)
    BY <1>1 DEF ReadBack
  <2>3. /\ ~(w[2] >= MarkCount) /\ w[4] \in Latitudes
        /\ got = [id |-> w[1], mark |-> w[2], continuous |-> w[3] = 1, lat |-> w[4], lon |-> w[5]]
    BY <2>2 DEF DecodeSetMark
  <2>4. w[2] < MarkCount
    BY <2>1, <2>3
  <2> HIDE DEF got
  <2>5. Usable(got)
    BY <2>3, <2>4 DEF Usable
  <2> QED
    BY <2>5 DEF got
<1>2. CASE kind = "schedule"
  <2>1. w[5] \in Int
    BY <1>2, LenProperties DEF Enough, CheckedKinds
  <2>2. got = DecodePowerSchedule(w)
    BY <1>2 DEF ReadBack
  <2> DEFINE part == IF w[1] % 2 = 0 THEN NoPart
                     ELSE [managed |-> TRUE, mode |-> w[2] % 4, halts |-> w[2] >= 128,
                           start |-> w[5] % 1440, end |-> w[6] % 1440, lat |-> w[7], lon |-> w[8],
                           before |-> w[9], after |-> w[10], days |-> w[11]]
             other == IF (w[1] \div 2) % 2 = 0 THEN NoPart
                      ELSE [managed |-> TRUE, enabled |-> w[3] % 2 = 1, whenIdle |-> (w[3] \div 2) % 2 = 1,
                            time |-> w[12] % 1440, idle |-> w[13], speed |-> w[14]]
  <2>3. w[2] % 4 \in WittyModes /\ got = [stamp |-> w[4], witty |-> part, shutdown |-> other]
    BY <2>2 DEF DecodePowerSchedule
  <2>4. part = NoPart \/ (part.mode \in WittyModes /\ part.start < 1440)
    <3>1. w[5] % 1440 < 1440
      BY <2>1
    <3> QED
      BY <3>1, <2>3
  <2> HIDE DEF got, part, other
  <2>5. Usable(got)
    BY <2>3, <2>4 DEF Usable
  <2> QED
    BY <2>5 DEF got
<1>3. CASE kind = "slotTable"
  <2>1. w[5] \in Int /\ w[4] \in Int /\ w[2] \in Int
    BY <1>3, LenProperties DEF Enough, CheckedKinds
  <2>2. got = DecodeSlotTable(w)
    BY <1>3 DEF ReadBack
  <2> DEFINE n == w[5]
             entries == [i \in 1 .. n |-> <<w[2 * i + 4], w[2 * i + 5]>>]
  <2>3. /\ n \in SlotTableFrame.counts /\ Len(w) = 5 + 2 * n /\ \A i \in 1 .. n : ~(w[2 * i + 5] >= w[2] - w[4])
        /\ got = [version |-> w[1] % 128, practice |-> w[1] >= 128, slotCount |-> w[2], width |-> w[3], joinSlots |-> w[4],
                  entries |-> entries]
    BY <2>2 DEF DecodeSlotTable
  <2>4. \A i \in 1 .. n : entries[i][2] < w[2] - w[4]
    <3> TAKE i \in 1 .. n
    <3>1. 2 * i + 5 \in 1 .. Len(w)
      BY <2>1, <2>3
    <3>2. w \in Seq(Int)
      BY <1>3 DEF Enough, CheckedKinds
    <3>3. w[2 * i + 5] \in Int
      BY <3>1, <3>2, ElementOfSeq
    <3>4. ~(w[2 * i + 5] >= w[2] - w[4]) /\ entries[i][2] = w[2 * i + 5]
      BY <2>3
    <3> HIDE DEF entries
    <3> QED
      BY <3>3, <3>4, <2>1
  <2>5. DOMAIN entries = 1 .. n
    OBVIOUS
  <2> HIDE DEF got, entries
  <2>6. Usable(got)
    BY <2>3, <2>4, <2>5 DEF Usable
  <2> QED
    BY <2>6 DEF got
<1>4. CASE kind \notin CheckedKinds
  BY <1>4, OthersAreUsable
<1> QED
  BY <1>1, <1>2, <1>3, <1>4 DEF CheckedKinds

\* What any of the writers writes of what it is handed, its reader reads as meant.
LEMMA AllMeant ==
  ASSUME NEW kind \in SentKinds, NEW v \in Handed(kind)
  PROVE  ReadBack(kind, Written(kind, v)) = Meant(kind, v) /\ Enough(kind, Written(kind, v))
<1>1. CASE kind \in {"position", "marks", "ping", "hello"}
  BY <1>1, PositionMeant, MarksMeant, PingMeant, HelloMeant DEF Enough, CheckedKinds
<1>2. CASE kind \in {"status", "batch", "markLog", "power"}
  BY <1>2, StatusMeant, BatchMeant, MarkLogMeant, PowerMeant DEF Enough, CheckedKinds
<1>3. CASE kind = "setMark"
  <2>1. v \in Handed("setMark")
    BY <1>3
  <2>2. /\ ReadBack("setMark", Written("setMark", v)) = Meant("setMark", v)
        /\ Written("setMark", v) \in Seq(Int) /\ Len(Written("setMark", v)) = 5
    BY <2>1, SetMarkMeant
  <2> DEFINE w == Written("setMark", v)
  <2>3. w \in Seq(Int) /\ Len(w) = 5
    BY <2>2
  <2> HIDE DEF w
  <2>4. Len(w) >= 5
    BY <2>3
  <2>5. Enough("setMark", w)
    BY <2>3, <2>4 DEF Enough
  <2> QED
    BY <1>3, <2>2, <2>5 DEF w
<1>4. CASE kind = "schedule"
  <2>1. v \in Handed("schedule")
    BY <1>4
  <2>2. /\ ReadBack("schedule", Written("schedule", v)) = Meant("schedule", v)
        /\ Written("schedule", v) \in Seq(Int) /\ Len(Written("schedule", v)) = 14
    BY <2>1, ScheduleMeant
  <2> DEFINE w == Written("schedule", v)
  <2>3. w \in Seq(Int) /\ Len(w) = 14
    BY <2>2
  <2> HIDE DEF w
  <2>4. Len(w) >= 14
    BY <2>3
  <2>5. Enough("schedule", w)
    BY <2>3, <2>4 DEF Enough
  <2> QED
    BY <1>4, <2>2, <2>5 DEF w
<1>5. CASE kind = "slotTable"
  BY <1>5, SlotTableMeant DEF Enough
<1> QED
  BY <1>1, <1>2, <1>3, <1>4, <1>5 DEF SentKinds

-----------------------------------------------------------------------------
(* The invariant: a frame on its way is what was written, or damaged in a   *)
(* field that was there.                                                    *)

FrameInFlight ==
  /\ wire.kind \in SentKinds /\ wire.kind \in {v.kind : v \in FrameValues}
  /\ wire.intact \in BOOLEAN /\ Enough(wire.kind, wire.fields)
  /\ wire.intact => /\ wanted \in FrameValues /\ wire.kind = wanted.kind
                    /\ wire.fields = Written(wanted.kind, wanted.of)
KindInv ==
  /\ wanted \in FrameValues \cup {NoValue}
  /\ wire = NoFrame \/ FrameInFlight
  /\ ReadAsMeant

LEMMA ValuesHanded ==
  \A v \in FrameValues : v.kind \in SentKinds /\ v.of \in Handed(v.kind) /\ v # NoValue
<1> TAKE v \in FrameValues
<1>1. v.kind \in SentKinds /\ v.of \in Handed(v.kind)
  BY FrameValuesAssumption DEF FrameValuesAssumption
<1>2. NoValue.kind = "none"
  BY DEF NoValue
<1> QED
  BY <1>1, <1>2 DEF SentKinds

LEMMA KindInitInv == KindInit => KindInv
BY DEF KindInit, KindInv, ReadAsMeant

LEMMA WriteFrameStep ==
  ASSUME KindInv, NEW v \in FrameValues, WriteFrame(v)
  PROVE  KindInv'
<1> DEFINE w == Written(v.kind, v.of)
<1>1. v.kind \in SentKinds /\ Enough(v.kind, w)
  BY ValuesHanded, AllMeant
<1> HIDE DEF w
<1>2. wanted' = v /\ gotten' = Unread /\ wire' = [kind |-> v.kind, fields |-> w, intact |-> TRUE]
  BY DEF WriteFrame, w
<1>3. FrameInFlight'
  BY <1>1, <1>2 DEF FrameInFlight, w
<1>4. wire' # NoFrame
  BY <1>1, <1>2 DEF NoFrame, SentKinds
<1> QED
  BY <1>2, <1>3, <1>4 DEF KindInv, ReadAsMeant

LEMMA DamageFieldStep ==
  ASSUME KindInv, DamageField
  PROVE  KindInv'
<1>1. PICK i \in DOMAIN wire.fields, x \in Flips :
        wire' = [kind |-> wire.kind, fields |-> [wire.fields EXCEPT ![i] = x], intact |-> FALSE]
  BY DEF DamageField
<1>2. wire # NoFrame
  BY <1>1 DEF NoFrame
<1>3. FrameInFlight
  BY <1>2 DEF KindInv
<1> DEFINE w == [wire.fields EXCEPT ![i] = x]
<1>4. Enough(wire.kind, w)
  <2> SUFFICES ASSUME wire.kind \in CheckedKinds
               PROVE  w \in Seq(Int) /\ Len(w) = Len(wire.fields)
    BY <1>3 DEF FrameInFlight, Enough
  <2>1. wire.fields \in Seq(Int)
    BY <1>3 DEF FrameInFlight, Enough
  <2>2. x \in Int
    BY FrameValuesAssumption DEF FrameValuesAssumption
  <2> QED
    BY <2>1, <2>2, <1>1, ExceptSeq
<1> HIDE DEF w
<1>5. wire' = [kind |-> wire.kind, fields |-> w, intact |-> FALSE] /\ wanted' = wanted /\ gotten' = gotten
  BY <1>1 DEF DamageField, w
<1>6. FrameInFlight'
  BY <1>3, <1>4, <1>5 DEF FrameInFlight
<1>7. wire' # NoFrame
  BY <1>5 DEF NoFrame
<1> QED
  BY <1>5, <1>6, <1>7 DEF KindInv, ReadAsMeant

LEMMA ReadFrameBackStep ==
  ASSUME KindInv, ReadFrameBack
  PROVE  KindInv'
<1>1. FrameInFlight
  BY DEF KindInv, ReadFrameBack
<1>2. wire' = NoFrame /\ gotten' = ReadBack(wire.kind, wire.fields)
  BY DEF ReadFrameBack
<1>3. gotten' # Unread => Usable(gotten')
  BY <1>1, <1>2, ReadIsUsable DEF FrameInFlight
<1>4. CASE wire.intact
  <2>1. wanted' = wanted /\ wanted \in FrameValues
    BY <1>1, <1>4 DEF FrameInFlight, ReadFrameBack
  <2>2. gotten' = ReadBack(wanted.kind, Written(wanted.kind, wanted.of))
    BY <1>1, <1>2, <1>4 DEF FrameInFlight
  <2>3. gotten' = Meant(wanted.kind, wanted.of)
    BY <2>1, <2>2, ValuesHanded, AllMeant
  <2> QED
    BY <1>2, <1>3, <2>1, <2>3 DEF KindInv, ReadAsMeant
<1>5. CASE ~wire.intact
  <2>1. wanted' = NoValue
    BY <1>5 DEF ReadFrameBack
  <2> QED
    BY <1>2, <1>3, <2>1 DEF KindInv, ReadAsMeant
<1> QED
  BY <1>4, <1>5

LEMMA KindStepInv == KindInv /\ [KindNext]_kindVars => KindInv'
<1>1. ASSUME KindInv, UNCHANGED kindVars
      PROVE  KindInv'
  BY <1>1 DEF kindVars, KindInv, FrameInFlight, ReadAsMeant
<1> QED
  BY <1>1, WriteFrameStep, DamageFieldStep, ReadFrameBackStep DEF KindNext

LEMMA KindInvariant == KindSpec => []KindInv
BY KindInitInv, KindStepInv, PTL DEF KindSpec

\* Every frame of the radio is read as it was sent. A kind's reader gives back what its writer was
\* handed, cut to its fields (protocol.js), for every value the writers are handed and however many
\* fixes, boats or slots there are in it; damage that the checksum does not see makes no reader take a
\* mark, a slot or a mode that is none; and of a delta-coded batch no fix is far from the one held.
THEOREM FramesAreRead == DeltaSpec /\ KindSpec => []FramesReadAsSent
<1>1. KindInv => ReadAsMeant
  BY DEF KindInv
<1>2. DeltaSpec /\ KindSpec => [](DeltaIsClose /\ ReadAsMeant)
  BY <1>1, KindInvariant, DeltasAreClose, PTL
<1> QED
  BY <1>2 DEF FramesReadAsSent

\* The types of the frame on its way and of the value that was sent.
THEOREM KindTypesHold == KindSpec => []KindTypeOK
<1>1. KindInv => KindTypeOK
  <2> SUFFICES ASSUME KindInv
               PROVE  KindTypeOK
    OBVIOUS
  <2>1. CASE wire = NoFrame
    <3>1. wire.kind = "none" /\ wire.intact = TRUE
      BY <2>1 DEF NoFrame
    <3> QED
      BY <3>1 DEF KindInv, KindTypeOK
  <2>2. CASE FrameInFlight
    BY <2>2 DEF KindInv, FrameInFlight, KindTypeOK
  <2> QED
    BY <2>1, <2>2 DEF KindInv
<1> QED
  BY <1>1, KindInvariant, PTL

==============================================================================
