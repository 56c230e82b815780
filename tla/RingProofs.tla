----------------------------- MODULE RingProofs ------------------------------
(***************************************************************************)
(* The USB byte ring on its own: it never holds more than its capacity,    *)
(* never overwrites a byte the consumer may still read, keeps a peeked     *)
(* span stable and implements a queue of bytes, for every capacity         *)
(* usbring_init accepts, every modulus of the counters that is a multiple  *)
(* of it, and every transfer size.                                         *)
(***************************************************************************)
EXTENDS UsbRing, ModArith

\* Zenon is the prover of every step that names no other; the steps with
\* arithmetic name SMT, with time enough for the larger ones.
USE Zenon

\* The constants in the form the provers use, without the multiplication.
LEMMA ConstantFacts ==
  Capacity \in Nat \ {0} /\ Wrap \in Nat \ {0} /\ Wrap >= 2 * Capacity
  <1>1. PICK k \in 2 .. Wrap : Wrap = k * Capacity
    BY WrapAssumption
  <1> QED BY <1>1, CapacityAssumption, WrapAssumption, SMTT(30)

\* Sequences: the empty one, equality and concatenation.
LEMMA EmptySeqFacts ==
  ASSUME NEW S
  PROVE  /\ <<>> \in Seq(S) /\ Len(<<>>) = 0
         /\ \A q \in Seq(S) : Len(q) = 0 => q = <<>>
  BY SMTT(30)

LEMMA SeqsEqual ==
  ASSUME NEW S, NEW p \in Seq(S), NEW q \in Seq(S),
         Len(p) = Len(q), \A i \in 1 .. Len(p) : p[i] = q[i]
  PROVE  p = q
  BY SMTT(30)

LEMMA ConcatFacts ==
  ASSUME NEW S, NEW p \in Seq(S), NEW q \in Seq(S)
  PROVE  /\ p \o q \in Seq(S) /\ Len(p \o q) = Len(p) + Len(q)
         /\ \A i \in 1 .. Len(p) + Len(q) :
               (p \o q)[i] = IF i <= Len(p) THEN p[i] ELSE q[i - Len(p)]
  BY SMTT(30)

\* The wrap of a counter does not move the offset it stands for.
LEMMA WrapOffset ==
  ASSUME NEW a \in Nat
  PROVE  (a % Wrap) % Capacity = a % Capacity
  <1>1. PICK k \in 2 .. Wrap : Wrap = k * Capacity
    BY WrapAssumption
  <1>2. Capacity \in Nat \ {0} /\ k \in Nat \ {0}
    BY ConstantFacts, SMTT(30)
  <1>3. (a % (k * Capacity)) % Capacity = a % Capacity
    BY <1>2, ModMod
  <1> QED BY <1>1, <1>3

LEMMA Ranges ==
  ASSUME NEW c \in Nat
  PROVE  usbring_phys_offset(c) \in 0 .. Capacity - 1 /\ c % Wrap \in Counters
  BY ConstantFacts, DivMod DEF usbring_phys_offset, Counters

\* The bytes in use are the distance from tail to head.
LEMMA UsedFacts ==
  ASSUME NEW h \in Counters, NEW t \in Counters
  PROVE  /\ usbring_used(h, t) \in Counters
         /\ (t + usbring_used(h, t)) % Wrap = h
  BY ConstantFacts, ModDistance DEF Counters, usbring_used

LEMMA UsedUnique ==
  ASSUME NEW t \in Counters, NEW d \in Counters
  PROVE  usbring_used((t + d) % Wrap, t) = d
  BY ConstantFacts, ModDistanceUnique DEF Counters, usbring_used

\* While the ring is within its capacity, free_space does not wrap.
LEMMA FreeSpace ==
  ASSUME NEW h \in Counters, NEW t \in Counters,
         usbring_used(h, t) <= Capacity
  PROVE  usbring_free_space(h, t) = Capacity - usbring_used(h, t)
  <1> DEFINE f == Capacity - usbring_used(h, t)
  <1>1. f \in 0 .. Wrap - 1
    <2>1. usbring_used(h, t) \in Nat
      BY UsedFacts, SMTT(30) DEF Counters
    <2> QED BY <2>1, ConstantFacts, SMTT(30)
  <1> HIDE DEF f
  <1>2. f % Wrap = f
    BY <1>1, ConstantFacts, ModSmall
  <1> QED BY <1>2 DEF f, usbring_free_space

\* Byte j of the ring and byte k of a write that fits are at different offsets.
LEMMA Disjoint ==
  ASSUME NEW h \in Counters, NEW t \in Counters, NEW n \in Nat,
         usbring_used(h, t) + n <= Capacity,
         NEW j \in 0 .. usbring_used(h, t) - 1, NEW k \in 0 .. n - 1
  PROVE  usbring_phys_offset(t + j) # usbring_phys_offset(h + k)
  <1> DEFINE u == usbring_used(h, t)
             d == (u + k) - j
  <1>1. u \in Nat /\ t \in Nat /\ h \in Nat /\ (t + u) % Wrap = h
    BY UsedFacts, SMTT(30) DEF Counters
  <1> HIDE DEF u
  <1>2. j \in Nat /\ k \in Nat /\ j < u /\ k < n /\ u + n <= Capacity
    BY <1>1, SMTT(30) DEF u
  <1>3. d \in 1 .. Capacity - 1 /\ t + j \in Nat
    BY <1>1, <1>2, ConstantFacts, SMTT(30)
  <1>4. ((t + j) + d) % Capacity # (t + j) % Capacity
    <2> HIDE DEF d
    <2> QED BY <1>3, ConstantFacts, ModDistinct
  <1>5. (t + j) + d = (t + u) + k
    BY <1>1, <1>2, SMTT(30)
  <1>6. ((t + u) + k) % Capacity = (h + k) % Capacity
    <2> DEFINE a == t + u
    <2>0. a \in Nat /\ a % Wrap = h
      BY <1>1, SMTT(30)
    <2> HIDE DEF a
    <2>1. ((a % Capacity) + k) % Capacity = (a + k) % Capacity
      BY <2>0, <1>2, ConstantFacts, ModSum
    <2>2. a % Capacity = h % Capacity
      BY <2>0, WrapOffset
    <2>3. ((h % Capacity) + k) % Capacity = (h + k) % Capacity
      BY <1>1, <1>2, ConstantFacts, ModSum
    <2> QED BY <2>1, <2>2, <2>3 DEF a
  <1> QED BY <1>4, <1>5, <1>6 DEF usbring_phys_offset

\* The split memcpy puts byte k of a write at the offset of counter head + k.
LEMMA CopyTargetOffset ==
  ASSUME NEW h \in Counters, NEW n \in 0 .. Capacity, NEW k \in 0 .. n - 1
  PROVE  usbring_phys_offset(h + k) =
           IF k < Least(Capacity - usbring_phys_offset(h), n)
           THEN usbring_phys_offset(h) + k
           ELSE k - Least(Capacity - usbring_phys_offset(h), n)
  <1>1. h \in Nat /\ k \in 0 .. Capacity - 1
    BY ConstantFacts, SMTT(30) DEF Counters
  <1>2. (h + k) % Capacity = IF (h % Capacity) + k < Capacity
                             THEN (h % Capacity) + k
                             ELSE ((h % Capacity) + k) - Capacity
    BY <1>1, ConstantFacts, ModAdd
  <1>3. h % Capacity \in 0 .. Capacity - 1
    BY <1>1, ConstantFacts, DivMod
  <1> QED BY <1>1, <1>2, <1>3, ConstantFacts, SMTT(30) DEF usbring_phys_offset, Least

-----------------------------------------------------------------------------
(* The inductive invariant: what the write in progress has computed and    *)
(* copied so far, and where the peeked span lies.                          *)

WriteOK ==
    /\ wpc = "idle" => wn = 0
    /\ wpc # "idle" => wfirst = Least(Capacity - usbring_phys_offset(head), wn)
    /\ wpc = "publish" => \A k \in 0 .. wn - 1 :
           buf[usbring_phys_offset(head + k)] = (head + k) % Wrap

SpanOK ==
    /\ span.n <= usbring_used(head, tail)
    /\ span.n > 0 => span.off = usbring_phys_offset(tail)
    /\ span.off + span.n <= Capacity

RingIInv == RingTypeOK /\ RingBounded /\ LiveBytesIntact /\ WriteOK /\ SpanOK

\* The empty ring of usbring_init satisfies the invariant.
LEMMA InitInv == RingInit => RingIInv
  <1> SUFFICES ASSUME RingInit PROVE RingIInv
    OBVIOUS
  <1>1. head \in Counters /\ tail \in Counters
    BY ConstantFacts, SMTT(30) DEF RingInit, Counters
  <1>2. usbring_used(head, tail) = 0
    <2>1. (0 + 0) % Wrap = 0 /\ 0 \in Counters
      BY ConstantFacts, ModSmall, SMTT(30) DEF Counters
    <2> QED BY <2>1, UsedUnique DEF RingInit
  <1>3. RingTypeOK
    BY <1>1, ConstantFacts, MaxWriteAssumption, SMTT(30)
    DEF RingInit, RingTypeOK, NoSpan, Offsets
  <1>4. RingBounded /\ LiveBytesIntact /\ WriteOK /\ SpanOK
    BY <1>2, ConstantFacts, SMTT(30)
    DEF RingInit, RingBounded, LiveBytesIntact, WriteOK, SpanOK, NoSpan
  <1> QED BY <1>3, <1>4 DEF RingIInv

\* Accepting a write moves no byte and no counter.
LEMMA AcceptInv ==
  ASSUME RingIInv, NEW n \in 1 .. MaxWrite, WriteAccept(n)
  PROVE  RingIInv'
  <1> USE DEF RingIInv
  <1>1. /\ head \in Counters /\ tail \in Counters
        /\ usbring_used(head, tail) <= Capacity
        /\ head' = head /\ tail' = tail /\ buf' = buf /\ span' = span
        /\ wpc' = "copy" /\ wn' = n
    BY DEF RingTypeOK, RingBounded, WriteAccept
  <1>2. usbring_used(head', tail') = usbring_used(head, tail)
    BY <1>1
  <1>3. n <= Capacity - usbring_used(head, tail)
    BY <1>1, FreeSpace DEF WriteAccept
  <1>4. wfirst' = Least(Capacity - usbring_phys_offset(head), n)
    <2>1. usbring_free_space(head, tail) >= n /\ usbring_free_space(head, tail) \in Int
      BY <1>1, <1>3, FreeSpace, ConstantFacts, UsedFacts, SMTT(30) DEF Counters
    <2>2. usbring_phys_offset(head) \in 0 .. Capacity - 1
      BY <1>1, Ranges, SMTT(30) DEF Counters
    <2> QED BY <2>1, <2>2, ConstantFacts, SMTT(30) DEF WriteAccept, usbring_write_contig, Least
  <1>5. RingBounded' /\ LiveBytesIntact' /\ SpanOK'
    BY <1>1, <1>2, <1>3 DEF RingBounded, LiveBytesIntact, SpanOK
  <1>6. WriteOK'
    BY <1>1, <1>4 DEF WriteOK
  <1>7. wfirst' \in 0 .. n
    <2>1. usbring_phys_offset(head) \in 0 .. Capacity - 1
      BY <1>1, Ranges, SMTT(30) DEF Counters
    <2> QED BY <2>1, <1>4, ConstantFacts, SMTT(30) DEF Least
  <1>8. RingTypeOK'
    BY <1>1, <1>7, SMTT(30) DEF RingTypeOK
  <1> QED BY <1>5, <1>6, <1>8

\* The memcpy reaches only offsets that hold no live byte.
LEMMA CopyInv == ASSUME RingIInv, WriteCopy PROVE RingIInv'
  <1> USE DEF RingIInv
  <1>1. /\ head \in Counters /\ tail \in Counters /\ wn \in Nat
        /\ usbring_used(head, tail) + wn <= Capacity
        /\ head' = head /\ tail' = tail /\ span' = span /\ wn' = wn
        /\ wfirst' = wfirst /\ wpc' = "publish"
        /\ wfirst = Least(Capacity - usbring_phys_offset(head), wn)
    <2>1. usbring_used(head, tail) \in Nat
      BY UsedFacts, SMTT(30) DEF RingTypeOK, Counters
    <2> QED BY <2>1, ConstantFacts, SMTT(30) DEF RingTypeOK, RingBounded, WriteOK, WriteCopy
  <1>2. wn \in 0 .. Capacity /\ usbring_used(head, tail) \in 0 .. Capacity
    <2>1. usbring_used(head, tail) \in Nat
      BY <1>1, UsedFacts, SMTT(30) DEF Counters
    <2> QED BY <1>1, <2>1, ConstantFacts, SMTT(30)
  <1>3. \A k \in 0 .. wn - 1 : CopyTarget(k) = usbring_phys_offset(head + k)
    BY <1>1, <1>2, CopyTargetOffset DEF CopyTarget
  <1>4. \A c \in Nat : usbring_phys_offset(c) \in Offsets
    BY Ranges DEF Offsets
  <1>5. \A j \in 0 .. usbring_used(head, tail) - 1 :
          buf'[usbring_phys_offset(tail + j)] = buf[usbring_phys_offset(tail + j)]
    <2> TAKE j \in 0 .. usbring_used(head, tail) - 1
    <2>1. usbring_phys_offset(tail + j) \in Offsets
      BY <1>1, <1>2, <1>4, SMTT(30) DEF Counters
    <2>2. \A k \in 0 .. wn - 1 : CopyTarget(k) # usbring_phys_offset(tail + j)
      BY <1>1, <1>3, Disjoint, SMTT(30)
    <2> QED BY <2>1, <2>2 DEF WriteCopy
  <1>6. \A k, m \in 0 .. wn - 1 : CopyTarget(k) = CopyTarget(m) => k = m
    <2>1. usbring_phys_offset(head) \in 0 .. Capacity - 1
      BY <1>1, Ranges, SMTT(30) DEF Counters
    <2> QED BY <2>1, <1>1, <1>2, ConstantFacts, SMTT(30) DEF CopyTarget, Least
  <1>7. \A k \in 0 .. wn - 1 :
          buf'[usbring_phys_offset(head + k)] = (head + k) % Wrap
    <2> TAKE k \in 0 .. wn - 1
    <2>1. CopyTarget(k) \in Offsets
      BY <1>1, <1>2, <1>3, <1>4, SMTT(30) DEF Counters
    <2>2. (CHOOSE m \in 0 .. wn - 1 : CopyTarget(m) = CopyTarget(k)) = k
      BY <1>6
    <2> QED BY <1>3, <2>1, <2>2 DEF WriteCopy, usbring_next_head
  <1>8. buf' \in [Offsets -> Counters \cup {NoByte}]
    <2>1. \A k \in 0 .. wn - 1 : usbring_next_head(head, k) \in Counters
      <3> TAKE k \in 0 .. wn - 1
      <3>1. head + k \in Nat
        BY <1>1, SMTT(30) DEF Counters
      <3> QED BY <3>1, Ranges DEF usbring_next_head
    <2> QED BY <2>1 DEF WriteCopy, RingTypeOK
  <1>9. RingTypeOK'
    BY <1>1, <1>8 DEF RingTypeOK
  <1>10. LiveBytesIntact'
    BY <1>1, <1>5 DEF LiveBytesIntact
  <1>11. RingBounded' /\ SpanOK'
    BY <1>1 DEF RingBounded, SpanOK
  <1>12. WriteOK'
    BY <1>1, <1>7 DEF WriteOK
  <1> QED BY <1>9, <1>10, <1>11, <1>12

\* Publishing makes the copied bytes live.
LEMMA PublishInv == ASSUME RingIInv, WritePublish PROVE RingIInv'
  <1> USE DEF RingIInv
  <1> DEFINE u == usbring_used(head, tail)
  <1>1. /\ head \in Nat /\ tail \in Nat /\ u \in Nat /\ wn \in Nat
        /\ head \in Counters /\ tail \in Counters
        /\ u + wn <= Capacity /\ (tail + u) % Wrap = head
    <2>1. head \in Counters /\ tail \in Counters /\ wn \in Nat
      BY SMTT(30) DEF RingTypeOK
    <2>2. u \in Nat /\ (tail + u) % Wrap = head
      BY <2>1, UsedFacts, SMTT(30) DEF Counters
    <2> QED BY <2>1, <2>2, ConstantFacts, SMTT(30) DEF RingBounded, Counters
  <1>2. /\ head' = (head + wn) % Wrap /\ tail' = tail /\ buf' = buf
        /\ span' = span /\ wn' = 0 /\ wfirst' = 0 /\ wpc' = "idle"
        /\ wpc = "publish"
    BY DEF WritePublish, usbring_next_head
  <1> HIDE DEF u
  <1>3. head' = (tail + (u + wn)) % Wrap
    <2>0. tail + u \in Nat
      BY <1>1, SMTT(30)
    <2>1. (((tail + u) % Wrap) + wn) % Wrap = ((tail + u) + wn) % Wrap
      BY <2>0, <1>1, ConstantFacts, ModSum
    <2>2. (tail + u) + wn = tail + (u + wn)
      BY <1>1, SMTT(30)
    <2> QED BY <1>1, <1>2, <2>1, <2>2
  <1>4. u + wn \in Counters
    BY <1>1, ConstantFacts, SMTT(30) DEF Counters
  <1>5. usbring_used(head', tail') = u + wn
    BY <1>1, <1>2, <1>3, <1>4, UsedUnique
  <1>6. LiveBytesIntact'
    <2> SUFFICES ASSUME NEW k \in 0 .. (u + wn) - 1
                 PROVE  buf[usbring_phys_offset(tail + k)] = (tail + k) % Wrap
      BY <1>2, <1>5 DEF LiveBytesIntact
    <2>1. CASE k < u
      <3>1. k \in 0 .. u - 1
        BY <2>1, <1>1, SMTT(30)
      <3> QED BY <3>1 DEF LiveBytesIntact, u
    <2>2. CASE k >= u
      <3> DEFINE j == k - u
                 a == tail + u
      <3>1. j \in 0 .. wn - 1 /\ j \in Nat /\ a \in Nat /\ tail + k = a + j
        BY <1>1, <2>2, SMTT(30)
      <3>2. buf[usbring_phys_offset(head + j)] = (head + j) % Wrap
        BY <1>2, <3>1 DEF WriteOK
      <3> HIDE DEF j
      <3>3. (head + j) % Wrap = (a + j) % Wrap
        BY <1>1, <3>1, ConstantFacts, ModSum
      <3>4. ((a + j) % Wrap) % Capacity = (a + j) % Capacity
            /\ ((head + j) % Wrap) % Capacity = (head + j) % Capacity
        BY <1>1, <3>1, WrapOffset, SMTT(30)
      <3> QED BY <3>1, <3>2, <3>3, <3>4 DEF usbring_phys_offset
    <2> QED BY <2>1, <2>2, <1>1, SMTT(30)
  <1>7. head' \in Counters
    BY <1>1, <1>2, Ranges, SMTT(30)
  <1>8. RingTypeOK'
    BY <1>2, <1>7, MaxWriteAssumption, SMTT(30) DEF RingTypeOK
  <1>9. RingBounded'
    BY <1>1, <1>2, <1>5, ConstantFacts, SMTT(30) DEF RingBounded
  <1>10. WriteOK'
    BY <1>2 DEF WriteOK
  <1>11. SpanOK'
    <2>1. span.n <= u /\ span.n \in Nat
      BY SMTT(30) DEF SpanOK, u, RingTypeOK
    <2>2. span.n <= u + wn
      BY <2>1, <1>1, SMTT(30)
    <2> QED BY <1>2, <1>5, <2>2 DEF SpanOK
  <1> QED BY <1>6, <1>8, <1>9, <1>10, <1>11

\* A peek only looks.
LEMMA PeekInv ==
  ASSUME RingIInv, NEW m \in 1 .. Capacity, Peek(m)
  PROVE  RingIInv'
  <1> USE DEF RingIInv
  <1>1. /\ head \in Counters /\ tail \in Counters /\ tail \in Nat
        /\ usbring_used(head, tail) \in Nat
        /\ usbring_phys_offset(tail) \in 0 .. Capacity - 1
    <2>1. head \in Counters /\ tail \in Counters /\ tail \in Nat
      BY SMTT(30) DEF RingTypeOK, Counters
    <2> QED BY <2>1, UsedFacts, Ranges, SMTT(30) DEF Counters
  <1>2. /\ head' = head /\ tail' = tail /\ buf' = buf
        /\ wpc' = wpc /\ wn' = wn /\ wfirst' = wfirst
    BY DEF Peek
  <1>3. /\ span'.off = usbring_phys_offset(tail)
        /\ span'.n \in 0 .. Capacity
        /\ span'.n <= usbring_used(head, tail)
        /\ span'.off + span'.n <= Capacity
        /\ span' \in [off : Offsets, n : 0 .. Capacity]
    BY <1>1, ConstantFacts, SMTT(30) DEF Peek, usbring_peek_contig, Least, Offsets
  <1>4. RingTypeOK'
    BY <1>2, <1>3 DEF RingTypeOK
  <1>5. RingBounded' /\ LiveBytesIntact' /\ WriteOK'
    BY <1>2 DEF RingBounded, LiveBytesIntact, WriteOK
  <1>6. SpanOK'
    BY <1>2, <1>3 DEF SpanOK
  <1> QED BY <1>4, <1>5, <1>6

\* Consuming the span frees its bytes and leaves the others where they were.
LEMMA ConsumeInv == ASSUME RingIInv, Consume PROVE RingIInv'
  <1> USE DEF RingIInv
  <1> DEFINE u == usbring_used(head, tail)
             n == span.n
  <1>1. /\ head \in Counters /\ tail \in Counters /\ tail \in Nat
        /\ u \in Nat /\ n \in Nat /\ wn \in Nat /\ n <= u
        /\ u + wn <= Capacity /\ (tail + u) % Wrap = head
    <2>1. /\ head \in Counters /\ tail \in Counters
          /\ tail \in Nat /\ n \in Nat /\ wn \in Nat
      BY SMTT(30) DEF RingTypeOK, Counters
    <2>2. u \in Nat /\ (tail + u) % Wrap = head
      BY <2>1, UsedFacts, SMTT(30) DEF Counters
    <2> QED BY <2>1, <2>2, ConstantFacts, SMTT(30) DEF RingBounded, SpanOK
  <1>2. /\ tail' = (tail + n) % Wrap /\ head' = head /\ buf' = buf
        /\ span' = NoSpan /\ wpc' = wpc /\ wn' = wn /\ wfirst' = wfirst
    BY DEF Consume, usbring_next_tail
  <1> HIDE DEF u, n
  <1>3. tail' \in Counters
    BY <1>1, <1>2, Ranges, SMTT(30)
  <1>4. u - n \in Counters /\ u - n \in Nat /\ tail + n \in Nat
    BY <1>1, ConstantFacts, SMTT(30) DEF Counters
  <1>5. \A j \in Nat : (((tail + n) % Wrap) + j) % Wrap = (tail + (n + j)) % Wrap
    <2> TAKE j \in Nat
    <2>1. (((tail + n) % Wrap) + j) % Wrap = ((tail + n) + j) % Wrap
      BY <1>4, ConstantFacts, ModSum
    <2>2. (tail + n) + j = tail + (n + j)
      BY <1>1, SMTT(30)
    <2> QED BY <2>1, <2>2
  <1>6. head' = (tail' + (u - n)) % Wrap
    <2>1. n + (u - n) = u
      BY <1>1, SMTT(30)
    <2> QED BY <1>1, <1>2, <1>4, <1>5, <2>1
  <1>7. usbring_used(head', tail') = u - n
    BY <1>3, <1>4, <1>6, UsedUnique
  <1>8. LiveBytesIntact'
    <2>1. PICK t \in Nat : t = tail'
      BY <1>3, SMTT(30) DEF Counters
    <2> SUFFICES ASSUME NEW k \in 0 .. (u - n) - 1
                 PROVE  buf[usbring_phys_offset(t + k)] = (t + k) % Wrap
      BY <1>2, <1>7, <2>1 DEF LiveBytesIntact
    <2>2. k \in Nat /\ k < u - n
      BY <1>4, SMTT(30)
    <2>3. n + k \in 0 .. u - 1 /\ tail + (n + k) \in Nat /\ t + k \in Nat
      BY <1>1, <2>2, SMTT(30)
    <2>4. buf[usbring_phys_offset(tail + (n + k))] = (tail + (n + k)) % Wrap
      BY <2>3 DEF LiveBytesIntact, u
    <2>5. (t + k) % Wrap = (tail + (n + k)) % Wrap
      BY <1>2, <1>5, <2>1, <2>2
    <2>6. /\ ((t + k) % Wrap) % Capacity = (t + k) % Capacity
          /\ ((tail + (n + k)) % Wrap) % Capacity = (tail + (n + k)) % Capacity
      BY <2>3, WrapOffset
    <2> QED BY <2>4, <2>5, <2>6 DEF usbring_phys_offset
  <1>9. RingTypeOK'
    BY <1>2, <1>3, ConstantFacts, SMTT(30) DEF RingTypeOK, NoSpan, Offsets
  <1>10. RingBounded'
    BY <1>1, <1>2, <1>7, ConstantFacts, SMTT(30) DEF RingBounded
  <1>11. WriteOK'
    BY <1>2 DEF WriteOK
  <1>12. SpanOK'
    BY <1>2, <1>4, <1>7, ConstantFacts, SMTT(30) DEF SpanOK, NoSpan
  <1> QED BY <1>8, <1>9, <1>10, <1>11, <1>12

\* RingIInv is inductive.
LEMMA NextInv == RingIInv /\ [RingNext]_ringVars => RingIInv'
  <1> SUFFICES ASSUME RingIInv, [RingNext]_ringVars PROVE RingIInv'
    OBVIOUS
  <1>1. ASSUME NEW n \in 1 .. MaxWrite, WriteAccept(n) PROVE RingIInv'
    BY <1>1, AcceptInv
  <1>2. CASE UNCHANGED ringVars
    BY <1>2 DEF ringVars, RingIInv, RingTypeOK, RingBounded, LiveBytesIntact,
                WriteOK, SpanOK
  <1>3. ASSUME NEW n \in 1 .. MaxWrite, WriteDrop(n) PROVE RingIInv'
    BY <1>2, <1>3 DEF WriteDrop
  <1>4. CASE WriteCopy
    BY <1>4, CopyInv
  <1>5. CASE WritePublish
    BY <1>5, PublishInv
  <1>6. ASSUME NEW m \in 1 .. Capacity, Peek(m) PROVE RingIInv'
    BY <1>6, PeekInv
  <1>7. CASE Consume
    BY <1>7, ConsumeInv
  <1> QED BY <1>1, <1>2, <1>3, <1>4, <1>5, <1>6, <1>7
          DEF RingNext, RingProduce, RingConsume

\* A span inside the live bytes holds them.
LEMMA SpanStableFromInv == RingIInv => SpanStable
  <1> SUFFICES ASSUME RingIInv, NEW k \in 0 .. span.n - 1
               PROVE  buf[span.off + k] = (tail + k) % Wrap
    BY DEF SpanStable, RingIInv, SpanOK
  <1>1. /\ head \in Counters /\ tail \in Counters /\ tail \in Nat
        /\ span.n \in 0 .. Capacity /\ span.off \in 0 .. Capacity - 1
    BY SMTT(30) DEF RingIInv, RingTypeOK, Counters, Offsets
  <1>2. /\ usbring_used(head, tail) \in Nat
    BY <1>1, UsedFacts, SMTT(30) DEF Counters
  <1>3. /\ span.n > 0 /\ k \in 0 .. Capacity - 1
        /\ k \in 0 .. usbring_used(head, tail) - 1
        /\ span.off = usbring_phys_offset(tail)
        /\ span.off + k < Capacity
    BY <1>1, <1>2, ConstantFacts, SMTT(30) DEF RingIInv, SpanOK
  <1>4. (tail + k) % Capacity = IF (tail % Capacity) + k < Capacity
                                THEN (tail % Capacity) + k
                                ELSE ((tail % Capacity) + k) - Capacity
    BY <1>1, <1>3, ConstantFacts, ModAdd
  <1>5. usbring_phys_offset(tail + k) = span.off + k
    BY <1>3, <1>4 DEF usbring_phys_offset
  <1> QED BY <1>3, <1>5 DEF RingIInv, LiveBytesIntact

\* The ring's safety for every instance: the types hold, the ring is never
\* over its capacity, no published byte is overwritten before usbring_consume
\* releases it, and a pointer usbring_peek returned stays good until then.
THEOREM RingSafe ==
  RingSpec => [](RingTypeOK /\ RingBounded /\ LiveBytesIntact /\ SpanStable)
  <1>1. RingInit => RingIInv
    BY InitInv
  <1>2. RingIInv /\ [RingNext]_ringVars => RingIInv'
    BY NextInv
  <1>3. RingIInv => RingTypeOK /\ RingBounded /\ LiveBytesIntact /\ SpanStable
    BY SpanStableFromInv DEF RingIInv
  <1> QED BY <1>1, <1>2, <1>3, PTL DEF RingSpec

-----------------------------------------------------------------------------
(* The ring implements a queue of bytes.                                   *)

\* The queue the ring stands for, as Fifo sees it.
RingBytes == [k \in 1 .. usbring_used(head, tail) |-> buf[usbring_phys_offset(tail + k - 1)]]

\* The stretch of n bytes of the stream that starts at counter c.
Stretch(c, n) == [k \in 1 .. n |-> (c + (k - 1)) % Wrap]

LEMMA StretchSeq ==
  ASSUME NEW c \in Nat, NEW n \in Nat
  PROVE  /\ Stretch(c, n) \in Seq(Counters) /\ Len(Stretch(c, n)) = n
         /\ \A k \in 1 .. n : Stretch(c, n)[k] = (c + (k - 1)) % Wrap
  <1>1. \A k \in 1 .. n : (c + (k - 1)) % Wrap \in Counters
    BY Ranges, SMTT(30)
  <1> QED BY <1>1, SMTT(30) DEF Stretch

\* While the invariant holds, the queue is the stretch between the counters.
LEMMA RingBytesCounted == RingIInv => RingBytes = Stretch(tail, usbring_used(head, tail))
  <1> SUFFICES ASSUME RingIInv PROVE RingBytes = Stretch(tail, usbring_used(head, tail))
    OBVIOUS
  <1>1. /\ usbring_used(head, tail) \in Nat /\ tail \in Nat
    BY UsedFacts, SMTT(30) DEF RingIInv, RingTypeOK, Counters
  <1>2. ASSUME NEW k \in 1 .. usbring_used(head, tail)
        PROVE  buf[usbring_phys_offset(tail + k - 1)] = (tail + (k - 1)) % Wrap
    <2>1. k - 1 \in 0 .. usbring_used(head, tail) - 1 /\ tail + k - 1 = tail + (k - 1)
      BY <1>1, SMTT(30)
    <2> QED BY <2>1 DEF RingIInv, LiveBytesIntact
  <1> QED BY <1>1, <1>2 DEF RingBytes, Stretch

LEMMA RingBytesCountedNext == RingIInv' => RingBytes' = Stretch(tail', usbring_used(head', tail'))
  <1>1. (RingIInv => RingBytes = Stretch(tail, usbring_used(head, tail)))'
    BY RingBytesCounted, PTL
  <1> QED BY <1>1 DEF Stretch, usbring_used

\* Equal counters stay equal when they advance together.
LEMMA SameAdvance ==
  ASSUME NEW d \in Nat, NEW e \in Nat, NEW j \in Nat, d % Wrap = e % Wrap
  PROVE  (d + j) % Wrap = (e + j) % Wrap
  <1>1. ((d % Wrap) + j) % Wrap = (d + j) % Wrap
    BY ModSum, ConstantFacts
  <1>2. ((e % Wrap) + j) % Wrap = (e + j) % Wrap
    BY ModSum, ConstantFacts
  <1> QED BY <1>1, <1>2

\* The counter d is m bytes after c.
Follows(d, c, m) == d % Wrap = (c + m) % Wrap

Joined(c, m, d, n) == Stretch(c, m) \o Stretch(d, n) = Stretch(c, m + n)

\* Stretches join and split where they meet.
LEMMA StretchJoin ==
  ASSUME NEW c \in Nat, NEW m \in Nat, NEW n \in Nat, NEW d \in Nat, Follows(d, c, m)
  PROVE  Joined(c, m, d, n)
  <1> DEFINE p == Stretch(c, m)
             q == Stretch(d, n)
             r == Stretch(c, m + n)
  <1>1. p \in Seq(Counters) /\ q \in Seq(Counters) /\ Len(p) = m /\ Len(q) = n
    BY StretchSeq
  <1>2. r \in Seq(Counters) /\ Len(r) = m + n
    BY StretchSeq, SMTT(30)
  <1>3. /\ p \o q \in Seq(Counters) /\ Len(p \o q) = m + n
        /\ \A i \in 1 .. m + n : (p \o q)[i] = IF i <= m THEN p[i] ELSE q[i - m]
    <2> HIDE DEF p, q, r
    <2> QED BY <1>1, ConcatFacts
  <1>4. ASSUME NEW i \in 1 .. m + n PROVE (p \o q)[i] = r[i]
    <2>1. r[i] = (c + (i - 1)) % Wrap
      BY DEF Stretch
    <2>2. CASE i <= m
      BY <1>3, <2>1, <2>2, StretchSeq, SMTT(30)
    <2>3. CASE i > m
      <3> DEFINE j == i - m - 1
      <3>1. j \in Nat /\ i - m \in 1 .. n /\ (c + m) + j = c + (i - 1) /\ i - m - 1 = j
        BY <2>3, SMTT(30)
      <3>2. q[i - m] = (d + j) % Wrap
        BY <3>1, StretchSeq
      <3> HIDE DEF j
      <3>3. (d + j) % Wrap = ((c + m) + j) % Wrap
        <4>1. c + m \in Nat
          BY SMTT(30)
        <4> QED BY <3>1, <4>1, SameAdvance, SMTT(30) DEF Follows
      <3>4. (p \o q)[i] = q[i - m]
        BY <1>3, <2>3, SMTT(30)
      <3> HIDE DEF p, q, r
      <3>5. ((c + m) + j) % Wrap = (c + (i - 1)) % Wrap
        BY <3>1
      <3> QED BY <2>1, <3>2, <3>3, <3>4, <3>5
    <2>4. i <= m \/ i > m
      BY SMTT(30)
    <2> QED BY <2>2, <2>3, <2>4
  <1> HIDE DEF p, q, r
  <1>5. p \o q = r
    BY <1>2, <1>3, <1>4, SeqsEqual
  <1> QED BY <1>5 DEF p, q, r, Joined

LEMMA StretchRest ==
  ASSUME NEW c \in Nat, NEW n \in Nat, NEW m \in 0 .. n, NEW d \in Nat, Follows(d, c, m)
  PROVE  SubSeq(Stretch(c, n), m + 1, n) = Stretch(d, n - m)
  <1> DEFINE p == Stretch(c, n)
             r == Stretch(d, n - m)
  <1>1. p \in Seq(Counters) /\ Len(p) = n
    BY StretchSeq
  <1>2. r \in Seq(Counters) /\ Len(r) = n - m
    BY StretchSeq, SMTT(30)
  <1>3. /\ SubSeq(p, m + 1, n) \in Seq(Counters) /\ Len(SubSeq(p, m + 1, n)) = n - m
        /\ \A i \in 1 .. n - m : SubSeq(p, m + 1, n)[i] = p[m + i]
    <2> HIDE DEF p, r
    <2> QED BY <1>1, SMTT(30)
  <1>4. ASSUME NEW i \in 1 .. n - m PROVE p[m + i] = r[i]
    <2> DEFINE j == i - 1
    <2>1. j \in Nat /\ (c + m) + j = c + ((m + i) - 1) /\ m + i \in 1 .. n
      BY SMTT(30)
    <2>2. p[m + i] = (c + ((m + i) - 1)) % Wrap /\ r[i] = (d + j) % Wrap
      BY <2>1, StretchSeq, SMTT(30)
    <2> HIDE DEF j
    <2>3. (d + j) % Wrap = ((c + m) + j) % Wrap
      <3>1. c + m \in Nat
        BY SMTT(30)
      <3> QED BY <2>1, <3>1, SameAdvance DEF Follows
    <2> QED BY <2>1, <2>2, <2>3
  <1> HIDE DEF p, r
  <1>5. SubSeq(p, m + 1, n) = r
    BY <1>2, <1>3, <1>4, SeqsEqual
  <1> QED BY <1>5 DEF p, r

\* Publishing a write appends its bytes, all or none.
LEMMA PublishPuts ==
  ASSUME RingIInv, RingIInv', WritePublish
  PROVE  \/ RingBytes' = RingBytes /\ head' = head
         \/ wn \in 1 .. MaxWrite /\ Fifo!Put(wn)
  <1> DEFINE u == usbring_used(head, tail)
  <1>1. /\ head \in Counters /\ tail \in Counters /\ u \in Nat /\ wn \in 0 .. MaxWrite
        /\ u + wn <= Capacity /\ (tail + u) % Wrap = head /\ u \in Counters
    BY UsedFacts, ConstantFacts, SMTT(30) DEF RingIInv, RingTypeOK, RingBounded, Counters
  <1>2. head \in Nat /\ tail \in Nat /\ wn \in Nat /\ tail' = tail /\ head' = (head + wn) % Wrap
    BY <1>1, MaxWriteAssumption, SMTT(30) DEF Counters, WritePublish, usbring_next_head
  <1>3. head' = (tail + (u + wn)) % Wrap
    <2>1. (((tail + u) % Wrap) + wn) % Wrap = ((tail + u) + wn) % Wrap
      <3>1. tail + u \in Nat
        BY <1>1, <1>2, SMTT(30)
      <3> QED BY <1>2, <3>1, ModSum, ConstantFacts
    <2>2. (tail + u) + wn = tail + (u + wn)
      BY <1>1, <1>2, SMTT(30)
    <2> HIDE DEF u
    <2> QED BY <1>1, <1>2, <2>1, <2>2
  <1>4. usbring_used(head', tail') = u + wn
    <2>1. u + wn \in Counters
      BY <1>1, <1>2, ConstantFacts, SMTT(30) DEF Counters
    <2> HIDE DEF u
    <2> QED BY <1>1, <1>2, <1>3, <2>1, UsedUnique
  <1>5. RingBytes = Stretch(tail, u) /\ RingBytes' = Stretch(tail, u + wn)
    BY <1>2, <1>4, RingBytesCounted, RingBytesCountedNext
  <1> HIDE DEF u
  <1>6. CASE wn = 0
    BY <1>1, <1>2, <1>5, <1>6, ConstantFacts, ModSmall, SMTT(30) DEF Counters
  <1>7. CASE wn # 0
    <2>1. Len(RingBytes) = u
      BY <1>1, <1>2, <1>5, StretchSeq
    <2>2. RingBytes' = RingBytes \o Stretch(head, wn)
      <3>1. Follows(head, tail, u)
        BY <1>1, ConstantFacts, ModSmall DEF Counters, Follows
      <3>2. Joined(tail, u, head, wn)
        <4>1. tail \in Nat /\ u \in Nat /\ wn \in Nat /\ head \in Nat
          BY <1>1, <1>2
        <4> QED BY <3>1, <4>1, StretchJoin
      <3> QED BY <1>5, <3>2 DEF Joined
    <2>3. Stretch(head, wn) = [k \in 1 .. wn |-> (head + k - 1) % Wrap]
      <3>1. \A k \in 1 .. wn : head + (k - 1) = head + k - 1
        BY <1>2
      <3> QED BY <3>1 DEF Stretch
    <2>4. Fifo!Put(wn)
      BY <1>1, <1>2, <2>1, <2>2, <2>3 DEF Fifo!Put, RingBytes
    <2> QED BY <1>1, <1>7, <2>4, SMTT(30)
  <1> QED BY <1>6, <1>7

\* Consuming a span takes the oldest bytes.
LEMMA ConsumeTakes ==
  ASSUME RingIInv, RingIInv', Consume
  PROVE  \/ RingBytes' = RingBytes /\ head' = head
         \/ span.n \in 1 .. Capacity /\ Fifo!Take(span.n)
  <1> DEFINE u == usbring_used(head, tail)
             m == span.n
             d == (tail + m) % Wrap
  <1>1. /\ head \in Counters /\ tail \in Counters /\ u \in Counters /\ m \in 0 .. Capacity
        /\ m <= u /\ (tail + u) % Wrap = head
    BY UsedFacts DEF RingIInv, RingTypeOK, SpanOK
  <1>2. head \in Nat /\ tail \in Nat /\ m \in 0 .. u /\ u \in Nat /\ head' = head /\ tail' = d
    BY <1>1, ConstantFacts, SMTT(30) DEF Counters, Consume, usbring_next_tail
  <1>3. d \in Counters /\ d \in Nat /\ d % Wrap = (tail + m) % Wrap
    <2>1. tail + m \in Nat
      BY <1>2, SMTT(30)
    <2>2. d \in Counters
      BY <2>1, Ranges
    <2> HIDE DEF d
    <2>3. d \in Nat /\ d % Wrap = d
      BY <2>2, ConstantFacts, ModSmall, SMTT(30) DEF Counters
    <2> QED BY <2>2, <2>3 DEF d
  <1>4. usbring_used(head', tail') = u - m
    <2>1. u - m \in Counters
      BY <1>1, <1>2, ConstantFacts, SMTT(30) DEF Counters
    <2>2. (d + (u - m)) % Wrap = ((tail + m) + (u - m)) % Wrap
      <3>1. tail + m \in Nat /\ u - m \in Nat
        BY <1>2, SMTT(30)
      <3> HIDE DEF d, m, u
      <3> QED BY <1>3, <3>1, SameAdvance
    <2>3. (tail + m) + (u - m) = tail + u
      BY <1>2, SMTT(30)
    <2> HIDE DEF d, m, u
    <2>4. head = (d + (u - m)) % Wrap
      BY <1>1, <2>2, <2>3
    <2> QED BY <1>2, <1>3, <2>1, <2>4, UsedUnique
  <1>5. RingBytes = Stretch(tail, u) /\ RingBytes' = Stretch(d, u - m)
    BY <1>2, <1>4, RingBytesCounted, RingBytesCountedNext
  <1> HIDE DEF u, m, d
  <1>6. CASE m = 0
    <2>1. d = tail
      BY <1>1, <1>2, <1>6, ConstantFacts, ModSmall, SMTT(30) DEF Counters, d
    <2> QED BY <1>2, <1>5, <1>6, <2>1, SMTT(30) DEF m
  <1>7. CASE m # 0
    <2>1. Len(RingBytes) = u
      BY <1>2, <1>5, StretchSeq
    <2>2. RingBytes' = SubSeq(RingBytes, m + 1, u)
      BY <1>2, <1>3, <1>5, StretchRest, SMTT(30) DEF Follows
    <2>3. Fifo!Take(m)
      <3>1. m <= Len(RingBytes) /\ RingBytes' = SubSeq(RingBytes, m + 1, Len(RingBytes))
        BY <1>2, <2>1, <2>2, SMTT(30)
      <3> QED BY <1>2, <3>1 DEF Fifo!Take, RingBytes
    <2> QED BY <1>1, <1>7, <2>3, SMTT(30) DEF m
  <1> QED BY <1>6, <1>7 DEF m

\* The ring is a bounded queue of bytes to its users, for every capacity and
\* width of the counters: every step puts a whole write at the end, takes a
\* prefix, or changes nothing a user can see.
THEOREM RingImplementsFifo == RingSpec => FifoRefinement
  <1>1. RingInit => Fifo!FifoInit
    <2> SUFFICES ASSUME RingInit PROVE RingBytes = << >> /\ head = 0
      BY DEF Fifo!FifoInit, RingBytes
    <2>1. RingIInv
      BY InitInv
    <2>2. usbring_used(head, tail) = 0
      BY ConstantFacts, SMTT(30) DEF RingInit, usbring_used
    <2>3. RingBytes = Stretch(tail, 0) /\ tail \in Nat
      BY <2>1, <2>2, RingBytesCounted DEF RingInit
    <2>4. Len(Stretch(tail, 0)) = 0 /\ Stretch(tail, 0) \in Seq(Counters)
      BY <2>3, StretchSeq
    <2> QED BY <2>3, <2>4, EmptySeqFacts DEF RingInit
  <1>2. RingIInv /\ RingIInv' /\ [RingNext]_ringVars => [Fifo!FifoNext]_<<RingBytes, head>>
    <2> SUFFICES ASSUME RingIInv, RingIInv', [RingNext]_ringVars
                 PROVE  Fifo!FifoNext \/ UNCHANGED <<RingBytes, head>>
      OBVIOUS
    <2>1. CASE WritePublish
      BY <2>1, PublishPuts DEF Fifo!FifoNext
    <2>2. CASE Consume
      BY <2>2, ConsumeTakes DEF Fifo!FifoNext
    <2>3. CASE UNCHANGED <<head, tail>>
      BY <2>3, RingBytesCounted, RingBytesCountedNext
    <2> QED BY <2>1, <2>2, <2>3 DEF RingNext, RingProduce, RingConsume, WriteAccept, WriteDrop,
                  WriteCopy, Peek, ringVars
  <1> QED BY <1>1, <1>2, InitInv, NextInv, PTL DEF RingSpec, FifoRefinement, Fifo!FifoSpec, RingBytes
==============================================================================
