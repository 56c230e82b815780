------------------------- MODULE SignalBufferProofs --------------------------
(***************************************************************************)
(* signal_buffer.c: the sequence counter under which the 64-bit sample     *)
(* counter is written makes its two words read as one value, for every     *)
(* word size, number of pushes and interleaving; and every push copies     *)
(* whole lines inside the ring, keeps the index in step with the samples   *)
(* offered and leaves the scratch alone while a transfer reads it, for     *)
(* every line, ring and push size; and a window the worker accepts was     *)
(* read as it was pushed.                                                  *)
(***************************************************************************)
EXTENDS SignalBuffer, HeadTotal, ModArith, SequenceTheorems

\* Zenon is the prover of every step that names no other; the steps with
\* arithmetic name SMT, with time enough for the larger ones.
USE Zenon

-----------------------------------------------------------------------------
(* read_head_total.                                                        *)

HtTypeOK ==
    /\ seq \in Nat
    /\ w \in [pc : {"idle", "store"}, new : Nat, todo : SUBSET {"lo", "hi"}]
    /\ r.pc \in {"idle", "seq", "words", "done"}
    /\ value \in Nat

\* The counter is odd exactly while the writer is between its two increments,
\* and outside of them the words are those of the value.
WriterOK ==
    /\ w.pc = "idle"  => seq % 2 = 0 /\ lo = Lo(value) /\ hi = Hi(value)
    /\ w.pc = "store" => /\ seq % 2 = 1
                         /\ "lo" \notin w.todo => lo = Lo(w.new)
                         /\ "hi" \notin w.todo => hi = Hi(w.new)

\* The words the reader has are the present ones as long as the counter has
\* kept the even value it had when the reader began.
ReaderOK ==
    /\ r = [pc |-> r.pc, s1 |-> r.s1, lo |-> r.lo, hi |-> r.hi, todo |-> r.todo]
    /\ r.pc \in {"seq", "words", "done"} => value \in seen
    /\ r.pc = "words" =>
          /\ r.s1 \in Nat /\ r.s1 <= seq
          /\ r.s1 = seq /\ seq % 2 = 0 =>
                /\ "lo" \notin r.todo => r.lo = lo
                /\ "hi" \notin r.todo => r.hi = hi

HtIInv == HtTypeOK /\ WriterOK /\ ReaderOK /\ ReadWasCurrent

\* read_head_total returns a value the counter had during the call, on every
\* interleaving of its loads with the stores of any number of pushes.
THEOREM CounterReadWhole == HtSpec => []ReadWasCurrent
  <1>1. HtInit => HtIInv
    <2> SUFFICES ASSUME HtInit PROVE HtIInv
      OBVIOUS
    <2>1. Lo(0) = 0 /\ Hi(0) = 0
      BY HeadTotalAssumption, SMTT(30) DEF Lo, Hi
    <2> QED BY <2>1, SMTT(30) DEF HtInit, HtIInv, HtTypeOK, WriterOK, ReaderOK, ReadWasCurrent, Idle, Quiet
  <1>2. HtIInv /\ [HtNext]_htVars => HtIInv'
    <2> SUFFICES ASSUME HtIInv, [HtNext]_htVars PROVE HtIInv'
      OBVIOUS
    <2> USE DEF HtIInv, HtTypeOK, WriterOK, ReaderOK, ReadWasCurrent
    <2>1. ASSUME NEW n \in Counts, WriteOpen(n) PROVE HtIInv'
      BY <2>1, HeadTotalAssumption, SMTT(30) DEF WriteOpen, Opening
    <2>2. ASSUME NEW half \in {"lo", "hi"}, WriteWord(half) PROVE HtIInv'
      BY <2>2, SMTT(30) DEF WriteWord
    <2>3. CASE WriteClose
      BY <2>3, SMTT(30) DEF WriteClose, Idle
    <2>4. CASE ReadBegin
      BY <2>4 DEF ReadBegin, Quiet
    <2>5. CASE ReadSeq
      <3>1. r' = [pc |-> "words", s1 |-> seq, lo |-> r.lo, hi |-> r.hi,
                  todo |-> {"lo", "hi"}]
        BY <2>5 DEF ReadSeq
      <3> QED BY <3>1, <2>5, SMTT(30) DEF ReadSeq
    <2>6. ASSUME NEW half \in {"lo", "hi"}, ReadWord(half) PROVE HtIInv'
      BY <2>6 DEF ReadWord
    <2>7. CASE ReadClose
      BY <2>7, SMTT(30) DEF ReadClose, Settled, Quiet
    <2>8. CASE UNCHANGED htVars
      BY <2>8 DEF htVars
    <2> QED BY <2>1, <2>2, <2>3, <2>4, <2>5, <2>6, <2>7, <2>8 DEF HtNext
  <1>3. HtIInv => ReadWasCurrent
    BY DEF HtIInv
  <1> QED BY <1>1, <1>2, <1>3, PTL DEF HtSpec

-----------------------------------------------------------------------------
(* signal_buffer_push.                                                     *)

Segments == [dst : Nat, src : Nat, n : Nat, cb : BOOLEAN]
PushStages == {"idle", "take", "fill", "submit", "second", "publish"}

SbTypeOK ==
    /\ head \in Nat /\ total \in Nat /\ offered \in Nat /\ timeouts \in Nat
    /\ carry \in Seq(Int) /\ dma \in Seq(Segments)
    /\ done \in {0, 1} /\ orphan \in BOOLEAN
    /\ push \in [pc : PushStages, n : 0 .. MaxPush, count : Nat]

\* A copy is a positive number of lines, within the ring and the scratch.
SegmentOK(s) ==
    /\ s.n > 0 /\ s.n % Align = 0 /\ s.dst % Align = 0
    /\ s.dst + s.n <= Cap /\ s.src + s.n <= MaxAligned

SegmentsOK == \A i \in 1 .. Len(dma) : SegmentOK(dma[i])

\* The samples offered are counted, carried or in the push in progress.
IndexOK ==
    /\ head = total % Cap
    /\ head % Align = 0 /\ total % Align = 0 /\ Len(carry) < Align
    /\ push.pc = "idle" => push.n = 0
    /\ total + Len(carry) + push.n = offered
    /\ push.pc # "idle" => /\ Len(carry) + push.n >= Align
                           /\ push.count = AlignedDown(Len(carry) + push.n)
    /\ push.pc = "second" => Wraps

\* No queued transfer signals a completion that has been taken, or was given in
\* its place, already: a transfer with a callback is the last of the queue, and
\* none is queued while the semaphore is given or a push uses the scratch.
SignalOK ==
    timeouts = 0 =>
      /\ \A i \in 1 .. Len(dma) - 1 : ~dma[i].cb
      /\ push.pc \in {"fill", "submit", "second"} =>
            done = 0 /\ \A i \in 1 .. Len(dma) : ~dma[i].cb
      /\ done = 1 => \A i \in 1 .. Len(dma) : ~dma[i].cb
      /\ ~orphan /\ (push.pc \in {"fill", "submit"} \/ done = 1) => dma = << >>

SbIInv == SbTypeOK /\ SegmentsOK /\ IndexOK /\ SignalOK

LEMMA SbConstants ==
  /\ Align \in Nat \ {0} /\ Cap \in Nat \ {0} /\ Cap % Align = 0
  /\ MaxPush \in Nat /\ MaxPush + Align - 1 <= Cap
  BY SignalBufferAssumption

\* The samples a push submits: whole lines, no more than fit in the scratch or
\* the ring, and all but less than a line of what there is.
LEMMA CountFacts ==
  ASSUME NEW k \in Nat, NEW n \in 0 .. MaxPush, k < Align, k + n >= Align
  PROVE  /\ AlignedDown(k + n) \in Nat /\ AlignedDown(k + n) % Align = 0
         /\ AlignedDown(k + n) > 0 /\ AlignedDown(k + n) <= k + n
         /\ (k + n) - AlignedDown(k + n) < Align
         /\ AlignedDown(k + n) <= MaxAligned /\ AlignedDown(k + n) <= Cap
  <1> DEFINE c == AlignedDown(k + n)
             b == MaxPush + Align - 1
  <1>1. k + n \in Nat /\ b \in Nat /\ k + n <= b
    BY SbConstants, SMTT(30)
  <1>2. c \in 0 .. k + n /\ (k + n) - c < Align /\ c % Align = 0
    BY <1>1, SbConstants, RoundDown DEF AlignedDown
  <1>3. MaxAligned \in 0 .. b /\ b - MaxAligned < Align /\ MaxAligned % Align = 0
    BY <1>1, SbConstants, RoundDown DEF AlignedDown, MaxAligned
  <1> HIDE DEF c
  <1>4. c <= MaxAligned
    <2> SUFFICES ASSUME MaxAligned < c PROVE FALSE
      BY <1>2, <1>3, SMTT(30)
    <2>1. c \in Nat /\ MaxAligned \in Nat
      BY <1>1, <1>2, <1>3, SMTT(30)
    <2>2. MaxAligned + Align <= c
      BY <2>1, <1>2, <1>3, SbConstants, MultipleGap
    <2> QED BY <2>2, <1>1, <1>2, <1>3, SbConstants, SMTT(30)
  <1>5. c \in Nat /\ c > 0 /\ c <= Cap
    BY <1>1, <1>2, SbConstants, SMTT(30)
  <1> QED BY <1>2, <1>4, <1>5, SMTT(30) DEF c

\* Where head is, and where it goes.
LEMMA HeadFacts ==
  ASSUME NEW t \in Nat, NEW c \in Nat, t % Align = 0, c % Align = 0, c <= Cap,
         (t % Cap) % Align = 0
  PROVE  /\ signal_buffer_next_head(t % Cap, c) = (t + c) % Cap
         /\ ((t + c) % Cap) % Align = 0
         /\ (t + c) % Align = 0
         /\ t % Cap \in 0 .. Cap - 1
  <1> DEFINE h == t % Cap
  <1>1. h \in 0 .. Cap - 1 /\ h \in Nat
    BY SbConstants, DivMod, SMTT(30)
  <1>2. (h + c) % Cap = (t + c) % Cap
    BY SbConstants, ModSum
  <1>3. (t + c) % Align = 0
    BY SbConstants, MultipleSum
  <1>4. h % Align = 0
    OBVIOUS
  <1> HIDE DEF h
  <1>5. (h + c) % Align = 0
    BY <1>1, <1>4, SbConstants, MultipleSum
  <1>6. (h + c) % Cap = IF h + c < Cap THEN h + c ELSE (h + c) - Cap
    <2>1. CASE h + c < Cap
      BY <2>1, <1>1, SbConstants, ModSmall, SMTT(30)
    <2>2. CASE h + c >= Cap
      <3> DEFINE d == (h + c) - Cap
      <3>1. d \in 0 .. Cap - 1 /\ d \in Nat /\ h + c = d + (1 * Cap)
        BY <2>2, <1>1, SbConstants, SMTT(30)
      <3> HIDE DEF d
      <3>2. (d + (1 * Cap)) % Cap = d % Cap /\ d % Cap = d
        BY <3>1, SbConstants, ModMultiple, ModSmall, SMTT(30)
      <3>3. (h + c) % Cap = d
        BY <3>1, <3>2
      <3>4. ~(h + c < Cap)
        BY <2>2, <1>1, SbConstants, SMTT(30)
      <3> QED BY <3>3, <3>4 DEF d
    <2> QED BY <2>1, <2>2, <1>1, SbConstants, SMTT(30)
  <1>7. ((h + c) % Cap) % Align = 0
    <2>1. CASE h + c < Cap
      BY <2>1, <1>5, <1>6
    <2>2. CASE h + c >= Cap
      <3>1. h + c \in Nat /\ Cap \in Nat /\ Cap <= h + c
        BY <2>2, <1>1, SbConstants, SMTT(30)
      <3>2. ((h + c) - Cap) % Align = 0
        BY <3>1, <1>5, SbConstants, MultipleDifference
      <3> QED BY <3>1, <3>2, <1>6, SMTT(30)
    <2> QED BY <2>1, <2>2, <1>1, SbConstants, SMTT(30)
  <1> QED BY <1>1, <1>2, <1>3, <1>7 DEF signal_buffer_next_head, h


\* A function on 1 .. n is a sequence of length n.
LEMMA FunctionIsSequence ==
  ASSUME NEW S, NEW n \in Nat, NEW f \in [1 .. n -> S]
  PROVE  f \in Seq(S) /\ Len(f) = n
  <1>1. f \in Seq(S)
    BY SeqDef
  <1>2. Len(f) \in Nat /\ DOMAIN f = 1 .. Len(f)
    BY <1>1, LenProperties
  <1>3. 1 .. n = 1 .. Len(f)
    BY <1>2
  <1> QED BY <1>1, <1>2, <1>3, SMTT(30)

\* What the invariant says of a push that has begun.
LEMMA PushFacts ==
  ASSUME SbTypeOK, IndexOK, push.pc # "idle"
  PROVE  /\ Len(carry) \in Nat /\ push.n \in 0 .. MaxPush
         /\ push.count \in Nat /\ push.count % Align = 0
         /\ push.count > 0 /\ push.count <= Len(carry) + push.n
         /\ Len(carry) + push.n - push.count < Align
         /\ push.count <= MaxAligned /\ push.count <= Cap
         /\ head \in 0 .. Cap - 1 /\ ToEnd \in 1 .. Cap /\ ToEnd % Align = 0
         /\ MaxAligned \in Nat
  <1>1. Len(carry) \in Nat /\ push.n \in 0 .. MaxPush /\ push.count \in Nat
    BY LenProperties DEF SbTypeOK
  <1>2. /\ push.count % Align = 0 /\ push.count > 0
        /\ push.count <= Len(carry) + push.n
        /\ Len(carry) + push.n - push.count < Align
        /\ push.count <= MaxAligned /\ push.count <= Cap
    BY <1>1, CountFacts, SMTT(30) DEF IndexOK
  <1>3. head \in 0 .. Cap - 1
    BY SbConstants, DivMod DEF SbTypeOK, IndexOK
  <1>4. ToEnd \in 1 .. Cap
    BY <1>3, SbConstants, SMTT(30) DEF ToEnd
  <1>5. ToEnd % Align = 0
    <2>1. head \in Nat /\ Cap \in Nat /\ head <= Cap
      BY <1>3, SbConstants, SMTT(30)
    <2>2. (Cap - head) % Align = 0
      BY <2>1, SbConstants, MultipleDifference DEF IndexOK
    <2> QED BY <2>2 DEF ToEnd
  <1>6. MaxAligned \in Nat
    <2>1. MaxPush + Align - 1 \in Nat
      BY SbConstants, SMTT(30)
    <2> QED BY <2>1, SbConstants, RoundDown, SMTT(30) DEF MaxAligned, AlignedDown
  <1> QED BY <1>1, <1>2, <1>3, <1>4, <1>5, <1>6

LEMMA SbInitInv == SbInit => SbIInv
  <1> SUFFICES ASSUME SbInit PROVE SbIInv
    OBVIOUS
  <1>1. 0 % Cap = 0 /\ 0 % Align = 0
    BY SbConstants, ModSmall, SMTT(30)
  <1>2. carry = << >> /\ dma = << >> /\ Len(carry) = 0 /\ Len(dma) = 0
    BY EmptySeq DEF SbInit
  <1>3. carry \in Seq(Int) /\ dma \in Seq(Segments)
    BY <1>2, EmptySeq
  <1>4. SbTypeOK
    <2>1. orphan \in BOOLEAN
      BY DEF SbInit
    <2>2. push \in [pc : PushStages, n : 0 .. MaxPush, count : Nat]
      BY SbConstants, SMTT(30) DEF SbInit, PushStages
    <2> QED BY <1>3, <2>1, <2>2 DEF SbInit, SbTypeOK
  <1>5. SegmentsOK /\ SignalOK
    BY <1>2, SMTT(30) DEF SbInit, SegmentsOK, SignalOK
  <1>6. IndexOK
    BY <1>1, <1>2, SbConstants, SMTT(30) DEF SbInit, IndexOK
  <1> QED BY <1>4, <1>5, <1>6 DEF SbIInv

\* A push begins, or only extends the carry.
LEMMA PushStartInv ==
  ASSUME SbIInv, NEW n \in 1 .. MaxPush, PushSmall(n) \/ PushBegin(n)
  PROVE  SbIInv'
  <1> USE DEF SbIInv
  <1>1. Len(carry) \in Nat /\ n \in Nat /\ n \in 0 .. MaxPush
    BY LenProperties, SbConstants, SMTT(30) DEF SbTypeOK
  <1>2. CASE PushSmall(n)
    <2> DEFINE new == [i \in 1 .. n |-> offered + i - 1]
    <2>1. new \in [1 .. n -> Int]
      BY <1>1, SMTT(30) DEF SbTypeOK
    <2>2. new \in Seq(Int) /\ Len(new) = n
      BY <2>1, <1>1, FunctionIsSequence
    <2>3. carry' = carry \o new
      BY <1>2 DEF PushSmall
    <2> HIDE DEF new
    <2>4. carry' \in Seq(Int) /\ Len(carry') = Len(carry) + n
      BY <2>2, <2>3, ConcatProperties DEF SbTypeOK
    <2>5. SbTypeOK' /\ SegmentsOK' /\ SignalOK'
      BY <2>4, <1>1, <1>2, SMTT(30)
      DEF PushSmall, SbTypeOK, SegmentsOK, SignalOK, ringVars, histVars
    <2>6. IndexOK'
      <3>1. /\ head' = head /\ total' = total /\ push' = push /\ push.pc = "idle"
            /\ offered' = offered + n /\ Len(carry') < Align
        BY <2>4, <1>2 DEF PushSmall
      <3>2. push.n = 0 /\ push'.n = 0 /\ total + Len(carry) + 0 = offered
        BY <3>1 DEF IndexOK
      <3>3. Len(carry') = Len(carry) + n /\ total \in Nat /\ offered \in Nat
        BY <2>4 DEF SbTypeOK
      <3>4. total' + Len(carry') + push'.n = offered'
        BY <3>1, <3>2, <3>3, <1>1, SMTT(30)
      <3> QED BY <3>1, <3>4 DEF IndexOK
    <2> QED BY <2>5, <2>6
  <1>3. CASE PushBegin(n)
    <2>1. AlignedDown(Len(carry) + n) \in Nat
      BY <1>1, <1>3, CountFacts DEF PushBegin, IndexOK
    <2>2. SbTypeOK' /\ SegmentsOK' /\ SignalOK'
      BY <2>1, <1>1, <1>3, SMTT(30)
      DEF PushBegin, SbTypeOK, SegmentsOK, SignalOK, ringVars, histVars, PushStages
    <2>3. IndexOK'
      <3>1. /\ head' = head /\ total' = total /\ carry' = carry /\ offered' = offered + n
            /\ push.pc = "idle" /\ Len(carry) + n >= Align
            /\ push' = [pc |-> "take", n |-> n, count |-> AlignedDown(Len(carry) + n)]
        BY <1>3 DEF PushBegin
      <3>2. total' + Len(carry') + push'.n = offered'
        BY <3>1, <1>1, SMTT(30) DEF SbTypeOK, IndexOK
      <3> QED BY <3>1, <3>2 DEF IndexOK
    <2> QED BY <2>2, <2>3
  <1> QED BY <1>2, <1>3

\* The wait for the transfer before, and the copy to the scratch.
LEMMA PrepareInv == SbIInv /\ (TakeDone \/ TakeTimeout \/ FillScratch) => SbIInv'
  <1> SUFFICES ASSUME SbIInv, TakeDone \/ TakeTimeout \/ FillScratch PROVE SbIInv'
    OBVIOUS
  <1> USE DEF SbIInv
  <1>1. SbTypeOK'
    BY SMTT(30) DEF TakeDone, TakeTimeout, FillScratch, SbTypeOK, ringVars, histVars, PushStages
  <1>2. SegmentsOK'
    BY DEF TakeDone, TakeTimeout, FillScratch, SegmentsOK, ringVars
  <1>3. IndexOK'
    BY DEF TakeDone, TakeTimeout, FillScratch, SbTypeOK, IndexOK
  <1>4. SignalOK'
    BY SMTT(30) DEF TakeDone, TakeTimeout, FillScratch, SbTypeOK, SignalOK, ringVars, histVars
  <1> QED BY <1>1, <1>2, <1>3, <1>4


\* One more copy in the queue.
LEMMA SegmentQueued ==
  ASSUME SbTypeOK, SegmentsOK, NEW s \in Segments, SegmentOK(s), dma' = Append(dma, s)
  PROVE  /\ dma' \in Seq(Segments) /\ SegmentsOK'
         /\ Len(dma') = Len(dma) + 1 /\ Len(dma) \in Nat
         /\ \A i \in 1 .. Len(dma) : dma'[i] = dma[i]
         /\ dma'[Len(dma) + 1] = s
  <1>1. Len(dma) \in Nat
    BY LenProperties DEF SbTypeOK
  <1>2. /\ dma' \in Seq(Segments) /\ Len(dma') = Len(dma) + 1
        /\ \A i \in 1 .. Len(dma) : dma'[i] = dma[i]
        /\ dma'[Len(dma) + 1] = s
    BY AppendProperties, SMTT(30) DEF SbTypeOK
  <1>3. SegmentsOK'
    <2> SUFFICES ASSUME NEW i \in 1 .. Len(dma') PROVE SegmentOK(dma'[i])
      BY DEF SegmentsOK
    <2>1. i \in 1 .. Len(dma) \/ i = Len(dma) + 1
      BY <1>1, <1>2, SMTT(30)
    <2> QED BY <2>1, <1>2 DEF SegmentsOK
  <1> QED BY <1>1, <1>2, <1>3

\* The copies a push submits are aligned and in bounds, and their order keeps
\* the one that signals last.
LEMMA SubmitInv == SbIInv /\ (SubmitWhole \/ SubmitFirst \/ SubmitSecond) => SbIInv'
  <1> SUFFICES ASSUME SbIInv, SubmitWhole \/ SubmitFirst \/ SubmitSecond PROVE SbIInv'
    OBVIOUS
  <1> USE DEF SbIInv
  <1>1. push.pc \in {"submit", "second"}
    BY DEF SubmitWhole, SubmitFirst, SubmitSecond
  <1>2. /\ push.count \in Nat /\ push.count % Align = 0 /\ push.count > 0
        /\ push.count <= MaxAligned /\ push.count <= Cap /\ MaxAligned \in Nat
        /\ head \in 0 .. Cap - 1 /\ ToEnd \in 1 .. Cap /\ ToEnd % Align = 0
    BY <1>1, PushFacts
  <1>3. Cap \in Nat \ {0} /\ Align \in Nat \ {0} /\ head % Align = 0 /\ 0 % Align = 0
    BY SbConstants, ModSmall, SMTT(30) DEF IndexOK
  <1>4. IndexOK'
    BY DEF SubmitWhole, SubmitFirst, SubmitSecond, SbTypeOK, IndexOK, Wraps, ToEnd
  <1>5. PICK s \in Segments :
             SegmentOK(s) /\ dma' = Append(dma, s) /\ (s.cb <=> push'.pc = "publish")
    <2>1. CASE SubmitWhole
      <3> DEFINE s == Segment(head, 0, push.count, TRUE)
      <3>1. s \in Segments /\ SegmentOK(s) /\ s.cb
        BY <2>1, <1>2, <1>3, SMTT(30) DEF SubmitWhole, Wraps, ToEnd, Segment, Segments, SegmentOK
      <3>2. dma' = Append(dma, s) /\ push'.pc = "publish"
        BY <2>1 DEF SubmitWhole, SbTypeOK
      <3> QED BY <3>1, <3>2
    <2>2. CASE SubmitFirst
      <3> DEFINE s == Segment(head, 0, ToEnd, FALSE)
      <3>1. s \in Segments /\ SegmentOK(s) /\ ~s.cb
        BY <2>2, <1>2, <1>3, SMTT(30) DEF SubmitFirst, Wraps, ToEnd, Segment, Segments, SegmentOK
      <3>2. dma' = Append(dma, s) /\ push'.pc = "second"
        BY <2>2 DEF SubmitFirst, FirstCallback, SbTypeOK
      <3> QED BY <3>1, <3>2
    <2>3. CASE SubmitSecond
      <3> DEFINE k == push.count - ToEnd
                 s == Segment(0, ToEnd, k, TRUE)
      <3>1. push.count > ToEnd
        BY <2>3 DEF SubmitSecond, IndexOK, Wraps
      <3>2. ToEnd \in Nat /\ ToEnd <= push.count
        BY <3>1, <1>2, <1>3, SMTT(30)
      <3>3. k % Align = 0
        BY <3>2, <1>2, <1>3, MultipleDifference
      <3>4. k \in Nat /\ k > 0 /\ k <= Cap /\ ToEnd + k = push.count
        BY <3>1, <3>2, <1>2, <1>3, SMTT(30)
      <3>5. s \in Segments /\ SegmentOK(s) /\ s.cb
        BY <3>2, <3>3, <3>4, <1>2, <1>3, SMTT(30) DEF Segment, Segments, SegmentOK
      <3>6. dma' = Append(dma, s) /\ push'.pc = "publish"
        BY <2>3 DEF SubmitSecond, SecondSource, SbTypeOK
      <3> QED BY <3>5, <3>6
    <2> QED BY <2>1, <2>2, <2>3
  <1>6. /\ dma' \in Seq(Segments) /\ SegmentsOK'
        /\ Len(dma') = Len(dma) + 1 /\ Len(dma) \in Nat
        /\ \A i \in 1 .. Len(dma) : dma'[i] = dma[i]
        /\ dma'[Len(dma) + 1] = s
    BY <1>5, SegmentQueued
  <1>7. SbTypeOK'
    BY <1>6 DEF SubmitWhole, SubmitFirst, SubmitSecond, SbTypeOK, histVars, PushStages
  <1>8. /\ done' = done /\ timeouts' = timeouts /\ push'.pc \in {"second", "publish"}
    BY DEF SubmitWhole, SubmitFirst, SubmitSecond, SbTypeOK
  <1>9. SignalOK'
    <2> SUFFICES ASSUME timeouts = 0 PROVE SignalOK'
      BY <1>8 DEF SignalOK
    <2>1. done = 0 /\ \A i \in 1 .. Len(dma) : ~dma[i].cb
      BY <1>1 DEF SignalOK
    <2>2. \A i \in 1 .. Len(dma') - 1 : ~dma'[i].cb
      BY <1>6, <2>1, SMTT(30)
    <2>3. push'.pc = "second" => \A i \in 1 .. Len(dma') : ~dma'[i].cb
      <3>1. \A i \in 1 .. Len(dma') : i \in 1 .. Len(dma) \/ i = Len(dma) + 1
        BY <1>6, SMTT(30)
      <3> QED BY <1>5, <1>6, <2>1, <3>1
    <2> QED BY <1>8, <2>1, <2>2, <2>3, SMTT(30) DEF SignalOK
  <1> QED BY <1>4, <1>6, <1>7, <1>9

\* A submit that fails gives the semaphore in the transfer's place.
LEMMA FailInv == SbIInv /\ (SubmitFails \/ SecondFails) => SbIInv'
  <1> SUFFICES ASSUME SbIInv, SubmitFails \/ SecondFails PROVE SbIInv'
    OBVIOUS
  <1> USE DEF SbIInv
  <1>1. SbTypeOK'
    BY DEF SubmitFails, SecondFails, GivenBack, SbTypeOK, ringVars, histVars, PushStages
  <1>2. SegmentsOK'
    BY DEF SubmitFails, SecondFails, SegmentsOK, ringVars
  <1>3. IndexOK'
    BY DEF SubmitFails, SecondFails, SbTypeOK, IndexOK
  <1>4. SignalOK'
    BY DEF SubmitFails, SecondFails, GivenBack, SbTypeOK, SignalOK, ringVars, histVars
  <1> QED BY <1>1, <1>2, <1>3, <1>4


\* Head and counter move on together; what is left becomes the carry.
LEMMA PublishInv == SbIInv /\ Publish => SbIInv'
  <1> SUFFICES ASSUME SbIInv, Publish PROVE SbIInv'
    OBVIOUS
  <1> USE DEF SbIInv
  <1> DEFINE left == Len(carry) + push.n - push.count
             rest == [i \in 1 .. left |-> Source(push.n - left + i)]
  <1>1. /\ Len(carry) \in Nat /\ push.n \in Nat /\ push.count \in Nat
        /\ push.count % Align = 0 /\ push.count <= Cap
        /\ push.count <= Len(carry) + push.n /\ left < Align
    BY PushFacts, SMTT(30) DEF Publish
  <1>2. left \in Nat
    BY <1>1, SMTT(30)
  <1>3. rest \in [1 .. left -> Int]
    BY <1>1, <1>2, SMTT(30) DEF Source, SbTypeOK
  <1>4. rest \in Seq(Int) /\ Len(rest) = left
    BY <1>2, <1>3, FunctionIsSequence
  <1>5. /\ carry' = rest /\ total' = total + push.count /\ offered' = offered
        /\ head' = signal_buffer_next_head(head, push.count)
        /\ push'.pc = "idle" /\ push'.n = 0 /\ push'.count = 0
    BY DEF Publish, SbTypeOK
  <1>6. /\ total \in Nat /\ offered \in Nat /\ total + Len(carry) + push.n = offered
        /\ head = total % Cap /\ head % Align = 0 /\ total % Align = 0
    BY DEF SbTypeOK, IndexOK
  <1>7. /\ head' = total' % Cap /\ head' % Align = 0 /\ total' % Align = 0
    BY <1>1, <1>5, <1>6, HeadFacts, SMTT(30)
  <1>8. total' \in Nat /\ head' \in Nat
    <2>1. total' \in Nat
      BY <1>1, <1>5, <1>6, SMTT(30)
    <2>2. total' % Cap \in 0 .. Cap - 1
      BY <2>1, SbConstants, DivMod
    <2>3. \A y \in 0 .. Cap - 1 : y \in Nat
      BY SbConstants, SMTT(30)
    <2> QED BY <2>1, <2>2, <2>3, <1>7
  <1>9. Len(carry') = left /\ Len(carry') < Align /\ carry' \in Seq(Int)
    BY <1>1, <1>4, <1>5
  <1>10. left = Len(carry) + push.n - push.count
    OBVIOUS
  <1> HIDE DEF left, rest
  <1>11. total' + Len(carry') + push'.n = offered'
    <2>1. total' + Len(carry') + push'.n = (total + push.count) + left + 0
      BY <1>5, <1>9
    <2>2. (total + push.count) + left + 0 = total + Len(carry) + push.n
      BY <1>1, <1>6, <1>10, SMTT(30)
    <2> QED BY <2>1, <2>2, <1>5, <1>6
  <1>12. push' = [pc |-> "idle", n |-> 0, count |-> 0]
    BY DEF Publish, SbTypeOK
  <1>13. SbTypeOK'
    <2>1. push' \in [pc : PushStages, n : 0 .. MaxPush, count : Nat]
      BY <1>12, SbConstants, SMTT(30) DEF PushStages
    <2> QED BY <1>8, <1>9, <2>1 DEF Publish, SbTypeOK, ringVars
  <1>14. SegmentsOK' /\ SignalOK'
    BY DEF Publish, SbTypeOK, SegmentsOK, SignalOK, ringVars
  <1>15. IndexOK'
    BY <1>5, <1>7, <1>9, <1>11 DEF IndexOK
  <1> QED BY <1>13, <1>14, <1>15

\* A line lands: the first copy shrinks by a line or leaves the queue.
LEMMA LandInv == SbIInv /\ Land => SbIInv'
  <1> SUFFICES ASSUME SbIInv, Land PROVE SbIInv'
    OBVIOUS
  <1> USE DEF SbIInv
  <1> DEFINE s == Head(dma)
             t == Tail(dma)
             x == Segment(s.dst + Align, s.src + Align, s.n - Align, s.cb)
  <1>1. dma # << >> /\ dma \in Seq(Segments)
    BY DEF Land, SbTypeOK
  <1>2. /\ s \in Segments /\ s = dma[1] /\ t \in Seq(Segments) /\ Len(dma) \in Nat \ {0}
        /\ Len(t) = Len(dma) - 1
        /\ \A i \in 1 .. Len(t) : t[i] = dma[i + 1]
    BY <1>1, HeadTailProperties, EmptySeq, LenProperties, SMTT(30)
  <1>3. SegmentOK(s)
    BY <1>2, SMTT(30) DEF SegmentsOK
  <1>4. /\ UNCHANGED <<head, total, carry, push, offered, timeouts>>
        /\ dma' = IF s.n <= Align THEN t ELSE <<x>> \o t
        /\ done' = IF s.n <= Align /\ s.cb THEN 1 ELSE done
        /\ orphan' = (orphan /\ dma' # << >>)
    BY DEF Land
  <1>5. IndexOK'
    BY <1>4 DEF IndexOK, Wraps, ToEnd
  <1>6. Align \in Nat \ {0} /\ Align % Align = 0
    <2>1. (0 + (1 * Align)) % Align = 0 % Align /\ 0 % Align = 0
      BY SbConstants, ModMultiple, ModSmall, SMTT(30)
    <2> QED BY <2>1, SbConstants, SMTT(30)
  <1>7. CASE s.n <= Align
    <2>1. dma' = t /\ dma' \in Seq(Segments) /\ SegmentsOK'
      BY <1>2, <1>4, <1>7, SMTT(30) DEF SegmentsOK
    <2>2. SbTypeOK'
      BY <1>4, <2>1 DEF SbTypeOK
    <2>3. SignalOK'
      <3> SUFFICES ASSUME timeouts = 0 PROVE SignalOK'
        BY <1>4 DEF SignalOK
      <3>1. \A i \in 1 .. Len(dma) - 1 : ~dma[i].cb
        BY DEF SignalOK
      <3>2. \A i \in 1 .. Len(dma') - 1 : ~dma'[i].cb
        BY <2>1, <3>1, <1>2, SMTT(30)
      <3>3. s.cb => Len(dma) = 1 /\ dma' = << >> /\ Len(dma') = 0
        BY <2>1, <3>1, <1>2, EmptySeq, SMTT(30)
      <3>4. (\A i \in 1 .. Len(dma) : ~dma[i].cb) => ~s.cb /\ \A i \in 1 .. Len(dma') : ~dma'[i].cb
        BY <2>1, <1>2, SMTT(30)
      <3>5. push.pc \in {"fill", "submit", "second"} =>
               done' = 0 /\ \A i \in 1 .. Len(dma') : ~dma'[i].cb
        BY <3>4, <1>4 DEF SignalOK
      <3>6. done' = 1 => \A i \in 1 .. Len(dma') : ~dma'[i].cb
        BY <3>3, <3>4, <1>4, <1>7, SMTT(30) DEF SignalOK
      <3>7. ~orphan' /\ (push.pc \in {"fill", "submit"} \/ done' = 1) => dma' = << >>
        BY <3>3, <1>1, <1>4, <1>7 DEF SignalOK
      <3> QED BY <3>2, <3>5, <3>6, <3>7, <1>4 DEF SignalOK
    <2> QED BY <2>1, <2>2, <2>3, <1>5
  <1>8. CASE ~(s.n <= Align)
    <2>1. s.dst \in Nat /\ s.src \in Nat /\ s.n \in Nat /\ s.cb \in BOOLEAN /\ Align <= s.n
      BY <1>2, <1>6, <1>8, SMTT(30) DEF Segments
    <2>2. (s.n - Align) % Align = 0 /\ (s.dst + Align) % Align = 0
      BY <2>1, <1>3, <1>6, MultipleDifference, MultipleSum DEF SegmentOK
    <2>3. x \in Segments /\ SegmentOK(x) /\ (x.cb <=> s.cb)
      <3>1. x = [dst |-> s.dst + Align, src |-> s.src + Align, n |-> s.n - Align, cb |-> s.cb]
        BY DEF Segment
      <3>2. s.n - Align \in Nat /\ s.dst + Align \in Nat /\ s.src + Align \in Nat
        BY <2>1, <1>6, SMTT(30)
      <3>3. x \in Segments /\ (x.cb <=> s.cb)
        BY <3>1, <3>2, <2>1, SMTT(30) DEF Segments
      <3>4. /\ s.n - Align > 0 /\ (s.dst + Align) + (s.n - Align) <= Cap
            /\ (s.src + Align) + (s.n - Align) <= MaxAligned
        <4>1. MaxAligned \in Nat /\ Cap \in Nat
          BY SbConstants, RoundDown, SMTT(30) DEF MaxAligned, AlignedDown
        <4> QED BY <4>1, <2>1, <1>3, <1>6, <1>8, SMTT(30) DEF SegmentOK
      <3> QED BY <3>1, <3>3, <3>4, <2>2, SMTT(30) DEF SegmentOK
    <2> HIDE DEF x
    <2>4. <<x>> \in Seq(Segments) /\ Len(<<x>>) = 1 /\ <<x>>[1] = x
      BY <2>3, SMTT(30)
    <2>5. /\ dma' \in Seq(Segments) /\ Len(dma') = 1 + Len(t)
          /\ \A i \in 1 .. 1 + Len(t) : dma'[i] = IF i <= 1 THEN <<x>>[i] ELSE t[i - 1]
      BY <2>4, <1>2, <1>4, <1>8, ConcatProperties, SMTT(30)
    <2>6. /\ Len(dma') = Len(dma) /\ dma'[1] = x
          /\ \A i \in 2 .. Len(dma) : dma'[i] = dma[i]
      BY <2>4, <2>5, <1>2, SMTT(30)
    <2>7. SegmentsOK'
      BY <2>3, <2>6, <1>2, SMTT(30) DEF SegmentsOK
    <2>8. SbTypeOK'
      BY <1>4, <2>5 DEF SbTypeOK
    <2>9. dma' # << >> /\ done' = done /\ (orphan' <=> orphan)
      BY <2>6, <1>2, <1>4, <1>8, EmptySeq
    <2>10. \A i \in 1 .. Len(dma) : dma'[i].cb <=> dma[i].cb
      BY <2>3, <2>6, <1>2, SMTT(30)
    <2>11. SignalOK'
      <3> SUFFICES ASSUME timeouts = 0 PROVE SignalOK'
        BY <1>4 DEF SignalOK
      <3>1. \A i \in 1 .. Len(dma') - 1 : ~dma'[i].cb
        BY <2>6, <2>10, <1>2, SMTT(30) DEF SignalOK
      <3>2. push.pc \in {"fill", "submit", "second"} =>
               done' = 0 /\ \A i \in 1 .. Len(dma') : ~dma'[i].cb
        BY <2>6, <2>9, <2>10 DEF SignalOK
      <3>3. done' = 1 => \A i \in 1 .. Len(dma') : ~dma'[i].cb
        BY <2>6, <2>9, <2>10 DEF SignalOK
      <3>4. ~orphan' /\ (push.pc \in {"fill", "submit"} \/ done' = 1) => dma' = << >>
        BY <2>9, <1>1 DEF SignalOK
      <3> QED BY <3>1, <3>2, <3>3, <3>4, <1>4 DEF SignalOK
    <2> QED BY <2>7, <2>8, <2>11, <1>5
  <1> QED BY <1>7, <1>8

\* The worker only reads.
LEMMA WorkerInv ==
  ASSUME SbIInv,
         (\E start \in 0 .. MaxSamples : CheckWindow(start)) \/ ReadSample \/ Recheck \/ Demodulate
  PROVE  SbIInv'
  BY SMTT(30) DEF SbIInv, SbTypeOK, SegmentsOK, IndexOK, SignalOK, Wraps, ToEnd, ringVars, histVars,
         CheckWindow, ReadSample, Recheck, Demodulate

LEMMA SbStepInv == SbIInv /\ [SbNext]_sbVars => SbIInv'
  <1> SUFFICES ASSUME SbIInv, [SbNext]_sbVars PROVE SbIInv'
    OBVIOUS
  <1>1. CASE SbNext
    BY <1>1, PushStartInv, PrepareInv, SubmitInv, FailInv, PublishInv, LandInv, WorkerInv
    DEF SbNext, Producer
  <1>2. CASE UNCHANGED sbVars
    BY <1>2 DEF sbVars, SbIInv, SbTypeOK, SegmentsOK, IndexOK, SignalOK, Wraps, ToEnd
  <1> QED BY <1>1, <1>2

\* For every line size, ring size that is a multiple of it and push size, every
\* copy of signal_buffer_push is aligned and in bounds, the ring index and the
\* cumulative counter stay in step with the samples offered, and without a
\* timeout the scratch is refilled only when no transfer reads it.
THEOREM PushesSafe == SbSpec => [](TransfersAligned /\ IndexLockstep /\ ScratchStable)
  <1>1. SbIInv => TransfersAligned /\ IndexLockstep /\ ScratchStable
    BY SMTT(30) DEF SbIInv, SbTypeOK, SegmentsOK, SegmentOK, IndexOK, SignalOK,
           TransfersAligned, IndexLockstep, ScratchStable
  <1> QED BY SbInitInv, SbStepInv, <1>1, PTL DEF SbSpec

-----------------------------------------------------------------------------
(* What the worker reads.                                                  *)

\* The samples in the scratch: from the time it is filled to the next fill,
\* those of the push that filled it.
Loading == push.pc \in {"submit", "second", "publish"}
Base == IF Loading THEN total ELSE settled
Loaded == IF Loading THEN push.count ELSE total - settled

\* The samples whose copy has been submitted, and those that have landed.
Submitted ==
    CASE push.pc = "publish" -> total + push.count
      [] push.pc = "second" -> total + ToEnd
      [] OTHER -> total
Landed == IF dma = << >> THEN Submitted ELSE Base + dma[1].src

\* No wait has timed out and no window was given up.
Clean == timeouts = 0 /\ lost = {}

FlowTypeOK ==
    /\ ring \in [Offsets -> Int] /\ scratch \in [1 .. MaxAligned -> Int]
    /\ settled \in Nat /\ settled <= total /\ total <= settled + MaxAligned
    /\ rd \in [pc : {"idle", "read", "done"}, start : Nat, got : Seq(Int), young : BOOLEAN]

\* The carry and the scratch hold the samples that follow the counter, or, once
\* the push is over, precede it.
SamplesOK ==
    /\ \A i \in 1 .. Len(carry) : carry[i] = total + i - 1
    /\ \A i \in 1 .. Loaded : scratch[i] = Base + i - 1

\* The queued copies continue each other up to the last sample submitted, and
\* each goes where its samples belong.
ChainOK ==
    /\ \A i \in 1 .. Len(dma) : /\ dma[i].dst = (Base + dma[i].src) % Cap
                                /\ dma[i].src + dma[i].n <= Loaded
    /\ \A i \in 1 .. Len(dma) - 1 : dma[i].src + dma[i].n = dma[i + 1].src
    /\ dma # << >> => Base + dma[Len(dma)].src + dma[Len(dma)].n = Submitted

\* The ring holds the last Cap samples that have landed.
RingHolds(buf, end) ==
    \A k \in 0 .. end - 1 : end - Cap <= k => buf[k % Cap] = k

LineOK == Clean => ~orphan /\ ChainOK /\ RingHolds(ring, Landed)

\* What the worker has of an old window is right as long as the window is a push
\* away from being lapped.
WindowOK ==
    /\ rd.pc = "done" => Len(rd.got) = WinLen
    /\ rd.pc # "idle" /\ ~rd.young =>
          /\ rd.start + WinLen <= settled
          /\ Clean /\ rd.start + Cap >= total + MaxAligned =>
                \A j \in 1 .. Len(rd.got) : rd.got[j] = rd.start + j - 1

FlowIInv == FlowTypeOK /\ SamplesOK /\ LineOK /\ WindowOK

LEMMA FlowConstants ==
  /\ Cap \in Nat \ {0} /\ Align \in Nat \ {0} /\ MaxAligned \in Nat
  /\ WinLen \in Nat /\ MaxSamples \in Nat
  <1>1. MaxPush + Align - 1 \in Nat
    BY SbConstants, SMTT(30)
  <1>2. MaxAligned \in Nat
    BY <1>1, SbConstants, RoundDown, SMTT(30) DEF MaxAligned, AlignedDown
  <1> QED BY <1>2, SbConstants, SignalBufferAssumption

\* Writing the next c samples at their places leaves the others that the ring
\* then holds.
LEMMA Overwrite ==
  ASSUME NEW f \in Nat, NEW c \in 0 .. Cap, NEW old, NEW new,
         RingHolds(old, f),
         \A d \in 0 .. c - 1 : new[(f + d) % Cap] = f + d,
         \A i \in Offsets : (\A d \in 0 .. c - 1 : i # (f + d) % Cap) => new[i] = old[i]
  PROVE  RingHolds(new, f + c)
  <1> SUFFICES ASSUME NEW k \in 0 .. (f + c) - 1, (f + c) - Cap <= k
               PROVE  new[k % Cap] = k
    BY DEF RingHolds
  <1>0. k \in Nat /\ c \in Nat /\ Cap \in Nat \ {0}
    BY FlowConstants, SMTT(30)
  <1>1. CASE k >= f
    <2> DEFINE d == k - f
    <2>1. d \in 0 .. c - 1 /\ f + d = k
      BY <1>0, <1>1, SMTT(30)
    <2> HIDE DEF d
    <2> QED BY <2>1
  <1>2. CASE k < f
    <2>1. k % Cap \in Offsets
      BY <1>0, DivMod DEF Offsets
    <2>2. ASSUME NEW d \in 0 .. c - 1 PROVE k % Cap # (f + d) % Cap
      <3> DEFINE e == (f + d) - k
      <3>1. e \in 1 .. Cap - 1 /\ k + e = f + d
        BY <1>0, <1>2, SMTT(30)
      <3> HIDE DEF e
      <3>2. (k + e) % Cap # k % Cap
        BY <3>1, <1>0, ModDistinct
      <3> QED BY <3>1, <3>2
    <2>3. new[k % Cap] = old[k % Cap]
      BY <2>1, <2>2
    <2>4. k \in 0 .. f - 1 /\ f - Cap <= k
      BY <1>0, <1>2, SMTT(30)
    <2> QED BY <2>3, <2>4 DEF RingHolds
  <1> QED BY <1>0, <1>1, <1>2, SMTT(30)

\* The samples that have landed are no fewer than those counted before the last
\* push, and less than a push ahead of the counter.
LEMMA LandedFacts ==
  ASSUME SbIInv, FlowTypeOK, ChainOK
  PROVE  /\ Landed \in Nat /\ Landed >= settled /\ Landed <= total + MaxAligned
         /\ Base \in Nat /\ Base >= settled /\ Base <= total
         /\ Loaded \in Nat /\ Loaded <= MaxAligned
  <1> USE DEF SbIInv
  <1>1. /\ total \in Nat /\ settled \in Nat /\ settled <= total /\ total <= settled + MaxAligned
        /\ MaxAligned \in Nat
    BY FlowConstants DEF SbTypeOK, FlowTypeOK
  <1>2. push.pc # "idle" => /\ push.count \in Nat /\ push.count <= MaxAligned
                            /\ ToEnd \in Nat /\ (push.pc = "second" => ToEnd <= push.count)
    BY PushFacts, FlowConstants, SMTT(30) DEF IndexOK, Wraps
  <1>3. Base \in Nat /\ Base >= settled /\ Base <= total /\ Loaded \in Nat /\ Loaded <= MaxAligned
    BY <1>1, <1>2, SMTT(30) DEF Base, Loaded, Loading
  <1>4. CASE dma = << >>
    BY <1>1, <1>2, <1>3, <1>4, SMTT(30) DEF Landed, Submitted
  <1>5. CASE dma # << >>
    <2>1. Len(dma) \in Nat \ {0} /\ dma[1] \in Segments
      BY <1>5, LenProperties, EmptySeq, ElementOfSeq, SMTT(30) DEF SbTypeOK
    <2>2. 1 \in 1 .. Len(dma)
      BY <2>1, SMTT(30)
    <2>3. dma[1].src + dma[1].n <= Loaded /\ dma[1].src \in Nat /\ dma[1].n \in Nat
      BY <2>1, <2>2 DEF ChainOK, Segments
    <2>4. Landed = Base + dma[1].src
      BY <1>5 DEF Landed
    <2> QED BY <2>3, <2>4, <1>1, <1>3, SMTT(30)
  <1> QED BY <1>3, <1>4, <1>5

LEMMA FlowInit == SbInit => FlowIInv
  <1> SUFFICES ASSUME SbInit PROVE FlowIInv
    OBVIOUS
  <1>1. Len(carry) = 0 /\ Len(dma) = 0 /\ dma = << >> /\ << >> \in Seq(Int)
    BY EmptySeq DEF SbInit
  <1>2. /\ total = 0 /\ settled = 0 /\ ~orphan /\ push.pc = "idle" /\ rd.pc = "idle"
        /\ MaxAligned \in Nat
    BY FlowConstants DEF SbInit
  <1>3. FlowTypeOK
    <2>1. rd \in [pc : {"idle", "read", "done"}, start : Nat, got : Seq(Int), young : BOOLEAN]
      BY <1>1, SMTT(30) DEF SbInit
    <2>2. None \in Int
      BY SMTT(30) DEF None
    <2>3. ring \in [Offsets -> Int] /\ scratch \in [1 .. MaxAligned -> Int]
      BY <2>2 DEF SbInit
    <2>4. 0 \in Nat /\ 0 <= 0 /\ 0 <= 0 + MaxAligned
      BY <1>2, SMTT(30)
    <2> QED BY <1>2, <2>1, <2>3, <2>4 DEF FlowTypeOK
  <1>4. Loaded = 0 /\ Landed = 0
    BY <1>1, <1>2, SMTT(30) DEF Loaded, Loading, Landed, Submitted
  <1>5. \A i \in 1 .. 0 : FALSE
    BY SMTT(30)
  <1>6. SamplesOK
    BY <1>1, <1>4, <1>5 DEF SamplesOK
  <1>7. LineOK
    <2>1. ChainOK
      BY <1>1, SMTT(30) DEF ChainOK
    <2>2. RingHolds(ring, Landed)
      BY <1>4, SMTT(30) DEF RingHolds
    <2> QED BY <2>1, <2>2, <1>2 DEF LineOK
  <1>8. WindowOK
    BY <1>2 DEF WindowOK
  <1> QED BY <1>3, <1>6, <1>7, <1>8 DEF FlowIInv

\* A step that leaves the copies, the ring and the scratch alone, and the samples
\* they belong to, keeps what is said of them.
LEMMA FlowKept ==
  ASSUME LineOK, UNCHANGED <<ringVars, orphan>>, Clean' => Clean,
         Base' = Base, Loaded' = Loaded, Submitted' = Submitted
  PROVE  LineOK'
  <1>1. ring' = ring /\ scratch' = scratch /\ dma' = dma /\ (orphan' <=> orphan)
    BY DEF ringVars
  <1>2. Landed' = Landed
    BY <1>1 DEF Landed
  <1>3. ChainOK => ChainOK'
    BY <1>1 DEF ChainOK
  <1>4. RingHolds(ring, Landed) => RingHolds(ring', Landed')
    BY <1>1, <1>2
  <1> QED BY <1>1, <1>3, <1>4 DEF LineOK

\* What the worker has stays right while it does not move: the counter only
\* grows.
LEMMA WindowKept ==
  ASSUME WindowOK, FlowTypeOK, SbTypeOK, rd' = rd, settled' \in Nat, total' \in Nat,
         settled <= settled', total <= total', Clean' => Clean
  PROVE  WindowOK'
  <1>1. rd.start \in Nat /\ WinLen \in Nat /\ Cap \in Nat /\ MaxAligned \in Nat
    BY FlowConstants DEF FlowTypeOK
  <1>2. total \in Nat /\ settled \in Nat
    BY DEF FlowTypeOK, SbTypeOK
  <1>3. /\ rd.start + WinLen <= settled => rd.start + WinLen <= settled'
        /\ rd.start + Cap >= total' + MaxAligned => rd.start + Cap >= total + MaxAligned
    BY <1>1, <1>2, SMTT(30)
  <1> QED BY <1>3 DEF WindowOK

LEMMA StartFlow ==
  ASSUME SbIInv, FlowIInv, NEW n \in 1 .. MaxPush, PushSmall(n) \/ PushBegin(n)
  PROVE  FlowIInv'
  <1> USE DEF SbIInv, FlowIInv
  <1>1. /\ UNCHANGED <<ringVars, histVars, head, total, rd, timeouts>>
        /\ push.pc = "idle" /\ push'.pc \in {"idle", "take"}
    BY SMTT(30) DEF PushSmall, PushBegin
  <1>2. Clean' => Clean
    BY <1>1 DEF Clean, histVars
  <1>3. Base' = Base /\ Loaded' = Loaded /\ Submitted' = Submitted
    BY <1>1, SMTT(30) DEF Base, Loaded, Loading, Submitted, histVars
  <1>4. LineOK'
    BY <1>1, <1>2, <1>3, FlowKept DEF histVars
  <1>5. FlowTypeOK'
    BY <1>1 DEF FlowTypeOK, ringVars, histVars
  <1>6. WindowOK'
    BY <1>1, <1>2 DEF WindowOK, histVars
  <1>7. \A i \in 1 .. Len(carry') : carry'[i] = total' + i - 1
    <2>1. CASE PushBegin(n)
      BY <2>1, <1>1 DEF PushBegin, SamplesOK
    <2>2. CASE PushSmall(n)
      <3> DEFINE new == [i \in 1 .. n |-> offered + i - 1]
      <3>0. n \in Nat /\ Len(carry) \in Nat /\ carry \in Seq(Int) /\ offered \in Nat /\ total \in Nat
        BY LenProperties, SbConstants, SMTT(30) DEF SbTypeOK
      <3>1. new \in [1 .. n -> Int]
        BY <3>0, SMTT(30)
      <3>2. new \in Seq(Int) /\ Len(new) = n
        BY <3>0, <3>1, FunctionIsSequence
      <3>3. \A i \in 1 .. n : new[i] = offered + i - 1
        OBVIOUS
      <3>4. carry' = carry \o new
        BY <2>2 DEF PushSmall
      <3> HIDE DEF new
      <3>5. /\ Len(carry') = Len(carry) + n
            /\ \A i \in 1 .. Len(carry) + n :
                  carry'[i] = IF i <= Len(carry) THEN carry[i] ELSE new[i - Len(carry)]
        BY <3>0, <3>2, <3>4, ConcatProperties
      <3>6. total + Len(carry) = offered
        BY <1>1, <3>0, SMTT(30) DEF IndexOK
      <3> SUFFICES ASSUME NEW i \in 1 .. Len(carry) + n PROVE carry'[i] = total + i - 1
        BY <3>5, <1>1
      <3>7. CASE i <= Len(carry)
        BY <3>0, <3>5, <3>7, SMTT(30) DEF SamplesOK
      <3>8. CASE i > Len(carry)
        <4> DEFINE j == i - Len(carry)
        <4>1. j \in 1 .. n /\ ~(i <= Len(carry)) /\ offered + j - 1 = total + i - 1
          BY <3>0, <3>6, <3>8, SMTT(30)
        <4>2. carry'[i] = new[j]
          BY <4>1, <3>5
        <4> QED BY <4>1, <4>2, <3>3
      <3> QED BY <3>0, <3>7, <3>8, SMTT(30)
    <2> QED BY <2>1, <2>2
  <1>8. SamplesOK'
    BY <1>1, <1>3, <1>7 DEF SamplesOK, ringVars
  <1> QED BY <1>4, <1>5, <1>6, <1>8

LEMMA TakeFlow == SbIInv /\ FlowIInv /\ (TakeDone \/ TakeTimeout) => FlowIInv'
  <1> SUFFICES ASSUME SbIInv, FlowIInv, TakeDone \/ TakeTimeout PROVE FlowIInv'
    OBVIOUS
  <1> USE DEF SbIInv, FlowIInv
  <1>1. /\ UNCHANGED <<ringVars, histVars, head, total, carry, rd>>
        /\ push.pc = "take" /\ push'.pc = "fill"
    BY DEF TakeDone, TakeTimeout, SbTypeOK
  <1>2. Clean' => Clean
    <2>1. TakeTimeout => timeouts' # 0
      BY SMTT(30) DEF TakeTimeout, SbTypeOK
    <2> QED BY <1>1, <2>1 DEF Clean, TakeDone, histVars
  <1>3. Base' = Base /\ Loaded' = Loaded /\ Submitted' = Submitted
    BY <1>1, SMTT(30) DEF Base, Loaded, Loading, Submitted, histVars
  <1>4. LineOK'
    BY <1>1, <1>2, <1>3, FlowKept DEF histVars
  <1>5. FlowTypeOK' /\ WindowOK'
    BY <1>1, <1>2 DEF FlowTypeOK, WindowOK, ringVars, histVars
  <1>6. SamplesOK'
    BY <1>1, <1>3 DEF SamplesOK, ringVars
  <1> QED BY <1>4, <1>5, <1>6

\* The scratch gets the carry and the head of the push: the samples from the
\* counter on.
LEMMA FillFlow == SbIInv /\ FlowIInv /\ FillScratch => FlowIInv'
  <1> SUFFICES ASSUME SbIInv, FlowIInv, FillScratch PROVE FlowIInv'
    OBVIOUS
  <1> USE DEF SbIInv, FlowIInv
  <1>1. /\ UNCHANGED <<histVars, ring, dma, head, total, carry, offered, rd, timeouts>>
        /\ push.pc = "fill" /\ push'.pc = "submit" /\ push'.count = push.count
        /\ scratch' = [i \in 1 .. MaxAligned |->
                          CASE i <= Len(carry) -> carry[i]
                            [] i \in Len(carry) + 1 .. push.count -> Source(i - Len(carry))
                            [] OTHER -> scratch[i]]
    BY DEF FillScratch, SbTypeOK
  <1>2. /\ Len(carry) \in Nat /\ push.n \in Nat /\ push.count \in Nat /\ push.count <= MaxAligned
        /\ MaxAligned \in Nat /\ total \in Nat /\ offered \in Nat
        /\ total + Len(carry) + push.n = offered
    BY <1>1, PushFacts, SMTT(30) DEF SbTypeOK, IndexOK
  <1>3. \A i \in 1 .. Len(carry) : carry[i] \in Int /\ carry[i] = total + i - 1
    BY ElementOfSeq DEF SbTypeOK, SamplesOK
  <1>4. \A i \in 1 .. MaxAligned :
           /\ scratch'[i] \in Int
           /\ i <= push.count => scratch'[i] = total + i - 1
    <2> SUFFICES ASSUME NEW i \in 1 .. MaxAligned
                 PROVE  scratch'[i] \in Int /\ (i <= push.count => scratch'[i] = total + i - 1)
      OBVIOUS
    <2>1. CASE i <= Len(carry)
      <3>1. i \in 1 .. Len(carry)
        BY <2>1, <1>2, SMTT(30)
      <3>2. scratch'[i] = carry[i]
        <4>1. ~(i \in Len(carry) + 1 .. push.count)
          BY <2>1, <1>2, SMTT(30)
        <4> QED BY <1>1, <2>1, <4>1, SMTT(30)
      <3> QED BY <3>1, <3>2, <1>3
    <2>2. CASE i \in Len(carry) + 1 .. push.count
      <3>1. ~(i <= Len(carry)) /\ Source(i - Len(carry)) = total + i - 1
        BY <2>2, <1>2, SMTT(30) DEF Source
      <3>2. scratch'[i] = Source(i - Len(carry))
        BY <1>1, <2>2, <3>1, SMTT(30)
      <3>3. total + i - 1 \in Int
        BY <1>2, SMTT(30)
      <3> QED BY <3>1, <3>2, <3>3
    <2>3. CASE ~(i <= Len(carry)) /\ ~(i \in Len(carry) + 1 .. push.count)
      <3>1. scratch'[i] = scratch[i] /\ scratch[i] \in Int
        BY <1>1, <2>3, SMTT(30) DEF FlowTypeOK
      <3>2. ~(i <= push.count)
        BY <2>3, <1>2, SMTT(30)
      <3> QED BY <3>1, <3>2
    <2> QED BY <2>1, <2>2, <2>3
  <1>5. scratch' \in [1 .. MaxAligned -> Int]
    <2>1. DOMAIN scratch' = 1 .. MaxAligned /\ scratch' = [i \in DOMAIN scratch' |-> scratch'[i]]
      BY <1>1, SMTT(30)
    <2> QED BY <2>1, <1>4
  <1>6. FlowTypeOK' /\ WindowOK'
    BY <1>1, <1>5 DEF FlowTypeOK, WindowOK, Clean, histVars
  <1>7. SamplesOK'
    <2>1. Loaded' = push.count /\ Base' = total
      BY <1>1 DEF Loaded, Base, Loading
    <2>2. \A i \in 1 .. push.count : i \in 1 .. MaxAligned /\ i <= push.count
      BY <1>2, SMTT(30)
    <2> QED BY <2>1, <2>2, <1>1, <1>4 DEF SamplesOK
  <1>8. LineOK'
    <2> SUFFICES ASSUME Clean PROVE LineOK'
      BY <1>1 DEF LineOK, Clean, histVars
    <2>1. ~orphan /\ RingHolds(ring, Landed)
      BY DEF LineOK
    <2>2. dma = << >> /\ dma' = << >> /\ Len(dma') = 0
      BY <2>1, <1>1, EmptySeq DEF SignalOK, Clean
    <2>3. Landed = total /\ Landed' = total
      BY <2>2, <1>1 DEF Landed, Submitted
    <2>4. ChainOK'
      BY <2>2, SMTT(30) DEF ChainOK
    <2> QED BY <2>1, <2>3, <2>4, <1>1 DEF LineOK, histVars
  <1> QED BY <1>6, <1>7, <1>8

\* A copy that is submitted goes on where the one before it ends.
LEMMA SubmitFlow == SbIInv /\ FlowIInv /\ (SubmitWhole \/ SubmitFirst \/ SubmitSecond) => FlowIInv'
  <1> SUFFICES ASSUME SbIInv, FlowIInv, SubmitWhole \/ SubmitFirst \/ SubmitSecond PROVE FlowIInv'
    OBVIOUS
  <1> USE DEF SbIInv, FlowIInv
  <1>1. /\ UNCHANGED <<histVars, ring, scratch, head, total, carry, rd, timeouts>>
        /\ push.pc \in {"submit", "second"} /\ push'.pc \in {"second", "publish"}
        /\ push'.count = push.count
    BY DEF SubmitWhole, SubmitFirst, SubmitSecond, SbTypeOK
  <1>2. /\ push.count \in Nat /\ push.count > 0 /\ head \in 0 .. Cap - 1 /\ ToEnd \in 1 .. Cap
        /\ total \in Nat /\ Cap \in Nat \ {0} /\ head = total % Cap /\ ToEnd = Cap - head
    BY <1>1, PushFacts, FlowConstants DEF SbTypeOK, IndexOK, ToEnd
  <1>3. Base = total /\ Base' = total /\ Loaded = push.count /\ Loaded' = push.count /\ ToEnd' = ToEnd
    BY <1>1 DEF Base, Loaded, Loading, ToEnd
  <1>4. PICK s \in Segments :
           /\ dma' = Append(dma, s) /\ s.dst = (total + s.src) % Cap
           /\ s.src + s.n <= push.count
           /\ total + s.src = Submitted /\ (total + s.src) + s.n = Submitted'
    <2>0. total + 0 = total /\ 0 \in Nat
      BY <1>2, SMTT(30)
    <2>1. CASE SubmitWhole
      <3> DEFINE s == Segment(head, 0, push.count, TRUE)
      <3>1. s \in Segments /\ s.dst = head /\ s.src = 0 /\ s.n = push.count
        BY <1>2, SMTT(30) DEF Segment, Segments
      <3>2. dma' = Append(dma, s) /\ push.pc = "submit" /\ push'.pc = "publish"
        BY <2>1 DEF SubmitWhole, SbTypeOK
      <3> HIDE DEF s
      <3>3. Submitted = total /\ Submitted' = total + push.count
        BY <3>2, <1>1 DEF Submitted
      <3>4. 0 + push.count <= push.count
        BY <1>2, SMTT(30)
      <3> QED BY <3>1, <3>2, <3>3, <3>4, <2>0, <1>2
    <2>2. CASE SubmitFirst
      <3> DEFINE s == Segment(head, 0, ToEnd, FALSE)
      <3>1. s \in Segments /\ s.dst = head /\ s.src = 0 /\ s.n = ToEnd
        BY <1>2, SMTT(30) DEF Segment, Segments
      <3>2. dma' = Append(dma, s) /\ push.pc = "submit" /\ push'.pc = "second"
        BY <2>2 DEF SubmitFirst, FirstCallback, SbTypeOK
      <3> HIDE DEF s
      <3>3. Submitted = total /\ Submitted' = total + ToEnd
        BY <3>2, <1>1, <1>3 DEF Submitted
      <3>4. 0 + ToEnd <= push.count
        BY <2>2, <1>2, SMTT(30) DEF SubmitFirst, Wraps
      <3> QED BY <3>1, <3>2, <3>3, <3>4, <2>0, <1>2
    <2>3. CASE SubmitSecond
      <3> DEFINE k == push.count - ToEnd
                 s == Segment(0, ToEnd, k, TRUE)
      <3>1. push.count > ToEnd /\ push.pc = "second"
        BY <2>3 DEF SubmitSecond, IndexOK, Wraps
      <3>2. k \in Nat /\ ToEnd \in Nat /\ ToEnd + k = push.count /\ ToEnd + k <= push.count
            /\ (total + ToEnd) + k = total + push.count /\ head + ToEnd = 0 + (1 * Cap)
            /\ head \in Nat
        BY <3>1, <1>2, SMTT(30)
      <3>3. s \in Segments /\ s.dst = 0 /\ s.src = ToEnd /\ s.n = k
        BY <3>2, <2>0 DEF Segment, Segments
      <3>4. dma' = Append(dma, s) /\ push'.pc = "publish"
        BY <2>3 DEF SubmitSecond, SecondSource, SbTypeOK
      <3> HIDE DEF s, k
      <3>5. Submitted = total + ToEnd /\ Submitted' = total + push.count
        BY <3>1, <3>4, <1>1 DEF Submitted
      <3>6. (total + ToEnd) % Cap = 0
        <4>1. ((total % Cap) + ToEnd) % Cap = (total + ToEnd) % Cap
          BY <1>2, <3>2, ModSum
        <4>2. (0 + (1 * Cap)) % Cap = 0 % Cap /\ 0 % Cap = 0
          BY <1>2, ModMultiple, ModSmall, SMTT(30)
        <4> QED BY <4>1, <4>2, <3>2, <1>2
      <3> QED BY <3>2, <3>3, <3>4, <3>5, <3>6
    <2> QED BY <2>1, <2>2, <2>3
  <1>5. FlowTypeOK' /\ WindowOK' /\ SamplesOK'
    BY <1>1, <1>3 DEF FlowTypeOK, WindowOK, SamplesOK, Clean, histVars
  <1>6. /\ Len(dma') = Len(dma) + 1 /\ Len(dma) \in Nat
        /\ \A i \in 1 .. Len(dma) : dma'[i] = dma[i]
        /\ dma'[Len(dma) + 1] = s
    BY <1>4, LenProperties, AppendProperties, SMTT(30) DEF SbTypeOK
  <1>7. LineOK'
    <2> SUFFICES ASSUME Clean PROVE LineOK'
      BY <1>1 DEF LineOK, Clean, histVars
    <2>1. ~orphan /\ ChainOK /\ RingHolds(ring, Landed)
      BY DEF LineOK
    <2>2. dma' # << >> /\ Landed' = total + dma'[1].src
      <3>1. dma' # << >>
        BY <1>6, EmptySeq, SMTT(30)
      <3> QED BY <3>1, <1>3 DEF Landed
    <2>3. Landed' = Landed
      <3>1. CASE dma = << >>
        <4>1. dma'[1] = s
          BY <3>1, <1>6, EmptySeq, SMTT(30)
        <4> QED BY <3>1, <4>1, <2>2, <1>4 DEF Landed
      <3>2. CASE dma # << >>
        <4>1. 1 \in 1 .. Len(dma)
          BY <3>2, <1>6, EmptySeq, SMTT(30) DEF SbTypeOK
        <4> QED BY <3>2, <4>1, <2>2, <1>3, <1>6 DEF Landed
      <3> QED BY <3>1, <3>2
    <2>4. \A i \in 1 .. Len(dma') : dma'[i].dst = (Base' + dma'[i].src) % Cap
                                    /\ dma'[i].src + dma'[i].n <= Loaded'
      <3>1. \A i \in 1 .. Len(dma') : i \in 1 .. Len(dma) \/ i = Len(dma) + 1
        BY <1>6, SMTT(30)
      <3> QED BY <3>1, <2>1, <1>3, <1>4, <1>6 DEF ChainOK
    <2>5. ASSUME NEW i \in 1 .. Len(dma') - 1
          PROVE  dma'[i].src + dma'[i].n = dma'[i + 1].src
      <3>1. i \in 1 .. Len(dma) /\ dma'[i] = dma[i]
        BY <1>6, SMTT(30)
      <3>2. CASE i < Len(dma)
        <4>1. i \in 1 .. Len(dma) - 1 /\ i + 1 \in 1 .. Len(dma)
          BY <3>1, <3>2, <1>6, SMTT(30)
        <4> QED BY <3>1, <4>1, <1>6, <2>1 DEF ChainOK
      <3>3. CASE i = Len(dma)
        <4>1. dma # << >> /\ dma[i] \in Segments
          BY <3>1, EmptySeq, ElementOfSeq, SMTT(30) DEF SbTypeOK
        <4>2. total + dma[i].src + dma[i].n = total + s.src
          BY <4>1, <3>3, <2>1, <1>3, <1>4 DEF ChainOK
        <4>3. dma[i].src \in Nat /\ dma[i].n \in Nat /\ s.src \in Nat
          BY <4>1, <1>4 DEF Segments
        <4>4. dma[i].src + dma[i].n = s.src
          <5> DEFINE x == dma[i].src
                     y == dma[i].n
                     z == s.src
          <5>1. x \in Nat /\ y \in Nat /\ z \in Nat /\ total \in Nat /\ total + x + y = total + z
            BY <4>2, <4>3, <1>2
          <5> HIDE DEF x, y, z
          <5>2. x + y = z
            BY <5>1, SMTT(30)
          <5> QED BY <5>2 DEF x, y, z
        <4> QED BY <4>4, <3>1, <3>3, <1>6
      <3> QED BY <3>1, <3>2, <3>3, <1>6, SMTT(30)
    <2>6. Base' + dma'[Len(dma')].src + dma'[Len(dma')].n = Submitted'
      BY <1>3, <1>4, <1>6
    <2>7. ChainOK'
      BY <2>4, <2>5, <2>6 DEF ChainOK
    <2> QED BY <2>1, <2>3, <2>7, <1>1 DEF LineOK, histVars
  <1> QED BY <1>5, <1>7

\* When nothing was submitted, the processor writes the same samples to the same
\* places at once.
LEMMA FailFlow == SbIInv /\ FlowIInv /\ (SubmitFails \/ SecondFails) => FlowIInv'
  <1> SUFFICES ASSUME SbIInv, FlowIInv, SubmitFails \/ SecondFails PROVE FlowIInv'
    OBVIOUS
  <1> USE DEF SbIInv, FlowIInv
  <1>1. /\ UNCHANGED <<scratch, dma, settled, head, total, carry, rd, timeouts>>
        /\ push.pc \in {"submit", "second"} /\ push'.pc = "publish" /\ push'.count = push.count
    BY DEF SubmitFails, SecondFails, SbTypeOK, ringVars, histVars
  <1>2. /\ push.count \in Nat /\ push.count > 0 /\ push.count <= Cap /\ push.count <= MaxAligned
        /\ head \in 0 .. Cap - 1 /\ total \in Nat /\ Cap \in Nat \ {0} /\ MaxAligned \in Nat
        /\ head = total % Cap
    BY <1>1, PushFacts, FlowConstants DEF SbTypeOK, IndexOK
  <1>3. Base = total /\ Base' = total /\ Loaded = push.count /\ Loaded' = push.count
    BY <1>1 DEF Base, Loaded, Loading
  <1>4. SamplesOK'
    BY <1>1, <1>3 DEF SamplesOK
  <1>5. CASE SecondFails
    <2>1. ~Clean'
      <3>1. 1 \in 1 .. push.count
        BY <1>2, SMTT(30)
      <3> QED BY <1>5, <3>1 DEF SecondFails, Clean
    <2>2. FlowTypeOK'
      BY <1>5, <1>1 DEF SecondFails, FlowTypeOK, ringVars
    <2>3. WindowOK' /\ LineOK'
      BY <2>1, <1>1 DEF WindowOK, LineOK
    <2> QED BY <2>2, <2>3, <1>4
  <1>6. CASE SubmitFails
    <2> DEFINE Dist(i) == (i - head) % Cap
    <2>1. /\ push.pc = "submit" /\ lost' = lost /\ (orphan' <=> orphan)
          /\ ring' = [i \in Offsets |->
                         IF Dist(i) < push.count THEN scratch[Dist(i) + 1] ELSE ring[i]]
      BY <1>6 DEF SubmitFails, histVars
    <2>2. \A i \in Offsets : /\ Dist(i) \in 0 .. Cap - 1
                             /\ (head + Dist(i)) % Cap = i
      BY <1>2, ModDistance DEF Offsets
    <2>3. \A d \in 0 .. push.count - 1 :
             /\ d \in 0 .. Cap - 1 /\ d \in Nat /\ d < push.count
             /\ d + 1 \in 1 .. push.count /\ d + 1 \in 1 .. MaxAligned
             /\ total + (d + 1) - 1 = total + d
      BY <1>2, SMTT(30)
    <2>4. \A d \in 0 .. push.count - 1 :
             /\ (head + d) % Cap = (total + d) % Cap
             /\ (total + d) % Cap \in Offsets
             /\ Dist((total + d) % Cap) = d
      <3> SUFFICES ASSUME NEW d \in 0 .. push.count - 1
                   PROVE  /\ (head + d) % Cap = (total + d) % Cap
                          /\ (total + d) % Cap \in Offsets
                          /\ Dist((total + d) % Cap) = d
        OBVIOUS
      <3>1. d \in Nat /\ d \in 0 .. Cap - 1
        BY <2>3
      <3>2. (head + d) % Cap = (total + d) % Cap
        BY <3>1, <1>2, ModSum
      <3>3. total + d \in Nat
        BY <3>1, <1>2, SMTT(30)
      <3>4. (total + d) % Cap \in Offsets
        BY <3>3, <1>2, DivMod DEF Offsets
      <3>5. (((head + d) % Cap) - head) % Cap = d
        BY <3>1, <1>2, ModDistanceUnique
      <3> QED BY <3>2, <3>4, <3>5
    <2>5. ring' \in [Offsets -> Int]
      <3> SUFFICES ASSUME NEW i \in Offsets
                   PROVE  (IF Dist(i) < push.count THEN scratch[Dist(i) + 1] ELSE ring[i]) \in Int
        BY <2>1
      <3>1. CASE Dist(i) < push.count
        <4>1. Dist(i) \in 0 .. push.count - 1
          <5>1. Dist(i) \in 0 .. Cap - 1
            BY <2>2
          <5> HIDE DEF Dist
          <5> QED BY <5>1, <3>1, <1>2, SMTT(30)
        <4>2. Dist(i) + 1 \in 1 .. MaxAligned
          BY <4>1, <2>3
        <4> QED BY <3>1, <4>2 DEF FlowTypeOK
      <3>2. CASE ~(Dist(i) < push.count)
        BY <3>2 DEF FlowTypeOK
      <3> QED BY <3>1, <3>2
    <2>6. FlowTypeOK'
      BY <2>5, <1>1 DEF FlowTypeOK
    <2>7. WindowOK'
      BY <2>1, <1>1 DEF WindowOK, Clean
    <2>8. LineOK'
      <3> SUFFICES ASSUME Clean PROVE LineOK'
        BY <2>1, <1>1 DEF LineOK, Clean
      <3>1. ~orphan /\ RingHolds(ring, Landed)
        BY DEF LineOK
      <3>2. dma = << >> /\ dma' = << >> /\ Len(dma') = 0
        BY <3>1, <2>1, <1>1, EmptySeq DEF SignalOK, Clean
      <3>3. Landed = total /\ Landed' = total + push.count
        BY <3>2, <2>1, <1>1 DEF Landed, Submitted
      <3>4. \A d \in 0 .. push.count - 1 : ring'[(total + d) % Cap] = total + d
        <4> SUFFICES ASSUME NEW d \in 0 .. push.count - 1
                     PROVE  ring'[(total + d) % Cap] = total + d
          OBVIOUS
        <4>1. ring'[(total + d) % Cap] = scratch[d + 1]
          BY <2>1, <2>3, <2>4
        <4>2. scratch[d + 1] = total + (d + 1) - 1
          BY <2>3, <1>3 DEF SamplesOK
        <4> QED BY <4>1, <4>2, <2>3
      <3>5. ASSUME NEW i \in Offsets, \A d \in 0 .. push.count - 1 : i # (total + d) % Cap
            PROVE  ring'[i] = ring[i]
        <4>1. ~(Dist(i) < push.count)
          <5> SUFFICES ASSUME Dist(i) < push.count PROVE FALSE
            OBVIOUS
          <5>1. Dist(i) \in 0 .. Cap - 1 /\ (head + Dist(i)) % Cap = i
            BY <2>2
          <5> HIDE DEF Dist
          <5>2. Dist(i) \in 0 .. push.count - 1
            BY <5>1, <1>2, SMTT(30)
          <5> QED BY <5>1, <5>2, <2>4, <3>5
        <4> QED BY <4>1, <2>1
      <3>6. push.count \in 0 .. Cap
        BY <1>2, SMTT(30)
      <3>7. RingHolds(ring', total + push.count)
        BY <3>1, <3>3, <3>4, <3>5, <3>6, <1>2, Overwrite
      <3>8. ChainOK'
        BY <3>2, SMTT(30) DEF ChainOK
      <3> QED BY <3>1, <3>3, <3>7, <3>8, <2>1 DEF LineOK
    <2> QED BY <2>6, <2>7, <2>8, <1>4
  <1> QED BY <1>5, <1>6

\* Once counted, the samples of the scratch are those before the counter, and the
\* tail of the push is carried.
LEMMA PublishFlow == SbIInv /\ SbIInv' /\ FlowIInv /\ Publish => FlowIInv'
  <1> SUFFICES ASSUME SbIInv, SbIInv', FlowIInv, Publish PROVE FlowIInv'
    OBVIOUS
  <1> USE DEF SbIInv, FlowIInv
  <1> DEFINE left == Len(carry) + push.n - push.count
             rest == [i \in 1 .. left |-> Source(push.n - left + i)]
  <1>1. /\ UNCHANGED <<ringVars, rd, lost, orphan, timeouts>>
        /\ push.pc = "publish" /\ push'.pc = "idle" /\ total' = total + push.count
        /\ settled' = total /\ carry' = rest
    BY DEF Publish, SbTypeOK
  <1>2. /\ Len(carry) \in Nat /\ push.n \in Nat /\ push.count \in Nat /\ push.count <= MaxAligned
        /\ push.count <= Len(carry) + push.n /\ total \in Nat /\ total' \in Nat /\ offered \in Nat
        /\ total + Len(carry) + push.n = offered /\ MaxAligned \in Nat
    BY <1>1, PushFacts, SMTT(30) DEF SbTypeOK, IndexOK
  <1>3. /\ settled \in Nat /\ settled <= settled' /\ total <= total' /\ settled' \in Nat
        /\ settled' <= total' /\ total' <= settled' + MaxAligned /\ total' - total = push.count
    BY <1>1, <1>2, SMTT(30) DEF FlowTypeOK
  <1>4. Clean' => Clean
    BY <1>1 DEF Clean
  <1>5. Base' = Base /\ Loaded' = Loaded /\ Submitted' = Submitted
    BY <1>1, <1>3 DEF Base, Loaded, Loading, Submitted
  <1>6. LineOK'
    BY <1>1, <1>4, <1>5, FlowKept
  <1>7. FlowTypeOK'
    BY <1>1, <1>3 DEF FlowTypeOK, ringVars
  <1>8. WindowOK'
    BY <1>1, <1>2, <1>3, <1>4, WindowKept
  <1>9. \A i \in 1 .. Len(carry') : carry'[i] = total' + i - 1
    <2>1. left \in Nat
      BY <1>2, SMTT(30)
    <2>2. rest \in [1 .. left -> Int]
      BY <1>2, <2>1, SMTT(30) DEF Source
    <2>3. Len(rest) = left
      BY <2>1, <2>2, FunctionIsSequence
    <2>4. \A i \in 1 .. left : Source(push.n - left + i) = (total + push.count) + i - 1
      <3> SUFFICES ASSUME NEW i \in 1 .. left
                   PROVE  offered - push.n + (push.n - left + i) - 1 = (total + push.count) + i - 1
        BY DEF Source
      <3> DEFINE l == left
                 n == push.n
                 c == push.count
                 k == Len(carry)
      <3>1. l = k + n - c /\ i \in 1 .. l
        OBVIOUS
      <3>2. /\ l \in Nat /\ n \in Nat /\ c \in Nat /\ k \in Nat /\ total \in Nat
            /\ offered \in Nat /\ total + k + n = offered
        BY <1>2, <2>1
      <3> HIDE DEF l, n, c, k
      <3>3. offered - n + (n - l + i) - 1 = (total + c) + i - 1
        BY <3>1, <3>2, SMTT(30)
      <3> QED BY <3>3 DEF l, n, c, k
    <2>5. \A i \in 1 .. left : rest[i] = Source(push.n - left + i)
      OBVIOUS
    <2> HIDE DEF rest, left
    <2> QED BY <2>3, <2>4, <2>5, <1>1
  <1>10. SamplesOK'
    BY <1>1, <1>5, <1>9 DEF SamplesOK, ringVars
  <1> QED BY <1>6, <1>7, <1>8, <1>10

\* What a line that lands does to the queue: the first copy shrinks by a line, or
\* leaves when it was its last.
LEMMA QueueMoves ==
  ASSUME SbIInv, Land
  PROVE  /\ Len(dma) \in Nat \ {0} /\ dma[1] \in Segments /\ SegmentOK(dma[1])
         /\ dma[1].n >= Align
         /\ \/ /\ dma[1].n = Align /\ Len(dma') = Len(dma) - 1
               /\ \A i \in 1 .. Len(dma) - 1 : dma'[i] = dma[i + 1]
            \/ /\ dma[1].n > Align /\ Len(dma') = Len(dma)
               /\ dma'[1] = Segment(dma[1].dst + Align, dma[1].src + Align,
                                    dma[1].n - Align, dma[1].cb)
               /\ \A i \in 2 .. Len(dma) : dma'[i] = dma[i]
  <1> USE DEF SbIInv
  <1> DEFINE s == Head(dma)
             t == Tail(dma)
             x == Segment(s.dst + Align, s.src + Align, s.n - Align, s.cb)
  <1>1. dma # << >> /\ dma \in Seq(Segments)
    BY DEF Land, SbTypeOK
  <1>2. /\ s \in Segments /\ s = dma[1] /\ t \in Seq(Segments) /\ Len(dma) \in Nat \ {0}
        /\ Len(t) = Len(dma) - 1
        /\ \A i \in 1 .. Len(t) : t[i] = dma[i + 1]
    BY <1>1, HeadTailProperties, EmptySeq, LenProperties, SMTT(30)
  <1>3. SegmentOK(s) /\ s.dst \in Nat /\ s.src \in Nat /\ s.n \in Nat /\ s.cb \in BOOLEAN
    BY <1>2, SMTT(30) DEF SegmentsOK, Segments
  <1>4. dma' = IF s.n <= Align THEN t ELSE <<x>> \o t
    BY DEF Land
  <1>5. s.n >= Align
    <2>1. 0 % Align = 0
      BY FlowConstants, ModSmall, SMTT(30)
    <2>2. 0 \in Nat /\ 0 < s.n
      BY <1>3, SMTT(30) DEF SegmentOK
    <2>3. 0 + Align <= s.n
      BY <2>1, <2>2, <1>3, FlowConstants, MultipleGap DEF SegmentOK
    <2> QED BY <2>3, <1>3, FlowConstants, SMTT(30)
  <1>6. CASE s.n <= Align
    <2>1. s.n = Align
      BY <1>3, <1>5, <1>6, FlowConstants, SMTT(30)
    <2> QED BY <2>1, <1>2, <1>3, <1>4, <1>5, <1>6
  <1>7. CASE ~(s.n <= Align)
    <2>1. s.n > Align
      BY <1>3, <1>7, FlowConstants, SMTT(30)
    <2>2. x \in Segments
      <3>1. s.n - Align \in Nat /\ s.dst + Align \in Nat /\ s.src + Align \in Nat
        BY <2>1, <1>3, FlowConstants, SMTT(30)
      <3> QED BY <3>1, <1>3 DEF Segment, Segments
    <2>3. x = Segment(dma[1].dst + Align, dma[1].src + Align, dma[1].n - Align, dma[1].cb)
      BY <1>2
    <2> HIDE DEF x
    <2>4. <<x>> \in Seq(Segments) /\ Len(<<x>>) = 1 /\ <<x>>[1] = x
      BY <2>2, SMTT(30)
    <2>5. /\ Len(dma') = 1 + Len(t)
          /\ \A i \in 1 .. 1 + Len(t) : dma'[i] = IF i <= 1 THEN <<x>>[i] ELSE t[i - 1]
      BY <2>4, <1>2, <1>4, <1>7, ConcatProperties, SMTT(30)
    <2>6. /\ Len(dma') = Len(dma) /\ dma'[1] = x
          /\ \A i \in 2 .. Len(dma) : dma'[i] = dma[i]
      BY <2>4, <2>5, <1>2, SMTT(30)
    <2> QED BY <2>1, <2>3, <2>6, <1>2, <1>3, <1>5
  <1> QED BY <1>6, <1>7

\* A line lands at the place of its samples, which are the next ones.
LEMMA LandFlow == SbIInv /\ FlowIInv /\ Land => FlowIInv'
  <1> SUFFICES ASSUME SbIInv, FlowIInv, Land PROVE FlowIInv'
    OBVIOUS
  <1> USE DEF SbIInv, FlowIInv
  <1> DEFINE s == dma[1]
  <1>1. /\ UNCHANGED <<scratch, head, total, carry, push, rd, lost, settled, timeouts>>
        /\ ring' = [i \in Offsets |->
                       IF i \in s.dst .. s.dst + Align - 1
                       THEN scratch[s.src + (i - s.dst) + 1] ELSE ring[i]]
        /\ orphan' = (orphan /\ dma' # << >>)
    <2>1. s = Head(dma)
      BY HeadTailProperties, SMTT(30) DEF Land, SbTypeOK
    <2> QED BY <2>1 DEF Land
  <1>2. /\ Base' = Base /\ Loaded' = Loaded /\ Submitted' = Submitted
        /\ (Clean' <=> Clean) /\ SamplesOK' /\ WindowOK'
    BY <1>1 DEF Base, Loaded, Loading, Submitted, ToEnd, Clean, SamplesOK, WindowOK
  <1>3. /\ Len(dma) \in Nat \ {0} /\ s \in Segments /\ SegmentOK(s) /\ s.n >= Align
        /\ s.dst \in Nat /\ s.src \in Nat /\ s.n \in Nat
    BY QueueMoves DEF Segments
  <1>4. /\ Cap \in Nat \ {0} /\ Align \in Nat \ {0} /\ MaxAligned \in Nat
        /\ s.dst + s.n <= Cap /\ s.src + s.n <= MaxAligned
    BY <1>3, FlowConstants DEF SegmentOK
  <1>5. ring' \in [Offsets -> Int]
    <2> SUFFICES ASSUME NEW i \in Offsets
                 PROVE  (IF i \in s.dst .. s.dst + Align - 1
                         THEN scratch[s.src + (i - s.dst) + 1] ELSE ring[i]) \in Int
      BY <1>1
    <2>1. i \in s.dst .. s.dst + Align - 1 => s.src + (i - s.dst) + 1 \in 1 .. MaxAligned
      BY <1>3, <1>4, SMTT(30)
    <2> QED BY <2>1 DEF FlowTypeOK
  <1>6. FlowTypeOK'
    BY <1>1, <1>5 DEF FlowTypeOK
  <1>7. LineOK'
    <2> SUFFICES ASSUME Clean PROVE LineOK'
      BY <1>2 DEF LineOK
    <2>1. ~orphan /\ ChainOK /\ RingHolds(ring, Landed) /\ ~orphan'
      BY <1>1 DEF LineOK
    <2>2. /\ Landed \in Nat /\ Base \in Nat /\ Loaded \in Nat /\ Loaded <= MaxAligned
      BY <2>1, LandedFacts
    <2>3. 1 \in 1 .. Len(dma) /\ dma # << >>
      BY <1>3, EmptySeq, SMTT(30)
    <2>4. /\ Landed = Base + s.src /\ s.dst = Landed % Cap /\ s.src + s.n <= Loaded
      BY <2>1, <2>3 DEF Landed, ChainOK
    <2>5. \A d \in 0 .. Align - 1 :
             /\ (Landed + d) % Cap = s.dst + d /\ s.dst + d \in Offsets
             /\ s.dst + d \in s.dst .. s.dst + Align - 1
             /\ s.src + ((s.dst + d) - s.dst) + 1 = s.src + d + 1
             /\ s.src + d + 1 \in 1 .. Loaded
             /\ Base + (s.src + d + 1) - 1 = Landed + d
      <3> SUFFICES ASSUME NEW d \in 0 .. Align - 1
                   PROVE  /\ (Landed + d) % Cap = s.dst + d /\ s.dst + d \in Offsets
                          /\ s.dst + d \in s.dst .. s.dst + Align - 1
                          /\ s.src + ((s.dst + d) - s.dst) + 1 = s.src + d + 1
                          /\ s.src + d + 1 \in 1 .. Loaded
                          /\ Base + (s.src + d + 1) - 1 = Landed + d
        OBVIOUS
      <3>1. /\ d \in 0 .. Cap - 1 /\ s.dst + d < Cap
            /\ s.dst + d \in s.dst .. s.dst + Align - 1
            /\ s.src + ((s.dst + d) - s.dst) + 1 = s.src + d + 1
            /\ s.src + d + 1 \in 1 .. Loaded
        <4> DEFINE dst == s.dst
                   src == s.src
                   n == s.n
        <4>1. /\ dst \in Nat /\ src \in Nat /\ n \in Nat /\ n >= Align
              /\ dst + n <= Cap /\ src + n <= Loaded
          BY <2>4, <1>3, <1>4
        <4>2. Cap \in Nat /\ Align \in Nat /\ Loaded \in Nat
          BY <2>2, <1>4
        <4> HIDE DEF dst, src, n
        <4>3. /\ d \in 0 .. Cap - 1 /\ dst + d < Cap
              /\ dst + d \in dst .. dst + Align - 1
              /\ src + ((dst + d) - dst) + 1 = src + d + 1
              /\ src + d + 1 \in 1 .. Loaded
          BY <4>1, <4>2, SMTT(30)
        <4> QED BY <4>3 DEF dst, src, n
      <3>2. Base + (s.src + d + 1) - 1 = Landed + d
        BY <2>2, <2>4, <1>3, <1>4, SMTT(30)
      <3>3. (Landed + d) % Cap = IF (Landed % Cap) + d < Cap THEN (Landed % Cap) + d
                                 ELSE ((Landed % Cap) + d) - Cap
        BY <2>2, <3>1, <1>4, ModAdd
      <3>4. s.dst + d \in Offsets
        BY <3>1, <1>3, <1>4, SMTT(30) DEF Offsets
      <3> QED BY <3>1, <3>2, <3>3, <3>4, <2>4
    <2>6. \A d \in 0 .. Align - 1 : ring'[(Landed + d) % Cap] = Landed + d
      <3> SUFFICES ASSUME NEW d \in 0 .. Align - 1 PROVE ring'[(Landed + d) % Cap] = Landed + d
        OBVIOUS
      <3>1. ring'[s.dst + d] = scratch[s.src + d + 1]
        BY <2>5, <1>1
      <3>2. scratch[s.src + d + 1] = Base + (s.src + d + 1) - 1
        BY <2>5 DEF SamplesOK
      <3> QED BY <3>1, <3>2, <2>5
    <2>7. ASSUME NEW i \in Offsets, \A d \in 0 .. Align - 1 : i # (Landed + d) % Cap
          PROVE  ring'[i] = ring[i]
      <3>1. ~(i \in s.dst .. s.dst + Align - 1)
        <4> SUFFICES ASSUME i \in s.dst .. s.dst + Align - 1 PROVE FALSE
          OBVIOUS
        <4> DEFINE d == i - s.dst
        <4>1. d \in 0 .. Align - 1 /\ i = s.dst + d
          BY <1>3, <1>4, SMTT(30)
        <4> HIDE DEF d
        <4> QED BY <4>1, <2>5, <2>7
      <3> QED BY <3>1, <1>1
    <2>8. RingHolds(ring', Landed + Align)
      <3>1. Align \in 0 .. Cap
        BY <1>3, <1>4, SMTT(30)
      <3> QED BY <3>1, <2>1, <2>2, <2>6, <2>7, Overwrite
    <2>9. ChainOK' /\ Landed' = Landed + Align
      <3>1. CASE s.n = Align /\ Len(dma') = Len(dma) - 1
                 /\ \A i \in 1 .. Len(dma) - 1 : dma'[i] = dma[i + 1]
        <4>1. \A i \in 1 .. Len(dma') : i + 1 \in 1 .. Len(dma) /\ dma'[i] = dma[i + 1]
          BY <3>1, <1>3, SMTT(30)
        <4>2. \A i \in 1 .. Len(dma') - 1 : /\ i + 1 \in 1 .. Len(dma) - 1
                                            /\ i \in 1 .. Len(dma') /\ i + 1 \in 1 .. Len(dma')
          BY <3>1, <1>3, SMTT(30)
        <4>3. Landed + Align = Base + (s.src + s.n)
          BY <3>1, <2>2, <2>4, <1>3, <1>4, SMTT(30)
        <4>4. CASE dma' = << >>
          <5>1. Len(dma') = 0 /\ Len(dma) = 1
            BY <4>4, <3>1, <1>3, EmptySeq, SMTT(30)
          <5>2. Base + s.src + s.n = Submitted
            BY <5>1, <2>1, <2>3 DEF ChainOK
          <5>3. Landed' = Landed + Align
            <6>1. Base + s.src + s.n = Base + (s.src + s.n)
              BY <2>2, <1>3, SMTT(30)
            <6> QED BY <4>3, <4>4, <5>2, <6>1, <1>2 DEF Landed
          <5>4. ChainOK'
            BY <5>1, <4>4, SMTT(30) DEF ChainOK
          <5> QED BY <5>3, <5>4
        <4>5. CASE dma' # << >>
          <5>1. /\ Len(dma') \in Nat \ {0} /\ 1 \in 1 .. Len(dma) - 1 /\ 1 \in 1 .. Len(dma')
                /\ Len(dma') \in 1 .. Len(dma') /\ Len(dma') + 1 = Len(dma)
            <6>1. dma' \in Seq(Segments)
              BY LandInv DEF SbTypeOK
            <6>2. Len(dma') # 0
              BY <6>1, <4>5, EmptySeq
            <6> QED BY <6>2, <3>1, <1>3, SMTT(30)
          <5>2. s.src + s.n = dma[1 + 1].src /\ dma'[1] = dma[1 + 1]
            BY <5>1, <4>1, <2>1 DEF ChainOK
          <5>3. Landed' = Landed + Align
            BY <5>2, <4>3, <4>5, <1>2 DEF Landed
          <5>4. Base + dma'[Len(dma')].src + dma'[Len(dma')].n = Submitted
            BY <5>1, <4>1, <2>1, <2>3 DEF ChainOK
          <5>5. ChainOK'
            BY <5>4, <4>1, <4>2, <2>1, <1>2 DEF ChainOK
          <5> QED BY <5>3, <5>5
        <4> QED BY <4>4, <4>5
      <3>2. CASE /\ s.n > Align /\ Len(dma') = Len(dma)
                 /\ dma'[1] = Segment(s.dst + Align, s.src + Align, s.n - Align, s.cb)
                 /\ \A i \in 2 .. Len(dma) : dma'[i] = dma[i]
        <4>1. /\ dma'[1].dst = s.dst + Align /\ dma'[1].src = s.src + Align
              /\ dma'[1].n = s.n - Align
          BY <3>2, SMTT(30) DEF Segment
        <4>2. dma'[1].src + dma'[1].n = s.src + s.n /\ Base + dma'[1].src = Landed + Align
              /\ Base + dma'[1].src + dma'[1].n = Base + s.src + s.n
          <5> DEFINE src == s.src
                     n == s.n
          <5>1. src \in Nat /\ n \in Nat /\ n > Align /\ Base \in Nat /\ Align \in Nat
            BY <3>2, <2>2, <1>3, <1>4
          <5> HIDE DEF src, n
          <5>2. /\ (src + Align) + (n - Align) = src + n
                /\ Base + (src + Align) = (Base + src) + Align
                /\ Base + (src + Align) + (n - Align) = Base + src + n
            BY <5>1, SMTT(30)
          <5> QED BY <5>2, <4>1, <2>4 DEF src, n
        <4>3. (Landed + Align) % Cap = s.dst + Align
          <5>1. Align \in 0 .. Cap - 1 /\ s.dst + Align < Cap
            BY <3>2, <1>3, <1>4, SMTT(30)
          <5>2. (Landed + Align) % Cap = IF (Landed % Cap) + Align < Cap THEN (Landed % Cap) + Align
                                         ELSE ((Landed % Cap) + Align) - Cap
            BY <5>1, <2>2, <1>4, ModAdd
          <5> QED BY <5>1, <5>2, <2>4
        <4>4. dma' # << >>
          <5>1. Len(dma') # 0
            BY <3>2, <1>3
          <5> QED BY <5>1, EmptySeq
        <4>5. Landed' = Landed + Align
          BY <4>2, <4>4, <1>2 DEF Landed
        <4>6. \A i \in 1 .. Len(dma') : i = 1 \/ i \in 2 .. Len(dma)
          BY <3>2, <1>3, SMTT(30)
        <4>7. \A i \in 1 .. Len(dma') - 1 : i \in 1 .. Len(dma) - 1 /\ i + 1 \in 2 .. Len(dma)
                                            /\ (i = 1 \/ i \in 2 .. Len(dma))
          BY <3>2, <1>3, SMTT(30)
        <4>8. \A i \in 1 .. Len(dma') : dma'[i].src + dma'[i].n = dma[i].src + dma[i].n
                                        /\ Base + dma'[i].src + dma'[i].n = Base + dma[i].src + dma[i].n
          BY <4>2, <4>6, <3>2
        <4>9. \A i \in 1 .. Len(dma') : dma'[i].dst = (Base' + dma'[i].src) % Cap
                                        /\ dma'[i].src + dma'[i].n <= Loaded'
          <5> SUFFICES ASSUME NEW i \in 1 .. Len(dma')
                       PROVE  dma'[i].dst = (Base + dma'[i].src) % Cap
                              /\ dma'[i].src + dma'[i].n <= Loaded
            BY <1>2
          <5>1. CASE i = 1
            BY <5>1, <4>1, <4>2, <4>3, <2>4
          <5>2. CASE i \in 2 .. Len(dma)
            BY <5>2, <3>2, <2>1 DEF ChainOK
          <5> QED BY <5>1, <5>2, <4>6
        <4>10. \A i \in 1 .. Len(dma') - 1 : dma'[i].src + dma'[i].n = dma'[i + 1].src
          <5> SUFFICES ASSUME NEW i \in 1 .. Len(dma') - 1
                       PROVE  dma'[i].src + dma'[i].n = dma'[i + 1].src
            OBVIOUS
          <5>1. i \in 1 .. Len(dma')
            BY <1>3, <3>2, SMTT(30)
          <5>2. dma[i].src + dma[i].n = dma[i + 1].src /\ dma'[i + 1] = dma[i + 1]
            BY <4>7, <3>2, <2>1 DEF ChainOK
          <5> QED BY <5>1, <5>2, <4>8
        <4>11. Base' + dma'[Len(dma')].src + dma'[Len(dma')].n = Submitted'
          <5>1. Len(dma) \in 1 .. Len(dma')
            BY <1>3, <3>2, SMTT(30)
          <5> QED BY <5>1, <4>8, <3>2, <2>1, <2>3, <1>2 DEF ChainOK
        <4> QED BY <4>5, <4>9, <4>10, <4>11 DEF ChainOK
      <3> QED BY <3>1, <3>2, QueueMoves
    <2> QED BY <2>1, <2>8, <2>9 DEF LineOK
  <1> QED BY <1>2, <1>6, <1>7

\* A sample the worker reads from an old window has landed, and the one that will
\* take its place has not, as long as the window is a push away from being lapped.
LEMMA WorkerFlow ==
  ASSUME SbIInv, FlowIInv,
         (\E start \in 0 .. MaxSamples : CheckWindow(start)) \/ ReadSample \/ Recheck \/ Demodulate
  PROVE  FlowIInv'
  <1> USE DEF SbIInv, FlowIInv
  <1>1. UNCHANGED <<ringVars, histVars, head, total, carry, push, timeouts>>
    BY DEF CheckWindow, ReadSample, Recheck, Demodulate
  <1>2. Base' = Base /\ Loaded' = Loaded /\ Submitted' = Submitted /\ (Clean' <=> Clean)
    BY <1>1 DEF Base, Loaded, Loading, Submitted, ToEnd, Clean, histVars
  <1>3. LineOK'
    BY <1>1, <1>2, FlowKept DEF histVars
  <1>4. SamplesOK'
    BY <1>1, <1>2 DEF SamplesOK, ringVars
  <1>5. /\ ring' = ring /\ scratch' = scratch /\ settled' = settled /\ total' = total
        /\ settled \in Nat /\ total \in Nat
    BY <1>1 DEF ringVars, histVars, FlowTypeOK, SbTypeOK
  <1> DEFINE Reads == [pc : {"idle", "read", "done"}, start : Nat, got : Seq(Int), young : BOOLEAN]
  <1>6. << >> \in Seq(Int) /\ Len(<< >>) = 0 /\ 0 \in Nat
    BY EmptySeq, SMTT(30)
  <1>7. /\ rd \in Reads /\ rd.start \in Nat /\ rd.got \in Seq(Int) /\ Len(rd.got) \in Nat
        /\ rd.young \in BOOLEAN
    BY LenProperties DEF FlowTypeOK
  <1>8. (rd' \in Reads) => FlowTypeOK'
    BY <1>5 DEF FlowTypeOK
  <1>9. ASSUME NEW start \in 0 .. MaxSamples, CheckWindow(start) PROVE FlowIInv'
    <2>1. start \in Nat /\ WinLen \in Nat
      BY FlowConstants, SMTT(30)
    <2>2. rd' = [pc |-> "read", start |-> start, got |-> << >>, young |-> start + WinLen > settled]
      BY <1>9 DEF CheckWindow
    <2>3. rd' \in Reads
      BY <2>1, <2>2, <1>6, SMTT(30)
    <2>4. /\ rd'.pc = "read" /\ rd'.start = start /\ rd'.got = << >>
          /\ (rd'.young <=> start + WinLen > settled)
      BY <2>2
    <2>5. ~(start + WinLen > settled) => start + WinLen <= settled
      BY <2>1, <1>5, SMTT(30)
    <2>6. \A j \in 1 .. 0 : FALSE
      BY SMTT(30)
    <2>7. WindowOK'
      BY <2>4, <2>5, <2>6, <1>5, <1>6 DEF WindowOK
    <2> QED BY <2>3, <2>7, <1>3, <1>4, <1>8
  <1>10. CASE ReadSample
    <2> DEFINE len == Len(rd.got)
               k == rd.start + len
               x == ring[k % Cap]
    <2>1. k \in Nat /\ Cap \in Nat \ {0} /\ MaxAligned \in Nat /\ WinLen \in Nat
      BY <1>7, FlowConstants, SMTT(30)
    <2>2. k % Cap \in Offsets
      BY <2>1, DivMod DEF Offsets
    <2>3. x \in Int
      BY <2>2 DEF FlowTypeOK
    <2>4. rd' = [rd EXCEPT !.got = Append(rd.got, x)] /\ rd.pc = "read" /\ len < WinLen
      BY <1>10 DEF ReadSample
    <2>5. /\ Append(rd.got, x) \in Seq(Int) /\ Len(Append(rd.got, x)) = len + 1
          /\ \A j \in 1 .. len : Append(rd.got, x)[j] = rd.got[j]
          /\ Append(rd.got, x)[len + 1] = x
      BY <2>3, <1>7, AppendProperties, SMTT(30)
    <2>6. /\ rd'.pc = "read" /\ rd'.start = rd.start /\ rd'.got = Append(rd.got, x)
          /\ (rd'.young <=> rd.young) /\ rd' \in Reads
      BY <2>4, <2>5, <1>7
    <2>7. ASSUME ~rd.young, Clean, rd.start + Cap >= total + MaxAligned
          PROVE  \A j \in 1 .. len + 1 : Append(rd.got, x)[j] = rd.start + j - 1
      <3>1. /\ rd.start + WinLen <= settled
            /\ \A j \in 1 .. len : rd.got[j] = rd.start + j - 1
        BY <2>4, <2>7 DEF WindowOK
      <3>2. RingHolds(ring, Landed) /\ ChainOK
        BY <2>7 DEF LineOK
      <3>3. Landed \in Nat /\ Landed >= settled /\ Landed <= total + MaxAligned
        BY <3>2, LandedFacts
      <3>4. k \in 0 .. Landed - 1 /\ Landed - Cap <= k
        BY <3>1, <3>3, <2>1, <2>4, <2>7, <1>5, <1>7, SMTT(30)
      <3>5. x = k
        BY <3>2, <3>4 DEF RingHolds
      <3>6. rd.start + (len + 1) - 1 = k /\ \A j \in 1 .. len + 1 : j \in 1 .. len \/ j = len + 1
        BY <1>7, SMTT(30)
      <3> HIDE DEF x, k, len
      <3> QED BY <3>1, <3>5, <3>6, <2>5
    <2>8. WindowOK'
      <3> HIDE DEF x, k
      <3>1. rd.pc # "idle"
        BY <2>4
      <3> QED BY <3>1, <2>5, <2>6, <2>7, <1>2, <1>5 DEF WindowOK
    <2> QED BY <2>6, <2>8, <1>3, <1>4, <1>8
  <1>11. CASE Recheck \/ Demodulate
    <2>1. \/ rd' = [rd EXCEPT !.pc = "done"] /\ Len(rd.got) = WinLen /\ rd.pc = "read"
          \/ rd' = [pc |-> "idle", start |-> 0, got |-> << >>, young |-> FALSE]
      BY <1>11 DEF Recheck, Demodulate
    <2>2. CASE rd' = [rd EXCEPT !.pc = "done"] /\ Len(rd.got) = WinLen /\ rd.pc = "read"
      <3>1. /\ rd' \in Reads /\ rd'.pc = "done" /\ rd'.start = rd.start /\ rd'.got = rd.got
            /\ (rd'.young <=> rd.young)
        BY <2>2, <1>7
      <3>2. WindowOK'
        BY <3>1, <2>2, <1>2, <1>5 DEF WindowOK
      <3> QED BY <3>1, <3>2, <1>3, <1>4, <1>8
    <2>3. CASE rd' = [pc |-> "idle", start |-> 0, got |-> << >>, young |-> FALSE]
      <3>1. rd' \in Reads /\ rd'.pc = "idle"
        BY <2>3, <1>6
      <3>2. WindowOK'
        BY <3>1 DEF WindowOK
      <3> QED BY <3>1, <3>2, <1>3, <1>4, <1>8
    <2> QED BY <2>1, <2>2, <2>3
  <1> QED BY <1>9, <1>10, <1>11

\* For every line, ring, push and window size, any interleaving of the pushes,
\* the DMA channel and the worker, and any number of first submits that fail: a
\* window that passes both checks was read as it was pushed, with the margins of
\* MarginReadIntact, as long as no window was given up.
THEOREM WindowsIntact == SbSpec => [](lost = {} => MarginReadIntact)
  <1>1. SbIInv /\ FlowIInv /\ [SbNext]_sbVars => SbIInv' /\ FlowIInv'
    <2> SUFFICES ASSUME SbIInv, FlowIInv, [SbNext]_sbVars PROVE SbIInv' /\ FlowIInv'
      OBVIOUS
    <2>1. SbIInv'
      BY SbStepInv
    <2>2. CASE SbNext
      BY <2>1, <2>2, StartFlow, TakeFlow, FillFlow, SubmitFlow, FailFlow, PublishFlow, LandFlow,
         WorkerFlow DEF SbNext, Producer
    <2>3. CASE UNCHANGED sbVars
      <3>1. Base' = Base /\ Loaded' = Loaded /\ Submitted' = Submitted /\ (Clean' <=> Clean)
        BY <2>3 DEF sbVars, Base, Loaded, Loading, Submitted, ToEnd, Clean
      <3>2. LineOK'
        BY <2>3, <3>1, FlowKept DEF sbVars, ringVars, FlowIInv
      <3> QED BY <2>1, <2>3, <3>1, <3>2 DEF sbVars, FlowIInv, FlowTypeOK, SamplesOK, WindowOK
    <2> QED BY <2>1, <2>2, <2>3
  <1>2. FlowIInv => (lost = {} => MarginReadIntact)
    <2> SUFFICES ASSUME FlowIInv, lost = {}, rd.pc = "done", ~rd.young, timeouts = 0,
                        rd.start + Cap >= total + MaxAligned
                 PROVE  ReadAsPushed
      BY DEF MarginReadIntact
    <2>1. /\ Len(rd.got) = WinLen /\ rd.got \in Seq(Int)
          /\ \A j \in 1 .. Len(rd.got) : rd.got[j] = rd.start + j - 1
      BY DEF FlowIInv, WindowOK, Clean, FlowTypeOK
    <2>2. rd.got = [j \in 1 .. Len(rd.got) |-> rd.got[j]]
      BY <2>1, LenProperties
    <2> QED BY <2>1, <2>2 DEF ReadAsPushed
  <1> QED BY SbInitInv, FlowInit, <1>1, <1>2, PTL DEF SbSpec
==============================================================================
