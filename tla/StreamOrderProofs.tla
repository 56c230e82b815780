-------------------------- MODULE StreamOrderProofs --------------------------
(***************************************************************************)
(* The bytes on the path from the ring to the tagger: the three tasks keep *)
(* the rules of the ring, and the tagger is fed the accepted bytes in order.*)
(***************************************************************************)
EXTENDS StreamProofs

\* Zenon is the prover of every step that names no other; the steps with
\* arithmetic name SMT, with time enough for the larger ones.
USE Zenon

-----------------------------------------------------------------------------
(* The stream's use of the ring.                                           *)

\* Every step of the tasks that touches the ring is one the ring allows: the
\* feeder holds one span at a time and gives back exactly that one.
LEMMA StreamRingStep ==
  ASSUME SlotsIInv, streaming, [StreamFeedNext]_vars
  PROVE  [RingNext]_ringVars
  <1>1. CASE UrbCompleted
    <2>1. PICK n \in TransferSizes : WriteAccept(n) \/ WriteDrop(n)
      BY <1>1 DEF UrbCompleted
    <2>2. n \in 1 .. MaxWrite
      BY StreamFeedAssumption
    <2> QED BY <2>1, <2>2 DEF RingNext, RingProduce
  <1>2. CASE UrbCopy \/ UrbPublish
    BY <1>2 DEF UrbCopy, UrbPublish, RingNext, RingProduce
  <1>3. CASE PauseStream \/ StopFeed \/ CaptureStep \/ UNCHANGED vars
    BY <1>3 DEF PauseStream, StopFeed, CaptureStep, StartCapture, StopCapture, vars
  <1>4. CASE ResumeStream
    BY <1>4 DEF ResumeStream
  <1>5. CASE FeedConsume
    <2>1. fpc = "consume" /\ prev # NoSlot /\ Owner = prev
      BY <1>5 DEF FeedConsume, SlotsIInv, StageOK, Owner, Feeding, Between
    <2>2. raw_bytes[prev] = span.n /\ span # NoSpan
      BY <2>1 DEF SlotsIInv, SpanHeld
    <2> QED BY <1>5, <2>2 DEF FeedConsume, Consume, RingNext, RingConsume
  <1>6. CASE FeedRead
    <2>1. fpc = "read" /\ Peek(Block)
      BY <1>6 DEF FeedRead
    <2>2. Owner = NoSlot /\ span = NoSpan
      BY <2>1 DEF SlotsIInv, SpanHeld, Owner, Feeding, Between
    <2>3. PICK c : c = usbring_peek_contig(head, tail)
      OBVIOUS
    <2>4. c \in Nat /\ c <= Capacity
      <3>1. head \in Counters /\ tail \in Counters /\ tail \in Nat
        BY SMTT(30) DEF SlotsIInv, StreamTypeOK, Counters
      <3>2. usbring_phys_offset(tail) \in 0 .. Capacity - 1 /\ usbring_used(head, tail) \in Nat
        BY <3>1, Ranges, UsedFacts, SMTT(30) DEF Counters
      <3> QED BY <2>3, <3>2, ConstantFacts, SMTT(30) DEF usbring_peek_contig, Least
    <2>5. Least(Block, Capacity) \in 1 .. Capacity /\ Least(c, Block) = Least(c, Least(Block, Capacity))
      BY <2>4, StreamConstants, SMTT(30) DEF Least
    <2>6. Peek(Least(Block, Capacity))
      BY <2>1, <2>3, <2>5 DEF Peek
    <2> QED BY <2>2, <2>5, <2>6 DEF RingNext, RingConsume
  <1>7. CASE \/ FeedTop \/ FeedAcquire \/ FeedRawDone \/ FeedReadEmpty \/ FeedDispatch
             \/ FeedDispatchDrop \/ FeedTake \/ FeedDsp \/ FeedRelease \/ FeedReleaseSlot
             \/ FeedWake \/ FeedTimeout \/ IngestStep
    BY <1>7 DEF FeedTop, FeedAcquire, FeedRawDone, FeedReadEmpty, FeedDispatch, FeedDispatchDrop,
                Dispatched, FeedTake, FeedDsp, FeedRelease, FeedReleaseSlot, FeedWake, FeedTimeout,
                IngestStep, IngestReceive, IngestTile, IngestPush, IngestReady
  <1> QED BY <1>1, <1>2, <1>3, <1>4, <1>5, <1>6, <1>7
          DEF StreamFeedNext, PumpStep, FeedStep, Parked

\* The stream is not paused when no reset is allowed.
LEMMA NoResets ==
  ASSUME MaxResets = 0
  PROVE  /\ StreamFeedInit => streaming /\ resets = 0
         /\ streaming /\ resets = 0 /\ [StreamFeedNext]_vars => streaming' /\ resets' = 0
  <1> USE DEF pumpVars
  <1>1. ASSUME streaming, resets = 0, [StreamFeedNext]_vars PROVE streaming' /\ resets' = 0
    <2>1. CASE PumpStep
      <3>1. CASE UrbCompleted \/ UrbCopy \/ UrbPublish \/ StopFeed
        BY <1>1, <3>1 DEF UrbCompleted, UrbCopy, UrbPublish, StopFeed
      <3>2. ~PauseStream
        BY <1>1, SMTT(30) DEF PauseStream
      <3>3. ~ResumeStream
        BY <1>1 DEF ResumeStream
      <3> QED BY <2>1, <3>1, <3>2, <3>3 DEF PumpStep
    <2>2. CASE CaptureStep
      BY <1>1, <2>2 DEF CaptureStep, StartCapture, StopCapture
    <2>3. CASE FeedStep \/ FeedTimeout
      <3>1. UNCHANGED pumpVars
        BY <2>3
           DEF FeedStep, FeedTimeout, FeedTop, FeedAcquire, FeedRawDone, FeedConsume, FeedRead,
               FeedReadEmpty, FeedDispatch, FeedDispatchDrop, Dispatched, FeedTake, FeedDsp,
               FeedRelease, FeedReleaseSlot, FeedWake
      <3> QED BY <1>1, <3>1
    <2>4. CASE IngestStep
      BY <1>1, <2>4 DEF IngestStep, IngestReceive, IngestTile, IngestPush, IngestReady
    <2>5. CASE UNCHANGED vars
      BY <1>1, <2>5 DEF vars
    <2> QED BY <1>1, <2>1, <2>2, <2>3, <2>4, <2>5 DEF StreamFeedNext, Parked
  <1> QED BY <1>1 DEF StreamFeedInit

\* As long as the stream is not paused and resumed, which resets the ring under
\* the feeder, the three tasks use the ring as usbring.h asks, whatever is
\* dropped or captured.  So what is proved of the ring alone holds inside the
\* stream: the bytes between the counters and under the feeder's span stay
\* intact, and the ring is a FIFO.
THEOREM RingRulesKept ==
  ASSUME MaxResets = 0
  PROVE  StreamFeedSpec => /\ RingDiscipline
                           /\ [](LiveBytesIntact /\ SpanStable)
                           /\ FifoRefinement
  <1> DEFINE Inv == SlotsIInv /\ streaming /\ resets = 0
  <1>1. StreamFeedInit => Inv /\ RingInit
    BY SlotsInit, NoResets DEF StreamFeedInit
  <1>2. Inv /\ [StreamFeedNext]_vars => Inv' /\ [RingNext]_ringVars
    BY SlotsNext, NoResets, StreamRingStep
  <1>3. StreamFeedSpec => RingSpec
    BY <1>1, <1>2, PTL DEF StreamFeedSpec, RingSpec
  <1>4. RingSpec => RingDiscipline
    BY PTL DEF RingSpec, RingDiscipline
  <1> QED BY <1>3, <1>4, RingSafe, RingImplementsFifo, PTL

-----------------------------------------------------------------------------
(* The bytes on their way to the tagger.                                   *)

\* Everything is in whole I/Q pairs.
WholePairs == head % 2 = 0 /\ tail % 2 = 0 /\ wn % 2 = 0 /\ span.n % 2 = 0

EvenBytes == Capacity % 2 = 0 /\ \A n \in TransferSizes : n % 2 = 0

\* A counter keeps its parity when it wraps.
LEMMA WrapParity ==
  ASSUME Capacity % 2 = 0, NEW a \in Nat
  PROVE  (a % Wrap) % 2 = a % 2
  <1>1. PICK k \in 2 .. Wrap : Wrap = k * Capacity
    BY WrapAssumption
  <1>2. PICK h : h = Capacity \div 2
    OBVIOUS
  <1>3. h \in Nat \ {0} /\ Capacity = h * 2
    BY <1>2, ConstantFacts, SMTT(30)
  <1>4. PICK j : j = k * h
    OBVIOUS
  <1>5. j \in Nat \ {0} /\ Wrap = j * 2 /\ 2 \in Nat \ {0}
    BY <1>1, <1>3, <1>4, WrapAssumption, SMTT(30)
  <1> QED BY <1>5, ModMod

LEMMA PairsStep ==
  ASSUME SlotsIInv, EvenBytes, WholePairs, streaming, [StreamFeedNext]_vars
  PROVE  WholePairs'
  <1>1. /\ head \in Counters /\ tail \in Counters /\ wn \in Nat /\ span.n \in Nat
        /\ head \in Nat /\ tail \in Nat /\ Capacity % 2 = 0 /\ Capacity \in Nat \ {0}
    BY ConstantFacts, SMTT(30) DEF SlotsIInv, StreamTypeOK, Counters, EvenBytes
  <1>2. ASSUME NEW a \in Nat, NEW b \in Nat, a % 2 = 0, b % 2 = 0
        PROVE  ((a + b) % Wrap) % 2 = 0
    <2>1. a + b \in Nat /\ (a + b) % 2 = 0
      BY <1>2, MultipleSum, SMTT(30)
    <2> QED BY <1>1, <2>1, WrapParity
  <1>3. CASE UrbCompleted
    <2>1. PICK n \in TransferSizes : WriteAccept(n) \/ WriteDrop(n)
      BY <1>3 DEF UrbCompleted
    <2>2. n % 2 = 0
      BY DEF EvenBytes
    <2> QED BY <2>1, <2>2 DEF WholePairs, WriteAccept, WriteDrop, ringVars
  <1>4. CASE UrbCopy
    BY <1>4 DEF UrbCopy, WriteCopy, WholePairs
  <1>5. CASE UrbPublish
    <2>1. head' = (head + wn) % Wrap /\ wn' = 0 /\ UNCHANGED <<tail, span>>
      BY <1>5 DEF UrbPublish, WritePublish, usbring_next_head
    <2>2. head' % 2 = 0
      BY <1>1, <1>2, <2>1 DEF WholePairs
    <2> QED BY <2>1, <2>2, SMTT(30) DEF WholePairs
  <1>6. CASE ResumeStream
    BY <1>6 DEF ResumeStream
  <1>7. CASE FeedConsume
    <2>1. tail' = (tail + raw_bytes[prev]) % Wrap /\ span' = NoSpan /\ UNCHANGED <<head, wn>>
      BY <1>7 DEF FeedConsume, usbring_next_tail
    <2>2. fpc = "consume" /\ prev # NoSlot /\ Owner = prev
      BY <1>7 DEF FeedConsume, SlotsIInv, StageOK, Owner, Feeding, Between
    <2>3. raw_bytes[prev] = span.n
      BY <2>2 DEF SlotsIInv, SpanHeld
    <2>4. tail' % 2 = 0
      BY <1>1, <1>2, <2>1, <2>3 DEF WholePairs
    <2> QED BY <2>1, <2>4, SMTT(30) DEF WholePairs, NoSpan
  <1>8. CASE FeedRead
    <2>1. PICK u : u = usbring_used(head, tail)
      OBVIOUS
    <2>2. PICK o : o = tail % Capacity
      OBVIOUS
    <2>3. u \in Nat /\ (tail + u) % Wrap = head
      <3>1. u \in Counters /\ (tail + u) % Wrap = head
        BY <1>1, <2>1, UsedFacts
      <3> QED BY <3>1, ConstantFacts, SMTT(30) DEF Counters
    <2>4. u % 2 = 0
      <3>1. tail + u \in Nat /\ (tail + u) % 2 = 0
        BY <1>1, <2>3, WrapParity, SMTT(30) DEF WholePairs
      <3>2. ((tail + u) - tail) % 2 = 0
        BY <1>1, <2>3, <3>1, MultipleDifference, SMTT(30) DEF WholePairs
      <3>3. (tail + u) - tail = u
        BY <1>1, <2>3, SMTT(30)
      <3> QED BY <3>2, <3>3
    <2>5. o \in 0 .. Capacity - 1 /\ o % 2 = 0
      <3>1. PICK h : h = Capacity \div 2
        OBVIOUS
      <3>2. h \in Nat \ {0} /\ Capacity = h * 2 /\ 2 \in Nat \ {0}
        BY <1>1, <3>1, SMTT(30)
      <3>3. (tail % (h * 2)) % 2 = tail % 2
        BY <1>1, <3>2, ModMod
      <3> QED BY <1>1, <2>2, <3>2, <3>3, DivMod DEF WholePairs
    <2>6. (Capacity - o) % 2 = 0
      BY <1>1, <2>5, MultipleDifference, SMTT(30)
    <2>7. Block % 2 = 0
      BY StreamFeedAssumption, ConstantFacts, SMTT(30)
    <2>8. span'.n = Least(Least(u, Capacity - o), Block) /\ UNCHANGED <<head, tail, wn>>
      BY <1>8, <2>1, <2>2 DEF FeedRead, Peek, usbring_peek_contig, usbring_phys_offset
    <2> QED BY <2>4, <2>6, <2>7, <2>8 DEF WholePairs, Least
  <1>9. CASE UNCHANGED ringVars
    BY <1>9 DEF WholePairs, ringVars
  <1>10. CASE \/ PauseStream \/ StopFeed \/ CaptureStep \/ UNCHANGED vars
              \/ FeedTop \/ FeedAcquire \/ FeedRawDone \/ FeedReadEmpty \/ FeedDispatch
              \/ FeedDispatchDrop \/ FeedTake \/ FeedDsp \/ FeedRelease \/ FeedReleaseSlot
              \/ FeedWake \/ FeedTimeout \/ IngestStep
    BY <1>9, <1>10
       DEF PauseStream, StopFeed, CaptureStep, StartCapture, StopCapture, vars,
           FeedTop, FeedAcquire, FeedRawDone, FeedReadEmpty, FeedDispatch, FeedDispatchDrop,
           Dispatched, FeedTake, FeedDsp, FeedRelease, FeedReleaseSlot, FeedWake, FeedTimeout,
           IngestStep, IngestReceive, IngestTile, IngestPush, IngestReady
  <1> QED BY <1>3, <1>4, <1>5, <1>6, <1>7, <1>8, <1>10, SMTT(30)
          DEF StreamFeedNext, PumpStep, FeedStep, Parked

\* Ingest is done with slot s's region of the ring.
Converted(s) == ~InQueue(s) /\ (InHand(s) => done > 0 /\ done = ConvertLength)

\* The feeder has given back the ring region of prev and not yet fed its block.
Reclaimed == fpc \in {"read", "dispatch", "take", "dsp_feed", "drain_take", "drain_feed"}
             /\ prev # NoSlot

\* What is known of the slot whose bytes are still in the ring, at tail.
OwnedBlock(s) ==
    LET m == [slot |-> s, ptr |-> span.off, bytes |-> span.n]
    IN  /\ \A k \in 1 .. Len(dispatch) : dispatch[k].slot = s => dispatch[k] = m
        /\ InHand(s) => msg = m /\ (done > 0 => resamp[s] = Stretch(tail, done))
        /\ ready[s] = 1 => resamp[s] = Stretch(tail, span.n)
        /\ raw_done[s] = 1 \/ fpc = "consume" =>
               Converted(s) /\ resamp[s] = Stretch(tail, span.n)

RawDoneOK == \A s \in Slots : raw_done[s] = 1 => s = Owner /\ fpc # "consume"

OwnerOK == Owner # NoSlot => OwnedBlock(Owner)

\* The tagger's index is tail, less the reclaimed block it has yet to be fed.
FedOK ==
    /\ Reclaimed => /\ Converted(prev) /\ resamp[prev] = Stretch(tagged, raw_bytes[prev])
                    /\ tail = (tagged + raw_bytes[prev]) % Wrap
    /\ ~Reclaimed => tail = tagged

InOrder == RawDoneOK /\ OwnerOK /\ FedOK

\* A step that leaves the ring's tail, the span and ingest alone, gives no
\* semaphore to ingest's slots, and keeps the owner.
LEMMA OwnerFramed ==
  ASSUME OwnerOK, Owner' = Owner, Owner \in Slots \cup {NoSlot},
         UNCHANGED <<dispatch, ipc, msg, done, resamp, span, tail>>,
         \A s \in Slots : ready'[s] = 1 => ready[s] = 1,
         \A s \in Slots : /\ raw_done'[s] = 1 => raw_done[s] = 1
                          /\ s = Owner /\ fpc' = "consume" => raw_done[s] = 1 \/ fpc = "consume"
  PROVE  OwnerOK'
  <1> SUFFICES ASSUME Owner # NoSlot PROVE OwnedBlock(Owner)'
    BY DEF OwnerOK
  <1>1. PICK s \in Slots : s = Owner
    OBVIOUS
  <1>2. OwnedBlock(s)
    BY <1>1 DEF OwnerOK
  <1>3. InHand(s)' = InHand(s) /\ Converted(s)' = Converted(s)
    BY DEF InHand, Converted, InQueue, ConvertLength
  <1>4. OwnedBlock(s)'
    BY <1>1, <1>2, <1>3 DEF OwnedBlock
  <1> QED BY <1>1, <1>4

LEMMA OwnerSlot == SlotsIInv => Owner \in Slots \cup {NoSlot}
  BY DEF SlotsIInv, StreamTypeOK, Owner

\* usb_pump fills the ring without touching any of this.
LEMMA OrderOutside ==
  ASSUME SlotsIInv, InOrder, streaming, PumpStep \/ CaptureStep \/ UNCHANGED vars
  PROVE  InOrder'
  <1>1. UNCHANGED slotState
    BY RingTypes DEF SlotsIInv
  <1>2. UNCHANGED tail
    <2>1. CASE PumpStep
      BY <2>1 DEF PumpStep, UrbCompleted, UrbCopy, UrbPublish, PauseStream, ResumeStream, StopFeed,
                  WriteAccept, WriteDrop, WriteCopy, WritePublish, ringVars
    <2>2. CASE CaptureStep \/ UNCHANGED vars
      BY <2>2 DEF CaptureStep, StartCapture, StopCapture, vars, ringVars
    <2> QED BY <2>1, <2>2
  <1>3. UNCHANGED <<fpc, slot, prev, raw_bytes, dispatch, ready, raw_done, ipc, msg, done, resamp,
                    span, tagged>>
    BY <1>1 DEF slotState, slotVars, feedVars, ingestVars
  <1>4. Owner' = Owner
    BY <1>3 DEF Owner
  <1>5. OwnerOK'
    BY <1>2, <1>3, <1>4, OwnerFramed, OwnerSlot DEF InOrder
  <1>6. RawDoneOK'
    BY <1>3, <1>4 DEF InOrder, RawDoneOK
  <1>7. FedOK'
    BY <1>2, <1>3 DEF InOrder, FedOK, Reclaimed, Converted, InQueue, InHand, ConvertLength
  <1> QED BY <1>5, <1>6, <1>7 DEF InOrder

\* The feeder's handling of its slots.
LEMMA OrderHandling ==
  ASSUME SlotsIInv, InOrder, ~capture, Handling
  PROVE  InOrder'
  <1>1. /\ StreamTypeOK /\ StageOK /\ RawDoneOK /\ OwnerOK /\ FedOK
        /\ UNCHANGED <<dispatch, ipc, msg, done, resamp, span, raw_bytes, tail>>
    BY HandlingTypes DEF SlotsIInv, InOrder
  <1>2. /\ slot \in Slots /\ prev \in Slots \cup {NoSlot} /\ raw_done \in [Slots -> {0, 1}]
        /\ ready \in [Slots -> {0, 1}] /\ tagged \in Counters
    BY <1>1 DEF StreamTypeOK
  <1>3. /\ fpc' = "consume" => FeedRawDone
        /\ FeedRawDone \/ UNCHANGED raw_done
        /\ FeedTake \/ UNCHANGED ready
        /\ FeedDsp \/ UNCHANGED tagged
        /\ FeedRelease \/ UNCHANGED prev
    BY DEF Handling, FeedTop, FeedAcquire, FeedRawDone, FeedReadEmpty, FeedTake, FeedDsp,
           FeedRelease, FeedReleaseSlot, FeedWake, FeedTimeout, slotVars, AfterAcquire,
           AfterEmptyRead
  <1>4. Owner' = Owner
    <2>1. CASE FeedTop \/ FeedAcquire \/ FeedRawDone \/ FeedReadEmpty
      BY <1>1, <2>1 DEF FeedTop, FeedAcquire, FeedRawDone, FeedReadEmpty, AfterAcquire,
                        AfterEmptyRead, Owner, Feeding, Between
    <2>2. CASE FeedTake \/ FeedDsp
      BY <1>1, <2>2 DEF FeedTake, FeedDsp, Owner, Feeding, Between
    <2>3. CASE FeedRelease
      BY <1>1, <2>3 DEF FeedRelease, Owner, Feeding, Between
    <2>4. CASE FeedReleaseSlot \/ FeedWake \/ FeedTimeout
      BY <1>1, <2>4 DEF FeedReleaseSlot, FeedWake, FeedTimeout, StageOK, Owner, Feeding, Between
    <2> QED BY <2>1, <2>2, <2>3, <2>4 DEF Handling
  <1>5. ASSUME FeedRawDone
        PROVE  /\ Owner = prev /\ prev \in Slots /\ raw_done[prev] = 1
               /\ raw_done' = [raw_done EXCEPT ![prev] = 0]
    BY <1>1, <1>2, <1>5 DEF FeedRawDone, StageOK, Owner, Feeding, Between
  <1>6. \A s \in Slots : raw_done'[s] = 1 => raw_done[s] = 1 /\ ~(FeedRawDone /\ s = Owner)
    BY <1>2, <1>3, <1>5, SMTT(30)
  <1>7. RawDoneOK'
    BY <1>1, <1>3, <1>4, <1>6 DEF RawDoneOK
  <1>8. \A s \in Slots : ready'[s] = 1 => ready[s] = 1
    <2>1. CASE FeedTake
      BY <1>2, <2>1 DEF FeedTake
    <2>2. CASE UNCHANGED ready
      BY <2>2
    <2> QED BY <1>3, <2>1, <2>2
  <1>9. OwnerOK'
    BY <1>1, <1>3, <1>4, <1>5, <1>6, <1>8, OwnerFramed, OwnerSlot, SMTT(30)
  <1>10. \A s \in Slots : Converted(s)' = Converted(s)
    BY <1>1 DEF Converted, InQueue, InHand, ConvertLength
  <1>11. CASE FeedDsp
    <2>1. /\ fpc \in {"dsp_feed", "drain_feed"} /\ fpc' \in {"release", "drain_release"}
          /\ tagged' = (tagged + Len(resamp[prev])) % Wrap
      BY <1>11 DEF FeedDsp, Shed
    <2>2. Reclaimed /\ prev \in Slots /\ ~Reclaimed'
      BY <1>1, <1>2, <2>1 DEF Reclaimed, StageOK, Feeding, Draining
    <2>3. raw_bytes[prev] \in Nat /\ tagged \in Nat
      BY <1>1, <1>2, <2>2, ConstantFacts, SMTT(30) DEF StreamTypeOK, Counters
    <2>4. Len(resamp[prev]) = raw_bytes[prev]
      BY <1>1, <2>2, <2>3, StretchSeq DEF FedOK
    <2>5. FedOK'
      BY <1>1, <2>1, <2>2, <2>4 DEF FedOK
    <2> QED BY <1>7, <1>9, <2>5 DEF InOrder
  <1>12. CASE ~FeedDsp
    <2>1. tagged' = tagged
      BY <1>3, <1>12
    <2>2. Reclaimed' = Reclaimed /\ (Reclaimed => prev' = prev)
      BY <1>1, <1>12 DEF Handling, Reclaimed, FeedTop, FeedAcquire, FeedRawDone, FeedReadEmpty,
           FeedTake, FeedRelease, FeedReleaseSlot, FeedWake, FeedTimeout, slotVars,
           AfterAcquire, AfterEmptyRead, StageOK, Feeding, Draining
    <2>3. Reclaimed => prev \in Slots
      BY <1>2 DEF Reclaimed
    <2>4. FedOK'
      BY <1>1, <1>10, <2>1, <2>2, <2>3 DEF FedOK
    <2> QED BY <1>7, <1>9, <2>4 DEF InOrder
  <1> QED BY <1>11, <1>12

\* Reclaiming the span of the previous block, and reading the next.
LEMMA OrderReading ==
  ASSUME SlotsIInv, InOrder, FeedConsume \/ FeedRead
  PROVE  InOrder'
  <1>1. /\ StreamTypeOK /\ StageOK /\ SpanHeld /\ RawDoneOK /\ OwnerOK /\ FedOK
    BY DEF SlotsIInv, InOrder
  <1>2. /\ UNCHANGED <<dispatch, ipc, msg, done, resamp, raw_bytes, raw_done, ready, tagged, prev>>
        /\ prev \in Slots \cup {NoSlot}
    BY <1>1 DEF FeedConsume, FeedRead, slotVars, ingestVars, StreamTypeOK
  <1>3. \A s \in Slots : Converted(s)' = Converted(s)
    BY <1>2 DEF Converted, InQueue, InHand, ConvertLength
  <1>4. CASE FeedConsume
    <2>1. /\ fpc = "consume" /\ fpc' = "read" /\ tail' = (tail + raw_bytes[prev]) % Wrap
      BY <1>4 DEF FeedConsume, usbring_next_tail
    <2>2. prev \in Slots /\ Owner = prev /\ Owner' = NoSlot /\ prev # NoSlot /\ ~Reclaimed /\ Reclaimed'
      BY <1>1, <1>2, <2>1 DEF StageOK, Owner, Feeding, Between, Reclaimed
    <2>3. OwnedBlock(prev) /\ raw_bytes[prev] = span.n
      BY <1>1, <2>2 DEF OwnerOK, SpanHeld
    <2>4. Converted(prev) /\ resamp[prev] = Stretch(tail, raw_bytes[prev])
      BY <2>1, <2>3 DEF OwnedBlock
    <2>5. tail = tagged
      BY <1>1, <2>2 DEF FedOK
    <2>6. FedOK'
      BY <1>2, <1>3, <2>1, <2>2, <2>4, <2>5 DEF FedOK
    <2>7. RawDoneOK' /\ OwnerOK'
      BY <1>1, <1>2, <2>1, <2>2 DEF RawDoneOK, OwnerOK
    <2> QED BY <2>6, <2>7 DEF InOrder
  <1>5. CASE FeedRead
    <2>1. fpc = "read" /\ fpc' = "dispatch" /\ tail' = tail
      BY <1>5 DEF FeedRead, Peek
    <2>2. Owner = NoSlot /\ Owner' = NoSlot /\ Reclaimed' = Reclaimed
      BY <1>2, <2>1 DEF Owner, Feeding, Between, Reclaimed
    <2>3. Reclaimed => prev \in Slots
      BY <1>2 DEF Reclaimed
    <2>4. FedOK'
      BY <1>1, <1>2, <1>3, <2>1, <2>2, <2>3 DEF FedOK
    <2>5. RawDoneOK' /\ OwnerOK'
      BY <1>1, <1>2, <2>1, <2>2 DEF RawDoneOK, OwnerOK
    <2> QED BY <2>4, <2>5 DEF InOrder
  <1> QED BY <1>4, <1>5

\* The dispatch of the block just read.
LEMMA OrderDispatch ==
  ASSUME SlotsIInv, InOrder, FeedDispatch
  PROVE  InOrder'
  <1> DEFINE m == [slot |-> slot, ptr |-> span.off, bytes |-> span.n]
  <1>1. /\ StreamTypeOK /\ StageOK /\ SlotsOK /\ RawDoneOK /\ FedOK
    BY DEF SlotsIInv, InOrder
  <1>2. /\ UNCHANGED <<ipc, msg, done, resamp, raw_done, ready, tagged, tail, span, slot>>
        /\ dispatch' = Append(dispatch, m) /\ raw_bytes' = [raw_bytes EXCEPT ![slot] = span.n]
        /\ fpc = "dispatch" /\ prev \in Slots \cup {NoSlot} /\ slot \in Slots
        /\ IF prev # NoSlot THEN fpc' = "take" /\ UNCHANGED prev ELSE fpc' = "top" /\ prev' = slot
    BY <1>1 DEF FeedDispatch, Dispatched, slotVars, ingestVars, ringVars, StreamTypeOK
  <1>3. slot # prev /\ slot # NoSlot
    BY <1>1, <1>2, SMTT(30) DEF StageOK, Loading, Slots, NumSlots, NoSlot
  <1>4. Owner = NoSlot /\ Owner' = slot /\ Reclaimed' = Reclaimed /\ (Reclaimed <=> prev # NoSlot)
    BY <1>2 DEF Owner, Feeding, Between, Reclaimed
  <1>5. ~InQueue(slot) /\ ~InHand(slot) /\ ready[slot] # 1 /\ raw_done[slot] # 1
    <2>1. ~IngestHas(slot)
      BY <1>2, <1>3 DEF IngestHas, Feeding
    <2>2. ~WithIngest(slot)
      BY <1>1, <1>2, <2>1 DEF SlotsOK
    <2>3. raw_done[slot] # 1
      BY <1>1, <1>2, <1>3, <1>4 DEF RawDoneOK
    <2> QED BY <2>2, <2>3 DEF WithIngest, InQueue, InHand
  <1>6. m.slot = slot
    OBVIOUS
  <1> HIDE DEF m
  <1>7. /\ Len(dispatch) \in Nat /\ Len(dispatch') = Len(dispatch) + 1
        /\ dispatch'[Len(dispatch) + 1] = m
        /\ \A k \in 1 .. Len(dispatch) : dispatch'[k] = dispatch[k]
    BY <1>1, <1>2, SMTT(30) DEF StreamTypeOK
  <1>8. \A k \in 1 .. Len(dispatch') : k \in 1 .. Len(dispatch) \/ k = Len(dispatch) + 1
    BY <1>7, SMTT(30)
  <1>9. OwnedBlock(slot)'
    <2>1. \A k \in 1 .. Len(dispatch') : dispatch'[k].slot = slot => dispatch'[k] = m
      BY <1>5, <1>7, <1>8 DEF InQueue
    <2>2. ~InHand(slot)' /\ ready'[slot] # 1 /\ raw_done'[slot] # 1 /\ fpc' # "consume"
      BY <1>2, <1>5 DEF InHand
    <2> QED BY <1>2, <2>1, <2>2 DEF OwnedBlock, m
  <1>10. OwnerOK' /\ RawDoneOK'
    BY <1>1, <1>2, <1>4, <1>9, SMTT(30) DEF OwnerOK, RawDoneOK, Slots, NumSlots, NoSlot
  <1>11. FedOK'
    <2>1. CASE prev # NoSlot
      <3>1. prev' = prev /\ prev \in Slots /\ raw_bytes'[prev] = raw_bytes[prev]
        BY <1>1, <1>2, <1>3, <2>1 DEF StreamTypeOK
      <3>2. InHand(prev)' = InHand(prev) /\ ConvertLength' = ConvertLength
        BY <1>2, <3>1 DEF InHand, ConvertLength
      <3>3. InQueue(prev)' => InQueue(prev)
        BY <1>3, <1>6, <1>7, <1>8, <3>1 DEF InQueue
      <3>4. Converted(prev) => Converted(prev)'
        BY <1>2, <3>2, <3>3 DEF Converted
      <3> QED BY <1>1, <1>2, <1>4, <2>1, <3>1, <3>4 DEF FedOK
    <2>2. CASE prev = NoSlot
      BY <1>1, <1>2, <1>4, <2>2 DEF FedOK
    <2> QED BY <2>1, <2>2
  <1> QED BY <1>10, <1>11 DEF InOrder

\* What ingest is converting is the block at tail, whole.
LEMMA InHandFacts ==
  ASSUME SlotsIInv, WholePairs, InOrder, ipc # "recv"
  PROVE  /\ msg.slot \in Slots /\ InHand(msg.slot) /\ ~InQueue(msg.slot) /\ ready[msg.slot] = 0
         /\ ConvertLength \in Nat \ {0} /\ done \in Nat /\ (ipc = "ready" => done = ConvertLength)
         /\ \/ Owner = msg.slot /\ Owner # NoSlot /\ ConvertLength = span.n /\ msg.ptr = span.off
            \/ Converted(msg.slot) /\ Owner # msg.slot
         /\ Reclaimed /\ prev = msg.slot => Converted(msg.slot)
  <1>1. /\ StreamTypeOK /\ StageOK /\ SlotsOK /\ SpanHeld /\ LengthOK /\ OwnerOK /\ FedOK
    BY DEF SlotsIInv, InOrder
  <1>2. msg.slot \in Slots /\ msg.slot # NoSlot /\ InHand(msg.slot) /\ done \in Nat /\ msg \in Messages
    BY <1>1, SMTT(30) DEF StreamTypeOK, Messages, InHand, Slots, NumSlots, NoSlot
  <1>3. ~InQueue(msg.slot) /\ ready[msg.slot] = 0
    BY <1>1, <1>2 DEF SlotsOK, OnePlace
  <1>4. Reclaimed /\ prev = msg.slot => Converted(msg.slot)
    BY <1>1 DEF FedOK
  <1>5. CASE Owner = msg.slot
    <2>1. OwnedBlock(msg.slot) /\ span # NoSpan
      BY <1>1, <1>2, <1>5 DEF OwnerOK, SpanHeld
    <2>2. msg.bytes = span.n /\ msg.ptr = span.off
      BY <1>2, <2>1, SMTT(30) DEF OwnedBlock
    <2>3. span.n > 0 /\ span.n \in Nat
      BY <1>1, <2>1 DEF SpanHeld, StreamTypeOK
    <2>4. ConvertLength = span.n
      BY <1>2, <2>2, ConvertLengthFacts DEF WholePairs
    <2> QED BY <1>1, <1>2, <1>3, <1>4, <1>5, <2>2, <2>3, <2>4, SMTT(30) DEF LengthOK
  <1>6. CASE Owner # msg.slot
    <2>1. IngestHas(msg.slot)
      BY <1>1, <1>2 DEF SlotsOK, WithIngest, InHand
    <2>2. Reclaimed /\ prev = msg.slot
      BY <1>2, <1>6, <2>1 DEF IngestHas, Owner, Feeding, Between, Loading, Reclaimed
    <2>3. ConvertLength \in Nat /\ done > 0 /\ done = ConvertLength
      BY <1>2, <1>4, <2>2, ConvertLengthFacts DEF Converted
    <2> QED BY <1>1, <1>2, <1>3, <1>4, <1>6, <2>2, <2>3, SMTT(30) DEF LengthOK
  <1> QED BY <1>5, <1>6

\* A step of ingest that leaves slot s's block alone.
LEMMA ConvertedStays ==
  ASSUME NEW s \in Slots, Converted(s), InQueue(s)' => InQueue(s),
         InHand(s)' => InHand(s) /\ UNCHANGED <<msg, done>>
  PROVE  Converted(s)'
  BY DEF Converted, ConvertLength

LEMMA OrderReceive ==
  ASSUME SlotsIInv, InOrder, IngestReceive
  PROVE  InOrder'
  <1> DEFINE m == Head(dispatch)
  <1>1. /\ StreamTypeOK /\ StageOK /\ SlotsOK /\ RawDoneOK /\ OwnerOK /\ FedOK
    BY DEF SlotsIInv, InOrder
  <1>2. /\ UNCHANGED <<resamp, raw_done, ready, tagged, tail, span, fpc, slot, prev, raw_bytes>>
        /\ dispatch # <<>> /\ dispatch' = Tail(dispatch) /\ msg' = m /\ done' = 0 /\ ipc = "recv"
        /\ ipc' = "convert"
    BY DEF IngestReceive, slotVars, feedVars, ringVars
  <1>3. /\ Len(dispatch) \in Nat \ {0} /\ m = dispatch[1] /\ Len(dispatch') = Len(dispatch) - 1
        /\ \A k \in 1 .. Len(dispatch') : dispatch'[k] = dispatch[k + 1]
    BY <1>1, <1>2, SMTT(30) DEF StreamTypeOK
  <1> HIDE DEF m
  <1>4. \A k \in 1 .. Len(dispatch') : k + 1 \in 1 .. Len(dispatch)
    BY <1>3, SMTT(30)
  <1>5. 1 \in 1 .. Len(dispatch)
    BY <1>3, SMTT(30)
  <1>6. \A s \in Slots : (InQueue(s)' => InQueue(s)) /\ (InHand(s)' => InQueue(s) /\ m.slot = s)
    BY <1>2, <1>3, <1>4, <1>5 DEF InQueue, InHand
  <1>7. ASSUME NEW s \in Slots, Converted(s) PROVE Converted(s)'
    BY <1>6, <1>7 DEF Converted
  <1>8. Owner' = Owner
    BY <1>2 DEF Owner
  <1>9. RawDoneOK'
    BY <1>1, <1>2, <1>8 DEF RawDoneOK
  <1>10. FedOK'
    <2>1. Reclaimed' = Reclaimed /\ (Reclaimed => prev \in Slots)
      BY <1>1, <1>2 DEF Reclaimed, StreamTypeOK
    <2> QED BY <1>1, <1>2, <1>7, <2>1 DEF FedOK
  <1>11. OwnerOK'
    <2> SUFFICES ASSUME Owner # NoSlot PROVE OwnedBlock(Owner)'
      BY <1>8 DEF OwnerOK
    <2>1. PICK s \in Slots : s = Owner
      BY OwnerSlot
    <2>2. OwnedBlock(s)
      BY <1>1, <2>1 DEF OwnerOK
    <2>3. PICK b : b = [slot |-> s, ptr |-> span.off, bytes |-> span.n]
      OBVIOUS
    <2>4. \A k \in 1 .. Len(dispatch) : dispatch[k].slot = s => dispatch[k] = b
      BY <2>2, <2>3 DEF OwnedBlock
    <2>5. \A k \in 1 .. Len(dispatch') : dispatch'[k].slot = s => dispatch'[k] = b
      BY <1>3, <1>4, <2>4
    <2>6. InHand(s)' => msg' = b
      BY <1>2, <1>3, <1>5, <1>6, <2>4
    <2>7. OwnedBlock(s)'
      BY <1>2, <1>7, <2>2, <2>3, <2>5, <2>6, SMTT(30) DEF OwnedBlock
    <2> QED BY <1>8, <2>1, <2>7
  <1> QED BY <1>9, <1>10, <1>11 DEF InOrder

\* One tile more of the block at tail.
LEMMA TileStretch ==
  ASSUME SlotsIInv, WholePairs, InOrder, SpanStable, ipc = "convert", done < ConvertLength,
         Owner = msg.slot, ConvertLength = span.n, msg.ptr = span.off, OwnedBlock(msg.slot)
  PROVE  (IF done = 0 THEN TileBytes ELSE resamp[msg.slot] \o TileBytes)
           = Stretch(tail, done + Len(TileBytes))
  <1>1. /\ tail \in Nat /\ done \in Nat /\ msg \in Messages /\ span.n \in Nat /\ span.off \in Nat
        /\ StreamTypeOK
    BY ConstantFacts, SMTT(30) DEF SlotsIInv, StreamTypeOK, Counters
  <1>2. PICK t : t = Len(TileBytes)
    OBVIOUS
  <1>3. /\ TileBytes \in Seq(Bytes) /\ t \in Nat /\ done + t <= span.n
        /\ \A k \in 1 .. t : TileBytes[k] = buf[span.off + done + k - 1]
    BY <1>1, <1>2, TileFacts
  <1>4. PICK d : d = tail + done
    OBVIOUS
  <1>5. d \in Nat
    BY <1>1, <1>4, SMTT(30)
  <1>6. ASSUME NEW k \in 1 .. t PROVE TileBytes[k] = (d + (k - 1)) % Wrap
    <2>1. done + (k - 1) \in 0 .. span.n - 1
      BY <1>1, <1>3, SMTT(30)
    <2>2. buf[span.off + (done + (k - 1))] = (tail + (done + (k - 1))) % Wrap
      BY <2>1 DEF SpanStable
    <2>3. span.off + (done + (k - 1)) = span.off + done + k - 1 /\ tail + (done + (k - 1)) = d + (k - 1)
      BY <1>1, <1>3, <1>4, SMTT(30)
    <2> QED BY <1>3, <2>2, <2>3
  <1>7. TileBytes = Stretch(d, t)
    <2>1. /\ Stretch(d, t) \in Seq(Counters) /\ Len(Stretch(d, t)) = t
          /\ \A k \in 1 .. t : Stretch(d, t)[k] = (d + (k - 1)) % Wrap
      BY <1>3, <1>5, StretchSeq
    <2> QED BY <1>2, <1>3, <1>6, <2>1, SeqsEqual, SMTT(30)
  <1>8. CASE done = 0
    BY <1>1, <1>2, <1>3, <1>4, <1>7, <1>8, SMTT(30)
  <1>9. CASE done # 0
    <2>1. resamp[msg.slot] = Stretch(tail, done)
      BY <1>1, <1>9, SMTT(30) DEF OwnedBlock, InHand
    <2>2. Joined(tail, done, d, t)
      BY <1>1, <1>3, <1>4, <1>5, StretchJoin DEF Follows
    <2>3. resamp[msg.slot] \o TileBytes = Stretch(tail, done + t)
      BY <1>7, <2>1, <2>2 DEF Joined
    <2> QED BY <1>2, <1>9, <2>3
  <1> QED BY <1>8, <1>9

LEMMA OrderTile ==
  ASSUME SlotsIInv, WholePairs, InOrder, SpanStable, IngestTile
  PROVE  InOrder'
  <1>1. /\ StreamTypeOK /\ StageOK /\ SlotsOK /\ RawDoneOK /\ OwnerOK /\ FedOK
    BY DEF SlotsIInv, InOrder
  <1>2. PICK t : t = Len(TileBytes)
    OBVIOUS
  <1>3. PICK r : r = IF done = 0 THEN TileBytes ELSE resamp[msg.slot] \o TileBytes
    OBVIOUS
  <1>4. /\ UNCHANGED <<ready, tagged, tail, span, fpc, slot, prev, raw_bytes, dispatch, ipc, msg>>
        /\ ipc = "convert" /\ done < ConvertLength /\ done' = done + t
        /\ resamp' = [resamp EXCEPT ![msg.slot] = r]
        /\ raw_done' = IF done + t = ConvertLength THEN [raw_done EXCEPT ![msg.slot] = 1]
                                                   ELSE raw_done
    BY <1>2, <1>3 DEF IngestTile, LastRead, feedVars, ringVars
  <1>5. /\ msg.slot \in Slots /\ InHand(msg.slot) /\ ~InQueue(msg.slot) /\ ready[msg.slot] = 0
        /\ ConvertLength \in Nat \ {0} /\ done \in Nat
        /\ Owner = msg.slot /\ Owner # NoSlot /\ ConvertLength = span.n /\ msg.ptr = span.off
        /\ ~(Reclaimed /\ prev = msg.slot) /\ ~Converted(msg.slot)
    BY <1>4, InHandFacts, SMTT(30) DEF Converted
  <1>6. OwnedBlock(msg.slot)
    BY <1>1, <1>5 DEF OwnerOK
  <1>7. r = Stretch(tail, done + t)
    BY <1>2, <1>3, <1>4, <1>5, <1>6, TileStretch
  <1>8. t \in Nat \ {0} /\ done + t <= ConvertLength
    BY <1>1, <1>2, <1>4, TileFacts
  <1>9. raw_done[msg.slot] # 1 /\ fpc # "consume"
    BY <1>5, <1>6 DEF OwnedBlock
  <1>10. Owner' = Owner /\ ConvertLength' = ConvertLength /\ Reclaimed' = Reclaimed
         /\ \A s \in Slots : InQueue(s)' = InQueue(s) /\ InHand(s)' = InHand(s)
    BY <1>4 DEF Owner, ConvertLength, Reclaimed, InQueue, InHand
  <1>11. /\ resamp'[msg.slot] = r /\ \A s \in Slots : s # msg.slot => resamp'[s] = resamp[s]
         /\ raw_done'[msg.slot] = 1 <=> done + t = ConvertLength
         /\ \A s \in Slots : s # msg.slot => raw_done'[s] = raw_done[s]
    BY <1>1, <1>4, <1>5, <1>9 DEF StreamTypeOK
  <1>12. RawDoneOK'
    BY <1>1, <1>4, <1>5, <1>9, <1>10, <1>11, SMTT(30) DEF RawDoneOK
  <1>13. FedOK'
    <2>1. Reclaimed => prev \in Slots /\ prev # msg.slot
      BY <1>1, <1>5 DEF Reclaimed, StreamTypeOK
    <2>2. Reclaimed /\ Converted(prev) => Converted(prev)' /\ resamp'[prev] = resamp[prev]
      <3>1. InHand(prev) => prev = msg.slot
        BY DEF InHand
      <3> QED BY <1>4, <1>10, <1>11, <2>1, <3>1 DEF Converted
    <2> QED BY <1>1, <1>4, <1>10, <2>2 DEF FedOK
  <1>14. OwnedBlock(msg.slot)'
    <2>1. PICK s \in Slots : s = msg.slot
      BY <1>5
    <2>2. PICK b : b = [slot |-> s, ptr |-> span.off, bytes |-> span.n]
      OBVIOUS
    <2>3. /\ \A k \in 1 .. Len(dispatch) : dispatch[k].slot = s => dispatch[k] = b
          /\ msg = b
      BY <1>5, <1>6, <2>1, <2>2 DEF OwnedBlock
    <2>4. resamp'[s] = Stretch(tail, done')
      BY <1>4, <1>7, <1>11, <2>1
    <2>5. raw_done'[s] = 1 => Converted(s)' /\ done' = span.n
      BY <1>4, <1>5, <1>8, <1>10, <1>11, <2>1, SMTT(30) DEF Converted
    <2>6. OwnedBlock(s)'
      BY <1>4, <1>5, <1>9, <2>1, <2>2, <2>3, <2>4, <2>5, SMTT(30) DEF OwnedBlock
    <2> QED BY <1>4, <2>1, <2>6
  <1>15. OwnerOK'
    BY <1>4, <1>5, <1>10, <1>14 DEF OwnerOK
  <1> QED BY <1>12, <1>13, <1>15 DEF InOrder

\* The push and the semaphore that follow the last tile.
LEMMA OrderReady ==
  ASSUME SlotsIInv, WholePairs, InOrder, IngestPush \/ IngestReady
  PROVE  InOrder'
  <1>1. /\ StreamTypeOK /\ StageOK /\ SlotsOK /\ RawDoneOK /\ OwnerOK /\ FedOK
    BY DEF SlotsIInv, InOrder
  <1>2. ipc # "recv"
    BY DEF IngestPush, IngestReady
  <1>3. /\ msg.slot \in Slots /\ InHand(msg.slot) /\ ~InQueue(msg.slot) /\ ready[msg.slot] = 0
        /\ ConvertLength \in Nat \ {0} /\ done \in Nat /\ done = ConvertLength
        /\ \/ Owner = msg.slot /\ Owner # NoSlot /\ ConvertLength = span.n /\ msg.ptr = span.off
           \/ Converted(msg.slot) /\ Owner # msg.slot
        /\ Reclaimed /\ prev = msg.slot => Converted(msg.slot)
    BY <1>2, InHandFacts DEF IngestPush, IngestReady
  <1>4. /\ UNCHANGED <<resamp, raw_done, tagged, tail, span, fpc, slot, prev, raw_bytes, dispatch>>
    BY <1>3 DEF IngestPush, IngestReady, feedVars, ringVars
  <1>5. Owner' = Owner /\ Reclaimed' = Reclaimed /\ \A s \in Slots : InQueue(s)' = InQueue(s)
    BY <1>4 DEF Owner, Reclaimed, InQueue
  <1>6. \A s \in Slots : InHand(s)' => InHand(s) /\ UNCHANGED <<msg, done>>
    BY <1>2 DEF IngestPush, IngestReady, InHand
  <1>7. \A s \in Slots : Converted(s) => Converted(s)'
    BY <1>5, <1>6, ConvertedStays
  <1>8. RawDoneOK'
    BY <1>1, <1>4, <1>5 DEF RawDoneOK
  <1>9. FedOK'
    <2>1. Reclaimed => prev \in Slots
      BY <1>1 DEF Reclaimed, StreamTypeOK
    <2> QED BY <1>1, <1>4, <1>5, <1>7, <2>1 DEF FedOK
  <1>10. OwnerOK'
    <2> SUFFICES ASSUME Owner # NoSlot PROVE OwnedBlock(Owner)'
      BY <1>5 DEF OwnerOK
    <2>1. PICK s \in Slots : s = Owner
      BY OwnerSlot
    <2>2. OwnedBlock(s)
      BY <1>1, <2>1 DEF OwnerOK
    <2>3. s = msg.slot => resamp[s] = Stretch(tail, span.n)
      BY <1>3, <2>1, <2>2, SMTT(30) DEF OwnedBlock
    <2>4. ready'[s] = 1 => s = msg.slot \/ ready[s] = 1
      BY <1>1, <1>3 DEF IngestPush, IngestReady, StreamTypeOK
    <2>5. OwnedBlock(s)'
      BY <1>4, <1>6, <1>7, <2>2, <2>3, <2>4 DEF OwnedBlock
    <2> QED BY <1>5, <2>1, <2>5
  <1> QED BY <1>8, <1>9, <1>10 DEF InOrder

\* No dispatch fails when no fault is allowed.
LEMMA NoFaults ==
  ASSUME MaxFaults = 0
  PROVE  /\ StreamFeedInit => faults = 0
         /\ faults = 0 /\ [StreamFeedNext]_vars => faults' = 0 /\ ~FeedDispatchDrop
  <1>1. ASSUME faults = 0, [StreamFeedNext]_vars PROVE faults' = 0 /\ ~FeedDispatchDrop
    <2>1. CASE PumpStep
      BY <1>1, <2>1, SMTT(30) DEF PumpStep, UrbCompleted, UrbCopy, UrbPublish, PauseStream, ResumeStream,
                        StopFeed, FeedDispatchDrop
    <2>2. CASE CaptureStep
      BY <1>1, <2>2, SMTT(30) DEF CaptureStep, StartCapture, StopCapture, FeedDispatchDrop
    <2>3. CASE FeedStep \/ FeedTimeout
      BY <1>1, <2>3, SMTT(30)
         DEF FeedStep, FeedTimeout, FeedTop, FeedAcquire, FeedRawDone, FeedConsume, FeedRead,
             FeedReadEmpty, FeedDispatch, FeedDispatchDrop, FeedTake, FeedDsp,
             FeedRelease, FeedReleaseSlot, FeedWake
    <2>4. CASE IngestStep
      BY <1>1, <2>4, SMTT(30) DEF IngestStep, IngestReceive, IngestTile, IngestPush, IngestReady,
                        FeedDispatchDrop
    <2>5. CASE UNCHANGED vars
      BY <1>1, <2>5, SMTT(30) DEF vars, FeedDispatchDrop
    <2> QED BY <1>1, <2>1, <2>2, <2>3, <2>4, <2>5 DEF StreamFeedNext, Parked
  <1> QED BY <1>1 DEF StreamFeedInit

LEMMA OrderInit == StreamFeedInit => InOrder /\ WholePairs
  <1> SUFFICES ASSUME StreamFeedInit PROVE InOrder /\ WholePairs
    OBVIOUS
  <1>1. /\ head = 0 /\ tail = 0 /\ wn = 0 /\ span = NoSpan /\ fpc = "top" /\ prev = NoSlot
        /\ raw_done = [s \in Slots |-> 0] /\ tagged = 0
    BY DEF StreamFeedInit, RingInit
  <1>2. Owner = NoSlot /\ ~Reclaimed
    BY <1>1 DEF Owner, Reclaimed, Feeding, Between
  <1> QED BY <1>1, <1>2, SMTT(30) DEF InOrder, RawDoneOK, OwnerOK, FedOK, WholePairs, NoSpan

LEMMA OrderStep ==
  ASSUME SlotsIInv, WholePairs, InOrder, SpanStable, streaming, ~capture, ~FeedDispatchDrop,
         [StreamFeedNext]_vars
  PROVE  InOrder'
  <1>1. CASE PumpStep \/ CaptureStep \/ UNCHANGED vars
    BY <1>1, OrderOutside
  <1>2. CASE Handling
    BY <1>2, OrderHandling
  <1>3. CASE FeedConsume \/ FeedRead
    BY <1>3, OrderReading
  <1>4. CASE FeedDispatch
    BY <1>4, OrderDispatch
  <1>5. CASE IngestStep
    BY <1>5, OrderReceive, OrderTile, OrderReady DEF IngestStep
  <1> QED BY <1>1, <1>2, <1>3, <1>4, <1>5 DEF StreamFeedNext, FeedStep, Handling, Parked

\* The reclaimed block is the next stretch of the stream.
LEMMA NextStretchFed == SlotsIInv /\ InOrder => FedInOrder
  <1> SUFFICES ASSUME SlotsIInv, InOrder, fpc \in {"dsp_feed", "drain_feed"},
                      NEW k \in 1 .. Len(resamp[prev])
               PROVE  resamp[prev][k] = (tagged + k - 1) % Wrap
    BY DEF FedInOrder
  <1>1. prev \in Slots /\ Reclaimed
    BY DEF SlotsIInv, StreamTypeOK, StageOK, Reclaimed, Feeding, Draining
  <1>2. PICK n \in Nat : n = raw_bytes[prev]
    BY <1>1 DEF SlotsIInv, StreamTypeOK
  <1>3. resamp[prev] = Stretch(tagged, n) /\ tagged \in Nat
    BY <1>1, <1>2, ConstantFacts, SMTT(30) DEF InOrder, FedOK, SlotsIInv, StreamTypeOK, Counters
  <1>4. k \in 1 .. n
    BY <1>3, StretchSeq
  <1>5. resamp[prev][k] = (tagged + (k - 1)) % Wrap
    BY <1>3, <1>4, StretchSeq
  <1>6. tagged + (k - 1) = tagged + k - 1
    BY <1>3, <1>4
  <1> QED BY <1>5, <1>6

\* As long as nothing is reset, dropped or captured, and the transfers and the
\* ring are whole I/Q pairs, what the tagger is fed is exactly the next stretch
\* of the bytes the ring accepted, for every size of transfer, ring, block, tile
\* and queue and every interleaving of the three tasks.
THEOREM StreamInOrder ==
  ASSUME MaxResets = 0, MaxFaults = 0, MaxCaptures = 0, EvenBytes
  PROVE  StreamFeedSpec => []FedInOrder
  <1> DEFINE Quiet == streaming /\ resets = 0 /\ faults = 0 /\ ~capture /\ captures = 0
             Inv == SlotsIInv /\ RingIInv /\ Quiet /\ WholePairs /\ InOrder
  <1>1. StreamFeedInit => Inv
    BY SlotsInit, InitInv, NoResets, NoFaults, NoCaptures, OrderInit DEF StreamFeedInit
  <1>2. Inv /\ [StreamFeedNext]_vars => Inv'
    <2> SUFFICES ASSUME Inv, [StreamFeedNext]_vars PROVE Inv'
      OBVIOUS
    <2>1. SlotsIInv'
      BY SlotsNext
    <2>2. RingIInv'
      BY StreamRingStep, NextInv
    <2>3. Quiet' /\ ~FeedDispatchDrop
      BY NoResets, NoFaults, NoCaptures
    <2>4. WholePairs'
      BY PairsStep
    <2>5. InOrder'
      BY <2>3, SpanStableFromInv, OrderStep
    <2> QED BY <2>1, <2>2, <2>3, <2>4, <2>5
  <1>3. Inv => FedInOrder
    BY NextStretchFed
  <1> QED BY <1>1, <1>2, <1>3, PTL DEF StreamFeedSpec
==============================================================================
