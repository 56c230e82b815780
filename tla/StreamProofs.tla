---------------------------- MODULE StreamProofs -----------------------------
(***************************************************************************)
(* The path from the ring to the tagger, with the feeder and Core 1: each  *)
(* conversion slot is in one hand, and the tagger's index and the signal   *)
(* buffer's head count the same samples.                                   *)
(***************************************************************************)
EXTENDS StreamFeed, RingProofs

\* Zenon is the prover of every step that names no other; the steps with
\* arithmetic name SMT, with time enough for the larger ones.
USE Zenon

-----------------------------------------------------------------------------
(* The stream path: who holds which slot, and which bytes.                 *)

Loading == {"raw_done", "consume", "read", "dispatch"}
Draining == {"drain_take", "drain_feed", "drain_release"}
Feeding == {"take", "dsp_feed", "release"}
Between == {"top", "acquire", "stopped"}
FeedStages == Loading \cup Draining \cup Feeding \cup Between \cup {"release_slot", "wait"}

Messages == {m \in [slot : Slots, ptr : Nat, bytes : Nat] : m.ptr + m.bytes <= Capacity}

\* What the bytes of a block can be: NoByte after a reset.
Bytes == Counters \cup {NoByte}

StreamTypeOK ==
    /\ head \in Counters /\ tail \in Counters
    /\ buf \in [Offsets -> Bytes]
    /\ span \in [off : Nat, n : Nat] /\ span.off + span.n <= Capacity
    /\ wn \in Nat
    /\ fpc \in FeedStages /\ slot \in Slots /\ prev \in Slots \cup {NoSlot}
    /\ next_acquire \in Slots /\ raw_bytes \in [Slots -> Nat]
    /\ free \in [Slots -> {0, 1}] /\ raw_done \in [Slots -> {0, 1}] /\ ready \in [Slots -> {0, 1}]
    /\ dispatch \in Seq(Messages)
    /\ ipc \in {"recv", "convert", "ready"} /\ msg \in Messages
    /\ done \in Nat /\ done <= ConvertLength
    /\ resamp \in [Slots -> Seq(Bytes)]
    /\ pushed \in Counters /\ tagged \in Counters

\* Where the feeder is with its two slots.
StageOK ==
    /\ fpc \in {"wait", "release_slot"} => prev = NoSlot
    /\ fpc \in {"raw_done", "consume"} \cup Draining \cup Feeding => prev # NoSlot
    /\ fpc \in Loading \cup Draining \cup Feeding \cup {"release_slot"} => slot # prev

InQueue(s) == \E k \in 1 .. Len(dispatch) : dispatch[k].slot = s
InHand(s) == ipc # "recv" /\ msg.slot = s

\* The slots the feeder has given to ingest and not taken back.
IngestHas(s) ==
    \/ prev = s /\ fpc \in Between \cup Loading \cup {"take", "drain_take"}
    \/ slot = s /\ fpc \in Feeding

\* The three places of a slot that is with ingest exclude each other, and it is
\* queued once.
OnePlace ==
    /\ \A s \in Slots : /\ InQueue(s) => ~InHand(s) /\ ready[s] = 0
                        /\ InHand(s) => ready[s] = 0
    /\ \A j, k \in 1 .. Len(dispatch) : dispatch[j].slot = dispatch[k].slot => j = k

SlotsOK ==
    /\ OnePlace
    /\ \A s \in Slots : WithIngest(s) <=> IngestHas(s)
    /\ \A s \in Slots : (free[s] = 1) <=> ~IngestHas(s) /\ ~WithFeeder(s)

\* The slot whose bytes are still in the ring, under the peeked span.
Owner == IF fpc \in Feeding THEN slot
         ELSE IF fpc \in Between \cup {"raw_done", "consume"} THEN prev ELSE NoSlot

SpanHeld ==
    /\ span # NoSpan => span.n > 0
    /\ span = NoSpan <=> Owner = NoSlot /\ fpc # "dispatch"
    /\ Owner # NoSlot => raw_bytes[Owner] = span.n
    /\ span.n <= Block

\* The length of a converted block.
LengthOK ==
    /\ ipc = "recv" => done = 0
    /\ ipc # "recv" /\ (done > 0 \/ ipc = "ready") => Len(resamp[msg.slot]) = done
    /\ ipc = "ready" => done = ConvertLength
    /\ \A s \in Slots : Len(resamp[s]) <= Block
    /\ ipc # "recv" => msg.bytes <= Block
    /\ \A k \in 1 .. Len(dispatch) : dispatch[k].bytes <= Block

SlotsIInv == StreamTypeOK /\ StageOK /\ SlotsOK /\ SpanHeld /\ LengthOK


LEMMA StreamConstants ==
  /\ Capacity \in Nat \ {0} /\ Wrap \in Nat \ {0} /\ Block \in Nat \ {0} /\ Tile \in Nat \ {0}
  /\ TransferSizes \subseteq Nat \ {0} /\ Slots = {0, 1} /\ NumSlots = 2
  <1>1. Slots = {0, 1} /\ NumSlots = 2
    BY SMTT(30) DEF Slots, NumSlots
  <1> QED BY <1>1, ConstantFacts, StreamFeedAssumption, MaxWriteAssumption, SMTT(30)

\* The whole pairs of a dispatch.
LEMMA ConvertLengthFacts ==
  ASSUME msg \in Messages
  PROVE  /\ ConvertLength \in Nat /\ ConvertLength <= msg.bytes
         /\ msg.bytes % 2 = 0 => ConvertLength = msg.bytes
  BY SMTT(30) DEF ConvertLength, Messages

\* A tile is not empty, and ends where the dispatch does or before.
LEMMA TileFacts ==
  ASSUME StreamTypeOK, done < ConvertLength
  PROVE  /\ TileBytes \in Seq(Bytes)
         /\ Len(TileBytes) \in Nat \ {0} /\ done + Len(TileBytes) <= ConvertLength
         /\ Len(TileBytes) = Least(Tile, ConvertLength - done)
         /\ \A k \in 1 .. Len(TileBytes) : TileBytes[k] = buf[msg.ptr + done + k - 1]
  <1> DEFINE t == Least(Tile, ConvertLength - done)
  <1>1. ConvertLength \in Nat /\ ConvertLength <= msg.bytes /\ done \in Nat
    BY ConvertLengthFacts DEF StreamTypeOK
  <1>2. t \in Nat \ {0} /\ done + t <= ConvertLength
    BY <1>1, StreamConstants, SMTT(30) DEF Least
  <1>3. msg.ptr \in Nat /\ msg.bytes \in Nat /\ msg.ptr + msg.bytes <= Capacity
    BY DEF StreamTypeOK, Messages
  <1> HIDE DEF t
  <1>4. \A k \in 1 .. t : msg.ptr + done + k - 1 \in Offsets
    BY <1>1, <1>2, <1>3, ConstantFacts, SMTT(30) DEF Offsets
  <1>5. \A k \in 1 .. t : buf[msg.ptr + done + k - 1] \in Bytes
    BY <1>4 DEF StreamTypeOK
  <1>6. TileBytes = [k \in 1 .. t |-> buf[msg.ptr + done + k - 1]]
    BY DEF TileBytes, t
  <1>7. TileBytes \in Seq(Bytes) /\ Len(TileBytes) = t
    BY <1>2, <1>5, <1>6, SMTT(30)
  <1> QED BY <1>2, <1>6, <1>7 DEF t

\* A peeked span lies in the array, whatever the counters are.
LEMMA PeekedSpan ==
  ASSUME head \in Counters, tail \in Counters, usbring_peek_contig(head, tail) > 0
  PROVE  LET n == Least(usbring_peek_contig(head, tail), Block)
         IN  /\ n \in Nat \ {0} /\ n <= Block
             /\ usbring_phys_offset(tail) \in Nat
             /\ usbring_phys_offset(tail) + n <= Capacity
  <1>1. usbring_used(head, tail) \in Nat
    BY UsedFacts, ConstantFacts, SMTT(30) DEF Counters
  <1>2. usbring_phys_offset(tail) \in 0 .. Capacity - 1
    BY Ranges, ConstantFacts, SMTT(30) DEF Counters
  <1> QED BY <1>1, <1>2, StreamConstants, SMTT(30) DEF usbring_peek_contig, Least

\* What usb_pump and the capture command leave alone.
slotState == <<slotVars, feedVars, dispatch, ingestVars, tagged, span>>

LEMMA RingTypes ==
  ASSUME StreamTypeOK, PumpStep \/ CaptureStep \/ UNCHANGED vars
  PROVE  /\ head' \in Counters /\ tail' \in Counters /\ buf' \in [Offsets -> Bytes] /\ wn' \in Nat
         /\ UNCHANGED slotState
  <1>1. head \in Counters /\ tail \in Counters /\ buf \in [Offsets -> Bytes] /\ wn \in Nat
        /\ 0 \in Counters /\ head \in Nat
    BY ConstantFacts, SMTT(30) DEF StreamTypeOK, Counters
  <1>2. CASE UrbCompleted
    BY <1>1, <1>2, StreamConstants DEF UrbCompleted, WriteAccept, WriteDrop, ringVars, slotState
  <1>3. CASE UrbCopy
    <2>1. ASSUME NEW o \in Offsets PROVE buf'[o] \in Bytes
      <3>1. CASE \E k \in 0 .. wn - 1 : CopyTarget(k) = o
        <4> DEFINE k == CHOOSE k \in 0 .. wn - 1 : CopyTarget(k) = o
        <4>1. k \in 0 .. wn - 1
          BY <3>1
        <4>2. buf'[o] = (head + k) % Wrap
          BY <1>3, <3>1 DEF UrbCopy, WriteCopy, usbring_next_head
        <4> HIDE DEF k
        <4> QED BY <1>1, <4>1, <4>2, Ranges, SMTT(30) DEF Bytes
      <3>2. CASE ~ \E k \in 0 .. wn - 1 : CopyTarget(k) = o
        BY <1>1, <1>3, <3>2 DEF UrbCopy, WriteCopy
      <3> QED BY <3>1, <3>2
    <2>2. buf' = [o \in Offsets |-> buf'[o]]
      BY <1>3 DEF UrbCopy, WriteCopy
    <2>3. buf' \in [Offsets -> Bytes]
      BY <2>1, <2>2
    <2> QED BY <1>1, <1>3, <2>3 DEF UrbCopy, WriteCopy, slotState
  <1>4. CASE UrbPublish
    <2>1. head' = (head + wn) % Wrap /\ wn' = 0 /\ UNCHANGED <<tail, buf>> /\ UNCHANGED slotState
      BY <1>4 DEF UrbPublish, WritePublish, usbring_next_head, slotState
    <2>2. (head + wn) % Wrap \in Counters
      BY <1>1, Ranges, SMTT(30)
    <2> QED BY <1>1, <2>1, <2>2
  <1>5. CASE ResumeStream
    BY <1>1, <1>5 DEF ResumeStream, slotState, feedVars
  <1>6. CASE PauseStream \/ StopFeed \/ CaptureStep \/ UNCHANGED vars
    BY <1>1, <1>6 DEF PauseStream, StopFeed, CaptureStep, StartCapture, StopCapture, vars,
                      ringVars, slotState
  <1> QED BY <1>2, <1>3, <1>4, <1>5, <1>6 DEF PumpStep

\* The control part of the invariant.
ControlOK == StageOK /\ SlotsOK /\ SpanHeld /\ LengthOK

LEMMA ControlFramed ==
  ASSUME ControlOK, UNCHANGED slotState
  PROVE  ControlOK'
  <1>1. StageOK' /\ SpanHeld'
    BY DEF ControlOK, StageOK, SpanHeld, Owner, slotState, feedVars
  <1>2. LengthOK'
    BY DEF ControlOK, LengthOK, ConvertLength, slotState, ingestVars
  <1>3. \A s \in Slots : /\ InQueue(s)' = InQueue(s) /\ InHand(s)' = InHand(s)
                         /\ WithIngest(s)' = WithIngest(s) /\ IngestHas(s)' = IngestHas(s)
                         /\ WithFeeder(s)' = WithFeeder(s)
    BY DEF slotState, feedVars, ingestVars, slotVars, InQueue, InHand, WithIngest, IngestHas,
           WithFeeder
  <1>4. free' = free /\ ready' = ready /\ dispatch' = dispatch
    BY DEF slotState, slotVars
  <1>5. OnePlace'
    BY <1>3, <1>4 DEF ControlOK, SlotsOK, OnePlace
  <1>6. SlotsOK'
    BY <1>3, <1>4, <1>5 DEF ControlOK, SlotsOK
  <1> QED BY <1>1, <1>2, <1>6 DEF ControlOK

LEMMA OutsideInv ==
  ASSUME SlotsIInv, PumpStep \/ CaptureStep \/ UNCHANGED vars
  PROVE  SlotsIInv'
  <1>1. StreamTypeOK /\ ControlOK
    BY DEF SlotsIInv, ControlOK
  <1>2. UNCHANGED slotState /\ ControlOK'
    BY <1>1, RingTypes, ControlFramed
  <1>3. StreamTypeOK'
    BY <1>1, <1>2, RingTypes DEF StreamTypeOK, slotState, slotVars, feedVars, ingestVars,
                                 ConvertLength
  <1> QED BY <1>2, <1>3 DEF SlotsIInv, ControlOK

\* While the queue and ingest stand still, a slot is where it was but for ready.
LEMMA IngestStands ==
  ASSUME UNCHANGED <<dispatch, ipc, msg, done>>
  PROVE  /\ \A s \in Slots : InQueue(s)' = InQueue(s) /\ InHand(s)' = InHand(s)
         /\ ConvertLength' = ConvertLength
         /\ \A s \in Slots : WithIngest(s)' <=> InQueue(s) \/ InHand(s) \/ ready'[s] = 1
         /\ \A s \in Slots : WithIngest(s) <=> InQueue(s) \/ InHand(s) \/ ready[s] = 1
  BY DEF InQueue, InHand, WithIngest, ConvertLength

\* The steps of the feeder that only move semaphores and slots about.
Handling == FeedTop \/ FeedAcquire \/ FeedRawDone \/ FeedReadEmpty \/ FeedTake \/ FeedDsp
            \/ FeedRelease \/ FeedReleaseSlot \/ FeedWake \/ FeedTimeout

LEMMA HandlingTypes ==
  ASSUME StreamTypeOK, StageOK, SlotsOK, Handling
  PROVE  /\ StreamTypeOK' /\ StageOK'
         /\ UNCHANGED <<dispatch, ipc, msg, done, resamp, span, raw_bytes, tail, head, buf, wn>>
  <1>1. UNCHANGED <<dispatch, ipc, msg, done, resamp, span, raw_bytes, tail, head, buf, wn>>
        /\ UNCHANGED pushed
    BY DEF Handling, FeedTop, FeedAcquire, FeedRawDone, FeedReadEmpty, FeedTake, FeedDsp,
           FeedRelease, FeedReleaseSlot, FeedWake, FeedTimeout, ringVars, ingestVars
  <1>2. /\ fpc' \in FeedStages /\ slot' \in Slots /\ prev' \in Slots \cup {NoSlot}
    BY DEF Handling, FeedTop, FeedAcquire, FeedRawDone, FeedReadEmpty, FeedTake, FeedDsp,
           FeedRelease, FeedReleaseSlot, FeedWake, FeedTimeout, feedVars, StreamTypeOK,
           AfterAcquire, AfterEmptyRead, FeedStages, Loading, Draining, Feeding, Between
  <1>3. next_acquire' \in Slots
    <2>1. UNCHANGED next_acquire \/ next_acquire' = (next_acquire + 1) % 2
      BY StreamConstants DEF Handling, FeedTop, FeedAcquire, FeedRawDone, FeedReadEmpty, FeedTake,
         FeedDsp, FeedRelease, FeedReleaseSlot, FeedWake, FeedTimeout, feedVars
    <2> QED BY <2>1, StreamConstants, SMTT(30) DEF StreamTypeOK
  <1>4. /\ free' \in [Slots -> {0, 1}] /\ raw_done' \in [Slots -> {0, 1}]
        /\ ready' \in [Slots -> {0, 1}]
    BY DEF Handling, FeedTop, FeedAcquire, FeedRawDone, FeedReadEmpty, FeedTake, FeedDsp,
           FeedRelease, FeedReleaseSlot, FeedWake, FeedTimeout, slotVars, StreamTypeOK
  <1>5. tagged' \in Counters
    <2>1. \/ tagged' = tagged
          \/ tagged' = (tagged + Len(resamp[prev])) % Wrap /\ prev \in Slots
      BY DEF Handling, FeedTop, FeedAcquire, FeedRawDone, FeedReadEmpty, FeedTake, FeedDsp,
         FeedRelease, FeedReleaseSlot, FeedWake, FeedTimeout, StreamTypeOK, StageOK, Feeding,
         Draining
    <2>2. CASE prev \in Slots
      <3>1. Len(resamp[prev]) \in Nat /\ tagged \in Nat
        BY <2>2, ConstantFacts, SMTT(30) DEF StreamTypeOK, Counters
      <3>2. (tagged + Len(resamp[prev])) % Wrap \in Counters
        BY <3>1, Ranges, SMTT(30)
      <3> QED BY <2>1, <3>2 DEF StreamTypeOK
    <2> QED BY <2>1, <2>2 DEF StreamTypeOK
  <1>6. StreamTypeOK'
    BY <1>1, <1>2, <1>3, <1>4, <1>5 DEF StreamTypeOK, ConvertLength
  <1>7. StageOK'
    <2>1. CASE FeedAcquire
      <3>1. prev # NoSlot => free[prev] # 1
        BY <2>1 DEF FeedAcquire, SlotsOK, IngestHas, StreamTypeOK, Between
      <3>2. next_acquire # prev
        BY <2>1, <3>1, SMTT(30) DEF FeedAcquire, StreamTypeOK, Slots, NumSlots, NoSlot
      <3>3. slot' = next_acquire /\ prev' = prev /\ fpc' \in {"raw_done", "read"}
            /\ (fpc' = "raw_done" => prev # NoSlot)
        BY <2>1 DEF FeedAcquire, AfterAcquire
      <3> QED BY <3>2, <3>3 DEF StageOK, Loading, Draining, Feeding
    <2>2. CASE FeedRawDone \/ FeedTake \/ FeedDsp \/ FeedTop
      BY <2>2 DEF FeedTop, FeedRawDone, FeedTake, FeedDsp, StageOK, Loading, Draining, Feeding
    <2>3. CASE FeedReadEmpty \/ FeedRelease
      <3>1. slot # NoSlot
        BY SMTT(30) DEF StreamTypeOK, Slots, NumSlots, NoSlot
      <3> QED BY <2>3, <3>1 DEF FeedReadEmpty, FeedRelease, AfterEmptyRead, StageOK, Loading,
                  Draining, Feeding
    <2>4. CASE FeedReleaseSlot \/ FeedWake \/ FeedTimeout
      BY <2>4 DEF FeedReleaseSlot, FeedWake, FeedTimeout, StageOK, Loading, Draining, Feeding
    <2> QED BY <2>1, <2>2, <2>3, <2>4 DEF Handling
  <1> QED BY <1>1, <1>6, <1>7

LEMMA HandlingInv ==
  ASSUME SlotsIInv, Handling
  PROVE  SlotsIInv'
  <1>1. /\ StreamTypeOK /\ StageOK /\ SlotsOK /\ SpanHeld /\ LengthOK
        /\ StreamTypeOK' /\ StageOK'
    BY HandlingTypes DEF SlotsIInv
  <1>2. UNCHANGED <<dispatch, ipc, msg, done, resamp, span, raw_bytes>>
    BY <1>1, HandlingTypes
  <1>3. LengthOK'
    BY <1>1, <1>2 DEF LengthOK, ConvertLength
  <1>4. SpanHeld'
    <2>1. Owner' = Owner /\ (fpc = "dispatch" <=> fpc' = "dispatch")
      BY <1>1 DEF Handling, FeedTop, FeedAcquire, FeedRawDone, FeedReadEmpty, FeedTake, FeedDsp,
         FeedRelease, FeedReleaseSlot, FeedWake, FeedTimeout, Owner, StageOK, AfterAcquire,
         AfterEmptyRead, Between, Feeding, Loading, Draining
    <2> QED BY <1>1, <1>2, <2>1 DEF SpanHeld
  <1>5. OnePlace'
    <2>1. \A s \in Slots : ready'[s] = 1 => ready[s] = 1
      BY <1>1 DEF Handling, FeedTop, FeedAcquire, FeedRawDone, FeedReadEmpty, FeedTake, FeedDsp,
         FeedRelease, FeedReleaseSlot, FeedWake, FeedTimeout, slotVars, StreamTypeOK
    <2>2. \A s \in Slots : ready'[s] \in {0, 1} /\ ready[s] \in {0, 1}
      BY <1>1 DEF StreamTypeOK
    <2>3. \A s \in Slots : InQueue(s)' = InQueue(s) /\ InHand(s)' = InHand(s)
      BY <1>2, IngestStands
    <2>4. ASSUME NEW s \in Slots
          PROVE  /\ InQueue(s)' => ~InHand(s)' /\ ready'[s] = 0
                 /\ InHand(s)' => ready'[s] = 0
      <3>1. InQueue(s) => ~InHand(s) /\ ready[s] = 0
        BY <1>1 DEF SlotsOK, OnePlace
      <3>2. InHand(s) => ready[s] = 0
        BY <1>1 DEF SlotsOK, OnePlace
      <3>3. ready[s] = 0 => ready'[s] = 0
        BY <2>1, <2>2
      <3> QED BY <2>3, <3>1, <3>2, <3>3
    <2>5. \A j, k \in 1 .. Len(dispatch') : dispatch'[j].slot = dispatch'[k].slot => j = k
      BY <1>1, <1>2 DEF SlotsOK, OnePlace
    <2> QED BY <2>4, <2>5 DEF OnePlace
  <1>6. ASSUME NEW s \in Slots PROVE WithIngest(s)' <=> IngestHas(s)'
    <2>1. /\ WithIngest(s)' <=> InQueue(s) \/ InHand(s) \/ ready'[s] = 1
          /\ WithIngest(s) <=> InQueue(s) \/ InHand(s) \/ ready[s] = 1
          /\ WithIngest(s) <=> IngestHas(s)
      BY <1>1, <1>2, IngestStands DEF SlotsOK
    <2>2. CASE FeedTake
      <3>1. ready[prev] = 1 /\ ready' = [ready EXCEPT ![prev] = 0] /\ prev \in Slots
        BY <1>1, <2>2 DEF FeedTake, StageOK, StreamTypeOK, Feeding, Draining
      <3>2. ~InQueue(prev) /\ ~InHand(prev)
        BY <1>1, <3>1, SMTT(30) DEF SlotsOK, OnePlace
      <3>3. WithIngest(s)' <=> WithIngest(s) /\ s # prev
        <4>1. ready'[s] = IF s = prev THEN 0 ELSE ready[s]
          BY <1>1, <3>1 DEF StreamTypeOK
        <4>2. CASE s = prev
          BY <2>1, <3>2, <4>1, <4>2, SMTT(30)
        <4>3. CASE s # prev
          BY <2>1, <4>1, <4>3
        <4> QED BY <4>2, <4>3
      <3>4. IngestHas(s)' <=> IngestHas(s) /\ s # prev
        BY <1>1, <2>2 DEF FeedTake, IngestHas, StageOK, Between, Loading, Feeding, Draining
      <3> QED BY <2>1, <3>3, <3>4
    <2>3. CASE ~FeedTake
      <3>1. ready' = ready
        BY <2>3 DEF Handling, FeedTop, FeedAcquire, FeedRawDone, FeedReadEmpty, FeedDsp,
           FeedRelease, FeedReleaseSlot, FeedWake, FeedTimeout, slotVars
      <3>2. s # NoSlot
        BY SMTT(30) DEF Slots, NumSlots, NoSlot
      <3>3. IngestHas(s)' <=> IngestHas(s)
        <4> USE <1>1, <3>2 DEF IngestHas, StageOK, Between, Loading, Feeding, Draining
        <4>1. CASE FeedTop \/ FeedAcquire \/ FeedRawDone
          BY <4>1 DEF FeedTop, FeedAcquire, FeedRawDone, AfterAcquire
        <4>2. CASE FeedReadEmpty \/ FeedDsp
          BY <4>2 DEF FeedReadEmpty, FeedDsp, AfterEmptyRead
        <4>3. CASE FeedRelease
          BY <4>3 DEF FeedRelease
        <4>4. CASE FeedReleaseSlot \/ FeedWake \/ FeedTimeout
          BY <4>4 DEF FeedReleaseSlot, FeedWake, FeedTimeout
        <4> QED BY <2>3, <4>1, <4>2, <4>3, <4>4 DEF Handling
      <3> QED BY <2>1, <3>1, <3>3
    <2> QED BY <2>2, <2>3
  <1>7. ASSUME NEW s \in Slots PROVE (free'[s] = 1) <=> ~IngestHas(s)' /\ ~WithFeeder(s)'
    <2>1. s # NoSlot /\ ((free[s] = 1) <=> ~IngestHas(s) /\ ~WithFeeder(s))
      BY <1>1, SMTT(30) DEF SlotsOK, Slots, NumSlots, NoSlot
    <2> USE <1>1, <2>1 DEF StreamTypeOK, StageOK, IngestHas, WithFeeder, Between, Loading, Feeding,
                           Draining
    <2>2. CASE FeedTop \/ FeedWake \/ FeedTimeout
      BY <2>2 DEF FeedTop, FeedWake, FeedTimeout, slotVars
    <2>3. CASE FeedAcquire
      <3>1. /\ free[next_acquire] = 1 /\ free' = [free EXCEPT ![next_acquire] = 0]
            /\ slot' = next_acquire /\ prev' = prev /\ next_acquire \in Slots
            /\ fpc = "acquire" /\ fpc' \in {"raw_done", "read"}
        BY <2>3 DEF FeedAcquire, AfterAcquire
      <3>2. (free[s] = 1) <=> prev # s
        BY <3>1
      <3>3. (free'[s] = 1) <=> prev # s /\ next_acquire # s
        <4>1. free'[s] = IF s = next_acquire THEN 0 ELSE free[s]
          BY <3>1
        <4>2. CASE s = next_acquire
          BY <4>1, <4>2, SMTT(30)
        <4>3. CASE s # next_acquire
          BY <3>2, <4>1, <4>3
        <4> QED BY <4>2, <4>3
      <3> QED BY <3>1, <3>3
    <2>4. CASE FeedRawDone \/ FeedReadEmpty
      <3>1. UNCHANGED <<free, slot, prev>>
        BY <2>4 DEF FeedRawDone, FeedReadEmpty, slotVars
      <3>2. \/ fpc = "raw_done" /\ fpc' = "consume"
            \/ fpc = "read" /\ fpc' = "drain_take"
            \/ fpc = "read" /\ fpc' = "release_slot" /\ prev = NoSlot
        BY <2>4 DEF FeedRawDone, FeedReadEmpty, AfterEmptyRead
      <3> QED BY <3>1, <3>2
    <2>5. CASE FeedTake
      BY <2>5 DEF FeedTake
    <2>6. CASE FeedDsp
      BY <2>6 DEF FeedDsp, slotVars
    <2>7. CASE FeedRelease
      BY <2>7 DEF FeedRelease, SlotFed
    <2>8. CASE FeedReleaseSlot
      BY <2>8 DEF FeedReleaseSlot
    <2> QED BY <2>2, <2>3, <2>4, <2>5, <2>6, <2>7, <2>8 DEF Handling
  <1> QED BY <1>1, <1>3, <1>4, <1>5, <1>6, <1>7 DEF SlotsIInv, SlotsOK

\* Reclaiming and peeking: the span changes hands with the owner.
LEMMA ReadingInv ==
  ASSUME SlotsIInv, FeedConsume \/ FeedRead
  PROVE  SlotsIInv'
  <1>1. StreamTypeOK /\ StageOK /\ SlotsOK /\ SpanHeld /\ LengthOK
    BY DEF SlotsIInv
  <1>2. /\ UNCHANGED <<dispatch, ipc, msg, done, resamp, raw_bytes, free, raw_done, ready, slot, prev>>
        /\ UNCHANGED <<head, buf, wn, next_acquire, pushed, tagged>>
    BY DEF FeedConsume, FeedRead, Peek, slotVars, ingestVars, feedVars
  <1>3. \/ fpc = "consume" /\ fpc' = "read"
        \/ fpc = "read" /\ fpc' = "dispatch"
    BY DEF FeedConsume, FeedRead
  <1>4. LengthOK'
    BY <1>1, <1>2 DEF LengthOK, ConvertLength
  <1>5. StageOK'
    BY <1>1, <1>2, <1>3 DEF StageOK, Loading, Draining, Feeding
  <1>6. OnePlace'
    BY <1>1, <1>2, IngestStands DEF SlotsOK, OnePlace
  <1>7. \A s \in Slots : /\ IngestHas(s)' <=> IngestHas(s)
                         /\ WithFeeder(s)' <=> WithFeeder(s)
    BY <1>2, <1>3 DEF IngestHas, WithFeeder, Between, Loading, Feeding
  <1>8. SlotsOK'
    BY <1>1, <1>2, <1>6, <1>7, IngestStands DEF SlotsOK
  <1>9. CASE FeedConsume
    <2>1. tail' \in Counters
      <3>1. tail + raw_bytes[prev] \in Nat
        <4>1. prev \in Slots /\ tail \in Nat
          BY <1>1, <1>9, ConstantFacts, SMTT(30) DEF FeedConsume, StageOK, StreamTypeOK, Counters
        <4> QED BY <1>1, <4>1, SMTT(30) DEF StreamTypeOK
      <3> QED BY <1>9, <3>1, Ranges DEF FeedConsume, usbring_next_tail
    <2>2. span' = NoSpan /\ fpc' = "read"
      BY <1>9 DEF FeedConsume
    <2>3. StreamTypeOK'
      BY <1>1, <1>2, <2>1, <2>2, StreamConstants, SMTT(30) DEF StreamTypeOK, NoSpan, FeedStages, Loading,
                                                     ConvertLength
    <2>4. SpanHeld'
      BY <2>2, StreamConstants, SMTT(30) DEF SpanHeld, NoSpan, Owner, Feeding, Between
    <2> QED BY <1>4, <1>5, <1>8, <2>3, <2>4 DEF SlotsIInv
  <1>10. CASE FeedRead
    <2> DEFINE n == Least(usbring_peek_contig(head, tail), Block)
    <2>1. /\ usbring_peek_contig(head, tail) > 0 /\ UNCHANGED tail /\ fpc' = "dispatch"
          /\ span' = [off |-> usbring_phys_offset(tail), n |-> n]
      BY <1>10 DEF FeedRead, Peek
    <2>2. /\ n \in Nat \ {0} /\ n <= Block /\ usbring_phys_offset(tail) \in Nat
          /\ usbring_phys_offset(tail) + n <= Capacity
      BY <1>1, <2>1, PeekedSpan DEF StreamTypeOK
    <2> HIDE DEF n
    <2>3. StreamTypeOK'
      BY <1>1, <1>2, <2>1, <2>2 DEF StreamTypeOK, FeedStages, Loading, ConvertLength
    <2>4. SpanHeld'
      <3>1. span' # NoSpan /\ span'.n = n
        BY <2>1, <2>2 DEF NoSpan
      <3>2. Owner' = NoSlot
        BY <2>1 DEF Owner, Feeding, Between
      <3> QED BY <2>1, <2>2, <3>1, <3>2, SMTT(30) DEF SpanHeld
    <2> QED BY <1>4, <1>5, <1>8, <2>3, <2>4 DEF SlotsIInv
  <1> QED BY <1>9, <1>10

\* A dispatch, sent or dropped, gives the slot to ingest.
LEMMA DispatchInv ==
  ASSUME SlotsIInv, FeedDispatch \/ FeedDispatchDrop
  PROVE  SlotsIInv'
  <1>1. StreamTypeOK /\ StageOK /\ SlotsOK /\ SpanHeld /\ LengthOK
    BY DEF SlotsIInv
  <1>2. /\ fpc = "dispatch" /\ raw_bytes' = [raw_bytes EXCEPT ![slot] = span.n]
        /\ UNCHANGED <<head, tail, buf, wn, span, free, slot, next_acquire, ipc, msg, done>>
        /\ UNCHANGED <<pushed, tagged>>
        /\ \/ prev # NoSlot /\ fpc' = "take" /\ prev' = prev
           \/ prev = NoSlot /\ fpc' = "top" /\ prev' = slot
    BY DEF FeedDispatch, FeedDispatchDrop, Dispatched, ringVars, ingestVars
  <1>3. slot \in Slots /\ slot # NoSlot /\ slot # prev
    BY <1>1, <1>2, SMTT(30) DEF StreamTypeOK, StageOK, Slots, NumSlots, NoSlot, Loading
  <1>4. ~InQueue(slot) /\ ~InHand(slot) /\ ready[slot] = 0 /\ free[slot] # 1
    <2>1. ~IngestHas(slot) /\ WithFeeder(slot)
      BY <1>2, <1>3 DEF IngestHas, WithFeeder, Feeding
    <2> QED BY <1>1, <1>3, <2>1 DEF SlotsOK, WithIngest, InQueue, InHand, StreamTypeOK
  <1>5. StageOK'
    BY <1>2, <1>3 DEF StageOK, Loading, Draining, Feeding
  <1>6. SpanHeld'
    <2>1. Owner' = slot /\ raw_bytes'[slot] = span.n /\ fpc' # "dispatch"
      BY <1>1, <1>2, <1>3 DEF Owner, Feeding, Between, StreamTypeOK
    <2>2. span # NoSpan
      BY <1>1, <1>2 DEF SpanHeld
    <2> QED BY <1>1, <1>2, <1>3, <2>1, <2>2 DEF SpanHeld
  <1>7. ASSUME NEW s \in Slots PROVE IngestHas(s)' <=> IngestHas(s) \/ s = slot
    <2>1. s # NoSlot
      BY SMTT(30) DEF Slots, NumSlots, NoSlot
    <2> QED BY <1>2, <2>1 DEF IngestHas, Between, Loading, Feeding
  <1>8. ASSUME NEW s \in Slots PROVE (free'[s] = 1) <=> ~IngestHas(s)' /\ ~WithFeeder(s)'
    <2>1. ~WithFeeder(s)'
      BY <1>2 DEF WithFeeder
    <2>2. WithFeeder(s) <=> s = slot
      BY <1>2 DEF WithFeeder
    <2> QED BY <1>1, <1>2, <1>7, <2>1, <2>2 DEF SlotsOK
  <1>9. CASE FeedDispatch
    <2> DEFINE m == [slot |-> slot, ptr |-> span.off, bytes |-> span.n]
    <2>1. dispatch' = Append(dispatch, m) /\ UNCHANGED <<raw_done, ready, resamp>>
      BY <1>9 DEF FeedDispatch, ingestVars
    <2>2. m \in Messages /\ m.slot = slot /\ m.bytes <= Block
      BY <1>1 DEF StreamTypeOK, Messages, SpanHeld
    <2> HIDE DEF m
    <2>3. /\ dispatch' \in Seq(Messages) /\ Len(dispatch') = Len(dispatch) + 1
          /\ dispatch'[Len(dispatch) + 1] = m
          /\ \A k \in 1 .. Len(dispatch) : dispatch'[k] = dispatch[k]
      BY <1>1, <2>1, <2>2, SMTT(30) DEF StreamTypeOK
    <2>4. Len(dispatch) \in Nat
      BY <1>1, SMTT(30) DEF StreamTypeOK
    <2>5. StreamTypeOK'
      <3>1. fpc' \in FeedStages /\ prev' \in Slots \cup {NoSlot} /\ raw_bytes' \in [Slots -> Nat]
        BY <1>1, <1>2, <1>3 DEF StreamTypeOK, FeedStages, Feeding, Between
      <3> QED BY <1>1, <1>2, <2>1, <2>3, <3>1 DEF StreamTypeOK, ConvertLength
    <2>6. LengthOK'
      BY <1>1, <1>2, <2>1, <2>2, <2>3, <2>4, SMTT(30) DEF LengthOK, ConvertLength
    <2>7. \A s \in Slots : InQueue(s)' <=> InQueue(s) \/ s = slot
      BY <2>2, <2>3, <2>4, SMTT(30) DEF InQueue
    <2>8. \A s \in Slots : InHand(s)' <=> InHand(s)
      BY <1>2 DEF InHand
    <2>9. OnePlace'
      <3>1. \A s \in Slots : /\ InQueue(s)' => ~InHand(s)' /\ ready'[s] = 0
                             /\ InHand(s)' => ready'[s] = 0
        BY <1>1, <1>4, <2>1, <2>7, <2>8 DEF SlotsOK, OnePlace
      <3>2. \A j \in 1 .. Len(dispatch) : dispatch[j].slot # slot
        BY <1>4 DEF InQueue
      <3>3. \A j, k \in 1 .. Len(dispatch') : dispatch'[j].slot = dispatch'[k].slot => j = k
        BY <1>1, <2>2, <2>3, <2>4, <3>2, SMTT(30) DEF SlotsOK, OnePlace
      <3> QED BY <3>1, <3>3 DEF OnePlace
    <2>10. \A s \in Slots : WithIngest(s)' <=> WithIngest(s) \/ s = slot
      BY <2>1, <2>7, <2>8 DEF WithIngest, InQueue, InHand
    <2> QED BY <1>1, <1>5, <1>6, <1>7, <1>8, <2>5, <2>6, <2>9, <2>10 DEF SlotsIInv, SlotsOK
  <1>10. CASE FeedDispatchDrop
    <2>1. /\ resamp' = [resamp EXCEPT ![slot] = <<>>] /\ raw_done' = [raw_done EXCEPT ![slot] = 1]
          /\ ready' = [ready EXCEPT ![slot] = 1] /\ dispatch' = dispatch
      BY <1>10 DEF FeedDispatchDrop, DropGivesReady
    <2>2. StreamTypeOK'
      <3>1. fpc' \in FeedStages /\ prev' \in Slots \cup {NoSlot} /\ raw_bytes' \in [Slots -> Nat]
        BY <1>1, <1>2, <1>3 DEF StreamTypeOK, FeedStages, Feeding, Between
      <3>2. resamp' \in [Slots -> Seq(Bytes)] /\ <<>> \in Seq(Bytes)
        BY <1>1, <2>1, SMTT(30) DEF StreamTypeOK
      <3> QED BY <1>1, <1>2, <2>1, <3>1, <3>2 DEF StreamTypeOK, ConvertLength
    <2>3. LengthOK'
      <3>1. ipc # "recv" => msg.slot # slot
        BY <1>4 DEF InHand
      <3>2. \A s \in Slots : Len(resamp'[s]) <= Block /\ (s # slot => resamp'[s] = resamp[s])
        BY <1>1, <2>1, StreamConstants, SMTT(30) DEF LengthOK, StreamTypeOK
      <3>3. msg.slot \in Slots
        BY <1>1 DEF StreamTypeOK, Messages
      <3> QED BY <1>1, <1>2, <2>1, <3>1, <3>2, <3>3 DEF LengthOK, ConvertLength
    <2>4. \A s \in Slots : /\ InQueue(s)' = InQueue(s) /\ InHand(s)' = InHand(s)
                           /\ ready'[s] = IF s = slot THEN 1 ELSE ready[s]
      BY <1>1, <1>2, <2>1, IngestStands DEF StreamTypeOK
    <2>5. OnePlace'
      BY <1>1, <1>4, <2>1, <2>4, SMTT(30) DEF SlotsOK, OnePlace
    <2>6. ASSUME NEW s \in Slots PROVE WithIngest(s)' <=> WithIngest(s) \/ s = slot
      BY <1>2, <2>1, <2>4, IngestStands
    <2> QED BY <1>1, <1>5, <1>6, <1>7, <1>8, <2>2, <2>3, <2>5, <2>6 DEF SlotsIInv, SlotsOK
  <1> QED BY <1>9, <1>10

\* Ingest takes a slot from the queue into its hand, and from there to ready.
LEMMA IngestInv ==
  ASSUME SlotsIInv, IngestStep
  PROVE  SlotsIInv'
  <1>1. StreamTypeOK /\ StageOK /\ SlotsOK /\ SpanHeld /\ LengthOK
    BY DEF SlotsIInv
  <1>2. /\ UNCHANGED <<head, tail, buf, wn, span, fpc, slot, prev, raw_bytes, next_acquire>>
        /\ UNCHANGED <<free, tagged>>
    BY DEF IngestStep, IngestReceive, IngestTile, IngestPush, IngestReady, ringVars, feedVars,
           slotVars
  <1>3. StageOK' /\ SpanHeld'
    BY <1>1, <1>2 DEF StageOK, SpanHeld, Owner
  <1>4. \A s \in Slots : /\ IngestHas(s)' <=> IngestHas(s)
                         /\ WithFeeder(s)' <=> WithFeeder(s)
    BY <1>2 DEF IngestHas, WithFeeder
  <1>5. msg \in Messages /\ msg.slot \in Slots /\ done \in Nat /\ ConvertLength \in Nat
        /\ ConvertLength <= msg.bytes /\ done <= ConvertLength
    BY <1>1, ConvertLengthFacts DEF StreamTypeOK, Messages
  <1>6. CASE IngestReceive
    <2> DEFINE m == Head(dispatch)
    <2>1. /\ dispatch # <<>> /\ msg' = m /\ dispatch' = Tail(dispatch) /\ done' = 0
          /\ ipc = "recv" /\ ipc' = "convert" /\ UNCHANGED <<raw_done, ready, resamp, pushed>>
      BY <1>6 DEF IngestReceive, slotVars
    <2>2. /\ Len(dispatch) \in Nat \ {0} /\ m = dispatch[1] /\ m \in Messages
          /\ dispatch' \in Seq(Messages) /\ Len(dispatch') = Len(dispatch) - 1
          /\ \A k \in 1 .. Len(dispatch') : dispatch'[k] = dispatch[k + 1]
      BY <1>1, <2>1, SMTT(30) DEF StreamTypeOK
    <2> HIDE DEF m
    <2>3. ConvertLength' \in Nat
      BY <2>1, <2>2, SMTT(30) DEF ConvertLength, Messages
    <2>4. StreamTypeOK'
      BY <1>1, <1>2, <2>1, <2>2, <2>3, SMTT(30) DEF StreamTypeOK
    <2>5. LengthOK'
      <3>1. m.bytes <= Block /\ \A k \in 1 .. Len(dispatch') : dispatch'[k].bytes <= Block
        BY <1>1, <2>2, SMTT(30) DEF LengthOK
      <3> QED BY <1>1, <2>1, <3>1, SMTT(30) DEF LengthOK
    <2>6. m.slot \in Slots
      BY <2>2 DEF Messages
    <2>7. ASSUME NEW s \in Slots
          PROVE  (InQueue(s)' <=> InQueue(s) /\ s # m.slot) /\ (InHand(s)' <=> s = m.slot)
                 /\ ~InHand(s)
      <3>1. InHand(s)' <=> s = m.slot
        BY <2>1 DEF InHand
      <3>2. ASSUME NEW k \in 1 .. Len(dispatch'), dispatch'[k].slot = s PROVE InQueue(s) /\ s # m.slot
        <4>1. k + 1 \in 1 .. Len(dispatch) /\ dispatch[k + 1].slot = s
          BY <2>2, <3>2, SMTT(30)
        <4>2. k + 1 # 1 /\ 1 \in 1 .. Len(dispatch)
          BY <2>2, SMTT(30)
        <4> QED BY <1>1, <2>2, <4>1, <4>2 DEF InQueue, SlotsOK, OnePlace
      <3>3. ASSUME NEW k \in 1 .. Len(dispatch), dispatch[k].slot = s, s # m.slot PROVE InQueue(s)'
        <4>1. k # 1
          BY <2>2, <3>3
        <4>2. k - 1 \in 1 .. Len(dispatch') /\ (k - 1) + 1 = k
          BY <2>2, <4>1, SMTT(30)
        <4> QED BY <2>2, <3>3, <4>2 DEF InQueue
      <3> QED BY <2>1, <3>1, <3>2, <3>3 DEF InQueue, InHand
    <2>8. InQueue(m.slot)
      BY <2>2, SMTT(30) DEF InQueue
    <2>9. OnePlace'
      <3>1. \A s \in Slots : /\ InQueue(s)' => ~InHand(s)' /\ ready'[s] = 0
                             /\ InHand(s)' => ready'[s] = 0
        BY <1>1, <2>1, <2>6, <2>7, <2>8 DEF SlotsOK, OnePlace
      <3>2. ASSUME NEW j \in 1 .. Len(dispatch'), NEW k \in 1 .. Len(dispatch'),
                   dispatch'[j].slot = dispatch'[k].slot
            PROVE  j = k
        <4>1. j + 1 \in 1 .. Len(dispatch) /\ k + 1 \in 1 .. Len(dispatch)
          BY <2>2, SMTT(30)
        <4>2. j + 1 = k + 1
          BY <1>1, <2>2, <3>2, <4>1, SMTT(30) DEF SlotsOK, OnePlace
        <4> QED BY <4>2, SMTT(30)
      <3> QED BY <3>1, <3>2 DEF OnePlace
    <2>10. \A s \in Slots : WithIngest(s)' <=> WithIngest(s)
      <3>1. \A s \in Slots : /\ WithIngest(s)' <=> InQueue(s)' \/ InHand(s)' \/ ready'[s] = 1
                             /\ WithIngest(s) <=> InQueue(s) \/ InHand(s) \/ ready[s] = 1
        BY DEF WithIngest, InQueue, InHand
      <3> QED BY <2>1, <2>7, <2>8, <3>1
    <2> QED BY <1>1, <1>2, <1>3, <1>4, <2>4, <2>5, <2>9, <2>10 DEF SlotsIInv, SlotsOK
  <1>7. CASE IngestTile \/ IngestPush
    <2>1. /\ ipc = "convert" /\ ipc' # "recv" /\ UNCHANGED <<dispatch, msg, ready>>
      BY <1>7 DEF IngestTile, IngestPush
    <2>2. \A s \in Slots : /\ InQueue(s)' <=> InQueue(s)
                           /\ InHand(s)' <=> InHand(s)
                           /\ WithIngest(s)' <=> WithIngest(s)
      BY <2>1 DEF InQueue, InHand, WithIngest
    <2>3. SlotsOK'
      BY <1>1, <1>2, <1>4, <2>1, <2>2 DEF SlotsOK, OnePlace
    <2>4. StreamTypeOK' /\ LengthOK'
      <3>1. CASE IngestTile
        <4>1. /\ TileBytes \in Seq(Bytes) /\ Len(TileBytes) \in Nat \ {0}
              /\ done + Len(TileBytes) <= ConvertLength /\ done' = done + Len(TileBytes)
              /\ UNCHANGED <<ipc, pushed>>
          BY <1>1, <3>1, TileFacts DEF IngestTile
        <4>2. PICK r : r = IF done = 0 THEN TileBytes ELSE resamp[msg.slot] \o TileBytes
          OBVIOUS
        <4>3. resamp' = [resamp EXCEPT ![msg.slot] = r]
          BY <3>1, <4>2 DEF IngestTile
        <4>4. r \in Seq(Bytes) /\ Len(r) = done'
          <5>1. CASE done = 0
            BY <4>1, <4>2, <5>1, SMTT(30)
          <5>2. CASE done # 0
            <6>1. resamp[msg.slot] \in Seq(Bytes) /\ Len(resamp[msg.slot]) = done
              BY <1>1, <1>5, <2>1, <5>2, SMTT(30) DEF StreamTypeOK, LengthOK
            <6> QED BY <4>1, <4>2, <5>2, <6>1, ConcatFacts
          <5> QED BY <5>1, <5>2
        <4>5. raw_done' \in [Slots -> {0, 1}]
          BY <1>1, <1>5, <3>1 DEF IngestTile, StreamTypeOK
        <4>6. /\ resamp' \in [Slots -> Seq(Bytes)] /\ resamp'[msg.slot] = r
              /\ \A s \in Slots : s # msg.slot => resamp'[s] = resamp[s]
          BY <1>1, <1>5, <4>3, <4>4 DEF StreamTypeOK
        <4>7. ConvertLength' = ConvertLength /\ done' \in Nat /\ done' <= ConvertLength /\ done' <= Block
          BY <1>1, <1>5, <2>1, <4>1, StreamConstants, SMTT(30) DEF ConvertLength, LengthOK, Messages
        <4>8. StreamTypeOK'
          BY <1>1, <1>2, <2>1, <4>1, <4>5, <4>6, <4>7 DEF StreamTypeOK
        <4>9. LengthOK'
          BY <1>1, <1>5, <2>1, <4>1, <4>4, <4>6, <4>7 DEF LengthOK
        <4> QED BY <4>8, <4>9
      <3>2. CASE IngestPush
        <4>1. /\ done = ConvertLength /\ ipc' = "ready" /\ UNCHANGED done
              /\ pushed' = (pushed + done) % Wrap
              /\ raw_done' = IF done = 0 THEN [raw_done EXCEPT ![msg.slot] = 1] ELSE raw_done
              /\ resamp' = IF done = 0 THEN [resamp EXCEPT ![msg.slot] = <<>>] ELSE resamp
          BY <3>2 DEF IngestPush
        <4>2. pushed' \in Counters
          <5>1. pushed + done \in Nat
            BY <1>1, <1>5, ConstantFacts, SMTT(30) DEF StreamTypeOK, Counters
          <5> QED BY <4>1, <5>1, Ranges
        <4>3. raw_done' \in [Slots -> {0, 1}]
          BY <1>1, <1>5, <4>1 DEF StreamTypeOK
        <4>4. <<>> \in Seq(Bytes) /\ Len(<<>>) = 0
          BY EmptySeqFacts
        <4>5. /\ resamp' \in [Slots -> Seq(Bytes)]
              /\ \A s \in Slots : resamp'[s] = resamp[s] \/ resamp'[s] = <<>>
              /\ done = 0 => resamp'[msg.slot] = <<>>
              /\ done # 0 => resamp' = resamp
          BY <1>1, <1>5, <4>1, <4>4 DEF StreamTypeOK
        <4>6. ConvertLength' = ConvertLength
          BY <2>1 DEF ConvertLength
        <4>7. StreamTypeOK'
          BY <1>1, <1>2, <2>1, <4>1, <4>2, <4>3, <4>5, <4>6 DEF StreamTypeOK
        <4>8. Len(resamp'[msg.slot]) = done
          BY <1>1, <1>5, <2>1, <4>4, <4>5, SMTT(30) DEF LengthOK
        <4>9. \A s \in Slots : Len(resamp'[s]) <= Block
          BY <1>1, <4>4, <4>5, StreamConstants, SMTT(30) DEF LengthOK
        <4>10. LengthOK'
          BY <1>1, <2>1, <4>1, <4>6, <4>8, <4>9 DEF LengthOK
        <4> QED BY <4>7, <4>10
      <3> QED BY <1>7, <3>1, <3>2
    <2> QED BY <1>3, <2>3, <2>4 DEF SlotsIInv
  <1>8. CASE IngestReady
    <2>1. /\ ipc = "ready" /\ ipc' = "recv" /\ ready' = [ready EXCEPT ![msg.slot] = 1]
          /\ msg' = NoMsg /\ done' = 0 /\ UNCHANGED <<dispatch, raw_done, resamp, pushed>>
      BY <1>8 DEF IngestReady
    <2>2. NoMsg \in Messages /\ ConvertLength' \in Nat
      BY <2>1, ConstantFacts, SMTT(30) DEF NoMsg, Messages, Slots, NumSlots, ConvertLength
    <2>3. StreamTypeOK'
      BY <1>1, <1>2, <1>5, <2>1, <2>2, SMTT(30) DEF StreamTypeOK
    <2>4. LengthOK'
      BY <1>1, <2>1 DEF LengthOK
    <2>5. \A s \in Slots : /\ InQueue(s)' <=> InQueue(s)
                           /\ ~InHand(s)'
                           /\ InHand(s) <=> s = msg.slot
                           /\ ready'[s] = IF s = msg.slot THEN 1 ELSE ready[s]
      <3> TAKE s \in Slots
      <3>1. InQueue(s)' <=> InQueue(s)
        BY <2>1 DEF InQueue
      <3>2. ~InHand(s)' /\ (InHand(s) <=> s = msg.slot)
        BY <2>1 DEF InHand
      <3>3. ready'[s] = IF s = msg.slot THEN 1 ELSE ready[s]
        BY <1>1, <2>1 DEF StreamTypeOK
      <3> QED BY <3>1, <3>2, <3>3
    <2>6. OnePlace'
      BY <1>1, <2>1, <2>5 DEF SlotsOK, OnePlace
    <2>7. \A s \in Slots : WithIngest(s)' <=> WithIngest(s)
      <3>1. \A s \in Slots : /\ WithIngest(s)' <=> InQueue(s)' \/ InHand(s)' \/ ready'[s] = 1
                             /\ WithIngest(s) <=> InQueue(s) \/ InHand(s) \/ ready[s] = 1
        BY DEF WithIngest, InQueue, InHand
      <3> QED BY <2>5, <3>1
    <2> QED BY <1>1, <1>2, <1>3, <1>4, <2>3, <2>4, <2>6, <2>7 DEF SlotsIInv, SlotsOK
  <1> QED BY <1>6, <1>7, <1>8 DEF IngestStep

LEMMA SlotsInit == StreamFeedInit => SlotsIInv
  <1> SUFFICES ASSUME StreamFeedInit PROVE SlotsIInv
    OBVIOUS
  <1>1. /\ head = 0 /\ tail = 0 /\ buf = [o \in Offsets |-> NoByte] /\ wn = 0 /\ span = NoSpan
        /\ fpc = "top" /\ slot = 0 /\ prev = NoSlot /\ next_acquire = 0
        /\ raw_bytes = [s \in Slots |-> 0] /\ free = [s \in Slots |-> 1]
        /\ raw_done = [s \in Slots |-> 0] /\ ready = [s \in Slots |-> 0]
        /\ dispatch = <<>> /\ ipc = "recv" /\ msg = NoMsg /\ done = 0
        /\ resamp = [s \in Slots |-> <<>>] /\ pushed = 0 /\ tagged = 0
    BY DEF StreamFeedInit, RingInit
  <1>2. <<>> \in Seq(Bytes) /\ <<>> \in Seq(Messages) /\ Len(<<>>) = 0
    BY EmptySeqFacts
  <1>3. NoMsg \in Messages /\ ConvertLength \in Nat
    BY <1>1, ConstantFacts, SMTT(30) DEF NoMsg, Messages, Slots, NumSlots, ConvertLength
  <1>4. StreamTypeOK
    <2>1. 0 \in Counters /\ 0 \in Slots
      BY ConstantFacts, SMTT(30) DEF Counters, Slots, NumSlots
    <2>2. buf \in [Offsets -> Bytes] /\ span \in [off : Nat, n : Nat] /\ span.off + span.n <= Capacity
      BY <1>1, ConstantFacts, SMTT(30) DEF Bytes, NoSpan
    <2> QED BY <1>1, <1>2, <1>3, <2>1, <2>2, SMTT(30) DEF StreamTypeOK, FeedStages, Between
  <1>5. StageOK
    BY <1>1 DEF StageOK, Loading, Draining, Feeding
  <1>6. SlotsOK
    <2>1. \A s \in Slots : /\ ~InQueue(s) /\ ~InHand(s) /\ ready[s] = 0 /\ free[s] = 1
                           /\ ~IngestHas(s) /\ ~WithFeeder(s) /\ ~WithIngest(s)
      BY <1>1, <1>2, SMTT(30) DEF InQueue, InHand, IngestHas, WithFeeder, WithIngest, Feeding, NoSlot, Slots, NumSlots
    <2> QED BY <1>1, <1>2, <2>1, SMTT(30) DEF SlotsOK, OnePlace
  <1>7. SpanHeld
    BY <1>1, StreamConstants, SMTT(30) DEF SpanHeld, Owner, Between, Feeding, NoSpan
  <1>8. LengthOK
    BY <1>1, <1>2, StreamConstants, SMTT(30) DEF LengthOK
  <1> QED BY <1>4, <1>5, <1>6, <1>7, <1>8 DEF SlotsIInv

LEMMA SlotsNext == SlotsIInv /\ [StreamFeedNext]_vars => SlotsIInv'
  <1> SUFFICES ASSUME SlotsIInv, [StreamFeedNext]_vars PROVE SlotsIInv'
    OBVIOUS
  <1>1. CASE PumpStep \/ CaptureStep
    BY <1>1, OutsideInv
  <1>2. CASE Handling
    BY <1>2, HandlingInv
  <1>3. CASE FeedConsume \/ FeedRead
    BY <1>3, ReadingInv
  <1>4. CASE FeedDispatch \/ FeedDispatchDrop
    BY <1>4, DispatchInv
  <1>5. CASE IngestStep
    BY <1>5, IngestInv
  <1>6. CASE UNCHANGED vars
    BY <1>6, OutsideInv
  <1> QED BY <1>1, <1>2, <1>3, <1>4, <1>5, <1>6 DEF StreamFeedNext, FeedStep, Handling, Parked

\* The slots have one owner each: the reader of a slot's bytes.
LEMMA OwnedOnce == SlotsIInv => SlotOwnership
  <1> SUFFICES ASSUME SlotsIInv, NEW s \in Slots
               PROVE  \E h \in {"free", "feeder", "ingest"} : Holders(s) = {h}
    BY DEF SlotOwnership
  <1>1. (free[s] = 1) <=> ~WithIngest(s) /\ ~WithFeeder(s)
    BY DEF SlotsIInv, SlotsOK
  <1>2. ~(WithIngest(s) /\ WithFeeder(s))
    <2>1. WithIngest(s) => IngestHas(s)
      BY DEF SlotsIInv, SlotsOK
    <2>2. ~(IngestHas(s) /\ WithFeeder(s))
      BY DEF SlotsIInv, StageOK, IngestHas, WithFeeder, Loading, Draining, Feeding, Between
    <2> QED BY <2>1, <2>2
  <1>3. CASE free[s] = 1
    BY <1>1, <1>3 DEF Holders
  <1>4. CASE WithFeeder(s)
    BY <1>1, <1>2, <1>4 DEF Holders
  <1>5. CASE WithIngest(s)
    BY <1>1, <1>2, <1>5 DEF Holders
  <1> QED BY <1>1, <1>3, <1>4, <1>5

\* Whatever is reset, dropped or captured meanwhile, and for every size of ring,
\* block, tile and queue, each slot is in exactly one hand.
THEOREM SlotsOwned == StreamFeedSpec => []SlotOwnership
  <1>1. StreamFeedInit => SlotsIInv
    BY SlotsInit
  <1>2. SlotsIInv /\ [StreamFeedNext]_vars => SlotsIInv'
    BY SlotsNext
  <1>3. SlotsIInv => SlotOwnership
    BY OwnedOnce
  <1> QED BY <1>1, <1>2, <1>3, PTL DEF StreamFeedSpec

-----------------------------------------------------------------------------
(* The tagger's index and signal_buffer's head.                            *)

\* What a slot holds for the tagger is at most a block, and the slots that are
\* with the feeder are not with ingest.
LEMMA UnfedFacts ==
  ASSUME SlotsIInv
  PROVE  \A s \in Slots : Unfed(s) \in 0 .. Block /\ ~(WithIngest(s) /\ WithFeeder(s))
  <1> TAKE s \in Slots
  <1>1. Len(resamp[s]) \in 0 .. Block
    BY StreamConstants, SMTT(30) DEF SlotsIInv, StreamTypeOK, LengthOK
  <1>2. ~(IngestHas(s) /\ WithFeeder(s))
    BY DEF SlotsIInv, StageOK, IngestHas, WithFeeder, Loading, Draining, Feeding, Between
  <1> QED BY <1>1, <1>2, StreamConstants, SMTT(30) DEF Unfed, SlotsIInv, SlotsOK

LEMMA UnfedRange == SlotsIInv => \A s \in Slots : Unfed(s) \in 0 .. Block
  BY UnfedFacts

LEMMA UnfedRangeNext == SlotsIInv' => \A s \in Slots : Unfed(s)' \in 0 .. Block
  <1>1. (SlotsIInv => \A s \in Slots : Unfed(s) \in 0 .. Block)'
    BY UnfedRange, PTL
  <1> QED BY <1>1

\* The distance of two counters when one of them moves on.
LEMMA LeadGrows ==
  ASSUME NEW p \in Counters, NEW t \in Counters, NEW n \in Nat, NEW u,
         (p - t) % Wrap = u, u + n < Wrap
  PROVE  (((p + n) % Wrap) - t) % Wrap = u + n
  BY ConstantFacts, ModDistanceGrows DEF Counters

LEMMA LeadShrinks ==
  ASSUME NEW p \in Counters, NEW t \in Counters, NEW n \in Nat, NEW u,
         (p - t) % Wrap = u, n <= u
  PROVE  (p - ((t + n) % Wrap)) % Wrap = u - n
  BY ConstantFacts, ModDistanceShrinks, SMTT(30) DEF Counters

\* What the steps that neither push nor feed a block leave alone.
LEMMA UnfedFramed ==
  ASSUME UNCHANGED <<ready, ipc, msg, resamp>>,
         \/ UNCHANGED <<fpc, prev>>
         \/ {fpc, fpc'} \cap {"dsp_feed", "drain_feed"} = {}
  PROVE  \A s \in Slots : Unfed(s)' = Unfed(s)
  BY DEF Unfed

\* A step that moves n bytes into slot s's share.
LEMMA AlignedPush ==
  ASSUME SlotsIInv, SlotsIInv', IndexAligned, 2 * Block < Wrap, NEW s \in Slots,
         Unfed(s) = 0, pushed' = (pushed + Unfed(s)') % Wrap, tagged' = tagged,
         \A r \in Slots : r # s => Unfed(r)' = Unfed(r)
  PROVE  IndexAligned'
  <1>1. PICK n : n = Unfed(s)'
    OBVIOUS
  <1>2. PICK u : u = Unfed(0) + Unfed(1)
    OBVIOUS
  <1>4. \A r \in Slots : Unfed(r) \in 0 .. Block /\ Unfed(r)' \in 0 .. Block
    BY UnfedRangeNext, UnfedFacts
  <1>5. Unfed(0)' + Unfed(1)' = u + n /\ u + n < Wrap /\ n \in Nat
    <2>1. CASE s = 0
      BY <1>1, <1>2, <1>4, <2>1, StreamConstants, SMTT(30)
    <2>2. CASE s = 1
      BY <1>1, <1>2, <1>4, <2>2, StreamConstants, SMTT(30)
    <2> QED BY <2>1, <2>2, StreamConstants
  <1>6. (pushed - tagged) % Wrap = u /\ pushed \in Counters /\ tagged \in Counters
    BY <1>2 DEF IndexAligned, SlotsIInv, StreamTypeOK
  <1>7. (((pushed + n) % Wrap) - tagged) % Wrap = u + n
    BY <1>5, <1>6, LeadGrows, SMTT(30)
  <1> QED BY <1>1, <1>5, <1>7 DEF IndexAligned

\* ... and one that feeds them to the tagger.
LEMMA AlignedFeed ==
  ASSUME SlotsIInv, IndexAligned, NEW s \in Slots,
         Unfed(s)' = 0, tagged' = (tagged + Unfed(s)) % Wrap, pushed' = pushed,
         \A r \in Slots : r # s => Unfed(r)' = Unfed(r)
  PROVE  IndexAligned'
  <1>1. PICK n : n = Unfed(s)
    OBVIOUS
  <1>2. PICK u : u = Unfed(0) + Unfed(1)
    OBVIOUS
  <1>3. \A r \in Slots : Unfed(r) \in 0 .. Block
    BY UnfedFacts
  <1>4. Unfed(0)' + Unfed(1)' = u - n /\ n <= u /\ n \in Nat
    <2>1. CASE s = 0
      BY <1>1, <1>2, <1>3, <2>1, StreamConstants, SMTT(30)
    <2>2. CASE s = 1
      BY <1>1, <1>2, <1>3, <2>2, StreamConstants, SMTT(30)
    <2> QED BY <2>1, <2>2, StreamConstants
  <1>5. (pushed - tagged) % Wrap = u /\ pushed \in Counters /\ tagged \in Counters
    BY <1>2 DEF IndexAligned, SlotsIInv, StreamTypeOK
  <1>6. (pushed - ((tagged + n) % Wrap)) % Wrap = u - n
    BY <1>4, <1>5, LeadShrinks, SMTT(30)
  <1> QED BY <1>1, <1>4, <1>6 DEF IndexAligned

LEMMA AlignedStep ==
  ASSUME SlotsIInv, SlotsIInv', IndexAligned, 2 * Block < Wrap, ~capture, [StreamFeedNext]_vars
  PROVE  IndexAligned'
  <1> USE DEF slotVars, feedVars, ingestVars
  <1>1. \A s \in Slots : Unfed(s) \in 0 .. Block /\ ~(WithIngest(s) /\ WithFeeder(s))
    BY UnfedFacts
  <1>2. msg.slot \in Slots /\ slot \in Slots /\ ready \in [Slots -> {0, 1}]
        /\ resamp \in [Slots -> Seq(Bytes)]
    BY DEF SlotsIInv, StreamTypeOK, Messages
  <1>3. ASSUME UNCHANGED <<pushed, tagged>>, \A s \in Slots : Unfed(s)' = Unfed(s)
        PROVE  IndexAligned'
    BY <1>3, StreamConstants DEF IndexAligned
  <1>4. CASE PumpStep \/ CaptureStep \/ UNCHANGED vars
    <2>1. UNCHANGED slotState
      BY <1>4, RingTypes DEF SlotsIInv
    <2> QED BY <1>3, <2>1, UnfedFramed DEF slotState
  <1>5. CASE \/ FeedTop \/ FeedAcquire \/ FeedRawDone \/ FeedReadEmpty \/ FeedReleaseSlot
             \/ FeedRelease \/ FeedWake \/ FeedTimeout \/ FeedConsume \/ FeedRead \/ FeedDispatch
    <2>1. UNCHANGED <<ready, ipc, msg, resamp, pushed, tagged>>
      BY <1>5 DEF FeedTop, FeedAcquire, FeedRawDone, FeedReadEmpty, FeedReleaseSlot, FeedRelease,
                  FeedWake, FeedTimeout, FeedConsume, FeedRead, FeedDispatch, Dispatched
    <2>2. {fpc, fpc'} \cap {"dsp_feed", "drain_feed"} = {}
      BY <1>5 DEF FeedTop, FeedAcquire, FeedRawDone, FeedReadEmpty, FeedReleaseSlot, FeedRelease,
                  FeedWake, FeedTimeout, FeedConsume, FeedRead, FeedDispatch, Dispatched,
                  AfterAcquire, AfterEmptyRead
    <2> QED BY <1>3, <2>1, <2>2, UnfedFramed
  <1>6. CASE FeedTake
    <2>1. /\ UNCHANGED <<ipc, msg, resamp, pushed, tagged, prev>> /\ ready[prev] = 1
          /\ ready' = [ready EXCEPT ![prev] = 0]
          /\ fpc \in {"take", "drain_take"} /\ fpc' \in {"dsp_feed", "drain_feed"}
      BY <1>6 DEF FeedTake
    <2>2. prev \in Slots
      BY <2>1 DEF SlotsIInv, StageOK, StreamTypeOK, Feeding, Draining
    <2>3. ASSUME NEW s \in Slots PROVE Unfed(s)' = Unfed(s)
      <3>1. CASE s = prev
        BY <2>1, <3>1 DEF Unfed
      <3>2. CASE s # prev
        BY <1>2, <2>1, <2>2, <3>2 DEF Unfed
      <3> QED BY <3>1, <3>2
    <2> QED BY <1>3, <2>1, <2>3
  <1>7. CASE FeedDsp
    <2>1. /\ UNCHANGED <<ready, ipc, msg, resamp, pushed, prev>>
          /\ fpc \in {"dsp_feed", "drain_feed"} /\ fpc' \notin {"dsp_feed", "drain_feed"}
          /\ tagged' = (tagged + Len(resamp[prev])) % Wrap
      BY <1>7 DEF FeedDsp, Shed
    <2>2. prev \in Slots /\ WithFeeder(prev)
      BY <2>1 DEF SlotsIInv, StageOK, StreamTypeOK, Feeding, Draining, WithFeeder
    <2>3. ready[prev] # 1 /\ ~(ipc = "ready" /\ msg.slot = prev)
      BY <1>1, <2>2 DEF WithIngest
    <2>4. Unfed(prev) = Len(resamp[prev]) /\ Unfed(prev)' = 0
      BY <2>1, <2>3 DEF Unfed
    <2>5. \A r \in Slots : r # prev => Unfed(r)' = Unfed(r)
      BY <2>1 DEF Unfed
    <2> QED BY <2>1, <2>2, <2>4, <2>5, AlignedFeed
  <1>8. CASE FeedDispatchDrop
    <2>1. /\ UNCHANGED <<ipc, msg, pushed, tagged, slot>> /\ fpc = "dispatch"
          /\ fpc' \in {"take", "top"}
          /\ ready' = [ready EXCEPT ![slot] = 1] /\ resamp' = [resamp EXCEPT ![slot] = <<>>]
      BY <1>8 DEF FeedDispatchDrop, Dispatched, DropGivesReady
    <2>2. WithFeeder(slot)
      BY <2>1 DEF WithFeeder
    <2>3. Unfed(slot) = 0
      BY <1>1, <1>2, <2>1, <2>2 DEF Unfed, WithIngest
    <2>4. Unfed(slot)' = 0
      BY <1>2, <2>1 DEF Unfed
    <2>5. \A s \in Slots : s # slot => Unfed(s)' = Unfed(s)
      BY <1>2, <2>1 DEF Unfed
    <2> QED BY <1>3, <2>1, <2>3, <2>4, <2>5
  <1>9. CASE IngestReceive \/ IngestTile \/ IngestPush
    <2>1. /\ UNCHANGED <<ready, fpc, prev, tagged>> /\ ipc # "ready"
          /\ \A s \in Slots : s # msg'.slot => resamp'[s] = resamp[s]
          /\ msg'.slot \in Slots
      <3>1. resamp \in [Slots -> Seq(Bytes)] /\ msg' \in Messages
        BY <1>2 DEF SlotsIInv, StreamTypeOK
      <3>2. CASE IngestReceive
        BY <3>1, <3>2 DEF IngestReceive, Messages
      <3>3. CASE IngestTile
        BY <3>1, <3>3 DEF IngestTile, Messages
      <3>4. CASE IngestPush
        BY <3>1, <3>4 DEF IngestPush, Messages
      <3> QED BY <1>9, <3>2, <3>3, <3>4
    <2>2. \A s \in Slots : s # msg'.slot => Unfed(s)' = Unfed(s)
      BY <2>1 DEF Unfed
    <2>3. CASE IngestReceive
      <3>1. UNCHANGED <<resamp, pushed>> /\ ipc' # "ready"
        BY <2>3 DEF IngestReceive
      <3>2. \A s \in Slots : Unfed(s)' = Unfed(s)
        BY <2>1, <3>1 DEF Unfed
      <3> QED BY <1>3, <2>1, <3>1, <3>2
    <2>4. CASE IngestTile \/ IngestPush
      <3>1. InHand(msg.slot) /\ WithIngest(msg.slot) /\ msg' = msg
        BY <2>4 DEF IngestTile, IngestPush, InHand, WithIngest
      <3>2. ready[msg.slot] = 0 /\ ~WithFeeder(msg.slot)
        BY <1>1, <1>2, <3>1 DEF SlotsIInv, SlotsOK, OnePlace
      <3>3. ~(fpc \in {"dsp_feed", "drain_feed"} /\ prev = msg.slot)
        BY <3>2 DEF WithFeeder
      <3>4. Unfed(msg.slot) = 0
        BY <2>1, <3>2, <3>3, SMTT(30) DEF Unfed
      <3>5. CASE IngestTile
        <4>1. ipc' # "ready" /\ pushed' = pushed
          BY <2>1, <3>5 DEF IngestTile
        <4>2. Unfed(msg.slot)' = 0
          BY <2>1, <3>1, <3>2, <3>3, <4>1, SMTT(30) DEF Unfed
        <4> QED BY <1>3, <2>1, <2>2, <3>1, <3>4, <4>1, <4>2
      <3>6. CASE IngestPush
        <4>1. pushed' = (pushed + done) % Wrap /\ ipc' = "ready" /\ done' = done
          BY <3>6 DEF IngestPush
        <4>2. Len(resamp'[msg.slot]) = done
          BY <3>1, <4>1 DEF SlotsIInv, LengthOK
        <4>3. Unfed(msg.slot)' = done
          BY <3>1, <4>1, <4>2 DEF Unfed
        <4> QED BY <1>2, <2>1, <2>2, <3>1, <3>4, <4>1, <4>3, AlignedPush
      <3> QED BY <2>4, <3>5, <3>6
    <2> QED BY <1>9, <2>3, <2>4
  <1>10. CASE IngestReady
    <2>1. /\ UNCHANGED <<fpc, prev, resamp, pushed, tagged>> /\ ipc = "ready" /\ ipc' = "recv"
          /\ ready' = [ready EXCEPT ![msg.slot] = 1]
      BY <1>10 DEF IngestReady
    <2>2. ASSUME NEW s \in Slots PROVE Unfed(s)' = Unfed(s)
      <3>1. CASE s = msg.slot
        BY <1>2, <2>1, <3>1 DEF Unfed
      <3>2. CASE s # msg.slot
        BY <1>2, <2>1, <3>2 DEF Unfed
      <3> QED BY <3>1, <3>2
    <2> QED BY <1>3, <2>1, <2>2
  <1> QED BY <1>4, <1>5, <1>6, <1>7, <1>8, <1>9, <1>10
          DEF StreamFeedNext, FeedStep, IngestStep, Parked

\* No capture is started when none is allowed.
LEMMA NoCaptures ==
  ASSUME MaxCaptures = 0
  PROVE  /\ StreamFeedInit => ~capture /\ captures = 0
         /\ ~capture /\ captures = 0 /\ [StreamFeedNext]_vars => ~capture' /\ captures' = 0
  <1> USE DEF envVars
  <1>1. ASSUME ~capture, captures = 0, [StreamFeedNext]_vars PROVE UNCHANGED envVars
    <2>1. CASE PumpStep
      BY <2>1 DEF PumpStep, UrbCompleted, UrbCopy, UrbPublish, PauseStream, ResumeStream, StopFeed
    <2>2. CASE CaptureStep
      BY <1>1, <2>2, SMTT(30) DEF CaptureStep, StartCapture, StopCapture
    <2>3. CASE FeedStep \/ FeedTimeout
      BY <2>3 DEF FeedStep, FeedTimeout, FeedTop, FeedAcquire, FeedRawDone, FeedConsume, FeedRead,
           FeedReadEmpty, FeedDispatch, FeedDispatchDrop, Dispatched, FeedTake, FeedDsp, FeedRelease,
           FeedReleaseSlot, FeedWake
    <2>4. CASE IngestStep
      BY <2>4 DEF IngestStep, IngestReceive, IngestTile, IngestPush, IngestReady
    <2>5. CASE UNCHANGED vars
      BY <2>5 DEF vars
    <2> QED BY <1>1, <2>1, <2>2, <2>3, <2>4, <2>5 DEF StreamFeedNext, Parked
  <1> QED BY <1>1, SMTT(30) DEF StreamFeedInit

\* As long as no continuous capture sheds the tagger's input, and whatever is
\* reset or dropped, the tagger and signal_buffer count the same samples.  Two
\* blocks must stay within the range of the counters.
THEOREM TaggerAligned ==
  ASSUME MaxCaptures = 0, 2 * Block < Wrap
  PROVE  StreamFeedSpec => []IndexAligned
  <1> DEFINE Inv == SlotsIInv /\ IndexAligned /\ ~capture /\ captures = 0
  <1>1. StreamFeedInit => Inv
    <2> SUFFICES ASSUME StreamFeedInit PROVE Inv
      OBVIOUS
    <2>1. pushed = 0 /\ tagged = 0 /\ Unfed(0) = 0 /\ Unfed(1) = 0
      BY SMTT(30) DEF StreamFeedInit, Unfed, Slots, NumSlots
    <2>2. (0 - 0) % Wrap = 0
      BY StreamConstants, SMTT(30)
    <2> QED BY <2>1, <2>2, SlotsInit, NoCaptures, SMTT(30) DEF IndexAligned
  <1>2. Inv /\ [StreamFeedNext]_vars => Inv'
    <2> SUFFICES ASSUME Inv, [StreamFeedNext]_vars PROVE Inv'
      OBVIOUS
    <2>1. SlotsIInv'
      BY SlotsNext
    <2>2. IndexAligned'
      BY <2>1, AlignedStep
    <2> QED BY <2>1, <2>2, NoCaptures
  <1> QED BY <1>1, <1>2, PTL DEF StreamFeedSpec
==============================================================================
