----------------------------- MODULE StreamFeed ------------------------------
(***************************************************************************)
(* The path of the USB stream from the ring to the detector: the usb_pump  *)
(* task that fills the ring (esp_libusb.c), the dsp_feed task that drains  *)
(* it (class_driver.c) and the ingest task on Core 1 that converts each    *)
(* block (ingest_core1.c), tied together by two ping-pong slots.           *)
(*                                                                         *)
(* Each slot has three binary semaphores: free (the slot may be acquired), *)
(* raw_done (ingest no longer reads the ring region) and ready (the        *)
(* converted block may be fed to the detector).  The feeder runs one cycle *)
(* behind: it dispatches slot k, then feeds slot k-1.                      *)
(*                                                                         *)
(* Counts are in ring bytes.  pushed and tagged are the cumulative sample  *)
(* counts of signal_buffer (s_head_total) and of the tagger                *)
(* (next_sample_idx), taken modulo Wrap; with no reset they are also the   *)
(* stream position of the next byte each expects.                          *)
(***************************************************************************)
EXTENDS UsbRing

CONSTANTS TransferSizes, \* the lengths of completed bulk transfers
          Block,         \* out_block_size, the largest read
          Tile,          \* the bytes of one conversion tile
          QueueDepth,    \* the length of s_dispatch
          MaxResets,     \* bound on pause/resume cycles of the stream
          MaxFaults,     \* bound on dispatches that fail
          MaxCaptures,   \* bound on continuous captures
          EventMixes     \* bound: which of the three one behaviour may have

ASSUME StreamFeedAssumption ==
    /\ TransferSizes \subseteq 1 .. MaxWrite
    /\ {Block, Tile} \subseteq {2 * k : k \in 1 .. Capacity}
    /\ QueueDepth \in Nat \ {0}
    /\ {MaxResets, MaxFaults, MaxCaptures} \subseteq Nat
    /\ EventMixes \subseteq SUBSET {"reset", "fault", "capture"}

NumSlots == 2       \* INGEST_NUM_SLOTS
Slots  == 0 .. NumSlots - 1
NoSlot == -1

VARIABLES
    streaming,    \* dev->streaming
    stop,         \* s_feed_stop_requested
    notified,     \* dsp_feed's task notification is pending
    fpc,          \* dsp_feed: the stage it is in
    slot,         \* dsp_feed: slot_for_read
    prev,         \* dsp_feed: prev_dsp_slot
    raw_bytes,    \* dsp_feed: ring bytes of each slot's last dispatch
    next_acquire, \* s_next_acquire_slot
    free, raw_done, ready,   \* the semaphores of each slot
    dispatch,     \* s_dispatch
    ipc,          \* ingest: the step it is in
    msg,          \* ingest: the message being processed
    done,         \* ingest: bytes converted so far
    resamp,       \* the converted bytes of each slot (s_resamp and its length)
    pushed,       \* what signal_buffer has been given, modulo Wrap
    tagged,       \* what the tagger has been given, modulo Wrap
    capture,      \* a continuous capture is active
    resets, faults, captures \* how much of each bound is used

pumpVars   == <<streaming, stop, resets>>
slotVars   == <<free, raw_done, ready>>
feedVars   == <<fpc, slot, prev, raw_bytes, next_acquire>>
ingestVars == <<ipc, msg, done, resamp, pushed>>
envVars    == <<capture, captures>>
vars == <<ringVars, pumpVars, notified, slotVars, feedVars, dispatch,
          ingestVars, tagged, faults, envVars>>

NoMsg == [slot |-> 0, ptr |-> 0, bytes |-> 0]

StreamFeedInit ==
    /\ RingInit
    /\ streaming = TRUE /\ stop = FALSE /\ notified = FALSE
    /\ fpc = "top" /\ slot = 0 /\ prev = NoSlot
    /\ raw_bytes = [s \in Slots |-> 0]
    /\ next_acquire = 0
    /\ free = [s \in Slots |-> 1]
    /\ raw_done = [s \in Slots |-> 0]
    /\ ready = [s \in Slots |-> 0]
    /\ dispatch = <<>>
    /\ ipc = "recv" /\ msg = NoMsg /\ done = 0
    /\ resamp = [s \in Slots |-> <<>>]
    /\ pushed = 0 /\ tagged = 0
    /\ capture = FALSE
    /\ resets = 0 /\ faults = 0 /\ captures = 0

-----------------------------------------------------------------------------
(* usb_pump.                                                               *)

\* A bulk transfer completes while streaming: stream_transfer_cb writes it to
\* the ring, or drops it whole when the ring is full.
UrbCompleted ==
    /\ streaming /\ ~stop
    /\ \E n \in TransferSizes : WriteAccept(n) \/ WriteDrop(n)
    /\ UNCHANGED <<pumpVars, notified, slotVars, feedVars, dispatch, ingestVars,
                   tagged, faults, envVars>>

UrbCopy ==
    /\ WriteCopy
    /\ UNCHANGED <<pumpVars, notified, slotVars, feedVars, dispatch, ingestVars,
                   tagged, faults, envVars>>

\* Mutant: the consumer is not woken.
NoWake == notified

\* xTaskNotifyGive(s_consumer_task): any number of them is one wake-up.
WakeConsumer == TRUE

\* The end of usbring_write: publish, then wake the consumer.
UrbPublish ==
    /\ WritePublish
    /\ notified' = WakeConsumer
    /\ UNCHANGED <<pumpVars, slotVars, feedVars, dispatch, ingestVars, tagged,
                   faults, envVars>>

\* What the bounds allow next to what has happened.
Happened ==
    {k \in {"reset", "fault", "capture"} :
        \/ k = "reset" /\ resets > 0
        \/ k = "fault" /\ faults > 0
        \/ k = "capture" /\ captures > 0}

MayHappen(k) == \E mix \in EventMixes : Happened \cup {k} \subseteq mix

\* esp_libusb_pause_stream, for a retune, a gain change or maintenance.
PauseStream ==
    /\ streaming /\ ~stop /\ wpc = "idle"
    /\ resets < MaxResets /\ MayHappen("reset")
    /\ resets' = resets + 1
    /\ streaming' = FALSE
    /\ UNCHANGED <<ringVars, stop, notified, slotVars, feedVars, dispatch,
                   ingestVars, tagged, faults, envVars>>

\* esp_libusb_resume_stream: usbring_reset, whatever the consumer holds.
ResumeStream ==
    /\ ~streaming /\ ~stop
    /\ head' = 0
    /\ tail' = 0
    /\ streaming' = TRUE
    /\ UNCHANGED <<buf, wpc, wn, wfirst, span, stop, resets, notified, slotVars,
                   fpc, slot, prev, raw_bytes, next_acquire, dispatch,
                   ingestVars, tagged, faults, envVars>>

\* xTaskNotifyGive(s_dsp_feed_task_hdl).
WakeFeeder == TRUE

\* stop_dsp_feed_task, once the device is gone.
StopFeed ==
    /\ ~stop /\ wpc = "idle"
    /\ stop' = TRUE
    /\ notified' = WakeFeeder
    /\ UNCHANGED <<ringVars, streaming, resets, slotVars, feedVars, dispatch,
                   ingestVars, tagged, faults, envVars>>

\* sd_capture_continuous_active changes under the feeder's feet.
StartCapture ==
    /\ ~capture /\ captures < MaxCaptures /\ MayHappen("capture")
    /\ capture' = TRUE
    /\ captures' = captures + 1
    /\ UNCHANGED <<ringVars, pumpVars, notified, slotVars, feedVars, dispatch,
                   ingestVars, tagged, faults>>

StopCapture ==
    /\ capture
    /\ capture' = FALSE
    /\ UNCHANGED <<ringVars, pumpVars, notified, slotVars, feedVars, dispatch,
                   ingestVars, tagged, faults, captures>>

PumpStep ==
    \/ UrbCompleted \/ UrbCopy \/ UrbPublish
    \/ PauseStream \/ ResumeStream \/ StopFeed

CaptureStep == StartCapture \/ StopCapture

-----------------------------------------------------------------------------
(* dsp_feed.                                                               *)

FeedTop ==
    /\ fpc = "top"
    /\ fpc' = IF stop THEN "stopped" ELSE "acquire"
    /\ UNCHANGED <<ringVars, pumpVars, notified, slotVars, slot, prev,
                   raw_bytes, next_acquire, dispatch, ingestVars,
                   tagged, faults, envVars>>

\* Mutant: the previous span is not reclaimed before the next read.
NoReclaim == "read"

AfterAcquire == IF prev # NoSlot THEN "raw_done" ELSE "read"

\* ingest_core1_acquire_slot: the slots rotate whether or not they are used.
FeedAcquire ==
    /\ fpc = "acquire"
    /\ free[next_acquire] = 1
    /\ free' = [free EXCEPT ![next_acquire] = 0]
    /\ slot' = next_acquire
    /\ next_acquire' = (next_acquire + 1) % NumSlots
    /\ fpc' = AfterAcquire
    /\ UNCHANGED <<ringVars, pumpVars, notified, raw_done, ready, prev,
                   raw_bytes, dispatch, ingestVars, tagged, faults,
                   envVars>>

\* ingest_core1_wait_raw_done.
FeedRawDone ==
    /\ fpc = "raw_done"
    /\ raw_done[prev] = 1
    /\ raw_done' = [raw_done EXCEPT ![prev] = 0]
    /\ fpc' = "consume"
    /\ UNCHANGED <<ringVars, pumpVars, notified, free, ready, slot, prev,
                   raw_bytes, next_acquire, dispatch, ingestVars,
                   tagged, faults, envVars>>

\* esp_libusb_consume_stream of what the previous cycle dispatched.
FeedConsume ==
    /\ fpc = "consume"
    /\ tail' = usbring_next_tail(tail, raw_bytes[prev])
    /\ span' = NoSpan
    /\ fpc' = "read"
    /\ UNCHANGED <<head, buf, wpc, wn, wfirst, pumpVars, notified, slotVars,
                   slot, prev, raw_bytes, next_acquire, dispatch,
                   ingestVars, tagged, faults, envVars>>

\* esp_libusb_read_stream finds data ...
FeedRead ==
    /\ fpc = "read"
    /\ Peek(Block)
    /\ fpc' = "dispatch"
    /\ UNCHANGED <<pumpVars, notified, slotVars, slot, prev, raw_bytes,
                   next_acquire, dispatch, ingestVars, tagged, faults, envVars>>

AfterEmptyRead == IF prev # NoSlot THEN "drain_take" ELSE "release_slot"

\* ... or the ring is empty: drain the slot in flight before waiting.
FeedReadEmpty ==
    /\ fpc = "read"
    /\ usbring_peek_contig(head, tail) = 0
    /\ fpc' = AfterEmptyRead
    /\ UNCHANGED <<ringVars, pumpVars, notified, slotVars, slot, prev,
                   raw_bytes, next_acquire, dispatch, ingestVars,
                   tagged, faults, envVars>>

\* The end of the dispatch, whether the send succeeded or not.
Dispatched ==
    /\ fpc = "dispatch"
    /\ raw_bytes' = [raw_bytes EXCEPT ![slot] = span.n]
    /\ IF prev # NoSlot THEN fpc' = "take" /\ UNCHANGED prev
                        ELSE fpc' = "top" /\ prev' = slot
    /\ UNCHANGED <<ringVars, pumpVars, notified, free, slot, next_acquire,
                   tagged, envVars>>

\* ingest_core1_dispatch.
FeedDispatch ==
    /\ Dispatched
    /\ Len(dispatch) < QueueDepth
    /\ dispatch' = Append(dispatch,
                     [slot |-> slot, ptr |-> span.off, bytes |-> span.n])
    /\ UNCHANGED <<raw_done, ready, ingestVars, faults>>

DropGivesReady == [ready EXCEPT ![slot] = 1]

\* The send fails: the slot is marked empty and recycled.
FeedDispatchDrop ==
    /\ Dispatched
    /\ faults < MaxFaults /\ MayHappen("fault")
    /\ faults' = faults + 1
    /\ resamp' = [resamp EXCEPT ![slot] = <<>>]
    /\ raw_done' = [raw_done EXCEPT ![slot] = 1]
    /\ ready' = DropGivesReady
    /\ UNCHANGED <<dispatch, ipc, msg, done, pushed>>

\* ingest_core1_take_converted, after a dispatch or in the drain.
FeedTake ==
    /\ fpc \in {"take", "drain_take"}
    /\ ready[prev] = 1
    /\ ready' = [ready EXCEPT ![prev] = 0]
    /\ fpc' = IF fpc = "take" THEN "dsp_feed" ELSE "drain_feed"
    /\ UNCHANGED <<ringVars, pumpVars, notified, free, raw_done, slot, prev,
                   raw_bytes, next_acquire, dispatch, ingestVars,
                   tagged, faults, envVars>>

\* Mutant: a drained block is released without being fed.
ShedDrainToo == capture \/ fpc = "drain_feed"

\* sd_capture_continuous_active().
Shed == capture

\* dsp_processor_feed, shed while a continuous capture runs.
FeedDsp ==
    /\ fpc \in {"dsp_feed", "drain_feed"}
    /\ tagged' = IF Shed THEN tagged ELSE (tagged + Len(resamp[prev])) % Wrap
    /\ fpc' = IF fpc = "dsp_feed" THEN "release" ELSE "drain_release"
    /\ UNCHANGED <<ringVars, pumpVars, notified, slotVars, slot, prev,
                   raw_bytes, next_acquire, dispatch, ingestVars,
                   faults, envVars>>

\* Mutant: the slot just dispatched is released in place of the one just fed.
ReleaseOther == slot

SlotFed == prev

\* ingest_core1_release of the slot just fed.
FeedRelease ==
    /\ fpc \in {"release", "drain_release"}
    /\ free' = [free EXCEPT ![SlotFed] = 1]
    /\ IF fpc = "release" THEN fpc' = "top" /\ prev' = slot
                          ELSE fpc' = "release_slot" /\ prev' = NoSlot
    /\ UNCHANGED <<ringVars, pumpVars, notified, raw_done, ready, slot,
                   raw_bytes, next_acquire, dispatch, ingestVars,
                   tagged, faults, envVars>>

\* ingest_core1_release of the slot that was acquired and not used.
FeedReleaseSlot ==
    /\ fpc = "release_slot"
    /\ free' = [free EXCEPT ![slot] = 1]
    /\ fpc' = "wait"
    /\ UNCHANGED <<ringVars, pumpVars, notified, raw_done, ready, slot, prev,
                   raw_bytes, next_acquire, dispatch, ingestVars,
                   tagged, faults, envVars>>

\* ulTaskNotifyTake: the pending notifications are one wake-up.
FeedWake ==
    /\ fpc = "wait"
    /\ notified
    /\ notified' = FALSE
    /\ fpc' = "top"
    /\ UNCHANGED <<ringVars, pumpVars, slotVars, slot, prev, raw_bytes,
                   next_acquire, dispatch, ingestVars, tagged, faults,
                   envVars>>

\* Its 100 ms timeout.
FeedTimeout ==
    /\ fpc = "wait"
    /\ ~notified
    /\ fpc' = "top"
    /\ UNCHANGED <<ringVars, pumpVars, notified, slotVars, slot, prev,
                   raw_bytes, next_acquire, dispatch, ingestVars,
                   tagged, faults, envVars>>

FeedStep ==
    \/ FeedTop \/ FeedAcquire \/ FeedRawDone \/ FeedConsume
    \/ FeedRead \/ FeedReadEmpty \/ FeedDispatch \/ FeedDispatchDrop
    \/ FeedTake \/ FeedDsp \/ FeedRelease \/ FeedReleaseSlot \/ FeedWake

-----------------------------------------------------------------------------
(* The ingest task.                                                        *)

\* n_in_complex_total, in bytes: an odd last byte is never converted.
ConvertLength == 2 * (msg.bytes \div 2)

IngestReceive ==
    /\ ipc = "recv"
    /\ dispatch # <<>>
    /\ msg' = Head(dispatch)
    /\ dispatch' = Tail(dispatch)
    /\ done' = 0
    /\ ipc' = "convert"
    /\ UNCHANGED <<ringVars, pumpVars, notified, slotVars, feedVars, resamp,
                   pushed, tagged, faults, envVars>>

\* The bytes of the next tile, read straight from the ring.
TileBytes ==
    [k \in 1 .. Least(Tile, ConvertLength - done) |->
        buf[msg.ptr + done + k - 1]]

\* Mutant: raw_done is given with the first tile.
RawDoneEarly == done = 0

\* This tile's conversion is the last read of the ring region.
LastRead == done + Len(TileBytes) = ConvertLength

\* One pass of the tile loop: convert the tile, give raw_done once the last
\* one is converted, copy it to the slot.
IngestTile ==
    /\ ipc = "convert"
    /\ done < ConvertLength
    /\ done' = done + Len(TileBytes)
    /\ resamp' = [resamp EXCEPT ![msg.slot] =
                    IF done = 0 THEN TileBytes ELSE @ \o TileBytes]
    /\ raw_done' = IF LastRead THEN [raw_done EXCEPT ![msg.slot] = 1]
                               ELSE raw_done
    /\ UNCHANGED <<ringVars, pumpVars, notified, free, ready, feedVars,
                   dispatch, ipc, msg, pushed, tagged, faults, envVars>>

\* signal_buffer_push of the converted block.  A dispatch of one byte never ran
\* the tile loop: raw_done is given after it and the slot is left empty.
IngestPush ==
    /\ ipc = "convert"
    /\ done = ConvertLength
    /\ raw_done' = IF done = 0 THEN [raw_done EXCEPT ![msg.slot] = 1] ELSE raw_done
    /\ resamp' = IF done = 0 THEN [resamp EXCEPT ![msg.slot] = <<>>] ELSE resamp
    /\ pushed' = (pushed + done) % Wrap
    /\ ipc' = "ready"
    /\ UNCHANGED <<ringVars, pumpVars, notified, free, ready, feedVars, dispatch,
                   msg, done, tagged, faults, envVars>>

IngestReady ==
    /\ ipc = "ready"
    /\ ready' = [ready EXCEPT ![msg.slot] = 1]
    /\ msg' = NoMsg
    /\ done' = 0
    /\ ipc' = "recv"
    /\ UNCHANGED <<ringVars, pumpVars, notified, free, raw_done, feedVars,
                   dispatch, resamp, pushed, tagged, faults, envVars>>

IngestStep == IngestReceive \/ IngestTile \/ IngestPush \/ IngestReady

-----------------------------------------------------------------------------

\* The device is gone and usb_pump has parked: nothing more need happen.
Parked == stop /\ UNCHANGED vars

StreamFeedNext ==
    PumpStep \/ CaptureStep \/ FeedStep \/ FeedTimeout \/ IngestStep \/ Parked

\* The scheduler runs a task that can run: the feeder and ingest keep going,
\* and a started ring write or stream pause is finished by usb_pump.  Nothing
\* is assumed of the device, and nothing of the feeder's 100 ms timeout.
StreamFeedFairness ==
    /\ WF_vars(FeedStep)
    /\ WF_vars(IngestStep)
    /\ WF_vars(UrbCopy \/ UrbPublish)

StreamFeedSpec ==
    StreamFeedInit /\ [][StreamFeedNext]_vars /\ StreamFeedFairness

-----------------------------------------------------------------------------
(* Properties.                                                             *)

\* Slot s is with ingest: queued, being processed, or converted and not taken.
WithIngest(s) ==
    \/ \E k \in 1 .. Len(dispatch) : dispatch[k].slot = s
    \/ ipc # "recv" /\ msg.slot = s
    \/ ready[s] = 1

\* The slot s the feeder is reading or feeding from, or is about to fill.
WithFeeder(s) ==
    \/ fpc \in {"raw_done", "consume", "read", "dispatch", "drain_take",
                "drain_feed", "drain_release", "release_slot"} /\ slot = s
    \/ fpc \in {"dsp_feed", "release", "drain_feed", "drain_release"} /\ prev = s

\* Those who hold slot s.
Holders(s) ==
    {h \in {"free", "feeder", "ingest"} :
        \/ h = "free" /\ free[s] = 1
        \/ h = "feeder" /\ WithFeeder(s)
        \/ h = "ingest" /\ WithIngest(s)}

\* A slot is in exactly one hand: free to acquire, with the feeder, or with
\* ingest.  So the feeder and Core 1 never hold the same slot, and none is
\* lost (the "slot ownership protocol" of ingest_task).
SlotOwnership ==
    \A s \in Slots : \E h \in {"free", "feeder", "ingest"} : Holders(s) = {h}

\* What the tagger is about to be fed is exactly the next stretch of the byte
\* stream: no byte accepted by the ring is lost, repeated, reordered, split
\* from its I/Q partner, or overwritten while Core 1 converts it.
FedInOrder ==
    fpc \in {"dsp_feed", "drain_feed"} =>
        \A k \in 1 .. Len(resamp[prev]) :
            resamp[prev][k] = (tagged + k - 1) % Wrap

\* The bytes of slot s in signal_buffer that the tagger has not been given.
Unfed(s) ==
    IF \/ ready[s] = 1
       \/ ipc = "ready" /\ msg.slot = s
       \/ fpc \in {"dsp_feed", "drain_feed"} /\ prev = s
    THEN Len(resamp[s]) ELSE 0

\* The tagger and signal_buffer count the same samples: the tagger's index
\* lags only by the blocks that are pushed and not yet fed, so a burst's start
\* index addresses its samples in the lookback ring.
IndexAligned == (pushed - tagged) % Wrap = Unfed(0) + Unfed(1)

\* While the ring has accepted bytes the tagger has not been given, the tagger
\* keeps being fed, without help from the 100 ms timeout ("a safety net ...
\* never a correctness dependency"): no wake-up is lost and no wait of the slot
\* protocol is circular.  Only a stop request leaves bytes behind.
EveryByteFed ==
    []<>(tagged = head \/ stop) \/ []<><<tagged' # tagged>>_vars

\* The ring is used as usbring.h asks: one span at a time, reclaimed in full
\* and only once, so that everything shown of the ring alone applies here.
RingDiscipline == RingInit /\ [][RingNext]_ringVars

\* A stop request is acknowledged without help from the 100 ms timeout.  It may
\* come in any stage, so no stage can hold the feeder for ever, whatever is
\* reset, dropped or captured meanwhile.
StopAcknowledged == stop ~> (fpc = "stopped")

\* The tagger's sample index "matches signal_buffer's head" whenever the feeder
\* waits with nothing in flight and no capture sheds its input.
IndexMatchesHead == fpc = "wait" /\ ~capture => tagged = pushed
==============================================================================
