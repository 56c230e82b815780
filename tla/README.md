# TLA+ models of the Iridium ACARS receiver

The firmware in `src/p4-usb-host` turns a 2.5 Msample/s USB stream into decoded
aircraft messages on a two-core ESP32-P4.  Most of its correctness rests on
small lock-free or semaphore-based hand-overs between tasks on two cores, and
on reassembly of messages whose parts arrive late, out of order or not at all.
Around them, slow tasks (scans, the decode survey, updates, reboots) retune and
pause the stream while everything runs.
This project models those parts in TLA+, checks them with TLC on small
instances, and proves their safety properties and two refinements with TLAPS for every size.

## The system

```
 USB bulk callback     dsp_feed (core 0)                 ingest (core 1)
 stream_transfer_cb -> usbring -> class_driver.c loop <-> 2 slots: convert
                                   |                       |
                                   v                       v
                       dsp_processor: burst tagger    signal_buffer (look-back
                                   |                  ring, filled by DMA)
                                   v                       |
                       worker_core1 priority queue  -> worker (core 1): read the
                                                       window, demodulate
                                                           |
                                                      frame_queue
                                                           v
           decoder task (core 0): classify -> IDA reassembler -> SBD reassembler
                     |                                              |
              hot_bin_table (read by the burst queue)        ACARS, outputs

 scanner, autotune, survey, reboot, update
        | retune, gain, stop, maintenance        decode survey: hop, drain guard,
        v                                        count, eliminate
 usb_pump (core 0): pause, control transfer, resume; pool of bulk transfers
```

| Part (source) | State | Operations | Module |
|---|---|---|---|
| USB byte ring (`usbring.c`, `usbring_ring.h`) | head, tail, bytes | write, peek, consume, reset | `UsbRing`, abstract `ByteFifo` |
| Conversion slots and feeder (`class_driver.c`, `ingest_core1.c`, `esp_libusb.c`) | two slots with three semaphores each, dispatch queue, stop flag, sample indices | URB completion, feeder loop, conversion, stop, pause/resume, capture | `StreamFeed` (extends `UsbRing`) |
| Signal buffer (`signal_buffer.c`) | sample ring, carry, scratch, DMA semaphore, head counter | push, DMA landing, failures, timeouts, burst_valid, read | `SignalBuffer` |
| Head counter (`signal_buffer.c` seqlock) | two words, sequence number | publish, read | `HeadTotal` |
| Burst queue (`worker_core1.c`) | queue array, item semaphore | push with stale test, insert / reclaim / evict, extract, guard | `BurstQueue` |
| Hot-bin table (`hot_bin_table.c`) | entries (bin, expiry), clock | publish, clear, clear_all, match | `HotBins` |
| Frame queue (`frame_queue.c`) | slots, head, tail, counters | reserve, fill, commit, pop | `FrameQueue`, abstract `FrameFifo` |
| Worker task (`worker_core1.c`) between the counter and the frame queue | those of the two | validate, offer, hand over | `WorkerPath` (extends both) |
| IDA reassembler (`ida_reassembler.c`) | chain table | reap, feed | `IdaReassembler` |
| Decoder task (`frame_decoder.c`) | RF clock, wall clock, last tick | one iteration with or without a frame: clock, drain, tick, process | `FrameDecoder` (extends `IdaReassembler`) |
| SBD reassembler (`sbd_reassembler.c`) | session table | classify, parse, feed, tick, salvage parse | `SbdParse`, `SbdReassembler` |
| Pump requests and bulk transfers (`class_driver.c`, `esp_libusb.c`) | action bits, pending arguments, semaphores, transfers, live count, maintenance | the callers' posts and waits, the pump's loop, completion, pause, resume, free | `PumpControl` |
| Decode survey (`decode_survey.c`, `decode_survey_core.h`) | centres, phase, abort flag; the frames in flight | hop, guards, snapshots, credit, eliminate, place, abort | `Survey` |

`PROJECT.json` lists all 28 parts, those left out included, the source
lines behind every definition, and the hazards with the property that covers
each.

## How the models follow the code

A step of a model is one access to shared state.  The lock-free parts
(`UsbRing`, `FrameQueue`, `HotBins`, `HeadTotal`) split an operation at every
load, copy and store another core could come between.  Parts in a single task
(`IdaReassembler`, `SbdReassembler`) take a call as one step, and so does a mutex where
it protects all that the call reads; the scans of `BurstQueue` read more than theirs does.  Payload is abstracted to what the
properties tell apart: a byte of the ring is the stream position it was
accepted at, a sample is the index it belongs at, a frame is its number, and a
fragment is the record of its header fields.

- **UsbRing.**  `WriteAccept` or `WriteDrop`, `WriteCopy` and `WritePublish` are `usbring_write` (load of
  tail and bound check, the copy in one or two parts, store of head); the consumer holds at most one span.  Counters are
  free-running modulo `Wrap`, the array is indexed modulo `Capacity`.
- **StreamFeed.**  `fpc` is the stage of the `dsp_feed` loop.  Each slot has the
  semaphores `free`, `raw_done` and `ready`.  The ingest task converts a block tile
  by tile, so that the ring may be overwritten under it if the protocol is
  wrong.  Bulk transfers complete at any time.  Pause/resume, failed
  dispatches and captures are bounded by constants, one for each and `EventMixes` for those that one behaviour may have.
- **SignalBuffer.**  A push aligns its input down and carries the rest, waits for
  the previous copies, fills the scratch, submits one or two copies and
  publishes the counter.  A copy lands one aligned line at a time, after the submit and in
  submission order (an assumption on the DMA driver).  Each submit can fail, and the
  wait can time out with the completion coming late.  The worker checks a window,
  reads it sample by sample and checks it again.
- **HeadTotal.**  The counter is two words; the reader may run between any two
  stores of the writer.
- **BurstQueue.**  The counter and the hot channels change between any two steps.
  Reject, insert, reclaim, evict, give, take, extract and guard are separate steps where
  the mutex is released.  The mutex does not protect the hot-bin table: a scan for the weakest or the strongest
  burst (`scan`) looks up one slot a step, and the newcomer's channel last, so the priorities that it
  compares need never have held together.  The counter is read once for an insertion, before the scan.
- **HotBins.**  `arm` is three stores and a look-up two loads per entry.  The clock has
  `ClockMod` values and wraps.  A publish refreshes a live entry within the deadband, and moves it to the
  new bin; else it takes a free one; else it replaces the one that expires soonest.  `use` picks at the start
  which bins a behaviour publishes and looks up, and whether it retunes.
- **WorkerPath** composes `FrameQueue` and `HeadTotal` in the worker task, which validates a burst by the
  counter before it pushes the frames of it.
- **FrameQueue.**  The producer's reserve, fills and commit and the consumer's copy and
  release are separate steps; the statistics counters lag the indices as in the code.
- **IdaReassembler.**  Operators and one `Feed` per case of `ida_reassembler_feed_ex`, on a
  frame that is a record of time, frequency, direction, counter and CRC verdict.  The counter
  wraps at `CtrMod` (8 in the code), and fragments count for bytes in the overflow test.
- **FrameDecoder.**  A step is one iteration of `decoder_task`: advance the RF clock, drain the
  timed-out chains by the clock, extrapolated with wall time, tick, and process the frame, if
  one came.  The wall clock moves by any amount between iterations.  `env` picks at the start
  which frames arrive, with which lags behind the air and when.
- **PumpControl.**  A caller clears the semaphore, leaves its argument, loads and stores the word
  of action bits, and waits; the pump tests, loads, stores, reads the argument, pauses,
  talks to the tuner, resumes and gives, in the order of `class_driver_task`.  Each
  of these is a step.  Transfers complete where the pump handles USB events.  Submits,
  allocations and control transfers may fail, drains and waits may time out.  A request is
  identified by the number of its call.  `contended` records that a call met other work that
  was not finished.
- **Survey.**  The path of a frame is abstracted to its stages: waiting for the worker,
  in its hands, in the queue, in the decoder's hands, classified; with the two counters of the
  queue advanced one step after it, as `QueueSafe` proves of `FrameQueue`.  A frame is the LO it was captured at.
  Every delay may take any time, so nothing rests on the constants of the guards.  Rates
  are compared exactly, as integers, where the code uses `float` and `double`.
- **SbdReassembler, SbdParse.**  Envelopes are fed as the records the parser yields (`SbdSpec`);
  in `RawSpec`, which the run checks, the first one may also be any raw envelope, on which both parsers run.
  `SbdParse` models both hand-written parsers on envelopes given by their length and
  leading bytes.

## Runs

| Run | Question | Bounds |
|---|---|---|
| `stream_feed` | every accepted byte is fed once and in order, indices stay aligned, the ring's single-span rule is kept, unread bytes and the span in the feeder's hands stay intact, the ring implements `ByteFifo`, nothing depends on the feeder's timeout | ring of 2 blocks of 2 tiles, counters mod twice the ring |
| `stream_faults` | slot ownership and the stop acknowledgement survive a ring reset under the feeder, a failed dispatch and a capture | ring of 1 block of a pair, transfers of half a pair; a failed dispatch with a reset or with a capture |
| `decoder` | chains and emitted payloads hold consecutive fragments of one channel and direction and are marked dirty exactly when one is; only clean ones reach the trusted path; with a steady lag no drain loses a chain whose continuation can still come | 2 slots, counter mod 3 (chains of 3 fragments wrap it), room for 4 fragments, session timeout 2, fragment gap 1; 3 frequencies, 2 directions and lags of 0 to 6, or one channel with lags of 3 and 4 |
| `sbd` | sessions and messages hold consecutive parts of one type and direction; the two parsers agree and stay within the envelope | 2 sessions, part counts 0..4 with limit 3, payload limit 2 parts, 3 times; 82,944 raw envelopes, all lengths around a comparison of the code |
| `hot_bins` | a published bin stays hot for its time to live while the bins published since fit the table and the deadband tells them apart; a hit is recent | 3 entries, deadband 1; neighbouring bins whose refreshes move an entry, four channels for three entries, or a reader beside publishes and retunes; no clock wrap |
| `worker_path` | frames whole, in order, once; refinement of `FrameFifo`; each is taken; a read of the counter returns a value it had during the read | 4 slots, 6 frames, 1 drop: past the end of the array; words of 2 values, total up to 4 |
| `signal_buffer` | indices in step and pushes return, also after a timeout; without one, scratch not reused early and windows with margin intact | ring of 8, pushes up to 4, 14 samples, 1 failed submit or timeout |
| `survey` | a visit counts at most the foreign frames the guard cannot see, and misses at most one of its own; a centre is dropped only after its floor of visits and by a better one | 2 centres, 2 cycles, floor of 2 visits, 3 frames, queue of 2, backlog of 1 |
| `tuning` | the live count is exact and a freed pool has nothing in flight; control transfers meet a drained bus; a call is not answered by an earlier one's completion; a restart after a stop finds the device quiet; every pause ends | a retune, a gain and a stop caller, 2 calls, 2 transfers, 1 timed-out wait, 1 failure, 1 update; drains may always time out |
| `burst_queue` | the semaphore counts the slots; rejects, evictions and extractions are justified while channels turn hot and cold under the scans; the queue drains | 2 slots, span 5, 5 burst shapes, 3 bursts, 8 samples |

The bounds are chosen so that each modulus but the millisecond clock's is passed,
each table is full in some state, each timeout is both met and missed, and
each kind of failure happens.  The exceptions are unreachable in the code as well (a chain
ends at 8 fragments of 24 bytes, below the 320 of the overflow test) or stated with the run.  `SESSION_TIMEOUT`, `FRAG_GAP` and the TTLs keep
their order relative to each other.  Deadlock is checked except where a bound on the number of
pushes, frames or samples ends the behaviour.

### Disagreements with the repository's text

Two runs each check one sentence of the repository, quoted in `PROJECT.json`, and TLC shows a
behaviour of the code that breaks it.

- `capture_desync` (`IndexMatchesHead`): after a continuous capture the tagger's index stays behind
  the signal buffer's head.
- `reclaim_order` (`DoomedGoFirst`): the comment in `pq_insert_locked` says that a burst that fails the worker's test is
  reclaimed "before touching any decodable burst".  The test of that loop leaves out the read-ahead that
  the worker's test includes, so a decodable burst can be evicted while a doomed one stays.  `ChoiceJustified`
  states what the code does ensure.

### Observations

These were met while modelling and have no run of their own.  The properties of
the runs are stated so that they hold beside them.

| Source | What the code does |
|---|---|
| `esp_libusb.c` | `usbring_reset` on resume races with a span the feeder still holds: its release moves the zeroed tail past the zeroed head, and the ring's count stays above the capacity until the writes catch up, not for the "one cycle" of `docs/superpowers/HANDOFF-2026-07-06-freq-scanner.md` |
| `class_driver.c` | a call that begins while the pump still carries out one that timed out is answered by that one's completion, although it clears the semaphore "so we wait for THIS request's completion" |
| `class_driver.c` | `actions` is read and written back without protection: a post can be lost (the caller times out) or a served request brought back and carried out again |
| `class_driver.c` | a retune or gain served during maintenance resumes the stream and allocates the transfers again; nothing pauses them until maintenance ends |
| `class_driver.c` | two updates share one maintenance flag: the end of one ends the other's |
| `esp_libusb.c` | the injected submit failure (test builds) submits the transfer again without counting it, so the live count is one short from then on, and a pool can be freed with a transfer in flight |
| `esp_libusb.c`, `agc.c` | the software AGC and `setgain` handle USB events on their own tasks, so a completion may run next to the pump's, and next to another write to the ring, which has one producer by design |
| `scanner.c` | a retune that timed out and is carried out later leaves the scanner's frequency and the hot-bin table as they were |
| `decode_survey.c` | the guard reads the pushed count once, at its start: bursts still waiting for the worker are counted for the next centre unless the minimum wait covers them |
| `decode_survey.c` | a stop between the start's test-and-set and its reset of the abort flag is lost |
| `frame_decoder.c` | the drain is safe while the lag varies by less than the session timeout minus the fragment gap (0.3 s); a larger jump reaps chains whose continuation is queued |
| `frame_decoder.c` | the end of one chain clears the hot entry of its channel for another chain that is still open |
| `ida_reassembler.c` | the fragment count of a salvaged chain is the wrapped 3-bit counter |
| `ida_reassembler.c` | of two matching chains the one in the higher slot wins, not the most recent |
| `sbd_reassembler.c` | parts carry no message identity, and the part count of a continuation is not compared with that of the first: two messages of one type and direction whose parts happen to follow each other are joined |
| `sbd_reassembler.c` | a HELLO envelope with a count above 1 opens a session |
| `sbd_reassembler.c` | feed rejects payloads shorter than 5 bytes, the salvage parser has no such test; their agreement is checked from 5 bytes on |
| `sbd_reassembler.c` | the uplink types and 7609 to 760b carry no part count and are never joined, although the header calls them "single or multi-frame" |
| `hot_bin_table.c` | a refresh moves the entry of a neighbouring channel to the new bin: with the deadband of 4, publishing 0, 8, 4, 8 leaves 0 cold while entries are free |
| `hot_bin_table.c` | a look-up can pair a live expiry with the bin stored after it |
| `hot_bin_table.c` | after the millisecond clock wraps, an expired entry that was not reused is live again until its old expiry comes round, up to 49.7 days |
| `scanner.c` | `clear_all` from the scanner's task between two stores of a publish is undone by it |
| `signal_buffer.c` | the second validity check can pass although a copy in flight has overwritten the window |
| `signal_buffer.c` | a window can pass the check before its copy has landed |
| `signal_buffer.c` | after a timeout the semaphore is one ahead and the scratch is refilled while a copy reads it |
| `worker_core1.c` | two slots of one channel can get different boosts in one scan, when the channel turns hot or cold between their look-ups |

## Fairness

Liveness assumes that a task that can run eventually does: weak fairness of the
feeder, of ingest, of a started URB copy (`StreamFeed`), of the consumer and of a frame once
reserved (`FrameQueue`), of the worker and of a push in progress
(`BurstQueue`), of the producer and the DMA engine (`SignalBuffer`), and of the pump and of a call in progress (`PumpControl`).  FreeRTOS
schedules each of these tasks whenever it is ready and nothing of higher priority
runs for ever; the DMA engine completes what it accepts.  Environment steps
(transfers, detections, sample arrival, stop requests, new calls, maintenance) carry no fairness.
`EveryByteFed` and `StopAcknowledged` are checked without the feeder's 100 ms timeout,
so they do not rely on it.  `StreamReturns` is about the streaming flag, not about transfers in flight, and rests on
every control transfer ending: `esp_libusb.c` waits for its completion without a limit of its own (lines 188 to 190),
so it is the USB host library's `timeout_ms` that ends one the device does not answer.

## Proofs

Each theorem holds for every value of the constants that the named `ASSUME`s allow, and for
every interleaving of the specification; TLC evaluates those assumptions in the runs.  Every
invariant below that the proofs add was first checked with TLC on the instance of its run.

| Theorem | States | For every | Beyond the `ASSUME`s |
|---|---|---|---|
| `RingProofs!RingSafe` | `LiveBytesIntact`, `SpanStable`, `RingBounded` | power-of-two capacity, counter modulus that is a proper multiple of it, write size | |
| `RingProofs!RingImplementsFifo` | `FifoRefinement` | the same | |
| `StreamProofs!SlotsOwned` | `SlotOwnership` | ring, block, tile and queue, resets, failed dispatches, captures and stops | |
| `StreamProofs!TaggerAligned` | `IndexAligned` | the same, without captures | no capture (`capture_desync` is what a capture does); two blocks within the counters' range |
| `StreamOrderProofs!RingRulesKept` | `RingDiscipline`, and with it `LiveBytesIntact`, `SpanStable`, `FifoRefinement` in the stream | the same, without resets | no pause and resume, which resets the ring under the feeder |
| `StreamOrderProofs!StreamInOrder` | `FedInOrder` | ring, block, tile, queue, transfer sizes | no reset, failed dispatch or capture; transfers of whole I/Q pairs |
| `FrameProofs!QueueSafe` | `PopInOrder`, `SlotsDisjoint`, `CountExact`, `CountersTrail` | number of slots | |
| `FrameProofs!QueueImplementsFifo` | `FifoSpec` | number of slots | |
| `SignalBufferProofs!CounterReadWhole` | `ReadWasCurrent` | word size, sequence of pushes | |
| `SignalBufferProofs!PushesSafe` | `TransfersAligned`, `IndexLockstep`, `ScratchStable` | line, ring and push size, failed submits and timeouts | |
| `SignalBufferProofs!WindowsIntact` | `MarginReadIntact` | line, ring, push and window size, failed first submits | no window was given up (see below) |
| `BurstProofs!BurstQueueSafe` | `ItemsAreSlots`, `RejectedWereDoomed` | capacity, span, padding, bursts | |
| `BurstProofs!ChoicesAreJustified` | `ChoiceJustified` | the same, and every change of the hot channels between two look-ups | |
| `BurstProofs!HitsAreRecent` | `HitIsRecent` | entries, deadband, TTL, bins | the clock does not wrap |
| `BurstProofs!PublishedBinsStayHot` | `PublishedStaysHot` | the same, full tables and moved entries included | the clock does not wrap |
| `FrameProofs!DecoderSafe` | `OpenChainsInOrder`, `EmittedWhole`, `TrustedIsClean`, `ReapsOnlyDead` | table, counter, limits, timeouts, sets of frames and lags | |
| `FrameProofs!SbdSafe` | `SbdSessionsInOrder`, `SbdEmittedWhole` | table, part counts, timeout, payload limit of at least one part | |
| `FrameProofs!ParsersAgree` | what `SalvageMirrorsFeed` and `ParsersInBounds` check, for one envelope | length and bytes of the envelope | |
| `FrameProofs!RawFeedsSafe` | `SalvageMirrorsFeed`, `ParsersInBounds`, and the two of `SbdSafe`, from raw bytes on | the same, and the sets of raw envelopes | |
| `TuningProofs!PumpSafe` | `UrbAccounting`, `ControlQuiet`, `AnswerTruthful`, `RebootQuiet` | callers of each kind, transfers, calls, timeouts, failures, updates | |
| `TuningProofs!CreditsHold` | `CreditsOwnFrames` | centres, cycles, frames, queue and backlog sizes | |
| `TuningProofs!EliminationsSound` | `EliminationSound` | centres, floor of visits, threshold | |

`ModArith` holds the arithmetic the others share: uniqueness of quotients, residues within one
period, successors and distances modulo a symbolic number.

Why the invariants need strengthening:

- **Ring** (`RingIInv`).  During a write the copied part lies in the region that was free when
  the tail was read; the tail can only have grown since, so its offsets differ from
  those of unread bytes.  The refinement maps the queue to the stretch of the stream
  between the counters, and shows that stretches join where a write is published and split where a
  span is consumed.
- **Slots** (`SlotsIInv`).  `SlotOwnership` counts hands; the invariant says which stage of the feeder goes
  with which slot, that a slot with ingest is in one of queue, hand and `ready` and queued once, and that
  the span is held exactly while a slot's bytes are still in the ring.  It says nothing of the
  counters, so it survives a reset.
- **Order** (`InOrder`).  The block at the tail is known wherever it is: the message that stands for it
  has the span's place and length, what ingest has converted of it is a stretch of the stream that starts at the tail, and
  `raw_done` is given only when all of it is.  So the feeder reclaims bytes that
  are converted, and the tagger's index is the tail less the reclaimed block it has yet to be fed.
- **Frame queue** (`FqIInv`).  The indices are the numbers of frames sent and taken modulo the slots, and the slots between them
  hold the frames in between.
- **Head counter** (`HtIInv`).  The sequence number is odd exactly during the stores; as long as
  it keeps the even value the reader saw, the words read are the present ones.
- **Signal buffer** (`SbIInv`).  Samples offered are counted, carried or in the push in progress.  Without a timeout, a
  queued copy that signals is the last of the queue, and none is queued while the
  semaphore is given.
- **Windows** (`FlowIInv`).  The ring is described by one number, how many samples have landed (`Landed`): it
  holds the last `Cap` of them, each at its place.  The queued copies continue each other from there to the
  last sample submitted (`ChainOK`), and the scratch still holds what they copy, because it is not
  refilled before the queue is empty.  `Landed` is at least the counter before the last push
  and at most a push ahead of the counter: so a sample of an old window has landed when it is read, and the
  one that takes its place has not as long as the window is a push away from being lapped when it is checked again.
- **Burst queue** (`BqIInv`).  A burst whose window is older than the ring stays so while the counter grows;
  the subtraction in 64 bits that wraps at the beginning of the stream still gives the true distance.
  For the choices, `ScanOK` bounds each priority read so far by the lowest and the highest that the burst had since the scan began, and
  keeps the queue unchanged under the mutex.
- **Hot bins**.  For a hit: every entry that is live to the reader's clock was published as late as its expiry
  says, and between its two loads the reader can only meet the bin it saw live or one published since,
  because `arm` closes an entry before it changes the bin (`EntriesRecent`, `ReaderOK`).  For staying hot (`AllAccounted`): entries move and are replaced, so
  the invariant counts.  As long as the bins published since some bin's millisecond fit the table and are separate, the entries that will
  outlast that bin can be labelled each by a bin of its own among them (`Labels`), and each of those bins is within the deadband of such an
  entry or is being published.  A publish that finds no entry of its own channel then has fewer labels in use than entries, so
  what it takes is an older entry.  `NoClockWrap` limits the uptime to 49.7 days: after it, the code
  does bring expired entries back (see the observations).
- **Reassemblers** (`TableOK`, `SbdTableOK`).  Every session is in order by itself, so that drains, feeds and
  ticks are shown to map one such table to another.  `ReapsOnlyDead` also needs that the newest air time was
  stamped with one of the lags (`ClockOK`).  From raw bytes on, what the parse lets through is one of the
  envelopes the reassembler is specified for (`ParseYields`), so that nothing rests on the choice of `Envelopes`.
- **Pump** (`PcIInv`).  As long as no call met unfinished work, at most one caller is busy, and the word of
  action bits, the pump's stage and the caller's are at matching points of one request (`Matched`).
- **Survey** (`SvyIInv`).  `Pending` counts the frames of other centres that are still on their way.  While the
  tuner stays at a centre it never rises, and each such frame that is counted leaves it.  When the first guard
  has seen the queue pass its target, all that can be pending are the bursts that had not reached the queue and
  the frame in the decoder's hands.  For the eliminations, the rate of a centre is compared by cross products, which
  order the visited centres, so that the loop of `ds_leader_index` ends with one that none exceeds; the pass skips it.

What stays with TLC, and why:

- liveness under fairness (`EveryByteFed`, `StopAcknowledged`, `EveryFrameTaken`, `EveryPushReturns`, `QueueDrains`,
  `StreamReturns`) is outside the prover;
- `MarginReadIntact` for a window beside one that was given up.  `WindowsIntact` covers the behaviours in which no second
  submit has failed yet; after one it does not hold for every number of faults: when submits keep failing, a copy
  left behind can land a turn of the ring later, over newer samples.  The run allows one fault,
  which stands for the channel finishing its queue within a turn;
- `IndexMatchesHead` is the sentence that the code breaks.

## Plan

1. *Further parts.*  The message ring with its polling cursor, the capture and log rings on the SD
   card, the frame link with its resynchronisation and loss counting.
2. *Algorithms.*  CRC and BCH on small codes.

## Not modelled

Signal processing (FFT, filters, demodulation, timing), bit-level frame parsing and error
correction, tuner register programming, formatting, the web and serial interfaces and the
vendor libraries: sequential data transformations or I/O.  Memory ordering is taken as the
acquire/release annotations give it, so a release store is seen after what precedes it.  The cache
maintenance of the signal buffer, pushes longer than its ring (its callers never make them) and the
hot-bin table's enable flag (nothing sets it) are left out.  Of the class driver, opening and closing
the device and the mutex of the control transfers are left out, and of the survey its density pre-pass and
its placement on the histogram, which are arithmetic on measured data.  The message ring, the SD
rings, the frame link, the Wi-Fi link and the settings are separate from the path to a decoded
message and are not modelled.
