------------------------------ MODULE BurstQueue ------------------------------
(***************************************************************************)
(* p4-usb-host/main/worker_core1.c: the queue of detected bursts between   *)
(* the detector (worker_core1_push_burst) and the worker task.  It is an   *)
(* unordered array under a mutex with a counting semaphore of its items;   *)
(* the worker takes the burst of highest priority.  A full queue makes     *)
(* room by dropping a burst whose samples have left the ring, or else the  *)
(* weakest.                                                                *)
(*                                                                         *)
(* A burst has a start (cumulative sample index), a length, a signal       *)
(* strength, a channel and whether it is wide.  The hot channels (module   *)
(* HotBins) and the sample counter (module SignalBuffer) change under the  *)
(* queue, and its mutex covers neither.  An insertion reads the counter    *)
(* once; the hot channels are looked up anew for every slot of a scan, so  *)
(* the priorities a scan compares need never have held together.           *)
(***************************************************************************)
EXTENDS Integers, Sequences

CONSTANTS PqCap,     \* BURST_PQ_CAP
          Span,      \* SIGNAL_BUF_CAPACITY_COMPLEX
          PrePad,    \* WB_PRE_PAD_SAMPLES
          MinLen,    \* the worker's shortest burst: 128
          U64,       \* values of a uint64_t
          Shapes,    \* lengths, strengths, channels and widths of the bursts
          HotBoost, WidePenalty, \* of burst_priority_at
          Lags,      \* how far the detector is behind the end of a burst
          HotChannels, \* channels that can be hot
          MaxTotal,  \* bound on the sample counter
          MaxPushes  \* bound on the bursts detected

ASSUME BurstQueueAssumption ==
    /\ {PqCap, U64} \subseteq Nat \ {0}
    /\ {Span, PrePad, MinLen, HotBoost, WidePenalty, MaxTotal, MaxPushes} \subseteq Nat
    /\ MaxTotal + Span < U64 - PrePad
    /\ Shapes \subseteq [len : Nat, snr : 0 .. HotBoost - 1, bin : Nat, wide : BOOLEAN]
    /\ Lags \subseteq Nat

VARIABLES pq,     \* s_pq[0 .. s_pq_count - 1]
          items,  \* s_pq_items
          total,  \* signal_buffer_head_total()
          hot,    \* the hot channels
          scan,   \* the scan in progress under s_pq_lock
          det,    \* the detector in worker_core1_push_burst
          work,   \* the worker
          pushes

bqVars == <<pq, items, total, hot, scan, det, work, pushes>>

NoBurst == [start |-> 0, len |-> 0, snr |-> 0, bin |-> 0, wide |-> FALSE]
AtRest == [pc |-> "idle", burst |-> NoBurst]

\* Nobody scans.
NoScan == [by |-> "nobody", head |-> 0, seen |-> << >>, ever |-> {}, always |-> {}]

\* A scan that begins: the counter it goes by and the priorities read so far;
\* as history, the channels hot at some time and at all times since.
ScanBy(who, count) ==
    [by |-> who, head |-> count, seen |-> << >>, ever |-> hot, always |-> hot]

BqInit ==
    /\ pq = << >> /\ items = 0 /\ total = 0 /\ hot = {} /\ scan = NoScan
    /\ det = AtRest /\ work = AtRest /\ pushes = 0

-----------------------------------------------------------------------------

\* burst_priority_at, where the channels h are hot.
burst_priority(b, h) ==
    b.snr - (IF b.wide THEN WidePenalty ELSE 0) + (IF b.bin \in h THEN HotBoost ELSE 0)

\* The window the worker would read, in uint64_t arithmetic.
CheckStart(b) == (b.start - PrePad) % U64
CheckLen(b) == b.len + PrePad

\* signal_buffer_burst_valid at counter t
ValidAt(b, t) ==
    /\ CheckLen(b) < Span
    /\ (CheckStart(b) + CheckLen(b)) % U64 <= t
    /\ (t - CheckStart(b)) % U64 <= Span

\* Mutant: the push leaves room for the window a second time.
RejectAtPushEarly(b) ==
    \/ CheckLen(b) >= Span
    \/ total > CheckStart(b) /\ total - CheckStart(b) > Span - CheckLen(b)

\* The producer has lapped the window, or it never fits the ring.
RejectAtPush(b) ==
    \/ CheckLen(b) >= Span
    \/ total > CheckStart(b) /\ total - CheckStart(b) > Span

\* A burst is reported once its last sample is in, or some samples later.
Detect(shape, lag) ==
    /\ det.pc = "idle" /\ pushes < MaxPushes
    /\ shape.len + lag <= total
    /\ pushes' = pushes + 1
    /\ LET b == [start |-> total - lag - shape.len, len |-> shape.len, snr |-> shape.snr,
                 bin |-> shape.bin, wide |-> shape.wide]
       IN  det' = [pc |-> IF RejectAtPush(b) THEN "rejected" ELSE "insert", burst |-> b]
    /\ UNCHANGED <<pq, items, total, hot, scan, work>>

DetectReturn ==
    /\ det.pc = "rejected"
    /\ det' = AtRest
    /\ UNCHANGED <<pq, items, total, hot, scan, work, pushes>>

\* The test of the eviction scan.
Lapped(b) == total > b.start /\ total - b.start > Span

FirstIndex(P(_)) == CHOOSE i \in 1 .. Len(pq) : P(i) /\ \A j \in 1 .. i - 1 : ~P(j)

\* The first slot of the lowest priority read, and the first of the highest.
Weakest == LET P(i) == \A j \in 1 .. Len(pq) : scan.seen[i] <= scan.seen[j]
           IN  FirstIndex(P)
Strongest == LET P(i) == \A j \in 1 .. Len(pq) : scan.seen[i] >= scan.seen[j]
             IN  FirstIndex(P)

\* Mutant: the newest slot is overwritten.
VictimLast == Len(pq)

Victim == Weakest

Room == Len(pq) < PqCap

\* Nobody is in the middle of a scan with s_pq_lock taken.
Unlocked == scan = NoScan

\* pq_insert_locked, under the mutex.
InsertRoom ==
    /\ det.pc = "insert" /\ Unlocked /\ Room
    /\ pq' = Append(pq, det.burst)
    /\ det' = [det EXCEPT !.pc = "give"]
    /\ UNCHANGED <<items, total, hot, scan, work, pushes>>

InsertReclaim ==
    /\ det.pc = "insert" /\ Unlocked /\ ~Room
    /\ \E i \in 1 .. PqCap : Lapped(pq[i])
    /\ LET L(i) == Lapped(pq[i])
       IN  pq' = [pq EXCEPT ![FirstIndex(L)] = det.burst]
    /\ det' = AtRest
    /\ UNCHANGED <<items, total, hot, scan, work, pushes>>

\* No slot is lapped at the counter read: the search for the weakest begins.
EvictStart ==
    /\ det.pc = "insert" /\ Unlocked /\ ~Room
    /\ \A i \in 1 .. PqCap : ~Lapped(pq[i])
    /\ scan' = ScanBy("detector", total)
    /\ UNCHANGED <<pq, items, total, hot, det, work, pushes>>

\* The priority of the next slot is read.
ScanSlot(who) ==
    /\ scan.by = who /\ Len(scan.seen) < Len(pq)
    /\ scan' = [scan EXCEPT !.seen = Append(@, burst_priority(pq[Len(@) + 1], hot))]
    /\ UNCHANGED <<pq, items, total, hot, det, work, pushes>>

Scanned(who) == scan.by = who /\ Len(scan.seen) = Len(pq)

\* The newcomer's priority is read last.
InsertEvict ==
    /\ Scanned("detector")
    /\ pq' = IF burst_priority(det.burst, hot) > scan.seen[Victim]
             THEN [pq EXCEPT ![Victim] = det.burst] ELSE pq
    /\ det' = AtRest
    /\ scan' = NoScan
    /\ UNCHANGED <<items, total, hot, work, pushes>>

\* Mutant: an item is signalled twice.
GivenTwice == items + 2

\* xSemaphoreGive(s_pq_items), after the mutex is released
Given == items + 1

Give ==
    /\ det.pc = "give"
    /\ items' = Given
    /\ det' = AtRest
    /\ UNCHANGED <<pq, total, hot, scan, work, pushes>>

-----------------------------------------------------------------------------
(* The worker.                                                             *)

TakeItem ==
    /\ work.pc = "idle" /\ items > 0
    /\ items' = items - 1
    /\ work' = [work EXCEPT !.pc = "extract"]
    /\ UNCHANGED <<pq, total, hot, scan, det, pushes>>

\* pq_extract_max_locked: a scan, after which the last slot moves into the hole.
ExtractStart ==
    /\ work.pc = "extract" /\ Unlocked
    /\ scan' = ScanBy("worker", 0)
    /\ UNCHANGED <<pq, items, total, hot, det, work, pushes>>

Extract ==
    /\ Scanned("worker") /\ pq # << >>
    /\ work' = [pc |-> "guard", burst |-> pq[Strongest]]
    /\ pq' = SubSeq([pq EXCEPT ![Strongest] = pq[Len(pq)]], 1, Len(pq) - 1)
    /\ scan' = NoScan
    /\ UNCHANGED <<items, total, hot, det, pushes>>

\* The worker's two guards, at counter t.
Decodable(b, t) == b.len >= MinLen /\ ValidAt(b, t)

\* Mutant: the worker waits for a window that is not there.
GuardWaits ==
    /\ work.pc = "guard" /\ Decodable(work.burst, total)
    /\ work' = [work EXCEPT !.pc = "read"]
    /\ UNCHANGED <<pq, items, total, hot, scan, det, pushes>>

\* Bursts too short or lapped are skipped; the others are read.
Guard ==
    /\ work.pc = "guard"
    /\ work' = IF Decodable(work.burst, total)
               THEN [work EXCEPT !.pc = "read"] ELSE AtRest
    /\ UNCHANGED <<pq, items, total, hot, scan, det, pushes>>

ReadDone ==
    /\ work.pc = "read"
    /\ work' = AtRest
    /\ UNCHANGED <<pq, items, total, hot, scan, det, pushes>>

-----------------------------------------------------------------------------

Ingest ==
    /\ total < MaxTotal
    /\ total' = total + 1
    /\ UNCHANGED <<pq, items, hot, scan, det, work, pushes>>

\* Any sequence of answers of hot_bin_match is a sequence of such changes.
HotChange ==
    /\ \E b \in HotChannels : hot' = IF b \in hot THEN hot \ {b} ELSE hot \union {b}
    /\ scan' = IF Unlocked THEN scan
               ELSE [scan EXCEPT !.ever = @ \union hot', !.always = @ \intersect hot']
    /\ UNCHANGED <<pq, items, total, det, work, pushes>>

Detector ==
    \/ DetectReturn \/ InsertRoom \/ InsertReclaim \/ EvictStart
    \/ ScanSlot("detector") \/ InsertEvict \/ Give
Worker ==
    TakeItem \/ ExtractStart \/ ScanSlot("worker") \/ Extract \/ Guard \/ ReadDone

BqNext ==
    \/ \E shape \in Shapes, lag \in Lags : Detect(shape, lag)
    \/ Detector \/ Worker \/ Ingest \/ HotChange

BqSpec == BqInit /\ [][BqNext]_bqVars

\* The worker and a push in progress go on.
BqFairSpec == BqSpec /\ WF_bqVars(Worker) /\ WF_bqVars(Detector)

-----------------------------------------------------------------------------
(* Properties.                                                             *)

Queued == {pq[i] : i \in 1 .. Len(pq)}

\* The semaphore counts the occupied slots through inserts, in-place evictions
\* and drops, so that "count > 0 is guaranteed" when the worker extracts: an
\* extraction from an empty queue would decrement the count below zero.
ItemsAreSlots ==
    Len(pq) = items + (IF det.pc = "give" THEN 1 ELSE 0)
                    + (IF work.pc = "extract" THEN 1 ELSE 0)

\* The worker's guards will turn the burst down now and at any later time.
Doomed(b) == \A t \in total .. MaxTotal + Span : ~Decodable(b, t)

\* A burst turned away at the push could never have been decoded later.
RejectedWereDoomed ==
    det.pc = "rejected" => Doomed(det.burst)

\* The bounds of a burst's priority over the time of the scan.
Lowest(b) == burst_priority(b, scan.always)
Highest(b) == burst_priority(b, scan.ever)

\* Whom the two scans choose while channels turn hot and cold under them.  A
\* queued burst loses its slot to a push only when its window is gone for good,
\* or when none that stays was weaker throughout the scan and none of the
\* others had lost its own samples when the counter was read.  A burst is
\* passed over at an extraction only for one that was not weaker throughout.
ChoiceJustified ==
    [][ /\ Len(pq') = Len(pq) =>
             \A b \in Queued \ Queued' :
                \/ Doomed(b)
                \/ /\ \A q \in Queued' : Highest(q) >= Lowest(b)
                   /\ \A q \in Queued \intersect Queued' : scan.head - q.start <= Span
        /\ Len(pq') < Len(pq) =>
             \A q \in Queued' : Highest(work'.burst) >= Lowest(q) ]_bqVars

\* "Reclaim it for the (fresh) newcomer before touching any decodable burst": when
\* a push overwrites a burst that the worker could still decode, no burst that
\* stays had fallen to the worker's own test at the counter the push went by.
DoomedGoFirst ==
    [][ Len(pq') = Len(pq) /\ ~Unlocked =>
          \A b \in Queued \ Queued' : Decodable(b, total) =>
             \A q \in Queued \intersect Queued' :
                (scan.head - CheckStart(q)) % U64 <= Span ]_bqVars

\* Once no more bursts are detected, the worker empties the queue: no item is
\* ever left without its count.
QueueDrains == <>[](pushes = MaxPushes) => <>(pushes = MaxPushes /\ pq = << >>)
=============================================================================
