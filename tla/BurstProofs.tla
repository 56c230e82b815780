----------------------------- MODULE BurstProofs -----------------------------
(***************************************************************************)
(* Proofs about the burst queue of worker_core1.c, for every capacity,     *)
(* span, padding and set of bursts, and with the hot channels changing     *)
(* under every scan: the semaphore counts the occupied slots, a burst      *)
(* turned away at the push could never have been decoded, and a burst that *)
(* is evicted or extracted is lapped, or could have been the weakest or    *)
(* the strongest while the scan ran.                                       *)
(*                                                                         *)
(* The hot-bin table for every number of entries, deadband and TTL, and    *)
(* every interleaving of its four unlocked users.  A look-up never answers *)
(* yes for a channel that went quiet, and a published bin stays hot as     *)
(* long as the bins published from its millisecond on are separate and fit *)
(* the table, whatever older entries are live and whatever they were for.  *)
(***************************************************************************)
EXTENDS BurstQueue, HotBins, ModArith, FiniteSetTheorems

\* Zenon is the prover of every step that names no other; the steps with
\* arithmetic name SMT, with time enough for the larger ones.
USE Zenon

-----------------------------------------------------------------------------
(* The burst queue.                                                        *)

Bursts == [start : Nat, len : Nat, snr : 0 .. HotBoost, bin : Nat, wide : BOOLEAN]

DetStages == {"idle", "rejected", "insert", "give"}
WorkStages == {"idle", "extract", "guard", "read"}

Priorities == -WidePenalty .. HotBoost + HotBoost

Scans == [by : {"nobody", "detector", "worker"}, head : Nat, seen : Seq(Priorities),
          ever : SUBSET HotChannels, always : SUBSET HotChannels]

BqTypeOK ==
    /\ pq \in Seq(Bursts) /\ Len(pq) <= PqCap
    /\ items \in Nat /\ total \in 0 .. MaxTotal
    /\ hot \subseteq HotChannels
    /\ scan \in Scans
    /\ det \in [pc : DetStages, burst : Bursts]
    /\ work \in [pc : WorkStages, burst : Bursts]

\* A scan belongs to the task whose turn it is.
ScanOwned ==
    /\ scan.by = "nobody" => scan = NoScan
    /\ scan.by = "detector" => det.pc = "insert" /\ Len(pq) = PqCap
    /\ scan.by = "worker" => work.pc = "extract"

\* No queued burst was lapped at the counter that the scan goes by.
NoneLapped ==
    scan.by = "detector" => \A i \in 1 .. Len(pq) : scan.head - pq[i].start <= Span

\* Each priority read is one the burst had since the scan began.
SeenInRange ==
    /\ scan.by # "nobody" => scan.always \subseteq hot /\ hot \subseteq scan.ever
    /\ Len(scan.seen) <= Len(pq)
    /\ \A i \in 1 .. Len(scan.seen) :
          Lowest(pq[i]) <= scan.seen[i] /\ scan.seen[i] <= Highest(pq[i])

ScanOK == ScanOwned /\ NoneLapped /\ SeenInRange

\* The inductive invariant.
BqIInv == BqTypeOK /\ ItemsAreSlots /\ RejectedWereDoomed /\ ScanOK

LEMMA BqConstants ==
  /\ PqCap \in Nat \ {0} /\ U64 \in Nat \ {0}
  /\ Span \in Nat /\ PrePad \in Nat /\ MinLen \in Nat /\ HotBoost \in Nat
  /\ WidePenalty \in Nat /\ MaxTotal \in Nat
  /\ MaxTotal + Span < U64 - PrePad
  /\ Lags \subseteq Nat
  BY BurstQueueAssumption

\* The samples between the start of a window and a later counter, padding
\* included: the uint64_t subtraction that wraps for a burst at the very
\* beginning of the stream still yields the true distance.
LEMMA WindowDistance ==
  ASSUME NEW b \in Bursts, b.start <= MaxTotal, NEW t \in Nat, t >= b.start,
         t <= MaxTotal + Span
  PROVE  /\ (t - CheckStart(b)) % U64 = t - b.start + PrePad
         /\ CheckStart(b) \in Nat
         /\ CheckStart(b) <= t => t - CheckStart(b) = t - b.start + PrePad
  <1> DEFINE s == b.start
             d == t - s + PrePad
  <1>1. s \in Nat /\ d \in 0 .. U64 - 1
    BY BqConstants, SMTT(30) DEF Bursts
  <1>2. CASE s >= PrePad
    <2>1. s - PrePad \in 0 .. U64 - 1
      BY <1>1, <1>2, BqConstants, SMTT(30)
    <2>2. CheckStart(b) = s - PrePad
      BY <2>1, BqConstants, ModSmall DEF CheckStart
    <2>3. t - (s - PrePad) = d
      BY <1>1, BqConstants, SMTT(30)
    <2>4. d % U64 = d
      BY <1>1, BqConstants, ModSmall
    <2> QED BY <1>1, <2>1, <2>2, <2>3, <2>4, BqConstants, SMTT(30)
  <1>3. CASE s < PrePad
    <2> DEFINE c == s - PrePad + U64
    <2>1. c \in 0 .. U64 - 1 /\ c > t
      BY <1>1, <1>3, BqConstants, SMTT(30)
    <2>2. CheckStart(b) = c
      <3>1. s - PrePad = c - U64
        BY <1>1, BqConstants, SMTT(30)
      <3>2. (c - U64) % U64 = c
        <4> HIDE DEF c
        <4> QED BY <2>1, BqConstants, SMTT(30)
      <3> QED BY <3>1, <3>2 DEF CheckStart
    <2>3. t - c = d - U64
      BY <1>1, BqConstants, SMTT(30)
    <2>4. (d - U64) % U64 = d
      BY <1>1, BqConstants, SMTT(30)
    <2> QED BY <1>1, <2>1, <2>2, <2>3, <2>4, BqConstants, SMTT(30)
  <1> QED BY <1>1, <1>2, <1>3, BqConstants, SMTT(30)

\* A burst whose window does not fit the ring, or is older than the ring, fails
\* the worker's guard now and later.
LEMMA GoneForGood ==
  ASSUME NEW b \in Bursts, total \in 0 .. MaxTotal, b.start <= total,
         CheckLen(b) >= Span \/ total - b.start + PrePad > Span
  PROVE  Doomed(b)
  <1> SUFFICES ASSUME NEW t \in total .. MaxTotal + Span PROVE ~ValidAt(b, t)
    BY DEF Doomed, Decodable
  <1>1. b.start \in Nat /\ CheckLen(b) \in Nat
    BY BqConstants, SMTT(30) DEF Bursts, CheckLen
  <1>2. (t - CheckStart(b)) % U64 = t - b.start + PrePad
    BY <1>1, WindowDistance, BqConstants, SMTT(30)
  <1> QED BY <1>1, <1>2, BqConstants, SMTT(30) DEF ValidAt

LEMMA RejectedGone ==
  ASSUME NEW b \in Bursts, total \in 0 .. MaxTotal, b.start <= total, RejectAtPush(b)
  PROVE  Doomed(b)
  <1>1. CASE CheckLen(b) >= Span
    BY <1>1, GoneForGood
  <1>2. CASE total > CheckStart(b) /\ total - CheckStart(b) > Span
    <2>1. CheckStart(b) \in Nat
          /\ (CheckStart(b) <= total => total - CheckStart(b) = total - b.start + PrePad)
      BY WindowDistance, BqConstants, SMTT(30) DEF Bursts
    <2> QED BY <1>2, <2>1, GoneForGood, SMTT(30)
  <1> QED BY <1>1, <1>2 DEF RejectAtPush

LEMMA LappedGone ==
  ASSUME NEW b \in Bursts, total \in 0 .. MaxTotal, Lapped(b)
  PROVE  Doomed(b)
  <1>1. b.start \in Nat /\ b.start <= total /\ total - b.start + PrePad > Span
    BY BqConstants, SMTT(30) DEF Bursts, Lapped
  <1> QED BY <1>1, GoneForGood

\* What is doomed stays so while the counter grows.
LEMMA DoomedStays ==
  ASSUME NEW b, total \in Nat, total' \in Nat, total' >= total, Doomed(b)
  PROVE  Doomed(b)'
  <1> SUFFICES ASSUME NEW t \in total' .. MaxTotal + Span PROVE ~Decodable(b, t)
    BY DEF Doomed, Decodable, ValidAt, CheckStart, CheckLen
  <1> QED BY BqConstants, SMTT(30) DEF Doomed

-----------------------------------------------------------------------------
(* The slots the scans pick.                                               *)

\* The eviction scan finds the lapped slot it looks for.
LEMMA ReclaimedSlot ==
  ASSUME pq \in Seq(Bursts), NEW k \in 1 .. Len(pq), Lapped(pq[k]),
         NEW i, i = CHOOSE x \in 1 .. Len(pq) :
                      Lapped(pq[x]) /\ \A j \in 1 .. x - 1 : ~Lapped(pq[j])
  PROVE  i \in 1 .. Len(pq) /\ Lapped(pq[i])
  <1>1. \E x \in 1 .. Len(pq) : Lapped(pq[x]) /\ \A j \in 1 .. x - 1 : ~Lapped(pq[j])
    <2> DEFINE S == {x \in 1 .. Len(pq) : Lapped(pq[x])}
    <2>1. Len(pq) \in Nat
      BY SMTT(30)
    <2>2. S \subseteq Nat /\ S # {}
      BY <2>1, SMTT(30)
    <2>3. PICK x \in S : \A y \in S : x <= y
      BY <2>2, LeastMember
    <2> QED BY <2>1, <2>3, SMTT(30)
  <1> QED BY <1>1

LEMMA PriorityRange ==
  ASSUME NEW b \in Bursts, NEW h
  PROVE  burst_priority(b, h) \in Priorities
  BY BqConstants, SMTT(30) DEF Bursts, burst_priority, Priorities

\* More hot channels never lower a priority.
LEMMA PriorityMonotone ==
  ASSUME NEW b \in Bursts, NEW g, NEW h, g \subseteq h
  PROVE  burst_priority(b, g) <= burst_priority(b, h)
  <1>1. b.bin \in g => b.bin \in h
    OBVIOUS
  <1> QED BY <1>1, BqConstants, SMTT(30) DEF Bursts, burst_priority

\* The first of a set of slots.
LEMMA FirstSlot ==
  ASSUME NEW n \in Nat, NEW S, S \subseteq 1 .. n, S # {},
         NEW v, v = CHOOSE i \in 1 .. n : i \in S /\ \A j \in 1 .. i - 1 : j \notin S
  PROVE  v \in S
  <1>1. S \subseteq Nat
    BY SMTT(30)
  <1>2. PICK x \in S : \A y \in S : x <= y
    BY <1>1, LeastMember
  <1>3. \A j \in 1 .. x - 1 : j \notin S
    BY <1>1, <1>2, SMTT(30)
  <1> QED BY <1>2, <1>3

\* The victim of an eviction is a slot, and none was seen weaker.
LEMMA VictimWeakest ==
  ASSUME NEW n \in Nat \ {0}, n = Len(pq), scan.seen \in Seq(Priorities), Len(scan.seen) = n
  PROVE  Victim \in 1 .. n /\ \A j \in 1 .. n : scan.seen[Victim] <= scan.seen[j]
  <1> DEFINE v == scan.seen
             I == 1 .. n
             S == {i \in I : \A j \in I : v[i] <= v[j]}
             T == {v[i] + WidePenalty : i \in I}
  <1>1. \A i \in I : v[i] \in Int /\ v[i] + WidePenalty \in Nat
    BY BqConstants, SMTT(30) DEF Priorities
  <1>2. T \subseteq Nat /\ T # {}
    <2>1. 1 \in I
      BY SMTT(30)
    <2> QED BY <1>1, <2>1
  <1>3. PICK x \in T : \A y \in T : x <= y
    BY <1>2, LeastMember
  <1>4. PICK i \in I : x = v[i] + WidePenalty
    BY <1>3
  <1>5. ASSUME NEW j \in I PROVE v[i] <= v[j]
    <2>1. v[i] + WidePenalty <= v[j] + WidePenalty
      BY <1>3, <1>4
    <2> HIDE DEF v
    <2> QED BY <1>1, <2>1, BqConstants, SMTT(30)
  <1>6. S # {} /\ S \subseteq I
    BY <1>5
  <1>7. Victim = CHOOSE k \in I : k \in S /\ \A j \in 1 .. k - 1 : j \notin S
    <2>1. \A k \in I : \A j \in 1 .. k - 1 : j \in I
      BY SMTT(30)
    <2>2. Victim = CHOOSE k \in I : /\ \A m \in I : v[k] <= v[m]
                                   /\ \A j \in 1 .. k - 1 : ~\A m \in I : v[j] <= v[m]
      BY DEF Victim, Weakest, FirstIndex
    <2>3. \A k \in I : (k \in S /\ \A j \in 1 .. k - 1 : j \notin S) <=>
                         /\ \A m \in I : v[k] <= v[m]
                         /\ \A j \in 1 .. k - 1 : ~\A m \in I : v[j] <= v[m]
      BY <2>1
    <2> HIDE DEF S, v, I
    <2> QED BY <2>2, <2>3
  <1> HIDE DEF S
  <1>8. Victim \in S
    BY <1>6, <1>7, FirstSlot
  <1> QED BY <1>8 DEF S

\* The burst the worker takes is in a slot, and none was seen stronger.
LEMMA StrongestTaken ==
  ASSUME NEW n \in Nat \ {0}, n = Len(pq), scan.seen \in Seq(Priorities), Len(scan.seen) = n
  PROVE  Strongest \in 1 .. n /\ \A j \in 1 .. n : scan.seen[Strongest] >= scan.seen[j]
  <1> DEFINE v == scan.seen
             I == 1 .. n
             S == {i \in I : \A j \in I : v[i] >= v[j]}
             T == {HotBoost + HotBoost - v[i] : i \in I}
  <1>1. \A i \in I : v[i] \in Int /\ HotBoost + HotBoost - v[i] \in Nat
    BY BqConstants, SMTT(30) DEF Priorities
  <1>2. T \subseteq Nat /\ T # {}
    <2>1. 1 \in I
      BY SMTT(30)
    <2> QED BY <1>1, <2>1
  <1>3. PICK x \in T : \A y \in T : x <= y
    BY <1>2, LeastMember
  <1>4. PICK i \in I : x = HotBoost + HotBoost - v[i]
    BY <1>3
  <1>5. ASSUME NEW j \in I PROVE v[i] >= v[j]
    <2>1. HotBoost + HotBoost - v[i] <= HotBoost + HotBoost - v[j]
      BY <1>3, <1>4
    <2> HIDE DEF v
    <2> QED BY <1>1, <2>1, BqConstants, SMTT(30)
  <1>6. S # {} /\ S \subseteq I
    BY <1>5
  <1>7. Strongest = CHOOSE k \in I : k \in S /\ \A j \in 1 .. k - 1 : j \notin S
    <2>1. \A k \in I : \A j \in 1 .. k - 1 : j \in I
      BY SMTT(30)
    <2>2. Strongest = CHOOSE k \in I : /\ \A m \in I : v[k] >= v[m]
                                      /\ \A j \in 1 .. k - 1 : ~\A m \in I : v[j] >= v[m]
      BY DEF Strongest, FirstIndex
    <2>3. \A k \in I : (k \in S /\ \A j \in 1 .. k - 1 : j \notin S) <=>
                         /\ \A m \in I : v[k] >= v[m]
                         /\ \A j \in 1 .. k - 1 : ~\A m \in I : v[j] >= v[m]
      BY <2>1
    <2> HIDE DEF S, v, I
    <2> QED BY <2>2, <2>3
  <1> HIDE DEF S
  <1>8. Strongest \in S
    BY <1>6, <1>7, FirstSlot
  <1> QED BY <1>8 DEF S

\* A slot overwritten in place.
LEMMA Overwritten ==
  ASSUME pq \in Seq(Bursts), NEW i \in 1 .. Len(pq), NEW b \in Bursts,
         NEW q, q = [pq EXCEPT ![i] = b]
  PROVE  /\ q \in Seq(Bursts) /\ Len(q) = Len(pq)
         /\ q[i] = b /\ \A j \in 1 .. Len(pq) : j # i => q[j] = pq[j]
  BY SMTT(30)

\* What a scan that is complete has seen.
LEMMA ScanComplete ==
  ASSUME BqIInv, NEW who, Scanned(who), pq # << >>
  PROVE  /\ Len(pq) \in Nat \ {0} /\ Len(scan.seen) = Len(pq)
         /\ scan.seen \in Seq(Priorities)
         /\ \A i \in 1 .. Len(pq) :
               /\ Lowest(pq[i]) \in Int /\ Highest(pq[i]) \in Int /\ scan.seen[i] \in Int
               /\ Lowest(pq[i]) <= scan.seen[i] /\ scan.seen[i] <= Highest(pq[i])
  <1>1. pq \in Seq(Bursts) /\ scan.seen \in Seq(Priorities) /\ Len(scan.seen) = Len(pq)
    BY DEF BqIInv, BqTypeOK, Scans, Scanned
  <1>2. Len(pq) \in Nat \ {0}
    BY <1>1, SMTT(30)
  <1>3. ASSUME NEW i \in 1 .. Len(pq)
        PROVE  /\ Lowest(pq[i]) \in Int /\ Highest(pq[i]) \in Int /\ scan.seen[i] \in Int
    <2>1. pq[i] \in Bursts /\ scan.seen[i] \in Priorities
      BY <1>1, <1>2, SMTT(30)
    <2>2. Lowest(pq[i]) \in Priorities /\ Highest(pq[i]) \in Priorities
      BY <2>1, PriorityRange DEF Lowest, Highest
    <2> QED BY <2>1, <2>2, BqConstants, SMTT(30) DEF Priorities
  <1> QED BY <1>1, <1>2, <1>3 DEF BqIInv, ScanOK, SeenInRange

\* What the two in-place insertions write: a slot that is lapped, or one that
\* was not seen stronger than any other nor than the newcomer.
LEMMA InsertedInPlace ==
  ASSUME BqIInv, InsertReclaim \/ InsertEvict, pq' # pq
  PROVE  \E i \in 1 .. Len(pq) :
           /\ pq' = [pq EXCEPT ![i] = det.burst]
           /\ \/ Lapped(pq[i])
              \/ /\ InsertEvict
                 /\ burst_priority(det.burst, hot) > scan.seen[i]
                 /\ \A j \in 1 .. Len(pq) : scan.seen[i] <= scan.seen[j]
  <1>1. pq \in Seq(Bursts) /\ Len(pq) = PqCap /\ pq # << >>
    <2>1. pq \in Seq(Bursts) /\ Len(pq) <= PqCap /\ (~(Len(pq) < PqCap) \/ Len(pq) = PqCap)
      BY DEF BqIInv, BqTypeOK, ScanOK, ScanOwned, InsertReclaim, InsertEvict, Room, Scanned
    <2>2. Len(pq) = PqCap
      BY <2>1, BqConstants, SMTT(30)
    <2> QED BY <2>1, <2>2, BqConstants
  <1>2. CASE InsertReclaim
    <2>1. PICK k \in 1 .. Len(pq) : Lapped(pq[k])
      BY <1>1, <1>2 DEF InsertReclaim
    <2>2. PICK i : i = CHOOSE x \in 1 .. Len(pq) :
                         Lapped(pq[x]) /\ \A j \in 1 .. x - 1 : ~Lapped(pq[j])
      OBVIOUS
    <2>3. pq' = [pq EXCEPT ![i] = det.burst]
      BY <1>2, <2>2 DEF InsertReclaim, FirstIndex
    <2>4. i \in 1 .. Len(pq) /\ Lapped(pq[i])
      BY <1>1, <2>1, <2>2, ReclaimedSlot
    <2> QED BY <2>3, <2>4
  <1>3. CASE InsertEvict
    <2>1. Scanned("detector")
      BY <1>3 DEF InsertEvict
    <2>2. /\ Len(pq) \in Nat \ {0} /\ Len(scan.seen) = Len(pq) /\ scan.seen \in Seq(Priorities)
      BY <1>1, <2>1, ScanComplete
    <2>3. Victim \in 1 .. Len(pq) /\ \A j \in 1 .. Len(pq) : scan.seen[Victim] <= scan.seen[j]
      BY <2>2, VictimWeakest
    <2> QED BY <1>3, <2>3 DEF InsertEvict
  <1> QED BY <1>2, <1>3

\* The slot the worker takes from, and what is left.
LEMMA Extracted ==
  ASSUME BqIInv, Extract
  PROVE  /\ pq \in Seq(Bursts) /\ Len(pq) \in Nat \ {0}
         /\ Strongest \in 1 .. Len(pq) /\ pq[Strongest] \in Bursts
         /\ \A j \in 1 .. Len(pq) : scan.seen[Strongest] >= scan.seen[j]
         /\ pq' \in Seq(Bursts) /\ Len(pq') = Len(pq) - 1
         /\ \A j \in 1 .. Len(pq') : \E k \in 1 .. Len(pq) : pq'[j] = pq[k]
  <1> DEFINE q == [pq EXCEPT ![Strongest] = pq[Len(pq)]]
  <1>1. pq \in Seq(Bursts) /\ pq # << >> /\ Scanned("worker")
    BY DEF Extract, BqIInv, BqTypeOK
  <1>2. /\ Len(pq) \in Nat \ {0} /\ Len(scan.seen) = Len(pq) /\ scan.seen \in Seq(Priorities)
    BY <1>1, ScanComplete
  <1>3. /\ Strongest \in 1 .. Len(pq)
        /\ \A j \in 1 .. Len(pq) : scan.seen[Strongest] >= scan.seen[j]
    BY <1>2, StrongestTaken
  <1>4. pq[Len(pq)] \in Bursts /\ pq[Strongest] \in Bursts
    BY <1>1, <1>2, <1>3, SMTT(30)
  <1>5. /\ q \in Seq(Bursts) /\ Len(q) = Len(pq) /\ q[Strongest] = pq[Len(pq)]
        /\ \A j \in 1 .. Len(pq) : j # Strongest => q[j] = pq[j]
    BY <1>1, <1>3, <1>4, Overwritten, SMTT(30)
  <1>6. pq' = SubSeq(q, 1, Len(pq) - 1)
    BY DEF Extract
  <1> HIDE DEF q
  <1>7. /\ pq' \in Seq(Bursts) /\ Len(pq') = Len(pq) - 1
        /\ \A j \in 1 .. Len(pq') : pq'[j] = q[j]
    BY <1>2, <1>5, <1>6, SMTT(30)
  <1>8. ASSUME NEW j \in 1 .. Len(pq') PROVE \E k \in 1 .. Len(pq) : pq'[j] = pq[k]
    <2>1. j \in 1 .. Len(pq) /\ Len(pq) \in 1 .. Len(pq)
      BY <1>2, <1>7, SMTT(30)
    <2>2. CASE j = Strongest
      BY <1>5, <1>7, <2>1, <2>2
    <2>3. CASE j # Strongest
      BY <1>5, <1>7, <2>1, <2>3
    <2> QED BY <2>2, <2>3
  <1> QED BY <1>1, <1>2, <1>3, <1>4, <1>7, <1>8

-----------------------------------------------------------------------------
(* The scan through the steps.                                             *)

\* A step that leaves the queue, the hot channels and the scan alone and does
\* not move the task that scans.
LEMMA ScanKept ==
  ASSUME BqIInv, UNCHANGED <<pq, hot, scan>>,
         scan.by = "detector" => det'.pc = "insert",
         scan.by = "worker" => work'.pc = "extract"
  PROVE  ScanOK'
  <1>1. ScanOwned'
    BY DEF BqIInv, ScanOK, ScanOwned
  <1>2. NoneLapped'
    BY DEF BqIInv, ScanOK, NoneLapped
  <1>3. SeenInRange'
    BY DEF BqIInv, ScanOK, SeenInRange, Lowest, Highest
  <1> QED BY <1>1, <1>2, <1>3 DEF ScanOK

\* A step after which nobody scans.
LEMMA ScanOver ==
  ASSUME pq' \in Seq(Bursts), scan' = NoScan
  PROVE  scan' \in Scans /\ ScanOK'
  <1>1. scan'.by = "nobody" /\ scan'.seen = << >>
    BY DEF NoScan
  <1>2. Len(scan'.seen) = 0 /\ Len(pq') \in Nat
    BY <1>1, SMTT(30)
  <1>3. scan' \in Scans
    BY SMTT(30) DEF Scans, NoScan
  <1>4. SeenInRange'
    BY <1>1, <1>2, SMTT(30) DEF SeenInRange
  <1> QED BY <1>1, <1>3, <1>4 DEF ScanOK, ScanOwned, NoneLapped, NoScan

LEMMA ScanBegins ==
  ASSUME BqIInv, EvictStart \/ ExtractStart
  PROVE  BqIInv'
  <1>1. /\ UNCHANGED <<pq, items, total, hot, det, work>>
        /\ BqTypeOK /\ ItemsAreSlots /\ RejectedWereDoomed
    BY DEF EvictStart, ExtractStart, BqIInv
  <1>2. PICK w \in {"detector", "worker"}, h \in Nat :
          /\ scan' = ScanBy(w, h)
          /\ w = "detector" => EvictStart /\ h = total
          /\ w = "worker" => ExtractStart
    <2>1. total \in Nat /\ 0 \in Nat
      BY <1>1, BqConstants, SMTT(30) DEF BqTypeOK
    <2> QED BY <2>1 DEF EvictStart, ExtractStart
  <1>3. /\ scan'.by = w /\ scan'.head = h /\ scan'.seen = << >>
        /\ scan'.ever = hot /\ scan'.always = hot
    BY <1>2 DEF ScanBy
  <1>4. scan' \in Scans
    <2>1. << >> \in Seq(Priorities)
      BY SMTT(30)
    <2> QED BY <1>1, <1>2, <2>1 DEF ScanBy, Scans, BqTypeOK
  <1>5. BqTypeOK' /\ ItemsAreSlots' /\ RejectedWereDoomed'
    BY <1>1, <1>4 DEF BqTypeOK, ItemsAreSlots, RejectedWereDoomed, Doomed, Decodable, ValidAt,
                     CheckStart, CheckLen
  <1>6. ScanOwned'
    <2>1. w = "detector" => Len(pq) = PqCap
      <3> SUFFICES ASSUME w = "detector" PROVE Len(pq) = PqCap
        OBVIOUS
      <3>1. ~(Len(pq) < PqCap) /\ Len(pq) <= PqCap /\ Len(pq) \in Nat
        BY <1>1, <1>2, SMTT(30) DEF EvictStart, Room, BqTypeOK
      <3> QED BY <3>1, BqConstants, SMTT(30)
    <2> QED BY <1>1, <1>2, <1>3, <2>1 DEF ScanOwned, EvictStart, ExtractStart
  <1>7. NoneLapped'
    <2> SUFFICES ASSUME w = "detector", NEW i \in 1 .. Len(pq) PROVE total - pq[i].start <= Span
      BY <1>1, <1>2, <1>3 DEF NoneLapped
    <2>1. pq[i] \in Bursts /\ total \in Nat
      BY <1>1, BqConstants, SMTT(30) DEF BqTypeOK
    <2>3. pq[i].start \in Nat
      BY <2>1 DEF Bursts
    <2>2. ~Lapped(pq[i])
      <3>1. i \in 1 .. PqCap
        BY <1>1, <1>3, <1>6 DEF ScanOwned
      <3> QED BY <1>2, <3>1 DEF EvictStart
    <2> QED BY <2>1, <2>2, <2>3, BqConstants, SMTT(30) DEF Lapped
  <1>8. SeenInRange'
    <2>1. Len(scan'.seen) = 0 /\ Len(pq') \in Nat
      BY <1>1, <1>3, SMTT(30) DEF BqTypeOK
    <2> QED BY <1>1, <1>3, <2>1, SMTT(30) DEF SeenInRange
  <1> QED BY <1>5, <1>6, <1>7, <1>8 DEF BqIInv, ScanOK

LEMMA ScanGoesOn ==
  ASSUME BqIInv, NEW who, who # "nobody", ScanSlot(who)
  PROVE  BqIInv'
  <1> DEFINE n == Len(scan.seen) + 1
             x == burst_priority(pq[n], hot)
  <1>1. /\ UNCHANGED <<pq, items, total, hot, det, work>>
        /\ BqTypeOK /\ ItemsAreSlots /\ RejectedWereDoomed /\ ScanOK
        /\ scan.by = who /\ Len(scan.seen) < Len(pq)
        /\ scan' = [scan EXCEPT !.seen = Append(scan.seen, x)]
    BY DEF ScanSlot, BqIInv
  <1>2. scan \in Scans /\ scan.seen \in Seq(Priorities) /\ pq \in Seq(Bursts)
    BY <1>1 DEF BqTypeOK, Scans
  <1>3. n \in 1 .. Len(pq) /\ Len(scan.seen) \in Nat /\ Len(pq) \in Nat /\ pq[n] \in Bursts
    BY <1>1, <1>2, SMTT(30)
  <1>4. x \in Priorities
    BY <1>3, PriorityRange
  <1>5. /\ scan'.by = scan.by /\ scan'.head = scan.head /\ scan'.ever = scan.ever
        /\ scan'.always = scan.always /\ scan'.seen = Append(scan.seen, x)
    BY <1>1, <1>2 DEF Scans
  <1>6. /\ Lowest(pq[n]) <= x /\ x <= Highest(pq[n])
    <2>1. scan.always \subseteq hot /\ hot \subseteq scan.ever
      BY <1>1 DEF ScanOK, SeenInRange
    <2> QED BY <1>3, <2>1, PriorityMonotone DEF Lowest, Highest
  <1> HIDE DEF x
  <1>7. /\ scan'.seen \in Seq(Priorities) /\ Len(scan'.seen) = n
        /\ scan'.seen[n] = x /\ \A i \in 1 .. Len(scan.seen) : scan'.seen[i] = scan.seen[i]
    BY <1>2, <1>3, <1>4, <1>5, SMTT(30)
  <1>8. scan' \in Scans
    BY <1>1, <1>2, <1>5, <1>7 DEF Scans
  <1>9. BqTypeOK' /\ ItemsAreSlots' /\ RejectedWereDoomed'
    BY <1>1, <1>8 DEF BqTypeOK, ItemsAreSlots, RejectedWereDoomed, Doomed, Decodable, ValidAt,
                     CheckStart, CheckLen
  <1>10. ScanOwned' /\ NoneLapped'
    BY <1>1, <1>5 DEF ScanOK, ScanOwned, NoneLapped
  <1>11. SeenInRange'
    <2>1. ASSUME NEW i \in 1 .. Len(scan'.seen)
          PROVE  Lowest(pq[i])' <= scan'.seen[i] /\ scan'.seen[i] <= Highest(pq[i])'
      <3>1. i \in 1 .. Len(scan.seen) \/ i = n
        BY <1>3, <1>7, <2>1, SMTT(30)
      <3>2. CASE i \in 1 .. Len(scan.seen)
        BY <1>1, <1>5, <1>7, <3>2 DEF ScanOK, SeenInRange, Lowest, Highest
      <3>3. CASE i = n
        BY <1>1, <1>5, <1>6, <1>7, <3>3 DEF Lowest, Highest
      <3> QED BY <3>1, <3>2, <3>3
    <2>2. Len(scan'.seen) <= Len(pq')
      BY <1>1, <1>3, <1>7, SMTT(30)
    <2> QED BY <1>1, <1>5, <2>1, <2>2 DEF ScanOK, SeenInRange
  <1> QED BY <1>9, <1>10, <1>11 DEF BqIInv, ScanOK

-----------------------------------------------------------------------------
(* The invariant.                                                          *)

LEMMA DetectInv ==
  ASSUME BqIInv, NEW shape \in Shapes, NEW lag \in Lags, Detect(shape, lag)
  PROVE  BqIInv'
  <1> DEFINE b == [start |-> total - lag - shape.len, len |-> shape.len,
                   snr |-> shape.snr, bin |-> shape.bin, wide |-> shape.wide]
  <1>1. shape \in [len : Nat, snr : 0 .. HotBoost, bin : Nat, wide : BOOLEAN] /\ lag \in Nat
    BY BqConstants, BurstQueueAssumption, SMTT(30)
  <1>2. total \in 0 .. MaxTotal /\ shape.len + lag <= total
    BY DEF Detect, BqIInv, BqTypeOK
  <1>3. b \in Bursts /\ b.start <= total
    BY <1>1, <1>2, BqConstants, SMTT(30) DEF Bursts
  <1> HIDE DEF b
  <1>4. /\ det' = [pc |-> IF RejectAtPush(b) THEN "rejected" ELSE "insert", burst |-> b]
        /\ UNCHANGED <<pq, items, total, hot, scan, work>> /\ det.pc = "idle"
    BY DEF Detect, b
  <1>5. BqTypeOK'
    BY <1>3, <1>4 DEF BqIInv, BqTypeOK, DetStages
  <1>6. ItemsAreSlots'
    BY <1>4 DEF BqIInv, ItemsAreSlots
  <1>7. RejectedWereDoomed'
    <2>1. PICK c : c = b
      OBVIOUS
    <2> SUFFICES ASSUME det'.pc = "rejected" PROVE Doomed(c)'
      BY <1>4, <2>1 DEF RejectedWereDoomed, Doomed, Decodable, ValidAt, CheckStart, CheckLen
    <2>2. Doomed(c)
      BY <1>2, <1>3, <1>4, <2>1, RejectedGone
    <2> QED BY <1>2, <1>4, <2>2, DoomedStays, BqConstants, SMTT(30)
  <1>8. ScanOK'
    BY <1>4, ScanKept DEF BqIInv, ScanOK, ScanOwned
  <1> QED BY <1>5, <1>6, <1>7, <1>8 DEF BqIInv

LEMMA DetectorInv ==
  ASSUME BqIInv, Detector
  PROVE  BqIInv'
  <1> DEFINE Steps == DetectReturn \/ InsertRoom \/ InsertReclaim \/ InsertEvict \/ Give
  <1>1. ASSUME Steps
        PROVE  /\ BqTypeOK /\ ItemsAreSlots /\ det' \in [pc : DetStages, burst : Bursts]
               /\ det'.pc # "rejected"
    <2>1. AtRest \in [pc : DetStages, burst : Bursts] /\ AtRest.pc = "idle"
      BY BqConstants, SMTT(30) DEF AtRest, NoBurst, Bursts, DetStages
    <2> QED BY <1>1, <2>1 DEF BqIInv, BqTypeOK, DetectReturn, InsertRoom, InsertReclaim,
                InsertEvict, Give, DetStages
  <1>2. Steps => RejectedWereDoomed'
    BY <1>1 DEF RejectedWereDoomed
  <1>3. CASE DetectReturn \/ Give
    <2>1. /\ UNCHANGED <<pq, total, hot, scan, work>> /\ det.pc # "insert" /\ Steps
      BY <1>3 DEF DetectReturn, Give
    <2>2. ScanOK'
      BY <2>1, ScanKept DEF BqIInv, ScanOK, ScanOwned
    <2>3. ItemsAreSlots' /\ items' \in Nat
      BY <1>1, <1>3, <2>1, SMTT(30) DEF BqTypeOK, ItemsAreSlots, DetectReturn, Give, Given, AtRest
    <2> QED BY <1>1, <1>2, <2>1, <2>2, <2>3 DEF BqIInv, BqTypeOK
  <1>4. CASE InsertRoom
    <2>1. pq' \in Seq(Bursts) /\ Len(pq') = Len(pq) + 1 /\ Len(pq') <= PqCap
      BY <1>1, <1>4, BqConstants, SMTT(30) DEF BqTypeOK, InsertRoom, Room
    <2>2. scan' = NoScan /\ UNCHANGED <<items, total, hot, work>> /\ det.pc = "insert" /\ det'.pc = "give"
      BY <1>1, <1>4 DEF InsertRoom, Unlocked, BqTypeOK
    <2>3. ItemsAreSlots'
      BY <1>1, <1>4, <2>1, <2>2, SMTT(30) DEF BqTypeOK, ItemsAreSlots
    <2> QED BY <1>1, <1>2, <1>4, <2>1, <2>2, <2>3, ScanOver DEF BqIInv, BqTypeOK
  <1>5. CASE InsertReclaim \/ InsertEvict
    <2>1. /\ UNCHANGED <<items, total, hot, work>> /\ det.pc = "insert" /\ det'.pc = "idle"
          /\ scan' = NoScan /\ Steps
      <3>1. InsertEvict => det.pc = "insert"
        BY DEF InsertEvict, Scanned, BqIInv, ScanOK, ScanOwned
      <3>2. det' = AtRest /\ scan' = NoScan /\ UNCHANGED <<items, total, hot, work>>
        BY <1>5 DEF InsertReclaim, InsertEvict, Unlocked
      <3>3. InsertReclaim => det.pc = "insert"
        BY DEF InsertReclaim
      <3> QED BY <1>5, <3>1, <3>2, <3>3 DEF AtRest
    <2>2. pq' \in Seq(Bursts) /\ Len(pq') = Len(pq)
      <3>1. pq \in Seq(Bursts) /\ det.burst \in Bursts
        BY <1>1, <2>1 DEF BqTypeOK
      <3>2. CASE pq' # pq
        <4>1. PICK i \in 1 .. Len(pq) : pq' = [pq EXCEPT ![i] = det.burst]
          BY <1>5, <3>2, InsertedInPlace
        <4> QED BY <3>1, <4>1, Overwritten, SMTT(30)
      <3> QED BY <3>1, <3>2
    <2>3. BqTypeOK'
      BY <1>1, <2>1, <2>2, ScanOver DEF BqTypeOK
    <2>4. ItemsAreSlots'
      BY <1>1, <2>1, <2>2 DEF ItemsAreSlots
    <2> QED BY <1>2, <2>1, <2>2, <2>3, <2>4, ScanOver DEF BqIInv
  <1>6. CASE EvictStart
    BY <1>6, ScanBegins
  <1>7. CASE ScanSlot("detector")
    BY <1>7, ScanGoesOn
  <1> QED BY <1>3, <1>4, <1>5, <1>6, <1>7 DEF Detector

LEMMA WorkerInv ==
  ASSUME BqIInv, Worker
  PROVE  BqIInv'
  <1>1. BqTypeOK /\ AtRest \in [pc : WorkStages, burst : Bursts]
    BY BqConstants, SMTT(30) DEF BqIInv, AtRest, NoBurst, Bursts, WorkStages
  <1>2. UNCHANGED <<total, det>> => RejectedWereDoomed'
    BY DEF BqIInv, RejectedWereDoomed, Doomed, Decodable, ValidAt, CheckStart, CheckLen
  <1>3. CASE TakeItem \/ Guard \/ ReadDone
    <2>1. /\ UNCHANGED <<pq, total, hot, scan, det>> /\ work.pc # "extract"
          /\ work' \in [pc : WorkStages, burst : Bursts]
      BY <1>1, <1>3 DEF TakeItem, Guard, ReadDone, BqTypeOK, WorkStages
    <2>2. ScanOK'
      BY <2>1, ScanKept DEF BqIInv, ScanOK, ScanOwned
    <2>3. ItemsAreSlots' /\ items' \in Nat
      BY <1>1, <1>3, <2>1, SMTT(30) DEF BqIInv, BqTypeOK, ItemsAreSlots, TakeItem, Guard, ReadDone, AtRest
    <2> QED BY <1>1, <1>2, <2>1, <2>2, <2>3 DEF BqIInv, BqTypeOK
  <1>4. CASE Extract
    <2>1. /\ UNCHANGED <<items, total, hot, det>> /\ work.pc = "extract" /\ scan' = NoScan
          /\ work' = [pc |-> "guard", burst |-> pq[Strongest]]
      BY <1>4 DEF Extract, Scanned, BqIInv, ScanOK, ScanOwned
    <2>2. /\ pq' \in Seq(Bursts) /\ Len(pq') = Len(pq) - 1 /\ Len(pq) \in Nat \ {0}
          /\ pq[Strongest] \in Bursts
      BY <1>4, Extracted
    <2>3. Len(pq') <= PqCap
      BY <1>1, <2>2, BqConstants, SMTT(30) DEF BqTypeOK
    <2>4. work' \in [pc : WorkStages, burst : Bursts] /\ work'.pc = "guard"
      BY <2>1, <2>2 DEF WorkStages
    <2>5. BqTypeOK'
      BY <1>1, <2>1, <2>2, <2>3, <2>4, ScanOver DEF BqTypeOK
    <2>6. ItemsAreSlots'
      BY <1>1, <2>1, <2>2, <2>4, SMTT(30) DEF BqIInv, BqTypeOK, ItemsAreSlots
    <2> QED BY <1>2, <2>1, <2>2, <2>5, <2>6, ScanOver DEF BqIInv
  <1>5. CASE ExtractStart
    BY <1>5, ScanBegins
  <1>6. CASE ScanSlot("worker")
    BY <1>6, ScanGoesOn
  <1> QED BY <1>3, <1>4, <1>5, <1>6 DEF Worker

\* The counter only grows, and the queue stays while it changes.
LEMMA CounterInv ==
  ASSUME BqIInv, Ingest \/ UNCHANGED bqVars
  PROVE  BqIInv'
  <1>1. /\ UNCHANGED <<pq, items, det, work, hot, scan>> /\ BqTypeOK
        /\ total' \in 0 .. MaxTotal /\ total' >= total
    BY BqConstants, SMTT(30) DEF BqIInv, BqTypeOK, Ingest, bqVars
  <1>2. BqTypeOK' /\ ItemsAreSlots'
    BY <1>1 DEF BqIInv, BqTypeOK, ItemsAreSlots
  <1>3. RejectedWereDoomed'
    <2>1. PICK c : c = det.burst
      OBVIOUS
    <2> SUFFICES ASSUME det.pc = "rejected" PROVE Doomed(c)'
      BY <1>1, <2>1 DEF RejectedWereDoomed, Doomed, Decodable, ValidAt, CheckStart, CheckLen
    <2>2. Doomed(c)
      BY <2>1 DEF BqIInv, RejectedWereDoomed
    <2> QED BY <1>1, <2>2, DoomedStays, SMTT(30) DEF BqTypeOK
  <1>4. ScanOK'
    BY <1>1, ScanKept DEF BqIInv, ScanOK, ScanOwned
  <1> QED BY <1>2, <1>3, <1>4 DEF BqIInv

\* A channel that turns hot or cold during a scan widens the range of the
\* priorities read.
LEMMA HotChangeInv ==
  ASSUME BqIInv, HotChange
  PROVE  BqIInv'
  <1>1. UNCHANGED <<pq, items, total, det, work>> /\ BqTypeOK /\ ScanOK /\ hot' \subseteq HotChannels
    BY DEF BqIInv, BqTypeOK, HotChange
  <1>2. ItemsAreSlots' /\ RejectedWereDoomed'
    BY <1>1 DEF BqIInv, ItemsAreSlots, RejectedWereDoomed, Doomed, Decodable, ValidAt, CheckStart, CheckLen
  <1>3. CASE Unlocked
    <2>1. scan' = NoScan /\ pq' \in Seq(Bursts)
      BY <1>1, <1>3 DEF HotChange, Unlocked, BqTypeOK
    <2> QED BY <1>1, <1>2, <2>1, ScanOver DEF BqIInv, BqTypeOK
  <1>4. CASE ~Unlocked
    <2>1. scan' = [scan EXCEPT !.ever = @ \union hot', !.always = @ \intersect hot']
      BY <1>4 DEF HotChange
    <2>2. scan \in Scans
      BY <1>1 DEF BqTypeOK
    <2>3. /\ scan'.by = scan.by /\ scan'.head = scan.head /\ scan'.seen = scan.seen
          /\ scan'.ever = scan.ever \union hot' /\ scan'.always = scan.always \intersect hot'
          /\ scan' \in Scans
      BY <1>1, <2>1, <2>2 DEF Scans
    <2>4. scan.by # "nobody"
      BY <1>1, <1>4 DEF ScanOK, ScanOwned, Unlocked
    <2>5. BqTypeOK' /\ ScanOwned' /\ NoneLapped'
      BY <1>1, <2>3, <2>4 DEF BqTypeOK, ScanOK, ScanOwned, NoneLapped
    <2>6. SeenInRange'
      <3>1. ASSUME NEW i \in 1 .. Len(scan.seen)
            PROVE  Lowest(pq[i])' <= scan.seen[i] /\ scan.seen[i] <= Highest(pq[i])'
        <4>1. PICK b : b = pq[i]
          OBVIOUS
        <4>2. b \in Bursts /\ scan.seen[i] \in Priorities
          BY <1>1, <2>2, <4>1, SMTT(30) DEF BqTypeOK, ScanOK, SeenInRange, Scans
        <4>3. burst_priority(b, scan.always) <= scan.seen[i] /\ scan.seen[i] <= burst_priority(b, scan.ever)
          BY <1>1, <4>1 DEF ScanOK, SeenInRange, Lowest, Highest
        <4>4. /\ burst_priority(b, scan'.always) <= burst_priority(b, scan.always)
              /\ burst_priority(b, scan.ever) <= burst_priority(b, scan'.ever)
          BY <2>3, <4>2, PriorityMonotone
        <4>5. /\ burst_priority(b, scan'.always) \in Priorities /\ burst_priority(b, scan.always) \in Priorities
              /\ burst_priority(b, scan'.ever) \in Priorities /\ burst_priority(b, scan.ever) \in Priorities
          BY <4>2, PriorityRange
        <4>6. burst_priority(b, scan'.always) <= scan.seen[i] /\ scan.seen[i] <= burst_priority(b, scan'.ever)
          BY <4>2, <4>3, <4>4, <4>5, BqConstants, SMTT(30) DEF Priorities
        <4> QED BY <1>1, <4>1, <4>6 DEF Lowest, Highest, burst_priority
      <3> QED BY <1>1, <2>3, <3>1 DEF ScanOK, SeenInRange
    <2> QED BY <1>2, <2>5, <2>6 DEF BqIInv, ScanOK
  <1> QED BY <1>3, <1>4

LEMMA BqInvariant == BqSpec => []BqIInv
  <1>1. BqInit => BqIInv
    <2> SUFFICES ASSUME BqInit PROVE BqIInv
      OBVIOUS
    <2>1. /\ pq = << >> /\ Len(pq) = 0 /\ scan = NoScan /\ hot = {}
      BY SMTT(30) DEF BqInit
    <2>2. scan.by = "nobody" /\ scan.seen = << >> /\ Len(scan.seen) = 0
      BY <2>1, SMTT(30) DEF NoScan
    <2>3. scan \in Scans
      BY <2>1, SMTT(30) DEF NoScan, Scans
    <2>4. BqTypeOK
      BY <2>1, <2>3, BqConstants, SMTT(30) DEF BqInit, BqTypeOK, AtRest, NoBurst, Bursts, DetStages, WorkStages
    <2>5. ItemsAreSlots /\ RejectedWereDoomed
      BY <2>1, SMTT(30) DEF BqInit, ItemsAreSlots, RejectedWereDoomed, AtRest
    <2>6. ScanOK
      BY <2>1, <2>2, SMTT(30) DEF ScanOK, ScanOwned, NoneLapped, SeenInRange
    <2> QED BY <2>4, <2>5, <2>6 DEF BqIInv
  <1>2. BqIInv /\ [BqNext]_bqVars => BqIInv'
    BY DetectInv, DetectorInv, WorkerInv, CounterInv, HotChangeInv DEF BqNext
  <1> QED BY <1>1, <1>2, PTL DEF BqSpec

\* For every capacity of the queue, and however the detector, the worker and the
\* sample counter interleave: the semaphore counts the occupied slots, so the
\* worker never extracts from an empty queue, and no burst that could still be
\* decoded is turned away at the push.
THEOREM BurstQueueSafe == BqSpec => [](ItemsAreSlots /\ RejectedWereDoomed)
  BY BqInvariant, PTL DEF BqIInv

-----------------------------------------------------------------------------
(* Whom the scans choose.                                                  *)

\* A step that overwrites a slot takes it from a burst that is past decoding, or
\* from one that none of the others was weaker than throughout the scan.
LEMMA EvictionStep ==
  ASSUME BqIInv, [BqNext]_bqVars, Len(pq') = Len(pq), NEW b \in Queued \ Queued'
  PROVE  \/ Doomed(b)
         \/ /\ \A q \in Queued' : Highest(q) >= Lowest(b)
            /\ \A q \in Queued \intersect Queued' : scan.head - q.start <= Span
  <1>1. pq' # pq
    BY DEF Queued
  <1>2. pq \in Seq(Bursts) /\ Len(pq) \in Nat /\ det.burst \in Bursts
    BY SMTT(30) DEF BqIInv, BqTypeOK
  <1>3. InsertReclaim \/ InsertEvict
    <2>1. ~InsertRoom
      BY <1>2, SMTT(30) DEF InsertRoom
    <2>2. ~Extract
      <3> SUFFICES ASSUME Extract PROVE FALSE
        OBVIOUS
      <3>1. Len(pq') = Len(pq) - 1
        BY Extracted
      <3> QED BY <1>2, <3>1, SMTT(30)
    <2> QED BY <1>1, <2>1, <2>2 DEF BqNext, Detect, Detector, DetectReturn, EvictStart, ScanSlot, Give,
                                Worker, TakeItem, ExtractStart, Guard, ReadDone, Ingest, HotChange, bqVars
  <1>4. PICK i \in 1 .. Len(pq) :
          /\ pq' = [pq EXCEPT ![i] = det.burst]
          /\ \/ Lapped(pq[i])
             \/ /\ InsertEvict
                /\ burst_priority(det.burst, hot) > scan.seen[i]
                /\ \A j \in 1 .. Len(pq) : scan.seen[i] <= scan.seen[j]
    BY <1>1, <1>3, InsertedInPlace
  <1>5. pq'[i] = det.burst /\ \A j \in 1 .. Len(pq) : j # i => pq'[j] = pq[j]
    BY <1>2, <1>4, Overwritten, SMTT(30)
  <1>6. b = pq[i]
    BY <1>5 DEF Queued
  <1>7. CASE Lapped(pq[i])
    <2>1. b \in Bursts /\ total \in 0 .. MaxTotal /\ Lapped(b)
      BY <1>2, <1>6, <1>7, SMTT(30) DEF BqIInv, BqTypeOK
    <2> QED BY <2>1, LappedGone
  <1>8. CASE /\ InsertEvict
             /\ burst_priority(det.burst, hot) > scan.seen[i]
             /\ \A j \in 1 .. Len(pq) : scan.seen[i] <= scan.seen[j]
    <2>1. Scanned("detector") /\ scan.by = "detector" /\ pq # << >>
      BY <1>2, <1>8, SMTT(30) DEF InsertEvict, Scanned
    <2>2. \A j \in 1 .. Len(pq) :
             /\ Lowest(pq[j]) \in Int /\ Highest(pq[j]) \in Int /\ scan.seen[j] \in Int
             /\ Lowest(pq[j]) <= scan.seen[j] /\ scan.seen[j] <= Highest(pq[j])
      BY <2>1, ScanComplete
    <2>3. ASSUME NEW j \in 1 .. Len(pq), j # i PROVE Highest(pq[j]) >= Lowest(pq[i])
      <3>1. /\ Lowest(pq[i]) \in Int /\ scan.seen[i] \in Int /\ Lowest(pq[i]) <= scan.seen[i]
            /\ Highest(pq[j]) \in Int /\ scan.seen[j] \in Int /\ scan.seen[j] <= Highest(pq[j])
            /\ scan.seen[i] <= scan.seen[j]
        BY <1>8, <2>2
      <3> QED BY <3>1, SMTT(30)
    <2>4. Highest(det.burst) >= Lowest(pq[i])
      <3>1. hot \subseteq scan.ever
        BY <2>1 DEF BqIInv, ScanOK, SeenInRange
      <3>2. burst_priority(det.burst, hot) <= Highest(det.burst)
        BY <1>2, <3>1, PriorityMonotone DEF Highest
      <3>3. burst_priority(det.burst, hot) \in Priorities /\ Highest(det.burst) \in Priorities
        BY <1>2, PriorityRange DEF Highest
      <3>4. burst_priority(det.burst, hot) \in Int /\ Highest(det.burst) \in Int
        BY <3>3, BqConstants, SMTT(30) DEF Priorities
      <3>5. Lowest(pq[i]) \in Int /\ scan.seen[i] \in Int /\ Lowest(pq[i]) <= scan.seen[i]
        BY <2>2
      <3> QED BY <1>8, <3>2, <3>4, <3>5, SMTT(30)
    <2>5. ASSUME NEW q \in Queued' PROVE Highest(q) >= Lowest(b)
      <3>1. PICK j \in 1 .. Len(pq) : q = pq'[j]
        BY DEF Queued
      <3>2. CASE j = i
        BY <1>5, <1>6, <2>4, <3>1, <3>2
      <3>3. CASE j # i
        BY <1>5, <1>6, <2>3, <3>1, <3>3
      <3> QED BY <3>2, <3>3
    <2>6. \A q \in Queued : scan.head - q.start <= Span
      BY <2>1 DEF BqIInv, ScanOK, NoneLapped, Queued
    <2> QED BY <2>5, <2>6
  <1> QED BY <1>4, <1>7, <1>8

\* A step that shortens the queue takes from it a burst that was not weaker
\* than any that is left throughout the scan.
LEMMA ExtractionStep ==
  ASSUME BqIInv, [BqNext]_bqVars, Len(pq') < Len(pq), NEW q \in Queued'
  PROVE  Highest(work'.burst) >= Lowest(q)
  <1>1. pq \in Seq(Bursts) /\ Len(pq) \in Nat /\ det.burst \in Bursts /\ pq' # pq
    BY SMTT(30) DEF BqIInv, BqTypeOK
  <1>2. Extract
    <2>1. ~InsertRoom
      BY <1>1, SMTT(30) DEF InsertRoom
    <2>2. ~(InsertReclaim \/ InsertEvict)
      <3> SUFFICES ASSUME InsertReclaim \/ InsertEvict PROVE FALSE
        OBVIOUS
      <3>1. PICK i \in 1 .. Len(pq) : pq' = [pq EXCEPT ![i] = det.burst]
        BY <1>1, InsertedInPlace
      <3>2. Len(pq') = Len(pq)
        BY <1>1, <3>1, Overwritten, SMTT(30)
      <3> QED BY <1>1, <3>2, SMTT(30)
    <2> QED BY <1>1, <2>1, <2>2 DEF BqNext, Detect, Detector, DetectReturn, EvictStart, ScanSlot, Give,
                                Worker, TakeItem, ExtractStart, Guard, ReadDone, Ingest, HotChange, bqVars
  <1>3. /\ Strongest \in 1 .. Len(pq)
        /\ \A j \in 1 .. Len(pq) : scan.seen[Strongest] >= scan.seen[j]
        /\ \A j \in 1 .. Len(pq') : \E k \in 1 .. Len(pq) : pq'[j] = pq[k]
    BY <1>2, Extracted
  <1>4. work'.burst = pq[Strongest] /\ Scanned("worker") /\ pq # << >>
    BY <1>2 DEF Extract
  <1>5. PICK k \in 1 .. Len(pq) : q = pq[k]
    BY <1>3 DEF Queued
  <1>6. /\ Lowest(pq[k]) \in Int /\ scan.seen[k] \in Int /\ Lowest(pq[k]) <= scan.seen[k]
        /\ Highest(pq[Strongest]) \in Int /\ scan.seen[Strongest] \in Int
        /\ scan.seen[Strongest] <= Highest(pq[Strongest])
        /\ scan.seen[Strongest] >= scan.seen[k]
    BY <1>3, <1>4, <1>5, ScanComplete
  <1>7. Highest(pq[Strongest]) >= Lowest(pq[k])
    BY <1>6, SMTT(30)
  <1> QED BY <1>4, <1>5, <1>7

\* However channels turn hot and cold while the queue is scanned: a queued burst
\* that could still be decoded loses its slot to a push only if no burst that
\* stays was weaker throughout the scan and none of the others was lapped at the
\* counter the push read, and the worker passes it over only for one that was
\* not weaker throughout.
THEOREM ChoicesAreJustified == BqSpec => ChoiceJustified
  <1>1. BqIInv /\ [BqNext]_bqVars =>
          [ /\ Len(pq') = Len(pq) =>
                 \A b \in Queued \ Queued' :
                    \/ Doomed(b)
                    \/ /\ \A q \in Queued' : Highest(q) >= Lowest(b)
                       /\ \A q \in Queued \intersect Queued' : scan.head - q.start <= Span
            /\ Len(pq') < Len(pq) =>
                 \A q \in Queued' : Highest(work'.burst) >= Lowest(q) ]_bqVars
    BY EvictionStep, ExtractionStep
  <1> QED BY <1>1, BqInvariant, PTL DEF BqSpec, ChoiceJustified

-----------------------------------------------------------------------------
(* The hot-bin table.                                                      *)

-----------------------------------------------------------------------------
(* The inductive invariant.                                                *)

\* The clock stays below the width of expiry_ms: 49 days of uptime.
NoClockWrap == MaxTime + Ttl < ClockMod

HotTypeOK ==
    /\ e \in [Slots -> [bin : Nat, expiry_ms : Nat]]
    /\ clock \in 0 .. MaxTime
    /\ pub \in [at : {"idle"}] \cup
               [at : {"bin", "open"}, slot : Slots, bin : Bins, began : Nat, deadline : Nat]
    /\ sweep \in 0 .. Entries
    /\ lookup \in [at : {"idle"}] \cup
                  [at : {"expiry", "bin", "hit"}, bin : Bins, t : Nat, i : Slots]
    /\ since \in [Bins -> Nat \cup {None}]
    /\ last \in [Bins -> Nat \cup {None}]

\* Nothing is from the future, and an armed entry has a published bin.
TimesOK ==
    /\ \A b \in Bins : since[b] <= clock /\ last[b] <= clock
    /\ lookup.at # "idle" => lookup.t <= clock
    /\ \A i \in Slots : e[i].expiry_ms # 0 => e[i].bin \in Bins

\* The entry being published is closed until its bin is stored.
PubOK ==
    pub.at # "idle" =>
        /\ e[pub.slot].expiry_ms = 0
        /\ pub.began <= clock /\ pub.deadline = pub.began + Ttl
        /\ pub.at = "open" => e[pub.slot].bin = pub.bin

HotShape == HotTypeOK /\ TimesOK /\ PubOK

\* The clock of the look-up in progress.
SeenAt == IF lookup.at = "idle" THEN clock ELSE lookup.t

\* An entry that is, or is about to be, live to the reader was published as
\* late as its deadline says.
EntriesRecent ==
    /\ \A i \in Slots : SeenAt < e[i].expiry_ms =>
           last[e[i].bin] # None /\ e[i].expiry_ms <= last[e[i].bin] + Ttl
    /\ pub.at # "idle" /\ SeenAt < pub.began + Ttl => last[pub.bin] = pub.began

RecentFor(b) == b \in Bins /\ last[b] # None /\ lookup.t < last[b] + Ttl

\* Between its two loads of an entry, the reader meets only bins that are
\* recent to its clock: the one whose expiry it saw, or one published since.
ReaderOK ==
    /\ lookup.at = "bin" => RecentFor(e[lookup.i].bin)
    /\ lookup.at = "bin" /\ pub.at = "bin" /\ pub.slot = lookup.i => RecentFor(pub.bin)
    /\ HitIsRecent

\* The histories agree, and nothing is published while a publish is under way.
HistoryOK ==
    /\ \A b \in Bins : since[b] # None => last[b] = since[b]
    /\ pub.at # "idle" => \A b \in Bins : last[b] <= pub.began

\* The entry that the publish under way will open.
Arming(i) == pub.at # "idle" /\ pub.slot = i

BinOf(i) == IF Arming(i) THEN pub.bin ELSE e[i].bin

\* The entries armed in millisecond s or later.
FreshFor(s) == {i \in Slots : e[i].expiry_ms >= s + Ttl \/ (Arming(i) /\ pub.began >= s)}

\* f gives each fresh entry a bin of its own, published since s and within the
\* deadband: the one whose publish armed the entry first.  A publish of that
\* bin will find a fresh entry, because no older one comes before it.
Labels(s, f) ==
    /\ f \in [FreshFor(s) -> PublishedSince(s)]
    /\ \A i, j \in FreshFor(s) : f[i] = f[j] => i = j
    /\ \A i \in FreshFor(s) : Within(BinOf(i), f[i])
    /\ \A i \in FreshFor(s), j \in Slots \ FreshFor(s) :
          j < i /\ clock < e[j].expiry_ms => ~Within(e[j].bin, f[i])

\* The hypothesis of PublishedStaysHot for a bin published in millisecond s.
Fits(s) == Cardinality(PublishedSince(s)) <= Entries /\ Separate(PublishedSince(s))

CoveredSince(s) ==
    \A b \in Bins : since[b] = s => \E i \in FreshFor(s) : Within(BinOf(i), b)

\* There are at most as many fresh entries as bins published, so that none is
\* replaced while these fit the table; and none is moved off a bin it covers
\* while they are separate.
Accounted(s) == Fits(s) => (\E f : Labels(s, f)) /\ CoveredSince(s)

AllAccounted == \A s \in 0 .. clock : clock < s + Ttl => Accounted(s)

-----------------------------------------------------------------------------
(* The operators of the table.                                             *)

LEMMA HotConstants ==
  /\ Entries \in Nat \ {0} /\ Ttl \in Nat \ {0} /\ HotDeadband \in Nat /\ ClockMod \in Nat \ {0}
  /\ MaxTime \in Nat /\ Bins \subseteq Nat /\ IsFiniteSet(Bins) /\ Slots \subseteq Nat
  /\ 1 \in Slots /\ None \notin Nat
  BY HotAssumption, SMTT(30) DEF Slots, None

\* The numbers of a well-formed state.
LEMMA ShapeNumbers ==
  ASSUME HotShape
  PROVE  /\ clock \in Nat
         /\ \A i \in Slots : e[i].expiry_ms \in Nat
         /\ \A b \in Bins : last[b] \in Int /\ since[b] \in Int
  <1>1. /\ e \in [Slots -> [bin : Nat, expiry_ms : Nat]] /\ clock \in 0 .. MaxTime
        /\ since \in [Bins -> Nat \cup {None}] /\ last \in [Bins -> Nat \cup {None}]
    BY DEF HotShape, HotTypeOK
  <1>2. clock \in Nat
    BY <1>1, HotConstants, SMTT(30)
  <1>3. \A i \in Slots : e[i].expiry_ms \in Nat
    BY <1>1, SMTT(30)
  <1>4. \A b \in Bins : last[b] \in Int /\ since[b] \in Int
    BY <1>1, SMTT(30) DEF None
  <1> QED BY <1>2, <1>3, <1>4

LEMMA UseFacts ==
  ASSUME use \in Uses
  PROVE  use.bins \subseteq Bins /\ use.looked_up \subseteq Bins
  BY HotAssumption

\* Before the clock wraps, the 32 bits of it are all of it.
LEMMA NowMs ==
  ASSUME NoClockWrap, HotTypeOK
  PROVE  clock \in Nat /\ now_ms = clock /\ (now_ms + Ttl) % ClockMod = clock + Ttl
  <1>1. clock \in 0 .. ClockMod - 1 /\ clock + Ttl \in 0 .. ClockMod - 1
    BY HotConstants, SMTT(30) DEF NoClockWrap, HotTypeOK
  <1> QED BY <1>1, HotConstants, ModSmall, SMTT(30) DEF now_ms

\* The deadband is symmetric.
LEMMA WithinFacts ==
  ASSUME NEW a \in Nat, NEW b \in Nat
  PROVE  Within(a, a) /\ (Within(a, b) => Within(b, a))
  BY HotConstants, SMTT(30) DEF Within

LEMMA LiveFacts ==
  ASSUME NEW x \in [bin : Nat, expiry_ms : Nat], NEW t \in Nat
  PROVE  Live(x, t) <=> t < x.expiry_ms
  BY SMTT(30) DEF Live

LEMMA FirstMember ==
  ASSUME NEW S, S \subseteq Slots, S # {}
  PROVE  First(S) \in S /\ \A i \in S : First(S) <= i
  <1>1. \E i \in S : \A j \in S : i <= j
    BY HotConstants, LeastMember
  <1> QED BY <1>1 DEF First

LEMMA RefreshableFacts ==
  ASSUME NoClockWrap, HotTypeOK, NEW b \in Bins
  PROVE  \A i : i \in Refreshable(b) <=>
                i \in Slots /\ clock < e[i].expiry_ms /\ Within(e[i].bin, b)
  <1>1. now_ms = clock /\ clock \in Nat
    BY NowMs
  <1>2. \A i \in Slots : Live(e[i], clock) <=> clock < e[i].expiry_ms
    BY <1>1, LiveFacts DEF HotTypeOK
  <1> QED BY <1>1, <1>2 DEF Refreshable

\* publish arms the first entry of the same channel; without one, an entry that
\* is not live; without one of these either, the one that expires soonest.
LEMMA SlotForFacts ==
  ASSUME NoClockWrap, HotTypeOK, NEW b \in Bins
  PROVE  /\ SlotFor(b) \in Slots
         /\ \/ SlotFor(b) \in Refreshable(b) /\ \A j \in Refreshable(b) : SlotFor(b) <= j
            \/ Refreshable(b) = {} /\ ~(clock < e[SlotFor(b)].expiry_ms)
            \/ /\ Refreshable(b) = {}
               /\ \A j \in Slots : /\ clock < e[j].expiry_ms
                                   /\ e[SlotFor(b)].expiry_ms <= e[j].expiry_ms
  <1> DEFINE free == {i \in Slots : ~Live(e[i], now_ms)}
             soon == {i \in Slots : \A j \in Slots : e[i].expiry_ms <= e[j].expiry_ms}
  <1>1. now_ms = clock /\ clock \in Nat
    BY NowMs
  <1>2. \A i \in Slots : Live(e[i], clock) <=> clock < e[i].expiry_ms
    BY <1>1, LiveFacts DEF HotTypeOK
  <1>3. \A i : i \in free <=> i \in Slots /\ ~(clock < e[i].expiry_ms)
    BY <1>1, <1>2
  <1>4. SlotFor(b) = IF Refreshable(b) # {} THEN First(Refreshable(b))
                     ELSE IF free # {} THEN First(free) ELSE First(soon)
    BY DEF SlotFor
  <1>5. soon # {} /\ soon \subseteq Slots
    <2> DEFINE E == {e[i].expiry_ms : i \in Slots}
    <2>1. E \subseteq Nat /\ E # {}
      BY HotConstants, SMTT(30) DEF HotTypeOK
    <2> HIDE DEF E
    <2>2. PICK x \in E : \A y \in E : x <= y
      BY <2>1, LeastMember
    <2>3. PICK i \in Slots : x = e[i].expiry_ms
      BY <2>2 DEF E
    <2>4. \A j \in Slots : e[i].expiry_ms <= e[j].expiry_ms
      BY <2>2, <2>3 DEF E
    <2> QED BY <2>4
  <1>6. Refreshable(b) \subseteq Slots /\ free \subseteq Slots
    BY DEF Refreshable
  <1> HIDE DEF free, soon
  <1>7. CASE Refreshable(b) # {}
    BY <1>4, <1>6, <1>7, FirstMember
  <1>8. CASE Refreshable(b) = {} /\ free # {}
    <2>1. SlotFor(b) \in free
      BY <1>4, <1>6, <1>8, FirstMember
    <2> QED BY <1>3, <1>8, <2>1
  <1>9. CASE Refreshable(b) = {} /\ free = {}
    <2>1. SlotFor(b) \in soon
      BY <1>4, <1>5, <1>9, FirstMember
    <2>2. \A j \in Slots : clock < e[j].expiry_ms
      BY <1>3, <1>9
    <2>3. \A j \in Slots : e[SlotFor(b)].expiry_ms <= e[j].expiry_ms
      BY <2>1 DEF soon
    <2> QED BY <1>5, <1>9, <2>1, <2>2, <2>3
  <1> QED BY <1>7, <1>8, <1>9

\* One store into the table.
LEMMA StoreExpiry ==
  ASSUME HotTypeOK, NEW i \in Slots, NEW x \in Nat, e' = [e EXCEPT ![i].expiry_ms = x]
  PROVE  /\ e' \in [Slots -> [bin : Nat, expiry_ms : Nat]]
         /\ e'[i].expiry_ms = x /\ e'[i].bin = e[i].bin
         /\ \A j \in Slots : j # i => e'[j] = e[j]
         /\ \A j \in Slots : e'[j].bin = e[j].bin
  BY DEF HotTypeOK

LEMMA StoreBin ==
  ASSUME HotTypeOK, NEW i \in Slots, NEW x \in Nat, e' = [e EXCEPT ![i].bin = x]
  PROVE  /\ e' \in [Slots -> [bin : Nat, expiry_ms : Nat]]
         /\ e'[i].bin = x /\ e'[i].expiry_ms = e[i].expiry_ms
         /\ \A j \in Slots : j # i => e'[j] = e[j]
         /\ \A j \in Slots : e'[j].expiry_ms = e[j].expiry_ms
  BY SMTT(30) DEF HotTypeOK

-----------------------------------------------------------------------------
(* What the steps do.                                                      *)

\* arm()'s first store closes an entry.
LEMMA CloseEffect ==
  ASSUME NoClockWrap, HotShape, NEW b \in Bins, PublishClose(b)
  PROVE  /\ HotShape'
         /\ pub.at = "idle" /\ pub'.at = "bin" /\ pub'.bin = b /\ pub'.slot = SlotFor(b)
         /\ pub'.began = clock /\ UNCHANGED <<clock, lookup, sweep>>
         /\ e'[SlotFor(b)].expiry_ms = 0 /\ \A j \in Slots : e'[j].bin = e[j].bin
         /\ \A j \in Slots : j # SlotFor(b) => e'[j] = e[j]
         /\ last' = [last EXCEPT ![b] = clock] /\ since' = [since EXCEPT ![b] = clock]
  <1>1. HotTypeOK /\ TimesOK /\ clock \in Nat /\ clock + Ttl \in Nat
    BY NowMs, HotConstants, SMTT(30) DEF HotShape
  <1>2. PICK i : i = SlotFor(b)
    OBVIOUS
  <1>3. i \in Slots
    BY <1>1, <1>2, SlotForFacts
  <1>4. /\ pub.at = "idle" /\ e' = [e EXCEPT ![i].expiry_ms = 0]
        /\ pub' = [at |-> "bin", slot |-> i, bin |-> b, began |-> clock, deadline |-> clock + Ttl]
        /\ since' = [since EXCEPT ![b] = clock] /\ last' = [last EXCEPT ![b] = clock]
        /\ UNCHANGED <<clock, sweep, lookup>>
    BY <1>1, <1>2, NowMs DEF PublishClose
  <1>5. /\ e' \in [Slots -> [bin : Nat, expiry_ms : Nat]]
        /\ e'[i].expiry_ms = 0 /\ e'[i].bin = e[i].bin
        /\ \A j \in Slots : j # i => e'[j] = e[j]
        /\ \A j \in Slots : e'[j].bin = e[j].bin
    BY <1>1, <1>3, <1>4, StoreExpiry
  <1>6. HotTypeOK'
    BY <1>1, <1>3, <1>4, <1>5 DEF HotTypeOK
  <1>7. TimesOK'
    <2>1. \A c \in Bins : since'[c] <= clock' /\ last'[c] <= clock'
      BY <1>1, <1>4, SMTT(30) DEF TimesOK, HotTypeOK
    <2>2. \A j \in Slots : e'[j].expiry_ms # 0 => e'[j].bin \in Bins
      BY <1>1, <1>3, <1>5 DEF TimesOK
    <2> QED BY <1>1, <1>4, <2>1, <2>2 DEF TimesOK
  <1>8. PubOK'
    BY <1>1, <1>4, <1>5, SMTT(30) DEF PubOK
  <1> QED BY <1>2, <1>4, <1>5, <1>6, <1>7, <1>8 DEF HotShape

\* The second stores the bin, the third opens the entry.
LEMMA BinEffect ==
  ASSUME HotShape, PublishBin
  PROVE  /\ HotShape' /\ UNCHANGED <<clock, lookup, sweep, since, last>>
         /\ pub.at = "bin" /\ pub'.at = "open" /\ pub.slot \in Slots /\ pub.bin \in Bins
         /\ pub'.slot = pub.slot /\ pub'.bin = pub.bin /\ pub'.began = pub.began
         /\ e'[pub.slot].expiry_ms = 0 /\ e[pub.slot].expiry_ms = 0 /\ e'[pub.slot].bin = pub.bin
         /\ \A j \in Slots : j # pub.slot => e'[j] = e[j]
  <1>1. HotTypeOK /\ TimesOK /\ PubOK
    BY DEF HotShape
  <1>2. /\ pub.at = "bin" /\ e' = [e EXCEPT ![pub.slot].bin = pub.bin]
        /\ pub' = [pub EXCEPT !.at = "open"] /\ UNCHANGED <<clock, lookup, sweep, since, last>>
    BY DEF PublishBin
  <1>3. /\ pub.slot \in Slots /\ pub.bin \in Bins /\ pub.bin \in Nat /\ pub.began \in Nat
        /\ pub'.at = "open" /\ pub'.slot = pub.slot /\ pub'.bin = pub.bin
        /\ pub'.began = pub.began /\ pub'.deadline = pub.deadline
        /\ pub' \in [at : {"bin", "open"}, slot : Slots, bin : Bins, began : Nat, deadline : Nat]
    BY <1>1, <1>2, HotConstants DEF HotTypeOK
  <1>4. /\ e' \in [Slots -> [bin : Nat, expiry_ms : Nat]]
        /\ e'[pub.slot].bin = pub.bin /\ e'[pub.slot].expiry_ms = e[pub.slot].expiry_ms
        /\ \A j \in Slots : j # pub.slot => e'[j] = e[j]
    BY <1>1, <1>2, <1>3, StoreBin
  <1>5. e[pub.slot].expiry_ms = 0 /\ pub.began <= clock /\ pub.deadline = pub.began + Ttl
    BY <1>1, <1>2 DEF PubOK
  <1>6. HotTypeOK'
    BY <1>1, <1>2, <1>3, <1>4 DEF HotTypeOK
  <1>7. TimesOK'
    BY <1>1, <1>2, <1>3, <1>4, <1>5 DEF TimesOK
  <1>8. PubOK'
    BY <1>2, <1>3, <1>4, <1>5 DEF PubOK
  <1> QED BY <1>2, <1>3, <1>4, <1>5, <1>6, <1>7, <1>8 DEF HotShape

LEMMA OpenEffect ==
  ASSUME HotShape, PublishOpen
  PROVE  /\ HotShape' /\ UNCHANGED <<clock, lookup, sweep, since, last>>
         /\ pub.at = "open" /\ pub'.at = "idle" /\ pub.slot \in Slots /\ pub.bin \in Bins
         /\ pub.began \in Nat /\ pub.began <= clock
         /\ e'[pub.slot].expiry_ms = pub.began + Ttl /\ e'[pub.slot].bin = pub.bin
         /\ e[pub.slot].expiry_ms = 0 /\ \A j \in Slots : j # pub.slot => e'[j] = e[j]
  <1>1. HotTypeOK /\ TimesOK /\ PubOK
    BY DEF HotShape
  <1>2. /\ pub.at = "open" /\ e' = [e EXCEPT ![pub.slot].expiry_ms = pub.deadline]
        /\ pub' = [at |-> "idle"] /\ UNCHANGED <<clock, lookup, sweep, since, last>>
    BY DEF PublishOpen
  <1>3. pub.slot \in Slots /\ pub.bin \in Bins /\ pub.began \in Nat /\ pub.deadline \in Nat
    BY <1>1, <1>2 DEF HotTypeOK
  <1>4. /\ e' \in [Slots -> [bin : Nat, expiry_ms : Nat]]
        /\ e'[pub.slot].expiry_ms = pub.deadline /\ e'[pub.slot].bin = e[pub.slot].bin
        /\ \A j \in Slots : j # pub.slot => e'[j] = e[j]
    BY <1>1, <1>2, <1>3, StoreExpiry
  <1>5. /\ e[pub.slot].expiry_ms = 0 /\ pub.began <= clock /\ pub.deadline = pub.began + Ttl
        /\ e[pub.slot].bin = pub.bin
    BY <1>1, <1>2 DEF PubOK
  <1>6. HotTypeOK'
    BY <1>1, <1>2, <1>4 DEF HotTypeOK
  <1>7. TimesOK'
    BY <1>1, <1>2, <1>3, <1>4, <1>5 DEF TimesOK
  <1>8. PubOK'
    BY <1>2 DEF PubOK
  <1> QED BY <1>2, <1>3, <1>4, <1>5, <1>6, <1>7, <1>8 DEF HotShape

\* Entries are closed, and the channels they were for forgotten.
Closes ==
    /\ UNCHANGED <<clock, pub, lookup, last>>
    /\ \A j \in Slots : e'[j] = e[j] \/ (e'[j].bin = e[j].bin /\ e'[j].expiry_ms = 0)
    /\ \A b \in Bins : since'[b] \in {since[b], None}

LEMMA ClearEffect ==
  ASSUME NoClockWrap, HotShape, NEW b \in Bins, Clear(b)
  PROVE  /\ HotShape' /\ Closes /\ pub.at = "idle"
         /\ \A j \in Slots : e'[j] = e[j] \/ Within(e[j].bin, b)
         /\ \A c \in Bins : ~Apart(b, c) => since'[c] = None
  <1>1. HotTypeOK /\ TimesOK
    BY DEF HotShape
  <1>2. /\ UNCHANGED <<clock, pub, sweep, lookup, last>> /\ pub.at = "idle"
        /\ since' = [c \in Bins |-> IF Apart(b, c) THEN since[c] ELSE None]
    BY DEF Clear
  <1>3. /\ e' \in [Slots -> [bin : Nat, expiry_ms : Nat]]
        /\ \A j \in Slots : e'[j] = e[j] \/ (e'[j].bin = e[j].bin /\ e'[j].expiry_ms = 0)
        /\ \A j \in Slots : e'[j] = e[j] \/ Within(e[j].bin, b)
    <2>1. CASE Refreshable(b) = {}
      BY <1>1, <2>1 DEF Clear, HotTypeOK
    <2>2. CASE Refreshable(b) # {}
      <3>1. PICK i : i = First(Refreshable(b))
        OBVIOUS
      <3>2. i \in Slots /\ Within(e[i].bin, b)
        <4>1. Refreshable(b) \subseteq Slots
          BY DEF Refreshable
        <4>2. i \in Refreshable(b)
          BY <2>2, <3>1, <4>1, FirstMember
        <4> QED BY <1>1, <4>2, RefreshableFacts
      <3>3. e' = [e EXCEPT ![i].expiry_ms = 0]
        BY <2>2, <3>1 DEF Clear
      <3> QED BY <1>1, <3>2, <3>3, StoreExpiry
    <2> QED BY <2>1, <2>2
  <1>4. HotTypeOK'
    BY <1>1, <1>2, <1>3 DEF HotTypeOK
  <1>5. TimesOK'
    BY <1>1, <1>2, <1>3, SMTT(30) DEF TimesOK, HotTypeOK, None
  <1>6. PubOK'
    BY <1>2 DEF PubOK
  <1> QED BY <1>2, <1>3, <1>4, <1>5, <1>6 DEF HotShape, Closes

LEMMA SweepEffect ==
  ASSUME HotShape, ScannerStep
  PROVE  HotShape' /\ Closes /\ \A c \in Bins : since'[c] = None
  <1>1. HotTypeOK /\ TimesOK /\ PubOK
    BY DEF HotShape
  <1>2. /\ UNCHANGED <<clock, pub, lookup, last>> /\ since' = [c \in Bins |-> None]
        /\ sweep' \in 0 .. Entries
    <2>1. CASE ClearAllStart
      BY <2>1, HotConstants, SMTT(30) DEF ClearAllStart
    <2>2. CASE ClearAllStep
      <3> DEFINE c == sweep + 1
                 m == Entries + 1
      <3>1. c \in Nat /\ m \in Nat \ {0} /\ m - 1 = Entries
        BY <1>1, HotConstants, SMTT(30) DEF HotTypeOK
      <3>2. c % m \in 0 .. m - 1
        <4> HIDE DEF c, m
        <4> QED BY <3>1, DivMod
      <3>3. sweep' = c % m
        BY <2>2 DEF ClearAllStep, NextSwept
      <3>4. sweep' \in 0 .. Entries
        <4> HIDE DEF c, m
        <4> QED BY <3>1, <3>2, <3>3
      <3> QED BY <2>2, <3>4 DEF ClearAllStep
    <2> QED BY <2>1, <2>2 DEF ScannerStep
  <1>3. /\ e' \in [Slots -> [bin : Nat, expiry_ms : Nat]]
        /\ \A j \in Slots : e'[j] = e[j] \/ (e'[j].bin = e[j].bin /\ e'[j].expiry_ms = 0)
    <2>1. CASE ClearAllStart
      BY <1>1, <2>1 DEF ClearAllStart, HotTypeOK
    <2>2. CASE ClearAllStep
      BY <1>1, <2>2, StoreExpiry DEF ClearAllStep
    <2> QED BY <2>1, <2>2 DEF ScannerStep
  <1>4. HotTypeOK'
    BY <1>1, <1>2, <1>3 DEF HotTypeOK
  <1>5. TimesOK'
    BY <1>1, <1>2, <1>3, SMTT(30) DEF TimesOK, HotTypeOK, None
  <1>6. PubOK'
    <2>1. pub.at # "idle" => pub.slot \in Slots
      BY <1>1 DEF HotTypeOK
    <2> QED BY <1>1, <1>2, <1>3, <2>1 DEF PubOK
  <1> QED BY <1>2, <1>3, <1>4, <1>5, <1>6 DEF HotShape, Closes

\* A look-up reads the clock once, and then one entry after the other.
LEMMA ReaderEffect ==
  ASSUME NoClockWrap, HotShape, use \in Uses, ReaderStep
  PROVE  /\ HotShape' /\ UNCHANGED <<e, clock, pub, sweep, since, last>>
         /\ SeenAt' >= SeenAt
         /\ \/ lookup'.at \in {"idle", "expiry"}
            \/ /\ lookup.at = "expiry" /\ lookup'.at = "bin"
               /\ lookup'.t = lookup.t /\ lookup'.i = lookup.i
               /\ lookup.t < e[lookup.i].expiry_ms
            \/ /\ lookup.at = "bin" /\ lookup'.at = "hit"
               /\ lookup'.t = lookup.t /\ lookup'.bin = lookup.bin
               /\ Within(e[lookup.i].bin, lookup.bin)
  <1>1. HotTypeOK /\ TimesOK /\ clock \in Nat /\ now_ms = clock
    BY NowMs DEF HotShape
  <1>2. UNCHANGED <<e, clock, pub, sweep, since, last>>
    BY DEF ReaderStep, MatchStart, MatchExpiry, MatchBin, MatchDone
  <1> DEFINE Shape == /\ lookup' \in [at : {"idle"}] \cup
                            [at : {"expiry", "bin", "hit"}, bin : Bins, t : Nat, i : Slots]
                      /\ lookup'.at # "idle" => lookup'.t <= clock
                      /\ SeenAt' >= SeenAt
                      /\ \/ lookup'.at \in {"idle", "expiry"}
                         \/ /\ lookup.at = "expiry" /\ lookup'.at = "bin"
                            /\ lookup'.t = lookup.t /\ lookup'.i = lookup.i
                            /\ lookup.t < e[lookup.i].expiry_ms
                         \/ /\ lookup.at = "bin" /\ lookup'.at = "hit"
                            /\ lookup'.t = lookup.t /\ lookup'.bin = lookup.bin
                            /\ Within(e[lookup.i].bin, lookup.bin)
  <1>3. ASSUME NEW b \in Bins, MatchStart(b)
        PROVE  Shape
    <2>1. lookup.at = "idle" /\ lookup' = [at |-> "expiry", bin |-> b, t |-> clock, i |-> 1]
      BY <1>1, <1>3 DEF MatchStart
    <2> QED BY <1>1, <1>2, <2>1, HotConstants, SMTT(30) DEF SeenAt
  <1>4. ASSUME lookup.at # "idle", lookup' = NextEntry(lookup)
        PROVE  Shape
    <2>1. /\ lookup.bin \in Bins /\ lookup.t \in Nat /\ lookup.i \in 1 .. Entries
          /\ lookup.t <= clock
      BY <1>1, <1>4 DEF HotTypeOK, TimesOK, Slots
    <2>2. CASE lookup.i = Entries
      <3>1. lookup' = [at |-> "idle"]
        BY <1>4, <2>2 DEF NextEntry
      <3> QED BY <1>1, <1>2, <1>4, <2>1, <3>1, SMTT(30) DEF SeenAt
    <2>3. CASE lookup.i # Entries
      <3>1. lookup' = [at |-> "expiry", bin |-> lookup.bin, t |-> lookup.t, i |-> lookup.i + 1]
        BY <1>4, <2>3 DEF NextEntry
      <3>2. lookup.i + 1 \in Slots
        BY <2>1, <2>3, HotConstants, SMTT(30) DEF Slots
      <3> QED BY <1>1, <1>2, <1>4, <2>1, <3>1, <3>2, SMTT(30) DEF SeenAt
    <2> QED BY <2>2, <2>3
  <1>5. ASSUME MatchExpiry PROVE Shape
    <2>1. lookup.at = "expiry" /\ lookup.t \in Nat /\ lookup.i \in Slots /\ lookup.t <= clock
      BY <1>1, <1>5 DEF MatchExpiry, HotTypeOK, TimesOK
    <2>2. CASE Live(e[lookup.i], lookup.t)
      <3>1. lookup.t < e[lookup.i].expiry_ms
        BY <1>1, <2>1, <2>2, LiveFacts DEF HotTypeOK
      <3>2. lookup' = [lookup EXCEPT !.at = "bin"]
        BY <1>5, <2>2 DEF MatchExpiry
      <3>3. /\ lookup' \in [at : {"expiry", "bin", "hit"}, bin : Bins, t : Nat, i : Slots]
            /\ lookup'.at = "bin" /\ lookup'.t = lookup.t /\ lookup'.i = lookup.i
        BY <1>1, <2>1, <3>2 DEF HotTypeOK
      <3> QED BY <1>1, <1>2, <2>1, <3>1, <3>3, SMTT(30) DEF SeenAt
    <2>3. CASE ~Live(e[lookup.i], lookup.t)
      <3>1. lookup' = NextEntry(lookup)
        BY <1>5, <2>3 DEF MatchExpiry
      <3> QED BY <1>4, <2>1, <3>1
    <2> QED BY <2>2, <2>3
  <1>6. ASSUME MatchBin PROVE Shape
    <2>1. lookup.at = "bin" /\ lookup.t \in Nat /\ lookup.t <= clock
      BY <1>1, <1>6 DEF MatchBin, HotTypeOK, TimesOK
    <2>2. CASE Within(e[lookup.i].bin, lookup.bin)
      <3>1. lookup' = [lookup EXCEPT !.at = "hit"]
        BY <1>6, <2>2 DEF MatchBin
      <3>2. /\ lookup' \in [at : {"expiry", "bin", "hit"}, bin : Bins, t : Nat, i : Slots]
            /\ lookup'.at = "hit" /\ lookup'.t = lookup.t /\ lookup'.bin = lookup.bin
        BY <1>1, <2>1, <3>1 DEF HotTypeOK
      <3> QED BY <1>1, <1>2, <2>1, <2>2, <3>2, SMTT(30) DEF SeenAt
    <2>3. CASE ~Within(e[lookup.i].bin, lookup.bin)
      <3>1. lookup' = NextEntry(lookup)
        BY <1>6, <2>3 DEF MatchBin
      <3> QED BY <1>4, <2>1, <3>1
    <2> QED BY <2>2, <2>3
  <1>7. ASSUME MatchDone PROVE Shape
    <2>1. lookup.at = "hit" /\ lookup' = [at |-> "idle"]
      BY <1>7 DEF MatchDone
    <2>2. lookup.t <= clock /\ lookup.t \in Nat
      BY <1>1, <2>1 DEF HotTypeOK, TimesOK
    <2> QED BY <1>1, <1>2, <2>1, <2>2 DEF SeenAt
  <1>8. Shape
    BY <1>3, <1>5, <1>6, <1>7, UseFacts DEF ReaderStep
  <1>9. HotTypeOK' /\ TimesOK' /\ PubOK'
    BY <1>1, <1>2, <1>8 DEF HotTypeOK, TimesOK, PubOK, HotShape
  <1> QED BY <1>2, <1>8, <1>9 DEF HotShape

\* The histories forget only what is too old to matter.
LEMMA TimeEffect ==
  ASSUME HotShape, TimePasses
  PROVE  /\ HotShape' /\ UNCHANGED <<e, pub, sweep, lookup>>
         /\ clock \in Nat /\ clock' = clock + 1
         /\ \A b \in Bins : since'[b] # None => since'[b] = since[b] /\ clock < since[b] + Ttl
         /\ \A b \in Bins : \/ last'[b] = last[b]
                            \/ last'[b] = None /\ lookup.at = "idle" /\ clock >= last[b] + Ttl
  <1>1. HotTypeOK /\ TimesOK /\ PubOK
    BY DEF HotShape
  <1>2. /\ clock \in Nat /\ clock < MaxTime /\ clock' = clock + 1 /\ UNCHANGED <<e, pub, sweep, lookup>>
        /\ since' = [b \in Bins |-> Forget(since[b])]
        /\ last' = IF lookup.at = "idle" THEN [b \in Bins |-> Forget(last[b])] ELSE last
    BY <1>1, SMTT(30) DEF TimePasses, HotTypeOK
  <1>3. \A t \in Nat \cup {None} : /\ Forget(t) \in Nat \cup {None}
                                   /\ Forget(t) # None => Forget(t) = t /\ clock < t + Ttl
                                   /\ Forget(t) = t \/ (Forget(t) = None /\ clock >= t + Ttl)
                                   /\ t <= clock => Forget(t) <= clock
    BY <1>2, HotConstants, SMTT(30) DEF Forget, None
  <1>4. /\ last' \in [Bins -> Nat \cup {None}] /\ since' \in [Bins -> Nat \cup {None}]
        /\ \A b \in Bins : since'[b] <= clock' /\ last'[b] <= clock'
        /\ \A b \in Bins : since'[b] # None => since'[b] = since[b] /\ clock < since[b] + Ttl
        /\ \A b \in Bins : \/ last'[b] = last[b]
                           \/ last'[b] = None /\ lookup.at = "idle" /\ clock >= last[b] + Ttl
    <2>1. CASE lookup.at = "idle"
      BY <1>1, <1>2, <1>3, <2>1, SMTT(30) DEF HotTypeOK, TimesOK, None
    <2>2. CASE lookup.at # "idle"
      BY <1>1, <1>2, <1>3, <2>2, SMTT(30) DEF HotTypeOK, TimesOK, None
    <2> QED BY <2>1, <2>2
  <1>5. HotTypeOK'
    BY <1>1, <1>2, <1>4, HotConstants, SMTT(30) DEF HotTypeOK
  <1>6. TimesOK'
    <2>1. lookup.at # "idle" => lookup.t \in Nat
      BY <1>1 DEF HotTypeOK
    <2> QED BY <1>1, <1>2, <1>4, <2>1, SMTT(30) DEF TimesOK
  <1>7. PubOK'
    <2>1. pub.at # "idle" => pub.began \in Nat
      BY <1>1 DEF HotTypeOK
    <2> QED BY <1>1, <1>2, <2>1, SMTT(30) DEF PubOK
  <1> QED BY <1>2, <1>4, <1>5, <1>6, <1>7 DEF HotShape

LEMMA ShapeStep ==
  ASSUME NoClockWrap, HotShape, use \in Uses, [HotNext]_hotVars
  PROVE  HotShape' /\ use' \in Uses
  <1>0. use' = use
    BY DEF HotNext, hotVars
  <1>1. CASE UNCHANGED hotVars
    BY <1>0, <1>1 DEF hotVars, HotShape, HotTypeOK, TimesOK, PubOK
  <1>2. CASE DecoderStep
    BY <1>0, <1>2, UseFacts, CloseEffect, BinEffect, OpenEffect, ClearEffect DEF DecoderStep
  <1>3. CASE ReaderStep
    BY <1>0, <1>3, ReaderEffect
  <1>4. CASE ScannerStep
    BY <1>0, <1>4, SweepEffect
  <1>5. CASE TimePasses
    BY <1>0, <1>5, TimeEffect
  <1> QED BY <1>0, <1>1, <1>2, <1>3, <1>4, <1>5 DEF HotNext

-----------------------------------------------------------------------------
(* A hit is recent.                                                        *)

\* A later publish keeps what was recent recent.
LEMMA LaterIsRecent ==
  ASSUME HotShape, HotShape', lookup.at # "idle", lookup' = lookup,
         \A b \in Bins : last[b] # None => last'[b] # None /\ last'[b] >= last[b]
  PROVE  /\ \A b : RecentFor(b) => RecentFor(b)'
         /\ HitIsRecent => HitIsRecent'
  <1>1. /\ lookup.t \in Nat /\ Ttl \in Nat
        /\ \A b \in Bins : last[b] \in Int /\ last'[b] \in Int
    BY HotConstants, SMTT(30) DEF HotShape, HotTypeOK, None
  <1>2. \A b \in Bins : last[b] # None /\ lookup.t < last[b] + Ttl
                        => last'[b] # None /\ lookup'.t < last'[b] + Ttl
    BY <1>1, SMTT(30)
  <1> QED BY <1>2 DEF RecentFor, HitIsRecent

LEMMA RecentClose ==
  ASSUME NoClockWrap, HotShape, EntriesRecent, ReaderOK, NEW b \in Bins, PublishClose(b)
  PROVE  EntriesRecent' /\ ReaderOK'
  <1>1. PICK i : i = SlotFor(b)
    OBVIOUS
  <1>2. /\ HotShape' /\ pub'.at = "bin" /\ pub'.bin = b /\ pub'.slot = i
        /\ pub'.began = clock /\ UNCHANGED <<clock, lookup>>
        /\ e'[i].expiry_ms = 0 /\ \A j \in Slots : e'[j].bin = e[j].bin
        /\ \A j \in Slots : j # i => e'[j] = e[j]
        /\ last' = [last EXCEPT ![b] = clock]
    BY <1>1, CloseEffect
  <1>3. /\ Ttl \in Nat \ {0} /\ clock \in Nat /\ SeenAt \in Nat /\ SeenAt' = SeenAt
        /\ last'[b] = clock /\ clock # None
        /\ \A c \in Bins : last[c] # None => last'[c] # None /\ last'[c] >= last[c]
    BY <1>2, HotConstants, SMTT(30) DEF HotShape, HotTypeOK, TimesOK, SeenAt, None
  <1>4. EntriesRecent'
    <2>1. ASSUME NEW j \in Slots, SeenAt' < e'[j].expiry_ms
          PROVE  last'[e'[j].bin] # None /\ e'[j].expiry_ms <= last'[e'[j].bin] + Ttl
      <3>1. j # i /\ e'[j] = e[j] /\ e[j].bin \in Bins /\ e[j].expiry_ms \in Nat
        BY <1>2, <1>3, <2>1, SMTT(30) DEF HotShape, HotTypeOK, TimesOK
      <3>2. last[e[j].bin] # None /\ e[j].expiry_ms <= last[e[j].bin] + Ttl
        BY <1>3, <2>1, <3>1 DEF EntriesRecent
      <3>3. last[e[j].bin] \in Int /\ last'[e[j].bin] \in Int
        BY <1>2, <3>1, SMTT(30) DEF HotShape, HotTypeOK, None
      <3> QED BY <1>3, <3>1, <3>2, <3>3, SMTT(30)
    <2> QED BY <1>2, <1>3, <2>1 DEF EntriesRecent
  <1>5. ReaderOK'
    <2>1. CASE lookup.at = "idle"
      BY <1>2, <2>1 DEF ReaderOK, HitIsRecent
    <2>2. CASE lookup.at # "idle"
      <3>1. (\A c : RecentFor(c) => RecentFor(c)') /\ HitIsRecent'
        BY <1>2, <1>3, <2>2, LaterIsRecent DEF ReaderOK
      <3>2. last'[b] # None /\ lookup'.t < last'[b] + Ttl
        BY <1>2, <1>3, <2>2, SMTT(30) DEF HotShape, HotTypeOK, TimesOK
      <3>3. lookup'.at = "bin" => RecentFor(e[lookup.i].bin)'
        <4>1. lookup.i \in Slots
          BY <2>2 DEF HotShape, HotTypeOK
        <4>2. lookup.at = "bin" => RecentFor(e[lookup.i].bin)
          BY DEF ReaderOK
        <4>3. e'[lookup'.i].bin = e[lookup.i].bin
          BY <1>2, <4>1
        <4> QED BY <1>2, <3>1, <4>2, <4>3 DEF RecentFor
      <3>4. RecentFor(pub.bin)'
        BY <1>2, <3>2 DEF RecentFor
      <3> QED BY <3>1, <3>3, <3>4 DEF ReaderOK
    <2> QED BY <2>1, <2>2
  <1> QED BY <1>4, <1>5

LEMMA RecentBin ==
  ASSUME HotShape, EntriesRecent, ReaderOK, PublishBin
  PROVE  EntriesRecent' /\ ReaderOK'
  <1>1. /\ UNCHANGED <<clock, lookup, last>>
        /\ pub.at = "bin" /\ pub'.at = "open" /\ pub.slot \in Slots /\ pub.bin \in Bins
        /\ pub'.bin = pub.bin /\ pub'.began = pub.began
        /\ e'[pub.slot].expiry_ms = 0 /\ e'[pub.slot].bin = pub.bin
        /\ \A j \in Slots : j # pub.slot => e'[j] = e[j]
    BY BinEffect
  <1>2. SeenAt' = SeenAt /\ SeenAt \in Nat
    BY <1>1, SMTT(30) DEF SeenAt, HotShape, HotTypeOK
  <1>3. EntriesRecent'
    BY <1>1, <1>2, SMTT(30) DEF EntriesRecent
  <1>4. ReaderOK'
    <2>1. lookup.at = "bin" => lookup.i \in Slots
      BY DEF HotShape, HotTypeOK
    <2>2. HitIsRecent'
      BY <1>1 DEF ReaderOK, HitIsRecent
    <2>3. \A c : RecentFor(c)' <=> RecentFor(c)
      BY <1>1 DEF RecentFor
    <2>4. lookup'.at = "bin" => RecentFor(e[lookup.i].bin)'
      BY <1>1, <2>1, <2>3 DEF ReaderOK, RecentFor
    <2> QED BY <1>1, <2>2, <2>4 DEF ReaderOK
  <1> QED BY <1>3, <1>4

LEMMA RecentOpen ==
  ASSUME HotShape, EntriesRecent, ReaderOK, PublishOpen
  PROVE  EntriesRecent' /\ ReaderOK'
  <1>1. /\ UNCHANGED <<clock, lookup, last>>
        /\ pub.at = "open" /\ pub'.at = "idle" /\ pub.slot \in Slots /\ pub.bin \in Bins
        /\ pub.began \in Nat /\ e'[pub.slot].expiry_ms = pub.began + Ttl
        /\ e'[pub.slot].bin = pub.bin
        /\ \A j \in Slots : j # pub.slot => e'[j] = e[j]
    BY OpenEffect
  <1>2. SeenAt' = SeenAt /\ SeenAt \in Nat /\ Ttl \in Nat /\ pub.began # None
    BY <1>1, HotConstants, SMTT(30) DEF SeenAt, HotShape, HotTypeOK
  <1>3. EntriesRecent'
    <2>1. ASSUME NEW j \in Slots, SeenAt' < e'[j].expiry_ms
          PROVE  last'[e'[j].bin] # None /\ e'[j].expiry_ms <= last'[e'[j].bin] + Ttl
      <3>1. CASE j = pub.slot
        <4>1. last[pub.bin] = pub.began
          BY <1>1, <1>2, <2>1, <3>1 DEF EntriesRecent
        <4> QED BY <1>1, <1>2, <3>1, <4>1, SMTT(30)
      <3>2. CASE j # pub.slot
        BY <1>1, <1>2, <2>1, <3>2 DEF EntriesRecent
      <3> QED BY <3>1, <3>2
    <2> QED BY <1>1, <2>1 DEF EntriesRecent
  <1>4. ReaderOK'
    <2>1. lookup.at = "bin" => lookup.i \in Slots
      BY DEF HotShape, HotTypeOK
    <2>2. HitIsRecent'
      BY <1>1 DEF ReaderOK, HitIsRecent
    <2>3. \A j \in Slots : e'[j].bin = e[j].bin
      BY <1>1 DEF HotShape, PubOK
    <2>4. lookup'.at = "bin" => RecentFor(e[lookup.i].bin)'
      BY <1>1, <2>1, <2>3 DEF ReaderOK, RecentFor
    <2> QED BY <1>1, <2>2, <2>4 DEF ReaderOK
  <1> QED BY <1>3, <1>4

LEMMA RecentClosed ==
  ASSUME HotShape, HotShape', EntriesRecent, ReaderOK, Closes
  PROVE  EntriesRecent' /\ ReaderOK'
  <1>1. /\ UNCHANGED <<clock, pub, lookup, last>>
        /\ \A j \in Slots : e'[j] = e[j] \/ (e'[j].bin = e[j].bin /\ e'[j].expiry_ms = 0)
    BY DEF Closes
  <1>2. SeenAt' = SeenAt /\ SeenAt \in Nat
    BY <1>1, SMTT(30) DEF SeenAt, HotShape, HotTypeOK
  <1>3. EntriesRecent'
    BY <1>1, <1>2, SMTT(30) DEF EntriesRecent
  <1>4. ReaderOK'
    <2>1. lookup.at = "bin" => lookup.i \in Slots
      BY DEF HotShape, HotTypeOK
    <2>2. HitIsRecent'
      BY <1>1 DEF ReaderOK, HitIsRecent
    <2>3. lookup'.at = "bin" => RecentFor(e[lookup.i].bin)'
      BY <1>1, <2>1 DEF ReaderOK, RecentFor
    <2>4. lookup'.at = "bin" /\ pub'.at = "bin" /\ pub'.slot = lookup'.i => RecentFor(pub.bin)'
      BY <1>1 DEF ReaderOK, RecentFor
    <2> QED BY <2>2, <2>3, <2>4 DEF ReaderOK
  <1> QED BY <1>3, <1>4

LEMMA RecentRead ==
  ASSUME NoClockWrap, HotShape, use \in Uses, EntriesRecent, ReaderOK, ReaderStep
  PROVE  EntriesRecent' /\ ReaderOK'
  <1>1. /\ HotShape' /\ UNCHANGED <<e, clock, pub, last>> /\ SeenAt' >= SeenAt
        /\ \/ lookup'.at \in {"idle", "expiry"}
           \/ /\ lookup.at = "expiry" /\ lookup'.at = "bin"
              /\ lookup'.t = lookup.t /\ lookup'.i = lookup.i
              /\ lookup.t < e[lookup.i].expiry_ms
           \/ /\ lookup.at = "bin" /\ lookup'.at = "hit"
              /\ lookup'.t = lookup.t /\ lookup'.bin = lookup.bin
              /\ Within(e[lookup.i].bin, lookup.bin)
    BY ReaderEffect
  <1>2. SeenAt' \in Nat /\ SeenAt \in Nat /\ Ttl \in Nat
    BY <1>1, HotConstants, SMTT(30) DEF SeenAt, HotShape, HotTypeOK
  <1>3. EntriesRecent'
    <2>1. \A j \in Slots : e[j].expiry_ms \in Nat
      BY DEF HotShape, HotTypeOK
    <2>2. pub.at # "idle" => pub.began \in Nat
      BY DEF HotShape, HotTypeOK
    <2> QED BY <1>1, <1>2, <2>1, <2>2, SMTT(30) DEF EntriesRecent
  <1>4. ReaderOK'
    <2>1. CASE lookup'.at \in {"idle", "expiry"}
      BY <2>1 DEF ReaderOK, HitIsRecent
    <2>2. CASE /\ lookup.at = "expiry" /\ lookup'.at = "bin"
               /\ lookup'.t = lookup.t /\ lookup'.i = lookup.i
               /\ lookup.t < e[lookup.i].expiry_ms
      <3>1. lookup.i \in Slots /\ lookup.t \in Nat /\ SeenAt = lookup.t
        BY <2>2 DEF HotShape, HotTypeOK, SeenAt
      <3>2. e[lookup.i].bin \in Bins /\ e[lookup.i].expiry_ms \in Nat
        BY <2>2, <3>1, SMTT(30) DEF HotShape, HotTypeOK, TimesOK
      <3>3. /\ last[e[lookup.i].bin] # None
            /\ e[lookup.i].expiry_ms <= last[e[lookup.i].bin] + Ttl
            /\ last[e[lookup.i].bin] \in Int
        BY <2>2, <3>1, <3>2, SMTT(30) DEF EntriesRecent, HotShape, HotTypeOK, None
      <3>4. RecentFor(e[lookup.i].bin)'
        BY <1>1, <1>2, <2>2, <3>1, <3>2, <3>3, SMTT(30) DEF RecentFor
      <3>5. ~(pub.at = "bin" /\ pub.slot = lookup.i)
        BY <2>2, <3>1, SMTT(30) DEF HotShape, PubOK
      <3> QED BY <1>1, <2>2, <3>4, <3>5 DEF ReaderOK, HitIsRecent
    <2>3. CASE /\ lookup.at = "bin" /\ lookup'.at = "hit"
               /\ lookup'.t = lookup.t /\ lookup'.bin = lookup.bin
               /\ Within(e[lookup.i].bin, lookup.bin)
      <3>1. RecentFor(e[lookup.i].bin)
        BY <2>3 DEF ReaderOK
      <3>2. HitIsRecent'
        BY <1>1, <2>3, <3>1 DEF RecentFor, HitIsRecent
      <3> QED BY <2>3, <3>2 DEF ReaderOK
    <2> QED BY <1>1, <2>1, <2>2, <2>3
  <1> QED BY <1>3, <1>4

LEMMA RecentTime ==
  ASSUME HotShape, EntriesRecent, ReaderOK, TimePasses
  PROVE  EntriesRecent' /\ ReaderOK'
  <1>1. /\ HotShape' /\ UNCHANGED <<e, pub, lookup>> /\ clock \in Nat /\ clock' = clock + 1
        /\ \A b \in Bins : last'[b] = last[b] \/ (lookup.at = "idle" /\ clock >= last[b] + Ttl)
    BY TimeEffect
  <1>2. /\ SeenAt' \in Nat /\ SeenAt \in Nat /\ Ttl \in Nat /\ SeenAt <= SeenAt'
        /\ lookup.at = "idle" => SeenAt' = clock + 1
    BY <1>1, HotConstants, SMTT(30) DEF SeenAt, HotShape, HotTypeOK
  <1>3. \A b \in Bins : last[b] \in Int /\ last'[b] \in Int
    BY <1>1, SMTT(30) DEF HotShape, HotTypeOK, None
  <1>4. EntriesRecent'
    <2>1. ASSUME NEW j \in Slots, SeenAt' < e'[j].expiry_ms
          PROVE  last'[e'[j].bin] # None /\ e'[j].expiry_ms <= last'[e'[j].bin] + Ttl
      <3>1. e'[j] = e[j] /\ e[j].expiry_ms \in Nat /\ e[j].bin \in Bins
        BY <1>1, <1>2, <2>1, SMTT(30) DEF HotShape, HotTypeOK, TimesOK
      <3>2. last[e[j].bin] # None /\ e[j].expiry_ms <= last[e[j].bin] + Ttl
        BY <1>2, <2>1, <3>1, SMTT(30) DEF EntriesRecent
      <3>3. last'[e[j].bin] = last[e[j].bin]
        BY <1>1, <1>2, <1>3, <2>1, <3>1, <3>2, SMTT(30)
      <3> QED BY <3>1, <3>2, <3>3
    <2>2. ASSUME pub'.at # "idle", SeenAt' < pub'.began + Ttl
          PROVE  last'[pub'.bin] = pub'.began
      <3>1. pub' = pub /\ pub.bin \in Bins /\ pub.began \in Nat
        BY <1>1, <2>2 DEF HotShape, HotTypeOK
      <3>2. last[pub.bin] = pub.began
        BY <1>2, <2>2, <3>1, SMTT(30) DEF EntriesRecent
      <3>3. last'[pub.bin] = last[pub.bin]
        BY <1>1, <1>2, <1>3, <2>2, <3>1, <3>2, SMTT(30)
      <3> QED BY <3>1, <3>2, <3>3
    <2> QED BY <2>1, <2>2 DEF EntriesRecent
  <1>5. ReaderOK'
    <2>1. CASE lookup.at = "idle"
      BY <1>1, <2>1 DEF ReaderOK, HitIsRecent
    <2>2. CASE lookup.at # "idle"
      <3>1. \A b \in Bins : last'[b] = last[b]
        BY <1>1, <2>2
      <3>2. \A b : RecentFor(b) => RecentFor(b)'
        BY <1>1, <3>1 DEF RecentFor
      <3>3. HitIsRecent'
        BY <1>1, <3>1 DEF ReaderOK, HitIsRecent
      <3>4. lookup'.at = "bin" => RecentFor(e[lookup.i].bin)'
        BY <1>1, <3>1 DEF ReaderOK, RecentFor
      <3>5. lookup'.at = "bin" /\ pub'.at = "bin" /\ pub'.slot = lookup'.i => RecentFor(pub.bin)'
        BY <1>1, <3>1 DEF ReaderOK, RecentFor
      <3> QED BY <3>3, <3>4, <3>5 DEF ReaderOK
    <2> QED BY <2>1, <2>2
  <1> QED BY <1>4, <1>5

LEMMA RecentStep ==
  ASSUME NoClockWrap, HotShape, use \in Uses, EntriesRecent, ReaderOK, [HotNext]_hotVars
  PROVE  EntriesRecent' /\ ReaderOK'
  <1>1. CASE UNCHANGED hotVars
    BY <1>1 DEF hotVars, EntriesRecent, SeenAt, ReaderOK, RecentFor, HitIsRecent
  <1>2. CASE DecoderStep
    <2>1. ASSUME NEW b \in Bins, Clear(b)
          PROVE  EntriesRecent' /\ ReaderOK'
      BY <2>1, ClearEffect, RecentClosed
    <2> QED BY <1>2, <2>1, UseFacts, RecentClose, RecentBin, RecentOpen DEF DecoderStep
  <1>3. CASE ReaderStep
    BY <1>3, RecentRead
  <1>4. CASE ScannerStep
    BY <1>4, SweepEffect, RecentClosed
  <1>5. CASE TimePasses
    BY <1>5, RecentTime
  <1> QED BY <1>1, <1>2, <1>3, <1>4, <1>5 DEF HotNext

LEMMA HotStart ==
  ASSUME HotInit
  PROVE  HotShape /\ use \in Uses /\ EntriesRecent /\ ReaderOK /\ HistoryOK
  <1>1. HotTypeOK
    BY HotConstants, SMTT(30) DEF HotInit, HotTypeOK
  <1>2. TimesOK /\ PubOK /\ ReaderOK /\ HistoryOK
    BY HotConstants, SMTT(30) DEF HotInit, TimesOK, PubOK, ReaderOK, HitIsRecent, HistoryOK, None
  <1>3. EntriesRecent
    BY HotConstants, SMTT(30) DEF HotInit, EntriesRecent, SeenAt
  <1> QED BY <1>1, <1>2, <1>3 DEF HotShape, HotInit

\* Until the millisecond clock outgrows its 32 bits, a look-up answers yes only
\* for a channel that was, or is being, published less than Ttl before its
\* reading of the clock, whatever publishes and clears run between its loads
\* of an entry's expiry and of its bin (hot_bin_table_match).
THEOREM HitsAreRecent ==
  ASSUME NoClockWrap
  PROVE  HotSpec => []HitIsRecent
  <1>1. HotInit => HotShape /\ use \in Uses /\ EntriesRecent /\ ReaderOK
    BY HotStart
  <1>2. HotShape /\ use \in Uses /\ EntriesRecent /\ ReaderOK /\ [HotNext]_hotVars
        => (HotShape /\ use \in Uses /\ EntriesRecent /\ ReaderOK)'
    BY ShapeStep, RecentStep
  <1>3. ReaderOK => HitIsRecent
    BY DEF ReaderOK
  <1> QED BY <1>1, <1>2, <1>3, PTL DEF HotSpec

-----------------------------------------------------------------------------
(* A published channel stays hot.                                          *)

LEMMA HistoryStep ==
  ASSUME NoClockWrap, HotShape, use \in Uses, HistoryOK, [HotNext]_hotVars
  PROVE  HistoryOK'
  <1>1. CASE UNCHANGED hotVars
    BY <1>1 DEF hotVars, HistoryOK
  <1>2. ASSUME NEW b \in Bins, PublishClose(b)
        PROVE  HistoryOK'
    <2>1. /\ last' = [last EXCEPT ![b] = clock] /\ since' = [since EXCEPT ![b] = clock]
          /\ pub'.began = clock
      BY <1>2, CloseEffect
    <2>2. clock \in Nat /\ \A c \in Bins : last[c] <= clock
      BY SMTT(30) DEF HotShape, HotTypeOK, TimesOK
    <2>3. \A c \in Bins : since'[c] # None => last'[c] = since'[c]
      BY <2>1 DEF HistoryOK, HotShape, HotTypeOK
    <2>4. \A c \in Bins : last'[c] <= pub'.began
      BY <2>1, <2>2, SMTT(30) DEF HotShape, HotTypeOK
    <2> QED BY <2>3, <2>4 DEF HistoryOK
  <1>3. ASSUME Closes
        PROVE  HistoryOK'
    BY <1>3 DEF HistoryOK, Closes
  <1>4. CASE DecoderStep
    <2>1. CASE PublishBin
      BY <2>1, BinEffect DEF HistoryOK
    <2>2. CASE PublishOpen
      BY <2>2, OpenEffect DEF HistoryOK
    <2> QED BY <1>2, <1>3, <1>4, <2>1, <2>2, UseFacts, ClearEffect DEF DecoderStep
  <1>5. CASE ReaderStep
    BY <1>5, ReaderEffect DEF HistoryOK
  <1>6. CASE ScannerStep
    BY <1>3, <1>6, SweepEffect
  <1>7. CASE TimePasses
    <2>1. /\ pub' = pub /\ clock \in Nat
          /\ \A b \in Bins : since'[b] # None => since'[b] = since[b] /\ clock < since[b] + Ttl
          /\ \A b \in Bins : last'[b] = last[b] \/ (last'[b] = None /\ clock >= last[b] + Ttl)
      BY <1>7, TimeEffect
    <2>2. \A b \in Bins : since'[b] # None => last'[b] = since'[b]
      <3>1. \A b \in Bins : last[b] \in Int /\ Ttl \in Int
        BY HotConstants, SMTT(30) DEF HotShape, HotTypeOK, None
      <3> QED BY <2>1, <3>1, SMTT(30) DEF HistoryOK
    <2>3. pub.at # "idle" => \A b \in Bins : last'[b] <= pub.began
      <3>1. pub.at # "idle" => pub.began \in Nat
        BY DEF HotShape, HotTypeOK
      <3> QED BY <2>1, <3>1, SMTT(30) DEF HistoryOK, None
    <2> QED BY <2>1, <2>2, <2>3 DEF HistoryOK
  <1> QED BY <1>1, <1>4, <1>5, <1>6, <1>7 DEF HotNext

\* Separate bins fall into channels, and a bin that an entry of b matches too
\* is not apart from b.
LEMMA OneChannel ==
  ASSUME NEW S, S \subseteq Nat, Separate(S), NEW a \in S, NEW b \in S, NEW c \in S,
         Within(a, b), Within(b, c)
  PROVE  Within(a, c)
  <1>1. a \in Nat /\ b \in Nat /\ c \in Nat /\ (Within(a, c) \/ Apart(a, c))
    BY DEF Separate
  <1> QED BY <1>1, HotConstants, SMTT(30) DEF Within, Apart

LEMMA BothMatch ==
  ASSUME NEW a \in Nat, NEW b \in Nat, NEW c \in Nat, Within(a, b), Within(a, c)
  PROVE  ~Apart(b, c)
  BY HotConstants, SMTT(30) DEF Within, Apart

\* A fresh entry is live, and its bin was published since.
LEMMA FreshFacts ==
  ASSUME HotShape, EntriesRecent, NEW s \in Nat, clock < s + Ttl
  PROVE  \A i \in Slots : e[i].expiry_ms >= s + Ttl =>
             clock < e[i].expiry_ms /\ e[i].bin \in PublishedSince(s)
  <1> SUFFICES ASSUME NEW i \in Slots, e[i].expiry_ms >= s + Ttl
               PROVE  clock < e[i].expiry_ms /\ e[i].bin \in PublishedSince(s)
    OBVIOUS
  <1>1. clock \in Nat /\ Ttl \in Nat /\ e[i].expiry_ms \in Nat
    BY HotConstants, ShapeNumbers
  <1>2. SeenAt \in Nat /\ SeenAt <= clock
    BY <1>1 , SMTT(30) DEF SeenAt, HotShape, HotTypeOK, TimesOK
  <1>3. clock < e[i].expiry_ms /\ SeenAt < e[i].expiry_ms /\ e[i].expiry_ms # 0
    BY <1>1, <1>2, SMTT(30)
  <1>4. e[i].bin \in Bins /\ e[i].expiry_ms <= last[e[i].bin] + Ttl
    BY <1>3 DEF EntriesRecent, HotShape, TimesOK
  <1>5. last[e[i].bin] \in Int
    BY <1>4, ShapeNumbers
  <1>6. last[e[i].bin] >= s
    BY <1>1, <1>4, <1>5, SMTT(30)
  <1> QED BY <1>3, <1>4, <1>6 DEF PublishedSince

\* With every entry labelled, and one bin more, the bins outnumber the entries.
LEMMA TooMany ==
  ASSUME NEW S, S \subseteq Bins, NEW f \in [Slots -> S], NEW b \in S,
         \A i, j \in Slots : f[i] = f[j] => i = j, \A i \in Slots : f[i] # b
  PROVE  ~(Cardinality(S) <= Entries)
  <1> DEFINE T == S \ {b}
  <1>1. IsFiniteSet(S)
    BY HotConstants, FS_Subset
  <1>2. f \in Injection(Slots, T)
    BY DEF Injection, IsInjective
  <1>3. IsFiniteSet(T) /\ Cardinality(T) = Cardinality(S) - 1 /\ Cardinality(S) \in Nat
    BY <1>1, FS_RemoveElement, FS_CardinalityType
  <1>4. Cardinality(Slots) = Entries
    BY FS_Interval, HotConstants, SMTT(30) DEF Slots
  <1>5. Cardinality(Slots) <= Cardinality(T)
    <2> HIDE DEF T
    <2> QED BY <1>2, <1>3, FS_Injection
  <1> QED BY <1>3, <1>4, <1>5, HotConstants, SMTT(30)

\* A step that arms no entry keeps the labels of those that stay fresh.
LEMMA LabelsKept ==
  ASSUME NEW s, NEW f, Labels(s, f),
         \A b \in PublishedSince(s) : b \in PublishedSince(s)',
         \A i \in FreshFor(s)' : i \in FreshFor(s) /\ BinOf(i)' = BinOf(i),
         \A j \in Slots : j \notin FreshFor(s)' /\ clock' < e'[j].expiry_ms =>
             j \notin FreshFor(s) /\ clock < e[j].expiry_ms /\ e'[j].bin = e[j].bin
  PROVE  (\E g : Labels(s, g))'
  <1>0. PICK g : g = [i \in FreshFor(s)' |-> f[i]]
    OBVIOUS
  <1>1. g \in [FreshFor(s)' -> PublishedSince(s)']
    BY <1>0 DEF Labels
  <1>2. \A i, j \in FreshFor(s)' : g[i] = g[j] => i = j
    BY <1>0 DEF Labels
  <1>3. \A i \in FreshFor(s)' : Within(BinOf(i)', g[i])
    BY <1>0 DEF Labels
  <1>4. \A i \in FreshFor(s)', j \in Slots \ FreshFor(s)' :
          j < i /\ clock' < e'[j].expiry_ms => ~Within(e'[j].bin, g[i])
    BY <1>0 DEF Labels
  <1>5. Labels(s, g)'
    BY <1>1, <1>2, <1>3, <1>4 DEF Labels
  <1> QED BY <1>5

LEMMA NothingToLabel ==
  ASSUME NEW s, FreshFor(s)' = {}
  PROVE  (\E g : Labels(s, g))'
  <1> DEFINE g == [i \in {} |-> i]
  <1>1. g \in [FreshFor(s)' -> PublishedSince(s)']
    OBVIOUS
  <1> HIDE DEF g
  <1>2. Labels(s, g)'
    BY <1>1 DEF Labels
  <1> QED BY <1>2

LEMMA AccountKept ==
  ASSUME NEW s, Accounted(s), PublishedSince(s)' = PublishedSince(s),
         \A i \in FreshFor(s)' : i \in FreshFor(s) /\ BinOf(i)' = BinOf(i),
         \A j \in Slots : j \notin FreshFor(s)' /\ clock' < e'[j].expiry_ms =>
             j \notin FreshFor(s) /\ clock < e[j].expiry_ms /\ e'[j].bin = e[j].bin,
         \A b \in Bins : since'[b] = s =>
             since[b] = s /\ \A i \in FreshFor(s) : Within(BinOf(i), b) => i \in FreshFor(s)'
  PROVE  Accounted(s)'
  <1> SUFFICES ASSUME Fits(s)'
               PROVE  (\E g : Labels(s, g))' /\ CoveredSince(s)'
    BY DEF Accounted
  <1>1. (\E f : Labels(s, f)) /\ CoveredSince(s)
    BY DEF Accounted, Fits, Separate
  <1>2. (\E g : Labels(s, g))'
    BY <1>1, LabelsKept
  <1>3. CoveredSince(s)'
    BY <1>1 DEF CoveredSince
  <1> QED BY <1>2, <1>3

\* The labels after publish chose its entry: a fresh one keeps its own, another
\* one gets the bin published.
LEMMA AccountClose ==
  ASSUME NoClockWrap, HotShape, EntriesRecent, HistoryOK, NEW b \in Bins, PublishClose(b),
         NEW s \in 0 .. clock, clock < s + Ttl, Accounted(s)
  PROVE  Accounted(s)'
  <1> SUFFICES ASSUME Fits(s)'
               PROVE  (\E g : Labels(s, g))' /\ CoveredSince(s)'
    BY DEF Accounted
  <1>1. PICK i : i = SlotFor(b)
    OBVIOUS
  <1>2. /\ pub.at = "idle" /\ pub'.at = "bin" /\ pub'.bin = b /\ pub'.slot = i
        /\ pub'.began = clock /\ clock' = clock
        /\ e'[i].expiry_ms = 0 /\ \A j \in Slots : j # i => e'[j] = e[j]
        /\ last' = [last EXCEPT ![b] = clock] /\ since' = [since EXCEPT ![b] = clock]
    BY <1>1, CloseEffect
  <1>3. /\ clock \in Nat /\ Ttl \in Nat \ {0} /\ s \in Nat /\ s <= clock
        /\ Bins \subseteq Nat /\ Slots \subseteq Nat
        /\ \A j \in Slots : e[j].expiry_ms \in Nat
    <2>1. clock \in Nat
      BY ShapeNumbers
    <2>2. s \in Nat /\ s <= clock
      BY <2>1, SMTT(30)
    <2> QED BY <2>1, <2>2, HotConstants, ShapeNumbers
  <1>4. i \in Slots /\ \/ i \in Refreshable(b) /\ \A j \in Refreshable(b) : i <= j
                       \/ Refreshable(b) = {} /\ ~(clock < e[i].expiry_ms)
                       \/ /\ Refreshable(b) = {}
                          /\ \A j \in Slots : /\ clock < e[j].expiry_ms
                                              /\ e[i].expiry_ms <= e[j].expiry_ms
    BY <1>1, SlotForFacts DEF HotShape
  <1>5. \A j : j \in Refreshable(b) <=> j \in Slots /\ clock < e[j].expiry_ms /\ Within(e[j].bin, b)
    BY RefreshableFacts DEF HotShape
  <1>6. PICK W, V : W = PublishedSince(s) /\ V = PublishedSince(s)'
    OBVIOUS
  <1>7. W \subseteq V /\ b \in V /\ V \subseteq Bins /\ V \subseteq Nat
    <2>1. \A c \in Bins : c # b => last'[c] = last[c]
      BY <1>2 DEF HotShape, HotTypeOK
    <2>2. last'[b] >= s
      BY <1>2, <1>3, SMTT(30) DEF HotShape, HotTypeOK
    <2> QED BY <1>3, <1>6, <2>1, <2>2 DEF PublishedSince
  <1>8. Cardinality(V) <= Entries /\ Separate(V)
    BY <1>6 DEF Fits, Separate
  <1>9. Fits(s)
    <2>1. Separate(W)
      BY <1>7, <1>8 DEF Separate
    <2>2. Cardinality(W) <= Cardinality(V) /\ Cardinality(W) \in Nat /\ Cardinality(V) \in Nat
      BY <1>7, HotConstants, FS_Subset, FS_CardinalityType
    <2> QED BY <1>6, <1>8, <2>1, <2>2, HotConstants, SMTT(30) DEF Fits
  <1>10. PICK f : Labels(s, f)
    BY <1>9 DEF Accounted
  <1>11. CoveredSince(s)
    BY <1>9 DEF Accounted
  <1>12. PICK F, G : F = FreshFor(s) /\ G = FreshFor(s)'
    OBVIOUS
  <1>13. \A j : j \in F <=> j \in Slots /\ e[j].expiry_ms >= s + Ttl
    BY <1>2, <1>12 DEF FreshFor, Arming
  <1>14. G = F \cup {i}
    <2>1. i \in G
      BY <1>2, <1>3, <1>4, <1>12 DEF FreshFor, Arming
    <2>2. \A j \in Slots : j # i => (j \in G <=> e[j].expiry_ms >= s + Ttl)
      BY <1>2, <1>12 DEF FreshFor, Arming
    <2>3. \A j \in G : j \in Slots
      BY <1>12 DEF FreshFor
    <2> QED BY <1>4, <1>13, <2>1, <2>2, <2>3
  <1>15. /\ \A j : BinOf(j) = e[j].bin
         /\ BinOf(i)' = b /\ \A j \in Slots : j # i => BinOf(j)' = e[j].bin
    BY <1>2 DEF BinOf, Arming
  <1>16. \A j \in F : clock < e[j].expiry_ms /\ e[j].bin \in W
    BY <1>3, <1>6, <1>13, FreshFacts
  <1>17. /\ f \in [F -> W]
         /\ \A j, k \in F : f[j] = f[k] => j = k
         /\ \A j \in F : Within(e[j].bin, f[j])
         /\ \A j \in F, k \in Slots \ F : k < j /\ clock < e[k].expiry_ms => ~Within(e[k].bin, f[j])
    BY <1>6, <1>10, <1>12, <1>15 DEF Labels
  <1>18. /\ Within(b, b)
         /\ \A x, y \in V : Within(x, y) => Within(y, x)
         /\ \A x, y, z \in V : Within(x, y) /\ Within(y, z) => Within(x, z)
    BY <1>7, <1>8, WithinFacts, OneChannel
  <1>19. i \in F => Within(e[i].bin, b)
    <2> SUFFICES ASSUME i \in F, ~Within(e[i].bin, b)
                 PROVE  FALSE
      OBVIOUS
    <2>1. Refreshable(b) = {} /\ \A j \in Slots : e[i].expiry_ms <= e[j].expiry_ms
      BY <1>4, <1>5, <1>16
    <2>2. F = Slots
      <3>1. e[i].expiry_ms >= s + Ttl
        BY <1>13
      <3>2. ASSUME NEW j \in Slots
            PROVE  e[j].expiry_ms >= s + Ttl
        <4>1. /\ s \in Nat /\ Ttl \in Nat
              /\ e[i].expiry_ms \in Nat /\ e[j].expiry_ms \in Nat
              /\ e[i].expiry_ms <= e[j].expiry_ms
          BY <1>3, <1>4, <2>1
        <4> QED BY <3>1, <4>1, SMTT(30)
      <3> QED BY <1>13, <3>2
    <2>3. ASSUME NEW j \in Slots, f[j] = b
          PROVE  FALSE
      <3>1. clock < e[j].expiry_ms /\ Within(e[j].bin, b)
        BY <1>16, <1>17, <2>2, <2>3
      <3> QED BY <1>5, <2>1, <3>1
    <2>4. f \in [Slots -> V]
      BY <1>7, <1>17, <2>2
    <2> QED BY <1>7, <1>8, <1>17, <2>2, <2>3, <2>4, TooMany
  <1>20. (\E g : Labels(s, g))'
    <2>1. ASSUME NEW g, g \in [G -> V], \A j, k \in G : g[j] = g[k] => j = k,
                 Within(b, g[i]), \A j \in F : j # i => g[j] = f[j],
                 \A k \in Slots \ G : k < i /\ clock < e[k].expiry_ms => ~Within(e[k].bin, g[i])
          PROVE  Labels(s, g)'
      <3>1. g \in [FreshFor(s)' -> PublishedSince(s)']
        BY <1>6, <1>12, <2>1
      <3>2. \A j, k \in FreshFor(s)' : g[j] = g[k] => j = k
        BY <1>12, <2>1
      <3>3. \A j \in FreshFor(s)' : Within(BinOf(j)', g[j])
        <4> SUFFICES ASSUME NEW j \in G
                     PROVE  Within(BinOf(j)', g[j])
          BY <1>12
        <4>1. CASE j = i
          BY <1>15, <2>1, <4>1
        <4>2. CASE j # i
          <5>1. j \in F /\ j \in Slots
            BY <1>13, <1>14, <4>2
          <5>2. BinOf(j)' = e[j].bin /\ g[j] = f[j]
            BY <1>15, <2>1, <4>2, <5>1
          <5> QED BY <1>17, <5>1, <5>2
        <4> QED BY <4>1, <4>2
      <3>4. \A j \in FreshFor(s)', k \in Slots \ FreshFor(s)' :
              k < j /\ clock' < e'[k].expiry_ms => ~Within(e'[k].bin, g[j])
        <4> SUFFICES ASSUME NEW j \in G, NEW k \in Slots \ G,
                            k < j, clock < e'[k].expiry_ms
                     PROVE  ~Within(e'[k].bin, g[j])
          BY <1>2, <1>12
        <4>1. k # i /\ k \in Slots \ F /\ (j = i \/ (j # i /\ j \in F))
          BY <1>14
        <4>2. e'[k] = e[k]
          BY <1>2, <4>1
        <4>3. CASE j = i
          BY <2>1, <4>2, <4>3
        <4>4. CASE j # i /\ j \in F
          BY <1>17, <2>1, <4>1, <4>2, <4>4
        <4> QED BY <4>1, <4>3, <4>4
      <3> QED BY <3>1, <3>2, <3>3, <3>4 DEF Labels
    <2>2. CASE i \in F
      <3>1. G = F /\ f \in [G -> V]
        <4>1. G = F
          BY <1>14, <2>2
        <4>2. f \in [F -> W] /\ W \subseteq V
          BY <1>7, <1>17
        <4>3. f \in [F -> V]
          BY <4>2
        <4> QED BY <4>1, <4>3
      <3>2. Within(b, f[i])
        <4>1. e[i].bin \in V /\ f[i] \in V /\ Within(e[i].bin, f[i]) /\ Within(e[i].bin, b)
          BY <1>7, <1>16, <1>17, <1>19, <2>2
        <4> QED BY <1>7, <1>18, <4>1
      <3>3. Labels(s, f)'
        BY <1>17, <2>1, <2>2, <3>1, <3>2
      <3> QED BY <3>3
    <2>3. CASE i \notin F
      <3>1. PICK g : g = [j \in G |-> IF j = i THEN b ELSE f[j]]
        OBVIOUS
      <3>2. \A j \in F : f[j] # b
        <4> SUFFICES ASSUME NEW j \in F, f[j] = b
                     PROVE  FALSE
          OBVIOUS
        <4>1. j \in Slots /\ j \in Refreshable(b)
          BY <1>5, <1>13, <1>16, <1>17
        <4>2. i \in Refreshable(b) /\ i <= j /\ i # j
          BY <1>4, <2>3, <4>1
        <4>3. i < j /\ clock < e[i].expiry_ms /\ Within(e[i].bin, b)
          BY <1>3, <1>4, <1>5, <4>1, <4>2, SMTT(30)
        <4> QED BY <1>4, <1>17, <2>3, <4>3
      <3>3. g \in [G -> V]
        BY <1>7, <1>14, <1>17, <3>1
      <3>4. g[i] = b /\ \A j \in F : g[j] = f[j]
        BY <1>14, <2>3, <3>1
      <3>5. \A j, k \in G : g[j] = g[k] => j = k
        <4> SUFFICES ASSUME NEW j \in G, NEW k \in G, g[j] = g[k], j # k
                     PROVE  FALSE
          OBVIOUS
        <4>1. CASE j = i
          BY <1>14, <3>2, <3>4, <4>1
        <4>2. CASE k = i
          BY <1>14, <3>2, <3>4, <4>2
        <4>3. CASE j # i /\ k # i
          BY <1>14, <1>17, <3>4, <4>3
        <4> QED BY <4>1, <4>2, <4>3
      <3>6. \A k \in Slots : k < i /\ clock < e[k].expiry_ms => ~Within(e[k].bin, b)
        <4> SUFFICES ASSUME NEW k \in Slots, k < i, clock < e[k].expiry_ms, Within(e[k].bin, b)
                     PROVE  FALSE
          OBVIOUS
        <4>1. k \in Refreshable(b)
          BY <1>5
        <4>2. i <= k
          BY <1>4, <4>1
        <4> QED BY <1>3, <1>4, <4>2, SMTT(30)
      <3>7. Labels(s, g)'
        <4>1. Within(b, g[i]) /\ \A j \in F : j # i => g[j] = f[j]
          BY <1>18, <3>4
        <4>2. \A k \in Slots \ G : k < i /\ clock < e[k].expiry_ms => ~Within(e[k].bin, g[i])
          BY <3>4, <3>6
        <4> QED BY <2>1, <3>3, <3>5, <4>1, <4>2
      <3> QED BY <3>7
    <2> QED BY <2>2, <2>3
  <1>21. CoveredSince(s)'
    <2> SUFFICES ASSUME NEW c \in Bins, since'[c] = s
                 PROVE  \E j \in G : Within(BinOf(j)', c)
      BY <1>12 DEF CoveredSince
    <2>1. CASE c = b
      BY <1>14, <1>15, <1>18, <2>1
    <2>2. CASE c # b
      <3>1. since[c] = s /\ last[c] = s
        BY <1>2, <1>3, <2>2, HotConstants DEF HotShape, HotTypeOK, HistoryOK
      <3>2. c \in V
        BY <1>3, <1>6, <1>7, <3>1, SMTT(30) DEF PublishedSince
      <3>3. PICK j \in F : Within(e[j].bin, c)
        BY <1>11, <1>12, <1>15, <3>1 DEF CoveredSince
      <3>4. CASE j = i
        <4>1. e[i].bin \in V /\ Within(e[i].bin, b) /\ Within(e[i].bin, c)
          BY <1>7, <1>16, <1>19, <3>3, <3>4
        <4>2. Within(b, c)
          BY <1>7, <1>18, <3>2, <4>1
        <4> QED BY <1>14, <1>15, <4>2
      <3>5. CASE j # i
        BY <1>13, <1>14, <1>15, <3>3, <3>5
      <3> QED BY <3>4, <3>5
    <2> QED BY <2>1, <2>2
  <1> QED BY <1>20, <1>21

LEMMA AccountBin ==
  ASSUME HotShape, PublishBin, NEW s \in Nat, Accounted(s)
  PROVE  Accounted(s)'
  <1>1. /\ UNCHANGED <<clock, since, last>> /\ pub.at # "idle" /\ pub'.at # "idle"
        /\ pub.slot \in Slots /\ pub'.slot = pub.slot /\ pub'.bin = pub.bin
        /\ pub'.began = pub.began
        /\ e'[pub.slot].expiry_ms = 0 /\ e[pub.slot].expiry_ms = 0
        /\ \A j \in Slots : j # pub.slot => e'[j] = e[j]
    BY BinEffect
  <1>2. PublishedSince(s)' = PublishedSince(s)
    BY <1>1 DEF PublishedSince
  <1>3. \A i \in Slots : Arming(i)' = Arming(i) /\ e'[i].expiry_ms = e[i].expiry_ms
    BY <1>1 DEF Arming
  <1>4. FreshFor(s)' = FreshFor(s)
    BY <1>1, <1>3 DEF FreshFor
  <1>5. \A i \in Slots : BinOf(i)' = BinOf(i)
    BY <1>1 DEF BinOf, Arming
  <1>6. clock \in Nat /\ ~(clock < 0)
    <2>1. clock \in Nat
      BY ShapeNumbers
    <2> QED BY <2>1, SMTT(30)
  <1>7. \A j \in Slots : clock < e'[j].expiry_ms => e'[j].bin = e[j].bin
    BY <1>1, <1>6
  <1>8. \A i \in FreshFor(s) : i \in Slots
    BY DEF FreshFor
  <1> QED BY <1>1, <1>2, <1>3, <1>4, <1>5, <1>7, <1>8, AccountKept

\* A publish that opens its entry later than s began it later than s too, or
\* nothing was published since s.
LEMMA AccountOpen ==
  ASSUME HotShape, HistoryOK, PublishOpen, NEW s \in Nat, Accounted(s)
  PROVE  Accounted(s)'
  <1>1. /\ UNCHANGED <<clock, since, last>> /\ pub.at # "idle" /\ pub'.at = "idle"
        /\ pub.slot \in Slots /\ pub.bin \in Bins /\ pub.began \in Nat
        /\ e'[pub.slot].expiry_ms = pub.began + Ttl /\ e'[pub.slot].bin = pub.bin
        /\ e[pub.slot].expiry_ms = 0 /\ \A j \in Slots : j # pub.slot => e'[j] = e[j]
    BY OpenEffect
  <1>2. PublishedSince(s)' = PublishedSince(s)
    BY <1>1 DEF PublishedSince
  <1>3. Ttl \in Nat \ {0} /\ \A i \in Slots : e[i].expiry_ms \in Nat
    BY HotConstants, ShapeNumbers
  <1>4. FreshFor(s)' = FreshFor(s)
    <2>1. \A i \in Slots : i # pub.slot => (i \in FreshFor(s)' <=> i \in FreshFor(s))
      BY <1>1 DEF FreshFor, Arming
    <2>2. pub.slot \in FreshFor(s)' <=> pub.slot \in FreshFor(s)
      <3>1. pub.slot \in FreshFor(s)' <=> pub.began + Ttl >= s + Ttl
        BY <1>1 DEF FreshFor, Arming
      <3>2. pub.slot \in FreshFor(s) <=> 0 >= s + Ttl \/ pub.began >= s
        BY <1>1 DEF FreshFor, Arming
      <3>3. pub.began + Ttl >= s + Ttl <=> pub.began >= s
        BY <1>1, <1>3, SMTT(30)
      <3>4. ~(0 >= s + Ttl)
        BY <1>3, SMTT(30)
      <3> QED BY <3>1, <3>2, <3>3, <3>4
    <2>3. \A i : i \in FreshFor(s)' \/ i \in FreshFor(s) => i \in Slots
      BY DEF FreshFor
    <2>4. ASSUME NEW i
          PROVE  i \in FreshFor(s)' <=> i \in FreshFor(s)
      <3>1. CASE i = pub.slot
        BY <2>2, <3>1
      <3>2. CASE i # pub.slot
        BY <2>1, <2>3, <3>2
      <3> QED BY <3>1, <3>2
    <2> QED BY <2>4
  <1>5. CASE pub.began >= s
    <2>1. pub.slot \in FreshFor(s)
      BY <1>1, <1>5 DEF FreshFor, Arming
    <2>2. \A i \in Slots : BinOf(i)' = BinOf(i)
      BY <1>1 DEF BinOf, Arming
    <2>3. \A j \in Slots \ FreshFor(s) : e'[j] = e[j]
      BY <1>1, <2>1
    <2>4. \A i \in FreshFor(s) : i \in Slots
      BY DEF FreshFor
    <2> QED BY <1>1, <1>2, <1>4, <2>2, <2>3, <2>4, AccountKept
  <1>6. CASE ~(pub.began >= s)
    <2>1. PublishedSince(s) = {}
      <3>1. \A b \in Bins : last[b] \in Int /\ last[b] <= pub.began
        BY <1>1, SMTT(30) DEF HistoryOK, HotShape, HotTypeOK, None
      <3>2. \A b \in Bins : ~(last[b] >= s)
        BY <1>1, <1>6, <3>1, SMTT(30)
      <3> QED BY <3>2 DEF PublishedSince
    <2> SUFFICES ASSUME Fits(s)'
                 PROVE  (\E g : Labels(s, g))' /\ CoveredSince(s)'
      BY DEF Accounted
    <2>2. PICK f : Labels(s, f)
      BY <1>2 DEF Accounted, Fits, Separate
    <2>3. FreshFor(s) = {}
      BY <2>1, <2>2 DEF Labels
    <2>4. (\E g : Labels(s, g))'
      BY <1>4, <2>3, NothingToLabel
    <2>5. \A b \in Bins : since'[b] # s
      <3> SUFFICES ASSUME NEW b \in Bins, since[b] = s
                   PROVE  FALSE
        BY <1>1
      <3>1. last[b] = s
        BY HotConstants DEF HistoryOK
      <3>2. b \in PublishedSince(s)
        BY <3>1, SMTT(30) DEF PublishedSince
      <3> QED BY <2>1, <3>2
    <2> QED BY <2>4, <2>5 DEF CoveredSince
  <1> QED BY <1>5, <1>6

\* Closing an entry costs the bins that are not apart from the bin cleared.
LEMMA AccountClosed ==
  ASSUME HotShape, Closes, NEW s \in Nat, Accounted(s),
         \A b \in Bins, i \in Slots :
             since'[b] # None /\ Within(BinOf(i), b) => e'[i] = e[i]
  PROVE  Accounted(s)'
  <1>1. /\ UNCHANGED <<clock, pub, last>>
        /\ \A j \in Slots : e'[j] = e[j] \/ (e'[j].bin = e[j].bin /\ e'[j].expiry_ms = 0)
        /\ \A b \in Bins : since'[b] \in {since[b], None}
    BY DEF Closes
  <1>2. PublishedSince(s)' = PublishedSince(s)
    BY <1>1 DEF PublishedSince
  <1>3. Ttl \in Nat \ {0} /\ clock \in Nat /\ ~(0 >= s + Ttl) /\ ~(clock < 0) /\ s # None
    <2>1. Ttl \in Nat \ {0} /\ clock \in Nat /\ None \notin Nat
      BY HotConstants, ShapeNumbers
    <2> QED BY <2>1, SMTT(30)
  <1>4. \A i : Arming(i)' = Arming(i)
    BY <1>1 DEF Arming
  <1>5. \A i \in FreshFor(s)' : i \in FreshFor(s)
    BY <1>1, <1>3, <1>4 DEF FreshFor
  <1>6. \A i \in Slots : BinOf(i)' = BinOf(i)
    BY <1>1, <1>4 DEF BinOf
  <1>7. \A i \in FreshFor(s) : e'[i] = e[i] => i \in FreshFor(s)'
    BY <1>1, <1>4 DEF FreshFor
  <1>8. \A i \in FreshFor(s) : i \in Slots
    BY DEF FreshFor
  <1>9. \A j \in Slots : clock' < e'[j].expiry_ms => e'[j] = e[j] /\ clock < e[j].expiry_ms
    BY <1>1, <1>3
  <1>10. \A b \in Bins : since'[b] = s => since[b] = s /\ \A i \in FreshFor(s) :
                                              Within(BinOf(i), b) => i \in FreshFor(s)'
    BY <1>1, <1>3, <1>7, <1>8
  <1> QED BY <1>2, <1>5, <1>6, <1>7, <1>8, <1>9, <1>10, AccountKept

LEMMA AccountClear ==
  ASSUME NoClockWrap, HotShape, NEW c \in Bins, Clear(c), NEW s \in Nat, Accounted(s)
  PROVE  Accounted(s)'
  <1>1. /\ Closes /\ pub.at = "idle"
        /\ \A j \in Slots : e'[j] = e[j] \/ Within(e[j].bin, c)
        /\ \A b \in Bins : ~Apart(c, b) => since'[b] = None
    BY ClearEffect
  <1>2. ASSUME NEW b \in Bins, NEW i \in Slots, since'[b] # None, Within(BinOf(i), b)
        PROVE  e'[i] = e[i]
    <2>1. Within(e[i].bin, b) /\ e[i].bin \in Nat /\ b \in Nat /\ c \in Nat
      BY <1>1, <1>2, HotConstants DEF BinOf, Arming, HotShape, HotTypeOK
    <2>2. ~Within(e[i].bin, c)
      BY <1>1, <1>2, <2>1, BothMatch
    <2> QED BY <1>1, <2>2
  <1> QED BY <1>1, <1>2, AccountClosed

LEMMA AccountTime ==
  ASSUME HotShape, EntriesRecent, TimePasses, AllAccounted
  PROVE  AllAccounted'
  <1>1. /\ HotShape' /\ UNCHANGED <<e, pub>> /\ clock \in Nat /\ clock' = clock + 1
        /\ \A b \in Bins : since'[b] # None => since'[b] = since[b]
        /\ \A b \in Bins : last'[b] = last[b] \/ (last'[b] = None /\ clock >= last[b] + Ttl)
    BY TimeEffect
  <1>2. /\ Ttl \in Nat \ {0}
        /\ \A b \in Bins : /\ last[b] \in Int /\ last[b] <= clock
                           /\ since[b] \in Int /\ since[b] <= clock
    BY HotConstants, ShapeNumbers DEF HotShape, TimesOK
  <1> SUFFICES ASSUME NEW s \in 0 .. clock', clock' < s + Ttl
               PROVE  Accounted(s)'
    BY DEF AllAccounted
  <1>3. s \in Nat /\ s # None /\ clock < s + Ttl
    BY <1>1, <1>2, SMTT(30) DEF None
  <1>4. FreshFor(s)' = FreshFor(s) /\ \A i \in Slots : BinOf(i)' = BinOf(i)
    BY <1>1 DEF FreshFor, Arming, BinOf
  <1>5. \A i \in FreshFor(s) : i \in Slots
    BY DEF FreshFor
  <1>6. CASE s <= clock
    <2>1. \A b \in Bins : last'[b] >= s <=> last[b] >= s
      BY <1>1, <1>2, <1>3, SMTT(30) DEF None
    <2>2. PublishedSince(s)' = PublishedSince(s)
      BY <2>1 DEF PublishedSince
    <2>3. Accounted(s)
      BY <1>1, <1>3, <1>6, SMTT(30) DEF AllAccounted
    <2>4. \A j \in Slots : clock' < e'[j].expiry_ms => clock < e[j].expiry_ms
      <3>1. \A j \in Slots : e[j].expiry_ms \in Nat
        BY DEF HotShape, HotTypeOK
      <3> QED BY <1>1, <3>1, SMTT(30)
    <2> QED BY <1>1, <1>3, <1>4, <1>5, <2>2, <2>3, <2>4, AccountKept
  <1>7. CASE ~(s <= clock)
    <2>1. \A b \in Bins : ~(last[b] >= s) /\ since'[b] # s
      BY <1>1, <1>2, <1>3, <1>7, SMTT(30) DEF None
    <2>2. \A i \in Slots : ~(e[i].expiry_ms >= s + Ttl)
      BY <1>3, <2>1, FreshFacts DEF PublishedSince
    <2>3. \A i \in Slots : Arming(i) => ~(pub.began >= s)
      <3>1. pub.at # "idle" => pub.began \in Nat /\ pub.began <= clock
        BY DEF HotShape, HotTypeOK, PubOK
      <3>2. pub.at # "idle" => ~(pub.began >= s)
        BY <1>1, <1>3, <1>7, <3>1, SMTT(30)
      <3> QED BY <3>2 DEF Arming
    <2>4. FreshFor(s)' = {}
      BY <1>4, <2>2, <2>3 DEF FreshFor
    <2>5. (\E g : Labels(s, g))'
      BY <2>4, NothingToLabel
    <2> QED BY <2>1, <2>5 DEF Accounted, CoveredSince
  <1> QED BY <1>6, <1>7

LEMMA AccountStep ==
  ASSUME NoClockWrap, HotShape, use \in Uses, EntriesRecent, HistoryOK, AllAccounted,
         [HotNext]_hotVars
  PROVE  AllAccounted'
  <1>1. CASE TimePasses
    BY <1>1, AccountTime
  <1>2. CASE ~TimePasses
    <2>1. clock' = clock
      <3>1. ASSUME NEW b \in Bins, PublishClose(b) \/ Clear(b)
            PROVE  clock' = clock
        BY <3>1 DEF PublishClose, Clear
      <3>2. CASE DecoderStep
        BY <3>1, <3>2, UseFacts DEF DecoderStep, PublishBin, PublishOpen
      <3>3. CASE ReaderStep
        BY <3>3, ReaderEffect
      <3>4. CASE ScannerStep
        BY <3>4 DEF ScannerStep, ClearAllStart, ClearAllStep
      <3> QED BY <1>2, <3>2, <3>3, <3>4 DEF HotNext, hotVars
    <2> SUFFICES ASSUME NEW s \in 0 .. clock, clock < s + Ttl
                 PROVE  Accounted(s)'
      BY <2>1 DEF AllAccounted
    <2>2. Accounted(s) /\ s \in Nat
      BY SMTT(30) DEF AllAccounted
    <2>3. ASSUME UNCHANGED <<e, clock, pub, since, last>>
          PROVE  Accounted(s)'
      <3>1. PublishedSince(s)' = PublishedSince(s) /\ FreshFor(s)' = FreshFor(s)
        BY <2>3 DEF PublishedSince, FreshFor, Arming
      <3>2. \A i : BinOf(i)' = BinOf(i)
        BY <2>3 DEF BinOf, Arming
      <3> QED BY <2>2, <2>3, <3>1, <3>2, AccountKept
    <2>4. CASE DecoderStep
      BY <2>2, <2>4, UseFacts, AccountClose, AccountBin, AccountOpen, AccountClear DEF DecoderStep
    <2>5. CASE ReaderStep
      BY <2>3, <2>5, ReaderEffect
    <2>6. CASE ScannerStep
      BY <2>2, <2>6, SweepEffect, AccountClosed
    <2> QED BY <1>2, <2>3, <2>4, <2>5, <2>6 DEF HotNext, hotVars
  <1> QED BY <1>1, <1>2

LEMMA AccountedIsHot ==
  ASSUME NoClockWrap, HotShape, AllAccounted
  PROVE  PublishedStaysHot
  <1> SUFFICES ASSUME pub.at = "idle", NEW b \in Bins, since[b] # None, clock < since[b] + Ttl,
                      Fits(since[b])
               PROVE  Hot(b)
    BY DEF PublishedStaysHot, Fits
  <1>1. clock \in Nat /\ now_ms = clock /\ Ttl \in Nat
    BY NowMs, HotConstants DEF HotShape
  <1>2. since[b] \in Nat /\ since[b] \in 0 .. clock
    BY <1>1, SMTT(30) DEF HotShape, HotTypeOK, TimesOK, None
  <1>3. CoveredSince(since[b])
    BY <1>2 DEF AllAccounted, Accounted
  <1>4. PICK i \in FreshFor(since[b]) : Within(BinOf(i), b)
    BY <1>3 DEF CoveredSince
  <1>5. i \in Slots /\ e[i].expiry_ms >= since[b] + Ttl /\ Within(e[i].bin, b)
    BY <1>4 DEF FreshFor, BinOf, Arming
  <1>6. e[i] \in [bin : Nat, expiry_ms : Nat]
    BY <1>5 DEF HotShape, HotTypeOK
  <1>7. clock < e[i].expiry_ms
    BY <1>1, <1>2, <1>5, <1>6, SMTT(30)
  <1> QED BY <1>1, <1>5, <1>6, <1>7, LiveFacts DEF Hot

\* Until the millisecond clock outgrows its 32 bits, a bin published in the last
\* Ttl is found hot whenever no publish is under way, if nothing in its reach
\* was cleared since and the bins published from its millisecond on are
\* separate and no more than the entries.  What else is in use, and how many
\* older entries are live, does not matter: publish then neither replaces the
\* bin's entry nor moves it out of reach (hot_bin_table_publish).
THEOREM PublishedBinsStayHot ==
  ASSUME NoClockWrap
  PROVE  HotSpec => []PublishedStaysHot
  <1> DEFINE Inv == /\ HotShape /\ use \in Uses /\ EntriesRecent /\ ReaderOK
                    /\ HistoryOK /\ AllAccounted
  <1>1. HotInit => Inv
    <2> SUFFICES ASSUME HotInit PROVE Inv
      OBVIOUS
    <2>1. clock = 0 /\ pub.at = "idle" /\ \A i \in Slots : e[i].expiry_ms = 0
      BY DEF HotInit
    <2>2. \A b \in Bins : since[b] = None
      BY DEF HotInit
    <2>3. ASSUME NEW s \in 0 .. clock
          PROVE  Accounted(s)
      <3>1. s \in Nat /\ ~(0 >= s + Ttl) /\ s # None
        BY <2>1, HotConstants, SMTT(30) DEF None
      <3>2. FreshFor(s) = {}
        BY <2>1, <3>1 DEF FreshFor, Arming
      <3>3. PICK g : g = [i \in {} |-> i]
        OBVIOUS
      <3>4. g \in [FreshFor(s) -> PublishedSince(s)]
        BY <3>2, <3>3
      <3>5. Labels(s, g)
        BY <3>2, <3>4 DEF Labels
      <3> QED BY <2>2, <3>1, <3>5 DEF Accounted, CoveredSince
    <2> QED BY <2>3, HotStart DEF AllAccounted
  <1>2. Inv /\ [HotNext]_hotVars => Inv'
    BY ShapeStep, RecentStep, HistoryStep, AccountStep
  <1>3. Inv => PublishedStaysHot
    BY AccountedIsHot
  <1> QED BY <1>1, <1>2, <1>3, PTL DEF HotSpec
==============================================================================
