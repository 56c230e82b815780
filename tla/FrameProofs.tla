----------------------------- MODULE FrameProofs -----------------------------
(***************************************************************************)
(* The frame queue hands over whole items in order for every number of     *)
(* slots of at least two, and implements a bounded FIFO.  Only the         *)
(* reservation argument needs arithmetic: an index is its item's number    *)
(* modulo n_slots, so two indices differ as long as the item numbers are   *)
(* less than n_slots apart.                                                *)
(*                                                                         *)
(* The two reassemblers, for tables and chains of every size, every set of *)
(* frames and every order of their arrival.  A table is described session  *)
(* by session: draining, feeding and ticking map a table that is in order  *)
(* to one that is, and what they complete is whole.                        *)
(***************************************************************************)
EXTENDS FrameQueue, FrameDecoder, SbdReassembler, ModArith, SequenceTheorems

\* Zenon is the prover of every step that names no other; the steps with
\* arithmetic name SMT, with time enough for the larger ones.
USE Zenon

-----------------------------------------------------------------------------
(* frame_queue.c.                                                          *)

\* What each end has done so far with the slot it holds, what the queued
\* slots contain, and that the indices are the item numbers modulo n_slots.
IndicesOK ==
    /\ head = got % NSlots /\ tail = sent % NSlots
    /\ got <= sent /\ sent - got <= NSlots - 1

QueuedOK == \A k \in got .. sent - 1 : slots[k % NSlots] = [hdr |-> k, bits |-> k]

ProducerOK ==
    /\ prod \in {"header", "bits", "commit"} => sent - got <= NSlots - 2
    /\ prod \in {"bits", "commit"} => slots[tail].hdr = sent
    /\ prod = "commit" => slots[tail].bits = sent

ConsumerOK ==
    /\ cons \in {"header", "bits", "free"} => got < sent
    /\ cons \in {"bits", "free"} => out.hdr = got
    /\ cons = "free" => out.bits = got

CountersOK ==
    /\ pushed = IF prod = "count" THEN sent - 1 ELSE sent
    /\ popped = IF cons = "count" THEN got - 1 ELSE got

FqIInv == /\ FqTypeOK /\ IndicesOK /\ QueuedOK
          /\ ProducerOK /\ ConsumerOK /\ CountersOK

LEMMA SlotsPositive == NSlots \in Nat \ {0} /\ 1 \in Nat
  BY NSlotsAssumption, SMTT(30)

\* The next index is the index of the next item.
LEMMA AdvanceIndex ==
  ASSUME NEW c \in Nat
  PROVE  /\ c % NSlots \in SlotIndex
         /\ Advance(c % NSlots) = (c + 1) % NSlots
  <1>1. c % NSlots \in 0 .. NSlots - 1
    BY SlotsPositive, DivMod
  <1>2. ((c % NSlots) + 1) % NSlots = (c + 1) % NSlots
    BY SlotsPositive, ModSum
  <1> QED BY <1>1, <1>2 DEF Advance, SlotIndex

\* Items less than n_slots apart are in different slots.
LEMMA ApartDiffer ==
  ASSUME NEW a \in Nat, NEW b \in Nat, a < b, b - a <= NSlots - 1
  PROVE  b % NSlots # a % NSlots
  <1> DEFINE d == b - a
  <1>1. d \in 1 .. NSlots - 1 /\ b = a + d
    BY NSlotsAssumption, SMTT(30)
  <1> HIDE DEF d
  <1>2. (a + d) % NSlots # a % NSlots
    BY <1>1, SlotsPositive, ModDistinct
  <1> QED BY <1>1, <1>2

\* A queue that is not full has room for one more besides the empty slot.
LEMMA NotFullRoom ==
  ASSUME NEW g \in Nat, NEW s \in Nat, g <= s, s - g <= NSlots - 1,
         ~Full(s % NSlots, g % NSlots)
  PROVE  s - g <= NSlots - 2
  <1> SUFFICES ASSUME s - g = NSlots - 1 PROVE FALSE
    BY NSlotsAssumption, SMTT(30)
  <1>1. s + 1 = g + (1 * NSlots)
    BY NSlotsAssumption, SMTT(30)
  <1>2. (g + (1 * NSlots)) % NSlots = g % NSlots
    BY SlotsPositive, ModMultiple
  <1>3. Advance(s % NSlots) = (s + 1) % NSlots
    BY AdvanceIndex
  <1> QED BY <1>1, <1>2, <1>3 DEF Full

\* frame_queue_create makes an empty queue.
LEMMA FqInitInv == FqInit => FqIInv
  <1>1. 0 % NSlots = 0 /\ 0 \in SlotIndex
    BY SlotsPositive, ModSmall, SMTT(30) DEF SlotIndex
  <1> QED BY <1>1, NSlotsAssumption, SMTT(30)
      DEF FqInit, FqIInv, FqTypeOK, IndicesOK, QueuedOK, ProducerOK, ConsumerOK, CountersOK

\* Reserving changes no slot; the test leaves room for the item.
LEMMA ReserveInv == FqIInv /\ (Reserve \/ ReserveFull) => FqIInv'
  <1> SUFFICES ASSUME FqIInv, Reserve \/ ReserveFull PROVE FqIInv'
    OBVIOUS
  <1> USE DEF FqIInv
  <1>1. FqTypeOK' /\ IndicesOK' /\ QueuedOK' /\ ConsumerOK' /\ CountersOK'
    BY SMTT(30) DEF Reserve, ReserveFull, FqTypeOK, IndicesOK, QueuedOK, ConsumerOK, CountersOK
  <1>2. CASE Reserve
    <2>1. sent - got <= NSlots - 2
      BY <1>2, NotFullRoom DEF Reserve, IndicesOK, FqTypeOK
    <2> QED BY <1>1, <1>2, <2>1 DEF Reserve, ProducerOK
  <1>3. CASE ReserveFull
    BY <1>1, <1>3 DEF ReserveFull, ProducerOK
  <1> QED BY <1>2, <1>3

\* The slot being filled is none of the queued ones.
LEMMA FillInv == FqIInv /\ (FillHeader \/ FillBits) => FqIInv'
  <1> SUFFICES ASSUME FqIInv, FillHeader \/ FillBits PROVE FqIInv'
    OBVIOUS
  <1> USE DEF FqIInv
  <1>1. tail \in SlotIndex /\ sent \in Nat /\ got \in Nat /\ sent - got <= NSlots - 1
    BY DEF FqTypeOK, IndicesOK
  <1>2. FqTypeOK'
    BY <1>1, SMTT(30) DEF FillHeader, FillBits, NewHeader, NewBits, FqTypeOK
  <1>3. IndicesOK' /\ ConsumerOK' /\ CountersOK'
    BY DEF FillHeader, FillBits, IndicesOK, ConsumerOK, CountersOK
  <1>4. QueuedOK'
    <2> SUFFICES ASSUME NEW k \in got .. sent - 1
                 PROVE  slots'[k % NSlots] = [hdr |-> k, bits |-> k]
      BY DEF FillHeader, FillBits, QueuedOK
    <2>1. k \in Nat /\ k < sent /\ sent - k <= NSlots - 1
      BY <1>1, NSlotsAssumption, SMTT(30)
    <2>2. tail # k % NSlots
      BY <1>1, <2>1, ApartDiffer DEF IndicesOK
    <2>3. k % NSlots \in SlotIndex
      BY <2>1, AdvanceIndex
    <2>4. slots'[k % NSlots] = slots[k % NSlots]
      BY <2>2, <2>3 DEF FillHeader, FillBits, FqTypeOK
    <2> QED BY <2>4 DEF QueuedOK
  <1>5. ProducerOK'
    BY <1>1, SMTT(30) DEF FillHeader, FillBits, NewHeader, NewBits, FqTypeOK, ProducerOK
  <1> QED BY <1>2, <1>3, <1>4, <1>5

\* Publishing adds the slot just filled to the queued ones.
LEMMA CommitInv == FqIInv /\ (Commit \/ CountPushed) => FqIInv'
  <1> SUFFICES ASSUME FqIInv, Commit \/ CountPushed PROVE FqIInv'
    OBVIOUS
  <1> USE DEF FqIInv
  <1>1. CASE CountPushed
    BY <1>1, SMTT(30) DEF CountPushed, FqTypeOK, IndicesOK, QueuedOK, ProducerOK, ConsumerOK, CountersOK
  <1>2. CASE Commit
    <2>1. sent \in Nat /\ got \in Nat /\ tail = sent % NSlots
      BY DEF FqTypeOK, IndicesOK
    <2>2. tail' = (sent + 1) % NSlots /\ tail' \in SlotIndex
      <3>1. Advance(sent % NSlots) = (sent + 1) % NSlots /\ (sent + 1) % NSlots \in SlotIndex
        BY <2>1, AdvanceIndex, SMTT(30)
      <3> QED BY <3>1, <2>1, <1>2 DEF Commit
    <2>3. FqTypeOK'
      BY <2>2, <1>2, SMTT(30) DEF Commit, FqTypeOK
    <2>4. IndicesOK'
      BY <2>1, <2>2, <1>2, NSlotsAssumption, SMTT(30) DEF Commit, IndicesOK, ProducerOK
    <2>5. slots[sent % NSlots] = [hdr |-> sent, bits |-> sent]
      BY <2>1, <1>2 DEF Commit, ProducerOK, FqTypeOK
    <2>6. QueuedOK'
      <3>1. \A k \in got .. sent : k \in got .. sent - 1 \/ k = sent
        BY <2>1, SMTT(30)
      <3>2. \A k \in got .. sent : slots[k % NSlots] = [hdr |-> k, bits |-> k]
        BY <3>1, <2>5 DEF QueuedOK
      <3>3. got' .. sent' - 1 = got .. sent
        BY <2>1, <1>2, SMTT(30) DEF Commit
      <3> QED BY <3>2, <3>3, <1>2 DEF Commit, QueuedOK
    <2>7. ProducerOK' /\ ConsumerOK' /\ CountersOK'
      BY <2>1, <1>2, SMTT(30) DEF Commit, ProducerOK, ConsumerOK, CountersOK
    <2> QED BY <2>3, <2>4, <2>6, <2>7
  <1> QED BY <1>1, <1>2

\* The consumer copies the oldest queued slot.
LEMMA CopyInv == FqIInv /\ (Pop \/ CopyHeader \/ CopyBits) => FqIInv'
  <1> SUFFICES ASSUME FqIInv, Pop \/ CopyHeader \/ CopyBits PROVE FqIInv'
    OBVIOUS
  <1> USE DEF FqIInv
  <1>1. sent \in Nat /\ got \in Nat /\ head \in SlotIndex /\ got <= sent
    BY DEF FqTypeOK, IndicesOK
  <1>2. FqTypeOK'
    BY <1>1 DEF Pop, CopyHeader, CopyBits, FqTypeOK
  <1>3. IndicesOK' /\ QueuedOK' /\ ProducerOK' /\ CountersOK'
    BY DEF Pop, CopyHeader, CopyBits, IndicesOK, QueuedOK, ProducerOK, CountersOK
  <1>4. CASE Pop
    <2>1. got # sent
      BY <1>4 DEF Pop, NonEmpty, IndicesOK
    <2> QED BY <1>1, <1>2, <1>3, <1>4, <2>1, SMTT(30) DEF Pop, ConsumerOK
  <1>5. CASE CopyHeader \/ CopyBits
    <2>1. got \in got .. sent - 1
      BY <1>1, <1>5, SMTT(30) DEF CopyHeader, CopyBits, ConsumerOK
    <2>2. slots[head] = [hdr |-> got, bits |-> got]
      BY <2>1 DEF QueuedOK, IndicesOK
    <2>3. ConsumerOK'
      BY <2>2, <1>5, SMTT(30) DEF CopyHeader, CopyBits, ConsumerOK, FqTypeOK
    <2> QED BY <1>2, <1>3, <2>3
  <1> QED BY <1>4, <1>5

\* Freeing takes the oldest item out of the queue.
LEMMA FreeInv == FqIInv /\ (Free \/ CountPopped) => FqIInv'
  <1> SUFFICES ASSUME FqIInv, Free \/ CountPopped PROVE FqIInv'
    OBVIOUS
  <1> USE DEF FqIInv
  <1>1. CASE CountPopped
    BY <1>1, SMTT(30) DEF CountPopped, FqTypeOK, IndicesOK, QueuedOK, ProducerOK, ConsumerOK, CountersOK
  <1>2. CASE Free
    <2>1. sent \in Nat /\ got \in Nat /\ head = got % NSlots /\ got < sent
      BY <1>2 DEF FqTypeOK, IndicesOK, Free, ConsumerOK
    <2>2. head' = (got + 1) % NSlots /\ head' \in SlotIndex
      <3>1. Advance(got % NSlots) = (got + 1) % NSlots /\ (got + 1) % NSlots \in SlotIndex
        BY <2>1, AdvanceIndex, SMTT(30)
      <3> QED BY <3>1, <2>1, <1>2 DEF Free
    <2>3. FqTypeOK'
      BY <2>2, <1>2, SMTT(30) DEF Free, FqTypeOK
    <2>4. IndicesOK'
      BY <2>1, <2>2, <1>2, NSlotsAssumption, SMTT(30) DEF Free, IndicesOK
    <2>5. QueuedOK'
      <3>1. got' .. sent' - 1 \subseteq got .. sent - 1
        BY <2>1, <1>2, SMTT(30) DEF Free
      <3> QED BY <3>1, <1>2 DEF Free, QueuedOK
    <2>6. ProducerOK' /\ ConsumerOK' /\ CountersOK'
      BY <2>1, <1>2, NSlotsAssumption, SMTT(30) DEF Free, ProducerOK, ConsumerOK, CountersOK
    <2> QED BY <2>3, <2>4, <2>5, <2>6
  <1> QED BY <1>1, <1>2

\* The invariant says what the users of the queue rely on.
LEMMA FqInvImplies ==
  FqIInv => PopInOrder /\ SlotsDisjoint /\ CountExact /\ CountersTrail
  <1> SUFFICES ASSUME FqIInv PROVE PopInOrder /\ SlotsDisjoint /\ CountExact /\ CountersTrail
    OBVIOUS
  <1> USE DEF FqIInv
  <1>1. sent \in Nat /\ got \in Nat /\ got <= sent /\ sent - got <= NSlots - 1
    BY DEF FqTypeOK, IndicesOK
  <1>2. PopInOrder
    BY DEF PopInOrder, ConsumerOK, FqTypeOK
  <1>3. SlotsDisjoint
    BY <1>1, ApartDiffer DEF SlotsDisjoint, ConsumerOK, IndicesOK
  <1>4. CountExact
    <2> DEFINE d == sent - got
    <2>1. d \in 0 .. NSlots - 1 /\ d \in Nat /\ sent = got + d
      BY <1>1, NSlotsAssumption, SMTT(30)
    <2> HIDE DEF d
    <2>2. head \in 0 .. NSlots - 1
      BY DEF FqTypeOK, SlotIndex
    <2>3. (head + d) % NSlots = tail
      <3>1. ((got % NSlots) + d) % NSlots = (got + d) % NSlots
        BY <1>1, <2>1, SlotsPositive, ModSum
      <3> QED BY <3>1, <2>1 DEF IndicesOK
    <2>4. (((head + d) % NSlots) - head) % NSlots = d
      BY <2>1, <2>2, SlotsPositive, ModDistanceUnique
    <2> QED BY <2>1, <2>3, <2>4 DEF CountExact, d
  <1>5. CountersTrail
    BY <1>1, SMTT(30) DEF CountersTrail, CountersOK
  <1> QED BY <1>2, <1>3, <1>4, <1>5

\* FqIInv is inductive.
LEMMA FqNextInv == FqIInv /\ [FqNext]_fqVars => FqIInv'
  <1> SUFFICES ASSUME FqIInv, [FqNext]_fqVars PROVE FqIInv'
    OBVIOUS
  <1>1. CASE FqNext
    BY <1>1, ReserveInv, FillInv, CommitInv, CopyInv, FreeInv
    DEF FqNext, Producer, Consumer
  <1>2. CASE UNCHANGED fqVars
    BY <1>2 DEF fqVars, FqIInv, FqTypeOK, IndicesOK, QueuedOK,
                ProducerOK, ConsumerOK, CountersOK
  <1> QED BY <1>1, <1>2

\* For every number of slots, frame_queue_pop returns whole items in the order
\* they were committed, the two ends never hold the same slot, the index
\* difference counts the queued items, and the counters trail the indices.
THEOREM QueueSafe ==
  FqSpec => [](FqTypeOK /\ PopInOrder /\ SlotsDisjoint /\ CountExact /\ CountersTrail)
  <1>1. FqIInv => FqTypeOK
    BY DEF FqIInv
  <1> QED BY FqInitInv, FqNextInv, <1>1, FqInvImplies, PTL DEF FqSpec

-----------------------------------------------------------------------------
(* The queue implements a bounded FIFO.                                    *)

\* The queue the slots stand for, as Fifo sees it.
QueuedItems == [k \in 1 .. sent - got |-> slots[(head + k - 1) % NSlots].bits]

\* The n items from number g on.
Numbered(g, n) == [k \in 1 .. n |-> g + (k - 1)]

LEMMA NumberedSeq ==
  ASSUME NEW g \in Nat, NEW n \in Nat
  PROVE  /\ Numbered(g, n) \in Seq(Nat) /\ Len(Numbered(g, n)) = n
         /\ \A k \in 1 .. n : Numbered(g, n)[k] = g + (k - 1)
  BY SMTT(30) DEF Numbered

\* While the invariant holds, the queued items are numbered from got to sent.
LEMMA QueuedNumbered == FqIInv => QueuedItems = Numbered(got, sent - got)
  <1> SUFFICES ASSUME FqIInv PROVE QueuedItems = Numbered(got, sent - got)
    OBVIOUS
  <1>1. got \in Nat /\ sent \in Nat /\ got <= sent /\ head = got % NSlots /\ head \in Nat
    BY SlotsPositive, SMTT(30) DEF FqIInv, FqTypeOK, IndicesOK, SlotIndex
  <1>2. ASSUME NEW k \in 1 .. sent - got
        PROVE  slots[(head + k - 1) % NSlots].bits = got + (k - 1)
    <2>1. k - 1 \in Nat /\ head + k - 1 = head + (k - 1) /\ got + (k - 1) \in got .. sent - 1
      BY <1>1, SMTT(30)
    <2>2. (head + (k - 1)) % NSlots = (got + (k - 1)) % NSlots
      BY <1>1, <2>1, SlotsPositive, ModSum
    <2>3. PICK j \in got .. sent - 1 : j = got + (k - 1)
      BY <2>1
    <2>4. slots[j % NSlots] = [hdr |-> j, bits |-> j]
      BY DEF FqIInv, QueuedOK
    <2>5. slots[j % NSlots].bits = j
      BY <2>4, SMTT(30)
    <2> QED BY <2>1, <2>2, <2>3, <2>5
  <1> QED BY <1>2 DEF QueuedItems, Numbered

LEMMA QueuedNumberedNext == FqIInv' => QueuedItems' = Numbered(got', sent' - got')
  <1>1. (FqIInv => QueuedItems = Numbered(got, sent - got))'
    BY QueuedNumbered, PTL
  <1> QED BY <1>1 DEF Numbered

\* A commit appends the item just filled.
LEMMA CommitEnters ==
  ASSUME FqIInv, FqIInv', Commit
  PROVE  Fifo!Enter
  <1>1. /\ got \in Nat /\ sent \in Nat /\ got <= sent /\ sent - got <= NSlots - 2
        /\ got' = got /\ sent' = sent + 1 /\ NSlots \in Nat
    BY NSlotsAssumption DEF Commit, FqIInv, FqTypeOK, IndicesOK, ProducerOK
  <1>2. PICK n \in Nat : n = sent - got
    BY <1>1, SMTT(30)
  <1>3. QueuedItems = Numbered(got, n) /\ QueuedItems' = Numbered(got, n + 1)
    <2>1. sent' - got' = n + 1
      BY <1>1, <1>2, SMTT(30)
    <2> QED BY <1>1, <1>2, <2>1, QueuedNumbered, QueuedNumberedNext
  <1>4. /\ Numbered(got, n) \in Seq(Nat) /\ Len(Numbered(got, n)) = n
        /\ \A k \in 1 .. n : Numbered(got, n)[k] = got + (k - 1)
    BY <1>1, NumberedSeq
  <1>5. /\ Numbered(got, n + 1) \in Seq(Nat) /\ Len(Numbered(got, n + 1)) = n + 1
        /\ \A k \in 1 .. n + 1 : Numbered(got, n + 1)[k] = got + (k - 1)
    <2>1. n + 1 \in Nat
      BY SMTT(30)
    <2> QED BY <1>1, <2>1, NumberedSeq
  <1>6. QueuedItems' = Append(QueuedItems, sent)
    <2>1. PICK q : q = Numbered(got, n)
      OBVIOUS
    <2>2. /\ Append(q, sent) \in Seq(Nat) /\ Len(Append(q, sent)) = n + 1
          /\ Append(q, sent)[n + 1] = sent
          /\ \A k \in 1 .. n : Append(q, sent)[k] = got + (k - 1)
      BY <1>1, <1>4, <2>1, AppendProperties, SMTT(30)
    <2>3. \A k \in 1 .. n + 1 : Append(q, sent)[k] = got + (k - 1)
      BY <1>1, <1>2, <2>2, SMTT(30)
    <2>4. Append(q, sent) = Numbered(got, n + 1)
      BY <1>5, <2>2, <2>3, SeqEqual, SMTT(30)
    <2> QED BY <1>3, <2>1, <2>4
  <1>7. Len(QueuedItems) < NSlots - 1
    BY <1>1, <1>2, <1>3, <1>4, SMTT(30)
  <1> QED BY <1>1, <1>6, <1>7 DEF Fifo!Enter, QueuedItems

\* Freeing a slot takes the oldest item.
LEMMA FreeLeaves ==
  ASSUME FqIInv, FqIInv', Free
  PROVE  Fifo!Leave
  <1>1. /\ got \in Nat /\ sent \in Nat /\ got < sent /\ got' = got + 1 /\ sent' = sent
    BY DEF Free, FqIInv, FqTypeOK, ConsumerOK
  <1>2. PICK n \in Nat : n = sent - got - 1
    BY <1>1, SMTT(30)
  <1>3. QueuedItems = Numbered(got, n + 1) /\ QueuedItems' = Numbered(got + 1, n)
    <2>1. sent' - got' = n /\ sent - got = n + 1
      BY <1>1, <1>2, SMTT(30)
    <2> QED BY <1>1, <2>1, QueuedNumbered, QueuedNumberedNext
  <1>4. /\ Numbered(got, n + 1) \in Seq(Nat) /\ Len(Numbered(got, n + 1)) = n + 1
        /\ \A k \in 1 .. n + 1 : Numbered(got, n + 1)[k] = got + (k - 1)
    <2>1. n + 1 \in Nat
      BY SMTT(30)
    <2> QED BY <1>1, <2>1, NumberedSeq
  <1>5. /\ Numbered(got + 1, n) \in Seq(Nat) /\ Len(Numbered(got + 1, n)) = n
        /\ \A k \in 1 .. n : Numbered(got + 1, n)[k] = (got + 1) + (k - 1)
    <2>1. got + 1 \in Nat
      BY <1>1, SMTT(30)
    <2> QED BY <2>1, NumberedSeq
  <1>6. QueuedItems # << >> /\ QueuedItems' = Tail(QueuedItems)
    <2>1. PICK q : q = Numbered(got, n + 1)
      OBVIOUS
    <2>2. q \in Seq(Nat) /\ Len(q) = n + 1 /\ q # << >>
      BY <1>4, <2>1, EmptySeq, SMTT(30)
    <2>3. /\ Tail(q) \in Seq(Nat) /\ Len(Tail(q)) = n
          /\ \A k \in 1 .. n : Tail(q)[k] = q[k + 1]
      BY <2>2, SMTT(30)
    <2>4. \A k \in 1 .. n : Tail(q)[k] = (got + 1) + (k - 1)
      BY <1>1, <1>4, <2>1, <2>3, SMTT(30)
    <2>5. Tail(q) = Numbered(got + 1, n)
      BY <1>5, <2>3, <2>4, SeqEqual
    <2> QED BY <1>3, <2>1, <2>2, <2>5
  <1> QED BY <1>1, <1>6 DEF Fifo!Leave, QueuedItems

\* To its users the queue is a bounded first-in first-out queue of whole items,
\* for every number of slots: a commit puts an item at the end, a pop takes the
\* oldest when it frees the slot, and no other step shows.
THEOREM QueueImplementsFifo == FqSpec => FifoSpec
  <1>1. FqInit => Fifo!Init
    <2> SUFFICES ASSUME FqInit PROVE QueuedItems = << >> /\ sent = 0
      BY DEF Fifo!Init, QueuedItems
    <2>1. QueuedItems = Numbered(0, 0)
      BY FqInitInv, QueuedNumbered, SMTT(30) DEF FqInit
    <2>2. Len(Numbered(0, 0)) = 0 /\ Numbered(0, 0) \in Seq(Nat)
      BY NumberedSeq
    <2> QED BY <2>1, <2>2, EmptySeq DEF FqInit
  <1>2. FqIInv /\ FqIInv' /\ [FqNext]_fqVars => [Fifo!Enter \/ Fifo!Leave]_<<QueuedItems, sent>>
    <2> SUFFICES ASSUME FqIInv, FqIInv', [FqNext]_fqVars
                 PROVE  Fifo!Enter \/ Fifo!Leave \/ UNCHANGED <<QueuedItems, sent>>
      OBVIOUS
    <2>1. CASE Commit
      BY <2>1, CommitEnters
    <2>2. CASE Free
      BY <2>2, FreeLeaves
    <2>3. CASE UNCHANGED <<sent, got>>
      BY <2>3, QueuedNumbered, QueuedNumberedNext
    <2>4. Commit \/ Free \/ UNCHANGED <<sent, got>>
      BY DEF FqNext, Producer, Consumer, Reserve, ReserveFull, FillHeader, FillBits, CountPushed,
             Pop, CopyHeader, CopyBits, CountPopped, fqVars
    <2> QED BY <2>1, <2>2, <2>3, <2>4
  <1> QED BY <1>1, <1>2, FqInitInv, FqNextInv, PTL DEF FqSpec, FifoSpec, Fifo!Spec, QueuedItems

-----------------------------------------------------------------------------
(* ida_reassembler.c.                                                      *)

Chains ==
    [active : {TRUE}, uplink : BOOLEAN, freq_hz : Nat, next_ctr : 0 .. CtrMod - 1,
     last_time_us : Nat, payload : Seq(Offered), dirty : BOOLEAN]

\* What OpenChainsInOrder says of one session, and the direction it was opened
\* with.
SessionOK(s) ==
    /\ s \in Chains
    /\ Len(s.payload) \in 1 .. CtrMod
    /\ ChainOf(s.payload)
    /\ \A k \in 1 .. Len(s.payload) : s.payload[k].cont
    /\ s.next_ctr = Len(s.payload) % CtrMod
    /\ s.dirty <=> \E k \in 1 .. Len(s.payload) : ~s.payload[k].crc_ok
    /\ s.last_time_us = s.payload[Len(s.payload)].at
    /\ s.freq_hz = s.payload[1].freq_hz
    /\ s.uplink = s.payload[1].uplink

TableOK(ss) ==
    /\ ss = [i \in Sessions |-> ss[i]]
    /\ \A i \in Sessions : ss[i] = Inactive \/ SessionOK(ss[i])

LEMMA IdaConstants ==
  /\ MaxSessions \in Nat \ {0} /\ MaxFragments \in Nat \ {0} /\ CtrMod \in Nat \ {0, 1}
  /\ Deadband \in Nat /\ FragGap \in Nat /\ SessionTimeout \in Nat /\ FragGap < SessionTimeout
  BY IdaAssumption

LEMMA FrameFacts ==
  ASSUME NEW f \in Offered
  PROVE  /\ f.ctr \in 0 .. CtrMod - 1 /\ f.cont \in BOOLEAN /\ f.crc_ok \in BOOLEAN
         /\ f.uplink \in BOOLEAN /\ f.freq_hz \in Nat /\ f.at \in Nat /\ f.at \in Times
  BY IdaAssumption

LEMMA ActiveSessions ==
  ASSUME NEW ss, TableOK(ss), NEW i \in Active(ss)
  PROVE  i \in Sessions /\ SessionOK(ss[i])
  BY SMTT(30) DEF Active, TableOK, Inactive

\* The searches return a session of the set they search.
LEMMA SearchFacts ==
  ASSUME NEW S, S \subseteq Sessions, S # {}
  PROVE  LastOf(S) \in S /\ FirstOf(S) \in S
  <1>1. \E x \in S : \A y \in S : y <= x
    <2>1. S \subseteq 0 .. MaxSessions /\ MaxSessions \in Nat
      BY IdaConstants, SMTT(30) DEF Sessions
    <2> QED BY <2>1, GreatestMember
  <1>2. \E x \in S : \A y \in S : x <= y
    <2>1. S \subseteq Nat
      BY IdaConstants, SMTT(30) DEF Sessions
    <2> QED BY <2>1, LeastMember
  <1> QED BY <1>1, <1>2 DEF LastOf, FirstOf

\* A drain only closes sessions.
LEMMA DrainOK ==
  ASSUME NEW ss, TableOK(ss), NEW t
  PROVE  TableOK(AfterDrain(ss, t)) /\ Active(AfterDrain(ss, t)) \subseteq Active(ss)
  BY DEF TableOK, AfterDrain, Active, Inactive, Reaped

\* p, the n fragments of s and f after them, is a chain, and so is its mark.
ExtendedBy(s, f, p, n) ==
    /\ n \in 1 .. CtrMod - 1 /\ f.ctr = n
    /\ p \in Seq(Offered) /\ Len(p) = n + 1
    /\ ChainOf(p)
    /\ \A k \in 1 .. n : p[k] = s.payload[k]
    /\ p[n + 1] = f
    /\ DirtyAfter(s, f) <=> \E k \in 1 .. Len(p) : ~p[k].crc_ok

\* A frame that matches an open chain extends it.
LEMMA ExtendedChain ==
  ASSUME NEW s, SessionOK(s), NEW f \in Offered, f.ctr > 0, Matches(s, f)
  PROVE  ExtendedBy(s, f, Append(s.payload, f), Len(s.payload))
  <1> SUFFICES ASSUME NEW p, p = Append(s.payload, f), NEW n, n = Len(s.payload)
               PROVE  ExtendedBy(s, f, p, n)
    OBVIOUS
  <1>1. s \in Chains /\ s.payload \in Seq(Offered) /\ n \in 1 .. CtrMod
        /\ s.dirty \in BOOLEAN
    BY DEF SessionOK, Chains
  <1>2. n < CtrMod /\ f.ctr = n
    <2>1. n = CtrMod => n % CtrMod = 0
      <3>1. (0 + (1 * CtrMod)) % CtrMod = 0 % CtrMod /\ 0 % CtrMod = 0
        BY IdaConstants, ModMultiple, ModSmall, SMTT(30)
      <3> QED BY <3>1, IdaConstants, SMTT(30)
    <2>2. n \in 0 .. CtrMod - 1 => n % CtrMod = n
      BY IdaConstants, ModSmall
    <2>3. f.ctr = n % CtrMod
      BY DEF Matches, SessionOK
    <2> DEFINE m == n % CtrMod
    <2> HIDE DEF m
    <2>4. (n = CtrMod => m = 0) /\ (n \in 0 .. CtrMod - 1 => m = n) /\ f.ctr = m
      BY <2>1, <2>2, <2>3 DEF m
    <2> QED BY <2>4, <1>1, IdaConstants, SMTT(30)
  <1>3. /\ p \in Seq(Offered) /\ Len(p) = n + 1
        /\ \A k \in 1 .. n : p[k] = s.payload[k]
        /\ p[n + 1] = f
    BY <1>1, AppendProperties, SMTT(30)
  <1>4. \A k \in 1 .. n : s.payload[k] \in Offered
    BY <1>1, ElementOfSeq
  <1>5. ChainOf(p)
    <2>1. ChainOf(s.payload) /\ s.freq_hz = s.payload[1].freq_hz /\ s.uplink = s.payload[1].uplink
          /\ s.last_time_us = s.payload[n].at
      BY DEF SessionOK
    <2>2. f.uplink = s.uplink /\ InDeadband(s, f.freq_hz) /\ InTime(s, f.at)
      BY DEF Matches
    <2>3. f.freq_hz \in Nat /\ f.at \in Nat /\ s.freq_hz \in Nat /\ s.last_time_us \in Nat
      BY <1>1, FrameFacts DEF Chains
    <2>4. f.freq_hz - s.freq_hz \in -Deadband .. Deadband
      BY <2>2, <2>3, IdaConstants, SMTT(30) DEF InDeadband
    <2>5. f.at - s.last_time_us \in 0 .. FragGap
      BY <2>2, <2>3, IdaConstants, SMTT(30) DEF InTime
    <2>6. p[1] = s.payload[1]
      BY <1>1, <1>3, SMTT(30)
    <2>7. \A k \in 1 .. n + 1 : k # n + 1 => k \in 1 .. n
      BY <1>1, SMTT(30)
    <2>8. \A k \in 1 .. n + 1 : /\ p[k].ctr = k - 1
                                /\ p[k].uplink = p[1].uplink
                                /\ p[k].freq_hz - p[1].freq_hz \in -Deadband .. Deadband
      <3> TAKE k \in 1 .. n + 1
      <3>1. CASE k = n + 1
        BY <3>1, <2>1, <2>2, <2>4, <2>6, <1>1, <1>2, <1>3, SMTT(30)
      <3>2. CASE k # n + 1
        BY <3>2, <2>1, <2>6, <2>7, <1>1, <1>3 DEF ChainOf
      <3> QED BY <3>1, <3>2
    <2>9. \A k \in 1 .. n : p[k + 1].at - p[k].at \in 0 .. FragGap
      <3> TAKE k \in 1 .. n
      <3>1. CASE k = n
        BY <3>1, <2>1, <2>5, <1>1, <1>3
      <3>2. CASE k # n
        <4>1. k \in 1 .. n - 1 /\ k + 1 \in 1 .. n
          BY <3>2, <1>1, SMTT(30)
        <4> QED BY <4>1, <2>1, <1>3 DEF ChainOf
      <3> QED BY <3>1, <3>2
    <2>10. p[1].ctr = 0
      BY <2>1, <2>6 DEF ChainOf
    <2>11. 1 .. Len(p) - 1 = 1 .. n
      BY <1>1, <1>3, SMTT(30)
    <2> QED BY <2>8, <2>9, <2>10, <2>11, <1>3 DEF ChainOf
  <1>6. DirtyAfter(s, f) <=> \E k \in 1 .. Len(p) : ~p[k].crc_ok
    <2>1. s.dirty <=> \E k \in 1 .. n : ~s.payload[k].crc_ok
      BY DEF SessionOK
    <2>2. (\E k \in 1 .. n + 1 : ~p[k].crc_ok) <=>
             ((\E k \in 1 .. n : ~s.payload[k].crc_ok) \/ ~f.crc_ok)
      BY <1>1, <1>3, SMTT(30)
    <2> QED BY <2>1, <2>2, <1>3 DEF DirtyAfter
  <1>7. n \in 1 .. CtrMod - 1
    BY <1>1, <1>2, IdaConstants, SMTT(30)
  <1> QED BY <1>2, <1>3, <1>5, <1>6, <1>7 DEF ExtendedBy

\* A frame that opens a chain.
LEMMA OpenedChain ==
  ASSUME NEW f \in Offered, f.ctr = 0, Admissible(f)
  PROVE  /\ <<f>> \in Seq(Offered) /\ Len(<<f>>) = 1 /\ <<f>>[1] = f
         /\ ChainOf(<<f>>)
         /\ f.cont => SessionOK(Opened(f))
  <1>1. <<f>> \in Seq(Offered) /\ Len(<<f>>) = 1 /\ <<f>>[1] = f
    BY SMTT(30)
  <1>2. f.crc_ok
    BY FrameFacts, SMTT(30) DEF Admissible
  <1>3. f.freq_hz - f.freq_hz \in -Deadband .. Deadband
    BY FrameFacts, IdaConstants, SMTT(30)
  <1> DEFINE p == <<f>>
  <1>4. \A k \in 1 .. Len(p) : k = 1 /\ p[k] = f
    BY <1>1, SMTT(30)
  <1>5. 1 .. Len(p) - 1 = {}
    BY <1>1, SMTT(30)
  <1> HIDE DEF p
  <1>6. ChainOf(p)
    BY <1>1, <1>3, <1>4, <1>5, SMTT(30) DEF ChainOf, p
  <1>7. ASSUME f.cont PROVE SessionOK(Opened(f))
    <2>1. Opened(f) = [active |-> TRUE, uplink |-> f.uplink, freq_hz |-> f.freq_hz,
                       next_ctr |-> 1, last_time_us |-> f.at, payload |-> p, dirty |-> FALSE]
      BY DEF Opened, p
    <2>2. 1 \in 0 .. CtrMod - 1 /\ 1 % CtrMod = 1 /\ 1 \in 1 .. CtrMod
      BY IdaConstants, ModSmall, SMTT(30)
    <2>3. Opened(f) \in Chains
      BY <2>1, <2>2, <1>1, FrameFacts, SMTT(30) DEF Chains, p
    <2>4. Len(p) = 1 /\ p[1] = f
      BY <1>1 DEF p
    <2>5. ~\E k \in 1 .. Len(p) : ~p[k].crc_ok
      BY <1>2, <1>4
    <2>6. \A k \in 1 .. Len(p) : p[k].cont
      BY <1>4, <1>7
    <2> DEFINE x == Opened(f)
    <2>7. /\ x.uplink = f.uplink /\ x.freq_hz = f.freq_hz /\ x.next_ctr = 1
          /\ x.last_time_us = f.at /\ x.payload = p /\ x.dirty = FALSE /\ x \in Chains
      BY <2>1, <2>3, SMTT(30)
    <2> HIDE DEF x
    <2>8. SessionOK(x)
      BY <2>2, <2>4, <2>5, <2>6, <2>7, <1>6 DEF SessionOK
    <2> QED BY <2>8 DEF x
  <1> QED BY <1>1, <1>6, <1>7 DEF p

\* ida_reassembler_feed_ex keeps a table in order.
LEMMA FeedOK ==
  ASSUME NEW ss, TableOK(ss), NEW f \in Frames, Feed(ss, f)
  PROVE  TableOK(sessions')
  <1>1. f \in Offered /\ Admissible(f)
    BY DEF Frames
  <1>2. CASE FeedStandalone(ss, f) \/ FeedOrphan(ss, f)
    BY <1>2 DEF FeedStandalone, FeedOrphan
  <1>3. CASE FeedOpener(ss, f)
    <2>1. CASE Active(ss) = Sessions
      BY <2>1, <1>3 DEF FeedOpener
    <2>2. CASE Active(ss) # Sessions
      <3>1. Sessions \ Active(ss) # {} /\ Sessions \ Active(ss) \subseteq Sessions
        BY <2>2 DEF Active
      <3>2. find_free_session(ss) \in Sessions
        BY <3>1, SearchFacts DEF find_free_session
      <3>3. SessionOK(Opened(f))
        BY <1>1, <1>3, OpenedChain DEF FeedOpener
      <3>4. sessions' = [ss EXCEPT ![find_free_session(ss)] = Opened(f)]
        BY <2>2, <1>3 DEF FeedOpener
      <3> QED BY <3>2, <3>3, <3>4 DEF TableOK
    <2> QED BY <2>1, <2>2
  <1>4. CASE FeedContinuation(ss, f)
    <2> DEFINE i == find_matching_session(ss, f)
               s == ss[i]
               p == Append(s.payload, f)
               n == Len(s.payload)
    <2>1. matching_sessions(ss, f) \subseteq Sessions /\ matching_sessions(ss, f) # {} /\ f.ctr > 0
      BY <1>4 DEF FeedContinuation, matching_sessions, Active
    <2>2. i \in matching_sessions(ss, f)
      BY <2>1, SearchFacts DEF find_matching_session
    <2>3. i \in Sessions /\ SessionOK(s) /\ Matches(s, f)
      BY <2>2, ActiveSessions DEF matching_sessions, Active
    <2>4. sessions' = IF Len(s.payload) = MaxFragments \/ ~f.cont
                      THEN [ss EXCEPT ![i] = Inactive]
                      ELSE [ss EXCEPT ![i] =
                              [s EXCEPT !.payload = p, !.last_time_us = f.at,
                                        !.dirty = DirtyAfter(s, f), !.next_ctr = NextCtr(f)]]
      BY <1>4, <2>3 DEF FeedContinuation, TouchedAt, TableOK
    <2> HIDE DEF i
    <2>5. CASE Len(s.payload) = MaxFragments \/ ~f.cont
      BY <2>3, <2>4, <2>5 DEF TableOK
    <2>6. CASE ~(Len(s.payload) = MaxFragments \/ ~f.cont)
      <3> DEFINE x == [s EXCEPT !.payload = p, !.last_time_us = f.at,
                                !.dirty = DirtyAfter(s, f), !.next_ctr = NextCtr(f)]
      <3>1. SessionOK(x)
        <4>1. ExtendedBy(s, f, p, n)
          BY <2>1, <2>3, <1>1, ExtendedChain
        <4>2. /\ s \in Chains /\ s.freq_hz = s.payload[1].freq_hz
              /\ s.uplink = s.payload[1].uplink
              /\ \A k \in 1 .. n : s.payload[k].cont
          BY <2>3 DEF SessionOK
        <4>3. /\ x.payload = p /\ x.uplink = s.uplink /\ x.freq_hz = s.freq_hz
              /\ x.last_time_us = f.at /\ x.next_ctr = NextCtr(f)
              /\ x.dirty = DirtyAfter(s, f)
          <5> HIDE DEF p, n, s
          <5> QED BY <4>2 DEF Chains
        <4> HIDE DEF x, p, n, s
        <4> USE DEF ExtendedBy
        <4>4. n + 1 \in Nat /\ n + 1 \in 1 .. CtrMod /\ CtrMod \in Nat \ {0} /\ 1 \in 1 .. n
          BY <4>1, IdaConstants, SMTT(30)
        <4>5. NextCtr(f) = (n + 1) % CtrMod /\ NextCtr(f) \in 0 .. CtrMod - 1
          BY <4>1, <4>4, DivMod DEF NextCtr
        <4>6. DirtyAfter(s, f) \in BOOLEAN
          BY DEF DirtyAfter
        <4>7. x \in Chains
          BY <4>1, <4>2, <4>5, <4>6, <1>1, FrameFacts DEF Chains, x
        <4>8. \A k \in 1 .. Len(p) : p[k].cont
          <5> TAKE k \in 1 .. Len(p)
          <5>1. CASE k \in 1 .. n
            BY <5>1, <4>1, <4>2
          <5>2. CASE k = n + 1
            BY <5>2, <4>1, <2>6
          <5> QED BY <5>1, <5>2, <4>1, SMTT(30)
        <4>9. p[1] = s.payload[1]
          BY <4>1, <4>4
        <4> QED BY <4>1, <4>2, <4>4, <4>5, <4>7, <4>8, <4>9, <4>3, SMTT(30) DEF SessionOK
      <3>2. sessions' = [ss EXCEPT ![i] = x]
        BY <2>4, <2>6
      <3> HIDE DEF x
      <3> QED BY <3>1, <3>2, <2>3 DEF TableOK
    <2> QED BY <2>5, <2>6
  <1> QED BY <1>2, <1>3, <1>4 DEF Feed

\* What EmittedWhole says of one completion.
WholeChain(c) ==
    /\ ChainOf(c.payload)
    /\ \A k \in 1 .. Len(c.payload) : c.payload[k].cont <=> k # Len(c.payload)
    /\ c.dirty <=> \E k \in 1 .. Len(c.payload) : ~c.payload[k].crc_ok

LEMMA EmitOK ==
  ASSUME NEW ss, TableOK(ss), NEW f \in Frames, Completes(ss, f)
  PROVE  WholeChain(Completed(ss, f))
  <1> DEFINE c == Completed(ss, f)
  <1>1. f \in Offered /\ Admissible(f) /\ ~f.cont /\ f.ctr \in Nat
    BY FrameFacts, SMTT(30) DEF Frames, Completes
  <1>2. CASE f.ctr = 0
    <2>1. c.payload = <<f>> /\ c.dirty = FALSE
      BY <1>2 DEF Completed
    <2>2. /\ Len(<<f>>) = 1 /\ <<f>>[1] = f /\ ChainOf(<<f>>) /\ f.crc_ok
      BY <1>1, <1>2, OpenedChain, SMTT(30) DEF Admissible
    <2> HIDE DEF c
    <2>3. \A k \in 1 .. Len(c.payload) : k = 1 /\ c.payload[k] = f
      BY <2>1, <2>2, SMTT(30)
    <2>4. WholeChain(c)
      BY <2>1, <2>2, <2>3, <1>1 DEF WholeChain
    <2> QED BY <2>4 DEF c
  <1>3. CASE f.ctr # 0
    <2> DEFINE i == find_matching_session(ss, f)
               s == ss[i]
               p == Append(s.payload, f)
               n == Len(s.payload)
    <2>1. f.ctr > 0 /\ matching_sessions(ss, f) # {} /\ matching_sessions(ss, f) \subseteq Sessions
      BY <1>1, <1>3, SMTT(30) DEF Completes, matching_sessions, Active
    <2>2. i \in matching_sessions(ss, f)
      BY <2>1, SearchFacts DEF find_matching_session
    <2>3. i \in Sessions /\ SessionOK(s) /\ Matches(s, f)
      BY <2>2, ActiveSessions DEF matching_sessions, Active
    <2>4. ExtendedBy(s, f, p, n)
      BY <2>1, <2>3, <1>1, ExtendedChain
    <2>5. c = [payload |-> p, dirty |-> DirtyAfter(s, f)]
      BY <1>3 DEF Completed
    <2>6. \A k \in 1 .. n : s.payload[k].cont
      BY <2>3 DEF SessionOK
    <2> HIDE DEF c, p, n, s, i
    <2>7. c.payload = p /\ c.dirty = DirtyAfter(s, f)
      BY <2>5
    <2>8. \A k \in 1 .. Len(p) : p[k].cont <=> k # Len(p)
      <3> TAKE k \in 1 .. Len(p)
      <3>1. CASE k \in 1 .. n
        BY <3>1, <2>4, <2>6, SMTT(30) DEF ExtendedBy
      <3>2. CASE k = n + 1
        BY <3>2, <2>4, <1>1 DEF ExtendedBy
      <3> QED BY <3>1, <3>2, <2>4, SMTT(30) DEF ExtendedBy
    <2>9. WholeChain(c)
      BY <2>4, <2>7, <2>8 DEF WholeChain, ExtendedBy
    <2> QED BY <2>9 DEF c
  <1> QED BY <1>2, <1>3

-----------------------------------------------------------------------------
(* frame_decoder.c.                                                        *)

\* The newest air time was stamped on a frame that was popped with one of the
\* lags; until there is one, no chain is open.
ClockOK ==
    /\ env \in DOMAIN Environments
    /\ wall \in Nat /\ rf_now \in Nat /\ wall_at_rf \in Nat
    /\ rf_now = 0 => Active(sessions) = {}
    /\ rf_now # 0 => wall_at_rf - rf_now \in Lags

DecIInv == TableOK(sessions) /\ ClockOK /\ TrustedIsClean

LEMMA EnvironmentFacts ==
  ASSUME env \in DOMAIN Environments
  PROVE  ArrivingFrames \subseteq Offered /\ Lags \subseteq Nat /\ Instants \subseteq Nat
  BY DecoderAssumption DEF ArrivingFrames, Lags, Instants

\* The clock moves to a newer frame and the instant it was popped at.
LEMMA ClockAfter ==
  ASSUME ClockOK, NEW f \in ArrivingFrames, NEW w \in Instants, w - f.at \in Lags
  PROVE  /\ RfNowAfter(f.at) \in Nat \ {0} /\ WallAtRfAfter(f.at, w) \in Nat
         /\ WallAtRfAfter(f.at, w) - RfNowAfter(f.at) \in Lags
  <1>1. f \in Offered /\ w \in Nat
    BY EnvironmentFacts DEF ClockOK
  <1>2. f.at \in Nat \ {0}
    BY <1>1, FrameFacts, DecoderAssumption
  <1> QED BY <1>1, <1>2, SMTT(30) DEF ClockOK, RfNowAfter, WallAtRfAfter

\* Where a whole chain goes says whether it is clean.
LEMMA RouteOK ==
  ASSUME NEW c, WholeChain(c)
  PROVE  Clean(c.payload) <=> Route(c) = "sbd_reassembler_feed"
  BY DEF WholeChain, Clean, Route

LEMMA DecInitInv == DecInit => DecIInv
  <1> SUFFICES ASSUME DecInit PROVE DecIInv
    OBVIOUS
  <1>1. TableOK(sessions) /\ Active(sessions) = {}
    BY DEF DecInit, IdaInit, TableOK, Active, Inactive
  <1> QED BY <1>1 DEF DecInit, DecIInv, ClockOK, TrustedIsClean

LEMMA TickOK ==
  ASSUME TableOK(sessions), NEW rf, NEW at, NEW w
  PROVE  /\ TableOK(AfterTick(rf, at, w))
         /\ Active(AfterTick(rf, at, w)) \subseteq Active(sessions)
  <1>1. CASE TickDue(w)
    BY <1>1, DrainOK DEF AfterTick
  <1>2. CASE ~TickDue(w)
    BY <1>2 DEF AfterTick
  <1> QED BY <1>1, <1>2

LEMMA DecodeIdleInv ==
  ASSUME DecIInv, NEW w \in Instants, DecodeIdle(w)
  PROVE  DecIInv'
  <1>1. TableOK(sessions') /\ Active(sessions') \subseteq Active(sessions)
    BY TickOK DEF DecIInv, DecodeIdle
  <1>2. ClockOK'
    BY <1>1, EnvironmentFacts DEF DecIInv, ClockOK, DecodeIdle, Lags
  <1>3. TrustedIsClean'
    BY DEF DecodeIdle, TrustedIsClean
  <1>4. TableOK(sessions)'
    BY <1>1 DEF TableOK, SessionOK, Chains, ChainOf, Sessions, Inactive
  <1> QED BY <1>2, <1>3, <1>4 DEF DecIInv

LEMMA DecodeFrameInv ==
  ASSUME DecIInv, NEW w \in Instants, NEW f \in ArrivingFrames, DecodeFrame(f, w)
  PROVE  DecIInv'
  <1> DEFINE ss == AfterTick(rf_now', wall_at_rf', w)
             dd == AfterDrain(ss, f.at)
  <1>1. f \in Offered /\ w \in Nat
    BY EnvironmentFacts DEF DecIInv, ClockOK
  <1>2. TableOK(ss)
    BY TickOK DEF DecIInv
  <1>3. TableOK(dd)
    BY <1>2, DrainOK
  <1>4. ClockOK'
    BY <1>1, ClockAfter DEF DecIInv, ClockOK, DecodeFrame, Lags
  <1>5. \/ Admissible(f) /\ Process(ss, f)
        \/ sessions' = ss /\ routed' = {}
    BY DEF DecodeFrame
  <1> HIDE DEF ss
  <1>6. CASE Admissible(f) /\ Process(ss, f)
    <2>1. f \in Frames /\ Feed(dd, f)
      BY <1>1, <1>6 DEF Frames, Process
    <2>2. TableOK(sessions')
      BY <1>3, <2>1, FeedOK
    <2> DEFINE c == Completed(dd, f)
    <2>3. routed' = IF Completes(dd, f) THEN {[to |-> Route(c), clean |-> Clean(c.payload)]} ELSE {}
      BY <1>6 DEF Process
    <2>4. Completes(dd, f) => WholeChain(c)
      BY <1>3, <2>1, EmitOK
    <2> HIDE DEF c, dd
    <2>5. Completes(dd, f) => (Clean(c.payload) <=> Route(c) = "sbd_reassembler_feed")
      BY <2>4, RouteOK
    <2>6. TrustedIsClean'
      BY <2>3, <2>5, SMTT(30) DEF TrustedIsClean
    <2> QED BY <2>2, <2>6, <1>4 DEF DecIInv
  <1>7. CASE sessions' = ss /\ routed' = {}
    BY <1>2, <1>4, <1>7 DEF DecIInv, TrustedIsClean
  <1> QED BY <1>5, <1>6, <1>7

\* A chain that has been silent for longer than the timeout, by a clock that is
\* one of the lags behind the wall, has no continuation on its way.
LEMMA SilentIsDead ==
  ASSUME env \in DOMAIN Environments, Steady,
         NEW s, SessionOK(s), NEW w \in Nat, NEW t \in Int, w - t \in Lags,
         t - s.last_time_us > SessionTimeout
  PROVE  ~Alive(s, w)
  <1> SUFFICES ASSUME NEW g \in ArrivingFrames, Matches(s, g),
                      NEW d \in Lags, g.at + d >= w
               PROVE  FALSE
    BY DEF Alive
  <1>1. g.at \in Nat /\ d \in Nat /\ s.last_time_us \in Nat
    BY EnvironmentFacts, FrameFacts DEF SessionOK, Chains
  <1>2. d - (w - t) <= SessionTimeout - FragGap
    BY DEF Steady
  <1>3. g.at - s.last_time_us <= FragGap
    BY DEF Matches, InTime
  <1> QED BY <1>1, <1>2, <1>3, IdaConstants, SMTT(30)

LEMMA ReapsOnlyDeadHolds == DecIInv => ReapsOnlyDead
  <1> SUFFICES ASSUME DecIInv, Steady, NEW w \in Instants
               PROVE
        /\ TickDue(w) => \A i \in Reaped(sessions, DrainNow(rf_now, wall_at_rf, w)) :
                            ~Alive(sessions[i], w)
        /\ \A f \in ArrivingFrames : w - f.at \in Lags =>
              \A i \in Reaped(sessions, f.at)
                       \cup Reaped(sessions, DrainNow(RfNowAfter(f.at), WallAtRfAfter(f.at, w), w)) :
                  ~Alive(sessions[i], w)
    BY DEF ReapsOnlyDead
  <1>1. env \in DOMAIN Environments /\ w \in Nat /\ Lags \subseteq Nat
    BY EnvironmentFacts DEF DecIInv, ClockOK
  <1>2. \A t \in Int : w - t \in Lags =>
          \A i \in Reaped(sessions, t) : ~Alive(sessions[i], w)
    <2> SUFFICES ASSUME NEW t \in Int, w - t \in Lags, NEW i \in Reaped(sessions, t)
                 PROVE  ~Alive(sessions[i], w)
      OBVIOUS
    <2>1. SessionOK(sessions[i]) /\ t - sessions[i].last_time_us > SessionTimeout
      BY ActiveSessions DEF DecIInv, Reaped
    <2> QED BY <2>1, <1>1, SilentIsDead
  <1>3. \A rf \in Nat, at \in Nat :
           /\ DrainNow(rf, at, w) \in Int
           /\ w - DrainNow(rf, at, w) = at - rf
    BY <1>1, SMTT(30) DEF DrainNow
  <1>4. \A i \in Reaped(sessions, DrainNow(rf_now, wall_at_rf, w)) : ~Alive(sessions[i], w)
    <2>1. CASE rf_now = 0
      BY <2>1 DEF DecIInv, ClockOK, Reaped
    <2>2. CASE rf_now # 0
      BY <2>2, <1>2, <1>3 DEF DecIInv, ClockOK
    <2> QED BY <2>1, <2>2
  <1>5. ASSUME NEW f \in ArrivingFrames, w - f.at \in Lags
        PROVE  \A i \in Reaped(sessions, f.at)
                       \cup Reaped(sessions, DrainNow(RfNowAfter(f.at), WallAtRfAfter(f.at, w), w)) :
                  ~Alive(sessions[i], w)
    <2>1. f.at \in Int
      BY <1>1, EnvironmentFacts, FrameFacts, SMTT(30)
    <2>2. /\ RfNowAfter(f.at) \in Nat /\ WallAtRfAfter(f.at, w) \in Nat
          /\ WallAtRfAfter(f.at, w) - RfNowAfter(f.at) \in Lags
      BY <1>5, ClockAfter DEF DecIInv
    <2> QED BY <2>1, <2>2, <1>2, <1>3, <1>5
  <1> QED BY <1>4, <1>5

\* For tables, chains and counters of every size, every set of frames, lags
\* and instants, and every order of arrival: open chains hold consecutive
\* fragments, what is completed is a whole chain with a true dirty mark, only
\* clean chains are trusted, and no drain reaps a chain whose continuation is
\* still on its way.
THEOREM DecoderSafe ==
  DecSpec => [](OpenChainsInOrder /\ EmittedWhole /\ TrustedIsClean /\ ReapsOnlyDead)
  <1>1. DecIInv /\ [DecNext]_decVars => DecIInv'
    <2> SUFFICES ASSUME DecIInv, [DecNext]_decVars PROVE DecIInv'
      OBVIOUS
    <2>1. CASE DecNext
      BY <2>1, DecodeFrameInv, DecodeIdleInv DEF DecNext
    <2>2. CASE UNCHANGED decVars
      BY <2>2 DEF decVars, DecIInv, ClockOK, TrustedIsClean, Lags
    <2> QED BY <2>1, <2>2
  <1>2. DecIInv => OpenChainsInOrder
    <2> SUFFICES ASSUME DecIInv, NEW i \in Active(sessions)
                 PROVE  OpenChainsInOrder!(i)
      BY DEF OpenChainsInOrder
    <2>1. SessionOK(sessions[i])
      BY ActiveSessions DEF DecIInv
    <2> QED BY <2>1, IdaConstants, SMTT(30) DEF SessionOK, SalvageRecord
  <1>3. DecIInv => EmittedWhole
    BY EmitOK DEF DecIInv, EmittedWhole, WholeChain
  <1> QED BY DecInitInv, <1>1, <1>2, <1>3, ReapsOnlyDeadHolds, PTL DEF DecSpec, DecIInv

-----------------------------------------------------------------------------
(* sbd_reassembler.c.                                                      *)

SbdChains ==
    [active : {TRUE}, type : SbdTypes, uplink : BOOLEAN, msg_no_next : Nat, msg_cnt : Nat,
     last_update_us : Nat,
     msg : [type : SbdTypes, uplink : BOOLEAN, parts : Seq(Envelopes)]]

\* p holds parts 1 to n of the message with this header, up to the limit.
FirstParts(type, uplink, cnt, p, n) ==
    /\ p \in Seq(Envelopes) /\ Len(p) = Smaller(n, MaxParts)
    /\ p[1].msg_cnt = cnt
    /\ \A k \in 1 .. Len(p) :
          p[k].msg_no = k /\ p[k].type = type /\ p[k].uplink = uplink
    /\ \A k \in 1 .. Len(p) - 1 : p[k + 1].at - p[k].at <= SbdTimeout

\* What SbdSessionsInOrder says of one session, that its header is its
\* message's, and that its time is the last part's as long as parts are kept.
SbdSessionOK(s) ==
    /\ s \in SbdChains
    /\ s.msg_no_next \in 2 .. s.msg_cnt
    /\ FirstParts(s.type, s.uplink, s.msg_cnt, s.msg.parts, s.msg_no_next - 1)
    /\ s.msg.type = s.type /\ s.msg.uplink = s.uplink
    /\ Len(s.msg.parts) < MaxParts => s.last_update_us = s.msg.parts[Len(s.msg.parts)].at

SbdTableOK(ss) ==
    /\ ss = [i \in SbdSlots |-> ss[i]]
    /\ \A i \in SbdSlots : ss[i] = SbdIdle \/ SbdSessionOK(ss[i])

LEMMA SbdConstants ==
  /\ SbdMaxSessions \in Nat \ {0} /\ MaxParts \in Nat \ {0} /\ MsgCntMax \in Nat
  /\ SbdTimeout \in Nat /\ Counts \subseteq 0 .. 255 /\ SbdTimes \subseteq Nat
  BY SbdAssumption, SMTT(30)

LEMMA EnvelopeFacts ==
  ASSUME NEW e \in Envelopes
  PROVE  /\ e.type \in SbdTypes /\ e.uplink \in BOOLEAN /\ e.msg_no \in Nat
         /\ e.msg_cnt \in Nat \cup {-1} /\ e.at \in Nat
  <1>1. /\ e.type \in SbdTypes /\ e.uplink \in BOOLEAN /\ e.msg_no \in Counts
        /\ e.msg_cnt \in Counts \cup {-1} /\ e.at \in SbdTimes
    BY DEF Envelopes
  <1>2. \A c \in Counts : c \in Nat
    BY SbdConstants, SMTT(30)
  <1>3. \A t \in SbdTimes : t \in Nat
    BY SbdConstants
  <1> QED BY <1>1, <1>2, <1>3

LEMMA SbdActiveSessions ==
  ASSUME NEW ss, SbdTableOK(ss), NEW i \in SbdActive(ss)
  PROVE  i \in SbdSlots /\ SbdSessionOK(ss[i])
  BY SMTT(30) DEF SbdActive, SbdTableOK, SbdIdle

\* The searches return a session of the set they search.
LEMMA SbdSearchFacts ==
  ASSUME NEW ss, NEW e
  PROVE  /\ SbdMatching(ss, e) # {} => SbdFound(ss, e) \in SbdMatching(ss, e)
         /\ SbdActive(ss) # SbdSlots => SbdFree(ss) \in SbdSlots \ SbdActive(ss)
  <1>1. ASSUME SbdMatching(ss, e) # {} PROVE SbdFound(ss, e) \in SbdMatching(ss, e)
    <2>1. SbdMatching(ss, e) \subseteq 0 .. SbdMaxSessions /\ SbdMaxSessions \in Nat
      BY SbdConstants, SMTT(30) DEF SbdMatching, SbdActive, SbdSlots
    <2>2. \E x \in SbdMatching(ss, e) : \A y \in SbdMatching(ss, e) : y <= x
      BY <1>1, <2>1, GreatestMember
    <2> QED BY <2>2 DEF SbdFound
  <1>2. ASSUME SbdActive(ss) # SbdSlots PROVE SbdFree(ss) \in SbdSlots \ SbdActive(ss)
    <2> DEFINE S == SbdSlots \ SbdActive(ss)
    <2>1. S \subseteq Nat /\ S # {}
      BY <1>2, SbdConstants, SMTT(30) DEF SbdActive, SbdSlots
    <2>2. \E x \in S : \A y \in S : x <= y
      <3> HIDE DEF S
      <3> QED BY <2>1, LeastMember
    <2> QED BY <2>2 DEF SbdFree
  <1> QED BY <1>1, <1>2

\* A sweep only closes sessions, and leaves none that has expired.
LEMMA SbdTickOK ==
  ASSUME NEW ss, SbdTableOK(ss), NEW t
  PROVE  /\ SbdTableOK(SbdTick(ss, t))
         /\ \A i \in SbdActive(SbdTick(ss, t)) : ~Expires(SbdTick(ss, t)[i], t)
  BY DEF SbdTableOK, SbdTick, SbdActive, SbdIdle

\* The part a session waits for follows those it has.
LEMMA NextPart ==
  ASSUME NEW s, SbdSessionOK(s), NEW e \in Envelopes, SbdMatches(s, e), ~Expires(s, e.at)
  PROVE  FirstParts(s.type, s.uplink, s.msg_cnt, AppendPart(s.msg.parts, e), s.msg_no_next)
  <1> DEFINE p == s.msg.parts
             q == AppendPart(p, e)
             m == Len(p)
             n == s.msg_no_next
  <1>1. /\ p \in Seq(Envelopes) /\ n \in Nat /\ s.msg_cnt \in Nat /\ s.last_update_us \in Nat
        /\ n \in 2 .. s.msg_cnt
        /\ FirstParts(s.type, s.uplink, s.msg_cnt, p, n - 1)
        /\ m < MaxParts => s.last_update_us = p[m].at
    BY DEF SbdSessionOK, SbdChains
  <1>2. e.msg_no = n /\ e.type = s.type /\ e.uplink = s.uplink
    BY DEF SbdMatches
  <1>3. e.at - s.last_update_us <= SbdTimeout
    BY <1>1, EnvelopeFacts, SbdConstants, SMTT(30) DEF Expires
  <1>4. m = Smaller(n - 1, MaxParts) /\ m \in Nat /\ m >= 1
    BY <1>1, SbdConstants, LenProperties, SMTT(30) DEF FirstParts, Smaller
  <1>5. CASE m < MaxParts
    <2>1. m = n - 1 /\ n = Smaller(n, MaxParts)
      BY <1>1, <1>4, <1>5, SbdConstants, SMTT(30) DEF Smaller
    <2>2. q = Append(p, e)
      BY <1>5 DEF AppendPart
    <2>3. /\ q \in Seq(Envelopes) /\ Len(q) = m + 1
          /\ \A k \in 1 .. m : q[k] = p[k]
          /\ q[m + 1] = e
      BY <1>1, <2>2, AppendProperties, SMTT(30)
    <2> HIDE DEF p, q, m, n
    <2>4. \A k \in 1 .. m + 1 : q[k].msg_no = k /\ q[k].type = s.type /\ q[k].uplink = s.uplink
      <3> TAKE k \in 1 .. m + 1
      <3>1. CASE k \in 1 .. m
        BY <3>1, <2>3, <1>1 DEF FirstParts, m
      <3>2. CASE k = m + 1
        BY <3>2, <2>1, <2>3, <1>1, <1>2, SMTT(30)
      <3> QED BY <3>1, <3>2, <1>4, SMTT(30)
    <2>5. \A k \in 1 .. m : q[k + 1].at - q[k].at <= SbdTimeout
      <3> TAKE k \in 1 .. m
      <3>1. CASE k \in 1 .. m - 1
        <4>1. k + 1 \in 1 .. m
          BY <3>1, <1>4, SMTT(30)
        <4> QED BY <3>1, <4>1, <2>3, <1>1 DEF FirstParts, m
      <3>2. CASE k = m
        BY <3>2, <2>3, <1>1, <1>3, <1>5, SMTT(30)
      <3> QED BY <3>1, <3>2, <1>4, SMTT(30)
    <2>6. q[1].msg_cnt = s.msg_cnt
      BY <2>3, <1>1, <1>4, SMTT(30) DEF FirstParts
    <2>7. Len(q) = Smaller(n, MaxParts) /\ 1 .. Len(q) = 1 .. m + 1 /\ 1 .. Len(q) - 1 = 1 .. m
      BY <2>1, <2>3, <1>1, <1>4, SMTT(30)
    <2>8. FirstParts(s.type, s.uplink, s.msg_cnt, q, n)
      BY <2>3, <2>4, <2>5, <2>6, <2>7 DEF FirstParts
    <2> QED BY <2>8 DEF p, q, n
  <1>6. CASE ~(m < MaxParts)
    <2>1. q = p
      BY <1>6 DEF AppendPart
    <2>2. m = Smaller(n, MaxParts)
      BY <1>1, <1>4, <1>6, SbdConstants, SMTT(30) DEF Smaller
    <2> HIDE DEF q, n
    <2>3. FirstParts(s.type, s.uplink, s.msg_cnt, q, n)
      BY <2>1, <2>2, <1>1 DEF FirstParts
    <2> QED BY <2>3 DEF q, n
  <1> QED BY <1>5, <1>6

\* A message that starts with e.
LEMMA FirstPart ==
  ASSUME NEW e \in Envelopes, e.msg_no = 1
  PROVE  FirstParts(e.type, e.uplink, e.msg_cnt, <<e>>, 1)
  <1> DEFINE p == <<e>>
  <1>1. p \in Seq(Envelopes) /\ Len(p) = 1 /\ p[1] = e
    BY SMTT(30)
  <1> HIDE DEF p
  <1>2. 1 = Smaller(1, MaxParts)
    BY SbdConstants, SMTT(30) DEF Smaller
  <1>3. \A k \in 1 .. Len(p) : k = 1 /\ p[k] = e
    BY <1>1, SMTT(30)
  <1>4. 1 .. Len(p) - 1 = {}
    BY <1>1, SMTT(30)
  <1>5. FirstParts(e.type, e.uplink, e.msg_cnt, p, 1)
    BY <1>1, <1>2, <1>3, <1>4, SMTT(30) DEF FirstParts
  <1> QED BY <1>5 DEF p

LEMMA SbdOpenedOK ==
  ASSUME NEW e \in Envelopes, IsFirst(e)
  PROVE  SbdSessionOK(SbdOpened(e))
  <1> DEFINE x == SbdOpened(e)
             m == [type |-> e.type, uplink |-> e.uplink, parts |-> <<e>>]
  <1>1. e.msg_no = 1 /\ e.msg_cnt \in Nat /\ 2 \in 2 .. e.msg_cnt
    BY EnvelopeFacts, SMTT(30) DEF IsFirst
  <1>2. FirstParts(e.type, e.uplink, e.msg_cnt, <<e>>, 1)
    BY <1>1, FirstPart
  <1>3. <<e>> \in Seq(Envelopes) /\ Len(<<e>>) = 1 /\ <<e>>[1] = e
    BY SMTT(30)
  <1>4. m \in [type : SbdTypes, uplink : BOOLEAN, parts : Seq(Envelopes)]
    BY <1>3, EnvelopeFacts
  <1>5. x = [active |-> TRUE, type |-> e.type, uplink |-> e.uplink, msg_no_next |-> 2,
             msg_cnt |-> e.msg_cnt, last_update_us |-> e.at, msg |-> m]
    BY DEF SbdOpened
  <1>6. m.type = e.type /\ m.uplink = e.uplink /\ m.parts = <<e>>
    OBVIOUS
  <1> HIDE DEF x, m
  <1>7. /\ x.type = e.type /\ x.uplink = e.uplink /\ x.msg_no_next = 2
        /\ x.msg_cnt = e.msg_cnt /\ x.last_update_us = e.at /\ x.msg = m
    BY <1>5
  <1>8. x \in SbdChains
    BY <1>1, <1>4, <1>5, EnvelopeFacts DEF SbdChains
  <1>9. SbdSessionOK(x)
    <2>1. FirstParts(x.type, x.uplink, x.msg_cnt, x.msg.parts, x.msg_no_next - 1)
      <3>1. x.msg_no_next - 1 = 1
        BY <1>7, SMTT(30)
      <3> QED BY <3>1, <1>2, <1>6, <1>7
    <2>2. x.msg.parts[Len(x.msg.parts)].at = x.last_update_us
      BY <1>3, <1>6, <1>7
    <2> QED BY <2>1, <2>2, <1>1, <1>6, <1>7, <1>8, SMTT(30) DEF SbdSessionOK
  <1> QED BY <1>9 DEF x

\* A session that takes its next but not last part.
LEMMA SbdContinuedOK ==
  ASSUME NEW s, SbdSessionOK(s), NEW e \in Envelopes, SbdMatches(s, e), ~Expires(s, e.at),
         e.msg_no # s.msg_cnt
  PROVE  SbdSessionOK([s EXCEPT !.msg.parts = AppendPart(s.msg.parts, e),
                                !.msg_no_next = NextNo(e), !.last_update_us = e.at])
  <1> DEFINE q == AppendPart(s.msg.parts, e)
             x == [s EXCEPT !.msg.parts = q, !.msg_no_next = NextNo(e), !.last_update_us = e.at]
  <1>1. s \in SbdChains /\ s.msg \in [type : SbdTypes, uplink : BOOLEAN, parts : Seq(Envelopes)]
    BY DEF SbdSessionOK, SbdChains
  <1>2. FirstParts(s.type, s.uplink, s.msg_cnt, q, s.msg_no_next)
    BY NextPart
  <1>3. q \in Seq(Envelopes)
    BY <1>2 DEF FirstParts
  <1>4. /\ e.msg_no = s.msg_no_next /\ s.msg_no_next \in 2 .. s.msg_cnt
        /\ s.msg_no_next \in Nat /\ s.msg_cnt \in Nat /\ e.at \in Nat
    BY <1>1, EnvelopeFacts DEF SbdMatches, SbdSessionOK, SbdChains
  <1>5. NextNo(e) \in 2 .. s.msg_cnt /\ NextNo(e) \in Nat /\ NextNo(e) - 1 = s.msg_no_next
    BY <1>4, SMTT(30) DEF NextNo
  <1>6. Len(q) < MaxParts => q[Len(q)] = e
    <2>1. s.msg.parts \in Seq(Envelopes) /\ Len(s.msg.parts) \in Nat
      BY <1>1, LenProperties
    <2>2. Len(s.msg.parts) < MaxParts => q = Append(s.msg.parts, e) /\ Len(q) = Len(s.msg.parts) + 1
      BY <2>1, AppendProperties, SMTT(30) DEF AppendPart
    <2>3. ~(Len(s.msg.parts) < MaxParts) => q = s.msg.parts
      BY DEF AppendPart
    <2>4. Append(s.msg.parts, e)[Len(s.msg.parts) + 1] = e
      BY <2>1, AppendProperties, SMTT(30)
    <2> HIDE DEF q
    <2> QED BY <2>2, <2>3, <2>4
  <1>7. s.msg.type = s.type /\ s.msg.uplink = s.uplink
    BY DEF SbdSessionOK
  <1> HIDE DEF q
  <1>8. /\ x.msg.parts = q /\ x.msg.type = s.msg.type /\ x.msg.uplink = s.msg.uplink
        /\ x.msg_no_next = NextNo(e) /\ x.last_update_us = e.at
        /\ x.msg_cnt = s.msg_cnt /\ x.type = s.type /\ x.uplink = s.uplink
    BY <1>1 DEF SbdChains
  <1>9. x \in SbdChains
    BY <1>1, <1>3, <1>4, <1>5 DEF SbdChains
  <1> HIDE DEF x
  <1>10. SbdSessionOK(x)
    <2>1. FirstParts(x.type, x.uplink, x.msg_cnt, x.msg.parts, x.msg_no_next - 1)
      BY <1>2, <1>5, <1>8
    <2>2. x.msg_no_next \in 2 .. x.msg_cnt
      BY <1>5, <1>8
    <2>3. x.msg.type = x.type /\ x.msg.uplink = x.uplink
      BY <1>7, <1>8
    <2>4. Len(x.msg.parts) < MaxParts => x.last_update_us = x.msg.parts[Len(x.msg.parts)].at
      BY <1>6, <1>8
    <2> QED BY <2>1, <2>2, <2>3, <2>4, <1>9, SMTT(30) DEF SbdSessionOK
  <1> QED BY <1>10 DEF x, q

\* Feeding an envelope keeps a table in order from which the expired sessions
\* have been swept.
LEMMA SbdAfterOK ==
  ASSUME NEW ss, SbdTableOK(ss), NEW e \in Envelopes,
         \A i \in SbdActive(ss) : ~Expires(ss[i], e.at)
  PROVE  SbdTableOK(SbdAfter(ss, e))
  <1> DEFINE after == SbdAfter(ss, e)
  <1>1. CASE IsShort(e) \/ IsSingle(e)
    BY <1>1 DEF SbdAfter
  <1>2. CASE ~(IsShort(e) \/ IsSingle(e)) /\ IsFirst(e)
    <2>1. CASE SbdActive(ss) = SbdSlots
      BY <1>2, <2>1 DEF SbdAfter
    <2>2. CASE SbdActive(ss) # SbdSlots
      <3>1. SbdFree(ss) \in SbdSlots
        BY <2>2, SbdSearchFacts
      <3>2. SbdSessionOK(SbdOpened(e))
        BY <1>2, SbdOpenedOK
      <3>3. after = [ss EXCEPT ![SbdFree(ss)] = SbdOpened(e)]
        BY <1>2, <2>2 DEF SbdAfter
      <3> HIDE DEF after
      <3>4. SbdTableOK(after)
        BY <3>1, <3>2, <3>3 DEF SbdTableOK
      <3> QED BY <3>4 DEF after
    <2> QED BY <2>1, <2>2
  <1>3. CASE ~(IsShort(e) \/ IsSingle(e)) /\ ~IsFirst(e)
    <2>1. CASE ~IsLater(e) \/ SbdMatching(ss, e) = {}
      BY <1>3, <2>1 DEF SbdAfter
    <2>2. CASE IsLater(e) /\ SbdMatching(ss, e) # {}
      <3> DEFINE i == SbdFound(ss, e)
                 s == ss[i]
                 x == [s EXCEPT !.msg.parts = AppendPart(s.msg.parts, e),
                                !.msg_no_next = NextNo(e), !.last_update_us = e.at]
      <3>1. i \in SbdActive(ss) /\ SbdMatches(s, e)
        BY <2>2, SbdSearchFacts DEF SbdMatching
      <3>2. i \in SbdSlots /\ SbdSessionOK(s) /\ ~Expires(s, e.at)
        BY <3>1, SbdActiveSessions
      <3>3. after = IF e.msg_no = s.msg_cnt THEN [ss EXCEPT ![i] = SbdIdle]
                    ELSE [ss EXCEPT ![i] = x]
        BY <1>3, <2>2, <3>2 DEF SbdAfter, SbdTableOK
      <3>4. e.msg_no # s.msg_cnt => SbdSessionOK(x)
        BY <3>1, <3>2, SbdContinuedOK
      <3> HIDE DEF after, x, i
      <3>5. SbdTableOK(after)
        BY <3>2, <3>3, <3>4 DEF SbdTableOK
      <3> QED BY <3>5 DEF after
    <2> QED BY <2>1, <2>2
  <1> QED BY <1>1, <1>2, <1>3

\* What SbdEmittedWhole says of one envelope and the swept table it is fed to.
WholeMessage(ss, e) ==
    LET m == SbdMessage(ss, e) IN
      \/ IsShort(e) /\ m.parts = <<e>>
      \/ /\ PartsInOrder(m)
         /\ LET cnt == m.parts[1].msg_cnt
            IN  Len(m.parts) = IF cnt < MaxParts THEN cnt ELSE MaxParts

LEMMA SbdEmitOK ==
  ASSUME NEW ss, SbdTableOK(ss), NEW e \in Envelopes,
         \A i \in SbdActive(ss) : ~Expires(ss[i], e.at), SbdCompletes(ss, e)
  PROVE  WholeMessage(ss, e)
  <1> DEFINE m == SbdMessage(ss, e)
  <1>1. CASE IsShort(e)
    BY <1>1 DEF SbdMessage, WholeMessage
  <1>2. CASE IsSingle(e)
    <2>1. m = [type |-> e.type, uplink |-> e.uplink, parts |-> <<e>>]
      BY <1>2 DEF SbdMessage
    <2>2. FirstParts(e.type, e.uplink, 1, <<e>>, 1)
      BY <1>2, FirstPart DEF IsSingle
    <2> HIDE DEF m
    <2>3. m.parts = <<e>> /\ m.type = e.type /\ m.uplink = e.uplink
      BY <2>1
    <2>4. FirstParts(m.type, m.uplink, 1, m.parts, 1)
      BY <2>2, <2>3
    <2>5. PartsInOrder(m) /\ Len(m.parts) = Smaller(m.parts[1].msg_cnt, MaxParts)
      BY <2>4 DEF FirstParts, PartsInOrder
    <2> QED BY <2>5 DEF WholeMessage, Smaller, m
  <1>3. CASE ~IsShort(e) /\ ~IsSingle(e)
    <2> DEFINE i == SbdFound(ss, e)
               s == ss[i]
               q == AppendPart(s.msg.parts, e)
    <2>1. IsLater(e) /\ SbdMatching(ss, e) # {} /\ e.msg_no = s.msg_cnt
      BY <1>3 DEF SbdCompletes
    <2>2. i \in SbdActive(ss) /\ SbdMatches(s, e)
      BY <2>1, SbdSearchFacts DEF SbdMatching
    <2>3. SbdSessionOK(s) /\ ~Expires(s, e.at)
      BY <2>2, SbdActiveSessions
    <2>4. FirstParts(s.type, s.uplink, s.msg_cnt, q, s.msg_no_next)
      BY <2>2, <2>3, NextPart
    <2>5. m = [s.msg EXCEPT !.parts = q]
      BY <1>3 DEF SbdMessage
    <2>6. s.msg \in [type : SbdTypes, uplink : BOOLEAN, parts : Seq(Envelopes)]
          /\ s.msg.type = s.type /\ s.msg.uplink = s.uplink
      BY <2>3 DEF SbdSessionOK, SbdChains
    <2> HIDE DEF m, q, s
    <2>7. m.parts = q /\ m.type = s.type /\ m.uplink = s.uplink
      BY <2>5, <2>6
    <2>8. s.msg_no_next = s.msg_cnt
      BY <2>1, <2>2 DEF SbdMatches
    <2>9. FirstParts(m.type, m.uplink, s.msg_cnt, m.parts, s.msg_cnt)
      BY <2>4, <2>7, <2>8
    <2>10. PartsInOrder(m) /\ Len(m.parts) = Smaller(m.parts[1].msg_cnt, MaxParts)
      BY <2>9 DEF FirstParts, PartsInOrder
    <2> QED BY <2>10 DEF WholeMessage, Smaller, m
  <1> QED BY <1>1, <1>2, <1>3

\* Feeding and sweeping keep the table in order ...
LEMMA SbdFeedOK ==
  ASSUME SbdTableOK(sbd), NEW e \in Envelopes, SbdFeed(e)
  PROVE  SbdTableOK(sbd')
  BY SbdTickOK, SbdAfterOK DEF SbdFeed

LEMMA SbdStepOK ==
  ASSUME SbdTableOK(sbd), SbdNext
  PROVE  SbdTableOK(sbd')
  <1>1. ASSUME NEW e \in Envelopes, SbdFeed(e) PROVE SbdTableOK(sbd')
    BY <1>1, SbdFeedOK
  <1>2. ASSUME NEW t \in SbdTimes, SbdSweep(t) PROVE SbdTableOK(sbd')
    BY <1>2, SbdTickOK DEF SbdSweep
  <1> QED BY <1>1, <1>2 DEF SbdNext

\* ... and a table in order emits whole messages.
LEMMA SbdTableSound ==
  ASSUME SbdTableOK(sbd)
  PROVE  SbdSessionsInOrder /\ SbdEmittedWhole
  <1>1. SbdSessionsInOrder
    <2> SUFFICES ASSUME NEW i \in SbdActive(sbd)
                 PROVE  SbdSessionsInOrder!(i)
      BY DEF SbdSessionsInOrder
    <2>1. SbdSessionOK(sbd[i])
      BY SbdActiveSessions
    <2> QED BY <2>1, SMTT(30) DEF SbdSessionOK, FirstParts, PartsInOrder, Smaller, SbdChains
  <1>2. SbdEmittedWhole
    <2> SUFFICES ASSUME NEW e \in Envelopes, SbdCompletes(SbdTick(sbd, e.at), e)
                 PROVE  WholeMessage(SbdTick(sbd, e.at), e)
      BY DEF SbdEmittedWhole, WholeMessage
    <2> QED BY SbdTickOK, SbdEmitOK
  <1> QED BY <1>1, <1>2

\* For every number of sessions, part count, timeout and payload limit, and
\* every order in which envelopes and sweeps come: a session holds the first
\* parts of one message in order, and what is emitted is whole.
THEOREM SbdSafe == SbdSpec => [](SbdSessionsInOrder /\ SbdEmittedWhole)
  <1>1. SbdInit => SbdTableOK(sbd)
    BY DEF SbdInit, SbdTableOK
  <1>2. SbdTableOK(sbd) /\ [SbdNext]_sbdVars => SbdTableOK(sbd)'
    BY SbdStepOK DEF sbdVars
  <1>3. SbdTableOK(sbd) => SbdSessionsInOrder /\ SbdEmittedWhole
    BY SbdTableSound
  <1> QED BY <1>1, <1>2, <1>3, PTL DEF SbdSpec

-----------------------------------------------------------------------------
(* The two parsers of sbd_reassembler.c, over every envelope.              *)

\* The hand-made copy of the parser in sbd_salvage_parse reads what
\* sbd_reassembler_feed accepts the same way, and keeps of what it rejects only
\* what it calls truncated; and neither reads past the envelope's last byte.
THEOREM ParsersAgree == \A e \in AnyEnvelope : SalvageAgrees(e) /\ WithinEnvelope(e)
  <1> SUFFICES ASSUME NEW e \in AnyEnvelope PROVE SalvageAgrees(e) /\ WithinEnvelope(e)
    OBVIOUS
  <1>1. e.n \in Nat /\ e.declared \in Nat /\ e.count \in Nat /\ MaxBody \in Nat
    BY SbdParseAssumption, SMTT(30) DEF AnyEnvelope
  <1>2. SalvageAgrees(e)
    <2>1. CASE ~InDirection(e.type, e.uplink)
      BY <2>1 DEF SalvageAgrees, FeedParse, SalvageParse, Rejected
    <2>2. CASE InDirection(e.type, e.uplink) /\ e.type = "hello_0600"
      BY <2>2, <1>1, SMTT(30) DEF SalvageAgrees, FeedParse, SalvageParse, Rejected, Accepted, CutPrehdr
    <2>3. CASE InDirection(e.type, e.uplink) /\ e.type # "hello_0600"
      <3> DEFINE pre  == PrehdrLen(e)
                 at   == pre + AckLen(e, e.n - pre)
                 left == e.n - at
      <3>1. pre \in Nat /\ at \in Nat
        BY SMTT(30) DEF PrehdrLen, AckLen
      <3>2. CASE e.n < pre
        BY <2>3, <3>2, SMTT(30) DEF SalvageAgrees, FeedParse, SalvageParse, Rejected, Accepted, CutPrehdr
      <3>3. CASE ~(e.n < pre) /\ ~(left > 3 /\ e.sub)
        <4>1. SalvageParse(e) = Accepted(e, 0, MsgCnt(e), at, left, FALSE)
          BY <2>3, <3>3 DEF SalvageParse
        <4>2. FeedParse(e) \in {Rejected, Accepted(e, 0, MsgCnt(e), at, left, FALSE)}
              /\ (FeedParse(e) = Rejected => e.n < 3)
          BY <2>3, <3>3 DEF FeedParse, Rejected, Accepted
        <4> QED BY <4>1, <4>2, <1>1, SMTT(30) DEF SalvageAgrees, Rejected, Accepted
      <3>4. CASE ~(e.n < pre) /\ left > 3 /\ e.sub
        <4>1. SalvageParse(e) = Accepted(e, e.msg_no, MsgCnt(e), at + 3,
                                         SalvageBody(e, left - 3), left - 3 < e.declared)
          BY <2>3, <3>4 DEF SalvageParse
        <4>2. ~(e.n < 3)
          BY <3>1, <3>4, <1>1, SMTT(30)
        <4>3. CASE left - 3 < e.declared
          <5>1. FeedParse(e) = Rejected
            BY <2>3, <3>4, <4>3, <4>2 DEF FeedParse
          <5>2. (left - 3 < e.declared) = TRUE
            BY <4>3
          <5>3. SalvageParse(e) = Accepted(e, e.msg_no, MsgCnt(e), at + 3,
                                           SalvageBody(e, left - 3), TRUE)
            BY <4>1, <5>2
          <5>4. SalvageParse(e).truncated = TRUE /\ FeedParse(e).ok = FALSE
            BY <5>1, <5>3, SMTT(30) DEF Rejected, Accepted
          <5> QED BY <5>4 DEF SalvageAgrees
        <4>4. CASE ~(left - 3 < e.declared)
          <5>1. SalvageBody(e, left - 3) = e.declared
            BY <4>4, <3>1, <1>1 DEF SalvageBody, Smaller
          <5>2. FeedParse(e) = Accepted(e, e.msg_no, MsgCnt(e), at + 3, e.declared, FALSE)
            BY <2>3, <3>4, <4>4, <4>2 DEF FeedParse
          <5>3. (left - 3 < e.declared) = FALSE
            BY <4>4, SMTT(30)
          <5> QED BY <4>1, <5>1, <5>2, <5>3 DEF SalvageAgrees, Accepted
        <4> QED BY <4>3, <4>4
      <3> QED BY <3>2, <3>3, <3>4
    <2> QED BY <2>1, <2>2, <2>3
  <1>3. WithinEnvelope(e)
    BY <1>1, SMTT(30) DEF WithinEnvelope, FeedParse, SalvageParse, Rejected, Accepted, CutPrehdr,
           PrehdrLen, MsgCnt, AckLen, HelloNo, SalvageBody, Smaller
  <1> QED BY <1>2, <1>3

\* What the parse accepts has one of the headers that Envelopes lists.
LEMMA ParseYields ==
  ASSUME NEW e \in RawEnvelopes, FeedParse(e).ok
  PROVE  LET f == FeedParse(e)
         IN  /\ f.type \in SbdTypes /\ f.uplink \in BOOLEAN
             /\ f.msg_no \in Counts /\ f.msg_cnt \in Counts \cup {-1}
             /\ HeaderOK(f.type, f.uplink, f.msg_no, f.msg_cnt)
  <1> DEFINE f == FeedParse(e)
  <1>1. /\ e.type \in SbdTypes /\ e.uplink \in BOOLEAN /\ e.count \in Counts /\ e.msg_no \in Counts
        /\ 0 \in Counts /\ 1 \in Counts
    BY RawAssumption DEF AnyEnvelope
  <1>2. e.count # -1
    BY <1>1, SbdAssumption, SMTT(30)
  <1>3. /\ InDirection(e.type, e.uplink)
        /\ \E no, cnt, at, body :
              /\ f = Accepted(e, no, cnt, at, body, FALSE)
              /\ \/ e.type = "hello_0600" /\ no = HelloNo(e) /\ cnt = e.count
                 \/ e.type # "hello_0600" /\ no \in {0, e.msg_no} /\ cnt = MsgCnt(e)
    <2>1. Rejected.ok = FALSE
      BY DEF Rejected
    <2> QED BY <2>1 DEF FeedParse
  <1>4. PICK no, cnt, at, body :
              /\ f = Accepted(e, no, cnt, at, body, FALSE)
              /\ \/ e.type = "hello_0600" /\ no = HelloNo(e) /\ cnt = e.count
                 \/ e.type # "hello_0600" /\ no \in {0, e.msg_no} /\ cnt = MsgCnt(e)
    BY <1>3
  <1> HIDE DEF f
  <1>5. f.type = e.type /\ f.uplink = e.uplink /\ f.msg_no = no /\ f.msg_cnt = cnt
    BY <1>4 DEF Accepted
  <1>6. no \in Counts /\ cnt \in Counts \cup {-1}
    BY <1>1, <1>4, SMTT(30) DEF HelloNo, MsgCnt
  <1>7. HeaderOK(e.type, e.uplink, no, cnt)
    BY <1>1, <1>2, <1>3, <1>4, SMTT(30) DEF HeaderOK, HelloNo, MsgCnt, SbdTypes
  <1> QED BY <1>1, <1>5, <1>6, <1>7 DEF f

\* From raw bytes on, for every set of raw envelopes: the two parsers agree on
\* the envelope to be fed and stay inside it, and what its parse makes of the
\* table is in order and emitted whole.
THEOREM RawFeedsSafe ==
    RawSpec => [](SalvageMirrorsFeed /\ ParsersInBounds /\ SbdSessionsInOrder /\ SbdEmittedWhole)
  <1> DEFINE Inv == SbdTableOK(sbd) /\ raw_env \in RawEnvelopes \cup {Nothing}
  <1>1. RawInit => Inv
    BY DEF RawInit, SbdInit, SbdTableOK
  <1>2. Inv /\ [FeedFirst \/ FeedNext]_<<sbdVars, raw_env>> => Inv'
    <2> SUFFICES ASSUME Inv, [FeedFirst \/ FeedNext]_<<sbdVars, raw_env>>
                 PROVE  SbdTableOK(sbd') /\ raw_env' \in RawEnvelopes \cup {Nothing}
      OBVIOUS
    <2>1. CASE FeedFirst
      <3> DEFINE f == FeedParse(raw_env)
      <3>1. raw_env \in RawEnvelopes /\ raw_env' = Nothing /\ SbdFeedRaw(raw_env, 0)
        BY <2>1 DEF FeedFirst
      <3>2. CASE ~f.ok
        BY <3>1, <3>2 DEF SbdFeedRaw, sbdVars
      <3>3. CASE f.ok
        <4>1. PICK d \in Data : SbdFeed([type |-> f.type, uplink |-> f.uplink, msg_no |-> f.msg_no,
                                         msg_cnt |-> f.msg_cnt, at |-> 0, data |-> d])
          BY <3>1, <3>3 DEF SbdFeedRaw
        <4>2. /\ f.type \in SbdTypes /\ f.uplink \in BOOLEAN
              /\ f.msg_no \in Counts /\ f.msg_cnt \in Counts \cup {-1}
              /\ HeaderOK(f.type, f.uplink, f.msg_no, f.msg_cnt) /\ 0 \in SbdTimes
          BY <3>1, <3>3, ParseYields, RawAssumption
        <4> HIDE DEF f
        <4>3. [type |-> f.type, uplink |-> f.uplink, msg_no |-> f.msg_no,
               msg_cnt |-> f.msg_cnt, at |-> 0, data |-> d] \in Envelopes
          BY <4>2 DEF Envelopes
        <4> QED BY <3>1, <4>1, <4>3, SbdFeedOK
      <3> QED BY <3>2, <3>3
    <2>2. CASE FeedNext
      BY <2>2, SbdStepOK DEF FeedNext
    <2>3. CASE UNCHANGED <<sbdVars, raw_env>>
      BY <2>3 DEF sbdVars
    <2> QED BY <2>1, <2>2, <2>3
  <1>3. Inv => SalvageMirrorsFeed /\ ParsersInBounds /\ SbdSessionsInOrder /\ SbdEmittedWhole
    <2>1. RawEnvelopes \subseteq AnyEnvelope
      BY RawAssumption
    <2> QED BY <2>1, SbdTableSound, ParsersAgree DEF SalvageMirrorsFeed, ParsersInBounds
  <1> QED BY <1>1, <1>2, <1>3, PTL DEF RawSpec

==============================================================================
