------------------------------ MODULE FrameQueue ------------------------------
(***************************************************************************)
(* common/iridium_decoder/frame_queue.c: the lock-free queue from the      *)
(* worker (or, on an aggregator, the ingest task) to the decoder task.     *)
(* One producer fills the slot at tail in place and then publishes it;     *)
(* one consumer copies the slot at head out and then frees it.  One slot   *)
(* stays empty, so that head = tail means empty.                           *)
(*                                                                         *)
(* Both copies take more than one step: an item is a header (with the      *)
(* lengths) and its bits.  Items are numbered in the order they are        *)
(* committed; each part of a slot holds the number of its item.            *)
(* Every load and store of head and tail is a step of its own; release and *)
(* acquire make the slot writes before a store visible after the load.     *)
(***************************************************************************)
EXTENDS Integers

CONSTANTS NSlots,    \* n_slots, a power of two of at least 2
          MaxFrames, \* bound on the frames offered
          MaxDrops   \* bound on the frames dropped

ASSUME NSlotsAssumption == NSlots \in Nat /\ NSlots >= 2
ASSUME FrameBounds == MaxFrames \in Nat /\ MaxDrops \in Nat

SlotIndex == 0 .. NSlots - 1

VARIABLES head,    \* q->head, consumer index
          tail,    \* q->tail, producer index
          slots,   \* q->slots
          prod,    \* where the producer is
          cons,    \* where the consumer is
          out,     \* *out
          sent,    \* history: items committed
          got,     \* history: items taken
          pushed,  \* q->pushed
          popped,  \* q->popped
          dropped  \* q->dropped

fqVars == <<head, tail, slots, prod, cons, out, sent, got, pushed, popped, dropped>>

\* (i + 1) & q->mask
Advance(i) == (i + 1) % NSlots

-----------------------------------------------------------------------------

FqInit ==
    /\ head = 0 /\ tail = 0
    /\ slots = [i \in SlotIndex |-> [hdr |-> 0, bits |-> 0]]
    /\ prod = "idle" /\ cons = "idle"
    /\ out = [hdr |-> 0, bits |-> 0]
    /\ sent = 0 /\ got = 0
    /\ pushed = 0 /\ popped = 0 /\ dropped = 0

Full(t, h) == Advance(t) = h

\* frame_queue_producer_reserve
Reserve ==
    /\ prod = "idle" /\ sent < MaxFrames
    /\ ~Full(tail, head)
    /\ prod' = "header"
    /\ UNCHANGED <<head, tail, slots, cons, out, sent, got, pushed, popped, dropped>>

ReserveFull ==
    /\ prod = "idle" /\ sent < MaxFrames /\ dropped < MaxDrops
    /\ Full(tail, head)
    /\ dropped' = dropped + 1
    /\ UNCHANGED <<head, tail, slots, prod, cons, out, sent, got, pushed, popped>>

\* Mutants: a part of the slot keeps what the item before it left there.
HeaderSkipped(i) == i.hdr
BitsSkipped(i) == i.bits

\* What frame_decoder_push writes in place over an old slot i.
NewHeader(i) == sent
NewBits(i) == sent

FillHeader ==
    /\ prod = "header"
    /\ slots' = [slots EXCEPT ![tail].hdr = NewHeader(slots[tail])]
    /\ prod' = "bits"
    /\ UNCHANGED <<head, tail, cons, out, sent, got, pushed, popped, dropped>>

FillBits ==
    /\ prod = "bits"
    /\ slots' = [slots EXCEPT ![tail].bits = NewBits(slots[tail])]
    /\ prod' = "commit"
    /\ UNCHANGED <<head, tail, cons, out, sent, got, pushed, popped, dropped>>

\* frame_queue_producer_commit: the store, then the counter.
Commit ==
    /\ prod = "commit"
    /\ tail' = Advance(tail)
    /\ sent' = sent + 1
    /\ prod' = "count"
    /\ UNCHANGED <<head, slots, cons, out, got, pushed, popped, dropped>>

CountPushed ==
    /\ prod = "count"
    /\ pushed' = pushed + 1
    /\ prod' = "idle"
    /\ UNCHANGED <<head, tail, slots, cons, out, sent, got, popped, dropped>>

\* Mutant: the emptiness test is missing.
NonEmptyAlways(h, t) == TRUE

\* Mutant: the last item is left in the queue.
NonEmptyButOne(h, t) == h # t /\ Advance(h) # t

NonEmpty(h, t) == h # t

\* frame_queue_pop; on an empty queue it returns at once.
Pop ==
    /\ cons = "idle"
    /\ NonEmpty(head, tail)
    /\ cons' = "header"
    /\ UNCHANGED <<head, tail, slots, prod, out, sent, got, pushed, popped, dropped>>

CopyHeader ==
    /\ cons = "header"
    /\ out' = [out EXCEPT !.hdr = slots[head].hdr]
    /\ cons' = "bits"
    /\ UNCHANGED <<head, tail, slots, prod, sent, got, pushed, popped, dropped>>

CopyBits ==
    /\ cons = "bits"
    /\ out' = [out EXCEPT !.bits = slots[head].bits]
    /\ cons' = "free"
    /\ UNCHANGED <<head, tail, slots, prod, sent, got, pushed, popped, dropped>>

Free ==
    /\ cons = "free"
    /\ head' = Advance(head)
    /\ got' = got + 1
    /\ cons' = "count"
    /\ UNCHANGED <<tail, slots, prod, out, sent, pushed, popped, dropped>>

CountPopped ==
    /\ cons = "count"
    /\ popped' = popped + 1
    /\ cons' = "idle"
    /\ UNCHANGED <<head, tail, slots, prod, out, sent, got, pushed, dropped>>

Producer == Reserve \/ ReserveFull \/ FillHeader \/ FillBits \/ Commit \/ CountPushed
Consumer == Pop \/ CopyHeader \/ CopyBits \/ Free \/ CountPopped

FqNext == Producer \/ Consumer

FqSpec == FqInit /\ [][FqNext]_fqVars

\* decoder_task polls the queue for ever, and a frame that was begun is
\* finished; nothing says that there are frames.
FqFairSpec ==
    /\ FqSpec
    /\ WF_fqVars(Consumer)
    /\ WF_fqVars(FillHeader \/ FillBits \/ Commit \/ CountPushed)

-----------------------------------------------------------------------------
(* Properties.                                                             *)

FqTypeOK ==
    /\ head \in SlotIndex /\ tail \in SlotIndex
    /\ slots \in [SlotIndex -> [hdr : Nat, bits : Nat]]
    /\ prod \in {"idle", "header", "bits", "commit", "count"}
    /\ cons \in {"idle", "header", "bits", "free", "count"}
    /\ out \in [hdr : Nat, bits : Nat]
    /\ sent \in Nat /\ got \in Nat /\ pushed \in Nat /\ popped \in Nat
    /\ dropped \in Nat

\* The consumer gets items whole and in the order they were committed, none
\* twice and none left out: what pop returns is the item after the last one.
PopInOrder ==
    cons = "free" => out = [hdr |-> got, bits |-> got]

\* The producer never writes the slot the consumer is copying.
SlotsDisjoint ==
    prod \in {"header", "bits"} /\ cons \in {"header", "bits", "free"} => tail # head

\* At most n_slots - 1 items are queued, and the difference of the indices
\* that frame_queue_count takes is their number: a full queue is never read as
\* an empty one.
CountExact ==
    /\ sent - got \in 0 .. NSlots - 1
    /\ (tail - head) % NSlots = sent - got

\* The counters the survey compares to tell that the frames so far are decoded
\* ("popped >= the pushed count at entry") never run ahead of the indices.
CountersTrail == /\ pushed <= sent /\ sent <= pushed + 1
                 /\ popped <= got /\ got <= popped + 1

\* Every committed item is taken.
EveryFrameTaken == \A n \in 0 .. MaxFrames - 1 : (sent > n) ~> (got > n)

-----------------------------------------------------------------------------
\* What the queue promises: a bounded first-in first-out queue of whole items.
Fifo == INSTANCE FrameFifo
            WITH items <- [k \in 1 .. sent - got |->
                              slots[(head + k - 1) % NSlots].bits],
                 entered <- sent,
                 bound <- NSlots - 1

FifoSpec == Fifo!Spec
=============================================================================
