------------------------------- MODULE UsbRing -------------------------------
(***************************************************************************)
(* The single-producer/single-consumer byte ring that carries the USB bulk *)
(* stream (p4-usb-host/main/usbring.c over usbring_ring.h).                *)
(*                                                                         *)
(* head and tail are free-running uint32 counters; Wrap stands for 2^32    *)
(* and only the physical offset of a byte is masked with the capacity.  A  *)
(* byte is represented by the counter value at which it was accepted, so   *)
(* "the ring holds the right bytes" is a statement about buf alone.        *)
(*                                                                         *)
(* The producer (stream_transfer_cb on usb_pump) and the consumer          *)
(* (dsp_feed) interleave at every access to a shared location: the         *)
(* producer's load of tail, its memcpy and its store of head are separate  *)
(* steps, and so are the consumer's peek and consume.                      *)
(***************************************************************************)
EXTENDS Integers, Sequences

CONSTANTS Capacity,  \* s_capacity, the bytes of the backing array
          Wrap,      \* 2^32, the modulus of the counters
          MaxWrite   \* the largest bulk transfer

\* usbring_init refuses a capacity that is not a power of two, and 2^32 is a
\* proper multiple of every capacity it accepts.
usbring_is_pow2_capacity(capacity) == \E k \in 0..31 : capacity = 2^k

ASSUME CapacityAssumption ==
    /\ Capacity \in Nat \ {0}
    /\ usbring_is_pow2_capacity(Capacity)

ASSUME WrapAssumption ==
    /\ Wrap \in Nat
    /\ \E k \in 2 .. Wrap : Wrap = k * Capacity

ASSUME MaxWriteAssumption == MaxWrite \in Nat \ {0}

Counters == 0 .. Wrap - 1
Offsets  == 0 .. Capacity - 1

\* No byte has been written at this offset since the ring was allocated.
NoByte == -1

Least(a, b) == IF a < b THEN a ELSE b

-----------------------------------------------------------------------------
(* The index arithmetic of usbring_ring.h.                                 *)

usbring_used(hd, tl) == (hd - tl) % Wrap

\* uint32 arithmetic: a caller that breaks used <= capacity sees a huge value.
usbring_free_space(hd, tl) == (Capacity - usbring_used(hd, tl)) % Wrap

usbring_phys_offset(counter) == counter % Capacity

usbring_write_contig(hd, tl) ==
    Least(usbring_free_space(hd, tl), Capacity - usbring_phys_offset(hd))

usbring_next_head(hd, n) == (hd + n) % Wrap

\* Mutant: the span is not clamped to the end of the array.
PeekPastTheEnd(hd, tl) == usbring_used(hd, tl)

usbring_peek_contig(hd, tl) ==
    Least(usbring_used(hd, tl), Capacity - usbring_phys_offset(tl))

usbring_next_tail(tl, n) == (tl + n) % Wrap

-----------------------------------------------------------------------------

VARIABLES head,  \* s_head
          tail,  \* s_tail
          buf,   \* s_buf: the byte at each offset of the backing array
          wpc,   \* the producer's step inside usbring_write
          wn,    \* the length of the write in progress
          wfirst,\* the part of it before the wrap of the backing array
          span   \* the span the consumer peeked and has not yet consumed

ringVars == <<head, tail, buf, wpc, wn, wfirst, span>>

NoSpan == [off |-> 0, n |-> 0]

\* usbring_init: the ring is allocated and both counters are zero.
RingInit ==
    /\ head = 0
    /\ tail = 0
    /\ buf = [o \in Offsets |-> NoByte]
    /\ wpc = "idle"
    /\ wn = 0
    /\ wfirst = 0
    /\ span = NoSpan

\* usbring_write up to its bound check: the write is accepted whole ...
WriteAccept(n) ==
    /\ wpc = "idle"
    /\ n <= usbring_free_space(head, tail)
    /\ wpc' = "copy"
    /\ wn' = n
    /\ wfirst' = Least(usbring_write_contig(head, tail), n)
    /\ UNCHANGED <<head, tail, buf, span>>

\* Mutant: a write that does not fit resets the ring.
WriteDropResets(n) ==
    /\ wpc = "idle"
    /\ n > usbring_free_space(head, tail)
    /\ head' = 0
    /\ tail' = 0
    /\ UNCHANGED <<buf, wpc, wn, wfirst, span>>

\* ... or dropped whole, which leaves the ring as it was.
WriteDrop(n) ==
    /\ wpc = "idle"
    /\ n > usbring_free_space(head, tail)
    /\ UNCHANGED ringVars

\* Mutant: the second memcpy lands at its offset in the data.
CopyTargetUnshifted(k) ==
    IF k < wfirst THEN usbring_phys_offset(head) + k ELSE k

\* Where byte k of the write in progress goes: the first part from head's
\* offset, the rest from the start of the array.
CopyTarget(k) ==
    IF k < wfirst THEN usbring_phys_offset(head) + k ELSE k - wfirst

\* The memcpy (or two) of usbring_write.
WriteCopy ==
    /\ wpc = "copy"
    /\ wpc' = "publish"
    /\ buf' = [o \in Offsets |->
                 IF \E k \in 0 .. wn - 1 : CopyTarget(k) = o
                 THEN usbring_next_head(head,
                        CHOOSE k \in 0 .. wn - 1 : CopyTarget(k) = o)
                 ELSE buf[o]]
    /\ UNCHANGED <<head, tail, wn, wfirst, span>>

\* The store of head that publishes the bytes.
WritePublish ==
    /\ wpc = "publish"
    /\ wpc' = "idle"
    /\ head' = usbring_next_head(head, wn)
    /\ wn' = 0
    /\ wfirst' = 0
    /\ UNCHANGED <<tail, buf, span>>

\* usbring_peek, and the clamp of its caller to max_length bytes.
Peek(max_length) ==
    /\ usbring_peek_contig(head, tail) > 0
    /\ span' = [off |-> usbring_phys_offset(tail),
                n   |-> Least(usbring_peek_contig(head, tail), max_length)]
    /\ UNCHANGED <<head, tail, buf, wpc, wn, wfirst>>

\* usbring_consume of the whole peeked span.
Consume ==
    /\ tail' = usbring_next_tail(tail, span.n)
    /\ span' = NoSpan
    /\ UNCHANGED <<head, buf, wpc, wn, wfirst>>

-----------------------------------------------------------------------------
(* The ring on its own, with one producer and one consumer that honours    *)
(* the single-outstanding-span rule of usbring.h.                          *)

RingProduce ==
    \/ \E n \in 1 .. MaxWrite : WriteAccept(n) \/ WriteDrop(n)
    \/ WriteCopy
    \/ WritePublish

RingConsume ==
    \/ span = NoSpan /\ \E m \in 1 .. Capacity : Peek(m)
    \/ span # NoSpan /\ Consume

RingNext == RingProduce \/ RingConsume

RingSpec == RingInit /\ [][RingNext]_ringVars

-----------------------------------------------------------------------------
(* Properties.                                                             *)

RingTypeOK ==
    /\ head \in Counters
    /\ tail \in Counters
    /\ buf \in [Offsets -> Counters \cup {NoByte}]
    /\ wpc \in {"idle", "copy", "publish"}
    /\ wn \in 0 .. MaxWrite
    /\ wfirst \in 0 .. wn
    /\ span \in [off : Offsets, n : 0 .. Capacity]

\* The producer never lets the bytes in the ring exceed its capacity, the
\* condition usbring_used's two's-complement subtraction rests on, and a write
\* that was accepted against an old tail still fits when it is published.
RingBounded ==
    /\ usbring_used(head, tail) <= Capacity
    /\ wn <= Capacity - usbring_used(head, tail)

\* Every published and unconsumed byte is in the backing array where the
\* consumer will look for it: no write in progress, split or not, has reached
\* an offset the consumer may still read (usbring_write's claim that a stale
\* tail "never lets it overwrite unconsumed data").
LiveBytesIntact ==
    \A k \in 0 .. usbring_used(head, tail) - 1 :
        buf[usbring_phys_offset(tail + k)] = (tail + k) % Wrap

\* The peeked span stays inside the array and holds the oldest bytes of the
\* ring, in order, for as long as the consumer holds the pointer, however far
\* the producer advances meanwhile (usbring_peek's contract).
SpanStable ==
    /\ span.off + span.n <= Capacity
    /\ \A k \in 0 .. span.n - 1 : buf[span.off + k] = (tail + k) % Wrap

\* The ring as its users see it: the queue of the bytes between the counters.
Fifo == INSTANCE ByteFifo
          WITH fifo <- [k \in 1 .. usbring_used(head, tail) |->
                          buf[usbring_phys_offset(tail + k - 1)]],
               next <- head

\* The ring implements a bounded first-in first-out queue of bytes.
FifoRefinement == Fifo!FifoSpec
==============================================================================
