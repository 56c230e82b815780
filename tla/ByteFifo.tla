------------------------------- MODULE ByteFifo ------------------------------
(***************************************************************************)
(* What the USB byte ring promises its two tasks: a bounded first-in       *)
(* first-out queue of bytes.  A put is all or nothing, a get takes a       *)
(* non-empty prefix, and nothing is ever lost, duplicated or reordered in  *)
(* between.  Byte number c of the accepted stream is represented by        *)
(* c % Wrap.                                                               *)
(***************************************************************************)
EXTENDS Integers, Sequences

CONSTANTS Capacity, Wrap, MaxWrite

VARIABLES fifo,  \* the bytes put and not yet taken, oldest first
          next   \* the number of the next byte to be accepted

FifoInit == fifo = << >> /\ next = 0

Put(n) ==
    /\ Len(fifo) + n <= Capacity
    /\ fifo' = fifo \o [k \in 1 .. n |-> (next + k - 1) % Wrap]
    /\ next' = (next + n) % Wrap

Take(n) ==
    /\ n <= Len(fifo)
    /\ fifo' = SubSeq(fifo, n + 1, Len(fifo))
    /\ UNCHANGED next

FifoNext ==
    \/ \E n \in 1 .. MaxWrite : Put(n)
    \/ \E n \in 1 .. Capacity : Take(n)

FifoSpec == FifoInit /\ [][FifoNext]_<<fifo, next>>
==============================================================================
