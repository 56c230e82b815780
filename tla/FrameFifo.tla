------------------------------ MODULE FrameFifo ------------------------------
(***************************************************************************)
(* What frame_queue promises its users: a first-in first-out queue of at   *)
(* most bound items.  Items are numbered in the order they enter.          *)
(***************************************************************************)
EXTENDS Integers, Sequences

CONSTANT bound

VARIABLES items,   \* the queued items, oldest first
          entered  \* how many items have entered

Init == items = << >> /\ entered = 0

Enter ==
    /\ Len(items) < bound
    /\ items' = Append(items, entered)
    /\ entered' = entered + 1

Leave ==
    /\ items # << >>
    /\ items' = Tail(items)
    /\ UNCHANGED entered

Spec == Init /\ [][Enter \/ Leave]_<<items, entered>>
=============================================================================
