---------------------------- MODULE MCStreamFeed -----------------------------
(* The stream path on a ring of two blocks of two tiles: the reads meet    *)
(* the wrap of the array at every position, and full-ring drops happen.    *)
EXTENDS StreamFeed

\* Transfers of one and of two tiles; an I/Q pair is two bytes.
MCTransferSizes == {2, 4}
\* Halves of a pair: a read finds one byte, which is no sample, or a tile.
MCHalfPairs == {1}
==============================================================================
