----------------------------- MODULE MCWorkerPath -----------------------------
(* A queue of four slots and a counter of two words of one bit: six frames *)
(* pass the end of the array, and the counter carries twice.               *)
EXTENDS WorkerPath

MCCounts == {1, 3}
=============================================================================
