----------------------------- MODULE MCBurstQueue -----------------------------
EXTENDS BurstQueue

Shape(len, snr, bin, wide) == [len |-> len, snr |-> snr, bin |-> bin, wide |-> wide]

\* Weak on a channel that can be hot, stronger, strong and wide, too short, too
\* long for the ring.
MCShapes == {Shape(2, 1, 1, FALSE), Shape(2, 2, 2, FALSE), Shape(2, 5, 2, TRUE),
             Shape(1, 3, 2, FALSE), Shape(4, 3, 2, FALSE)}
MCLags == {0, 4}
MCHotBins == {1}
=============================================================================
