----------------------------- MODULE MCHotBins -----------------------------
EXTENDS HotBins

\* With a deadband of 1: bin 2 is on the channel of 1 and on that of 3; 4, 7
\* and 10 are channels of their own.
MCBins == {1, 2, 3, 4, 7, 10}

\* Refreshes that move an entry, more channels than entries, and a reader.
MCUses == {[bins |-> {1, 2, 3}, looked_up |-> {}, retunes |-> TRUE],
           [bins |-> {1, 4, 7, 10}, looked_up |-> {}, retunes |-> FALSE],
           [bins |-> {1, 2, 4}, looked_up |-> {1}, retunes |-> TRUE]}
=============================================================================
