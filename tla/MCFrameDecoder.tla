--------------------------- MODULE MCFrameDecoder ----------------------------
(* The decoder task with two sessions; the gap is 1, the timeout and the    *)
(* tick period 2.  Counters wrap after three, so that chains reach the wrap *)
(* and, as in the code (eight fragments of 24 bytes are less than 320), no  *)
(* chain reaches the size limit.                                            *)
EXTENDS FrameDecoder

MCTimes == 1 .. 4

MCOffered ==
    [ctr : 0 .. CtrMod - 1, cont : BOOLEAN, crc_ok : BOOLEAN,
     uplink : BOOLEAN, freq_hz : {1, 3, 5}, at : MCTimes]

\* The outer frequencies are one deadband from the middle one and two from each
\* other: chains open on the low and the middle one and are continued on the
\* middle and the high one, on the middle one also in the other direction or
\* with a bad CRC.
Mixed ==
    {f \in MCOffered :
       /\ f.at # 3
       /\ f.freq_hz = 1 => f.ctr = 0 /\ f.cont
       /\ f.freq_hz = 5 => f.ctr = 1
       /\ ~f.uplink => f.freq_hz = 3 /\ f.ctr < 2 /\ (f.cont <=> f.ctr = 0)
       /\ ~f.crc_ok => f.freq_hz = 3 /\ f.uplink /\ f.ctr < 2}

Plain == {f \in MCOffered :
            f.crc_ok /\ f.uplink /\ f.freq_hz = 3 /\ (f.ctr = 0 => f.cont)}

\* Either frames come in any order, or on one channel with a lag that is always
\* above the timeout and varies by the margin of the reassembler's constants.

MCEnvironments ==
    [any    |-> [frames |-> Mixed, lags |-> 0 .. 6, instants |-> {4, 7}],
     steady |-> [frames |-> Plain, lags |-> {3, 4}, instants |-> 4 .. 8]]
==============================================================================
