-------------------------- MODULE MCSbdReassembler --------------------------
(* The reassembler on two sessions.  The first envelope may be any of a     *)
(* bounded set of raw ones around every length the parsers compare with.    *)
EXTENDS SbdReassembler

MCCounts == 0 .. 4
MCSbdTimes == 0 .. 2

MCRawEnvelopes ==
    [type : SbdTypes, uplink : BOOLEAN, n : (0 .. 13) \cup (15 .. 17) \cup (28 .. 34),
     lead : {32, 38, 0}, count : 0 .. 2, ack : BOOLEAN, sub : BOOLEAN,
     declared : {0, 1, 2, 4, 20, 255}, msg_no : {0, 2}]
=============================================================================
