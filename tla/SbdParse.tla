------------------------------ MODULE SbdParse ------------------------------
(***************************************************************************)
(* The two parsers of an SBD envelope in sbd_reassembler.c: the one at the *)
(* head of sbd_reassembler_feed, which rejects an envelope that is cut     *)
(* short, and sbd_salvage_parse, which keeps what is there.  The second is *)
(* a hand-made copy of the first.                                          *)
(*                                                                         *)
(* Raw bytes are described by what the parsers test.  n counts the bytes   *)
(* after the two type bytes.  lead is the first of them.  count is the     *)
(* part count byte of the prehdr.  ack says that the body starts with 0x50 *)
(* or 0x51, and sub that 0x10 comes next, with its length and part number. *)
(***************************************************************************)
EXTENDS Integers

CONSTANT MaxBody  \* SBD_MAX_PAYLOAD

ASSUME SbdParseAssumption == MaxBody \in Nat

\* One representative of the three downlink and of the three uplink data types
\* that carry no prehdr.
SbdTypes == {"hello_0600", "data_dl_7608", "data_dl", "data_ul"}

\* classify: the types that exist in each direction.
InDirection(type, uplink) ==
    \/ type = "hello_0600"
    \/ type = "data_ul" /\ uplink
    \/ type \in {"data_dl_7608", "data_dl"} /\ ~uplink

\* The headers the parse can yield: msg_cnt is -1 where the type carries none.
HeaderOK(type, uplink, msg_no, msg_cnt) ==
    /\ InDirection(type, uplink)
    /\ type \in {"data_dl", "data_ul"} <=> msg_cnt = -1
    /\ type = "hello_0600" => msg_no = IF msg_cnt = 0 THEN 0 ELSE 1

Smaller(a, b) == IF a < b THEN a ELSE b

Rejected == [ok |-> FALSE]

\* An accepted envelope: at is the offset of its body, body the body's length.
Accepted(e, msg_no, msg_cnt, at, body, truncated) ==
    [ok |-> TRUE, type |-> e.type, uplink |-> e.uplink, msg_no |-> msg_no,
     msg_cnt |-> msg_cnt, at |-> at, body |-> Smaller(body, MaxBody),
     truncated |-> truncated]

PrehdrLen(e) ==
    CASE e.type # "data_dl_7608" -> 0
      [] e.type = "data_dl_7608" /\ e.lead = 32 -> 5
      [] OTHER -> 7

MsgCnt(e) == IF e.type = "data_dl_7608" THEN e.count ELSE -1

AckLen(e, n) == IF e.uplink /\ n >= 3 /\ e.ack THEN 3 ELSE 0

HelloNo(e) == IF e.count = 0 THEN 0 ELSE 1

-----------------------------------------------------------------------------

\* The parse of sbd_reassembler_feed.
FeedParse(e) ==
    IF e.n < 3 \/ ~InDirection(e.type, e.uplink) THEN Rejected
    ELSE IF e.type = "hello_0600"
         THEN IF e.lead # 32 \/ e.n < 16 THEN Rejected
              ELSE LET pre == Smaller(e.n, 29)
                   IN  Accepted(e, HelloNo(e), e.count, pre, e.n - pre, FALSE)
    ELSE IF e.n < PrehdrLen(e) THEN Rejected
    ELSE LET at == PrehdrLen(e) + AckLen(e, e.n - PrehdrLen(e))
             n  == e.n - at
         IN  IF ~(n > 3 /\ e.sub) THEN Accepted(e, 0, MsgCnt(e), at, n, FALSE)
             ELSE IF n - 3 < e.declared THEN Rejected
             ELSE Accepted(e, e.msg_no, MsgCnt(e), at + 3, e.declared, FALSE)

\* Mutant: a body that runs past the end is reported at its declared length.
SalvageBodyDeclared(e, n) == e.declared

\* Mutant: the bytes after the declared body are kept.
SalvageBodyAll(e, n) == n

\* What salvage keeps of the n bytes after the sub-header.
SalvageBody(e, n) == Smaller(n, e.declared)

\* A prehdr cut short: no body, and no count.
CutPrehdr(e) == Accepted(e, 0, -1, e.n, 0, TRUE)

\* sbd_salvage_parse.
SalvageParse(e) ==
    IF ~InDirection(e.type, e.uplink) THEN Rejected
    ELSE IF e.type = "hello_0600"
         THEN CASE e.n < 1      -> CutPrehdr(e)
                [] e.n >= 1 /\ e.lead # 32 -> Rejected
                [] e.n \in 1 .. 15 /\ e.lead = 32 -> CutPrehdr(e)
                [] OTHER -> LET pre == Smaller(e.n, 29) IN
                              Accepted(e, HelloNo(e), e.count, pre, e.n - pre, FALSE)
    ELSE IF e.n < PrehdrLen(e) THEN CutPrehdr(e)
    ELSE LET at == PrehdrLen(e) + AckLen(e, e.n - PrehdrLen(e))
             n  == e.n - at
         IN  IF ~(n > 3 /\ e.sub) THEN Accepted(e, 0, MsgCnt(e), at, n, FALSE)
             ELSE Accepted(e, e.msg_no, MsgCnt(e), at + 3,
                           SalvageBody(e, n - 3), n - 3 < e.declared)

-----------------------------------------------------------------------------
(* Properties of one envelope.                                             *)

\* What feed accepts, salvage reads the same way and does not call truncated;
\* of what feed rejects (but for the envelopes of fewer than five bytes, which
\* salvage has no test for), salvage keeps only what it calls truncated.
SalvageAgrees(e) ==
    LET f == FeedParse(e)
        s == SalvageParse(e)
    IN  IF f.ok THEN s = f ELSE e.n >= 3 /\ s.ok => s.truncated

\* "Never reads past payload[0..payload_len)": no body, whole or salvaged, ends
\* after the last byte, and no count is made up.
WithinEnvelope(e) ==
    \A r \in {FeedParse(e), SalvageParse(e)} :
        r.ok => /\ r.at + r.body <= e.n
                /\ r.at >= 0 /\ r.body >= 0
                /\ r.msg_cnt # -1 => e.n >= IF e.type = "hello_0600" THEN 16
                                            ELSE PrehdrLen(e)
=============================================================================
