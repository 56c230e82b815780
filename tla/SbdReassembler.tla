--------------------------- MODULE SbdReassembler ---------------------------
(***************************************************************************)
(* common/iridium_decoder/sbd_reassembler.c: joins the parts of a          *)
(* multi-part Short Burst Data message.  It is fed whole envelopes (the    *)
(* payload of a standalone LW.DA frame or of a completed IDA chain), in    *)
(* the order the decoder task processes frames, which is not the order     *)
(* they were received in.                                                  *)
(*                                                                         *)
(* An envelope is what its bytes parse to: a wire type, a direction, the   *)
(* part number msg_no (0 for a message without parts), the part count      *)
(* msg_cnt (-1 where the type carries none), the frame's capture time and  *)
(* data, which stands for the body bytes.  SbdParse models the parse.      *)
(* A message keeps its parts as a sequence; a body that does not fit in    *)
(* SBD_MAX_PAYLOAD is cut, which is modelled part-wise.                    *)
(***************************************************************************)
EXTENDS SbdParse, Sequences, FiniteSets

CONSTANTS SbdMaxSessions, \* SBD_MAX_SESSIONS
          MsgCntMax,      \* SBD_MSG_CNT_MAX
          MaxParts,       \* bodies that fit in SBD_MAX_PAYLOAD
          SbdTimeout,     \* SBD_TIMEOUT_US
          Counts,         \* part counts and numbers on the air: a byte
          SbdTimes,       \* capture times
          Data,           \* bodies
          RawEnvelopes    \* envelopes before the parse, as SbdParse sees them

ASSUME SbdAssumption ==
    /\ {SbdMaxSessions, MaxParts} \subseteq Nat \ {0} /\ MsgCntMax \in Nat
    /\ SbdTimeout \in Nat /\ Counts \subseteq 0 .. 255 /\ SbdTimes \subseteq Nat

\* Raw bytes as the parsers see them, of any length.
AnyEnvelope ==
    [type : SbdTypes, uplink : BOOLEAN, n : Nat, lead : 0 .. 255, count : 0 .. 255,
     ack : BOOLEAN, sub : BOOLEAN, declared : 0 .. 255, msg_no : 0 .. 255]

ASSUME RawAssumption ==
    /\ {0, 1} \subseteq Counts /\ 0 \in SbdTimes
    /\ RawEnvelopes \subseteq AnyEnvelope
    /\ \A e \in RawEnvelopes : {e.count, e.msg_no} \subseteq Counts

SbdSlots == 1 .. SbdMaxSessions

\* What the parse in sbd_reassembler_feed can yield.
Envelopes ==
    {e \in [type : SbdTypes, uplink : BOOLEAN, msg_no : Counts,
            msg_cnt : Counts \cup {-1}, at : SbdTimes, data : Data] :
       HeaderOK(e.type, e.uplink, e.msg_no, e.msg_cnt)}

\* What an inactive session holds is never read.
SbdIdle == [active |-> FALSE]

VARIABLES sbd,     \* ctx->sessions
          sbd_now, \* now_us of the last sweep
          raw_env  \* the raw envelope still to be fed

sbdVars == <<sbd, sbd_now>>

-----------------------------------------------------------------------------

SbdActive(ss) == {i \in SbdSlots : ss[i].active}

\* Mutant: the type of the envelope is not compared (the upstream program's
\* TODO that the comment on find_matching_session mentions).
SbdMatchesAnyType(s, e) ==
    s.msg_no_next = e.msg_no /\ s.uplink = e.uplink

SbdMatches(s, e) ==
    /\ s.msg_no_next = e.msg_no
    /\ s.uplink = e.uplink
    /\ s.type = e.type

SbdMatching(ss, e) == {i \in SbdActive(ss) : SbdMatches(ss[i], e)}

\* The reverse search.
SbdFound(ss, e) ==
    CHOOSE i \in SbdMatching(ss, e) : \A j \in SbdMatching(ss, e) : j <= i

SbdFree(ss) ==
    CHOOSE i \in SbdSlots \ SbdActive(ss) :
        \A j \in SbdSlots \ SbdActive(ss) : i <= j

Expires(s, t) == t - s.last_update_us > SbdTimeout

\* sbd_reassembler_tick: the sessions it leaves.
SbdTick(ss, t) ==
    [i \in SbdSlots |-> IF ss[i].active /\ Expires(ss[i], t) THEN SbdIdle
                        ELSE ss[i]]

\* The three kinds of envelope feed() emits at once, starts a session with, or
\* looks for a session for; anything else is filtered.
IsShort(e)  == e.msg_no = 0
IsSingle(e) == e.msg_cnt = 1 /\ e.msg_no = 1

IsFirst(e)  == e.msg_cnt > 1 /\ e.msg_cnt <= MsgCntMax /\ e.msg_no = 1
IsLater(e)  == e.msg_no > 1

AppendPart(parts, e) == IF Len(parts) < MaxParts THEN Append(parts, e) ELSE parts

\* Feeding e to ss returns 1 ...
SbdCompletes(ss, e) ==
    \/ IsShort(e) \/ IsSingle(e)
    \/ /\ IsLater(e) /\ SbdMatching(ss, e) # {}
       /\ e.msg_no = ss[SbdFound(ss, e)].msg_cnt

\* ... and this is *out_msg.
SbdMessage(ss, e) ==
    IF IsShort(e) \/ IsSingle(e)
    THEN [type |-> e.type, uplink |-> e.uplink, parts |-> <<e>>]
    ELSE LET m == ss[SbdFound(ss, e)].msg
         IN  [m EXCEPT !.parts = AppendPart(@, e)]

-----------------------------------------------------------------------------

SbdInit == sbd = [i \in SbdSlots |-> SbdIdle] /\ sbd_now = 0

SbdOpened(e) ==
    [active |-> TRUE, type |-> e.type, uplink |-> e.uplink,
     msg_no_next |-> 2, msg_cnt |-> e.msg_cnt, last_update_us |-> e.at,
     msg |-> [type |-> e.type, uplink |-> e.uplink, parts |-> <<e>>]]

\* Mutant: the next expected number is not advanced.
SameNext(e) == e.msg_no

NextNo(e) == e.msg_no + 1

\* The sessions after feeding e to ss.
SbdAfter(ss, e) ==
    IF IsShort(e) \/ IsSingle(e) THEN ss
    ELSE IF IsFirst(e)
         THEN IF SbdActive(ss) = SbdSlots THEN ss
              ELSE [ss EXCEPT ![SbdFree(ss)] = SbdOpened(e)]
    ELSE IF ~IsLater(e) \/ SbdMatching(ss, e) = {} THEN ss
    ELSE LET i == SbdFound(ss, e)
         IN  IF e.msg_no = ss[i].msg_cnt THEN [ss EXCEPT ![i] = SbdIdle]
             ELSE [ss EXCEPT ![i].msg.parts = AppendPart(@, e),
                             ![i].msg_no_next = NextNo(e),
                             ![i].last_update_us = e.at]

\* sbd_reassembler_feed of an envelope that parses: sweep, then dispatch.
SbdFeed(e) ==
    /\ sbd' = SbdAfter(SbdTick(sbd, e.at), e)
    /\ sbd_now' = e.at

\* sbd_reassembler_feed of raw bytes at time t: an envelope that does not parse
\* changes nothing.
SbdFeedRaw(raw, t) ==
    LET f == FeedParse(raw) IN
      IF f.ok THEN \E d \in Data : SbdFeed([type |-> f.type, uplink |-> f.uplink,
                                          msg_no |-> f.msg_no, msg_cnt |-> f.msg_cnt,
                                          at |-> t, data |-> d])
      ELSE UNCHANGED sbdVars

\* The ~1 Hz call from decoder_task.
SbdSweep(t) == sbd' = SbdTick(sbd, t) /\ sbd_now' = t

SbdNext == (\E e \in Envelopes : SbdFeed(e)) \/ (\E t \in SbdTimes : SbdSweep(t))

SbdSpec == SbdInit /\ [][SbdNext]_sbdVars

\* The same from raw bytes on: the first envelope may be any raw one, on which
\* both parsers run; the others are given by what they parse to.
Nothing == [n |-> -1]

RawInit == SbdInit /\ raw_env \in RawEnvelopes \cup {Nothing}

FeedFirst == raw_env # Nothing /\ SbdFeedRaw(raw_env, 0) /\ raw_env' = Nothing
FeedNext  == raw_env = Nothing /\ SbdNext /\ UNCHANGED raw_env

RawSpec == RawInit /\ [][FeedFirst \/ FeedNext]_<<sbdVars, raw_env>>

-----------------------------------------------------------------------------
(* Properties.                                                             *)

\* Parts 1, 2, 3 ... of one type and direction, each captured at most the
\* timeout after the part before it.
PartsInOrder(m) ==
    /\ \A k \in 1 .. Len(m.parts) :
          /\ m.parts[k].msg_no = k
          /\ m.parts[k].type = m.type /\ m.parts[k].uplink = m.uplink
    /\ \A k \in 1 .. Len(m.parts) - 1 :
          m.parts[k + 1].at - m.parts[k].at <= SbdTimeout

\* Whatever order envelopes come in, and whatever is lost, repeated or late, an
\* open session holds parts 1 to n of one type and direction in order, up to
\* the payload limit, and waits for part n + 1 of the count that its first part
\* announced.  Parts have no message identity, so two messages of one type whose
\* parts happen to follow each other are not told apart, as in the code.
SbdSessionsInOrder ==
    \A i \in SbdActive(sbd) :
        LET s == sbd[i] IN
          /\ PartsInOrder(s.msg)
          /\ s.msg_cnt = s.msg.parts[1].msg_cnt
          /\ s.msg_no_next <= s.msg_cnt
          /\ Len(s.msg.parts) = IF s.msg_no_next - 1 < MaxParts
                                THEN s.msg_no_next - 1 ELSE MaxParts

\* Whatever envelope comes next, a message it completes has as many parts as
\* its first one announced, in order, up to the payload limit: nothing is
\* emitted with a hole in it, and nothing of another type or direction is mixed
\* in.
SbdEmittedWhole ==
    \A e \in Envelopes :
        LET ss == SbdTick(sbd, e.at) IN
          SbdCompletes(ss, e) =>
              LET m == SbdMessage(ss, e) IN
                \/ IsShort(e) /\ m.parts = <<e>>
                \/ /\ PartsInOrder(m)
                   /\ LET cnt == m.parts[1].msg_cnt
                      IN  Len(m.parts) = IF cnt < MaxParts THEN cnt ELSE MaxParts

\* The hand-made copy of the parser in sbd_salvage_parse agrees with the one in
\* sbd_reassembler_feed on every envelope.
SalvageMirrorsFeed == raw_env # Nothing => SalvageAgrees(raw_env)

\* Both stay inside every envelope.
ParsersInBounds == raw_env # Nothing => WithinEnvelope(raw_env)
=============================================================================
