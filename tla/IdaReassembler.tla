--------------------------- MODULE IdaReassembler ----------------------------
(***************************************************************************)
(* The cross-burst fragment reassembler (common/iridium_decoder/           *)
(* ida_reassembler.c): its table of sessions and what feeding a frame and  *)
(* reaping do to it.  FrameDecoder drives it.                              *)
(*                                                                         *)
(* Frames reach this code strongest first, not in the order they were      *)
(* sent, so their times go backwards as well as forwards.  A payload is    *)
(* the sequence of the fragments appended to it; MaxFragments stands for   *)
(* IDA_REASM_MAX_BYTES over the length of one fragment.  The statistics    *)
(* counters are left out: nothing reads them back.                         *)
(***************************************************************************)
EXTENDS Integers, Sequences, FiniteSets

CONSTANTS MaxSessions,    \* IDA_REASM_MAX_SESSIONS
          MaxFragments,   \* IDA_REASM_MAX_BYTES, in fragments
          CtrMod,         \* 8: da_ctr is a 3-bit field
          Deadband,       \* IDA_REASM_FREQ_DEADBAND_HZ
          FragGap,        \* IDA_REASM_FRAG_GAP_US
          SessionTimeout, \* IDA_REASM_SESSION_TIMEOUT_US
          Offered,        \* decoded LW.DA frames that may come
          Times           \* their instants on the air

ASSUME IdaAssumption ==
    /\ {MaxSessions, MaxFragments} \subseteq Nat \ {0}
    /\ CtrMod \in Nat \ {0, 1}
    /\ {Deadband, FragGap, SessionTimeout} \subseteq Nat
    /\ FragGap < SessionTimeout
    /\ Offered \subseteq [ctr : 0 .. CtrMod - 1, cont : BOOLEAN, crc_ok : BOOLEAN,
                          uplink : BOOLEAN, freq_hz : Nat, at : Times]
    /\ Times \subseteq Nat

Sessions == 1 .. MaxSessions

\* The caller admits openers and standalone frames only when their CRC is good,
\* continuations also when not if best_effort_decode is on, which it may be at
\* any time.
Admissible(f) == f.crc_ok \/ f.ctr > 0

Frames == {f \in Offered : Admissible(f)}

\* What an inactive session holds is never read.
Inactive == [active |-> FALSE]

VARIABLE sessions \* ctx->sessions

-----------------------------------------------------------------------------

Active(ss) == {i \in Sessions : ss[i].active}

LastOf(S)  == CHOOSE i \in S : \A j \in S : j <= i
FirstOf(S) == CHOOSE i \in S : \A j \in S : i <= j

InTime(s, t) ==
    /\ t >= s.last_time_us
    /\ t - s.last_time_us <= FragGap

\* The lower end of the window saturates at 0.
InDeadband(s, freq) ==
    /\ freq >= (IF s.freq_hz > Deadband THEN s.freq_hz - Deadband ELSE 0)
    /\ freq <= s.freq_hz + Deadband

Matches(s, f) ==
    /\ s.uplink = f.uplink
    /\ s.next_ctr = f.ctr
    /\ InDeadband(s, f.freq_hz)
    /\ InTime(s, f.at)

matching_sessions(ss, f) == {i \in Active(ss) : Matches(ss[i], f)}

\* The reverse search: the highest index that matches.
find_matching_session(ss, f) == LastOf(matching_sessions(ss, f))

find_free_session(ss) == FirstOf(Sessions \ Active(ss))

\* The sessions ida_salvage_drain reaps at time t.
Reaped(ss, t) == {i \in Active(ss) : t - ss[i].last_time_us > SessionTimeout}

AfterDrain(ss, t) ==
    LET reaped == Reaped(ss, t)
    IN  [i \in Sessions |-> IF i \in reaped THEN Inactive ELSE ss[i]]

\* The ida_salvage_t of a reaped chain.
SalvageRecord(s) ==
    [payload |-> s.payload, frags |-> s.next_ctr, dirty |-> s.dirty]

\* Mutant: the dirty mark is overwritten by the last fragment's.
DirtyFromLast(s, f) == ~f.crc_ok

DirtyAfter(s, f) == s.dirty \/ ~f.crc_ok

\* Feeding f returns 1: a chain (or a standalone frame) is complete ...
Completes(ss, f) ==
    /\ ~f.cont
    /\ f.ctr > 0 => /\ matching_sessions(ss, f) # {}
                    /\ Len(ss[find_matching_session(ss, f)].payload) < MaxFragments

\* ... and this is what *out_payload and *out_dirty hold.
Completed(ss, f) ==
    IF f.ctr = 0 THEN [payload |-> <<f>>, dirty |-> FALSE]
    ELSE LET s == ss[find_matching_session(ss, f)]
         IN  [payload |-> Append(s.payload, f), dirty |-> DirtyAfter(s, f)]

-----------------------------------------------------------------------------

IdaInit == sessions = [i \in Sessions |-> Inactive]

Opened(f) ==
    [active |-> TRUE, uplink |-> f.uplink, freq_hz |-> f.freq_hz,
     next_ctr |-> 1, last_time_us |-> f.at, payload |-> <<f>>, dirty |-> FALSE]

\* ctr 0 and nothing to follow: the frame passes straight through.
FeedStandalone(ss, f) ==
    /\ f.ctr = 0 /\ ~f.cont
    /\ sessions' = ss

\* ctr 0 and more to come: open a chain, unless the table is full.
FeedOpener(ss, f) ==
    /\ f.ctr = 0 /\ f.cont
    /\ sessions' = IF Active(ss) = Sessions THEN ss
                   ELSE [ss EXCEPT ![find_free_session(ss)] = Opened(f)]

\* A continuation that no open chain expects.
FeedOrphan(ss, f) ==
    /\ f.ctr > 0
    /\ matching_sessions(ss, f) = {}
    /\ sessions' = ss

NextCtr(f) == (f.ctr + 1) % CtrMod

\* Mutant: a continuation does not refresh the chain's clock.
TouchForgotten(s, f) == s.last_time_us

TouchedAt(s, f) == f.at

\* A continuation that matches: it kills a chain it would overflow, completes
\* one it ends, and is appended otherwise.
FeedContinuation(ss, f) ==
    /\ f.ctr > 0
    /\ matching_sessions(ss, f) # {}
    /\ LET i == find_matching_session(ss, f) IN
         sessions' =
           IF Len(ss[i].payload) = MaxFragments \/ ~f.cont
           THEN [ss EXCEPT ![i] = Inactive]
           ELSE [ss EXCEPT ![i].payload = Append(@, f),
                           ![i].last_time_us = TouchedAt(ss[i], f),
                           ![i].dirty = DirtyAfter(ss[i], f),
                           ![i].next_ctr = NextCtr(f)]

\* ida_reassembler_feed_ex.
Feed(ss, f) ==
    \/ FeedStandalone(ss, f)
    \/ FeedOpener(ss, f)
    \/ FeedOrphan(ss, f)
    \/ FeedContinuation(ss, f)

-----------------------------------------------------------------------------
(* Properties.                                                             *)

\* The fragments of a chain: an opener, then consecutive counters, each sent in
\* the opener's direction, within the deadband of its frequency, and no
\* earlier and at most FragGap later than the one before it.
ChainOf(p) ==
    /\ p[1].ctr = 0
    /\ \A k \in 1 .. Len(p) :
          /\ p[k].ctr = k - 1
          /\ p[k].uplink = p[1].uplink
          /\ p[k].freq_hz - p[1].freq_hz \in -Deadband .. Deadband
    /\ \A k \in 1 .. Len(p) - 1 : p[k + 1].at - p[k].at \in 0 .. FragGap

\* Whatever order frames arrive in, and whatever is lost, repeated or stale,
\* an open chain only ever holds such a sequence, all its fragments but the
\* missing last say that more follows, and its book-keeping describes it: a
\* salvage would be marked dirty exactly when a fragment failed its CRC, and
\* report the number of fragments modulo the counter.
OpenChainsInOrder ==
    \A i \in Active(sessions) :
        LET s == sessions[i] IN
          /\ ChainOf(s.payload)
          /\ \A k \in 1 .. Len(s.payload) : s.payload[k].cont
          /\ Len(s.payload) <= CtrMod
          /\ SalvageRecord(s).frags = Len(s.payload) % CtrMod
          /\ SalvageRecord(s).dirty <=> \E k \in 1 .. Len(s.payload) : ~s.payload[k].crc_ok
          /\ s.last_time_us = s.payload[Len(s.payload)].at
          /\ s.freq_hz = s.payload[1].freq_hz

\* Whatever frame comes next, what it completes is a whole chain that ends with
\* its last fragment, marked dirty exactly when some fragment of it failed its
\* CRC: a chain that reaches sbd_reassembler as trusted holds only checked
\* fragments.
EmittedWhole ==
    \A f \in Frames :
        Completes(sessions, f) =>
            LET c == Completed(sessions, f)
                p == c.payload IN
              /\ ChainOf(p)
              /\ \A k \in 1 .. Len(p) : p[k].cont <=> k # Len(p)
              /\ c.dirty <=> \E k \in 1 .. Len(p) : ~p[k].crc_ok
==============================================================================
