---------------------------- MODULE FrameDecoder -----------------------------
(***************************************************************************)
(* The decoder task (frame_decoder.c, decoder_task and the LW.DA arm of    *)
(* process_one) around the fragment reassembler: the RF clock it keeps for *)
(* the periodic drain, the admission of damaged continuations, and where a *)
(* completed chain goes.                                                   *)
(*                                                                         *)
(* A frame is stamped with the instant its burst was on the air and is     *)
(* popped some time later: the worker decodes strongest first and runs     *)
(* behind.  An environment fixes the frames that may come, the lags they   *)
(* may have and the instants of the wall clock at which the loop may run.  *)
(* One action is one iteration of the loop.                                *)
(***************************************************************************)
EXTENDS IdaReassembler

CONSTANTS Environments, \* their frames, lags and instants, by name
          TickPeriod    \* 1 s, between two drains of the idle path

ASSUME DecoderAssumption ==
    /\ \A e \in DOMAIN Environments :
          Environments[e] \in [frames : SUBSET Offered, lags : SUBSET Nat,
                               instants : SUBSET Nat]
    /\ TickPeriod \in Nat
    /\ 0 \notin Times

VARIABLES env,         \* the environment of this behaviour
          wall,        \* esp_timer_get_time() of the last iteration
          rf_now,      \* s_rf_now
          wall_at_rf,  \* s_wall_at_rf_now
          last_tick,   \* last_tick of decoder_task
          routed       \* where the last iteration sent a completed chain

decVars == <<sessions, env, wall, rf_now, wall_at_rf, last_tick, routed>>

DecInit ==
    /\ IdaInit
    /\ env \in DOMAIN Environments
    /\ wall = 0 /\ rf_now = 0 /\ wall_at_rf = 0 /\ last_tick = 0
    /\ routed = {}

ArrivingFrames == Environments[env].frames
Lags           == Environments[env].lags
Instants       == {w \in Environments[env].instants : w >= wall}

-----------------------------------------------------------------------------
\* The clock the sessions are expired on.

\* s_rf_now and s_wall_at_rf_now once a frame stamped t has been popped at w.
RfNowAfter(t)       == IF t > rf_now THEN t ELSE rf_now
WallAtRfAfter(t, w) == IF t > rf_now THEN w ELSE wall_at_rf

\* Mutant: expire on the wall clock.
DrainNowWall(rf, at, w) == w

\* drain_now: the newest air time seen, extrapolated by the wall clock.
DrainNow(rf, at, w) == rf + (w - at)

TickDue(w) == w - last_tick > TickPeriod

\* The table after the tick part of an iteration.
AfterTick(rf, at, w) ==
    IF TickDue(w) THEN AfterDrain(sessions, DrainNow(rf, at, w)) ELSE sessions

-----------------------------------------------------------------------------
\* process_one on an LW.DA frame.

\* Mutant: the route ignores the dirty mark.
RouteAll(c) == "sbd_reassembler_feed"

Route(c) == IF c.dirty THEN "salvage_emit" ELSE "sbd_reassembler_feed"

Clean(p) == \A k \in 1 .. Len(p) : p[k].crc_ok

\* ida_salvage_drain at the frame's own time, then feed_ex and the routing of
\* what it completes.
Process(ss, f) ==
    LET drained == AfterDrain(ss, f.at)
        c       == Completed(drained, f)
    IN  /\ Feed(drained, f)
        /\ routed' = IF Completes(drained, f)
                     THEN {[to |-> Route(c), clean |-> Clean(c.payload)]}
                     ELSE {}

\* An iteration that pops f.
DecodeFrame(f, w) ==
    /\ w - f.at \in Lags
    /\ wall' = w
    /\ rf_now' = RfNowAfter(f.at)
    /\ wall_at_rf' = WallAtRfAfter(f.at, w)
    /\ last_tick' = IF TickDue(w) THEN w ELSE last_tick
    /\ LET ss == AfterTick(rf_now', wall_at_rf', w) IN
         \/ Admissible(f) /\ Process(ss, f)
         \/ ~f.crc_ok /\ sessions' = ss /\ routed' = {}
    /\ UNCHANGED env

\* An iteration that finds the queue empty.
DecodeIdle(w) ==
    /\ TickDue(w)
    /\ wall' = w /\ last_tick' = w
    /\ sessions' = AfterTick(rf_now, wall_at_rf, w)
    /\ routed' = {}
    /\ UNCHANGED <<env, rf_now, wall_at_rf>>

DecNext ==
    \E w \in Instants :
        (\E f \in ArrivingFrames : DecodeFrame(f, w)) \/ DecodeIdle(w)

DecSpec == DecInit /\ [][DecNext]_decVars

-----------------------------------------------------------------------------
(* Properties.                                                             *)

\* Lags that differ by no more than the session timeout exceeds the gap.
Steady == \A a, b \in Lags : a - b <= SessionTimeout - FragGap

\* At w, chain s may still be continued by a frame that is yet to be popped.
Alive(s, w) == \E g \in ArrivingFrames : /\ Admissible(g)
                                     /\ Matches(s, g)
                                     /\ \E d \in Lags : g.at + d >= w

\* However far the worker runs behind the air, neither the tick of the next
\* iteration nor the drain before a feed reaps a chain whose continuation is
\* still on its way, as long as the lag itself varies by no more than the
\* margin between the fragment gap and the session timeout.  (Expiring on the
\* wall clock reaped every chain as soon as the lag reached the timeout.)
ReapsOnlyDead ==
    Steady =>
      \A w \in Instants :
        /\ TickDue(w) => \A i \in Reaped(sessions, DrainNow(rf_now, wall_at_rf, w)) :
                            ~Alive(sessions[i], w)
        /\ \A f \in ArrivingFrames : w - f.at \in Lags =>
              \A i \in Reaped(sessions, f.at)
                       \cup Reaped(sessions, DrainNow(RfNowAfter(f.at), WallAtRfAfter(f.at, w), w)) :
                  ~Alive(sessions[i], w)

\* What the trusted path is given holds only fragments that passed their CRC,
\* and what is only displayed holds one that did not: a damaged fragment taints
\* its chain however it is interleaved with drains and with other chains.
TrustedIsClean ==
    \A r \in routed : r.clean <=> r.to = "sbd_reassembler_feed"
==============================================================================
