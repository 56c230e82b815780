------------------------------- MODULE Survey --------------------------------
(***************************************************************************)
(* The decode survey (decode_survey.c, decode_survey_core.h): the survey   *)
(* task hops from centre to centre and credits each with the frames the    *)
(* decoder classified while it was parked there.                           *)
(*                                                                         *)
(* Bursts captured at one LO are classified later: they wait for the       *)
(* worker, which takes the strongest and so any of them, then in the frame *)
(* queue, then in the decoder's hands.  The survey only sees the counters  *)
(* at both ends of the queue and the count of classified frames.  The      *)
(* queue is the bounded FIFO that FrameQueue implements, with its counters *)
(* trailing it.  A frame is the LO it was captured at; all are LW.DA, as   *)
(* no other is in a count the survey reads.                                *)
(* Delays (settle, dwell, the minimum of the guard) may take any time.  A  *)
(* visit's dwell is one unit, so a centre's dwell is its number of visits. *)
(* A behaviour is one survey.                                              *)
(***************************************************************************)
EXTENDS Integers, Sequences, FiniteSets

CONSTANTS NCenters,    \* size of the shortlist
          FloorVisits, \* DS_FLOOR_VISITS
          ZSquared,    \* DS_ELIM_Z squared
          QueueBound,  \* FRAME_QUEUE_SLOTS - 1
          MaxBacklog,  \* bound on the bursts waiting for the worker
          MaxFrames,   \* bound on the frames pushed
          MaxCycles    \* bound: the round-robin cycles the time budget allows

ASSUME SurveyAssumption ==
    /\ NCenters \in Nat \ {0}
    /\ {FloorVisits, ZSquared, QueueBound, MaxBacklog, MaxFrames, MaxCycles} \subseteq Nat

Centers == 1 .. NCenters
NvsLo   == 0                     \* the operator's LO
None    == -1

VARIABLES lo,       \* the LO the tuner is on
          backlog,  \* the bursts waiting for the worker
          work,     \* the frame the worker is pushing, and how far it is
          queue,    \* the frames in the queue
          hand,     \* the frame the decoder is at, and how far it is
          pushed, popped, \* the counters of the queue
          lw_da,    \* s_class_lw_da: the frames classified
          foreign,  \* history: those of another LO since the first snapshot
          svy,      \* where the survey task is
          cur,      \* the centre of this visit
          target,   \* pushed in survey_drain_guard
          base,     \* cc0.lw_da
          held,     \* history: bursts not yet pushed when the first guard began
          late,     \* history: a guard of this visit ran into GUARD_MAX
          centers,  \* s_centers
          cycle,    \* s_cycle
          abort     \* s_abort

frameVars == <<backlog, work, queue, hand, pushed, popped, lw_da>>
visitVars == <<cur, target, base, held, late, foreign>>
svyVars   == <<frameVars, lo, svy, visitVars, centers, cycle, abort>>

Idle == [frame |-> None, at |-> "idle"]

SvyInit ==
    /\ lo = NvsLo /\ backlog = <<>> /\ queue = <<>> /\ work = Idle /\ hand = Idle
    /\ pushed = 0 /\ popped = 0 /\ lw_da = 0 /\ foreign = 0
    /\ svy = "none" /\ cur = 1 /\ target = 0 /\ base = 0 /\ held = 0 /\ late = FALSE
    /\ centers = [c \in Centers |-> [lw_da |-> 0, visits |-> 0, eliminated |-> FALSE]]
    /\ cycle = 0 /\ abort = FALSE

-----------------------------------------------------------------------------
\* The frames: the air, the worker, the queue, the decoder.

Capture ==
    /\ Len(backlog) < MaxBacklog /\ pushed < MaxFrames
    /\ backlog' = Append(backlog, lo)
    /\ UNCHANGED <<work, queue, hand, pushed, popped, lw_da, foreign>>

WorkerTake ==
    /\ work = Idle
    /\ \E i \in 1 .. Len(backlog) :
         /\ work' = [frame |-> backlog[i], at |-> "push"]
         /\ backlog' = SubSeq(backlog, 1, i - 1) \o SubSeq(backlog, i + 1, Len(backlog))
    /\ UNCHANGED <<queue, hand, pushed, popped, lw_da, foreign>>

\* frame_decoder_push: a full queue drops the frame.
WorkerPush ==
    /\ work.at = "push"
    /\ \/ /\ Len(queue) < QueueBound
          /\ queue' = Append(queue, work.frame)
          /\ work' = [work EXCEPT !.at = "count"]
       \/ /\ Len(queue) = QueueBound
          /\ work' = Idle
          /\ UNCHANGED queue
    /\ UNCHANGED <<backlog, hand, pushed, popped, lw_da, foreign>>

WorkerCount ==
    /\ work.at = "count"
    /\ pushed' = pushed + 1
    /\ work' = Idle
    /\ UNCHANGED <<backlog, queue, hand, popped, lw_da, foreign>>

\* Between the two snapshots of a visit.
Counting == svy \in {"guard2", "wait2", "count"}

\* decoder_task: pop, count, and classify before the next pop.
DecoderPop ==
    /\ hand = Idle /\ queue # <<>>
    /\ hand' = [frame |-> Head(queue), at |-> "count"]
    /\ queue' = Tail(queue)
    /\ UNCHANGED <<backlog, work, pushed, popped, lw_da, foreign>>

DecoderCount ==
    /\ hand.at = "count"
    /\ popped' = popped + 1
    /\ hand' = [hand EXCEPT !.at = "classify"]
    /\ UNCHANGED <<backlog, work, queue, pushed, lw_da, foreign>>

DecoderClassify ==
    /\ hand.at = "classify"
    /\ lw_da' = lw_da + 1
    /\ foreign' = IF Counting /\ hand.frame # cur THEN foreign + 1 ELSE foreign
    /\ hand' = Idle
    /\ UNCHANGED <<backlog, work, queue, pushed, popped>>

Worker  == WorkerTake \/ WorkerPush \/ WorkerCount
Decoder == DecoderPop \/ DecoderCount \/ DecoderClassify

FrameStep ==
    /\ Capture \/ Worker \/ Decoder
    /\ UNCHANGED <<lo, svy, cur, target, base, held, late, centers, cycle, abort>>

-----------------------------------------------------------------------------
\* decode_survey_core.h

Alive(cs) == {c \in Centers : ~cs[c].eliminated}

\* rate(a) > rate(b); a rate is 0 without dwell.
RateAbove(a, b) == a.lw_da * (IF b.visits = 0 THEN 1 ELSE b.visits)
                     > b.lw_da * (IF a.visits = 0 THEN 1 ELSE a.visits)

\* The lowest index among the alive centres of the highest rate.
ds_leader_index(cs) ==
    CHOOSE l \in Alive(cs) :
        \A c \in Alive(cs) : /\ ~RateAbove(cs[c], cs[l])
                             /\ c < l => RateAbove(cs[l], cs[c])

\* rate(lead) - rate(cand) > z * SE, with both sides multiplied by the dwells
\* and squared.
ds_lead_beats(l, c) ==
    LET d == l.lw_da * c.visits - c.lw_da * l.visits
    IN  /\ l.visits # 0 /\ c.visits # 0
        /\ d > 0
        /\ 2 * d * d > ZSquared * (  (2 * l.lw_da + 1) * c.visits * c.visits
                                   + (2 * c.lw_da + 1) * l.visits * l.visits)

\* Mutant: the floor on the visits is missing.
EligibleAlways(c) == ~c.eliminated

ds_center_eligible(c) == ~c.eliminated /\ c.visits >= FloorVisits

ds_eliminate_pass(cs) ==
    LET lead == ds_leader_index(cs)
    IN  [c \in Centers |->
           IF c # lead /\ ds_center_eligible(cs[c]) /\ ds_lead_beats(cs[lead], cs[c])
           THEN [cs[c] EXCEPT !.eliminated = TRUE]
           ELSE cs[c]]

ds_converged(cs) == Cardinality(Alive(cs)) <= 1

-----------------------------------------------------------------------------
\* The survey task.

Goto(pc) == svy' = pc

\* decode_survey_start, then the shortlist: the density pre-pass hops about
\* and parks anywhere, and may find nothing.
Start ==
    /\ svy = "none"
    /\ lo' \in Centers
    /\ Goto("cycle") \/ Goto("done")
    /\ UNCHANGED <<visitVars, centers, cycle>>

\* A stop request is looked for after the shortlist, and in the round-robin loop
\* while it has not converged.
Heeded == abort /\ (cycle = 0 \/ ~ds_converged(centers))

\* The head of the round-robin loop.
CycleHead ==
    /\ svy = "cycle" /\ ~Heeded
    /\ IF ds_converged(centers) \/ cycle = MaxCycles
       THEN Goto("place") /\ UNCHANGED cur
       ELSE Goto("visit") /\ cur' = 1
    /\ UNCHANGED <<lo, target, base, held, late, foreign, centers, cycle>>

\* On to the next centre of the cycle.
NextCenter ==
    /\ \/ svy = "visited" /\ ~abort
       \/ svy = "visit" /\ centers[cur].eliminated
    /\ IF cur < NCenters THEN Goto("visit") /\ cur' = cur + 1
                         ELSE Goto("cycleEnd") /\ UNCHANGED cur
    /\ UNCHANGED <<lo, target, base, held, late, foreign, centers, cycle>>

\* survey_visit returns; its locals are gone.
Return ==
    /\ Goto("visited")
    /\ target' = 0 /\ base' = 0 /\ held' = 0 /\ late' = FALSE /\ foreign' = 0
    /\ UNCHANGED <<lo, cur, cycle>>

\* survey_visit: the hop, without which the visit is skipped ...
Hop ==
    /\ svy = "visit" /\ ~centers[cur].eliminated
    /\ lo' = cur
    /\ Goto("guard1")
    /\ UNCHANGED <<visitVars, centers, cycle>>

HopFails ==
    /\ svy = "visit" /\ ~centers[cur].eliminated
    /\ Return
    /\ UNCHANGED centers

\* ... the settling, then survey_drain_guard, which reads the count of pushed
\* frames once ...
GuardBegin(from, to) ==
    /\ svy = from /\ ~abort
    /\ target' = pushed
    /\ held' = IF from = "guard1" THEN Len(backlog) + (IF work = Idle THEN 0 ELSE 1)
                                  ELSE held
    /\ Goto(to)
    /\ UNCHANGED <<lo, cur, base, late, foreign, centers, cycle>>

\* Mutant: the guard is off by one.
CaughtUpButOne(p) == p + 1 >= target

CaughtUp(p) == p >= target

\* ... and waits for the decoder to pop as many, up to GUARD_MAX ...
GuardEnd(from, to) ==
    /\ svy = from /\ ~abort
    /\ late' = (late \/ ~CaughtUp(popped))
    /\ Goto(to)
    /\ UNCHANGED <<lo, cur, target, base, held, foreign, centers, cycle>>

\* ... the first snapshot ...
Snapshot ==
    /\ svy = "snapshot"
    /\ base' = lw_da
    /\ Goto("guard2")
    /\ UNCHANGED <<foreign, lo, cur, target, held, late, centers, cycle>>

\* ... and, after the dwell and the second guard, the credit.
AddVisit ==
    /\ svy = "count"
    /\ centers' = [centers EXCEPT ![cur].lw_da = @ + lw_da - base,
                                  ![cur].visits = @ + 1]
    /\ Return

CycleEnd ==
    /\ svy = "cycleEnd"
    /\ centers' = ds_eliminate_pass(centers)
    /\ cycle' = cycle + 1
    /\ Goto("cycle")
    /\ UNCHANGED <<lo, visitVars>>

\* Phase C parks on the best window of the histogram, here any centre; the hop
\* may fail.
Place ==
    /\ svy = "place"
    /\ lo' \in Centers \cup {NvsLo, lo}
    /\ Goto("done")
    /\ abort' = FALSE
    /\ UNCHANGED <<visitVars, centers, cycle>>

\* The loops and the delays look for a stop request; the task then goes back to
\* the operator's LO, if that hop succeeds.
Aborted ==
    /\ \/ svy \in {"guard1", "wait1", "guard2", "wait2", "visited"} /\ abort
       \/ svy = "cycle" /\ Heeded
    /\ lo' \in {NvsLo, lo}
    /\ Goto("done")
    /\ abort' = FALSE
    /\ UNCHANGED <<visitVars, centers, cycle>>

SurveyStep ==
    /\ \/ Place \/ Aborted
       \/ /\ \/ Start \/ CycleHead \/ NextCenter \/ Hop \/ HopFails
             \/ GuardBegin("guard1", "wait1") \/ GuardEnd("wait1", "snapshot")
             \/ Snapshot
             \/ GuardBegin("guard2", "wait2") \/ GuardEnd("wait2", "count")
             \/ AddVisit \/ CycleEnd
          /\ UNCHANGED abort
    /\ UNCHANGED frameVars

\* decode_survey_stop
Stop ==
    /\ svy \notin {"none", "done"} /\ ~abort
    /\ abort' = TRUE
    /\ UNCHANGED <<frameVars, lo, svy, visitVars, centers, cycle>>

SvyNext == FrameStep \/ SurveyStep \/ Stop

SvySpec == SvyInit /\ [][SvyNext]_svyVars

-----------------------------------------------------------------------------
(* Properties.                                                             *)

\* A visit is credited with the frames of its own centre.  When no guard ran
\* into its limit, the frames captured at another LO among those it counts are
\* at most the one in the decoder's hands, which the queue counts as popped
\* before it is classified, and the bursts that had not reached the queue when
\* the guard read its count; and of the frames pushed before the second guard
\* at most one is not counted.
CreditsOwnFrames ==
    svy = "count" /\ ~late =>
        /\ foreign <= 1 + held
        /\ target - lw_da <= 1

\* A centre is dropped for good, only after the floor of visits, and only by one
\* that stays in the running with a higher rate: the survey never drops its
\* last centre nor the one that leads.
EliminationSound ==
    [][/\ Alive(centers') \subseteq Alive(centers)
       /\ \A c \in Alive(centers) \ Alive(centers') :
             /\ centers[c].visits >= FloorVisits
             /\ \E l \in Alive(centers') : RateAbove(centers[l], centers[c])
      ]_svyVars
==============================================================================
