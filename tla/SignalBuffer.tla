----------------------------- MODULE SignalBuffer -----------------------------
(***************************************************************************)
(* p4-usb-host/main/signal_buffer.c: the look-back ring of samples.        *)
(*                                                                         *)
(* signal_buffer_push (the ingest task) collects samples into whole cache  *)
(* lines, the rest waiting in s_carry, copies them to a scratch buffer,    *)
(* and has a DMA channel move the scratch to the ring; it advances the     *)
(* cumulative counter as soon as the transfer is submitted.  The next push *)
(* waits for the transfer's completion before it reuses the scratch.  The  *)
(* worker checks that a burst's window is in the ring, reads it, and       *)
(* checks again.                                                           *)
(*                                                                         *)
(* A sample is its cumulative index.  The DMA moves one cache line per     *)
(* step and reads the scratch as it is then.  The counter is read and      *)
(* written in one step: module HeadTotal justifies that.                   *)
(***************************************************************************)
EXTENDS Integers, Sequences, FiniteSets

CONSTANTS Align,       \* ALIGN_COMPLEX
          Cap,         \* SIGNAL_BUF_CAPACITY_COMPLEX
          MaxPush,     \* most samples of one push
          WinLen,      \* length of the windows the worker reads
          MaxSamples,  \* bound on the samples offered
          MaxFaults    \* bound on failed submits and timed-out waits

ASSUME SignalBufferAssumption ==
    /\ Align \in Nat \ {0} /\ Cap \in Nat \ {0} /\ Cap % Align = 0
    /\ MaxPush \in Nat /\ MaxPush + Align - 1 <= Cap
    /\ WinLen \in Nat /\ MaxSamples \in Nat

VARIABLES ring,     \* circular_buf
          head,     \* head
          total,    \* s_head_total
          carry,    \* s_carry
          scratch,  \* s_align_scratch
          dma,      \* the channel's queue of transfers
          done,     \* s_dma_done, a binary semaphore
          push,     \* the push in progress
          offered,  \* samples given to signal_buffer_push so far
          rd,       \* the worker's read
          lost,     \* history: samples of a window given up as garbage
          orphan,   \* history: a transfer that signals nobody is under way
          settled,  \* history: total before the last push
          fails, timeouts

sbVars == <<ring, head, total, carry, scratch, dma, done, push, offered, rd,
            lost, orphan, settled, fails, timeouts>>

ringVars == <<ring, scratch, dma>>
histVars == <<lost, orphan, settled>>

None == -1
Offsets == 0 .. Cap - 1

-----------------------------------------------------------------------------
(* The producer.                                                           *)

\* Mutant: the tail of the push is not held back.
AlignedDownNot(n) == n

\* total_avail & ~(ALIGN_COMPLEX - 1)
AlignedDown(n) == (n \div Align) * Align

\* The most a push submits; the scratch is as large.
MaxAligned == AlignedDown(MaxPush + Align - 1)

\* Sample i of the push in progress.
Source(i) == offered - push.n + i - 1

signal_buffer_next_head(h, n) == (h + n) % Cap

SbInit ==
    /\ ring = [i \in Offsets |-> None]
    /\ head = 0 /\ total = 0 /\ carry = << >>
    /\ scratch = [i \in 1 .. MaxAligned |-> None] /\ dma = << >> /\ done = 1
    /\ push = [pc |-> "idle", n |-> 0, count |-> 0]
    /\ offered = 0
    /\ rd = [pc |-> "idle", start |-> 0, got |-> << >>, young |-> FALSE]
    /\ lost = {} /\ orphan = FALSE /\ settled = 0
    /\ fails = 0 /\ timeouts = 0

\* A push too small to complete a line only extends the carry.
PushSmall(n) ==
    /\ push.pc = "idle" /\ offered + n <= MaxSamples
    /\ Len(carry) + n < Align
    /\ carry' = carry \o [i \in 1 .. n |-> offered + i - 1]
    /\ offered' = offered + n
    /\ UNCHANGED <<ringVars, histVars, head, total, done, push, rd, fails, timeouts>>

PushBegin(n) ==
    /\ push.pc = "idle" /\ offered + n <= MaxSamples
    /\ Len(carry) + n >= Align
    /\ push' = [pc |-> "take", n |-> n, count |-> AlignedDown(Len(carry) + n)]
    /\ offered' = offered + n
    /\ UNCHANGED <<ringVars, histVars, head, total, carry, done, rd, fails, timeouts>>

TakeDone ==
    /\ push.pc = "take" /\ done = 1
    /\ done' = 0
    /\ push' = [push EXCEPT !.pc = "fill"]
    /\ UNCHANGED <<ringVars, histVars, head, total, carry, offered, rd, fails, timeouts>>

\* 250 ms went by: go on without the semaphore.
TakeTimeout ==
    /\ push.pc = "take" /\ done = 0 /\ fails + timeouts < MaxFaults
    /\ timeouts' = timeouts + 1
    /\ push' = [push EXCEPT !.pc = "fill"]
    /\ UNCHANGED <<ringVars, histVars, head, total, carry, done, offered, rd, fails>>

\* The carry first, then the head of the push.
FillScratch ==
    /\ push.pc = "fill"
    /\ scratch' = [i \in 1 .. MaxAligned |->
                      CASE i <= Len(carry) -> carry[i]
                        [] i \in Len(carry) + 1 .. push.count -> Source(i - Len(carry))
                        [] OTHER -> scratch[i]]
    /\ push' = [push EXCEPT !.pc = "submit"]
    /\ UNCHANGED <<histVars, ring, dma, head, total, carry, done, offered, rd, fails, timeouts>>

ToEnd == Cap - head
Wraps == push.count > ToEnd

Segment(dst, src, n, cb) == [dst |-> dst, src |-> src, n |-> n, cb |-> cb]

SubmitWhole ==
    /\ push.pc = "submit" /\ ~Wraps
    /\ dma' = Append(dma, Segment(head, 0, push.count, TRUE))
    /\ push' = [push EXCEPT !.pc = "publish"]
    /\ UNCHANGED <<histVars, ring, scratch, head, total, carry, done, offered, rd, fails, timeouts>>

\* Mutants: the second transfer starts at the head of the scratch; the first
\* signals too; the give of the recovery is missing.
SecondSourceZero == 0
FirstSignals == TRUE
NotGivenBack == done

SecondSource == ToEnd
FirstCallback == FALSE

\* give_dma_done_once: a binary semaphore holds one give.
GivenBack == 1

SubmitFirst ==
    /\ push.pc = "submit" /\ Wraps
    /\ dma' = Append(dma, Segment(head, 0, ToEnd, FirstCallback))
    /\ push' = [push EXCEPT !.pc = "second"]
    /\ UNCHANGED <<histVars, ring, scratch, head, total, carry, done, offered, rd, fails, timeouts>>

SubmitSecond ==
    /\ push.pc = "second"
    /\ dma' = Append(dma, Segment(0, SecondSource, push.count - ToEnd, TRUE))
    /\ push' = [push EXCEPT !.pc = "publish"]
    /\ UNCHANGED <<histVars, ring, scratch, head, total, carry, done, offered, rd, fails, timeouts>>

\* Nothing was submitted: the processor copies the scratch, in two pieces when
\* it wraps, and gives the semaphore back.
SubmitFails ==
    /\ push.pc = "submit" /\ fails + timeouts < MaxFaults
    /\ fails' = fails + 1
    /\ ring' = [i \in Offsets |->
                   LET k == (i - head) % Cap
                   IN  IF k < push.count THEN scratch[k + 1] ELSE ring[i]]
    /\ done' = GivenBack
    /\ push' = [push EXCEPT !.pc = "publish"]
    /\ UNCHANGED <<histVars, scratch, dma, head, total, carry, offered, rd, timeouts>>

\* Mutant: the old early return, which leaves head behind.
SecondFailsReturns ==
    /\ push.pc = "second" /\ fails + timeouts < MaxFaults
    /\ fails' = fails + 1
    /\ done' = GivenBack
    /\ lost' = lost \union {scratch[i] : i \in 1 .. push.count}
    /\ orphan' = TRUE
    /\ push' = [push EXCEPT !.pc = "idle"]
    /\ UNCHANGED <<ringVars, head, total, carry, offered, rd, settled, timeouts>>

\* The first transfer may be under way and signals nobody: the window is given
\* up, and head moves on all the same.
SecondFails ==
    /\ push.pc = "second" /\ fails + timeouts < MaxFaults
    /\ fails' = fails + 1
    /\ done' = GivenBack
    /\ lost' = lost \union {scratch[i] : i \in 1 .. push.count}
    /\ orphan' = TRUE
    /\ push' = [push EXCEPT !.pc = "publish"]
    /\ UNCHANGED <<ringVars, head, total, carry, offered, rd, settled, timeouts>>

\* head, the cumulative counter, and the new carry: the tail of this push.
Publish ==
    /\ push.pc = "publish"
    /\ head' = signal_buffer_next_head(head, push.count)
    /\ total' = total + push.count
    /\ settled' = total
    /\ LET left == Len(carry) + push.n - push.count
       IN  carry' = [i \in 1 .. left |-> Source(push.n - left + i)]
    /\ push' = [push EXCEPT !.pc = "idle", !.n = 0, !.count = 0]
    /\ UNCHANGED <<ringVars, done, offered, rd, lost, orphan, fails, timeouts>>

Producer ==
    \/ TakeDone \/ TakeTimeout \/ FillScratch
    \/ SubmitWhole \/ SubmitFirst \/ SubmitSecond \/ SubmitFails \/ SecondFails
    \/ Publish

-----------------------------------------------------------------------------
(* The DMA channel: transfers in the order of their submission, a line at  *)
(* a time; dma_done_cb at the end of a transfer that has a callback.       *)

Land ==
    /\ dma # << >>
    /\ LET s == Head(dma)
           last == s.n <= Align
       IN  /\ ring' = [i \in Offsets |->
                          IF i \in s.dst .. s.dst + Align - 1
                          THEN scratch[s.src + (i - s.dst) + 1] ELSE ring[i]]
           /\ dma' = IF last THEN Tail(dma)
                     ELSE <<Segment(s.dst + Align, s.src + Align, s.n - Align, s.cb)>> \o Tail(dma)
           /\ done' = IF last /\ s.cb THEN 1 ELSE done
           /\ orphan' = (orphan /\ dma' # << >>)
    /\ UNCHANGED <<scratch, head, total, carry, push, offered, rd, lost, settled, fails, timeouts>>

-----------------------------------------------------------------------------
(* The worker.                                                             *)

signal_buffer_burst_valid(start, len) ==
    /\ len # 0 /\ len < Cap
    /\ start + len <= total
    /\ total - start <= Cap

\* The check before the read; then the cache is invalidated over the window,
\* so that the reads see the ring.
CheckWindow(start) ==
    /\ rd.pc = "idle"
    /\ signal_buffer_burst_valid(start, WinLen)
    /\ rd' = [pc |-> "read", start |-> start, got |-> << >>,
              young |-> start + WinLen > settled]
    /\ UNCHANGED <<ringVars, histVars, head, total, carry, done, push, offered, fails, timeouts>>

\* signal_buffer_read_chunk, a sample at a time.
ReadSample ==
    /\ rd.pc = "read" /\ Len(rd.got) < WinLen
    /\ rd' = [rd EXCEPT !.got = Append(@, ring[(rd.start + Len(@)) % Cap])]
    /\ UNCHANGED <<ringVars, histVars, head, total, carry, done, push, offered, fails, timeouts>>

Recheck ==
    /\ rd.pc = "read" /\ Len(rd.got) = WinLen
    /\ rd' = IF signal_buffer_burst_valid(rd.start, WinLen)
             THEN [rd EXCEPT !.pc = "done"]
             ELSE [pc |-> "idle", start |-> 0, got |-> << >>, young |-> FALSE]
    /\ UNCHANGED <<ringVars, histVars, head, total, carry, done, push, offered, fails, timeouts>>

\* The burst goes to the pipeline.
Demodulate ==
    /\ rd.pc = "done"
    /\ rd' = [pc |-> "idle", start |-> 0, got |-> << >>, young |-> FALSE]
    /\ UNCHANGED <<ringVars, histVars, head, total, carry, done, push, offered, fails, timeouts>>

SbNext ==
    \/ \E n \in 1 .. MaxPush : PushSmall(n) \/ PushBegin(n)
    \/ Producer
    \/ Land
    \/ \E start \in 0 .. MaxSamples : CheckWindow(start)
    \/ ReadSample \/ Recheck \/ Demodulate

SbSpec == SbInit /\ [][SbNext]_sbVars

\* The ingest task runs on, and the DMA channel completes what it was given.
SbFairSpec == SbSpec /\ WF_sbVars(Producer) /\ WF_sbVars(Land)

-----------------------------------------------------------------------------
(* Properties.                                                             *)

\* However the sizes of the pushes add up, and whatever failed, the carry stays
\* below a line, every copy starts and ends on a line, and none runs past the
\* ring or the scratch: what the cache argument of signal_buffer_push (#125)
\* rests on.
TransfersAligned ==
    /\ head % Align = 0 /\ total % Align = 0 /\ Len(carry) < Align
    /\ \A i \in 1 .. Len(dma) :
          /\ dma[i].dst % Align = 0 /\ dma[i].n % Align = 0
          /\ dma[i].dst + dma[i].n <= Cap
          /\ dma[i].src + dma[i].n <= MaxAligned

\* Between pushes every sample offered is counted or carried, whatever
\* happened to the transfers (the invariant of signal_buffer_ring.h): the
\* index the detector uses for a sample stays the ring's.
IndexLockstep ==
    push.pc = "idle" => /\ total + Len(carry) = offered
                        /\ head = total % Cap

\* As long as no wait has timed out, the scratch is not refilled while a transfer
\* still reads it, except by a push that follows a window given up.
ScratchStable ==
    push.pc = "fill" /\ timeouts = 0 /\ ~orphan => dma = << >>

Window == rd.start .. rd.start + WinLen - 1
ReadAsPushed == rd.got = [i \in 1 .. WinLen |-> rd.start + i - 1]

\* A window that passes both checks was read as it was pushed, provided that
\* it is one push older than the newest data when it is first checked and one
\* push away from being lapped when it is checked again, and that no wait has
\* timed out.
MarginReadIntact ==
    /\ rd.pc = "done" /\ ~rd.young /\ timeouts = 0
    /\ rd.start + Cap >= total + MaxAligned
    /\ Window \intersect lost = {}
    => ReadAsPushed

\* A push never waits for ever, without help from the timeout: each way a submit
\* can fail gives the semaphore back.
EveryPushReturns == (push.pc # "idle") ~> (push.pc = "idle")
=============================================================================
