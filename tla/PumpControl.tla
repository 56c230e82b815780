----------------------------- MODULE PumpControl -----------------------------
(***************************************************************************)
(* How other tasks have the usb_pump task change the tuner (class_driver.c)*)
(* and what that does to the pool of bulk transfers (esp_libusb.c).        *)
(*                                                                         *)
(* class_driver_retune, class_driver_set_gain_quiesced and                 *)
(* class_driver_prepare_for_reboot each leave their argument in a variable,*)
(* set a bit of driver_obj.actions and wait on a binary semaphore for a    *)
(* bounded time.  The pump takes the bits in a fixed order, pauses the     *)
(* stream, talks to the tuner, resumes the stream and gives the semaphore. *)
(* "actions" is a plain word: setting and clearing a bit is a load and a   *)
(* store, which other tasks may come between.  Transfers complete only     *)
(* while the pump handles USB events: at the head of its loop, while a     *)
(* pause drains, and during control transfers.                             *)
(*                                                                         *)
(* A request is the number of the call that made it.  The device stays     *)
(* attached, its stream has been started, and no other task handles USB    *)
(* events (the software AGC and the setgain command would).  The submit    *)
(* failure a test build can inject is left out.                            *)
(***************************************************************************)
EXTENDS Integers, FiniteSets

CONSTANTS Callers,     \* the tasks that make requests
          KindOf,      \* what each of them asks for: "retune", "gain" or "stop"
          NUrbs,       \* ASYNC_TRANSFER_COUNT, the bulk transfers
          MaxCalls,    \* bound on the calls
          MaxTimeouts, \* bound on the waits that time out
          MaxFaults,   \* bound on the failures of the USB host and the tuner
          MaxOtas      \* bound on the times maintenance mode is entered

Kinds == {"retune", "gain", "stop"}
Urbs == 1 .. NUrbs

ASSUME PumpAssumption ==
    /\ KindOf \in [Callers -> Kinds]
    /\ NUrbs \in Nat \ {0}
    /\ {MaxCalls, MaxTimeouts, MaxFaults, MaxOtas} \subseteq Nat

VARIABLES actions,      \* driver_obj.actions: the bits that are set
          pending,      \* s_pending_retune_hz, s_pending_gain_dbx10
          sem,          \* s_retune_done, s_setgain_done, s_graceful_done
          last_ok,      \* s_last_retune_ok, s_last_setgain_ok
          call,         \* the callers
          calls,        \* history: calls made
          pump,         \* the pump task
          tuner,        \* the request the tuner last carried out, by kind
          urb,          \* each transfer: in flight, parked or not allocated
          live,         \* s_live_xfers
          streaming,    \* dev->streaming
          freed,        \* s_transfers_freed
          maintenance,  \* s_maintenance
          maint_paused, \* maint_paused of class_driver_task
          rebooted,     \* what became of prepare_for_reboot before the restart
          contended,    \* history: a request met other work that was not finished
          timeouts, faults, otas \* history: counted against the bounds

reqVars  == <<actions, pending, sem, last_ok, call, calls, contended, timeouts>>
urbVars  == <<urb, live, streaming, freed>>
pcVars   == <<reqVars, pump, tuner, urbVars, maintenance, maint_paused, rebooted, faults, otas>>

IdleCall == [at |-> "idle", req |-> 0, reg |-> {}]
IdlePump == [at |-> "events", kind |-> "none", reg |-> {}, req |-> 0, ok |-> FALSE,
             drained |-> FALSE]

PcInit ==
    /\ actions = {} /\ pending = [k \in Kinds |-> 0] /\ sem = [k \in Kinds |-> FALSE]
    /\ last_ok = [k \in Kinds |-> FALSE]
    /\ call = [c \in Callers |-> IdleCall] /\ calls = 0
    /\ pump = IdlePump
    /\ tuner = [k \in Kinds |-> 0]
    /\ urb = [i \in Urbs |-> "flight"] /\ live = NUrbs
    /\ streaming = TRUE /\ freed = FALSE
    /\ maintenance = FALSE /\ maint_paused = FALSE /\ rebooted = "no"
    /\ contended = FALSE /\ timeouts = 0 /\ faults = 0 /\ otas = 0

-----------------------------------------------------------------------------
\* The callers.

Busy(c) == call[c].at # "idle"

\* A request, or a change of mode, that is not finished.
Unfinished == actions # {} \/ pump.kind # "none" \/ maintenance # maint_paused

CallGoes(c, from, to) == call[c].at = from /\ call' = [call EXCEPT ![c].at = to]

\* Mutant: a completion that is already there is left in place.
SemKept(k) == sem

SemCleared(k) == [sem EXCEPT ![k] = FALSE]

\* Clear a stale completion ...
CallBegin(c) ==
    /\ calls < MaxCalls
    /\ ~Busy(c)
    /\ calls' = calls + 1
    /\ call' = [call EXCEPT ![c] = [IdleCall EXCEPT
                   !.at = IF KindOf[c] = "stop" THEN "load" ELSE "pending", !.req = calls']]
    /\ sem' = SemCleared(KindOf[c])
    /\ contended' = (contended \/ Unfinished \/ \E d \in Callers : Busy(d))
    /\ UNCHANGED <<actions, pending, last_ok, timeouts, rebooted>>

\* ... leave the argument ...
CallPending(c) ==
    /\ CallGoes(c, "pending", "load")
    /\ pending' = [pending EXCEPT ![KindOf[c]] = call[c].req]
    /\ UNCHANGED <<actions, sem, last_ok, calls, contended, timeouts, rebooted>>

\* ... set the bit, in two steps ...
CallLoad(c) ==
    /\ call[c].at = "load"
    /\ call' = [call EXCEPT ![c].at = "store", ![c].reg = actions]
    /\ UNCHANGED <<actions, pending, sem, last_ok, calls, contended, timeouts, rebooted>>

CallStore(c) ==
    /\ call[c].at = "store"
    /\ actions' = call[c].reg \cup {KindOf[c]}
    /\ call' = [call EXCEPT ![c].at = "wait", ![c].reg = {}]
    /\ UNCHANGED <<pending, sem, last_ok, calls, contended, timeouts, rebooted>>

\* ... and wait for the completion, or for the time to run out.
CallTaken(c) ==
    /\ sem[KindOf[c]]
    /\ CallGoes(c, "wait", IF KindOf[c] = "stop" \/ last_ok[KindOf[c]] THEN "ok" ELSE "failed")
    /\ sem' = [sem EXCEPT ![KindOf[c]] = FALSE]
    /\ UNCHANGED <<actions, pending, last_ok, calls, contended, timeouts, rebooted>>

CallTimesOut(c) ==
    /\ timeouts < MaxTimeouts /\ timeouts' = timeouts + 1
    /\ CallGoes(c, "wait", "timeout")
    /\ UNCHANGED <<actions, pending, sem, last_ok, calls, contended, rebooted>>

\* The call has returned.  The caller of prepare_for_reboot restarts the
\* processor, whatever came of it.
CallReturn(c) ==
    /\ call[c].at \in {"ok", "failed", "timeout"}
    /\ call' = [call EXCEPT ![c] = IdleCall]
    /\ rebooted' = IF KindOf[c] = "stop" THEN call[c].at ELSE "no"
    /\ UNCHANGED <<actions, pending, sem, last_ok, calls, contended, timeouts>>

CallSteps(c) ==
    /\ rebooted = "no"
    /\ \/ CallPending(c) \/ CallLoad(c) \/ CallStore(c)
       \/ CallTaken(c) \/ CallTimesOut(c) \/ CallReturn(c)
    /\ UNCHANGED <<pump, tuner, urbVars, maintenance, maint_paused, faults, otas>>

CallBegins(c) ==
    /\ rebooted = "no"
    /\ CallBegin(c)
    /\ UNCHANGED <<pump, tuner, urbVars, maintenance, maint_paused, faults, otas>>

\* class_driver_set_maintenance, around an update
SetMaintenance ==
    /\ rebooted = "no"
    /\ maintenance' = ~maintenance
    /\ maintenance' => otas < MaxOtas
    /\ otas' = IF maintenance' THEN otas + 1 ELSE otas
    /\ contended' = (contended \/ \E c \in Callers : Busy(c))
    /\ UNCHANGED <<actions, pending, sem, last_ok, call, calls, timeouts, pump, tuner,
                   urbVars, maint_paused, rebooted, faults>>

-----------------------------------------------------------------------------
\* The pool of transfers (esp_libusb.c), in the pump task.

InFlight == {i \in Urbs : urb[i] = "flight"}
Parked   == {i \in Urbs : urb[i] = "parked"}

\* Mutant: a transfer that is submitted again is not counted.
LiveUncounted == live - 1

\* s_live_xfers once a completed transfer has been submitted again.
LiveResubmitted == live - 1 + 1

\* stream_transfer_cb: park the transfer when the stream is paused, submit it
\* again when it is not, and lose it when that fails.
TransferDone(i) ==
    /\ i \in InFlight
    /\ \/ /\ ~streaming
          /\ urb' = [urb EXCEPT ![i] = "parked"] /\ live' = live - 1
          /\ UNCHANGED faults
       \/ /\ streaming
          /\ live' = LiveResubmitted
          /\ UNCHANGED <<urb, faults>>
       \/ /\ streaming /\ faults < MaxFaults /\ faults' = faults + 1
          /\ urb' = [urb EXCEPT ![i] = "parked"] /\ live' = live - 1
    /\ UNCHANGED <<streaming, freed>>

\* The part of esp_libusb_resume_stream that submits the parked transfers; a
\* transfer that is in flight is refused.
ResumeParked ==
    /\ ~freed
    /\ \E lost \in {{}} \cup {{i} : i \in Parked} :
         /\ Cardinality(lost) + faults <= MaxFaults
         /\ faults' = faults + Cardinality(lost)
         /\ urb' = [i \in Urbs |-> IF i \in Parked \ lost THEN "flight" ELSE urb[i]]
         /\ live' = live + Cardinality(Parked \ lost)
    /\ streaming' = TRUE
    /\ UNCHANGED freed

\* The part that allocates a new pool, up to the first transfer that cannot be
\* allocated, or cannot be submitted.
ResumeFreed ==
    /\ freed
    /\ \E n \in 0 .. NUrbs, left \in {"null", "parked"} :
         /\ n < NUrbs => faults < MaxFaults
         /\ urb' = [i \in Urbs |-> CASE i <= n -> "flight" [] i = n + 1 -> left
                                      [] OTHER -> "null"]
         /\ live' = live + n
         /\ faults' = IF n < NUrbs THEN faults + 1 ELSE faults
    /\ streaming' = TRUE
    /\ freed' = FALSE

resume_stream == ResumeParked \/ ResumeFreed

\* esp_libusb_free_stream_transfers
free_stream_transfers ==
    IF live = 0 THEN /\ urb' = [i \in Urbs |-> "null"]
                     /\ freed' = TRUE
                     /\ UNCHANGED <<live, streaming, faults>>
                ELSE UNCHANGED <<urbVars, faults>>

-----------------------------------------------------------------------------
\* The pump's loop (class_driver_task).

Following == [events |-> "retune", retune |-> "gain", gain |-> "stop", stop |-> "maint",
              maint |-> "events"]

\* On to what the loop does after stage s, with nothing in hand.
After(s) == [IdlePump EXCEPT !.at = Following[s]]

\* USB events are handled: transfers complete.
Events ==
    /\ \/ pump.at \in {"events", "drain", "control"}
          /\ \E i \in Urbs : TransferDone(i)
          /\ UNCHANGED pump
       \/ pump.at = "events"
          /\ pump' = After("events")
          /\ UNCHANGED <<urbVars, faults>>
    /\ UNCHANGED <<reqVars, tuner, maint_paused>>

\* Test the bit, and load the word to clear it.
TestBit ==
    /\ pump.at \in Kinds
    /\ pump' = IF pump.at \in actions
               THEN [pump EXCEPT !.at = "clear", !.kind = pump.at, !.reg = actions]
               ELSE After(pump.at)
    /\ UNCHANGED <<reqVars, tuner, urbVars, maint_paused, faults>>

ClearBit ==
    /\ pump.at = "clear"
    /\ actions' = pump.reg \ {pump.kind}
    /\ pump' = [pump EXCEPT !.at = "pause", !.reg = {}]
    /\ UNCHANGED <<pending, sem, last_ok, call, calls, contended, timeouts,
                   tuner, urbVars, maint_paused, faults>>

\* Read the argument; esp_libusb_pause_stream begins ...
Pause ==
    /\ \/ pump.at = "pause" /\ pump' = [pump EXCEPT !.at = "drain", !.req = pending[pump.kind]]
       \/ /\ pump.at = "maint" /\ maintenance /\ ~maint_paused
          /\ pump' = [pump EXCEPT !.at = "drain", !.kind = "maint"]
    /\ streaming' = FALSE
    /\ UNCHANGED <<reqVars, tuner, urb, live, freed, maint_paused, faults>>

\* Mutant: the pump waits until one transfer is left.
DrainedButOne == live <= 1

Drained == live = 0

\* ... and ends when no transfer is live or after 300 ms.
DrainEnds ==
    /\ pump.at = "drain"
    /\ pump' = [pump EXCEPT !.at = IF pump.kind = "maint" THEN "free" ELSE "control",
                            !.drained = Drained]
    /\ UNCHANGED <<reqVars, tuner, urbVars, maint_paused, faults>>

\* Mutant: the stream is resumed after the stop as after the others.
ResumesAlways == TRUE

\* Whether the stream is resumed after the control transfers.
Resumes == pump.kind # "stop"

\* rtlsdr_set_center_freq, rtlsdr_set_tuner_gain, rtlsdr_standby
Control ==
    /\ pump.at = "control"
    /\ \/ /\ tuner' = [tuner EXCEPT ![pump.kind] = pump.req]
          /\ pump' = [pump EXCEPT !.at = IF Resumes THEN "resume" ELSE "give", !.ok = TRUE]
          /\ UNCHANGED faults
       \/ /\ faults < MaxFaults /\ faults' = faults + 1
          /\ pump' = [pump EXCEPT !.at = IF Resumes THEN "resume" ELSE "give"]
          /\ UNCHANGED tuner
    /\ UNCHANGED <<reqVars, urbVars, maint_paused>>

Resume ==
    /\ pump.at = "resume"
    /\ resume_stream
    /\ pump' = [pump EXCEPT !.at = "give"]
    /\ UNCHANGED <<reqVars, tuner, maint_paused>>

Give ==
    /\ pump.at = "give"
    /\ last_ok' = [last_ok EXCEPT ![pump.kind] = pump.ok]
    /\ sem' = [sem EXCEPT ![pump.kind] = TRUE]
    /\ pump' = After(pump.kind)
    /\ UNCHANGED <<actions, pending, call, calls, contended, timeouts, tuner, urbVars,
                   maint_paused, faults>>

MaintenanceFree ==
    /\ pump.at = "free"
    /\ free_stream_transfers
    /\ maint_paused' = TRUE
    /\ pump' = After("maint")
    /\ UNCHANGED <<reqVars, tuner>>

\* Mutant: the end of maintenance is not noticed.
MaintenanceOverNever == FALSE

MaintenanceOver == ~maintenance /\ maint_paused

MaintenanceElse ==
    /\ pump.at = "maint" /\ (maintenance => maint_paused)
    /\ IF MaintenanceOver THEN resume_stream /\ maint_paused' = FALSE
                          ELSE UNCHANGED <<urbVars, maint_paused, faults>>
    /\ pump' = After("maint")
    /\ UNCHANGED <<reqVars, tuner>>

Pump ==
    /\ rebooted = "no"
    /\ \/ Events \/ TestBit \/ ClearBit \/ Pause \/ DrainEnds \/ Control \/ Resume \/ Give
       \/ MaintenanceFree \/ MaintenanceElse
    /\ UNCHANGED <<maintenance, rebooted, otas>>

PcNext ==
    \/ Pump \/ SetMaintenance
    \/ \E c \in Callers : CallBegins(c) \/ CallSteps(c)

\* The scheduler runs the pump and every waiting caller; nobody has to call.
PcSpec ==
    /\ PcInit /\ [][PcNext]_pcVars
    /\ WF_pcVars(Pump)
    /\ \A c \in Callers : WF_pcVars(CallSteps(c))

-----------------------------------------------------------------------------
(* Properties.                                                             *)

\* s_live_xfers is the number of transfers that are in flight, through lost
\* transfers, drains that ran out of time, partly allocated pools and requests
\* served during maintenance; and a pool that was freed has none in flight.
\* esp_libusb_free_stream_transfers relies on it not to free a transfer the
\* host controller still writes to.
UrbAccounting ==
    live = Cardinality(InFlight) /\ (freed => InFlight = {})

\* The pump's control transfers are made with the stream paused and, unless
\* the drain ran out of time, with no bulk transfer in flight, whichever
\* requests and mode changes came before (the contention that wedges the
\* device, class_driver.c).
ControlQuiet ==
    pump.at = "control" => ~streaming /\ (pump.drained => InFlight = {})

\* A retune or gain call that began with nothing else unfinished and returns
\* success has been carried out: it was not answered by the late completion of
\* an earlier call that timed out.
AnswerTruthful ==
    \A c \in Callers :
        call[c].at = "ok" /\ KindOf[c] # "stop" /\ ~contended
            => tuner[KindOf[c]] = call[c].req

\* When prepare_for_reboot has been answered and nothing else was asked, the
\* processor restarts with the stream paused and the pump between requests: the
\* tuner is not in the middle of a control transfer.
RebootQuiet ==
    rebooted = "ok" /\ ~contended => ~streaming /\ pump.kind = "none"

\* Whatever failed or timed out, a pause ends: the streaming flag is set again
\* unless maintenance mode is on or the processor restarts.
StreamReturns ==
    ~streaming ~> (streaming \/ maintenance \/ rebooted # "no")
=============================================================================
