------------------------------ MODULE WorkerPath ------------------------------
(***************************************************************************)
(* The worker task between the two structures it shares without a lock.    *)
(* Before it demodulates a burst it reads the sample counter               *)
(* (signal_buffer_burst_valid, module HeadTotal), and what it demodulates  *)
(* it pushes as frames (frame_decoder_push, module FrameQueue), any number *)
(* for a burst.  It does one of the two at a time; meanwhile the ingest    *)
(* task advances the counter and the decoder task takes frames.            *)
(***************************************************************************)
EXTENDS FrameQueue, HeadTotal

wpVars == <<fqVars, htVars>>

WpInit == FqInit /\ HtInit

\* The ingest task publishes the counter with every push of samples.
Samples ==
    /\ \/ \E n \in Counts : WriteOpen(n)
       \/ \E half \in {"lo", "hi"} : WriteWord(half)
       \/ WriteClose
    /\ UNCHANGED fqVars

\* The guards on a burst, once the frames of the one before are handed over.
Validate ==
    /\ \/ prod = "idle" /\ ReadBegin
       \/ ReadSeq
       \/ \E half \in {"lo", "hi"} : ReadWord(half)
       \/ ReadClose
    /\ UNCHANGED fqVars

\* A burst that passed them yields a frame; on a full queue it is dropped.
Offer == r.pc = "done" /\ (Reserve \/ ReserveFull) /\ UNCHANGED htVars

HandOver == (FillHeader \/ FillBits \/ Commit \/ CountPushed) /\ UNCHANGED htVars

Decode == Consumer /\ UNCHANGED htVars

WpNext == Samples \/ Validate \/ Offer \/ HandOver \/ Decode

\* decoder_task polls the queue for ever, and a frame that was begun is
\* finished; nothing says that there are bursts or frames.
WpSpec ==
    /\ WpInit /\ [][WpNext]_wpVars
    /\ WF_wpVars(Decode)
    /\ WF_wpVars(HandOver)
=============================================================================
