------------------------------ MODULE HeadTotal ------------------------------
(***************************************************************************)
(* The 64-bit sample counter of signal_buffer.c on a 32-bit processor:     *)
(* s_head_total is two words, written under a sequence counter that is odd *)
(* during a write (signal_buffer_push) and read with retries               *)
(* (read_head_total).  Every load and store is a step; the compiler may    *)
(* order the two words of an access either way between the fences.         *)
(***************************************************************************)
EXTENDS Integers

CONSTANTS Word,     \* values of a word: 2^32
          Counts,   \* sizes of a push
          MaxTotal  \* bound on the counter

ASSUME HeadTotalAssumption ==
    Word \in Nat \ {0} /\ Counts \subseteq Nat \ {0} /\ MaxTotal \in Nat

VARIABLES seq,   \* s_head_total_seq
          lo, hi,\* the words of s_head_total
          value, \* s_head_total as it was written last
          w,     \* the writer: next value and words still to store
          r,     \* the reader
          seen   \* history: values since the reader's call began

htVars == <<seq, lo, hi, value, w, r, seen>>

Lo(v) == v % Word
Hi(v) == v \div Word
Idle == [pc |-> "idle", new |-> 0, todo |-> {}]
Quiet == [pc |-> "idle", s1 |-> 0, lo |-> 0, hi |-> 0, todo |-> {}]

HtInit ==
    /\ seq = 0 /\ lo = 0 /\ hi = 0 /\ value = 0
    /\ w = Idle /\ r = Quiet /\ seen = {}

Opening(s) == s + 1

WriteOpen(n) ==
    /\ w.pc = "idle" /\ value + n <= MaxTotal
    /\ seq' = Opening(seq)
    /\ w' = [pc |-> "store", new |-> value + n, todo |-> {"lo", "hi"}]
    /\ UNCHANGED <<lo, hi, value, r, seen>>

WriteWord(half) ==
    /\ w.pc = "store" /\ half \in w.todo
    /\ lo' = IF half = "lo" THEN Lo(w.new) ELSE lo
    /\ hi' = IF half = "hi" THEN Hi(w.new) ELSE hi
    /\ w' = [w EXCEPT !.todo = @ \ {half}]
    /\ UNCHANGED <<seq, value, r, seen>>

WriteClose ==
    /\ w.pc = "store" /\ w.todo = {}
    /\ seq' = seq + 1
    /\ value' = w.new
    /\ seen' = seen \union {w.new}
    /\ w' = Idle
    /\ UNCHANGED <<lo, hi, r>>

ReadBegin ==
    /\ r.pc \in {"idle", "done"}
    /\ r' = [Quiet EXCEPT !.pc = "seq"]
    /\ seen' = {value}
    /\ UNCHANGED <<seq, lo, hi, value, w>>

ReadSeq ==
    /\ r.pc = "seq"
    /\ r' = [r EXCEPT !.pc = "words", !.s1 = seq, !.todo = {"lo", "hi"}]
    /\ UNCHANGED <<seq, lo, hi, value, w, seen>>

ReadWord(half) ==
    /\ r.pc = "words" /\ half \in r.todo
    /\ r' = [r EXCEPT !.lo = IF half = "lo" THEN lo ELSE @,
                      !.hi = IF half = "hi" THEN hi ELSE @,
                      !.todo = @ \ {half}]
    /\ UNCHANGED <<seq, lo, hi, value, w, seen>>

\* Mutant: the retry on an odd counter is missing.
SettledUnlessMoved(s1, s2) == s1 = s2

\* ~((s1 & 1u) || s1 != s2)
Settled(s1, s2) == s1 % 2 = 0 /\ s1 = s2

ReadClose ==
    /\ r.pc = "words" /\ r.todo = {}
    /\ r' = IF Settled(r.s1, seq) THEN [r EXCEPT !.pc = "done"] ELSE [Quiet EXCEPT !.pc = "seq"]
    /\ UNCHANGED <<seq, lo, hi, value, w, seen>>

HtNext ==
    \/ \E n \in Counts : WriteOpen(n)
    \/ \E half \in {"lo", "hi"} : WriteWord(half) \/ ReadWord(half)
    \/ WriteClose \/ ReadBegin \/ ReadSeq \/ ReadClose

HtSpec == HtInit /\ [][HtNext]_htVars

-----------------------------------------------------------------------------
(* Properties.                                                             *)

\* read_head_total returns a value the counter really had during the call,
\* never one word of an old value with the other word of a new one: a torn
\* small value would let a lapped burst pass for a fresh one.
ReadWasCurrent ==
    r.pc = "done" => \E v \in seen : r.lo = Lo(v) /\ r.hi = Hi(v)
=============================================================================
