------------------------------- MODULE HotBins -------------------------------
(***************************************************************************)
(* p4-usb-host/main/hot_bin_table.c and its wrappers in worker_core1.c:    *)
(* the table through which the decoder task tells the burst queue which    *)
(* detector bins carry an open IDA chain, so that their next burst is      *)
(* decoded first.                                                          *)
(*                                                                         *)
(* The decoder task publishes a bin when a chain opens or grows and clears *)
(* it when a chain completes; the scanner clears the whole table after a   *)
(* retune; the tagger callback and the worker look bins up.  Nobody locks: *)
(* every store and load below is a step of its own.  The search for a slot *)
(* is one step, because only the scanner's clears can change what it sees. *)
(*                                                                         *)
(* The clock is esp_timer's, in milliseconds; entries hold 32 bits of it.  *)
(***************************************************************************)
EXTENDS Integers, FiniteSets

CONSTANTS Entries,      \* HOT_BIN_ENTRIES
          HotDeadband,  \* HOT_BIN_DEADBAND
          Ttl,          \* HOT_BIN_TTL_MS
          ClockMod,     \* 2^32: the width of expiry_ms
          Bins,         \* detector bins in use
          Uses,         \* the bins one behaviour publishes and looks up, and
                        \* whether it retunes
          MaxTime,      \* bound on the clock
          MaxStall      \* how long the decoder task may take for a publish

ASSUME HotAssumption ==
    /\ Entries \in Nat \ {0} /\ HotDeadband \in Nat /\ Ttl \in Nat \ {0}
    /\ ClockMod \in Nat /\ Ttl < ClockMod
    /\ Bins \subseteq Nat /\ IsFiniteSet(Bins)
    /\ Uses \subseteq [bins : SUBSET Bins, looked_up : SUBSET Bins, retunes : BOOLEAN]
    /\ MaxTime \in Nat /\ MaxStall \in Nat

Slots == 1 .. Entries
None == -1

VARIABLES e,       \* t->e: bin and expiry_ms of every entry
          clock,   \* esp_timer_get_time() / 1000
          pub,     \* the decoder task inside hot_bin_table_publish
          sweep,   \* the scanner inside hot_bin_table_clear_all: next entry
          lookup,  \* a reader inside hot_bin_table_match
          use,     \* which of Uses this behaviour is
          since,   \* history: when each bin was last published, if no bin that
                   \* is not apart from it was cleared after that
          last     \* history: when each bin was last published

hotVars == <<e, clock, pub, sweep, lookup, use, since, last>>

now_ms == clock % ClockMod

Within(a, b) == a - b \in -HotDeadband .. HotDeadband

\* No bin is within the deadband of both.
Apart(a, b) == a - b \notin -(2 * HotDeadband) .. 2 * HotDeadband

\* Mutant: empty entries are not told apart, and the last instant counts.
LiveTooLong(x, t) == t <= x.expiry_ms

Live(x, t) == x.expiry_ms # 0 /\ t < x.expiry_ms

-----------------------------------------------------------------------------

HotInit ==
    /\ e = [i \in Slots |-> [bin |-> 0, expiry_ms |-> 0]]
    /\ clock = 0
    /\ pub = [at |-> "idle"]
    /\ sweep = 0
    /\ lookup = [at |-> "idle"]
    /\ use \in Uses
    /\ since = [b \in Bins |-> None]
    /\ last = [b \in Bins |-> None]

First(S) == CHOOSE i \in S : \A j \in S : i <= j

\* Mutant: a live entry of the same channel is not looked for.
NeverRefreshed(b) == {}

\* The live entries within the deadband of b.
Refreshable(b) == {i \in Slots : Live(e[i], now_ms) /\ Within(e[i].bin, b)}

\* The entry publish arms: one of the same channel, else a free or expired one,
\* else the one that expires soonest.
SlotFor(b) ==
    LET same == Refreshable(b)
        free == {i \in Slots : ~Live(e[i], now_ms)}
        soon == {i \in Slots : \A j \in Slots : e[i].expiry_ms <= e[j].expiry_ms}
    IN  IF same # {} THEN First(same) ELSE IF free # {} THEN First(free)
        ELSE First(soon)

\* hot_bin_table_publish: search, then arm()'s three stores.
PublishClose(b) ==
    /\ pub.at = "idle"
    /\ LET i == SlotFor(b) IN
         /\ e' = [e EXCEPT ![i].expiry_ms = 0]
         /\ pub' = [at |-> "bin", slot |-> i, bin |-> b, began |-> clock,
                    deadline |-> (now_ms + Ttl) % ClockMod]
    /\ since' = [since EXCEPT ![b] = clock]
    /\ last' = [last EXCEPT ![b] = clock]
    /\ UNCHANGED <<clock, sweep, lookup>>

PublishBin ==
    /\ pub.at = "bin"
    /\ e' = [e EXCEPT ![pub.slot].bin = pub.bin]
    /\ pub' = [pub EXCEPT !.at = "open"]
    /\ UNCHANGED <<clock, sweep, lookup, since, last>>

PublishOpen ==
    /\ pub.at = "open"
    /\ e' = [e EXCEPT ![pub.slot].expiry_ms = pub.deadline]
    /\ pub' = [at |-> "idle"]
    /\ UNCHANGED <<clock, sweep, lookup, since, last>>

\* hot_bin_table_clear: a chain on bin b completed.
Clear(b) ==
    /\ pub.at = "idle"
    /\ e' = IF Refreshable(b) = {} THEN e
            ELSE [e EXCEPT ![First(Refreshable(b))].expiry_ms = 0]
    /\ since' = [c \in Bins |-> IF Apart(b, c) THEN since[c] ELSE None]
    /\ UNCHANGED <<clock, pub, sweep, lookup, last>>

NextSwept(i) == (i + 1) % (Entries + 1)

\* hot_bin_table_clear_all, one store a step.
ClearAllStart ==
    /\ sweep = 0
    /\ sweep' = 1
    /\ since' = [c \in Bins |-> None]
    /\ UNCHANGED <<e, clock, pub, lookup, last>>

ClearAllStep ==
    /\ sweep \in Slots
    /\ e' = [e EXCEPT ![sweep].expiry_ms = 0]
    /\ sweep' = NextSwept(sweep)
    /\ since' = [c \in Bins |-> None]
    /\ UNCHANGED <<clock, pub, lookup, last>>

\* hot_bin_table_match: the caller's clock is read once, before the loop.
MatchStart(b) ==
    /\ lookup.at = "idle"
    /\ lookup' = [at |-> "expiry", bin |-> b, t |-> now_ms, i |-> 1]
    /\ UNCHANGED <<e, clock, pub, sweep, since, last>>

NextEntry(r) ==
    IF r.i = Entries THEN [at |-> "idle"]
    ELSE [at |-> "expiry", bin |-> r.bin, t |-> r.t, i |-> r.i + 1]

\* Load expiry_ms.
MatchExpiry ==
    /\ lookup.at = "expiry"
    /\ lookup' = IF Live(e[lookup.i], lookup.t)
                 THEN [lookup EXCEPT !.at = "bin"]
                 ELSE NextEntry(lookup)
    /\ UNCHANGED <<e, clock, pub, sweep, since, last>>

\* Load bin, and compare.
MatchBin ==
    /\ lookup.at = "bin"
    /\ lookup' = IF Within(e[lookup.i].bin, lookup.bin)
                 THEN [lookup EXCEPT !.at = "hit"]
                 ELSE NextEntry(lookup)
    /\ UNCHANGED <<e, clock, pub, sweep, since, last>>

\* The caller uses the answer.
MatchDone ==
    /\ lookup.at = "hit"
    /\ lookup' = [at |-> "idle"]
    /\ UNCHANGED <<e, clock, pub, sweep, since, last>>

\* The histories keep no more than the properties ask for.
Forget(t) == IF clock >= t + Ttl THEN None ELSE t

TimePasses ==
    /\ clock < MaxTime
    /\ pub.at # "idle" => clock < pub.began + MaxStall
    /\ clock' = clock + 1
    /\ since' = [b \in Bins |-> Forget(since[b])]
    /\ last' = IF lookup.at = "idle" THEN [b \in Bins |-> Forget(last[b])]
               ELSE last
    /\ UNCHANGED <<e, pub, sweep, lookup>>

DecoderStep ==
    \/ \E b \in use.bins : PublishClose(b) \/ Clear(b)
    \/ PublishBin \/ PublishOpen

ReaderStep == (\E b \in use.looked_up : MatchStart(b)) \/ MatchExpiry \/ MatchBin \/ MatchDone

ScannerStep == (use.retunes /\ ClearAllStart) \/ ClearAllStep

HotNext ==
    /\ DecoderStep \/ ReaderStep \/ ScannerStep \/ TimePasses
    /\ UNCHANGED use

HotSpec == HotInit /\ [][HotNext]_hotVars

-----------------------------------------------------------------------------
(* Properties.                                                             *)

\* What a look-up of b that nothing interrupts returns.
Hot(b) == \E i \in Slots : Live(e[i], now_ms) /\ Within(e[i].bin, b)

\* The bins published in millisecond t or later.
PublishedSince(t) == {c \in Bins : last[c] >= t}

\* The deadband tells the bins of S apart: two of them are one channel or can
\* not both match an entry.
Separate(S) == \A a, b \in S : Within(a, b) \/ Apart(a, b)

\* What is left of "the table mirrors the reassembler's session capacity" where
\* bins outnumber entries, a full table replaces the entry that expires soonest
\* and a refresh moves an entry to the new bin: a bin that was published less
\* than Ttl ago, and not cleared, is hot outside of publish as long as the bins
\* published from its millisecond on fit the table and are separate.
PublishedStaysHot ==
    pub.at = "idle" =>
        \A b \in Bins :
            LET rivals == PublishedSince(since[b]) IN
            /\ since[b] # None /\ clock < since[b] + Ttl
            /\ Cardinality(rivals) <= Entries /\ Separate(rivals)
            => Hot(b)

\* A look-up, however it interleaves with publishes and clears, only says yes
\* for a channel that was published, or that is being published, less than Ttl
\* before its clock reading: a boost is never on a channel that went quiet.
HitIsRecent ==
    lookup.at = "hit" =>
        \E b \in Bins : /\ Within(b, lookup.bin)
                        /\ last[b] # None /\ lookup.t < last[b] + Ttl
=============================================================================
