---------------------------- MODULE TuningProofs -----------------------------
(***************************************************************************)
(* The pump and its callers, for every number of callers, transfers,       *)
(* calls, timeouts and failures.  The transfers are counted; the control   *)
(* transfers are quiet; and while no request has met unfinished work, the  *)
(* word of action bits, the pump and the one caller that may be busy are   *)
(* at matching points of one request.                                      *)
(*                                                                         *)
(* The decode survey, for every shortlist, queue, backlog and number of    *)
(* visits.  A visit's credit rests on a count of the frames of other LOs   *)
(* still on their way to the decoder, which no step raises while the tuner *)
(* stays; the elimination rests on the order of the rates.                 *)
(***************************************************************************)
EXTENDS PumpControl, Survey, ModArith, FiniteSetTheorems, TLAPS

\* Zenon is the prover of every step that names no other; the steps with
\* arithmetic name SMT, with time enough for the larger ones.
USE Zenon

CallStages == {"idle", "pending", "load", "store", "wait", "ok", "failed", "timeout"}
BetweenRequests == {"events", "retune", "gain", "stop", "maint"}
PumpStages == BetweenRequests
                \cup {"clear", "pause", "drain", "control", "resume", "give", "free"}

PcTypeOK ==
    /\ actions \in SUBSET Kinds
    /\ pending \in [Kinds -> Nat] /\ tuner \in [Kinds -> Nat]
    /\ sem \in [Kinds -> BOOLEAN] /\ last_ok \in [Kinds -> BOOLEAN]
    /\ call \in [Callers -> [at : CallStages, req : Nat, reg : SUBSET Kinds]]
    /\ calls \in Nat
    /\ pump \in [at : PumpStages, kind : Kinds \cup {"none", "maint"}, reg : SUBSET Kinds,
                 req : Nat, ok : BOOLEAN, drained : BOOLEAN]
    /\ urb \in [Urbs -> {"flight", "parked", "null"}] /\ live \in Nat
    /\ {streaming, freed, maintenance, maint_paused, contended} \subseteq BOOLEAN

\* What the pump holds at each stage, and that it paused the stream.
PumpOK ==
    /\ pump.at \in BetweenRequests => pump.kind = "none"
    /\ pump.at \in {"clear", "pause", "control", "resume", "give"} => pump.kind \in Kinds
    /\ pump.at = "drain" => pump.kind # "none"
    /\ pump.at = "free" => pump.kind = "maint"
    /\ pump.at = "resume" => pump.kind # "stop"
    /\ pump.ok => pump.at \in {"resume", "give"}
    /\ pump.at \in {"drain", "control", "free"} => ~streaming
    /\ pump.at = "give" /\ pump.kind = "stop" => ~streaming

\* Nothing is asked and nothing in hand.
Quiet == actions = {} /\ pump.kind = "none"

\* A request for k and no other is posted, being cleared, or in hand.
Posted(k)   == actions = {k} /\ pump.kind = "none"
Clearing(k) == actions = {k} /\ pump.at = "clear" /\ pump.kind = k /\ pump.reg = {k}
InHand(k)   == actions = {} /\ pump.at # "clear" /\ pump.kind = k

\* How far the pump has come with request r of kind k.
Progress(k, r) ==
    \/ Posted(k) /\ pending[k] = r
    \/ Clearing(k) /\ pending[k] = r
    \/ /\ InHand(k)
       /\ pump.at = "pause" => pending[k] = r
       /\ pump.at \in {"drain", "control"} => pump.req = r
       /\ pump.at \in {"resume", "give"} /\ pump.ok => tuner[k] = r

\* What a completion of request r says.
Carried(k, r) == IF k = "stop" THEN ~streaming ELSE last_ok[k] => tuner[k] = r

\* The pump has come to a point that matches a caller of kind k that is at
\* stage a with the word of bits in reg and waits for request r.
Matched(a, reg, k, r) ==
    /\ maintenance = maint_paused /\ pump.kind # "maint"
    /\ a = "pending" => k # "stop"
    /\ a \in {"pending", "load", "store"} => Quiet /\ ~sem[k]
    /\ a \in {"load", "store"} => pending[k] = r
    /\ a = "store" => reg = {}
    /\ a = "wait" => \/ Quiet /\ (sem[k] => Carried(k, r))
                     \/ ~sem[k] /\ Progress(k, r)
    /\ a = "ok" => Quiet /\ IF k = "stop" THEN ~streaming ELSE tuner[k] = r

\* prepare_for_reboot has no argument.
Request(c) == IF KindOf[c] = "stop" THEN 0 ELSE call[c].req

CallerOK(c) == Matched(call[c].at, call[c].reg, KindOf[c], Request(c))

AnswerOK ==
    ~contended =>
      /\ \A c, d \in Callers : Busy(c) /\ Busy(d) => c = d
      /\ \A c \in Callers : Busy(c) => CallerOK(c)
      /\ pending["stop"] = 0
      /\ rebooted = "ok" => ~streaming /\ pump.kind = "none"

PcIInv == PcTypeOK /\ UrbAccounting /\ PumpOK /\ ControlQuiet /\ AnswerOK

LEMMA PcConstants ==
  /\ KindOf \in [Callers -> Kinds] /\ NUrbs \in Nat \ {0}
  /\ "none" \notin Kinds /\ "maint" \notin Kinds
  BY PumpAssumption DEF Kinds

\* Between two requests the pump holds nothing.
LEMMA AfterFacts ==
  ASSUME NEW s \in BetweenRequests
  PROVE  /\ After(s).at \in BetweenRequests /\ After(s).kind = "none" /\ ~After(s).ok
         /\ After(s).reg = {} /\ After(s).req = 0 /\ ~After(s).drained
         /\ After(s) \in [at : PumpStages, kind : Kinds \cup {"none", "maint"},
                          reg : SUBSET Kinds, req : Nat, ok : BOOLEAN, drained : BOOLEAN]
  <1>1. Following[s] \in BetweenRequests
    BY SMTT(30) DEF Following, BetweenRequests
  <1> QED BY <1>1 DEF After, IdlePump, PumpStages

-----------------------------------------------------------------------------
(* The pool of transfers.                                                  *)

LEMMA InFlightFinite ==
  ASSUME NEW S \in SUBSET Urbs
  PROVE  IsFiniteSet(S) /\ Cardinality(S) \in Nat
  <1>1. IsFiniteSet(Urbs)
    BY PcConstants, FS_Interval, SMTT(30) DEF Urbs
  <1> QED BY <1>1, FS_Subset, FS_CardinalityType

LEMMA TransferDoneInv ==
  ASSUME PcTypeOK, UrbAccounting, NEW i \in Urbs, TransferDone(i)
  PROVE  /\ urb' \in [Urbs -> {"flight", "parked", "null"}] /\ live' \in Nat
         /\ UrbAccounting'
         /\ InFlight' \subseteq InFlight
  <1>1. InFlight \in SUBSET Urbs
    BY DEF InFlight
  <1>2. IsFiniteSet(InFlight) /\ Cardinality(InFlight) \in Nat /\ live = Cardinality(InFlight)
    BY <1>1, InFlightFinite DEF UrbAccounting
  <1>3. CASE urb' = urb /\ live' = LiveResubmitted
    BY <1>2, <1>3, SMTT(30) DEF LiveResubmitted, UrbAccounting, InFlight, PcTypeOK, TransferDone
  <1>4. CASE urb' = [urb EXCEPT ![i] = "parked"] /\ live' = live - 1
    <2>1. InFlight' = InFlight \ {i} /\ i \in InFlight
      BY <1>4 DEF InFlight, PcTypeOK, TransferDone
    <2>2. Cardinality(InFlight \ {i}) = Cardinality(InFlight) - 1
          /\ Cardinality(InFlight \ {i}) \in Nat
      BY <1>1, <1>2, <2>1, FS_RemoveElement, InFlightFinite
    <2>3. freed' = freed
      BY DEF TransferDone
    <2>4. live' = Cardinality(InFlight') /\ live' \in Nat
      BY <1>2, <1>4, <2>1, <2>2
    <2> QED BY <1>4, <2>1, <2>3, <2>4 DEF PcTypeOK, UrbAccounting
  <1> QED BY <1>3, <1>4 DEF TransferDone

LEMMA ResumeInv ==
  ASSUME PcTypeOK, UrbAccounting, resume_stream
  PROVE  /\ urb' \in [Urbs -> {"flight", "parked", "null"}] /\ live' \in Nat
         /\ UrbAccounting' /\ streaming' \in BOOLEAN /\ freed' \in BOOLEAN
  <1>1. InFlight \in SUBSET Urbs
    BY DEF InFlight
  <1>2. IsFiniteSet(InFlight) /\ Cardinality(InFlight) \in Nat /\ live = Cardinality(InFlight)
    BY <1>1, InFlightFinite DEF UrbAccounting
  <1>3. CASE ResumeParked
    <2>1. PICK lost \in {{}} \cup {{i} : i \in Parked} :
             /\ urb' = [i \in Urbs |-> IF i \in Parked \ lost THEN "flight" ELSE urb[i]]
             /\ live' = live + Cardinality(Parked \ lost)
      BY <1>3 DEF ResumeParked
    <2> DEFINE S == Parked \ lost
    <2>2. S \in SUBSET Urbs /\ InFlight \cap S = {}
      BY DEF Parked, InFlight
    <2>3. InFlight' = InFlight \cup S
      <3>1. \A i \in Urbs : urb'[i] = IF i \in S THEN "flight" ELSE urb[i]
        BY <2>1
      <3> HIDE DEF S
      <3> QED BY <2>2, <3>1 DEF InFlight
    <2>4. live' = live + Cardinality(S) /\ ~freed' /\ streaming' /\ {streaming', freed'} \subseteq BOOLEAN
      BY <1>3, <2>1 DEF ResumeParked, PcTypeOK
    <2>5. urb' \in [Urbs -> {"flight", "parked", "null"}]
      BY <2>1 DEF PcTypeOK
    <2> HIDE DEF S
    <2>6. IsFiniteSet(S) /\ Cardinality(S) \in Nat
      BY <2>2, InFlightFinite
    <2>7. Cardinality(InFlight \cup S) = Cardinality(InFlight) + Cardinality(S)
      <3>1. Cardinality(InFlight \cup S) =
               Cardinality(InFlight) + Cardinality(S) - Cardinality(InFlight \cap S)
        BY <1>2, <2>6, FS_Union
      <3>2. Cardinality(InFlight \cap S) = 0
        BY <2>2, FS_EmptySet
      <3> QED BY <1>2, <2>6, <3>1, <3>2, SMTT(30)
    <2>8. live' = Cardinality(InFlight') /\ live' \in Nat
      BY <1>2, <2>3, <2>4, <2>6, <2>7, SMTT(30)
    <2>9. UrbAccounting'
      BY <2>4, <2>8 DEF UrbAccounting
    <2> QED BY <2>4, <2>5, <2>8, <2>9
  <1>4. CASE ResumeFreed
    <2>1. PICK n \in 0 .. NUrbs, left \in {"null", "parked"} :
             /\ urb' = [i \in Urbs |-> CASE i <= n -> "flight" [] i = n + 1 -> left
                                          [] OTHER -> "null"]
             /\ live' = live + n
      BY <1>4 DEF ResumeFreed
    <2>2. freed /\ ~freed' /\ {streaming', freed'} \subseteq BOOLEAN
      BY <1>4 DEF ResumeFreed
    <2>3. InFlight = {} /\ live = 0
      BY <1>2, <2>2, FS_EmptySet DEF UrbAccounting
    <2>4. urb' \in [Urbs -> {"flight", "parked", "null"}]
      BY <2>1, PcConstants DEF Urbs
    <2>5. InFlight' = 1 .. n
      BY <2>1, PcConstants, SMTT(30) DEF Urbs, InFlight
    <2>6. Cardinality(1 .. n) = n
      BY PcConstants, FS_Interval, SMTT(30)
    <2>7. live' = n /\ live' \in Nat
      BY <2>1, <2>3, PcConstants, SMTT(30)
    <2>8. UrbAccounting'
      BY <2>2, <2>5, <2>6, <2>7 DEF UrbAccounting
    <2> QED BY <2>2, <2>4, <2>7, <2>8
  <1> QED BY <1>3, <1>4 DEF resume_stream

LEMMA FreeInv ==
  ASSUME PcTypeOK, UrbAccounting, free_stream_transfers
  PROVE  /\ urb' \in [Urbs -> {"flight", "parked", "null"}] /\ live' = live
         /\ UrbAccounting' /\ streaming' = streaming /\ freed' \in BOOLEAN
  <1>1. CASE live = 0
    <2>1. urb' = [i \in Urbs |-> "null"] /\ freed' = TRUE /\ live' = live /\ streaming' = streaming
      BY <1>1 DEF free_stream_transfers
    <2>2. InFlight' = {}
      BY <2>1 DEF InFlight
    <2> QED BY <1>1, <2>1, <2>2, FS_EmptySet DEF UrbAccounting
  <1>2. CASE live # 0
    BY <1>2 DEF free_stream_transfers, urbVars, UrbAccounting, InFlight, PcTypeOK
  <1> QED BY <1>1, <1>2

-----------------------------------------------------------------------------
(* The pump's stages.                                                      *)

StagesOK == PcTypeOK /\ UrbAccounting /\ PumpOK /\ ControlQuiet

\* The stages only look at the pump and the transfers.
LEMMA StagesFramed ==
  ASSUME StagesOK, UNCHANGED <<pump, urbVars>>
  PROVE  UrbAccounting' /\ PumpOK' /\ ControlQuiet'
  BY DEF StagesOK, UrbAccounting, PumpOK, ControlQuiet, InFlight, urbVars

LEMMA EventsInv ==
  ASSUME StagesOK, Events, UNCHANGED maintenance
  PROVE  StagesOK'
  <1>1. CASE /\ pump.at \in {"events", "drain", "control"}
             /\ \E i \in Urbs : TransferDone(i)
             /\ UNCHANGED pump
    <2>1. PICK i \in Urbs : TransferDone(i)
      BY <1>1
    <2>2. /\ urb' \in [Urbs -> {"flight", "parked", "null"}] /\ live' \in Nat
          /\ UrbAccounting' /\ InFlight' \subseteq InFlight
      BY <2>1, TransferDoneInv DEF StagesOK
    <2>3. streaming' = streaming /\ freed' = freed
      BY <2>1 DEF TransferDone
    <2>4. PcTypeOK'
      BY <1>1, <2>2, <2>3 DEF StagesOK, PcTypeOK, Events, reqVars
    <2>5. PumpOK' /\ ControlQuiet'
      BY <1>1, <2>2, <2>3 DEF StagesOK, PumpOK, ControlQuiet
    <2> QED BY <2>2, <2>4, <2>5 DEF StagesOK
  <1>2. CASE pump.at = "events" /\ pump' = After("events") /\ UNCHANGED <<urbVars, faults>>
    <2>1. "events" \in BetweenRequests
      BY DEF BetweenRequests
    <2>2. PcTypeOK'
      BY <1>2, <2>1, AfterFacts DEF StagesOK, PcTypeOK, Events, reqVars, urbVars
    <2>3. PumpOK' /\ ControlQuiet'
      BY <1>2, <2>1, AfterFacts DEF PumpOK, ControlQuiet, BetweenRequests
    <2>4. UrbAccounting'
      BY <1>2 DEF StagesOK, UrbAccounting, InFlight, urbVars
    <2> QED BY <2>2, <2>3, <2>4 DEF StagesOK
  <1> QED BY <1>1, <1>2 DEF Events

LEMMA BitsInv ==
  ASSUME StagesOK, TestBit \/ ClearBit, UNCHANGED maintenance
  PROVE  StagesOK'
  <1>1. UrbAccounting'
    BY SMTT(30) DEF StagesOK, TestBit, ClearBit, UrbAccounting, InFlight, urbVars
  <1>2. CASE TestBit /\ pump.at \in actions
    <2>1. /\ pump' = [pump EXCEPT !.at = "clear", !.kind = pump.at, !.reg = actions]
          /\ pump.at \in Kinds
      BY <1>2 DEF TestBit
    <2>2. PcTypeOK'
      BY <1>2, <2>1 DEF StagesOK, PcTypeOK, TestBit, reqVars, urbVars, PumpStages
    <2>3. /\ pump'.at = "clear" /\ pump'.kind = pump.at /\ pump'.ok = pump.ok
      BY <2>1 DEF StagesOK, PcTypeOK
    <2>4. ~pump.ok
      BY <2>1 DEF StagesOK, PumpOK, Kinds
    <2>5. PumpOK' /\ ControlQuiet'
      BY <2>1, <2>3, <2>4 DEF PumpOK, ControlQuiet, BetweenRequests
    <2> QED BY <1>1, <2>2, <2>5 DEF StagesOK
  <1>3. CASE TestBit /\ pump.at \notin actions
    <2>1. pump' = After(pump.at) /\ pump.at \in BetweenRequests
      BY <1>3 DEF TestBit, Kinds, BetweenRequests
    <2>2. PcTypeOK'
      BY <1>3, <2>1, AfterFacts DEF StagesOK, PcTypeOK, TestBit, reqVars, urbVars
    <2>3. PumpOK' /\ ControlQuiet'
      BY <2>1, AfterFacts DEF PumpOK, ControlQuiet, BetweenRequests
    <2> QED BY <1>1, <2>2, <2>3 DEF StagesOK
  <1>4. CASE ClearBit
    <2>1. pump' = [pump EXCEPT !.at = "pause", !.reg = {}] /\ pump.at = "clear"
          /\ actions' \in SUBSET Kinds
      BY <1>4 DEF ClearBit, StagesOK, PcTypeOK
    <2>2. PcTypeOK'
      BY <1>4, <2>1 DEF StagesOK, PcTypeOK, ClearBit, urbVars, PumpStages
    <2>3. pump'.at = "pause" /\ pump'.kind = pump.kind /\ pump'.ok = pump.ok
      BY <2>1 DEF StagesOK, PcTypeOK
    <2>4. PumpOK' /\ ControlQuiet'
      BY <2>1, <2>3 DEF StagesOK, PumpOK, ControlQuiet, BetweenRequests
    <2> QED BY <1>1, <2>2, <2>4 DEF StagesOK
  <1> QED BY <1>2, <1>3, <1>4

LEMMA PauseInv ==
  ASSUME StagesOK, Pause \/ DrainEnds, UNCHANGED maintenance
  PROVE  StagesOK'
  <1>1. UrbAccounting' /\ InFlight' = InFlight
    BY SMTT(30) DEF StagesOK, Pause, DrainEnds, UrbAccounting, InFlight, urbVars
  <1>2. CASE Pause
    <2>1. /\ pump'.at = "drain" /\ pump'.ok = pump.ok /\ ~streaming' /\ streaming' \in BOOLEAN
          /\ pump'.kind = (IF pump.at = "pause" THEN pump.kind ELSE "maint")
          /\ pump.at \in {"pause", "maint"}
      BY <1>2 DEF Pause, StagesOK, PcTypeOK
    <2>2. pump' \in [at : PumpStages, kind : Kinds \cup {"none", "maint"}, reg : SUBSET Kinds,
                     req : Nat, ok : BOOLEAN, drained : BOOLEAN]
      <3>1. pump.at = "pause" => pending[pump.kind] \in Nat
        BY DEF StagesOK, PcTypeOK, PumpOK
      <3> QED BY <1>2, <3>1 DEF Pause, StagesOK, PcTypeOK, PumpStages
    <2>3. PcTypeOK'
      BY <1>2, <2>1, <2>2 DEF StagesOK, PcTypeOK, Pause, reqVars
    <2>4. PumpOK' /\ ControlQuiet'
      BY <2>1, PcConstants DEF StagesOK, PumpOK, ControlQuiet, BetweenRequests
    <2> QED BY <1>1, <2>3, <2>4 DEF StagesOK
  <1>3. CASE DrainEnds
    <2>1. /\ pump'.at = (IF pump.kind = "maint" THEN "free" ELSE "control")
          /\ pump'.kind = pump.kind /\ pump'.ok = pump.ok /\ (pump'.drained <=> live = 0)
          /\ pump.at = "drain" /\ streaming' = streaming
      BY <1>3 DEF DrainEnds, StagesOK, PcTypeOK, Drained, urbVars
    <2>2. PcTypeOK'
      BY <1>3 DEF StagesOK, PcTypeOK, DrainEnds, reqVars, urbVars, PumpStages, Drained
    <2>3. live = 0 => InFlight = {}
      <3>1. InFlight \in SUBSET Urbs
        BY DEF InFlight
      <3> QED BY <3>1, InFlightFinite, FS_EmptySet DEF StagesOK, UrbAccounting
    <2>4. ~streaming /\ ~pump.ok /\ pump.kind \in Kinds \cup {"maint"}
      BY <2>1 DEF StagesOK, PumpOK, PcTypeOK
    <2>5. PumpOK'
      BY <2>1, <2>4 DEF PumpOK, BetweenRequests
    <2>6. ControlQuiet'
      BY <2>1, <2>3, <2>4, <1>1 DEF ControlQuiet
    <2> QED BY <1>1, <2>2, <2>5, <2>6 DEF StagesOK
  <1> QED BY <1>2, <1>3

LEMMA ControlInv ==
  ASSUME StagesOK, Control, UNCHANGED maintenance
  PROVE  StagesOK'
  <1>1. UrbAccounting' /\ streaming' = streaming
    BY DEF StagesOK, Control, UrbAccounting, InFlight, urbVars
  <1>2. /\ pump'.at = (IF pump.kind # "stop" THEN "resume" ELSE "give")
        /\ pump'.kind = pump.kind /\ pump.at = "control"
    BY DEF Control, StagesOK, PcTypeOK, Resumes
  <1>3. pump' \in [at : PumpStages, kind : Kinds \cup {"none", "maint"}, reg : SUBSET Kinds,
                   req : Nat, ok : BOOLEAN, drained : BOOLEAN]
    BY DEF Control, StagesOK, PcTypeOK, PumpStages
  <1>4. tuner' \in [Kinds -> Nat]
    BY DEF Control, StagesOK, PcTypeOK
  <1>5. PcTypeOK'
    BY <1>3, <1>4 DEF StagesOK, PcTypeOK, Control, reqVars, urbVars
  <1>6. PumpOK' /\ ControlQuiet'
    BY <1>1, <1>2 DEF StagesOK, PumpOK, ControlQuiet, BetweenRequests
  <1> QED BY <1>1, <1>5, <1>6 DEF StagesOK

LEMMA GiveInv ==
  ASSUME StagesOK, Resume \/ Give, UNCHANGED maintenance
  PROVE  StagesOK'
  <1>1. CASE Resume
    <2>1. /\ urb' \in [Urbs -> {"flight", "parked", "null"}] /\ live' \in Nat
          /\ UrbAccounting' /\ streaming' \in BOOLEAN /\ freed' \in BOOLEAN
      BY <1>1, ResumeInv DEF Resume, StagesOK
    <2>2. pump'.at = "give" /\ pump'.kind = pump.kind /\ pump'.ok = pump.ok /\ pump.at = "resume"
      BY <1>1 DEF Resume, StagesOK, PcTypeOK
    <2>3. PcTypeOK'
      BY <1>1, <2>1 DEF StagesOK, PcTypeOK, Resume, reqVars, PumpStages
    <2>4. PumpOK' /\ ControlQuiet'
      BY <2>2 DEF StagesOK, PumpOK, ControlQuiet, BetweenRequests
    <2> QED BY <2>1, <2>3, <2>4 DEF StagesOK
  <1>2. CASE Give
    <2>1. pump.kind \in Kinds /\ pump.kind \in BetweenRequests /\ pump' = After(pump.kind)
      BY <1>2 DEF Give, StagesOK, PumpOK, Kinds, BetweenRequests
    <2>2. last_ok' \in [Kinds -> BOOLEAN] /\ sem' \in [Kinds -> BOOLEAN]
      BY <1>2 DEF Give, StagesOK, PcTypeOK
    <2>3. PcTypeOK'
      BY <1>2, <2>1, <2>2, AfterFacts, SMTT(30) DEF StagesOK, PcTypeOK, Give, urbVars
    <2>4. PumpOK' /\ ControlQuiet'
      BY <2>1, AfterFacts DEF PumpOK, ControlQuiet, BetweenRequests
    <2>5. UrbAccounting'
      BY <1>2 DEF Give, StagesOK, UrbAccounting, InFlight, urbVars
    <2> QED BY <2>3, <2>4, <2>5 DEF StagesOK
  <1> QED BY <1>1, <1>2

LEMMA MaintenanceInv ==
  ASSUME StagesOK, MaintenanceFree \/ MaintenanceElse, UNCHANGED maintenance
  PROVE  StagesOK'
  <1>1. pump' = After("maint") /\ "maint" \in BetweenRequests /\ UNCHANGED <<reqVars, tuner>>
    BY DEF MaintenanceFree, MaintenanceElse, BetweenRequests
  <1>2. PumpOK' /\ ControlQuiet'
    BY <1>1, AfterFacts DEF PumpOK, ControlQuiet, BetweenRequests
  <1>3. /\ urb' \in [Urbs -> {"flight", "parked", "null"}] /\ live' \in Nat
        /\ UrbAccounting' /\ streaming' \in BOOLEAN /\ freed' \in BOOLEAN
        /\ maint_paused' \in BOOLEAN
    <2>1. CASE MaintenanceFree
      BY <2>1, FreeInv DEF MaintenanceFree, StagesOK, PcTypeOK
    <2>2. CASE MaintenanceElse /\ MaintenanceOver
      BY <2>2, ResumeInv DEF MaintenanceElse, StagesOK
    <2>3. CASE MaintenanceElse /\ ~MaintenanceOver
      BY <2>3 DEF MaintenanceElse, StagesOK, PcTypeOK, urbVars, UrbAccounting, InFlight
    <2> QED BY <2>1, <2>2, <2>3
  <1>4. PcTypeOK'
    BY <1>1, <1>3, AfterFacts DEF StagesOK, PcTypeOK, reqVars
  <1> QED BY <1>2, <1>3, <1>4 DEF StagesOK

LEMMA PumpInv == StagesOK /\ Pump => StagesOK'
  BY EventsInv, BitsInv, PauseInv, ControlInv, GiveInv, MaintenanceInv DEF Pump

\* The callers and the mode leave the stages alone.
LEMMA CallersInv ==
  ASSUME StagesOK,
         SetMaintenance \/ \E c \in Callers : CallBegins(c) \/ CallSteps(c)
  PROVE  StagesOK'
  <1>1. UNCHANGED <<pump, urbVars, tuner, maint_paused>>
    BY DEF SetMaintenance, CallBegins, CallSteps
  <1>2. UrbAccounting' /\ PumpOK' /\ ControlQuiet'
    BY <1>1, StagesFramed
  <1>3. CASE SetMaintenance
    <2>1. PcTypeOK'
      BY <1>3 DEF StagesOK, PcTypeOK, SetMaintenance, urbVars
    <2> QED BY <1>2, <2>1 DEF StagesOK
  <1>4. ASSUME NEW c \in Callers, CallBegins(c) PROVE StagesOK'
    <2>1. KindOf[c] \in Kinds /\ calls + 1 \in Nat
      BY PcConstants, SMTT(30) DEF StagesOK, PcTypeOK
    <2>2. [IdleCall EXCEPT !.at = IF KindOf[c] = "stop" THEN "load" ELSE "pending", !.req = calls + 1]
             \in [at : CallStages, req : Nat, reg : SUBSET Kinds]
      BY <2>1 DEF IdleCall, CallStages
    <2>3. call' \in [Callers -> [at : CallStages, req : Nat, reg : SUBSET Kinds]]
      BY <1>4, <2>2 DEF StagesOK, PcTypeOK, CallBegins, CallBegin
    <2>4. sem' \in [Kinds -> BOOLEAN]
      BY <1>4, <2>1 DEF StagesOK, PcTypeOK, CallBegins, CallBegin, SemCleared
    <2>5. contended' \in BOOLEAN
      BY <1>4 DEF CallBegins, CallBegin
    <2>6. PcTypeOK'
      BY <1>1, <1>4, <2>1, <2>3, <2>4, <2>5 DEF StagesOK, PcTypeOK, CallBegins, CallBegin, urbVars
    <2> QED BY <1>2, <2>6 DEF StagesOK
  <1>5. ASSUME NEW c \in Callers, CallSteps(c) PROVE StagesOK'
    <2>1. KindOf[c] \in Kinds /\ maintenance' = maintenance
      BY <1>5, PcConstants DEF CallSteps
    <2>2. call' \in [Callers -> [at : CallStages, req : Nat, reg : SUBSET Kinds]]
      BY <1>5, SMTT(30) DEF StagesOK, PcTypeOK, CallSteps, CallPending, CallLoad, CallStore, CallTaken,
                  CallTimesOut, CallReturn, CallGoes, IdleCall, CallStages
    <2>3. /\ actions' \in SUBSET Kinds /\ pending' \in [Kinds -> Nat]
          /\ sem' \in [Kinds -> BOOLEAN] /\ last_ok' = last_ok /\ calls' = calls
          /\ contended' = contended
      <3> USE <1>5, <2>1 DEF CallSteps, CallPending, CallLoad, CallStore, CallTaken,
                             CallTimesOut, CallReturn
      <3>1. last_ok' = last_ok /\ calls' = calls /\ contended' = contended
        OBVIOUS
      <3>2. actions' \in SUBSET Kinds
        BY SMTT(30) DEF StagesOK, PcTypeOK
      <3>3. pending' \in [Kinds -> Nat]
        BY SMTT(30) DEF StagesOK, PcTypeOK
      <3>4. sem' \in [Kinds -> BOOLEAN]
        BY DEF StagesOK, PcTypeOK
      <3> QED BY <3>1, <3>2, <3>3, <3>4
    <2>4. PcTypeOK'
      BY <1>1, <2>1, <2>2, <2>3 DEF StagesOK, PcTypeOK, urbVars
    <2> QED BY <1>2, <2>4 DEF StagesOK
  <1> QED BY <1>3, <1>4, <1>5

-----------------------------------------------------------------------------
(* One request at a time.                                                  *)

\* No change of mode is under way, so none begins.
LEMMA ModeStays ==
  ASSUME StagesOK, Pump, maintenance = maint_paused, pump.kind # "maint"
  PROVE  maintenance' = maint_paused' /\ maint_paused' = maint_paused /\ pump'.kind # "maint"
  <1>1. pump.at # "free" /\ maintenance' = maintenance
    BY DEF StagesOK, PumpOK, Pump
  <1>2. maint_paused' = maint_paused
    BY <1>1 DEF StagesOK, PcTypeOK, Pump, Events, TestBit, ClearBit, Pause, DrainEnds, Control,
                Resume, Give, MaintenanceFree, MaintenanceElse, MaintenanceOver
  <1>3. \A s \in BetweenRequests : After(s).kind = "none"
    BY AfterFacts
  <1>4. pump'.kind # "maint"
    <2>1. CASE Events \/ TestBit \/ ClearBit
      BY <2>1, <1>3, PcConstants DEF StagesOK, PcTypeOK, Events, TestBit, ClearBit,
                                     BetweenRequests, Kinds
    <2>2. CASE Pause \/ DrainEnds \/ Control \/ Resume
      BY <2>2 DEF StagesOK, PcTypeOK, Pause, DrainEnds, Control, Resume
    <2>3. CASE Give \/ MaintenanceFree \/ MaintenanceElse
      BY <2>3, <1>3 DEF StagesOK, PumpOK, Give, MaintenanceFree, MaintenanceElse,
                        BetweenRequests, Kinds
    <2> QED BY <2>1, <2>2, <2>3 DEF Pump
  <1> QED BY <1>1, <1>2, <1>4

\* With nothing asked, the pump goes round its loop and changes nothing.
LEMMA QuietStays ==
  ASSUME StagesOK, Pump, maintenance = maint_paused, Quiet
  PROVE  Quiet' /\ UNCHANGED <<sem, last_ok, tuner, streaming>>
  <1>1. pump.at \in BetweenRequests
    BY PcConstants DEF Quiet, StagesOK, PumpOK, PcTypeOK, PumpStages
  <1>2. \A s \in BetweenRequests : After(s).kind = "none"
    BY AfterFacts
  <1>3. CASE Events
    BY <1>2, <1>3 DEF Quiet, Events, TransferDone, reqVars, urbVars, BetweenRequests
  <1>4. CASE TestBit
    BY <1>1, <1>2, <1>4 DEF Quiet, TestBit, reqVars, urbVars
  <1>5. CASE MaintenanceElse
    BY <1>1, <1>2, <1>5 DEF Quiet, MaintenanceElse, MaintenanceOver, reqVars, urbVars,
                            StagesOK, PcTypeOK
  <1>6. ~ClearBit /\ ~Pause /\ ~DrainEnds /\ ~Control /\ ~Resume /\ ~Give /\ ~MaintenanceFree
    BY <1>1 DEF ClearBit, Pause, DrainEnds, Control, Resume, Give, MaintenanceFree,
                BetweenRequests, StagesOK, PcTypeOK
  <1> QED BY <1>3, <1>4, <1>5, <1>6 DEF Pump


\* The pump carries request r of kind k on, or completes it.
LEMMA ProgressStep ==
  ASSUME StagesOK, Pump, NEW k \in Kinds, NEW r, ~sem[k], Progress(k, r),
         maintenance = maint_paused
  PROVE  \/ Progress(k, r)' /\ ~sem'[k]
         \/ Quiet' /\ Carried(k, r)'
  <1>1. pending' = pending
    BY DEF Pump, Events, TestBit, ClearBit, Pause, DrainEnds, Control, Resume, Give,
           MaintenanceFree, MaintenanceElse, reqVars
  <1>2. CASE Posted(k) /\ pending[k] = r
    <2>1. pump.at \in BetweenRequests
      BY <1>2, PcConstants DEF Posted, StagesOK, PumpOK, PcTypeOK, PumpStages
    <2>2. \A s \in BetweenRequests : After(s).kind = "none"
      BY AfterFacts
    <2>3. CASE Events \/ MaintenanceElse
      <3>1. actions' = actions /\ pump'.kind = "none" /\ sem' = sem
        BY <1>2, <2>2, <2>3 DEF Posted, Events, MaintenanceElse, reqVars, BetweenRequests
      <3> QED BY <1>1, <1>2, <3>1 DEF Posted, Progress
    <2>4. CASE TestBit /\ pump.at # k
      <3>1. actions' = actions /\ pump'.kind = "none" /\ sem' = sem
        BY <1>2, <2>1, <2>2, <2>4 DEF Posted, TestBit, reqVars
      <3> QED BY <1>1, <1>2, <3>1 DEF Posted, Progress
    <2>5. CASE TestBit /\ pump.at = k
      <3>1. /\ actions' = actions /\ sem' = sem
            /\ pump'.at = "clear" /\ pump'.kind = k /\ pump'.reg = actions
        BY <1>2, <2>5 DEF Posted, TestBit, reqVars, StagesOK, PcTypeOK
      <3>2. Clearing(k)' /\ pending'[k] = r
        BY <1>1, <1>2, <3>1 DEF Posted, Clearing
      <3> QED BY <3>1, <3>2 DEF Progress
    <2>6. ~ClearBit /\ ~Pause /\ ~DrainEnds /\ ~Control /\ ~Resume /\ ~Give /\ ~MaintenanceFree
      BY <2>1 DEF ClearBit, Pause, DrainEnds, Control, Resume, Give, MaintenanceFree,
                  BetweenRequests, StagesOK, PcTypeOK
    <2> QED BY <2>3, <2>4, <2>5, <2>6 DEF Pump
  <1>3. CASE Clearing(k) /\ pending[k] = r
    <2>1. ClearBit
      BY <1>3 DEF Clearing, Pump, Events, TestBit, Pause, DrainEnds, Control, Resume, Give,
                  MaintenanceFree, MaintenanceElse, Kinds
    <2>2. actions' = {} /\ pump'.at = "pause" /\ pump'.kind = k /\ sem' = sem
      BY <1>3, <2>1 DEF Clearing, ClearBit, StagesOK, PcTypeOK
    <2>3. InHand(k)' /\ pending'[k] = r
      BY <1>1, <1>3, <2>2 DEF InHand
    <2> QED BY <2>2, <2>3 DEF Progress
  <1>4. CASE /\ InHand(k)
             /\ pump.at = "pause" => pending[k] = r
             /\ pump.at \in {"drain", "control"} => pump.req = r
             /\ pump.at \in {"resume", "give"} /\ pump.ok => tuner[k] = r
    <2>1. /\ pump.at \in {"pause", "drain", "control", "resume", "give"}
          /\ actions = {} /\ pump.kind = k
      BY <1>4, PcConstants DEF InHand, StagesOK, PumpOK, PcTypeOK, PumpStages
    <2>2. CASE Events
      <3>1. actions' = actions /\ pump' = pump /\ sem' = sem /\ tuner' = tuner
        BY <2>1, <2>2 DEF Events, reqVars
      <3> QED BY <1>1, <1>4, <3>1 DEF InHand, Progress
    <2>3. CASE Pause
      <3>1. /\ actions' = {} /\ sem' = sem /\ pump'.at = "drain" /\ pump'.kind = k
            /\ pump'.req = pending[k] /\ pump.at = "pause"
        BY <2>1, <2>3 DEF Pause, reqVars, StagesOK, PcTypeOK
      <3>2. InHand(k)'
        BY <3>1 DEF InHand
      <3> QED BY <1>4, <3>1, <3>2 DEF Progress
    <2>4. CASE DrainEnds
      <3>1. /\ actions' = {} /\ sem' = sem /\ pump'.at = "control" /\ pump'.kind = k
            /\ pump'.req = pump.req /\ pump.at = "drain"
        BY <2>1, <2>4, PcConstants DEF DrainEnds, reqVars, StagesOK, PcTypeOK
      <3>2. InHand(k)'
        BY <3>1 DEF InHand
      <3> QED BY <1>4, <3>1, <3>2 DEF Progress
    <2>5. CASE Control
      <3>1. /\ actions' = {} /\ sem' = sem /\ pump'.at \in {"resume", "give"} /\ pump'.kind = k
            /\ pump.at = "control" /\ (pump'.ok => tuner'[k] = pump.req)
        BY <2>1, <2>5 DEF Control, reqVars, StagesOK, PcTypeOK, PumpOK
      <3>2. InHand(k)'
        BY <3>1 DEF InHand
      <3> QED BY <1>4, <3>1, <3>2 DEF Progress
    <2>6. CASE Resume
      <3>1. /\ actions' = {} /\ sem' = sem /\ pump'.at = "give" /\ pump'.kind = k
            /\ pump.at = "resume" /\ pump'.ok = pump.ok /\ tuner' = tuner
        BY <2>1, <2>6 DEF Resume, reqVars, StagesOK, PcTypeOK
      <3>2. InHand(k)'
        BY <3>1 DEF InHand
      <3> QED BY <1>4, <3>1, <3>2 DEF Progress
    <2>7. CASE Give
      <3>1. k \in BetweenRequests /\ pump' = After(k) /\ actions' = {}
        BY <2>1, <2>7 DEF Give, Kinds, BetweenRequests
      <3>2. Quiet'
        BY <3>1, AfterFacts DEF Quiet
      <3>3. /\ last_ok'[k] = pump.ok /\ tuner' = tuner /\ streaming' = streaming
            /\ pump.at = "give"
        BY <2>1, <2>7 DEF Give, StagesOK, PcTypeOK, urbVars
      <3>4. Carried(k, r)'
        BY <1>4, <2>1, <3>3 DEF Carried, StagesOK, PumpOK
      <3> QED BY <3>2, <3>4
    <2>8. ~TestBit /\ ~ClearBit /\ ~MaintenanceFree /\ ~MaintenanceElse
      BY <2>1 DEF TestBit, ClearBit, MaintenanceFree, MaintenanceElse, Kinds
    <2> QED BY <2>2, <2>3, <2>4, <2>5, <2>6, <2>7, <2>8 DEF Pump
  <1> QED BY <1>2, <1>3, <1>4 DEF Progress

LEMMA PumpMatched ==
  ASSUME StagesOK, Pump, NEW a, NEW reg, NEW k \in Kinds, NEW r, Matched(a, reg, k, r)
  PROVE  Matched(a, reg, k, r)'
  <1>1. maintenance' = maint_paused' /\ pump'.kind # "maint"
    BY ModeStays DEF Matched
  <1>2. CASE Quiet
    <2>1. Quiet' /\ UNCHANGED <<sem, last_ok, tuner, streaming>>
      BY <1>2, QuietStays DEF Matched
    <2>2. pending' = pending
      BY DEF Pump, Events, TestBit, ClearBit, Pause, DrainEnds, Control, Resume, Give,
             MaintenanceFree, MaintenanceElse, reqVars
    <2>3. a = "wait" => (sem'[k] => Carried(k, r)')
      BY <1>2, <2>1, PcConstants DEF Matched, Carried, Progress, Quiet, Posted, Clearing, InHand
    <2> QED BY <1>1, <2>1, <2>2, <2>3 DEF Matched
  <1>3. CASE ~Quiet /\ a = "wait"
    <2>1. \/ Progress(k, r)' /\ ~sem'[k]
          \/ Quiet' /\ Carried(k, r)'
      BY <1>3, ProgressStep DEF Matched
    <2> QED BY <1>1, <1>3, <2>1 DEF Matched
  <1>4. CASE ~Quiet /\ a # "wait"
    BY <1>1, <1>4 DEF Matched
  <1> QED BY <1>2, <1>3, <1>4

LEMMA PumpAnswer ==
  ASSUME StagesOK, AnswerOK, Pump
  PROVE  AnswerOK'
  <1>1. UNCHANGED <<call, pending, rebooted, contended>> /\ rebooted = "no"
    BY DEF Pump, Events, TestBit, ClearBit, Pause, DrainEnds, Control, Resume, Give,
           MaintenanceFree, MaintenanceElse, reqVars
  <1> SUFFICES ASSUME ~contended PROVE AnswerOK'
    BY <1>1 DEF AnswerOK
  <1>2. \A c, d \in Callers : Busy(c)' /\ Busy(d)' => c = d
    BY <1>1 DEF AnswerOK, Busy
  <1>3. ASSUME NEW c \in Callers, Busy(c)' PROVE CallerOK(c)'
    <2>1. PICK a, g, q : a = call[c].at /\ g = call[c].reg /\ q = Request(c)
      OBVIOUS
    <2>2. Matched(a, g, KindOf[c], q)
      BY <1>1, <1>3, <2>1 DEF AnswerOK, CallerOK, Busy
    <2>3. KindOf[c] \in Kinds
      BY PcConstants
    <2>4. Matched(a, g, KindOf[c], q)'
      BY <2>2, <2>3, PumpMatched
    <2>5. a = call'[c].at /\ g = call'[c].reg /\ q = Request(c)'
      BY <1>1, <2>1 DEF Request
    <2> QED BY <2>4, <2>5 DEF CallerOK
  <1> QED BY <1>1, <1>2, <1>3 DEF AnswerOK

\* A change of mode, and a call, that meets no other begins from rest.
LEMMA BeginAnswer ==
  ASSUME StagesOK, AnswerOK, SetMaintenance \/ \E c \in Callers : CallBegins(c)
  PROVE  AnswerOK'
  <1> SUFFICES ASSUME ~contended' PROVE AnswerOK'
    BY DEF AnswerOK
  <1>1. ~contended /\ \A d \in Callers : ~Busy(d)
    BY DEF SetMaintenance, CallBegins, CallBegin
  <1>2. rebooted' = "no" /\ pending' = pending
    BY DEF SetMaintenance, CallBegins, CallBegin
  <1>3. CASE SetMaintenance
    <2>1. \A d \in Callers : ~Busy(d)'
      BY <1>1, <1>3 DEF SetMaintenance, Busy
    <2> QED BY <1>1, <1>2, <2>1 DEF AnswerOK
  <1>4. ASSUME NEW c \in Callers, CallBegins(c) PROVE AnswerOK'
    <2> DEFINE k == KindOf[c]
    <2>1. ~Unfinished
      BY <1>4 DEF CallBegins, CallBegin
    <2>2. Quiet' /\ maintenance' = maint_paused' /\ pump'.kind # "maint"
      BY <1>4, <2>1 DEF CallBegins, CallBegin, Unfinished, Quiet
    <2>3. \A d \in Callers : Busy(d)' => d = c
      BY <1>1, <1>4 DEF CallBegins, CallBegin, Busy, StagesOK, PcTypeOK
    <2>4. k \in Kinds /\ ~sem'[k]
      BY <1>4, PcConstants DEF CallBegins, CallBegin, SemCleared, StagesOK, PcTypeOK
    <2>5. call'[c].at = IF k = "stop" THEN "load" ELSE "pending"
      BY <1>4 DEF CallBegins, CallBegin, StagesOK, PcTypeOK, IdleCall
    <2>6. call'[c].at = "load" => pending'[k] = Request(c)'
      BY <1>1, <1>2, <2>5 DEF AnswerOK, Request
    <2>7. CallerOK(c)'
      BY <2>2, <2>4, <2>5, <2>6 DEF CallerOK, Matched
    <2> QED BY <1>1, <1>2, <2>3, <2>7 DEF AnswerOK
  <1> QED BY <1>3, <1>4

\* The one busy caller goes on.
LEMMA StepAnswer ==
  ASSUME StagesOK, AnswerOK, NEW c \in Callers, CallSteps(c)
  PROVE  AnswerOK'
  <1> DEFINE k == KindOf[c]
  <1> USE DEF CallSteps
  <1>1. contended' = contended
    BY DEF CallPending, CallLoad, CallStore, CallTaken, CallTimesOut, CallReturn
  <1> SUFFICES ASSUME ~contended PROVE AnswerOK'
    BY <1>1 DEF AnswerOK
  <1>2. Busy(c) /\ k \in Kinds /\ call[c] \in [at : CallStages, req : Nat, reg : SUBSET Kinds]
    BY PcConstants DEF CallPending, CallLoad, CallStore, CallTaken, CallTimesOut, CallReturn,
                       CallGoes, Busy, StagesOK, PcTypeOK
  <1>3. \A d \in Callers : d # c => ~Busy(d) /\ call'[d] = call[d]
    BY <1>2 DEF AnswerOK, CallPending, CallLoad, CallStore, CallTaken, CallTimesOut, CallReturn,
                CallGoes, StagesOK, PcTypeOK
  <1>4. \A d \in Callers : Busy(d)' => d = c
    BY <1>3 DEF Busy
  <1>5. Matched(call[c].at, call[c].reg, k, Request(c)) /\ pending["stop"] = 0
    BY <1>2 DEF AnswerOK, CallerOK
  <1>6. UNCHANGED <<pump, tuner, streaming, maintenance, maint_paused, last_ok>>
    BY DEF urbVars, CallPending, CallLoad, CallStore, CallTaken, CallTimesOut, CallReturn
  <1>7. ASSUME pending'["stop"] = 0, rebooted' # "ok", CallerOK(c)' PROVE AnswerOK'
    BY <1>4, <1>7 DEF AnswerOK
  <1>8. CASE CallPending(c)
    <2>1. /\ call'[c].at = "load" /\ call'[c].req = call[c].req /\ call[c].at = "pending"
          /\ UNCHANGED <<actions, sem, rebooted>>
      BY <1>8 DEF CallPending, CallGoes, StagesOK, PcTypeOK
    <2>2. k # "stop" /\ Quiet /\ ~sem[k]
      BY <1>5, <2>1 DEF Matched
    <2>3. pending'[k] = Request(c)' /\ pending'["stop"] = 0
      BY <1>2, <1>5, <1>8, <2>1, <2>2 DEF CallPending, Request, StagesOK, PcTypeOK, Kinds
    <2>4. CallerOK(c)'
      BY <1>5, <1>6, <2>1, <2>2, <2>3 DEF CallerOK, Matched, Quiet
    <2> QED BY <1>7, <2>1, <2>3, <2>4
  <1>9. CASE CallLoad(c)
    <2>1. /\ call'[c].at = "store" /\ call'[c].req = call[c].req /\ call'[c].reg = actions
          /\ call[c].at = "load" /\ UNCHANGED <<actions, sem, pending, rebooted>>
      BY <1>9, SMTT(30) DEF CallLoad, StagesOK, PcTypeOK
    <2>2. Quiet /\ ~sem[k] /\ pending[k] = Request(c)
      BY <1>5, <2>1 DEF Matched
    <2>3. CallerOK(c)'
      BY <1>5, <1>6, <2>1, <2>2 DEF CallerOK, Matched, Quiet, Request
    <2> QED BY <1>5, <1>7, <2>1, <2>3
  <1>10. CASE CallStore(c)
    <2>1. /\ call'[c].at = "wait" /\ call'[c].req = call[c].req
          /\ actions' = call[c].reg \cup {k}
          /\ call[c].at = "store" /\ UNCHANGED <<sem, pending, rebooted>>
      BY <1>10, SMTT(30) DEF CallStore, StagesOK, PcTypeOK
    <2>2. Quiet /\ ~sem[k] /\ pending[k] = Request(c) /\ call[c].reg = {}
      BY <1>5, <2>1 DEF Matched
    <2>3. Posted(k)' /\ pending'[k] = Request(c)'
      BY <1>6, <2>1, <2>2 DEF Posted, Quiet, Request
    <2>4. CallerOK(c)'
      BY <1>5, <1>6, <2>1, <2>2, <2>3 DEF CallerOK, Matched, Progress
    <2> QED BY <1>5, <1>7, <2>1, <2>4
  <1>11. CASE CallTaken(c)
    <2>1. /\ call'[c].at = IF k = "stop" \/ last_ok[k] THEN "ok" ELSE "failed"
          /\ call'[c].req = call[c].req /\ sem[k] /\ call[c].at = "wait"
          /\ UNCHANGED <<actions, pending, rebooted>>
      BY <1>11, SMTT(30) DEF CallTaken, CallGoes, StagesOK, PcTypeOK
    <2>2. Quiet /\ Carried(k, Request(c))
      BY <1>5, <2>1 DEF Matched
    <2>3. Request(c)' = Request(c)
      BY <2>1 DEF Request
    <2>4. call'[c].at = "ok" => IF k = "stop" THEN ~streaming ELSE tuner[k] = Request(c)
      BY <2>1, <2>2 DEF Carried
    <2>5. CallerOK(c)'
      BY <1>5, <1>6, <2>1, <2>2, <2>3, <2>4 DEF CallerOK, Matched, Quiet
    <2> QED BY <1>5, <1>7, <2>1, <2>5
  <1>12. CASE CallTimesOut(c)
    <2>1. call'[c].at = "timeout" /\ UNCHANGED <<pending, rebooted>>
      BY <1>12 DEF CallTimesOut, CallGoes, StagesOK, PcTypeOK
    <2>2. CallerOK(c)'
      BY <1>5, <1>6, <2>1 DEF CallerOK, Matched
    <2> QED BY <1>5, <1>7, <2>1, <2>2
  <1>13. CASE CallReturn(c)
    <2>1. /\ call'[c] = IdleCall /\ UNCHANGED <<actions, pending>>
          /\ rebooted' = IF k = "stop" THEN call[c].at ELSE "no"
      BY <1>13 DEF CallReturn, StagesOK, PcTypeOK
    <2>2. \A d \in Callers : ~Busy(d)'
      BY <1>4, <2>1, SMTT(30) DEF Busy, IdleCall
    <2>3. rebooted' = "ok" => ~streaming' /\ pump'.kind = "none"
      BY <1>5, <1>6, <2>1 DEF Matched, Quiet
    <2> QED BY <1>5, <2>1, <2>2, <2>3 DEF AnswerOK
  <1> QED BY <1>8, <1>9, <1>10, <1>11, <1>12, <1>13

\* For any number of callers of each kind, transfers, calls, timeouts and
\* failures of the host and the tuner: the count of live transfers is exact,
\* control transfers are made with the stream paused, a call that met no
\* other is answered for its own request, and the processor restarts with the
\* stream paused and the tuner idle.
THEOREM PumpSafe ==
  PcSpec => [](UrbAccounting /\ ControlQuiet /\ AnswerTruthful /\ RebootQuiet)
  <1>1. PcInit => PcIInv
    <2> SUFFICES ASSUME PcInit PROVE PcIInv
      OBVIOUS
    <2>1. PcTypeOK
      BY PcConstants DEF PcInit, PcTypeOK, IdleCall, IdlePump, CallStages, PumpStages,
                         BetweenRequests, Urbs
    <2>2. UrbAccounting
      <3>1. InFlight = 1 .. NUrbs /\ live = NUrbs /\ ~freed
        BY DEF PcInit, InFlight, Urbs
      <3>2. Cardinality(1 .. NUrbs) = NUrbs
        BY PcConstants, FS_Interval, SMTT(30)
      <3> QED BY <3>1, <3>2 DEF UrbAccounting
    <2>3. PumpOK /\ ControlQuiet
      BY DEF PcInit, PumpOK, ControlQuiet, IdlePump
    <2>4. AnswerOK
      BY DEF PcInit, AnswerOK, Busy, IdleCall, Kinds
    <2> QED BY <2>1, <2>2, <2>3, <2>4 DEF PcIInv
  <1>2. PcIInv /\ [PcNext]_pcVars => PcIInv'
    <2> SUFFICES ASSUME PcIInv, [PcNext]_pcVars PROVE PcIInv'
      OBVIOUS
    <2>1. StagesOK /\ AnswerOK
      BY DEF PcIInv, StagesOK
    <2>2. CASE PcNext
      <3>1. StagesOK'
        BY <2>1, <2>2, PumpInv, CallersInv DEF PcNext
      <3>2. AnswerOK'
        BY <2>1, <2>2, PumpAnswer, BeginAnswer, StepAnswer DEF PcNext
      <3> QED BY <3>1, <3>2 DEF PcIInv, StagesOK
    <2>3. CASE UNCHANGED pcVars
      <3>1. StagesOK'
        BY <2>1, <2>3, StagesFramed DEF pcVars, reqVars, urbVars, StagesOK, PcTypeOK
      <3>2. AnswerOK'
        <4>1. /\ UNCHANGED <<call, contended, rebooted, pending, streaming, pump>>
              /\ UNCHANGED <<maintenance, maint_paused, sem, last_ok, tuner, actions>>
          BY <2>3 DEF pcVars, reqVars, urbVars
        <4>2. ASSUME NEW a, NEW reg, NEW k, NEW r, Matched(a, reg, k, r)
              PROVE  Matched(a, reg, k, r)'
          <5>1. /\ Quiet' = Quiet /\ Carried(k, r)' = Carried(k, r)
                /\ Progress(k, r)' = Progress(k, r)
            BY <4>1 DEF Quiet, Carried, Progress, Posted, Clearing, InHand
          <5> QED BY <4>1, <4>2, <5>1 DEF Matched
        <4>3. ASSUME NEW c \in Callers, CallerOK(c) PROVE CallerOK(c)'
          <5>1. PICK a, g, q : a = call[c].at /\ g = call[c].reg /\ q = Request(c)
            OBVIOUS
          <5>2. Matched(a, g, KindOf[c], q)'
            BY <4>2, <4>3, <5>1 DEF CallerOK
          <5>3. a = call'[c].at /\ g = call'[c].reg /\ q = Request(c)'
            BY <4>1, <5>1 DEF Request
          <5> QED BY <5>2, <5>3 DEF CallerOK
        <4> QED BY <2>1, <4>1, <4>3 DEF AnswerOK, Busy
      <3> QED BY <3>1, <3>2 DEF PcIInv, StagesOK
    <2> QED BY <2>2, <2>3
  <1>3. PcIInv => AnswerTruthful /\ RebootQuiet
    <2> SUFFICES ASSUME PcIInv PROVE AnswerTruthful /\ RebootQuiet
      OBVIOUS
    <2>1. RebootQuiet
      BY DEF PcIInv, AnswerOK, RebootQuiet
    <2>2. AnswerTruthful
      BY DEF PcIInv, AnswerOK, AnswerTruthful, Busy, CallerOK, Matched, Request
    <2> QED BY <2>1, <2>2
  <1> QED BY <1>1, <1>2, <1>3, PTL DEF PcSpec, PcIInv

-----------------------------------------------------------------------------
(* The frames of another centre than c in a sequence, after position m.    *)

One(b) == IF b THEN 1 ELSE 0

Strangers(s, m, c) == {k \in 1 .. Len(s) : k > m /\ s[k] # c}
CountAfter(s, m, c) == Cardinality(Strangers(s, m, c))

\* The positions of a sequence of n elements.
LEMMA InitialSegment ==
  ASSUME NEW n \in Nat
  PROVE  IsFiniteSet(1 .. n) /\ Cardinality(1 .. n) = n
  <1>1. 1 \in Int /\ n \in Int /\ (IF 1 > n THEN 0 ELSE n - 1 + 1) = n
    BY SMTT(30)
  <1>2. IsFiniteSet(1 .. n) /\ Cardinality(1 .. n) = IF 1 > n THEN 0 ELSE n - 1 + 1
    BY <1>1, FS_Interval
  <1> QED BY <1>1, <1>2, SMTT(30)

\* They are finitely many, at most all.
LEMMA CountType ==
  ASSUME NEW S, NEW s \in Seq(S), NEW m \in Int, NEW c
  PROVE  /\ IsFiniteSet(Strangers(s, m, c))
         /\ CountAfter(s, m, c) \in Nat /\ CountAfter(s, m, c) <= Len(s)
  <1>1. Len(s) \in Nat /\ Strangers(s, m, c) \in SUBSET (1 .. Len(s))
    BY SMTT(30) DEF Strangers
  <1>2. IsFiniteSet(1 .. Len(s)) /\ Cardinality(1 .. Len(s)) = Len(s)
    BY <1>1, InitialSegment
  <1>3. IsFiniteSet(Strangers(s, m, c)) /\ Cardinality(Strangers(s, m, c)) <= Len(s)
    BY <1>1, <1>2, FS_Subset
  <1>4. Cardinality(Strangers(s, m, c)) \in Nat
    BY <1>3, FS_CardinalityType
  <1> QED BY <1>3, <1>4 DEF CountAfter

\* One more at the end.
LEMMA CountAppend ==
  ASSUME NEW S, NEW s \in Seq(S), NEW x \in S, NEW m \in Int, NEW c
  PROVE  CountAfter(Append(s, x), m, c) = CountAfter(s, m, c) + One(Len(s) >= m /\ x # c)
  <1> DEFINE T == Strangers(s, m, c)
             n == Len(s) + 1
  <1>1. IsFiniteSet(T) /\ Cardinality(T) \in Nat
    BY CountType DEF CountAfter
  <1>4. n \notin T /\ Len(s) \in Nat
    BY SMTT(30) DEF Strangers
  <1>2. CASE Len(s) >= m /\ x # c
    <2>1. Strangers(Append(s, x), m, c) = T \cup {n}
      BY <1>2, SMTT(30) DEF Strangers
    <2> HIDE DEF T, n
    <2>2. Cardinality(T \cup {n}) = Cardinality(T) + 1
      BY <1>1, <1>4, FS_AddElement
    <2> QED BY <1>2, <2>1, <2>2 DEF CountAfter, One, T
  <1>3. CASE ~(Len(s) >= m /\ x # c)
    <2>1. Strangers(Append(s, x), m, c) = T
      BY <1>3, SMTT(30) DEF Strangers
    <2> QED BY <1>1, <1>3, <2>1, SMTT(30) DEF CountAfter, One
  <1> QED BY <1>2, <1>3

\* Without its i-th element, and with the positions past m renumbered past n.
LEMMA CountWithout ==
  ASSUME NEW S, NEW s \in Seq(S), NEW t \in Seq(S), NEW i \in 1 .. Len(s),
         NEW m \in Int, NEW n \in Int, NEW c,
         Len(t) = Len(s) - 1,
         \A j \in 1 .. Len(t) : t[j] = s[IF j < i THEN j ELSE j + 1],
         \A j \in 1 .. Len(t) : j > n <=> (IF j < i THEN j ELSE j + 1) > m
  PROVE  CountAfter(t, n, c) = CountAfter(s, m, c) - One(i > m /\ s[i] # c)
  <1> DEFINE A == Strangers(t, n, c)
             B == Strangers(s, m, c)
             C == B \ {i}
             f == [j \in A |-> IF j < i THEN j ELSE j + 1]
  <1>1. Len(s) \in Nat /\ Len(t) \in Nat
    BY SMTT(30)
  <1>2. \A j \in 1 .. Len(t) : j < i => t[j] = s[j] /\ (j > n <=> j > m)
    OBVIOUS
  <1>3. \A j \in 1 .. Len(t) : ~(j < i) => t[j] = s[j + 1] /\ (j > n <=> j + 1 > m)
    OBVIOUS
  <1>4. f \in [A -> C]
    <2> SUFFICES ASSUME NEW j \in A PROVE (IF j < i THEN j ELSE j + 1) \in C
      OBVIOUS
    <2>1. j \in 1 .. Len(t) /\ j > n /\ t[j] # c
      BY DEF Strangers
    <2>2. CASE j < i
      <3>1. j \in 1 .. Len(s) /\ j # i
        BY <1>1, <2>1, <2>2, SMTT(30)
      <3> QED BY <1>2, <2>1, <2>2, <3>1 DEF Strangers
    <2>3. CASE ~(j < i)
      <3>1. j + 1 \in 1 .. Len(s) /\ j + 1 # i
        BY <1>1, <2>1, <2>3, SMTT(30)
      <3> QED BY <1>3, <2>1, <2>3, <3>1 DEF Strangers
    <2> QED BY <2>2, <2>3
  <1>5. \A j, k \in A : f[j] = f[k] => j = k
    BY <1>1, SMTT(30) DEF Strangers
  <1>6. \A k \in C : \E j \in A : f[j] = k
    <2> TAKE k \in C
    <2>1. k \in 1 .. Len(s) /\ k > m /\ s[k] # c /\ k # i
      BY DEF Strangers
    <2>2. CASE k < i
      <3>1. k \in 1 .. Len(t)
        BY <1>1, <2>1, <2>2, SMTT(30)
      <3>2. k \in A
        BY <1>2, <2>1, <2>2, <3>1 DEF Strangers
      <3> QED BY <2>2, <3>2
    <2>3. CASE ~(k < i)
      <3>1. PICK j \in 1 .. Len(t) : k = j + 1 /\ ~(j < i)
        <4>1. k - 1 \in 1 .. Len(t) /\ k = (k - 1) + 1 /\ ~(k - 1 < i)
          BY <1>1, <2>1, <2>3, SMTT(30)
        <4> QED BY <4>1
      <3>2. j \in A
        BY <1>3, <2>1, <3>1 DEF Strangers
      <3> QED BY <3>1, <3>2
    <2> QED BY <2>2, <2>3
  <1>7. f \in Bijection(A, C)
    <2> HIDE DEF A, C, f
    <2> QED BY <1>4, <1>5, <1>6 DEF Bijection, Injection, Surjection, IsInjective
  <1>8. IsFiniteSet(A) /\ IsFiniteSet(B) /\ Cardinality(B) \in Nat
    BY CountType DEF CountAfter
  <1>9. Cardinality(C) = Cardinality(A)
    <2> HIDE DEF A, C, f
    <2>1. ExistsBijection(A, C)
      BY <1>7 DEF ExistsBijection
    <2> QED BY <1>8, <2>1, FS_Bijection
  <1>10. Cardinality(C) = IF i \in B THEN Cardinality(B) - 1 ELSE Cardinality(B)
    <2> HIDE DEF B
    <2> QED BY <1>8, FS_RemoveElement
  <1>11. i \in B <=> i > m /\ s[i] # c
    BY DEF Strangers
  <1> QED BY <1>8, <1>9, <1>10, <1>11, SMTT(30) DEF CountAfter, One

\* What concatenation does to the elements, for the provers.
LEMMA JoinFacts ==
  ASSUME NEW S, NEW p \in Seq(S), NEW q \in Seq(S)
  PROVE  /\ p \o q \in Seq(S) /\ Len(p \o q) = Len(p) + Len(q)
         /\ \A j \in 1 .. Len(p) : (p \o q)[j] = p[j]
         /\ \A j \in 1 .. Len(q) : (p \o q)[Len(p) + j] = q[j]
  BY SMTT(30)

\* A sequence without its i-th element.
Without(s, i) == SubSeq(s, 1, i - 1) \o SubSeq(s, i + 1, Len(s))

\* What the worker takes from the backlog leaves the count.
LEMMA CountRemoved ==
  ASSUME NEW S, NEW s \in Seq(S), NEW i \in 1 .. Len(s), NEW c
  PROVE  /\ Without(s, i) \in Seq(S) /\ Len(Without(s, i)) = Len(s) - 1
         /\ CountAfter(Without(s, i), 0, c) = CountAfter(s, 0, c) - One(s[i] # c)
  <1> DEFINE p == SubSeq(s, 1, i - 1)
             q == SubSeq(s, i + 1, Len(s))
             t == p \o q
  <1>1. Len(s) \in Nat
    BY SMTT(30)
  <1>2. p \in Seq(S) /\ Len(p) = i - 1 /\ \A j \in 1 .. i - 1 : p[j] = s[j]
    BY <1>1, SMTT(30)
  <1>3. q \in Seq(S) /\ Len(q) = Len(s) - i /\ \A j \in 1 .. Len(s) - i : q[j] = s[j + i]
    BY <1>1, SMTT(30)
  <1> HIDE DEF p, q
  <1>4. /\ t \in Seq(S) /\ Len(t) = Len(p) + Len(q)
        /\ \A j \in 1 .. Len(p) : t[j] = p[j]
        /\ \A j \in 1 .. Len(q) : t[Len(p) + j] = q[j]
    <2>1. p \in Seq(S) /\ q \in Seq(S)
      BY <1>2, <1>3
    <2>2. p \o q \in Seq(S) /\ Len(p \o q) = Len(p) + Len(q)
      BY <2>1, JoinFacts
    <2>3. \A j \in 1 .. Len(p) : (p \o q)[j] = p[j]
      BY <2>1, JoinFacts
    <2>4. \A j \in 1 .. Len(q) : (p \o q)[Len(p) + j] = q[j]
      BY <2>1, JoinFacts, SMTT(30)
    <2> QED BY <2>2, <2>3, <2>4
  <1> HIDE DEF t
  <1>5. Len(t) = Len(s) - 1
    BY <1>1, <1>2, <1>3, <1>4, SMTT(30)
  <1>6. ASSUME NEW j \in 1 .. Len(t) PROVE t[j] = s[IF j < i THEN j ELSE j + 1]
    <2>1. CASE j < i
      BY <1>1, <1>2, <1>4, <2>1, SMTT(30)
    <2>2. CASE ~(j < i)
      <3>1. PICK k \in 1 .. Len(s) - i : j = (i - 1) + k
        <4>1. j - (i - 1) \in 1 .. Len(s) - i /\ j = (i - 1) + (j - (i - 1))
          BY <1>1, <1>5, <2>2, SMTT(30)
        <4> QED BY <4>1
      <3>2. t[j] = q[k] /\ k + i = j + 1
        BY <1>2, <1>3, <1>4, <3>1, SMTT(30)
      <3>3. q[k] = s[k + i]
        BY <1>3
      <3> QED BY <2>2, <3>2, <3>3
    <2> QED BY <2>1, <2>2
  <1>7. \A j \in 1 .. Len(t) : j > 0 <=> (IF j < i THEN j ELSE j + 1) > 0
    BY <1>1, <1>5, SMTT(30)
  <1>8. CountAfter(t, 0, c) = CountAfter(s, 0, c) - One(i > 0 /\ s[i] # c)
    BY <1>4, <1>5, <1>6, <1>7, CountWithout, SMTT(30)
  <1>9. t = Without(s, i)
    BY DEF Without, t, p, q
  <1> QED BY <1>4, <1>5, <1>8, <1>9, SMTT(30) DEF One

\* What the decoder pops leaves the count; positions shift by one.
LEMMA CountTail ==
  ASSUME NEW S, NEW s \in Seq(S), s # <<>>, NEW m \in Int, NEW c
  PROVE  /\ Tail(s) \in Seq(S) /\ Len(Tail(s)) = Len(s) - 1 /\ Head(s) \in S /\ Len(s) >= 1
         /\ CountAfter(Tail(s), m - 1, c) = CountAfter(s, m, c) - One(m < 1 /\ Head(s) # c)
  <1> DEFINE t == Tail(s)
  <1>1. Len(s) \in Nat /\ Len(s) >= 1
    BY SMTT(30)
  <1>2. t \in Seq(S) /\ Len(t) = Len(s) - 1 /\ Head(s) = s[1] /\ Head(s) \in S
    BY <1>1, SMTT(30)
  <1>3. \A j \in 1 .. Len(t) : t[j] = s[j + 1]
    BY <1>1, SMTT(30)
  <1> HIDE DEF t
  <1>4. /\ 1 \in 1 .. Len(s) /\ m - 1 \in Int
        /\ \A j \in 1 .. Len(t) : t[j] = s[IF j < 1 THEN j ELSE j + 1]
        /\ \A j \in 1 .. Len(t) : j > m - 1 <=> (IF j < 1 THEN j ELSE j + 1) > m
    BY <1>1, <1>2, <1>3, SMTT(30)
  <1>5. CountAfter(t, m - 1, c) = CountAfter(s, m, c) - One(1 > m /\ s[1] # c)
    BY <1>2, <1>4, CountWithout, SMTT(30)
  <1> QED BY <1>1, <1>2, <1>5 DEF t, One

\* No position is before the first.
LEMMA CountAll ==
  ASSUME NEW S, NEW s \in Seq(S), NEW m \in Int, m <= 0, NEW c
  PROVE  CountAfter(s, m, c) = CountAfter(s, 0, c)
  <1>1. Strangers(s, m, c) = Strangers(s, 0, c)
    BY SMTT(30) DEF Strangers
  <1> QED BY <1>1 DEF CountAfter

\* Past the last position there is none, past the one before it one at most.
LEMMA CountEnd ==
  ASSUME NEW S, NEW s \in Seq(S), NEW m \in Int, m >= Len(s) - 1, NEW c
  PROVE  CountAfter(s, m, c) <= IF m = Len(s) - 1 /\ Len(s) > 0 THEN 1 ELSE 0
  <1>1. Len(s) \in Nat
    BY SMTT(30)
  <1>2. Strangers(s, m, c) \in SUBSET IF m = Len(s) - 1 /\ Len(s) > 0 THEN {Len(s)} ELSE {}
    BY <1>1, SMTT(30) DEF Strangers
  <1>3. IsFiniteSet({Len(s)}) /\ Cardinality({Len(s)}) = 1
    BY FS_Singleton
  <1>4. CASE m = Len(s) - 1 /\ Len(s) > 0
    <2>1. Strangers(s, m, c) \in SUBSET {Len(s)}
      BY <1>2, <1>4
    <2>2. CountAfter(s, m, c) <= Cardinality({Len(s)})
      BY <1>3, <2>1, FS_Subset DEF CountAfter
    <2> QED BY <1>3, <1>4, <2>2
  <1>5. CASE ~(m = Len(s) - 1 /\ Len(s) > 0)
    <2>1. Strangers(s, m, c) = {}
      BY <1>2, <1>5
    <2>2. CountAfter(s, m, c) = 0
      BY <2>1, FS_EmptySet DEF CountAfter
    <2> QED BY <1>5, <2>2, SMTT(30)
  <1> QED BY <1>4, <1>5

-----------------------------------------------------------------------------
(* The inductive invariant.                                                *)

Los == Centers \cup {NvsLo}
Tallies == [lw_da : Nat, visits : Nat, eliminated : BOOLEAN]

SvyTypeOK ==
    /\ lo \in Los /\ backlog \in Seq(Los) /\ queue \in Seq(Los)
    /\ work \in {Idle} \cup [frame : Los, at : {"push", "count"}]
    /\ hand \in {Idle} \cup [frame : Los, at : {"count", "classify"}]
    /\ pushed \in Nat /\ popped \in Nat /\ lw_da \in Nat /\ foreign \in Nat
    /\ target \in Nat /\ base \in Nat /\ held \in Nat /\ late \in BOOLEAN
    /\ cur \in Centers /\ centers \in [Centers -> Tallies]

\* The frames the decoder has taken from the queue, counted yet or not.
Taken == popped + One(hand.at = "count")

\* The counters trail the queue by the frame in each task's hands.
CountersOK ==
    /\ pushed + One(work.at = "count") = Taken + Len(queue)
    /\ popped = lw_da + One(hand.at = "classify")

\* The frames of another centre than c on their way to the decoder's count,
\* but for those among the first m that entered the queue.
Pending(m, c) ==
      CountAfter(backlog, 0, c)
    + One(work.at = "push" /\ work.frame # c)
    + CountAfter(queue, m - Taken, c)
    + One(hand.at # "idle" /\ Taken > m /\ hand.frame # c)

Visiting == svy \in {"guard1", "wait1", "snapshot"} \/ Counting

VisitOK ==
    /\ Visiting => lo = cur
    /\ Counting => base <= lw_da
    /\ svy # "done" /\ ~Counting => foreign = 0

\* Between the start of the first guard and its end, only held frames are
\* pending past its target; then one more, and the counted ones are paid for.
WaitOK == svy = "wait1" => Pending(target, cur) <= held

CreditOK ==
    (svy = "snapshot" \/ Counting) /\ ~late => foreign + Pending(-1, cur) <= held + 1

DrainOK == svy = "count" /\ ~late => target <= popped

SvyIInv == SvyTypeOK /\ CountersOK /\ VisitOK /\ WaitOK /\ CreditOK /\ DrainOK

\* A frame's task is at one of its stages.
LEMMA Stages ==
  ASSUME SvyTypeOK
  PROVE  /\ work.at \in {"idle", "push", "count"} /\ (work.at = "idle" <=> work = Idle)
         /\ work.at # "idle" => work.frame \in Los
         /\ hand.at \in {"idle", "count", "classify"} /\ (hand.at = "idle" <=> hand = Idle)
         /\ hand.at # "idle" => hand.frame \in Los
         /\ Taken \in Nat /\ Len(queue) \in Nat
  BY SMTT(30) DEF SvyTypeOK, Idle, Taken, One

\* The pending frames are a number, before and after a step.
LEMMA PendingType ==
  ASSUME SvyTypeOK, NEW m \in Int, NEW c
  PROVE  Pending(m, c) \in Nat
  <1>1. Taken \in Nat /\ m - Taken \in Int /\ 0 \in Int
    BY Stages, SMTT(30)
  <1>2. CountAfter(backlog, 0, c) \in Nat /\ CountAfter(queue, m - Taken, c) \in Nat
    BY <1>1, CountType DEF SvyTypeOK
  <1> QED BY <1>2, SMTT(30) DEF Pending, One

LEMMA NextPendingType ==
  ASSUME SvyTypeOK', NEW m \in Int, NEW c
  PROVE  Pending(m, c)' \in Nat
  <1>0. popped' \in Nat
    BY DEF SvyTypeOK
  <1>1. Taken' \in Nat /\ m - Taken' \in Int /\ 0 \in Int
    <2>1. Taken' = popped' + One(hand'.at = "count")
      BY DEF Taken
    <2>2. One(hand'.at = "count") \in {0, 1}
      BY DEF One
    <2> QED BY <1>0, <2>1, <2>2, SMTT(30)
  <1>2. CountAfter(backlog', 0, c) \in Nat /\ CountAfter(queue', m - Taken', c) \in Nat
    BY <1>1, CountType DEF SvyTypeOK
  <1> QED BY <1>2, SMTT(30) DEF Pending, One

\* The types, along a step of the frames.
LEMMA FrameTypes ==
  ASSUME SvyTypeOK, FrameStep
  PROVE  SvyTypeOK'
  <1>1. UNCHANGED <<lo, svy, cur, target, base, held, late, centers, cycle, abort>>
    BY DEF FrameStep
  <1>2. CASE Capture
    BY <1>1, <1>2, SMTT(30) DEF Capture, SvyTypeOK
  <1>3. CASE WorkerTake
    <2>1. PICK i \in 1 .. Len(backlog) : /\ work' = [frame |-> backlog[i], at |-> "push"]
                                         /\ backlog' = Without(backlog, i)
      BY <1>3 DEF WorkerTake, Without
    <2>2. backlog' \in Seq(Los)
      BY <2>1, CountRemoved DEF SvyTypeOK
    <2>3. work' \in [frame : Los, at : {"push", "count"}]
      BY <2>1, SMTT(30) DEF SvyTypeOK
    <2> QED BY <1>1, <1>3, <2>2, <2>3 DEF WorkerTake, SvyTypeOK
  <1>4. CASE WorkerPush
    <2>1. work \in [frame : Los, at : {"push", "count"}] /\ work.frame \in Los
      BY <1>4, SMTT(30) DEF WorkerPush, SvyTypeOK, Idle
    <2>2. [work EXCEPT !.at = "count"] \in [frame : Los, at : {"push", "count"}]
      BY <2>1
    <2>3. work' \in {Idle} \cup [frame : Los, at : {"push", "count"}]
      BY <1>4, <2>2 DEF WorkerPush
    <2>4. queue' \in Seq(Los)
      <3>1. queue \in Seq(Los) /\ Append(queue, work.frame) \in Seq(Los)
        BY <2>1, SMTT(30) DEF SvyTypeOK
      <3> QED BY <1>4, <3>1 DEF WorkerPush
    <2> QED BY <1>1, <1>4, <2>3, <2>4 DEF WorkerPush, SvyTypeOK
  <1>5. CASE WorkerCount
    BY <1>1, <1>5, SMTT(30) DEF WorkerCount, SvyTypeOK
  <1>6. CASE DecoderPop
    <2>1. queue' \in Seq(Los) /\ hand' \in [frame : Los, at : {"count", "classify"}]
      BY <1>6, CountTail, SMTT(30) DEF DecoderPop, SvyTypeOK
    <2> QED BY <1>1, <1>6, <2>1 DEF DecoderPop, SvyTypeOK
  <1>7. CASE DecoderCount
    <2>1. hand' \in [frame : Los, at : {"count", "classify"}]
      BY <1>7, SMTT(30) DEF DecoderCount, SvyTypeOK, Idle
    <2> QED BY <1>1, <1>7, <2>1, SMTT(30) DEF DecoderCount, SvyTypeOK
  <1>8. CASE DecoderClassify
    BY <1>1, <1>8, SMTT(30) DEF DecoderClassify, SvyTypeOK
  <1> QED BY <1>2, <1>3, <1>4, <1>5, <1>6, <1>7, <1>8 DEF FrameStep, Worker, Decoder

\* Each task counts a frame it has in hand at once after it moved it.
LEMMA FrameCounters ==
  ASSUME SvyTypeOK, CountersOK, FrameStep
  PROVE  CountersOK'
  <1>1. SvyTypeOK' /\ Len(queue) \in Nat /\ Len(queue') \in Nat
    BY FrameTypes, Stages, SMTT(30) DEF SvyTypeOK
  <1> USE DEF CountersOK, Taken, One
  <1>2. CASE Capture
    BY <1>2 DEF Capture
  <1>3. CASE WorkerTake
    BY <1>3, SMTT(30) DEF WorkerTake, Idle
  <1>4. CASE WorkerPush
    <2>1. work.at = "push" /\ work'.at \in {"count", "idle"}
      BY <1>4, SMTT(30) DEF WorkerPush, Idle, SvyTypeOK
    <2>2. UNCHANGED <<hand, pushed, popped, lw_da>> /\ pushed \in Nat /\ popped \in Nat
      BY <1>4 DEF WorkerPush, SvyTypeOK
    <2>3. \/ work'.at = "count" /\ Len(queue') = Len(queue) + 1
          \/ work'.at = "idle" /\ Len(queue') = Len(queue)
      <3>1. CASE queue' = Append(queue, work.frame) /\ work' = [work EXCEPT !.at = "count"]
        BY <2>1, <3>1, SMTT(30) DEF SvyTypeOK
      <3>2. CASE work' = Idle /\ queue' = queue
        BY <3>2, SMTT(30) DEF Idle
      <3> QED BY <1>4, <3>1, <3>2 DEF WorkerPush
    <2> QED BY <1>1, <2>1, <2>2, <2>3, SMTT(30)
  <1>5. CASE WorkerCount
    BY <1>1, <1>5, SMTT(30) DEF WorkerCount, Idle, SvyTypeOK
  <1>6. CASE DecoderPop
    <2>1. Len(queue') = Len(queue) - 1
      BY <1>6, SMTT(30) DEF DecoderPop, SvyTypeOK
    <2>2. /\ hand.at = "idle" /\ hand'.at = "count"
          /\ UNCHANGED <<work, pushed, popped, lw_da>>
      BY <1>6 DEF DecoderPop, Idle
    <2>3. pushed \in Nat /\ popped \in Nat
      BY DEF SvyTypeOK
    <2> QED BY <1>1, <2>1, <2>2, <2>3, SMTT(30)
  <1>7. CASE DecoderCount
    BY <1>1, <1>7, SMTT(30) DEF DecoderCount, Idle, SvyTypeOK
  <1>8. CASE DecoderClassify
    BY <1>1, <1>8, SMTT(30) DEF DecoderClassify, Idle, SvyTypeOK
  <1> QED BY <1>2, <1>3, <1>4, <1>5, <1>6, <1>7, <1>8, SMTT(30) DEF FrameStep, Worker, Decoder

\* While the tuner is at c, no step of the frames adds to the pending ones.
LEMMA PendingClassify ==
  ASSUME SvyTypeOK, DecoderClassify, NEW m \in Int, NEW c
  PROVE  Pending(m, c)' = Pending(m, c) - One(Taken > m /\ hand.frame # c)
  <1>1. /\ UNCHANGED <<backlog, work, queue>> /\ hand.at = "classify" /\ hand'.at = "idle"
        /\ Taken' = Taken /\ Taken \in Nat
    BY Stages DEF DecoderClassify, Idle, Taken, One
  <1>2. CountAfter(backlog, 0, c) \in Nat /\ CountAfter(queue, m - Taken, c) \in Nat
    BY <1>1, CountType, SMTT(30) DEF SvyTypeOK
  <1> QED BY <1>1, <1>2, SMTT(30) DEF Pending, One

LEMMA PendingFalls ==
  ASSUME SvyTypeOK, FrameStep, NEW m \in Int, NEW c, lo = c
  PROVE  Pending(m, c)' <= Pending(m, c)
  <1>1. /\ backlog \in Seq(Los) /\ queue \in Seq(Los) /\ lo \in Los
        /\ Taken \in Nat /\ Len(queue) \in Nat /\ m - Taken \in Int
    BY Stages, SMTT(30) DEF SvyTypeOK
  <1>2. CountAfter(backlog, 0, c) \in Nat /\ CountAfter(queue, m - Taken, c) \in Nat
    BY <1>1, CountType, SMTT(30)
  <1>3. CASE Capture
    <2>1. CountAfter(backlog', 0, c) = CountAfter(backlog, 0, c) + One(Len(backlog) >= 0 /\ lo # c)
      BY <1>1, <1>3, CountAppend, SMTT(30) DEF Capture
    <2>2. UNCHANGED <<work, queue, hand, popped>> /\ Taken' = Taken
      BY <1>3 DEF Capture, Taken
    <2> QED BY <1>1, <1>2, <2>1, <2>2, SMTT(30) DEF Pending, One
  <1>4. CASE WorkerTake
    <2>1. PICK i \in 1 .. Len(backlog) : /\ work' = [frame |-> backlog[i], at |-> "push"]
                                         /\ backlog' = Without(backlog, i)
      BY <1>4 DEF WorkerTake, Without
    <2>2. CountAfter(backlog', 0, c) = CountAfter(backlog, 0, c) - One(backlog[i] # c)
      BY <1>1, <2>1, CountRemoved, SMTT(30)
    <2>3. /\ UNCHANGED <<queue, hand, popped>> /\ Taken' = Taken
          /\ work.at = "idle" /\ work'.at = "push" /\ work'.frame = backlog[i]
      BY <1>4, <2>1 DEF WorkerTake, Taken, Idle
    <2> QED BY <1>1, <1>2, <2>2, <2>3, SMTT(30) DEF Pending, One
  <1>5. CASE WorkerPush
    <2>1. /\ UNCHANGED <<backlog, hand, popped>> /\ Taken' = Taken /\ work.at = "push"
          /\ work.frame \in Los
      BY <1>5, Stages DEF WorkerPush, Taken
    <2>2. work'.at # "push"
      BY <1>5, SMTT(30) DEF WorkerPush, Idle, SvyTypeOK
    <2>3. CASE queue' = Append(queue, work.frame)
      <3>1. CountAfter(queue', m - Taken, c)
              = CountAfter(queue, m - Taken, c) + One(Len(queue) >= m - Taken /\ work.frame # c)
        BY <1>1, <2>1, <2>3, CountAppend, SMTT(30)
      <3> QED BY <1>1, <1>2, <2>1, <2>2, <3>1, SMTT(30) DEF Pending, One
    <2>4. CASE queue' = queue
      BY <1>1, <1>2, <2>1, <2>2, <2>4, SMTT(30) DEF Pending, One
    <2> QED BY <1>5, <2>3, <2>4 DEF WorkerPush
  <1>6. CASE WorkerCount
    <2>1. /\ UNCHANGED <<backlog, queue, hand, popped>> /\ Taken' = Taken
          /\ work.at = "count" /\ work'.at = "idle"
      BY <1>6 DEF WorkerCount, Taken, Idle
    <2> QED BY <1>1, <1>2, <2>1, SMTT(30) DEF Pending, One
  <1>7. CASE DecoderPop
    <2>1. /\ UNCHANGED <<backlog, work, popped>> /\ Taken' = Taken + 1
          /\ queue # <<>> /\ queue' = Tail(queue)
          /\ hand.at = "idle" /\ hand'.at = "count" /\ hand'.frame = Head(queue)
      BY <1>7, SMTT(30) DEF DecoderPop, Taken, One, Idle, SvyTypeOK
    <2>2. CountAfter(queue', (m - Taken) - 1, c)
            = CountAfter(queue, m - Taken, c) - One(m - Taken < 1 /\ Head(queue) # c)
      BY <1>1, <2>1, CountTail, SMTT(30)
    <2>3. m - Taken' = (m - Taken) - 1 /\ (Taken' > m <=> m - Taken < 1)
      BY <1>1, <2>1, SMTT(30)
    <2> QED BY <1>1, <1>2, <2>1, <2>2, <2>3, SMTT(30) DEF Pending, One
  <1>8. CASE DecoderCount
    <2>1. /\ UNCHANGED <<backlog, work, queue>> /\ Taken' = Taken
          /\ hand.at = "count" /\ hand'.at = "classify" /\ hand'.frame = hand.frame
      BY <1>8, SMTT(30) DEF DecoderCount, Taken, One, Idle, SvyTypeOK
    <2> QED BY <1>1, <1>2, <2>1, SMTT(30) DEF Pending, One
  <1>9. CASE DecoderClassify
    BY <1>1, <1>9, PendingClassify, PendingType, SMTT(30) DEF One
  <1> QED BY <1>3, <1>4, <1>5, <1>6, <1>7, <1>8, <1>9 DEF FrameStep, Worker, Decoder

\* A step of the air, the worker or the decoder.
LEMMA FrameKeeps ==
  ASSUME SvyIInv, FrameStep
  PROVE  SvyIInv'
  <1>1. SvyTypeOK /\ CountersOK /\ VisitOK /\ WaitOK /\ CreditOK /\ DrainOK
    BY DEF SvyIInv
  <1>2. UNCHANGED <<lo, svy, cur, target, base, held, late>>
    BY DEF FrameStep
  <1>3. SvyTypeOK' /\ CountersOK'
    BY <1>1, FrameTypes, FrameCounters
  <1>4. /\ target \in Int /\ held \in Nat /\ base \in Nat
        /\ lw_da \in Nat /\ popped \in Nat /\ foreign \in Nat
    BY <1>1, SMTT(30) DEF SvyTypeOK
  <1>5. /\ lw_da' \in {lw_da, lw_da + 1} /\ popped' \in {popped, popped + 1}
        /\ DecoderClassify \/ foreign' = foreign
    BY DEF FrameStep, Worker, Decoder, Capture, WorkerTake, WorkerPush, WorkerCount,
           DecoderPop, DecoderCount, DecoderClassify
  <1>6. DecoderClassify => foreign' = foreign + One(Counting /\ hand.frame # cur)
    BY <1>4, SMTT(30) DEF DecoderClassify, One
  <1>7. Counting' = Counting
    BY <1>2 DEF Counting
  <1>8. VisitOK'
    BY <1>1, <1>2, <1>4, <1>5, <1>6, <1>7, SMTT(30) DEF VisitOK, Visiting, One
  <1>9. WaitOK'
    <2> SUFFICES ASSUME svy = "wait1" PROVE Pending(target, cur)' <= held
      BY <1>2 DEF WaitOK
    <2>1. PICK m, c : m \in Int /\ m = target /\ c = cur
      BY <1>4
    <2>2. lo = c /\ Pending(m, c) <= held
      BY <1>1, <2>1 DEF VisitOK, Visiting, WaitOK
    <2>3. Pending(m, c)' <= Pending(m, c) /\ Pending(m, c)' \in Nat /\ Pending(m, c) \in Nat
      BY <1>1, <1>3, <2>1, <2>2, PendingFalls, PendingType, NextPendingType
    <2>4. Pending(target, cur)' = Pending(m, c)'
      BY <1>2, <2>1 DEF Pending
    <2> QED BY <1>4, <2>2, <2>3, <2>4, SMTT(30)
  <1>10. CreditOK'
    <2> SUFFICES ASSUME svy = "snapshot" \/ Counting, ~late
                 PROVE  foreign' + Pending(-1, cur)' <= held + 1
      BY <1>2, <1>7 DEF CreditOK
    <2>1. PICK c : c = cur
      OBVIOUS
    <2>2. lo = c /\ foreign + Pending(-1, c) <= held + 1 /\ -1 \in Int
      BY <1>1, <2>1, SMTT(30) DEF VisitOK, Visiting, CreditOK
    <2>3. /\ Pending(-1, c)' <= Pending(-1, c)
          /\ Pending(-1, c)' \in Nat /\ Pending(-1, c) \in Nat
      BY <1>1, <1>3, <2>2, PendingFalls, PendingType, NextPendingType
    <2>4. DecoderClassify => Pending(-1, c)' = Pending(-1, c) - One(hand.frame # c)
      <3>1. DecoderClassify => Pending(-1, c)' = Pending(-1, c) - One(Taken > -1 /\ hand.frame # c)
        BY <1>1, <2>2, PendingClassify
      <3>2. Taken > -1
        BY <1>1, Stages, SMTT(30)
      <3> QED BY <3>1, <3>2 DEF One
    <2>5. Pending(-1, cur)' = Pending(-1, c)'
      BY <1>2, <2>1 DEF Pending
    <2>6. CASE DecoderClassify
      BY <1>4, <1>6, <2>1, <2>2, <2>3, <2>4, <2>5, <2>6, SMTT(30) DEF One
    <2>7. CASE foreign' = foreign
      BY <1>4, <2>2, <2>3, <2>5, <2>7, SMTT(30)
    <2> QED BY <1>5, <2>6, <2>7
  <1>11. DrainOK'
    BY <1>1, <1>2, <1>4, <1>5, SMTT(30) DEF DrainOK
  <1> QED BY <1>3, <1>8, <1>9, <1>10, <1>11 DEF SvyIInv

-----------------------------------------------------------------------------
(* The steps of the survey.                                                *)

\* They leave the frames alone.
LEMMA SamePending ==
  ASSUME UNCHANGED frameVars, NEW m, NEW c
  PROVE  Pending(m, c)' = Pending(m, c) /\ Taken' = Taken
  BY DEF frameVars, Pending, Taken

LEMMA SameCounters ==
  ASSUME CountersOK, UNCHANGED frameVars
  PROVE  CountersOK'
  BY DEF frameVars, CountersOK, Taken

\* When a guard begins, the frames past its target are the ones not pushed yet.
LEMMA HeldBack ==
  ASSUME SvyTypeOK, CountersOK, NEW c
  PROVE  Pending(pushed, c) <= Len(backlog) + One(work # Idle)
  <1>1. /\ backlog \in Seq(Los) /\ queue \in Seq(Los) /\ Len(backlog) \in Nat /\ Len(queue) \in Nat
        /\ pushed \in Int /\ Taken \in Nat /\ 0 \in Int /\ pushed - Taken \in Int
        /\ pushed + One(work.at = "count") = Taken + Len(queue)
    BY Stages, SMTT(30) DEF SvyTypeOK, CountersOK
  <1>2. CountAfter(backlog, 0, c) \in Nat /\ CountAfter(backlog, 0, c) <= Len(backlog)
    BY <1>1, CountType
  <1>3. pushed - Taken >= Len(queue) - 1
    BY <1>1, SMTT(30) DEF One
  <1>4. /\ CountAfter(queue, pushed - Taken, c) \in Nat
        /\ CountAfter(queue, pushed - Taken, c)
             <= IF pushed - Taken = Len(queue) - 1 /\ Len(queue) > 0 THEN 1 ELSE 0
    <2>1. CountAfter(queue, pushed - Taken, c) \in Nat
      BY <1>1, CountType
    <2>2. CountAfter(queue, pushed - Taken, c)
             <= IF pushed - Taken = Len(queue) - 1 /\ Len(queue) > 0 THEN 1 ELSE 0
      BY <1>1, <1>3, CountEnd
    <2> QED BY <2>1, <2>2
  <1>5. work # Idle <=> work.at # "idle"
    BY Stages
  <1>6. CASE work.at = "count"
    BY <1>1, <1>2, <1>4, <1>5, <1>6, SMTT(30) DEF Pending, One
  <1>7. CASE work.at # "count"
    BY <1>1, <1>2, <1>4, <1>5, <1>7, SMTT(30) DEF Pending, One
  <1> QED BY <1>6, <1>7

\* When it ends in time, the frame in the decoder's hands is pending too.
LEMMA CaughtUpPending ==
  ASSUME SvyTypeOK, NEW m \in Nat, m <= popped, NEW c
  PROVE  Pending(-1, c) <= Pending(m, c) + 1
  <1>1. /\ backlog \in Seq(Los) /\ queue \in Seq(Los) /\ 0 \in Int
        /\ Taken \in Nat /\ m - Taken \in Int /\ m - Taken <= 0
        /\ (-1) - Taken \in Int /\ (-1) - Taken <= 0
    BY Stages, SMTT(30) DEF SvyTypeOK, Taken, One
  <1>2. /\ CountAfter(queue, m - Taken, c) = CountAfter(queue, 0, c)
        /\ CountAfter(queue, (-1) - Taken, c) = CountAfter(queue, 0, c)
    BY <1>1, CountAll
  <1>3. CountAfter(backlog, 0, c) \in Nat /\ CountAfter(queue, 0, c) \in Nat
    BY <1>1, CountType
  <1> QED BY <1>1, <1>2, <1>3, SMTT(30) DEF Pending, One

\* The types, along a step of the survey task: a credit is never negative.
LEMMA SurveyTypes ==
  ASSUME SvyIInv, SurveyStep
  PROVE  SvyTypeOK'
  <1>1. SvyTypeOK /\ VisitOK /\ UNCHANGED frameVars
    BY DEF SvyIInv, SurveyStep
  <1>2. /\ backlog' \in Seq(Los) /\ queue' \in Seq(Los)
        /\ work' \in {Idle} \cup [frame : Los, at : {"push", "count"}]
        /\ hand' \in {Idle} \cup [frame : Los, at : {"count", "classify"}]
        /\ pushed' \in Nat /\ popped' \in Nat /\ lw_da' \in Nat
    BY <1>1 DEF frameVars, SvyTypeOK
  <1>3. lo' \in Los
    BY <1>1 DEF SurveyStep, Place, Aborted, Start, CycleHead, NextCenter, Hop, HopFails, Return,
           GuardBegin, GuardEnd, Snapshot, AddVisit, CycleEnd, SvyTypeOK, Los
  <1>4. cur' \in Centers
    <2>1. 1 \in Centers /\ (cur < NCenters => cur + 1 \in Centers)
      BY <1>1, SurveyAssumption, SMTT(30) DEF SvyTypeOK, Centers
    <2> QED BY <1>1, <2>1 DEF SurveyStep, Place, Aborted, Start, CycleHead, NextCenter, Hop, HopFails,
           Return, GuardBegin, GuardEnd, Snapshot, AddVisit, CycleEnd, SvyTypeOK, visitVars
  <1>5. /\ foreign' \in Nat /\ target' \in Nat /\ base' \in Nat /\ held' \in Nat
        /\ late' \in BOOLEAN
    <2>1. Len(backlog) \in Nat
      BY <1>1, SMTT(30) DEF SvyTypeOK
    <2>2. /\ foreign \in Nat /\ target \in Nat /\ base \in Nat /\ held \in Nat /\ late \in BOOLEAN
          /\ pushed \in Nat /\ lw_da \in Nat
      BY <1>1 DEF SvyTypeOK
    <2>3. /\ foreign' \in {foreign, 0} /\ target' \in {target, pushed, 0} /\ base' \in {base, lw_da, 0}
          /\ held' \in {held, 0, Len(backlog), Len(backlog) + 1}
      BY <2>1, SMTT(30) DEF SurveyStep, Place, Aborted, Start, CycleHead, NextCenter, Hop, HopFails,
           Return, GuardBegin, GuardEnd, Snapshot, AddVisit, CycleEnd, visitVars
    <2>4. late' \in BOOLEAN
      BY <2>2 DEF SurveyStep, Place, Aborted, Start, CycleHead, NextCenter, Hop, HopFails,
           Return, GuardBegin, GuardEnd, Snapshot, AddVisit, CycleEnd, visitVars
    <2> QED BY <2>1, <2>2, <2>3, <2>4, SMTT(30)
  <1>6. centers' \in [Centers -> Tallies]
    <2>1. centers \in [Centers -> Tallies] /\ cur \in Centers
      BY <1>1 DEF SvyTypeOK
    <2>2. CASE AddVisit
      <3>1. lw_da - base \in Nat
        BY <1>1, <2>2, SMTT(30) DEF AddVisit, VisitOK, Counting, SvyTypeOK
      <3>2. centers[cur] \in Tallies
        BY <2>1
      <3>3. centers[cur].lw_da + lw_da - base \in Nat /\ centers[cur].visits + 1 \in Nat
        BY <1>1, <3>1, <3>2, SMTT(30) DEF Tallies, SvyTypeOK
      <3> QED BY <2>1, <2>2, <3>3 DEF AddVisit, Tallies
    <2>3. CASE CycleEnd
      <3>1. ASSUME NEW t \in Tallies PROVE [t EXCEPT !.eliminated = TRUE] \in Tallies
        BY DEF Tallies
      <3> QED BY <2>1, <2>3, <3>1 DEF CycleEnd, ds_eliminate_pass
    <2>4. CASE UNCHANGED centers
      BY <2>1, <2>4
    <2> QED BY <2>2, <2>3, <2>4 DEF SurveyStep, Place, Aborted, Start, CycleHead, NextCenter, Hop,
           HopFails, GuardBegin, GuardEnd, Snapshot
  <1> QED BY <1>2, <1>3, <1>4, <1>5, <1>6 DEF SvyTypeOK

\* A step of the survey task.
LEMMA SurveyKeeps ==
  ASSUME SvyIInv, SurveyStep
  PROVE  SvyIInv'
  <1>1. /\ SvyTypeOK /\ CountersOK /\ VisitOK /\ WaitOK /\ CreditOK /\ DrainOK
        /\ UNCHANGED frameVars
    BY DEF SvyIInv, SurveyStep
  <1>2. SvyTypeOK' /\ CountersOK'
    BY <1>1, SurveyTypes, SameCounters
  <1>3. /\ target \in Nat /\ held \in Nat /\ base \in Nat /\ foreign \in Nat /\ late \in BOOLEAN
        /\ lw_da \in Nat /\ popped \in Nat /\ pushed \in Nat /\ lw_da' = lw_da /\ popped' = popped
    BY <1>1 DEF SvyTypeOK, frameVars
  <1> USE DEF Visiting, Counting
  <1>4. CASE GuardBegin("guard1", "wait1")
    <2>1. /\ svy = "guard1" /\ svy' = "wait1" /\ target' = pushed /\ cur' = cur /\ lo' = lo
          /\ held' = Len(backlog) + One(work # Idle) /\ foreign' = foreign
      BY <1>4 DEF GuardBegin, Goto, One
    <2>2. WaitOK'
      <3>1. PICK m, c : m = pushed /\ c = cur
        OBVIOUS
      <3>2. Pending(m, c)' = Pending(m, c) /\ Pending(m, c) <= held'
        BY <1>1, <2>1, <3>1, SamePending, HeldBack
      <3>3. Pending(target, cur)' = Pending(m, c)'
        BY <2>1, <3>1 DEF Pending
      <3> QED BY <3>2, <3>3 DEF WaitOK
    <2>3. VisitOK' /\ CreditOK' /\ DrainOK'
      BY <1>1, <2>1 DEF VisitOK, CreditOK, DrainOK
    <2> QED BY <1>2, <2>2, <2>3 DEF SvyIInv
  <1>5. CASE GuardEnd("wait1", "snapshot")
    <2>1. /\ svy = "wait1" /\ svy' = "snapshot" /\ UNCHANGED <<target, cur, lo, held, foreign>>
          /\ ~late' => popped >= target
      BY <1>5 DEF GuardEnd, Goto, CaughtUp
    <2>2. CreditOK'
      <3> SUFFICES ASSUME ~late' PROVE foreign' + Pending(-1, cur)' <= held' + 1
        BY DEF CreditOK
      <3>1. PICK m, c : m \in Nat /\ m = target /\ c = cur
        BY <1>3
      <3>2. m <= popped
        BY <1>3, <2>1, <3>1
      <3>3. Pending(m, c) <= held /\ foreign = 0
        BY <1>1, <2>1, <3>1 DEF WaitOK, VisitOK
      <3>4. Pending(m, c) \in Nat /\ Pending(-1, c) \in Nat /\ -1 \in Int
        BY <1>1, <3>1, PendingType, SMTT(30)
      <3>5. Pending(-1, c) <= Pending(m, c) + 1
        BY <1>1, <3>1, <3>2, CaughtUpPending
      <3>6. Pending(-1, cur)' = Pending(-1, c)
        <4>1. Pending(-1, cur)' = Pending(-1, c)'
          BY <2>1, <3>1 DEF Pending
        <4> QED BY <1>1, <4>1, SamePending
      <3> QED BY <1>3, <2>1, <3>3, <3>4, <3>5, <3>6, SMTT(30)
    <2>3. VisitOK' /\ WaitOK' /\ DrainOK'
      BY <1>1, <2>1 DEF VisitOK, WaitOK, DrainOK
    <2> QED BY <1>2, <2>2, <2>3 DEF SvyIInv
  <1>6. ASSUME /\ Snapshot \/ GuardBegin("guard2", "wait2") \/ GuardEnd("wait2", "count")
        PROVE  SvyIInv'
    <2>1. /\ svy \in {"snapshot", "guard2", "wait2"} /\ svy' \in {"guard2", "wait2", "count"}
          /\ UNCHANGED <<cur, lo, held, foreign>>
          /\ svy = "snapshot" \/ base' = base
          /\ svy = "snapshot" => base' = lw_da
      BY <1>6 DEF Snapshot, GuardBegin, GuardEnd, Goto
    <2>5. /\ ~late' => ~late
          /\ svy' = "count" /\ ~late' => popped >= target /\ target' = target
      <3>1. CASE Snapshot \/ GuardBegin("guard2", "wait2")
        BY <3>1, SMTT(30) DEF Snapshot, GuardBegin, Goto
      <3>2. CASE GuardEnd("wait2", "count")
        BY <3>2 DEF GuardEnd, CaughtUp
      <3> QED BY <1>6, <3>1, <3>2
    <2>2. CreditOK'
      <3>1. PICK c : c = cur
        OBVIOUS
      <3>2. Pending(-1, cur)' = Pending(-1, c)'
        BY <2>1, <3>1 DEF Pending
      <3>3. Pending(-1, c)' = Pending(-1, c)
        BY <1>1, SamePending
      <3> QED BY <1>1, <2>1, <2>5, <3>1, <3>2, <3>3 DEF CreditOK
    <2>3. VisitOK' /\ WaitOK'
      BY <1>1, <1>3, <2>1, SMTT(30) DEF VisitOK, WaitOK
    <2>4. DrainOK'
      BY <1>3, <2>5 DEF DrainOK
    <2> QED BY <1>2, <2>2, <2>3, <2>4, SMTT(30) DEF SvyIInv
  <1>7. CASE Hop
    BY <1>1, <1>2, <1>7 DEF Hop, Goto, visitVars, SvyIInv, VisitOK, WaitOK, CreditOK, DrainOK
  <1>8. ASSUME Start \/ CycleHead \/ NextCenter \/ HopFails \/ AddVisit \/ CycleEnd
        PROVE  SvyIInv'
    <2>1. svy' \in {"cycle", "done", "place", "visit", "cycleEnd", "visited"}
      BY <1>8 DEF Start, CycleHead, NextCenter, HopFails, AddVisit, CycleEnd, Return, Goto
    <2>2. foreign' = 0
      BY <1>1, <1>8 DEF Start, CycleHead, NextCenter, HopFails, AddVisit, CycleEnd, Return, Goto,
             visitVars, VisitOK
    <2> QED BY <1>2, <2>1, <2>2 DEF SvyIInv, VisitOK, WaitOK, CreditOK, DrainOK
  <1>9. CASE Place \/ Aborted
    <2>1. svy' = "done"
      BY <1>9 DEF Place, Aborted, Goto
    <2> QED BY <1>2, <2>1 DEF SvyIInv, VisitOK, WaitOK, CreditOK, DrainOK
  <1> QED BY <1>4, <1>5, <1>6, <1>7, <1>8, <1>9, SMTT(30) DEF SurveyStep

\* No survey yet, no frames.
LEMMA SurveyInit ==
  ASSUME SvyInit
  PROVE  SvyIInv
  <1>1. /\ svy = "none" /\ work.at = "idle" /\ hand.at = "idle" /\ Len(queue) = 0
        /\ pushed = 0 /\ popped = 0 /\ lw_da = 0 /\ foreign = 0
    BY DEF SvyInit, Idle
  <1>2. 1 \in Centers
    BY SurveyAssumption, SMTT(30) DEF Centers
  <1>3. centers \in [Centers -> Tallies]
    BY DEF SvyInit, Tallies
  <1>4. SvyTypeOK
    <2>1. late \in BOOLEAN
      BY DEF SvyInit
    <2>2. /\ lo \in Los /\ cur \in Centers /\ backlog \in Seq(Los) /\ queue \in Seq(Los)
      BY <1>2, SMTT(30) DEF SvyInit, Los
    <2>3. /\ work = Idle /\ hand = Idle /\ pushed = 0 /\ popped = 0 /\ lw_da = 0 /\ foreign = 0
          /\ target = 0 /\ base = 0 /\ held = 0
      BY DEF SvyInit
    <2> QED BY <1>3, <2>1, <2>2, <2>3 DEF SvyTypeOK
  <1> QED BY <1>1, <1>4, SMTT(30) DEF SvyIInv, CountersOK, VisitOK, WaitOK, CreditOK, DrainOK, Visiting,
            Counting, Taken, One

\* A stop request only raises its flag.
LEMMA SurveyStutters ==
  ASSUME SvyIInv, Stop \/ UNCHANGED svyVars
  PROVE  SvyIInv'
  <1>1. UNCHANGED <<frameVars, lo, svy, visitVars, centers>>
    BY DEF Stop, svyVars
  <1> QED BY <1>1, SMTT(30) DEF SvyIInv, SvyTypeOK, CountersOK, VisitOK, WaitOK, CreditOK, DrainOK, Visiting,
            Counting, Taken, Pending, frameVars, visitVars

\* So SvyIInv is an invariant.
LEMMA SurveyInvariant == SvySpec => []SvyIInv
  <1>1. SvyInit => SvyIInv
    BY SurveyInit
  <1>2. SvyIInv /\ [SvyNext]_svyVars => SvyIInv'
    BY FrameKeeps, SurveyKeeps, SurveyStutters DEF SvyNext
  <1> QED BY <1>1, <1>2, PTL DEF SvySpec

\* A visit whose guards ended in time is credited with its own centre's frames,
\* but for the one in the decoder's hands and those held back from the queue;
\* and it misses at most one of those pushed before its second guard.
THEOREM CreditsHold == SvySpec => []CreditsOwnFrames
  <1>1. SvyIInv => CreditsOwnFrames
    <2> SUFFICES ASSUME SvyIInv, svy = "count", ~late
                 PROVE  foreign <= 1 + held /\ target - lw_da <= 1
      BY DEF CreditsOwnFrames
    <2>1. SvyTypeOK /\ CountersOK /\ CreditOK /\ DrainOK /\ -1 \in Int
      BY SMTT(30) DEF SvyIInv
    <2>2. foreign + Pending(-1, cur) <= held + 1 /\ target <= popped
      BY <2>1 DEF CreditOK, DrainOK, Counting
    <2>3. Pending(-1, cur) \in Nat
      BY <2>1, PendingType
    <2>4. /\ foreign \in Nat /\ held \in Nat /\ target \in Nat /\ lw_da \in Nat
          /\ popped = lw_da + One(hand.at = "classify")
      BY <2>1 DEF SvyTypeOK, CountersOK
    <2> QED BY <2>2, <2>3, <2>4, SMTT(30) DEF One
  <1> QED BY <1>1, SurveyInvariant, PTL

-----------------------------------------------------------------------------
(* The elimination.                                                        *)

\* Rates are compared by their cross products.
LEMMA Fractions ==
  ASSUME NEW a \in Nat, NEW b \in Nat, NEW c \in Nat,
         NEW p \in Nat \ {0}, NEW q \in Nat \ {0}, NEW r \in Nat \ {0}
  PROVE  /\ a * q > b * p /\ ~(c * q > b * r) => a * r > c * p
         /\ ~(a * q > b * p) /\ ~(b * r > c * q) => ~(a * r > c * p)
  <1>1. (a * q) * r = (a * r) * q /\ (b * p) * r = (b * r) * p /\ (c * q) * p = (c * p) * q
    BY SMTT(30)
  <1>2. ASSUME a * q > b * p, ~(c * q > b * r) PROVE a * r > c * p
    <2>1. (a * q) * r > (b * p) * r
      BY <1>2, SMTT(30)
    <2>2. (b * r) * p >= (c * q) * p
      BY <1>2, SMTT(30)
    <2>3. (a * r) * q > (c * p) * q
      BY <1>1, <2>1, <2>2, SMTT(30)
    <2> QED BY <2>3, SMTT(30)
  <1>3. ASSUME ~(a * q > b * p), ~(b * r > c * q) PROVE ~(a * r > c * p)
    <2>1. (b * p) * r >= (a * q) * r
      BY <1>3, SMTT(30)
    <2>2. (c * q) * p >= (b * r) * p
      BY <1>3, SMTT(30)
    <2>3. (c * p) * q >= (a * r) * q
      BY <1>1, <2>1, <2>2, SMTT(30)
    <2> QED BY <2>3, SMTT(30)
  <1> QED BY <1>2, <1>3

\* "Higher rate" is a strict weak order of the centres, also with no dwell.
LEMMA RateOrder ==
  ASSUME NEW a \in Tallies, NEW b \in Tallies, NEW c \in Tallies
  PROVE  /\ ~RateAbove(a, a)
         /\ RateAbove(a, b) => ~RateAbove(b, a)
         /\ RateAbove(a, b) /\ ~RateAbove(c, b) => RateAbove(a, c)
         /\ ~RateAbove(a, b) /\ ~RateAbove(b, c) => ~RateAbove(a, c)
  <1> DEFINE Dwell(t) == IF t.visits = 0 THEN 1 ELSE t.visits
  <1>1. /\ a.lw_da \in Nat /\ b.lw_da \in Nat /\ c.lw_da \in Nat
        /\ Dwell(a) \in Nat \ {0} /\ Dwell(b) \in Nat \ {0} /\ Dwell(c) \in Nat \ {0}
    BY SMTT(30) DEF Tallies
  <1>2. \A s, t : RateAbove(s, t) <=> s.lw_da * Dwell(t) > t.lw_da * Dwell(s)
    BY DEF RateAbove
  <1> HIDE DEF Dwell
  <1>3. /\ a.lw_da * Dwell(b) > b.lw_da * Dwell(a) /\ ~(c.lw_da * Dwell(b) > b.lw_da * Dwell(c))
             => a.lw_da * Dwell(c) > c.lw_da * Dwell(a)
        /\ ~(a.lw_da * Dwell(b) > b.lw_da * Dwell(a)) /\ ~(b.lw_da * Dwell(c) > c.lw_da * Dwell(b))
             => ~(a.lw_da * Dwell(c) > c.lw_da * Dwell(a))
    BY <1>1, Fractions
  <1>4. /\ ~(a.lw_da * Dwell(a) > a.lw_da * Dwell(a))
        /\ a.lw_da * Dwell(b) > b.lw_da * Dwell(a) => ~(b.lw_da * Dwell(a) > a.lw_da * Dwell(b))
    BY <1>1, SMTT(30)
  <1> QED BY <1>2, <1>3, <1>4

\* l leads the alive centres up to n.
LeadsTo(cs, l, n) ==
    /\ l \in Alive(cs) /\ l <= n
    /\ \A c \in Alive(cs) : c <= n => /\ ~RateAbove(cs[c], cs[l])
                                      /\ c < l => RateAbove(cs[l], cs[c])

\* One more centre: it leads if it is above the leader so far, as in the loop of
\* ds_leader_index.
LEMMA LeaderStep ==
  ASSUME NEW cs \in [Centers -> Tallies], NEW n \in Nat,
         \A c \in Alive(cs) : ~(c <= n) \/ \E l \in Centers : LeadsTo(cs, l, n)
  PROVE  \A c \in Alive(cs) : ~(c <= n + 1) \/ \E l \in Centers : LeadsTo(cs, l, n + 1)
  <1> SUFFICES ASSUME NEW c \in Alive(cs), c <= n + 1
               PROVE  \E l \in Centers : LeadsTo(cs, l, n + 1)
    OBVIOUS
  <1>1. Alive(cs) \subseteq Centers /\ Centers \subseteq Nat
    BY SMTT(30) DEF Alive, Centers
  <1>2. ASSUME NEW a \in Alive(cs) PROVE a \in Nat /\ cs[a] \in Tallies
    <2>1. a \in Centers
      BY <1>1
    <2> QED BY <1>1, <2>1
  <1>3. CASE n + 1 \notin Alive(cs)
    <2>1. ASSUME NEW a \in Alive(cs) PROVE a <= n + 1 <=> a <= n
      <3>1. a \in Nat /\ a # n + 1
        BY <1>2, <1>3
      <3> QED BY <3>1, SMTT(30)
    <2>2. PICK l \in Centers : LeadsTo(cs, l, n)
      BY <2>1
    <2>3. LeadsTo(cs, l, n + 1)
      BY <2>1, <2>2 DEF LeadsTo
    <2> QED BY <2>3
  <1>4. CASE n + 1 \in Alive(cs) /\ \A a \in Alive(cs) : ~(a <= n)
    <2>1. ASSUME NEW a \in Alive(cs), a <= n + 1 PROVE a = n + 1
      <3>1. a \in Nat /\ ~(a <= n)
        BY <1>2, <1>4
      <3> QED BY <2>1, <3>1, SMTT(30)
    <2>2. ~RateAbove(cs[n + 1], cs[n + 1])
      BY <1>2, <1>4, RateOrder
    <2>3. LeadsTo(cs, n + 1, n + 1)
      BY <1>4, <2>1, <2>2, SMTT(30) DEF LeadsTo
    <2> QED BY <1>1, <1>4, <2>3
  <1>5. CASE n + 1 \in Alive(cs) /\ \E a \in Alive(cs) : a <= n
    <2>1. PICK l \in Centers : LeadsTo(cs, l, n)
      BY <1>5
    <2>2. /\ l \in Alive(cs) /\ l <= n
          /\ \A a \in Alive(cs) : a <= n => /\ ~RateAbove(cs[a], cs[l])
                                            /\ a < l => RateAbove(cs[l], cs[a])
      BY <2>1 DEF LeadsTo
    <2>3. /\ cs[l] \in Tallies /\ cs[n + 1] \in Tallies /\ l \in Nat
          /\ \A a \in Alive(cs) : a \in Nat /\ (a <= n + 1 => a <= n \/ a = n + 1)
      BY <1>1, <1>2, <1>5, <2>2, SMTT(30)
    <2>4. CASE RateAbove(cs[n + 1], cs[l])
      <3>1. ASSUME NEW a \in Alive(cs), a <= n + 1
            PROVE  ~RateAbove(cs[a], cs[n + 1]) /\ (a < n + 1 => RateAbove(cs[n + 1], cs[a]))
        <4>1. CASE a = n + 1
          BY <2>3, <4>1, RateOrder, SMTT(30)
        <4>2. CASE a <= n
          <5>1. cs[a] \in Tallies /\ ~RateAbove(cs[a], cs[l])
            BY <1>2, <2>2, <4>2
          <5>2. RateAbove(cs[n + 1], cs[a])
            BY <2>3, <2>4, <5>1, RateOrder
          <5>3. ~RateAbove(cs[a], cs[n + 1])
            BY <2>3, <5>1, <5>2, RateOrder
          <5> QED BY <5>2, <5>3
        <4> QED BY <2>3, <3>1, <4>1, <4>2
      <3> QED BY <1>1, <1>5, <3>1, SMTT(30) DEF LeadsTo
    <2>5. CASE ~RateAbove(cs[n + 1], cs[l])
      <3>1. LeadsTo(cs, l, n + 1)
        BY <2>2, <2>3, <2>5, SMTT(30) DEF LeadsTo
      <3> QED BY <3>1
    <2> QED BY <2>4, <2>5
  <1> QED BY <1>3, <1>4, <1>5

\* The loop over the centres ends with a leader, when any centre is alive.
LEMMA LeaderExists ==
  ASSUME NEW cs \in [Centers -> Tallies], Alive(cs) # {}
  PROVE  LET l == ds_leader_index(cs)
         IN  l \in Alive(cs) /\ \A c \in Alive(cs) : ~RateAbove(cs[c], cs[l])
  <1> DEFINE Led(n) == \A c \in Alive(cs) : ~(c <= n) \/ \E l \in Centers : LeadsTo(cs, l, n)
             Unled == {n \in Nat : ~Led(n)}
  <1>1. Alive(cs) \subseteq Centers /\ \A c \in Centers : c \in Nat /\ c >= 1 /\ c <= NCenters
    BY SurveyAssumption, SMTT(30) DEF Alive, Centers
  <1>2. Unled = {}
    <2> SUFFICES ASSUME Unled # {} PROVE FALSE
      OBVIOUS
    <2>1. Unled \in SUBSET Nat
      OBVIOUS
    <2>2. PICK n \in Unled : \A m \in Unled : n <= m
      <3> HIDE DEF Unled
      <3> QED BY <2>1, LeastMember
    <2>3. n \in Nat /\ ~Led(n)
      OBVIOUS
    <2>4. Led(0)
      BY <1>1, SMTT(30)
    <2>5. n # 0
      BY <2>3, <2>4
    <2>6. PICK k \in Nat : n = k + 1
      <3>1. n - 1 \in Nat /\ n = (n - 1) + 1
        BY <2>3, <2>5, SMTT(30)
      <3> QED BY <3>1
    <2>7. Led(k)
      <3> HIDE DEF Led
      <3>1. k \notin Unled
        <4> HIDE DEF Unled
        <4> QED BY <2>2, <2>3, <2>6, SMTT(30)
      <3> QED BY <3>1
    <2>8. Led(k + 1)
      BY <2>7, LeaderStep
    <2> QED BY <2>3, <2>6, <2>8
  <1>3. PICK l \in Centers : LeadsTo(cs, l, NCenters)
    <2>1. Led(NCenters)
      <3> HIDE DEF Led
      <3> QED BY <1>2, SurveyAssumption
    <2>2. PICK c : c \in Alive(cs)
      OBVIOUS
    <2>3. c <= NCenters
      BY <1>1, <2>2
    <2> QED BY <2>1, <2>2, <2>3
  <1>4. /\ l \in Alive(cs)
        /\ \A c \in Alive(cs) : /\ ~RateAbove(cs[c], cs[l])
                                /\ c < l => RateAbove(cs[l], cs[c])
    BY <1>1, <1>3 DEF LeadsTo
  <1> QED BY <1>4 DEF ds_leader_index

\* A pass drops a centre only for the leader, which it keeps.
LEMMA PassSound ==
  ASSUME NEW cs \in [Centers -> Tallies], NEW ds, ds = ds_eliminate_pass(cs)
  PROVE  /\ Alive(ds) \subseteq Alive(cs)
         /\ \A c \in Alive(cs) \ Alive(ds) :
               /\ cs[c].visits >= FloorVisits
               /\ \E l \in Alive(ds) : RateAbove(cs[l], cs[c])
  <1> DEFINE lead == ds_leader_index(cs)
             Dropped(c) == c # lead /\ ds_center_eligible(cs[c]) /\ ds_lead_beats(cs[lead], cs[c])
  <1>1. ASSUME NEW c \in Centers
        PROVE  /\ Dropped(c) => ds[c] = [cs[c] EXCEPT !.eliminated = TRUE]
               /\ ~Dropped(c) => ds[c] = cs[c]
    BY DEF ds_eliminate_pass
  <1>2. ASSUME NEW c \in Centers
        PROVE  /\ ds[c].eliminated <=> cs[c].eliminated \/ Dropped(c)
               /\ Dropped(c) => ~cs[c].eliminated /\ cs[c].visits >= FloorVisits
    <2>1. cs[c] \in Tallies
      OBVIOUS
    <2>2. [cs[c] EXCEPT !.eliminated = TRUE].eliminated
      BY <2>1 DEF Tallies
    <2>3. Dropped(c) => ~cs[c].eliminated /\ cs[c].visits >= FloorVisits
      BY DEF ds_center_eligible
    <2> HIDE DEF Dropped
    <2> QED BY <1>1, <2>2, <2>3
  <1>3. ASSUME NEW c \in Centers, Dropped(c), lead \in Centers
        PROVE  RateAbove(cs[lead], cs[c])
    <2>1. ds_lead_beats(cs[lead], cs[c]) /\ cs[lead] \in Tallies /\ cs[c] \in Tallies
      BY <1>3
    <2> HIDE DEF lead, Dropped
    <2>2. PICK a, b \in Tallies : a = cs[lead] /\ b = cs[c]
      BY <2>1
    <2>3. /\ a.visits # 0 /\ b.visits # 0 /\ a.lw_da * b.visits - b.lw_da * a.visits > 0
      BY <2>1, <2>2 DEF ds_lead_beats
    <2>4. a.lw_da \in Nat /\ a.visits \in Nat /\ b.lw_da \in Nat /\ b.visits \in Nat
      BY DEF Tallies
    <2>5. a.lw_da * b.visits \in Nat /\ b.lw_da * a.visits \in Nat
      BY <2>4, SMTT(30)
    <2>6. a.lw_da * b.visits > b.lw_da * a.visits
      BY <2>3, <2>5, SMTT(30)
    <2> QED BY <2>2, <2>3, <2>6 DEF RateAbove
  <1>4. ASSUME NEW c \in Alive(cs) \ Alive(ds)
        PROVE  c \in Centers /\ Dropped(c) /\ lead \in Centers /\ lead \in Alive(ds)
    <2>1. c \in Centers /\ Dropped(c)
      <3> HIDE DEF Dropped
      <3> QED BY <1>2 DEF Alive
    <2>2. lead \in Alive(cs)
      BY LeaderExists
    <2>3. ~Dropped(lead)
      OBVIOUS
    <2> HIDE DEF Dropped, lead
    <2> QED BY <1>2, <2>1, <2>2, <2>3 DEF Alive
  <1> HIDE DEF Dropped, lead
  <1>5. Alive(ds) \subseteq Alive(cs)
    BY <1>2 DEF Alive
  <1> QED BY <1>2, <1>3, <1>4, <1>5

\* No step of the survey but the end of a cycle changes who is in the running.
LEMMA SameRunning ==
  ASSUME SvyTypeOK, SvyNext, ~CycleEnd
  PROVE  Alive(centers') = Alive(centers)
  <1>1. centers \in [Centers -> Tallies] /\ cur \in Centers
    BY DEF SvyTypeOK
  <1>2. CASE AddVisit
    <2>1. ASSUME NEW c \in Centers PROVE centers'[c].eliminated = centers[c].eliminated
      BY <1>1, <1>2 DEF AddVisit, Tallies
    <2> QED BY <2>1 DEF Alive
  <1>3. CASE UNCHANGED centers
    BY <1>3
  <1>4. AddVisit \/ UNCHANGED centers
    BY DEF SvyNext, FrameStep, Stop, SurveyStep, Place, Aborted, Start, CycleHead, NextCenter, Hop,
           HopFails, GuardBegin, GuardEnd, Snapshot
  <1> QED BY <1>2, <1>3, <1>4

\* A centre leaves the running for good, after the floor of visits, and only
\* before one that stays in it with a higher rate.
THEOREM EliminationsSound == SvySpec => EliminationSound
  <1> DEFINE Sound == /\ Alive(centers') \subseteq Alive(centers)
                      /\ \A c \in Alive(centers) \ Alive(centers') :
                            /\ centers[c].visits >= FloorVisits
                            /\ \E l \in Alive(centers') : RateAbove(centers[l], centers[c])
  <1>1. SvyIInv /\ [SvyNext]_svyVars => [Sound]_svyVars
    <2> SUFFICES ASSUME SvyIInv, SvyNext PROVE Sound
      OBVIOUS
    <2>1. SvyTypeOK
      BY DEF SvyIInv
    <2>2. CASE CycleEnd
      <3>1. centers \in [Centers -> Tallies] /\ centers' = ds_eliminate_pass(centers)
        BY <2>1, <2>2 DEF SvyTypeOK, CycleEnd
      <3> QED BY <3>1, PassSound
    <2>3. CASE ~CycleEnd
      <3>1. Alive(centers') = Alive(centers)
        BY <2>1, <2>3, SameRunning
      <3> QED BY <3>1
    <2> QED BY <2>2, <2>3
  <1> QED BY <1>1, SurveyInvariant, PTL DEF SvySpec, EliminationSound
==============================================================================
