------------------------- MODULE PaymentLaneProofs -------------------------
(***************************************************************************)
(* Proofs about PaymentLane for any number of callers, calls and adapter   *)
(* results.  The replay guard is not inductive by itself: GateInv says who *)
(* may be inside, EffectInv what every one of them and the record file     *)
(* know about a side effect that has started.                              *)
(***************************************************************************)
EXTENDS PaymentLane, TLAPS

\* What the callers inside an operation have in memory is a record.
MemInv == \A c \in Caller : phase[c] \in {"admitted", "open"} => mem[c] \in Record

\* Exactly the caller that holds the gate is between Acquire and Leave.
GateInv ==
  \A c \in Caller : holder = c <=> phase[c] \in {"locked", "admitted", "open", "stranded"}

BeforeAdapter == {"created", "validation", "routing", "adapter"}

\* What caller c knows of a side effect that has started.
Aware(c) ==
  /\ phase[c] = "admitted" => effects = {}
  /\ phase[c] = "open" /\ at[c] \in BeforeAdapter => effects = {}
  /\ phase[c] # "open" => at[c] = "created" /\ ~started[c]
  /\ phase[c] = "open" => effects \subseteq {mem[c].attempt}
  /\ phase[c] = "open" /\ at[c] # "abort" /\ effects # {} => mem[c].side
  /\ phase[c] = "open" /\ at[c] = "adapting" =>
       mem[c].side /\ Blocked(disk) /\ (effects # {} => started[c])
  /\ phase[c] = "open" /\ at[c] \in {"artifact", "terminal", "finish"} /\ effects # {} =>
       ~ReplayAllowed(FromMapping(raw[c]))

EffectInv ==
  /\ effects # {} => Blocked(disk)
  /\ \A c \in Caller : Aware(c)

(* The strengthening of the replay guard that is inductive: with it, every
   step of every caller keeps AtMostOneEffect. *)
IInv == TypeOK /\ MemInv /\ GateInv /\ EffectInv /\ AtMostOneEffect

-----------------------------------------------------------------------------
(* from_mapping returns a result of the contract for every mapping. *)
LEMMA FromMappingType == ASSUME NEW r \in Raw PROVE FromMapping(r) \in Outcome
  BY DEF FromMapping, Raw, Outcome, Status

(* to_dict returns a mapping from_mapping accepts. *)
LEMMA ToDictType == ASSUME NEW r \in Raw, NEW out \in Outcome PROVE ToDict(out, r) \in Raw
  BY DEF ToDict, Raw, Outcome, Status

(* Handing a result on as a mapping and reading it again (executor to
   generate_payment_link to finish) changes no part of its reading: from_mapping
   after to_dict is the identity on results, although to_dict drops the error
   stage of a success and turns an inferred side effect into an explicit one. *)
LEMMA HandedOn ==
  ASSUME NEW r \in Raw
  PROVE  FromMapping(ToDict(FromMapping(r), r)) = FromMapping(r)
<1> DEFINE out == FromMapping(r)
           back == FromMapping(ToDict(out, r))
<1>1. /\ out \in Outcome /\ back \in Outcome
      /\ ToDict(out, r) \in Raw
  BY FromMappingType, ToDictType
<1>2. /\ out.recon => out.side
      /\ out.status = "unknown" => out.recon
      /\ out.retry => /\ ~(out.ok \/ out.side \/ out.recon)
                      /\ out.status \notin {"unknown", "cancelled", "completed"}
  BY DEF FromMapping, Raw, Status
<1>3. out.status # "absent"
  BY <1>1 DEF Outcome, Status
<1> HIDE DEF out
<1>4. /\ back.ok = out.ok
      /\ back.status = out.status
      /\ back.recon = (out.recon \/ out.status = "unknown")
      /\ back.side = (back.recon \/ out.side)
      /\ back.retry = /\ out.retry
                      /\ ~(out.ok \/ back.side \/ back.recon)
                      /\ out.status \notin {"unknown", "cancelled", "completed"}
  BY <1>3, Zenon DEF FromMapping, ToDict
<1>5. /\ back.ok = out.ok /\ back.status = out.status /\ back.side = out.side
      /\ back.recon = out.recon /\ back.retry = out.retry
  BY <1>1, <1>2, <1>4 DEF Outcome
<1>6. back = out
  BY <1>1, <1>5 DEF Outcome
<1> QED
  BY <1>6 DEF out

(* In particular a result that is not replayable is not made so on the way. *)
LEMMA RoundTrip ==
  ASSUME NEW r \in Raw, ~ReplayAllowed(FromMapping(r))
  PROVE  ~ReplayAllowed(FromMapping(ToDict(FromMapping(r), r)))
  BY HandedOn

(* A caller is refused with the record it read, or one that was made up. *)
LEMMA RefuseType ==
  ASSUME JournalTypeOK, NEW c \in Caller, NEW seen \in Reads, Refuse(c, seen)
  PROVE  verdict' \in [Caller -> Record \cup {NoRecord, BusyRecord, LostRecord}]
  BY DEF Refuse, Reads, JournalTypeOK

(* A failure or a cancellation made up by the executor is not replayable. *)
LEMMA MadeUp ==
  /\ Failure \in Raw /\ Cancelled \in Raw
  /\ ~ReplayAllowed(FromMapping(Failure)) /\ ~ReplayAllowed(FromMapping(Cancelled))
  BY DEF Failure, Cancelled, NoResult, ReplayAllowed, FromMapping, Raw, Status

(* Writing an outcome into a record gives a record, replayable only if the
   outcome is. *)
LEMMA OutcomeWritten ==
  ASSUME NEW rec \in Record, NEW out \in Outcome
  PROVE  /\ WithOutcome(rec, out) \in Record
         /\ WithOutcome(rec, out).attempt = rec.attempt
         /\ ReplayAllowed(WithOutcome(rec, out)) <=> ReplayAllowed(out)
  BY DEF WithOutcome, Record, Outcome, ReplayAllowed

(* A record blocks the next call exactly when it is not replayable. *)
LEMMA RecordBlocks ==
  ASSUME NEW rec \in Record
  PROVE  /\ Blocked(rec) <=> ~ReplayAllowed(rec)
         /\ rec.side => Blocked(rec)
  BY JournalAssumption DEF Blocked, ReplayAllowed

-----------------------------------------------------------------------------
(* The records and results every variable holds are of their type: in
   particular the copy an operation finishes from is a whole record. *)
TypeInv == TypeOK /\ MemInv

LEMMA TypeInit == Init => TypeInv
  BY JournalAssumption DEF Init, JournalInit, TypeInv, TypeOK, JournalTypeOK, MemInv,
     Phase, At, NoResult, Raw, Status

\* A checkpoint keeps every record whole, whether or not its write lands.
LEMMA CheckpointType ==
  ASSUME TypeInv, NEW c \in Caller, NEW status \in Status, NEW side \in BOOLEAN,
         NEW ok \in BOOLEAN, Checkpoint(c, status, side, ok)
  PROVE  JournalTypeOK' /\ MemInv'
<1> DEFINE rec == [mem[c] EXCEPT !.status = status, !.side = @ \/ side]
<1>1. mem[c] \in Record
  BY DEF TypeInv, MemInv, Checkpoint
<1>2. rec \in Record
  BY <1>1 DEF Record
<1> QED
  BY <1>2 DEF Checkpoint, TypeInv, TypeOK, JournalTypeOK, MemInv

LEMMA MoveType ==
  ASSUME TypeInv, NEW c \in Caller, NEW from, NEW next \in At, NEW status \in Status,
         NEW side \in BOOLEAN, Move(c, from, next, status, side)
  PROVE  TypeInv'
<1>1. JournalTypeOK' /\ MemInv'
  BY CheckpointType DEF Move
<1> QED
  BY <1>1, MadeUp DEF Move, Fail, Goto, TypeInv, TypeOK, At

LEMMA TypeNext == TypeInv /\ [Next]_vars => TypeInv'
<1> SUFFICES ASSUME TypeInv, [Next]_vars PROVE TypeInv'
  OBVIOUS
<1> USE DEF TypeInv, TypeOK, JournalTypeOK, MemInv, Phase, At
<1>1. ASSUME NEW c \in Caller, StartCall(c) PROVE TypeInv'
  BY <1>1 DEF StartCall, Call, Enter, laneVars
<1>2. ASSUME NEW c \in Caller, BeginStep(c) PROVE TypeInv'
  <2>1. CASE Acquire(c)
    BY <1>2, <2>1 DEF BeginStep, Acquire, Enter, laneVars
  <2>2. CASE GateTimesOut(c)
    BY <1>2, <2>2 DEF BeginStep, GateTimesOut, Enter, laneVars
  <2>3. CASE RefuseBusy(c)
    <3>1. verdict' \in [Caller -> Record \cup {NoRecord, BusyRecord, LostRecord}]
      BY <2>3, RefuseType DEF RefuseBusy
    <3> QED
      BY <1>2, <2>3, <3>1 DEF BeginStep, RefuseBusy, Enter, laneVars
  <2>4. CASE RefuseReplay(c)
    <3>1. verdict' \in [Caller -> Record \cup {NoRecord, BusyRecord, LostRecord}]
      BY <2>4, RefuseType DEF RefuseReplay
    <3> QED
      BY <1>2, <2>4, <3>1 DEF BeginStep, RefuseReplay, Leave, laneVars
  <2>5. CASE Admit(c)
    <3>1. mem'[c] \in Record
      BY <2>5 DEF Admit, Blocked, NewRecord, Record, Status
    <3> QED
      BY <1>2, <2>5, <3>1 DEF BeginStep, Admit, Enter, laneVars
  <2>6. CASE WriteNew(c)
    BY <1>2, <2>6 DEF BeginStep, WriteNew, Enter, Leave, laneVars
  <2>7. CASE Collect(c)
    BY <1>2, <2>7 DEF BeginStep, Collect, Leave, laneVars
  <2> QED
    BY <1>2, <2>1, <2>2, <2>3, <2>4, <2>5, <2>6, <2>7 DEF BeginStep, Begin
<1>3. ASSUME NEW c \in Caller, Run(c) PROVE TypeInv'
  <2>1. CASE MoveCreated(c)
    <3>1. PICK ok \in BOOLEAN : /\ Checkpoint(c, "preparing", FALSE, ok)
                               /\ Goto(c, IF ok THEN "validation" ELSE "abort")
      BY <2>1 DEF MoveCreated
    <3>2. JournalTypeOK' /\ MemInv'
      BY <3>1, CheckpointType DEF Status
    <3>3. at' \in [Caller -> At]
      BY <3>1 DEF Goto
    <3> QED
      BY <2>1, <3>2, <3>3 DEF MoveCreated
  <2>2. CASE MoveValidating(c)
    BY <2>2, MoveType DEF MoveValidating, Status
  <2>3. CASE Invalid(c)
    BY <2>3, MadeUp DEF Invalid, Fail, Goto, journalVars
  <2>4. CASE MoveRouting(c)
    BY <2>4, MoveType DEF MoveRouting, Status
  <2>5. CASE MoveAdapter(c)
    BY <2>5, MoveType DEF MoveAdapter, Status
  <2>6. CASE AdapterEnds(c)
    BY <2>6, ResultsAssumption DEF AdapterEnds, Goto, journalVars
  <2>7. CASE AdapterRaises(c)
    BY <2>7, ResultsAssumption, MadeUp DEF AdapterRaises, Fail, Goto, journalVars
  <2>8. CASE MoveArtifact(c)
    BY <2>8, MoveType DEF MoveArtifact, Status
  <2>9. CASE MoveTerminal(c)
    <3> DEFINE out == FromMapping(raw[c])
               status == IF out.status \in {"completed", "failed", "cancelled", "unknown", "timed_out"}
                         THEN out.status ELSE IF out.ok THEN "completed" ELSE "failed"
    <3>1. PICK ok \in BOOLEAN : /\ Checkpoint(c, status, out.ok \/ raw[c].effect, ok)
                               /\ Goto(c, IF ok THEN "finish" ELSE "abort")
      BY <2>9 DEF MoveTerminal
    <3>2. out \in Outcome /\ ToDict(out, raw[c]) \in Raw
      BY FromMappingType, ToDictType
    <3>3. status \in Status /\ (out.ok \/ raw[c].effect) \in BOOLEAN
      BY <3>2 DEF Status, Outcome, Raw
    <3> HIDE DEF out, status
    <3>4. raw' = [raw EXCEPT ![c] = ToDict(out, raw[c])] /\ UNCHANGED <<started, effects>>
      BY <2>9 DEF MoveTerminal, out
    <3>5. JournalTypeOK' /\ MemInv'
      BY <3>1, <3>3, CheckpointType
    <3>6. at' \in [Caller -> At]
      BY <3>1 DEF Goto
    <3> QED
      BY <3>2, <3>4, <3>5, <3>6
  <2>10. CASE FinishCall(c)
    <3> DEFINE rec == WithOutcome(mem[c], FromMapping(raw[c]))
    <3>1. phase[c] = "open" /\ mem[c] \in Record
      BY <2>10 DEF FinishCall, Finish
    <3>2. rec \in Record
      BY <3>1, FromMappingType, OutcomeWritten
    <3>3. CASE Finish(c, raw[c], TRUE) /\ Forget(c)
      BY <3>2, <3>3 DEF Finish, Leave, Forget, Goto, NoResult, Raw
    <3>4. CASE Finish(c, raw[c], FALSE) /\ Goto(c, "abort") /\ UNCHANGED <<raw, started, effects>>
      BY <3>2, <3>4 DEF Finish, Goto
    <3> QED
      BY <2>10, <3>3, <3>4 DEF FinishCall
  <2>11. CASE Abort(c)
    <3>1. PICK ok \in BOOLEAN : FailUnknown(c, ok)
      BY <2>11 DEF Abort
    <3>2. phase[c] = "open" /\ mem[c] \in Record
      BY <3>1 DEF FailUnknown
    <3>3. WithOutcome(mem[c], Uncertain) \in Record
      BY <3>2 DEF WithOutcome, Uncertain, Record, Status
    <3> QED
      BY <2>11, <3>1, <3>3 DEF Abort, FailUnknown, Leave, Enter, Forget, Goto, NoResult, Raw
  <2> QED
    BY <1>3, <2>1, <2>2, <2>3, <2>4, <2>5, <2>6, <2>7, <2>8, <2>9, <2>10, <2>11 DEF Run
<1>4. ASSUME NEW c \in Caller, StartEffect(c) PROVE TypeInv'
  BY <1>4 DEF StartEffect, journalVars, Record
<1>5. ASSUME NEW c \in Caller, Crash(c) PROVE TypeInv'
  BY <1>5 DEF Crash, Die, Leave, Forget, Goto, NoResult, Raw
<1>6. CASE DamageFile
  BY <1>6 DEF DamageFile, Damage, laneVars
<1>7. CASE UNCHANGED vars
  BY <1>7 DEF vars, journalVars, laneVars
<1>8. ASSUME NEW c \in Caller, AdapterProgress(c) PROVE TypeInv'
  <2>1. PICK status \in {"running", "completed", "failed"} :
          \/ Checkpoint(c, status, TRUE, TRUE) /\ UNCHANGED <<at, raw>>
          \/ /\ Checkpoint(c, status, TRUE, FALSE)
             /\ \E result \in {r \in Results[started[c]] : ~r.ok} : Fail(c, result)
    BY <1>8 DEF AdapterProgress
  <2>2. JournalTypeOK' /\ MemInv'
    BY <2>1, CheckpointType DEF Status
  <2>3. at' \in [Caller -> At] /\ raw' \in [Caller -> Raw]
    BY <2>1, ResultsAssumption DEF Fail, Goto
  <2> QED
    BY <1>8, <2>2, <2>3 DEF AdapterProgress
<1> QED
  BY <1>1, <1>2, <1>3, <1>4, <1>5, <1>6, <1>7, <1>8 DEF Next

(* Every record, result and counter keeps its type, for any number of callers
   and calls, whatever the adapter returns and whichever writes fail. *)
THEOREM TypeCorrect == Spec => []TypeOK
<1>1. TypeInv => TypeOK
  BY DEF TypeInv
<1> QED
  BY <1>1, TypeInit, TypeNext, PTL DEF Spec

-----------------------------------------------------------------------------
\* Two callers past Acquire are the same caller.
LEMMA Alone ==
  ASSUME GateInv, NEW c \in Caller, NEW d \in Caller,
         phase[c] \in {"locked", "admitted", "open", "stranded"},
         phase[d] \in {"locked", "admitted", "open", "stranded"}
  PROVE  c = d
  BY DEF GateInv

LEMMA GateNext == TypeInv /\ GateInv /\ [Next]_vars => GateInv'
<1> SUFFICES ASSUME TypeInv, GateInv, [Next]_vars PROVE GateInv'
  OBVIOUS
<1> USE DEF TypeInv, TypeOK, JournalTypeOK, GateInv, Phase
<1>1. ASSUME NEW c \in Caller, StartCall(c) PROVE GateInv'
  BY <1>1 DEF StartCall, Call, Enter
<1>2. ASSUME NEW c \in Caller, BeginStep(c) PROVE GateInv'
  <2>1. CASE Acquire(c)
    BY <2>1, JournalAssumption DEF Acquire, Enter
  <2>2. CASE GateTimesOut(c)
    BY <2>2 DEF GateTimesOut, Enter
  <2>3. CASE RefuseBusy(c)
    BY <2>3 DEF RefuseBusy, Enter
  <2>4. CASE RefuseReplay(c)
    BY <2>4, JournalAssumption DEF RefuseReplay, Leave
  <2>5. CASE Admit(c)
    BY <2>5 DEF Admit, Enter
  <2>6. CASE WriteNew(c)
    BY <2>6, JournalAssumption DEF WriteNew, Enter, Leave
  <2>7. CASE Collect(c)
    BY <2>7, JournalAssumption DEF Collect, Leave
  <2> QED
    BY <1>2, <2>1, <2>2, <2>3, <2>4, <2>5, <2>6, <2>7 DEF BeginStep, Begin
<1>3. ASSUME NEW c \in Caller, Run(c) PROVE GateInv'
  <2>1. CASE MoveCreated(c) \/ MoveValidating(c) \/ MoveRouting(c) \/ MoveAdapter(c)
               \/ MoveArtifact(c) \/ MoveTerminal(c)
    BY <2>1 DEF MoveCreated, MoveValidating, MoveRouting, MoveAdapter, MoveArtifact,
       MoveTerminal, Move, Checkpoint
  <2>2. CASE Invalid(c) \/ AdapterEnds(c) \/ AdapterRaises(c)
    BY <2>2 DEF Invalid, AdapterEnds, AdapterRaises, journalVars
  <2>3. CASE FinishCall(c)
    BY <2>3, JournalAssumption DEF FinishCall, Finish, Leave
  <2>4. CASE Abort(c)
    BY <2>4, JournalAssumption DEF Abort, FailUnknown, Leave, Enter
  <2> QED
    BY <1>3, <2>1, <2>2, <2>3, <2>4 DEF Run
<1>4. ASSUME NEW c \in Caller, StartEffect(c) PROVE GateInv'
  BY <1>4 DEF StartEffect, journalVars
<1>5. ASSUME NEW c \in Caller, Crash(c) PROVE GateInv'
  BY <1>5, JournalAssumption DEF Crash, Die, Leave
<1>6. CASE DamageFile
  BY <1>6 DEF DamageFile, Damage
<1>7. CASE UNCHANGED vars
  BY <1>7 DEF vars, journalVars
<1>8. ASSUME NEW c \in Caller, AdapterProgress(c) PROVE GateInv'
  BY <1>8 DEF AdapterProgress, Checkpoint
<1> QED
  BY <1>1, <1>2, <1>3, <1>4, <1>5, <1>6, <1>7, <1>8 DEF Next

-----------------------------------------------------------------------------
Safe == TypeInv /\ GateInv

\* A caller that is not inside learns nothing, and need not, from a step of
\* the caller that is.
LEMMA Others ==
  ASSUME Safe, EffectInv, NEW c \in Caller, NEW d \in Caller, c # d,
         phase[c] \in {"locked", "admitted", "open", "stranded"},
         phase'[d] = phase[d], at'[d] = at[d], started'[d] = started[d]
  PROVE  Aware(d)'
<1>1. phase[d] \notin {"locked", "admitted", "open", "stranded"}
  BY Alone DEF Safe
<1> QED
  BY <1>1 DEF EffectInv, Aware

\* Neither does anybody from a step that touches no record and no run.
LEMMA Outside ==
  ASSUME EffectInv, NEW c \in Caller, UNCHANGED <<disk, mem, laneVars>>,
         phase'[c] = phase[c] \/ (phase[c] # "open" /\ phase'[c] \notin {"admitted", "open"})
  PROVE  Aware(c)'
  BY DEF EffectInv, Aware, Blocked, laneVars

\* A checkpoint keeps the attempt and what was known of the side effect.
LEMMA CheckpointEffect ==
  ASSUME Safe, EffectInv, NEW c \in Caller, NEW status \in Status, NEW side \in BOOLEAN,
         NEW ok \in BOOLEAN, Checkpoint(c, status, side, ok), at[c] # "abort",
         UNCHANGED effects
  PROVE  /\ phase[c] = "open" /\ phase' = phase
         /\ mem'[c].attempt = mem[c].attempt
         /\ mem'[c].side = (mem[c].side \/ side)
         /\ effects' # {} => Blocked(disk')
         /\ side /\ ok => Blocked(disk')
<1> DEFINE rec == [mem[c] EXCEPT !.status = status, !.side = @ \/ side]
<1>1. phase[c] = "open" /\ phase' = phase /\ mem[c] \in Record /\ mem'[c] = rec
  BY DEF Checkpoint, Safe, TypeInv, MemInv, TypeOK, JournalTypeOK
<1>2. rec \in Record /\ rec.attempt = mem[c].attempt /\ rec.side = (mem[c].side \/ side)
  BY <1>1 DEF Record
<1>3. disk' = IF ok THEN rec ELSE disk
  BY DEF Checkpoint
<1> HIDE DEF rec
<1>4. rec.side => Blocked(rec)
  BY <1>2, RecordBlocks
<1>5. effects # {} => mem[c].side /\ Blocked(disk)
  BY <1>1 DEF EffectInv, Aware
<1> QED
  BY <1>1, <1>2, <1>3, <1>4, <1>5

\* A move of the executor: c is at `next' with the record written, or at
\* "terminal" with a failure that cannot be replayed.
LEMMA MoveEffect ==
  ASSUME Safe, EffectInv, NEW c \in Caller, NEW from, NEW next, NEW status \in Status,
         NEW side \in BOOLEAN, Move(c, from, next, status, side),
         \/ from \in BeforeAdapter /\ next \in BeforeAdapter
         \/ from = "adapter" /\ next = "adapting" /\ side
         \/ from = "artifact" /\ next = "terminal"
  PROVE  EffectInv'
<1>1. PICK ok \in BOOLEAN :
        /\ Checkpoint(c, status, side, ok)
        /\ IF ok THEN Goto(c, next) /\ UNCHANGED raw ELSE Fail(c, Failure)
  BY DEF Move
<1>2. at[c] = from /\ UNCHANGED <<started, effects>>
  BY DEF Move
<1>3. /\ phase[c] = "open" /\ phase' = phase
      /\ mem'[c].attempt = mem[c].attempt
      /\ mem'[c].side = (mem[c].side \/ side)
      /\ effects' # {} => Blocked(disk')
      /\ side /\ ok => Blocked(disk')
  BY <1>1, <1>2, CheckpointEffect DEF BeforeAdapter
<1>4. ASSUME NEW d \in Caller, d # c PROVE Aware(d)'
  <2>1. at'[d] = at[d]
    BY <1>1, <1>4 DEF Goto, Fail, Safe, TypeInv, TypeOK
  <2> QED
    BY <1>2, <1>3, <1>4, <2>1, Others
<1>5. CASE ok
  <2>1. at'[c] = next /\ raw' = raw
    BY <1>1, <1>5 DEF Goto, Safe, TypeInv, TypeOK
  <2>2. Aware(c)'
    BY <1>2, <1>3, <1>5, <2>1 DEF EffectInv, Aware, BeforeAdapter
  <2> QED
    BY <1>3, <1>4, <2>2 DEF EffectInv
<1>6. CASE ~ok
  <2>1. at'[c] = "terminal" /\ raw'[c] = Failure
    BY <1>1, <1>6 DEF Fail, Goto, Safe, TypeInv, TypeOK
  <2>2. Aware(c)'
    BY <1>2, <1>3, <1>6, <2>1, MadeUp DEF EffectInv, Aware, BeforeAdapter
  <2> QED
    BY <1>3, <1>4, <2>2 DEF EffectInv
<1> QED
  BY <1>5, <1>6

\* The call of c ends: nobody is inside any more.
LEMMA LeaveEffect ==
  ASSUME Safe, EffectInv, NEW c \in Caller, Leave(c), Forget(c),
         phase[c] # "idle", effects # {} => Blocked(disk')
         , disk' = disk \/ phase[c] \in {"locked", "admitted", "open", "stranded"}
  PROVE  EffectInv'
<1>1. phase'[c] = "idle" /\ at'[c] = "created" /\ started'[c] = FALSE /\ effects' = effects
  BY DEF Leave, Forget, Goto, Safe, TypeInv, TypeOK, JournalTypeOK
<1>2. ASSUME NEW d \in Caller, d # c PROVE Aware(d)'
  <2>1. /\ phase'[d] = phase[d] /\ at'[d] = at[d] /\ started'[d] = started[d]
        /\ mem'[d] = mem[d] /\ raw'[d] = raw[d]
    BY <1>2 DEF Leave, Forget, Goto, Safe, TypeInv, TypeOK, JournalTypeOK
  <2>2. CASE phase[c] \in {"locked", "admitted", "open", "stranded"}
    BY <1>2, <2>1, <2>2, Others
  <2>3. CASE disk' = disk
    BY <1>1, <2>1, <2>3 DEF EffectInv, Aware
  <2> QED
    BY <2>2, <2>3
<1>3. Aware(c)'
  BY <1>1 DEF Aware
<1> QED
  BY <1>1, <1>2, <1>3 DEF EffectInv

LEMMA EffectNext == Safe /\ EffectInv /\ HonestAdapter /\ [Next]_vars => EffectInv'
<1> SUFFICES ASSUME Safe, EffectInv, HonestAdapter, [Next]_vars PROVE EffectInv'
  OBVIOUS
<1> USE DEF Safe
<1>1. ASSUME NEW c \in Caller, StartCall(c) PROVE EffectInv'
  <2>1. UNCHANGED <<disk, mem, laneVars>>
    BY <1>1 DEF StartCall, Call
  <2>2. ASSUME NEW d \in Caller PROVE Aware(d)'
    BY <1>1, <2>1, Outside DEF StartCall, Call, Enter, TypeInv, TypeOK, JournalTypeOK
  <2> QED
    BY <2>1, <2>2 DEF EffectInv, laneVars, Blocked
<1>2. ASSUME NEW c \in Caller, BeginStep(c) PROVE EffectInv'
  <2>1. CASE Acquire(c) \/ GateTimesOut(c) \/ RefuseBusy(c)
    <3>1. UNCHANGED <<disk, mem, laneVars>>
      BY <1>2, <2>1 DEF BeginStep, Acquire, GateTimesOut, RefuseBusy
    <3>2. ASSUME NEW d \in Caller PROVE Aware(d)'
      BY <2>1, <3>1, Outside DEF Acquire, GateTimesOut, RefuseBusy, Enter,
         TypeInv, TypeOK, JournalTypeOK
    <3> QED
      BY <3>1, <3>2 DEF EffectInv, laneVars, Blocked
  <2>2. CASE RefuseReplay(c) \/ Collect(c)
    <3>1. /\ Leave(c) /\ disk' = disk /\ UNCHANGED laneVars
          /\ phase[c] \in {"locked", "stranded"}
      BY <1>2, <2>2 DEF BeginStep, RefuseReplay, Collect
    <3>2. ASSUME NEW d \in Caller, d # c PROVE Aware(d)'
      BY <3>1, <3>2, Others DEF Leave, laneVars, TypeInv, TypeOK, JournalTypeOK
    <3>3. Aware(c)'
      BY <3>1 DEF Leave, laneVars, TypeInv, TypeOK, JournalTypeOK, EffectInv, Aware
    <3> QED
      BY <3>1, <3>2, <3>3 DEF EffectInv, laneVars
  <2>3. CASE Admit(c)
    <3>1. /\ phase[c] = "locked" /\ phase'[c] = "admitted" /\ effects = {}
          /\ UNCHANGED <<disk, laneVars>>
      BY <1>2, <2>3 DEF BeginStep, Admit, Enter, EffectInv, TypeInv, TypeOK, JournalTypeOK
    <3>2. ASSUME NEW d \in Caller, d # c PROVE Aware(d)'
      BY <2>3, <3>1, <3>2, Others DEF Admit, Enter, laneVars, TypeInv, TypeOK, JournalTypeOK
    <3>3. Aware(c)'
      BY <3>1 DEF EffectInv, Aware, laneVars
    <3> QED
      BY <3>1, <3>2, <3>3 DEF EffectInv, laneVars
  <2>4. CASE WriteNew(c)
    <3>1. /\ phase[c] = "admitted" /\ phase'[c] \in {"open", "idle"} /\ effects = {}
          /\ UNCHANGED laneVars /\ at[c] = "created" /\ ~started[c]
      BY <1>2, <2>4 DEF BeginStep, WriteNew, Enter, Leave, EffectInv, Aware,
         TypeInv, TypeOK, JournalTypeOK
    <3>2. ASSUME NEW d \in Caller, d # c PROVE Aware(d)'
      BY <2>4, <3>1, <3>2, Others DEF WriteNew, Enter, Leave, laneVars,
         TypeInv, TypeOK, JournalTypeOK
    <3>3. Aware(c)'
      BY <3>1 DEF Aware, laneVars
    <3> QED
      BY <3>1, <3>2, <3>3 DEF EffectInv, laneVars
  <2> QED
    BY <1>2, <2>1, <2>2, <2>3, <2>4 DEF BeginStep, Begin
<1>3. ASSUME NEW c \in Caller, Run(c) PROVE EffectInv'
  <2>1. CASE MoveCreated(c)
    <3>1. PICK ok \in BOOLEAN : /\ Checkpoint(c, "preparing", FALSE, ok)
                               /\ Goto(c, IF ok THEN "validation" ELSE "abort")
      BY <2>1 DEF MoveCreated
    <3>2. at[c] = "created" /\ UNCHANGED <<raw, started, effects>>
      BY <2>1 DEF MoveCreated
    <3>3. /\ phase[c] = "open" /\ phase' = phase
          /\ effects' # {} => Blocked(disk')
      BY <3>1, <3>2, CheckpointEffect DEF Status
    <3>4. at'[c] \in {"validation", "abort"} /\ \A d \in Caller \ {c} : at'[d] = at[d]
      BY <3>1 DEF Goto, TypeInv, TypeOK
    <3>5. ASSUME NEW d \in Caller, d # c PROVE Aware(d)'
      BY <3>2, <3>3, <3>4, <3>5, Others
    <3>6. Aware(c)'
      BY <3>2, <3>3, <3>4 DEF EffectInv, Aware, BeforeAdapter
    <3> QED
      BY <3>3, <3>5, <3>6 DEF EffectInv
  <2>2. CASE MoveValidating(c)
    BY <2>2, MoveEffect DEF MoveValidating, Status, BeforeAdapter
  <2>3. CASE Invalid(c) \/ AdapterEnds(c) \/ AdapterRaises(c)
    <3>1. /\ phase[c] = "open" /\ at[c] \in {"routing", "adapting"}
          /\ UNCHANGED <<journalVars, started, effects>>
      BY <2>3 DEF Invalid, AdapterEnds, AdapterRaises
    <3>2. PICK result : /\ raw' = [raw EXCEPT ![c] = result]
                        /\ effects # {} => ~ReplayAllowed(FromMapping(result))
                        /\ Goto(c, "artifact") \/ Goto(c, "terminal")
      <4>1. CASE Invalid(c)
        BY <4>1, MadeUp DEF Invalid, Fail
      <4>2. CASE AdapterEnds(c)
        BY <4>2, <3>1 DEF AdapterEnds, HonestAdapter, EffectInv, Aware
      <4>3. CASE AdapterRaises(c)
        BY <4>3, <3>1, MadeUp DEF AdapterRaises, Fail, HonestAdapter, EffectInv, Aware
      <4> QED
        BY <2>3, <4>1, <4>2, <4>3
    <3>3. /\ at'[c] \in {"artifact", "terminal"} /\ raw'[c] = result
          /\ \A d \in Caller \ {c} : at'[d] = at[d]
      BY <3>2 DEF Goto, TypeInv, TypeOK
    <3>4. ASSUME NEW d \in Caller, d # c PROVE Aware(d)'
      BY <3>1, <3>3, <3>4, Others DEF journalVars
    <3>5. Aware(c)'
      BY <3>1, <3>2, <3>3 DEF journalVars, EffectInv, Aware, BeforeAdapter
    <3> QED
      BY <3>1, <3>4, <3>5 DEF journalVars, EffectInv, Blocked
  <2>4. CASE MoveRouting(c)
    BY <2>4, MoveEffect DEF MoveRouting, Status, BeforeAdapter
  <2>5. CASE MoveAdapter(c)
    BY <2>5, MoveEffect DEF MoveAdapter, Status, BeforeAdapter
  <2>6. CASE MoveArtifact(c)
    BY <2>6, MoveEffect DEF MoveArtifact, Status, BeforeAdapter
  <2>7. CASE MoveTerminal(c)
    <3> DEFINE out == FromMapping(raw[c])
               status == IF out.status \in {"completed", "failed", "cancelled", "unknown", "timed_out"}
                         THEN out.status ELSE IF out.ok THEN "completed" ELSE "failed"
    <3>1. PICK ok \in BOOLEAN : /\ Checkpoint(c, status, out.ok \/ raw[c].effect, ok)
                               /\ Goto(c, IF ok THEN "finish" ELSE "abort")
      BY <2>7 DEF MoveTerminal
    <3>2. at[c] = "terminal" /\ raw[c] \in Raw /\ UNCHANGED <<started, effects>>
      BY <2>7 DEF MoveTerminal, TypeInv, TypeOK
    <3>3. raw'[c] = ToDict(out, raw[c])
      BY <2>7 DEF MoveTerminal, TypeInv, TypeOK
    <3>4. out \in Outcome
      BY <3>2, FromMappingType
    <3>5. status \in Status /\ (out.ok \/ raw[c].effect) \in BOOLEAN
      BY <3>4 DEF Status, Outcome
    <3>6. ~ReplayAllowed(out) => ~ReplayAllowed(FromMapping(raw'[c]))
      BY <3>2, <3>3, RoundTrip
    <3> HIDE DEF status
    <3>7. /\ phase[c] = "open" /\ phase' = phase
          /\ mem'[c].attempt = mem[c].attempt
          /\ mem[c].side => mem'[c].side
          /\ effects' # {} => Blocked(disk')
      BY <3>1, <3>2, <3>5, CheckpointEffect
    <3>8. at'[c] \in {"finish", "abort"} /\ \A d \in Caller \ {c} : at'[d] = at[d]
      BY <3>1 DEF Goto, TypeInv, TypeOK
    <3>9. ASSUME NEW d \in Caller, d # c PROVE Aware(d)'
      BY <3>2, <3>7, <3>8, <3>9, Others
    <3>10. Aware(c)'
      BY <3>2, <3>6, <3>7, <3>8 DEF EffectInv, Aware, BeforeAdapter
    <3> QED
      BY <3>7, <3>9, <3>10 DEF EffectInv
  <2>8. CASE FinishCall(c)
    <3> DEFINE rec == WithOutcome(mem[c], FromMapping(raw[c]))
    <3>1. phase[c] = "open" /\ at[c] = "finish" /\ mem[c] \in Record /\ raw[c] \in Raw
      BY <2>8 DEF FinishCall, Finish, TypeInv, TypeOK, MemInv
    <3>2. /\ rec \in Record /\ rec.attempt = mem[c].attempt
          /\ effects # {} => Blocked(rec)
      BY <3>1, FromMappingType, OutcomeWritten, RecordBlocks DEF EffectInv, Aware
    <3>3. CASE Finish(c, raw[c], TRUE) /\ Forget(c)
      BY <3>1, <3>2, <3>3, LeaveEffect DEF Finish
    <3>4. CASE Finish(c, raw[c], FALSE) /\ Goto(c, "abort") /\ UNCHANGED <<raw, started, effects>>
      <4>1. /\ mem'[c] = rec /\ UNCHANGED <<disk, phase>> /\ at'[c] = "abort"
            /\ \A d \in Caller \ {c} : at'[d] = at[d]
        BY <3>4 DEF Finish, Goto, TypeInv, TypeOK, JournalTypeOK
      <4>2. ASSUME NEW d \in Caller, d # c PROVE Aware(d)'
        BY <3>1, <3>4, <4>1, <4>2, Others
      <4>3. Aware(c)'
        BY <3>1, <3>2, <3>4, <4>1 DEF EffectInv, Aware, BeforeAdapter
      <4> QED
        BY <3>4, <4>1, <4>2, <4>3 DEF EffectInv, Blocked
    <3> QED
      BY <2>8, <3>3, <3>4 DEF FinishCall
  <2>9. CASE Abort(c)
    <3>1. PICK ok \in BOOLEAN : FailUnknown(c, ok)
      BY <2>9 DEF Abort
    <3>2. Forget(c) /\ phase[c] = "open" /\ mem[c] \in Record
      BY <2>9, <3>1 DEF Abort, FailUnknown, TypeInv, MemInv
    <3>3. CASE ok
      <4>1. WithOutcome(mem[c], Uncertain) \in Record /\ WithOutcome(mem[c], Uncertain).side
        BY <3>2 DEF WithOutcome, Uncertain, Record, Status
      <4>2. Blocked(WithOutcome(mem[c], Uncertain))
        BY <4>1, RecordBlocks
      <4> QED
        BY <3>1, <3>2, <3>3, <4>2, LeaveEffect DEF FailUnknown
    <3>4. CASE ~ok
      <4>1. /\ phase'[c] = "stranded" /\ disk' = disk /\ effects' = effects
            /\ at'[c] = "created" /\ started'[c] = FALSE
            /\ \A d \in Caller \ {c} : /\ phase'[d] = phase[d] /\ at'[d] = at[d]
                                       /\ started'[d] = started[d]
        BY <3>1, <3>2, <3>4 DEF FailUnknown, Enter, Forget, Goto, TypeInv, TypeOK, JournalTypeOK
      <4>2. ASSUME NEW d \in Caller, d # c PROVE Aware(d)'
        BY <3>2, <4>1, <4>2, Others
      <4>3. Aware(c)'
        BY <4>1 DEF Aware
      <4> QED
        BY <4>1, <4>2, <4>3 DEF EffectInv, Blocked
    <3> QED
      BY <3>3, <3>4
  <2> QED
    BY <1>3, <2>1, <2>2, <2>3, <2>4, <2>5, <2>6, <2>7, <2>8, <2>9 DEF Run
<1>4. ASSUME NEW c \in Caller, StartEffect(c) PROVE EffectInv'
  <2>1. /\ phase[c] = "open" /\ at[c] = "adapting" /\ UNCHANGED <<journalVars, at, raw>>
        /\ started'[c] = TRUE /\ effects' = effects \cup {mem[c].attempt}
    BY <1>4 DEF StartEffect, TypeInv, TypeOK
  <2>2. ASSUME NEW d \in Caller, d # c PROVE Aware(d)'
    BY <1>4, <2>1, <2>2, Others DEF StartEffect, journalVars, TypeInv, TypeOK
  <2>3. Aware(c)' /\ Blocked(disk)'
    BY <2>1 DEF EffectInv, Aware, journalVars, BeforeAdapter, Blocked
  <2> QED
    BY <2>2, <2>3 DEF EffectInv
<1>5. ASSUME NEW c \in Caller, Crash(c) PROVE EffectInv'
  BY <1>5, LeaveEffect DEF Crash, Die, EffectInv, Blocked
<1>6. CASE DamageFile
  BY <1>6 DEF DamageFile, Damage, EffectInv, Aware, Blocked, laneVars
<1>7. CASE UNCHANGED vars
  BY <1>7 DEF vars, journalVars, laneVars, EffectInv, Aware, Blocked
<1>8. ASSUME NEW c \in Caller, AdapterProgress(c) PROVE EffectInv'
  <2>1. PICK status \in {"running", "completed", "failed"} :
          \/ Checkpoint(c, status, TRUE, TRUE) /\ UNCHANGED <<at, raw>>
          \/ /\ Checkpoint(c, status, TRUE, FALSE)
             /\ \E result \in {r \in Results[started[c]] : ~r.ok} : Fail(c, result)
    BY <1>8 DEF AdapterProgress
  <2>2. at[c] = "adapting" /\ UNCHANGED <<started, effects>>
    BY <1>8 DEF AdapterProgress
  <2>3. /\ phase[c] = "open" /\ phase' = phase
        /\ mem'[c].attempt = mem[c].attempt
        /\ mem'[c].side
        /\ effects' # {} => Blocked(disk')
    BY <2>1, <2>2, CheckpointEffect DEF Status
  <2>4. \A d \in Caller \ {c} : at'[d] = at[d]
    BY <2>1 DEF Fail, Goto, TypeInv, TypeOK
  <2>5. ASSUME NEW d \in Caller, d # c PROVE Aware(d)'
    BY <2>2, <2>3, <2>4, <2>5, Others
  <2>6. CASE Checkpoint(c, status, TRUE, TRUE) /\ UNCHANGED <<at, raw>>
    <3>1. Blocked(disk')
      BY <2>2, <2>6, CheckpointEffect DEF Status
    <3>2. Aware(c)'
      BY <2>2, <2>3, <2>6, <3>1 DEF EffectInv, Aware, BeforeAdapter
    <3> QED
      BY <2>5, <3>1, <3>2 DEF EffectInv
  <2>7. CASE \E result \in {r \in Results[started[c]] : ~r.ok} : Fail(c, result)
    <3>1. PICK result \in Results[started[c]] : Fail(c, result)
      BY <2>7
    <3>2. at'[c] = "terminal" /\ raw'[c] = result
      BY <3>1 DEF Fail, Goto, TypeInv, TypeOK
    <3>3. effects' # {} => ~ReplayAllowed(FromMapping(result))
      BY <2>2, <2>3, <3>1 DEF HonestAdapter, EffectInv, Aware
    <3>4. Aware(c)'
      BY <2>2, <2>3, <3>2, <3>3 DEF EffectInv, Aware, BeforeAdapter
    <3> QED
      BY <2>3, <2>5, <3>4 DEF EffectInv
  <2> QED
    BY <2>1, <2>6, <2>7
<1> QED
  BY <1>1, <1>2, <1>3, <1>4, <1>5, <1>6, <1>7, <1>8 DEF Next

LEMMA EffectInit == Init => GateInv /\ EffectInv /\ AtMostOneEffect
  BY JournalAssumption DEF Init, JournalInit, GateInv, EffectInv, Aware, BeforeAdapter,
     AtMostOneEffect

(* The inductive invariant: whoever is inside an operation is alone, and the file
   and everybody inside it agree on what has started, whatever calls, retries,
   crashes, failed writes and damaged files happen. *)
THEOREM InsideAgrees == ASSUME HonestAdapter PROVE Spec => []IInv
<1> USE DEF IInv, Safe, TypeInv
<1>1. Init => IInv
  BY TypeInit, EffectInit
<1>2. IInv /\ [Next]_vars => IInv'
  <2> SUFFICES ASSUME IInv, [Next]_vars PROVE IInv'
    OBVIOUS
  <2>1. Safe' /\ EffectInv'
    BY TypeNext, GateNext, EffectNext, HonestAdapter
  <2>2. UNCHANGED effects \/ \E c \in Caller : StartEffect(c)
    BY DEF Next, vars, laneVars, StartCall, BeginStep, Run, AdapterProgress, Crash, DamageFile,
       MoveCreated, MoveValidating, Invalid, MoveRouting, MoveAdapter, Move, AdapterEnds,
       AdapterRaises, MoveArtifact, MoveTerminal, FinishCall, Abort, Forget
  <2>3. ASSUME NEW c \in Caller, StartEffect(c) PROVE AtMostOneEffect'
    <3>1. effects \subseteq {mem[c].attempt} /\ effects' = effects \cup {mem[c].attempt}
      BY <2>3 DEF StartEffect, EffectInv, Aware
    <3> QED
      BY <3>1 DEF AtMostOneEffect
  <2> QED
    BY <2>1, <2>2, <2>3 DEF AtMostOneEffect
<1> QED
  BY <1>1, <1>2, PTL DEF Spec

(* At most one attempt of an idempotency key ever starts a side effect at the
   provider, whatever calls, retries, crashes, failed writes and damaged files
   happen, provided an adapter ends a started side effect in a result that is
   not replayable.  The guard of begin() is safe only because every caller
   inside an operation and the file agree on what has started (EffectInv), and
   they agree only because nobody else is inside (GateInv). *)
THEOREM NoBlindReplay == ASSUME HonestAdapter PROVE Spec => []AtMostOneEffect
<1>1. IInv => AtMostOneEffect
  BY DEF IInv
<1> QED
  BY <1>1, InsideAgrees, PTL

-----------------------------------------------------------------------------
\* A rewrite of the record by the caller inside keeps its attempt number.
LEMMA RewriteKeepsAttempt ==
  ASSUME Safe, OneWriter, NEW c \in Caller, NEW status \in Status, NEW side \in BOOLEAN,
         NEW ok \in BOOLEAN, Checkpoint(c, status, side, ok)
  PROVE  OneWriter'
<1> DEFINE rec == [mem[c] EXCEPT !.status = status, !.side = @ \/ side]
<1>1. phase[c] = "open" /\ phase' = phase /\ mem[c] \in Record
  BY DEF Checkpoint, Safe, TypeInv, MemInv
<1>2. rec \in Record /\ rec.attempt = mem[c].attempt
  BY <1>1 DEF Record
<1>3. rec # NoRecord
  BY <1>2, JournalAssumption
<1>4. mem' = [mem EXCEPT ![c] = rec] /\ disk' = IF ok THEN rec ELSE disk
  BY DEF Checkpoint
<1> HIDE DEF rec
<1>5. mem'[c] = rec
  BY <1>4 DEF Safe, TypeInv, TypeOK, JournalTypeOK
<1>6. \A d \in Caller : phase[d] = "open" => d = c
  BY <1>1, Alone DEF Safe
<1> QED
  BY <1>1, <1>2, <1>3, <1>4, <1>5, <1>6 DEF OneWriter

LEMMA MoveWrites ==
  ASSUME Safe, OneWriter, NEW c \in Caller, NEW from, NEW next, NEW status \in Status,
         NEW side \in BOOLEAN, Move(c, from, next, status, side)
  PROVE  OneWriter'
  BY RewriteKeepsAttempt DEF Move

\* Steps that leave the file alone and open no operation keep OneWriter.
LEMMA NoWrite ==
  ASSUME OneWriter, disk' = disk,
         \A c \in Caller : phase'[c] = "open" => phase[c] = "open" /\ mem'[c] = mem[c]
  PROVE  OneWriter'
  BY DEF OneWriter

LEMMA WriterNext == Safe /\ OneWriter /\ [Next]_vars => OneWriter'
<1> SUFFICES ASSUME Safe, OneWriter, [Next]_vars PROVE OneWriter'
  OBVIOUS
<1> USE DEF Safe, TypeInv, TypeOK, JournalTypeOK
<1>1. ASSUME NEW c \in Caller, StartCall(c) PROVE OneWriter'
  BY <1>1, NoWrite DEF StartCall, Call, Enter
<1>2. ASSUME NEW c \in Caller, BeginStep(c) PROVE OneWriter'
  <2>1. CASE Acquire(c) \/ GateTimesOut(c) \/ RefuseBusy(c)
    BY <2>1, NoWrite DEF Acquire, GateTimesOut, RefuseBusy, Enter
  <2>2. CASE RefuseReplay(c) \/ Collect(c)
    BY <2>2, NoWrite DEF RefuseReplay, Collect, Leave
  <2>3. CASE Admit(c)
    BY <2>3, NoWrite DEF Admit, Enter
  <2>4. CASE WriteNew(c)
    <3>1. phase[c] = "admitted" /\ mem[c] \in Record /\ mem[c] # NoRecord
      BY <2>4, JournalAssumption DEF WriteNew, MemInv
    <3>2. \A d \in Caller : phase[d] = "open" => d = c
      BY <3>1, Alone
    <3> QED
      BY <2>4, <3>1, <3>2 DEF WriteNew, Enter, Leave, OneWriter
  <2> QED
    BY <1>2, <2>1, <2>2, <2>3, <2>4 DEF BeginStep, Begin
<1>3. ASSUME NEW c \in Caller, Run(c) PROVE OneWriter'
  <2>1. CASE MoveCreated(c)
    BY <2>1, RewriteKeepsAttempt DEF MoveCreated, Status
  <2>2. CASE MoveValidating(c) \/ MoveRouting(c) \/ MoveAdapter(c) \/ MoveArtifact(c)
    BY <2>2, MoveWrites DEF MoveValidating, MoveRouting, MoveAdapter, MoveArtifact, Status
  <2>3. CASE Invalid(c) \/ AdapterEnds(c) \/ AdapterRaises(c)
    BY <2>3, NoWrite DEF Invalid, AdapterEnds, AdapterRaises, journalVars
  <2>4. CASE MoveTerminal(c)
    <3> DEFINE out == FromMapping(raw[c])
               status == IF out.status \in {"completed", "failed", "cancelled", "unknown", "timed_out"}
                         THEN out.status ELSE IF out.ok THEN "completed" ELSE "failed"
    <3>1. PICK ok \in BOOLEAN : Checkpoint(c, status, out.ok \/ raw[c].effect, ok)
      BY <2>4 DEF MoveTerminal
    <3>2. out \in Outcome
      BY FromMappingType
    <3>3. status \in Status /\ (out.ok \/ raw[c].effect) \in BOOLEAN
      BY <3>2 DEF Status, Outcome
    <3> QED
      BY <3>1, <3>3, RewriteKeepsAttempt
  <2>5. CASE FinishCall(c)
    <3> DEFINE rec == WithOutcome(mem[c], FromMapping(raw[c]))
    <3>1. phase[c] = "open" /\ mem[c] \in Record
      BY <2>5 DEF FinishCall, Finish, MemInv
    <3>2. rec.attempt = mem[c].attempt
      BY <3>1, FromMappingType, OutcomeWritten
    <3>3. \A d \in Caller : phase[d] = "open" => d = c
      BY <3>1, Alone
    <3> QED
      BY <2>5, <3>1, <3>2, <3>3 DEF FinishCall, Finish, Leave, OneWriter
  <2>6. CASE Abort(c)
    <3>1. phase[c] = "open"
      BY <2>6 DEF Abort, FailUnknown
    <3>2. \A d \in Caller : phase[d] = "open" => d = c
      BY <3>1, Alone
    <3> QED
      BY <2>6, <3>1, <3>2 DEF Abort, FailUnknown, Leave, Enter, OneWriter
  <2> QED
    BY <1>3, <2>1, <2>2, <2>3, <2>4, <2>5, <2>6 DEF Run
<1>4. ASSUME NEW c \in Caller, StartEffect(c) PROVE OneWriter'
  BY <1>4, NoWrite DEF StartEffect, journalVars
<1>5. ASSUME NEW c \in Caller, Crash(c) PROVE OneWriter'
  BY <1>5, NoWrite DEF Crash, Die, Leave
<1>6. CASE DamageFile
  BY <1>6 DEF DamageFile, Damage, OneWriter
<1>7. CASE UNCHANGED vars
  BY <1>7 DEF vars, journalVars, OneWriter
<1>8. ASSUME NEW c \in Caller, AdapterProgress(c) PROVE OneWriter'
  BY <1>8, RewriteKeepsAttempt DEF AdapterProgress, Status
<1> QED
  BY <1>1, <1>2, <1>3, <1>4, <1>5, <1>6, <1>7, <1>8 DEF Next

(* The record on disk is always the record of the operation that is open: no
   second caller, timed out, refused or crashed, ever writes over it. *)
THEOREM SingleWriter == Spec => []OneWriter
<1>1. Init => Safe /\ OneWriter
  BY TypeInit, EffectInit DEF Safe, Init, JournalInit, OneWriter
<1>2. Safe /\ OneWriter /\ [Next]_vars => Safe' /\ OneWriter'
  BY TypeNext, GateNext, WriterNext DEF Safe
<1> QED
  BY <1>1, <1>2, PTL DEF Spec

LEMMA FinalNext ==
  ASSUME TypeInv, Final, [Next]_vars
  PROVE  Final' /\ disk' \in {disk, Unreadable}
<1> USE DEF TypeInv, TypeOK, JournalTypeOK
<1>1. ASSUME disk' \in {disk, Unreadable},
             \A d \in Caller : phase'[d] = phase[d] \/ phase'[d] \notin {"admitted", "open"}
      PROVE  Final' /\ disk' \in {disk, Unreadable}
  BY <1>1 DEF Final, Blocked
<1>2. \A c \in Caller : phase[c] \notin {"admitted", "open"} /\ ~Admit(c)
  BY DEF Final, Admit
<1>3. ASSUME NEW c \in Caller, StartCall(c) PROVE Final' /\ disk' \in {disk, Unreadable}
  BY <1>1, <1>3 DEF StartCall, Call, Enter
<1>4. ASSUME NEW c \in Caller, BeginStep(c) PROVE Final' /\ disk' \in {disk, Unreadable}
  BY <1>1, <1>2, <1>4 DEF BeginStep, Begin, Acquire, GateTimesOut, RefuseBusy, RefuseReplay,
     WriteNew, Collect, Enter, Leave
<1>5. ASSUME NEW c \in Caller, Run(c) \/ AdapterProgress(c) \/ StartEffect(c) PROVE FALSE
  BY <1>2, <1>5 DEF Run, MoveCreated, MoveValidating, Invalid, MoveRouting, MoveAdapter, Move,
     AdapterEnds, AdapterRaises, MoveArtifact, MoveTerminal, FinishCall, Abort, AdapterProgress,
     StartEffect, Checkpoint, Finish, FailUnknown
<1>6. ASSUME NEW c \in Caller, Crash(c) PROVE Final' /\ disk' \in {disk, Unreadable}
  BY <1>1, <1>6 DEF Crash, Die, Leave
<1>7. CASE DamageFile
  BY <1>1, <1>7 DEF DamageFile, Damage
<1>8. CASE UNCHANGED vars
  BY <1>1, <1>8 DEF vars, journalVars
<1> QED
  BY <1>3, <1>4, <1>5, <1>6, <1>7, <1>8 DEF Next

(* Once the record of a closed operation forbids the replay, no call changes
   it or is admitted on it, for ever; only outside damage, which forbids the
   replay as well. *)
THEOREM FinalForEver == Spec => FinalRecordKept
<1>1. Init => TypeInv
  BY TypeInit
<1>2. TypeInv /\ [Next]_vars => TypeInv' /\ [Final => Final' /\ disk' \in {disk, Unreadable}]_vars
  BY TypeNext, FinalNext
<1> QED
  BY <1>1, <1>2, PTL DEF Spec, FinalRecordKept
-----------------------------------------------------------------------------
Inside == \E c \in Caller : phase[c] \in {"admitted", "open"}

\* A record at rest closes the key exactly when it blocks the next call.
RestOK ==
  /\ Blocked(disk) => AtRest \in {"completed", "failed", "uncertain"}
  /\ ~Blocked(disk) => AtRest \in {"fresh", "again"}

(* The mapping reads every record of its type that way. *)
LEMMA RestIsClosed == TypeOK => RestOK
<1> SUFFICES ASSUME TypeOK PROVE RestOK
  OBVIOUS
<1> USE DEF RestOK
<1>1. CASE disk = NoRecord
  BY <1>1, JournalAssumption DEF AtRest, Blocked
<1>2. CASE disk = Unreadable
  BY <1>2, JournalAssumption DEF AtRest, Blocked
<1>3. CASE disk \notin {NoRecord, Unreadable}
  BY <1>3 DEF AtRest, Blocked
<1> QED
  BY <1>1, <1>2, <1>3

(* With nobody inside an operation no step has a side effect; the record stays
   or is damaged unless it admits somebody, which a blocked record does not. *)
LEMMA QuietStep ==
  ASSUME TypeInv, ~Inside, [Next]_vars
  PROVE  /\ effects' = effects
         /\ Inside' => ~Blocked(disk)
         /\ ~Inside' => disk' \in {disk, Unreadable}
<1> USE DEF TypeInv, TypeOK, JournalTypeOK, Inside
<1>1. ASSUME NEW c \in Caller, StartCall(c)
      PROVE  effects' = effects /\ ~Inside' /\ disk' = disk
  BY <1>1 DEF StartCall, Call, Enter, laneVars
<1>2. ASSUME NEW c \in Caller, BeginStep(c), ~Admit(c)
      PROVE  effects' = effects /\ ~Inside' /\ disk' = disk
  BY <1>2 DEF BeginStep, Begin, Acquire, GateTimesOut, RefuseBusy, RefuseReplay,
     WriteNew, Collect, Enter, Leave, laneVars
<1>3. ASSUME NEW c \in Caller, BeginStep(c), Admit(c)
      PROVE  effects' = effects /\ ~Blocked(disk) /\ disk' = disk
  BY <1>3 DEF BeginStep, Admit, laneVars
<1>4. ASSUME NEW c \in Caller, Run(c) \/ AdapterProgress(c) \/ StartEffect(c) PROVE FALSE
  BY <1>4 DEF Run, MoveCreated, MoveValidating, Invalid, MoveRouting, MoveAdapter, Move,
     AdapterEnds, AdapterRaises, MoveArtifact, MoveTerminal, FinishCall, Abort, AdapterProgress,
     StartEffect, Checkpoint, Finish, FailUnknown
<1>5. ASSUME NEW c \in Caller, Crash(c)
      PROVE  effects' = effects /\ ~Inside' /\ disk' = disk
  BY <1>5 DEF Crash, Die, Leave, Forget
<1>6. CASE DamageFile
  BY <1>6 DEF DamageFile, Damage, laneVars
<1>7. CASE UNCHANGED vars
  BY <1>7 DEF vars, journalVars, laneVars
<1> QED
  BY <1>1, <1>2, <1>3, <1>4, <1>5, <1>6, <1>7 DEF Next

(* A side effect starts while its operation is open and stays open; no step
   forgets one. *)
LEMMA EffectsGrow ==
  ASSUME [Next]_vars
  PROVE  effects' = effects \/ (effects \subseteq effects' /\ phase' = phase)
<1>1. ASSUME NEW c \in Caller, BeginStep(c) \/ StartCall(c) \/ AdapterProgress(c) \/ Crash(c)
      PROVE  effects' = effects
  BY <1>1 DEF StartCall, BeginStep, AdapterProgress, Crash, Forget, laneVars
<1>2. ASSUME NEW c \in Caller, Run(c)
      PROVE  effects' = effects
  BY <1>2 DEF Run, MoveCreated, MoveValidating, Invalid, MoveRouting, MoveAdapter, Move,
     AdapterEnds, AdapterRaises, MoveArtifact, MoveTerminal, FinishCall, Abort, Forget
<1>3. ASSUME NEW c \in Caller, StartEffect(c)
      PROVE  effects \subseteq effects' /\ phase' = phase
  BY <1>3 DEF StartEffect, journalVars
<1>4. CASE DamageFile
  BY <1>4 DEF DamageFile, laneVars
<1>5. CASE UNCHANGED vars
  BY <1>5 DEF vars, laneVars
<1> QED
  BY <1>1, <1>2, <1>3, <1>4, <1>5 DEF Next

LEMMA KeyInit == Init => Key!Init
  BY JournalAssumption DEF Init, JournalInit, Key!Init, KeyState, AtRest

LEMMA KeyNext ==
  ASSUME Safe, EffectInv, TypeInv', EffectInv', [Next]_vars
  PROVE  [Key!Next]_<<KeyState, effects # {}>>
<1> USE DEF Safe, Key!Reopenable, Key!Closed
<1>1. /\ Inside => KeyState = "open"
      /\ ~Inside => KeyState = AtRest
      /\ Inside' => KeyState' = "open"
      /\ ~Inside' => KeyState' = AtRest'
  BY DEF Inside, KeyState
<1>2. /\ Blocked(disk) => AtRest \in {"completed", "failed", "uncertain"}
      /\ ~Blocked(disk) => AtRest \in {"fresh", "again"}
  BY RestIsClosed DEF TypeInv, RestOK
<1>3. /\ Blocked(disk)' => AtRest' \in {"completed", "failed", "uncertain"}
      /\ ~Blocked(disk)' => AtRest' \in {"fresh", "again"}
  <2>1. TypeOK'
    BY DEF TypeInv
  <2>2. RestOK'
    BY <2>1, RestIsClosed, PTL
  <2> QED
    BY <2>2 DEF RestOK
<1>4. CASE ~Inside /\ ~Inside'
  <2>1. effects' = effects /\ disk' \in {disk, Unreadable}
    BY <1>4, QuietStep
  <2>2. CASE disk' = disk
    BY <1>1, <1>4, <2>1, <2>2 DEF AtRest
  <2>3. CASE disk' = Unreadable
    <3>1. AtRest' = "uncertain"
      BY <2>3, JournalAssumption DEF AtRest
    <3> QED
      BY <1>1, <1>2, <1>4, <2>1, <3>1 DEF Key!Next, Key!Spoil
  <2> QED
    BY <2>1, <2>2, <2>3
<1>5. CASE ~Inside /\ Inside'
  <2>1. effects' = effects /\ ~Blocked(disk)
    BY <1>5, QuietStep
  <2> QED
    BY <1>1, <1>2, <1>5, <2>1 DEF Key!Next, Key!Admit
<1>6. CASE Inside /\ ~Inside'
  <2>1. effects' = effects
    BY <1>6, EffectsGrow DEF Inside
  <2>2. effects # {} => Blocked(disk)'
    BY <2>1 DEF EffectInv
  <2> QED
    BY <1>1, <1>3, <1>6, <2>1, <2>2 DEF Key!Next, Key!End, Key!Left
<1>7. CASE Inside /\ Inside'
  <2>1. effects \subseteq effects'
    BY EffectsGrow
  <2> QED
    BY <1>1, <1>7, <2>1 DEF Key!Next, Key!Act
<1> QED
  BY <1>4, <1>5, <1>6, <1>7

(* The lane implements AtMostOnce for every number of callers and calls, with
   any adapter that is honest about a side effect it has started. *)
THEOREM LaneIsAtMostOnce == ASSUME HonestAdapter PROVE Spec => ImplementsAtMostOnce
<1> DEFINE Inv == Safe /\ EffectInv
<1>1. Init => Inv /\ Key!Init
  BY TypeInit, EffectInit, KeyInit DEF Safe
<1>2. Inv /\ [Next]_vars => Inv'
  BY TypeNext, GateNext, EffectNext DEF Safe
<1>3. Inv /\ [Next]_vars => [Key!Next]_<<KeyState, effects # {}>>
  <2> SUFFICES ASSUME Inv, [Next]_vars PROVE [Key!Next]_<<KeyState, effects # {}>>
    OBVIOUS
  <2>1. Inv'
    BY <1>2
  <2> QED
    BY <2>1, KeyNext DEF Safe
<1> QED
  BY <1>1, <1>2, <1>3, PTL DEF Spec, ImplementsAtMostOnce, Key!Spec
-----------------------------------------------------------------------------
\* The reading of a result is settled: not that of a run still under way, and
\* one at a step in flight is not marked retryable.
Settled(out) ==
  /\ out.status # "running"
  /\ out.status \in {"preparing", "extracting", "processing"} => ~out.retry

\* What an adapter owes the batch: every result it hands over is settled.
SettledAdapter == \A s \in BOOLEAN : \A r \in Results[s] : Settled(FromMapping(r))

(* The retry decision of the batch and the replay decision of the journal are
   the same decision on every settled result. *)
LEMMA DecisionsAgree ==
  ASSUME NEW r \in Raw, Settled(FromMapping(r))
  PROVE  RetryAllowed(r) <=> ReplayAllowed(FromMapping(r))
<1> DEFINE out == FromMapping(r)
<1>1. out \in Outcome
  BY FromMappingType
<1>2. out.retry => /\ ~(out.ok \/ out.side \/ out.recon)
                   /\ out.status \notin {"unknown", "cancelled", "completed"}
  BY DEF FromMapping
<1> HIDE DEF out
<1>3. (~out.ok /\ out.retry) <=> ReplayAllowed(out)
  BY <1>1, <1>2 DEF ReplayAllowed, Settled, Outcome, Status, out
<1> QED
  BY <1>3 DEF RetryAllowed, out

(* Without that condition they are not: a result at a step in flight that is
   marked retryable is retried by the batch and refused by the journal. *)
LEMMA DecisionsDisagree ==
  ASSUME NEW r \in Raw, RetryAllowed(r),
         FromMapping(r).status \in {"preparing", "extracting", "processing"}
  PROVE  ~ReplayAllowed(FromMapping(r))
  BY DEF RetryAllowed, ReplayAllowed

(* Whatever a refused caller is told, it is never told to retry: the conflict
   result of every record, the made up ones included, forbids it. *)
LEMMA RefusedIsNotRetried ==
  ASSUME NEW rec, rec.side \in BOOLEAN
  PROVE  ~ConflictResult(rec).retry /\ ~ConflictResult(rec).ok
  BY DEF ConflictResult

\* The results the executor makes up itself are settled.
LEMMA MadeUpSettled == Settled(FromMapping(Failure)) /\ Settled(FromMapping(Cancelled))
  BY DEF Failure, Cancelled, NoResult, FromMapping, Settled

\* A result on its way to finish() is settled.
ResultInv ==
  \A c \in Caller : at[c] \in {"artifact", "terminal", "finish"} => Settled(FromMapping(raw[c]))

\* Steps that carry no result on keep ResultInv.
LEMMA NotCarried ==
  ASSUME ResultInv,
         \A c \in Caller : at'[c] \in {"artifact", "terminal", "finish"} =>
           /\ at[c] \in {"artifact", "terminal", "finish"}
           /\ raw'[c] = raw[c]
  PROVE  ResultInv'
  BY DEF ResultInv

\* A move before the adapter, and the one after it, carry a settled result.
LEMMA MoveSettled ==
  ASSUME TypeInv, ResultInv, NEW c \in Caller, NEW from, NEW next, NEW status,
         NEW side, Move(c, from, next, status, side),
         next \in {"artifact", "terminal", "finish"} => from \in {"artifact", "terminal", "finish"}
  PROVE  ResultInv'
<1> USE DEF TypeInv, TypeOK
<1>1. CASE Goto(c, next) /\ raw' = raw
  BY <1>1 DEF Goto, ResultInv, Move
<1>2. CASE Fail(c, Failure)
  BY <1>2, MadeUpSettled DEF Fail, Goto, ResultInv
<1> QED
  BY <1>1, <1>2 DEF Move

LEMMA ResultNext == ASSUME SettledAdapter PROVE TypeInv /\ ResultInv /\ [Next]_vars => ResultInv'
<1> SUFFICES ASSUME TypeInv, ResultInv, [Next]_vars PROVE ResultInv'
  OBVIOUS
<1> USE DEF TypeInv, TypeOK
<1>1. ASSUME NEW c \in Caller, StartCall(c) \/ BeginStep(c) PROVE ResultInv'
  BY <1>1, NotCarried DEF StartCall, BeginStep, laneVars
<1>2. ASSUME NEW c \in Caller, MoveCreated(c) PROVE ResultInv'
  BY <1>2, NotCarried DEF MoveCreated, Goto
<1>3. ASSUME NEW c \in Caller, MoveValidating(c) \/ MoveRouting(c) \/ MoveAdapter(c) \/ MoveArtifact(c)
      PROVE  ResultInv'
  BY <1>3, MoveSettled DEF MoveValidating, MoveRouting, MoveAdapter, MoveArtifact
<1>4. ASSUME NEW c \in Caller, Invalid(c) PROVE ResultInv'
  BY <1>4, MadeUpSettled DEF Invalid, Fail, Goto, ResultInv
<1>5. \A c \in Caller : started[c] \in BOOLEAN
  OBVIOUS
<1>6. ASSUME NEW c \in Caller, AdapterEnds(c) PROVE ResultInv'
  BY <1>5, <1>6 DEF AdapterEnds, Goto, ResultInv, SettledAdapter
<1>7. ASSUME NEW c \in Caller, NEW result \in Results[started[c]] \cup {Cancelled}, Fail(c, result)
      PROVE  ResultInv'
  <2>1. Settled(FromMapping(result))
    BY <1>5, <1>7, MadeUpSettled DEF SettledAdapter
  <2> QED
    BY <1>7, <2>1 DEF Fail, Goto, ResultInv
<1>8. ASSUME NEW c \in Caller, AdapterRaises(c) PROVE ResultInv'
  BY <1>7, <1>8 DEF AdapterRaises
<1>9. ASSUME NEW c \in Caller, AdapterProgress(c) PROVE ResultInv'
  BY <1>7, <1>9, NotCarried DEF AdapterProgress
<1>10. ASSUME NEW c \in Caller, MoveTerminal(c) PROVE ResultInv'
  <2>1. raw[c] \in Raw /\ Settled(FromMapping(raw[c]))
    BY <1>10 DEF MoveTerminal, ResultInv
  <2>2. Settled(FromMapping(ToDict(FromMapping(raw[c]), raw[c])))
    BY <2>1, HandedOn
  <2>3. raw' = [raw EXCEPT ![c] = ToDict(FromMapping(raw[c]), raw[c])]
    BY <1>10 DEF MoveTerminal
  <2>4. \A d \in Caller : d # c => at'[d] = at[d]
    BY <1>10 DEF MoveTerminal, Goto
  <2> QED
    BY <2>2, <2>3, <2>4 DEF ResultInv
<1>11. ASSUME NEW c \in Caller, FinishCall(c) PROVE ResultInv'
  BY <1>11, NotCarried DEF FinishCall, Forget, Goto
<1>12. ASSUME NEW c \in Caller, Abort(c) \/ Crash(c) PROVE ResultInv'
  BY <1>12, NotCarried DEF Abort, Crash, Forget, Goto
<1>13. ASSUME NEW c \in Caller, StartEffect(c) PROVE ResultInv'
  BY <1>13, NotCarried DEF StartEffect
<1>14. CASE DamageFile \/ UNCHANGED vars
  BY <1>14, NotCarried DEF DamageFile, laneVars, vars
<1> QED
  BY <1>1, <1>2, <1>3, <1>4, <1>6, <1>8, <1>9, <1>10, <1>11, <1>12, <1>13, <1>14 DEF Next, Run

\* The only step that writes the record and closes the operation from the end
\* of the run is finish() with the result being carried.
LEMMA ClosedBy ==
  ASSUME TypeInv, [Next]_vars, NEW c \in Caller, phase[c] = "open", at[c] = "finish",
         phase'[c] = "idle", disk' # disk
  PROVE  Finish(c, raw[c], TRUE)
<1> USE DEF TypeInv, TypeOK, JournalTypeOK
<1>1. ASSUME NEW d \in Caller, d # c, StartCall(d) \/ BeginStep(d) \/ Run(d) \/ AdapterProgress(d)
                                       \/ StartEffect(d) \/ Crash(d)
      PROVE  phase'[c] = phase[c]
  <2>1. ASSUME StartCall(d) \/ BeginStep(d) \/ StartEffect(d) \/ Crash(d) PROVE phase'[c] = phase[c]
    BY <1>1, <2>1 DEF StartCall, Call, BeginStep, Begin, Acquire, GateTimesOut, RefuseBusy,
       RefuseReplay, Admit, WriteNew, Collect, Enter, Leave, StartEffect, Crash, Die, journalVars
  <2>2. ASSUME FinishCall(d) \/ Abort(d) PROVE phase'[c] = phase[c]
    BY <1>1, <2>2 DEF FinishCall, Abort, Finish, FailUnknown, Enter, Leave
  <2>3. ASSUME AdapterProgress(d) \/ (Run(d) /\ ~FinishCall(d) /\ ~Abort(d)) PROVE phase' = phase
    BY <2>3 DEF Run, MoveCreated, MoveValidating, Invalid, MoveRouting, MoveAdapter, Move,
       AdapterEnds, AdapterRaises, MoveArtifact, MoveTerminal, AdapterProgress, Checkpoint, journalVars
  <2> QED
    BY <1>1, <2>1, <2>2, <2>3
<1>2. ASSUME StartCall(c) \/ BeginStep(c) \/ AdapterProgress(c) \/ StartEffect(c) PROVE FALSE
  BY <1>2 DEF StartCall, Call, BeginStep, Begin, Acquire, GateTimesOut, RefuseBusy, RefuseReplay,
     Admit, WriteNew, Collect, AdapterProgress, StartEffect
<1>3. ASSUME Run(c), ~FinishCall(c) PROVE FALSE
  BY <1>3 DEF Run, MoveCreated, MoveValidating, Invalid, MoveRouting, MoveAdapter, Move,
     AdapterEnds, AdapterRaises, MoveArtifact, MoveTerminal, Abort
<1>4. ASSUME FinishCall(c) PROVE Finish(c, raw[c], TRUE)
  BY <1>4 DEF FinishCall, Finish
<1>5. ~Crash(c) /\ ~DamageFile /\ ~UNCHANGED vars
  BY DEF Crash, Die, DamageFile, Damage, vars, journalVars
<1> QED
  BY <1>1, <1>2, <1>3, <1>4, <1>5 DEF Next

LEMMA RetryStep ==
  ASSUME TypeInv, ResultInv, [Next]_vars, NEW c \in Caller, phase[c] = "open", at[c] = "finish",
         phase'[c] = "idle", disk' # disk
  PROVE  RetryAllowed(raw[c]) <=> ReplayAllowed(disk')
<1>1. disk' = WithOutcome(mem[c], FromMapping(raw[c]))
  BY ClosedBy DEF Finish
<1>2. /\ mem[c] \in Record /\ raw[c] \in Raw
      /\ Settled(FromMapping(raw[c]))
  BY DEF TypeInv, TypeOK, MemInv, ResultInv
<1>3. ReplayAllowed(disk') <=> ReplayAllowed(FromMapping(raw[c]))
  BY <1>1, <1>2, FromMappingType, OutcomeWritten
<1> QED
  BY <1>2, <1>3, DecisionsAgree

(* A row the batch may retry is admitted again by the journal and a row it may
   not retry is refused, after every call, for any number of callers and any
   adapter whose results are settled.  The two modules read the result at two
   places, before and after it was handed on twice; HandedOn is why that makes
   no difference. *)
THEOREM RetryMeetsReplay == ASSUME SettledAdapter PROVE Spec => RetryAgreesWithReplay
<1> DEFINE Agrees ==
      \A c \in Caller :
        (phase[c] = "open" /\ at[c] = "finish" /\ phase'[c] = "idle" /\ disk' # disk
           /\ disk' # NoRecord /\ disk' # Unreadable)
          => (RetryAllowed(raw[c]) <=> ReplayAllowed(disk'))
<1>1. Init => TypeInv /\ ResultInv
  BY TypeInit DEF Init, ResultInv
<1>2. TypeInv /\ ResultInv /\ [Next]_vars => TypeInv' /\ ResultInv' /\ [Agrees]_vars
  BY TypeNext, ResultNext, RetryStep
<1> QED
  BY <1>1, <1>2, PTL DEF Spec, RetryAgreesWithReplay

-----------------------------------------------------------------------------
(* A call only moves on *)

\* What a caller has still to do, by the steps of begin() and of the executor.
Todo(step, label) ==
  CASE step = "waiting" -> 14
    [] step = "locked" -> 13
    [] step = "admitted" -> 12
    [] step = "open" /\ label = "created" -> 11
    [] step = "open" /\ label = "validation" -> 10
    [] step = "open" /\ label = "routing" -> 9
    [] step = "open" /\ label = "adapter" -> 8
    [] step = "open" /\ label = "adapting" -> 7
    [] step = "open" /\ label = "artifact" -> 6
    [] step = "open" /\ label = "terminal" -> 5
    [] step = "open" /\ label = "finish" -> 4
    [] step = "open" /\ label = "abort" -> 3
    [] step \in {"expired", "stranded"} -> 1
    [] step = "idle" -> 0

LEMMA TodoIs ==
  /\ Todo("waiting", "created") = 14 /\ Todo("locked", "created") = 13 /\ Todo("admitted", "created") = 12
  /\ Todo("open", "created") = 11 /\ Todo("open", "validation") = 10 /\ Todo("open", "routing") = 9
  /\ Todo("open", "adapter") = 8 /\ Todo("open", "adapting") = 7 /\ Todo("open", "artifact") = 6
  /\ Todo("open", "terminal") = 5 /\ Todo("open", "finish") = 4 /\ Todo("open", "abort") = 3
  /\ Todo("expired", "created") = 1 /\ Todo("stranded", "created") = 1 /\ Todo("idle", "created") = 0
  BY DEF Todo

\* Outside its operation a caller is at the start of the next one.
HomeInv == \A c \in Caller : phase[c] # "open" => at[c] = "created"

Rank(c) == Todo(phase[c], at[c])

LEMMA RankType ==
  ASSUME NEW step \in Phase, NEW label \in At, step # "open" => label = "created"
  PROVE  Todo(step, label) \in 0..14
  BY TodoIs DEF Phase, At

Descends ==
  \A c \in Caller :
    /\ phase[c] # "idle" => Rank(c)' <= Rank(c)
    /\ BeginStep(c) \/ Run(c) => Rank(c)' < Rank(c)

\* begin(), from the gate to an open operation or the end of the call.
LEMMA BeginDescends ==
  ASSUME TypeInv, HomeInv, NEW c \in Caller, BeginStep(c)
  PROVE  /\ Rank(c)' < Rank(c) /\ at' = at
         /\ \A d \in Caller \ {c} : phase'[d] = phase[d]
<1> USE DEF TypeInv, TypeOK, JournalTypeOK, Enter, Leave
<1>1. at' = at /\ at[c] = "created"
  BY DEF BeginStep, Begin, HomeInv, laneVars, Acquire, GateTimesOut, RefuseBusy, RefuseReplay, Admit, WriteNew, Collect
<1>2. \A d \in Caller \ {c} : phase'[d] = phase[d]
  BY DEF BeginStep, Begin, Acquire, GateTimesOut, RefuseBusy, RefuseReplay, Admit, WriteNew, Collect
<1>3. \/ phase[c] = "waiting" /\ phase'[c] \in {"locked", "expired"}
      \/ phase[c] = "expired" /\ phase'[c] = "idle"
      \/ phase[c] = "locked" /\ phase'[c] \in {"idle", "admitted"}
      \/ phase[c] = "admitted" /\ phase'[c] \in {"open", "idle"}
      \/ phase[c] = "stranded" /\ phase'[c] = "idle"
  BY DEF BeginStep, Begin, Acquire, GateTimesOut, RefuseBusy, RefuseReplay, Admit, WriteNew, Collect
<1> QED
  BY <1>1, <1>2, <1>3, TodoIs DEF Rank

\* The executor: every move leads on, to the result of a failure or to the end.
LEMMA RunDescends ==
  ASSUME TypeInv, NEW c \in Caller, Run(c)
  PROVE  /\ phase[c] = "open" /\ Rank(c)' < Rank(c)
         /\ phase'[c] # "open" => at'[c] = "created"
         /\ \A d \in Caller \ {c} : phase'[d] = phase[d] /\ at'[d] = at[d]
<1> USE DEF TypeInv, TypeOK, JournalTypeOK, Enter, Leave, Goto, Fail, Forget
<1>1. ASSUME ~FinishCall(c), ~Abort(c)
      PROVE  /\ phase[c] = "open" /\ phase' = phase
             /\ \A d \in Caller \ {c} : at'[d] = at[d]
             /\ \/ at[c] = "created" /\ at'[c] \in {"validation", "abort"}
                \/ at[c] = "validation" /\ at'[c] \in {"routing", "terminal"}
                \/ at[c] = "routing" /\ at'[c] \in {"adapter", "terminal"}
                \/ at[c] = "adapter" /\ at'[c] \in {"adapting", "terminal"}
                \/ at[c] = "adapting" /\ at'[c] \in {"artifact", "terminal"}
                \/ at[c] = "artifact" /\ at'[c] = "terminal"
                \/ at[c] = "terminal" /\ at'[c] \in {"finish", "abort"}
  <2>1. CASE MoveCreated(c) \/ MoveTerminal(c)
    BY <2>1 DEF MoveCreated, MoveTerminal, Checkpoint
  <2>2. CASE MoveValidating(c) \/ MoveRouting(c) \/ MoveAdapter(c) \/ MoveArtifact(c)
    BY <2>2 DEF MoveValidating, MoveRouting, MoveAdapter, MoveArtifact, Move, Checkpoint
  <2>3. CASE Invalid(c) \/ AdapterEnds(c) \/ AdapterRaises(c)
    BY <2>3 DEF Invalid, AdapterEnds, AdapterRaises, journalVars
  <2> QED
    BY <1>1, <2>1, <2>2, <2>3 DEF Run
<1>2. CASE FinishCall(c) \/ Abort(c)
  <2>1. /\ phase[c] = "open"
        /\ \A d \in Caller \ {c} : phase'[d] = phase[d] /\ at'[d] = at[d]
        /\ \/ at[c] = "finish" /\ phase'[c] = "idle" /\ at'[c] = "created"
           \/ at[c] = "finish" /\ phase'[c] = "open" /\ at'[c] = "abort"
           \/ at[c] = "abort" /\ phase'[c] \in {"idle", "stranded"} /\ at'[c] = "created"
    BY <1>2 DEF FinishCall, Abort, Finish, FailUnknown
  <2> QED
    BY <2>1, TodoIs DEF Rank
<1>3. CASE ~FinishCall(c) /\ ~Abort(c)
  BY <1>1, <1>3, TodoIs DEF Rank
<1> QED
  BY <1>2, <1>3

LEMMA CallStep == TypeInv /\ TypeInv' /\ HomeInv /\ [Next]_vars => HomeInv' /\ [Descends]_vars
<1> SUFFICES ASSUME TypeInv, TypeInv', HomeInv, [Next]_vars PROVE HomeInv' /\ [Descends]_vars
  OBVIOUS
<1> USE DEF TypeInv, TypeOK, JournalTypeOK
<1>1. \A c \in Caller : Rank(c) \in 0..14
  BY RankType DEF Rank, HomeInv
<1>2. ASSUME NEW c \in Caller, \A d \in Caller \ {c} : phase'[d] = phase[d] /\ at'[d] = at[d],
             phase'[c] # "open" => at'[c] = "created",
             phase[c] = "idle" \/ Rank(c)' <= Rank(c)
      PROVE  HomeInv' /\ \A d \in Caller : phase[d] # "idle" => Rank(d)' <= Rank(d)
  BY <1>1, <1>2 DEF HomeInv, Rank
<1>3. ASSUME NEW c \in Caller, StartCall(c)
      PROVE  HomeInv' /\ \A d \in Caller : phase[d] # "idle" => Rank(d)' <= Rank(d)
  BY <1>2, <1>3 DEF StartCall, Call, Enter, HomeInv, laneVars
<1>4. ASSUME NEW c \in Caller, BeginStep(c)
      PROVE  HomeInv' /\ \A d \in Caller : phase[d] # "idle" => Rank(d)' <= Rank(d)
  <2>1. at[c] = "created"
    BY <1>4 DEF BeginStep, Begin, HomeInv, Acquire, GateTimesOut, RefuseBusy, RefuseReplay, Admit, WriteNew, Collect
  <2>2. Rank(c)' <= Rank(c)
    <3>1. phase'[c] \in Phase /\ at'[c] = "created"
      BY <1>4, <2>1, BeginDescends
    <3>2. Rank(c)' \in 0..14
      BY <3>1, RankType DEF Rank, At
    <3> QED
      BY <1>1, <1>4, <3>2, BeginDescends
  <2> QED
    BY <1>2, <1>4, <2>1, <2>2, BeginDescends
<1>5. ASSUME NEW c \in Caller, Run(c)
      PROVE  HomeInv' /\ \A d \in Caller : phase[d] # "idle" => Rank(d)' <= Rank(d)
  <2>1. Rank(c)' \in 0..14
    <3>1. phase'[c] \in Phase /\ at'[c] \in At /\ (phase'[c] # "open" => at'[c] = "created")
      BY <1>5, RunDescends
    <3> QED
      BY <3>1, RankType DEF Rank
  <2>2. Rank(c)' <= Rank(c)
    BY <1>1, <1>5, <2>1, RunDescends
  <2> QED
    BY <1>2, <1>5, <2>2, RunDescends
<1>6. ASSUME NEW c \in Caller, AdapterProgress(c) \/ StartEffect(c)
      PROVE  HomeInv' /\ \A d \in Caller : phase[d] # "idle" => Rank(d)' <= Rank(d)
  <2>1. /\ phase' = phase /\ phase[c] = "open" /\ at[c] = "adapting" /\ at'[c] \in {"adapting", "terminal"}
        /\ \A d \in Caller \ {c} : at'[d] = at[d]
    BY <1>6 DEF AdapterProgress, StartEffect, Checkpoint, Fail, Goto, journalVars
  <2>2. Rank(c)' <= Rank(c)
    BY <2>1, TodoIs DEF Rank
  <2> QED
    BY <1>2, <2>1, <2>2
<1>7. ASSUME NEW c \in Caller, Crash(c)
      PROVE  HomeInv' /\ \A d \in Caller : phase[d] # "idle" => Rank(d)' <= Rank(d)
  <2>1. phase'[c] = "idle" /\ at'[c] = "created" /\ \A d \in Caller \ {c} : phase'[d] = phase[d] /\ at'[d] = at[d]
    BY <1>7 DEF Crash, Die, Leave, Forget, Goto
  <2>2. Rank(c)' = 0
    BY <2>1, TodoIs DEF Rank
  <2> QED
    BY <1>1, <1>2, <2>1, <2>2
<1>8. CASE DamageFile \/ UNCHANGED vars
  <2>1. phase' = phase /\ at' = at
    BY <1>8 DEF DamageFile, Damage, laneVars, vars, journalVars
  <2> QED
    BY <1>1, <1>8, <2>1, BeginDescends, RunDescends DEF HomeInv, Rank, Descends
<1>9. CASE HomeInv' /\ \A d \in Caller : phase[d] # "idle" => Rank(d)' <= Rank(d)
  BY <1>9, BeginDescends, RunDescends DEF Descends
<1> QED
  BY <1>3, <1>4, <1>5, <1>6, <1>7, <1>8, <1>9 DEF Next

(* A call is over after at most fourteen steps of its own, progress reports and
   the side effect of the adapter aside: no timeout, refusal, failing write or
   abort leads back.  Whoever holds the gate of the key is in such a call
   (GateInv); GateFreed adds that callers do go on. *)
THEOREM CallsMoveOn == Spec => [][Descends]_vars
<1>1. Init => TypeInv /\ HomeInv
  BY TypeInit DEF Init, HomeInv
<1>2. TypeInv /\ HomeInv /\ [Next]_vars => TypeInv' /\ HomeInv' /\ [Descends]_vars
  BY TypeNext, CallStep
<1> QED
  BY <1>1, <1>2, PTL DEF Spec
=============================================================================
