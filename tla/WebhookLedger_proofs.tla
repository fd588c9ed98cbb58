------------------------ MODULE WebhookLedger_proofs ------------------------
(***************************************************************************)
(* What TLAPS proves of WebhookLedger: its types; and, when no delivery is *)
(* handled for longer than a claim is protected (HandlingTime <= Stale),   *)
(* that an event has one handler at a time, that a processed event is      *)
(* final, and that the ledger implements EventOnce.                        *)
(*                                                                         *)
(* The argument: the claim of a handler at work is not older than the      *)
(* delivery it is handling, hence not older than HandlingTime, hence not   *)
(* stale; its event is PROCESSING, and nobody else can take it.            *)
(***************************************************************************)
EXTENDS WebhookLedger, TLAPS

LEMMA TypeInit == Init => TypeOK
BY LedgerAssumption DEF Init, TypeOK, Places

LEMMA TypeStep == TypeOK /\ [Next]_vars => TypeOK'
<1> SUFFICES ASSUME TypeOK, [Next]_vars PROVE TypeOK'
  OBVIOUS
<1> USE LedgerAssumption DEF TypeOK, Places, ledger, stripe
<1>1. CASE UNCHANGED vars
  BY <1>1 DEF vars
<1>2. CASE Tick
  BY <1>2 DEF Tick
<1>3. ASSUME NEW h \in Handlers, NEW e \in Events, Deliver(h, e) PROVE TypeOK'
  BY <1>3 DEF Deliver
<1>4. ASSUME NEW h \in Handlers, Handle(h) PROVE TypeOK'
  <2>1. CASE Insert(h)
    BY <2>1 DEF Insert, TakeEvent, Goto
  <2>2. CASE Retake(h)
    BY <2>2 DEF Retake, TakeEvent, Goto
  <2>3. CASE Duplicate(h)
    BY <2>3 DEF Duplicate, Answer200, Free
  <2>4. CASE Process(h)
    BY <2>4 DEF Process, Goto
  <2>5. CASE Record(h)
    BY <2>5 DEF Record, Answer200, Free
  <2>6. CASE RecordFailure(h)
    BY <2>6 DEF RecordFailure, Free
  <2> QED  BY <1>4, <2>1, <2>2, <2>3, <2>4, <2>5, <2>6 DEF Handle
<1>5. ASSUME NEW h \in Handlers, Fail(h) PROVE TypeOK'
  BY <1>5 DEF Fail, Goto
<1>6. ASSUME NEW h \in Handlers, Crash(h) PROVE TypeOK'
  BY <1>6 DEF Crash, Free
<1> QED  BY <1>1, <1>2, <1>3, <1>4, <1>5, <1>6 DEF Next

\* Every state of the ledger, of the handlers and of Stripe's side is well typed.
THEOREM TypeCorrect == Spec => []TypeOK
<1>1. Init => TypeOK
  BY TypeInit
<1>2. TypeOK /\ [Next]_vars => TypeOK'
  BY TypeStep
<1> QED  BY <1>1, <1>2, PTL DEF Spec

---------------------------------------------------------------------------
\* The inductive invariant.

Busy(h) == pc[h] \in {"process", "record", "failed"}

\* A busy handler holds a fresh claim, and no other handler holds it.
Holds(h) ==
  /\ status[event[h]] = "PROCESSING"
  /\ age[event[h]] <= spent[h]
  /\ \A g \in Handlers : Busy(g) /\ event[g] = event[h] => g = h

RunnerInv ==
  /\ \A h \in Handlers : pc[h] # "idle" => spent[h] <= HandlingTime
  /\ \A h \in Handlers : Busy(h) => Holds(h)

LEMMA RunnerInit == Init => RunnerInv
BY DEF Init, RunnerInv, Busy

\* A step that leaves the events held, and the hands they are in, alone.
LEMMA HoldsKept ==
  ASSUME TypeOK, RunnerInv, NEW h \in Handlers,
         \A g \in Handlers \ {h} : pc'[g] = pc[g] /\ event'[g] = event[g] /\ spent'[g] = spent[g],
         pc'[h] # "idle" => spent'[h] <= HandlingTime,
         Busy(h)' => Busy(h) /\ event'[h] = event[h] /\ spent'[h] = spent[h],
         \A g \in Handlers : Busy(g)' =>
           status'[event[g]] = status[event[g]] /\ age'[event[g]] = age[event[g]]
  PROVE  RunnerInv'
<1>1. \A g \in Handlers : Busy(g)' => Busy(g) /\ event'[g] = event[g] /\ spent'[g] = spent[g]
  BY DEF Busy
<1>2. \A g \in Handlers : Busy(g)' => Holds(g)'
  BY <1>1 DEF RunnerInv, Holds
<1>3. \A g \in Handlers : pc'[g] # "idle" => spent'[g] <= HandlingTime
  BY DEF RunnerInv
<1> QED  BY <1>2, <1>3 DEF RunnerInv

\* Taking an event that nobody holds.
LEMMA HoldsTaken ==
  ASSUME TypeOK, RunnerInv, NEW h \in Handlers, pc[h] \in {"insert", "retake"},
         TakeEvent(h), Goto(h, "process"),
         \A g \in Handlers : Busy(g) => event[g] # event[h]
  PROVE  RunnerInv'
<1> USE DEF TypeOK
<1>1. event[h] \in Events /\ event' = event /\ spent' = spent
  BY DEF Goto
<1>2. \A g \in Handlers : Busy(g)' <=> (Busy(g) \/ g = h)
  BY DEF Goto, Busy
<1>3. Holds(h)'
  BY <1>1, <1>2 DEF Holds, TakeEvent
<1>4. ASSUME NEW g \in Handlers, Busy(g)' PROVE Holds(g)'
  <2>1. CASE g = h
    BY <1>3, <2>1
  <2>2. CASE g # h
    <3>1. Busy(g) /\ Holds(g) /\ event[g] # event[h]
      BY <1>2, <1>4, <2>2 DEF RunnerInv
    <3>2. event[g] \in Events
      BY <3>1 DEF Busy
    <3>3. status'[event[g]] = status[event[g]] /\ age'[event[g]] = age[event[g]]
      BY <1>1, <3>1, <3>2 DEF TakeEvent
    <3> QED  BY <1>1, <1>2, <3>1, <3>3 DEF Holds
  <2> QED  BY <2>1, <2>2
<1>5. \A g \in Handlers : pc'[g] # "idle" => spent'[g] <= HandlingTime
  BY <1>1 DEF RunnerInv, Goto
<1> QED  BY <1>4, <1>5 DEF RunnerInv

LEMMA RunnerStep ==
  ASSUME HandlingTime <= Stale
  PROVE  TypeOK /\ TypeOK' /\ RunnerInv /\ [Next]_vars => RunnerInv'
<1> SUFFICES ASSUME TypeOK, TypeOK', RunnerInv, [Next]_vars PROVE RunnerInv'
  OBVIOUS
<1> USE DEF ledger, stripe
<1>1. CASE UNCHANGED vars
  BY <1>1 DEF vars, RunnerInv, Holds, Busy
<1>2. CASE Tick
  <2>1. UNCHANGED <<status, pc, event>>
    BY <1>2 DEF Tick
  <2>2. \A h \in Handlers : pc[h] # "idle" => spent'[h] = spent[h] + 1 /\ spent[h] < HandlingTime
    BY <1>2 DEF Tick, TypeOK
  <2>3. \A e \in Events : age'[e] <= age[e] + 1
    BY <1>2 DEF Tick, TypeOK
  <2>4. ASSUME NEW h \in Handlers, Busy(h) PROVE Holds(h)'
    <3>1. Holds(h) /\ event[h] \in Events /\ pc[h] # "idle"
      BY <2>4 DEF RunnerInv, TypeOK, Busy
    <3>2. age'[event[h]] <= spent'[h]
      BY <2>2, <2>3, <3>1, LedgerAssumption DEF Holds, TypeOK
    <3> QED  BY <2>1, <3>1, <3>2 DEF Holds, Busy
  <2>5. \A h \in Handlers : pc[h] # "idle" => spent'[h] <= HandlingTime
    BY <2>2, LedgerAssumption DEF TypeOK
  <2> QED  BY <2>1, <2>4, <2>5 DEF RunnerInv, Busy
<1>3. ASSUME NEW h \in Handlers, NEW e \in Events, Deliver(h, e) PROVE RunnerInv'
  BY <1>3, HoldsKept, LedgerAssumption DEF Deliver, Busy, TypeOK
<1>4. ASSUME NEW h \in Handlers, Handle(h) PROVE RunnerInv'
  <2>1. CASE Insert(h)
    <3>1. CASE status[event[h]] = "absent"
      <4>1. TakeEvent(h) /\ Goto(h, "process") /\ pc[h] = "insert"
        BY <2>1, <3>1 DEF Insert
      <4>2. \A g \in Handlers : Busy(g) => event[g] # event[h]
        BY <3>1 DEF RunnerInv, Holds
      <4> QED  BY <4>1, <4>2, HoldsTaken
    <3>2. CASE status[event[h]] # "absent"
      BY <2>1, <3>2, HoldsKept DEF Insert, Goto, Busy, TypeOK, RunnerInv
    <3> QED  BY <3>1, <3>2
  <2>2. CASE Retake(h)
    <3>1. \A g \in Handlers : Busy(g) => event[g] # event[h]
      <4> SUFFICES ASSUME NEW g \in Handlers, Busy(g), event[g] = event[h] PROVE FALSE
        OBVIOUS
      <4>1. Holds(g) /\ spent[g] <= HandlingTime /\ event[g] \in Events
        BY DEF RunnerInv, Busy, TypeOK
      <4>2. status[event[g]] = "PROCESSING" /\ age[event[g]] <= Stale
        BY <4>1, LedgerAssumption DEF Holds, TypeOK
      <4> QED  BY <2>2, <4>1, <4>2, LedgerAssumption DEF Retake, Takable, TypeOK
    <3> QED  BY <2>2, <3>1, HoldsTaken DEF Retake
  <2>3. CASE Duplicate(h)
    BY <2>3, HoldsKept DEF Duplicate, Free, Busy, TypeOK, RunnerInv
  <2>4. CASE Process(h)
    BY <2>4, HoldsKept DEF Process, Goto, Busy, TypeOK, RunnerInv
  <2>5. CASE Record(h) \/ RecordFailure(h)
    <3>1. Holds(h) /\ pc'[h] = "idle" /\ event[h] \in Events
      BY <2>5 DEF Record, RecordFailure, Free, RunnerInv, Busy, TypeOK
    <3>2. \A g \in Handlers \ {h} : Busy(g) => event[g] # event[h]
      BY <3>1 DEF Holds
    <3>3. \A g \in Handlers \ {h} : pc'[g] = pc[g] /\ event'[g] = event[g] /\ spent'[g] = spent[g]
      BY <2>5 DEF Record, RecordFailure, Free, TypeOK
    <3>4. age' = age /\ \A e \in Events \ {event[h]} : status'[e] = status[e]
      BY <2>5 DEF Record, RecordFailure, TypeOK
    <3>5. \A g \in Handlers : Busy(g)' => g # h /\ Busy(g) /\ event[g] \in Events
      BY <3>1, <3>3 DEF Busy, TypeOK
    <3> QED  BY <3>1, <3>2, <3>3, <3>4, <3>5, HoldsKept
  <2> QED  BY <1>4, <2>1, <2>2, <2>3, <2>4, <2>5 DEF Handle
<1>5. ASSUME NEW h \in Handlers, Fail(h) PROVE RunnerInv'
  BY <1>5, HoldsKept DEF Fail, Goto, Busy, TypeOK, RunnerInv
<1>6. ASSUME NEW h \in Handlers, Crash(h) PROVE RunnerInv'
  BY <1>6, HoldsKept DEF Crash, Free, Busy, TypeOK, RunnerInv
<1> QED  BY <1>1, <1>2, <1>3, <1>4, <1>5, <1>6 DEF Next

\* Two deliveries of an event, to any servers, never process it at the same time.
THEOREM OneRunnerAtATime ==
  ASSUME HandlingTime <= Stale
  PROVE  Spec => []OneRunner
<1>1. Init => TypeOK /\ RunnerInv
  BY TypeInit, RunnerInit
<1>2. TypeOK /\ RunnerInv /\ [Next]_vars => TypeOK' /\ RunnerInv'
  BY TypeStep, RunnerStep
<1>3. TypeOK /\ RunnerInv => OneRunner
  BY DEF TypeOK, RunnerInv, Holds, Busy, OneRunner, Runs
<1> QED  BY <1>1, <1>2, <1>3, PTL DEF Spec

---------------------------------------------------------------------------
\* A processed event is final.

LEMMA DoneStep ==
  ASSUME TypeOK, RunnerInv, [Next]_vars, NEW e \in Events, status[e] = "PROCESSED"
  PROVE  status'[e] = "PROCESSED" /\ effects'[e] = effects[e]
<1> USE DEF ledger, stripe
<1>1. \A h \in Handlers : Busy(h) => event[h] # e
  BY DEF RunnerInv, Holds
<1>2. CASE UNCHANGED vars
  BY <1>2 DEF vars
<1>3. CASE Tick
  BY <1>3 DEF Tick
<1>4. ASSUME NEW h \in Handlers, NEW d \in Events, Deliver(h, d)
      PROVE  status'[e] = "PROCESSED" /\ effects'[e] = effects[e]
  BY <1>4 DEF Deliver
<1>5. ASSUME NEW h \in Handlers, Handle(h) \/ Fail(h) \/ Crash(h)
      PROVE  status'[e] = "PROCESSED" /\ effects'[e] = effects[e]
  <2>1. CASE Insert(h) \/ Retake(h)
    BY <2>1 DEF Insert, Retake, Takable, TakeEvent, TypeOK
  <2>2. CASE Process(h) \/ Record(h) \/ RecordFailure(h)
    <3>1. Busy(h)
      BY <2>2 DEF Process, Record, RecordFailure, Busy
    <3> QED  BY <1>1, <2>2, <3>1 DEF Process, Record, RecordFailure, TypeOK
  <2>3. CASE Duplicate(h) \/ Fail(h) \/ Crash(h)
    BY <2>3 DEF Duplicate, Fail, Crash
  <2> QED  BY <1>5, <2>1, <2>2, <2>3 DEF Handle
<1> QED  BY <1>2, <1>3, <1>4, <1>5 DEF Next

\* Once recorded as processed, an event is neither reopened nor applied again.
THEOREM ProcessedIsFinal ==
  ASSUME HandlingTime <= Stale
  PROVE  Spec => DoneIsFinal
<1>1. Init => TypeOK /\ RunnerInv
  BY TypeInit, RunnerInit
<1>2. TypeOK /\ RunnerInv /\ [Next]_vars => TypeOK' /\ RunnerInv'
  BY TypeStep, RunnerStep
<1>3. TypeOK /\ RunnerInv /\ [Next]_vars =>
        [\A e \in Events : status[e] = "PROCESSED" =>
           status'[e] = "PROCESSED" /\ effects'[e] = effects[e]]_vars
  BY DoneStep
<1> QED  BY <1>1, <1>2, <1>3, PTL DEF Spec, DoneIsFinal

---------------------------------------------------------------------------
\* The refinement.  The phase of an event is read off the place of the one
\* handler that holds it.

PhaseAt(place) ==
  CASE place = "record"  -> "performed"
    [] place = "process" -> "running"
    [] OTHER             -> "waiting"

PhasesAgree ==
  /\ \A h \in Handlers : Busy(h) => Phase(event[h]) = PhaseAt(pc[h])
  /\ \A e \in Events : (\A h \in Handlers : Busy(h) => event[h] # e) =>
       Phase(e) = IF status[e] = "PROCESSED" THEN "done" ELSE "waiting"

LEMMA PhasesOfHandlers == TypeOK /\ RunnerInv => PhasesAgree
<1> SUFFICES ASSUME TypeOK, RunnerInv PROVE PhasesAgree
  OBVIOUS
<1>1. ASSUME NEW h \in Handlers, Busy(h) PROVE Phase(event[h]) = PhaseAt(pc[h])
  <2>1. status[event[h]] = "PROCESSING"
    BY <1>1 DEF RunnerInv, Holds
  <2>2. \A place \in {"process", "record"} : At(event[h], place) <=> pc[h] = place
    BY <1>1 DEF RunnerInv, Holds, Busy, At
  <2> QED  BY <1>1, <2>1, <2>2 DEF Phase, PhaseAt, Busy
<1>2. ASSUME NEW e \in Events, \A h \in Handlers : Busy(h) => event[h] # e
      PROVE  Phase(e) = IF status[e] = "PROCESSED" THEN "done" ELSE "waiting"
  <2>1. ~At(e, "record") /\ ~At(e, "process")
    BY <1>2 DEF At, Busy
  <2> QED  BY <2>1 DEF Phase
<1> QED  BY <1>1, <1>2 DEF PhasesAgree

\* A step of handler h on event e leaves the phases of the other events alone.
LEMMA OtherPhases ==
  ASSUME TypeOK, NEW h \in Handlers, NEW e \in Events,
         event[h] \in {e, None}, event'[h] \in {e, None},
         \A g \in Handlers \ {h} : pc'[g] = pc[g] /\ event'[g] = event[g],
         \A d \in Events \ {e} : status'[d] = status[d],
         NEW d \in Events, d # e
  PROVE  Phase(d)' = Phase(d)
<1>1. \A place : At(d, place)' <=> At(d, place)
  BY LedgerAssumption DEF At
<1> QED  BY <1>1 DEF Phase

\* Such a step moves the abstract phase of e only.
LEMMA MovesOne ==
  ASSUME NEW e \in Events, \A d \in Events : d # e => Phase(d)' = Phase(d)
  PROVE  [d \in Events |-> Phase(d)]' =
           [[d \in Events |-> Phase(d)] EXCEPT ![e] = Phase(e)']
OBVIOUS

LEMMA RefinementStep ==
  ASSUME TypeOK, RunnerInv, PhasesAgree, PhasesAgree', RunnerInv', [Next]_vars
  PROVE  [Abstract!Next]_(Abstract!vars)
<1> USE DEF ledger, stripe
<1> DEFINE phase == [d \in Events |-> Phase(d)]
<1>0. ASSUME \A d \in Events : Phase(d)' = Phase(d), UNCHANGED effects
      PROVE  [Abstract!Next]_(Abstract!vars)
  BY <1>0 DEF Abstract!vars
<1>1. CASE UNCHANGED vars \/ Tick
  <2>1. UNCHANGED <<status, pc, event, effects>>
    BY <1>1 DEF vars, Tick
  <2> QED  BY <1>0, <2>1 DEF Phase, At
<1>2. ASSUME NEW h \in Handlers, NEW e \in Events, Deliver(h, e)
      PROVE  [Abstract!Next]_(Abstract!vars)
  <2>1. UNCHANGED <<status, effects>>
    BY <1>2 DEF Deliver
  <2>2. \A d \in Events, place \in {"process", "record"} : At(d, place)' <=> At(d, place)
    BY <1>2 DEF Deliver, At, TypeOK
  <2> QED  BY <1>0, <2>1, <2>2 DEF Phase
<1>3. ASSUME NEW h \in Handlers, Handle(h) \/ Fail(h) \/ Crash(h)
      PROVE  [Abstract!Next]_(Abstract!vars)
  <2>1. PICK e \in Events : event[h] = e /\ pc[h] # "idle"
    BY <1>3 DEF TypeOK, Handle, Insert, Retake, Duplicate, Process, Record, RecordFailure, Fail,
        Crash
  <2>2. /\ event'[h] \in {e, None}
        /\ \A g \in Handlers \ {h} : pc'[g] = pc[g] /\ event'[g] = event[g]
    <3>1. Free(h) \/ \E place : Goto(h, place)
      BY <1>3 DEF Handle, Insert, Retake, Duplicate, Process, Record, RecordFailure, Fail, Crash
    <3>2. CASE Free(h)
      BY <2>1, <3>2 DEF Free, TypeOK
    <3>3. CASE \E place : Goto(h, place)
      BY <2>1, <3>3 DEF Goto, TypeOK
    <3> QED  BY <3>1, <3>2, <3>3
  <2>3. \A d \in Events \ {e} : status'[d] = status[d]
    <3>1. UNCHANGED status \/ \E v : status' = [status EXCEPT ![event[h]] = v]
      BY <1>3 DEF Handle, Insert, Retake, Duplicate, Process, Record, RecordFailure, Fail, Crash,
                  TakeEvent
    <3> QED  BY <2>1, <3>1 DEF TypeOK
  <2>4. \A d \in Events : d # e => Phase(d)' = Phase(d)
    BY <2>1, <2>2, <2>3, OtherPhases
  <2>5. phase' = [phase EXCEPT ![e] = Phase(e)']
    BY <2>1, <2>4, MovesOne
  <2>6. ASSUME Phase(e)' = Phase(e), UNCHANGED effects PROVE [Abstract!Next]_(Abstract!vars)
    BY <1>0, <2>4, <2>6
  <2>7. ~Busy(h) => UNCHANGED effects
    BY <1>3 DEF Handle, Insert, Retake, Duplicate, Process, Record, RecordFailure, Fail, Crash, Busy
  <2>8. CASE Insert(h) \/ Retake(h)
    <3>1. CASE pc'[h] = "retake"
      <4>1. Phase(e)' = Phase(e) /\ UNCHANGED effects
        BY <2>1, <2>8, <3>1 DEF Insert, Retake, Goto, TypeOK, Phase, At
      <4> QED  BY <2>6, <4>1
    <3>2. CASE pc'[h] = "process"
      <4>1. ~Busy(h) /\ UNCHANGED <<event, effects>>
        BY <2>8 DEF Insert, Retake, Goto, Busy
      <4>2. (status[e] # "PROCESSED" /\ Takable(e)) \/ status[e] = "absent"
        BY <2>1, <2>8, <3>2 DEF Insert, Retake, Takable, Goto, TypeOK
      <4>3. Phase(e)' = "running" /\ Busy(h)'
        BY <2>1, <3>2, <4>1 DEF PhasesAgree, PhaseAt, Busy
      <4>4. \A g \in Handlers : Busy(g) => event[g] # e
        BY <2>1, <2>2, <4>1, <4>3 DEF RunnerInv, Holds, Busy
      <4>5. phase[e] = "waiting"
        BY <2>1, <4>2, <4>4 DEF PhasesAgree
      <4> QED  BY <2>1, <2>5, <4>1, <4>3, <4>5 DEF Abstract!Next, Abstract!Start, Abstract!Move
    <3> QED  BY <2>8, <3>1, <3>2 DEF Insert, Retake, Goto, TypeOK
  <2>9. CASE Duplicate(h)
    <3>1. Phase(e)' = Phase(e) /\ UNCHANGED effects
      BY <2>1, <2>9 DEF Duplicate, Free, TypeOK, Phase, At
    <3> QED  BY <2>6, <3>1
  <2>10. CASE Process(h)
    <3>1. phase[e] = "running" /\ Phase(e)' = "performed"
      BY <2>1, <2>10 DEF Process, Goto, Busy, PhasesAgree, PhaseAt, TypeOK
    <3> QED  BY <2>1, <2>5, <2>10, <3>1 DEF Process, Abstract!Next, Abstract!Perform, Abstract!Move
  <2>11. CASE Record(h)
    <3>1. phase[e] = "performed"
      BY <2>1, <2>11 DEF Record, Busy, PhasesAgree, PhaseAt
    <3>2. status'[e] = "PROCESSED" /\ UNCHANGED effects
      BY <2>1, <2>11 DEF Record, TypeOK
    <3>3. Phase(e)' = "done"
      BY <3>2 DEF Phase
    <3> QED  BY <2>1, <2>5, <3>1, <3>2, <3>3 DEF Abstract!Next, Abstract!Finish, Abstract!Move
  <2>12. CASE RecordFailure(h) \/ Fail(h) \/ Crash(h)
    <3>1. UNCHANGED effects
      BY <2>12 DEF RecordFailure, Fail, Crash
    <3>2. CASE Busy(h)
      <4>1. phase[e] \in {"performed", "running", "waiting"}
        BY <2>1, <3>2 DEF PhasesAgree, PhaseAt
      <4>2. Phase(e)' = "waiting"
        <5>1. status'[e] # "PROCESSED"
          BY <2>1, <2>12, <3>2 DEF RecordFailure, Fail, Crash, RunnerInv, Holds, TypeOK
        <5>2. ~At(e, "record")' /\ ~At(e, "process")'
          <6>1. \A g \in Handlers \ {h} : event[g] = e => ~Busy(g)
            BY <2>1, <3>2 DEF RunnerInv, Holds
          <6>2. pc'[h] \in {"idle", "failed"}
            BY <2>12 DEF RecordFailure, Fail, Crash, Goto, Free, TypeOK
          <6> QED  BY <2>2, <6>1, <6>2 DEF At, Busy
        <5> QED  BY <5>1, <5>2 DEF Phase
      <4>3. CASE phase[e] = "waiting"
        BY <2>1, <2>6, <3>1, <4>2, <4>3
      <4>4. CASE phase[e] \in {"performed", "running"}
        BY <2>1, <2>5, <3>1, <4>2, <4>4 DEF Abstract!Next, Abstract!GiveUp, Abstract!Move
      <4> QED  BY <4>1, <4>3, <4>4
    <3>3. CASE ~Busy(h)
      <4>1. Crash(h)
        BY <2>12, <3>3 DEF RecordFailure, Fail, Busy
      <4>2. Phase(e)' = Phase(e)
        BY <2>1, <3>3, <4>1 DEF Crash, Free, Busy, TypeOK, Phase, At
      <4> QED  BY <2>6, <3>1, <4>2
    <3> QED  BY <3>2, <3>3
  <2> QED  BY <1>3, <2>8, <2>9, <2>10, <2>11, <2>12 DEF Handle
<1> QED  BY <1>1, <1>2, <1>3 DEF Next

\* The ledger keeps the promise of EventOnce: one attempt at a time, done only
\* after the effect, and never touched again.
THEOREM LedgerImplementsEventOnce ==
  ASSUME HandlingTime <= Stale
  PROVE  Spec => ImplementsEventOnce
<1>1. Init => TypeOK /\ RunnerInv
  BY TypeInit, RunnerInit
<1>2. TypeOK /\ RunnerInv /\ [Next]_vars => TypeOK' /\ RunnerInv'
  BY TypeStep, RunnerStep
<1>3. Init => Abstract!Init
  BY DEF Init, Abstract!Init, Phase, At
<1>4. (TypeOK /\ RunnerInv => PhasesAgree) /\ (TypeOK /\ RunnerInv => PhasesAgree)'
  BY PhasesOfHandlers, PTL
<1>5. TypeOK /\ RunnerInv /\ TypeOK' /\ RunnerInv' /\ [Next]_vars => [Abstract!Next]_(Abstract!vars)
  BY <1>4, RefinementStep
<1> QED  BY <1>1, <1>2, <1>3, <1>5, PTL DEF Spec, ImplementsEventOnce, Abstract!Spec

=============================================================================
