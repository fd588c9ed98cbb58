--------------------------- MODULE WebhookLedger ---------------------------
(***************************************************************************)
(* The ledger of Stripe events (payment_provider_events): what the code    *)
(* does so that an event delivered several times, to several servers, with *)
(* failures and crashes, is processed once.  StripeBillingService.claim    *)
(* takes an event by a unique insert or, for one that failed or has been   *)
(* "processing" for too long, by a conditional update; handleWebhook then  *)
(* processes it and records the outcome, by updates that are NOT           *)
(* conditional.                                                            *)
(*                                                                         *)
(* Processing is one step here: Billing has its detail.  An event with     *)
(* nothing to apply (IGNORED) goes through the same steps.                 *)
(*                                                                         *)
(* Time is kept in timers that stop where nothing can tell the difference: *)
(* the age of a claim just after Stale, the time since the last delivery   *)
(* at RetryDelay.  HandlingTime is how long one delivery can keep a server *)
(* busy; nothing in the code bounds it but the time-outs of Stripe's       *)
(* client and of the database.                                             *)
(*                                                                         *)
(* Bounds: MaxFailures (errors and crashes), MaxDuplicates (deliveries     *)
(* Stripe makes without being asked to).                                   *)
(***************************************************************************)
EXTENDS Naturals, FiniteSets

CONSTANTS
  Events, Handlers,
  Stale,         \* STALE_PROCESSING_MS
  HandlingTime,  \* longest time a delivery is being handled
  RetryDelay,    \* time after which Stripe delivers an unacknowledged event again
  MaxFailures, MaxDuplicates,
  None

ASSUME LedgerAssumption ==
  /\ Stale \in Nat /\ HandlingTime \in Nat /\ RetryDelay \in Nat
  /\ MaxFailures \in Nat /\ MaxDuplicates \in Nat
  /\ None \notin Events

VARIABLES
  status,     \* of the ledger row of each event
  age,        \* time since receivedAt, the date of the claim
  acked,      \* Stripe has been answered 200
  sinceSent,  \* time since Stripe last delivered the event
  pc, event, spent,  \* handlers: place, event, time since the delivery
  effects,    \* history: times the event was applied
  failures, duplicates

ledger == <<status, age>>
stripe == <<acked, sinceSent, duplicates>>
vars == <<status, age, acked, sinceSent, pc, event, spent, effects, failures, duplicates>>

---------------------------------------------------------------------------

Init ==
  /\ status = [e \in Events |-> "absent"]
  /\ age = [e \in Events |-> 0]
  /\ acked = [e \in Events |-> FALSE]
  /\ sinceSent = [e \in Events |-> RetryDelay]
  /\ pc = [h \in Handlers |-> "idle"]
  /\ event = [h \in Handlers |-> None]
  /\ spent = [h \in Handlers |-> 0]
  /\ effects = [e \in Events |-> 0]
  /\ failures = 0
  /\ duplicates = 0

\* Stripe (external) posts an event that is due, or posts one again.
Due(e) == ~acked[e] /\ sinceSent[e] = RetryDelay

Deliver(h, e) ==
  /\ pc[h] = "idle"
  /\ \/ Due(e) /\ UNCHANGED duplicates
     \/ ~Due(e) /\ duplicates < MaxDuplicates /\ duplicates' = duplicates + 1
  /\ sinceSent' = [sinceSent EXCEPT ![e] = 0]
  /\ pc' = [pc EXCEPT ![h] = "insert"]
  /\ event' = [event EXCEPT ![h] = e]
  /\ spent' = [spent EXCEPT ![h] = 0]
  /\ UNCHANGED <<ledger, acked, effects, failures>>

\* Time passes while no delivery has lasted for HandlingTime.
Tick ==
  /\ \A h \in Handlers : pc[h] # "idle" => spent[h] < HandlingTime
  /\ age' = [e \in Events |-> IF age[e] > Stale THEN age[e] ELSE age[e] + 1]
  /\ sinceSent' = [e \in Events |-> IF sinceSent[e] < RetryDelay THEN sinceSent[e] + 1
                                    ELSE sinceSent[e]]
  /\ spent' = [h \in Handlers |-> IF pc[h] # "idle" THEN spent[h] + 1 ELSE 0]
  /\ UNCHANGED <<status, acked, pc, event, effects, failures, duplicates>>

---------------------------------------------------------------------------

Goto(h, place) ==
  /\ pc' = [pc EXCEPT ![h] = place]
  /\ UNCHANGED <<event, spent>>

Free(h) ==
  /\ pc' = [pc EXCEPT ![h] = "idle"]
  /\ event' = [event EXCEPT ![h] = None]
  /\ spent' = [spent EXCEPT ![h] = 0]

Answer200(h) == acked' = [acked EXCEPT ![event[h]] = TRUE]

TakeEvent(h) ==
  /\ status' = [status EXCEPT ![event[h]] = "PROCESSING"]
  /\ age' = [age EXCEPT ![event[h]] = 0]

\* Mutant: a unique conflict is thrown on instead of leading to the update.
InsertThrows(h) ==
  /\ pc[h] = "insert"
  /\ \/ status[event[h]] = "absent" /\ TakeEvent(h) /\ Goto(h, "process")
     \/ status[event[h]] # "absent" /\ Free(h) /\ UNCHANGED ledger
  /\ UNCHANGED <<stripe, effects, failures>>

\* claim, the unique insert.
Insert(h) ==
  /\ pc[h] = "insert"
  /\ \/ status[event[h]] = "absent" /\ TakeEvent(h) /\ Goto(h, "process")
     \/ status[event[h]] # "absent" /\ Goto(h, "retake") /\ UNCHANGED ledger
  /\ UNCHANGED <<stripe, effects, failures>>

\* claim, the conditional update.
Takable(e) == status[e] = "FAILED" \/ (status[e] = "PROCESSING" /\ age[e] > Stale)

Retake(h) ==
  /\ pc[h] = "retake" /\ Takable(event[h])
  /\ TakeEvent(h)
  /\ Goto(h, "process")
  /\ UNCHANGED <<stripe, effects, failures>>

\* DUPLICATE is answered 200 all the same.
Duplicate(h) ==
  /\ pc[h] = "retake" /\ ~Takable(event[h])
  /\ Answer200(h)
  /\ Free(h)
  /\ UNCHANGED <<ledger, sinceSent, duplicates, effects, failures>>

Process(h) ==
  /\ pc[h] = "process"
  /\ effects' = [effects EXCEPT ![event[h]] = @ + 1]
  /\ Goto(h, "record")
  /\ UNCHANGED <<ledger, stripe, failures>>

\* PROCESSED or IGNORED is recorded, and 200 answered.
Record(h) ==
  /\ pc[h] = "record"
  /\ status' = [status EXCEPT ![event[h]] = "PROCESSED"]
  /\ Answer200(h)
  /\ Free(h)
  /\ UNCHANGED <<age, sinceSent, duplicates, effects, failures>>

\* An error, of the processing or of the update that records its outcome ...
Fail(h) ==
  /\ pc[h] \in {"process", "record"}
  /\ failures < MaxFailures
  /\ failures' = failures + 1
  /\ Goto(h, "failed")
  /\ UNCHANGED <<ledger, stripe, effects>>

\* Mutant: the failure is recorded as PROCESSED.
RecordFailureAsDone(h) ==
  /\ pc[h] = "failed"
  /\ status' = [status EXCEPT ![event[h]] = "PROCESSED"]
  /\ Free(h)
  /\ UNCHANGED <<age, stripe, effects, failures>>

\* ... is recorded as FAILED, and 500 answered.
RecordFailure(h) ==
  /\ pc[h] = "failed"
  /\ status' = [status EXCEPT ![event[h]] = "FAILED"]
  /\ Free(h)
  /\ UNCHANGED <<age, stripe, effects, failures>>

\* The server dies, or loses the database: nothing recorded, nothing answered.
Crash(h) ==
  /\ pc[h] # "idle"
  /\ failures < MaxFailures
  /\ failures' = failures + 1
  /\ Free(h)
  /\ UNCHANGED <<ledger, stripe, effects>>

Handle(h) == Insert(h) \/ Retake(h) \/ Duplicate(h) \/ Process(h) \/ Record(h) \/ RecordFailure(h)

Next ==
  \/ Tick
  \/ \E h \in Handlers :
       \/ \E e \in Events : Deliver(h, e)
       \/ Handle(h)
       \/ Fail(h)
       \/ Crash(h)

Spec == Init /\ [][Next]_vars

\* Servers run what they have started, and Stripe retries what is not acknowledged.
Fairness ==
  /\ WF_vars(Tick)
  /\ \A h \in Handlers : WF_vars(Handle(h))
  /\ \A e \in Events : WF_vars(\E h \in Handlers : Due(e) /\ Deliver(h, e))

FairSpec == Spec /\ Fairness

---------------------------------------------------------------------------
\* Properties.

Places == {"idle", "insert", "retake", "process", "record", "failed"}

TypeOK ==
  /\ status \in [Events -> {"absent", "PROCESSING", "PROCESSED", "FAILED"}]
  /\ age \in [Events -> Nat]
  /\ acked \in [Events -> BOOLEAN]
  /\ sinceSent \in [Events -> Nat]
  /\ pc \in [Handlers -> Places]
  /\ event \in [Handlers -> Events \cup {None}]
  /\ spent \in [Handlers -> Nat]
  /\ \A h \in Handlers : pc[h] # "idle" => event[h] \in Events
  /\ effects \in [Events -> Nat]
  /\ failures \in Nat /\ duplicates \in Nat

\* The handler has claimed its event and not yet recorded the outcome.
Runs(h, e) == event[h] = e /\ pc[h] \in {"process", "record", "failed"}

\* No two handlers process the same event at once: claim is false when the
\* event "is being processed elsewhere".
OneRunner ==
  \A e \in Events : \A g, h \in Handlers : Runs(g, e) /\ Runs(h, e) => g = h

\* An event recorded as processed stays so and is never applied again,
\* although neither update that records an outcome looks at the status.
DoneIsFinal ==
  [][\A e \in Events : status[e] = "PROCESSED" =>
       status'[e] = "PROCESSED" /\ effects'[e] = effects[e]]_vars

\* As long as Stripe makes no delivery of its own accord, every event is
\* processed in the end, through errors, crashes and retries: Stripe is not told
\* 200, and does not forget the event, before.
EveryEventIsDone ==
  \A e \in Events : [](duplicates = 0) => <>(status[e] = "PROCESSED")

\* The ledger implements EventOnce.
At(e, place) == \E h \in Handlers : event[h] = e /\ pc[h] = place

Phase(e) ==
  CASE status[e] = "PROCESSED"                     -> "done"
    [] status[e] # "PROCESSED" /\ At(e, "record")  -> "performed"
    [] status[e] # "PROCESSED" /\ ~At(e, "record") /\ At(e, "process") -> "running"
    [] OTHER                                       -> "waiting"

Abstract == INSTANCE EventOnce WITH phase <- [e \in Events |-> Phase(e)]

ImplementsEventOnce == Abstract!Spec

=============================================================================
