---------------------------- MODULE RentFollowUp ----------------------------
(***************************************************************************)
(* The rent of one month of one active lease: RentFollowUpService, run by  *)
(* the scheduler of every server instance and by the automation route, and *)
(* PaymentService, called by the staff and by the Mobile Money webhook.    *)
(* A pass creates the payment of the month, marks it late, and journals    *)
(* each reminder in rent_follow_up_logs before it sends it; every query of *)
(* a pass is a step of its own and what it found may be old when it is     *)
(* used.  A payment is recorded by a transaction that reads the row, then  *)
(* writes what it computed.                                                *)
(*                                                                         *)
(* Types of reminder are numbered in the order of a pass: 0 is DUE_SOON,   *)
(* 1..Levels the DUNNING_Ln, Levels + 1 is OWNER_ALERT.                    *)
(* Bounds: LastDay, MaxWrites, MaxFailures.                                *)
(***************************************************************************)
EXTENDS Integers

CONSTANTS
  Passes,        \* server instances and calls of the automation route
  Clients,       \* requests that record a payment or mark it unpaid
  Rent,          \* amount of the payment
  Amounts,       \* amounts a request may record
  DueDay,        \* dueDate
  LastDay,
  DaysBefore,    \* reminderDaysBefore
  Levels,        \* number of dunning levels
  DunningDay,    \* dunningDaysAfterDue
  OwnerAlertDay, \* ownerAlertDaysAfterDue
  MaxWrites, MaxFailures

ASSUME RentAssumption ==
  /\ Rent \in Nat \ {0} /\ Amounts \subseteq Nat \ {0}
  /\ DueDay \in Nat /\ LastDay \in Nat /\ DaysBefore \in Nat
  /\ Levels \in Nat \ {0} /\ OwnerAlertDay \in Nat
  /\ DunningDay \in [1..Levels -> Nat]
  /\ \A i, j \in 1..Levels : i < j => DunningDay[i] <= DunningDay[j]
  /\ MaxWrites \in Nat /\ MaxFailures \in Nat

DueSoon    == 0
OwnerAlert == Levels + 1
Types      == 0..OwnerAlert

VARIABLES
  day,
  rentStatus, paid,   \* the payment; status is "NONE" before the row exists
  log,            \* rent_follow_up_logs: types journaled for the payment
  noticed,        \* history: times each type was sent
  pass,           \* passes: place, type at hand, days late when it listed
  client,         \* requests: place, and what they are about to write
  writes, failures

rentVars == <<day, rentStatus, paid, log, noticed, pass, client, writes, failures>>
row  == <<rentStatus, paid>>
rent == <<rentStatus, paid, client, writes>>

Owing    == {"PENDING", "PARTIAL"}
Statuses == Owing \cup {"PAID", "LATE"}
Places   == {"idle", "ensure", "create", "late", "mark", "soon", "dunning",
             "alert", "check", "log", "notify"}

Nowhere == [at |-> "idle", type |-> DueSoon, late |-> 0]
NoCall  == [at |-> "idle", paid |-> 0, status |-> "PENDING"]

Overdue == DueDay < day

RentInit ==
  /\ day = 0
  /\ rentStatus = "NONE" /\ paid = 0
  /\ log = {} /\ noticed = [t \in Types |-> 0]
  /\ pass = [p \in Passes |-> Nowhere]
  /\ client = [c \in Clients |-> NoCall]
  /\ writes = 0 /\ failures = 0

-----------------------------------------------------------------------------
(* Payments. *)

\* Clock: days pass.
Tick ==
  /\ day < LastDay
  /\ day' = day + 1
  /\ UNCHANGED <<row, log, noticed, pass, client, writes, failures>>

\* A payment of the month created by hand or with the activation of the
\* lease: both insert it only if the month has none.
CreatePayment ==
  /\ rentStatus = "NONE"
  /\ rentStatus' = "PENDING"
  /\ UNCHANGED <<day, paid, log, noticed, pass, client, writes, failures>>

StatusAfter(total) == IF total >= Rent THEN "PAID" ELSE "PARTIAL"

Free(c) == client[c].at = "idle" /\ rentStatus # "NONE" /\ writes < MaxWrites

Read(c, total, next) ==
  /\ client' = [client EXCEPT ![c] = [at |-> "write", paid |-> total, status |-> next]]
  /\ writes' = writes + 1
  /\ UNCHANGED <<day, row, log, noticed, pass, failures>>

\* recordPayment adds the amount to the one it reads, also on a paid rent.
RecordRead(c) ==
  \E a \in Amounts :
    Free(c) /\ Read(c, paid + a, StatusAfter(paid + a))

\* markUnpaid is refused unless the payment is recorded as paid.
UnpayRead(c) ==
  /\ Free(c) /\ rentStatus \in {"PAID", "PARTIAL"}
  /\ Read(c, 0, IF Overdue THEN "LATE" ELSE "PENDING")

\* The update of either transaction, whatever the row has become.
WritePayment(c) ==
  LET call == client[c] IN
  /\ call.at = "write"
  /\ rentStatus' = call.status /\ paid' = call.paid
  /\ client' = [client EXCEPT ![c] = NoCall]
  /\ UNCHANGED <<day, log, noticed, pass, writes, failures>>

\* list first marks the late payments, by one update and without a notice.
ListPayments ==
  /\ rentStatus \in Owing /\ Overdue
  /\ rentStatus' = "LATE"
  /\ UNCHANGED <<day, paid, log, noticed, pass, client, writes, failures>>

Payments ==
  \/ CreatePayment \/ ListPayments
  \/ \E c \in Clients : RecordRead(c) \/ UnpayRead(c) \/ WritePayment(c)

-----------------------------------------------------------------------------
(* One pass of runDailyFollowUp. *)

Goto(p, place) == pass' = [pass EXCEPT ![p].at = place]
StartType(p, t, late) ==
  pass' = [pass EXCEPT ![p] = [at |-> "check", type |-> t, late |-> late]]
At(p, place) == pass[p].at = place

Start(p) ==
  /\ At(p, "idle") /\ Goto(p, "ensure")
  /\ UNCHANGED <<day, rent, log, noticed, failures>>

FindPayment(p) ==
  /\ At(p, "ensure")
  /\ Goto(p, IF rentStatus = "NONE" THEN "create" ELSE "late")
  /\ UNCHANGED <<day, rent, log, noticed, failures>>

\* The insert of ensureMonthlyPayments.  If the month got its payment in the
\* meantime, the unique index refuses it and the error ends the whole pass.
CreateMonth(p) ==
  /\ At(p, "create")
  /\ IF rentStatus = "NONE"
       THEN rentStatus' = "PENDING" /\ Goto(p, "late")
       ELSE rentStatus' = rentStatus /\ Goto(p, "idle")
  /\ UNCHANGED <<day, paid, client, writes, log, noticed, failures>>

\* Mutant: a partial payment is not looked for.
FindLatePending(p) ==
  /\ At(p, "late")
  /\ Goto(p, IF rentStatus = "PENDING" /\ Overdue THEN "mark" ELSE "soon")
  /\ UNCHANGED <<day, rent, log, noticed, failures>>

FindLate(p) ==
  /\ At(p, "late")
  /\ Goto(p, IF rentStatus \in Owing /\ Overdue THEN "mark" ELSE "soon")
  /\ UNCHANGED <<day, rent, log, noticed, failures>>

\* markLatePayments updates by id the rows it found, then sends PAYMENT_LATE.
MarkLate(p) ==
  /\ At(p, "mark") /\ Goto(p, "soon")
  /\ rentStatus' = "LATE"
  /\ UNCHANGED <<day, paid, client, writes, log, noticed, failures>>

FindDueSoon(p) ==
  /\ At(p, "soon")
  /\ IF rentStatus \in Owing /\ DueDay \in day..day + DaysBefore /\ DueSoon \notin log
       THEN StartType(p, DueSoon, 0)
       ELSE Goto(p, "dunning")
  /\ UNCHANGED <<day, rent, log, noticed, failures>>

\* Mutant: the pass sends the highest level reached only.
FindDunningHighest(p) ==
  /\ At(p, "dunning")
  /\ \/ /\ rentStatus = "LATE"
        /\ \E t \in 1..Levels :
             /\ day - DueDay >= DunningDay[t]
             /\ \A u \in t + 1..Levels : day - DueDay < DunningDay[u]
             /\ StartType(p, t, day - DueDay)
     \/ /\ rentStatus = "LATE" => day - DueDay < DunningDay[1]
        /\ Goto(p, "alert")
  /\ UNCHANGED <<day, rent, log, noticed, failures>>

FindDunning(p) ==
  /\ At(p, "dunning")
  /\ IF rentStatus = "LATE" /\ day - DueDay >= DunningDay[1]
       THEN StartType(p, 1, day - DueDay)
       ELSE Goto(p, "alert")
  /\ UNCHANGED <<day, rent, log, noticed, failures>>

FindAlert(p) ==
  /\ At(p, "alert")
  /\ IF rentStatus = "LATE" /\ day - DueDay >= OwnerAlertDay
       THEN StartType(p, OwnerAlert, 0)
       ELSE pass' = [pass EXCEPT ![p] = Nowhere]
  /\ UNCHANGED <<day, rent, log, noticed, failures>>

\* The step after a reminder: the next level reached, or the next stage.
AfterType(here) ==
  IF here.type \in 1..Levels - 1 /\ here.late >= DunningDay[here.type + 1]
    THEN [here EXCEPT !.at = "check", !.type = here.type + 1]
  ELSE IF here.type = DueSoon THEN [Nowhere EXCEPT !.at = "dunning"]
  ELSE IF here.type = OwnerAlert THEN Nowhere
  ELSE [Nowhere EXCEPT !.at = "alert"]

CheckLog(p) ==
  /\ At(p, "check")
  /\ IF pass[p].type \in log
       THEN pass' = [pass EXCEPT ![p] = AfterType(pass[p])]
       ELSE Goto(p, "log")
  /\ UNCHANGED <<day, rent, log, noticed, failures>>

\* Mutant: the journal is written by an upsert.
LogFollowUpUpsert(p) ==
  /\ At(p, "log")
  /\ Goto(p, "notify")
  /\ log' = log \cup {pass[p].type}
  /\ UNCHANGED <<day, rent, noticed, failures>>

\* One row for a payment and a type: a second insert is an error that ends
\* the pass.
LogFollowUp(p) ==
  /\ At(p, "log")
  /\ IF pass[p].type \in log
       THEN pass' = [pass EXCEPT ![p] = Nowhere]
       ELSE Goto(p, "notify")
  /\ log' = log \cup {pass[p].type}
  /\ UNCHANGED <<day, rent, noticed, failures>>

Notify(p) ==
  /\ At(p, "notify")
  /\ noticed' = [noticed EXCEPT ![pass[p].type] = @ + 1]
  /\ pass' = [pass EXCEPT ![p] = AfterType(pass[p])]
  /\ UNCHANGED <<day, rent, log, failures>>

\* An error of the database, a crash, or the end of a call of the job that
\* only marks the late payments.
Interrupt(p) ==
  /\ pass[p].at # "idle" /\ failures < MaxFailures
  /\ pass' = [pass EXCEPT ![p] = Nowhere]
  /\ failures' = failures + 1
  /\ UNCHANGED <<day, rent, log, noticed>>

Step(p) ==
  \/ Start(p) \/ FindPayment(p) \/ CreateMonth(p) \/ FindLate(p) \/ MarkLate(p)
  \/ FindDueSoon(p) \/ FindDunning(p) \/ FindAlert(p)
  \/ CheckLog(p) \/ LogFollowUp(p) \/ Notify(p)

RentNext ==
  \/ Tick \/ Payments
  \/ \E p \in Passes : Step(p) \/ Interrupt(p)

RentSpec == RentInit /\ [][RentNext]_rentVars

\* The scheduler of an instance starts a pass every six hours and runs it to
\* its end; a transaction ends; time passes.  Nobody has to pay.
Fairness ==
  /\ WF_rentVars(Tick)
  /\ \A p \in Passes : WF_rentVars(Step(p))
  /\ \A c \in Clients : WF_rentVars(WritePayment(c))

FairRentSpec == RentSpec /\ Fairness

-----------------------------------------------------------------------------
(* The days of a pass and of a request keep their types. *)
RentTypeOK ==
  /\ day \in 0..LastDay
  /\ rentStatus \in Statuses \cup {"NONE"} /\ paid \in Nat
  /\ log \subseteq Types /\ noticed \in [Types -> Nat]
  /\ pass \in [Passes -> [at : Places, type : Types, late : Int]]
  /\ client \in [Clients -> [at : {"idle", "write"}, paid : Nat,
                             status : Statuses]]
  /\ writes \in 0..MaxWrites /\ failures \in 0..MaxFailures

\* Whatever the number of passes at once, and wherever they are interrupted,
\* a reminder of one type is sent at most once for a payment: the journal is
\* written before the reminder is sent, and its unique index has one winner.
ReminderSentOnce == \A t \in Types : noticed[t] <= 1

\* Reminders are progressive: no level is journaled before those under it,
\* although two passes may be at different levels of the same payment.
LevelsInOrder ==
  \A t \in 2..Levels : t \in log => t - 1 \in log

\* The status of a payment that is not late says what has been paid, with
\* payments recorded and taken back while passes mark it.
StatusFitsAmount ==
  /\ rentStatus = "PAID" => paid >= Rent
  /\ rentStatus = "PARTIAL" => paid \in 1..Rent - 1
  /\ rentStatus = "PENDING" => paid = 0

\* A rent that stays unpaid is chased at every level its delay reaches,
\* although passes are interrupted and collide.
UnpaidIsChased ==
  <>[](rentStatus # "PAID")
    => \A t \in 1..Levels : DueDay + DunningDay[t] <= LastDay => <>(t \in log)

=============================================================================
