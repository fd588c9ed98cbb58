------------------------------ MODULE Billing ------------------------------
(***************************************************************************)
(* One organisation's subscription row, the copy of it kept on the         *)
(* organisation row, and everything that writes them at the same time:     *)
(*                                                                         *)
(*   - Stripe webhook handlers (StripeBillingService.process and sync):    *)
(*     the event says WHICH Stripe subscription changed, its state is read *)
(*     back from Stripe, then written in a later transaction;              *)
(*   - access checks (SubscriptionService.getAccess), run by every request *)
(*     and by the scheduler: the row is read, and later marked EXPIRED by  *)
(*     an update conditional on the status that was read;                  *)
(*   - the platform administrator's grants, and the owner's requests,      *)
(*     which change Stripe's state and not the row.                        *)
(*                                                                         *)
(* Stripe is external: it is modelled by the calls this code makes and by  *)
(* the states and events the code handles.  An event is pending from the   *)
(* change it reports until a handler has marked it processed; what may     *)
(* happen to one event (duplicates, retries, take-overs) is the subject of *)
(* WebhookLedger.  The history rows and the notices are left out, except   *)
(* the count of the expiry rows.                                           *)
(*                                                                         *)
(* Bounds: MaxTime, MaxEvents (changes made at Stripe), MaxFailures        *)
(* (handlers and checks that fail or die).                                 *)
(***************************************************************************)
EXTENDS AccessRules, FiniteSets

CONSTANTS
  Subs,          \* Stripe subscription ids this organisation may ever have
  Handlers,      \* webhook calls in progress at once
  Requests,      \* members' requests in progress at once: each checks the rights
  Schedulers,    \* passes of the scheduler in progress at once
  SoldPlans,     \* the paid plans on sale
  GrantPlans,    \* plans the administrator may grant ...
  GrantEnds,     \* ... and dates until which he may
  Period,        \* length of a paid period
  TrialDuration, \* TRIAL_DURATION_MS
  MaxTime, MaxEvents, MaxFailures,
  Null

ASSUME BillingAssumption ==
  /\ SoldPlans \subseteq PaidPlans
  /\ GrantPlans \subseteq PaidPlans /\ GrantEnds \subseteq Nat
  /\ Period \in Nat \ {0}
  /\ TrialDuration \in Nat
  /\ MaxTime \in Nat /\ MaxEvents \in Nat /\ MaxFailures \in Nat
  /\ IsFiniteSet(Requests) /\ IsFiniteSet(Schedulers)
  /\ Requests \cap Schedulers = {}
  /\ Null \notin Subs

VARIABLES
  now,          \* the server clock
  remote,       \* Stripe's state of each subscription
  checkouts,    \* Checkout sessions open at Stripe
  pending,      \* events of each Stripe subscription not yet processed
  emitted,      \* changes made at Stripe so far
  failures,     \* failures so far
  hpc, hsub, hsnap,         \* handlers: place, subscription, state read at Stripe
  sub,          \* the active subscription row
  org,          \* its copy on the organisation row
  cpc, cfrom, cto, ccopy,   \* checks: place, status read, status and copy to write
  owed,         \* history: times the row entered an open status, less the
                \* rows TRIAL_EXPIRED and EXPIRED written to the history table
  covered       \* history: how far the trial, payments and grants reach, by plan

stripeVars == <<remote, checkouts, emitted>>
handlerVars == <<hpc, hsub, hsnap>>
checkerVars == <<cpc, cfrom, cto, ccopy>>
rowVars == <<sub, org>>
vars == <<now, remote, checkouts, pending, emitted, failures, hpc, hsub, hsnap,
          sub, org, cpc, cfrom, cto, ccopy, owed, covered>>

---------------------------------------------------------------------------
\* Vocabulary.

Checkers == Requests \cup Schedulers

StripeStatuses == {"none", "incomplete", "active", "past_due", "canceled"}

Unsold == [status |-> "none", plan |-> Null, next |-> Null, end |-> 0, cancel |-> FALSE]

\* "next" is the plan a subscription schedule sets for the next period.
SoldType == [status: StripeStatuses \ {"none"}, plan: PaidPlans, next: PaidPlans,
             end: Nat, cancel: BOOLEAN]
RemoteType == SoldType \cup {Unsold}

OrgType == [plan: Plans, subscriptionStatus: Statuses, subscriptionExpiresAt: Dates]

Row == SubscriptionType(Subs \cup {Null})

OpenStatuses == {"TRIALING", "ACTIVE", "GRACE_PERIOD"}

PlanRank(p) == CASE p = "PRO" -> 1 [] p = "PLUS" -> 2 [] OTHER -> 3

Later(a, b) == IF a < b THEN b ELSE a

\* startTrial: the row of an account whose trial was granted, or refused.
TrialRow(granted) ==
  [plan |-> "STANDARD", status |-> IF granted THEN "TRIALING" ELSE "EXPIRED",
   paymentProvider |-> "trial",
   expiresAt |-> IF granted THEN TrialDuration ELSE 0,
   gracePeriodEndsAt |-> NoDate,
   trialEndsAt |-> IF granted THEN TrialDuration ELSE 0,
   currentPeriodEnd |-> NoDate, cancelAtPeriodEnd |-> FALSE,
   externalSubscriptionId |-> Null]

OrgCopy(row, status, end) ==
  [plan |-> row.plan, subscriptionStatus |-> status, subscriptionExpiresAt |-> end]

Init ==
  /\ now = 0
  /\ remote = [s \in Subs |-> Unsold]
  /\ checkouts = 0
  /\ pending = [s \in Subs |-> 0]
  /\ emitted = 0
  /\ failures = 0
  /\ hpc = [h \in Handlers |-> "idle"]
  /\ hsub = [h \in Handlers |-> Null]
  /\ hsnap = [h \in Handlers |-> Unsold]
  /\ \E granted \in BOOLEAN :
       /\ sub = TrialRow(granted)
       /\ owed = IF granted THEN 1 ELSE 0
       /\ covered = [p \in Plans |-> IF p = "STANDARD" /\ granted THEN TrialDuration ELSE 0]
  /\ org = OrgCopy(sub, sub.status, sub.expiresAt)
  /\ cpc = [c \in Checkers |-> "idle"]
  /\ cfrom = [c \in Checkers |-> Null]
  /\ cto = [c \in Checkers |-> Null]
  /\ ccopy = [c \in Checkers |-> Null]

---------------------------------------------------------------------------
\* Stripe (external) and the requests that reach it.

\* Stripe moves subscription s to r and will report it by one event.
RemoteChange(s, r) ==
  /\ emitted < MaxEvents
  /\ emitted' = emitted + 1
  /\ remote' = [remote EXCEPT ![s] = r]
  /\ pending' = [pending EXCEPT ![s] = @ + 1]
  /\ covered' = IF r.status = "active"
                THEN [covered EXCEPT ![r.plan] = Later(@, r.end)] ELSE covered
  /\ UNCHANGED <<now, failures, handlerVars, rowVars, checkerVars, owed>>

\* createCheckout: refused while a Stripe subscription is in place.
CreateCheckout ==
  /\ ~ /\ sub.paymentProvider = "stripe"
       /\ sub.externalSubscriptionId # Null
       /\ sub.status # "CANCELLED"
  /\ checkouts < Cardinality({s \in Subs : remote[s].status = "none"})
  /\ checkouts' = checkouts + 1
  /\ UNCHANGED <<now, remote, pending, emitted, failures, handlerVars, rowVars,
                 checkerVars, owed, covered>>

\* The customer goes through an open session; the first payment may need a
\* confirmation, and the subscription is then incomplete.
CompleteCheckout(s, p, status) ==
  /\ checkouts > 0
  /\ remote[s].status = "none"
  /\ RemoteChange(s, [status |-> status, plan |-> p, next |-> p,
                      end |-> now + Period, cancel |-> FALSE])
  /\ checkouts' = checkouts - 1

PaymentConfirmed(s) ==
  /\ remote[s].status \in {"incomplete", "past_due"}
  /\ RemoteChange(s, [remote[s] EXCEPT !.status = "active"])
  /\ UNCHANGED checkouts

\* The period is over and the next one is paid, on the plan scheduled for it.
Renew(s) ==
  /\ remote[s].status \in {"active", "past_due"}
  /\ ~remote[s].cancel /\ now >= remote[s].end
  /\ RemoteChange(s, [remote[s] EXCEPT !.status = "active", !.end = @ + Period,
                                       !.plan = remote[s].next])
  /\ UNCHANGED checkouts

\* A payment is refused; the period already paid keeps its end.
PaymentFails(s) ==
  /\ remote[s].status = "active"
  /\ RemoteChange(s, [remote[s] EXCEPT !.status = "past_due"])
  /\ UNCHANGED checkouts

\* End of a cancelled period, end of the payment retries, or Stripe's dashboard.
StripeCancels(s) ==
  /\ remote[s].status \in {"active", "past_due"}
  /\ RemoteChange(s, [remote[s] EXCEPT !.status = "canceled"])
  /\ UNCHANGED checkouts

\* The owner's requests go to the subscription the ROW names.
OwnedAtStripe(s) ==
  /\ sub.paymentProvider = "stripe"
  /\ sub.externalSubscriptionId = s
  /\ remote[s].status \in {"active", "past_due"}

SetCancelAtPeriodEnd(s, cancel) ==
  /\ OwnedAtStripe(s)
  /\ remote[s].cancel # cancel
  /\ RemoteChange(s, [remote[s] EXCEPT !.cancel = cancel])
  /\ UNCHANGED checkouts

\* An upgrade applies at once, only if it is paid (pending_if_incomplete);
\* anything else is scheduled for the next period.
ChangePlan(s, p) ==
  /\ OwnedAtStripe(s)
  /\ p # remote[s].plan
  /\ IF PlanRank(p) > PlanRank(remote[s].plan)
     THEN /\ remote[s].status = "active"
          /\ RemoteChange(s, [remote[s] EXCEPT !.plan = p, !.next = p])
     ELSE RemoteChange(s, [remote[s] EXCEPT !.next = p])
  /\ UNCHANGED checkouts

Tick ==
  /\ now < MaxTime
  /\ now' = now + 1
  /\ UNCHANGED <<stripeVars, pending, failures, handlerVars, rowVars, checkerVars,
                 owed, covered>>

Stripe ==
  \/ CreateCheckout
  \/ \E s \in Subs :
       \/ \E p \in SoldPlans, status \in {"incomplete", "active"} : CompleteCheckout(s, p, status)
       \/ PaymentConfirmed(s)
       \/ Renew(s)
       \/ PaymentFails(s)
       \/ StripeCancels(s)
       \/ \E cancel \in BOOLEAN : SetCancelAtPeriodEnd(s, cancel)
       \/ \E p \in SoldPlans : ChangePlan(s, p)

---------------------------------------------------------------------------
\* The webhook handler.

\* Mutant: an unpaid subscription is taken for a paid one.
MapStatusOpen(status) ==
  CASE status = "past_due" -> "PAST_DUE"
    [] status = "canceled" -> "CANCELLED"
    [] status = "none"     -> Null
    [] OTHER               -> "ACTIVE"

\* An incomplete subscription gives nothing to apply.
MapStatus(status) ==
  CASE status = "active"   -> "ACTIVE"
    [] status = "past_due" -> "PAST_DUE"
    [] status = "canceled" -> "CANCELLED"
    [] OTHER               -> Null

\* The columns applyPaidState writes.
PaidRow(plan, status, end, cancel, provider, external) ==
  [sub EXCEPT !.plan = plan, !.status = status, !.currentPeriodEnd = end,
              !.expiresAt = end, !.gracePeriodEndsAt = NoDate,
              !.cancelAtPeriodEnd = cancel, !.paymentProvider = provider,
              !.externalSubscriptionId = external]

\* applyPaidState: both rows in one transaction.
ApplyPaidState(row) ==
  /\ sub' = row
  /\ org' = OrgCopy(row, row.status, row.expiresAt)
  /\ owed' = IF row.status \in OpenStatuses /\ sub.status \notin OpenStatuses
             THEN owed + 1 ELSE owed

Claim(h, s) ==
  /\ hpc[h] = "idle"
  /\ pending[s] > 0
  /\ pending' = [pending EXCEPT ![s] = @ - 1]
  /\ hpc' = [hpc EXCEPT ![h] = "retrieve"]
  /\ hsub' = [hsub EXCEPT ![h] = s]
  /\ UNCHANGED <<now, stripeVars, failures, hsnap, rowVars, checkerVars, owed,
                 covered>>

\* process: stripe.subscriptions.retrieve.
Retrieve(h) ==
  /\ hpc[h] = "retrieve"
  /\ hsnap' = [hsnap EXCEPT ![h] = remote[hsub[h]]]
  /\ hpc' = [hpc EXCEPT ![h] = "apply"]
  /\ UNCHANGED <<now, stripeVars, pending, failures, hsub, rowVars, checkerVars,
                 owed, covered>>

\* sync: the state read at Stripe is written, whatever the row says by now; it
\* is not needed any more.
Sync(h) ==
  /\ hpc[h] = "apply"
  /\ IF MapStatus(hsnap[h].status) = Null
     THEN UNCHANGED <<rowVars, owed>>
     ELSE ApplyPaidState(PaidRow(hsnap[h].plan, MapStatus(hsnap[h].status), hsnap[h].end,
                                 hsnap[h].cancel, "stripe", hsub[h]))
  /\ hpc' = [hpc EXCEPT ![h] = "mark"]
  /\ hsnap' = [hsnap EXCEPT ![h] = Unsold]
  /\ UNCHANGED <<now, stripeVars, pending, failures, hsub, checkerVars, covered>>

Release(h) ==
  /\ hpc' = [hpc EXCEPT ![h] = "idle"]
  /\ hsub' = [hsub EXCEPT ![h] = Null]
  /\ hsnap' = [hsnap EXCEPT ![h] = Unsold]

\* The event is recorded as PROCESSED or IGNORED.
Mark(h) ==
  /\ hpc[h] = "mark"
  /\ Release(h)
  /\ UNCHANGED <<now, stripeVars, pending, failures, rowVars, checkerVars, owed,
                 covered>>

\* Mutant: the event of a handler that fails is gone.
HandlerFailsForGood(h) ==
  /\ hpc[h] # "idle"
  /\ failures < MaxFailures
  /\ failures' = failures + 1
  /\ Release(h)
  /\ UNCHANGED <<now, pending, stripeVars, rowVars, checkerVars, owed, covered>>

\* An error at any step records FAILED, a crash records nothing: both leave
\* the event to be processed again.
HandlerFails(h) ==
  /\ hpc[h] # "idle"
  /\ failures < MaxFailures
  /\ failures' = failures + 1
  /\ pending' = [pending EXCEPT ![hsub[h]] = @ + 1]
  /\ Release(h)
  /\ UNCHANGED <<now, stripeVars, rowVars, checkerVars, owed, covered>>

\* What a handler does when nothing fails.
Serve(h) ==
  \/ \E s \in Subs : Claim(h, s)
  \/ Retrieve(h)
  \/ Sync(h)
  \/ Mark(h)

Webhook(h) == Serve(h) \/ HandlerFails(h)

---------------------------------------------------------------------------
\* The access check.

\* Mutant: the copy is rewritten only when the status has changed.
CopyOfTransition(status) ==
  IF status # sub.status THEN OrgCopy(sub, status, AccessEndsAt(sub)) ELSE Null

\* The copy getAccess writes in the end: none if the one read is already the same.
CopyToWrite(status) ==
  LET copy == OrgCopy(sub, status, AccessEndsAt(sub))
  IN  IF org # copy THEN copy ELSE Null

\* Where a check goes on: it is over when it has no copy to write.
AtCopy(copy) == IF copy = Null THEN "idle" ELSE "copy"

\* getAccess: both rows in one query, and computeAccess when it returns.  What
\* will be written depends on nothing read later, so that only this is kept; a
\* check that finds nothing to write has no effect.
ReadRows(c) ==
  /\ cpc[c] = "idle"
  /\ LET status == EffectiveStatus(sub, now)
         lapsed == status # sub.status
     IN  /\ cfrom' = [cfrom EXCEPT ![c] = IF lapsed THEN sub.status ELSE Null]
         /\ cto' = [cto EXCEPT ![c] = IF lapsed THEN status ELSE Null]
         /\ ccopy' = [ccopy EXCEPT ![c] = CopyToWrite(status)]
         /\ cpc' = [cpc EXCEPT ![c] = IF lapsed THEN "persist" ELSE AtCopy(CopyToWrite(status))]
  /\ UNCHANGED <<now, stripeVars, pending, failures, handlerVars, rowVars, owed,
                 covered>>

\* resolveAccessContext: a member's request.
ReadAccess(c) == c \in Requests /\ ReadRows(c)

\* Mutant: the scheduler forgets the trials.
DueIfActive == sub.status = "ACTIVE" /\ sub.expiresAt # NoDate /\ sub.expiresAt <= now

\* expireDue: the scheduler checks the rows whose end has come.
Due == sub.status \in OpenStatuses /\ sub.expiresAt # NoDate /\ sub.expiresAt <= now

ExpireDue(c) == c \in Schedulers /\ Due /\ ReadRows(c)

\* Mutant: the update does not look at the status.
PersistAnyway(c) ==
  /\ cpc[c] = "persist"
  /\ sub' = Marked(sub, cto[c])
  /\ cpc' = [cpc EXCEPT ![c] = "record"]
  /\ cfrom' = [cfrom EXCEPT ![c] = Null]
  /\ cto' = [cto EXCEPT ![c] = Null]
  /\ UNCHANGED <<now, stripeVars, pending, failures, handlerVars, org, ccopy,
                 owed, covered>>

\* persistTransition: an update that matches only if the status is still the
\* one read, whatever else the row has become.
PersistTransition(c) ==
  /\ cpc[c] = "persist"
  /\ LET matched == sub.status = cfrom[c]
     IN  /\ sub' = IF matched THEN Marked(sub, cto[c]) ELSE sub
         /\ cpc' = [cpc EXCEPT ![c] = IF matched THEN "record" ELSE AtCopy(ccopy[c])]
  /\ cfrom' = [cfrom EXCEPT ![c] = Null]
  /\ cto' = [cto EXCEPT ![c] = Null]
  /\ UNCHANGED <<now, stripeVars, pending, failures, handlerVars, org, ccopy,
                 owed, covered>>

\* persistTransition, once its update matched: the history row.
RecordExpiry(c) ==
  /\ cpc[c] = "record"
  /\ owed' = owed - 1
  /\ cpc' = [cpc EXCEPT ![c] = AtCopy(ccopy[c])]
  /\ UNCHANGED <<now, stripeVars, pending, failures, handlerVars, rowVars, cfrom, cto,
                 ccopy, covered>>

CheckDone(c) ==
  /\ cpc' = [cpc EXCEPT ![c] = "idle"]
  /\ cfrom' = [cfrom EXCEPT ![c] = Null]
  /\ cto' = [cto EXCEPT ![c] = Null]
  /\ ccopy' = [ccopy EXCEPT ![c] = Null]

\* getAccess: the organisation's copy is rewritten.
CopyToOrg(c) ==
  /\ cpc[c] = "copy"
  /\ org' = ccopy[c]
  /\ CheckDone(c)
  /\ UNCHANGED <<now, stripeVars, pending, failures, handlerVars, sub, owed,
                 covered>>

\* The request's process dies, or its next query fails.
CheckFails(c) ==
  /\ cpc[c] # "idle"
  /\ failures < MaxFailures
  /\ failures' = failures + 1
  /\ CheckDone(c)
  /\ UNCHANGED <<now, stripeVars, pending, handlerVars, rowVars, owed, covered>>

\* What getAccess does once it has read the rows, when nothing fails.
GoOn(c) ==
  \/ PersistTransition(c)
  \/ RecordExpiry(c)
  \/ CopyToOrg(c)

Check(c) ==
  \/ ReadAccess(c)
  \/ ExpireDue(c)
  \/ GoOn(c)
  \/ CheckFails(c)

---------------------------------------------------------------------------
\* adminGrant: a period without payment; the external id is kept.
AdminGrant(p, until) ==
  /\ until > now
  /\ ApplyPaidState(PaidRow(p, "ACTIVE", until, TRUE, "admin", sub.externalSubscriptionId))
  /\ covered' = [covered EXCEPT ![p] = Later(@, until)]
  /\ UNCHANGED <<now, stripeVars, pending, failures, handlerVars, checkerVars>>

Next ==
  \/ Tick
  \/ Stripe
  \/ \E h \in Handlers : Webhook(h)
  \/ \E c \in Checkers : Check(c)
  \/ \E p \in GrantPlans, until \in GrantEnds : AdminGrant(p, until)

Spec == Init /\ [][Next]_vars

\* Node runs every handler and request it has started; Stripe redelivers what
\* was not acknowledged; the scheduler looks for due rows again and again.
\* Nothing obliges customers, Stripe or the clock to move.
Fairness ==
  /\ \A h \in Handlers : WF_vars(Serve(h))
  /\ \A c \in Schedulers : WF_vars(ExpireDue(c) \/ GoOn(c))
  /\ \A c \in Requests : WF_vars(GoOn(c))

FairSpec == Spec /\ Fairness

\* Members go on using the application: every request checks the rights of
\* its organisation.
Busy == \A c \in Requests : WF_vars(ReadAccess(c))

---------------------------------------------------------------------------
\* Properties.

TypeOK ==
  /\ now \in Nat
  /\ remote \in [Subs -> RemoteType]
  /\ checkouts \in Nat
  /\ pending \in [Subs -> Nat]
  /\ emitted \in Nat
  /\ failures \in Nat
  /\ hpc \in [Handlers -> {"idle", "retrieve", "apply", "mark"}]
  /\ hsub \in [Handlers -> Subs \cup {Null}]
  /\ hsnap \in [Handlers -> RemoteType]
  /\ \A h \in Handlers : hpc[h] # "idle" => hsub[h] \in Subs
  /\ sub \in Row
  /\ org \in OrgType
  /\ cpc \in [Checkers -> {"idle", "persist", "record", "copy"}]
  /\ cfrom \in [Checkers -> Statuses \cup {Null}]
  /\ cto \in [Checkers -> Statuses \cup {Null}]
  /\ ccopy \in [Checkers -> OrgType \cup {Null}]
  /\ \A c \in Checkers : cpc[c] = "persist" => cto[c] \in Statuses
  /\ \A c \in Checkers : cpc[c] = "copy" => ccopy[c] \in OrgType
  /\ owed \in Int
  /\ covered \in [Plans -> Nat]

\* Rights are never given, and no plan is ever used, beyond what a trial, a
\* confirmed payment or a grant of that very plan covers (plus the delay left
\* for an automatic renewal), whatever the handlers and checks interleave:
\* computeAccess on a row that sync and applyPaidState may write in any order.
EntitledOnlyWhileCovered ==
  Entitled(sub, now) =>
    \/ now < covered[sub.plan]
    \/ AwaitsRenewal(sub) /\ now < covered[sub.plan] + RenewalConfirmation

\* The history never holds two expiry rows for one period of open rights,
\* although every request and the scheduler may see the same row run out:
\* "une seule fois (mise a jour conditionnelle)" of persistTransition.
ExpiryRecordedOnce == owed >= 0

\* Every event has been processed and no handler is at work.
Quiet == /\ \A s \in Subs : pending[s] = 0
         /\ \A h \in Handlers : hpc[h] = "idle"

\* A row that has run out gives the same rights, and refuses for the same
\* reason, whether or not a check has marked it, now and at any later instant:
\* "un essai echu est EXPIRED meme avant mise a jour en base" of
\* AccessState.status.  Dates left from an earlier life of the row (a trial
\* that came before a payment) must not tell the two apart.
SameBeforeAndAfterMark ==
  LET marked == Marked(sub, EffectiveStatus(sub, now))
  IN  marked # sub =>
        \A later \in now..(MaxTime + Period + RenewalConfirmation) :
          /\ Capabilities(marked, later) = Capabilities(sub, later)
          /\ Denial(marked, later) = Denial(sub, later)
          /\ EffectiveStatus(marked, later) = EffectiveStatus(sub, later)

\* What stripe-billing.service.ts:307-308 says of sync: the state is read back
\* from Stripe, "l'ordre d'arrivee des evenements n'a donc pas d'importance".
\* Once every event is processed the row would be Stripe's present state, but
\* for a status a check has taken to EXPIRED since, and a grant.  Two handlers
\* that overlap may write what they read in the other order, and leave the row
\* behind.
RowFollowsStripe ==
  Quiet =>
    \A s \in Subs :
      MapStatus(remote[s].status) # Null /\ sub.paymentProvider # "admin" =>
        /\ sub.paymentProvider = "stripe"
        /\ sub.externalSubscriptionId = s
        /\ sub.plan = remote[s].plan
        /\ sub.currentPeriodEnd = remote[s].end
        /\ sub.cancelAtPeriodEnd = remote[s].cancel
        /\ sub.status \in {MapStatus(remote[s].status), "EXPIRED"}

\* A period paid at Stripe reaches the row in the end, whatever the handlers
\* that fail on the way: the event is delivered and processed again.  The row
\* is never behind a paid subscription for good.
PaymentReachesRow ==
  \A s \in Subs : []<>
    \/ remote[s].status # "active"
    \/ sub.externalSubscriptionId = s /\ sub.currentPeriodEnd = remote[s].end
    \/ sub.paymentProvider = "admin"

\* Rights that have run out are recorded as EXPIRED in the end, even if no
\* member ever comes back: the scheduler does it.  The row is never left open
\* for good without rights.
LapsedIsRecorded ==
  []<>(sub.status \in OpenStatuses => Entitled(sub, now))

\* However many stale copies are written over it, the organisation's copy of
\* the plan, status and end agrees with the row in the end.
OrgCopyHeals ==
  Busy => <>[](org = OrgCopy(sub, EffectiveStatus(sub, now), AccessEndsAt(sub)))

=============================================================================
