---------------------------- MODULE AccessRules ----------------------------
(***************************************************************************)
(* The rights an organisation has at an instant: the pure function         *)
(* computeAccess of access.rules.ts and the plan matrix of                 *)
(* plans.config.ts.  Dates are natural numbers; NoDate is null.            *)
(*                                                                         *)
(* A subscription record is any record with the fields of SubscriptionType *)
(* (the columns computeAccess reads, and externalSubscriptionId, which the *)
(* billing modules need).                                                  *)
(***************************************************************************)
EXTENDS Integers

CONSTANT RenewalConfirmation  \* SUBSCRIPTION_RENEWAL_CONFIRMATION_MINUTES

ASSUME RenewalConfirmationAssumption == RenewalConfirmation \in Nat

NoDate == -1
Dates == Nat \cup {NoDate}

Statuses == {"TRIALING", "ACTIVE", "GRACE_PERIOD", "SUSPENDED", "PAST_DUE",
             "CANCELLED", "EXPIRED"}
PaidPlans == {"PRO", "PLUS", "PRO_MAX"}
Plans == PaidPlans \cup {"STANDARD", "STARTER", "ENTERPRISE"}
LegacyProviders == {"manual", "legacy"}
Providers == LegacyProviders \cup {"trial", "stripe", "admin"}

\* The type of a subscription row whose external id is drawn from Ext.
SubscriptionType(Ext) ==
  [plan: Plans, status: Statuses, paymentProvider: Providers,
   expiresAt: Dates, gracePeriodEndsAt: Dates, trialEndsAt: Dates,
   currentPeriodEnd: Dates, cancelAtPeriodEnd: BOOLEAN,
   externalSubscriptionId: Ext]

---------------------------------------------------------------------------

IsBefore(now, end) == end # NoDate /\ now < end

Coalesce(a, b) == IF a # NoDate THEN a ELSE b

\* A legacy account, or one still on a withdrawn plan, has Pro Max.
EffectivePlan(sub) ==
  IF sub.paymentProvider \in LegacyProviders \/ sub.plan \in {"STARTER", "ENTERPRISE"}
  THEN "PRO_MAX" ELSE sub.plan

PlanCapabilities(plan) ==
  CASE plan = "PRO"     -> {"CORE_MANAGEMENT"}
    [] plan = "PRO_MAX" -> {"CORE_MANAGEMENT", "AGENT_MENU", "TENANT_MENU", "AI", "PREMIUM"}
    [] OTHER            -> {"CORE_MANAGEMENT", "AGENT_MENU", "TENANT_MENU"}

IsLegacy(sub) == sub.paymentProvider \in LegacyProviders

IsTrial(sub) == ~IsLegacy(sub) /\ (sub.status = "TRIALING" \/ sub.plan = "STANDARD")

IsPaid(sub) == ~IsLegacy(sub) /\ ~IsTrial(sub)

\* accessEndsAt: the end of the trial, of the legacy period or of the paid one.
AccessEndsAt(sub) ==
  CASE IsTrial(sub) -> Coalesce(sub.trialEndsAt, sub.expiresAt)
    [] IsLegacy(sub) -> IF sub.status = "GRACE_PERIOD"
                        THEN Coalesce(sub.gracePeriodEndsAt, sub.expiresAt)
                        ELSE sub.expiresAt
    [] OTHER -> Coalesce(sub.currentPeriodEnd, sub.expiresAt)

LegacyOpen(sub) == IsLegacy(sub) /\ sub.status \in {"ACTIVE", "GRACE_PERIOD"}

\* A Stripe subscription that renews by itself keeps its rights a little past
\* its end, until the renewal is confirmed.
AwaitsRenewal(sub) == sub.paymentProvider = "stripe" /\ ~sub.cancelAtPeriodEnd

PaidLimit(sub) ==
  IF AccessEndsAt(sub) # NoDate /\ AwaitsRenewal(sub)
  THEN AccessEndsAt(sub) + RenewalConfirmation ELSE AccessEndsAt(sub)

Entitled(sub, now) ==
  \/ IsTrial(sub) /\ sub.status = "TRIALING" /\ IsBefore(now, AccessEndsAt(sub))
  \/ LegacyOpen(sub) /\ (AccessEndsAt(sub) = NoDate \/ now < AccessEndsAt(sub))
  \/ IsPaid(sub) /\ sub.status = "ACTIVE" /\ IsBefore(now, PaidLimit(sub))
  \/ /\ IsPaid(sub) /\ sub.status \in {"PAST_DUE", "CANCELLED"}
     /\ IsBefore(now, AccessEndsAt(sub))

\* The status computeAccess returns: EXPIRED as soon as an open one has run out.
EffectiveStatus(sub, now) ==
  IF /\ ~Entitled(sub, now)
     /\ IsTrial(sub) \/ LegacyOpen(sub) \/ (IsPaid(sub) /\ sub.status = "ACTIVE")
  THEN "EXPIRED" ELSE sub.status

\* capabilities: those of the effective plan while entitled, none otherwise.
Capabilities(sub, now) ==
  IF Entitled(sub, now) THEN PlanCapabilities(EffectivePlan(sub)) ELSE {}

\* The reason a member is refused, which the routes return with a 403.
Denial(sub, now) ==
  IF Entitled(sub, now) THEN "NONE"
  ELSE IF IsTrial(sub) THEN "TRIAL_EXPIRED"
  ELSE IF sub.status = "CANCELLED" THEN "SUBSCRIPTION_CANCELLED"
  ELSE IF IsPaid(sub) /\ sub.status = "PAST_DUE" THEN "SUBSCRIPTION_PAST_DUE"
  ELSE "SUBSCRIPTION_EXPIRED"

\* Mutant: a row that has run out is marked as cancelled.
MarkedCancelled(row, status) ==
  [row EXCEPT !.status = IF status = "EXPIRED" THEN "CANCELLED" ELSE status]

\* The row once a check has marked it (persistTransition).
Marked(row, status) == [row EXCEPT !.status = status]

---------------------------------------------------------------------------
\* The rows the program writes.  No rule of this module reads the external id.

RowOf(plan, status, provider, expires, grace, trial, period, cancel) ==
  [plan |-> plan, status |-> status, paymentProvider |-> provider,
   expiresAt |-> expires, gracePeriodEndsAt |-> grace, trialEndsAt |-> trial,
   currentPeriodEnd |-> period, cancelAtPeriodEnd |-> cancel,
   externalSubscriptionId |-> NoDate]

\* startTrial.
TrialShape(r) ==
  \E status \in {"TRIALING", "EXPIRED"}, end \in Nat :
    r = RowOf("STANDARD", status, "trial", end, NoDate, end, NoDate, FALSE)

\* applyPaidState, for Stripe and for a grant, over a row that had a trial or not.
PaidShape(r) ==
  \E plan \in PaidPlans, status \in {"ACTIVE", "PAST_DUE", "CANCELLED", "EXPIRED"},
     provider \in {"stripe", "admin"}, end \in Nat, trial \in Dates, cancel \in BOOLEAN :
    r = RowOf(plan, status, provider, end, NoDate, trial, end, cancel)

\* The old model: the dates may be missing, and the statuses are its own.
LegacyShape(r) ==
  \E plan \in {"STARTER", "PRO", "ENTERPRISE", "PRO_MAX"}, provider \in LegacyProviders,
     status \in {"ACTIVE", "GRACE_PERIOD", "SUSPENDED", "CANCELLED", "EXPIRED"},
     end \in Dates, grace \in Dates :
    r = RowOf(plan, status, provider, end, grace, NoDate, NoDate, FALSE)

=============================================================================
