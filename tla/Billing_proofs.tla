--------------------------- MODULE Billing_proofs ---------------------------
(***************************************************************************)
(* What TLAPS proves of Billing, for any number of handlers, checks and    *)
(* Stripe subscriptions, any plans on sale and any bounds, and of the      *)
(* rules of access it rests on, for every row the program writes.          *)
(***************************************************************************)
EXTENDS Billing, FiniteSetTheorems, TLAPS

---------------------------------------------------------------------------
\* Lemmas on the rules of access.

\* The only status computeAccess changes an open row to is EXPIRED.
LEMMA EffectiveStatusIsExpired ==
  ASSUME NEW r, NEW t, EffectiveStatus(r, t) # r.status
  PROVE  EffectiveStatus(r, t) = "EXPIRED"
BY DEF EffectiveStatus

LEMMA EffectiveStatusType ==
  ASSUME NEW r \in Row, NEW t
  PROVE  EffectiveStatus(r, t) \in Statuses
BY DEF EffectiveStatus, Row, SubscriptionType, Statuses

LEMMA AccessEndsAtType ==
  ASSUME NEW r \in Row
  PROVE  AccessEndsAt(r) \in Dates
<1>1. /\ r.trialEndsAt \in Dates /\ r.expiresAt \in Dates
      /\ r.gracePeriodEndsAt \in Dates /\ r.currentPeriodEnd \in Dates
  BY DEF Row, SubscriptionType
<1> QED  BY <1>1 DEF AccessEndsAt, Coalesce

---------------------------------------------------------------------------
\* Type correctness.

LEMMA TrialRowType ==
  ASSUME NEW granted \in BOOLEAN
  PROVE  TrialRow(granted) \in Row
BY BillingAssumption DEF TrialRow, Row, SubscriptionType, Plans, Statuses, Providers, Dates, NoDate

LEMMA PaidRowType ==
  ASSUME sub \in Row, NEW p \in PaidPlans, NEW st \in Statuses, NEW e \in Nat,
         NEW k \in BOOLEAN, NEW pr \in {"stripe", "admin"}, NEW x \in Subs \cup {Null}
  PROVE  PaidRow(p, st, e, k, pr, x) \in Row
BY DEF PaidRow, Row, SubscriptionType, Plans, Providers, Dates, NoDate

LEMMA OrgCopyType ==
  ASSUME NEW r \in Row, NEW st \in Statuses, NEW e \in Dates
  PROVE  OrgCopy(r, st, e) \in OrgType
BY DEF OrgCopy, OrgType, Row, SubscriptionType

LEMMA TypeInit == Init => TypeOK
<1> SUFFICES ASSUME Init PROVE TypeOK
  OBVIOUS
<1>1. /\ sub \in Row /\ owed \in Int /\ covered \in [Plans -> Nat]
  BY TrialRowType, BillingAssumption DEF Init
<1>2. org \in OrgType
  BY <1>1, OrgCopyType DEF Init, Row, SubscriptionType
<1> QED
  BY <1>1, <1>2 DEF Init, TypeOK, RemoteType

\* A change at Stripe keeps the types.
LEMMA RemoteChangeType ==
  ASSUME TypeOK, NEW s \in Subs, NEW r \in SoldType, RemoteChange(s, r), checkouts' \in Nat
  PROVE  TypeOK'
<1>1. /\ remote' \in [Subs -> RemoteType] /\ emitted' \in Nat
      /\ pending' \in [Subs -> Nat]
  BY DEF TypeOK, RemoteChange, RemoteType
<1>2. covered' \in [Plans -> Nat]
  BY DEF TypeOK, RemoteChange, SoldType, Later
<1> QED
  BY <1>1, <1>2 DEF TypeOK, RemoteChange, handlerVars, rowVars, checkerVars

LEMMA StripeType == TypeOK /\ Stripe => TypeOK'
<1> SUFFICES ASSUME TypeOK, Stripe PROVE TypeOK'
  OBVIOUS
<1> USE DEF SoldType, StripeStatuses
<1>1. CASE CreateCheckout
  BY <1>1 DEF CreateCheckout, TypeOK, handlerVars, rowVars, checkerVars
<1>2. ASSUME NEW s \in Subs, NEW p \in SoldPlans, NEW status \in {"incomplete", "active"},
             CompleteCheckout(s, p, status)
      PROVE  TypeOK'
  <2> DEFINE r == [status |-> status, plan |-> p, next |-> p,
                   end |-> now + Period, cancel |-> FALSE]
  <2>1. r \in SoldType
    BY <1>2, BillingAssumption DEF TypeOK
  <2>2. checkouts' \in Nat
    BY <1>2 DEF CompleteCheckout, TypeOK
  <2>3. RemoteChange(s, r)
    BY <1>2 DEF CompleteCheckout
  <2> HIDE DEF r
  <2> QED  BY <2>1, <2>2, <2>3, RemoteChangeType
<1>3. ASSUME NEW s \in Subs, NEW r, RemoteChange(s, r), UNCHANGED checkouts, r \in SoldType
      PROVE  TypeOK'
  BY <1>3, RemoteChangeType DEF TypeOK
<1>4. ASSUME NEW s \in Subs, remote[s].status # "none"
      PROVE  remote[s] \in SoldType
  BY <1>4 DEF TypeOK, RemoteType, Unsold
<1>5. ASSUME NEW s \in Subs, PaymentConfirmed(s) PROVE TypeOK'
  <2>1. [remote[s] EXCEPT !.status = "active"] \in SoldType
    BY <1>4, <1>5 DEF PaymentConfirmed
  <2> QED  BY <1>3, <1>5, <2>1 DEF PaymentConfirmed
<1>6. ASSUME NEW s \in Subs, Renew(s) PROVE TypeOK'
  <2>1. remote[s] \in SoldType
    BY <1>4, <1>6 DEF Renew
  <2>2. [remote[s] EXCEPT !.status = "active", !.end = @ + Period,
                          !.plan = remote[s].next] \in SoldType
    <3>1. remote[s].end + Period \in Nat
      BY <2>1, BillingAssumption
    <3> QED  BY <2>1, <3>1
  <2> QED  BY <1>3, <1>6, <2>2 DEF Renew
<1>7. ASSUME NEW s \in Subs, PaymentFails(s) PROVE TypeOK'
  <2>1. [remote[s] EXCEPT !.status = "past_due"] \in SoldType
    BY <1>4, <1>7 DEF PaymentFails
  <2> QED  BY <1>3, <1>7, <2>1 DEF PaymentFails
<1>8. ASSUME NEW s \in Subs, StripeCancels(s) PROVE TypeOK'
  <2>1. [remote[s] EXCEPT !.status = "canceled"] \in SoldType
    BY <1>4, <1>8 DEF StripeCancels
  <2> QED  BY <1>3, <1>8, <2>1 DEF StripeCancels
<1>9. ASSUME NEW s \in Subs, NEW k \in BOOLEAN, SetCancelAtPeriodEnd(s, k) PROVE TypeOK'
  <2>1. [remote[s] EXCEPT !.cancel = k] \in SoldType
    BY <1>4, <1>9 DEF SetCancelAtPeriodEnd, OwnedAtStripe
  <2> QED  BY <1>3, <1>9, <2>1 DEF SetCancelAtPeriodEnd
<1>10. ASSUME NEW s \in Subs, NEW p \in SoldPlans, ChangePlan(s, p) PROVE TypeOK'
  <2>1. remote[s] \in SoldType /\ p \in PaidPlans
    BY <1>4, <1>10, BillingAssumption DEF ChangePlan, OwnedAtStripe
  <2>2. /\ [remote[s] EXCEPT !.plan = p, !.next = p] \in SoldType
        /\ [remote[s] EXCEPT !.next = p] \in SoldType
    BY <2>1
  <2> QED  BY <1>3, <1>10, <2>2 DEF ChangePlan
<1> QED
  BY <1>1, <1>2, <1>5, <1>6, <1>7, <1>8, <1>9, <1>10 DEF Stripe

LEMMA ApplyPaidStateType ==
  ASSUME TypeOK, NEW r \in Row, ApplyPaidState(r)
  PROVE  sub' \in Row /\ org' \in OrgType /\ owed' \in Int
<1>1. r.status \in Statuses /\ r.expiresAt \in Dates
  BY DEF Row, SubscriptionType
<1> QED
  BY <1>1, OrgCopyType DEF ApplyPaidState, TypeOK

LEMMA MapStatusType ==
  ASSUME NEW r \in RemoteType, MapStatus(r.status) # Null
  PROVE  /\ r \in SoldType
         /\ MapStatus(r.status) \in {"ACTIVE", "PAST_DUE", "CANCELLED"}
         /\ r.status \in {"active", "past_due", "canceled"}
BY DEF MapStatus, RemoteType, Unsold

LEMMA WebhookType ==
  ASSUME TypeOK, NEW h \in Handlers, Webhook(h)
  PROVE  TypeOK'
<1> USE DEF TypeOK, stripeVars, checkerVars, rowVars
<1>1. ASSUME NEW s \in Subs, Claim(h, s) PROVE TypeOK'
  BY <1>1 DEF Claim
<1>2. CASE Retrieve(h)
  BY <1>2 DEF Retrieve
<1>3. CASE Sync(h)
  <2>1. /\ hsnap[h] \in RemoteType /\ hsub[h] \in Subs
    BY <1>3 DEF Sync
  <2>2. sub' \in Row /\ org' \in OrgType /\ owed' \in Int
    <3>1. CASE MapStatus(hsnap[h].status) = Null
      BY <1>3, <3>1 DEF Sync
    <3>2. CASE MapStatus(hsnap[h].status) # Null
      <4> DEFINE r == PaidRow(hsnap[h].plan, MapStatus(hsnap[h].status), hsnap[h].end,
                              hsnap[h].cancel, "stripe", hsub[h])
      <4>1. /\ hsnap[h] \in SoldType
            /\ MapStatus(hsnap[h].status) \in {"ACTIVE", "PAST_DUE", "CANCELLED"}
        BY <2>1, <3>2, MapStatusType
      <4>2. r \in Row
        BY <2>1, <4>1, PaidRowType DEF SoldType, Statuses
      <4>3. ApplyPaidState(r)
        BY <1>3, <3>2 DEF Sync
      <4> HIDE DEF r
      <4> QED  BY <4>2, <4>3, ApplyPaidStateType
    <3> QED  BY <3>1, <3>2
  <2> QED  BY <1>3, <2>2 DEF Sync, RemoteType
<1>4. CASE Mark(h)
  BY <1>4 DEF Mark, Release, RemoteType
<1>5. CASE HandlerFails(h)
  BY <1>5 DEF HandlerFails, Release, RemoteType
<1> QED
  BY <1>1, <1>2, <1>3, <1>4, <1>5 DEF Webhook, Serve

LEMMA CopyToWriteType ==
  ASSUME TypeOK, NEW status \in Statuses
  PROVE  CopyToWrite(status) \in OrgType \cup {Null}
<1>1. OrgCopy(sub, status, AccessEndsAt(sub)) \in OrgType
  BY OrgCopyType, AccessEndsAtType DEF TypeOK
<1> QED  BY <1>1 DEF CopyToWrite

LEMMA ReadRowsType ==
  ASSUME TypeOK, NEW c \in Checkers, ReadRows(c)
  PROVE  TypeOK'
<1> DEFINE status == EffectiveStatus(sub, now)
           copy == CopyToWrite(status)
<1>1. status \in Statuses /\ sub.status \in Statuses
  BY EffectiveStatusType DEF TypeOK, Row, SubscriptionType
<1>2. copy \in OrgType \cup {Null}
  BY <1>1, CopyToWriteType
<1>3. /\ cfrom' = [cfrom EXCEPT ![c] = IF status # sub.status THEN sub.status ELSE Null]
      /\ cto' = [cto EXCEPT ![c] = IF status # sub.status THEN status ELSE Null]
      /\ ccopy' = [ccopy EXCEPT ![c] = copy]
      /\ cpc' = [cpc EXCEPT ![c] = IF status # sub.status THEN "persist" ELSE AtCopy(copy)]
  BY DEF ReadRows
<1> HIDE DEF status, copy
<1>4. /\ cpc' \in [Checkers -> {"idle", "persist", "record", "copy"}]
      /\ cfrom' \in [Checkers -> Statuses \cup {Null}]
      /\ cto' \in [Checkers -> Statuses \cup {Null}]
      /\ ccopy' \in [Checkers -> OrgType \cup {Null}]
  BY <1>1, <1>2, <1>3 DEF TypeOK, AtCopy
<1>5. /\ \A d \in Checkers : cpc'[d] = "persist" => cto'[d] \in Statuses
      /\ \A d \in Checkers : cpc'[d] = "copy" => ccopy'[d] \in OrgType
  BY <1>1, <1>2, <1>3 DEF TypeOK, AtCopy
<1> QED
  BY <1>4, <1>5 DEF ReadRows, TypeOK, stripeVars, handlerVars, rowVars

LEMMA CheckType ==
  ASSUME TypeOK, NEW c \in Checkers, Check(c)
  PROVE  TypeOK'
<1> USE DEF TypeOK, stripeVars, handlerVars, rowVars
<1>1. CASE ReadAccess(c) \/ ExpireDue(c)
  BY <1>1, ReadRowsType DEF ReadAccess, ExpireDue
<1>2. CASE PersistTransition(c)
  <2>1. cto[c] \in Statuses
    BY <1>2 DEF PersistTransition
  <2>2. sub' = [sub EXCEPT !.status = cto[c]] \/ sub' = sub
    BY <1>2 DEF PersistTransition, Marked
  <2>3. sub' \in Row
    BY <2>1, <2>2 DEF Row, SubscriptionType
  <2>4. /\ cpc' \in [Checkers -> {"idle", "persist", "record", "copy"}]
        /\ cfrom' \in [Checkers -> Statuses \cup {Null}]
        /\ cto' \in [Checkers -> Statuses \cup {Null}]
        /\ \A d \in Checkers : cpc'[d] = "persist" => cto'[d] \in Statuses
        /\ \A d \in Checkers : cpc'[d] = "copy" => ccopy'[d] \in OrgType
    BY <1>2 DEF PersistTransition, AtCopy
  <2> QED  BY <1>2, <2>3, <2>4 DEF PersistTransition
<1>3. CASE RecordExpiry(c)
  BY <1>3 DEF RecordExpiry, AtCopy
<1>4. CASE CopyToOrg(c)
  BY <1>4 DEF CopyToOrg, CheckDone
<1>5. CASE CheckFails(c)
  BY <1>5 DEF CheckFails, CheckDone
<1> QED
  BY <1>1, <1>2, <1>3, <1>4, <1>5 DEF Check, GoOn

LEMMA GrantType ==
  ASSUME TypeOK, NEW p \in GrantPlans, NEW until \in GrantEnds, AdminGrant(p, until)
  PROVE  TypeOK'
<1> DEFINE r == PaidRow(p, "ACTIVE", until, TRUE, "admin", sub.externalSubscriptionId)
<1>1. /\ p \in PaidPlans /\ until \in Nat /\ sub.externalSubscriptionId \in Subs \cup {Null}
  BY BillingAssumption DEF TypeOK, Row, SubscriptionType
<1>2. r \in Row
  BY <1>1, PaidRowType DEF TypeOK, Statuses
<1>3. ApplyPaidState(r)
  BY DEF AdminGrant
<1> HIDE DEF r
<1>4. sub' \in Row /\ org' \in OrgType /\ owed' \in Int
  BY <1>2, <1>3, ApplyPaidStateType
<1>5. covered' \in [Plans -> Nat]
  BY <1>1 DEF AdminGrant, TypeOK, Later
<1> QED
  BY <1>1, <1>4, <1>5 DEF AdminGrant, TypeOK, stripeVars, handlerVars, checkerVars

LEMMA TypeStep == TypeOK /\ [Next]_vars => TypeOK'
<1> SUFFICES ASSUME TypeOK, [Next]_vars PROVE TypeOK'
  OBVIOUS
<1>1. CASE UNCHANGED vars
  BY <1>1 DEF vars, TypeOK
<1>2. CASE Tick
  BY <1>2 DEF Tick, TypeOK, stripeVars, handlerVars, checkerVars, rowVars
<1>3. CASE Stripe
  BY <1>3, StripeType
<1> QED
  BY <1>1, <1>2, <1>3, WebhookType, CheckType, GrantType DEF Next

\* Type correctness of every reachable state.
THEOREM TypeCorrect == Spec => []TypeOK
<1>1. Init => TypeOK
  BY TypeInit
<1>2. TypeOK /\ [Next]_vars => TypeOK'
  BY TypeStep
<1> QED  BY <1>1, <1>2, PTL DEF Spec

---------------------------------------------------------------------------
\* What Stripe says, what the handlers carry and what the row holds is covered.

\* A state of a Stripe subscription whose period was paid.
PaidFor(r) == r.status \in {"active", "past_due", "canceled"} => r.end <= covered[r.plan]

\* The rows the application writes: the trial's, or a paid one.
RowShape(r) ==
  \/ /\ r.plan = "STANDARD" /\ r.paymentProvider = "trial"
     /\ r.status \in {"TRIALING", "EXPIRED"}
     /\ r.trialEndsAt \in Nat
  \/ /\ r.plan \in PaidPlans /\ r.paymentProvider \in {"stripe", "admin"}
     /\ r.status \in {"ACTIVE", "PAST_DUE", "CANCELLED", "EXPIRED"}
     /\ r.currentPeriodEnd \in Nat

RowCovered(r) ==
  IF r.plan = "STANDARD"
  THEN r.status = "TRIALING" => r.trialEndsAt <= covered["STANDARD"]
  ELSE r.currentPeriodEnd <= covered[r.plan]

CoverInv ==
  /\ \A s \in Subs : PaidFor(remote[s])
  /\ \A h \in Handlers : PaidFor(hsnap[h])
  /\ RowShape(sub)
  /\ RowCovered(sub)
  /\ \A c \in Checkers :
       cpc[c] = "persist" => cfrom[c] \in {"TRIALING", "ACTIVE"} /\ cto[c] = "EXPIRED"

LEMMA CoverInit == Init => CoverInv
<1> SUFFICES ASSUME Init PROVE CoverInv
  OBVIOUS
<1>1. PICK granted \in BOOLEAN :
        /\ sub = TrialRow(granted)
        /\ covered = [p \in Plans |-> IF p = "STANDARD" /\ granted THEN TrialDuration ELSE 0]
  BY DEF Init
<1>2. RowShape(sub) /\ RowCovered(sub)
  BY <1>1, BillingAssumption DEF TrialRow, RowShape, RowCovered, Plans, PaidPlans
<1>3. PaidFor(Unsold)
  BY DEF PaidFor, Unsold
<1> QED
  BY <1>2, <1>3 DEF Init, CoverInv

\* Covered only grows, so that what was covered remains so.
LEMMA CoverGrows ==
  ASSUME TypeOK, TypeOK', \A p \in Plans : covered[p] <= covered'[p]
  PROVE  /\ \A r \in RemoteType : PaidFor(r) => PaidFor(r)'
         /\ RowShape(sub) /\ RowCovered(sub) /\ sub' = sub => RowCovered(sub)'
<1>1. covered \in [Plans -> Nat] /\ covered' \in [Plans -> Nat]
  BY DEF TypeOK
<1>2. ASSUME NEW r \in RemoteType, PaidFor(r) PROVE PaidFor(r)'
  <2>1. r.status \in {"active", "past_due", "canceled"} => r.plan \in Plans /\ r.end \in Nat
    BY DEF RemoteType, SoldType, Unsold, Plans
  <2> QED  BY <1>1, <1>2, <2>1 DEF PaidFor
<1>3. ASSUME RowShape(sub), RowCovered(sub), sub' = sub PROVE RowCovered(sub)'
  BY <1>1, <1>3 DEF RowShape, RowCovered, Plans, PaidPlans
<1> QED  BY <1>2, <1>3

LEMMA CoverRemoteChange ==
  ASSUME TypeOK, TypeOK', CoverInv, NEW s \in Subs, NEW r \in SoldType, RemoteChange(s, r),
         r.status # "active" => PaidFor(r)
  PROVE  CoverInv'
<1>1. \A p \in Plans : covered[p] <= covered'[p]
  BY DEF RemoteChange, TypeOK, SoldType, Later
<1>2. PaidFor(r)'
  <2>1. CASE r.status = "active"
    <3>1. r.plan \in Plans /\ r.end \in Nat
      BY DEF SoldType, Plans
    <3>2. covered' = [covered EXCEPT ![r.plan] = Later(@, r.end)]
      BY <2>1 DEF RemoteChange
    <3> QED  BY <3>1, <3>2 DEF TypeOK, PaidFor, Later
  <2>2. CASE r.status # "active"
    BY <1>1, <2>2, CoverGrows DEF RemoteType
  <2> QED  BY <2>1, <2>2
<1>3. \A t \in Subs : PaidFor(remote[t])'
  <2>1. remote' = [remote EXCEPT ![s] = r] /\ \A t \in Subs : remote[t] \in RemoteType
    BY DEF RemoteChange, TypeOK
  <2>2. \A t \in Subs : remote'[t] = r \/ remote'[t] = remote[t]
    BY <2>1 DEF TypeOK
  <2>3. \A t \in Subs : PaidFor(remote[t]) => covered'[remote[t].plan] >= remote[t].end
                           \/ remote[t].status \notin {"active", "past_due", "canceled"}
    BY <1>1, <2>1, CoverGrows DEF PaidFor, RemoteType, SoldType, Unsold, TypeOK, Plans
  <2> QED  BY <1>2, <2>2, <2>3 DEF CoverInv, PaidFor, TypeOK, RemoteType, SoldType, Unsold, Plans
<1>4. UNCHANGED <<hsnap, sub, cpc, cfrom, cto>>
  BY DEF RemoteChange, handlerVars, rowVars, checkerVars
<1>5. \A h \in Handlers : PaidFor(hsnap[h])'
  <2>1. \A h \in Handlers : hsnap[h] \in RemoteType /\ hsnap'[h] = hsnap[h]
    BY <1>4 DEF TypeOK
  <2> QED  BY <1>1, <2>1, CoverGrows DEF CoverInv, PaidFor
<1>6. RowShape(sub)' /\ RowCovered(sub)'
  BY <1>1, <1>4, CoverGrows DEF CoverInv, RowShape
<1> QED
  BY <1>3, <1>4, <1>5, <1>6 DEF CoverInv, RowShape

\* What Stripe's moves leave covered: no period begins unpaid.
LEMMA CoverStripe == TypeOK /\ TypeOK' /\ CoverInv /\ Stripe => CoverInv'
<1> SUFFICES ASSUME TypeOK, TypeOK', CoverInv, Stripe PROVE CoverInv'
  OBVIOUS
<1> USE DEF SoldType, StripeStatuses
<1>1. CASE CreateCheckout
  BY <1>1 DEF CreateCheckout, CoverInv, PaidFor, RowShape, RowCovered,
              handlerVars, rowVars, checkerVars
<1>2. ASSUME NEW s \in Subs, NEW r \in SoldType, RemoteChange(s, r),
             r.status # "active" => PaidFor(r)
      PROVE  CoverInv'
  BY <1>2, CoverRemoteChange
<1>3. ASSUME NEW s \in Subs, remote[s].status # "none"
      PROVE  remote[s] \in SoldType /\ PaidFor(remote[s])
  BY <1>3 DEF TypeOK, RemoteType, Unsold, CoverInv
<1>4. ASSUME NEW s \in Subs, NEW p \in SoldPlans, NEW status \in {"incomplete", "active"},
             CompleteCheckout(s, p, status)
      PROVE  CoverInv'
  <2> DEFINE r == [status |-> status, plan |-> p, next |-> p,
                   end |-> now + Period, cancel |-> FALSE]
  <2>1. r \in SoldType /\ (r.status # "active" => PaidFor(r))
    BY <1>4, BillingAssumption DEF TypeOK, PaidFor
  <2>2. RemoteChange(s, r)
    BY <1>4 DEF CompleteCheckout
  <2> HIDE DEF r
  <2> QED  BY <1>2, <2>1, <2>2
<1>5. ASSUME NEW s \in Subs, PaymentConfirmed(s) PROVE CoverInv'
  <2>1. [remote[s] EXCEPT !.status = "active"] \in SoldType
    BY <1>3, <1>5 DEF PaymentConfirmed
  <2> QED  BY <1>2, <1>5, <2>1 DEF PaymentConfirmed
<1>6. ASSUME NEW s \in Subs, Renew(s) PROVE CoverInv'
  <2>1. remote[s] \in SoldType /\ remote[s].end + Period \in Nat
    BY <1>3, <1>6, BillingAssumption DEF Renew
  <2>2. [remote[s] EXCEPT !.status = "active", !.end = @ + Period,
                          !.plan = remote[s].next] \in SoldType
    BY <2>1
  <2> QED  BY <1>2, <1>6, <2>1, <2>2 DEF Renew
<1>7. ASSUME NEW s \in Subs, PaymentFails(s) PROVE CoverInv'
  <2>1. remote[s] \in SoldType /\ PaidFor(remote[s]) /\ remote[s].status = "active"
    BY <1>3, <1>7 DEF PaymentFails
  <2>2. /\ [remote[s] EXCEPT !.status = "past_due"] \in SoldType
        /\ PaidFor([remote[s] EXCEPT !.status = "past_due"])
    BY <2>1 DEF PaidFor
  <2> QED  BY <1>2, <1>7, <2>2 DEF PaymentFails
<1>8. ASSUME NEW s \in Subs, StripeCancels(s) PROVE CoverInv'
  <2>1. remote[s] \in SoldType /\ PaidFor(remote[s]) /\ remote[s].status \in {"active", "past_due"}
    BY <1>3, <1>8 DEF StripeCancels
  <2>2. /\ [remote[s] EXCEPT !.status = "canceled"] \in SoldType
        /\ PaidFor([remote[s] EXCEPT !.status = "canceled"])
    BY <2>1 DEF PaidFor
  <2> QED  BY <1>2, <1>8, <2>2 DEF StripeCancels
<1>9. ASSUME NEW s \in Subs, NEW k \in BOOLEAN, SetCancelAtPeriodEnd(s, k) PROVE CoverInv'
  <2>1. remote[s] \in SoldType /\ PaidFor(remote[s])
    BY <1>3, <1>9 DEF SetCancelAtPeriodEnd, OwnedAtStripe
  <2>2. /\ [remote[s] EXCEPT !.cancel = k] \in SoldType
        /\ PaidFor([remote[s] EXCEPT !.cancel = k])
    BY <2>1 DEF PaidFor
  <2> QED  BY <1>2, <1>9, <2>2 DEF SetCancelAtPeriodEnd
<1>10. ASSUME NEW s \in Subs, NEW p \in SoldPlans, ChangePlan(s, p) PROVE CoverInv'
  <2>1. remote[s] \in SoldType /\ PaidFor(remote[s]) /\ p \in PaidPlans
    BY <1>3, <1>10, BillingAssumption DEF ChangePlan, OwnedAtStripe
  <2>2. /\ [remote[s] EXCEPT !.plan = p, !.next = p] \in SoldType
        /\ [remote[s] EXCEPT !.plan = p, !.next = p].status = remote[s].status
        /\ [remote[s] EXCEPT !.next = p] \in SoldType
        /\ PaidFor([remote[s] EXCEPT !.next = p])
    BY <2>1 DEF PaidFor
  <2> QED  BY <1>2, <1>10, <2>2 DEF ChangePlan
<1> QED
  BY <1>1, <1>4, <1>5, <1>6, <1>7, <1>8, <1>9, <1>10 DEF Stripe

LEMMA CoverWebhook ==
  ASSUME TypeOK, CoverInv, NEW h \in Handlers, Webhook(h)
  PROVE  CoverInv'
<1> USE DEF TypeOK, stripeVars, checkerVars, rowVars
<1>1. UNCHANGED <<remote, covered, cpc, cfrom, cto>>
  BY DEF Webhook, Serve, Claim, Retrieve, Sync, Mark, HandlerFails
<1>2. \A s \in Subs : PaidFor(remote[s])'
  BY <1>1 DEF CoverInv, PaidFor
<1>3. \A g \in Handlers : PaidFor(hsnap[g])'
  <2>1. PaidFor(Unsold)
    BY DEF PaidFor, Unsold
  <2>2. \A g \in Handlers : \/ hsnap'[g] = hsnap[g]
                            \/ hsnap'[g] = Unsold
                            \/ \E s \in Subs : hsnap'[g] = remote[s]
    BY DEF Webhook, Serve, Claim, Retrieve, Sync, Mark, HandlerFails, Release
  <2> QED  BY <1>1, <2>1, <2>2 DEF CoverInv, PaidFor
<1>4. RowShape(sub)' /\ RowCovered(sub)'
  <2>1. CASE sub' = sub
    BY <1>1, <2>1 DEF CoverInv, RowShape, RowCovered
  <2>2. CASE sub' # sub
    <3>1. Sync(h) /\ MapStatus(hsnap[h].status) # Null
      BY <2>2 DEF Webhook, Serve, Claim, Retrieve, Sync, Mark, HandlerFails
    <3>2. /\ hsnap[h] \in SoldType
          /\ MapStatus(hsnap[h].status) \in {"ACTIVE", "PAST_DUE", "CANCELLED"}
          /\ hsnap[h].end <= covered[hsnap[h].plan]
      BY <3>1, MapStatusType DEF CoverInv, PaidFor
    <3>3. sub' = PaidRow(hsnap[h].plan, MapStatus(hsnap[h].status), hsnap[h].end,
                         hsnap[h].cancel, "stripe", hsub[h])
      BY <3>1 DEF Sync, ApplyPaidState
    <3>4. /\ sub'.plan = hsnap[h].plan /\ sub'.paymentProvider = "stripe"
          /\ sub'.status = MapStatus(hsnap[h].status) /\ sub'.currentPeriodEnd = hsnap[h].end
      BY <3>3 DEF PaidRow, Row, SubscriptionType
    <3> QED  BY <1>1, <3>2, <3>4 DEF RowShape, RowCovered, SoldType, PaidPlans
  <2> QED  BY <2>1, <2>2
<1> QED
  BY <1>1, <1>2, <1>3, <1>4 DEF CoverInv, RowShape

\* A check that finds a row run out found it open.
LEMMA LapsedWasOpen ==
  ASSUME NEW r, RowShape(r), NEW t, EffectiveStatus(r, t) # r.status
  PROVE  /\ EffectiveStatus(r, t) = "EXPIRED"
         /\ r.status \in {"TRIALING", "ACTIVE"}
BY DEF EffectiveStatus, RowShape, IsTrial, LegacyOpen, IsLegacy, IsPaid, LegacyProviders, PaidPlans

LEMMA CoverCheck ==
  ASSUME TypeOK, CoverInv, NEW c \in Checkers, Check(c)
  PROVE  CoverInv'
<1> USE DEF TypeOK, stripeVars, handlerVars, rowVars
<1>1. UNCHANGED <<remote, covered, hsnap>>
  BY DEF Check, GoOn, ReadAccess, ExpireDue, ReadRows, PersistTransition, RecordExpiry, CopyToOrg,
         CheckFails
<1>2. (\A s \in Subs : PaidFor(remote[s])') /\ (\A h \in Handlers : PaidFor(hsnap[h])')
  BY <1>1 DEF CoverInv, PaidFor
<1>3. RowShape(sub)' /\ RowCovered(sub)'
  <2>1. CASE sub' = sub
    BY <1>1, <2>1 DEF CoverInv, RowShape, RowCovered
  <2>2. CASE sub' # sub
    <3>1. PersistTransition(c)
      BY <2>2 DEF Check, GoOn, ReadAccess, ExpireDue, ReadRows, RecordExpiry, CopyToOrg, CheckFails
    <3>2. sub' = [sub EXCEPT !.status = "EXPIRED"]
      BY <2>2, <3>1 DEF PersistTransition, Marked, CoverInv
    <3>3. /\ sub'.status = "EXPIRED" /\ sub'.plan = sub.plan
          /\ sub'.paymentProvider = sub.paymentProvider
          /\ sub'.trialEndsAt = sub.trialEndsAt /\ sub'.currentPeriodEnd = sub.currentPeriodEnd
      BY <3>2 DEF Row, SubscriptionType
    <3> QED  BY <1>1, <3>3 DEF CoverInv, RowShape, RowCovered
  <2> QED  BY <2>1, <2>2
<1>4. ASSUME NEW d \in Checkers, cpc'[d] = "persist"
      PROVE  cfrom'[d] \in {"TRIALING", "ACTIVE"} /\ cto'[d] = "EXPIRED"
  <2>1. CASE cpc[d] = "persist" /\ cfrom'[d] = cfrom[d] /\ cto'[d] = cto[d]
    BY <2>1 DEF CoverInv
  <2>2. CASE ~(cpc[d] = "persist" /\ cfrom'[d] = cfrom[d] /\ cto'[d] = cto[d])
    <3>1. d = c /\ ReadRows(c)
      BY <1>4, <2>2 DEF Check, GoOn, ReadAccess, ExpireDue, ReadRows, PersistTransition, RecordExpiry,
                        CopyToOrg, CheckFails, CheckDone, AtCopy
    <3>2. /\ EffectiveStatus(sub, now) # sub.status
          /\ cfrom'[d] = sub.status /\ cto'[d] = EffectiveStatus(sub, now)
      BY <1>4, <3>1 DEF ReadRows, AtCopy
    <3> QED  BY <3>2, LapsedWasOpen DEF CoverInv
  <2> QED  BY <2>1, <2>2
<1> QED
  BY <1>2, <1>3, <1>4 DEF CoverInv

LEMMA CoverGrant ==
  ASSUME TypeOK, TypeOK', CoverInv, NEW p \in GrantPlans, NEW until \in GrantEnds,
         AdminGrant(p, until)
  PROVE  CoverInv'
<1> USE DEF stripeVars, handlerVars, checkerVars
<1>1. p \in PaidPlans /\ p \in Plans /\ until \in Nat
  BY BillingAssumption DEF Plans
<1>2. covered' = [covered EXCEPT ![p] = Later(@, until)]
  BY DEF AdminGrant
<1>3. /\ \A q \in Plans : covered[q] <= covered'[q]
      /\ until <= covered'[p]
  BY <1>1, <1>2 DEF TypeOK, Later
<1>4. UNCHANGED <<remote, hsnap, cpc, cfrom, cto>>
  BY DEF AdminGrant
<1>5. (\A s \in Subs : PaidFor(remote[s])') /\ (\A h \in Handlers : PaidFor(hsnap[h])')
  <2>1. \A r \in RemoteType : PaidFor(r) => PaidFor(r)'
    BY <1>3, CoverGrows
  <2> QED  BY <1>4, <2>1 DEF CoverInv, TypeOK, PaidFor
<1>6. sub' = PaidRow(p, "ACTIVE", until, TRUE, "admin", sub.externalSubscriptionId)
  BY DEF AdminGrant, ApplyPaidState
<1>7. /\ sub'.plan = p /\ sub'.paymentProvider = "admin"
      /\ sub'.status = "ACTIVE" /\ sub'.currentPeriodEnd = until
  BY <1>6 DEF PaidRow, TypeOK, Row, SubscriptionType
<1> QED
  BY <1>1, <1>3, <1>4, <1>5, <1>7 DEF CoverInv, RowShape, RowCovered, PaidPlans

LEMMA CoverStep == TypeOK /\ TypeOK' /\ CoverInv /\ [Next]_vars => CoverInv'
<1> SUFFICES ASSUME TypeOK, TypeOK', CoverInv, [Next]_vars PROVE CoverInv'
  OBVIOUS
<1>1. CASE UNCHANGED <<remote, covered, hsnap, sub, cpc, cfrom, cto>>
  BY <1>1 DEF CoverInv, PaidFor, RowShape, RowCovered
<1>2. CASE Stripe
  BY <1>2, CoverStripe
<1> QED
  BY <1>1, <1>2, CoverWebhook, CoverCheck, CoverGrant
  DEF Next, vars, Tick, stripeVars, handlerVars, checkerVars, rowVars

\* An entitled row, in the shape the application writes, is before its end.
LEMMA EntitledBeforeEnd ==
  ASSUME NEW t \in Nat, sub \in Row, RowShape(sub), RowCovered(sub),
         covered \in [Plans -> Nat], Entitled(sub, t)
  PROVE  \/ t < covered[sub.plan]
         \/ AwaitsRenewal(sub) /\ t < covered[sub.plan] + RenewalConfirmation
<1> USE RenewalConfirmationAssumption DEF NoDate, Coalesce, IsBefore
<1>1. covered[sub.plan] \in Nat
  BY DEF Row, SubscriptionType
<1>2. CASE sub.plan = "STANDARD"
  <2>1. /\ sub.paymentProvider = "trial" /\ sub.status \in {"TRIALING", "EXPIRED"}
        /\ sub.trialEndsAt \in Nat
        /\ sub.status = "TRIALING" => sub.trialEndsAt <= covered[sub.plan]
    BY <1>2 DEF RowShape, RowCovered, PaidPlans
  <2>2. IsTrial(sub) /\ ~IsLegacy(sub) /\ ~IsPaid(sub)
    BY <1>2, <2>1 DEF IsTrial, IsLegacy, IsPaid, LegacyProviders
  <2>3. AccessEndsAt(sub) = sub.trialEndsAt
    BY <2>1, <2>2 DEF AccessEndsAt
  <2>4. sub.status = "TRIALING" /\ t < sub.trialEndsAt
    BY <2>2, <2>3 DEF Entitled, LegacyOpen
  <2> QED  BY <1>1, <2>1, <2>4
<1>3. CASE sub.plan # "STANDARD"
  <2>1. /\ sub.plan \in PaidPlans /\ sub.paymentProvider \in {"stripe", "admin"}
        /\ sub.status \in {"ACTIVE", "PAST_DUE", "CANCELLED", "EXPIRED"}
        /\ sub.currentPeriodEnd \in Nat /\ sub.currentPeriodEnd <= covered[sub.plan]
    BY <1>3 DEF RowShape, RowCovered
  <2>2. IsPaid(sub) /\ ~IsTrial(sub) /\ ~IsLegacy(sub)
    BY <1>3, <2>1 DEF IsTrial, IsLegacy, IsPaid, LegacyProviders
  <2>3. AccessEndsAt(sub) = sub.currentPeriodEnd
    BY <2>1, <2>2 DEF AccessEndsAt
  <2>4. t < sub.currentPeriodEnd \/ (AwaitsRenewal(sub) /\ t < sub.currentPeriodEnd + RenewalConfirmation)
    BY <2>1, <2>2, <2>3 DEF Entitled, LegacyOpen, PaidLimit
  <2> QED  BY <1>1, <2>1, <2>4
<1> QED  BY <1>2, <1>3

\* Rights and plans are only ever used within what was paid, tried or granted,
\* with any number of concurrent webhook handlers and access checks.
THEOREM EntitlementIsCovered == Spec => []EntitledOnlyWhileCovered
<1>1. Init => TypeOK /\ CoverInv
  BY TypeInit, CoverInit
<1>2. TypeOK /\ CoverInv /\ [Next]_vars => TypeOK' /\ CoverInv'
  BY TypeStep, CoverStep
<1>3. TypeOK /\ CoverInv => EntitledOnlyWhileCovered
  BY EntitledBeforeEnd DEF TypeOK, CoverInv, EntitledOnlyWhileCovered
<1> QED  BY <1>1, <1>2, <1>3, PTL DEF Spec

---------------------------------------------------------------------------
\* One history row per opening: the conditional update lets one check through.

\* The checks whose update matched and that have not written the row yet.
Recording == {c \in Checkers : cpc[c] = "record"}

StillOpen == IF sub.status \in OpenStatuses THEN 1 ELSE 0

ExpiryInv == Cardinality(Recording) + StillOpen <= owed

LEMMA RecordingFinite == IsFiniteSet(Recording) /\ Cardinality(Recording) \in Nat
<1>1. IsFiniteSet(Checkers)
  BY BillingAssumption, FS_Union DEF Checkers
<1>2. IsFiniteSet(Recording)
  BY <1>1, FS_Subset DEF Recording
<1> QED  BY <1>2, FS_CardinalityType

LEMMA ExpiryInit == Init => ExpiryInv
<1> SUFFICES ASSUME Init PROVE ExpiryInv
  OBVIOUS
<1>1. Cardinality(Recording) = 0
  <2>1. Recording = {}
    BY DEF Init, Recording
  <2> QED  BY <2>1, FS_EmptySet
<1>2. StillOpen <= owed /\ StillOpen \in Nat /\ owed \in Nat
  BY DEF Init, TrialRow, StillOpen, OpenStatuses
<1> QED  BY <1>1, <1>2 DEF ExpiryInv

\* Writing a paid state counts an opening whenever it opens the row.
LEMMA ExpiryApply ==
  ASSUME TypeOK, ExpiryInv, NEW r, ApplyPaidState(r), UNCHANGED cpc
  PROVE  ExpiryInv'
<1>1. Recording' = Recording
  BY DEF Recording
<1> QED
  BY <1>1, RecordingFinite DEF TypeOK, ExpiryInv, StillOpen, ApplyPaidState

LEMMA ExpiryCheck ==
  ASSUME TypeOK, CoverInv, ExpiryInv, NEW c \in Checkers, Check(c)
  PROVE  ExpiryInv'
<1> USE DEF stripeVars, handlerVars, rowVars
<1>1. owed \in Int /\ cpc \in [Checkers -> {"idle", "persist", "record", "copy"}]
  BY DEF TypeOK
<1>2. CASE ReadAccess(c) \/ ExpireDue(c)
  <2>1. Recording' = Recording
    BY <1>1, <1>2 DEF ReadAccess, ExpireDue, ReadRows, AtCopy, Recording
  <2> QED  BY <1>2, <2>1 DEF ReadAccess, ExpireDue, ReadRows, ExpiryInv, StillOpen
<1>3. CASE PersistTransition(c)
  <2>1. CASE sub.status = cfrom[c]
    <3>1. sub.status \in OpenStatuses /\ sub'.status = "EXPIRED"
      BY <1>3, <2>1 DEF PersistTransition, Marked, CoverInv, OpenStatuses, TypeOK, Row, SubscriptionType
    <3>2. Recording' = Recording \cup {c} /\ c \notin Recording
      BY <1>1, <1>3, <2>1 DEF PersistTransition, Recording
    <3>3. Cardinality(Recording') = Cardinality(Recording) + 1
      BY <3>2, RecordingFinite, FS_AddElement
    <3>4. StillOpen = 1 /\ StillOpen' = 0 /\ UNCHANGED owed
      BY <1>3, <3>1 DEF PersistTransition, StillOpen, OpenStatuses
    <3> QED  BY <1>1, <3>3, <3>4, RecordingFinite DEF ExpiryInv
  <2>2. CASE sub.status # cfrom[c]
    <3>1. Recording' = Recording /\ UNCHANGED <<sub, owed>>
      BY <1>1, <1>3, <2>2 DEF PersistTransition, AtCopy, Recording
    <3> QED  BY <3>1 DEF ExpiryInv, StillOpen
  <2> QED  BY <2>1, <2>2
<1>4. CASE RecordExpiry(c)
  <2>1. Recording' = Recording \ {c} /\ c \in Recording
    BY <1>1, <1>4 DEF RecordExpiry, AtCopy, Recording
  <2>2. Cardinality(Recording') = Cardinality(Recording) - 1
    BY <2>1, RecordingFinite, FS_RemoveElement
  <2>3. StillOpen' = StillOpen /\ owed' = owed - 1 /\ StillOpen \in Nat
    BY <1>4 DEF RecordExpiry, StillOpen
  <2> QED  BY <1>1, <2>2, <2>3, RecordingFinite DEF ExpiryInv
<1>5. CASE CopyToOrg(c)
  <2>1. Recording' = Recording
    BY <1>1, <1>5 DEF CopyToOrg, CheckDone, Recording
  <2> QED  BY <1>5, <2>1 DEF CopyToOrg, ExpiryInv, StillOpen
<1>6. CASE CheckFails(c)
  <2>1. UNCHANGED <<sub, owed>>
    BY <1>6 DEF CheckFails
  <2>2. StillOpen' = StillOpen /\ StillOpen \in Nat
    BY <2>1 DEF StillOpen
  <2>3. Recording' \subseteq Recording
    BY <1>1, <1>6 DEF CheckFails, CheckDone, Recording
  <2>4. Cardinality(Recording') <= Cardinality(Recording) /\ Cardinality(Recording') \in Nat
    BY <2>3, RecordingFinite, FS_Subset, FS_CardinalityType
  <2> QED  BY <1>1, <2>1, <2>2, <2>4, RecordingFinite DEF ExpiryInv
<1> QED
  BY <1>2, <1>3, <1>4, <1>5, <1>6 DEF Check, GoOn

\* Every step at Stripe opens a session or changes a subscription.
LEMMA StripeIsRemoteChange ==
  ASSUME Stripe PROVE CreateCheckout \/ \E s \in Subs : \E r : RemoteChange(s, r)
<1> SUFFICES ASSUME ~CreateCheckout PROVE \E s \in Subs : \E r : RemoteChange(s, r)
  OBVIOUS
<1>1. PICK s \in Subs :
        \/ \E p \in SoldPlans, status \in {"incomplete", "active"} : CompleteCheckout(s, p, status)
        \/ PaymentConfirmed(s) \/ Renew(s) \/ PaymentFails(s) \/ StripeCancels(s)
        \/ \E cancel \in BOOLEAN : SetCancelAtPeriodEnd(s, cancel)
        \/ \E p \in SoldPlans : ChangePlan(s, p)
  BY DEF Stripe
<1>2. CASE \E p \in SoldPlans, status \in {"incomplete", "active"} : CompleteCheckout(s, p, status)
  BY <1>2 DEF CompleteCheckout
<1>3. CASE PaymentConfirmed(s) \/ Renew(s) \/ PaymentFails(s) \/ StripeCancels(s)
  BY <1>3 DEF PaymentConfirmed, Renew, PaymentFails, StripeCancels
<1>4. CASE \E cancel \in BOOLEAN : SetCancelAtPeriodEnd(s, cancel)
  BY <1>4 DEF SetCancelAtPeriodEnd
<1>5. CASE \E p \in SoldPlans : ChangePlan(s, p)
  BY <1>5 DEF ChangePlan
<1> QED  BY <1>1, <1>2, <1>3, <1>4, <1>5

\* None of them touches the row, the handlers or the checks.
LEMMA StripeKeepsRow ==
  ASSUME Stripe PROVE UNCHANGED <<sub, owed, cpc>>
<1> USE DEF handlerVars, checkerVars, rowVars
<1>1. CASE CreateCheckout
  BY <1>1 DEF CreateCheckout
<1>2. ASSUME NEW s, NEW r, RemoteChange(s, r)
      PROVE  UNCHANGED <<sub, owed, cpc>>
  BY <1>2 DEF RemoteChange
<1> QED  BY <1>1, <1>2, StripeIsRemoteChange

LEMMA ExpiryStep == TypeOK /\ CoverInv /\ ExpiryInv /\ [Next]_vars => ExpiryInv'
<1> SUFFICES ASSUME TypeOK, CoverInv, ExpiryInv, [Next]_vars PROVE ExpiryInv'
  OBVIOUS
<1> USE DEF stripeVars, handlerVars, checkerVars, rowVars
<1>1. CASE UNCHANGED <<sub, owed, cpc>>
  BY <1>1 DEF ExpiryInv, Recording, StillOpen
<1>2. CASE Stripe
  BY <1>1, <1>2, StripeKeepsRow
<1>3. ASSUME NEW h \in Handlers, Webhook(h) PROVE ExpiryInv'
  <2>1. CASE UNCHANGED <<sub, owed, cpc>>
    BY <1>1, <2>1
  <2>2. CASE ~UNCHANGED <<sub, owed, cpc>>
    <3>1. Sync(h) /\ UNCHANGED cpc /\ \E r : ApplyPaidState(r)
      BY <1>3, <2>2 DEF Webhook, Serve, Claim, Retrieve, Sync, Mark, HandlerFails
    <3> QED  BY <3>1, ExpiryApply
  <2> QED  BY <2>1, <2>2
<1>4. ASSUME NEW p \in GrantPlans, NEW until \in GrantEnds, AdminGrant(p, until) PROVE ExpiryInv'
  BY <1>4, ExpiryApply DEF AdminGrant
<1> QED
  BY <1>1, <1>2, <1>3, <1>4, ExpiryCheck DEF Next, Tick, vars

\* However many requests and schedulers see a row run out, one expiry is recorded.
THEOREM ExpiryIsRecordedOnce == Spec => []ExpiryRecordedOnce
<1>1. Init => TypeOK /\ CoverInv /\ ExpiryInv
  BY TypeInit, CoverInit, ExpiryInit
<1>2. TypeOK /\ CoverInv /\ ExpiryInv /\ [Next]_vars => TypeOK' /\ CoverInv' /\ ExpiryInv'
  BY TypeStep, CoverStep, ExpiryStep
<1>3. TypeOK /\ ExpiryInv => ExpiryRecordedOnce
  BY RecordingFinite DEF TypeOK, ExpiryInv, ExpiryRecordedOnce, StillOpen
<1> QED  BY <1>1, <1>2, <1>3, PTL DEF Spec

---------------------------------------------------------------------------
(***************************************************************************)
(* A row nobody pays for or grants any more, for every date, every renewal *)
(* delay and every shape of row: it gives the same rights before and after *)
(* it is marked EXPIRED, and time only takes rights away.                  *)
(***************************************************************************)

\* What the argument needs of a row: its dates are numbers, and a trial is on STANDARD.
WellFormed(r) ==
  /\ r \in [plan: Plans, status: Statuses, paymentProvider: Providers,
            expiresAt: Int, gracePeriodEndsAt: Int, trialEndsAt: Int,
            currentPeriodEnd: Int, cancelAtPeriodEnd: BOOLEAN,
            externalSubscriptionId: Subs \cup {Null, NoDate}]
  /\ r.status = "TRIALING" => r.plan = "STANDARD"

LEMMA ShapesWellFormed ==
  ASSUME NEW r, TrialShape(r) \/ PaidShape(r) \/ LegacyShape(r)
  PROVE  WellFormed(r)
<1> USE DEF WellFormed, RowOf, Plans, PaidPlans, Statuses, Providers, LegacyProviders,
            Dates, NoDate
<1>1. CASE TrialShape(r)
  BY <1>1 DEF TrialShape
<1>2. CASE PaidShape(r)
  BY <1>2 DEF PaidShape
<1>3. CASE LegacyShape(r)
  BY <1>3 DEF LegacyShape
<1> QED  BY <1>1, <1>2, <1>3

\* The row once a check has found that it has run out.
Expired(r) == Marked(r, "EXPIRED")

\* Time takes rights away and gives none back.
LEMMA LapseForGood ==
  ASSUME NEW r, WellFormed(r), NEW n \in Nat, NEW m \in Nat, n <= m, Entitled(r, m)
  PROVE  Entitled(r, n)
BY RenewalConfirmationAssumption
   DEF WellFormed, Entitled, IsBefore, AccessEndsAt, PaidLimit,
       AwaitsRenewal, Coalesce,
       IsTrial, IsPaid, IsLegacy, LegacyOpen, NoDate

\* Whatever the instant, a marked row gives no right.
LEMMA ExpiredHasNone ==
  ASSUME NEW r, WellFormed(r), NEW n \in Nat
  PROVE  ~Entitled(Expired(r), n) /\ EffectiveStatus(Expired(r), n) = "EXPIRED"
BY DEF WellFormed, Expired, Marked, Entitled, EffectiveStatus, LegacyOpen

\* A row that a check would mark is refused for the same reason once marked.
LEMMA ExpiredSaysTheSame ==
  ASSUME NEW r, WellFormed(r), NEW n \in Nat, EffectiveStatus(r, n) = "EXPIRED"
  PROVE  /\ ~Entitled(r, n)
         /\ Denial(Expired(r), n) = Denial(r, n)
<1>1. ~Entitled(r, n)
  BY DEF EffectiveStatus, Entitled, LegacyOpen
<1>2. ~Entitled(Expired(r), n)
  BY ExpiredHasNone
<1>3. IsTrial(Expired(r)) <=> IsTrial(r)
  BY DEF WellFormed, Expired, Marked, IsTrial, IsLegacy
<1>4. IsPaid(Expired(r)) <=> IsPaid(r)
  BY <1>3 DEF WellFormed, Expired, Marked, IsPaid, IsLegacy
<1>5. ~IsTrial(r) => r.status \notin {"CANCELLED", "PAST_DUE"}
  BY <1>1 DEF EffectiveStatus, LegacyOpen
<1>6. Expired(r).status = "EXPIRED"
  BY DEF Expired, Marked, WellFormed
<1> QED  BY <1>1, <1>2, <1>3, <1>4, <1>5, <1>6 DEF Denial

\* Once due to be marked, a row stays so.
LEMMA ExpiredForGood ==
  ASSUME NEW r, WellFormed(r), NEW n \in Nat, NEW m \in Nat, n <= m,
         EffectiveStatus(r, n) = "EXPIRED"
  PROVE  EffectiveStatus(r, m) = "EXPIRED"
<1>1. ~Entitled(r, n)
  BY DEF EffectiveStatus, Entitled, LegacyOpen
<1>2. ~Entitled(r, m)
  BY <1>1, LapseForGood
<1> QED  BY <1>1, <1>2 DEF EffectiveStatus

LEMMA MarkedIsTheSame ==
  ASSUME NEW r, WellFormed(r), NEW n \in Nat, NEW m \in Nat, n <= m
  PROVE  LET marked == Marked(r, EffectiveStatus(r, n))
         IN  /\ Capabilities(marked, m) = Capabilities(r, m)
             /\ Denial(marked, m) = Denial(r, m)
             /\ EffectiveStatus(marked, m) = EffectiveStatus(r, m)
<1>1. CASE EffectiveStatus(r, n) = r.status
  <2>1. Marked(r, EffectiveStatus(r, n)) = r
    BY <1>1 DEF Marked, WellFormed
  <2> QED  BY <2>1
<1>2. CASE EffectiveStatus(r, n) # r.status
  <2>1. EffectiveStatus(r, n) = "EXPIRED"
    BY <1>2, EffectiveStatusIsExpired
  <2>2. EffectiveStatus(r, m) = "EXPIRED"
    BY <2>1, ExpiredForGood
  <2>3. ~Entitled(r, m) /\ Denial(Expired(r), m) = Denial(r, m)
    BY <2>2, ExpiredSaysTheSame
  <2>4. ~Entitled(Expired(r), m) /\ EffectiveStatus(Expired(r), m) = "EXPIRED"
    BY ExpiredHasNone
  <2>5. Capabilities(Expired(r), m) = Capabilities(r, m)
    BY <2>3, <2>4 DEF Capabilities
  <2>6. Marked(r, EffectiveStatus(r, n)) = Expired(r)
    BY <2>1 DEF Expired
  <2> QED  BY <2>2, <2>3, <2>4, <2>5, <2>6
<1> QED  BY <1>1, <1>2

\* For every row the program writes, the accounts of the old model included:
\* what a later check decides does not depend on whether an earlier one has
\* marked the row.
THEOREM SameAfterMark ==
  ASSUME NEW r, TrialShape(r) \/ PaidShape(r) \/ LegacyShape(r),
         NEW n \in Nat, NEW m \in Nat, n <= m
  PROVE  LET marked == Marked(r, EffectiveStatus(r, n))
         IN  /\ Capabilities(marked, m) = Capabilities(r, m)
             /\ Denial(marked, m) = Denial(r, m)
             /\ EffectiveStatus(marked, m) = EffectiveStatus(r, m)
BY ShapesWellFormed, MarkedIsTheSame

\* For every row the program writes, time only ever takes rights away: no date
\* a row keeps from an earlier life gives any back.
THEOREM RightsShrink ==
  ASSUME NEW r, TrialShape(r) \/ PaidShape(r) \/ LegacyShape(r),
         NEW n \in Nat, NEW m \in Nat, n <= m
  PROVE  Capabilities(r, m) \subseteq Capabilities(r, n)
<1>1. Entitled(r, m) => Entitled(r, n)
  BY ShapesWellFormed, LapseForGood
<1> QED  BY <1>1 DEF Capabilities

\* The row of Billing, whoever has written it, is one of those.
LEMMA RowWellFormed ==
  ASSUME sub \in Row, RowShape(sub) PROVE WellFormed(sub)
BY DEF Row, SubscriptionType, RowShape, WellFormed, Dates, NoDate

\* Whatever handlers, grants and checks have made of the row, marking it changes
\* neither the rights nor the refusal it gives, now or later.
THEOREM MarkChangesNothing == Spec => []SameBeforeAndAfterMark
<1>1. Init => TypeOK /\ CoverInv
  BY TypeInit, CoverInit
<1>2. TypeOK /\ CoverInv /\ [Next]_vars => TypeOK' /\ CoverInv'
  BY TypeStep, CoverStep
<1>3. TypeOK /\ CoverInv => SameBeforeAndAfterMark
  <2> SUFFICES ASSUME TypeOK, CoverInv,
                      NEW later \in now..(MaxTime + Period + RenewalConfirmation)
               PROVE  LET marked == Marked(sub, EffectiveStatus(sub, now))
                      IN  /\ Capabilities(marked, later) = Capabilities(sub, later)
                          /\ Denial(marked, later) = Denial(sub, later)
                          /\ EffectiveStatus(marked, later) = EffectiveStatus(sub, later)
    BY DEF SameBeforeAndAfterMark
  <2>1. WellFormed(sub)
    BY RowWellFormed DEF TypeOK, CoverInv
  <2>2. now \in Nat /\ later \in Nat /\ now <= later
    BY BillingAssumption, RenewalConfirmationAssumption DEF TypeOK
  <2> QED  BY <2>1, <2>2, MarkedIsTheSame
<1> QED  BY <1>1, <1>2, <1>3, PTL DEF Spec

=============================================================================
