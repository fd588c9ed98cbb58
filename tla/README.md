# ITC backend: TLA+ models, checks and proofs

This directory holds a formal model of the parts of the ITC (Immo-Tec) backend whose correctness
depends on the order in which concurrent steps happen: subscriptions and their payment, quotas,
trials, the follow-up of rents, the letting of apartments, rental applications, maintenance
tickets, accounts, and the assistant with what it proposes and does. The program is a TypeScript server
(Express, Prisma, PostgreSQL) that may run as several instances; everything it remembers is in
the database, so every `await` between two queries is a point where another request, another
instance or a crash may come in between. One action of a model is one query, or one transaction
whose reads cannot be disturbed; a transaction that reads and then writes is two actions, since
the database runs at READ COMMITTED.

Paths below are those of the repository; `subscriptions/x.ts` stands for
`src/modules/subscriptions/x.ts`, and likewise for the other modules.

## 1. Inventory

### Subscriptions

| Component | State | Operations | Interacts with |
|---|---|---|---|
| Access rules (`access.rules.ts`, `plans.config.ts`) | none: a function of a subscription row and an instant | `computeAccess`, `effectivePlan`, plan matrix | everything that reads rights |
| Subscription row and copy (`subscription.service.ts`) | `subscriptions`, `organizations.{plan, subscriptionStatus, subscriptionExpiresAt}`, `subscription_events` | `getAccess` and `persistTransition`, `applyPaidState`, `adminGrant`, `expireDue`, `startTrial`, `sendTrialWarnings` | read by the middleware of every request, written by Stripe's webhook, the scheduler and the administrator |
| Stripe billing (`stripe-billing.service.ts`) | none of its own; Stripe's subscription | `createCheckout`, `setCancelAtPeriodEnd`, `changePlan`, `process`, `sync` | Stripe by API calls and webhook events; the row by `applyPaidState` |
| Event ledger (`claim`, `handleWebhook`) | `payment_provider_events` | unique insert, conditional take-over, record of the outcome | Stripe's retries and duplicates |
| AI quotas (`ai-quota.service.ts`) | `ai_usage` | `run`, `reserve`, `release`, `usage` | requests of the assistant, plan of the row |
| Trial claims (`trial-claims.ts`, `startTrial`) | `trial_claims` | look-up and insert inside the transaction of a sign-up | other sign-ups, by unique keys |

What makes them correct: rights are never open beyond what a trial, a payment or a grant covers;
they are the same whether or not a check has marked the row; the row should be Stripe's state once
all its events are processed (section 5: two handlers break it); an expiry is recorded once, and
always in the end; the organisation's copy heals; an event is worked on by one handler at a time
and is done only after its effect; no month exceeds its quota and every unit is accounted for; no two trials share an e-mail or a
telephone.

### Rents

| Component | State | Operations | Interacts with |
|---|---|---|---|
| Rent follow-up (`rent-followup.service.ts`) | `payments`, `rent_follow_up_logs` | five stages of `runDailyFollowUp` | every instance's timer (`server.ts`), the automation route |
| Payments (`payment.service.ts`) | `payments` | `create`, `recordPayment`, `markUnpaid`, `list` (marks late), Mobile Money webhook | staff, webhook, follow-up |

What makes them correct: one payment for a lease and a month; amounts add up (section 5: not those
of two requests at once); a status says what
was paid; a reminder of one type is sent once, in the order of the levels, and an unpaid rent is
chased to the last one.

### Letting

| Component | State | Operations | Interacts with |
|---|---|---|---|
| Leases (`lease.service.ts`) | `leases` | `create`, `activate`, `terminate`, `renew` | set `apartments.status`, create the first payment |
| Apartments and listings (`apartment.service.ts`, `listing.service.ts`) | `apartments.{status, isPublished}` | `update`, `publish`, `unpublish` | everything below |
| Tenants (`tenant.service.ts`, `tenant-onboard.service.ts`) | `tenants`, leases | onboarding with roll-back, `release` | leases, apartments, portal accounts |
| Maintenance (`maintenance.service.ts`, `agent.routes.ts`) | `maintenance_tickets`, notices to confirm | `create` with its automatic assignment, `assign`, `start`, `complete`, `close`, the agent's operations, photos, the tenant's confirmation | apartment status |
| Applications (`application.service.ts`, `application-document.service.ts`) | `rental_applications`, their documents | draft, documents, `submit`, scoring, `review`, `withdraw` | tenant, lease and apartment on acceptance |

What should make them correct: one active lease for an apartment; an apartment with an active
lease is not offered; an application ends in one lease at most, is decided once, and has its card
and its score when it is; a closed ticket stays closed, the agent at work is the one it is
assigned to, nothing that was attached is lost and nobody is asked to confirm what is over.
Nothing in the schema enforces these: each operation checks by a read and then writes, and the
last two, with the decision itself, are what the code does lose (section 5).

### Assistant

| Component | State | Operations | Interacts with |
|---|---|---|---|
| Conversation (`ai.service.ts`, `ai.lease-request.ts`, `ai.memory.service.ts`, `ai.context-manager.ts`, `ai.vision.ts`) | `ai_sessions` (last lease and flat, exchanges), the history each client sends | `chat`: routing, contracts drafted over several messages, confirmations in words, photos, rounds with OpenAI and the local tools that replace it | pending actions, OpenAI, the clients (a phone that sends its history, a web page that does not) |
| Pending actions (`ai.pending-actions.ts`) | `ai_pending_actions` | create, consume, cancel, purge | the conversation, the card's buttons, automation runs |
| Automation runs (`ai.automation.service.ts`) | `ai_automation_runs` | `detectAndPropose`, `propose`, `approveAndExecute`, `executeRun` | pending actions, messages to tenants |

What makes them correct: nothing leaves without a confirmation or a rule, and once; what is
proposed should be told (section 5); "oui" means what the user has in front of him; the contract that is proposed is
the one he described; what is recorded says what happened; a turn ends.

### Accounts

| Component | State | Operations | Interacts with |
|---|---|---|---|
| Sign-in and passwords (`auth.service.ts`, `membership.service.ts`, `session.middleware.ts`) | `users`, `memberships`, sessions | `register`, `registerTenant`, `login`, `changePassword`, `resetPassword`, `ensurePrimary` at each sign-in | trial claims; every request |
| Invitations and staff (`invitation.service.ts`, `staff-provision.service.ts`, `admin.service.ts`) | `invitations`, `users`, `memberships` | create, accept, revoke; `provision`, `provisionAccess`; `createUser`, `updateUser`, `deleteUser` | sign-ups, by the unique e-mail |
| Portal accounts (`portal-access.service.ts`) | `users`, `tenants.userId` | `provision`, `reset`, `suspend`, `reactivate`, `archive`, the hook of an activated lease | leases, onboarding |

What makes them correct: an invitation, or the file of a tenant, leads to one account; a temporary
password has to be changed and an account said to be in use has none; an account in use has its
membership, in the end, whichever of two writes was lost.

### The rest

| Component | State | Hard part |
|---|---|---|
| Market intelligence, dashboards, permissions, features, audit, PDF, mail, storage | reads, static matrices, input and output | none for a model checker |
| Tokens and sessions | `refresh_tokens`, ... | left to a security review |

## 2. Modules

| Module | Models | Extends or instantiates |
|---|---|---|
| `AccessRules` | `computeAccess` as operators on a row and a date, the marking of a row, and the shapes of row the program writes | |
| `Billing` | webhook handlers, access checks, grants and owner's requests around one row, with Stripe | `AccessRules` |
| `WebhookLedger` | the ledger, Stripe's deliveries, crashes | instantiates `EventOnce` |
| `EventOnce` | what the ledger promises | |
| `AiQuota` | quota of a unit | |
| `TrialClaims` | the trial part of simultaneous sign-ups | |
| `RentFollowUp` | the payment of one month, passes of the follow-up and requests | |
| `Occupancy` | one apartment: its status and publication, leases, tickets, and every operation that writes them | |
| `Applications` | the applications for one apartment: files, submission, scoring, review, withdrawal | |
| `Tickets` | the workflow of a ticket between staff, agents and tenant | |
| `AiActions` | pending actions of the assistant and automation runs, to their effects | instantiates `OneShot` |
| `OneShot` | what a proposed action promises: it ends once | |
| `Accounts` | users, memberships, invitations and the link of a tenant's file | |
| `Assistant` | the turns of a conversation, its history, drafts, proposals and background writes | |
| `MC*` | values of the constants for TLC | the module of that name |
| `*_proofs` | theorems | the module of that name and `TLAPS`; `AiActions_proofs` also extends `AiQuota`, `Accounts_proofs` `TrialClaims`, `Occupancy_proofs` `RentFollowUp` |

`Billing` and `WebhookLedger` divide the webhook between them. `Billing` looks at what `process`
and `sync` do to the row: an event is pending from the change it reports until a handler has
marked it, and a failed handler leaves it pending. `WebhookLedger` looks at how a single event
may be delivered, claimed, taken over, lost and acknowledged, with processing as one step; the
assumption of `Billing` that an event stays available until it is done is `EveryEventIsDone` of
`WebhookLedger`, with the limits stated there.

`Occupancy`, `Applications` and `Tickets` divide the letting in the same way. `Occupancy` has the
apartment and lets an application be accepted, and a ticket be opened, moved and closed, at any
moment its services may do so; `Applications` and `Tickets` say when that is, without the
apartment. `Assistant` says when a proposal is made, told and confirmed, `AiActions` what the
confirmation of one does when others, cancellations, the clock and crashes come in between.

### Correspondence of state and actions

* `AccessRules`: `Entitled`, `EffectiveStatus`, `Capabilities`, `Denial` are the fields of the
  result of `computeAccess`. A date is a natural number, `NoDate` a null column.
* `Billing`: `remote[s]` is Stripe's subscription, `pending[s]` its events not processed; `sub`
  the row, `org` the copy. A handler goes `Claim`, `Retrieve` (read back from Stripe), `Sync`
  (transaction of `applyPaidState`), `Mark`; a check, by a member's request or by the
  scheduler, goes `ReadAccess` or `ExpireDue`, then `PersistTransition`, `RecordExpiry` and
  `CopyToOrg` where there is something to write. `covered` is a history variable: how far the trial, confirmed
  payments and grants reach for each plan.
* `WebhookLedger`: `status` and `age` are the ledger row; a handler goes `Deliver`, `Insert` or
  `Retake` or `Duplicate`, `Process`, `Record`, or `Fail` and `RecordFailure`; `acked` is the
  answer 200.
* `AiQuota`: a request goes `Admit` (middleware), `ReadPlan`, `EnsureRow`, `Reserve` or `Refuse`,
  then `Succeed`, or `Fail` and `Release`; `NextMonth` and `ChangePlan` come in between. `free` is a
  history variable: units taken without a limit and not given back.
* `TrialClaims`: a sign-up goes `LookUp`, `ClaimEmail`, `ClaimPhone`, `Commit` or `Abort`; `Insert`
  waits for a transaction that holds the key and has not ended, as the unique index does, and
  `Visible` is what READ COMMITTED shows.
* `RentFollowUp`: `rentStatus` and `paid` are the payment, `log` its rows of `rent_follow_up_logs`; a
  pass goes through the queries of `runDailyFollowUp` one by one (`FindPayment`, `CreateMonth`,
  `FindLate`, `MarkLate`, `FindDueSoon`, `FindDunning`, `FindAlert`, and `CheckLog`,
  `LogFollowUp`, `Notify` for each reminder); a request goes `RecordRead` or `UnpayRead`, then
  `WritePayment`. A violated unique index ends the pass.
* `Occupancy`: `status` and `published` are the row of the apartment, `lease`, `tenant` and
  `billed` its leases with their tenants and first payments, `ticket` its tickets. The requests
  that can make a lease active are *makers* (`ActivateCheck`, `ActivateCommit`; `RenewRead`,
  `RenewWrite`; `OnboardCheck`, `OnboardCommit`, then `Rollback` if the portal account fails, or
  `Leave`); those that close a ticket are *closers* (`CloseCount`, `CloseLookUp`, `CloseCommit`);
  `release`, `update`, `publish` and the moves of a ticket read and write in two steps of the
  *staff*; what reads nothing that matters is one step. Every maker's write
  puts the others that have checked and not yet written among the `overtaken`, and the lease such a
  one makes active beside another is `forced`: both are history variables.
* `Applications`: `status`, `owner`, `card`, `score` are the rows, `file` counts the changes of
  form and documents, so that a score can be that of another file. A request begins with `Open`,
  `Edit`, `Submit`, `Rescore`, `Review` or `Withdraw`, which read and check, and goes on to its
  writes (`FindDraft`, `CreateDraft`, `Save`, `Upload`, `Store`, `Remove`, `Send`, `Announce`,
  `Score`, `Grade`, `Accept`, `Reject`, `WithdrawWrite`), which do not look again. `held`
  says of a request that what it has checked (`Holds`) is still so.
* `Tickets`: `status`, `agent`, `asked`, `photos` are the ticket and its notice. `Create` goes on
  to `Choose` and `Hand`; `Assign`, `Accept`, `Refuse`, `AgentStart`, `Move`, `Close` and the
  others check, then `AssignWrite`, `Take`, `GiveBack`, `MoveRead` and `MoveWrite`, `Tell`,
  `CloseWrite`, `Resolve`, `Attach` write.
* `AiActions`: `row` and `subject` are `ai_pending_actions`, `run` the run of each key. A request
  is `Ask` (a tool proposes), `Propose`, `Confirm` or `CancelRead`, and goes on through the
  delete that decides who confirms (`ConsumeDelete`, `CancelDelete`, `DeleteFails`) to the
  effect: `Act`, `CreateLease`, `ActivateLease`, `OfferPdf`, or `ApproveRead`, `ApproveMark`,
  `SendDraft`, `Finish` or `FinishFails`. `Crash` may end it anywhere.
* `Assistant`: `session` is the row, `made` and `open` the proposals, `log` and `card` what each
  client shows, `jobs` the writes the code starts with `void` and does not wait for, each a read
  and a write of its own. `Send` begins a turn; each branch of `chat` is an action of `Local`,
  each way a round with OpenAI ends one of `OpenAi`.
* `Accounts`: `user` holds the rows of `users` with their membership, `invite` the invitations,
  `link` is `tenants.userId`. A request looks first (`Register`, `RegisterTenant`,
  `ProvisionStaff`, `CheckUser`, `Invite`, `OpenInvitation`, `LookToRevoke`, `ProvisionPortal`,
  and the `Ask...` actions), and goes on to the writes of that operation. `temp` says that the
  password is a temporary one, `must` is `mustChangePassword`. `Visit` and `SignIn` lead to
  `FindMembership`, then `SwitchOn` or `Join`.
* `forced`, `stale`, `misscored` and `calm` are history variables of the last modules: they mark what was
  written by a request that had read it before another request changed it (or sent by an
  execution that was overlapped, stopped, or unsure). The code writes by id without looking
  again, so after such a write anything it promised may be false. The properties are about the
  rest, which is what a test would take for granted and the code has to earn through every other
  interleaving.

## 3. Runs

Every property of a passing run has a mutant: a changed definition that stands for a bug one
could write there, and that breaks the property under the same configuration. The mutants stand
beside the definition they change, under a comment that begins with "Mutant".

The configurations do not list the type invariants (`TypeOK` of each module), which say little
about the code: the type invariant of every module with proofs is a theorem. A few properties
are theorems only: `OneRunner`, `DoneIsFinal`, which `ImplementsEventOnce` contains,
`RefusedForCause`, `StatusFitsAmount` and `CreatedMeansLease`.

| Run | Instance | Properties |
|---|---|---|
| `BillingServed` | 1 handler, 1 member's request and the scheduler, 2 plans, a grant, 2 changes at Stripe, 1 failure, time to 2, fairness | `EntitledOnlyWhileCovered`, `ExpiryRecordedOnce`, `SameBeforeAndAfterMark`, `PaymentReachesRow`, `LapsedIsRecorded`, `OrgCopyHeals` |
| `BillingOrder` | 2 handlers, 1 plan, 2 changes at Stripe, no failure | `RowFollowsStripe`, violated |
| `Ledger` | 1 event, 3 handlers, 3 failures, 2 duplicates, fairness | `ImplementsEventOnce`, `EveryEventIsDone` |
| `QuotaLimits` | 3 requests, a plan with quota 2 and one without limit (up to 3 units), 2 months | `UsedWithinLimit`, `UsageIsExact` |
| `Trials` | 3 sign-ups, 2 e-mails, 2 telephones or none, fairness | `OneTrialPerKey`, `EverySignupEnds` |
| `RentFollowUp` | 2 passes, 1 request at a time, 2 levels, 2 writes, 1 interruption, fairness | `ReminderSentOnce`, `LevelsInOrder`, `UnpaidIsChased` |
| `Occupancy` | 2 makers, 1 request of the staff, 1 closer, 2 leases, 2 tenants, 1 ticket | `OneActiveLease`, `ActiveIsBilled` |
| `Applications` | 2 requests, 1 applicant, 2 applications, changes to 2, 1 interruption, fairness | `OneLeaseEach`, `InProgressIsSound`, `Scored` |
| `Tickets` | 2 requests, 1 ticket, 2 agents, 1 photo, 1 interruption, fairness | `AgentFitsStatus`, `ClosedStays`, `CreatedIsHanded` |
| `Accounts` | 2 requests at once, 3 in all, 2 accounts, 2 e-mails, 1 invitation, 1 stop, fairness | `OneAccountEach`, `TemporaryIsChanged`, `MembersComeBack` |
| `AiActions` | 2 requests, 2 pending actions, 1 automation of 2 drafts, 1 crash, fairness | `NeverSilent`, `StatusTellsWhatLeft`, `EndsOnce`, `ExecutionEnds` |
| `Assistant` | a phone and a web page, 3 messages of given kinds, 2 rounds with OpenAI, 1 late write, 1 mishap, fairness | `YesRunsToldOrNewer`, `DraftFollowsUser`, `Settles` |

What these runs show, in a sentence each, is in `PROJECT.json`. Section 5 lists what the models
showed the code to do against its own words.

### Bounds, and why they are enough

* Races here need two actors at one row: a handler and a check, two passes, three deliveries
  (first, duplicate, retry), three sign-ups (so that each of two keys can be shared with a
  different one, and a circle of three is possible).
* `BillingServed` has two checks, a member's request and the scheduler, that may see the same row
  run out and be overtaken by a renewal, and one handler, which with a grant, a failure and two
  plans is as much as the liveness properties leave room for. That more of either change nothing
  for `EntitledOnlyWhileCovered`, `ExpiryRecordedOnce` and `SameBeforeAndAfterMark` is what their
  theorems say, for any number of them. What a second handler does change is `BillingOrder`.
* `QuotaLimits`: three requests and a quota of 2 make one too many; three units on a plan without
  a limit (`MaxUsed`) go beyond the quota of the other, before a change to it and after.
* Two changes at Stripe give a purchase and a renewal, a cancellation, a failed payment or a
  change of plan, in any order; time to 2 with a period, a trial and a grant of 1 lets each end,
  with one tick for the renewal delay.
* `Ledger`: a failure, a crash and a failed retry is the longest story that still ends;
  `HandlingTime = Stale = 2` is the boundary of the assumption below.
* `RentFollowUp`: the days that matter are before the date, the date, and the first day of each
  level; J+1, J+7 and J+15 are their order. Two levels are enough for one to overtake another.
  Two writes give pay and take back, or a partial payment and its complement.
* `Occupancy`: two leases are what a double letting takes, and two makers what overtaking takes;
  an onboarding that is rolled back may be one of them. The theorems have any number of both, and
  of tickets. `Leases` and `Tickets` bound how many are ever
  created, since a row never becomes unborn.
* `Applications`: one applicant's two applications are what a second draft, a withdrawal and a
  new start need; two requests are what a stale check takes. `MaxDisturbed = 0` stops the story
  once its only applicant is disturbed, since the properties say nothing about him from then on.
  Files have two changes: the one that is scored and one after it.
* `Tickets`: one ticket, so the agent with the least load is any agent: `Choose` leaves it open,
  whoever it is. Two agents are what a refusal and a new assignment take.
* `Accounts`: two requests at once are what a late write takes, and three in all give an account,
  what is done to it, and what overtakes that; the visits that bring a membership back are not
  counted. Two accounts over two e-mails are what a clash takes. The tenant has an e-mail; without
  one see section 5.
* `AiActions`: two actions about one run are what an older approval needs to compete with a newer
  one; two drafts are what a partial execution takes.
* `Assistant`: the first message asks for a contract or sends a photo, the second, on the same
  phone, is anything (a question, a confirmation, a detail, another proposal of every type the
  router makes, a document), the third corrects or agrees, on either client. Two exchanges in the
  session (`ServerTurns`; 8 messages, so 4 exchanges, in the code) make the oldest one drop
  within three messages; the history of the client (`HistoryLimit`; 10 messages, so 5 exchanges,
  in the code) is not cut within them. OpenAI calls one tool a round, and proposals expire
  between turns: inside a turn expiry is the refusal that `Consume` may meet anyway.

### Fairness

* A step of a handler, check, request or pass that has begun is weakly fair: Node runs what it
  has started, and the failures are actions of their own with a bound, as errors are in a system
  that works again some day.
* `Deliver` is weakly fair: Stripe redelivers what was not acknowledged. Nothing makes it deliver
  what was.
* `ExpireDue` and the passes of the follow-up are weakly fair: timers of 15 minutes and 6 hours
  in `server.ts`. Nobody is obliged to pay, cancel, sign up or renew.
* In `AiActions`, `Applications` and `Tickets` a request that has begun goes on (`WF` of
  `Serve(h)` for each); `Stop` and `Crash` are other steps, bounded. In `Assistant` the process
  as a whole goes on (`WF` of `Work`): no order of its jobs and turns is assumed, and OpenAI
  answers or fails, as its client has a time-out. Nobody is obliged to write, review, accept or
  confirm.
* In `Accounts` a request that has begun goes on, and the holder of an account that is infinitely
  often active and without its membership uses the application (`SF` of `Come(id)`): his request
  may find no free place, or his account closed, any number of times before. That is what
  `MembersComeBack` says, and all it needs.
* `OrgCopyHeals` also assumes `Busy`, that members go on using the application: the copy is only
  written by a check of a request, and stays stale if nobody comes.

### Assumptions

* `HandlingTime <= Stale` (`OneRunner`, `DoneIsFinal`, `ImplementsEventOnce`): no delivery is
  handled for longer than `STALE_PROCESSING_MS`, 5 minutes. The Stripe client tries three times
  with a time-out of 80 s, about 4 minutes, so the code stays under it for one call that fails;
  nothing enforces it, and with a longer handling `OneRunner` is false.
* `duplicates = 0` in `EveryEventIsDone`: a delivery Stripe makes without being asked is answered
  200 while the first is at work.
* one handler in `PaymentReachesRow` and the other liveness properties of `BillingServed`: they
  are about failures and retries, not about the order of two calls, which is `BillingOrder`.
* what is taken on a plan without a limit is out of `UsedWithinLimit`, which subtracts it. In the
  configuration of the day every quota is null, so the property says nothing of today's plans; it
  is about the mechanism, for whatever limits `quotas.config.ts` gets.
* `OneActiveLease` excepts a lease in `forced`: its maker had checked before another maker wrote,
  and wrote after. Nothing in the code keeps two makers apart, and two onboardings that check
  before either has written give two active leases in four steps. What is shown is that nothing
  else does: neither the end of a draft, which makes a let apartment AVAILABLE, nor a status set
  by hand, nor a renewal of a lease ended meanwhile, nor a roll-back.
* `OneLeaseEach`, `InProgressIsSound`, `AgentFitsStatus`, `ClosedStays` and `TemporaryIsChanged`
  except what is in `stale` or `misscored`, as their comments say: there the code writes over what
  it has not looked at again, and section 5 lists what that costs.
* `DraftFollowsUser` is about a client that sends its history, a request that still fits in it, and
  answers that all continued it; it says nothing of a draft that an earlier request for a PDF
  began.

## 4. Proofs

All theorems are proved for every value of the constants that satisfies the named ASSUMEs.

| Module | Theorems | Argument |
|---|---|---|
| `Billing_proofs` | `TypeCorrect`, `EntitlementIsCovered`, `ExpiryIsRecordedOnce` | `CoverInv`: what handlers have read at Stripe and what the row holds is covered; `ExpiryInv`: expiries recorded, plus checks about to record one, plus one if the row is open, never exceed the openings |
| the same, of `AccessRules` | `SameAfterMark`, `RightsShrink`, and of `Billing` again `MarkChangesNothing` | a run-out row stays so, and marking it changes neither rights nor reason, for a row of a shape the program writes (`WellFormed`), which the row of `Billing` always is |
| `WebhookLedger_proofs` | `TypeCorrect`, `OneRunnerAtATime`, `ProcessedIsFinal`, `LedgerImplementsEventOnce` | `RunnerInv`: a busy handler holds a claim no older than its own delivery, so nobody can take it over yet; from it every step maps to a step of `EventOnce` or a stutter |
| `AiActions_proofs` | `TypeCorrect`, `ActionsEndOnce`, `NothingIsSilent`, `DirectActionsOnce`, `AnnouncedLeaseExists`, `CalmRunsTellTheTruth` | `IInv`: a row and its fate agree (`RowFate`), so a delete that succeeds is the only end of an action; one request acts on what it confirmed, before anything was done (`Acting`); between the creation and the answer the lease exists (`ToldOfLease`); an execution that nothing disturbed knows what it sent (`Undisturbed`); the drafts sent, plus the requests that may still send them, never exceed the confirmations plus the executions by rule (`Asked`, by cardinalities) |
| the same, of `AiQuota` | `QuotaTypeCorrect`, `UsageAccountedFor`, `LimitNeverExceeded` | the count of a month equals answers, requests at work and lost units; each addition to it was admitted under a limit, or is among the `free` ones, and a unit given back is taken from where it was counted |
| `Occupancy_proofs` | `TypeCorrect`, `OneLeaseInForce`, `ActiveLeaseIsBilled` | `SoleInv`: while a maker that nobody has overtaken is between its check and its write, no lease but its own is active; a write that makes one active overtakes all the others; `BilledInv`: what is about to be renewed was active, hence billed, or has been deleted with its rent |
| the same, of `RentFollowUp` | `RentTypeCorrect`, `StatusFits`, `SentOnce`, `LevelsAreProgressive` | `SentInv`: who is about to send has journaled the type itself, alone; `OrderInv`: who is at a level has found or journaled those below; `StatusInv`: what a request is about to write already fits |
| `Applications_proofs` | `TypeCorrect`, `LeaseWhenAccepted`, `SoundInProgress` | `CallInv`: every request had checked what it must (`held`) and knows whose application it is about; a write that finds its check undone disturbs the applicant; `SoundFor`, asked of an applicant whom nothing has disturbed, is then kept by each write |
| `Tickets_proofs` | `TypeCorrect`, `AgentAlwaysFits`, `ClosedForGood` | `CallInv`: a change was checked against a status and an agent that are still the ticket's while the request is `fresh`, that is until another one writes there; a later write marks the ticket `stale` |
| `Accounts_proofs` | `TypeCorrect`, `OneAccount`, `TemporaryMustChange` | `MailsUnique` and `HolderInv`: no two accounts have one e-mail, and an account that is not deleted keeps the e-mail of the invitation or the tenant it was made for, so no check before the write is needed; `CallInv` (`Sound`): who is about to record the use of an account read after its password was chosen, unless the password was replaced meanwhile |
| the same, of `TrialClaims` | `TrialTypeCorrect`, `NoSharedTrial`, `RefusalHasCause` | `ClaimsInv`: a granted sign-up owns its keys until it aborts, and a claim is never taken over |
| `Assistant_proofs` | `TypeCorrect`, `YesIsNeverOlder`, `DraftSaysIt` | see below |

The invariants of the runs are not inductive by themselves: for example a state with
`ReminderSentOnce` where two passes are about to send the same reminder has a successor without
it, and only the journal tells that no such state is reached. Each strengthening was an invariant
of a run before it was proved.

Three modules of proofs are about two components each, a small one beside the one it belongs to.
They extend both, which is why `AiQuota`, `TrialClaims` and `RentFollowUp` name their
specifications `QuotaSpec`, `TrialSpec` and `RentSpec`.

`Assistant` has many handlers, and few ways in which they change what the theorems speak of: a
turn goes on, it is sent, it calls OpenAI, it makes a proposal, it ends with an exchange, or it is
disturbed from outside. Every action is shown to have one of these shapes first, and the
invariants are proved over the shapes.

* `YesIsNeverOlder` rests on `ToldOrNewer`: the card a client shows is none or that of the last
  proposal told, and a « yes » in progress is not older than that one.
* `DraftSaysIt` rests on `Conversations`: what a client shows is in the order it was sent and older
  than the message in progress, of which the history is its end; no proposal is newer than that
  message. What `collectLeaseDraftMessages` keeps of the history (`Scanned`) is the set `Since` of
  the property, which knows nothing of that search, when the request still fits in the history
  and every answer continued it (`SinceIsScanned`). Each value of a
  draft is then the one named last, by the lemmas on least and greatest numbers of a finite set,
  and what comes later changes neither the message of a proposal nor what went before it
  (`FollowsStill`). No induction over sequences is needed.

Only model-checked: the liveness properties (`PaymentReachesRow`, `LapsedIsRecorded`,
`OrgCopyHeals`, `EveryEventIsDone`, `EverySignupEnds`, `UnpaidIsChased`, `Scored`,
`CreatedIsHanded`, `MembersComeBack`, `ExecutionEnds`, `Settles`), since the prover has no support
for fairness. Every other property of a passing run, invariant or action property, is a theorem.

## 5. What the models showed

Things the code does that its own words, or a reader, would not expect. The actions that lead to
them are in the modules; the properties say where they except them, and nothing is claimed of
what the code loses outright.

Against the words of the code:

* Two handlers of one subscription: the one that read Stripe first may write last, and the row
  keeps the older state after every event is processed, although "l'ordre d'arrivée des
  événements n'a donc pas d'importance" (`stripe-billing.service.ts:307-308`). `BillingOrder`
  shows it, and is listed as a finding.
* A check reads a row that has run out, a renewal is written with the same status, and the
  conditional update of `persistTransition` (`subscription.service.ts:355`) marks the renewed row
  EXPIRED until the next event.
* A duplicate delivered while an event is being processed is answered 200; if that processing
  then dies Stripe has no reason to deliver again, and the claim "interrompu" that "peut être
  repris" (`stripe-billing.service.ts:15`) is taken up by nobody.
* `markLatePayments` (`rent-followup.service.ts:109`) updates by id what it found before: a rent
  paid in between becomes LATE, is chased, and can no longer be marked unpaid
  (`docs/ITC-guide-application.md:576`: a late rent is one not paid in full).
* "Cette demande a déjà été traitée" (`application.service.ts:361`), but `runAiScoring`, a route
  of the staff, writes AI_SCORED over ACCEPTED or REJECTED (`:337`), and the application can be
  accepted again, with a second lease.
* `executeCreateLease` says "Impossible de créer le contrat" (`ai.service.ts:3384`) also when the
  lease was created and only its activation or its PDF failed: it exists as a draft, and asking
  again makes a second one. (`CreatedMeansLease` is the half that holds.)
* The comment P2-002/018 of `maintenance.service.ts:381`: a notice "confirmez la résolution"
  outlives the closing when `complete` has committed and not yet told the tenant (`Tell` after
  `Resolve` in `Tickets`); no property claims that closing ends it.
* `server.ts:51-52` says several instances make no duplicates: true of reminders, not of the
  PAYMENT_LATE notice, which is not journaled.

Without words against them:

* A photo and a payment: two photos attached at once lose one, two payments recorded at once lose
  one, and a duplicate of the Mobile Money webhook is a second payment (`payment.service.ts:300`).
* Two makers (two drafts of one apartment activated at once, `lease.service.ts:97`) give two
  active leases; two closers, who each count the other's ticket as open, leave an apartment in
  MAINTENANCE; two reviews make two leases.
* The event of an old subscription, retried after a failure, replaces the new one
  (`stripe-billing.service.ts:326`), and a Stripe event replaces a grant
  (`subscription.service.ts:544`).
* `expireDue` takes 500 rows in no stated order, rows that stay due may fill the batch, and an
  error on one organisation ends the pass for those that follow (`:585`). A trial warning is
  recorded before it is sent, and no index makes the record unique (`:620`).
* An application may be reviewed from DRAFT and WITHDRAWN; a draft that the staff scores is
  AI_SCORED and can no longer be submitted; two applications can be accepted for one apartment,
  since `review` does not look at it.
* A failed notice leaves a submitted application PENDING without a score, and `submit` refuses to
  be repeated.
* The staff may start or complete a ticket from any status but CLOSED, whoever it is assigned to:
  the rules of `maintenance.transitions.ts` are for agents.
* A crash leaves a run EXECUTING for the day: `propose` then answers "confirmation requise"
  without an action to confirm, and only an older one, if it is still open, executes it again
  from the first draft. A run that only navigates ends FAILED; one that sent a message and could
  not record it counts it as failed; a PARTIAL run is not tried again that day; an approved
  proposal uses the texts of the moment it was proposed. `AiAutomationService.cancel` has no
  caller.
* A conversation: earlier proposals stay open behind the latest one and are what a later "oui"
  runs; when OpenAI fails after a tool proposed something, the local tools answer without its card
  and the proposal stays open, untold (`ai.service.ts:588-601`); the draft
  of a client without a history of its own goes on through a confirmed "oui", which is not
  persisted; a question about a document takes the session's last lease before the tenant the
  question names (`ai.service.ts:1676`); a request for a PDF that became a draft does not end the
  search for the messages of an earlier one (`ai.lease-request.ts:400`), so that an earlier
  contract's term gets into the new one.
* The roll-back of an onboarding with a draft frees an apartment let to somebody else
  (`tenant-onboard.service.ts:183-188`), and a let apartment stays published
  (`lease.service.ts:108-111`; `listing.service.ts:127` checks, then writes), hidden from the
  catalogue only by its status.
* Accounts: a password that is reset while its holder changes the old one is temporary, and the
  obligation to change it is cleared by the second write of the change
  (`auth.service.ts:919-920`); a suspended account is put back in use from a reading, over a reset
  (`portal-access.service.ts:311-320`). These are the accounts in `stale`. Two provisionings of a
  tenant without an e-mail make two accounts, since no index tells them apart, and the file keeps
  the second (`portal-access.service.ts:186-212`). An invitation revoked while it is accepted is
  both. `provisionAccess` and `createUser` leave a membership inactive or missing until the next
  visit; `ensurePrimary` makes active again, at any sign-in, one that was switched off.
* `provision` refuses an archived account and sends to `reactivate` (`portal-access.service.ts:122`),
  which refuses it and sends back to `provision` (`:309`); only a reset leads out.

## 6. Not modelled

In the modelled parts:

* Notices, history rows (but those of expiry), prices, the billing portal, the customer id, the
  backup of legacy rows, `createMissingSubscription`, `applyStatus` (no caller),
  `sendTrialWarnings`.
* The order of rows in a batch: `Billing` and `RentFollowUp` follow one organisation and one
  payment; that one's error ends the pass of the others is above, in section 5.
* The references and PDFs of payments.
* A refused payment keeps the end of the period it could not renew, as in the fixture of
  `tests/integration/subscriptions.db.test.ts:511-523`.
* `Occupancy`: dates, rents and terms of a lease, rooms and description of an apartment, its
  deletion, the file and the portal account of a tenant. No operation writes the status EXPIRED,
  which `renew` accepts. `Accept` may happen at any time after an application, and again:
  `Applications` says when.
* `Applications`: what a form and a document contain, and the arithmetic of the score.
* `Accounts`: roles, rights and features; the identifiers given to who has no e-mail; how a
  password or an invitation is sent. `MaxUsers` and `MaxInvites` are bounds: a creation beyond
  them is refused, or waits.
* `Tickets`: notes, title and priority; CANCELLED is never written.
* `AiActions`: requests about another user's action (refused, and without effect), the settings
  of rules, what a detection finds.
* `Assistant`: what a text means is given (a message has a kind and what it names); read-only
  tools and the wording of answers; several tool calls in one round; analyses and forecasts. The
  application's manual, the tools' queries and the document intelligence, some 6000 lines, are
  text and reads: no state to interleave.

Components not modelled at all:

* Tokens, sessions, locks and second factors: their rules are about who holds a secret, which a
  security review has to judge.
* Market intelligence and matching, dashboards, permissions, features, audit log: reads, static
  tables and single writes; no order of steps can make them wrong.
* Inspections, documents, storage, PDF, mail, WhatsApp, n8n and OpenAI clients: input and output.
  That they fail is modelled where it matters (`FinishFails`, `Stop`, `OpenAiFails`, `Rollback`).
* A scheduler over several organisations and payments, and the onboarding check list (one JSON
  value that each answer replaces).

What would come next: the progress of each organisation in a batch; the composition of `Billing`
with `EventOnce` (an event stays available until it is done).
