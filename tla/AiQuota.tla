------------------------------ MODULE AiQuota ------------------------------
(***************************************************************************)
(* The monthly quota of one AI unit for one organisation: AiQuotaService.  *)
(* A request is admitted on the plan the middleware read, then run reads   *)
(* the plan again for its limit, makes sure the month has a row, takes a   *)
(* unit by one conditional update, and gives it back if the operation      *)
(* fails.  Plans and months change between any two of these steps.         *)
(*                                                                         *)
(* Quota stands for AI_QUOTAS; a plan it does not name has no limit.       *)
(* Bounds: LastMonth; MaxUsed, what a month may count when a unit is taken *)
(* without a limit.                                                        *)
(***************************************************************************)
EXTENDS Integers, FiniteSets

CONSTANTS
  Requests,
  Plans,     \* plans the organisation goes through
  AiPlans,   \* those with the AI capability
  Quota,     \* limit of each plan, or NoLimit
  LastMonth,
  MaxUsed

NoLimit == -1

ASSUME QuotaAssumption ==
  /\ IsFiniteSet(Requests)
  /\ AiPlans \subseteq Plans
  /\ Quota \in [Plans -> Nat \cup {NoLimit}]
  /\ LastMonth \in Nat
  /\ MaxUsed \in Nat

Months == 0..LastMonth
NoRow == -1

VARIABLES
  month,   \* quotaPeriodStart of the server clock
  plan,    \* plan of the organisation
  used,    \* ai_usage.used of each month's row, or NoRow
  pc, limit, period,   \* requests: place, limit and month read
  answered,            \* history: operations that succeeded on each month
  lost,                \* history: units taken and never given back
  free                 \* history: units taken without a limit and not given back

quotaVars == <<month, plan, used, pc, limit, period, answered, lost, free>>

---------------------------------------------------------------------------

QuotaInit ==
  /\ month = 0
  /\ plan \in Plans
  /\ used = [m \in Months |-> NoRow]
  /\ pc = [r \in Requests |-> "idle"]
  /\ limit = [r \in Requests |-> NoLimit]
  /\ period = [r \in Requests |-> 0]
  /\ answered = [m \in Months |-> 0]
  /\ lost = [m \in Months |-> 0]
  /\ free = [m \in Months |-> 0]

Goto(r, from, to) == pc[r] = from /\ pc' = [pc EXCEPT ![r] = to]

NextMonth ==
  /\ month < LastMonth
  /\ month' = month + 1
  /\ UNCHANGED <<plan, used, pc, limit, period, answered, lost, free>>

\* A payment, a grant or a scheduled change takes the organisation to plan p.
ChangePlan(p) ==
  /\ plan # p
  /\ plan' = p
  /\ UNCHANGED <<month, used, pc, limit, period, answered, lost, free>>

\* requireCapability: the request goes through while the plan has the AI.
Admit(r) ==
  /\ Goto(r, "idle", "admitted")
  /\ plan \in AiPlans
  /\ UNCHANGED <<month, plan, used, limit, period, answered, lost, free>>

\* reserve: getAccess, and the limit of the plan it returns.
ReadPlan(r) ==
  /\ Goto(r, "admitted", "planned")
  /\ limit' = [limit EXCEPT ![r] = Quota[plan]]
  /\ UNCHANGED <<month, plan, used, period, answered, lost, free>>

\* reserve: the month of the clock, and its row, created unless it exists.
EnsureRow(r) ==
  /\ Goto(r, "planned", "ready")
  /\ period' = [period EXCEPT ![r] = month]
  /\ used' = [used EXCEPT ![month] = IF @ = NoRow THEN 0 ELSE @]
  /\ UNCHANGED <<month, plan, limit, answered, lost, free>>

Free(r) == limit[r] = NoLimit

\* Mutant: one unit too many.
HasRoomAtLimit(r) == Free(r) \/ used[period[r]] <= limit[r]

\* reserve: the update that takes a unit if there is one left.
HasRoom(r) == Free(r) \/ used[period[r]] < limit[r]

Reserve(r) ==
  /\ Goto(r, "ready", "operating")
  /\ HasRoom(r)
  /\ Free(r) => used[period[r]] < MaxUsed
  /\ used' = [used EXCEPT ![period[r]] = @ + 1]
  /\ free' = [free EXCEPT ![period[r]] = IF Free(r) THEN @ + 1 ELSE @]
  /\ UNCHANGED <<month, plan, limit, period, answered, lost>>

\* AI_QUOTA_EXCEEDED.
Refuse(r) ==
  /\ Goto(r, "ready", "idle")
  /\ ~HasRoom(r)
  /\ UNCHANGED <<month, plan, used, limit, period, answered, lost, free>>

\* run: the operation returns ...
Succeed(r) ==
  /\ Goto(r, "operating", "idle")
  /\ answered' = [answered EXCEPT ![period[r]] = @ + 1]
  /\ UNCHANGED <<month, plan, used, limit, period, lost, free>>

\* ... or throws, and the unit is given back, to the row it was taken from ...
Fail(r) ==
  /\ Goto(r, "operating", "failed")
  /\ UNCHANGED <<month, plan, used, limit, period, answered, lost, free>>

\* GREATEST(n - 1, 0).
Less(n) == IF n > 0 THEN n - 1 ELSE 0

\* Mutant: the unit is given back to the present month.
ReleaseNow(r) ==
  /\ Goto(r, "failed", "idle")
  /\ used' = [used EXCEPT ![month] = Less(@)]
  /\ free' = [free EXCEPT ![month] = IF Free(r) THEN Less(@) ELSE @]
  /\ UNCHANGED <<month, plan, limit, period, answered, lost>>

Release(r) ==
  /\ Goto(r, "failed", "idle")
  /\ used' = [used EXCEPT ![period[r]] = Less(@)]
  /\ free' = [free EXCEPT ![period[r]] = IF Free(r) THEN Less(@) ELSE @]
  /\ UNCHANGED <<month, plan, limit, period, answered, lost>>

\* ... unless that update fails too, or the server dies first.
Lose(r) ==
  /\ pc[r] \in {"operating", "failed"}
  /\ pc' = [pc EXCEPT ![r] = "idle"]
  /\ lost' = [lost EXCEPT ![period[r]] = @ + 1]
  /\ UNCHANGED <<month, plan, used, limit, period, answered, free>>

Request(r) ==
  \/ Admit(r) \/ ReadPlan(r) \/ EnsureRow(r) \/ Reserve(r) \/ Refuse(r)
  \/ Succeed(r) \/ Fail(r) \/ Release(r) \/ Lose(r)

QuotaNext ==
  \/ NextMonth
  \/ \E p \in Plans : ChangePlan(p)
  \/ \E r \in Requests : Request(r)

QuotaSpec == QuotaInit /\ [][QuotaNext]_quotaVars

---------------------------------------------------------------------------
\* Properties.

QuotaPlaces == {"idle", "admitted", "planned", "ready", "operating", "failed"}

QuotaTypeOK ==
  /\ month \in Months
  /\ plan \in Plans
  /\ used \in [Months -> Nat \cup {NoRow}]
  /\ pc \in [Requests -> QuotaPlaces]
  /\ limit \in [Requests -> Nat \cup {NoLimit}]
  /\ period \in [Requests -> Months]
  /\ answered \in [Months -> Nat]
  /\ lost \in [Months -> Nat]
  /\ free \in [Months -> Nat]

\* Requests that hold a unit of month m.
Holders(m) == {r \in Requests : pc[r] \in {"operating", "failed"} /\ period[r] = m}

\* The units of a month taken under a limit and not given back never exceed the
\* limit of some plan of the organisation, whatever simultaneous requests,
\* failures, changes of plan and of month come between (AiQuotaService: two
\* simultaneous requests cannot exceed the limit).  A unit taken on a plan
\* without a limit is counted, and exceeds nothing.
UsedWithinLimit ==
  \A m \in Months : used[m] > free[m] =>
    \E p \in Plans : Quota[p] # NoLimit /\ used[m] - free[m] <= Quota[p]

\* Every unit counted on a month is accounted for: an answer given, a request
\* still at work on that month, or a unit lost; no release is taken from the
\* wrong month, and none is made twice.
UsageIsExact ==
  \A m \in Months :
    (IF used[m] = NoRow THEN 0 ELSE used[m]) = answered[m] + Cardinality(Holders(m)) + lost[m]

=============================================================================
