SPECIFICATION Spec
CONSTANTS
  h1 = h1
  h2 = h2
  r1 = r1
  t1 = t1
  s1 = s1
  Null = Null
  Subs <- OneSub
  Handlers <- TwoHandlers
  Requests <- OneRequest
  Schedulers <- OneScheduler
  SoldPlans = {"PRO"}
  GrantPlans = {"PLUS"}
  GrantEnds = {1}
  Period = 1
  TrialDuration = 1
  RenewalConfirmation = 1
  MaxTime = 1
  MaxEvents = 2
  MaxFailures = 0
INVARIANT RowFollowsStripe
CHECK_DEADLOCK FALSE
