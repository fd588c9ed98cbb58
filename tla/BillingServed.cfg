SPECIFICATION FairSpec
CONSTANTS
  h1 = h1
  h2 = h2
  r1 = r1
  t1 = t1
  s1 = s1
  Null = Null
  Subs <- OneSub
  Handlers <- OneHandler
  Requests <- OneRequest
  Schedulers <- OneScheduler
  SoldPlans = {"PRO", "PLUS"}
  GrantPlans = {"PLUS"}
  GrantEnds = {1}
  Period = 1
  TrialDuration = 1
  RenewalConfirmation = 1
  MaxTime = 2
  MaxEvents = 2
  MaxFailures = 1
INVARIANTS
  EntitledOnlyWhileCovered
  ExpiryRecordedOnce
  SameBeforeAndAfterMark
PROPERTIES
  PaymentReachesRow
  LapsedIsRecorded
  OrgCopyHeals
CHECK_DEADLOCK FALSE
