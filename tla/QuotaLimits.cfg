SPECIFICATION QuotaSpec
CONSTANTS
  r1 = r1
  r2 = r2
  r3 = r3
  Requests <- ThreeRequests
  Plans = {"PRO_MAX", "PRO"}
  AiPlans = {"PRO_MAX"}
  Quota <- OneQuota
  LastMonth = 1
  MaxUsed = 3
SYMMETRY Symmetry
INVARIANTS
  UsedWithinLimit
  UsageIsExact

