SPECIFICATION FairSpec
CONSTANTS
  t1 = t1
  t2 = t2
  m6 = m6
  m12 = m12
  None = None
  Tenants = {t1, t2}
  Terms = {m6, m12}
  Devices = {"phone", "web"}
  SendsHistory = {"phone"}
  Messages <- SmallMessages
  HistoryLimit = 2
  ServerTurns = 2
  Rounds = 2
  MaxLate = 1
  MaxMishaps = 1
INVARIANTS
  YesRunsToldOrNewer
  DraftFollowsUser
PROPERTIES
  Settles
CHECK_DEADLOCK FALSE
