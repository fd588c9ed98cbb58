SPECIFICATION FairRentSpec
CONSTANTS
  p1 = p1
  p2 = p2
  c1 = c1
  Passes <- TwoPasses
  Clients <- OneClient
  Rent = 2
  Amounts = {1, 2}
  DueDay = 1
  LastDay = 3
  DaysBefore = 1
  Levels = 2
  DunningDay <- TwoLevels
  OwnerAlertDay = 2
  MaxWrites = 2
  MaxFailures = 1
INVARIANTS
  ReminderSentOnce
  LevelsInOrder
PROPERTIES
  UnpaidIsChased
