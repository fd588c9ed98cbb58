SPECIFICATION FairSpec
CONSTANTS
  e1 = e1
  h1 = h1
  h2 = h2
  h3 = h3
  None = None
  Events <- OneEvent
  Handlers <- ThreeHandlers
  Stale = 2
  HandlingTime = 2
  RetryDelay = 5
  MaxFailures = 3
  MaxDuplicates = 2
PROPERTIES
  ImplementsEventOnce
  EveryEventIsDone
