SPECIFICATION FairSpec
CONSTANTS
  h1 = h1
  h2 = h2
  Handlers = {h1, h2}
  Keys = {"reminders"}
  Drafts = 2
  MaxIds = 2
  MaxCrashes = 1
INVARIANTS
  NeverSilent
  StatusTellsWhatLeft
PROPERTIES
  EndsOnce
  ExecutionEnds
