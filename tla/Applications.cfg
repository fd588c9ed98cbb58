SPECIFICATION FairSpec
CONSTANTS
  h1 = h1
  h2 = h2
  p1 = p1
  Handlers = {h1, h2}
  Applicants = {p1}
  MaxApps = 2
  MaxEdits = 2
  MaxStops = 1
  MaxDisturbed = 0
INVARIANTS
  OneLeaseEach
  InProgressIsSound
PROPERTIES
  Scored
CHECK_DEADLOCK FALSE
