SPECIFICATION FairSpec
CONSTANTS
  h1 = h1
  h2 = h2
  a1 = a1
  a2 = a2
  Handlers = {h1, h2}
  Agents = {a1, a2}
  MaxTickets = 1
  MaxPhotos = 1
  MaxStops = 1
INVARIANTS
  AgentFitsStatus
PROPERTIES
  ClosedStays
  CreatedIsHanded
