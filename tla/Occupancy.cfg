SPECIFICATION Spec
CONSTANTS
  m1 = m1
  m2 = m2
  s1 = s1
  c1 = c1
  l1 = l1
  l2 = l2
  a = a
  b = b
  t1 = t1
  Null = Null
  Makers <- TwoMakers
  Staff <- OneStaff
  Closers <- OneCloser
  Leases <- TwoLeases
  Tenants <- TwoTenants
  Tickets <- OneTicket
  StatusesByHand = {"AVAILABLE", "OCCUPIED", "UNAVAILABLE", "MAINTENANCE"}
SYMMETRY Symmetry
INVARIANTS
  OneActiveLease
  ActiveIsBilled
