CONSTANTS
  t1 = t1  t2 = t2  t3 = t3
  l1 = l1  l2 = l2
  p1 = p1  p2 = p2
  c1 = c1  c2 = c2  c3 = c3
  None = None
  Tenants = {t1, t2, t3}
  Leases = {l1, l2}
  Properties = {p1, p2}
  Names = {"Ann", "Bob"}
  Addresses = {"Elm 1", "Oak 2"}
  Calls = {c1, c2, c3}
  MaxCalls = 6
SPECIFICATION Spec
CHECK_DEADLOCK FALSE
SYMMETRY Interchangeable
INVARIANTS PrimaryOnRoster DuplicatesAreExplained
