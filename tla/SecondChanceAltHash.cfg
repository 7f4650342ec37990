SPECIFICATION Spec
SYMMETRY Symmetry
CONSTANTS
  p1 = p1
  p2 = p2
  p3 = p3
  p4 = p4
  Proxies = {p1, p2, p3}
  Directors = {d1, d2}
  Flows = {f1}
  NoProxy = NoProxy
  Rows = {1, 2}
  Hash <- MCHashShared
  RowOf <- MCRowOf
  Operations = {"health", "migrate"}
  MaxEpoch = 1
  MaxPackets = 1
INVARIANT MigrationKeepsConnections
