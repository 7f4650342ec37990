SPECIFICATION Spec
CONSTANTS
  WordBits = 2
  MaxPort = 3
  MaxBinds = 10
  Settings <- MCSettings
  Packets <- MCPackets
  Proxies = {1, 2, 3, 4, 5}
  NoProxy = 0
  DirectorIP = 9
  MaxBackends = 6
  MaxTableBinds = 4
  Rows = 6
  RowOf <- MCRowOf
  Seeded <- MCSeeded
  CheckBits = 4
  Payloads = {0, 6}
INVARIANTS ClassifierExact DirectorsAgree  RedirectAccepts  ChecksumKept
CHECK_DEADLOCK FALSE
