SPECIFICATION BrokerSpec
CONSTANTS
  Hosts = {h1, h2}
  Natives = {n1, n2}
  Stored = {n1}
  h1 = h1
  h2 = h2
  n1 = n1
  n2 = n2
  MaxLinks = 2
  MaxRecords = 2
  MaxAdapters = 3
  MaxPending = 1
  Nobody = Nobody
  NoNative = NoNative
SYMMETRY BrokerSymmetry
INVARIANTS OneNativeWriter
CHECK_DEADLOCK FALSE
