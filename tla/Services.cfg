SPECIFICATION ServicesSpec
CONSTANTS
  Owners = {1, 2}
  Retries = 2
  MaxTicket = 2
  LeaseExpires = FALSE
  Legacy = Legacy
  NoOwner = NoOwner
  Instances = {i1, i2}
  Threads = {t1}
  MaxRevision = 3
  MaxFaults = 2
  StartsOverlap = FALSE
  NoInstance = NoInstance
  NoLock = NoLock
  NoJob = NoJob
  Absent = Absent
  Torn = Torn
  Builds = {v1, v2}
  MaxCommands = 4
  MaxEdits = 1
  FirstInstallDies = FALSE
  EditsMeanwhile = FALSE
  Nothing = Nothing
  Commands = {c1, c2}
  Listeners = {m1, m2, s1}
  Stock = {s1}
  MaxCrashes = 1
  NoListener = NoListener
  StartupHosts = {d1, d2, d3}
  NoFile = NoFile
  NoHost = NoHost
  Wrappers = {w1, w2}
  Configurations = {p1, p2}
  SyncsFail = FALSE
  MaxDeaths = 1
  MaxSelections = 1
  Definitions = {b1, b2}
  Brokers = {q1, q2, q3, q4}
  Callers = {c1}
  MeetsStarting = FALSE
  NoAgent = NoAgent
  Attempts = 2
  MaxRequests = 2
  MaxTurns = 2
  MaxGenerations = 2
  MaxProcesses = 2
  ToolUses = {u1, u2}
  MaxOwners = 3
INVARIANTS
  MutualExclusion
  FirstComeFirstServed
  Durable
  FailedInstallRestores
  Reinstallable
  BoundIsReachable
  
  OneCreator
  OvercountsByNameOnly
  ControlEndsWithTurn
PROPERTIES
  CallsSettle
  StoreIsAtomic
  InstallReportsItsBroker
CHECK_DEADLOCK FALSE
