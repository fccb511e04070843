SPECIFICATION MCSpec
CONSTANTS
  Jobs = {j}
  Clients = {r1, r2}
  Written <- MCWritten
  DockerJobs = {d1, d2}
  DockerCallers = {e1, e2}
  MaxContainers = 2
  MaxFailures = 1
  KubeJobs = {k}
  KubeCallers = {f1, f2}
  BackoffLimit = 1
  MaxObjects = 2
  MaxErrors = 1
  Processes = {q1, q2}
  Publishers = {x1, x2}
  MaxPublished = 2
  MaxOutages = 1
  Sockets = {s1, s2}
  Projects = {p}
  Trajectories = {t}
  Broadcasters = {b}
  MaxEvents = 1
  MaxMessages = 2
  Requests = {g1, g2}
  Unlocked = Unlocked
  MaxInitErrors = 1
  Files <- MCFiles
  Tracked <- MCTracked
  Protected <- MCProtected
  Patches <- MCPatches
  NoPatch = NoPatch
  Hunks <- MCHunks
  TestPatches <- MCTestPatches
  MaxTestFiles = 2
  NoFile = NoFile
  w1 = w1
  w2 = w2
  w3 = w3
  Writers = {w1, w2, w3}
  ProcessOf <- MCProcessOf
  Lengths = {1, 2}
  MaxAccesses = 4
  MaxKills = 1
  RepoCallers = {a1, a2}
  Instances = {i}
  Shared = Shared
  Absent = Absent
  MaxCreates = 3
  MaxFaults = 1
  ScheduledJobs = {j1, j2}
  SchedulerClients = {c1}
  SchedulerLoop = loop
  FewRequests = 2
  MoreRequests = 4
INVARIANTS
  PartsTypeOK
  
  RunningSpared
  EventsArrive
  OneInstanceEach
  CallsAreSeparate
  AppendsKept
  
  CanceledIsTransient
CHECK_DEADLOCK FALSE
