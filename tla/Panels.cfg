SPECIFICATION PanelsSpec
CONSTANTS
  MaxCaptures = 2
  MaxDownloads = 2
  None = None
  JobSlots = {"j1", "j2"}
  KubernetesVersions = {1, 2}
  MaxRequests = 3
  NoVersion = NoVersion
  ExistingGroups = {"g1"}
  NewGroups = {"g2"}
  Handlers = {"h1", "h2"}
  NoGroup = NoGroup
  MAX_RETRY = 3
  Queries = {"q1", "q2"}
  Models = {"a", "b"}
  Deployments = {"d1", "d2"}
  Operations = {"o1", "o2"}
  NoModel = NoModel
  Subscriptions = {"s1", "s2"}
  NoSubscription = NoSubscription
  FleetNames = {"f1", "f2"}
  NoFleet = NoFleet
  FleetHandlers = {"h1", "h2"}
  MaxTraces = 2
  MaxWatches = 2
  NoTrace = NoTrace
CHECK_DEADLOCK FALSE
INVARIANT BusyIsBacked
INVARIANT CapturesAreTrue
INVARIANT ShowsOutcome
INVARIANT OneOperationPerWorkspace
INVARIANT OperatorAsChosen
INVARIANT StreamsAreHeld
PROPERTY ButtonsComeBack
