CONSTANTS
  m1 = m1
  m2 = m2
  Models = {m1, m2}
  Kinds = {"rooms", "doors"}
  Phases = {"new", "existing"}
  NoPhase = NoPhase
  None = None
  Offers <- MixedOffers
  Handlers = {h1, h2}
  MaxPayloads = 3
  MaxStops = 0
  TaskKinds = {"populate_room", "create_rls"}
  TaskModels = {m1}
  Rooms = {r1}
  Sessions = {s1, s2}
  MaxTasks = 2
  MaxAttempts = 2
  Results = {"completed", "failed"}
  NoStatus = NoStatus
  Nothing = Nothing
  NodeCount = 3
  Elsewhere = Elsewhere
  Facts <- MCFacts
  MaxFacts = 3
  Heights <- MCHeights
  Questions <- MCQuestions
SPECIFICATION ServerSpec
SYMMETRY Exchanges
CHECK_DEADLOCK FALSE
INVARIANTS
  LineageTypeOK
  RefusedLeavesNoTrace
  OpeningsStoredWhole
  TypeOK
  OneLiveTaskPerRoom
  LastAttemptTellsState
  OneSessionPerAttempt
  RouteIsLeast
  ComponentsAreJoined
  LimitsAreTrue
PROPERTIES
  AttemptsKept
  KeepsSlots
