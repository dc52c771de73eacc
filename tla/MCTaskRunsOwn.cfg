CONSTANTS
  TaskKinds = {"populate_room", "create_rls"}
  TaskModels = {"m1"}
  Rooms = {"r1"}
  Sessions = {s1, s2}
  MaxTasks = 2
  MaxAttempts = 2
  Results = {"completed", "failed", "aborted"}
  NoStatus = NoStatus
  ModelOf <- OneModel
  MaxLost = 0
  MaxFaults = 0
SPECIFICATION RunSpec
SYMMETRY Symmetry
CHECK_DEADLOCK FALSE
INVARIANT ReportsAreTheAttemptsOwn
