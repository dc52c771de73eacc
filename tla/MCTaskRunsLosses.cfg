CONSTANTS
  TaskKinds = {"populate_room", "update_room", "create_rls"}
  TaskModels = {"m1"}
  Rooms = {"r1"}
  Sessions = {s1}
  MaxTasks = 2
  MaxAttempts = 2
  Results = {"completed", "failed", "aborted"}
  NoStatus = NoStatus
  ModelOf <- OneModel
  MaxLost = 1
  MaxFaults = 1
SPECIFICATION RunSpec
CHECK_DEADLOCK FALSE
INVARIANTS
  WorkIsReportedAsItGoes
  StoppedTasksReportedFirst
PROPERTIES
  RunsComeToAnEnd
  HandedTasksAreSettled
