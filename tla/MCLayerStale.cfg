SPECIFICATION PollSpec
CONSTANTS
  Nothing = Nothing
  Models = {m1}
  SnapshotIds = {1}
  SettingsFiles <- MCSettingsFiles
  Scopes <- MCScopes
INVARIANT HeldIsTagged
CHECK_DEADLOCK FALSE
