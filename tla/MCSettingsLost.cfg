SPECIFICATION SettingsSpec
CONSTANTS
  Projects = {q1}
  Admins = {a1, a2}
  Labels = {l1}
  Dates = {1, 2}
  Doors = {o1, o2}
  Broken = Broken
  Nothing = Nothing
  Sent = {{"doors"}, {"fields"}}
  Uploading = {q1}
  ByHand = {}
PROPERTY UnsentIsKept
CHECK_DEADLOCK FALSE
