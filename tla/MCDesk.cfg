SPECIFICATION DeskSpec
SYMMETRY Exchanges
CONSTANTS
  Nothing = Nothing
  p1 = p1  p2 = p2  c1 = c1  c2 = c2
  Ids = {b1}
  Contents = {c1, c2}
  Pages = {p1, p2}
  Times <- MCTimes
  MaxRevisions = 2  MaxPending = 1  MaxRestamps = 1
  Rooms = {r1}
  b1 = b1  b2 = b2  s1 = s1  s2 = s2
  Owners = {b1, b2}
  Callers = {k1}
  Bundles <- MCBundles
  MaxWaiting = 1
  Sheets = {s1, s2}
  Numbers <- MCNumbers
  Generic = Generic
  ButtonNumbers <- MCButtonNumbers
  MaxStash = 1
  t1 = t1  t2 = t2  t3 = t3  i1 = i1
  Tags = {t1, t2, t3}
  ItemOf <- MCItemOf
  Codes = {A}
  Drawn = {d1}
  MaxSamples = 2
  MayStop = TRUE
  Projects = {q1, q2}
  Admins = {a1}
  Labels = {l1}
  Dates = {1, 2}
  Doors = {o1}
  Broken = Broken
  Sent = {{"is_default"}, {"fields"}}
  ByHand = {q1}
  Uploading = {q2}
  g1 = g1  g2 = g2  x1 = x1  x2 = x2  h1 = h1  h2 = h2
  Changes = {g1, g2}
  Payloads = {x1, x2}
  TTL = 1
  MaxClock = 1
  MaxUndecided = 1
  Elements = {e1}
  Levels = {l1, l2}
  Producers = {h1, h2}
  MaxTakenAt = 3
  Refusing = TRUE
  m1 = m1
  Models = {m1}
  SnapshotIds = {1}
  SettingsFiles <- MCSettingsFiles
  Scopes <- MCScopes
  Produced <- MixedIds
INVARIANTS
  DeskTypeOK
  BaseIsVersion PushedIsInOnePlace PinnedIsKept
  BoundWasAccepted BoundAreCarried
  CountedOnce
  AcceptedBoots ServesTheDisk
  RunsAsApproved
  ServedIsLastPushed
  MatchingTagMeansBody CursorsAgree
  FilesAreListedOnce IndexNamesTheLatest AlikeLastIsNewest
PROPERTIES
  RevisionsKept TakenOnlyIfAsked LearnedIsKept
CHECK_DEADLOCK FALSE
