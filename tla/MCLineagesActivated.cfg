CONSTANTS
  m1 = m1
  m2 = m2
  Models = {m1, m2}
  Kinds = {"rooms"}
  Phases = {"new", "existing"}
  NoPhase = NoPhase
  None = None
  Offers <- RoomsOfOne
  Handlers = {h1}
  MaxPayloads = 3
  MaxStops = 0
SPECIFICATION Spec
CHECK_DEADLOCK FALSE
PROPERTY
  ActivatedIsNewest
