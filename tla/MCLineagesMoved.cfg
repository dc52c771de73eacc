CONSTANTS
  m1 = m1
  m2 = m2
  Models = {m1, m2}
  Kinds = {"rooms"}
  Phases = {"new", "existing"}
  NoPhase = NoPhase
  None = None
  Offers <- RoomsOfEither
  Handlers = {h1, h2}
  MaxPayloads = 3
  MaxStops = 0
SPECIFICATION Spec
SYMMETRY Handling
CHECK_DEADLOCK FALSE
PROPERTY
  PhaseFixed
