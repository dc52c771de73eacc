CONSTANTS
  m1 = m1
  m2 = m2
  Models = {m1, m2}
  Kinds = {"rooms", "doors", "spaces"}
  Phases = {"new", "existing"}
  NoPhase = NoPhase
  None = None
  Offers <- AllOffers
  Handlers = {h1}
  MaxPayloads = 3
  MaxStops = 1
SPECIFICATION Spec
CHECK_DEADLOCK FALSE
INVARIANTS
  LiveAgreesWithLineage
  FiledIsIndexed
PROPERTIES
  KeepsPhases
