SPECIFICATION Spec
CONSTANTS
  Handles = {h1, h2}
  Labelled = {h1, h2}
  Workers = {w1, w2}
  NoHandle = NoHandle
  StartPort = 62000
  EndPort = 62002
  AutoPorts <- OnePort
  FixedPorts <- NoFixed
  Docker = {}
  Annotated = {}
  Overlap = {"Create"}
  BlindErrors = TRUE
  MaxFaults = 2
  MaxIncarnations = 1
INVARIANTS
  TypeOK
  PortExclusive
  AccountedPods
  ListedIsUsable
PROPERTIES
  GoneUnlessUnseen
  CleanStart
  KeepsContract
SYMMETRY FullSymmetry
CHECK_DEADLOCK FALSE
