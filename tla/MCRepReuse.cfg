SPECIFICATION Spec
CONSTANTS
  Handles = {h1, h2}
  Labelled = {h1, h2}
  Workers = {w1, w2}
  NoHandle = NoHandle
  StartPort = 62000
  EndPort = 62002
  AutoPorts <- OnePort
  FixedPorts <- NoFixed
  Docker = {}
  Annotated = {}
  Overlap = {}
  BlindErrors = FALSE
  MaxFaults = 0
  MaxIncarnations = 2
PROPERTY WaitsForItsPod
CHECK_DEADLOCK FALSE
