SPECIFICATION FairSpec
CONSTANTS
  Handles = {h1, h2}
  Labelled = {h1}
  Workers = {w1, w2}
  NoHandle = NoHandle
  StartPort = 62000
  EndPort = 62002
  AutoPorts <- OnePort
  FixedPorts <- NoFixed
  Docker = {}
  Annotated = {}
  Overlap = {}
  BlindErrors = TRUE
  MaxFaults = 1
  MaxIncarnations = 1
PROPERTIES
  Recovers
  CallsReturn
CHECK_DEADLOCK FALSE
