SPECIFICATION Spec
CONSTANTS
  Handles = {h1, h2}
  Labelled = {h1}
  Workers = {w1, w2}
  NoHandle = NoHandle
  StartPort = 62000
  EndPort = 62002
  AutoPorts <- TwoForDocker
  FixedPorts <- NoFixed
  Docker = {h1}
  Annotated = {h1}
  Overlap = {"Create", "Destroy"}
  BlindErrors = TRUE
  MaxFaults = 2
  MaxIncarnations = 1
INVARIANT NoStaleProperties
PROPERTIES
  GoneUnlessUnseen
  OnlyEarlyFailuresStrand
SYMMETRY Symmetry
CHECK_DEADLOCK FALSE
