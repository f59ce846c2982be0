SPECIFICATION ProcessSpec
CONSTANTS
  Revisions <- AsBuilt
  Templates <- OneTemplate
  Plugins = {"zookeeper"}
  MaxRuns = 1
  Unread <- Random
  Missing = Missing
  StartFails = FALSE
  MaxInFlight = 1
PROPERTY GracefulExit
