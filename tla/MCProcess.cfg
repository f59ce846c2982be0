SPECIFICATION FairProcessSpec
CONSTANTS
  Revisions <- Edited
  Templates <- TwoTemplates
  Plugins = {"zookeeper"}
  MaxRuns = 2
  Unread <- Outages
  Missing = Missing
  StartFails = TRUE
  MaxInFlight = 2
INVARIANTS PlansFound StaleNeverMisserved ServesLoaded
PROPERTY SignalStops
