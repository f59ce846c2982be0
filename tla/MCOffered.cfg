SPECIFICATION Spec
CONSTANTS
  Revisions <- AsBuilt
  Templates <- OneTemplate
  Plugins = {"zookeeper"}
  MaxRuns = 1
  Unread <- Random
  Missing = Missing
INVARIANT OfferedIsServed
