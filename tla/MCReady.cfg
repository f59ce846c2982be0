SPECIFICATION Spec
CONSTANTS
  c1 = c1
  c2 = c2
  Containers = {c1, c2}
  Plugin = {"success"}
SYMMETRY Symmetry
PROPERTY SuccessMeansReady
