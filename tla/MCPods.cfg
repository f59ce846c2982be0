SPECIFICATION FairSpec
CONSTANTS
  c1 = c1
  c2 = c2
  Containers = {c1, c2}
  Plugin = {"processing", "failed", "success", "error"}
PROPERTIES NoSuccessWithoutPods StuckIsReported
