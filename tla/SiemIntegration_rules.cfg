\* Two calls of any kind over one deployment, on each kind of platform.
SPECIFICATION Spec
CONSTANTS
  Platforms <- SomePlatforms
  Hosts = {h1, h2}
  Names <- TwoNames
  Calls = {c1, c2}
  None = None
  MaxPushes = 3
  MaxPolls = 2
  MaxJobs = 1
  Window = 1
INVARIANTS DeployedIsRunning NothingForgotten NeverOvercounts
PROPERTY CallsEnd
SYMMETRY Symmetry
CHECK_DEADLOCK FALSE
