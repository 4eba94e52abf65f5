\* Direct jobs of every kind; two entries, two flushing processes, two workers.
SPECIFICATION Spec
CONSTANTS
  Workers = {w1, w2}
  None = None
  SingleGsm = 5
  SingleUcs = 3
  MaxFaults = 2
  Entries = {e1, e2}
  Wallets = {x1}
  Processes = {p1, p2}
  Scenes <- BufferScenes
  MaxJobs = 2
  Attempts = 2
  MaxStalled = 1
  Direct <- DirectJobs
  DigestText = 3
  MaxHours = 1
INVARIANT DispatchLawful
INVARIANT SmsFits
INVARIANT DigestRepeatExplained
PROPERTY DigestSettles
CHECK_DEADLOCK FALSE
