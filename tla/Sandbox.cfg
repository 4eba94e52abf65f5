SPECIFICATION SandboxSpec
CONSTANTS
  Requests = {r1, r2}
  Keys = {k1}
  None = None
  Limit = 1
  MaxEvents = 1
  MaxFaults = 2
INVARIANT SandboxOvershootBounded
PROPERTY SandboxReopens
CHECK_DEADLOCK FALSE
