\* Broadcasts, campaigns to a list with a repetition and a changing identity,
\* two calls at a time.
SPECIFICATION Spec
CONSTANTS
  x1 = x1
  x2 = x2
  Wallets <- MCWallets
  Listed <- MCListed
  Addresses = {a1, a2}
  Topics = {"defi"}
  Calls = {c1, c2}
  Runs = {r1}
  None = None
  IdentityTtl = 2
  MissTtl = 1
  Scenes = {"broadcast", "campaign", "identity"}
  MaxEvents = 2
  MaxFaults = 1
  MaxClock = 3
INVARIANT BroadcastReachesAudience
INVARIANT CampaignOnce
INVARIANT StaleAddressBounded
CHECK_DEADLOCK FALSE
