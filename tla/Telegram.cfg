\* A notification run twice, possibly at once, among users and owners who act.
SPECIFICATION MCSpec
CONSTANTS
  p1 = p1
  p2 = p2
  c1 = c1
  n1 = n1
  x1 = x1
  x2 = x2
  Protocols = {p1, p2}
  Chats = {c1}
  Groups = {g1}
  Categories = {"defi", "security"}
  Mutable = {"defi"}
  Notifs = {n1}
  ProtocolOf <- Protocol
  ChatOf <- Chat
  CategoryOf <- Category
  Media = {}
  Templated = {n1}
  BodyLength <- Body
  FrameLength <- Frame
  Links <- Buttons
  MaxButtons = 10
  Runs = {r1, r2}
  Nonces = {x1, x2}
  NonceProtocol <- Of
  NonceBot <- For
  Configured = {p1}
  None = None
  MaxRuns = 2
  MaxEvents = 2
  MaxFaults = 1
SYMMETRY Symmetric
INVARIANT MuteHonoured
INVARIANT OutcomeTruthful
INVARIANT SendsExplained
CHECK_DEADLOCK FALSE
