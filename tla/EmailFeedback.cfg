\* Two soft bounces through SQS and a delivery by Resend; a hard bounce by Resend
\* and a complaint by SES; a complaint and a mail.  With two workers, one soft
\* bounce and a delivery; a complaint.
SPECIFICATION MCSpec
CONSTANTS
  s1 = s1
  s2 = s2
  h = h
  c = c
  d = d
  m1 = m1
  m2 = m2
  w1 = w1
  w2 = w2
  Events = {s1, s2, h, c, d}
  KindOf <- Kind
  MessageOf <- Message
  ByResend = {h, d}
  Scenes <- Together
  Slots = {1, 2}
  Workers = {w1, w2}
  Handlers = {x1}
  NoEvent = NoEvent
  NoSlot = 0
  NoWorker = NoWorker
  Attempts = 2
  MaxStalled = 1
  SoftLimit = 2
  MaxFaults = 1
INVARIANT BouncesBounded
INVARIANT SuppressionJustified
PROPERTY ComplaintEnforced
CHECK_DEADLOCK FALSE
