\* What the parts that talk over a network bring about in the end.
SPECIFICATION NetworkSpec
CONSTANTS
  Sock = {s1, s2}
  Backoffs = 2
  Layout = {raw, base}
  MaxAnswers = 2
  MaxStrays = 1
  Sites <- SomeSites
  Cooldown = 1
  Button = {b1}
  MaxPresses = 2
  MaxSeq = 3
  Steps = 2
  Spots <- OneSpot
  MaxAsked = 1
  MaxSeen = 2
  MaxLeft = 1
  MaxArmed = 2
  Survey = {"infrared"}
  View = {"wide", "close"}
  Spot = {"p1"}
  Satellite = {"s1", "s2"}
  InView <- SomeInView
  MaxArchive = 1
  MaxPoints = 1
  EffectLoop = {"doppler", "hero"}
\* As in web_app.cfg.
CHECK_DEADLOCK FALSE
PROPERTIES
  StreamReturns
  StalledReceiverReopened
  ControlsFollowLease
  SlewEnds
  StoppedDownlinkReopened
