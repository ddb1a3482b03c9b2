\* Safety of every part of the web application.
SPECIFICATION WebSpec
CONSTANTS
  Sock = {s1, s2}
  Backoffs = 2
  Layout = {raw, base}
  MaxAnswers = 2
  MaxStrays = 1
  Sites <- SomeSites
  Cooldown = 1
  Button = {b1}
  MaxPresses = 2
  MaxSeq = 3
  Steps = 2
  Spots <- SomeSpots
  MaxAsked = 2
  MaxSeen = 2
  MaxLeft = 1
  MaxArmed = 2
  Survey = {"infrared"}
  View = {"wide", "close"}
  Spot = {"p1"}
  Satellite = {"s1", "s2"}
  InView <- SomeInView
  MaxArchive = 1
  MaxPoints = 1
  EffectLoop = {"doppler", "hero"}
\* A socket that is not wanted any more, or a page that is left, may rest for ever.
CHECK_DEADLOCK FALSE
INVARIANTS
  WebTypeOK
  OneConnectionLoop
  NoFrameWithoutStream
  WaterfallOfOneStream
  AutoJoinsAreFresh
  ReleasedPressStops
  BoundedBacklog
  WatchedSlewIsPinned
  CloseTellsTheTruth
  LayerFollowsSurvey
  GateSkipsNothing
  LoopsRunOnce
PROPERTIES
  DragPicksNoSky
  OnlyLeaseStrandsGuides
