\* Two browsers that come and go, outages, and a shutdown at any time.
SPECIFICATION FairSpec
CONSTANTS
  Tab = {b1, b2}
  QueueSize = 2
  MaxFrames = 3
  MaxOpens = 3
  MaxOutages = 1
INVARIANTS
  TypeOK
  OneLoop
  TabsHaveLoop
  CacheNeedsLink
  FramesInOrder
PROPERTIES
  UpstreamReleased
