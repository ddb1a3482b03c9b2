\* One goto and the poll loop: does the axis stop?
SPECIFICATION FairSpec
CONSTANTS
  Req = {r1}
  Poll = Poll
  Watch = Watch
  Token = {}
  MaxSeq = 0
  MaxPos <- Four
  Lo <- Zero
  Hi <- Two
  Starts <- Anywhere
  Tolerance = 1
  Goals <- UpperLimits
  MaxFaults = 0
  None = None
PROPERTIES
  MotionEnds
