\* Two handlers in flight, stops and limits, on a port that may fail.
SPECIFICATION FairSpec
CONSTANTS
  Req = {r1, r2}
  Poll = Poll
  Watch = Watch
  Token = {t1}
  MaxSeq = 1
  MaxPos <- Short
  Lo <- Zero
  Hi <- One
  Starts <- Anywhere
  Tolerance = 0
  Goals <- NoGoals
  MaxFaults = 1
  None = None
INVARIANTS
  TypeOK
  ActiveJogHasWatchdog
  NewestPacketLeads
PROPERTIES
  JogsEnd
