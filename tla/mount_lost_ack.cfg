\* One jog on a port that loses an acknowledgement.
SPECIFICATION Spec
CONSTANTS
  Req = {r1}
  Poll = Poll
  Watch = Watch
  Token = {t1}
  MaxSeq = 1
  MaxPos <- Wide
  Lo <- Zero
  Hi <- WideHi
  Starts <- Anywhere
  Tolerance = 0
  Goals <- NoGoals
  MaxFaults = 1
  None = None
INVARIANTS
  NoRunaway
