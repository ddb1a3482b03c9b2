\* Jogs, and gotos that are sent one after the other.
SPECIFICATION InTurnSpec
CONSTANTS
  Req = {r1, r2}
  Poll = Poll
  Watch = Watch
  Token = {t1}
  MaxSeq = 1
  MaxPos <- One
  Lo <- Zero
  Hi <- One
  Starts <- Anywhere
  Tolerance = 0
  Goals <- TwoAltitudes
  MaxFaults = 0
  None = None
SYMMETRY Symmetric
INVARIANTS
  NoRunaway
