\* Two gotos and the poll loop: is every motion followed to its target?
SPECIFICATION Spec
CONSTANTS
  Req = {r1, r2}
  Poll = Poll
  Watch = Watch
  Token = {}
  MaxSeq = 0
  MaxPos <- Two
  Lo <- Zero
  Hi <- Two
  Starts <- Anywhere
  Tolerance = 0
  Goals <- TwoAltitudes
  MaxFaults = 0
  None = None
SYMMETRY Symmetric
INVARIANTS
  NoRunaway
