\* Does the stream come back to a browser that stays?
SPECIFICATION KindSpec
CONSTANTS
  Tab = {b1}
  QueueSize = 1
  MaxFrames = 1
  MaxOpens = 2
  MaxOutages = 1
PROPERTIES
  StreamRecovers
