\* The comment in _tick on dropping a controller, against the single flag.
SPECIFICATION Spec
CONSTANTS
  Token = {t1, t2}
  Ip = {ip1}
  NoOne = NoOne
  MaxSession = 3
  IdleTimeout = 3
  WsGrace = 1
  JoinCooldown = 0
  MaxQueueSize = 2
  MaxPerIp = 2
  MaxConns = 2
PROPERTIES
  DroppedOnlyWhenGone
