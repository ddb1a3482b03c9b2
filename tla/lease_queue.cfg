\* Safety of the control queue: three users, two addresses, one-unit limits.
SPECIFICATION Spec
CONSTANTS
  Token = {t1, t2, t3}
  Ip = {ip1, ip2}
  NoOne = NoOne
  MaxSession = 1
  IdleTimeout = 0
  WsGrace = 1
  JoinCooldown = 1
  MaxQueueSize = 3
  MaxPerIp = 2
  MaxConns = 2
SYMMETRY Symmetric
INVARIANTS
  TypeOK
  NoLeakedSession
  OnePlaceEach
  NoIdleLease
  FlagNeedsSocket
PROPERTIES
  FirstComeFirstServed
  LostForCause
