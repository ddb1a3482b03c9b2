\* Liveness and refinement of the control queue: three users, one address.
SPECIFICATION FairSpec
CONSTANTS
  Token = {t1, t2, t3}
  Ip = {ip1}
  NoOne = NoOne
  MaxSession = 1
  IdleTimeout = 0
  WsGrace = 0
  JoinCooldown = 0
  MaxQueueSize = 3
  MaxPerIp = 3
  MaxConns = 1
PROPERTIES
  ControlRotates
  WaiterServed
  ImplementsFifoLease
