SPECIFICATION AnoSpec
CONSTANTS
  ip1 = ip1
  ip2 = ip2
  Ips = {ip1, ip2}
  LastTick = 4
  FullWindow = 2
  ConcurrentWindow = 1
  Cooldown = 4
  MinUniqueIps = 2
CHECK_DEADLOCK FALSE
PROPERTY RoamingIsNotRevoked
