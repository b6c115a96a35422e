SPECIFICATION ServerSpec
CONSTANTS
  RouteHosts = {rh1}
  Backends = {bm1}
  Addresses = {ra1, ra2}
  LocalPorts = {1}
  RouteRequests = {rq1}
  RoutePasses = {rp1}
  RouteFaults = {"state", "device", "caddy", "front"}
  NoDevice = NoDevice
  Clients = {c1, c2, c3}
  LockNames = {n1}
  Channels = {k1, k2, k3}
  NoChannel = NoChannel
  ZoneHosts = {zn1}
  ZoneDomains = {zd1}
  ZoneMachines = {zm1}
  ZoneAddrs = {za1}
  ZoneFaults = {"records", "stamp", "file", "refresh"}
  NoName = NoName
  FleetProjects = {fp1}
  MaxChanges = 2
  MaxBreaks = 1
  FleetFaults = {"seed", "refresh", "list", "write", "reload"}
  CacheToggle = {TRUE, FALSE}
  NoFleet = NoFleet
  MachineNames = {h1}
  DomainNames = {}
  OrderSlots = {1, 2}
  MaxOrders = 2
  MaxSerial = 2
  MaxBackoffStep = 0
  Directories = {d1}
  CertFaults = {"issue", "limited", "push", "ari"}
  NoCertRow = NoCertRow
INVARIANTS
  ServerSafe
  LockSound
PROPERTIES
  LockImplementsService
  RoutesFollowMachines
  
  FleetConverges
  CertificatesConverge
