SPECIFICATION HandlersSpec
CONSTANTS
  z = z
  a = a
  b = b
  p1 = p1
  p2 = p2
  m1 = m1
  m2 = m2
  h1 = h1
  h2 = h2
  Names <- MCNames
  Below <- MCBelow
  Projects = {p1, p2}
  Machines = {m1, m2}
  ProjectOf <- MCProjectOf
  Derived <- MCDerived
  InstallNames = {}
  NoDomain = NoDomain
  Undeletable = {p1, p2}
  Handlers = {h1, h2}
  Requests = {"host", "unhost", "route", "unroute", "tunnel", "untunnel", "zone", "unzone", "machine", "set"}
  Faults = {"fail"}
  DomainNames = {a}
  HostNames = {a}
  RouteNames = {b}
  TunnelNames = {a}
  ZoneNames = {z}
  Wilds = {FALSE}
PROPERTIES
  TunnelsReleasedByOwner
  ImplementsRegistry
SYMMETRY HandlerSymmetry
