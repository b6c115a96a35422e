SPECIFICATION HandlersSpec
CONSTANTS
  z = z
  a = a
  b = b
  p1 = p1
  p2 = p2
  m1 = m1
  m2 = m2
  h1 = h1
  h2 = h2
  Names <- MCNames
  Below <- MCBelow
  Projects = {p1, p2}
  Machines = {m1, m2}
  ProjectOf <- MCProjectOf
  Derived <- MCDerived
  InstallNames = {}
  NoDomain = NoDomain
  Undeletable = {p1}
  Handlers = {h1, h2}
  Requests = {"set", "zone", "project"}
  Faults = {"fail"}
  DomainNames = {a, b}
  HostNames = {}
  RouteNames = {}
  TunnelNames = {}
  ZoneNames = {z}
  Wilds = {FALSE}
INVARIANTS
  NoOverlap
