SPECIFICATION TenantsSpec
CONSTANTS
  Members = {1, 2}
  AppProjects = {p1, p2}
  FirstProjects = {p1}
  OwnKeys = {ok1, ok2}
  MemberRequests = {1, 2}
  MemberOps <- MCMemberOps
  MemberFaults = {"call"}
  NoOp = NoOp
  Users = {a, u}
  Admins = {a}
  OAuthStates = {1, 2}
  Callbacks = {cb1, cb2}
  KeyTenants = {t1}
  AccountFaults = {"call"}
  NoAccount = NoAccount
  ShareTenants = {1, 2, 3}
  ShareNames = {n}
  ShareRequests = {1, 2}
  ShareOwners = {1}
  ShareFaults = {"write", "device", "source"}
  TokenRequests = {r1, r2}
  TokenMachines = {tm1}
  FreshKeys = {1, 2, 3, 4}
  MaxEnables = 2
  CloudConfigs = {cc}
  NoKey = NoKey
  TunnelHosts = {h1}
  TunnelMachines = {m1, m2}
  TunnelRuns = {1, 2}
  TunnelOps = {"publish", "unpublish", "tailnet", "untailnet"}
  MaxTunnels = 2
  TunnelFaults = {"machine", "drain"}
  NoMachine = NoMachine
  Devices = {1, 2, 3}
  Projs = {p0, p1}
  HomeProj = p0
  DefaultNamed = {TRUE}
  Foreign = foreign
  Prefixed = FALSE
  AccessRequests = {q1}
  AccessOps = {"create", "broker", "login", "delete", "rm", "remove"}
  AccessFaults = {"scaffold", "grant", "delete"}
  NoDevice = NoDevice
  Builds = {b1}
  UnixUsers = {u1, u2}
  LoginKeys = {lk1}
  ExtraKeys = {x1}
  TenantUser = u1
  BuildMachines = {bm1}
  OldTenants = {TRUE, FALSE}
  AuthKeys = {TRUE, FALSE}
  MaxURL = 2
  MaxStops = 1
  BuildOps = {"egress", "addkey", "machine"}
  BuildFaults = {"stop"}
  Blank = Blank
  Missing = Missing
CHECK_DEADLOCK FALSE
INVARIANTS
  TenantsSafe
  FirstUsersConverge
PROPERTIES
  
  
  
  
  BuildsConverge
