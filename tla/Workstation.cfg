SPECIFICATION WorkSpec
CONSTANTS
  ta = ta
  tb = tb
  na = na
  nb = nb
  Places = {1, 2}
  HostNames = {1, 2}
  Terminals = {1, 2}
  Commands <- MCCommands
  LifeFaults = {"wait", "start"}
  NoPlace = NoPlace
  HostMachines = {"hm1", "hm2"}
  HostAddrs = {"addr1", "addr2"}
  UserHosts <- MCUserHosts
  Clis = {1, 2}
  HostOps = {"connect", "purge"}
  MaxHostKey = 4
  HostFaults = {"read"}
  NoAddr = NoAddr
  Remotes = {1, 2, 3, 4}
  HostOf <- MCHost
  TenantOf <- MCTenant
  SharedRemotes = {4}
  OldNames = {}
  Shells = {s1}
  ClientOps <- MCClientOps
  ClientFaults = {"enrol", "cut"}
  OldConfigs = {TRUE, FALSE}
  NoRemote = NoRemote
  Paths <- MCPaths
  Served <- MCServed
  PatternMatches <- MCPatterns
  CdArgs <- MCCdArgs
  PathArgs <- MCPathArgs
  BareNames = {"m1"}
  CacheLags = {{}}
  DownSets = {{}, {"r1"}}
  NoName = NoName
  ResTenants = {ta, tb}
  ResNames = {na, nb}
  ResNameOf <- MCNameOf
  LegacySuffixes = {ta}
  ResShells = {1, 2}
  ResOps = {"login", "teardown", "uninstall", "trust", "untrust"}
  MaxGen = 1
  MaxReboots = 1
  ResFaults = {"sudo", "polkit", "systemctl", "signer", "update", "cut"}
  NoRow = NoRow
  MaxRelease = 2
  Updaters = {u1}
  PayloadFiles = {f1, f2}
  MaxUpFaults = 2
  AdminRuns = TRUE
  Runs = {1, 2, 3}
  MaxTime = 4
  CheckInterval = 2
  MaxTag = 3
  CheckFaults = {"check"}
  Deploys <- MCDeploys
  DeployTries = 3
  DeployFaults = {"call", "boot"}
  NoneYet = NoneYet
CHECK_DEADLOCK FALSE
INVARIANTS
  WorkTypeOK
  LifecycleHonest
  
  PathsMeanOneThing
  ReportsHold
  
  DeployedRuns
PROPERTIES
  
  UpdatesRecoverable
