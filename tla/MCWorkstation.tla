---------------------------- MODULE MCWorkstation ----------------------------
(***************************************************************************)
(* What sc and sc-adm do on a workstation or a host, each component on a   *)
(* small instance: machines and their public hostnames, host keys, the     *)
(* client's configuration, Sandcastle paths, the local resolver and trust  *)
(* store, self update and its notices, and the deployment of an install.   *)
(* They share no state, so a behaviour is a behaviour of one of them:      *)
(* part, chosen at the start, says of which one, and on which instance.    *)
(***************************************************************************)
EXTENDS MachineLifecycle, KnownHosts, ClientConfig, SandcastlePaths, LocalResolver,
        SelfUpdate, UpdateNotices, Deployment

CONSTANTS ta, tb, na, nb   \* two tenants and their names
VARIABLE part

LifeParts == {"creating", "acting"}
HostParts == {"userlines", "addresses"}
ClientParts == {"remotes", "cuts", "logins"}
ResParts == {"resolver", "resolvers"}
WorkParts == LifeParts \cup HostParts \cup ClientParts \cup ResParts \cup
             {"paths", "update", "notices", "deploy"}

WorkVars == <<part, lifeVars, hostVars, clientVars, pathVars, resVars, updVars, noticeVars, deployVars>>

-----------------------------------------------------------------------------
(* Constants                                                               *)

LifeCommand(o, p, n) == [op |-> o, places |-> p, names |-> n]
MCCommands ==
  {LifeCommand("create", {1}, <<1, 2>>), LifeCommand("create", {2}, <<2>>), LifeCommand("bare", {2}, <<>>),
   LifeCommand("connect", {2}, <<>>), LifeCommand("stop", {2}, <<>>), LifeCommand("deleteAll", {2}, <<>>)}

MCUserHosts == {{"friend", "hm1"}}

MCHost == [r \in Remotes |-> IF r = 3 THEN "hostB" ELSE "hostA"]
MCTenant == [r \in Remotes |-> CASE r = 2 -> "t2" [] r = 4 -> "t3" [] OTHER -> "t1"]
MCClientOps ==
  ({"force", "set", "login"} \X (Remotes \ SharedRemotes)) \cup ({"switch", "tenant"} \X Remotes)

MCPaths ==
  LET full == {<<"r1", "t1", "p1", "m1">>, <<"r1", "t1", "p1", "p2">>, <<"r1", "t1", "p2", "m1">>,
               <<"r1", "t2", "p1", "m1">>, <<"r2", "t2", "p1", "m1">>, <<"r3", "t1", "p2", "m1">>}
  IN  {SubSeq(p, 1, k) : p \in full, k \in 1..4}
MCServed == [r \in {"r1", "r2", "r3"} |-> CASE r = "r1" -> "t1" [] r = "r2" -> "t2" [] r = "r3" -> NoName]
MCPatterns == [s \in {"*"} |-> {"r1", "r2", "r3", "t1", "t2", "p1", "p2", "m1"}]
PathArg(b, s) == [base |-> b, segs |-> s]
MCCdArgs ==
  {PathArg("prev", <<>>), PathArg("home", <<>>), PathArg("rel", <<"..">>), PathArg("rel", <<"..", "p2">>),
   PathArg("abs", <<>>), PathArg("abs", <<"r2">>), PathArg("abs", <<"r1", "t2">>),
   PathArg("abs", <<"r1", "t1", "p1">>)}
MCPathArgs ==
  {PathArg("rel", <<"..", "**", "m1">>), PathArg("rel", <<"..", ".", "*">>), PathArg("home", <<"..", "*", "m1">>)}
  \cup {PathArg("abs", s) : s \in
          [1..2 -> {"r1", "t1", "p2", "m1", "*", "**"}] \cup [1..3 -> {"r1", "t1", "m1", "*", "**"}]
          \cup [1..4 -> {"m1", "*", "**"}] \cup ({"r1", "*"} \X {"t1", "*"} \X {"p2"} \X {"m1", "*"})}

MCNameOf == [t \in ResTenants |-> IF t = ta THEN na ELSE nb]

DeployCommand(c, v, m, r, p) == [cmd |-> c, ver |-> v, mode |-> m, route |-> r, port |-> p]
MCDeploys ==
  {DeployCommand("install", 1, "acme", "", 9443), DeployCommand("install", 1, "cloudflare", "acme-proxied", 9443),
   DeployCommand("deploy", 2, "", "", 9443), DeployCommand("deploy", 1, "cloudflare", "acme", 9443),
   DeployCommand("bootstrap", 2, "", "", 9444)}

-----------------------------------------------------------------------------
(* The parts                                                               *)

WorkInit ==
  /\ part \in WorkParts
  /\ LifeInit /\ HostsInit /\ ClientInit /\ PathsInit /\ ResInit /\ UpdateInit /\ NoticesInit /\ DeployInit
  /\ cfgFile # EmptyConfig <=> part \in {"remotes", "cuts"}
  /\ part # "paths" => global.remote = "r1" /\ global.project = "p1"

OnLife(A) == part \in LifeParts /\ A /\ UNCHANGED <<part, hostVars, clientVars, pathVars, resVars, updVars, noticeVars, deployVars>>
OnHosts(A) == part \in HostParts /\ A /\ UNCHANGED <<part, lifeVars, clientVars, pathVars, resVars, updVars, noticeVars, deployVars>>
OnClient(A) == part \in ClientParts /\ A /\ UNCHANGED <<part, lifeVars, hostVars, pathVars, resVars, updVars, noticeVars, deployVars>>
OnPaths(A) == part = "paths" /\ A /\ UNCHANGED <<part, lifeVars, hostVars, clientVars, resVars, updVars, noticeVars, deployVars>>
OnResolver(A) == part \in ResParts /\ A /\ UNCHANGED <<part, lifeVars, hostVars, clientVars, pathVars, updVars, noticeVars, deployVars>>
OnUpdate(A) == part = "update" /\ A /\ UNCHANGED <<part, lifeVars, hostVars, clientVars, pathVars, resVars, noticeVars, deployVars>>
OnNotices(A) == part = "notices" /\ A /\ UNCHANGED <<part, lifeVars, hostVars, clientVars, pathVars, resVars, updVars, deployVars>>
OnDeploy(A) == part = "deploy" /\ A /\ UNCHANGED <<part, lifeVars, hostVars, clientVars, pathVars, resVars, updVars, noticeVars>>

\* Two terminals that create machines with names; and two that connect to, stop
\* and delete one.
LifeStep ==
  /\ LifeNext
  /\ part = "creating" => \A t \in Terminals : term'[t].cmd.op \in {NoCommand.op, "create", "bare"}
  /\ part = "acting" => \A t \in Terminals : term'[t].cmd.op # "create"

\* The user's lines are written while no sc command holds the lock, a machine
\* one connects to keeps its address, and a purge finds booted machines only.
\* Two commands on one machine; and one on two machines that swap addresses.
HostsStep ==
  LET purging == \E c \in Clis : cli'[c].op = "purge"
      connecting(m) == \E c \in Clis : cli[c].op = "connect" /\ cli[c].name = m
  IN  /\ HostsNext
      /\ purging => \A m \in HostMachines : hm[m].ready = hm'[m].ready /\ (Live(m)' => hm'[m].ready)
      /\ lines' # lines /\ cli' = cli => hostLock = NoAddr
      /\ \A m \in HostMachines : connecting(m) => hm'[m].addr = hm[m].addr
      /\ part = "userlines" => ~Live("hm2")' /\ hm'["hm1"].addr \in {NoAddr, "addr1"}
      /\ part = "addresses" => ~SshAppends /\ cli'[2] = NoCli

\* Forced logins whose Incus calls may fail, on every remote of an older
\* configuration; the same on two installs, with commands interrupted anywhere
\* but between setting a remote aside and adding it again; and logins of a new
\* client that succeed and may reuse an earlier one.
Reused(s) == \E r \in Remotes : TryExistingLogin(s, r) /\ \A x \in Remotes : ~ConfigSetRemote(s, x)
Cut(s) ==
  Interrupted(s) /\ ~RestoreBackup(s) /\ ~TenantSwitchJoinFails(s) /\ ~RecordInstall(s) /\ ~TenantSwitchOwn(s)
ClientStep ==
  /\ ClientNext
  /\ \A s \in Shells :
       /\ part = "remotes" => ~Reused(s) /\ ~Cut(s)
       /\ part = "cuts" => ~Reused(s) /\ (Cut(s) => ~ShellAt(s, "add"))
       /\ part = "logins" => ~Cut(s) /\ ~TenantSwitchJoinFails(s) /\ ~RestoreBackup(s)
       /\ part # "remotes" /\ shell'[s] # NoRemote => shell'[s].r \in {1, 3}

\* Commands are given in the home position and at the root or in a tenant one
\* cd away from it.
PathsStep ==
  /\ PathsNext
  /\ asked' # NothingAsked /\ here # NoName => here.prev = HomePosition /\ here.level \in {0, 2}

\* One tenant, with every command and failure; and two tenants, each in a shell
\* of its own, logins of the second over logins and teardowns of the first.
ResolverStep ==
  /\ ResNext
  /\ part = "resolver" => /\ resShell'[2] = ResIdle /\ subnet'[tb] = subnet[tb]
                          /\ resShell'[1].tenant # tb
  /\ part = "resolvers" =>
       /\ ResApart' /\ subnet' = subnet /\ reboots' = reboots
       /\ resShell'[1].tenant # tb /\ resShell'[2].tenant # ta /\ resShell'[2].op # "teardown"
       /\ \A c \in ResShells :
            IF resShell'[c] # ResIdle
            THEN resShell'[c].as = "root" /\ resShell'[c].op \in {"login", "teardown"}
            ELSE resShell[c] # ResIdle =>
                   told' # told \/ (resShell[c].op = "teardown" /\ unit[resShell[c].suffix] = NoRow)

NoticesStep == NoticesNext /\ OneAtATime' /\ CheckInTime'

WorkNext ==
  \/ OnLife(LifeStep) \/ OnHosts(HostsStep) \/ OnClient(ClientStep) \/ OnPaths(PathsStep)
  \/ OnResolver(ResolverStep) \/ OnUpdate(UpdateNext) \/ OnNotices(NoticesStep) \/ OnDeploy(DeployNext)

WorkSpec == WorkInit /\ [][WorkNext]_WorkVars

\* Every variable of the component that runs stays in its domain.
WorkTypeOK ==
  CASE part \in LifeParts -> LifeTypeOK
    [] part \in HostParts -> HostsTypeOK
    [] part \in ClientParts -> ClientTypeOK
    [] part \in ResParts -> ResTypeOK
    [] part = "paths" -> PathsTypeOK
    [] part = "update" -> UpdateTypeOK
    [] part = "notices" -> NoticesTypeOK
    [] part = "deploy" -> DeployTypeOK
=============================================================================
