----------------------------- MODULE Deployment ------------------------------
(***************************************************************************)
(* How an install gets onto an Incus host: `sc-adm install`, `auth-app     *)
(* deploy` and `bootstrap` (internal/cli/admin_install.go,                 *)
(* authapp_deploy.go, admin.go) with BootstrapAuthApp, BootstrapV2 and     *)
(* EnsureApplianceBridge (internal/incusx) and the Cloudflare tunnel setup *)
(* of internal/cli/cloudflare_tunnel.go.  A command is a list of calls     *)
(* made one after the other; the first that fails ends it and nothing is   *)
(* undone.  The appliance keeps what earlier commands left in it.  The     *)
(* commands here name the same appliances (--project, --instance).         *)
(***************************************************************************)
EXTENDS Naturals, Sequences, FiniteSets

CONSTANTS
  Deploys,       \* the command lines: [cmd, ver, mode, route, port]
  DeployTries,   \* bound on the commands run
  DeployFaults,  \* which calls may fail: "call"; "boot": the host reboots
  NoneYet

VARIABLES
  hostObjects,   \* the Incus projects and the bridge that exist
  ports,         \* the host ports each appliance's devices bind
  applianceDisk,          \* the files of the appliances: which command line wrote each
  unitRuns,      \* each unit: the files it was started with, or NoneYet
  enabled,       \* the units that start at boot
  stamped,       \* the version stamped on each appliance
  cloudTunnel,   \* what exists of the Auth Hostname's tunnel at Cloudflare
  deployJob,     \* the command under way: its request and the calls left
  reported,      \* what the last command of each kind reported done
  deployTries

deployVars == <<hostObjects, ports, applianceDisk, unitRuns, enabled, stamped, cloudTunnel, deployJob, reported, deployTries>>

Appliances == {"auth", "broker"}
Units == {"auth-app", "caddy", "cloudflared", "broker"}
\* The files a unit reads when it starts.
FilesOf(u) == CASE u = "auth-app" -> {"binary", "env"}
                [] u = "caddy" -> {"caddyfile"}
                [] u = "cloudflared" -> {"token"}
                [] u = "broker" -> {"broker binary", "broker cert", "broker env"}
HomeOf(u) == IF u = "broker" THEN "broker" ELSE "auth"
FileNames == UNION {FilesOf(u) : u \in Units}

DeployInit ==
  /\ hostObjects = {} /\ cloudTunnel = {}
  /\ ports = [a \in Appliances |-> NoneYet]
  /\ applianceDisk = [f \in FileNames |-> NoneYet]
  /\ unitRuns = [u \in Units |-> NoneYet] /\ enabled = {}
  /\ stamped = [a \in Appliances |-> NoneYet]
  /\ deployJob = NoneYet /\ reported = [a \in Appliances |-> NoneYet]
  /\ deployTries = 0

-----------------------------------------------------------------------------
(* What a command line asks for                                            *)

NeedsCaddy(d) == d.mode \in {"acme", "cloudflare"} \/ d.route \in {"acme", "acme-proxied"}
\* authAppDevices: the host's :80 and :443.
WebPorts(d) == IF d.mode = "acme" \/ d.route = "acme" THEN {80, 443} ELSE {}
UnitsOf(d) == {"auth-app"} \cup (IF NeedsCaddy(d) THEN {"caddy"} ELSE {})
                           \cup (IF d.mode = "cloudflare" THEN {"cloudflared"} ELSE {})
DeploysBroker(d) == d.cmd = "bootstrap" \/ (d.cmd = "install" /\ d.mode # "cloudflare")
DeploysAuth(d) == d.cmd # "bootstrap"

Call(what, arg) == [do |-> what, on |-> arg]
When(cond, calls) == IF cond THEN calls ELSE <<>>

\* BootstrapAuthApp: files are written in order, then the units are started
\* in order, the Auth App's first.
AuthCalls(d) ==
  <<Call("project", "infra"), Call("instance", "auth"), Call("write", "binary"), Call("write", "env")>>
  \o When(NeedsCaddy(d), <<Call("write", "caddyfile")>>)
  \o When(d.mode = "cloudflare", <<Call("write", "token")>>)
  \o <<Call("stamp", "auth"), Call("start", "auth-app")>>
  \o When(NeedsCaddy(d), <<Call("start", "caddy")>>)
  \o When(d.mode = "cloudflare", <<Call("start", "cloudflared")>>)

\* BootstrapV2.
BrokerCalls(d) ==
  <<Call("project", "broker"), Call("instance", "broker"), Call("write", "broker binary"),
    Call("write", "broker cert"), Call("write", "broker env"), Call("stamp", "broker"), Call("start", "broker")>>

\* ensureCloudflareTunnelService.
TunnelCalls == <<Call("cloud", "tunnel"), Call("cloud", "ingress"), Call("cloud", "dns")>>

CallsOf(d) ==
  When(d.cmd = "install" /\ d.mode = "cloudflare", TunnelCalls)
  \o When(d.cmd = "install", <<Call("bridge", "bridge")>>)
  \o When(DeploysAuth(d), AuthCalls(d)) \o When(DeploysBroker(d), BrokerCalls(d))

-----------------------------------------------------------------------------
(* Commands                                                                *)

\* detectExistingInstall: the broker's project, any project under the prefix
\* or the Auth App's instance refuses an install; a redeploy is not looked at.
Preflight(d) == d.cmd = "install" => hostObjects \cap {"infra", "broker"} = {} /\ ports["auth"] = NoneYet

DeployBegins(d) ==
  /\ deployJob = NoneYet /\ deployTries < DeployTries
  /\ Preflight(d)
  /\ deployTries' = deployTries + 1
  /\ deployJob' = [req |-> d, calls |-> CallsOf(d)]
  /\ reported' = [a \in Appliances |-> IF (a = "auth" /\ DeploysAuth(d)) \/ (a = "broker" /\ DeploysBroker(d))
                                       THEN NoneYet ELSE reported[a]]
  /\ UNCHANGED <<hostObjects, ports, applianceDisk, unitRuns, enabled, stamped, cloudTunnel>>

DoesNow(what) == deployJob # NoneYet /\ deployJob.calls # <<>> /\ Head(deployJob.calls).do = what
Subject == Head(deployJob.calls).on
DeployGoesOn == deployJob' = [deployJob EXCEPT !.calls = Tail(@)] /\ UNCHANGED <<reported, deployTries>>

\* EnsureApplianceBridge, ensureAuthAppProject, ensureBrokerProject: created
\* unless it is there.
EnsureObject ==
  /\ DoesNow("project") \/ DoesNow("bridge")
  /\ hostObjects' = hostObjects \cup {Subject}
  /\ DeployGoesOn
  /\ UNCHANGED <<ports, applianceDisk, unitRuns, enabled, stamped, cloudTunnel>>

\* ensureAuthAppInstance: created with the devices the request wants, or
\* reconcileAuthAppIngressDevices on the one that is there, its disk kept.
EnsureAuthInstance ==
  /\ DoesNow("instance") /\ Subject = "auth"
  /\ ports' = [ports EXCEPT !["auth"] = WebPorts(deployJob.req)]
  /\ DeployGoesOn
  /\ UNCHANGED <<hostObjects, applianceDisk, unitRuns, enabled, stamped, cloudTunnel>>

\* ensureBrokerInstance leaves one that is there as it is.
EnsureBrokerInstance ==
  /\ DoesNow("instance") /\ Subject = "broker"
  /\ ports' = [ports EXCEPT !["broker"] = IF @ = NoneYet THEN {deployJob.req.port} ELSE @]
  /\ DeployGoesOn
  /\ UNCHANGED <<hostObjects, applianceDisk, unitRuns, enabled, stamped, cloudTunnel>>

\* writeApplianceFile and writeBrokerFile: pushed beside the file and renamed
\* over it, so a running unit keeps what it has.
WriteApplianceFile ==
  /\ DoesNow("write")
  /\ applianceDisk' = [applianceDisk EXCEPT ![Subject] = deployJob.req]
  /\ DeployGoesOn
  /\ UNCHANGED <<hostObjects, ports, unitRuns, enabled, stamped, cloudTunnel>>

\* stampBinaryVersion, before anything runs the binary.
StampVersion ==
  /\ DoesNow("stamp")
  /\ stamped' = [stamped EXCEPT ![Subject] = deployJob.req.ver]
  /\ DeployGoesOn
  /\ UNCHANGED <<hostObjects, ports, applianceDisk, unitRuns, enabled, cloudTunnel>>

StartedWith(u) == [f \in FilesOf(u) |-> applianceDisk[f]]
\* Mutant: enable --now, which leaves a unit that runs alone.
StartUnitOnce ==
  /\ DoesNow("start")
  /\ enabled' = enabled \cup {Subject}
  /\ unitRuns' = [unitRuns EXCEPT ![Subject] = IF @ = NoneYet THEN StartedWith(Subject) ELSE @]
  /\ DeployGoesOn
  /\ UNCHANGED <<hostObjects, ports, applianceDisk, stamped, cloudTunnel>>

\* applianceStartScript: enable, restart, wait until it is active.
StartUnit ==
  /\ DoesNow("start")
  /\ enabled' = enabled \cup {Subject}
  /\ unitRuns' = [unitRuns EXCEPT ![Subject] = StartedWith(Subject)]
  /\ DeployGoesOn
  /\ UNCHANGED <<hostObjects, ports, applianceDisk, stamped, cloudTunnel>>

\* ensureTunnel, setTunnelIngressService, ensureDNSRecord.
SetUpTunnel ==
  /\ DoesNow("cloud")
  /\ cloudTunnel' = cloudTunnel \cup {Subject}
  /\ DeployGoesOn
  /\ UNCHANGED <<hostObjects, ports, applianceDisk, unitRuns, enabled, stamped>>

\* A call fails.  An image that does not boot or a unit that does not become
\* active has been created, or started, all the same.
DeployFails ==
  /\ "call" \in DeployFaults /\ deployJob # NoneYet /\ deployJob.calls # <<>>
  /\ \/ ~DoesNow("start") /\ UNCHANGED <<unitRuns, enabled>>
     \/ /\ DoesNow("start") /\ enabled' = enabled \cup {Subject}
        /\ unitRuns' = [unitRuns EXCEPT ![Subject] = NoneYet]
  /\ \/ UNCHANGED ports
     \/ DoesNow("instance") /\ ports[Subject] = NoneYet
        /\ ports' = [ports EXCEPT ![Subject] = IF Subject = "auth" THEN WebPorts(deployJob.req) ELSE {deployJob.req.port}]
  /\ deployJob' = NoneYet
  /\ UNCHANGED <<hostObjects, applianceDisk, stamped, cloudTunnel, reported, deployTries>>

DeployDone ==
  /\ deployJob # NoneYet /\ deployJob.calls = <<>>
  /\ reported' = [a \in Appliances |-> IF (a = "auth" /\ DeploysAuth(deployJob.req)) \/ (a = "broker" /\ DeploysBroker(deployJob.req))
                                       THEN deployJob.req ELSE reported[a]]
  /\ deployJob' = NoneYet
  /\ UNCHANGED <<hostObjects, ports, applianceDisk, unitRuns, enabled, stamped, cloudTunnel, deployTries>>

\* The host reboots: the enabled units come up with the files of that moment.
\* A command under way fails at its next call.
HostReboots ==
  /\ "boot" \in DeployFaults
  /\ unitRuns' = [u \in Units |-> IF u \in enabled THEN StartedWith(u) ELSE NoneYet]
  /\ unitRuns' # unitRuns
  /\ deployJob' = NoneYet
  /\ UNCHANGED <<hostObjects, ports, applianceDisk, enabled, stamped, cloudTunnel, reported, deployTries>>

DeployNext ==
  \/ \E d \in Deploys : DeployBegins(d)
  \/ EnsureObject \/ EnsureAuthInstance \/ EnsureBrokerInstance \/ WriteApplianceFile
  \/ StampVersion \/ StartUnit \/ SetUpTunnel \/ DeployFails \/ DeployDone \/ HostReboots

DeploySpec == DeployInit /\ [][DeployNext]_deployVars

-----------------------------------------------------------------------------
(* Properties                                                              *)

\* Ports, files, units and versions stay in their domain.
DeployTypeOK ==
  /\ hostObjects \subseteq {"infra", "broker", "bridge"} /\ enabled \subseteq Units
  /\ applianceDisk \in [FileNames -> Deploys \cup {NoneYet}]
  /\ reported \in [Appliances -> Deploys \cup {NoneYet}]
  /\ cloudTunnel \subseteq {"tunnel", "ingress", "dns"}

AllFrom(u, d) == unitRuns[u] = [f \in FilesOf(u) |-> d]

\* A command that reports "done" means it: whatever earlier commands left half
\* done, its units run, every one from the files of this command line, the
\* Auth App binds the ports it asked for, and the stamped version is the one
\* that runs, also after a reboot.
DeployedRuns ==
  /\ reported["auth"] # NoneYet =>
       /\ \A u \in UnitsOf(reported["auth"]) : AllFrom(u, reported["auth"])
       /\ ports["auth"] = WebPorts(reported["auth"])
       /\ stamped["auth"] = reported["auth"].ver
       /\ reported["auth"].cmd = "install" /\ reported["auth"].mode = "cloudflare" => cloudTunnel = {"tunnel", "ingress", "dns"}
  /\ reported["broker"] # NoneYet =>
       AllFrom("broker", reported["broker"]) /\ stamped["broker"] = reported["broker"].ver

\* BootstrapV2 logs "done - broker on :<port>".
BrokerOnReportedPort ==
  reported["broker"] # NoneYet => ports["broker"] = {reported["broker"].port}

\* auth-app deploy, of --ingress: "redeploy preserves the login front".  A
\* redeploy that names no ingress leaves the ports of the front bound.
LoginFrontPreserved ==
  [][deployJob # NoneYet /\ deployJob.req.cmd = "deploy" /\ deployJob.req.mode = ""
       => (ports["auth"] # NoneYet => ports["auth"] \subseteq ports'["auth"])]_deployVars
=============================================================================
