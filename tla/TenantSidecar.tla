---------------------------- MODULE TenantSidecar ----------------------------
(***************************************************************************)
(* CreateTenantV2: building, or converging at every later login, what one  *)
(* Personal Tenant is made of.  The steps run in a fixed order and each    *)
(* leaves what it finds in place: bridge, infra project with the tenant's  *)
(* settings, app project, volumes, /.sc payload, profiles, sidecar and     *)
(* its services, and last the sidecar's place on the tailnet.              *)
(*                                                                         *)
(* A login plans from the settings it read, then takes its steps; a step   *)
(* may fail and end it.  Around it `sc tailscale egress` moves the egress  *)
(* toggle, an administrator adds a login key, machines are created, the    *)
(* sidecar stops, the user opens the tailnet login URL.                    *)
(***************************************************************************)
EXTENDS Naturals, Sequences

CONSTANTS
  Builds,         \* logins converging the tenant at the same time
  UnixUsers, LoginKeys, ExtraKeys,
  TenantUser,     \* the user a tenant without one gets: its own name
  BuildMachines,
  OldTenants,     \* subset of BOOLEAN: whether an older release built the tenant
  AuthKeys,       \* subset of BOOLEAN: whether a login carries a tailnet auth key
  MaxURL,         \* tailnet login URLs minted
  MaxStops,       \* times the sidecar stops
  BuildOps,       \* subset of {"egress", "addkey", "machine"}
  BuildFaults,    \* subset of {"stop", "list", "migrate"}
  Blank, Missing

VARIABLES
  settings,    \* on the infra project: user, first key, further keys, toggle
  made,        \* what is created once and left alone
  bridge,      \* the egress option on the bridge
  nat,         \* the egress NAT on the sidecar
  profile,     \* the app project's default profile
  machineHome, \* the profiles of the project's machines
  sidecar,
  tailnet,     \* the sidecar's tailscale: on, the waiting unit's URL, the log's
  reach,       \* the Incus API is served on the tailnet
  shownURLs,
  converged,   \* the newest build ended well
  stops, builds

sidecarVars == <<settings, made, bridge, nat, profile, machineHome, sidecar, tailnet,
                 reach, shownURLs, converged, stops, builds>>

Once == {"app", "volumes", "payload", "homeshare", "sidecarProfile", "packages",
         "coredns", "signer"}

\* The order of CreateTenantV2's steps.
BuildSteps == <<"egress", "bridge", "infra", "app", "volumes", "payload", "homeshare",
                "migrate", "default", "sidecarProfile", "sidecar", "packages",
                "coredns", "nat", "signer", "tailscale", "start", "report">>

InSidecar == {"packages", "coredns", "nat", "signer", "tailscale", "start", "report"}
NoBuild == [step |-> 0]
Jobs == {NoBuild} \cup
  [step : 1 .. Len(BuildSteps), user : UnixUsers, own : LoginKeys \cup {Blank},
   extra : SUBSET ExtraKeys, named : BOOLEAN, egress : BOOLEAN, key : BOOLEAN]
NoURL == 0
Settings == [user : UnixUsers, own : LoginKeys \cup {Blank}, extra : SUBSET ExtraKeys,
             egress : BOOLEAN]
Profiles == [user : UnixUsers, own : LoginKeys \cup {Blank}, extra : SUBSET ExtraKeys,
             home : BOOLEAN]

ASSUME SidecarAssumption ==
  /\ TenantUser \in UnixUsers
  /\ OldTenants \subseteq BOOLEAN /\ AuthKeys \subseteq BOOLEAN
  /\ MaxURL \in Nat /\ MaxStops \in Nat
  /\ Blank \notin UnixUsers \cup LoginKeys
  /\ Missing \notin Settings \cup Profiles

SidecarTypeOK ==
  /\ settings \in Settings \cup {Missing}
  /\ made \subseteq Once
  /\ bridge \in {"none", "on", "off"} /\ nat \in {"on", "off"}
  /\ profile \in Profiles \cup {Missing}
  /\ machineHome \in [BuildMachines -> {"absent", "default", "homeshare"}]
  /\ sidecar \in {"none", "stopped", "running"}
  /\ tailnet \in [on : BOOLEAN, unit : 0 .. MaxURL, log : 0 .. MaxURL, minted : 0 .. MaxURL]
  /\ reach \in BOOLEAN
  /\ shownURLs \subseteq 1 .. MaxURL
  /\ converged \in BOOLEAN
  /\ stops \in 0 .. MaxStops
  /\ builds \in [Builds -> Jobs]

Fresh ==
  /\ settings = Missing /\ made = {} /\ bridge = "none" /\ profile = Missing
  /\ machineHome = [m \in BuildMachines |-> "absent"]
  /\ sidecar = "none"
  /\ tailnet = [on |-> FALSE, unit |-> NoURL, log |-> NoURL, minted |-> 0]

\* A tenant of a release whose default profile still mounted the shared /home.
Older ==
  /\ \E k \in LoginKeys, x \in SUBSET ExtraKeys :
       /\ settings = [user |-> TenantUser, own |-> k, extra |-> x, egress |-> FALSE]
       /\ profile = [user |-> TenantUser, own |-> k, extra |-> x, home |-> TRUE]
  /\ made = Once \ {"homeshare"} /\ bridge = "off"
  /\ machineHome = [m \in BuildMachines |-> "default"]
  /\ sidecar = "running"
  /\ tailnet = [on |-> TRUE, unit |-> NoURL, log |-> NoURL, minted |-> 0]

SidecarInit ==
  /\ \E old \in OldTenants : IF old THEN Older ELSE Fresh
  /\ nat = "off" /\ reach = FALSE /\ shownURLs = {} /\ converged = FALSE /\ stops = 0
  /\ builds = [b \in Builds |-> NoBuild]

objects == <<settings, made, bridge, nat, profile, machineHome, sidecar, tailnet, reach>>
others == <<shownURLs, stops>>

-----------------------------------------------------------------------------
(* PlanCreateV2 over what ProvisionReuseInputs read                        *)

PlannedUser(asked, stored) ==
  IF asked # Blank THEN asked ELSE IF stored = Missing THEN TenantUser ELSE stored.user

\* The request's key replaces the first stored one; the further ones stay.
MergeTenantSSHKeys(asked, stored) ==
  [own |-> IF asked # Blank \/ stored = Missing THEN asked ELSE stored.own,
   extra |-> IF stored = Missing THEN {} ELSE stored.extra]

PlanBuild(b, user, key, authKey, stored) ==
  /\ builds[b] = NoBuild
  /\ LET keys == MergeTenantSSHKeys(key, stored) IN
       builds' = [builds EXCEPT ![b] =
         [step |-> 1, user |-> PlannedUser(user, stored), own |-> keys.own,
          extra |-> keys.extra, named |-> user # Blank, egress |-> FALSE, key |-> authKey]]
  /\ converged' = FALSE
  /\ UNCHANGED <<objects, others>>

\* A failed listing is ignored: the plan is made as for a new tenant.
StartBuild(b) ==
  \E user \in UnixUsers \cup {Blank}, key \in LoginKeys \cup {Blank}, a \in AuthKeys :
    \/ PlanBuild(b, user, key, a, settings)
    \/ "list" \in BuildFaults /\ settings # Missing /\ PlanBuild(b, user, key, a, Missing)

-----------------------------------------------------------------------------
(* The steps.  Each is one call or one script.                             *)

Step(b) == BuildSteps[builds[b].step]
On(b, step) == builds[b] # NoBuild /\ Step(b) = step
Next1(b) == builds' = [builds EXCEPT ![b].step = @ + 1]
EndBuild(b, well) ==
  /\ builds' = [builds EXCEPT ![b] = NoBuild]
  /\ converged' = well

\* v2TailnetEgressEnabled: no project yet, or none readable, is "off".
ReadEgress(b) ==
  /\ On(b, "egress")
  /\ \E e \in BOOLEAN :
       /\ e => settings # Missing /\ settings.egress
       /\ settings # Missing /\ settings.egress => e \/ "list" \in BuildFaults
       /\ builds' = [builds EXCEPT ![b].step = @ + 1, ![b].egress = e]
  /\ UNCHANGED <<objects, others, converged>>

OnOff(e) == IF e THEN "on" ELSE "off"

EnsureV2Bridge(b) ==
  /\ On(b, "bridge")
  /\ bridge' = OnOff(builds[b].egress)
  /\ Next1(b)
  /\ UNCHANGED <<settings, made, nat, profile, machineHome, sidecar, tailnet, reach, others, converged>>

\* The plan's settings overwrite the project's; the toggle is not among them.
EnsureInfra(b) ==
  /\ On(b, "infra")
  /\ settings' = [user |-> builds[b].user, own |-> builds[b].own, extra |-> builds[b].extra,
                  egress |-> settings # Missing /\ settings.egress]
  /\ Next1(b)
  /\ UNCHANGED <<made, bridge, nat, profile, machineHome, sidecar, tailnet, reach, others, converged>>

\* Created when missing.  In the sidecar a script needs it running.
EnsureOnce(b) ==
  /\ builds[b] # NoBuild /\ Step(b) \in Once
  /\ Step(b) \in InSidecar => sidecar = "running"
  /\ made' = made \cup {Step(b)}
  /\ Next1(b)
  /\ UNCHANGED <<settings, bridge, nat, profile, machineHome, sidecar, tailnet, reach, others, converged>>

\* Mutant: machines are migrated only once the default profile has lost the
\* device.
MigrateLate(b) ==
  /\ On(b, "migrate")
  /\ machineHome' = IF profile = Missing \/ profile.home THEN machineHome
                    ELSE [m \in BuildMachines |-> IF machineHome[m] = "default" THEN "homeshare"
                                                  ELSE machineHome[m]]
  /\ Next1(b)
  /\ UNCHANGED <<settings, made, bridge, nat, profile, sidecar, tailnet, reach, others, converged>>

\* While the live default profile has the device, every listed machine is put
\* on homeshare; one that refuses is only logged.
MigrateV2MachinesToHomeShare(b) ==
  /\ On(b, "migrate")
  /\ \E refused \in SUBSET (IF "migrate" \in BuildFaults THEN BuildMachines ELSE {}) :
       machineHome' = [m \in BuildMachines |->
         IF /\ profile # Missing /\ profile.home
            /\ machineHome[m] = "default" /\ m \notin refused
         THEN "homeshare" ELSE machineHome[m]]
  /\ Next1(b)
  /\ UNCHANGED <<settings, made, bridge, nat, profile, sidecar, tailnet, reach, others, converged>>

\* The default profile is rendered from the plan, without the /home device.
EnsureV2AppProfile(b) ==
  /\ On(b, "default")
  /\ profile' = [user |-> builds[b].user, own |-> builds[b].own, extra |-> builds[b].extra,
                 home |-> FALSE]
  /\ Next1(b)
  /\ UNCHANGED <<settings, made, bridge, nat, machineHome, sidecar, tailnet, reach, others, converged>>

\* Created, or started when it is found stopped; then waited for.
EnsureV2Sidecar(b) ==
  /\ On(b, "sidecar")
  /\ sidecar' = "running"
  /\ Next1(b)
  /\ UNCHANGED <<settings, made, bridge, nat, profile, machineHome, tailnet, reach, others, converged>>

\* The NAT follows the toggle as the build read it before the bridge.
EnsureV2SidecarEgress(b) ==
  /\ On(b, "nat") /\ sidecar = "running"
  /\ nat' = OnOff(builds[b].egress)
  /\ Next1(b)
  /\ UNCHANGED <<settings, made, bridge, profile, machineHome, sidecar, tailnet, reach, others, converged>>

-----------------------------------------------------------------------------
(* v2TailscaleUp                                                           *)

Finish(b) == reach' = TRUE /\ EndBuild(b, TRUE)

\* The unit waits and its log still holds the URL.
WaitsHealthy == tailnet.unit # NoURL /\ tailnet.log # NoURL

\* An authenticated sidecar finishes the Reach; an auth key joins first and
\* fails the build when it does not; else the waiting unit is looked at.
TailscaleUp(b) ==
  /\ On(b, "tailscale") /\ sidecar = "running"
  /\ \/ /\ tailnet.on \/ builds[b].key
        /\ tailnet' = [tailnet EXCEPT !.on = TRUE]
        /\ Finish(b)
     \/ /\ ~tailnet.on /\ ~builds[b].key
        /\ builds' = [builds EXCEPT ![b].step = IF WaitsHealthy THEN @ + 2 ELSE @ + 1]
        /\ UNCHANGED <<tailnet, reach, converged>>
  /\ UNCHANGED <<settings, made, bridge, nat, profile, machineHome, sidecar, others>>

\* The unit is stopped, its log emptied, a new `tailscale up` started; that
\* one mints a fresh URL, which may not reach the log.
StartTailscaleUp(b) ==
  /\ On(b, "start") /\ sidecar = "running"
  /\ tailnet.minted < MaxURL
  /\ LET url == tailnet.minted + 1 IN
       \E logged \in {NoURL, url} :
         tailnet' = [tailnet EXCEPT !.unit = url, !.log = logged, !.minted = url]
  /\ Next1(b)
  /\ UNCHANGED <<settings, made, bridge, nat, profile, machineHome, sidecar, reach, others, converged>>

\* The newest URL of the log is what the login shows.
ReportURL(b) ==
  /\ On(b, "report") /\ sidecar = "running"
  /\ shownURLs' = shownURLs \cup ({tailnet.log} \ {NoURL})
  /\ EndBuild(b, TRUE)
  /\ UNCHANGED <<objects, stops>>

\* A call fails, the deadline passes, or the sidecar a script needs has
\* stopped: the build ends where it is.
StopBuild(b) ==
  /\ builds[b] # NoBuild
  /\ \/ "stop" \in BuildFaults
     \/ Step(b) \in InSidecar /\ sidecar # "running"
     \/ On(b, "start") /\ tailnet.minted = MaxURL
  /\ EndBuild(b, FALSE)
  /\ UNCHANGED <<objects, others>>

-----------------------------------------------------------------------------
(* Around the build                                                        *)

\* RunEgress moves the toggle and nothing else.
RunEgress ==
  /\ "egress" \in BuildOps /\ settings # Missing
  /\ settings' = [settings EXCEPT !.egress = ~@]
  /\ UNCHANGED <<made, bridge, nat, profile, machineHome, sidecar, tailnet, reach, others, converged, builds>>

\* `sc-adm tenant add-ssh-key`: the stored keys, then the profiles rendered
\* from the stored settings.
AddSSHKey(k) ==
  /\ "addkey" \in BuildOps /\ settings # Missing /\ profile # Missing
  /\ k \notin settings.extra
  /\ settings' = [settings EXCEPT !.extra = @ \cup {k}]
  /\ profile' = [profile EXCEPT !.user = settings.user, !.own = settings.own,
                                !.extra = settings.extra \cup {k}]
  /\ UNCHANGED <<made, bridge, nat, machineHome, sidecar, tailnet, reach, others, converged, builds>>

\* A machine made with the default profile.
NewMachine(m) ==
  /\ "machine" \in BuildOps /\ profile # Missing
  /\ machineHome[m] = "absent"
  /\ machineHome' = [machineHome EXCEPT ![m] = "default"]
  /\ UNCHANGED <<settings, made, bridge, nat, profile, sidecar, tailnet, reach, others, converged, builds>>

\* The transient unit does not survive the sidecar, the log does.
SidecarStops ==
  /\ sidecar = "running" /\ stops < MaxStops
  /\ sidecar' = "stopped"
  /\ stops' = stops + 1
  /\ tailnet' = [tailnet EXCEPT !.unit = NoURL]
  /\ UNCHANGED <<settings, made, bridge, nat, profile, machineHome, reach, shownURLs, converged, builds>>

\* The user opens the URL the unit waits for.
UserJoins ==
  /\ sidecar = "running" /\ tailnet.unit \in shownURLs
  /\ ~tailnet.on
  /\ tailnet' = [tailnet EXCEPT !.on = TRUE, !.unit = NoURL]
  /\ UNCHANGED <<settings, made, bridge, nat, profile, machineHome, sidecar, reach, others, converged, builds>>

BuildStep(b) ==
  \/ ReadEgress(b) \/ EnsureV2Bridge(b) \/ EnsureInfra(b) \/ EnsureOnce(b)
  \/ MigrateV2MachinesToHomeShare(b) \/ EnsureV2AppProfile(b)
  \/ EnsureV2Sidecar(b) \/ EnsureV2SidecarEgress(b)
  \/ TailscaleUp(b) \/ StartTailscaleUp(b) \/ ReportURL(b)

SidecarNext ==
  \/ \E b \in Builds : StartBuild(b) \/ BuildStep(b) \/ StopBuild(b)
  \/ RunEgress
  \/ \E k \in ExtraKeys : AddSSHKey(k)
  \/ \E m \in BuildMachines : NewMachine(m)
  \/ SidecarStops \/ UserJoins

SidecarSpec == SidecarInit /\ [][SidecarNext]_sidecarVars

-----------------------------------------------------------------------------
(* Properties                                                              *)

\* At the end of a build the DHCP route that steers machines at the sidecar
\* and the NAT that carries their traffic agree ("Resolved before the bridge
\* so one converge applies both the DHCP option and the sidecar NAT
\* consistently"), wherever the toggle moved meanwhile.  One build at a time.
EgressAgrees == converged => bridge = nat

\* At the end of a build new machines authorize the user and the keys the
\* tenant records.
ProfileMatchesSettings ==
  converged => /\ settings # Missing /\ profile # Missing
               /\ profile.user = settings.user
               /\ profile.own = settings.own /\ profile.extra = settings.extra

\* A machine that mounts the shared /home never loses it.
HasHome(m) ==
  \/ machineHome[m] = "homeshare"
  \/ machineHome[m] = "default" /\ profile # Missing /\ profile.home
MachinesKeepHome == [][\A m \in BuildMachines : HasHome(m) => HasHome(m)']_sidecarVars

\* No step loses a key an administrator added, and a login that names no user
\* never changes the tenant's ("a blank request means keep what the tenant
\* has, never reset to defaults").
SettingsKept ==
  [][settings # Missing => /\ settings.extra \subseteq settings'.extra
                           /\ settings'.user # settings.user =>
                                \E b \in Builds : builds[b] # NoBuild /\ builds[b].named]_sidecarVars

\* A login URL a user was shown stays the one the sidecar waits for, through
\* every later login, until the sidecar joins or stops.
LoginURLSurvives ==
  [][tailnet.unit \in shownURLs =>
       tailnet'.unit = tailnet.unit \/ tailnet'.on \/ sidecar' # "running"]_sidecarVars

\* What builds and egress switches leave of a tenant: egress and profile agree
\* with the settings, and nothing that was settled is lost on the way.
BuildsConverge ==
  /\ [](EgressAgrees /\ ProfileMatchesSettings)
  /\ MachinesKeepHome
  /\ SettingsKept
  /\ LoginURLSurvives
=============================================================================
