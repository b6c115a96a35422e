--------------------------- MODULE LocalResolver ---------------------------
(***************************************************************************)
(* What the CLI leaves on a workstation: the split-DNS resolver of each    *)
(* tenant (internal/localdns, cli/dns.go) and the trusted tenant CAs       *)
(* (internal/localtrust, cli/trust.go, the setup steps of cli/login.go).   *)
(*                                                                         *)
(* `sc login` writes the tenant's row of ~/.sandcastle/dns.yaml, a systemd *)
(* unit per suffix, and starts it; then it fetches the tenant's CA from    *)
(* the sidecar and puts it into the system's bundle.  Both are best        *)
(* effort, both re-run the privileged part under sudo, and both can stop   *)
(* between any two of their commands.  A suffix is named by its tenant,    *)
(* except that a login whose tenant list fails uses the tenant's name.     *)
(***************************************************************************)
EXTENDS Naturals, FiniteSets

CONSTANTS
  ResTenants,      \* tenants, each one the name of its DNS suffix too
  ResNames,        \* tenant names: the keys of dns.yaml
  ResNameOf,       \* [ResTenants -> ResNames]: two installs may share a name
  LegacySuffixes,  \* suffixes with a drop-in of an older version
  ResShells,         \* CLI processes
  ResOps,          \* \subseteq {"login", "teardown", "uninstall", "trust", "untrust"}
  MaxGen,          \* how often a tenant is recreated (bound)
  MaxReboots,      \* reboots of the workstation (bound)
  ResFaults,       \* \subseteq {"sudo", "polkit", "systemctl", "signer",
                   \*            "update", "list", "cut"}
  NoRow            \* no row, no unit, no tenant

ResSuffixes == ResTenants \cup ResNames
Gens == 1 .. MaxGen

ASSUME ResAssumption ==
  /\ ResNameOf \in [ResTenants -> ResNames]
  /\ ResTenants \cap ResNames = {}
  /\ LegacySuffixes \subseteq ResTenants
  /\ ResOps \subseteq {"login", "teardown", "uninstall", "trust", "untrust"}
  /\ MaxGen \in Nat \ {0} /\ MaxReboots \in Nat
  /\ NoRow \notin ResSuffixes \cup Gens

VARIABLES
  dnsRows,      \* ~/.sandcastle/dns.yaml
  unit,         \* /etc/systemd/system/sandcastle-dns-<suffix>.service
  loaded,       \* the unit files as systemd read them last
  boot,         \* units enabled for boot
  served,       \* what the running unit of a suffix forwards to
  dropIns,      \* legacy /etc/systemd/resolved.conf.d drop-ins
  globalDNS,    \* suffixes whose server systemd-resolved asks for every name
  anchors,      \* CA files in the system's trust directory
  bundle,       \* CAs of the system bundle
  subnet,       \* subnet and CA generation of each tenant; 0 when deleted
  loginTenant,  \* the tenant the saved broker URL belongs to
  resShell,        \* CLI processes
  told,         \* what the last command on a suffix reported
  reboots

diskVars == <<unit, dropIns, anchors>>
machineVars == <<loaded, boot, served, globalDNS, bundle>>
resVars == <<dnsRows, unit, loaded, boot, served, dropIns, globalDNS, anchors,
             bundle, subnet, loginTenant, resShell, told, reboots>>

ResIdle == [at |-> "idle", op |-> NoRow, tenant |-> NoRow, suffix |-> NoRow,
           gen |-> NoRow, as |-> "user", rows |-> NoRow]

DnsSteps == {"read", "write", "unit", "resolved", "reload", "enable", "restart",
             "disable", "remove", "sync", "sudo"}
TrustSteps == {"fetch", "anchor", "unanchor", "bundle"}

ResTypeOK ==
  /\ dnsRows \in [ResNames -> {NoRow} \cup [suffix : ResSuffixes, gen : Gens]]
  /\ unit \in [ResSuffixes -> {NoRow} \cup Gens]
  /\ loaded \in [ResSuffixes -> {NoRow} \cup Gens]
  /\ served \in [ResSuffixes -> {NoRow} \cup Gens]
  /\ boot \subseteq ResSuffixes /\ globalDNS \subseteq ResSuffixes
  /\ dropIns \subseteq LegacySuffixes
  /\ anchors \in [ResTenants -> 0 .. MaxGen]
  /\ bundle \in [ResTenants -> 0 .. MaxGen]
  /\ subnet \in [ResTenants -> [gen : Gens, alive : BOOLEAN]]
  /\ loginTenant \in ResTenants \cup {NoRow}
  /\ \A c \in ResShells :
       /\ resShell[c].at \in {"idle"} \cup DnsSteps \cup TrustSteps
       /\ resShell[c].as \in {"user", "sudo", "root"}
       /\ resShell[c].suffix \in ResSuffixes \cup {NoRow}
       /\ resShell[c].gen \in Gens \cup {NoRow}
  /\ told \in [dns : [ResSuffixes -> {"nothing", "installed", "removed"}],
               ca : [ResTenants -> {"nothing", "trusted", "removed"}]]
  /\ reboots \in 0 .. MaxReboots

ResInit ==
  /\ dnsRows = [n \in ResNames |-> NoRow]
  /\ unit = [s \in ResSuffixes |-> NoRow]
  /\ loaded = unit /\ served = unit /\ boot = {}
  /\ dropIns = LegacySuffixes /\ globalDNS = LegacySuffixes
  /\ anchors = [t \in ResTenants |-> 0] /\ bundle = anchors
  /\ subnet = [t \in ResTenants |-> [gen |-> 1, alive |-> TRUE]]
  /\ loginTenant = NoRow
  /\ resShell = [c \in ResShells |-> ResIdle]
  /\ told = [dns |-> [s \in ResSuffixes |-> "nothing"],
             ca |-> [t \in ResTenants |-> "nothing"]]
  /\ reboots = 0

(***************************************************************************)
(* Commands.                                                               *)
(***************************************************************************)

Fails(f) == f \in ResFaults
StepTo(c, s) == resShell' = [resShell EXCEPT ![c].at = s]
Unsaid(s) == told' = [told EXCEPT !.dns[s] = "nothing"]

\* `sc login`, once the tenant is enrolled: the device response carries the
\* subnet; the suffix is looked up in the tenant list, and is the tenant's name
\* when that fails.  The command may itself run as root.
LoginSetup(c, t, s, who) ==
  /\ resShell[c].at = "idle" /\ "login" \in ResOps /\ subnet[t].alive
  /\ \/ s = t
     \/ s = ResNameOf[t] /\ Fails("list")
  /\ resShell' = [resShell EXCEPT ![c] = [at |-> "read", op |-> "login", tenant |-> t,
                 suffix |-> s, gen |-> subnet[t].gen, as |-> who, rows |-> NoRow]]
  /\ loginTenant' = t
  /\ Unsaid(s)
  /\ UNCHANGED <<dnsRows, diskVars, machineVars, subnet, reboots>>

\* `sc dns teardown` and `sc dns uninstall`: the plan is made from the tenant
\* list, so a tenant that is gone from it cannot be planned for.
TeardownPlan(c, t, op, who) ==
  /\ resShell[c].at = "idle" /\ op \in {"teardown", "uninstall"} \cap ResOps
  /\ subnet[t].alive
  /\ resShell' = [resShell EXCEPT ![c] = [at |-> "read", op |-> op, tenant |-> t,
                 suffix |-> t, gen |-> subnet[t].gen, as |-> who, rows |-> NoRow]]
  /\ Unsaid(t)
  /\ UNCHANGED <<dnsRows, diskVars, machineVars, subnet, loginTenant, reboots>>

\* `sc trust install`: a v2 tenant has no CA volume, so the CA is fetched from
\* the signer of the tenant that the saved broker URL names.
TrustPlan(c, t, who) ==
  /\ resShell[c].at = "idle" /\ "trust" \in ResOps /\ loginTenant # NoRow
  /\ resShell' = [resShell EXCEPT ![c] = [at |-> "fetch", op |-> "trust", tenant |-> t,
                 suffix |-> loginTenant, gen |-> subnet[loginTenant].gen,
                 as |-> who, rows |-> NoRow]]
  /\ UNCHANGED <<dnsRows, diskVars, machineVars, subnet, loginTenant, told, reboots>>

\* `sc trust uninstall`: the entry is named after the listed tenant's suffix.
UntrustPlan(c, t, who) ==
  /\ resShell[c].at = "idle" /\ "untrust" \in ResOps /\ subnet[t].alive
  /\ resShell' = [resShell EXCEPT ![c] = [at |-> "unanchor", op |-> "untrust", tenant |-> t,
                 suffix |-> t, gen |-> subnet[t].gen, as |-> who, rows |-> NoRow]]
  /\ UNCHANGED <<dnsRows, diskVars, machineVars, subnet, loginTenant, told, reboots>>

(***************************************************************************)
(* The resolver of one suffix.                                             *)
(***************************************************************************)

IsInstall(c) == resShell[c].op = "login"

\* A failed resolver step ends a teardown; a login goes on to the CA.
GiveUp(c) ==
  LET r == resShell[c]
      caller == IF r.as = "sudo" THEN "user" ELSE r.as
  IN  resShell' = [resShell EXCEPT ![c] = IF IsInstall(c) THEN [r EXCEPT !.at = "fetch", !.as = caller]
                                                    ELSE ResIdle]

\* A permission error: the same plan again under sudo, except for `sc dns
\* uninstall`, which never asks.
Refused(c) == IF resShell[c].op = "uninstall" THEN GiveUp(c) ELSE StepTo(c, "sudo")

Escalate(c) ==
  /\ resShell[c].at = "sudo"
  /\ \/ resShell' = [resShell EXCEPT ![c].at = "read", ![c].as = "sudo"]
     \/ Fails("sudo") /\ GiveUp(c)
  /\ UNCHANGED <<dnsRows, diskVars, machineVars, subnet, loginTenant, told, reboots>>

ReadState(c) ==
  /\ resShell[c].at = "read"
  /\ resShell' = [resShell EXCEPT ![c].at = "write", ![c].rows = dnsRows]
  /\ UNCHANGED <<dnsRows, diskVars, machineVars, subnet, loginTenant, told, reboots>>

\* The whole file is written from what was read: one row per tenant name.
WriteState(c) ==
  LET r == resShell[c]
      row == IF IsInstall(c) THEN [suffix |-> r.suffix, gen |-> r.gen] ELSE NoRow
  IN  /\ r.at = "write"
      /\ dnsRows' = [r.rows EXCEPT ![ResNameOf[r.tenant]] = row]
      /\ resShell' = [resShell EXCEPT ![c].at = IF IsInstall(c) THEN "unit" ELSE "disable",
                                ![c].rows = NoRow]
      /\ UNCHANGED <<diskVars, machineVars, subnet, loginTenant, told, reboots>>

\* The unit file, then the legacy drop-in, both in directories of root.
WriteUnit(c) ==
  LET r == resShell[c]
  IN  /\ r.at = "unit"
      /\ \/ /\ r.as # "user"
            /\ unit' = [unit EXCEPT ![r.suffix] = r.gen]
            /\ dropIns' = dropIns \ {r.suffix}
            /\ StepTo(c, IF r.suffix \in dropIns THEN "resolved" ELSE "reload")
         \/ /\ r.as = "user"
            /\ Refused(c)
            /\ UNCHANGED <<unit, dropIns>>
      /\ UNCHANGED <<dnsRows, anchors, machineVars, subnet, loginTenant, told, reboots>>

\* A restart of systemd-resolved reads the drop-ins again and restarts every
\* running unit (PartOf).
RestartResolved(c) ==
  /\ resShell[c].at = "resolved"
  /\ \/ /\ globalDNS' = dropIns
        /\ served' = [s \in ResSuffixes |-> IF served[s] = NoRow THEN NoRow ELSE loaded[s]]
        /\ StepTo(c, "reload")
     \/ /\ Fails("systemctl") /\ GiveUp(c)
        /\ UNCHANGED <<globalDNS, served>>
  /\ UNCHANGED <<dnsRows, diskVars, loaded, boot, bundle, subnet, loginTenant, told, reboots>>

\* daemon-reload, enable, restart: resolverInstallCommands, in order.
DaemonReload(c) ==
  /\ resShell[c].at = "reload"
  /\ \/ loaded' = unit /\ StepTo(c, "enable")
     \/ Fails("systemctl") /\ GiveUp(c) /\ UNCHANGED loaded
  /\ UNCHANGED <<dnsRows, diskVars, boot, served, globalDNS, bundle, subnet, loginTenant,
                 told, reboots>>

\* Mutant: the unit is not enabled for the next boot.
EnableUnitNever(c) ==
  /\ resShell[c].at = "enable" /\ StepTo(c, "restart")
  /\ UNCHANGED <<dnsRows, diskVars, machineVars, subnet, loginTenant, told, reboots>>

EnableUnit(c) ==
  /\ resShell[c].at = "enable"
  /\ \/ boot' = boot \cup {resShell[c].suffix} /\ StepTo(c, "restart")
     \/ Fails("systemctl") /\ GiveUp(c) /\ UNCHANGED boot
  /\ UNCHANGED <<dnsRows, diskVars, loaded, served, globalDNS, bundle, subnet, loginTenant,
                 told, reboots>>

RestartUnit(c) ==
  LET s == resShell[c].suffix
  IN  /\ resShell[c].at = "restart"
      /\ \/ /\ served' = [served EXCEPT ![s] = loaded[s]]
            /\ told' = [told EXCEPT !.dns[s] = "installed"]
         \/ /\ Fails("systemctl")
            /\ UNCHANGED <<served, told>>
      /\ GiveUp(c)
      /\ UNCHANGED <<dnsRows, diskVars, loaded, boot, globalDNS, bundle, subnet,
                     loginTenant, reboots>>

\* `systemctl disable --now`, while the unit file still exists; systemctl fails
\* when there is none.  A user without root may be let through by polkit, or is
\* refused in words that may or may not be "permission denied".
DisableUnit(c) ==
  LET r == resShell[c]
  IN  /\ r.at = "disable"
      /\ \/ /\ unit[r.suffix] # NoRow
            /\ served' = [served EXCEPT ![r.suffix] = NoRow]
            /\ boot' = boot \ {r.suffix}
            /\ StepTo(c, "remove")
         \/ /\ unit[r.suffix] = NoRow \/ Fails("systemctl") \/ (Fails("polkit") /\ r.as = "user")
            /\ GiveUp(c)
            /\ UNCHANGED <<served, boot>>
         \/ /\ Fails("polkit") /\ r.as = "user"
            /\ Refused(c)
            /\ UNCHANGED <<served, boot>>
      /\ UNCHANGED <<dnsRows, diskVars, loaded, globalDNS, bundle, subnet, loginTenant, told,
                     reboots>>

RemoveUnit(c) ==
  LET r == resShell[c]
  IN  /\ r.at = "remove"
      /\ \/ r.as # "user" /\ unit' = [unit EXCEPT ![r.suffix] = NoRow] /\ StepTo(c, "sync")
         \/ r.as = "user" /\ Refused(c) /\ UNCHANGED unit
      /\ UNCHANGED <<dnsRows, dropIns, anchors, machineVars, subnet, loginTenant, told, reboots>>

SyncResolver(c) ==
  /\ resShell[c].at = "sync"
  /\ \/ loaded' = unit /\ told' = [told EXCEPT !.dns[resShell[c].suffix] = "removed"]
     \/ Fails("systemctl") /\ UNCHANGED <<loaded, told>>
  /\ GiveUp(c)
  /\ UNCHANGED <<dnsRows, diskVars, boot, served, globalDNS, bundle, subnet, loginTenant,
                 reboots>>

(***************************************************************************)
(* The CA.                                                                 *)
(***************************************************************************)

Ends(c) == resShell' = [resShell EXCEPT ![c] = ResIdle]

\* GET /tls/ca at the subnet's .3: nobody answers once the tenant is gone or
\* has been given another subnet.  The entry is named after the CA's CN.
FetchCA(c) ==
  LET r == resShell[c]
      t == IF r.op = "login" THEN r.tenant ELSE r.suffix
      reachable == subnet[t].alive /\ subnet[t].gen = r.gen
  IN  /\ r.at = "fetch"
      /\ \/ reachable /\ resShell' = [resShell EXCEPT ![c].at = "anchor", ![c].suffix = t]
         \/ (~reachable \/ Fails("signer")) /\ Ends(c)
      /\ UNCHANGED <<dnsRows, diskVars, machineVars, subnet, loginTenant, told, reboots>>

SudoRefused(c) == resShell[c].as = "user" /\ Fails("sudo")

\* installLinux: a direct write, or `sudo install` when that is refused.
WriteTrustFile(c) ==
  LET r == resShell[c]
  IN  /\ r.at = "anchor"
      /\ \/ /\ anchors' = [anchors EXCEPT ![r.suffix] = r.gen]
            /\ told' = [told EXCEPT !.ca[r.suffix] = "nothing"]
            /\ StepTo(c, "bundle")
         \/ SudoRefused(c) /\ Ends(c) /\ UNCHANGED <<anchors, told>>
      /\ UNCHANGED <<dnsRows, unit, dropIns, machineVars, subnet, loginTenant, reboots>>

RemoveTrustFile(c) ==
  LET r == resShell[c]
  IN  /\ r.at = "unanchor"
      /\ \/ /\ anchors' = [anchors EXCEPT ![r.suffix] = 0]
            /\ told' = [told EXCEPT !.ca[r.suffix] = "nothing"]
            /\ StepTo(c, "bundle")
         \/ /\ SudoRefused(c) /\ anchors[r.suffix] # 0
            /\ Ends(c) /\ UNCHANGED <<anchors, told>>
      /\ UNCHANGED <<dnsRows, unit, dropIns, machineVars, subnet, loginTenant, reboots>>

\* update-ca-certificates builds the whole bundle from the directory.
UpdateBundle(c) ==
  LET r == resShell[c]
  IN  /\ r.at = "bundle"
      /\ \/ /\ bundle' = anchors
            /\ told' = [told EXCEPT !.ca[r.suffix] =
                          IF r.op = "untrust" THEN "removed" ELSE "trusted"]
         \/ /\ Fails("update") \/ SudoRefused(c)
            /\ UNCHANGED <<bundle, told>>
      /\ Ends(c)
      /\ UNCHANGED <<dnsRows, diskVars, loaded, boot, served, globalDNS, subnet, loginTenant,
                     reboots>>

(***************************************************************************)
(* Around the commands.                                                    *)
(***************************************************************************)

\* The command is killed between two steps.
CutShort(c) ==
  /\ resShell[c].at # "idle" /\ Fails("cut")
  /\ Ends(c)
  /\ UNCHANGED <<dnsRows, diskVars, machineVars, subnet, loginTenant, told, reboots>>

\* The workstation restarts: enabled units start from their files.
Reboot ==
  /\ reboots < MaxReboots
  /\ reboots' = reboots + 1
  /\ loaded' = unit
  /\ served' = [s \in ResSuffixes |-> IF s \in boot THEN unit[s] ELSE NoRow]
  /\ globalDNS' = dropIns
  /\ resShell' = [c \in ResShells |-> ResIdle]
  /\ UNCHANGED <<dnsRows, diskVars, boot, bundle, subnet, loginTenant, told>>

\* The tenant is deleted on the server, or made again with another subnet and CA.
TenantChanges(t) ==
  /\ \/ subnet[t].alive /\ subnet' = [subnet EXCEPT ![t].alive = FALSE]
     \/ /\ ~subnet[t].alive /\ subnet[t].gen < MaxGen
        /\ subnet' = [subnet EXCEPT ![t] = [gen |-> @.gen + 1, alive |-> TRUE]]
  /\ UNCHANGED <<dnsRows, diskVars, machineVars, loginTenant, resShell, told, reboots>>

ResStep(c) ==
  \/ Escalate(c) \/ ReadState(c) \/ WriteState(c) \/ WriteUnit(c)
  \/ RestartResolved(c) \/ DaemonReload(c) \/ EnableUnit(c) \/ RestartUnit(c)
  \/ DisableUnit(c) \/ RemoveUnit(c) \/ SyncResolver(c)
  \/ FetchCA(c) \/ WriteTrustFile(c) \/ RemoveTrustFile(c) \/ UpdateBundle(c)
  \/ CutShort(c)

ResNext ==
  \/ \E c \in ResShells : ResStep(c)
  \/ \E c \in ResShells, t \in ResTenants, s \in ResSuffixes, who \in {"user", "root"} :
       LoginSetup(c, t, s, who)
  \/ \E c \in ResShells, t \in ResTenants, op \in ResOps, who \in {"user", "root"} :
       TeardownPlan(c, t, op, who)
  \/ \E c \in ResShells, t \in ResTenants, who \in {"user", "root"} :
       TrustPlan(c, t, who) \/ UntrustPlan(c, t, who)
  \/ \E t \in ResTenants : TenantChanges(t)
  \/ Reboot

ResSpec == ResInit /\ [][ResNext]_resVars

(***************************************************************************)
(* Properties.                                                             *)
(***************************************************************************)

\* No two running commands are about one suffix.
ResApart ==
  \A c, d \in ResShells :
    (c # d /\ resShell[c].suffix = resShell[d].suffix) => resShell[c].suffix = NoRow

\* A resolver the last command on its suffix reported as installed runs from
\* its unit file and comes back after a reboot, and one reported as removed is
\* gone, whatever commands on other suffixes, sudo re-runs, failures and
\* reboots happened since (FileManager.Install and Uninstall).
ReportedResolver ==
  \A s \in ResSuffixes :
    /\ told.dns[s] = "installed" =>
         unit[s] # NoRow /\ loaded[s] = unit[s] /\ served[s] = unit[s] /\ s \in boot
    /\ told.dns[s] = "removed" =>
         unit[s] = NoRow /\ served[s] = NoRow /\ s \notin boot

\* A CA that was reported as trusted is in the system bundle as the file that
\* was written for it, and one reported as removed is not (CommandStore).
ReportedTrust ==
  \A t \in ResTenants :
    /\ told.ca[t] = "trusted" => bundle[t] = anchors[t] /\ anchors[t] # 0
    /\ told.ca[t] = "removed" => bundle[t] = 0

\* An installed resolver leaves no server of its suffix in the global list of
\* systemd-resolved (installOrRefresh).  Fails: the restart is only made by
\* the command that removed the drop-in.
LegacyServersGone ==
  \A s \in ResSuffixes : told.dns[s] = "installed" => s \notin globalDNS

\* A reported install has its row in dns.yaml (writeLocalDNS).  Fails for two
\* logins at once, and for two installs with a tenant of one name.
InstalledHaveRows ==
  \A t \in ResTenants :
    told.dns[t] = "installed" /\ (\A c \in ResShells : resShell[c].at = "idle")
      => dnsRows[ResNameOf[t]] # NoRow /\ dnsRows[ResNameOf[t]].suffix = t

\* `sc trust install <tenant>` trusts the CA of the tenant it names.  Fails:
\* the signer is the one of the tenant that is logged in.
TrustsTheNamed ==
  \A c \in ResShells :
    resShell[c].op = "trust" /\ resShell[c].at = "bundle" => resShell[c].suffix = resShell[c].tenant

\* What `sc dns` and `sc trust` last reported of a suffix or a CA still holds.
ReportsHold == ReportedResolver /\ ReportedTrust
=============================================================================
