------------------------- MODULE ReservationHandlers -------------------------
(***************************************************************************)
(* The Auth App's request handlers that reserve public names, as processes *)
(* over the registry: project create/set-domain/unset-domain/delete,       *)
(* machine hostname add/remove, route publish/unpublish, machine tunnel    *)
(* publish/unpublish, zone add/remove, and the five-minute garbage         *)
(* collector.  net/http runs every request in a goroutine of its own and   *)
(* no mutex spans a handler, so a step is one database statement (or the   *)
(* reservation transaction), one Incus call or one Cloudflare call, and    *)
(* the steps of any number of requests interleave.                         *)
(*                                                                         *)
(* job[h] is the request handler h is executing: its program counter and   *)
(* the local variables it still needs.  A request whose first read refuses *)
(* it changes nothing and is not started.  Dry runs roll back and are left *)
(* out.  Incus calls may fail before they do anything ("fail") or, where   *)
(* the call is made of several requests, after the first ("partial").      *)
(***************************************************************************)
EXTENDS ReservationRegistry

CONSTANTS
  Handlers,     \* requests served concurrently
  Requests,     \* the operations clients use
  Faults,       \* subset of {"fail", "partial"}
  NoDomain,
  Undeletable,  \* the default projects
  DomainNames, HostNames, RouteNames, TunnelNames, ZoneNames,  \* what requests name
  Wilds         \* whether hostnames, routes and tunnels may be wildcards

ASSUME InputAssumption ==
  /\ NoDomain \notin Names
  /\ Undeletable \subseteq Projects
  /\ DomainNames \subseteq Names /\ HostNames \subseteq Names /\ RouteNames \subseteq Names
  /\ TunnelNames \subseteq Names /\ ZoneNames \subseteq Names /\ Wilds \subseteq BOOLEAN

VARIABLES
  job,
  live,         \* Incus: the app projects that exist
  incusDomain,  \* Incus: KeyV2Domain of a project
  instances,    \* Incus: the machines that exist
  creating,     \* machines an `sc create --hostname` has claimed a name for
  cooling,      \* machine_publication_cooldowns not yet a minute old
  gc            \* the slow loop's pass

incus == <<live, incusDomain, instances, creating>>
vars == <<registry, job, incus, cooling, gc>>

Idle == [pc |-> "idle"]

DomainJobs == [pc : {"claim", "set", "create", "compensate", "restore"}, op : {"set", "create"},
               p : Projects, n : Names, z : Names, prev : SUBSET ClaimRows]
ProjectJobs == [pc : {"unset", "list"}, p : Projects]
DeleteJobs == [pc : {"drop"}, p : Projects, todo : SUBSET HostnameRows]
HostJobs == [pc : {"hclaim", "stamp", "hcheck", "hdrop"}, m : Machines, b : Names, w : BOOLEAN,
             z : Names, before : BOOLEAN, mine : BOOLEAN]
NameJobs == [pc : {"rdrop", "hold", "rhosts", "rinsert", "unprovision", "udel"},
             m : Machines, b : Names, w : BOOLEAN]
UnrouteJobs == [pc : {"udrop"}, b : Names, w : BOOLEAN]
TunnelJobs == [pc : {"troutes", "tclaim", "provision", "trelease"},
               m : Machines, b : Names, w : BOOLEAN, mine : BOOLEAN]
ZoneJobs == [pc : {"zinsert", "zdelete"}, z : Names]
Jobs == {Idle} \cup DomainJobs \cup ProjectJobs \cup DeleteJobs \cup HostJobs \cup NameJobs
          \cup UnrouteJobs \cup TunnelJobs \cup ZoneJobs

Passes == {Idle}
  \cup [pc : {"claims"}, seen : SUBSET Projects]
  \cup [pc : {"pruneClaims"}, seen : SUBSET Projects, todo : SUBSET ClaimRows]
  \cup [pc : {"hosts"}, seen : SUBSET Projects, known : BOOLEAN, machines : SUBSET Machines]
  \cup [pc : {"pruneHosts"}, todo : SUBSET HostnameRows]

Ready(h, op) == job[h] = Idle /\ op \in Requests
At(h, pc) == job[h].pc = pc
Goto(h, j) == job' = [job EXCEPT ![h] = j]
Step(h, pc) == Goto(h, [job[h] EXCEPT !.pc = pc])
Done(h) == Goto(h, Idle)

HandlersInit ==
  /\ Init
  /\ job = [h \in Handlers |-> Idle]
  /\ live = Undeletable
  /\ incusDomain = [p \in Projects |-> NoDomain]
  /\ instances = {}
  /\ creating = {}
  /\ cooling = {}
  /\ gc = Idle

-----------------------------------------------------------------------------
(* Project Domains: projectDomainSet, projectCreateWithDomain              *)

\* Both handlers look the zone up, then claim; op is "set" or "create".
DomainBegin(h, op, p, n, z) ==
  /\ Ready(h, op)
  /\ CoveringZone(n, z, zones) /\ n # z
  /\ Goto(h, [pc |-> "claim", op |-> op, p |-> p, n |-> n, z |-> z, prev |-> {}])
  /\ UNCHANGED <<registry, incus, cooling, gc>>

DomainRefused(p, n, z) ==
  (\E c \in ClaimOf(p) : c.domain = n) \/ DomainConflict(n, p) \/ z \notin zones

\* The transaction; the claim it replaced is kept for the compensation.
DomainClaim(h) ==
  /\ At(h, "claim")
  /\ LET j == job[h] IN
       \/ /\ ClaimProjectDomain(j.p, j.n, j.z)
          /\ Goto(h, [j EXCEPT !.pc = j.op, !.prev = ClaimOf(j.p)])
       \/ /\ DomainRefused(j.p, j.n, j.z)
          /\ Done(h)
          /\ UNCHANGED registry
  /\ UNCHANGED <<incus, cooling, gc>>

\* Mutant: a failed Incus write is reported without giving the claim up.
SetIncusNoCompensation(h) ==
  /\ At(h, "set")
  /\ \/ /\ job[h].p \in live
        /\ incusDomain' = [incusDomain EXCEPT ![job[h].p] = job[h].n]
     \/ incusDomain' = incusDomain
  /\ Done(h)
  /\ UNCHANGED <<registry, live, instances, creating, cooling, gc>>

\* SetProjectDomainV2: the key first, then the profiles.
SetIncus(h) ==
  /\ At(h, "set")
  /\ LET j == job[h] IN
       \/ /\ j.p \in live
          /\ incusDomain' = [incusDomain EXCEPT ![j.p] = j.n]
          /\ Done(h)
       \/ /\ j.p \in live /\ "partial" \in Faults
          /\ incusDomain' = [incusDomain EXCEPT ![j.p] = j.n]
          /\ Step(h, "compensate")
       \/ /\ j.p \notin live \/ "fail" \in Faults
          /\ incusDomain' = incusDomain
          /\ Step(h, "compensate")
  /\ UNCHANGED <<registry, live, instances, creating, cooling, gc>>

\* CreateTenantProjectWithDomain converges on a project that exists already.
CreateIncus(h) ==
  /\ At(h, "create")
  /\ LET j == job[h] IN
       \/ /\ live' = live \cup {j.p}
          /\ incusDomain' = [incusDomain EXCEPT ![j.p] = j.n]
          /\ \/ Done(h)
             \/ "partial" \in Faults /\ Step(h, "compensate")
       \/ /\ "fail" \in Faults
          /\ UNCHANGED <<live, incusDomain>>
          /\ Step(h, "compensate")
  /\ UNCHANGED <<registry, instances, creating, cooling, gc>>

\* Mutant: the compensation deletes by domain, not by owner.
DomainCompensateByDomain(h) ==
  /\ At(h, "compensate")
  /\ LET j == job[h] IN
       /\ PruneProjectDomainClaim(j.n)
       /\ IF j.op = "set" /\ j.prev # {} THEN Step(h, "restore") ELSE Done(h)
  /\ UNCHANGED <<incus, cooling, gc>>

\* Both give the claim up; only set-domain puts a replaced one back.
DomainCompensate(h) ==
  /\ At(h, "compensate")
  /\ LET j == job[h] IN
       /\ ReleaseProjectDomainClaim(j.p)
       /\ IF j.op = "set" /\ j.prev # {} THEN Step(h, "restore") ELSE Done(h)
  /\ UNCHANGED <<incus, cooling, gc>>

DomainRestore(h) ==
  /\ At(h, "restore")
  /\ \E row \in job[h].prev :
       \/ restoreProjectDomainClaim(row)
       \/ /\ \/ row.zone \notin zones
             \/ \E c \in claims : c.domain = row.domain \/ c.project = row.project
          /\ UNCHANGED registry
  /\ Done(h)
  /\ UNCHANGED <<incus, cooling, gc>>

-----------------------------------------------------------------------------
(* projectDomainUnset, projectDelete                                       *)

UnsetRelease(h, p) ==
  /\ Ready(h, "unset")
  /\ ReleaseProjectDomainClaim(p)
  /\ Goto(h, [pc |-> "unset", p |-> p])
  /\ UNCHANGED <<incus, cooling, gc>>

\* The claim is gone whatever Incus answers.
UnsetIncus(h) ==
  /\ At(h, "unset")
  /\ \/ job[h].p \in live /\ incusDomain' = [incusDomain EXCEPT ![job[h].p] = NoDomain]
     \/ (job[h].p \notin live \/ "fail" \in Faults) /\ incusDomain' = incusDomain
  /\ Done(h)
  /\ UNCHANGED <<registry, live, instances, creating, cooling, gc>>

DeleteRelease(h, p) ==
  /\ Ready(h, "delete")
  /\ p \notin Undeletable
  /\ ReleaseProjectDomainClaim(p)
  /\ Goto(h, [pc |-> "list", p |-> p])
  /\ UNCHANGED <<incus, cooling, gc>>

DeleteList(h) ==
  /\ At(h, "list")
  /\ Goto(h, [pc |-> "drop", p |-> job[h].p,
              todo |-> {k \in hostnames : ProjectOf[k.machine] = job[h].p}])
  /\ UNCHANGED <<registry, incus, cooling, gc>>

\* One DELETE per listed row, by hostname.
DeleteDrop(h) ==
  /\ At(h, "drop")
  /\ \E k \in job[h].todo :
       /\ ReleaseMachineHostname(k.base, k.wild)
       /\ Goto(h, [job[h] EXCEPT !.todo = @ \ {k}])
  /\ UNCHANGED <<incus, cooling, gc>>

\* The project goes with its machines.
DeleteIncus(h) ==
  /\ At(h, "drop") /\ job[h].todo = {}
  /\ LET p == job[h].p IN
       \/ /\ p \in live
          /\ live' = live \ {p}
          /\ incusDomain' = [incusDomain EXCEPT ![p] = NoDomain]
          /\ instances' = {m \in instances : ProjectOf[m] # p}
       \/ /\ p \notin live \/ "fail" \in Faults
          /\ UNCHANGED <<live, incusDomain, instances>>
  /\ Done(h)
  /\ UNCHANGED <<registry, creating, cooling, gc>>

-----------------------------------------------------------------------------
(* Machine Public Hostnames: machineHostnameAdd, machineHostnameRemove     *)

\* before: `sc create` claims ahead of the instance.
HostBegin(h, m, b, w, z, before) ==
  /\ Ready(h, "host")
  /\ <<b, w>> \notin cooling
  /\ CoveringZone(b, z, zones)
  /\ before => m \notin instances
  /\ Goto(h, [pc |-> "hclaim", m |-> m, b |-> b, w |-> w, z |-> z,
              before |-> before, mine |-> TRUE])
  /\ UNCHANGED <<registry, incus, cooling, gc>>

HostHeld(m, b, w) == \E k \in hostnames : Holds(k, b, w) /\ k.machine = m

\* A name the machine holds already is not an error: the handler goes on.
\* The tunnel check comes first and refuses even that.
HostClaim(h) ==
  /\ At(h, "hclaim")
  /\ LET j == job[h]
         tunnelled == \E t \in tunnels : Holds(t, j.b, j.w) \/ (~j.w /\ AtOrBelow(t.base, j.b))
     IN \/ /\ ClaimMachineHostname(j.m, j.b, j.w, j.z)
           /\ Step(h, "stamp")
        \/ /\ HostHeld(j.m, j.b, j.w) /\ ~tunnelled
           /\ Goto(h, [j EXCEPT !.pc = "stamp", !.mine = FALSE])
           /\ UNCHANGED registry
        \/ /\ \/ tunnelled
              \/ ~HostHeld(j.m, j.b, j.w) /\ (HostnameConflict(j.b, j.w, j.m) \/ j.z \notin zones)
           /\ Done(h)
           /\ UNCHANGED registry
  /\ UNCHANGED <<incus, cooling, gc>>

\* The certificate row and the instance key.
HostStamp(h) ==
  /\ At(h, "stamp")
  /\ LET j == job[h] IN
       \/ /\ j.before \/ j.m \in instances
          /\ creating' = IF j.before THEN creating \cup {j.m} ELSE creating
          /\ Done(h)
       \/ /\ "fail" \in Faults \/ (~j.before /\ j.m \notin instances)
          /\ creating' = creating
          /\ IF j.mine THEN Step(h, "hcheck") ELSE Done(h)
  /\ UNCHANGED <<registry, live, incusDomain, instances, cooling, gc>>

\* ReleaseMachineHostname reads whether the machine holds the name ...
HostReleaseCheck(h) ==
  /\ At(h, "hcheck")
  /\ IF HostHeld(job[h].m, job[h].b, job[h].w) THEN Step(h, "hdrop") ELSE Done(h)
  /\ UNCHANGED <<registry, incus, cooling, gc>>

RemoveCheck(h, m, b, w) ==
  /\ Ready(h, "unhost")
  /\ HostHeld(m, b, w)
  /\ Goto(h, [pc |-> "rdrop", m |-> m, b |-> b, w |-> w])
  /\ UNCHANGED <<registry, incus, cooling, gc>>

\* ... and deletes it by name.
HostDrop(h) ==
  /\ At(h, "hdrop")
  /\ ReleaseMachineHostname(job[h].b, job[h].w)
  /\ Done(h)
  /\ UNCHANGED <<incus, cooling, gc>>

RemoveDrop(h) ==
  /\ At(h, "rdrop")
  /\ ReleaseMachineHostname(job[h].b, job[h].w)
  /\ Step(h, "hold")
  /\ UNCHANGED <<incus, cooling, gc>>

\* HoldMachinePublicationHostname, once the DNS records are deleted.
Hold(h) ==
  /\ At(h, "hold")
  /\ cooling' = cooling \cup {<<job[h].b, job[h].w>>}
  /\ Done(h)
  /\ UNCHANGED <<registry, incus, gc>>

CooldownExpires(b, w) ==
  /\ <<b, w>> \in cooling
  /\ cooling' = cooling \ {<<b, w>>}
  /\ UNCHANGED <<registry, job, incus, gc>>

-----------------------------------------------------------------------------
(* Public Routes and Machine Tunnels                                       *)

\* Publish wants the machine to exist; UpsertRoute: no row yet, not inside a
\* Project Domain ...
RouteBegin(h, m, b, w) ==
  /\ Ready(h, "route")
  /\ m \in instances
  /\ \A r \in routes : ~Holds(r, b, w)
  /\ \A c \in claims : ~AtOrBelow(b, c.domain)
  /\ Goto(h, [pc |-> "rhosts", m |-> m, b |-> b, w |-> w])
  /\ UNCHANGED <<registry, incus, cooling, gc>>

\* ... nor inside a Machine Public Hostname ...
RouteHosts(h) ==
  /\ At(h, "rhosts")
  /\ IF \E k \in hostnames : AtOrBelow(job[h].b, k.base) THEN Done(h) ELSE Step(h, "rinsert")
  /\ UNCHANGED <<registry, incus, cooling, gc>>

\* Mutant: INSERT OR REPLACE takes a published name over.
RouteReplace(h) ==
  /\ At(h, "rinsert")
  /\ LET j == job[h] IN
       routes' = {r \in routes : ~Holds(r, j.b, j.w)}
                   \cup {[base |-> j.b, wild |-> j.w, machine |-> j.m]}
  /\ Done(h)
  /\ UNCHANGED <<zones, claims, hostnames, tunnels, restored, incus, cooling, gc>>

\* ... then the INSERT, which only the primary key can refuse.
RouteInsert(h) ==
  /\ At(h, "rinsert")
  /\ LET j == job[h] IN
       \/ InsertRoute(j.b, j.w, j.m)
       \/ (\E r \in routes : Holds(r, j.b, j.w)) /\ UNCHANGED registry
  /\ Done(h)
  /\ UNCHANGED <<incus, cooling, gc>>

UnrouteCheck(h, m, b, w) ==
  /\ Ready(h, "unroute")
  /\ \E r \in routes : Holds(r, b, w) /\ r.machine = m
  /\ Goto(h, [pc |-> "udrop", b |-> b, w |-> w])
  /\ UNCHANGED <<registry, incus, cooling, gc>>

UnrouteDrop(h) ==
  /\ At(h, "udrop")
  /\ DeleteRoute(job[h].b, job[h].w)
  /\ Done(h)
  /\ UNCHANGED <<incus, cooling, gc>>

\* machineTunnelsAPI wants a zone strictly above the name, to unpublish as well.
TunnelZone(b, w) == \E z \in zones : StrictlyBelow(b, z) \/ (w /\ b = z)

\* No cooldown, no hostname of exactly this name ...
TunnelBegin(h, m, b, w) ==
  /\ Ready(h, "tunnel")
  /\ TunnelZone(b, w)
  /\ <<b, w>> \notin cooling
  /\ \A k \in hostnames : ~Holds(k, b, w)
  /\ Goto(h, [pc |-> "troutes", m |-> m, b |-> b, w |-> w, mine |-> FALSE])
  /\ UNCHANGED <<registry, incus, cooling, gc>>

\* ... no route of exactly this name, no foreign DNS record ...
TunnelRoutes(h) ==
  /\ At(h, "troutes")
  /\ \/ (\A r \in routes : ~Holds(r, job[h].b, job[h].w)) /\ Step(h, "tclaim")
     \/ ((\E r \in routes : Holds(r, job[h].b, job[h].w)) \/ "fail" \in Faults) /\ Done(h)
  /\ UNCHANGED <<registry, incus, cooling, gc>>

\* ... then the row: the same machine's own row is reused.
TunnelClaim(h) ==
  /\ At(h, "tclaim")
  /\ LET j == job[h] IN
       \/ /\ ClaimMachineTunnelPublication(j.b, j.w, j.m)
          /\ Goto(h, [j EXCEPT !.pc = "provision", !.mine = TRUE])
       \/ /\ \E t \in tunnels : Holds(t, j.b, j.w) /\ t.machine = j.m
          /\ Step(h, "provision")
          /\ UNCHANGED registry
       \/ /\ \E t \in tunnels : Holds(t, j.b, j.w) /\ t.machine # j.m
          /\ Done(h)
          /\ UNCHANGED registry
  /\ UNCHANGED <<incus, cooling, gc>>

TunnelProvision(h) ==
  /\ At(h, "provision")
  /\ \/ Done(h)
     \/ "fail" \in Faults /\ IF job[h].mine THEN Step(h, "trelease") ELSE Done(h)
  /\ UNCHANGED <<registry, incus, cooling, gc>>

\* Mutant: the compensation deletes by hostname alone.
TunnelReleaseByName(h) ==
  /\ At(h, "trelease")
  /\ tunnels' = {t \in tunnels : ~Holds(t, job[h].b, job[h].w)}
  /\ Done(h)
  /\ UNCHANGED <<zones, claims, hostnames, routes, restored, incus, cooling, gc>>

TunnelRelease(h) ==
  /\ At(h, "trelease")
  /\ ReleaseMachineTunnelPublication(job[h].b, job[h].w, job[h].m)
  /\ Done(h)
  /\ UNCHANGED <<incus, cooling, gc>>

\* DELETE: the row must be the machine's own; Cloudflare first, then the row.
UntunnelBegin(h, m, b, w) ==
  /\ Ready(h, "untunnel")
  /\ TunnelZone(b, w)
  /\ \E t \in tunnels : Holds(t, b, w) /\ t.machine = m
  /\ Goto(h, [pc |-> "unprovision", m |-> m, b |-> b, w |-> w])
  /\ UNCHANGED <<registry, incus, cooling, gc>>

UntunnelProvider(h) ==
  /\ At(h, "unprovision")
  /\ \/ Step(h, "udel")
     \/ "fail" \in Faults /\ Done(h)
  /\ UNCHANGED <<registry, incus, cooling, gc>>

\* A row that is gone meanwhile is an error and starts no cooldown.
UntunnelRelease(h) ==
  /\ At(h, "udel")
  /\ LET j == job[h] IN
       /\ ReleaseMachineTunnelPublication(j.b, j.w, j.m)
       /\ IF \E t \in tunnels : Holds(t, j.b, j.w) /\ t.machine = j.m
            THEN Step(h, "hold") ELSE Done(h)
  /\ UNCHANGED <<incus, cooling, gc>>

-----------------------------------------------------------------------------
(* Public DNS Zones                                                        *)

\* CheckPublicDNSZoneAddable, then the INSERT.
ZoneBegin(h, z) ==
  /\ Ready(h, "zone")
  /\ \A other \in zones : ~Overlap(z, other)
  /\ Goto(h, [pc |-> "zinsert", z |-> z])
  /\ UNCHANGED <<registry, incus, cooling, gc>>

ZoneInsert(h) ==
  /\ At(h, "zinsert")
  /\ \/ AddPublicDNSZone(job[h].z)
     \/ job[h].z \in zones /\ UNCHANGED registry
  /\ Done(h)
  /\ UNCHANGED <<incus, cooling, gc>>

\* checkPublicDNSZoneRemovable, then the DELETE the foreign keys guard.
UnzoneBegin(h, z) ==
  /\ Ready(h, "unzone")
  /\ z \in zones
  /\ (\A c \in claims : c.zone # z) /\ (\A k \in hostnames : k.zone # z)
  /\ Goto(h, [pc |-> "zdelete", z |-> z])
  /\ UNCHANGED <<registry, incus, cooling, gc>>

ZoneDelete(h) ==
  /\ At(h, "zdelete")
  /\ LET j == job[h] IN
       \/ RemovePublicDNSZone(j.z)
       \/ /\ (\E c \in claims : c.zone = j.z) \/ (\E k \in hostnames : k.zone = j.z)
          /\ UNCHANGED registry
  /\ Done(h)
  /\ UNCHANGED <<incus, cooling, gc>>

-----------------------------------------------------------------------------
(* reconcileProjectDomainClaimsOnce, the slow loop                         *)

\* The tenant listing; an empty one is never trusted and a failed one aborts.
GCListProjects ==
  /\ gc = Idle /\ "gc" \in Requests
  /\ live # {}
  /\ gc' = [pc |-> "claims", seen |-> live]
  /\ UNCHANGED <<registry, job, incus, cooling>>

GCListClaims ==
  /\ gc.pc = "claims"
  /\ gc' = [pc |-> "pruneClaims", seen |-> gc.seen,
            todo |-> {c \in claims : c.project \notin gc.seen}]
  /\ UNCHANGED <<registry, job, incus, cooling>>

\* One DELETE per listed row, by domain.
GCPruneClaim ==
  /\ gc.pc = "pruneClaims"
  /\ \E c \in gc.todo :
       /\ PruneProjectDomainClaim(c.domain)
       /\ gc' = [gc EXCEPT !.todo = @ \ {c}]
  /\ UNCHANGED <<job, incus, cooling>>

\* The machine listing is best effort: without one only the hostnames of
\* vanished projects are stale.
GCListMachines ==
  /\ gc.pc = "pruneClaims" /\ gc.todo = {}
  /\ gc' = [pc |-> "hosts", seen |-> gc.seen, known |-> TRUE, machines |-> instances]
  /\ UNCHANGED <<registry, job, incus, cooling>>

\* A failed machine listing, or a failed release hook, which ends the pass.
GCListMachinesFails ==
  /\ gc.pc = "pruneClaims" /\ gc.todo = {} /\ "fail" \in Faults
  /\ \/ gc' = [pc |-> "hosts", seen |-> gc.seen, known |-> FALSE, machines |-> {}]
     \/ gc' = Idle
  /\ UNCHANGED <<registry, job, incus, cooling>>

\* Mutant: only machines count, not the projects that took them along.
GCListHostsKnownOnly ==
  /\ gc.pc = "hosts"
  /\ gc' = [pc |-> "pruneHosts",
            todo |-> {k \in hostnames : gc.known /\ k.machine \notin gc.machines
                                        /\ ProjectOf[k.machine] \in gc.seen}]
  /\ UNCHANGED <<registry, job, incus, cooling>>

GCListHosts ==
  /\ gc.pc = "hosts"
  /\ gc' = [pc |-> "pruneHosts",
            todo |-> {k \in hostnames :
                        \/ ProjectOf[k.machine] \notin gc.seen
                        \/ gc.known /\ k.machine \notin gc.machines}]
  /\ UNCHANGED <<registry, job, incus, cooling>>

GCPruneHost ==
  /\ gc.pc = "pruneHosts"
  /\ \E k \in gc.todo :
       /\ ReleaseMachineHostname(k.base, k.wild)
       /\ gc' = [gc EXCEPT !.todo = @ \ {k}]
  /\ UNCHANGED <<job, incus, cooling>>

GCDone ==
  /\ gc.pc = "pruneHosts" /\ gc.todo = {}
  /\ gc' = Idle
  /\ UNCHANGED <<registry, job, incus, cooling>>

GC == \/ GCListProjects \/ GCListClaims \/ GCPruneClaim \/ GCListMachines
      \/ GCListMachinesFails \/ GCListHosts \/ GCPruneHost \/ GCDone

-----------------------------------------------------------------------------
(* Incus, changed by the CLI and out of band                               *)

ProjectCreated(p) ==
  /\ "project" \in Requests
  /\ p \notin live
  /\ live' = live \cup {p}
  /\ UNCHANGED <<registry, job, incusDomain, instances, creating, cooling, gc>>

\* `incus project delete` behind the Auth App's back.
ProjectDeleted(p) ==
  /\ "oob" \in Requests
  /\ p \in live
  /\ live' = live \ {p}
  /\ incusDomain' = [incusDomain EXCEPT ![p] = NoDomain]
  /\ instances' = {m \in instances : ProjectOf[m] # p}
  /\ UNCHANGED <<registry, job, creating, cooling, gc>>

InstanceCreated(m) ==
  /\ "machine" \in Requests \/ m \in creating
  /\ m \notin instances /\ ProjectOf[m] \in live
  /\ instances' = instances \cup {m}
  /\ creating' = creating \ {m}
  /\ UNCHANGED <<registry, job, live, incusDomain, cooling, gc>>

CreateGivenUp(m) ==
  /\ m \in creating
  /\ creating' = creating \ {m}
  /\ UNCHANGED <<registry, job, live, incusDomain, instances, cooling, gc>>

InstanceDeleted(m) ==
  /\ "machine" \in Requests
  /\ m \in instances
  /\ instances' = instances \ {m}
  /\ UNCHANGED <<registry, job, live, incusDomain, creating, cooling, gc>>

-----------------------------------------------------------------------------
Begin(h) ==
  \/ \E op \in {"set", "create"}, p \in Projects, n \in DomainNames, z \in Names : DomainBegin(h, op, p, n, z)
  \/ \E p \in Projects : UnsetRelease(h, p) \/ DeleteRelease(h, p)
  \/ \E m \in Machines, b \in HostNames, w \in Wilds :
       \/ \E z \in Names, before \in BOOLEAN : HostBegin(h, m, b, w, z, before)
       \/ RemoveCheck(h, m, b, w)
  \/ \E m \in Machines, b \in RouteNames, w \in Wilds : RouteBegin(h, m, b, w) \/ UnrouteCheck(h, m, b, w)
  \/ \E m \in Machines, b \in TunnelNames, w \in Wilds : TunnelBegin(h, m, b, w) \/ UntunnelBegin(h, m, b, w)
  \/ \E z \in ZoneNames : ZoneBegin(h, z) \/ UnzoneBegin(h, z)

Continue(h) ==
  \/ DomainClaim(h) \/ SetIncus(h) \/ CreateIncus(h) \/ DomainCompensate(h) \/ DomainRestore(h)
  \/ UnsetIncus(h) \/ DeleteList(h) \/ DeleteDrop(h) \/ DeleteIncus(h)
  \/ HostClaim(h) \/ HostStamp(h) \/ HostReleaseCheck(h) \/ HostDrop(h) \/ RemoveDrop(h) \/ Hold(h)
  \/ RouteHosts(h) \/ RouteInsert(h) \/ UnrouteDrop(h)
  \/ TunnelRoutes(h) \/ TunnelClaim(h) \/ TunnelProvision(h) \/ TunnelRelease(h)
  \/ UntunnelProvider(h) \/ UntunnelRelease(h)
  \/ ZoneInsert(h) \/ ZoneDelete(h)

Environment ==
  \/ \E b \in Names, w \in BOOLEAN : CooldownExpires(b, w)
  \/ \E p \in Projects : ProjectCreated(p) \/ ProjectDeleted(p)
  \/ \E m \in Machines : InstanceCreated(m) \/ CreateGivenUp(m) \/ InstanceDeleted(m)

HandlersNext == (\E h \in Handlers : Begin(h) \/ Continue(h)) \/ GC \/ Environment

HandlersSpec == HandlersInit /\ [][HandlersNext]_vars

\* net/http never abandons a handler half way and every call it makes has a
\* deadline; the slow loop's ticker never stops, and a machine listing that
\* can succeed does not fail for ever.
FairHandlersSpec ==
  /\ HandlersSpec
  /\ \A h \in Handlers : WF_vars(Continue(h))
  /\ WF_vars(GC)
  /\ SF_vars(GCListMachines)

-----------------------------------------------------------------------------
(* What holds                                                              *)

\* The job of a handler and the pass of the collector carry the fields their
\* program counters read.
HandlersTypeOK ==
  /\ TypeOK
  /\ job \in [Handlers -> Jobs]
  /\ gc \in Passes
  /\ live \subseteq Projects
  /\ incusDomain \in [Projects -> Names \cup {NoDomain}]
  /\ instances \subseteq Machines /\ creating \subseteq Machines
  /\ cooling \subseteq Names \X BOOLEAN

\* Every handler step is one of the registry's atomic writes or leaves the
\* registry alone, so whatever the registry promises holds of any interleaving
\* of requests: no handler writes past the scan and the keys.
ImplementsRegistry == Spec

ActsFor(j, p) == "p" \in DOMAIN j /\ j.p = p
ActsOn(j, m) == "m" \in DOMAIN j /\ j.m = m

\* A Project Domain leaves a project only by a request for that project or by
\* the garbage collector: the compensation of one request never takes the
\* claim another project made meanwhile (DELETE ... WHERE tenant AND project).
ClaimsMovedByOwner ==
  [][\A c \in claims \ claims' :
       \/ gc' # gc
       \/ \E h \in Handlers :
            job'[h] # job[h] /\ (ActsFor(job[h], c.project) \/ ActsFor(job'[h], c.project))]_vars

\* A machine tunnel's row goes only by a request of the machine it belongs to
\* (ReleaseMachineTunnelPublication matches the whole owner record), whatever
\* was unpublished and published again while Cloudflare was being called.
TunnelsReleasedByOwner ==
  [][\A t \in tunnels \ tunnels' :
       \E h \in Handlers : job'[h] # job[h] /\ ActsOn(job[h], t.machine)]_vars

\* A claim of a live project is also its Incus domain whenever no request is
\* in flight: no sequence of requests, failing Incus calls included, leaves a
\* reservation behind that the project does not carry.
ClaimStamped ==
  (\A h \in Handlers : job[h] = Idle) =>
    \A c \in claims : c.project \in live => incusDomain[c.project] = c.domain

Quiet == live # {} /\ \A h \in Handlers : job[h] = Idle

OrphanClaims == {c \in claims : c.project \notin live}
OrphanHostnames == {k \in hostnames : ProjectOf[k.machine] \notin live \/ k.machine \notin instances}

\* Once requests stop and Incus rests, the slow loop leaves no reservation of a
\* vanished project and no hostname of a vanished machine, whatever interleaving
\* left them (ReconcileProjectDomainClaims, ReconcileMachineHostnames).
OrphansCollected ==
  <>[]Quiet /\ <>[][FALSE]_incus => <>[](OrphanClaims = {} /\ OrphanHostnames = {})

-----------------------------------------------------------------------------
(* What comments and documents say of the program and its interleavings do *)
(* not keep                                                                *)

\* machine_hostnames.go: "the two registries and the Public Route table can
\* never overlap in either direction".
NoOverlap ==
  /\ \A c, e \in claims : Overlap(c.domain, e.domain) => c = e
  /\ \A c \in claims, k \in hostnames :
       Overlap(c.domain, k.base) => StrictlyBelow(k.base, c.domain) /\ ProjectOf[k.machine] = c.project

\* The route half of the same sentence: no route inside a reservation.
NoRouteInsideReservation ==
  \A r \in routes :
    /\ \A c \in claims : ~AtOrBelow(r.base, c.domain)
    /\ \A k \in hostnames : ~AtOrBelow(r.base, k.base)

\* projects_api.go: "the project's DB and Incus state stay aligned".
StayAligned == ClaimStamped

\* project_domain_claims.go: the collector drops claims "whose
\* <tenant>/<project> is not a live app project".
OnlyOrphansPruned ==
  [][\A c \in claims \ claims' : gc' # gc => c.project \notin live]_vars

\* machine-hostnames.md: a beforeCreate claim "is never dropped between the
\* claim and the first pass that sees the Machine".
CreatingKeepsName ==
  [][\A k \in hostnames \ hostnames' : gc' # gc => k.machine \notin creating]_vars

\* machine_publication_cooldowns.go: a "mandatory wait after any Machine
\* publication unpublish".
CooldownRespected ==
  [][\A k \in (hostnames' \ hostnames) \cup (tunnels' \ tunnels) :
       <<k.base, k.wild>> \notin cooling]_vars

\* public_dns_zones.go: a zone "may neither contain nor sit inside a
\* registered zone".
ZonesNotNested == \A y, z \in zones : Overlap(y, z) => y = z

\* machine_hostnames.go: ReleaseMachineHostname "frees hostname if the machine
\* holds it".
HostnamesReleasedByOwner ==
  [][\A k \in hostnames \ hostnames', h \in Handlers :
       job'[h] # job[h] /\ job[h].pc \in {"hdrop", "rdrop"} => job[h].m = k.machine]_vars
=============================================================================
