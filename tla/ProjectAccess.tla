---------------------------- MODULE ProjectAccess ----------------------------
(***************************************************************************)
(* The projects of one tenant and the trust entries that open them.  Incus *)
(* keys a client certificate by fingerprint, one entry per device, and     *)
(* gives a restricted entry a list of projects.  `sc project create` (Auth *)
(* App or broker) scaffolds the project and then extends the caller's      *)
(* entry and the tenant's other devices; a login scopes its device to the  *)
(* projects it listed; `sc project delete` checks that the project is      *)
(* empty and lets the server take it down with whatever is in it.          *)
(*                                                                         *)
(* UpdateCertificate is sent without an ETag: every extension is a list,   *)
(* a merge in the program and an unconditional write of the whole entry.   *)
(***************************************************************************)
EXTENDS Naturals, FiniteSets

CONSTANTS
  Devices,
  Projs,           \* the tenant's app projects
  HomeProj,        \* the one the first login made
  DefaultNamed,    \* subset of BOOLEAN: HomeProj is called "default"
  Foreign,         \* a project of another tenant on the same daemon
  Prefixed,        \* the install has a prefix, which its entry names carry
  AccessRequests,  \* requests running at the same time
  AccessOps,       \* subset of {"create", "broker", "login", "delete", "rm", "remove"}
  AccessFaults,    \* subset of {"scaffold", "grant", "delete"}
  NoDevice

ASSUME AccessAssumption ==
  /\ HomeProj \in Projs /\ Foreign \notin Projs
  /\ Prefixed \in BOOLEAN /\ DefaultNamed \subseteq BOOLEAN
  /\ NoDevice \notin Devices

VARIABLES
  existing,    \* the tenant's Incus projects
  contents,    \* the machines in each: "none" or "some"
  entries,     \* the trust entries by fingerprint
  recorded,    \* the client certificate of the user's newest login
  announced,   \* the projects whose create was answered with success
  literal,     \* HomeProj is called "default"
  access       \* requests in progress

accessVars == <<existing, contents, entries, recorded, announced, literal, access>>

CertNames == {"plain", "prefixed", "other"}
OwnName == IF Prefixed THEN "prefixed" ELSE "plain"
Untrusted == [name |-> "none", projects |-> {}]
Entries == [name : CertNames, projects : SUBSET (Projs \cup {Foreign})] \cup {Untrusted}
Rest == [pc |-> "rest"]

AccessJobs ==
  {Rest} \cup
  [pc : {"ensure", "scaffold", "caller", "fleetlist", "fleet", "byname"}, op : {"create", "broker"},
   proj : Projs, seen : [Devices -> Entries], left : SUBSET Devices] \cup
  [pc : {"entry", "write", "token"}, op : {"login"}, device : Devices, scope : SUBSET Projs,
   seen : [Devices -> Entries]] \cup
  [pc : {"machines", "check", "instances", "project"}, op : {"delete", "rm"}, proj : Projs]

AccessTypeOK ==
  /\ existing \subseteq Projs
  /\ contents \in [Projs -> {"none", "some"}]
  /\ entries \in [Devices -> Entries]
  /\ recorded \in Devices \cup {NoDevice}
  /\ announced \subseteq Projs
  /\ literal \in BOOLEAN
  /\ access \in [AccessRequests -> AccessJobs]

\* After the first login of one device.  The others are new, are a keypair of
\* a torn-down tenant (same name, no projects), or are trusted for another
\* tenant first and so bear its name.
AccessInit ==
  /\ existing = {HomeProj}
  /\ contents = [p \in Projs |-> "none"]
  /\ \E first \in Devices :
       /\ recorded = first
       /\ entries \in [Devices -> {Untrusted, [name |-> OwnName, projects |-> {}],
                                   [name |-> "other", projects |-> {Foreign}],
                                   [name |-> OwnName, projects |-> {HomeProj}]}]
       /\ \A d \in Devices : entries[d].projects = {HomeProj} <=> d = first
  /\ announced = {HomeProj}
  /\ literal \in DefaultNamed
  /\ access = [q \in AccessRequests |-> Rest]

world == <<existing, contents, entries, recorded, announced, literal>>
Go(q, pc) == access' = [access EXCEPT ![q].pc = pc]
Leave(q) == access' = [access EXCEPT ![q] = Rest]
At(q, pc) == access[q].pc = pc

-----------------------------------------------------------------------------
(* Writing one trust entry                                                 *)

\* Mutant: the entry is written with the plan's projects alone.
MergeReplacing(held, added) == added

MergeProjects(held, added) == held \cup added

\* extendCertificateProjects, EnsureClientCertificate: the entry as it was
\* listed, and the plan's projects.  Incus refuses a list that names a project
\* it does not have, and an entry that is gone.
Writable(d, listed, added) ==
  entries[d] # Untrusted /\ MergeProjects(listed.projects, added) \cap Projs \subseteq existing
Extend(d, listed, added) ==
  /\ Writable(d, listed, added)
  /\ entries' = [entries EXCEPT ![d].projects = MergeProjects(listed.projects, added)]

-----------------------------------------------------------------------------
(* Project create                                                          *)

\* ResolvePrincipal: the broker serves the tenant that the certificate's name
\* spells, and an install's prefix is part of that spelling.
BrokerKnows == recorded # NoDevice /\ entries[recorded].name = "plain" /\ ~Prefixed

\* The Auth App serves the bearer token's tenant.
BeginCreate(q, p, op) ==
  /\ access[q] = Rest /\ op \in AccessOps
  /\ op = "broker" => BrokerKnows
  /\ access' = [access EXCEPT ![q] = [pc |-> "ensure", op |-> op, proj |-> p,
                                      seen |-> entries, left |-> {}]]
  /\ UNCHANGED world

EnsureProject(q) ==
  /\ At(q, "ensure")
  /\ existing' = existing \cup {access[q].proj}
  /\ Go(q, "scaffold")
  /\ UNCHANGED <<contents, entries, recorded, announced, literal>>

\* Volumes, payload and profiles, then the list of entries: the caller's is
\* found by the fingerprint the login recorded; else the name is all there is.
Scaffold(q) ==
  /\ At(q, "scaffold")
  /\ access' = [access EXCEPT
       ![q].seen = entries,
       ![q].pc = IF recorded # NoDevice /\ entries[recorded] # Untrusted THEN "caller" ELSE "byname",
       ![q].left = {d \in Devices : entries[d].name = OwnName /\ entries[d].projects # {}}]
  /\ UNCHANGED world

\* EnsureClientCertificate for the caller, then GrantTenantFleet's own list.
ExtendCaller(q) ==
  /\ At(q, "caller")
  /\ Extend(recorded, access[q].seen[recorded], {access[q].proj})
  /\ Go(q, "fleetlist")
  /\ UNCHANGED <<existing, contents, recorded, announced, literal>>

\* Entries of the tenant's name that hold a project of its namespace.
InFleet(e) == e.name = OwnName /\ e.projects \cap Projs # {}

ListFleet(q) ==
  /\ At(q, "fleetlist")
  /\ access' = [access EXCEPT ![q].pc = "fleet", ![q].seen = entries,
                              ![q].left = {d \in Devices : InFleet(entries[d])}]
  /\ UNCHANGED world

\* One entry of the fleet, or of Grant's entries by name, in no given order.
ExtendNext(q) ==
  /\ access[q].pc \in {"fleet", "byname"}
  /\ \E d \in access[q].left :
       /\ Extend(d, access[q].seen[d], {access[q].proj})
       /\ access' = [access EXCEPT ![q].left = @ \ {d}]
  /\ UNCHANGED <<existing, contents, recorded, announced, literal>>

\* Grant answers an error when it found no entry worth extending.
CreateEnds(q) ==
  /\ access[q].pc \in {"fleet", "byname"} /\ access[q].left = {}
  /\ announced' = IF At(q, "byname") /\ \A d \in Devices : ~(access[q].seen[d].name = OwnName
                                                            /\ access[q].seen[d].projects # {})
                  THEN announced ELSE announced \cup {access[q].proj}
  /\ Leave(q)
  /\ UNCHANGED <<existing, contents, entries, recorded, literal>>

\* A call fails, or the write names what is gone: the create ends with an
\* error and nothing is taken back.
CreateFails(q) ==
  /\ \/ At(q, "scaffold") /\ "scaffold" \in AccessFaults
     \/ At(q, "scaffold") /\ access[q].proj \notin existing
     \/ access[q].pc \in {"caller", "fleetlist", "fleet", "byname"} /\ "grant" \in AccessFaults
     \/ /\ access[q].pc = "caller"
        /\ ~Writable(recorded, access[q].seen[recorded], {access[q].proj})
     \/ /\ access[q].pc \in {"fleet", "byname"}
        /\ \E d \in access[q].left : ~Writable(d, access[q].seen[d], {access[q].proj})
  /\ Leave(q)
  /\ UNCHANGED world

-----------------------------------------------------------------------------
(* Login: the scope is what the plan listed                                *)

RestrictedProjects(listed) == listed

BeginLogin(q, d) ==
  /\ access[q] = Rest /\ "login" \in AccessOps
  /\ access' = [access EXCEPT ![q] = [pc |-> "entry", op |-> "login", device |-> d,
                                      scope |-> RestrictedProjects(existing), seen |-> entries]]
  /\ UNCHANGED world

\* EnsureClientCertificate: a trusted device is extended, a new one enrols
\* with the token minted for the plan.
LoginLists(q) ==
  /\ At(q, "entry")
  /\ access' = [access EXCEPT ![q].seen = entries,
                 ![q].pc = IF entries[access[q].device] = Untrusted THEN "token" ELSE "write"]
  /\ UNCHANGED world

LoginEnds(q) ==
  /\ access[q].pc \in {"write", "token"}
  /\ LET d == access[q].device IN
       /\ \/ At(q, "write") /\ Extend(d, access[q].seen[d], access[q].scope)
          \/ /\ At(q, "token") /\ access[q].scope \subseteq existing
             /\ entries' = [entries EXCEPT ![d] =
                  IF @ = Untrusted THEN [name |-> OwnName, projects |-> access[q].scope] ELSE @]
       /\ recorded' = d
  /\ Leave(q)
  /\ UNCHANGED <<existing, contents, announced, literal>>

LoginFails(q) ==
  /\ access[q].pc \in {"write", "token"}
  /\ \/ "grant" \in AccessFaults
     \/ ~(access[q].scope \subseteq existing)
     \/ At(q, "write") /\ ~Writable(access[q].device, access[q].seen[access[q].device], access[q].scope)
  /\ Leave(q)
  /\ UNCHANGED world

-----------------------------------------------------------------------------
(* Project delete, `sc rm -r`, user removal                                *)

\* The client lists the machines; rm -r deletes them first, each confirmed.
BeginDelete(q, p, op) ==
  /\ access[q] = Rest /\ op \in AccessOps /\ p \in existing
  /\ access' = [access EXCEPT ![q] = [pc |-> IF op = "rm" THEN "machines" ELSE "check",
                                      op |-> op, proj |-> p]]
  /\ UNCHANGED world

RemoveMachines(q) ==
  /\ At(q, "machines")
  /\ contents' = [contents EXCEPT ![access[q].proj] = "none"]
  /\ Go(q, "check")
  /\ UNCHANGED <<existing, entries, recorded, announced, literal>>

\* PlanDeleteProject: only the name "default" is protected.
MayDelete(p) == p \in existing /\ ~(p = HomeProj /\ literal) /\ contents[p] = "none"

CheckDelete(q) ==
  /\ At(q, "check")
  /\ \/ MayDelete(access[q].proj) /\ Go(q, "instances")
     \/ ~MayDelete(access[q].proj) /\ Leave(q)
  /\ UNCHANGED world

\* deleteV2AppProject takes the instances it lists and the volumes ...
DeleteInstances(q) ==
  /\ At(q, "instances")
  /\ \/ /\ contents' = [contents EXCEPT ![access[q].proj] = "none"]
        /\ Go(q, "project")
     \/ "delete" \in AccessFaults /\ Leave(q) /\ UNCHANGED contents
  /\ UNCHANGED <<existing, entries, recorded, announced, literal>>

\* ... then the project, which Incus also drops from every entry.
DeleteProject(q) ==
  /\ At(q, "project")
  /\ LET p == access[q].proj IN
       \/ /\ contents[p] = "none"
          /\ existing' = existing \ {p}
          /\ announced' = announced \ {p}
          /\ entries' = [d \in Devices |-> [entries[d] EXCEPT !.projects = @ \ {p}]]
       \/ /\ contents[p] = "some" \/ "delete" \in AccessFaults
          /\ UNCHANGED <<existing, announced, entries>>
  /\ Leave(q)
  /\ UNCHANGED <<contents, recorded, literal>>

\* Removing the user deletes every entry of the unprefixed name.
RemoveUser ==
  /\ "remove" \in AccessOps
  /\ \E d \in Devices : entries[d].name = "plain"
  /\ entries' = [d \in Devices |-> IF entries[d].name = "plain" THEN Untrusted ELSE entries[d]]
  /\ UNCHANGED <<existing, contents, recorded, announced, literal, access>>

FillProject(p) ==
  /\ p \in existing /\ contents[p] = "none"
  /\ contents' = [contents EXCEPT ![p] = "some"]
  /\ UNCHANGED <<existing, entries, recorded, announced, literal, access>>

AccessNext ==
  \/ \E q \in AccessRequests :
       \/ \E p \in Projs : \/ \E op \in {"create", "broker"} : BeginCreate(q, p, op)
                           \/ \E op \in {"delete", "rm"} : BeginDelete(q, p, op)
       \/ EnsureProject(q) \/ Scaffold(q) \/ ExtendCaller(q) \/ ListFleet(q)
       \/ ExtendNext(q) \/ CreateEnds(q) \/ CreateFails(q)
       \/ \E d \in Devices : BeginLogin(q, d)
       \/ LoginLists(q) \/ LoginEnds(q) \/ LoginFails(q)
       \/ RemoveMachines(q) \/ CheckDelete(q) \/ DeleteInstances(q) \/ DeleteProject(q)
  \/ RemoveUser
  \/ \E p \in Projs : FillProject(p)

AccessSpec == AccessInit /\ [][AccessNext]_accessVars

-----------------------------------------------------------------------------
(* Properties                                                              *)

AtRest == \A q \in AccessRequests : access[q] = Rest

LiveDevice(d) == entries[d].name = OwnName /\ entries[d].projects \cap Projs # {}

\* At rest every live device of the tenant opens every project whose create
\* was answered with success, whichever device created it (GrantTenantFleet,
\* restrictedProjects).  One request at a time.
FleetHoldsAll ==
  AtRest => \A d \in Devices : LiveDevice(d) => announced \subseteq entries[d].projects

\* A request never takes a project from a trust entry: an entry loses one
\* only with the project or with the whole entry.
GrantsKept ==
  [][\A d \in Devices : entries'[d] # Untrusted =>
       entries[d].projects \cap (existing' \cup {Foreign}) \subseteq entries'[d].projects]_accessVars

\* A dead keypair is not re-armed because a name recurs (#115): an entry of
\* the tenant's name without projects gains one only when it is the device
\* the user logged in with.
DeadStayDead ==
  [][\A d \in Devices :
       entries[d].name = OwnName /\ entries[d].projects = {} /\ entries'[d].projects # {}
       => recorded = d \/ recorded' = d]_accessVars

\* `sc project delete` deletes an empty project: it never destroys a machine.
DeleteSparesMachines ==
  [][\A p \in Projs : contents[p] = "some" /\ contents'[p] = "none" =>
       \E q \in AccessRequests : access[q].pc = "machines" /\ access[q].proj = p]_accessVars

\* The project the first login made is never deleted, whatever its name
\* ("default project cannot be deleted").
HomeProjectStays == HomeProj \in existing

\* Who may open a project: every live device of the tenant, nobody who was
\* removed, and no request takes away what another gave or fills.
AccessSound ==
  /\ []FleetHoldsAll
  /\ GrantsKept
  /\ DeadStayDead
  /\ DeleteSparesMachines
=============================================================================
