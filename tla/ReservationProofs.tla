-------------------------- MODULE ReservationProofs --------------------------
(***************************************************************************)
(* TLAPS proofs about the name registry and its handlers, for every tree   *)
(* of names, every set of projects and machines and any number of rows.    *)
(*                                                                         *)
(* The registry: Inv is inductive: the three disjointness properties each  *)
(* need the types of the rows only, but HostnamesOutsideForeignDomains is  *)
(* kept by two transactions that read each other's table, and the claim    *)
(* half relies on OneDomainPerProject when it replaces the project's own   *)
(* row.                                                                    *)
(*                                                                         *)
(* The handlers, second part, implement the registry: every step of every  *)
(* request, of the collector and of Incus is a write of the registry or    *)
(* leaves its tables alone, for any number of concurrent requests.  The    *)
(* inductive invariant adds to Inv the types of the jobs: a handler writes *)
(* rows it remembered from an earlier step, so a step is a registry write  *)
(* only because what it remembers are names, machines and rows.  The same  *)
(* invariant shows that a row goes only by a request of its owner;         *)
(* StampInv adds to it what a request relies on between its claim and the  *)
(* answer of Incus.                                                        *)
(***************************************************************************)
EXTENDS ReservationHandlers, TLAPS

Inv ==
  /\ TypeOK
  /\ ZonesReferenced
  /\ OneDomainPerProject
  /\ ClaimsDisjoint
  /\ HostnamesDisjoint
  /\ HostnamesOutsideForeignDomains

\* Overlap does not depend on the order of its arguments, so one scan from
\* either side is a scan from both.
LEMMA OverlapSymmetric ==
  ASSUME NEW x, NEW y
  PROVE  Overlap(x, y) <=> Overlap(y, x)
BY DEF Overlap, AtOrBelow

\* The empty registry satisfies the invariant.
LEMMA InitInv == Init => Inv
BY DEF Init, Inv, TypeOK, ZonesReferenced, OneDomainPerProject, ClaimsDisjoint,
       HostnamesDisjoint, HostnamesOutsideForeignDomains

\* Replacing a project's domain under the write lock keeps the invariant.
LEMMA ClaimProjectDomainInv ==
  ASSUME Inv, NEW p \in Projects, NEW d \in Names, NEW z \in Names,
         ClaimProjectDomain(p, d, z)
  PROVE  Inv'
<1> DEFINE row == [domain |-> d, project |-> p, zone |-> z]
<1>1. /\ row \in ClaimRows
      /\ row.domain = d /\ row.project = p /\ row.zone = z
  BY DEF ClaimRows
<1> HIDE DEF row
<1>2. /\ claims' = (claims \ ClaimOf(p)) \cup {row}
      /\ restored' = restored \ ClaimOf(p)
      /\ UNCHANGED <<zones, hostnames, routes, tunnels>>
      /\ z \in zones /\ StrictlyBelow(d, z) /\ ~DomainConflict(d, p)
  BY DEF ClaimProjectDomain, row
<1>3. \A c \in claims' : c = row \/ (c \in claims /\ c.project # p)
  BY <1>2 DEF ClaimOf
<1>4. \A c \in claims' : c # row => ~Overlap(c.domain, d) /\ ~Overlap(d, c.domain)
  BY <1>2, <1>3, OverlapSymmetric DEF DomainConflict
<1>5. TypeOK'
  BY <1>1, <1>2 DEF Inv, TypeOK
<1>6. ZonesReferenced'
  BY <1>1, <1>2, <1>3 DEF Inv, ZonesReferenced, StrictlyBelow, AtOrBelow
<1>7. OneDomainPerProject'
  <2>1. \A c \in claims' : c # row => c.domain # d
    BY <1>4 DEF Overlap, AtOrBelow
  <2> QED BY <1>1, <1>3, <2>1 DEF Inv, OneDomainPerProject
<1>8. ClaimsDisjoint'
  <2> SUFFICES ASSUME NEW c \in claims', NEW e \in claims', Overlap(c.domain, e.domain)
               PROVE  c = e \/ c \in restored' \/ e \in restored'
    BY DEF ClaimsDisjoint, Overlap, AtOrBelow, StrictlyBelow
  <2>1. CASE c = row \/ e = row
    BY <1>1, <1>4, <2>1
  <2>2. CASE c # row /\ e # row
    BY <1>2, <1>3, <2>2 DEF Inv, ClaimsDisjoint, ClaimOf
  <2> QED BY <2>1, <2>2
<1>9. HostnamesDisjoint'
  BY <1>2 DEF Inv, HostnamesDisjoint, Overlap, AtOrBelow, StrictlyBelow
<1>10. HostnamesOutsideForeignDomains'
  <2> SUFFICES ASSUME NEW c \in claims', NEW h \in hostnames', Overlap(c.domain, h.base)
               PROVE  c \in restored' \/ (StrictlyBelow(h.base, c.domain) /\ ProjectOf[h.machine] = c.project)
    BY DEF HostnamesOutsideForeignDomains, Overlap, AtOrBelow, StrictlyBelow
  <2>1. c # row
    BY <1>1, <1>2, OverlapSymmetric DEF DomainConflict
  <2> QED BY <1>2, <1>3, <2>1 DEF Inv, HostnamesOutsideForeignDomains, ClaimOf
<1> QED BY <1>5, <1>6, <1>7, <1>8, <1>9, <1>10 DEF Inv

\* Deleting claim rows, whichever they are, keeps the invariant.
LEMMA DropClaimsInv ==
  ASSUME Inv, NEW gone,
         claims' = claims \ gone, restored' = restored \ gone,
         UNCHANGED <<zones, hostnames, routes, tunnels>>
  PROVE  Inv'
BY DEF Inv, TypeOK, ZonesReferenced, OneDomainPerProject, ClaimsDisjoint, HostnamesDisjoint,
       HostnamesOutsideForeignDomains, Overlap, AtOrBelow, StrictlyBelow

\* Putting back a replaced claim keeps the invariant, which says nothing of
\* the overlaps of a restored row.
LEMMA RestoreInv ==
  ASSUME Inv, NEW row \in ClaimRows, restoreProjectDomainClaim(row)
  PROVE  Inv'
<1>1. TypeOK' /\ ZonesReferenced' /\ OneDomainPerProject'
  BY DEF Inv, TypeOK, ZonesReferenced, OneDomainPerProject, restoreProjectDomainClaim,
         StrictlyBelow, AtOrBelow
<1>2. ClaimsDisjoint' /\ HostnamesDisjoint' /\ HostnamesOutsideForeignDomains'
  BY DEF Inv, ClaimsDisjoint, HostnamesDisjoint, HostnamesOutsideForeignDomains,
         restoreProjectDomainClaim, Overlap, AtOrBelow, StrictlyBelow
<1> QED BY <1>1, <1>2 DEF Inv

\* The hostname transaction keeps the invariant.
LEMMA ClaimMachineHostnameInv ==
  ASSUME Inv, NEW m \in Machines, NEW b \in Names, NEW z \in Names, NEW w \in BOOLEAN,
         ClaimMachineHostname(m, b, w, z)
  PROVE  Inv'
<1> DEFINE row == [base |-> b, wild |-> w, machine |-> m, zone |-> z]
<1>1. /\ row \in HostnameRows
      /\ row.base = b /\ row.wild = w /\ row.machine = m /\ row.zone = z
  BY DEF HostnameRows
<1> HIDE DEF row
<1>2. /\ hostnames' = hostnames \cup {row}
      /\ UNCHANGED <<zones, claims, routes, tunnels, restored>>
      /\ z \in zones /\ AtOrBelow(b, z) /\ ~HostnameConflict(b, w, m)
  BY DEF ClaimMachineHostname, row
<1>3. TypeOK' /\ ZonesReferenced' /\ OneDomainPerProject'
  BY <1>1, <1>2 DEF Inv, TypeOK, ZonesReferenced, OneDomainPerProject, StrictlyBelow, AtOrBelow
<1>4. ClaimsDisjoint'
  BY <1>2 DEF Inv, ClaimsDisjoint, Overlap, AtOrBelow, StrictlyBelow
<1>5. HostnamesDisjoint'
  <2> SUFFICES ASSUME NEW h \in hostnames', NEW k \in hostnames', Overlap(h.base, k.base)
               PROVE  h = k \/ (h.machine = k.machine /\ h.base # k.base /\ (h.wild \/ k.wild))
    BY DEF HostnamesDisjoint, Overlap, AtOrBelow, StrictlyBelow
  <2>1. \A x \in hostnames : Overlap(x.base, b) => x.machine = m /\ x.base # b /\ (w \/ x.wild)
    BY <1>2 DEF HostnameConflict, MayCoexist
  <2>2. CASE h \in hostnames /\ k \in hostnames
    BY <2>2 DEF Inv, HostnamesDisjoint
  <2>3. CASE h \in hostnames /\ k = row
    BY <1>1, <2>1, <2>3
  <2>4. CASE h = row /\ k \in hostnames
    BY <1>1, <2>1, <2>4, OverlapSymmetric
  <2> QED BY <1>2, <2>2, <2>3, <2>4
<1>6. HostnamesOutsideForeignDomains'
  <2> SUFFICES ASSUME NEW c \in claims', NEW h \in hostnames', Overlap(c.domain, h.base)
               PROVE  c \in restored' \/ (StrictlyBelow(h.base, c.domain) /\ ProjectOf[h.machine] = c.project)
    BY DEF HostnamesOutsideForeignDomains, Overlap, AtOrBelow, StrictlyBelow
  <2>1. CASE h \in hostnames
    BY <1>2, <2>1 DEF Inv, HostnamesOutsideForeignDomains
  <2>2. CASE h = row
    BY <1>1, <1>2, <2>2 DEF HostnameConflict, OwnCover
  <2> QED BY <1>2, <2>1, <2>2
<1> QED BY <1>3, <1>4, <1>5, <1>6 DEF Inv

\* Writes that leave claims and restored alone and only take hostnames away
\* or change the tables no invariant reads, keep the invariant as long as the
\* zones still referenced stay.
LEMMA QuietWriteInv ==
  ASSUME Inv, claims' = claims, restored' = restored, hostnames' \subseteq hostnames,
         zones' \subseteq Names, routes' \subseteq RouteRows, tunnels' \subseteq TunnelRows,
         \A c \in claims : c.zone \in zones => c.zone \in zones',
         \A h \in hostnames' : h.zone \in zones => h.zone \in zones'
  PROVE  Inv'
<1>1. TypeOK' /\ ZonesReferenced' /\ OneDomainPerProject'
  BY DEF Inv, TypeOK, ZonesReferenced, OneDomainPerProject, StrictlyBelow, AtOrBelow
<1>2. ClaimsDisjoint' /\ HostnamesDisjoint' /\ HostnamesOutsideForeignDomains'
  BY DEF Inv, ClaimsDisjoint, HostnamesDisjoint, HostnamesOutsideForeignDomains,
         Overlap, AtOrBelow, StrictlyBelow
<1> QED BY <1>1, <1>2 DEF Inv

\* Every write of the database keeps the invariant.
LEMMA NextInv == Inv /\ [Next]_registry => Inv'
<1> SUFFICES ASSUME Inv, [Next]_registry PROVE Inv'
  OBVIOUS
<1> USE DEF Inv
<1>1. ASSUME NEW p \in Projects, NEW d \in Names, NEW z \in Names, ClaimProjectDomain(p, d, z)
      PROVE  Inv'
  BY <1>1, ClaimProjectDomainInv
<1>2. ASSUME NEW p \in Projects, ReleaseProjectDomainClaim(p) PROVE Inv'
  BY <1>2, DropClaimsInv DEF ReleaseProjectDomainClaim
<1>3. ASSUME NEW d \in Names, PruneProjectDomainClaim(d) PROVE Inv'
  <2> DEFINE gone == {c \in claims : c.domain = d}
  <2>1. claims' = claims \ gone /\ restored' = restored \ gone
    BY <1>3 DEF PruneProjectDomainClaim, TypeOK
  <2> QED BY <1>3, <2>1, DropClaimsInv DEF PruneProjectDomainClaim
<1>4. ASSUME NEW row \in ClaimRows, restoreProjectDomainClaim(row) PROVE Inv'
  BY <1>4, RestoreInv
<1>5. ASSUME NEW m \in Machines, NEW b \in Names, NEW z \in Names, NEW w \in BOOLEAN,
             ClaimMachineHostname(m, b, w, z)
      PROVE  Inv'
  BY <1>5, ClaimMachineHostnameInv
<1>6. ASSUME NEW b \in Names, NEW w \in BOOLEAN, ReleaseMachineHostname(b, w) PROVE Inv'
  BY <1>6, QuietWriteInv DEF ReleaseMachineHostname, TypeOK
<1>7. ASSUME NEW b \in Names, NEW w \in BOOLEAN, NEW m \in Machines, InsertRoute(b, w, m) PROVE Inv'
  BY <1>7, QuietWriteInv DEF InsertRoute, TypeOK, RouteRows
<1>8. ASSUME NEW b \in Names, NEW w \in BOOLEAN, DeleteRoute(b, w) PROVE Inv'
  BY <1>8, QuietWriteInv DEF DeleteRoute, TypeOK
<1>9. ASSUME NEW b \in Names, NEW w \in BOOLEAN, NEW m \in Machines,
              ClaimMachineTunnelPublication(b, w, m)
       PROVE  Inv'
  BY <1>9, QuietWriteInv DEF ClaimMachineTunnelPublication, TypeOK, TunnelRows
<1>10. ASSUME NEW b \in Names, NEW w \in BOOLEAN, NEW m \in Machines,
              ReleaseMachineTunnelPublication(b, w, m)
       PROVE  Inv'
  BY <1>10, QuietWriteInv DEF ReleaseMachineTunnelPublication, TypeOK
<1>11. ASSUME NEW z \in Names, AddPublicDNSZone(z) PROVE Inv'
  BY <1>11, QuietWriteInv DEF AddPublicDNSZone, TypeOK
<1>12. ASSUME NEW z \in Names, RemovePublicDNSZone(z) PROVE Inv'
  BY <1>12, QuietWriteInv DEF RemovePublicDNSZone, TypeOK
<1>13. CASE UNCHANGED registry
  BY <1>13, QuietWriteInv DEF registry, TypeOK
<1> QED
  BY <1>1, <1>2, <1>3, <1>4, <1>5, <1>6, <1>7, <1>8, <1>9, <1>10, <1>11, <1>12, <1>13 DEF Next

\* The invariant holds in every reachable state of the registry.
THEOREM RegistryInvariant == Spec => []Inv
BY InitInv, NextInv, PTL DEF Spec

\* The tables keep their types.
THEOREM RegistryTyped == Spec => []TypeOK
BY RegistryInvariant, PTL DEF Inv

\* Domains and hostnames of different holders stay disjoint, a project holds
\* one domain, and no reservation outlives its zone, restored rows apart: for
\* any names, projects and machines, in any order of the writes.
THEOREM ReservationsExclusive == Spec => []NamesDisjoint
<1>1. Inv => NamesDisjoint
  BY DEF Inv, NamesDisjoint
<1> QED BY <1>1, RegistryInvariant, PTL

\* Two domains above one name overlap, because the ancestors of a name form a
\* chain; so disjoint domains derive disjoint names.
LEMMA CommonNameOverlap ==
  ASSUME NEW n \in Names, NEW d1 \in Names, NEW d2 \in Names,
         StrictlyBelow(n, d1), StrictlyBelow(n, d2)
  PROVE  Overlap(d1, d2)
BY BelowAssumption DEF StrictlyBelow, Overlap, AtOrBelow

ByDomain(m, n) == \E c \in claims : c.project = ProjectOf[m] /\ StrictlyBelow(n, c.domain)
ByHost(m, n) == \E h \in hostnames : h.machine = m /\ h.base = n

\* A public name of a machine is below its project's domain, or claimed.
LEMMA PublicNameSource ==
  ASSUME Inv, NEW m \in Machines, NEW x \in PublicHostnamesOfMachine(m)
  PROVE  \E n \in Names : x[1] = n /\ (ByDomain(m, n) \/ ByHost(m, n))
<1>1. CASE \E n \in Names : x = <<n, FALSE>> /\
             \E c \in claims : c.project = ProjectOf[m] /\ <<m, c.domain, n>> \in Derived
  <2>1. PICK n \in Names : x = <<n, FALSE>> /\
             \E c \in claims : c.project = ProjectOf[m] /\ <<m, c.domain, n>> \in Derived
    BY <1>1
  <2>2. PICK c \in claims : c.project = ProjectOf[m] /\ <<m, c.domain, n>> \in Derived
    BY <2>1
  <2>3. c.domain \in Names
    BY DEF Inv, TypeOK, ClaimRows
  <2>4. StrictlyBelow(n, c.domain)
    BY <2>2, <2>3, OwnerAssumption DEF StrictlyBelow
  <2> QED BY <2>1, <2>2, <2>4 DEF ByDomain
<1>2. CASE \E h \in hostnames : h.machine = m /\ x = <<h.base, h.wild>>
  BY <1>2 DEF ByHost, Inv, TypeOK, HostnameRows
<1> QED BY <1>1, <1>2 DEF PublicHostnamesOfMachine

\* The disjointness invariants together leave every public name, derived or
\* explicit, to one project.
LEMMA InvServedByOneProject == Inv => ServedByOneProject
<1> SUFFICES ASSUME Inv, restored = {}, NEW m1 \in Machines, NEW m2 \in Machines,
                    NEW x, x \in PublicHostnamesOfMachine(m1), x \in PublicHostnamesOfMachine(m2)
             PROVE  ProjectOf[m1] = ProjectOf[m2]
  BY DEF ServedByOneProject
<1>1. PICK n1 \in Names : x[1] = n1 /\ (ByDomain(m1, n1) \/ ByHost(m1, n1))
  BY PublicNameSource
<1>2. PICK n2 \in Names : x[1] = n2 /\ (ByDomain(m2, n2) \/ ByHost(m2, n2))
  BY PublicNameSource
<1>3. n1 = n2
  BY <1>1, <1>2
<1>4. CASE ByDomain(m1, n1) /\ ByDomain(m2, n2)
  <2>1. PICK c \in claims : c.project = ProjectOf[m1] /\ StrictlyBelow(n1, c.domain)
    BY <1>4 DEF ByDomain
  <2>2. PICK e \in claims : e.project = ProjectOf[m2] /\ StrictlyBelow(n1, e.domain)
    BY <1>3, <1>4 DEF ByDomain
  <2>3. Overlap(c.domain, e.domain)
    BY <2>1, <2>2, CommonNameOverlap DEF Inv, TypeOK, ClaimRows
  <2> QED BY <2>1, <2>2, <2>3 DEF Inv, ClaimsDisjoint
<1>5. CASE ByDomain(m1, n1) /\ ByHost(m2, n2)
  BY <1>3, <1>5 DEF ByDomain, ByHost, Inv, HostnamesOutsideForeignDomains, Overlap
<1>6. CASE ByHost(m1, n1) /\ ByDomain(m2, n2)
  BY <1>3, <1>6 DEF ByDomain, ByHost, Inv, HostnamesOutsideForeignDomains, Overlap
<1>7. CASE ByHost(m1, n1) /\ ByHost(m2, n2)
  BY <1>3, <1>7 DEF ByHost, Inv, HostnamesDisjoint, Overlap, AtOrBelow
<1> QED BY <1>1, <1>2, <1>4, <1>5, <1>6, <1>7

\* No public name is served by machines of two projects while no claim row is
\* a restored one.
THEOREM NamesServedByOneProject == Spec => []ServedByOneProject
BY RegistryInvariant, InvServedByOneProject, PTL

-----------------------------------------------------------------------------
(***************************************************************************)
(* The handlers implement the registry: every step of every request, of    *)
(* the collector and of Incus is a write of ReservationRegistry or leaves  *)
(* its tables alone, for any number of concurrent requests.  The inductive *)
(* invariant adds to the registry's Inv the types of the jobs: a handler   *)
(* writes rows it remembered from an earlier step, so a step is a registry *)
(* write only because what it remembers are names, machines and rows.  The *)
(* same invariant shows that a row goes only by a request of its owner;    *)
(* StampInv adds to it what a request relies on between its claim and the  *)
(* answer of Incus.                                                        *)
(***************************************************************************)

HandlersInv ==
  /\ Inv
  /\ job \in [Handlers -> Jobs]
  /\ gc \in Passes
  /\ live \subseteq Projects
  /\ instances \subseteq Machines

\* The program counter tells which kind of job a handler has.
LEMMA JobKinds ==
  ASSUME NEW j \in Jobs
  PROVE  /\ j.pc \in {"claim", "set", "create", "compensate", "restore"} => j \in DomainJobs
         /\ j.pc \in {"unset", "list"} => j \in ProjectJobs
         /\ j.pc = "drop" => j \in DeleteJobs
         /\ j.pc \in {"hclaim", "stamp", "hcheck", "hdrop"} => j \in HostJobs
         /\ j.pc \in {"rdrop", "hold", "rhosts", "rinsert", "unprovision", "udel"} => j \in NameJobs
         /\ j.pc = "udrop" => j \in UnrouteJobs
         /\ j.pc \in {"troutes", "tclaim", "provision", "trelease"} => j \in TunnelJobs
         /\ j.pc \in {"zinsert", "zdelete"} => j \in ZoneJobs
BY DEF Jobs, Idle, DomainJobs, ProjectJobs, DeleteJobs, HostJobs, NameJobs, UnrouteJobs, TunnelJobs, ZoneJobs

\* A handler that moves on to a job keeps all handlers typed.
LEMMA GotoTyped ==
  ASSUME job \in [Handlers -> Jobs], NEW h \in Handlers, NEW j \in Jobs, Goto(h, j)
  PROVE  job' \in [Handlers -> Jobs]
BY DEF Goto

\* A step of the Project Domain handlers.
LEMMA DomainSteps ==
  ASSUME HandlersInv, NEW h \in Handlers,
         DomainClaim(h) \/ SetIncus(h) \/ CreateIncus(h) \/ DomainCompensate(h) \/ DomainRestore(h)
  PROVE  (Next \/ UNCHANGED registry) /\ job' \in [Handlers -> Jobs]
<1> DEFINE j == job[h]
<1>0. j \in Jobs /\ Idle \in Jobs
  BY DEF HandlersInv, Jobs
<1>1. j \in DomainJobs
  BY <1>0, JobKinds DEF DomainClaim, SetIncus, CreateIncus, DomainCompensate, DomainRestore, At
<1>2. \A pc \in {"claim", "set", "create", "compensate", "restore"}, prev \in SUBSET ClaimRows :
        /\ [j EXCEPT !.pc = pc] \in Jobs
        /\ [j EXCEPT !.pc = pc, !.prev = prev] \in Jobs
  BY <1>1 DEF DomainJobs, Jobs
<1>3. j.p \in Projects /\ j.n \in Names /\ j.z \in Names /\ j.op \in {"set", "create"} /\ j.prev \subseteq ClaimRows
  BY <1>1 DEF DomainJobs
<1>4. ClaimOf(j.p) \in SUBSET ClaimRows
  BY DEF ClaimOf, HandlersInv, Inv, TypeOK
<1>5. CASE DomainClaim(h)
  BY <1>5, <1>0, <1>2, <1>3, <1>4, GotoTyped DEF DomainClaim, Next, Done, HandlersInv
<1>6. CASE SetIncus(h)
  BY <1>6, <1>0, <1>2, GotoTyped DEF SetIncus, Done, Step, HandlersInv
<1>7. CASE CreateIncus(h)
  BY <1>7, <1>0, <1>2, GotoTyped DEF CreateIncus, Done, Step, HandlersInv
<1>8. CASE DomainCompensate(h)
  BY <1>8, <1>0, <1>2, <1>3, GotoTyped DEF DomainCompensate, Next, Done, Step, HandlersInv
<1>9. CASE DomainRestore(h)
  BY <1>9, <1>0, <1>3, GotoTyped DEF DomainRestore, Next, Done, HandlersInv
<1> QED BY <1>5, <1>6, <1>7, <1>8, <1>9

\* A step of unset-domain or project delete.
LEMMA ProjectSteps ==
  ASSUME HandlersInv, NEW h \in Handlers,
         UnsetIncus(h) \/ DeleteList(h) \/ DeleteDrop(h) \/ DeleteIncus(h)
  PROVE  (Next \/ UNCHANGED registry) /\ job' \in [Handlers -> Jobs]
<1> DEFINE j == job[h]
<1>0. j \in Jobs /\ Idle \in Jobs
  BY DEF HandlersInv, Jobs
<1>1. CASE UnsetIncus(h)
  BY <1>1, <1>0, GotoTyped DEF UnsetIncus, Done, HandlersInv
<1>2. CASE DeleteList(h)
  <2> DEFINE k == [pc |-> "drop", p |-> j.p, todo |-> {x \in hostnames : ProjectOf[x.machine] = j.p}]
  <2>1. j \in ProjectJobs
    BY <1>0, <1>2, JobKinds DEF DeleteList, At
  <2>2. k \in Jobs
    BY <2>1 DEF ProjectJobs, DeleteJobs, Jobs, HandlersInv, Inv, TypeOK
  <2>3. Goto(h, k) /\ UNCHANGED registry
    BY <1>2 DEF DeleteList
  <2> QED BY <2>2, <2>3, GotoTyped DEF HandlersInv
<1>3. CASE DeleteDrop(h)
  <2>1. j \in DeleteJobs
    BY <1>0, <1>3, JobKinds DEF DeleteDrop, At
  <2>2. PICK k \in j.todo : ReleaseMachineHostname(k.base, k.wild) /\ Goto(h, [j EXCEPT !.todo = @ \ {k}])
    BY <1>3 DEF DeleteDrop
  <2>3. k.base \in Names /\ k.wild \in BOOLEAN
    BY <2>1, <2>2 DEF DeleteJobs, HostnameRows
  <2>4. [j EXCEPT !.todo = @ \ {k}] \in Jobs
    BY <2>1 DEF DeleteJobs, Jobs
  <2> QED BY <2>2, <2>3, <2>4, GotoTyped DEF Next, HandlersInv
<1>4. CASE DeleteIncus(h)
  BY <1>4, <1>0, GotoTyped DEF DeleteIncus, Done, HandlersInv
<1> QED BY <1>1, <1>2, <1>3, <1>4

\* A step of hostname add or remove.
LEMMA HostSteps ==
  ASSUME HandlersInv, NEW h \in Handlers,
         HostClaim(h) \/ HostStamp(h) \/ HostReleaseCheck(h) \/ HostDrop(h) \/ RemoveDrop(h) \/ Hold(h)
  PROVE  (Next \/ UNCHANGED registry) /\ job' \in [Handlers -> Jobs]
<1> DEFINE j == job[h]
<1>0. j \in Jobs /\ Idle \in Jobs
  BY DEF HandlersInv, Jobs
<1>1. CASE HostClaim(h) \/ HostStamp(h) \/ HostReleaseCheck(h) \/ HostDrop(h)
  <2>1. j \in HostJobs
    BY <1>0, <1>1, JobKinds DEF HostClaim, HostStamp, HostReleaseCheck, HostDrop, At
  <2>2. \A pc \in {"stamp", "hcheck", "hdrop"} :
          [j EXCEPT !.pc = pc] \in Jobs /\ [j EXCEPT !.pc = pc, !.mine = FALSE] \in Jobs
    BY <2>1 DEF HostJobs, Jobs
  <2>3. j.m \in Machines /\ j.b \in Names /\ j.w \in BOOLEAN /\ j.z \in Names
    BY <2>1 DEF HostJobs
  <2>4. CASE HostClaim(h)
    BY <2>4, <1>0, <2>2, <2>3, GotoTyped DEF HostClaim, Next, Done, Step, HandlersInv
  <2>5. CASE HostStamp(h)
    BY <2>5, <1>0, <2>2, GotoTyped DEF HostStamp, Done, Step, HandlersInv
  <2>6. CASE HostReleaseCheck(h)
    BY <2>6, <1>0, <2>2, GotoTyped DEF HostReleaseCheck, Done, Step, HandlersInv
  <2>7. CASE HostDrop(h)
    BY <2>7, <1>0, <2>3, GotoTyped DEF HostDrop, Next, Done, HandlersInv
  <2> QED BY <1>1, <2>4, <2>5, <2>6, <2>7
<1>2. CASE RemoveDrop(h)
  <2>1. j \in NameJobs
    BY <1>0, <1>2, JobKinds DEF RemoveDrop, At
  <2>2. [j EXCEPT !.pc = "hold"] \in Jobs /\ j.b \in Names /\ j.w \in BOOLEAN
    BY <2>1 DEF NameJobs, Jobs
  <2> QED BY <1>2, <2>2, GotoTyped DEF RemoveDrop, Next, Step, HandlersInv
<1>3. CASE Hold(h)
  BY <1>3, <1>0, GotoTyped DEF Hold, Done, HandlersInv
<1> QED BY <1>1, <1>2, <1>3

\* A step of route publish or unpublish.
LEMMA RouteSteps ==
  ASSUME HandlersInv, NEW h \in Handlers, RouteHosts(h) \/ RouteInsert(h) \/ UnrouteDrop(h)
  PROVE  (Next \/ UNCHANGED registry) /\ job' \in [Handlers -> Jobs]
<1> DEFINE j == job[h]
<1>0. j \in Jobs /\ Idle \in Jobs
  BY DEF HandlersInv, Jobs
<1>1. CASE RouteHosts(h) \/ RouteInsert(h)
  <2>1. j \in NameJobs
    BY <1>0, <1>1, JobKinds DEF RouteHosts, RouteInsert, At
  <2>2. [j EXCEPT !.pc = "rinsert"] \in Jobs /\ j.m \in Machines /\ j.b \in Names /\ j.w \in BOOLEAN
    BY <2>1 DEF NameJobs, Jobs
  <2>3. CASE RouteHosts(h)
    BY <2>3, <1>0, <2>2, GotoTyped DEF RouteHosts, Done, Step, HandlersInv
  <2>4. CASE RouteInsert(h)
    BY <2>4, <1>0, <2>2, GotoTyped DEF RouteInsert, Next, Done, HandlersInv
  <2> QED BY <1>1, <2>3, <2>4
<1>2. CASE UnrouteDrop(h)
  <2>1. j \in UnrouteJobs
    BY <1>0, <1>2, JobKinds DEF UnrouteDrop, At
  <2> QED BY <1>0, <1>2, <2>1, GotoTyped DEF UnrouteDrop, UnrouteJobs, Next, Done, HandlersInv
<1> QED BY <1>1, <1>2

\* A step of tunnel publish or unpublish.
LEMMA TunnelSteps ==
  ASSUME HandlersInv, NEW h \in Handlers,
         \/ TunnelRoutes(h) \/ TunnelClaim(h) \/ TunnelProvision(h) \/ TunnelRelease(h)
         \/ UntunnelProvider(h) \/ UntunnelRelease(h)
  PROVE  (Next \/ UNCHANGED registry) /\ job' \in [Handlers -> Jobs]
<1> DEFINE j == job[h]
<1>0. j \in Jobs /\ Idle \in Jobs
  BY DEF HandlersInv, Jobs
<1>1. CASE TunnelRoutes(h) \/ TunnelClaim(h) \/ TunnelProvision(h) \/ TunnelRelease(h)
  <2>1. j \in TunnelJobs
    BY <1>0, <1>1, JobKinds DEF TunnelRoutes, TunnelClaim, TunnelProvision, TunnelRelease, At
  <2>2. \A pc \in {"tclaim", "provision", "trelease"} :
          [j EXCEPT !.pc = pc] \in Jobs /\ [j EXCEPT !.pc = pc, !.mine = TRUE] \in Jobs
    BY <2>1 DEF TunnelJobs, Jobs
  <2>3. j.m \in Machines /\ j.b \in Names /\ j.w \in BOOLEAN
    BY <2>1 DEF TunnelJobs
  <2>4. CASE TunnelRoutes(h)
    BY <2>4, <1>0, <2>2, GotoTyped DEF TunnelRoutes, Done, Step, HandlersInv
  <2>5. CASE TunnelClaim(h)
    BY <2>5, <1>0, <2>2, <2>3, GotoTyped DEF TunnelClaim, Next, Done, Step, HandlersInv
  <2>6. CASE TunnelProvision(h)
    BY <2>6, <1>0, <2>2, GotoTyped DEF TunnelProvision, Done, Step, HandlersInv
  <2>7. CASE TunnelRelease(h)
    BY <2>7, <1>0, <2>3, GotoTyped DEF TunnelRelease, Next, Done, HandlersInv
  <2> QED BY <1>1, <2>4, <2>5, <2>6, <2>7
<1>2. CASE UntunnelProvider(h) \/ UntunnelRelease(h)
  <2>1. j \in NameJobs
    BY <1>0, <1>2, JobKinds DEF UntunnelProvider, UntunnelRelease, At
  <2>2. \A pc \in {"udel", "hold"} : [j EXCEPT !.pc = pc] \in Jobs
    BY <2>1 DEF NameJobs, Jobs
  <2>3. j.m \in Machines /\ j.b \in Names /\ j.w \in BOOLEAN
    BY <2>1 DEF NameJobs
  <2>4. CASE UntunnelProvider(h)
    BY <2>4, <1>0, <2>2, GotoTyped DEF UntunnelProvider, Done, Step, HandlersInv
  <2>5. CASE UntunnelRelease(h)
    BY <2>5, <1>0, <2>2, <2>3, GotoTyped DEF UntunnelRelease, Next, Done, Step, HandlersInv
  <2> QED BY <1>2, <2>4, <2>5
<1> QED BY <1>1, <1>2

\* A step of zone add or remove.
LEMMA ZoneSteps ==
  ASSUME HandlersInv, NEW h \in Handlers, ZoneInsert(h) \/ ZoneDelete(h)
  PROVE  (Next \/ UNCHANGED registry) /\ job' \in [Handlers -> Jobs]
<1>0. job[h] \in Jobs /\ Idle \in Jobs
  BY DEF HandlersInv, Jobs
<1>1. job[h].z \in Names
  BY <1>0, JobKinds DEF ZoneInsert, ZoneDelete, At, ZoneJobs
<1> QED BY <1>0, <1>1, GotoTyped DEF ZoneInsert, ZoneDelete, Next, Done, HandlersInv

\* The first step of a request.
LEMMA BeginSteps ==
  ASSUME HandlersInv, NEW h \in Handlers, Begin(h)
  PROVE  (Next \/ UNCHANGED registry) /\ job' \in [Handlers -> Jobs]
<1> USE InputAssumption
<1>1. ASSUME NEW op \in {"set", "create"}, NEW p \in Projects, NEW n \in DomainNames, NEW z \in Names,
             DomainBegin(h, op, p, n, z)
      PROVE  UNCHANGED registry /\ job' \in [Handlers -> Jobs]
  <2>1. [pc |-> "claim", op |-> op, p |-> p, n |-> n, z |-> z, prev |-> {}] \in Jobs
    BY DEF DomainJobs, Jobs
  <2> QED BY <1>1, <2>1, GotoTyped DEF DomainBegin, HandlersInv
<1>2. ASSUME NEW p \in Projects, UnsetRelease(h, p) \/ DeleteRelease(h, p)
      PROVE  Next /\ job' \in [Handlers -> Jobs]
  <2>1. [pc |-> "unset", p |-> p] \in Jobs /\ [pc |-> "list", p |-> p] \in Jobs
    BY DEF ProjectJobs, Jobs
  <2> QED BY <1>2, <2>1, GotoTyped DEF UnsetRelease, DeleteRelease, Next, HandlersInv
<1>3. ASSUME NEW m \in Machines, NEW b \in HostNames, NEW w \in Wilds, NEW z \in Names, NEW before \in BOOLEAN,
             HostBegin(h, m, b, w, z, before)
      PROVE  UNCHANGED registry /\ job' \in [Handlers -> Jobs]
  <2>1. [pc |-> "hclaim", m |-> m, b |-> b, w |-> w, z |-> z, before |-> before, mine |-> TRUE] \in Jobs
    BY DEF HostJobs, Jobs
  <2> QED BY <1>3, <2>1, GotoTyped DEF HostBegin, HandlersInv
<1>4. ASSUME NEW m \in Machines, NEW b \in Names, NEW w \in Wilds,
             \/ RemoveCheck(h, m, b, w) \/ RouteBegin(h, m, b, w) \/ UnrouteCheck(h, m, b, w)
             \/ TunnelBegin(h, m, b, w) \/ UntunnelBegin(h, m, b, w)
      PROVE  UNCHANGED registry /\ job' \in [Handlers -> Jobs]
  <2>1. \A pc \in {"rdrop", "rhosts", "unprovision"} : [pc |-> pc, m |-> m, b |-> b, w |-> w] \in Jobs
    BY DEF NameJobs, Jobs
  <2>2. [pc |-> "udrop", b |-> b, w |-> w] \in Jobs
    BY DEF UnrouteJobs, Jobs
  <2>3. [pc |-> "troutes", m |-> m, b |-> b, w |-> w, mine |-> FALSE] \in Jobs
    BY DEF TunnelJobs, Jobs
  <2> QED BY <1>4, <2>1, <2>2, <2>3, GotoTyped
          DEF RemoveCheck, RouteBegin, UnrouteCheck, TunnelBegin, UntunnelBegin, HandlersInv
<1>5. ASSUME NEW z \in Names, ZoneBegin(h, z) \/ UnzoneBegin(h, z)
      PROVE  UNCHANGED registry /\ job' \in [Handlers -> Jobs]
  <2>1. \A pc \in {"zinsert", "zdelete"} : [pc |-> pc, z |-> z] \in Jobs
    BY DEF ZoneJobs, Jobs
  <2> QED BY <1>5, <2>1, GotoTyped DEF ZoneBegin, UnzoneBegin, HandlersInv
<1> QED BY <1>1, <1>2, <1>3, <1>4, <1>5 DEF Begin

\* A step of the collector's pass.
LEMMA CollectorSteps ==
  ASSUME HandlersInv, GC
  PROVE  (Next \/ UNCHANGED registry) /\ gc' \in Passes /\ UNCHANGED <<job, incus>>
<1> USE DEF HandlersInv
<1>1. CASE GCListProjects
  BY <1>1 DEF GCListProjects, Passes
<1>2. CASE GCListClaims
  BY <1>2 DEF GCListClaims, Passes, Idle, Inv, TypeOK
<1>3. CASE GCPruneClaim
  <2>1. PICK c \in gc.todo : PruneProjectDomainClaim(c.domain) /\ gc' = [gc EXCEPT !.todo = @ \ {c}]
    BY <1>3 DEF GCPruneClaim
  <2>2. gc \in [pc : {"pruneClaims"}, seen : SUBSET Projects, todo : SUBSET ClaimRows]
    BY <1>3 DEF GCPruneClaim, Passes, Idle
  <2>3. gc' \in [pc : {"pruneClaims"}, seen : SUBSET Projects, todo : SUBSET ClaimRows]
    BY <2>1, <2>2
  <2>4. c.domain \in Names
    BY <2>1, <2>2 DEF ClaimRows
  <2> QED BY <1>3, <2>1, <2>3, <2>4 DEF GCPruneClaim, Passes, Next
<1>4. CASE GCListMachines \/ GCListMachinesFails
  <2>1. gc \in [pc : {"pruneClaims"}, seen : SUBSET Projects, todo : SUBSET ClaimRows]
    BY <1>4 DEF GCListMachines, GCListMachinesFails, Passes, Idle
  <2>2. \A k \in BOOLEAN, ms \in SUBSET Machines :
          [pc |-> "hosts", seen |-> gc.seen, known |-> k, machines |-> ms] \in Passes
    BY <2>1 DEF Passes
  <2>3. gc' \in Passes
    <3>1. CASE GCListMachines
      BY <3>1, <2>2 DEF GCListMachines
    <3>2. CASE GCListMachinesFails
      BY <3>2, <2>2 DEF GCListMachinesFails, Passes
    <3> QED BY <1>4, <3>1, <3>2
  <2> QED BY <1>4, <2>3 DEF GCListMachines, GCListMachinesFails
<1>5. CASE GCListHosts
  BY <1>5 DEF GCListHosts, Passes, Inv, TypeOK
<1>6. CASE GCPruneHost
  <2>1. PICK k \in gc.todo : ReleaseMachineHostname(k.base, k.wild) /\ gc' = [gc EXCEPT !.todo = @ \ {k}]
    BY <1>6 DEF GCPruneHost
  <2>2. gc \in [pc : {"pruneHosts"}, todo : SUBSET HostnameRows]
    BY <1>6 DEF GCPruneHost, Passes, Idle
  <2>3. gc' \in [pc : {"pruneHosts"}, todo : SUBSET HostnameRows]
    BY <2>1, <2>2
  <2>4. k.base \in Names /\ k.wild \in BOOLEAN
    BY <2>1, <2>2 DEF HostnameRows
  <2> QED BY <1>6, <2>1, <2>3, <2>4 DEF GCPruneHost, Passes, Next
<1>7. CASE GCDone
  BY <1>7 DEF GCDone, Passes
<1> QED BY <1>1, <1>2, <1>3, <1>4, <1>5, <1>6, <1>7 DEF GC

\* What Continue and Begin leave alone or keep typed.
LEMMA HandlerFrame ==
  ASSUME HandlersInv, NEW h \in Handlers, Begin(h) \/ Continue(h)
  PROVE  gc' = gc /\ live' \subseteq Projects /\ instances' \subseteq Machines
<1>1. CASE Begin(h)
  BY <1>1 DEF Begin, DomainBegin, UnsetRelease, DeleteRelease, HostBegin, RemoveCheck, RouteBegin, UnrouteCheck,
              TunnelBegin, UntunnelBegin, ZoneBegin, UnzoneBegin, incus, HandlersInv
<1>2. CASE CreateIncus(h)
  <2>1. job[h].p \in Projects
    BY <1>2, JobKinds DEF CreateIncus, At, HandlersInv, DomainJobs
  <2> QED BY <1>2, <2>1 DEF CreateIncus, HandlersInv
<1>3. CASE DeleteIncus(h)
  BY <1>3 DEF DeleteIncus, HandlersInv
<1>4. CASE Continue(h) /\ ~CreateIncus(h) /\ ~DeleteIncus(h)
  BY <1>4 DEF Continue, DomainClaim, SetIncus, DomainCompensate, DomainRestore, UnsetIncus, DeleteList, DeleteDrop,
              HostClaim, HostStamp, HostReleaseCheck, HostDrop, RemoveDrop, Hold, RouteHosts, RouteInsert, UnrouteDrop,
              TunnelRoutes, TunnelClaim, TunnelProvision, TunnelRelease, UntunnelProvider, UntunnelRelease,
              ZoneInsert, ZoneDelete, incus, HandlersInv
<1> QED BY <1>1, <1>2, <1>3, <1>4

\* Every step maps to a registry write or a stutter, and keeps the invariant.
LEMMA HandlersStep ==
  ASSUME HandlersInv, [HandlersNext]_vars
  PROVE  [Next]_registry /\ HandlersInv'
<1>1. ASSUME NEW h \in Handlers, Begin(h) \/ Continue(h)
      PROVE  [Next]_registry /\ HandlersInv'
  <2>1. (Next \/ UNCHANGED registry) /\ job' \in [Handlers -> Jobs]
    BY <1>1, BeginSteps, DomainSteps, ProjectSteps, HostSteps, RouteSteps, TunnelSteps, ZoneSteps DEF Continue
  <2>2. Inv'
    BY <2>1, NextInv DEF HandlersInv
  <2> QED BY <1>1, <2>1, <2>2, HandlerFrame DEF HandlersInv
<1>2. CASE GC
  <2>1. Inv'
    BY <1>2, CollectorSteps, NextInv DEF HandlersInv
  <2> QED BY <1>2, <2>1, CollectorSteps DEF HandlersInv, incus
<1>3. CASE Environment
  <2>1. UNCHANGED <<registry, job, gc>> /\ live' \subseteq Projects /\ instances' \subseteq Machines
    BY <1>3 DEF Environment, CooldownExpires, ProjectCreated, ProjectDeleted, InstanceCreated, CreateGivenUp,
                InstanceDeleted, incus, HandlersInv
  <2> QED BY <2>1, NextInv DEF HandlersInv
<1>4. CASE UNCHANGED vars
  <2>1. UNCHANGED <<registry, job, gc, live, instances>>
    BY <1>4 DEF vars, incus
  <2> QED BY <2>1, NextInv DEF HandlersInv
<1> QED BY <1>1, <1>2, <1>3, <1>4 DEF HandlersNext

\* The initial state maps to the registry's.
LEMMA HandlersStart == HandlersInit => Init /\ HandlersInv
<1> SUFFICES ASSUME HandlersInit PROVE Init /\ HandlersInv
  OBVIOUS
<1>1. Idle \in Jobs /\ Idle \in Passes
  BY DEF Jobs, Passes
<1> QED BY <1>1, InitInv, InputAssumption DEF HandlersInit, HandlersInv

\* Any interleaving of requests, collector passes and Incus changes is a
\* behaviour of the registry.
THEOREM HandlersImplementRegistry == HandlersSpec => ImplementsRegistry
<1>1. HandlersInv /\ [HandlersNext]_vars => HandlersInv' /\ [Next]_registry
  BY HandlersStep
<1> QED BY <1>1, HandlersStart, PTL DEF HandlersSpec, ImplementsRegistry, Spec

\* So names stay disjoint and inside their zones however requests interleave,
\* whichever Incus or Cloudflare calls fail.
THEOREM HandlersKeepNamesDisjoint == HandlersSpec => []NamesDisjoint
BY HandlersImplementRegistry, ReservationsExclusive, PTL DEF ImplementsRegistry

-----------------------------------------------------------------------------
(* Who takes a row away                                                    *)

\* The deletions of tunnel rows and of claims, each for one owner.
OwnTunnelGoes(h) == TunnelRelease(h) \/ UntunnelRelease(h)
OwnClaimGoes(h) ==
  \/ DomainClaim(h) \/ DomainCompensate(h)
  \/ \E p \in Projects : UnsetRelease(h, p) \/ DeleteRelease(h, p)

\* Every other step of a request leaves the rows of both tables there.
LEMMA OthersDeleteNothing ==
  ASSUME NEW h \in Handlers, Begin(h) \/ Continue(h)
  PROVE  /\ tunnels \subseteq tunnels' \/ OwnTunnelGoes(h)
         /\ claims \subseteq claims' \/ OwnClaimGoes(h)
<1>1. CASE Begin(h)
  <2>1. tunnels' = tunnels
    BY <1>1 DEF Begin, DomainBegin, UnsetRelease, DeleteRelease, HostBegin, RemoveCheck, RouteBegin, UnrouteCheck,
                TunnelBegin, UntunnelBegin, ZoneBegin, UnzoneBegin, registry, ReleaseProjectDomainClaim
  <2>2. claims' = claims \/ OwnClaimGoes(h)
    BY <1>1 DEF Begin, DomainBegin, HostBegin, RemoveCheck, RouteBegin, UnrouteCheck,
                TunnelBegin, UntunnelBegin, ZoneBegin, UnzoneBegin, registry, OwnClaimGoes
  <2> QED BY <2>1, <2>2
<1>2. CASE DomainClaim(h) \/ DomainCompensate(h)
  BY <1>2 DEF DomainClaim, DomainCompensate, OwnClaimGoes, ClaimProjectDomain, ReleaseProjectDomainClaim, registry
<1>3. CASE DomainRestore(h)
  BY <1>3 DEF DomainRestore, restoreProjectDomainClaim, registry
<1>4. CASE SetIncus(h) \/ CreateIncus(h) \/ UnsetIncus(h) \/ DeleteList(h) \/ DeleteDrop(h) \/ DeleteIncus(h)
  BY <1>4 DEF SetIncus, CreateIncus, UnsetIncus, DeleteList, DeleteDrop, DeleteIncus, ReleaseMachineHostname, registry
<1>5. CASE HostClaim(h) \/ HostStamp(h) \/ HostReleaseCheck(h) \/ HostDrop(h) \/ RemoveDrop(h) \/ Hold(h)
  BY <1>5 DEF HostClaim, HostStamp, HostReleaseCheck, HostDrop, RemoveDrop, Hold, ClaimMachineHostname,
              ReleaseMachineHostname, registry
<1>6. CASE RouteHosts(h) \/ RouteInsert(h) \/ UnrouteDrop(h)
  BY <1>6 DEF RouteHosts, RouteInsert, UnrouteDrop, InsertRoute, DeleteRoute, registry
<1>7. CASE TunnelRoutes(h) \/ TunnelClaim(h) \/ TunnelProvision(h) \/ UntunnelProvider(h)
  BY <1>7 DEF TunnelRoutes, TunnelClaim, TunnelProvision, UntunnelProvider, ClaimMachineTunnelPublication, registry
<1>8. CASE TunnelRelease(h) \/ UntunnelRelease(h)
  BY <1>8 DEF TunnelRelease, UntunnelRelease, OwnTunnelGoes, ReleaseMachineTunnelPublication
<1>9. CASE ZoneInsert(h) \/ ZoneDelete(h)
  BY <1>9 DEF ZoneInsert, ZoneDelete, AddPublicDNSZone, RemovePublicDNSZone, registry
<1> QED BY <1>1, <1>2, <1>3, <1>4, <1>5, <1>6, <1>7, <1>8, <1>9 DEF Continue

\* A request that deletes a tunnel row moves on and names the row's machine.
LEMMA TunnelDeleter ==
  ASSUME HandlersInv, NEW h \in Handlers, OwnTunnelGoes(h), NEW t \in tunnels \ tunnels'
  PROVE  job'[h] # job[h] /\ ActsOn(job[h], t.machine)
<1> DEFINE j == job[h]
<1>0. j \in Jobs /\ job \in [Handlers -> Jobs]
  BY DEF HandlersInv
<1>1. j \in TunnelJobs \/ j \in NameJobs
  BY <1>0, JobKinds DEF OwnTunnelGoes, TunnelRelease, UntunnelRelease, At
<1>2. "m" \in DOMAIN j
  BY <1>1 DEF TunnelJobs, NameJobs
<1>3. t = [base |-> j.b, wild |-> j.w, machine |-> j.m]
  BY DEF OwnTunnelGoes, TunnelRelease, UntunnelRelease, ReleaseMachineTunnelPublication
<1>4. j.pc \in {"trelease", "udel"}
  BY DEF OwnTunnelGoes, TunnelRelease, UntunnelRelease, At
<1>5. job'[h] = Idle \/ job'[h] = [j EXCEPT !.pc = "hold"]
  BY <1>0 DEF OwnTunnelGoes, TunnelRelease, UntunnelRelease, Done, Step, Goto
<1>6. job'[h].pc \in {"idle", "hold"}
  BY <1>1, <1>5 DEF Idle, TunnelJobs, NameJobs
<1> QED BY <1>2, <1>3, <1>4, <1>6 DEF ActsOn

\* A request that deletes a claim moves on and is for the claim's project.
LEMMA ClaimDeleter ==
  ASSUME HandlersInv, NEW h \in Handlers, OwnClaimGoes(h), NEW c \in claims \ claims'
  PROVE  job'[h] # job[h] /\ (ActsFor(job[h], c.project) \/ ActsFor(job'[h], c.project))
<1> DEFINE j == job[h]
<1>0. j \in Jobs /\ job \in [Handlers -> Jobs]
  BY DEF HandlersInv
<1>1. CASE DomainClaim(h) \/ DomainCompensate(h)
  <2>1. j \in DomainJobs
    BY <1>0, <1>1, JobKinds DEF DomainClaim, DomainCompensate, At
  <2>2. "p" \in DOMAIN j
    BY <2>1 DEF DomainJobs
  <2>3. c.project = j.p
    BY <1>1 DEF DomainClaim, DomainCompensate, ClaimProjectDomain, ReleaseProjectDomainClaim, ClaimOf, registry
  <2>4. job'[h] # j
    <3>1. CASE DomainClaim(h)
      <4> DEFINE k == [j EXCEPT !.pc = j.op, !.prev = ClaimOf(j.p)]
      <4>1. job'[h] = k \/ job'[h] = Idle
        BY <1>0, <3>1 DEF DomainClaim, Goto, Done
      <4>2. k.pc \in {"set", "create"}
        BY <2>1 DEF DomainJobs
      <4> HIDE DEF k
      <4>3. job'[h].pc \in {"set", "create", "idle"}
        BY <4>1, <4>2 DEF Idle
      <4> QED BY <3>1, <4>3 DEF DomainClaim, At
    <3>2. CASE DomainCompensate(h)
      <4>1. job'[h] = [j EXCEPT !.pc = "restore"] \/ job'[h] = Idle
        BY <1>0, <3>2 DEF DomainCompensate, Step, Goto, Done
      <4>2. job'[h].pc \in {"restore", "idle"}
        BY <2>1, <4>1 DEF DomainJobs, Idle
      <4> QED BY <3>2, <4>2 DEF DomainCompensate, At
    <3> QED BY <1>1, <3>1, <3>2
  <2> QED BY <2>2, <2>3, <2>4 DEF ActsFor
<1>2. ASSUME NEW p \in Projects, UnsetRelease(h, p) \/ DeleteRelease(h, p)
      PROVE  job'[h] # job[h] /\ ActsFor(job'[h], c.project)
  <2>1. j = Idle
    BY <1>2 DEF UnsetRelease, DeleteRelease, Ready
  <2>2. job'[h] = [pc |-> "unset", p |-> p] \/ job'[h] = [pc |-> "list", p |-> p]
    BY <1>0, <1>2 DEF UnsetRelease, DeleteRelease, Goto
  <2>3. c.project = p
    BY <1>2 DEF UnsetRelease, DeleteRelease, ReleaseProjectDomainClaim, ClaimOf
  <2>4. job'[h].pc # j.pc
    BY <2>1, <2>2 DEF Idle
  <2>5. "p" \in DOMAIN job'[h] /\ job'[h].p = p
    BY <2>2
  <2> QED BY <2>3, <2>4, <2>5 DEF ActsFor
<1> QED BY <1>1, <1>2 DEF OwnClaimGoes

\* The collector deletes no tunnel row, and moves on when it deletes a claim.
LEMMA CollectorDeletes ==
  ASSUME HandlersInv, GC
  PROVE  tunnels' = tunnels /\ (claims' = claims \/ gc' # gc)
<1>1. CASE GCPruneClaim
  <2>1. PICK c \in gc.todo : PruneProjectDomainClaim(c.domain) /\ gc' = [gc EXCEPT !.todo = @ \ {c}]
    BY <1>1 DEF GCPruneClaim
  <2>2. gc \in [pc : {"pruneClaims"}, seen : SUBSET Projects, todo : SUBSET ClaimRows]
    BY <1>1 DEF GCPruneClaim, Passes, Idle, HandlersInv
  <2>3. gc'.todo = gc.todo \ {c}
    BY <2>1, <2>2
  <2> QED BY <2>1, <2>3 DEF PruneProjectDomainClaim
<1>2. CASE GCPruneHost
  BY <1>2 DEF GCPruneHost, ReleaseMachineHostname
<1>3. CASE GC /\ ~GCPruneClaim /\ ~GCPruneHost
  BY <1>3 DEF GC, GCListProjects, GCListClaims, GCListMachines, GCListMachinesFails, GCListHosts, GCDone, registry
<1> QED BY <1>1, <1>2, <1>3

\* Both facts of any step.
LEMMA RowsGoByOwner ==
  ASSUME HandlersInv, [HandlersNext]_vars
  PROVE  /\ \A t \in tunnels \ tunnels' :
              \E h \in Handlers : job'[h] # job[h] /\ ActsOn(job[h], t.machine)
         /\ \A c \in claims \ claims' :
              \/ gc' # gc
              \/ \E h \in Handlers :
                   job'[h] # job[h] /\ (ActsFor(job[h], c.project) \/ ActsFor(job'[h], c.project))
<1>1. ASSUME NEW h \in Handlers, Begin(h) \/ Continue(h)
      PROVE  /\ \A t \in tunnels \ tunnels' : job'[h] # job[h] /\ ActsOn(job[h], t.machine)
             /\ \A c \in claims \ claims' :
                  job'[h] # job[h] /\ (ActsFor(job[h], c.project) \/ ActsFor(job'[h], c.project))
  <2>1. tunnels \subseteq tunnels' \/ OwnTunnelGoes(h)
    BY <1>1, OthersDeleteNothing
  <2>2. claims \subseteq claims' \/ OwnClaimGoes(h)
    BY <1>1, OthersDeleteNothing
  <2>3. \A t \in tunnels \ tunnels' : job'[h] # job[h] /\ ActsOn(job[h], t.machine)
    BY <2>1, TunnelDeleter
  <2>4. \A c \in claims \ claims' :
          job'[h] # job[h] /\ (ActsFor(job[h], c.project) \/ ActsFor(job'[h], c.project))
    BY <2>2, ClaimDeleter
  <2> QED BY <2>3, <2>4
<1>2. CASE GC
  BY <1>2, CollectorDeletes
<1>3. CASE Environment
  <2>1. tunnels' = tunnels /\ claims' = claims
    BY <1>3 DEF Environment, CooldownExpires, ProjectCreated, ProjectDeleted, InstanceCreated, CreateGivenUp,
                InstanceDeleted, registry
  <2> QED BY <2>1
<1>4. CASE UNCHANGED vars
  BY <1>4 DEF vars, registry
<1> QED BY <1>1, <1>2, <1>3, <1>4 DEF HandlersNext

\* However requests interleave and fail, a tunnel row goes only by a request of
\* its own machine (ReleaseMachineTunnelPublication).
THEOREM TunnelsGoByOwner == HandlersSpec => TunnelsReleasedByOwner
<1>1. HandlersInv /\ [HandlersNext]_vars => HandlersInv'
  BY HandlersStep
<1>2. HandlersInv /\ [HandlersNext]_vars =>
        \A t \in tunnels \ tunnels' :
          \E h \in Handlers : job'[h] # job[h] /\ ActsOn(job[h], t.machine)
  BY RowsGoByOwner
<1> QED BY <1>1, <1>2, HandlersStart, PTL DEF HandlersSpec, TunnelsReleasedByOwner

\* However requests interleave and fail, a project loses its domain only by a
\* request for that project or by the collector (releaseProjectDomainClaim).
THEOREM ClaimsGoByOwner == HandlersSpec => ClaimsMovedByOwner
<1>1. HandlersInv /\ [HandlersNext]_vars => HandlersInv'
  BY HandlersStep
<1>2. HandlersInv /\ [HandlersNext]_vars =>
        \A c \in claims \ claims' :
          \/ gc' # gc
          \/ \E h \in Handlers :
               job'[h] # job[h] /\ (ActsFor(job[h], c.project) \/ ActsFor(job'[h], c.project))
  BY RowsGoByOwner
<1> QED BY <1>1, <1>2, HandlersStart, PTL DEF HandlersSpec, ClaimsMovedByOwner
-----------------------------------------------------------------------------
(* What a project carries                                                  *)

\* No two requests for one project are in flight at a time.
OneRequestPerProject ==
  \A g, h \in Handlers, p \in Projects : ActsFor(job[g], p) /\ ActsFor(job[h], p) => g = h

\* The project of a claim carries it.  Where nobody deletes projects behind the
\* Auth App's back the project is also there.
Carries(row) ==
  /\ row.project \in live => incusDomain[row.project] = row.domain
  /\ "oob" \notin Requests => row.project \in live

\* Between the claim and the answer of Incus the project may not carry it yet.
StampJobs == {"set", "create", "compensate"}
OwnerJobs == StampJobs \cup {"restore", "unset", "list", "drop"}
InFlight(p) == \E h \in Handlers : job[h].pc \in StampJobs /\ job[h].p = p

\* What a request relies on: the claim it made is the one it stamps, the claim
\* it may restore was carried, and a released project holds none.
JobFit(j) ==
  /\ j.pc \in {"set", "create"} => \A c \in ClaimOf(j.p) : c.domain = j.n
  /\ j.pc \in {"set", "create", "compensate", "restore"} =>
       \A row \in j.prev : row.project = j.p /\ Carries(row)
  /\ j.pc \in {"unset", "list", "drop"} => ClaimOf(j.p) = {}

StampInv ==
  /\ incusDomain \in [Projects -> Names \cup {NoDomain}]
  /\ \A c \in claims : InFlight(c.project) \/ Carries(c)
  /\ \A h \in Handlers : JobFit(job[h])

\* A step that can disturb only the claim and the stamp of p.
Elsewhere(p) ==
  /\ \A c \in claims' : c.project # p => c \in claims
  /\ \A q \in Projects : q # p => (q \in live <=> q \in live') /\ incusDomain'[q] = incusDomain[q]

\* The jobs of other projects stay fit.
LEMMA OtherJobsFit ==
  ASSUME HandlersInv, StampInv, NEW j \in Jobs, JobFit(j), NEW p \in Projects, ~ActsFor(j, p), Elsewhere(p)
  PROVE  JobFit(j)'
<1>1. CASE j.pc \in {"set", "create", "compensate", "restore"}
  <2>1. j \in DomainJobs
    BY <1>1, JobKinds
  <2>2. j.p \in Projects /\ j.p # p /\ j.prev \subseteq ClaimRows
    BY <2>1 DEF DomainJobs, ActsFor
  <2>3. \A row \in ClaimRows : row.project = j.p /\ Carries(row) => Carries(row)'
    BY <2>2 DEF Carries, Elsewhere
  <2>4. ClaimOf(j.p)' \subseteq ClaimOf(j.p)
    BY <2>2 DEF ClaimOf, Elsewhere
  <2> QED BY <1>1, <2>2, <2>3, <2>4 DEF JobFit
<1>2. CASE j.pc \in {"unset", "list", "drop"}
  <2>1. j.p # p
    BY <1>2, JobKinds DEF ProjectJobs, DeleteJobs, ActsFor
  <2>2. ClaimOf(j.p)' \subseteq ClaimOf(j.p)
    BY <2>1 DEF ClaimOf, Elsewhere
  <2> QED BY <1>2, <2>2 DEF JobFit
<1> QED BY <1>1, <1>2 DEF JobFit

\* A step of the request for p leaves the other projects as they were.
LEMMA OwnerStep ==
  ASSUME HandlersInv, HandlersInv', StampInv, OneRequestPerProject, OneRequestPerProject',
         NEW h \in Handlers, \A g \in Handlers \ {h} : job'[g] = job[g],
         NEW p \in Projects,
         \/ ActsFor(job[h], p)
         \/ job[h] = Idle /\ ActsFor(job'[h], p),
         Elsewhere(p),
         incusDomain' \in [Projects -> Names \cup {NoDomain}],
         JobFit(job[h])',
         \A c \in claims' : c.project = p => InFlight(p)' \/ Carries(c)'
  PROVE  StampInv'
<1>1. ASSUME NEW g \in Handlers \ {h} PROVE ~ActsFor(job[g], p)
  BY <1>1 DEF OneRequestPerProject
<1>2. ASSUME NEW g \in Handlers PROVE JobFit(job[g])'
  <2>1. CASE g = h
    BY <2>1
  <2>2. CASE g # h
    <3>1. PICK j : j = job[g]
      OBVIOUS
    <3>2. j \in Jobs /\ JobFit(j) /\ ~ActsFor(j, p)
      BY <1>1, <2>2, <3>1 DEF HandlersInv, StampInv
    <3>3. JobFit(j)'
      BY <3>2, OtherJobsFit
    <3>4. job'[g] = j
      BY <2>2, <3>1
    <3> QED BY <3>3, <3>4 DEF JobFit
  <2> QED BY <2>1, <2>2
<1>3. ASSUME NEW c \in claims', c.project # p
      PROVE  InFlight(c.project)' \/ Carries(c)'
  <2>1. c \in claims /\ c.project \in Projects
    BY <1>3 DEF Elsewhere, HandlersInv, Inv, TypeOK, ClaimRows
  <2>2. CASE Carries(c)
    BY <1>3, <2>1, <2>2 DEF Carries, Elsewhere
  <2>3. CASE InFlight(c.project)
    <3>1. PICK g \in Handlers : job[g].pc \in StampJobs /\ job[g].p = c.project
      BY <2>3 DEF InFlight
    <3>2. g # h
      BY <1>3, <3>1 DEF ActsFor, Idle, StampJobs
    <3> QED BY <3>1, <3>2 DEF InFlight
  <2> QED BY <2>1, <2>2, <2>3 DEF StampInv
<1>4. ASSUME NEW c \in claims'
      PROVE  InFlight(c.project)' \/ Carries(c)'
  <2>1. CASE c.project = p
    BY <2>1
  <2> QED BY <2>1, <1>3
<1> QED BY <1>2, <1>4 DEF StampInv

\* A step of a request that is not about a claim.
LEMMA OtherStep ==
  ASSUME HandlersInv, StampInv, NEW h \in Handlers, \A g \in Handlers \ {h} : job'[g] = job[g],
         job[h].pc \notin OwnerJobs, job'[h].pc \notin OwnerJobs,
         claims' = claims, live' = live, incusDomain' = incusDomain
  PROVE  StampInv'
<1>1. \A row : Carries(row) <=> Carries(row)'
  BY DEF Carries
<1>2. ASSUME NEW g \in Handlers PROVE JobFit(job[g])'
  <2>1. CASE g = h
    BY <2>1 DEF JobFit, OwnerJobs, StampJobs
  <2>2. CASE g # h
    <3>1. JobFit(job[g]) /\ job'[g] = job[g]
      BY <2>2 DEF StampInv
    <3>2. \A q : ClaimOf(q)' = ClaimOf(q)
      BY DEF ClaimOf
    <3> QED BY <1>1, <3>1, <3>2 DEF JobFit
  <2> QED BY <2>1, <2>2
<1>3. ASSUME NEW q, InFlight(q) PROVE InFlight(q)'
  <2>1. PICK g \in Handlers : job[g].pc \in StampJobs /\ job[g].p = q
    BY <1>3 DEF InFlight
  <2>2. g # h
    BY <2>1 DEF OwnerJobs
  <2> QED BY <2>1, <2>2 DEF InFlight
<1> QED BY <1>1, <1>2, <1>3 DEF StampInv

\* Where a step takes a job.
LEMMA Moves ==
  ASSUME HandlersInv, NEW h \in Handlers
  PROVE  /\ \A pc : Step(h, pc) => job'[h] = [job[h] EXCEPT !.pc = pc] /\ job'[h].pc = pc
         /\ Done(h) => job'[h] = Idle /\ job'[h].pc = "idle"
         /\ \A j : Goto(h, j) => job'[h] = j /\ \A g \in Handlers \ {h} : job'[g] = job[g]
<1>1. job[h] \in Jobs /\ job \in [Handlers -> Jobs]
  BY DEF HandlersInv
<1>2. "pc" \in DOMAIN job[h]
  BY <1>1 DEF Jobs, Idle, DomainJobs, ProjectJobs, DeleteJobs, HostJobs, NameJobs, UnrouteJobs, TunnelJobs, ZoneJobs
<1> QED BY <1>1, <1>2 DEF Step, Done, Goto, Idle

\* The steps of requests about hostnames, routes, tunnels and zones.
LEMMA OtherSteps ==
  ASSUME HandlersInv, StampInv, NEW h \in Handlers,
         \/ HostClaim(h) \/ HostStamp(h) \/ HostReleaseCheck(h) \/ HostDrop(h) \/ RemoveDrop(h) \/ Hold(h)
         \/ RouteHosts(h) \/ RouteInsert(h) \/ UnrouteDrop(h)
         \/ TunnelRoutes(h) \/ TunnelClaim(h) \/ TunnelProvision(h) \/ TunnelRelease(h)
         \/ UntunnelProvider(h) \/ UntunnelRelease(h)
         \/ ZoneInsert(h) \/ ZoneDelete(h)
  PROVE  StampInv'
<1>1. \A g \in Handlers \ {h} : job'[g] = job[g]
  BY Moves DEF HostClaim, HostStamp, HostReleaseCheck, HostDrop, RemoveDrop, Hold, RouteHosts, RouteInsert, UnrouteDrop,
               TunnelRoutes, TunnelClaim, TunnelProvision, TunnelRelease, UntunnelProvider, UntunnelRelease,
               ZoneInsert, ZoneDelete, Step, Done
<1>2. claims' = claims
  BY DEF HostClaim, HostStamp, HostReleaseCheck, HostDrop, RemoveDrop, Hold, RouteHosts, RouteInsert, UnrouteDrop,
         TunnelRoutes, TunnelClaim, TunnelProvision, TunnelRelease, UntunnelProvider, UntunnelRelease,
         ZoneInsert, ZoneDelete, ClaimMachineHostname, ReleaseMachineHostname, InsertRoute, DeleteRoute,
         ClaimMachineTunnelPublication, ReleaseMachineTunnelPublication, AddPublicDNSZone, RemovePublicDNSZone, registry
<1>3. live' = live /\ incusDomain' = incusDomain
  BY DEF HostClaim, HostStamp, HostReleaseCheck, HostDrop, RemoveDrop, Hold, RouteHosts, RouteInsert, UnrouteDrop,
         TunnelRoutes, TunnelClaim, TunnelProvision, TunnelRelease, UntunnelProvider, UntunnelRelease,
         ZoneInsert, ZoneDelete, incus
<1>4. job[h].pc \notin OwnerJobs
  BY DEF HostClaim, HostStamp, HostReleaseCheck, HostDrop, RemoveDrop, Hold, RouteHosts, RouteInsert, UnrouteDrop,
         TunnelRoutes, TunnelClaim, TunnelProvision, TunnelRelease, UntunnelProvider, UntunnelRelease,
         ZoneInsert, ZoneDelete, At, OwnerJobs, StampJobs
<1>5. job'[h].pc \notin OwnerJobs
  <2>1. CASE HostClaim(h)
    <3> DEFINE k == [job[h] EXCEPT !.pc = "stamp", !.mine = FALSE]
    <3>1. k.pc = "stamp"
      BY <2>1, JobKinds DEF HostClaim, At, HandlersInv, HostJobs
    <3>2. Step(h, "stamp") \/ Done(h) \/ Goto(h, k)
      BY <2>1 DEF HostClaim
    <3> HIDE DEF k
    <3> QED BY <3>1, <3>2, Moves DEF OwnerJobs, StampJobs
  <2>2. CASE TunnelClaim(h)
    <3> DEFINE k == [job[h] EXCEPT !.pc = "provision", !.mine = TRUE]
    <3>1. k.pc = "provision"
      BY <2>2, JobKinds DEF TunnelClaim, At, HandlersInv, TunnelJobs
    <3>2. Step(h, "provision") \/ Done(h) \/ Goto(h, k)
      BY <2>2 DEF TunnelClaim
    <3> HIDE DEF k
    <3> QED BY <3>1, <3>2, Moves DEF OwnerJobs, StampJobs
  <2>3. CASE ~HostClaim(h) /\ ~TunnelClaim(h)
    <3>1. Done(h) \/ \E pc \in {"hcheck", "hdrop", "hold", "rinsert", "tclaim", "trelease", "udel"} : Step(h, pc)
      BY <2>3 DEF HostStamp, HostReleaseCheck, HostDrop, RemoveDrop, Hold, RouteHosts, RouteInsert, UnrouteDrop,
                  TunnelRoutes, TunnelProvision, TunnelRelease, UntunnelProvider, UntunnelRelease,
                  ZoneInsert, ZoneDelete
    <3> QED BY <3>1, Moves DEF OwnerJobs, StampJobs
  <2> QED BY <2>1, <2>2, <2>3
<1> QED BY <1>1, <1>2, <1>3, <1>4, <1>5, OtherStep

\* The first step of a request: only unset-domain and delete touch a claim.
LEMMA BeginStamps ==
  ASSUME HandlersInv, HandlersInv', StampInv, OneRequestPerProject, OneRequestPerProject',
         NEW h \in Handlers, Begin(h)
  PROVE  StampInv'
<1> USE InputAssumption
<1>1. job[h].pc \notin OwnerJobs /\ job[h] = Idle /\ live' = live /\ incusDomain' = incusDomain
      /\ \A g \in Handlers \ {h} : job'[g] = job[g]
  <2>1. job[h] = Idle /\ live' = live /\ incusDomain' = incusDomain
    BY DEF Begin, DomainBegin, UnsetRelease, DeleteRelease, HostBegin, RemoveCheck, RouteBegin, UnrouteCheck,
           TunnelBegin, UntunnelBegin, ZoneBegin, UnzoneBegin, Ready, incus
  <2>2. \A g \in Handlers \ {h} : job'[g] = job[g]
    BY Moves DEF Begin, DomainBegin, UnsetRelease, DeleteRelease, HostBegin, RemoveCheck, RouteBegin, UnrouteCheck,
           TunnelBegin, UntunnelBegin, ZoneBegin, UnzoneBegin
  <2> QED BY <2>1, <2>2 DEF Idle, OwnerJobs, StampJobs
<1>2. ASSUME NEW p \in Projects, UnsetRelease(h, p) \/ DeleteRelease(h, p)
      PROVE  StampInv'
  <2>1. claims' = claims \ ClaimOf(p)
    BY <1>2 DEF UnsetRelease, DeleteRelease, ReleaseProjectDomainClaim
  <2>2. job'[h] = [pc |-> "unset", p |-> p] \/ job'[h] = [pc |-> "list", p |-> p]
    BY <1>2, Moves DEF UnsetRelease, DeleteRelease
  <2>3. job'[h].p = p /\ job'[h].pc \in {"unset", "list"} /\ ActsFor(job'[h], p)
    BY <2>2 DEF ActsFor
  <2>4. ClaimOf(p)' = {} /\ Elsewhere(p)
    BY <1>1, <2>1 DEF ClaimOf, Elsewhere
  <2>5. JobFit(job[h])'
    BY <2>3, <2>4 DEF JobFit
  <2>6. \A c \in claims' : c.project # p
    BY <2>1 DEF ClaimOf
  <2> QED BY <1>1, <2>3, <2>4, <2>5, <2>6, OwnerStep DEF StampInv
<1>3. CASE \A p \in Projects : ~UnsetRelease(h, p) /\ ~DeleteRelease(h, p)
  <2>1. claims' = claims
    BY <1>3 DEF Begin, DomainBegin, HostBegin, RemoveCheck, RouteBegin, UnrouteCheck,
           TunnelBegin, UntunnelBegin, ZoneBegin, UnzoneBegin, registry
  <2>2. PICK k : Goto(h, k) /\ k.pc \in {"claim", "hclaim", "rdrop", "rhosts", "udrop", "troutes", "unprovision",
                                        "zinsert", "zdelete"}
    <3> DEFINE Starts == \E k : Goto(h, k) /\ k.pc \in {"claim", "hclaim", "rdrop", "rhosts", "udrop", "troutes",
                                                      "unprovision", "zinsert", "zdelete"}
    <3>1. ASSUME NEW op, NEW p, NEW n, NEW z, DomainBegin(h, op, p, n, z) PROVE Starts
      BY <3>1 DEF DomainBegin
    <3>2. ASSUME NEW m, NEW b, NEW w, NEW z, NEW before, HostBegin(h, m, b, w, z, before) PROVE Starts
      BY <3>2 DEF HostBegin
    <3>3. ASSUME NEW m, NEW b, NEW w, RemoveCheck(h, m, b, w) \/ RouteBegin(h, m, b, w) PROVE Starts
      BY <3>3 DEF RemoveCheck, RouteBegin
    <3>4. ASSUME NEW m, NEW b, NEW w, UnrouteCheck(h, m, b, w) \/ TunnelBegin(h, m, b, w) PROVE Starts
      BY <3>4 DEF UnrouteCheck, TunnelBegin
    <3>5. ASSUME NEW m, NEW b, NEW w, UntunnelBegin(h, m, b, w) PROVE Starts
      BY <3>5 DEF UntunnelBegin
    <3>6. ASSUME NEW z, ZoneBegin(h, z) \/ UnzoneBegin(h, z) PROVE Starts
      BY <3>6 DEF ZoneBegin, UnzoneBegin
    <3> HIDE DEF Starts
    <3>7. Starts
      BY <1>3, <3>1, <3>2, <3>3, <3>4, <3>5, <3>6 DEF Begin
    <3> QED BY <3>7 DEF Starts
  <2>3. job'[h].pc \notin OwnerJobs
    BY <2>2, Moves DEF OwnerJobs, StampJobs
  <2> QED BY <1>1, <2>1, <2>3, OtherStep
<1> QED BY <1>2, <1>3

\* Outside its stamping steps a request finds the claims of its project carried.
LEMMA Settled ==
  ASSUME StampInv, OneRequestPerProject, NEW h \in Handlers, NEW p \in Projects,
         ActsFor(job[h], p), job[h].pc \notin StampJobs, HandlersInv
  PROVE  \A c \in claims : c.project = p => Carries(c)
<1> SUFFICES ASSUME NEW g \in Handlers, job[g].pc \in StampJobs, job[g].p = p PROVE FALSE
  BY DEF StampInv, InFlight
<1>1. job[g] \in DomainJobs
  BY JobKinds DEF HandlersInv, StampJobs
<1>2. ActsFor(job[g], p)
  BY <1>1 DEF DomainJobs, ActsFor
<1> QED BY <1>2 DEF OneRequestPerProject

\* The Project Domain handlers, where every Incus call is made or not made.
LEMMA DomainStamps ==
  ASSUME HandlersInv, HandlersInv', StampInv, OneRequestPerProject, OneRequestPerProject', "partial" \notin Faults,
         NEW h \in Handlers,
         DomainClaim(h) \/ SetIncus(h) \/ CreateIncus(h) \/ DomainCompensate(h) \/ DomainRestore(h)
  PROVE  StampInv'
<1>1. PICK j : j = job[h]
  OBVIOUS
<1>2. j \in DomainJobs /\ JobFit(j)
  BY <1>1, JobKinds DEF DomainClaim, SetIncus, CreateIncus, DomainCompensate, DomainRestore, At, HandlersInv, StampInv
<1>3. PICK p : p = j.p
  OBVIOUS
<1>4. p \in Projects /\ ActsFor(job[h], p) /\ j.n \in Names
  BY <1>1, <1>2, <1>3 DEF DomainJobs, ActsFor
<1>5. \A g \in Handlers \ {h} : job'[g] = job[g]
  BY Moves DEF DomainClaim, SetIncus, CreateIncus, DomainCompensate, DomainRestore, Step, Done
<1>6. incusDomain \in [Projects -> Names \cup {NoDomain}]
  BY DEF StampInv
<1>7. SUFFICES /\ Elsewhere(p) /\ incusDomain' \in [Projects -> Names \cup {NoDomain}]
               /\ JobFit(job[h])'
               /\ \A c \in claims' : c.project = p => InFlight(p)' \/ Carries(c)'
  BY <1>4, <1>5, OwnerStep
<1>8. ASSUME NEW k, job'[h] = k, k.pc \notin OwnerJobs
      PROVE  JobFit(job[h])'
  BY <1>8 DEF JobFit, OwnerJobs, StampJobs
<1>9. ASSUME NEW k, job'[h] = k, k.pc \in StampJobs, k.p = p
      PROVE  InFlight(p)'
  BY <1>9 DEF InFlight
<1>10. CASE DomainClaim(h)
  <2>1. live' = live /\ incusDomain' = incusDomain /\ j.pc = "claim"
    BY <1>1, <1>10 DEF DomainClaim, incus, At
  <2>2. \A row : Carries(row) <=> Carries(row)'
    BY <2>1 DEF Carries
  <2>3. \A c \in claims : c.project = p => Carries(c)
    BY <1>1, <1>4, <2>1, Settled DEF StampJobs
  <2>4. CASE claims' = claims /\ Done(h)
    <3>1. JobFit(job[h])'
      BY <2>4, <1>8, Moves DEF Idle, OwnerJobs, StampJobs
    <3> QED BY <1>6, <2>1, <2>2, <2>3, <2>4, <3>1 DEF Elsewhere
  <2>5. CASE ClaimProjectDomain(j.p, j.n, j.z) /\ Goto(h, [j EXCEPT !.pc = j.op, !.prev = ClaimOf(j.p)])
    <3> DEFINE k == [j EXCEPT !.pc = j.op, !.prev = ClaimOf(j.p)]
    <3>1. k.pc \in {"set", "create"} /\ k.p = p /\ k.n = j.n /\ k.prev = ClaimOf(p)
      BY <1>2, <1>3 DEF DomainJobs
    <3> HIDE DEF k
    <3>2. job'[h] = k
      BY <2>5, Moves DEF k
    <3>3. claims' = (claims \ ClaimOf(p)) \cup {[domain |-> j.n, project |-> p, zone |-> j.z]}
      BY <1>3, <2>5 DEF ClaimProjectDomain
    <3>4. \A c \in claims' : c.project = p => c.domain = j.n
      BY <3>3 DEF ClaimOf
    <3>5. \A row \in ClaimOf(p) : row.project = p /\ Carries(row)'
      BY <2>2, <2>3 DEF ClaimOf
    <3>6. PICK prev : prev = ClaimOf(p)
      OBVIOUS
    <3>7. job'[h].pc \in {"set", "create"} /\ job'[h].p = p /\ job'[h].n = j.n /\ job'[h].prev = prev
      BY <3>1, <3>2, <3>6
    <3>8. \A c \in ClaimOf(p)' : c.domain = j.n
      BY <3>4 DEF ClaimOf
    <3>9. JobFit(job[h])'
      BY <3>5, <3>6, <3>7, <3>8 DEF JobFit
    <3>10. InFlight(p)'
      BY <3>7 DEF InFlight, StampJobs
    <3>11. Elsewhere(p)
      BY <2>1, <3>3 DEF Elsewhere
    <3> QED BY <1>6, <2>1, <3>9, <3>10, <3>11
  <2> QED BY <1>1, <1>10, <2>4, <2>5 DEF DomainClaim, registry
<1>11. CASE SetIncus(h) \/ CreateIncus(h)
  <2>1. claims' = claims /\ j.pc \in {"set", "create"}
    BY <1>1, <1>11 DEF SetIncus, CreateIncus, registry, At
  <2>2. \A c \in claims : c.project = p => c.domain = j.n
    BY <1>2, <1>3, <2>1 DEF JobFit, ClaimOf
  <2>3. CASE /\ incusDomain' = [incusDomain EXCEPT ![p] = j.n]
             /\ p \in live' /\ live' \subseteq live \cup {p} /\ live \subseteq live' /\ Done(h)
    <3>1. JobFit(job[h])'
      BY <2>3, <1>8, Moves DEF Idle, OwnerJobs, StampJobs
    <3>2. \A c \in claims' : c.project = p => Carries(c)'
      BY <1>4, <1>6, <2>1, <2>2, <2>3 DEF Carries
    <3>3. Elsewhere(p)
      BY <1>6, <2>1, <2>3 DEF Elsewhere
    <3> QED BY <1>4, <1>6, <2>3, <3>1, <3>2, <3>3
  <2>4. CASE incusDomain' = incusDomain /\ live' = live /\ Step(h, "compensate")
    <3> DEFINE k == [j EXCEPT !.pc = "compensate"]
    <3>1. k.pc = "compensate" /\ k.p = p /\ k.prev = j.prev
      BY <1>2, <1>3 DEF DomainJobs
    <3> HIDE DEF k
    <3>2. job'[h] = k
      BY <1>1, <2>4, Moves DEF k
    <3>3. \A row \in j.prev : row.project = p /\ Carries(row)
      BY <1>2, <1>3, <2>1 DEF JobFit
    <3>4. \A row : Carries(row) <=> Carries(row)'
      BY <2>4 DEF Carries
    <3>5. job'[h].pc = "compensate" /\ job'[h].p = p /\ job'[h].prev = j.prev
      BY <3>1, <3>2
    <3>6. JobFit(job[h])'
      BY <3>3, <3>4, <3>5 DEF JobFit
    <3>7. InFlight(p)'
      BY <3>5 DEF InFlight, StampJobs
    <3> QED BY <1>6, <2>1, <2>4, <3>6, <3>7 DEF Elsewhere
  <2> QED BY <1>1, <1>3, <1>11, <2>3, <2>4 DEF SetIncus, CreateIncus
<1>12. CASE DomainCompensate(h)
  <2>1. claims' = claims \ ClaimOf(p) /\ live' = live /\ incusDomain' = incusDomain /\ j.pc = "compensate"
    BY <1>1, <1>3, <1>12 DEF DomainCompensate, ReleaseProjectDomainClaim, incus, At
  <2>2. \A row : Carries(row) <=> Carries(row)'
    BY <2>1 DEF Carries
  <2>3. \A c \in claims' : c.project # p
    BY <2>1 DEF ClaimOf
  <2>4. Elsewhere(p)
    BY <2>1 DEF Elsewhere
  <2>5. CASE Done(h)
    BY <1>6, <1>8, <2>1, <2>3, <2>4, <2>5, Moves DEF Idle, OwnerJobs, StampJobs
  <2>6. CASE Step(h, "restore")
    <3> DEFINE k == [j EXCEPT !.pc = "restore"]
    <3>1. k.pc = "restore" /\ k.p = p /\ k.prev = j.prev
      BY <1>2, <1>3 DEF DomainJobs
    <3> HIDE DEF k
    <3>2. job'[h] = k
      BY <1>1, <2>6, Moves DEF k
    <3>3. \A row \in j.prev : row.project = p /\ Carries(row)
      BY <1>2, <1>3, <2>1 DEF JobFit
    <3>4. job'[h].pc = "restore" /\ job'[h].p = p /\ job'[h].prev = j.prev
      BY <3>1, <3>2
    <3>5. JobFit(job[h])'
      BY <2>2, <3>3, <3>4 DEF JobFit
    <3> QED BY <1>6, <2>1, <2>3, <2>4, <3>5
  <2> QED BY <1>12, <2>5, <2>6 DEF DomainCompensate
<1>13. CASE DomainRestore(h)
  <2>1. live' = live /\ incusDomain' = incusDomain /\ j.pc = "restore" /\ Done(h)
    BY <1>1, <1>13 DEF DomainRestore, incus, At
  <2>2. \A row : Carries(row) <=> Carries(row)'
    BY <2>1 DEF Carries
  <2>3. \A c \in claims : c.project = p => Carries(c)
    BY <1>1, <1>4, <2>1, Settled DEF StampJobs
  <2>4. JobFit(job[h])'
    BY <2>1, <1>8, Moves DEF Idle, OwnerJobs, StampJobs
  <2>5. PICK row \in j.prev : claims' = claims \/ claims' = claims \cup {row}
    BY <1>1, <1>13 DEF DomainRestore, restoreProjectDomainClaim, registry
  <2>6. row.project = p /\ Carries(row)
    BY <1>2, <1>3, <2>1, <2>5 DEF JobFit
  <2>7. \A c \in claims' : c.project = p => Carries(c)'
    BY <2>2, <2>3, <2>5, <2>6
  <2>8. Elsewhere(p)
    BY <2>1, <2>5, <2>6 DEF Elsewhere
  <2> QED BY <1>6, <2>1, <2>4, <2>7, <2>8
<1> QED BY <1>10, <1>11, <1>12, <1>13

\* unset-domain and project delete change the project after its claim is gone.
LEMMA ProjectStamps ==
  ASSUME HandlersInv, HandlersInv', StampInv, OneRequestPerProject, OneRequestPerProject',
         NEW h \in Handlers, UnsetIncus(h) \/ DeleteList(h) \/ DeleteDrop(h) \/ DeleteIncus(h)
  PROVE  StampInv'
<1>0. Done(h) => job'[h].pc = "idle"
  BY Moves
<1>1. PICK j : j = job[h]
  OBVIOUS
<1>2. j \in ProjectJobs \cup DeleteJobs /\ JobFit(j) /\ j.pc \in {"unset", "list", "drop"}
  BY <1>1, JobKinds DEF UnsetIncus, DeleteList, DeleteDrop, DeleteIncus, At, HandlersInv, StampInv
<1>3. PICK p : p = j.p
  OBVIOUS
<1>4. p \in Projects /\ ActsFor(job[h], p)
  BY <1>1, <1>2, <1>3 DEF ProjectJobs, DeleteJobs, ActsFor
<1>5. \A g \in Handlers \ {h} : job'[g] = job[g]
  BY Moves DEF UnsetIncus, DeleteList, DeleteDrop, DeleteIncus, Done
<1>6. incusDomain \in [Projects -> Names \cup {NoDomain}]
  BY DEF StampInv
<1>7. claims' = claims
  BY DEF UnsetIncus, DeleteList, DeleteDrop, DeleteIncus, ReleaseMachineHostname, registry
<1>8. ClaimOf(p) = {} /\ ClaimOf(p)' = {}
  BY <1>2, <1>3, <1>7 DEF JobFit, ClaimOf
<1>9. \A c \in claims' : c.project # p
  BY <1>8 DEF ClaimOf
<1>10. Elsewhere(p) /\ incusDomain' \in [Projects -> Names \cup {NoDomain}]
  <2>1. CASE UnsetIncus(h)
    <3>1. live' = live /\ (incusDomain' = incusDomain \/ incusDomain' = [incusDomain EXCEPT ![p] = NoDomain])
      BY <1>1, <1>3, <2>1 DEF UnsetIncus
    <3> QED BY <1>4, <1>6, <1>7, <3>1 DEF Elsewhere
  <2>2. CASE DeleteList(h) \/ DeleteDrop(h)
    BY <1>6, <1>7, <2>2 DEF Elsewhere, DeleteList, DeleteDrop, incus
  <2>3. CASE DeleteIncus(h)
    BY <1>1, <1>3, <1>4, <1>6, <1>7, <2>3 DEF Elsewhere, DeleteIncus
  <2> QED BY <2>1, <2>2, <2>3
<1>11. job'[h].pc = "idle" \/ (job'[h].pc = "drop" /\ job'[h].p = p)
  <2>1. CASE UnsetIncus(h) \/ DeleteIncus(h)
    <3>1. Done(h)
      BY <2>1 DEF UnsetIncus, DeleteIncus
    <3> QED BY <1>0, <3>1
  <2>2. CASE DeleteList(h)
    <3>1. job'[h] = [pc |-> "drop", p |-> p, todo |-> {k \in hostnames : ProjectOf[k.machine] = p}]
      BY <1>1, <1>3, <2>2 DEF DeleteList, Goto, HandlersInv
    <3> QED BY <3>1
  <2>3. CASE DeleteDrop(h)
    <3>1. PICK x \in j.todo : Goto(h, [job[h] EXCEPT !.todo = @ \ {x}])
      BY <1>1, <2>3 DEF DeleteDrop
    <3> DEFINE k == [j EXCEPT !.todo = @ \ {x}]
    <3>2. j \in DeleteJobs
      BY <1>1, <2>3, JobKinds DEF DeleteDrop, At, HandlersInv
    <3>3. k.pc = "drop" /\ k.p = p
      BY <1>3, <3>2 DEF DeleteJobs
    <3> HIDE DEF k
    <3>4. job'[h] = k
      BY <1>1, <3>1, Moves DEF k
    <3> QED BY <3>3, <3>4
  <2> QED BY <2>1, <2>2, <2>3
<1>12. JobFit(job[h])'
  BY <1>8, <1>11 DEF JobFit
<1> QED BY <1>4, <1>5, <1>9, <1>10, <1>12, OwnerStep

\* The collector only takes claims away.
LEMMA CollectorStamps ==
  ASSUME HandlersInv, StampInv, claims' \subseteq claims, UNCHANGED <<job, live, incusDomain>>
  PROVE  StampInv'
<1>1. \A row : Carries(row) <=> Carries(row)'
  BY DEF Carries
<1>2. \A q : ClaimOf(q)' \subseteq ClaimOf(q)
  BY DEF ClaimOf
<1>3. \A h \in Handlers : JobFit(job[h])'
  BY <1>1, <1>2 DEF JobFit, StampInv
<1>4. \A q : InFlight(q) <=> InFlight(q)'
  BY DEF InFlight
<1> QED BY <1>1, <1>3, <1>4 DEF StampInv

\* Incus, changed by the CLI and out of band.
LEMMA EnvironmentStamps ==
  ASSUME HandlersInv, StampInv, ~({"oob", "project"} \subseteq Requests), Environment
  PROVE  StampInv'
<1>0. claims' = claims /\ job' = job
  BY DEF Environment, CooldownExpires, ProjectCreated, ProjectDeleted, InstanceCreated, CreateGivenUp,
         InstanceDeleted, registry
<1>1. CASE live' = live /\ incusDomain' = incusDomain
  BY <1>0, <1>1, CollectorStamps
<1>2. ASSUME NEW p \in Projects, ProjectCreated(p) \/ ProjectDeleted(p)
      PROVE  StampInv'
  <2>1. ASSUME NEW row \in ClaimRows, Carries(row)
        PROVE  Carries(row)'
    <3>1. CASE ProjectCreated(p)
      BY <2>1, <3>1 DEF ProjectCreated, Carries
    <3>2. CASE ProjectDeleted(p)
      BY <2>1, <3>2 DEF ProjectDeleted, Carries, StampInv, ClaimRows
    <3> QED BY <1>2, <3>1, <3>2
  <2>2. incusDomain' \in [Projects -> Names \cup {NoDomain}]
    BY <1>2 DEF ProjectCreated, ProjectDeleted, StampInv
  <2>3. \A q : ClaimOf(q)' = ClaimOf(q) /\ (InFlight(q) <=> InFlight(q)')
    BY <1>0 DEF ClaimOf, InFlight
  <2>4. ASSUME NEW h \in Handlers PROVE JobFit(job[h])'
    <3>1. job[h].pc \in {"set", "create", "compensate", "restore"} => job[h].prev \subseteq ClaimRows
      BY JobKinds DEF HandlersInv, DomainJobs
    <3> QED BY <1>0, <2>1, <2>3, <3>1 DEF JobFit, StampInv
  <2>5. \A c \in claims : c \in ClaimRows
    BY DEF HandlersInv, Inv, TypeOK
  <2> QED BY <1>0, <2>1, <2>2, <2>3, <2>4, <2>5 DEF StampInv
<1> QED BY <1>1, <1>2 DEF Environment, CooldownExpires, InstanceCreated, CreateGivenUp, InstanceDeleted, incus

\* Every step keeps the projects and their claims together.
LEMMA StampStep ==
  ASSUME HandlersInv, HandlersInv', StampInv, OneRequestPerProject, OneRequestPerProject',
         "partial" \notin Faults, ~({"oob", "project"} \subseteq Requests), [HandlersNext]_vars
  PROVE  StampInv'
<1>1. ASSUME NEW h \in Handlers, Begin(h) \/ Continue(h)
      PROVE  StampInv'
  BY <1>1, BeginStamps, DomainStamps, ProjectStamps, OtherSteps DEF Continue
<1>2. CASE GC
  <2>1. claims' \subseteq claims
    BY <1>2 DEF GC, GCListProjects, GCListClaims, GCPruneClaim, GCListMachines, GCListMachinesFails, GCListHosts,
                GCPruneHost, GCDone, PruneProjectDomainClaim, ReleaseMachineHostname, registry
  <2>2. UNCHANGED <<job, live, incusDomain>>
    BY <1>2, CollectorSteps DEF incus
  <2> QED BY <2>1, <2>2, CollectorStamps
<1>3. CASE UNCHANGED vars
  BY <1>3, CollectorStamps DEF vars, registry, incus
<1> QED BY <1>1, <1>2, <1>3, EnvironmentStamps DEF HandlersNext

\* Whatever requests, failures and collector passes come in whatever order, a
\* live project carries the domain it holds once the requests have ended.  The
\* code serializes no requests for one project, so their not meeting is a
\* hypothesis; so is that an Incus write happens or does not, and that a project
\* deleted behind the Auth App's back is not made again before the collector
\* has taken its claim: without any of the three the invariant fails.
THEOREM ClaimsAreStamped ==
  ASSUME "partial" \notin Faults, ~({"oob", "project"} \subseteq Requests)
  PROVE  HandlersSpec /\ []OneRequestPerProject => []ClaimStamped
<1>1. HandlersInit => StampInv
  BY DEF HandlersInit, Init, StampInv, JobFit, Idle
<1>2. HandlersInv /\ HandlersInv' /\ StampInv /\ OneRequestPerProject /\ OneRequestPerProject' /\ [HandlersNext]_vars
        => StampInv'
  BY StampStep
<1>3. HandlersInv /\ [HandlersNext]_vars => HandlersInv'
  BY HandlersStep
<1>4. StampInv => ClaimStamped
  <2> SUFFICES ASSUME StampInv, \A h \in Handlers : job[h] = Idle, NEW c \in claims, c.project \in live
               PROVE  incusDomain[c.project] = c.domain
    BY DEF ClaimStamped
  <2>1. ~InFlight(c.project)
    BY DEF InFlight, Idle, StampJobs
  <2> QED BY <2>1 DEF StampInv, Carries
<1> QED BY <1>1, <1>2, <1>3, <1>4, HandlersStart, PTL DEF HandlersSpec
=============================================================================
