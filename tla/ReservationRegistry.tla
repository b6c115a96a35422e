------------------------- MODULE ReservationRegistry -------------------------
(***************************************************************************)
(* The name registry of the Auth App's SQLite database: the tables         *)
(* public_dns_zones, project_domain_claims, machine_hostnames, routes and  *)
(* machine_tunnel_publications, and every SQL statement or transaction of  *)
(* internal/authapp that writes one of them.                               *)
(*                                                                         *)
(* One action is one write the database makes atomically.  A domain claim  *)
(* and a hostname claim are BEGIN IMMEDIATE transactions whose conflict    *)
(* scan reads the committed tables; every other write is a single          *)
(* statement that only the primary keys, the UNIQUE constraint and the     *)
(* foreign keys restrain.  Which statements a request issues, and in which *)
(* order, is the business of module ReservationHandlers.                   *)
(*                                                                         *)
(* A DNS name is an element of Names; its labels are abstracted to the     *)
(* relation Below ("has the suffix .x").  A hostname with an optional      *)
(* leading "*." is the pair of fields base, wild.  A project stands for a  *)
(* (tenant, project) pair: the tenant alone only shapes the wording of a   *)
(* refusal.  The port of a route or a tunnel belongs to its machine: a     *)
(* second port is one more owner that may not take the name over.          *)
(***************************************************************************)
EXTENDS FiniteSets

CONSTANTS
  Names,          \* normalized DNS names
  Below,          \* pairs <<a, b>>: a ends in "." \o b
  Projects,       \* (tenant, project) pairs
  Machines,
  ProjectOf,      \* the project of a machine
  Derived,        \* triples <<m, d, n>>: n is "<machine m>.<domain d>"
  InstallNames    \* the Auth Hostname and the route base domain

ASSUME BelowAssumption ==
  /\ Below \subseteq Names \X Names
  /\ \A a \in Names : <<a, a>> \notin Below
  /\ \A a, b, c \in Names :
        <<a, b>> \in Below /\ <<b, c>> \in Below => <<a, c>> \in Below
  /\ \A a, b, c \in Names :   \* the ancestors of a name form a chain
        <<a, b>> \in Below /\ <<a, c>> \in Below
          => b = c \/ <<b, c>> \in Below \/ <<c, b>> \in Below

ASSUME OwnerAssumption ==
  /\ ProjectOf \in [Machines -> Projects]
  /\ Derived \subseteq Machines \X Names \X Names
  /\ \A m \in Machines, d, n \in Names : <<m, d, n>> \in Derived => <<n, d>> \in Below
  /\ InstallNames \subseteq Names

VARIABLES
  zones,      \* public_dns_zones
  claims,     \* project_domain_claims
  hostnames,  \* machine_hostnames
  routes,     \* routes
  tunnels,    \* machine_tunnel_publications
  restored    \* history: the claim rows restoreProjectDomainClaim put back

registry == <<zones, claims, hostnames, routes, tunnels, restored>>

ClaimRows == [domain : Names, project : Projects, zone : Names]
HostnameRows == [base : Names, wild : BOOLEAN, machine : Machines, zone : Names]
RouteRows == [base : Names, wild : BOOLEAN, machine : Machines]
TunnelRows == [base : Names, wild : BOOLEAN, machine : Machines]

-----------------------------------------------------------------------------
(* Names and the conflict scans                                            *)

StrictlyBelow(a, b) == <<a, b>> \in Below
AtOrBelow(a, b) == a = b \/ StrictlyBelow(a, b)
Overlap(a, b) == AtOrBelow(a, b) \/ StrictlyBelow(b, a)

\* The registered zone a name falls under: the unique longest suffix.
CoveringZone(n, z, registered) ==
  /\ z \in registered
  /\ AtOrBelow(n, z)
  /\ \A other \in registered : AtOrBelow(n, other) => AtOrBelow(z, other)

\* A row of one of the three hostname tables is keyed by its exact hostname.
Holds(row, b, w) == row.base = b /\ row.wild = w

ClaimOf(p) == {c \in claims : c.project = p}

\* Mutant: a candidate domain above an existing claim is not seen.
DomainConflictDownwardOnly(d, p) ==
  \/ \E n \in InstallNames : AtOrBelow(n, d)
  \/ \E r \in routes : AtOrBelow(r.base, d)
  \/ \E c \in claims : c.project # p /\ AtOrBelow(d, c.domain)
  \/ \E h \in hostnames : Overlap(h.base, d)

\* scanProjectDomainConflicts: install names and routes at or below d, other
\* projects' claims and all hostnames at, above or below d.
DomainConflict(d, p) ==
  \/ \E n \in InstallNames : AtOrBelow(n, d)
  \/ \E r \in routes : AtOrBelow(r.base, d)
  \/ \E c \in claims : c.project # p /\ Overlap(c.domain, d)
  \/ \E h \in hostnames : Overlap(h.base, d)

\* Mutant: any covering claim counts as the caller's own.
OwnCoverAnyProject(c, m, b) == StrictlyBelow(b, c.domain)

\* A claim of the machine's own project that covers the name does not block
\* it, except the name that is the machine's derived name.
OwnCover(c, m, b) == c.project = ProjectOf[m] /\ StrictlyBelow(b, c.domain)

\* A wildcard and a deeper name of the same machine may coexist.
MayCoexist(h, m, b, w) == h.machine = m /\ (w \/ h.wild) /\ h.base # b

HostnameConflict(b, w, m) ==
  \/ \E t \in tunnels : Holds(t, b, w) \/ (~w /\ AtOrBelow(t.base, b))
  \/ ~w /\ \E c \in claims : OwnCover(c, m, b) /\ <<m, c.domain, b>> \in Derived
  \/ \E n \in InstallNames : AtOrBelow(n, b)
  \/ \E r \in routes : AtOrBelow(r.base, b)
  \/ \E c \in claims : Overlap(c.domain, b) /\ ~OwnCover(c, m, b)
  \/ \E h \in hostnames : Overlap(h.base, b) /\ ~MayCoexist(h, m, b, w)

-----------------------------------------------------------------------------
(* The writes                                                              *)

Init ==
  /\ zones = {}
  /\ claims = {}
  /\ hostnames = {}
  /\ routes = {}
  /\ tunnels = {}
  /\ restored = {}

\* ClaimProjectDomain's transaction.  The covering zone z was looked up before
\* the lock; the foreign key refuses it if it has gone since.
ClaimProjectDomain(p, d, z) ==
  /\ z \in zones /\ StrictlyBelow(d, z)
  /\ \A c \in ClaimOf(p) : c.domain # d
  /\ ~DomainConflict(d, p)
  /\ claims' = (claims \ ClaimOf(p)) \cup {[domain |-> d, project |-> p, zone |-> z]}
  /\ restored' = restored \ ClaimOf(p)
  /\ UNCHANGED <<zones, hostnames, routes, tunnels>>

\* DELETE ... WHERE tenant = ? AND project = ?
ReleaseProjectDomainClaim(p) ==
  /\ claims' = claims \ ClaimOf(p)
  /\ restored' = restored \ ClaimOf(p)
  /\ UNCHANGED <<zones, hostnames, routes, tunnels>>

\* The garbage collector's DELETE ... WHERE domain = ?, whoever holds it now.
PruneProjectDomainClaim(d) ==
  /\ claims' = {c \in claims : c.domain # d}
  /\ restored' = {c \in restored : c.domain # d}
  /\ UNCHANGED <<zones, hostnames, routes, tunnels>>

\* INSERT OR IGNORE of a replaced claim: the keys make it a no-op, a missing
\* zone makes it an error, and nothing else is looked at.
restoreProjectDomainClaim(row) ==
  /\ row.zone \in zones /\ StrictlyBelow(row.domain, row.zone)
  /\ \A c \in claims : c.domain # row.domain /\ c.project # row.project
  /\ claims' = claims \cup {row}
  /\ restored' = restored \cup {row}
  /\ UNCHANGED <<zones, hostnames, routes, tunnels>>

\* Mutant: a hostname no zone covers is recorded with an empty zone.
ClaimHostnameOutsideZones(m, b, w, z) ==
  /\ ~HostnameConflict(b, w, m)
  /\ hostnames' = hostnames \cup {[base |-> b, wild |-> w, machine |-> m, zone |-> ""]}
  /\ UNCHANGED <<zones, claims, routes, tunnels, restored>>

\* ClaimMachineHostname's transaction.
ClaimMachineHostname(m, b, w, z) ==
  /\ z \in zones /\ AtOrBelow(b, z)
  /\ \A h \in hostnames : ~(Holds(h, b, w) /\ h.machine = m)
  /\ ~HostnameConflict(b, w, m)
  /\ hostnames' = hostnames \cup {[base |-> b, wild |-> w, machine |-> m, zone |-> z]}
  /\ UNCHANGED <<zones, claims, routes, tunnels, restored>>

\* DELETE FROM machine_hostnames WHERE hostname = ?
ReleaseMachineHostname(b, w) ==
  /\ hostnames' = {h \in hostnames : ~Holds(h, b, w)}
  /\ UNCHANGED <<zones, claims, routes, tunnels, restored>>

\* UpsertRoute's INSERT: the reverse checks ran before, outside any lock.
InsertRoute(b, w, m) ==
  /\ \A r \in routes : ~Holds(r, b, w)
  /\ routes' = routes \cup {[base |-> b, wild |-> w, machine |-> m]}
  /\ UNCHANGED <<zones, claims, hostnames, tunnels, restored>>

\* DELETE FROM routes WHERE hostname = ?
DeleteRoute(b, w) ==
  /\ routes' = {r \in routes : ~Holds(r, b, w)}
  /\ UNCHANGED <<zones, claims, hostnames, tunnels, restored>>

ClaimMachineTunnelPublication(b, w, m) ==
  /\ \A t \in tunnels : ~Holds(t, b, w)
  /\ tunnels' = tunnels \cup {[base |-> b, wild |-> w, machine |-> m]}
  /\ UNCHANGED <<zones, claims, hostnames, routes, restored>>

\* Only the exact owner record goes.
ReleaseMachineTunnelPublication(b, w, m) ==
  /\ tunnels' = tunnels \ {[base |-> b, wild |-> w, machine |-> m]}
  /\ UNCHANGED <<zones, claims, hostnames, routes, restored>>

\* AddPublicDNSZone's INSERT; the nesting check ran before it.
AddPublicDNSZone(z) ==
  /\ z \notin zones
  /\ zones' = zones \cup {z}
  /\ UNCHANGED <<claims, hostnames, routes, tunnels, restored>>

\* RemovePublicDNSZone's DELETE: refused by the foreign keys while referenced.
RemovePublicDNSZone(z) ==
  /\ \A c \in claims : c.zone # z
  /\ \A h \in hostnames : h.zone # z
  /\ zones' = zones \ {z}
  /\ UNCHANGED <<claims, hostnames, routes, tunnels, restored>>

Next ==
  \/ \E p \in Projects, d, z \in Names : ClaimProjectDomain(p, d, z)
  \/ \E p \in Projects : ReleaseProjectDomainClaim(p)
  \/ \E d \in Names : PruneProjectDomainClaim(d)
  \/ \E row \in ClaimRows : restoreProjectDomainClaim(row)
  \/ \E m \in Machines, b, z \in Names, w \in BOOLEAN : ClaimMachineHostname(m, b, w, z)
  \/ \E b \in Names, w \in BOOLEAN : ReleaseMachineHostname(b, w)
  \/ \E b \in Names, w \in BOOLEAN, m \in Machines : InsertRoute(b, w, m)
  \/ \E b \in Names, w \in BOOLEAN : DeleteRoute(b, w)
  \/ \E b \in Names, w \in BOOLEAN, m \in Machines : ClaimMachineTunnelPublication(b, w, m)
  \/ \E b \in Names, w \in BOOLEAN, m \in Machines : ReleaseMachineTunnelPublication(b, w, m)
  \/ \E z \in Names : AddPublicDNSZone(z)
  \/ \E z \in Names : RemovePublicDNSZone(z)

Spec == Init /\ [][Next]_registry

-----------------------------------------------------------------------------
(* What the registry promises                                              *)

\* The tables hold rows of their types; only restored claims are remembered.
TypeOK ==
  /\ zones \subseteq Names
  /\ claims \subseteq ClaimRows
  /\ hostnames \subseteq HostnameRows
  /\ routes \subseteq RouteRows
  /\ tunnels \subseteq TunnelRows
  /\ restored \subseteq claims

\* Deleting a zone (public_dns_zones.go RemovePublicDNSZone) never strands a
\* reservation: every claim and every hostname names a registered zone, and
\* sits in it, whatever zones were removed and added again around it.
ZonesReferenced ==
  /\ \A c \in claims : c.zone \in zones /\ StrictlyBelow(c.domain, c.zone)
  /\ \A h \in hostnames : h.zone \in zones /\ AtOrBelow(h.base, h.zone)

\* One domain per project, one project per domain, across claim, replace,
\* release, prune and restore in any order (PRIMARY KEY domain, UNIQUE
\* (tenant, project) of project_domain_claims).
OneDomainPerProject ==
  \A c, e \in claims : c.domain = e.domain \/ c.project = e.project => c = e

\* Two claims overlap only when restoreProjectDomainClaim, which repeats no
\* scan, put one of them back: the claim transaction alone keeps every pair of
\* Project Domains disjoint in both directions (scanProjectDomainClaimConflicts).
ClaimsDisjoint ==
  \A c, e \in claims :
    Overlap(c.domain, e.domain) => c = e \/ c \in restored \/ e \in restored

\* Machine Public Hostnames never overlap, in either direction, except a
\* wildcard and another base of one machine (scanMachineHostnameConflicts and
\* the same-machine rule of ClaimMachineHostname).
HostnamesDisjoint ==
  \A h, k \in hostnames :
    Overlap(h.base, k.base) =>
      h = k \/ (h.machine = k.machine /\ h.base # k.base /\ (h.wild \/ k.wild))

\* A hostname meets a Project Domain only from strictly inside, and only the
\* domain of its own machine's project, or a restored one.  Neither scan alone
\* gives this: claims are checked against hostnames by one transaction and
\* hostnames against claims by the other.
HostnamesOutsideForeignDomains ==
  \A c \in claims, h \in hostnames :
    Overlap(c.domain, h.base) =>
      c \in restored \/ (StrictlyBelow(h.base, c.domain) /\ ProjectOf[h.machine] = c.project)

\* PublicHostnamesOfMachine: the derived name under the project's domain and
\* the explicit hostnames.
PublicHostnamesOfMachine(m) ==
  {<<n, FALSE>> : n \in {x \in Names :
      \E c \in claims : c.project = ProjectOf[m] /\ <<m, c.domain, x>> \in Derived}}
    \cup {<<h.base, h.wild>> : h \in {k \in hostnames : k.machine = m}}

\* No name is served by machines of two projects, derived names included, as
\* long as no claim was restored: what a browser reaches under a name is never
\* another tenant's machine.
ServedByOneProject ==
  restored = {} =>
    \A m1, m2 \in Machines :
      PublicHostnamesOfMachine(m1) \cap PublicHostnamesOfMachine(m2) # {}
        => ProjectOf[m1] = ProjectOf[m2]

\* What the tables promise whatever the order of the writes: names reserved for
\* different holders do not overlap, a project holds one domain, and every
\* reservation lies in a registered zone (the conflict scans, the unique and
\* the foreign keys together).
NamesDisjoint ==
  /\ OneDomainPerProject
  /\ ClaimsDisjoint
  /\ HostnamesDisjoint
  /\ HostnamesOutsideForeignDomains
  /\ ZonesReferenced
=============================================================================
