-------------------------- MODULE TenantProvisioning --------------------------
(***************************************************************************)
(* Provisioning a Personal Tenant at login, deleting one, and the slow     *)
(* loop's collection of DNS suffix claims.  Incus holds a tenant as three  *)
(* objects made and destroyed one request at a time: the shared bridge,    *)
(* the infra project that records its /24 and DNS suffix, and the app      *)
(* project, the only one the tenant listing shows.  The database holds the *)
(* dns_suffix_claims rows.                                                 *)
(*                                                                         *)
(* Logins lock per device code, so logins of different tenants, and of one *)
(* tenant from two devices, interleave.  A login may stop after any step:  *)
(* an Incus error, its eight-minute deadline, or a restart.                *)
(***************************************************************************)
EXTENDS Naturals

CONSTANTS
  Tenants,
  Suffixes,
  DefaultSuffix,  \* the suffix a tenant gets when it asks for none: its name
  PoolSize,       \* number of /24s in the tenant CIDR pool
  Logins,         \* provisions running at the same time
  Requests,       \* subset of {"login", "relogin", "delete", "gc"}
  Faults,         \* subset of {"list", "stop"}
  Unset

ASSUME ProvisioningAssumption ==
  /\ DefaultSuffix \in [Tenants -> Suffixes]
  /\ PoolSize \in Nat
  /\ Unset \notin Suffixes

VARIABLES
  claims,     \* rows of dns_suffix_claims
  bridge,     \* the /24 of a tenant's bridge
  infra,      \* the /24 and the suffix on its infra project
  apps,       \* the tenants whose app project exists
  login, del, gc

incus == <<bridge, infra, apps>>
vars == <<claims, incus, login, del, gc>>

CIDRs == 0 .. PoolSize - 1
NoCIDR == PoolSize
NoInfra == [cidr |-> NoCIDR, suffix |-> Unset]
InfraRecords == [cidr : CIDRs, suffix : Suffixes] \cup {NoInfra}
ClaimRows == [suffix : Suffixes, tenant : Tenants]
Idle == [pc |-> "idle"]
LoginJobs == {Idle} \cup [pc : {"claim", "bridge", "infra", "app"}, tenant : Tenants,
                          suffix : Suffixes, cidr : CIDRs]
DeleteJobs == {Idle} \cup [pc : {"apps", "infra", "bridge"}, tenant : Tenants]
Passes == {Idle} \cup [pc : {"list"}, live : SUBSET Tenants]
                 \cup [pc : {"prune"}, orphans : SUBSET Tenants]

Init ==
  /\ claims = {}
  /\ bridge = [t \in Tenants |-> NoCIDR]
  /\ infra = [t \in Tenants |-> NoInfra]
  /\ apps = {}
  /\ login = [l \in Logins |-> Idle]
  /\ del = Idle
  /\ gc = Idle

-----------------------------------------------------------------------------
(* ensurePersonalTenantV2                                                  *)

\* ProvisionReuseInputs: the /24s on other tenants' infra projects.
Occupied(t) == {infra[u].cidr : u \in Tenants \ {t}} \ {NoCIDR}

\* cidr.Allocate: the pool's first /24 that is not occupied.
Allocate(occupied) == CHOOSE c \in CIDRs \ occupied : \A d \in CIDRs \ occupied : c <= d

PlannedCIDR(t) == IF infra[t] # NoInfra THEN infra[t].cidr ELSE Allocate(Occupied(t))

\* Mutant: a blank suffix does not default to the tenant's name.
PlannedSuffixesUnresolved(t, requested) ==
  IF infra[t] = NoInfra THEN {requested} ELSE {infra[t].suffix}

\* What PlanCreateV2 makes of the requested and the stored suffix; none, when
\* the two differ.
PlannedSuffixes(t, requested) ==
  LET wanted == {requested} \ {Unset}
      stored == {infra[t].suffix} \ {Unset}
  IN IF wanted \cup stored = {} THEN {DefaultSuffix[t]}
     ELSE IF wanted # {} /\ stored # {} /\ wanted # stored THEN {}
     ELSE wanted \cup stored

Start(l, t, s, c) == login' = [login EXCEPT ![l] = [pc |-> "claim", tenant |-> t, suffix |-> s, cidr |-> c]]

MayLogin(l, t) ==
  /\ login[l] = Idle
  /\ "login" \in Requests
  /\ "relogin" \in Requests \/ \A m \in Logins : login[m] # Idle => login[m].tenant # t

Plan(l, t, requested) ==
  /\ MayLogin(l, t)
  /\ infra[t] # NoInfra \/ CIDRs \ Occupied(t) # {}
  /\ \E s \in PlannedSuffixes(t, requested) : Start(l, t, s, PlannedCIDR(t))
  /\ UNCHANGED <<claims, incus, del, gc>>

\* A failed listing is ignored: the plan is made from nothing.
PlanUnlisted(l, t, requested) ==
  /\ MayLogin(l, t)
  /\ "list" \in Faults /\ PoolSize > 0
  /\ Start(l, t, IF requested = Unset THEN DefaultSuffix[t] ELSE requested, 0)
  /\ UNCHANGED <<claims, incus, del, gc>>

Proceed(l, pc) == login' = [login EXCEPT ![l].pc = pc]
End(l) == login' = [login EXCEPT ![l] = Idle]

Held(t) == {r \in claims : r.tenant = t}
Row(j) == [suffix |-> j.suffix, tenant |-> j.tenant]

\* Mutant: a tenant's own row is updated on conflict, as if the suffix were
\* not immutable.
ClaimReplacing(l) ==
  /\ login[l].pc = "claim"
  /\ LET j == login[l] IN
       \/ /\ \A r \in claims : r.suffix = j.suffix => r.tenant = j.tenant
          /\ claims' = (claims \ Held(j.tenant)) \cup {Row(j)}
          /\ Proceed(l, "bridge")
       \/ /\ \E r \in claims : r.suffix = j.suffix /\ r.tenant # j.tenant
          /\ End(l)
          /\ UNCHANGED claims
  /\ UNCHANGED <<incus, del, gc>>

\* Mutant: the table's key is the tenant alone.
ClaimPerTenant(l) ==
  /\ login[l].pc = "claim"
  /\ LET j == login[l] IN
       \/ /\ \A r \in claims : r.tenant = j.tenant => r = Row(j)
          /\ claims' = claims \cup {Row(j)}
          /\ Proceed(l, "bridge")
       \/ /\ \E r \in claims : r.tenant = j.tenant /\ r # Row(j)
          /\ End(l)
          /\ UNCHANGED claims
  /\ UNCHANGED <<incus, del, gc>>

\* The INSERT is the gate; a conflict with the tenant's own row is a re-login,
\* any other is terminal.
ClaimDNSSuffix(l) ==
  /\ login[l].pc = "claim"
  /\ LET j == login[l] IN
       \/ /\ \A r \in claims : r.suffix # j.suffix /\ r.tenant # j.tenant
          /\ claims' = claims \cup {Row(j)}
          /\ Proceed(l, "bridge")
       \/ /\ Row(j) \in claims
          /\ Proceed(l, "bridge")
          /\ UNCHANGED claims
       \/ /\ Row(j) \notin claims
          /\ \E r \in claims : r.suffix = j.suffix \/ r.tenant = j.tenant
          /\ End(l)
          /\ UNCHANGED claims
  /\ UNCHANGED <<incus, del, gc>>

\* Mutant: a refused bridge is logged and the login goes on.
EnsureBridgeIgnoringRefusal(l) ==
  /\ login[l].pc = "bridge"
  /\ LET j == login[l] IN
       bridge' = IF bridge[j.tenant] = NoCIDR /\ \A u \in Tenants : bridge[u] # j.cidr
                   THEN [bridge EXCEPT ![j.tenant] = j.cidr] ELSE bridge
  /\ Proceed(l, "infra")
  /\ UNCHANGED <<claims, infra, apps, del, gc>>

\* ensureV2Bridge: an existing bridge keeps its address; Incus refuses a new
\* one on an address in use.
EnsureBridge(l) ==
  /\ login[l].pc = "bridge"
  /\ LET j == login[l] IN
       \/ /\ bridge[j.tenant] # NoCIDR
          /\ Proceed(l, "infra")
          /\ UNCHANGED bridge
       \/ /\ bridge[j.tenant] = NoCIDR
          /\ \A u \in Tenants : bridge[u] # j.cidr
          /\ bridge' = [bridge EXCEPT ![j.tenant] = j.cidr]
          /\ Proceed(l, "infra")
       \/ /\ bridge[j.tenant] = NoCIDR
          /\ \E u \in Tenants : bridge[u] = j.cidr
          /\ End(l)
          /\ UNCHANGED bridge
  /\ UNCHANGED <<claims, infra, apps, del, gc>>

\* ensureV2Project of the infra project: created, or its keys overwritten.
EnsureInfra(l) ==
  /\ login[l].pc = "infra"
  /\ infra' = [infra EXCEPT ![login[l].tenant] = [cidr |-> login[l].cidr, suffix |-> login[l].suffix]]
  /\ Proceed(l, "app")
  /\ UNCHANGED <<claims, bridge, apps, del, gc>>

\* ensureV2Project of the app project, then the sidecar and the token.
EnsureApp(l) ==
  /\ login[l].pc = "app"
  /\ apps' = apps \cup {login[l].tenant}
  /\ End(l)
  /\ UNCHANGED <<claims, bridge, infra, del, gc>>

Stop(l) ==
  /\ login[l] # Idle /\ "stop" \in Faults
  /\ End(l)
  /\ UNCHANGED <<claims, incus, del, gc>>

-----------------------------------------------------------------------------
(* sc-adm tenant delete: PlanDeleteV2 finds a tenant by its app projects,  *)
(* DeleteTenantV2 removes them, the infra project and the bridge           *)

DeletePlan(t) ==
  /\ "delete" \in Requests /\ del = Idle
  /\ t \in apps
  /\ del' = [pc |-> "apps", tenant |-> t]
  /\ UNCHANGED <<claims, incus, login, gc>>

DeleteApps ==
  /\ del.pc = "apps"
  /\ apps' = apps \ {del.tenant}
  /\ del' = [del EXCEPT !.pc = "infra"]
  /\ UNCHANGED <<claims, bridge, infra, login, gc>>

DeleteInfra ==
  /\ del.pc = "infra"
  /\ infra' = [infra EXCEPT ![del.tenant] = NoInfra]
  /\ del' = [del EXCEPT !.pc = "bridge"]
  /\ UNCHANGED <<claims, bridge, apps, login, gc>>

DeleteBridge ==
  /\ del.pc = "bridge"
  /\ bridge' = [bridge EXCEPT ![del.tenant] = NoCIDR]
  /\ del' = Idle
  /\ UNCHANGED <<claims, infra, apps, login, gc>>

-----------------------------------------------------------------------------
(* reconcileSuffixClaimsOnce                                               *)

\* The tenant listing; an empty one is never trusted.
GCListTenants ==
  /\ "gc" \in Requests /\ gc = Idle
  /\ apps # {}
  /\ gc' = [pc |-> "list", live |-> apps]
  /\ UNCHANGED <<claims, incus, login, del>>

\* Mutant: the live tenants, not the others, are taken for orphans' rows.
GCListClaimsLive ==
  /\ gc.pc = "list"
  /\ gc' = [pc |-> "prune", orphans |-> {r.tenant : r \in {q \in claims : q.tenant \in gc.live}}]
  /\ UNCHANGED <<claims, incus, login, del>>

GCListClaims ==
  /\ gc.pc = "list"
  /\ gc' = [pc |-> "prune", orphans |-> {r.tenant : r \in {q \in claims : q.tenant \notin gc.live}}]
  /\ UNCHANGED <<claims, incus, login, del>>

\* ReleaseDNSSuffixClaim, one orphan at a time.
GCPrune ==
  /\ gc.pc = "prune"
  /\ \/ \E t \in gc.orphans :
          /\ claims' = claims \ Held(t)
          /\ gc' = [gc EXCEPT !.orphans = @ \ {t}]
     \/ gc.orphans = {} /\ gc' = Idle /\ UNCHANGED claims
  /\ UNCHANGED <<incus, login, del>>

-----------------------------------------------------------------------------
LoginStep(l) == ClaimDNSSuffix(l) \/ EnsureBridge(l) \/ EnsureInfra(l) \/ EnsureApp(l)
GC == GCListTenants \/ GCListClaims \/ GCPrune

Next ==
  \/ \E l \in Logins, t \in Tenants, s \in Suffixes \cup {Unset} : Plan(l, t, s) \/ PlanUnlisted(l, t, s)
  \/ \E l \in Logins : LoginStep(l) \/ Stop(l)
  \/ \E t \in Tenants : DeletePlan(t)
  \/ DeleteApps \/ DeleteInfra \/ DeleteBridge
  \/ GC

Spec == Init /\ [][Next]_vars

\* Goroutines and the five-minute ticker keep running.
FairSpec == Spec /\ WF_vars(GC) /\ \A l \in Logins : WF_vars(LoginStep(l))

-----------------------------------------------------------------------------
\* Claims, Incus objects and the jobs' local variables keep to their types.
TypeOK ==
  /\ claims \subseteq ClaimRows
  /\ bridge \in [Tenants -> CIDRs \cup {NoCIDR}]
  /\ infra \in [Tenants -> InfraRecords]
  /\ apps \subseteq Tenants
  /\ login \in [Logins -> LoginJobs]
  /\ del \in DeleteJobs
  /\ gc \in Passes

\* No two tenants of the install carry the same DNS suffix, though the logins
\* that write it read nothing of each other: the claim is made before the
\* first Incus object and outlives a failed, stopped or repeated login.
SuffixesDistinct ==
  \A t, u \in Tenants : infra[t].suffix = infra[u].suffix /\ infra[t] # NoInfra => t = u

\* A recorded suffix is immutable: not even a login planned without a tenant
\* listing, or running at the same time from a second device with another
\* --dns-suffix, overwrites it.
SuffixImmutable ==
  [][\A t \in Tenants : infra[t] # NoInfra /\ infra'[t] # NoInfra => infra'[t].suffix = infra[t].suffix]_vars

\* With one login of a tenant at a time, the recorded /24 is the bridge's, even
\* when logins stop between making the bridge and recording it.
RecordMatchesBridge == \A t \in Tenants : infra[t] # NoInfra => infra[t].cidr = bridge[t]

\* With one login of a tenant at a time, no two tenants record the same /24.
CIDRsDistinct ==
  \A t, u \in Tenants : infra[t] # NoInfra /\ infra[t].cidr = infra[u].cidr => t = u

Resting == \A l \in Logins : login[l] = Idle

\* Once logins stop and Incus rests with some tenant left, no claim is left of a
\* tenant without an app project: one deleted, or whose login stopped short.
OrphanClaimsPruned ==
  <>[](Resting /\ apps # {}) /\ <>[][FALSE]_incus => <>[](\A r \in claims : r.tenant \in apps)

\* dns_suffix_claims.go: the suffix "must be unique on the install"; the
\* table exists "so uniqueness is a real DB constraint rather than a racy
\* scan".
SuffixUniqueOnInstall == SuffixesDistinct

\* list.go: occupied CIDRs are collected "so a new tenant never reuses a /24
\* whose bridge already exists".
NoBridgeReused ==
  \A t, u \in Tenants : infra[t] # NoInfra /\ infra[t].cidr = bridge[u] => t = u

\* provision.go: "Reuse this tenant's existing /24 if it was already
\* provisioned (idempotent re-login)".
OwnCIDRReused ==
  [][\A t \in Tenants : infra[t] # NoInfra /\ infra'[t] # NoInfra => infra'[t].cidr = infra[t].cidr]_vars

\* The /24 a tenant records is its bridge's, and no other tenant records it
\* (AllocateTenantCIDR, ensureV2Bridge, ensureV2Project).
CIDRsSound == RecordMatchesBridge /\ CIDRsDistinct
=============================================================================
