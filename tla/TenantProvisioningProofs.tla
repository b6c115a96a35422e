---------------------- MODULE TenantProvisioningProofs ----------------------
(***************************************************************************)
(* Tenant provisioning for any number of tenants and concurrent logins:    *)
(* types; DNS suffixes, as long as the collector does not run beside the   *)
(* logins (TenantSuffixRace shows what it does when it does); and the /24s *)
(* of tenants that log in from one device at a time and are not deleted.   *)
(***************************************************************************)
EXTENDS TenantProvisioning, WellFoundedInduction, TLAPS

\* The pool's first free /24 exists whenever one is free.
LEMMA AllocateFirst ==
  ASSUME NEW occupied, CIDRs \ occupied # {}
  PROVE  /\ Allocate(occupied) \in CIDRs \ occupied
         /\ \A d \in CIDRs \ occupied : Allocate(occupied) <= d
<1> DEFINE Free == CIDRs \ occupied
<1>1. Free \subseteq Nat /\ Free # {}
  BY DEF CIDRs
<1>2. \E c \in Free : \A d \in Free : ~(<<d, c>> \in OpToRel(<, Nat))
  <2> HIDE DEF Free
  <2> QED BY <1>1, NatLessThanWellFounded, WFMin
<1>3. \E c \in Free : \A d \in Free : c <= d
  <2>1. PICK c \in Free : \A d \in Free : ~(<<d, c>> \in OpToRel(<, Nat))
    BY <1>2
  <2>2. ASSUME NEW d \in Free PROVE c <= d
    <3> HIDE DEF Free
    <3>1. c \in Nat /\ d \in Nat
      BY <1>1
    <3>2. ~(d < c)
      BY <2>1, <3>1 DEF OpToRel
    <3> QED BY <3>1, <3>2
  <2> QED BY <2>2
<1> QED BY <1>3 DEF Allocate

\* The table's two keys.
ClaimsUnique == \A r, q \in claims : r.suffix = q.suffix \/ r.tenant = q.tenant => r = q

\* Every suffix on an infra project is its tenant's row ...
InfraClaimed ==
  \A t \in Tenants : infra[t] # NoInfra => [suffix |-> infra[t].suffix, tenant |-> t] \in claims

\* ... because a login past the INSERT holds its row.
LoginClaimed ==
  \A l \in Logins : login[l].pc \in {"bridge", "infra", "app"} => Row(login[l]) \in claims

SuffixInv ==
  /\ TypeOK
  /\ gc = Idle
  /\ ClaimsUnique
  /\ InfraClaimed
  /\ LoginClaimed

\* An empty install: no claim, no project, no login.
LEMMA InitInv == Init => SuffixInv
<1> SUFFICES ASSUME Init PROVE SuffixInv
  OBVIOUS
<1> USE DEF Init
<1>1. bridge \in [Tenants -> CIDRs \cup {NoCIDR}] /\ infra \in [Tenants -> InfraRecords]
  BY DEF InfraRecords
<1>2. login \in [Logins -> LoginJobs] /\ del \in DeleteJobs /\ gc \in Passes
  BY DEF LoginJobs, DeleteJobs, Passes
<1>3. TypeOK
  BY <1>1, <1>2 DEF TypeOK
<1>4. gc = Idle /\ ClaimsUnique /\ InfraClaimed
  BY DEF ClaimsUnique, InfraClaimed
<1>5. LoginClaimed
  BY DEF LoginClaimed, Idle
<1> QED BY <1>3, <1>4, <1>5 DEF SuffixInv

\* The table's keys make the invariant more than the property.
LEMMA SuffixInvDistinct == SuffixInv => SuffixesDistinct
<1> SUFFICES ASSUME SuffixInv, NEW t \in Tenants, NEW u \in Tenants,
                    infra[t].suffix = infra[u].suffix, infra[t] # NoInfra
             PROVE  t = u
  BY DEF SuffixesDistinct
<1>1. infra[t] \in InfraRecords /\ infra[u] \in InfraRecords
  BY DEF SuffixInv, TypeOK
<1>2. infra[t].suffix \in Suffixes
  BY <1>1 DEF InfraRecords
<1>3. infra[u] # NoInfra
  BY <1>2, ProvisioningAssumption DEF NoInfra, ProvisioningAssumption
<1>4. /\ [suffix |-> infra[t].suffix, tenant |-> t] \in claims
      /\ [suffix |-> infra[u].suffix, tenant |-> u] \in claims
  BY <1>3 DEF SuffixInv, InfraClaimed
<1>5. [suffix |-> infra[t].suffix, tenant |-> t] = [suffix |-> infra[u].suffix, tenant |-> u]
  BY <1>4 DEF SuffixInv, ClaimsUnique
<1> QED BY <1>5

Working == [pc : {"claim", "bridge", "infra", "app"}, tenant : Tenants, suffix : Suffixes, cidr : CIDRs]

\* A login that is running carries its whole plan.
LEMMA JobTyped ==
  ASSUME TypeOK, NEW l \in Logins, login[l].pc # "idle"
  PROVE  login[l] \in Working
  BY DEF TypeOK, LoginJobs, Idle, Working

\* A login that goes on keeps its plan; the others are left alone.
LEMMA ProceedTyped ==
  ASSUME TypeOK, NEW l \in Logins, login[l].pc # "idle",
         NEW pc \in {"claim", "bridge", "infra", "app"}, Proceed(l, pc)
  PROVE  /\ login' \in [Logins -> LoginJobs]
         /\ login'[l].pc = pc /\ Row(login'[l]) = Row(login[l]) /\ login'[l].cidr = login[l].cidr
         /\ \A m \in Logins : m # l => login'[m] = login[m]
<1>1. login[l] \in Working
  BY JobTyped
<1>2. [login[l] EXCEPT !.pc = pc] \in Working
  BY <1>1 DEF Working
<1>3. login' = [login EXCEPT ![l] = [login[l] EXCEPT !.pc = pc]]
  BY DEF Proceed
<1>4. login' \in [Logins -> LoginJobs]
  BY <1>2, <1>3 DEF TypeOK, LoginJobs, Working
<1>5. \A m \in Logins : m # l => login'[m] = login[m]
  BY <1>3 DEF TypeOK
<1>6. login'[l] = [login[l] EXCEPT !.pc = pc]
  BY <1>3 DEF TypeOK
<1> QED BY <1>1, <1>4, <1>5, <1>6 DEF Working, Row

\* A login that ends leaves the others alone.
LEMMA EndTyped ==
  ASSUME TypeOK, NEW l \in Logins, End(l)
  PROVE  /\ login' \in [Logins -> LoginJobs]
         /\ login'[l] = Idle
         /\ \A m \in Logins : m # l => login'[m] = login[m]
  BY DEF TypeOK, End, LoginJobs

\* A login that begins has not claimed yet.
LEMMA StartTyped ==
  ASSUME TypeOK, NEW l \in Logins, NEW t \in Tenants, NEW s \in Suffixes, NEW c \in CIDRs,
         Start(l, t, s, c)
  PROVE  /\ login' \in [Logins -> LoginJobs]
         /\ login'[l].pc = "claim"
         /\ \A m \in Logins : m # l => login'[m] = login[m]
  BY DEF TypeOK, Start, LoginJobs

\* Steps of a login that leave claims and infra alone.
LEMMA LoginOnly ==
  ASSUME SuffixInv, NEW l \in Logins, UNCHANGED <<claims, infra, gc>>,
         TypeOK', \A m \in Logins : m # l => login'[m] = login[m],
         \/ login'[l].pc \in {"idle", "claim"}
         \/ login[l].pc \in {"bridge", "infra", "app"} /\ Row(login'[l]) = Row(login[l])
  PROVE  SuffixInv'
<1>1. gc' = Idle /\ ClaimsUnique' /\ InfraClaimed'
  BY DEF SuffixInv, ClaimsUnique, InfraClaimed
<1>2. LoginClaimed'
  BY DEF SuffixInv, LoginClaimed
<1> QED BY <1>1, <1>2 DEF SuffixInv

\* Every step of a login or a deletion preserves the invariant: the row is
\* inserted before the first Incus object and nothing but the collector takes
\* it away.
LEMMA StepInv ==
  ASSUME "gc" \notin Requests
  PROVE  SuffixInv /\ [Next]_vars => SuffixInv'
<1> SUFFICES ASSUME SuffixInv, [Next]_vars PROVE SuffixInv'
  OBVIOUS
<1>0. TypeOK /\ gc = Idle
  BY DEF SuffixInv
<1>1. ASSUME NEW l \in Logins, NEW t \in Tenants, NEW s \in Suffixes \cup {Unset}, Plan(l, t, s)
      PROVE  SuffixInv'
  <2>1. PlannedCIDR(t) \in CIDRs
    BY <1>0, <1>1, AllocateFirst DEF Plan, PlannedCIDR, TypeOK, InfraRecords, NoInfra
  <2>2. PlannedSuffixes(t, s) \subseteq Suffixes
    BY <1>0, ProvisioningAssumption
       DEF PlannedSuffixes, TypeOK, InfraRecords, NoInfra, ProvisioningAssumption
  <2>3. PICK p \in Suffixes : Start(l, t, p, PlannedCIDR(t))
    BY <1>1, <2>2 DEF Plan
  <2>4. UNCHANGED <<claims, incus, del, gc>>
    BY <1>1 DEF Plan
  <2>5. /\ login' \in [Logins -> LoginJobs]
        /\ login'[l].pc = "claim"
        /\ \A m \in Logins : m # l => login'[m] = login[m]
    BY <1>0, <2>1, <2>3, StartTyped
  <2>6. TypeOK'
    BY <1>0, <2>4, <2>5 DEF TypeOK, incus
  <2> QED BY <2>4, <2>5, <2>6, LoginOnly DEF incus
<1>2. ASSUME NEW l \in Logins, NEW t \in Tenants, NEW s \in Suffixes \cup {Unset},
             PlanUnlisted(l, t, s)
      PROVE  SuffixInv'
  <2>1. 0 \in CIDRs
    BY <1>2, ProvisioningAssumption DEF PlanUnlisted, CIDRs, ProvisioningAssumption
  <2>2. PICK p \in Suffixes : Start(l, t, p, 0)
    BY <1>2, ProvisioningAssumption DEF PlanUnlisted, ProvisioningAssumption
  <2>3. UNCHANGED <<claims, incus, del, gc>>
    BY <1>2 DEF PlanUnlisted
  <2>4. /\ login' \in [Logins -> LoginJobs]
        /\ login'[l].pc = "claim"
        /\ \A m \in Logins : m # l => login'[m] = login[m]
    BY <1>0, <2>1, <2>2, StartTyped
  <2>5. TypeOK'
    BY <1>0, <2>3, <2>4 DEF TypeOK, incus
  <2> QED BY <2>3, <2>4, <2>5, LoginOnly DEF incus
<1>3. ASSUME NEW l \in Logins, Stop(l) PROVE SuffixInv'
  <2>1. UNCHANGED <<claims, incus, del, gc>> /\ End(l)
    BY <1>3 DEF Stop
  <2>2. /\ login' \in [Logins -> LoginJobs]
        /\ login'[l] = Idle
        /\ \A m \in Logins : m # l => login'[m] = login[m]
    BY <1>0, <2>1, EndTyped
  <2>3. TypeOK'
    BY <1>0, <2>1, <2>2 DEF TypeOK, incus
  <2> QED BY <2>1, <2>2, <2>3, LoginOnly DEF incus, Idle
<1>4. ASSUME NEW l \in Logins, ClaimDNSSuffix(l) PROVE SuffixInv'
  <2>1. login[l] \in Working /\ login[l].pc = "claim"
    BY <1>0, <1>4, JobTyped DEF ClaimDNSSuffix
  <2>2. UNCHANGED <<incus, del, gc>>
    BY <1>4 DEF ClaimDNSSuffix
  <2>3. CASE Proceed(l, "bridge") /\ claims' = claims \cup {Row(login[l])}
    <3>1. Row(login[l]) \in ClaimRows
      BY <2>1 DEF Row, Working, ClaimRows
    <3>2. /\ login' \in [Logins -> LoginJobs]
          /\ login'[l].pc = "bridge" /\ Row(login'[l]) = Row(login[l])
          /\ \A m \in Logins : m # l => login'[m] = login[m]
      BY <1>0, <2>1, <2>3, ProceedTyped
    <3>3. TypeOK'
      BY <1>0, <2>2, <2>3, <3>1, <3>2 DEF TypeOK, incus
    <3>4. ClaimsUnique'
      <4>1. \/ \A r \in claims : r.suffix # login[l].suffix /\ r.tenant # login[l].tenant
            \/ Row(login[l]) \in claims
        BY <1>4, <2>3 DEF ClaimDNSSuffix, Row, Working
      <4> QED BY <2>3, <4>1 DEF SuffixInv, ClaimsUnique, Row
    <3>5. InfraClaimed' /\ LoginClaimed'
      BY <2>2, <2>3, <3>2 DEF SuffixInv, InfraClaimed, LoginClaimed, incus
    <3> QED BY <1>0, <2>2, <3>3, <3>4, <3>5 DEF SuffixInv
  <2>4. CASE End(l) /\ claims' = claims
    <3>1. /\ login' \in [Logins -> LoginJobs]
          /\ login'[l] = Idle
          /\ \A m \in Logins : m # l => login'[m] = login[m]
      BY <1>0, <2>4, EndTyped
    <3>2. TypeOK'
      BY <1>0, <2>2, <2>4, <3>1 DEF TypeOK, incus
    <3> QED BY <2>2, <2>4, <3>1, <3>2, LoginOnly DEF incus, Idle
  <2>5. (Proceed(l, "bridge") /\ claims' = claims \cup {Row(login[l])}) \/ (End(l) /\ claims' = claims)
    BY <1>4 DEF ClaimDNSSuffix
  <2> QED BY <2>3, <2>4, <2>5
<1>5. ASSUME NEW l \in Logins, EnsureBridge(l) PROVE SuffixInv'
  <2>1. login[l] \in Working /\ login[l].pc = "bridge"
    BY <1>0, <1>5, JobTyped DEF EnsureBridge
  <2>2. UNCHANGED <<claims, infra, apps, del, gc>>
    BY <1>5 DEF EnsureBridge
  <2>3. bridge' \in [Tenants -> CIDRs \cup {NoCIDR}]
    BY <1>0, <1>5, <2>1 DEF EnsureBridge, TypeOK, Working
  <2>4. CASE Proceed(l, "infra")
    <3>1. /\ login' \in [Logins -> LoginJobs]
          /\ login'[l].pc = "infra" /\ Row(login'[l]) = Row(login[l])
          /\ \A m \in Logins : m # l => login'[m] = login[m]
      BY <1>0, <2>1, <2>4, ProceedTyped
    <3>2. TypeOK'
      BY <1>0, <2>2, <2>3, <3>1 DEF TypeOK
    <3> QED BY <2>1, <2>2, <3>1, <3>2, LoginOnly
  <2>5. CASE End(l)
    <3>1. /\ login' \in [Logins -> LoginJobs]
          /\ login'[l] = Idle
          /\ \A m \in Logins : m # l => login'[m] = login[m]
      BY <1>0, <2>5, EndTyped
    <3>2. TypeOK'
      BY <1>0, <2>2, <2>3, <3>1 DEF TypeOK
    <3> QED BY <2>2, <3>1, <3>2, LoginOnly DEF Idle
  <2> QED BY <1>5, <2>4, <2>5 DEF EnsureBridge
<1>6. ASSUME NEW l \in Logins, EnsureInfra(l) PROVE SuffixInv'
  <2> DEFINE t == login[l].tenant
             rec == [cidr |-> login[l].cidr, suffix |-> login[l].suffix]
  <2>1. login[l] \in Working /\ login[l].pc = "infra"
    BY <1>0, <1>6, JobTyped DEF EnsureInfra
  <2>2. /\ UNCHANGED <<claims, bridge, apps, del, gc>>
        /\ infra' = [infra EXCEPT ![t] = rec]
        /\ Proceed(l, "app")
    BY <1>6 DEF EnsureInfra
  <2>3. infra' \in [Tenants -> InfraRecords]
    BY <1>0, <2>1, <2>2 DEF TypeOK, Working, InfraRecords
  <2>4. /\ login' \in [Logins -> LoginJobs]
        /\ login'[l].pc = "app" /\ Row(login'[l]) = Row(login[l])
        /\ \A m \in Logins : m # l => login'[m] = login[m]
    BY <1>0, <2>1, <2>2, ProceedTyped
  <2>5. TypeOK'
    BY <1>0, <2>2, <2>3, <2>4 DEF TypeOK
  <2>6. Row(login[l]) \in claims
    BY <2>1 DEF SuffixInv, LoginClaimed
  <2>7. InfraClaimed'
    BY <1>0, <2>1, <2>2, <2>6 DEF SuffixInv, InfraClaimed, TypeOK, Row
  <2>8. LoginClaimed' /\ ClaimsUnique'
    BY <2>2, <2>4, <2>6 DEF SuffixInv, LoginClaimed, ClaimsUnique
  <2> QED BY <1>0, <2>2, <2>5, <2>7, <2>8 DEF SuffixInv
<1>7. ASSUME NEW l \in Logins, EnsureApp(l) PROVE SuffixInv'
  <2>1. login[l] \in Working
    BY <1>0, <1>7, JobTyped DEF EnsureApp
  <2>2. /\ UNCHANGED <<claims, bridge, infra, del, gc>>
        /\ apps' = apps \cup {login[l].tenant} /\ End(l)
    BY <1>7 DEF EnsureApp
  <2>3. /\ login' \in [Logins -> LoginJobs]
        /\ login'[l] = Idle
        /\ \A m \in Logins : m # l => login'[m] = login[m]
    BY <1>0, <2>2, EndTyped
  <2>4. TypeOK'
    BY <1>0, <2>1, <2>2, <2>3 DEF TypeOK, Working
  <2> QED BY <2>2, <2>3, <2>4, LoginOnly DEF Idle
<1>8. CASE DeleteInfra
  <2>1. /\ UNCHANGED <<claims, bridge, apps, login, gc>>
        /\ infra' = [infra EXCEPT ![del.tenant] = NoInfra]
        /\ del.pc = "infra" /\ del' = [del EXCEPT !.pc = "bridge"]
    BY <1>8 DEF DeleteInfra
  <2>2. TypeOK'
    BY <1>0, <2>1 DEF TypeOK, InfraRecords, DeleteJobs, Idle
  <2>3. InfraClaimed'
    BY <1>0, <2>1 DEF SuffixInv, InfraClaimed, TypeOK
  <2> QED BY <1>0, <2>1, <2>2, <2>3 DEF SuffixInv, ClaimsUnique, LoginClaimed
<1>9. ASSUME UNCHANGED <<claims, infra, login, gc>>, TypeOK' PROVE SuffixInv'
  BY <1>9 DEF SuffixInv, ClaimsUnique, InfraClaimed, LoginClaimed
<1>10. ASSUME NEW t \in Tenants, DeletePlan(t) PROVE SuffixInv'
  BY <1>0, <1>9, <1>10 DEF DeletePlan, TypeOK, DeleteJobs, incus
<1>11. CASE DeleteApps
  BY <1>0, <1>9, <1>11 DEF DeleteApps, TypeOK, DeleteJobs, Idle
<1>12. CASE DeleteBridge
  BY <1>0, <1>9, <1>12 DEF DeleteBridge, TypeOK, DeleteJobs, Idle
<1>13. CASE GC
  BY <1>0, <1>13 DEF GC, GCListTenants, GCListClaims, GCPrune, Idle
<1>14. CASE UNCHANGED vars
  <2>1. TypeOK'
    BY <1>0, <1>14 DEF vars, incus, TypeOK
  <2> QED BY <1>9, <1>14, <2>1 DEF vars, incus
<1> QED
  BY <1>1, <1>2, <1>3, <1>4, <1>5, <1>6, <1>7, <1>8, <1>10, <1>11, <1>12, <1>13, <1>14
     DEF Next, LoginStep

\* An infra project's suffix changes only by EnsureInfra, whose login holds the
\* row the recorded suffix is on.
LEMMA StepImmutable ==
  ASSUME SuffixInv, [Next]_vars, NEW t \in Tenants, infra[t] # NoInfra, infra'[t] # NoInfra
  PROVE  infra'[t].suffix = infra[t].suffix
<1>1. ASSUME NEW l \in Logins, EnsureInfra(l) PROVE infra'[t].suffix = infra[t].suffix
  <2>1. login[l] \in Working /\ login[l].pc = "infra"
    BY <1>1, JobTyped DEF EnsureInfra, SuffixInv
  <2>2. CASE login[l].tenant = t
    <3>1. Row(login[l]) \in claims /\ [suffix |-> infra[t].suffix, tenant |-> t] \in claims
      BY <2>1 DEF SuffixInv, LoginClaimed, InfraClaimed
    <3>2. login[l].suffix = infra[t].suffix
      BY <2>2, <3>1 DEF SuffixInv, ClaimsUnique, Row
    <3> QED BY <1>1, <2>2, <3>2 DEF EnsureInfra, SuffixInv, TypeOK
  <2>3. CASE login[l].tenant # t
    BY <1>1, <2>3 DEF EnsureInfra, SuffixInv, TypeOK
  <2> QED BY <2>2, <2>3
<1>2. CASE DeleteInfra
  BY <1>2 DEF DeleteInfra, SuffixInv, TypeOK
<1>3. infra' = infra \/ DeleteInfra \/ \E l \in Logins : EnsureInfra(l)
  BY DEF Next, LoginStep, GC, Plan, PlanUnlisted, Stop, ClaimDNSSuffix, EnsureBridge, EnsureApp,
         DeletePlan, DeleteApps, DeleteBridge, GCListTenants, GCListClaims, GCPrune, vars, incus
<1> QED BY <1>1, <1>2, <1>3

\* While the collector is not running, claims, infra projects and logins agree
\* for any number of tenants, logins, stops and deletions.
THEOREM ProvisioningInvariant ==
  ASSUME "gc" \notin Requests
  PROVE  Spec => []SuffixInv
  BY InitInv, StepInv, PTL DEF Spec

\* ClaimDNSSuffix makes suffixes unique on the install, whatever logins run
\* side by side, fail or are repeated.
THEOREM SuffixesUnique ==
  ASSUME "gc" \notin Requests
  PROVE  Spec => []SuffixesDistinct
  BY ProvisioningInvariant, SuffixInvDistinct, PTL

\* No login, however planned, changes the suffix a tenant has recorded.
THEOREM SuffixesImmutable ==
  ASSUME "gc" \notin Requests
  PROVE  Spec => SuffixImmutable
<1>1. SuffixInv /\ [Next]_vars =>
        [\A t \in Tenants : infra[t] # NoInfra /\ infra'[t] # NoInfra
                              => infra'[t].suffix = infra[t].suffix]_vars
  BY StepImmutable
<1> QED BY <1>1, ProvisioningInvariant, PTL DEF Spec, SuffixImmutable

-----------------------------------------------------------------------------
(* The types, whatever runs                                                *)

\* Every step, the collector's included, keeps the types.
LEMMA TypeStep == TypeOK /\ [Next]_vars => TypeOK'
<1> SUFFICES ASSUME TypeOK, [Next]_vars PROVE TypeOK'
  OBVIOUS
<1>1. ASSUME NEW l \in Logins, NEW t \in Tenants, NEW s \in Suffixes \cup {Unset}, Plan(l, t, s)
      PROVE  TypeOK'
  <2>1. PlannedCIDR(t) \in CIDRs
    BY <1>1, AllocateFirst DEF Plan, PlannedCIDR, TypeOK, InfraRecords, NoInfra
  <2>2. PlannedSuffixes(t, s) \subseteq Suffixes
    BY ProvisioningAssumption
       DEF PlannedSuffixes, TypeOK, InfraRecords, NoInfra, ProvisioningAssumption
  <2>3. PICK p \in Suffixes : Start(l, t, p, PlannedCIDR(t))
    BY <1>1, <2>2 DEF Plan
  <2>4. login' \in [Logins -> LoginJobs]
    BY <2>1, <2>3, StartTyped
  <2> QED BY <1>1, <2>4 DEF Plan, TypeOK, incus
<1>2. ASSUME NEW l \in Logins, NEW t \in Tenants, NEW s \in Suffixes \cup {Unset},
             PlanUnlisted(l, t, s)
      PROVE  TypeOK'
  <2>1. 0 \in CIDRs
    BY <1>2, ProvisioningAssumption DEF PlanUnlisted, CIDRs, ProvisioningAssumption
  <2>2. PICK p \in Suffixes : Start(l, t, p, 0)
    BY <1>2, ProvisioningAssumption DEF PlanUnlisted, ProvisioningAssumption
  <2>3. login' \in [Logins -> LoginJobs]
    BY <2>1, <2>2, StartTyped
  <2> QED BY <1>2, <2>3 DEF PlanUnlisted, TypeOK, incus
<1>3. ASSUME NEW l \in Logins, Stop(l) PROVE TypeOK'
  <2>1. login' \in [Logins -> LoginJobs]
    BY <1>3, EndTyped DEF Stop
  <2> QED BY <1>3, <2>1 DEF Stop, TypeOK, incus
<1>4. ASSUME NEW l \in Logins, ClaimDNSSuffix(l) PROVE TypeOK'
  <2>1. login[l] \in Working /\ login[l].pc = "claim"
    BY <1>4, JobTyped DEF ClaimDNSSuffix
  <2>2. Row(login[l]) \in ClaimRows
    BY <2>1 DEF Row, Working, ClaimRows
  <2>3. login' \in [Logins -> LoginJobs]
    BY <1>4, <2>1, ProceedTyped, EndTyped DEF ClaimDNSSuffix
  <2>4. claims' \subseteq ClaimRows
    BY <1>4, <2>2 DEF ClaimDNSSuffix, TypeOK
  <2> QED BY <1>4, <2>3, <2>4 DEF ClaimDNSSuffix, TypeOK, incus
<1>5. ASSUME NEW l \in Logins, EnsureBridge(l) PROVE TypeOK'
  <2>1. login[l] \in Working /\ login[l].pc = "bridge"
    BY <1>5, JobTyped DEF EnsureBridge
  <2>2. bridge' \in [Tenants -> CIDRs \cup {NoCIDR}]
    BY <1>5, <2>1 DEF EnsureBridge, TypeOK, Working
  <2>3. login' \in [Logins -> LoginJobs]
    BY <1>5, <2>1, ProceedTyped, EndTyped DEF EnsureBridge
  <2> QED BY <1>5, <2>2, <2>3 DEF EnsureBridge, TypeOK
<1>6. ASSUME NEW l \in Logins, EnsureInfra(l) PROVE TypeOK'
  <2>1. login[l] \in Working /\ login[l].pc = "infra"
    BY <1>6, JobTyped DEF EnsureInfra
  <2>2. infra' \in [Tenants -> InfraRecords]
    BY <1>6, <2>1 DEF EnsureInfra, TypeOK, Working, InfraRecords
  <2>3. login' \in [Logins -> LoginJobs]
    BY <1>6, <2>1, ProceedTyped DEF EnsureInfra
  <2> QED BY <1>6, <2>2, <2>3 DEF EnsureInfra, TypeOK
<1>7. ASSUME NEW l \in Logins, EnsureApp(l) PROVE TypeOK'
  <2>1. login[l] \in Working
    BY <1>7, JobTyped DEF EnsureApp
  <2>2. login' \in [Logins -> LoginJobs]
    BY <1>7, EndTyped DEF EnsureApp
  <2> QED BY <1>7, <2>1, <2>2 DEF EnsureApp, TypeOK, Working
<1>8. ASSUME NEW t \in Tenants, DeletePlan(t) PROVE TypeOK'
  BY <1>8 DEF DeletePlan, TypeOK, DeleteJobs, incus
<1>9. CASE DeleteApps
  BY <1>9 DEF DeleteApps, TypeOK, DeleteJobs, Idle
<1>10. CASE DeleteInfra
  BY <1>10 DEF DeleteInfra, TypeOK, InfraRecords, DeleteJobs, Idle
<1>11. CASE DeleteBridge
  BY <1>11 DEF DeleteBridge, TypeOK, DeleteJobs, Idle
<1>12. CASE GCListTenants
  BY <1>12 DEF GCListTenants, TypeOK, Passes, incus
<1>13. CASE GCListClaims
  <2>1. {r.tenant : r \in {q \in claims : q.tenant \notin gc.live}} \subseteq Tenants
    BY DEF TypeOK, ClaimRows
  <2> QED BY <1>13, <2>1 DEF GCListClaims, TypeOK, Passes, incus
<1>14. CASE GCPrune
  <2>1. claims' \subseteq ClaimRows
    BY <1>14 DEF GCPrune, TypeOK
  <2>2. gc' \in Passes
    BY <1>14 DEF GCPrune, TypeOK, Passes, Idle
  <2> QED BY <1>14, <2>1, <2>2 DEF GCPrune, TypeOK, incus
<1>15. CASE UNCHANGED vars
  BY <1>15 DEF vars, incus, TypeOK
<1> QED
  BY <1>1, <1>2, <1>3, <1>4, <1>5, <1>6, <1>7, <1>8, <1>9, <1>10, <1>11, <1>12, <1>13, <1>14, <1>15
     DEF Next, LoginStep, GC

\* Claims, Incus objects and jobs keep their types for any tenants, logins,
\* pool, requests and faults, with the collector running beside them.
THEOREM ProvisioningTyped == Spec => []TypeOK
<1>1. Init => TypeOK
  BY InitInv DEF SuffixInv
<1> QED BY <1>1, TypeStep, PTL DEF Spec

-----------------------------------------------------------------------------
(* The /24s                                                                *)

\* Every /24 of the pool below c is recorded by another tenant than t: c is
\* the first that t could be given.
Filled(t, c) == \A d \in CIDRs : d < c => d \in Occupied(t)

\* One login of a tenant at a time.
OneLogin ==
  \A l, m \in Logins :
    login[l].pc # "idle" /\ login[m].pc # "idle" /\ login[l].tenant = login[m].tenant => l = m

\* Incus refuses a second bridge on an address.
BridgesDistinct == \A t, u \in Tenants : bridge[t] # NoCIDR /\ bridge[t] = bridge[u] => t = u

\* A bridge nobody has recorded is where the next login will plan it: a
\* stopped login's bridge is found again.
BridgeFirst ==
  \A t \in Tenants : bridge[t] # NoCIDR /\ infra[t] = NoInfra => Filled(t, bridge[t])

\* What login l planned still fits what Incus holds.
Fits(l) ==
  LET t == login[l].tenant IN
    /\ bridge[t] # NoCIDR => login[l].cidr = bridge[t]
    /\ infra[t] = NoInfra => Filled(t, login[l].cidr)
    /\ login[l].pc \in {"infra", "app"} => bridge[t] # NoCIDR

LoginsFit == \A l \in Logins : login[l].pc # "idle" => Fits(l)

CIDRInv ==
  /\ TypeOK
  /\ del = Idle
  /\ OneLogin
  /\ BridgesDistinct
  /\ RecordMatchesBridge
  /\ BridgeFirst
  /\ LoginsFit

\* Distinct bridges make recorded /24s distinct.
LEMMA CIDRInvSound == CIDRInv => CIDRsSound
<1> SUFFICES ASSUME CIDRInv, NEW t \in Tenants, NEW u \in Tenants,
                    infra[t] # NoInfra, infra[t].cidr = infra[u].cidr
             PROVE  t = u
  BY DEF CIDRsSound, CIDRsDistinct, CIDRInv
<1>1. infra[t].cidr \in CIDRs /\ NoCIDR \notin CIDRs
  BY ProvisioningAssumption DEF CIDRInv, TypeOK, InfraRecords, CIDRs, NoCIDR, ProvisioningAssumption
<1>2. infra[u] # NoInfra
  BY <1>1 DEF NoInfra
<1>3. bridge[t] = bridge[u] /\ bridge[t] # NoCIDR
  BY <1>1, <1>2 DEF CIDRInv, RecordMatchesBridge
<1> QED BY <1>3 DEF CIDRInv, BridgesDistinct

\* What a step leaves of a login: nothing, or its plan.
Kept(l) ==
  \/ login'[l].pc = "idle"
  \/ /\ login[l].pc # "idle"
     /\ login'[l].tenant = login[l].tenant /\ login'[l].cidr = login[l].cidr
     /\ login'[l].pc \in {"infra", "app"} => bridge[login[l].tenant] # NoCIDR

\* A step that leaves Incus alone and every login its plan.
LEMMA IncusKept ==
  ASSUME CIDRInv, TypeOK', del' = Idle, bridge' = bridge, infra' = infra, \A l \in Logins : Kept(l)
  PROVE  CIDRInv'
<1>1. ASSUME NEW l \in Logins, login'[l].pc # "idle" PROVE login[l].pc # "idle"
  BY <1>1 DEF Kept
<1>2. OneLogin'
  BY <1>1 DEF CIDRInv, OneLogin, Kept
<1>3. BridgesDistinct' /\ RecordMatchesBridge'
  BY DEF CIDRInv, BridgesDistinct, RecordMatchesBridge
<1>5. BridgeFirst'
  BY DEF CIDRInv, BridgeFirst, Filled, Occupied
<1>6. ASSUME NEW l \in Logins, login'[l].pc # "idle" PROVE Fits(l)'
  <2>1. Fits(l)
    BY <1>1, <1>6 DEF CIDRInv, LoginsFit
  <2>2. /\ login'[l].tenant = login[l].tenant /\ login'[l].cidr = login[l].cidr
        /\ login'[l].pc \in {"infra", "app"} => bridge[login[l].tenant] # NoCIDR
    BY <1>6 DEF Kept
  <2> QED BY <2>1, <2>2 DEF Fits, Filled, Occupied
<1> QED BY <1>2, <1>3, <1>5, <1>6 DEF CIDRInv, LoginsFit

\* An empty install.
LEMMA CIDRInit == Init => CIDRInv
<1> SUFFICES ASSUME Init PROVE CIDRInv
  OBVIOUS
<1>1. TypeOK
  BY InitInv DEF SuffixInv
<1>2. \A l \in Logins : login[l].pc = "idle"
  BY DEF Init, Idle
<1>3. \A t \in Tenants : bridge[t] = NoCIDR /\ infra[t] = NoInfra
  BY DEF Init
<1> QED BY <1>1, <1>2, <1>3
        DEF Init, CIDRInv, OneLogin, BridgesDistinct, RecordMatchesBridge, BridgeFirst, LoginsFit

\* A plan is made for what Incus holds: the recorded /24, the bridge of a
\* login that stopped before recording it, or the first free one.
LEMMA PlanFits ==
  ASSUME CIDRInv, NEW t \in Tenants, infra[t] # NoInfra \/ CIDRs \ Occupied(t) # {}
  PROVE  /\ bridge[t] # NoCIDR => PlannedCIDR(t) = bridge[t]
         /\ infra[t] = NoInfra => Filled(t, PlannedCIDR(t))
<1>1. CASE infra[t] # NoInfra
  BY <1>1 DEF PlannedCIDR, CIDRInv, RecordMatchesBridge
<1>2. CASE infra[t] = NoInfra
  <2> DEFINE c == Allocate(Occupied(t))
  <2>1. /\ c \in CIDRs \ Occupied(t)
        /\ \A d \in CIDRs \ Occupied(t) : c <= d
    BY <1>2, AllocateFirst
  <2>2. PlannedCIDR(t) = c
    BY <1>2 DEF PlannedCIDR
  <2> HIDE DEF c
  <2>3. Filled(t, c)
    BY <2>1 DEF Filled, CIDRs
  <2>4. ASSUME bridge[t] # NoCIDR PROVE c = bridge[t]
    <3>1. bridge[t] \in CIDRs
      BY <2>4 DEF CIDRInv, TypeOK
    <3>2. bridge[t] \notin Occupied(t)
      <4>1. SUFFICES ASSUME NEW u \in Tenants \ {t}, infra[u].cidr = bridge[t] PROVE FALSE
        BY DEF Occupied
      <4>2. infra[u] # NoInfra
        BY <2>4, <4>1 DEF NoInfra
      <4>3. bridge[u] = bridge[t]
        BY <4>1, <4>2 DEF CIDRInv, RecordMatchesBridge
      <4> QED BY <2>4, <4>1, <4>3 DEF CIDRInv, BridgesDistinct
    <3>3. c <= bridge[t]
      BY <2>1, <3>1, <3>2
    <3>4. Filled(t, bridge[t])
      BY <1>2, <2>4 DEF CIDRInv, BridgeFirst
    <3>5. ~(c < bridge[t])
      BY <2>1, <3>4 DEF Filled
    <3> QED BY <2>1, <3>1, <3>3, <3>5 DEF CIDRs
  <2> QED BY <2>2, <2>3, <2>4
<1> QED BY <1>1, <1>2

\* A login that makes its tenant's bridge: on the first address free, and no
\* other login is the tenant's.
LEMMA BridgeMade ==
  ASSUME CIDRInv, TypeOK', NEW l \in Logins, login[l].pc = "bridge",
         bridge[login[l].tenant] = NoCIDR, \A u \in Tenants : bridge[u] # login[l].cidr,
         bridge' = [bridge EXCEPT ![login[l].tenant] = login[l].cidr],
         Proceed(l, "infra"), UNCHANGED <<infra, del>>
  PROVE  CIDRInv'
<1> DEFINE t == login[l].tenant
           c == login[l].cidr
<1>0. TypeOK
  BY DEF CIDRInv
<1>1. login[l] \in Working /\ t \in Tenants /\ c \in CIDRs /\ c # NoCIDR
  BY <1>0, JobTyped, ProvisioningAssumption DEF Working, CIDRs, NoCIDR, ProvisioningAssumption
<1>2. /\ login'[l].pc = "infra" /\ login'[l].tenant = t /\ login'[l].cidr = c
      /\ \A m \in Logins : m # l => login'[m] = login[m]
  BY <1>0, ProceedTyped DEF Row
<1>3. bridge'[t] = c /\ \A u \in Tenants : u # t => bridge'[u] = bridge[u]
  BY <1>0, <1>1 DEF TypeOK
<1>4. Fits(l)
  BY DEF CIDRInv, LoginsFit
<1>5. infra[t] = NoInfra
  BY <1>0, <1>1, ProvisioningAssumption
     DEF CIDRInv, RecordMatchesBridge, TypeOK, InfraRecords, CIDRs, NoCIDR, ProvisioningAssumption
<1> HIDE DEF t, c
<1>6. \A u, d : Filled(u, d)' <=> Filled(u, d)
  BY DEF Filled, Occupied
<1>7. OneLogin'
  BY <1>2 DEF CIDRInv, OneLogin, t
<1>8. BridgesDistinct'
  BY <1>1, <1>3 DEF CIDRInv, BridgesDistinct, c
<1>9. RecordMatchesBridge'
  BY <1>3, <1>5 DEF CIDRInv, RecordMatchesBridge
<1>10. Filled(t, c)
  BY <1>4, <1>5 DEF Fits, t, c
<1>11. BridgeFirst'
  BY <1>3, <1>6, <1>10 DEF CIDRInv, BridgeFirst
<1>12. ASSUME NEW m \in Logins, login'[m].pc # "idle" PROVE Fits(m)'
  <2>1. CASE m = l
    BY <1>1, <1>2, <1>3, <1>6, <1>10, <2>1 DEF Fits
  <2>2. CASE m # l
    <3>1. login'[m] = login[m] /\ Fits(m)
      BY <1>2, <1>12, <2>2 DEF CIDRInv, LoginsFit
    <3>2. login[m].tenant # t /\ login[m].tenant \in Tenants
      BY <1>0, <1>12, <2>2, <3>1, JobTyped DEF CIDRInv, OneLogin, Working, t
    <3>3. bridge'[login[m].tenant] = bridge[login[m].tenant]
      BY <1>3, <3>2
    <3> QED BY <1>6, <3>1, <3>3 DEF Fits
  <2> QED BY <2>1, <2>2
<1> QED BY <1>7, <1>8, <1>9, <1>11, <1>12 DEF CIDRInv, LoginsFit

\* A login that records its bridge's /24: no tenant's occupied set shrinks.
LEMMA RecordMade ==
  ASSUME CIDRInv, TypeOK', NEW l \in Logins, EnsureInfra(l)
  PROVE  CIDRInv'
<1> DEFINE t == login[l].tenant
           c == login[l].cidr
<1>0. TypeOK
  BY DEF CIDRInv
<1>1. login[l] \in Working /\ login[l].pc = "infra" /\ t \in Tenants /\ c \in CIDRs /\ c # NoCIDR
  BY <1>0, JobTyped, ProvisioningAssumption
     DEF EnsureInfra, Working, CIDRs, NoCIDR, ProvisioningAssumption
<1>2. /\ login'[l].pc = "app" /\ login'[l].tenant = t /\ login'[l].cidr = c
      /\ \A m \in Logins : m # l => login'[m] = login[m]
  BY <1>0, <1>1, ProceedTyped DEF Row, EnsureInfra
<1>3. /\ infra'[t].cidr = c /\ infra'[t] # NoInfra
      /\ \A u \in Tenants : u # t => infra'[u] = infra[u]
  BY <1>0, <1>1 DEF TypeOK, EnsureInfra, NoInfra
<1>4. bridge[t] = c
  BY <1>1 DEF CIDRInv, LoginsFit, Fits
<1>5. bridge' = bridge /\ del' = del
  BY DEF EnsureInfra
<1> HIDE DEF t, c
<1>6. infra[t] # NoInfra => infra[t].cidr = c
  BY <1>1, <1>4 DEF CIDRInv, RecordMatchesBridge
<1>7. ASSUME NEW u \in Tenants PROVE Occupied(u) \subseteq Occupied(u)'
  BY <1>1, <1>3, <1>6 DEF Occupied, NoInfra
<1>8. \A u \in Tenants : \A d : Filled(u, d) => Filled(u, d)'
  BY <1>7 DEF Filled
<1>9. OneLogin'
  BY <1>1, <1>2 DEF CIDRInv, OneLogin, t
<1>10. BridgesDistinct'
  BY <1>5 DEF CIDRInv, BridgesDistinct
<1>11. RecordMatchesBridge'
  BY <1>3, <1>4, <1>5 DEF CIDRInv, RecordMatchesBridge
<1>12. BridgeFirst'
  BY <1>3, <1>5, <1>8 DEF CIDRInv, BridgeFirst
<1>13. ASSUME NEW m \in Logins, login'[m].pc # "idle" PROVE Fits(m)'
  <2>1. CASE m = l
    BY <1>1, <1>2, <1>3, <1>4, <1>5, <2>1 DEF Fits
  <2>2. CASE m # l
    <3>1. login'[m] = login[m] /\ Fits(m)
      BY <1>2, <1>13, <2>2 DEF CIDRInv, LoginsFit
    <3>2. login[m].tenant # t /\ login[m].tenant \in Tenants
      BY <1>0, <1>1, <1>13, <2>2, <3>1, JobTyped DEF CIDRInv, OneLogin, Working, t
    <3>3. infra'[login[m].tenant] = infra[login[m].tenant]
      BY <1>3, <3>2
    <3> QED BY <1>5, <1>8, <3>1, <3>2, <3>3 DEF Fits
  <2> QED BY <2>1, <2>2
<1> QED BY <1>5, <1>9, <1>10, <1>11, <1>12, <1>13 DEF CIDRInv, LoginsFit

\* A login that begins: no other of its tenant runs, and its plan fits.
LEMMA PlanMade ==
  ASSUME "relogin" \notin Requests, CIDRInv, TypeOK',
         NEW l \in Logins, NEW t \in Tenants, NEW s \in Suffixes \cup {Unset}, Plan(l, t, s)
  PROVE  CIDRInv'
<1>0. TypeOK
  BY DEF CIDRInv
<1>1. PICK p : Start(l, t, p, PlannedCIDR(t))
  BY DEF Plan
<1>2. /\ login'[l].pc = "claim" /\ login'[l].tenant = t /\ login'[l].cidr = PlannedCIDR(t)
      /\ \A m \in Logins : m # l => login'[m] = login[m]
  BY <1>0, <1>1 DEF Start, TypeOK
<1>3. bridge' = bridge /\ infra' = infra /\ del' = del
  BY DEF Plan, incus
<1>4. \A m \in Logins : login[m].pc # "idle" => login[m].tenant # t
  BY DEF Plan, MayLogin, Idle
<1>5. \A u, d : Filled(u, d)' <=> Filled(u, d)
  BY <1>3 DEF Filled, Occupied
<1>6. OneLogin'
  BY <1>2, <1>4 DEF CIDRInv, OneLogin
<1>7. BridgesDistinct' /\ RecordMatchesBridge' /\ BridgeFirst'
  BY <1>3, <1>5 DEF CIDRInv, BridgesDistinct, RecordMatchesBridge, BridgeFirst
<1>8. ASSUME NEW m \in Logins, login'[m].pc # "idle" PROVE Fits(m)'
  <2>1. CASE m = l
    <3>1. /\ bridge[t] # NoCIDR => PlannedCIDR(t) = bridge[t]
          /\ infra[t] = NoInfra => Filled(t, PlannedCIDR(t))
      BY PlanFits DEF Plan
    <3> QED BY <1>2, <1>3, <1>5, <2>1, <3>1 DEF Fits
  <2>2. CASE m # l
    <3>1. login'[m] = login[m] /\ Fits(m)
      BY <1>2, <1>8, <2>2 DEF CIDRInv, LoginsFit
    <3> QED BY <1>3, <1>5, <3>1 DEF Fits
  <2> QED BY <2>1, <2>2
<1> QED BY <1>3, <1>6, <1>7, <1>8 DEF CIDRInv, LoginsFit

\* With one login of a tenant at a time, no delete and a listing that works,
\* every step keeps records, bridges and plans in agreement.
LEMMA CIDRStep ==
  ASSUME "relogin" \notin Requests, "delete" \notin Requests, "list" \notin Faults,
         CIDRInv, [Next]_vars
  PROVE  CIDRInv'
<1>0. TypeOK /\ TypeOK' /\ del = Idle
  BY TypeStep DEF CIDRInv
<1>1. ASSUME NEW l \in Logins, NEW t \in Tenants, NEW s \in Suffixes \cup {Unset}, Plan(l, t, s)
      PROVE  CIDRInv'
  BY <1>0, <1>1, PlanMade
<1>2. ASSUME NEW l \in Logins, NEW t \in Tenants, NEW s \in Suffixes \cup {Unset},
             PlanUnlisted(l, t, s)
      PROVE  CIDRInv'
  BY <1>2 DEF PlanUnlisted
<1>3. ASSUME NEW l \in Logins, End(l), UNCHANGED <<incus, del>> PROVE CIDRInv'
  <2>1. login'[l] = Idle /\ \A m \in Logins : m # l => login'[m] = login[m]
    BY <1>0, <1>3, EndTyped
  <2>2. \A m \in Logins : Kept(m)
    BY <2>1 DEF Kept, Idle, CIDRInv, LoginsFit, Fits
  <2> QED BY <1>0, <1>3, <2>2, IncusKept DEF incus
<1>4. ASSUME NEW l \in Logins, NEW pc \in {"bridge", "infra"}, login[l].pc # "idle", Proceed(l, pc),
             pc = "infra" => bridge[login[l].tenant] # NoCIDR, UNCHANGED <<incus, del>>
      PROVE  CIDRInv'
  <2>1. /\ login'[l].pc = pc /\ Row(login'[l]) = Row(login[l]) /\ login'[l].cidr = login[l].cidr
        /\ \A m \in Logins : m # l => login'[m] = login[m]
    BY <1>0, <1>4, ProceedTyped
  <2>2. \A m \in Logins : Kept(m)
    BY <1>4, <2>1 DEF Kept, Row, CIDRInv, LoginsFit, Fits
  <2> QED BY <1>0, <1>4, <2>2, IncusKept DEF incus
<1>5. ASSUME NEW l \in Logins, ClaimDNSSuffix(l) PROVE CIDRInv'
  BY <1>3, <1>4, <1>5 DEF ClaimDNSSuffix
<1>6. ASSUME NEW l \in Logins, EnsureBridge(l) PROVE CIDRInv'
  <2>1. CASE bridge[login[l].tenant] # NoCIDR /\ Proceed(l, "infra") /\ UNCHANGED bridge
    BY <1>4, <1>6, <2>1 DEF EnsureBridge, incus
  <2>2. CASE End(l) /\ UNCHANGED bridge
    BY <1>3, <1>6, <2>2 DEF EnsureBridge, incus
  <2>3. CASE /\ bridge[login[l].tenant] = NoCIDR
             /\ \A u \in Tenants : bridge[u] # login[l].cidr
             /\ bridge' = [bridge EXCEPT ![login[l].tenant] = login[l].cidr]
             /\ Proceed(l, "infra")
    <3>1. login[l].pc = "bridge" /\ UNCHANGED <<infra, del>>
      BY <1>6 DEF EnsureBridge
    <3> QED BY <1>0, <2>3, <3>1, BridgeMade
  <2> QED BY <1>6, <2>1, <2>2, <2>3 DEF EnsureBridge
<1>7. ASSUME NEW l \in Logins, EnsureInfra(l) PROVE CIDRInv'
  BY <1>0, <1>7, RecordMade
<1>8. ASSUME NEW l \in Logins, Stop(l) PROVE CIDRInv'
  BY <1>3, <1>8 DEF Stop
<1>9. ASSUME UNCHANGED <<bridge, infra, login, del>> PROVE CIDRInv'
  <2>1. \A m \in Logins : Kept(m)
    BY <1>0, <1>9 DEF Kept, CIDRInv, LoginsFit, Fits
  <2> QED BY <1>0, <1>9, <2>1, IncusKept
<1>10. ASSUME NEW l \in Logins, EnsureApp(l) PROVE CIDRInv'
  <2>1. login'[l] = Idle /\ \A m \in Logins : m # l => login'[m] = login[m]
    BY <1>0, <1>10, EndTyped DEF EnsureApp
  <2>2. \A m \in Logins : Kept(m)
    BY <2>1 DEF Kept, Idle, CIDRInv, LoginsFit, Fits
  <2> QED BY <1>0, <1>10, <2>2, IncusKept DEF EnsureApp
<1>11. ASSUME NEW t \in Tenants, DeletePlan(t) PROVE CIDRInv'
  BY <1>11 DEF DeletePlan
<1>12. CASE DeleteApps \/ DeleteInfra \/ DeleteBridge
  BY <1>0, <1>12 DEF DeleteApps, DeleteInfra, DeleteBridge, Idle
<1>13. CASE GC
  BY <1>9, <1>13 DEF GC, GCListTenants, GCListClaims, GCPrune, incus
<1>14. CASE UNCHANGED vars
  BY <1>9, <1>14 DEF vars, incus
<1> QED
  BY <1>1, <1>2, <1>5, <1>6, <1>7, <1>8, <1>10, <1>11, <1>12, <1>13, <1>14 DEF Next, LoginStep

\* With one login of a tenant at a time, no tenant deleted and a listing that
\* works, every tenant of any install records the /24 of its own bridge and no
\* other tenant's, though AllocateTenantCIDR reads only what is recorded and a
\* login may stop between making its bridge and recording it.
THEOREM CIDRsStaySound ==
  ASSUME "relogin" \notin Requests, "delete" \notin Requests, "list" \notin Faults
  PROVE  Spec => []CIDRsSound
<1>1. CIDRInv /\ [Next]_vars => CIDRInv'
  BY CIDRStep
<1> QED BY <1>1, CIDRInit, CIDRInvSound, PTL DEF Spec
=============================================================================
