------------------------------ MODULE MCServer ------------------------------
(***************************************************************************)
(* The loops of the Auth App, each on a small instance: the Route manager, *)
(* the ACME storage lock, the zone reconciler's records (of a hostname and *)
(* of a Project Domain) and its certificates, the fleet cache and the DNS  *)
(* loop (with the cache off and on).  They share no state, so a behaviour  *)
(* is a behaviour of one of them: part, chosen at the start, says which.   *)
(***************************************************************************)
EXTENDS RouteManager, AcmeStorageLock, ZoneRecords, ResourceCache, MachineCertificates

VARIABLE part

ZoneParts == {"hosts", "domains"}
FleetParts == {"live", "cached"}
CertParts == {"orders", "renewals"}
Parts == {"routes", "lock"} \cup ZoneParts \cup FleetParts \cup CertParts

ServerVars == <<part, routeVars, lockVars, zoneVars, fleetVars, certVars>>

ServerInit ==
  /\ part \in Parts
  /\ RouteInit /\ LockInit /\ ZoneInit /\ FleetInit /\ CertInit
  /\ cacheOn = (part = "cached")
  /\ part = "routes" \/ backend = [m \in Backends |-> CHOOSE a \in Addresses : TRUE]

\* A step of one part leaves the variables of the others alone.
OnRoutes(A) == part = "routes" /\ A /\ UNCHANGED <<part, lockVars, zoneVars, fleetVars, certVars>>
OnLock(A) == part = "lock" /\ A /\ UNCHANGED <<part, routeVars, zoneVars, fleetVars, certVars>>
OnZone(A) == part \in ZoneParts /\ A /\ UNCHANGED <<part, routeVars, lockVars, fleetVars, certVars>>
OnFleet(A) == part \in FleetParts /\ A /\ UNCHANGED <<part, routeVars, lockVars, zoneVars, certVars>>
OnCerts(A) == part \in CertParts /\ A /\ UNCHANGED <<part, routeVars, lockVars, zoneVars, fleetVars>>

\* The hostnames rest while the records of a domain are looked at, and back.
ZoneStep ==
  /\ ZoneNext
  /\ part = "hosts" => claim' = claim /\ domainKey' = domainKey
  /\ part = "domains" => holder' = holder

\* With the cache off every listing is live; with it on only the cache is
\* looked at, and no pass of the DNS loop writes.
FleetStep ==
  /\ FleetNext
  /\ part = "cached" => ~dnsFeed' /\ dnsPass'["event"] = dnsPass["event"] /\ zoneFile' = zoneFile

\* First orders, which fail, of names that come and go, on a Machine that stays
\* up; and certificates that age and are renewed, of a name that stays, on
\* Machines that come and go.  Slots are alike: an order takes the first idle one.
CertStep ==
  /\ CertNext
  /\ \A o, p \in OrderSlots :
       orderJob[o] = CertIdle /\ orderJob'[o] # CertIdle /\ p < o => orderJob[p] # CertIdle
  /\ part = "orders" =>
       \A h \in CertNames : ~CertificateAges(h) /\ node'[h] # "stopped" /\ (node'[h] = "gone" => node[h] = "gone")
  /\ part = "renewals" =>
       wanted \subseteq wanted' /\ \A o \in OrderSlots : orderJob'[o].pc \notin {"failed", "limited"}

ServerNext ==
  \/ OnRoutes(RouteNext) \/ OnLock(LockNext) \/ OnZone(ZoneStep) \/ OnFleet(FleetStep)
  \/ OnCerts(CertStep)

LiveFleet(A) == OnFleet(part = "live" /\ A)

\* The fairness of the part that runs.  Only one of the disjuncts of a formula
\* can ever be enabled in a behaviour, so each formula says of every part what
\* the part's own fairness says: a step of each process that can go on, ...
ServerSteps ==
  /\ \A x \in RouteRequests, o \in OrderSlots :
       WF_ServerVars(\/ OnRoutes(RouteRequestStep(x)) \/ OnZone(ZonePassStep)
                     \/ OnFleet(RefreshStep) \/ OnCerts(OrderStep(o)))
  /\ \A x \in RoutePasses, z \in ZoneHosts :
       WF_ServerVars(\/ OnRoutes(RoutePassStep(x)) \/ OnZone(part = "hosts" /\ ReleaseHook(z))
                     \/ OnFleet(SeedStore) \/ OnCerts(CertPassStep))
  /\ \A h \in CertNames :
       WF_ServerVars(\/ OnCerts(CacheForgets(h))
                     \/ LiveFleet(PassStart("ticker") \/ PassRuns("ticker")))
  /\ WF_ServerVars(LiveFleet(PassRuns("event") \/ (settling > 0 /\ PassStart("event"))))
  /\ WF_ServerVars(LiveFleet(CoreDNSTimer))
  /\ \A c \in Clients, n \in LockNames :
       /\ WF_ServerVars(OnLock(LockTry(c, n)))
       /\ WF_ServerVars(OnLock(Unlock(c, n)))
       /\ \A k \in Channels : WF_ServerVars(OnLock(LockWake(c, n, k)))

\* ... and a call that is made again and again is answered in the end.
ServerAnswers ==
  \A x \in RoutePasses, m \in Backends, h \in CertNames :
    /\ SF_ServerVars(\/ OnRoutes(PassAnswered(x, m)) \/ OnZone(ReadRecords /\ zonePass'.pc = "set")
                     \/ OnFleet(SeedRead /\ feed'.at = "store") \/ OnCerts(BackoffPasses(h)))
    /\ SF_ServerVars(\/ OnRoutes(PassRefreshed(x, m)) \/ OnZone(PassChanges)
                     \/ OnFleet(Subscribe /\ feed'.at = "listening") \/ OnCerts(PushAnswered(h)))
    /\ SF_ServerVars(\/ LiveFleet(PassWritten("ticker"))
                     \/ OnCerts(\E o \in OrderSlots : IssueAnswered(o, h)))

ServerSpec == ServerInit /\ [][ServerNext]_ServerVars /\ ServerSteps /\ ServerAnswers

\* Every variable of every component stays in its domain.
ServerTypeOK == RouteTypeOK /\ LockTypeOK /\ ZoneTypeOK /\ FleetTypeOK /\ CertTypeOK

\* scheduleOrders: at most MaxOrders orders at once, never two for a hostname,
\* in whichever state the loops' variables are.
ServerSafe == ServerTypeOK /\ OrdersBounded
=============================================================================
