---------------------------- MODULE ResourceCache ----------------------------
(***************************************************************************)
(* The event-fed resource cache of the Auth App, the shared fleet listing  *)
(* and the DNS loop that renders each tenant's zone from it:               *)
(* internal/authapp/resource_cache.go, resource_cache_server.go, fleet.go, *)
(* runDNSReconcileLoop of app.go, internal/incusx/dns_v2.go and the event  *)
(* subscription of internal/cli/admin_dns_events.go.  The instances of an  *)
(* Incus project are a version number; a listing is a version per project. *)
(***************************************************************************)
EXTENDS Naturals, FiniteSets

CONSTANTS
  FleetProjects,    \* the Incus projects of the install
  MaxChanges,       \* bound on the changes of one project
  MaxBreaks,        \* bound on drops, silences, resets and restarts
  FleetFaults,      \* which calls may fail: "seed", "refresh", "list", "write", "reload"
  CacheToggle,      \* whether the admin switched the cache on (a set of BOOLEANs)
  NoFleet

ASSUME FleetAssumption == MaxChanges \in Nat /\ MaxBreaks \in Nat /\ CacheToggle \subseteq BOOLEAN

VARIABLES
  instances,   \* what Incus holds
  cacheOn,     \* whether a ResourceCache was constructed
  cached,      \* instancesByProject
  feed,        \* RunResourceCache: where it is, and its seed listing
  heard,       \* lastEventAt is recent
  refreshes,   \* event handlers in flight, one goroutine each
  dnsFeed,     \* the DNS loop's own subscription is connected
  dirty,       \* dirtyProjects
  trigger,     \* the channel of capacity one
  settling,    \* passes the event goroutine still makes for this trigger
  dnsPass,     \* the pass of each of the two goroutines
  zoneFile,    \* the zone in the tenant's sidecar
  served,      \* the zone CoreDNS answers from
  breaks       \* faults of the environment so far

cacheVars == <<cached, feed, heard, refreshes>>
loopVars == <<dnsFeed, dirty, trigger, settling, dnsPass>>
fleetVars == <<instances, cacheOn, cacheVars, loopVars, zoneFile, served, breaks>>

Loops == {"event", "ticker"}
Versions == 0..MaxChanges
Listing == [FleetProjects -> Versions]
NewFeed == [at |-> "seed", seeded |-> FALSE]
NoPass == [at |-> "idle"]
FleetMayFail(call) == call \in FleetFaults

FleetInit ==
  /\ instances = [p \in FleetProjects |-> 0]
  /\ cacheOn \in CacheToggle
  /\ cached = instances /\ feed = NewFeed /\ heard = FALSE /\ refreshes = {}
  /\ dnsFeed = FALSE /\ dirty = {} /\ trigger = FALSE /\ settling = 0
  /\ dnsPass = [w \in Loops |-> NoPass]
  /\ zoneFile = instances /\ served = instances /\ breaks = 0

-----------------------------------------------------------------------------
(* Incus and its event bus                                                 *)

\* A lifecycle action reaches both subscribers, instance-updated only the
\* cache, and a DHCP lease lands without an event at all.  Handlers of a
\* dead or absent connection never run.
InstancesChange(p, kind) ==
  /\ instances[p] < MaxChanges
  /\ instances' = [instances EXCEPT ![p] = @ + 1]
  /\ IF kind # "lease" /\ feed.at = "listening"
     THEN /\ heard' = TRUE
          /\ refreshes' = refreshes \cup {[project |-> p, event |-> instances'[p], seen |-> NoFleet]}
     ELSE UNCHANGED <<heard, refreshes>>
  /\ IF kind = "lifecycle" /\ dnsFeed
     THEN dirty' = dirty \cup {p} /\ trigger' = TRUE
     ELSE UNCHANGED <<dirty, trigger>>
  /\ UNCHANGED <<cacheOn, cached, feed, dnsFeed, settling, dnsPass, zoneFile, served, breaks>>

\* handleResourceCacheEvent: the project is read ...
RefreshRead(h) ==
  /\ h.seen = NoFleet
  /\ \/ refreshes' = (refreshes \ {h}) \cup {[h EXCEPT !.seen = instances[h.project]]}
     \/ FleetMayFail("refresh") /\ refreshes' = refreshes \ {h}
  /\ UNCHANGED <<instances, cacheOn, cached, feed, heard, loopVars, zoneFile, served, breaks>>

\* ... and its bucket replaced, whatever other handlers wrote meanwhile.
RefreshStore(h) ==
  /\ h.seen # NoFleet
  /\ cached' = [cached EXCEPT ![h.project] = h.seen]
  /\ refreshes' = refreshes \ {h}
  /\ UNCHANGED <<instances, cacheOn, feed, heard, loopVars, zoneFile, served, breaks>>

-----------------------------------------------------------------------------
(* RunResourceCache                                                        *)

\* seedResourceCache: the full read; a failure is retried after 5 s.
SeedRead ==
  /\ cacheOn /\ feed.at = "seed"
  /\ \/ feed' = [at |-> "store", seeded |-> feed.seeded, list |-> instances]
     \/ FleetMayFail("seed") /\ UNCHANGED feed
  /\ UNCHANGED <<instances, cacheOn, cached, heard, refreshes, loopVars, zoneFile, served, breaks>>

SeedStore ==
  /\ feed.at = "store"
  /\ cached' = feed.list
  /\ feed' = [at |-> "subscribe", seeded |-> TRUE]
  /\ UNCHANGED <<instances, cacheOn, heard, refreshes, loopVars, zoneFile, served, breaks>>

\* runResourceCacheEventLoop: events before this one are not replayed.  A
\* refused subscription returns to the seed.
Subscribe ==
  /\ feed.at = "subscribe"
  /\ \/ feed' = [feed EXCEPT !.at = "listening"] /\ heard' = TRUE
     \/ FleetMayFail("seed") /\ feed' = [feed EXCEPT !.at = "seed"] /\ UNCHANGED heard
  /\ UNCHANGED <<instances, cacheOn, cached, refreshes, loopVars, zoneFile, served, breaks>>

\* The socket goes half-open: connected, and silent from now on.
FeedSilent ==
  /\ feed.at = "listening" /\ breaks < MaxBreaks
  /\ feed' = [feed EXCEPT !.at = "silent"]
  /\ breaks' = breaks + 1
  /\ UNCHANGED <<instances, cacheOn, cached, heard, refreshes, loopVars, zoneFile, served>>

\* Nothing was heard for staleAfter.
CacheStale ==
  /\ feed.at \in {"listening", "silent"} /\ heard
  /\ heard' = FALSE
  /\ UNCHANGED <<instances, cacheOn, cached, feed, refreshes, loopVars, zoneFile, served, breaks>>

\* listener.Wait returns: not ready at once, then a fresh seed.
FeedDrops ==
  /\ feed.at \in {"listening", "silent"}
  /\ feed' = [feed EXCEPT !.at = "seed"]
  /\ UNCHANGED <<instances, cacheOn, cached, heard, refreshes, loopVars, zoneFile, served, breaks>>

\* Ready: seeded, connected and heard from.
CacheReady == cacheOn /\ feed.seeded /\ feed.at \in {"listening", "silent"} /\ heard

-----------------------------------------------------------------------------
(* The DNS loop                                                            *)

DNSFeedConnects ==
  /\ ~dnsFeed /\ dnsFeed' = TRUE
  /\ UNCHANGED <<instances, cacheOn, cacheVars, dirty, trigger, settling, dnsPass, zoneFile, served, breaks>>
DNSFeedDrops ==
  /\ dnsFeed /\ breaks < MaxBreaks
  /\ dnsFeed' = FALSE /\ breaks' = breaks + 1
  /\ UNCHANGED <<instances, cacheOn, cacheVars, dirty, trigger, settling, dnsPass, zoneFile, served>>

\* A trigger buys a pass at once and two settle passes; triggers that came
\* meanwhile are coalesced into the next settle pass.
PassStart(w) ==
  /\ dnsPass[w] = NoPass
  /\ IF w = "event"
     THEN /\ (settling = 0 => trigger) /\ settling' = (IF settling = 0 THEN 3 ELSE settling)
          /\ trigger' = FALSE
     ELSE UNCHANGED <<settling, trigger>>
  /\ dnsPass' = [dnsPass EXCEPT ![w] = [at |-> "base"]]
  /\ UNCHANGED <<instances, cacheOn, cacheVars, dnsFeed, dirty, zoneFile, served, breaks>>

\* fleetSource.fleet: the snapshot of a ready cache, else one live listing,
\* whose error leaves each reconciler to list for itself.
PassBase(w) ==
  /\ dnsPass[w].at = "base"
  /\ \/ dnsPass' = [dnsPass EXCEPT ![w] = [at |-> "dirty", fleet |-> IF CacheReady THEN cached ELSE instances]]
     \/ /\ ~CacheReady /\ FleetMayFail("list")
        /\ dnsPass' = [dnsPass EXCEPT ![w] = [at |-> "apply", fleet |-> NoFleet]]
  /\ UNCHANGED <<instances, cacheOn, cacheVars, dnsFeed, dirty, trigger, settling, zoneFile, served, breaks>>

\* The projects events named are read live, best effort, and the cache is
\* given the answer.
PassDirty(w) ==
  /\ dnsPass[w].at = "dirty"
  /\ \E read \in SUBSET dirty :
       /\ read # dirty => FleetMayFail("list")
       /\ LET fleet == [p \in FleetProjects |-> IF p \in read THEN instances[p] ELSE dnsPass[w].fleet[p]]
          IN  /\ dnsPass' = [dnsPass EXCEPT ![w] = [at |-> "apply", fleet |-> fleet]]
              /\ cached' = [p \in FleetProjects |-> IF cacheOn /\ p \in read THEN instances[p] ELSE cached[p]]
  /\ UNCHANGED <<instances, cacheOn, feed, heard, refreshes, dnsFeed, dirty, trigger, settling, zoneFile, served, breaks>>

\* The event goroutine forgets the dirty projects after its third pass, the
\* ones added meanwhile included.
PassOver(w) ==
  /\ dnsPass' = [dnsPass EXCEPT ![w] = NoPass]
  /\ settling' = (IF w = "event" THEN settling - 1 ELSE settling)
  /\ dirty' = (IF w = "event" /\ settling' = 0 THEN {} ELSE dirty)

\* Mutant of PassApply: a zone the reconciler remembers writing is not
\* compared with the sidecar's file.
PassApplyRemembered(w) ==
  /\ dnsPass[w].at = "apply"
  /\ LET zone == IF dnsPass[w].fleet = NoFleet THEN instances ELSE dnsPass[w].fleet
     IN  \/ breaks > 0 /\ UNCHANGED <<zoneFile, served>>
         \/ breaks = 0 /\ zoneFile' = zone /\ served' = zone
  /\ PassOver(w)
  /\ UNCHANGED <<instances, cacheOn, cacheVars, dnsFeed, trigger, breaks>>

\* reconcileOneV2TenantDNS, under the reconciler's mutex: the sidecar's file
\* is compared with the rendered zone, written and CoreDNS reloaded; the
\* error of either ends the pass.
PassApply(w) ==
  /\ dnsPass[w].at = "apply"
  /\ LET zone == IF dnsPass[w].fleet = NoFleet THEN instances ELSE dnsPass[w].fleet
     IN  \/ zoneFile = zone /\ UNCHANGED <<zoneFile, served>>
         \/ zoneFile # zone /\ zoneFile' = zone /\ served' = zone
         \/ zoneFile # zone /\ FleetMayFail("write") /\ UNCHANGED <<zoneFile, served>>
         \/ zoneFile # zone /\ FleetMayFail("reload") /\ zoneFile' = zone /\ UNCHANGED served
  /\ PassOver(w)
  /\ UNCHANGED <<instances, cacheOn, cacheVars, dnsFeed, trigger, breaks>>

\* CoreDNS's file plugin looks at the file about once a minute.
CoreDNSTimer ==
  /\ served # zoneFile /\ served' = zoneFile
  /\ UNCHANGED <<instances, cacheOn, cacheVars, loopVars, zoneFile, breaks>>

\* A sidecar comes back with the zone it was created with.
SidecarReset ==
  /\ breaks < MaxBreaks /\ breaks' = breaks + 1
  /\ zoneFile' = [p \in FleetProjects |-> 0] /\ served' = zoneFile'
  /\ UNCHANGED <<instances, cacheOn, cacheVars, loopVars>>

AppRestart ==
  /\ breaks < MaxBreaks /\ breaks' = breaks + 1
  /\ cached' = [p \in FleetProjects |-> 0] /\ feed' = NewFeed /\ heard' = FALSE /\ refreshes' = {}
  /\ dnsFeed' = FALSE /\ dirty' = {} /\ trigger' = FALSE /\ settling' = 0
  /\ dnsPass' = [w \in Loops |-> NoPass]
  /\ UNCHANGED <<instances, cacheOn, zoneFile, served>>

FeedStep == SeedRead \/ SeedStore \/ Subscribe
RefreshStep == \E h \in refreshes : RefreshRead(h) \/ RefreshStore(h)
PassStep(w) == PassStart(w) \/ PassBase(w) \/ PassDirty(w) \/ PassApply(w)

FleetNext ==
  \/ \E p \in FleetProjects, kind \in {"lifecycle", "updated", "lease"} : InstancesChange(p, kind)
  \/ RefreshStep \/ FeedStep \/ FeedSilent \/ CacheStale \/ FeedDrops
  \/ DNSFeedConnects \/ DNSFeedDrops
  \/ \E w \in Loops : PassStep(w)
  \/ CoreDNSTimer \/ SidecarReset \/ AppRestart

(* The loops run for ever and each listing or write that fails now and     *)
(* then succeeds in the end; a silent socket is found stale.               *)
CacheFairness ==
  /\ WF_fleetVars(RefreshStep)
  /\ SF_fleetVars(SeedRead /\ feed'.at = "store") /\ WF_fleetVars(SeedStore)
  /\ SF_fleetVars(Subscribe /\ feed'.at = "listening")

PassWritten(w) ==
  PassApply(w) /\ zoneFile' = IF dnsPass[w].fleet = NoFleet THEN instances ELSE dnsPass[w].fleet
PassRuns(w) == PassBase(w) \/ PassDirty(w) \/ PassApply(w)

DNSFairness ==
  /\ WF_fleetVars(PassStart("ticker") \/ PassRuns("ticker"))
  /\ SF_fleetVars(PassWritten("ticker"))
  /\ WF_fleetVars(PassRuns("event") \/ (settling > 0 /\ PassStart("event")))
  /\ WF_fleetVars(CoreDNSTimer)

FleetSpec == FleetInit /\ [][FleetNext]_fleetVars /\ CacheFairness /\ DNSFairness

-----------------------------------------------------------------------------
(* Properties                                                              *)

FleetTypeOK ==
  /\ instances \in Listing /\ cached \in Listing /\ zoneFile \in Listing /\ served \in Listing
  /\ feed.at \in {"seed", "store", "subscribe", "listening", "silent"} /\ feed.seeded \in BOOLEAN
  /\ refreshes \subseteq [project : FleetProjects, event : Versions, seen : Versions \cup {NoFleet}]
  /\ dirty \subseteq FleetProjects /\ settling \in 0..3
  /\ \A w \in Loops : dnsPass[w].at \in {"idle", "base", "dirty", "apply"}
  /\ breaks \in 0..MaxBreaks

(* An event handler that finishes last may put an older listing back, and  *)
(* events between the seed and the subscription are lost: only a new seed  *)
(* repairs the cache, and it does, if the connection drops often enough.   *)
ReseedRepairs == []<>(feed.at = "seed" /\ cacheOn) => <>[](cached = instances)

(* Without the cache the ticker's live listing is all it takes: whatever   *)
(* events were missed, passes overtaken and writes lost, CoreDNS comes to  *)
(* answer what Incus holds.                                                *)
DNSConverges == ~cacheOn => <>[](served = instances)

(* With the cache switched on too ("a periodic pass every dnsLoopInterval  *)
(* guarantees convergence across missed events and restarts").             *)
DNSConvergesCached == <>[](served = instances)

\* The fleet's readers come to see what Incus holds: the cache after a seed,
\* CoreDNS after a live pass.
FleetConverges == ReseedRepairs /\ DNSConverges
=============================================================================
