----------------------------- MODULE ZoneRecords -----------------------------
(***************************************************************************)
(* Public names of Machines and what makes them reachable: the zone stage  *)
(* of the reconciler (ReconcileFleet, classify, convergePublicHostnames,   *)
(* reconcileZoneRecords, convergeHostnamesFile of                          *)
(* internal/authapp/zone_reconcile.go), the release hooks that run beside  *)
(* it, and the Incus seam (internal/incusx/zone_reconcile.go).  One zone.  *)
(* A name reaches a Machine by an A record in Cloudflare, the list key of  *)
(* the instance, the hostnames file and the sites Caddy renders from it.   *)
(***************************************************************************)
EXTENDS FiniteSets

CONSTANTS
  ZoneHosts,       \* explicit hostnames of the zone
  ZoneDomains,     \* Project Domains of the zone
  ZoneMachines,    \* the Machines of one project
  ZoneAddrs,       \* bridge addresses
  ZoneFaults,      \* which calls may fail: "list", "records", "stamp", "file", "refresh"
  NoName

VARIABLES
  holder,        \* machine_hostnames: the Machine of each explicit hostname
  claim,         \* the project's claim in project_domain_claims
  domainKey,     \* the project's KeyV2Domain in Incus
  lease,         \* each Machine: an address, "stopped" or "gone"
  records,       \* the A record of each name
  listKey,       \* KeyV2PublicHostnames of each instance
  hostsFile,     \* /etc/sandcastle/hostnames of each Machine
  sites,         \* the names Caddy serves on each Machine
  namedBefore,   \* r.namedBefore
  releasing,     \* released names whose hook has not run yet
  zonePass       \* the pass under r.mu

zoneVars == <<holder, claim, domainKey, lease, records, listKey, hostsFile, sites, namedBefore, releasing, zonePass>>

DerivedName(m, d) == [machine |-> m, domain |-> d]
DerivedNames(d) == {DerivedName(m, d) : m \in ZoneMachines}
PublicNames == ZoneHosts \cup UNION {DerivedNames(d) : d \in ZoneDomains}
ZoneIdle == [pc |-> "idle"]

\* An explicit hostname is never one a Project Domain derives (NamesDisjoint of
\* ReservationRegistry).
ASSUME ZoneAssumption == ZoneHosts \cap UNION {DerivedNames(d) : d \in ZoneDomains} = {}

ZoneInit ==
  /\ holder = [n \in ZoneHosts |-> NoName]
  /\ claim = NoName /\ domainKey = NoName
  /\ lease = [m \in ZoneMachines |-> "gone"]
  /\ records = [n \in PublicNames |-> NoName]
  /\ listKey = [m \in ZoneMachines |-> {}]
  /\ hostsFile = [m \in ZoneMachines |-> {}]
  /\ sites = [m \in ZoneMachines |-> {}]
  /\ namedBefore = {} /\ releasing = {}
  /\ zonePass = ZoneIdle

ZoneMayFail(call) == call \in ZoneFaults
RunningNow(m) == lease[m] \in ZoneAddrs

-----------------------------------------------------------------------------
(* classify                                                                *)

\* The derived name counts unless the Incus key names another domain.
DerivedOf(m, c, k) == IF c # NoName /\ k \in {c, NoName} THEN {DerivedName(m, c)} ELSE {}
ExplicitOf(m, held) == {n \in ZoneHosts : held[n] = m}
TargetsOf(m, c, k, held) == DerivedOf(m, c, k) \cup ExplicitOf(m, held)
\* A key without or against the claim: the instance is left alone.
Converges(c, k) == k \in {c, NoName}

\* PublicHostnamesOfMachine: what the API writes, from the tables.
NamesInTables(m) == (IF claim # NoName THEN {DerivedName(m, claim)} ELSE {}) \cup ExplicitOf(m, holder)

-----------------------------------------------------------------------------
(* Names, Machines, the API                                                *)

MachineChanges(m) ==
  /\ \E s \in (ZoneAddrs \cup {"stopped", "gone"}) \ {lease[m]} : lease' = [lease EXCEPT ![m] = s]
  /\ IF lease'[m] = "gone"
     THEN /\ hostsFile' = [hostsFile EXCEPT ![m] = {}] /\ sites' = [sites EXCEPT ![m] = {}]
          /\ listKey' = [listKey EXCEPT ![m] = {}]
     ELSE UNCHANGED <<hostsFile, sites, listKey>>
  /\ UNCHANGED <<holder, claim, domainKey, records, namedBefore, releasing, zonePass>>

\* machineHostnameAdd: the reservation and the list key, which the pass
\* repeats when the second fails.
HostnameAdd(n, m) ==
  /\ holder[n] = NoName /\ lease[m] # "gone" /\ n \notin releasing
  /\ holder' = [holder EXCEPT ![n] = m]
  /\ \/ listKey' = [listKey EXCEPT ![m] = (IF claim # NoName THEN {DerivedName(m, claim)} ELSE {}) \cup ExplicitOf(m, holder')]
     \/ ZoneMayFail("stamp") /\ UNCHANGED listKey
  /\ UNCHANGED <<claim, domainKey, lease, records, hostsFile, sites, namedBefore, releasing, zonePass>>

\* machineHostnameRemove, and the collector: the row goes first ...
HostnameRelease(n) ==
  /\ holder[n] # NoName
  /\ holder' = [holder EXCEPT ![n] = NoName]
  /\ releasing' = releasing \cup {n}
  /\ UNCHANGED <<claim, domainKey, lease, records, listKey, hostsFile, sites, namedBefore, zonePass>>

\* ... then its records, a failure being only logged, and the list keys.
ReleaseHook(n) ==
  /\ n \in releasing
  /\ releasing' = releasing \ {n}
  /\ \/ records' = [records EXCEPT ![n] = NoName]
     \/ ZoneMayFail("records") /\ UNCHANGED records
  /\ listKey' = [m \in ZoneMachines |-> IF n \in listKey[m] THEN NamesInTables(m) ELSE listKey[m]]
  /\ UNCHANGED <<holder, claim, domainKey, lease, hostsFile, sites, namedBefore, zonePass>>

\* set-domain and unset-domain: the claim and the Incus key, apart.
ClaimSet(d) ==
  /\ claim = NoName /\ claim' = d
  /\ UNCHANGED <<holder, domainKey, lease, records, listKey, hostsFile, sites, namedBefore, releasing, zonePass>>
ClaimReleased ==
  /\ claim # NoName /\ claim' = NoName
  /\ \/ records' = [n \in PublicNames |-> IF n \in DerivedNames(claim) THEN NoName ELSE records[n]]
     \/ ZoneMayFail("records") /\ UNCHANGED records
  /\ UNCHANGED <<holder, domainKey, lease, listKey, hostsFile, sites, namedBefore, releasing, zonePass>>
DomainKeySet ==
  /\ \E d \in ZoneDomains \cup {NoName} : d # domainKey /\ domainKey' = d
  /\ UNCHANGED <<holder, claim, lease, records, listKey, hostsFile, sites, namedBefore, releasing, zonePass>>

ZoneRestart ==
  /\ namedBefore' = {} /\ zonePass' = ZoneIdle /\ releasing' = {}
  /\ UNCHANGED <<holder, claim, domainKey, lease, records, listKey, hostsFile, sites>>

-----------------------------------------------------------------------------
(* A pass                                                                  *)

\* The fleet, the claims and the hostnames, read once.
ZonePassList ==
  /\ zonePass = ZoneIdle
  /\ zonePass' = [pc |-> "stamp", lease |-> lease, listKey |-> listKey, claim |-> claim,
                  converge |-> Converges(claim, domainKey), held |-> holder, todo |-> ZoneMachines, stale |-> {},
                  targets |-> [m \in ZoneMachines |-> IF lease[m] = "gone" THEN {}
                                                      ELSE TargetsOf(m, claim, domainKey, holder)]]
  /\ UNCHANGED <<holder, claim, domainKey, lease, records, listKey, hostsFile, sites, namedBefore, releasing>>

\* convergePublicHostnames: the list key of an instance that differed when
\* it was listed.
ConvergeListKey(m) ==
  /\ zonePass.pc = "stamp" /\ m \in zonePass.todo
  /\ LET differs == zonePass.converge /\ zonePass.lease[m] # "gone" /\ zonePass.listKey[m] # zonePass.targets[m]
     IN \/ differs /\ lease[m] # "gone" /\ listKey' = [listKey EXCEPT ![m] = zonePass.targets[m]]
        \/ (~differs \/ lease[m] = "gone" \/ ZoneMayFail("stamp")) /\ UNCHANGED listKey
  /\ zonePass' = [zonePass EXCEPT !.todo = @ \ {m},
                                  !.pc = IF zonePass.todo = {m} THEN "read" ELSE "stamp"]
  /\ UNCHANGED <<holder, claim, domainKey, lease, records, hostsFile, sites, namedBefore, releasing>>

\* desiredZoneRecords: a record per target of a Machine with an address; the
\* names of every listed Machine are kept.
Want(p) == [n \in {n \in PublicNames : \E m \in ZoneMachines : n \in p.targets[m] /\ p.lease[m] \in ZoneAddrs} |->
              p.lease[CHOOSE m \in ZoneMachines : n \in p.targets[m]]]
Keep(p) == UNION {p.targets[m] : m \in ZoneMachines}

\* Mutant: only the names of listed Machines are managed.
ManagedLive(p) == Keep(p)

\* managed: under the claimed domain, or reserved.
Managed(p) == {n \in PublicNames : \/ n \in ZoneHosts /\ p.held[n] # NoName
                                   \/ p.claim # NoName /\ n \in DerivedNames(p.claim)}

\* GetRecords, once per zone, if anything is claimed or reserved in it.
ReadRecords ==
  /\ zonePass.pc = "read"
  /\ LET stale == {n \in Managed(zonePass) : records[n] # NoName} \ (DOMAIN Want(zonePass) \cup Keep(zonePass))
     IN \/ zonePass' = [zonePass EXCEPT !.pc = "set", !.stale = stale]
        \/ ZoneMayFail("records") /\ zonePass' = [zonePass EXCEPT !.pc = "file", !.todo = ZoneMachines]
  /\ UNCHANGED <<holder, claim, domainKey, lease, records, listKey, hostsFile, sites, namedBefore, releasing>>

\* SetRecords and DeleteRecords; the error of one does not stop the other.
SetRecords ==
  /\ zonePass.pc = "set"
  /\ \/ records' = [n \in PublicNames |-> IF n \in DOMAIN Want(zonePass) THEN Want(zonePass)[n] ELSE records[n]]
     \/ ZoneMayFail("records") /\ UNCHANGED records
  /\ zonePass' = [zonePass EXCEPT !.pc = "delete"]
  /\ UNCHANGED <<holder, claim, domainKey, lease, listKey, hostsFile, sites, namedBefore, releasing>>
DeleteRecords ==
  /\ zonePass.pc = "delete"
  /\ \/ records' = [n \in PublicNames |-> IF n \in zonePass.stale THEN NoName ELSE records[n]]
     \/ ZoneMayFail("records") /\ UNCHANGED records
  /\ zonePass' = [zonePass EXCEPT !.pc = "file", !.todo = ZoneMachines]
  /\ UNCHANGED <<holder, claim, domainKey, lease, listKey, hostsFile, sites, namedBefore, releasing>>

FileNext(m, names) ==
  /\ zonePass' = IF zonePass.todo = {m} THEN ZoneIdle ELSE [zonePass EXCEPT !.todo = @ \ {m}]
  /\ namedBefore' = IF names # {} THEN namedBefore \cup {m} ELSE namedBefore \ {m}

\* convergeHostnamesFile looks at a Machine that has names, or had some in
\* this process, if it is running and its instance is not left alone.
LooksAtFile(m) == zonePass.targets[m] # {} \/ m \in namedBefore

ConvergeHostnamesFile(m) ==
  /\ zonePass.pc = "file" /\ m \in zonePass.todo
  /\ LET names == zonePass.targets[m]
         looked == zonePass.converge /\ zonePass.lease[m] \in ZoneAddrs /\ LooksAtFile(m)
         same == hostsFile[m] = names
         pushed == looked /\ RunningNow(m)
     IN \/ /\ ~looked
           /\ zonePass' = IF zonePass.todo = {m} THEN ZoneIdle ELSE [zonePass EXCEPT !.todo = @ \ {m}]
           /\ namedBefore' = IF zonePass.converge /\ names # {} THEN namedBefore \cup {m} ELSE namedBefore
           /\ UNCHANGED <<hostsFile, sites>>
        \/ pushed /\ same /\ FileNext(m, names) /\ UNCHANGED <<hostsFile, sites>>
        \/ /\ pushed /\ ~same /\ FileNext(m, names)
           /\ hostsFile' = [hostsFile EXCEPT ![m] = names] /\ sites' = [sites EXCEPT ![m] = names]
        \* the read, the write or the refresh after it fails, or the Machine
        \* has stopped meanwhile
        \/ /\ looked /\ (ZoneMayFail("file") \/ ZoneMayFail("refresh") \/ ~RunningNow(m))
           /\ zonePass' = IF zonePass.todo = {m} THEN ZoneIdle ELSE [zonePass EXCEPT !.todo = @ \ {m}]
           /\ namedBefore' = IF names # {} THEN namedBefore \cup {m} ELSE namedBefore
           /\ \/ UNCHANGED hostsFile
              \/ pushed /\ ~same /\ ZoneMayFail("refresh") /\ hostsFile' = [hostsFile EXCEPT ![m] = names]
           /\ UNCHANGED sites
  /\ UNCHANGED <<holder, claim, domainKey, lease, records, listKey, releasing>>

ZonePassStep ==
  \/ ZonePassList \/ ReadRecords \/ SetRecords \/ DeleteRecords
  \/ \E m \in ZoneMachines : ConvergeListKey(m) \/ ConvergeHostnamesFile(m)
ZoneNamesChange ==
  \/ \E n \in ZoneHosts : HostnameRelease(n) \/ \E m \in ZoneMachines : HostnameAdd(n, m)
  \/ \E d \in ZoneDomains : ClaimSet(d)
  \/ ClaimReleased \/ DomainKeySet

ZoneNext ==
  \/ ZoneNamesChange
  \/ \E n \in ZoneHosts : ReleaseHook(n)
  \/ \E m \in ZoneMachines : MachineChanges(m)
  \/ ZonePassStep
  \/ ZoneRestart

\* The ticker runs passes for ever, a hook that was started runs, and no call
\* of a pass fails for ever.
PassChanges ==
  \/ (SetRecords \/ DeleteRecords) /\ records' # records
  \/ \E m \in ZoneMachines : \/ ConvergeListKey(m) /\ listKey' # listKey
                             \/ ConvergeHostnamesFile(m) /\ <<hostsFile, sites>>' # <<hostsFile, sites>>
ZoneFairness ==
  /\ WF_zoneVars(ZonePassStep)
  /\ \A n \in ZoneHosts : WF_zoneVars(ReleaseHook(n))
  /\ SF_zoneVars(ReadRecords /\ zonePass'.pc = "set")
  /\ SF_zoneVars(PassChanges)

ZoneSpec == ZoneInit /\ [][ZoneNext]_zoneVars /\ ZoneFairness

-----------------------------------------------------------------------------
(* Properties                                                              *)

\* Tables, keys, records and files stay in their domain.
ZoneTypeOK ==
  /\ holder \in [ZoneHosts -> ZoneMachines \cup {NoName}]
  /\ {claim, domainKey} \subseteq ZoneDomains \cup {NoName}
  /\ records \in [PublicNames -> ZoneAddrs \cup {NoName}]
  /\ \A m \in ZoneMachines : (listKey[m] \cup hostsFile[m] \cup sites[m]) \subseteq PublicNames
  /\ namedBefore \subseteq ZoneMachines /\ releasing \subseteq ZoneHosts

\* A restart that cuts something short: not one that does what a step of the
\* process would have done.
ZoneCutShort == ZoneRestart /\ ~ZonePassStep /\ \A h \in ZoneHosts : ~ReleaseHook(h)

ZoneRests == <>[][~ZoneNamesChange /\ ~ZoneCutShort /\ \A m \in ZoneMachines : ~MachineChanges(m)]_zoneVars

\* reconcileZoneRecords and convergePublicHostnames: when names and Machines
\* rest, a live Machine's names point at it, its list key names them, and a
\* managed name without a Machine has no record.
NamesReachMachines ==
  ZoneRests =>
    <>[](\A m \in ZoneMachines : LET names == TargetsOf(m, claim, domainKey, holder) IN
           /\ RunningNow(m) => \A n \in names : records[n] = lease[m]
           /\ lease[m] # "gone" /\ Converges(claim, domainKey) => listKey[m] = names
           /\ lease[m] = "gone" => \A n \in names : records[n] = NoName)

\* convergeHostnamesFile: a running Machine's file comes to list exactly its
\* names, and the empty set too while the process remembers that it had some.
FilesListNames ==
  ZoneRests =>
    <>[](\A m \in ZoneMachines : LET names == TargetsOf(m, claim, domainKey, holder) IN
           RunningNow(m) /\ Converges(claim, domainKey) /\ (names # {} \/ m \in namedBefore)
             => hostsFile[m] = names)

\* "the pass after the last name is removed still converges the (now empty)
\* hostnames file on the Machine".
FilesListNoNames ==
  ZoneRests =>
    <>[](\A m \in ZoneMachines : RunningNow(m) /\ Converges(claim, domainKey)
           => hostsFile[m] = TargetsOf(m, claim, domainKey, holder))

\* onMachineHostnameReleased: "the zone reconciler treats records of a
\* released name as stale on its next pass, so nothing is lost".
ReleasedRecordsGone ==
  \A n \in ZoneHosts : (ZoneRests /\ <>[](holder[n] = NoName)) => <>[](records[n] = NoName)

\* PushMachineHostnames: "runs caddy-setup --refresh so a removed name's site
\* block disappears".
SitesFollowFile ==
  ZoneRests => <>[](\A m \in ZoneMachines : RunningNow(m) /\ Converges(claim, domainKey)
                      => sites[m] = TargetsOf(m, claim, domainKey, holder))

\* reconcileZone: records, list keys and hostnames files come to agree with
\* the tables once names and Machines rest.
NamesConverge == NamesReachMachines /\ FilesListNames
=============================================================================
