------------------------- MODULE TunnelPublications -------------------------
(***************************************************************************)
(* Publications of machines from outside: Machine Tunnels (cli/tunnel.go,  *)
(* authapp/machine_tunnels.go), each a Cloudflare tunnel, a CNAME and a    *)
(* connector unit in the machine, and the older Tailnet publications       *)
(* (authapp/tailnet_publications.go, incusx/tailnet_publications.go),      *)
(* each a site in the Tenant Sidecar and an A record.                      *)
(*                                                                         *)
(* ReservationHandlers has the names' reservation against the other kinds  *)
(* of names; here a request goes through the Auth App's row, Cloudflare,   *)
(* the machine and the machine's own list, any of which may fail and leave *)
(* the ones before it done.                                                *)
(***************************************************************************)
EXTENDS Naturals, FiniteSets

CONSTANTS
    TunnelHosts,      \* public hostnames of a zone
    TunnelMachines,   \* machines of the tenant
    TunnelRuns,       \* concurrent sc commands
    TunnelOps,        \* subset of {"publish", "unpublish", "tailnet", "untailnet"}
    MaxTunnels,       \* bound on Cloudflare tunnels ever created
    TunnelFaults,     \* subset of {"provider", "machine", "record", "drain"}
    NoMachine

ASSUME TunnelsAssumption == MaxTunnels \in Nat /\ NoMachine \notin TunnelMachines

VARIABLES
    owner,      \* machine_tunnel_publications: host -> machine
    held,       \* hosts in the DNS propagation hold
    tunnel,     \* Cloudflare: host's tunnel name -> tunnel id, 0 when none
    record,     \* Cloudflare: host -> [type, id], the id of a CNAME's tunnel
    tunnelIds,  \* tunnels created so far
    unit,       \* machine -> host -> id of the tunnel its connector runs, 0 when none
    listed,     \* machine -> hosts of its tunnel metadata
    site,       \* Tenant Sidecar: host -> machine its Caddy site forwards to
    trun        \* the commands

tunnelVars == <<owner, held, tunnel, record, tunnelIds, unit, listed, site, trun>>

NoRecord == [type |-> "none", id |-> 0]
NoRun == [op |-> "none", step |-> "idle", machine |-> NoMachine, host |-> NoMachine,
          fresh |-> FALSE, up |-> FALSE, id |-> 0, seen |-> {}, ok |-> FALSE]

TunnelsTypeOK ==
    /\ owner \in [TunnelHosts -> TunnelMachines \cup {NoMachine}]
    /\ held \subseteq TunnelHosts
    /\ tunnel \in [TunnelHosts -> 0..MaxTunnels]
    /\ record \in [TunnelHosts -> [type : {"none", "CNAME", "A"}, id : 0..MaxTunnels]]
    /\ tunnelIds \in 0..MaxTunnels
    /\ \A h \in TunnelHosts : tunnel[h] <= tunnelIds /\ record[h].id <= tunnelIds
    /\ \A h, g \in TunnelHosts : h # g /\ tunnel[h] # 0 => tunnel[h] # tunnel[g]
    /\ unit \in [TunnelMachines -> [TunnelHosts -> 0..MaxTunnels]]
    /\ listed \in [TunnelMachines -> SUBSET TunnelHosts]
    /\ site \in [TunnelHosts -> TunnelMachines \cup {NoMachine}]

TunnelsInit ==
    /\ owner = [h \in TunnelHosts |-> NoMachine] /\ held = {}
    /\ tunnel = [h \in TunnelHosts |-> 0]
    /\ record = [h \in TunnelHosts |-> NoRecord]
    /\ tunnelIds = 0
    /\ unit = [m \in TunnelMachines |-> [h \in TunnelHosts |-> 0]]
    /\ listed = [m \in TunnelMachines |-> {}]
    /\ site = [h \in TunnelHosts |-> NoMachine]
    /\ trun = [r \in TunnelRuns |-> NoRun]

RunGoes(r, step) == trun' = [trun EXCEPT ![r].step = step]
RunEnds(r, ok) == trun' = [trun EXCEPT ![r].step = "done", ![r].ok = ok]
Provider == "provider" \in TunnelFaults

TunnelRunBegin(r) ==
    /\ trun[r].step \in {"idle", "done"}
    /\ \E m \in TunnelMachines, h \in TunnelHosts :
          \/ /\ "publish" \in TunnelOps
             /\ trun' = [trun EXCEPT ![r] = [NoRun EXCEPT !.op = "publish", !.step = "preflight",
                                                         !.machine = m, !.host = h]]
          \/ /\ "unpublish" \in TunnelOps
             /\ trun' = [trun EXCEPT ![r] = [NoRun EXCEPT !.op = "unpublish", !.step = "uninstall",
                                                         !.machine = m, !.host = h]]
          \/ /\ "tailnet" \in TunnelOps
             /\ trun' = [trun EXCEPT ![r] = [NoRun EXCEPT !.op = "tailnet", !.step = "tailcheck",
                                                         !.machine = m, !.host = h]]
          \/ /\ "untailnet" \in TunnelOps
             /\ trun' = [trun EXCEPT ![r] = [NoRun EXCEPT !.op = "untailnet", !.step = "unsite",
                                                         !.machine = m, !.host = h]]
    /\ UNCHANGED <<owner, held, tunnel, record, tunnelIds, unit, listed, site>>

(* The propagation hold runs out.                                          *)
HoldEnds(h) ==
    /\ h \in held
    /\ held' = held \ {h}
    /\ UNCHANGED <<owner, tunnel, record, tunnelIds, unit, listed, site, trun>>

(***************************************************************************)
(* POST /api/machine-tunnels                                               *)
(***************************************************************************)
OwnCname(h) == tunnel[h] # 0 /\ record[h] = [type |-> "CNAME", id |-> tunnel[h]]

(* preflightMachineTunnel: no hold, and no DNS record but the one of the   *)
(* tunnel of this name.                                                    *)
TunnelPreflight(r) ==
    LET h == trun[r].host
    IN  /\ trun[r].step = "preflight"
        /\ \/ /\ h \notin held /\ (record[h] = NoRecord \/ OwnCname(h))
              /\ RunGoes(r, "claim")
           \/ /\ Provider \/ h \in held \/ ~(record[h] = NoRecord \/ OwnCname(h))
              /\ RunEnds(r, FALSE)
        /\ UNCHANGED <<owner, held, tunnel, record, tunnelIds, unit, listed, site>>

(* ClaimMachineTunnelPublication: free, or an exact retry.                 *)
ClaimTunnel(r) ==
    LET h == trun[r].host
        m == trun[r].machine
    IN  /\ trun[r].step = "claim"
        /\ \/ /\ owner[h] \in {NoMachine, m}
              /\ owner' = [owner EXCEPT ![h] = m]
              /\ trun' = [trun EXCEPT ![r].step = "create", ![r].fresh = owner[h] = NoMachine]
           \/ /\ owner[h] \notin {NoMachine, m}
              /\ RunEnds(r, FALSE) /\ UNCHANGED owner
        /\ UNCHANGED <<held, tunnel, record, tunnelIds, unit, listed, site>>

(* cf.tunnel: the tunnel of this name, created when there is none.         *)
CreateTunnel(r) ==
    LET h == trun[r].host
    IN  /\ trun[r].step = "create"
        /\ \/ /\ tunnel[h] # 0 \/ tunnelIds < MaxTunnels
              /\ tunnelIds' = IF tunnel[h] # 0 THEN tunnelIds ELSE tunnelIds + 1
              /\ tunnel' = [tunnel EXCEPT ![h] = IF @ # 0 THEN @ ELSE tunnelIds + 1]
              /\ trun' = [trun EXCEPT ![r].step = "dns", ![r].id = tunnel'[h]]
           \/ Provider /\ RunGoes(r, "undo") /\ UNCHANGED <<tunnel, tunnelIds>>
        /\ UNCHANGED <<owner, held, record, unit, listed, site>>

(* The ingress configuration, cf.dns and the run token.                    *)
PointTunnel(r) ==
    LET h == trun[r].host
        mine == [type |-> "CNAME", id |-> trun[r].id]
    IN  /\ trun[r].step = "dns"
        /\ \/ /\ record[h] \in {NoRecord, mine}
              /\ record' = [record EXCEPT ![h] = mine]
              /\ \/ RunGoes(r, "list")
                 \/ Provider /\ RunGoes(r, "undo")
           \/ /\ Provider \/ record[h] \notin {NoRecord, mine}
              /\ RunGoes(r, "undo") /\ UNCHANGED record
        /\ UNCHANGED <<owner, held, tunnel, tunnelIds, unit, listed, site>>

(* A failed provisioning gives back a row it made itself.                  *)
UndoClaim(r) ==
    LET h == trun[r].host
    IN  /\ trun[r].step = "undo"
        /\ owner' = [owner EXCEPT ![h] = IF trun[r].fresh /\ @ = trun[r].machine
                                         THEN NoMachine ELSE @]
        /\ RunEnds(r, FALSE)
        /\ UNCHANGED <<held, tunnel, record, tunnelIds, unit, listed, site>>

(***************************************************************************)
(* The rest of sc tunnel publish                                           *)
(***************************************************************************)
(* recordMachineTunnelPublication reads the lists and writes them back     *)
(* with one change, before the connector is installed and again after it   *)
(* (where it only drops the pending mark `sc ls` shows, left out here).    *)
ReadList(r) ==
    /\ trun[r].step = "list"
    /\ \/ trun' = [trun EXCEPT ![r].step = "write", ![r].seen = listed[trun[r].machine]]
       \/ "record" \in TunnelFaults /\ RunEnds(r, FALSE)
    /\ UNCHANGED <<owner, held, tunnel, record, tunnelIds, unit, listed, site>>

WriteList(r) ==
    LET m == trun[r].machine
        h == trun[r].host
        adds == trun[r].op = "publish"
    IN  /\ trun[r].step = "write"
        /\ listed' = [listed EXCEPT ![m] = IF adds THEN trun[r].seen \cup {h}
                                           ELSE trun[r].seen \ {h}]
        /\ IF adds /\ ~trun[r].up THEN RunGoes(r, "install") ELSE RunEnds(r, TRUE)
        /\ UNCHANGED <<owner, held, tunnel, record, tunnelIds, unit, site>>

(* installMachineTunnel: the token file, the unit, and its start.          *)
InstallTunnel(r) ==
    LET m == trun[r].machine
        h == trun[r].host
    IN  /\ trun[r].step = "install"
        /\ \/ /\ unit' = [unit EXCEPT ![m][h] = trun[r].id]
              /\ trun' = [trun EXCEPT ![r].step = "list", ![r].up = TRUE]
           \/ "machine" \in TunnelFaults /\ RunEnds(r, FALSE) /\ UNCHANGED unit
        /\ UNCHANGED <<owner, held, tunnel, record, tunnelIds, listed, site>>

(***************************************************************************)
(* sc tunnel unpublish                                                     *)
(***************************************************************************)
(* uninstallMachineTunnel stops the connector before Cloudflare is asked.  *)
UninstallTunnel(r) ==
    LET m == trun[r].machine
        h == trun[r].host
    IN  /\ trun[r].step = "uninstall"
        /\ \/ unit' = [unit EXCEPT ![m][h] = 0] /\ RunGoes(r, "lookup")
           \/ "machine" \in TunnelFaults /\ RunEnds(r, FALSE) /\ UNCHANGED unit
        /\ UNCHANGED <<owner, held, tunnel, record, tunnelIds, listed, site>>

\* Mutant: the row's machine is not compared with the caller's.
LookupAnyOwner(r) ==
    /\ trun[r].step = "lookup"
    /\ RunGoes(r, IF owner[trun[r].host] = NoMachine THEN "list" ELSE "uncname")
    /\ UNCHANGED <<owner, held, tunnel, record, tunnelIds, unit, listed, site>>

(* DELETE: no row is a repeat delete, another machine's a conflict.        *)
LookupTunnel(r) ==
    LET h == trun[r].host
    IN  /\ trun[r].step = "lookup"
        /\ \/ owner[h] = NoMachine /\ RunGoes(r, "list")
           \/ owner[h] = trun[r].machine /\ RunGoes(r, "uncname")
           \/ owner[h] \notin {NoMachine, trun[r].machine} /\ RunEnds(r, FALSE)
        /\ UNCHANGED <<owner, held, tunnel, record, tunnelIds, unit, listed, site>>

(* cf.unprovisionTunnel: the CNAME of this tunnel and of no other.         *)
DeleteCname(r) ==
    LET h == trun[r].host
    IN  /\ trun[r].step = "uncname"
        /\ \/ /\ record' = [record EXCEPT ![h] = IF OwnCname(h) THEN NoRecord ELSE @]
              /\ RunGoes(r, "untunnel")
           \/ Provider /\ RunEnds(r, FALSE) /\ UNCHANGED record
        /\ UNCHANGED <<owner, held, tunnel, tunnelIds, unit, listed, site>>

(* Then the tunnel; Cloudflare keeps one that has connections, and the     *)
(* command tries four times.                                               *)
DeleteTunnel(r) ==
    LET h == trun[r].host
        busy == \E m \in TunnelMachines : tunnel[h] # 0 /\ unit[m][h] = tunnel[h]
    IN  /\ trun[r].step = "untunnel"
        /\ \/ ~busy /\ tunnel' = [tunnel EXCEPT ![h] = 0] /\ RunGoes(r, "release")
           \/ /\ busy \/ Provider \/ "drain" \in TunnelFaults
              /\ RunEnds(r, FALSE) /\ UNCHANGED tunnel
        /\ UNCHANGED <<owner, held, record, tunnelIds, unit, listed, site>>

(* ReleaseMachineTunnelPublication and HoldMachinePublicationHostname.     *)
ReleaseTunnel(r) ==
    LET h == trun[r].host
    IN  /\ trun[r].step = "release"
        /\ IF owner[h] = trun[r].machine
           THEN /\ owner' = [owner EXCEPT ![h] = NoMachine]
                /\ held' = held \cup {h} /\ RunGoes(r, "list")
           ELSE RunEnds(r, FALSE) /\ UNCHANGED <<owner, held>>
        /\ UNCHANGED <<tunnel, record, tunnelIds, unit, listed, site>>

(***************************************************************************)
(* /api/tailnet-publications                                               *)
(***************************************************************************)
(* tailnetPreflight: no record at all.                                     *)
TailnetPreflight(r) ==
    /\ trun[r].step = "tailcheck"
    /\ \/ record[trun[r].host] = NoRecord /\ RunGoes(r, "site")
       \/ (Provider \/ record[trun[r].host] # NoRecord) /\ RunEnds(r, FALSE)
    /\ UNCHANGED <<owner, held, tunnel, record, tunnelIds, unit, listed, site>>

(* Publish: certificate, fragment and restart of the sidecar's Caddy.      *)
SetSite(r) ==
    LET h == trun[r].host
    IN  /\ trun[r].step = "site"
        /\ \/ site' = [site EXCEPT ![h] = trun[r].machine] /\ RunGoes(r, "arecord")
           \/ "machine" \in TunnelFaults /\ RunEnds(r, FALSE) /\ UNCHANGED site
        /\ UNCHANGED <<owner, held, tunnel, record, tunnelIds, unit, listed>>

(* tailnetA: every record but the identical one is a conflict.             *)
SetARecord(r) ==
    LET h == trun[r].host
        a == [type |-> "A", id |-> 0]
    IN  /\ trun[r].step = "arecord"
        /\ \/ /\ record[h] \in {NoRecord, a}
              /\ record' = [record EXCEPT ![h] = a] /\ RunEnds(r, TRUE)
           \/ /\ Provider \/ record[h] \notin {NoRecord, a}
              /\ RunEnds(r, FALSE) /\ UNCHANGED record
        /\ UNCHANGED <<owner, held, tunnel, tunnelIds, unit, listed, site>>

(* Unpublish: the site, the A record aimed at the sidecar, the hold.       *)
DropSite(r) ==
    /\ trun[r].step = "unsite"
    /\ \/ site' = [site EXCEPT ![trun[r].host] = NoMachine] /\ RunGoes(r, "unrecord")
       \/ "machine" \in TunnelFaults /\ RunEnds(r, FALSE) /\ UNCHANGED site
    /\ UNCHANGED <<owner, held, tunnel, record, tunnelIds, unit, listed>>

DropARecord(r) ==
    LET h == trun[r].host
    IN  /\ trun[r].step = "unrecord"
        /\ \/ /\ record' = [record EXCEPT ![h] = IF @.type = "A" THEN NoRecord ELSE @]
              /\ held' = held \cup {h} /\ RunEnds(r, TRUE)
           \/ Provider /\ RunEnds(r, FALSE) /\ UNCHANGED <<record, held>>
        /\ UNCHANGED <<owner, tunnel, tunnelIds, unit, listed, site>>

TunnelsNext ==
    \/ \E h \in TunnelHosts : HoldEnds(h)
    \/ \E r \in TunnelRuns :
          \/ TunnelRunBegin(r)
          \/ TunnelPreflight(r) \/ ClaimTunnel(r) \/ CreateTunnel(r) \/ PointTunnel(r)
          \/ UndoClaim(r) \/ ReadList(r) \/ WriteList(r) \/ InstallTunnel(r)
          \/ UninstallTunnel(r) \/ LookupTunnel(r) \/ DeleteCname(r) \/ DeleteTunnel(r)
          \/ ReleaseTunnel(r)
          \/ TailnetPreflight(r) \/ SetSite(r) \/ SetARecord(r)
          \/ DropSite(r) \/ DropARecord(r)

TunnelsSpec == TunnelsInit /\ [][TunnelsNext]_tunnelVars

(***************************************************************************)
(* Properties                                                              *)
(***************************************************************************)
(* The machines whose connector answers what the world sends to h.         *)
Serving(h) == {m \in TunnelMachines : OwnCname(h) /\ unit[m][h] = tunnel[h]}

(* "A Machine Tunnel hostname is published by one Machine": the public     *)
(* name reaches only the machine the Auth App has on record for it.        *)
TunnelReachesOwner == \A h \in TunnelHosts : Serving(h) \subseteq {owner[h]}

(* "Unpublish must never turn into a hostname replacement operation": the  *)
(* record of a tunnel goes only with an unpublish of the machine that owns *)
(* it, whatever the other commands for this name do.                       *)
CnameKept ==
    [][\A h \in TunnelHosts :
          OwnCname(h) /\ record'[h] # record[h] =>
             \E r \in TunnelRuns : /\ trun[r].op = "unpublish" /\ trun[r].host = h
                                   /\ trun[r].machine = owner[h]]_tunnelVars

(* "The Machine record is the recovery handle": when no command runs, a    *)
(* machine that owns a tunnel name has it in its own list, where unpublish *)
(* without a hostname looks.                                               *)
OwnedAreListed ==
    (\A r \in TunnelRuns : trun[r].step \in {"idle", "done"}) =>
        \A h \in TunnelHosts : owner[h] # NoMachine => h \in listed[owner[h]]

(* "Repeated `sc tunnel unpublish` is safe while removing the connector    *)
(* and CNAME" (docs/e2e-sc2.md): an unpublish about to report success has  *)
(* left no connector of its machine and, unless somebody has taken the     *)
(* name since, no record of a tunnel.                                      *)
UnpublishRemoves ==
    \A r \in TunnelRuns :
        LET h == trun[r].host
        IN  trun[r].op = "unpublish" /\ trun[r].step = "write" =>
                /\ unit[trun[r].machine][h] = 0
                /\ owner[h] = NoMachine => record[h].type # "CNAME"

(* A published name, its record, its connector and the lists of the Auth    *)
(* App and of the machine tell one story, however commands overlap.         *)
PublicationsSound ==
    /\ [](TunnelReachesOwner /\ OwnedAreListed /\ UnpublishRemoves)
    /\ CnameKept
=============================================================================
