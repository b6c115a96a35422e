---------------------------- MODULE RouteManager ----------------------------
(***************************************************************************)
(* Public Routes below their table: RouteManager.Publish, Delete,          *)
(* Reconcile and regenerate (internal/authapp/route_manager.go), with the  *)
(* Incus side (internal/incusx/routebackend.go, routefront.go) and the     *)
(* loop that drives the passes.  A route is a row, a proxy device of the   *)
(* Auth App's instance, a site of its Caddyfile and an entry of the shared *)
(* front; the four are written one after the other and nothing spans them. *)
(* The conflict checks of the row itself are in ReservationHandlers.       *)
(***************************************************************************)
EXTENDS Integers, FiniteSets

CONSTANTS
  RouteHosts,      \* public hostnames
  Backends,        \* machines routes point at
  Addresses,       \* private addresses a running machine may have
  LocalPorts,      \* the loopback port range, a set of integers
  RouteRequests,   \* the requests being served at a time
  RoutePasses,     \* the goroutines that run Reconcile: event and ticker
  RouteFaults,     \* which calls may fail: "state", "device", "caddy", "front"
  NoDevice

VARIABLES
  routeTable,      \* the routes table
  backend,         \* each machine: an address, "stopped" or "absent"
  device,          \* the proxy device of each hostname
  caddy,           \* the sites Caddy serves
  front,           \* the hostnames the shared front forwards
  routeJob         \* each request and pass: where it is, and what it has read

routeVars == <<routeTable, backend, device, caddy, front, routeJob>>

RouteTableRows == [host : RouteHosts, machine : Backends, port : LocalPorts]
RouteSites == [host : RouteHosts, port : LocalPorts]
RouteDevices == [port : LocalPorts, addr : Addresses]
BackendStates == Addresses \cup {"stopped", "absent"}
RouteWorkers == RouteRequests \cup RoutePasses
RouteIdle == [pc |-> "idle"]

RouteInit ==
  /\ routeTable = {} /\ caddy = {} /\ front = {}
  /\ backend \in [Backends -> Addresses]
  /\ device = [h \in RouteHosts |-> NoDevice]
  /\ routeJob = [x \in RouteWorkers |-> RouteIdle]

RouteAt(x, pc) == routeJob[x].pc = pc
RouteGoto(x, j) == routeJob' = [routeJob EXCEPT ![x] = j]
RouteEnd(x) == RouteGoto(x, RouteIdle)
MayFail(call) == call \in RouteFaults

\* MachineState: a running machine answers its address.
IsRunning(m) == backend[m] \in Addresses

-----------------------------------------------------------------------------
(* Publish                                                                 *)

PublishState(x, h, m) ==
  /\ x \in RouteRequests /\ RouteAt(x, "idle")
  /\ IsRunning(m)
  /\ RouteGoto(x, [pc |-> "port", host |-> h, machine |-> m, addr |-> backend[m]])
  /\ UNCHANGED <<routeTable, backend, device, caddy, front>>

\* A publish that has its port.
Upserted(pc, j, p) == [pc |-> pc, host |-> j.host, machine |-> j.machine, addr |-> j.addr, port |-> p]

\* UpsertRoute up to allocateLocalPort: the same route again is taken as it
\* is, another one of the hostname is refused, else the lowest free port is
\* read, to be inserted by the next statement.
UpsertRead(x) ==
  /\ RouteAt(x, "port")
  /\ LET j == routeJob[x]
         own == {r \in routeTable : r.host = j.host}
         free == LocalPorts \ {r.port : r \in routeTable}
     IN \/ /\ own # {} /\ \A r \in own : r.machine = j.machine
           /\ \E r \in own : RouteGoto(x, Upserted("wire", j, r.port))
        \/ own # {} /\ (\E r \in own : r.machine # j.machine) /\ RouteEnd(x)
        \/ own = {} /\ free = {} /\ RouteEnd(x)
        \/ /\ own = {}
           /\ \E p \in free : /\ \A q \in free : p <= q
                              /\ RouteGoto(x, Upserted("insert", j, p))
  /\ UNCHANGED <<routeTable, backend, device, caddy, front>>

\* The primary key is the hostname; nothing makes the port unique.
UpsertInsert(x) ==
  /\ RouteAt(x, "insert")
  /\ LET j == routeJob[x]
         taken == \E r \in routeTable : r.host = j.host
     IN IF taken THEN RouteEnd(x) /\ UNCHANGED routeTable
        ELSE /\ routeTable' = routeTable \cup {[host |-> j.host, machine |-> j.machine, port |-> j.port]}
             /\ RouteGoto(x, [j EXCEPT !.pc = "wire"])
  /\ UNCHANGED <<backend, device, caddy, front>>

\* Mutant: the address of an existing device is never refreshed.
EnsureProxyDeviceOnce(h, p, a) ==
  device' = IF device[h] # NoDevice /\ device[h].port = p THEN device
            ELSE [device EXCEPT ![h] = [port |-> p, addr |-> a]]

\* EnsureProxyDevice reads the instance and updates it under its etag, so it
\* is one step or an error.
EnsureProxyDevice(h, p, a) == device' = [device EXCEPT ![h] = [port |-> p, addr |-> a]]

PublishWire(x) ==
  /\ RouteAt(x, "wire")
  /\ LET j == routeJob[x] IN
       \/ EnsureProxyDevice(j.host, j.port, j.addr) /\ RouteGoto(x, [pc |-> "render"])
       \/ MayFail("device") /\ RouteEnd(x) /\ UNCHANGED device
  /\ UNCHANGED <<routeTable, backend, caddy, front>>

-----------------------------------------------------------------------------
(* Delete                                                                  *)

DeleteRouteRow(x, h) ==
  /\ x \in RouteRequests /\ RouteAt(x, "idle")
  /\ \E r \in routeTable : r.host = h
  /\ routeTable' = {r \in routeTable : r.host # h}
  /\ RouteGoto(x, [pc |-> "unwire", host |-> h])
  /\ UNCHANGED <<backend, device, caddy, front>>

RemoveProxyDevice(h) == device' = [device EXCEPT ![h] = NoDevice]

DeleteUnwire(x) ==
  /\ RouteAt(x, "unwire")
  /\ \/ RemoveProxyDevice(routeJob[x].host) /\ RouteGoto(x, [pc |-> "render"])
     \/ MayFail("device") /\ RouteEnd(x) /\ UNCHANGED device
  /\ UNCHANGED <<routeTable, backend, caddy, front>>

-----------------------------------------------------------------------------
(* regenerate, at the end of Publish and Delete, of a pass that pruned and *)
(* of the start-up: list the table, apply the Caddyfile, then tell the     *)
(* front, whose failure is only logged.                                    *)

Regenerate(x) ==
  /\ RouteAt(x, "render")
  /\ RouteGoto(x, [pc |-> "apply", listed |-> routeTable])
  /\ UNCHANGED <<routeTable, backend, device, caddy, front>>

RenderCaddyfile(rows) == {[host |-> r.host, port |-> r.port] : r \in rows}

ApplyCaddy(x) ==
  /\ RouteAt(x, "apply")
  /\ \/ /\ caddy' = RenderCaddyfile(routeJob[x].listed)
        /\ RouteGoto(x, [routeJob[x] EXCEPT !.pc = "front"])
     \/ MayFail("caddy") /\ RouteEnd(x) /\ UNCHANGED caddy
  /\ UNCHANGED <<routeTable, backend, device, front>>

UpdateFrontRoutes(x) ==
  /\ RouteAt(x, "front")
  /\ \/ front' = {r.host : r \in routeJob[x].listed}
     \/ MayFail("front") /\ UNCHANGED front
  /\ RouteEnd(x)
  /\ UNCHANGED <<routeTable, backend, device, caddy>>

-----------------------------------------------------------------------------
(* Reconcile, one pass: the listed rows one by one                         *)

PassList(x) ==
  /\ x \in RoutePasses /\ RouteAt(x, "idle")
  /\ RouteGoto(x, [pc |-> "next", todo |-> routeTable, pruned |-> FALSE])
  /\ UNCHANGED <<routeTable, backend, device, caddy, front>>

Refreshing(j, a) == [pc |-> "refresh", todo |-> j.todo, pruned |-> j.pruned, row |-> j.row, addr |-> a]

\* The next row's machine: a lookup that fails skips the row; a stopped
\* machine keeps its route as it is.
PassLook(x) ==
  /\ RouteAt(x, "next")
  /\ \E r \in routeJob[x].todo :
       LET rest == [routeJob[x] EXCEPT !.todo = @ \ {r}]
           found == [pc |-> "prune", todo |-> rest.todo, pruned |-> rest.pruned, row |-> r]
       IN
       \/ MayFail("state") /\ RouteGoto(x, rest)
       \/ backend[r.machine] = "stopped" /\ RouteGoto(x, rest)
       \/ backend[r.machine] = "absent" /\ RouteGoto(x, found)
       \/ IsRunning(r.machine) /\ RouteGoto(x, Refreshing(found, backend[r.machine]))
  /\ UNCHANGED <<routeTable, backend, device, caddy, front>>

PassResume(j) == [pc |-> "next", todo |-> j.todo, pruned |-> j.pruned]

\* PruneRoute, by hostname alone ...
PruneRoute(x) ==
  /\ RouteAt(x, "prune")
  /\ routeTable' = {r \in routeTable : r.host # routeJob[x].row.host}
  /\ RouteGoto(x, [routeJob[x] EXCEPT !.pc = "pruned"])
  /\ UNCHANGED <<backend, device, caddy, front>>

\* ... and its device; an error ends the pass without a regenerate.
PruneDevice(x) ==
  /\ RouteAt(x, "pruned")
  /\ \/ /\ RemoveProxyDevice(routeJob[x].row.host)
        /\ RouteGoto(x, [PassResume(routeJob[x]) EXCEPT !.pruned = TRUE])
     \/ MayFail("device") /\ RouteEnd(x) /\ UNCHANGED device
  /\ UNCHANGED <<routeTable, backend, caddy, front>>

PassRefresh(x) ==
  /\ RouteAt(x, "refresh")
  /\ LET j == routeJob[x] IN
       \/ EnsureProxyDevice(j.row.host, j.row.port, j.addr) /\ RouteGoto(x, PassResume(j))
       \/ MayFail("device") /\ RouteEnd(x) /\ UNCHANGED device
  /\ UNCHANGED <<routeTable, backend, caddy, front>>

PassEnd(x) ==
  /\ RouteAt(x, "next") /\ routeJob[x].todo = {}
  /\ IF routeJob[x].pruned THEN RouteGoto(x, [pc |-> "render"]) ELSE RouteEnd(x)
  /\ UNCHANGED <<routeTable, backend, device, caddy, front>>

-----------------------------------------------------------------------------
(* Machines start, stop, move and disappear; the Auth App restarts         *)

BackendChanges(m) ==
  /\ \E s \in BackendStates \ {backend[m]} : backend' = [backend EXCEPT ![m] = s]
  /\ UNCHANGED <<routeTable, device, caddy, front, routeJob>>

\* runRouteReconcileLoop begins with SyncCaddy.
AuthAppRestarts ==
  /\ \E p \in RoutePasses :
       routeJob' = [x \in RouteWorkers |-> IF x = p THEN [pc |-> "render"] ELSE RouteIdle]
  /\ UNCHANGED <<routeTable, backend, device, caddy, front>>

RouteRequestStep(x) ==
  \/ UpsertRead(x) \/ UpsertInsert(x) \/ PublishWire(x) \/ DeleteUnwire(x)
  \/ Regenerate(x) \/ ApplyCaddy(x) \/ UpdateFrontRoutes(x)
RoutePassStep(x) ==
  \/ PassList(x) \/ PassLook(x) \/ PruneRoute(x) \/ PruneDevice(x) \/ PassRefresh(x) \/ PassEnd(x)
  \/ Regenerate(x) \/ ApplyCaddy(x) \/ UpdateFrontRoutes(x)
RouteRequested ==
  \E x \in RouteRequests, h \in RouteHosts :
    DeleteRouteRow(x, h) \/ \E m \in Backends : PublishState(x, h, m)

RouteNext ==
  \/ RouteRequested
  \/ \E x \in RouteRequests : RouteRequestStep(x)
  \/ \E x \in RoutePasses : RoutePassStep(x)
  \/ \E m \in Backends : BackendChanges(m)
  \/ AuthAppRestarts

\* A pass that reaches a row sooner or later gets an answer from Incus about
\* its machine, and sooner or later updates its device.
PassAnswered(x, m) == PassLook(x) /\ routeJob'[x].pc # "next" /\ routeJob'[x].row.machine = m
PassRefreshed(x, m) == PassRefresh(x) /\ routeJob'[x].pc = "next" /\ routeJob[x].row.machine = m

\* Requests run to their end, the loop ticks for ever, and no call fails for
\* ever.
RouteFairness ==
  /\ \A x \in RouteRequests : WF_routeVars(RouteRequestStep(x))
  /\ \A x \in RoutePasses :
       /\ WF_routeVars(RoutePassStep(x))
       /\ \A m \in Backends : /\ SF_routeVars(PassAnswered(x, m))
                              /\ SF_routeVars(PassRefreshed(x, m))

RouteSpec == RouteInit /\ [][RouteNext]_routeVars /\ RouteFairness

-----------------------------------------------------------------------------
(* Properties                                                              *)

\* A restart that cuts something short: not one that does what a step of the
\* process would have done.
RoutesCutShort ==
  /\ AuthAppRestarts
  /\ \A x \in RoutePasses : ~RoutePassStep(x)
  /\ \A x \in RouteRequests : ~RouteRequestStep(x)

\* Every table, device, site and job stays in its domain.
RouteTypeOK ==
  /\ routeTable \subseteq RouteTableRows
  /\ backend \in [Backends -> BackendStates]
  /\ device \in [RouteHosts -> RouteDevices \cup {NoDevice}]
  /\ caddy \subseteq RouteSites /\ front \subseteq RouteHosts

\* Reconcile: whatever requests, stale lookups and failed calls come between,
\* the routes of a machine that is gone for good are pruned for good, unless
\* the Auth App keeps restarting.
AbsentPruned ==
  <>[][~RoutesCutShort]_routeVars =>
    \A m \in Backends : <>[](backend[m] = "absent") => <>[](\A r \in routeTable : r.machine # m)

\* Reconcile: a route that stays, to a machine that keeps its address, ends up
\* wired to that address, although publish and an earlier pass may write an
\* address they read before the machine moved.
AddressRefreshed ==
  <>[][~RoutesCutShort]_routeVars =>
    \A m \in Backends, h \in RouteHosts, p \in LocalPorts, a \in Addresses :
      <>[](backend[m] = a /\ [host |-> h, machine |-> m, port |-> p] \in routeTable)
        => <>[](device[h] = [port |-> p, addr |-> a])

\* regenerate: "The reconcile loop re-renders on every pass, so the front
\* converges on its own": once requests and machines rest, the front lists the
\* table again and again.
FrontConverges ==
  (/\ <>[][~RoutesCutShort /\ ~RouteRequested]_routeVars
   /\ <>[][FALSE]_backend)
    => []<>(front = {r.host : r \in routeTable})

\* Reconcile: the routes and their proxy devices come to follow the machines.
RoutesFollowMachines == AbsentPruned /\ AddressRefreshed
=============================================================================
