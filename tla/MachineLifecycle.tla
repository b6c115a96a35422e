-------------------------- MODULE MachineLifecycle --------------------------
(***************************************************************************)
(* The commands that make, start, stop and remove machines: cli's          *)
(* create_v2.go, machine_lifecycle.go and hostname.go over incusx's        *)
(* machine_create_v2.go and the Auth App's hostname endpoints.             *)
(*                                                                         *)
(* `sc create --hostname` claims the names one by one at the Auth App,     *)
(* asks Incus whether the machine exists, creates it, and releases what it *)
(* claimed when a step fails.  `sc connect` ensures a machine; a lifecycle *)
(* command reads its targets once, then acts on all of them concurrently.  *)
(* Every call is a step of its own, and commands of several terminals      *)
(* interleave.                                                             *)
(***************************************************************************)
EXTENDS FiniteSets, Sequences

CONSTANTS
    Places,      \* project:machine references
    HostNames,   \* explicit public hostnames
    Terminals,   \* concurrent commands
    Commands,    \* set of [op, places, names] a terminal may run
    LifeFaults,  \* subset of {"claim", "release", "create", "wait", "start"}
    NoPlace

ASSUME LifeAssumption ==
    /\ NoPlace \notin Places
    /\ Commands \subseteq [op : {"create", "bare", "connect", "start", "stop", "restart", "delete", "deleteAll"},
                           places : (SUBSET Places) \ {{}}, names : Seq(HostNames)]

VARIABLES
    inst,     \* place -> the Incus instance: state, stamped names, bare
    holds,    \* hostname -> the place whose reservation it is
    term      \* the commands in progress

lifeVars == <<inst, holds, term>>

NoInst == [st |-> "none", names |-> {}, bare |-> FALSE]

NoCommand == [op |-> "none", places |-> {}, names |-> <<>>]

IdleTerm == [cmd |-> NoCommand, step |-> "idle", left |-> <<>>, claimed |-> <<>>, own |-> {},
             before |-> {}, todo |-> [p \in Places |-> "none"], result |-> [p \in Places |-> "none"]]

LifeTypeOK ==
    /\ inst \in [Places -> [st : {"none", "running", "stopped"},
                            names : SUBSET HostNames, bare : BOOLEAN]]
    /\ \A p \in Places : inst[p].st = "none" => inst[p] = NoInst
    /\ holds \in [HostNames -> Places \cup {NoPlace}]
    /\ \A t \in Terminals :
          /\ term[t].step \in {"idle", "claim", "get", "post", "wait", "undo", "ensure", "start",
                               "bare", "act", "ok", "failed"}
          /\ term[t].cmd \in Commands \cup {NoCommand}
          /\ term[t].own \subseteq HostNames

LifeInit ==
    /\ inst = [p \in Places |-> NoInst]
    /\ holds = [h \in HostNames |-> NoPlace]
    /\ term = [t \in Terminals |-> IdleTerm]

PlaceOf(t) == CHOOSE p \in term[t].cmd.places : TRUE

HeldBy(p) == {h \in HostNames : holds[h] = p}

(* The reports of the other terminals about p are old news now.            *)
Touched(t, p) ==
    [u \in Terminals |-> IF u = t THEN term[u]
        ELSE [term[u] EXCEPT !.result[p] = IF @ = "ok" THEN "stale" ELSE @]]

(* A release of h: nobody's claim any more, and no longer this machine's   *)
(* by an earlier right, except in the eyes of the command that did it.     *)
Released(t, h) ==
    [u \in Terminals |-> [term[u] EXCEPT !.own = @ \ {h},
                             !.before = IF u = t THEN @ ELSE @ \ {h}]]

At(t, op, step) == term[t].cmd.op = op /\ term[t].step = step

(* runCreateMachineV2, dialV2Machine: the reference is resolved.           *)
CommandBegin(t, c) ==
    /\ term[t].step \in {"idle", "ok", "failed"}
    /\ c.op \in {"create", "bare", "connect"}
    /\ term' = [term EXCEPT ![t] = [IdleTerm EXCEPT !.cmd = c, !.left = c.names,
                   !.before = HeldBy(CHOOSE p \in c.places : TRUE),
                   !.step = IF c.op = "connect" THEN "ensure" ELSE "claim"]]
    /\ UNCHANGED <<inst, holds>>

(* claimMachineHostnamesBeforeCreate, one AddMachineHostname.  A name the  *)
(* machine already holds is answered with AlreadyHeld, and joins `claimed` *)
(* like a new one; the first refusal releases what was claimed.            *)
ClaimName(t) ==
    /\ term[t].step = "claim"
    /\ UNCHANGED inst
    /\ \/ /\ term[t].left = <<>>
          /\ term' = [term EXCEPT ![t].step = "get"]
          /\ UNCHANGED holds
       \/ /\ term[t].left # <<>>
          /\ LET h == Head(term[t].left) IN
             \/ /\ holds[h] \in {NoPlace, PlaceOf(t)}
                /\ holds' = [holds EXCEPT ![h] = PlaceOf(t)]
                /\ term' = [term EXCEPT ![t].left = Tail(@), ![t].claimed = Append(@, h),
                              ![t].own = @ \cup (IF holds[h] = NoPlace THEN {h} ELSE {})]
             \/ /\ holds[h] \notin {NoPlace, PlaceOf(t)} \/ "claim" \in LifeFaults
                /\ term' = [term EXCEPT ![t].step = "undo"]
                /\ UNCHANGED holds

(* CreateMachineV2: is there such an instance?                             *)
CreateGet(t) ==
    /\ term[t].step = "get"
    /\ term' = [term EXCEPT ![t].step = IF inst[PlaceOf(t)].st # "none" THEN "undo" ELSE "post"]
    /\ UNCHANGED <<inst, holds>>

(* The names the create call stamps: the request's, whatever the registry  *)
(* says by now.  `sc connect` stamps none of its own.                      *)
Stamped(t) == {term[t].cmd.names[i] : i \in DOMAIN term[t].cmd.names}

(* CreateInstance: Incus refuses a second instance of one name.            *)
CreatePost(t) ==
    /\ term[t].step = "post"
    /\ UNCHANGED holds
    /\ \/ /\ inst[PlaceOf(t)].st = "none"
          /\ inst' = [inst EXCEPT ![PlaceOf(t)] =
                        [st |-> "running", names |-> Stamped(t), bare |-> term[t].cmd.op = "bare"]]
          /\ term' = [Touched(t, PlaceOf(t)) EXCEPT ![t].step = "wait"]
       \/ /\ inst[PlaceOf(t)].st # "none" \/ "create" \in LifeFaults
          /\ term' = [term EXCEPT ![t].step = "undo"]
          /\ UNCHANGED inst

(* op.Wait, then the bounded wait for a lease.  A create operation that    *)
(* fails leaves nothing, or the instance it could not start.               *)
CreateWait(t) ==
    /\ term[t].step = "wait"
    /\ UNCHANGED holds
    /\ \/ /\ term' = [term EXCEPT ![t].step = "ok", ![t].result[PlaceOf(t)] = "created"]
          /\ UNCHANGED inst
       \/ /\ "wait" \in LifeFaults
          /\ inst[PlaceOf(t)].st # "none"
          /\ \E left \in {NoInst, [inst[PlaceOf(t)] EXCEPT !.st = "stopped"]} :
                inst' = [inst EXCEPT ![PlaceOf(t)] = left]
          /\ term' = [Touched(t, PlaceOf(t)) EXCEPT ![t].step = "undo"]

(* releaseMachineHostnames, one RemoveMachineHostname: the reservation of  *)
(* this place goes and the instance's key is stamped from what is left; a  *)
(* failed release is reported and the next one is tried.                   *)
ReleaseName(t) ==
    /\ term[t].step = "undo"
    /\ \/ /\ term[t].claimed = <<>>
          /\ term' = [term EXCEPT ![t].step = "failed"]
          /\ UNCHANGED <<inst, holds>>
       \/ /\ term[t].claimed # <<>>
          /\ LET h == Head(term[t].claimed)
                 p == PlaceOf(t) IN
             \/ /\ holds[h] = p
                /\ holds' = [holds EXCEPT ![h] = NoPlace]
                /\ term' = [Released(t, h) EXCEPT ![t].claimed = Tail(@)]
                /\ inst' = [inst EXCEPT ![p].names = IF inst[p].st = "none" THEN {} ELSE HeldBy(p) \ {h}]
             \/ /\ holds[h] # p \/ "release" \in LifeFaults
                /\ term' = [term EXCEPT ![t].claimed = Tail(@)]
                /\ UNCHANGED <<inst, holds>>

(* EnsureMachineV2: a running machine is waited for, a stopped one         *)
(* started, an absent one created (no names to claim: CreateMachineV2      *)
(* looks again).                                                           *)
Ensure(t) ==
    /\ term[t].step = "ensure"
    /\ term' = [term EXCEPT ![t].step = CASE inst[PlaceOf(t)].st = "running" -> "bare"
                                          [] inst[PlaceOf(t)].st = "stopped" -> "start"
                                          [] OTHER -> "get"]
    /\ UNCHANGED <<inst, holds>>

EnsureStart(t) ==
    /\ term[t].step = "start"
    /\ UNCHANGED holds
    /\ \/ /\ inst[PlaceOf(t)].st # "none"
          /\ inst' = [inst EXCEPT ![PlaceOf(t)].st = "running"]
          /\ term' = [Touched(t, PlaceOf(t)) EXCEPT ![t].step = "bare"]
       \/ /\ inst[PlaceOf(t)].st = "none" \/ "start" \in LifeFaults
          /\ term' = [term EXCEPT ![t].step = "failed"]
          /\ UNCHANGED inst

(* MachineIsBareV2: how to open the session.                               *)
DialBare(t) ==
    /\ term[t].step = "bare"
    /\ term' = [term EXCEPT ![t].step = IF inst[PlaceOf(t)].st = "none" THEN "failed" ELSE "ok",
                  ![t].result[PlaceOf(t)] = IF inst[PlaceOf(t)].bare THEN "exec" ELSE "ssh"]
    /\ UNCHANGED <<inst, holds>>

(* lifecycleTargets: the machines that match, read once.  Nothing matched  *)
(* is an error; a literal reference is acted on whether or not it exists.  *)
LifecycleTargets(t, c) ==
    /\ term[t].step \in {"idle", "ok", "failed"}
    /\ c.op \in {"start", "stop", "restart", "delete", "deleteAll"}
    /\ LET found == IF c.op = "deleteAll" THEN {p \in c.places : inst[p].st # "none"} ELSE c.places IN
       /\ term' = [term EXCEPT ![t] = [IdleTerm EXCEPT !.cmd = c,
                      !.step = IF found = {} THEN "failed" ELSE "act",
                      !.todo = [p \in Places |-> IF p \in found THEN "get" ELSE "none"]]]
    /\ UNCHANGED <<inst, holds>>

(* applyMachineAction's goroutine for one target, MachineLifecycleV2:      *)
(* GetInstance, then the state change or forced stop, then the delete.     *)
ActGet(t, p) ==
    /\ term[t].step = "act" /\ term[t].todo[p] = "get"
    /\ LET st == inst[p].st
           next == CASE st = "none" -> "done"
                     [] term[t].cmd.op \in {"delete", "deleteAll"} /\ st = "running" -> "force"
                     [] OTHER -> "apply"
       IN term' = [term EXCEPT ![t].todo[p] = next,
                     ![t].result[p] = IF st = "none" THEN "error" ELSE @]
    /\ UNCHANGED <<inst, holds>>

(* The forced stop before a delete: its failure is ignored.                *)
ActForceStop(t, p) ==
    /\ term[t].step = "act" /\ term[t].todo[p] = "force"
    /\ inst' = [inst EXCEPT ![p].st = IF @ = "none" THEN @ ELSE "stopped"]
    /\ term' = [Touched(t, p) EXCEPT ![t].todo[p] = "apply"]
    /\ UNCHANGED holds

(* A running instance cannot be deleted, an instance that is gone cannot   *)
(* be changed; starting a running one or stopping a stopped one is an      *)
(* error of Incus.                                                         *)
Applied(op, i) ==
    CASE op \in {"delete", "deleteAll"} -> IF i.st = "stopped" THEN {NoInst} ELSE {}
      [] op = "start"   -> IF i.st = "stopped" THEN {[i EXCEPT !.st = "running"]} ELSE {}
      [] op = "stop"    -> IF i.st = "running" THEN {[i EXCEPT !.st = "stopped"]} ELSE {}
      [] op = "restart" -> IF i.st = "running" THEN {i} ELSE {}

\* Mutant: an action that fails is reported as done.
ActApplyQuietly(t, p) ==
    /\ term[t].step = "act" /\ term[t].todo[p] = "apply"
    /\ UNCHANGED holds
    /\ inst' = [inst EXCEPT ![p] = IF Applied(term[t].cmd.op, @) = {} THEN @
                                   ELSE CHOOSE i \in Applied(term[t].cmd.op, @) : TRUE]
    /\ term' = [term EXCEPT ![t].todo[p] = "done", ![t].result[p] = "ok"]

ActApply(t, p) ==
    /\ term[t].step = "act" /\ term[t].todo[p] = "apply"
    /\ UNCHANGED holds
    /\ \/ \E i \in Applied(term[t].cmd.op, inst[p]) :
             /\ inst' = [inst EXCEPT ![p] = i]
             /\ term' = [Touched(t, p) EXCEPT ![t].todo[p] = "done", ![t].result[p] = "ok"]
       \/ /\ Applied(term[t].cmd.op, inst[p]) = {} \/ "start" \in LifeFaults
          /\ term' = [term EXCEPT ![t].todo[p] = "done", ![t].result[p] = "error"]
          /\ UNCHANGED inst

(* group.Wait, then the report: an error of one target fails the command.  *)
LifecycleReport(t) ==
    /\ term[t].step = "act"
    /\ \A p \in Places : term[t].todo[p] \in {"none", "done"}
    /\ term' = [term EXCEPT ![t].step =
                  IF \E p \in Places : term[t].result[p] = "error" THEN "failed" ELSE "ok"]
    /\ UNCHANGED <<inst, holds>>

LifeNext ==
    \E t \in Terminals :
        \/ \E c \in Commands : CommandBegin(t, c) \/ LifecycleTargets(t, c)
        \/ ClaimName(t) \/ CreateGet(t) \/ CreatePost(t) \/ CreateWait(t) \/ ReleaseName(t)
        \/ Ensure(t) \/ EnsureStart(t) \/ DialBare(t) \/ LifecycleReport(t)
        \/ \E p \in Places : ActGet(t, p) \/ ActForceStop(t, p) \/ ActApply(t, p)

LifeSpec == LifeInit /\ [][LifeNext]_lifeVars

----------------------------------------------------------------------------
(* What an operator may rely on.                                           *)

(* The report of a lifecycle command is about what happened: a machine     *)
(* reported deleted is gone and one reported stopped is not running,       *)
(* unless another command has touched it since (applyMachineAction: "the   *)
(* report says which ones worked"; its results are filled by goroutines).  *)
ReportTrue ==
    \A t \in Terminals, p \in Places :
        /\ term[t].step \in {"ok", "failed"} /\ term[t].result[p] = "ok"
        => CASE term[t].cmd.op \in {"delete", "deleteAll"} -> inst[p].st = "none"
             [] term[t].cmd.op = "stop" -> inst[p].st = "stopped"
             [] OTHER -> inst[p].st = "running"

(* A create that fails leaves no reservation behind that it made itself,   *)
(* unless a release failed (create_v2.go: "released again if the create    *)
(* fails"; hostname.go: "The first refusal releases what was already       *)
(* claimed").                                                              *)
FailedCreateReleases ==
    \A t \in Terminals :
        At(t, "create", "failed") /\ "release" \notin LifeFaults => term[t].own = {}

(* A name the machine already held before the request stays when the       *)
(* request fails (machine_hostnames_api.go, releaseHostnameAfterFailure:   *)
(* "a name the machine already held before the request stays").            *)
HeldNamesKept ==
    \A t \in Terminals :
        At(t, "create", "failed") => \A h \in term[t].before : holds[h] = PlaceOf(t)

\* What a machine command reports is so, and a failed create leaves nothing.
LifecycleHonest == ReportTrue /\ FailedCreateReleases
=============================================================================
