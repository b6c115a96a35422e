----------------------------- MODULE KnownHosts -----------------------------
(***************************************************************************)
(* ~/.ssh/known_hosts and the machines whose keys it pins: the package     *)
(* hostkeys, cli/hostkeys_v2.go, cli/connect_cache.go,                     *)
(* cli/ssh_key_purge.go and the end of dialV2Machine.                      *)
(*                                                                         *)
(* `sc connect` reads a machine's key over the Incus API, waits until port *)
(* 22 serves it, writes it under the machine's name and dials its address  *)
(* strictly; with a cached address and a recorded key it dials at once.    *)
(* `sc ssh-key purge` reconciles every machine it listed.  Both rewrite    *)
(* the user's own file, which a bare ssh appends to without their lock.    *)
(*                                                                         *)
(* A line is a set of hosts, a key and a tag; the order of lines, which    *)
(* ssh does not need, wildcards, which sc only warns of, the key types,    *)
(* and the daily backup, which nothing reads, are left out.                *)
(***************************************************************************)
EXTENDS Naturals, FiniteSets

CONSTANTS
    HostMachines,   \* names of the tenant's machines
    HostAddrs,      \* addresses of the tenant's subnet
    UserHosts,      \* sets of hosts, none empty, that bare ssh may record in one line
    Clis,           \* running sc commands
    HostOps,        \* subset of {"connect", "purge"}
    MaxHostKey,     \* bound on the keys ever generated
    HostFaults,     \* subset of {"agent", "read", "scan", "timeout"}
    NoAddr

ASSUME HostsAssumption ==
    /\ MaxHostKey \in Nat \ {0}
    /\ NoAddr \notin HostAddrs /\ NoAddr \notin Clis
    /\ HostMachines \cap HostAddrs = {}
    /\ {} \notin UserHosts

VARIABLES
    hm,         \* machine -> [addr, born, disk, wire, ready]; addr NoAddr when absent
    lines,      \* the lines of known_hosts
    cacheAddr,  \* machine -> the address the resource cache answers
    keyCount,   \* keys generated so far
    hostLock,   \* the command holding known_hosts.sc-lock, or NoAddr
    cli         \* the commands

hostVars == <<hm, lines, cacheAddr, keyCount, hostLock, cli>>

HostKeys == 1..MaxHostKey
Hosts == HostMachines \cup HostAddrs \cup UNION UserHosts
Line == [hosts : SUBSET Hosts, key : 0..MaxHostKey, tag : {"own", "tofu", "none"}]

Gone == [addr |-> NoAddr, born |-> 0, disk |-> 0, wire |-> 0, ready |-> FALSE]
NoCli == [op |-> "none", step |-> "idle", name |-> NoAddr, addr |-> NoAddr, born |-> 0,
          key |-> 0, tofu |-> FALSE, found |-> << >>, left |-> {}, snap |-> {},
          reached |-> NoAddr, rebuilt |-> FALSE]

HostsTypeOK ==
    /\ hm \in [HostMachines -> [addr : HostAddrs \cup {NoAddr}, born : 0..MaxHostKey,
                                disk : 0..MaxHostKey, wire : 0..MaxHostKey, ready : BOOLEAN]]
    /\ \A m, n \in HostMachines : m # n /\ hm[m].addr # NoAddr => hm[m].addr # hm[n].addr
    /\ lines \subseteq Line /\ \A l \in lines : l.hosts # {}
    /\ cacheAddr \in [HostMachines -> HostAddrs \cup {NoAddr}]
    /\ keyCount \in 0..MaxHostKey
    /\ hostLock \in Clis \cup {NoAddr}
    /\ \A c \in Clis : /\ cli[c].snap \subseteq Line
                       /\ cli[c].left \subseteq HostMachines
                       /\ DOMAIN cli[c].found \subseteq HostMachines
                       /\ (hostLock = c) <=> (cli[c].step = "write")

HostsInit ==
    /\ hm = [m \in HostMachines |-> Gone]
    /\ lines = {} /\ keyCount = 0 /\ hostLock = NoAddr
    /\ cacheAddr = [m \in HostMachines |-> NoAddr]
    /\ cli = [c \in Clis |-> NoCli]

Live(m) == hm[m].addr # NoAddr
CliGoes(c, step) == cli' = [cli EXCEPT ![c].step = step]
Recorded(m) == {l.key : l \in {x \in lines : m \in x.hosts}}

(* ssh-keyscan: the key sshd serves at an address, 0 when nobody answers.  *)
Keyscan(a) == LET ms == {m \in HostMachines : hm[m].addr = a} \ {m \in HostMachines : a = NoAddr}
              IN  IF ms = {} THEN 0 ELSE hm[CHOOSE m \in ms : TRUE].wire

(***************************************************************************)
(* The machines: a first boot starts sshd with one key, then cloud-init    *)
(* replaces the key files and restarts sshd.                               *)
(***************************************************************************)
BootMachine(m) ==
    /\ ~Live(m) /\ keyCount < MaxHostKey
    /\ \E a \in HostAddrs \ {hm[n].addr : n \in HostMachines} :
          hm' = [hm EXCEPT ![m] = [addr |-> a, born |-> keyCount + 1, disk |-> keyCount + 1,
                                   wire |-> keyCount + 1, ready |-> FALSE]]
    /\ keyCount' = keyCount + 1
    /\ UNCHANGED <<lines, cacheAddr, hostLock, cli>>

(* cloud-init deletes every key file and writes new ones.                  *)
RegenerateKeys(m) ==
    /\ Live(m) /\ ~hm[m].ready /\ hm[m].disk = hm[m].born /\ keyCount < MaxHostKey
    /\ hm' = [hm EXCEPT ![m].disk = keyCount + 1]
    /\ keyCount' = keyCount + 1
    /\ UNCHANGED <<lines, cacheAddr, hostLock, cli>>

RestartSshd(m) ==
    /\ Live(m) /\ ~hm[m].ready /\ hm[m].disk # hm[m].born
    /\ hm' = [hm EXCEPT ![m].wire = hm[m].disk, ![m].ready = TRUE]
    /\ UNCHANGED <<lines, cacheAddr, keyCount, hostLock, cli>>

DeleteMachine(m) ==
    /\ Live(m)
    /\ hm' = [hm EXCEPT ![m] = Gone]
    /\ UNCHANGED <<lines, cacheAddr, keyCount, hostLock, cli>>

CacheCatchesUp(m) ==
    /\ cacheAddr' = [cacheAddr EXCEPT ![m] = hm[m].addr]
    /\ UNCHANGED <<hm, lines, keyCount, hostLock, cli>>

(* A bare ssh accepts a host key and appends it; it knows no lock.         *)
SshAppends ==
    /\ \E hs \in UserHosts :
          /\ \A l \in lines : l.tag = "none" => l.hosts \cap hs = {}
          /\ lines' = lines \cup {[hosts |-> hs, key |-> 0, tag |-> "none"]}
    /\ UNCHANGED <<hm, cacheAddr, keyCount, hostLock, cli>>

(***************************************************************************)
(* Config.plan: the reconciled file.  `known` maps each machine of the     *)
(* plan to [key, tofu]; key 0 is a machine whose key could not be read.    *)
(* The subnet comes from a running machine: without one no address goes.   *)
(***************************************************************************)
Desired(known) == {[hosts |-> {m}, key |-> known[m].key,
                    tag |-> IF known[m].tofu THEN "tofu" ELSE "own"] :
                      m \in {n \in DOMAIN known : known[n].key # 0}}

WithoutHosts(l, hs) == {k \in {[l EXCEPT !.hosts = l.hosts \ hs]} : k.hosts # {}}

UnreadableKept(l, known) == \E m \in DOMAIN known \cap l.hosts : known[m].key = 0

KeptOf(l, known, purge) ==
    IF l.hosts \cap DOMAIN known # {}
    THEN IF UnreadableKept(l, known) \/ l \in Desired(known)
         THEN {l} ELSE WithoutHosts(l, DOMAIN known)
    ELSE IF l.tag # "none" THEN IF purge THEN {} ELSE {l}
    ELSE IF known = << >> THEN {l} ELSE WithoutHosts(l, HostAddrs)

PlanLines(file, known, purge) ==
    (UNION {KeptOf(l, known, purge) : l \in file}) \cup Desired(known)

KnownOf(c) == IF cli[c].op = "purge" THEN cli[c].found
              ELSE [m \in {cli[c].name} |-> [key |-> cli[c].key, tofu |-> cli[c].tofu]]

(***************************************************************************)
(* sc connect                                                              *)
(***************************************************************************)
(* EnsureMachineV2 has found the machine; dialV2MachineViaCache goes first *)
(* when the cache has an address and known_hosts a key.                    *)
ConnectBegin(c, m) ==
    /\ "connect" \in HostOps
    /\ cli[c].step = "idle" /\ Live(m)
    /\ LET cached == cacheAddr[m] # NoAddr /\ Recorded(m) # {}
       IN  cli' = [cli EXCEPT ![c] =
                [NoCli EXCEPT !.op = "connect", !.name = m, !.born = hm[m].born,
                   !.addr = IF cached THEN cacheAddr[m] ELSE hm[m].addr,
                   !.step = IF cached THEN "cached" ELSE "init"]]
    /\ UNCHANGED <<hm, lines, cacheAddr, keyCount, hostLock>>

(* recordedKeyMatchesScan, or the live path with the live address.         *)
CacheScan(c) ==
    /\ cli[c].step = "cached"
    /\ LET k == Keyscan(cli[c].addr)
           hit == k # 0 /\ Recorded(cli[c].name) = {k}
       IN  cli' = [cli EXCEPT ![c].step = IF hit THEN "dial" ELSE "init",
                              ![c].key = IF hit THEN k ELSE 0,
                              ![c].addr = IF hit THEN @ ELSE hm[cli[c].name].addr]
    /\ UNCHANGED <<hm, lines, cacheAddr, keyCount, hostLock>>

(* waitForCloudInitV2: finished, unreadable, or out of time.               *)
WaitCloudInit(c) ==
    /\ cli[c].step = "init"
    /\ \/ hm[cli[c].name].ready
       \/ ~Live(cli[c].name)
       \/ HostFaults \cap {"agent", "timeout"} # {}
    /\ CliGoes(c, "read")
    /\ UNCHANGED <<hm, lines, cacheAddr, keyCount, hostLock>>

(* machineHostKeys: the key on disk, or what port 22 serves, trusted on    *)
(* first use, or nothing, and ssh runs with accept-new.                    *)
ReadKeys(c) ==
    LET m == cli[c].name
        scanned == Keyscan(cli[c].addr)
    IN  /\ cli[c].step = "read"
        /\ \/ /\ Live(m)
              /\ cli' = [cli EXCEPT ![c] = [@ EXCEPT !.key = hm[m].disk, !.tofu = FALSE,
                                                     !.step = "confirm"]]
           \/ /\ ~Live(m) \/ "read" \in HostFaults
              /\ scanned # 0
              /\ cli' = [cli EXCEPT ![c] = [@ EXCEPT !.key = scanned, !.tofu = TRUE, !.step = "plan"]]
           \/ /\ ~Live(m) \/ "read" \in HostFaults
              /\ scanned = 0 \/ "scan" \in HostFaults
              /\ cli' = [cli EXCEPT ![c] = [NoCli EXCEPT !.op = "connect", !.step = "loose"]]
        /\ UNCHANGED <<hm, lines, cacheAddr, keyCount, hostLock>>

(* settledHostKeys: accepted once port 22 serves it, or cannot be asked,   *)
(* or the wait is over.                                                    *)
ConfirmKeys(c) ==
    LET scanned == Keyscan(cli[c].addr)
        settled == scanned \in {0, cli[c].key}
    IN  /\ cli[c].step = "confirm"
        /\ \/ CliGoes(c, IF settled THEN "plan" ELSE "read")
           \/ HostFaults \cap {"scan", "timeout"} # {} /\ CliGoes(c, "plan")
        /\ UNCHANGED <<hm, lines, cacheAddr, keyCount, hostLock>>

AfterPlan(c) == IF cli[c].op = "purge" THEN "purged" ELSE "dial"

(* Ensure and Purge: the plan shown; an empty one writes nothing.          *)
MakePlan(c) ==
    /\ cli[c].step = "plan"
    /\ cli' = [cli EXCEPT ![c].step =
                 IF PlanLines(lines, KnownOf(c), cli[c].op = "purge") = lines
                 THEN AfterPlan(c) ELSE "apply",
                          ![c].snap = lines]
    /\ UNCHANGED <<hm, lines, cacheAddr, keyCount, hostLock>>

\* Mutant: the lines shown to the user are written, not those read under the
\* lock.
ApplyShown(c) ==
    /\ cli[c].step = "apply" /\ hostLock = NoAddr
    /\ hostLock' = c
    /\ cli' = [cli EXCEPT ![c].step = "write"]
    /\ UNCHANGED <<hm, lines, cacheAddr, keyCount>>

(* Plan.Apply: the lock, then the plan computed again from the file.       *)
ApplyLocked(c) ==
    /\ cli[c].step = "apply" /\ hostLock = NoAddr
    /\ hostLock' = c
    /\ cli' = [cli EXCEPT ![c].step = "write", ![c].snap = lines]
    /\ UNCHANGED <<hm, lines, cacheAddr, keyCount>>

(* writeLines renames a complete file over the old one.                    *)
ApplyWrite(c) ==
    /\ cli[c].step = "write"
    /\ lines' = PlanLines(cli[c].snap, KnownOf(c), cli[c].op = "purge")
    /\ hostLock' = NoAddr
    /\ cli' = [cli EXCEPT ![c].step = AfterPlan(c), ![c].snap = {}]
    /\ UNCHANGED <<hm, cacheAddr, keyCount>>

(* ssh -o StrictHostKeyChecking=yes -o HostKeyAlias=<name>.                *)
DialMachine(c) ==
    LET a == cli[c].addr
        k == Keyscan(a)
        m == cli[c].name
    IN  /\ cli[c].step = "dial"
        /\ cli' = [cli EXCEPT ![c] =
                     [NoCli EXCEPT !.op = "connect", !.name = m,
                        !.step = IF k = 0 THEN "unreachable"
                                 ELSE IF k \in Recorded(m) THEN "session" ELSE "refused",
                        !.reached = IF k = 0 THEN NoAddr
                                    ELSE CHOOSE n \in HostMachines : hm[n].addr = a,
                        !.rebuilt = hm[m].born # cli[c].born]]
        /\ UNCHANGED <<hm, lines, cacheAddr, keyCount, hostLock>>

ConnectEnds(c) ==
    /\ cli[c].step \in {"session", "refused", "unreachable", "loose", "purged"}
    /\ cli' = [cli EXCEPT ![c] = NoCli]
    /\ UNCHANGED <<hm, lines, cacheAddr, keyCount, hostLock>>

(***************************************************************************)
(* sc ssh-key purge                                                        *)
(***************************************************************************)
PurgeList(c) ==
    /\ "purge" \in HostOps
    /\ cli[c].step = "idle"
    /\ cli' = [cli EXCEPT ![c] = [NoCli EXCEPT !.op = "purge", !.step = "keys",
                                               !.left = {m \in HostMachines : Live(m)}]]
    /\ UNCHANGED <<hm, lines, cacheAddr, keyCount, hostLock>>

(* Every listed machine in turn; one that cannot be read stays claimed.    *)
PurgeKeys(c) ==
    /\ cli[c].step = "keys"
    /\ IF cli[c].left = {} THEN CliGoes(c, "plan")
       ELSE LET m == CHOOSE n \in cli[c].left : TRUE
            IN  \E k \in {hm[m].disk} \cup {x \in {0} : "read" \in HostFaults} :
                   cli' = [cli EXCEPT ![c] = [@ EXCEPT !.left = cli[c].left \ {m},
                             !.found = [n \in DOMAIN cli[c].found \cup {m} |->
                                IF n = m THEN [key |-> k, tofu |-> FALSE] ELSE cli[c].found[n]]]]
    /\ UNCHANGED <<hm, lines, cacheAddr, keyCount, hostLock>>

HostsNext ==
    \/ \E m \in HostMachines : \/ BootMachine(m) \/ RegenerateKeys(m) \/ RestartSshd(m)
                               \/ DeleteMachine(m) \/ CacheCatchesUp(m)
    \/ SshAppends
    \/ \E c \in Clis :
          \/ \E m \in HostMachines : ConnectBegin(c, m)
          \/ CacheScan(c) \/ WaitCloudInit(c) \/ ReadKeys(c) \/ ConfirmKeys(c)
          \/ PurgeList(c) \/ PurgeKeys(c)
          \/ MakePlan(c) \/ ApplyLocked(c) \/ ApplyWrite(c)
          \/ DialMachine(c) \/ ConnectEnds(c)

HostsSpec == HostsInit /\ [][HostsNext]_hostVars

(***************************************************************************)
(* Properties                                                              *)
(***************************************************************************)
(* "A rebuilt machine never trips the MITM warning" (dialV2Machine): a     *)
(* strict session is refused only when the machine was rebuilt after the   *)
(* command found it.  It needs the wait for cloud-init, the check against  *)
(* port 22, the lock and the plan computed again under it.                 *)
RefusedOnlyWhenRebuilt == \A c \in Clis : cli[c].step = "refused" => cli[c].rebuilt

(* "... and a real impostor always does": a strict session that opens has  *)
(* reached the machine of that name, though private addresses are recycled *)
(* and the cached one is stale.                                            *)
SessionsReachTheirMachine ==
    \A c \in Clis : cli[c].step = "session" => cli[c].reached = cli[c].name

(* "Writing back a stale line set would silently drop them" (Apply): no    *)
(* step takes away what the user's own ssh recorded of a host that is      *)
(* neither a machine's name nor an address of the tenant's subnet.         *)
UserLinesKept ==
    [][\A l \in lines : \A h \in l.hosts \ (HostMachines \cup HostAddrs) :
          l.tag = "none" => \E k \in lines' : h \in k.hosts /\ k.tag = "none"]_hostVars

(* A machine that is up and whose served key is recorded stays recorded:   *)
(* neither a connect to another machine, nor a purge that could not read   *)
(* it, takes it away.                                                      *)
LiveLinesKept ==
    [][\A m \in HostMachines :
          hm[m].ready /\ hm'[m] = hm[m] /\ hm[m].wire \in Recorded(m)
             => hm[m].wire \in Recorded(m)']_hostVars

(* The promises of known_hosts together: no false alarm, no impostor, and   *)
(* no line lost that sc does not own or that is still true.                 *)
HostKeysSound ==
    /\ [](RefusedOnlyWhenRebuilt /\ SessionsReachTheirMachine)
    /\ UserLinesKept
    /\ LiveLinesKept
=============================================================================
