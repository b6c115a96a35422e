---------------------------- MODULE ClientConfig -----------------------------
(***************************************************************************)
(* What the CLI keeps on a client that is logged in to several tenants     *)
(* and installs: ~/.config/sandcastle/config.yml (internal/config), the    *)
(* remotes of the shared Incus directory and a directory's .sandcastle,    *)
(* written by `sc login`, `sc config set remote`, `sc remote switch` and   *)
(* `sc tenant switch`, and read by every command before it presents a      *)
(* token to an Auth App.  A login is a sequence of small writes, each a    *)
(* load and a save of the whole file, with calls to Incus in between that  *)
(* may fail.  Environment overrides and the selected project are left out. *)
(*                                                                         *)
(* A remote stands for the login that enrolled it: its name is the tenant's *)
(* DNS suffix, and the token and the broker address of that login are      *)
(* written here as the remote itself.                                      *)
(***************************************************************************)
EXTENDS Naturals, FiniteSets

CONSTANTS
  Remotes,        \* the (install, tenant) pairs this client can enrol
  HostOf,         \* the Auth Hostname of each remote's install
  TenantOf,       \* the tenant each remote serves
  SharedRemotes,  \* those of Shared Tenants, entered as a member
  OldNames,       \* the remotes named "sc-...", which the Incus default counts for
  Shells,         \* terminals
  ClientOps,      \* the commands: <<operation, remote>>
  ClientFaults,   \* "enrol": an incus call fails; "cut": the command is interrupted
  OldConfigs,     \* may the file date from before the per-remote records: a subset of BOOLEAN
  NoRemote

Installs == {HostOf[r] : r \in Remotes}
Values == Remotes \cup {NoRemote}
HostVals == Installs \cup {NoRemote}
TenantVals == {TenantOf[r] : r \in Remotes} \cup {NoRemote}

\* A configuration file, and a command under way: a login, or a tenant switch
\* with what it has read.
Files ==
  [remote : Values, tenant : TenantVals, host : HostVals, token : Values, broker : Values,
   installs : [Remotes -> HostVals], tokens : [Installs -> Values], brokers : [Installs -> Values],
   rtokens : [Remotes -> Values], rbrokers : [Remotes -> Values], rtenants : [Remotes -> TenantVals]]
Logins ==
  [at : {"auth", "broker", "aside", "add", "defaults", "record"}, r : Remotes, mem : {TRUE, FALSE, NoRemote}]
TenantSwitches ==
  [at : {"join", "own"}, r : Remotes, mem : [file : Files, token : Values, broker : Values, host : HostVals]]

ASSUME ClientAssumption ==
  /\ SharedRemotes \subseteq Remotes /\ OldNames \subseteq Remotes
  /\ NoRemote \notin Remotes /\ (\A r \in Remotes : HostOf[r] # NoRemote /\ TenantOf[r] # NoRemote)
  /\ OldConfigs \subseteq BOOLEAN
  /\ \A r \in SharedRemotes : <<"login", r>> \notin ClientOps /\ <<"force", r>> \notin ClientOps
  /\ NoRemote \notin Logins \cup TenantSwitches

VARIABLES
  cfgFile,    \* config.yml
  incusCfg,   \* the shared Incus directory: remotes, backups, the current remote
  dirFile,    \* the nearest .sandcastle, or NoRemote
  shell       \* the command each shell runs, or NoRemote

clientVars == <<cfgFile, incusCfg, dirFile, shell>>

Nothing == [r \in Remotes |-> NoRemote]
EmptyConfig ==
  [remote |-> NoRemote, tenant |-> NoRemote, host |-> NoRemote, token |-> NoRemote, broker |-> NoRemote,
   installs |-> Nothing, tokens |-> [h \in Installs |-> NoRemote], brokers |-> [h \in Installs |-> NoRemote],
   rtokens |-> Nothing, rbrokers |-> Nothing, rtenants |-> Nothing]

\* A client of an earlier version: every own remote enrolled, in some order of
\* logins, with the records keyed by Auth Hostname only (last login wins).
OwnRemotes == Remotes \ SharedRemotes
OwnInstalls == [r \in Remotes |-> IF r \in OwnRemotes THEN HostOf[r] ELSE NoRemote]
OldConfig(last, active) ==
  [EmptyConfig EXCEPT !.remote = active, !.host = HostOf[active], !.token = last[HostOf[active]],
     !.broker = last[HostOf[active]], !.tenant = TenantOf[active],
     !.installs = OwnInstalls, !.tokens = last, !.brokers = last]

ClientInit ==
  /\ dirFile = NoRemote /\ shell = [s \in Shells |-> NoRemote]
  /\ \/ /\ FALSE \in OldConfigs
        /\ cfgFile = EmptyConfig
        /\ incusCfg = [names |-> {}, backups |-> {}, current |-> NoRemote]
     \/ /\ TRUE \in OldConfigs
        /\ \E last \in [Installs -> OwnRemotes], active \in OwnRemotes :
             /\ \A h \in Installs : HostOf[last[h]] = h
             /\ active = last[HostOf[active]]
             /\ cfgFile = OldConfig(last, active)
             /\ incusCfg = [names |-> OwnRemotes, backups |-> {}, current |-> active]

-----------------------------------------------------------------------------
(* Reading the selection                                                   *)

\* SelectRemote: point the active fields at a remote's install.  Two remotes
\* of one install make its hostname-keyed records ambiguous.
SelectRemote(c, r) ==
  IF c.installs[r] = NoRemote THEN [c EXCEPT !.remote = r]
  ELSE LET h == c.installs[r]
           ambiguous == \E o \in Remotes \ {r} : c.installs[o] = h
           Pick(own, shared) == IF own # NoRemote \/ ambiguous THEN own ELSE shared
       IN [c EXCEPT !.remote = r, !.host = h,
             !.tenant = IF c.rtenants[r] # NoRemote THEN c.rtenants[r] ELSE @,
             !.token = Pick(c.rtokens[r], c.tokens[h]),
             !.broker = Pick(c.rbrokers[r], c.brokers[h])]

SharedIncusDefaultRemote ==
  IF incusCfg.current \in OldNames \cap incusCfg.names THEN incusCfg.current ELSE NoRemote

\* LoadUserWithError: the directory's selection, else the Incus default, else
\* the file's; a directory never borrows another install's credentials.
Resolved ==
  LET local == dirFile # NoRemote
      r == IF local THEN dirFile.remote
           ELSE IF SharedIncusDefaultRemote # NoRemote THEN SharedIncusDefaultRemote ELSE cfgFile.remote
      moved == r # cfgFile.remote
      unknown == local /\ moved /\ cfgFile.installs[r] = NoRemote
      c == IF unknown THEN [cfgFile EXCEPT !.tenant = NoRemote, !.host = NoRemote, !.token = NoRemote, !.broker = NoRemote]
           ELSE cfgFile
      d == IF r # NoRemote /\ (local \/ moved) THEN SelectRemote(c, r) ELSE c
  IN [d EXCEPT !.tenant = IF local /\ dirFile.tenant # NoRemote THEN dirFile.tenant ELSE @]

\* commandAuthHostname: the install recorded for the remote, else the one its
\* address shows, else the file's hostname.
AuthHostname(c) ==
  IF c.remote # NoRemote /\ cfgFile.installs[c.remote] # NoRemote THEN cfgFile.installs[c.remote]
  ELSE IF c.remote \in incusCfg.names THEN HostOf[c.remote] ELSE c.host

Serves(r, token) == r = token \/ (r \in SharedRemotes /\ HostOf[r] = HostOf[token])
TenantsListed(token) == {TenantOf[r] : r \in {x \in Remotes : Serves(x, token)}}
RemotesOf(h, t) == {r \in Remotes : HostOf[r] = h /\ TenantOf[r] = t}

-----------------------------------------------------------------------------
(* Writing it                                                              *)

Save(c) == cfgFile' = c
Goto(s, at) == shell' = [shell EXCEPT ![s].at = at]
Finish(s) == shell' = [shell EXCEPT ![s] = NoRemote]
Starting(s, op, r) == shell[s] = NoRemote /\ <<op, r>> \in ClientOps
ShellAt(s, at) == shell[s] # NoRemote /\ shell[s].at = at

\* adoptExistingInstall: a saved login still works, so make it the active one,
\* with the broker and the tenant that were found.
WithToken(c, h, r, token) ==
  [c EXCEPT !.host = h, !.remote = r, !.token = token, !.tokens[h] = token, !.rtokens[r] = token]
WithBroker(c, h, r, broker) ==
  IF broker = NoRemote THEN c ELSE [c EXCEPT !.broker = broker, !.brokers[h] = broker, !.rbrokers[r] = broker]
WithTenant(c, r, t) ==
  IF t = NoRemote THEN c ELSE [c EXCEPT !.tenant = t, !.rtenants[r] = t]
Adopted(h, r, token, t, broker) ==
  [WithTenant(WithBroker(WithToken(cfgFile, h, r, token), h, r, broker), r, t) EXCEPT !.installs[r] = h]

SetSharedIncusDefaultRemote(r) ==
  incusCfg' = IF r \in incusCfg.names THEN [incusCfg EXCEPT !.current = r] ELSE incusCfg

\* tryExistingLogin: the token and the remote it would reuse for a host.
ReusableToken(h) ==
  LET c == Resolved
  IN IF c.host = h /\ c.token # NoRemote THEN c.token ELSE cfgFile.tokens[h]
ReusableRemotes(h) ==
  LET c == Resolved
  IN IF c.host = h /\ c.remote # NoRemote THEN {c.remote}
     ELSE {r \in incusCfg.names : cfgFile.installs[r] = h}

TryExistingLogin(s, r) ==
  /\ Starting(s, "login", r)
  /\ LET h == HostOf[r]
         token == ReusableToken(h)
     IN \E found \in ReusableRemotes(h) \cap incusCfg.names :
          /\ token # NoRemote
          /\ LET listed == TenantsListed(token)
                 t == IF Resolved.tenant \in listed THEN Resolved.tenant
                      ELSE IF \E x \in listed : listed = {x} THEN CHOOSE x \in listed : TRUE ELSE NoRemote
                 gateway == RemotesOf(h, t)
                 broker == IF gateway # {} THEN CHOOSE x \in gateway : TRUE ELSE cfgFile.brokers[h]
             IN Save(Adopted(h, found, token, t, broker))
          /\ SetSharedIncusDefaultRemote(found)
  /\ UNCHANGED <<dirFile, shell>>

\* A device login of its own (--force, or nothing reusable answered).
LoginStart(s, r) ==
  /\ \/ Starting(s, "login", r)
     \/ Starting(s, "force", r)
  /\ shell' = [shell EXCEPT ![s] = [at |-> "auth", r |-> r, mem |-> NoRemote]]
  /\ UNCHANGED <<cfgFile, incusCfg, dirFile>>

\* saveAuthDefaults, on the poll that was approved.
SaveAuth(s) ==
  /\ ShellAt(s, "auth")
  /\ LET r == shell[s].r
     IN Save([cfgFile EXCEPT !.host = HostOf[r], !.token = r, !.tokens[HostOf[r]] = r,
                             !.rtokens[r] = r, !.rtenants[r] = TenantOf[r]])
  /\ Goto(s, "broker")
  /\ UNCHANGED <<incusCfg, dirFile>>

\* saveBrokerDefault; the wait for the sidecar's tailnet follows.
SaveBroker(s) ==
  /\ ShellAt(s, "broker")
  /\ LET r == shell[s].r
     IN Save([cfgFile EXCEPT !.broker = r, !.brokers[HostOf[r]] = r, !.rbrokers[r] = r])
  /\ Goto(s, "aside")
  /\ UNCHANGED <<incusCfg, dirFile>>

\* addIncusRemoteWithToken: an existing remote is renamed aside ...
SetAside(s) ==
  /\ ShellAt(s, "aside")
  /\ LET r == shell[s].r
     IN incusCfg' = IF r \notin incusCfg.names THEN incusCfg
                    ELSE [names |-> incusCfg.names \ {r}, backups |-> incusCfg.backups \cup {r}, current |-> NoRemote]
  /\ shell' = [shell EXCEPT ![s].at = "add", ![s].mem = shell[s].r \in incusCfg.names]
  /\ UNCHANGED <<cfgFile, dirFile>>

\* ... the new one is added, by token or by the trusted key, and the old one
\* dropped; or it is put back and the login fails.
AddRemote(s) ==
  /\ ShellAt(s, "add") /\ shell[s].r \notin incusCfg.names
  /\ LET r == shell[s].r
     IN incusCfg' = [names |-> incusCfg.names \cup {r}, current |-> r,
                     backups |-> IF shell[s].mem THEN incusCfg.backups \ {r} ELSE incusCfg.backups]
  /\ Goto(s, "defaults")
  /\ UNCHANGED <<cfgFile, dirFile>>

\* Mutant: the remote set aside is not put back.
RestoreNothing(s) ==
  /\ ShellAt(s, "add") /\ "enrol" \in ClientFaults
  /\ Finish(s)
  /\ UNCHANGED <<cfgFile, incusCfg, dirFile>>

RestoreBackup(s) ==
  /\ ShellAt(s, "add") /\ ("enrol" \in ClientFaults \/ shell[s].r \in incusCfg.names)
  /\ LET r == shell[s].r
     IN incusCfg' = IF shell[s].mem /\ r \notin incusCfg.names /\ r \in incusCfg.backups
                    THEN [incusCfg EXCEPT !.names = @ \cup {r}, !.backups = @ \ {r}] ELSE incusCfg
  /\ Finish(s)
  /\ UNCHANGED <<cfgFile, dirFile>>

\* saveRemoteDefaults; the tenant only when the account has just one.
SaveRemoteDefaults(s) ==
  /\ ShellAt(s, "defaults")
  /\ LET r == shell[s].r
     IN Save([cfgFile EXCEPT !.remote = r,
                !.tenant = IF Cardinality(TenantsListed(r)) = 1 THEN TenantOf[r] ELSE @])
  /\ Goto(s, "record")
  /\ UNCHANGED <<incusCfg, dirFile>>

\* recordInstall; what follows (routing, resolver, trust) writes none of this.
RecordInstall(s) ==
  /\ ShellAt(s, "record")
  /\ Save([cfgFile EXCEPT !.installs[shell[s].r] = HostOf[shell[s].r]])
  /\ Finish(s)
  /\ UNCHANGED <<incusCfg, dirFile>>

\* `sc config set remote`: the fields, then the Incus default.
ConfigSetRemote(s, r) ==
  /\ Starting(s, "set", r)
  /\ Save(SelectRemote(cfgFile, r))
  /\ SetSharedIncusDefaultRemote(r)
  /\ UNCHANGED <<dirFile, shell>>

\* `sc remote switch`: only .sandcastle, and only to an enrolled remote.
RemoteSwitch(s, r) ==
  /\ Starting(s, "switch", r) /\ r \in incusCfg.names
  /\ dirFile' = [remote |-> r, tenant |-> SelectRemote(cfgFile, r).tenant]
  /\ UNCHANGED <<cfgFile, incusCfg, shell>>

\* `sc tenant switch`: the tenant is looked up at the Auth App of the resolved
\* selection, and the file is read before a member's remote is enrolled.
TenantSwitchLoad(s, r) ==
  /\ Starting(s, "tenant", r)
  /\ LET c == Resolved
     IN /\ c.token # NoRemote /\ HostOf[c.token] = AuthHostname(c)
        /\ \E x \in Remotes :
             /\ Serves(x, c.token) /\ TenantOf[x] = TenantOf[r]
             /\ shell' = [shell EXCEPT ![s] =
                  [at |-> IF x \in SharedRemotes THEN "join" ELSE "own", r |-> x,
                   mem |-> [file |-> cfgFile, token |-> c.token, broker |-> c.broker, host |-> AuthHostname(c)]]]
  /\ UNCHANGED <<cfgFile, incusCfg, dirFile>>

SaveSelection(s, c, r) ==
  /\ Save([c EXCEPT !.tenant = TenantOf[shell[s].r]])
  /\ dirFile' = [remote |-> r, tenant |-> TenantOf[shell[s].r]]
  /\ Finish(s)

\* ensureSharedTenantRemote: enrol once, and record the caller's credentials.
TenantSwitchJoin(s) ==
  /\ ShellAt(s, "join")
  /\ LET r == shell[s].r   m == shell[s].mem
         c == [m.file EXCEPT !.rtenants[r] = TenantOf[r], !.rtokens[r] = m.token,
                 !.rbrokers[r] = IF m.broker # NoRemote THEN m.broker ELSE @,
                 !.installs[r] = m.host, !.remote = r]
     IN /\ SaveSelection(s, c, r)
        /\ incusCfg' = [incusCfg EXCEPT !.names = @ \cup {r}, !.current = r]
TenantSwitchJoinFails(s) ==
  /\ ShellAt(s, "join") /\ "enrol" \in ClientFaults
  /\ Finish(s)
  /\ UNCHANGED <<cfgFile, incusCfg, dirFile>>

\* remoteForTenant: the remote recorded for a tenant of this name, one of the
\* file's active install first.
RemoteForTenant(c, t) ==
  LET all == {r \in Remotes : c.rtenants[r] = t}
      here == {r \in all : c.host # NoRemote /\ c.installs[r] = c.host}
  IN IF here # {} THEN here ELSE IF all = {} THEN {NoRemote} ELSE all
TenantSwitchOwn(s) ==
  /\ ShellAt(s, "own")
  /\ LET c == shell[s].mem.file
     IN \E r \in RemoteForTenant(c, TenantOf[shell[s].r]) :
          IF r \in {NoRemote, c.remote}
          THEN /\ IF c.remote # NoRemote THEN SaveSelection(s, c, c.remote)
                  ELSE Save([c EXCEPT !.tenant = TenantOf[shell[s].r]]) /\ Finish(s) /\ UNCHANGED dirFile
               /\ UNCHANGED incusCfg
          ELSE SaveSelection(s, SelectRemote(c, r), r) /\ SetSharedIncusDefaultRemote(r)

\* The command is interrupted between two of its writes.
Interrupted(s) ==
  /\ "cut" \in ClientFaults /\ shell[s] # NoRemote
  /\ Finish(s)
  /\ UNCHANGED <<cfgFile, incusCfg, dirFile>>

ClientNext ==
  \E s \in Shells :
    \/ \E r \in Remotes :
         \/ TryExistingLogin(s, r) \/ LoginStart(s, r) \/ ConfigSetRemote(s, r)
         \/ RemoteSwitch(s, r) \/ TenantSwitchLoad(s, r)
    \/ SaveAuth(s) \/ SaveBroker(s) \/ SetAside(s) \/ AddRemote(s) \/ RestoreBackup(s)
    \/ SaveRemoteDefaults(s) \/ RecordInstall(s)
    \/ TenantSwitchJoin(s) \/ TenantSwitchJoinFails(s) \/ TenantSwitchOwn(s)
    \/ Interrupted(s)

ClientSpec == ClientInit /\ [][ClientNext]_clientVars

-----------------------------------------------------------------------------
(* What the files promise                                                  *)

Idle == \A s \in Shells : shell[s] = NoRemote

\* The files, and every copy of them that a command will write back, hold
\* remotes, hostnames and tenants in their places.
ClientTypeOK ==
  /\ cfgFile \in Files
  /\ incusCfg \in [names : SUBSET Remotes, backups : SUBSET Remotes, current : Values]
  /\ dirFile \in {NoRemote} \cup [remote : Remotes, tenant : TenantVals]
  /\ shell \in [Shells -> {NoRemote} \cup Logins \cup TenantSwitches]

\* A token is never presented to an install that did not mint it
\* (saveAuthDefaults: "leaks a credential across a trust boundary"): what a
\* command would send now goes to the Auth App of the token's own login.
CredentialStaysHome ==
  LET c == Resolved IN Idle /\ c.token # NoRemote => HostOf[c.token] = AuthHostname(c)

\* The bearer identity follows the remote (SandcastleConfig.RemoteAuthTokens,
\* #112): in a directory that selected a remote, the token a command sends is
\* one its tenant accepts, even when one install holds several logins.
BearerFollowsRemote ==
  LET c == Resolved
  IN Idle /\ dirFile # NoRemote /\ c.token # NoRemote => Serves(dirFile.remote, c.token)

\* A failed re-enrolment is a no-op rather than a lockout (restoreBackup): once
\* the file names a remote of the Incus directory, no failed login takes it away.
RemoteStaysEnrolled ==
  Idle /\ cfgFile.remote # NoRemote /\ cfgFile.installs[cfgFile.remote] # NoRemote => cfgFile.remote \in incusCfg.names

\* Entering a tenant stays on the install that was asked about it
\* (validateTenantAccessForSwitch): the remote selected is one of that install.
TenantSwitchStays ==
  [][\A s \in Shells : ShellAt(s, "own") \/ ShellAt(s, "join") =>
       (dirFile' # dirFile => HostOf[dirFile'.remote] = shell[s].mem.host)]_clientVars

\* Whatever login, remote and tenant commands did, failed or left half done, a
\* selected remote is one the client can use, with a bearer its tenant accepts.
ClientUsable == BearerFollowsRemote /\ RemoteStaysEnrolled
=============================================================================
