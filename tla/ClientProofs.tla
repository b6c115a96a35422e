---------------------------- MODULE ClientProofs ----------------------------
(***************************************************************************)
(* What sc keeps of its own on a workstation: its configuration, the       *)
(* Sandcastle paths, and the resolver and the trust store.                 *)
(***************************************************************************)
EXTENDS ClientConfig, SandcastlePaths, LocalResolver, WellFoundedInduction, FiniteSetTheorems, TLAPS

-----------------------------------------------------------------------------
(* The client's configuration                                              *)

IncusFiles == [names : SUBSET Remotes, backups : SUBSET Remotes, current : Values]
DirFiles == [remote : Remotes, tenant : TenantVals]

\* What a value of each kind may be.
LEMMA ClientValues ==
  /\ NoRemote \in Values /\ NoRemote \in HostVals /\ NoRemote \in TenantVals
  /\ \A r \in Remotes : r \in Values /\ HostOf[r] \in Installs /\ HostOf[r] \in HostVals /\ TenantOf[r] \in TenantVals
  /\ \A h \in HostVals : h # NoRemote => h \in Installs
  /\ \A v \in Values : v # NoRemote => v \in Remotes
  /\ SharedRemotes \subseteq Remotes /\ OwnRemotes \subseteq Remotes
BY ClientAssumption DEF ClientAssumption, Values, HostVals, TenantVals, Installs, OwnRemotes

\* The fields of a file.
LEMMA FileFields ==
  ASSUME NEW F \in Files
  PROVE  /\ F.remote \in Values /\ F.tenant \in TenantVals /\ F.host \in HostVals
         /\ F.token \in Values /\ F.broker \in Values
         /\ F.installs \in [Remotes -> HostVals] /\ F.rtenants \in [Remotes -> TenantVals]
         /\ F.rtokens \in [Remotes -> Values] /\ F.rbrokers \in [Remotes -> Values]
         /\ F.tokens \in [Installs -> Values] /\ F.brokers \in [Installs -> Values]
BY DEF Files

\* A file with these fields.
File(remote, tenant, host, token, broker, installs, tokens, brokers, rtokens, rbrokers, rtenants) ==
  [remote |-> remote, tenant |-> tenant, host |-> host, token |-> token, broker |-> broker,
   installs |-> installs, tokens |-> tokens, brokers |-> brokers,
   rtokens |-> rtokens, rbrokers |-> rbrokers, rtenants |-> rtenants]

LEMMA FileIs ==
  ASSUME NEW F \in Files
  PROVE  F = File(F.remote, F.tenant, F.host, F.token, F.broker, F.installs, F.tokens, F.brokers,
                  F.rtokens, F.rbrokers, F.rtenants)
BY DEF File, Files

\* The active fields, as SelectRemote moves them.
LEMMA FileSelects ==
  ASSUME NEW F \in Files, NEW remote, NEW tenant, NEW host, NEW token, NEW broker
  PROVE  [F EXCEPT !.remote = remote, !.host = host, !.tenant = tenant, !.token = token, !.broker = broker] =
         File(remote, tenant, host, token, broker, F.installs,
              F.tokens, F.brokers, F.rtokens, F.rbrokers, F.rtenants)
<1>1. PICK F1 : F1 = [F EXCEPT !.remote = remote]
  OBVIOUS
<1>2. PICK F2 : F2 = [F1 EXCEPT !.host = host]
  OBVIOUS
<1>3. PICK F3 : F3 = [F2 EXCEPT !.tenant = tenant]
  OBVIOUS
<1>4. PICK F4 : F4 = [F3 EXCEPT !.token = token]
  OBVIOUS
<1>5. PICK F5 : F5 = [F4 EXCEPT !.broker = broker]
  OBVIOUS
<1>6. F5 = [F EXCEPT !.remote = remote, !.host = host, !.tenant = tenant, !.token = token, !.broker = broker]
  BY <1>1, <1>2, <1>3, <1>4, <1>5
<1>7. F = File(F.remote, F.tenant, F.host, F.token, F.broker, F.installs,
              F.tokens, F.brokers, F.rtokens, F.rbrokers, F.rtenants)
  BY FileIs
<1>8. F5 = File(remote, tenant, host, token, broker, F.installs,
              F.tokens, F.brokers, F.rtokens, F.rbrokers, F.rtenants)
  BY <1>1, <1>2, <1>3, <1>4, <1>5, <1>7 DEF File
<1> QED BY <1>6, <1>8

\* saveAuthDefaults.
LEMMA FileAuth ==
  ASSUME NEW F \in Files, NEW r
  PROVE  [F EXCEPT !.host = HostOf[r], !.token = r, !.tokens[HostOf[r]] = r, !.rtokens[r] = r, !.rtenants[r] = TenantOf[r]] =
         File(F.remote, F.tenant, HostOf[r], r, F.broker, F.installs,
              [F.tokens EXCEPT ![HostOf[r]] = r], F.brokers, [F.rtokens EXCEPT ![r] = r], F.rbrokers, [F.rtenants EXCEPT ![r] = TenantOf[r]])
<1>0. PICK h, t : h = HostOf[r] /\ t = TenantOf[r]
  OBVIOUS
<1>1. PICK F1 : F1 = [F EXCEPT !.host = h]
  OBVIOUS
<1>2. PICK F2 : F2 = [F1 EXCEPT !.token = r]
  OBVIOUS
<1>3. PICK F3 : F3 = [F2 EXCEPT !.tokens[h] = r]
  OBVIOUS
<1>4. PICK F4 : F4 = [F3 EXCEPT !.rtokens[r] = r]
  OBVIOUS
<1>5. PICK F5 : F5 = [F4 EXCEPT !.rtenants[r] = t]
  OBVIOUS
<1>6. F5 = [F EXCEPT !.host = HostOf[r], !.token = r, !.tokens[HostOf[r]] = r, !.rtokens[r] = r, !.rtenants[r] = TenantOf[r]]
  BY <1>0, <1>1, <1>2, <1>3, <1>4, <1>5
<1>7. F = File(F.remote, F.tenant, F.host, F.token, F.broker, F.installs, F.tokens, F.brokers,
               F.rtokens, F.rbrokers, F.rtenants)
  BY FileIs
<1>8. F5 = File(F.remote, F.tenant, h, r, F.broker, F.installs,
                [F.tokens EXCEPT ![h] = r], F.brokers, [F.rtokens EXCEPT ![r] = r], F.rbrokers, [F.rtenants EXCEPT ![r] = t])
  BY <1>1, <1>2, <1>3, <1>4, <1>5, <1>7 DEF File
<1> QED BY <1>0, <1>6, <1>8

\* saveBrokerDefault.
LEMMA FileBroker ==
  ASSUME NEW F \in Files, NEW broker, NEW h, NEW r
  PROVE  [F EXCEPT !.broker = broker, !.brokers[h] = broker, !.rbrokers[r] = broker] =
         File(F.remote, F.tenant, F.host, F.token, broker, F.installs,
              F.tokens, [F.brokers EXCEPT ![h] = broker], F.rtokens, [F.rbrokers EXCEPT ![r] = broker], F.rtenants)
<1>1. PICK F1 : F1 = [F EXCEPT !.broker = broker]
  OBVIOUS
<1>2. PICK F2 : F2 = [F1 EXCEPT !.brokers[h] = broker]
  OBVIOUS
<1>3. PICK F3 : F3 = [F2 EXCEPT !.rbrokers[r] = broker]
  OBVIOUS
<1>4. F3 = [F EXCEPT !.broker = broker, !.brokers[h] = broker, !.rbrokers[r] = broker]
  BY <1>1, <1>2, <1>3
<1>5. F = File(F.remote, F.tenant, F.host, F.token, F.broker, F.installs,
              F.tokens, F.brokers, F.rtokens, F.rbrokers, F.rtenants)
  BY FileIs
<1>6. F3 = File(F.remote, F.tenant, F.host, F.token, broker, F.installs,
              F.tokens, [F.brokers EXCEPT ![h] = broker], F.rtokens, [F.rbrokers EXCEPT ![r] = broker], F.rtenants)
  BY <1>1, <1>2, <1>3, <1>5 DEF File
<1> QED BY <1>4, <1>6

\* saveRemoteDefaults.
LEMMA FileDefaults ==
  ASSUME NEW F \in Files, NEW remote, NEW tenant
  PROVE  [F EXCEPT !.remote = remote, !.tenant = tenant] =
         File(remote, tenant, F.host, F.token, F.broker, F.installs,
              F.tokens, F.brokers, F.rtokens, F.rbrokers, F.rtenants)
<1>1. PICK F1 : F1 = [F EXCEPT !.remote = remote]
  OBVIOUS
<1>2. PICK F2 : F2 = [F1 EXCEPT !.tenant = tenant]
  OBVIOUS
<1>3. F2 = [F EXCEPT !.remote = remote, !.tenant = tenant]
  BY <1>1, <1>2
<1>4. F = File(F.remote, F.tenant, F.host, F.token, F.broker, F.installs,
              F.tokens, F.brokers, F.rtokens, F.rbrokers, F.rtenants)
  BY FileIs
<1>5. F2 = File(remote, tenant, F.host, F.token, F.broker, F.installs,
              F.tokens, F.brokers, F.rtokens, F.rbrokers, F.rtenants)
  BY <1>1, <1>2, <1>4 DEF File
<1> QED BY <1>3, <1>5

\* recordInstall.
LEMMA FileInstall ==
  ASSUME NEW F \in Files, NEW r, NEW i
  PROVE  [F EXCEPT !.installs[r] = i] =
         File(F.remote, F.tenant, F.host, F.token, F.broker, [F.installs EXCEPT ![r] = i],
              F.tokens, F.brokers, F.rtokens, F.rbrokers, F.rtenants)
<1>1. PICK F1 : F1 = [F EXCEPT !.installs[r] = i]
  OBVIOUS
<1>2. F1 = [F EXCEPT !.installs[r] = i]
  BY <1>1
<1>3. F = File(F.remote, F.tenant, F.host, F.token, F.broker, F.installs,
              F.tokens, F.brokers, F.rtokens, F.rbrokers, F.rtenants)
  BY FileIs
<1>4. F1 = File(F.remote, F.tenant, F.host, F.token, F.broker, [F.installs EXCEPT ![r] = i],
              F.tokens, F.brokers, F.rtokens, F.rbrokers, F.rtenants)
  BY <1>1, <1>3 DEF File
<1> QED BY <1>2, <1>4

\* The file of a new client and of one of an earlier version.
LEMMA FirstFiles ==
  /\ EmptyConfig \in Files
  /\ \A last \in [Installs -> OwnRemotes], active \in OwnRemotes :
       LET F == OldConfig(last, active) IN
       /\ F \in Files /\ F.remote = active /\ F.host = HostOf[active] /\ F.token = last[HostOf[active]]
       /\ F.installs = OwnInstalls /\ F.tokens = last /\ F.rtokens = Nothing /\ F.rtenants = Nothing
<1>1. Nothing \in [Remotes -> Values] /\ Nothing \in [Remotes -> HostVals] /\ Nothing \in [Remotes -> TenantVals]
      /\ [h \in Installs |-> NoRemote] \in [Installs -> Values]
  BY ClientValues DEF Nothing
<1>2. EmptyConfig \in Files
  BY <1>1, ClientValues DEF EmptyConfig, Files
<1>3. ASSUME NEW last \in [Installs -> OwnRemotes], NEW active \in OwnRemotes
      PROVE  LET F == OldConfig(last, active) IN
             /\ F \in Files /\ F.remote = active /\ F.host = HostOf[active] /\ F.token = last[HostOf[active]]
             /\ F.installs = OwnInstalls /\ F.tokens = last /\ F.rtokens = Nothing /\ F.rtenants = Nothing
  <2>1. PICK E, h, t, tok : E = EmptyConfig /\ h = HostOf[active] /\ t = TenantOf[active] /\ tok = last[h]
    OBVIOUS
  <2>2. OldConfig(last, active) = [E EXCEPT !.remote = active, !.host = h, !.token = tok, !.broker = tok, !.tenant = t,
                                           !.installs = OwnInstalls, !.tokens = last, !.brokers = last]
    BY <2>1 DEF OldConfig
  <2>3. OldConfig(last, active) =
          File(active, t, h, tok, tok, OwnInstalls, last, last, E.rtokens, E.rbrokers, E.rtenants)
    <3>1. PICK F1 : F1 = [E EXCEPT !.remote = active]
      OBVIOUS
    <3>2. PICK F2 : F2 = [F1 EXCEPT !.host = h]
      OBVIOUS
    <3>3. PICK F3 : F3 = [F2 EXCEPT !.token = tok]
      OBVIOUS
    <3>4. PICK F4 : F4 = [F3 EXCEPT !.broker = tok]
      OBVIOUS
    <3>5. PICK F5 : F5 = [F4 EXCEPT !.tenant = t]
      OBVIOUS
    <3>6. PICK F6 : F6 = [F5 EXCEPT !.installs = OwnInstalls]
      OBVIOUS
    <3>7. PICK F7 : F7 = [F6 EXCEPT !.tokens = last]
      OBVIOUS
    <3>8. PICK F8 : F8 = [F7 EXCEPT !.brokers = last]
      OBVIOUS
    <3>9. E = File(E.remote, E.tenant, E.host, E.token, E.broker, E.installs, E.tokens, E.brokers,
                   E.rtokens, E.rbrokers, E.rtenants)
      BY <1>2, <2>1, FileIs
    <3>10. F8 = OldConfig(last, active)
      BY <2>2, <3>1, <3>2, <3>3, <3>4, <3>5, <3>6, <3>7, <3>8
    <3>11. F8 = File(active, t, h, tok, tok, OwnInstalls, last, last, E.rtokens, E.rbrokers, E.rtenants)
      BY <3>1, <3>2, <3>3, <3>4, <3>5, <3>6, <3>7, <3>8, <3>9 DEF File
    <3> QED BY <3>10, <3>11
  <2>4. EmptyConfig.rtokens = Nothing /\ EmptyConfig.rbrokers = Nothing /\ EmptyConfig.rtenants = Nothing
    BY DEF EmptyConfig
  <2>5. last \in [Installs -> Values] /\ OwnInstalls \in [Remotes -> HostVals] /\ tok \in Values
        /\ active \in Values /\ t \in TenantVals /\ h \in HostVals
    BY <2>1, ClientValues DEF OwnInstalls
  <2>6. OldConfig(last, active) \in Files
    BY <1>1, <2>1, <2>3, <2>4, <2>5 DEF File, Files
  <2> QED BY <2>1, <2>3, <2>4, <2>6 DEF File
<1> QED BY <1>2, <1>3

\* SelectRemote moves the active fields only.
LEMMA SelectFields ==
  ASSUME NEW F \in Files, NEW r \in Remotes
  PROVE  LET G == SelectRemote(F, r) IN
         /\ G \in Files
         /\ G.installs = F.installs /\ G.tokens = F.tokens /\ G.rtokens = F.rtokens /\ G.rtenants = F.rtenants
         /\ G.remote = r
         /\ F.installs[r] = NoRemote => G.host = F.host /\ G.token = F.token
         /\ F.installs[r] # NoRemote =>
              /\ G.host = F.installs[r]
              /\ G.token = IF F.rtokens[r] # NoRemote \/ \E o \in Remotes \ {r} : F.installs[o] = F.installs[r]
                           THEN F.rtokens[r] ELSE F.tokens[F.installs[r]]
<1> DEFINE G == SelectRemote(F, r)
           amb == \E o \in Remotes \ {r} : F.installs[o] = F.installs[r]
           h == F.installs[r]
           tn == IF F.rtenants[r] # NoRemote THEN F.rtenants[r] ELSE F.tenant
           tk == IF F.rtokens[r] # NoRemote \/ amb THEN F.rtokens[r] ELSE F.tokens[h]
           br == IF F.rbrokers[r] # NoRemote \/ amb THEN F.rbrokers[r] ELSE F.brokers[h]
<1>1. CASE F.installs[r] = NoRemote
  <2>1. G = [F EXCEPT !.remote = r]
    BY <1>1 DEF SelectRemote
  <2>2. F.tenant = F.tenant
    OBVIOUS
  <2>3. G = File(r, F.tenant, F.host, F.token, F.broker, F.installs, F.tokens, F.brokers,
                 F.rtokens, F.rbrokers, F.rtenants)
    BY <2>1, FileIs DEF File
  <2>4. G \in Files
    BY <2>3, FileFields, ClientValues DEF File, Files
  <2> QED BY <1>1, <2>3, <2>4 DEF File
<1>2. CASE F.installs[r] # NoRemote
  <2>1. G = [F EXCEPT !.remote = r, !.host = h, !.tenant = tn, !.token = tk, !.broker = br]
    BY <1>2 DEF SelectRemote
  <2>2. h \in Installs /\ h \in HostVals
    BY <1>2, FileFields, ClientValues
  <2>3. tn \in TenantVals /\ tk \in Values /\ br \in Values
    BY <2>2, FileFields
  <2> HIDE DEF tn, tk, br
  <2>4. G = File(r, tn, h, tk, br, F.installs, F.tokens, F.brokers, F.rtokens, F.rbrokers, F.rtenants)
    BY <2>1, FileSelects
  <2>5. G \in Files
    BY <2>2, <2>3, <2>4, FileFields, ClientValues DEF File, Files
  <2> QED BY <1>2, <2>4, <2>5 DEF File, tk
<1> QED BY <1>1, <1>2

\* The selection commands resolve is a file too.
LEMMA ResolvedTyped ==
  ASSUME ClientTypeOK
  PROVE  /\ Resolved \in Files
         /\ Resolved.installs = cfgFile.installs /\ Resolved.tokens = cfgFile.tokens
<1> DEFINE local == dirFile # NoRemote
           r == IF local THEN dirFile.remote
                ELSE IF SharedIncusDefaultRemote # NoRemote THEN SharedIncusDefaultRemote ELSE cfgFile.remote
           remoteMoved == r # cfgFile.remote
           c == IF local /\ remoteMoved /\ cfgFile.installs[r] = NoRemote
                THEN [cfgFile EXCEPT !.tenant = NoRemote, !.host = NoRemote, !.token = NoRemote, !.broker = NoRemote]
                ELSE cfgFile
           d == IF r # NoRemote /\ (local \/ remoteMoved) THEN SelectRemote(c, r) ELSE c
<1>1. cfgFile \in Files /\ (local => dirFile \in DirFiles) /\ incusCfg \in IncusFiles
  BY DEF ClientTypeOK, DirFiles, IncusFiles
<1>2. r \in Values
  BY <1>1, FileFields, ClientValues DEF SharedIncusDefaultRemote, DirFiles, IncusFiles
<1>3. c \in Files /\ c.installs = cfgFile.installs /\ c.tokens = cfgFile.tokens
  BY <1>1, ClientValues DEF Files
<1>4. d \in Files /\ d.installs = cfgFile.installs /\ d.tokens = cfgFile.tokens
  <2> HIDE DEF c
  <2>1. r # NoRemote => r \in Remotes
    BY <1>2, ClientValues
  <2> HIDE DEF r
  <2> QED BY <1>3, <2>1, SelectFields
<1>5. local => dirFile.tenant \in TenantVals
  BY <1>1 DEF DirFiles
<1>6. Resolved = [d EXCEPT !.tenant = IF local /\ dirFile.tenant # NoRemote THEN dirFile.tenant ELSE @]
  BY DEF Resolved
<1> HIDE DEF d
<1>7. PICK t : t = IF local /\ dirFile.tenant # NoRemote THEN dirFile.tenant ELSE d.tenant
  OBVIOUS
<1>8. t \in TenantVals
  BY <1>4, <1>5, <1>7, FileFields
<1>9. Resolved = [d EXCEPT !.tenant = t]
  BY <1>6, <1>7
<1> QED BY <1>4, <1>8, <1>9 DEF Files


-----------------------------------------------------------------------------
(* The commands                                                            *)

LoginSteps == {"broker", "aside", "add", "defaults", "record"}
SwitchSteps == {"join", "own"}

\* What a command under way is.
LEMMA JobTypes ==
  ASSUME ClientTypeOK, NEW s \in Shells, shell[s] # NoRemote
  PROVE  /\ shell[s] \in Logins \cup TenantSwitches
         /\ shell[s].r \in Remotes
         /\ shell[s].at \in {"auth"} \cup LoginSteps => shell[s] \in Logins
         /\ shell[s].at \in SwitchSteps => shell[s] \in TenantSwitches /\ shell[s].mem.file \in Files
         /\ shell[s].at \in {"auth"} \cup LoginSteps \cup SwitchSteps
<1>1. shell[s] \in Logins \cup TenantSwitches
  BY DEF ClientTypeOK
<1>2. CASE shell[s] \in Logins
  BY <1>2 DEF Logins, LoginSteps, SwitchSteps
<1>3. CASE shell[s] \in TenantSwitches
  BY <1>3 DEF TenantSwitches, LoginSteps, SwitchSteps
<1> QED BY <1>1, <1>2, <1>3

\* A command that ends.
LEMMA Finished ==
  ASSUME ClientTypeOK, NEW s \in Shells, Finish(s)
  PROVE  shell' \in [Shells -> {NoRemote} \cup Logins \cup TenantSwitches] /\ shell'[s] = NoRemote
BY DEF ClientTypeOK, Finish

\* A command that begins.
LEMMA Begun ==
  ASSUME ClientTypeOK, NEW s \in Shells, NEW job \in Logins \cup TenantSwitches, shell' = [shell EXCEPT ![s] = job]
  PROVE  shell' \in [Shells -> {NoRemote} \cup Logins \cup TenantSwitches] /\ shell'[s] = job /\ shell'[s] # NoRemote
<1>1. job # NoRemote
  BY ClientAssumption DEF ClientAssumption
<1> QED BY <1>1 DEF ClientTypeOK

\* A login that goes on.
LEMMA GoneOn ==
  ASSUME ClientTypeOK, NEW s \in Shells, shell[s] \in Logins, NEW at \in LoginSteps, Goto(s, at)
  PROVE  /\ shell' \in [Shells -> {NoRemote} \cup Logins \cup TenantSwitches]
         /\ shell'[s] # NoRemote /\ shell'[s].at = at /\ shell'[s].r = shell[s].r /\ shell'[s].mem = shell[s].mem
<1>1. PICK job : job = [shell[s] EXCEPT !.at = at]
  OBVIOUS
<1>2. job \in Logins /\ job.at = at /\ job.r = shell[s].r /\ job.mem = shell[s].mem
  BY <1>1 DEF Logins, LoginSteps
<1>3. shell' = [shell EXCEPT ![s] = job]
  BY <1>1 DEF Goto
<1> QED BY <1>2, <1>3, Begun

\* saveAuthDefaults.
LEMMA AuthFacts ==
  ASSUME ClientTypeOK, NEW s \in Shells, SaveAuth(s)
  PROVE  LET r == shell[s].r IN
         /\ ClientTypeOK' /\ shell[s] # NoRemote /\ shell[s].at = "auth"
         /\ cfgFile' = File(cfgFile.remote, cfgFile.tenant, HostOf[r], r, cfgFile.broker, cfgFile.installs,
                            [cfgFile.tokens EXCEPT ![HostOf[r]] = r], cfgFile.brokers,
                            [cfgFile.rtokens EXCEPT ![r] = r], cfgFile.rbrokers, [cfgFile.rtenants EXCEPT ![r] = TenantOf[r]])
         /\ shell'[s] # NoRemote /\ shell'[s].at = "broker" /\ shell'[s].r = r
<1>1. shell[s] # NoRemote /\ shell[s].at = "auth" /\ shell[s] \in Logins /\ shell[s].r \in Remotes
  BY JobTypes DEF SaveAuth, ShellAt
<1>2. PICK r, h, t, F : r = shell[s].r /\ h = HostOf[r] /\ t = TenantOf[r] /\ F = cfgFile
  OBVIOUS
<1>3. F \in Files /\ r \in Remotes /\ r \in Values /\ h \in Installs /\ h \in HostVals /\ t \in TenantVals
  BY <1>1, <1>2, ClientValues DEF ClientTypeOK
<1>4. cfgFile' = [F EXCEPT !.host = HostOf[r], !.token = r, !.tokens[HostOf[r]] = r, !.rtokens[r] = r, !.rtenants[r] = TenantOf[r]]
  BY <1>2 DEF SaveAuth, Save
<1>5. cfgFile' = File(F.remote, F.tenant, h, r, F.broker, F.installs, [F.tokens EXCEPT ![h] = r], F.brokers,
                      [F.rtokens EXCEPT ![r] = r], F.rbrokers, [F.rtenants EXCEPT ![r] = t])
  <2>1. [F EXCEPT !.host = HostOf[r], !.token = r, !.tokens[HostOf[r]] = r, !.rtokens[r] = r, !.rtenants[r] = TenantOf[r]]
          = File(F.remote, F.tenant, HostOf[r], r, F.broker, F.installs, [F.tokens EXCEPT ![HostOf[r]] = r], F.brokers,
                 [F.rtokens EXCEPT ![r] = r], F.rbrokers, [F.rtenants EXCEPT ![r] = TenantOf[r]])
    BY <1>3, FileAuth
  <2>2. cfgFile' = File(F.remote, F.tenant, HostOf[r], r, F.broker, F.installs, [F.tokens EXCEPT ![HostOf[r]] = r], F.brokers,
                        [F.rtokens EXCEPT ![r] = r], F.rbrokers, [F.rtenants EXCEPT ![r] = TenantOf[r]])
    BY <1>4, <2>1
  <2> QED BY <1>2, <2>2
<1>6. cfgFile' \in Files
  BY <1>3, <1>5 DEF File, Files
<1>7. Goto(s, "broker") /\ UNCHANGED <<incusCfg, dirFile>>
  BY DEF SaveAuth
<1>8. "broker" \in LoginSteps
  BY DEF LoginSteps
<1> QED BY <1>1, <1>2, <1>5, <1>6, <1>7, <1>8, GoneOn DEF ClientTypeOK

\* saveBrokerDefault.
LEMMA BrokerFacts ==
  ASSUME ClientTypeOK, NEW s \in Shells, SaveBroker(s)
  PROVE  LET r == shell[s].r IN
         /\ ClientTypeOK' /\ shell[s] # NoRemote /\ shell[s].at = "broker"
         /\ cfgFile' = File(cfgFile.remote, cfgFile.tenant, cfgFile.host, cfgFile.token, r, cfgFile.installs,
                            cfgFile.tokens, [cfgFile.brokers EXCEPT ![HostOf[r]] = r],
                            cfgFile.rtokens, [cfgFile.rbrokers EXCEPT ![r] = r], cfgFile.rtenants)
         /\ shell'[s] # NoRemote /\ shell'[s].at = "aside" /\ shell'[s].r = r
<1>1. shell[s] # NoRemote /\ shell[s].at = "broker" /\ shell[s] \in Logins /\ shell[s].r \in Remotes
  BY JobTypes DEF SaveBroker, ShellAt, LoginSteps
<1>2. PICK r, h, F : r = shell[s].r /\ h = HostOf[r] /\ F = cfgFile
  OBVIOUS
<1>3. F \in Files /\ r \in Remotes /\ r \in Values /\ h \in Installs
  BY <1>1, <1>2, ClientValues DEF ClientTypeOK
<1>4. cfgFile' = [F EXCEPT !.broker = r, !.brokers[h] = r, !.rbrokers[r] = r]
  BY <1>2 DEF SaveBroker, Save
<1>5. cfgFile' = File(F.remote, F.tenant, F.host, F.token, r, F.installs, F.tokens, [F.brokers EXCEPT ![h] = r],
                      F.rtokens, [F.rbrokers EXCEPT ![r] = r], F.rtenants)
  BY <1>3, <1>4, FileBroker
<1>6. cfgFile' \in Files
  BY <1>3, <1>5 DEF File, Files
<1>7. Goto(s, "aside") /\ UNCHANGED <<incusCfg, dirFile>>
  BY DEF SaveBroker
<1>8. "aside" \in LoginSteps
  BY DEF LoginSteps
<1> QED BY <1>1, <1>2, <1>5, <1>6, <1>7, <1>8, GoneOn DEF ClientTypeOK

\* The existing remote is renamed aside.
LEMMA AsideFacts ==
  ASSUME ClientTypeOK, NEW s \in Shells, SetAside(s)
  PROVE  LET r == shell[s].r IN
         /\ ClientTypeOK' /\ shell[s] # NoRemote /\ shell[s].at = "aside" /\ UNCHANGED <<cfgFile, dirFile>>
         /\ shell'[s] # NoRemote /\ shell'[s].at = "add" /\ shell'[s].r = r
         /\ IF r \in incusCfg.names
            THEN shell'[s].mem = TRUE /\ incusCfg'.names = incusCfg.names \ {r} /\ r \in incusCfg'.backups
            ELSE shell'[s].mem = FALSE /\ incusCfg' = incusCfg
<1>1. shell[s] # NoRemote /\ shell[s].at = "aside" /\ shell[s] \in Logins /\ shell[s].r \in Remotes
  BY JobTypes DEF SetAside, ShellAt, LoginSteps
<1>2. PICK had \in BOOLEAN : had = (shell[s].r \in incusCfg.names)
  <2>1. (shell[s].r \in incusCfg.names) \in BOOLEAN
    BY SMT
  <2> QED BY <2>1, Zenon
<1>3. PICK job1 : job1 = [shell[s] EXCEPT !.at = "add"]
  OBVIOUS
<1>4. PICK job : job = [job1 EXCEPT !.mem = had]
  OBVIOUS
<1>5. job \in Logins /\ job.at = "add" /\ job.r = shell[s].r /\ job.mem = had
  BY <1>1, <1>3, <1>4 DEF Logins
<1>6. shell' = [shell EXCEPT ![s] = job]
  <2>1. shell' = [shell EXCEPT ![s].at = "add", ![s].mem = had]
    BY <1>2 DEF SetAside
  <2>2. shell \in [Shells -> {NoRemote} \cup Logins \cup TenantSwitches]
    BY DEF ClientTypeOK
  <2>3. PICK sh1 : sh1 = [shell EXCEPT ![s] = job1]
    OBVIOUS
  <2>4. sh1 = [shell EXCEPT ![s].at = "add"]
    BY <1>3, <2>3
  <2>5. shell' = [sh1 EXCEPT ![s].mem = had]
    BY <2>1, <2>4
  <2>6. sh1[s] = job1
    BY <2>2, <2>3
  <2>7. shell' = [sh1 EXCEPT ![s] = job]
    BY <1>4, <2>5, <2>6
  <2> QED BY <2>2, <2>3, <2>7
<1>7. UNCHANGED <<cfgFile, dirFile>>
  BY DEF SetAside
<1>8. incusCfg \in IncusFiles
  BY DEF ClientTypeOK, IncusFiles
<1>9. /\ incusCfg' \in IncusFiles
      /\ shell[s].r \in incusCfg.names => incusCfg'.names = incusCfg.names \ {shell[s].r} /\ shell[s].r \in incusCfg'.backups
      /\ shell[s].r \notin incusCfg.names => incusCfg' = incusCfg
  BY <1>1, <1>8, ClientValues DEF SetAside, IncusFiles
<1>10. shell' \in [Shells -> {NoRemote} \cup Logins \cup TenantSwitches] /\ shell'[s] = job /\ shell'[s] # NoRemote
  BY <1>5, <1>6, Begun
<1>11. ClientTypeOK'
  BY <1>7, <1>9, <1>10 DEF ClientTypeOK, IncusFiles
<1> QED BY <1>1, <1>2, <1>5, <1>7, <1>9, <1>10, <1>11

\* The new remote is added.
LEMMA AddFacts ==
  ASSUME ClientTypeOK, NEW s \in Shells, AddRemote(s)
  PROVE  LET r == shell[s].r IN
         /\ ClientTypeOK' /\ shell[s] # NoRemote /\ shell[s].at = "add" /\ UNCHANGED <<cfgFile, dirFile>>
         /\ r \notin incusCfg.names /\ incusCfg'.names = incusCfg.names \cup {r}
         /\ shell'[s] # NoRemote /\ shell'[s].at = "defaults" /\ shell'[s].r = r
<1>1. shell[s] # NoRemote /\ shell[s].at = "add" /\ shell[s] \in Logins /\ shell[s].r \in Remotes
  BY JobTypes DEF AddRemote, ShellAt, LoginSteps
<1>2. PICK B : B = IF shell[s].mem THEN incusCfg.backups \ {shell[s].r} ELSE incusCfg.backups
  OBVIOUS
<1>3. B \in SUBSET Remotes
  BY <1>2 DEF ClientTypeOK
<1>4. incusCfg' = [names |-> incusCfg.names \cup {shell[s].r}, current |-> shell[s].r, backups |-> B]
  BY <1>2 DEF AddRemote
<1>5. incusCfg' \in IncusFiles /\ incusCfg'.names = incusCfg.names \cup {shell[s].r}
  BY <1>1, <1>3, <1>4, ClientValues DEF IncusFiles, ClientTypeOK
<1>6. Goto(s, "defaults") /\ UNCHANGED <<cfgFile, dirFile>> /\ shell[s].r \notin incusCfg.names
  BY DEF AddRemote
<1>7. "defaults" \in LoginSteps
  BY DEF LoginSteps
<1> QED BY <1>1, <1>5, <1>6, <1>7, GoneOn DEF ClientTypeOK, IncusFiles

\* The new remote is refused: the old one comes back.
LEMMA RestoreFacts ==
  ASSUME ClientTypeOK, NEW s \in Shells, RestoreBackup(s)
  PROVE  LET r == shell[s].r IN
         /\ ClientTypeOK' /\ shell[s] # NoRemote /\ shell[s].at = "add" /\ UNCHANGED <<cfgFile, dirFile>>
         /\ shell[s].mem = TRUE /\ r \in incusCfg.backups => incusCfg'.names = incusCfg.names \cup {r}
         /\ incusCfg'.names \in {incusCfg.names, incusCfg.names \cup {r}}
         /\ shell'[s] = NoRemote
<1>1. shell[s] # NoRemote /\ shell[s].at = "add" /\ shell[s].r \in Remotes
  BY JobTypes DEF RestoreBackup, ShellAt, LoginSteps
<1>2. PICK r, I : r = shell[s].r /\ I = incusCfg
  OBVIOUS
<1>3. I \in IncusFiles
  BY <1>2 DEF ClientTypeOK, IncusFiles
<1>4. PICK put \in BOOLEAN : put = (shell[s].mem /\ r \notin I.names /\ r \in I.backups)
  <2>1. (shell[s].mem /\ r \notin I.names /\ r \in I.backups) \in BOOLEAN
    BY SMT
  <2> QED BY <2>1, Zenon
<1>5. incusCfg' = IF put THEN [I EXCEPT !.names = @ \cup {r}, !.backups = @ \ {r}] ELSE I
  BY <1>2, <1>4 DEF RestoreBackup
<1>6. PICK I1 : I1 = [I EXCEPT !.names = I.names \cup {r}]
  OBVIOUS
<1>7. PICK I2 : I2 = [I1 EXCEPT !.backups = I.backups \ {r}]
  OBVIOUS
<1>8. I2 = [I EXCEPT !.names = @ \cup {r}, !.backups = @ \ {r}]
  BY <1>3, <1>6, <1>7 DEF IncusFiles
<1>9. I2 \in IncusFiles /\ I2.names = I.names \cup {r}
  BY <1>1, <1>2, <1>3, <1>6, <1>7 DEF IncusFiles
<1>10. incusCfg' \in {I, I2}
  BY <1>5, <1>8
<1>11. shell[s].mem = TRUE /\ r \in I.backups => incusCfg'.names = I.names \cup {r}
  <2>1. CASE shell[s].mem = TRUE /\ r \in I.backups /\ r \notin I.names
    <3>1. put
      BY <1>4, <2>1, Zenon
    <3> QED BY <1>5, <1>8, <1>9, <3>1
  <2>2. CASE r \in I.names
    <3>1. ~put
      BY <1>4, <2>2, Zenon
    <3> QED BY <1>5, <2>2, <3>1
  <2> QED BY <2>1, <2>2
<1>12. Finish(s) /\ UNCHANGED <<cfgFile, dirFile>>
  BY DEF RestoreBackup
<1> QED BY <1>1, <1>2, <1>3, <1>9, <1>10, <1>11, <1>12, Finished DEF ClientTypeOK, IncusFiles

\* saveRemoteDefaults.
LEMMA DefaultsFacts ==
  ASSUME ClientTypeOK, NEW s \in Shells, SaveRemoteDefaults(s)
  PROVE  LET r == shell[s].r IN
         /\ ClientTypeOK' /\ shell[s] # NoRemote /\ shell[s].at = "defaults" /\ UNCHANGED <<incusCfg, dirFile>>
         /\ cfgFile'.remote = r /\ cfgFile'.host = cfgFile.host /\ cfgFile'.token = cfgFile.token
         /\ cfgFile'.installs = cfgFile.installs /\ cfgFile'.tokens = cfgFile.tokens
         /\ cfgFile'.rtokens = cfgFile.rtokens /\ cfgFile'.rtenants = cfgFile.rtenants
         /\ shell'[s] # NoRemote /\ shell'[s].at = "record" /\ shell'[s].r = r
<1>1. shell[s] # NoRemote /\ shell[s].at = "defaults" /\ shell[s] \in Logins /\ shell[s].r \in Remotes
  BY JobTypes DEF SaveRemoteDefaults, ShellAt, LoginSteps
<1>2. PICK r, F, t : r = shell[s].r /\ F = cfgFile /\ t = IF Cardinality(TenantsListed(r)) = 1 THEN TenantOf[r] ELSE F.tenant
  OBVIOUS
<1>3. F \in Files /\ r \in Values /\ t \in TenantVals
  BY <1>1, <1>2, ClientValues, FileFields DEF ClientTypeOK
<1>4. cfgFile' = [F EXCEPT !.remote = r, !.tenant = t]
  BY <1>2 DEF SaveRemoteDefaults, Save
<1>5. cfgFile' = File(r, t, F.host, F.token, F.broker, F.installs, F.tokens, F.brokers, F.rtokens, F.rbrokers, F.rtenants)
  BY <1>3, <1>4, FileDefaults
<1>6. cfgFile' \in Files
  BY <1>3, <1>5 DEF File, Files
<1>7. Goto(s, "record") /\ UNCHANGED <<incusCfg, dirFile>>
  BY DEF SaveRemoteDefaults
<1>8. "record" \in LoginSteps
  BY DEF LoginSteps
<1>9. ClientTypeOK' /\ shell'[s] # NoRemote /\ shell'[s].at = "record" /\ shell'[s].r = r
  BY <1>1, <1>2, <1>6, <1>7, <1>8, GoneOn DEF ClientTypeOK
<1> QED BY <1>1, <1>2, <1>5, <1>7, <1>9 DEF File

\* recordInstall.
LEMMA RecordFacts ==
  ASSUME ClientTypeOK, NEW s \in Shells, RecordInstall(s)
  PROVE  LET r == shell[s].r IN
         /\ ClientTypeOK' /\ shell[s] # NoRemote /\ shell[s].at = "record" /\ UNCHANGED <<incusCfg, dirFile>>
         /\ cfgFile' = File(cfgFile.remote, cfgFile.tenant, cfgFile.host, cfgFile.token, cfgFile.broker,
                            [cfgFile.installs EXCEPT ![r] = HostOf[r]], cfgFile.tokens, cfgFile.brokers,
                            cfgFile.rtokens, cfgFile.rbrokers, cfgFile.rtenants)
         /\ shell'[s] = NoRemote
<1>1. shell[s] # NoRemote /\ shell[s].at = "record" /\ shell[s].r \in Remotes
  BY JobTypes DEF RecordInstall, ShellAt, LoginSteps
<1>2. PICK r, h, F : r = shell[s].r /\ h = HostOf[r] /\ F = cfgFile
  OBVIOUS
<1>3. F \in Files /\ h \in HostVals
  BY <1>1, <1>2, ClientValues DEF ClientTypeOK
<1>4. cfgFile' = [F EXCEPT !.installs[r] = h]
  BY <1>2 DEF RecordInstall, Save
<1>5. cfgFile' = File(F.remote, F.tenant, F.host, F.token, F.broker, [F.installs EXCEPT ![r] = h],
                      F.tokens, F.brokers, F.rtokens, F.rbrokers, F.rtenants)
  BY <1>3, <1>4, FileInstall
<1>6. cfgFile' \in Files
  BY <1>3, <1>5 DEF File, Files
<1>7. Finish(s) /\ UNCHANGED <<incusCfg, dirFile>>
  BY DEF RecordInstall
<1> QED BY <1>1, <1>2, <1>5, <1>6, <1>7, Finished DEF ClientTypeOK

\* A login that begins.
LEMMA StartFacts ==
  ASSUME ClientTypeOK, NEW s \in Shells, NEW r \in Remotes, LoginStart(s, r)
  PROVE  /\ ClientTypeOK' /\ shell[s] = NoRemote /\ UNCHANGED <<cfgFile, incusCfg, dirFile>>
         /\ r \in OwnRemotes
         /\ shell'[s] # NoRemote /\ shell'[s].at = "auth" /\ shell'[s].r = r
<1>1. PICK job : job = [at |-> "auth", r |-> r, mem |-> NoRemote]
  OBVIOUS
<1>2. job \in Logins /\ job.at = "auth" /\ job.r = r
  BY <1>1 DEF Logins
<1>3. shell' = [shell EXCEPT ![s] = job] /\ shell[s] = NoRemote /\ UNCHANGED <<cfgFile, incusCfg, dirFile>>
  BY <1>1 DEF LoginStart, Starting
<1>4. r \in OwnRemotes
  BY ClientAssumption DEF ClientAssumption, LoginStart, Starting, OwnRemotes
<1> QED BY <1>2, <1>3, <1>4, Begun DEF ClientTypeOK

\* The Incus default remote.
LEMMA DefaultRemoteSet ==
  ASSUME ClientTypeOK, NEW r \in Remotes, SetSharedIncusDefaultRemote(r)
  PROVE  incusCfg' \in IncusFiles /\ incusCfg'.names = incusCfg.names
BY ClientValues DEF ClientTypeOK, IncusFiles, SetSharedIncusDefaultRemote

\* `sc config set remote`.
LEMMA SetFacts ==
  ASSUME ClientTypeOK, NEW s \in Shells, NEW r \in Remotes, ConfigSetRemote(s, r)
  PROVE  /\ ClientTypeOK' /\ shell[s] = NoRemote /\ UNCHANGED <<dirFile, shell>>
         /\ cfgFile' = SelectRemote(cfgFile, r) /\ incusCfg'.names = incusCfg.names
<1>1. cfgFile' = SelectRemote(cfgFile, r) /\ shell[s] = NoRemote /\ UNCHANGED <<dirFile, shell>>
      /\ SetSharedIncusDefaultRemote(r)
  BY DEF ConfigSetRemote, Save, Starting
<1>2. cfgFile \in Files
  BY DEF ClientTypeOK
<1>3. SelectRemote(cfgFile, r) \in Files
  BY <1>2, SelectFields
<1> QED BY <1>1, <1>3, DefaultRemoteSet DEF ClientTypeOK, IncusFiles

\* `sc remote switch`.
LEMMA SwitchFacts ==
  ASSUME ClientTypeOK, NEW s \in Shells, NEW r \in Remotes, RemoteSwitch(s, r)
  PROVE  /\ ClientTypeOK' /\ shell[s] = NoRemote /\ UNCHANGED <<cfgFile, incusCfg, shell>>
         /\ r \in incusCfg.names
         /\ dirFile' # NoRemote => dirFile'.remote = r
<1>1. PICK G : G = SelectRemote(cfgFile, r)
  OBVIOUS
<1>2. cfgFile \in Files
  BY DEF ClientTypeOK
<1>3. G \in Files
  BY <1>1, <1>2, SelectFields
<1>4. dirFile' = [remote |-> r, tenant |-> G.tenant]
  BY <1>1 DEF RemoteSwitch
<1>5. dirFile' \in DirFiles
  BY <1>3, <1>4, FileFields DEF DirFiles
<1>6. shell[s] = NoRemote /\ UNCHANGED <<cfgFile, incusCfg, shell>> /\ r \in incusCfg.names
  BY DEF RemoteSwitch, Starting
<1> QED BY <1>4, <1>5, <1>6 DEF ClientTypeOK, DirFiles

\* A command that is interrupted, or refused at enrolment.
LEMMA EndFacts ==
  ASSUME ClientTypeOK, NEW s \in Shells, Interrupted(s) \/ TenantSwitchJoinFails(s)
  PROVE  /\ ClientTypeOK' /\ UNCHANGED <<cfgFile, incusCfg, dirFile>> /\ shell'[s] = NoRemote
         /\ shell[s] # NoRemote
BY Finished DEF ClientTypeOK, Interrupted, TenantSwitchJoinFails, ShellAt

\* `sc tenant switch`: what it looks up.
LEMMA LoadFacts ==
  ASSUME ClientTypeOK, NEW s \in Shells, NEW r \in Remotes, TenantSwitchLoad(s, r)
  PROVE  /\ ClientTypeOK' /\ shell[s] = NoRemote /\ UNCHANGED <<cfgFile, incusCfg, dirFile>>
         /\ Resolved.token # NoRemote
         /\ shell'[s] # NoRemote /\ Serves(shell'[s].r, Resolved.token)
         /\ shell'[s].at = IF shell'[s].r \in SharedRemotes THEN "join" ELSE "own"
         /\ shell'[s].mem.file = cfgFile /\ shell'[s].mem.token = Resolved.token
         /\ shell'[s].mem.host = HostOf[Resolved.token]
<1>1. PICK c, F, a : c = Resolved /\ F = cfgFile /\ a = AuthHostname(c)
  OBVIOUS
<1>2. c \in Files /\ F \in Files
  BY <1>1, ResolvedTyped DEF ClientTypeOK
<1>3. a \in HostVals
  BY <1>1, <1>2, FileFields, ClientValues DEF AuthHostname, ClientTypeOK
<1>4. /\ shell[s] = NoRemote /\ c.token # NoRemote /\ HostOf[c.token] = a /\ UNCHANGED <<cfgFile, incusCfg, dirFile>>
      /\ \E x \in Remotes :
           /\ Serves(x, c.token)
           /\ shell' = [shell EXCEPT ![s] = [at |-> IF x \in SharedRemotes THEN "join" ELSE "own", r |-> x,
                          mem |-> [file |-> F, token |-> c.token, broker |-> c.broker, host |-> a]]]
  BY <1>1 DEF TenantSwitchLoad, Starting
<1>5. PICK x \in Remotes :
        /\ Serves(x, c.token)
        /\ shell' = [shell EXCEPT ![s] = [at |-> IF x \in SharedRemotes THEN "join" ELSE "own", r |-> x,
                       mem |-> [file |-> F, token |-> c.token, broker |-> c.broker, host |-> a]]]
  BY <1>4
<1>6. PICK m : m = [file |-> F, token |-> c.token, broker |-> c.broker, host |-> a]
  OBVIOUS
<1>7. PICK at : at = IF x \in SharedRemotes THEN "join" ELSE "own"
  OBVIOUS
<1>8. PICK job : job = [at |-> at, r |-> x, mem |-> m]
  OBVIOUS
<1>9. m \in [file : Files, token : Values, broker : Values, host : HostVals]
  BY <1>2, <1>3, <1>6, FileFields
<1>10. job \in TenantSwitches
  BY <1>7, <1>8, <1>9 DEF TenantSwitches
<1>11. shell' = [shell EXCEPT ![s] = job]
  BY <1>5, <1>6, <1>7, <1>8
<1>12. shell' \in [Shells -> {NoRemote} \cup Logins \cup TenantSwitches] /\ shell'[s] = job /\ shell'[s] # NoRemote
  BY <1>10, <1>11, Begun
<1>13. job.r = x /\ job.at = at /\ job.mem = m
  BY <1>8
<1>14. m.file = F /\ m.token = c.token /\ m.host = a
  BY <1>6
<1>15. ClientTypeOK'
  BY <1>4, <1>12 DEF ClientTypeOK
<1> QED BY <1>1, <1>4, <1>5, <1>7, <1>12, <1>13, <1>14, <1>15

\* The tenant of a file alone.
LEMMA TenantFields ==
  ASSUME NEW F \in Files, NEW t \in TenantVals
  PROVE  LET G == [F EXCEPT !.tenant = t] IN
         /\ G \in Files /\ G.remote = F.remote /\ G.host = F.host /\ G.token = F.token /\ G.installs = F.installs
         /\ G.tokens = F.tokens /\ G.rtokens = F.rtokens /\ G.rtenants = F.rtenants
BY DEF Files

\* What a tenant switch saves.
LEMMA SelectionFacts ==
  ASSUME ClientTypeOK, NEW s \in Shells, shell[s].r \in Remotes, NEW G \in Files, NEW x \in Remotes, SaveSelection(s, G, x)
  PROVE  /\ cfgFile' \in Files /\ cfgFile'.remote = G.remote /\ cfgFile'.host = G.host /\ cfgFile'.token = G.token
         /\ cfgFile'.installs = G.installs /\ cfgFile'.tokens = G.tokens /\ cfgFile'.rtokens = G.rtokens
         /\ cfgFile'.rtenants = G.rtenants
         /\ dirFile' \in DirFiles /\ dirFile'.remote = x
         /\ shell' \in [Shells -> {NoRemote} \cup Logins \cup TenantSwitches] /\ shell'[s] = NoRemote
<1>1. PICK t : t = TenantOf[shell[s].r]
  OBVIOUS
<1>2. t \in TenantVals
  BY <1>1, ClientValues
<1>3. cfgFile' = [G EXCEPT !.tenant = t] /\ dirFile' = [remote |-> x, tenant |-> t] /\ Finish(s)
  BY <1>1 DEF SaveSelection, Save
<1>4. dirFile' \in DirFiles /\ dirFile'.remote = x
  BY <1>2, <1>3 DEF DirFiles
<1> QED BY <1>2, <1>3, <1>4, TenantFields, Finished

\* ensureSharedTenantRemote.
LEMMA JoinFacts ==
  ASSUME ClientTypeOK, NEW s \in Shells, TenantSwitchJoin(s)
  PROVE  LET r == shell[s].r   m == shell[s].mem IN
         /\ ClientTypeOK' /\ shell[s] # NoRemote /\ shell[s].at = "join" /\ r \in Remotes /\ m.file \in Files
         /\ cfgFile'.remote = r /\ cfgFile'.host = m.file.host /\ cfgFile'.token = m.file.token
         /\ cfgFile'.installs = [m.file.installs EXCEPT ![r] = m.host]
         /\ cfgFile'.tokens = m.file.tokens
         /\ cfgFile'.rtokens = [m.file.rtokens EXCEPT ![r] = m.token]
         /\ cfgFile'.rtenants = [m.file.rtenants EXCEPT ![r] = TenantOf[r]]
         /\ incusCfg'.names = incusCfg.names \cup {r}
         /\ dirFile' # NoRemote => dirFile'.remote = r
         /\ shell'[s] = NoRemote
<1>1. shell[s] # NoRemote /\ shell[s].at = "join" /\ shell[s] \in TenantSwitches /\ shell[s].r \in Remotes
  BY JobTypes DEF TenantSwitchJoin, ShellAt, SwitchSteps
<1>2. PICK r, m, F, t : r = shell[s].r /\ m = shell[s].mem /\ F = m.file /\ t = TenantOf[r]
  OBVIOUS
<1>3. m \in [file : Files, token : Values, broker : Values, host : HostVals]
  BY <1>1, <1>2 DEF TenantSwitches
<1>4. F \in Files /\ m.token \in Values /\ m.broker \in Values /\ m.host \in HostVals /\ r \in Remotes /\ t \in TenantVals
  BY <1>1, <1>2, <1>3, ClientValues
<1>5. PICK rb, tk, i : rb = (IF m.broker # NoRemote THEN m.broker ELSE F.rbrokers[r]) /\ tk = m.token /\ i = m.host
  OBVIOUS
<1>6. PICK G : G = [F EXCEPT !.rtenants[r] = t, !.rtokens[r] = tk, !.rbrokers[r] = rb, !.installs[r] = i, !.remote = r]
  OBVIOUS
<1>7. G = File(r, F.tenant, F.host, F.token, F.broker, [F.installs EXCEPT ![r] = i], F.tokens, F.brokers,
               [F.rtokens EXCEPT ![r] = tk], [F.rbrokers EXCEPT ![r] = rb], [F.rtenants EXCEPT ![r] = t])
  <2>1. PICK F1 : F1 = [F EXCEPT !.rtenants[r] = t]
    OBVIOUS
  <2>2. PICK F2 : F2 = [F1 EXCEPT !.rtokens[r] = tk]
    OBVIOUS
  <2>3. PICK F3 : F3 = [F2 EXCEPT !.rbrokers[r] = rb]
    OBVIOUS
  <2>4. PICK F4 : F4 = [F3 EXCEPT !.installs[r] = i]
    OBVIOUS
  <2>5. PICK F5 : F5 = [F4 EXCEPT !.remote = r]
    OBVIOUS
  <2>6. G = F5
    BY <1>6, <2>1, <2>2, <2>3, <2>4, <2>5
  <2>7. F = File(F.remote, F.tenant, F.host, F.token, F.broker, F.installs, F.tokens, F.brokers,
                 F.rtokens, F.rbrokers, F.rtenants)
    BY <1>4, FileIs
  <2>8. F5 = File(r, F.tenant, F.host, F.token, F.broker, [F.installs EXCEPT ![r] = i], F.tokens, F.brokers,
                  [F.rtokens EXCEPT ![r] = tk], [F.rbrokers EXCEPT ![r] = rb], [F.rtenants EXCEPT ![r] = t])
    BY <2>1, <2>2, <2>3, <2>4, <2>5, <2>7 DEF File
  <2> QED BY <2>6, <2>8
<1>8. G \in Files
  BY <1>4, <1>5, <1>7, FileFields, ClientValues DEF File, Files
<1>9. SaveSelection(s, G, r) /\ incusCfg' = [incusCfg EXCEPT !.names = @ \cup {r}, !.current = r]
  <2>1. G = [m.file EXCEPT !.rtenants[r] = TenantOf[r], !.rtokens[r] = m.token,
                !.rbrokers[r] = IF m.broker # NoRemote THEN m.broker ELSE @,
                !.installs[r] = m.host, !.remote = r]
    BY <1>2, <1>4, <1>5, <1>6 DEF Files
  <2> QED BY <1>2, <2>1 DEF TenantSwitchJoin
<1>10. incusCfg' \in IncusFiles /\ incusCfg'.names = incusCfg.names \cup {r}
  BY <1>4, <1>9, ClientValues DEF IncusFiles, ClientTypeOK
<1>11. G.remote = r /\ G.host = F.host /\ G.token = F.token /\ G.installs = [F.installs EXCEPT ![r] = i] /\ G.tokens = F.tokens
       /\ G.rtokens = [F.rtokens EXCEPT ![r] = tk] /\ G.rtenants = [F.rtenants EXCEPT ![r] = t]
  BY <1>7 DEF File
<1>12. /\ cfgFile' \in Files /\ cfgFile'.remote = r /\ cfgFile'.host = F.host /\ cfgFile'.token = F.token
       /\ cfgFile'.installs = [F.installs EXCEPT ![r] = i] /\ cfgFile'.tokens = F.tokens
       /\ cfgFile'.rtokens = [F.rtokens EXCEPT ![r] = tk] /\ cfgFile'.rtenants = [F.rtenants EXCEPT ![r] = t]
       /\ dirFile' \in DirFiles /\ dirFile'.remote = r
       /\ shell' \in [Shells -> {NoRemote} \cup Logins \cup TenantSwitches] /\ shell'[s] = NoRemote
  BY <1>1, <1>4, <1>8, <1>9, <1>11, SelectionFacts
<1>13. ClientTypeOK'
  BY <1>10, <1>12 DEF ClientTypeOK, IncusFiles, DirFiles
<1> QED BY <1>1, <1>2, <1>4, <1>5, <1>10, <1>12, <1>13

\* remoteForTenant's answer.
LEMMA OwnFacts ==
  ASSUME ClientTypeOK, NEW s \in Shells, TenantSwitchOwn(s)
  PROVE  LET c == shell[s].mem.file IN
         /\ ClientTypeOK' /\ shell[s] # NoRemote /\ shell[s].at = "own" /\ c \in Files /\ shell[s].r \in Remotes
         /\ incusCfg'.names = incusCfg.names /\ shell'[s] = NoRemote
         /\ cfgFile'.installs = c.installs /\ cfgFile'.tokens = c.tokens /\ cfgFile'.rtokens = c.rtokens
         /\ cfgFile'.rtenants = c.rtenants
         /\ \E x \in RemoteForTenant(c, TenantOf[shell[s].r]) :
              \/ /\ x \in {NoRemote, c.remote} /\ c.remote # NoRemote
                 /\ cfgFile'.remote = c.remote /\ cfgFile'.host = c.host /\ cfgFile'.token = c.token
                 /\ dirFile'.remote = c.remote
              \/ /\ x \in {NoRemote, c.remote} /\ c.remote = NoRemote
                 /\ cfgFile'.remote = c.remote /\ cfgFile'.host = c.host /\ cfgFile'.token = c.token
                 /\ dirFile' = dirFile
              \/ /\ x \in Remotes
                 /\ cfgFile'.remote = x /\ cfgFile'.host = SelectRemote(c, x).host /\ cfgFile'.token = SelectRemote(c, x).token
                 /\ dirFile'.remote = x
<1>1. shell[s] # NoRemote /\ shell[s].at = "own" /\ shell[s].r \in Remotes /\ shell[s].mem.file \in Files
  BY JobTypes DEF TenantSwitchOwn, ShellAt, SwitchSteps
<1>2. PICK c, t : c = shell[s].mem.file /\ t = TenantOf[shell[s].r]
  OBVIOUS
<1>3. PICK x \in RemoteForTenant(c, t) :
        IF x \in {NoRemote, c.remote}
        THEN /\ IF c.remote # NoRemote THEN SaveSelection(s, c, c.remote)
                ELSE Save([c EXCEPT !.tenant = t]) /\ Finish(s) /\ UNCHANGED dirFile
             /\ UNCHANGED incusCfg
        ELSE SaveSelection(s, SelectRemote(c, x), x) /\ SetSharedIncusDefaultRemote(x)
  BY <1>2 DEF TenantSwitchOwn
<1>4. c \in Files /\ t \in TenantVals /\ c.remote \in Values
  BY <1>1, <1>2, ClientValues, FileFields
<1>5. RemoteForTenant(c, t) \subseteq Remotes \cup {NoRemote}
  BY DEF RemoteForTenant
<1>6. CASE x \in {NoRemote, c.remote} /\ c.remote # NoRemote
  <2>1. c.remote \in Remotes /\ SaveSelection(s, c, c.remote) /\ incusCfg' = incusCfg
    BY <1>3, <1>4, <1>6, ClientValues
  <2>2. /\ cfgFile' \in Files /\ cfgFile'.remote = c.remote /\ cfgFile'.host = c.host /\ cfgFile'.token = c.token
        /\ cfgFile'.installs = c.installs /\ cfgFile'.tokens = c.tokens /\ cfgFile'.rtokens = c.rtokens
        /\ cfgFile'.rtenants = c.rtenants
        /\ dirFile' \in DirFiles /\ dirFile'.remote = c.remote
        /\ shell' \in [Shells -> {NoRemote} \cup Logins \cup TenantSwitches] /\ shell'[s] = NoRemote
    BY <1>1, <1>4, <2>1, SelectionFacts
  <2>3. ClientTypeOK'
    BY <2>1, <2>2 DEF ClientTypeOK, DirFiles
  <2> QED BY <1>1, <1>2, <1>4, <1>6, <2>1, <2>2, <2>3
<1>7. CASE x \in {NoRemote, c.remote} /\ c.remote = NoRemote
  <2>1. cfgFile' = [c EXCEPT !.tenant = t] /\ Finish(s) /\ UNCHANGED <<dirFile, incusCfg>>
    BY <1>3, <1>7 DEF Save
  <2>2. /\ cfgFile' \in Files /\ cfgFile'.remote = c.remote /\ cfgFile'.host = c.host /\ cfgFile'.token = c.token
        /\ cfgFile'.installs = c.installs /\ cfgFile'.tokens = c.tokens /\ cfgFile'.rtokens = c.rtokens
        /\ cfgFile'.rtenants = c.rtenants
    BY <1>4, <2>1, TenantFields
  <2>3. ClientTypeOK' /\ shell'[s] = NoRemote
    BY <2>1, <2>2, Finished DEF ClientTypeOK
  <2> QED BY <1>1, <1>2, <1>4, <1>7, <2>1, <2>2, <2>3
<1>8. CASE x \notin {NoRemote, c.remote}
  <2>1. x \in Remotes /\ SaveSelection(s, SelectRemote(c, x), x) /\ SetSharedIncusDefaultRemote(x)
    BY <1>3, <1>5, <1>8
  <2>2. PICK G : G = SelectRemote(c, x)
    OBVIOUS
  <2>3. G \in Files /\ G.remote = x /\ G.installs = c.installs /\ G.tokens = c.tokens /\ G.rtokens = c.rtokens
        /\ G.rtenants = c.rtenants
    BY <1>4, <2>1, <2>2, SelectFields
  <2>4. SaveSelection(s, G, x)
    BY <2>1, <2>2
  <2>5. /\ cfgFile' \in Files /\ cfgFile'.remote = x /\ cfgFile'.host = G.host /\ cfgFile'.token = G.token
        /\ cfgFile'.installs = c.installs /\ cfgFile'.tokens = c.tokens /\ cfgFile'.rtokens = c.rtokens
        /\ cfgFile'.rtenants = c.rtenants
        /\ dirFile' \in DirFiles /\ dirFile'.remote = x
        /\ shell' \in [Shells -> {NoRemote} \cup Logins \cup TenantSwitches] /\ shell'[s] = NoRemote
    BY <1>1, <2>1, <2>3, <2>4, SelectionFacts
  <2>6. incusCfg' \in IncusFiles /\ incusCfg'.names = incusCfg.names
    BY <2>1, DefaultRemoteSet
  <2>7. ClientTypeOK'
    BY <2>5, <2>6 DEF ClientTypeOK, DirFiles, IncusFiles
  <2> QED BY <1>1, <1>2, <1>4, <2>1, <2>2, <2>5, <2>6, <2>7
<1> QED BY <1>6, <1>7, <1>8

\* The tenant a reused login selects.
AdoptedTenant(token) ==
  LET listed == TenantsListed(token) IN
  IF Resolved.tenant \in listed THEN Resolved.tenant
  ELSE IF \E x \in listed : listed = {x} THEN CHOOSE x \in listed : TRUE ELSE NoRemote

\* A login for r's install that reuses remote f with token k and selects tenant tn.
Reuses(r, f, k, tn) ==
  /\ f \in ReusableRemotes(HostOf[r]) \cap incusCfg.names /\ k = ReusableToken(HostOf[r])
  /\ tn = AdoptedTenant(k)
  /\ cfgFile'.host = HostOf[r] /\ cfgFile'.remote = f /\ cfgFile'.token = k
  /\ cfgFile'.tokens = [cfgFile.tokens EXCEPT ![HostOf[r]] = k]
  /\ cfgFile'.rtokens = [cfgFile.rtokens EXCEPT ![f] = k]
  /\ cfgFile'.installs = [cfgFile.installs EXCEPT ![f] = HostOf[r]]
  /\ cfgFile'.rtenants = [cfgFile.rtenants EXCEPT ![f] = IF tn # NoRemote THEN tn ELSE cfgFile.rtenants[f]]

\* tryExistingLogin: the token and the remote it reuses.
LEMMA ReuseFacts ==
  ASSUME ClientTypeOK, NEW s \in Shells, NEW r \in Remotes, TryExistingLogin(s, r)
  PROVE  /\ ClientTypeOK' /\ shell[s] = NoRemote /\ UNCHANGED <<dirFile, shell>> /\ incusCfg'.names = incusCfg.names
         /\ \E f \in Remotes, k \in Remotes, tn \in TenantVals : Reuses(r, f, k, tn)
<1>1. PICK h, F, tk : h = HostOf[r] /\ F = cfgFile /\ tk = ReusableToken(h)
  OBVIOUS
<1>2. F \in Files /\ h \in Installs /\ h \in HostVals /\ Resolved \in Files
  BY <1>1, ClientValues, ResolvedTyped DEF ClientTypeOK
<1>3. shell[s] = NoRemote /\ UNCHANGED <<dirFile, shell>>
  BY DEF TryExistingLogin, Starting
<1>4. PICK found \in ReusableRemotes(h) \cap incusCfg.names :
        /\ tk # NoRemote
        /\ LET listed == TenantsListed(tk)
               t == IF Resolved.tenant \in listed THEN Resolved.tenant
                    ELSE IF \E x \in listed : listed = {x} THEN CHOOSE x \in listed : TRUE ELSE NoRemote
               gateway == RemotesOf(h, t)
               broker == IF gateway # {} THEN CHOOSE x \in gateway : TRUE ELSE cfgFile.brokers[h]
           IN Save(Adopted(h, found, tk, t, broker))
        /\ SetSharedIncusDefaultRemote(found)
  BY <1>1 DEF TryExistingLogin
<1>5. tk \in Values /\ tk \in Remotes
  BY <1>1, <1>2, <1>4, FileFields, ClientValues DEF ReusableToken
<1>6. found \in Remotes
  BY <1>4 DEF ClientTypeOK
<1>7. PICK t : t = IF Resolved.tenant \in TenantsListed(tk) THEN Resolved.tenant
                   ELSE IF \E x \in TenantsListed(tk) : TenantsListed(tk) = {x}
                        THEN CHOOSE x \in TenantsListed(tk) : TRUE ELSE NoRemote
  OBVIOUS
<1>8. t \in TenantVals
  <2>1. TenantsListed(tk) \subseteq TenantVals
    BY ClientValues DEF TenantsListed
  <2>2. Resolved.tenant \in TenantVals /\ NoRemote \in TenantVals
    BY <1>2, FileFields, ClientValues
  <2>3. ASSUME \E x \in TenantsListed(tk) : TenantsListed(tk) = {x}
        PROVE  (CHOOSE x \in TenantsListed(tk) : TRUE) \in TenantsListed(tk)
    BY <2>3, Zenon
  <2> QED BY <1>7, <2>1, <2>2, <2>3
<1>9. PICK br : br = IF RemotesOf(h, t) # {} THEN CHOOSE x \in RemotesOf(h, t) : TRUE ELSE cfgFile.brokers[h]
  OBVIOUS
<1>10. br \in Values
  <2>1. RemotesOf(h, t) # {} => (CHOOSE x \in RemotesOf(h, t) : TRUE) \in RemotesOf(h, t)
    BY Zenon
  <2>2. RemotesOf(h, t) \subseteq Values
    BY ClientValues DEF RemotesOf
  <2>3. cfgFile.brokers[h] \in Values
    BY <1>1, <1>2, FileFields
  <2> QED BY <1>9, <2>1, <2>2, <2>3
<1>11. cfgFile' = Adopted(h, found, tk, t, br)
  BY <1>4, <1>7, <1>9 DEF Save
<1>12. PICK rt : rt = IF t # NoRemote THEN t ELSE F.rtenants[found]
  OBVIOUS
<1>13. PICK c : c = WithToken(F, h, found, tk)
  OBVIOUS
<1>14. PICK d : d = WithBroker(c, h, found, br)
  OBVIOUS
<1>15. PICK e : e = WithTenant(d, found, t)
  OBVIOUS
<1>16. cfgFile' = [e EXCEPT !.installs[found] = h]
  BY <1>1, <1>11, <1>13, <1>14, <1>15 DEF Adopted
<1>17. c = File(found, F.tenant, h, tk, F.broker, F.installs, [F.tokens EXCEPT ![h] = tk], F.brokers,
                [F.rtokens EXCEPT ![found] = tk], F.rbrokers, F.rtenants)
  <2>1. PICK F1 : F1 = [F EXCEPT !.host = h]
    OBVIOUS
  <2>2. PICK F2 : F2 = [F1 EXCEPT !.remote = found]
    OBVIOUS
  <2>3. PICK F3 : F3 = [F2 EXCEPT !.token = tk]
    OBVIOUS
  <2>4. PICK F4 : F4 = [F3 EXCEPT !.tokens[h] = tk]
    OBVIOUS
  <2>5. PICK F5 : F5 = [F4 EXCEPT !.rtokens[found] = tk]
    OBVIOUS
  <2>6. c = F5
    BY <1>13, <2>1, <2>2, <2>3, <2>4, <2>5 DEF WithToken
  <2>7. F = File(F.remote, F.tenant, F.host, F.token, F.broker, F.installs, F.tokens, F.brokers,
                  F.rtokens, F.rbrokers, F.rtenants)
    BY <1>2, FileIs
  <2>8. F5 = File(found, F.tenant, h, tk, F.broker, F.installs, [F.tokens EXCEPT ![h] = tk], F.brokers,
                  [F.rtokens EXCEPT ![found] = tk], F.rbrokers, F.rtenants)
    BY <2>1, <2>2, <2>3, <2>4, <2>5, <2>7 DEF File
  <2> QED BY <2>6, <2>8
<1>18. /\ c \in Files /\ c.host = h /\ c.remote = found /\ c.token = tk /\ c.installs = F.installs /\ c.rtenants = F.rtenants
       /\ c.tokens = [F.tokens EXCEPT ![h] = tk] /\ c.rtokens = [F.rtokens EXCEPT ![found] = tk]
  BY <1>2, <1>5, <1>6, <1>17, FileFields, ClientValues DEF File, Files
<1>19. /\ d \in Files /\ d.host = h /\ d.remote = found /\ d.token = tk /\ d.installs = F.installs /\ d.rtenants = F.rtenants
       /\ d.tokens = c.tokens /\ d.rtokens = c.rtokens
  <2>1. CASE br = NoRemote
    BY <1>14, <1>18, <2>1 DEF WithBroker
  <2>2. CASE br # NoRemote
    <3>1. d = [c EXCEPT !.broker = br, !.brokers[h] = br, !.rbrokers[found] = br]
      BY <1>14, <2>2 DEF WithBroker
    <3>2. d = File(c.remote, c.tenant, c.host, c.token, br, c.installs, c.tokens, [c.brokers EXCEPT ![h] = br],
                   c.rtokens, [c.rbrokers EXCEPT ![found] = br], c.rtenants)
      <4>1. PICK d1 : d1 = [c EXCEPT !.broker = br]
        OBVIOUS
      <4>2. PICK d2 : d2 = [d1 EXCEPT !.brokers[h] = br]
        OBVIOUS
      <4>3. d = [d2 EXCEPT !.rbrokers[found] = br]
        BY <3>1, <4>1, <4>2
      <4>4. c = File(c.remote, c.tenant, c.host, c.token, c.broker, c.installs, c.tokens, c.brokers,
                     c.rtokens, c.rbrokers, c.rtenants)
        BY <1>18, FileIs
      <4> QED BY <4>1, <4>2, <4>3, <4>4 DEF File
    <3>3. d \in Files
      BY <1>10, <1>18, <3>2, FileFields DEF File, Files
    <3> QED BY <1>18, <3>2, <3>3 DEF File
  <2> QED BY <2>1, <2>2
<1>20. /\ e \in Files /\ e.host = h /\ e.remote = found /\ e.token = tk /\ e.installs = F.installs
       /\ e.rtenants = [F.rtenants EXCEPT ![found] = rt] /\ e.tokens = c.tokens /\ e.rtokens = c.rtokens
  <2>1. F.rtenants \in [Remotes -> TenantVals]
    BY <1>2, FileFields
  <2>2. CASE t = NoRemote
    <3>1. [F.rtenants EXCEPT ![found] = rt] = F.rtenants
      BY <1>6, <1>12, <2>1, <2>2
    <3> QED BY <1>15, <1>19, <2>2, <3>1 DEF WithTenant
  <2>3. CASE t # NoRemote
    <3>1. PICK e1 : e1 = [d EXCEPT !.tenant = t]
      OBVIOUS
    <3>2. e = [e1 EXCEPT !.rtenants[found] = t]
      BY <1>15, <2>3, <3>1 DEF WithTenant
    <3>3. /\ e1 \in Files /\ e1.host = h /\ e1.remote = found /\ e1.token = tk /\ e1.installs = F.installs
          /\ e1.tokens = c.tokens /\ e1.rtokens = c.rtokens /\ e1.rtenants = F.rtenants
      BY <1>8, <1>19, <3>1, TenantFields
    <3>4. rt = t
      BY <1>12, <2>3
    <3> QED BY <1>8, <3>2, <3>3, <3>4 DEF Files
  <2> QED BY <2>2, <2>3
<1>21. /\ cfgFile' \in Files /\ cfgFile'.host = h /\ cfgFile'.remote = found /\ cfgFile'.token = tk
       /\ cfgFile'.tokens = [F.tokens EXCEPT ![h] = tk] /\ cfgFile'.rtokens = [F.rtokens EXCEPT ![found] = tk]
       /\ cfgFile'.installs = [F.installs EXCEPT ![found] = h]
       /\ cfgFile'.rtenants = [F.rtenants EXCEPT ![found] = rt]
  BY <1>2, <1>16, <1>18, <1>20 DEF Files
<1>22. incusCfg' \in IncusFiles /\ incusCfg'.names = incusCfg.names
  BY <1>4, <1>6, DefaultRemoteSet
<1>23. ClientTypeOK'
  BY <1>3, <1>22, <1>21 DEF ClientTypeOK, IncusFiles
<1>24. /\ found \in ReusableRemotes(HostOf[r]) \cap incusCfg.names /\ tk = ReusableToken(HostOf[r])
       /\ cfgFile'.host = HostOf[r] /\ cfgFile'.remote = found /\ cfgFile'.token = tk
       /\ cfgFile'.tokens = [cfgFile.tokens EXCEPT ![HostOf[r]] = tk]
       /\ cfgFile'.rtokens = [cfgFile.rtokens EXCEPT ![found] = tk]
       /\ cfgFile'.installs = [cfgFile.installs EXCEPT ![found] = HostOf[r]]
       /\ cfgFile'.rtenants = [cfgFile.rtenants EXCEPT ![found] = IF t # NoRemote THEN t ELSE cfgFile.rtenants[found]]
  BY <1>1, <1>4, <1>12, <1>21
<1>25. t = AdoptedTenant(tk)
  BY <1>7 DEF AdoptedTenant
<1>26. Reuses(r, found, tk, t)
  BY <1>24, <1>25 DEF Reuses
<1> QED BY <1>3, <1>5, <1>6, <1>8, <1>22, <1>23, <1>26

-----------------------------------------------------------------------------
(* The types of the client                                                 *)

LEMMA ClientTypeStep == ClientTypeOK /\ [ClientNext]_clientVars => ClientTypeOK'
<1> SUFFICES ASSUME ClientTypeOK, [ClientNext]_clientVars PROVE ClientTypeOK'
  OBVIOUS
<1>1. CASE UNCHANGED clientVars
  BY <1>1 DEF ClientTypeOK, clientVars
<1>2. ASSUME NEW s \in Shells, NEW r \in Remotes, TryExistingLogin(s, r) PROVE ClientTypeOK'
  BY <1>2, ReuseFacts
<1>3. ASSUME NEW s \in Shells, NEW r \in Remotes, LoginStart(s, r) PROVE ClientTypeOK'
  BY <1>3, StartFacts
<1>4. ASSUME NEW s \in Shells, NEW r \in Remotes, ConfigSetRemote(s, r) PROVE ClientTypeOK'
  BY <1>4, SetFacts
<1>5. ASSUME NEW s \in Shells, NEW r \in Remotes, RemoteSwitch(s, r) PROVE ClientTypeOK'
  BY <1>5, SwitchFacts
<1>6. ASSUME NEW s \in Shells, NEW r \in Remotes, TenantSwitchLoad(s, r) PROVE ClientTypeOK'
  BY <1>6, LoadFacts
<1>7. ASSUME NEW s \in Shells, SaveAuth(s) PROVE ClientTypeOK'
  BY <1>7, AuthFacts
<1>8. ASSUME NEW s \in Shells, SaveBroker(s) PROVE ClientTypeOK'
  BY <1>8, BrokerFacts
<1>9. ASSUME NEW s \in Shells, SetAside(s) PROVE ClientTypeOK'
  BY <1>9, AsideFacts
<1>10. ASSUME NEW s \in Shells, AddRemote(s) PROVE ClientTypeOK'
  BY <1>10, AddFacts
<1>11. ASSUME NEW s \in Shells, RestoreBackup(s) PROVE ClientTypeOK'
  BY <1>11, RestoreFacts
<1>12. ASSUME NEW s \in Shells, SaveRemoteDefaults(s) PROVE ClientTypeOK'
  BY <1>12, DefaultsFacts
<1>13. ASSUME NEW s \in Shells, RecordInstall(s) PROVE ClientTypeOK'
  BY <1>13, RecordFacts
<1>14. ASSUME NEW s \in Shells, TenantSwitchJoin(s) PROVE ClientTypeOK'
  BY <1>14, JoinFacts
<1>15. ASSUME NEW s \in Shells, TenantSwitchOwn(s) PROVE ClientTypeOK'
  BY <1>15, OwnFacts
<1>16. ASSUME NEW s \in Shells, Interrupted(s) \/ TenantSwitchJoinFails(s) PROVE ClientTypeOK'
  BY <1>16, EndFacts
<1> QED BY <1>1, <1>2, <1>3, <1>4, <1>5, <1>6, <1>7, <1>8, <1>9, <1>10, <1>11, <1>12, <1>13, <1>14, <1>15, <1>16 DEF ClientNext

LEMMA ClientTypeInit == ClientInit => ClientTypeOK
<1> SUFFICES ASSUME ClientInit PROVE ClientTypeOK
  OBVIOUS
<1>1. dirFile = NoRemote /\ shell \in [Shells -> {NoRemote} \cup Logins \cup TenantSwitches]
  BY DEF ClientInit
<1>2. CASE cfgFile = EmptyConfig /\ incusCfg = [names |-> {}, backups |-> {}, current |-> NoRemote]
  BY <1>1, <1>2, FirstFiles, ClientValues DEF ClientTypeOK
<1>3. ASSUME NEW last \in [Installs -> OwnRemotes], NEW active \in OwnRemotes,
             cfgFile = OldConfig(last, active), incusCfg = [names |-> OwnRemotes, backups |-> {}, current |-> active]
      PROVE  ClientTypeOK
  BY <1>1, <1>3, FirstFiles, ClientValues DEF ClientTypeOK
<1> QED BY <1>2, <1>3 DEF ClientInit

\* Every copy of the file a command holds, the Incus directory and the
\* directory's selection keep their kinds of value, whatever is interleaved.
THEOREM ClientStaysTyped == ClientSpec => []ClientTypeOK
<1>1. ClientInit => ClientTypeOK
  BY ClientTypeInit
<1>2. ClientTypeOK /\ [ClientNext]_clientVars => ClientTypeOK'
  BY ClientTypeStep
<1> QED BY <1>1, <1>2, PTL DEF ClientSpec

-----------------------------------------------------------------------------
(* The client stays usable                                                 *)

Enrolled(r) == cfgFile.installs[r] # NoRemote
InLogin(t, r) == shell[t] # NoRemote /\ shell[t].at \in LoginSteps /\ shell[t].r = r
Known(t, r) == r \in OwnRemotes /\ (Enrolled(r) \/ InLogin(t, r))
AllEnrolled == \A o \in OwnRemotes : Enrolled(o)

\* Every token recorded is that of an own remote which is enrolled or being
\* enrolled, under the install and the remotes that accept it.
InstallsFit == \A r \in Remotes : cfgFile.installs[r] \in {NoRemote, HostOf[r]}
TokensFit(t) ==
  \A h \in Installs : cfgFile.tokens[h] # NoRemote => Known(t, cfgFile.tokens[h]) /\ HostOf[cfgFile.tokens[h]] = h
RemoteTokensFit(t) ==
  \A r \in Remotes : cfgFile.rtokens[r] # NoRemote => Known(t, cfgFile.rtokens[r]) /\ Serves(r, cfgFile.rtokens[r])
ActiveFits(t) == cfgFile.token # NoRemote => Known(t, cfgFile.token) /\ HostOf[cfgFile.token] = cfgFile.host
OwnRecordsFit ==
  \A r \in OwnRemotes : Enrolled(r) => AllEnrolled \/ (cfgFile.rtokens[r] = r /\ cfgFile.rtenants[r] = TenantOf[r])
TenantsFit(t) == \A r \in Remotes : cfgFile.rtenants[r] # NoRemote => Enrolled(r) \/ InLogin(t, r)
RecordsFit(t) ==
  InstallsFit /\ TokensFit(t) /\ RemoteTokensFit(t) /\ OwnRecordsFit /\ TenantsFit(t)
ActiveEnrolled == cfgFile.remote \in SharedRemotes => Enrolled(cfgFile.remote)
DirFits == dirFile # NoRemote => Enrolled(dirFile.remote)

\* The Incus directory and the file agree on what is enrolled, but for the
\* login under way; a remote set aside is still there.
EnrolledNamed(t) ==
  \A r \in Remotes : Enrolled(r) =>
    \/ r \in incusCfg.names
    \/ shell[t] # NoRemote /\ shell[t].at = "add" /\ shell[t].r = r /\ shell[t].mem = TRUE /\ r \in incusCfg.backups
NamedEnrolled(t) ==
  \A r \in incusCfg.names : Enrolled(r) \/ (shell[t] # NoRemote /\ shell[t].at \in {"defaults", "record"} /\ shell[t].r = r)
\* What the command under way has done and read.
LoginFits(t) ==
  shell[t] # NoRemote /\ shell[t].at \in {"auth"} \cup LoginSteps =>
    /\ shell[t].r \in OwnRemotes
    /\ shell[t].at \in {"defaults", "record"} => shell[t].r \in incusCfg.names
    /\ shell[t].at \in LoginSteps => cfgFile.rtokens[shell[t].r] = shell[t].r /\ cfgFile.rtenants[shell[t].r] = TenantOf[shell[t].r]
SwitchFits(t) ==
  shell[t] # NoRemote /\ shell[t].at \in SwitchSteps =>
    /\ shell[t].mem.file = cfgFile /\ Known(t, shell[t].mem.token)
    /\ Serves(shell[t].r, shell[t].mem.token) /\ shell[t].mem.host = HostOf[shell[t].mem.token]
    /\ shell[t].at = IF shell[t].r \in SharedRemotes THEN "join" ELSE "own"

ClientFits(t) ==
  /\ ClientTypeOK
  /\ RecordsFit(t) /\ ActiveFits(t) /\ ActiveEnrolled /\ DirFits
  /\ EnrolledNamed(t) /\ NamedEnrolled(t) /\ LoginFits(t) /\ SwitchFits(t)

\* A token accepted by a remote is one of its install.
LEMMA ServedHere == ASSUME NEW r, NEW k, Serves(r, k) PROVE HostOf[r] = HostOf[k]
BY DEF Serves

\* The token SelectRemote makes active is one of the file's, of the host it
\* makes active, when the remote is enrolled; and it serves that remote.
LEMMA SelectedToken ==
  ASSUME NEW t, ClientTypeOK, RecordsFit(t), ActiveFits(t), NEW r \in Remotes
  PROVE  LET G == SelectRemote(cfgFile, r) IN
         /\ G.token # NoRemote => Known(t, G.token) /\ HostOf[G.token] = G.host
         /\ Enrolled(r) => G.host = HostOf[r]
<1>1. PICK F, G : F = cfgFile /\ G = SelectRemote(F, r)
  OBVIOUS
<1>2. F \in Files /\ F.installs \in [Remotes -> HostVals]
  BY <1>1, FileFields DEF ClientTypeOK
<1>3. CASE F.installs[r] = NoRemote
  <2>1. G.host = F.host /\ G.token = F.token
    BY <1>1, <1>2, <1>3, SelectFields
  <2> QED BY <1>1, <1>3, <2>1 DEF ActiveFits, Enrolled
<1>4. CASE F.installs[r] # NoRemote
  <2>1. /\ G.host = F.installs[r]
        /\ G.token \in {F.rtokens[r], F.tokens[F.installs[r]]}
    BY <1>1, <1>2, <1>4, SelectFields
  <2>2. F.installs[r] = HostOf[r] /\ HostOf[r] \in Installs
    BY <1>1, <1>4, ClientValues DEF RecordsFit, InstallsFit
  <2>3. F.rtokens[r] # NoRemote => Known(t, F.rtokens[r]) /\ HostOf[F.rtokens[r]] = HostOf[r]
    BY <1>1, ServedHere DEF RecordsFit, RemoteTokensFit
  <2>4. F.tokens[HostOf[r]] # NoRemote => Known(t, F.tokens[HostOf[r]]) /\ HostOf[F.tokens[HostOf[r]]] = HostOf[r]
    BY <1>1, <2>2 DEF RecordsFit, TokensFit
  <2> QED BY <1>1, <2>1, <2>2, <2>3, <2>4
<1> QED BY <1>3, <1>4

\* What commands resolve: the selected remote, or the file as it is.
LEMMA ResolvedIs ==
  ASSUME ClientTypeOK, DirFits
  PROVE  \/ \E r \in Remotes :
              /\ dirFile # NoRemote => r = dirFile.remote
              /\ Resolved.remote = r /\ Resolved.host = SelectRemote(cfgFile, r).host
              /\ Resolved.token = SelectRemote(cfgFile, r).token
         \/ /\ dirFile = NoRemote
            /\ Resolved.remote = cfgFile.remote /\ Resolved.host = cfgFile.host /\ Resolved.token = cfgFile.token
<1>1. cfgFile \in Files /\ (dirFile # NoRemote => dirFile \in DirFiles) /\ incusCfg \in IncusFiles
  BY DEF ClientTypeOK, DirFiles, IncusFiles
<1>2. PICK F : F = cfgFile
  OBVIOUS
<1>3. PICK tn : tn = IF dirFile # NoRemote THEN dirFile.tenant ELSE NoRemote
  OBVIOUS
<1>4. CASE dirFile # NoRemote
  <2>1. PICK r \in Remotes : r = dirFile.remote
    BY <1>1, <1>4 DEF DirFiles
  <2>2. PICK G : G = SelectRemote(F, r)
    OBVIOUS
  <2>3. G \in Files /\ G.remote = r
    BY <1>1, <1>2, <2>2, SelectFields
  <2>4. cfgFile.installs[r] # NoRemote /\ r # NoRemote
    BY <1>4, <2>1, ClientAssumption DEF ClientAssumption, DirFits, Enrolled
  <2>5. Resolved = [G EXCEPT !.tenant = IF tn # NoRemote THEN tn ELSE @]
    BY <1>2, <1>3, <1>4, <2>1, <2>2, <2>4 DEF Resolved
  <2>6. Resolved.remote = r /\ Resolved.host = G.host /\ Resolved.token = G.token
    BY <2>3, <2>5 DEF Files
  <2> QED BY <1>2, <2>1, <2>2, <2>6
<1>5. CASE dirFile = NoRemote /\ SharedIncusDefaultRemote \notin {NoRemote, cfgFile.remote}
  <2>1. PICK r \in Remotes : r = SharedIncusDefaultRemote
    BY <1>1, <1>5, ClientValues DEF SharedIncusDefaultRemote, IncusFiles
  <2>2. PICK G : G = SelectRemote(F, r)
    OBVIOUS
  <2>3. G \in Files /\ G.remote = r
    BY <1>1, <1>2, <2>2, SelectFields
  <2>4. Resolved = [G EXCEPT !.tenant = G.tenant]
    BY <1>2, <1>5, <2>1, <2>2 DEF Resolved
  <2>5. Resolved.remote = r /\ Resolved.host = G.host /\ Resolved.token = G.token
    BY <2>3, <2>4 DEF Files
  <2> QED BY <1>2, <1>5, <2>1, <2>2, <2>5
<1>6. CASE dirFile = NoRemote /\ SharedIncusDefaultRemote \in {NoRemote, cfgFile.remote}
  <2>1. Resolved = [F EXCEPT !.tenant = F.tenant]
    BY <1>2, <1>6 DEF Resolved
  <2>2. Resolved.remote = F.remote /\ Resolved.host = F.host /\ Resolved.token = F.token
    BY <1>1, <1>2, <2>1 DEF Files
  <2> QED BY <1>2, <1>6, <2>2
<1> QED BY <1>4, <1>5, <1>6

\* The token commands resolve is one of the file's, of the host they resolve.
LEMMA ResolvedFits ==
  ASSUME NEW t, ClientFits(t)
  PROVE  /\ Resolved.token # NoRemote => Known(t, Resolved.token) /\ HostOf[Resolved.token] = Resolved.host
         /\ Resolved.remote \in Remotes /\ Enrolled(Resolved.remote) =>
              Resolved.host = HostOf[Resolved.remote] \/ (Resolved.remote = cfgFile.remote /\ Resolved.host = cfgFile.host)
<1>1. ClientTypeOK /\ DirFits /\ RecordsFit(t) /\ ActiveFits(t)
  BY DEF ClientFits
<1>2. ASSUME NEW r \in Remotes, Resolved.remote = r, Resolved.host = SelectRemote(cfgFile, r).host,
             Resolved.token = SelectRemote(cfgFile, r).token
      PROVE  /\ Resolved.token # NoRemote => Known(t, Resolved.token) /\ HostOf[Resolved.token] = Resolved.host
             /\ Enrolled(r) => Resolved.host = HostOf[r]
  BY <1>1, <1>2, SelectedToken
<1>3. CASE Resolved.remote = cfgFile.remote /\ Resolved.host = cfgFile.host /\ Resolved.token = cfgFile.token
  BY <1>1, <1>3 DEF ActiveFits
<1> QED BY <1>1, <1>2, <1>3, ResolvedIs

\* What the invariant says of a client at rest.
LEMMA FittingIsUsable ==
  ASSUME NEW t, Shells = {t}, ClientFits(t)
  PROVE  ClientUsable
<1>1. ClientTypeOK /\ DirFits /\ RecordsFit(t) /\ ActiveFits(t) /\ EnrolledNamed(t)
  BY DEF ClientFits
<1>2. Idle => shell[t] = NoRemote
  BY DEF Idle
<1>3. RemoteStaysEnrolled
  <2> SUFFICES ASSUME Idle, cfgFile.remote # NoRemote, cfgFile.installs[cfgFile.remote] # NoRemote
               PROVE  cfgFile.remote \in incusCfg.names
    BY DEF RemoteStaysEnrolled
  <2>1. cfgFile.remote \in Remotes
    BY <1>1, FileFields, ClientValues DEF ClientTypeOK
  <2> QED BY <1>1, <1>2, <2>1 DEF EnrolledNamed, Enrolled
<1>4. BearerFollowsRemote
  <2> SUFFICES ASSUME Idle, dirFile # NoRemote, Resolved.token # NoRemote
               PROVE  Serves(dirFile.remote, Resolved.token)
    BY DEF BearerFollowsRemote
  <2>1. PICK r \in Remotes : r = dirFile.remote /\ Resolved.token = SelectRemote(cfgFile, r).token
    BY <1>1, ResolvedIs
  <2>2. PICK F, k : F = cfgFile /\ k = Resolved.token
    OBVIOUS
  <2>3. F \in Files /\ F.installs[r] # NoRemote
    BY <1>1, <2>1, <2>2 DEF ClientTypeOK, DirFits, Enrolled
  <2>4. k = IF F.rtokens[r] # NoRemote \/ \E o \in Remotes \ {r} : F.installs[o] = F.installs[r]
            THEN F.rtokens[r] ELSE F.tokens[F.installs[r]]
    <3>1. k = SelectRemote(F, r).token
      BY <2>1, <2>2
    <3>2. SelectRemote(F, r).token =
            IF F.rtokens[r] # NoRemote \/ \E o \in Remotes \ {r} : F.installs[o] = F.installs[r]
            THEN F.rtokens[r] ELSE F.tokens[F.installs[r]]
      BY <2>3, SelectFields
    <3> QED BY <3>1, <3>2
  <2>5. CASE k = F.rtokens[r]
    BY <1>1, <2>1, <2>2, <2>5 DEF RecordsFit, RemoteTokensFit
  <2>6. CASE k # F.rtokens[r]
    <3>1. k = F.tokens[F.installs[r]] /\ \A o \in Remotes \ {r} : F.installs[o] # F.installs[r]
      BY <2>4, <2>6
    <3>2. F.installs[r] = HostOf[r] /\ HostOf[r] \in Installs
      BY <1>1, <2>2, <2>3, ClientValues DEF RecordsFit, InstallsFit
    <3>3. Known(t, k) /\ HostOf[k] = HostOf[r]
      BY <1>1, <2>2, <3>1, <3>2 DEF RecordsFit, TokensFit
    <3>4. k \in Remotes /\ F.installs[k] # NoRemote
      BY <1>2, <2>2, <3>3, ClientValues DEF Known, InLogin, Enrolled
    <3>5. F.installs[k] = HostOf[k]
      BY <1>1, <2>2, <3>4 DEF RecordsFit, InstallsFit
    <3>6. k = r
      BY <3>1, <3>2, <3>3, <3>4, <3>5
    <3> QED BY <2>1, <2>2, <3>6 DEF Serves
  <2> QED BY <2>5, <2>6
<1> QED BY <1>3, <1>4 DEF ClientUsable

\* A token's login stays known while enrolled remotes stay enrolled and the
\* login under way goes on or has recorded its install.
LEMMA KnownKept ==
  ASSUME NEW t, NEW x, Known(t, x),
         Enrolled(x) => Enrolled(x)', InLogin(t, x) => InLogin(t, x)' \/ Enrolled(x)'
  PROVE  Known(t, x)'
BY DEF Known

\* The records are as they were.
LEMMA RecordsKept ==
  ASSUME NEW t, RecordsFit(t), cfgFile'.installs = cfgFile.installs, cfgFile'.tokens = cfgFile.tokens,
         cfgFile'.rtokens = cfgFile.rtokens, cfgFile'.rtenants = cfgFile.rtenants,
         \A x : InLogin(t, x) => InLogin(t, x)' \/ Enrolled(x)
  PROVE  RecordsFit(t)'
<1>1. \A x : Enrolled(x)' <=> Enrolled(x)
  BY DEF Enrolled
<1>2. \A x : Known(t, x) => Known(t, x)'
  BY <1>1, KnownKept
<1>3. InstallsFit'
  BY DEF RecordsFit, InstallsFit
<1>4. TokensFit(t)'
  BY <1>2 DEF RecordsFit, TokensFit
<1>5. RemoteTokensFit(t)'
  BY <1>2 DEF RecordsFit, RemoteTokensFit
<1>6. OwnRecordsFit'
  BY <1>1 DEF RecordsFit, OwnRecordsFit, AllEnrolled
<1>7. TenantsFit(t)'
  BY <1>1 DEF RecordsFit, TenantsFit
<1> QED BY <1>3, <1>4, <1>5, <1>6, <1>7 DEF RecordsFit

\* A client whose terminal is idle.
LEMMA AtRest ==
  ASSUME NEW t, ClientFits(t), shell[t] = NoRemote
  PROVE  /\ \A r \in Remotes : Enrolled(r) <=> r \in incusCfg.names
         /\ \A x : Known(t, x) => x \in OwnRemotes /\ Enrolled(x)
         /\ \A x : ~InLogin(t, x)
BY DEF ClientFits, EnrolledNamed, NamedEnrolled, Known, InLogin, ClientTypeOK

\* The steps of the command under way.
LEMMA StepsApart ==
  /\ "auth" \notin LoginSteps /\ "auth" \notin SwitchSteps
  /\ \A a \in LoginSteps : a \notin SwitchSteps /\ a # "auth"
  /\ \A a \in SwitchSteps : a \notin LoginSteps /\ a # "auth"
  /\ {"broker", "aside", "add", "defaults", "record"} \subseteq LoginSteps /\ {"join", "own"} \subseteq SwitchSteps
BY DEF LoginSteps, SwitchSteps

LEMMA FitsStart ==
  ASSUME NEW t \in Shells, ClientFits(t), NEW r \in Remotes, LoginStart(t, r)
  PROVE  ClientFits(t)'
<1>1. ClientTypeOK
  BY DEF ClientFits
<1>2. /\ ClientTypeOK' /\ shell[t] = NoRemote /\ UNCHANGED <<cfgFile, incusCfg, dirFile>>
      /\ r \in OwnRemotes /\ shell'[t] # NoRemote /\ shell'[t].at = "auth" /\ shell'[t].r = r
  BY <1>1, StartFacts
<1>3. RecordsFit(t)'
  BY <1>2, AtRest, RecordsKept DEF ClientFits
<1>4. ActiveFits(t)' /\ ActiveEnrolled' /\ DirFits'
  BY <1>2, AtRest DEF ClientFits, ActiveFits, ActiveEnrolled, DirFits, Enrolled, Known
<1>5. EnrolledNamed(t)' /\ NamedEnrolled(t)'
  BY <1>1, <1>2, AtRest DEF EnrolledNamed, NamedEnrolled, Enrolled, ClientTypeOK
<1>6. LoginFits(t)' /\ SwitchFits(t)'
  BY <1>2, StepsApart DEF LoginFits, SwitchFits
<1> QED BY <1>2, <1>3, <1>4, <1>5, <1>6 DEF ClientFits

LEMMA FitsAuth ==
  ASSUME NEW t \in Shells, ClientFits(t), SaveAuth(t)
  PROVE  ClientFits(t)'
<1>1. ClientTypeOK /\ cfgFile \in Files
  BY DEF ClientFits, ClientTypeOK
<1>2. PICK r, F, h : r = shell[t].r /\ F = cfgFile /\ h = HostOf[r]
  OBVIOUS
<1>3. /\ ClientTypeOK' /\ shell[t] # NoRemote /\ shell[t].at = "auth"
      /\ cfgFile' = File(F.remote, F.tenant, h, r, F.broker, F.installs, [F.tokens EXCEPT ![h] = r], F.brokers,
                         [F.rtokens EXCEPT ![r] = r], F.rbrokers, [F.rtenants EXCEPT ![r] = TenantOf[r]])
      /\ shell'[t] # NoRemote /\ shell'[t].at = "broker" /\ shell'[t].r = r
  BY <1>1, <1>2, AuthFacts
<1>4. UNCHANGED <<incusCfg, dirFile>>
  BY DEF SaveAuth
<1>5. r \in OwnRemotes /\ r \in Remotes /\ h \in Installs
  BY <1>2, <1>3, ClientValues DEF ClientFits, LoginFits
<1>6. /\ cfgFile'.installs = F.installs /\ cfgFile'.host = h /\ cfgFile'.token = r /\ cfgFile'.remote = F.remote
      /\ cfgFile'.tokens = [F.tokens EXCEPT ![h] = r] /\ cfgFile'.rtokens = [F.rtokens EXCEPT ![r] = r]
      /\ cfgFile'.rtenants = [F.rtenants EXCEPT ![r] = TenantOf[r]]
  BY <1>3 DEF File
<1>7. F \in Files /\ F.tokens \in [Installs -> Values] /\ F.rtokens \in [Remotes -> Values] /\ F.rtenants \in [Remotes -> TenantVals]
  BY <1>1, <1>2, FileFields
<1>8. Known(t, r)' /\ \A x : (Enrolled(x)' <=> Enrolled(x)) /\ ~InLogin(t, x)
  BY <1>2, <1>3, <1>5, <1>6, StepsApart DEF Known, InLogin, Enrolled
<1>9. \A x : Known(t, x) => Known(t, x)'
  BY <1>8, KnownKept
<1>10. InLogin(t, r)'
  BY <1>3, StepsApart DEF InLogin
<1>11. InstallsFit'
  BY <1>2, <1>6 DEF ClientFits, RecordsFit, InstallsFit
<1>12. TokensFit(t)'
  BY <1>2, <1>5, <1>6, <1>7, <1>8, <1>9 DEF ClientFits, RecordsFit, TokensFit
<1>13. RemoteTokensFit(t)'
  BY <1>2, <1>5, <1>6, <1>7, <1>8, <1>9 DEF ClientFits, RecordsFit, RemoteTokensFit, Serves
<1>14. OwnRecordsFit'
  BY <1>2, <1>5, <1>6, <1>7, <1>8, ClientValues DEF ClientFits, RecordsFit, OwnRecordsFit, AllEnrolled
<1>15. TenantsFit(t)'
  BY <1>2, <1>5, <1>6, <1>7, <1>8, <1>10 DEF ClientFits, RecordsFit, TenantsFit
<1>16. ActiveFits(t)'
  BY <1>2, <1>6, <1>8 DEF ActiveFits
<1>17. ActiveEnrolled' /\ DirFits'
  BY <1>2, <1>4, <1>6, <1>8 DEF ClientFits, ActiveEnrolled, DirFits
<1>18. EnrolledNamed(t)'
  BY <1>3, <1>4, <1>8 DEF ClientFits, EnrolledNamed
<1>19. NamedEnrolled(t)'
  BY <1>3, <1>4, <1>8 DEF ClientFits, NamedEnrolled
<1>20. LoginFits(t)'
  BY <1>3, <1>5, <1>6, <1>7 DEF LoginFits
<1>21. SwitchFits(t)'
  BY <1>3, StepsApart DEF SwitchFits
<1> QED BY <1>3, <1>11, <1>12, <1>13, <1>14, <1>15, <1>16, <1>17, <1>18, <1>19, <1>20, <1>21 DEF ClientFits, RecordsFit

LEMMA FitsBroker ==
  ASSUME NEW t \in Shells, ClientFits(t), SaveBroker(t)
  PROVE  ClientFits(t)'
<1>1. ClientTypeOK /\ UNCHANGED <<incusCfg, dirFile>>
  BY DEF ClientFits, SaveBroker
<1>2. PICK r, F : r = shell[t].r /\ F = cfgFile
  OBVIOUS
<1>3. /\ ClientTypeOK' /\ shell[t] # NoRemote /\ shell[t].at = "broker"
      /\ cfgFile' = File(F.remote, F.tenant, F.host, F.token, r, F.installs, F.tokens, [F.brokers EXCEPT ![HostOf[r]] = r],
                         F.rtokens, [F.rbrokers EXCEPT ![r] = r], F.rtenants)
      /\ shell'[t] # NoRemote /\ shell'[t].at = "aside" /\ shell'[t].r = r
  BY <1>1, <1>2, BrokerFacts
<1>4. /\ cfgFile'.installs = F.installs /\ cfgFile'.host = F.host /\ cfgFile'.token = F.token /\ cfgFile'.remote = F.remote
      /\ cfgFile'.tokens = F.tokens /\ cfgFile'.rtokens = F.rtokens /\ cfgFile'.rtenants = F.rtenants
  BY <1>3 DEF File
<1>5. \A x : (InLogin(t, x) => InLogin(t, x)') /\ (Enrolled(x)' <=> Enrolled(x))
  BY <1>2, <1>3, <1>4, StepsApart DEF InLogin, Enrolled
<1>6. RecordsFit(t)'
  BY <1>2, <1>4, <1>5, RecordsKept DEF ClientFits
<1>7. ActiveFits(t)' /\ ActiveEnrolled' /\ DirFits'
  BY <1>1, <1>2, <1>4, <1>5, KnownKept DEF ClientFits, ActiveFits, ActiveEnrolled, DirFits
<1>8. EnrolledNamed(t)' /\ NamedEnrolled(t)'
  BY <1>1, <1>3, <1>5 DEF ClientFits, EnrolledNamed, NamedEnrolled
<1>9. LoginFits(t)'
  BY <1>2, <1>3, <1>4, StepsApart DEF ClientFits, LoginFits
<1>10. SwitchFits(t)'
  BY <1>3, StepsApart DEF SwitchFits
<1> QED BY <1>3, <1>6, <1>7, <1>8, <1>9, <1>10 DEF ClientFits

LEMMA FitsAside ==
  ASSUME NEW t \in Shells, ClientFits(t), SetAside(t)
  PROVE  ClientFits(t)'
<1>1. ClientTypeOK
  BY DEF ClientFits
<1>2. PICK r : r = shell[t].r
  OBVIOUS
<1>3. /\ ClientTypeOK' /\ shell[t] # NoRemote /\ shell[t].at = "aside" /\ UNCHANGED <<cfgFile, dirFile>>
      /\ shell'[t] # NoRemote /\ shell'[t].at = "add" /\ shell'[t].r = r
      /\ r \in incusCfg.names => shell'[t].mem = TRUE /\ incusCfg'.names = incusCfg.names \ {r} /\ r \in incusCfg'.backups
      /\ r \notin incusCfg.names => incusCfg' = incusCfg
  BY <1>1, <1>2, AsideFacts
<1>4. \A x : (InLogin(t, x) => InLogin(t, x)') /\ (Enrolled(x)' <=> Enrolled(x))
  BY <1>2, <1>3, StepsApart DEF InLogin, Enrolled
<1>5. RecordsFit(t)'
  BY <1>3, <1>4, RecordsKept DEF ClientFits
<1>6. ActiveFits(t)' /\ ActiveEnrolled' /\ DirFits'
  BY <1>3, <1>4, KnownKept DEF ClientFits, ActiveFits, ActiveEnrolled, DirFits
<1>7. EnrolledNamed(t)'
  BY <1>3, <1>4 DEF ClientFits, EnrolledNamed
<1>8. NamedEnrolled(t)'
  BY <1>3, <1>4 DEF ClientFits, NamedEnrolled
<1>9. LoginFits(t)' /\ SwitchFits(t)'
  BY <1>2, <1>3, StepsApart DEF ClientFits, LoginFits, SwitchFits
<1> QED BY <1>3, <1>5, <1>6, <1>7, <1>8, <1>9 DEF ClientFits

LEMMA FitsAdd ==
  ASSUME NEW t \in Shells, ClientFits(t), AddRemote(t)
  PROVE  ClientFits(t)'
<1>1. ClientTypeOK
  BY DEF ClientFits
<1>2. PICK r : r = shell[t].r
  OBVIOUS
<1>3. /\ ClientTypeOK' /\ shell[t] # NoRemote /\ shell[t].at = "add" /\ UNCHANGED <<cfgFile, dirFile>>
      /\ r \notin incusCfg.names /\ incusCfg'.names = incusCfg.names \cup {r}
      /\ shell'[t] # NoRemote /\ shell'[t].at = "defaults" /\ shell'[t].r = r
  BY <1>1, <1>2, AddFacts
<1>4. \A x : (InLogin(t, x) => InLogin(t, x)') /\ (Enrolled(x)' <=> Enrolled(x))
  BY <1>2, <1>3, StepsApart DEF InLogin, Enrolled
<1>5. RecordsFit(t)'
  BY <1>3, <1>4, RecordsKept DEF ClientFits
<1>6. ActiveFits(t)' /\ ActiveEnrolled' /\ DirFits'
  BY <1>3, <1>4, KnownKept DEF ClientFits, ActiveFits, ActiveEnrolled, DirFits
<1>7. EnrolledNamed(t)'
  BY <1>2, <1>3, <1>4 DEF ClientFits, EnrolledNamed
<1>8. NamedEnrolled(t)'
  BY <1>3, <1>4 DEF ClientFits, NamedEnrolled
<1>9. LoginFits(t)' /\ SwitchFits(t)'
  BY <1>2, <1>3, StepsApart DEF ClientFits, LoginFits, SwitchFits
<1> QED BY <1>3, <1>5, <1>6, <1>7, <1>8, <1>9 DEF ClientFits

LEMMA FitsDefaults ==
  ASSUME NEW t \in Shells, ClientFits(t), SaveRemoteDefaults(t)
  PROVE  ClientFits(t)'
<1>1. ClientTypeOK
  BY DEF ClientFits
<1>2. PICK r, F : r = shell[t].r /\ F = cfgFile
  OBVIOUS
<1>3. /\ ClientTypeOK' /\ shell[t] # NoRemote /\ shell[t].at = "defaults" /\ UNCHANGED <<incusCfg, dirFile>>
      /\ cfgFile'.remote = r /\ cfgFile'.host = F.host /\ cfgFile'.token = F.token
      /\ cfgFile'.installs = F.installs /\ cfgFile'.tokens = F.tokens
      /\ cfgFile'.rtokens = F.rtokens /\ cfgFile'.rtenants = F.rtenants
      /\ shell'[t] # NoRemote /\ shell'[t].at = "record" /\ shell'[t].r = r
  BY <1>1, <1>2, DefaultsFacts
<1>4. \A x : (InLogin(t, x) => InLogin(t, x)') /\ (Enrolled(x)' <=> Enrolled(x))
  BY <1>2, <1>3, StepsApart DEF InLogin, Enrolled
<1>5. RecordsFit(t)'
  BY <1>2, <1>3, <1>4, RecordsKept DEF ClientFits
<1>6. r \in OwnRemotes /\ r \in incusCfg.names
  BY <1>2, <1>3, StepsApart DEF ClientFits, LoginFits
<1>7. ActiveFits(t)' /\ ActiveEnrolled' /\ DirFits'
  BY <1>2, <1>3, <1>4, <1>6, KnownKept DEF ClientFits, ActiveFits, ActiveEnrolled, DirFits, OwnRemotes
<1>8. EnrolledNamed(t)' /\ NamedEnrolled(t)'
  BY <1>2, <1>3, <1>4 DEF ClientFits, EnrolledNamed, NamedEnrolled
<1>9. LoginFits(t)' /\ SwitchFits(t)'
  BY <1>2, <1>3, <1>6, StepsApart DEF ClientFits, LoginFits, SwitchFits
<1> QED BY <1>3, <1>5, <1>7, <1>8, <1>9 DEF ClientFits

LEMMA FitsRecord ==
  ASSUME NEW t \in Shells, ClientFits(t), RecordInstall(t)
  PROVE  ClientFits(t)'
<1>1. ClientTypeOK
  BY DEF ClientFits
<1>2. PICK r, F, h : r = shell[t].r /\ F = cfgFile /\ h = HostOf[r]
  OBVIOUS
<1>3. /\ ClientTypeOK' /\ shell[t] # NoRemote /\ shell[t].at = "record" /\ UNCHANGED <<incusCfg, dirFile>>
      /\ cfgFile' = File(F.remote, F.tenant, F.host, F.token, F.broker, [F.installs EXCEPT ![r] = h],
                         F.tokens, F.brokers, F.rtokens, F.rbrokers, F.rtenants)
      /\ shell'[t] = NoRemote
  BY <1>1, <1>2, RecordFacts
<1>4. /\ r \in OwnRemotes /\ r \in Remotes /\ r \in incusCfg.names /\ h # NoRemote
      /\ F.rtokens[r] = r /\ F.rtenants[r] = TenantOf[r]
  BY <1>2, <1>3, StepsApart, ClientValues, ClientAssumption DEF ClientFits, LoginFits, ClientAssumption
<1>5. /\ cfgFile'.installs = [F.installs EXCEPT ![r] = h] /\ cfgFile'.remote = F.remote
      /\ cfgFile'.host = F.host /\ cfgFile'.token = F.token
      /\ cfgFile'.tokens = F.tokens /\ cfgFile'.rtokens = F.rtokens /\ cfgFile'.rtenants = F.rtenants
  BY <1>3 DEF File
<1>6. F.installs \in [Remotes -> HostVals]
  BY <1>1, <1>2, FileFields DEF ClientTypeOK
<1>7. /\ \A x \in Remotes : cfgFile'.installs[x] = IF x = r THEN h ELSE F.installs[x]
      /\ \A x \in Remotes : Enrolled(x)' <=> Enrolled(x) \/ x = r
      /\ \A x : InLogin(t, x) => x = r
      /\ \A x : ~InLogin(t, x)'
  <2>1. \A x \in Remotes : cfgFile'.installs[x] = IF x = r THEN h ELSE F.installs[x]
    BY <1>5, <1>6
  <2>2. \A x \in Remotes : Enrolled(x)' <=> Enrolled(x) \/ x = r
    BY <1>2, <1>4, <2>1 DEF Enrolled
  <2>3. \A x : (InLogin(t, x) => x = r) /\ ~InLogin(t, x)'
    BY <1>2, <1>3 DEF InLogin
  <2> QED BY <2>1, <2>2, <2>3
<1>8. \A x : Known(t, x) => Known(t, x)'
  BY <1>4, <1>7, ClientValues DEF Known
<1>9. RecordsFit(t)'
  <2>1. InstallsFit'
    BY <1>2, <1>7 DEF ClientFits, RecordsFit, InstallsFit
  <2>2. TokensFit(t)' /\ RemoteTokensFit(t)'
    BY <1>2, <1>5, <1>8 DEF ClientFits, RecordsFit, TokensFit, RemoteTokensFit
  <2>3. OwnRecordsFit'
    BY <1>2, <1>4, <1>5, <1>7, ClientValues DEF ClientFits, RecordsFit, OwnRecordsFit, AllEnrolled
  <2>4. TenantsFit(t)'
    BY <1>2, <1>5, <1>7 DEF ClientFits, RecordsFit, TenantsFit
  <2> QED BY <2>1, <2>2, <2>3, <2>4 DEF RecordsFit
<1>10. ActiveFits(t)'
  BY <1>2, <1>5, <1>8 DEF ClientFits, ActiveFits
<1>11. ActiveEnrolled'
  BY <1>2, <1>5, <1>7, ClientValues DEF ClientFits, ActiveEnrolled
<1>12. DirFits'
  <2>1. dirFile # NoRemote => dirFile.remote \in Remotes
    BY <1>1 DEF ClientTypeOK
  <2> QED BY <1>3, <1>7, <2>1 DEF ClientFits, DirFits
<1>13. EnrolledNamed(t)'
  BY <1>3, <1>4, <1>7 DEF ClientFits, EnrolledNamed
<1>14. NamedEnrolled(t)'
  BY <1>1, <1>2, <1>3, <1>7 DEF ClientFits, NamedEnrolled, ClientTypeOK
<1>15. LoginFits(t)' /\ SwitchFits(t)'
  BY <1>3 DEF LoginFits, SwitchFits
<1> QED BY <1>3, <1>9, <1>10, <1>11, <1>12, <1>13, <1>14, <1>15 DEF ClientFits

LEMMA FitsSet ==
  ASSUME NEW t \in Shells, ClientFits(t), NEW r \in Remotes, ConfigSetRemote(t, r),
         r \in SharedRemotes => r \in incusCfg.names
  PROVE  ClientFits(t)'
<1>1. ClientTypeOK /\ cfgFile \in Files
  BY DEF ClientFits, ClientTypeOK
<1>2. PICK G : G = SelectRemote(cfgFile, r)
  OBVIOUS
<1>3. /\ ClientTypeOK' /\ shell[t] = NoRemote /\ UNCHANGED <<dirFile, shell>>
      /\ cfgFile' = G /\ incusCfg'.names = incusCfg.names
  BY <1>1, <1>2, SetFacts
<1>4. /\ G.installs = cfgFile.installs /\ G.tokens = cfgFile.tokens /\ G.rtokens = cfgFile.rtokens
      /\ G.rtenants = cfgFile.rtenants /\ G.remote = r
  BY <1>1, <1>2, SelectFields
<1>5. G.token # NoRemote => Known(t, G.token) /\ HostOf[G.token] = G.host
  BY <1>2, SelectedToken DEF ClientFits
<1>6. \A x : (InLogin(t, x) <=> InLogin(t, x)') /\ (Enrolled(x)' <=> Enrolled(x))
  BY <1>3, <1>4 DEF InLogin, Enrolled
<1>7. RecordsFit(t)'
  BY <1>3, <1>4, <1>6, RecordsKept DEF ClientFits
<1>8. ActiveFits(t)'
  BY <1>3, <1>5, <1>6, KnownKept DEF ActiveFits
<1>9. ActiveEnrolled'
  BY <1>3, <1>4, <1>6, AtRest DEF ActiveEnrolled
<1>10. DirFits' /\ EnrolledNamed(t)' /\ NamedEnrolled(t)'
  BY <1>3, <1>6 DEF ClientFits, DirFits, EnrolledNamed, NamedEnrolled
<1>11. LoginFits(t)' /\ SwitchFits(t)'
  BY <1>3 DEF LoginFits, SwitchFits
<1> QED BY <1>3, <1>7, <1>8, <1>9, <1>10, <1>11 DEF ClientFits

LEMMA FitsSwitch ==
  ASSUME NEW t \in Shells, ClientFits(t), NEW r \in Remotes, RemoteSwitch(t, r)
  PROVE  ClientFits(t)'
<1>1. /\ ClientTypeOK' /\ shell[t] = NoRemote /\ UNCHANGED <<cfgFile, incusCfg, shell>>
      /\ r \in incusCfg.names
      /\ dirFile' # NoRemote => dirFile'.remote = r
  BY SwitchFacts DEF ClientFits
<1>2. \A x : (InLogin(t, x) <=> InLogin(t, x)') /\ (Enrolled(x)' <=> Enrolled(x)) /\ (Known(t, x)' <=> Known(t, x))
  BY <1>1 DEF InLogin, Enrolled, Known
<1>3. RecordsFit(t)'
  BY <1>1, <1>2, RecordsKept DEF ClientFits
<1>4. ActiveFits(t)' /\ ActiveEnrolled'
  BY <1>1, <1>2 DEF ClientFits, ActiveFits, ActiveEnrolled
<1>5. DirFits'
  BY <1>1, <1>2, AtRest DEF ClientFits, DirFits
<1>6. EnrolledNamed(t)' /\ NamedEnrolled(t)'
  BY <1>1, <1>2 DEF ClientFits, EnrolledNamed, NamedEnrolled
<1>7. LoginFits(t)' /\ SwitchFits(t)'
  BY <1>1 DEF LoginFits, SwitchFits
<1> QED BY <1>1, <1>3, <1>4, <1>5, <1>6, <1>7 DEF ClientFits

LEMMA FitsLoad ==
  ASSUME NEW t \in Shells, ClientFits(t), NEW r \in Remotes, TenantSwitchLoad(t, r)
  PROVE  ClientFits(t)'
<1>1. ClientTypeOK
  BY DEF ClientFits
<1>2. PICK k : k = Resolved.token
  OBVIOUS
<1>3. /\ ClientTypeOK' /\ shell[t] = NoRemote /\ UNCHANGED <<cfgFile, incusCfg, dirFile>>
      /\ k # NoRemote
      /\ shell'[t] # NoRemote /\ Serves(shell'[t].r, k)
      /\ shell'[t].at = (IF shell'[t].r \in SharedRemotes THEN "join" ELSE "own")
      /\ shell'[t].mem.file = cfgFile /\ shell'[t].mem.token = k
      /\ shell'[t].mem.host = HostOf[k]
  BY <1>1, <1>2, LoadFacts
<1>4. Known(t, k)
  BY <1>2, <1>3, ResolvedFits
<1>5. \A x : ~InLogin(t, x) /\ (Enrolled(x)' <=> Enrolled(x))
  BY <1>3, AtRest DEF Enrolled
<1>6. \A x : Known(t, x) => Known(t, x)'
  BY <1>5 DEF Known
<1>7. RecordsFit(t)'
  BY <1>3, <1>5, RecordsKept DEF ClientFits
<1>8. ActiveFits(t)' /\ ActiveEnrolled' /\ DirFits'
  BY <1>3, <1>5, <1>6 DEF ClientFits, ActiveFits, ActiveEnrolled, DirFits
<1>9. EnrolledNamed(t)' /\ NamedEnrolled(t)'
  BY <1>1, <1>3, <1>5, AtRest DEF EnrolledNamed, NamedEnrolled, ClientTypeOK
<1>10. shell'[t].at \in SwitchSteps
  BY <1>3, StepsApart
<1>11. LoginFits(t)'
  BY <1>10, StepsApart DEF LoginFits
<1>12. SwitchFits(t)'
  BY <1>3, <1>4, <1>6 DEF SwitchFits
<1> QED BY <1>3, <1>7, <1>8, <1>9, <1>11, <1>12 DEF ClientFits

LEMMA FitsJoin ==
  ASSUME NEW t \in Shells, ClientFits(t), TenantSwitchJoin(t)
  PROVE  ClientFits(t)'
<1>1. ClientTypeOK
  BY DEF ClientFits
<1>2. PICK r, F, k, h : r = shell[t].r /\ F = cfgFile /\ k = shell[t].mem.token /\ h = shell[t].mem.host
  OBVIOUS
<1>3. shell[t] # NoRemote /\ shell[t].at = "join"
  BY DEF TenantSwitchJoin, ShellAt
<1>4. /\ shell[t].mem.file = F /\ Known(t, k) /\ Serves(r, k) /\ h = HostOf[k]
      /\ r \in SharedRemotes
  BY <1>2, <1>3, StepsApart DEF ClientFits, SwitchFits
<1>5. /\ ClientTypeOK' /\ r \in Remotes
      /\ cfgFile'.remote = r /\ cfgFile'.host = F.host /\ cfgFile'.token = F.token
      /\ cfgFile'.installs = [F.installs EXCEPT ![r] = h]
      /\ cfgFile'.tokens = F.tokens
      /\ cfgFile'.rtokens = [F.rtokens EXCEPT ![r] = k]
      /\ cfgFile'.rtenants = [F.rtenants EXCEPT ![r] = TenantOf[r]]
      /\ incusCfg'.names = incusCfg.names \cup {r}
      /\ dirFile' # NoRemote => dirFile'.remote = r
      /\ shell'[t] = NoRemote
  BY <1>1, <1>2, <1>4, JoinFacts
<1>6. h = HostOf[r] /\ h # NoRemote
  BY <1>4, <1>5, ServedHere, ClientAssumption DEF ClientAssumption
<1>7. F.installs \in [Remotes -> HostVals] /\ F.rtokens \in [Remotes -> Values] /\ F.rtenants \in [Remotes -> TenantVals]
  BY <1>1, <1>2, FileFields DEF ClientTypeOK
<1>8. \A x \in Remotes : /\ cfgFile'.installs[x] = IF x = r THEN h ELSE F.installs[x]
                         /\ cfgFile'.rtokens[x] = IF x = r THEN k ELSE F.rtokens[x]
                         /\ cfgFile'.rtenants[x] = IF x = r THEN TenantOf[x] ELSE F.rtenants[x]
  BY <1>5, <1>7
<1>9. \A x \in Remotes : Enrolled(x)' <=> Enrolled(x) \/ x = r
  BY <1>2, <1>6, <1>8 DEF Enrolled
<1>10. \A x : ~InLogin(t, x) /\ ~InLogin(t, x)'
  BY <1>3, <1>5, StepsApart DEF InLogin
<1>11. \A x : Known(t, x) => Known(t, x)'
  BY <1>9, <1>10, ClientValues DEF Known
<1>12. RecordsFit(t)'
  <2>1. InstallsFit'
    BY <1>2, <1>6, <1>8 DEF ClientFits, RecordsFit, InstallsFit
  <2>2. TokensFit(t)'
    BY <1>2, <1>5, <1>11 DEF ClientFits, RecordsFit, TokensFit
  <2>3. RemoteTokensFit(t)'
    BY <1>2, <1>4, <1>8, <1>11 DEF ClientFits, RecordsFit, RemoteTokensFit
  <2>4. r \notin OwnRemotes
    BY <1>4 DEF OwnRemotes
  <2>5. OwnRecordsFit'
    BY <1>2, <1>8, <1>9, <2>4, ClientValues DEF ClientFits, RecordsFit, OwnRecordsFit, AllEnrolled
  <2>6. TenantsFit(t)'
    BY <1>2, <1>8, <1>9, <1>10 DEF ClientFits, RecordsFit, TenantsFit
  <2> QED BY <2>1, <2>2, <2>3, <2>5, <2>6 DEF RecordsFit
<1>13. ActiveFits(t)'
  BY <1>2, <1>5, <1>11 DEF ClientFits, ActiveFits
<1>14. ActiveEnrolled' /\ DirFits'
  BY <1>5, <1>9 DEF ActiveEnrolled, DirFits
<1>15. EnrolledNamed(t)'
  BY <1>3, <1>5, <1>9 DEF ClientFits, EnrolledNamed
<1>16. NamedEnrolled(t)'
  BY <1>1, <1>3, <1>5, <1>9 DEF ClientFits, NamedEnrolled, ClientTypeOK
<1>17. LoginFits(t)' /\ SwitchFits(t)'
  BY <1>5 DEF LoginFits, SwitchFits
<1> QED BY <1>5, <1>12, <1>13, <1>14, <1>15, <1>16, <1>17 DEF ClientFits

LEMMA FitsOwn ==
  ASSUME NEW t \in Shells, ClientFits(t), TenantSwitchOwn(t)
  PROVE  ClientFits(t)'
<1>1. ClientTypeOK
  BY DEF ClientFits
<1>2. PICK r, F, k : r = shell[t].r /\ F = cfgFile /\ k = shell[t].mem.token
  OBVIOUS
<1>3. shell[t] # NoRemote /\ shell[t].at = "own"
  BY DEF TenantSwitchOwn, ShellAt
<1>4. shell[t].mem.file = F /\ Known(t, k) /\ Serves(r, k) /\ r \notin SharedRemotes
  BY <1>2, <1>3, StepsApart DEF ClientFits, SwitchFits
<1>5. /\ ClientTypeOK' /\ r \in Remotes /\ incusCfg'.names = incusCfg.names /\ shell'[t] = NoRemote
      /\ cfgFile'.installs = F.installs /\ cfgFile'.tokens = F.tokens /\ cfgFile'.rtokens = F.rtokens
      /\ cfgFile'.rtenants = F.rtenants
      /\ \E x \in RemoteForTenant(F, TenantOf[r]) :
           \/ /\ x \in {NoRemote, F.remote} /\ F.remote # NoRemote
              /\ cfgFile'.remote = F.remote /\ cfgFile'.host = F.host /\ cfgFile'.token = F.token
              /\ dirFile'.remote = F.remote
           \/ /\ x \in {NoRemote, F.remote} /\ F.remote = NoRemote
              /\ cfgFile'.remote = F.remote /\ cfgFile'.host = F.host /\ cfgFile'.token = F.token
              /\ dirFile' = dirFile
           \/ /\ x \in Remotes
              /\ cfgFile'.remote = x /\ cfgFile'.host = SelectRemote(F, x).host /\ cfgFile'.token = SelectRemote(F, x).token
              /\ dirFile'.remote = x
  BY <1>1, <1>2, <1>4, OwnFacts
<1>6. \A x : (Enrolled(x)' <=> Enrolled(x)) /\ ~InLogin(t, x) /\ ~InLogin(t, x)'
  BY <1>2, <1>3, <1>5, StepsApart DEF Enrolled, InLogin
<1>7. \A x : Known(t, x)' <=> Known(t, x)
  BY <1>6 DEF Known
<1>8. r = k /\ r \in OwnRemotes /\ Enrolled(r)
  BY <1>4, <1>6 DEF Serves, Known
<1>9. F \in Files /\ (F.remote # NoRemote => F.remote \in Remotes) /\ TenantOf[r] # NoRemote
  BY <1>1, <1>2, <1>5, FileFields, ClientValues, ClientAssumption DEF ClientTypeOK, ClientAssumption
<1>10. \A x \in RemoteForTenant(F, TenantOf[r]) :
         \/ x \in Remotes /\ Enrolled(x)
         \/ x = NoRemote /\ AllEnrolled
  <2> SUFFICES ASSUME NEW x \in RemoteForTenant(F, TenantOf[r])
               PROVE  (x \in Remotes /\ Enrolled(x)) \/ (x = NoRemote /\ AllEnrolled)
    OBVIOUS
  <2>1. CASE {y \in Remotes : F.rtenants[y] = TenantOf[r]} = {}
    <3>1. x = NoRemote
      BY <2>1 DEF RemoteForTenant
    <3>2. F.rtenants[r] # TenantOf[r]
      BY <1>5, <2>1
    <3> QED BY <1>2, <1>8, <3>1, <3>2 DEF ClientFits, RecordsFit, OwnRecordsFit
  <2>2. CASE {y \in Remotes : F.rtenants[y] = TenantOf[r]} # {}
    <3>1. x \in Remotes /\ F.rtenants[x] = TenantOf[r]
      BY <2>2 DEF RemoteForTenant
    <3> QED BY <1>2, <1>6, <1>9, <3>1 DEF ClientFits, RecordsFit, TenantsFit
  <2> QED BY <2>1, <2>2
<1>11. AllEnrolled /\ F.remote # NoRemote => Enrolled(F.remote)
  BY <1>2, <1>9 DEF ClientFits, ActiveEnrolled, AllEnrolled, OwnRemotes
<1>12. RecordsFit(t)'
  BY <1>2, <1>5, <1>6, RecordsKept DEF ClientFits
<1>13. ActiveFits(t) /\ ActiveEnrolled /\ DirFits
  BY DEF ClientFits
<1>14. (ActiveFits(t) /\ ActiveEnrolled /\ DirFits)'
  <2>1. PICK x \in RemoteForTenant(F, TenantOf[r]) :
           \/ /\ x \in {NoRemote, F.remote} /\ F.remote # NoRemote
              /\ cfgFile'.remote = F.remote /\ cfgFile'.host = F.host /\ cfgFile'.token = F.token
              /\ dirFile'.remote = F.remote
           \/ /\ x \in {NoRemote, F.remote} /\ F.remote = NoRemote
              /\ cfgFile'.remote = F.remote /\ cfgFile'.host = F.host /\ cfgFile'.token = F.token
              /\ dirFile' = dirFile
           \/ /\ x \in Remotes
              /\ cfgFile'.remote = x /\ cfgFile'.host = SelectRemote(F, x).host /\ cfgFile'.token = SelectRemote(F, x).token
              /\ dirFile'.remote = x
    BY <1>5
  <2>2. (x \in Remotes /\ Enrolled(x)) \/ (x = NoRemote /\ AllEnrolled)
    BY <1>10
  <2>3. CASE /\ x \in {NoRemote, F.remote} /\ F.remote # NoRemote
             /\ cfgFile'.remote = F.remote /\ cfgFile'.host = F.host /\ cfgFile'.token = F.token
             /\ dirFile'.remote = F.remote
    <3>1. Enrolled(F.remote)
      BY <1>11, <2>2, <2>3, ClientAssumption DEF ClientAssumption
    <3> QED BY <1>2, <1>6, <1>7, <1>13, <2>3, <3>1 DEF ActiveFits, ActiveEnrolled, DirFits
  <2>4. CASE /\ x \in {NoRemote, F.remote} /\ F.remote = NoRemote
             /\ cfgFile'.remote = F.remote /\ cfgFile'.host = F.host /\ cfgFile'.token = F.token
             /\ dirFile' = dirFile
    BY <1>2, <1>6, <1>7, <1>13, <2>4 DEF ActiveFits, ActiveEnrolled, DirFits
  <2>5. CASE /\ x \in Remotes
             /\ cfgFile'.remote = x /\ cfgFile'.host = SelectRemote(F, x).host /\ cfgFile'.token = SelectRemote(F, x).token
             /\ dirFile'.remote = x
    <3>1. PICK G : G = SelectRemote(F, x)
      OBVIOUS
    <3>2. G.token # NoRemote => Known(t, G.token) /\ HostOf[G.token] = G.host
      BY <1>1, <1>2, <2>5, <3>1, SelectedToken DEF ClientFits
    <3>3. Enrolled(x)
      BY <2>2, <2>5, ClientAssumption DEF ClientAssumption
    <3> QED BY <1>6, <1>7, <2>5, <3>1, <3>2, <3>3 DEF ActiveFits, ActiveEnrolled, DirFits
  <2> QED BY <2>1, <2>3, <2>4, <2>5
<1>15. EnrolledNamed(t)' /\ NamedEnrolled(t)'
  BY <1>3, <1>5, <1>6 DEF ClientFits, EnrolledNamed, NamedEnrolled
<1>16. LoginFits(t)' /\ SwitchFits(t)'
  BY <1>5 DEF LoginFits, SwitchFits
<1> QED BY <1>5, <1>12, <1>14, <1>15, <1>16 DEF ClientFits

\* A login that is reused is that of the one remote enrolled at its install,
\* and selects that remote's own tenant or none.
LEMMA ReusedIsOwn ==
  ASSUME NEW t, ClientFits(t), shell[t] = NoRemote, NEW r \in Remotes,
         \A x, y \in Remotes : Enrolled(x) /\ Enrolled(y) /\ HostOf[x] = HostOf[r] /\ HostOf[y] = HostOf[r] => x = y,
         \A x \in SharedRemotes : TenantOf[x] # Resolved.tenant,
         cfgFile.remote \in incusCfg.names => HostOf[cfgFile.remote] = cfgFile.host,
         NEW f \in Remotes, NEW k \in Remotes, NEW tn, Reuses(r, f, k, tn)
  PROVE  /\ f = k /\ k \in OwnRemotes /\ Enrolled(k) /\ HostOf[k] = HostOf[r]
         /\ tn \in {NoRemote, TenantOf[k]}
<1>1. PICK h : h = HostOf[r]
  OBVIOUS
<1>2. ClientTypeOK /\ h \in Installs /\ k # NoRemote
  BY <1>1, ClientValues, ClientAssumption DEF ClientFits, ClientAssumption
<1>3. k = ReusableToken(h) /\ f \in ReusableRemotes(h) /\ f \in incusCfg.names /\ tn = AdoptedTenant(k)
  BY <1>1 DEF Reuses
<1>4. Known(t, k) /\ HostOf[k] = h
  <2>1. CASE Resolved.host = h /\ Resolved.token # NoRemote
    BY <1>3, <2>1, ResolvedFits DEF ReusableToken
  <2>2. CASE ~(Resolved.host = h /\ Resolved.token # NoRemote)
    <3>1. k = cfgFile.tokens[h]
      BY <1>3, <2>2 DEF ReusableToken
    <3> QED BY <1>2, <3>1 DEF ClientFits, RecordsFit, TokensFit
  <2> QED BY <2>1, <2>2
<1>5. k \in OwnRemotes /\ Enrolled(k) /\ Enrolled(f)
  BY <1>3, <1>4, AtRest
<1>6. HostOf[f] = h
  <2>1. CASE Resolved.host = h /\ Resolved.remote # NoRemote
    <3>1. f = Resolved.remote
      BY <1>3, <2>1 DEF ReusableRemotes
    <3>2. Resolved.host = HostOf[f] \/ (f = cfgFile.remote /\ Resolved.host = cfgFile.host)
      BY <1>5, <3>1, ResolvedFits
    <3> QED BY <1>3, <2>1, <3>2
  <2>2. CASE ~(Resolved.host = h /\ Resolved.remote # NoRemote)
    <3>1. cfgFile.installs[f] = h
      BY <1>3, <2>2 DEF ReusableRemotes
    <3> QED BY <1>5, <3>1 DEF ClientFits, RecordsFit, InstallsFit, Enrolled
  <2> QED BY <2>1, <2>2
<1>7. f = k
  BY <1>1, <1>4, <1>5, <1>6
<1>8. TenantOf[k] \in TenantsListed(k)
  BY DEF TenantsListed, Serves
<1>9. tn \in {NoRemote, TenantOf[k]}
  <2>1. CASE Resolved.tenant \in TenantsListed(k)
    <3>1. tn = Resolved.tenant
      BY <1>3, <2>1 DEF AdoptedTenant
    <3>2. PICK x \in Remotes : Resolved.tenant = TenantOf[x] /\ Serves(x, k)
      BY <2>1 DEF TenantsListed
    <3>3. x \notin SharedRemotes
      BY <3>2
    <3> QED BY <3>1, <3>2, <3>3 DEF Serves
  <2>2. CASE Resolved.tenant \notin TenantsListed(k) /\ \E x \in TenantsListed(k) : TenantsListed(k) = {x}
    <3>1. tn = CHOOSE x \in TenantsListed(k) : TRUE
      BY <1>3, <2>2 DEF AdoptedTenant
    <3>2. PICK x : TenantsListed(k) = {x}
      BY <2>2
    <3>3. (CHOOSE y \in TenantsListed(k) : TRUE) \in TenantsListed(k)
      BY <1>8, Zenon
    <3> QED BY <1>8, <3>1, <3>2, <3>3
  <2>3. CASE Resolved.tenant \notin TenantsListed(k) /\ ~(\E x \in TenantsListed(k) : TenantsListed(k) = {x})
    BY <1>3, <2>3 DEF AdoptedTenant
  <2> QED BY <2>1, <2>2, <2>3
<1> QED BY <1>1, <1>4, <1>5, <1>7, <1>9

LEMMA FitsReuse ==
  ASSUME NEW t \in Shells, ClientFits(t), NEW r \in Remotes, TryExistingLogin(t, r),
         \A x, y \in Remotes : Enrolled(x) /\ Enrolled(y) /\ HostOf[x] = HostOf[r] /\ HostOf[y] = HostOf[r] => x = y,
         \A x \in SharedRemotes : TenantOf[x] # Resolved.tenant,
         cfgFile.remote \in incusCfg.names => HostOf[cfgFile.remote] = cfgFile.host
  PROVE  ClientFits(t)'
<1>1. ClientTypeOK
  BY DEF ClientFits
<1>2. PICK F, h : F = cfgFile /\ h = HostOf[r]
  OBVIOUS
<1>3. /\ ClientTypeOK' /\ shell[t] = NoRemote /\ UNCHANGED <<dirFile, shell>> /\ incusCfg'.names = incusCfg.names
      /\ \E f \in Remotes, k \in Remotes, tn \in TenantVals : Reuses(r, f, k, tn)
  BY <1>1, ReuseFacts
<1>4. PICK f \in Remotes, k \in Remotes, tn \in TenantVals : Reuses(r, f, k, tn)
  BY <1>3
<1>5. f = k /\ k \in OwnRemotes /\ Enrolled(k) /\ HostOf[k] = h /\ tn \in {NoRemote, TenantOf[k]}
  BY <1>2, <1>3, <1>4, ReusedIsOwn
<1>6. /\ cfgFile'.host = h /\ cfgFile'.remote = k /\ cfgFile'.token = k
      /\ cfgFile'.tokens = [F.tokens EXCEPT ![h] = k] /\ cfgFile'.rtokens = [F.rtokens EXCEPT ![k] = k]
      /\ cfgFile'.installs = [F.installs EXCEPT ![k] = h]
      /\ cfgFile'.rtenants = [F.rtenants EXCEPT ![k] = IF tn # NoRemote THEN tn ELSE F.rtenants[k]]
  BY <1>2, <1>4, <1>5 DEF Reuses
<1>7. /\ F.installs \in [Remotes -> HostVals] /\ F.tokens \in [Installs -> Values] /\ F.rtokens \in [Remotes -> Values]
      /\ F.rtenants \in [Remotes -> TenantVals] /\ h \in Installs
  BY <1>1, <1>2, FileFields, ClientValues DEF ClientTypeOK
<1>8. F.installs[k] = h
  BY <1>2, <1>5 DEF ClientFits, RecordsFit, InstallsFit, Enrolled
<1>9. cfgFile'.installs = F.installs
  BY <1>6, <1>7, <1>8
<1>10. \A x : (Enrolled(x)' <=> Enrolled(x)) /\ ~InLogin(t, x) /\ ~InLogin(t, x)'
  BY <1>2, <1>3, <1>9 DEF Enrolled, InLogin
<1>11. (\A x : Known(t, x)' <=> Known(t, x)) /\ Known(t, k)
  BY <1>5, <1>10 DEF Known
<1>12. \A x \in Remotes : cfgFile'.rtokens[x] = IF x = k THEN k ELSE F.rtokens[x]
  BY <1>6, <1>7
<1>13. \A x \in Remotes : cfgFile'.rtenants[x] = F.rtenants[x] \/ (x = k /\ cfgFile'.rtenants[x] = TenantOf[k])
  BY <1>5, <1>6, <1>7
<1>14. \A x \in Installs : cfgFile'.tokens[x] = IF x = h THEN k ELSE F.tokens[x]
  BY <1>6, <1>7
<1>15. RecordsFit(t)'
  <2>1. InstallsFit'
    BY <1>2, <1>9 DEF ClientFits, RecordsFit, InstallsFit
  <2>2. TokensFit(t)'
    BY <1>2, <1>5, <1>11, <1>14 DEF ClientFits, RecordsFit, TokensFit
  <2>3. RemoteTokensFit(t)'
    BY <1>2, <1>11, <1>12 DEF ClientFits, RecordsFit, RemoteTokensFit, Serves
  <2>4. OwnRecordsFit'
    BY <1>2, <1>10, <1>12, <1>13, ClientValues DEF ClientFits, RecordsFit, OwnRecordsFit, AllEnrolled
  <2>5. TenantsFit(t)'
    BY <1>2, <1>5, <1>10, <1>13 DEF ClientFits, RecordsFit, TenantsFit
  <2> QED BY <2>1, <2>2, <2>3, <2>4, <2>5 DEF RecordsFit
<1>16. ActiveFits(t)' /\ ActiveEnrolled'
  BY <1>5, <1>6, <1>10, <1>11 DEF ActiveFits, ActiveEnrolled
<1>17. DirFits' /\ EnrolledNamed(t)' /\ NamedEnrolled(t)'
  BY <1>3, <1>10 DEF ClientFits, DirFits, EnrolledNamed, NamedEnrolled
<1>18. LoginFits(t)' /\ SwitchFits(t)'
  BY <1>3 DEF LoginFits, SwitchFits
<1> QED BY <1>3, <1>15, <1>16, <1>17, <1>18 DEF ClientFits

LEMMA FitsRestore ==
  ASSUME NEW t \in Shells, ClientFits(t), RestoreBackup(t), Enrolled(shell[t].r)
  PROVE  ClientFits(t)'
<1>1. ClientTypeOK
  BY DEF ClientFits
<1>2. PICK r : r = shell[t].r
  OBVIOUS
<1>3. /\ ClientTypeOK' /\ shell[t] # NoRemote /\ shell[t].at = "add" /\ UNCHANGED <<cfgFile, dirFile>>
      /\ shell[t].mem = TRUE /\ r \in incusCfg.backups => incusCfg'.names = incusCfg.names \cup {r}
      /\ incusCfg'.names \in {incusCfg.names, incusCfg.names \cup {r}}
      /\ shell'[t] = NoRemote
  BY <1>1, <1>2, RestoreFacts
<1>4. \A x : (Enrolled(x)' <=> Enrolled(x)) /\ (InLogin(t, x) => Enrolled(x))
  BY <1>2, <1>3 DEF Enrolled, InLogin
<1>5. RecordsFit(t)'
  BY <1>3, <1>4, RecordsKept DEF ClientFits
<1>6. ActiveFits(t)' /\ ActiveEnrolled' /\ DirFits'
  BY <1>3, <1>4, KnownKept DEF ClientFits, ActiveFits, ActiveEnrolled, DirFits
<1>7. EnrolledNamed(t)'
  BY <1>2, <1>3, <1>4 DEF ClientFits, EnrolledNamed
<1>8. NamedEnrolled(t)'
  BY <1>2, <1>3, <1>4 DEF ClientFits, NamedEnrolled
<1>9. LoginFits(t)' /\ SwitchFits(t)'
  BY <1>3 DEF LoginFits, SwitchFits
<1> QED BY <1>3, <1>5, <1>6, <1>7, <1>8, <1>9 DEF ClientFits

LEMMA FitsEnd ==
  ASSUME NEW t \in Shells, ClientFits(t), Interrupted(t) \/ TenantSwitchJoinFails(t),
         shell[t].at \in LoginSteps => Enrolled(shell[t].r),
         shell[t].at = "add" => shell[t].mem = FALSE
  PROVE  ClientFits(t)'
<1>1. /\ ClientTypeOK' /\ UNCHANGED <<cfgFile, incusCfg, dirFile>> /\ shell'[t] = NoRemote
      /\ shell[t] # NoRemote
  BY EndFacts DEF ClientFits
<1>2. \A x : (Enrolled(x)' <=> Enrolled(x)) /\ (InLogin(t, x) => Enrolled(x))
  BY <1>1 DEF Enrolled, InLogin
<1>3. RecordsFit(t)'
  BY <1>1, <1>2, RecordsKept DEF ClientFits
<1>4. ActiveFits(t)' /\ ActiveEnrolled' /\ DirFits'
  BY <1>1, <1>2, KnownKept DEF ClientFits, ActiveFits, ActiveEnrolled, DirFits
<1>5. EnrolledNamed(t)'
  BY <1>1, <1>2 DEF ClientFits, EnrolledNamed
<1>6. NamedEnrolled(t)'
  BY <1>1, <1>2, StepsApart DEF ClientFits, NamedEnrolled
<1>7. LoginFits(t)' /\ SwitchFits(t)'
  BY <1>1 DEF LoginFits, SwitchFits
<1> QED BY <1>1, <1>3, <1>4, <1>5, <1>6, <1>7 DEF ClientFits

LEMMA FitsInit == ASSUME NEW t \in Shells, ClientInit PROVE ClientFits(t)
<1>1. ClientTypeOK /\ dirFile = NoRemote /\ shell[t] = NoRemote
  BY ClientTypeInit DEF ClientInit
<1>2. DirFits /\ LoginFits(t) /\ SwitchFits(t)
  BY <1>1 DEF DirFits, LoginFits, SwitchFits
<1>3. CASE cfgFile = EmptyConfig /\ incusCfg = [names |-> {}, backups |-> {}, current |-> NoRemote]
  <2>1. /\ cfgFile.remote = NoRemote /\ cfgFile.token = NoRemote /\ incusCfg.names = {}
        /\ \A r \in Remotes : cfgFile.installs[r] = NoRemote /\ cfgFile.rtokens[r] = NoRemote /\ cfgFile.rtenants[r] = NoRemote
        /\ \A h \in Installs : cfgFile.tokens[h] = NoRemote
    BY <1>3 DEF EmptyConfig, Nothing
  <2>2. NoRemote \notin SharedRemotes
    BY ClientAssumption DEF ClientAssumption
  <2>3. RecordsFit(t)
    BY <2>1, ClientValues DEF RecordsFit, InstallsFit, TokensFit, RemoteTokensFit, OwnRecordsFit, TenantsFit, Enrolled
  <2>4. ActiveFits(t) /\ ActiveEnrolled /\ EnrolledNamed(t) /\ NamedEnrolled(t)
    BY <2>1, <2>2 DEF ActiveFits, ActiveEnrolled, EnrolledNamed, NamedEnrolled, Enrolled
  <2> QED BY <1>1, <1>2, <2>3, <2>4 DEF ClientFits
<1>4. ASSUME NEW last \in [Installs -> OwnRemotes], NEW active \in OwnRemotes, \A h \in Installs : HostOf[last[h]] = h,
             cfgFile = OldConfig(last, active), incusCfg = [names |-> OwnRemotes, backups |-> {}, current |-> active]
      PROVE  ClientFits(t)
  <2>1. /\ cfgFile.remote = active /\ cfgFile.host = HostOf[active] /\ cfgFile.token = last[HostOf[active]]
        /\ cfgFile.installs = OwnInstalls /\ cfgFile.tokens = last /\ cfgFile.rtokens = Nothing /\ cfgFile.rtenants = Nothing
        /\ incusCfg.names = OwnRemotes
    BY <1>4, FirstFiles
  <2>2. \A r \in Remotes : /\ cfgFile.rtokens[r] = NoRemote /\ cfgFile.rtenants[r] = NoRemote
                           /\ cfgFile.installs[r] = IF r \in OwnRemotes THEN HostOf[r] ELSE NoRemote
    BY <2>1 DEF Nothing, OwnInstalls
  <2>3. \A r \in Remotes : Enrolled(r) <=> r \in OwnRemotes
    BY <2>2, ClientAssumption DEF ClientAssumption, Enrolled
  <2>4. \A r \in OwnRemotes : Known(t, r)
    BY <2>3, ClientValues DEF Known
  <2>5. AllEnrolled
    BY <2>3, ClientValues DEF AllEnrolled
  <2>6. RecordsFit(t)
    BY <1>4, <2>1, <2>2, <2>4, <2>5, ClientValues
       DEF RecordsFit, InstallsFit, TokensFit, RemoteTokensFit, OwnRecordsFit, TenantsFit
  <2>7. ActiveFits(t)
    BY <1>4, <2>1, <2>4, ClientValues DEF ActiveFits
  <2>8. ActiveEnrolled /\ EnrolledNamed(t) /\ NamedEnrolled(t)
    BY <2>1, <2>3, ClientValues DEF ActiveEnrolled, EnrolledNamed, NamedEnrolled, OwnRemotes
  <2> QED BY <1>1, <1>2, <2>6, <2>7, <2>8 DEF ClientFits
<1> QED BY <1>3, <1>4 DEF ClientInit

\* A login is interrupted, or refused by Incus, between its token and its
\* record only for a remote that is enrolled already, and never while the old
\* one is set aside.
LoginsRecorded ==
  \A s \in Shells : shell[s] # NoRemote =>
    /\ (Interrupted(s) \/ RestoreBackup(s)) /\ shell[s].at \in LoginSteps => Enrolled(shell[s].r)
    /\ Interrupted(s) /\ shell[s].at = "add" => shell[s].mem = FALSE

\* A saved login is reused only where one remote of its install is enrolled,
\* the selected tenant is not a Shared Tenant's, and the file's active remote,
\* if Incus has it, is one of its active host.
ReusesApart ==
  \A s \in Shells, r \in Remotes : TryExistingLogin(s, r) =>
    \/ \E x \in Remotes : ConfigSetRemote(s, x)
    \/ /\ \A x, y \in Remotes : Enrolled(x) /\ Enrolled(y) /\ HostOf[x] = HostOf[r] /\ HostOf[y] = HostOf[r] => x = y
       /\ \A x \in SharedRemotes : TenantOf[x] # Resolved.tenant
       /\ cfgFile.remote \in incusCfg.names => HostOf[cfgFile.remote] = cfgFile.host

\* `sc config set remote` names a Shared Tenant's remote only once it is entered.
SharedKnown == \A s \in Shells, r \in SharedRemotes : ConfigSetRemote(s, r) => r \in incusCfg.names

ClientApart == LoginsRecorded /\ ReusesApart /\ SharedKnown

LEMMA FitsStep ==
  ASSUME NEW t, Shells = {t}, ClientFits(t), [ClientNext]_clientVars, [ClientApart]_clientVars
  PROVE  ClientFits(t)'
<1>1. CASE UNCHANGED clientVars
  <2>1. cfgFile' = cfgFile /\ incusCfg' = incusCfg /\ dirFile' = dirFile /\ shell' = shell
    BY <1>1 DEF clientVars
  <2>2. \A x : (Enrolled(x)' <=> Enrolled(x)) /\ (InLogin(t, x)' <=> InLogin(t, x)) /\ (Known(t, x)' <=> Known(t, x))
    BY <2>1 DEF Enrolled, InLogin, Known
  <2>3. RecordsFit(t)'
    BY <2>1, <2>2, RecordsKept DEF ClientFits
  <2>4. ClientTypeOK'
    BY <2>1 DEF ClientFits, ClientTypeOK
  <2>5. ActiveFits(t)' /\ ActiveEnrolled' /\ DirFits' /\ EnrolledNamed(t)' /\ NamedEnrolled(t)'
    BY <2>1, <2>2 DEF ClientFits, ActiveFits, ActiveEnrolled, DirFits, EnrolledNamed, NamedEnrolled
  <2>6. LoginFits(t)' /\ SwitchFits(t)'
    BY <2>1, <2>2 DEF ClientFits, LoginFits, SwitchFits
  <2> QED BY <2>3, <2>4, <2>5, <2>6 DEF ClientFits
<1>2. CASE ClientNext /\ ClientApart
  <2>1. t \in Shells /\ LoginsRecorded /\ ReusesApart /\ SharedKnown
    BY <1>2 DEF ClientApart
  <2>2. ASSUME NEW r \in Remotes, ConfigSetRemote(t, r) PROVE ClientFits(t)'
    BY <2>1, <2>2, FitsSet DEF SharedKnown
  <2>3. ASSUME NEW r \in Remotes, TryExistingLogin(t, r) PROVE ClientFits(t)'
    <3>1. CASE \E x \in Remotes : ConfigSetRemote(t, x)
      BY <2>2, <3>1
    <3>2. CASE ~ \E x \in Remotes : ConfigSetRemote(t, x)
      <4>1. /\ \A x, y \in Remotes : Enrolled(x) /\ Enrolled(y) /\ HostOf[x] = HostOf[r] /\ HostOf[y] = HostOf[r] => x = y
            /\ \A x \in SharedRemotes : TenantOf[x] # Resolved.tenant
            /\ cfgFile.remote \in incusCfg.names => HostOf[cfgFile.remote] = cfgFile.host
        BY <2>1, <2>3, <3>2 DEF ReusesApart
      <4> QED BY <2>1, <2>3, <4>1, FitsReuse
    <3> QED BY <3>1, <3>2
  <2>4. ASSUME NEW r \in Remotes, LoginStart(t, r) PROVE ClientFits(t)'
    BY <2>1, <2>4, FitsStart
  <2>5. ASSUME NEW r \in Remotes, RemoteSwitch(t, r) PROVE ClientFits(t)'
    BY <2>1, <2>5, FitsSwitch
  <2>6. ASSUME NEW r \in Remotes, TenantSwitchLoad(t, r) PROVE ClientFits(t)'
    BY <2>1, <2>6, FitsLoad
  <2>7. CASE RestoreBackup(t)
    <3>1. shell[t] # NoRemote /\ shell[t].at = "add" /\ "add" \in LoginSteps
      BY <2>7, StepsApart DEF RestoreBackup, ShellAt
    <3>2. Enrolled(shell[t].r)
      BY <2>1, <2>7, <3>1 DEF LoginsRecorded
    <3> QED BY <2>1, <2>7, <3>2, FitsRestore
  <2>8. CASE Interrupted(t)
    <3>1. shell[t] # NoRemote
      BY <2>8 DEF Interrupted
    <3>2. /\ shell[t].at \in LoginSteps => Enrolled(shell[t].r)
          /\ shell[t].at = "add" => shell[t].mem = FALSE
      BY <2>1, <2>8, <3>1 DEF LoginsRecorded
    <3> QED BY <2>1, <2>8, <3>2, FitsEnd
  <2>9. CASE TenantSwitchJoinFails(t)
    <3>1. shell[t].at = "join"
      BY <2>9 DEF TenantSwitchJoinFails, ShellAt
    <3>2. shell[t].at \notin LoginSteps /\ shell[t].at # "add"
      BY <3>1, StepsApart
    <3> QED BY <2>1, <2>9, <3>2, FitsEnd
  <2>10. SaveAuth(t) \/ SaveBroker(t) \/ SetAside(t) \/ AddRemote(t) => ClientFits(t)'
    BY <2>1, FitsAuth, FitsBroker, FitsAside, FitsAdd
  <2>11. SaveRemoteDefaults(t) \/ RecordInstall(t) \/ TenantSwitchJoin(t) \/ TenantSwitchOwn(t) => ClientFits(t)'
    BY <2>1, FitsDefaults, FitsRecord, FitsJoin, FitsOwn
  <2> QED BY <1>2, <2>2, <2>3, <2>4, <2>5, <2>6, <2>7, <2>8, <2>9, <2>10, <2>11 DEF ClientNext
<1> QED BY <1>1, <1>2

\* On a client with one terminal, of any remotes and installs, new or of an
\* earlier version: the remote a directory selected is sent a bearer its
\* tenant accepts, and an enrolled remote the file names is one Incus has,
\* provided no login stops between its token and its record, and saved logins
\* are reused where they are the only one.
THEOREM ClientStaysUsable ==
  ASSUME NEW t, Shells = {t}
  PROVE  ClientSpec /\ [][ClientApart]_clientVars => []ClientUsable
<1>1. ClientInit => ClientFits(t)
  BY FitsInit
<1>2. ClientFits(t) /\ [ClientNext]_clientVars /\ [ClientApart]_clientVars => ClientFits(t)'
  BY FitsStep
<1>3. ClientFits(t) => ClientUsable
  BY FittingIsUsable
<1> QED BY <1>1, <1>2, <1>3, PTL DEF ClientSpec

-----------------------------------------------------------------------------
(***************************************************************************)
(* Sandcastle paths, for every tree of names, every matching of patterns   *)
(* and any number of working directories.                                  *)
(*                                                                         *)
(* A listing, a command on machines and what a path means are computed in  *)
(* three ways: expandPath extends a set of paths segment by segment and    *)
(* lets "**" descend; expandGlobstarToMachine first puts one "*" per       *)
(* missing level where the "**" is and then matches name by name; Means    *)
(* carries the lengths a prefix of the segments can reach.  Fits says in   *)
(* closed form that the first segments, at most one of them a "**", match  *)
(* a path; each of the three is shown to agree with it.                    *)
(*                                                                         *)
(* The three are recursive functions over the length of what was typed.    *)
(* Inductive is induction over the numbers as a statement about a set,     *)
(* from a least counterexample; each recursion is first shown to have a    *)
(* function (the lemmas called ...Exists) and to unfold.                   *)
(***************************************************************************)
-----------------------------------------------------------------------------
(* Induction, and folds over a sequence                                    *)

\* A set that holds 0 and the successor of each of its numbers holds them all.
LEMMA Inductive ==
  ASSUME NEW S, 0 \in S, \A k \in Nat : k \in S => k + 1 \in S
  PROVE  Nat \subseteq S
<1> SUFFICES ASSUME Nat \ S # {} PROVE FALSE
  OBVIOUS
<1> DEFINE T == Nat \ S
<1>1. T \subseteq Nat /\ T # {}
  OBVIOUS
<1>2. \E c \in T : \A d \in T : ~(<<d, c>> \in OpToRel(<, Nat))
  <2> HIDE DEF T
  <2> QED BY <1>1, NatLessThanWellFounded, WFMin
<1>3. PICK c \in T : \A d \in T : ~(d < c)
  BY <1>1, <1>2 DEF OpToRel
<1>4. c \in Nat /\ c # 0
  BY <1>3
<1>5. c - 1 \in Nat /\ c - 1 \notin T /\ (c - 1) + 1 = c
  BY <1>3, <1>4
<1> QED BY <1>3, <1>5

\* The greatest of some of the first k numbers.
LEMMA GreatestOf ==
  ASSUME NEW k \in Nat, NEW s \in SUBSET (1 .. k), s # {}
  PROVE  Max(s) \in s /\ \A y \in s : Max(s) >= y
<1> DEFINE S == {j \in Nat : \A t \in SUBSET (1 .. j) : t # {} => \E x \in t : \A y \in t : x >= y}
<1>1. 0 \in S
  <2>1. 1 .. 0 = {}
    OBVIOUS
  <2> QED BY <2>1
<1>2. ASSUME NEW j \in Nat, j \in S PROVE j + 1 \in S
  <2>1. ASSUME NEW t \in SUBSET (1 .. (j + 1)), t # {} PROVE \E x \in t : \A y \in t : x >= y
    <3>1. CASE j + 1 \in t
      BY <3>1
    <3>2. CASE j + 1 \notin t
      <4>1. t \in SUBSET (1 .. j)
        BY <3>2
      <4> QED BY <1>2, <2>1, <4>1
    <3> QED BY <3>1, <3>2
  <2> QED BY <2>1
<1>3. k \in S
  <2> HIDE DEF S
  <2> QED BY <1>1, <1>2, Inductive
<1>4. \E x \in s : \A y \in s : x >= y
  BY <1>3
<1> QED BY <1>4 DEF Max

\* What remains of the first numbers without the greatest.
LEMMA Before ==
  ASSUME NEW k \in Nat
  PROVE  /\ Max(1 .. (k + 1)) = k + 1
         /\ (1 .. (k + 1)) \ {k + 1} = 1 .. k
         /\ \A s \in SUBSET (1 .. (k + 1)) : k + 1 \in s => Max(s) = k + 1 /\ s \ {k + 1} \in SUBSET (1 .. k)
<1>1. ASSUME NEW s \in SUBSET (1 .. (k + 1)), k + 1 \in s PROVE Max(s) = k + 1 /\ s \ {k + 1} \in SUBSET (1 .. k)
  <2>1. k + 1 \in Nat /\ s # {}
    BY <1>1
  <2>2. Max(s) \in s /\ Max(s) >= k + 1
    BY <1>1, <2>1, GreatestOf
  <2>3. \A x \in 1 .. (k + 1) : x >= k + 1 => x = k + 1
    OBVIOUS
  <2>4. Max(s) = k + 1
    BY <2>2, <2>3
  <2> QED BY <1>1, <2>4
<1> QED BY <1>1

\* resolvePath's fold, as the community modules define it.
Folding(f, base, segs, D) ==
  f = [s \in SUBSET D |-> IF s = {} THEN base ELSE FoldSegment(f[s \ {Max(s)}], segs[Max(s)])]
LEMMA FoldUnfolds ==
  ASSUME NEW base, NEW segs
  PROVE  FoldLeft(FoldSegment, base, segs) = (CHOOSE f : Folding(f, base, segs, DOMAIN segs))[DOMAIN segs]
<1>1. FoldLeft(FoldSegment, base, segs) =
        (CHOOSE f : f = [s \in SUBSET DOMAIN segs |->
           IF s = {} THEN base ELSE FoldSegment(f[s \ {Max(s)}], segs[Max(s)])])[DOMAIN segs]
  BY Zenon DEF FoldLeft, MapThenFoldSet
<1>2. (CHOOSE f : f = [s \in SUBSET DOMAIN segs |->
           IF s = {} THEN base ELSE FoldSegment(f[s \ {Max(s)}], segs[Max(s)])])
      = (CHOOSE f : Folding(f, base, segs, DOMAIN segs))
  BY Zenon DEF Folding
<1> QED BY <1>1, <1>2

LEMMA FoldExists ==
  ASSUME NEW base, NEW segs, NEW n \in Nat
  PROVE  \E f : Folding(f, base, segs, 1 .. n)
<1> DEFINE S == {k \in Nat : \E f : Folding(f, base, segs, 1 .. k)}
<1>1. 0 \in S
  <2> DEFINE g == [s \in SUBSET (1 .. 0) |-> base]
  <2>1. 1 .. 0 = {}
    OBVIOUS
  <2>2. g = [s \in SUBSET (1 .. 0) |-> IF s = {} THEN base ELSE FoldSegment(g[s \ {Max(s)}], segs[Max(s)])]
    BY <2>1
  <2> HIDE DEF g
  <2> QED BY <2>2 DEF Folding
<1>2. ASSUME NEW k \in Nat, k \in S PROVE k + 1 \in S
  <2>1. PICK f : Folding(f, base, segs, 1 .. k)
    BY <1>2
  <2> DEFINE g == [s \in SUBSET (1 .. (k + 1)) |-> IF k + 1 \in s THEN FoldSegment(f[s \ {k + 1}], segs[k + 1]) ELSE f[s]]
             h == [s \in SUBSET (1 .. (k + 1)) |-> IF s = {} THEN base ELSE FoldSegment(g[s \ {Max(s)}], segs[Max(s)])]
  <2>2. ASSUME NEW s \in SUBSET (1 .. (k + 1)), k + 1 \in s PROVE g[s] = h[s]
    <3>1. Max(s) = k + 1 /\ s \ {k + 1} \in SUBSET (1 .. k) /\ s # {}
      BY <2>2, Before
    <3>2. g[s \ {k + 1}] = f[s \ {k + 1}]
      BY <3>1
    <3>3. g[s] = FoldSegment(f[s \ {k + 1}], segs[k + 1])
      BY <2>2
    <3>4. h[s] = FoldSegment(g[s \ {k + 1}], segs[k + 1])
      <4> HIDE DEF g
      <4> QED BY <3>1
    <3> QED BY <3>2, <3>3, <3>4
  <2>3. ASSUME NEW s \in SUBSET (1 .. (k + 1)), k + 1 \notin s PROVE g[s] = h[s]
    <3>1. s \in SUBSET (1 .. k)
      BY <2>3
    <3>2. g[s] = f[s]
      BY <2>3
    <3>3. f[s] = IF s = {} THEN base ELSE FoldSegment(f[s \ {Max(s)}], segs[Max(s)])
      BY <2>1, <3>1 DEF Folding
    <3>4. s # {} => Max(s) \in s /\ s \ {Max(s)} \in SUBSET (1 .. k) /\ k + 1 \notin s \ {Max(s)}
      BY <2>3, <3>1, GreatestOf
    <3>5. s # {} => g[s \ {Max(s)}] = f[s \ {Max(s)}]
      BY <3>4
    <3>6. h[s] = IF s = {} THEN base ELSE FoldSegment(g[s \ {Max(s)}], segs[Max(s)])
      <4> HIDE DEF g
      <4> QED OBVIOUS
    <3> HIDE DEF g, h
    <3> QED BY <3>2, <3>3, <3>5, <3>6
  <2>4. g = h
    <3>1. \A s \in SUBSET (1 .. (k + 1)) : g[s] = h[s]
      <4> HIDE DEF g, h
      <4> QED BY <2>2, <2>3
    <3> QED BY <3>1, Zenon
  <2>5. Folding(g, base, segs, 1 .. (k + 1))
    <3> HIDE DEF g
    <3> QED BY <2>4 DEF Folding
  <2> HIDE DEF g
  <2> QED BY <2>5
<1> HIDE DEF S
<1>3. n \in S
  BY <1>1, <1>2, Inductive
<1> QED BY <1>3 DEF S

\* Folding "." and ".." onto a path of words leaves a path of words.
LEMMA FoldedPath ==
  ASSUME NEW base \in Seq(Words), NEW segs \in Seq(Words)
  PROVE  FoldLeft(FoldSegment, base, segs) \in Seq(Words)
<1> DEFINE n == Len(segs)
           f == CHOOSE x : Folding(x, base, segs, 1 .. n)
<1>1. n \in Nat /\ DOMAIN segs = 1 .. n
  OBVIOUS
<1>2. Folding(f, base, segs, 1 .. n)
  BY <1>1, FoldExists
<1> HIDE DEF f
<1> DEFINE S == {k \in Nat : k <= n => \A s \in SUBSET (1 .. k) : f[s] \in Seq(Words)}
<1>3. 0 \in S
  <2>1. f[{}] = base
    BY <1>2 DEF Folding
  <2>2. 1 .. 0 = {}
    OBVIOUS
  <2> QED BY <2>1, <2>2
<1>4. ASSUME NEW k \in Nat, k \in S PROVE k + 1 \in S
  <2>1. ASSUME k + 1 <= n, NEW s \in SUBSET (1 .. (k + 1)), k + 1 \in s PROVE f[s] \in Seq(Words)
    <3>1. Max(s) = k + 1 /\ s \ {k + 1} \in SUBSET (1 .. k)
      BY <2>1, Before
    <3>2. f[s] = FoldSegment(f[s \ {k + 1}], segs[k + 1])
      <4>1. s \in SUBSET (1 .. n) /\ s # {}
        BY <1>1, <2>1
      <4> QED BY <1>2, <2>1, <3>1, <4>1 DEF Folding
    <3>3. f[s \ {k + 1}] \in Seq(Words) /\ segs[k + 1] \in Words
      BY <1>1, <1>4, <2>1, <3>1
    <3>4. ASSUME NEW p \in Seq(Words), NEW x \in Words PROVE FoldSegment(p, x) \in Seq(Words)
      BY DEF FoldSegment, Front
    <3> QED BY <3>2, <3>3, <3>4
  <2>2. ASSUME k + 1 <= n, NEW s \in SUBSET (1 .. (k + 1)), k + 1 \notin s PROVE f[s] \in Seq(Words)
    <3>1. s \in SUBSET (1 .. k)
      BY <2>2
    <3> QED BY <1>1, <1>4, <2>2, <3>1
  <2> QED BY <2>1, <2>2
<1>5. n \in S
  <2> HIDE DEF S
  <2> QED BY <1>1, <1>3, <1>4, Inductive
<1>6. f[1 .. n] \in Seq(Words)
  BY <1>1, <1>5
<1> QED BY <1>1, <1>6, FoldUnfolds DEF f

-----------------------------------------------------------------------------
(* The Current Position                                                    *)

PathsInv == PathsTypeOK /\ CdArrives

\* Names are words, and so are the tenants served.
LEMMA PathWords ==
  /\ \A p \in Paths : /\ p \in Seq(Words) /\ Len(p) \in 1 .. 4 /\ p[1] \in PathRemotes
                      /\ \A k \in 1 .. Len(p) : p[k] \in Words
  /\ PathRemotes \subseteq Words /\ "default" \in Words
  /\ \A r \in PathRemotes : Served[r] \in Words \cup {NoName}
  /\ NoName \notin Words /\ NoName \notin Seq(Words) /\ NoName \notin DirRecords
<1>1. \A p \in Paths : /\ p \in Seq(Words) /\ Len(p) \in 1 .. 4 /\ p[1] \in PathRemotes
                       /\ \A k \in 1 .. Len(p) : p[k] \in Words
  BY PathsAssumption DEF PathsAssumption, PathRemotes
<1>2. PathRemotes \subseteq Words
  BY <1>1 DEF PathRemotes
<1>3. "default" \in Words /\ \A r \in PathRemotes : Served[r] \in Words \cup {NoName}
  BY DEF Words
<1>4. NoName \notin Words /\ NoName \notin Seq(Words) /\ NoName \notin DirRecords
  BY PathsAssumption DEF PathsAssumption
<1> QED BY <1>1, <1>2, <1>3, <1>4

\* What a command reads of the selection: a remote, its tenant, a project.
LEMMA AdminTyped ==
  ASSUME NEW s, s.global \in Globals, s.here \in DirRecords \cup {NoName}
  PROVE  /\ AdminOf(s).remote \in PathRemotes /\ AdminOf(s).tenant \in Words /\ AdminOf(s).project \in Words
         /\ s.here # NoName => AdminOf(s).remote = s.here.remote /\ AdminOf(s).project = s.here.project
                               /\ (s.here.tenant # NoName => AdminOf(s).tenant = s.here.tenant)
<1>1. s.here # NoName => s.here \in DirRecords /\ s.here.remote # NoName
  BY PathWords DEF DirRecords
<1>2. s.here = NoName => Dir(s).remote = NoName /\ Dir(s).tenant = NoName
  BY DEF Dir, NoDir
<1>3. s.here # NoName => Dir(s) = s.here
  BY DEF Dir
<1> DEFINE r == AdminOf(s).remote
<1>4. r = IF Dir(s).remote # NoName THEN Dir(s).remote ELSE s.global.remote
  BY DEF AdminOf
<1>5. r \in PathRemotes
  BY <1>1, <1>2, <1>3, <1>4 DEF DirRecords, Globals
<1>6. AdminOf(s).project = IF Dir(s).remote # NoName THEN Dir(s).project ELSE s.global.project
  BY DEF AdminOf
<1>7. AdminOf(s).tenant = IF Dir(s).tenant # NoName THEN Dir(s).tenant
                          ELSE IF Served[r] # NoName THEN Served[r] ELSE s.global.tenant
  BY DEF AdminOf
<1> HIDE DEF r
<1> QED BY <1>1, <1>2, <1>3, <1>4, <1>5, <1>6, <1>7, PathWords DEF DirRecords, Globals, r

LEMMA AdminHere ==
  ASSUME PathsTypeOK
  PROVE  /\ Admin.remote \in PathRemotes /\ Admin.tenant \in Words /\ Admin.project \in Words
         /\ here # NoName => Admin.remote = here.remote /\ Admin.project = here.project
                             /\ (here.tenant # NoName => Admin.tenant = here.tenant)
BY AdminTyped DEF Admin, PathsTypeOK

\* A prefix of three words.
LEMMA PrefixOfThree ==
  ASSUME NEW a, NEW b, NEW c, NEW k \in 0 .. 3
  PROVE  LET p == SubSeq(<<a, b, c>>, 1, k) IN
         /\ Len(p) = k
         /\ a \in Words /\ b \in Words /\ c \in Words => p \in Seq(Words)
         /\ (k >= 1 => p[1] = a) /\ (k >= 2 => p[2] = b) /\ (k >= 3 => p[3] = c)
OBVIOUS

LEMMA PositionTyped ==
  ASSUME PathsTypeOK
  PROVE  CurrentPosition \in Seq(Words) /\ Len(CurrentPosition) <= 3 /\ HomePosition \in Seq(Words)
<1> DEFINE k == IF here = NoName THEN Level.project ELSE here.level
<1>1. k \in 0 .. 3
  BY DEF PathsTypeOK, DirRecords, Level
<1>2. Admin.remote \in Words /\ Admin.tenant \in Words /\ Admin.project \in Words
  BY AdminHere, PathWords
<1>3. CurrentPosition = SubSeq(<<Admin.remote, Admin.tenant, Admin.project>>, 1, k)
  BY DEF CurrentPosition
<1>4. CurrentPosition \in Seq(Words) /\ Len(CurrentPosition) <= 3
  <2> HIDE DEF k
  <2> DEFINE p == SubSeq(<<Admin.remote, Admin.tenant, Admin.project>>, 1, k)
  <2>1. Len(p) = k /\ p \in Seq(Words)
    BY <1>1, <1>2, PrefixOfThree
  <2> HIDE DEF p
  <2>2. CurrentPosition = p
    BY <1>3 DEF p
  <2> QED BY <1>1, <2>1, <2>2
<1>5. HomePosition \in Seq(Words)
  BY PathWords DEF HomePosition, PathsTypeOK, Globals
<1> QED BY <1>4, <1>5

\* What an argument resolves to is a path of words.
LEMMA ResolvedPath ==
  ASSUME PathsTypeOK, NEW arg \in CdArgs \cup PathArgs
  PROVE  ResolvePath(arg).segs \in Seq(Words)
<1>1. arg.segs \in Seq(Words)
  BY PathsAssumption DEF PathsAssumption
<1>2. NoPath.segs \in Seq(Words)
  BY DEF NoPath
<1>3. CASE arg.base = "prev"
  <2>1. CASE here = NoName \/ here.prev = NoName
    BY <1>2, <1>3, <2>1 DEF ResolvePath
  <2>2. CASE ~(here = NoName \/ here.prev = NoName)
    <3>1. here.prev \in Seq(Words)
      BY <2>2 DEF PathsTypeOK, DirRecords
    <3> QED BY <1>3, <2>2, <3>1 DEF ResolvePath
  <2> QED BY <2>1, <2>2
<1>4. CASE arg.base # "prev"
  <2> DEFINE base == CASE arg.base = "abs" -> <<>> [] arg.base = "home" -> HomePosition [] OTHER -> CurrentPosition
             segs == FoldLeft(FoldSegment, base, arg.segs)
  <2>1. base \in Seq(Words)
    BY PositionTyped
  <2>2. segs \in Seq(Words)
    BY <1>1, <2>1, FoldedPath
  <2>3. ResolvePath(arg) = IF Fixed(segs) > Level.machine THEN NoPath ELSE [ok |-> TRUE, segs |-> segs]
    BY <1>4 DEF ResolvePath
  <2> HIDE DEF segs
  <2> QED BY <1>2, <2>2, <2>3
<1> QED BY <1>3, <1>4

\* A selection while `sc cd` changes it.
Selections == [ok : BOOLEAN, here : DirRecords \cup {NoName}, global : Globals]
WideDirs ==
  [remote : PathRemotes \cup {NoName}, tenant : Words \cup {NoName}, project : Words \cup {NoName}, level : 0 .. 3,
   prev : Seq(Words) \cup {NoName}, remembered : [PathRemotes -> Words \cup {NoName}]]

LEMMA RememberingTyped ==
  ASSUME NEW s \in Selections
  PROVE  Remembering(Dir(s)) \in WideDirs
<1>1. Dir(s) \in WideDirs
  BY DEF Dir, NoDir, WideDirs, Selections, DirRecords, Level
<1>2. ASSUME NEW d \in WideDirs PROVE Remembering(d) \in WideDirs
  <2>1. CASE d.remote = NoName
    BY <1>2, <2>1 DEF Remembering
  <2>2. CASE d.remote # NoName
    <3>1. d.remote \in PathRemotes /\ d.project \in Words \cup {NoName}
      BY <2>2 DEF WideDirs
    <3>2. [d.remembered EXCEPT ![d.remote] = d.project] \in [PathRemotes -> Words \cup {NoName}]
      BY <3>1 DEF WideDirs
    <3>3. Remembering(d) = [d EXCEPT !.remembered = [d.remembered EXCEPT ![d.remote] = d.project]]
      BY <2>2 DEF Remembering
    <3> QED BY <3>2, <3>3 DEF WideDirs
  <2> QED BY <2>1, <2>2
<1> QED BY <1>1, <1>2

\* A directory with another remote, project and history.
Paired(d, r, p) == [d EXCEPT !.remote = r, !.project = p, !.remembered[r] = p]
LEMMA PairTyped ==
  ASSUME NEW d \in WideDirs, NEW r \in PathRemotes, NEW p \in Words
  PROVE  Paired(d, r, p) \in DirRecords /\ Paired(d, r, p).remote = r
<1>1. [d.remembered EXCEPT ![r] = p] \in [PathRemotes -> Words \cup {NoName}]
  BY DEF WideDirs
<1> QED BY <1>1 DEF WideDirs, DirRecords, Paired

LEMMA SelectionTyped ==
  ASSUME NEW s \in Selections, NEW a, a.remote \in PathRemotes, a.project \in Words
  PROVE  DirectorySelection(s, a) \in DirRecords /\ DirectorySelection(s, a).remote = a.remote
<1>1. Remembering(Dir(s)) \in WideDirs
  BY RememberingTyped
<1>2. DirectorySelection(s, a) = Paired(Remembering(Dir(s)), a.remote, a.project)
  BY DEF DirectorySelection, Paired
<1> QED BY <1>1, <1>2, PairTyped

LEMMA SelectedAdmin ==
  ASSUME NEW s \in Selections
  PROVE  AdminOf(s).remote \in PathRemotes /\ AdminOf(s).tenant \in Words /\ AdminOf(s).project \in Words
BY AdminTyped DEF Selections

LEMMA WideIsDir == DirRecords \subseteq WideDirs
BY DEF DirRecords, WideDirs

LEMMA PinnedTyped == ASSUME NEW r PROVE PinnedProject(r) \in Words
<1>1. ASSUME NEW t PROVE ProjectsIn(r, t) \subseteq Words
  BY PathWords DEF ProjectsIn
<1> QED BY <1>1, PathWords DEF PinnedProject

LEMMA FailedTyped == ASSUME NEW s \in Selections PROVE Failed(s) \in Selections /\ ~Failed(s).ok
BY DEF Failed, Selections

LEMMA SwitchRemoteTyped ==
  ASSUME NEW s \in Selections, NEW r \in PathRemotes
  PROVE  SwitchRemote(s, r) \in Selections
<1> DEFINE d == DirectorySelection(s, AdminOf(s))
           p == IF d.remembered[r] # NoName THEN d.remembered[r] ELSE PinnedProject(r)
           t == IF Served[r] # NoName THEN Served[r] ELSE s.global.tenant
           e == [d EXCEPT !.remote = r, !.project = p, !.remembered[r] = p, !.tenant = t]
<1>1. d \in DirRecords
  BY SelectedAdmin, SelectionTyped
<1>2. p \in Words
  BY <1>1, PinnedTyped DEF DirRecords
<1>3. t \in Words
  BY PathWords DEF Selections, Globals
<1>4. SwitchRemote(s, r) = [s EXCEPT !.here = e]
  BY DEF SwitchRemote
<1>5. e \in DirRecords
  <2> HIDE DEF d, p, t
  <2>1. [d.remembered EXCEPT ![r] = p] \in [PathRemotes -> Words \cup {NoName}]
    BY <1>1, <1>2 DEF DirRecords
  <2> QED BY <1>1, <1>2, <1>3, <2>1 DEF DirRecords
<1> HIDE DEF e
<1> QED BY <1>4, <1>5 DEF Selections

LEMMA SwitchTenantTyped ==
  ASSUME NEW s \in Selections, NEW t \in Words, NEW localOnly \in BOOLEAN, NEW down
  PROVE  SwitchTenant(s, t, localOnly, down) \in Selections
<1> DEFINE enrolled == {x \in PathRemotes : Served[x] = t}
           to == IF enrolled = {} \/ s.global.remote \in enrolled THEN s.global.remote ELSE CHOOSE x \in enrolled : TRUE
           p == IF to = s.global.remote THEN s.global.project ELSE PinnedProject(to)
           g == [s.global EXCEPT !.remote = to, !.tenant = t, !.project = p]
           e == [Remembering(Dir(s)) EXCEPT !.remote = to, !.project = g.project, !.tenant = t, !.remembered[to] = g.project]
           h == IF localOnly /\ to = s.global.remote THEN s.here ELSE e
<1>1. to \in PathRemotes
  BY DEF Selections, Globals
<1>2. p \in Words
  BY PinnedTyped DEF Selections, Globals
<1>3. g \in Globals /\ g.project = p
  <2> HIDE DEF to, p
  <2> QED BY <1>1, <1>2 DEF Selections, Globals
<1>4. e \in DirRecords
  <2> DEFINE d == Remembering(Dir(s))
  <2>1. d \in WideDirs
    BY RememberingTyped
  <2> HIDE DEF to, p, g, d
  <2>2. [d.remembered EXCEPT ![to] = p] \in [PathRemotes -> Words \cup {NoName}]
    BY <1>1, <1>2, <2>1 DEF WideDirs
  <2>3. [d EXCEPT !.remote = to, !.project = p, !.tenant = t, !.remembered[to] = p] \in DirRecords
    BY <1>1, <1>2, <2>1, <2>2 DEF DirRecords, WideDirs
  <2> QED BY <1>3, <2>3 DEF d
<1>5. \/ SwitchTenant(s, t, localOnly, down) = Failed(s)
      \/ SwitchTenant(s, t, localOnly, down) = [s EXCEPT !.global = g, !.here = h]
  BY DEF SwitchTenant
<1>6. h \in DirRecords \cup {NoName}
  <2> HIDE DEF e
  <2> QED BY <1>4 DEF Selections
<1> HIDE DEF g, h
<1> QED BY <1>3, <1>5, <1>6, FailedTyped DEF Selections

LEMMA SwitchProjectTyped ==
  ASSUME NEW s \in Selections, NEW p \in Words, NEW localOnly \in BOOLEAN, NEW down
  PROVE  SwitchProject(s, p, localOnly, down) \in Selections
<1> DEFINE d == DirectorySelection(s, AdminOf(s))
           e == [d EXCEPT !.project = p, !.remembered[d.remote] = p]
<1>1. d \in DirRecords
  BY SelectedAdmin, SelectionTyped
<1>2. e \in DirRecords
  <2> HIDE DEF d
  <2>1. [d.remembered EXCEPT ![d.remote] = p] \in [PathRemotes -> Words \cup {NoName}]
    BY <1>1 DEF DirRecords
  <2> QED BY <1>1, <2>1 DEF DirRecords
<1>3. \/ SwitchProject(s, p, localOnly, down) = Failed(s)
      \/ SwitchProject(s, p, localOnly, down) = [s EXCEPT !.here = e]
  BY DEF SwitchProject
<1> HIDE DEF e
<1> QED BY <1>2, <1>3, FailedTyped DEF Selections

LEMMA UpToThree ==
  ASSUME NEW t \in Seq(Words), ~(Len(t) >= 4) \/ Len(t) <= 3
  PROVE  Len(t) \in 0 .. 3 /\ \A k \in 1 .. Len(t) : t[k] \in Words
<1>1. Len(t) \in Nat
  OBVIOUS
<1> DEFINE n == Len(t)
<1>2. \A k \in 1 .. n : t[k] \in Words
  OBVIOUS
<1>3. n \in 0 .. 3
  <2> HIDE DEF n
  <2>1. n \in Nat /\ (~(n >= 4) \/ n <= 3)
    BY <1>1 DEF n
  <2> QED BY <2>1
<1> QED BY <1>2, <1>3

\* The position that is saved is the target, and the one before is remembered.
LEMMA SavedPosition ==
  ASSUME NEW s \in Selections, NEW a, a.remote \in PathRemotes, a.project \in Words,
         NEW target \in Seq(Words), Len(target) <= 3, Len(target) > 0 => target[1] \in PathRemotes,
         NEW before \in Seq(Words)
  PROVE  LET n == SavePosition(s, a, target, before) IN
         /\ n \in Selections /\ n.ok = s.ok /\ n.here \in DirRecords
         /\ n.here.level = Len(target) /\ n.here.prev = before
         /\ (Len(target) >= 1 => n.here.remote = target[1])
         /\ (Len(target) >= 2 => n.here.tenant = target[2])
         /\ (Len(target) >= 3 => n.here.project = target[3])
<1> DEFINE d == DirectorySelection(s, a)
           r == IF Len(target) >= 1 THEN target[1] ELSE d.remote
           known == IF d.remembered[r] # NoName THEN d.remembered[r] ELSE d.project
           t == IF Len(target) >= 2 THEN target[2] ELSE d.tenant
           p == IF Len(target) >= 3 THEN target[3] ELSE known
           m == IF Len(target) >= 3 THEN target[3] ELSE d.remembered[r]
           e == [d EXCEPT !.remote = r, !.tenant = t, !.project = p, !.remembered[r] = m,
                          !.level = Len(target), !.prev = before]
<1>1. d \in DirRecords
  BY SelectionTyped
<1>2. Len(target) \in 0 .. 3 /\ \A k \in 1 .. Len(target) : target[k] \in Words
  BY UpToThree
<1>3. r \in PathRemotes /\ t \in Words \cup {NoName}
  <2> HIDE DEF d
  <2> QED BY <1>1, <1>2 DEF DirRecords
<1>4. known \in Words
  <2> HIDE DEF d, r
  <2> QED BY <1>1, <1>3 DEF DirRecords
<1>5. p \in Words /\ m \in Words \cup {NoName}
  <2> HIDE DEF d, r, known
  <2> QED BY <1>1, <1>2, <1>3, <1>4 DEF DirRecords
<1>6. SavePosition(s, a, target, before) = [s EXCEPT !.here = e]
  BY DEF SavePosition, Level
<1>7. /\ e \in DirRecords /\ e.level = Len(target) /\ e.prev = before
      /\ e.remote = r /\ e.tenant = t /\ e.project = p
  <2> HIDE DEF d, r, p, t, m
  <2>1. [d.remembered EXCEPT ![r] = m] \in [PathRemotes -> Words \cup {NoName}]
    BY <1>1, <1>3, <1>5 DEF DirRecords
  <2>2. e = [d EXCEPT !.remote = r, !.tenant = t, !.project = p,
                      !.remembered = [d.remembered EXCEPT ![r] = m], !.level = Len(target), !.prev = before]
    BY <1>1 DEF DirRecords
  <2> QED BY <1>1, <1>2, <1>3, <1>5, <2>1, <2>2 DEF DirRecords
<1>8. /\ (Len(target) >= 1 => r = target[1]) /\ (Len(target) >= 2 => t = target[2])
      /\ (Len(target) >= 3 => p = target[3])
  BY <1>2
<1> HIDE DEF e, r, t, p
<1> QED BY <1>6, <1>7, <1>8 DEF Selections

\* A target that cd accepts is the path of a directory.
LEMMA TargetTyped ==
  ASSUME PathsTypeOK, NEW arg \in CdArgs, NEW localOnly \in BOOLEAN, CdTarget(arg, localOnly).ok
  PROVE  LET t == CdTarget(arg, localOnly).segs IN
         /\ t \in Seq(Words) /\ Len(t) \in 0 .. 3
         /\ (Len(t) > 0 => t[1] \in PathRemotes) /\ \A k \in 1 .. Len(t) : t[k] \in Words
<1> DEFINE r == ResolvePath(arg)
           t == r.segs
<1>1. t \in Seq(Words)
  BY ResolvedPath
<1>2. \/ CdTarget(arg, localOnly) = NoPath
      \/ CdTarget(arg, localOnly) = r /\ ~(Len(t) >= 4) /\ ~(Len(t) > 0 /\ t[1] \notin PathRemotes)
  BY DEF CdTarget, Level
<1>3. ~NoPath.ok
  BY DEF NoPath
<1> HIDE DEF r
<1>4. CdTarget(arg, localOnly).segs = t /\ ~(Len(t) >= 4) /\ (Len(t) > 0 => t[1] \in PathRemotes)
  BY <1>2, <1>3
<1>5. Len(t) \in 0 .. 3 /\ \A k \in 1 .. Len(t) : t[k] \in Words
  BY <1>1, <1>4, UpToThree
<1> QED BY <1>1, <1>4, <1>5

\* The switches of a cd, one after the other.
LEMMA SwitchesTyped ==
  ASSUME NEW s \in Selections, NEW t \in Seq(Words), Len(t) \in 0 .. 3, Len(t) > 0 => t[1] \in PathRemotes,
         \A k \in 1 .. Len(t) : t[k] \in Words, NEW localOnly \in BOOLEAN, NEW down
  PROVE  /\ AfterRemote(s, t) \in Selections
         /\ AfterTenant(s, t, localOnly, down) \in Selections
         /\ AfterProject(s, t, localOnly, down) \in Selections
<1>1. AfterRemote(s, t) \in Selections
  BY SwitchRemoteTyped DEF AfterRemote
<1>2. AfterTenant(s, t, localOnly, down) \in Selections
  BY SwitchTenantTyped DEF AfterTenant
<1>3. AfterProject(s, t, localOnly, down) \in Selections
  BY SwitchProjectTyped DEF AfterProject
<1> QED BY <1>1, <1>2, <1>3

\* A successful cd arrives, and remembers where from.
LEMMA CdKeeps ==
  ASSUME PathsInv, NEW arg \in CdArgs, NEW localOnly \in BOOLEAN, NEW down, Cd(arg, localOnly, down)
  PROVE  PathsInv'
<1> DEFINE target == CdTarget(arg, localOnly).segs
           from == CurrentPosition
           s0 == [ok |-> TRUE, here |-> here, global |-> global]
           s1 == AfterRemote(s0, target)
           s2 == AfterTenant(s1, target, localOnly, down)
           s3 == AfterProject(s2, target, localOnly, down)
           s4 == SavePosition(s3, AdminOf(s2), target, from)
           s5 == IF s3.ok THEN s4 ELSE s3
<1>1. PathsTypeOK
  BY DEF PathsInv
<1>2. /\ CdTarget(arg, localOnly).ok /\ here' = s5.here /\ global' = s5.global
      /\ moved' = [ok |-> s5.ok, from |-> from, to |-> target] /\ asked' = NothingAsked
  BY DEF Cd
<1>3. /\ target \in Seq(Words) /\ Len(target) \in 0 .. 3
      /\ (Len(target) > 0 => target[1] \in PathRemotes) /\ \A k \in 1 .. Len(target) : target[k] \in Words
  BY <1>1, <1>2, TargetTyped
<1>4. from \in Seq(Words)
  BY <1>1, PositionTyped
<1>5. s0 \in Selections
  BY <1>1 DEF Selections, PathsTypeOK
<1> HIDE DEF target, from, s0
<1>6. s1 \in Selections
  BY <1>3, <1>5, SwitchesTyped
<1> HIDE DEF s1
<1>7. s2 \in Selections
  BY <1>3, <1>6, SwitchesTyped
<1> HIDE DEF s2
<1>8. s3 \in Selections
  BY <1>3, <1>7, SwitchesTyped
<1> HIDE DEF s3
<1>9. AdminOf(s2).remote \in PathRemotes /\ AdminOf(s2).project \in Words
  BY <1>7, SelectedAdmin
<1>10. /\ s4 \in Selections /\ s4.ok = s3.ok /\ s4.here \in DirRecords
       /\ s4.here.level = Len(target) /\ s4.here.prev = from
       /\ (Len(target) >= 1 => s4.here.remote = target[1])
       /\ (Len(target) >= 2 => s4.here.tenant = target[2])
       /\ (Len(target) >= 3 => s4.here.project = target[3])
  <2> DEFINE a == AdminOf(s2)
  <2> HIDE DEF a
  <2>1. a.remote \in PathRemotes /\ a.project \in Words /\ Len(target) <= 3
    BY <1>3, <1>9 DEF a
  <2>2. LET n == SavePosition(s3, a, target, from) IN
         /\ n \in Selections /\ n.ok = s3.ok /\ n.here \in DirRecords
         /\ n.here.level = Len(target) /\ n.here.prev = from
         /\ (Len(target) >= 1 => n.here.remote = target[1])
         /\ (Len(target) >= 2 => n.here.tenant = target[2])
         /\ (Len(target) >= 3 => n.here.project = target[3])
    BY <1>3, <1>4, <1>8, <2>1, SavedPosition
  <2> QED BY <2>2 DEF a
<1> HIDE DEF s4
<1>11. s5 \in Selections /\ s5.here \in DirRecords \cup {NoName} /\ s5.global \in Globals
  BY <1>8, <1>10 DEF Selections
<1>12. PathsTypeOK'
  BY <1>2, <1>11 DEF PathsTypeOK, NothingAsked
<1>13. CdArrives'
  <2> SUFFICES ASSUME moved'.ok
               PROVE  CurrentPosition' = target /\ ResolvePath([base |-> "prev", segs |-> <<>>])'.segs = from
    BY <1>2 DEF CdArrives
  <2>1. here' = s4.here /\ here' \in DirRecords /\ here' # NoName
    <3>1. s5 = s4
      BY <1>2, <1>10
    <3> QED BY <1>2, <1>10, <3>1, PathWords
  <2>0. /\ Admin'.remote \in PathRemotes /\ Admin'.tenant \in Words /\ Admin'.project \in Words
        /\ here' # NoName => Admin'.remote = here'.remote /\ Admin'.project = here'.project
                             /\ (here'.tenant # NoName => Admin'.tenant = here'.tenant)
    <3> DEFINE n == [here |-> here', global |-> global']
    <3>1. Admin' = AdminOf(n)
      BY DEF Admin
    <3>2. n.here = here' /\ n.global = global' /\ n.global \in Globals /\ n.here \in DirRecords \cup {NoName}
      BY <1>12 DEF PathsTypeOK
    <3> HIDE DEF n
    <3> QED BY <3>1, <3>2, AdminTyped
  <2>2. /\ Admin'.remote = here'.remote /\ Admin'.project = here'.project
        /\ (here'.tenant # NoName => Admin'.tenant = here'.tenant)
    BY <2>1, <2>0
  <2>3. CurrentPosition' = SubSeq(<<Admin'.remote, Admin'.tenant, Admin'.project>>, 1, Len(target))
    BY <1>10, <2>1 DEF CurrentPosition
  <2>4. CurrentPosition' = target
    <3> DEFINE a == Admin'.remote
               b == Admin'.tenant
               c == Admin'.project
    <3>1. /\ (Len(target) >= 1 => target[1] = a) /\ (Len(target) >= 2 => target[2] = b)
          /\ (Len(target) >= 3 => target[3] = c)
      BY <1>3, <1>10, <2>1, <2>2, PathWords
    <3>2. a \in Words /\ b \in Words /\ c \in Words
      BY <2>0, PathWords
    <3> HIDE DEF a, b, c
    <3>3. SubSeq(<<a, b, c>>, 1, Len(target)) = target
      <4> DEFINE p == SubSeq(<<a, b, c>>, 1, Len(target))
      <4>1. /\ p \in Seq(Words) /\ Len(p) = Len(target)
            /\ (Len(target) >= 1 => p[1] = a) /\ (Len(target) >= 2 => p[2] = b) /\ (Len(target) >= 3 => p[3] = c)
        BY <1>3, <3>2, PrefixOfThree
      <4> HIDE DEF p
      <4>2. \A k \in 1 .. Len(p) : p[k] = target[k]
        BY <1>3, <3>1, <4>1
      <4>3. p = target
        BY <1>3, <4>1, <4>2
      <4> QED BY <4>3 DEF p
    <3> QED BY <2>3, <3>3 DEF a, b, c
  <2>5. here'.prev = from /\ from # NoName
    BY <1>4, <1>10, <2>1, PathWords
  <2>6. ResolvePath([base |-> "prev", segs |-> <<>>])'.segs = from
    BY <2>1, <2>5 DEF ResolvePath
  <2> QED BY <2>4, <2>6
<1> QED BY <1>12, <1>13 DEF PathsInv

-----------------------------------------------------------------------------
(* The tree                                                                *)

LEMMA PrefixFacts ==
  ASSUME NEW p \in Seq(Words), NEW k \in 0 .. Len(p)
  PROVE  /\ SubSeq(p, 1, k) \in Seq(Words) /\ Len(SubSeq(p, 1, k)) = k
         /\ \A j \in 1 .. k : SubSeq(p, 1, k)[j] = p[j]
         /\ (k = Len(p) => SubSeq(p, 1, k) = p) /\ (k = 0 => SubSeq(p, 1, k) = <<>>)
OBVIOUS

LEMMA PrefixOfPrefix ==
  ASSUME NEW p \in Seq(Words), NEW k \in 0 .. Len(p), NEW j \in 0 .. k
  PROVE  SubSeq(SubSeq(p, 1, k), 1, j) = SubSeq(p, 1, j)
OBVIOUS

LEMMA AppendFacts ==
  ASSUME NEW m \in Seq(Words), NEW c \in Words
  PROVE  LET p == Append(m, c) IN
         p \in Seq(Words) /\ Len(p) = Len(m) + 1 /\ p[Len(p)] = c /\ SubSeq(p, 1, Len(p) - 1) = m
OBVIOUS

LEMMA LastFacts ==
  ASSUME NEW p \in Seq(Words), Len(p) >= 1
  PROVE  Len(p) - 1 \in 0 .. Len(p) /\ p[Len(p)] \in Words /\ Append(SubSeq(p, 1, Len(p) - 1), p[Len(p)]) = p
<1>1. Len(p) \in Nat /\ Len(p) - 1 \in 0 .. Len(p)
  OBVIOUS
<1>2. p[Len(p)] \in Words
  OBVIOUS
<1> DEFINE m == SubSeq(p, 1, Len(p) - 1)
           q == Append(m, p[Len(p)])
<1>3. m \in Seq(Words) /\ Len(m) = Len(p) - 1 /\ \A j \in 1 .. (Len(p) - 1) : m[j] = p[j]
  BY <1>1, PrefixFacts
<1> HIDE DEF m
<1>4. q \in Seq(Words) /\ Len(q) = Len(p)
  BY <1>1, <1>2, <1>3
<1>5. \A j \in 1 .. Len(p) : q[j] = p[j]
  BY <1>1, <1>2, <1>3
<1>6. q = p
  <2> HIDE DEF q
  <2> QED BY <1>4, <1>5
<1> QED BY <1>1, <1>2, <1>6 DEF m

\* What `sc ls /` shows is closed under prefixes.
LEMMA ShownFacts ==
  ASSUME NEW p \in Shown
  PROVE  /\ p \in Seq(Words) /\ Len(p) \in 0 .. 4 /\ (Len(p) > 0 => p \in Paths)
         /\ \A k \in 0 .. Len(p) : SubSeq(p, 1, k) \in Shown
<1>1. CASE p = <<>>
  BY <1>1 DEF Shown
<1>2. CASE p \in Paths /\ (Len(p) > 1 => TenantOfRemote(p[1]) \in {NoName, p[2]})
  <2>1. p \in Seq(Words) /\ Len(p) \in 1 .. 4
    BY <1>2, PathWords
  <2>2. ASSUME NEW k \in 0 .. Len(p), k # 0 PROVE SubSeq(p, 1, k) \in Shown
    <3> DEFINE q == SubSeq(p, 1, k)
    <3>1. k \in 1 .. Len(p)
      BY <2>1, <2>2
    <3>2. q \in Paths
      BY <1>2, <3>1, PathsAssumption DEF PathsAssumption
    <3>3. Len(q) = k /\ q[1] = p[1] /\ (k > 1 => q[2] = p[2])
      BY <2>1, <3>1, PrefixFacts
    <3> HIDE DEF q
    <3>4. Len(q) > 1 => TenantOfRemote(q[1]) \in {NoName, q[2]}
      BY <1>2, <2>1, <3>1, <3>3
    <3> QED BY <3>2, <3>4 DEF Shown, q
  <2>3. SubSeq(p, 1, 0) \in Shown
    BY <2>1, PrefixFacts DEF Shown
  <2> QED BY <1>2, <2>1, <2>2, <2>3
<1> QED BY <1>1, <1>2 DEF Shown

\* A path whose install answers.
Clear(p, down) == Len(p) > 0 => p[1] \notin down

LEMMA ChildrenAt ==
  ASSUME NEW m, NEW down
  PROVE  /\ (Len(m) = 0 => ChildrenOf(m, down) = [ok |-> TRUE, names |-> PathRemotes])
         /\ (Len(m) = 1 => ChildrenOf(m, down) =
               IF m[1] \notin PathRemotes THEN NoChildren
               ELSE IF TenantOfRemote(m[1]) # NoName THEN [ok |-> TRUE, names |-> {TenantOfRemote(m[1])}]
               ELSE IF m[1] \in down THEN NoChildren ELSE [ok |-> TRUE, names |-> Under(m)])
         /\ (Len(m) \in {2, 3} => ChildrenOf(m, down) =
               IF m[1] \in down \/ m \notin Paths THEN NoChildren ELSE [ok |-> TRUE, names |-> Under(m)])
         /\ (Len(m) \notin 0 .. 3 => ChildrenOf(m, down) = NoChildren)
<1>1. Level.root = 0 /\ Level.remote = 1 /\ Level.tenant = 2 /\ Level.project = 3 /\ Level.machine = 4
  BY DEF Level
<1> DEFINE n == Len(m)
<1> HIDE DEF n
<1>2. n = 0 => ChildrenOf(m, down) = [ok |-> TRUE, names |-> PathRemotes]
  BY <1>1 DEF ChildrenOf, n
<1>3. n = 1 => ChildrenOf(m, down) =
               IF m[1] \notin PathRemotes THEN NoChildren
               ELSE IF TenantOfRemote(m[1]) # NoName THEN [ok |-> TRUE, names |-> {TenantOfRemote(m[1])}]
               ELSE IF m[1] \in down THEN NoChildren ELSE [ok |-> TRUE, names |-> Under(m)]
  BY <1>1 DEF ChildrenOf, n
<1>4. n \in {2, 3} => ChildrenOf(m, down) =
               IF m[1] \in down \/ m \notin Paths THEN NoChildren ELSE [ok |-> TRUE, names |-> Under(m)]
  BY <1>1 DEF ChildrenOf, n
<1>5. n \notin 0 .. 3 => ChildrenOf(m, down) = NoChildren
  BY <1>1 DEF ChildrenOf, n
<1> QED BY <1>2, <1>3, <1>4, <1>5 DEF n

\* What is shown below a directory is among its children.
LEMMA ShownChild ==
  ASSUME NEW p \in Shown, NEW k \in Nat, Len(p) = k + 1, NEW down, Clear(p, down)
  PROVE  LET m == SubSeq(p, 1, k) IN p[k + 1] \in ChildrenOf(m, down).names /\ ChildrenOf(m, down).ok
<1> DEFINE m == SubSeq(p, 1, k)
<1>1. p \in Seq(Words) /\ k \in 0 .. 3 /\ p \in Paths /\ p[1] \notin down
  <2>1. p \in Seq(Words) /\ Len(p) \in 0 .. 4 /\ (Len(p) > 0 => p \in Paths)
    BY ShownFacts
  <2>2. Len(p) > 0 /\ k \in 0 .. 3
    BY <2>1
  <2> QED BY <2>1, <2>2 DEF Clear
<1>2. m \in Seq(Words) /\ Len(m) = k /\ (k > 0 => m[1] = p[1])
  BY <1>1, PrefixFacts
<1>3. k > 0 => m \in Paths
  <2>1. k > 0 => k \in 1 .. Len(p)
    BY <1>1
  <2> QED BY <1>1, <2>1, PathsAssumption DEF PathsAssumption
<1>4. p[k + 1] \in Under(m)
  <2>1. SubSeq(m, 1, Len(m)) = SubSeq(p, 1, Len(m)) /\ Len(m) <= Len(p) /\ m # p
    BY <1>1, <1>2, PrefixFacts
  <2> HIDE DEF m
  <2>2. IsStrictPrefix(m, p)
    BY <2>1 DEF IsStrictPrefix, IsPrefix
  <2> QED BY <1>1, <1>2, <2>2 DEF Under
<1>5. p[1] \in PathRemotes /\ (k = 1 => TenantOfRemote(p[1]) \in {NoName, p[2]})
  <2>1. p[1] \in PathRemotes
    BY <1>1, PathWords
  <2>2. k = 1 => p # <<>> /\ Len(p) > 1
    BY <1>1
  <2> QED BY <1>1, <2>1, <2>2 DEF Shown
<1> SUFFICES p[k + 1] \in ChildrenOf(m, down).names /\ ChildrenOf(m, down).ok
  OBVIOUS
<1> HIDE DEF m
<1>6. CASE k = 0
  BY <1>1, <1>2, <1>5, <1>6, ChildrenAt
<1>7. CASE k = 1
  BY <1>1, <1>2, <1>4, <1>5, <1>7, ChildrenAt
<1>8. CASE k \in {2, 3}
  <2>1. Len(m) \in {2, 3} /\ m \in Paths /\ m[1] \notin down
    BY <1>1, <1>2, <1>3, <1>8
  <2>2. ChildrenOf(m, down) = [ok |-> TRUE, names |-> Under(m)]
    BY <2>1, ChildrenAt
  <2> QED BY <1>4, <2>2
<1> QED BY <1>1, <1>6, <1>7, <1>8

\* A name read of a directory is a word.
LEMMA ChildWords ==
  ASSUME PathsTypeOK, NEW m \in Seq(Words), NEW down
  PROVE  ChildrenOf(m, down).names \subseteq Words
<1>1. Under(m) \subseteq Words
  <2> SUFFICES ASSUME NEW q \in Paths, IsStrictPrefix(m, q) PROVE q[Len(m) + 1] \in Words
    BY DEF Under
  <2>1. q \in Seq(Words)
    BY PathWords
  <2>2. Len(m) <= Len(q) /\ SubSeq(m, 1, Len(m)) = SubSeq(q, 1, Len(m)) /\ m # q
    BY DEF IsStrictPrefix, IsPrefix
  <2>3. Len(m) \in Nat /\ Len(q) \in Nat
    BY <2>1
  <2>4. SubSeq(m, 1, Len(m)) = m /\ (Len(m) = Len(q) => SubSeq(q, 1, Len(m)) = q)
    BY <2>1, <2>3, PrefixFacts
  <2>5. Len(m) + 1 \in 1 .. Len(q)
    BY <2>2, <2>3, <2>4
  <2> QED BY <2>1, <2>5
<1>2. m[1] \in PathRemotes /\ TenantOfRemote(m[1]) # NoName => TenantOfRemote(m[1]) \in Words
  BY PathWords, AdminHere DEF TenantOfRemote
<1>3. NoChildren.names = {}
  BY DEF NoChildren
<1>4. Len(m) \in Nat
  OBVIOUS
<1>5. CASE Len(m) = 0
  BY <1>5, PathWords, ChildrenAt
<1>6. CASE Len(m) = 1
  BY <1>1, <1>2, <1>3, <1>6, ChildrenAt
<1>7. CASE Len(m) \in {2, 3}
  BY <1>1, <1>3, <1>7, ChildrenAt
<1>8. CASE Len(m) \notin 0 .. 3
  BY <1>3, <1>8, ChildrenAt
<1> QED BY <1>4, <1>5, <1>6, <1>7, <1>8

-----------------------------------------------------------------------------
(* expandPath                                                              *)

\* At most one "**", and how deep it may go.
Single(segs) == \A i, j \in 1 .. Len(segs) : segs[i] = Globstar /\ segs[j] = Globstar => i = j
LEMMA SingleGlobstar ==
  ASSUME NEW segs \in Seq(Words), Globstars(segs) <= 1
  PROVE  Single(segs)
<1> DEFINE G == {i \in 1 .. Len(segs) : segs[i] = Globstar}
<1>1. Len(segs) \in Nat
  OBVIOUS
<1>2. IsFiniteSet(G)
  <2>1. IsFiniteSet(1 .. Len(segs)) /\ G \subseteq 1 .. Len(segs)
    BY <1>1, FS_Interval
  <2> HIDE DEF G
  <2> QED BY <2>1, FS_Subset
<1>3. ASSUME NEW i \in G, NEW j \in G, i # j PROVE FALSE
  <2> DEFINE one == {i}
             two == one \cup {j}
  <2>1. Cardinality(one) = 1 /\ IsFiniteSet(one) /\ j \notin one /\ two \subseteq G
    BY <1>3, FS_Singleton
  <2> HIDE DEF one, G
  <2>2. Cardinality(two) = 2 /\ IsFiniteSet(two)
    BY <2>1, FS_AddElement
  <2> HIDE DEF two
  <2>4. Cardinality(two) <= Cardinality(G) /\ Cardinality(G) \in Nat
    BY <1>2, <2>1, FS_Subset, FS_CardinalityType
  <2>5. Cardinality(G) <= 1
    BY DEF Globstars, G
  <2> QED BY <2>2, <2>4, <2>5
<1> QED BY <1>3 DEF Single

LEMMA NoGlobstar ==
  ASSUME NEW segs \in Seq(Words), \A i \in 1 .. Len(segs) : segs[i] # Globstar
  PROVE  Globstars(segs) = 0 /\ Fixed(segs) = Len(segs)
<1>1. {i \in 1 .. Len(segs) : segs[i] = Globstar} = {}
  OBVIOUS
<1>2. Globstars(segs) = 0
  BY <1>1, FS_EmptySet DEF Globstars
<1>3. Len(segs) \in Nat
  OBVIOUS
<1> QED BY <1>2, <1>3 DEF Fixed

LEMMA OneGlobstar ==
  ASSUME NEW segs \in Seq(Words), Single(segs), NEW g \in 1 .. Len(segs), segs[g] = Globstar
  PROVE  /\ Globstars(segs) = 1 /\ Fixed(segs) = Len(segs) - 1
         /\ Room(segs, g) = 4 - (Len(segs) - g)
<1>1. Len(segs) \in Nat
  OBVIOUS
<1>2. {i \in 1 .. Len(segs) : segs[i] = Globstar} = {g}
  BY DEF Single
<1>3. Globstars(segs) = 1
  BY <1>2, FS_Singleton DEF Globstars
<1> DEFINE rest == SubSeq(segs, g + 1, Len(segs))
<1>4. rest \in Seq(Words) /\ Len(rest) = Len(segs) - g /\ \A k \in 1 .. Len(rest) : rest[k] = segs[g + k]
  BY <1>1
<1>5. Fixed(rest) = Len(rest)
  <2> HIDE DEF rest
  <2>1. \A k \in 1 .. Len(rest) : rest[k] # Globstar
    BY <1>1, <1>4 DEF Single
  <2> QED BY <1>4, <2>1, NoGlobstar
<1>6. Room(segs, g) = 4 - Fixed(rest)
  BY DEF Room, Level
<1> HIDE DEF rest
<1> QED BY <1>1, <1>3, <1>4, <1>5, <1>6 DEF Fixed

\* The fold of expandPath, as the community modules define it.
Expanding(f, ix, segs, down, D) ==
  f = [s \in SUBSET D |-> IF s = {} THEN {<<>>} ELSE Extended(segs, ix[Max(s)], f[s \ {Max(s)}], down)]
LEMMA ExpandUnfolds ==
  ASSUME NEW segs, NEW down
  PROVE  LET ix == [i \in DOMAIN segs |-> i]
             at == (CHOOSE f : Expanding(f, ix, segs, down, DOMAIN ix))[DOMAIN ix]
         IN ExpandPath(segs, down) = [ok |-> at # {}, at |-> at]
<1> DEFINE ix == [i \in DOMAIN segs |-> i]
           extend(found, i) == Extended(segs, i, found, down)
           at == (CHOOSE f : Expanding(f, ix, segs, down, DOMAIN ix))[DOMAIN ix]
<1>1. FoldLeftDomain(extend, {<<>>}, segs) =
        (CHOOSE f : f = [s \in SUBSET DOMAIN ix |->
           IF s = {} THEN {<<>>} ELSE Extended(segs, ix[Max(s)], f[s \ {Max(s)}], down)])[DOMAIN ix]
  BY Zenon DEF FoldLeftDomain, FoldLeft, MapThenFoldSet
<1>2. (CHOOSE f : f = [s \in SUBSET DOMAIN ix |->
           IF s = {} THEN {<<>>} ELSE Extended(segs, ix[Max(s)], f[s \ {Max(s)}], down)])
      = (CHOOSE f : Expanding(f, ix, segs, down, DOMAIN ix))
  BY Zenon DEF Expanding
<1>3. FoldLeftDomain(extend, {<<>>}, segs) = at
  BY <1>1, <1>2, Zenon
<1>4. ExpandPath(segs, down) = [ok |-> at # {}, at |-> at]
  BY <1>3, Zenon DEF ExpandPath
<1> QED BY <1>4

LEMMA ExpandExists ==
  ASSUME NEW ix, NEW segs, NEW down, NEW n \in Nat
  PROVE  \E f : Expanding(f, ix, segs, down, 1 .. n)
<1> DEFINE S == {k \in Nat : \E f : Expanding(f, ix, segs, down, 1 .. k)}
<1>1. 0 \in S
  <2> DEFINE g == [s \in SUBSET (1 .. 0) |-> {<<>>}]
  <2>1. 1 .. 0 = {}
    OBVIOUS
  <2>2. g = [s \in SUBSET (1 .. 0) |-> IF s = {} THEN {<<>>} ELSE Extended(segs, ix[Max(s)], g[s \ {Max(s)}], down)]
    BY <2>1
  <2> HIDE DEF g
  <2> QED BY <2>2 DEF Expanding
<1>2. ASSUME NEW k \in Nat, k \in S PROVE k + 1 \in S
  <2>1. PICK f : Expanding(f, ix, segs, down, 1 .. k)
    BY <1>2
  <2> DEFINE g == [s \in SUBSET (1 .. (k + 1)) |->
                     IF k + 1 \in s THEN Extended(segs, ix[k + 1], f[s \ {k + 1}], down) ELSE f[s]]
             h == [s \in SUBSET (1 .. (k + 1)) |->
                     IF s = {} THEN {<<>>} ELSE Extended(segs, ix[Max(s)], g[s \ {Max(s)}], down)]
  <2>2. ASSUME NEW s \in SUBSET (1 .. (k + 1)), k + 1 \in s PROVE g[s] = h[s]
    <3>1. Max(s) = k + 1 /\ s \ {k + 1} \in SUBSET (1 .. k) /\ s # {}
      BY <2>2, Before
    <3>2. g[s \ {k + 1}] = f[s \ {k + 1}]
      BY <3>1
    <3>3. g[s] = Extended(segs, ix[k + 1], f[s \ {k + 1}], down)
      BY <2>2
    <3>4. h[s] = Extended(segs, ix[k + 1], g[s \ {k + 1}], down)
      <4> HIDE DEF g
      <4> QED BY <3>1
    <3> QED BY <3>2, <3>3, <3>4
  <2>3. ASSUME NEW s \in SUBSET (1 .. (k + 1)), k + 1 \notin s PROVE g[s] = h[s]
    <3>1. s \in SUBSET (1 .. k)
      BY <2>3
    <3>2. g[s] = f[s]
      BY <2>3
    <3>3. f[s] = IF s = {} THEN {<<>>} ELSE Extended(segs, ix[Max(s)], f[s \ {Max(s)}], down)
      BY <2>1, <3>1 DEF Expanding
    <3>4. s # {} => Max(s) \in s /\ s \ {Max(s)} \in SUBSET (1 .. k) /\ k + 1 \notin s \ {Max(s)}
      BY <2>3, <3>1, GreatestOf
    <3>5. s # {} => g[s \ {Max(s)}] = f[s \ {Max(s)}]
      BY <3>4
    <3>6. h[s] = IF s = {} THEN {<<>>} ELSE Extended(segs, ix[Max(s)], g[s \ {Max(s)}], down)
      <4> HIDE DEF g
      <4> QED OBVIOUS
    <3> HIDE DEF g, h
    <3> QED BY <3>2, <3>3, <3>5, <3>6
  <2>4. g = h
    <3>1. \A s \in SUBSET (1 .. (k + 1)) : g[s] = h[s]
      <4> HIDE DEF g, h
      <4> QED BY <2>2, <2>3
    <3>2. g = [s \in SUBSET (1 .. (k + 1)) |-> g[s]]
      OBVIOUS
    <3>3. h = [s \in SUBSET (1 .. (k + 1)) |-> h[s]]
      <4> HIDE DEF g
      <4> QED OBVIOUS
    <3> HIDE DEF g, h
    <3> QED BY <3>1, <3>2, <3>3, Zenon
  <2>5. Expanding(g, ix, segs, down, 1 .. (k + 1))
    <3> HIDE DEF g
    <3> QED BY <2>4 DEF Expanding
  <2> HIDE DEF g
  <2> QED BY <2>5
<1> HIDE DEF S
<1>3. n \in S
  BY <1>1, <1>2, Inductive
<1> QED BY <1>3 DEF S

\* The sets of matches, one for each segment and one to start from.
Found(e, segs, down) == e[0] = {<<>>} /\ \A i \in 1 .. Len(segs) : e[i] = Extended(segs, i, e[i - 1], down)
LEMMA ExpandFound ==
  ASSUME NEW segs \in Seq(Words), NEW down
  PROVE  \E e : /\ Found(e, segs, down)
                /\ ExpandPath(segs, down) = [ok |-> e[Len(segs)] # {}, at |-> e[Len(segs)]]
<1> DEFINE n == Len(segs)
           ix == [i \in DOMAIN segs |-> i]
           f == CHOOSE x : Expanding(x, ix, segs, down, 1 .. n)
           e == [i \in 0 .. n |-> f[1 .. i]]
<1>1. n \in Nat /\ DOMAIN segs = 1 .. n /\ DOMAIN ix = 1 .. n /\ \A i \in 1 .. n : ix[i] = i
  OBVIOUS
<1>2. Expanding(f, ix, segs, down, 1 .. n)
  BY <1>1, ExpandExists
<1>3. ExpandPath(segs, down) = [ok |-> f[1 .. n] # {}, at |-> f[1 .. n]]
  BY <1>1, ExpandUnfolds, Zenon
<1> HIDE DEF f, ix
<1>4. e[0] = {<<>>}
  <2>1. 1 .. 0 = {} /\ {} \in SUBSET (1 .. n)
    OBVIOUS
  <2>2. f[{}] = {<<>>}
    BY <1>2, <2>1 DEF Expanding
  <2> QED BY <1>1, <2>1, <2>2
<1>5. ASSUME NEW i \in 1 .. n PROVE e[i] = Extended(segs, i, e[i - 1], down)
  <2>1. i - 1 \in Nat /\ (i - 1) + 1 = i /\ i \in 0 .. n /\ i - 1 \in 0 .. n
    BY <1>1
  <2>2. Max(1 .. i) = i /\ (1 .. i) \ {i} = 1 .. (i - 1)
    BY <2>1, Before
  <2>3. 1 .. i \in SUBSET (1 .. n) /\ 1 .. i # {}
    <3>1. \A x \in 1 .. i : x \in 1 .. n
      BY <1>1, <2>1
    <3>2. 1 \in 1 .. i
      BY <2>1
    <3> QED BY <3>1, <3>2
  <2>4. f[1 .. i] = Extended(segs, ix[i], f[1 .. (i - 1)], down)
    BY <1>2, <2>2, <2>3 DEF Expanding
  <2>5. e[i] = f[1 .. i] /\ e[i - 1] = f[1 .. (i - 1)]
    BY <2>1
  <2> HIDE DEF e
  <2> QED BY <1>1, <2>4, <2>5
<1>6. Found(e, segs, down)
  BY <1>4, <1>5 DEF Found
<1>7. ExpandPath(segs, down) = [ok |-> e[n] # {}, at |-> e[n]]
  <2>1. e[n] = f[1 .. n]
    BY <1>1
  <2> HIDE DEF e
  <2> QED BY <1>3, <2>1
<1> HIDE DEF e
<1> QED BY <1>6, <1>7

\* The paths the first i segments stand for.
Fits(segs, i, p) ==
  /\ (\A k \in 1 .. i : segs[k] # Globstar) => Len(p) = i /\ \A k \in 1 .. i : MatchName(segs[k], p[k])
  /\ \A g \in 1 .. i : segs[g] = Globstar =>
       /\ Len(p) >= i - 1
       /\ \A k \in 1 .. (g - 1) : MatchName(segs[k], p[k])
       /\ \A k \in (g + 1) .. i : MatchName(segs[k], p[Len(p) - i + k])

LEMMA FitsNone ==
  ASSUME NEW segs \in Seq(Words), NEW p \in Seq(Words)
  PROVE  Fits(segs, 0, p) <=> p = <<>>
<1>1. Len(p) = 0 <=> p = <<>>
  OBVIOUS
<1> QED BY <1>1 DEF Fits

\* A segment that is not "**" stands for the last name.
LEMMA FitsName ==
  ASSUME NEW segs \in Seq(Words), Single(segs), NEW i \in 1 .. Len(segs), segs[i] # Globstar, NEW p \in Seq(Words)
  PROVE  Fits(segs, i, p) <=> /\ Len(p) >= 1 /\ Fits(segs, i - 1, SubSeq(p, 1, Len(p) - 1))
                              /\ MatchName(segs[i], p[Len(p)])
<1> DEFINE q == SubSeq(p, 1, Len(p) - 1)
<1>1. Len(segs) \in Nat /\ Len(p) \in Nat /\ i \in Nat
  OBVIOUS
<1>2. ASSUME Len(p) >= 1 PROVE Len(q) = Len(p) - 1 /\ \A k \in 1 .. (Len(p) - 1) : q[k] = p[k]
  <2>1. Len(p) - 1 \in 0 .. Len(p)
    BY <1>1, <1>2
  <2> QED BY <2>1, PrefixFacts
<1> HIDE DEF q
<1>3. CASE \A k \in 1 .. i : segs[k] # Globstar
  <2>1. \A k \in 1 .. (i - 1) : segs[k] # Globstar
    BY <1>1, <1>3
  <2>2. Fits(segs, i, p) <=> Len(p) = i /\ \A k \in 1 .. i : MatchName(segs[k], p[k])
    BY <1>3 DEF Fits
  <2>3. Fits(segs, i - 1, q) <=> Len(q) = i - 1 /\ \A k \in 1 .. (i - 1) : MatchName(segs[k], q[k])
    BY <2>1 DEF Fits
  <2>4. ASSUME Len(p) = i PROVE Len(q) = i - 1 /\ \A k \in 1 .. (i - 1) : q[k] = p[k]
    BY <1>1, <1>2, <2>4
  <2>5. Len(p) >= 1 /\ Len(q) = i - 1 => Len(p) = i
    BY <1>1, <1>2
  <2>6. (\A k \in 1 .. i : MatchName(segs[k], p[k]))
          <=> (\A k \in 1 .. (i - 1) : MatchName(segs[k], p[k])) /\ MatchName(segs[i], p[i])
    <3>1. 1 .. i = (1 .. (i - 1)) \cup {i}
      BY <1>1
    <3> QED BY <3>1
  <2> QED BY <1>1, <2>2, <2>3, <2>4, <2>5, <2>6 DEF q
<1>4. ASSUME NEW g \in 1 .. i, segs[g] = Globstar
      PROVE  Fits(segs, i, p) <=> Len(p) >= 1 /\ Fits(segs, i - 1, q) /\ MatchName(segs[i], p[Len(p)])
  <2>1. g \in 1 .. (i - 1) /\ g \in 1 .. Len(segs) /\ g \in Nat
    BY <1>1, <1>4
  <2>2. \A h \in 1 .. i : segs[h] = Globstar <=> h = g
    BY <1>1, <1>4, <2>1 DEF Single
  <2>3. Fits(segs, i, p) <=> /\ Len(p) >= i - 1
                             /\ \A k \in 1 .. (g - 1) : MatchName(segs[k], p[k])
                             /\ \A k \in (g + 1) .. i : MatchName(segs[k], p[Len(p) - i + k])
    BY <1>4, <2>2 DEF Fits
  <2>4. Fits(segs, i - 1, q) <=> /\ Len(q) >= i - 1 - 1
                                 /\ \A k \in 1 .. (g - 1) : MatchName(segs[k], q[k])
                                 /\ \A k \in (g + 1) .. (i - 1) : MatchName(segs[k], q[Len(q) - (i - 1) + k])
    <3>1. \A h \in 1 .. (i - 1) : segs[h] = Globstar <=> h = g
      BY <1>1, <2>2
    <3> QED BY <2>1, <3>1 DEF Fits
  <2>5. Len(p) >= i - 1 => Len(p) >= 1
    BY <1>1, <2>1
  <2>6. ASSUME Len(p) >= 1
        PROVE  /\ Len(q) >= i - 1 - 1 <=> Len(p) >= i - 1
               /\ Len(p) >= i - 1 =>
                    /\ \A k \in 1 .. (g - 1) : q[k] = p[k]
                    /\ \A k \in (g + 1) .. (i - 1) : q[Len(q) - (i - 1) + k] = p[Len(p) - i + k]
    <3>1. Len(q) = Len(p) - 1
      BY <1>2, <2>6
    <3>2. ASSUME Len(p) >= i - 1, NEW k \in 1 .. (g - 1) PROVE q[k] = p[k]
      <4>1. k \in 1 .. (Len(p) - 1)
        BY <1>1, <2>1, <3>2
      <4> QED BY <1>2, <2>6, <4>1
    <3>3. ASSUME Len(p) >= i - 1, NEW k \in (g + 1) .. (i - 1) PROVE q[Len(q) - (i - 1) + k] = p[Len(p) - i + k]
      <4>1. Len(p) - i + k \in 1 .. (Len(p) - 1) /\ Len(q) - (i - 1) + k = Len(p) - i + k
        BY <1>1, <2>1, <3>1, <3>3
      <4> QED BY <1>2, <2>6, <4>1
    <3> QED BY <1>1, <3>1, <3>2, <3>3
  <2>7. (\A k \in (g + 1) .. i : MatchName(segs[k], p[Len(p) - i + k]))
          <=> /\ \A k \in (g + 1) .. (i - 1) : MatchName(segs[k], p[Len(p) - i + k])
              /\ MatchName(segs[i], p[Len(p)])
    <3>1. (g + 1) .. i = ((g + 1) .. (i - 1)) \cup {i} /\ Len(p) - i + i = Len(p)
      BY <1>1, <2>1
    <3> QED BY <3>1
  <2> QED BY <2>3, <2>4, <2>5, <2>6, <2>7
<1> QED BY <1>3, <1>4 DEF q

\* A "**" stands for any names after those the segments before it stand for.
LEMMA FitsGlobstar ==
  ASSUME NEW segs \in Seq(Words), Single(segs), NEW i \in 1 .. Len(segs), segs[i] = Globstar, NEW p \in Seq(Words)
  PROVE  /\ Fits(segs, i, p) <=> \E k \in 0 .. Len(p) : Fits(segs, i - 1, SubSeq(p, 1, k))
         /\ \A k \in 0 .. Len(p) : Fits(segs, i - 1, SubSeq(p, 1, k)) => k = i - 1
<1>1. Len(segs) \in Nat /\ Len(p) \in Nat /\ i \in Nat
  OBVIOUS
<1>2. \A h \in 1 .. i : segs[h] = Globstar <=> h = i
  BY <1>1 DEF Single
<1>3. Fits(segs, i, p) <=> Len(p) >= i - 1 /\ \A k \in 1 .. (i - 1) : MatchName(segs[k], p[k])
  BY <1>1, <1>2 DEF Fits
<1>4. ASSUME NEW k \in 0 .. Len(p)
      PROVE  Fits(segs, i - 1, SubSeq(p, 1, k)) <=> k = i - 1 /\ \A j \in 1 .. (i - 1) : MatchName(segs[j], p[j])
  <2> DEFINE q == SubSeq(p, 1, k)
  <2>1. Len(q) = k /\ \A j \in 1 .. k : q[j] = p[j]
    BY PrefixFacts
  <2> HIDE DEF q
  <2>2. \A h \in 1 .. (i - 1) : segs[h] # Globstar
    BY <1>1, <1>2
  <2>3. Fits(segs, i - 1, q) <=> Len(q) = i - 1 /\ \A j \in 1 .. (i - 1) : MatchName(segs[j], q[j])
    BY <2>2 DEF Fits
  <2> QED BY <2>1, <2>3 DEF q
<1> QED BY <1>1, <1>3, <1>4

-----------------------------------------------------------------------------
(* The matches of a listing fit                                            *)

\* How each name of a match was found: read of its directory, or taken on
\* trust from a literal segment before any "**".
Read(segs, p, k, down) == p[k] \in ChildrenOf(SubSeq(p, 1, k - 1), down).names
Believed(segs, p, k) ==
  /\ k # 4 /\ k \in 1 .. Len(segs) /\ p[k] = segs[k] /\ ~IsPattern(segs[k])
  /\ \A j \in 1 .. k : segs[j] # Globstar
Sourced(segs, p, down) == \A k \in 1 .. Len(p) : Read(segs, p, k, down) \/ Believed(segs, p, k)
Matching(segs, i, down) == {p \in Seq(Words) : Len(p) <= 4 /\ Fits(segs, i, p) /\ Sourced(segs, p, down)}

LEMMA SourcedMore ==
  ASSUME NEW segs, NEW down, NEW p \in Seq(Words), NEW n \in 0 .. Len(p), Sourced(segs, SubSeq(p, 1, n), down),
         \A k \in (n + 1) .. Len(p) : Read(segs, p, k, down) \/ Believed(segs, p, k)
  PROVE  Sourced(segs, p, down)
<1> DEFINE m == SubSeq(p, 1, n)
<1>1. m \in Seq(Words) /\ Len(m) = n /\ \A j \in 1 .. n : m[j] = p[j]
  BY PrefixFacts
<1>2. Len(p) \in Nat
  OBVIOUS
<1>3. ASSUME NEW k \in 1 .. n PROVE Read(segs, p, k, down) \/ Believed(segs, p, k)
  <2>1. k - 1 \in 0 .. n /\ k \in 1 .. Len(m) /\ m[k] = p[k]
    BY <1>1
  <2>2. SubSeq(m, 1, k - 1) = SubSeq(p, 1, k - 1)
    BY <2>1, PrefixOfPrefix
  <2> HIDE DEF m
  <2>3. Read(segs, m, k, down) \/ Believed(segs, m, k)
    BY <2>1 DEF Sourced, m
  <2>4. Read(segs, m, k, down) <=> Read(segs, p, k, down)
    BY <2>1, <2>2 DEF Read
  <2>5. Believed(segs, m, k) <=> Believed(segs, p, k)
    BY <2>1 DEF Believed
  <2> QED BY <2>3, <2>4, <2>5
<1>4. \A k \in 1 .. Len(p) : k \in 1 .. n \/ k \in (n + 1) .. Len(p)
  BY <1>2
<1> QED BY <1>3, <1>4 DEF Sourced

LEMMA MatchingName ==
  ASSUME PathsTypeOK, NEW segs \in Seq(Words), Single(segs), NEW down, NEW i \in 1 .. Len(segs), segs[i] # Globstar,
         NEW m \in Matching(segs, i - 1, down), Len(m) < 4, NEW p \in Extensions(segs, i, m, down)
  PROVE  p \in Matching(segs, i, down)
<1>1. m \in Seq(Words) /\ Fits(segs, i - 1, m) /\ Sourced(segs, m, down)
  BY DEF Matching
<1>2. i \in Nat /\ segs[i] \in Words /\ Len(m) \in Nat /\ Len(segs) \in Nat
  BY <1>1
<1>3. \E c \in Words : p = Append(m, c) /\ MatchName(segs[i], c)
                       /\ \/ c \in ChildrenOf(m, down).names
                          \/ Trusted(segs, i, m) /\ c = segs[i]
  <2>1. CASE Trusted(segs, i, m)
    <3>1. p = Append(m, segs[i])
      BY <2>1 DEF Extensions
    <3> QED BY <1>2, <2>1, <3>1 DEF Trusted, MatchName
  <2>2. CASE ~Trusted(segs, i, m)
    <3>1. p \in {Append(m, c) : c \in {n \in ChildrenOf(m, down).names : MatchName(segs[i], n)}}
      BY <2>2 DEF Extensions
    <3>2. ChildrenOf(m, down).names \subseteq Words
      BY <1>1, ChildWords
    <3> QED BY <3>1, <3>2
  <2> QED BY <2>1, <2>2
<1>4. PICK c \in Words : p = Append(m, c) /\ MatchName(segs[i], c)
                         /\ \/ c \in ChildrenOf(m, down).names
                            \/ Trusted(segs, i, m) /\ c = segs[i]
  BY <1>3
<1>5. p \in Seq(Words) /\ Len(p) = Len(m) + 1 /\ p[Len(p)] = c /\ SubSeq(p, 1, Len(p) - 1) = m
  BY <1>1, <1>4, AppendFacts
<1>6. Fits(segs, i, p)
  <2>1. Fits(segs, i, p) <=> /\ Len(p) >= 1 /\ Fits(segs, i - 1, SubSeq(p, 1, Len(p) - 1))
                             /\ MatchName(segs[i], p[Len(p)])
    BY <1>5, FitsName, Zenon
  <2>2. Len(p) >= 1
    BY <1>2, <1>5
  <2>3. Fits(segs, i - 1, SubSeq(p, 1, Len(p) - 1)) /\ MatchName(segs[i], p[Len(p)])
    BY <1>1, <1>4, <1>5, Zenon
  <2> QED BY <2>1, <2>2, <2>3
<1>7. Trusted(segs, i, m) /\ c = segs[i] => Believed(segs, p, Len(p))
  <2> SUFFICES ASSUME Trusted(segs, i, m), c = segs[i] PROVE Believed(segs, p, Len(p))
    OBVIOUS
  <2>1. \A j \in 1 .. i : segs[j] # Globstar
    BY <1>2 DEF Trusted, Loose
  <2>2. Len(m) = i - 1
    <3>1. \A j \in 1 .. (i - 1) : segs[j] # Globstar
      BY <1>2, <2>1
    <3> QED BY <1>1, <3>1 DEF Fits
  <2>3. Len(p) = i
    BY <1>2, <1>5, <2>2
  <2>4. Len(p) # 4
    BY <1>2, <1>5 DEF Trusted, Level
  <2> QED BY <1>5, <2>1, <2>3, <2>4 DEF Believed, Trusted
<1>8. c \in ChildrenOf(m, down).names => Read(segs, p, Len(p), down)
  BY <1>5 DEF Read
<1>9. Sourced(segs, p, down)
  <2>1. Len(p) - 1 \in 0 .. Len(p) /\ \A k \in (Len(p) - 1 + 1) .. Len(p) : k = Len(p)
    BY <1>2, <1>5
  <2>2. \A k \in (Len(p) - 1 + 1) .. Len(p) : Read(segs, p, k, down) \/ Believed(segs, p, k)
    BY <1>4, <1>7, <1>8, <2>1, Zenon
  <2>3. Sourced(segs, SubSeq(p, 1, Len(p) - 1), down)
    BY <1>1, <1>5, Zenon
  <2>4. p \in Seq(Words) /\ Len(p) - 1 \in 0 .. Len(p)
    BY <1>5, <2>1, Zenon
  <2> QED BY <2>2, <2>3, <2>4, SourcedMore, Zenon
<1> QED BY <1>2, <1>5, <1>6, <1>9 DEF Matching

LEMMA MatchingGlobstar ==
  ASSUME PathsTypeOK, NEW segs \in Seq(Words), Single(segs), NEW down, NEW i \in 1 .. Len(segs), segs[i] = Globstar,
         NEW m \in Matching(segs, i - 1, down), Len(m) < 4, NEW p \in Extensions(segs, i, m, down)
  PROVE  p \in Matching(segs, i, down)
<1>1. m \in Seq(Words) /\ Len(m) <= 4 /\ Fits(segs, i - 1, m) /\ Sourced(segs, m, down) /\ Len(m) \in Nat
  BY DEF Matching
<1>0. \A q \in Seq(Words) : Fits(segs, i, q) <=> \E k \in 0 .. Len(q) : Fits(segs, i - 1, SubSeq(q, 1, k))
  BY FitsGlobstar
<1>2. p = m \/ p \in Descendants(m, Room(segs, i), down)
  BY DEF Extensions
<1>3. CASE p = m
  <2>1. Len(m) \in 0 .. Len(m) /\ SubSeq(m, 1, Len(m)) = m
    BY <1>1, PrefixFacts
  <2>2. Fits(segs, i, m)
    <3>1. Fits(segs, i, m) <=> \E k \in 0 .. Len(m) : Fits(segs, i - 1, SubSeq(m, 1, k))
      BY <1>0, <1>1, Zenon
    <3> QED BY <1>1, <2>1, <3>1, Zenon
  <2> QED BY <1>1, <1>3, <2>2 DEF Matching
<1>4. CASE p \in Descendants(m, Room(segs, i), down)
  <2>1. /\ p \in Paths /\ IsStrictPrefix(m, p)
        /\ \A k \in Len(m) .. (Len(p) - 1) : p[k + 1] \in ChildrenOf(SubSeq(p, 1, k), down).names
    BY <1>4 DEF Descendants
  <2>2. p \in Seq(Words) /\ Len(p) <= 4 /\ Len(p) \in Nat
    <3>1. p \in Seq(Words) /\ Len(p) \in 1 .. 4
      BY <2>1, PathWords, Zenon
    <3>2. \A l \in 1 .. 4 : l <= 4 /\ l \in Nat
      OBVIOUS
    <3> QED BY <3>1, <3>2, Zenon
  <2>3. Len(m) <= Len(p) /\ SubSeq(p, 1, Len(m)) = SubSeq(m, 1, Len(m))
    BY <2>1 DEF IsStrictPrefix, IsPrefix
  <2>4. Len(m) \in 0 .. Len(p) /\ SubSeq(p, 1, Len(m)) = m
    BY <1>1, <2>2, <2>3, PrefixFacts
  <2>5. Fits(segs, i, p)
    <3>1. Fits(segs, i, p) <=> \E k \in 0 .. Len(p) : Fits(segs, i - 1, SubSeq(p, 1, k))
      BY <1>0, <2>2, Zenon
    <3> QED BY <1>1, <2>4, <3>1, Zenon
  <2>6. ASSUME NEW k \in (Len(m) + 1) .. Len(p) PROVE Read(segs, p, k, down)
    <3>1. k - 1 \in Len(m) .. (Len(p) - 1) /\ (k - 1) + 1 = k
      BY <1>1, <2>2, <2>6
    <3> QED BY <2>1, <3>1 DEF Read
  <2>7. Sourced(segs, p, down)
    BY <1>1, <2>2, <2>4, <2>6, SourcedMore
  <2> QED BY <2>2, <2>5, <2>7 DEF Matching
<1> QED BY <1>2, <1>3, <1>4

LEMMA FoundFits ==
  ASSUME PathsTypeOK, NEW segs \in Seq(Words), Single(segs), NEW down, NEW e, Found(e, segs, down)
  PROVE  \A i \in 0 .. Len(segs) : e[i] \subseteq Matching(segs, i, down)
<1> DEFINE S == {i \in Nat : i <= Len(segs) => e[i] \subseteq Matching(segs, i, down)}
<1>1. 0 \in S
  <2>1. <<>> \in Seq(Words) /\ Len(<<>>) = 0
    OBVIOUS
  <2>2. <<>> \in Matching(segs, 0, down)
    <3>1. Fits(segs, 0, <<>>)
      BY <2>1, FitsNone
    <3>2. Sourced(segs, <<>>, down)
      BY <2>1 DEF Sourced
    <3> QED BY <2>1, <3>1, <3>2 DEF Matching
  <2> QED BY <2>2 DEF Found
<1>2. ASSUME NEW j \in Nat, j \in S PROVE j + 1 \in S
  <2> SUFFICES ASSUME j + 1 <= Len(segs), NEW p \in e[j + 1] PROVE p \in Matching(segs, j + 1, down)
    OBVIOUS
  <2> DEFINE i == j + 1
  <2>1. i \in 1 .. Len(segs) /\ i - 1 = j /\ j <= Len(segs)
    BY <1>2
  <2>2. e[j] \subseteq Matching(segs, j, down)
    BY <1>2, <2>1
  <2> HIDE DEF S, i
  <2>3. p \in Extended(segs, i, e[j], down)
    BY <2>1 DEF Found, i
  <2>4. PICK m \in e[j] : Len(m) < 4 /\ p \in Extensions(segs, i, m, down)
    BY <2>3 DEF Extended, Level
  <2>5. CASE segs[i] = Globstar
    BY <2>1, <2>2, <2>4, <2>5, MatchingGlobstar DEF i
  <2>6. CASE segs[i] # Globstar
    BY <2>1, <2>2, <2>4, <2>6, MatchingName DEF i
  <2> QED BY <2>5, <2>6
<1> HIDE DEF S
<1>3. Nat \subseteq S
  BY <1>1, <1>2, Inductive
<1>4. ASSUME NEW i \in 0 .. Len(segs) PROVE e[i] \subseteq Matching(segs, i, down)
  <2>1. i \in S /\ i <= Len(segs)
    BY <1>3
  <2> QED BY <2>1 DEF S
<1> QED BY <1>4

-----------------------------------------------------------------------------
(* What fits is listed                                                     *)

\* Nothing follows from no match, so a listing that has one never lost all.
LEMMA SomeFound ==
  ASSUME NEW segs \in Seq(Words), NEW down, NEW e, Found(e, segs, down), e[Len(segs)] # {}
  PROVE  \A i \in 0 .. Len(segs) : e[i] # {}
<1>1. Len(segs) \in Nat
  OBVIOUS
<1>2. ASSUME NEW i \in 1 .. Len(segs), e[i] # {} PROVE e[i - 1] # {}
  <2>1. e[i] = Extended(segs, i, e[i - 1], down)
    BY DEF Found
  <2> DEFINE found == e[i - 1]
  <2>2. ASSUME found = {} PROVE Extended(segs, i, found, down) = {}
    BY <2>2 DEF Extended
  <2> QED BY <1>2, <2>1, <2>2
<1> DEFINE S == {k \in Nat : k <= Len(segs) => e[Len(segs) - k] # {}}
<1>3. 0 \in S
  BY <1>1
<1>4. ASSUME NEW k \in Nat, k \in S PROVE k + 1 \in S
  <2> SUFFICES ASSUME k + 1 <= Len(segs) PROVE e[Len(segs) - (k + 1)] # {}
    OBVIOUS
  <2>1. Len(segs) - k \in 1 .. Len(segs) /\ (Len(segs) - k) - 1 = Len(segs) - (k + 1) /\ k <= Len(segs)
    BY <1>1
  <2>2. e[Len(segs) - k] # {}
    BY <1>4, <2>1
  <2>3. e[(Len(segs) - k) - 1] # {}
    BY <1>2, <2>1, <2>2, Zenon
  <2> QED BY <2>1, <2>3
<1>5. Nat \subseteq S
  <2> HIDE DEF S
  <2> QED BY <1>3, <1>4, Inductive
<1>6. ASSUME NEW i \in 0 .. Len(segs) PROVE e[i] # {}
  <2>1. Len(segs) - i \in S /\ Len(segs) - i <= Len(segs) /\ Len(segs) - (Len(segs) - i) = i
    <3> HIDE DEF S
    <3> QED BY <1>1, <1>5
  <2> QED BY <2>1
<1> QED BY <1>6

\* A path shown below one of its directories is among what descends from it.
LEMMA ShownBelow ==
  ASSUME NEW p \in Shown, NEW n \in 0 .. Len(p), n < Len(p), NEW depth, Len(p) <= depth, NEW down, Clear(p, down)
  PROVE  p \in Descendants(SubSeq(p, 1, n), depth, down)
<1> DEFINE m == SubSeq(p, 1, n)
<1>1. p \in Seq(Words) /\ Len(p) \in 0 .. 4 /\ (Len(p) > 0 => p \in Paths) /\ Len(p) \in Nat
  BY ShownFacts
<1>2. Len(m) = n /\ m \in Seq(Words)
  BY <1>1, PrefixFacts
<1>3. IsStrictPrefix(m, p)
  <2>1. SubSeq(m, 1, Len(m)) = SubSeq(p, 1, Len(m)) /\ Len(m) <= Len(p) /\ m # p
    BY <1>1, <1>2, PrefixFacts
  <2> HIDE DEF m
  <2> QED BY <2>1 DEF IsStrictPrefix, IsPrefix
<1>4. ASSUME NEW k \in n .. (Len(p) - 1) PROVE p[k + 1] \in ChildrenOf(SubSeq(p, 1, k), down).names
  <2> DEFINE q == SubSeq(p, 1, k + 1)
  <2>1. k \in Nat /\ k + 1 \in 0 .. Len(p) /\ k \in 0 .. (k + 1) /\ k + 1 \in 1 .. (k + 1)
    BY <1>1, <1>4
  <2>2. q \in Shown
    BY <2>1, ShownFacts
  <2>3. Len(q) = k + 1 /\ \A j \in 1 .. (k + 1) : q[j] = p[j]
    BY <1>1, <2>1, PrefixFacts
  <2>4. SubSeq(q, 1, k) = SubSeq(p, 1, k)
    BY <1>1, <2>1, PrefixOfPrefix
  <2>5. Clear(q, down)
    <3>1. 1 \in 1 .. (k + 1) /\ Len(p) > 0
      BY <1>1, <2>1
    <3> HIDE DEF q
    <3> QED BY <2>3, <3>1 DEF Clear
  <2> HIDE DEF q
  <2>6. q[k + 1] \in ChildrenOf(SubSeq(q, 1, k), down).names
    BY <2>1, <2>2, <2>3, <2>5, ShownChild
  <2> QED BY <2>1, <2>3, <2>4, <2>6
<1>5. p \in Paths
  BY <1>1
<1> HIDE DEF m
<1> QED BY <1>2, <1>3, <1>4, <1>5 DEF Descendants, m

LEMMA LooseMore ==
  ASSUME NEW segs, NEW k \in Nat, Loose(segs, k)
  PROVE  Loose(segs, k + 1)
<1>1. PICK h \in 1 .. (k - 1) : segs[h] = Globstar
  BY DEF Loose
<1>2. h \in 1 .. (k + 1 - 1)
  OBVIOUS
<1> QED BY <1>1, <1>2 DEF Loose

\* The length a "**" leaves to what it stands for.
Within(segs, i, p) == Loose(segs, i + 1) => Len(p) <= 4 - (Len(segs) - i)
LEMMA FitsFound ==
  ASSUME PathsTypeOK, NEW segs \in Seq(Words), Single(segs), Fixed(segs) <= 4, NEW down, NEW e, Found(e, segs, down), e[Len(segs)] # {}
  PROVE  \A i \in 0 .. Len(segs) : \A p \in Shown : Clear(p, down) /\ Fits(segs, i, p) /\ Within(segs, i, p) => p \in e[i]
<1> DEFINE P(i) == \A p \in Shown : Clear(p, down) /\ Fits(segs, i, p) /\ Within(segs, i, p) => p \in e[i]
           S == {i \in Nat : i <= Len(segs) => P(i)}
<1>0. Len(segs) \in Nat
  OBVIOUS
<1>1. 0 \in S
  <2> SUFFICES ASSUME NEW p \in Shown, Fits(segs, 0, p) PROVE p \in e[0]
    OBVIOUS
  <2>1. p = <<>>
    BY ShownFacts, FitsNone
  <2> QED BY <2>1 DEF Found
<1>2. ASSUME NEW j \in Nat, j \in S PROVE j + 1 \in S
  <2> SUFFICES ASSUME j + 1 <= Len(segs), NEW p \in Shown, Clear(p, down), Fits(segs, j + 1, p), Within(segs, j + 1, p)
               PROVE  p \in e[j + 1]
    OBVIOUS
  <2> DEFINE i == j + 1
  <2>1. i \in 1 .. Len(segs) /\ i - 1 = j /\ j <= Len(segs) /\ i \in 0 .. Len(segs) /\ i \in Nat /\ i = j + 1
    BY <1>0, <1>2
  <2>2. ASSUME NEW q \in Shown, Clear(q, down), Fits(segs, j, q), Within(segs, j, q) PROVE q \in e[j]
    BY <1>2, <2>1, <2>2
  <2> HIDE DEF S
  <2>3. p \in Seq(Words) /\ Len(p) \in 0 .. 4 /\ \A k \in 0 .. Len(p) : SubSeq(p, 1, k) \in Shown
    BY ShownFacts
  <2>4. \A k \in 0 .. Len(p) : Clear(SubSeq(p, 1, k), down)
    <3> SUFFICES ASSUME NEW k \in 0 .. Len(p), k > 0 PROVE SubSeq(p, 1, k)[1] \notin down
      BY <2>3, PrefixFacts DEF Clear
    <3>1. SubSeq(p, 1, k)[1] = p[1]
      BY <2>3, PrefixFacts
    <3> QED BY <2>3, <3>1 DEF Clear
  <2> HIDE DEF i
  <2>5. Fits(segs, i, p) /\ Within(segs, i, p)
    BY DEF i
  <2> SUFFICES p \in e[i]
    BY DEF i
  <2>6. e[i] # {} /\ e[i] = Extended(segs, i, e[j], down)
    BY <2>1, SomeFound DEF Found
  <2>7. ASSUME NEW m \in e[j], Len(m) < 4, p \in Extensions(segs, i, m, down) PROVE p \in e[i]
    BY <2>6, <2>7 DEF Extended, Level
  <2>8. CASE segs[i] = Globstar
    <3>1. PICK k \in 0 .. Len(p) : Fits(segs, i - 1, SubSeq(p, 1, k)) /\ k = i - 1
      <4>1. Fits(segs, i, p) <=> \E k \in 0 .. Len(p) : Fits(segs, i - 1, SubSeq(p, 1, k))
        BY <2>1, <2>3, <2>8, FitsGlobstar
      <4>2. \A k \in 0 .. Len(p) : Fits(segs, i - 1, SubSeq(p, 1, k)) => k = i - 1
        BY <2>1, <2>3, <2>8, FitsGlobstar
      <4> QED BY <2>5, <4>1, <4>2, Zenon
    <3> DEFINE m == SubSeq(p, 1, k)
    <3>2. m \in Shown /\ Clear(m, down) /\ Fits(segs, j, m) /\ Len(m) = j
      BY <2>1, <2>3, <2>4, <3>1, PrefixFacts
    <3>3. Within(segs, j, m)
      <4>1. ~Loose(segs, j + 1)
        <5>1. \A h \in 1 .. (j + 1 - 1) : segs[h] # Globstar
          BY <1>0, <2>1, <2>8 DEF Single
        <5> QED BY <5>1 DEF Loose
      <4> QED BY <4>1 DEF Within
    <3>4. m \in e[j]
      BY <2>2, <3>2, <3>3
    <3>5. Room(segs, i) = 4 - (Len(segs) - i) /\ Fixed(segs) = Len(segs) - 1
      BY <2>1, <2>8, OneGlobstar
    <3>6. Loose(segs, i + 1)
      <4>1. i \in 1 .. (i + 1 - 1)
        BY <2>1
      <4> QED BY <2>8, <4>1 DEF Loose
    <3>7. Len(p) <= 4 - (Len(segs) - i) /\ Len(m) < 4
      <4>1. Len(p) <= 4 - (Len(segs) - i)
        BY <2>5, <3>6 DEF Within
      <4>2. PICK x \in e[j] : Len(x) < 4
        BY <2>6 DEF Extended, Level
      <4>3. Fits(segs, j, x)
        BY <2>1, <4>2, FoundFits DEF Matching
      <4>4. \A h \in 1 .. j : segs[h] # Globstar
        BY <1>0, <2>1, <2>8 DEF Single
      <4>5. Len(x) = j
        BY <4>3, <4>4 DEF Fits
      <4> QED BY <3>2, <4>1, <4>2, <4>5
    <3>8. CASE k = Len(p)
      <4>1. p = m
        BY <2>3, <3>8, PrefixFacts
      <4>2. p \in Extensions(segs, i, m, down)
        BY <2>8, <4>1 DEF Extensions
      <4> QED BY <2>7, <3>4, <3>7, <4>2
    <3>9. CASE k # Len(p)
      <4>1. k < Len(p) /\ Len(p) <= Room(segs, i)
        BY <2>3, <3>5, <3>7, <3>9
      <4>2. p \in Descendants(m, Room(segs, i), down)
        BY <4>1, ShownBelow
      <4>3. p \in Extensions(segs, i, m, down)
        BY <2>8, <4>2 DEF Extensions
      <4> QED BY <2>7, <3>4, <3>7, <4>3
    <3> QED BY <3>8, <3>9
  <2>9. CASE segs[i] # Globstar
    <3> DEFINE m == SubSeq(p, 1, Len(p) - 1)
               c == p[Len(p)]
    <3>1. Len(p) >= 1 /\ Fits(segs, j, m) /\ MatchName(segs[i], c)
      <4>1. Fits(segs, i, p) <=> Len(p) >= 1 /\ Fits(segs, i - 1, m) /\ MatchName(segs[i], c)
        BY <2>1, <2>3, <2>9, FitsName
      <4> HIDE DEF m, c
      <4> QED BY <2>1, <2>5, <4>1
    <3>2. Len(p) - 1 \in 0 .. Len(p) /\ Len(p) - 1 \in Nat
      BY <2>3, <3>1
    <3>3. m \in Shown /\ Clear(m, down) /\ Len(m) = Len(p) - 1 /\ m \in Seq(Words) /\ Append(m, c) = p
      BY <2>3, <2>4, <3>1, <3>2, PrefixFacts, LastFacts
    <3>4. Within(segs, j, m)
      <4> SUFFICES ASSUME Loose(segs, j + 1) PROVE Len(m) <= 4 - (Len(segs) - j)
        BY DEF Within
      <4>1. Loose(segs, i + 1)
        BY <2>1, LooseMore
      <4>2. Len(p) <= 4 - (Len(segs) - i)
        BY <2>5, <4>1 DEF Within
      <4> QED BY <1>0, <2>1, <2>3, <3>3, <4>2
    <3> HIDE DEF m
    <3>5. m \in e[j]
      BY <2>2, <3>1, <3>3, <3>4
    <3>6. Len(m) < 4
      BY <2>3, <3>3
    <3>7. c \in ChildrenOf(m, down).names
      <4>1. Len(p) = (Len(p) - 1) + 1
        BY <2>3
      <4>2. p[(Len(p) - 1) + 1] \in ChildrenOf(SubSeq(p, 1, Len(p) - 1), down).names
        BY <3>2, <4>1, ShownChild
      <4> QED BY <4>1, <4>2 DEF m
    <3>8. CASE Trusted(segs, i, m)
      <4>1. c = segs[i]
        BY <3>1, <3>8 DEF Trusted, MatchName
      <4>2. p \in Extensions(segs, i, m, down)
        BY <2>9, <3>3, <3>8, <4>1 DEF Extensions
      <4> QED BY <2>7, <3>5, <3>6, <4>2
    <3>9. CASE ~Trusted(segs, i, m)
      <4>1. p \in Extensions(segs, i, m, down)
        BY <2>9, <3>1, <3>3, <3>7, <3>9 DEF Extensions
      <4> QED BY <2>7, <3>5, <3>6, <4>1
    <3> QED BY <3>8, <3>9
  <2> QED BY <2>8, <2>9 DEF i
<1> HIDE DEF S
<1>3. Nat \subseteq S
  BY <1>1, <1>2, Inductive
<1>4. ASSUME NEW i \in 0 .. Len(segs) PROVE P(i)
  <2>1. i \in S /\ i <= Len(segs)
    BY <1>0, <1>3
  <2> QED BY <2>1 DEF S
<1> QED BY <1>4

-----------------------------------------------------------------------------
(* What a path means                                                       *)

\* The recursion of Means, one segment after another.
Covered(segs, path, i, before) ==
  IF i = 0 THEN {0}
  ELSE IF segs[i] = Globstar THEN {j \in 0 .. Len(path) : \E k \in before : k <= j}
  ELSE {j \in 1 .. Len(path) : j - 1 \in before /\ MatchName(segs[i], path[j])}
Reaching(f, segs, path, n) == f = [i \in 0 .. n |-> Covered(segs, path, i, f[i - 1])]

LEMMA ReachExists ==
  ASSUME NEW segs, NEW path, NEW n \in Nat
  PROVE  \E f : Reaching(f, segs, path, n)
<1> DEFINE S == {k \in Nat : \E f : Reaching(f, segs, path, k)}
<1>1. 0 \in S
  <2> DEFINE g == [i \in 0 .. 0 |-> {0}]
  <2>1. \A i \in 0 .. 0 : i = 0
    OBVIOUS
  <2>2. g = [i \in 0 .. 0 |-> Covered(segs, path, i, g[i - 1])]
    BY <2>1 DEF Covered
  <2> HIDE DEF g
  <2> QED BY <2>2 DEF Reaching
<1>2. ASSUME NEW k \in Nat, k \in S PROVE k + 1 \in S
  <2>1. PICK f : Reaching(f, segs, path, k)
    BY <1>2
  <2> DEFINE g == [i \in 0 .. (k + 1) |-> IF i = k + 1 THEN Covered(segs, path, k + 1, f[k]) ELSE f[i]]
             h == [i \in 0 .. (k + 1) |-> Covered(segs, path, i, g[i - 1])]
  <2>2. ASSUME NEW i \in 0 .. (k + 1) PROVE g[i] = h[i]
    <3>1. h[i] = Covered(segs, path, i, g[i - 1])
      <4> HIDE DEF g
      <4> QED OBVIOUS
    <3>2. CASE i = k + 1
      <4>1. k \in 0 .. (k + 1) /\ k # k + 1 /\ i - 1 = k
        BY <3>2
      <4>2. g[k] = f[k]
        BY <4>1
      <4>3. g[i] = Covered(segs, path, k + 1, f[k])
        BY <3>2
      <4> HIDE DEF g, h
      <4> QED BY <3>1, <3>2, <4>1, <4>2, <4>3
    <3>3. CASE i # k + 1
      <4>1. i \in 0 .. k /\ g[i] = f[i]
        BY <3>3
      <4>2. f[i] = Covered(segs, path, i, f[i - 1])
        BY <2>1, <4>1 DEF Reaching
      <4>3. CASE i = 0
        <5>1. Covered(segs, path, i, f[i - 1]) = {0} /\ Covered(segs, path, i, g[i - 1]) = {0}
          BY <4>3 DEF Covered
        <5> HIDE DEF g, h
        <5> QED BY <3>1, <4>1, <4>2, <5>1
      <4>4. CASE i # 0
        <5>1. i - 1 \in 0 .. (k + 1) /\ i - 1 # k + 1
          BY <3>3, <4>4
        <5>2. g[i - 1] = f[i - 1]
          BY <5>1
        <5> HIDE DEF g, h
        <5> QED BY <3>1, <4>1, <4>2, <5>2
      <4> QED BY <4>3, <4>4
    <3> QED BY <3>2, <3>3
  <2>3. g = h
    <3>1. g = [i \in 0 .. (k + 1) |-> g[i]]
      OBVIOUS
    <3>2. h = [i \in 0 .. (k + 1) |-> h[i]]
      <4> HIDE DEF g
      <4> QED OBVIOUS
    <3> HIDE DEF g, h
    <3> QED BY <2>2, <3>1, <3>2, Zenon
  <2>4. Reaching(g, segs, path, k + 1)
    <3> HIDE DEF g
    <3> QED BY <2>3 DEF Reaching
  <2> HIDE DEF g
  <2> QED BY <2>4
<1> HIDE DEF S
<1>3. n \in S
  BY <1>1, <1>2, Inductive
<1> QED BY <1>3 DEF S

LEMMA MeansReached ==
  ASSUME NEW segs, NEW path
  PROVE  LET reach == CHOOSE f : Reaching(f, segs, path, Len(segs)) IN Means(segs, path) <=> Len(path) \in reach[Len(segs)]
<1> DEFINE r == CHOOSE reach : reach = [i \in 0 .. Len(segs) |->
        IF i = 0 THEN {0}
        ELSE IF segs[i] = Globstar THEN {j \in 0 .. Len(path) : \E k \in reach[i - 1] : k <= j}
        ELSE {j \in 1 .. Len(path) : j - 1 \in reach[i - 1] /\ MatchName(segs[i], path[j])}]
<1>1. Means(segs, path) <=> Len(path) \in r[Len(segs)]
  BY Zenon DEF Means
<1>2. r = CHOOSE f : Reaching(f, segs, path, Len(segs))
  BY Zenon DEF Reaching, Covered
<1> HIDE DEF r
<1> QED BY <1>1, <1>2

LEMMA MeansFits ==
  ASSUME NEW segs \in Seq(Words), Single(segs), NEW path \in Seq(Words)
  PROVE  Means(segs, path) <=> Fits(segs, Len(segs), path)
<1> DEFINE n == Len(segs)
           r == CHOOSE f : Reaching(f, segs, path, n)
           P(i) == \A j : j \in r[i] <=> j \in 0 .. Len(path) /\ Fits(segs, i, SubSeq(path, 1, j))
           S == {i \in Nat : i <= n => P(i)}
<1>0. n \in Nat /\ Len(path) \in Nat
  OBVIOUS
<1>1. Reaching(r, segs, path, n)
  BY <1>0, ReachExists
<1>2. Means(segs, path) <=> Len(path) \in r[n]
  BY MeansReached, Zenon
<1> HIDE DEF r
<1>3. ASSUME NEW i \in 0 .. n PROVE r[i] = Covered(segs, path, i, r[i - 1])
  BY <1>1 DEF Reaching
<1>4. 0 \in S
  <2>1. r[0] = {0}
    <3>1. 0 \in 0 .. n
      BY <1>0
    <3>2. r[0] = Covered(segs, path, 0, r[0 - 1])
      BY <1>3, <3>1, Zenon
    <3>3. Covered(segs, path, 0, r[0 - 1]) = {0}
      BY Zenon DEF Covered
    <3> QED BY <3>2, <3>3, Zenon
  <2>2. ASSUME NEW j \in 0 .. Len(path) PROVE Fits(segs, 0, SubSeq(path, 1, j)) <=> j = 0
    <3>1. SubSeq(path, 1, j) \in Seq(Words) /\ Len(SubSeq(path, 1, j)) = j /\ (j = 0 => SubSeq(path, 1, j) = <<>>)
      BY PrefixFacts
    <3>2. Len(<<>>) = 0
      OBVIOUS
    <3> QED BY <3>1, <3>2, FitsNone
  <2>3. 0 \in 0 .. Len(path)
    BY <1>0
  <2> QED BY <2>1, <2>2, <2>3
<1>5. ASSUME NEW k \in Nat, k \in S PROVE k + 1 \in S
  <2> SUFFICES ASSUME k + 1 <= n, NEW j PROVE j \in r[k + 1] <=> j \in 0 .. Len(path) /\ Fits(segs, k + 1, SubSeq(path, 1, j))
    OBVIOUS
  <2> DEFINE i == k + 1
  <2>1. i \in 1 .. n /\ i - 1 = k /\ i # 0 /\ i \in 0 .. n /\ k <= n
    BY <1>0
  <2>2. \A l : l \in r[k] <=> l \in 0 .. Len(path) /\ Fits(segs, k, SubSeq(path, 1, l))
    BY <1>5, <2>1
  <2> HIDE DEF i, S
  <2> SUFFICES j \in r[i] <=> j \in 0 .. Len(path) /\ Fits(segs, i, SubSeq(path, 1, j))
    BY DEF i
  <2>3. r[i] = Covered(segs, path, i, r[k])
    BY <1>3, <2>1
  <2>4. ASSUME NEW l \in 0 .. Len(path)
        PROVE  /\ SubSeq(path, 1, l) \in Seq(Words) /\ Len(SubSeq(path, 1, l)) = l
               /\ \A x \in 1 .. l : SubSeq(path, 1, l)[x] = path[x]
               /\ \A x \in 0 .. l : SubSeq(SubSeq(path, 1, l), 1, x) = SubSeq(path, 1, x)
    BY PrefixFacts, PrefixOfPrefix
  <2>5. CASE segs[i] = Globstar
    <3>1. j \in r[i] <=> j \in 0 .. Len(path) /\ \E l \in r[k] : l <= j
      BY <2>1, <2>3, <2>5 DEF Covered
    <3>2. ASSUME j \in 0 .. Len(path)
          PROVE  (\E l \in r[k] : l <= j) <=> Fits(segs, i, SubSeq(path, 1, j))
      <4> DEFINE p == SubSeq(path, 1, j)
      <4>1. p \in Seq(Words) /\ Len(p) = j /\ \A x \in 0 .. j : SubSeq(p, 1, x) = SubSeq(path, 1, x)
        BY <2>4, <3>2
      <4> HIDE DEF p
      <4>2. Fits(segs, i, p) <=> \E x \in 0 .. Len(p) : Fits(segs, i - 1, SubSeq(p, 1, x))
        BY <2>1, <2>5, <4>1, FitsGlobstar
      <4>3. \A l : l \in r[k] /\ l <= j <=> l \in 0 .. j /\ Fits(segs, k, SubSeq(path, 1, l))
        BY <1>0, <2>2, <3>2
      <4>4. (\E l \in r[k] : l <= j) <=> \E l \in 0 .. j : Fits(segs, k, SubSeq(path, 1, l))
        BY <4>3
      <4>5. Fits(segs, i, p) <=> \E x \in 0 .. j : Fits(segs, k, SubSeq(path, 1, x))
        BY <2>1, <4>1, <4>2
      <4> QED BY <4>4, <4>5 DEF p
    <3> QED BY <3>1, <3>2
  <2>6. CASE segs[i] # Globstar
    <3>1. j \in r[i] <=> j \in 1 .. Len(path) /\ j - 1 \in r[k] /\ MatchName(segs[i], path[j])
      BY <2>1, <2>3, <2>6 DEF Covered
    <3>2. ASSUME j \in 0 .. Len(path)
          PROVE  Fits(segs, i, SubSeq(path, 1, j))
                   <=> j >= 1 /\ Fits(segs, k, SubSeq(path, 1, j - 1)) /\ MatchName(segs[i], path[j])
      <4> DEFINE p == SubSeq(path, 1, j)
      <4>1. p \in Seq(Words) /\ Len(p) = j /\ (j >= 1 => p[j] = path[j] /\ SubSeq(p, 1, j - 1) = SubSeq(path, 1, j - 1))
        <5>1. j >= 1 => j \in 1 .. j /\ j - 1 \in 0 .. j
          BY <3>2
        <5> QED BY <2>4, <3>2, <5>1
      <4> HIDE DEF p
      <4>2. Fits(segs, i, p) <=> Len(p) >= 1 /\ Fits(segs, i - 1, SubSeq(p, 1, Len(p) - 1)) /\ MatchName(segs[i], p[Len(p)])
        BY <2>1, <2>6, <4>1, FitsName
      <4>3. Fits(segs, i, p) <=> j >= 1 /\ Fits(segs, k, SubSeq(path, 1, j - 1)) /\ MatchName(segs[i], path[j])
        BY <2>1, <4>1, <4>2
      <4> QED BY <4>3 DEF p
    <3>3. j \in 0 .. Len(path) /\ j >= 1 <=> j \in 1 .. Len(path) /\ j - 1 \in 0 .. Len(path)
      BY <1>0
    <3> QED BY <2>2, <3>1, <3>2, <3>3
  <2> QED BY <2>5, <2>6
<1> HIDE DEF S
<1>6. n \in S
  BY <1>0, <1>4, <1>5, Inductive
<1>7. Len(path) \in r[n] <=> Len(path) \in 0 .. Len(path) /\ Fits(segs, n, SubSeq(path, 1, Len(path)))
  <2>1. P(n)
    BY <1>0, <1>6 DEF S
  <2> QED BY <2>1
<1>8. Len(path) \in 0 .. Len(path) /\ SubSeq(path, 1, Len(path)) = path
  BY <1>0, PrefixFacts
<1> QED BY <1>2, <1>7, <1>8

LEMMA ListingFound ==
  ASSUME NEW found, NEW listing, listing = [ok |-> found # {}, at |-> found], listing.ok
  PROVE  found # {} /\ listing.at = found
<1>1. listing.at = found /\ listing.ok = (found # {})
  OBVIOUS
<1> QED BY <1>1

\* What was asked lists exactly what it means.
LEMMA ListingHolds ==
  ASSUME PathsTypeOK
  PROVE  ListsWhatItMeans
<1> DEFINE segs == asked.segs
           n == Len(segs)
<1> SUFFICES ASSUME asked.op = "path", asked.down = {}, Globstars(segs) <= 1, Fixed(segs) < Level.machine,
                    ExpandPath(segs, asked.down).ok
             PROVE  ExpandPath(segs, asked.down).at \cap Shown = {p \in Shown : Means(segs, p)}
  BY DEF ListsWhatItMeans
<1>1. segs \in Seq(Words)
  BY DEF PathsTypeOK
<1> HIDE DEF segs
<1>2. n \in Nat /\ n \in 0 .. n
  BY <1>1
<1>3. Single(segs)
  BY <1>1, SingleGlobstar
<1>4. Fixed(segs) <= 4
  <2>1. Fixed(segs) < 4
    BY DEF Level
  <2>2. CASE \A i \in 1 .. n : segs[i] # Globstar
    <3>1. Fixed(segs) = n
      BY <1>1, <2>2, NoGlobstar
    <3> QED BY <1>2, <2>1, <3>1
  <2>3. ASSUME NEW g \in 1 .. n, segs[g] = Globstar PROVE Fixed(segs) <= 4
    <3>1. Fixed(segs) = n - 1
      BY <1>1, <1>3, <2>3, OneGlobstar
    <3> QED BY <1>2, <2>1, <3>1
  <2> QED BY <2>2, <2>3
<1>5. PICK e : /\ Found(e, segs, asked.down)
               /\ ExpandPath(segs, asked.down) = [ok |-> e[n] # {}, at |-> e[n]]
  BY <1>1, ExpandFound
<1>6. e[n] # {} /\ ExpandPath(segs, asked.down).at = e[n]
  BY <1>5, ListingFound
<1>7. ASSUME NEW p \in Shown, p \in e[n] PROVE Means(segs, p)
  <2>1. e[n] \subseteq Matching(segs, n, asked.down)
    BY <1>1, <1>2, <1>3, <1>5, FoundFits
  <2>2. p \in Seq(Words) /\ Fits(segs, n, p)
    BY <1>7, <2>1 DEF Matching
  <2> QED BY <1>1, <1>3, <2>2, MeansFits
<1>8. ASSUME NEW p \in Shown, Means(segs, p) PROVE p \in e[n]
  <2>1. p \in Seq(Words) /\ Len(p) \in 0 .. 4
    BY ShownFacts
  <2>2. Fits(segs, n, p)
    BY <1>1, <1>3, <1>8, <2>1, MeansFits
  <2>3. Clear(p, asked.down)
    BY DEF Clear
  <2>4. Within(segs, n, p)
    <3>1. \A l \in 0 .. 4 : l <= 4 - (n - n)
      BY <1>2
    <3>2. Len(p) <= 4 - (n - n)
      BY <2>1, <3>1, Zenon
    <3> QED BY <3>2 DEF Within
  <2> QED BY <1>1, <1>2, <1>3, <1>4, <1>5, <1>6, <2>2, <2>3, <2>4, FitsFound
<1> QED BY <1>6, <1>7, <1>8

-----------------------------------------------------------------------------
(* expandGlobstarToMachine                                                 *)

\* The recursion of ExpandGlobstarToMachine.
Absorbed(segs, i, before) ==
  IF i = 0 THEN <<>>
  ELSE IF segs[i] # Globstar THEN Append(before, segs[i])
  ELSE IF Loose(segs, i) THEN before ELSE before \o Stars(segs)
Absorbing(f, segs, n) == f = [i \in 0 .. n |-> Absorbed(segs, i, f[i - 1])]

LEMMA AbsorbExists ==
  ASSUME NEW segs, NEW n \in Nat
  PROVE  \E f : Absorbing(f, segs, n)
<1> DEFINE S == {k \in Nat : \E f : Absorbing(f, segs, k)}
<1>1. 0 \in S
  <2> DEFINE g == [i \in 0 .. 0 |-> <<>>]
  <2>1. \A i \in 0 .. 0 : i = 0
    OBVIOUS
  <2>2. g = [i \in 0 .. 0 |-> Absorbed(segs, i, g[i - 1])]
    BY <2>1 DEF Absorbed
  <2> HIDE DEF g
  <2> QED BY <2>2 DEF Absorbing
<1>2. ASSUME NEW k \in Nat, k \in S PROVE k + 1 \in S
  <2>1. PICK f : Absorbing(f, segs, k)
    BY <1>2
  <2> DEFINE g == [i \in 0 .. (k + 1) |-> IF i = k + 1 THEN Absorbed(segs, k + 1, f[k]) ELSE f[i]]
             h == [i \in 0 .. (k + 1) |-> Absorbed(segs, i, g[i - 1])]
  <2>2. ASSUME NEW i \in 0 .. (k + 1) PROVE g[i] = h[i]
    <3>1. h[i] = Absorbed(segs, i, g[i - 1])
      <4> HIDE DEF g
      <4> QED OBVIOUS
    <3>2. CASE i = k + 1
      <4>1. k \in 0 .. (k + 1) /\ k # k + 1 /\ i - 1 = k
        BY <3>2
      <4>2. g[k] = f[k]
        BY <4>1
      <4>3. g[i] = Absorbed(segs, k + 1, f[k])
        BY <3>2
      <4> HIDE DEF g, h
      <4> QED BY <3>1, <3>2, <4>1, <4>2, <4>3
    <3>3. CASE i # k + 1
      <4>1. i \in 0 .. k /\ g[i] = f[i]
        BY <3>3
      <4>2. f[i] = Absorbed(segs, i, f[i - 1])
        BY <2>1, <4>1 DEF Absorbing
      <4>3. CASE i = 0
        <5>1. Absorbed(segs, i, f[i - 1]) = <<>> /\ Absorbed(segs, i, g[i - 1]) = <<>>
          BY <4>3 DEF Absorbed
        <5> HIDE DEF g, h
        <5> QED BY <3>1, <4>1, <4>2, <5>1
      <4>4. CASE i # 0
        <5>1. i - 1 \in 0 .. (k + 1) /\ i - 1 # k + 1
          BY <3>3, <4>4
        <5>2. g[i - 1] = f[i - 1]
          BY <5>1
        <5> HIDE DEF g, h
        <5> QED BY <3>1, <4>1, <4>2, <5>2
      <4> QED BY <4>3, <4>4
    <3> QED BY <3>2, <3>3
  <2>3. g = h
    <3>1. g = [i \in 0 .. (k + 1) |-> g[i]]
      OBVIOUS
    <3>2. h = [i \in 0 .. (k + 1) |-> h[i]]
      <4> HIDE DEF g
      <4> QED OBVIOUS
    <3> HIDE DEF g, h
    <3> QED BY <2>2, <3>1, <3>2, Zenon
  <2>4. Absorbing(g, segs, k + 1)
    <3> HIDE DEF g
    <3> QED BY <2>3 DEF Absorbing
  <2> HIDE DEF g
  <2> QED BY <2>4
<1> HIDE DEF S
<1>3. n \in S
  BY <1>1, <1>2, Inductive
<1> QED BY <1>3 DEF S

LEMMA AbsorbedAll ==
  ASSUME NEW segs
  PROVE  LET out == CHOOSE f : Absorbing(f, segs, Len(segs)) IN ExpandGlobstarToMachine(segs) = out[Len(segs)]
<1> DEFINE r == CHOOSE out : out = [i \in 0 .. Len(segs) |->
        IF i = 0 THEN <<>>
        ELSE IF segs[i] # Globstar THEN Append(out[i - 1], segs[i])
        ELSE IF Loose(segs, i) THEN out[i - 1] ELSE out[i - 1] \o Stars(segs)]
<1>1. ExpandGlobstarToMachine(segs) = r[Len(segs)]
  BY Zenon DEF ExpandGlobstarToMachine
<1>2. r = CHOOSE f : Absorbing(f, segs, Len(segs))
  BY Zenon DEF Absorbing, Absorbed
<1> HIDE DEF r
<1> QED BY <1>1, <1>2

Marks == Words \cup {"*"}
LEMMA Joined ==
  ASSUME NEW a \in Seq(Marks), NEW b \in Seq(Marks)
  PROVE  /\ a \o b \in Seq(Marks) /\ Len(a \o b) = Len(a) + Len(b)
         /\ \A k \in 1 .. Len(a) : (a \o b)[k] = a[k]
         /\ \A k \in 1 .. Len(b) : (a \o b)[Len(a) + k] = b[k]
OBVIOUS

LEMMA Lengthened ==
  ASSUME NEW a \in Seq(Marks), NEW c \in Marks
  PROVE  /\ Append(a, c) \in Seq(Marks) /\ Len(Append(a, c)) = Len(a) + 1
         /\ \A k \in 1 .. Len(a) : Append(a, c)[k] = a[k]
         /\ Append(a, c)[Len(a) + 1] = c
OBVIOUS

\* As many stars as levels are missing.
LEMMA StarsFacts ==
  ASSUME NEW segs, Fixed(segs) \in Nat
  PROVE  /\ Stars(segs) \in Seq(Marks) /\ \A k \in 1 .. Len(Stars(segs)) : Stars(segs)[k] = "*"
         /\ Len(Stars(segs)) = IF Fixed(segs) <= 4 THEN 4 - Fixed(segs) ELSE 0
<1> DEFINE d == 4 - Fixed(segs)
           n == IF Fixed(segs) <= 4 THEN d ELSE 0
           stars == [i \in 1 .. n |-> "*"]
<1>1. n \in Nat /\ 1 .. d = 1 .. n
  <2>1. CASE Fixed(segs) <= 4
    BY <2>1
  <2>2. CASE ~(Fixed(segs) <= 4)
    <3>1. n = 0 /\ 1 .. 0 = {}
      BY <2>2
    <3>2. 1 .. d = {}
      BY <2>2
    <3> QED BY <3>1, <3>2
  <2> QED BY <2>1, <2>2
<1>2. Stars(segs) = [i \in 1 .. d |-> "*"]
  BY DEF Stars, Level
<1>3. Stars(segs) = stars
  <2> HIDE DEF n, d
  <2> QED BY <1>1, <1>2
<1>4. n = IF Fixed(segs) <= 4 THEN 4 - Fixed(segs) ELSE 0
  OBVIOUS
<1> HIDE DEF n
<1>5. stars \in Seq(Marks) /\ Len(stars) = n /\ \A k \in 1 .. n : stars[k] = "*"
  BY <1>1 DEF Marks
<1> HIDE DEF stars
<1> QED BY <1>3, <1>4, <1>5

\* Without a "**" nothing changes.
LEMMA NothingAbsorbed ==
  ASSUME NEW segs \in Seq(Words), \A i \in 1 .. Len(segs) : segs[i] # Globstar
  PROVE  LET q == ExpandGlobstarToMachine(segs) IN
         q \in Seq(Marks) /\ Len(q) = Len(segs) /\ \A k \in 1 .. Len(segs) : q[k] = segs[k]
<1> DEFINE n == Len(segs)
           r == CHOOSE f : Absorbing(f, segs, n)
           P(i) == r[i] \in Seq(Marks) /\ Len(r[i]) = i /\ \A k \in 1 .. i : r[i][k] = segs[k]
           S == {i \in Nat : i <= n => P(i)}
<1>0. n \in Nat /\ \A i \in 1 .. n : segs[i] \in Marks
  BY DEF Marks
<1>1. Absorbing(r, segs, n)
  BY <1>0, AbsorbExists
<1>2. ExpandGlobstarToMachine(segs) = r[n]
  BY AbsorbedAll, Zenon
<1> HIDE DEF r
<1>3. ASSUME NEW i \in 0 .. n PROVE r[i] = Absorbed(segs, i, r[i - 1])
  BY <1>1 DEF Absorbing
<1>4. 0 \in S
  <2>1. 0 \in 0 .. n
    BY <1>0
  <2>2. r[0] = Absorbed(segs, 0, r[0 - 1])
    BY <1>3, <2>1, Zenon
  <2>3. r[0] = <<>>
    BY <2>2 DEF Absorbed
  <2>4. r[0] \in Seq(Marks) /\ Len(r[0]) = 0 /\ \A k \in 1 .. 0 : r[0][k] = segs[k]
    BY <2>3
  <2> QED BY <2>4
<1>5. ASSUME NEW j \in Nat, j \in S PROVE j + 1 \in S
  <2> SUFFICES ASSUME j + 1 <= n PROVE P(j + 1)
    OBVIOUS
  <2> DEFINE i == j + 1
  <2>1. i \in 1 .. n /\ i - 1 = j /\ i # 0 /\ i \in 0 .. n /\ j <= n /\ i = j + 1
    BY <1>0
  <2>2. P(j)
    BY <1>5, <2>1
  <2> HIDE DEF i, S
  <2>3. r[i] = Append(r[j], segs[i])
    BY <1>3, <2>1 DEF Absorbed
  <2>4. /\ r[i] \in Seq(Marks) /\ Len(r[i]) = j + 1
        /\ \A k \in 1 .. j : r[i][k] = r[j][k]
        /\ r[i][j + 1] = segs[i]
    BY <1>0, <2>1, <2>2, <2>3, Lengthened
  <2>5. ASSUME NEW k \in 1 .. i PROVE r[i][k] = segs[k]
    <3>1. k \in 1 .. j \/ k = j + 1
      BY <2>1
    <3> QED BY <2>1, <2>2, <2>4, <3>1
  <2> QED BY <2>1, <2>4, <2>5
<1> HIDE DEF S
<1>6. n \in S
  BY <1>0, <1>4, <1>5, Inductive
<1>7. P(n)
  BY <1>0, <1>6 DEF S
<1> QED BY <1>2, <1>7

\* With one, the levels that are missing are stars in its place.
LEMMA GlobstarAbsorbed ==
  ASSUME NEW segs \in Seq(Words), Single(segs), NEW g \in 1 .. Len(segs), segs[g] = Globstar
  PROVE  LET q == ExpandGlobstarToMachine(segs)
             s == Len(Stars(segs)) IN
         /\ s \in Nat /\ s = IF Len(segs) <= 5 THEN 5 - Len(segs) ELSE 0
         /\ q \in Seq(Marks) /\ Len(q) = Len(segs) - 1 + s
         /\ \A k \in 1 .. (g - 1) : q[k] = segs[k]
         /\ \A k \in g .. (g - 1 + s) : q[k] = "*"
         /\ \A k \in (g + 1) .. Len(segs) : q[k - 1 + s] = segs[k]
<1> DEFINE n == Len(segs)
           s == Len(Stars(segs))
           r == CHOOSE f : Absorbing(f, segs, n)
           P(i) == /\ r[i] \in Seq(Marks)
                   /\ i < g => Len(r[i]) = i /\ \A k \in 1 .. i : r[i][k] = segs[k]
                   /\ i >= g => /\ Len(r[i]) = i - 1 + s
                                /\ \A k \in 1 .. (g - 1) : r[i][k] = segs[k]
                                /\ \A k \in g .. (g - 1 + s) : r[i][k] = "*"
                                /\ \A k \in (g + 1) .. i : r[i][k - 1 + s] = segs[k]
           S == {i \in Nat : i <= n => P(i)}
<1>0. n \in Nat /\ g \in Nat /\ \A i \in 1 .. n : segs[i] \in Marks
  BY DEF Marks
<1>a. Fixed(segs) = n - 1 /\ n - 1 \in Nat
  BY <1>0, OneGlobstar
<1>b. /\ Stars(segs) \in Seq(Marks) /\ \A k \in 1 .. s : Stars(segs)[k] = "*"
      /\ s \in Nat /\ s = IF n <= 5 THEN 5 - n ELSE 0
  <2>1. /\ Stars(segs) \in Seq(Marks) /\ \A k \in 1 .. s : Stars(segs)[k] = "*"
        /\ s = IF n - 1 <= 4 THEN 4 - (n - 1) ELSE 0
    BY <1>a, StarsFacts
  <2> HIDE DEF s
  <2> QED BY <1>0, <2>1
<1>1. Absorbing(r, segs, n)
  BY <1>0, AbsorbExists
<1>2. ExpandGlobstarToMachine(segs) = r[n]
  BY AbsorbedAll, Zenon
<1> HIDE DEF r
<1>3. ASSUME NEW i \in 0 .. n PROVE r[i] = Absorbed(segs, i, r[i - 1])
  BY <1>1 DEF Absorbing
<1>4. 0 \in S
  <2>1. 0 \in 0 .. n
    BY <1>0
  <2>2. r[0] = Absorbed(segs, 0, r[0 - 1])
    BY <1>3, <2>1, Zenon
  <2>3. r[0] = <<>>
    BY <2>2 DEF Absorbed
  <2>4. r[0] \in Seq(Marks) /\ Len(r[0]) = 0 /\ \A k \in 1 .. 0 : r[0][k] = segs[k]
    BY <2>3
  <2>5. 0 < g /\ ~(0 >= g)
    BY <1>0
  <2>6. P(0)
    BY <2>4, <2>5, Zenon
  <2> HIDE DEF P
  <2> QED BY <2>6
<1>5. ASSUME NEW j \in Nat, j \in S PROVE j + 1 \in S
  <2> HIDE DEF P
  <2> SUFFICES ASSUME j + 1 <= n PROVE P(j + 1)
    OBVIOUS
  <2> DEFINE i == j + 1
  <2>1. i \in 1 .. n /\ i - 1 = j /\ i # 0 /\ i \in 0 .. n /\ j <= n /\ i = j + 1 /\ i \in Nat
    BY <1>0
  <2>2. P(j)
    BY <1>5, <2>1
  <2> HIDE DEF i, S, s
  <2> SUFFICES P(i)
    BY DEF i
  <2> USE DEF P
  <2>3. CASE i = g
    <3>1. ~Loose(segs, i)
      <4>1. \A h \in 1 .. (i - 1) : segs[h] # Globstar
        BY <1>0, <2>1, <2>3 DEF Single
      <4> QED BY <4>1 DEF Loose
    <3>2. r[i] = r[j] \o Stars(segs)
      BY <1>3, <2>1, <2>3, <3>1 DEF Absorbed
    <3>3. r[j] \in Seq(Marks) /\ Len(r[j]) = j /\ \A k \in 1 .. j : r[j][k] = segs[k]
      BY <2>1, <2>2, <2>3
    <3>4. /\ r[i] \in Seq(Marks) /\ Len(r[i]) = j + s
          /\ \A k \in 1 .. j : r[i][k] = r[j][k]
          /\ \A k \in 1 .. s : r[i][j + k] = Stars(segs)[k]
      <4> HIDE DEF P
      <4>1. /\ r[j] \o Stars(segs) \in Seq(Marks) /\ Len(r[j] \o Stars(segs)) = Len(r[j]) + Len(Stars(segs))
            /\ \A k \in 1 .. Len(r[j]) : (r[j] \o Stars(segs))[k] = r[j][k]
            /\ \A k \in 1 .. Len(Stars(segs)) : (r[j] \o Stars(segs))[Len(r[j]) + k] = Stars(segs)[k]
        BY <1>b, <3>3, Joined
      <4>2. Len(Stars(segs)) = s
        BY DEF s
      <4> QED BY <3>2, <3>3, <4>1, <4>2, Zenon
    <3>5. ASSUME NEW k \in g .. (g - 1 + s) PROVE r[i][k] = "*"
      <4>1. k - j \in 1 .. s /\ j + (k - j) = k
        BY <1>0, <1>b, <2>1, <2>3
      <4> QED BY <1>b, <3>4, <4>1
    <3>6. \A k \in (g + 1) .. i : FALSE
      BY <1>0, <2>3
    <3>7. \A k \in 1 .. (g - 1) : r[i][k] = segs[k]
      BY <2>1, <2>3, <3>3, <3>4
    <3>8. Len(r[i]) = i - 1 + s /\ ~(i < g)
      BY <1>0, <2>1, <2>3, <3>4
    <3> QED BY <3>4, <3>5, <3>6, <3>7, <3>8
  <2>4. CASE i # g
    <3>1. segs[i] # Globstar
      BY <1>0, <2>1, <2>4 DEF Single
    <3>2. r[i] = Append(r[j], segs[i])
      BY <1>3, <2>1, <3>1 DEF Absorbed
    <3>3. /\ r[i] \in Seq(Marks) /\ Len(r[i]) = Len(r[j]) + 1
          /\ \A k \in 1 .. Len(r[j]) : r[i][k] = r[j][k]
          /\ r[i][Len(r[j]) + 1] = segs[i]
      BY <1>0, <2>1, <2>2, <3>2, Lengthened
    <3>4. CASE i < g
      <4>1. Len(r[j]) = j /\ \A k \in 1 .. j : r[j][k] = segs[k]
        BY <2>1, <2>2, <3>4
      <4>2. ASSUME NEW k \in 1 .. i PROVE r[i][k] = segs[k]
        <5>1. k \in 1 .. j \/ k = j + 1
          BY <2>1
        <5> QED BY <2>1, <3>3, <4>1, <5>1
      <4> QED BY <2>1, <3>3, <3>4, <4>1, <4>2
    <3>5. CASE i > g
      <4>1. /\ Len(r[j]) = j - 1 + s
            /\ \A k \in 1 .. (g - 1) : r[j][k] = segs[k]
            /\ \A k \in g .. (g - 1 + s) : r[j][k] = "*"
            /\ \A k \in (g + 1) .. j : r[j][k - 1 + s] = segs[k]
        BY <1>0, <2>1, <2>2, <3>5
      <4>2. ASSUME NEW k \in 1 .. (g - 1) PROVE r[i][k] = segs[k]
        <5>1. k \in 1 .. Len(r[j])
          BY <1>0, <1>b, <2>1, <3>5, <4>1
        <5> QED BY <3>3, <4>1, <5>1
      <4>3. ASSUME NEW k \in g .. (g - 1 + s) PROVE r[i][k] = "*"
        <5>1. k \in 1 .. Len(r[j])
          BY <1>0, <1>b, <2>1, <3>5, <4>1
        <5> QED BY <3>3, <4>1, <5>1
      <4>4. ASSUME NEW k \in (g + 1) .. i PROVE r[i][k - 1 + s] = segs[k]
        <5>1. CASE k = i
          <6>1. k - 1 + s = Len(r[j]) + 1
            BY <1>0, <1>b, <2>1, <4>1, <5>1
          <6> QED BY <3>3, <5>1, <6>1
        <5>2. CASE k # i
          <6>1. k \in (g + 1) .. j /\ k - 1 + s \in 1 .. Len(r[j])
            BY <1>0, <1>b, <2>1, <4>1, <5>2
          <6> QED BY <3>3, <4>1, <6>1
        <5> QED BY <5>1, <5>2
      <4>5. Len(r[i]) = i - 1 + s /\ ~(i < g)
        BY <1>0, <1>b, <2>1, <3>3, <3>5, <4>1
      <4> QED BY <3>3, <4>2, <4>3, <4>4, <4>5
    <3> QED BY <1>0, <2>1, <2>4, <3>4, <3>5
  <2> QED BY <2>3, <2>4
<1> HIDE DEF S
<1>6. n \in S
  BY <1>0, <1>4, <1>5, Inductive
<1>7. P(n)
  BY <1>0, <1>6 DEF S
<1>8. n >= g
  BY <1>0
<1> QED BY <1>2, <1>7, <1>8, <1>b

\* A machine's path fits what was asked when it fits level by level what the
\* command made of it.
LEMMA FitsSpread ==
  ASSUME NEW segs \in Seq(Words), Single(segs), Len(ExpandGlobstarToMachine(segs)) = 4,
         NEW p \in Paths, Len(p) = 4
  PROVE  Fits(segs, Len(segs), p) <=> \A k \in 1 .. 4 : MatchName(ExpandGlobstarToMachine(segs)[k], p[k])
<1> DEFINE n == Len(segs)
           q == ExpandGlobstarToMachine(segs)
<1>0. n \in Nat
  OBVIOUS
<1>1. CASE \A k \in 1 .. n : segs[k] # Globstar
  <2>1. Len(q) = n /\ \A k \in 1 .. n : q[k] = segs[k]
    BY <1>1, NothingAbsorbed
  <2>2. Fits(segs, n, p) <=> Len(p) = n /\ \A k \in 1 .. n : MatchName(segs[k], p[k])
    BY <1>1 DEF Fits
  <2> HIDE DEF q, n
  <2>3. n = 4
    BY <2>1 DEF q
  <2> QED BY <2>1, <2>2, <2>3 DEF q, n
<1>2. ASSUME NEW g \in 1 .. n, segs[g] = Globstar
      PROVE  Fits(segs, n, p) <=> \A k \in 1 .. 4 : MatchName(q[k], p[k])
  <2> DEFINE s == Len(Stars(segs))
  <2>1. /\ s \in Nat /\ s = IF n <= 5 THEN 5 - n ELSE 0
        /\ Len(q) = n - 1 + s
        /\ \A k \in 1 .. (g - 1) : q[k] = segs[k]
        /\ \A k \in g .. (g - 1 + s) : q[k] = "*"
        /\ \A k \in (g + 1) .. n : q[k - 1 + s] = segs[k]
    BY <1>2, GlobstarAbsorbed
  <2>2. Len(q) = 4 /\ g \in Nat /\ 1 <= g /\ g <= n
    BY <1>0, <1>2
  <2> HIDE DEF q, s, n
  <2>3. s = 5 - n /\ n <= 5 /\ n >= 1
    <3>1. n - 1 + s = 4 /\ n >= 1
      <4>1. n - 1 + s = 4
        BY <2>1, <2>2, Zenon
      <4>2. n >= 1
        BY <1>0, <2>2
      <4> QED BY <4>1, <4>2
    <3>2. CASE n <= 5
      <4>1. s = 5 - n
        BY <2>1, <3>2, Zenon
      <4> QED BY <3>1, <3>2, <4>1
    <3>3. CASE ~(n <= 5)
      <4>1. s = 0
        BY <2>1, <3>3, Zenon
      <4> QED BY <1>0, <3>1, <3>3, <4>1
    <3> QED BY <3>2, <3>3
  <2>4. \A h \in 1 .. n : segs[h] = Globstar <=> h = g
    BY <1>2 DEF Single, n
  <2>5. Fits(segs, n, p) <=> /\ \A k \in 1 .. (g - 1) : MatchName(segs[k], p[k])
                             /\ \A k \in (g + 1) .. n : MatchName(segs[k], p[4 - n + k])
    <3>1. Fits(segs, n, p) <=> /\ Len(p) >= n - 1
                               /\ \A k \in 1 .. (g - 1) : MatchName(segs[k], p[k])
                               /\ \A k \in (g + 1) .. n : MatchName(segs[k], p[Len(p) - n + k])
      BY <1>2, <2>4 DEF Fits
    <3>2. 4 >= n - 1
      BY <1>0, <2>3
    <3> QED BY <3>1, <3>2
  <2>6. ASSUME NEW k \in 1 .. 4 PROVE MatchName("*", p[k])
    <3> DEFINE m == SubSeq(p, 1, k)
    <3>1. k \in 1 .. Len(p) /\ k \in 0 .. Len(p) /\ k \in 1 .. k
      OBVIOUS
    <3>2. m \in Paths
      BY <3>1, PathsAssumption DEF PathsAssumption
    <3>3. Len(m) = k /\ m[k] = p[k]
      BY <3>1, PathWords, PrefixFacts
    <3> HIDE DEF m
    <3>4. m[Len(m)] \in PatternMatches["*"] /\ "*" \in DOMAIN PatternMatches
      BY <3>2, PathsAssumption DEF PathsAssumption
    <3> QED BY <3>3, <3>4 DEF MatchName, IsPattern
  <2>7. ASSUME NEW k \in (g + 1) .. n PROVE 4 - n + k \in 1 .. 4 /\ q[4 - n + k] = segs[k]
    <3>1. 4 - n + k \in 1 .. 4 /\ 4 - n + k = k - 1 + s
      BY <1>0, <1>2, <2>2, <2>3
    <3> QED BY <2>1, <3>1
  <2>8. ASSUME NEW k \in 1 .. 4
        PROVE  \/ k \in 1 .. (g - 1)
               \/ k \in g .. (g - 1 + s)
               \/ \E l \in (g + 1) .. n : k = 4 - n + l
    <3>1. CASE k < g
      BY <2>2, <3>1
    <3>2. CASE k >= g /\ k <= g - 1 + s
      BY <2>1, <2>2, <3>2
    <3>3. CASE k > g - 1 + s
      <4>1. k - 4 + n \in (g + 1) .. n /\ k = 4 - n + (k - 4 + n)
        BY <1>0, <1>2, <2>2, <2>3, <3>3
      <4> QED BY <4>1
    <3> QED BY <2>1, <2>2, <3>1, <3>2, <3>3
  <2>9. ASSUME NEW k \in 1 .. (g - 1) PROVE k \in 1 .. 4
    BY <1>0, <1>2, <2>2, <2>3
  <2>10. ASSUME Fits(segs, n, p), NEW k \in 1 .. 4 PROVE MatchName(q[k], p[k])
    <3>1. CASE k \in 1 .. (g - 1)
      BY <2>1, <2>5, <2>10, <3>1, Zenon
    <3>2. CASE k \in g .. (g - 1 + s)
      BY <2>1, <2>6, <3>2, Zenon
    <3>3. ASSUME NEW l \in (g + 1) .. n, k = 4 - n + l PROVE MatchName(q[k], p[k])
      BY <2>5, <2>7, <2>10, <3>3, Zenon
    <3> QED BY <2>8, <3>1, <3>2, <3>3, Zenon
  <2>11. ASSUME \A k \in 1 .. 4 : MatchName(q[k], p[k]) PROVE Fits(segs, n, p)
    BY <2>1, <2>5, <2>7, <2>9, <2>11
  <2> QED BY <2>10, <2>11
<1> QED BY <1>1, <1>2

\* A literal segment before any "**" is a level of what the command made.
LEMMA BelievedLevel ==
  ASSUME NEW segs \in Seq(Words), Single(segs), NEW p, Believed(segs, p, 2), Len(ExpandGlobstarToMachine(segs)) = 4
  PROVE  ExpandGlobstarToMachine(segs)[2] = p[2] /\ ~IsPattern(p[2])
<1> DEFINE n == Len(segs)
           q == ExpandGlobstarToMachine(segs)
<1>1. 2 \in 1 .. n /\ p[2] = segs[2] /\ ~IsPattern(segs[2]) /\ segs[1] # Globstar /\ segs[2] # Globstar
  BY DEF Believed
<1>2. CASE \A k \in 1 .. n : segs[k] # Globstar
  BY <1>1, <1>2, NothingAbsorbed
<1>3. ASSUME NEW g \in 1 .. n, segs[g] = Globstar PROVE q[2] = segs[2]
  <2>1. 2 \in 1 .. (g - 1)
    BY <1>1, <1>3
  <2>2. \A k \in 1 .. (g - 1) : q[k] = segs[k]
    BY <1>3, GlobstarAbsorbed
  <2> QED BY <2>1, <2>2
<1> QED BY <1>1, <1>2, <1>3

\* A machine that was found was read of its project.
LEMMA MachineRead ==
  ASSUME NEW segs, NEW down, NEW p \in Seq(Words), Len(p) = 4, Sourced(segs, p, down)
  PROVE  p \in Paths /\ p[1] \notin down
<1> DEFINE m == SubSeq(p, 1, 3)
<1>1. m \in Seq(Words) /\ Len(m) = 3 /\ m[1] = p[1] /\ Append(m, p[4]) = p
  <2>1. 3 \in 0 .. Len(p) /\ 1 \in 1 .. 3 /\ Len(p) >= 1 /\ Len(p) - 1 = 3
    OBVIOUS
  <2>2. Append(SubSeq(p, 1, Len(p) - 1), p[Len(p)]) = p
    BY <2>1, LastFacts
  <2> QED BY <2>1, <2>2, PrefixFacts
<1>2. p[4] \in ChildrenOf(m, down).names
  <2>1. 4 \in 1 .. Len(p) /\ 4 - 1 = 3
    OBVIOUS
  <2>2. Read(segs, p, 4, down)
    BY <2>1 DEF Sourced, Believed
  <2> QED BY <2>1, <2>2 DEF Read
<1> HIDE DEF m
<1>3. m[1] \notin down /\ m \in Paths /\ p[4] \in Under(m)
  <2>1. ChildrenOf(m, down) = IF m[1] \in down \/ m \notin Paths THEN NoChildren ELSE [ok |-> TRUE, names |-> Under(m)]
    BY <1>1, ChildrenAt
  <2>2. CASE m[1] \in down \/ m \notin Paths
    <3>1. ChildrenOf(m, down) = NoChildren
      BY <2>1, <2>2
    <3>2. NoChildren.names = {}
      BY DEF NoChildren
    <3> QED BY <1>2, <3>1, <3>2
  <2>3. CASE ~(m[1] \in down \/ m \notin Paths)
    <3>1. ChildrenOf(m, down) = [ok |-> TRUE, names |-> Under(m)]
      BY <2>1, <2>3
    <3> QED BY <1>2, <2>3, <3>1
  <2> QED BY <2>2, <2>3
<1>4. PICK x \in Paths : IsStrictPrefix(m, x) /\ p[4] = x[4]
  BY <1>1, <1>3 DEF Under
<1>5. x \in Seq(Words) /\ Len(x) \in 1 .. 4
  BY PathWords
<1>6. Len(m) <= Len(x) /\ SubSeq(x, 1, Len(m)) = SubSeq(m, 1, Len(m)) /\ x # m
  BY <1>4 DEF IsStrictPrefix, IsPrefix
<1>7. SubSeq(x, 1, 3) = m
  <2>1. 3 \in 0 .. Len(m) /\ SubSeq(m, 1, 3) = m
    BY <1>1, PrefixFacts
  <2> QED BY <1>1, <1>6, <2>1
<1>8. Len(x) = 4
  <2>1. Len(x) = 3 => SubSeq(x, 1, 3) = x
    BY <1>5, PrefixFacts
  <2> QED BY <1>1, <1>5, <1>6, <1>7, <2>1
<1>9. x = p
  <2>1. Len(x) >= 1 /\ Len(x) - 1 = 3
    BY <1>8
  <2>2. Append(SubSeq(x, 1, Len(x) - 1), x[Len(x)]) = x
    BY <1>5, <2>1, LastFacts
  <2> QED BY <1>1, <1>4, <1>7, <1>8, <2>1, <2>2
<1> QED BY <1>1, <1>3, <1>9

-----------------------------------------------------------------------------
(* What a command acts on                                                  *)

\* A machine of an install, of the tenant the command binds the install to.
Chosen(ref, p) ==
  /\ p \in Paths /\ Len(p) = 4 /\ p[2] = TenantBoundTo(p[1])
  /\ MatchName(ref.project, p[3]) /\ MatchName(ref.machine, p[4])

LEMMA InProject ==
  ASSUME NEW p \in Paths, Len(p) = 4
  PROVE  <<p[1], p[2]>> \in Paths /\ p[3] \in ProjectsIn(p[1], p[2]) /\ p[1] \in PathRemotes
<1>1. p \in Seq(Words) /\ p[1] \in PathRemotes
  BY PathWords
<1> DEFINE two == SubSeq(p, 1, 2)
           three == SubSeq(p, 1, 3)
<1>2. two \in Paths /\ three \in Paths
  <2>1. 2 \in 1 .. Len(p) /\ 3 \in 1 .. Len(p)
    OBVIOUS
  <2> QED BY <2>1, PathsAssumption DEF PathsAssumption
<1>3. two = <<p[1], p[2]>>
  <2>1. 2 \in 0 .. Len(p) /\ 1 \in 1 .. 2 /\ 2 \in 1 .. 2
    OBVIOUS
  <2>2. two \in Seq(Words) /\ Len(two) = 2 /\ two[1] = p[1] /\ two[2] = p[2]
    BY <1>1, <2>1, PrefixFacts
  <2> HIDE DEF two
  <2> QED BY <2>2
<1>4. Len(three) = 3 /\ three[1] = p[1] /\ three[2] = p[2] /\ three[3] = p[3]
  <2>1. 3 \in 0 .. Len(p) /\ 1 \in 1 .. 3 /\ 2 \in 1 .. 3 /\ 3 \in 1 .. 3
    OBVIOUS
  <2> QED BY <1>1, <2>1, PrefixFacts
<1> HIDE DEF two, three
<1>5. p[3] \in ProjectsIn(p[1], p[2])
  BY <1>2, <1>4 DEF ProjectsIn
<1> QED BY <1>1, <1>2, <1>3, <1>5

LEMMA SelectedMachines ==
  ASSUME NEW ref, NEW r \in PathRemotes, NEW down
  PROVE  LET of == SelectMachines(ref, r, down) IN
         /\ of.ok => r \notin down /\ of.set = {p \in Paths : Chosen(ref, p) /\ p[1] = r}
         /\ ~of.ok /\ of.missing => r \notin down /\ of.set = {} /\ \A p \in Paths : ~(Chosen(ref, p) /\ p[1] = r)
         /\ of.ok \in BOOLEAN /\ of.missing \in BOOLEAN /\ (of.ok => ~of.missing)
<1> DEFINE t == TenantBoundTo(r)
           of == SelectMachines(ref, r, down)
           some == {p \in Paths : /\ Len(p) = 4 /\ p[1] = r /\ p[2] = t
                                  /\ MatchName(ref.project, p[3]) /\ MatchName(ref.machine, p[4])}
<1>1. CASE r \in down \/ <<r, t>> \notin Paths
  <2>1. of = [ok |-> FALSE, missing |-> FALSE, set |-> {}]
    BY <1>1 DEF SelectMachines
  <2> HIDE DEF of
  <2> QED BY <2>1 DEF of
<1>2. CASE ~(r \in down \/ <<r, t>> \notin Paths) /\ ~IsPattern(ref.project) /\ ref.project \notin ProjectsIn(r, t)
  <2>1. of = [ok |-> FALSE, missing |-> TRUE, set |-> {}]
    BY <1>2 DEF SelectMachines
  <2>2. ASSUME NEW p \in Paths, Chosen(ref, p), p[1] = r PROVE FALSE
    <3>1. p[3] = ref.project
      BY <1>2, <2>2 DEF Chosen, MatchName
    <3>2. p[3] \in ProjectsIn(r, t)
      BY <2>2, InProject DEF Chosen
    <3> QED BY <1>2, <3>1, <3>2
  <2> HIDE DEF of
  <2> QED BY <1>2, <2>1, <2>2 DEF of
<1>3. CASE ~(r \in down \/ <<r, t>> \notin Paths) /\ ~(~IsPattern(ref.project) /\ ref.project \notin ProjectsIn(r, t))
  <2>1. of = [ok |-> TRUE, missing |-> FALSE, set |-> some]
    BY <1>3 DEF SelectMachines
  <2>2. some = {p \in Paths : Chosen(ref, p) /\ p[1] = r}
    BY DEF Chosen
  <2> HIDE DEF of, some
  <2> QED BY <1>3, <2>1, <2>2 DEF of
<1> QED BY <1>1, <1>2, <1>3

LEMMA ActedOn ==
  ASSUME NEW ref, NEW down, SelectMachinesAcrossRemotes(ref, down).ok,
         ref.ok /\ ~IsPattern(ref.remote) => ref.remote \in PathRemotes
  PROVE  /\ ref.ok
         /\ SelectMachinesAcrossRemotes(ref, down).set = {p \in Paths : Chosen(ref, p) /\ MatchName(ref.remote, p[1])}
         /\ \A r \in PathRemotes : MatchName(ref.remote, r) => r \notin down
<1> DEFINE acted == SelectMachinesAcrossRemotes(ref, down)
           remotes == {r \in PathRemotes : MatchName(ref.remote, r)}
           of(r) == SelectMachines(ref, r, down)
<1>1. ref.ok
  <2> SUFFICES ASSUME ~ref.ok PROVE FALSE
    OBVIOUS
  <2>1. acted = [ok |-> FALSE, set |-> {}]
    BY DEF SelectMachinesAcrossRemotes
  <2> HIDE DEF acted
  <2>2. ~acted.ok
    BY <2>1
  <2> QED BY <2>2 DEF acted
<1>2. \A p \in Paths : Chosen(ref, p) => p[1] \in PathRemotes
  BY PathWords
<1>3. CASE ~IsPattern(ref.remote)
  <2> DEFINE r == ref.remote
  <2>1. acted = [ok |-> of(r).ok, set |-> of(r).set]
    BY <1>1, <1>3 DEF SelectMachinesAcrossRemotes
  <2>2. acted.ok
    OBVIOUS
  <2>3. r \in PathRemotes
    BY <1>1, <1>3
  <2>4. \A x : MatchName(ref.remote, x) <=> x = r
    BY <1>3 DEF MatchName
  <2> HIDE DEF acted, of
  <2>5. of(r).ok /\ acted.set = of(r).set
    BY <2>1, <2>2
  <2>6. r \notin down /\ of(r).set = {p \in Paths : Chosen(ref, p) /\ p[1] = r}
    BY <2>3, <2>5, SelectedMachines DEF of
  <2>7. acted.set = {p \in Paths : Chosen(ref, p) /\ MatchName(ref.remote, p[1])}
    BY <2>4, <2>5, <2>6
  <2> QED BY <1>1, <2>4, <2>6, <2>7 DEF acted
<1>4. CASE IsPattern(ref.remote)
  <2> DEFINE failing == remotes = {} \/ (\E r \in remotes : ~of(r).ok /\ ~of(r).missing) \/ (\A r \in remotes : of(r).missing)
  <2>1. acted = IF failing THEN [ok |-> FALSE, set |-> {}] ELSE [ok |-> TRUE, set |-> UNION {of(r).set : r \in remotes}]
    BY <1>1, <1>4 DEF SelectMachinesAcrossRemotes
  <2>2. acted.ok
    OBVIOUS
  <2> HIDE DEF acted, failing
  <2>3. ~failing
    BY <2>1, <2>2
  <2>4. acted.set = UNION {of(r).set : r \in remotes}
    BY <2>1, <2>3
  <2>5. \A r \in remotes : of(r).ok \/ of(r).missing
    BY <2>3 DEF failing
  <2>6. ASSUME NEW r \in remotes PROVE r \notin down /\ of(r).set = {p \in Paths : Chosen(ref, p) /\ p[1] = r}
    <3>0. r \in PathRemotes
      OBVIOUS
    <3> HIDE DEF remotes
    <3>1. CASE of(r).ok
      BY <3>0, <3>1, SelectedMachines
    <3>2. CASE ~of(r).ok /\ of(r).missing
      <4>1. r \notin down /\ of(r).set = {} /\ \A p \in Paths : ~(Chosen(ref, p) /\ p[1] = r)
        BY <3>0, <3>2, SelectedMachines
      <4> HIDE DEF of
      <4> QED BY <4>1
    <3> QED BY <2>5, <3>1, <3>2
  <2> HIDE DEF of
  <2>7. acted.set = {p \in Paths : Chosen(ref, p) /\ MatchName(ref.remote, p[1])}
    BY <1>2, <2>4, <2>6
  <2> QED BY <1>1, <2>6, <2>7 DEF acted
<1> QED BY <1>3, <1>4

LEMMA SeesTenant ==
  ASSUME NEW r \in PathRemotes, NEW t, NEW name, ShownAs(r, t, name), NEW down
  PROVE  TenantOfRemote(r) \in {NoName, t} /\ ChildrenOf(<<r>>, down).names \subseteq {t} /\ MatchName(name, t)
<1> DEFINE m == <<r>>
<1>1. Len(m) = 1 /\ m[1] = r
  OBVIOUS
<1> HIDE DEF m
<1>2. ChildrenOf(m, {}).names \subseteq {t} /\ MatchName(name, t)
  BY DEF ShownAs, m
<1>3. NoChildren.names = {}
  BY DEF NoChildren
<1>4. CASE TenantOfRemote(r) # NoName
  <2>1. \A d : ChildrenOf(m, d) = [ok |-> TRUE, names |-> {TenantOfRemote(r)}]
    BY <1>1, <1>4, ChildrenAt
  <2>2. ChildrenOf(m, {}).names = {TenantOfRemote(r)} /\ ChildrenOf(m, down).names = {TenantOfRemote(r)}
    BY <2>1
  <2> QED BY <1>2, <2>2 DEF m
<1>5. CASE TenantOfRemote(r) = NoName
  <2>1. \A d : ChildrenOf(m, d) = IF r \in d THEN NoChildren ELSE [ok |-> TRUE, names |-> Under(m)]
    BY <1>1, <1>5, ChildrenAt
  <2>2. ChildrenOf(m, {}) = [ok |-> TRUE, names |-> Under(m)]
    BY <2>1
  <2>3. Under(m) \subseteq {t}
    BY <1>2, <2>2
  <2>4. CASE r \in down
    BY <1>2, <1>3, <1>5, <2>1, <2>4 DEF m
  <2>5. CASE r \notin down
    <3>1. ChildrenOf(m, down) = [ok |-> TRUE, names |-> Under(m)]
      BY <2>1, <2>5
    <3>2. ChildrenOf(m, down).names = Under(m)
      BY <3>1
    <3> QED BY <1>2, <1>5, <2>3, <3>2 DEF m
  <2> QED BY <2>4, <2>5
<1> QED BY <1>4, <1>5

LEMMA SpreadFixed ==
  ASSUME NEW segs \in Seq(Words), Single(segs), Len(ExpandGlobstarToMachine(segs)) = 4
  PROVE  Fixed(segs) <= 4
<1> DEFINE n == Len(segs)
<1>0. n \in Nat
  OBVIOUS
<1>1. CASE \A k \in 1 .. n : segs[k] # Globstar
  <2>1. n = 4
    BY <1>1, NothingAbsorbed
  <2>2. Fixed(segs) = n
    BY <1>1, NoGlobstar
  <2> QED BY <2>1, <2>2
<1>2. ASSUME NEW g \in 1 .. n, segs[g] = Globstar PROVE Fixed(segs) <= 4
  <2> DEFINE s == Len(Stars(segs))
  <2>1. s \in Nat /\ n - 1 + s = 4
    BY <1>2, GlobstarAbsorbed
  <2>2. Fixed(segs) = n - 1
    BY <1>2, OneGlobstar
  <2> HIDE DEF n, s
  <2> QED BY <1>0, <2>1, <2>2
<1> QED BY <1>1, <1>2

\* The tenant of a machine that was found, where the tree shows only one.
LEMMA TenantFound ==
  ASSUME NEW segs \in Seq(Words), Single(segs), Len(ExpandGlobstarToMachine(segs)) = 4, NEW down,
         NEW p \in Paths, Len(p) = 4, Sourced(segs, p, down),
         NEW t, ShownAs(p[1], t, ExpandGlobstarToMachine(segs)[2])
  PROVE  p[2] = t
<1>1. p \in Seq(Words) /\ p[1] \in PathRemotes
  BY PathWords
<1>2. ChildrenOf(<<p[1]>>, down).names \subseteq {t} /\ MatchName(ExpandGlobstarToMachine(segs)[2], t)
  BY <1>1, SeesTenant
<1>3. Read(segs, p, 2, down) \/ Believed(segs, p, 2)
  <2>1. 2 \in 1 .. Len(p)
    OBVIOUS
  <2> QED BY <2>1 DEF Sourced
<1>4. CASE Read(segs, p, 2, down)
  <2> DEFINE m == SubSeq(p, 1, 1)
  <2>1. 1 \in 0 .. Len(p) /\ 1 \in 1 .. 1 /\ 2 - 1 = 1
    OBVIOUS
  <2>2. m \in Seq(Words) /\ Len(m) = 1 /\ m[1] = p[1]
    BY <1>1, <2>1, PrefixFacts
  <2>3. p[2] \in ChildrenOf(m, down).names
    BY <1>4, <2>1 DEF Read
  <2> HIDE DEF m
  <2>4. m = <<p[1]>>
    BY <2>2
  <2> QED BY <1>2, <2>3, <2>4
<1>5. CASE Believed(segs, p, 2)
  <2>1. ExpandGlobstarToMachine(segs)[2] = p[2] /\ ~IsPattern(p[2])
    BY <1>5, BelievedLevel
  <2> QED BY <1>2, <2>1 DEF MatchName
<1> QED BY <1>3, <1>4, <1>5

LEMMA ReferenceMade ==
  ASSUME NEW segs, Len(ExpandGlobstarToMachine(segs)) = 4
  PROVE  LET q == ExpandGlobstarToMachine(segs)
             ref == PathToMachineReference(segs) IN
         /\ ref.ok => ref = [ok |-> TRUE, remote |-> q[1], project |-> q[3], machine |-> q[4]]
         /\ ref.ok /\ ~IsPattern(ref.remote) => ref.remote \in PathRemotes
<1> DEFINE q == ExpandGlobstarToMachine(segs)
           ref == PathToMachineReference(segs)
           allowed == \/ IsPattern(q[1])
                      \/ /\ q[1] \in PathRemotes
                         /\ TenantOfRemote(q[1]) # NoName => MatchName(q[2], TenantOfRemote(q[1]))
<1>1. ref = IF Len(q) # Level.machine \/ ~allowed THEN [ok |-> FALSE]
            ELSE [ok |-> TRUE, remote |-> q[1], project |-> q[3], machine |-> q[4]]
  BY DEF PathToMachineReference
<1>2. Level.machine = 4
  BY DEF Level
<1> HIDE DEF ref
<1>3. CASE allowed
  <2>1. ref = [ok |-> TRUE, remote |-> q[1], project |-> q[3], machine |-> q[4]]
    BY <1>1, <1>2, <1>3
  <2>2. ref.remote = q[1]
    BY <2>1
  <2> QED BY <1>3, <2>1, <2>2 DEF ref
<1>4. CASE ~allowed
  <2>1. ref = [ok |-> FALSE]
    BY <1>1, <1>4
  <2>2. ~ref.ok
    BY <2>1
  <2> QED BY <2>2 DEF ref
<1> QED BY <1>3, <1>4

\* What a command acts on is what the same argument lists.
LEMMA ActingHolds ==
  ASSUME PathsTypeOK
  PROVE  ActsOnWhatIsListed
<1> DEFINE segs == asked.segs
           n == Len(segs)
           down == asked.down
           q == ExpandGlobstarToMachine(segs)
           ref == PathToMachineReference(segs)
           acted == SelectMachinesAcrossRemotes(ref, down)
           listed == ExpandPath(segs, down)
<1> SUFFICES ASSUME asked.op = "path", Globstars(segs) <= 1, Len(q) = Level.machine,
                    \A r \in PathRemotes : MatchName(q[1], r) => ShownAs(r, TenantBoundTo(r), q[2]),
                    acted.ok, listed.ok
             PROVE  acted.set = {p \in listed.at : Len(p) = Level.machine}
  BY DEF ActsOnWhatIsListed
<1>1. segs \in Seq(Words)
  BY DEF PathsTypeOK
<1> HIDE DEF segs, down
<1>2. n \in Nat /\ n \in 0 .. n
  BY <1>1
<1>3. Single(segs)
  BY <1>1, SingleGlobstar
<1>4. Len(q) = 4 /\ Level.machine = 4
  BY DEF Level
<1>5. Fixed(segs) <= 4
  BY <1>1, <1>3, <1>4, SpreadFixed
<1>6. PICK e : /\ Found(e, segs, down)
               /\ listed = [ok |-> e[n] # {}, at |-> e[n]]
  BY <1>1, ExpandFound
<1>7. e[n] # {} /\ listed.at = e[n]
  BY <1>6, ListingFound
<1>8. /\ ref.ok
      /\ acted.set = {p \in Paths : Chosen(ref, p) /\ MatchName(ref.remote, p[1])}
      /\ \A r \in PathRemotes : MatchName(ref.remote, r) => r \notin down
  <2>1. ref.ok /\ ~IsPattern(ref.remote) => ref.remote \in PathRemotes
    BY <1>4, ReferenceMade
  <2> HIDE DEF ref
  <2> QED BY <2>1, ActedOn
<1>9. ref.remote = q[1] /\ ref.project = q[3] /\ ref.machine = q[4]
  <2>1. ref = [ok |-> TRUE, remote |-> q[1], project |-> q[3], machine |-> q[4]]
    BY <1>4, <1>8, ReferenceMade
  <2> HIDE DEF ref
  <2> QED BY <2>1
<1> HIDE DEF q, ref, acted, listed
<1>10. ASSUME NEW p \in acted.set PROVE p \in e[n] /\ Len(p) = 4
  <2>1. p \in Paths /\ Chosen(ref, p) /\ MatchName(q[1], p[1])
    BY <1>8, <1>9
  <2>2. Len(p) = 4 /\ p[1] \in PathRemotes /\ p[1] \notin down /\ p[2] = TenantBoundTo(p[1])
    BY <1>8, <1>9, <2>1, PathWords DEF Chosen
  <2>3. TenantOfRemote(p[1]) \in {NoName, p[2]} /\ MatchName(q[2], p[2])
    <3>1. ShownAs(p[1], TenantBoundTo(p[1]), q[2])
      BY <2>1, <2>2
    <3> DEFINE t == TenantBoundTo(p[1])
    <3> HIDE DEF t
    <3>2. /\ TenantOfRemote(p[1]) \in {NoName, t} /\ ChildrenOf(<<p[1]>>, down).names \subseteq {t}
          /\ MatchName(q[2], t)
      BY <2>2, <3>1, SeesTenant DEF t
    <3> QED BY <2>2, <3>2 DEF t
  <2>4. \A k \in 1 .. 4 : MatchName(q[k], p[k])
    <3>1. MatchName(q[3], p[3]) /\ MatchName(q[4], p[4])
      BY <1>9, <2>1 DEF Chosen
    <3>2. \A k \in 1 .. 4 : k = 1 \/ k = 2 \/ k = 3 \/ k = 4
      OBVIOUS
    <3> QED BY <2>1, <2>3, <3>1, <3>2
  <2>5. Fits(segs, n, p)
    BY <1>1, <1>3, <1>4, <2>1, <2>2, <2>4, FitsSpread DEF q
  <2>6. p \in Shown /\ Clear(p, down)
    BY <2>1, <2>2, <2>3 DEF Shown, Clear
  <2>7. Within(segs, n, p)
    <3>1. 4 <= 4 - (n - n)
      BY <1>2
    <3> QED BY <2>2, <3>1 DEF Within
  <2>8. p \in e[n]
    BY <1>1, <1>2, <1>3, <1>5, <1>6, <1>7, <2>5, <2>6, <2>7, FitsFound
  <2> QED BY <2>2, <2>8
<1>11. ASSUME NEW p \in e[n], Len(p) = 4 PROVE p \in acted.set
  <2>1. p \in Seq(Words) /\ Fits(segs, n, p) /\ Sourced(segs, p, down)
    <3>1. e[n] \subseteq Matching(segs, n, down)
      BY <1>1, <1>2, <1>3, <1>6, FoundFits
    <3> QED BY <3>1 DEF Matching
  <2>2. p \in Paths /\ p[1] \in PathRemotes
    BY <1>11, <2>1, MachineRead, PathWords
  <2>3. \A k \in 1 .. 4 : MatchName(q[k], p[k])
    BY <1>1, <1>3, <1>4, <1>11, <2>1, <2>2, FitsSpread DEF q
  <2>4. MatchName(q[1], p[1]) /\ MatchName(q[3], p[3]) /\ MatchName(q[4], p[4])
    BY <2>3
  <2>5. p[2] = TenantBoundTo(p[1])
    <3>1. ShownAs(p[1], TenantBoundTo(p[1]), q[2])
      BY <2>2, <2>4
    <3> QED BY <1>1, <1>3, <1>4, <1>11, <2>1, <2>2, <3>1, TenantFound DEF q
  <2>6. Chosen(ref, p) /\ MatchName(ref.remote, p[1])
    BY <1>9, <1>11, <2>2, <2>4, <2>5 DEF Chosen
  <2> QED BY <1>8, <2>2, <2>6
<1>12. acted.set = {p \in listed.at : Len(p) = Level.machine}
  BY <1>4, <1>7, <1>10, <1>11
<1> QED BY <1>12

\* The cache, when it holds what Incus does, answers as Incus would.
LEMMA CacheHolds == CacheAnswersLive
<1> DEFINE d == asked.q
           f == ProjectFilter(d)
           cached == ResourcesAPI(d, Paths)
           live == ListMachinesRaw(d, {})
           at == <<Admin.remote, Admin.tenant>>
<1> SUFFICES ASSUME cached.ok PROVE live.ok /\ cached.set = live.set
  BY DEF CacheAnswersLive
<1>1. CASE at \notin Paths
  <2>1. cached = NoListing
    BY <1>1 DEF ResourcesAPI
  <2> QED BY <2>1 DEF NoListing
<1>2. CASE at \in Paths /\ f # NoName /\ ~IsPattern(f) /\ f \notin ProjectsIn(Admin.remote, Admin.tenant)
  <2>1. cached = NoListing
    BY <1>2 DEF ResourcesAPI
  <2> QED BY <2>1 DEF NoListing
<1>3. CASE at \in Paths /\ ~(f # NoName /\ ~IsPattern(f) /\ f \notin ProjectsIn(Admin.remote, Admin.tenant))
  <2>1. cached = [ok |-> TRUE, set |-> Filtered(Paths, f, d.machine)]
    BY <1>3 DEF ResourcesAPI
  <2>2. d.project # NoName => f = d.project
    BY DEF ProjectFilter
  <2>3. ~(d.project # NoName /\ ~IsPattern(d.project) /\ d.project \notin ProjectsIn(Admin.remote, Admin.tenant))
    BY <1>3, <2>2
  <2>4. live = [ok |-> TRUE, set |-> Filtered(Paths, f, d.machine)]
    BY <1>3, <2>3 DEF ListMachinesRaw
  <2> HIDE DEF cached, live
  <2>5. live.ok /\ cached.set = live.set
    BY <2>1, <2>4
  <2> QED BY <2>5 DEF cached, live
<1> QED BY <1>1, <1>2, <1>3

-----------------------------------------------------------------------------
(* The commands                                                            *)

LEMMA InitPaths ==
  ASSUME PathsInit
  PROVE  PathsInv
<1>1. PICK r \in PathRemotes, p \in {q[3] : q \in {x \in Paths : Len(x) = 3}} :
        Served[r] # NoName /\ global = [remote |-> r, tenant |-> Served[r], project |-> p]
  BY DEF PathsInit
<1>2. p \in Words /\ Served[r] \in Words
  BY <1>1, PathWords
<1>3. global \in Globals
  BY <1>1, <1>2 DEF Globals
<1>4. here = NoName /\ asked.op = "none" /\ moved = NotMoved
  BY DEF PathsInit, NothingAsked
<1> QED BY <1>3, <1>4 DEF PathsInv, PathsTypeOK, CdArrives

LEMMA AskKeeps ==
  ASSUME PathsInv,
         \/ \E arg \in PathArgs, down \in DownSets : Ask(arg, down)
         \/ \E name \in BareNames, lag \in CacheLags : AskBare(name, lag)
         \/ \E project, name, all, down : AskList(project, name, all, down)
  PROVE  PathsInv'
<1>1. moved' = NotMoved /\ UNCHANGED <<here, global>>
  BY DEF Ask, AskBare, AskList
<1>2. CASE \E arg \in PathArgs, down \in DownSets : Ask(arg, down)
  <2>1. PICK arg \in PathArgs, down \in DownSets : Ask(arg, down)
    BY <1>2
  <2> DEFINE segs == ResolvePath(arg).segs
  <2>2. asked' = [op |-> "path", segs |-> segs, down |-> down]
    BY <2>1 DEF Ask
  <2>3. segs \in Seq(Words)
    BY ResolvedPath DEF PathsInv
  <2> HIDE DEF segs
  <2>4. asked'.op = "path" /\ asked'.segs \in Seq(Words)
    BY <2>2, <2>3
  <2> QED BY <1>1, <2>4 DEF PathsInv, PathsTypeOK, CdArrives
<1>3. CASE \E name \in BareNames, lag \in CacheLags : AskBare(name, lag)
  <2>1. asked'.op = "bare"
    BY <1>3 DEF AskBare
  <2> QED BY <1>1, <2>1 DEF PathsInv, PathsTypeOK, CdArrives
<1>4. CASE \E project, name, all, down : AskList(project, name, all, down)
  <2>1. asked'.op = "list"
    BY <1>4 DEF AskList
  <2> QED BY <1>1, <2>1 DEF PathsInv, PathsTypeOK, CdArrives
<1> QED BY <1>2, <1>3, <1>4

LEMMA PathsKeep ==
  ASSUME PathsInv, PathsNext
  PROVE  PathsInv'
<1>1. CASE \E arg \in CdArgs, localOnly \in BOOLEAN, down \in DownSets : Cd(arg, localOnly, down)
  BY <1>1, CdKeeps
<1>2. CASE \E arg \in PathArgs, down \in DownSets : Ask(arg, down)
  BY <1>2, AskKeeps
<1>3. CASE \E name \in BareNames, lag \in CacheLags : AskBare(name, lag)
  BY <1>3, AskKeeps
<1>4. CASE \E project, name, all, down : AskList(project, name, all, down)
  BY <1>4, AskKeeps
<1> QED BY <1>1, <1>2, <1>3, <1>4 DEF PathsNext

LEMMA PathsStutter ==
  ASSUME PathsInv, UNCHANGED pathVars
  PROVE  PathsInv'
<1>1. /\ here' = here /\ global' = global /\ asked' = asked /\ moved' = moved
  BY DEF pathVars
<1>2. PathsTypeOK'
  BY <1>1 DEF PathsInv, PathsTypeOK
<1>3. CdArrives'
  BY <1>1 DEF PathsInv, CdArrives, CurrentPosition, Admin, ResolvePath, HomePosition
<1> QED BY <1>2, <1>3 DEF PathsInv

\* The files name what exists, and what was asked is a path of words.
THEOREM PathsStayTyped == PathsSpec => []PathsTypeOK
<1>1. PathsInv /\ [PathsNext]_pathVars => PathsInv'
  BY PathsKeep, PathsStutter
<1>2. PathsInv => PathsTypeOK
  BY DEF PathsInv
<1> QED BY <1>1, <1>2, InitPaths, PTL DEF PathsSpec

\* A path means one thing to every command: what it lists is what it means,
\* what a command acts on is what it lists, cd arrives where it says and leads
\* back, and the cache answers as Incus does.
THEOREM PathsStayOne == PathsSpec => []PathsMeanOneThing
<1>1. PathsInv /\ [PathsNext]_pathVars => PathsInv'
  BY PathsKeep, PathsStutter
<1>2. PathsInv => PathsMeanOneThing
  BY ListingHolds, ActingHolds, CacheHolds DEF PathsInv, PathsMeanOneThing
<1> QED BY <1>1, <1>2, InitPaths, PTL DEF PathsSpec

-----------------------------------------------------------------------------
(***************************************************************************)
(* The resolver and the trust store: what their commands report is true,   *)
(* for any number of commands, tenants and suffixes.  A command is cut     *)
(* off, fails or starts again under sudo between any two steps, and a      *)
(* reboot or a command on another suffix reloads every unit or rebuilds    *)
(* the whole bundle in between.  The invariant says what each step of a    *)
(* command has reached (ResFit): what it will report is true when it       *)
(* reports it, and nothing is reported of the suffix while its command is  *)
(* under way.                                                              *)
(***************************************************************************)
ResRows == [ResNames -> {NoRow} \cup [suffix : ResSuffixes, gen : Gens]]
ResOpNames == {"login", "teardown", "uninstall", "trust", "untrust"}
ResRecords ==
  [at : {"idle"} \cup DnsSteps \cup TrustSteps, op : ResOpNames \cup {NoRow}, tenant : ResTenants \cup {NoRow},
   suffix : ResSuffixes \cup {NoRow}, gen : Gens \cup {NoRow}, as : {"user", "sudo", "root"}, rows : {NoRow} \cup ResRows]

\* What a command of the step holds.
ShellShape(k) ==
  /\ k \in ResRecords
  /\ k.at # "idle" => k.gen \in Gens /\ k.op \in ResOpNames /\ k.suffix \in ResSuffixes
  /\ k.at \in DnsSteps => k.tenant \in ResTenants
  /\ k.at = "write" => k.rows \in ResRows
  /\ k.at = "fetch" => IF k.op = "login" THEN k.tenant \in ResTenants ELSE k.suffix \in ResTenants
  /\ k.at \in {"anchor", "unanchor", "bundle"} => k.suffix \in ResTenants
  /\ k.at \in {"fetch", "anchor"} => k.op # "untrust"
  /\ k.at = "unanchor" => k.op = "untrust"

ResData ==
  /\ dnsRows \in ResRows
  /\ unit \in [ResSuffixes -> {NoRow} \cup Gens]
  /\ loaded \in [ResSuffixes -> {NoRow} \cup Gens]
  /\ served \in [ResSuffixes -> {NoRow} \cup Gens]
  /\ boot \subseteq ResSuffixes /\ globalDNS \subseteq ResSuffixes
  /\ dropIns \subseteq LegacySuffixes
  /\ anchors \in [ResTenants -> 0 .. MaxGen]
  /\ bundle \in [ResTenants -> 0 .. MaxGen]
  /\ subnet \in [ResTenants -> [gen : Gens, alive : BOOLEAN]]
  /\ loginTenant \in ResTenants \cup {NoRow}
  /\ told \in [dns : [ResSuffixes -> {"nothing", "installed", "removed"}],
               ca : [ResTenants -> {"nothing", "trusted", "removed"}]]
  /\ reboots \in 0 .. MaxReboots

ResShapes ==
  /\ ResData
  /\ resShell \in [ResShells -> ResRecords]
  /\ \A c \in ResShells : ShellShape(resShell[c])

\* What a command has reached when it is at a step.
ResFit(j) ==
  /\ j.at \in DnsSteps => told.dns[j.suffix] = "nothing"
  /\ j.at \in {"resolved", "reload", "enable", "restart"} => unit[j.suffix] # NoRow
  /\ j.at \in {"enable", "restart"} => loaded[j.suffix] = unit[j.suffix]
  /\ j.at = "restart" => j.suffix \in boot
  /\ j.at \in {"remove", "sync"} => served[j.suffix] = NoRow /\ j.suffix \notin boot
  /\ j.at = "sync" => unit[j.suffix] = NoRow
  /\ j.at = "bundle" => told.ca[j.suffix] = "nothing" /\ (anchors[j.suffix] = 0 <=> j.op = "untrust")

DnsReport(s) ==
  /\ told.dns[s] = "installed" =>
       unit[s] # NoRow /\ loaded[s] = unit[s] /\ served[s] = unit[s] /\ s \in boot
  /\ told.dns[s] = "removed" => unit[s] = NoRow /\ served[s] = NoRow /\ s \notin boot
CaReport(t) ==
  /\ told.ca[t] = "trusted" => bundle[t] = anchors[t] /\ anchors[t] # 0
  /\ told.ca[t] = "removed" => bundle[t] = 0 /\ anchors[t] = 0

ResInv ==
  /\ ResShapes
  /\ \A s \in ResSuffixes : DnsReport(s)
  /\ \A t \in ResTenants : CaReport(t)
  /\ \A c \in ResShells : ResFit(resShell[c])

\* Steps of a command are no steps of another kind.
LEMMA ResStepNames ==
  /\ "idle" \notin DnsSteps \cup TrustSteps
  /\ DnsSteps \cap TrustSteps = {}
  /\ {"read", "write", "unit", "resolved", "reload", "enable", "restart", "disable", "remove", "sync", "sudo"} = DnsSteps
  /\ {"fetch", "anchor", "unanchor", "bundle"} = TrustSteps
BY DEF DnsSteps, TrustSteps

\* What a command on another suffix may do to the resolver of s and to the CA of t.
DnsMild(s) ==
  /\ unit'[s] = unit[s] /\ (s \in boot <=> s \in boot') /\ told'.dns[s] = told.dns[s]
  /\ loaded'[s] \in {loaded[s], unit[s]}
  /\ served'[s] = served[s] \/ (served[s] # NoRow /\ served'[s] = loaded[s])
CaMild(t) ==
  /\ anchors'[t] = anchors[t] /\ told'.ca[t] = told.ca[t]
  /\ bundle'[t] \in {bundle[t], anchors[t]}

\* Reports survive it,
LEMMA ReportsKeep ==
  /\ \A s : DnsReport(s) /\ DnsMild(s) => DnsReport(s)'
  /\ \A t : CaReport(t) /\ CaMild(t) => CaReport(t)'
<1>1. ASSUME NEW s, DnsReport(s), DnsMild(s) PROVE DnsReport(s)'
  BY <1>1 DEF DnsReport, DnsMild
<1>2. ASSUME NEW t, CaReport(t), CaMild(t) PROVE CaReport(t)'
  BY <1>2 DEF CaReport, CaMild
<1> QED BY <1>1, <1>2

\* and so does what a command has reached.
LEMMA FitKeeps ==
  ASSUME NEW j, ShellShape(j), ResFit(j),
         j.suffix \in ResSuffixes => DnsMild(j.suffix),
         j.suffix \in ResTenants => CaMild(j.suffix)
  PROVE  ResFit(j)'
<1>1. CASE j.at \in DnsSteps
  <2>1. DnsMild(j.suffix) /\ j.at # "bundle"
    BY <1>1, ResStepNames DEF ShellShape, TrustSteps
  <2> QED BY <1>1, <2>1 DEF ResFit, DnsMild
<1>2. CASE j.at \notin DnsSteps
  <2>1. j.at \notin {"resolved", "reload", "enable", "restart", "remove", "sync"}
    BY <1>2, ResStepNames
  <2>2. j.at = "bundle" => CaMild(j.suffix)
    BY DEF ShellShape
  <2> QED BY <1>2, <2>1, <2>2 DEF ResFit, CaMild
<1> QED BY <1>1, <1>2

\* A step of one command, which leaves other suffixes mildly changed at most.
LEMMA OneCommandGoes ==
  ASSUME ResInv, ResApart, ResShapes', NEW c \in ResShells, NEW k, resShell' = [resShell EXCEPT ![c] = k],
         NEW Mine, \A d \in ResShells \ {c} : resShell[d].at # "idle" => resShell[d].suffix \notin Mine,
         \A s \in ResSuffixes \ Mine : DnsMild(s),
         \A t \in ResTenants \ Mine : CaMild(t),
         \A s \in ResSuffixes \cap Mine : DnsReport(s)',
         \A t \in ResTenants \cap Mine : CaReport(t)',
         ResFit(k)'
  PROVE  ResInv'
<1>1. ASSUME NEW d \in ResShells PROVE ResFit(resShell[d])'
  <2>1. CASE d = c
    <3>1. resShell'[d] = k
      BY <2>1 DEF ResInv, ResShapes
    <3> QED BY <3>1 DEF ResFit
  <2>2. CASE d # c
    <3>1. PICK j : j = resShell[d]
      OBVIOUS
    <3>2. resShell'[d] = j
      BY <2>2, <3>1 DEF ResInv, ResShapes
    <3>3. ShellShape(j) /\ ResFit(j)
      BY <3>1 DEF ResInv, ResShapes
    <3>4. CASE j.at = "idle"
      BY <3>2, <3>4, ResStepNames DEF ResFit
    <3>5. CASE j.at # "idle"
      <4>1. j.suffix \notin Mine
        BY <2>2, <3>1, <3>5
      <4>2. ResFit(j)'
        BY <3>3, <4>1, FitKeeps
      <4> QED BY <3>2, <4>2 DEF ResFit
    <3> QED BY <3>4, <3>5
  <2> QED BY <2>1, <2>2
<1>2. ASSUME NEW s \in ResSuffixes PROVE DnsReport(s)'
  <2>1. CASE s \in Mine
    BY <2>1
  <2>2. CASE s \notin Mine
    <3>1. DnsMild(s) /\ DnsReport(s)
      BY <2>2 DEF ResInv
    <3> QED BY <3>1, ReportsKeep
  <2> QED BY <2>1, <2>2
<1>3. ASSUME NEW t \in ResTenants PROVE CaReport(t)'
  <2>1. CASE t \in Mine
    BY <2>1
  <2>2. CASE t \notin Mine
    <3>1. CaMild(t) /\ CaReport(t)
      BY <2>2 DEF ResInv
    <3> QED BY <3>1, ReportsKeep
  <2> QED BY <2>1, <2>2
<1> QED BY <1>1, <1>2, <1>3 DEF ResInv

LEMMA ResInitInv == ResInit => ResInv
<1> SUFFICES ASSUME ResInit PROVE ResInv
  OBVIOUS
<1> USE ResAssumption
<1>1. 1 \in Gens /\ 0 \in 0 .. MaxGen
  BY DEF Gens
<1>2. ShellShape(ResIdle)
  BY DEF ShellShape, ResIdle, ResRecords, DnsSteps, TrustSteps
<1>3. ResData
  BY <1>1 DEF ResInit, ResData, ResSuffixes, ResRows
<1>4. ResShapes
  BY <1>2, <1>3 DEF ResShapes, ResInit, ShellShape
<1>5. \A s \in ResSuffixes : DnsReport(s)
  BY DEF ResInit, DnsReport
<1>6. \A t \in ResTenants : CaReport(t)
  BY DEF ResInit, CaReport
<1>7. \A c \in ResShells : ResFit(resShell[c])
  BY ResStepNames DEF ResInit, ResFit, ResIdle
<1> QED BY <1>4, <1>5, <1>6, <1>7 DEF ResInv

\* The type invariant of the module.
LEMMA ShapesAreTypes == ResShapes => ResTypeOK
BY DEF ResShapes, ResData, ResRows, ResTypeOK, ResRecords

\* A command that is under way has its suffix to itself.
LEMMA OwnSuffix ==
  ASSUME ResShapes, ResApart, NEW c \in ResShells, NEW d \in ResShells \ {c}, resShell[d].at # "idle"
  PROVE  resShell[d].suffix \notin {resShell[c].suffix}
BY ResAssumption DEF ResShapes, ShellShape, ResApart

Goes(c, k) == resShell' = [resShell EXCEPT ![c] = k]

\* Where a command goes.
LEMMA StepGoes ==
  ASSUME ResShapes, NEW c \in ResShells, NEW x, StepTo(c, x),
         \/ resShell[c].at \in DnsSteps /\ x \in DnsSteps \ {"write"}
         \/ resShell[c].at \in {"anchor", "unanchor"} /\ x = "bundle"
  PROVE  \E k : Goes(c, k) /\ ShellShape(k) /\ k.at = x /\ k.suffix = resShell[c].suffix /\ k.op = resShell[c].op
<1>1. PICK j : j = resShell[c]
  OBVIOUS
<1> DEFINE k == [j EXCEPT !.at = x]
<1>2. ShellShape(j)
  BY <1>1 DEF ResShapes
<1>3. x \in DnsSteps \cup TrustSteps
  BY DEF TrustSteps
<1>4. /\ k \in ResRecords /\ k.at = x /\ k.suffix = j.suffix /\ k.op = j.op /\ k.gen = j.gen
      /\ k.tenant = j.tenant /\ k.rows = j.rows
  BY <1>2, <1>3 DEF ShellShape, ResRecords
<1>5. Goes(c, k)
  BY <1>1 DEF ResShapes, StepTo, Goes
<1> HIDE DEF k
<1>6. ShellShape(k)
  BY <1>1, <1>2, <1>4, ResStepNames DEF ShellShape
<1> QED BY <1>1, <1>4, <1>5, <1>6

LEMMA EndGoes ==
  ASSUME ResShapes, NEW c \in ResShells, Ends(c) \/ (resShell[c].at \in DnsSteps /\ GiveUp(c))
  PROVE  \E k : Goes(c, k) /\ ShellShape(k) /\ k.at \in {"idle", "fetch"}
<1>1. ResIdle.at = "idle" /\ ShellShape(ResIdle)
  BY DEF ShellShape, ResIdle, ResRecords, DnsSteps, TrustSteps
<1>2. CASE resShell' = [resShell EXCEPT ![c] = ResIdle]
  BY <1>1, <1>2 DEF Goes
<1>3. CASE resShell[c].at \in DnsSteps /\ GiveUp(c) /\ IsInstall(c)
  <2>1. PICK j : j = resShell[c]
    OBVIOUS
  <2>2. PICK as : as = IF j.as = "sudo" THEN "user" ELSE j.as
    OBVIOUS
  <2> DEFINE k == [j EXCEPT !.at = "fetch", !.as = as]
  <2>3. ShellShape(j) /\ j.op = "login" /\ j.at \in DnsSteps /\ j.at # "idle"
    BY <1>3, <2>1, ResStepNames DEF ResShapes, IsInstall
  <2>4. as \in {"user", "sudo", "root"} /\ "fetch" \in TrustSteps
    BY <2>2, <2>3 DEF ShellShape, ResRecords, TrustSteps
  <2>5. /\ k \in ResRecords /\ k.at = "fetch" /\ k.suffix = j.suffix /\ k.op = j.op /\ k.gen = j.gen
        /\ k.tenant = j.tenant
    BY <2>3, <2>4 DEF ShellShape, ResRecords
  <2>6. Goes(c, k)
    BY <1>3, <2>1, <2>2 DEF GiveUp, Goes
  <2> HIDE DEF k
  <2>7. ShellShape(k)
    BY <2>3, <2>5, ResStepNames DEF ShellShape
  <2> QED BY <2>5, <2>6, <2>7
<1> QED BY <1>2, <1>3 DEF Ends, GiveUp

\* A step of a command keeps the invariant when it keeps the data typed, reaches
\* what the next step needs and reports what holds.
LEMMA CommandGoes ==
  ASSUME ResInv, ResApart, ResData', NEW c \in ResShells, NEW k, Goes(c, k), ShellShape(k), ResFit(k)',
         NEW s, s = resShell[c].suffix,
         \A q \in ResSuffixes \ {s} : DnsMild(q),
         \A t \in ResTenants \ {s} : CaMild(t),
         s \in ResSuffixes => DnsReport(s)',
         s \in ResTenants => CaReport(s)'
  PROVE  ResInv'
<1>1. ResShapes'
  BY DEF ResInv, ResShapes, Goes, ShellShape
<1>2. \A d \in ResShells \ {c} : resShell[d].at # "idle" => resShell[d].suffix \notin {s}
  BY OwnSuffix DEF ResInv
<1> QED BY <1>1, <1>2, OneCommandGoes DEF Goes

\* A step that disturbs no suffix.
LEMMA QuietGoes ==
  ASSUME ResInv, ResApart, ResData', NEW c \in ResShells, NEW k, Goes(c, k), ShellShape(k), ResFit(k)',
         \A q \in ResSuffixes : DnsMild(q),
         \A t \in ResTenants : CaMild(t)
  PROVE  ResInv'
<1>1. \A q \in ResSuffixes : DnsReport(q)'
  BY ReportsKeep DEF ResInv
<1>2. \A t \in ResTenants : CaReport(t)'
  BY ReportsKeep DEF ResInv
<1> QED BY <1>1, <1>2, CommandGoes

LEMMA EndFits == ASSUME NEW k, k.at \in {"idle", "fetch"} PROVE ResFit(k)'
BY ResStepNames DEF ResFit

\* Steps that only move on: nothing on disk or in the system changes,
LEMMA PlanData ==
  ASSUME ResShapes, NEW c \in ResShells, Escalate(c) \/ ReadState(c) \/ WriteState(c) \/ FetchCA(c) \/ CutShort(c)
  PROVE  ResData' /\ UNCHANGED <<unit, loaded, boot, served, anchors, bundle, told>>
<1>1. PICK j : j = resShell[c]
  OBVIOUS
<1>2. ShellShape(j)
  BY <1>1 DEF ResShapes
<1>3. UNCHANGED <<unit, loaded, boot, served, anchors, bundle, told>>
  BY DEF Escalate, ReadState, WriteState, FetchCA, CutShort, diskVars, machineVars
<1>4. CASE WriteState(c)
  <2>1. j.rows \in ResRows /\ j.gen \in Gens /\ j.suffix \in ResSuffixes
    BY <1>1, <1>2, <1>4, ResStepNames DEF WriteState, ShellShape
  <2>2. PICK row : row = IF IsInstall(c) THEN [suffix |-> j.suffix, gen |-> j.gen] ELSE NoRow
    OBVIOUS
  <2>3. dnsRows' = [j.rows EXCEPT ![ResNameOf[j.tenant]] = row]
    BY <1>1, <1>4, <2>2 DEF WriteState
  <2>4. dnsRows' \in ResRows
    BY <2>1, <2>2, <2>3 DEF ResRows
  <2> QED BY <1>3, <1>4, <2>4 DEF WriteState, ResShapes, ResData, diskVars, machineVars
<1>5. CASE ~WriteState(c)
  BY <1>3, <1>5 DEF Escalate, ReadState, FetchCA, CutShort, ResShapes, ResData, diskVars, machineVars
<1> QED BY <1>3, <1>4, <1>5

\* and the command goes to where it holds what it needs.
LEMMA PlanGoes ==
  ASSUME ResShapes, NEW c \in ResShells, Escalate(c) \/ ReadState(c) \/ WriteState(c) \/ FetchCA(c) \/ CutShort(c)
  PROVE  \E k : /\ Goes(c, k) /\ ShellShape(k)
                /\ \/ k.at \in {"idle", "fetch", "anchor"}
                   \/ /\ k.at \in {"read", "write", "unit", "disable"}
                      /\ k.suffix = resShell[c].suffix /\ resShell[c].at \in DnsSteps
<1>1. PICK j : j = resShell[c]
  OBVIOUS
<1>2. ShellShape(j)
  BY <1>1 DEF ResShapes
<1>3. CASE Escalate(c)
  <2>1. CASE GiveUp(c)
    BY <1>3, <2>1, EndGoes, ResStepNames DEF Escalate
  <2>2. CASE resShell' = [resShell EXCEPT ![c].at = "read", ![c].as = "sudo"]
    <3> DEFINE k == [j EXCEPT !.at = "read", !.as = "sudo"]
    <3>1. /\ k \in ResRecords /\ k.at = "read" /\ k.suffix = j.suffix /\ k.op = j.op /\ k.gen = j.gen
          /\ k.tenant = j.tenant
      BY <1>2, ResStepNames DEF ShellShape, ResRecords
    <3>2. Goes(c, k)
      BY <1>1, <1>2, <2>2 DEF Goes, ResShapes
    <3> HIDE DEF k
    <3>3. j.at = "sudo"
      BY <1>1, <1>3 DEF Escalate
    <3>4. ShellShape(k)
      BY <1>2, <3>1, <3>3, ResStepNames DEF ShellShape
    <3> QED BY <1>1, <3>1, <3>2, <3>3, <3>4, ResStepNames
  <2> QED BY <1>3, <2>1, <2>2 DEF Escalate
<1>4. CASE ReadState(c)
  <2> DEFINE k == [j EXCEPT !.at = "write", !.rows = dnsRows]
  <2>1. dnsRows \in ResRows
    BY DEF ResShapes, ResData
  <2>2. /\ k \in ResRecords /\ k.at = "write" /\ k.suffix = j.suffix /\ k.op = j.op /\ k.gen = j.gen
        /\ k.tenant = j.tenant /\ k.rows \in ResRows
    BY <1>2, <2>1, ResStepNames DEF ShellShape, ResRecords
  <2>3. Goes(c, k)
    BY <1>1, <1>2, <1>4 DEF Goes, ResShapes, ReadState
  <2> HIDE DEF k
  <2>4. j.at = "read"
    BY <1>1, <1>4 DEF ReadState
  <2>5. ShellShape(k)
    BY <1>2, <2>2, <2>4, ResStepNames DEF ShellShape
  <2> QED BY <1>1, <2>2, <2>3, <2>4, <2>5, ResStepNames
<1>5. CASE WriteState(c)
  <2>1. PICK x : x = IF IsInstall(c) THEN "unit" ELSE "disable"
    OBVIOUS
  <2> DEFINE k == [j EXCEPT !.at = x, !.rows = NoRow]
  <2>2. x \in {"unit", "disable"} /\ x \in DnsSteps
    BY <2>1, ResStepNames
  <2>3. /\ k \in ResRecords /\ k.at = x /\ k.suffix = j.suffix /\ k.op = j.op /\ k.gen = j.gen
        /\ k.tenant = j.tenant
    BY <1>2, <2>2 DEF ShellShape, ResRecords
  <2>4. Goes(c, k)
    BY <1>1, <1>2, <1>5, <2>1 DEF Goes, ResShapes, WriteState
  <2> HIDE DEF k
  <2>5. j.at = "write"
    BY <1>1, <1>5 DEF WriteState
  <2>6. ShellShape(k)
    BY <1>2, <2>2, <2>3, <2>5, ResStepNames DEF ShellShape
  <2> QED BY <1>1, <2>2, <2>3, <2>4, <2>5, <2>6, ResStepNames
<1>6. CASE FetchCA(c)
  <2>1. CASE Ends(c)
    BY <2>1, EndGoes
  <2>2. PICK t : t = IF j.op = "login" THEN j.tenant ELSE j.suffix
    OBVIOUS
  <2>3. CASE resShell' = [resShell EXCEPT ![c].at = "anchor", ![c].suffix = t]
    <3> DEFINE k == [j EXCEPT !.at = "anchor", !.suffix = t]
    <3>1. j.at = "fetch"
      BY <1>1, <1>6 DEF FetchCA
    <3>2. t \in ResTenants /\ t \in ResSuffixes
      BY <1>2, <2>2, <3>1 DEF ShellShape, ResSuffixes
    <3>3. k \in ResRecords /\ k.at = "anchor" /\ k.suffix = t /\ k.op = j.op /\ k.gen = j.gen
      BY <1>2, <3>2, ResStepNames DEF ShellShape, ResRecords
    <3>4. Goes(c, k)
      BY <1>1, <1>2, <2>3 DEF Goes, ResShapes
    <3> HIDE DEF k
    <3>5. ShellShape(k)
      BY <1>2, <3>1, <3>2, <3>3, ResStepNames DEF ShellShape
    <3> QED BY <3>3, <3>4, <3>5
  <2> QED BY <1>1, <1>6, <2>1, <2>2, <2>3 DEF FetchCA
<1>7. CASE CutShort(c)
  BY <1>7, EndGoes DEF CutShort
<1> QED BY <1>3, <1>4, <1>5, <1>6, <1>7

LEMMA ResPlanKeeps ==
  ASSUME ResInv, ResApart, NEW c \in ResShells, Escalate(c) \/ ReadState(c) \/ WriteState(c) \/ FetchCA(c) \/ CutShort(c)
  PROVE  ResInv'
<1>1. ResShapes /\ ResData' /\ UNCHANGED <<unit, loaded, boot, served, anchors, bundle, told>>
  BY PlanData DEF ResInv
<1>2. \A q \in ResSuffixes : DnsMild(q)
  BY <1>1 DEF DnsMild
<1>3. \A t \in ResTenants : CaMild(t)
  BY <1>1 DEF CaMild
<1>4. PICK k : /\ Goes(c, k) /\ ShellShape(k)
               /\ \/ k.at \in {"idle", "fetch", "anchor"}
                  \/ /\ k.at \in {"read", "write", "unit", "disable"}
                     /\ k.suffix = resShell[c].suffix /\ resShell[c].at \in DnsSteps
  BY <1>1, PlanGoes
<1>5. ResFit(resShell[c])
  BY DEF ResInv
<1>6. ResFit(k)'
  BY <1>1, <1>4, <1>5, ResStepNames DEF ResFit
<1> QED BY <1>1, <1>2, <1>3, <1>4, <1>6, QuietGoes

\* A refused step gives up or asks for sudo.
LEMMA RefusedGoes ==
  ASSUME ResInv, NEW c \in ResShells, resShell[c].at \in DnsSteps, GiveUp(c) \/ Refused(c),
         UNCHANGED <<unit, loaded, boot, served, anchors, bundle, told>>
  PROVE  \E k : Goes(c, k) /\ ShellShape(k) /\ ResFit(k)'
<1>0. ResShapes
  BY DEF ResInv
<1>1. CASE GiveUp(c)
  BY <1>0, <1>1, EndGoes, EndFits
<1>2. CASE StepTo(c, "sudo")
  <2>1. PICK k : Goes(c, k) /\ ShellShape(k) /\ k.at = "sudo" /\ k.suffix = resShell[c].suffix
    BY <1>0, <1>2, StepGoes, ResStepNames
  <2>2. told.dns[k.suffix] = "nothing"
    BY <2>1 DEF ResInv, ResFit
  <2>3. ResFit(k)'
    BY <2>1, <2>2, ResStepNames DEF ResFit
  <2> QED BY <2>1, <2>3
<1> QED BY <1>1, <1>2 DEF Refused

\* What every step of a resolver command starts from.
LEMMA DnsStart ==
  ASSUME ResInv, NEW c \in ResShells, resShell[c].at \in DnsSteps
  PROVE  LET j == resShell[c]
         IN  /\ ShellShape(j) /\ ResFit(j) /\ ResShapes /\ ResData
             /\ j.suffix \in ResSuffixes /\ j.gen \in Gens /\ j.gen # NoRow
             /\ told.dns[j.suffix] = "nothing"
<1>1. ShellShape(resShell[c]) /\ resShell[c].at # "idle"
  BY ResStepNames DEF ResInv, ResShapes
<1> QED BY <1>1, ResAssumption DEF ResInv, ResShapes, ShellShape, ResFit

\* The install: unit file, resolved, daemon-reload, enable, restart.
LEMMA InstallKeeps ==
  ASSUME ResInv, ResApart, NEW c \in ResShells,
         WriteUnit(c) \/ RestartResolved(c) \/ DaemonReload(c) \/ EnableUnit(c) \/ RestartUnit(c)
  PROVE  ResInv'
<1>1. PICK s : s = resShell[c].suffix
  OBVIOUS
<1>2. PICK j : j = resShell[c]
  OBVIOUS
<1>3. j.at \in {"unit", "resolved", "reload", "enable", "restart"} /\ j.at \in DnsSteps
  BY <1>2, ResStepNames DEF WriteUnit, RestartResolved, DaemonReload, EnableUnit, RestartUnit
<1>4. /\ ShellShape(j) /\ ResFit(j) /\ ResShapes /\ ResData
      /\ s \in ResSuffixes /\ j.gen \in Gens /\ j.gen # NoRow /\ s = j.suffix /\ told.dns[s] = "nothing"
  BY <1>1, <1>2, <1>3, DnsStart
<1>5. \A t \in ResTenants : CaMild(t)
  <2>1. anchors' = anchors /\ bundle' = bundle
    BY DEF WriteUnit, RestartResolved, DaemonReload, EnableUnit, RestartUnit, diskVars, machineVars
  <2>2. told' = told \/ told' = [told EXCEPT !.dns[s] = "installed"]
    <3>1. CASE RestartUnit(c)
      BY <1>1, <3>1 DEF RestartUnit
    <3>2. CASE ~RestartUnit(c)
      BY <3>2 DEF WriteUnit, RestartResolved, DaemonReload, EnableUnit
    <3> QED BY <3>1, <3>2
  <2>3. told'.ca = told.ca
    BY <1>4, <2>2 DEF ResData
  <2> QED BY <2>1, <2>3 DEF CaMild
<1>6. s \in ResTenants => CaReport(s)'
  BY <1>5, ReportsKeep DEF ResInv
<1>7. CASE UNCHANGED <<unit, loaded, boot, served, anchors, bundle, told>> /\ (GiveUp(c) \/ Refused(c))
  <2>1. PICK k : Goes(c, k) /\ ShellShape(k) /\ ResFit(k)'
    BY <1>2, <1>3, <1>7, RefusedGoes
  <2>2. \A q \in ResSuffixes : DnsMild(q)
    BY <1>7 DEF DnsMild
  <2>3. ResData'
    <3>1. UNCHANGED <<dnsRows, subnet, loginTenant, reboots>> /\ dropIns' \subseteq dropIns /\ globalDNS' \in {globalDNS, dropIns}
      BY DEF WriteUnit, RestartResolved, DaemonReload, EnableUnit, RestartUnit, diskVars, machineVars
    <3> QED BY <1>4, <1>7, <3>1, ResAssumption DEF ResData, ResSuffixes
  <2> QED BY <1>5, <2>1, <2>2, <2>3, QuietGoes
<1>8. CASE /\ WriteUnit(c)
           /\ unit' = [unit EXCEPT ![s] = j.gen] /\ dropIns' = dropIns \ {s}
           /\ \E x \in {"resolved", "reload"} : StepTo(c, x)
  <2>1. UNCHANGED <<dnsRows, loaded, boot, served, globalDNS, bundle, anchors, told, subnet, loginTenant, reboots>>
    BY <1>8 DEF WriteUnit, machineVars
  <2>2. PICK k : Goes(c, k) /\ ShellShape(k) /\ k.at \in {"resolved", "reload"} /\ k.suffix = s
    BY <1>1, <1>2, <1>3, <1>4, <1>8, StepGoes, ResStepNames
  <2>3. ResData'
    BY <1>4, <1>8, <2>1 DEF ResData
  <2>4. \A q \in ResSuffixes \ {s} : DnsMild(q)
    BY <1>4, <1>8, <2>1 DEF DnsMild, ResData
  <2>5. DnsReport(s)'
    BY <1>4, <2>1 DEF DnsReport
  <2>6. unit'[s] # NoRow /\ told'.dns[s] = "nothing"
    BY <1>4, <1>8, <2>1 DEF ResData
  <2>7. ResFit(k)'
    BY <2>2, <2>6 DEF ResFit
  <2> QED BY <1>1, <1>5, <1>6, <2>2, <2>3, <2>4, <2>5, <2>7, CommandGoes
<1>9. CASE /\ RestartResolved(c) /\ globalDNS' = dropIns
           /\ served' = [q \in ResSuffixes |-> IF served[q] = NoRow THEN NoRow ELSE loaded[q]]
           /\ StepTo(c, "reload")
  <2>1. UNCHANGED <<dnsRows, unit, dropIns, anchors, loaded, boot, bundle, subnet, loginTenant, told, reboots>>
    BY <1>9 DEF RestartResolved, diskVars
  <2>2. PICK k : Goes(c, k) /\ ShellShape(k) /\ k.at = "reload" /\ k.suffix = s
    BY <1>1, <1>2, <1>3, <1>4, <1>9, StepGoes, ResStepNames
  <2>3. ResData'
    BY <1>4, <1>9, <2>1, ResAssumption DEF ResData, ResSuffixes
  <2>4. \A q \in ResSuffixes : DnsMild(q)
    BY <1>4, <1>9, <2>1 DEF DnsMild, ResData
  <2>5. j.at = "resolved"
    BY <1>2, <1>9 DEF RestartResolved
  <2>6. unit[s] # NoRow
    BY <1>4, <2>5 DEF ResFit
  <2>7. ResFit(k)'
    BY <1>4, <2>1, <2>2, <2>6, ResStepNames DEF ResFit
  <2> QED BY <1>5, <2>2, <2>3, <2>4, <2>7, QuietGoes
<1>10. CASE DaemonReload(c) /\ loaded' = unit /\ StepTo(c, "enable")
  <2>1. UNCHANGED <<dnsRows, unit, dropIns, anchors, boot, served, globalDNS, bundle, subnet, loginTenant, told, reboots>>
    BY <1>10 DEF DaemonReload, diskVars
  <2>2. PICK k : Goes(c, k) /\ ShellShape(k) /\ k.at = "enable" /\ k.suffix = s
    BY <1>1, <1>2, <1>3, <1>4, <1>10, StepGoes, ResStepNames
  <2>3. ResData'
    BY <1>4, <1>10, <2>1 DEF ResData
  <2>4. \A q \in ResSuffixes : DnsMild(q)
    BY <1>4, <1>10, <2>1 DEF DnsMild, ResData
  <2>5. j.at = "reload"
    BY <1>2, <1>10 DEF DaemonReload
  <2>6. unit[s] # NoRow
    BY <1>4, <2>5 DEF ResFit
  <2>7. ResFit(k)'
    BY <1>4, <1>10, <2>1, <2>2, <2>6, ResStepNames DEF ResFit
  <2> QED BY <1>5, <2>2, <2>3, <2>4, <2>7, QuietGoes
<1>11. CASE EnableUnit(c) /\ boot' = boot \cup {s} /\ StepTo(c, "restart")
  <2>1. UNCHANGED <<dnsRows, unit, dropIns, anchors, loaded, served, globalDNS, bundle, subnet, loginTenant, told, reboots>>
    BY <1>11 DEF EnableUnit, diskVars
  <2>2. PICK k : Goes(c, k) /\ ShellShape(k) /\ k.at = "restart" /\ k.suffix = s
    BY <1>1, <1>2, <1>3, <1>4, <1>11, StepGoes, ResStepNames
  <2>3. ResData'
    BY <1>4, <1>11, <2>1 DEF ResData
  <2>4. \A q \in ResSuffixes \ {s} : DnsMild(q)
    BY <1>4, <1>11, <2>1 DEF DnsMild, ResData
  <2>5. DnsReport(s)'
    BY <1>4, <2>1 DEF DnsReport
  <2>6. j.at = "enable"
    BY <1>2, <1>11 DEF EnableUnit
  <2>7. unit[s] # NoRow /\ loaded[s] = unit[s]
    BY <1>4, <2>6 DEF ResFit
  <2>8. ResFit(k)'
    BY <1>4, <1>11, <2>1, <2>2, <2>7, ResStepNames DEF ResFit
  <2> QED BY <1>1, <1>5, <1>6, <2>2, <2>3, <2>4, <2>5, <2>8, CommandGoes
<1>12. CASE /\ RestartUnit(c) /\ GiveUp(c)
            /\ served' = [served EXCEPT ![s] = loaded[s]] /\ told' = [told EXCEPT !.dns[s] = "installed"]
  <2>1. UNCHANGED <<dnsRows, unit, dropIns, anchors, loaded, boot, globalDNS, bundle, subnet, loginTenant, reboots>>
    BY <1>12 DEF RestartUnit, diskVars
  <2>2. PICK k : Goes(c, k) /\ ShellShape(k) /\ ResFit(k)'
    BY <1>2, <1>3, <1>4, <1>12, EndGoes, EndFits
  <2>3. ResData'
    BY <1>4, <1>12, <2>1 DEF ResData
  <2>4. \A q \in ResSuffixes \ {s} : DnsMild(q)
    BY <1>4, <1>12, <2>1 DEF DnsMild, ResData
  <2>5. j.at = "restart"
    BY <1>2, <1>12 DEF RestartUnit
  <2>6. unit[s] # NoRow /\ loaded[s] = unit[s] /\ s \in boot
    BY <1>4, <2>5 DEF ResFit
  <2>7. DnsReport(s)'
    BY <1>4, <1>12, <2>1, <2>6 DEF DnsReport, ResData
  <2> QED BY <1>1, <1>5, <1>6, <2>2, <2>3, <2>4, <2>7, CommandGoes
<1> QED
  <2>1. CASE WriteUnit(c)
    BY <1>1, <1>2, <1>7, <1>8, <2>1 DEF WriteUnit, machineVars
  <2>2. CASE RestartResolved(c)
    BY <1>1, <1>2, <1>7, <1>9, <2>2 DEF RestartResolved, diskVars
  <2>3. CASE DaemonReload(c)
    BY <1>1, <1>2, <1>7, <1>10, <2>3 DEF DaemonReload, diskVars
  <2>4. CASE EnableUnit(c)
    BY <1>1, <1>2, <1>7, <1>11, <2>4 DEF EnableUnit, diskVars
  <2>5. CASE RestartUnit(c)
    BY <1>1, <1>2, <1>7, <1>12, <2>5 DEF RestartUnit, diskVars
  <2> QED BY <2>1, <2>2, <2>3, <2>4, <2>5

\* The removal: disable, the unit file, daemon-reload.
LEMMA RemoveKeeps ==
  ASSUME ResInv, ResApart, NEW c \in ResShells, DisableUnit(c) \/ RemoveUnit(c) \/ SyncResolver(c)
  PROVE  ResInv'
<1>1. PICK s : s = resShell[c].suffix
  OBVIOUS
<1>2. PICK j : j = resShell[c]
  OBVIOUS
<1>3. j.at \in {"disable", "remove", "sync"} /\ j.at \in DnsSteps
  BY <1>2, ResStepNames DEF DisableUnit, RemoveUnit, SyncResolver
<1>4. /\ ShellShape(j) /\ ResFit(j) /\ ResShapes /\ ResData
      /\ s \in ResSuffixes /\ s = j.suffix /\ told.dns[s] = "nothing"
  BY <1>1, <1>2, <1>3, DnsStart
<1>5. \A t \in ResTenants : CaMild(t)
  <2>1. anchors' = anchors /\ bundle' = bundle
    BY DEF DisableUnit, RemoveUnit, SyncResolver, diskVars, machineVars
  <2>2. told' = told \/ told' = [told EXCEPT !.dns[s] = "removed"]
    BY <1>1 DEF DisableUnit, RemoveUnit, SyncResolver
  <2>3. told'.ca = told.ca
    BY <1>4, <2>2 DEF ResData
  <2> QED BY <2>1, <2>3 DEF CaMild
<1>6. s \in ResTenants => CaReport(s)'
  BY <1>5, ReportsKeep DEF ResInv
<1>7. CASE UNCHANGED <<unit, loaded, boot, served, anchors, bundle, told>> /\ (GiveUp(c) \/ Refused(c))
  <2>1. PICK k : Goes(c, k) /\ ShellShape(k) /\ ResFit(k)'
    BY <1>2, <1>3, <1>7, RefusedGoes
  <2>2. \A q \in ResSuffixes : DnsMild(q)
    BY <1>7 DEF DnsMild
  <2>3. ResData'
    BY <1>4, <1>7 DEF DisableUnit, RemoveUnit, SyncResolver, diskVars, machineVars, ResData
  <2> QED BY <1>5, <2>1, <2>2, <2>3, QuietGoes
<1>8. CASE /\ DisableUnit(c) /\ StepTo(c, "remove")
           /\ served' = [served EXCEPT ![s] = NoRow] /\ boot' = boot \ {s}
  <2>1. UNCHANGED <<dnsRows, unit, dropIns, anchors, loaded, globalDNS, bundle, subnet, loginTenant, told, reboots>>
    BY <1>8 DEF DisableUnit, diskVars
  <2>2. PICK k : Goes(c, k) /\ ShellShape(k) /\ k.at = "remove" /\ k.suffix = s
    BY <1>1, <1>2, <1>3, <1>4, <1>8, StepGoes, ResStepNames
  <2>3. ResData'
    BY <1>4, <1>8, <2>1 DEF ResData
  <2>4. \A q \in ResSuffixes \ {s} : DnsMild(q)
    BY <1>4, <1>8, <2>1 DEF DnsMild, ResData
  <2>5. DnsReport(s)'
    BY <1>4, <2>1 DEF DnsReport
  <2>6. served'[s] = NoRow /\ s \notin boot'
    BY <1>4, <1>8 DEF ResData
  <2>7. ResFit(k)'
    BY <1>4, <2>1, <2>2, <2>6, ResStepNames DEF ResFit
  <2> QED BY <1>1, <1>5, <1>6, <2>2, <2>3, <2>4, <2>5, <2>7, CommandGoes
<1>9. CASE RemoveUnit(c) /\ unit' = [unit EXCEPT ![s] = NoRow] /\ StepTo(c, "sync")
  <2>1. UNCHANGED <<dnsRows, dropIns, anchors, loaded, boot, served, globalDNS, bundle, subnet, loginTenant, told, reboots>>
    BY <1>9 DEF RemoveUnit, machineVars
  <2>2. PICK k : Goes(c, k) /\ ShellShape(k) /\ k.at = "sync" /\ k.suffix = s
    BY <1>1, <1>2, <1>3, <1>4, <1>9, StepGoes, ResStepNames
  <2>3. ResData'
    BY <1>4, <1>9, <2>1 DEF ResData
  <2>4. \A q \in ResSuffixes \ {s} : DnsMild(q)
    BY <1>4, <1>9, <2>1 DEF DnsMild, ResData
  <2>5. DnsReport(s)'
    BY <1>4, <2>1 DEF DnsReport
  <2>6. j.at = "remove"
    BY <1>2, <1>9 DEF RemoveUnit
  <2>7. served[s] = NoRow /\ s \notin boot /\ unit'[s] = NoRow
    BY <1>4, <1>9, <2>6 DEF ResFit, ResData
  <2>8. ResFit(k)'
    BY <1>4, <2>1, <2>2, <2>7, ResStepNames DEF ResFit
  <2> QED BY <1>1, <1>5, <1>6, <2>2, <2>3, <2>4, <2>5, <2>8, CommandGoes
<1>10. CASE SyncResolver(c) /\ GiveUp(c) /\ loaded' = unit /\ told' = [told EXCEPT !.dns[s] = "removed"]
  <2>1. UNCHANGED <<dnsRows, unit, dropIns, anchors, boot, served, globalDNS, bundle, subnet, loginTenant, reboots>>
    BY <1>10 DEF SyncResolver, diskVars
  <2>2. PICK k : Goes(c, k) /\ ShellShape(k) /\ ResFit(k)'
    BY <1>2, <1>3, <1>4, <1>10, EndGoes, EndFits
  <2>3. ResData'
    BY <1>4, <1>10, <2>1 DEF ResData
  <2>4. \A q \in ResSuffixes \ {s} : DnsMild(q)
    BY <1>4, <1>10, <2>1 DEF DnsMild, ResData
  <2>5. j.at = "sync"
    BY <1>2, <1>10 DEF SyncResolver
  <2>6. unit[s] = NoRow /\ served[s] = NoRow /\ s \notin boot
    BY <1>4, <2>5 DEF ResFit
  <2>7. DnsReport(s)'
    BY <1>4, <1>10, <2>1, <2>6 DEF DnsReport, ResData
  <2> QED BY <1>1, <1>5, <1>6, <2>2, <2>3, <2>4, <2>7, CommandGoes
<1> QED
  <2>1. CASE DisableUnit(c)
    BY <1>1, <1>2, <1>7, <1>8, <2>1 DEF DisableUnit, diskVars
  <2>2. CASE RemoveUnit(c)
    BY <1>1, <1>2, <1>7, <1>9, <2>2 DEF RemoveUnit, machineVars
  <2>3. CASE SyncResolver(c)
    BY <1>1, <1>2, <1>7, <1>10, <2>3 DEF SyncResolver, diskVars
  <2> QED BY <2>1, <2>2, <2>3

\* The CA: its file, and the bundle built from the directory.
LEMMA TrustKeeps ==
  ASSUME ResInv, ResApart, NEW c \in ResShells, WriteTrustFile(c) \/ RemoveTrustFile(c) \/ UpdateBundle(c)
  PROVE  ResInv'
<1>1. PICK s : s = resShell[c].suffix
  OBVIOUS
<1>2. PICK j : j = resShell[c]
  OBVIOUS
<1>3. j.at \in {"anchor", "unanchor", "bundle"}
  BY <1>2 DEF WriteTrustFile, RemoveTrustFile, UpdateBundle
<1>4. ShellShape(j) /\ ResFit(j) /\ ResShapes /\ ResData /\ s = j.suffix
  BY <1>1, <1>2 DEF ResInv, ResShapes
<1>5. /\ s \in ResTenants /\ s \in ResSuffixes /\ j.gen \in 1 .. MaxGen
      /\ (j.at = "anchor" => j.op # "untrust") /\ (j.at = "unanchor" => j.op = "untrust")
  BY <1>3, <1>4, ResStepNames DEF ShellShape, ResSuffixes, Gens
<1>6. UNCHANGED <<dnsRows, unit, dropIns, loaded, boot, served, globalDNS, subnet, loginTenant, reboots>>
  BY DEF WriteTrustFile, RemoveTrustFile, UpdateBundle, machineVars, diskVars
<1>7. ASSUME told'.dns = told.dns
      PROVE  (\A q \in ResSuffixes : DnsMild(q)) /\ DnsReport(s)'
  <2>1. \A q \in ResSuffixes : DnsMild(q)
    BY <1>6, <1>7 DEF DnsMild
  <2>2. DnsReport(s)'
    BY <1>5, <2>1, ReportsKeep DEF ResInv
  <2> QED BY <2>1, <2>2
<1>8. CASE Ends(c) /\ anchors' = anchors /\ bundle' = bundle /\ told' = told
  <2>1. PICK k : Goes(c, k) /\ ShellShape(k) /\ ResFit(k)'
    BY <1>4, <1>8, EndGoes, EndFits
  <2>2. \A t \in ResTenants : CaMild(t)
    BY <1>8 DEF CaMild
  <2>3. ResData'
    BY <1>4, <1>6, <1>8 DEF ResData
  <2> QED BY <1>7, <1>8, <2>1, <2>2, <2>3, QuietGoes
<1>9. ASSUME NEW n \in 0 .. MaxGen, n = 0 <=> j.op = "untrust", j.at \in {"anchor", "unanchor"},
             anchors' = [anchors EXCEPT ![s] = n], told' = [told EXCEPT !.ca[s] = "nothing"], StepTo(c, "bundle"),
             bundle' = bundle
      PROVE  ResInv'
  <2>1. PICK k : Goes(c, k) /\ ShellShape(k) /\ k.at = "bundle" /\ k.suffix = s /\ k.op = j.op
    BY <1>1, <1>2, <1>4, <1>9, StepGoes
  <2>2. told'.dns = told.dns /\ told'.ca = [told.ca EXCEPT ![s] = "nothing"]
    BY <1>4, <1>9 DEF ResData
  <2>3. \A t \in ResTenants \ {s} : CaMild(t)
    BY <1>4, <1>9, <2>2 DEF CaMild, ResData
  <2>4. told'.ca[s] = "nothing" /\ anchors'[s] = n
    BY <1>4, <1>5, <1>9, <2>2 DEF ResData
  <2>5. CaReport(s)'
    BY <2>4 DEF CaReport
  <2>6. ResFit(k)'
    BY <1>9, <2>1, <2>4, ResStepNames DEF ResFit
  <2>7. ResData'
    BY <1>4, <1>6, <1>9 DEF ResData
  <2> QED BY <1>1, <1>7, <2>1, <2>2, <2>3, <2>5, <2>6, <2>7, CommandGoes
<1>10. ASSUME UpdateBundle(c), bundle' = anchors, Ends(c),
              told' = [told EXCEPT !.ca[s] = IF j.op = "untrust" THEN "removed" ELSE "trusted"]
       PROVE  ResInv'
  <2>1. PICK k : Goes(c, k) /\ ShellShape(k) /\ ResFit(k)'
    BY <1>4, <1>10, EndGoes, EndFits
  <2>2. PICK said : said = IF j.op = "untrust" THEN "removed" ELSE "trusted"
    OBVIOUS
  <2>3. told'.dns = told.dns /\ told'.ca = [told.ca EXCEPT ![s] = said]
    BY <1>4, <1>10, <2>2 DEF ResData
  <2>4. anchors' = anchors /\ j.at = "bundle"
    BY <1>2, <1>10 DEF UpdateBundle, diskVars
  <2>5. \A t \in ResTenants \ {s} : CaMild(t)
    BY <1>4, <1>10, <2>3, <2>4 DEF CaMild, ResData
  <2>6. anchors[s] = 0 <=> j.op = "untrust"
    BY <1>4, <2>4 DEF ResFit
  <2>7. told'.ca[s] = said /\ bundle'[s] = anchors[s]
    BY <1>4, <1>5, <1>10, <2>3 DEF ResData
  <2>8. CaReport(s)'
    BY <2>2, <2>4, <2>6, <2>7 DEF CaReport
  <2>9. ResData'
    BY <1>4, <1>5, <1>6, <1>10, <2>2, <2>3, <2>4 DEF ResData
  <2> QED BY <1>1, <1>7, <2>1, <2>3, <2>5, <2>8, <2>9, CommandGoes
<1>11. 0 \in 0 .. MaxGen /\ j.gen \in 0 .. MaxGen /\ j.gen # 0
  BY <1>5, ResAssumption
<1> QED
  <2>1. CASE WriteTrustFile(c)
    BY <1>1, <1>2, <1>5, <1>8, <1>9, <1>11, <2>1 DEF WriteTrustFile, machineVars
  <2>2. CASE RemoveTrustFile(c)
    BY <1>1, <1>2, <1>5, <1>8, <1>9, <1>11, <2>2 DEF RemoveTrustFile, machineVars
  <2>3. CASE UpdateBundle(c)
    BY <1>1, <1>2, <1>8, <1>10, <2>3 DEF UpdateBundle, diskVars
  <2> QED BY <2>1, <2>2, <2>3

\* A resolver command begins: nothing is said of its suffix from here on.
LEMMA DnsPlanKeeps ==
  ASSUME ResInv, ResApart, ResApart', NEW c \in ResShells, NEW t \in ResTenants, NEW s \in ResSuffixes,
         NEW op \in ResOpNames, NEW who \in {"user", "root"}, resShell[c].at = "idle",
         resShell' = [resShell EXCEPT ![c] = [at |-> "read", op |-> op, tenant |-> t,
                                              suffix |-> s, gen |-> subnet[t].gen, as |-> who, rows |-> NoRow]],
         Unsaid(s), loginTenant' \in {loginTenant, t},
         UNCHANGED <<dnsRows, diskVars, machineVars, subnet, reboots>>
  PROVE  ResInv'
<1>1. ResShapes /\ ResData
  BY DEF ResInv, ResShapes
<1>2. PICK g : g = subnet[t].gen /\ g \in Gens
  BY <1>1 DEF ResData
<1> DEFINE k == [at |-> "read", op |-> op, tenant |-> t, suffix |-> s, gen |-> g, as |-> who, rows |-> NoRow]
<1>3. ShellShape(k) /\ k.at = "read" /\ k.suffix = s
  BY <1>2, ResStepNames DEF ShellShape, ResRecords, DnsSteps, TrustSteps
<1>4. resShell' = [resShell EXCEPT ![c] = k]
  BY <1>2
<1> HIDE DEF k
<1>5. UNCHANGED <<dnsRows, unit, dropIns, anchors, loaded, boot, served, globalDNS, bundle, subnet, reboots>>
  BY DEF diskVars, machineVars
<1>6. told'.ca = told.ca /\ told'.dns = [told.dns EXCEPT ![s] = "nothing"]
  BY <1>1 DEF Unsaid, ResData
<1>7. ResData'
  BY <1>1, <1>5 DEF ResData, Unsaid
<1>8. ResShapes'
  BY <1>1, <1>3, <1>4, <1>7 DEF ResShapes, ShellShape
<1>9. \A q \in ResSuffixes \ {s} : DnsMild(q)
  BY <1>1, <1>5, <1>6 DEF DnsMild, ResData
<1>10. \A x \in ResTenants : CaMild(x)
  BY <1>5, <1>6 DEF CaMild
<1>11. \A x \in ResTenants : CaReport(x)'
  BY <1>10, ReportsKeep DEF ResInv
<1>12. told'.dns[s] = "nothing"
  BY <1>1, <1>6 DEF ResData
<1>13. DnsReport(s)'
  BY <1>12 DEF DnsReport
<1>14. ResFit(k)'
  BY <1>3, <1>12, ResStepNames DEF ResFit
<1>15. ASSUME NEW d \in ResShells \ {c}, resShell[d].suffix = s PROVE FALSE
  <2>1. resShell'[d].suffix = s /\ resShell'[c].suffix = s
    BY <1>1, <1>3, <1>4, <1>15 DEF ResShapes
  <2> QED BY <2>1, ResAssumption DEF ResApart
<1>16. PICK Mine : Mine = {s}
  OBVIOUS
<1>17. \A d \in ResShells \ {c} : resShell[d].at # "idle" => resShell[d].suffix \notin Mine
  BY <1>15, <1>16
<1>18. (\A q \in ResSuffixes \ Mine : DnsMild(q)) /\ (\A q \in ResSuffixes \cap Mine : DnsReport(q)')
  BY <1>9, <1>13, <1>16
<1>19. (\A x \in ResTenants \ Mine : CaMild(x)) /\ (\A x \in ResTenants \cap Mine : CaReport(x)')
  BY <1>10, <1>11
<1> QED BY <1>4, <1>8, <1>14, <1>17, <1>18, <1>19, OneCommandGoes

\* A trust command begins.
LEMMA TrustPlanKeeps ==
  ASSUME ResInv, ResApart, NEW c \in ResShells, NEW t \in ResTenants, NEW who \in {"user", "root"},
         TrustPlan(c, t, who) \/ UntrustPlan(c, t, who)
  PROVE  ResInv'
<1>1. ResShapes /\ ResData
  BY DEF ResInv, ResShapes
<1>2. UNCHANGED <<unit, loaded, boot, served, anchors, bundle, told>> /\ ResData'
  BY <1>1 DEF TrustPlan, UntrustPlan, diskVars, machineVars, ResData
<1>3. \A q \in ResSuffixes : DnsMild(q)
  BY <1>2 DEF DnsMild
<1>4. \A x \in ResTenants : CaMild(x)
  BY <1>2 DEF CaMild
<1>5. CASE TrustPlan(c, t, who)
  <2>1. PICK x : x = loginTenant /\ x \in ResTenants
    BY <1>1, <1>5 DEF TrustPlan, ResData
  <2>2. PICK g : g = subnet[loginTenant].gen /\ g \in Gens /\ x \in ResSuffixes
    BY <1>1, <2>1 DEF ResData, ResSuffixes
  <2> DEFINE k == [at |-> "fetch", op |-> "trust", tenant |-> t, suffix |-> x, gen |-> g, as |-> who, rows |-> NoRow]
  <2>3. ShellShape(k) /\ k.at = "fetch"
    BY <2>1, <2>2 DEF ShellShape, ResRecords, DnsSteps, TrustSteps, ResOpNames
  <2>4. Goes(c, k)
    BY <1>5, <2>1, <2>2 DEF TrustPlan, Goes
  <2> HIDE DEF k
  <2> QED BY <1>2, <1>3, <1>4, <2>3, <2>4, EndFits, QuietGoes
<1>6. CASE UntrustPlan(c, t, who)
  <2>1. PICK g : g = subnet[t].gen /\ g \in Gens /\ t \in ResSuffixes
    BY <1>1 DEF ResData, ResSuffixes
  <2> DEFINE k == [at |-> "unanchor", op |-> "untrust", tenant |-> t, suffix |-> t, gen |-> g, as |-> who, rows |-> NoRow]
  <2>2. ShellShape(k) /\ k.at = "unanchor"
    BY <2>1 DEF ShellShape, ResRecords, DnsSteps, TrustSteps, ResOpNames
  <2>3. Goes(c, k)
    BY <1>6, <2>1 DEF UntrustPlan, Goes
  <2> HIDE DEF k
  <2>4. ResFit(k)'
    BY <2>2, ResStepNames DEF ResFit
  <2> QED BY <1>2, <1>3, <1>4, <2>2, <2>3, <2>4, QuietGoes
<1> QED BY <1>5, <1>6

\* Nothing the commands rely on changes with a tenant.
LEMMA TenantTyped ==
  ASSUME ResShapes, NEW t \in ResTenants, TenantChanges(t)
  PROVE  ResShapes'
<1>1. subnet' \in [ResTenants -> [gen : Gens, alive : BOOLEAN]]
  <2>1. subnet \in [ResTenants -> [gen : Gens, alive : BOOLEAN]]
    BY DEF ResShapes, ResData
  <2>2. CASE subnet' = [subnet EXCEPT ![t].alive = FALSE]
    BY <2>1, <2>2
  <2>3. CASE subnet[t].gen < MaxGen /\ subnet' = [subnet EXCEPT ![t] = [gen |-> @.gen + 1, alive |-> TRUE]]
    <3>1. subnet[t].gen + 1 \in Gens
      BY <2>1, <2>3, ResAssumption DEF Gens
    <3> QED BY <2>1, <2>3, <3>1
  <2> QED BY <2>2, <2>3 DEF TenantChanges
<1>2. ResData' /\ resShell' = resShell
  BY <1>1 DEF TenantChanges, diskVars, machineVars, ResShapes, ResData
<1> QED BY <1>2 DEF ResShapes

LEMMA TenantKeeps ==
  ASSUME ResInv, NEW t \in ResTenants, TenantChanges(t)
  PROVE  ResInv'
<1>1. UNCHANGED <<unit, loaded, boot, served, anchors, bundle, told, resShell>>
  BY DEF TenantChanges, diskVars, machineVars
<1>2. ResShapes'
  BY TenantTyped DEF ResInv
<1> QED BY <1>1, <1>2 DEF ResInv, DnsReport, CaReport, ResFit

\* A reboot ends every command and starts the units enabled for boot.
LEMMA RebootTyped ==
  ASSUME ResShapes, Reboot
  PROVE  ResShapes'
<1>1. ResData /\ UNCHANGED <<dnsRows, unit, dropIns, anchors, boot, bundle, subnet, loginTenant, told>>
  BY DEF Reboot, diskVars, ResShapes
<1>2. loaded' = unit /\ served' = [s \in ResSuffixes |-> IF s \in boot THEN unit[s] ELSE NoRow]
      /\ globalDNS' = dropIns /\ reboots' = reboots + 1 /\ reboots < MaxReboots
      /\ resShell' = [c \in ResShells |-> ResIdle]
  BY DEF Reboot
<1>3. ResData'
  BY <1>1, <1>2, ResAssumption DEF ResData, ResSuffixes
<1>4. ShellShape(ResIdle)
  BY DEF ShellShape, ResIdle, ResRecords, DnsSteps, TrustSteps
<1> QED BY <1>2, <1>3, <1>4 DEF ResShapes, ShellShape

LEMMA RebootKeeps ==
  ASSUME ResInv, Reboot
  PROVE  ResInv'
<1>1. UNCHANGED <<unit, anchors, boot, bundle, told>> /\ loaded' = unit
      /\ served' = [s \in ResSuffixes |-> IF s \in boot THEN unit[s] ELSE NoRow]
      /\ resShell' = [c \in ResShells |-> ResIdle]
  BY DEF Reboot, diskVars
<1>2. ResShapes'
  BY RebootTyped DEF ResInv
<1>3. ASSUME NEW s \in ResSuffixes PROVE DnsReport(s)'
  BY <1>1 DEF ResInv, DnsReport
<1>4. ASSUME NEW t \in ResTenants PROVE CaReport(t)'
  BY <1>1 DEF ResInv, CaReport
<1>5. ASSUME NEW c \in ResShells PROVE ResFit(resShell[c])'
  BY <1>1, ResStepNames DEF ResFit, ResIdle
<1> QED BY <1>2, <1>3, <1>4, <1>5 DEF ResInv

\* Every step keeps the invariant.
LEMMA ResStepInv ==
  ASSUME ResInv, ResApart, ResApart', [ResNext]_resVars
  PROVE  ResInv'
<1>1. ASSUME NEW c \in ResShells, ResStep(c) PROVE ResInv'
  BY <1>1, ResPlanKeeps, InstallKeeps, RemoveKeeps, TrustKeeps DEF ResStep
<1>2. ASSUME NEW c \in ResShells, NEW t \in ResTenants, NEW s \in ResSuffixes, NEW who \in {"user", "root"},
             LoginSetup(c, t, s, who)
      PROVE  ResInv'
  <2>1. "login" \in ResOpNames
    BY DEF ResOpNames
  <2>2. resShell[c].at = "idle" /\ Unsaid(s) /\ loginTenant' \in {loginTenant, t}
        /\ UNCHANGED <<dnsRows, diskVars, machineVars, subnet, reboots>>
    BY <1>2 DEF LoginSetup
  <2>3. resShell' = [resShell EXCEPT ![c] = [at |-> "read", op |-> "login", tenant |-> t,
                                             suffix |-> s, gen |-> subnet[t].gen, as |-> who, rows |-> NoRow]]
    BY <1>2 DEF LoginSetup
  <2> QED BY <2>1, <2>2, <2>3, DnsPlanKeeps
<1>3. ASSUME NEW c \in ResShells, NEW t \in ResTenants, NEW op, NEW who \in {"user", "root"},
             TeardownPlan(c, t, op, who)
      PROVE  ResInv'
  <2>1. op \in ResOpNames /\ t \in ResSuffixes
    BY <1>3 DEF TeardownPlan, ResOpNames, ResSuffixes
  <2>2. resShell[c].at = "idle" /\ Unsaid(t) /\ loginTenant' \in {loginTenant, t}
        /\ UNCHANGED <<dnsRows, diskVars, machineVars, subnet, reboots>>
    BY <1>3 DEF TeardownPlan
  <2>3. resShell' = [resShell EXCEPT ![c] = [at |-> "read", op |-> op, tenant |-> t,
                                             suffix |-> t, gen |-> subnet[t].gen, as |-> who, rows |-> NoRow]]
    BY <1>3 DEF TeardownPlan
  <2> QED BY <2>1, <2>2, <2>3, DnsPlanKeeps
<1>4. CASE UNCHANGED resVars
  BY <1>4 DEF resVars, ResInv, ResShapes, ResData, DnsReport, CaReport, ResFit
<1> QED BY <1>1, <1>2, <1>3, <1>4, TrustPlanKeeps, TenantKeeps, RebootKeeps DEF ResNext

\* What `sc dns` and `sc trust` last reported still holds, whatever other
\* commands, failures, sudo runs and reboots came since.  Nothing in the code
\* keeps two commands from working on one suffix at a time, so that they do not
\* is a hypothesis.
THEOREM ReportsAreTrue == ResSpec /\ []ResApart => []ReportsHold
<1>1. ResInv => ReportsHold
  BY DEF ResInv, ReportsHold, ReportedResolver, ReportedTrust, DnsReport, CaReport
<1>2. ResInv /\ ResApart /\ ResApart' /\ [ResNext]_resVars => ResInv'
  BY ResStepInv
<1> QED BY <1>1, <1>2, ResInitInv, PTL DEF ResSpec

-----------------------------------------------------------------------------
(* Types, of commands that may be about one suffix                         *)

LEMMA MovesTyped ==
  ASSUME ResShapes, ResData', NEW c \in ResShells, NEW k, Goes(c, k), ShellShape(k)
  PROVE  ResShapes'
BY DEF ResShapes, Goes, ShellShape

\* A resolver step moves on, gives up or asks for sudo.
LEMMA DnsGoes ==
  ASSUME ResShapes, NEW c \in ResShells, resShell[c].at \in DnsSteps,
         GiveUp(c) \/ Refused(c) \/ \E x \in DnsSteps \ {"write"} : StepTo(c, x)
  PROVE  \E k : Goes(c, k) /\ ShellShape(k)
<1>1. CASE GiveUp(c)
  BY <1>1, EndGoes
<1>2. CASE \E x \in DnsSteps \ {"write"} : StepTo(c, x)
  BY <1>2, StepGoes
<1>3. "sudo" \in DnsSteps \ {"write"}
  BY ResStepNames
<1> QED BY <1>1, <1>2, <1>3 DEF Refused

LEMMA InstallTyped ==
  ASSUME ResShapes, NEW c \in ResShells,
         WriteUnit(c) \/ RestartResolved(c) \/ DaemonReload(c) \/ EnableUnit(c) \/ RestartUnit(c)
  PROVE  ResShapes'
<1>1. PICK j : j = resShell[c]
  OBVIOUS
<1>2. resShell[c].at \in DnsSteps /\ j.at \in DnsSteps /\ j.at # "idle"
  BY <1>1, ResStepNames DEF WriteUnit, RestartResolved, DaemonReload, EnableUnit, RestartUnit
<1>3. ResData /\ j.suffix \in ResSuffixes /\ j.gen \in Gens
  BY <1>1, <1>2 DEF ResShapes, ShellShape
<1>4. GiveUp(c) \/ Refused(c) \/ \E x \in DnsSteps \ {"write"} : StepTo(c, x)
  BY ResStepNames DEF WriteUnit, RestartResolved, DaemonReload, EnableUnit, RestartUnit
<1>5. ResData'
  <2>1. CASE WriteUnit(c)
    <3>1. unit' = unit \/ unit' = [unit EXCEPT ![j.suffix] = j.gen]
      BY <1>1, <2>1 DEF WriteUnit
    <3>2. UNCHANGED <<dnsRows, anchors, machineVars, subnet, loginTenant, told, reboots>> /\ dropIns' \subseteq dropIns
      BY <2>1 DEF WriteUnit
    <3> QED BY <1>3, <3>1, <3>2 DEF ResData, machineVars
  <2>2. CASE RestartResolved(c)
    <3>1. /\ UNCHANGED <<dnsRows, diskVars, loaded, boot, bundle, subnet, loginTenant, told, reboots>>
          /\ \/ UNCHANGED <<globalDNS, served>>
             \/ /\ globalDNS' = dropIns
                /\ served' = [s \in ResSuffixes |-> IF served[s] = NoRow THEN NoRow ELSE loaded[s]]
      BY <2>2 DEF RestartResolved
    <3> QED BY <1>3, <3>1, ResAssumption DEF ResData, ResSuffixes, diskVars
  <2>3. CASE DaemonReload(c)
    BY <1>3, <2>3 DEF DaemonReload, ResData, diskVars
  <2>4. CASE EnableUnit(c)
    <3>1. boot' = boot \/ boot' = boot \cup {j.suffix}
      BY <1>1, <2>4 DEF EnableUnit
    <3> QED BY <1>3, <2>4, <3>1 DEF EnableUnit, ResData, diskVars
  <2>5. CASE RestartUnit(c)
    <3>1. PICK s : s = j.suffix
      OBVIOUS
    <3>2. /\ UNCHANGED <<dnsRows, diskVars, loaded, boot, globalDNS, bundle, subnet, loginTenant, reboots>>
          /\ \/ UNCHANGED <<served, told>>
             \/ served' = [served EXCEPT ![s] = loaded[s]] /\ told' = [told EXCEPT !.dns[s] = "installed"]
      BY <1>1, <2>5, <3>1 DEF RestartUnit
    <3> QED BY <1>3, <3>1, <3>2 DEF ResData, diskVars
  <2> QED BY <2>1, <2>2, <2>3, <2>4, <2>5
<1> QED BY <1>2, <1>4, <1>5, DnsGoes, MovesTyped

LEMMA RemoveTyped ==
  ASSUME ResShapes, NEW c \in ResShells, DisableUnit(c) \/ RemoveUnit(c) \/ SyncResolver(c)
  PROVE  ResShapes'
<1>1. PICK j : j = resShell[c]
  OBVIOUS
<1>2. resShell[c].at \in DnsSteps /\ j.at \in DnsSteps /\ j.at # "idle"
  BY <1>1, ResStepNames DEF DisableUnit, RemoveUnit, SyncResolver
<1>3. PICK s : s = j.suffix
  OBVIOUS
<1>4. ResData /\ s \in ResSuffixes
  BY <1>1, <1>2, <1>3 DEF ResShapes, ShellShape
<1>5. GiveUp(c) \/ Refused(c) \/ \E x \in DnsSteps \ {"write"} : StepTo(c, x)
  BY ResStepNames DEF DisableUnit, RemoveUnit, SyncResolver
<1>6. ResData'
  <2>1. CASE DisableUnit(c)
    <3>1. /\ UNCHANGED <<dnsRows, diskVars, loaded, globalDNS, bundle, subnet, loginTenant, told, reboots>>
          /\ \/ UNCHANGED <<served, boot>>
             \/ served' = [served EXCEPT ![s] = NoRow] /\ boot' = boot \ {s}
      BY <1>1, <1>3, <2>1 DEF DisableUnit
    <3> QED BY <1>4, <3>1 DEF ResData, diskVars
  <2>2. CASE RemoveUnit(c)
    <3>1. /\ UNCHANGED <<dnsRows, dropIns, anchors, machineVars, subnet, loginTenant, told, reboots>>
          /\ unit' = unit \/ unit' = [unit EXCEPT ![s] = NoRow]
      BY <1>1, <1>3, <2>2 DEF RemoveUnit
    <3> QED BY <1>4, <3>1 DEF ResData, machineVars
  <2>3. CASE SyncResolver(c)
    <3>1. /\ UNCHANGED <<dnsRows, diskVars, boot, served, globalDNS, bundle, subnet, loginTenant, reboots>>
          /\ \/ UNCHANGED <<loaded, told>>
             \/ loaded' = unit /\ told' = [told EXCEPT !.dns[s] = "removed"]
      BY <1>1, <1>3, <2>3 DEF SyncResolver
    <3> QED BY <1>4, <3>1 DEF ResData, diskVars
  <2> QED BY <2>1, <2>2, <2>3
<1> QED BY <1>2, <1>5, <1>6, DnsGoes, MovesTyped

LEMMA TrustTyped ==
  ASSUME ResShapes, NEW c \in ResShells, WriteTrustFile(c) \/ RemoveTrustFile(c) \/ UpdateBundle(c)
  PROVE  ResShapes'
<1>1. PICK j : j = resShell[c]
  OBVIOUS
<1>2. PICK s : s = j.suffix
  OBVIOUS
<1>3. j.at \in {"anchor", "unanchor", "bundle"}
  BY <1>1 DEF WriteTrustFile, RemoveTrustFile, UpdateBundle
<1>4. ResData /\ s \in ResTenants /\ j.gen \in 0 .. MaxGen /\ 0 \in 0 .. MaxGen
  BY <1>1, <1>2, <1>3, ResAssumption DEF ResShapes, ShellShape, Gens
<1>5. \E k : Goes(c, k) /\ ShellShape(k)
  <2>1. CASE Ends(c)
    BY <2>1, EndGoes
  <2>2. CASE StepTo(c, "bundle") /\ j.at \in {"anchor", "unanchor"}
    BY <1>1, <2>2, StepGoes
  <2> QED BY <1>1, <2>1, <2>2 DEF WriteTrustFile, RemoveTrustFile, UpdateBundle
<1>6. UNCHANGED <<dnsRows, unit, dropIns, loaded, boot, served, globalDNS, subnet, loginTenant, reboots>>
  BY DEF WriteTrustFile, RemoveTrustFile, UpdateBundle, machineVars, diskVars
<1>7. anchors' \in [ResTenants -> 0 .. MaxGen] /\ bundle' \in [ResTenants -> 0 .. MaxGen]
  <2>1. anchors' = anchors \/ \E n \in {0, j.gen} : anchors' = [anchors EXCEPT ![s] = n]
    BY <1>1, <1>2 DEF WriteTrustFile, RemoveTrustFile, UpdateBundle, diskVars
  <2>2. bundle' = bundle \/ bundle' = anchors
    BY DEF WriteTrustFile, RemoveTrustFile, UpdateBundle, machineVars
  <2> QED BY <1>4, <2>1, <2>2 DEF ResData
<1>8. told' = told \/ \E said \in {"nothing", "trusted", "removed"} : told' = [told EXCEPT !.ca[s] = said]
  BY <1>1, <1>2 DEF WriteTrustFile, RemoveTrustFile, UpdateBundle
<1>9. told' \in [dns : [ResSuffixes -> {"nothing", "installed", "removed"}],
                 ca : [ResTenants -> {"nothing", "trusted", "removed"}]]
  <2>1. /\ told \in [dns : [ResSuffixes -> {"nothing", "installed", "removed"}],
                     ca : [ResTenants -> {"nothing", "trusted", "removed"}]]
        /\ told.ca \in [ResTenants -> {"nothing", "trusted", "removed"}]
    BY <1>4 DEF ResData
  <2>2. ASSUME NEW said \in {"nothing", "trusted", "removed"}, told' = [told EXCEPT !.ca[s] = said]
        PROVE  told' \in [dns : [ResSuffixes -> {"nothing", "installed", "removed"}],
                          ca : [ResTenants -> {"nothing", "trusted", "removed"}]]
    <3>1. PICK f : f = [told.ca EXCEPT ![s] = said]
      OBVIOUS
    <3>2. f \in [ResTenants -> {"nothing", "trusted", "removed"}]
      BY <2>1, <3>1
    <3>3. told' = [told EXCEPT !.ca = f]
      BY <2>2, <3>1
    <3> QED BY <2>1, <3>2, <3>3
  <2> QED BY <1>8, <2>1, <2>2
<1>10. ResData'
  BY <1>4, <1>6, <1>7, <1>9 DEF ResData
<1> QED BY <1>5, <1>10, MovesTyped

\* A command begins.
LEMMA BeginsTyped ==
  ASSUME ResShapes, NEW c \in ResShells, NEW t \in ResTenants, NEW who \in {"user", "root"},
         \/ \E s \in ResSuffixes : LoginSetup(c, t, s, who)
         \/ \E op : TeardownPlan(c, t, op, who)
         \/ TrustPlan(c, t, who) \/ UntrustPlan(c, t, who)
  PROVE  ResShapes'
<1>1. PICK g : g = subnet[t].gen /\ g \in Gens
  BY DEF ResShapes, ResData
<1>2. ResData /\ t \in ResSuffixes
  BY DEF ResShapes, ResSuffixes
<1>3. ASSUME NEW s \in ResSuffixes, Unsaid(s), loginTenant' \in {loginTenant, t},
             UNCHANGED <<dnsRows, diskVars, machineVars, subnet, reboots>>
      PROVE  ResData'
  BY <1>2, <1>3 DEF ResData, Unsaid, diskVars, machineVars
<1>4. ASSUME NEW s \in ResSuffixes, NEW op \in ResOpNames
      PROVE  ShellShape([at |-> "read", op |-> op, tenant |-> t, suffix |-> s, gen |-> g, as |-> who, rows |-> NoRow])
  BY <1>1, ResStepNames DEF ShellShape, ResRecords, DnsSteps, TrustSteps
<1>5. ASSUME NEW s \in ResSuffixes, LoginSetup(c, t, s, who) PROVE ResShapes'
  <2>1. ShellShape([at |-> "read", op |-> "login", tenant |-> t, suffix |-> s, gen |-> g, as |-> who, rows |-> NoRow])
    BY <1>4 DEF ResOpNames
  <2>2. Goes(c, [at |-> "read", op |-> "login", tenant |-> t, suffix |-> s, gen |-> g, as |-> who, rows |-> NoRow])
    BY <1>1, <1>5 DEF LoginSetup, Goes
  <2>3. ResData'
    BY <1>3, <1>5 DEF LoginSetup
  <2> QED BY <2>1, <2>2, <2>3, MovesTyped
<1>6. ASSUME NEW op, TeardownPlan(c, t, op, who) PROVE ResShapes'
  <2>1. op \in ResOpNames
    BY <1>6 DEF TeardownPlan, ResOpNames
  <2>2. ShellShape([at |-> "read", op |-> op, tenant |-> t, suffix |-> t, gen |-> g, as |-> who, rows |-> NoRow])
    BY <1>2, <1>4, <2>1
  <2>3. Goes(c, [at |-> "read", op |-> op, tenant |-> t, suffix |-> t, gen |-> g, as |-> who, rows |-> NoRow])
    BY <1>1, <1>6 DEF TeardownPlan, Goes
  <2>4. ResData'
    BY <1>2, <1>3, <1>6 DEF TeardownPlan
  <2> QED BY <2>2, <2>3, <2>4, MovesTyped
<1>7. CASE TrustPlan(c, t, who)
  <2>1. PICK x : x = loginTenant /\ x \in ResTenants
    BY <1>2, <1>7 DEF TrustPlan, ResData
  <2>2. PICK h : h = subnet[loginTenant].gen /\ h \in Gens /\ x \in ResSuffixes
    BY <1>2, <2>1 DEF ResData, ResSuffixes
  <2> DEFINE k == [at |-> "fetch", op |-> "trust", tenant |-> t, suffix |-> x, gen |-> h, as |-> who, rows |-> NoRow]
  <2>3. ShellShape(k)
    BY <2>1, <2>2 DEF ShellShape, ResRecords, DnsSteps, TrustSteps, ResOpNames
  <2>4. Goes(c, k)
    BY <1>7, <2>1, <2>2 DEF TrustPlan, Goes
  <2>5. ResData'
    BY <1>2, <1>7 DEF TrustPlan, diskVars, machineVars, ResData
  <2> HIDE DEF k
  <2> QED BY <2>3, <2>4, <2>5, MovesTyped
<1>8. CASE UntrustPlan(c, t, who)
  <2> DEFINE k == [at |-> "unanchor", op |-> "untrust", tenant |-> t, suffix |-> t, gen |-> g, as |-> who, rows |-> NoRow]
  <2>1. ShellShape(k)
    BY <1>1, <1>2 DEF ShellShape, ResRecords, DnsSteps, TrustSteps, ResOpNames
  <2>2. Goes(c, k)
    BY <1>1, <1>8 DEF UntrustPlan, Goes
  <2>3. ResData'
    BY <1>2, <1>8 DEF UntrustPlan, diskVars, machineVars, ResData
  <2> HIDE DEF k
  <2> QED BY <2>1, <2>2, <2>3, MovesTyped
<1> QED BY <1>5, <1>6, <1>7, <1>8

LEMMA ResTyped ==
  ASSUME ResShapes, [ResNext]_resVars
  PROVE  ResShapes'
<1>1. ASSUME NEW c \in ResShells, ResStep(c) PROVE ResShapes'
  <2>1. CASE Escalate(c) \/ ReadState(c) \/ WriteState(c) \/ FetchCA(c) \/ CutShort(c)
    BY <2>1, PlanData, PlanGoes, MovesTyped
  <2> QED BY <1>1, <2>1, InstallTyped, RemoveTyped, TrustTyped DEF ResStep
<1>2. CASE UNCHANGED resVars
  BY <1>2 DEF resVars, ResShapes, ResData
<1> QED BY <1>1, <1>2, BeginsTyped, TenantTyped, RebootTyped DEF ResNext

\* The files, the units, the bundle and the commands stay in their domains,
\* also when two commands are about one suffix.
THEOREM ResolverStaysTyped == ResSpec => []ResTypeOK
<1>1. ResInit => ResShapes
  BY ResInitInv DEF ResInv
<1>2. ResShapes /\ [ResNext]_resVars => ResShapes'
  BY ResTyped
<1> QED BY <1>1, <1>2, ShapesAreTypes, PTL DEF ResSpec
=============================================================================
