-------------------------- MODULE WorkstationProofs --------------------------
(***************************************************************************)
(* What the commands of a workstation and of a host keep, for any number   *)
(* of them: update notices, deployments, self updates, machine commands    *)
(* and the known_hosts file.  Each section ends with the types of its      *)
(* component, which hold whatever the commands do.                         *)
(***************************************************************************)
EXTENDS MachineLifecycle, KnownHosts, SelfUpdate, UpdateNotices, Deployment, TLAPS

-----------------------------------------------------------------------------
(* Update notices                                                          *)

RunRecords == [step : {"idle", "working", "loaded", "done"},
               check : {"none", "started", "loaded", "ended"}, seen : States, st : States]

\* The state file and every copy of it that will be written back carry the
\* hour at which the release notice was last printed.
NoticeTimesKept ==
    /\ file.noticed = printed["release"]
    /\ \A r \in Runs :
          /\ run[r].step = "loaded" => run[r].st.noticed = printed["release"]
          /\ run[r].check = "loaded" => run[r].seen.noticed = printed["release"]
          /\ run[r].check = "ended" /\ run[r].step = "working" => run[r].seen.noticed = printed["release"]

NoticesInv == NoticesTypeOK /\ NoticeTimesKept /\ NoticeThrottled

\* A state file that does not exist.
LEMMA NoStateType == NoState \in States /\ NoState.noticed = 0
  BY NoticeAssumption DEF NoState, States, Times, NoticeAssumption

\* What a check saves keeps when the notice was printed.
LEMMA CheckedKeeps ==
  ASSUME NEW st \in States, hour \in Times, newest \in 1 .. MaxTag
  PROVE  Checked(st) \in States /\ Checked(st).noticed = st.noticed
<1>1. [st EXCEPT !.checked = hour] \in States /\ [st EXCEPT !.checked = hour].noticed = st.noticed
  BY DEF States
<1> DEFINE k == [NoState EXCEPT !.checked = hour, !.tag = newest, !.noticed = st.noticed]
<1>2. k \in States /\ k.noticed = st.noticed
  BY NoStateType DEF States
<1>3. Checked(st) = [st EXCEPT !.checked = hour] \/ Checked(st) = k
  BY DEF Checked
<1> HIDE DEF k
<1> QED BY <1>1, <1>2, <1>3

\* The first command of a terminal finds no state.
LEMMA NoticesInitInv == NoticesInit => NoticesInv
<1> SUFFICES ASSUME NoticesInit PROVE NoticesInv
  OBVIOUS
<1> USE DEF NoticesInit
<1>1. IdleRun \in RunRecords /\ IdleRun.step = "idle" /\ IdleRun.check = "none"
  BY NoStateType DEF IdleRun, RunRecords
<1>2. hour \in Times /\ newest \in 1 .. MaxTag /\ 0 \in Times
  BY NoticeAssumption DEF NoticeAssumption, Times
<1>3. NoticesTypeOK
  BY <1>1, <1>2, NoStateType DEF NoticesTypeOK, RunRecords
<1> QED BY <1>1, <1>3, NoStateType DEF NoticesInv, NoticeTimesKept, NoticeThrottled

\* One command moves; the file, the clock and the notices stay.
LEMMA RunGoes ==
  ASSUME NoticesInv, NEW r \in Runs, NEW k \in RunRecords, run' = [run EXCEPT ![r] = k],
         UNCHANGED <<hour, newest, printed, soon>>,
         file' \in States, file'.noticed = printed["release"],
         k.step = "loaded" => k.st.noticed = printed["release"],
         k.check = "loaded" => k.seen.noticed = printed["release"],
         k.check = "ended" /\ k.step = "working" => k.seen.noticed = printed["release"]
  PROVE  NoticesInv'
<1>1. run \in [Runs -> RunRecords]
  BY DEF NoticesInv, NoticesTypeOK, RunRecords
<1>2. /\ run' \in [Runs -> RunRecords] /\ run'[r] = k
      /\ \A q \in Runs : q # r => run'[q] = run[q]
  BY <1>1
<1>3. NoticesTypeOK'
  BY <1>2 DEF NoticesInv, NoticesTypeOK, RunRecords
<1> QED BY <1>2, <1>3 DEF NoticesInv, NoticeTimesKept, NoticeThrottled

\* Every step keeps the invariant, of commands given one after the other.
LEMMA NoticesStepInv ==
  NoticesInv /\ OneAtATime /\ CheckInTime /\ OneAtATime' /\ CheckInTime' /\ [NoticesNext]_noticeVars
     => NoticesInv'
<1> SUFFICES ASSUME NoticesInv, OneAtATime, CheckInTime, OneAtATime', CheckInTime', [NoticesNext]_noticeVars
             PROVE  NoticesInv'
  OBVIOUS
<1>0. /\ run \in [Runs -> RunRecords] /\ file \in States /\ hour \in Times /\ newest \in 1 .. MaxTag
      /\ printed \in [{"release", "sidecar"} -> Times] /\ soon \subseteq {"release", "sidecar"}
  BY DEF NoticesInv, NoticesTypeOK, RunRecords
<1>1. CASE UNCHANGED noticeVars
  BY <1>1 DEF noticeVars, NoticesInv, NoticesTypeOK, NoticeTimesKept, NoticeThrottled
<1>2. CASE HourPasses
  <2>1. hour' \in Times
    BY <1>0, <1>2, NoticeAssumption DEF HourPasses, Times, NoticeAssumption
  <2> QED BY <1>2, <2>1 DEF HourPasses, NoticesInv, NoticesTypeOK, NoticeTimesKept, NoticeThrottled
<1>3. CASE ReleasePublished
  <2>1. newest' \in 1 .. MaxTag
    BY <1>0, <1>3, NoticeAssumption DEF ReleasePublished, NoticeAssumption
  <2> QED BY <1>3, <2>1 DEF ReleasePublished, NoticesInv, NoticesTypeOK, NoticeTimesKept, NoticeThrottled
<1>4. ASSUME NEW r \in Runs, RunStart(r) PROVE NoticesInv'
  <2> DEFINE k == [run[r] EXCEPT !.step = "working",
                     !.check = IF hour - file.checked >= CheckInterval THEN "started" ELSE "none"]
  <2>1. k \in RunRecords /\ k.step = "working" /\ k.check \in {"started", "none"}
    BY <1>0 DEF RunRecords
  <2>2. run' = [run EXCEPT ![r] = k] /\ UNCHANGED <<hour, newest, file, printed, soon>>
    BY <1>0, <1>4 DEF RunStart
  <2> HIDE DEF k
  <2> QED BY <1>0, <2>1, <2>2, RunGoes DEF NoticesInv, NoticeTimesKept
<1>5. ASSUME NEW r \in Runs, CheckLoad(r) PROVE NoticesInv'
  <2> DEFINE k == [run[r] EXCEPT !.check = "loaded", !.seen = file]
  <2>1. k \in RunRecords /\ k.step = run[r].step /\ k.st = run[r].st /\ k.check = "loaded" /\ k.seen = file
    BY <1>0 DEF RunRecords
  <2>2. run' = [run EXCEPT ![r] = k] /\ UNCHANGED <<hour, newest, file, printed, soon>>
    BY <1>0, <1>5 DEF CheckLoad
  <2> HIDE DEF k
  <2> QED BY <1>0, <2>1, <2>2, RunGoes DEF NoticesInv, NoticeTimesKept
<1>6. ASSUME NEW r \in Runs, CheckSave(r) PROVE NoticesInv'
  <2>0. /\ run[r].seen \in States /\ run[r].check = "loaded" /\ run[r].seen.noticed = printed["release"]
        /\ UNCHANGED <<hour, newest, printed, soon>>
    BY <1>0, <1>6 DEF RunRecords, CheckSave, NoticesInv, NoticeTimesKept
  <2> DEFINE c == Checked(run[r].seen)
             k == [run[r] EXCEPT !.check = "ended", !.seen = c]
             l == [run[r] EXCEPT !.check = "none"]
  <2>1. c \in States /\ c.noticed = printed["release"]
    BY <1>0, <2>0, CheckedKeeps
  <2> HIDE DEF c
  <2>2. /\ k \in RunRecords /\ k.step = run[r].step /\ k.st = run[r].st /\ k.check = "ended" /\ k.seen = c
        /\ l \in RunRecords /\ l.step = run[r].step /\ l.st = run[r].st /\ l.check = "none"
    BY <1>0, <2>1 DEF RunRecords
  <2>3. \/ file' = c /\ run' = [run EXCEPT ![r] = k]
        \/ file' = file /\ run' = [run EXCEPT ![r] = l]
    BY <1>0, <1>6 DEF CheckSave, c
  <2> HIDE DEF k, l
  <2>4. CASE file' = c /\ run' = [run EXCEPT ![r] = k]
    BY <1>0, <2>0, <2>1, <2>2, <2>4, RunGoes DEF NoticesInv, NoticeTimesKept
  <2>5. CASE file' = file /\ run' = [run EXCEPT ![r] = l]
    BY <1>0, <2>0, <2>2, <2>5, RunGoes DEF NoticesInv, NoticeTimesKept
  <2> QED BY <2>3, <2>4, <2>5
<1>7. ASSUME NEW r \in Runs, NoticeLoad(r) PROVE NoticesInv'
  <2> DEFINE k == [run[r] EXCEPT !.step = "loaded", !.st = IF run[r].check = "ended" THEN run[r].seen ELSE file]
  <2>1. /\ k \in RunRecords /\ k.step = "loaded" /\ k.seen = run[r].seen /\ k.check = run[r].check
        /\ k.st = IF run[r].check = "ended" THEN run[r].seen ELSE file
    BY <1>0 DEF RunRecords
  <2>2. run' = [run EXCEPT ![r] = k] /\ UNCHANGED <<hour, newest, file, printed, soon>> /\ run[r].step = "working"
    BY <1>0, <1>7 DEF NoticeLoad
  <2> HIDE DEF k
  <2> QED BY <1>0, <2>1, <2>2, RunGoes DEF NoticesInv, NoticeTimesKept
<1>8. ASSUME NEW r \in Runs, NoticePrint(r) PROVE NoticesInv'
  <2> DEFINE due == Due(run[r].st)
             k == [run[r] EXCEPT !.step = "done"]
             st == run[r].st
             f == [st EXCEPT !.noticed = IF "release" \in due THEN hour ELSE @,
                             !.sidecar = IF "sidecar" \in due THEN hour ELSE @]
  <2>1. /\ run[r].step = "loaded" /\ st \in States /\ st.noticed = printed["release"]
        /\ UNCHANGED <<hour, newest>> /\ run' = [run EXCEPT ![r] = k]
        /\ printed' = [n \in {"release", "sidecar"} |-> IF n \in due THEN hour ELSE printed[n]]
        /\ soon' = soon \cup {n \in due : hour - printed[n] < CheckInterval}
        /\ file' = IF due = {} THEN file ELSE f
    BY <1>0, <1>8 DEF NoticePrint, RunRecords, NoticesInv, NoticeTimesKept
  <2>2. due \subseteq {"release", "sidecar"} /\ ("release" \in due => hour - st.noticed >= CheckInterval)
    BY DEF Due
  <2>3. k \in RunRecords /\ k.step = "done" /\ k.check = run[r].check
    BY <1>0 DEF RunRecords
  <2>4. f \in States /\ f.noticed = IF "release" \in due THEN hour ELSE st.noticed
    BY <1>0, <2>1 DEF States
  <2> HIDE DEF due, k, f
  <2>5. "release" \notin soon'
    BY <1>0, <2>1, <2>2, NoticeAssumption DEF NoticesInv, NoticeThrottled, Times, NoticeAssumption
  <2>6. /\ printed' \in [{"release", "sidecar"} -> Times]
        /\ printed'["release"] = IF "release" \in due THEN hour ELSE printed["release"]
    BY <1>0, <2>1
  <2>7. file' \in States /\ file'.noticed = printed'["release"]
    BY <1>0, <2>1, <2>4, <2>6 DEF NoticesInv, NoticeTimesKept
  <2>8. /\ run' \in [Runs -> RunRecords] /\ run'[r] = k
        /\ \A q \in Runs : q # r => run'[q] = run[q]
    BY <1>0, <2>1, <2>3
  <2>9. \A q \in Runs : /\ run'[q].step \notin {"working", "loaded"}
                        /\ run'[q].check # "loaded"
    BY <2>1, <2>3, <2>8 DEF OneAtATime, CheckInTime
  <2>10. NoticeTimesKept'
    BY <2>7, <2>9 DEF NoticeTimesKept
  <2>11. NoticesTypeOK'
    BY <1>0, <2>1, <2>2, <2>6, <2>7, <2>8 DEF NoticesTypeOK, RunRecords
  <2> QED BY <2>5, <2>10, <2>11 DEF NoticesInv, NoticeThrottled
<1> QED BY <1>1, <1>2, <1>3, <1>4, <1>5, <1>6, <1>7, <1>8 DEF NoticesNext

(* The release notice is printed at most once in a check interval, for     *)
(* commands given one after the other whose checks are over in time, of    *)
(* any number, any interval and any releases (maybePrintUpdateNotices).    *)
THEOREM NoticesAreThrottled == NoticesSpec /\ []OneAtATime /\ []CheckInTime => []NoticeThrottled
<1>1. NoticesInv => NoticeThrottled
  BY DEF NoticesInv
<1> QED BY <1>1, NoticesInitInv, NoticesStepInv, PTL DEF NoticesSpec

\* Whatever commands run at once, and however late their checks are.
LEMMA NoticesTyped ==
  ASSUME NoticesTypeOK, [NoticesNext]_noticeVars
  PROVE  NoticesTypeOK'
<1>0. /\ run \in [Runs -> RunRecords] /\ file \in States /\ hour \in Times /\ newest \in 1 .. MaxTag
      /\ printed \in [{"release", "sidecar"} -> Times] /\ soon \subseteq {"release", "sidecar"}
  BY DEF NoticesTypeOK, RunRecords
<1>1. ASSUME NEW r \in Runs, NEW k \in RunRecords, run' = [run EXCEPT ![r] = k],
             UNCHANGED <<hour, newest, printed, soon>>, file' \in States
      PROVE  NoticesTypeOK'
  <2>1. run' \in [Runs -> RunRecords]
    BY <1>0, <1>1
  <2> QED BY <1>0, <1>1, <2>1 DEF NoticesTypeOK, RunRecords
<1>2. CASE UNCHANGED noticeVars
  BY <1>2 DEF noticeVars, NoticesTypeOK
<1>3. CASE HourPasses
  <2>1. hour' \in Times
    BY <1>0, <1>3, NoticeAssumption DEF HourPasses, Times, NoticeAssumption
  <2> QED BY <1>3, <2>1 DEF HourPasses, NoticesTypeOK
<1>4. CASE ReleasePublished
  <2>1. newest' \in 1 .. MaxTag
    BY <1>0, <1>4, NoticeAssumption DEF ReleasePublished, NoticeAssumption
  <2> QED BY <1>4, <2>1 DEF ReleasePublished, NoticesTypeOK
<1>5. ASSUME NEW r \in Runs, RunStart(r) PROVE NoticesTypeOK'
  <2> DEFINE k == [run[r] EXCEPT !.step = "working",
                     !.check = IF hour - file.checked >= CheckInterval THEN "started" ELSE "none"]
  <2>1. k \in RunRecords
    BY <1>0 DEF RunRecords
  <2>2. run' = [run EXCEPT ![r] = k] /\ UNCHANGED <<hour, newest, file, printed, soon>>
    BY <1>0, <1>5 DEF RunStart
  <2> HIDE DEF k
  <2> QED BY <1>0, <1>1, <2>1, <2>2
<1>6. ASSUME NEW r \in Runs, CheckLoad(r) PROVE NoticesTypeOK'
  <2> DEFINE k == [run[r] EXCEPT !.check = "loaded", !.seen = file]
  <2>1. k \in RunRecords
    BY <1>0 DEF RunRecords
  <2>2. run' = [run EXCEPT ![r] = k] /\ UNCHANGED <<hour, newest, file, printed, soon>>
    BY <1>0, <1>6 DEF CheckLoad
  <2> HIDE DEF k
  <2> QED BY <1>0, <1>1, <2>1, <2>2
<1>7. ASSUME NEW r \in Runs, CheckSave(r) PROVE NoticesTypeOK'
  <2> DEFINE c == Checked(run[r].seen)
             k == [run[r] EXCEPT !.check = "ended", !.seen = c]
             l == [run[r] EXCEPT !.check = "none"]
  <2>1. run[r].seen \in States
    BY <1>0 DEF RunRecords
  <2>2. c \in States
    BY <1>0, <2>1, CheckedKeeps
  <2> HIDE DEF c
  <2>3. k \in RunRecords /\ l \in RunRecords
    BY <1>0, <2>2 DEF RunRecords
  <2>4. /\ \/ file' = c /\ run' = [run EXCEPT ![r] = k]
           \/ file' = file /\ run' = [run EXCEPT ![r] = l]
        /\ UNCHANGED <<hour, newest, printed, soon>>
    BY <1>0, <1>7 DEF CheckSave, c
  <2> HIDE DEF k, l
  <2> QED BY <1>0, <1>1, <2>2, <2>3, <2>4
<1>8. ASSUME NEW r \in Runs, NoticeLoad(r) PROVE NoticesTypeOK'
  <2> DEFINE k == [run[r] EXCEPT !.step = "loaded", !.st = IF run[r].check = "ended" THEN run[r].seen ELSE file]
  <2>1. k \in RunRecords
    BY <1>0 DEF RunRecords
  <2>2. run' = [run EXCEPT ![r] = k] /\ UNCHANGED <<hour, newest, file, printed, soon>>
    BY <1>0, <1>8 DEF NoticeLoad
  <2> HIDE DEF k
  <2> QED BY <1>0, <1>1, <2>1, <2>2
<1>9. ASSUME NEW r \in Runs, NoticePrint(r) PROVE NoticesTypeOK'
  <2> DEFINE due == Due(run[r].st)
             k == [run[r] EXCEPT !.step = "done"]
             st == run[r].st
             f == [st EXCEPT !.noticed = IF "release" \in due THEN hour ELSE @,
                             !.sidecar = IF "sidecar" \in due THEN hour ELSE @]
  <2>1. /\ st \in States
        /\ UNCHANGED <<hour, newest>> /\ run' = [run EXCEPT ![r] = k]
        /\ printed' = [n \in {"release", "sidecar"} |-> IF n \in due THEN hour ELSE printed[n]]
        /\ soon' = soon \cup {n \in due : hour - printed[n] < CheckInterval}
        /\ file' = IF due = {} THEN file ELSE f
    BY <1>0, <1>9 DEF NoticePrint, RunRecords
  <2>2. due \subseteq {"release", "sidecar"} /\ k \in RunRecords
    BY <1>0 DEF Due, RunRecords
  <2>3. f \in States
    BY <1>0, <2>1 DEF States
  <2> HIDE DEF due, k, f
  <2>4. printed' \in [{"release", "sidecar"} -> Times] /\ soon' \subseteq {"release", "sidecar"}
    BY <1>0, <2>1, <2>2
  <2>5. file' \in States /\ run' \in [Runs -> RunRecords]
    BY <1>0, <2>1, <2>2, <2>3
  <2> QED BY <1>0, <2>1, <2>4, <2>5 DEF NoticesTypeOK, RunRecords
<1> QED BY <1>2, <1>3, <1>4, <1>5, <1>6, <1>7, <1>8, <1>9 DEF NoticesNext

\* The state file and every command's copy of it stay in their domains.
THEOREM NoticesStayTyped == NoticesSpec => []NoticesTypeOK
<1>1. NoticesInit => NoticesTypeOK
  BY NoticesInitInv DEF NoticesInv
<1>2. NoticesTypeOK /\ [NoticesNext]_noticeVars => NoticesTypeOK'
  BY NoticesTyped
<1> QED BY <1>1, <1>2, PTL DEF NoticesSpec

-----------------------------------------------------------------------------
(* Deployments                                                             *)

AuthFiles == {"binary", "env", "caddyfile", "token"}
BrokerFiles == {"broker binary", "broker cert", "broker env"}
CallNames == {"project", "bridge", "instance", "write", "stamp", "start", "cloud"}
CallSubjects ==
  AuthFiles \cup BrokerFiles \cup Units \cup Appliances \cup {"infra", "bridge", "tunnel", "ingress", "dns"}
CallRecords == [do : CallNames, on : CallSubjects]
CallsIn(s) == {s[i] : i \in 1 .. Len(s)}

\* No unit of the first calls is started before its files of the second.
Clash(c, e) == c.do = "start" /\ e.do = "write" /\ e.on \in FilesOf(c.on)
InOrder(s) == \A i, j \in 1 .. Len(s) : i < j => ~Clash(s[i], s[j])

Touches(d, a) == (a = "auth" /\ DeploysAuth(d)) \/ (a = "broker" /\ DeploysBroker(d))

\* A command writes, starts and stamps on the appliances it deploys.
Belongs(d, c) ==
  /\ c.do = "write" => \/ c.on \in AuthFiles /\ DeploysAuth(d)
                       \/ c.on \in BrokerFiles /\ DeploysBroker(d)
  /\ c.do = "start" => c.on \in Units /\ Touches(d, HomeOf(c.on))
  /\ c.do \in {"stamp", "instance"} => c.on \in Appliances /\ Touches(d, c.on)
  /\ c.do \in {"project", "bridge"} => c.on \in {"infra", "broker", "bridge"}
  /\ c.do = "cloud" => c.on \in {"tunnel", "ingress", "dns"}

\* What is no longer left of a command has been done, and nothing undid it.
UnitDone(u, d, left) ==
  /\ \A f \in FilesOf(u) : Call("write", f) \in left \/ applianceDisk[f] = d
  /\ Call("start", u) \in left \/ (AllFrom(u, d) /\ u \in enabled)
AuthDone(d, left) ==
  /\ \A u \in UnitsOf(d) : UnitDone(u, d, left)
  /\ Call("instance", "auth") \in left \/ ports["auth"] = WebPorts(d)
  /\ Call("stamp", "auth") \in left \/ stamped["auth"] = d.ver
  /\ d.cmd = "install" /\ d.mode = "cloudflare" =>
       \A x \in {"tunnel", "ingress", "dns"} : Call("cloud", x) \in left \/ x \in cloudTunnel
BrokerDone(d, left) ==
  UnitDone("broker", d, left) /\ (Call("stamp", "broker") \in left \/ stamped["broker"] = d.ver)

\* The command under way: what it asked for, and the calls left of it.
JobGoes ==
  deployJob # NoneYet =>
    /\ deployJob \in [req : Deploys, calls : Seq(CallRecords)]
    /\ InOrder(deployJob.calls)
    /\ \A c \in CallsIn(deployJob.calls) : Belongs(deployJob.req, c)
    /\ DeploysAuth(deployJob.req) => reported["auth"] = NoneYet /\ AuthDone(deployJob.req, CallsIn(deployJob.calls))
    /\ DeploysBroker(deployJob.req) => reported["broker"] = NoneYet /\ BrokerDone(deployJob.req, CallsIn(deployJob.calls))

\* What was reported done still is, the files of the units included.
ReportsKept ==
  /\ reported["auth"] # NoneYet => AuthDone(reported["auth"], {})
  /\ reported["broker"] # NoneYet => BrokerDone(reported["broker"], {})

DeployShapes ==
  /\ DeployTypeOK
  /\ unitRuns = [u \in Units |-> unitRuns[u]]
  /\ ports = [a \in Appliances |-> ports[a]]
  /\ stamped = [a \in Appliances |-> stamped[a]]

DeployInv == DeployShapes /\ JobGoes /\ ReportsKept

\* The units and their files.
LEMMA UnitFiles ==
  /\ FilesOf("auth-app") = {"binary", "env"} /\ FilesOf("caddy") = {"caddyfile"}
  /\ FilesOf("cloudflared") = {"token"} /\ FilesOf("broker") = BrokerFiles
  /\ FileNames = AuthFiles \cup BrokerFiles
<1>1. /\ FilesOf("auth-app") = {"binary", "env"} /\ FilesOf("caddy") = {"caddyfile"}
      /\ FilesOf("cloudflared") = {"token"} /\ FilesOf("broker") = BrokerFiles
  BY DEF FilesOf, BrokerFiles
<1>2. FileNames = FilesOf("auth-app") \cup FilesOf("caddy") \cup FilesOf("cloudflared") \cup FilesOf("broker")
  BY DEF FileNames, Units
<1> QED BY <1>1, <1>2 DEF AuthFiles

\* A call is its name and what it is about.
LEMMA CallFields ==
  /\ \A x, y : Call(x, y).do = x /\ Call(x, y).on = y
  /\ \A x \in CallNames, y \in CallSubjects : Call(x, y) \in CallRecords
  BY DEF Call, CallRecords

\* A few calls in a row.
LEMMA NoCalls == <<>> \in Seq(CallRecords) /\ CallsIn(<<>>) = {}
  BY DEF CallsIn

LEMMA OneCall ==
  ASSUME NEW a \in CallRecords
  PROVE  <<a>> \in Seq(CallRecords) /\ CallsIn(<<a>>) = {a}
  BY DEF CallsIn

LEMMA TwoCalls ==
  ASSUME NEW a \in CallRecords, NEW b \in CallRecords
  PROVE  <<a, b>> \in Seq(CallRecords) /\ CallsIn(<<a, b>>) = {a, b}
  BY DEF CallsIn

LEMMA ThreeCalls ==
  ASSUME NEW a \in CallRecords, NEW b \in CallRecords, NEW c \in CallRecords
  PROVE  <<a, b, c>> \in Seq(CallRecords) /\ CallsIn(<<a, b, c>>) = {a, b, c}
  BY DEF CallsIn

LEMMA FourCalls ==
  ASSUME NEW a \in CallRecords, NEW b \in CallRecords, NEW c \in CallRecords, NEW d \in CallRecords
  PROVE  <<a, b, c, d>> \in Seq(CallRecords) /\ CallsIn(<<a, b, c, d>>) = {a, b, c, d}
  BY DEF CallsIn

\* A call that is made under a condition.
LEMMA WhenCall ==
  ASSUME NEW p \in BOOLEAN, NEW a \in CallRecords
  PROVE  /\ When(p, <<a>>) \in Seq(CallRecords) /\ CallsIn(When(p, <<a>>)) \subseteq {a}
         /\ p => a \in CallsIn(When(p, <<a>>))
<1>1. CASE p
  BY <1>1, OneCall DEF When
<1>2. CASE ~p
  BY <1>2, NoCalls DEF When
<1> QED BY <1>1, <1>2

\* Calls made after other calls.
LEMMA CallsConcat ==
  ASSUME NEW s \in Seq(CallRecords), NEW t \in Seq(CallRecords), InOrder(s), InOrder(t),
         \A c \in CallsIn(s), e \in CallsIn(t) : ~Clash(c, e)
  PROVE  s \o t \in Seq(CallRecords) /\ InOrder(s \o t) /\ CallsIn(s \o t) = CallsIn(s) \cup CallsIn(t)
<1>1. s \o t \in Seq(CallRecords) /\ Len(s \o t) = Len(s) + Len(t) /\ Len(s) \in Nat /\ Len(t) \in Nat
  OBVIOUS
<1>2. \A i \in 1 .. Len(s) : (s \o t)[i] = s[i]
  OBVIOUS
<1>3. \A i \in 1 .. Len(t) : (s \o t)[Len(s) + i] = t[i]
  OBVIOUS
<1>4. CallsIn(s \o t) = CallsIn(s) \cup CallsIn(t)
  <2>1. ASSUME NEW i \in 1 .. Len(s \o t) PROVE (s \o t)[i] \in CallsIn(s) \cup CallsIn(t)
    <3>1. CASE i \in 1 .. Len(s)
      BY <3>1, <1>2 DEF CallsIn
    <3>2. CASE i \notin 1 .. Len(s)
      <4>1. i - Len(s) \in 1 .. Len(t) /\ Len(s) + (i - Len(s)) = i
        BY <1>1, <3>2
      <4> QED BY <4>1, <1>3 DEF CallsIn
    <3> QED BY <3>1, <3>2
  <2>2. ASSUME NEW i \in 1 .. Len(s) PROVE s[i] \in CallsIn(s \o t)
    <3>1. i \in 1 .. Len(s \o t)
      BY <1>1
    <3> QED BY <3>1, <1>2 DEF CallsIn
  <2>3. ASSUME NEW i \in 1 .. Len(t) PROVE t[i] \in CallsIn(s \o t)
    <3>1. Len(s) + i \in 1 .. Len(s \o t)
      BY <1>1
    <3> QED BY <3>1, <1>3 DEF CallsIn
  <2> QED BY <2>1, <2>2, <2>3 DEF CallsIn
<1>5. InOrder(s \o t)
  <2> SUFFICES ASSUME NEW i \in 1 .. Len(s \o t), NEW j \in 1 .. Len(s \o t), i < j
               PROVE  ~Clash((s \o t)[i], (s \o t)[j])
    BY DEF InOrder
  <2>1. CASE j \in 1 .. Len(s)
    <3>1. i \in 1 .. Len(s)
      BY <2>1, <1>1
    <3> QED BY <2>1, <3>1, <1>2 DEF InOrder
  <2>2. CASE j \notin 1 .. Len(s)
    <3> DEFINE l == j - Len(s)
    <3>1. l \in 1 .. Len(t) /\ (s \o t)[j] = t[l]
      BY <1>1, <1>3, <2>2
    <3>2. CASE i \in 1 .. Len(s)
      BY <3>1, <3>2, <1>2 DEF CallsIn
    <3>3. CASE i \notin 1 .. Len(s)
      <4>1. i - Len(s) \in 1 .. Len(t) /\ (s \o t)[i] = t[i - Len(s)] /\ i - Len(s) < l
        BY <1>1, <1>3, <2>2, <3>3
      <4> QED BY <3>1, <4>1 DEF InOrder
    <3> QED BY <3>2, <3>3
  <2> QED BY <2>1, <2>2
<1> QED BY <1>1, <1>4, <1>5

\* The first call made, and those left.
LEMMA CallsTail ==
  ASSUME NEW s \in Seq(CallRecords), s # <<>>, InOrder(s)
  PROVE  /\ Tail(s) \in Seq(CallRecords) /\ InOrder(Tail(s)) /\ Head(s) \in CallRecords
         /\ CallsIn(s) = CallsIn(Tail(s)) \cup {Head(s)}
         /\ \A e \in CallsIn(Tail(s)) : ~Clash(Head(s), e)
<1>1. /\ Tail(s) \in Seq(CallRecords) /\ Len(Tail(s)) = Len(s) - 1 /\ Len(s) \in Nat \ {0} /\ Head(s) = s[1]
      /\ Head(s) \in CallRecords
  OBVIOUS
<1>2. \A i \in 1 .. Len(Tail(s)) : Tail(s)[i] = s[i + 1]
  OBVIOUS
<1>3. CallsIn(s) = CallsIn(Tail(s)) \cup {Head(s)}
  <2>1. ASSUME NEW i \in 1 .. Len(s) PROVE s[i] \in CallsIn(Tail(s)) \cup {Head(s)}
    <3>1. CASE i = 1
      BY <3>1, <1>1
    <3>2. CASE i # 1
      <4>1. i - 1 \in 1 .. Len(Tail(s)) /\ Tail(s)[i - 1] = s[i]
        BY <1>1, <1>2, <3>2
      <4> QED BY <4>1 DEF CallsIn
    <3> QED BY <3>1, <3>2
  <2>2. ASSUME NEW i \in 1 .. Len(Tail(s)) PROVE Tail(s)[i] \in CallsIn(s)
    <3>1. i + 1 \in 1 .. Len(s)
      BY <1>1
    <3> QED BY <3>1, <1>2 DEF CallsIn
  <2>3. Head(s) \in CallsIn(s)
    BY <1>1 DEF CallsIn
  <2> QED BY <2>1, <2>2, <2>3 DEF CallsIn
<1>4. InOrder(Tail(s))
  <2> SUFFICES ASSUME NEW i \in 1 .. Len(Tail(s)), NEW j \in 1 .. Len(Tail(s)), i < j
               PROVE  ~Clash(Tail(s)[i], Tail(s)[j])
    BY DEF InOrder
  <2>1. i + 1 \in 1 .. Len(s) /\ j + 1 \in 1 .. Len(s) /\ i + 1 < j + 1
    BY <1>1
  <2> QED BY <2>1, <1>2 DEF InOrder
<1>5. ASSUME NEW i \in 1 .. Len(Tail(s)) PROVE ~Clash(Head(s), Tail(s)[i])
  <2>1. i + 1 \in 1 .. Len(s) /\ 1 < i + 1 /\ 1 \in 1 .. Len(s)
    BY <1>1
  <2> QED BY <2>1, <1>1, <1>2 DEF InOrder
<1>6. \A e \in CallsIn(Tail(s)) : ~Clash(Head(s), e)
  BY <1>5 DEF CallsIn
<1> QED BY <1>1, <1>3, <1>4, <1>6

\* A list whose every two calls agree with each other is in order.
LEMMA OneKind ==
  ASSUME NEW s \in Seq(CallRecords), \A c, e \in CallsIn(s) : ~Clash(c, e)
  PROVE  InOrder(s)
  BY DEF InOrder, CallsIn

\* The Auth App's part of a command: its calls are its own, every file is
\* written before the units are started.
LEMMA AuthCallsAre ==
  ASSUME NEW d, DeploysAuth(d)
  PROVE  /\ AuthCalls(d) \in Seq(CallRecords) /\ InOrder(AuthCalls(d))
         /\ \A c \in CallsIn(AuthCalls(d)) : Belongs(d, c) /\ c.do # "cloud" /\ c.on \notin BrokerFiles \cup {"broker"}
         /\ \A u \in UnitsOf(d) : /\ Call("start", u) \in CallsIn(AuthCalls(d))
                                  /\ \A f \in FilesOf(u) : Call("write", f) \in CallsIn(AuthCalls(d))
         /\ Call("instance", "auth") \in CallsIn(AuthCalls(d)) /\ Call("stamp", "auth") \in CallsIn(AuthCalls(d))
<1> DEFINE a == <<Call("project", "infra"), Call("instance", "auth"), Call("write", "binary"), Call("write", "env")>>
           b == When(NeedsCaddy(d), <<Call("write", "caddyfile")>>)
           c == When(d.mode = "cloudflare", <<Call("write", "token")>>)
           e == <<Call("stamp", "auth"), Call("start", "auth-app")>>
           f == When(NeedsCaddy(d), <<Call("start", "caddy")>>)
           g == When(d.mode = "cloudflare", <<Call("start", "cloudflared")>>)
<1> DEFINE known == {Call("project", "infra"), Call("instance", "auth"), Call("write", "binary"), Call("write", "env"),
                     Call("write", "caddyfile"), Call("write", "token"), Call("stamp", "auth"),
                     Call("start", "auth-app"), Call("start", "caddy"), Call("start", "cloudflared")}
<1>1. known \subseteq CallRecords
  BY CallFields DEF CallNames, CallSubjects, AuthFiles, BrokerFiles, Units, Appliances
<1>2. /\ a \in Seq(CallRecords)
      /\ CallsIn(a) = {Call("project", "infra"), Call("instance", "auth"), Call("write", "binary"), Call("write", "env")}
  BY <1>1, OneCall, TwoCalls, ThreeCalls, FourCalls
<1>3. /\ b \in Seq(CallRecords) /\ CallsIn(b) \subseteq {Call("write", "caddyfile")}
      /\ NeedsCaddy(d) => Call("write", "caddyfile") \in CallsIn(b)
  BY <1>1, WhenCall DEF NeedsCaddy
<1>4. /\ c \in Seq(CallRecords) /\ CallsIn(c) \subseteq {Call("write", "token")}
      /\ d.mode = "cloudflare" => Call("write", "token") \in CallsIn(c)
  BY <1>1, WhenCall DEF NeedsCaddy
<1>5. /\ e \in Seq(CallRecords) /\ CallsIn(e) = {Call("stamp", "auth"), Call("start", "auth-app")}
  BY <1>1, OneCall, TwoCalls, ThreeCalls, FourCalls
<1>6. /\ f \in Seq(CallRecords) /\ CallsIn(f) \subseteq {Call("start", "caddy")}
      /\ NeedsCaddy(d) => Call("start", "caddy") \in CallsIn(f)
  BY <1>1, WhenCall DEF NeedsCaddy
<1>7. /\ g \in Seq(CallRecords) /\ CallsIn(g) \subseteq {Call("start", "cloudflared")}
      /\ d.mode = "cloudflare" => Call("start", "cloudflared") \in CallsIn(g)
  BY <1>1, WhenCall DEF NeedsCaddy
<1>8. AuthCalls(d) = ((((a \o b) \o c) \o e) \o f) \o g
  BY DEF AuthCalls
<1> HIDE DEF a, b, c, e, f, g
<1>9. InOrder(a) /\ InOrder(b) /\ InOrder(c) /\ InOrder(e) /\ InOrder(f) /\ InOrder(g)
  <2>1. \A x, y \in CallsIn(a) : ~Clash(x, y)
    BY <1>2, CallFields DEF Clash
  <2>2. \A x, y \in CallsIn(b) : ~Clash(x, y)
    BY <1>3, CallFields DEF Clash
  <2>3. \A x, y \in CallsIn(c) : ~Clash(x, y)
    BY <1>4, CallFields DEF Clash
  <2>4. \A x, y \in CallsIn(e) : ~Clash(x, y)
    BY <1>5, CallFields DEF Clash
  <2>5. \A x, y \in CallsIn(f) : ~Clash(x, y)
    BY <1>6, CallFields DEF Clash
  <2>6. \A x, y \in CallsIn(g) : ~Clash(x, y)
    BY <1>7, CallFields DEF Clash
  <2> QED BY <1>2, <1>3, <1>4, <1>5, <1>6, <1>7, <2>1, <2>2, <2>3, <2>4, <2>5, <2>6, OneKind
<1>10. /\ \A x \in CallsIn(a) \cup CallsIn(b) \cup CallsIn(c) : x.do # "start"
       /\ \A y \in CallsIn(e) \cup CallsIn(f) \cup CallsIn(g) : y.do # "write"
  BY <1>2, <1>3, <1>4, <1>5, <1>6, <1>7, CallFields
<1>11. a \o b \in Seq(CallRecords) /\ InOrder(a \o b) /\ CallsIn(a \o b) = CallsIn(a) \cup CallsIn(b)
  <2>1. \A x \in CallsIn(a), y \in CallsIn(b) : ~Clash(x, y)
    BY <1>10 DEF Clash
  <2> QED BY <1>2, <1>3, <1>9, <2>1, CallsConcat
<1>12. /\ (a \o b) \o c \in Seq(CallRecords) /\ InOrder((a \o b) \o c)
       /\ CallsIn((a \o b) \o c) = CallsIn(a) \cup CallsIn(b) \cup CallsIn(c)
  <2>1. \A x \in CallsIn(a \o b), y \in CallsIn(c) : ~Clash(x, y)
    BY <1>10, <1>11 DEF Clash
  <2> QED BY <1>4, <1>9, <1>11, <2>1, CallsConcat
<1>13. /\ ((a \o b) \o c) \o e \in Seq(CallRecords) /\ InOrder(((a \o b) \o c) \o e)
       /\ CallsIn(((a \o b) \o c) \o e) = CallsIn(a) \cup CallsIn(b) \cup CallsIn(c) \cup CallsIn(e)
  <2>1. \A x \in CallsIn((a \o b) \o c), y \in CallsIn(e) : ~Clash(x, y)
    BY <1>10 DEF Clash
  <2> QED BY <1>5, <1>9, <1>12, <2>1, CallsConcat
<1>14. /\ (((a \o b) \o c) \o e) \o f \in Seq(CallRecords) /\ InOrder((((a \o b) \o c) \o e) \o f)
       /\ CallsIn((((a \o b) \o c) \o e) \o f)
            = CallsIn(a) \cup CallsIn(b) \cup CallsIn(c) \cup CallsIn(e) \cup CallsIn(f)
  <2>1. \A x \in CallsIn(((a \o b) \o c) \o e), y \in CallsIn(f) : ~Clash(x, y)
    BY <1>10 DEF Clash
  <2> QED BY <1>6, <1>9, <1>13, <2>1, CallsConcat
<1>15. /\ AuthCalls(d) \in Seq(CallRecords) /\ InOrder(AuthCalls(d))
       /\ CallsIn(AuthCalls(d))
            = CallsIn(a) \cup CallsIn(b) \cup CallsIn(c) \cup CallsIn(e) \cup CallsIn(f) \cup CallsIn(g)
  <2>1. \A x \in CallsIn((((a \o b) \o c) \o e) \o f), y \in CallsIn(g) : ~Clash(x, y)
    BY <1>10 DEF Clash
  <2> QED BY <1>7, <1>8, <1>9, <1>14, <2>1, CallsConcat
<1>16. \A x \in CallsIn(AuthCalls(d)) : Belongs(d, x) /\ x.do # "cloud" /\ x.on \notin BrokerFiles \cup {"broker"}
  <2>1. CallsIn(AuthCalls(d)) \subseteq known
    BY <1>2, <1>3, <1>4, <1>5, <1>6, <1>7, <1>15
  <2>2. \A x \in known : Belongs(d, x) /\ x.do # "cloud" /\ x.on \notin BrokerFiles \cup {"broker"}
    <3> DEFINE Fits(x) == Belongs(d, x) /\ x.do # "cloud" /\ x.on \notin BrokerFiles \cup {"broker"}
    <3>1. Fits(Call("project", "infra"))
      BY DEF Call, Belongs, BrokerFiles
    <3>2. Fits(Call("instance", "auth"))
      BY DEF Call, Belongs, Touches, Appliances, BrokerFiles
    <3>3. Fits(Call("write", "binary"))
      BY DEF Call, Belongs, AuthFiles, BrokerFiles
    <3>4. Fits(Call("write", "env"))
      BY DEF Call, Belongs, AuthFiles, BrokerFiles
    <3>5. Fits(Call("write", "caddyfile"))
      BY DEF Call, Belongs, AuthFiles, BrokerFiles
    <3>6. Fits(Call("write", "token"))
      BY DEF Call, Belongs, AuthFiles, BrokerFiles
    <3>7. Fits(Call("stamp", "auth"))
      BY DEF Call, Belongs, Touches, Appliances, BrokerFiles
    <3>8. Fits(Call("start", "auth-app"))
      BY DEF Call, Belongs, Touches, HomeOf, Units, BrokerFiles
    <3>9. Fits(Call("start", "caddy"))
      BY DEF Call, Belongs, Touches, HomeOf, Units, BrokerFiles
    <3>10. Fits(Call("start", "cloudflared"))
      BY DEF Call, Belongs, Touches, HomeOf, Units, BrokerFiles
    <3> HIDE DEF Fits
    <3>11. \A x \in known : Fits(x)
      BY <3>1, <3>2, <3>3, <3>4, <3>5, <3>6, <3>7, <3>8, <3>9, <3>10
    <3> QED BY <3>11 DEF Fits
  <2> QED BY <2>1, <2>2
<1>17. ASSUME NEW u \in UnitsOf(d)
       PROVE  /\ Call("start", u) \in CallsIn(AuthCalls(d))
              /\ \A x \in FilesOf(u) : Call("write", x) \in CallsIn(AuthCalls(d))
  <2>1. CASE u = "auth-app"
    BY <2>1, <1>2, <1>5, <1>15, UnitFiles
  <2>2. CASE u = "caddy" /\ NeedsCaddy(d)
    BY <2>2, <1>3, <1>6, <1>15, UnitFiles
  <2>3. CASE u = "cloudflared" /\ d.mode = "cloudflare"
    BY <2>3, <1>4, <1>7, <1>15, UnitFiles
  <2> QED BY <2>1, <2>2, <2>3 DEF UnitsOf
<1> QED BY <1>2, <1>5, <1>15, <1>16, <1>17

\* Seven calls, of which only the last starts a unit.
LEMMA SevenCalls ==
  ASSUME NEW s \in Seq(CallRecords), Len(s) = 7, \A i \in 1 .. 6 : s[i].do # "start"
  PROVE  InOrder(s) /\ CallsIn(s) = {s[1], s[2], s[3], s[4], s[5], s[6], s[7]}
<1>1. CallsIn(s) = {s[1], s[2], s[3], s[4], s[5], s[6], s[7]}
  BY DEF CallsIn
<1>2. InOrder(s)
  BY DEF InOrder, Clash
<1> QED BY <1>1, <1>2

\* The broker's part of a command.
LEMMA BrokerCallsAre ==
  ASSUME NEW d, DeploysBroker(d)
  PROVE  /\ BrokerCalls(d) \in Seq(CallRecords) /\ InOrder(BrokerCalls(d))
         /\ \A c \in CallsIn(BrokerCalls(d)) : Belongs(d, c) /\ c.do # "cloud" /\ c.on \notin AuthFiles
         /\ Call("start", "broker") \in CallsIn(BrokerCalls(d)) /\ Call("stamp", "broker") \in CallsIn(BrokerCalls(d))
         /\ \A f \in BrokerFiles : Call("write", f) \in CallsIn(BrokerCalls(d))
<1> DEFINE known == {Call("project", "broker"), Call("instance", "broker"), Call("write", "broker binary"),
                     Call("write", "broker cert"), Call("write", "broker env"), Call("stamp", "broker"),
                     Call("start", "broker")}
<1>1. known \subseteq CallRecords
  BY CallFields DEF CallNames, CallSubjects, AuthFiles, BrokerFiles, Units, Appliances
<1>2. /\ Call("project", "broker").do # "start" /\ Call("instance", "broker").do # "start"
      /\ Call("write", "broker binary").do # "start" /\ Call("write", "broker cert").do # "start"
      /\ Call("write", "broker env").do # "start" /\ Call("stamp", "broker").do # "start"
  BY DEF Call
<1>3. BrokerCalls(d) \in Seq(CallRecords) /\ InOrder(BrokerCalls(d)) /\ CallsIn(BrokerCalls(d)) = known
  <2>2. /\ Call("project", "broker") \in CallRecords /\ Call("instance", "broker") \in CallRecords
        /\ Call("write", "broker binary") \in CallRecords /\ Call("write", "broker cert") \in CallRecords
        /\ Call("write", "broker env") \in CallRecords /\ Call("stamp", "broker") \in CallRecords
        /\ Call("start", "broker") \in CallRecords
    BY <1>1
  <2> DEFINE s == BrokerCalls(d)
  <2>3. s \in Seq(CallRecords) /\ Len(s) = 7
    <3> DEFINE a == Call("project", "broker")
               b == Call("instance", "broker")
               c == Call("write", "broker binary")
               e == Call("write", "broker cert")
               f == Call("write", "broker env")
               g == Call("stamp", "broker")
               h == Call("start", "broker")
    <3>1. s = <<a, b, c, e, f, g, h>>
      BY DEF BrokerCalls
    <3>2. /\ a \in CallRecords /\ b \in CallRecords /\ c \in CallRecords /\ e \in CallRecords
          /\ f \in CallRecords /\ g \in CallRecords /\ h \in CallRecords
      BY <2>2
    <3> HIDE DEF s, a, b, c, e, f, g, h
    <3> QED BY <3>1, <3>2
  <2>4. /\ s[1] = Call("project", "broker") /\ s[2] = Call("instance", "broker")
        /\ s[3] = Call("write", "broker binary") /\ s[4] = Call("write", "broker cert")
        /\ s[5] = Call("write", "broker env") /\ s[6] = Call("stamp", "broker") /\ s[7] = Call("start", "broker")
    BY DEF BrokerCalls
  <2> HIDE DEF s
  <2>5. \A i \in 1 .. 6 : s[i].do # "start"
    <3>1. /\ s[1].do # "start" /\ s[2].do # "start" /\ s[3].do # "start"
          /\ s[4].do # "start" /\ s[5].do # "start" /\ s[6].do # "start"
      BY <1>2, <2>4
    <3> QED BY <3>1
  <2>6. InOrder(s) /\ CallsIn(s) = {s[1], s[2], s[3], s[4], s[5], s[6], s[7]}
    BY <2>3, <2>5, SevenCalls
  <2> QED BY <2>3, <2>4, <2>6 DEF s
<1>4. \A x \in known : Belongs(d, x) /\ x.do # "cloud" /\ x.on \notin AuthFiles
  <2> DEFINE Fits(x) == Belongs(d, x) /\ x.do # "cloud" /\ x.on \notin AuthFiles
  <2>1. Fits(Call("project", "broker"))
    BY DEF Call, Belongs, AuthFiles
  <2>2. Fits(Call("instance", "broker"))
    BY DEF Call, Belongs, Touches, Appliances, AuthFiles
  <2>3. Fits(Call("write", "broker binary"))
    BY DEF Call, Belongs, AuthFiles, BrokerFiles
  <2>4. Fits(Call("write", "broker cert"))
    BY DEF Call, Belongs, AuthFiles, BrokerFiles
  <2>5. Fits(Call("write", "broker env"))
    BY DEF Call, Belongs, AuthFiles, BrokerFiles
  <2>6. Fits(Call("stamp", "broker"))
    BY DEF Call, Belongs, Touches, Appliances, AuthFiles
  <2>7. Fits(Call("start", "broker"))
    BY DEF Call, Belongs, Touches, HomeOf, Units, AuthFiles
  <2> HIDE DEF Fits
  <2>8. \A x \in known : Fits(x)
    BY <2>1, <2>2, <2>3, <2>4, <2>5, <2>6, <2>7
  <2> QED BY <2>8 DEF Fits
<1> QED BY <1>3, <1>4 DEF BrokerFiles

\* A part of a command that is made under a condition.
LEMMA WhenCalls ==
  ASSUME NEW p \in BOOLEAN, NEW s, p => s \in Seq(CallRecords) /\ InOrder(s)
  PROVE  /\ When(p, s) \in Seq(CallRecords) /\ InOrder(When(p, s))
         /\ CallsIn(When(p, s)) = IF p THEN CallsIn(s) ELSE {}
<1>1. <<>> \in Seq(CallRecords) /\ InOrder(<<>>) /\ CallsIn(<<>>) = {}
  BY NoCalls, OneKind
<1> QED BY <1>1 DEF When

\* A command that begins has everything left to do, in an order that gives
\* every unit its files before it is started.
LEMMA CommandCalls ==
  ASSUME NEW d
  PROVE  /\ CallsOf(d) \in Seq(CallRecords) /\ InOrder(CallsOf(d))
         /\ \A c \in CallsIn(CallsOf(d)) : Belongs(d, c)
         /\ DeploysAuth(d) => AuthDone(d, CallsIn(CallsOf(d)))
         /\ DeploysBroker(d) => BrokerDone(d, CallsIn(CallsOf(d)))
<1> DEFINE tunneled == d.cmd = "install" /\ d.mode = "cloudflare"
           t == When(tunneled, TunnelCalls)
           b == When(d.cmd = "install", <<Call("bridge", "bridge")>>)
           x == When(DeploysAuth(d), AuthCalls(d))
           y == When(DeploysBroker(d), BrokerCalls(d))
<1>1. /\ t \in Seq(CallRecords) /\ InOrder(t)
      /\ CallsIn(t) = IF tunneled THEN {Call("cloud", "tunnel"), Call("cloud", "ingress"), Call("cloud", "dns")} ELSE {}
  <2>1. /\ Call("cloud", "tunnel") \in CallRecords /\ Call("cloud", "ingress") \in CallRecords
        /\ Call("cloud", "dns") \in CallRecords
    BY CallFields DEF CallNames, CallSubjects
  <2>2. /\ TunnelCalls \in Seq(CallRecords)
        /\ CallsIn(TunnelCalls) = {Call("cloud", "tunnel"), Call("cloud", "ingress"), Call("cloud", "dns")}
    BY <2>1, ThreeCalls DEF TunnelCalls
  <2>3. \A c, e \in CallsIn(TunnelCalls) : ~Clash(c, e)
    BY <2>2, CallFields DEF Clash
  <2> QED BY <2>2, <2>3, OneKind, WhenCalls
<1>2. /\ b \in Seq(CallRecords) /\ InOrder(b) /\ CallsIn(b) \subseteq {Call("bridge", "bridge")}
  <2>1. Call("bridge", "bridge") \in CallRecords
    BY CallFields DEF CallNames, CallSubjects
  <2>2. <<Call("bridge", "bridge")>> \in Seq(CallRecords) /\ CallsIn(<<Call("bridge", "bridge")>>) = {Call("bridge", "bridge")}
    BY <2>1, OneCall
  <2>3. \A c, e \in {Call("bridge", "bridge")} : ~Clash(c, e)
    BY CallFields DEF Clash
  <2>4. InOrder(<<Call("bridge", "bridge")>>)
    BY <2>2, <2>3, OneKind
  <2> QED BY <2>2, <2>4, WhenCalls
<1>3. x \in Seq(CallRecords) /\ InOrder(x) /\ CallsIn(x) = IF DeploysAuth(d) THEN CallsIn(AuthCalls(d)) ELSE {}
  BY AuthCallsAre, WhenCalls DEF DeploysAuth
<1>4. y \in Seq(CallRecords) /\ InOrder(y) /\ CallsIn(y) = IF DeploysBroker(d) THEN CallsIn(BrokerCalls(d)) ELSE {}
  BY BrokerCallsAre, WhenCalls DEF DeploysBroker
<1>5. CallsOf(d) = ((t \o b) \o x) \o y
  BY DEF CallsOf
<1> HIDE DEF t, b, x, y
<1>6. \A c \in CallsIn(t) \cup CallsIn(b) : c.do \in {"cloud", "bridge"} /\ Belongs(d, c)
  <2>1. /\ Call("cloud", "tunnel").do = "cloud" /\ Call("cloud", "ingress").do = "cloud"
        /\ Call("cloud", "dns").do = "cloud" /\ Call("bridge", "bridge").do = "bridge"
    BY DEF Call
  <2>2. /\ Belongs(d, Call("cloud", "tunnel")) /\ Belongs(d, Call("cloud", "ingress"))
        /\ Belongs(d, Call("cloud", "dns")) /\ Belongs(d, Call("bridge", "bridge"))
    BY DEF Belongs, Call
  <2> QED BY <1>1, <1>2, <2>1, <2>2
<1>7. t \o b \in Seq(CallRecords) /\ InOrder(t \o b) /\ CallsIn(t \o b) = CallsIn(t) \cup CallsIn(b)
  <2>1. \A c \in CallsIn(t), e \in CallsIn(b) : ~Clash(c, e)
    BY <1>6 DEF Clash
  <2> QED BY <1>1, <1>2, <2>1, CallsConcat
<1>8. /\ (t \o b) \o x \in Seq(CallRecords) /\ InOrder((t \o b) \o x)
      /\ CallsIn((t \o b) \o x) = CallsIn(t) \cup CallsIn(b) \cup CallsIn(x)
  <2>1. \A c \in CallsIn(t \o b), e \in CallsIn(x) : ~Clash(c, e)
    BY <1>6, <1>7 DEF Clash
  <2> QED BY <1>3, <1>7, <2>1, CallsConcat
<1>9. \A c \in CallsIn(x) : Belongs(d, c) /\ c.on # "broker"
  BY <1>3, AuthCallsAre
<1>10. \A c \in CallsIn(y) : Belongs(d, c) /\ c.on \notin AuthFiles
  BY <1>4, BrokerCallsAre
<1>11. /\ CallsOf(d) \in Seq(CallRecords) /\ InOrder(CallsOf(d))
       /\ CallsIn(CallsOf(d)) = CallsIn(t) \cup CallsIn(b) \cup CallsIn(x) \cup CallsIn(y)
  <2>1. ASSUME NEW c \in CallsIn((t \o b) \o x), NEW e \in CallsIn(y) PROVE ~Clash(c, e)
    <3>1. c.do = "start" => c.on \in {"auth-app", "caddy", "cloudflared"}
      BY <1>6, <1>8, <1>9 DEF Belongs, Units
    <3>2. c.do = "start" => FilesOf(c.on) \subseteq AuthFiles
      BY <3>1, UnitFiles DEF AuthFiles
    <3> QED BY <1>10, <3>2 DEF Clash
  <2> DEFINE s == (t \o b) \o x
  <2>2. s \in Seq(CallRecords) /\ InOrder(s) /\ \A c \in CallsIn(s), e \in CallsIn(y) : ~Clash(c, e)
    BY <1>8, <2>1
  <2>3. CallsOf(d) = s \o y /\ CallsIn(s) = CallsIn(t) \cup CallsIn(b) \cup CallsIn(x)
    BY <1>5, <1>8
  <2>4. y \in Seq(CallRecords) /\ InOrder(y)
    BY <1>4
  <2> HIDE DEF s
  <2> QED BY <2>2, <2>3, <2>4, CallsConcat
<1>12. \A c \in CallsIn(CallsOf(d)) : Belongs(d, c)
  BY <1>6, <1>9, <1>10, <1>11
<1>13. ASSUME DeploysAuth(d) PROVE AuthDone(d, CallsIn(CallsOf(d)))
  <2>1. CallsIn(AuthCalls(d)) \subseteq CallsIn(CallsOf(d))
    BY <1>3, <1>11, <1>13
  <2>2. \A u \in UnitsOf(d) : UnitDone(u, d, CallsIn(CallsOf(d)))
    BY <1>13, <2>1, AuthCallsAre DEF UnitDone
  <2>3. tunneled => \A z \in {"tunnel", "ingress", "dns"} : Call("cloud", z) \in CallsIn(CallsOf(d))
    BY <1>1, <1>11
  <2> QED BY <1>13, <2>1, <2>2, <2>3, AuthCallsAre DEF AuthDone
<1>14. ASSUME DeploysBroker(d) PROVE BrokerDone(d, CallsIn(CallsOf(d)))
  <2>1. CallsIn(BrokerCalls(d)) \subseteq CallsIn(CallsOf(d))
    BY <1>4, <1>11, <1>14
  <2>2. \A f \in FilesOf("broker") : Call("write", f) \in CallsIn(BrokerCalls(d))
    BY <1>14, BrokerCallsAre, UnitFiles
  <2>3. /\ Call("start", "broker") \in CallsIn(BrokerCalls(d))
        /\ Call("stamp", "broker") \in CallsIn(BrokerCalls(d))
    BY <1>14, BrokerCallsAre
  <2>4. UnitDone("broker", d, CallsIn(CallsOf(d)))
    BY <2>1, <2>2, <2>3 DEF UnitDone
  <2> QED BY <2>1, <2>3, <2>4 DEF BrokerDone
<1> QED BY <1>11, <1>12, <1>13, <1>14

\* A host without an install.
LEMMA DeployInitInv == DeployInit => DeployInv
  BY DEF DeployInit, DeployInv, DeployShapes, DeployTypeOK, JobGoes, ReportsKept, Appliances

\* The units of the Auth App's appliance are not the broker's.
LEMMA AuthUnits ==
  ASSUME NEW d, NEW u \in UnitsOf(d)
  PROVE  u \in Units /\ u # "broker" /\ FilesOf(u) \subseteq AuthFiles
<1>1. u \in {"auth-app", "caddy", "cloudflared"}
  BY DEF UnitsOf
<1> QED BY <1>1, UnitFiles DEF AuthFiles, Units

\* A unit keeps what it has while its files and its process are left alone and
\* neither is what the call was about.
LEMMA UnitKeeps ==
  ASSUME NEW u, NEW d, NEW left, NEW h,
         UnitDone(u, d, left \cup {h}),
         \A f \in FilesOf(u) : h # Call("write", f) /\ applianceDisk'[f] = applianceDisk[f],
         h # Call("start", u), unitRuns'[u] = unitRuns[u], enabled \subseteq enabled'
  PROVE  UnitDone(u, d, left)'
  BY DEF UnitDone, AllFrom

\* The call that is made, and what is left then.
LEMMA CallMade ==
  ASSUME DeployInv, deployJob # NoneYet, deployJob.calls # <<>>, DeployGoesOn
  PROVE  LET h == Head(deployJob.calls)
             left == CallsIn(Tail(deployJob.calls))
         IN  /\ deployJob.req \in Deploys /\ h \in CallRecords /\ h = Call(h.do, h.on)
             /\ Belongs(deployJob.req, h) /\ \A e \in left : ~Clash(h, e)
             /\ CallsIn(deployJob.calls) = left \cup {h}
             /\ deployJob' = [req |-> deployJob.req, calls |-> Tail(deployJob.calls)]
             /\ Tail(deployJob.calls) \in Seq(CallRecords) /\ InOrder(Tail(deployJob.calls))
             /\ \A c \in left : Belongs(deployJob.req, c)
             /\ UNCHANGED reported
<1>1. /\ deployJob \in [req : Deploys, calls : Seq(CallRecords)] /\ InOrder(deployJob.calls)
      /\ \A c \in CallsIn(deployJob.calls) : Belongs(deployJob.req, c)
  BY DEF DeployInv, JobGoes
<1>2. /\ Tail(deployJob.calls) \in Seq(CallRecords) /\ InOrder(Tail(deployJob.calls))
      /\ Head(deployJob.calls) \in CallRecords
      /\ CallsIn(deployJob.calls) = CallsIn(Tail(deployJob.calls)) \cup {Head(deployJob.calls)}
      /\ \A e \in CallsIn(Tail(deployJob.calls)) : ~Clash(Head(deployJob.calls), e)
  BY <1>1, CallsTail
<1>3. \A h \in CallRecords : h = Call(h.do, h.on)
  BY DEF CallRecords, Call
<1>4. deployJob' = [req |-> deployJob.req, calls |-> Tail(deployJob.calls)] /\ UNCHANGED reported
  BY <1>1 DEF DeployGoesOn
<1> QED BY <1>1, <1>2, <1>3, <1>4

\* It is enough to look at the command under way and at what was reported of
\* the appliances that it leaves alone.
LEMMA DeployKeeps ==
  ASSUME DeployInv, deployJob # NoneYet, deployJob.calls # <<>>, DeployGoesOn, DeployShapes',
         NEW d, d = deployJob.req, NEW left, left = CallsIn(Tail(deployJob.calls)),
         DeploysAuth(d) => AuthDone(d, left)',
         DeploysBroker(d) => BrokerDone(d, left)',
         \A r \in Deploys : ~DeploysAuth(d) /\ AuthDone(r, {}) => AuthDone(r, {})',
         \A r \in Deploys : ~DeploysBroker(d) /\ BrokerDone(r, {}) => BrokerDone(r, {})'
  PROVE  DeployInv'
<1>1. /\ deployJob.req \in Deploys /\ UNCHANGED reported
      /\ deployJob' = [req |-> deployJob.req, calls |-> Tail(deployJob.calls)]
      /\ Tail(deployJob.calls) \in Seq(CallRecords) /\ InOrder(Tail(deployJob.calls))
      /\ \A c \in left : Belongs(deployJob.req, c)
  BY CallMade
<1>2. /\ deployJob'.req = d /\ CallsIn(deployJob'.calls) = left
      /\ deployJob' \in [req : Deploys, calls : Seq(CallRecords)]
      /\ InOrder(deployJob'.calls)
  BY <1>1
<1>3. /\ DeploysAuth(d) => reported["auth"] = NoneYet
      /\ DeploysBroker(d) => reported["broker"] = NoneYet
  BY DEF DeployInv, JobGoes
<1>4. reported \in [Appliances -> Deploys \cup {NoneYet}]
  BY DEF DeployInv, DeployShapes, DeployTypeOK
<1>5. JobGoes'
  <2>1. CallsIn(deployJob'.calls) = left
    BY <1>2
  <2> QED BY <1>1, <1>2, <1>3, <2>1 DEF JobGoes, CallsIn
<1>6. ReportsKept'
  BY <1>1, <1>3, <1>4 DEF DeployInv, ReportsKept, Appliances
<1> QED BY <1>5, <1>6 DEF DeployInv

\* What a command does that writes no file and starts no unit: the files, the
\* processes and what is enabled stay.
LEMMA UnitsUntouched ==
  ASSUME NEW h \in CallRecords, h.do \notin {"write", "start"}, NEW left, NEW d, NEW u,
         UNCHANGED <<applianceDisk, unitRuns, enabled>>, UnitDone(u, d, left \cup {h})
  PROVE  UnitDone(u, d, left)'
<1>1. \A f : h # Call("write", f) /\ h # Call("start", f)
  BY DEF Call
<1> QED BY <1>1, UnitKeeps

LEMMA AuthUntouched ==
  ASSUME NEW h \in CallRecords, h.do \notin {"write", "start"}, NEW left, NEW d,
         UNCHANGED <<applianceDisk, unitRuns, enabled>>, AuthDone(d, left \cup {h}),
         (h # Call("instance", "auth") /\ ports'["auth"] = ports["auth"]) \/ ports'["auth"] = WebPorts(d),
         (h # Call("stamp", "auth") /\ stamped'["auth"] = stamped["auth"]) \/ stamped'["auth"] = d.ver,
         cloudTunnel \subseteq cloudTunnel', \A x : h = Call("cloud", x) => x \in cloudTunnel'
  PROVE  AuthDone(d, left)'
<1>1. \A u \in UnitsOf(d) : UnitDone(u, d, left)'
  BY UnitsUntouched DEF AuthDone
<1>2. (Call("instance", "auth") \in left \/ ports["auth"] = WebPorts(d))'
  BY DEF AuthDone
<1>3. (Call("stamp", "auth") \in left \/ stamped["auth"] = d.ver)'
  BY DEF AuthDone
<1>4. (d.cmd = "install" /\ d.mode = "cloudflare" =>
         \A x \in {"tunnel", "ingress", "dns"} : Call("cloud", x) \in left \/ x \in cloudTunnel)'
  BY DEF AuthDone
<1> QED BY <1>1, <1>2, <1>3, <1>4 DEF AuthDone

LEMMA BrokerUntouched ==
  ASSUME NEW h \in CallRecords, h.do \notin {"write", "start"}, NEW left, NEW d,
         UNCHANGED <<applianceDisk, unitRuns, enabled>>, BrokerDone(d, left \cup {h}),
         (h # Call("stamp", "broker") /\ stamped'["broker"] = stamped["broker"]) \/ stamped'["broker"] = d.ver
  PROVE  BrokerDone(d, left)'
<1>1. UnitDone("broker", d, left)'
  BY UnitsUntouched DEF BrokerDone
<1>2. (Call("stamp", "broker") \in left \/ stamped["broker"] = d.ver)'
  BY DEF BrokerDone
<1> QED BY <1>1, <1>2 DEF BrokerDone

\* What is done stays done when more is left to do.
LEMMA DoneGrows ==
  ASSUME NEW d, NEW left, NEW more
  PROVE  /\ AuthDone(d, left) => AuthDone(d, left \cup more)
         /\ BrokerDone(d, left) => BrokerDone(d, left \cup more)
  BY DEF AuthDone, BrokerDone, UnitDone

\* Something is written down of one appliance.
LEMMA ApplianceSet ==
  ASSUME NEW f, f = [a \in Appliances |-> f[a]], NEW x \in Appliances, NEW v
  PROVE  LET g == [f EXCEPT ![x] = v] IN
           /\ g = [a \in Appliances |-> g[a]] /\ g[x] = v
           /\ \A a \in Appliances : a # x => g[a] = f[a]
           /\ "auth" \in Appliances /\ "broker" \in Appliances
<1>1. "auth" \in Appliances /\ "broker" \in Appliances
  BY DEF Appliances
<1> DEFINE g == [f EXCEPT ![x] = v]
<1>2. g = [a \in Appliances |-> IF a = x THEN v ELSE f[a]]
  OBVIOUS
<1> HIDE DEF g
<1>3. g = [a \in Appliances |-> g[a]] /\ g[x] = v /\ \A a \in Appliances : a # x => g[a] = f[a]
  BY <1>2
<1> QED BY <1>1, <1>3 DEF g

\* Projects, the bridge, instances, stamps and the tunnel at Cloudflare.
LEMMA ObjectsKeep ==
  ASSUME DeployInv,
         EnsureObject \/ EnsureAuthInstance \/ EnsureBrokerInstance \/ StampVersion \/ SetUpTunnel
  PROVE  DeployInv'
<1>0. deployJob # NoneYet /\ deployJob.calls # <<>> /\ DeployGoesOn
  BY DEF EnsureObject, EnsureAuthInstance, EnsureBrokerInstance, StampVersion, SetUpTunnel, DoesNow
<1>1. PICK d, left, h : d = deployJob.req /\ left = CallsIn(Tail(deployJob.calls)) /\ h = Head(deployJob.calls)
  OBVIOUS
<1>2. /\ d \in Deploys /\ h \in CallRecords /\ h = Call(h.do, h.on) /\ Belongs(d, h) /\ Subject = h.on
      /\ CallsIn(deployJob.calls) = left \cup {h}
  BY <1>0, <1>1, CallMade DEF Subject
<1>3. /\ DeploysAuth(d) => AuthDone(d, left \cup {h})
      /\ DeploysBroker(d) => BrokerDone(d, left \cup {h})
  BY <1>0, <1>1, <1>2 DEF DeployInv, JobGoes
<1>4. /\ \A r \in Deploys : AuthDone(r, {}) => AuthDone(r, {} \cup {h})
      /\ \A r \in Deploys : BrokerDone(r, {}) => BrokerDone(r, {} \cup {h})
  BY DoneGrows
<1>5. \A x, y : Call(x, y).do = x /\ Call(x, y).on = y
  BY CallFields
<1>6. UNCHANGED <<applianceDisk, unitRuns, enabled>>
  BY DEF EnsureObject, EnsureAuthInstance, EnsureBrokerInstance, StampVersion, SetUpTunnel
<1>7. /\ h.do \in {"project", "bridge", "instance", "stamp", "cloud"}
      /\ h.do \notin {"write", "start"}
  BY <1>1 DEF EnsureObject, EnsureAuthInstance, EnsureBrokerInstance, StampVersion, SetUpTunnel, DoesNow
<1>8. /\ ports = [a \in Appliances |-> ports[a]] /\ stamped = [a \in Appliances |-> stamped[a]] /\ DeployTypeOK
      /\ unitRuns = [u \in Units |-> unitRuns[u]] /\ "auth" \in Appliances /\ "broker" \in Appliances
  BY DEF DeployInv, DeployShapes, Appliances
<1>9. /\ ports' = [a \in Appliances |-> ports'[a]] /\ stamped' = [a \in Appliances |-> stamped'[a]]
      /\ ports'["auth"] = IF h = Call("instance", "auth") THEN WebPorts(d) ELSE ports["auth"]
      /\ stamped'["auth"] = IF h = Call("stamp", "auth") THEN d.ver ELSE stamped["auth"]
      /\ stamped'["broker"] = IF h = Call("stamp", "broker") THEN d.ver ELSE stamped["broker"]
  <2>1. CASE EnsureAuthInstance
    <3>1. h.do = "instance" /\ h.on = "auth" /\ ports' = [ports EXCEPT !["auth"] = WebPorts(d)] /\ stamped' = stamped
      BY <2>1, <1>1 DEF EnsureAuthInstance, DoesNow, Subject
    <3>2. h = Call("instance", "auth") /\ h # Call("stamp", "auth") /\ h # Call("stamp", "broker")
      BY <3>1, <1>2, <1>5
    <3> DEFINE v == WebPorts(d)
    <3>3. ports' = [ports EXCEPT !["auth"] = v]
      BY <3>1
    <3> HIDE DEF v
    <3>4. ports' = [a \in Appliances |-> ports'[a]] /\ ports'["auth"] = v
      BY <3>3, <1>8, ApplianceSet
    <3> QED BY <3>1, <3>2, <3>4, <1>8 DEF v
  <2>2. CASE EnsureBrokerInstance
    <3>1. h.do = "instance" /\ h.on = "broker" /\ stamped' = stamped
      BY <2>2, <1>1 DEF EnsureBrokerInstance, DoesNow, Subject
    <3> DEFINE v == IF ports["broker"] = NoneYet THEN {deployJob.req.port} ELSE ports["broker"]
    <3>3. ports' = [ports EXCEPT !["broker"] = v]
      BY <2>2 DEF EnsureBrokerInstance
    <3> HIDE DEF v
    <3>4. /\ ports' = [a \in Appliances |-> ports'[a]] /\ ports'["auth"] = ports["auth"]
      BY <3>3, <1>8, ApplianceSet
    <3>2. h # Call("instance", "auth") /\ h # Call("stamp", "auth") /\ h # Call("stamp", "broker")
      BY <3>1, <1>5
    <3> QED BY <3>1, <3>2, <3>4, <1>8
  <2>3. CASE StampVersion
    <3>1. h.do = "stamp" /\ stamped' = [stamped EXCEPT ![h.on] = d.ver] /\ ports' = ports
      BY <2>3, <1>1, <1>2 DEF StampVersion, DoesNow
    <3>2. h.on \in Appliances /\ h # Call("instance", "auth")
      BY <1>2, <1>5, <3>1 DEF Belongs
    <3>3. CASE h.on = "auth"
      <4>1. h = Call("stamp", "auth") /\ h # Call("stamp", "broker")
        BY <3>1, <3>3, <1>2, <1>5
      <4> QED BY <3>1, <3>2, <3>3, <4>1, <1>8, ApplianceSet
    <3>4. CASE h.on = "broker"
      <4>1. h = Call("stamp", "broker") /\ h # Call("stamp", "auth")
        BY <3>1, <3>4, <1>2, <1>5
      <4> QED BY <3>1, <3>2, <3>4, <4>1, <1>8, ApplianceSet
    <3> QED BY <3>2, <3>3, <3>4 DEF Appliances
  <2>4. CASE EnsureObject \/ SetUpTunnel
    BY <2>4, <1>1, <1>5, <1>8 DEF EnsureObject, SetUpTunnel, DoesNow
  <2> QED BY <2>1, <2>2, <2>3, <2>4
<1>10. cloudTunnel \subseteq cloudTunnel' /\ \A x : h = Call("cloud", x) => x \in cloudTunnel'
  <2>1. CASE SetUpTunnel
    BY <2>1, <1>2, <1>5 DEF SetUpTunnel
  <2>2. CASE ~SetUpTunnel
    <3>1. h.do # "cloud" /\ cloudTunnel' = cloudTunnel
      BY <2>2, <1>1 DEF EnsureObject, EnsureAuthInstance, EnsureBrokerInstance, StampVersion, DoesNow
    <3> QED BY <3>1, <1>5
  <2> QED BY <2>1, <2>2
<1>11. DeployShapes'
  <2>1. hostObjects' \subseteq {"infra", "broker", "bridge"} /\ cloudTunnel' \subseteq {"tunnel", "ingress", "dns"}
    <3>1. CASE EnsureObject
      BY <3>1, <1>1, <1>2, <1>8 DEF EnsureObject, DoesNow, Belongs, DeployTypeOK
    <3>2. CASE SetUpTunnel
      BY <3>2, <1>1, <1>2, <1>8 DEF SetUpTunnel, DoesNow, Belongs, DeployTypeOK
    <3>3. CASE EnsureAuthInstance \/ EnsureBrokerInstance \/ StampVersion
      BY <3>3, <1>8 DEF EnsureAuthInstance, EnsureBrokerInstance, StampVersion, DeployTypeOK
    <3> QED BY <3>1, <3>2, <3>3
  <2>2. UNCHANGED reported
    BY <1>0 DEF DeployGoesOn
  <2> QED BY <1>6, <1>8, <1>9, <2>1, <2>2 DEF DeployShapes, DeployTypeOK
<1>12. DeploysAuth(d) => AuthDone(d, left)'
  BY <1>2, <1>3, <1>6, <1>7, <1>9, <1>10, AuthUntouched
<1>13. DeploysBroker(d) => BrokerDone(d, left)'
  BY <1>2, <1>3, <1>6, <1>7, <1>9, BrokerUntouched
<1>14. ASSUME NEW r \in Deploys, ~DeploysAuth(d), AuthDone(r, {}) PROVE AuthDone(r, {})'
  <2>1. h # Call("instance", "auth") /\ h # Call("stamp", "auth")
    BY <1>2, <1>5, <1>14 DEF Belongs, Touches
  <2> QED BY <2>1, <1>2, <1>4, <1>6, <1>7, <1>9, <1>10, <1>14, AuthUntouched
<1>15. ASSUME NEW r \in Deploys, ~DeploysBroker(d), BrokerDone(r, {}) PROVE BrokerDone(r, {})'
  <2>1. h # Call("stamp", "broker")
    BY <1>2, <1>5, <1>15 DEF Belongs, Touches
  <2> QED BY <2>1, <1>2, <1>4, <1>6, <1>7, <1>9, <1>15, BrokerUntouched
<1> QED BY <1>0, <1>1, <1>11, <1>12, <1>13, <1>14, <1>15, DeployKeeps

\* A file is written: only the command under way had it left to do, and none of
\* the units it is for was reported.
LEMMA FileWritten ==
  ASSUME DeployInv, WriteApplianceFile
  PROVE  DeployInv'
<1>0. deployJob # NoneYet /\ deployJob.calls # <<>> /\ DeployGoesOn
  BY DEF WriteApplianceFile, DoesNow
<1>1. PICK d, left, h : d = deployJob.req /\ left = CallsIn(Tail(deployJob.calls)) /\ h = Head(deployJob.calls)
  OBVIOUS
<1>2. /\ d \in Deploys /\ h \in CallRecords /\ h = Call(h.do, h.on) /\ Belongs(d, h)
      /\ CallsIn(deployJob.calls) = left \cup {h} /\ h.do = "write"
  BY <1>0, <1>1, CallMade DEF WriteApplianceFile, DoesNow
<1>3. /\ DeploysAuth(d) => AuthDone(d, left \cup {h})
      /\ DeploysBroker(d) => BrokerDone(d, left \cup {h})
  BY <1>0, <1>1, <1>2 DEF DeployInv, JobGoes
<1>4. /\ h.on \in AuthFiles => DeploysAuth(d)
      /\ h.on \in BrokerFiles => DeploysBroker(d)
      /\ h.on \in FileNames
      /\ AuthFiles \cap BrokerFiles = {}
  BY <1>2, UnitFiles DEF Belongs, AuthFiles, BrokerFiles
<1>5. \A x, y : Call(x, y).do = x /\ Call(x, y).on = y
  BY CallFields
<1>6. UNCHANGED <<hostObjects, ports, unitRuns, enabled, stamped, cloudTunnel>>
  BY DEF WriteApplianceFile
<1>7. /\ applianceDisk' \in [FileNames -> Deploys \cup {NoneYet}]
      /\ applianceDisk'[h.on] = d
      /\ \A f \in FileNames : f # h.on => applianceDisk'[f] = applianceDisk[f]
  <2>1. applianceDisk \in [FileNames -> Deploys \cup {NoneYet}]
    BY DEF DeployInv, DeployShapes, DeployTypeOK
  <2>2. applianceDisk' = [applianceDisk EXCEPT ![h.on] = d]
    BY <1>1 DEF WriteApplianceFile, Subject
  <2> QED BY <1>2, <1>4, <2>1, <2>2
<1>8. DeployShapes'
  BY <1>0, <1>6, <1>7 DEF DeployGoesOn, DeployInv, DeployShapes, DeployTypeOK
<1>9. \A u, x : h # Call("start", u) /\ h # Call("stamp", u) /\ h # Call("instance", u) /\ h # Call("cloud", u)
  BY <1>2, <1>5
<1>10. ASSUME NEW u, FilesOf(u) \subseteq FileNames, UnitDone(u, d, left \cup {h})
       PROVE  UnitDone(u, d, left)'
  <2>1. ASSUME NEW f \in FilesOf(u) PROVE Call("write", f) \in left \/ applianceDisk'[f] = d
    <3>1. CASE f = h.on
      BY <3>1, <1>7
    <3>2. CASE f # h.on
      <4>1. h # Call("write", f)
        BY <3>2, <1>5
      <4> QED BY <3>2, <4>1, <1>7, <1>10 DEF UnitDone
    <3> QED BY <3>1, <3>2
  <2>2. Call("start", u) \in left \/ (AllFrom(u, d) /\ u \in enabled)
    BY <1>9, <1>10 DEF UnitDone
  <2> QED BY <2>1, <2>2, <1>6 DEF UnitDone, AllFrom
<1>11. ASSUME NEW r, NEW u, FilesOf(u) \subseteq FileNames, h.on \notin FilesOf(u), UnitDone(u, r, {})
       PROVE  UnitDone(u, r, {})'
  BY <1>6, <1>7, <1>11 DEF UnitDone, AllFrom
<1>12. /\ FilesOf("broker") \subseteq FileNames /\ FilesOf("broker") = BrokerFiles
       /\ \A r : \A u \in UnitsOf(r) : FilesOf(u) \subseteq FileNames /\ FilesOf(u) \subseteq AuthFiles
  BY AuthUnits, UnitFiles
<1>13. DeploysAuth(d) => AuthDone(d, left)'
  <2> SUFFICES ASSUME DeploysAuth(d) PROVE AuthDone(d, left)'
    OBVIOUS
  <2>1. \A u \in UnitsOf(d) : UnitDone(u, d, left)'
    BY <1>3, <1>10, <1>12 DEF AuthDone
  <2>2. /\ (Call("instance", "auth") \in left \/ ports["auth"] = WebPorts(d))'
        /\ (Call("stamp", "auth") \in left \/ stamped["auth"] = d.ver)'
        /\ (d.cmd = "install" /\ d.mode = "cloudflare" =>
             \A x \in {"tunnel", "ingress", "dns"} : Call("cloud", x) \in left \/ x \in cloudTunnel)'
    BY <1>3, <1>6, <1>9 DEF AuthDone
  <2> QED BY <2>1, <2>2 DEF AuthDone
<1>14. DeploysBroker(d) => BrokerDone(d, left)'
  BY <1>3, <1>6, <1>9, <1>10, <1>12 DEF BrokerDone
<1>15. ASSUME NEW r \in Deploys, ~DeploysAuth(d), AuthDone(r, {}) PROVE AuthDone(r, {})'
  <2>1. \A u \in UnitsOf(r) : UnitDone(u, r, {})'
    BY <1>4, <1>11, <1>12, <1>15 DEF AuthDone
  <2> QED BY <2>1, <1>6, <1>15 DEF AuthDone
<1>16. ASSUME NEW r \in Deploys, ~DeploysBroker(d), BrokerDone(r, {}) PROVE BrokerDone(r, {})'
  <2>1. UnitDone("broker", r, {})'
    BY <1>4, <1>11, <1>12, <1>16 DEF BrokerDone
  <2> QED BY <2>1, <1>6, <1>16 DEF BrokerDone
<1> QED BY <1>0, <1>1, <1>8, <1>13, <1>14, <1>15, <1>16, DeployKeeps

\* A unit is started: its files were written before, all of them by this command.
LEMMA UnitStarted ==
  ASSUME DeployInv, StartUnit
  PROVE  DeployInv'
<1>0. deployJob # NoneYet /\ deployJob.calls # <<>> /\ DeployGoesOn
  BY DEF StartUnit, DoesNow
<1>1. PICK d, left, h : d = deployJob.req /\ left = CallsIn(Tail(deployJob.calls)) /\ h = Head(deployJob.calls)
  OBVIOUS
<1>2. /\ d \in Deploys /\ h \in CallRecords /\ h = Call(h.do, h.on) /\ Belongs(d, h) /\ h.do = "start"
      /\ CallsIn(deployJob.calls) = left \cup {h} /\ \A e \in left : ~Clash(h, e)
  BY <1>0, <1>1, CallMade DEF StartUnit, DoesNow
<1>3. /\ DeploysAuth(d) => AuthDone(d, left \cup {h})
      /\ DeploysBroker(d) => BrokerDone(d, left \cup {h})
  BY <1>0, <1>1, <1>2 DEF DeployInv, JobGoes
<1>4. /\ h.on \in Units
      /\ h.on = "broker" => DeploysBroker(d)
      /\ h.on # "broker" => DeploysAuth(d)
  BY <1>2 DEF Belongs, Touches, HomeOf
<1>5. \A x, y : Call(x, y).do = x /\ Call(x, y).on = y
  BY CallFields
<1>6. /\ UNCHANGED <<hostObjects, ports, applianceDisk, stamped, cloudTunnel>>
      /\ enabled' = enabled \cup {h.on}
  BY <1>1 DEF StartUnit, Subject
<1>7. /\ unitRuns' = [u \in Units |-> unitRuns'[u]]
      /\ unitRuns'[h.on] = StartedWith(h.on)
      /\ \A u \in Units : u # h.on => unitRuns'[u] = unitRuns[u]
  <2>1. unitRuns = [u \in Units |-> unitRuns[u]]
    BY DEF DeployInv, DeployShapes
  <2> DEFINE v == StartedWith(h.on)
  <2>2. unitRuns' = [unitRuns EXCEPT ![h.on] = v]
    BY <1>1 DEF StartUnit, Subject
  <2> HIDE DEF v
  <2>3. unitRuns' = [u \in Units |-> IF u = h.on THEN v ELSE unitRuns[u]]
    BY <2>1, <2>2
  <2> QED BY <2>3, <1>4 DEF v
<1>8. DeployShapes'
  BY <1>0, <1>4, <1>6, <1>7 DEF DeployGoesOn, DeployInv, DeployShapes, DeployTypeOK
<1>9. \A u : h # Call("write", u) /\ h # Call("stamp", u) /\ h # Call("instance", u) /\ h # Call("cloud", u)
  BY <1>2, <1>5
<1>10. ASSUME NEW u \in Units, UnitDone(u, d, left \cup {h})
       PROVE  UnitDone(u, d, left)'
  <2>1. \A f \in FilesOf(u) : Call("write", f) \in left \/ applianceDisk[f] = d
    BY <1>9, <1>10 DEF UnitDone
  <2>2. CASE u = h.on
    <3>1. \A f \in FilesOf(u) : applianceDisk[f] = d
      BY <2>1, <2>2, <1>2, <1>5 DEF Clash
    <3>2. StartedWith(u) = [f \in FilesOf(u) |-> d]
      BY <3>1 DEF StartedWith
    <3> QED BY <2>1, <2>2, <3>2, <1>6, <1>7 DEF UnitDone, AllFrom
  <2>3. CASE u # h.on
    <3>1. h # Call("start", u)
      BY <2>3, <1>5
    <3> QED BY <2>1, <2>3, <3>1, <1>6, <1>7, <1>10 DEF UnitDone, AllFrom
  <2> QED BY <2>2, <2>3
<1>11. ASSUME NEW r, NEW u \in Units, u # h.on, UnitDone(u, r, {})
       PROVE  UnitDone(u, r, {})'
  BY <1>6, <1>7, <1>11 DEF UnitDone, AllFrom
<1>12. "broker" \in Units /\ \A r : \A u \in UnitsOf(r) : u \in Units /\ u # "broker"
  BY AuthUnits DEF Units
<1>13. DeploysAuth(d) => AuthDone(d, left)'
  <2> SUFFICES ASSUME DeploysAuth(d) PROVE AuthDone(d, left)'
    OBVIOUS
  <2>1. \A u \in UnitsOf(d) : UnitDone(u, d, left)'
    BY <1>3, <1>10, <1>12 DEF AuthDone
  <2>2. /\ (Call("instance", "auth") \in left \/ ports["auth"] = WebPorts(d))'
        /\ (Call("stamp", "auth") \in left \/ stamped["auth"] = d.ver)'
        /\ (d.cmd = "install" /\ d.mode = "cloudflare" =>
             \A x \in {"tunnel", "ingress", "dns"} : Call("cloud", x) \in left \/ x \in cloudTunnel)'
    BY <1>3, <1>6, <1>9 DEF AuthDone
  <2> QED BY <2>1, <2>2 DEF AuthDone
<1>14. DeploysBroker(d) => BrokerDone(d, left)'
  BY <1>3, <1>6, <1>9, <1>10, <1>12 DEF BrokerDone
<1>15. ASSUME NEW r \in Deploys, ~DeploysAuth(d), AuthDone(r, {}) PROVE AuthDone(r, {})'
  <2>1. \A u \in UnitsOf(r) : UnitDone(u, r, {})'
    BY <1>4, <1>11, <1>12, <1>15 DEF AuthDone
  <2> QED BY <2>1, <1>6, <1>15 DEF AuthDone
<1>16. ASSUME NEW r \in Deploys, ~DeploysBroker(d), BrokerDone(r, {}) PROVE BrokerDone(r, {})'
  <2>1. UnitDone("broker", r, {})'
    BY <1>4, <1>11, <1>12, <1>16 DEF BrokerDone
  <2> QED BY <2>1, <1>6, <1>16 DEF BrokerDone
<1> QED BY <1>0, <1>1, <1>8, <1>13, <1>14, <1>15, <1>16, DeployKeeps

\* A command begins: what was reported of the appliances it deploys no longer is.
LEMMA CommandBegins ==
  ASSUME DeployInv, NEW d \in Deploys, DeployBegins(d)
  PROVE  DeployInv'
<1>1. /\ UNCHANGED <<hostObjects, ports, applianceDisk, unitRuns, enabled, stamped, cloudTunnel>>
      /\ deployJob' = [req |-> d, calls |-> CallsOf(d)]
      /\ reported' = [a \in Appliances |-> IF Touches(d, a) THEN NoneYet ELSE reported[a]]
  BY DEF DeployBegins, Touches
<1>2. /\ reported'["auth"] = IF DeploysAuth(d) THEN NoneYet ELSE reported["auth"]
      /\ reported'["broker"] = IF DeploysBroker(d) THEN NoneYet ELSE reported["broker"]
      /\ reported' \in [Appliances -> Deploys \cup {NoneYet}]
  BY <1>1 DEF DeployInv, DeployShapes, DeployTypeOK, Touches, Appliances
<1>3. DeployShapes'
  BY <1>1, <1>2 DEF DeployInv, DeployShapes, DeployTypeOK
<1>4. ReportsKept'
  BY <1>1, <1>2 DEF DeployInv, ReportsKept, AuthDone, BrokerDone, UnitDone, AllFrom
<1>5. /\ CallsOf(d) \in Seq(CallRecords) /\ InOrder(CallsOf(d)) /\ \A c \in CallsIn(CallsOf(d)) : Belongs(d, c)
      /\ DeploysAuth(d) => AuthDone(d, CallsIn(CallsOf(d)))
      /\ DeploysBroker(d) => BrokerDone(d, CallsIn(CallsOf(d)))
  BY CommandCalls
<1>6. PICK calls : calls = CallsOf(d)
  OBVIOUS
<1>7. /\ deployJob'.req = d /\ deployJob'.calls = calls /\ deployJob' \in [req : Deploys, calls : Seq(CallRecords)]
  BY <1>1, <1>5, <1>6
<1>8. /\ DeploysAuth(d) => AuthDone(d, CallsIn(calls))'
      /\ DeploysBroker(d) => BrokerDone(d, CallsIn(calls))'
  BY <1>1, <1>5, <1>6 DEF AuthDone, BrokerDone, UnitDone, AllFrom
<1>9. JobGoes'
  BY <1>2, <1>5, <1>6, <1>7, <1>8 DEF JobGoes
<1> QED BY <1>3, <1>4, <1>9 DEF DeployInv

\* A command ends with nothing left of it.
LEMMA CommandIsDone ==
  ASSUME DeployInv, DeployDone
  PROVE  DeployInv'
<1>1. PICK d : d = deployJob.req
  OBVIOUS
<1>2. /\ deployJob' = NoneYet /\ deployJob # NoneYet /\ deployJob.calls = <<>>
      /\ UNCHANGED <<hostObjects, applianceDisk, stamped, cloudTunnel, ports, unitRuns, enabled>>
      /\ reported' = [a \in Appliances |-> IF Touches(d, a) THEN d ELSE reported[a]]
  BY <1>1 DEF DeployDone, Touches
<1>3. d \in Deploys
  BY <1>1, <1>2 DEF DeployInv, JobGoes
<1>4. CallsIn(deployJob.calls) = {}
  BY <1>2, NoCalls
<1>5. /\ DeploysAuth(d) => AuthDone(d, {})
      /\ DeploysBroker(d) => BrokerDone(d, {})
  BY <1>1, <1>2, <1>4 DEF DeployInv, JobGoes
<1>6. /\ reported'["auth"] = IF DeploysAuth(d) THEN d ELSE reported["auth"]
      /\ reported'["broker"] = IF DeploysBroker(d) THEN d ELSE reported["broker"]
      /\ reported' \in [Appliances -> Deploys \cup {NoneYet}]
  BY <1>2, <1>3 DEF DeployInv, DeployShapes, DeployTypeOK, Touches, Appliances
<1>7. DeployShapes'
  BY <1>2, <1>6 DEF DeployInv, DeployShapes, DeployTypeOK
<1>8. /\ reported["auth"] # NoneYet => AuthDone(reported["auth"], {})
      /\ reported["broker"] # NoneYet => BrokerDone(reported["broker"], {})
  BY DEF DeployInv, ReportsKept
<1>9. PICK ra, rb : ra = reported'["auth"] /\ rb = reported'["broker"]
  OBVIOUS
<1>10. /\ ra # NoneYet => AuthDone(ra, {})
       /\ rb # NoneYet => BrokerDone(rb, {})
  BY <1>5, <1>6, <1>8, <1>9
<1>11. /\ ra # NoneYet => AuthDone(ra, {})'
       /\ rb # NoneYet => BrokerDone(rb, {})'
  BY <1>2, <1>10 DEF AuthDone, BrokerDone, UnitDone, AllFrom
<1>12. ReportsKept'
  BY <1>9, <1>11 DEF ReportsKept
<1>13. JobGoes'
  BY <1>2 DEF JobGoes
<1> QED BY <1>7, <1>12, <1>13 DEF DeployInv

\* A command fails half way: what it touched was no longer reported.
LEMMA CommandFails ==
  ASSUME DeployInv, DeployFails
  PROVE  DeployInv'
<1>1. PICK d, h : d = deployJob.req /\ h = Head(deployJob.calls)
  OBVIOUS
<1>2. /\ deployJob' = NoneYet /\ deployJob # NoneYet /\ deployJob.calls # <<>>
      /\ UNCHANGED <<hostObjects, applianceDisk, stamped, cloudTunnel, reported>>
  BY DEF DeployFails
<1>3. /\ deployJob \in [req : Deploys, calls : Seq(CallRecords)] /\ InOrder(deployJob.calls)
      /\ \A c \in CallsIn(deployJob.calls) : Belongs(deployJob.req, c)
      /\ DeploysAuth(d) => reported["auth"] = NoneYet
      /\ DeploysBroker(d) => reported["broker"] = NoneYet
  BY <1>1, <1>2 DEF DeployInv, JobGoes
<1>4. Belongs(d, h)
  BY <1>1, <1>2, <1>3, CallsTail
<1>5. /\ enabled \subseteq enabled' /\ enabled' \subseteq Units /\ unitRuns' = [u \in Units |-> unitRuns'[u]]
      /\ \A u \in Units : unitRuns'[u] = unitRuns[u] \/ Touches(d, HomeOf(u))
  <2>1. enabled \subseteq Units /\ unitRuns = [u \in Units |-> unitRuns[u]]
    BY DEF DeployInv, DeployShapes, DeployTypeOK
  <2>2. CASE UNCHANGED <<unitRuns, enabled>>
    BY <2>1, <2>2
  <2>3. CASE /\ DoesNow("start") /\ enabled' = enabled \cup {Subject}
             /\ unitRuns' = [unitRuns EXCEPT ![Subject] = NoneYet]
    <3>1. h.do = "start" /\ h.on \in Units /\ Touches(d, HomeOf(h.on))
      BY <1>1, <1>4, <2>3 DEF DoesNow, Belongs
    <3>2. /\ unitRuns' = [u \in Units |-> IF u = h.on THEN NoneYet ELSE unitRuns[u]]
          /\ enabled' = enabled \cup {h.on}
      BY <1>1, <2>1, <2>3 DEF Subject
    <3> QED BY <2>1, <3>1, <3>2
  <2> QED BY <2>2, <2>3 DEF DeployFails
<1>6. /\ ports' = [a \in Appliances |-> ports'[a]]
      /\ ports'["auth"] = ports["auth"] \/ DeploysAuth(d)
  <2>1. ports = [a \in Appliances |-> ports[a]]
    BY DEF DeployInv, DeployShapes
  <2>2. CASE UNCHANGED ports
    BY <2>1, <2>2
  <2>3. CASE /\ DoesNow("instance")
             /\ ports' = [ports EXCEPT ![Subject] = IF Subject = "auth" THEN WebPorts(deployJob.req)
                                                                      ELSE {deployJob.req.port}]
    <3>1. h.on \in Appliances /\ Touches(d, h.on)
      BY <1>1, <1>4, <2>3 DEF DoesNow, Belongs
    <3> DEFINE v == IF Subject = "auth" THEN WebPorts(deployJob.req) ELSE {deployJob.req.port}
    <3>2. ports' = [ports EXCEPT ![h.on] = v]
      BY <1>1, <2>3 DEF Subject
    <3> HIDE DEF v
    <3>3. /\ ports' = [a \in Appliances |-> ports'[a]]
          /\ \A a \in Appliances : a # h.on => ports'[a] = ports[a]
          /\ "auth" \in Appliances
      BY <2>1, <3>1, <3>2, ApplianceSet
    <3>4. h.on = "auth" => DeploysAuth(d)
      BY <3>1 DEF Touches
    <3> QED BY <3>3, <3>4
  <2> QED BY <2>2, <2>3 DEF DeployFails
<1>7. DeployShapes'
  BY <1>2, <1>5, <1>6 DEF DeployInv, DeployShapes, DeployTypeOK
<1>8. PICK ra, rb : ra = reported["auth"] /\ rb = reported["broker"]
  OBVIOUS
<1>9. ASSUME ra # NoneYet PROVE AuthDone(ra, {})'
  <2>1. AuthDone(ra, {}) /\ ~DeploysAuth(d)
    BY <1>3, <1>8, <1>9 DEF DeployInv, ReportsKept
  <2>2. ASSUME NEW u \in UnitsOf(ra) PROVE UnitDone(u, ra, {})'
    <3>1. u \in Units /\ u # "broker" /\ UnitDone(u, ra, {})
      BY <2>1, AuthUnits DEF AuthDone
    <3>2. unitRuns'[u] = unitRuns[u]
      BY <2>1, <3>1, <1>5 DEF Touches, HomeOf
    <3> QED BY <1>2, <1>5, <3>1, <3>2 DEF UnitDone, AllFrom
  <2>3. ports'["auth"] = ports["auth"]
    BY <2>1, <1>6
  <2> QED BY <1>2, <2>1, <2>2, <2>3 DEF AuthDone
<1>10. ASSUME rb # NoneYet PROVE BrokerDone(rb, {})'
  <2>1. BrokerDone(rb, {}) /\ ~DeploysBroker(d)
    BY <1>3, <1>8, <1>10 DEF DeployInv, ReportsKept
  <2>2. unitRuns'["broker"] = unitRuns["broker"]
    BY <2>1, <1>5 DEF Touches, HomeOf, Units
  <2> QED BY <1>2, <1>5, <2>1, <2>2 DEF BrokerDone, UnitDone, AllFrom
<1>11. ReportsKept'
  BY <1>2, <1>8, <1>9, <1>10 DEF ReportsKept
<1>12. JobGoes'
  BY <1>2 DEF JobGoes
<1> QED BY <1>7, <1>11, <1>12 DEF DeployInv

\* The host reboots: the files of a unit that was reported are still those of
\* its command line, and it is enabled.
LEMMA HostComesBack ==
  ASSUME DeployInv, HostReboots
  PROVE  DeployInv'
<1>1. /\ deployJob' = NoneYet
      /\ UNCHANGED <<hostObjects, ports, applianceDisk, enabled, stamped, cloudTunnel, reported>>
      /\ unitRuns' = [u \in Units |-> IF u \in enabled THEN StartedWith(u) ELSE NoneYet]
  BY DEF HostReboots
<1>2. unitRuns' = [u \in Units |-> unitRuns'[u]]
  BY <1>1
<1>3. DeployShapes'
  BY <1>1, <1>2 DEF DeployInv, DeployShapes, DeployTypeOK
<1>4. ASSUME NEW r, NEW u \in Units, UnitDone(u, r, {}) PROVE UnitDone(u, r, {})'
  <2>1. u \in enabled /\ \A f \in FilesOf(u) : applianceDisk[f] = r
    BY <1>4 DEF UnitDone
  <2>2. StartedWith(u) = [f \in FilesOf(u) |-> r]
    BY <2>1 DEF StartedWith
  <2> QED BY <1>1, <2>1, <2>2 DEF UnitDone, AllFrom
<1>5. PICK ra, rb : ra = reported["auth"] /\ rb = reported["broker"]
  OBVIOUS
<1>6. ASSUME ra # NoneYet PROVE AuthDone(ra, {})'
  <2>1. AuthDone(ra, {})
    BY <1>5, <1>6 DEF DeployInv, ReportsKept
  <2>2. \A u \in UnitsOf(ra) : UnitDone(u, ra, {})'
    BY <2>1, <1>4, AuthUnits DEF AuthDone
  <2> QED BY <1>1, <2>1, <2>2 DEF AuthDone
<1>7. ASSUME rb # NoneYet PROVE BrokerDone(rb, {})'
  <2>1. BrokerDone(rb, {}) /\ "broker" \in Units
    BY <1>5, <1>7 DEF DeployInv, ReportsKept, Units
  <2> QED BY <1>1, <1>4, <2>1 DEF BrokerDone
<1>8. ReportsKept'
  BY <1>1, <1>5, <1>6, <1>7 DEF ReportsKept
<1>9. JobGoes'
  BY <1>1 DEF JobGoes
<1> QED BY <1>3, <1>8, <1>9 DEF DeployInv

\* No step of a command, no failure and no reboot breaks it.
LEMMA DeployStepInv ==
  ASSUME DeployInv, [DeployNext]_deployVars
  PROVE  DeployInv'
<1>1. CASE \E d \in Deploys : DeployBegins(d)
  BY <1>1, CommandBegins
<1>2. CASE EnsureObject \/ EnsureAuthInstance \/ EnsureBrokerInstance \/ StampVersion \/ SetUpTunnel
  BY <1>2, ObjectsKeep
<1>3. CASE WriteApplianceFile
  BY <1>3, FileWritten
<1>4. CASE StartUnit
  BY <1>4, UnitStarted
<1>5. CASE DeployFails
  BY <1>5, CommandFails
<1>6. CASE DeployDone
  BY <1>6, CommandIsDone
<1>7. CASE HostReboots
  BY <1>7, HostComesBack
<1>8. CASE UNCHANGED deployVars
  <2>1. UNCHANGED <<hostObjects, ports, applianceDisk, unitRuns, enabled, stamped, cloudTunnel, deployJob, reported>>
    BY <1>8 DEF deployVars
  <2>2. DeployShapes'
    BY <2>1 DEF DeployInv, DeployShapes, DeployTypeOK
  <2>3. \A d, left : (AuthDone(d, left) => AuthDone(d, left)') /\ (BrokerDone(d, left) => BrokerDone(d, left)')
    BY <2>1 DEF AuthDone, BrokerDone, UnitDone, AllFrom
  <2>4. JobGoes'
    BY <2>1, <2>3 DEF DeployInv, JobGoes
  <2>5. ReportsKept'
    BY <2>1, <2>3 DEF DeployInv, ReportsKept
  <2> QED BY <2>2, <2>4, <2>5 DEF DeployInv
<1> QED BY <1>1, <1>2, <1>3, <1>4, <1>5, <1>6, <1>7, <1>8 DEF DeployNext

\* Deployments tell the truth (BootstrapAuthApp, BootstrapV2, install): whatever
\* failed commands, redeploys and reboots came before, an appliance reported
\* done has every unit running and enabled, with all its files from the command
\* line that reported it, the ports it asked for and the version it stamped.
\* For any command lines and any number of them.
THEOREM DeploymentsRun == DeploySpec => []DeployedRuns
<1>1. ASSUME DeployInv PROVE DeployedRuns
  <2>1. ASSUME reported["auth"] # NoneYet
        PROVE  /\ \A u \in UnitsOf(reported["auth"]) : AllFrom(u, reported["auth"])
               /\ ports["auth"] = WebPorts(reported["auth"])
               /\ stamped["auth"] = reported["auth"].ver
               /\ (reported["auth"].cmd = "install" /\ reported["auth"].mode = "cloudflare")
                    => cloudTunnel = {"tunnel", "ingress", "dns"}
    <3>1. AuthDone(reported["auth"], {}) /\ cloudTunnel \subseteq {"tunnel", "ingress", "dns"}
      BY <1>1, <2>1 DEF DeployInv, DeployShapes, DeployTypeOK, ReportsKept
    <3> QED BY <3>1 DEF AuthDone, UnitDone
  <2>2. ASSUME reported["broker"] # NoneYet
        PROVE  AllFrom("broker", reported["broker"]) /\ stamped["broker"] = reported["broker"].ver
    <3>1. BrokerDone(reported["broker"], {})
      BY <1>1, <2>2 DEF DeployInv, ReportsKept
    <3> QED BY <3>1 DEF BrokerDone, UnitDone
  <2> QED BY <2>1, <2>2 DEF DeployedRuns
<1> QED BY <1>1, DeployInitInv, DeployStepInv, PTL DEF DeploySpec

\* Files, units and cloud objects are those of deployments that may be asked.
THEOREM DeploymentsStayTyped == DeploySpec => []DeployTypeOK
<1>1. DeployInv /\ [DeployNext]_deployVars => DeployInv'
  BY DeployStepInv
<1>2. DeployInv => DeployTypeOK
  BY DEF DeployInv, DeployShapes
<1> QED BY <1>1, <1>2, DeployInitInv, PTL DEF DeploySpec

-----------------------------------------------------------------------------
(* Self updates                                                            *)

BinRecords == [real : Versions, new : Versions, bak : Versions]
CompRecords == [file : Versions, stamp : Versions, run : Versions]
Swapping == {"stage", "unbak", "aside", "swap", "rerun"}
Finishing == {"push", "stamp", "restart", "skill", "skillin", "files"}
UpdRecords == [step : Swapping \cup Finishing \cup {"idle", "done", "failed"},
               self : Versions, release : Versions, final : BOOLEAN,
               todo : SUBSET {"sidecar", "skill", "payload"}, files : SUBSET PayloadFiles]
AdmRecords == [step : {"idle", "push", "stamp", "restart", "done", "failed"},
               release : Versions, at : Parts, failed : BOOLEAN]

\* The three renames of one command: which of the files there are.
BinaryKept(r) ==
  /\ r.step \in {"stage", "unbak", "aside"} => bin.real # 0
  /\ r.step = "swap" => bin.bak # 0

\* Before the executable is replaced it is not the one wanted; after, or without,
\* the one that runs is in place, and brings the payload along or finds its own.
HandsOver(r) ==
  /\ r.step \in Swapping => ~r.final /\ r.self # r.release
  /\ r.step \in Finishing => bin.real = r.self /\ ("payload" \in r.todo \/ payload.version = r.self)
  /\ r.step = "done" /\ (r.final \/ r.self = r.release) => bin.real = r.self /\ payload.version = r.self

\* A file that is no longer to be written has been.
FilesDone(r) ==
  /\ r.step \in (Swapping \cup Finishing) \ {"files"} => r.files = PayloadFiles
  /\ r.step = "files" => \A f \in PayloadFiles \ r.files : payload.file[f] = r.self

UpdaterInv(r) == BinaryKept(r) /\ HandsOver(r) /\ FilesDone(r)

\* A component the administrator's command is through with, none having failed,
\* is of the release.
AdminInv ==
  /\ adm.step = "done" => ~adm.failed /\ adm.at = "sidecar"
  /\ ~adm.failed =>
       /\ adm.at = "auth" /\ adm.step \in {"stamp", "restart"} => comp["auth"].file = adm.release
       /\ adm.at = "sidecar" /\ adm.step # "idle" =>
            /\ comp["auth"].file = adm.release /\ comp["auth"].run = adm.release
            /\ adm.step \in {"stamp", "restart", "done"} => comp["sidecar"].file = adm.release
            /\ adm.step = "done" => comp["sidecar"].run = adm.release

UpdateShapes ==
  /\ latest \in Versions \ {0} /\ bin \in BinRecords /\ skill \in Versions
  /\ comp \in [Parts -> CompRecords]
  /\ payload \in [file : [PayloadFiles -> Versions], version : Versions]
  /\ upd \in [Updaters -> UpdRecords] /\ adm \in AdmRecords

UpdateInv == UpdateShapes /\ BinaryRecoverable /\ (\A u \in Updaters : UpdaterInv(upd[u])) /\ AdminInv

\* Two commands are never at the same executable.
SingleUpdater == \A u, v \in Updaters : u = v

LEMMA UpdateInitInv == UpdateInit => UpdateInv
<1> SUFFICES ASSUME UpdateInit PROVE UpdateInv
  OBVIOUS
<1> USE DEF UpdateInit
<1>1. 1 \in Versions /\ 0 \in Versions
  BY UpdateAssumption DEF UpdateAssumption, Versions
<1>2. IdleUpd \in UpdRecords /\ IdleUpd.step = "idle"
  BY <1>1 DEF IdleUpd, UpdRecords
<1>3. IdleAdm \in AdmRecords /\ IdleAdm.step = "idle" /\ IdleAdm.at = "auth"
  BY <1>1 DEF IdleAdm, AdmRecords, Parts
<1>4. bin \in BinRecords /\ bin.real = 1 /\ [file |-> 1, stamp |-> 1, run |-> 1] \in CompRecords
  BY <1>1 DEF BinRecords, CompRecords
<1>5. payload \in [file : [PayloadFiles -> Versions], version : Versions]
  BY <1>1
<1>6. UpdateShapes
  BY <1>1, <1>2, <1>3, <1>4, <1>5 DEF UpdateShapes
<1>7. \A u \in Updaters : UpdaterInv(upd[u])
  BY <1>2 DEF UpdaterInv, BinaryKept, HandsOver, FilesDone, Swapping, Finishing
<1>8. AdminInv
  BY <1>3 DEF AdminInv
<1> QED BY <1>4, <1>6, <1>7, <1>8 DEF UpdateInv, BinaryRecoverable

\* The stages that are left.
LEMMA StageOf ==
  ASSUME NEW todo
  PROVE  /\ Stage(todo) \in {"push", "skill", "files", "done"}
         /\ Stage(todo) = "done" => "payload" \notin todo
  BY DEF Stage

\* One command goes on to a step, and changes nothing else of itself.
LEMMA StepSet ==
  ASSUME upd \in [Updaters -> UpdRecords], NEW u \in Updaters,
         NEW s \in Swapping \cup Finishing \cup {"idle", "done", "failed"},
         upd' = [upd EXCEPT ![u].step = s]
  PROVE  /\ upd' \in [Updaters -> UpdRecords] /\ upd'[u].step = s
         /\ upd'[u].self = upd[u].self /\ upd'[u].release = upd[u].release /\ upd'[u].final = upd[u].final
         /\ upd'[u].todo = upd[u].todo /\ upd'[u].files = upd[u].files
<1> DEFINE k == [upd[u] EXCEPT !.step = s]
<1>1. /\ k \in UpdRecords /\ k.step = s /\ k.self = upd[u].self /\ k.release = upd[u].release
      /\ k.final = upd[u].final /\ k.todo = upd[u].todo /\ k.files = upd[u].files
  BY DEF UpdRecords
<1>2. upd' = [upd EXCEPT ![u] = k]
  OBVIOUS
<1> HIDE DEF k
<1> QED BY <1>1, <1>2

\* The reports that are withdrawn.
LEMMA StaleKeeps ==
  ASSUME UpdateInv, upd' = Stale, UNCHANGED <<bin, payload>>
  PROVE  upd' \in [Updaters -> UpdRecords] /\ \A u \in Updaters : UpdaterInv(upd[u])'
<1>1. IdleUpd \in UpdRecords /\ IdleUpd.step = "idle"
  BY UpdateAssumption DEF IdleUpd, UpdRecords, UpdateAssumption, Versions
<1>2. \A u \in Updaters : upd'[u] = upd[u] \/ upd'[u] = IdleUpd
  BY DEF Stale
<1>3. upd' \in [Updaters -> UpdRecords]
  BY <1>1 DEF Stale, UpdateInv, UpdateShapes
<1>4. ASSUME NEW u \in Updaters PROVE UpdaterInv(upd[u])'
  <2>1. CASE upd'[u] = upd[u]
    BY <2>1 DEF UpdateInv, UpdaterInv, BinaryKept, HandsOver, FilesDone
  <2>2. CASE upd'[u] = IdleUpd
    BY <1>1, <2>2 DEF UpdaterInv, BinaryKept, HandsOver, FilesDone, Swapping, Finishing
  <2> QED BY <1>2, <2>1, <2>2
<1> QED BY <1>3, <1>4

\* The command that moves: everything but its own state is looked at once, and
\* no other command runs.
LEMMA UpdaterGoes ==
  ASSUME UpdateInv, SingleUpdater, NEW u \in Updaters,
         upd' \in [Updaters -> UpdRecords], UpdaterInv(upd[u])',
         latest' = latest, adm' = adm, bin' \in BinRecords, skill' \in Versions,
         comp' \in [Parts -> CompRecords], comp'["auth"] = comp["auth"],
         comp'["sidecar"] = comp["sidecar"] \/ (comp'["sidecar"].file = comp["auth"].file
              /\ comp'["sidecar"].run = comp["sidecar"].run)
           \/ (comp'["sidecar"].file = comp["sidecar"].file
              /\ comp'["sidecar"].run \in {comp["sidecar"].run, comp["sidecar"].file}),
         payload' \in [file : [PayloadFiles -> Versions], version : Versions],
         BinaryRecoverable'
  PROVE  UpdateInv'
<1>1. UpdateShapes'
  BY DEF UpdateInv, UpdateShapes
<1>2. \A v \in Updaters : UpdaterInv(upd[v])'
  BY DEF SingleUpdater
<1>3. AdminInv /\ adm' = adm /\ comp'["auth"] = comp["auth"]
  BY DEF UpdateInv
<1>4. ASSUME ~adm.failed, adm.at = "sidecar", adm.step \in {"stamp", "restart", "done"}
      PROVE  comp'["sidecar"].file = adm.release
  BY <1>3, <1>4 DEF AdminInv
<1>5. ASSUME ~adm.failed, adm.at = "sidecar", adm.step = "done"
      PROVE  comp'["sidecar"].run = adm.release
  BY <1>3, <1>5 DEF AdminInv
<1>6. AdminInv'
  <2> HIDE DEF AdminInv
  <2> QED BY <1>3, <1>4, <1>5 DEF AdminInv
<1> QED BY <1>1, <1>2, <1>6 DEF UpdateInv

\* A command that ends in failure, wherever it was.
LEMMA FailedInv ==
  ASSUME NEW r, r.step \in {"failed", "idle"}
  PROVE  UpdaterInv(r)
  BY DEF UpdaterInv, BinaryKept, HandsOver, FilesDone, Swapping, Finishing

LEMMA UpdateStartInv ==
  ASSUME UpdateInv, SingleUpdater, NEW u \in Updaters, NEW release, UpdateStart(u, release)
  PROVE  UpdateInv'
<1> DEFINE todo == Outdated(bin.real)
           s == IF release # bin.real THEN "stage" ELSE Stage(todo)
           r == [step |-> s, self |-> bin.real, release |-> release, final |-> FALSE, todo |-> todo, files |-> PayloadFiles]
<1>1. upd' = [upd EXCEPT ![u] = r] /\ UNCHANGED <<latest, bin, skill, comp, payload, adm>> /\ release \in Versions
  <2>1. release \in 1 .. latest /\ latest \in 0 .. MaxRelease /\ MaxRelease \in Nat
    BY UpdateAssumption DEF UpdateStart, Versions, UpdateInv, UpdateShapes, UpdateAssumption
  <2>2. release \in Versions
    BY <2>1 DEF Versions
  <2>3. upd' = [upd EXCEPT ![u] = r] /\ UNCHANGED <<latest, bin, skill, comp, payload, adm>>
    BY DEF UpdateStart
  <2> QED BY <2>2, <2>3
<1>2. todo \in SUBSET {"sidecar", "skill", "payload"} /\ ("payload" \in todo \/ payload.version = bin.real)
  BY DEF Outdated
<1>3. s \in {"stage", "push", "skill", "files", "done"} /\ (s = "done" => "payload" \notin todo)
      /\ (s = "stage" <=> release # bin.real)
  BY StageOf
<1>4. bin \in BinRecords /\ bin.real # 0 /\ bin.real \in Versions
  BY DEF UpdateStart, UpdateInv, UpdateShapes, BinRecords
<1> HIDE DEF todo, s
<1>5. r \in UpdRecords
  BY <1>1, <1>2, <1>3, <1>4 DEF UpdRecords, Swapping, Finishing
<1>6. /\ r.step = s /\ r.self = bin.real /\ r.release = release /\ r.final = FALSE /\ r.todo = todo
      /\ r.files = PayloadFiles
  OBVIOUS
<1> HIDE DEF r
<1>7. UpdaterInv(r)
  BY <1>2, <1>3, <1>4, <1>6 DEF UpdaterInv, BinaryKept, HandsOver, FilesDone, Swapping, Finishing
<1>8. upd' \in [Updaters -> UpdRecords] /\ upd'[u] = r
  BY <1>1, <1>5 DEF UpdateInv, UpdateShapes
<1>9. UpdaterInv(upd[u])'
  BY <1>1, <1>7, <1>8 DEF UpdaterInv, BinaryKept, HandsOver, FilesDone
<1> QED BY <1>1, <1>8, <1>9, UpdaterGoes DEF UpdateInv, UpdateShapes, BinaryRecoverable

\* The three renames, and what is handed over.
LEMMA BinaryReplaced ==
  ASSUME UpdateInv, SingleUpdater, NEW u \in Updaters,
         ApplyStage(u) \/ ApplyUnbak(u) \/ ApplyAside(u) \/ ApplySwap(u)
  PROVE  UpdateInv'
<1>1. /\ bin \in BinRecords /\ upd \in [Updaters -> UpdRecords] /\ upd[u] \in UpdRecords /\ UpdaterInv(upd[u])
      /\ comp \in [Parts -> CompRecords] /\ payload \in [file : [PayloadFiles -> Versions], version : Versions]
      /\ skill \in Versions /\ BinaryRecoverable /\ 0 \in Versions
  BY UpdateAssumption DEF UpdateInv, UpdateShapes, UpdateAssumption, Versions
<1>2. UNCHANGED <<latest, skill, comp, payload, adm>>
  BY DEF ApplyStage, ApplyUnbak, ApplyAside, ApplySwap
<1>3. upd[u].step \in {"stage", "unbak", "aside", "swap"}
  BY DEF ApplyStage, ApplyUnbak, ApplyAside, ApplySwap
<1>4. /\ ~upd[u].final /\ upd[u].self # upd[u].release /\ upd[u].files = PayloadFiles
      /\ upd[u].release \in Versions
  BY <1>1, <1>3 DEF UpdaterInv, HandsOver, FilesDone, Swapping, UpdRecords
<1>5. \E s \in {"unbak", "aside", "swap", "failed", "done", "rerun"} :
        /\ upd' = [upd EXCEPT ![u].step = s] /\ bin' \in BinRecords /\ BinaryRecoverable'
        /\ s \in {"unbak", "aside"} => bin'.real # 0
        /\ s = "swap" => bin'.bak # 0
  <2>1. CASE ApplyStage(u)
    <3>1. upd' = [upd EXCEPT ![u].step = "unbak"] /\ bin' = [bin EXCEPT !.new = upd[u].release] /\ bin.real # 0
      BY <2>1, <1>1 DEF ApplyStage, UpdaterInv, BinaryKept
    <3>2. bin' \in BinRecords /\ bin'.real = bin.real
      BY <3>1, <1>1, <1>4 DEF BinRecords
    <3> QED BY <3>1, <3>2 DEF BinaryRecoverable
  <2>2. CASE ApplyUnbak(u)
    <3>1. upd' = [upd EXCEPT ![u].step = "aside"] /\ bin' = [bin EXCEPT !.bak = 0] /\ bin.real # 0
      BY <2>2, <1>1 DEF ApplyUnbak, UpdaterInv, BinaryKept
    <3>2. bin' \in BinRecords /\ bin'.real = bin.real
      BY <3>1, <1>1 DEF BinRecords
    <3> QED BY <3>1, <3>2 DEF BinaryRecoverable
  <2>3. CASE ApplyAside(u)
    <3>1. upd' = [upd EXCEPT ![u].step = "swap"] /\ bin' = [bin EXCEPT !.bak = bin.real, !.real = 0] /\ bin.real # 0
      BY <2>3, <1>1 DEF ApplyAside, UpdaterInv, BinaryKept
    <3>2. bin' \in BinRecords /\ bin'.bak = bin.real
      BY <3>1, <1>1 DEF BinRecords
    <3> QED BY <3>1, <3>2 DEF BinaryRecoverable
  <2>4. CASE ApplySwap(u)
    <3>0. bin.bak # 0
      BY <2>4, <1>1 DEF ApplySwap, UpdaterInv, BinaryKept
    <3>1. CASE bin.new # 0
      <4>1. bin' = [bin EXCEPT !.real = bin.new, !.new = 0]
        BY <2>4, <3>1 DEF ApplySwap
      <4>2. bin' \in BinRecords /\ bin'.real = bin.new
        BY <4>1, <1>1 DEF BinRecords
      <4>3. upd' = [upd EXCEPT ![u].step = "done"] \/ upd' = [upd EXCEPT ![u].step = "rerun"]
        BY <2>4, <3>1 DEF ApplySwap
      <4> QED BY <4>2, <4>3, <3>1 DEF BinaryRecoverable
    <3>2. CASE bin.new = 0
      <4>1. bin' = [real |-> bin.bak, new |-> 0, bak |-> 0] /\ upd' = [upd EXCEPT ![u].step = "failed"]
        BY <2>4, <3>0, <3>2 DEF ApplySwap
      <4>2. bin' \in BinRecords /\ bin'.real = bin.bak
        BY <4>1, <1>1 DEF BinRecords
      <4> QED BY <4>1, <4>2, <3>0 DEF BinaryRecoverable
    <3> QED BY <3>1, <3>2
  <2> QED BY <2>1, <2>2, <2>3, <2>4
<1>6. PICK s \in {"unbak", "aside", "swap", "failed", "done", "rerun"} :
        /\ upd' = [upd EXCEPT ![u].step = s] /\ bin' \in BinRecords /\ BinaryRecoverable'
        /\ s \in {"unbak", "aside"} => bin'.real # 0
        /\ s = "swap" => bin'.bak # 0
  BY <1>5
<1>7. /\ upd' \in [Updaters -> UpdRecords] /\ upd'[u].step = s
      /\ upd'[u].self = upd[u].self /\ upd'[u].release = upd[u].release /\ upd'[u].final = upd[u].final
      /\ upd'[u].files = upd[u].files
  BY <1>1, <1>6, StepSet DEF Swapping
<1>8. UpdaterInv(upd[u])'
  BY <1>4, <1>6, <1>7 DEF UpdaterInv, BinaryKept, HandsOver, FilesDone, Swapping, Finishing
<1> QED BY <1>1, <1>2, <1>6, <1>7, <1>8, UpdaterGoes

\* The executable that was installed takes over, with a status of its own.
LEMMA HandedOver ==
  ASSUME UpdateInv, SingleUpdater, NEW u \in Updaters, UpdateRerun(u)
  PROVE  UpdateInv'
<1> DEFINE todo == Outdated(bin.real)
           s == Stage(todo)
           k == [upd[u] EXCEPT !.self = bin.real, !.final = TRUE, !.todo = todo, !.step = s]
           f == [upd[u] EXCEPT !.step = "failed"]
<1>1. /\ upd \in [Updaters -> UpdRecords] /\ upd[u] \in UpdRecords /\ UpdaterInv(upd[u]) /\ bin.real \in Versions
      /\ bin \in BinRecords /\ UpdateShapes /\ BinaryRecoverable
  BY DEF UpdateInv, UpdateShapes, BinRecords
<1>2. upd[u].step = "rerun" /\ upd[u].files = PayloadFiles
  BY <1>1 DEF UpdateRerun, UpdaterInv, FilesDone, Swapping
<1>3. todo \in SUBSET {"sidecar", "skill", "payload"} /\ ("payload" \in todo \/ payload.version = bin.real)
  BY DEF Outdated
<1>4. s \in {"push", "skill", "files", "done"} /\ (s = "done" => "payload" \notin todo)
  BY StageOf
<1>5. UNCHANGED <<latest, bin, skill, comp, payload, adm>>
  BY DEF UpdateRerun
<1>6. upd' = [upd EXCEPT ![u] = IF bin.real = 0 THEN f ELSE k]
  BY DEF UpdateRerun
<1> HIDE DEF todo, s
<1>7. /\ k \in UpdRecords /\ k.step = s /\ k.self = bin.real /\ k.todo = todo /\ k.files = PayloadFiles
      /\ f \in UpdRecords /\ f.step = "failed"
  BY <1>1, <1>2, <1>3, <1>4 DEF UpdRecords, Swapping, Finishing
<1> HIDE DEF k, f
<1>8. UpdaterInv(k) /\ UpdaterInv(f)
  BY <1>3, <1>4, <1>7 DEF UpdaterInv, BinaryKept, HandsOver, FilesDone, Swapping, Finishing
<1>9. upd' \in [Updaters -> UpdRecords] /\ upd'[u] \in {k, f}
  BY <1>1, <1>6, <1>7
<1>10. UpdaterInv(upd[u])'
  BY <1>5, <1>8, <1>9 DEF UpdaterInv, BinaryKept, HandsOver, FilesDone
<1>11. BinaryRecoverable'
  BY <1>1, <1>5 DEF BinaryRecoverable
<1> QED BY <1>1, <1>5, <1>9, <1>10, <1>11, UpdaterGoes DEF UpdateShapes

\* A command on its way through the stages that follow the executable.
LEMMA StageEnds ==
  ASSUME UpdateInv, SingleUpdater, NEW u \in Updaters,
         upd[u].step \in Finishing \ {"files"},
         NEW s \in Finishing \cup {"done", "failed"},
         s = "done" => "payload" \notin upd[u].todo,
         upd' = [upd EXCEPT ![u].step = s], UNCHANGED <<latest, bin, payload, adm>>, skill' \in Versions,
         comp' \in [Parts -> CompRecords], comp'["auth"] = comp["auth"],
         comp'["sidecar"] = comp["sidecar"] \/ (comp'["sidecar"].file = comp["auth"].file
              /\ comp'["sidecar"].run = comp["sidecar"].run)
           \/ (comp'["sidecar"].file = comp["sidecar"].file
              /\ comp'["sidecar"].run \in {comp["sidecar"].run, comp["sidecar"].file})
  PROVE  UpdateInv'
<1>1. /\ upd \in [Updaters -> UpdRecords] /\ UpdaterInv(upd[u]) /\ bin \in BinRecords /\ BinaryRecoverable
      /\ payload \in [file : [PayloadFiles -> Versions], version : Versions]
  BY DEF UpdateInv, UpdateShapes
<1>2. /\ bin.real = upd[u].self /\ ("payload" \in upd[u].todo \/ payload.version = upd[u].self)
      /\ upd[u].files = PayloadFiles
  BY <1>1 DEF UpdaterInv, HandsOver, FilesDone
<1>3. /\ upd' \in [Updaters -> UpdRecords] /\ upd'[u].step = s /\ upd'[u].self = upd[u].self
      /\ upd'[u].todo = upd[u].todo /\ upd'[u].files = upd[u].files
  BY <1>1, StepSet
<1>4. UpdaterInv(upd[u])'
  BY <1>2, <1>3 DEF UpdaterInv, BinaryKept, HandsOver, FilesDone, Swapping, Finishing
<1>5. BinaryRecoverable'
  BY <1>1 DEF BinaryRecoverable
<1> QED BY <1>1, <1>3, <1>4, <1>5, UpdaterGoes

\* The sidecar is changed.
LEMMA SidecarSet ==
  ASSUME comp \in [Parts -> CompRecords], NEW k \in CompRecords, comp' = [comp EXCEPT !["sidecar"] = k]
  PROVE  comp' \in [Parts -> CompRecords] /\ comp'["auth"] = comp["auth"] /\ comp'["sidecar"] = k
  BY DEF Parts

LEMMA StagesKeep ==
  ASSUME UpdateInv, SingleUpdater, NEW u \in Updaters,
         SidecarPush(u) \/ SidecarStamp(u) \/ SidecarRestart(u) \/ SkillAside(u) \/ SkillIn(u) \/ SkillFails(u)
  PROVE  UpdateInv'
<1>1. /\ comp \in [Parts -> CompRecords] /\ skill \in Versions /\ 0 \in Versions /\ upd[u] \in UpdRecords
      /\ comp["auth"] \in CompRecords /\ comp["sidecar"] \in CompRecords
  BY UpdateAssumption DEF UpdateInv, UpdateShapes, UpdateAssumption, Versions, Parts
<1>2. \A todo : /\ Stage(upd[u].todo \ todo) \in Finishing \cup {"done", "failed"}
                /\ Stage(upd[u].todo \ todo) = "done" => "payload" \notin upd[u].todo \/ "payload" \in todo
  BY StageOf DEF Finishing
<1>3. CASE SidecarPush(u)
  <2> DEFINE k == [comp["sidecar"] EXCEPT !.file = comp["auth"].file]
  <2>1. comp' = [comp EXCEPT !["sidecar"] = k] /\ upd[u].step = "push" /\ upd' = [upd EXCEPT ![u].step = "stamp"]
        /\ UNCHANGED <<latest, bin, skill, payload, adm>>
    BY <1>3 DEF SidecarPush
  <2>2. k \in CompRecords /\ k.file = comp["auth"].file /\ k.run = comp["sidecar"].run
    BY <1>1 DEF CompRecords
  <2> HIDE DEF k
  <2>3. comp' \in [Parts -> CompRecords] /\ comp'["auth"] = comp["auth"] /\ comp'["sidecar"] = k
    BY <1>1, <2>1, <2>2, SidecarSet
  <2> QED BY <1>1, <2>1, <2>2, <2>3, StageEnds DEF Finishing
<1>4. CASE SidecarStamp(u)
  <2> DEFINE k == [comp["sidecar"] EXCEPT !.stamp = comp["auth"].run]
  <2>1. comp' = [comp EXCEPT !["sidecar"] = k] /\ upd[u].step = "stamp" /\ upd' = [upd EXCEPT ![u].step = "restart"]
        /\ UNCHANGED <<latest, bin, skill, payload, adm>>
    BY <1>4 DEF SidecarStamp
  <2>2. k \in CompRecords /\ k.file = comp["sidecar"].file /\ k.run = comp["sidecar"].run
    BY <1>1 DEF CompRecords
  <2> HIDE DEF k
  <2>3. comp' \in [Parts -> CompRecords] /\ comp'["auth"] = comp["auth"] /\ comp'["sidecar"] = k
    BY <1>1, <2>1, <2>2, SidecarSet
  <2> QED BY <1>1, <2>1, <2>2, <2>3, StageEnds DEF Finishing
<1>5. CASE SidecarRestart(u)
  <2> DEFINE k == [comp["sidecar"] EXCEPT !.run = comp["sidecar"].file]
             s == Stage(upd[u].todo \ {"sidecar"})
  <2>1. comp' = [comp EXCEPT !["sidecar"] = k] /\ upd[u].step = "restart" /\ upd' = [upd EXCEPT ![u].step = s]
        /\ UNCHANGED <<latest, bin, skill, payload, adm>>
    BY <1>5 DEF SidecarRestart
  <2>2. k \in CompRecords /\ k.file = comp["sidecar"].file /\ k.run = comp["sidecar"].file
    BY <1>1 DEF CompRecords
  <2>3. s \in Finishing \cup {"done", "failed"} /\ (s = "done" => "payload" \notin upd[u].todo)
    BY <1>2
  <2> HIDE DEF k, s
  <2>4. comp' \in [Parts -> CompRecords] /\ comp'["auth"] = comp["auth"] /\ comp'["sidecar"] = k
    BY <1>1, <2>1, <2>2, SidecarSet
  <2> QED BY <1>1, <2>1, <2>2, <2>3, <2>4, StageEnds DEF Finishing
<1>6. CASE SkillAside(u)
  <2>1. upd[u].step = "skill" /\ upd' = [upd EXCEPT ![u].step = "skillin"] /\ skill' = 0
        /\ UNCHANGED <<latest, bin, comp, payload, adm>>
    BY <1>6 DEF SkillAside
  <2> QED BY <1>1, <2>1, StageEnds DEF Finishing
<1>7. CASE SkillIn(u) \/ SkillFails(u)
  <2> DEFINE s == Stage(upd[u].todo \ {"sidecar", "skill"})
  <2>1. upd[u].step \in {"skill", "skillin"} /\ upd' = [upd EXCEPT ![u].step = s] /\ skill' \in {skill, upd[u].self}
        /\ UNCHANGED <<latest, bin, comp, payload, adm>>
    BY <1>7 DEF SkillIn, SkillFails
  <2>2. s \in Finishing \cup {"done", "failed"} /\ (s = "done" => "payload" \notin upd[u].todo)
    BY <1>2
  <2>3. upd[u].self \in Versions
    BY <1>1 DEF UpdRecords
  <2> HIDE DEF s
  <2> QED BY <1>1, <2>1, <2>2, <2>3, StageEnds DEF Finishing
<1> QED BY <1>3, <1>4, <1>5, <1>6, <1>7

\* The payload: its files, then VERSION.
LEMMA PayloadKeeps ==
  ASSUME UpdateInv, SingleUpdater, NEW u \in Updaters, PayloadWrite(u)
  PROVE  /\ UpdateInv'
         /\ payload'.version # payload.version => \A f \in PayloadFiles : payload'.file[f] = payload'.version
<1>1. /\ upd \in [Updaters -> UpdRecords] /\ upd[u] \in UpdRecords /\ UpdaterInv(upd[u]) /\ bin \in BinRecords
      /\ payload \in [file : [PayloadFiles -> Versions], version : Versions] /\ BinaryRecoverable
      /\ skill \in Versions /\ comp \in [Parts -> CompRecords]
  BY DEF UpdateInv, UpdateShapes
<1>2. /\ upd[u].step = "files" /\ UNCHANGED <<latest, bin, skill, comp, adm>> /\ upd[u].self \in Versions
      /\ bin.real = upd[u].self /\ upd[u].files \subseteq PayloadFiles
      /\ \A f \in PayloadFiles \ upd[u].files : payload.file[f] = upd[u].self
      /\ "payload" \in upd[u].todo \/ payload.version = upd[u].self
  BY <1>1 DEF PayloadWrite, UpdaterInv, HandsOver, FilesDone, Finishing, UpdRecords
<1>3. BinaryRecoverable'
  BY <1>1, <1>2 DEF BinaryRecoverable
<1>4. CASE upd[u].files # {}
  <2>1. PICK f \in upd[u].files :
           /\ payload' = [payload EXCEPT !.file[f] = upd[u].self]
           /\ upd' = [upd EXCEPT ![u].files = @ \ {f}]
    BY <1>4 DEF PayloadWrite
  <2> DEFINE k == [upd[u] EXCEPT !.files = @ \ {f}]
  <2>2. /\ k \in UpdRecords /\ k.step = "files" /\ k.self = upd[u].self /\ k.todo = upd[u].todo
        /\ k.files = upd[u].files \ {f}
    BY <1>1, <1>2 DEF UpdRecords
  <2>3. upd' = [upd EXCEPT ![u] = k]
    BY <2>1
  <2> HIDE DEF k
  <2>4. upd' \in [Updaters -> UpdRecords] /\ upd'[u] = k
    BY <1>1, <2>2, <2>3
  <2>5. /\ payload' \in [file : [PayloadFiles -> Versions], version : Versions]
        /\ payload'.version = payload.version /\ payload'.file[f] = upd[u].self
        /\ \A g \in PayloadFiles : g # f => payload'.file[g] = payload.file[g]
    BY <1>1, <1>2, <2>1
  <2>6. \A g \in PayloadFiles \ k.files : payload'.file[g] = k.self
    BY <1>2, <2>2, <2>5
  <2>7. UpdaterInv(upd[u])'
    BY <1>2, <2>2, <2>4, <2>5, <2>6 DEF UpdaterInv, BinaryKept, HandsOver, FilesDone, Swapping, Finishing
  <2> QED BY <1>1, <1>2, <1>3, <2>4, <2>5, <2>7, UpdaterGoes
<1>5. CASE upd[u].files = {}
  <2>1. payload' = [payload EXCEPT !.version = upd[u].self] /\ upd' = [upd EXCEPT ![u].step = "done"]
    BY <1>5 DEF PayloadWrite
  <2>2. /\ payload' \in [file : [PayloadFiles -> Versions], version : Versions]
        /\ payload'.version = upd[u].self /\ payload'.file = payload.file
    BY <1>1, <1>2, <2>1
  <2>3. upd' \in [Updaters -> UpdRecords] /\ upd'[u].step = "done" /\ upd'[u].self = upd[u].self
    BY <1>1, <2>1, StepSet
  <2>4. UpdaterInv(upd[u])'
    BY <1>2, <2>2, <2>3 DEF UpdaterInv, BinaryKept, HandsOver, FilesDone, Swapping, Finishing
  <2>5. \A f \in PayloadFiles : payload'.file[f] = payload'.version
    BY <1>2, <1>5, <2>2
  <2> QED BY <1>1, <1>2, <1>3, <2>2, <2>3, <2>4, <2>5, UpdaterGoes
<1> QED BY <1>4, <1>5

\* A failure, wherever the command was.
LEMMA UpdateFailsInv ==
  ASSUME UpdateInv, SingleUpdater, NEW u \in Updaters, UpdateFails(u)
  PROVE  UpdateInv'
<1>1. /\ upd \in [Updaters -> UpdRecords] /\ bin \in BinRecords /\ BinaryRecoverable /\ skill \in Versions
      /\ payload \in [file : [PayloadFiles -> Versions], version : Versions] /\ comp \in [Parts -> CompRecords]
  BY DEF UpdateInv, UpdateShapes
<1>2. upd' = [upd EXCEPT ![u].step = "failed"] /\ UNCHANGED <<latest, bin, skill, comp, payload, adm>>
  BY DEF UpdateFails
<1>3. upd' \in [Updaters -> UpdRecords] /\ upd'[u].step = "failed"
  BY <1>1, <1>2, StepSet
<1>4. UpdaterInv(upd[u])'
  BY <1>3 DEF UpdaterInv, BinaryKept, HandsOver, FilesDone, Swapping, Finishing
<1>5. BinaryRecoverable'
  BY <1>1, <1>2 DEF BinaryRecoverable
<1> QED BY <1>1, <1>2, <1>3, <1>4, <1>5, UpdaterGoes

\* The administrator's command goes on to the next component.
LEMMA AdminNextIs ==
  ASSUME adm \in AdmRecords, NEW failed \in BOOLEAN
  PROVE  /\ AdminNext(failed) \in AdmRecords /\ AdminNext(failed).release = adm.release
         /\ AdminNext(failed).at = "sidecar" /\ AdminNext(failed).failed = failed
         /\ AdminNext(failed).step = IF adm.at = "auth" THEN "push" ELSE IF failed THEN "failed" ELSE "done"
<1> DEFINE k == [adm EXCEPT !.step = "push", !.at = "sidecar", !.failed = failed]
           l == [adm EXCEPT !.step = IF failed THEN "failed" ELSE "done", !.failed = failed]
<1>1. /\ k \in AdmRecords /\ k.release = adm.release /\ k.at = "sidecar" /\ k.failed = failed /\ k.step = "push"
  BY DEF AdmRecords, Parts
<1>2. /\ l \in AdmRecords /\ l.release = adm.release /\ l.at = adm.at /\ l.failed = failed
      /\ l.step = IF failed THEN "failed" ELSE "done"
  BY DEF AdmRecords, Parts
<1>3. AdminNext(failed) = IF adm.at = "auth" THEN k ELSE l
  BY DEF AdminNext
<1>4. adm.at \in {"auth", "sidecar"}
  BY DEF AdmRecords, Parts
<1> HIDE DEF k, l
<1> QED BY <1>1, <1>2, <1>3, <1>4

\* The administrator's command moves: the executable, the payload and the other
\* commands, whose reports may be withdrawn, are left alone.
LEMMA AdminKeeps ==
  ASSUME UpdateInv, UNCHANGED <<bin, skill, payload>>, upd' = upd \/ upd' = Stale,
         latest' \in Versions \ {0}, comp' \in [Parts -> CompRecords], adm' \in AdmRecords, AdminInv'
  PROVE  UpdateInv'
<1>1. upd' \in [Updaters -> UpdRecords] /\ \A u \in Updaters : UpdaterInv(upd[u])'
  <2>1. CASE upd' = upd
    BY <2>1 DEF UpdateInv, UpdateShapes, UpdaterInv, BinaryKept, HandsOver, FilesDone
  <2>2. CASE upd' = Stale
    BY <2>2, StaleKeeps
  <2> QED BY <2>1, <2>2
<1>2. UpdateShapes'
  BY <1>1 DEF UpdateInv, UpdateShapes
<1>3. BinaryRecoverable'
  BY DEF UpdateInv, BinaryRecoverable
<1> QED BY <1>1, <1>2, <1>3 DEF UpdateInv

LEMMA AdminSteps ==
  ASSUME UpdateInv, AdminStart \/ AdminStep \/ AdminFails \/ Publish
  PROVE  UpdateInv'
<1>1. /\ comp \in [Parts -> CompRecords] /\ adm \in AdmRecords /\ latest \in Versions \ {0} /\ AdminInv
      /\ adm.at \in Parts /\ adm.release \in Versions /\ adm.failed \in BOOLEAN
      /\ Parts = {"auth", "sidecar"}
  BY DEF UpdateInv, UpdateShapes, AdmRecords, Parts
<1>2. CASE Publish
  <2>1. UNCHANGED <<bin, skill, comp, payload, adm>> /\ upd' = Stale /\ latest' = latest + 1 /\ latest < MaxRelease
    BY <1>2 DEF Publish
  <2>2. latest' \in Versions \ {0}
    BY <2>1, <1>1, UpdateAssumption DEF Versions, UpdateAssumption
  <2>3. AdminInv'
    BY <2>1, <1>1 DEF AdminInv
  <2> QED BY <1>1, <2>1, <2>2, <2>3, AdminKeeps
<1>3. CASE AdminStart
  <2>1. /\ adm' = [step |-> "push", release |-> latest, at |-> "auth", failed |-> FALSE]
        /\ UNCHANGED <<latest, bin, skill, comp, payload, upd>>
    BY <1>3 DEF AdminStart
  <2>2. adm' \in AdmRecords /\ adm'.step = "push" /\ adm'.at = "auth"
    BY <2>1, <1>1 DEF AdmRecords, Parts
  <2>3. AdminInv'
    BY <2>2 DEF AdminInv
  <2> QED BY <1>1, <2>1, <2>2, <2>3, AdminKeeps
<1>4. CASE AdminPush
  <2> DEFINE k == [comp[adm.at] EXCEPT !.file = adm.release]
             l == [adm EXCEPT !.step = "stamp"]
  <2>1. /\ adm.step = "push" /\ comp' = [comp EXCEPT ![adm.at] = k] /\ adm' = l
        /\ UNCHANGED <<latest, bin, skill, payload, upd>>
    BY <1>4 DEF AdminPush
  <2>2. k \in CompRecords /\ k.file = adm.release /\ k.run = comp[adm.at].run
    BY <1>1 DEF CompRecords
  <2>3. l \in AdmRecords /\ l.step = "stamp" /\ l.at = adm.at /\ l.failed = adm.failed /\ l.release = adm.release
    BY <1>1 DEF AdmRecords
  <2> HIDE DEF k, l
  <2>4. /\ comp' \in [Parts -> CompRecords] /\ comp'[adm.at] = k
        /\ \A p \in Parts : p # adm.at => comp'[p] = comp[p]
    BY <1>1, <2>1, <2>2
  <2>5. AdminInv'
    BY <1>1, <2>1, <2>2, <2>3, <2>4 DEF AdminInv
  <2> QED BY <1>1, <2>1, <2>3, <2>4, <2>5, AdminKeeps
<1>5. CASE AdminStamp
  <2> DEFINE k == [comp[adm.at] EXCEPT !.stamp = adm.release]
             l == [adm EXCEPT !.step = "restart"]
  <2>1. /\ adm.step = "stamp" /\ comp' = [comp EXCEPT ![adm.at] = k] /\ adm' = l
        /\ UNCHANGED <<latest, bin, skill, payload, upd>>
    BY <1>5 DEF AdminStamp
  <2>2. k \in CompRecords /\ k.file = comp[adm.at].file /\ k.run = comp[adm.at].run
    BY <1>1 DEF CompRecords
  <2>3. l \in AdmRecords /\ l.step = "restart" /\ l.at = adm.at /\ l.failed = adm.failed /\ l.release = adm.release
    BY <1>1 DEF AdmRecords
  <2> HIDE DEF k, l
  <2>4. /\ comp' \in [Parts -> CompRecords] /\ comp'[adm.at] = k
        /\ \A p \in Parts : p # adm.at => comp'[p] = comp[p]
    BY <1>1, <2>1, <2>2
  <2>5. AdminInv'
    BY <1>1, <2>1, <2>2, <2>3, <2>4 DEF AdminInv
  <2> QED BY <1>1, <2>1, <2>3, <2>4, <2>5, AdminKeeps
<1>6. CASE AdminRestart
  <2> DEFINE k == [comp[adm.at] EXCEPT !.run = comp[adm.at].file]
  <2>1. /\ adm.step = "restart" /\ comp' = [comp EXCEPT ![adm.at] = k] /\ adm' = AdminNext(adm.failed)
        /\ UNCHANGED <<latest, bin, skill, payload>> /\ upd' = Stale
    BY <1>6 DEF AdminRestart
  <2>2. k \in CompRecords /\ k.file = comp[adm.at].file /\ k.run = comp[adm.at].file
    BY <1>1 DEF CompRecords
  <2> HIDE DEF k
  <2>3. /\ adm' \in AdmRecords /\ adm'.release = adm.release /\ adm'.at = "sidecar" /\ adm'.failed = adm.failed
        /\ adm'.step = IF adm.at = "auth" THEN "push" ELSE IF adm.failed THEN "failed" ELSE "done"
    BY <1>1, <2>1, AdminNextIs
  <2>4. /\ comp' \in [Parts -> CompRecords] /\ comp'[adm.at] = k
        /\ \A p \in Parts : p # adm.at => comp'[p] = comp[p]
    BY <1>1, <2>1, <2>2
  <2>5. AdminInv'
    BY <1>1, <2>1, <2>2, <2>3, <2>4 DEF AdminInv
  <2> QED BY <1>1, <2>1, <2>3, <2>4, <2>5, AdminKeeps
<1>7. CASE AdminFails
  <2>1. adm' = AdminNext(TRUE) /\ UNCHANGED <<latest, bin, skill, comp, payload, upd>>
    BY <1>7 DEF AdminFails
  <2>2. /\ adm' \in AdmRecords /\ adm'.failed = TRUE /\ adm'.step \in {"push", "failed"}
    BY <1>1, <2>1, AdminNextIs
  <2>3. AdminInv'
    BY <2>2 DEF AdminInv
  <2> QED BY <1>1, <2>1, <2>2, <2>3, AdminKeeps
<1> QED BY <1>2, <1>3, <1>4, <1>5, <1>6, <1>7 DEF AdminStep

\* A step of any command keeps it, and writes VERSION after the last file.
LEMMA UpdateStepInv ==
  ASSUME UpdateInv, SingleUpdater, [UpdateNext]_updVars
  PROVE  /\ UpdateInv'
         /\ [payload'.version # payload.version =>
               \A f \in PayloadFiles : payload'.file[f] = payload'.version]_updVars
<1>1. CASE AdminStart \/ AdminStep \/ AdminFails \/ Publish
  <2>1. payload' = payload
    BY <1>1 DEF AdminStart, AdminStep, AdminPush, AdminStamp, AdminRestart, AdminFails, Publish
  <2> QED BY <1>1, <2>1, AdminSteps
<1>2. ASSUME NEW u \in Updaters, NEW r \in 1 .. MaxRelease, UpdateStart(u, r)
      PROVE  UpdateInv' /\ payload' = payload
  BY <1>2, UpdateStartInv DEF UpdateStart
<1>3. ASSUME NEW u \in Updaters, ApplyStage(u) \/ ApplyUnbak(u) \/ ApplyAside(u) \/ ApplySwap(u)
      PROVE  UpdateInv' /\ payload' = payload
  BY <1>3, BinaryReplaced DEF ApplyStage, ApplyUnbak, ApplyAside, ApplySwap
<1>4. ASSUME NEW u \in Updaters, UpdateRerun(u) PROVE UpdateInv' /\ payload' = payload
  BY <1>4, HandedOver DEF UpdateRerun
<1>5. ASSUME NEW u \in Updaters, SidecarPush(u) \/ SidecarStamp(u) \/ SidecarRestart(u) \/ SkillAside(u) \/ SkillIn(u) \/ SkillFails(u)
      PROVE  UpdateInv' /\ payload' = payload
  BY <1>5, StagesKeep DEF SidecarPush, SidecarStamp, SidecarRestart, SkillAside, SkillIn, SkillFails
<1>6. ASSUME NEW u \in Updaters, UpdateFails(u) PROVE UpdateInv' /\ payload' = payload
  BY <1>6, UpdateFailsInv DEF UpdateFails
<1>7. ASSUME NEW u \in Updaters, PayloadWrite(u)
      PROVE  /\ UpdateInv'
             /\ payload'.version # payload.version => \A f \in PayloadFiles : payload'.file[f] = payload'.version
  BY <1>7, PayloadKeeps
<1>8. CASE UNCHANGED updVars
  BY <1>8 DEF updVars, UpdateInv, UpdateShapes, BinaryRecoverable, UpdaterInv, BinaryKept, HandsOver, FilesDone,
              AdminInv
<1> QED BY <1>1, <1>2, <1>3, <1>4, <1>5, <1>6, <1>7, <1>8 DEF UpdateNext, UpdaterStep

\* Self updates (update.Apply, rerunUpdateWithNewCLI, ensureV2PlatformPayload,
\* newAdminUpdateCommand): wherever a single `sc update` fails or is killed,
\* among the administrator's and any number of releases and failures, an
\* executable is left, done means that the payload is the executable's, a
\* successful administrator's update runs what it installed, and VERSION is
\* written after every file.
THEOREM UpdatesRecover ==
  ASSUME SingleUpdater
  PROVE  UpdateSpec => UpdatesRecoverable
<1>1. UpdateInv => BinaryRecoverable /\ HandedOverDone /\ AdminDoneRuns
  <2> SUFFICES ASSUME UpdateInv PROVE BinaryRecoverable /\ HandedOverDone /\ AdminDoneRuns
    OBVIOUS
  <2>1. HandedOverDone
    BY DEF UpdateInv, UpdaterInv, HandsOver, HandedOverDone
  <2>2. AdminDoneRuns
    BY DEF UpdateInv, AdminInv, AdminDoneRuns, Parts
  <2> QED BY <2>1, <2>2 DEF UpdateInv
<1>2. UpdateInv /\ [UpdateNext]_updVars => UpdateInv'
  BY UpdateStepInv
<1>3. UpdateInv /\ [UpdateNext]_updVars
        => [payload'.version # payload.version =>
              \A f \in PayloadFiles : payload'.file[f] = payload'.version]_updVars
  BY UpdateStepInv
<1> QED BY <1>1, <1>2, <1>3, UpdateInitInv, PTL DEF UpdateSpec, UpdatesRecoverable, VersionWrittenLast

UpdateTyped == UpdateShapes /\ upFaults \in 0 .. MaxUpFaults

LEMMA UpdateTypes == UpdateTyped <=> UpdateTypeOK
<1>1. Swapping \cup Finishing \cup {"idle", "done", "failed"} =
        {"idle", "stage", "unbak", "aside", "swap", "rerun", "push",
         "stamp", "restart", "skill", "skillin", "files", "done", "failed"}
  BY DEF Swapping, Finishing
<1> QED BY <1>1 DEF UpdateTyped, UpdateShapes, UpdateTypeOK, BinRecords, CompRecords, UpdRecords, AdmRecords

\* The executable's three files, by several commands at once.
LEMMA BinaryTyped ==
  ASSUME UpdateShapes, NEW u \in Updaters,
         ApplyStage(u) \/ ApplyUnbak(u) \/ ApplyAside(u) \/ ApplySwap(u)
  PROVE  UpdateShapes'
<1>1. /\ bin \in BinRecords /\ upd \in [Updaters -> UpdRecords] /\ upd[u] \in UpdRecords /\ 0 \in Versions
      /\ upd[u].release \in Versions
  BY UpdateAssumption DEF UpdateShapes, UpdateAssumption, Versions, UpdRecords
<1>2. UNCHANGED <<latest, skill, comp, payload, adm>>
  BY DEF ApplyStage, ApplyUnbak, ApplyAside, ApplySwap
<1>3. \E s \in {"unbak", "aside", "swap", "failed", "done", "rerun"} : upd' = [upd EXCEPT ![u].step = s]
  BY DEF ApplyStage, ApplyUnbak, ApplyAside, ApplySwap
<1>4. PICK s \in {"unbak", "aside", "swap", "failed", "done", "rerun"} : upd' = [upd EXCEPT ![u].step = s]
  BY <1>3
<1>5. upd' \in [Updaters -> UpdRecords]
  BY <1>1, <1>4, StepSet DEF Swapping
<1>6. bin' \in BinRecords
  <2>1. CASE ApplyStage(u)
    BY <1>1, <2>1 DEF ApplyStage, BinRecords
  <2>2. CASE ApplyUnbak(u)
    BY <1>1, <2>2 DEF ApplyUnbak, BinRecords
  <2>3. CASE ApplyAside(u)
    <3>1. bin' = [bin EXCEPT !.bak = bin.real, !.real = 0] \/ bin' = [bin EXCEPT !.new = 0]
      BY <2>3 DEF ApplyAside
    <3> QED BY <1>1, <3>1 DEF BinRecords
  <2>4. CASE ApplySwap(u)
    <3>1. \/ bin' = [bin EXCEPT !.real = bin.new, !.new = 0]
          \/ bin' = [real |-> bin.bak, new |-> 0, bak |-> 0]
          \/ bin' = bin
      BY <2>4 DEF ApplySwap
    <3>2. [bin EXCEPT !.real = bin.new, !.new = 0] \in BinRecords
      BY <1>1 DEF BinRecords
    <3>3. [real |-> bin.bak, new |-> 0, bak |-> 0] \in BinRecords
      BY <1>1 DEF BinRecords
    <3> QED BY <1>1, <3>1, <3>2, <3>3
  <2> QED BY <2>1, <2>2, <2>3, <2>4
<1> QED BY <1>2, <1>5, <1>6 DEF UpdateShapes

\* A table, of the running executable or of the one that was installed.
LEMMA TableTyped ==
  ASSUME UpdateShapes, NEW u \in Updaters, (\E release : UpdateStart(u, release)) \/ UpdateRerun(u)
  PROVE  UpdateShapes'
<1>1. /\ upd \in [Updaters -> UpdRecords] /\ upd[u] \in UpdRecords /\ bin.real \in Versions
  BY DEF UpdateShapes, BinRecords
<1>2. UNCHANGED <<latest, bin, skill, comp, payload, adm>>
  BY DEF UpdateStart, UpdateRerun
<1>3. PICK todo : todo = Outdated(bin.real)
  OBVIOUS
<1>4. todo \in SUBSET {"sidecar", "skill", "payload"}
  BY <1>3 DEF Outdated
<1>5. Stage(todo) \in {"push", "skill", "files", "done"}
  BY StageOf
<1>6. ASSUME NEW release, UpdateStart(u, release) PROVE upd' \in [Updaters -> UpdRecords]
  <2>1. PICK s : s = IF release # bin.real THEN "stage" ELSE Stage(todo)
    OBVIOUS
  <2> DEFINE r == [step |-> s, self |-> bin.real, release |-> release, final |-> FALSE, todo |-> todo, files |-> PayloadFiles]
  <2>2. release \in 1 .. latest /\ latest \in 0 .. MaxRelease /\ MaxRelease \in Nat
    BY <1>6, UpdateAssumption DEF UpdateStart, Versions, UpdateShapes, UpdateAssumption
  <2>3. release \in Versions
    BY <2>2 DEF Versions
  <2>4. r \in UpdRecords
    BY <1>1, <1>4, <1>5, <2>1, <2>3 DEF UpdRecords, Swapping, Finishing
  <2>5. upd' = [upd EXCEPT ![u] = r]
    BY <1>3, <1>6, <2>1 DEF UpdateStart
  <2> HIDE DEF r
  <2> QED BY <1>1, <2>4, <2>5
<1>7. CASE UpdateRerun(u)
  <2> DEFINE k == [upd[u] EXCEPT !.self = bin.real, !.final = TRUE, !.todo = todo, !.step = Stage(todo)]
             f == [upd[u] EXCEPT !.step = "failed"]
  <2>1. k \in UpdRecords /\ f \in UpdRecords
    BY <1>1, <1>4, <1>5 DEF UpdRecords, Swapping, Finishing
  <2>2. upd' = [upd EXCEPT ![u] = IF bin.real = 0 THEN f ELSE k]
    BY <1>3, <1>7 DEF UpdateRerun
  <2> HIDE DEF k, f
  <2>3. upd' \in [Updaters -> UpdRecords]
    BY <1>1, <2>1, <2>2
  <2> QED BY <1>2, <2>3 DEF UpdateShapes
<1> QED BY <1>2, <1>6, <1>7 DEF UpdateShapes

\* The sidecar and the skill.
LEMMA StagesTyped ==
  ASSUME UpdateShapes, NEW u \in Updaters,
         SidecarPush(u) \/ SidecarStamp(u) \/ SidecarRestart(u) \/ SkillAside(u) \/ SkillIn(u) \/ SkillFails(u)
           \/ UpdateFails(u)
  PROVE  UpdateShapes'
<1>1. /\ comp \in [Parts -> CompRecords] /\ skill \in Versions /\ 0 \in Versions /\ upd \in [Updaters -> UpdRecords]
      /\ upd[u] \in UpdRecords /\ upd[u].self \in Versions
      /\ comp["auth"] \in CompRecords /\ comp["sidecar"] \in CompRecords
  BY UpdateAssumption DEF UpdateShapes, UpdateAssumption, Versions, Parts, UpdRecords
<1>2. \A todo : Stage(upd[u].todo \ todo) \in Finishing \cup {"done"}
  BY StageOf DEF Finishing
<1>3. UNCHANGED <<latest, bin, payload, adm>> /\ skill' \in Versions
  BY <1>1 DEF SidecarPush, SidecarStamp, SidecarRestart, SkillAside, SkillIn, SkillFails, UpdateFails
<1>4. \E s \in Finishing \cup {"done", "failed"} : upd' = [upd EXCEPT ![u].step = s]
  <2>1. CASE SidecarRestart(u)
    BY <1>2, <2>1 DEF SidecarRestart
  <2>2. CASE SkillIn(u) \/ SkillFails(u)
    BY <1>2, <2>2 DEF SkillIn, SkillFails
  <2>3. CASE SidecarPush(u) \/ SidecarStamp(u) \/ SkillAside(u) \/ UpdateFails(u)
    <3>1. \E s \in {"stamp", "restart", "skillin", "failed"} : upd' = [upd EXCEPT ![u].step = s]
      BY <2>3 DEF SidecarPush, SidecarStamp, SkillAside, UpdateFails
    <3> QED BY <3>1 DEF Finishing
  <2> QED BY <2>1, <2>2, <2>3
<1>5. upd' \in [Updaters -> UpdRecords]
  BY <1>1, <1>4, StepSet
<1>6. comp' \in [Parts -> CompRecords]
  <2> DEFINE p == [comp["sidecar"] EXCEPT !.file = comp["auth"].file]
             s == [comp["sidecar"] EXCEPT !.stamp = comp["auth"].run]
             r == [comp["sidecar"] EXCEPT !.run = comp["sidecar"].file]
  <2>1. p \in CompRecords /\ s \in CompRecords /\ r \in CompRecords
    BY <1>1 DEF CompRecords
  <2>2. comp' = comp \/ \E k \in {p, s, r} : comp' = [comp EXCEPT !["sidecar"] = k]
    BY DEF SidecarPush, SidecarStamp, SidecarRestart, SkillAside, SkillIn, SkillFails, UpdateFails
  <2> HIDE DEF p, s, r
  <2> QED BY <1>1, <2>1, <2>2
<1> QED BY <1>3, <1>5, <1>6 DEF UpdateShapes

LEMMA PayloadTyped ==
  ASSUME UpdateShapes, NEW u \in Updaters, PayloadWrite(u)
  PROVE  UpdateShapes'
<1>1. /\ upd \in [Updaters -> UpdRecords] /\ upd[u] \in UpdRecords /\ upd[u].self \in Versions
      /\ payload \in [file : [PayloadFiles -> Versions], version : Versions] /\ upd[u].files \subseteq PayloadFiles
      /\ UNCHANGED <<latest, bin, skill, comp, adm>>
  BY DEF UpdateShapes, UpdRecords, PayloadWrite
<1>2. CASE upd[u].files # {}
  <2>1. PICK f \in upd[u].files :
           /\ payload' = [payload EXCEPT !.file[f] = upd[u].self]
           /\ upd' = [upd EXCEPT ![u].files = @ \ {f}]
    BY <1>2 DEF PayloadWrite
  <2> DEFINE k == [upd[u] EXCEPT !.files = @ \ {f}]
  <2>2. k \in UpdRecords
    BY <1>1 DEF UpdRecords
  <2>3. upd' = [upd EXCEPT ![u] = k]
    BY <2>1
  <2> HIDE DEF k
  <2>4. payload' \in [file : [PayloadFiles -> Versions], version : Versions]
    BY <1>1, <2>1
  <2> QED BY <1>1, <2>2, <2>3, <2>4 DEF UpdateShapes
<1>3. CASE upd[u].files = {}
  <2>1. payload' = [payload EXCEPT !.version = upd[u].self] /\ upd' = [upd EXCEPT ![u].step = "done"]
    BY <1>3 DEF PayloadWrite
  <2>2. upd' \in [Updaters -> UpdRecords]
    BY <1>1, <2>1, StepSet
  <2> QED BY <1>1, <2>1, <2>2 DEF UpdateShapes
<1> QED BY <1>2, <1>3

\* The administrator's command, and a release.
LEMMA AdminStepsTyped ==
  ASSUME UpdateShapes, AdminStart \/ AdminStep \/ AdminFails \/ Publish
  PROVE  UpdateShapes'
<1>1. /\ comp \in [Parts -> CompRecords] /\ adm \in AdmRecords /\ latest \in Versions \ {0}
      /\ adm.at \in Parts /\ adm.release \in Versions /\ adm.failed \in BOOLEAN
      /\ upd \in [Updaters -> UpdRecords] /\ Parts = {"auth", "sidecar"}
      /\ UNCHANGED <<bin, skill, payload>>
  BY DEF UpdateShapes, AdmRecords, Parts, AdminStart, AdminStep, AdminPush, AdminStamp, AdminRestart, AdminFails, Publish
<1>2. upd' \in [Updaters -> UpdRecords]
  <2>1. IdleUpd \in UpdRecords
    BY UpdateAssumption DEF IdleUpd, UpdRecords, UpdateAssumption, Versions
  <2>2. upd' = upd \/ upd' = Stale
    BY DEF AdminStart, AdminStep, AdminPush, AdminStamp, AdminRestart, AdminFails, Publish
  <2> QED BY <1>1, <2>1, <2>2 DEF Stale
<1>3. latest' \in Versions \ {0}
  <2>1. CASE Publish
    BY <1>1, <2>1, UpdateAssumption DEF Versions, UpdateAssumption, Publish
  <2>2. CASE ~Publish
    BY <1>1, <2>2 DEF AdminStart, AdminStep, AdminPush, AdminStamp, AdminRestart, AdminFails
  <2> QED BY <2>1, <2>2
<1>4. adm' \in AdmRecords
  <2> DEFINE s == [adm EXCEPT !.step = "stamp"]
             r == [adm EXCEPT !.step = "restart"]
             p == [step |-> "push", release |-> latest, at |-> "auth", failed |-> FALSE]
  <2>1. s \in AdmRecords /\ r \in AdmRecords /\ p \in AdmRecords
    BY <1>1 DEF AdmRecords
  <2>2. adm' \in {adm, s, r, p} \/ \E failed \in BOOLEAN : adm' = AdminNext(failed)
    BY <1>1 DEF AdminStart, AdminStep, AdminPush, AdminStamp, AdminRestart, AdminFails, Publish
  <2> HIDE DEF s, r, p
  <2> QED BY <1>1, <2>1, <2>2, AdminNextIs
<1>5. comp' \in [Parts -> CompRecords]
  <2>1. PICK c : c = comp[adm.at] /\ c \in CompRecords
    BY <1>1
  <2> DEFINE p == [c EXCEPT !.file = adm.release]
             s == [c EXCEPT !.stamp = adm.release]
             r == [c EXCEPT !.run = c.file]
  <2>2. p \in CompRecords /\ s \in CompRecords /\ r \in CompRecords
    BY <1>1, <2>1 DEF CompRecords
  <2>3. comp' = comp \/ \E k \in {p, s, r} : comp' = [comp EXCEPT ![adm.at] = k]
    BY <2>1 DEF AdminStart, AdminStep, AdminPush, AdminStamp, AdminRestart, AdminFails, Publish
  <2> HIDE DEF p, s, r
  <2> QED BY <1>1, <2>2, <2>3
<1> QED BY <1>1, <1>2, <1>3, <1>4, <1>5 DEF UpdateShapes

\* Whatever updates run at once, fail and are killed.
LEMMA UpdatesTyped ==
  ASSUME UpdateTyped, [UpdateNext]_updVars
  PROVE  UpdateTyped'
<1>1. UpdateShapes /\ upFaults \in 0 .. MaxUpFaults
  BY DEF UpdateTyped
<1>2. UpdateShapes'
  <2>1. CASE UNCHANGED updVars
    BY <1>1, <2>1 DEF updVars, UpdateShapes
  <2> QED BY <1>1, <2>1, BinaryTyped, TableTyped, StagesTyped, PayloadTyped, AdminStepsTyped DEF UpdateNext, UpdaterStep
<1>3. upFaults' = upFaults \/ (upFaults' = upFaults + 1 /\ upFaults < MaxUpFaults)
  BY DEF UpdateNext, UpdaterStep, updVars, ApplyStage, ApplyUnbak, ApplyAside, ApplySwap, UpdateStart, UpdateRerun,
         SidecarPush, SidecarStamp, SidecarRestart, SkillAside, SkillIn, SkillFails, UpdateFails, PayloadWrite,
         AdminStart, AdminStep, AdminPush, AdminStamp, AdminRestart, AdminFails, Publish
<1>4. upFaults' \in 0 .. MaxUpFaults
  BY <1>1, <1>3, UpdateAssumption DEF UpdateAssumption
<1> QED BY <1>2, <1>4 DEF UpdateTyped

LEMMA UpdateTypedInitially == UpdateInit => UpdateTyped
<1>1. UpdateInit => UpdateShapes
  BY UpdateInitInv DEF UpdateInv
<1> QED BY <1>1, UpdateAssumption DEF UpdateTyped, UpdateInit, UpdateAssumption

\* The binary, its copies, the components and the payload stay versions that
\* were released.
THEOREM UpdatesStayTyped == UpdateSpec => []UpdateTypeOK
<1>1. UpdateInit => UpdateTyped
  BY UpdateTypedInitially
<1>2. UpdateTyped /\ [UpdateNext]_updVars => UpdateTyped'
  BY UpdatesTyped
<1>3. UpdateTyped => UpdateTypeOK
  BY UpdateTypes
<1> QED BY <1>1, <1>2, <1>3, PTL DEF UpdateSpec

-----------------------------------------------------------------------------
(* Machines                                                                *)

LifeOps == {"start", "stop", "restart", "delete", "deleteAll"}
CommandRecords == [op : LifeOps \cup {"create", "bare", "connect"}, places : (SUBSET Places) \ {{}}, names : Seq(HostNames)]
InstRecords == [st : {"none", "running", "stopped"}, names : SUBSET HostNames, bare : BOOLEAN]
Creating == {"claim", "get", "post", "wait"}
TermRecords ==
  [cmd : CommandRecords \cup {NoCommand},
   step : Creating \cup {"idle", "undo", "ensure", "start", "bare", "act", "ok", "failed"},
   left : Seq(HostNames), claimed : Seq(HostNames), own : SUBSET HostNames, before : SUBSET HostNames,
   todo : [Places -> {"none", "get", "force", "apply", "done"}],
   result : [Places -> {"none", "ok", "error", "stale", "created", "exec", "ssh"}]]

PlaceIn(c) == CHOOSE p \in c.places : TRUE
ElemsOf(s) == {s[i] : i \in 1 .. Len(s)}

\* What a report of an operation says of the machine.
SaysTrue(op, st) == CASE op \in {"delete", "deleteAll"} -> st = "none"
                   [] op = "stop" -> st = "stopped"
                   [] OTHER -> st = "running"

\* Only an action that is through with a machine reports it, and it is so.
ReportKept(r) ==
  /\ r.step = "act" => r.cmd.op \in LifeOps
  /\ \A p \in Places : r.result[p] = "ok" =>
       r.step \in {"act", "ok", "failed"} /\ r.todo[p] = "done" /\ SaysTrue(r.cmd.op, inst[p].st)

\* The names a command has claimed itself are its machine's, and it remembers
\* to release them.
OwnKept(r) ==
  /\ r.step # "idle" => r.cmd \in CommandRecords
  /\ \A h \in r.own : holds[h] # NoPlace /\ holds[h] = PlaceIn(r.cmd)
  /\ r.step \in Creating => r.own \subseteq ElemsOf(r.claimed)
  /\ r.step = "undo" /\ "release" \notin LifeFaults => r.own \subseteq ElemsOf(r.claimed)
  /\ r.step = "failed" /\ "release" \notin LifeFaults => r.own = {}
  /\ r.step \in {"ensure", "start", "bare", "act"} => r.own = {}

LifeShapes ==
  /\ inst \in [Places -> InstRecords] /\ holds \in [HostNames -> Places \cup {NoPlace}]
  /\ term \in [Terminals -> TermRecords]

LifeInv == LifeShapes /\ \A t \in Terminals : ReportKept(term[t]) /\ OwnKept(term[t])

LEMMA NoInstType == NoInst \in InstRecords /\ NoInst.st = "none"
  BY DEF NoInst, InstRecords

LEMMA IdleTermType ==
  /\ IdleTerm \in TermRecords /\ IdleTerm.step = "idle" /\ IdleTerm.own = {} /\ IdleTerm.claimed = <<>>
  /\ \A p \in Places : IdleTerm.result[p] = "none"
<1> DEFINE f == [p \in Places |-> "none"]
<1>1. <<>> \in Seq(HostNames)
  OBVIOUS
<1>2. /\ f \in [Places -> {"none", "get", "force", "apply", "done"}]
      /\ f \in [Places -> {"none", "ok", "error", "stale", "created", "exec", "ssh"}]
      /\ \A p \in Places : f[p] = "none"
  OBVIOUS
<1>3. IdleTerm = [cmd |-> NoCommand, step |-> "idle", left |-> <<>>, claimed |-> <<>>, own |-> {},
                  before |-> {}, todo |-> f, result |-> f]
  BY DEF IdleTerm
<1> HIDE DEF f
<1>4. NoCommand \in CommandRecords \cup {NoCommand} /\ {} \in SUBSET HostNames
  OBVIOUS
<1>5. IdleTerm \in TermRecords
  <2> DEFINE commands == CommandRecords \cup {NoCommand}
             none == NoCommand
  <2> HIDE DEF commands, none
  <2>1. none \in commands
    BY <1>4 DEF commands, none
  <2>2. IdleTerm = [cmd |-> none, step |-> "idle", left |-> <<>>, claimed |-> <<>>, own |-> {},
                    before |-> {}, todo |-> f, result |-> f]
    BY <1>3 DEF none
  <2>3. IdleTerm \in [cmd : commands,
           step : Creating \cup {"idle", "undo", "ensure", "start", "bare", "act", "ok", "failed"},
           left : Seq(HostNames), claimed : Seq(HostNames), own : SUBSET HostNames, before : SUBSET HostNames,
           todo : [Places -> {"none", "get", "force", "apply", "done"}],
           result : [Places -> {"none", "ok", "error", "stale", "created", "exec", "ssh"}]]
    BY <1>1, <1>2, <2>1, <2>2
  <2> QED BY <2>3 DEF TermRecords, commands
<1> QED BY <1>2, <1>3, <1>5

LEMMA PlaceInCommand ==
  ASSUME NEW c \in CommandRecords PROVE PlaceIn(c) \in Places
<1>1. c.places \in SUBSET Places /\ c.places # {}
  BY DEF CommandRecords
<1> QED BY <1>1 DEF PlaceIn

LEMMA LifeInitInv == LifeInit => LifeInv
<1> SUFFICES ASSUME LifeInit PROVE LifeInv
  OBVIOUS
<1>1. LifeShapes
  BY IdleTermType, NoInstType DEF LifeInit, LifeShapes
<1>2. ASSUME NEW t \in Terminals PROVE ReportKept(term[t]) /\ OwnKept(term[t])
  BY <1>2, IdleTermType DEF LifeInit, ReportKept, OwnKept, Creating
<1> QED BY <1>1, <1>2 DEF LifeInv

\* A command looks on: what others did to it are reports withdrawn of machines
\* that changed, and names taken from it.
LEMMA TermLooksOn ==
  ASSUME NEW r \in TermRecords, ReportKept(r), OwnKept(r), NEW q \in TermRecords,
         q.cmd = r.cmd, q.step = r.step, q.todo = r.todo, q.claimed = r.claimed, q.own \subseteq r.own,
         \A p \in Places : q.result[p] = "ok" => r.result[p] = "ok" /\ inst'[p].st = inst[p].st,
         \A h \in q.own : holds[h] # NoPlace => holds'[h] = holds[h]
  PROVE  ReportKept(q)' /\ OwnKept(q)'
<1>1. ReportKept(q)'
  BY DEF ReportKept
<1>2. OwnKept(q)'
  BY DEF OwnKept
<1> QED BY <1>1, <1>2

\* One command moves, no machine changes, and no reservation is lost.
LEMMA OneTermGoes ==
  ASSUME LifeInv, NEW t \in Terminals, NEW k \in TermRecords, term' = [term EXCEPT ![t] = k],
         inst' = inst, holds' \in [HostNames -> Places \cup {NoPlace}],
         \A h \in HostNames : holds[h] # NoPlace => holds'[h] = holds[h],
         ReportKept(k)', OwnKept(k)'
  PROVE  LifeInv'
<1>1. LifeShapes'
  BY DEF LifeInv, LifeShapes
<1>2. ASSUME NEW u \in Terminals PROVE ReportKept(term[u])' /\ OwnKept(term[u])'
  <2>1. CASE u = t
    <3>1. term'[u] = k
      BY <2>1 DEF LifeInv, LifeShapes
    <3> QED BY <3>1 DEF ReportKept, OwnKept
  <2>2. CASE u # t
    <3>1. PICK r : r = term[u]
      OBVIOUS
    <3>2. term'[u] = r /\ r \in TermRecords /\ ReportKept(r) /\ OwnKept(r) /\ r.own \subseteq HostNames
      BY <2>2, <3>1 DEF LifeInv, LifeShapes, TermRecords
    <3>3. ReportKept(r)' /\ OwnKept(r)'
      BY <3>2, TermLooksOn
    <3> QED BY <3>2, <3>3 DEF ReportKept, OwnKept
  <2> QED BY <2>1, <2>2
<1> QED BY <1>1, <1>2 DEF LifeInv

\* A machine changes: what others reported of it is old.
LEMMA TouchedGoes ==
  ASSUME LifeInv, NEW t \in Terminals, NEW p \in Places, NEW k \in TermRecords,
         term' = [Touched(t, p) EXCEPT ![t] = k],
         inst' \in [Places -> InstRecords], \A q \in Places : q # p => inst'[q] = inst[q], holds' = holds,
         ReportKept(k)', OwnKept(k)'
  PROVE  LifeInv'
<1> DEFINE Old(u) == [term[u] EXCEPT !.result[p] = IF @ = "ok" THEN "stale" ELSE @]
<1>1. ASSUME NEW u \in Terminals, u # t
      PROVE  /\ term'[u] \in TermRecords
             /\ ReportKept(term[u])' /\ OwnKept(term[u])'
  <2>1. PICK r, q : r = term[u] /\ q = Old(u)
    OBVIOUS
  <2>2. r \in TermRecords /\ ReportKept(r) /\ OwnKept(r) /\ r.own \subseteq HostNames
    BY <2>1 DEF LifeInv, LifeShapes, TermRecords
  <2>3. term'[u] = q
    BY <1>1, <2>1 DEF Touched
  <2>4. /\ q \in TermRecords /\ q.cmd = r.cmd /\ q.step = r.step /\ q.todo = r.todo /\ q.claimed = r.claimed
        /\ q.own = r.own /\ q.result[p] # "ok" /\ \A x \in Places : x # p => q.result[x] = r.result[x]
    <3> DEFINE v == [r.result EXCEPT ![p] = IF @ = "ok" THEN "stale" ELSE @]
    <3>1. q = [r EXCEPT !.result = v]
      BY <2>1
    <3>2. /\ v \in [Places -> {"none", "ok", "error", "stale", "created", "exec", "ssh"}] /\ v[p] # "ok"
          /\ \A x \in Places : x # p => v[x] = r.result[x]
      <4>1. r.result \in [Places -> {"none", "ok", "error", "stale", "created", "exec", "ssh"}]
        BY <2>2 DEF TermRecords
      <4> QED BY <4>1
    <3> HIDE DEF v
    <3> QED BY <2>2, <3>1, <3>2 DEF TermRecords
  <2>5. ReportKept(q)' /\ OwnKept(q)'
    BY <2>2, <2>4, TermLooksOn
  <2> QED BY <2>3, <2>4, <2>5 DEF ReportKept, OwnKept
<1>2. term'[t] = k /\ term' = [u \in Terminals |-> term'[u]]
  BY DEF Touched
<1>3. LifeShapes'
  BY <1>1, <1>2 DEF LifeInv, LifeShapes
<1>4. ReportKept(term[t])' /\ OwnKept(term[t])'
  BY <1>2 DEF ReportKept, OwnKept
<1> QED BY <1>1, <1>3, <1>4 DEF LifeInv

\* A reservation is released: nobody claims to have made it any more.
LEMMA ReleasedGoes ==
  ASSUME LifeInv, NEW t \in Terminals, NEW h \in HostNames, NEW k \in TermRecords,
         term' = [Released(t, h) EXCEPT ![t] = k],
         inst' \in [Places -> InstRecords], \A q \in Places : inst'[q].st = inst[q].st,
         holds' = [holds EXCEPT ![h] = NoPlace],
         ReportKept(k)', OwnKept(k)'
  PROVE  LifeInv'
<1> DEFINE Old(u) == [term[u] EXCEPT !.own = @ \ {h}, !.before = @ \ {h}]
<1>1. /\ holds' \in [HostNames -> Places \cup {NoPlace}]
      /\ \A x \in HostNames : x # h => holds'[x] = holds[x]
  BY DEF LifeInv, LifeShapes
<1>2. ASSUME NEW u \in Terminals, u # t
      PROVE  /\ term'[u] \in TermRecords
             /\ ReportKept(term[u])' /\ OwnKept(term[u])'
  <2>1. PICK r, q : r = term[u] /\ q = Old(u)
    OBVIOUS
  <2>2. r \in TermRecords /\ ReportKept(r) /\ OwnKept(r) /\ r.own \subseteq HostNames
    BY <2>1 DEF LifeInv, LifeShapes, TermRecords
  <2>3. term'[u] = q
    BY <1>2, <2>1 DEF Released
  <2>4. /\ q \in TermRecords /\ q.cmd = r.cmd /\ q.step = r.step /\ q.todo = r.todo /\ q.claimed = r.claimed
        /\ q.own = r.own \ {h} /\ q.result = r.result
    BY <2>1, <2>2 DEF TermRecords
  <2>5. \A x \in q.own : holds[x] # NoPlace => holds'[x] = holds[x]
    BY <1>1, <2>2, <2>4
  <2>6. ReportKept(q)' /\ OwnKept(q)'
    BY <2>2, <2>4, <2>5, TermLooksOn
  <2> QED BY <2>3, <2>4, <2>6 DEF ReportKept, OwnKept
<1>3. term'[t] = k /\ term' = [u \in Terminals |-> term'[u]]
  BY DEF Released
<1>4. LifeShapes'
  BY <1>1, <1>2, <1>3 DEF LifeShapes
<1>5. ReportKept(term[t])' /\ OwnKept(term[t])'
  BY <1>3 DEF ReportKept, OwnKept
<1> QED BY <1>2, <1>4, <1>5 DEF LifeInv

Steps == Creating \cup {"idle", "undo", "ensure", "start", "bare", "act", "ok", "failed"}

\* A command goes on to a step.
LEMMA TermStep ==
  ASSUME NEW r \in TermRecords, NEW s \in Steps
  PROVE  LET k == [r EXCEPT !.step = s] IN
           /\ k \in TermRecords /\ k.cmd = r.cmd /\ k.step = s /\ k.left = r.left /\ k.claimed = r.claimed
           /\ k.own = r.own /\ k.before = r.before /\ k.todo = r.todo /\ k.result = r.result
  BY DEF TermRecords, Steps

\* The state of a command that is under way.
LEMMA UnderWay ==
  ASSUME LifeInv, NEW t \in Terminals
  PROVE  /\ term[t] \in TermRecords /\ ReportKept(term[t]) /\ OwnKept(term[t])
         /\ term[t].step # "idle" => PlaceOf(t) \in Places /\ PlaceOf(t) = PlaceIn(term[t].cmd)
                                     /\ term[t].cmd \in CommandRecords
<1>1. term[t] \in TermRecords /\ ReportKept(term[t]) /\ OwnKept(term[t])
  BY DEF LifeInv, LifeShapes
<1>2. PlaceOf(t) = PlaceIn(term[t].cmd)
  BY DEF PlaceOf, PlaceIn
<1>3. term[t].step # "idle" => term[t].cmd \in CommandRecords
  BY <1>1 DEF OwnKept
<1> QED BY <1>1, <1>2, <1>3, PlaceInCommand

\* A new command: no name claimed, nothing reported.
LEMMA OrderTaken ==
  ASSUME LifeInv, NEW t \in Terminals, NEW c \in Commands, CommandBegin(t, c) \/ LifecycleTargets(t, c)
  PROVE  LifeInv'
<1>1. c \in CommandRecords
  BY LifeAssumption DEF LifeAssumption, CommandRecords, LifeOps
<1>2. UNCHANGED <<inst, holds>>
  BY DEF CommandBegin, LifecycleTargets
<1>3. \E k \in TermRecords :
         /\ term' = [term EXCEPT ![t] = k] /\ k.cmd = c /\ k.own = {} /\ \A p \in Places : k.result[p] # "ok"
         /\ k.step \in {"ensure", "claim", "failed", "act"} /\ (k.step = "act" => c.op \in LifeOps)
  <2>1. CASE CommandBegin(t, c)
    <3> DEFINE before == HeldBy(CHOOSE p \in c.places : TRUE)
               s == IF c.op = "connect" THEN "ensure" ELSE "claim"
               k == [IdleTerm EXCEPT !.cmd = c, !.left = c.names, !.before = before, !.step = s]
    <3>1. before \in SUBSET HostNames /\ s \in {"ensure", "claim"} /\ c.names \in Seq(HostNames)
      BY <1>1 DEF HeldBy, CommandRecords
    <3>2. term' = [term EXCEPT ![t] = k]
      BY <2>1 DEF CommandBegin
    <3> HIDE DEF before, s
    <3>3. /\ k \in TermRecords /\ k.cmd = c /\ k.own = IdleTerm.own /\ k.result = IdleTerm.result /\ k.step = s
      BY <1>1, <3>1, IdleTermType DEF TermRecords, Creating
    <3> HIDE DEF k
    <3> QED BY <3>1, <3>2, <3>3, IdleTermType
  <2>2. CASE LifecycleTargets(t, c)
    <3> DEFINE found == IF c.op = "deleteAll" THEN {p \in c.places : inst[p].st # "none"} ELSE c.places
               todo == [p \in Places |-> IF p \in found THEN "get" ELSE "none"]
               s == IF found = {} THEN "failed" ELSE "act"
               k == [IdleTerm EXCEPT !.cmd = c, !.step = s, !.todo = todo]
    <3>1. todo \in [Places -> {"none", "get", "force", "apply", "done"}] /\ s \in {"failed", "act"}
      OBVIOUS
    <3>2. term' = [term EXCEPT ![t] = k] /\ c.op \in LifeOps
      BY <2>2 DEF LifecycleTargets, LifeOps
    <3> HIDE DEF todo, s, found
    <3>3. /\ k \in TermRecords /\ k.cmd = c /\ k.own = IdleTerm.own /\ k.result = IdleTerm.result /\ k.step = s
      BY <1>1, <3>1, IdleTermType DEF TermRecords
    <3> HIDE DEF k
    <3> QED BY <3>1, <3>2, <3>3, IdleTermType
  <2> QED BY <2>1, <2>2
<1>4. PICK k \in TermRecords :
         /\ term' = [term EXCEPT ![t] = k] /\ k.cmd = c /\ k.own = {} /\ \A p \in Places : k.result[p] # "ok"
         /\ k.step \in {"ensure", "claim", "failed", "act"} /\ (k.step = "act" => c.op \in LifeOps)
  BY <1>3
<1>5. ReportKept(k)' /\ OwnKept(k)'
  BY <1>1, <1>4 DEF ReportKept, OwnKept, Creating
<1> QED BY <1>2, <1>4, <1>5, OneTermGoes DEF LifeInv, LifeShapes

\* A step that changes nothing but where the command is.
LEMMA StepOnly ==
  ASSUME LifeInv, NEW t \in Terminals, NEW s \in Steps, term' = [term EXCEPT ![t].step = s],
         UNCHANGED <<inst, holds>>, term[t].step \notin {"idle", "act", "ok", "failed"}, s \notin {"idle", "act"},
         s \in Creating \cup {"undo"} => term[t].step \in Creating \/ term[t].own = {},
         s \in {"failed", "ensure", "start", "bare"} => term[t].own = {}
  PROVE  LifeInv'
<1>1. PICK r, k : r = term[t] /\ k = [term[t] EXCEPT !.step = s]
  OBVIOUS
<1>2. r \in TermRecords /\ ReportKept(r) /\ OwnKept(r)
  BY <1>1, UnderWay
<1>3. /\ k \in TermRecords /\ k.cmd = r.cmd /\ k.step = s /\ k.claimed = r.claimed
      /\ k.own = r.own /\ k.todo = r.todo /\ k.result = r.result
  BY <1>1, <1>2, TermStep
<1>4. term' = [term EXCEPT ![t] = k]
  BY <1>1
<1>5. ReportKept(k)'
  BY <1>1, <1>2, <1>3 DEF ReportKept
<1>6. OwnKept(k)'
  BY <1>1, <1>2, <1>3 DEF OwnKept, Creating
<1> QED BY <1>3, <1>4, <1>5, <1>6, OneTermGoes DEF LifeInv, LifeShapes

\* Sequences of names.
LEMMA ElemsAppend ==
  ASSUME NEW s \in Seq(HostNames), NEW h \in HostNames
  PROVE  Append(s, h) \in Seq(HostNames) /\ ElemsOf(s) \cup {h} \subseteq ElemsOf(Append(s, h))
<1>1. /\ Append(s, h) \in Seq(HostNames) /\ Len(Append(s, h)) = Len(s) + 1 /\ Len(s) \in Nat
      /\ Append(s, h)[Len(s) + 1] = h /\ \A i \in 1 .. Len(s) : Append(s, h)[i] = s[i]
  OBVIOUS
<1>2. ASSUME NEW i \in 1 .. Len(s) PROVE s[i] \in ElemsOf(Append(s, h))
  BY <1>1 DEF ElemsOf
<1>3. h \in ElemsOf(Append(s, h))
  BY <1>1 DEF ElemsOf
<1> QED BY <1>1, <1>2, <1>3 DEF ElemsOf

LEMMA ElemsTail ==
  ASSUME NEW s \in Seq(HostNames), s # <<>>
  PROVE  Tail(s) \in Seq(HostNames) /\ Head(s) \in HostNames /\ ElemsOf(s) \subseteq ElemsOf(Tail(s)) \cup {Head(s)}
<1>1. /\ Tail(s) \in Seq(HostNames) /\ Len(Tail(s)) = Len(s) - 1 /\ Len(s) \in Nat \ {0}
      /\ Head(s) = s[1] /\ Head(s) \in HostNames /\ \A i \in 1 .. Len(Tail(s)) : Tail(s)[i] = s[i + 1]
  OBVIOUS
<1>2. ASSUME NEW i \in 1 .. Len(s) PROVE s[i] \in ElemsOf(Tail(s)) \cup {Head(s)}
  <2>1. CASE i = 1
    BY <2>1, <1>1
  <2>2. CASE i # 1
    <3>1. i - 1 \in 1 .. Len(Tail(s)) /\ Tail(s)[i - 1] = s[i]
      BY <1>1, <2>2
    <3> QED BY <3>1 DEF ElemsOf
  <2> QED BY <2>1, <2>2
<1> QED BY <1>1, <1>2 DEF ElemsOf

\* A name is claimed: it was nobody's, or the machine's already.
LEMMA NameClaimed ==
  ASSUME LifeInv, NEW t \in Terminals, ClaimName(t)
  PROVE  LifeInv'
<1>1. term[t].step = "claim" /\ UNCHANGED inst
  BY DEF ClaimName
<1>2. CASE term' = [term EXCEPT ![t].step = "get"] /\ UNCHANGED holds
  <2>1. "get" \in Steps /\ "get" \in Creating /\ term[t].step \in Creating
    BY <1>1 DEF Steps, Creating
  <2> QED BY <1>1, <1>2, <2>1, StepOnly
<1>3. CASE term' = [term EXCEPT ![t].step = "undo"] /\ UNCHANGED holds
  <2>1. "undo" \in Steps /\ term[t].step \in Creating
    BY <1>1 DEF Steps, Creating
  <2> QED BY <1>1, <1>3, <2>1, StepOnly
<1>4. CASE /\ term[t].left # <<>>
           /\ LET h == Head(term[t].left) IN
                /\ holds[h] \in {NoPlace, PlaceOf(t)}
                /\ holds' = [holds EXCEPT ![h] = PlaceOf(t)]
                /\ term' = [term EXCEPT ![t].left = Tail(@), ![t].claimed = Append(@, h),
                              ![t].own = @ \cup (IF holds[h] = NoPlace THEN {h} ELSE {})]
  <2>1. PICK r, p, h : r = term[t] /\ p = PlaceOf(t) /\ h = Head(term[t].left)
    OBVIOUS
  <2>2. /\ r \in TermRecords /\ ReportKept(r) /\ OwnKept(r) /\ p \in Places /\ p = PlaceIn(r.cmd)
        /\ r.cmd \in CommandRecords
    BY <1>1, <2>1, UnderWay
  <2>3. /\ r.left \in Seq(HostNames) /\ r.claimed \in Seq(HostNames) /\ r.own \in SUBSET HostNames
        /\ r.step = "claim" /\ r.left # <<>>
    BY <1>1, <1>4, <2>1, <2>2 DEF TermRecords
  <2>4. Tail(r.left) \in Seq(HostNames) /\ h \in HostNames
    BY <2>1, <2>3, ElemsTail
  <2>5. Append(r.claimed, h) \in Seq(HostNames) /\ ElemsOf(r.claimed) \cup {h} \subseteq ElemsOf(Append(r.claimed, h))
    BY <2>3, <2>4, ElemsAppend
  <2> DEFINE left == Tail(r.left)
             claimed == Append(r.claimed, h)
             own == r.own \cup (IF holds[h] = NoPlace THEN {h} ELSE {})
             k == [r EXCEPT !.left = left, !.claimed = claimed, !.own = own]
  <2>6. term' = [term EXCEPT ![t] = k] /\ holds' = [holds EXCEPT ![h] = p] /\ holds[h] \in {NoPlace, p}
    BY <1>4, <2>1
  <2>7. own \in SUBSET HostNames /\ own \subseteq r.own \cup {h}
    BY <2>3, <2>4
  <2>8. left \in Seq(HostNames) /\ claimed \in Seq(HostNames) /\ ElemsOf(r.claimed) \cup {h} \subseteq ElemsOf(claimed)
    BY <2>4, <2>5
  <2> HIDE DEF left, claimed, own
  <2>9. /\ k \in TermRecords /\ k.cmd = r.cmd /\ k.step = r.step /\ k.claimed = claimed
        /\ k.own = own /\ k.todo = r.todo /\ k.result = r.result
    BY <2>2, <2>7, <2>8 DEF TermRecords
  <2> HIDE DEF k
  <2>10. PICK j : j = k
    OBVIOUS
  <2>11. /\ holds' \in [HostNames -> Places \cup {NoPlace}] /\ holds'[h] = p
         /\ \A x \in HostNames : x # h => holds'[x] = holds[x]
         /\ \A x \in HostNames : holds[x] # NoPlace => holds'[x] = holds[x]
    BY <2>2, <2>4, <2>6 DEF LifeInv, LifeShapes
  <2>12. ReportKept(j)'
    BY <1>1, <2>2, <2>3, <2>9, <2>10 DEF ReportKept
  <2>13. OwnKept(j)'
    <3>1. p # NoPlace
      BY <2>2, LifeAssumption DEF LifeAssumption
    <3>2. r.own \subseteq ElemsOf(r.claimed) /\ \A x \in r.own : holds[x] # NoPlace /\ holds[x] = p
      BY <2>2, <2>3 DEF OwnKept, Creating
    <3>3. \A x \in j.own : holds'[x] # NoPlace /\ holds'[x] = PlaceIn(j.cmd)
      BY <2>2, <2>3, <2>7, <2>9, <2>10, <2>11, <3>1, <3>2
    <3>4. j.own \subseteq ElemsOf(j.claimed) /\ j.step = "claim" /\ j.cmd \in CommandRecords
      BY <2>2, <2>3, <2>7, <2>8, <2>9, <2>10, <3>2
    <3> QED BY <3>3, <3>4 DEF OwnKept, Creating
  <2> QED BY <1>1, <2>6, <2>9, <2>10, <2>11, <2>12, <2>13, OneTermGoes
<1> QED BY <1>1, <1>2, <1>3, <1>4 DEF ClaimName

\* A command changes a machine and goes on to a step: what it reports of the
\* machine, if anything, is so.
LEMMA MachineChanged ==
  ASSUME LifeInv, NEW t \in Terminals, NEW p \in Places, NEW i \in InstRecords, NEW k \in TermRecords,
         inst' = [inst EXCEPT ![p] = i], holds' = holds, term' = [Touched(t, p) EXCEPT ![t] = k],
         k.cmd = term[t].cmd, k.own = term[t].own, k.claimed = term[t].claimed,
         \A q \in Places \ {p} : k.result[q] = term[t].result[q] /\ k.todo[q] = term[t].todo[q],
         k.result[p] = "ok" => k.step = "act" /\ k.todo[p] = "done" /\ SaysTrue(k.cmd.op, i.st),
         \/ k.step = "act" /\ term[t].step = "act"
         \/ k.step = "ok" /\ term[t].step \in Creating
         \/ k.step \in {"wait", "undo"} /\ term[t].step \in Creating
         \/ k.step = "bare" /\ term[t].step = "start"
  PROVE  LifeInv'
<1>1. PICK r : r = term[t]
  OBVIOUS
<1>2. r \in TermRecords /\ ReportKept(r) /\ OwnKept(r)
  BY <1>1, UnderWay
<1>3. inst' \in [Places -> InstRecords] /\ inst'[p] = i /\ \A q \in Places : q # p => inst'[q] = inst[q]
  BY DEF LifeInv, LifeShapes
<1>4. ReportKept(k)'
  <2>1. k.step = "act" => k.cmd.op \in LifeOps
    BY <1>1, <1>2 DEF ReportKept, Creating
  <2>2. ASSUME NEW q \in Places, k.result[q] = "ok"
        PROVE  k.step \in {"act", "ok", "failed"} /\ k.todo[q] = "done" /\ SaysTrue(k.cmd.op, inst'[q].st)
    <3>1. CASE q = p
      BY <1>3, <2>2, <3>1
    <3>2. CASE q # p
      <4>1. /\ k.result[q] = r.result[q] /\ k.todo[q] = r.todo[q] /\ inst'[q] = inst[q]
        BY <1>1, <1>3, <3>2
      <4>2. r.step \in {"act", "ok", "failed"} /\ r.todo[q] = "done" /\ SaysTrue(r.cmd.op, inst[q].st)
        BY <1>2, <2>2, <4>1 DEF ReportKept
      <4> QED BY <1>1, <4>1, <4>2 DEF Creating
    <3> QED BY <3>1, <3>2
  <2> QED BY <2>1, <2>2 DEF ReportKept
<1>5. OwnKept(k)'
  <2>1. k.cmd \in CommandRecords
    BY <1>1, <1>2 DEF OwnKept, Creating
  <2>2. \A h \in k.own : holds'[h] # NoPlace /\ holds'[h] = PlaceIn(k.cmd)
    BY <1>1, <1>2 DEF OwnKept
  <2>3. /\ k.step \in Creating \cup {"undo"} => k.own \subseteq ElemsOf(k.claimed)
        /\ k.step \in {"ensure", "start", "bare", "act"} => k.own = {}
        /\ k.step # "failed"
    BY <1>1, <1>2 DEF OwnKept, Creating
  <2> QED BY <2>1, <2>2, <2>3 DEF OwnKept
<1> QED BY <1>3, <1>4, <1>5, TouchedGoes

\* A machine is looked up, created and waited for.
LEMMA CreateKeeps ==
  ASSUME LifeInv, NEW t \in Terminals, CreateGet(t) \/ CreatePost(t) \/ CreateWait(t)
  PROVE  LifeInv'
<1>1. PICK r, p : r = term[t] /\ p = PlaceOf(t)
  OBVIOUS
<1>2. r.step \in {"get", "post", "wait"} /\ r.step \in Creating /\ UNCHANGED holds
  BY <1>1 DEF CreateGet, CreatePost, CreateWait, Creating
<1>3. /\ r \in TermRecords /\ ReportKept(r) /\ OwnKept(r) /\ p \in Places /\ r.cmd \in CommandRecords
      /\ inst \in [Places -> InstRecords] /\ inst[p] \in InstRecords
  BY <1>1, <1>2, UnderWay DEF LifeInv, LifeShapes, Creating
<1>4. /\ {"undo", "post", "ok", "wait"} \subseteq Steps /\ "post" \in Creating
  BY DEF Steps, Creating
<1>5. CASE inst' = inst /\ \E s \in {"undo", "post"} : term' = [term EXCEPT ![t].step = s]
  BY <1>1, <1>2, <1>4, <1>5, StepOnly
<1>6. CASE CreatePost(t) /\ inst[PlaceOf(t)].st = "none" /\ term' = [Touched(t, p) EXCEPT ![t].step = "wait"]
           /\ inst' = [inst EXCEPT ![p] = [st |-> "running", names |-> Stamped(t), bare |-> term[t].cmd.op = "bare"]]
  <2> DEFINE i == [st |-> "running", names |-> Stamped(t), bare |-> term[t].cmd.op = "bare"]
             k == [r EXCEPT !.step = "wait"]
  <2>1. Stamped(t) \subseteq HostNames
    <3>1. r.cmd.names \in Seq(HostNames)
      BY <1>3 DEF CommandRecords
    <3> QED BY <1>1, <3>1 DEF Stamped
  <2>2. i \in InstRecords
    BY <2>1 DEF InstRecords
  <2>3. /\ k \in TermRecords /\ k.cmd = r.cmd /\ k.step = "wait" /\ k.claimed = r.claimed
        /\ k.own = r.own /\ k.todo = r.todo /\ k.result = r.result
    BY <1>3, <1>4, TermStep
  <2>4. term' = [Touched(t, p) EXCEPT ![t] = k]
    BY <1>1, <1>6 DEF Touched
  <2>5. \A q \in Places : k.result[q] # "ok"
    BY <1>2, <1>3, <2>3 DEF ReportKept
  <2> HIDE DEF i, k
  <2>6. inst' = [inst EXCEPT ![p] = i]
    BY <1>6 DEF i
  <2> QED BY <1>1, <1>2, <1>3, <2>2, <2>3, <2>4, <2>5, <2>6, MachineChanged
<1>7. CASE inst' = inst /\ term' = [term EXCEPT ![t].step = "ok", ![t].result[p] = "created"]
  <2> DEFINE f == [r.result EXCEPT ![p] = "created"]
             k == [r EXCEPT !.step = "ok", !.result = f]
  <2>1. /\ f \in [Places -> {"none", "ok", "error", "stale", "created", "exec", "ssh"}]
        /\ \A q \in Places : f[q] = r.result[q] \/ f[q] # "ok"
    <3>1. r.result \in [Places -> {"none", "ok", "error", "stale", "created", "exec", "ssh"}]
      BY <1>3 DEF TermRecords
    <3> QED BY <1>3, <3>1
  <2>2. term' = [term EXCEPT ![t] = k]
    BY <1>1, <1>7
  <2> HIDE DEF f
  <2>3. /\ k \in TermRecords /\ k.cmd = r.cmd /\ k.step = "ok" /\ k.own = r.own /\ k.result = f
    BY <1>3, <2>1 DEF TermRecords
  <2> HIDE DEF k
  <2>4. PICK j : j = k
    OBVIOUS
  <2>5. \A q \in Places : j.result[q] # "ok"
    BY <1>2, <1>3, <2>1, <2>3, <2>4 DEF ReportKept
  <2>6. ReportKept(j)'
    BY <2>3, <2>4, <2>5 DEF ReportKept
  <2>7. OwnKept(j)'
    BY <1>2, <1>3, <2>3, <2>4 DEF OwnKept, Creating
  <2> QED BY <1>2, <1>7, <2>2, <2>3, <2>4, <2>6, <2>7, OneTermGoes DEF LifeInv, LifeShapes
<1>8. CASE \E left \in {NoInst, [inst[p] EXCEPT !.st = "stopped"]} :
              inst' = [inst EXCEPT ![p] = left] /\ term' = [Touched(t, p) EXCEPT ![t].step = "undo"]
  <2> DEFINE k == [r EXCEPT !.step = "undo"]
  <2>1. /\ k \in TermRecords /\ k.cmd = r.cmd /\ k.step = "undo" /\ k.claimed = r.claimed
        /\ k.own = r.own /\ k.todo = r.todo /\ k.result = r.result
    BY <1>3, <1>4, TermStep
  <2>2. term' = [Touched(t, p) EXCEPT ![t] = k]
    BY <1>1, <1>8 DEF Touched
  <2>3. \A q \in Places : k.result[q] # "ok"
    BY <1>2, <1>3, <2>1 DEF ReportKept
  <2> HIDE DEF k
  <2>4. PICK i : i \in {NoInst, [inst[p] EXCEPT !.st = "stopped"]} /\ inst' = [inst EXCEPT ![p] = i]
    BY <1>8
  <2>5. i \in InstRecords
    BY <1>3, <2>4, NoInstType DEF InstRecords
  <2> QED BY <1>1, <1>2, <1>3, <2>1, <2>2, <2>3, <2>4, <2>5, MachineChanged
<1> QED BY <1>1, <1>5, <1>6, <1>7, <1>8 DEF CreateGet, CreatePost, CreateWait

\* A name is released: what the command claimed and released is not its own any
\* more, and what it did not release had been taken from it.
LEMMA NameReleased ==
  ASSUME LifeInv, NEW t \in Terminals, ReleaseName(t)
  PROVE  LifeInv'
<1>1. PICK r, p, h : r = term[t] /\ p = PlaceOf(t) /\ h = Head(term[t].claimed)
  OBVIOUS
<1>2. r.step = "undo"
  BY <1>1 DEF ReleaseName
<1>3. /\ r \in TermRecords /\ ReportKept(r) /\ OwnKept(r) /\ p \in Places /\ p = PlaceIn(r.cmd)
      /\ r.cmd \in CommandRecords
  BY <1>1, <1>2, UnderWay
<1>4. /\ r.claimed \in Seq(HostNames) /\ r.own \in SUBSET HostNames /\ r.before \in SUBSET HostNames
      /\ \A q \in Places : r.result[q] # "ok"
      /\ "release" \notin LifeFaults => r.own \subseteq ElemsOf(r.claimed)
  BY <1>2, <1>3 DEF TermRecords, ReportKept, OwnKept
<1>5. inst \in [Places -> InstRecords] /\ holds \in [HostNames -> Places \cup {NoPlace}]
  BY DEF LifeInv, LifeShapes
<1>6. CASE r.claimed = <<>> /\ term' = [term EXCEPT ![t].step = "failed"] /\ UNCHANGED <<inst, holds>>
  <2> DEFINE k == [r EXCEPT !.step = "failed"]
  <2>1. /\ k \in TermRecords /\ k.cmd = r.cmd /\ k.step = "failed" /\ k.claimed = r.claimed
        /\ k.own = r.own /\ k.todo = r.todo /\ k.result = r.result
    BY <1>3, TermStep DEF Steps
  <2>2. term' = [term EXCEPT ![t] = k]
    BY <1>1, <1>6
  <2> HIDE DEF k
  <2>3. PICK j : j = k
    OBVIOUS
  <2>4. ElemsOf(r.claimed) = {}
    BY <1>6 DEF ElemsOf
  <2>5. ReportKept(j)'
    BY <1>4, <2>1, <2>3 DEF ReportKept
  <2>6. OwnKept(j)'
    BY <1>3, <1>4, <1>6, <2>1, <2>3, <2>4 DEF OwnKept, Creating
  <2> QED BY <1>5, <1>6, <2>1, <2>2, <2>3, <2>5, <2>6, OneTermGoes
<1>7. ASSUME r.claimed # <<>>
      PROVE  /\ Tail(r.claimed) \in Seq(HostNames) /\ h \in HostNames
             /\ ElemsOf(r.claimed) \subseteq ElemsOf(Tail(r.claimed)) \cup {h}
  BY <1>1, <1>4, <1>7, ElemsTail
<1>8. CASE /\ r.claimed # <<>> /\ holds[h] = p /\ holds' = [holds EXCEPT ![h] = NoPlace]
           /\ term' = [Released(t, h) EXCEPT ![t].claimed = Tail(@)]
           /\ inst' = [inst EXCEPT ![p].names = IF inst[p].st = "none" THEN {} ELSE HeldBy(p) \ {h}]
  <2> DEFINE tail == Tail(r.claimed)
             own == r.own \ {h}
             k == [r EXCEPT !.own = own, !.claimed = tail]
             names == IF inst[p].st = "none" THEN {} ELSE HeldBy(p) \ {h}
             i == [inst[p] EXCEPT !.names = names]
  <2>1. term' = [Released(t, h) EXCEPT ![t] = k]
    <3>1. Released(t, h)[t] = [r EXCEPT !.own = own, !.before = r.before]
      BY <1>1 DEF Released
    <3>2. [r EXCEPT !.own = own, !.before = r.before] = [r EXCEPT !.own = own]
      BY <1>3 DEF TermRecords
    <3>3. term' = [Released(t, h) EXCEPT ![t] = [Released(t, h)[t] EXCEPT !.claimed = Tail(Released(t, h)[t].claimed)]]
      BY <1>8
    <3>4. Released(t, h)[t].claimed = r.claimed
      BY <3>1, <1>3 DEF TermRecords
    <3>5. [Released(t, h)[t] EXCEPT !.claimed = tail] = k
      BY <3>1, <3>2, <1>3 DEF TermRecords
    <3> QED BY <3>3, <3>4, <3>5
  <2>2. /\ tail \in Seq(HostNames) /\ own \in SUBSET HostNames /\ names \in SUBSET HostNames
    BY <1>4, <1>7, <1>8 DEF HeldBy
  <2> HIDE DEF tail, own, names
  <2>3. /\ k \in TermRecords /\ k.cmd = r.cmd /\ k.step = "undo" /\ k.claimed = tail
        /\ k.own = own /\ k.todo = r.todo /\ k.result = r.result
    BY <1>2, <1>3, <2>2 DEF TermRecords
  <2>4. inst' = [inst EXCEPT ![p] = i]
    BY <1>8 DEF names
  <2>5. i \in InstRecords /\ i.st = inst[p].st
    BY <1>3, <1>5, <2>2 DEF InstRecords
  <2> HIDE DEF k, i
  <2>6. inst' \in [Places -> InstRecords] /\ \A q \in Places : inst'[q].st = inst[q].st
    BY <1>3, <1>5, <2>4, <2>5
  <2>7. PICK j : j = k
    OBVIOUS
  <2>8. ReportKept(j)'
    BY <1>4, <2>3, <2>7 DEF ReportKept
  <2>9. OwnKept(j)'
    <3>1. \A x \in j.own : x \in r.own /\ x # h /\ holds'[x] = holds[x]
      BY <1>4, <1>5, <1>8, <2>3, <2>7 DEF own
    <3>2. \A x \in j.own : holds'[x] # NoPlace /\ holds'[x] = PlaceIn(j.cmd)
      BY <1>3, <2>3, <2>7, <3>1 DEF OwnKept
    <3>3. "release" \notin LifeFaults => j.own \subseteq ElemsOf(j.claimed)
      BY <1>4, <1>7, <1>8, <2>3, <2>7 DEF own, tail
    <3> QED BY <1>3, <2>3, <2>7, <3>2, <3>3 DEF OwnKept, Creating
  <2> QED BY <1>7, <1>8, <2>1, <2>3, <2>6, <2>7, <2>8, <2>9, ReleasedGoes
<1>9. CASE /\ r.claimed # <<>> /\ (holds[h] # p \/ "release" \in LifeFaults)
           /\ term' = [term EXCEPT ![t].claimed = Tail(@)] /\ UNCHANGED <<inst, holds>>
  <2> DEFINE tail == Tail(r.claimed)
             k == [r EXCEPT !.claimed = tail]
  <2>1. term' = [term EXCEPT ![t] = k]
    BY <1>1, <1>9
  <2>2. tail \in Seq(HostNames)
    BY <1>7, <1>9
  <2> HIDE DEF tail
  <2>3. /\ k \in TermRecords /\ k.cmd = r.cmd /\ k.step = "undo" /\ k.claimed = tail
        /\ k.own = r.own /\ k.todo = r.todo /\ k.result = r.result
    BY <1>2, <1>3, <2>2 DEF TermRecords
  <2> HIDE DEF k
  <2>4. PICK j : j = k
    OBVIOUS
  <2>5. ReportKept(j)'
    BY <1>4, <2>3, <2>4 DEF ReportKept
  <2>6. OwnKept(j)'
    <3>1. \A x \in r.own : holds[x] # NoPlace /\ holds[x] = p
      BY <1>3 DEF OwnKept
    <3>2. "release" \notin LifeFaults => j.own \subseteq ElemsOf(j.claimed)
      BY <1>4, <1>7, <1>9, <2>3, <2>4, <3>1 DEF tail
    <3> QED BY <1>3, <1>9, <2>3, <2>4, <3>1, <3>2 DEF OwnKept, Creating
  <2> QED BY <1>5, <1>9, <2>1, <2>3, <2>4, <2>5, <2>6, OneTermGoes
<1> QED BY <1>1, <1>6, <1>8, <1>9 DEF ReleaseName

\* `sc connect`: it claims nothing, and starts a machine that is stopped.
LEMMA EnsureKeeps ==
  ASSUME LifeInv, NEW t \in Terminals, Ensure(t) \/ EnsureStart(t) \/ DialBare(t)
  PROVE  LifeInv'
<1>1. PICK r, p : r = term[t] /\ p = PlaceOf(t)
  OBVIOUS
<1>2. r.step \in {"ensure", "start", "bare"} /\ UNCHANGED holds
  BY <1>1 DEF Ensure, EnsureStart, DialBare
<1>3. /\ r \in TermRecords /\ ReportKept(r) /\ OwnKept(r) /\ p \in Places /\ r.cmd \in CommandRecords
      /\ inst \in [Places -> InstRecords] /\ inst[p] \in InstRecords
  BY <1>1, <1>2, UnderWay DEF LifeInv, LifeShapes
<1>4. r.own = {} /\ \A q \in Places : r.result[q] # "ok"
  BY <1>2, <1>3 DEF OwnKept, ReportKept
<1>5. {"bare", "start", "get", "failed"} \subseteq Steps
  BY DEF Steps, Creating
<1>6. CASE inst' = inst /\ \E s \in {"bare", "start", "get", "failed"} : term' = [term EXCEPT ![t].step = s]
  BY <1>1, <1>2, <1>4, <1>5, <1>6, StepOnly
<1>7. CASE /\ r.step = "start" /\ inst' = [inst EXCEPT ![p].st = "running"]
           /\ term' = [Touched(t, p) EXCEPT ![t].step = "bare"]
  <2> DEFINE k == [r EXCEPT !.step = "bare"]
             i == [inst[p] EXCEPT !.st = "running"]
  <2>1. /\ k \in TermRecords /\ k.cmd = r.cmd /\ k.step = "bare" /\ k.claimed = r.claimed
        /\ k.own = r.own /\ k.todo = r.todo /\ k.result = r.result
    BY <1>3, <1>5, TermStep
  <2>2. term' = [Touched(t, p) EXCEPT ![t] = k]
    BY <1>1, <1>7 DEF Touched
  <2>3. i \in InstRecords /\ inst' = [inst EXCEPT ![p] = i]
    BY <1>3, <1>7 DEF InstRecords
  <2> HIDE DEF k, i
  <2>4. /\ k.cmd = term[t].cmd /\ k.own = term[t].own /\ k.claimed = term[t].claimed
        /\ \A q \in Places \ {p} : k.result[q] = term[t].result[q] /\ k.todo[q] = term[t].todo[q]
        /\ k.result[p] # "ok" /\ k.step = "bare" /\ term[t].step = "start"
    BY <1>1, <1>3, <1>4, <1>7, <2>1
  <2> QED BY <1>2, <1>3, <2>1, <2>2, <2>3, <2>4, MachineChanged
<1>8. CASE DialBare(t)
  <2> DEFINE s == IF inst[p].st = "none" THEN "failed" ELSE "ok"
             v == IF inst[p].bare THEN "exec" ELSE "ssh"
             f == [r.result EXCEPT ![p] = v]
             k == [r EXCEPT !.step = s, !.result = f]
  <2>1. term' = [term EXCEPT ![t] = k] /\ inst' = inst
    BY <1>1, <1>8 DEF DialBare
  <2>2. s \in {"failed", "ok"} /\ v \in {"exec", "ssh"}
    OBVIOUS
  <2> HIDE DEF s, v
  <2>3. /\ f \in [Places -> {"none", "ok", "error", "stale", "created", "exec", "ssh"}]
        /\ \A q \in Places : f[q] # "ok"
    <3>1. r.result \in [Places -> {"none", "ok", "error", "stale", "created", "exec", "ssh"}]
      BY <1>3 DEF TermRecords
    <3>2. \A q \in Places : f[q] = IF q = p THEN v ELSE r.result[q]
      BY <3>1
    <3>3. f \in [Places -> {"none", "ok", "error", "stale", "created", "exec", "ssh"}]
      BY <1>3, <2>2, <3>1
    <3> QED BY <1>4, <2>2, <3>2, <3>3
  <2> HIDE DEF f
  <2>4. /\ k \in TermRecords /\ k.cmd = r.cmd /\ k.step = s /\ k.own = r.own /\ k.result = f
    BY <1>3, <2>2, <2>3 DEF TermRecords
  <2> HIDE DEF k
  <2>5. PICK j : j = k
    OBVIOUS
  <2>6. ReportKept(j)'
    BY <2>2, <2>3, <2>4, <2>5 DEF ReportKept
  <2>7. OwnKept(j)'
    BY <1>3, <1>4, <2>2, <2>4, <2>5 DEF OwnKept, Creating
  <2> QED BY <1>2, <2>1, <2>4, <2>5, <2>6, <2>7, OneTermGoes DEF LifeInv, LifeShapes
<1> QED BY <1>1, <1>6, <1>7, <1>8 DEF Ensure, EnsureStart

\* What Incus does to a machine is what is reported.
LEMMA AppliedShows ==
  ASSUME NEW op \in LifeOps, NEW i \in InstRecords, NEW j \in Applied(op, i)
  PROVE  j \in InstRecords /\ SaysTrue(op, j.st)
<1>1. CASE op \in {"delete", "deleteAll"}
  BY <1>1, NoInstType DEF Applied, SaysTrue
<1>2. CASE op = "start"
  <2>1. j = [i EXCEPT !.st = "running"]
    BY <1>2 DEF Applied
  <2> QED BY <1>2, <2>1 DEF InstRecords, SaysTrue
<1>3. CASE op = "stop"
  <2>1. j = [i EXCEPT !.st = "stopped"]
    BY <1>3 DEF Applied
  <2> QED BY <1>3, <2>1 DEF InstRecords, SaysTrue
<1>4. CASE op = "restart"
  <2>1. j = i /\ i.st = "running"
    BY <1>4 DEF Applied
  <2> QED BY <1>4, <2>1 DEF SaysTrue
<1> QED BY <1>1, <1>2, <1>3, <1>4 DEF LifeOps

\* The goroutine of one target goes on.
Todos == {"none", "get", "force", "apply", "done"}
Results == {"none", "ok", "error", "stale", "created", "exec", "ssh"}
TargetGoes(r, p, x, y) == [r EXCEPT !.todo = [r.todo EXCEPT ![p] = x], !.result = [r.result EXCEPT ![p] = y]]

LEMMA TargetSet ==
  ASSUME NEW r \in TermRecords, NEW p \in Places, NEW x \in Todos,
         NEW y \in Results
  PROVE  LET k == TargetGoes(r, p, x, y) IN
           /\ k \in TermRecords /\ k.cmd = r.cmd /\ k.step = r.step /\ k.claimed = r.claimed /\ k.own = r.own
           /\ k.todo[p] = x /\ k.result[p] = y
           /\ \A q \in Places \ {p} : k.todo[q] = r.todo[q] /\ k.result[q] = r.result[q]
<1> DEFINE f == [r.todo EXCEPT ![p] = x]
           g == [r.result EXCEPT ![p] = y]
           k == [r EXCEPT !.todo = f, !.result = g]
<1>1. /\ r.todo \in [Places -> Todos]
      /\ r.result \in [Places -> Results]
  BY DEF TermRecords, Todos, Results
<1>2. /\ f \in [Places -> Todos] /\ f[p] = x
      /\ \A q \in Places \ {p} : f[q] = r.todo[q]
  BY <1>1
<1>3. /\ g \in [Places -> Results] /\ g[p] = y
      /\ \A q \in Places \ {p} : g[q] = r.result[q]
  BY <1>1
<1> HIDE DEF f, g
<1>4. /\ k \in TermRecords /\ k.cmd = r.cmd /\ k.step = r.step /\ k.claimed = r.claimed /\ k.own = r.own
      /\ k.todo = f /\ k.result = g
  BY <1>2, <1>3 DEF TermRecords, Todos, Results
<1>5. /\ k \in TermRecords /\ k.cmd = r.cmd /\ k.step = r.step /\ k.claimed = r.claimed /\ k.own = r.own
      /\ k.todo[p] = x /\ k.result[p] = y
      /\ \A q \in Places \ {p} : k.todo[q] = r.todo[q] /\ k.result[q] = r.result[q]
  BY <1>2, <1>3, <1>4
<1>6. TargetGoes(r, p, x, y) = k
  BY DEF TargetGoes, f, g
<1> QED BY <1>5, <1>6

\* A lifecycle command acts on one of its targets.
LEMMA ActKeeps ==
  ASSUME LifeInv, NEW t \in Terminals, NEW p \in Places, ActGet(t, p) \/ ActForceStop(t, p) \/ ActApply(t, p)
  PROVE  LifeInv'
<1>1. PICK r : r = term[t]
  OBVIOUS
<1>2. r.step = "act" /\ UNCHANGED holds /\ r.todo[p] \in {"get", "force", "apply"}
  BY <1>1 DEF ActGet, ActForceStop, ActApply
<1>3. /\ r \in TermRecords /\ ReportKept(r) /\ OwnKept(r) /\ r.cmd.op \in LifeOps
      /\ inst \in [Places -> InstRecords] /\ inst[p] \in InstRecords
  BY <1>1, <1>2, UnderWay DEF LifeInv, LifeShapes, ReportKept
<1>4. r.result[p] # "ok" /\ r.result[p] \in Results
  BY <1>2, <1>3 DEF ReportKept, TermRecords, Results
<1>5. CASE /\ inst' = inst
           /\ \E x \in {"done", "force", "apply"}, y \in {"error", r.result[p]} :
                term' = [term EXCEPT ![t].todo[p] = x, ![t].result[p] = y]
  <2>1. PICK x \in {"done", "force", "apply"}, y \in {"error", r.result[p]} :
           term' = [term EXCEPT ![t].todo[p] = x, ![t].result[p] = y]
    BY <1>5
  <2> DEFINE k == TargetGoes(r, p, x, y)
  <2>2. term' = [term EXCEPT ![t] = k]
    BY <1>1, <2>1 DEF TargetGoes
  <2>3. /\ k \in TermRecords /\ k.cmd = r.cmd /\ k.step = r.step /\ k.claimed = r.claimed /\ k.own = r.own
        /\ k.todo[p] = x /\ k.result[p] = y
        /\ \A q \in Places \ {p} : k.todo[q] = r.todo[q] /\ k.result[q] = r.result[q]
    <3>1. /\ x \in Todos /\ y \in Results
          /\ r \in TermRecords
      BY <1>3, <1>4 DEF Todos, Results
    <3> QED BY <3>1, TargetSet
  <2> HIDE DEF k
  <2>4. PICK j : j = k
    OBVIOUS
  <2>5. ReportKept(j)'
    <3>1. \A q \in Places : j.result[q] = "ok" => q # p /\ r.result[q] = "ok" /\ j.todo[q] = r.todo[q]
      BY <1>4, <2>3, <2>4
    <3> QED BY <1>2, <1>3, <1>5, <2>3, <2>4, <3>1 DEF ReportKept
  <2>6. OwnKept(j)'
    BY <1>2, <1>3, <2>3, <2>4 DEF OwnKept, Creating
  <2> QED BY <1>2, <1>5, <2>2, <2>3, <2>4, <2>5, <2>6, OneTermGoes DEF LifeInv, LifeShapes
<1>6. CASE ActGet(t, p)
  <2> DEFINE next == CASE inst[p].st = "none" -> "done"
                       [] term[t].cmd.op \in {"delete", "deleteAll"} /\ inst[p].st = "running" -> "force"
                       [] OTHER -> "apply"
             y == IF inst[p].st = "none" THEN "error" ELSE r.result[p]
  <2>1. next \in {"done", "force", "apply"} /\ y \in {"error", r.result[p]}
    OBVIOUS
  <2>2. term' = [term EXCEPT ![t].todo[p] = next, ![t].result[p] = y] /\ inst' = inst
    <3>1. /\ term' = [term EXCEPT ![t].todo[p] = next,
                        ![t].result[p] = IF inst[p].st = "none" THEN "error" ELSE @]
          /\ inst' = inst
      BY <1>6 DEF ActGet
    <3> QED BY <1>1, <1>3, <3>1 DEF TermRecords
  <2> HIDE DEF next, y
  <2> QED BY <1>5, <2>1, <2>2
<1>7. CASE ActForceStop(t, p)
  <2> DEFINE i == [inst[p] EXCEPT !.st = IF @ = "none" THEN @ ELSE "stopped"]
             k == TargetGoes(r, p, "apply", r.result[p])
  <2>1. /\ k \in TermRecords /\ k.cmd = r.cmd /\ k.step = r.step /\ k.claimed = r.claimed /\ k.own = r.own
        /\ k.todo[p] = "apply" /\ k.result[p] = r.result[p]
        /\ \A q \in Places \ {p} : k.todo[q] = r.todo[q] /\ k.result[q] = r.result[q]
    <3>1. /\ "apply" \in Todos
          /\ r.result[p] \in Results
          /\ r \in TermRecords
      BY <1>3, <1>4 DEF Todos, Results
    <3> QED BY <3>1, TargetSet
  <2>2. k = [r EXCEPT !.todo = [r.todo EXCEPT ![p] = "apply"]]
    BY <1>3 DEF TermRecords, TargetGoes
  <2>3. term' = [Touched(t, p) EXCEPT ![t] = k]
    BY <1>1, <1>7, <2>2 DEF ActForceStop, Touched
  <2>4. i \in InstRecords /\ inst' = [inst EXCEPT ![p] = i]
    BY <1>3, <1>7 DEF InstRecords, ActForceStop
  <2> HIDE DEF k, i
  <2>5. /\ k.cmd = term[t].cmd /\ k.own = term[t].own /\ k.claimed = term[t].claimed
        /\ \A q \in Places \ {p} : k.result[q] = term[t].result[q] /\ k.todo[q] = term[t].todo[q]
        /\ k.result[p] # "ok" /\ k.step = "act" /\ term[t].step = "act"
    BY <1>1, <1>2, <1>4, <2>1
  <2> QED BY <1>2, <2>1, <2>3, <2>4, <2>5, MachineChanged
<1>8. CASE \E i \in Applied(r.cmd.op, inst[p]) :
             /\ inst' = [inst EXCEPT ![p] = i]
             /\ term' = [Touched(t, p) EXCEPT ![t].todo[p] = "done", ![t].result[p] = "ok"]
  <2>1. PICK i \in Applied(r.cmd.op, inst[p]) :
             /\ inst' = [inst EXCEPT ![p] = i]
             /\ term' = [Touched(t, p) EXCEPT ![t].todo[p] = "done", ![t].result[p] = "ok"]
    BY <1>8
  <2>2. i \in InstRecords /\ SaysTrue(r.cmd.op, i.st)
    BY <1>3, AppliedShows
  <2> DEFINE k == TargetGoes(r, p, "done", "ok")
  <2>3. /\ k \in TermRecords /\ k.cmd = r.cmd /\ k.step = r.step /\ k.claimed = r.claimed /\ k.own = r.own
        /\ k.todo[p] = "done" /\ k.result[p] = "ok"
        /\ \A q \in Places \ {p} : k.todo[q] = r.todo[q] /\ k.result[q] = r.result[q]
    <3>1. "done" \in Todos /\ r \in TermRecords
          /\ "ok" \in Results
      BY <1>3 DEF Todos, Results
    <3> QED BY <3>1, TargetSet
  <2>4. term' = [Touched(t, p) EXCEPT ![t] = k]
    BY <1>1, <2>1 DEF Touched, TargetGoes
  <2> HIDE DEF k
  <2>5. /\ k.cmd = term[t].cmd /\ k.own = term[t].own /\ k.claimed = term[t].claimed
        /\ \A q \in Places \ {p} : k.result[q] = term[t].result[q] /\ k.todo[q] = term[t].todo[q]
        /\ k.todo[p] = "done" /\ k.step = "act" /\ term[t].step = "act" /\ SaysTrue(k.cmd.op, i.st)
    BY <1>1, <1>2, <2>2, <2>3
  <2>6. inst' = [inst EXCEPT ![p] = i]
    BY <2>1
  <2> QED BY <1>2, <2>2, <2>3, <2>4, <2>5, <2>6, MachineChanged
<1>9. CASE ActApply(t, p)
  <2>1. CASE /\ term' = [term EXCEPT ![t].todo[p] = "done", ![t].result[p] = "error"]
             /\ inst' = inst
    BY <1>5, <2>1
  <2> QED BY <1>1, <1>8, <1>9, <2>1 DEF ActApply
<1> QED BY <1>6, <1>7, <1>9

\* The goroutines are through.
LEMMA ReportMade ==
  ASSUME LifeInv, NEW t \in Terminals, LifecycleReport(t)
  PROVE  LifeInv'
<1>1. PICK r : r = term[t]
  OBVIOUS
<1>2. r.step = "act" /\ UNCHANGED <<inst, holds>>
  BY <1>1 DEF LifecycleReport
<1>3. r \in TermRecords /\ ReportKept(r) /\ OwnKept(r)
  BY <1>1, UnderWay
<1> DEFINE s == IF \E p \in Places : term[t].result[p] = "error" THEN "failed" ELSE "ok"
           k == [r EXCEPT !.step = s]
<1>4. term' = [term EXCEPT ![t] = k] /\ s \in {"failed", "ok"} /\ s \in Steps
  BY <1>1 DEF LifecycleReport, Steps
<1> HIDE DEF s
<1>5. /\ k \in TermRecords /\ k.cmd = r.cmd /\ k.step = s /\ k.claimed = r.claimed
      /\ k.own = r.own /\ k.todo = r.todo /\ k.result = r.result
  BY <1>3, <1>4, TermStep
<1> HIDE DEF k
<1>6. PICK j : j = k
  OBVIOUS
<1>7. ReportKept(j)'
  BY <1>2, <1>3, <1>4, <1>5, <1>6 DEF ReportKept
<1>8. OwnKept(j)'
  BY <1>2, <1>3, <1>4, <1>5, <1>6 DEF OwnKept, Creating
<1> QED BY <1>2, <1>4, <1>5, <1>6, <1>7, <1>8, OneTermGoes DEF LifeInv, LifeShapes

\* No step of any command breaks it.
LEMMA LifeStepInv ==
  ASSUME LifeInv, [LifeNext]_lifeVars
  PROVE  LifeInv'
<1>1. CASE UNCHANGED lifeVars
  BY <1>1 DEF lifeVars, LifeInv, LifeShapes, ReportKept, OwnKept
<1>2. ASSUME NEW t \in Terminals,
             \/ \E c \in Commands : CommandBegin(t, c) \/ LifecycleTargets(t, c)
             \/ ClaimName(t) \/ CreateGet(t) \/ CreatePost(t) \/ CreateWait(t) \/ ReleaseName(t)
             \/ Ensure(t) \/ EnsureStart(t) \/ DialBare(t) \/ LifecycleReport(t)
             \/ \E p \in Places : ActGet(t, p) \/ ActForceStop(t, p) \/ ActApply(t, p)
      PROVE  LifeInv'
  BY <1>2, OrderTaken, NameClaimed, CreateKeeps, NameReleased, EnsureKeeps, ReportMade, ActKeeps
<1> QED BY <1>1, <1>2 DEF LifeNext

\* Machine commands tell the truth (applyMachineAction, runCreateMachineV2,
\* releaseMachineHostnames): for any number of commands on any machines,
\* whatever they do to each other, what a command reports done of a machine is so
\* until another changes it, and a create that fails keeps no name that it
\* claimed itself, unless a release failed.
THEOREM MachinesAreHonest == LifeSpec => []LifecycleHonest
<1>1. LifeInv => LifecycleHonest
  <2> SUFFICES ASSUME LifeInv PROVE ReportTrue /\ FailedCreateReleases
    BY DEF LifecycleHonest
  <2>1. ReportTrue
    BY DEF LifeInv, ReportKept, ReportTrue, SaysTrue
  <2>2. FailedCreateReleases
    BY DEF LifeInv, OwnKept, FailedCreateReleases, At
  <2> QED BY <2>1, <2>2
<1> QED BY <1>1, LifeInitInv, LifeStepInv, PTL DEF LifeSpec

\* A machine that is absent has nothing.
AbsentBare == \A p \in Places : inst[p].st = "none" => inst[p] = NoInst

LEMMA InstGoes ==
  ASSUME LifeShapes, AbsentBare, NEW p, NEW i, inst' = [inst EXCEPT ![p] = i],
         p \in Places => (i.st = "none" => i = NoInst)
  PROVE  AbsentBare'
BY DEF LifeShapes, AbsentBare

LEMMA AbsentKept ==
  ASSUME LifeInv, AbsentBare, [LifeNext]_lifeVars
  PROVE  AbsentBare'
<1>0. inst \in [Places -> InstRecords] /\ NoInst = [NoInst EXCEPT !.names = {}] /\ NoInst.st = "none"
  BY DEF LifeInv, LifeShapes, NoInst
<1> USE DEF LifeInv
<1>1. CASE inst' = inst
  BY <1>1 DEF AbsentBare
<1>2. ASSUME NEW p, NEW s \in {"running", "stopped"}, inst' = [inst EXCEPT ![p].st = s] PROVE AbsentBare'
  <2>1. PICK i : i = [inst[p] EXCEPT !.st = s]
    OBVIOUS
  <2>2. inst' = [inst EXCEPT ![p] = i]
    BY <1>2, <2>1
  <2>3. p \in Places => i.st = s
    BY <1>0, <2>1 DEF InstRecords
  <2> QED BY <2>2, <2>3, InstGoes
<1>3. ASSUME NEW t \in Terminals, CreatePost(t) PROVE AbsentBare'
  <2>1. PICK i : i = [st |-> "running", names |-> Stamped(t), bare |-> term[t].cmd.op = "bare"]
    OBVIOUS
  <2>2. i.st = "running"
    BY <2>1
  <2>3. inst' = [inst EXCEPT ![PlaceOf(t)] = i] \/ inst' = inst
    BY <1>3, <2>1 DEF CreatePost
  <2> QED BY <1>1, <2>2, <2>3, InstGoes
<1>4. ASSUME NEW t \in Terminals, CreateWait(t) PROVE AbsentBare'
  <2>1. PICK p : p = PlaceOf(t)
    OBVIOUS
  <2>2. PICK l : l = [inst[p] EXCEPT !.st = "stopped"]
    OBVIOUS
  <2>3. inst' = inst \/ inst' = [inst EXCEPT ![p] = NoInst] \/ inst' = [inst EXCEPT ![p] = l]
    BY <1>4, <2>1, <2>2 DEF CreateWait
  <2>4. p \in Places => l.st = "stopped"
    BY <1>0, <2>2 DEF InstRecords
  <2>5. CASE inst' = [inst EXCEPT ![p] = NoInst]
    BY <2>5, InstGoes
  <2>6. CASE inst' = [inst EXCEPT ![p] = l]
    BY <2>4, <2>6, InstGoes
  <2> QED BY <1>1, <2>3, <2>5, <2>6
<1>5. ASSUME NEW t \in Terminals, ReleaseName(t) PROVE AbsentBare'
  <2>1. PICK p : p = PlaceOf(t)
    OBVIOUS
  <2>2. PICK n : inst' = inst \/ (inst' = [inst EXCEPT ![p].names = n] /\ (inst[p].st = "none" => n = {}))
    BY <1>5, <2>1 DEF ReleaseName
  <2>3. CASE inst' = [inst EXCEPT ![p].names = n] /\ (inst[p].st = "none" => n = {})
    <3>1. PICK i : i = [inst[p] EXCEPT !.names = n]
      OBVIOUS
    <3>2. inst' = [inst EXCEPT ![p] = i]
      BY <2>3, <3>1
    <3>3. ASSUME p \in Places, i.st = "none" PROVE i = NoInst
      <4>1. inst[p].st = "none"
        BY <1>0, <3>1, <3>3 DEF InstRecords
      <4>2. inst[p] = NoInst /\ n = {}
        BY <2>3, <3>3, <4>1 DEF AbsentBare
      <4> QED BY <1>0, <3>1, <4>2
    <3> QED BY <3>2, <3>3, InstGoes
  <2> QED BY <1>1, <2>2, <2>3
<1>6. ASSUME NEW t \in Terminals, EnsureStart(t) PROVE AbsentBare'
  <2>1. inst' = inst \/ inst' = [inst EXCEPT ![PlaceOf(t)].st = "running"]
    BY <1>6 DEF EnsureStart
  <2> QED BY <1>1, <1>2, <2>1
<1>7. ASSUME NEW t \in Terminals, NEW p \in Places, ActForceStop(t, p) PROVE AbsentBare'
  <2>1. inst' = [inst EXCEPT ![p].st = IF inst[p].st = "none" THEN inst[p].st ELSE "stopped"]
    BY <1>7 DEF ActForceStop
  <2>2. CASE inst[p].st = "none"
    <3>1. [inst[p] EXCEPT !.st = inst[p].st] = inst[p]
      BY <1>0 DEF InstRecords
    <3>2. inst' = [inst EXCEPT ![p] = [inst[p] EXCEPT !.st = inst[p].st]]
      BY <2>1, <2>2
    <3>3. inst' = inst
      BY <1>0, <3>1, <3>2
    <3> QED BY <1>1, <3>3
  <2>3. CASE inst[p].st # "none"
    BY <1>2, <2>1, <2>3
  <2> QED BY <2>2, <2>3
<1>8. ASSUME NEW t \in Terminals, NEW p \in Places, ActApply(t, p) PROVE AbsentBare'
  <2>1. CASE inst' # inst
    <3>1. PICK i \in Applied(term[t].cmd.op, inst[p]) : inst' = [inst EXCEPT ![p] = i]
      BY <1>8, <2>1 DEF ActApply
    <3>2. PICK j : j = inst[p] /\ j \in InstRecords
      BY <1>0
    <3>0. PICK op : op = term[t].cmd.op /\ op \in LifeOps
      <4>1. term[t].cmd.op \in LifeOps
        BY <1>8 DEF ActApply, ReportKept
      <4> QED BY <4>1
    <3>3. i \in {NoInst, [j EXCEPT !.st = "running"], [j EXCEPT !.st = "stopped"], j}
      BY <3>0, <3>1, <3>2 DEF Applied, LifeOps
    <3>4. i.st = "none" => i = NoInst
      BY <3>2, <3>3 DEF InstRecords, AbsentBare
    <3> QED BY <3>1, <3>4, InstGoes
  <2> QED BY <1>1, <2>1
<1>9. ASSUME NEW t \in Terminals,
             \/ \E c \in Commands : CommandBegin(t, c) \/ LifecycleTargets(t, c)
             \/ ClaimName(t) \/ CreateGet(t) \/ Ensure(t) \/ DialBare(t) \/ LifecycleReport(t)
             \/ \E p \in Places : ActGet(t, p)
      PROVE  AbsentBare'
  <2>1. inst' = inst
    BY <1>9 DEF CommandBegin, LifecycleTargets, ClaimName, CreateGet, Ensure, DialBare, LifecycleReport, ActGet
  <2> QED BY <1>1, <2>1
<1> QED BY <1>1, <1>3, <1>4, <1>5, <1>6, <1>7, <1>8, <1>9 DEF LifeNext, lifeVars

\* Every command is one that may be given.
CmdsGiven == \A t \in Terminals : term[t].cmd \in Commands \cup {NoCommand}

LEMMA CmdStays ==
  ASSUME LifeInv, CmdsGiven, NEW t \in Terminals, NEW k, k.cmd \in Commands \cup {NoCommand},
         \/ term' = [term EXCEPT ![t] = k]
         \/ \E p \in Places : term' = [Touched(t, p) EXCEPT ![t] = k]
         \/ \E h \in HostNames : term' = [Released(t, h) EXCEPT ![t] = k]
  PROVE  CmdsGiven'
<1>0. term \in [Terminals -> TermRecords]
  BY DEF LifeInv, LifeShapes
<1>1. CASE term' = [term EXCEPT ![t] = k]
  BY <1>0, <1>1 DEF CmdsGiven
<1>2. ASSUME NEW p \in Places, term' = [Touched(t, p) EXCEPT ![t] = k] PROVE CmdsGiven'
  <2> SUFFICES ASSUME NEW u \in Terminals, u # t PROVE term'[u].cmd \in Commands \cup {NoCommand}
    BY <1>2 DEF CmdsGiven, Touched
  <2>1. PICK v : v = [term[u].result EXCEPT ![p] = IF @ = "ok" THEN "stale" ELSE @]
    OBVIOUS
  <2>2. term'[u] = [term[u] EXCEPT !.result = v]
    BY <1>2, <2>1 DEF Touched
  <2>3. term'[u].cmd = term[u].cmd
    BY <1>0, <2>2 DEF TermRecords
  <2> QED BY <2>3 DEF CmdsGiven
<1>3. ASSUME NEW h \in HostNames, term' = [Released(t, h) EXCEPT ![t] = k] PROVE CmdsGiven'
  <2> SUFFICES ASSUME NEW u \in Terminals, u # t PROVE term'[u].cmd \in Commands \cup {NoCommand}
    BY <1>3 DEF CmdsGiven, Released
  <2>1. PICK own, before : term'[u] = [term[u] EXCEPT !.own = own, !.before = before]
    BY <1>3 DEF Released
  <2>2. term'[u].cmd = term[u].cmd
    BY <1>0, <2>1 DEF TermRecords
  <2> QED BY <2>2 DEF CmdsGiven
<1> QED BY <1>1, <1>2, <1>3

LEMMA ActCmds ==
  ASSUME LifeInv, CmdsGiven, NEW t \in Terminals, NEW p \in Places, ActGet(t, p) \/ ActForceStop(t, p) \/ ActApply(t, p)
  PROVE  CmdsGiven'
<1>1. PICK r : r = term[t]
  OBVIOUS
<1>2. r \in TermRecords /\ r.cmd \in Commands \cup {NoCommand} /\ term \in [Terminals -> TermRecords]
  BY <1>1 DEF CmdsGiven, LifeInv, LifeShapes
<1>3. ASSUME NEW x, NEW y,
             \/ term' = [term EXCEPT ![t] = TargetGoes(r, p, x, y)]
             \/ term' = [Touched(t, p) EXCEPT ![t] = TargetGoes(r, p, x, y)]
      PROVE  CmdsGiven'
  <2>1. PICK k : k = TargetGoes(r, p, x, y)
    OBVIOUS
  <2>2. k.cmd \in Commands \cup {NoCommand}
    BY <1>2, <2>1 DEF TermRecords, TargetGoes
  <2> QED BY <1>3, <2>1, <2>2, CmdStays
<1>4. CASE ActGet(t, p)
  <2> DEFINE next == CASE inst[p].st = "none" -> "done"
                       [] term[t].cmd.op \in {"delete", "deleteAll"} /\ inst[p].st = "running" -> "force"
                       [] OTHER -> "apply"
             y == IF inst[p].st = "none" THEN "error" ELSE r.result[p]
  <2>1. term' = [term EXCEPT ![t].todo[p] = next, ![t].result[p] = y]
    <3>1. term' = [term EXCEPT ![t].todo[p] = next,
                     ![t].result[p] = IF inst[p].st = "none" THEN "error" ELSE @]
      BY <1>4 DEF ActGet
    <3> QED BY <1>1, <1>2, <3>1 DEF TermRecords
  <2> HIDE DEF next, y
  <2>2. term' = [term EXCEPT ![t] = TargetGoes(r, p, next, y)]
    BY <1>1, <2>1 DEF TargetGoes
  <2> QED BY <1>3, <2>2
<1>5. CASE ActForceStop(t, p)
  <2>1. TargetGoes(r, p, "apply", r.result[p]) = [r EXCEPT !.todo = [r.todo EXCEPT ![p] = "apply"]]
    BY <1>2 DEF TermRecords, TargetGoes
  <2>2. term' = [Touched(t, p) EXCEPT ![t] = TargetGoes(r, p, "apply", r.result[p])]
    BY <1>1, <1>5, <2>1 DEF ActForceStop, Touched
  <2> QED BY <1>3, <2>2
<1>6. CASE ActApply(t, p)
  <2>1. \/ term' = [Touched(t, p) EXCEPT ![t].todo[p] = "done", ![t].result[p] = "ok"]
        \/ term' = [term EXCEPT ![t].todo[p] = "done", ![t].result[p] = "error"]
    BY <1>6 DEF ActApply
  <2>2. CASE term' = [Touched(t, p) EXCEPT ![t].todo[p] = "done", ![t].result[p] = "ok"]
    <3>1. term' = [Touched(t, p) EXCEPT ![t] = TargetGoes(r, p, "done", "ok")]
      BY <1>1, <2>2 DEF Touched, TargetGoes
    <3> QED BY <1>3, <3>1
  <2>3. CASE term' = [term EXCEPT ![t].todo[p] = "done", ![t].result[p] = "error"]
    <3>1. PICK x, y : x = "done" /\ y = "error"
      OBVIOUS
    <3>2. term' = [term EXCEPT ![t].todo[p] = x, ![t].result[p] = y]
      BY <2>3, <3>1
    <3>3. term' = [term EXCEPT ![t] = TargetGoes(r, p, x, y)]
      BY <1>1, <3>2 DEF TargetGoes
    <3> QED BY <1>3, <3>3
  <2> QED BY <2>1, <2>2, <2>3
<1> QED BY <1>4, <1>5, <1>6

LEMMA CmdsKept ==
  ASSUME LifeInv, CmdsGiven, [LifeNext]_lifeVars
  PROVE  CmdsGiven'
<1>1. CASE UNCHANGED lifeVars
  BY <1>1 DEF lifeVars, CmdsGiven
<1>2. term \in [Terminals -> TermRecords]
  BY DEF LifeInv, LifeShapes
<1>3. ASSUME NEW t \in Terminals, NEW c \in Commands, CommandBegin(t, c) \/ LifecycleTargets(t, c) PROVE CmdsGiven'
  <2>1. CASE CommandBegin(t, c)
    <3>1. PICK before, s : term' = [term EXCEPT ![t] = [IdleTerm EXCEPT !.cmd = c, !.left = c.names, !.before = before, !.step = s]]
      BY <2>1 DEF CommandBegin
    <3>2. PICK k : k = [IdleTerm EXCEPT !.cmd = c, !.left = c.names, !.before = before, !.step = s]
      OBVIOUS
    <3>3. k.cmd = c
      BY <3>2 DEF IdleTerm
    <3> QED BY <3>1, <3>2, <3>3, CmdStays
  <2>2. CASE LifecycleTargets(t, c)
    <3>1. PICK found : found = IF c.op = "deleteAll" THEN {p \in c.places : inst[p].st # "none"} ELSE c.places
      OBVIOUS
    <3>2. PICK s, todo : s = (IF found = {} THEN "failed" ELSE "act")
                         /\ todo = [p \in Places |-> IF p \in found THEN "get" ELSE "none"]
      OBVIOUS
    <3>3. PICK k : k = [IdleTerm EXCEPT !.cmd = c, !.step = s, !.todo = todo]
      OBVIOUS
    <3>4. k.cmd = c
      BY <3>3 DEF IdleTerm
    <3>5. term' = [term EXCEPT ![t] = k]
      BY <2>2, <3>1, <3>2, <3>3 DEF LifecycleTargets
    <3> QED BY <3>4, <3>5, CmdStays
  <2> QED BY <1>3, <2>1, <2>2
<1>4. ASSUME NEW t \in Terminals
      PROVE  /\ term[t] \in TermRecords /\ term[t].cmd \in Commands \cup {NoCommand}
             /\ term[t].step # "idle" => PlaceOf(t) \in Places
  BY <1>2, UnderWay DEF CmdsGiven
\* Any record of the same command.
<1>5. ASSUME NEW t \in Terminals, NEW k, k.cmd = term[t].cmd,
             \/ term' = [term EXCEPT ![t] = k]
             \/ \E p \in Places : term' = [Touched(t, p) EXCEPT ![t] = k]
             \/ \E h \in HostNames : term' = [Released(t, h) EXCEPT ![t] = k]
      PROVE  CmdsGiven'
  BY <1>4, <1>5, CmdStays
<1>6. ASSUME NEW t \in Terminals, NEW p \in Places
      PROVE  Touched(t, p)[t] = term[t] /\ DOMAIN Touched(t, p) = Terminals
  BY DEF Touched
<1>7. ASSUME NEW t \in Terminals, NEW s, term' = [term EXCEPT ![t].step = s] PROVE CmdsGiven'
  <2>1. PICK k : k = [term[t] EXCEPT !.step = s]
    OBVIOUS
  <2>2. term' = [term EXCEPT ![t] = k] /\ k.cmd = term[t].cmd
    <3>1. k.cmd = term[t].cmd
      BY <1>4, <1>7, <2>1 DEF TermRecords
    <3>2. term' = [term EXCEPT ![t] = k]
      BY <1>4, <1>7, <2>1
    <3> QED BY <3>1, <3>2
  <2> QED BY <1>5, <2>2
<1>8. ASSUME NEW t \in Terminals, NEW p \in Places, NEW s, term' = [Touched(t, p) EXCEPT ![t].step = s] PROVE CmdsGiven'
  <2>1. PICK k : k = [term[t] EXCEPT !.step = s]
    OBVIOUS
  <2>2. term' = [Touched(t, p) EXCEPT ![t] = k] /\ k.cmd = term[t].cmd
    <3>1. k.cmd = term[t].cmd
      BY <1>4, <1>6, <1>8, <2>1 DEF TermRecords
    <3>2. term' = [Touched(t, p) EXCEPT ![t] = k]
      BY <1>4, <1>6, <1>8, <2>1
    <3> QED BY <3>1, <3>2
  <2> QED BY <1>5, <2>2
<1>9. ASSUME NEW t \in Terminals, CreateGet(t) \/ Ensure(t) \/ LifecycleReport(t) PROVE CmdsGiven'
  <2>1. \E s : term' = [term EXCEPT ![t].step = s]
    BY <1>9 DEF CreateGet, Ensure, LifecycleReport
  <2> QED BY <1>7, <2>1
<1>10. ASSUME NEW t \in Terminals, ClaimName(t) PROVE CmdsGiven'
  <2>0. PICK left, claimed, own :
           /\ left = Tail(term[t].left) /\ claimed = Append(term[t].claimed, Head(term[t].left))
           /\ own = term[t].own \cup (IF holds[Head(term[t].left)] = NoPlace THEN {Head(term[t].left)} ELSE {})
    OBVIOUS
  <2>1. \/ term' = [term EXCEPT ![t].step = "get"] \/ term' = [term EXCEPT ![t].step = "undo"]
        \/ term' = [term EXCEPT ![t].left = left, ![t].claimed = claimed, ![t].own = own]
    BY <1>10, <2>0 DEF ClaimName
  <2>2. CASE term' = [term EXCEPT ![t].left = left, ![t].claimed = claimed, ![t].own = own]
    <3>1. PICK k : k = [term[t] EXCEPT !.left = left, !.claimed = claimed, !.own = own]
      OBVIOUS
    <3>2. term' = [term EXCEPT ![t] = k] /\ k.cmd = term[t].cmd
      <4>1. k.cmd = term[t].cmd
        BY <1>2, <1>4, <2>2, <3>1 DEF TermRecords
      <4>2. term' = [term EXCEPT ![t] = k]
        BY <1>2, <1>4, <2>2, <3>1
      <4> QED BY <4>1, <4>2
    <3> QED BY <1>5, <3>2
  <2> QED BY <1>7, <2>1, <2>2
<1>11. ASSUME NEW t \in Terminals, CreatePost(t) \/ EnsureStart(t) PROVE CmdsGiven'
  <2>1. PICK p : p = PlaceOf(t)
    OBVIOUS
  <2>2. p \in Places
    BY <1>4, <1>11, <2>1 DEF CreatePost, EnsureStart
  <2>3. \E s : term' = [term EXCEPT ![t].step = s] \/ term' = [Touched(t, p) EXCEPT ![t].step = s]
    BY <1>11, <2>1 DEF CreatePost, EnsureStart
  <2> QED BY <1>7, <1>8, <2>2, <2>3
<1>12. ASSUME NEW t \in Terminals, CreateWait(t) PROVE CmdsGiven'
  <2>1. PICK p : p = PlaceOf(t)
    OBVIOUS
  <2>2. p \in Places
    BY <1>4, <1>12, <2>1 DEF CreateWait
  <2>3. \/ term' = [Touched(t, p) EXCEPT ![t].step = "undo"]
        \/ term' = [term EXCEPT ![t].step = "ok", ![t].result[p] = "created"]
    BY <1>12, <2>1 DEF CreateWait
  <2>4. CASE term' = [term EXCEPT ![t].step = "ok", ![t].result[p] = "created"]
    <3>1. PICK v : v = [term[t].result EXCEPT ![p] = "created"]
      OBVIOUS
    <3>2. PICK k : k = [term[t] EXCEPT !.step = "ok", !.result = v]
      OBVIOUS
    <3>3. k.cmd = term[t].cmd
      BY <1>4, <3>2 DEF TermRecords
    <3>4. term' = [term EXCEPT ![t] = k]
      BY <2>4, <3>1, <3>2
    <3> QED BY <1>5, <3>3, <3>4
  <2> QED BY <1>8, <2>2, <2>3, <2>4
<1>13. ASSUME NEW t \in Terminals, ReleaseName(t) PROVE CmdsGiven'
  <2>1. CASE term' = [term EXCEPT ![t].step = "failed"]
    BY <1>7, <2>1
  <2>2. PICK h, c : h = Head(term[t].claimed) /\ c = Tail(term[t].claimed)
    OBVIOUS
  <2>3. CASE term' = [term EXCEPT ![t].claimed = c]
    <3>1. PICK k : k = [term[t] EXCEPT !.claimed = c]
      OBVIOUS
    <3>2. term' = [term EXCEPT ![t] = k] /\ k.cmd = term[t].cmd
      <4>1. k.cmd = term[t].cmd
        BY <1>2, <1>4, <2>3, <3>1 DEF TermRecords
      <4>2. term' = [term EXCEPT ![t] = k]
        BY <1>2, <1>4, <2>3, <3>1
      <4> QED BY <4>1, <4>2
    <3> QED BY <1>5, <3>2
  <2>4. CASE term' = [Released(t, h) EXCEPT ![t].claimed = c] /\ h \in HostNames
    <3>1. PICK b : Released(t, h)[t] = b /\ b.cmd = term[t].cmd /\ [b EXCEPT !.claimed = c].cmd = term[t].cmd
      <4>1. PICK own, before : Released(t, h)[t] = [term[t] EXCEPT !.own = own, !.before = before]
        BY DEF Released
      <4> QED BY <1>4, <4>1 DEF TermRecords
    <3>2. PICK k : k = [b EXCEPT !.claimed = c]
      OBVIOUS
    <3>3. term' = [Released(t, h) EXCEPT ![t] = k] /\ k.cmd = term[t].cmd
      BY <2>4, <3>1, <3>2 DEF Released
    <3> QED BY <1>5, <2>4, <3>3
  <2>5. term[t].claimed # <<>> => h \in HostNames
    <3>1. term[t].claimed \in Seq(HostNames)
      BY <1>4 DEF TermRecords
    <3> QED BY <2>2, <3>1
  <2>6. \/ term' = [term EXCEPT ![t].step = "failed"]
        \/ term' = [term EXCEPT ![t].claimed = c]
        \/ term[t].claimed # <<>> /\ term' = [Released(t, h) EXCEPT ![t].claimed = c]
    <3>1. PICK b : b = Released(t, h)
      OBVIOUS
    <3>2. CASE term[t].claimed = <<>>
      BY <1>13, <3>2 DEF ReleaseName
    <3>3. CASE term[t].claimed # <<>>
      <4>1. \/ term' = [term EXCEPT ![t].claimed = Tail(@)]
            \/ term' = [Released(t, h) EXCEPT ![t].claimed = Tail(@)]
        BY <1>13, <2>2, <3>3 DEF ReleaseName
      <4>2. Released(t, h)[t].claimed = term[t].claimed
        <5>1. PICK own, before : Released(t, h)[t] = [term[t] EXCEPT !.own = own, !.before = before]
          BY DEF Released
        <5> QED BY <1>4, <5>1 DEF TermRecords
      <4>3. CASE term' = [term EXCEPT ![t].claimed = Tail(@)]
        BY <2>2, <4>3
      <4>4. CASE term' = [Released(t, h) EXCEPT ![t].claimed = Tail(@)]
        <5>1. b[t].claimed = term[t].claimed /\ term' = [b EXCEPT ![t].claimed = Tail(b[t].claimed)]
          BY <3>1, <4>2, <4>4
        <5>2. term' = [b EXCEPT ![t].claimed = c]
          BY <2>2, <5>1
        <5> QED BY <3>1, <3>3, <5>2
      <4> QED BY <4>1, <4>3, <4>4
    <3> QED BY <3>2, <3>3
  <2> QED BY <2>1, <2>3, <2>4, <2>5, <2>6
<1>14. ASSUME NEW t \in Terminals, DialBare(t) PROVE CmdsGiven'
  <2>1. PICK p : p = PlaceOf(t)
    OBVIOUS
  <2>2. PICK s, x : s = (IF inst[p].st = "none" THEN "failed" ELSE "ok") /\ x = (IF inst[p].bare THEN "exec" ELSE "ssh")
    OBVIOUS
  <2>3. term' = [term EXCEPT ![t].step = s, ![t].result[p] = x]
    BY <1>14, <2>1, <2>2 DEF DialBare
  <2>4. PICK v : v = [term[t].result EXCEPT ![p] = x]
    OBVIOUS
  <2>5. PICK k : k = [term[t] EXCEPT !.step = s, !.result = v]
    OBVIOUS
  <2>6. term' = [term EXCEPT ![t] = k] /\ k.cmd = term[t].cmd
    <3>1. k.cmd = term[t].cmd
      BY <1>2, <1>4, <2>3, <2>4, <2>5 DEF TermRecords
    <3>2. term' = [term EXCEPT ![t] = k]
      BY <1>2, <1>4, <2>3, <2>4, <2>5
    <3> QED BY <3>1, <3>2
  <2> QED BY <1>5, <2>6
<1>15. ASSUME NEW t \in Terminals, NEW p \in Places, ActGet(t, p) \/ ActForceStop(t, p) \/ ActApply(t, p) PROVE CmdsGiven'
  BY <1>15, ActCmds
<1> QED BY <1>1, <1>3, <1>9, <1>10, <1>11, <1>12, <1>13, <1>14, <1>15 DEF LifeNext

LEMMA LifeTypes == LifeInv /\ AbsentBare /\ CmdsGiven => LifeTypeOK
<1> SUFFICES ASSUME LifeInv, AbsentBare, CmdsGiven PROVE LifeTypeOK
  OBVIOUS
<1>1. inst \in [Places -> InstRecords] /\ holds \in [HostNames -> Places \cup {NoPlace}] /\ term \in [Terminals -> TermRecords]
  BY DEF LifeInv, LifeShapes
<1> QED BY <1>1 DEF LifeTypeOK, AbsentBare, CmdsGiven, InstRecords, TermRecords, Creating

\* Machines, claims and commands stay in their domains, and a machine that is
\* gone holds nothing.
THEOREM MachinesStayTyped == LifeSpec => []LifeTypeOK
<1> DEFINE I == LifeInv /\ AbsentBare /\ CmdsGiven
<1>1. LifeInit => I
  BY LifeInitInv DEF LifeInit, AbsentBare, CmdsGiven, IdleTerm, NoInst
<1>2. I /\ [LifeNext]_lifeVars => I'
  BY LifeStepInv, AbsentKept, CmdsKept
<1>3. I => LifeTypeOK
  BY LifeTypes
<1> HIDE DEF I
<1> QED BY <1>1, <1>2, <1>3, PTL DEF LifeSpec

-----------------------------------------------------------------------------
(* Host keys                                                               *)

HostMachineRecords ==
    [addr : HostAddrs \cup {NoAddr}, born : Nat, disk : Nat, wire : Nat, ready : BOOLEAN]

\* A line, and a command, with its fields.
LineShaped(l) == l = [hosts |-> l.hosts, key |-> l.key, tag |-> l.tag]
CliShaped(j) ==
    j = [op |-> j.op, step |-> j.step, name |-> j.name, addr |-> j.addr, born |-> j.born,
         key |-> j.key, tofu |-> j.tofu, found |-> j.found, left |-> j.left, snap |-> j.snap,
         reached |-> j.reached, rebuilt |-> j.rebuilt]

KeysOf(m) == {hm[m].born, hm[m].disk, hm[m].wire}

\* Addresses and keys are never two machines'; sshd serves the key on disk
\* once the machine has booted, and the first one before.
MachinesApart ==
    /\ \A m, n \in HostMachines : Live(m) /\ Live(n) /\ m # n =>
          hm[m].addr # hm[n].addr /\ KeysOf(m) \cap KeysOf(n) = {}
    /\ \A m \in HostMachines :
          /\ Live(m) => KeysOf(m) \subseteq 1 .. keyCount
          /\ hm[m].ready => Live(m) /\ hm[m].disk = hm[m].wire
          /\ Live(m) /\ ~hm[m].ready => hm[m].wire = hm[m].born

\* A key that may stand beside the name m: no other machine's, and not one of
\* m before its first boot is over.
MayStand(m, k) ==
    /\ k \in 0 .. keyCount
    /\ \A n \in HostMachines : Live(n) /\ k \in KeysOf(n) => n = m /\ hm[n].ready

LinesStand == \A l \in lines : LineShaped(l) /\ \A m \in l.hosts \cap HostMachines : MayStand(m, l.key)

\* What a connect has made sure of by the step it is at.
ConnectFits(j) ==
    LET m == j.name
    IN  j.op = "connect" =>
          /\ j.step \in {"cached", "init", "read", "confirm", "plan", "apply", "write", "dial",
                         "session", "unreachable", "loose"}
          /\ j.step \in {"cached", "init", "read", "confirm", "plan", "apply", "write", "dial"} =>
                m \in HostMachines /\ Live(m)
          /\ j.step \in {"init", "read", "confirm", "plan", "apply", "write", "dial"} => j.addr = hm[m].addr
          /\ j.step \in {"read", "confirm", "plan", "apply", "write", "dial"} => hm[m].ready
          /\ j.step \in {"confirm", "plan", "apply", "write"} => j.key = hm[m].wire
          /\ j.step = "dial" => hm[m].wire \in Recorded(m)
          /\ j.step = "session" => j.reached = m

\* What a purge has listed: every machine that is up, with the key it serves
\* or none.
PurgeFits(j) ==
    j.op = "purge" =>
      /\ j.step \in {"keys", "plan", "apply", "write", "purged"}
      /\ \A m \in HostMachines : Live(m) =>
            hm[m].ready /\ m \in DOMAIN j.found \cup (IF j.step = "keys" THEN j.left ELSE {})
      /\ \A m \in j.left : m \in HostMachines /\ Live(m)
      /\ \A m \in DOMAIN j.found : m \in HostMachines /\ Live(m) /\ j.found[m].key \in {0, hm[m].wire}

CliFits(j) ==
    /\ CliShaped(j) /\ j.op \in {"none", "connect", "purge"} /\ (j.op = "none" => j.step = "idle")
    /\ ConnectFits(j) /\ PurgeFits(j)

\* The holder of the lock writes back what is in the file.
LockHeldFits ==
    \A c \in Clis : /\ hostLock = c <=> cli[c].step = "write"
                    /\ cli[c].step = "write" => cli[c].snap = lines

HostsInv ==
    /\ cli = [c \in Clis |-> cli[c]] /\ hm \in [HostMachines -> HostMachineRecords] /\ keyCount \in Nat
    /\ MachinesApart /\ LinesStand /\ LockHeldFits
    /\ \A c \in Clis : CliFits(cli[c])

\* While a purge runs, machines neither come nor go nor boot.
PurgeSettled ==
    (\E c \in Clis : cli'[c].op = "purge") =>
        \A m \in HostMachines : hm'[m].ready = hm[m].ready /\ (hm'[m].addr # NoAddr => hm'[m].ready)

\* A machine somebody connects to keeps its address.
AddressesStay ==
    \A c \in Clis : cli[c].op = "connect" /\ cli[c].name \in HostMachines =>
        hm'[cli[c].name].addr = hm[cli[c].name].addr

\* A bare ssh does not append between the reading and the writing of a plan.
AppendsApart == lines' # lines /\ cli' = cli => hostLock = NoAddr

HostsApart == PurgeSettled /\ AddressesStay /\ AppendsApart

\* What a scan of an address finds.
LEMMA Scanned ==
    ASSUME HostsInv
    PROVE  /\ \A m \in HostMachines : Live(m) => Keyscan(hm[m].addr) = hm[m].wire
           /\ \A a : Keyscan(a) # 0 =>
                 a # NoAddr /\ \E m \in HostMachines : hm[m].addr = a /\ Keyscan(a) = hm[m].wire
<1> DEFINE ms(a) == {m \in HostMachines : hm[m].addr = a} \ {m \in HostMachines : a = NoAddr}
<1>1. ASSUME NEW m \in HostMachines, Live(m) PROVE Keyscan(hm[m].addr) = hm[m].wire
  <2>1. m \in ms(hm[m].addr) /\ \A n \in ms(hm[m].addr) : n = m
    BY <1>1 DEF HostsInv, MachinesApart, Live
  <2>2. (CHOOSE n \in ms(hm[m].addr) : TRUE) = m
    <3> HIDE DEF ms
    <3> QED BY <2>1
  <2> QED BY <2>1, <2>2 DEF Keyscan
<1>2. ASSUME NEW a, Keyscan(a) # 0
      PROVE  a # NoAddr /\ \E m \in HostMachines : hm[m].addr = a /\ Keyscan(a) = hm[m].wire
  <2>1. ms(a) # {} /\ Keyscan(a) = hm[CHOOSE n \in ms(a) : TRUE].wire
    BY <1>2 DEF Keyscan
  <2>2. (CHOOSE n \in ms(a) : TRUE) \in ms(a)
    <3> HIDE DEF ms
    <3> QED BY <2>1
  <2> QED BY <2>1, <2>2
<1> QED BY <1>1, <1>2

\* The lines of a plan.
LEMMA PlanParts ==
    ASSUME NEW planned, NEW known, NEW purge, NEW x
    PROVE  x \in PlanLines(planned, known, purge) <=> (\E l \in planned : x \in KeptOf(l, known, purge)) \/ x \in Desired(known)
<1> DEFINE sets == {KeptOf(l, known, purge) : l \in planned}
<1>1. (\E s \in sets : x \in s) <=> \E l \in planned : x \in KeptOf(l, known, purge)
  OBVIOUS
<1>2. PlanLines(planned, known, purge) = (UNION sets) \cup Desired(known)
  BY DEF PlanLines
<1> HIDE DEF sets
<1> QED BY <1>1, <1>2

\* Every line of a plan is an old one, less some hosts, or that of a machine.
LEMMA PlanOrigin ==
    ASSUME NEW planned, NEW known, NEW purge, \A l \in planned : LineShaped(l), NEW x \in PlanLines(planned, known, purge)
    PROVE  /\ LineShaped(x)
           /\ \/ \E l \in planned : x.key = l.key /\ x.hosts \subseteq l.hosts
              \/ \E m \in DOMAIN known : x.hosts = {m} /\ x.key = known[m].key
<1>1. CASE x \in Desired(known)
  BY <1>1 DEF Desired, LineShaped
<1>2. CASE \E l \in planned : x \in KeptOf(l, known, purge)
  <2>1. PICK l \in planned : x \in KeptOf(l, known, purge)
    BY <1>2
  <2>2. x = l \/ \E hs : x \in WithoutHosts(l, hs)
    BY <2>1 DEF KeptOf
  <2>3. ASSUME NEW hs, x \in WithoutHosts(l, hs) PROVE x = [hosts |-> l.hosts \ hs, key |-> l.key, tag |-> l.tag]
    BY <2>3 DEF WithoutHosts, LineShaped
  <2>4. CASE x = l
    BY <2>4
  <2>5. CASE \E hs : x \in WithoutHosts(l, hs)
    <3>1. PICK hs : x = [hosts |-> l.hosts \ hs, key |-> l.key, tag |-> l.tag]
      BY <2>3, <2>5
    <3> QED BY <3>1 DEF LineShaped
  <2> QED BY <2>2, <2>4, <2>5
<1> QED BY <1>1, <1>2, PlanParts

\* A line less some hosts still has the others.
LEMMA HostStays ==
    ASSUME NEW l, LineShaped(l), NEW hs, NEW h \in l.hosts \ hs
    PROVE  \E x \in WithoutHosts(l, hs) : h \in x.hosts /\ x.key = l.key /\ x.tag = l.tag
<1>1. [l EXCEPT !.hosts = l.hosts \ hs] = [hosts |-> l.hosts \ hs, key |-> l.key, tag |-> l.tag]
  BY DEF LineShaped
<1> QED BY <1>1 DEF WithoutHosts

\* A machine whose key the plan knows has its line.
LEMMA PlanRecords ==
    ASSUME NEW planned, NEW known, NEW purge, NEW m \in DOMAIN known, known[m].key # 0
    PROVE  \E x \in PlanLines(planned, known, purge) : m \in x.hosts /\ x.key = known[m].key
<1>1. PICK x : x = [hosts |-> {m}, key |-> known[m].key, tag |-> IF known[m].tofu THEN "tofu" ELSE "own"]
  OBVIOUS
<1>2. x \in Desired(known)
  BY <1>1 DEF Desired
<1>3. m \in x.hosts /\ x.key = known[m].key
  BY <1>1
<1> QED BY <1>2, <1>3, PlanParts

\* A host whose key the plan does not contradict keeps it.
LEMMA PlanKeeps ==
    ASSUME NEW planned, NEW known, NEW purge, NEW l \in planned, LineShaped(l), NEW h \in l.hosts \ HostAddrs,
           h \in DOMAIN known => known[h].key \in {0, l.key},
           purge => h \in DOMAIN known \/ l.tag = "none", l.key = 0 => h \notin DOMAIN known
    PROVE  \E x \in PlanLines(planned, known, purge) :
              h \in x.hosts /\ x.key = l.key /\ (h \notin DOMAIN known => x.tag = l.tag)
<1>1. CASE h \in DOMAIN known /\ known[h].key # 0
  BY <1>1, PlanRecords
<1>2. CASE h \in DOMAIN known /\ known[h].key = 0
  <2>1. l \in KeptOf(l, known, purge)
    BY <1>2 DEF KeptOf, UnreadableKept
  <2> QED BY <1>2, <2>1, PlanParts
<1>3. CASE h \notin DOMAIN known
  <2>1. KeptOf(l, known, purge) = {l} \/ KeptOf(l, known, purge) = WithoutHosts(l, DOMAIN known)
        \/ KeptOf(l, known, purge) = WithoutHosts(l, HostAddrs)
    BY <1>3 DEF KeptOf
  <2>2. \E x \in KeptOf(l, known, purge) : h \in x.hosts /\ x.key = l.key /\ x.tag = l.tag
    BY <1>3, <2>1, HostStays
  <2> QED BY <1>3, <2>2, PlanParts
<1> QED BY <1>1, <1>2, <1>3

LEMMA RecordedKeys ==
    ASSUME NEW m, NEW k
    PROVE  k \in Recorded(m) <=> \E l \in lines : m \in l.hosts /\ l.key = k
BY DEF Recorded

\* What a command writes down of machines that are up and booted.
LEMMA KnownFits ==
    ASSUME HostsInv, NEW c \in Clis, cli[c].step \in {"plan", "apply", "write"}
    PROVE  /\ \A m \in DOMAIN KnownOf(c) :
                 m \in HostMachines /\ Live(m) /\ hm[m].ready /\ KnownOf(c)[m].key \in {0, hm[m].wire}
           /\ cli[c].op = "connect" => /\ cli[c].name \in DOMAIN KnownOf(c) /\ cli[c].name \in HostMachines
                                       /\ KnownOf(c)[cli[c].name].key = hm[cli[c].name].wire
                                       /\ hm[cli[c].name].wire # 0
           /\ cli[c].op = "purge" => \A m \in HostMachines : Live(m) => m \in DOMAIN KnownOf(c)
           /\ cli[c].op \in {"connect", "purge"}
<1>1. CliFits(cli[c])
  BY DEF HostsInv
<1>2. CASE cli[c].op = "purge"
  <2>1. KnownOf(c) = cli[c].found
    BY <1>2 DEF KnownOf
  <2> QED BY <1>1, <1>2, <2>1 DEF CliFits, PurgeFits
<1>3. CASE cli[c].op = "connect"
  <2>1. /\ cli[c].name \in HostMachines /\ Live(cli[c].name) /\ hm[cli[c].name].ready
        /\ cli[c].key = hm[cli[c].name].wire
    BY <1>1, <1>3 DEF CliFits, ConnectFits
  <2>2. KnownOf(c) = [m \in {cli[c].name} |-> [key |-> cli[c].key, tofu |-> cli[c].tofu]]
    BY <1>3 DEF KnownOf
  <2>3. hm[cli[c].name].wire # 0
    BY <2>1 DEF HostsInv, MachinesApart, KeysOf
  <2> QED BY <1>3, <2>1, <2>2, <2>3
<1>4. cli[c].op # "none"
  BY <1>1 DEF CliFits
<1> QED BY <1>1, <1>2, <1>3, <1>4 DEF CliFits

\* A plan made from the lines as they are.
LEMMA PlanFits ==
    ASSUME HostsInv, NEW c \in Clis, cli[c].step \in {"plan", "apply", "write"},
           NEW planned, planned = PlanLines(lines, KnownOf(c), cli[c].op = "purge")
    PROVE  /\ \A l \in planned : LineShaped(l) /\ \A m \in l.hosts \cap HostMachines : MayStand(m, l.key)
           /\ cli[c].op = "connect" => \E l \in planned : cli[c].name \in l.hosts /\ l.key = hm[cli[c].name].wire
           /\ \A m \in HostMachines : hm[m].ready /\ hm[m].wire \in Recorded(m) =>
                 \E l \in planned : m \in l.hosts /\ l.key = hm[m].wire
           /\ \A l \in lines : \A h \in l.hosts \ (HostMachines \cup HostAddrs) :
                 l.tag = "none" => \E x \in planned : h \in x.hosts /\ x.tag = "none"
<1> PICK known : known = KnownOf(c)
  OBVIOUS
<1> PICK purge \in BOOLEAN : purge = (cli[c].op = "purge")
  OBVIOUS
<1>1. planned = PlanLines(lines, known, purge) /\ \A l \in lines : LineShaped(l)
  BY DEF HostsInv, LinesStand
<1>2. /\ \A m \in DOMAIN known : m \in HostMachines /\ Live(m) /\ hm[m].ready /\ known[m].key \in {0, hm[m].wire}
      /\ cli[c].op = "connect" => /\ cli[c].name \in DOMAIN known
                                  /\ known[cli[c].name].key = hm[cli[c].name].wire /\ hm[cli[c].name].wire # 0
      /\ purge => \A m \in HostMachines : Live(m) => m \in DOMAIN known
  BY KnownFits
<1>3. ASSUME NEW x \in planned
      PROVE  LineShaped(x) /\ \A m \in x.hosts \cap HostMachines : MayStand(m, x.key)
  <2>1. /\ LineShaped(x)
        /\ \/ \E l \in lines : x.key = l.key /\ x.hosts \subseteq l.hosts
           \/ \E m \in DOMAIN known : x.hosts = {m} /\ x.key = known[m].key
    BY <1>1, PlanOrigin
  <2>2. CASE \E l \in lines : x.key = l.key /\ x.hosts \subseteq l.hosts
    BY <2>1, <2>2 DEF HostsInv, LinesStand
  <2>3. CASE \E m \in DOMAIN known : x.hosts = {m} /\ x.key = known[m].key
    <3>1. PICK m \in DOMAIN known : x.hosts = {m} /\ x.key = known[m].key
      BY <2>3
    <3>2. m \in HostMachines /\ Live(m) /\ hm[m].ready /\ x.key \in {0, hm[m].wire}
      BY <1>2, <3>1
    <3>3. \A n \in HostMachines : Live(n) => KeysOf(n) \subseteq 1 .. keyCount
          /\ (n # m => KeysOf(m) \cap KeysOf(n) = {})
      BY <3>2 DEF HostsInv, MachinesApart
    <3>4. keyCount \in Nat /\ x.key \in {0} \cup KeysOf(m) /\ KeysOf(m) \subseteq 1 .. keyCount
      BY <3>2, <3>3 DEF HostsInv, KeysOf
    <3>5. x.key \in 0 .. keyCount
      BY <3>4
    <3>6. ASSUME NEW n \in HostMachines, Live(n), x.key \in KeysOf(n) PROVE n = m
      <4>1. x.key # 0
        BY <3>3, <3>4, <3>6
      <4> QED BY <3>3, <3>4, <3>6, <4>1
    <3>7. MayStand(m, x.key)
      BY <3>2, <3>5, <3>6 DEF MayStand
    <3> QED BY <2>1, <3>1, <3>7
  <2> QED BY <2>1, <2>2, <2>3
<1>4. cli[c].op = "connect" => \E l \in planned : cli[c].name \in l.hosts /\ l.key = hm[cli[c].name].wire
  BY <1>1, <1>2, PlanRecords
<1>5. ASSUME NEW m \in HostMachines, hm[m].ready, hm[m].wire \in Recorded(m)
      PROVE  \E l \in planned : m \in l.hosts /\ l.key = hm[m].wire
  <2>1. PICK l \in lines : m \in l.hosts /\ l.key = hm[m].wire
    BY <1>5, RecordedKeys
  <2>2. Live(m) /\ l.key # 0 /\ LineShaped(l)
    BY <1>1, <1>5, <2>1 DEF HostsInv, MachinesApart, KeysOf
  <2>3. m \in l.hosts \ HostAddrs /\ (m \in DOMAIN known => known[m].key \in {0, l.key}) /\ (purge => m \in DOMAIN known)
    BY <1>2, <2>1, <2>2, HostsAssumption
  <2>4. \E x \in PlanLines(lines, known, purge) :
              m \in x.hosts /\ x.key = l.key /\ (m \notin DOMAIN known => x.tag = l.tag)
    BY <2>2, <2>3, PlanKeeps
  <2> QED BY <1>1, <2>1, <2>4
<1>6. ASSUME NEW l \in lines, NEW h \in l.hosts \ (HostMachines \cup HostAddrs), l.tag = "none"
      PROVE  \E x \in planned : h \in x.hosts /\ x.tag = "none"
  <2>1. h \in l.hosts \ HostAddrs /\ h \notin DOMAIN known /\ LineShaped(l)
    BY <1>1, <1>2
  <2>2. \E x \in PlanLines(lines, known, purge) :
              h \in x.hosts /\ x.key = l.key /\ (h \notin DOMAIN known => x.tag = l.tag)
    BY <1>6, <2>1, PlanKeeps
  <2> QED BY <1>1, <1>6, <2>1, <2>2
<1> QED BY <1>3, <1>4, <1>5, <1>6

\* What was so of machines and file stays so while they do.
LEMMA FitsStay ==
    ASSUME HostsInv, UNCHANGED <<hm, lines, keyCount>>
    PROVE  MachinesApart' /\ LinesStand' /\ \A j : CliFits(j) => CliFits(j)'
<1>1. ASSUME NEW k, CliFits(k) PROVE CliFits(k)'
  <2>1. ConnectFits(k)'
    BY <1>1 DEF CliFits, ConnectFits, Live, Recorded
  <2>2. PurgeFits(k)'
    BY <1>1 DEF CliFits, PurgeFits, Live
  <2> QED BY <1>1, <2>1, <2>2 DEF CliFits, CliShaped
<1>2. MachinesApart' /\ LinesStand'
  BY DEF HostsInv, MachinesApart, LinesStand, MayStand, KeysOf, Live
<1> QED BY <1>1, <1>2

\* A step of a command that leaves the lock, the file and the machines alone.
LEMMA CliMoves ==
    ASSUME HostsInv, NEW c \in Clis, NEW j, cli' = [cli EXCEPT ![c] = j], UNCHANGED <<hm, lines, keyCount, hostLock>>,
           CliFits(j), cli[c].step # "write", j.step # "write"
    PROVE  HostsInv'
<1>1. cli' = [d \in Clis |-> cli'[d]] /\ cli'[c] = j /\ \A d \in Clis \ {c} : cli'[d] = cli[d]
  BY DEF HostsInv
<1>3. \A d \in Clis : CliFits(cli[d])'
  <2> SUFFICES ASSUME NEW d \in Clis PROVE CliFits(cli[d])'
    OBVIOUS
  <2> PICK k : k = cli'[d]
    OBVIOUS
  <2>1. CliFits(k)
    BY <1>1 DEF HostsInv
  <2>2. CliFits(k)'
    BY <2>1, FitsStay
  <2> QED BY <2>2
<1>4. MachinesApart' /\ LinesStand' /\ LockHeldFits'
  BY <1>1, FitsStay DEF HostsInv, LockHeldFits
<1> QED BY <1>1, <1>3, <1>4 DEF HostsInv

\* A command with some of its fields changed.
StepChanged(j, step) == [j EXCEPT !.step = step]
PlanShown(j, step, snap) == [j EXCEPT !.step = step, !.snap = snap]
KeyScanned(j, step, key, addr) == [j EXCEPT !.step = step, !.key = key, !.addr = addr]
KeyRead(j, key, tofu, step) == [j EXCEPT !.key = key, !.tofu = tofu, !.step = step]
Connecting(m, born, addr, step) ==
    [NoCli EXCEPT !.op = "connect", !.name = m, !.born = born, !.addr = addr, !.step = step]
Purging(left) == [NoCli EXCEPT !.op = "purge", !.step = "keys", !.left = left]
Dialled(m, step, reached, rebuilt) ==
    [NoCli EXCEPT !.op = "connect", !.name = m, !.step = step, !.reached = reached, !.rebuilt = rebuilt]
LooseCli == [NoCli EXCEPT !.op = "connect", !.step = "loose"]
Listed(j, m, k) ==
    [j EXCEPT !.left = @ \ {m},
              !.found = [n \in DOMAIN @ \cup {m} |-> IF n = m THEN [key |-> k, tofu |-> FALSE] ELSE @[n]]]

LEMMA CliChanges ==
    ASSUME NEW j, CliShaped(j), NEW step, NEW key, NEW tofu, NEW addr, NEW snap
    PROVE  /\ LET k == StepChanged(j, step)
              IN  /\ CliShaped(k) /\ k.step = step /\ k.op = j.op /\ k.name = j.name /\ k.addr = j.addr
                  /\ k.key = j.key /\ k.found = j.found /\ k.left = j.left /\ k.snap = j.snap
           /\ LET k == PlanShown(j, step, snap)
              IN  /\ CliShaped(k) /\ k.step = step /\ k.op = j.op /\ k.name = j.name /\ k.addr = j.addr
                  /\ k.key = j.key /\ k.found = j.found /\ k.left = j.left /\ k.snap = snap
           /\ LET k == KeyScanned(j, step, key, addr)
              IN  CliShaped(k) /\ k.step = step /\ k.op = j.op /\ k.name = j.name /\ k.addr = addr /\ k.key = key
           /\ LET k == KeyRead(j, key, tofu, step)
              IN  CliShaped(k) /\ k.step = step /\ k.op = j.op /\ k.name = j.name /\ k.addr = j.addr /\ k.key = key
<1>1. LET k == StepChanged(j, step)
      IN  /\ CliShaped(k) /\ k.step = step /\ k.op = j.op /\ k.name = j.name /\ k.addr = j.addr
          /\ k.key = j.key /\ k.found = j.found /\ k.left = j.left /\ k.snap = j.snap
  <2>1. PICK k : k = StepChanged(j, step)
    OBVIOUS
  <2>2. /\ CliShaped(k) /\ k.step = step /\ k.op = j.op /\ k.name = j.name /\ k.addr = j.addr
        /\ k.key = j.key /\ k.found = j.found /\ k.left = j.left /\ k.snap = j.snap
    BY <2>1 DEF CliShaped, StepChanged
  <2> QED BY <2>1, <2>2
<1>2. LET k == PlanShown(j, step, snap)
      IN  /\ CliShaped(k) /\ k.step = step /\ k.op = j.op /\ k.name = j.name /\ k.addr = j.addr
          /\ k.key = j.key /\ k.found = j.found /\ k.left = j.left /\ k.snap = snap
  <2>1. PICK k : k = PlanShown(j, step, snap)
    OBVIOUS
  <2>2. /\ CliShaped(k) /\ k.step = step /\ k.op = j.op /\ k.name = j.name /\ k.addr = j.addr
        /\ k.key = j.key /\ k.found = j.found /\ k.left = j.left /\ k.snap = snap
    BY <2>1 DEF CliShaped, PlanShown
  <2> QED BY <2>1, <2>2
<1>3. LET k == KeyScanned(j, step, key, addr)
      IN  CliShaped(k) /\ k.step = step /\ k.op = j.op /\ k.name = j.name /\ k.addr = addr /\ k.key = key
  <2>1. PICK k : k = KeyScanned(j, step, key, addr)
    OBVIOUS
  <2>2. CliShaped(k) /\ k.step = step /\ k.op = j.op /\ k.name = j.name /\ k.addr = addr /\ k.key = key
    BY <2>1 DEF CliShaped, KeyScanned
  <2> QED BY <2>1, <2>2
<1>4. LET k == KeyRead(j, key, tofu, step)
      IN  CliShaped(k) /\ k.step = step /\ k.op = j.op /\ k.name = j.name /\ k.addr = j.addr /\ k.key = key
  <2>1. PICK k : k = KeyRead(j, key, tofu, step)
    OBVIOUS
  <2>2. CliShaped(k) /\ k.step = step /\ k.op = j.op /\ k.name = j.name /\ k.addr = j.addr /\ k.key = key
    BY <2>1 DEF CliShaped, KeyRead
  <2> QED BY <2>1, <2>2
<1> QED BY <1>1, <1>2, <1>3, <1>4

LEMMA CliStarts ==
    /\ CliShaped(NoCli) /\ NoCli.op = "none" /\ NoCli.step = "idle"
    /\ CliShaped(LooseCli) /\ LooseCli.op = "connect" /\ LooseCli.step = "loose"
    /\ \A m, born, addr, step :
          LET k == Connecting(m, born, addr, step)
          IN  CliShaped(k) /\ k.op = "connect" /\ k.name = m /\ k.addr = addr /\ k.step = step
    /\ \A left : LET k == Purging(left)
                 IN  CliShaped(k) /\ k.op = "purge" /\ k.step = "keys" /\ k.left = left /\ DOMAIN k.found = {}
    /\ \A m, step, reached, rebuilt :
          LET k == Dialled(m, step, reached, rebuilt)
          IN  CliShaped(k) /\ k.op = "connect" /\ k.name = m /\ k.step = step /\ k.reached = reached
<1>1. CliShaped(NoCli) /\ NoCli.op = "none" /\ NoCli.step = "idle"
  BY DEF NoCli, CliShaped
<1>2. CliShaped(LooseCli) /\ LooseCli.op = "connect" /\ LooseCli.step = "loose"
  <2>1. PICK k : k = LooseCli
    OBVIOUS
  <2>2. CliShaped(k) /\ k.op = "connect" /\ k.step = "loose"
    BY <2>1 DEF NoCli, CliShaped, LooseCli
  <2> QED BY <2>1, <2>2
<1>3. ASSUME NEW m, NEW born, NEW addr, NEW step
      PROVE  LET k == Connecting(m, born, addr, step)
             IN  CliShaped(k) /\ k.op = "connect" /\ k.name = m /\ k.addr = addr /\ k.step = step
  <2>1. PICK k : k = Connecting(m, born, addr, step)
    OBVIOUS
  <2>2. CliShaped(k) /\ k.op = "connect" /\ k.name = m /\ k.addr = addr /\ k.step = step
    BY <2>1 DEF NoCli, CliShaped, Connecting
  <2> QED BY <2>1, <2>2
<1>4. ASSUME NEW left
      PROVE  LET k == Purging(left)
             IN  CliShaped(k) /\ k.op = "purge" /\ k.step = "keys" /\ k.left = left /\ DOMAIN k.found = {}
  <2>1. PICK k : k = Purging(left)
    OBVIOUS
  <2>2. CliShaped(k) /\ k.op = "purge" /\ k.step = "keys" /\ k.left = left /\ k.found = << >>
    BY <2>1 DEF NoCli, CliShaped, Purging
  <2>3. DOMAIN << >> = {}
    OBVIOUS
  <2> QED BY <2>1, <2>2, <2>3
<1>5. ASSUME NEW m, NEW step, NEW reached, NEW rebuilt
      PROVE  LET k == Dialled(m, step, reached, rebuilt)
             IN  CliShaped(k) /\ k.op = "connect" /\ k.name = m /\ k.step = step /\ k.reached = reached
  <2>1. PICK k : k = Dialled(m, step, reached, rebuilt)
    OBVIOUS
  <2>2. CliShaped(k) /\ k.op = "connect" /\ k.name = m /\ k.step = step /\ k.reached = reached
    BY <2>1 DEF NoCli, CliShaped, Dialled
  <2> QED BY <2>1, <2>2
<1> QED BY <1>1, <1>2, <1>3, <1>4, <1>5

\* Where a connect is, by its step.
LEMMA ConnectAt ==
    ASSUME HostsInv, NEW c \in Clis, cli[c].step \in {"cached", "init", "read", "confirm", "dial"}
    PROVE  /\ CliShaped(cli[c]) /\ cli[c].op = "connect" /\ cli[c].name \in HostMachines /\ Live(cli[c].name)
           /\ cli[c].step # "cached" => cli[c].addr = hm[cli[c].name].addr
           /\ cli[c].step \in {"read", "confirm", "dial"} => hm[cli[c].name].ready
           /\ cli[c].step = "confirm" => cli[c].key = hm[cli[c].name].wire
           /\ cli[c].step = "dial" => hm[cli[c].name].wire \in Recorded(cli[c].name)
<1>1. CliFits(cli[c])
  BY DEF HostsInv
<1>2. cli[c].op = "connect" /\ CliShaped(cli[c])
  BY <1>1 DEF CliFits, PurgeFits
<1> QED BY <1>1, <1>2 DEF CliFits, ConnectFits

\* A connect that goes on fits.
LEMMA ConnectGoes ==
    ASSUME NEW j, CliShaped(j), j.op = "connect", ConnectFits(j)
    PROVE  CliFits(j)
BY DEF CliFits, PurgeFits

LEMMA ConnectBeginKeeps ==
    ASSUME HostsInv, NEW c \in Clis, NEW m \in HostMachines, ConnectBegin(c, m)
    PROVE  HostsInv'
<1>1. PICK addr, step : /\ addr = IF cacheAddr[m] # NoAddr /\ Recorded(m) # {} THEN cacheAddr[m] ELSE hm[m].addr
                        /\ step = IF cacheAddr[m] # NoAddr /\ Recorded(m) # {} THEN "cached" ELSE "init"
  OBVIOUS
<1>2. PICK j : j = Connecting(m, hm[m].born, addr, step)
  OBVIOUS
<1>3. cli' = [cli EXCEPT ![c] = j] /\ Live(m) /\ cli[c].step = "idle" /\ UNCHANGED <<hm, lines, keyCount, hostLock>>
  BY <1>1, <1>2 DEF ConnectBegin, Connecting
<1>4. CliShaped(j) /\ j.op = "connect" /\ j.name = m /\ j.addr = addr /\ j.step = step
  BY <1>2, CliStarts
<1>5. step \in {"cached", "init"} /\ (step = "init" => addr = hm[m].addr)
  BY <1>1
<1>6. ConnectFits(j)
  BY <1>3, <1>4, <1>5 DEF ConnectFits
<1> QED BY <1>3, <1>4, <1>5, <1>6, ConnectGoes, CliMoves

LEMMA CacheScanKeeps ==
    ASSUME HostsInv, NEW c \in Clis, CacheScan(c)
    PROVE  HostsInv'
<1>1. PICK m, a, k : m = cli[c].name /\ a = cli[c].addr /\ k = Keyscan(a)
  OBVIOUS
<1>2. cli[c].step = "cached" /\ CliShaped(cli[c]) /\ cli[c].op = "connect" /\ m \in HostMachines /\ Live(m)
  BY <1>1, ConnectAt DEF CacheScan
<1>3. PICK hit \in BOOLEAN : hit = (k # 0 /\ Recorded(m) = {k})
  OBVIOUS
<1>4. PICK step, key, addr : /\ step = IF hit THEN "dial" ELSE "init"
                             /\ key = IF hit THEN k ELSE 0
                             /\ addr = IF hit THEN a ELSE hm[m].addr
  OBVIOUS
<1>5. PICK j : j = KeyScanned(cli[c], step, key, addr)
  OBVIOUS
<1>6. cli' = [cli EXCEPT ![c] = j] /\ UNCHANGED <<hm, lines, keyCount, hostLock>>
  BY <1>1, <1>3, <1>4, <1>5 DEF CacheScan, KeyScanned
<1>7. CliShaped(j) /\ j.step = step /\ j.op = "connect" /\ j.name = m /\ j.addr = addr /\ j.key = key
  BY <1>1, <1>2, <1>5, CliChanges
<1>8. CASE ~hit
  <2>1. step = "init" /\ addr = hm[m].addr
    BY <1>4, <1>8
  <2>2. ConnectFits(j)
    BY <1>2, <1>7, <2>1 DEF ConnectFits
  <2> QED BY <1>2, <1>6, <1>7, <2>1, <2>2, ConnectGoes, CliMoves
<1>9. CASE hit
  <2>1. PICK n \in HostMachines : hm[n].addr = a /\ k = hm[n].wire /\ Live(n)
    BY <1>1, <1>3, <1>9, Scanned DEF Live
  <2>2. PICK l \in lines : m \in l.hosts /\ l.key = k
    BY <1>3, <1>9, RecordedKeys
  <2>3. MayStand(m, k)
    BY <1>2, <2>2 DEF HostsInv, LinesStand
  <2>4. n = m /\ hm[m].ready
    BY <2>1, <2>3 DEF MayStand, KeysOf
  <2>5. step = "dial" /\ addr = hm[m].addr /\ hm[m].wire \in Recorded(m)
    BY <1>3, <1>4, <1>9, <2>1, <2>4
  <2>6. ConnectFits(j)
    BY <1>2, <1>7, <2>4, <2>5 DEF ConnectFits
  <2> QED BY <1>2, <1>6, <1>7, <2>5, <2>6, ConnectGoes, CliMoves
<1> QED BY <1>8, <1>9

LEMMA WaitKeeps ==
    ASSUME HostsInv, HostFaults \cap {"agent", "timeout"} = {}, NEW c \in Clis, WaitCloudInit(c)
    PROVE  HostsInv'
<1>1. /\ cli[c].step = "init" /\ CliShaped(cli[c]) /\ cli[c].op = "connect"
      /\ cli[c].name \in HostMachines /\ Live(cli[c].name) /\ cli[c].addr = hm[cli[c].name].addr
  BY ConnectAt DEF WaitCloudInit
<1>2. PICK j : j = StepChanged(cli[c], "read")
  OBVIOUS
<1>3. cli' = [cli EXCEPT ![c] = j] /\ UNCHANGED <<hm, lines, keyCount, hostLock>> /\ hm[cli[c].name].ready
  BY <1>1, <1>2 DEF WaitCloudInit, CliGoes, StepChanged
<1>4. CliShaped(j) /\ j.step = "read" /\ j.op = "connect" /\ j.name = cli[c].name /\ j.addr = cli[c].addr
  BY <1>1, <1>2, CliChanges
<1>5. ConnectFits(j)
  BY <1>1, <1>3, <1>4 DEF ConnectFits
<1> QED BY <1>1, <1>3, <1>4, <1>5, ConnectGoes, CliMoves

LEMMA ReadKeysKeeps ==
    ASSUME HostsInv, NEW c \in Clis, ReadKeys(c)
    PROVE  HostsInv'
<1>1. PICK m : m = cli[c].name
  OBVIOUS
<1>2. /\ cli[c].step = "read" /\ CliShaped(cli[c]) /\ cli[c].op = "connect"
      /\ m \in HostMachines /\ Live(m) /\ cli[c].addr = hm[m].addr /\ hm[m].ready
  BY <1>1, ConnectAt DEF ReadKeys
<1>3. Keyscan(cli[c].addr) = hm[m].wire /\ hm[m].disk = hm[m].wire
  BY <1>2, Scanned DEF HostsInv, MachinesApart
<1>4. UNCHANGED <<hm, lines, keyCount, hostLock>>
  BY DEF ReadKeys
<1>5. \/ cli' = [cli EXCEPT ![c] = KeyRead(@, hm[m].disk, FALSE, "confirm")]
      \/ cli' = [cli EXCEPT ![c] = KeyRead(@, Keyscan(cli[c].addr), TRUE, "plan")]
      \/ cli' = [cli EXCEPT ![c] = LooseCli]
  BY <1>1, <1>2 DEF ReadKeys, KeyRead, LooseCli
<1>6. CASE cli' = [cli EXCEPT ![c] = LooseCli]
  <2>1. PICK j : j = LooseCli
    OBVIOUS
  <2>2. CliShaped(j) /\ j.op = "connect" /\ j.step = "loose"
    BY <2>1, CliStarts
  <2>3. ConnectFits(j)
    BY <2>2 DEF ConnectFits
  <2> QED BY <1>2, <1>4, <1>6, <2>1, <2>2, <2>3, ConnectGoes, CliMoves
<1>7. CASE cli' # [cli EXCEPT ![c] = LooseCli]
  <2>1. \E tofu, step : /\ cli' = [cli EXCEPT ![c] = KeyRead(@, hm[m].wire, tofu, step)]
                        /\ step \in {"confirm", "plan"}
    BY <1>3, <1>5, <1>7
  <2>2. PICK tofu, step : /\ cli' = [cli EXCEPT ![c] = KeyRead(@, hm[m].wire, tofu, step)]
                          /\ step \in {"confirm", "plan"}
    BY <2>1
  <2>3. PICK j : j = KeyRead(cli[c], hm[m].wire, tofu, step)
    OBVIOUS
  <2>4. cli' = [cli EXCEPT ![c] = j]
    BY <2>2, <2>3
  <2>5. CliShaped(j) /\ j.step = step /\ j.op = "connect" /\ j.name = m /\ j.addr = cli[c].addr /\ j.key = hm[m].wire
    BY <1>1, <1>2, <2>3, CliChanges
  <2>6. ConnectFits(j)
    BY <1>2, <2>2, <2>5 DEF ConnectFits
  <2> QED BY <1>2, <1>4, <2>2, <2>4, <2>5, <2>6, ConnectGoes, CliMoves
<1> QED BY <1>6, <1>7

LEMMA ConfirmKeeps ==
    ASSUME HostsInv, NEW c \in Clis, ConfirmKeys(c)
    PROVE  HostsInv'
<1>1. PICK m : m = cli[c].name
  OBVIOUS
<1>2. /\ cli[c].step = "confirm" /\ CliShaped(cli[c]) /\ cli[c].op = "connect" /\ cli[c].key = hm[m].wire
      /\ m \in HostMachines /\ Live(m) /\ cli[c].addr = hm[m].addr /\ hm[m].ready
  BY <1>1, ConnectAt DEF ConfirmKeys
<1>8. CliGoes(c, "plan") \/ CliGoes(c, "read")
  <2>1. CASE Keyscan(cli[c].addr) \in {0, cli[c].key}
    BY <2>1 DEF ConfirmKeys
  <2>2. CASE Keyscan(cli[c].addr) \notin {0, cli[c].key}
    BY <2>2 DEF ConfirmKeys
  <2> QED BY <2>1, <2>2
<1>3. PICK step \in {"plan", "read"} : cli' = [cli EXCEPT ![c] = StepChanged(@, step)]
  BY <1>8 DEF CliGoes, StepChanged
<1>4. PICK j : j = StepChanged(cli[c], step)
  OBVIOUS
<1>5. cli' = [cli EXCEPT ![c] = j] /\ UNCHANGED <<hm, lines, keyCount, hostLock>>
  BY <1>3, <1>4 DEF ConfirmKeys
<1>6. CliShaped(j) /\ j.step = step /\ j.op = "connect" /\ j.name = m /\ j.addr = cli[c].addr /\ j.key = hm[m].wire
  BY <1>1, <1>2, <1>4, CliChanges
<1>7. ConnectFits(j)
  BY <1>2, <1>6 DEF ConnectFits
<1> QED BY <1>2, <1>5, <1>6, <1>7, ConnectGoes, CliMoves

\* The fits of a command of either kind after its step and copy have changed.
LEMMA PlanMoves ==
    ASSUME HostsInv, NEW c \in Clis, cli[c].step \in {"plan", "apply", "write"}, NEW j, CliShaped(j),
           j.op = cli[c].op, j.name = cli[c].name, j.addr = cli[c].addr, j.key = cli[c].key,
           j.found = cli[c].found, j.left = cli[c].left,
           \/ j.step \in {"apply", "write"}
           \/ j.step = "purged" /\ j.op = "purge"
           \/ j.step = "dial" /\ j.op = "connect" /\ hm[j.name].wire \in Recorded(j.name)
    PROVE  CliFits(j)
<1>1. CliFits(cli[c])
  BY DEF HostsInv
<1>2. cli[c].op = "connect" \/ cli[c].op = "purge"
  BY <1>1 DEF CliFits
<1>3. CASE cli[c].op = "connect"
  <2>1. /\ cli[c].name \in HostMachines /\ Live(cli[c].name) /\ hm[cli[c].name].ready
        /\ cli[c].addr = hm[cli[c].name].addr /\ cli[c].key = hm[cli[c].name].wire
    BY <1>1, <1>3 DEF CliFits, ConnectFits
  <2>2. ConnectFits(j)
    BY <1>3, <2>1 DEF ConnectFits
  <2> QED BY <1>3, <2>2, ConnectGoes
<1>4. CASE cli[c].op = "purge"
  <2>1. PurgeFits(j)
    BY <1>1, <1>4 DEF CliFits, PurgeFits
  <2> QED BY <1>4, <2>1 DEF CliFits, ConnectFits
<1> QED BY <1>2, <1>3, <1>4

LEMMA MakePlanKeeps ==
    ASSUME HostsInv, NEW c \in Clis, MakePlan(c)
    PROVE  HostsInv'
<1>1. cli[c].step = "plan" /\ CliShaped(cli[c])
  BY DEF HostsInv, CliFits, MakePlan
<1>2. PICK planned : planned = PlanLines(lines, KnownOf(c), cli[c].op = "purge")
  OBVIOUS
<1>3. PICK step : step = IF planned = lines THEN AfterPlan(c) ELSE "apply"
  OBVIOUS
<1>4. PICK j : j = PlanShown(cli[c], step, lines)
  OBVIOUS
<1>5. cli' = [cli EXCEPT ![c] = j] /\ UNCHANGED <<hm, lines, keyCount, hostLock>>
  BY <1>2, <1>3, <1>4 DEF MakePlan, PlanShown
<1>6. /\ CliShaped(j) /\ j.step = step /\ j.op = cli[c].op /\ j.name = cli[c].name /\ j.addr = cli[c].addr
      /\ j.key = cli[c].key /\ j.found = cli[c].found /\ j.left = cli[c].left
  BY <1>1, <1>4, CliChanges
<1>7. cli[c].op = "connect" => \E l \in planned : cli[c].name \in l.hosts /\ l.key = hm[cli[c].name].wire
  BY <1>1, <1>2, PlanFits
<1>8. cli[c].op \in {"connect", "purge"}
  BY <1>1, KnownFits
<1>9. \/ j.step = "apply"
      \/ j.step = "purged" /\ j.op = "purge"
      \/ j.step = "dial" /\ j.op = "connect" /\ hm[j.name].wire \in Recorded(j.name)
  BY <1>3, <1>6, <1>7, <1>8, RecordedKeys DEF AfterPlan
<1>10. CliFits(j)
  BY <1>1, <1>6, <1>9, PlanMoves
<1> QED BY <1>1, <1>5, <1>9, <1>10, CliMoves

LEMMA ApplyLockedKeeps ==
    ASSUME HostsInv, NEW c \in Clis, ApplyLocked(c)
    PROVE  HostsInv'
<1>1. cli[c].step = "apply" /\ CliShaped(cli[c]) /\ hostLock = NoAddr
  BY DEF HostsInv, CliFits, ApplyLocked
<1>2. PICK j : j = PlanShown(cli[c], "write", lines)
  OBVIOUS
<1>3. cli' = [cli EXCEPT ![c] = j] /\ UNCHANGED <<hm, lines, keyCount>> /\ hostLock' = c
  BY <1>2 DEF ApplyLocked, PlanShown
<1>4. /\ CliShaped(j) /\ j.step = "write" /\ j.op = cli[c].op /\ j.name = cli[c].name /\ j.addr = cli[c].addr
      /\ j.key = cli[c].key /\ j.found = cli[c].found /\ j.left = cli[c].left /\ j.snap = lines
  BY <1>1, <1>2, CliChanges
<1>5. CliFits(j)
  BY <1>1, <1>4, PlanMoves
<1>7. cli' = [d \in Clis |-> cli'[d]] /\ cli'[c] = j /\ \A d \in Clis \ {c} : cli'[d] = cli[d]
  BY <1>3 DEF HostsInv
<1>8. \A d \in Clis : cli[d].step # "write"
  BY <1>1, HostsAssumption DEF HostsInv, LockHeldFits
<1>9. LockHeldFits'
  BY <1>3, <1>4, <1>7, <1>8 DEF LockHeldFits
<1>10. \A d \in Clis : CliFits(cli[d])'
  BY <1>3, <1>5, <1>7, FitsStay DEF HostsInv
<1>11. MachinesApart' /\ LinesStand'
  BY <1>3, FitsStay DEF HostsInv
<1> QED BY <1>3, <1>7, <1>9, <1>10, <1>11 DEF HostsInv

LEMMA PurgeListKeeps ==
    ASSUME HostsInv, PurgeSettled, NEW c \in Clis, PurgeList(c)
    PROVE  HostsInv'
<1>1. PICK left : left = {m \in HostMachines : Live(m)}
  OBVIOUS
<1>2. PICK j : j = Purging(left)
  OBVIOUS
<1>3. cli[c].step = "idle" /\ cli' = [cli EXCEPT ![c] = j] /\ UNCHANGED <<hm, lines, keyCount, hostLock>>
  BY <1>1, <1>2 DEF PurgeList, Purging
<1>4. CliShaped(j) /\ j.op = "purge" /\ j.step = "keys" /\ j.left = left /\ DOMAIN j.found = {}
  BY <1>2, CliStarts
<1>5. cli'[c] = j
  BY <1>3 DEF HostsInv
<1>6. \A m \in HostMachines : Live(m) => hm[m].ready
  BY <1>3, <1>4, <1>5 DEF PurgeSettled, Live
<1>7. PurgeFits(j)
  BY <1>1, <1>4, <1>6 DEF PurgeFits
<1>8. CliFits(j)
  BY <1>4, <1>7 DEF CliFits, ConnectFits
<1> QED BY <1>3, <1>4, <1>8, CliMoves

LEMMA ListedFields ==
    ASSUME NEW j, CliShaped(j), NEW m, NEW k
    PROVE  LET l == Listed(j, m, k)
           IN  /\ CliShaped(l) /\ l.op = j.op /\ l.step = j.step /\ l.left = j.left \ {m}
               /\ l.found = [n \in DOMAIN j.found \cup {m} |->
                                IF n = m THEN [key |-> k, tofu |-> FALSE] ELSE j.found[n]]
<1>1. PICK found : found = [n \in DOMAIN j.found \cup {m} |->
                               IF n = m THEN [key |-> k, tofu |-> FALSE] ELSE j.found[n]]
  OBVIOUS
<1>2. PICK left : left = j.left \ {m}
  OBVIOUS
<1>3. PICK l : l = [j EXCEPT !.left = left, !.found = found]
  OBVIOUS
<1>4. l = Listed(j, m, k)
  BY <1>1, <1>2, <1>3 DEF Listed
<1>5. CliShaped(l) /\ l.op = j.op /\ l.step = j.step /\ l.left = left /\ l.found = found
  BY <1>3 DEF CliShaped
<1> QED BY <1>1, <1>2, <1>4, <1>5

LEMMA PurgeKeysKeeps ==
    ASSUME HostsInv, NEW c \in Clis, PurgeKeys(c)
    PROVE  HostsInv'
<1>1. CliFits(cli[c]) /\ cli[c].step = "keys" /\ CliShaped(cli[c]) /\ cli[c].op = "purge" /\ PurgeFits(cli[c])
  BY DEF HostsInv, CliFits, ConnectFits, PurgeKeys
<1>2. UNCHANGED <<hm, lines, keyCount, hostLock>>
  BY DEF PurgeKeys
<1>3. CASE cli[c].left = {}
  <2>1. PICK j : j = StepChanged(cli[c], "plan")
    OBVIOUS
  <2>2. cli' = [cli EXCEPT ![c] = j]
    BY <1>3, <2>1 DEF PurgeKeys, CliGoes, StepChanged
  <2>3. CliShaped(j) /\ j.op = "purge" /\ j.step = "plan" /\ j.left = cli[c].left /\ j.found = cli[c].found
    BY <1>1, <2>1, CliChanges
  <2>4. PurgeFits(j)
    BY <1>1, <1>3, <2>3 DEF PurgeFits
  <2>5. CliFits(j)
    BY <2>3, <2>4 DEF CliFits, ConnectFits
  <2> QED BY <1>1, <1>2, <2>2, <2>3, <2>5, CliMoves
<1>4. CASE cli[c].left # {}
  <2>1. PICK m : m = CHOOSE n \in cli[c].left : TRUE
    OBVIOUS
  <2>2. m \in cli[c].left
    BY <1>4, <2>1
  <2>11. \E k \in {hm[CHOOSE n \in cli[c].left : TRUE].disk} \cup {x \in {0} : "read" \in HostFaults} :
            cli' = [cli EXCEPT ![c] = Listed(@, CHOOSE n \in cli[c].left : TRUE, k)]
    BY <1>4 DEF PurgeKeys, Listed
  <2>3. PICK k \in {hm[m].disk, 0} : cli' = [cli EXCEPT ![c] = Listed(@, m, k)]
    BY <2>1, <2>11
  <2>4. PICK j : j = Listed(cli[c], m, k)
    OBVIOUS
  <2>5. cli' = [cli EXCEPT ![c] = j]
    BY <2>3, <2>4
  <2>6. /\ CliShaped(j) /\ j.op = "purge" /\ j.step = "keys" /\ j.left = cli[c].left \ {m}
        /\ j.found = [n \in DOMAIN cli[c].found \cup {m} |->
                         IF n = m THEN [key |-> k, tofu |-> FALSE] ELSE cli[c].found[n]]
    BY <1>1, <2>4, ListedFields
  <2>7. m \in HostMachines /\ Live(m) /\ hm[m].disk = hm[m].wire
    BY <1>1, <2>2 DEF PurgeFits, HostsInv, MachinesApart
  <2>8. DOMAIN j.found = DOMAIN cli[c].found \cup {m} /\ j.found[m].key = k
        /\ \A n \in DOMAIN cli[c].found \ {m} : j.found[n] = cli[c].found[n]
    BY <2>6
  <2>9. PurgeFits(j)
    <3>1. j.op = "purge" /\ j.step = "keys" /\ j.left = cli[c].left \ {m}
      BY <2>6
    <3> QED BY <1>1, <2>3, <2>7, <2>8, <3>1 DEF PurgeFits
  <2>10. CliFits(j)
    BY <2>6, <2>9 DEF CliFits, ConnectFits
  <2> QED BY <1>1, <1>2, <2>5, <2>6, <2>10, CliMoves
<1> QED BY <1>3, <1>4

LEMMA DialKeeps ==
    ASSUME HostsInv, NEW c \in Clis, DialMachine(c)
    PROVE  HostsInv' /\ cli'[c].step = "session"
<1>1. PICK m : m = cli[c].name
  OBVIOUS
<1>2. /\ cli[c].step = "dial" /\ CliShaped(cli[c]) /\ cli[c].op = "connect" /\ hm[m].wire \in Recorded(m)
      /\ m \in HostMachines /\ Live(m) /\ cli[c].addr = hm[m].addr /\ hm[m].ready
  BY <1>1, ConnectAt DEF DialMachine
<1>3. Keyscan(cli[c].addr) = hm[m].wire /\ hm[m].wire # 0
  BY <1>2, Scanned DEF HostsInv, MachinesApart, KeysOf
<1>4. (CHOOSE n \in HostMachines : hm[n].addr = cli[c].addr) = m
  <2>1. \A n \in HostMachines : hm[n].addr = cli[c].addr <=> n = m
    BY <1>2 DEF HostsInv, MachinesApart, Live
  <2> QED BY <1>2, <2>1
<1>5. PICK rebuilt : cli' = [cli EXCEPT ![c] = Dialled(m, "session", m, rebuilt)]
  BY <1>1, <1>2, <1>3, <1>4 DEF DialMachine, Dialled
<1>6. PICK j : j = Dialled(m, "session", m, rebuilt)
  OBVIOUS
<1>7. cli' = [cli EXCEPT ![c] = j] /\ UNCHANGED <<hm, lines, keyCount, hostLock>>
  BY <1>5, <1>6 DEF DialMachine
<1>8. CliShaped(j) /\ j.op = "connect" /\ j.name = m /\ j.step = "session" /\ j.reached = m
  BY <1>6, CliStarts
<1>9. ConnectFits(j)
  BY <1>8 DEF ConnectFits
<1>10. HostsInv'
  BY <1>2, <1>7, <1>8, <1>9, ConnectGoes, CliMoves
<1> QED BY <1>7, <1>8, <1>10 DEF HostsInv

LEMMA ConnectEndsKeeps ==
    ASSUME HostsInv, NEW c \in Clis, ConnectEnds(c)
    PROVE  HostsInv'
<1>1. CliFits(NoCli)
  BY CliStarts DEF CliFits, ConnectFits, PurgeFits
<1>2. PICK j : j = NoCli
  OBVIOUS
<1> QED BY <1>1, <1>2, CliStarts, CliMoves DEF ConnectEnds

\* A bare ssh adds a line whose key no machine serves.
LEMMA SshAppendsKeeps ==
    ASSUME HostsInv, AppendsApart, SshAppends
    PROVE  HostsInv' /\ lines \subseteq lines'
<1>1. PICK hs \in UserHosts : lines' = lines \cup {[hosts |-> hs, key |-> 0, tag |-> "none"]}
  BY DEF SshAppends
<1>2. UNCHANGED <<hm, cacheAddr, keyCount, hostLock, cli>>
  BY DEF SshAppends
<1>3. PICK new : new = [hosts |-> hs, key |-> 0, tag |-> "none"]
  OBVIOUS
<1>4. lines' = lines \cup {new} /\ LineShaped(new) /\ new.key = 0
  BY <1>1, <1>3 DEF LineShaped
<1>5. \A m : MayStand(m, 0)
  BY DEF HostsInv, MachinesApart, MayStand
<1>6. LinesStand'
  <2>1. \A m, k : MayStand(m, k) => MayStand(m, k)'
    BY <1>2 DEF MayStand, KeysOf, Live
  <2> QED BY <1>4, <1>5, <2>1 DEF HostsInv, LinesStand, LineShaped
<1>7. MachinesApart'
  BY <1>2 DEF HostsInv, MachinesApart, KeysOf, Live
<1>8. LockHeldFits'
  <2>1. lines' = lines \/ hostLock = NoAddr
    BY <1>2 DEF AppendsApart
  <2>2. CASE lines' = lines
    BY <1>2, <2>2 DEF HostsInv, LockHeldFits
  <2>3. CASE hostLock = NoAddr
    BY <1>2, <2>3, HostsAssumption DEF HostsInv, LockHeldFits
  <2> QED BY <2>1, <2>2, <2>3
<1>9. \A m, k : k \in Recorded(m) => k \in Recorded(m)'
  BY <1>4 DEF Recorded
<1>10. ASSUME NEW j, CliFits(j) PROVE CliFits(j)'
  <2>1. ConnectFits(j)'
    BY <1>2, <1>9, <1>10 DEF CliFits, ConnectFits, Live
  <2>2. PurgeFits(j)'
    BY <1>2, <1>10 DEF CliFits, PurgeFits, Live
  <2> QED BY <1>10, <2>1, <2>2 DEF CliFits, CliShaped
<1>11. \A c \in Clis : CliFits(cli[c])'
  BY <1>2, <1>10 DEF HostsInv
<1> QED BY <1>2, <1>4, <1>6, <1>7, <1>8, <1>11 DEF HostsInv

\* Plan.Apply replaces the file by the plan made from it.
LEMMA ApplyWriteKeeps ==
    ASSUME HostsInv, NEW c \in Clis, ApplyWrite(c)
    PROVE  /\ HostsInv'
           /\ \A m \in HostMachines : hm[m].ready /\ hm[m].wire \in Recorded(m) => hm[m].wire \in Recorded(m)'
           /\ \A l \in lines : \A h \in l.hosts \ (HostMachines \cup HostAddrs) :
                 l.tag = "none" => \E x \in lines' : h \in x.hosts /\ x.tag = "none"
<1>1. cli[c].step = "write" /\ CliShaped(cli[c]) /\ hostLock = c /\ cli[c].snap = lines
  BY DEF HostsInv, CliFits, ApplyWrite, LockHeldFits
<1>2. lines' = PlanLines(lines, KnownOf(c), cli[c].op = "purge") /\ hostLock' = NoAddr /\ UNCHANGED <<hm, keyCount>>
  BY <1>1 DEF ApplyWrite
<1>3. PICK planned : planned = lines'
  OBVIOUS
<1>4. /\ \A l \in planned : LineShaped(l) /\ \A m \in l.hosts \cap HostMachines : MayStand(m, l.key)
      /\ cli[c].op = "connect" => \E l \in planned : cli[c].name \in l.hosts /\ l.key = hm[cli[c].name].wire
      /\ \A m \in HostMachines : hm[m].ready /\ hm[m].wire \in Recorded(m) =>
            \E l \in planned : m \in l.hosts /\ l.key = hm[m].wire
      /\ \A l \in lines : \A h \in l.hosts \ (HostMachines \cup HostAddrs) :
            l.tag = "none" => \E x \in planned : h \in x.hosts /\ x.tag = "none"
  BY <1>1, <1>2, <1>3, PlanFits
<1>5. \A m, k : k \in Recorded(m)' <=> \E l \in planned : m \in l.hosts /\ l.key = k
  BY <1>3 DEF Recorded
<1>6. \A m \in HostMachines : hm[m].ready /\ hm[m].wire \in Recorded(m) => hm[m].wire \in Recorded(m)'
  BY <1>4, <1>5
<1>7. LinesStand'
  <2>1. \A m, k : MayStand(m, k) => MayStand(m, k)'
    BY <1>2 DEF MayStand, KeysOf, Live
  <2> QED BY <1>3, <1>4, <2>1 DEF LinesStand, LineShaped
<1>8. MachinesApart'
  BY <1>2 DEF HostsInv, MachinesApart, KeysOf, Live
<1>9. ASSUME NEW j, CliFits(j) PROVE CliFits(j)'
  <2>1. ConnectFits(j)'
    BY <1>2, <1>6, <1>9 DEF CliFits, ConnectFits, Live
  <2>2. PurgeFits(j)'
    BY <1>2, <1>9 DEF CliFits, PurgeFits, Live
  <2> QED BY <1>9, <2>1, <2>2 DEF CliFits, CliShaped
<1>10. PICK step : step = AfterPlan(c)
  OBVIOUS
<1>11. PICK j : j = PlanShown(cli[c], step, {})
  OBVIOUS
<1>12. cli' = [cli EXCEPT ![c] = j]
  BY <1>10, <1>11 DEF ApplyWrite, PlanShown
<1>13. /\ CliShaped(j) /\ j.step = step /\ j.op = cli[c].op /\ j.name = cli[c].name /\ j.addr = cli[c].addr
       /\ j.key = cli[c].key /\ j.found = cli[c].found /\ j.left = cli[c].left
  BY <1>1, <1>11, CliChanges
<1>14. cli[c].op \in {"connect", "purge"} /\ step = IF cli[c].op = "purge" THEN "purged" ELSE "dial"
  BY <1>1, <1>10, KnownFits DEF AfterPlan
<1>15. CliFits(j)'
  <2>1. CliFits(cli[c])
    BY DEF HostsInv
  <2>2. CASE cli[c].op = "connect"
    <3>1. /\ cli[c].name \in HostMachines /\ Live(cli[c].name) /\ hm[cli[c].name].ready
          /\ cli[c].addr = hm[cli[c].name].addr
      BY <1>1, <2>1, <2>2 DEF CliFits, ConnectFits
    <3>6. PICK m : m = cli[c].name
      OBVIOUS
    <3>2. hm[m].wire \in Recorded(m)'
      BY <1>4, <1>5, <2>2, <3>6
    <3>3. j.op = "connect" /\ j.step = "dial" /\ j.name = m /\ j.addr = hm[m].addr
      BY <1>13, <1>14, <2>2, <3>1, <3>6
    <3>4. ConnectFits(j)'
      BY <1>2, <3>1, <3>2, <3>3, <3>6 DEF ConnectFits, Live
    <3>5. PurgeFits(j)'
      BY <3>3 DEF PurgeFits
    <3> QED BY <1>13, <3>3, <3>4, <3>5 DEF CliFits, CliShaped
  <2>3. CASE cli[c].op = "purge"
    <3>1. j.op = "purge" /\ j.step = "purged"
      BY <1>13, <1>14, <2>3
    <3>2. PurgeFits(j)'
      BY <1>1, <1>2, <1>13, <2>1, <2>3, <3>1 DEF CliFits, PurgeFits, Live
    <3>3. ConnectFits(j)'
      BY <3>1 DEF ConnectFits
    <3> QED BY <1>13, <3>1, <3>2, <3>3 DEF CliFits, CliShaped
  <2> QED BY <1>14, <2>2, <2>3
<1>16. cli' = [d \in Clis |-> cli'[d]] /\ cli'[c] = j /\ \A d \in Clis \ {c} : cli'[d] = cli[d]
  BY <1>12 DEF HostsInv
<1>17. \A d \in Clis : CliFits(cli[d])'
  <2> SUFFICES ASSUME NEW d \in Clis PROVE CliFits(cli[d])'
    OBVIOUS
  <2> PICK k : k = cli'[d]
    OBVIOUS
  <2>1. CliFits(k)'
    BY <1>9, <1>15, <1>16 DEF HostsInv
  <2> QED BY <2>1
<1>18. LockHeldFits'
  <2>1. \A d \in Clis : cli'[d].step # "write"
    BY <1>1, <1>13, <1>14, <1>16 DEF HostsInv, LockHeldFits
  <2> QED BY <1>2, <2>1, HostsAssumption DEF LockHeldFits
<1>19. HostsInv'
  BY <1>2, <1>7, <1>8, <1>16, <1>17, <1>18 DEF HostsInv
<1> QED BY <1>3, <1>4, <1>6, <1>19

\* One machine changes: its keys are its own or fresh, its address is free,
\* and one that has booted can only go.
LEMMA MachineMoves ==
    ASSUME HostsInv, PurgeSettled, AddressesStay, NEW m \in HostMachines, NEW r \in HostMachineRecords,
           hm' = [hm EXCEPT ![m] = r], UNCHANGED <<lines, hostLock, cli>>, keyCount' \in Nat, keyCount <= keyCount',
           Live(m) \/ r.addr # NoAddr, hm[m].ready => r.addr = NoAddr, r.addr = NoAddr => ~r.ready,
           r.addr # NoAddr => /\ {r.born, r.disk, r.wire} \subseteq 1 .. keyCount'
                              /\ \A k \in {r.born, r.disk, r.wire} : (Live(m) /\ k \in KeysOf(m)) \/ k = keyCount + 1
                              /\ \A n \in HostMachines \ {m} : hm[n].addr # r.addr
                              /\ (r.ready => r.disk = r.wire) /\ (~r.ready => r.wire = r.born)
    PROVE  HostsInv'
<1>1. hm'[m] = r /\ \A n \in HostMachines \ {m} : hm'[n] = hm[n]
  BY DEF HostsInv
<1>2. hm' \in [HostMachines -> HostMachineRecords]
  BY DEF HostsInv
<1>3. \A n \in HostMachines : Live(n) => KeysOf(n) \subseteq 1 .. keyCount
  BY DEF HostsInv, MachinesApart
<1>4. keyCount \in Nat
  BY DEF HostsInv
<1> DEFINE keys == {r.born, r.disk, r.wire}
<1>5. \A n \in HostMachines : Live(n)' <=> IF n = m THEN r.addr # NoAddr ELSE Live(n)
  BY <1>1 DEF Live
<1>6. \A n \in HostMachines : KeysOf(n)' = IF n = m THEN keys ELSE KeysOf(n)
  BY <1>1 DEF KeysOf
<1>7. MachinesApart'
  <2>1. ASSUME NEW n \in HostMachines \ {m}, Live(n), r.addr # NoAddr PROVE keys \cap KeysOf(n) = {}
    <3> SUFFICES ASSUME NEW k \in keys, k \in KeysOf(n) PROVE FALSE
      OBVIOUS
    <3>1. k # keyCount + 1
      BY <1>3, <1>4, <2>1
    <3>2. Live(m) /\ k \in KeysOf(m)
      BY <2>1, <3>1
    <3>3. KeysOf(m) \cap KeysOf(n) = {}
      BY <2>1, <3>2 DEF HostsInv, MachinesApart
    <3> QED BY <3>2, <3>3
  <2>2. ASSUME NEW a \in HostMachines, NEW b \in HostMachines, Live(a)', Live(b)', a # b
        PROVE  hm'[a].addr # hm'[b].addr /\ KeysOf(a)' \cap KeysOf(b)' = {}
    <3> HIDE DEF keys
    <3>1. CASE a = m
      BY <1>1, <1>5, <1>6, <2>1, <2>2, <3>1
    <3>2. CASE b = m
      BY <1>1, <1>5, <1>6, <2>1, <2>2, <3>2
    <3>3. CASE a # m /\ b # m
      BY <1>1, <1>5, <1>6, <2>2, <3>3 DEF HostsInv, MachinesApart
    <3> QED BY <3>1, <3>2, <3>3
  <2>3. ASSUME NEW n \in HostMachines
        PROVE  /\ Live(n)' => KeysOf(n)' \subseteq 1 .. keyCount'
               /\ hm'[n].ready => Live(n)' /\ hm'[n].disk = hm'[n].wire
               /\ Live(n)' /\ ~hm'[n].ready => hm'[n].wire = hm'[n].born
    <3>1. CASE n = m
      BY <1>1, <1>5, <1>6, <3>1
    <3>2. CASE n # m
      <4>1. Live(n) => KeysOf(n) \subseteq 1 .. keyCount'
        BY <1>3, <1>4
      <4> QED BY <1>1, <1>5, <1>6, <3>2, <4>1 DEF HostsInv, MachinesApart
    <3> QED BY <3>1, <3>2
  <2> QED BY <2>2, <2>3 DEF MachinesApart
<1>8. ASSUME NEW n, NEW k, MayStand(n, k) PROVE MayStand(n, k)'
  <2>1. k \in 0 .. keyCount'
    BY <1>4, <1>8 DEF MayStand
  <2>2. ASSUME NEW o \in HostMachines, Live(o)', k \in KeysOf(o)' PROVE o = n /\ hm'[o].ready
    <3>1. CASE o = m
      <4>1. k \in keys /\ k # keyCount + 1 /\ r.addr # NoAddr
        BY <1>4, <1>5, <1>6, <1>8, <2>2, <3>1 DEF MayStand
      <4>2. Live(m) /\ k \in KeysOf(m)
        BY <4>1
      <4>3. hm[m].ready
        BY <1>8, <4>2 DEF MayStand
      <4> QED BY <4>1, <4>3
    <3>2. CASE o # m
      BY <1>1, <1>5, <1>6, <1>8, <2>2, <3>2 DEF MayStand
    <3> QED BY <3>1, <3>2
  <2> QED BY <2>1, <2>2 DEF MayStand
<1>9. LinesStand'
  BY <1>8 DEF HostsInv, LinesStand, LineShaped
<1>10. LockHeldFits'
  BY DEF HostsInv, LockHeldFits
<1>11. ASSUME NEW c \in Clis PROVE cli[c].op # "purge"
  <2> SUFFICES ASSUME cli[c].op = "purge" PROVE FALSE
    OBVIOUS
  <2>1. hm'[m].ready = hm[m].ready /\ (hm'[m].addr # NoAddr => hm'[m].ready)
    BY DEF PurgeSettled
  <2>2. Live(m) => hm[m].ready
    BY DEF HostsInv, CliFits, PurgeFits
  <2> QED BY <1>1, <2>1, <2>2
<1>12. ASSUME NEW c \in Clis PROVE CliFits(cli[c])'
  <2>1. PICK j : j = cli[c]
    OBVIOUS
  <2>2. CliFits(j) /\ j.op # "purge"
    BY <1>11, <2>1 DEF HostsInv
  <2>3. j.op = "connect" /\ j.name \in HostMachines => hm'[j.name].addr = hm[j.name].addr
    BY <2>1 DEF AddressesStay
  <2>4. j.op = "connect" /\ j.name \in HostMachines /\ Live(j.name) =>
           Live(j.name)' /\ (hm[j.name].ready => j.name # m /\ hm'[j.name] = hm[j.name])
    BY <1>1, <2>3 DEF Live
  <2>5. \A n, k : k \in Recorded(n)' <=> k \in Recorded(n)
    BY DEF Recorded
  <2>6. ConnectFits(j)'
    <3> SUFFICES ASSUME j.op = "connect" PROVE ConnectFits(j)'
      BY DEF ConnectFits
    <3>1. ConnectFits(j)
      BY <2>2 DEF CliFits
    <3>2. PICK n : n = j.name
      OBVIOUS
    <3>3. hm[n].wire \in Recorded(n) => hm[n].wire \in Recorded(n)'
      BY <2>5
    <3> QED BY <2>3, <2>4, <3>1, <3>2, <3>3 DEF ConnectFits
  <2>7. PurgeFits(j)'
    BY <2>2 DEF PurgeFits
  <2>8. CliFits(j)'
    BY <2>2, <2>6, <2>7 DEF CliFits, CliShaped
  <2> QED BY <2>1, <2>8
<1> QED BY <1>2, <1>7, <1>9, <1>10, <1>12 DEF HostsInv

LEMMA BootKeeps ==
    ASSUME HostsInv, PurgeSettled, AddressesStay, NEW m \in HostMachines, BootMachine(m)
    PROVE  HostsInv'
<1>1. PICK a \in HostAddrs \ {hm[n].addr : n \in HostMachines} :
         hm' = [hm EXCEPT ![m] = [addr |-> a, born |-> keyCount + 1, disk |-> keyCount + 1,
                                  wire |-> keyCount + 1, ready |-> FALSE]]
  BY DEF BootMachine
<1>2. PICK r : r = [addr |-> a, born |-> keyCount + 1, disk |-> keyCount + 1, wire |-> keyCount + 1, ready |-> FALSE]
  OBVIOUS
<1>3. ~Live(m) /\ keyCount \in Nat /\ keyCount' = keyCount + 1 /\ UNCHANGED <<lines, hostLock, cli>>
  BY DEF BootMachine, HostsInv
<1>4. r \in HostMachineRecords /\ a # NoAddr
  BY <1>2, <1>3, HostsAssumption DEF HostMachineRecords
<1>5. ~hm[m].ready
  BY <1>3 DEF HostsInv, MachinesApart
<1>6. r.addr = a /\ r.born = keyCount + 1 /\ r.disk = keyCount + 1 /\ r.wire = keyCount + 1 /\ r.ready = FALSE
  BY <1>2
<1>7. \A n \in HostMachines \ {m} : hm[n].addr # r.addr
  BY <1>1, <1>6
<1>8. {r.born, r.disk, r.wire} \subseteq 1 .. keyCount' /\ keyCount <= keyCount' /\ keyCount' \in Nat
  BY <1>3, <1>6
<1> QED BY <1>1, <1>2, <1>3, <1>4, <1>5, <1>6, <1>7, <1>8, MachineMoves

\* The fields of a machine whose keys change, and of one that goes.
KeyWritten(h, k) == [h EXCEPT !.disk = k]
KeyServed(h, k) == [h EXCEPT !.wire = k, !.ready = TRUE]

LEMMA MachineFields ==
    ASSUME NEW h \in HostMachineRecords, NEW k \in Nat
    PROVE  /\ /\ KeyWritten(h, k) \in HostMachineRecords /\ KeyWritten(h, k).addr = h.addr
              /\ KeyWritten(h, k).born = h.born /\ KeyWritten(h, k).disk = k
              /\ KeyWritten(h, k).wire = h.wire /\ KeyWritten(h, k).ready = h.ready
           /\ /\ KeyServed(h, k) \in HostMachineRecords /\ KeyServed(h, k).addr = h.addr
              /\ KeyServed(h, k).born = h.born /\ KeyServed(h, k).disk = h.disk
              /\ KeyServed(h, k).wire = k /\ KeyServed(h, k).ready
           /\ Gone \in HostMachineRecords /\ Gone.addr = NoAddr /\ ~Gone.ready
BY DEF HostMachineRecords, Gone, KeyWritten, KeyServed

LEMMA RegenerateKeeps ==
    ASSUME HostsInv, PurgeSettled, AddressesStay, NEW m \in HostMachines, RegenerateKeys(m)
    PROVE  HostsInv'
<1>1. PICK h, r : h = hm[m] /\ r = KeyWritten(h, keyCount + 1)
  OBVIOUS
<1>2. /\ Live(m) /\ ~hm[m].ready /\ keyCount \in Nat /\ h \in HostMachineRecords
      /\ keyCount' = keyCount + 1 /\ UNCHANGED <<lines, hostLock, cli>>
  BY <1>1 DEF RegenerateKeys, HostsInv
<1>3. hm' = [hm EXCEPT ![m] = r]
  BY <1>1 DEF RegenerateKeys, KeyWritten
<1>9. keyCount + 1 \in Nat
  BY <1>2
<1>4. /\ r \in HostMachineRecords /\ r.addr = h.addr /\ r.born = h.born /\ r.disk = keyCount + 1
      /\ r.wire = h.wire /\ r.ready = h.ready
  BY <1>1, <1>2, <1>9, MachineFields
<1>5. /\ h.wire = h.born /\ KeysOf(m) \subseteq 1 .. keyCount
      /\ \A n \in HostMachines \ {m} : hm[n].addr # h.addr
  BY <1>1, <1>2 DEF HostsInv, MachinesApart, Live
<1>6. h.wire \in KeysOf(m) /\ h.born \in KeysOf(m)
  BY <1>1 DEF KeysOf
<1>7. {r.born, r.disk, r.wire} \subseteq 1 .. keyCount' /\ keyCount <= keyCount' /\ keyCount' \in Nat
  BY <1>2, <1>4, <1>5, <1>6
<1>8. r.addr # NoAddr
  BY <1>1, <1>2, <1>4 DEF Live
<1>10. \A k \in {r.born, r.disk, r.wire} : (Live(m) /\ k \in KeysOf(m)) \/ k = keyCount + 1
  BY <1>2, <1>4, <1>5, <1>6
<1>11. (r.ready => r.disk = r.wire) /\ (~r.ready => r.wire = r.born) /\ ~hm[m].ready
  BY <1>1, <1>2, <1>4, <1>5
<1>12. \A n \in HostMachines \ {m} : hm[n].addr # r.addr
  BY <1>4, <1>5
<1> QED BY <1>2, <1>3, <1>4, <1>7, <1>8, <1>10, <1>11, <1>12, MachineMoves

LEMMA RestartKeeps ==
    ASSUME HostsInv, PurgeSettled, AddressesStay, NEW m \in HostMachines, RestartSshd(m)
    PROVE  HostsInv'
<1>1. PICK h, r : h = hm[m] /\ r = KeyServed(h, h.disk)
  OBVIOUS
<1>2. /\ Live(m) /\ ~hm[m].ready /\ keyCount \in Nat /\ h \in HostMachineRecords /\ h.disk \in Nat
      /\ UNCHANGED <<keyCount, lines, hostLock, cli>>
  BY <1>1 DEF RestartSshd, HostsInv, HostMachineRecords
<1>3. hm' = [hm EXCEPT ![m] = r]
  BY <1>1 DEF RestartSshd, KeyServed
<1>4. /\ r \in HostMachineRecords /\ r.addr = h.addr /\ r.born = h.born /\ r.disk = h.disk
      /\ r.wire = h.disk /\ r.ready
  BY <1>1, <1>2, MachineFields
<1>5. /\ KeysOf(m) \subseteq 1 .. keyCount
      /\ \A n \in HostMachines \ {m} : hm[n].addr # h.addr
  BY <1>1, <1>2 DEF HostsInv, MachinesApart, Live
<1>6. h.disk \in KeysOf(m) /\ h.born \in KeysOf(m)
  BY <1>1 DEF KeysOf
<1>7. {r.born, r.disk, r.wire} \subseteq 1 .. keyCount' /\ keyCount <= keyCount' /\ keyCount' \in Nat
  BY <1>2, <1>4, <1>5, <1>6
<1>8. r.addr # NoAddr
  BY <1>1, <1>2, <1>4 DEF Live
<1>10. \A k \in {r.born, r.disk, r.wire} : (Live(m) /\ k \in KeysOf(m)) \/ k = keyCount + 1
  BY <1>2, <1>4, <1>5, <1>6
<1>11. (r.ready => r.disk = r.wire) /\ (~r.ready => r.wire = r.born) /\ ~hm[m].ready
  BY <1>1, <1>2, <1>4, <1>5
<1>12. \A n \in HostMachines \ {m} : hm[n].addr # r.addr
  BY <1>4, <1>5
<1> QED BY <1>2, <1>3, <1>4, <1>7, <1>8, <1>10, <1>11, <1>12, MachineMoves

LEMMA DeleteKeeps ==
    ASSUME HostsInv, PurgeSettled, AddressesStay, NEW m \in HostMachines, DeleteMachine(m)
    PROVE  HostsInv'
<1>1. PICK r : r = Gone
  OBVIOUS
<1>2. Live(m) /\ hm' = [hm EXCEPT ![m] = r] /\ keyCount \in Nat /\ UNCHANGED <<keyCount, lines, hostLock, cli>>
  BY <1>1 DEF DeleteMachine, HostsInv
<1>3. r \in HostMachineRecords /\ r.addr = NoAddr /\ ~r.ready
  <2>1. hm[m] \in HostMachineRecords /\ 0 \in Nat
    BY DEF HostsInv
  <2> QED BY <1>1, <2>1, MachineFields
<1>4. keyCount' \in Nat /\ keyCount <= keyCount' /\ (Live(m) \/ r.addr # NoAddr) /\ (r.addr = NoAddr => ~r.ready)
      /\ (hm[m].ready => r.addr = NoAddr)
  BY <1>2, <1>3
<1>5. r.addr # NoAddr => FALSE
  BY <1>3
<1>6. UNCHANGED <<lines, hostLock, cli>> /\ hm' = [hm EXCEPT ![m] = r] /\ r \in HostMachineRecords
  BY <1>2, <1>3
<1> QED BY <1>4, <1>5, <1>6, MachineMoves

\* A step that touches neither machines nor file nor commands.
LEMMA HostsIdle ==
    ASSUME HostsInv, UNCHANGED <<hm, lines, keyCount, hostLock, cli>>
    PROVE  HostsInv'
<1>1. \A c \in Clis : CliFits(cli[c])'
  <2> SUFFICES ASSUME NEW c \in Clis PROVE CliFits(cli[c])'
    OBVIOUS
  <2> PICK j : j = cli[c]
    OBVIOUS
  <2>1. CliFits(j)'
    BY FitsStay DEF HostsInv
  <2> QED BY <2>1
<1> QED BY <1>1, FitsStay DEF HostsInv, LockHeldFits

LEMMA HostsInvInitially ==
    ASSUME HostsInit
    PROVE  HostsInv
<1>1. \A m \in HostMachines : hm[m] = Gone /\ ~Live(m)
  BY DEF HostsInit, Live, Gone
<1>2. Gone \in HostMachineRecords /\ ~Gone.ready
  BY DEF Gone, HostMachineRecords
<1>3. hm \in [HostMachines -> HostMachineRecords]
  BY <1>2 DEF HostsInit
<1>4. MachinesApart
  BY <1>1, <1>2 DEF MachinesApart
<1>5. CliFits(NoCli)
  BY CliStarts DEF CliFits, ConnectFits, PurgeFits
<1>6. cli = [c \in Clis |-> NoCli] /\ NoCli.step = "idle"
  BY CliStarts DEF HostsInit
<1>7. LockHeldFits
  BY <1>6, HostsAssumption DEF HostsInit, LockHeldFits
<1>8. \A c \in Clis : CliFits(cli[c])
  BY <1>5, <1>6
<1> QED BY <1>3, <1>4, <1>6, <1>7, <1>8 DEF HostsInv, HostsInit, LinesStand

\* waitForCloudInitV2 returns when cloud-init is done.
HostFaultsCalm == HostFaults \cap {"agent", "timeout"} = {}

LEMMA HostsInvKept ==
    ASSUME HostFaultsCalm, HostsInv, [HostsApart]_hostVars, [HostsNext]_hostVars
    PROVE  HostsInv'
<1>1. CASE UNCHANGED hostVars
  BY <1>1, HostsIdle DEF hostVars
<1>2. CASE HostsNext /\ HostsApart
  <2>1. PurgeSettled /\ AddressesStay /\ AppendsApart
    BY <1>2 DEF HostsApart
  <2>2. ASSUME NEW m \in HostMachines,
               BootMachine(m) \/ RegenerateKeys(m) \/ RestartSshd(m) \/ DeleteMachine(m) \/ CacheCatchesUp(m)
        PROVE  HostsInv'
    <3>1. CASE CacheCatchesUp(m)
      BY <3>1, HostsIdle DEF CacheCatchesUp
    <3> QED BY <2>1, <2>2, <3>1, BootKeeps, RegenerateKeeps, RestartKeeps, DeleteKeeps
  <2>3. CASE SshAppends
    BY <2>1, <2>3, SshAppendsKeeps
  <2>4. ASSUME NEW c \in Clis, NEW m \in HostMachines, ConnectBegin(c, m) PROVE HostsInv'
    BY <2>4, ConnectBeginKeeps
  <2>5. ASSUME NEW c \in Clis, CacheScan(c) \/ WaitCloudInit(c) \/ ReadKeys(c) \/ ConfirmKeys(c) PROVE HostsInv'
    BY <2>5, CacheScanKeeps, WaitKeeps, ReadKeysKeeps, ConfirmKeeps DEF HostFaultsCalm
  <2>6. ASSUME NEW c \in Clis, PurgeList(c) \/ PurgeKeys(c) PROVE HostsInv'
    BY <2>1, <2>6, PurgeListKeeps, PurgeKeysKeeps
  <2>7. ASSUME NEW c \in Clis, MakePlan(c) \/ ApplyLocked(c) \/ ApplyWrite(c) \/ DialMachine(c) \/ ConnectEnds(c)
        PROVE  HostsInv'
    BY <2>7, MakePlanKeeps, ApplyLockedKeeps, ApplyWriteKeeps, DialKeeps, ConnectEndsKeeps
  <2> QED BY <1>2, <2>2, <2>3, <2>4, <2>5, <2>6, <2>7 DEF HostsNext
<1> QED BY <1>1, <1>2

\* Only a plan written takes lines away, and it keeps these.
LEMMA LinesKept ==
    ASSUME HostsInv, [HostsNext]_hostVars
    PROVE  /\ \A l \in lines : \A h \in l.hosts \ (HostMachines \cup HostAddrs) :
                 l.tag = "none" => \E x \in lines' : h \in x.hosts /\ x.tag = "none"
           /\ \A m \in HostMachines : hm[m].ready /\ hm'[m] = hm[m] /\ hm[m].wire \in Recorded(m) =>
                 hm[m].wire \in Recorded(m)'
<1>1. CASE \E c \in Clis : ApplyWrite(c)
  BY <1>1, ApplyWriteKeeps
<1>2. CASE ~\E c \in Clis : ApplyWrite(c)
  <2>1. lines \subseteq lines'
    BY <1>2 DEF HostsNext, hostVars, BootMachine, RegenerateKeys, RestartSshd, DeleteMachine, CacheCatchesUp, SshAppends,
                ConnectBegin, CacheScan, WaitCloudInit, ReadKeys, ConfirmKeys, PurgeList, PurgeKeys, MakePlan,
                ApplyLocked, DialMachine, ConnectEnds
  <2> QED BY <2>1 DEF Recorded
<1> QED BY <1>1, <1>2

(* HostKeysSound, while the agent answers and cloud-init ends in time, no *)
(* machine comes or goes while a purge runs or moves under a connect to   *)
(* it, and a bare ssh does not append between the reading and the         *)
(* renaming of the file: no strict session is refused or reaches another  *)
(* machine, and no line that the user's own ssh wrote of a foreign host,  *)
(* nor one that is still true of a machine, is lost; for any machines,    *)
(* addresses, commands and keys, whether the key of a machine can be read *)
(* or only scanned or neither, and a cached address is right or stale.    *)
THEOREM HostKeysStaySound ==
    ASSUME HostFaultsCalm
    PROVE  HostsSpec /\ [][HostsApart]_hostVars => HostKeysSound
<1>1. HostsInit => HostsInv
  BY HostsInvInitially
<1>2. HostsInv /\ [HostsApart]_hostVars /\ [HostsNext]_hostVars => HostsInv'
  BY HostsInvKept
<1>3. HostsInv => RefusedOnlyWhenRebuilt /\ SessionsReachTheirMachine
  BY DEF HostsInv, CliFits, ConnectFits, PurgeFits, RefusedOnlyWhenRebuilt, SessionsReachTheirMachine
<1>4. HostsInv /\ [HostsNext]_hostVars
        => \A l \in lines : \A h \in l.hosts \ (HostMachines \cup HostAddrs) :
              l.tag = "none" => \E k \in lines' : h \in k.hosts /\ k.tag = "none"
  BY LinesKept
<1>5. HostsInv /\ [HostsNext]_hostVars
        => \A m \in HostMachines :
              hm[m].ready /\ hm'[m] = hm[m] /\ hm[m].wire \in Recorded(m) => hm[m].wire \in Recorded(m)'
  BY LinesKept
<1> QED BY <1>1, <1>2, <1>3, <1>4, <1>5, PTL DEF HostsSpec, HostKeysSound, UserLinesKept, LiveLinesKept

\* A command's fields, whatever machines and addresses did meanwhile.
CliTyped(j) ==
    /\ CliShaped(j)
    /\ j.key \in 0..MaxHostKey /\ j.left \subseteq HostMachines
    /\ j.snap \subseteq Line /\ \A l \in j.snap : l.hosts # {}
    /\ DOMAIN j.found \subseteq HostMachines /\ \A m \in DOMAIN j.found : j.found[m].key \in 0..MaxHostKey
    /\ j.op = "purge" => j.step \in {"keys", "plan", "apply", "write", "purged"}
    /\ j.step = "keys" => j.op = "purge"
    /\ j.op # "purge" /\ j.step \in {"cached", "init", "read", "confirm", "plan", "apply", "write", "dial"}
         => j.name \in HostMachines

HostsTyped ==
    /\ HostsTypeOK
    /\ cli = [c \in Clis |-> cli[c]]
    /\ \A c \in Clis : CliTyped(cli[c])

LEMMA NoCliTyped == CliTyped(NoCli)
<1>1. /\ CliShaped(NoCli) /\ NoCli.key = 0 /\ NoCli.left = {} /\ NoCli.snap = {} /\ NoCli.found = << >>
      /\ NoCli.op = "none" /\ NoCli.step = "idle"
  BY DEF NoCli, CliShaped
<1>2. 0 \in 0..MaxHostKey /\ DOMAIN << >> = {}
  BY HostsAssumption
<1> QED BY <1>1, <1>2 DEF CliTyped

LEMMA HostsTypedInitially ==
    ASSUME HostsInit
    PROVE  HostsTyped
<1>1. 0 \in 0..MaxHostKey
  BY HostsAssumption
<1>2. hm \in [HostMachines -> [addr : HostAddrs \cup {NoAddr}, born : 0..MaxHostKey,
                               disk : 0..MaxHostKey, wire : 0..MaxHostKey, ready : BOOLEAN]]
  BY <1>1 DEF HostsInit, Gone
<1>3. \A m \in HostMachines : hm[m].addr = NoAddr
  BY DEF HostsInit, Gone
<1>4. \A c \in Clis : cli[c] = NoCli
  BY DEF HostsInit
<1>5. NoCli.snap = {} /\ NoCli.left = {} /\ NoCli.found = << >> /\ NoCli.step = "idle" /\ DOMAIN << >> = {}
  BY DEF NoCli
<1>6. \A c \in Clis : /\ cli[c].snap \subseteq Line /\ cli[c].left \subseteq HostMachines
                      /\ DOMAIN cli[c].found \subseteq HostMachines
                      /\ (hostLock = c) <=> (cli[c].step = "write")
  BY <1>4, <1>5, HostsAssumption DEF HostsInit
<1>7. HostsTypeOK
  BY <1>1, <1>2, <1>3, <1>6 DEF HostsInit, HostsTypeOK
<1> QED BY <1>4, <1>7, NoCliTyped DEF HostsTyped, HostsInit

\* A step of a command that leaves everything else alone.
LEMMA CliGoesTyped ==
    ASSUME HostsTyped, NEW c \in Clis, NEW k, cli' = [cli EXCEPT ![c] = k], CliTyped(k),
           cli[c].step # "write", k.step # "write", UNCHANGED <<hm, lines, cacheAddr, keyCount, hostLock>>
    PROVE  HostsTyped'
<1>1. cli' = [d \in Clis |-> cli'[d]] /\ cli'[c] = k /\ \A d \in Clis \ {c} : cli'[d] = cli[d]
  BY DEF HostsTyped
<1>2. \A d \in Clis : CliTyped(cli'[d])
  BY <1>1 DEF HostsTyped
<1>3. \A d \in Clis : (hostLock = d) <=> (cli'[d].step = "write")
  BY <1>1 DEF HostsTyped, HostsTypeOK
<1>4. HostsTypeOK'
  BY <1>2, <1>3 DEF HostsTyped, HostsTypeOK, CliTyped
<1>5. (\A d \in Clis : CliTyped(cli[d]))'
  BY <1>2 DEF CliTyped, CliShaped
<1> QED BY <1>1, <1>4, <1>5 DEF HostsTyped

LEMMA KeyscanTyped ==
    ASSUME HostsTyped, NEW a
    PROVE  Keyscan(a) \in 0..MaxHostKey
<1> DEFINE ms == {m \in HostMachines : hm[m].addr = a} \ {m \in HostMachines : a = NoAddr}
<1>1. CASE ms = {}
  BY <1>1, HostsAssumption DEF Keyscan
<1>2. CASE ms # {}
  <2>1. (CHOOSE n \in ms : TRUE) \in ms
    <3> HIDE DEF ms
    <3> QED BY <1>2
  <2>2. PICK n \in HostMachines : n = CHOOSE x \in ms : TRUE
    BY <2>1
  <2>3. Keyscan(a) = hm[n].wire
    BY <1>2, <2>2 DEF Keyscan
  <2>4. hm[n].wire \in 0..MaxHostKey
    BY DEF HostsTyped, HostsTypeOK
  <2> QED BY <2>3, <2>4
<1> QED BY <1>1, <1>2

\* The machines change, each to a typed record of its own address.
LEMMA MachineGoesTyped ==
    ASSUME HostsTyped, NEW m \in HostMachines,
           NEW r \in [addr : HostAddrs \cup {NoAddr}, born : 0..MaxHostKey,
                      disk : 0..MaxHostKey, wire : 0..MaxHostKey, ready : BOOLEAN],
           hm' = [hm EXCEPT ![m] = r], keyCount' \in 0..MaxHostKey, UNCHANGED <<lines, cacheAddr, hostLock, cli>>,
           r.addr # NoAddr => \A n \in HostMachines \ {m} : hm[n].addr # r.addr
    PROVE  HostsTyped'
<1>1. /\ hm' \in [HostMachines -> [addr : HostAddrs \cup {NoAddr}, born : 0..MaxHostKey,
                                   disk : 0..MaxHostKey, wire : 0..MaxHostKey, ready : BOOLEAN]]
      /\ hm'[m] = r /\ \A n \in HostMachines \ {m} : hm'[n] = hm[n]
  BY DEF HostsTyped, HostsTypeOK
<1>2. \A x, y \in HostMachines : x # y /\ hm'[x].addr # NoAddr => hm'[x].addr # hm'[y].addr
  <2> SUFFICES ASSUME NEW x \in HostMachines, NEW y \in HostMachines, x # y, hm'[x].addr # NoAddr
               PROVE  hm'[x].addr # hm'[y].addr
    OBVIOUS
  <2>1. CASE x = m
    BY <1>1, <2>1
  <2>2. CASE y = m
    BY <1>1, <2>2
  <2>3. CASE x # m /\ y # m
    BY <1>1, <2>3 DEF HostsTyped, HostsTypeOK
  <2> QED BY <2>1, <2>2, <2>3
<1>3. HostsTypeOK'
  BY <1>1, <1>2 DEF HostsTyped, HostsTypeOK
<1>4. (\A c \in Clis : CliTyped(cli[c]))'
  BY DEF HostsTyped, CliTyped, CliShaped
<1> QED BY <1>3, <1>4 DEF HostsTyped

LEMMA MachineStepsTyped ==
    ASSUME HostsTyped, NEW m \in HostMachines,
           BootMachine(m) \/ RegenerateKeys(m) \/ RestartSshd(m) \/ DeleteMachine(m) \/ CacheCatchesUp(m)
    PROVE  HostsTyped'
<1> DEFINE Records == [addr : HostAddrs \cup {NoAddr}, born : 0..MaxHostKey,
                       disk : 0..MaxHostKey, wire : 0..MaxHostKey, ready : BOOLEAN]
<1>0. hm \in [HostMachines -> Records] /\ hm[m] \in Records /\ keyCount \in 0..MaxHostKey /\ MaxHostKey \in Nat
  BY HostsAssumption DEF HostsTyped, HostsTypeOK
<1>1. CASE BootMachine(m)
  <2>1. keyCount + 1 \in 0..MaxHostKey
    BY <1>0, <1>1 DEF BootMachine
  <2>2. PICK a \in HostAddrs \ {hm[n].addr : n \in HostMachines} :
          hm' = [hm EXCEPT ![m] = [addr |-> a, born |-> keyCount + 1, disk |-> keyCount + 1,
                                   wire |-> keyCount + 1, ready |-> FALSE]]
    BY <1>1 DEF BootMachine
  <2>3. PICK r \in Records : r = [addr |-> a, born |-> keyCount + 1, disk |-> keyCount + 1,
                                  wire |-> keyCount + 1, ready |-> FALSE]
    BY <2>1
  <2> QED BY <1>1, <2>1, <2>2, <2>3, MachineGoesTyped DEF BootMachine
<1>2. CASE RegenerateKeys(m)
  <2>1. keyCount + 1 \in 0..MaxHostKey
    BY <1>0, <1>2 DEF RegenerateKeys
  <2>4. \A h \in Records, k \in 0..MaxHostKey : KeyWritten(h, k) \in Records /\ KeyWritten(h, k).addr = h.addr
    BY DEF KeyWritten
  <2>2. PICK r \in Records : r = KeyWritten(hm[m], keyCount + 1) /\ r.addr = hm[m].addr
    <3> HIDE DEF Records
    <3> QED BY <1>0, <2>1, <2>4
  <2>3. hm' = [hm EXCEPT ![m] = r]
    BY <1>2, <2>2 DEF RegenerateKeys, KeyWritten
  <2> QED BY <1>2, <2>1, <2>2, <2>3, MachineGoesTyped DEF RegenerateKeys, HostsTyped, HostsTypeOK
<1>3. CASE RestartSshd(m)
  <2>3. \A h \in Records, k \in 0..MaxHostKey : KeyServed(h, k) \in Records /\ KeyServed(h, k).addr = h.addr
    BY DEF KeyServed
  <2>4. hm[m].disk \in 0..MaxHostKey
    BY <1>0
  <2>1. PICK r \in Records : r = KeyServed(hm[m], hm[m].disk) /\ r.addr = hm[m].addr
    <3> HIDE DEF Records
    <3> QED BY <1>0, <2>3, <2>4
  <2>2. hm' = [hm EXCEPT ![m] = r]
    BY <1>3, <2>1 DEF RestartSshd, KeyServed
  <2> QED BY <1>0, <1>3, <2>1, <2>2, MachineGoesTyped DEF RestartSshd, HostsTyped, HostsTypeOK
<1>4. CASE DeleteMachine(m)
  <2>1. Gone \in Records /\ Gone.addr = NoAddr
    BY <1>0 DEF Gone
  <2> QED BY <1>0, <1>4, <2>1, MachineGoesTyped DEF DeleteMachine
<1>5. CASE CacheCatchesUp(m)
  <2>1. hm[m].addr \in HostAddrs \cup {NoAddr}
    BY <1>0
  <2>2. cacheAddr' \in [HostMachines -> HostAddrs \cup {NoAddr}] /\ UNCHANGED <<hm, lines, keyCount, hostLock, cli>>
    BY <1>5, <2>1 DEF CacheCatchesUp, HostsTyped, HostsTypeOK
  <2>3. HostsTypeOK'
    BY <2>2 DEF HostsTyped, HostsTypeOK
  <2> QED BY <2>2, <2>3 DEF HostsTyped, CliTyped, CliShaped
<1> QED BY <1>1, <1>2, <1>3, <1>4, <1>5

LEMMA SshAppendsTyped ==
    ASSUME HostsTyped, SshAppends
    PROVE  HostsTyped'
<1>1. PICK hs \in UserHosts : lines' = lines \cup {[hosts |-> hs, key |-> 0, tag |-> "none"]}
  BY DEF SshAppends
<1>2. [hosts |-> hs, key |-> 0, tag |-> "none"] \in Line /\ hs # {}
  BY HostsAssumption DEF Line, Hosts
<1>3. UNCHANGED <<hm, cacheAddr, keyCount, hostLock, cli>> /\ lines' \subseteq Line /\ \A l \in lines' : l.hosts # {}
  BY <1>1, <1>2 DEF SshAppends, HostsTyped, HostsTypeOK
<1>4. HostsTypeOK'
  BY <1>3 DEF HostsTyped, HostsTypeOK
<1> QED BY <1>3, <1>4 DEF HostsTyped, CliTyped, CliShaped

\* The lines of a plan of typed lines are typed.
LEMMA PlanTyped ==
    ASSUME NEW planned \in SUBSET Line, \A l \in planned : l.hosts # {}, NEW known, NEW purge,
           DOMAIN known \subseteq HostMachines, \A m \in DOMAIN known : known[m].key \in 0..MaxHostKey
    PROVE  PlanLines(planned, known, purge) \subseteq Line /\ \A l \in PlanLines(planned, known, purge) : l.hosts # {}
<1> SUFFICES ASSUME NEW x \in PlanLines(planned, known, purge) PROVE x \in Line /\ x.hosts # {}
  OBVIOUS
<1>1. CASE x \in Desired(known)
  <2>1. PICK m \in DOMAIN known : x = [hosts |-> {m}, key |-> known[m].key, tag |-> IF known[m].tofu THEN "tofu" ELSE "own"]
    BY <1>1 DEF Desired
  <2>2. {m} \in SUBSET Hosts /\ known[m].key \in 0..MaxHostKey
    BY DEF Hosts
  <2> QED BY <2>1, <2>2 DEF Line
<1>2. CASE \E l \in planned : x \in KeptOf(l, known, purge)
  <2>1. PICK l \in planned : x \in KeptOf(l, known, purge)
    BY <1>2
  <2>2. x = l \/ \E hs : x \in WithoutHosts(l, hs)
    BY <2>1 DEF KeptOf
  <2>3. ASSUME NEW hs, x \in WithoutHosts(l, hs) PROVE x \in Line /\ x.hosts # {}
    BY <2>3 DEF WithoutHosts, Line
  <2> QED BY <2>2, <2>3
<1> QED BY <1>1, <1>2, PlanParts

\* What a command with a plan knows.
LEMMA KnownTyped ==
    ASSUME HostsTyped, NEW c \in Clis, cli[c].step \in {"plan", "apply", "write"}
    PROVE  DOMAIN KnownOf(c) \subseteq HostMachines /\ \A m \in DOMAIN KnownOf(c) : KnownOf(c)[m].key \in 0..MaxHostKey
<1>1. CliTyped(cli[c])
  BY DEF HostsTyped
<1>2. CASE cli[c].op = "purge"
  BY <1>1, <1>2 DEF CliTyped, KnownOf
<1>3. CASE cli[c].op # "purge"
  <2>1. cli[c].name \in HostMachines /\ cli[c].key \in 0..MaxHostKey
    BY <1>1, <1>3 DEF CliTyped
  <2>2. KnownOf(c) = [m \in {cli[c].name} |-> [key |-> cli[c].key, tofu |-> cli[c].tofu]]
    BY <1>3 DEF KnownOf
  <2> QED BY <2>1, <2>2
<1> QED BY <1>2, <1>3

\* A command's fields after each kind of step.
GoesTo(j, step) ==
    /\ j.step \in {"cached", "init", "read", "confirm", "keys", "plan", "apply", "write", "dial"}
    /\ step # "keys" /\ (j.op = "purge" => step \in {"plan", "apply", "write", "purged"})

LEMMA StepTyped ==
    ASSUME NEW j, CliTyped(j), NEW step, GoesTo(j, step)
    PROVE  CliTyped(StepChanged(j, step)) /\ StepChanged(j, step).step = step
<1>1. CliShaped(j)
  BY DEF CliTyped
<1>2. PICK k : k = StepChanged(j, step)
  OBVIOUS
<1>3. /\ CliShaped(k) /\ k.step = step /\ k.op = j.op /\ k.name = j.name /\ k.key = j.key
      /\ k.left = j.left /\ k.found = j.found /\ k.snap = j.snap
  BY <1>1, <1>2 DEF CliShaped, StepChanged
<1>4. CliTyped(k)
  BY <1>3 DEF CliTyped, GoesTo
<1> QED BY <1>2, <1>3, <1>4

LEMMA ShownTyped ==
    ASSUME NEW j, CliTyped(j), NEW step, GoesTo(j, step), NEW snap \in SUBSET Line, \A l \in snap : l.hosts # {}
    PROVE  CliTyped(PlanShown(j, step, snap)) /\ PlanShown(j, step, snap).step = step
<1>1. CliShaped(j)
  BY DEF CliTyped
<1>2. PICK k : k = PlanShown(j, step, snap)
  OBVIOUS
<1>3. /\ CliShaped(k) /\ k.step = step /\ k.op = j.op /\ k.name = j.name /\ k.key = j.key
      /\ k.left = j.left /\ k.found = j.found /\ k.snap = snap
  BY <1>1, <1>2 DEF CliShaped, PlanShown
<1>4. CliTyped(k)
  BY <1>3 DEF CliTyped, GoesTo
<1> QED BY <1>2, <1>3, <1>4

LEMMA ScannedTyped ==
    ASSUME NEW j, CliTyped(j), NEW step, GoesTo(j, step), NEW key \in 0..MaxHostKey, NEW addr
    PROVE  CliTyped(KeyScanned(j, step, key, addr)) /\ KeyScanned(j, step, key, addr).step = step
<1>1. CliShaped(j)
  BY DEF CliTyped
<1>2. PICK k : k = KeyScanned(j, step, key, addr)
  OBVIOUS
<1>3. /\ CliShaped(k) /\ k.step = step /\ k.op = j.op /\ k.name = j.name /\ k.key = key
      /\ k.left = j.left /\ k.found = j.found /\ k.snap = j.snap
  BY <1>1, <1>2 DEF CliShaped, KeyScanned
<1>4. CliTyped(k)
  BY <1>3 DEF CliTyped, GoesTo
<1> QED BY <1>2, <1>3, <1>4

LEMMA ReadTyped ==
    ASSUME NEW j, CliTyped(j), NEW step, GoesTo(j, step), NEW key \in 0..MaxHostKey, NEW tofu
    PROVE  CliTyped(KeyRead(j, key, tofu, step)) /\ KeyRead(j, key, tofu, step).step = step
<1>1. CliShaped(j)
  BY DEF CliTyped
<1>2. PICK k : k = KeyRead(j, key, tofu, step)
  OBVIOUS
<1>3. /\ CliShaped(k) /\ k.step = step /\ k.op = j.op /\ k.name = j.name /\ k.key = key
      /\ k.left = j.left /\ k.found = j.found /\ k.snap = j.snap
  BY <1>1, <1>2 DEF CliShaped, KeyRead
<1>4. CliTyped(k)
  BY <1>3 DEF CliTyped, GoesTo
<1> QED BY <1>2, <1>3, <1>4

\* What a connect reads.
LEMMA ConnectStepsTyped ==
    ASSUME HostsTyped, NEW c \in Clis,
           \/ \E m \in HostMachines : ConnectBegin(c, m)
           \/ CacheScan(c) \/ WaitCloudInit(c) \/ ReadKeys(c) \/ ConfirmKeys(c) \/ DialMachine(c) \/ ConnectEnds(c)
    PROVE  HostsTyped'
<1>0. /\ CliTyped(cli[c]) /\ UNCHANGED <<hm, lines, cacheAddr, keyCount, hostLock>>
      /\ 0 \in 0..MaxHostKey
  <2>1. CASE \E m \in HostMachines : ConnectBegin(c, m)
    <3>1. PICK m \in HostMachines : ConnectBegin(c, m)
      BY <2>1
    <3>2. UNCHANGED <<hm, lines, cacheAddr, keyCount, hostLock>>
      BY <3>1 DEF ConnectBegin
    <3> QED BY <3>2, HostsAssumption DEF HostsTyped
  <2>2. CASE CacheScan(c) \/ WaitCloudInit(c) \/ ReadKeys(c) \/ ConfirmKeys(c) \/ DialMachine(c) \/ ConnectEnds(c)
    BY <2>2, HostsAssumption DEF HostsTyped, CacheScan, WaitCloudInit, ReadKeys, ConfirmKeys, DialMachine, ConnectEnds
  <2> QED BY <2>1, <2>2
<1>1. ASSUME NEW m \in HostMachines, ConnectBegin(c, m) PROVE HostsTyped'
  <2>1. PICK addr, step : /\ addr = IF cacheAddr[m] # NoAddr /\ Recorded(m) # {} THEN cacheAddr[m] ELSE hm[m].addr
                          /\ step = IF cacheAddr[m] # NoAddr /\ Recorded(m) # {} THEN "cached" ELSE "init"
    OBVIOUS
  <2>2. PICK j : j = Connecting(m, hm[m].born, addr, step)
    OBVIOUS
  <2>3. cli' = [cli EXCEPT ![c] = j] /\ cli[c].step = "idle"
    BY <1>1, <2>1, <2>2 DEF ConnectBegin, Connecting
  <2>4. /\ CliShaped(j) /\ j.op = "connect" /\ j.name = m /\ j.step = step /\ j.key = 0 /\ j.left = {}
        /\ j.snap = {} /\ j.found = << >>
    BY <2>2 DEF Connecting, NoCli, CliShaped
  <2>5. step \in {"cached", "init"} /\ DOMAIN << >> = {}
    BY <2>1
  <2>6. CliTyped(j)
    BY <1>0, <2>4, <2>5 DEF CliTyped
  <2> QED BY <1>0, <2>3, <2>4, <2>5, <2>6, CliGoesTyped
<1>2. CASE CacheScan(c)
  <2>1. PICK k \in 0..MaxHostKey : k = Keyscan(cli[c].addr)
    BY KeyscanTyped
  <2>2. PICK hit \in BOOLEAN : hit = (k # 0 /\ Recorded(cli[c].name) = {k})
    OBVIOUS
  <2>9. PICK key \in 0..MaxHostKey : key = IF hit THEN k ELSE 0
    BY <1>0
  <2>3. PICK step, addr : /\ step = IF hit THEN "dial" ELSE "init"
                          /\ addr = IF hit THEN cli[c].addr ELSE hm[cli[c].name].addr
    OBVIOUS
  <2>4. PICK j : j = KeyScanned(cli[c], step, key, addr)
    OBVIOUS
  <2>5. cli' = [cli EXCEPT ![c] = j] /\ cli[c].step = "cached"
    BY <1>2, <2>1, <2>2, <2>3, <2>4, <2>9 DEF CacheScan, KeyScanned
  <2>6. cli[c].op # "purge" /\ step \in {"dial", "init"}
    BY <1>0, <2>3, <2>5 DEF CliTyped
  <2>8. GoesTo(cli[c], step)
    BY <2>5, <2>6 DEF GoesTo
  <2>7. CliTyped(j) /\ j.step = step
    BY <1>0, <2>3, <2>4, <2>8, ScannedTyped
  <2> QED BY <1>0, <2>5, <2>6, <2>7, CliGoesTyped
<1>3. ASSUME NEW step \in {"read", "plan"}, CliGoes(c, step), cli[c].step \in {"init", "confirm"} PROVE HostsTyped'
  <2>1. PICK j : j = StepChanged(cli[c], step)
    OBVIOUS
  <2>2. cli' = [cli EXCEPT ![c] = j]
    BY <1>3, <2>1 DEF CliGoes, StepChanged
  <2>3. cli[c].op # "purge"
    BY <1>0, <1>3 DEF CliTyped
  <2>5. GoesTo(cli[c], step)
    BY <1>3, <2>3 DEF GoesTo
  <2>4. CliTyped(j) /\ j.step = step
    BY <1>0, <2>1, <2>5, StepTyped
  <2> QED BY <1>0, <1>3, <2>2, <2>4, CliGoesTyped
<1>4. CASE WaitCloudInit(c)
  BY <1>3, <1>4 DEF WaitCloudInit
<1>5. CASE ConfirmKeys(c)
  <2>1. CliGoes(c, "plan") \/ CliGoes(c, "read")
    <3>1. CASE Keyscan(cli[c].addr) \in {0, cli[c].key}
      BY <1>5, <3>1 DEF ConfirmKeys
    <3>2. CASE Keyscan(cli[c].addr) \notin {0, cli[c].key}
      BY <1>5, <3>2 DEF ConfirmKeys
    <3> QED BY <3>1, <3>2
  <2>2. cli[c].step = "confirm"
    BY <1>5 DEF ConfirmKeys
  <2> QED BY <1>3, <2>1, <2>2
<1>6. CASE ReadKeys(c)
  <2>1. cli[c].step = "read"
    BY <1>6 DEF ReadKeys
  <2>2. cli[c].op # "purge" /\ cli[c].name \in HostMachines
    BY <1>0, <2>1 DEF CliTyped
  <2>3. hm[cli[c].name].disk \in 0..MaxHostKey /\ Keyscan(cli[c].addr) \in 0..MaxHostKey
    BY <2>2, KeyscanTyped DEF HostsTyped, HostsTypeOK
  <2>4. \/ cli' = [cli EXCEPT ![c] = KeyRead(@, hm[cli[c].name].disk, FALSE, "confirm")]
        \/ cli' = [cli EXCEPT ![c] = KeyRead(@, Keyscan(cli[c].addr), TRUE, "plan")]
        \/ cli' = [cli EXCEPT ![c] = LooseCli]
    BY <1>6 DEF ReadKeys, KeyRead, LooseCli
  <2>5. CASE cli' = [cli EXCEPT ![c] = LooseCli]
    <3>1. PICK j : j = LooseCli
      OBVIOUS
    <3>2. /\ CliShaped(j) /\ j.op = "connect" /\ j.step = "loose" /\ j.key = 0 /\ j.left = {} /\ j.snap = {}
          /\ j.found = << >>
      BY <3>1 DEF LooseCli, NoCli, CliShaped
    <3>4. DOMAIN << >> = {}
      OBVIOUS
    <3>3. CliTyped(j)
      BY <1>0, <3>2, <3>4 DEF CliTyped
    <3> QED BY <1>0, <2>1, <2>5, <3>1, <3>2, <3>3, CliGoesTyped
  <2>6. ASSUME NEW key \in 0..MaxHostKey, NEW tofu, NEW step \in {"confirm", "plan"},
               cli' = [cli EXCEPT ![c] = KeyRead(@, key, tofu, step)]
        PROVE  HostsTyped'
    <3>1. PICK j : j = KeyRead(cli[c], key, tofu, step)
      OBVIOUS
    <3>2. cli' = [cli EXCEPT ![c] = j]
      BY <2>6, <3>1
    <3>4. GoesTo(cli[c], step)
      BY <2>1, <2>2, <2>6 DEF GoesTo
    <3>3. CliTyped(j) /\ j.step = step
      BY <1>0, <2>6, <3>1, <3>4, ReadTyped
    <3> QED BY <1>0, <2>1, <3>2, <3>3, CliGoesTyped
  <2> QED BY <2>3, <2>4, <2>5, <2>6
<1>7. CASE DialMachine(c)
  <2>1. PICK step, reached, rebuilt :
          /\ cli' = [cli EXCEPT ![c] = Dialled(cli[c].name, step, reached, rebuilt)]
          /\ step \in {"unreachable", "session", "refused"}
    <3>1. PICK k : k = Keyscan(cli[c].addr)
      OBVIOUS
    <3>2. PICK step : step = IF k = 0 THEN "unreachable" ELSE IF k \in Recorded(cli[c].name) THEN "session" ELSE "refused"
      OBVIOUS
    <3>3. PICK reached : reached = IF k = 0 THEN NoAddr ELSE CHOOSE n \in HostMachines : hm[n].addr = cli[c].addr
      OBVIOUS
    <3>4. PICK rebuilt : rebuilt = (hm[cli[c].name].born # cli[c].born)
      OBVIOUS
    <3>5. cli' = [cli EXCEPT ![c] = Dialled(cli[c].name, step, reached, rebuilt)]
      BY <1>7, <3>1, <3>2, <3>3, <3>4 DEF DialMachine, Dialled
    <3> QED BY <3>2, <3>5
  <2>2. PICK j : j = Dialled(cli[c].name, step, reached, rebuilt)
    OBVIOUS
  <2>3. /\ CliShaped(j) /\ j.op = "connect" /\ j.step = step /\ j.key = 0 /\ j.left = {} /\ j.snap = {}
        /\ j.found = << >>
    BY <2>2 DEF Dialled, NoCli, CliShaped
  <2>5. DOMAIN << >> = {}
    OBVIOUS
  <2>4. CliTyped(j) /\ j.step # "write" /\ cli[c].step # "write"
    BY <1>0, <1>7, <2>1, <2>3, <2>5 DEF CliTyped, DialMachine
  <2> QED BY <1>0, <2>1, <2>2, <2>4, CliGoesTyped
<1>8. CASE ConnectEnds(c)
  <2>1. PICK j : j = NoCli
    OBVIOUS
  <2>2. j.step = "idle" /\ CliTyped(j)
    BY <2>1, NoCliTyped DEF NoCli
  <2> QED BY <1>0, <1>8, <2>1, <2>2, CliGoesTyped DEF ConnectEnds
<1> QED BY <1>1, <1>2, <1>4, <1>5, <1>6, <1>7, <1>8

\* What a purge lists, and what either command writes.
LEMMA WriteStepsTyped ==
    ASSUME HostsTyped, NEW c \in Clis,
           PurgeList(c) \/ PurgeKeys(c) \/ MakePlan(c) \/ ApplyLocked(c) \/ ApplyWrite(c)
    PROVE  HostsTyped'
<1>0. /\ CliTyped(cli[c]) /\ lines \subseteq Line /\ \A l \in lines : l.hosts # {}
      /\ 0 \in 0..MaxHostKey
  BY HostsAssumption DEF HostsTyped, HostsTypeOK
<1>1. CASE PurgeList(c)
  <2>1. PICK left \in SUBSET HostMachines : left = {m \in HostMachines : Live(m)}
    OBVIOUS
  <2>2. PICK j : j = Purging(left)
    OBVIOUS
  <2>3. cli[c].step = "idle" /\ cli' = [cli EXCEPT ![c] = j] /\ UNCHANGED <<hm, lines, cacheAddr, keyCount, hostLock>>
    BY <1>1, <2>1, <2>2 DEF PurgeList, Purging
  <2>4. /\ CliShaped(j) /\ j.op = "purge" /\ j.step = "keys" /\ j.left = left /\ j.key = 0 /\ j.snap = {}
        /\ j.found = << >>
    BY <2>2 DEF Purging, NoCli, CliShaped
  <2>6. DOMAIN << >> = {}
    OBVIOUS
  <2>5. CliTyped(j)
    BY <1>0, <2>4, <2>6 DEF CliTyped
  <2> QED BY <2>3, <2>4, <2>5, CliGoesTyped
<1>2. CASE PurgeKeys(c)
  <2>0. /\ cli[c].step = "keys" /\ cli[c].op = "purge" /\ UNCHANGED <<hm, lines, cacheAddr, keyCount, hostLock>>
        /\ CliShaped(cli[c])
    BY <1>0, <1>2 DEF PurgeKeys, CliTyped
  <2>1. CASE cli[c].left = {}
    <3>1. PICK j : j = StepChanged(cli[c], "plan")
      OBVIOUS
    <3>2. cli' = [cli EXCEPT ![c] = j]
      BY <1>2, <2>1, <3>1 DEF PurgeKeys, CliGoes, StepChanged
    <3>4. GoesTo(cli[c], "plan")
      BY <2>0 DEF GoesTo
    <3>3. CliTyped(j) /\ j.step = "plan"
      BY <1>0, <3>1, <3>4, StepTyped
    <3> QED BY <2>0, <3>2, <3>3, CliGoesTyped
  <2>2. CASE cli[c].left # {}
    <3>1. PICK m : m = CHOOSE n \in cli[c].left : TRUE
      OBVIOUS
    <3>2. m \in cli[c].left /\ m \in HostMachines
      BY <1>0, <2>2, <3>1 DEF CliTyped
    <3>3. \E k \in {hm[CHOOSE n \in cli[c].left : TRUE].disk} \cup {x \in {0} : "read" \in HostFaults} :
            cli' = [cli EXCEPT ![c] = Listed(@, CHOOSE n \in cli[c].left : TRUE, k)]
      BY <1>2, <2>2 DEF PurgeKeys, Listed
    <3>4. hm[m].disk \in 0..MaxHostKey
      BY <3>2 DEF HostsTyped, HostsTypeOK
    <3>5. PICK k \in 0..MaxHostKey : cli' = [cli EXCEPT ![c] = Listed(@, m, k)]
      BY <1>0, <3>1, <3>3, <3>4
    <3>6. PICK j : j = Listed(cli[c], m, k)
      OBVIOUS
    <3>7. cli' = [cli EXCEPT ![c] = j]
      BY <3>5, <3>6
    <3>8. /\ CliShaped(j) /\ j.op = "purge" /\ j.step = "keys" /\ j.left = cli[c].left \ {m}
          /\ j.found = [n \in DOMAIN cli[c].found \cup {m} |->
                           IF n = m THEN [key |-> k, tofu |-> FALSE] ELSE cli[c].found[n]]
      BY <2>0, <3>6, ListedFields
    <3>9. j.key = cli[c].key /\ j.snap = cli[c].snap
      <4>1. PICK left, found : j = [cli[c] EXCEPT !.left = left, !.found = found]
        BY <3>6 DEF Listed
      <4> QED BY <2>0, <4>1 DEF CliShaped
    <3>10. DOMAIN j.found \subseteq HostMachines /\ \A n \in DOMAIN j.found : j.found[n].key \in 0..MaxHostKey
      BY <1>0, <3>2, <3>8 DEF CliTyped
    <3>11. CliTyped(j)
      BY <1>0, <3>8, <3>9, <3>10 DEF CliTyped
    <3> QED BY <2>0, <3>7, <3>8, <3>11, CliGoesTyped
  <2> QED BY <2>1, <2>2
<1>3. CASE MakePlan(c)
  <2>1. PICK step : step = IF PlanLines(lines, KnownOf(c), cli[c].op = "purge") = lines THEN AfterPlan(c) ELSE "apply"
    OBVIOUS
  <2>2. PICK j : j = PlanShown(cli[c], step, lines)
    OBVIOUS
  <2>3. /\ cli[c].step = "plan" /\ cli' = [cli EXCEPT ![c] = j]
        /\ UNCHANGED <<hm, lines, cacheAddr, keyCount, hostLock>>
    BY <1>3, <2>1, <2>2 DEF MakePlan, PlanShown
  <2>4. step = "apply" \/ step = "purged" \/ (step = "dial" /\ cli[c].op # "purge")
    BY <2>1 DEF AfterPlan
  <2>6. GoesTo(cli[c], step)
    BY <2>3, <2>4 DEF GoesTo
  <2>5. CliTyped(j) /\ j.step = step
    BY <1>0, <2>2, <2>6, ShownTyped
  <2> QED BY <2>3, <2>4, <2>5, CliGoesTyped
<1>4. CASE ApplyLocked(c)
  <2>1. PICK j : j = PlanShown(cli[c], "write", lines)
    OBVIOUS
  <2>2. /\ cli[c].step = "apply" /\ hostLock = NoAddr /\ hostLock' = c
        /\ cli' = [cli EXCEPT ![c] = j] /\ UNCHANGED <<hm, lines, cacheAddr, keyCount>>
    BY <1>4, <2>1 DEF ApplyLocked, PlanShown
  <2>8. GoesTo(cli[c], "write")
    BY <2>2 DEF GoesTo
  <2>3. CliTyped(j) /\ j.step = "write"
    BY <1>0, <2>1, <2>8, ShownTyped
  <2>4. cli' = [d \in Clis |-> cli'[d]] /\ cli'[c] = j /\ \A d \in Clis \ {c} : cli'[d] = cli[d]
    BY <2>2 DEF HostsTyped
  <2>5. \A d \in Clis : CliTyped(cli'[d]) /\ ((hostLock' = d) <=> (cli'[d].step = "write"))
    BY <2>2, <2>3, <2>4, HostsAssumption DEF HostsTyped, HostsTypeOK
  <2>6. HostsTypeOK'
    BY <2>2, <2>5 DEF HostsTyped, HostsTypeOK, CliTyped
  <2>7. (\A d \in Clis : CliTyped(cli[d]))'
    BY <2>5 DEF CliTyped, CliShaped
  <2> QED BY <2>4, <2>6, <2>7 DEF HostsTyped
<1>5. CASE ApplyWrite(c)
  <2>1. PICK j : j = PlanShown(cli[c], AfterPlan(c), {})
    OBVIOUS
  <2>2. /\ cli[c].step = "write" /\ hostLock' = NoAddr
        /\ cli' = [cli EXCEPT ![c] = j] /\ UNCHANGED <<hm, cacheAddr, keyCount>>
        /\ lines' = PlanLines(cli[c].snap, KnownOf(c), cli[c].op = "purge")
    BY <1>5, <2>1 DEF ApplyWrite, PlanShown
  <2>3. lines' \subseteq Line /\ \A l \in lines' : l.hosts # {}
    <3>1. cli[c].snap \in SUBSET Line /\ \A l \in cli[c].snap : l.hosts # {}
      BY <1>0 DEF CliTyped
    <3>2. DOMAIN KnownOf(c) \subseteq HostMachines /\ \A m \in DOMAIN KnownOf(c) : KnownOf(c)[m].key \in 0..MaxHostKey
      BY <2>2, KnownTyped
    <3>3. PICK known, purge, planned : known = KnownOf(c) /\ purge = (cli[c].op = "purge") /\ planned = cli[c].snap
      OBVIOUS
    <3>4. PlanLines(planned, known, purge) \subseteq Line /\ \A l \in PlanLines(planned, known, purge) : l.hosts # {}
      BY <3>1, <3>2, <3>3, PlanTyped
    <3> QED BY <2>2, <3>3, <3>4
  <2>4. AfterPlan(c) = "purged" \/ (AfterPlan(c) = "dial" /\ cli[c].op # "purge")
    BY DEF AfterPlan
  <2>10. GoesTo(cli[c], AfterPlan(c))
    BY <2>2, <2>4 DEF GoesTo
  <2>5. CliTyped(j) /\ j.step = AfterPlan(c)
    BY <1>0, <2>1, <2>10, ShownTyped
  <2>6. cli' = [d \in Clis |-> cli'[d]] /\ cli'[c] = j /\ \A d \in Clis \ {c} : cli'[d] = cli[d]
    BY <2>2 DEF HostsTyped
  <2>7. hostLock = c /\ \A d \in Clis : CliTyped(cli'[d]) /\ cli'[d].step # "write"
    BY <2>2, <2>4, <2>5, <2>6 DEF HostsTyped, HostsTypeOK
  <2>8. HostsTypeOK'
    BY <2>2, <2>3, <2>7, HostsAssumption DEF HostsTyped, HostsTypeOK, CliTyped
  <2>9. (\A d \in Clis : CliTyped(cli[d]))'
    BY <2>7 DEF CliTyped, CliShaped
  <2> QED BY <2>6, <2>8, <2>9 DEF HostsTyped
<1> QED BY <1>1, <1>2, <1>3, <1>4, <1>5

LEMMA HostsTypedKept ==
    ASSUME HostsTyped, [HostsNext]_hostVars
    PROVE  HostsTyped'
<1>1. CASE UNCHANGED hostVars
  <2>1. HostsTypeOK'
    BY <1>1 DEF hostVars, HostsTyped, HostsTypeOK
  <2> QED BY <1>1, <2>1 DEF hostVars, HostsTyped, CliTyped, CliShaped
<1>2. CASE HostsNext
  BY <1>2, MachineStepsTyped, SshAppendsTyped, ConnectStepsTyped, WriteStepsTyped DEF HostsNext
<1> QED BY <1>1, <1>2

\* The lines of known_hosts name hosts and keys that were made, and no two
\* machines have one address.
THEOREM HostsStayTyped == HostsSpec => []HostsTypeOK
<1>1. HostsInit => HostsTyped
  BY HostsTypedInitially
<1>2. HostsTyped /\ [HostsNext]_hostVars => HostsTyped'
  BY HostsTypedKept
<1>3. HostsTyped => HostsTypeOK
  BY DEF HostsTyped
<1> QED BY <1>1, <1>2, <1>3, PTL DEF HostsSpec
=============================================================================
