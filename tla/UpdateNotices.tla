---------------------------- MODULE UpdateNotices ----------------------------
(***************************************************************************)
(* The passive update notices of the CLI: update/notice.go, state.go and   *)
(* check.go over update-state.json, driven by cli/update_notice.go.        *)
(*                                                                         *)
(* Every command may start a release check in the background and, when it  *)
(* has finished, prints what is due and rewrites the state file.  The file *)
(* is read and written as a whole, by the check and by the command, so the *)
(* two can overwrite each other, and so can the commands of two terminals. *)
(***************************************************************************)
EXTENDS Naturals

CONSTANTS
    Runs,           \* commands, each run at most once
    MaxTime,        \* bound of the clock
    CheckInterval,  \* checkInterval, 24 hours
    MaxTag,         \* releases published
    CheckFaults     \* subset of {"check"}

ASSUME NoticeAssumption ==
    /\ CheckInterval \in Nat \ {0} /\ MaxTag \in Nat \ {0}
    /\ MaxTime \in Nat /\ CheckInterval <= MaxTime

VARIABLES
    hour,     \* the clock, starting a full interval after the epoch
    newest,   \* the newest release
    file,     \* update-state.json
    run,      \* the commands
    printed,  \* history: when each notice was last printed
    soon      \* history: notices printed again too soon

noticeVars == <<hour, newest, file, run, printed, soon>>

Times == 0 .. MaxTime

NoState == [checked |-> 0, tag |-> 1, noticed |-> 0, sidecar |-> 0]

States == [checked : Times, tag : 1 .. MaxTag, noticed : Times, sidecar : Times]

IdleRun == [step |-> "idle", check |-> "none", seen |-> NoState, st |-> NoState]

NoticesTypeOK ==
    /\ hour \in Times /\ newest \in 1 .. MaxTag
    /\ file \in States
    /\ run \in [Runs -> [step : {"idle", "working", "loaded", "done"},
                         check : {"none", "started", "loaded", "ended"}, seen : States, st : States]]
    /\ printed \in [{"release", "sidecar"} -> Times]
    /\ soon \subseteq {"release", "sidecar"}

NoticesInit ==
    /\ hour = CheckInterval /\ newest = 1
    /\ file = NoState
    /\ run = [r \in Runs |-> IdleRun]
    /\ printed = [n \in {"release", "sidecar"} |-> 0]
    /\ soon = {}

(* Hours pass between two commands, not within one.                        *)
HourPasses ==
    /\ hour < MaxTime
    /\ \A r \in Runs : run[r].step \in {"idle", "done"}
    /\ hour' = hour + 1
    /\ UNCHANGED <<newest, file, run, printed, soon>>

ReleasePublished ==
    /\ newest < MaxTag
    /\ newest' = newest + 1
    /\ UNCHANGED <<hour, file, run, printed, soon>>

(* startBackgroundUpdateCheck, CheckDue.                                   *)
RunStart(r) ==
    /\ run[r].step = "idle"
    /\ run' = [run EXCEPT ![r].step = "working",
                          ![r].check = IF hour - file.checked >= CheckInterval THEN "started" ELSE "none"]
    /\ UNCHANGED <<hour, newest, file, printed, soon>>

(* Check: the state is loaded, GitHub asked, ...                           *)
CheckLoad(r) ==
    /\ run[r].check = "started"
    /\ run' = [run EXCEPT ![r].check = "loaded", ![r].seen = file]
    /\ UNCHANGED <<hour, newest, file, printed, soon>>

\* Mutant: when the next check is due is saved as when this one was made.
CheckedAhead(st) ==
    IF newest = st.tag THEN [st EXCEPT !.checked = hour + CheckInterval]
    ELSE [NoState EXCEPT !.checked = hour + CheckInterval, !.tag = newest, !.noticed = st.noticed]

(* The state a check saves: the same tag only moves checked; a new tag     *)
(* starts a new state that carries over when the notice was printed.       *)
Checked(st) ==
    IF newest = st.tag THEN [st EXCEPT !.checked = hour]
    ELSE [NoState EXCEPT !.checked = hour, !.tag = newest, !.noticed = st.noticed]

(* ... and the fresh state saved; the process may exit before, and GitHub  *)
(* may not answer.                                                         *)
CheckSave(r) ==
    /\ run[r].check = "loaded"
    /\ \/ /\ file' = Checked(run[r].seen)
          /\ run' = [run EXCEPT ![r].check = "ended", ![r].seen = Checked(run[r].seen)]
       \/ /\ "check" \in CheckFaults \/ run[r].step = "done"
          /\ run' = [run EXCEPT ![r].check = "none"]
          /\ UNCHANGED file
    /\ UNCHANGED <<hour, newest, printed, soon>>

(* maybePrintUpdateNotices: the saved state, or what the check handed over *)
(* within two seconds.                                                     *)
NoticeLoad(r) ==
    /\ run[r].step = "working"
    /\ run' = [run EXCEPT ![r].step = "loaded",
                          ![r].st = IF run[r].check = "ended" THEN run[r].seen ELSE file]
    /\ UNCHANGED <<hour, newest, file, printed, soon>>

\* Mutant: the time of the last notice is not looked at.
DueAlways(st) == (IF st.tag > 1 THEN {"release"} ELSE {}) \cup {"sidecar"}

(* NoticeDue (the running release is 1) and SidecarNoticeDue (a sidecar    *)
(* behind the deployment was seen).                                        *)
Due(st) ==
    (IF st.tag > 1 /\ hour - st.noticed >= CheckInterval THEN {"release"} ELSE {})
      \cup (IF hour - st.sidecar >= CheckInterval THEN {"sidecar"} ELSE {})

NoticePrint(r) ==
    /\ run[r].step = "loaded"
    /\ LET due == Due(run[r].st) IN
       /\ printed' = [n \in {"release", "sidecar"} |-> IF n \in due THEN hour ELSE printed[n]]
       /\ soon' = soon \cup {n \in due : hour - printed[n] < CheckInterval}
       /\ file' = IF due = {} THEN file
                  ELSE [run[r].st EXCEPT !.noticed = IF "release" \in due THEN hour ELSE @,
                                         !.sidecar = IF "sidecar" \in due THEN hour ELSE @]
    /\ run' = [run EXCEPT ![r].step = "done"]
    /\ UNCHANGED <<hour, newest>>

NoticesNext ==
    \/ HourPasses \/ ReleasePublished
    \/ \E r \in Runs : RunStart(r) \/ CheckLoad(r) \/ CheckSave(r) \/ NoticeLoad(r) \/ NoticePrint(r)

NoticesSpec == NoticesInit /\ [][NoticesNext]_noticeVars

(* Commands of one terminal: one after the other, the background check of  *)
(* one over before the next starts.                                        *)
OneAtATime == \A r, q \in Runs :
    run[r].step \in {"working", "loaded"} => q = r \/ (run[q].step \in {"idle", "done"} /\
                                                      run[q].check \in {"none", "ended"})

(* A command prints its notices before its own check has loaded the state, *)
(* or after it is over.                                                    *)
CheckInTime == \A r \in Runs : run[r].check = "loaded" => run[r].step = "working"

(* The release notice is printed at most once in a check interval          *)
(* (state.go: "it throttles the notice to at most once per 24h             *)
(* independently of the check itself"): for commands run one after the     *)
(* other whose check finished in time.                                     *)
NoticeThrottled == "release" \notin soon

(* The sidecar notice is printed at most once in a check interval          *)
(* (state.go, SidecarNoticedAt: "its own 24h clock ... <= once per 24h per *)
(* target").                                                               *)
SidecarThrottled == "sidecar" \notin soon

=============================================================================
