----------------------------- MODULE SelfUpdate -----------------------------
(***************************************************************************)
(* `sc update` and `sc-adm update`: update/apply.go and download.go on the *)
(* workstation, incusx/binary_update.go on the appliances, sc_payload.go   *)
(* on the projects' shared volume, agentskill on the installed skill.      *)
(*                                                                         *)
(* `sc update` reads a status table, replaces its own executable by three  *)
(* renames, hands over to the executable it installed (the payload and the *)
(* skill are embedded in it), has the deployment push its own binary into  *)
(* the tenant's sidecar, and rewrites the payload file by file, VERSION    *)
(* last.  `sc-adm update` pushes, stamps and restarts component after      *)
(* component and keeps going when one fails.  Any call may fail and any    *)
(* command may be killed; both are run again to repair.                    *)
(***************************************************************************)
EXTENDS Naturals, FiniteSets

CONSTANTS
    MaxRelease,     \* releases 1 .. MaxRelease
    Updaters,       \* concurrent `sc update` commands
    PayloadFiles,   \* files of the platform payload, besides VERSION
    MaxUpFaults,    \* failed calls and kills
    AdminRuns       \* BOOLEAN: does the administrator run sc-adm update?

ASSUME UpdateAssumption == MaxRelease \in Nat \ {0} /\ MaxUpFaults \in Nat

VARIABLES
    latest,    \* the newest release on GitHub
    bin,       \* the executable, its staged successor and its backup; 0 = absent
    skill,     \* the managed skill copy; 0 = missing
    comp,      \* component -> version of its file, of its stamp, of its process
    payload,   \* file -> version, and the VERSION marker
    upd,       \* the `sc update` commands
    adm,       \* the `sc-adm update` command
    upFaults   \* faults so far

updVars == <<latest, bin, skill, comp, payload, upd, adm, upFaults>>

Versions == 0 .. MaxRelease

Parts == {"auth", "sidecar"}

IdleUpd == [step |-> "idle", self |-> 0, release |-> 0, final |-> FALSE,
            todo |-> {}, files |-> {}]

IdleAdm == [step |-> "idle", release |-> 0, at |-> "auth", failed |-> FALSE]

UpdateTypeOK ==
    /\ latest \in Versions \ {0}
    /\ bin \in [real : Versions, new : Versions, bak : Versions]
    /\ skill \in Versions
    /\ comp \in [Parts -> [file : Versions, stamp : Versions, run : Versions]]
    /\ payload \in [file : [PayloadFiles -> Versions], version : Versions]
    /\ upd \in [Updaters -> [step : {"idle", "stage", "unbak", "aside", "swap", "rerun", "push",
                                     "stamp", "restart", "skill", "skillin", "files", "done", "failed"},
                             self : Versions, release : Versions, final : BOOLEAN,
                             todo : SUBSET {"sidecar", "skill", "payload"},
                             files : SUBSET PayloadFiles]]
    /\ adm \in [step : {"idle", "push", "stamp", "restart", "done", "failed"},
                release : Versions, at : Parts, failed : BOOLEAN]
    /\ upFaults \in 0 .. MaxUpFaults

(* A workstation and a deployment of the first release.                    *)
UpdateInit ==
    /\ latest = 1
    /\ bin = [real |-> 1, new |-> 0, bak |-> 0]
    /\ skill = 1
    /\ comp = [p \in Parts |-> [file |-> 1, stamp |-> 1, run |-> 1]]
    /\ payload = [file |-> [f \in PayloadFiles |-> 1], version |-> 1]
    /\ upd = [u \in Updaters |-> IdleUpd]
    /\ adm = IdleAdm
    /\ upFaults = 0

(* The reports of finished commands are old news now.                      *)
Stale == [u \in Updaters |-> IF upd[u].step = "done" THEN IdleUpd ELSE upd[u]]

Publish ==
    /\ latest < MaxRelease
    /\ latest' = latest + 1
    /\ upd' = Stale
    /\ UNCHANGED <<bin, skill, comp, payload, adm, upFaults>>

----------------------------------------------------------------------------
(* What the running binary v finds outdated: the sidecar by the version    *)
(* its signer answers with, the skill copy and the payload by what the     *)
(* binary embeds.                                                          *)
Outdated(v) ==
    (IF comp["sidecar"].run < comp["auth"].run THEN {"sidecar"} ELSE {})
      \cup (IF skill \notin {0, v} THEN {"skill"} ELSE {})
      \cup (IF payload.version # v THEN {"payload"} ELSE {})

(* The stages in order; the last one ends with "Done."                     *)
Stage(todo) == IF "sidecar" \in todo THEN "push"
               ELSE IF "skill" \in todo THEN "skill"
               ELSE IF "payload" \in todo THEN "files" ELSE "done"

(* newUpdateCommand: the table, then the first stage.  The wanted release  *)
(* is a newer one, or a pinned one of any age.                             *)
UpdateStart(u, release) ==
    /\ upd[u].step \in {"idle", "done", "failed"}
    /\ bin.real # 0
    /\ release \in 1 .. latest
    /\ LET todo == Outdated(bin.real)
       IN upd' = [upd EXCEPT ![u] =
            [step |-> IF release # bin.real THEN "stage" ELSE Stage(todo),
             self |-> bin.real, release |-> release, final |-> FALSE,
             todo |-> todo, files |-> PayloadFiles]]
    /\ UNCHANGED <<latest, bin, skill, comp, payload, adm, upFaults>>

(* FetchBinary and Apply: the verified download is staged beside the       *)
(* executable, a stale backup removed, ...                                 *)
ApplyStage(u) ==
    /\ upd[u].step = "stage"
    /\ bin' = [bin EXCEPT !.new = upd[u].release]
    /\ upd' = [upd EXCEPT ![u].step = "unbak"]
    /\ UNCHANGED <<latest, skill, comp, payload, adm, upFaults>>

ApplyUnbak(u) ==
    /\ upd[u].step = "unbak"
    /\ bin' = [bin EXCEPT !.bak = 0]
    /\ upd' = [upd EXCEPT ![u].step = "aside"]
    /\ UNCHANGED <<latest, skill, comp, payload, adm, upFaults>>

(* ... the executable renamed to the backup (an error gives up the staged  *)
(* file) ...                                                               *)
ApplyAside(u) ==
    /\ upd[u].step = "aside"
    /\ IF bin.real # 0
       THEN /\ bin' = [bin EXCEPT !.bak = bin.real, !.real = 0]
            /\ upd' = [upd EXCEPT ![u].step = "swap"]
       ELSE /\ bin' = [bin EXCEPT !.new = 0]
            /\ upd' = [upd EXCEPT ![u].step = "failed"]
    /\ UNCHANGED <<latest, skill, comp, payload, adm, upFaults>>

(* ... and the staged file renamed into place, or the backup back.  What   *)
(* is left to do is left to the new executable.                            *)
ApplySwap(u) ==
    /\ upd[u].step = "swap"
    /\ IF bin.new # 0
       THEN /\ bin' = [bin EXCEPT !.real = bin.new, !.new = 0]
            /\ upd' = [upd EXCEPT ![u].step = IF upd[u].todo = {} THEN "done" ELSE "rerun"]
       ELSE /\ bin' = IF bin.bak # 0 THEN [real |-> bin.bak, new |-> 0, bak |-> 0] ELSE bin
            /\ upd' = [upd EXCEPT ![u].step = "failed"]
    /\ UNCHANGED <<latest, skill, comp, payload, adm, upFaults>>

(* rerunUpdateWithNewCLI: `sc update --yes --no-self-update`, a status     *)
(* table of its own.                                                       *)
UpdateRerun(u) ==
    /\ upd[u].step = "rerun"
    /\ upd' = [upd EXCEPT ![u] =
          IF bin.real = 0 THEN [@ EXCEPT !.step = "failed"]
          ELSE [@ EXCEPT !.self = bin.real, !.final = TRUE, !.todo = Outdated(bin.real),
                         !.step = Stage(Outdated(bin.real))]]
    /\ UNCHANGED <<latest, bin, skill, comp, payload, adm, upFaults>>

----------------------------------------------------------------------------
(* SidecarSelfUpdater: the deployment reads its own executable from disk,  *)
(* pushes it into the sidecar, ...                                         *)
SidecarPush(u) ==
    /\ upd[u].step = "push"
    /\ comp' = [comp EXCEPT !["sidecar"].file = comp["auth"].file]
    /\ upd' = [upd EXCEPT ![u].step = "stamp"]
    /\ UNCHANGED <<latest, bin, skill, payload, adm, upFaults>>

(* ... stamps it with the version the deployment is running, ...           *)
SidecarStamp(u) ==
    /\ upd[u].step = "stamp"
    /\ comp' = [comp EXCEPT !["sidecar"].stamp = comp["auth"].run]
    /\ upd' = [upd EXCEPT ![u].step = "restart"]
    /\ UNCHANGED <<latest, bin, skill, payload, adm, upFaults>>

(* ... and restarts the signer.                                            *)
SidecarRestart(u) ==
    /\ upd[u].step = "restart"
    /\ comp' = [comp EXCEPT !["sidecar"].run = comp["sidecar"].file]
    /\ upd' = [upd EXCEPT ![u].step = Stage(upd[u].todo \ {"sidecar"})]
    /\ UNCHANGED <<latest, bin, skill, payload, adm, upFaults>>

(* agentskill.Install: the old tree is moved aside, the staged one in.     *)
SkillAside(u) ==
    /\ upd[u].step = "skill"
    /\ skill' = 0
    /\ upd' = [upd EXCEPT ![u].step = "skillin"]
    /\ UNCHANGED <<latest, bin, comp, payload, adm, upFaults>>

SkillIn(u) ==
    /\ upd[u].step = "skillin"
    /\ skill' = upd[u].self
    /\ upd' = [upd EXCEPT ![u].step = Stage(upd[u].todo \ {"sidecar", "skill"})]
    /\ UNCHANGED <<latest, bin, comp, payload, adm, upFaults>>

\* Mutant: VERSION is written with the first file.
PayloadWriteVersionFirst(u) ==
    /\ upd[u].step = "files"
    /\ IF upd[u].files # {}
       THEN LET f == CHOOSE x \in upd[u].files : TRUE IN
            /\ payload' = [payload EXCEPT !.file[f] = upd[u].self, !.version = upd[u].self]
            /\ upd' = [upd EXCEPT ![u].files = @ \ {f}]
       ELSE upd' = [upd EXCEPT ![u].step = "done"] /\ UNCHANGED payload
    /\ UNCHANGED <<latest, bin, skill, comp, adm, upFaults>>

(* ensureV2PlatformPayload: the files, and VERSION after the last one.     *)
PayloadWrite(u) ==
    /\ upd[u].step = "files"
    /\ IF upd[u].files # {}
       THEN LET f == CHOOSE x \in upd[u].files : TRUE IN
            /\ payload' = [payload EXCEPT !.file[f] = upd[u].self]
            /\ upd' = [upd EXCEPT ![u].files = @ \ {f}]
       ELSE /\ payload' = [payload EXCEPT !.version = upd[u].self]
            /\ upd' = [upd EXCEPT ![u].step = "done"]
    /\ UNCHANGED <<latest, bin, skill, comp, adm, upFaults>>

(* A skill copy that cannot be refreshed is only a note; one that could    *)
(* not be moved in is put back.                                            *)
SkillFails(u) ==
    /\ upFaults < MaxUpFaults /\ upd[u].step = "skill"
    /\ upFaults' = upFaults + 1
    /\ upd' = [upd EXCEPT ![u].step = Stage(upd[u].todo \ {"sidecar", "skill"})]
    /\ UNCHANGED <<latest, bin, skill, comp, payload, adm>>

(* A call fails, or the command is killed between two calls.               *)
UpdateFails(u) ==
    /\ upFaults < MaxUpFaults
    /\ upd[u].step \notin {"idle", "done", "failed"}
    /\ upFaults' = upFaults + 1
    /\ upd' = [upd EXCEPT ![u].step = "failed"]
    /\ UNCHANGED <<latest, bin, skill, comp, payload, adm>>

----------------------------------------------------------------------------
(* newAdminUpdateCommand: the targets are every component in order, of     *)
(* whatever version; the same three calls for each.                        *)
AdminStart ==
    /\ AdminRuns /\ adm.step \in {"idle", "done", "failed"}
    /\ adm' = [step |-> "push", release |-> latest, at |-> "auth", failed |-> FALSE]
    /\ UNCHANGED <<latest, bin, skill, comp, payload, upd, upFaults>>

(* The next component, or the summary.                                     *)
AdminNext(failed) ==
    IF adm.at = "auth" THEN [adm EXCEPT !.step = "push", !.at = "sidecar", !.failed = failed]
    ELSE [adm EXCEPT !.step = IF failed THEN "failed" ELSE "done", !.failed = failed]

AdminPush ==
    /\ adm.step = "push"
    /\ comp' = [comp EXCEPT ![adm.at].file = adm.release]
    /\ adm' = [adm EXCEPT !.step = "stamp"]
    /\ UNCHANGED <<latest, bin, skill, payload, upd, upFaults>>

AdminStamp ==
    /\ adm.step = "stamp"
    /\ comp' = [comp EXCEPT ![adm.at].stamp = adm.release]
    /\ adm' = [adm EXCEPT !.step = "restart"]
    /\ UNCHANGED <<latest, bin, skill, payload, upd, upFaults>>

AdminRestart ==
    /\ adm.step = "restart"
    /\ comp' = [comp EXCEPT ![adm.at].run = comp[adm.at].file]
    /\ upd' = Stale
    /\ adm' = AdminNext(adm.failed)
    /\ UNCHANGED <<latest, bin, skill, payload, upFaults>>

(* One component fails, and the loop goes on to the next.                  *)
AdminFails ==
    /\ adm.step \in {"push", "stamp", "restart"}
    /\ upFaults < MaxUpFaults
    /\ upFaults' = upFaults + 1
    /\ adm' = AdminNext(TRUE)
    /\ UNCHANGED <<latest, bin, skill, comp, payload, upd>>

UpdaterStep(u) ==
    \/ ApplyStage(u) \/ ApplyUnbak(u) \/ ApplyAside(u) \/ ApplySwap(u) \/ UpdateRerun(u)
    \/ SidecarPush(u) \/ SidecarStamp(u) \/ SidecarRestart(u)
    \/ SkillAside(u) \/ SkillIn(u) \/ PayloadWrite(u)

AdminStep == AdminPush \/ AdminStamp \/ AdminRestart

UpdateNext ==
    \/ Publish \/ AdminStart \/ AdminStep \/ AdminFails
    \/ \E u \in Updaters :
          \/ \E r \in 1 .. MaxRelease : UpdateStart(u, r)
          \/ UpdaterStep(u)
          \/ SkillFails(u) \/ UpdateFails(u)

UpdateSpec == UpdateInit /\ [][UpdateNext]_updVars

----------------------------------------------------------------------------
(* What an operator may rely on.                                           *)

(* Whatever fails and wherever a single update is killed, an executable is *)
(* left: in place, or beside it as the backup (update.Apply, "The previous *)
(* binary is kept as <real>.bak for manual rollback").                     *)
BinaryRecoverable == bin.real # 0 \/ bin.bak # 0

(* VERSION is written last, so the payload never advertises a version some *)
(* of its files do not have yet (ensureV2PlatformPayload, "a partially     *)
(* applied write never advertises the new version").                       *)
VersionWrittenLast ==
    [][payload'.version # payload.version =>
          \A f \in PayloadFiles : payload'.file[f] = payload'.version]_updVars

(* When an update says "Done." after handing over to the executable it     *)
(* installed, or without having replaced it, the payload is the one that   *)
(* executable embeds (rerunUpdateWithNewCLI: "finishes the sidecar, skill  *)
(* and payload stages with the new embedded content").                     *)
HandedOverDone ==
    \A u \in Updaters :
        upd[u].step = "done" /\ (upd[u].final \/ upd[u].self = upd[u].release) =>
            payload.version = bin.real

(* One `sc update` is enough: when it says it is done the payload is that  *)
(* of the executable in place (newUpdateCommand: "Hand the rest over to    *)
(* the binary just installed instead of asking the user to run `sc update` *)
(* twice").  The old binary compares the payload with its own embedded     *)
(* one, so it may find nothing left to hand over.                          *)
DoneIsDone ==
    \A u \in Updaters : upd[u].step = "done" => payload.version = bin.real

(* An administrator's update that reports success runs what it stamped     *)
(* (newAdminUpdateCommand, "the command is idempotent, so a re-run repairs *)
(* a partial update").                                                     *)
AdminDoneRuns ==
    adm.step = "done" /\ (\A u \in Updaters : upd[u].step \notin {"push", "stamp", "restart"}) =>
        \A p \in Parts : comp[p].run = comp[p].file

(* The sidecar never runs ahead of the deployment (SidecarSelfUpdater: "so *)
(* sidecars can never run ahead of the deployment").                       *)
SidecarNotAhead == comp["sidecar"].run <= comp["auth"].run

(* The payload on the volume is the one VERSION names, once no command is  *)
(* writing (readSCPlatformVersion decides whether there is anything to     *)
(* write).                                                                 *)
PayloadIsItsVersion ==
    (\A u \in Updaters : upd[u].step # "files") =>
        \A f \in PayloadFiles : payload.file[f] = payload.version

(* Wherever an update fails or is killed: an executable is left, the        *)
(* payload never claims a version it does not have, and done means done.    *)
UpdatesRecoverable ==
    /\ [](BinaryRecoverable /\ HandedOverDone /\ AdminDoneRuns)
    /\ VersionWrittenLast
=============================================================================
