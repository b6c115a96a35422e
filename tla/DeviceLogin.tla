----------------------------- MODULE DeviceLogin -----------------------------
(***************************************************************************)
(* `sc login`: the CLI starts a device login, the user approves or denies  *)
(* it in a browser, and the poll that sees the approval provisions the     *)
(* Personal Tenant on a goroutine that may outlive it.  One device code:   *)
(* rows, locks and results of different codes never meet.                  *)
(*                                                                         *)
(* A step is one statement on device_logins, one access to an in-memory    *)
(* map under its mutex, or one channel operation.  The CLI polls one       *)
(* request at a time; the browser's requests, the goroutines and a restart *)
(* of the Auth App interleave with it.                                     *)
(***************************************************************************)
EXTENDS Naturals, FiniteSets

CONSTANTS
  Browsers,     \* approve/deny requests the browser may have in flight
  Workers,      \* provisioning goroutines
  Faults,       \* subset of {"error", "terminal", "slow", "reply"}
  Joined,       \* whether the sidecar starts on a tailnet (an auth key is given)
  MaxRestarts   \* restarts of the Auth App

ASSUME DeviceAssumption ==
  /\ Joined \subseteq BOOLEAN
  /\ MaxRestarts \in Nat

VARIABLES
  row,       \* the device_logins row: status, and whether provisioned_at is set
  late,      \* the clock has passed expires_at
  form,      \* what each browser request is about to write
  poll,      \* the poll being served
  worker,    \* the provisioning goroutines
  lock,      \* the device code's mutex in deviceProvisioningLocks is held
  results,   \* deviceProvisionResults of the device code
  client,    \* where the CLI's loop is
  awaiting,  \* the CLI's awaitingTailnet
  joined,    \* the tenant's sidecar is on a tailnet
  restarts

server == <<row, form, poll, worker, lock, results>>
vars == <<server, late, client, awaiting, joined, restarts>>

Statuses == {"none", "pending", "approved", "denied", "expired"}
\* An enrollment token without, or with, the sidecar's tailnet address.
Results == {"none", "token", "reach"}
Finished == {"enrolled", "empty", "refused", "failed"}

NoOutcome == [status |-> "none", result |-> "none"]
Outcomes == [status : Statuses, result : Results]
Polls == [pc : {"idle", "expire", "decide", "wait", "collect", "reply"}, status : Statuses,
          provisioned : BOOLEAN, result : Results, worker : SUBSET Workers, done : Outcomes]
Goroutines == [pc : {"idle", "ensure", "mark", "load", "store", "forget", "deny", "send", "unlock"},
               status : Statuses, result : Results]
IdlePoll == [pc |-> "idle", status |-> "none", provisioned |-> FALSE, result |-> "none",
             worker |-> {}, done |-> NoOutcome]
IdleWorker == [pc |-> "idle", status |-> "none", result |-> "none"]

Init ==
  /\ row = [status |-> "none", provisioned |-> FALSE]
  /\ late = FALSE
  /\ form = [b \in Browsers |-> "idle"]
  /\ poll = IdlePoll
  /\ worker = [w \in Workers |-> IdleWorker]
  /\ lock = FALSE
  /\ results = "none"
  /\ client = "new"
  /\ awaiting = FALSE
  /\ joined \in Joined
  /\ restarts = 0

SetStatus(s) == row' = [row EXCEPT !.status = s]

-----------------------------------------------------------------------------
(* The CLI and the browser                                                 *)

\* deviceStart
CreateDeviceLogin ==
  /\ client = "new"
  /\ SetStatus("pending")
  /\ client' = "sleep"
  /\ UNCHANGED <<late, form, poll, worker, lock, results, awaiting, joined, restarts>>

\* ApproveDeviceLogin and DenyDeviceLogin read the row ...
ApproveRead(b) ==
  /\ form[b] = "idle" /\ row.status = "pending"
  /\ form' = [form EXCEPT ![b] = IF late THEN "expired" ELSE "approved"]
  /\ UNCHANGED <<row, late, poll, worker, lock, results, client, awaiting, joined, restarts>>

DenyRead(b) ==
  /\ form[b] = "idle" /\ row.status = "pending"
  /\ form' = [form EXCEPT ![b] = "denied"]
  /\ UNCHANGED <<row, late, poll, worker, lock, results, client, awaiting, joined, restarts>>

\* ... and write it WHERE user_code = ?, whatever it has become.
FormWrite(b) ==
  /\ form[b] # "idle"
  /\ SetStatus(form[b])
  /\ form' = [form EXCEPT ![b] = "idle"]
  /\ UNCHANGED <<late, poll, worker, lock, results, client, awaiting, joined, restarts>>

-----------------------------------------------------------------------------
(* devicePoll                                                              *)

\* PollDeviceLogin reads the row.
PollRead ==
  /\ client = "sleep"
  /\ client' = "poll"
  /\ poll' = [IdlePoll EXCEPT !.pc = IF row.status = "pending" /\ late THEN "expire" ELSE "decide",
                              !.status = row.status, !.provisioned = row.provisioned]
  /\ UNCHANGED <<row, late, form, worker, lock, results, awaiting, joined, restarts>>

\* ... and expires it, again without looking at the status.
PollExpire ==
  /\ poll.pc = "expire"
  /\ SetStatus("expired")
  /\ poll' = [poll EXCEPT !.pc = "decide", !.status = "expired"]
  /\ UNCHANGED <<late, form, worker, lock, results, client, awaiting, joined, restarts>>

MustProvision == poll.status = "approved" /\ (~poll.provisioned \/ awaiting)

\* tryLockDeviceProvisioning: the goroutine starts, or another poll's runs.
PollDecide ==
  /\ poll.pc = "decide"
  /\ \/ /\ MustProvision /\ ~lock
        /\ \E w \in Workers :
             /\ worker[w] = IdleWorker
             /\ worker' = [worker EXCEPT ![w].pc = "ensure"]
             /\ poll' = [poll EXCEPT !.pc = "wait", !.worker = {w}]
        /\ lock' = TRUE
     \/ /\ MustProvision /\ lock
        /\ poll' = [poll EXCEPT !.pc = "collect", !.status = "pending"]
        /\ UNCHANGED <<worker, lock>>
     \/ /\ ~MustProvision
        /\ poll' = [poll EXCEPT !.pc = "collect"]
        /\ UNCHANGED <<worker, lock>>
  /\ UNCHANGED <<row, late, form, results, client, awaiting, joined, restarts>>

\* The goroutine's outcome arrives within devicePollProvisionWait ...
PollDone ==
  /\ poll.pc = "wait" /\ poll.done # NoOutcome
  /\ poll' = [poll EXCEPT !.pc = "collect", !.status = poll.done.status, !.result = poll.done.result]
  /\ UNCHANGED <<row, late, form, worker, lock, results, client, awaiting, joined, restarts>>

\* Mutant: the handler, not the goroutine, owns the lock.
PollTimeoutUnlocks ==
  /\ poll.pc = "wait" /\ "slow" \in Faults
  /\ poll' = [poll EXCEPT !.pc = "collect", !.status = "pending"]
  /\ lock' = FALSE
  /\ UNCHANGED <<row, late, form, worker, results, client, awaiting, joined, restarts>>

\* ... or does not.
PollTimeout ==
  /\ poll.pc = "wait" /\ "slow" \in Faults
  /\ poll' = [poll EXCEPT !.pc = "collect", !.status = "pending"]
  /\ UNCHANGED <<row, late, form, worker, lock, results, client, awaiting, joined, restarts>>

\* deviceProvisionResult, for an approved login without a token.
PollCollect ==
  /\ poll.pc = "collect"
  /\ poll' = [poll EXCEPT !.pc = "reply",
                          !.result = IF poll.status = "approved" /\ @ = "none" THEN results ELSE @]
  /\ UNCHANGED <<row, late, form, worker, lock, results, client, awaiting, joined, restarts>>

\* What the CLI's loop makes of the reply.
AfterReply ==
  IF poll.status = "pending" THEN "sleep"
  ELSE IF poll.status # "approved" THEN "refused"
  ELSE [none |-> "empty", token |-> "sleep", reach |-> "enrolled"][poll.result]

\* Mutant: the handler does not return after reporting an error.
PollReplyNoReturn ==
  /\ poll.pc = "reply"
  /\ \/ /\ client' = AfterReply
        /\ awaiting' = (awaiting \/ (poll.status = "approved" /\ poll.result = "token"))
        /\ poll' = IdlePoll
     \/ /\ "reply" \in Faults
        /\ client' = "failed"
        /\ UNCHANGED <<awaiting, poll>>
  /\ UNCHANGED <<row, late, form, worker, lock, results, joined, restarts>>

\* The reply: an approved one stores the SSH key and mints a CLI token, which
\* may fail; a failed request ends the CLI.
PollReply ==
  /\ poll.pc = "reply"
  /\ \/ /\ client' = AfterReply
        /\ awaiting' = (awaiting \/ (poll.status = "approved" /\ poll.result = "token"))
     \/ /\ "reply" \in Faults
        /\ client' = "failed"
        /\ awaiting' = awaiting
  /\ poll' = IdlePoll
  /\ UNCHANGED <<row, late, form, worker, lock, results, joined, restarts>>

\* The CLI runs out of --max-polls, a number the user may choose, or is
\* interrupted; a provision it started goes on.
GiveUp ==
  /\ client = "sleep"
  /\ client' = "failed"
  /\ UNCHANGED <<server, late, awaiting, joined, restarts>>

-----------------------------------------------------------------------------
(* The provisioning goroutine                                              *)

\* EnsurePersonalTenant
EnsureSucceeds(w) ==
  /\ worker[w].pc = "ensure"
  /\ worker' = [worker EXCEPT ![w].pc = "mark", ![w].result = IF joined THEN "reach" ELSE "token"]
  /\ UNCHANGED <<row, late, form, poll, lock, results, client, awaiting, joined, restarts>>

\* An error no retry can fix (tenant.IsTerminalProvisionError), or any other.
EnsureFails(w) ==
  /\ worker[w].pc = "ensure"
  /\ \/ /\ "terminal" \in Faults
        /\ worker' = [worker EXCEPT ![w].pc = "forget", ![w].status = "denied"]
     \/ /\ "error" \in Faults
        /\ worker' = [worker EXCEPT ![w].pc = "send", ![w].status = "pending"]
  /\ UNCHANGED <<row, late, form, poll, lock, results, client, awaiting, joined, restarts>>

\* Mutant: the result is handed over before the row records it.
MarkStoresFirst(w) ==
  /\ worker[w].pc = "mark"
  /\ results' = worker[w].result
  /\ worker' = [worker EXCEPT ![w].pc = "send", ![w].status = row.status]
  /\ UNCHANGED <<row, late, form, poll, lock, client, awaiting, joined, restarts>>

\* UPDATE device_logins SET provisioned_at
MarkProvisioned(w) ==
  /\ worker[w].pc = "mark"
  /\ row' = [row EXCEPT !.provisioned = TRUE]
  /\ worker' = [worker EXCEPT ![w].pc = "load"]
  /\ UNCHANGED <<late, form, poll, lock, results, client, awaiting, joined, restarts>>

\* The row is read again: its status is the outcome's.
LoadRow(w) ==
  /\ worker[w].pc = "load"
  /\ worker' = [worker EXCEPT ![w].pc = "store", ![w].status = row.status]
  /\ UNCHANGED <<row, late, form, poll, lock, results, client, awaiting, joined, restarts>>

\* storeDeviceProvisionResult
StoreResult(w) ==
  /\ worker[w].pc = "store"
  /\ results' = worker[w].result
  /\ worker' = [worker EXCEPT ![w].pc = "send"]
  /\ UNCHANGED <<row, late, form, poll, lock, client, awaiting, joined, restarts>>

\* forgetDeviceProvisionResult, then the denial.
ForgetResult(w) ==
  /\ worker[w].pc = "forget"
  /\ results' = "none"
  /\ worker' = [worker EXCEPT ![w].pc = "deny"]
  /\ UNCHANGED <<row, late, form, poll, lock, client, awaiting, joined, restarts>>

DenyTerminal(w) ==
  /\ worker[w].pc = "deny"
  /\ SetStatus("denied")
  /\ worker' = [worker EXCEPT ![w].pc = "send"]
  /\ UNCHANGED <<late, form, poll, lock, results, client, awaiting, joined, restarts>>

\* done <- outcome: buffered, and lost if the poll has moved on.
SendOutcome(w) ==
  /\ worker[w].pc = "send"
  /\ poll' = IF poll.pc = "wait" /\ poll.worker = {w}
               THEN [poll EXCEPT !.done = [status |-> worker[w].status, result |-> worker[w].result]]
               ELSE poll
  /\ worker' = [worker EXCEPT ![w].pc = "unlock"]
  /\ UNCHANGED <<row, late, form, lock, results, client, awaiting, joined, restarts>>

\* Mutant: a failed provision returns without unlocking.
UnlockOnSuccess(w) ==
  /\ worker[w].pc = "unlock"
  /\ lock' = (worker[w].result = "none")
  /\ worker' = [worker EXCEPT ![w] = IdleWorker]
  /\ UNCHANGED <<row, late, form, poll, results, client, awaiting, joined, restarts>>

\* defer unlock()
UnlockDevice(w) ==
  /\ worker[w].pc = "unlock"
  /\ lock' = FALSE
  /\ worker' = [worker EXCEPT ![w] = IdleWorker]
  /\ UNCHANGED <<row, late, form, poll, results, client, awaiting, joined, restarts>>

-----------------------------------------------------------------------------
(* The environment                                                         *)

ClockPasses ==
  /\ ~late /\ row.status # "none"
  /\ late' = TRUE
  /\ UNCHANGED <<server, client, awaiting, joined, restarts>>

SidecarJoins ==
  /\ ~joined
  /\ joined' = TRUE
  /\ UNCHANGED <<server, late, client, awaiting, restarts>>

\* The process goes with its goroutines, locks and results; a poll in flight
\* fails, and with it the CLI.
Restart ==
  /\ restarts < MaxRestarts
  /\ restarts' = restarts + 1
  /\ form' = [b \in Browsers |-> "idle"]
  /\ poll' = IdlePoll
  /\ worker' = [w \in Workers |-> IdleWorker]
  /\ lock' = FALSE
  /\ results' = "none"
  /\ client' = IF client = "poll" THEN "failed" ELSE client
  /\ UNCHANGED <<row, late, awaiting, joined>>

-----------------------------------------------------------------------------
PollStep == PollExpire \/ PollDecide \/ PollDone \/ PollCollect \/ PollReply
WorkerStep(w) ==
  \/ EnsureSucceeds(w) \/ EnsureFails(w) \/ MarkProvisioned(w) \/ LoadRow(w) \/ StoreResult(w)
  \/ ForgetResult(w) \/ DenyTerminal(w) \/ SendOutcome(w) \/ UnlockDevice(w)

Next ==
  \/ CreateDeviceLogin \/ PollRead \/ PollStep \/ PollTimeout \/ GiveUp
  \/ \E w \in Workers : WorkerStep(w)
  \/ \E b \in Browsers : ApproveRead(b) \/ DenyRead(b) \/ FormWrite(b)
  \/ ClockPasses \/ SidecarJoins \/ Restart

Spec == Init /\ [][Next]_vars

\* The CLI keeps polling, the server's handlers and goroutines run to their
\* end (net/http, and the eight-minute context of a provision), a provision
\* that is retried for ever succeeds once, and the user joins the sidecar.
FairSpec ==
  /\ Spec
  /\ WF_vars(PollRead) /\ WF_vars(PollStep) /\ WF_vars(ClockPasses) /\ WF_vars(SidecarJoins)
  /\ \A w \in Workers : WF_vars(WorkerStep(w)) /\ SF_vars(EnsureSucceeds(w))
  /\ \A b \in Browsers : WF_vars(FormWrite(b))

-----------------------------------------------------------------------------
\* The row, the maps, the goroutines and the CLI keep to their values, and the
\* poll the CLI waits for is the one being served.
TypeOK ==
  /\ row \in [status : Statuses, provisioned : BOOLEAN]
  /\ late \in BOOLEAN
  /\ form \in [Browsers -> {"idle", "approved", "denied", "expired"}]
  /\ poll \in Polls
  /\ worker \in [Workers -> Goroutines]
  /\ lock \in BOOLEAN
  /\ results \in Results
  /\ client \in {"new", "sleep", "poll"} \cup Finished
  /\ awaiting \in BOOLEAN /\ joined \in BOOLEAN
  /\ restarts \in 0..MaxRestarts
  /\ client = "poll" <=> poll.pc # "idle"

Busy == {w \in Workers : worker[w] # IdleWorker}

\* Polls that arrive while a detached provision is running never start a
\* second one: the goroutine, not the request, holds the device's lock.
OneProvisionAtATime == \A v, w \in Busy : v = w

\* A CLI that enrolls got its token from a provision the row records, so a
\* restart cannot make the next poll provision a tenant somebody is using.
EnrolledIsRecorded == client = "enrolled" => row.provisioned

\* Every login ends, or hands out its token and waits for the sidecar:
\* whatever the browser decides, however slow or often failing the provision
\* and even across restarts, without --max-polls having to end the CLI.
LoginConcludes == client = "sleep" ~> client \in Finished \/ awaiting

\* A login that waits for the sidecar ends as well, if provisions answer
\* within the poll's window from some time on: the re-runs that
\* awaiting_tailnet asks for report the join.
AwaitedLoginConcludes ==
  <>[][~PollTimeout]_vars => (client = "sleep" ~> client \in Finished)

\* device.go, on the results map: "A cache miss is safe: provisioning is
\* idempotent, so the login simply reports pending and provisioning runs
\* again".  So an approved reply always brings a token.
CacheMissIsSafe == client # "empty"

\* device.go: "ApproveDeviceLogin marks a pending device login approved".  A
\* status leaves "pending" once; only a terminal provisioning failure may
\* still turn an approval into a denial.
OnlyPendingDecided ==
  [][row'.status # row.status =>
       \/ row.status \in {"none", "pending"}
       \/ \E w \in Workers : worker[w].pc = "deny" /\ worker'[w].pc = "send"]_vars

\* device.go, on awaiting_tailnet: "the server re-runs the idempotent
\* provisioning so the sidecar's join is noticed and the Incus Reach
\* completed".
JoinNoticed == joined /\ awaiting ~> client \in Finished

\* Every login comes to an end at the CLI: one that enrolls at once, and one
\* that waits for the tailnet once provisions answer in time (devicePoll).
LoginsConclude == LoginConcludes /\ AwaitedLoginConcludes
=============================================================================
