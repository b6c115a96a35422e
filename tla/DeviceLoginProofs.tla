-------------------------- MODULE DeviceLoginProofs --------------------------
(***************************************************************************)
(* What holds of a device login for any number of browser requests,        *)
(* provisioning goroutines and restarts.                                   *)
(***************************************************************************)
EXTENDS DeviceLogin, TLAPS

\* The device's lock is held as long as a goroutine runs.
LockHeld == \A w \in Workers : worker[w].pc # "idle" => lock

\* Only a goroutine that is running has a result, and an idle one is blank.
IdleBlank == \A w \in Workers : worker[w].pc = "idle" => worker[w] = IdleWorker

\* Wherever a token is past the goroutine that made it, or the goroutine is
\* past its UPDATE, the row is marked provisioned.
ResultsRecorded ==
  /\ results # "none" => row.provisioned
  /\ poll.result # "none" => row.provisioned
  /\ poll.done.result # "none" => row.provisioned
  /\ \A w \in Workers : worker[w].result # "none" /\ worker[w].pc # "mark" => row.provisioned

DeviceInv ==
  /\ TypeOK
  /\ LockHeld
  /\ IdleBlank
  /\ OneProvisionAtATime
  /\ ResultsRecorded
  /\ EnrolledIsRecorded

\* Before deviceStart nothing is stored, held or running.
LEMMA InitInv == Init => DeviceInv
<1> SUFFICES ASSUME Init PROVE DeviceInv
  OBVIOUS
<1> USE DEF Init, Busy, IdlePoll, IdleWorker, NoOutcome, Outcomes, Statuses, Results, Finished
<1>1. row \in [status : Statuses, provisioned : BOOLEAN]
  OBVIOUS
<1>2. form \in [Browsers -> {"idle", "approved", "denied", "expired"}]
  OBVIOUS
<1>3. poll \in Polls
  BY DEF Polls
<1>4. worker \in [Workers -> Goroutines]
  BY DEF Goroutines
<1>5. late \in BOOLEAN /\ lock \in BOOLEAN /\ awaiting \in BOOLEAN /\ joined \in BOOLEAN
  BY DeviceAssumption DEF DeviceAssumption
<1>6. restarts \in 0..MaxRestarts
  BY DeviceAssumption DEF DeviceAssumption
<1>7. TypeOK
  BY <1>1, <1>2, <1>3, <1>4, <1>5, <1>6 DEF TypeOK
<1>8. LockHeld /\ IdleBlank /\ OneProvisionAtATime
  BY DEF LockHeld, IdleBlank, OneProvisionAtATime
<1>9. ResultsRecorded /\ EnrolledIsRecorded
  BY DEF ResultsRecorded, EnrolledIsRecorded
<1> QED BY <1>7, <1>8, <1>9 DEF DeviceInv

\* Every statement, map access and channel operation of the login preserves
\* the invariant: a goroutine starts only while the lock is free, hence alone,
\* and its result leaves it only after the UPDATE.
LEMMA StepInv == DeviceInv /\ [Next]_vars => DeviceInv'
<1> SUFFICES ASSUME DeviceInv, [Next]_vars PROVE DeviceInv'
  OBVIOUS
<1> USE DEF DeviceInv, IdleWorker, NoOutcome, Outcomes, Statuses, Results, Finished, SetStatus, server
<1>1. CASE CreateDeviceLogin
  BY <1>1 DEF CreateDeviceLogin, TypeOK, LockHeld, IdleBlank, OneProvisionAtATime, ResultsRecorded,
           EnrolledIsRecorded, Busy, Polls, Goroutines
<1>2. CASE PollRead
  <2> USE <1>2 DEF PollRead, IdlePoll
  <2>1. poll' \in Polls
    BY DEF TypeOK, Polls
  <2>2. TypeOK'
    BY <2>1 DEF TypeOK, Polls
  <2>3. LockHeld' /\ IdleBlank' /\ OneProvisionAtATime'
    BY DEF LockHeld, IdleBlank, OneProvisionAtATime, Busy
  <2>4. ResultsRecorded'
    BY DEF TypeOK, ResultsRecorded, Polls
  <2>5. EnrolledIsRecorded'
    BY DEF TypeOK, ResultsRecorded, EnrolledIsRecorded
  <2> QED BY <2>2, <2>3, <2>4, <2>5
<1>3. CASE PollExpire
  <2> USE <1>3 DEF PollExpire
  <2>1. poll' \in Polls
    BY DEF TypeOK, Polls
  <2>2. TypeOK'
    BY <2>1 DEF TypeOK, Polls
  <2>3. LockHeld' /\ IdleBlank' /\ OneProvisionAtATime'
    BY DEF LockHeld, IdleBlank, OneProvisionAtATime, Busy
  <2>4. ResultsRecorded'
    BY DEF TypeOK, ResultsRecorded, Polls
  <2>5. EnrolledIsRecorded'
    BY DEF TypeOK, ResultsRecorded, EnrolledIsRecorded
  <2> QED BY <2>2, <2>3, <2>4, <2>5
<1>4. CASE PollDecide
  <2>1. CASE MustProvision /\ ~lock
    <3>1. PICK w \in Workers : /\ worker[w] = IdleWorker
                               /\ worker' = [worker EXCEPT ![w].pc = "ensure"]
                               /\ poll' = [poll EXCEPT !.pc = "wait", !.worker = {w}]
      BY <1>4, <2>1 DEF PollDecide
    <3>2. lock' = TRUE /\ UNCHANGED <<row, late, form, results, client, awaiting, joined, restarts>>
      BY <1>4, <2>1 DEF PollDecide
    <3>3. \A v \in Workers : worker[v].pc = "idle"
      BY <2>1 DEF LockHeld
    <3>4. poll' \in Polls
      BY <3>1 DEF TypeOK, Polls
    <3>5. worker' \in [Workers -> Goroutines]
      BY <3>1 DEF TypeOK, Goroutines
    <3>6. client' = "poll" /\ poll'.pc = "wait"
      BY <1>4, <3>1, <3>2 DEF PollDecide, TypeOK, Polls
    <3>7. TypeOK'
      BY <3>2, <3>4, <3>5, <3>6 DEF TypeOK
    <3>8. LockHeld' /\ IdleBlank' /\ OneProvisionAtATime'
      BY <3>1, <3>2, <3>3 DEF TypeOK, Goroutines, LockHeld, IdleBlank, OneProvisionAtATime, Busy
    <3>9. ResultsRecorded' /\ EnrolledIsRecorded'
      BY <3>1, <3>2 DEF TypeOK, Polls, Goroutines, ResultsRecorded, EnrolledIsRecorded
    <3> QED BY <3>7, <3>8, <3>9
  <2>2. CASE ~(MustProvision /\ ~lock)
    <3>1. \/ poll' = [poll EXCEPT !.pc = "collect", !.status = "pending"]
          \/ poll' = [poll EXCEPT !.pc = "collect"]
      BY <1>4, <2>2 DEF PollDecide
    <3>2. UNCHANGED <<row, late, form, worker, lock, results, client, awaiting, joined, restarts>>
      BY <1>4, <2>2 DEF PollDecide
    <3>3. TypeOK'
      BY <1>4, <3>1, <3>2 DEF PollDecide, TypeOK, Polls
    <3>4. LockHeld' /\ IdleBlank' /\ OneProvisionAtATime'
      BY <3>2 DEF LockHeld, IdleBlank, OneProvisionAtATime, Busy
    <3>5. ResultsRecorded' /\ EnrolledIsRecorded'
      BY <3>1, <3>2 DEF TypeOK, Polls, ResultsRecorded, EnrolledIsRecorded
    <3> QED BY <3>3, <3>4, <3>5
  <2> QED BY <2>1, <2>2
<1>5. CASE PollDone
  <2> USE <1>5 DEF PollDone
  <2>1. poll' \in Polls
    BY DEF TypeOK, Polls
  <2>2. TypeOK'
    BY <2>1 DEF TypeOK, Polls
  <2>3. LockHeld' /\ IdleBlank' /\ OneProvisionAtATime'
    BY DEF LockHeld, IdleBlank, OneProvisionAtATime, Busy
  <2>4. ResultsRecorded'
    BY DEF TypeOK, ResultsRecorded, Polls
  <2>5. EnrolledIsRecorded'
    BY DEF TypeOK, ResultsRecorded, EnrolledIsRecorded
  <2> QED BY <2>2, <2>3, <2>4, <2>5
<1>6. CASE PollTimeout
  <2> USE <1>6 DEF PollTimeout
  <2>1. poll' \in Polls
    BY DEF TypeOK, Polls
  <2>2. TypeOK'
    BY <2>1 DEF TypeOK, Polls
  <2>3. LockHeld' /\ IdleBlank' /\ OneProvisionAtATime'
    BY DEF LockHeld, IdleBlank, OneProvisionAtATime, Busy
  <2>4. ResultsRecorded'
    BY DEF TypeOK, ResultsRecorded, Polls
  <2>5. EnrolledIsRecorded'
    BY DEF TypeOK, ResultsRecorded, EnrolledIsRecorded
  <2> QED BY <2>2, <2>3, <2>4, <2>5
<1>7. CASE PollCollect
  <2> USE <1>7 DEF PollCollect
  <2>1. poll' \in Polls
    BY DEF TypeOK, Polls
  <2>2. TypeOK'
    BY <2>1 DEF TypeOK, Polls
  <2>3. LockHeld' /\ IdleBlank' /\ OneProvisionAtATime'
    BY DEF LockHeld, IdleBlank, OneProvisionAtATime, Busy
  <2>4. ResultsRecorded'
    BY DEF TypeOK, ResultsRecorded, Polls
  <2>5. EnrolledIsRecorded'
    BY DEF TypeOK, ResultsRecorded, EnrolledIsRecorded
  <2> QED BY <2>2, <2>3, <2>4, <2>5
<1>8. CASE PollReply
  <2> USE <1>8 DEF PollReply, IdlePoll
  <2>1. poll' \in Polls
    BY DEF TypeOK, Polls
  <2>2. awaiting' \in BOOLEAN
    BY DEF TypeOK
  <2>3. client' \in Finished \cup {"sleep"}
    BY DEF AfterReply, TypeOK, Polls
  <2>4. TypeOK'
    BY <2>1, <2>2, <2>3 DEF TypeOK, Polls
  <2>5. LockHeld' /\ IdleBlank' /\ OneProvisionAtATime'
    BY DEF LockHeld, IdleBlank, OneProvisionAtATime, Busy
  <2>6. ResultsRecorded'
    BY DEF TypeOK, ResultsRecorded, Polls
  <2>7. EnrolledIsRecorded'
    BY DEF TypeOK, ResultsRecorded, EnrolledIsRecorded, Polls, AfterReply
  <2> QED BY <2>4, <2>5, <2>6, <2>7
<1>9. CASE GiveUp
  BY <1>9 DEF GiveUp, TypeOK, LockHeld, IdleBlank, OneProvisionAtATime, ResultsRecorded,
           EnrolledIsRecorded, Busy, Polls, Goroutines
<1>10. CASE ClockPasses
  BY <1>10 DEF ClockPasses, TypeOK, LockHeld, IdleBlank, OneProvisionAtATime, ResultsRecorded,
           EnrolledIsRecorded, Busy, Polls, Goroutines
<1>11. CASE SidecarJoins
  BY <1>11 DEF SidecarJoins, TypeOK, LockHeld, IdleBlank, OneProvisionAtATime, ResultsRecorded,
           EnrolledIsRecorded, Busy, Polls, Goroutines
<1>12. CASE Restart
  <2> USE <1>12 DEF Restart, IdlePoll
  <2>1. poll' \in Polls
    BY DEF TypeOK, Polls
  <2>2. worker' \in [Workers -> Goroutines]
    BY DEF TypeOK, Goroutines
  <2>3. lock' \in BOOLEAN
    BY Zenon
  <2>4. restarts' \in 0..MaxRestarts
    BY DeviceAssumption DEF DeviceAssumption, TypeOK
  <2>5. client' \in {"new", "sleep"} \cup Finished /\ poll'.pc = "idle"
    BY DEF TypeOK
  <2>6. TypeOK'
    BY <2>1, <2>2, <2>3, <2>4, <2>5 DEF TypeOK, Polls
  <2>7. LockHeld' /\ IdleBlank' /\ OneProvisionAtATime'
    BY DEF LockHeld, IdleBlank, OneProvisionAtATime, Busy
  <2>8. ResultsRecorded'
    BY DEF TypeOK, ResultsRecorded, Polls
  <2>9. EnrolledIsRecorded'
    BY DEF TypeOK, ResultsRecorded, EnrolledIsRecorded
  <2> QED BY <2>6, <2>7, <2>8, <2>9
<1>13. ASSUME NEW w \in Workers, EnsureSucceeds(w) PROVE DeviceInv'
  <2> USE <1>13 DEF EnsureSucceeds
  <2>1. PICK r \in {"token", "reach"} :
          worker' = [worker EXCEPT ![w].pc = "mark", ![w].result = r]
    BY DEF TypeOK
  <2>2. [worker[w] EXCEPT !.pc = "mark", !.result = r] \in Goroutines
    BY DEF TypeOK, Goroutines
  <2>3. worker' \in [Workers -> Goroutines]
    BY <2>1, <2>2 DEF TypeOK
  <2>4. TypeOK'
    BY <2>3 DEF TypeOK, Polls
  <2>5. LockHeld' /\ IdleBlank'
    BY <2>1, <2>2 DEF TypeOK, LockHeld, IdleBlank, OneProvisionAtATime, Busy, Goroutines
  <2>6. OneProvisionAtATime'
    BY <2>1, <2>2 DEF TypeOK, IdleBlank, OneProvisionAtATime, Busy, Goroutines
  <2>7. ResultsRecorded' /\ EnrolledIsRecorded'
    BY <2>1, <2>2 DEF TypeOK, ResultsRecorded, EnrolledIsRecorded, Goroutines
  <2> QED BY <2>4, <2>5, <2>6, <2>7
<1>14. ASSUME NEW w \in Workers, EnsureFails(w) PROVE DeviceInv'
  BY <1>14 DEF EnsureFails, TypeOK, LockHeld, IdleBlank, OneProvisionAtATime, ResultsRecorded,
           EnrolledIsRecorded, Busy, Polls, Goroutines
<1>15. ASSUME NEW w \in Workers, MarkProvisioned(w) PROVE DeviceInv'
  <2> USE <1>15 DEF MarkProvisioned
  <2>1. row' \in [status : Statuses, provisioned : BOOLEAN]
    BY DEF TypeOK
  <2>2. worker' \in [Workers -> Goroutines]
    BY DEF TypeOK, Goroutines
  <2>3. TypeOK'
    BY <2>1, <2>2 DEF TypeOK, Polls
  <2>4. LockHeld' /\ IdleBlank'
    BY DEF TypeOK, LockHeld, IdleBlank, OneProvisionAtATime, Busy, Goroutines
  <2>5. OneProvisionAtATime'
    BY DEF TypeOK, IdleBlank, OneProvisionAtATime, Busy, Goroutines
  <2>6. ResultsRecorded' /\ EnrolledIsRecorded'
    BY DEF TypeOK, ResultsRecorded, EnrolledIsRecorded, Goroutines
  <2> QED BY <2>3, <2>4, <2>5, <2>6
<1>16. ASSUME NEW w \in Workers, LoadRow(w) PROVE DeviceInv'
  <2>0. row.status \in Statuses
    BY DEF TypeOK
  <2>1. worker' \in [Workers -> Goroutines]
    <3>1. [worker[w] EXCEPT !.pc = "store", !.status = row.status] \in Goroutines
      BY <2>0 DEF TypeOK, Goroutines
    <3>2. worker' = [worker EXCEPT ![w] = [worker[w] EXCEPT !.pc = "store", !.status = row.status]]
      BY <1>16 DEF LoadRow, TypeOK, Goroutines
    <3> QED BY <3>1, <3>2 DEF TypeOK
  <2> USE <1>16 DEF LoadRow
  <2>2. TypeOK'
    BY <2>1 DEF TypeOK, Polls
  <2>3. LockHeld' /\ IdleBlank'
    BY DEF TypeOK, LockHeld, IdleBlank, OneProvisionAtATime, Busy, Goroutines
  <2>4. OneProvisionAtATime'
    BY DEF TypeOK, IdleBlank, OneProvisionAtATime, Busy, Goroutines
  <2>5. ResultsRecorded' /\ EnrolledIsRecorded'
    BY DEF TypeOK, ResultsRecorded, EnrolledIsRecorded, Goroutines
  <2> QED BY <2>2, <2>3, <2>4, <2>5
<1>17. ASSUME NEW w \in Workers, StoreResult(w) PROVE DeviceInv'
  BY <1>17 DEF StoreResult, TypeOK, LockHeld, IdleBlank, OneProvisionAtATime, ResultsRecorded,
           EnrolledIsRecorded, Busy, Polls, Goroutines
<1>18. ASSUME NEW w \in Workers, ForgetResult(w) PROVE DeviceInv'
  BY <1>18 DEF ForgetResult, TypeOK, LockHeld, IdleBlank, OneProvisionAtATime, ResultsRecorded,
           EnrolledIsRecorded, Busy, Polls, Goroutines
<1>19. ASSUME NEW w \in Workers, DenyTerminal(w) PROVE DeviceInv'
  BY <1>19 DEF DenyTerminal, TypeOK, LockHeld, IdleBlank, OneProvisionAtATime, ResultsRecorded,
           EnrolledIsRecorded, Busy, Polls, Goroutines
<1>20. ASSUME NEW w \in Workers, SendOutcome(w) PROVE DeviceInv'
  BY <1>20 DEF SendOutcome, TypeOK, LockHeld, IdleBlank, OneProvisionAtATime, ResultsRecorded,
           EnrolledIsRecorded, Busy, Polls, Goroutines
<1>21. ASSUME NEW w \in Workers, UnlockDevice(w) PROVE DeviceInv'
  <2> USE <1>21 DEF UnlockDevice
  <2>1. worker' \in [Workers -> Goroutines]
    BY DEF TypeOK, Goroutines
  <2>2. lock' \in BOOLEAN
    BY Zenon
  <2>3. TypeOK'
    BY <2>1, <2>2 DEF TypeOK, Polls
  <2>4. LockHeld' /\ IdleBlank'
    BY DEF TypeOK, LockHeld, IdleBlank, OneProvisionAtATime, Busy, Goroutines
  <2>5. OneProvisionAtATime'
    BY DEF TypeOK, IdleBlank, OneProvisionAtATime, Busy, Goroutines
  <2>6. ResultsRecorded' /\ EnrolledIsRecorded'
    BY DEF TypeOK, ResultsRecorded, EnrolledIsRecorded, Goroutines
  <2> QED BY <2>3, <2>4, <2>5, <2>6
<1>22. ASSUME NEW b \in Browsers, ApproveRead(b) PROVE DeviceInv'
  BY <1>22 DEF ApproveRead, TypeOK, LockHeld, IdleBlank, OneProvisionAtATime, ResultsRecorded,
           EnrolledIsRecorded, Busy, Polls, Goroutines
<1>23. ASSUME NEW b \in Browsers, DenyRead(b) PROVE DeviceInv'
  BY <1>23 DEF DenyRead, TypeOK, LockHeld, IdleBlank, OneProvisionAtATime, ResultsRecorded,
           EnrolledIsRecorded, Busy, Polls, Goroutines
<1>24. ASSUME NEW b \in Browsers, FormWrite(b) PROVE DeviceInv'
  BY <1>24 DEF FormWrite, TypeOK, LockHeld, IdleBlank, OneProvisionAtATime, ResultsRecorded,
           EnrolledIsRecorded, Busy, Polls, Goroutines
<1>25. CASE UNCHANGED vars
  BY <1>25 DEF vars, TypeOK, LockHeld, IdleBlank, OneProvisionAtATime, ResultsRecorded,
           EnrolledIsRecorded, Busy
<1> QED
  BY <1>1, <1>2, <1>3, <1>4, <1>5, <1>6, <1>7, <1>8, <1>9, <1>10, <1>11, <1>12, <1>13,
     <1>14, <1>15, <1>16, <1>17, <1>18, <1>19, <1>20, <1>21, <1>22, <1>23, <1>24, <1>25 DEF Next, PollStep, WorkerStep

\* The invariant holds in every reachable state of any number of browser
\* requests, goroutines and restarts.
THEOREM DeviceInvariant == Spec => []DeviceInv
  BY InitInv, StepInv, PTL DEF Spec

\* The row, the maps, the goroutines and the CLI keep to their values, and the
\* CLI waits exactly while its poll is served.
THEOREM DeviceTyped == Spec => []TypeOK
  BY DeviceInvariant, PTL DEF DeviceInv

\* tryLockDeviceProvisioning: no two provisions of a device code overlap, even
\* after the poll that started the first has answered.
THEOREM ProvisionsNeverOverlap == Spec => []OneProvisionAtATime
  BY DeviceInvariant, PTL DEF DeviceInv

\* A CLI is never enrolled by a provision that device_logins does not record.
THEOREM EnrolmentsRecorded == Spec => []EnrolledIsRecorded
  BY DeviceInvariant, PTL DEF DeviceInv

=============================================================================
