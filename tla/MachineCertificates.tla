------------------------- MODULE MachineCertificates -------------------------
(***************************************************************************)
(* Certificates of public names: the machine_certificates rows             *)
(* (internal/authapp/machine_certificates.go, project_certificates.go),    *)
(* the certificate stage of the zone reconciler's passes and the order     *)
(* goroutines that outlive them (zone_reconcile.go), and the certificate   *)
(* file on the Machine behind the reconciler's file cache.  Passes are     *)
(* serialized by r.mu; orders, API calls and Machines run beside them.     *)
(* Times are reduced to what the code compares with now: the age of a      *)
(* certificate and whether next_attempt_at has passed.                     *)
(***************************************************************************)
EXTENDS Integers, FiniteSets

CONSTANTS
  MachineNames,      \* explicit Machine Public Hostnames
  DomainNames,       \* Project Domains, each with one Machine it is served by
  OrderSlots,        \* order goroutines that can exist
  MaxOrders,         \* zoneMaxConcurrentOrder
  MaxSerial,         \* bound: certificates issued for one name
  MaxBackoffStep,    \* the last index of certOrderBackoff
  Directories,       \* ACME directories the Auth App may run with
  CertFaults,        \* which calls may fail: "issue", "limited", "push", "ari"
  NoCertRow

ASSUME CertAssumption ==
  /\ MaxOrders \in Nat \ {0} /\ MaxSerial \in Nat \ {0} /\ MaxBackoffStep \in Nat
  /\ MachineNames \cap DomainNames = {}

VARIABLES
  certRow,       \* the machine_certificates table
  wanted,        \* the hostnames reserved or claimed
  node,          \* the Machine of each name: "gone", "stopped", "bare" or "ready"
  disk,          \* the serial of the certificate on that Machine, 0 for none
  fileCache,     \* the reconciler's cached read of that file, NotCached for none
  acmeDirectory, \* the directory this Auth App runs with
  inflight,      \* r.inflight
  orderJob,      \* each order goroutine
  certPass       \* the pass under r.mu

certVars == <<certRow, wanted, node, disk, fileCache, acmeDirectory, inflight, orderJob, certPass>>

CertNames == MachineNames \cup DomainNames
NotCached == -1
CertRows == [serial : 0..MaxSerial, pushed : 0..MaxSerial, dir : Directories,
             age : {"fresh", "due", "expired"},
             attempts : 0..(MaxBackoffStep + 1), waiting : BOOLEAN]
CertIdle == [pc |-> "idle"]

CertInit ==
  /\ certRow = [h \in CertNames |-> NoCertRow]
  /\ wanted = {}
  /\ node = [h \in CertNames |-> "gone"]
  /\ disk = [h \in CertNames |-> 0]
  /\ fileCache = [h \in CertNames |-> NotCached]
  /\ acmeDirectory \in Directories
  /\ inflight = {}
  /\ orderJob = [o \in OrderSlots |-> CertIdle]
  /\ certPass = CertIdle

CertMayFail(call) == call \in CertFaults

-----------------------------------------------------------------------------
(* Rows                                                                    *)

PendingRow == [serial |-> 0, pushed |-> 0, dir |-> acmeDirectory, age |-> "fresh",
               attempts |-> 0, waiting |-> FALSE]
HasCertificate(row) == row.serial # 0
Usable(row) == HasCertificate(row) /\ row.dir = acmeDirectory /\ row.age # "expired"

MachineCertificateState(row) ==
  CASE HasCertificate(row) /\ row.dir # acmeDirectory -> "pending"
    [] ~HasCertificate(row) -> IF row.attempts > 0 THEN "failed" ELSE "pending"
    [] HasCertificate(row) /\ row.dir = acmeDirectory /\ row.age = "expired" -> "failed"
    [] Usable(row) /\ row.pushed # row.serial -> "issued"
    [] Usable(row) /\ row.pushed = row.serial -> IF row.age = "due" THEN "renewing" ELSE "installed"

\* requestMachineCertificate: a new row, a retained certificate to push
\* again, or a reset.
RequestMachineCertificate(row) ==
  IF row = NoCertRow THEN PendingRow
  ELSE IF Usable(row) THEN [row EXCEPT !.pushed = 0] ELSE PendingRow

\* next_attempt_at is read for a row without a valid certificate only: a
\* Project Domain counts as installed while its certificate is usable.
OrderDue(h, row) ==
  LET state == IF h \in DomainNames /\ Usable(row) THEN "installed" ELSE MachineCertificateState(row)
  IN \/ state \in {"pending", "failed"} /\ ~row.waiting
     \/ state \in {"installed", "renewing"} /\ row.age = "due"

SetRow(h, row) == certRow' = [certRow EXCEPT ![h] = row]
UpdateRow(h, row) == certRow' = IF certRow[h] = NoCertRow THEN certRow ELSE [certRow EXCEPT ![h] = row]

\* An order can still be issued within the bound on serials.
CanIssue(h) == certRow[h] # NoCertRow /\ certRow[h].serial < MaxSerial

-----------------------------------------------------------------------------
(* Names and Machines come and go                                          *)

\* machineHostnameAdd records the certificate with the reservation; the row
\* of a Project Domain is left to the next pass.
NameAdded(h) ==
  /\ h \notin wanted
  /\ wanted' = wanted \cup {h}
  /\ IF h \in MachineNames THEN SetRow(h, RequestMachineCertificate(certRow[h])) ELSE UNCHANGED certRow
  /\ UNCHANGED <<node, disk, fileCache, acmeDirectory, inflight, orderJob, certPass>>

\* A released hostname keeps its row, a released domain loses it.
NameReleased(h) ==
  /\ h \in wanted
  /\ wanted' = wanted \ {h}
  /\ IF h \in DomainNames THEN SetRow(h, NoCertRow) ELSE UNCHANGED certRow
  /\ UNCHANGED <<node, disk, fileCache, acmeDirectory, inflight, orderJob, certPass>>

\* A Machine starts without its Caddy Setup Marker; one that is gone comes
\* back with an empty disk.
NodeChanges(h) ==
  /\ \E move \in {<<"gone", "bare">>, <<"bare", "ready">>, <<"ready", "stopped">>, <<"stopped", "ready">>}
                  \cup {<<s, "gone">> : s \in {"bare", "stopped", "ready"}} :
       node[h] = move[1] /\ node' = [node EXCEPT ![h] = move[2]]
  /\ disk' = IF node'[h] = "gone" THEN [disk EXCEPT ![h] = 0] ELSE disk
  /\ UNCHANGED <<certRow, wanted, fileCache, acmeDirectory, inflight, orderJob, certPass>>

\* A lifecycle event of the project, or the entry's age.
CacheForgets(h) ==
  /\ fileCache[h] # NotCached
  /\ fileCache' = [fileCache EXCEPT ![h] = NotCached]
  /\ UNCHANGED <<certRow, wanted, node, disk, acmeDirectory, inflight, orderJob, certPass>>

CertificateAges(h) ==
  /\ CanIssue(h) /\ HasCertificate(certRow[h])
  /\ \E next \in {<<"fresh", "due">>, <<"due", "expired">>} :
       certRow[h].age = next[1] /\ SetRow(h, [certRow[h] EXCEPT !.age = next[2]])
  /\ UNCHANGED <<wanted, node, disk, fileCache, acmeDirectory, inflight, orderJob, certPass>>

BackoffPasses(h) ==
  /\ certRow[h] # NoCertRow /\ certRow[h].waiting
  /\ SetRow(h, [certRow[h] EXCEPT !.waiting = FALSE])
  /\ UNCHANGED <<wanted, node, disk, fileCache, acmeDirectory, inflight, orderJob, certPass>>

\* Passes, orders and the cache live in the process, which may come back with
\* another directory.
CertRestart ==
  /\ acmeDirectory' \in Directories
  /\ inflight' = {} /\ certPass' = CertIdle
  /\ orderJob' = [o \in OrderSlots |-> CertIdle]
  /\ fileCache' = [h \in CertNames |-> NotCached]
  /\ UNCHANGED <<certRow, wanted, node, disk>>

-----------------------------------------------------------------------------
(* Orders                                                                  *)

\* order: sweep the challenge records, then Issue, which takes its time.
OrderIssues(o) ==
  /\ orderJob[o].pc = "issue"
  /\ \/ /\ CanIssue(orderJob[o].host) \/ certRow[orderJob[o].host] = NoCertRow
        /\ orderJob' = [orderJob EXCEPT ![o].pc = "store"]
     \/ CertMayFail("issue") /\ orderJob' = [orderJob EXCEPT ![o].pc = "failed"]
     \/ CertMayFail("limited") /\ orderJob' = [orderJob EXCEPT ![o].pc = "limited"]
  /\ UNCHANGED <<certRow, wanted, node, disk, fileCache, acmeDirectory, inflight, certPass>>

\* storeIssuedMachineCertificate: an UPDATE that finds no row is a failure,
\* which finds no row to record it on either.
StoreIssued(o) ==
  /\ orderJob[o].pc = "store"
  /\ LET h == orderJob[o].host IN
       IF certRow[h] # NoCertRow
       THEN SetRow(h, [certRow[h] EXCEPT !.serial = @ + 1, !.age = "fresh",
                                         !.attempts = 0, !.waiting = FALSE])
       ELSE UNCHANGED certRow
  /\ orderJob' = [orderJob EXCEPT ![o].pc = "leave"]
  /\ UNCHANGED <<wanted, node, disk, fileCache, acmeDirectory, inflight, certPass>>

\* recordMachineCertificateFailure: the backoff stays on its last step.
RecordFailure(o) ==
  /\ orderJob[o].pc \in {"failed", "limited"}
  /\ LET h == orderJob[o].host
         tries == IF orderJob[o].pc = "limited" \/ certRow[h].attempts > MaxBackoffStep
                  THEN MaxBackoffStep + 1 ELSE certRow[h].attempts + 1
     IN UpdateRow(h, [certRow[h] EXCEPT !.attempts = tries, !.waiting = TRUE])
  /\ orderJob' = [orderJob EXCEPT ![o].pc = "leave"]
  /\ UNCHANGED <<wanted, node, disk, fileCache, acmeDirectory, inflight, certPass>>

\* The deferred delete.  The pass asked for before it may find the hostname
\* still in flight; the ticker's next one does not.
OrderLeaves(o) ==
  /\ orderJob[o].pc = "leave"
  /\ inflight' = inflight \ {orderJob[o].host}
  /\ orderJob' = [orderJob EXCEPT ![o] = CertIdle]
  /\ UNCHANGED <<certRow, wanted, node, disk, fileCache, acmeDirectory, certPass>>

-----------------------------------------------------------------------------
(* A pass                                                                  *)

PassGoto(j) == certPass' = j

\* On to the next name, with these orders due so far.
PassNext(due) ==
  PassGoto([pc |-> "next", live |-> certPass.live, node |-> certPass.node, todo |-> certPass.todo, due |-> due])

\* The fleet and the reservations, read once; the names are then taken in
\* turn, the Project Domains first.
CertPassList ==
  /\ certPass = CertIdle
  /\ PassGoto([pc |-> "next", live |-> wanted, node |-> node, due |-> {},
               todo |-> {h \in wanted : h \in DomainNames \/ node[h] # "gone"}])
  /\ UNCHANGED <<certRow, wanted, node, disk, fileCache, acmeDirectory, inflight, orderJob>>

\* readMarker through the listed state: a running Machine with the marker.
MarkerReady(h) == certPass.node[h] = "ready"

\* The row of the next name: created when the Machine shows the marker, or
\* for a Project Domain at once; reset under another directory.
CertPassRow ==
  /\ certPass.pc = "next"
  /\ \E h \in certPass.todo :
       LET rest == [certPass EXCEPT !.todo = @ \ {h}]
           row == IF certRow[h] = NoCertRow THEN PendingRow
                  ELSE IF certRow[h].dir # acmeDirectory /\ (h \in DomainNames \/ HasCertificate(certRow[h]))
                  THEN PendingRow ELSE certRow[h]
       IN IF certRow[h] = NoCertRow /\ h \in MachineNames /\ ~MarkerReady(h)
          THEN PassGoto(rest) /\ UNCHANGED certRow
          ELSE PassGoto([pc |-> "ari", live |-> rest.live, node |-> rest.node, due |-> rest.due, todo |-> rest.todo,
                         host |-> h, row |-> row]) /\ SetRow(h, row)
  /\ UNCHANGED <<wanted, node, disk, fileCache, acmeDirectory, inflight, orderJob>>

\* refreshARI: the CA's answer about the certificate this pass read is
\* written to whatever the row is by then.  Without an answer the window
\* stays; a Project Domain then has no turn in this pass.
CertPassARI ==
  /\ certPass.pc = "ari"
  /\ LET h == certPass.host
         on == [certPass EXCEPT !.pc = "drift"]
     IN \/ PassGoto(on) /\ UNCHANGED certRow
        \/ /\ CertMayFail("ari") /\ Usable(certPass.row) /\ h \in DomainNames
           /\ PassNext(certPass.due) /\ UNCHANGED certRow
        \/ /\ Usable(certPass.row) /\ certPass.row.age = "fresh" /\ CanIssue(h)
           /\ UpdateRow(h, [certRow[h] EXCEPT !.age = IF @ = "expired" THEN @ ELSE "due"])
           /\ PassGoto([on EXCEPT !.row = certRow'[h]])
  /\ UNCHANGED <<wanted, node, disk, fileCache, acmeDirectory, inflight, orderJob>>

\* What a read through the cache answers.
ReadDisk(h) == IF fileCache[h] # NotCached THEN fileCache[h] ELSE disk[h]

\* Mutant: drift is not looked for.
CertPassDriftUnchecked ==
  /\ certPass.pc = "drift"
  /\ PassGoto([certPass EXCEPT !.pc = "push"])
  /\ UNCHANGED <<certRow, wanted, node, disk, fileCache, acmeDirectory, inflight, orderJob>>

\* driftCheck: a running Machine whose row says installed is compared, and
\* the row becomes issued again on a difference.  A Project Domain is always
\* compared and has no use for pushed_serial.
CertPassDrift ==
  /\ certPass.pc = "drift"
  /\ LET h == certPass.host
         row == certPass.row
         running == certPass.node[h] \in {"bare", "ready"}
         compared == running /\ HasCertificate(row) /\ (h \in DomainNames \/ row.pushed = row.serial)
         drifted == compared /\ ReadDisk(h) # row.serial
     IN /\ fileCache' = IF compared /\ node[h] # "gone" THEN [fileCache EXCEPT ![h] = ReadDisk(h)] ELSE fileCache
        /\ IF drifted /\ h \in MachineNames
           THEN UpdateRow(h, [certRow[h] EXCEPT !.pushed = 0])
           ELSE UNCHANGED certRow
        /\ PassGoto([certPass EXCEPT !.pc = "push", !.row.pushed = IF drifted THEN 0 ELSE IF compared THEN row.serial ELSE @])
  /\ UNCHANGED <<wanted, node, disk, acmeDirectory, inflight, orderJob>>

\* The name's turn ends: its order is due or not, by the row as this pass
\* knows it.
NextName(row) ==
  PassNext(certPass.due \cup IF OrderDue(certPass.host, row) THEN {certPass.host} ELSE {})

\* push: the row's certificate goes to a running Machine that shows the
\* marker; an Incus error leaves it to the next pass.
CertPassPush ==
  /\ certPass.pc = "push"
  /\ LET h == certPass.host
         wants == Usable(certPass.row) /\ certPass.row.pushed # certPass.row.serial /\ MarkerReady(h)
     IN \/ /\ wants /\ node[h] = "ready"
           /\ disk' = [disk EXCEPT ![h] = certPass.row.serial]
           /\ fileCache' = [fileCache EXCEPT ![h] = NotCached]
           /\ PassGoto([certPass EXCEPT !.pc = "pushed"])
        \/ /\ wants /\ (CertMayFail("push") \/ node[h] # "ready")
           /\ fileCache' = [fileCache EXCEPT ![h] = NotCached]
           /\ NextName(certPass.row) /\ UNCHANGED disk
        \/ ~wants /\ NextName(certPass.row) /\ UNCHANGED <<disk, fileCache>>
  /\ UNCHANGED <<certRow, wanted, node, acmeDirectory, inflight, orderJob>>

\* setMachineCertificatePushedSerial: the serial that was pushed, whatever
\* the row holds by now.
CertPassPushed ==
  /\ certPass.pc = "pushed"
  /\ UpdateRow(certPass.host, [certRow[certPass.host] EXCEPT !.pushed = certPass.row.serial])
  /\ NextName([certPass.row EXCEPT !.pushed = certPass.row.serial])
  /\ UNCHANGED <<wanted, node, disk, fileCache, acmeDirectory, inflight, orderJob>>

\* Mutant: a hostname in flight is ordered again.
StartOrderAgain(h, o) ==
  /\ orderJob[o] = CertIdle /\ Cardinality(inflight) < MaxOrders
  /\ orderJob' = [orderJob EXCEPT ![o] = [pc |-> "issue", host |-> h]]
  /\ inflight' = inflight \cup {h}

\* scheduleOrders, under inflightMu: the due names that are not in flight,
\* up to the limit.
StartOrder(h, o) ==
  /\ orderJob[o] = CertIdle /\ h \notin inflight /\ Cardinality(inflight) < MaxOrders
  /\ orderJob' = [orderJob EXCEPT ![o] = [pc |-> "issue", host |-> h]]
  /\ inflight' = inflight \cup {h}

CertPassSchedule ==
  /\ certPass.pc = "next" /\ certPass.todo = {}
  /\ \/ \E h \in certPass.due, o \in OrderSlots :
          StartOrder(h, o) /\ PassGoto([certPass EXCEPT !.due = @ \ {h}])
     \/ /\ certPass.due \subseteq inflight \/ Cardinality(inflight) >= MaxOrders
        /\ PassGoto([certPass EXCEPT !.pc = "gc"])
        /\ UNCHANGED <<orderJob, inflight>>
  /\ UNCHANGED <<certRow, wanted, node, disk, fileCache, acmeDirectory>>

\* gcMachineCertificates lists the rows, unless the listed fleet was empty ...
CertGCList ==
  /\ certPass.pc = "gc"
  /\ IF \A h \in CertNames : certPass.node[h] = "gone" THEN PassGoto(CertIdle)
     ELSE PassGoto([pc |-> "drop", drop |-> {h \in CertNames \ certPass.live :
                                               certRow[h] # NoCertRow /\ ~Usable(certRow[h])}])
  /\ UNCHANGED <<certRow, wanted, node, disk, fileCache, acmeDirectory, inflight, orderJob>>

\* ... and deletes, by hostname, those that hold nothing worth retaining.
CertGCDrop ==
  /\ certPass.pc = "drop"
  /\ \/ \E h \in certPass.drop : SetRow(h, NoCertRow) /\ PassGoto([certPass EXCEPT !.drop = @ \ {h}])
     \/ certPass.drop = {} /\ PassGoto(CertIdle) /\ UNCHANGED certRow
  /\ UNCHANGED <<wanted, node, disk, fileCache, acmeDirectory, inflight, orderJob>>

CertPassStep ==
  \/ CertPassList \/ CertPassRow \/ CertPassARI \/ CertPassDrift \/ CertPassPush \/ CertPassPushed
  \/ CertPassSchedule \/ CertGCList \/ CertGCDrop
OrderStep(o) == OrderIssues(o) \/ StoreIssued(o) \/ RecordFailure(o) \/ OrderLeaves(o)

CertNext ==
  \/ \E h \in CertNames : \/ NameAdded(h) \/ NameReleased(h) \/ NodeChanges(h) \/ CacheForgets(h)
                          \/ CertificateAges(h) \/ BackoffPasses(h)
  \/ CertPassStep
  \/ \E o \in OrderSlots : OrderStep(o)
  \/ CertRestart

\* The ticker runs passes for ever, backoffs and cache entries run out, and
\* an order or a push that is tried again and again is answered in the end.
OrderSucceeds(o, h) == StoreIssued(o) /\ orderJob[o].host = h
IssueAnswered(o, h) == OrderIssues(o) /\ orderJob[o].host = h /\ orderJob'[o].pc = "store"
PushAnswered(h) == CertPassPush /\ certPass.host = h /\ certPass'.pc = "pushed"
CertFairness ==
  /\ WF_certVars(CertPassStep)
  /\ \A o \in OrderSlots : WF_certVars(OrderStep(o))
  /\ \A h \in CertNames :
       /\ WF_certVars(CacheForgets(h)) /\ SF_certVars(BackoffPasses(h))
       /\ SF_certVars(PushAnswered(h))
       /\ SF_certVars(\E o \in OrderSlots : IssueAnswered(o, h))

CertSpec == CertInit /\ [][CertNext]_certVars /\ CertFairness

-----------------------------------------------------------------------------
(* Properties                                                              *)

\* Rows, with attempts capped at the end of certOrderBackoff, stay in their
\* domain.
CertTypeOK ==
  /\ certRow \in [CertNames -> CertRows \cup {NoCertRow}]
  /\ wanted \subseteq CertNames /\ inflight \subseteq CertNames
  /\ node \in [CertNames -> {"gone", "stopped", "bare", "ready"}]
  /\ disk \in [CertNames -> 0..MaxSerial]
  /\ fileCache \in [CertNames -> 0..MaxSerial \cup {NotCached}]

\* scheduleOrders and runOrder: "at most 4 in flight, never two for one
\* hostname", with orders that outlive the pass that started them.
OrdersBounded ==
  /\ Cardinality({o \in OrderSlots : orderJob[o] # CertIdle}) <= MaxOrders
  /\ \A o, p \in OrderSlots :
       orderJob[o] # CertIdle /\ orderJob[p] # CertIdle /\ orderJob[o].host = orderJob[p].host => o = p

\* A restart that cuts something short: not one that does what a step of the
\* process would have done.
CutShort ==
  /\ CertRestart
  /\ ~CertPassStep /\ \A o \in OrderSlots : ~OrderStep(o)
  /\ \A h \in CertNames : ~CacheForgets(h)

Settled(h) == <>[][~CutShort /\ ~NodeChanges(h) /\ ~CertificateAges(h) /\ ~NameReleased(h)]_certVars

\* The reconciler as a whole: a wanted name whose Machine stays up and ready
\* ends up with a certificate on disk that is the row's, whatever failed,
\* drifted, was rebuilt or was read from a stale cache before.
CertificateDelivered ==
  \A h \in CertNames :
    (Settled(h) /\ <>[](h \in wanted /\ node[h] = "ready"))
      => <>[](certRow[h] # NoCertRow /\ Usable(certRow[h]) /\ disk[h] = certRow[h].serial)

\* gcMachineCertificates: the row of a name nobody wants any more, without a
\* usable certificate, goes as long as some Machine is listed.
UnwantedRowsDropped ==
  \A h \in CertNames :
    (<>[][~CutShort]_certVars /\ <>[](h \notin wanted) /\ <>[](\E g \in CertNames : node[g] # "gone"))
      => <>[](certRow[h] = NoCertRow \/ Usable(certRow[h]) )

\* "persisted exponential backoff between order attempts": no order starts
\* while the row's next attempt lies ahead.
BackoffHonoured ==
  [][\A h \in CertNames : h \in inflight' \ inflight => certRow[h] = NoCertRow \/ ~certRow[h].waiting]_certVars

\* reconcileCertificates: wanted names get their certificate, others lose
\* their row.
CertificatesConverge == CertificateDelivered /\ UnwantedRowsDropped
=============================================================================
