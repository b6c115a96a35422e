------------------------------- MODULE Shares --------------------------------
(***************************************************************************)
(* Tenant Storage Shares: a tenant offers a workspace directory to other   *)
(* tenants, each keeps its answer as a copy in its own list, and the       *)
(* reconciler mounts the accepted copies in the recipient's Machines       *)
(* (internal/share/share.go, internal/authapp/shares.go,                   *)
(* internal/incusx/share_reconcile.go).  The v2 endpoints answer 501 for   *)
(* now; the code behind them is kept and tested.  Every list is read and   *)
(* written whole, in calls of its own.  One project per tenant, one        *)
(* Machine per tenant.  CleanupTenantDeletion has no caller.               *)
(***************************************************************************)
EXTENDS Naturals, Sequences, FiniteSets

SE == INSTANCE SequencesExt

CONSTANTS
  ShareTenants, ShareNames, ShareRequests,
  ShareOwners,    \* the tenants that offer directories
  ShareFaults     \* what may fail or change: "write", "device", "source"

ASSUME SharesAssumption == IsFiniteSet(ShareTenants) /\ ShareOwners \subseteq ShareTenants

VARIABLES
  shares,       \* GetTenantShares of each tenant: offers it makes, copies it keeps
  sourceDirs,   \* source directories that exist and are safe to share
  mounts,       \* the share- devices of each tenant's Machine
  work,         \* what is left to do of each request
  everOffered,  \* history: <<share, recipient>> pairs ever offered
  disturbed     \* history: a step of some request failed, or two requests overlapped

shareVars == <<shares, sourceDirs, mounts, work, everOffered, disturbed>>

ShareId == [src : ShareTenants, name : ShareNames]
States == {"accepted", "declined"}
Offers == [id : ShareId, to : SUBSET ShareTenants, state : {"offered"}]
Copies == [id : ShareId, to : {{t} : t \in ShareTenants}, state : States]
ShareMayFail(call) == call \in ShareFaults

SharesInit ==
  /\ shares = [t \in ShareTenants |-> {}]
  /\ sourceDirs = ShareId
  /\ mounts = [t \in ShareTenants |-> {}]
  /\ work = [q \in ShareRequests |-> <<>>]
  /\ everOffered = {} /\ disturbed = FALSE

-----------------------------------------------------------------------------
(* The operators of share.go                                               *)

\* A candidate of a source's list is looked up by project and name alone,
\* the copies the tenant keeps of other tenants' shares included ...
ByName(list, n) == {s \in list : s.id.name = n}
\* ... or by its full identity (findShareIndex).
ById(list, i) == {s \in list : s.id = i}
RemoveShare(list, i) == list \ ById(list, i)

\* upsertRecipientShare, the recipient's answer as the only entry.
UpsertRecipientShare(list, offered, r, st) == RemoveShare(list, offered.id) \cup {[id |-> offered.id, to |-> {r}, state |-> st]}
IsAccepted(s, t) == s.state = "accepted" /\ t \in s.to

\* desiredShareDevices: accepted copies whose source is there and safe now.
DesiredDevices(list, t) == {s.id : s \in {s \in list : IsAccepted(s, t) /\ s.id \in sourceDirs}}

Write(t, list) == [do |-> "write", at |-> t, list |-> list]
Reconcile(t) == [do |-> "reconcile", at |-> t]
EachOf(ts, Step(_)) == LET s == SE!SetToSeq(ts) IN [i \in DOMAIN s |-> Step(s[i])]

-----------------------------------------------------------------------------
(* Requests: what each reads first, and the steps it then makes            *)

Begins(q, steps) ==
  /\ work[q] = <<>>
  /\ work' = [work EXCEPT ![q] = steps]
  /\ disturbed' = (disturbed \/ \E r \in ShareRequests : work[r] # <<>>)
  /\ UNCHANGED <<shares, sourceDirs, mounts, everOffered>>

\* PlanCreate, checked against every entry of the source's list.
ShareCreate(q, s, n, to) ==
  LET id == [src |-> s, name |-> n]
  IN  /\ to # {} /\ s \notin to /\ id \in sourceDirs
      /\ ByName(shares[s], n) = {}
      /\ Begins(q, <<Write(s, shares[s] \cup {[id |-> id, to |-> to, state |-> "offered"]})>>)

\* Mutant of ShareAnswer: any tenant answers any offer.
ShareAnswerAnyone(q, r, s, n, st) ==
  \E offered \in ByName(shares[s], n) :
    Begins(q, <<[do |-> "upsert", at |-> r, offered |-> offered, state |-> st], Reconcile(r)>>)

\* SetRecipientState, accept and decline: the offer is read, then the
\* recipient's own list is read and written, and its Machines reconciled.
ShareAnswer(q, r, s, n, st) ==
  \E offered \in ByName(shares[s], n) :
    /\ r \in offered.to
    /\ Begins(q, <<[do |-> "upsert", at |-> r, offered |-> offered, state |-> st], Reconcile(r)>>)

\* RevokeRecipient: never the last recipient.
ShareRevoke(q, s, n, r) ==
  \E found \in ById(shares[s], [src |-> s, name |-> n]) :
    /\ r \in found.to /\ Cardinality(found.to) > 1
    /\ Begins(q, <<[do |-> "revoke", at |-> r, source |-> s, share |-> found.id,
                    list |-> (shares[s] \ {found}) \cup {[found EXCEPT !.to = @ \ {r}]}], Reconcile(r)>>)

\* DeleteOutbound: the offer first, then each recipient's copy, then the
\* mounts.
ShareDelete(q, s, n) ==
  \E found \in ById(shares[s], [src |-> s, name |-> n]) :
    LET Drop(r) == [do |-> "drop", at |-> r, share |-> found.id]
    IN  Begins(q, <<Write(s, shares[s] \ {found})>> \o EachOf(found.to, Drop) \o EachOf(found.to, Reconcile))

\* shareReconcileAPI.
ShareReconcile(q, t) == Begins(q, <<Reconcile(t)>>)

-----------------------------------------------------------------------------
(* The steps                                                               *)

ShareGoes(q, step) == work[q] # <<>> /\ Head(work[q]).do = step
ShareRest(q, steps) == work' = [work EXCEPT ![q] = steps \o Tail(@)]

\* Reads of the list a step is about to write.
StepUpsert(q) ==
  /\ ShareGoes(q, "upsert")
  /\ LET w == Head(work[q]) IN ShareRest(q, <<Write(w.at, UpsertRecipientShare(shares[w.at], w.offered, w.at, w.state))>>)
  /\ UNCHANGED <<shares, sourceDirs, mounts, everOffered, disturbed>>
StepRevoke(q) ==
  /\ ShareGoes(q, "revoke")
  /\ LET w == Head(work[q])
     IN  ShareRest(q, <<Write(w.source, w.list), Write(w.at, RemoveShare(shares[w.at], w.share))>>)
  /\ UNCHANGED <<shares, sourceDirs, mounts, everOffered, disturbed>>
StepDrop(q) ==
  /\ ShareGoes(q, "drop")
  /\ LET w == Head(work[q]) IN ShareRest(q, <<Write(w.at, RemoveShare(shares[w.at], w.share))>>)
  /\ UNCHANGED <<shares, sourceDirs, mounts, everOffered, disturbed>>

\* SetTenantShares; its error ends the request.
StepWrite(q) ==
  /\ ShareGoes(q, "write")
  /\ LET w == Head(work[q])
     IN  \/ /\ shares' = [shares EXCEPT ![w.at] = w.list] /\ disturbed' = disturbed
            /\ everOffered' = everOffered \cup UNION {{<<s.id, t>> : t \in s.to} : s \in {s \in w.list : s.state = "offered"}}
            /\ ShareRest(q, <<>>)
         \/ /\ ShareMayFail("write") /\ disturbed' = TRUE
            /\ work' = [work EXCEPT ![q] = <<>>]
            /\ UNCHANGED <<shares, everOffered>>
  /\ UNCHANGED <<sourceDirs, mounts>>

\* ReconcileTenantShares: the summary's list is read ...
StepReconcile(q) ==
  /\ ShareGoes(q, "reconcile")
  /\ LET t == Head(work[q]).at IN ShareRest(q, <<[do |-> "apply", at |-> t, list |-> shares[t]]>>)
  /\ UNCHANGED <<shares, sourceDirs, mounts, everOffered, disturbed>>

\* ... and the Machine's share- devices become exactly the desired ones; a
\* Machine that fails is reported and the request goes on.
StepApply(q) ==
  /\ ShareGoes(q, "apply")
  /\ LET w == Head(work[q])
     IN  \/ /\ mounts' = [mounts EXCEPT ![w.at] = DesiredDevices(w.list, w.at)] /\ disturbed' = disturbed
         \/ /\ ShareMayFail("device") /\ disturbed' = TRUE /\ UNCHANGED mounts
  /\ ShareRest(q, <<>>)
  /\ UNCHANGED <<shares, sourceDirs, everOffered>>

SourceDirChanges(i) ==
  /\ ShareMayFail("source")
  /\ sourceDirs' = IF i \in sourceDirs THEN sourceDirs \ {i} ELSE sourceDirs \cup {i}
  /\ UNCHANGED <<shares, mounts, work, everOffered, disturbed>>

ShareBegins(q) ==
  \/ \E s \in ShareTenants, n \in ShareNames :
       \/ \E to \in SUBSET ShareTenants : s \in ShareOwners /\ ShareCreate(q, s, n, to)
       \/ \E r \in ShareTenants : ShareRevoke(q, s, n, r) \/ \E st \in States : ShareAnswer(q, r, s, n, st)
       \/ ShareDelete(q, s, n)
  \/ \E t \in ShareTenants : ShareReconcile(q, t)
ShareStep(q) == StepUpsert(q) \/ StepRevoke(q) \/ StepDrop(q) \/ StepWrite(q) \/ StepReconcile(q) \/ StepApply(q)

SharesNext ==
  \/ \E q \in ShareRequests : ShareBegins(q) \/ ShareStep(q)
  \/ \E i \in ShareId : SourceDirChanges(i)

SharesSpec == SharesInit /\ [][SharesNext]_shareVars

-----------------------------------------------------------------------------
(* Properties                                                              *)

SharesTypeOK ==
  /\ \A t \in ShareTenants : shares[t] \subseteq Offers \cup Copies
  /\ mounts \in [ShareTenants -> SUBSET ShareId]
  /\ everOffered \subseteq ShareId \X ShareTenants

Quiet == \A q \in ShareRequests : work[q] = <<>>

(* However requests interleave and whichever of their writes fail, no      *)
(* directory is mounted in a tenant its owner never offered it to: the     *)
(* copies a tenant keeps only ever come from offers, though the list is    *)
(* looked up by name alone and written back whole.                         *)
MountsWereOffered == \A t \in ShareTenants : \A i \in mounts[t] : <<i, t>> \in everOffered

(* Requests made one after another, none of their steps failing: what a    *)
(* tenant has mounted is a share that is offered to it now and that it     *)
(* accepted.                                                               *)
MountsAreOffered ==
  Quiet /\ ~disturbed => \A t \in ShareTenants : \A i \in mounts[t] :
    /\ \E s \in shares[t] : s.id = i /\ s.state = "accepted"
    /\ \E s \in shares[i.src] : s.id = i /\ t \in s.to

(* What is mounted was offered; while requests come one by one, it is       *)
(* offered now.                                                             *)
MountsFollowOffers == MountsWereOffered /\ MountsAreOffered
=============================================================================
