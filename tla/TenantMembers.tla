--------------------------- MODULE TenantMembers ---------------------------
(***************************************************************************)
(* Membership of one Shared Tenant: shared_tenants.go and access.go of the *)
(* Auth App, tenant_members_v2.go, usertrust.go and machine_ssh_key.go of  *)
(* the Incus adapter.                                                      *)
(*                                                                         *)
(* Membership lives in four places nothing writes together: the project    *)
(* scope of the member's certificate, the member list in the infra         *)
(* project's config, the key set rendered into the profiles, and the       *)
(* authorized_keys of the machines that run.  A request visits them one    *)
(* after the other, each an Incus call that may fail.  The config has an   *)
(* ETag, which is a hash of it: an update presents the config it read.     *)
(* Certificates are read and written back with no ETag.                    *)
(***************************************************************************)
EXTENDS Naturals, Sequences, FiniteSets

CONSTANTS
    Members,         \* users that may be granted membership
    AppProjects,     \* app projects of the tenant
    FirstProjects,   \* the ones it has at the start
    OwnKeys,         \* keys of the tenant's own key list
    MemberRequests,  \* concurrent requests
    MemberOps,       \* what they ask for: <<op, subject>>
    MemberFaults,    \* subset of {"call", "list"}
    NoOp             \* an idle request's operation

ASSUME MembersAssumption ==
    /\ FirstProjects \subseteq AppProjects
    /\ OwnKeys # {}
    /\ MemberOps \subseteq
           ({"grant", "revoke", "login"} \X Members) \cup ({"create"} \X AppProjects)
             \cup ({"addkey", "rmkey"} \X OwnKeys)

VARIABLES
    apps,       \* app projects in Incus
    scope,      \* projects on each member's certificate
    infra,      \* config of the infra project: members and own keys
    profiles,   \* members whose keys the profiles authorize
    block,      \* members whose keys are in the machines' marker block
    seeded,     \* members whose keys cloud-init wrote, outside the block
    mreq        \* the requests

memberVars == <<apps, scope, infra, profiles, block, seeded, mreq>>

Idle == [op |-> NoOp, subject |-> NoOp, step |-> "idle", plan |-> {}, list |-> {},
         config |-> NoOp, alone |-> TRUE]

Configs == [members : SUBSET Members, keys : SUBSET OwnKeys]

Steps == {"idle", "scope", "extend", "read", "etag", "update", "render", "machines",
          "others", "ok", "failed"}

MembersTypeOK ==
    /\ apps \subseteq AppProjects
    /\ scope \in [Members -> SUBSET AppProjects]
    /\ infra \in Configs
    /\ profiles \subseteq Members /\ block \subseteq Members /\ seeded \subseteq Members
    /\ mreq \in [MemberRequests ->
         [op : {NoOp, "grant", "revoke", "login", "create", "addkey", "rmkey"},
          subject : {NoOp} \cup Members \cup AppProjects \cup OwnKeys,
          step : Steps, plan : SUBSET AppProjects,
          list : (SUBSET Members) \cup (SUBSET AppProjects),
          config : {NoOp} \cup Configs, alone : BOOLEAN]]

MembersInit ==
    /\ apps = FirstProjects
    /\ scope = [u \in Members |-> {}]
    /\ infra \in [members : {{}}, keys : (SUBSET OwnKeys) \ {{}}]
    /\ profiles = {} /\ block = {} /\ seeded = {}
    /\ mreq = [r \in MemberRequests |-> Idle]

Busy(r) == mreq[r].step \notin {"idle", "ok", "failed"}

Op(r, ops) == mreq[r].op \in ops

(* The transitions as grantTenantMembership, revokeTenantMembership and    *)
(* their callees order them: certificate scope, membership metadata (which *)
(* re-renders the profiles), the key on the running machines.              *)
StepsOf(op) ==
    CASE op \in {"grant", "revoke"} ->
           <<"scope", "extend", "read", "etag", "update", "render", "machines", "ok">>
      [] op \in {"addkey", "rmkey"} -> <<"etag", "update", "render", "ok">>
      [] op = "login" -> <<"render", "machines", "ok">>
      [] op = "create" -> <<"machines", "others", "ok">>

StepAfter(r) ==
    LET steps == StepsOf(mreq[r].op)
    IN  steps[(CHOOSE i \in DOMAIN steps : steps[i] = mreq[r].step) + 1]

(* r moves on to its next step, with what it carries.                      *)
Goes(r, fields) ==
    mreq' = [mreq EXCEPT ![r] = [f \in DOMAIN @ |->
                IF f \in DOMAIN fields THEN fields[f]
                ELSE IF f = "step" THEN StepAfter(r) ELSE @[f]]]

(* r answers.                                                              *)
Answers(r) ==
    mreq' = [mreq EXCEPT ![r] = [Idle EXCEPT !.op = mreq[r].op, !.subject = mreq[r].subject,
                                             !.alone = mreq[r].alone, !.step = "ok"]]

GivesUp(r) == mreq' = [mreq EXCEPT ![r] = [Idle EXCEPT !.step = "failed"]]

(* A step r takes, or the failure of the call it makes.                    *)
Fails(r) ==
    /\ "call" \in MemberFaults
    /\ Busy(r)
    /\ GivesUp(r)
    /\ UNCHANGED <<apps, scope, infra, profiles, block, seeded>>

(* adminTenantAccessMutation reads the tenant summary: the grant and the   *)
(* revoke cover the app projects it has at that moment.  Whether another   *)
(* request overlaps r is recorded for the properties.                      *)
MemberBegin(r) ==
    \E o \in MemberOps :
        /\ ~Busy(r)
        /\ LET others == {s \in MemberRequests \ {r} : Busy(s)}
               entry == [Idle EXCEPT !.op = o[1], !.subject = o[2],
                           !.plan = IF o[1] \in {"grant", "revoke"} THEN apps ELSE {},
                           !.alone = others = {},
                           !.step = Head(StepsOf(o[1]))]
           IN  mreq' = [s \in MemberRequests |->
                          IF s = r THEN entry
                          ELSE IF s \in others THEN [mreq[s] EXCEPT !.alone = FALSE]
                          ELSE mreq[s]]
        /\ o[1] = "create" => o[2] \notin apps
        /\ UNCHANGED <<apps, scope, infra, profiles, block, seeded>>

(* memberDeviceCertificates / EnsureClientCertificate: the certificate as  *)
(* listed.  A revoke whose listing fails goes on as if there were nothing  *)
(* to revoke.                                                              *)
ScopeRead(r) ==
    /\ mreq[r].step = "scope"
    /\ \/ Goes(r, [list |-> scope[mreq[r].subject]])
       \/ /\ "list" \in MemberFaults /\ Op(r, {"revoke"})
          /\ Goes(r, [step |-> "read"])
    /\ UNCHANGED <<apps, scope, infra, profiles, block, seeded>>

(* UpdateCertificate with no ETag: what was listed, with the plan's        *)
(* projects added or removed.                                              *)
ScopeWrite(r) ==
    /\ mreq[r].step = "extend"
    /\ scope' = [scope EXCEPT ![mreq[r].subject] =
                   IF Op(r, {"grant"}) THEN mreq[r].list \cup mreq[r].plan
                   ELSE mreq[r].list \ mreq[r].plan]
    /\ Goes(r, << >>)
    /\ UNCHANGED <<apps, infra, profiles, block, seeded>>

(* AddTenantMemberV2 and RemoveTenantMemberV2 compute the list from a read *)
(* of their own ...                                                        *)
MembersRead(r) ==
    /\ mreq[r].step = "read"
    /\ Goes(r, [list |-> IF Op(r, {"grant"}) THEN infra.members \cup {mreq[r].subject}
                         ELSE infra.members \ {mreq[r].subject}])
    /\ UNCHANGED <<apps, scope, infra, profiles, block, seeded>>

(* ... and SetTenantMembersV2 reads the config and its ETag again.  The    *)
(* key operations read once.                                               *)
InfraRead(r) ==
    /\ mreq[r].step = "etag"
    /\ Goes(r, [config |-> infra])
    /\ UNCHANGED <<apps, scope, infra, profiles, block, seeded>>

(* The keys an update leaves in the config r read.                         *)
KeysAfter(r) ==
    CASE Op(r, {"addkey"}) -> mreq[r].config.keys \cup {mreq[r].subject}
      [] Op(r, {"rmkey"}) -> mreq[r].config.keys \ {mreq[r].subject}
      [] OTHER -> mreq[r].config.keys

\* Mutant: the project is written whatever its etag has become.
InfraWriteUnchecked(r) ==
    LET config == [members |-> IF Op(r, {"grant", "revoke"}) THEN mreq[r].list
                               ELSE mreq[r].config.members,
                   keys |-> KeysAfter(r)]
    IN  /\ mreq[r].step = "update"
        /\ \/ /\ KeysAfter(r) # {}
              /\ infra' = config
              /\ Goes(r, [config |-> config])
           \/ /\ KeysAfter(r) = {}
              /\ GivesUp(r)
              /\ UNCHANGED infra
        /\ UNCHANGED <<apps, scope, profiles, block, seeded>>

(* updateTenantInfraV2: the whole config is written back under the ETag;   *)
(* the last key of a tenant is never removed.                              *)
InfraWrite(r) ==
    LET config == [members |-> IF Op(r, {"grant", "revoke"}) THEN mreq[r].list
                               ELSE mreq[r].config.members,
                   keys |-> KeysAfter(r)]
        writes == KeysAfter(r) # {} /\ infra = mreq[r].config
    IN  /\ mreq[r].step = "update"
        /\ \/ /\ writes
              /\ infra' = config
              /\ Goes(r, [config |-> config])
           \/ /\ ~writes
              /\ GivesUp(r)
              /\ UNCHANGED infra
        /\ UNCHANGED <<apps, scope, profiles, block, seeded>>

(* renderTenantProfilesV2: the profiles of every app project, from the     *)
(* config this request holds.                                              *)
Render(r) ==
    /\ mreq[r].step = "render" /\ ~Op(r, {"login"})
    /\ profiles' = mreq[r].config.members
    /\ IF Op(r, {"addkey", "rmkey"}) THEN Answers(r) ELSE Goes(r, << >>)
    /\ UNCHANGED <<apps, scope, infra, block, seeded>>

(* reconcileMemberSSHKeys at a device login: a tenant the user is a member *)
(* of renders its profiles from the config as it is now; one the user is   *)
(* no member of is skipped.  A failure is remembered, and the machines are *)
(* visited nevertheless.                                                   *)
RenderAtLogin(r) ==
    /\ mreq[r].step = "render" /\ Op(r, {"login"})
    /\ \/ /\ mreq[r].subject \notin infra.members
          /\ Answers(r)
          /\ UNCHANGED profiles
       \/ /\ mreq[r].subject \in infra.members
          /\ profiles' = infra.members
          /\ Goes(r, << >>)
       \/ /\ mreq[r].subject \in infra.members
          /\ "call" \in MemberFaults
          /\ Goes(r, << >>)
          /\ UNCHANGED profiles
    /\ UNCHANGED <<apps, scope, infra, block, seeded>>

(* reconcileMachine: the key goes into the marker block unless the file    *)
(* has it already.  Every machine of a project shares the file.            *)
EnrolKey(r) ==
    /\ mreq[r].step = "machines" /\ Op(r, {"grant", "login"})
    /\ block' = IF mreq[r].subject \in seeded THEN block ELSE block \cup {mreq[r].subject}
    /\ Answers(r)
    /\ UNCHANGED <<apps, scope, infra, profiles, seeded>>

(* RevokeUserSSHKey: revokeMachine drops the marker block.                 *)
RevokeKey(r) ==
    /\ mreq[r].step = "machines" /\ Op(r, {"revoke"})
    /\ block' = {}
    /\ Answers(r)
    /\ UNCHANGED <<apps, scope, infra, profiles, seeded>>

(* Project create: the app project appears with profiles of the current    *)
(* members; extendMemberCertificates then lists the members.               *)
ProjectCreate(r) ==
    /\ mreq[r].step = "machines" /\ Op(r, {"create"})
    /\ mreq[r].subject \notin apps
    /\ apps' = apps \cup {mreq[r].subject}
    /\ profiles' = infra.members
    /\ Goes(r, [list |-> infra.members])
    /\ UNCHANGED <<scope, infra, block, seeded>>

(* extendMemberCertificates extends the members' certificates one by one;  *)
(* one that cannot be extended is logged and skipped.                      *)
ExtendMember(r) ==
    /\ mreq[r].step = "others"
    /\ \/ \E u \in mreq[r].list :
            /\ Goes(r, [step |-> "others", list |-> mreq[r].list \ {u}])
            /\ scope' = [scope EXCEPT ![u] = @ \cup {mreq[r].subject}]
       \/ /\ "call" \in MemberFaults
          /\ \E u \in mreq[r].list : Goes(r, [step |-> "others", list |-> mreq[r].list \ {u}])
          /\ UNCHANGED scope
       \/ /\ mreq[r].list = {}
          /\ Answers(r)
          /\ UNCHANGED scope
    /\ UNCHANGED <<apps, infra, profiles, block, seeded>>

(* A machine is created from the profiles: cloud-init writes their keys    *)
(* outside the marker block of the project's shared home.                  *)
MachineSeeded ==
    /\ seeded' = seeded \cup profiles
    /\ seeded' # seeded
    /\ UNCHANGED <<apps, scope, infra, profiles, block, mreq>>

MembersNext ==
    \/ MachineSeeded
    \/ \E r \in MemberRequests :
          \/ MemberBegin(r) \/ Fails(r)
          \/ ScopeRead(r) \/ ScopeWrite(r)
          \/ MembersRead(r) \/ InfraRead(r) \/ InfraWrite(r)
          \/ Render(r) \/ RenderAtLogin(r) \/ EnrolKey(r) \/ RevokeKey(r)
          \/ ProjectCreate(r) \/ ExtendMember(r)

MembersSpec == MembersInit /\ [][MembersNext]_memberVars

-----------------------------------------------------------------------------
(* What a grant or a revoke promises of its subject.                       *)
Settled(r) ==
    LET u == mreq[r].subject
    IN  /\ Op(r, {"grant"}) => /\ u \in infra.members /\ apps \subseteq scope[u]
                               /\ u \in profiles /\ u \in block \cup seeded
        /\ Op(r, {"revoke"}) => /\ u \notin infra.members /\ scope[u] \cap apps = {}
                                /\ u \notin profiles /\ u \notin block

(* A grant or a revoke that reports success and that no other request      *)
(* overlapped leaves the certificate, the metadata, the profiles and the   *)
(* marker block of the machines in agreement about its user, whatever      *)
(* failed or overlapped before it: both are repairable by repetition       *)
(* (grantTenantMembership, "It is idempotent").                            *)
MembershipComplete ==
    [][\A r \in MemberRequests :
          (Busy(r) /\ mreq[r].alone /\ mreq'[r].step = "ok" /\ mreq'[r].alone) => Settled(r)']_memberVars

(* No update of the tenant's own key list is lost: a key comes or goes     *)
(* only by a request for that key, because each write presents the ETag of *)
(* the config its list was computed from, and the last key stays.          *)
KeyUpdatesKept ==
    [][/\ infra'.keys # {}
       /\ \A k \in OwnKeys : (k \in infra.keys) # (k \in infra'.keys)
             => \E r \in MemberRequests : Op(r, {"addkey", "rmkey"}) /\ mreq[r].subject = k
                                             /\ mreq[r].step = "update" /\ mreq'[r] # mreq[r]]_memberVars

(* The same of the member list: violated, the list is computed from one    *)
(* read and written under the ETag of a second ("the ETag a subsequent     *)
(* UpdateProject must present", tenantV2Infra).                            *)
MemberUpdatesKept ==
    [][\A u \in Members : (u \in infra.members) # (u \in infra'.members)
          => \E r \in MemberRequests : Op(r, {"grant", "revoke"}) /\ mreq[r].subject = u
                                          /\ mreq[r].step = "update" /\ mreq'[r] # mreq[r]]_memberVars

(* A revoke takes "the member's key on running machines" (the comment of   *)
(* revokeTenantMembership), and nobody else's: violated, the marker block  *)
(* holds the keys of every member.                                         *)
OthersStayAdmitted ==
    [][\A u \in infra.members \cap (block \cup seeded) :
          (u \in infra'.members /\ \A r \in MemberRequests :
              Op(r, {"revoke"}) => mreq[r].subject # u) => u \in block' \cup seeded']_memberVars

(* Membership as the commands report it: what succeeded is complete, and no *)
(* request overwrites another's keys.                                       *)
MembersKept == MembershipComplete /\ KeyUpdatesKept
=============================================================================
