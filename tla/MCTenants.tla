------------------------------ MODULE MCTenants ------------------------------
(***************************************************************************)
(* What tenants, their members and their administrators do through the     *)
(* Auth App and sc, each component on a small instance: members and keys,  *)
(* accounts, shares, workload tokens, tunnel publications, access of       *)
(* devices to projects, and the tenant's sidecar.  They share no state, so *)
(* a behaviour is a behaviour of one of them: part, chosen at the start,   *)
(* says of which one, and on which instance of it.                         *)
(***************************************************************************)
EXTENDS TenantMembers, Accounts, Shares, WorkloadTokens, TunnelPublications, ProjectAccess,
        TenantSidecar

VARIABLE part

MemberParts == {"members", "keys"}
ShareParts == {"sharing", "failing"}
TunnelParts == {"tunnels", "tailnet"}
SidecarParts == {"settings", "joining", "machines"}
Parts == MemberParts \cup ShareParts \cup TunnelParts \cup SidecarParts \cup
         {"accounts", "tokens", "access"}

MCMemberOps ==
  ({"grant", "revoke", "login"} \X Members) \cup ({"create"} \X AppProjects)
    \cup ({"addkey", "rmkey"} \X OwnKeys)

TenantsVars ==
  <<part, memberVars, accountVars, shareVars, tokenVars, tunnelVars, accessVars, sidecarVars>>

\* The first login was made from device 1, and the others are alike.
DevicesSorted ==
  /\ recorded = 1
  /\ \A d \in Devices \ {1} : d + 1 \in Devices =>
       Cardinality(entries[d].projects) <= Cardinality(entries[d + 1].projects)

TenantsInit ==
  /\ part \in Parts
  /\ MembersInit /\ AccountsInit /\ SharesInit /\ TokensInit /\ TunnelsInit
  /\ AccessInit /\ SidecarInit
  /\ part = "members" => infra.keys = {CHOOSE k \in OwnKeys : TRUE}
  /\ part \notin MemberParts => infra.keys = OwnKeys
  /\ DevicesSorted /\ (part # "access" => \A d \in Devices \ {1} : entries[d] = Untrusted)
  /\ part \notin {"settings"} => Fresh

OnMembers(A) == part \in MemberParts /\ A /\ UNCHANGED <<part, accountVars, shareVars, tokenVars, tunnelVars, accessVars, sidecarVars>>
OnAccounts(A) == part = "accounts" /\ A /\ UNCHANGED <<part, memberVars, shareVars, tokenVars, tunnelVars, accessVars, sidecarVars>>
OnShares(A) == part \in ShareParts /\ A /\ UNCHANGED <<part, memberVars, accountVars, tokenVars, tunnelVars, accessVars, sidecarVars>>
OnTokens(A) == part = "tokens" /\ A /\ UNCHANGED <<part, memberVars, accountVars, shareVars, tunnelVars, accessVars, sidecarVars>>
OnTunnels(A) == part \in TunnelParts /\ A /\ UNCHANGED <<part, memberVars, accountVars, shareVars, tokenVars, accessVars, sidecarVars>>
OnAccess(A) == part = "access" /\ A /\ UNCHANGED <<part, memberVars, accountVars, shareVars, tokenVars, tunnelVars, sidecarVars>>
OnSidecar(A) == part \in SidecarParts /\ A /\ UNCHANGED <<part, memberVars, accountVars, shareVars, tokenVars, tunnelVars, accessVars>>

\* One administrator's requests one after another, any call of which may fail;
\* and two requests at a time that edit the tenant's keys and one member.
MembersStep ==
  /\ MembersNext
  /\ part = "members" => /\ mreq'[2] = mreq[2]
                         /\ mreq'[1].op \notin {"addkey", "rmkey"}
  /\ part = "keys" =>
       \A r \in MemberRequests :
         /\ ~Fails(r)
         /\ mreq'[r].op \in {NoOp, "addkey", "rmkey", "grant"}
         /\ mreq'[r].op = "grant" => mreq'[r].subject = 1

\* State tokens are alike, and so are random keys: the first unused one is drawn.
AccountsStep == AccountsNext /\ \A s \in issued' \ issued : 1 .. s - 1 \subseteq issued
TokensStep == TokensNext /\ \A k \in Drawn' \ Drawn : 1 .. k - 1 \subseteq Drawn

\* Two requests at a time in two tenants, whose writes may fail; and one at a
\* time in three, while source directories come and go.
SharesStep ==
  /\ SharesNext
  /\ part = "sharing" => sourceDirs' = sourceDirs /\ shares'[3] = {} /\ \A t \in ShareTenants : \A o \in shares'[t] : 3 \notin o.to
  /\ part = "failing" => work'[2] = <<>>

\* One command per machine at a time; and one command at a time of each kind.
TunnelsStep ==
  /\ TunnelsNext
  /\ \A r, q \in TunnelRuns :
       r # q /\ {trun'[r].step, trun'[q].step} \cap {"idle", "done"} = {} => trun'[r].machine # trun'[q].machine
  /\ part = "tunnels" => \A r \in TunnelRuns : trun'[r].op \in {"none", "publish", "unpublish"}
  /\ part = "tailnet" => trun'[2].op = "none"

\* Machines appear while no request is deleting their project.
AccessStep == AccessNext /\ (contents' = contents \/ AtRest \/ access' # access)

\* Logins with an auth key that name users and keys, beside the egress toggle
\* and with key edits between them; logins that wait for the tailnet while the
\* sidecar stops; and machines created while a login runs.
NoBuildRuns == \A b \in Builds : builds[b] = NoBuild
SidecarStep ==
  /\ SidecarNext
  /\ \A k \in ExtraKeys : AddSSHKey(k) => part = "settings" /\ NoBuildRuns
  /\ RunEgress => part = "settings"
  /\ part = "settings" => \A b \in Builds : builds'[b] # NoBuild => builds'[b].key
  /\ part # "joining" => stops' = stops
  /\ part # "machines" => \A m \in BuildMachines : ~NewMachine(m)

TenantsNext ==
  \/ OnMembers(MembersStep) \/ OnAccounts(AccountsStep) \/ OnShares(SharesStep)
  \/ OnTokens(TokensStep) \/ OnTunnels(TunnelsStep) \/ OnAccess(AccessStep)
  \/ OnSidecar(SidecarStep)

TenantsSpec == TenantsInit /\ [][TenantsNext]_TenantsVars

\* Every variable of every component stays in its domain.
TenantsTypeOK ==
  /\ MembersTypeOK /\ AccountsTypeOK /\ SharesTypeOK /\ TokensTypeOK
  /\ TunnelsTypeOK /\ AccessTypeOK /\ SidecarTypeOK

\* A tenant mounts what was offered to it (ReconcileShares), in whichever state
\* the components' variables are.
TenantsSafe == TenantsTypeOK /\ MountsFollowOffers
=============================================================================
