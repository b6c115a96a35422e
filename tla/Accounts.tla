------------------------------ MODULE Accounts ------------------------------
(***************************************************************************)
(* The Auth App's user table, web logins and allowlist: store.go,          *)
(* login.go, allowlist.go, cli_token.go, with the trust entries            *)
(* (usertrust.go) and machine keys (machine_ssh_key.go) a removal visits.  *)
(*                                                                         *)
(* A login is a chain of statements and GitHub calls: consume the OAuth    *)
(* state, ask GitHub who it is, find the allowlisted user, record the      *)
(* login, open the session.  A removal clears the flag, deletes the trust  *)
(* entries and drops the keys of tenant after tenant; every one of these   *)
(* may fail, and the administrator repeats it.                             *)
(***************************************************************************)
EXTENDS FiniteSets

CONSTANTS
    Users, Admins,   \* GitHub users; the bootstrap administrators
    OAuthStates,     \* random state tokens, each issued once
    Callbacks,       \* concurrent /oauth callbacks
    KeyTenants,      \* tenants whose machines carry user keys
    AccountFaults,   \* subset of {"call"}
    NoAccount

ASSUME AccountsAssumption ==
    /\ Admins \subseteq Users
    /\ NoAccount \notin Users \cup OAuthStates

VARIABLES
    users,      \* user -> [known, allowlisted, admin]
    issued,     \* state tokens handed out
    pending,    \* rows of oauth_states: token -> live or expired
    callback,   \* the callbacks
    sessions,   \* users with a web session that has not expired
    enrolled,   \* users with a restricted trust entry
    keyed,      \* tenant -> users whose keys its machines carry
    removal     \* the removal request: who, and how far

accountVars == <<users, issued, pending, callback, sessions, enrolled, keyed, removal>>

NoCallback == [step |-> "idle", state |-> NoAccount, user |-> NoAccount]

NoRemoval == [step |-> "idle", user |-> NoAccount, left |-> {}]

AccountsTypeOK ==
    /\ users \in [Users -> [known : BOOLEAN, allowlisted : BOOLEAN, admin : BOOLEAN]]
    /\ issued \subseteq OAuthStates
    /\ pending \in [OAuthStates -> {"none", "live", "expired"}]
    /\ callback \in [Callbacks ->
          [step : {"idle", "read", "consumed", "found", "recorded", "in", "refused"},
           state : OAuthStates \cup {NoAccount}, user : Users \cup {NoAccount}]]
    /\ sessions \subseteq Users /\ enrolled \subseteq Users
    /\ keyed \in [KeyTenants -> SUBSET Users]
    /\ removal \in [step : {"idle", "trust", "keys", "ok", "failed"},
                    user : Users \cup {NoAccount}, left : SUBSET KeyTenants]

(* UpsertUser: a conflict keeps the larger flag, so it never takes one.    *)
UpsertUser(table, u, admin) ==
    [table EXCEPT ![u] = [known |-> TRUE, allowlisted |-> TRUE, admin |-> @.admin \/ admin]]

(* BootstrapAdmins runs at every start.                                    *)
BootstrapAdmins(table) ==
    [u \in Users |-> IF u \in Admins THEN UpsertUser(table, u, TRUE)[u] ELSE table[u]]

AccountsInit ==
    /\ users = BootstrapAdmins([u \in Users |->
                  [known |-> FALSE, allowlisted |-> FALSE, admin |-> FALSE]])
    /\ issued = {} /\ pending = [s \in OAuthStates |-> "none"]
    /\ callback = [c \in Callbacks |-> NoCallback]
    /\ sessions = {} /\ enrolled = {}
    /\ keyed = [t \in KeyTenants |-> {}]
    /\ removal = NoRemoval

(* The process restarts: requests are lost, the database is not.           *)
AccountsRestart ==
    /\ users' = BootstrapAdmins(users)
    /\ callback' = [c \in Callbacks |-> NoCallback]
    /\ removal' = NoRemoval
    /\ UNCHANGED <<issued, pending, sessions, enrolled, keyed>>

(* requireAdmin: a session of a user with the admin flag.                  *)
RequireAdmin == \E u \in sessions : users[u].admin

(* githubLogin, createOAuthState; the row expires after ten minutes.       *)
GithubLogin(s) ==
    /\ s \notin issued
    /\ issued' = issued \cup {s}
    /\ pending' = [pending EXCEPT ![s] = "live"]
    /\ UNCHANGED <<users, callback, sessions, enrolled, keyed, removal>>

StateExpires(s) ==
    /\ pending[s] = "live"
    /\ pending' = [pending EXCEPT ![s] = "expired"]
    /\ UNCHANGED <<users, issued, callback, sessions, enrolled, keyed, removal>>

(* githubCallback, consumeOAuthState: the row is selected ...              *)
ConsumeRead(c, s) ==
    /\ callback[c].step \in {"idle", "in", "refused"}
    /\ s \in issued
    /\ \/ /\ pending[s] = "none"
          /\ callback' = [callback EXCEPT ![c] = [NoCallback EXCEPT !.step = "refused"]]
          /\ UNCHANGED pending
       \/ /\ pending[s] = "expired"
          /\ pending' = [pending EXCEPT ![s] = "none"]
          /\ callback' = [callback EXCEPT ![c] = [NoCallback EXCEPT !.step = "refused"]]
       \/ /\ pending[s] = "live"
          /\ callback' = [callback EXCEPT ![c] = [NoCallback EXCEPT !.step = "read", !.state = s]]
          /\ UNCHANGED pending
    /\ UNCHANGED <<users, issued, sessions, enrolled, keyed, removal>>

(* ... and deleted: the callback goes on only if it deleted a row.         *)
ConsumeDelete(c) ==
    /\ callback[c].step = "read"
    /\ pending' = [pending EXCEPT ![callback[c].state] = "none"]
    /\ callback' = [callback EXCEPT ![c].step =
                      IF pending[callback[c].state] = "none" THEN "refused" ELSE "consumed"]
    /\ UNCHANGED <<users, issued, sessions, enrolled, keyed, removal>>

(* ExchangeCode, Profile and FindLoginUser.                                *)
FindLoginUser(c) ==
    /\ callback[c].step = "consumed"
    /\ \E u \in Users :
          callback' = [callback EXCEPT
                         ![c].step = IF users[u].known /\ users[u].allowlisted THEN "found" ELSE "refused",
                         ![c].user = u]
    /\ UNCHANGED <<users, issued, pending, sessions, enrolled, keyed, removal>>

(* RecordGitHubLogin writes allowlisted = true, whatever it is by now.     *)
RecordGitHubLogin(c) ==
    /\ callback[c].step = "found"
    /\ users' = UpsertUser(users, callback[c].user, FALSE)
    /\ callback' = [callback EXCEPT ![c].step = "recorded"]
    /\ UNCHANGED <<issued, pending, sessions, enrolled, keyed, removal>>

CreateSession(c) ==
    /\ callback[c].step = "recorded"
    /\ sessions' = sessions \cup {callback[c].user}
    /\ callback' = [callback EXCEPT ![c].step = "in"]
    /\ UNCHANGED <<users, issued, pending, enrolled, keyed, removal>>

SessionExpires(u) ==
    /\ u \in sessions
    /\ sessions' = sessions \ {u}
    /\ UNCHANGED <<users, issued, pending, callback, enrolled, keyed, removal>>

(* A device login of the user enrols a certificate and puts the user's key *)
(* on a tenant's machines (DeviceLogin, TenantProvisioning).               *)
DeviceEnrolled(u, t) ==
    /\ u \in sessions /\ users[u].allowlisted
    /\ enrolled' = enrolled \cup {u}
    /\ keyed' = [keyed EXCEPT ![t] = @ \cup {u}]
    /\ <<enrolled', keyed'>> # <<enrolled, keyed>>
    /\ UNCHANGED <<users, issued, pending, callback, sessions, removal>>

(* adminAllowlist POST: VerifyUsername, then AllowlistGitHubUser.          *)
AdminAllowlist(u) ==
    /\ RequireAdmin
    /\ users' = UpsertUser(users, u, FALSE)
    /\ users' # users
    /\ UNCHANGED <<issued, pending, callback, sessions, enrolled, keyed, removal>>

(* adminAllowlistRemove: the flag first, ...                               *)
RemoveBegin(u) ==
    /\ removal.step \in {"idle", "ok", "failed"}
    /\ RequireAdmin
    /\ users[u].known
    /\ users' = [users EXCEPT ![u].allowlisted = FALSE]
    /\ removal' = [step |-> "trust", user |-> u, left |-> {}]
    /\ UNCHANGED <<issued, pending, callback, sessions, enrolled, keyed>>

(* ... then the trust entries (findCertificates answers an error when      *)
(* there is none, and the handler stops) ...                               *)
RemoveTrust ==
    /\ removal.step = "trust"
    /\ \/ /\ removal.user \in enrolled
          /\ enrolled' = enrolled \ {removal.user}
          /\ removal' = [removal EXCEPT !.step = "keys", !.left = KeyTenants]
       \/ /\ removal.user \notin enrolled \/ "call" \in AccountFaults
          /\ removal' = [NoRemoval EXCEPT !.step = "failed"]
          /\ UNCHANGED enrolled
    /\ UNCHANGED <<users, issued, pending, callback, sessions, keyed>>

\* Mutant: a tenant whose keys cannot be removed is skipped.
RemoveKeysSkipping ==
    /\ removal.step = "keys"
    /\ \/ \E t \in removal.left :
             /\ \/ keyed' = [keyed EXCEPT ![t] = @ \ {removal.user}]
                \/ "call" \in AccountFaults /\ keyed' = keyed
             /\ removal' = [removal EXCEPT !.left = @ \ {t}]
       \/ /\ removal.left = {}
          /\ removal' = [removal EXCEPT !.step = "ok"]
          /\ UNCHANGED keyed
    /\ UNCHANGED <<users, issued, pending, callback, sessions, enrolled>>

(* ... then the keys, tenant by tenant, stopping at the first error.       *)
RemoveKeys ==
    /\ removal.step = "keys"
    /\ \/ \E t \in removal.left :
             /\ keyed' = [keyed EXCEPT ![t] = @ \ {removal.user}]
             /\ removal' = [removal EXCEPT !.left = @ \ {t}]
       \/ /\ "call" \in AccountFaults
          /\ removal.left # {}
          /\ removal' = [NoRemoval EXCEPT !.step = "failed"]
          /\ UNCHANGED keyed
       \/ /\ removal.left = {}
          /\ removal' = [removal EXCEPT !.step = "ok"]
          /\ UNCHANGED keyed
    /\ UNCHANGED <<users, issued, pending, callback, sessions, enrolled>>

AccountsNext ==
    \/ AccountsRestart \/ RemoveTrust \/ RemoveKeys
    \/ \E s \in OAuthStates : GithubLogin(s) \/ StateExpires(s)
    \/ \E c \in Callbacks : \/ \E s \in OAuthStates : ConsumeRead(c, s)
                            \/ ConsumeDelete(c) \/ FindLoginUser(c)
                            \/ RecordGitHubLogin(c) \/ CreateSession(c)
    \/ \E u \in Users : \/ SessionExpires(u) \/ AdminAllowlist(u) \/ RemoveBegin(u)
                        \/ \E t \in KeyTenants : DeviceEnrolled(u, t)

AccountsSpec == AccountsInit /\ [][AccountsNext]_accountVars

-----------------------------------------------------------------------------
(* One OAuth state opens one login: of two callbacks that present the same *)
(* state, and both read its row, one deletes it.                           *)
OAuthStateSingleUse ==
    \A c, d \in Callbacks :
        (c # d /\ callback[c].state = callback[d].state /\ callback[c].state # NoAccount)
        => \/ callback[c].step \in {"read", "refused"}
           \/ callback[d].step \in {"read", "refused"}

(* A removal that answers success has taken the trust entry and every      *)
(* machine key of the user, unless a device login of theirs was let in     *)
(* meanwhile (features-and-scenarios.md, "remove revokes restricted user + *)
(* machine SSH keys").                                                     *)
RemovalComplete ==
    [][(removal.step # "ok" /\ removal'.step = "ok")
       => \/ users[removal.user].allowlisted
          \/ /\ removal.user \notin enrolled'
             /\ \A t \in KeyTenants : removal.user \notin keyed'[t]]_accountVars

(* A removal that failed half way is finished by repeating it: violated,   *)
(* the second call finds no certificate and stops before the keys.         *)
RemovalRepeatable ==
    (removal.step = "failed" /\ RequireAdmin)
    => \A u \in Users : (~users[u].allowlisted /\ u \notin enrolled)
                          => \A t \in KeyTenants : u \notin keyed[t]

(* A user who was removed keeps nothing, and a login link is good for one   *)
(* login.                                                                   *)
AccountsSound == RemovalComplete /\ []OAuthStateSingleUse
=============================================================================
