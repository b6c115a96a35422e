---------------------------- MODULE TenantsProofs ----------------------------
(***************************************************************************)
(* What the tenants' components keep, for any number of users, callbacks,  *)
(* tenants, machines, keys and requests: a removed user keeps nothing,     *)
(* racing first users of the signing key converge, what a membership       *)
(* request reports is so, publications tell one story, live devices open   *)
(* every project, what is mounted was offered, and a build leaves what the *)
(* settings say.                                                           *)
(***************************************************************************)
EXTENDS MCTenants, FiniteSetTheorems, TLAPS

-----------------------------------------------------------------------------
(* Accounts                                                                *)

CallbackRecords ==
    [step : {"idle", "read", "consumed", "found", "recorded", "in", "refused"},
     state : OAuthStates \cup {NoAccount}, user : Users \cup {NoAccount}]
UserRecords == [known : BOOLEAN, allowlisted : BOOLEAN, admin : BOOLEAN]
RemovalRecords == [step : {"idle", "trust", "keys", "ok", "failed"},
                   user : Users \cup {NoAccount}, left : SUBSET KeyTenants]

\* A callback that got past the DELETE has spent its state for good.
StatesSpent ==
    \A c \in Callbacks : callback[c].state # NoAccount =>
        /\ callback[c].state \in issued
        /\ callback[c].step \notin {"read", "refused"} => pending[callback[c].state] = "none"

\* A callback that goes on to record a login knows whose it is.
LoginsKnown ==
    \A c \in Callbacks : callback[c].step \in {"found", "recorded"} => callback[c].user \in Users

\* While the keys of a user go, tenant by tenant, the user is let in again or
\* has nothing left in the tenants visited.
RemovalUnderWay ==
    /\ removal.step \in {"trust", "keys"} => removal.user \in Users
    /\ removal.step = "keys" =>
        \/ users[removal.user].allowlisted
        \/ /\ removal.user \notin enrolled
           /\ \A t \in KeyTenants \ removal.left : removal.user \notin keyed[t]

AccountsInv ==
    /\ AccountsTypeOK /\ OAuthStateSingleUse /\ StatesSpent
    /\ LoginsKnown /\ RemovalUnderWay

\* A known user is a record of flags, whoever is let in.
LEMMA UpsertUserType ==
  ASSUME NEW table \in [Users -> UserRecords], NEW u \in Users, NEW admin \in BOOLEAN
  PROVE  /\ UpsertUser(table, u, admin) \in [Users -> UserRecords]
         /\ \A v \in Users : table[v].allowlisted => UpsertUser(table, u, admin)[v].allowlisted
<1> DEFINE k == [known |-> TRUE, allowlisted |-> TRUE, admin |-> table[u].admin \/ admin]
<1>1. (table[u].admin \/ admin) \in BOOLEAN
  OBVIOUS
<1>2. k \in UserRecords /\ k.allowlisted
  BY <1>1 DEF UserRecords
<1>3. UpsertUser(table, u, admin) = [table EXCEPT ![u] = k]
  BY DEF UpsertUser
<1> HIDE DEF k
<1> QED BY <1>2, <1>3

\* A restart only adds flags.
LEMMA BootstrapType ==
  ASSUME NEW table \in [Users -> UserRecords]
  PROVE  /\ BootstrapAdmins(table) \in [Users -> UserRecords]
         /\ \A v \in Users : table[v].allowlisted => BootstrapAdmins(table)[v].allowlisted
<1> DEFINE row(u) == IF u \in Admins THEN UpsertUser(table, u, TRUE)[u] ELSE table[u]
<1>1. ASSUME NEW u \in Users
      PROVE  row(u) \in UserRecords /\ (table[u].allowlisted => row(u).allowlisted)
  BY UpsertUserType
<1>2. BootstrapAdmins(table) = [u \in Users |-> row(u)]
  BY DEF BootstrapAdmins
<1> HIDE DEF row
<1> QED BY <1>1, <1>2

\* An install nobody has logged in to.
LEMMA AccountsInitInv == AccountsInit => AccountsInv
<1> SUFFICES ASSUME AccountsInit PROVE AccountsInv
  OBVIOUS
<1> USE DEF AccountsInit
<1>1. [u \in Users |-> [known |-> FALSE, allowlisted |-> FALSE, admin |-> FALSE]] \in [Users -> UserRecords]
  BY DEF UserRecords
<1>2. users \in [Users -> UserRecords]
  BY <1>1, BootstrapType
<1>3. NoCallback \in CallbackRecords /\ NoCallback.state = NoAccount /\ NoCallback.step = "idle"
  BY DEF NoCallback, CallbackRecords
<1>4. NoRemoval \in RemovalRecords /\ NoRemoval.step = "idle"
  BY DEF NoRemoval, RemovalRecords
<1>5. AccountsTypeOK
  BY <1>2, <1>3, <1>4 DEF AccountsTypeOK, UserRecords, CallbackRecords, RemovalRecords
<1> QED BY <1>3, <1>4, <1>5 DEF AccountsInv, OAuthStateSingleUse, StatesSpent, LoginsKnown, RemovalUnderWay

\* A step of one callback that leaves the pending rows alone, and does not
\* start to use a state that it did not hold.
LEMMA CallbackGoes ==
  ASSUME AccountsInv, NEW c \in Callbacks, NEW k \in CallbackRecords,
         callback' = [callback EXCEPT ![c] = k], UNCHANGED <<issued, pending>>,
         \/ k.state = NoAccount
         \/ k.step \in {"read", "refused"} /\ k.state \in issued
         \/ k.state = callback[c].state /\ callback[c].step \notin {"read", "refused"},
         k.step \in {"found", "recorded"} => k.user \in Users
  PROVE  (OAuthStateSingleUse /\ StatesSpent /\ LoginsKnown)' /\ callback' \in [Callbacks -> CallbackRecords]
<1>1. callback \in [Callbacks -> CallbackRecords]
  BY DEF AccountsInv, AccountsTypeOK, CallbackRecords
<1>2. callback' \in [Callbacks -> CallbackRecords] /\ callback'[c] = k
      /\ \A d \in Callbacks : d # c => callback'[d] = callback[d]
  BY <1>1
<1> QED BY <1>1, <1>2 DEF AccountsInv, OAuthStateSingleUse, StatesSpent, LoginsKnown

\* Logins, their states and sessions.
LEMMA LoginKeeps ==
  ASSUME AccountsInv,
         \/ \E s \in OAuthStates : GithubLogin(s) \/ StateExpires(s)
         \/ \E c \in Callbacks : \/ \E s \in OAuthStates : ConsumeRead(c, s)
                                 \/ ConsumeDelete(c) \/ FindLoginUser(c)
                                 \/ RecordGitHubLogin(c) \/ CreateSession(c)
  PROVE  AccountsInv'
<1> USE DEF AccountsInv
<1>0. /\ callback \in [Callbacks -> CallbackRecords] /\ users \in [Users -> UserRecords]
      /\ removal \in RemovalRecords /\ pending \in [OAuthStates -> {"none", "live", "expired"}]
      /\ issued \subseteq OAuthStates /\ sessions \subseteq Users /\ enrolled \subseteq Users
      /\ keyed \in [KeyTenants -> SUBSET Users]
  BY DEF AccountsTypeOK, CallbackRecords, UserRecords, RemovalRecords
<1>1. ASSUME NEW s \in OAuthStates, GithubLogin(s) PROVE AccountsInv'
  BY <1>1, <1>0 DEF GithubLogin, AccountsTypeOK, OAuthStateSingleUse, StatesSpent, LoginsKnown, RemovalUnderWay
<1>2. ASSUME NEW s \in OAuthStates, StateExpires(s) PROVE AccountsInv'
  BY <1>2, <1>0 DEF StateExpires, AccountsTypeOK, OAuthStateSingleUse, StatesSpent, LoginsKnown, RemovalUnderWay
<1>3. ASSUME NEW c \in Callbacks, NEW s \in OAuthStates, ConsumeRead(c, s) PROVE AccountsInv'
  <2>1. UNCHANGED <<users, issued, sessions, enrolled, keyed, removal>>
    BY <1>3 DEF ConsumeRead
  <2>2. RemovalUnderWay'
    BY <2>1 DEF RemovalUnderWay
  <2> DEFINE refused == [NoCallback EXCEPT !.step = "refused"]
             read == [NoCallback EXCEPT !.step = "read", !.state = s]
  <2>3. /\ refused \in CallbackRecords /\ refused.state = NoAccount /\ refused.step = "refused"
        /\ read \in CallbackRecords /\ read.state = s /\ read.step = "read"
    BY DEF NoCallback, CallbackRecords
  <2> HIDE DEF refused, read
  <2>4. \/ UNCHANGED pending /\ callback' = [callback EXCEPT ![c] = refused]
        \/ UNCHANGED pending /\ callback' = [callback EXCEPT ![c] = read]
        \/ pending' = [pending EXCEPT ![s] = "none"] /\ callback' = [callback EXCEPT ![c] = refused]
    BY <1>3 DEF ConsumeRead, refused, read
  <2>5. CASE UNCHANGED pending
    <3>1. s \in issued
      BY <1>3 DEF ConsumeRead
    <3>2. (OAuthStateSingleUse /\ StatesSpent /\ LoginsKnown)' /\ callback' \in [Callbacks -> CallbackRecords]
      <4>1. CASE callback' = [callback EXCEPT ![c] = refused]
        BY <4>1, <2>1, <2>3, <2>5, CallbackGoes
      <4>2. CASE callback' = [callback EXCEPT ![c] = read]
        BY <4>2, <2>1, <2>3, <2>5, <3>1, CallbackGoes
      <4>3. CASE pending' = [pending EXCEPT ![s] = "none"] /\ callback' = [callback EXCEPT ![c] = refused]
        BY <4>3, <4>1
      <4> QED BY <2>4, <4>1, <4>2, <4>3
    <3> QED BY <2>1, <2>2, <2>5, <3>2, <1>0 DEF AccountsTypeOK, CallbackRecords
  <2>6. CASE pending' = [pending EXCEPT ![s] = "none"] /\ callback' = [callback EXCEPT ![c] = refused]
    <3>1. /\ callback' \in [Callbacks -> CallbackRecords] /\ callback'[c] = refused
          /\ \A d \in Callbacks : d # c => callback'[d] = callback[d]
      BY <1>0, <2>3, <2>6
    <3>2. pending' \in [OAuthStates -> {"none", "live", "expired"}]
          /\ \A x \in OAuthStates : pending[x] = "none" => pending'[x] = "none"
      BY <1>0, <2>6
    <3>3. OAuthStateSingleUse' /\ StatesSpent' /\ LoginsKnown'
      BY <3>1, <3>2, <2>1, <2>3, <1>0 DEF OAuthStateSingleUse, StatesSpent, LoginsKnown
    <3> QED BY <2>1, <2>2, <3>1, <3>2, <3>3, <1>0 DEF AccountsTypeOK, CallbackRecords
  <2> QED BY <2>4, <2>5, <2>6
<1>4. ASSUME NEW c \in Callbacks, ConsumeDelete(c) PROVE AccountsInv'
  <2> DEFINE s == callback[c].state
             k == [callback[c] EXCEPT !.step = IF pending[s] = "none" THEN "refused" ELSE "consumed"]
  <2>1. /\ k \in CallbackRecords /\ k.state = s
        /\ k.step = IF pending[s] = "none" THEN "refused" ELSE "consumed"
    BY <1>0 DEF CallbackRecords
  <2>2. /\ UNCHANGED <<users, issued, sessions, enrolled, keyed, removal>>
        /\ pending' = [pending EXCEPT ![s] = "none"]
        /\ callback' = [callback EXCEPT ![c] = k] /\ callback[c].step = "read"
    BY <1>4, <1>0 DEF ConsumeDelete
  <2> HIDE DEF k
  <2>3. /\ callback' \in [Callbacks -> CallbackRecords] /\ callback'[c] = k
        /\ \A d \in Callbacks : d # c => callback'[d] = callback[d]
    BY <1>0, <2>1, <2>2
  <2>4. pending' \in [OAuthStates -> {"none", "live", "expired"}]
        /\ \A x \in OAuthStates : (pending[x] = "none" \/ x = s) => pending'[x] = "none"
    BY <1>0, <2>2
  <2>5. StatesSpent' /\ LoginsKnown'
    BY <2>1, <2>2, <2>3, <2>4, <1>0 DEF StatesSpent, LoginsKnown
  <2>6. OAuthStateSingleUse'
    <3>1. \A d \in Callbacks : d # c /\ callback[d].state = s /\ s # NoAccount /\ pending[s] # "none"
             => callback[d].step \in {"read", "refused"}
      BY DEF StatesSpent
    <3> QED BY <3>1, <2>1, <2>2, <2>3 DEF OAuthStateSingleUse
  <2> QED BY <2>2, <2>3, <2>4, <2>5, <2>6, <1>0 DEF AccountsTypeOK, CallbackRecords, RemovalUnderWay
<1>5. ASSUME NEW c \in Callbacks, FindLoginUser(c) PROVE AccountsInv'
  <2>1. PICK u \in Users :
          callback' = [callback EXCEPT
                         ![c].step = IF users[u].known /\ users[u].allowlisted THEN "found" ELSE "refused",
                         ![c].user = u]
    BY <1>5 DEF FindLoginUser
  <2> DEFINE k == [callback[c] EXCEPT !.step = IF users[u].known /\ users[u].allowlisted THEN "found" ELSE "refused",
                                      !.user = u]
  <2>2. k \in CallbackRecords /\ k.state = callback[c].state /\ k.user = u
    BY <1>0 DEF CallbackRecords
  <2>3. callback' = [callback EXCEPT ![c] = k]
    BY <1>0, <2>1
  <2> HIDE DEF k
  <2>4. callback[c].step = "consumed" /\ UNCHANGED <<users, issued, pending, sessions, enrolled, keyed, removal>>
    BY <1>5 DEF FindLoginUser
  <2>5. (OAuthStateSingleUse /\ StatesSpent /\ LoginsKnown)' /\ callback' \in [Callbacks -> CallbackRecords]
    BY <2>2, <2>3, <2>4, CallbackGoes
  <2> QED BY <2>4, <2>5, <1>0 DEF AccountsTypeOK, CallbackRecords, RemovalUnderWay
<1>6. ASSUME NEW c \in Callbacks, RecordGitHubLogin(c) \/ CreateSession(c) PROVE AccountsInv'
  <2> DEFINE k == [callback[c] EXCEPT !.step = IF callback[c].step = "found" THEN "recorded" ELSE "in"]
  <2>1. /\ k \in CallbackRecords /\ k.state = callback[c].state /\ k.user = callback[c].user
    BY <1>0 DEF CallbackRecords
  <2>2. callback' = [callback EXCEPT ![c] = k] /\ callback[c].step \in {"found", "recorded"}
    BY <1>0, <1>6 DEF RecordGitHubLogin, CreateSession
  <2> HIDE DEF k
  <2>3. callback[c].user \in Users /\ UNCHANGED <<issued, pending, enrolled, keyed, removal>>
    BY <1>6, <2>2 DEF RecordGitHubLogin, CreateSession, LoginsKnown
  <2>4. (OAuthStateSingleUse /\ StatesSpent /\ LoginsKnown)' /\ callback' \in [Callbacks -> CallbackRecords]
    BY <2>1, <2>2, <2>3, CallbackGoes
  <2>5. /\ users' \in [Users -> UserRecords]
        /\ \A v \in Users : users[v].allowlisted => users'[v].allowlisted
        /\ sessions' \subseteq Users
    BY <1>0, <1>6, <2>3, UpsertUserType DEF RecordGitHubLogin, CreateSession
  <2>6. RemovalUnderWay'
    BY <2>3, <2>5 DEF RemovalUnderWay
  <2> QED BY <2>3, <2>4, <2>5, <2>6, <1>0 DEF AccountsTypeOK, CallbackRecords, UserRecords, RemovalRecords
<1> QED BY <1>1, <1>2, <1>3, <1>4, <1>5, <1>6

\* Restarts, sessions, enrolments and the allowlist.
LEMMA AllowlistKeeps ==
  ASSUME AccountsInv,
         \/ AccountsRestart
         \/ \E u \in Users : \/ SessionExpires(u) \/ AdminAllowlist(u) \/ RemoveBegin(u)
                             \/ \E t \in KeyTenants : DeviceEnrolled(u, t)
  PROVE  AccountsInv'
<1> USE DEF AccountsInv
<1>0. /\ callback \in [Callbacks -> CallbackRecords] /\ users \in [Users -> UserRecords]
      /\ removal \in RemovalRecords /\ pending \in [OAuthStates -> {"none", "live", "expired"}]
      /\ issued \subseteq OAuthStates /\ sessions \subseteq Users /\ enrolled \subseteq Users
      /\ keyed \in [KeyTenants -> SUBSET Users]
  BY DEF AccountsTypeOK, CallbackRecords, UserRecords, RemovalRecords
<1>1. CASE AccountsRestart
  <2>1. NoCallback \in CallbackRecords /\ NoCallback.state = NoAccount /\ NoCallback.step = "idle"
    BY DEF NoCallback, CallbackRecords
  <2>2. NoRemoval \in RemovalRecords /\ NoRemoval.step = "idle"
    BY DEF NoRemoval, RemovalRecords
  <2>3. users' \in [Users -> UserRecords]
    BY <1>0, <1>1, BootstrapType DEF AccountsRestart
  <2>4. OAuthStateSingleUse' /\ StatesSpent' /\ LoginsKnown' /\ callback' \in [Callbacks -> CallbackRecords]
    BY <2>1, <1>1 DEF AccountsRestart, OAuthStateSingleUse, StatesSpent, LoginsKnown
  <2>5. RemovalUnderWay'
    BY <2>2, <1>1 DEF AccountsRestart, RemovalUnderWay
  <2> QED BY <1>0, <1>1, <2>2, <2>3, <2>4, <2>5 DEF AccountsRestart, AccountsTypeOK, UserRecords, RemovalRecords, CallbackRecords
<1>2. ASSUME NEW u \in Users, SessionExpires(u) PROVE AccountsInv'
  BY <1>0, <1>2 DEF SessionExpires, AccountsTypeOK, OAuthStateSingleUse, StatesSpent, LoginsKnown, RemovalUnderWay
<1>3. ASSUME NEW u \in Users, AdminAllowlist(u) PROVE AccountsInv'
  <2>1. /\ users' \in [Users -> UserRecords]
        /\ \A v \in Users : users[v].allowlisted => users'[v].allowlisted
    BY <1>0, <1>3, UpsertUserType DEF AdminAllowlist
  <2>2. UNCHANGED <<issued, pending, callback, sessions, enrolled, keyed, removal>>
    BY <1>3 DEF AdminAllowlist
  <2>3. RemovalUnderWay'
    BY <2>1, <2>2 DEF RemovalUnderWay
  <2> QED BY <1>0, <2>1, <2>2, <2>3 DEF AccountsTypeOK, UserRecords, OAuthStateSingleUse, StatesSpent, LoginsKnown
<1>4. ASSUME NEW u \in Users, RemoveBegin(u) PROVE AccountsInv'
  <2>1. users' \in [Users -> UserRecords]
    BY <1>0, <1>4 DEF RemoveBegin, UserRecords
  <2>2. removal' \in RemovalRecords /\ removal'.step = "trust" /\ removal'.user \in Users
    BY <1>4 DEF RemoveBegin, RemovalRecords
  <2>3. UNCHANGED <<issued, pending, callback, sessions, enrolled, keyed>>
    BY <1>4 DEF RemoveBegin
  <2> QED BY <1>0, <2>1, <2>2, <2>3
          DEF AccountsTypeOK, UserRecords, RemovalRecords, OAuthStateSingleUse, StatesSpent, LoginsKnown, RemovalUnderWay
<1>5. ASSUME NEW u \in Users, NEW t \in KeyTenants, DeviceEnrolled(u, t) PROVE AccountsInv'
  <2>1. /\ users[u].allowlisted /\ enrolled' = enrolled \cup {u}
        /\ keyed' \in [KeyTenants -> SUBSET Users]
        /\ \A x \in KeyTenants : keyed'[x] \subseteq keyed[x] \cup {u}
        /\ UNCHANGED <<users, issued, pending, callback, sessions, removal>>
    BY <1>0, <1>5 DEF DeviceEnrolled
  <2>2. RemovalUnderWay'
    BY <1>0, <2>1 DEF RemovalUnderWay, RemovalRecords
  <2> QED BY <1>0, <2>1, <2>2 DEF AccountsTypeOK, OAuthStateSingleUse, StatesSpent, LoginsKnown
<1> QED BY <1>1, <1>2, <1>3, <1>4, <1>5

\* The trust entries and the keys of a removed user.
LEMMA RemovalKeeps ==
  ASSUME AccountsInv, RemoveTrust \/ RemoveKeys
  PROVE  AccountsInv'
<1> USE DEF AccountsInv
<1>0. /\ removal \in RemovalRecords /\ enrolled \subseteq Users /\ keyed \in [KeyTenants -> SUBSET Users]
  BY DEF AccountsTypeOK, RemovalRecords
<1>1. UNCHANGED <<users, issued, pending, callback, sessions>>
  BY DEF RemoveTrust, RemoveKeys
<1>2. OAuthStateSingleUse' /\ StatesSpent' /\ LoginsKnown'
  BY <1>1 DEF OAuthStateSingleUse, StatesSpent, LoginsKnown
<1> DEFINE failed == [NoRemoval EXCEPT !.step = "failed"]
<1>3. failed \in RemovalRecords /\ failed.step = "failed"
  BY DEF NoRemoval, RemovalRecords
<1>4. ASSUME NEW k \in RemovalRecords, removal' = k, k.user = removal.user,
             enrolled' \subseteq enrolled, keyed' \in [KeyTenants -> SUBSET Users],
             \A t \in KeyTenants : keyed'[t] \subseteq keyed[t],
             k.step \in {"trust", "keys"} => k.user \in Users,
             k.step = "keys" => users[k.user].allowlisted \/
                (k.user \notin enrolled' /\ \A t \in KeyTenants \ k.left : k.user \notin keyed'[t])
      PROVE  AccountsInv'
  BY <1>0, <1>1, <1>2, <1>4 DEF AccountsTypeOK, RemovalRecords, RemovalUnderWay
<1>5. CASE removal' = failed /\ UNCHANGED <<enrolled, keyed>>
  BY <1>0, <1>1, <1>2, <1>3, <1>5 DEF AccountsTypeOK, RemovalRecords, RemovalUnderWay
<1> HIDE DEF failed
<1>6. CASE RemoveTrust
  <2> DEFINE k == [removal EXCEPT !.step = "keys", !.left = KeyTenants]
  <2>1. k \in RemovalRecords /\ k.user = removal.user /\ k.left = KeyTenants
    BY <1>0 DEF RemovalRecords
  <2>2. removal.user \in Users
    BY <1>6 DEF RemoveTrust, RemovalUnderWay
  <2>3. \/ removal' = k /\ enrolled' = enrolled \ {removal.user} /\ UNCHANGED keyed
        \/ removal' = failed /\ UNCHANGED <<enrolled, keyed>>
    BY <1>6 DEF RemoveTrust, failed
  <2> HIDE DEF k
  <2> QED BY <1>0, <2>1, <2>2, <2>3, <1>4, <1>5
<1>7. CASE RemoveKeys
  <2>0. removal.step = "keys" /\ removal.user \in Users /\ enrolled' = enrolled
    BY <1>7 DEF RemoveKeys, RemovalUnderWay
  <2>1. ASSUME NEW t \in removal.left, keyed' = [keyed EXCEPT ![t] = @ \ {removal.user}],
               removal' = [removal EXCEPT !.left = @ \ {t}]
        PROVE  AccountsInv'
    <3> DEFINE k == [removal EXCEPT !.left = @ \ {t}]
    <3>1. /\ k \in RemovalRecords /\ k.user = removal.user /\ k.step = "keys" /\ k.left = removal.left \ {t}
          /\ t \in KeyTenants
      BY <1>0, <2>0 DEF RemovalRecords
    <3>2. removal' = k
      BY <2>1
    <3> HIDE DEF k
    <3>3. /\ keyed' \in [KeyTenants -> SUBSET Users] /\ removal.user \notin keyed'[t]
          /\ \A x \in KeyTenants : keyed'[x] \subseteq keyed[x]
      BY <1>0, <2>1, <3>1
    <3>4. users[k.user].allowlisted \/
            (k.user \notin enrolled' /\ \A x \in KeyTenants \ k.left : k.user \notin keyed'[x])
      BY <2>0, <3>1, <3>3 DEF RemovalUnderWay
    <3> QED BY <2>0, <3>1, <3>2, <3>3, <3>4, <1>4
  <2>2. ASSUME removal' = [removal EXCEPT !.step = "ok"], keyed' = keyed
        PROVE  AccountsInv'
    <3> DEFINE k == [removal EXCEPT !.step = "ok"]
    <3>1. k \in RemovalRecords /\ k.user = removal.user /\ k.step = "ok"
      BY <1>0 DEF RemovalRecords
    <3>2. removal' = k
      BY <2>2
    <3> HIDE DEF k
    <3> QED BY <1>0, <2>0, <2>2, <3>1, <3>2, <1>4
  <2>3. \/ \E t \in removal.left : keyed' = [keyed EXCEPT ![t] = @ \ {removal.user}]
                                   /\ removal' = [removal EXCEPT !.left = @ \ {t}]
        \/ removal' = failed /\ keyed' = keyed
        \/ removal' = [removal EXCEPT !.step = "ok"] /\ keyed' = keyed
    BY <1>7 DEF RemoveKeys, failed
  <2> QED BY <2>0, <2>1, <2>2, <2>3, <1>5
<1> QED BY <1>6, <1>7

\* Every step of the accounts keeps the invariant.
LEMMA AccountsStepInv == AccountsInv /\ [AccountsNext]_accountVars => AccountsInv'
<1> SUFFICES ASSUME AccountsInv, [AccountsNext]_accountVars PROVE AccountsInv'
  OBVIOUS
<1>1. CASE UNCHANGED accountVars
  BY <1>1 DEF accountVars, AccountsInv, AccountsTypeOK, OAuthStateSingleUse, StatesSpent, LoginsKnown, RemovalUnderWay
<1>2. CASE AccountsNext
  BY <1>2, LoginKeeps, AllowlistKeeps, RemovalKeeps DEF AccountsNext
<1> QED BY <1>1, <1>2

\* The answer of a removal: the loop has visited every tenant.
LEMMA RemovalAnswers ==
  ASSUME AccountsInv, [AccountsNext]_accountVars, removal.step # "ok", removal'.step = "ok"
  PROVE  \/ users[removal.user].allowlisted
         \/ /\ removal.user \notin enrolled'
            /\ \A t \in KeyTenants : removal.user \notin keyed'[t]
<1>0. removal \in RemovalRecords
  BY DEF AccountsInv, AccountsTypeOK, RemovalRecords
<1>1. ~(UNCHANGED removal)
  OBVIOUS
<1>2. NoRemoval.step = "idle" /\ [NoRemoval EXCEPT !.step = "failed"].step = "failed"
  BY DEF NoRemoval
<1>3. RemoveKeys
  <2>1. AccountsRestart \/ RemoveTrust \/ RemoveKeys \/ \E u \in Users : RemoveBegin(u)
    BY <1>1 DEF AccountsNext, accountVars, GithubLogin, StateExpires, ConsumeRead, ConsumeDelete, FindLoginUser,
                RecordGitHubLogin, CreateSession, SessionExpires, AdminAllowlist, DeviceEnrolled
  <2>2. ~AccountsRestart
    BY <1>2 DEF AccountsRestart
  <2>3. ~RemoveTrust
    BY <1>0, <1>2 DEF RemoveTrust, RemovalRecords
  <2>4. \A u \in Users : ~RemoveBegin(u)
    BY DEF RemoveBegin
  <2> QED BY <2>1, <2>2, <2>3, <2>4
<1>4. removal.step = "keys" /\ removal.left = {} /\ keyed' = keyed /\ enrolled' = enrolled
  BY <1>0, <1>2, <1>3 DEF RemoveKeys, RemovalRecords
<1> QED BY <1>4 DEF AccountsInv, RemovalUnderWay

(* A user who was removed keeps nothing, and a login link is good for one  *)
(* login, for any number of users, callbacks, states and tenants, whatever *)
(* call fails and wherever the Auth App restarts (adminAllowlistRemove,    *)
(* consumeOAuthState).                                                     *)
THEOREM AccountsAreSound == AccountsSpec => AccountsSound
<1>1. AccountsSpec => []AccountsInv
  BY AccountsInitInv, AccountsStepInv, PTL DEF AccountsSpec
<1>2. AccountsInv => OAuthStateSingleUse
  BY DEF AccountsInv
<1>3. AccountsInv /\ [AccountsNext]_accountVars
        => [(removal.step # "ok" /\ removal'.step = "ok")
             => \/ users[removal.user].allowlisted
                \/ /\ removal.user \notin enrolled'
                   /\ \A t \in KeyTenants : removal.user \notin keyed'[t]]_accountVars
  BY RemovalAnswers
<1> QED BY <1>1, <1>2, <1>3, PTL DEF AccountsSpec, AccountsSound, RemovalComplete

-----------------------------------------------------------------------------
(* Workload tokens                                                         *)

Asked == [op : {"none", "enable", "mint", "jwks"},
          step : {"idle", "check", "active", "encread", "encstore", "insert",
                  "store", "deliver", "sign", "ok", "refused", "undecryptable"},
          machine : TokenMachines \cup {NoKey}, mine : FreshKeys \cup {NoKey},
          key : FreshKeys \cup {NoKey}, secret : 0..MaxEnables]

\* Rows are numbered as they are inserted and encrypted with the stored key.
RowsOrdered ==
    /\ IsFiniteSet(DOMAIN signing)
    /\ \A k \in DOMAIN signing :
          signing[k].enc = encKey /\ signing[k].at < Cardinality(DOMAIN signing)

\* There is a newest row as soon as there is a row.
HasNewest ==
    signing = << >> \/ \E k \in DOMAIN signing : \A j \in DOMAIN signing : signing[j].at <= signing[k].at

\* A request that draws, inserts or signs: what it carries was stored, or will
\* be dropped for what is.
Carries(q) ==
    /\ q.step # "idle" => q.op # "none"
    /\ q.step = "encstore" => q.mine # NoKey
    /\ q.step = "insert" => q.mine = encKey /\ encKey # NoKey
    /\ q.step = "sign" => q.key \in DOMAIN signing
    /\ q.step # "undecryptable"

TokensInv ==
    /\ TokensTypeOK
    /\ RowsOrdered
    /\ HasNewest
    /\ \A r \in TokenRequests : Carries(treq[r])

\* An install that has served nobody.
LEMMA TokensInitInv == TokensInit => TokensInv
<1> SUFFICES ASSUME TokensInit PROVE TokensInv
  OBVIOUS
<1> USE DEF TokensInit
<1>1. DOMAIN signing = {}
  OBVIOUS
<1>2. NoRequest \in Asked
  BY TokensAssumption DEF NoRequest, Asked, TokensAssumption
<1>3. treq \in [TokenRequests -> Asked]
  BY <1>2
<1>4. verifier \in [TokenMachines -> 0..MaxEnables] /\ holds \in [TokenMachines -> 0..MaxEnables]
      /\ enables \in 0..MaxEnables
  BY TokensAssumption DEF TokensAssumption
<1>5. TokensTypeOK
  BY <1>1, <1>3, <1>4 DEF TokensTypeOK, Asked
<1>6. RowsOrdered /\ HasNewest
  BY <1>1, FS_EmptySet DEF RowsOrdered, HasNewest
<1>7. \A r \in TokenRequests : Carries(treq[r])
  BY DEF Carries, NoRequest
<1> QED BY <1>5, <1>6, <1>7 DEF TokensInv

\* The request that moves becomes q, the others are left alone.
Becomes(r, q) == q \in Asked /\ treq' = [treq EXCEPT ![r] = q]

\* A step of a request that writes none of the keys.
LEMMA KeysKept ==
  ASSUME TokensInv, NEW r \in TokenRequests, NEW q, Becomes(r, q), Carries(q),
         UNCHANGED <<encKey, signing>>,
         machines' \subseteq TokenMachines, configs' \subseteq CloudConfigs,
         verifier' \in [TokenMachines -> 0..MaxEnables], holds' \in [TokenMachines -> 0..MaxEnables],
         enables' \in 0..MaxEnables, tokens' \subseteq FreshKeys
  PROVE  TokensInv'
<1>1. treq \in [TokenRequests -> Asked]
  BY DEF TokensInv, TokensTypeOK, Asked
<1>2. treq' \in [TokenRequests -> Asked] /\ \A s \in TokenRequests : Carries(treq'[s])
  BY <1>1 DEF Becomes, TokensInv
<1>3. TokensTypeOK'
  BY <1>2 DEF TokensInv, TokensTypeOK, Asked
<1>4. RowsOrdered' /\ HasNewest'
  BY DEF TokensInv, RowsOrdered, HasNewest
<1>5. \A s \in TokenRequests : Carries(treq[s])'
  BY <1>2 DEF Carries
<1> QED BY <1>3, <1>4, <1>5 DEF TokensInv

\* The newest row is a row.
LEMMA NewestIsRow ==
  ASSUME TokensInv, signing # << >>
  PROVE  Newest \in DOMAIN signing
  BY DEF TokensInv, HasNewest, Newest

\* A request moves on and keeps what it carries.
LEMMA GoesTo ==
  ASSUME TokensInv, NEW r \in TokenRequests, NEW step, TokenGoes(r, step),
         step \in {"idle", "check", "active", "encread", "encstore", "insert",
                   "store", "deliver", "sign", "ok", "refused", "undecryptable"}
  PROVE  LET q == [treq[r] EXCEPT !.step = step] IN
           /\ Becomes(r, q) /\ q.step = step
           /\ q.op = treq[r].op /\ q.mine = treq[r].mine /\ q.key = treq[r].key
<1>1. treq[r] \in Asked /\ treq \in [TokenRequests -> Asked]
  BY DEF TokensInv, TokensTypeOK, Asked
<1>2. [treq[r] EXCEPT !.step = step] \in Asked
  BY <1>1 DEF Asked
<1>3. treq' = [treq EXCEPT ![r] = [treq[r] EXCEPT !.step = step]]
  BY <1>1 DEF TokenGoes
<1> QED BY <1>1, <1>2, <1>3 DEF Becomes, Asked

\* The first user's INSERT: no row and no request refers to a key yet.
LEMMA KeyStored ==
  ASSUME TokensInv, NEW r \in TokenRequests, EncStore(r)
  PROVE  TokensInv'
<1> DEFINE q == [treq[r] EXCEPT !.step = "encread"]
<1>1. /\ Becomes(r, q) /\ q.step = "encread" /\ q.op = treq[r].op
      /\ treq \in [TokenRequests -> Asked] /\ Carries(treq[r]) /\ treq[r].step = "encstore"
  BY GoesTo DEF EncStore, TokensInv, TokensTypeOK, Asked
<1>2. UNCHANGED <<signing, machines, verifier, holds, enables, configs, tokens>>
  BY DEF EncStore
<1>3. CASE encKey # NoKey
  <2>1. encKey' = encKey
    BY <1>3 DEF EncStore
  <2>2. Carries(q)
    BY <1>1 DEF Carries
  <2> HIDE DEF q
  <2> QED BY <1>1, <1>2, <2>1, <2>2, KeysKept DEF TokensInv, TokensTypeOK
<1>4. CASE encKey = NoKey
  <2>1. encKey' \in FreshKeys
    BY <1>1, <1>4 DEF EncStore, Carries, Asked
  <2>2. DOMAIN signing = {}
    BY <1>4, TokensAssumption DEF TokensInv, RowsOrdered, TokensTypeOK, SigningRow, TokensAssumption
  <2>3. \A s \in TokenRequests : treq'[s] = (IF s = r THEN q ELSE treq[s])
    BY <1>1 DEF Becomes
  <2>4. treq' \in [TokenRequests -> Asked]
    BY <1>1 DEF Becomes
  <2>5. TokensTypeOK'
    BY <1>2, <2>1, <2>2, <2>4 DEF TokensInv, TokensTypeOK, Asked
  <2>6. RowsOrdered' /\ HasNewest'
    BY <1>2, <2>2 DEF TokensInv, RowsOrdered, HasNewest
  <2>7. \A s \in TokenRequests : Carries(treq[s])'
    BY <1>1, <1>2, <1>4, <2>3 DEF TokensInv, Carries
  <2> QED BY <2>5, <2>6, <2>7 DEF TokensInv
<1> QED BY <1>3, <1>4

\* One more signing row: encrypted with the stored key, and the newest.
LEMMA RowInserted ==
  ASSUME TokensInv, NEW r \in TokenRequests, SigningInsert(r)
  PROVE  TokensInv'
<1> DEFINE n == Cardinality(DOMAIN signing)
           q == [treq[r] EXCEPT !.step = "active", !.mine = NoKey]
<1>1. PICK k \in FreshKeys \ Drawn :
        /\ signing' = [j \in DOMAIN signing \cup {k} |->
                         IF j = k THEN [enc |-> treq[r].mine, at |-> n] ELSE signing[j]]
        /\ treq' = [treq EXCEPT ![r].step = "active", ![r].mine = NoKey]
  BY DEF SigningInsert
<1>2. /\ treq \in [TokenRequests -> Asked] /\ treq[r].step = "insert" /\ treq[r] \in Asked
      /\ UNCHANGED <<encKey, machines, verifier, holds, enables, configs, tokens>>
  BY DEF SigningInsert, TokensInv, TokensTypeOK, Asked
<1>3. treq[r].mine = encKey /\ encKey \in FreshKeys /\ treq[r].op # "none"
  BY <1>2 DEF TokensInv, Carries, TokensTypeOK
<1>4. k \notin DOMAIN signing
  BY <1>1 DEF Drawn
<1>5. /\ n \in Nat /\ IsFiniteSet(DOMAIN signing \cup {k})
      /\ Cardinality(DOMAIN signing \cup {k}) = n + 1
  BY <1>4, FS_CardinalityType, FS_AddElement DEF TokensInv, RowsOrdered
<1>6. DOMAIN signing' = DOMAIN signing \cup {k}
  BY <1>1
<1>7. /\ signing'[k] = [enc |-> encKey, at |-> n]
      /\ \A j \in DOMAIN signing : signing'[j] = signing[j]
  BY <1>1, <1>3, <1>4
<1> HIDE DEF n
<1>8. \A j \in DOMAIN signing : signing[j].enc = encKey /\ signing[j].at < n /\ signing[j].at \in Nat
  BY DEF TokensInv, RowsOrdered, TokensTypeOK, SigningRow, n
<1>9. RowsOrdered'
  <2>1. IsFiniteSet(DOMAIN signing') /\ Cardinality(DOMAIN signing') = n + 1
    BY <1>5, <1>6
  <2>2. \A j \in DOMAIN signing' : signing'[j].enc = encKey /\ signing'[j].at < n + 1
    BY <1>5, <1>6, <1>7, <1>8
  <2> QED BY <1>2, <2>1, <2>2 DEF RowsOrdered
<1>10. HasNewest'
  <2>1. \A j \in DOMAIN signing' : signing'[j].at <= signing'[k].at
    BY <1>5, <1>6, <1>7, <1>8
  <2> QED BY <1>6, <2>1 DEF HasNewest
<1>11. q \in Asked /\ q.step = "active" /\ q.op = treq[r].op
  BY <1>2 DEF Asked
<1>12. treq' = [treq EXCEPT ![r] = q]
  BY <1>1, <1>2 DEF Asked
<1>13. treq' \in [TokenRequests -> Asked] /\ \A s \in TokenRequests : treq'[s] = (IF s = r THEN q ELSE treq[s])
  BY <1>2, <1>11, <1>12
<1> HIDE DEF q
<1>14. TokensTypeOK'
  <2>1. DOMAIN signing' \subseteq FreshKeys /\ \A j \in DOMAIN signing' : signing'[j] \in SigningRow
    BY <1>1, <1>3, <1>5, <1>6, <1>7 DEF TokensInv, TokensTypeOK, SigningRow
  <2> QED BY <1>2, <1>13, <2>1 DEF TokensInv, TokensTypeOK, Asked
<1>15. \A s \in TokenRequests : Carries(treq[s])'
  BY <1>2, <1>3, <1>6, <1>11, <1>13 DEF TokensInv, Carries
<1> QED BY <1>9, <1>10, <1>14, <1>15 DEF TokensInv

\* A request that begins.
LEMMA RequestBegun ==
  ASSUME TokensInv, NEW r \in TokenRequests, TokenBegin(r)
  PROVE  TokensInv'
<1>1. PICK q : /\ treq' = [treq EXCEPT ![r] = q]
               /\ q \in Asked /\ q.op # "none" /\ q.step \in {"active", "refused", "check"}
  <2>0. 0 \in 0..MaxEnables
    BY TokensAssumption DEF TokensAssumption
  <2>2. ASSUME NEW m \in TokenMachines, NEW step \in {"active", "refused"}
        PROVE  LET q == [NoRequest EXCEPT !.op = "enable", !.machine = m, !.step = step] IN
                 q \in Asked /\ q.op # "none" /\ q.step = step
    BY <2>0 DEF Asked, NoRequest
  <2>3. LET q == [NoRequest EXCEPT !.op = "jwks", !.step = "active"] IN
          q \in Asked /\ q.op # "none" /\ q.step = "active"
    BY <2>0 DEF Asked, NoRequest
  <2>4. \A m \in TokenMachines : holds[m] \in 0..MaxEnables
    BY DEF TokensInv, TokensTypeOK
  <2>5. CASE \E m \in TokenMachines, c \in CloudConfigs \cup {NoKey} :
               treq' = [treq EXCEPT ![r] =
                          [NoRequest EXCEPT !.op = "enable", !.machine = m,
                             !.step = IF m \in machines /\ c \in configs \cup {NoKey}
                                      THEN "active" ELSE "refused"]]
    BY <2>2, <2>5
  <2>6. CASE \E m \in TokenMachines :
               treq' = [treq EXCEPT ![r] =
                          [NoRequest EXCEPT !.op = "mint", !.machine = m, !.secret = holds[m],
                             !.step = IF verifier[m] = holds[m] THEN "check" ELSE "refused"]]
    <3>1. PICK m \in TokenMachines :
            treq' = [treq EXCEPT ![r] =
                       [NoRequest EXCEPT !.op = "mint", !.machine = m, !.secret = holds[m],
                          !.step = IF verifier[m] = holds[m] THEN "check" ELSE "refused"]]
      BY <2>6
    <3> DEFINE step == IF verifier[m] = holds[m] THEN "check" ELSE "refused"
               q == [NoRequest EXCEPT !.op = "mint", !.machine = m, !.secret = holds[m], !.step = step]
    <3>2. step \in {"active", "refused", "check"} /\ treq' = [treq EXCEPT ![r] = q]
      BY <3>1
    <3> HIDE DEF step
    <3>3. q \in Asked /\ q.op # "none" /\ q.step = step
      BY <2>4, <3>2 DEF Asked, NoRequest
    <3> QED BY <3>2, <3>3
  <2>7. CASE treq' = [treq EXCEPT ![r] = [NoRequest EXCEPT !.op = "jwks", !.step = "active"]]
    BY <2>3, <2>7
  <2> QED BY <2>5, <2>6, <2>7 DEF TokenBegin
<1>2. Becomes(r, q) /\ Carries(q)
  BY <1>1 DEF Becomes, Carries
<1> QED BY <1>2, KeysKept DEF TokenBegin, TokensInv, TokensTypeOK

\* No step stores a key another one has drawn over, or signs with a row it
\* cannot decrypt.
LEMMA TokensNextInv == TokensInv /\ [TokensNext]_tokenVars => TokensInv'
<1> SUFFICES ASSUME TokensInv, [TokensNext]_tokenVars PROVE TokensInv'
  OBVIOUS
<1>0. TokensTypeOK /\ treq \in [TokenRequests -> Asked] /\ \A r \in TokenRequests : Carries(treq[r])
  BY DEF TokensInv, TokensTypeOK, Asked
<1>1. ASSUME UNCHANGED <<encKey, signing, treq>>, TokensTypeOK' PROVE TokensInv'
  BY <1>1 DEF TokensInv, RowsOrdered, HasNewest, Carries
<1>2. ASSUME NEW m \in TokenMachines, MachineComesAndGoes(m) PROVE TokensInv'
  <2>1. holds' \in [TokenMachines -> 0..MaxEnables]
    BY <1>0, <1>2, TokensAssumption DEF MachineComesAndGoes, TokensTypeOK, TokensAssumption
  <2>2. TokensTypeOK'
    BY <1>0, <1>2, <2>1 DEF MachineComesAndGoes, TokensTypeOK
  <2> QED BY <1>1, <1>2, <2>2 DEF MachineComesAndGoes
<1>3. ASSUME NEW n \in CloudConfigs, CloudConfigChange(n) PROVE TokensInv'
  <2>1. TokensTypeOK'
    BY <1>0, <1>3 DEF CloudConfigChange, TokensTypeOK
  <2> QED BY <1>1, <1>3, <2>1 DEF CloudConfigChange
<1>4. CASE UNCHANGED tokenVars
  <2>1. TokensTypeOK'
    BY <1>0, <1>4 DEF tokenVars, TokensTypeOK
  <2> QED BY <1>1, <1>4, <2>1 DEF tokenVars
<1>5. ASSUME NEW r \in TokenRequests, MintCheck(r) PROVE TokensInv'
  <2> DEFINE step == IF treq[r].machine \in machines THEN "active" ELSE "refused"
             q == [treq[r] EXCEPT !.step = step]
  <2>1. Becomes(r, q) /\ q.step = step /\ q.op = treq[r].op
    BY <1>5, GoesTo DEF MintCheck
  <2>2. Carries(q)
    BY <1>0, <1>5, <2>1 DEF MintCheck, Carries
  <2> HIDE DEF q
  <2> QED BY <1>0, <1>5, <2>1, <2>2, KeysKept DEF MintCheck, TokensTypeOK
<1>6. ASSUME NEW r \in TokenRequests, EnsureActive(r) PROVE TokensInv'
  <2> DEFINE step == IF signing = << >> THEN "encread" ELSE AfterKey(r)
             key == IF signing = << >> THEN NoKey ELSE Newest
             q == [treq[r] EXCEPT !.step = step, !.key = key]
  <2>1. treq[r] \in Asked /\ treq[r].step = "active" /\ treq[r].op # "none"
    BY <1>0, <1>6 DEF EnsureActive, Carries
  <2>2. step \in {"encread", "store", "sign", "ok"}
    BY <2>1 DEF AfterKey, Asked
  <2>3. key \in FreshKeys \cup {NoKey} /\ (step = "sign" => key \in DOMAIN signing)
    BY <1>0, NewestIsRow DEF TokensTypeOK
  <2>4. treq' = [treq EXCEPT ![r].step = step, ![r].key = key]
    BY <1>6 DEF EnsureActive
  <2> HIDE DEF step, key
  <2>5. q \in Asked /\ q.step = step /\ q.key = key /\ q.op = treq[r].op
    BY <2>1, <2>2, <2>3 DEF Asked
  <2>6. treq' = [treq EXCEPT ![r] = q]
    BY <1>0, <2>4 DEF Asked
  <2> HIDE DEF q
  <2>7. Becomes(r, q) /\ Carries(q)
    BY <2>1, <2>2, <2>3, <2>5, <2>6 DEF Becomes, Carries
  <2> QED BY <1>0, <1>6, <2>7, KeysKept DEF EnsureActive, TokensTypeOK
<1>7. ASSUME NEW r \in TokenRequests, EncRead(r) PROVE TokensInv'
  <2>1. treq[r] \in Asked /\ treq[r].op # "none"
    BY <1>0, <1>7 DEF EncRead, Carries
  <2>2. ASSUME NEW step \in {"insert", "encstore"}, NEW k \in FreshKeys,
               treq' = [treq EXCEPT ![r].step = step, ![r].mine = k],
               step = "insert" => k = encKey
        PROVE  TokensInv'
    <3> DEFINE q == [treq[r] EXCEPT !.step = step, !.mine = k]
    <3>1. q \in Asked /\ q.step = step /\ q.mine = k /\ q.op = treq[r].op
      BY <2>1 DEF Asked
    <3>2. treq' = [treq EXCEPT ![r] = q]
      BY <1>0, <2>2 DEF Asked
    <3> HIDE DEF q
    <3>3. Becomes(r, q) /\ Carries(q)
      BY <2>1, <2>2, <3>1, <3>2, TokensAssumption DEF Becomes, Carries, TokensAssumption
    <3> QED BY <1>0, <1>7, <3>3, KeysKept DEF EncRead, TokensTypeOK
  <2> QED BY <1>0, <1>7, <2>2 DEF EncRead, TokensTypeOK
<1>8. ASSUME NEW r \in TokenRequests, EnableStore(r) PROVE TokensInv'
  <2> DEFINE q == [treq[r] EXCEPT !.step = "deliver", !.secret = enables + 1]
  <2>1. treq[r] \in Asked /\ treq[r].op # "none"
    BY <1>0, <1>8 DEF EnableStore, Carries
  <2>2. enables + 1 \in 0..MaxEnables
    BY <1>0, <1>8, TokensAssumption DEF EnableStore, TokensTypeOK, TokensAssumption
  <2>3. q \in Asked /\ q.step = "deliver" /\ q.op = treq[r].op
    BY <2>1, <2>2 DEF Asked
  <2>4. treq' = [treq EXCEPT ![r] = q]
    BY <1>0, <1>8 DEF EnableStore, Asked
  <2>5. verifier' \in [TokenMachines -> 0..MaxEnables]
    BY <1>0, <1>8, <2>2 DEF EnableStore, TokensTypeOK
  <2> HIDE DEF q
  <2>6. Becomes(r, q) /\ Carries(q)
    BY <2>1, <2>3, <2>4 DEF Becomes, Carries
  <2> QED BY <1>0, <1>8, <2>2, <2>5, <2>6, KeysKept DEF EnableStore, TokensTypeOK
<1>9. ASSUME NEW r \in TokenRequests, SecretDelivered(r) PROVE TokensInv'
  <2> DEFINE q == [treq[r] EXCEPT !.step = "ok"]
  <2>1. Becomes(r, q) /\ q.step = "ok" /\ q.op = treq[r].op
    BY <1>9, GoesTo DEF SecretDelivered
  <2>2. Carries(q)
    BY <1>0, <1>9, <2>1 DEF SecretDelivered, Carries
  <2> HIDE DEF q
  <2>3. holds' \in [TokenMachines -> 0..MaxEnables]
    <3> DEFINE v == IF treq[r].machine \notin machines THEN 0 ELSE treq[r].secret
    <3>1. v \in 0..MaxEnables
      BY <1>0, TokensAssumption DEF Asked, TokensAssumption
    <3>2. holds' = [holds EXCEPT ![treq[r].machine] = v]
      BY <1>9 DEF SecretDelivered
    <3> HIDE DEF v
    <3> QED BY <1>0, <3>1, <3>2 DEF TokensTypeOK
  <2> QED BY <1>0, <1>9, <2>1, <2>2, <2>3, KeysKept DEF SecretDelivered, TokensTypeOK
<1>10. ASSUME NEW r \in TokenRequests, MintSign(r) PROVE TokensInv'
  <2> DEFINE q == [treq[r] EXCEPT !.step = "ok"]
  <2>1. treq[r].key \in DOMAIN signing /\ treq[r].op # "none"
    BY <1>0, <1>10 DEF MintSign, Carries
  <2>2. signing[treq[r].key].enc = encKey
    BY <2>1 DEF TokensInv, RowsOrdered
  <2>3. TokenGoes(r, "ok") /\ tokens' = tokens \cup {treq[r].key}
    BY <1>10, <2>2 DEF MintSign
  <2>4. Becomes(r, q) /\ q.step = "ok" /\ q.op = treq[r].op
    BY <2>3, GoesTo
  <2>5. Carries(q)
    BY <2>1, <2>4 DEF Carries
  <2> HIDE DEF q
  <2>6. tokens' \subseteq FreshKeys
    BY <1>0, <2>1, <2>3 DEF TokensTypeOK
  <2> QED BY <1>0, <1>10, <2>4, <2>5, <2>6, KeysKept DEF MintSign, TokensTypeOK
<1> QED
  BY <1>2, <1>3, <1>4, <1>5, <1>6, <1>7, <1>8, <1>9, <1>10, KeyStored, RowInserted, RequestBegun
     DEF TokensNext

\* "two racing first users converge on one key" (secrets.go), for any number
\* of first users: every signing key row can be decrypted with the stored key,
\* and no mint finds one that cannot.
THEOREM RacingFirstUsersConverge == TokensSpec => []FirstUsersConverge
<1>1. TokensInv => FirstUsersConverge
  BY DEF TokensInv, RowsOrdered, Carries, FirstUsersConverge
<1> QED BY <1>1, TokensInitInv, TokensNextInv, PTL DEF TokensSpec

-----------------------------------------------------------------------------
(* Tenant members                                                          *)

MemberFields == {"op", "subject", "step", "plan", "list", "config", "alone"}
MemberTransition == {"scope", "extend", "read", "etag", "update", "render", "machines"}
MemberEnds == {"idle", "ok", "failed"}

\* A request is at a step of its operation.
RequestFits(j) ==
  /\ DOMAIN j = MemberFields
  /\ \/ j.step \in MemberEnds
     \/ j.op \in {"grant", "revoke"} /\ j.subject \in Members /\ j.step \in MemberTransition
     \/ j.op \in {"addkey", "rmkey"} /\ j.subject \in OwnKeys /\ j.step \in {"etag", "update", "render"}
     \/ j.op = "login" /\ j.subject \in Members /\ j.step \in {"render", "machines"}
     \/ j.op = "create" /\ j.step \in {"machines", "others"}

\* What a grant or a revoke that nobody overlapped has reached at its step.
RequestReached(j) ==
  LET u == j.subject
      granting == j.op = "grant"
      after(steps) == j.step \in steps
  IN  /\ after({"scope", "extend"}) => j.plan = apps
      /\ after({"extend"}) => j.list = scope[u]
      /\ after({"read", "etag", "update", "render", "machines"}) =>
           IF granting THEN apps \subseteq scope[u] ELSE scope[u] \cap apps = {}
      /\ after({"etag", "update"}) => (u \in j.list <=> granting)
      /\ after({"update", "render"}) => j.config = infra
      /\ after({"render", "machines"}) => (u \in infra.members <=> granting)
      /\ after({"machines"}) => (u \in profiles <=> granting)

MembersInv ==
  /\ scope = [u \in Members |-> scope[u]] /\ mreq = [r \in MemberRequests |-> mreq[r]]
  /\ infra.keys # {}
  /\ \A r \in MemberRequests : RequestFits(mreq[r])
  /\ \A r, s \in MemberRequests : Busy(r) /\ mreq[r].alone /\ Busy(s) => r = s
  /\ \A r \in MemberRequests :
       Busy(r) /\ mreq[r].alone /\ mreq[r].op \in {"grant", "revoke"} => RequestReached(mreq[r])

\* Which step comes next.
LEMMA NextStep ==
  ASSUME NEW s, NEW n \in Nat, s = [i \in 1 .. n |-> s[i]], NEW k \in 1 .. n, \A i \in 1 .. n : s[i] = s[k] => i = k
  PROVE  s[(CHOOSE i \in DOMAIN s : s[i] = s[k]) + 1] = s[k + 1]
<1>1. DOMAIN s = 1 .. n
  OBVIOUS
<1>2. (CHOOSE i \in DOMAIN s : s[i] = s[k]) = k
  BY <1>1
<1> QED BY <1>2

LEMMA StepsInOrder ==
  ASSUME NEW r
  PROVE  /\ Op(r, {"grant", "revoke"}) =>
              /\ mreq[r].step = "scope" => StepAfter(r) = "extend"
              /\ mreq[r].step = "extend" => StepAfter(r) = "read"
              /\ mreq[r].step = "read" => StepAfter(r) = "etag"
              /\ mreq[r].step = "etag" => StepAfter(r) = "update"
              /\ mreq[r].step = "update" => StepAfter(r) = "render"
              /\ mreq[r].step = "render" => StepAfter(r) = "machines"
         /\ Op(r, {"addkey", "rmkey"}) =>
              /\ mreq[r].step = "etag" => StepAfter(r) = "update"
              /\ mreq[r].step = "update" => StepAfter(r) = "render"
         /\ Op(r, {"login"}) /\ mreq[r].step = "render" => StepAfter(r) = "machines"
         /\ Op(r, {"create"}) /\ mreq[r].step = "machines" => StepAfter(r) = "others"
<1>1. CASE Op(r, {"grant", "revoke"})
  <2>1. PICK s : s = <<"scope", "extend", "read", "etag", "update", "render", "machines", "ok">>
    OBVIOUS
  <2>2. StepsOf(mreq[r].op) = s
    BY <1>1, <2>1 DEF StepsOf, Op
  <2>3. s = [i \in 1 .. 8 |-> s[i]] /\ \A i, j \in 1 .. 8 : s[i] = s[j] => i = j
    BY <2>1
  <2>4. \A i \in 1 .. 7 : mreq[r].step = s[i] => StepAfter(r) = s[i + 1]
    BY <2>2, <2>3, NextStep DEF StepAfter
  <2> QED BY <1>1, <2>1, <2>4 DEF Op
<1>2. CASE Op(r, {"addkey", "rmkey"})
  <2>1. PICK s : s = <<"etag", "update", "render", "ok">>
    OBVIOUS
  <2>2. StepsOf(mreq[r].op) = s
    BY <1>2, <2>1 DEF StepsOf, Op
  <2>3. s = [i \in 1 .. 4 |-> s[i]] /\ \A i, j \in 1 .. 4 : s[i] = s[j] => i = j
    BY <2>1
  <2>4. \A i \in 1 .. 3 : mreq[r].step = s[i] => StepAfter(r) = s[i + 1]
    BY <2>2, <2>3, NextStep DEF StepAfter
  <2> QED BY <1>2, <2>1, <2>4 DEF Op
<1>3. CASE Op(r, {"login"})
  <2>1. PICK s : s = <<"render", "machines", "ok">>
    OBVIOUS
  <2>2. StepsOf(mreq[r].op) = s
    BY <1>3, <2>1 DEF StepsOf, Op
  <2>3. s = [i \in 1 .. 3 |-> s[i]] /\ \A i, j \in 1 .. 3 : s[i] = s[j] => i = j
    BY <2>1
  <2>4. \A i \in 1 .. 2 : mreq[r].step = s[i] => StepAfter(r) = s[i + 1]
    BY <2>2, <2>3, NextStep DEF StepAfter
  <2> QED BY <1>3, <2>1, <2>4 DEF Op
<1>4. CASE Op(r, {"create"})
  <2>1. PICK s : s = <<"machines", "others", "ok">>
    OBVIOUS
  <2>2. StepsOf(mreq[r].op) = s
    BY <1>4, <2>1 DEF StepsOf, Op
  <2>3. s = [i \in 1 .. 3 |-> s[i]] /\ \A i, j \in 1 .. 3 : s[i] = s[j] => i = j
    BY <2>1
  <2>4. \A i \in 1 .. 2 : mreq[r].step = s[i] => StepAfter(r) = s[i + 1]
    BY <2>2, <2>3, NextStep DEF StepAfter
  <2> QED BY <1>4, <2>1, <2>4 DEF Op
<1> QED BY <1>1, <1>2, <1>3, <1>4 DEF Op

\* The request after it moved on.
LEMMA RequestGoes ==
  ASSUME MembersInv, NEW r \in MemberRequests, NEW fields, Goes(r, fields)
  PROVE  \E k : /\ mreq' = [mreq EXCEPT ![r] = k] /\ DOMAIN k = MemberFields
                /\ \A f \in MemberFields :
                     k[f] = IF f \in DOMAIN fields THEN fields[f]
                            ELSE IF f = "step" THEN StepAfter(r) ELSE mreq[r][f]
<1>1. DOMAIN mreq[r] = MemberFields
  BY DEF MembersInv, RequestFits
<1> DEFINE k == [f \in MemberFields |-> IF f \in DOMAIN fields THEN fields[f]
                                        ELSE IF f = "step" THEN StepAfter(r) ELSE mreq[r][f]]
<1>2. mreq' = [mreq EXCEPT ![r] = k]
  BY <1>1 DEF Goes, MembersInv
<1>3. /\ DOMAIN k = MemberFields
      /\ \A f \in MemberFields : k[f] = IF f \in DOMAIN fields THEN fields[f]
                                        ELSE IF f = "step" THEN StepAfter(r) ELSE mreq[r][f]
  OBVIOUS
<1> HIDE DEF k
<1> QED BY <1>2, <1>3

\* With nothing new to carry, and with a list or a config.
LEMMA RequestGoesOn ==
  ASSUME MembersInv, NEW r \in MemberRequests, Goes(r, << >>)
  PROVE  \E k : /\ mreq' = [mreq EXCEPT ![r] = k] /\ DOMAIN k = MemberFields
                /\ k.op = mreq[r].op /\ k.subject = mreq[r].subject /\ k.plan = mreq[r].plan
                /\ k.alone = mreq[r].alone /\ k.step = StepAfter(r)
                /\ k.list = mreq[r].list /\ k.config = mreq[r].config
<1>1. PICK x : x = << >> /\ DOMAIN x = {}
  OBVIOUS
<1>2. Goes(r, x)
  BY <1>1
<1>3. PICK k : /\ mreq' = [mreq EXCEPT ![r] = k] /\ DOMAIN k = MemberFields
               /\ \A f \in MemberFields : k[f] = IF f = "step" THEN StepAfter(r) ELSE mreq[r][f]
  BY <1>1, <1>2, RequestGoes
<1> QED BY <1>3 DEF MemberFields

LEMMA RequestGoesWithList ==
  ASSUME MembersInv, NEW r \in MemberRequests, NEW x, Goes(r, [list |-> x])
  PROVE  \E k : /\ mreq' = [mreq EXCEPT ![r] = k] /\ DOMAIN k = MemberFields
                /\ k.op = mreq[r].op /\ k.subject = mreq[r].subject /\ k.plan = mreq[r].plan
                /\ k.alone = mreq[r].alone /\ k.step = StepAfter(r)
                /\ k.list = x /\ k.config = mreq[r].config
<1>1. DOMAIN [list |-> x] = {"list"} /\ [list |-> x]["list"] = x
  OBVIOUS
<1> QED BY <1>1, RequestGoes DEF MemberFields

LEMMA RequestGoesWithConfig ==
  ASSUME MembersInv, NEW r \in MemberRequests, NEW x, Goes(r, [config |-> x])
  PROVE  \E k : /\ mreq' = [mreq EXCEPT ![r] = k] /\ DOMAIN k = MemberFields
                /\ k.op = mreq[r].op /\ k.subject = mreq[r].subject /\ k.plan = mreq[r].plan
                /\ k.alone = mreq[r].alone /\ k.step = StepAfter(r)
                /\ k.list = mreq[r].list /\ k.config = x
<1>1. DOMAIN [config |-> x] = {"config"} /\ [config |-> x]["config"] = x
  OBVIOUS
<1> QED BY <1>1, RequestGoes DEF MemberFields

LEMMA RequestStops ==
  ASSUME MembersInv, NEW r \in MemberRequests, Answers(r) \/ GivesUp(r)
  PROVE  \E k : mreq' = [mreq EXCEPT ![r] = k] /\ DOMAIN k = MemberFields /\ k.step \in MemberEnds
                /\ (Answers(r) => k.op = mreq[r].op /\ k.subject = mreq[r].subject /\ k.alone = mreq[r].alone)
<1>1. CASE Answers(r)
  <2> DEFINE k == [Idle EXCEPT !.op = mreq[r].op, !.subject = mreq[r].subject, !.alone = mreq[r].alone, !.step = "ok"]
  <2>1. mreq' = [mreq EXCEPT ![r] = k]
    BY <1>1 DEF Answers
  <2>2. DOMAIN k = MemberFields /\ k.step = "ok" /\ k.op = mreq[r].op /\ k.subject = mreq[r].subject
        /\ k.alone = mreq[r].alone
    BY DEF Idle, MemberFields
  <2> HIDE DEF k
  <2> QED BY <2>1, <2>2 DEF MemberEnds
<1>2. CASE GivesUp(r) /\ ~Answers(r)
  <2> DEFINE k == [Idle EXCEPT !.step = "failed"]
  <2>1. mreq' = [mreq EXCEPT ![r] = k]
    BY <1>2 DEF GivesUp
  <2>2. DOMAIN k = MemberFields /\ k.step = "failed"
    BY DEF Idle, MemberFields
  <2> HIDE DEF k
  <2> QED BY <1>2, <2>1, <2>2 DEF MemberEnds
<1> QED BY <1>1, <1>2

\* A step of a request: no other request has gone alone so far.
LEMMA OneRequestSteps ==
  ASSUME MembersInv, NEW r \in MemberRequests, Busy(r),
         NEW k, mreq' = [mreq EXCEPT ![r] = k], RequestFits(k),
         k.step \in MemberEnds \/ k.alone = mreq[r].alone,
         scope' = [u \in Members |-> scope'[u]], infra'.keys # {},
         k.step \notin MemberEnds /\ k.alone /\ k.op \in {"grant", "revoke"} => RequestReached(k)'
  PROVE  MembersInv'
<1>1. mreq' = [s \in MemberRequests |-> mreq'[s]] /\ mreq'[r] = k
      /\ \A s \in MemberRequests \ {r} : mreq'[s] = mreq[s]
  BY DEF MembersInv
<1>2. \A s \in MemberRequests \ {r} : Busy(s) => ~mreq[s].alone
  BY DEF MembersInv
<1>3. \A s \in MemberRequests : RequestFits(mreq'[s])
  BY <1>1 DEF MembersInv
<1>4. \A s \in MemberRequests : RequestFits(mreq[s])'
  BY <1>3 DEF RequestFits
<1>5. Busy(r)' <=> k.step \notin MemberEnds
  BY <1>1 DEF Busy, MemberEnds
<1>6. \A s \in MemberRequests \ {r} : Busy(s)' <=> Busy(s)
  BY <1>1 DEF Busy
<1>7. ASSUME NEW s \in MemberRequests, NEW q \in MemberRequests, Busy(s)', mreq'[s].alone, Busy(q)' PROVE s = q
  <2>1. s = r
    BY <1>1, <1>2, <1>6, <1>7
  <2>2. q = r
    BY <1>1, <1>5, <1>6, <1>7, <2>1 DEF MembersInv
  <2> QED BY <2>1, <2>2
<1>8. ASSUME NEW s \in MemberRequests, Busy(s)', mreq'[s].alone, mreq'[s].op \in {"grant", "revoke"}
      PROVE  RequestReached(mreq[s])'
  <2>1. s = r
    BY <1>1, <1>2, <1>6, <1>8
  <2>2. RequestReached(k)'
    BY <1>1, <1>5, <1>8, <2>1
  <2> QED BY <1>1, <2>1, <2>2 DEF RequestReached
<1> QED BY <1>1, <1>4, <1>7, <1>8 DEF MembersInv

\* What a request reads is what there is, until another request begins.
LEMMA MemberReadKeeps ==
  ASSUME MembersInv, "list" \notin MemberFaults, NEW r \in MemberRequests,
         ScopeRead(r) \/ MembersRead(r) \/ InfraRead(r)
  PROVE  MembersInv'
<1>1. PICK j : j = mreq[r]
  OBVIOUS
<1>2. RequestFits(j) /\ Busy(r) /\ UNCHANGED <<apps, scope, infra, profiles>>
  BY <1>1 DEF MembersInv, Busy, ScopeRead, MembersRead, InfraRead
<1>3. j.alone /\ j.op \in {"grant", "revoke"} => RequestReached(j)
  BY <1>1, <1>2 DEF MembersInv
<1>4. CASE ScopeRead(r)
  <2>1. j.step = "scope" /\ j.op \in {"grant", "revoke"} /\ j.subject \in Members
    BY <1>1, <1>2, <1>4 DEF ScopeRead, RequestFits, MemberEnds
  <2>2. Goes(r, [list |-> scope[j.subject]])
    BY <1>1, <1>4 DEF ScopeRead
  <2>3. StepAfter(r) = "extend"
    BY <1>1, <2>1, StepsInOrder DEF Op
  <2>4. PICK k : /\ mreq' = [mreq EXCEPT ![r] = k] /\ DOMAIN k = MemberFields
                 /\ k.op = j.op /\ k.subject = j.subject /\ k.plan = j.plan /\ k.alone = j.alone
                 /\ k.step = "extend" /\ k.list = scope[j.subject]
    BY <1>1, <2>2, <2>3, RequestGoesWithList
  <2>5. RequestFits(k)
    BY <2>1, <2>4 DEF RequestFits, MemberTransition
  <2>6. k.alone => RequestReached(k)'
    BY <1>2, <1>3, <2>1, <2>4 DEF RequestReached
  <2> QED BY <1>1, <1>2, <2>4, <2>5, <2>6, OneRequestSteps DEF MembersInv
<1>5. CASE MembersRead(r)
  <2>1. j.step = "read" /\ j.op \in {"grant", "revoke"} /\ j.subject \in Members
    BY <1>1, <1>2, <1>5 DEF MembersRead, RequestFits, MemberEnds
  <2>2. PICK x : /\ Goes(r, [list |-> x])
                 /\ x = IF j.op = "grant" THEN infra.members \cup {j.subject} ELSE infra.members \ {j.subject}
    BY <1>1, <1>5 DEF MembersRead, Op
  <2>3. StepAfter(r) = "etag"
    BY <1>1, <2>1, StepsInOrder DEF Op
  <2>4. PICK k : /\ mreq' = [mreq EXCEPT ![r] = k] /\ DOMAIN k = MemberFields
                 /\ k.op = j.op /\ k.subject = j.subject /\ k.plan = j.plan /\ k.alone = j.alone
                 /\ k.step = "etag" /\ k.list = x
    <3>1. Goes(r, [list |-> x])
      BY <2>2
    <3>2. \E k : /\ mreq' = [mreq EXCEPT ![r] = k] /\ DOMAIN k = MemberFields
                 /\ k.op = j.op /\ k.subject = j.subject /\ k.plan = j.plan /\ k.alone = j.alone
                 /\ k.step = "etag" /\ k.list = x
      BY <1>1, <2>3, <3>1, RequestGoesWithList
    <3> QED BY <3>2
  <2>5. RequestFits(k)
    BY <2>1, <2>4 DEF RequestFits, MemberTransition
  <2>6. k.alone => RequestReached(k)'
    BY <1>2, <1>3, <2>1, <2>2, <2>4 DEF RequestReached
  <2> QED BY <1>1, <1>2, <2>4, <2>5, <2>6, OneRequestSteps DEF MembersInv
<1>6. CASE InfraRead(r)
  <2>1. j.step = "etag" /\ j.op \in {"grant", "revoke", "addkey", "rmkey"}
    BY <1>1, <1>2, <1>6 DEF InfraRead, RequestFits, MemberEnds
  <2>2. StepAfter(r) = "update"
    BY <1>1, <2>1, StepsInOrder DEF Op
  <2>3. PICK k : /\ mreq' = [mreq EXCEPT ![r] = k] /\ DOMAIN k = MemberFields
                 /\ k.op = j.op /\ k.subject = j.subject /\ k.plan = j.plan /\ k.alone = j.alone
                 /\ k.step = "update" /\ k.list = j.list /\ k.config = infra
    BY <1>1, <1>6, <2>2, RequestGoesWithConfig DEF InfraRead
  <2>4. RequestFits(k)
    BY <1>2, <2>1, <2>3 DEF RequestFits, MemberTransition, MemberEnds
  <2>5. k.alone /\ k.op \in {"grant", "revoke"} => RequestReached(k)'
    BY <1>2, <1>3, <2>1, <2>3 DEF RequestReached
  <2> QED BY <1>1, <1>2, <2>3, <2>4, <2>5, OneRequestSteps DEF MembersInv
<1> QED BY <1>4, <1>5, <1>6

\* A request that ends keeps nothing that has to be true.
LEMMA MemberStops ==
  ASSUME MembersInv, NEW r \in MemberRequests, Busy(r), Answers(r) \/ GivesUp(r),
         scope' = [u \in Members |-> scope'[u]], infra'.keys # {}
  PROVE  MembersInv'
<1>1. PICK k : mreq' = [mreq EXCEPT ![r] = k] /\ DOMAIN k = MemberFields /\ k.step \in MemberEnds
  BY RequestStops
<1>2. RequestFits(k)
  BY <1>1 DEF RequestFits
<1> QED BY <1>1, <1>2, OneRequestSteps

\* ScopeWrite, InfraWrite and Render of a grant or a revoke, and of the keys.
LEMMA MemberWriteKeeps ==
  ASSUME MembersInv, NEW r \in MemberRequests, ScopeWrite(r) \/ InfraWrite(r) \/ Render(r)
  PROVE  MembersInv'
<1>1. PICK j : j = mreq[r]
  OBVIOUS
<1>2. RequestFits(j) /\ Busy(r) /\ UNCHANGED apps
  BY <1>1 DEF MembersInv, Busy, ScopeWrite, InfraWrite, Render
<1>3. j.alone /\ j.op \in {"grant", "revoke"} => RequestReached(j)
  BY <1>1, <1>2 DEF MembersInv
<1>4. CASE ScopeWrite(r)
  <2>1. j.step = "extend" /\ j.op \in {"grant", "revoke"} /\ j.subject \in Members
    BY <1>1, <1>2, <1>4 DEF ScopeWrite, RequestFits, MemberEnds
  <2>2. PICK x : /\ scope' = [scope EXCEPT ![j.subject] = x]
                 /\ x = IF j.op = "grant" THEN j.list \cup j.plan ELSE j.list \ j.plan
    BY <1>1, <1>4 DEF ScopeWrite, Op
  <2>3. scope'[j.subject] = x /\ scope' = [u \in Members |-> scope'[u]]
    BY <2>1, <2>2 DEF MembersInv
  <2>4. StepAfter(r) = "read"
    BY <1>1, <2>1, StepsInOrder DEF Op
  <2>5. PICK k : /\ mreq' = [mreq EXCEPT ![r] = k] /\ DOMAIN k = MemberFields
                 /\ k.op = j.op /\ k.subject = j.subject /\ k.alone = j.alone /\ k.step = "read"
    BY <1>1, <1>4, <2>4, RequestGoesOn DEF ScopeWrite
  <2>6. RequestFits(k)
    BY <2>1, <2>5 DEF RequestFits, MemberTransition
  <2>7. k.alone => RequestReached(k)'
    BY <1>2, <1>3, <2>1, <2>2, <2>3, <2>5 DEF RequestReached
  <2>8. infra' = infra
    BY <1>4 DEF ScopeWrite
  <2> QED BY <1>1, <1>2, <2>3, <2>5, <2>6, <2>7, <2>8, OneRequestSteps DEF MembersInv
<1>5. CASE InfraWrite(r)
  <2>1. j.step = "update" /\ scope' = scope /\ j.op \in {"grant", "revoke", "addkey", "rmkey"}
    BY <1>1, <1>2, <1>5 DEF InfraWrite, RequestFits, MemberEnds
  <2>2. CASE GivesUp(r) /\ infra' = infra
    BY <1>2, <2>1, <2>2, MemberStops DEF MembersInv
  <2>3. CASE ~(GivesUp(r) /\ infra' = infra)
    <3>1. PICK config : /\ config = [members |-> IF j.op \in {"grant", "revoke"} THEN j.list ELSE j.config.members,
                                      keys |-> KeysAfter(r)]
                        /\ infra' = config /\ Goes(r, [config |-> config]) /\ KeysAfter(r) # {}
      BY <1>1, <1>5, <2>3 DEF InfraWrite, Op
    <3>2. infra'.keys # {}
      BY <3>1
    <3>3. StepAfter(r) = "render"
      BY <1>1, <2>1, StepsInOrder DEF Op
    <3>4. PICK k : /\ mreq' = [mreq EXCEPT ![r] = k] /\ DOMAIN k = MemberFields
                   /\ k.op = j.op /\ k.subject = j.subject /\ k.alone = j.alone
                   /\ k.step = "render" /\ k.list = j.list /\ k.config = config
      BY <1>1, <3>1, <3>3, RequestGoesWithConfig
    <3>5. RequestFits(k)
      BY <1>2, <2>1, <3>4 DEF RequestFits, MemberTransition, MemberEnds
    <3>6. k.op \in {"grant", "revoke"} => infra'.members = j.list
      BY <3>1, <3>4
    <3>7. k.alone /\ k.op \in {"grant", "revoke"} => RequestReached(k)'
      BY <1>2, <1>3, <2>1, <3>1, <3>4, <3>6 DEF RequestReached
    <3> QED BY <1>1, <1>2, <2>1, <3>2, <3>4, <3>5, <3>7, OneRequestSteps DEF MembersInv
  <2> QED BY <2>2, <2>3
<1>6. CASE Render(r)
  <2>1. /\ j.step = "render" /\ j.op \in {"grant", "revoke", "addkey", "rmkey"}
        /\ UNCHANGED <<scope, infra>> /\ profiles' = j.config.members
    BY <1>1, <1>2, <1>6 DEF Render, RequestFits, MemberEnds, Op
  <2>2. CASE Answers(r)
    BY <1>2, <2>1, <2>2, MemberStops DEF MembersInv
  <2>3. CASE ~Answers(r)
    <3>1. j.op \in {"grant", "revoke"} /\ Goes(r, << >>)
      BY <1>1, <1>6, <2>1, <2>3 DEF Render, Op
    <3>2. StepAfter(r) = "machines"
      BY <1>1, <2>1, <3>1, StepsInOrder DEF Op
    <3>3. PICK k : /\ mreq' = [mreq EXCEPT ![r] = k] /\ DOMAIN k = MemberFields
                   /\ k.op = j.op /\ k.subject = j.subject /\ k.alone = j.alone /\ k.step = "machines"
      BY <1>1, <3>1, <3>2, RequestGoesOn
    <3>4. RequestFits(k)
      BY <1>2, <2>1, <3>1, <3>3 DEF RequestFits, MemberTransition, MemberEnds
    <3>5. k.alone => RequestReached(k)'
      BY <1>2, <1>3, <2>1, <3>1, <3>3 DEF RequestReached
    <3> QED BY <1>1, <1>2, <2>1, <3>3, <3>4, <3>5, OneRequestSteps DEF MembersInv
  <2> QED BY <2>2, <2>3
<1> QED BY <1>4, <1>5, <1>6

\* The steps of a login, of the machines and of a project create.
LEMMA MemberLaterKeeps ==
  ASSUME MembersInv, NEW r \in MemberRequests,
         RenderAtLogin(r) \/ EnrolKey(r) \/ RevokeKey(r) \/ ProjectCreate(r) \/ ExtendMember(r) \/ Fails(r)
  PROVE  MembersInv'
<1>1. PICK j : j = mreq[r]
  OBVIOUS
<1>2. RequestFits(j) /\ Busy(r) /\ infra' = infra
  BY <1>1 DEF MembersInv, Busy, RenderAtLogin, EnrolKey, RevokeKey, ProjectCreate, ExtendMember, Fails
<1>3. infra'.keys # {}
  BY <1>2 DEF MembersInv
<1>4. CASE EnrolKey(r) \/ RevokeKey(r) \/ Fails(r)
  <2>1. scope' = scope /\ (Answers(r) \/ GivesUp(r))
    BY <1>4 DEF EnrolKey, RevokeKey, Fails
  <2>2. scope' = [u \in Members |-> scope'[u]]
    BY <2>1 DEF MembersInv
  <2> QED BY <1>2, <1>3, <2>1, <2>2, MemberStops
<1>5. CASE RenderAtLogin(r)
  <2>1. scope' = scope /\ j.step = "render" /\ j.op = "login" /\ (Answers(r) \/ Goes(r, << >>))
    BY <1>1, <1>5 DEF RenderAtLogin, Op
  <2>2. scope' = [u \in Members |-> scope'[u]] /\ j.subject \in Members
    BY <1>2, <2>1 DEF MembersInv, RequestFits, MemberEnds
  <2>3. CASE Answers(r)
    BY <1>2, <1>3, <2>2, <2>3, MemberStops
  <2>4. CASE Goes(r, << >>)
    <3>1. StepAfter(r) = "machines"
      BY <1>1, <2>1, StepsInOrder DEF Op
    <3>2. PICK k : /\ mreq' = [mreq EXCEPT ![r] = k] /\ DOMAIN k = MemberFields
                   /\ k.op = "login" /\ k.subject = j.subject /\ k.alone = j.alone /\ k.step = "machines"
      BY <1>1, <2>1, <2>4, <3>1, RequestGoesOn
    <3>3. RequestFits(k)
      BY <2>2, <3>2 DEF RequestFits
    <3> QED BY <1>1, <1>2, <1>3, <2>2, <3>2, <3>3, OneRequestSteps
  <2> QED BY <2>1, <2>3, <2>4
<1>6. CASE ProjectCreate(r)
  <2>1. /\ scope' = scope /\ j.step = "machines" /\ j.op = "create"
        /\ Goes(r, [list |-> infra.members])
    BY <1>1, <1>6 DEF ProjectCreate, Op
  <2>2. scope' = [u \in Members |-> scope'[u]]
    BY <2>1 DEF MembersInv
  <2>3. StepAfter(r) = "others"
    BY <1>1, <2>1, StepsInOrder DEF Op
  <2>4. PICK k : /\ mreq' = [mreq EXCEPT ![r] = k] /\ DOMAIN k = MemberFields
                 /\ k.op = "create" /\ k.alone = j.alone /\ k.step = "others"
    BY <1>1, <2>1, <2>3, RequestGoesWithList
  <2>5. RequestFits(k)
    BY <2>4 DEF RequestFits
  <2> QED BY <1>1, <1>2, <1>3, <2>2, <2>4, <2>5, OneRequestSteps
<1>7. CASE ExtendMember(r)
  <2>1. j.step = "others" /\ j.op = "create"
    BY <1>1, <1>2, <1>7 DEF ExtendMember, RequestFits, MemberEnds, MemberTransition
  <2>2. scope' = [u \in Members |-> scope'[u]]
    BY <1>7 DEF ExtendMember, MembersInv
  <2>3. CASE Answers(r)
    BY <1>2, <1>3, <2>2, <2>3, MemberStops
  <2>4. CASE ~Answers(r)
    <3>1. PICK x : Goes(r, [step |-> "others", list |-> x])
      BY <1>7, <2>4 DEF ExtendMember
    <3>2. PICK g : g = [step |-> "others", list |-> x]
      OBVIOUS
    <3>3. DOMAIN g = {"step", "list"} /\ g["step"] = "others" /\ Goes(r, g)
      BY <3>1, <3>2
    <3>4. PICK k : /\ mreq' = [mreq EXCEPT ![r] = k] /\ DOMAIN k = MemberFields
                   /\ \A f \in MemberFields : k[f] = IF f \in DOMAIN g THEN g[f]
                                                     ELSE IF f = "step" THEN StepAfter(r) ELSE mreq[r][f]
      BY <3>3, RequestGoes
    <3>5. k.op = "create" /\ k.alone = j.alone /\ k.step = "others"
      BY <1>1, <2>1, <3>3, <3>4 DEF MemberFields
    <3>6. RequestFits(k)
      BY <3>4, <3>5 DEF RequestFits
    <3> QED BY <1>1, <1>2, <1>3, <2>2, <3>4, <3>5, <3>6, OneRequestSteps
  <2> QED BY <2>3, <2>4
<1> QED BY <1>4, <1>5, <1>6, <1>7

\* What is asked for, and where it starts.
LEMMA OperationsBegin ==
  ASSUME NEW o \in MemberOps
  PROVE  \/ o[1] \in {"grant", "revoke"} /\ o[2] \in Members /\ Head(StepsOf(o[1])) = "scope"
         \/ o[1] = "login" /\ o[2] \in Members /\ Head(StepsOf(o[1])) = "render"
         \/ o[1] = "create" /\ Head(StepsOf(o[1])) = "machines"
         \/ o[1] \in {"addkey", "rmkey"} /\ o[2] \in OwnKeys /\ Head(StepsOf(o[1])) = "etag"
<1>1. \/ o[1] \in {"grant", "revoke", "login"} /\ o[2] \in Members
      \/ o[1] = "create"
      \/ o[1] \in {"addkey", "rmkey"} /\ o[2] \in OwnKeys
  BY MembersAssumption
<1>2. CASE o[1] \in {"grant", "revoke"}
  <2>1. StepsOf(o[1]) = <<"scope", "extend", "read", "etag", "update", "render", "machines", "ok">>
    BY <1>2 DEF StepsOf
  <2> QED BY <1>1, <1>2, <2>1
<1>3. CASE o[1] = "login"
  <2>1. StepsOf(o[1]) = <<"render", "machines", "ok">>
    BY <1>3 DEF StepsOf
  <2> QED BY <1>1, <1>3, <2>1
<1>4. CASE o[1] = "create"
  <2>1. StepsOf(o[1]) = <<"machines", "others", "ok">>
    BY <1>4 DEF StepsOf
  <2> QED BY <1>4, <2>1
<1>5. CASE o[1] \in {"addkey", "rmkey"}
  <2>1. StepsOf(o[1]) = <<"etag", "update", "render", "ok">>
    BY <1>5 DEF StepsOf
  <2> QED BY <1>1, <1>5, <2>1
<1> QED BY <1>1, <1>2, <1>3, <1>4, <1>5

\* A request that begins: whoever is busy is no longer alone.
LEMMA MemberBeginKeeps ==
  ASSUME MembersInv, NEW r \in MemberRequests, MemberBegin(r)
  PROVE  MembersInv'
<1>0. PICK o \in MemberOps :
        mreq' = [s \in MemberRequests |->
                   IF s = r
                   THEN [Idle EXCEPT !.op = o[1], !.subject = o[2],
                           !.plan = IF o[1] \in {"grant", "revoke"} THEN apps ELSE {},
                           !.alone = ({q \in MemberRequests \ {r} : Busy(q)} = {}),
                           !.step = Head(StepsOf(o[1]))]
                   ELSE IF s \in {q \in MemberRequests \ {r} : Busy(q)} THEN [mreq[s] EXCEPT !.alone = FALSE]
                   ELSE mreq[s]]
  BY Zenon DEF MemberBegin
<1> PICK busy : busy = {q \in MemberRequests \ {r} : Busy(q)}
  OBVIOUS
<1> PICK plan : plan = (IF o[1] \in {"grant", "revoke"} THEN apps ELSE {})
  OBVIOUS
<1> PICK head : head = Head(StepsOf(o[1]))
  OBVIOUS
<1> PICK entry : entry = [Idle EXCEPT !.op = o[1], !.subject = o[2], !.plan = plan,
                                      !.alone = (busy = {}), !.step = head]
  OBVIOUS
<1>1. /\ busy = {q \in MemberRequests \ {r} : Busy(q)}
      /\ plan = (IF o[1] \in {"grant", "revoke"} THEN apps ELSE {})
      /\ head = Head(StepsOf(o[1]))
      /\ entry = [Idle EXCEPT !.op = o[1], !.subject = o[2], !.plan = plan,
                              !.alone = (busy = {}), !.step = head]
      /\ mreq' = [s \in MemberRequests |-> IF s = r THEN entry
                                           ELSE IF s \in busy THEN [mreq[s] EXCEPT !.alone = FALSE]
                                           ELSE mreq[s]]
  BY Zenon, <1>0
<1>2. UNCHANGED <<apps, scope, infra, profiles, block, seeded>>
  BY Zenon DEF MemberBegin
<1>3. \/ o[1] \in {"grant", "revoke"} /\ o[2] \in Members /\ head = "scope"
      \/ o[1] = "login" /\ o[2] \in Members /\ head = "render"
      \/ o[1] = "create" /\ head = "machines"
      \/ o[1] \in {"addkey", "rmkey"} /\ o[2] \in OwnKeys /\ head = "etag"
  BY <1>1, OperationsBegin
<1>4. PICK a, u, alone : a = o[1] /\ u = o[2] /\ alone = (busy = {})
  OBVIOUS
<1>5. /\ DOMAIN entry = MemberFields /\ entry.op = a /\ entry.subject = u
      /\ entry.plan = plan /\ entry.alone = alone /\ entry.step = head
  <2>1. entry = [Idle EXCEPT !.op = a, !.subject = u, !.plan = plan, !.alone = alone, !.step = head]
    BY <1>1, <1>4
  <2> QED BY <2>1 DEF Idle, MemberFields
<1>6. RequestFits(entry)
  BY <1>3, <1>4, <1>5 DEF RequestFits, MemberTransition, MemberEnds
<1>7. \A s \in busy : /\ DOMAIN mreq'[s] = DOMAIN mreq[s] /\ mreq'[s].step = mreq[s].step
                        /\ mreq'[s].op = mreq[s].op /\ mreq'[s].subject = mreq[s].subject
                        /\ mreq'[s].alone = FALSE
  <2> TAKE s \in busy
  <2>1. s # r /\ s \in MemberRequests
    BY <1>1
  <2>2. DOMAIN mreq[s] = MemberFields
    BY <2>1 DEF MembersInv, RequestFits
  <2>3. mreq'[s] = [mreq[s] EXCEPT !.alone = FALSE]
    BY <1>1, <2>1
  <2> QED BY <2>2, <2>3 DEF MemberFields
<1>8. mreq'[r] = entry /\ \A s \in MemberRequests \ {r} : s \notin busy => mreq'[s] = mreq[s]
  BY <1>1
<1>9. \A s \in MemberRequests : RequestFits(mreq'[s])
  <2> TAKE s \in MemberRequests
  <2>1. RequestFits(mreq[s])
    BY DEF MembersInv
  <2>2. CASE s \in busy
    BY <1>7, <2>1, <2>2 DEF RequestFits
  <2>3. CASE s \notin busy
    BY <1>6, <1>8, <2>1, <2>3
  <2> QED BY <2>2, <2>3
<1>10. \A s \in MemberRequests : RequestFits(mreq[s])'
  BY <1>9 DEF RequestFits
<1>11. \A s \in MemberRequests \ {r} : Busy(s)' <=> s \in busy
  <2> TAKE s \in MemberRequests \ {r}
  <2>1. s \in busy <=> Busy(s)
    BY <1>1
  <2>2. mreq'[s].step = mreq[s].step
    BY <1>7, <1>8
  <2> QED BY <2>1, <2>2 DEF Busy
<1>12. ASSUME NEW s \in MemberRequests, NEW q \in MemberRequests, Busy(s)', mreq'[s].alone, Busy(q)' PROVE s = q
  <2>1. s = r
    BY <1>7, <1>11, <1>12
  <2>2. busy = {}
    BY <1>4, <1>5, <1>8, <1>12, <2>1
  <2> QED BY <1>11, <1>12, <2>1, <2>2
<1>13. ASSUME NEW s \in MemberRequests, Busy(s)', mreq'[s].alone, mreq'[s].op \in {"grant", "revoke"}
       PROVE  RequestReached(mreq[s])'
  <2>1. s = r
    BY <1>7, <1>11, <1>13
  <2>2. entry.step = "scope" /\ entry.plan = apps'
    BY <1>1, <1>2, <1>3, <1>4, <1>5, <1>8, <1>13, <2>1
  <2>3. mreq'[s].step = "scope" /\ mreq'[s].plan = apps'
    BY <1>8, <2>1, <2>2
  <2> QED BY <2>3 DEF RequestReached
<1>14. mreq' = [s \in MemberRequests |-> mreq'[s]]
  BY <1>1
<1>15. scope' = [v \in Members |-> scope'[v]] /\ infra'.keys # {}
  BY <1>2 DEF MembersInv
<1> QED BY <1>10, <1>12, <1>13, <1>14, <1>15 DEF MembersInv

LEMMA MembersInvInitially == MembersInit => MembersInv
<1> SUFFICES ASSUME MembersInit PROVE MembersInv
  OBVIOUS
<1>1. \A r \in MemberRequests : mreq[r] = Idle
  BY DEF MembersInit
<1>2. DOMAIN Idle = MemberFields /\ Idle.step = "idle"
  BY DEF Idle, MemberFields
<1>3. \A r \in MemberRequests : RequestFits(mreq[r]) /\ ~Busy(r)
  BY <1>1, <1>2 DEF RequestFits, MemberEnds, Busy
<1>4. /\ scope = [u \in Members |-> scope[u]] /\ mreq = [r \in MemberRequests |-> mreq[r]]
      /\ infra.keys # {}
  BY DEF MembersInit
<1> QED BY <1>3, <1>4 DEF MembersInv

LEMMA MembersInvKept ==
  ASSUME "list" \notin MemberFaults, MembersInv, [MembersNext]_memberVars
  PROVE  MembersInv'
<1>1. CASE MachineSeeded \/ UNCHANGED memberVars
  BY <1>1 DEF MachineSeeded, memberVars, MembersInv, RequestFits, RequestReached, Busy
<1>2. ASSUME NEW r \in MemberRequests, MemberBegin(r) PROVE MembersInv'
  BY <1>2, MemberBeginKeeps
<1>3. ASSUME NEW r \in MemberRequests, ScopeRead(r) \/ MembersRead(r) \/ InfraRead(r) PROVE MembersInv'
  BY <1>3, MemberReadKeeps
<1>4. ASSUME NEW r \in MemberRequests, ScopeWrite(r) \/ InfraWrite(r) \/ Render(r) PROVE MembersInv'
  BY <1>4, MemberWriteKeeps
<1>5. ASSUME NEW r \in MemberRequests,
             RenderAtLogin(r) \/ EnrolKey(r) \/ RevokeKey(r) \/ ProjectCreate(r) \/ ExtendMember(r) \/ Fails(r)
      PROVE  MembersInv'
  BY <1>5, MemberLaterKeeps
<1> QED BY <1>1, <1>2, <1>3, <1>4, <1>5 DEF MembersNext

\* A request that moves on has not answered, and nobody else's has changed.
LEMMA OthersUntouched ==
  ASSUME MembersInv, NEW q \in MemberRequests, NEW r \in MemberRequests, q # r,
         NEW f, Goes(q, f) \/ Answers(q) \/ GivesUp(q)
  PROVE  mreq'[r] = mreq[r]
BY DEF MembersInv, Goes, Answers, GivesUp

LEMMA AnswersOnly ==
  ASSUME MembersInv, "list" \notin MemberFaults, NEW r \in MemberRequests,
         mreq'[r].step = "ok",
         \/ Fails(r) \/ ScopeRead(r) \/ ScopeWrite(r) \/ MembersRead(r) \/ InfraRead(r) \/ InfraWrite(r)
         \/ Render(r) \/ RenderAtLogin(r) \/ EnrolKey(r) \/ RevokeKey(r) \/ ProjectCreate(r) \/ ExtendMember(r)
  PROVE  /\ Answers(r) /\ mreq'[r].op = mreq[r].op /\ mreq'[r].subject = mreq[r].subject
         /\ EnrolKey(r) \/ RevokeKey(r) \/ mreq[r].op \notin {"grant", "revoke"}
<1>1. RequestFits(mreq[r]) /\ r \in DOMAIN mreq
  BY DEF MembersInv
<1>2. ASSUME NEW f, Goes(r, f), "step" \notin DOMAIN f PROVE StepAfter(r) = "ok"
  <2>1. mreq'[r].step = StepAfter(r)
    BY <1>2, RequestGoes, <1>1 DEF MemberFields
  <2> QED BY <2>1
<1>3. Goes(r, << >>) => StepAfter(r) = "ok"
  <2>1. PICK f : f = << >> /\ DOMAIN f = {}
    OBVIOUS
  <2> QED BY <2>1, <1>2
<1>4. ASSUME NEW x, Goes(r, [list |-> x]) PROVE StepAfter(r) = "ok"
  BY <1>2, <1>4
<1>5. ASSUME NEW x, Goes(r, [config |-> x]) PROVE StepAfter(r) = "ok"
  BY <1>2, <1>5
<1>6. ~GivesUp(r)
  BY <1>1 DEF GivesUp, Idle
<1>7. Answers(r) => mreq'[r].op = mreq[r].op /\ mreq'[r].subject = mreq[r].subject
  BY <1>1, RequestStops
<1>8. CASE EnrolKey(r) \/ RevokeKey(r)
  BY <1>7, <1>8 DEF EnrolKey, RevokeKey
<1>9. CASE Fails(r)
  BY <1>6, <1>9 DEF Fails
<1>10. CASE ScopeRead(r)
  <2>1. mreq[r].step = "scope" /\ Op(r, {"grant", "revoke"})
    BY <1>1, <1>10 DEF ScopeRead, RequestFits, MemberEnds, Op
  <2>2. PICK x : Goes(r, [list |-> x])
    BY <1>10 DEF ScopeRead
  <2> QED BY <1>4, <2>1, <2>2, StepsInOrder
<1>11. CASE ScopeWrite(r)
  <2>1. mreq[r].step = "extend" /\ Op(r, {"grant", "revoke"})
    BY <1>1, <1>11 DEF ScopeWrite, RequestFits, MemberEnds, Op
  <2> QED BY <1>3, <1>11, <2>1, StepsInOrder DEF ScopeWrite
<1>12. CASE MembersRead(r)
  <2>1. mreq[r].step = "read" /\ Op(r, {"grant", "revoke"})
    BY <1>1, <1>12 DEF MembersRead, RequestFits, MemberEnds, Op
  <2>2. PICK x : Goes(r, [list |-> x])
    BY <1>12 DEF MembersRead
  <2> QED BY <1>4, <2>1, <2>2, StepsInOrder
<1>13. CASE InfraRead(r)
  <2>1. mreq[r].step = "etag" /\ (Op(r, {"grant", "revoke"}) \/ Op(r, {"addkey", "rmkey"}))
    BY <1>1, <1>13 DEF InfraRead, RequestFits, MemberEnds, Op
  <2> QED BY <1>5, <1>13, <2>1, StepsInOrder DEF InfraRead
<1>14. CASE InfraWrite(r)
  <2>1. mreq[r].step = "update" /\ (Op(r, {"grant", "revoke"}) \/ Op(r, {"addkey", "rmkey"}))
    BY <1>1, <1>14 DEF InfraWrite, RequestFits, MemberEnds, Op
  <2>2. PICK x : Goes(r, [config |-> x])
    BY <1>6, <1>14 DEF InfraWrite
  <2> QED BY <1>5, <2>1, <2>2, StepsInOrder
<1>15. CASE Render(r)
  <2>1. mreq[r].step = "render" /\ (Op(r, {"grant", "revoke"}) \/ Op(r, {"addkey", "rmkey"}))
    BY <1>1, <1>15 DEF Render, RequestFits, MemberEnds, Op
  <2>2. CASE Op(r, {"addkey", "rmkey"})
    BY <1>7, <1>15, <2>2 DEF Render, Op
  <2>3. CASE ~Op(r, {"addkey", "rmkey"})
    BY <1>3, <1>15, <2>1, <2>3, StepsInOrder DEF Render
  <2> QED BY <2>2, <2>3
<1>16. CASE RenderAtLogin(r)
  <2>1. mreq[r].step = "render" /\ Op(r, {"login"}) /\ (Answers(r) \/ Goes(r, << >>))
    BY <1>16 DEF RenderAtLogin
  <2> QED BY <1>3, <1>7, <2>1, StepsInOrder DEF Op
<1>17. CASE ProjectCreate(r)
  <2>1. mreq[r].step = "machines" /\ Op(r, {"create"})
    BY <1>17 DEF ProjectCreate
  <2> QED BY <1>4, <1>17, <2>1, StepsInOrder DEF ProjectCreate
<1>18. CASE ExtendMember(r)
  <2>1. mreq[r].op = "create"
    BY <1>1, <1>18 DEF ExtendMember, RequestFits, MemberEnds, MemberTransition
  <2>2. ASSUME NEW x, Goes(r, [step |-> "others", list |-> x]) PROVE FALSE
    <3>1. PICK g : g = [step |-> "others", list |-> x]
      OBVIOUS
    <3>2. DOMAIN g = {"step", "list"} /\ g["step"] = "others" /\ Goes(r, g)
      BY <2>2, <3>1
    <3>3. mreq'[r].step = "others"
      BY <1>1, <3>2, RequestGoes DEF MemberFields
    <3> QED BY <3>3
  <2> QED BY <1>7, <1>18, <2>1, <2>2 DEF ExtendMember
<1> QED BY <1>8, <1>9, <1>10, <1>11, <1>12, <1>13, <1>14, <1>15, <1>16, <1>17, <1>18

\* What a request that answers has done.
LEMMA AnsweredIsSettled ==
  ASSUME MembersInv, "list" \notin MemberFaults, [MembersNext]_memberVars,
         NEW r \in MemberRequests, Busy(r), mreq[r].alone, mreq'[r].step = "ok", mreq'[r].alone
  PROVE  Settled(r)'
<1>1. PICK q \in MemberRequests :
        \/ MemberBegin(q) \/ Fails(q) \/ ScopeRead(q) \/ ScopeWrite(q) \/ MembersRead(q) \/ InfraRead(q)
        \/ InfraWrite(q) \/ Render(q) \/ RenderAtLogin(q) \/ EnrolKey(q) \/ RevokeKey(q)
        \/ ProjectCreate(q) \/ ExtendMember(q)
  <2>1. mreq' # mreq
    BY DEF Busy
  <2> QED BY <2>1 DEF MembersNext, MachineSeeded, memberVars
<1>2. ~MemberBegin(q)
  <2> SUFFICES ASSUME MemberBegin(q) PROVE FALSE
    OBVIOUS
  <2>1. q # r
    BY DEF MemberBegin
  <2>2. mreq'[r] = [mreq[r] EXCEPT !.alone = FALSE] \/ mreq'[r] = mreq[r]
    BY <2>1 DEF MemberBegin
  <2>3. DOMAIN mreq[r] = MemberFields
    BY DEF MembersInv, RequestFits
  <2> QED BY <2>2, <2>3 DEF Busy, MemberFields
<1>3. q = r
  <2> SUFFICES ASSUME q # r PROVE FALSE
    OBVIOUS
  <2>1. Busy(q)
    BY <1>1, <1>2 DEF Busy, Fails, ScopeRead, ScopeWrite, MembersRead, InfraRead, InfraWrite, Render,
       RenderAtLogin, EnrolKey, RevokeKey, ProjectCreate, ExtendMember
  <2> QED BY <2>1 DEF MembersInv
<1>4. /\ mreq'[r].op = mreq[r].op /\ mreq'[r].subject = mreq[r].subject
      /\ EnrolKey(r) \/ RevokeKey(r) \/ mreq[r].op \notin {"grant", "revoke"}
  BY <1>1, <1>2, <1>3, AnswersOnly
<1>5. PICK j : j = mreq[r]
  OBVIOUS
<1>6. RequestFits(j) /\ (j.op \in {"grant", "revoke"} => RequestReached(j))
  BY <1>5 DEF MembersInv
<1>7. CASE EnrolKey(r) /\ j.op = "grant"
  <2>1. j.step = "machines" /\ UNCHANGED <<apps, scope, infra, profiles, seeded>>
        /\ block' = IF j.subject \in seeded THEN block ELSE block \cup {j.subject}
    BY <1>5, <1>7 DEF EnrolKey
  <2>2. j.subject \in infra.members /\ apps \subseteq scope[j.subject] /\ j.subject \in profiles
    BY <1>6, <1>7, <2>1 DEF RequestReached
  <2> QED BY <1>4, <1>5, <1>7, <2>1, <2>2 DEF Settled, Op
<1>8. CASE RevokeKey(r) /\ j.op = "revoke"
  <2>1. j.step = "machines" /\ UNCHANGED <<apps, scope, infra, profiles>> /\ block' = {}
    BY <1>5, <1>8 DEF RevokeKey
  <2>2. j.subject \notin infra.members /\ scope[j.subject] \cap apps = {} /\ j.subject \notin profiles
    BY <1>6, <1>8, <2>1 DEF RequestReached
  <2> QED BY <1>4, <1>5, <1>8, <2>1, <2>2 DEF Settled, Op
<1>9. CASE j.op \notin {"grant", "revoke"}
  BY <1>4, <1>5, <1>9 DEF Settled, Op
<1> QED BY <1>4, <1>5, <1>7, <1>8, <1>9 DEF EnrolKey, RevokeKey, Op

\* Whoever changes the keys was asked to change that key.
LEMMA KeysChangeOnRequest ==
  ASSUME MembersInv, [MembersNext]_memberVars, NEW k \in OwnKeys, (k \in infra.keys) # (k \in infra'.keys)
  PROVE  \E r \in MemberRequests : Op(r, {"addkey", "rmkey"}) /\ mreq[r].subject = k
                                     /\ mreq[r].step = "update" /\ mreq'[r] # mreq[r]
<1>1. PICK r \in MemberRequests : InfraWrite(r) /\ infra' # infra
  BY DEF MembersNext, memberVars, MachineSeeded, MemberBegin, Fails, ScopeRead, ScopeWrite, MembersRead,
     InfraRead, Render, RenderAtLogin, EnrolKey, RevokeKey, ProjectCreate, ExtendMember
<1>2. /\ mreq[r].step = "update" /\ infra = mreq[r].config
      /\ infra'.keys = KeysAfter(r) /\ Goes(r, [config |-> infra'])
  BY <1>1 DEF InfraWrite
<1>3. RequestFits(mreq[r])
  BY DEF MembersInv
<1>4. Op(r, {"grant", "revoke"}) \/ Op(r, {"addkey"}) \/ Op(r, {"rmkey"})
  BY <1>2, <1>3 DEF RequestFits, MemberEnds, Op
<1>5. Op(r, {"addkey", "rmkey"}) /\ mreq[r].subject = k
  BY <1>2, <1>4 DEF KeysAfter, Op
<1>6. StepAfter(r) = "render"
  BY <1>2, <1>5, StepsInOrder
<1>7. mreq'[r].step = "render"
  BY <1>2, <1>6, RequestGoesWithConfig DEF MembersInv
<1> QED BY <1>2, <1>5, <1>7

(* MembersKept, when the listing of the certificates answers (a revoke    *)
(* whose listing fails goes on as if there were nothing to revoke): a     *)
(* grant or a revoke that answers and that no other request overlapped    *)
(* leaves certificate, member list, profiles and marker block in          *)
(* agreement about its user, whatever overlapped or failed before it      *)
(* began, and no request loses another's change of the tenant's own keys. *)
THEOREM MembersStayKept ==
  ASSUME "list" \notin MemberFaults PROVE MembersSpec => MembersKept
<1>1. MembersInit => MembersInv
  BY MembersInvInitially
<1>2. MembersInv /\ [MembersNext]_memberVars => MembersInv'
  BY MembersInvKept
<1>3. MembersInv /\ [MembersNext]_memberVars
        => \A r \in MemberRequests :
             (Busy(r) /\ mreq[r].alone /\ mreq'[r].step = "ok" /\ mreq'[r].alone) => Settled(r)'
  BY AnsweredIsSettled
<1>4. MembersInv /\ MembersInv' /\ [MembersNext]_memberVars
        => /\ infra'.keys # {}
           /\ \A k \in OwnKeys : (k \in infra.keys) # (k \in infra'.keys)
                 => \E r \in MemberRequests : Op(r, {"addkey", "rmkey"}) /\ mreq[r].subject = k
                                                 /\ mreq[r].step = "update" /\ mreq'[r] # mreq[r]
  <2>1. MembersInv' => infra'.keys # {}
    BY DEF MembersInv
  <2> QED BY <2>1, KeysChangeOnRequest
<1> QED BY <1>1, <1>2, <1>3, <1>4, PTL DEF MembersSpec, MembersKept, MembershipComplete, KeyUpdatesKept

-----------------------------------------------------------------------------
(* Publications of machines                                                *)

RunSteps == {"idle", "done", "preflight", "claim", "create", "dns", "undo", "list", "write", "install",
             "uninstall", "lookup", "uncname", "untunnel", "release",
             "tailcheck", "site", "arecord", "unsite", "unrecord"}
RunRecords ==
    [op : {"none", "publish", "unpublish", "tailnet", "untailnet"}, step : RunSteps,
     machine : TunnelMachines \cup {NoMachine}, host : TunnelHosts \cup {NoMachine},
     fresh : BOOLEAN, up : BOOLEAN, id : 0 .. MaxTunnels, seen : SUBSET TunnelHosts, ok : BOOLEAN]

Running(j) == j.step \notin {"idle", "done"}
RunAt(j, op, steps) == j.op = op /\ j.step \in steps

\* One command on a machine at a time.
OneRunPerMachine ==
    \A r, q \in TunnelRuns :
        Running(trun[r]) /\ Running(trun[q]) /\ trun[r].machine = trun[q].machine => r = q

\* A command is at a step of its operation.
RunFits(j) ==
    Running(j) => /\ j.machine \in TunnelMachines /\ j.host \in TunnelHosts
                  /\ \/ RunAt(j, "publish", {"preflight", "claim", "create", "dns", "undo", "list", "write", "install"})
                     \/ RunAt(j, "unpublish", {"uninstall", "lookup", "uncname", "untunnel", "release", "list", "write"})
                     \/ RunAt(j, "tailnet", {"tailcheck", "site", "arecord"})
                     \/ RunAt(j, "untailnet", {"unsite", "unrecord"})

\* What a publish has reached at its step: the row is its machine's from the
\* claim on; a row it may give back has no connector and no record.
PublishReached(j) ==
    LET m == j.machine
        h == j.host
    IN  /\ j.step \in {"create", "dns", "undo", "list", "write", "install"} => owner[h] = m
        /\ j.step \in {"preflight", "claim", "create", "dns", "undo"} => ~j.up
        /\ j.step = "dns" => j.id = tunnel[h] /\ tunnel[h] # 0
        /\ j.step = "undo" => record[h].type # "CNAME"
        /\ j.step \in {"create", "dns", "undo"} /\ j.fresh => tunnel[h] = 0 \/ unit[m][h] # tunnel[h]
        /\ j.step \in {"create", "dns", "undo"} /\ ~j.fresh => h \in listed[m]
        /\ j.step = "write" => j.seen = listed[m]
        /\ j.step = "install" \/ (j.step \in {"list", "write"} /\ j.up) => h \in listed[m]

\* And an unpublish: the connector is gone from the first step on, the record
\* and the row after it.
UnpublishReached(j) ==
    LET m == j.machine
        h == j.host
    IN  /\ j.step # "uninstall" => unit[m][h] = 0
        /\ j.step \in {"uncname", "untunnel", "release"} => owner[h] = m
        /\ j.step \in {"untunnel", "release"} => record[h].type # "CNAME"
        /\ j.step \in {"list", "write"} => owner[h] # m
        /\ j.step = "write" => j.seen = listed[m]

RunReached(j) ==
    Running(j) => /\ j.op = "publish" => PublishReached(j)
                  /\ j.op = "unpublish" => UnpublishReached(j)

\* A publish under way excuses that a name is not on its machine's list yet.
YetToList(j, h) ==
    /\ j.op = "publish" /\ j.host = h
    /\ \/ j.step \in {"create", "dns", "undo"} /\ j.fresh
       \/ j.step \in {"list", "write"} /\ ~j.up

\* A record of a tunnel is of the tunnel of its name, and of a name that is owned.
RecordsOwned == \A h \in TunnelHosts : record[h].type = "CNAME" => OwnCname(h) /\ owner[h] # NoMachine

\* A connector of a name's tunnel runs on the owner.
ConnectorsOwned ==
    \A h \in TunnelHosts, m \in TunnelMachines :
        tunnel[h] # 0 /\ unit[m][h] = tunnel[h] => owner[h] = m

OwnedListed ==
    \A h \in TunnelHosts, m \in TunnelMachines : owner[h] = m =>
        \/ h \in listed[m]
        \/ \E r \in TunnelRuns : trun[r].machine = m /\ YetToList(trun[r], h)

TunnelsInv ==
    /\ TunnelsTypeOK /\ trun \in [TunnelRuns -> RunRecords]
    /\ \A m \in TunnelMachines, h \in TunnelHosts : unit[m][h] <= tunnelIds
    /\ \A r \in TunnelRuns : trun[r].id <= tunnelIds
    /\ RecordsOwned /\ ConnectorsOwned /\ OwnedListed
    /\ \A r \in TunnelRuns : RunFits(trun[r]) /\ RunReached(trun[r])

\* What a step of a command on m leaves of the other machines' affairs.
OthersLeft(m) ==
    /\ \A x \in TunnelMachines \ {m} : unit'[x] = unit[x] /\ listed'[x] = listed[x]
    /\ \A h \in TunnelHosts : \/ owner'[h] = owner[h]
                              \/ owner[h] \in {NoMachine, m} /\ owner'[h] \in {NoMachine, m}
    /\ \A h \in TunnelHosts : \/ tunnel'[h] = tunnel[h]
                              \/ owner[h] = m /\ tunnel'[h] \in {0, tunnelIds + 1}
    /\ \A h \in TunnelHosts : record'[h] = record[h] \/ record'[h].type # "CNAME" \/ owner[h] = m

\* The command on another machine is where it was.
LEMMA OthersStayReached ==
  ASSUME TunnelsInv, OneRunPerMachine, NEW r \in TunnelRuns, NEW q \in TunnelRuns, q # r,
         Running(trun[r]), OthersLeft(trun[r].machine), trun'[q] = trun[q]
  PROVE  RunFits(trun'[q]) /\ RunReached(trun[q])'
<1>1. PICK j, m, h : j = trun[q] /\ m = j.machine /\ h = j.host
  OBVIOUS
<1>2. RunFits(j) /\ (Running(j) /\ j.op = "publish" => PublishReached(j))
      /\ (Running(j) /\ j.op = "unpublish" => UnpublishReached(j))
  BY <1>1 DEF TunnelsInv, RunReached
<1>3. CASE ~Running(j)
  BY <1>1, <1>2, <1>3 DEF RunReached, Running
<1>4. CASE Running(j)
  <2>1. m \in TunnelMachines /\ h \in TunnelHosts /\ m # trun[r].machine /\ NoMachine \notin TunnelMachines
    BY <1>1, <1>2, <1>4, TunnelsAssumption DEF RunFits, OneRunPerMachine
  <2>2. /\ unit'[m] = unit[m] /\ listed'[m] = listed[m]
        /\ owner[h] = m => owner'[h] = m /\ tunnel'[h] = tunnel[h]
        /\ owner[h] = m => record'[h] = record[h] \/ record'[h].type # "CNAME"
        /\ owner[h] # m => owner'[h] # m
    BY <2>1 DEF OthersLeft
  <2>3. j.op = "publish" => PublishReached(j)'
    BY <1>1, <1>2, <1>4, <2>2 DEF PublishReached
  <2>4. j.op = "unpublish" => UnpublishReached(j)'
    BY <1>1, <1>2, <1>4, <2>2 DEF UnpublishReached
  <2> QED BY <1>1, <1>2, <2>3, <2>4 DEF RunReached, PublishReached, UnpublishReached, Running
<1> QED BY <1>3, <1>4

\* A step of a command keeps the invariant if it keeps what concerns its own
\* machine.
LEMMA RunStepKeeps ==
  ASSUME TunnelsInv, OneRunPerMachine, NEW r \in TunnelRuns, NEW m \in TunnelMachines,
         Running(trun[r]), trun[r].machine = m, OthersLeft(m),
         NEW k \in RunRecords, trun' = [trun EXCEPT ![r] = k], k.machine = m,
         RunFits(k), Running(k) => RunReached(k)',
         TunnelsTypeOK', tunnelIds' \in {tunnelIds, tunnelIds + 1}, k.id <= tunnelIds',
         \A h \in TunnelHosts : unit'[m][h] <= tunnelIds',
         RecordsOwned',
         \A h \in TunnelHosts : tunnel'[h] # 0 /\ unit'[m][h] = tunnel'[h] => owner'[h] = m,
         \A h \in TunnelHosts : owner'[h] = m => h \in listed'[m] \/ YetToList(k, h)
  PROVE  TunnelsInv'
<1>1. trun' \in [TunnelRuns -> RunRecords] /\ trun'[r] = k /\ \A q \in TunnelRuns \ {r} : trun'[q] = trun[q]
  BY DEF TunnelsInv
<1>2. \A q \in TunnelRuns \ {r} : RunFits(trun'[q]) /\ RunReached(trun[q])'
  BY <1>1, OthersStayReached
<1>3. RunFits(trun'[r]) /\ RunReached(trun[r])'
  <2>1. RunReached(k)'
    BY DEF RunReached, Running
  <2> QED BY <1>1, <2>1 DEF RunReached, Running, PublishReached, UnpublishReached
<1>4. \A q \in TunnelRuns : (RunFits(trun[q]) /\ RunReached(trun[q]))'
  <2> TAKE q \in TunnelRuns
  <2>1. RunFits(trun'[q]) /\ RunReached(trun[q])'
    BY <1>2, <1>3
  <2> QED BY <2>1 DEF RunFits, Running, RunAt
<1>5. tunnelIds \in Nat /\ tunnelIds' \in Nat
  BY TunnelsAssumption DEF TunnelsInv, TunnelsTypeOK
<1>6. \A x \in TunnelMachines, h \in TunnelHosts : unit'[x][h] <= tunnelIds'
  <2> TAKE x \in TunnelMachines, h \in TunnelHosts
  <2>1. CASE x # m
    <3>1. unit'[x] = unit[x] /\ unit[x][h] <= tunnelIds /\ unit[x][h] \in Nat
      BY <2>1, TunnelsAssumption DEF OthersLeft, TunnelsInv, TunnelsTypeOK
    <3> QED BY <1>5, <3>1
  <2> QED BY <2>1
<1>7. \A q \in TunnelRuns : trun'[q].id <= tunnelIds'
  <2> TAKE q \in TunnelRuns
  <2>1. CASE q # r
    <3>1. trun'[q] = trun[q] /\ trun[q].id <= tunnelIds /\ trun[q].id \in Nat
      BY <1>1, <2>1, TunnelsAssumption DEF TunnelsInv, RunRecords
    <3> QED BY <1>5, <3>1
  <2> QED BY <1>1, <2>1
<1>8. ConnectorsOwned'
  <2> SUFFICES ASSUME NEW h \in TunnelHosts, NEW x \in TunnelMachines, tunnel'[h] # 0, unit'[x][h] = tunnel'[h]
               PROVE  owner'[h] = x
    BY DEF ConnectorsOwned
  <2>1. CASE x # m
    <3>1. unit'[x] = unit[x] /\ unit[x][h] <= tunnelIds
      BY <2>1 DEF OthersLeft, TunnelsInv
    <3>2. tunnel'[h] = tunnel[h]
      BY <1>5, <3>1 DEF OthersLeft
    <3>3. owner[h] = x
      BY <3>1, <3>2 DEF TunnelsInv, ConnectorsOwned
    <3> QED BY <2>1, <3>3, TunnelsAssumption DEF OthersLeft
  <2> QED BY <2>1
<1>9. OwnedListed'
  <2> SUFFICES ASSUME NEW h \in TunnelHosts, NEW x \in TunnelMachines, owner'[h] = x
               PROVE  h \in listed'[x] \/ \E q \in TunnelRuns : trun'[q].machine = x /\ YetToList(trun'[q], h)
    BY DEF OwnedListed, YetToList
  <2>1. CASE x = m
    BY <1>1, <2>1
  <2>2. CASE x # m
    <3>1. owner[h] = x /\ listed'[x] = listed[x]
      BY <2>2, TunnelsAssumption DEF OthersLeft
    <3>2. h \in listed[x] \/ \E q \in TunnelRuns : trun[q].machine = x /\ YetToList(trun[q], h)
      BY <3>1 DEF TunnelsInv, OwnedListed
    <3> QED BY <1>1, <2>2, <3>1, <3>2
  <2> QED BY <2>1, <2>2
<1> QED BY <1>1, <1>4, <1>6, <1>7, <1>8, <1>9 DEF TunnelsInv

SameRun(k, j) ==
    /\ k.op = j.op /\ k.machine = j.machine /\ k.host = j.host
    /\ k.fresh = j.fresh /\ k.up = j.up /\ k.id = j.id /\ k.seen = j.seen

LEMMA RunsAreRecords == TunnelsInv => trun \in [TunnelRuns -> RunRecords]
BY DEF TunnelsInv

LEMMA RunMoves ==
  ASSUME trun \in [TunnelRuns -> RunRecords], NEW r \in TunnelRuns, NEW step \in RunSteps, RunGoes(r, step)
  PROVE  \E k \in RunRecords : trun' = [trun EXCEPT ![r] = k] /\ SameRun(k, trun[r]) /\ k.step = step
<1>1. trun[r] \in RunRecords
  OBVIOUS
<1> DEFINE k == [trun[r] EXCEPT !.step = step]
<1>2. k \in RunRecords /\ SameRun(k, trun[r]) /\ k.step = step
  BY <1>1 DEF RunRecords, SameRun
<1>3. trun' = [trun EXCEPT ![r] = k]
  BY DEF RunGoes
<1> HIDE DEF k
<1> QED BY <1>2, <1>3

LEMMA RunStops ==
  ASSUME trun \in [TunnelRuns -> RunRecords], NEW r \in TunnelRuns, NEW ok \in BOOLEAN, RunEnds(r, ok)
  PROVE  \E k \in RunRecords : trun' = [trun EXCEPT ![r] = k] /\ SameRun(k, trun[r]) /\ k.step = "done"
<1>1. trun[r] \in RunRecords
  OBVIOUS
<1> DEFINE k == [trun[r] EXCEPT !.step = "done", !.ok = ok]
<1>2. k \in RunRecords /\ SameRun(k, trun[r]) /\ k.step = "done"
  BY <1>1 DEF RunRecords, SameRun, RunSteps
<1>3. trun' = [trun EXCEPT ![r] = k]
  BY <1>1 DEF RunEnds, RunRecords
<1> HIDE DEF k
<1> QED BY <1>2, <1>3

\* A command that goes on with something new.
TakesFresh(r, step, x) == trun' = [trun EXCEPT ![r].step = step, ![r].fresh = x]
TakesUp(r, step, x) == trun' = [trun EXCEPT ![r].step = step, ![r].up = x]
TakesId(r, step, x) == trun' = [trun EXCEPT ![r].step = step, ![r].id = x]
TakesSeen(r, step, x) == trun' = [trun EXCEPT ![r].step = step, ![r].seen = x]

LEMMA RunTakesFresh ==
  ASSUME trun \in [TunnelRuns -> RunRecords], NEW r \in TunnelRuns, NEW step \in RunSteps, NEW x \in BOOLEAN,
         TakesFresh(r, step, x)
  PROVE  \E k \in RunRecords :
           /\ trun' = [trun EXCEPT ![r] = k] /\ k.step = step /\ k.fresh = x
           /\ k.op = trun[r].op /\ k.machine = trun[r].machine /\ k.host = trun[r].host
           /\ k.up = trun[r].up /\ k.id = trun[r].id /\ k.seen = trun[r].seen
<1>1. PICK j : j = trun[r] /\ j \in RunRecords
  OBVIOUS
<1>2. PICK i : i = [j EXCEPT !.step = step]
  OBVIOUS
<1>3. /\ i \in RunRecords /\ i.step = step /\ i.op = j.op /\ i.machine = j.machine /\ i.host = j.host
      /\ i.up = j.up /\ i.id = j.id /\ i.seen = j.seen
  BY <1>1, <1>2 DEF RunRecords
<1>4. PICK k : k = [i EXCEPT !.fresh = x]
  OBVIOUS
<1>5. /\ k \in RunRecords /\ k.step = step /\ k.fresh = x
      /\ k.op = j.op /\ k.machine = j.machine /\ k.host = j.host
      /\ k.up = j.up /\ k.id = j.id /\ k.seen = j.seen
  BY <1>3, <1>4 DEF RunRecords
<1>6. trun' = [trun EXCEPT ![r] = k]
  BY <1>1, <1>2, <1>4 DEF RunRecords, TakesFresh
<1> QED BY <1>1, <1>5, <1>6

LEMMA RunTakesUp ==
  ASSUME trun \in [TunnelRuns -> RunRecords], NEW r \in TunnelRuns, NEW step \in RunSteps, NEW x \in BOOLEAN,
         TakesUp(r, step, x)
  PROVE  \E k \in RunRecords :
           /\ trun' = [trun EXCEPT ![r] = k] /\ k.step = step /\ k.up = x
           /\ k.op = trun[r].op /\ k.machine = trun[r].machine /\ k.host = trun[r].host
           /\ k.fresh = trun[r].fresh /\ k.id = trun[r].id /\ k.seen = trun[r].seen
<1>1. PICK j : j = trun[r] /\ j \in RunRecords
  OBVIOUS
<1>2. PICK i : i = [j EXCEPT !.step = step]
  OBVIOUS
<1>3. /\ i \in RunRecords /\ i.step = step /\ i.op = j.op /\ i.machine = j.machine /\ i.host = j.host
      /\ i.fresh = j.fresh /\ i.id = j.id /\ i.seen = j.seen
  BY <1>1, <1>2 DEF RunRecords
<1>4. PICK k : k = [i EXCEPT !.up = x]
  OBVIOUS
<1>5. /\ k \in RunRecords /\ k.step = step /\ k.up = x
      /\ k.op = j.op /\ k.machine = j.machine /\ k.host = j.host
      /\ k.fresh = j.fresh /\ k.id = j.id /\ k.seen = j.seen
  BY <1>3, <1>4 DEF RunRecords
<1>6. trun' = [trun EXCEPT ![r] = k]
  BY <1>1, <1>2, <1>4 DEF RunRecords, TakesUp
<1> QED BY <1>1, <1>5, <1>6

LEMMA RunTakesId ==
  ASSUME trun \in [TunnelRuns -> RunRecords], NEW r \in TunnelRuns, NEW step \in RunSteps, NEW x \in 0 .. MaxTunnels,
         TakesId(r, step, x)
  PROVE  \E k \in RunRecords :
           /\ trun' = [trun EXCEPT ![r] = k] /\ k.step = step /\ k.id = x
           /\ k.op = trun[r].op /\ k.machine = trun[r].machine /\ k.host = trun[r].host
           /\ k.fresh = trun[r].fresh /\ k.up = trun[r].up /\ k.seen = trun[r].seen
<1>1. PICK j : j = trun[r] /\ j \in RunRecords
  OBVIOUS
<1>2. PICK i : i = [j EXCEPT !.step = step]
  OBVIOUS
<1>3. /\ i \in RunRecords /\ i.step = step /\ i.op = j.op /\ i.machine = j.machine /\ i.host = j.host
      /\ i.fresh = j.fresh /\ i.up = j.up /\ i.seen = j.seen
  BY <1>1, <1>2 DEF RunRecords
<1>4. PICK k : k = [i EXCEPT !.id = x]
  OBVIOUS
<1>5. /\ k \in RunRecords /\ k.step = step /\ k.id = x
      /\ k.op = j.op /\ k.machine = j.machine /\ k.host = j.host
      /\ k.fresh = j.fresh /\ k.up = j.up /\ k.seen = j.seen
  BY <1>3, <1>4 DEF RunRecords
<1>6. trun' = [trun EXCEPT ![r] = k]
  BY <1>1, <1>2, <1>4 DEF RunRecords, TakesId
<1> QED BY <1>1, <1>5, <1>6

LEMMA RunTakesSeen ==
  ASSUME trun \in [TunnelRuns -> RunRecords], NEW r \in TunnelRuns, NEW step \in RunSteps, NEW x \in SUBSET TunnelHosts,
         TakesSeen(r, step, x)
  PROVE  \E k \in RunRecords :
           /\ trun' = [trun EXCEPT ![r] = k] /\ k.step = step /\ k.seen = x
           /\ k.op = trun[r].op /\ k.machine = trun[r].machine /\ k.host = trun[r].host
           /\ k.fresh = trun[r].fresh /\ k.up = trun[r].up /\ k.id = trun[r].id
<1>1. PICK j : j = trun[r] /\ j \in RunRecords
  OBVIOUS
<1>2. PICK i : i = [j EXCEPT !.step = step]
  OBVIOUS
<1>3. /\ i \in RunRecords /\ i.step = step /\ i.op = j.op /\ i.machine = j.machine /\ i.host = j.host
      /\ i.fresh = j.fresh /\ i.up = j.up /\ i.id = j.id
  BY <1>1, <1>2 DEF RunRecords
<1>4. PICK k : k = [i EXCEPT !.seen = x]
  OBVIOUS
<1>5. /\ k \in RunRecords /\ k.step = step /\ k.seen = x
      /\ k.op = j.op /\ k.machine = j.machine /\ k.host = j.host
      /\ k.fresh = j.fresh /\ k.up = j.up /\ k.id = j.id
  BY <1>3, <1>4 DEF RunRecords
<1>6. trun' = [trun EXCEPT ![r] = k]
  BY <1>1, <1>2, <1>4 DEF RunRecords, TakesSeen
<1> QED BY <1>1, <1>5, <1>6

\* A step that only asks.
LEMMA RunAsks ==
  ASSUME TunnelsInv, OneRunPerMachine, NEW r \in TunnelRuns, Running(trun[r]),
         UNCHANGED <<owner, tunnel, record, tunnelIds, unit, listed>>, TunnelsTypeOK',
         NEW k \in RunRecords, trun' = [trun EXCEPT ![r] = k], k.machine = trun[r].machine, k.id = trun[r].id,
         RunFits(k), Running(k) => RunReached(k)',
         \A h \in TunnelHosts : YetToList(trun[r], h) /\ owner[h] = trun[r].machine
                                  => YetToList(k, h) \/ h \in listed[trun[r].machine]
  PROVE  TunnelsInv'
<1>1. PICK m : m = trun[r].machine
  OBVIOUS
<1>2. m \in TunnelMachines
  BY <1>1 DEF TunnelsInv, RunFits
<1>3. OthersLeft(m)
  BY DEF OthersLeft
<1>4. k.id <= tunnelIds' /\ tunnelIds' = tunnelIds /\ \A h \in TunnelHosts : unit'[m][h] <= tunnelIds'
  BY <1>2 DEF TunnelsInv
<1>5. RecordsOwned'
  BY DEF TunnelsInv, RecordsOwned, OwnCname
<1>6. \A h \in TunnelHosts : tunnel'[h] # 0 /\ unit'[m][h] = tunnel'[h] => owner'[h] = m
  BY <1>2 DEF TunnelsInv, ConnectorsOwned
<1>7. \A h \in TunnelHosts : owner'[h] = m => h \in listed'[m] \/ YetToList(k, h)
  <2> SUFFICES ASSUME NEW h \in TunnelHosts, owner[h] = m, h \notin listed[m] PROVE YetToList(k, h)
    OBVIOUS
  <2>1. PICK q \in TunnelRuns : trun[q].machine = m /\ YetToList(trun[q], h)
    BY <1>2 DEF TunnelsInv, OwnedListed
  <2>2. q = r
    BY <1>1, <2>1 DEF OneRunPerMachine, YetToList, Running
  <2> QED BY <1>1, <2>1, <2>2
<1> QED BY <1>1, <1>2, <1>3, <1>4, <1>5, <1>6, <1>7, RunStepKeeps

\* A command that stops has left its name on the list, if it owns it.
LEMMA RunGivesUp ==
  ASSUME TunnelsInv, OneRunPerMachine, NEW r \in TunnelRuns, Running(trun[r]),
         UNCHANGED <<owner, tunnel, record, tunnelIds, unit, listed>>, TunnelsTypeOK', NEW ok \in BOOLEAN, RunEnds(r, ok),
         \A h \in TunnelHosts : ~YetToList(trun[r], h)
  PROVE  TunnelsInv'
<1>1. PICK k \in RunRecords : trun' = [trun EXCEPT ![r] = k] /\ SameRun(k, trun[r]) /\ k.step = "done"
  BY RunsAreRecords, RunStops
<1>2. RunFits(k) /\ ~Running(k) /\ k.machine = trun[r].machine /\ k.id = trun[r].id
  BY <1>1 DEF RunFits, Running, SameRun
<1> QED BY <1>1, <1>2, RunAsks

\* Steps that ask, and steps of the sidecar's sites.
LEMMA AskingKeeps ==
  ASSUME TunnelsInv, OneRunPerMachine, "record" \notin TunnelFaults, NEW r \in TunnelRuns,
         \/ TunnelPreflight(r) \/ ReadList(r) \/ LookupTunnel(r)
         \/ TailnetPreflight(r) \/ SetSite(r) \/ DropSite(r)
  PROVE  TunnelsInv'
<1>1. PICK j, m, h : j = trun[r] /\ m = j.machine /\ h = j.host
  OBVIOUS
<1>2. /\ Running(j) /\ RunFits(j) /\ m \in TunnelMachines /\ h \in TunnelHosts
      /\ UNCHANGED <<owner, tunnel, record, tunnelIds, unit, listed>>
  BY <1>1 DEF TunnelsInv, RunFits, Running, TunnelPreflight, ReadList, LookupTunnel, TailnetPreflight, SetSite, DropSite
<1>3. (j.op = "publish" => PublishReached(j)) /\ (j.op = "unpublish" => UnpublishReached(j))
  BY <1>1, <1>2 DEF TunnelsInv, RunReached
<1>4. TunnelsTypeOK'
  BY <1>1, <1>2 DEF TunnelsInv, TunnelsTypeOK, TunnelPreflight, ReadList, LookupTunnel, TailnetPreflight, SetSite, DropSite
<1>5. CASE TunnelPreflight(r)
  <2>1. RunAt(j, "publish", {"preflight"})
    BY <1>1, <1>2, <1>5 DEF RunFits, RunAt, TunnelPreflight
  <2>2. CASE RunEnds(r, FALSE)
    BY <1>1, <1>2, <1>4, <2>1, <2>2, RunGivesUp DEF YetToList, RunAt
  <2>3. CASE RunGoes(r, "claim")
    <3>1. PICK k \in RunRecords : trun' = [trun EXCEPT ![r] = k] /\ SameRun(k, j) /\ k.step = "claim"
      BY <1>1, <2>3, RunsAreRecords, RunMoves DEF RunSteps
    <3>2. RunFits(k) /\ RunReached(k)'
      BY <1>1, <1>2, <1>3, <2>1, <3>1 DEF RunFits, RunReached, PublishReached, SameRun, RunAt
    <3> QED BY <1>1, <1>2, <1>4, <2>1, <3>1, <3>2, RunAsks DEF SameRun, YetToList, RunAt
  <2> QED BY <1>5, <2>2, <2>3 DEF TunnelPreflight
<1>6. CASE ReadList(r)
  <2>1. j.step = "list" /\ j.op \in {"publish", "unpublish"} /\ trun' = [trun EXCEPT ![r].step = "write", ![r].seen = listed[m]]
    BY <1>1, <1>2, <1>6 DEF RunFits, RunAt, ReadList
  <2>2. TakesSeen(r, "write", listed[m]) /\ "write" \in RunSteps
    BY <2>1 DEF TakesSeen, RunSteps
  <2>3. listed[m] \in SUBSET TunnelHosts
    BY <1>2 DEF TunnelsInv, TunnelsTypeOK
  <2>4. PICK k \in RunRecords :
          /\ trun' = [trun EXCEPT ![r] = k] /\ k.step = "write" /\ k.seen = listed[m]
          /\ k.op = j.op /\ k.machine = m /\ k.host = h /\ k.fresh = j.fresh /\ k.up = j.up /\ k.id = j.id
    BY <1>1, <2>2, <2>3, RunsAreRecords, RunTakesSeen
  <2>5. RunFits(k)
    BY <1>2, <2>1, <2>4 DEF RunFits, RunAt
  <2>6. k.op = "publish" => PublishReached(k)'
    BY <1>1, <1>2, <1>3, <2>1, <2>4 DEF PublishReached
  <2>7. k.op = "unpublish" => UnpublishReached(k)'
    BY <1>1, <1>2, <1>3, <2>1, <2>4 DEF UnpublishReached
  <2>8. RunReached(k)'
    BY <2>6, <2>7 DEF RunReached
  <2>9. \A g \in TunnelHosts : YetToList(j, g) => YetToList(k, g)
    BY <1>1, <2>1, <2>4 DEF YetToList
  <2> QED BY <1>1, <1>2, <1>4, <2>4, <2>5, <2>8, <2>9, RunAsks
<1>7. CASE LookupTunnel(r)
  <2>1. RunAt(j, "unpublish", {"lookup"})
    BY <1>1, <1>2, <1>7 DEF RunFits, RunAt, LookupTunnel
  <2>2. CASE RunEnds(r, FALSE)
    BY <1>1, <1>2, <1>4, <2>1, <2>2, RunGivesUp DEF YetToList, RunAt
  <2>3. CASE (owner[h] = NoMachine /\ RunGoes(r, "list")) \/ (owner[h] = m /\ RunGoes(r, "uncname"))
    <3>1. PICK step : step \in {"list", "uncname"} /\ RunGoes(r, step) /\ (step = "list" <=> owner[h] # m)
      BY <1>2, <2>3, TunnelsAssumption
    <3>2. PICK k \in RunRecords : trun' = [trun EXCEPT ![r] = k] /\ SameRun(k, j) /\ k.step = step
      BY <1>1, <3>1, RunsAreRecords, RunMoves DEF RunSteps
    <3>3. RunFits(k)
      BY <1>1, <1>2, <2>1, <3>1, <3>2 DEF RunFits, SameRun, RunAt
    <3>4. UnpublishReached(k)'
      BY <1>1, <1>2, <1>3, <2>1, <3>1, <3>2 DEF UnpublishReached, SameRun, RunAt
    <3>5. RunReached(k)'
      BY <2>1, <3>2, <3>4 DEF RunReached, SameRun, RunAt
    <3>6. k.machine = m /\ k.id = j.id /\ \A g \in TunnelHosts : ~YetToList(j, g)
      BY <1>1, <2>1, <3>2 DEF SameRun, YetToList, RunAt
    <3> QED BY <1>1, <1>2, <1>4, <3>2, <3>3, <3>5, <3>6, RunAsks
  <2> QED BY <1>1, <1>7, <2>2, <2>3 DEF LookupTunnel
<1>8. CASE TailnetPreflight(r) \/ SetSite(r) \/ DropSite(r)
  <2>1. RunAt(j, "tailnet", {"tailcheck", "site"}) \/ RunAt(j, "untailnet", {"unsite"})
    BY <1>1, <1>2, <1>8 DEF RunFits, RunAt, TailnetPreflight, SetSite, DropSite
  <2>2. CASE RunEnds(r, FALSE)
    BY <1>1, <1>2, <1>4, <2>1, <2>2, RunGivesUp DEF YetToList, RunAt
  <2>3. CASE ~RunEnds(r, FALSE)
    <3>1. PICK step : /\ RunGoes(r, step) /\ step \in RunSteps
                      /\ RunAt([op |-> j.op, step |-> step], "tailnet", {"site", "arecord"})
                         \/ RunAt([op |-> j.op, step |-> step], "untailnet", {"unrecord"})
      <4>1. CASE TailnetPreflight(r)
        BY <1>1, <2>1, <2>3, <4>1 DEF TailnetPreflight, RunAt, RunSteps
      <4>2. CASE SetSite(r)
        BY <1>1, <2>1, <2>3, <4>2 DEF SetSite, RunAt, RunSteps
      <4>3. CASE DropSite(r)
        BY <1>1, <2>1, <2>3, <4>3 DEF DropSite, RunAt, RunSteps
      <4> QED BY <1>8, <4>1, <4>2, <4>3
    <3>2. PICK k \in RunRecords : trun' = [trun EXCEPT ![r] = k] /\ SameRun(k, j) /\ k.step = step
      BY <1>1, <3>1, RunsAreRecords, RunMoves
    <3>3. RunFits(k) /\ k.op \in {"tailnet", "untailnet"}
      BY <1>1, <1>2, <2>1, <3>1, <3>2 DEF RunFits, SameRun, RunAt
    <3>4. RunReached(k)'
      BY <3>3 DEF RunReached
    <3> QED BY <1>1, <1>2, <1>4, <2>1, <3>2, <3>3, <3>4, RunAsks DEF SameRun, YetToList, RunAt
  <2> QED BY <2>2, <2>3
<1> QED BY <1>5, <1>6, <1>7, <1>8

\* What is owned and not on the list is this command's to list.
LEMMA UnlistedIsMine ==
  ASSUME TunnelsInv, OneRunPerMachine, NEW r \in TunnelRuns, Running(trun[r]),
         NEW h \in TunnelHosts, trun[r].machine \in TunnelMachines, owner[h] = trun[r].machine,
         h \notin listed[trun[r].machine]
  PROVE  YetToList(trun[r], h)
<1>1. PICK q \in TunnelRuns : trun[q].machine = trun[r].machine /\ YetToList(trun[q], h)
  BY DEF TunnelsInv, OwnedListed
<1>2. q = r
  BY <1>1 DEF OneRunPerMachine, YetToList, Running
<1> QED BY <1>1, <1>2

\* The claim, and the tunnel.
LEMMA ClaimTunnelKeeps ==
  ASSUME TunnelsInv, OneRunPerMachine, NEW r \in TunnelRuns, ClaimTunnel(r)
  PROVE  TunnelsInv'
<1>1. PICK j, m, h : j = trun[r] /\ m = j.machine /\ h = j.host
  OBVIOUS
<1>2. /\ Running(j) /\ RunFits(j) /\ m \in TunnelMachines /\ h \in TunnelHosts /\ RunAt(j, "publish", {"claim"})
      /\ UNCHANGED <<held, tunnel, record, tunnelIds, unit, listed, site>>
  BY <1>1 DEF TunnelsInv, RunFits, Running, RunAt, ClaimTunnel
<1>3. CASE RunEnds(r, FALSE) /\ UNCHANGED owner
  <2>1. TunnelsTypeOK'
    BY <1>2, <1>3 DEF TunnelsInv, TunnelsTypeOK
  <2> QED BY <1>1, <1>2, <1>3, <2>1, RunGivesUp DEF YetToList, RunAt
<1>4. CASE /\ owner[h] \in {NoMachine, m} /\ owner' = [owner EXCEPT ![h] = m]
           /\ trun' = [trun EXCEPT ![r].step = "create", ![r].fresh = owner[h] = NoMachine]
  <2>1. PICK fresh \in BOOLEAN : fresh <=> owner[h] = NoMachine
    OBVIOUS
  <2>2. TakesFresh(r, "create", fresh) /\ "create" \in RunSteps
    <3>1. trun' = [trun EXCEPT ![r].step = "create", ![r].fresh = fresh]
      BY <1>4, <2>1, Zenon
    <3> QED BY <3>1 DEF TakesFresh, RunSteps
  <2>4. PICK k \in RunRecords :
          /\ trun' = [trun EXCEPT ![r] = k] /\ k.step = "create" /\ k.fresh = fresh
          /\ k.op = "publish" /\ k.machine = m /\ k.host = h /\ k.id = j.id /\ k.up = j.up
    BY <1>1, <1>2, <2>2, RunsAreRecords, RunTakesFresh DEF RunAt
  <2>7. owner'[h] = m /\ owner \in [TunnelHosts -> TunnelMachines \cup {NoMachine}]
        /\ \A g \in TunnelHosts \ {h} : owner'[g] = owner[g]
    BY <1>2, <1>4 DEF TunnelsInv, TunnelsTypeOK
  <2>8. TunnelsTypeOK'
    BY <1>2, <1>4, <2>7 DEF TunnelsInv, TunnelsTypeOK
  <2>9. OthersLeft(m)
    BY <1>2, <1>4, <2>7 DEF OthersLeft
  <2>10. RunFits(k)
    BY <1>2, <2>4 DEF RunFits, RunAt
  <2>11. owner[h] = m => h \in listed[m]
    BY <1>1, <1>2, UnlistedIsMine DEF YetToList, RunAt
  <2>12. owner[h] = NoMachine => tunnel[h] = 0 \/ unit[m][h] # tunnel[h]
    BY <1>2, TunnelsAssumption DEF TunnelsInv, ConnectorsOwned
  <2>13. RunReached(k)'
    <3>1. ~j.up
      BY <1>1, <1>2 DEF TunnelsInv, RunReached, PublishReached, RunAt
    <3> QED BY <1>2, <1>4, <2>1, <2>4, <2>7, <2>11, <2>12, <3>1 DEF RunReached, PublishReached
  <2>14. RecordsOwned'
    BY <1>2, <2>7, TunnelsAssumption DEF TunnelsInv, RecordsOwned, OwnCname
  <2>15. \A g \in TunnelHosts : tunnel'[g] # 0 /\ unit'[m][g] = tunnel'[g] => owner'[g] = m
    BY <1>2, <2>7 DEF TunnelsInv, ConnectorsOwned
  <2>16. \A g \in TunnelHosts : owner'[g] = m => g \in listed'[m] \/ YetToList(k, g)
    <3> TAKE g \in TunnelHosts
    <3>1. CASE g = h
      BY <1>2, <1>4, <2>1, <2>4, <2>11, <3>1 DEF YetToList
    <3>2. CASE g # h /\ owner[g] = m /\ g \notin listed[m]
      BY <1>1, <1>2, <3>2, UnlistedIsMine DEF YetToList
    <3> QED BY <1>2, <2>7, <3>1, <3>2
  <2>17. k.id <= tunnelIds' /\ tunnelIds' = tunnelIds /\ \A g \in TunnelHosts : unit'[m][g] <= tunnelIds'
    BY <1>1, <1>2, <2>4 DEF TunnelsInv
  <2> QED BY <1>1, <1>2, <2>4, <2>8, <2>9, <2>10, <2>13, <2>14, <2>15, <2>16, <2>17, RunStepKeeps
<1> QED BY <1>1, <1>3, <1>4 DEF ClaimTunnel

LEMMA CreateTunnelKeeps ==
  ASSUME TunnelsInv, OneRunPerMachine, "provider" \notin TunnelFaults, NEW r \in TunnelRuns, CreateTunnel(r)
  PROVE  TunnelsInv'
<1>1. PICK j, m, h : j = trun[r] /\ m = j.machine /\ h = j.host
  OBVIOUS
<1>2. /\ Running(j) /\ RunFits(j) /\ m \in TunnelMachines /\ h \in TunnelHosts /\ RunAt(j, "publish", {"create"})
      /\ UNCHANGED <<owner, held, record, unit, listed, site>>
  BY <1>1 DEF TunnelsInv, RunFits, Running, RunAt, CreateTunnel
<1>3. PublishReached(j)
  BY <1>1, <1>2 DEF TunnelsInv, RunReached, RunAt
<1>4. /\ tunnel[h] # 0 \/ tunnelIds < MaxTunnels
      /\ tunnelIds' = (IF tunnel[h] # 0 THEN tunnelIds ELSE tunnelIds + 1)
      /\ tunnel' = [tunnel EXCEPT ![h] = IF @ # 0 THEN @ ELSE tunnelIds + 1]
      /\ trun' = [trun EXCEPT ![r].step = "dns", ![r].id = tunnel'[h]]
  BY <1>1 DEF CreateTunnel, Provider
<1>5. /\ tunnelIds \in 0 .. MaxTunnels /\ tunnel \in [TunnelHosts -> 0 .. MaxTunnels] /\ MaxTunnels \in Nat
      /\ \A g \in TunnelHosts : tunnel[g] <= tunnelIds /\ record[g].id <= tunnelIds
      /\ \A g, f \in TunnelHosts : g # f /\ tunnel[g] # 0 => tunnel[g] # tunnel[f]
      /\ record \in [TunnelHosts -> [type : {"none", "CNAME", "A"}, id : 0..MaxTunnels]]
      /\ unit \in [TunnelMachines -> [TunnelHosts -> 0..MaxTunnels]]
  BY TunnelsAssumption DEF TunnelsInv, TunnelsTypeOK
<1>6. /\ tunnel'[h] = (IF tunnel[h] # 0 THEN tunnel[h] ELSE tunnelIds + 1)
      /\ \A g \in TunnelHosts \ {h} : tunnel'[g] = tunnel[g]
      /\ tunnel'[h] \in 1 .. MaxTunnels /\ tunnel'[h] <= tunnelIds' /\ tunnelIds <= tunnelIds'
      /\ tunnelIds' \in 0 .. MaxTunnels /\ tunnel' \in [TunnelHosts -> 0 .. MaxTunnels]
  BY <1>2, <1>4, <1>5
<1>7. PICK t : t = tunnel'[h]
  OBVIOUS
<1>8. TakesId(r, "dns", t) /\ "dns" \in RunSteps
  BY <1>4, <1>7 DEF TakesId, RunSteps
<1>10. PICK k \in RunRecords :
         /\ trun' = [trun EXCEPT ![r] = k] /\ k.step = "dns" /\ k.id = t
         /\ k.op = "publish" /\ k.machine = m /\ k.host = h /\ k.fresh = j.fresh /\ k.up = j.up
  BY <1>1, <1>2, <1>6, <1>7, <1>8, RunsAreRecords, RunTakesId DEF RunAt
<1>12. TunnelsTypeOK'
  <2>1. \A g \in TunnelHosts : tunnel'[g] <= tunnelIds' /\ record'[g].id <= tunnelIds'
    BY <1>2, <1>5, <1>6
  <2>2. \A g, f \in TunnelHosts : g # f /\ tunnel'[g] # 0 => tunnel'[g] # tunnel'[f]
    BY <1>2, <1>5, <1>6
  <2> QED BY <1>2, <1>6, <2>1, <2>2 DEF TunnelsInv, TunnelsTypeOK
<1>13. owner[h] = m
  BY <1>1, <1>2, <1>3 DEF PublishReached, RunAt
<1>14. OthersLeft(m)
  BY <1>2, <1>4, <1>6, <1>13 DEF OthersLeft
<1>15. RunFits(k)
  BY <1>2, <1>10 DEF RunFits, RunAt
<1>16. k.fresh => tunnel'[h] = 0 \/ unit[m][h] # tunnel'[h]
  <2>1. unit[m][h] <= tunnelIds /\ unit[m][h] \in Nat
    BY <1>2, <1>5 DEF TunnelsInv
  <2> QED BY <1>1, <1>2, <1>3, <1>5, <1>6, <1>10, <2>1 DEF PublishReached, RunAt
<1>17. (~k.fresh => h \in listed[m]) /\ ~k.up
  BY <1>1, <1>2, <1>3, <1>10 DEF PublishReached, RunAt
<1>18. RunReached(k)'
  BY <1>2, <1>6, <1>7, <1>10, <1>13, <1>16, <1>17 DEF RunReached, PublishReached
<1>19. RecordsOwned'
  <2>1. \A g \in TunnelHosts : OwnCname(g) => OwnCname(g)'
    BY <1>2, <1>6 DEF OwnCname
  <2> QED BY <1>2, <2>1 DEF TunnelsInv, RecordsOwned
<1>20. \A g \in TunnelHosts : tunnel'[g] # 0 /\ unit'[m][g] = tunnel'[g] => owner'[g] = m
  BY <1>2, <1>6, <1>13 DEF TunnelsInv, ConnectorsOwned
<1>21. \A g \in TunnelHosts : owner'[g] = m => g \in listed'[m] \/ YetToList(k, g)
  <2> TAKE g \in TunnelHosts
  <2>1. owner[g] = m /\ g \notin listed[m] => YetToList(j, g)
    BY <1>1, <1>2, UnlistedIsMine
  <2> QED BY <1>1, <1>2, <1>10, <2>1 DEF YetToList, RunAt
<1>22. k.id <= tunnelIds' /\ tunnelIds' \in {tunnelIds, tunnelIds + 1}
       /\ \A g \in TunnelHosts : unit'[m][g] <= tunnelIds'
  <2>1. \A g \in TunnelHosts : unit[m][g] <= tunnelIds /\ unit[m][g] \in Nat
    BY <1>2, <1>5 DEF TunnelsInv
  <2> QED BY <1>2, <1>4, <1>5, <1>6, <1>7, <1>10, <2>1
<1> QED BY <1>1, <1>2, <1>10, <1>12, <1>14, <1>15, <1>18, <1>19, <1>20, <1>21, <1>22, RunStepKeeps

\* The record, and the row given back.
LEMMA PointTunnelKeeps ==
  ASSUME TunnelsInv, OneRunPerMachine, "provider" \notin TunnelFaults, NEW r \in TunnelRuns, PointTunnel(r)
  PROVE  TunnelsInv'
<1>1. PICK j, m, h : j = trun[r] /\ m = j.machine /\ h = j.host
  OBVIOUS
<1>2. /\ Running(j) /\ RunFits(j) /\ m \in TunnelMachines /\ h \in TunnelHosts /\ RunAt(j, "publish", {"dns"})
      /\ UNCHANGED <<owner, held, tunnel, tunnelIds, unit, listed, site>>
  BY <1>1 DEF TunnelsInv, RunFits, Running, RunAt, PointTunnel
<1>3. PublishReached(j)
  BY <1>1, <1>2 DEF TunnelsInv, RunReached, RunAt
<1>4. /\ owner[h] = m /\ owner[h] # NoMachine /\ j.id = tunnel[h] /\ tunnel[h] # 0 /\ ~j.up
      /\ j.fresh => unit[m][h] # tunnel[h]
      /\ ~j.fresh => h \in listed[m]
      /\ tunnel[h] \in 0 .. MaxTunnels /\ tunnel[h] <= tunnelIds
  BY <1>1, <1>2, <1>3, TunnelsAssumption DEF PublishReached, RunAt, TunnelsInv, TunnelsTypeOK
<1>5. PICK mine : mine = [type |-> "CNAME", id |-> tunnel[h]]
  OBVIOUS
<1>6. \/ record[h] \in {NoRecord, mine} /\ record' = [record EXCEPT ![h] = mine] /\ RunGoes(r, "list")
      \/ record[h] \notin {NoRecord, mine} /\ RunGoes(r, "undo") /\ UNCHANGED record
  BY <1>1, <1>4, <1>5 DEF PointTunnel, Provider
<1>7. CASE record[h] \in {NoRecord, mine} /\ record' = [record EXCEPT ![h] = mine] /\ RunGoes(r, "list")
  <2>1. PICK k \in RunRecords : trun' = [trun EXCEPT ![r] = k] /\ SameRun(k, j) /\ k.step = "list"
    BY <1>1, <1>7, RunsAreRecords, RunMoves DEF RunSteps
  <2>2. record'[h] = mine /\ \A g \in TunnelHosts \ {h} : record'[g] = record[g]
    BY <1>2, <1>7 DEF TunnelsInv, TunnelsTypeOK
  <2>3. TunnelsTypeOK'
    <3>1. mine \in [type : {"none", "CNAME", "A"}, id : 0..MaxTunnels] /\ mine.id <= tunnelIds
      BY <1>4, <1>5
    <3>2. \A g \in TunnelHosts : record'[g].id <= tunnelIds
      BY <2>2, <3>1 DEF TunnelsInv, TunnelsTypeOK
    <3> QED BY <1>2, <1>7, <3>1, <3>2 DEF TunnelsInv, TunnelsTypeOK
  <2>4. OthersLeft(m)
    BY <1>2, <1>4, <2>2 DEF OthersLeft
  <2>5. RunFits(k) /\ k.machine = m
    BY <1>1, <1>2, <2>1 DEF RunFits, RunAt, SameRun
  <2>6. RunReached(k)'
    BY <1>1, <1>2, <1>4, <2>1 DEF RunReached, PublishReached, RunAt, SameRun
  <2>7. RecordsOwned'
    BY <1>2, <1>4, <1>5, <2>2 DEF TunnelsInv, RecordsOwned, OwnCname
  <2>8. \A g \in TunnelHosts : tunnel'[g] # 0 /\ unit'[m][g] = tunnel'[g] => owner'[g] = m
    BY <1>2 DEF TunnelsInv, ConnectorsOwned
  <2>9. \A g \in TunnelHosts : owner'[g] = m => g \in listed'[m] \/ YetToList(k, g)
    <3> TAKE g \in TunnelHosts
    <3>1. owner[g] = m /\ g \notin listed[m] => YetToList(j, g)
      BY <1>1, <1>2, UnlistedIsMine
    <3> QED BY <1>1, <1>2, <1>4, <2>1, <3>1 DEF YetToList, SameRun, RunAt
  <2>10. k.id <= tunnelIds' /\ tunnelIds' = tunnelIds /\ \A g \in TunnelHosts : unit'[m][g] <= tunnelIds'
    BY <1>1, <1>2, <2>1 DEF TunnelsInv, SameRun
  <2> QED BY <1>1, <1>2, <2>1, <2>3, <2>4, <2>5, <2>6, <2>7, <2>8, <2>9, <2>10, RunStepKeeps
<1>8. CASE record[h] \notin {NoRecord, mine} /\ RunGoes(r, "undo") /\ UNCHANGED record
  <2>1. PICK k \in RunRecords : trun' = [trun EXCEPT ![r] = k] /\ SameRun(k, j) /\ k.step = "undo"
    BY <1>1, <1>8, RunsAreRecords, RunMoves DEF RunSteps
  <2>2. record[h].type # "CNAME"
    BY <1>2, <1>5, <1>8 DEF TunnelsInv, RecordsOwned, OwnCname
  <2>3. TunnelsTypeOK'
    BY <1>2, <1>8 DEF TunnelsInv, TunnelsTypeOK
  <2>4. RunFits(k) /\ k.machine = m /\ k.id = j.id
    BY <1>1, <1>2, <2>1 DEF RunFits, RunAt, SameRun
  <2>5. RunReached(k)'
    BY <1>1, <1>2, <1>4, <1>8, <2>1, <2>2 DEF RunReached, PublishReached, RunAt, SameRun
  <2>6. \A g \in TunnelHosts : YetToList(j, g) => YetToList(k, g)
    BY <1>2, <2>1 DEF YetToList, SameRun, RunAt
  <2> QED BY <1>1, <1>2, <1>8, <2>1, <2>3, <2>4, <2>5, <2>6, RunAsks
<1> QED BY <1>6, <1>7, <1>8

LEMMA UndoClaimKeeps ==
  ASSUME TunnelsInv, OneRunPerMachine, NEW r \in TunnelRuns, UndoClaim(r)
  PROVE  TunnelsInv'
<1>1. PICK j, m, h : j = trun[r] /\ m = j.machine /\ h = j.host
  OBVIOUS
<1>2. /\ Running(j) /\ RunFits(j) /\ m \in TunnelMachines /\ h \in TunnelHosts /\ RunAt(j, "publish", {"undo"})
      /\ UNCHANGED <<held, tunnel, record, tunnelIds, unit, listed, site>> /\ RunEnds(r, FALSE)
  BY <1>1 DEF TunnelsInv, RunFits, Running, RunAt, UndoClaim
<1>3. PublishReached(j)
  BY <1>1, <1>2 DEF TunnelsInv, RunReached, RunAt
<1>4. /\ owner[h] = m /\ record[h].type # "CNAME"
      /\ j.fresh => tunnel[h] = 0 \/ unit[m][h] # tunnel[h]
      /\ ~j.fresh => h \in listed[m]
  BY <1>1, <1>2, <1>3 DEF PublishReached, RunAt
<1>5. PICK k \in RunRecords : trun' = [trun EXCEPT ![r] = k] /\ SameRun(k, j) /\ k.step = "done"
  BY <1>1, <1>2, RunsAreRecords, RunStops
<1>6. /\ owner'[h] = (IF j.fresh THEN NoMachine ELSE m)
      /\ \A g \in TunnelHosts \ {h} : owner'[g] = owner[g]
      /\ owner' \in [TunnelHosts -> TunnelMachines \cup {NoMachine}]
  BY <1>1, <1>2, <1>4 DEF UndoClaim, TunnelsInv, TunnelsTypeOK
<1>7. TunnelsTypeOK'
  BY <1>2, <1>6 DEF TunnelsInv, TunnelsTypeOK
<1>8. OthersLeft(m)
  BY <1>2, <1>4, <1>6 DEF OthersLeft
<1>9. RunFits(k) /\ k.machine = m /\ ~Running(k)
  BY <1>1, <1>2, <1>5 DEF RunFits, Running, SameRun
<1>10. RecordsOwned'
  BY <1>2, <1>4, <1>6 DEF TunnelsInv, RecordsOwned, OwnCname
<1>11. \A g \in TunnelHosts : tunnel'[g] # 0 /\ unit'[m][g] = tunnel'[g] => owner'[g] = m
  BY <1>2, <1>4, <1>6 DEF TunnelsInv, ConnectorsOwned
<1>12. \A g \in TunnelHosts : owner'[g] = m => g \in listed'[m] \/ YetToList(k, g)
  <2> TAKE g \in TunnelHosts
  <2>1. owner[g] = m /\ g \notin listed[m] => YetToList(j, g)
    BY <1>1, <1>2, UnlistedIsMine
  <2> QED BY <1>1, <1>2, <1>4, <1>6, <2>1, TunnelsAssumption DEF YetToList
<1>13. k.id <= tunnelIds' /\ tunnelIds' = tunnelIds /\ \A g \in TunnelHosts : unit'[m][g] <= tunnelIds'
  BY <1>1, <1>2, <1>5 DEF TunnelsInv, SameRun
<1> QED BY <1>1, <1>2, <1>5, <1>7, <1>8, <1>9, <1>10, <1>11, <1>12, <1>13, RunStepKeeps

\* The machine's list.
LEMMA WriteListKeeps ==
  ASSUME TunnelsInv, OneRunPerMachine, NEW r \in TunnelRuns, WriteList(r)
  PROVE  TunnelsInv'
<1>1. PICK j, m, h : j = trun[r] /\ m = j.machine /\ h = j.host
  OBVIOUS
<1>2. /\ Running(j) /\ RunFits(j) /\ m \in TunnelMachines /\ h \in TunnelHosts
      /\ j.step = "write" /\ j.op \in {"publish", "unpublish"}
      /\ UNCHANGED <<owner, held, tunnel, record, tunnelIds, unit, site>>
  BY <1>1 DEF TunnelsInv, RunFits, Running, RunAt, WriteList
<1>3. /\ j.op = "publish" => PublishReached(j)
      /\ j.op = "unpublish" => UnpublishReached(j)
  BY <1>1, <1>2 DEF TunnelsInv, RunReached
<1>4. /\ j.seen = listed[m] /\ (j.op = "publish" <=> owner[h] = m)
      /\ j.op = "unpublish" => unit[m][h] = 0
  BY <1>1, <1>2, <1>3 DEF PublishReached, UnpublishReached
<1>5. /\ listed'[m] = (IF j.op = "publish" THEN listed[m] \cup {h} ELSE listed[m] \ {h})
      /\ \A x \in TunnelMachines \ {m} : listed'[x] = listed[x]
      /\ listed' \in [TunnelMachines -> SUBSET TunnelHosts]
  BY <1>1, <1>2, <1>4 DEF WriteList, TunnelsInv, TunnelsTypeOK
<1>6. TunnelsTypeOK'
  BY <1>2, <1>5 DEF TunnelsInv, TunnelsTypeOK
<1>7. PICK k \in RunRecords : /\ trun' = [trun EXCEPT ![r] = k] /\ SameRun(k, j)
                              /\ k.step = "done" \/ (k.step = "install" /\ j.op = "publish")
  <2>1. RunEnds(r, TRUE) \/ (RunGoes(r, "install") /\ j.op = "publish")
    BY <1>1 DEF WriteList
  <2>2. CASE RunEnds(r, TRUE)
    BY <1>1, <2>2, RunsAreRecords, RunStops
  <2>3. CASE RunGoes(r, "install") /\ j.op = "publish"
    BY <1>1, <2>3, RunsAreRecords, RunMoves DEF RunSteps
  <2> QED BY <2>1, <2>2, <2>3
<1>8. RunFits(k) /\ k.machine = m
  BY <1>1, <1>2, <1>7 DEF RunFits, RunAt, SameRun, Running
<1>9. Running(k) => RunReached(k)'
  BY <1>1, <1>2, <1>4, <1>5, <1>7 DEF RunReached, PublishReached, Running, SameRun
<1>10. OthersLeft(m)
  BY <1>2, <1>5 DEF OthersLeft
<1>11. RecordsOwned'
  BY <1>2 DEF TunnelsInv, RecordsOwned, OwnCname
<1>12. \A g \in TunnelHosts : tunnel'[g] # 0 /\ unit'[m][g] = tunnel'[g] => owner'[g] = m
  BY <1>2 DEF TunnelsInv, ConnectorsOwned
<1>13. \A g \in TunnelHosts : owner'[g] = m => g \in listed'[m] \/ YetToList(k, g)
  <2> TAKE g \in TunnelHosts
  <2>1. owner[g] = m /\ g \notin listed[m] => YetToList(j, g)
    BY <1>1, <1>2, UnlistedIsMine
  <2> QED BY <1>1, <1>2, <1>4, <1>5, <2>1 DEF YetToList
<1>14. k.id <= tunnelIds' /\ tunnelIds' = tunnelIds /\ \A g \in TunnelHosts : unit'[m][g] <= tunnelIds'
  BY <1>1, <1>2, <1>7 DEF TunnelsInv, SameRun
<1> QED BY <1>1, <1>2, <1>6, <1>7, <1>8, <1>9, <1>10, <1>11, <1>12, <1>13, <1>14, RunStepKeeps

\* The connector.
LEMMA ConnectorKeeps ==
  ASSUME TunnelsInv, OneRunPerMachine, NEW r \in TunnelRuns, InstallTunnel(r) \/ UninstallTunnel(r)
  PROVE  TunnelsInv'
<1>1. PICK j, m, h : j = trun[r] /\ m = j.machine /\ h = j.host
  OBVIOUS
<1>2. /\ Running(j) /\ RunFits(j) /\ m \in TunnelMachines /\ h \in TunnelHosts
      /\ RunAt(j, "publish", {"install"}) \/ RunAt(j, "unpublish", {"uninstall"})
      /\ UNCHANGED <<owner, held, tunnel, record, tunnelIds, listed, site>>
  BY <1>1 DEF TunnelsInv, RunFits, Running, RunAt, InstallTunnel, UninstallTunnel
<1>3. RunAt(j, "publish", {"install"}) => owner[h] = m /\ h \in listed[m]
  BY <1>1, <1>2 DEF TunnelsInv, RunReached, PublishReached, RunAt
<1>4. \A g \in TunnelHosts : ~YetToList(j, g)
  BY <1>2 DEF YetToList, RunAt
<1>5. CASE RunEnds(r, FALSE) /\ UNCHANGED unit
  <2>1. TunnelsTypeOK'
    BY <1>2, <1>5 DEF TunnelsInv, TunnelsTypeOK
  <2> QED BY <1>1, <1>2, <1>4, <1>5, <2>1, RunGivesUp
<1>6. CASE ~(RunEnds(r, FALSE) /\ UNCHANGED unit)
  <2>1. j \in RunRecords /\ j.id \in 0 .. MaxTunnels /\ j.id <= tunnelIds /\ tunnelIds \in Nat
    BY <1>1, TunnelsAssumption DEF TunnelsInv, RunRecords, TunnelsTypeOK
  <2>2. PICK id \in 0 .. MaxTunnels : /\ unit' = [unit EXCEPT ![m][h] = id] /\ id <= tunnelIds
                                      /\ RunAt(j, "publish", {"install"}) \/ id = 0
    <3>1. CASE RunAt(j, "publish", {"install"})
      BY <1>1, <1>2, <1>6, <2>1, <3>1 DEF InstallTunnel, UninstallTunnel, RunAt
    <3>2. CASE RunAt(j, "unpublish", {"uninstall"})
      <4>1. unit' = [unit EXCEPT ![m][h] = 0]
        BY <1>1, <1>6, <3>2 DEF InstallTunnel, UninstallTunnel, RunAt
      <4>2. 0 \in 0 .. MaxTunnels /\ 0 <= tunnelIds
        BY <2>1, TunnelsAssumption
      <4> QED BY <4>1, <4>2
    <3> QED BY <1>2, <3>1, <3>2
  <2>3. PICK k \in RunRecords :
          /\ trun' = [trun EXCEPT ![r] = k] /\ k.op = j.op /\ k.machine = m /\ k.host = h /\ k.id = j.id
          /\ \/ RunAt(j, "publish", {"install"}) /\ k.step = "list" /\ k.up = TRUE
             \/ RunAt(j, "unpublish", {"uninstall"}) /\ k.step = "lookup"
    <3>1. CASE RunAt(j, "publish", {"install"})
      <4>1. TakesUp(r, "list", TRUE) /\ "list" \in RunSteps
        BY <1>1, <1>6, <3>1 DEF InstallTunnel, UninstallTunnel, RunAt, TakesUp, RunSteps
      <4> QED BY <1>1, <3>1, <4>1, RunsAreRecords, RunTakesUp
    <3>2. CASE RunAt(j, "unpublish", {"uninstall"})
      <4>1. RunGoes(r, "lookup") /\ "lookup" \in RunSteps
        BY <1>1, <1>6, <3>2 DEF InstallTunnel, UninstallTunnel, RunAt, RunSteps
      <4> QED BY <1>1, <3>2, <4>1, RunsAreRecords, RunMoves DEF SameRun
    <3> QED BY <1>2, <3>1, <3>2
  <2>4. /\ unit \in [TunnelMachines -> [TunnelHosts -> 0 .. MaxTunnels]]
        /\ unit' \in [TunnelMachines -> [TunnelHosts -> 0 .. MaxTunnels]]
        /\ unit'[m][h] = id /\ \A g \in TunnelHosts \ {h} : unit'[m][g] = unit[m][g]
        /\ \A x \in TunnelMachines \ {m} : unit'[x] = unit[x]
    BY <1>2, <2>2 DEF TunnelsInv, TunnelsTypeOK
  <2>5. TunnelsTypeOK'
    BY <1>2, <2>4 DEF TunnelsInv, TunnelsTypeOK
  <2>6. OthersLeft(m)
    BY <1>2, <2>4 DEF OthersLeft
  <2>7. RunFits(k)
    BY <1>2, <2>3 DEF RunFits, RunAt, Running
  <2>8. RunReached(k)'
    <3>1. CASE RunAt(j, "publish", {"install"}) /\ k.step = "list" /\ k.up = TRUE
      BY <1>2, <1>3, <2>3, <3>1 DEF RunReached, PublishReached, RunAt, Running
    <3>2. CASE RunAt(j, "unpublish", {"uninstall"}) /\ k.step = "lookup"
      BY <1>2, <2>2, <2>3, <2>4, <3>2 DEF RunReached, UnpublishReached, RunAt, Running
    <3> QED BY <2>3, <3>1, <3>2
  <2>9. RecordsOwned'
    BY <1>2 DEF TunnelsInv, RecordsOwned, OwnCname
  <2>10. \A g \in TunnelHosts : tunnel'[g] # 0 /\ unit'[m][g] = tunnel'[g] => owner'[g] = m
    BY <1>2, <1>3, <2>2, <2>4 DEF TunnelsInv, ConnectorsOwned
  <2>11. \A g \in TunnelHosts : owner'[g] = m => g \in listed'[m] \/ YetToList(k, g)
    BY <1>1, <1>2, <1>4, UnlistedIsMine
  <2>12. k.id <= tunnelIds' /\ tunnelIds' = tunnelIds /\ \A g \in TunnelHosts : unit'[m][g] <= tunnelIds'
    BY <1>2, <2>1, <2>2, <2>3, <2>4 DEF TunnelsInv
  <2> QED BY <1>1, <1>2, <2>3, <2>5, <2>6, <2>7, <2>8, <2>9, <2>10, <2>11, <2>12, RunStepKeeps
<1> QED BY <1>5, <1>6

\* What an unpublish takes away.
LEMMA DeleteCnameKeeps ==
  ASSUME TunnelsInv, OneRunPerMachine, "provider" \notin TunnelFaults, NEW r \in TunnelRuns, DeleteCname(r)
  PROVE  TunnelsInv'
<1>1. PICK j, m, h : j = trun[r] /\ m = j.machine /\ h = j.host
  OBVIOUS
<1>2. /\ Running(j) /\ RunFits(j) /\ m \in TunnelMachines /\ h \in TunnelHosts /\ RunAt(j, "unpublish", {"uncname"})
      /\ UNCHANGED <<owner, held, tunnel, tunnelIds, unit, listed, site>>
      /\ RunGoes(r, "untunnel")
  BY <1>1 DEF TunnelsInv, RunFits, Running, RunAt, DeleteCname, Provider
<1>3. UnpublishReached(j)
  BY <1>1, <1>2 DEF TunnelsInv, RunReached, RunAt
<1>4. owner[h] = m /\ unit[m][h] = 0
  BY <1>1, <1>2, <1>3 DEF UnpublishReached, RunAt
<1>5. PICK k \in RunRecords : trun' = [trun EXCEPT ![r] = k] /\ SameRun(k, j) /\ k.step = "untunnel"
  BY <1>1, <1>2, RunsAreRecords, RunMoves DEF RunSteps
<1>6. /\ record'[h] = (IF OwnCname(h) THEN NoRecord ELSE record[h])
      /\ \A g \in TunnelHosts \ {h} : record'[g] = record[g]
      /\ record' \in [TunnelHosts -> [type : {"none", "CNAME", "A"}, id : 0..MaxTunnels]]
      /\ \A g \in TunnelHosts : record'[g].id <= tunnelIds
  <2>1. record' = [record EXCEPT ![h] = IF OwnCname(h) THEN NoRecord ELSE @]
    BY <1>1 DEF DeleteCname, Provider
  <2>2. NoRecord \in [type : {"none", "CNAME", "A"}, id : 0..MaxTunnels] /\ NoRecord.id = 0
    BY TunnelsAssumption DEF NoRecord
  <2>3. record \in [TunnelHosts -> [type : {"none", "CNAME", "A"}, id : 0..MaxTunnels]] /\ tunnelIds \in Nat
        /\ \A g \in TunnelHosts : record[g].id <= tunnelIds
    BY TunnelsAssumption DEF TunnelsInv, TunnelsTypeOK
  <2>4. /\ record'[h] = (IF OwnCname(h) THEN NoRecord ELSE record[h])
        /\ \A g \in TunnelHosts \ {h} : record'[g] = record[g]
        /\ record' \in [TunnelHosts -> [type : {"none", "CNAME", "A"}, id : 0..MaxTunnels]]
    BY <1>2, <2>1, <2>2, <2>3
  <2>5. \A g \in TunnelHosts : record'[g].id <= tunnelIds
    BY <1>2, <2>2, <2>3, <2>4
  <2> QED BY <2>4, <2>5
<1>7. record'[h].type # "CNAME"
  BY <1>2, <1>6 DEF NoRecord, TunnelsInv, RecordsOwned
<1>8. TunnelsTypeOK'
  BY <1>2, <1>6 DEF TunnelsInv, TunnelsTypeOK
<1>9. OthersLeft(m)
  BY <1>2, <1>6, <1>7 DEF OthersLeft
<1>10. RunFits(k) /\ k.machine = m
  BY <1>1, <1>2, <1>5 DEF RunFits, RunAt, SameRun
<1>11. RunReached(k)'
  BY <1>1, <1>2, <1>4, <1>5, <1>7 DEF RunReached, UnpublishReached, SameRun, RunAt
<1>12. RecordsOwned'
  BY <1>2, <1>6, <1>7 DEF TunnelsInv, RecordsOwned, OwnCname
<1>13. \A g \in TunnelHosts : tunnel'[g] # 0 /\ unit'[m][g] = tunnel'[g] => owner'[g] = m
  BY <1>2 DEF TunnelsInv, ConnectorsOwned
<1>14. \A g \in TunnelHosts : owner'[g] = m => g \in listed'[m] \/ YetToList(k, g)
  <2> TAKE g \in TunnelHosts
  <2>1. owner[g] = m /\ g \notin listed[m] => YetToList(j, g)
    BY <1>1, <1>2, UnlistedIsMine
  <2> QED BY <1>1, <1>2, <2>1 DEF YetToList, RunAt
<1>15. k.id <= tunnelIds' /\ tunnelIds' = tunnelIds /\ \A g \in TunnelHosts : unit'[m][g] <= tunnelIds'
  BY <1>1, <1>2, <1>5 DEF TunnelsInv, SameRun
<1> QED BY <1>1, <1>2, <1>5, <1>8, <1>9, <1>10, <1>11, <1>12, <1>13, <1>14, <1>15, RunStepKeeps

LEMMA DeleteTunnelKeeps ==
  ASSUME TunnelsInv, OneRunPerMachine, NEW r \in TunnelRuns, DeleteTunnel(r)
  PROVE  TunnelsInv'
<1>1. PICK j, m, h : j = trun[r] /\ m = j.machine /\ h = j.host
  OBVIOUS
<1>2. /\ Running(j) /\ RunFits(j) /\ m \in TunnelMachines /\ h \in TunnelHosts /\ RunAt(j, "unpublish", {"untunnel"})
      /\ UNCHANGED <<owner, held, record, tunnelIds, unit, listed, site>>
  BY <1>1 DEF TunnelsInv, RunFits, Running, RunAt, DeleteTunnel
<1>3. UnpublishReached(j)
  BY <1>1, <1>2 DEF TunnelsInv, RunReached, RunAt
<1>4. owner[h] = m /\ unit[m][h] = 0 /\ record[h].type # "CNAME"
  BY <1>1, <1>2, <1>3 DEF UnpublishReached, RunAt
<1>5. \A g \in TunnelHosts : ~YetToList(j, g)
  BY <1>2 DEF YetToList, RunAt
<1>6. CASE RunEnds(r, FALSE) /\ UNCHANGED tunnel
  <2>1. TunnelsTypeOK'
    BY <1>2, <1>6 DEF TunnelsInv, TunnelsTypeOK
  <2> QED BY <1>1, <1>2, <1>5, <1>6, <2>1, RunGivesUp
<1>7. CASE tunnel' = [tunnel EXCEPT ![h] = 0] /\ RunGoes(r, "release")
  <2>1. PICK k \in RunRecords : trun' = [trun EXCEPT ![r] = k] /\ SameRun(k, j) /\ k.step = "release"
    BY <1>1, <1>7, RunsAreRecords, RunMoves DEF RunSteps
  <2>2. /\ tunnel'[h] = 0 /\ \A g \in TunnelHosts \ {h} : tunnel'[g] = tunnel[g]
        /\ tunnel' \in [TunnelHosts -> 0 .. MaxTunnels] /\ tunnelIds \in Nat
    BY <1>2, <1>7, TunnelsAssumption DEF TunnelsInv, TunnelsTypeOK
  <2>3. TunnelsTypeOK'
    <3>1. \A g \in TunnelHosts : tunnel'[g] <= tunnelIds /\ record[g].id <= tunnelIds
      BY <2>2 DEF TunnelsInv, TunnelsTypeOK
    <3>2. \A g, f \in TunnelHosts : g # f /\ tunnel'[g] # 0 => tunnel'[g] # tunnel'[f]
      BY <2>2 DEF TunnelsInv, TunnelsTypeOK
    <3> QED BY <1>2, <2>2, <3>1, <3>2 DEF TunnelsInv, TunnelsTypeOK
  <2>4. OthersLeft(m)
    BY <1>2, <1>4, <2>2 DEF OthersLeft
  <2>5. RunFits(k) /\ k.machine = m
    BY <1>1, <1>2, <2>1 DEF RunFits, RunAt, SameRun
  <2>6. RunReached(k)'
    BY <1>1, <1>2, <1>4, <2>1 DEF RunReached, UnpublishReached, SameRun, RunAt
  <2>7. RecordsOwned'
    BY <1>2, <1>4, <2>2 DEF TunnelsInv, RecordsOwned, OwnCname
  <2>8. \A g \in TunnelHosts : tunnel'[g] # 0 /\ unit'[m][g] = tunnel'[g] => owner'[g] = m
    BY <1>2, <2>2 DEF TunnelsInv, ConnectorsOwned
  <2>9. \A g \in TunnelHosts : owner'[g] = m => g \in listed'[m] \/ YetToList(k, g)
    BY <1>1, <1>2, <1>5, UnlistedIsMine
  <2>10. k.id <= tunnelIds' /\ tunnelIds' = tunnelIds /\ \A g \in TunnelHosts : unit'[m][g] <= tunnelIds'
    BY <1>1, <1>2, <2>1 DEF TunnelsInv, SameRun
  <2> QED BY <1>1, <1>2, <2>1, <2>3, <2>4, <2>5, <2>6, <2>7, <2>8, <2>9, <2>10, RunStepKeeps
<1> QED BY <1>1, <1>6, <1>7 DEF DeleteTunnel

LEMMA ReleaseTunnelKeeps ==
  ASSUME TunnelsInv, OneRunPerMachine, NEW r \in TunnelRuns, ReleaseTunnel(r)
  PROVE  TunnelsInv'
<1>1. PICK j, m, h : j = trun[r] /\ m = j.machine /\ h = j.host
  OBVIOUS
<1>2. /\ Running(j) /\ RunFits(j) /\ m \in TunnelMachines /\ h \in TunnelHosts /\ RunAt(j, "unpublish", {"release"})
      /\ UNCHANGED <<tunnel, record, tunnelIds, unit, listed, site>>
  BY <1>1 DEF TunnelsInv, RunFits, Running, RunAt, ReleaseTunnel
<1>3. UnpublishReached(j)
  BY <1>1, <1>2 DEF TunnelsInv, RunReached, RunAt
<1>4. owner[h] = m /\ unit[m][h] = 0 /\ record[h].type # "CNAME"
  BY <1>1, <1>2, <1>3 DEF UnpublishReached, RunAt
<1>5. owner' = [owner EXCEPT ![h] = NoMachine] /\ held' = held \cup {h} /\ RunGoes(r, "list")
  BY <1>1, <1>4 DEF ReleaseTunnel
<1>6. PICK k \in RunRecords : trun' = [trun EXCEPT ![r] = k] /\ SameRun(k, j) /\ k.step = "list"
  BY <1>1, <1>5, RunsAreRecords, RunMoves DEF RunSteps
<1>7. /\ owner'[h] = NoMachine /\ \A g \in TunnelHosts \ {h} : owner'[g] = owner[g]
      /\ owner' \in [TunnelHosts -> TunnelMachines \cup {NoMachine}]
  BY <1>2, <1>5 DEF TunnelsInv, TunnelsTypeOK
<1>8. TunnelsTypeOK'
  BY <1>2, <1>5, <1>7 DEF TunnelsInv, TunnelsTypeOK
<1>9. OthersLeft(m)
  BY <1>2, <1>4, <1>7 DEF OthersLeft
<1>10. RunFits(k) /\ k.machine = m
  BY <1>1, <1>2, <1>6 DEF RunFits, RunAt, SameRun
<1>11. RunReached(k)'
  BY <1>1, <1>2, <1>4, <1>6, <1>7, TunnelsAssumption DEF RunReached, UnpublishReached, SameRun, RunAt
<1>12. RecordsOwned'
  BY <1>2, <1>4, <1>7 DEF TunnelsInv, RecordsOwned, OwnCname
<1>13. \A g \in TunnelHosts : tunnel'[g] # 0 /\ unit'[m][g] = tunnel'[g] => owner'[g] = m
  BY <1>2, <1>4, <1>7 DEF TunnelsInv, ConnectorsOwned
<1>14. \A g \in TunnelHosts : owner'[g] = m => g \in listed'[m] \/ YetToList(k, g)
  <2> TAKE g \in TunnelHosts
  <2>1. owner[g] = m /\ g \notin listed[m] => YetToList(j, g)
    BY <1>1, <1>2, UnlistedIsMine
  <2> QED BY <1>1, <1>2, <1>7, <2>1, TunnelsAssumption DEF YetToList, RunAt
<1>15. k.id <= tunnelIds' /\ tunnelIds' = tunnelIds /\ \A g \in TunnelHosts : unit'[m][g] <= tunnelIds'
  BY <1>1, <1>2, <1>6 DEF TunnelsInv, SameRun
<1> QED BY <1>1, <1>2, <1>6, <1>8, <1>9, <1>10, <1>11, <1>12, <1>13, <1>14, <1>15, RunStepKeeps

\* The A record of a Tailnet publication is never one of a tunnel.
LEMMA ARecordKeeps ==
  ASSUME TunnelsInv, OneRunPerMachine, "provider" \notin TunnelFaults, NEW r \in TunnelRuns,
         SetARecord(r) \/ DropARecord(r)
  PROVE  TunnelsInv'
<1>1. PICK j, m, h : j = trun[r] /\ m = j.machine /\ h = j.host
  OBVIOUS
<1>2. /\ Running(j) /\ RunFits(j) /\ m \in TunnelMachines /\ h \in TunnelHosts
      /\ RunAt(j, "tailnet", {"arecord"}) \/ RunAt(j, "untailnet", {"unrecord"})
      /\ UNCHANGED <<owner, tunnel, tunnelIds, unit, listed, site>>
  BY <1>1 DEF TunnelsInv, RunFits, Running, RunAt, SetARecord, DropARecord
<1>3. PICK a : a = [type |-> "A", id |-> 0]
  OBVIOUS
<1>4. /\ NoRecord \in [type : {"none", "CNAME", "A"}, id : 0..MaxTunnels] /\ NoRecord.id = 0
      /\ a \in [type : {"none", "CNAME", "A"}, id : 0..MaxTunnels] /\ a.id = 0
      /\ NoRecord.type # "CNAME" /\ a.type # "CNAME"
  BY <1>3, TunnelsAssumption DEF NoRecord
<1>5. /\ record \in [TunnelHosts -> [type : {"none", "CNAME", "A"}, id : 0..MaxTunnels]] /\ tunnelIds \in Nat
      /\ \A g \in TunnelHosts : record[g].id <= tunnelIds
  BY TunnelsAssumption DEF TunnelsInv, TunnelsTypeOK
<1>6. PICK ok \in BOOLEAN : RunEnds(r, ok)
  BY DEF SetARecord, DropARecord, Provider
<1>7. held' \in SUBSET TunnelHosts
  BY <1>1, <1>2 DEF SetARecord, DropARecord, TunnelsInv, TunnelsTypeOK
<1>8. PICK x \in [type : {"none", "CNAME", "A"}, id : 0..MaxTunnels] :
        /\ record' = [record EXCEPT ![h] = x] /\ x.id <= tunnelIds
        /\ x.type # "CNAME" \/ x = record[h]
        /\ x = record[h] \/ record[h] = NoRecord \/ record[h] = a \/ record[h].type = "A"
  <2>1. CASE record' = record
    BY <1>2, <1>5, <2>1
  <2>2. CASE SetARecord(r) /\ record' # record
    <3>1. record' = [record EXCEPT ![h] = a] /\ (record[h] = NoRecord \/ record[h] = a)
      BY <1>1, <1>3, <2>2 DEF SetARecord
    <3>2. a.id <= tunnelIds
      BY <1>4, <1>5
    <3> QED BY <1>4, <3>1, <3>2
  <2>3. CASE DropARecord(r) /\ record' # record
    <3>1. record' = [record EXCEPT ![h] = IF record[h].type = "A" THEN NoRecord ELSE record[h]]
      BY <1>1, <2>3 DEF DropARecord
    <3>2. record[h].type = "A" /\ record' = [record EXCEPT ![h] = NoRecord]
      BY <1>5, <2>3, <3>1
    <3>3. NoRecord.id <= tunnelIds
      BY <1>4, <1>5
    <3> QED BY <1>4, <3>2, <3>3
  <2>4. SetARecord(r) \/ DropARecord(r)
    OBVIOUS
  <2> QED BY <2>1, <2>2, <2>3, <2>4
<1>9. /\ record'[h] = x /\ \A g \in TunnelHosts \ {h} : record'[g] = record[g]
      /\ record' \in [TunnelHosts -> [type : {"none", "CNAME", "A"}, id : 0..MaxTunnels]]
      /\ \A g \in TunnelHosts : record'[g].id <= tunnelIds
  BY <1>2, <1>5, <1>8
<1>10. PICK k \in RunRecords : trun' = [trun EXCEPT ![r] = k] /\ SameRun(k, j) /\ k.step = "done"
  BY <1>1, <1>6, RunsAreRecords, RunStops
<1>11. TunnelsTypeOK'
  BY <1>2, <1>7, <1>9 DEF TunnelsInv, TunnelsTypeOK
<1>12. OthersLeft(m)
  BY <1>2, <1>8, <1>9 DEF OthersLeft
<1>13. RunFits(k) /\ k.machine = m /\ ~Running(k)
  BY <1>1, <1>2, <1>10 DEF RunFits, Running, SameRun
<1>14. RecordsOwned'
  BY <1>2, <1>8, <1>9 DEF TunnelsInv, RecordsOwned, OwnCname
<1>15. \A g \in TunnelHosts : tunnel'[g] # 0 /\ unit'[m][g] = tunnel'[g] => owner'[g] = m
  BY <1>2 DEF TunnelsInv, ConnectorsOwned
<1>16. \A g \in TunnelHosts : owner'[g] = m => g \in listed'[m] \/ YetToList(k, g)
  <2> TAKE g \in TunnelHosts
  <2>1. owner[g] = m /\ g \notin listed[m] => YetToList(j, g)
    BY <1>1, <1>2, UnlistedIsMine
  <2> QED BY <1>1, <1>2, <2>1 DEF YetToList, RunAt
<1>17. k.id <= tunnelIds' /\ tunnelIds' = tunnelIds /\ \A g \in TunnelHosts : unit'[m][g] <= tunnelIds'
  BY <1>1, <1>2, <1>10 DEF TunnelsInv, SameRun
<1> QED BY <1>1, <1>2, <1>10, <1>11, <1>12, <1>13, <1>14, <1>15, <1>16, <1>17, RunStepKeeps

\* A command begins.
LEMMA RunBegins ==
  ASSUME NEW r \in TunnelRuns, TunnelRunBegin(r)
  PROVE  \E k \in RunRecords :
           /\ trun' = [trun EXCEPT ![r] = k] /\ k.machine \in TunnelMachines /\ k.host \in TunnelHosts
           /\ k.id = 0 /\ k.up = FALSE
           /\ \/ k.op = "publish" /\ k.step = "preflight"
              \/ k.op = "unpublish" /\ k.step = "uninstall"
              \/ k.op = "tailnet" /\ k.step = "tailcheck"
              \/ k.op = "untailnet" /\ k.step = "unsite"
<1> DEFINE Starts(op, step, m, h) ==
      trun' = [trun EXCEPT ![r] = [NoRun EXCEPT !.op = op, !.step = step, !.machine = m, !.host = h]]
<1>1. PICK m \in TunnelMachines, h \in TunnelHosts :
        \/ Starts("publish", "preflight", m, h) \/ Starts("unpublish", "uninstall", m, h)
        \/ Starts("tailnet", "tailcheck", m, h) \/ Starts("untailnet", "unsite", m, h)
  BY Zenon DEF TunnelRunBegin
<1> HIDE DEF Starts
<1>2. PICK op, step :
        /\ \/ op = "publish" /\ step = "preflight"
           \/ op = "unpublish" /\ step = "uninstall"
           \/ op = "tailnet" /\ step = "tailcheck"
           \/ op = "untailnet" /\ step = "unsite"
        /\ Starts(op, step, m, h)
  BY <1>1
<1>3. PICK k : k = [NoRun EXCEPT !.op = op, !.step = step, !.machine = m, !.host = h]
  OBVIOUS
<1>4. /\ k.op = op /\ k.step = step /\ k.machine = m /\ k.host = h /\ k.id = 0 /\ k.up = FALSE
      /\ k \in RunRecords
  <2>1. op \in {"none", "publish", "unpublish", "tailnet", "untailnet"} /\ step \in RunSteps
    BY <1>2 DEF RunSteps
  <2>2. 0 \in 0 .. MaxTunnels
    BY TunnelsAssumption
  <2> QED BY <1>3, <2>1, <2>2 DEF NoRun, RunRecords
<1>5. trun' = [trun EXCEPT ![r] = k]
  BY <1>2, <1>3 DEF Starts
<1> QED BY <1>2, <1>4, <1>5

LEMMA TunnelRunBeginKeeps ==
  ASSUME TunnelsInv, NEW r \in TunnelRuns, TunnelRunBegin(r)
  PROVE  TunnelsInv'
<1>1. ~Running(trun[r]) /\ UNCHANGED <<owner, held, tunnel, record, tunnelIds, unit, listed, site>>
  BY DEF TunnelRunBegin, Running
<1>2. PICK k \in RunRecords :
        /\ trun' = [trun EXCEPT ![r] = k] /\ k.machine \in TunnelMachines /\ k.host \in TunnelHosts
        /\ k.id = 0 /\ k.up = FALSE
        /\ \/ k.op = "publish" /\ k.step = "preflight"
           \/ k.op = "unpublish" /\ k.step = "uninstall"
           \/ k.op = "tailnet" /\ k.step = "tailcheck"
           \/ k.op = "untailnet" /\ k.step = "unsite"
  BY RunBegins
<1>6. trun' \in [TunnelRuns -> RunRecords] /\ trun'[r] = k /\ \A q \in TunnelRuns \ {r} : trun'[q] = trun[q]
  BY <1>2 DEF TunnelsInv
<1>7. RunFits(k)
  BY <1>2 DEF RunFits, RunAt
<1>8. RunReached(k)'
  BY <1>2 DEF RunReached, PublishReached, UnpublishReached
<1>9. \A q \in TunnelRuns \ {r} : RunReached(trun[q])'
  BY <1>1, <1>6 DEF TunnelsInv, RunReached, PublishReached, UnpublishReached, Running
<1>10. \A q \in TunnelRuns : (RunFits(trun[q]) /\ RunReached(trun[q]))'
  <2> TAKE q \in TunnelRuns
  <2>1. RunFits(trun'[q])
    BY <1>6, <1>7 DEF TunnelsInv
  <2>2. RunReached(trun[q])'
    BY <1>6, <1>8, <1>9 DEF RunReached, PublishReached, UnpublishReached, Running
  <2> QED BY <2>1, <2>2 DEF RunFits, Running, RunAt
<1>11. TunnelsTypeOK' /\ RecordsOwned' /\ ConnectorsOwned'
  BY <1>1 DEF TunnelsInv, TunnelsTypeOK, RecordsOwned, ConnectorsOwned, OwnCname
<1>12. OwnedListed'
  <2> SUFFICES ASSUME NEW g \in TunnelHosts, NEW x \in TunnelMachines, owner[g] = x, g \notin listed[x]
               PROVE  \E q \in TunnelRuns : trun'[q].machine = x /\ YetToList(trun'[q], g)
    BY <1>1 DEF OwnedListed, YetToList
  <2>1. PICK q \in TunnelRuns : trun[q].machine = x /\ YetToList(trun[q], g)
    BY DEF TunnelsInv, OwnedListed
  <2>2. q # r
    BY <1>1, <2>1 DEF YetToList, Running
  <2> QED BY <1>6, <2>1, <2>2
<1>13. \A q \in TunnelRuns : trun'[q].id <= tunnelIds'
  <2>1. tunnelIds \in Nat
    BY TunnelsAssumption DEF TunnelsInv, TunnelsTypeOK
  <2> QED BY <1>1, <1>2, <1>6, <2>1 DEF TunnelsInv
<1> QED BY <1>1, <1>6, <1>10, <1>11, <1>12, <1>13 DEF TunnelsInv

LEMMA TunnelsInvInitially == TunnelsInit => TunnelsInv
<1> SUFFICES ASSUME TunnelsInit PROVE TunnelsInv
  OBVIOUS
<1>1. 0 \in 0 .. MaxTunnels /\ NoRun \in RunRecords /\ NoRun.step = "idle" /\ NoRun.id = 0
  <2>1. 0 \in 0 .. MaxTunnels
    BY TunnelsAssumption
  <2> QED BY <2>1 DEF NoRun, RunRecords, RunSteps
<1>2. \A r \in TunnelRuns : trun[r] = NoRun
  BY DEF TunnelsInit
<1>3. NoRecord \in [type : {"none", "CNAME", "A"}, id : 0..MaxTunnels] /\ NoRecord.id = 0 /\ NoRecord.type = "none"
  BY <1>1 DEF NoRecord
<1>4. TunnelsTypeOK
  BY <1>1, <1>3, TunnelsAssumption DEF TunnelsInit, TunnelsTypeOK
<1>5. RecordsOwned /\ ConnectorsOwned /\ OwnedListed
  BY <1>3, TunnelsAssumption DEF TunnelsInit, RecordsOwned, ConnectorsOwned, OwnedListed
<1>6. \A r \in TunnelRuns : RunFits(trun[r]) /\ RunReached(trun[r])
  BY <1>1, <1>2 DEF RunFits, RunReached, Running
<1>7. trun \in [TunnelRuns -> RunRecords]
  BY <1>1 DEF TunnelsInit
<1>8. (\A m \in TunnelMachines, h \in TunnelHosts : unit[m][h] <= tunnelIds) /\ \A r \in TunnelRuns : trun[r].id <= tunnelIds
  BY <1>1, <1>2 DEF TunnelsInit
<1> QED BY <1>4, <1>5, <1>6, <1>7, <1>8 DEF TunnelsInv

LEMMA TunnelsInvKept ==
  ASSUME TunnelFaults \cap {"provider", "record"} = {}, TunnelsInv, OneRunPerMachine, [TunnelsNext]_tunnelVars
  PROVE  TunnelsInv'
<1>1. ASSUME NEW h \in TunnelHosts, HoldEnds(h) PROVE TunnelsInv'
  <2>1. UNCHANGED <<owner, tunnel, record, tunnelIds, unit, listed, site, trun>> /\ held' \subseteq held
    BY <1>1 DEF HoldEnds
  <2>2. TunnelsTypeOK' /\ RecordsOwned' /\ ConnectorsOwned' /\ OwnedListed'
    BY <2>1 DEF TunnelsInv, TunnelsTypeOK, RecordsOwned, ConnectorsOwned, OwnedListed, OwnCname, YetToList
  <2>3. \A r \in TunnelRuns : (RunFits(trun[r]) /\ RunReached(trun[r]))'
    BY <2>1 DEF TunnelsInv, RunFits, RunReached, PublishReached, UnpublishReached, Running, RunAt
  <2> QED BY <2>1, <2>2, <2>3 DEF TunnelsInv
<1>2. CASE UNCHANGED tunnelVars
  <2>1. TunnelsTypeOK' /\ RecordsOwned' /\ ConnectorsOwned' /\ OwnedListed'
    BY <1>2 DEF tunnelVars, TunnelsInv, TunnelsTypeOK, RecordsOwned, ConnectorsOwned, OwnedListed, OwnCname, YetToList
  <2>2. \A r \in TunnelRuns : (RunFits(trun[r]) /\ RunReached(trun[r]))'
    BY <1>2 DEF tunnelVars, TunnelsInv, RunFits, RunReached, PublishReached, UnpublishReached, Running, RunAt
  <2> QED BY <1>2, <2>1, <2>2 DEF TunnelsInv, tunnelVars
<1>3. ASSUME NEW r \in TunnelRuns,
             \/ TunnelPreflight(r) \/ ReadList(r) \/ LookupTunnel(r)
             \/ TailnetPreflight(r) \/ SetSite(r) \/ DropSite(r)
      PROVE  TunnelsInv'
  BY <1>3, AskingKeeps
<1>4. ASSUME NEW r \in TunnelRuns, TunnelRunBegin(r) \/ ClaimTunnel(r) \/ CreateTunnel(r) \/ PointTunnel(r) \/ UndoClaim(r)
      PROVE  TunnelsInv'
  BY <1>4, TunnelRunBeginKeeps, ClaimTunnelKeeps, CreateTunnelKeeps, PointTunnelKeeps, UndoClaimKeeps
<1>5. ASSUME NEW r \in TunnelRuns, WriteList(r) \/ InstallTunnel(r) \/ UninstallTunnel(r) PROVE TunnelsInv'
  BY <1>5, WriteListKeeps, ConnectorKeeps
<1>6. ASSUME NEW r \in TunnelRuns, DeleteCname(r) \/ DeleteTunnel(r) \/ ReleaseTunnel(r) \/ SetARecord(r) \/ DropARecord(r)
      PROVE  TunnelsInv'
  BY <1>6, DeleteCnameKeeps, DeleteTunnelKeeps, ReleaseTunnelKeeps, ARecordKeeps
<1> QED BY <1>1, <1>2, <1>3, <1>4, <1>5, <1>6 DEF TunnelsNext

\* What the invariant says of the properties.
LEMMA PublicationsHold ==
  ASSUME TunnelsInv PROVE TunnelReachesOwner /\ OwnedAreListed /\ UnpublishRemoves
<1>1. TunnelReachesOwner
  BY DEF TunnelReachesOwner, Serving, OwnCname, TunnelsInv, ConnectorsOwned
<1>2. OwnedAreListed
  <2> SUFFICES ASSUME \A r \in TunnelRuns : trun[r].step \in {"idle", "done"}, NEW h \in TunnelHosts, owner[h] # NoMachine
               PROVE  h \in listed[owner[h]]
    BY DEF OwnedAreListed
  <2>1. owner[h] \in TunnelMachines
    BY DEF TunnelsInv, TunnelsTypeOK
  <2> QED BY <2>1 DEF TunnelsInv, OwnedListed, YetToList
<1>3. UnpublishRemoves
  <2> SUFFICES ASSUME NEW r \in TunnelRuns, trun[r].op = "unpublish", trun[r].step = "write"
               PROVE  /\ unit[trun[r].machine][trun[r].host] = 0
                      /\ owner[trun[r].host] = NoMachine => record[trun[r].host].type # "CNAME"
    BY DEF UnpublishRemoves
  <2>1. RunFits(trun[r]) /\ UnpublishReached(trun[r]) /\ Running(trun[r])
    BY DEF TunnelsInv, RunReached, Running
  <2>2. trun[r].host \in TunnelHosts
    BY <2>1 DEF RunFits
  <2> QED BY <2>1, <2>2 DEF UnpublishReached, TunnelsInv, RecordsOwned
<1> QED BY <1>1, <1>2, <1>3

LEMMA CnameStays ==
  ASSUME TunnelsInv, "provider" \notin TunnelFaults, [TunnelsNext]_tunnelVars,
         NEW h \in TunnelHosts, OwnCname(h), record'[h] # record[h]
  PROVE  \E r \in TunnelRuns : trun[r].op = "unpublish" /\ trun[r].host = h /\ trun[r].machine = owner[h]
<1>1. PICK r \in TunnelRuns : PointTunnel(r) \/ DeleteCname(r) \/ SetARecord(r) \/ DropARecord(r)
  BY DEF TunnelsNext, tunnelVars, HoldEnds, TunnelRunBegin, TunnelPreflight, ClaimTunnel, CreateTunnel, UndoClaim,
     ReadList, WriteList, InstallTunnel, UninstallTunnel, LookupTunnel, DeleteTunnel, ReleaseTunnel,
     TailnetPreflight, SetSite, DropSite
<1>2. record[h].type = "CNAME" /\ record[h].id = tunnel[h] /\ record \in [TunnelHosts -> [type : {"none", "CNAME", "A"}, id : 0..MaxTunnels]]
  BY DEF OwnCname, TunnelsInv, TunnelsTypeOK
<1>3. PICK j : j = trun[r] /\ RunFits(j) /\ RunReached(j) /\ Running(j)
  BY <1>1 DEF TunnelsInv, Running, PointTunnel, DeleteCname, SetARecord, DropARecord
<1>4. CASE DeleteCname(r)
  <2>1. j.host = h
    BY <1>2, <1>3, <1>4 DEF DeleteCname
  <2>2. RunAt(j, "unpublish", {"uncname"})
    BY <1>3, <1>4 DEF DeleteCname, RunFits, RunAt
  <2> QED BY <1>3, <2>1, <2>2 DEF RunReached, UnpublishReached, RunAt
<1>5. CASE PointTunnel(r)
  <2>1. j.host = h /\ RunAt(j, "publish", {"dns"}) /\ record[h] \in {NoRecord, [type |-> "CNAME", id |-> j.id]}
        /\ record'[h] = [type |-> "CNAME", id |-> j.id]
    BY <1>2, <1>3, <1>5 DEF PointTunnel, RunFits, RunAt
  <2> QED BY <1>2, <2>1 DEF NoRecord
<1>6. CASE SetARecord(r) \/ DropARecord(r)
  <2>1. record'[h] = record[h] \/ record[h] = NoRecord \/ record[h].type = "A" \/ record[h] = [type |-> "A", id |-> 0]
    BY <1>2, <1>6 DEF SetARecord, DropARecord
  <2> QED BY <1>2, <2>1 DEF NoRecord
<1> QED BY <1>1, <1>4, <1>5, <1>6

(* PublicationsSound, when Cloudflare and the machine's list answer: with *)
(* one command on a machine at a time, a public name reaches the owner on *)
(* record and nobody else, its record goes only with an unpublish of that *)
(* machine, the machine's own list has every name it owns once no command *)
(* runs, and an unpublish about to report success has removed connector   *)
(* and record.  Commands on other machines, Tailnet publications of the   *)
(* same names included, interleave with it in any order.                  *)
THEOREM PublicationsStaySound ==
  ASSUME TunnelFaults \cap {"provider", "record"} = {}
  PROVE  TunnelsSpec /\ []OneRunPerMachine => PublicationsSound
<1>1. TunnelsInit => TunnelsInv
  BY TunnelsInvInitially
<1>2. TunnelsInv /\ OneRunPerMachine /\ [TunnelsNext]_tunnelVars => TunnelsInv'
  BY TunnelsInvKept
<1>3. TunnelsInv => TunnelReachesOwner /\ OwnedAreListed /\ UnpublishRemoves
  BY PublicationsHold
<1>4. TunnelsInv /\ [TunnelsNext]_tunnelVars
        => \A h \in TunnelHosts :
             OwnCname(h) /\ record'[h] # record[h] =>
               \E r \in TunnelRuns : /\ trun[r].op = "unpublish" /\ trun[r].host = h
                                     /\ trun[r].machine = owner[h]
  BY CnameStays
<1> QED BY <1>1, <1>2, <1>3, <1>4, PTL DEF TunnelsSpec, PublicationsSound, CnameKept

-----------------------------------------------------------------------------
(* Access of devices to projects                                           *)

CreateJobs ==
  [pc : {"ensure", "scaffold", "caller", "fleetlist", "fleet", "byname"}, op : {"create", "broker"},
   proj : Projs, seen : [Devices -> Entries], left : SUBSET Devices]
LoginJobs ==
  [pc : {"entry", "write", "token"}, op : {"login"}, device : Devices, scope : SUBSET Projs,
   seen : [Devices -> Entries]]
DeleteJobs == [pc : {"machines", "check", "instances", "project"}, op : {"delete", "rm"}, proj : Projs]

\* One request about the tenant's projects at a time.
OneAccessRequest == \A q, r \in AccessRequests : access[q] # Rest /\ access[r] # Rest => q = r

\* No machine is created in a project between the check of a delete and the
\* listing of what it takes down.
NoLateMachine ==
  \A q \in AccessRequests : At(q, "instances") =>
      contents'[access[q].proj] = contents[access[q].proj] \/ access'[q] # access[q]

\* A trust entry that is as it was listed, or gone.
AsListed(j, d) == entries[d] \in {j.seen[d], Untrusted}

\* What a request has made sure of by the step it is at.
AccessReached(j) ==
  /\ j.pc \in {"scaffold", "caller", "fleetlist", "fleet", "byname"} => j.proj \in existing
  /\ j.pc = "caller" => AsListed(j, recorded)
  /\ j.pc \in {"fleetlist", "fleet"} =>
       (entries[recorded].name = OwnName => j.proj \in entries[recorded].projects)
  /\ j.pc = "byname" => entries[recorded] = Untrusted
  /\ j.pc \in {"fleet", "byname"} => \A d \in Devices :
       /\ d \in j.left => AsListed(j, d) /\ (LiveDevice(d) \/ entries[d] = Untrusted)
       /\ LiveDevice(d) => d \in j.left \/ j.proj \in entries[d].projects
  /\ j.pc \in {"entry", "write", "token"} => j.scope = existing
  /\ j.pc = "write" => AsListed(j, j.device)
  /\ j.pc = "token" => entries[j.device] = Untrusted
  /\ j.pc = "instances" => contents[j.proj] = "none"

\* An entry of the tenant's name opens projects of the tenant only, and all
\* that were announced when it opens one or is the newest login's.
EntriesOpen ==
  \A d \in Devices : entries[d].name = OwnName =>
      /\ entries[d].projects \subseteq Projs
      /\ entries[d].projects # {} \/ d = recorded => announced \subseteq entries[d].projects

AccessInv ==
  /\ AccessTypeOK /\ recorded \in Devices /\ announced \subseteq existing
  /\ EntriesOpen
  /\ \A q \in AccessRequests : AccessReached(access[q])

LEMMA JobsApart ==
  /\ AccessJobs = {Rest} \cup CreateJobs \cup LoginJobs \cup DeleteJobs
  /\ \A j \in AccessJobs :
       /\ j.pc = "rest" <=> j = Rest
       /\ j.pc \in {"ensure", "scaffold", "caller", "fleetlist", "fleet", "byname"} <=> j \in CreateJobs
       /\ j.pc \in {"entry", "write", "token"} <=> j \in LoginJobs
       /\ j.pc \in {"machines", "check", "instances", "project"} <=> j \in DeleteJobs
<1>1. AccessJobs = {Rest} \cup CreateJobs \cup LoginJobs \cup DeleteJobs
  BY DEF AccessJobs, CreateJobs, LoginJobs, DeleteJobs
<1>2. Rest.pc = "rest" /\ (\A j \in CreateJobs : j.pc \in {"ensure", "scaffold", "caller", "fleetlist", "fleet", "byname"})
      /\ (\A j \in LoginJobs : j.pc \in {"entry", "write", "token"})
      /\ (\A j \in DeleteJobs : j.pc \in {"machines", "check", "instances", "project"})
  BY DEF Rest, CreateJobs, LoginJobs, DeleteJobs
<1> QED BY <1>1, <1>2

\* The parts of an entry.
LEMMA EntryParts ==
  ASSUME NEW e \in Entries
  PROVE  /\ e.name \in {"plain", "prefixed", "other", "none"} /\ e.projects \subseteq Projs \cup {Foreign}
         /\ e = [name |-> e.name, projects |-> e.projects]
         /\ e = Untrusted <=> e.name = "none"
         /\ \A s \in SUBSET (Projs \cup {Foreign}) : e # Untrusted => [e EXCEPT !.projects = s] \in Entries
         /\ \A s : [e EXCEPT !.projects = s] = [name |-> e.name, projects |-> s]
         /\ Untrusted \in Entries /\ Untrusted.name = "none" /\ Untrusted.projects = {}
         /\ OwnName # "none"
BY DEF Entries, Untrusted, CertNames, OwnName

\* While a request runs the others rest.
LEMMA OthersRest ==
  ASSUME AccessInv, OneAccessRequest, NEW q \in AccessRequests, access[q].pc # "rest",
         NEW r \in AccessRequests, r # q
  PROVE  access[r] = Rest
BY JobsApart DEF OneAccessRequest, Rest

\* What a step of one request has to show.
LEMMA RequestMoves ==
  ASSUME AccessInv, OneAccessRequest, NEW q \in AccessRequests, access[q].pc # "rest",
         NEW j \in AccessJobs, access' = [access EXCEPT ![q] = j], AccessReached(j)'
  PROVE  /\ access' \in [AccessRequests -> AccessJobs]
         /\ \A r \in AccessRequests : AccessReached(access[r])'
<1>1. access \in [AccessRequests -> AccessJobs]
  BY DEF AccessInv, AccessTypeOK
<1>2. access' \in [AccessRequests -> AccessJobs] /\ access'[q] = j /\ \A r \in AccessRequests \ {q} : access'[r] = access[r]
  BY <1>1
<1>3. ASSUME NEW r \in AccessRequests, r # q PROVE AccessReached(access[r])'
  <2>1. access'[r] = Rest
    BY <1>2, <1>3, OthersRest
  <2> QED BY <2>1 DEF AccessReached, Rest
<1>4. AccessReached(access[q])'
  BY <1>2
<1> QED BY <1>2, <1>3, <1>4

\* A request that ends has nothing left to show.
LEMMA RequestLeaves ==
  ASSUME AccessInv, OneAccessRequest, NEW q \in AccessRequests, access[q].pc # "rest", Leave(q)
  PROVE  /\ access' \in [AccessRequests -> AccessJobs]
         /\ \A r \in AccessRequests : AccessReached(access[r])'
<1>1. Rest \in AccessJobs /\ AccessReached(Rest)'
  BY DEF AccessJobs, AccessReached, Rest
<1> QED BY <1>1, RequestMoves DEF Leave

\* A request that begins: nothing else changes.
LEMMA RequestBegins ==
  ASSUME AccessInv, NEW q \in AccessRequests, NEW j \in AccessJobs, UNCHANGED world,
         access' = [access EXCEPT ![q] = j], AccessReached(j)
  PROVE  AccessInv'
<1>1. access' \in [AccessRequests -> AccessJobs] /\ access'[q] = j
      /\ \A r \in AccessRequests \ {q} : access'[r] = access[r]
  BY DEF AccessInv, AccessTypeOK
<1>2. AccessTypeOK' /\ recorded' \in Devices /\ announced' \subseteq existing' /\ EntriesOpen'
  BY <1>1 DEF AccessInv, AccessTypeOK, EntriesOpen, world
<1>3. \A r \in AccessRequests : AccessReached(access[r])'
  BY <1>1 DEF AccessInv, AccessReached, AsListed, LiveDevice, world
<1> QED BY <1>2, <1>3 DEF AccessInv

\* What AccessInv says of the world, and what a step that leaves it alone keeps.
WorldSound ==
  /\ existing \subseteq Projs /\ contents \in [Projs -> {"none", "some"}]
  /\ entries \in [Devices -> Entries] /\ recorded \in Devices /\ literal \in BOOLEAN
  /\ announced \subseteq existing /\ EntriesOpen

LEMMA InvParts ==
  /\ AccessInv <=> /\ WorldSound /\ access \in [AccessRequests -> AccessJobs]
                   /\ \A q \in AccessRequests : AccessReached(access[q])
  /\ AccessInv' <=> /\ WorldSound' /\ access' \in [AccessRequests -> AccessJobs]
                    /\ \A q \in AccessRequests : AccessReached(access[q])'
<1>1. AccessInv <=> /\ WorldSound /\ access \in [AccessRequests -> AccessJobs]
                    /\ \A q \in AccessRequests : AccessReached(access[q])
  BY DEF AccessInv, AccessTypeOK, WorldSound
<1>2. AccessInv' <=> /\ WorldSound' /\ access' \in [AccessRequests -> AccessJobs]
                     /\ \A q \in AccessRequests : AccessReached(access[q])'
  BY DEF AccessInv, AccessTypeOK, WorldSound, EntriesOpen
<1> QED BY <1>1, <1>2

LEMMA WorldLeft ==
  ASSUME WorldSound, UNCHANGED world
  PROVE  WorldSound'
BY DEF WorldSound, EntriesOpen, world

LEMMA LeavesWorld ==
  ASSUME AccessInv, OneAccessRequest, NEW q \in AccessRequests, access[q].pc # "rest", Leave(q), UNCHANGED world
  PROVE  AccessInv'
BY InvParts, WorldLeft, RequestLeaves

\* The entry of a device, extended.
LEMMA Extended ==
  ASSUME WorldSound, NEW d \in Devices, NEW e \in Entries, entries[d] \in {e, Untrusted},
         NEW added \in SUBSET Projs, Extend(d, e, added)
  PROVE  /\ entries[d] = e /\ entries[d] # Untrusted
         /\ entries' \in [Devices -> Entries]
         /\ entries'[d] = [name |-> e.name, projects |-> e.projects \cup added]
         /\ \A x \in Devices \ {d} : entries'[x] = entries[x]
<1>1. entries \in [Devices -> Entries]
  BY DEF WorldSound
<1>2. entries[d] = e /\ entries[d] # Untrusted
  BY DEF Extend, Writable
<1>3. entries' = [entries EXCEPT ![d] = [@ EXCEPT !.projects = e.projects \cup added]]
  BY DEF Extend, MergeProjects
<1>4. /\ e.projects \cup added \in SUBSET (Projs \cup {Foreign})
      /\ [e EXCEPT !.projects = e.projects \cup added] \in Entries
      /\ [e EXCEPT !.projects = e.projects \cup added] = [name |-> e.name, projects |-> e.projects \cup added]
  <2>1. e.projects \cup added \in SUBSET (Projs \cup {Foreign})
    BY EntryParts
  <2> QED BY <1>2, <2>1, EntryParts
<1> QED BY <1>1, <1>2, <1>3, <1>4

LEMMA EnsureKeeps ==
  ASSUME AccessInv, OneAccessRequest, NEW q \in AccessRequests, EnsureProject(q)
  PROVE  AccessInv'
<1>1. access[q] \in CreateJobs /\ access[q].pc = "ensure" /\ access[q].pc # "rest"
  BY JobsApart DEF AccessInv, AccessTypeOK, EnsureProject, At
<1>2. PICK k \in CreateJobs : access' = [access EXCEPT ![q] = k] /\ k.proj = access[q].proj /\ k.pc = "scaffold"
  <2>1. [access[q] EXCEPT !.pc = "scaffold"] \in CreateJobs
        /\ [access[q] EXCEPT !.pc = "scaffold"].proj = access[q].proj /\ [access[q] EXCEPT !.pc = "scaffold"].pc = "scaffold"
    BY <1>1 DEF CreateJobs
  <2> QED BY <2>1 DEF EnsureProject, Go
<1>3. WorldSound'
  BY <1>1, InvParts DEF EnsureProject, WorldSound, EntriesOpen, CreateJobs
<1>4. AccessReached(k)'
  BY <1>2 DEF EnsureProject, AccessReached
<1> QED BY <1>1, <1>2, <1>3, <1>4, InvParts, RequestMoves, JobsApart

LEMMA ScaffoldKeeps ==
  ASSUME AccessInv, OneAccessRequest, NEW q \in AccessRequests, Scaffold(q)
  PROVE  AccessInv'
<1>1. access[q] \in CreateJobs /\ access[q].pc = "scaffold" /\ access[q].pc # "rest" /\ WorldSound /\ AccessReached(access[q])
  BY JobsApart, InvParts DEF Scaffold, At
<1>2. PICK k \in CreateJobs :
        /\ access' = [access EXCEPT ![q] = k] /\ k.proj = access[q].proj /\ k.seen = entries
        /\ k.pc = (IF entries[recorded] # Untrusted THEN "caller" ELSE "byname")
        /\ k.left = {d \in Devices : entries[d].name = OwnName /\ entries[d].projects # {}}
  <2> DEFINE c == IF entries[recorded] # Untrusted THEN "caller" ELSE "byname"
             l == {d \in Devices : entries[d].name = OwnName /\ entries[d].projects # {}}
             k == [access[q] EXCEPT !.seen = entries, !.pc = c, !.left = l]
  <2>1. entries \in [Devices -> Entries] /\ c \in {"caller", "byname"} /\ l \in SUBSET Devices
    BY <1>1 DEF WorldSound
  <2>2. k \in CreateJobs /\ k.proj = access[q].proj /\ k.seen = entries /\ k.pc = c /\ k.left = l
    <3> HIDE DEF c, l
    <3> QED BY <1>1, <2>1 DEF CreateJobs
  <2>3. recorded # NoDevice
    BY <1>1, AccessAssumption DEF WorldSound
  <2>4. access' = [access EXCEPT ![q] = k]
    BY <2>3 DEF Scaffold
  <2> HIDE DEF k
  <2> QED BY <2>2, <2>4
<1>3. AccessReached(k)
  BY <1>1, <1>2, EntryParts DEF AccessReached, AsListed, LiveDevice, WorldSound, EntriesOpen
<1>4. AccessReached(k)'
  BY <1>3 DEF AccessReached, AsListed, LiveDevice, Scaffold, world
<1>5. WorldSound'
  BY <1>1, WorldLeft DEF Scaffold
<1> QED BY <1>1, <1>2, <1>4, <1>5, InvParts, RequestMoves, JobsApart

LEMMA ListFleetKeeps ==
  ASSUME AccessInv, OneAccessRequest, NEW q \in AccessRequests, ListFleet(q)
  PROVE  AccessInv'
<1>1. access[q] \in CreateJobs /\ access[q].pc = "fleetlist" /\ access[q].pc # "rest" /\ WorldSound /\ AccessReached(access[q])
  BY JobsApart, InvParts DEF ListFleet, At
<1>2. PICK k \in CreateJobs :
        /\ access' = [access EXCEPT ![q] = k] /\ k.proj = access[q].proj /\ k.seen = entries /\ k.pc = "fleet"
        /\ k.left = {d \in Devices : InFleet(entries[d])}
  <2> DEFINE l == {d \in Devices : InFleet(entries[d])}
             k == [access[q] EXCEPT !.pc = "fleet", !.seen = entries, !.left = l]
  <2>1. entries \in [Devices -> Entries] /\ l \in SUBSET Devices
    BY <1>1 DEF WorldSound
  <2>2. k \in CreateJobs /\ k.proj = access[q].proj /\ k.seen = entries /\ k.pc = "fleet" /\ k.left = l
    <3> HIDE DEF l
    <3> QED BY <1>1, <2>1 DEF CreateJobs
  <2>3. access' = [access EXCEPT ![q] = k]
    BY DEF ListFleet
  <2> HIDE DEF k
  <2> QED BY <2>2, <2>3
<1>3. AccessReached(k)
  BY <1>1, <1>2, EntryParts DEF AccessReached, AsListed, LiveDevice, InFleet, WorldSound, EntriesOpen
<1>4. AccessReached(k)'
  BY <1>3 DEF AccessReached, AsListed, LiveDevice, ListFleet, world
<1>5. WorldSound'
  BY <1>1, WorldLeft DEF ListFleet
<1> QED BY <1>1, <1>2, <1>4, <1>5, InvParts, RequestMoves, JobsApart

LEMMA ExtendCallerKeeps ==
  ASSUME AccessInv, OneAccessRequest, NEW q \in AccessRequests, ExtendCaller(q)
  PROVE  AccessInv'
<1>1. access[q] \in CreateJobs /\ access[q].pc = "caller" /\ access[q].pc # "rest" /\ WorldSound /\ AccessReached(access[q])
  BY JobsApart, InvParts DEF ExtendCaller, At
<1>2. PICK k \in CreateJobs : access' = [access EXCEPT ![q] = k] /\ k.proj = access[q].proj /\ k.pc = "fleetlist"
  <2>1. [access[q] EXCEPT !.pc = "fleetlist"] \in CreateJobs
        /\ [access[q] EXCEPT !.pc = "fleetlist"].proj = access[q].proj /\ [access[q] EXCEPT !.pc = "fleetlist"].pc = "fleetlist"
    BY <1>1 DEF CreateJobs
  <2> QED BY <2>1 DEF ExtendCaller, Go
<1>3. PICK e \in Entries, p \in Projs : e = access[q].seen[recorded] /\ p = access[q].proj
  BY <1>1 DEF CreateJobs, WorldSound
<1>4. recorded \in Devices /\ entries[recorded] \in {e, Untrusted} /\ Extend(recorded, e, {p}) /\ {p} \in SUBSET Projs /\ p \in existing
  BY <1>1, <1>3 DEF WorldSound, AccessReached, AsListed, ExtendCaller
<1>5. PICK d \in Devices : d = recorded
  BY <1>4
<1>6. /\ entries[d] = e /\ entries[d] # Untrusted
      /\ entries' \in [Devices -> Entries]
      /\ entries'[d] = [name |-> e.name, projects |-> e.projects \cup {p}]
      /\ \A x \in Devices \ {d} : entries'[x] = entries[x]
  BY <1>1, <1>4, <1>5, Extended
<1>7. UNCHANGED <<existing, contents, recorded, announced, literal>>
  BY DEF ExtendCaller
<1>8. WorldSound'
  <2>1. EntriesOpen'
    BY <1>1, <1>5, <1>6, <1>7 DEF EntriesOpen, WorldSound
  <2> QED BY <1>1, <1>6, <1>7, <2>1 DEF WorldSound
<1>9. AccessReached(k)'
  BY <1>2, <1>3, <1>4, <1>5, <1>6, <1>7 DEF AccessReached
<1> QED BY <1>1, <1>2, <1>8, <1>9, InvParts, RequestMoves, JobsApart

LEMMA ExtendNextKeeps ==
  ASSUME AccessInv, OneAccessRequest, NEW q \in AccessRequests, ExtendNext(q)
  PROVE  AccessInv'
<1>1. access[q] \in CreateJobs /\ access[q].pc \in {"fleet", "byname"} /\ access[q].pc # "rest" /\ WorldSound /\ AccessReached(access[q])
  BY JobsApart, InvParts DEF ExtendNext, At
<1>2. PICK d \in access[q].left : /\ Extend(d, access[q].seen[d], {access[q].proj})
                                  /\ access' = [access EXCEPT ![q].left = @ \ {d}]
  BY DEF ExtendNext
<1>3. PICK e \in Entries, p \in Projs : d \in Devices /\ e = access[q].seen[d] /\ p = access[q].proj
  BY <1>1 DEF CreateJobs, WorldSound
<1>4. PICK k \in CreateJobs : /\ access' = [access EXCEPT ![q] = k] /\ k.proj = p /\ k.pc = access[q].pc
                              /\ k.seen = access[q].seen /\ k.left = access[q].left \ {d}
  <2> DEFINE l == access[q].left \ {d}
             k == [access[q] EXCEPT !.left = l]
  <2>1. l \in SUBSET Devices
    BY <1>1 DEF CreateJobs
  <2>2. k \in CreateJobs /\ k.proj = p /\ k.pc = access[q].pc /\ k.seen = access[q].seen /\ k.left = l
    <3> HIDE DEF l
    <3> QED BY <1>1, <1>3, <2>1 DEF CreateJobs
  <2>3. access' = [access EXCEPT ![q] = k]
    BY <1>2
  <2> HIDE DEF k
  <2> QED BY <2>2, <2>3
<1>5. /\ entries[d] \in {e, Untrusted} /\ Extend(d, e, {p}) /\ {p} \in SUBSET Projs
      /\ p \in existing /\ (LiveDevice(d) \/ entries[d] = Untrusted)
  BY <1>1, <1>2, <1>3 DEF AccessReached, AsListed
<1>6. /\ entries[d] = e /\ entries[d] # Untrusted
      /\ entries' \in [Devices -> Entries]
      /\ entries'[d] = [name |-> e.name, projects |-> e.projects \cup {p}]
      /\ \A x \in Devices \ {d} : entries'[x] = entries[x]
  BY <1>1, <1>3, <1>5, Extended
<1>7. UNCHANGED <<existing, contents, recorded, announced, literal>>
  BY DEF ExtendNext
<1>8. entries[d].name = OwnName /\ entries[d].projects # {} /\ p \in existing
  BY <1>1, <1>3, <1>5, <1>6 DEF LiveDevice, AccessReached
<1>9. WorldSound'
  <2>1. EntriesOpen'
    BY <1>1, <1>3, <1>6, <1>7, <1>8 DEF EntriesOpen, WorldSound
  <2> QED BY <1>1, <1>6, <1>7, <2>1 DEF WorldSound
<1>10. AccessReached(k)'
  <2>1. k.pc = "byname" => recorded # d
    BY <1>1, <1>4, <1>6 DEF AccessReached
  <2>2. entries'[recorded].name = entries[recorded].name /\ entries[recorded].projects \subseteq entries'[recorded].projects
        /\ (recorded # d => entries'[recorded] = entries[recorded])
    BY <1>1, <1>6 DEF WorldSound
  <2>3. ASSUME NEW x \in Devices
        PROVE  /\ x \in k.left => AsListed(k, x)' /\ (LiveDevice(x)' \/ entries'[x] = Untrusted)
               /\ LiveDevice(x)' => x \in k.left \/ k.proj \in entries'[x].projects
    <3>1. CASE x = d
      BY <1>4, <1>6, <3>1
    <3>2. CASE x # d
      BY <1>1, <1>3, <1>4, <1>6, <3>2 DEF AccessReached, AsListed, LiveDevice
    <3> QED BY <3>1, <3>2
  <2> QED BY <1>1, <1>3, <1>4, <1>7, <1>8, <2>1, <2>2, <2>3 DEF AccessReached, CreateJobs
<1> QED BY <1>1, <1>4, <1>9, <1>10, InvParts, RequestMoves, JobsApart

LEMMA CreateEndsKeeps ==
  ASSUME AccessInv, OneAccessRequest, NEW q \in AccessRequests, CreateEnds(q)
  PROVE  AccessInv'
<1>1. /\ access[q] \in CreateJobs /\ access[q].pc \in {"fleet", "byname"} /\ access[q].pc # "rest"
      /\ WorldSound /\ AccessReached(access[q]) /\ access[q].left = {}
  BY JobsApart, InvParts DEF CreateEnds, At
<1>2. announced' \in {announced, announced \cup {access[q].proj}} /\ UNCHANGED <<existing, contents, entries, recorded, literal>>
  BY DEF CreateEnds
<1>3. EntriesOpen'
  <2> SUFFICES ASSUME NEW d \in Devices, entries[d].name = OwnName, entries[d].projects # {} \/ d = recorded
               PROVE  access[q].proj \in entries[d].projects
    BY <1>1, <1>2 DEF EntriesOpen, WorldSound
  <2>1. CASE entries[d].projects # {}
    BY <1>1, <2>1 DEF AccessReached, LiveDevice, WorldSound, EntriesOpen
  <2>2. CASE d = recorded
    BY <1>1, <2>2, EntryParts DEF AccessReached, WorldSound
  <2> QED BY <2>1, <2>2
<1>4. WorldSound'
  BY <1>1, <1>2, <1>3 DEF WorldSound, AccessReached
<1> QED BY <1>1, <1>4, InvParts, RequestLeaves DEF CreateEnds

LEMMA CreateFailsKeeps ==
  ASSUME AccessInv, OneAccessRequest, NEW q \in AccessRequests, CreateFails(q)
  PROVE  AccessInv'
<1>1. access[q].pc # "rest"
  BY DEF CreateFails, At
<1> QED BY <1>1, LeavesWorld DEF CreateFails

LEMMA BeginsKeep ==
  ASSUME AccessInv, NEW q \in AccessRequests,
         \/ \E p \in Projs : \/ \E op \in {"create", "broker"} : BeginCreate(q, p, op)
                             \/ \E op \in {"delete", "rm"} : BeginDelete(q, p, op)
         \/ \E d \in Devices : BeginLogin(q, d)
  PROVE  AccessInv'
<1>1. WorldSound
  BY InvParts
<1>2. CASE \E p \in Projs : \E op \in {"create", "broker"} : BeginCreate(q, p, op)
  <2>1. PICK p \in Projs, op \in {"create", "broker"} : BeginCreate(q, p, op)
    BY <1>2
  <2>2. PICK j : j = [pc |-> "ensure", op |-> op, proj |-> p, seen |-> entries, left |-> {}]
    OBVIOUS
  <2>3. j \in CreateJobs /\ AccessReached(j)
    BY <1>1, <2>2 DEF CreateJobs, AccessReached, WorldSound
  <2>4. access' = [access EXCEPT ![q] = j] /\ UNCHANGED world
    BY <2>1, <2>2 DEF BeginCreate
  <2> QED BY <2>3, <2>4, JobsApart, RequestBegins
<1>3. CASE \E p \in Projs : \E op \in {"delete", "rm"} : BeginDelete(q, p, op)
  <2>1. PICK p \in Projs, op \in {"delete", "rm"} : BeginDelete(q, p, op)
    BY <1>3
  <2>2. PICK j : j = [pc |-> IF op = "rm" THEN "machines" ELSE "check", op |-> op, proj |-> p]
    OBVIOUS
  <2>3. j \in DeleteJobs /\ AccessReached(j)
    BY <1>1, <2>2 DEF DeleteJobs, AccessReached, WorldSound
  <2>4. access' = [access EXCEPT ![q] = j] /\ UNCHANGED world
    BY <2>1, <2>2 DEF BeginDelete
  <2> QED BY <2>3, <2>4, JobsApart, RequestBegins
<1>4. CASE \E d \in Devices : BeginLogin(q, d)
  <2>1. PICK d \in Devices : BeginLogin(q, d)
    BY <1>4
  <2>2. PICK j : j = [pc |-> "entry", op |-> "login", device |-> d, scope |-> existing, seen |-> entries]
    OBVIOUS
  <2>3. j \in LoginJobs /\ AccessReached(j)
    BY <1>1, <2>2 DEF LoginJobs, AccessReached, WorldSound
  <2>4. access' = [access EXCEPT ![q] = j] /\ UNCHANGED world
    BY <2>1, <2>2 DEF BeginLogin, RestrictedProjects
  <2> QED BY <2>3, <2>4, JobsApart, RequestBegins
<1> QED BY <1>2, <1>3, <1>4

LEMMA LoginListsKeeps ==
  ASSUME AccessInv, OneAccessRequest, NEW q \in AccessRequests, LoginLists(q)
  PROVE  AccessInv'
<1>1. access[q] \in LoginJobs /\ access[q].pc = "entry" /\ access[q].pc # "rest" /\ WorldSound /\ AccessReached(access[q])
  BY JobsApart, InvParts DEF LoginLists, At
<1>2. PICK k \in LoginJobs :
        /\ access' = [access EXCEPT ![q] = k] /\ k.scope = access[q].scope /\ k.device = access[q].device
        /\ k.seen = entries /\ k.pc = (IF entries[access[q].device] = Untrusted THEN "token" ELSE "write")
  <2> DEFINE c == IF entries[access[q].device] = Untrusted THEN "token" ELSE "write"
             k == [access[q] EXCEPT !.seen = entries, !.pc = c]
  <2>1. entries \in [Devices -> Entries] /\ c \in {"token", "write"}
    BY <1>1 DEF WorldSound
  <2>2. k \in LoginJobs /\ k.scope = access[q].scope /\ k.device = access[q].device /\ k.seen = entries /\ k.pc = c
    <3> HIDE DEF c
    <3> QED BY <1>1, <2>1 DEF LoginJobs
  <2>3. access' = [access EXCEPT ![q] = k]
    BY DEF LoginLists
  <2> HIDE DEF k
  <2> QED BY <2>2, <2>3
<1>3. AccessReached(k)
  BY <1>1, <1>2 DEF AccessReached, AsListed, LoginJobs
<1>4. AccessReached(k)'
  BY <1>3 DEF AccessReached, AsListed, LiveDevice, LoginLists, world
<1>5. WorldSound'
  BY <1>1, WorldLeft DEF LoginLists
<1> QED BY <1>1, <1>2, <1>4, <1>5, InvParts, RequestMoves, JobsApart

\* What the end of a login writes.
LEMMA LoginWrites ==
  ASSUME AccessInv, NEW q \in AccessRequests, LoginEnds(q)
  PROVE  \E d \in Devices :
           /\ recorded' = d /\ entries' \in [Devices -> Entries]
           /\ existing \subseteq entries'[d].projects
           /\ entries[d].projects \subseteq entries'[d].projects
           /\ entries[d].name = OwnName => entries'[d].projects \subseteq Projs
           /\ entries[d] = Untrusted => entries'[d] = [name |-> OwnName, projects |-> existing]
           /\ entries[d] # Untrusted => entries'[d].name = entries[d].name
           /\ \A x \in Devices \ {d} : entries'[x] = entries[x]
<1>1. access[q] \in LoginJobs /\ access[q].pc \in {"write", "token"} /\ WorldSound /\ AccessReached(access[q])
  BY JobsApart, InvParts DEF LoginEnds
<1>2. PICK d \in Devices, e \in Entries : d = access[q].device /\ e = access[q].seen[d]
  BY <1>1 DEF LoginJobs
<1>3. access[q].scope = existing /\ existing \in SUBSET Projs /\ existing \in SUBSET (Projs \cup {Foreign})
  BY <1>1 DEF AccessReached, WorldSound
<1>4. entries \in [Devices -> Entries] /\ recorded' = d
  BY <1>1, <1>2 DEF WorldSound, LoginEnds
<1>5. CASE At(q, "write")
  <2>1. Extend(d, e, existing) /\ entries[d] \in {e, Untrusted}
    BY <1>1, <1>2, <1>3, <1>5 DEF LoginEnds, At, AccessReached, AsListed
  <2>2. /\ entries[d] = e /\ entries[d] # Untrusted
        /\ entries' \in [Devices -> Entries]
        /\ entries'[d] = [name |-> e.name, projects |-> e.projects \cup existing]
        /\ \A x \in Devices \ {d} : entries'[x] = entries[x]
    BY <1>1, <1>3, <2>1, Extended
  <2>3. entries[d].name = OwnName => e.projects \subseteq Projs
    BY <1>1, <2>2 DEF WorldSound, EntriesOpen
  <2> QED BY <1>3, <1>4, <2>2, <2>3
<1>6. CASE At(q, "token")
  <2>1. entries[d] = Untrusted
    BY <1>1, <1>2, <1>6 DEF At, AccessReached
  <2>2. entries' = [entries EXCEPT ![d] = [name |-> OwnName, projects |-> existing]]
    BY <1>2, <1>3, <1>6, <2>1 DEF LoginEnds, At
  <2>3. [name |-> OwnName, projects |-> existing] \in Entries
    BY <1>3 DEF Entries, OwnName, CertNames
  <2>4. entries[d].projects = {} /\ entries[d].name # OwnName
    BY <2>1, EntryParts
  <2> QED BY <1>3, <1>4, <2>1, <2>2, <2>3, <2>4
<1> QED BY <1>1, <1>5, <1>6 DEF At

LEMMA LoginEndsKeeps ==
  ASSUME AccessInv, OneAccessRequest, NEW q \in AccessRequests, LoginEnds(q)
  PROVE  AccessInv'
<1>1. access[q].pc # "rest" /\ WorldSound
  BY InvParts DEF LoginEnds
<1>2. PICK d \in Devices :
           /\ recorded' = d /\ entries' \in [Devices -> Entries]
           /\ existing \subseteq entries'[d].projects
           /\ entries[d].projects \subseteq entries'[d].projects
           /\ entries[d].name = OwnName => entries'[d].projects \subseteq Projs
           /\ entries[d] = Untrusted => entries'[d] = [name |-> OwnName, projects |-> existing]
           /\ entries[d] # Untrusted => entries'[d].name = entries[d].name
           /\ \A x \in Devices \ {d} : entries'[x] = entries[x]
  BY LoginWrites
<1>3. UNCHANGED <<existing, contents, announced, literal>>
  BY DEF LoginEnds
<1>4. EntriesOpen'
  BY <1>1, <1>2, <1>3 DEF EntriesOpen, WorldSound
<1>5. WorldSound'
  BY <1>1, <1>2, <1>3, <1>4 DEF WorldSound
<1> QED BY <1>1, <1>5, InvParts, RequestLeaves DEF LoginEnds

LEMMA LoginFailsKeeps ==
  ASSUME AccessInv, OneAccessRequest, NEW q \in AccessRequests, LoginFails(q)
  PROVE  AccessInv'
<1>1. access[q].pc # "rest"
  BY DEF LoginFails
<1> QED BY <1>1, LeavesWorld DEF LoginFails

\* The steps of a delete before the last.
LEMMA DeleteGoes ==
  ASSUME AccessInv, OneAccessRequest, NEW q \in AccessRequests, access[q] \in DeleteJobs,
         NEW pc \in {"check", "instances", "project"}, Go(q, pc), WorldSound',
         pc = "instances" => contents'[access[q].proj] = "none"
  PROVE  AccessInv'
<1>1. access[q].pc # "rest"
  BY JobsApart, InvParts
<1>2. PICK k \in DeleteJobs : access' = [access EXCEPT ![q] = k] /\ k.proj = access[q].proj /\ k.pc = pc
  <2>1. [access[q] EXCEPT !.pc = pc] \in DeleteJobs
        /\ [access[q] EXCEPT !.pc = pc].proj = access[q].proj /\ [access[q] EXCEPT !.pc = pc].pc = pc
    BY DEF DeleteJobs
  <2> QED BY <2>1 DEF Go
<1>3. AccessReached(k)'
  BY <1>2 DEF AccessReached
<1> QED BY <1>1, <1>2, <1>3, InvParts, RequestMoves, JobsApart

LEMMA DeleteKeeps ==
  ASSUME AccessInv, OneAccessRequest, NEW q \in AccessRequests,
         RemoveMachines(q) \/ CheckDelete(q) \/ DeleteInstances(q) \/ DeleteProject(q)
  PROVE  AccessInv'
<1>1. access[q] \in DeleteJobs /\ access[q].pc # "rest" /\ WorldSound
  BY JobsApart, InvParts DEF RemoveMachines, CheckDelete, DeleteInstances, DeleteProject, At
<1>2. CASE RemoveMachines(q)
  <2>1. WorldSound'
    BY <1>1, <1>2 DEF RemoveMachines, WorldSound, EntriesOpen
  <2> QED BY <1>1, <1>2, <2>1, DeleteGoes DEF RemoveMachines
<1>3. CASE CheckDelete(q)
  <2>1. WorldSound'
    BY <1>1, <1>3, WorldLeft DEF CheckDelete
  <2>2. CASE MayDelete(access[q].proj) /\ Go(q, "instances")
    <3>1. contents'[access[q].proj] = "none"
      BY <1>3, <2>2 DEF CheckDelete, MayDelete, world
    <3> QED BY <1>1, <2>1, <2>2, <3>1, DeleteGoes
  <2>3. CASE Leave(q)
    BY <1>1, <2>1, <2>3, InvParts, RequestLeaves
  <2> QED BY <1>3, <2>2, <2>3 DEF CheckDelete
<1>4. CASE DeleteInstances(q)
  <2>1. WorldSound'
    BY <1>1, <1>4 DEF DeleteInstances, WorldSound, EntriesOpen
  <2>2. CASE Go(q, "project")
    BY <1>1, <2>1, <2>2, DeleteGoes
  <2>3. CASE Leave(q)
    BY <1>1, <2>1, <2>3, InvParts, RequestLeaves
  <2> QED BY <1>4, <2>2, <2>3 DEF DeleteInstances
<1>5. CASE DeleteProject(q)
  <2>1. PICK p \in Projs : p = access[q].proj
    BY <1>1 DEF DeleteJobs
  <2>2. UNCHANGED <<contents, recorded, literal>>
    BY <1>5 DEF DeleteProject
  <2>3. CASE UNCHANGED <<existing, announced, entries>>
    <3>1. WorldSound'
      BY <1>1, <2>2, <2>3 DEF WorldSound, EntriesOpen
    <3> QED BY <1>1, <1>5, <3>1, InvParts, RequestLeaves DEF DeleteProject
  <2>4. CASE /\ existing' = existing \ {p} /\ announced' = announced \ {p}
             /\ entries' = [d \in Devices |-> [entries[d] EXCEPT !.projects = @ \ {p}]]
    <3>1. ASSUME NEW d \in Devices
          PROVE  /\ entries'[d] = [name |-> entries[d].name, projects |-> entries[d].projects \ {p}]
                 /\ entries'[d] \in Entries
      <4>1. PICK e \in Entries : e = entries[d]
        BY <1>1 DEF WorldSound
      <4>2. e.projects \ {p} \in SUBSET (Projs \cup {Foreign})
        BY EntryParts
      <4>3. entries'[d] = [name |-> e.name, projects |-> e.projects \ {p}]
        BY <2>4, <4>1, EntryParts
      <4>4. CASE e = Untrusted
        <5>1. e.name = "none" /\ e.projects \ {p} = {}
          BY <4>4 DEF Untrusted
        <5>2. entries'[d] = Untrusted
          BY <4>3, <5>1 DEF Untrusted
        <5> QED BY <4>1, <4>3, <5>2, EntryParts
      <4>5. CASE e # Untrusted
        <5>1. [e EXCEPT !.projects = e.projects \ {p}] \in Entries
          BY <4>2, <4>5, EntryParts
        <5> QED BY <4>1, <4>3, <5>1, EntryParts
      <4> QED BY <4>1, <4>3, <4>4, <4>5
    <3>2. entries' \in [Devices -> Entries]
      BY <2>4, <3>1
    <3>3. EntriesOpen'
      <4>1. announced' = announced \ {p} /\ recorded' = recorded
            /\ \A d \in Devices : entries'[d].name = entries[d].name /\ entries'[d].projects = entries[d].projects \ {p}
        BY <2>2, <2>4, <3>1
      <4> SUFFICES ASSUME NEW d \in Devices, entries[d].name = OwnName
                   PROVE  /\ entries[d].projects \ {p} \subseteq Projs
                          /\ entries[d].projects \ {p} # {} \/ d = recorded
                               => announced \ {p} \subseteq entries[d].projects \ {p}
        BY <4>1 DEF EntriesOpen
      <4> QED BY <1>1 DEF WorldSound, EntriesOpen
    <3>4. WorldSound'
      <4>1. existing' = existing \ {p} /\ announced' = announced \ {p}
        BY <2>4
      <4> QED BY <1>1, <2>2, <3>2, <3>3, <4>1 DEF WorldSound
    <3> QED BY <1>1, <1>5, <3>4, InvParts, RequestLeaves DEF DeleteProject
  <2> QED BY <1>5, <2>1, <2>3, <2>4 DEF DeleteProject
<1> QED BY <1>2, <1>3, <1>4, <1>5

LEMMA RemoveUserKeeps ==
  ASSUME AccessInv, RemoveUser
  PROVE  AccessInv'
<1>1. WorldSound /\ UNCHANGED <<existing, contents, recorded, announced, literal, access>>
  BY InvParts DEF RemoveUser
<1>2. entries' \in [Devices -> Entries] /\ \A d \in Devices : entries'[d] \in {entries[d], Untrusted}
  BY <1>1, EntryParts DEF RemoveUser, WorldSound
<1>3. EntriesOpen'
  BY <1>1, <1>2, EntryParts DEF EntriesOpen, WorldSound
<1>4. WorldSound'
  BY <1>1, <1>2, <1>3 DEF WorldSound
<1>5. ASSUME NEW q \in AccessRequests PROVE AccessReached(access[q])'
  <2>1. AccessReached(access[q]) /\ access'[q] = access[q] /\ access[q] \in AccessJobs
    BY <1>1, InvParts
  <2>2. access[q].pc = "write" => access[q].device \in Devices
    BY <2>1, JobsApart DEF LoginJobs
  <2>3. access[q].pc = "token" => access[q].device \in Devices
    BY <2>1, JobsApart DEF LoginJobs
  <2> QED BY <1>1, <1>2, <2>1, <2>2, <2>3, EntryParts DEF AccessReached, AsListed, LiveDevice, WorldSound
<1> QED BY <1>1, <1>4, <1>5, InvParts

LEMMA FillKeeps ==
  ASSUME AccessInv, NoLateMachine, NEW p \in Projs, FillProject(p)
  PROVE  AccessInv'
<1>1. WorldSound /\ UNCHANGED <<existing, entries, recorded, announced, literal, access>>
  BY InvParts DEF FillProject
<1>2. WorldSound'
  BY <1>1 DEF WorldSound, EntriesOpen, FillProject
<1>3. ASSUME NEW q \in AccessRequests PROVE AccessReached(access[q])'
  <2>1. AccessReached(access[q]) /\ access'[q] = access[q]
    BY <1>1, InvParts
  <2>2. access[q].pc = "instances" => contents'[access[q].proj] = contents[access[q].proj]
    BY <2>1 DEF NoLateMachine, At
  <2> QED BY <1>1, <2>1, <2>2 DEF AccessReached, AsListed, LiveDevice
<1> QED BY <1>1, <1>2, <1>3, InvParts

LEMMA AccessInvInitially == AccessInit => AccessInv
<1> SUFFICES ASSUME AccessInit PROVE AccessInv
  OBVIOUS
<1>1. PICK first \in Devices :
       /\ recorded = first
       /\ entries \in [Devices -> {Untrusted, [name |-> OwnName, projects |-> {}],
                                   [name |-> "other", projects |-> {Foreign}],
                                   [name |-> OwnName, projects |-> {HomeProj}]}]
       /\ \A d \in Devices : entries[d].projects = {HomeProj} <=> d = first
  BY DEF AccessInit
<1>2. {Untrusted, [name |-> OwnName, projects |-> {}], [name |-> "other", projects |-> {Foreign}],
       [name |-> OwnName, projects |-> {HomeProj}]} \subseteq Entries
  BY AccessAssumption DEF Entries, OwnName, CertNames
<1>3. EntriesOpen
  <2> SUFFICES ASSUME NEW d \in Devices, entries[d].name = OwnName
               PROVE  /\ entries[d].projects \subseteq Projs
                      /\ entries[d].projects # {} \/ d = recorded => {HomeProj} \subseteq entries[d].projects
    BY DEF EntriesOpen, AccessInit
  <2>1. OwnName # "other" /\ OwnName # "none"
    BY DEF OwnName
  <2>2. entries[d].projects \in {{}, {HomeProj}}
    BY <1>1, <2>1 DEF Untrusted
  <2> QED BY <1>1, <2>2, AccessAssumption
<1>4. WorldSound
  BY <1>1, <1>2, <1>3, AccessAssumption DEF AccessInit, WorldSound
<1>5. \A q \in AccessRequests : access[q] = Rest
  BY DEF AccessInit
<1>6. access \in [AccessRequests -> AccessJobs] /\ \A q \in AccessRequests : AccessReached(access[q])
  BY <1>5 DEF AccessInit, AccessReached, Rest, AccessJobs
<1> QED BY <1>4, <1>6, InvParts

LEMMA AccessInvKept ==
  ASSUME AccessInv, OneAccessRequest, [NoLateMachine]_accessVars, [AccessNext]_accessVars
  PROVE  AccessInv'
<1>1. CASE UNCHANGED accessVars
  BY <1>1 DEF accessVars, AccessInv, AccessTypeOK, EntriesOpen, AccessReached, AsListed, LiveDevice
<1>2. CASE AccessNext /\ NoLateMachine
  <2>1. ASSUME NEW q \in AccessRequests,
               \/ \E p \in Projs : \/ \E op \in {"create", "broker"} : BeginCreate(q, p, op)
                                   \/ \E op \in {"delete", "rm"} : BeginDelete(q, p, op)
               \/ \E d \in Devices : BeginLogin(q, d)
        PROVE  AccessInv'
    BY <2>1, BeginsKeep
  <2>2. ASSUME NEW q \in AccessRequests,
               \/ EnsureProject(q) \/ Scaffold(q) \/ ExtendCaller(q) \/ ListFleet(q)
               \/ ExtendNext(q) \/ CreateEnds(q) \/ CreateFails(q)
        PROVE  AccessInv'
    BY <2>2, EnsureKeeps, ScaffoldKeeps, ExtendCallerKeeps, ListFleetKeeps, ExtendNextKeeps, CreateEndsKeeps, CreateFailsKeeps
  <2>3. ASSUME NEW q \in AccessRequests, LoginLists(q) \/ LoginEnds(q) \/ LoginFails(q)
        PROVE  AccessInv'
    BY <2>3, LoginListsKeeps, LoginEndsKeeps, LoginFailsKeeps
  <2>4. ASSUME NEW q \in AccessRequests,
               RemoveMachines(q) \/ CheckDelete(q) \/ DeleteInstances(q) \/ DeleteProject(q)
        PROVE  AccessInv'
    BY <2>4, DeleteKeeps
  <2>5. CASE RemoveUser
    BY <2>5, RemoveUserKeeps
  <2>6. CASE \E p \in Projs : FillProject(p)
    BY <1>2, <2>6, FillKeeps
  <2> QED BY <1>2, <2>1, <2>2, <2>3, <2>4, <2>5, <2>6 DEF AccessNext
<1>3. CASE AccessNext /\ UNCHANGED accessVars
  BY <1>1, <1>3
<1> QED BY <1>1, <1>2, <1>3

\* Which steps write entries, and how.
LEMMA EntriesChange ==
  ASSUME AccessInv, [AccessNext]_accessVars, NEW x \in Devices
  PROVE  \/ entries'[x] \in {entries[x], Untrusted}
         \/ \E p \in Projs : entries'[x].projects = entries[x].projects \ {p} /\ existing' = existing \ {p}
         \/ /\ entries'[x].projects # {} => entries[x].projects # {} \/ x \in {recorded, recorded'} \/ entries[x] = Untrusted
            /\ entries[x].projects \subseteq entries'[x].projects
<1>0. WorldSound
  BY InvParts
<1>1. CASE UNCHANGED entries
  BY <1>1
<1>2. CASE \E q \in AccessRequests : ExtendCaller(q)
  <2>1. PICK q \in AccessRequests : ExtendCaller(q)
    BY <1>2
  <2>2. access[q] \in CreateJobs /\ access[q].pc = "caller" /\ AccessReached(access[q])
    BY <2>1, JobsApart, InvParts DEF ExtendCaller, At
  <2>3. PICK d \in Devices, e \in Entries, p \in Projs :
          d = recorded /\ e = access[q].seen[recorded] /\ p = access[q].proj
    BY <1>0, <2>2 DEF CreateJobs, WorldSound
  <2>4. entries[d] \in {e, Untrusted} /\ Extend(d, e, {p}) /\ {p} \in SUBSET Projs
    BY <2>1, <2>2, <2>3 DEF AccessReached, AsListed, ExtendCaller
  <2>5. /\ entries[d] = e /\ entries'[d] = [name |-> e.name, projects |-> e.projects \cup {p}]
        /\ \A y \in Devices \ {d} : entries'[y] = entries[y]
    BY <1>0, <2>4, Extended
  <2> QED BY <2>3, <2>5
<1>3. CASE \E q \in AccessRequests : ExtendNext(q)
  <2>1. PICK q \in AccessRequests : ExtendNext(q)
    BY <1>3
  <2>2. access[q] \in CreateJobs /\ access[q].pc \in {"fleet", "byname"} /\ AccessReached(access[q])
    BY <2>1, JobsApart, InvParts DEF ExtendNext
  <2>3. PICK d \in access[q].left : Extend(d, access[q].seen[d], {access[q].proj})
    BY <2>1 DEF ExtendNext
  <2>4. PICK e \in Entries, p \in Projs : d \in Devices /\ e = access[q].seen[d] /\ p = access[q].proj
    BY <2>2 DEF CreateJobs
  <2>5. /\ entries[d] \in {e, Untrusted} /\ Extend(d, e, {p}) /\ {p} \in SUBSET Projs
        /\ (LiveDevice(d) \/ entries[d] = Untrusted)
    BY <2>2, <2>3, <2>4 DEF AccessReached, AsListed
  <2>6. /\ entries[d] = e /\ entries[d] # Untrusted
        /\ entries'[d] = [name |-> e.name, projects |-> e.projects \cup {p}]
        /\ \A y \in Devices \ {d} : entries'[y] = entries[y]
    BY <1>0, <2>4, <2>5, Extended
  <2>7. entries[d].projects # {}
    BY <2>5, <2>6 DEF LiveDevice
  <2> QED BY <2>6, <2>7
<1>4. CASE \E q \in AccessRequests : LoginEnds(q)
  BY <1>4, LoginWrites
<1>5. CASE \E q \in AccessRequests : DeleteProject(q)
  <2>1. PICK q \in AccessRequests : DeleteProject(q)
    BY <1>5
  <2>2. access[q].proj \in Projs
    BY <2>1, JobsApart, InvParts DEF DeleteProject, At, DeleteJobs
  <2>3. entries'[x] = entries[x]
        \/ /\ existing' = existing \ {access[q].proj}
           /\ entries'[x] = [entries[x] EXCEPT !.projects = @ \ {access[q].proj}]
    BY <2>1 DEF DeleteProject
  <2>4. PICK e \in Entries : e = entries[x]
    BY <1>0 DEF WorldSound
  <2>5. [e EXCEPT !.projects = @ \ {access[q].proj}] = [name |-> e.name, projects |-> e.projects \ {access[q].proj}]
    BY EntryParts
  <2> QED BY <2>2, <2>3, <2>4, <2>5
<1>6. CASE RemoveUser
  BY <1>6 DEF RemoveUser
<1> QED BY <1>1, <1>2, <1>3, <1>4, <1>5, <1>6
        DEF AccessNext, accessVars, world, BeginCreate, BeginDelete, BeginLogin, EnsureProject, Scaffold, ListFleet,
            CreateEnds, CreateFails, LoginLists, LoginFails, RemoveMachines, CheckDelete, DeleteInstances, FillProject

\* Which steps take machines, and when.
LEMMA MachinesTaken ==
  ASSUME AccessInv, [AccessNext]_accessVars, NEW p \in Projs, contents[p] = "some", contents'[p] = "none"
  PROVE  \E q \in AccessRequests : access[q].pc = "machines" /\ access[q].proj = p
<1>1. contents' # contents /\ contents \in [Projs -> {"none", "some"}]
  BY InvParts DEF WorldSound
<1>2. CASE \E q \in AccessRequests : RemoveMachines(q)
  BY <1>1, <1>2 DEF RemoveMachines, At
<1>3. CASE \E q \in AccessRequests : DeleteInstances(q)
  <2>1. PICK q \in AccessRequests : DeleteInstances(q)
    BY <1>3
  <2>2. contents[access[q].proj] = "none"
    BY <2>1, InvParts DEF DeleteInstances, At, AccessReached
  <2> QED BY <1>1, <2>1, <2>2 DEF DeleteInstances
<1>4. CASE \E y \in Projs : FillProject(y)
  BY <1>1, <1>4 DEF FillProject
<1> QED BY <1>1, <1>2, <1>3, <1>4
        DEF AccessNext, accessVars, world, BeginCreate, BeginDelete, BeginLogin, EnsureProject, Scaffold, ExtendCaller,
            ListFleet, ExtendNext, CreateEnds, CreateFails, LoginLists, LoginEnds, LoginFails, CheckDelete,
            DeleteProject, RemoveUser

(* AccessSound, with one request about a tenant's projects at a time and  *)
(* no machine created in a project between the check of its delete and    *)
(* the listing of what the delete takes down: every live device opens     *)
(* every announced project, no request takes a project from an entry, a   *)
(* dead keypair is not re-armed, and a delete destroys no machine, for    *)
(* any devices and projects and whichever calls fail.                     *)
THEOREM AccessStaysSound ==
  AccessSpec /\ []OneAccessRequest /\ [][NoLateMachine]_accessVars => AccessSound
<1>1. AccessInit => AccessInv
  BY AccessInvInitially
<1>2. AccessInv /\ OneAccessRequest /\ [NoLateMachine]_accessVars /\ [AccessNext]_accessVars => AccessInv'
  BY AccessInvKept
<1>3. AccessInv => FleetHoldsAll
  BY InvParts DEF FleetHoldsAll, LiveDevice, WorldSound, EntriesOpen
<1>4. AccessInv /\ [AccessNext]_accessVars
        => \A d \in Devices : entries'[d] # Untrusted =>
             entries[d].projects \cap (existing' \cup {Foreign}) \subseteq entries'[d].projects
  <2> SUFFICES ASSUME AccessInv, [AccessNext]_accessVars, NEW d \in Devices, entries'[d] # Untrusted
               PROVE  entries[d].projects \cap (existing' \cup {Foreign}) \subseteq entries'[d].projects
    OBVIOUS
  <2> QED BY EntriesChange, AccessAssumption
<1>5. AccessInv /\ [AccessNext]_accessVars
        => \A d \in Devices :
             entries[d].name = OwnName /\ entries[d].projects = {} /\ entries'[d].projects # {}
               => recorded = d \/ recorded' = d
  <2> SUFFICES ASSUME AccessInv, [AccessNext]_accessVars, NEW d \in Devices,
                      entries[d].name = OwnName, entries[d].projects = {}, entries'[d].projects # {}
               PROVE  recorded = d \/ recorded' = d
    OBVIOUS
  <2>1. entries[d] # Untrusted /\ Untrusted.projects = {}
    BY InvParts, EntryParts DEF WorldSound
  <2> QED BY <2>1, EntriesChange
<1>6. AccessInv /\ [AccessNext]_accessVars
        => \A p \in Projs : contents[p] = "some" /\ contents'[p] = "none" =>
             \E q \in AccessRequests : access[q].pc = "machines" /\ access[q].proj = p
  BY MachinesTaken
<1> QED BY <1>1, <1>2, <1>3, <1>4, <1>5, <1>6, PTL DEF AccessSpec, AccessSound, GrantsKept, DeadStayDead, DeleteSparesMachines

-----------------------------------------------------------------------------
(* Shares                                                                  *)

\* A finite set listed as a sequence: each of its members, in some order.
LEMMA SetListed ==
  ASSUME NEW S, IsFiniteSet(S)
  PROVE  SE!SetToSeq(S) \in Seq(S) /\ \A x \in S : \E i \in DOMAIN SE!SetToSeq(S) : SE!SetToSeq(S)[i] = x
<1>1. PICK n : n = Cardinality(S) /\ n \in Nat
  BY FS_CardinalityType
<1>2. ExistsBijection(1 .. n, S)
  BY <1>1, FS_CardinalityType
<1>3. PICK f \in [1 .. n -> S] : /\ \A a, b \in 1 .. n : a # b => f[a] # f[b]
                                 /\ \A x \in S : \E a \in 1 .. n : f[a] = x
  BY <1>2 DEF ExistsBijection, Bijection, Injection, IsInjective, Surjection
<1>4. SE!IsInjective(f)
  BY <1>3 DEF SE!IsInjective
<1>5. PICK s : s = SE!SetToSeq(S)
  OBVIOUS
<1>6. s \in [1 .. n -> S] /\ SE!IsInjective(s)
  <2>1. s = CHOOSE g \in [1 .. n -> S] : SE!IsInjective(g)
    BY <1>1, <1>5 DEF SE!SetToSeq, SE!Cardinality, Cardinality
  <2>2. \E g \in [1 .. n -> S] : SE!IsInjective(g)
    BY <1>3, <1>4
  <2> QED BY <2>1, <2>2
<1>7. s \in Injection(1 .. n, S)
  BY <1>6 DEF Injection, IsInjective, SE!IsInjective
<1>8. Cardinality(1 .. n) = n
  BY <1>1, FS_Interval
<1>9. s \in Surjection(1 .. n, S)
  BY <1>1, <1>7, <1>8, FS_Injection
<1>10. \A x \in S : \E a \in 1 .. n : s[a] = x
  BY <1>9 DEF Surjection
<1>11. s \in Seq(S) /\ DOMAIN s = 1 .. n
  BY <1>1, <1>6
<1> QED BY <1>5, <1>10, <1>11

\* What is left to do of a request, and the lists a tenant may keep.
ShareLists == SUBSET (Offers \cup Copies)
ShareSteps ==
  [do : {"write"}, at : ShareTenants, list : ShareLists]
    \cup [do : {"upsert"}, at : ShareTenants, offered : Offers \cup Copies, state : States]
    \cup [do : {"revoke"}, at : ShareTenants, source : ShareTenants, share : ShareId, list : ShareLists]
    \cup [do : {"drop"}, at : ShareTenants, share : ShareId]
    \cup [do : {"reconcile"}, at : ShareTenants]
    \cup [do : {"apply"}, at : ShareTenants, list : ShareLists]

SharesData ==
  /\ shares \in [ShareTenants -> ShareLists]
  /\ mounts \in [ShareTenants -> SUBSET ShareId]
  /\ everOffered \subseteq ShareId \X ShareTenants
  /\ disturbed \in BOOLEAN
  /\ work \in [ShareRequests -> Seq(ShareSteps)]

\* What a list, a step of a request or a mount names was once offered.
Evidenced(s) == \A r \in s.to : <<s.id, r>> \in everOffered
StepEvidenced(w) ==
  /\ w.do \in {"write", "revoke"} => \A s \in w.list : s.state = "offered" \/ Evidenced(s)
  /\ w.do = "upsert" => <<w.offered.id, w.at>> \in everOffered
  /\ w.do = "apply" => \A s \in w.list : Evidenced(s)
SharesEvidenced ==
  /\ \A t \in ShareTenants : \A s \in shares[t] : Evidenced(s)
  /\ \A q \in ShareRequests : \A k \in DOMAIN work[q] : StepEvidenced(work[q][k])
  /\ MountsWereOffered
SharesKept == SharesData /\ SharesEvidenced

\* The steps of a request that goes on: its next step replaced by none, one or
\* two steps.
LEMMA StepsWithout ==
  ASSUME NEW S, NEW W \in Seq(S), W # <<>>
  PROVE  /\ <<>> \o Tail(W) \in Seq(S) /\ Head(W) = W[1] /\ W[1] \in S /\ 1 \in DOMAIN W
         /\ DOMAIN (<<>> \o Tail(W)) = 1 .. Len(W) - 1
         /\ \A k \in 1 .. Len(W) - 1 : (<<>> \o Tail(W))[k] = W[k + 1]
OBVIOUS

LEMMA StepsWithOne ==
  ASSUME NEW S, NEW W \in Seq(S), W # <<>>, NEW x \in S
  PROVE  /\ <<x>> \o Tail(W) \in Seq(S)
         /\ DOMAIN (<<x>> \o Tail(W)) = 1 .. Len(W)
         /\ (<<x>> \o Tail(W))[1] = x
         /\ \A k \in 2 .. Len(W) : (<<x>> \o Tail(W))[k] = W[k]
<1>1. <<x>> \in Seq(S) /\ Tail(W) \in Seq(S) /\ Len(Tail(W)) = Len(W) - 1 /\ Len(<<x>>) = 1
  OBVIOUS
<1>2. \A k \in 2 .. Len(W) : Tail(W)[k - 1] = W[k]
  OBVIOUS
<1> QED BY <1>1, <1>2

LEMMA StepsWithTwo ==
  ASSUME NEW S, NEW W \in Seq(S), W # <<>>, NEW x \in S, NEW y \in S
  PROVE  /\ <<x, y>> \o Tail(W) \in Seq(S)
         /\ DOMAIN (<<x, y>> \o Tail(W)) = 1 .. Len(W) + 1
         /\ (<<x, y>> \o Tail(W))[1] = x /\ (<<x, y>> \o Tail(W))[2] = y
         /\ \A k \in 3 .. Len(W) + 1 : (<<x, y>> \o Tail(W))[k] = W[k - 1]
<1>1. <<x, y>> \in Seq(S) /\ Tail(W) \in Seq(S) /\ Len(Tail(W)) = Len(W) - 1 /\ Len(<<x, y>>) = 2
  OBVIOUS
<1>2. \A k \in 3 .. Len(W) + 1 : Tail(W)[k - 2] = W[k - 1]
  OBVIOUS
<1> QED BY <1>1, <1>2

\* A step of a list of steps, by what it does.
LEMMA StepFields ==
  ASSUME NEW w \in ShareSteps
  PROVE  /\ w.do \in {"write", "upsert", "revoke", "drop", "reconcile", "apply"}
         /\ w.at \in ShareTenants
         /\ w.do \in {"write", "revoke", "apply"} => w.list \in ShareLists
         /\ w.do = "upsert" => w.offered \in Offers \cup Copies /\ w.state \in States
         /\ w.do = "revoke" => w.source \in ShareTenants
         /\ w.do \in {"revoke", "drop"} => w.share \in ShareId
BY DEF ShareSteps

LEMMA ListsAreLists ==
  ASSUME NEW list \in ShareLists, NEW i
  PROVE  /\ RemoveShare(list, i) \in ShareLists
         /\ \A s \in list : /\ s.id \in ShareId /\ s.to \subseteq ShareTenants
                            /\ (s.state = "offered" /\ s \in Offers) \/ (s.state \in States /\ s \in Copies)
BY DEF ShareLists, RemoveShare, ById, Offers, Copies, States

\* What was evidenced stays so while the history grows.
LEMMA EvidenceStays ==
  ASSUME everOffered \subseteq everOffered'
  PROVE  /\ \A s : Evidenced(s) => Evidenced(s)'
         /\ \A w : StepEvidenced(w) => StepEvidenced(w)'
BY DEF Evidenced, StepEvidenced

\* A step of a request that leaves V to do keeps the invariant when V and the
\* lists written are evidenced.
LEMMA ShareRequestGoesOn ==
  ASSUME SharesKept, NEW q \in ShareRequests, NEW V \in Seq(ShareSteps), work' = [work EXCEPT ![q] = V],
         everOffered \subseteq everOffered', everOffered' \subseteq ShareId \X ShareTenants,
         shares' \in [ShareTenants -> ShareLists], mounts' \in [ShareTenants -> SUBSET ShareId],
         disturbed' \in BOOLEAN,
         \A k \in DOMAIN V : StepEvidenced(V[k])',
         \A t \in ShareTenants : \A s \in shares'[t] : Evidenced(s)',
         MountsWereOffered'
  PROVE  SharesKept'
<1>1. work' \in [ShareRequests -> Seq(ShareSteps)]
  BY DEF SharesKept, SharesData
<1>2. ASSUME NEW r \in ShareRequests, NEW k \in DOMAIN work'[r] PROVE StepEvidenced(work[r][k])'
  <2>1. CASE r = q
    BY <1>2, <2>1 DEF SharesKept, SharesData
  <2>2. CASE r # q
    <3>1. work'[r] = work[r]
      BY <2>2 DEF SharesKept, SharesData
    <3>2. PICK w : w = work[r][k]
      OBVIOUS
    <3>3. StepEvidenced(w)
      BY <1>2, <3>1, <3>2 DEF SharesKept, SharesEvidenced
    <3>4. StepEvidenced(w)'
      BY <3>3, EvidenceStays
    <3> QED BY <3>1, <3>2, <3>4
  <2> QED BY <2>1, <2>2
<1> QED BY <1>1, <1>2 DEF SharesKept, SharesData, SharesEvidenced

\* The same when only what is left to do changes.
LEMMA ShareRequestTurns ==
  ASSUME SharesKept, NEW q \in ShareRequests, NEW V \in Seq(ShareSteps), work' = [work EXCEPT ![q] = V],
         UNCHANGED <<shares, mounts, everOffered>>, disturbed' \in BOOLEAN,
         \A k \in DOMAIN V : StepEvidenced(V[k])
  PROVE  SharesKept'
<1>1. \A k \in DOMAIN V : StepEvidenced(V[k])'
  BY DEF StepEvidenced, Evidenced
<1>2. /\ everOffered \subseteq everOffered' /\ everOffered' \subseteq ShareId \X ShareTenants
      /\ shares' \in [ShareTenants -> ShareLists] /\ mounts' \in [ShareTenants -> SUBSET ShareId]
      /\ \A t \in ShareTenants : \A s \in shares'[t] : Evidenced(s)'
      /\ MountsWereOffered'
  BY DEF SharesKept, SharesData, SharesEvidenced, MountsWereOffered, Evidenced
<1> QED BY <1>1, <1>2, ShareRequestGoesOn

\* A request that begins.
LEMMA ShareRequestBegins ==
  ASSUME SharesKept, NEW q \in ShareRequests, NEW V \in Seq(ShareSteps), Begins(q, V),
         \A k \in DOMAIN V : StepEvidenced(V[k])
  PROVE  SharesKept'
<1>1. disturbed' \in BOOLEAN
  BY DEF Begins, SharesKept, SharesData
<1> QED BY <1>1, ShareRequestTurns DEF Begins

\* The steps of DeleteOutbound: the owner's write, a drop for each recipient,
\* a reconciliation of each.
DeleteSteps(w, D, R) == <<w>> \o D \o R
IsDeletion(V, w, D, R) ==
  /\ V \in Seq(ShareSteps) /\ DOMAIN V = 1 .. 1 + Len(D) + Len(R) /\ V[1] = w
  /\ \A k \in 1 .. Len(D) : V[1 + k] = D[k]
  /\ \A k \in 1 .. Len(R) : V[1 + Len(D) + k] = R[k]
LEMMA DeletionSteps ==
  ASSUME NEW w \in ShareSteps, NEW D \in Seq(ShareSteps), NEW R \in Seq(ShareSteps)
  PROVE  IsDeletion(DeleteSteps(w, D, R), w, D, R)
<1> DEFINE S == ShareSteps
<1>1. <<w>> \in Seq(S) /\ Len(<<w>>) = 1
  OBVIOUS
<1>2. PICK U : U = <<w>> \o D
  OBVIOUS
<1>3. U \in Seq(S) /\ Len(U) = 1 + Len(D) /\ U[1] = w /\ \A k \in 1 .. Len(D) : U[1 + k] = D[k]
  BY <1>1, <1>2
<1>4. DeleteSteps(w, D, R) = U \o R
  BY <1>2 DEF DeleteSteps
<1>5. /\ U \o R \in Seq(S) /\ Len(U \o R) = Len(U) + Len(R)
      /\ \A k \in 1 .. Len(U) : (U \o R)[k] = U[k]
      /\ \A k \in 1 .. Len(R) : (U \o R)[Len(U) + k] = R[k]
  <2> SUFFICES ASSUME NEW A \in Seq(S), NEW B \in Seq(S)
               PROVE  /\ A \o B \in Seq(S) /\ Len(A \o B) = Len(A) + Len(B)
                      /\ \A k \in 1 .. Len(A) : (A \o B)[k] = A[k]
                      /\ \A k \in 1 .. Len(B) : (A \o B)[Len(A) + k] = B[k]
    BY <1>3
  <2> QED OBVIOUS
<1>6. DOMAIN (U \o R) = 1 .. Len(U \o R)
  BY <1>5
<1>7. Len(D) \in Nat /\ Len(R) \in Nat
  OBVIOUS
<1>8. Len(U \o R) = 1 + Len(D) + Len(R) /\ 1 \in 1 .. Len(U) /\ \A k \in 1 .. Len(D) : 1 + k \in 1 .. Len(U)
  BY <1>3, <1>5, <1>7
<1> HIDE DEF S
<1> QED BY <1>3, <1>4, <1>5, <1>6, <1>8 DEF IsDeletion, S

\* A drop and a reconciliation of each of ts, of the share i.
DropsOf(ts, i, D, R) ==
  /\ D \in Seq(ShareSteps) /\ R \in Seq(ShareSteps)
  /\ \A k \in DOMAIN D : D[k].do = "drop" /\ D[k].share = i /\ D[k].at \in ts
  /\ \A k \in DOMAIN R : R[k].do = "reconcile" /\ R[k].at \in ts
  /\ \A t \in ts : \E k \in DOMAIN D : D[k].at = t
  /\ \A t \in ts : \E k \in DOMAIN R : R[k].at = t
LEMMA DropsAndReconciles ==
  ASSUME NEW ts \in SUBSET ShareTenants, NEW i \in ShareId, NEW D, NEW R,
         D = [k \in DOMAIN SE!SetToSeq(ts) |-> [do |-> "drop", at |-> SE!SetToSeq(ts)[k], share |-> i]],
         R = [k \in DOMAIN SE!SetToSeq(ts) |-> Reconcile(SE!SetToSeq(ts)[k])]
  PROVE  DropsOf(ts, i, D, R)
<1>1. PICK s : s = SE!SetToSeq(ts)
  OBVIOUS
<1>2. IsFiniteSet(ts)
  BY SharesAssumption, FS_Subset DEF SharesAssumption
<1>3. s \in Seq(ts) /\ \A t \in ts : \E k \in DOMAIN s : s[k] = t
  BY <1>1, <1>2, SetListed
<1>4. /\ D = [k \in DOMAIN s |-> [do |-> "drop", at |-> s[k], share |-> i]]
      /\ R = [k \in DOMAIN s |-> [do |-> "reconcile", at |-> s[k]]]
  BY <1>1 DEF Reconcile
<1>5. \A t \in ts : [do |-> "drop", at |-> t, share |-> i] \in ShareSteps /\ [do |-> "reconcile", at |-> t] \in ShareSteps
  BY DEF ShareSteps
<1>6. DOMAIN s = 1 .. Len(s) /\ Len(s) \in Nat /\ \A k \in DOMAIN s : s[k] \in ts
  BY <1>3
<1>7. D \in [1 .. Len(s) -> ShareSteps] /\ R \in [1 .. Len(s) -> ShareSteps]
  BY <1>4, <1>5, <1>6
<1>8. \A n \in Nat : \A e \in [1 .. n -> ShareSteps] : e \in Seq(ShareSteps)
  OBVIOUS
<1>9. D \in Seq(ShareSteps) /\ R \in Seq(ShareSteps)
  BY <1>6, <1>7, <1>8
<1>10. /\ \A k \in DOMAIN D : D[k].do = "drop" /\ D[k].share = i /\ D[k].at = s[k]
       /\ \A k \in DOMAIN R : R[k].do = "reconcile" /\ R[k].at = s[k]
       /\ DOMAIN D = DOMAIN s /\ DOMAIN R = DOMAIN s
  BY <1>4
<1> QED BY <1>3, <1>6, <1>9, <1>10 DEF DropsOf

\* RevokeRecipient leaves copies alone: a copy has one recipient.
LEMMA ManyRecipients ==
  ASSUME NEW s, Cardinality(s.to) > 1 PROVE s \notin Copies
<1> SUFFICES ASSUME s \in Copies PROVE FALSE
  OBVIOUS
<1>1. PICK t : s.to = {t}
  BY DEF Copies
<1>2. Cardinality(s.to) = 1
  BY <1>1, FS_Singleton
<1> QED BY <1>2

\* A request that begins keeps the data, and what it is to do is evidenced.
LEMMA BeginsKept ==
  ASSUME SharesKept, NEW q \in ShareRequests, ShareBegins(q)
  PROVE  SharesKept'
<1>0. /\ \A t \in ShareTenants : shares[t] \in ShareLists
      /\ \A t \in ShareTenants : \A s \in shares[t] : Evidenced(s)
  BY DEF SharesKept, SharesData, SharesEvidenced
<1>1. ASSUME NEW s \in ShareTenants, NEW n \in ShareNames, NEW to \in SUBSET ShareTenants, ShareCreate(q, s, n, to)
      PROVE  SharesKept'
  <2>1. PICK w : w = Write(s, shares[s] \cup {[id |-> [src |-> s, name |-> n], to |-> to, state |-> "offered"]})
    OBVIOUS
  <2>2. Begins(q, <<w>>)
    BY <1>1, <2>1 DEF ShareCreate
  <2>3. w \in ShareSteps
    BY <1>0, <2>1 DEF Write, ShareSteps, ShareLists, Offers, ShareId
  <2>4. StepEvidenced(w)
    BY <1>0, <2>1 DEF Write, StepEvidenced
  <2>5. <<w>> \in Seq(ShareSteps) /\ \A k \in DOMAIN <<w>> : StepEvidenced(<<w>>[k])
    BY <2>3, <2>4
  <2> QED BY <2>2, <2>5, ShareRequestBegins
<1>2. ASSUME NEW s \in ShareTenants, NEW n \in ShareNames, NEW r \in ShareTenants, ShareRevoke(q, s, n, r)
      PROVE  SharesKept'
  <2>1. PICK found \in ById(shares[s], [src |-> s, name |-> n]) :
          /\ r \in found.to /\ Cardinality(found.to) > 1
          /\ Begins(q, <<[do |-> "revoke", at |-> r, source |-> s, share |-> found.id,
                          list |-> (shares[s] \ {found}) \cup {[found EXCEPT !.to = @ \ {r}]}], Reconcile(r)>>)
    BY <1>2 DEF ShareRevoke
  <2>2. PICK w : w = [do |-> "revoke", at |-> r, source |-> s, share |-> found.id,
                      list |-> (shares[s] \ {found}) \cup {[found EXCEPT !.to = @ \ {r}]}]
    OBVIOUS
  <2>3. found \in shares[s] /\ found \in Offers
    <3>1. found \in shares[s]
      BY DEF ById
    <3>2. found \notin Copies
      BY <2>1, ManyRecipients
    <3> QED BY <1>0, <3>1, <3>2 DEF ShareLists
  <2>4. /\ [found EXCEPT !.to = @ \ {r}] \in Offers /\ found.id \in ShareId
        /\ [found EXCEPT !.to = @ \ {r}].state = "offered"
    BY <2>3 DEF Offers
  <2>5. w \in ShareSteps
    BY <1>0, <2>2, <2>4 DEF ShareSteps, ShareLists
  <2>6. StepEvidenced(w)
    BY <1>0, <2>2, <2>4 DEF StepEvidenced
  <2>7. Reconcile(r) \in ShareSteps /\ StepEvidenced(Reconcile(r))
    BY DEF Reconcile, ShareSteps, StepEvidenced
  <2>8. /\ <<w, Reconcile(r)>> \in Seq(ShareSteps)
        /\ \A k \in DOMAIN <<w, Reconcile(r)>> : StepEvidenced(<<w, Reconcile(r)>>[k])
    BY <2>5, <2>6, <2>7
  <2> QED BY <2>1, <2>2, <2>8, ShareRequestBegins
<1>3. ASSUME NEW s \in ShareTenants, NEW n \in ShareNames, NEW r \in ShareTenants, NEW st \in States,
             ShareAnswer(q, r, s, n, st)
      PROVE  SharesKept'
  <2>1. PICK offered \in ByName(shares[s], n) :
          /\ r \in offered.to
          /\ Begins(q, <<[do |-> "upsert", at |-> r, offered |-> offered, state |-> st], Reconcile(r)>>)
    BY <1>3 DEF ShareAnswer
  <2>2. PICK w : w = [do |-> "upsert", at |-> r, offered |-> offered, state |-> st]
    OBVIOUS
  <2>3. offered \in shares[s] /\ offered \in Offers \cup Copies
    BY <1>0 DEF ByName, ShareLists
  <2>4. w \in ShareSteps /\ StepEvidenced(w)
    BY <1>0, <2>1, <2>2, <2>3 DEF ShareSteps, StepEvidenced, Evidenced
  <2>5. Reconcile(r) \in ShareSteps /\ StepEvidenced(Reconcile(r))
    BY DEF Reconcile, ShareSteps, StepEvidenced
  <2>6. /\ <<w, Reconcile(r)>> \in Seq(ShareSteps)
        /\ \A k \in DOMAIN <<w, Reconcile(r)>> : StepEvidenced(<<w, Reconcile(r)>>[k])
    BY <2>4, <2>5
  <2> QED BY <2>1, <2>2, <2>6, ShareRequestBegins
<1>4. ASSUME NEW s \in ShareTenants, NEW n \in ShareNames, ShareDelete(q, s, n)
      PROVE  SharesKept'
  <2>1. PICK found, D, R :
          /\ found \in ById(shares[s], [src |-> s, name |-> n])
          /\ D = [k \in DOMAIN SE!SetToSeq(found.to) |->
                    [do |-> "drop", at |-> SE!SetToSeq(found.to)[k], share |-> found.id]]
          /\ R = [k \in DOMAIN SE!SetToSeq(found.to) |-> Reconcile(SE!SetToSeq(found.to)[k])]
          /\ Begins(q, <<Write(s, shares[s] \ {found})>> \o D \o R)
    BY <1>4 DEF ShareDelete, EachOf
  <2>2. PICK w : w = Write(s, shares[s] \ {found})
    OBVIOUS
  <2>3. found.id \in ShareId /\ found.to \in SUBSET ShareTenants
    BY <1>0, <2>1 DEF ById, ShareLists, Offers, Copies
  <2>4. w \in ShareSteps /\ StepEvidenced(w)
    BY <1>0, <2>2 DEF Write, ShareSteps, ShareLists, StepEvidenced
  <2>5. /\ D \in Seq(ShareSteps) /\ R \in Seq(ShareSteps)
        /\ \A k \in DOMAIN D : D[k].do = "drop"
        /\ \A k \in DOMAIN R : R[k].do = "reconcile"
    <3>1. DropsOf(found.to, found.id, D, R)
      BY <2>1, <2>3, DropsAndReconciles
    <3> QED BY <3>1 DEF DropsOf
  <2>6. PICK V : V = DeleteSteps(w, D, R)
    OBVIOUS
  <2>7. Begins(q, V)
    BY <2>1, <2>2, <2>6 DEF DeleteSteps
  <2>8. /\ V \in Seq(ShareSteps) /\ DOMAIN V = 1 .. 1 + Len(D) + Len(R) /\ V[1] = w
        /\ \A k \in 1 .. Len(D) : V[1 + k] = D[k]
        /\ \A k \in 1 .. Len(R) : V[1 + Len(D) + k] = R[k]
    <3>1. IsDeletion(DeleteSteps(w, D, R), w, D, R)
      BY <2>4, <2>5, DeletionSteps
    <3> QED BY <2>6, <3>1 DEF IsDeletion
  <2>9. \A x : x.do \in {"drop", "reconcile"} => StepEvidenced(x)
    BY DEF StepEvidenced
  <2>10. \A k \in DOMAIN V : k = 1 \/ V[k].do \in {"drop", "reconcile"}
    <3> SUFFICES ASSUME NEW k \in 2 .. 1 + Len(D) + Len(R) PROVE V[k].do \in {"drop", "reconcile"}
      BY <2>8
    <3>1. DOMAIN D = 1 .. Len(D) /\ DOMAIN R = 1 .. Len(R) /\ Len(D) \in Nat /\ Len(R) \in Nat
      BY <2>5
    <3>2. CASE k <= 1 + Len(D)
      <4>1. k - 1 \in 1 .. Len(D)
        BY <3>1, <3>2
      <4>2. V[1 + (k - 1)] = D[k - 1]
        BY <4>1, <2>8
      <4>3. D[k - 1].do = "drop"
        BY <4>1, <3>1, <2>5
      <4> QED BY <3>1, <4>2, <4>3
    <3>3. CASE k > 1 + Len(D)
      <4>1. k - 1 - Len(D) \in 1 .. Len(R)
        BY <3>1, <3>3
      <4>2. V[1 + Len(D) + (k - 1 - Len(D))] = R[k - 1 - Len(D)]
        BY <4>1, <2>8
      <4>3. R[k - 1 - Len(D)].do = "reconcile"
        BY <4>1, <3>1, <2>5
      <4>4. 1 + Len(D) + (k - 1 - Len(D)) = k
        BY <3>1
      <4> QED BY <4>2, <4>3, <4>4
    <3> QED BY <3>1, <3>2, <3>3
  <2>11. \A k \in DOMAIN V : StepEvidenced(V[k])
    BY <2>4, <2>8, <2>9, <2>10
  <2> QED BY <2>7, <2>8, <2>11, ShareRequestBegins
<1>5. ASSUME NEW t \in ShareTenants, ShareReconcile(q, t) PROVE SharesKept'
  <2>1. Reconcile(t) \in ShareSteps /\ StepEvidenced(Reconcile(t))
    BY DEF Reconcile, ShareSteps, StepEvidenced
  <2>2. <<Reconcile(t)>> \in Seq(ShareSteps) /\ \A k \in DOMAIN <<Reconcile(t)>> : StepEvidenced(<<Reconcile(t)>>[k])
    BY <2>1
  <2> QED BY <1>5, <2>2, ShareRequestBegins DEF ShareReconcile
<1> QED BY <1>1, <1>2, <1>3, <1>4, <1>5 DEF ShareBegins

\* The next step of a request, and what is left after it.
LEMMA ShareNextStep ==
  ASSUME SharesKept, NEW q \in ShareRequests, work[q] # <<>>
  PROVE  /\ work[q] \in Seq(ShareSteps) /\ Head(work[q]) = work[q][1] /\ Head(work[q]) \in ShareSteps
         /\ StepEvidenced(Head(work[q]))
         /\ <<>> \o Tail(work[q]) \in Seq(ShareSteps)
         /\ \A k \in DOMAIN (<<>> \o Tail(work[q])) : StepEvidenced((<<>> \o Tail(work[q]))[k])
<1>1. PICK W : W = work[q]
  OBVIOUS
<1>2. W \in Seq(ShareSteps) /\ W # <<>> /\ \A k \in DOMAIN W : StepEvidenced(W[k])
  BY <1>1 DEF SharesKept, SharesData, SharesEvidenced
<1>3. /\ <<>> \o Tail(W) \in Seq(ShareSteps) /\ Head(W) = W[1] /\ W[1] \in ShareSteps /\ 1 \in DOMAIN W
      /\ DOMAIN (<<>> \o Tail(W)) = 1 .. Len(W) - 1
      /\ \A k \in 1 .. Len(W) - 1 : (<<>> \o Tail(W))[k] = W[k + 1]
  BY <1>2, StepsWithout
<1>4. \A k \in 1 .. Len(W) - 1 : k + 1 \in DOMAIN W
  BY <1>2
<1> QED BY <1>1, <1>2, <1>3, <1>4

LEMMA StepsKept ==
  ASSUME SharesKept, NEW q \in ShareRequests, ShareStep(q)
  PROVE  SharesKept'
<1>0. work[q] # <<>>
  BY DEF ShareStep, StepUpsert, StepRevoke, StepDrop, StepWrite, StepReconcile, StepApply, ShareGoes
<1>1. PICK W, w, V : W = work[q] /\ w = Head(W) /\ V = <<>> \o Tail(W)
  OBVIOUS
<1>2. /\ W \in Seq(ShareSteps) /\ W # <<>> /\ w = W[1] /\ w \in ShareSteps /\ StepEvidenced(w)
      /\ V \in Seq(ShareSteps) /\ \A k \in DOMAIN V : StepEvidenced(V[k])
  BY <1>0, <1>1, ShareNextStep
<1>3. \A k \in 2 .. Len(W) : StepEvidenced(W[k])
  BY <1>1, <1>2 DEF SharesKept, SharesData, SharesEvidenced
<1>4. /\ w.at \in ShareTenants
      /\ w.do \in {"write", "revoke", "apply"} => w.list \in ShareLists
      /\ w.do = "upsert" => w.offered \in Offers \cup Copies /\ w.state \in States
      /\ w.do = "revoke" => w.source \in ShareTenants
      /\ w.do \in {"revoke", "drop"} => w.share \in ShareId
  BY <1>2, StepFields
<1>5. /\ \A t \in ShareTenants : shares[t] \in ShareLists
      /\ \A t \in ShareTenants : \A s \in shares[t] : Evidenced(s)
      /\ disturbed \in BOOLEAN
  BY DEF SharesKept, SharesData, SharesEvidenced
<1>6. ASSUME NEW x \in ShareSteps, StepEvidenced(x), work' = [work EXCEPT ![q] = <<x>> \o Tail(W)],
             UNCHANGED <<shares, mounts, everOffered, disturbed>>
      PROVE  SharesKept'
  <2>1. PICK U : U = <<x>> \o Tail(W)
    OBVIOUS
  <2>2. /\ U \in Seq(ShareSteps) /\ DOMAIN U = 1 .. Len(W) /\ U[1] = x
        /\ \A k \in 2 .. Len(W) : U[k] = W[k]
    BY <1>2, <2>1, StepsWithOne
  <2>3. Len(W) \in Nat
    BY <1>2
  <2>4. \A k \in DOMAIN U : StepEvidenced(U[k])
    BY <1>3, <1>6, <2>2, <2>3
  <2> QED BY <1>5, <1>6, <2>1, <2>2, <2>4, ShareRequestTurns
<1>7. CASE StepUpsert(q)
  <2>1. PICK x : x = Write(w.at, UpsertRecipientShare(shares[w.at], w.offered, w.at, w.state))
    OBVIOUS
  <2>2. w.do = "upsert" /\ work' = [work EXCEPT ![q] = <<x>> \o Tail(W)]
    BY <1>1, <1>7, <2>1 DEF StepUpsert, ShareGoes, ShareRest
  <2>3. [id |-> w.offered.id, to |-> {w.at}, state |-> w.state] \in Copies
    BY <1>4, <2>2 DEF Offers, Copies
  <2>4. x.list \in ShareLists
    <3>1. RemoveShare(shares[w.at], w.offered.id) \in ShareLists
      BY <1>4, <1>5, ListsAreLists
    <3> QED BY <2>1, <2>3, <3>1 DEF UpsertRecipientShare, Write, ShareLists
  <2>5. x \in ShareSteps
    BY <1>4, <2>1, <2>4 DEF Write, ShareSteps
  <2>6. StepEvidenced(x)
    <3>1. <<w.offered.id, w.at>> \in everOffered
      BY <1>2, <2>2 DEF StepEvidenced
    <3> QED BY <1>4, <1>5, <2>1, <3>1 DEF StepEvidenced, Evidenced, Write, UpsertRecipientShare, RemoveShare
  <2> QED BY <1>6, <1>7, <2>2, <2>5, <2>6 DEF StepUpsert
<1>8. CASE StepDrop(q)
  <2>1. PICK x : x = Write(w.at, RemoveShare(shares[w.at], w.share))
    OBVIOUS
  <2>2. w.do = "drop" /\ work' = [work EXCEPT ![q] = <<x>> \o Tail(W)]
    BY <1>1, <1>8, <2>1 DEF StepDrop, ShareGoes, ShareRest
  <2>3. x \in ShareSteps
    BY <1>4, <1>5, <2>1, ListsAreLists DEF Write, ShareSteps
  <2>4. StepEvidenced(x)
    BY <1>4, <1>5, <2>1 DEF StepEvidenced, Write, RemoveShare
  <2> QED BY <1>6, <1>8, <2>2, <2>3, <2>4 DEF StepDrop
<1>9. CASE StepReconcile(q)
  <2>1. PICK x : x = [do |-> "apply", at |-> w.at, list |-> shares[w.at]]
    OBVIOUS
  <2>2. work' = [work EXCEPT ![q] = <<x>> \o Tail(W)]
    BY <1>1, <1>9, <2>1 DEF StepReconcile, ShareRest
  <2>3. x \in ShareSteps /\ StepEvidenced(x)
    BY <1>4, <1>5, <2>1 DEF ShareSteps, StepEvidenced
  <2> QED BY <1>6, <1>9, <2>2, <2>3 DEF StepReconcile
<1>10. CASE StepRevoke(q)
  <2>1. PICK x, y : x = Write(w.source, w.list) /\ y = Write(w.at, RemoveShare(shares[w.at], w.share))
    OBVIOUS
  <2>2. w.do = "revoke" /\ work' = [work EXCEPT ![q] = <<x, y>> \o Tail(W)]
    BY <1>1, <1>10, <2>1 DEF StepRevoke, ShareGoes, ShareRest
  <2>3. x \in ShareSteps /\ y \in ShareSteps
    BY <1>4, <1>5, <2>1, <2>2, ListsAreLists DEF Write, ShareSteps
  <2>4. StepEvidenced(x) /\ StepEvidenced(y)
    BY <1>2, <1>4, <1>5, <2>1, <2>2 DEF StepEvidenced, Write, RemoveShare
  <2>5. PICK U : U = <<x, y>> \o Tail(W)
    OBVIOUS
  <2>6. /\ U \in Seq(ShareSteps) /\ DOMAIN U = 1 .. Len(W) + 1 /\ U[1] = x /\ U[2] = y
        /\ \A k \in 3 .. Len(W) + 1 : U[k] = W[k - 1]
    BY <1>2, <2>3, <2>5, StepsWithTwo
  <2>7. Len(W) \in Nat /\ \A k \in 3 .. Len(W) + 1 : k - 1 \in 2 .. Len(W)
    BY <1>2
  <2>8. \A k \in DOMAIN U : StepEvidenced(U[k])
    BY <1>3, <2>4, <2>6, <2>7
  <2> QED BY <1>5, <1>10, <2>2, <2>5, <2>6, <2>8, ShareRequestTurns DEF StepRevoke
<1>11. CASE StepWrite(q)
  <2>1. w.do = "write" /\ w.list \in ShareLists
    BY <1>1, <1>4, <1>11 DEF StepWrite, ShareGoes
  <2>2. CASE /\ shares' = [shares EXCEPT ![w.at] = w.list] /\ disturbed' = disturbed
             /\ everOffered' = everOffered \cup UNION {{<<s.id, t>> : t \in s.to} : s \in {s \in w.list : s.state = "offered"}}
             /\ ShareRest(q, <<>>)
    <3>1. /\ shares' \in [ShareTenants -> ShareLists] /\ everOffered \subseteq everOffered'
          /\ UNCHANGED mounts /\ work' = [work EXCEPT ![q] = V]
      BY <1>1, <1>11, <2>1, <2>2 DEF SharesKept, SharesData, StepWrite, ShareRest
    <3>2. everOffered' \subseteq ShareId \X ShareTenants
      <4>1. \A s \in w.list : s.id \in ShareId /\ s.to \subseteq ShareTenants
        BY <2>1, ListsAreLists
      <4> QED BY <2>2, <4>1 DEF SharesKept, SharesData
    <3>3. \A s \in w.list : Evidenced(s)'
      <4> SUFFICES ASSUME NEW s \in w.list, NEW t \in s.to PROVE <<s.id, t>> \in everOffered'
        BY DEF Evidenced
      <4>1. CASE s.state = "offered"
        BY <2>2, <4>1
      <4>2. CASE Evidenced(s)
        BY <2>2, <4>2 DEF Evidenced
      <4> QED BY <4>1, <4>2, <1>2, <2>1 DEF StepEvidenced
    <3>4. \A t \in ShareTenants : \A s \in shares'[t] : Evidenced(s)'
      <4> SUFFICES ASSUME NEW t \in ShareTenants, NEW s \in shares'[t] PROVE Evidenced(s)'
        OBVIOUS
      <4>1. CASE t = w.at
        BY <2>2, <3>3, <4>1 DEF SharesKept, SharesData
      <4>2. CASE t # w.at
        <5>1. s \in shares[t]
          BY <2>2, <4>2 DEF SharesKept, SharesData
        <5> QED BY <1>5, <3>1, <5>1, EvidenceStays
      <4> QED BY <4>1, <4>2
    <3>5. \A k \in DOMAIN V : StepEvidenced(V[k])'
      BY <1>2, <3>1, EvidenceStays
    <3>6. MountsWereOffered'
      BY <3>1 DEF SharesKept, SharesEvidenced, MountsWereOffered
    <3>7. mounts' \in [ShareTenants -> SUBSET ShareId] /\ disturbed' \in BOOLEAN
      BY <2>2, <3>1 DEF SharesKept, SharesData
    <3> QED BY <1>2, <3>1, <3>2, <3>4, <3>5, <3>6, <3>7, ShareRequestGoesOn
  <2>3. CASE /\ disturbed' = TRUE /\ work' = [work EXCEPT ![q] = <<>>] /\ UNCHANGED <<shares, everOffered>>
    <3>1. <<>> \in Seq(ShareSteps) /\ \A k \in DOMAIN <<>> : StepEvidenced(<<>>[k])
      OBVIOUS
    <3> QED BY <1>11, <2>3, <3>1, ShareRequestTurns DEF StepWrite
  <2> QED BY <1>1, <1>11, <2>2, <2>3 DEF StepWrite
<1>12. CASE StepApply(q)
  <2>1. w.do = "apply" /\ w.list \in ShareLists /\ work' = [work EXCEPT ![q] = V]
    BY <1>1, <1>4, <1>12 DEF StepApply, ShareGoes, ShareRest
  <2>2. CASE mounts' = [mounts EXCEPT ![w.at] = DesiredDevices(w.list, w.at)] /\ disturbed' = disturbed
    <3>1. \A i \in DesiredDevices(w.list, w.at) : i \in ShareId /\ <<i, w.at>> \in everOffered
      <4> SUFFICES ASSUME NEW s \in w.list, w.at \in s.to PROVE s.id \in ShareId /\ <<s.id, w.at>> \in everOffered
        BY DEF DesiredDevices, IsAccepted
      <4>1. Evidenced(s)
        BY <1>2, <2>1 DEF StepEvidenced
      <4> QED BY <2>1, <4>1, ListsAreLists DEF Evidenced
    <3>2. /\ everOffered \subseteq everOffered' /\ everOffered' \subseteq ShareId \X ShareTenants
          /\ shares' \in [ShareTenants -> ShareLists] /\ disturbed' \in BOOLEAN
      BY <1>12, <2>2 DEF StepApply, SharesKept, SharesData
    <3>3. \A t \in ShareTenants : \A s \in shares'[t] : Evidenced(s)'
      BY <1>5, <1>12 DEF StepApply, Evidenced
    <3>4. \A k \in DOMAIN V : StepEvidenced(V[k])'
      BY <1>2, <3>2, EvidenceStays
    <3>5. mounts' \in [ShareTenants -> SUBSET ShareId]
      BY <2>2, <3>1 DEF SharesKept, SharesData
    <3>6. MountsWereOffered'
      BY <1>12, <2>2, <3>1 DEF StepApply, SharesKept, SharesData, SharesEvidenced, MountsWereOffered
    <3> QED BY <1>2, <2>1, <3>2, <3>3, <3>4, <3>5, <3>6, ShareRequestGoesOn
  <2>3. CASE disturbed' = TRUE /\ UNCHANGED mounts
    BY <1>2, <1>12, <2>1, <2>3, ShareRequestTurns DEF StepApply
  <2> QED BY <1>1, <1>12, <2>2, <2>3 DEF StepApply
<1> QED BY <1>7, <1>8, <1>9, <1>10, <1>11, <1>12 DEF ShareStep

-----------------------------------------------------------------------------
\* Requests that come one by one: what the list W of steps that is under way
\* leaves to do, and how far the lists and the mounts are from what it promises.
OfferedNow(i, t) == \E s \in shares[i.src] : s.id = i /\ t \in s.to
AcceptedNow(i, t) == \E s \in shares[t] : s.id = i /\ s.state = "accepted"
OwnOffer(s, t) == s.id.src = t /\ t \notin s.to /\ s.state = "offered"
KeptCopy(s, t) == s.id.src # t /\ s.to = {t} /\ s.state \in States

Mounting(w) == w.do \in {"reconcile", "apply"}
Clears(w, i) ==
  /\ i.src # w.at
  /\ \/ w.do = "drop" /\ w.share = i
     \/ w.do = "write" /\ w.list = RemoveShare(shares[w.at], i)
WillClear(W, i, t) == \E b \in DOMAIN W : W[b].at = t /\ Clears(W[b], i)
WillMount(W, t) == \E b \in DOMAIN W : W[b].at = t /\ Mounting(W[b])

\* An owner's new list: its own offers, the copies it kept, and no recipient is
\* lost whose copy is not cleared later.
NewOffers(W, t, list) ==
  /\ \A s \in list : OwnOffer(s, t) \/ s \in shares[t]
  /\ \A s \in shares[t] : s.id.src # t => s \in list
  /\ \A s \in shares[t] : s.id.src = t => \A r \in s.to :
       (\E x \in list : x.id = s.id /\ r \in x.to) \/ WillClear(W, s.id, r)
\* The same list while the recipient's part is still to be read.
LessOffers(w) ==
  /\ \A s \in w.list : OwnOffer(s, w.source) \/ s \in shares[w.source]
  /\ \A s \in shares[w.source] : s.id.src # w.source => s \in w.list
  /\ \A s \in shares[w.source] : s.id.src = w.source => \A r \in s.to :
       (\E x \in w.list : x.id = s.id /\ r \in x.to) \/ (s.id = w.share /\ r = w.at)
\* A recipient's new list: its answer to an offer it has.
NewCopy(W, w) ==
  \E i \in ShareId, st \in States :
    /\ w.list = RemoveShare(shares[w.at], i) \cup {[id |-> i, to |-> {w.at}, state |-> st]}
    /\ i.src # w.at /\ OfferedNow(i, w.at) /\ WillMount(W, w.at)
NextFits(W, w) ==
  \/ w.do = "apply" /\ w.list = shares[w.at]
  \/ w.do = "upsert" /\ w.offered.id.src # w.at /\ OfferedNow(w.offered.id, w.at) /\ WillMount(W, w.at)
  \/ w.do = "write" /\ (NewOffers(W, w.at, w.list) \/ NewCopy(W, w))
  \/ w.do = "revoke" /\ w.share.src = w.source /\ w.source # w.at /\ WillMount(W, w.at) /\ LessOffers(w)
ClearFits(W, a) ==
  /\ \E i \in ShareId : Clears(W[a], i)
  /\ WillMount(W, W[a].at)
  /\ W[a].do = "write" /\ a # 1 => a = 2 /\ W[1].do = "write" /\ W[1].at # W[a].at
StepsFit(W) == \A a \in DOMAIN W : W[a].do = "reconcile" \/ ClearFits(W, a) \/ (a = 1 /\ NextFits(W, W[a]))
MountsLast(W) == \A a, b \in DOMAIN W : a < b /\ Mounting(W[a]) => Mounting(W[b])
EntryBacked(W, s, t) == OwnOffer(s, t) \/ (KeptCopy(s, t) /\ (OfferedNow(s.id, t) \/ WillClear(W, s.id, t)))
EntriesBacked(W) == \A t \in ShareTenants : \A s \in shares[t] : EntryBacked(W, s, t)
MountsBacked(W) ==
  \A t \in ShareTenants : \A i \in mounts[t] : WillMount(W, t) \/ (AcceptedNow(i, t) /\ OfferedNow(i, t))
Consistent(W) == StepsFit(W) /\ MountsLast(W) /\ EntriesBacked(W) /\ MountsBacked(W)

OneByOne(W) ==
  /\ W \in Seq(ShareSteps)
  /\ \A q \in ShareRequests : work[q] \in {W, <<>>}
  /\ \A q, r \in ShareRequests : work[q] # <<>> /\ work[r] # <<>> => q = r
  /\ W # <<>> => \E q \in ShareRequests : work[q] = W
  /\ Consistent(W)
SharesInv == SharesKept /\ (~disturbed => \E W : OneByOne(W))

LEMMA ConsistentStays ==
  ASSUME NEW V, Consistent(V), UNCHANGED <<shares, mounts>>
  PROVE  Consistent(V)'
<1>1. /\ \A i, t : OfferedNow(i, t) => OfferedNow(i, t)'
      /\ \A i, t : AcceptedNow(i, t) => AcceptedNow(i, t)'
  BY DEF OfferedNow, AcceptedNow
<1>2. \A w, i : Clears(w, i) => Clears(w, i)'
  BY DEF Clears, RemoveShare, ById
<1>3. \A W, i, t : WillClear(W, i, t) => WillClear(W, i, t)'
  BY <1>2 DEF WillClear
<1>4. \A W, w : NextFits(W, w) => NextFits(W, w)'
  <2> TAKE W, w
  <2>1. \A t, list : NewOffers(W, t, list) => NewOffers(W, t, list)'
    BY <1>3 DEF NewOffers, OwnOffer
  <2>2. NewCopy(W, w) => NewCopy(W, w)'
    BY <1>1 DEF NewCopy, RemoveShare, ById, WillMount, Mounting
  <2>3. LessOffers(w) => LessOffers(w)'
    BY DEF LessOffers, OwnOffer
  <2> QED BY <1>1, <2>1, <2>2, <2>3 DEF NextFits, WillMount, Mounting
<1>5. StepsFit(V)'
  BY <1>2, <1>4 DEF Consistent, StepsFit, ClearFits, WillMount, Mounting
<1>6. MountsLast(V)' /\ EntriesBacked(V)' /\ MountsBacked(V)'
  BY <1>1, <1>3 DEF Consistent, MountsLast, EntriesBacked, EntryBacked, MountsBacked, WillMount, Mounting, OwnOffer, KeptCopy
<1> QED BY <1>5, <1>6 DEF Consistent

\* Pending clears and mounts carry over from one list of steps to another, and
\* with them what they back.
LEMMA BackingCarries ==
  ASSUME NEW W, NEW V, EntriesBacked(W), MountsBacked(W),
         \A i, t : WillClear(W, i, t) => WillClear(V, i, t),
         \A t : WillMount(W, t) => WillMount(V, t)
  PROVE  EntriesBacked(V) /\ MountsBacked(V)
BY DEF EntriesBacked, EntryBacked, MountsBacked

\* The head of a list of steps is replaced by the step it turns into.
LEMMA HeadTurns ==
  ASSUME NEW W \in Seq(ShareSteps), W # <<>>, Consistent(W), NEW x \in ShareSteps, NEW V, V = <<x>> \o Tail(W),
         x.at = W[1].at, Mounting(W[1]) <=> Mounting(x), \A i : Clears(W[1], i) => Clears(x, i),
         W[1].do # "write",
         \A a \in DOMAIN W : a # 1 => W[a].do # "write",
         (\A i, t : WillClear(W, i, t) => WillClear(V, i, t)) /\ (\A t : WillMount(W, t) => WillMount(V, t)) =>
           ClearFits(V, 1) \/ NextFits(V, x)
  PROVE  Consistent(V)
<1>1. /\ V \in Seq(ShareSteps) /\ DOMAIN V = 1 .. Len(W) /\ V[1] = x /\ \A k \in 2 .. Len(W) : V[k] = W[k]
  BY StepsWithOne
<1>2. DOMAIN W = 1 .. Len(W) /\ Len(W) \in Nat
  OBVIOUS
<1>3. \A k \in DOMAIN W : k \in DOMAIN V /\ V[k].at = W[k].at /\ (Mounting(V[k]) <=> Mounting(W[k]))
  <2> SUFFICES ASSUME NEW k \in DOMAIN W
               PROVE  k \in DOMAIN V /\ V[k].at = W[k].at /\ (Mounting(V[k]) <=> Mounting(W[k]))
    OBVIOUS
  <2>1. CASE k = 1
    BY <1>1, <1>2, <2>1
  <2>2. CASE k # 1
    <3>1. V[k] = W[k]
      BY <1>1, <1>2, <2>2
    <3> QED BY <1>1, <1>2, <3>1
  <2> QED BY <2>1, <2>2
<1>4. \A k \in DOMAIN W : \A i : Clears(W[k], i) => Clears(V[k], i)
  <2> SUFFICES ASSUME NEW k \in DOMAIN W, NEW i, Clears(W[k], i) PROVE Clears(V[k], i)
    OBVIOUS
  <2>1. CASE k = 1
    BY <1>1, <2>1
  <2>2. CASE k # 1
    <3>1. V[k] = W[k]
      BY <1>1, <1>2, <2>2
    <3> QED BY <3>1
  <2> QED BY <2>1, <2>2
<1>5. \A i, t : WillClear(W, i, t) => WillClear(V, i, t)
  BY <1>3, <1>4 DEF WillClear
<1>6. \A t : WillMount(W, t) => WillMount(V, t)
  BY <1>3 DEF WillMount
<1>7. EntriesBacked(V) /\ MountsBacked(V)
  BY <1>5, <1>6, BackingCarries DEF Consistent
<1>8. MountsLast(V)
  BY <1>1, <1>2, <1>3 DEF MountsLast, Consistent
<1>9. StepsFit(V)
  <2> SUFFICES ASSUME NEW a \in DOMAIN V
               PROVE  V[a].do = "reconcile" \/ ClearFits(V, a) \/ (a = 1 /\ NextFits(V, V[a]))
    BY DEF StepsFit
  <2>1. CASE a = 1
    BY <1>1, <1>5, <1>6, <2>1
  <2>2. CASE a # 1
    <3>1. V[a] = W[a] /\ a \in DOMAIN W
      BY <1>1, <1>2, <2>2
    <3>2. W[a].do = "reconcile" \/ ClearFits(W, a)
      BY <3>1, <2>2 DEF Consistent, StepsFit
    <3>3. ASSUME ClearFits(W, a) PROVE ClearFits(V, a)
      BY <1>6, <2>2, <3>1, <3>3 DEF ClearFits
    <3> QED BY <3>1, <3>2, <3>3
  <2> QED BY <2>1, <2>2
<1> QED BY <1>7, <1>8, <1>9 DEF Consistent

\* After a mount begins only mounts are left to do.
LEMMA OnlyMountsFollow ==
  ASSUME NEW W \in Seq(ShareSteps), W # <<>>, Consistent(W), Mounting(W[1])
  PROVE  /\ \A a \in DOMAIN W : Mounting(W[a]) /\ (a # 1 => W[a].do = "reconcile")
         /\ \A i, t : ~WillClear(W, i, t)
<1>1. DOMAIN W = 1 .. Len(W) /\ Len(W) \in Nat /\ 1 \in DOMAIN W
  OBVIOUS
<1>2. \A a \in DOMAIN W : Mounting(W[a])
  <2> SUFFICES ASSUME NEW a \in DOMAIN W, a # 1 PROVE Mounting(W[a])
    OBVIOUS
  <2>1. 1 < a
    BY <1>1
  <2> QED BY <1>1, <2>1 DEF Consistent, MountsLast
<1>3. \A a \in DOMAIN W : \A i : ~Clears(W[a], i)
  BY <1>2 DEF Clears, Mounting
<1>4. \A a \in DOMAIN W : a # 1 => W[a].do = "reconcile"
  BY <1>3 DEF Consistent, StepsFit, ClearFits
<1> QED BY <1>2, <1>3, <1>4 DEF WillClear

LEMMA UpsertTurns ==
  ASSUME NEW W \in Seq(ShareSteps), W # <<>>, Consistent(W), SharesData, W[1].do = "upsert", W[1] \in ShareSteps,
         NEW x \in ShareSteps, x = Write(W[1].at, UpsertRecipientShare(shares[W[1].at], W[1].offered, W[1].at, W[1].state))
  PROVE  Consistent(<<x>> \o Tail(W))
<1>0. 1 \in DOMAIN W
  OBVIOUS
<1>1. /\ W[1].at \in ShareTenants /\ W[1].offered \in Offers \cup Copies /\ W[1].state \in States
  BY StepFields
<1>2. W[1].offered.id \in ShareId
  BY <1>1 DEF Offers, Copies
<1>3. /\ W[1].offered.id.src # W[1].at /\ OfferedNow(W[1].offered.id, W[1].at) /\ WillMount(W, W[1].at)
  BY <1>0 DEF Consistent, StepsFit, ClearFits, Clears, NextFits
<1>4. PICK V : V = <<x>> \o Tail(W)
  OBVIOUS
<1>5. x.at = W[1].at /\ x.do = "write" /\ ~Mounting(W[1]) /\ ~Mounting(x) /\ \A i : ~Clears(W[1], i)
  BY DEF Write, Mounting, Clears
<1>6. \A a \in DOMAIN W : a # 1 => W[a].do # "write"
  BY DEF Consistent, StepsFit, ClearFits
<1>7. ASSUME \A t : WillMount(W, t) => WillMount(V, t) PROVE NextFits(V, x)
  <2>1. x.list = RemoveShare(shares[x.at], W[1].offered.id) \cup {[id |-> W[1].offered.id, to |-> {x.at}, state |-> W[1].state]}
    BY <1>5 DEF Write, UpsertRecipientShare
  <2>2. NewCopy(V, x)
    BY <1>1, <1>2, <1>3, <1>5, <1>7, <2>1 DEF NewCopy
  <2> QED BY <1>5, <2>2 DEF NextFits
<1>8. Consistent(V)
  BY <1>4, <1>5, <1>6, <1>7, HeadTurns
<1> QED BY <1>4, <1>8

LEMMA DropTurns ==
  ASSUME NEW W \in Seq(ShareSteps), W # <<>>, Consistent(W), W[1].do = "drop",
         NEW x \in ShareSteps, x = Write(W[1].at, RemoveShare(shares[W[1].at], W[1].share))
  PROVE  Consistent(<<x>> \o Tail(W))
<1>0. 1 \in DOMAIN W
  OBVIOUS
<1>1. ClearFits(W, 1)
  BY <1>0 DEF Consistent, StepsFit, NextFits
<1>2. PICK V : V = <<x>> \o Tail(W)
  OBVIOUS
<1>3. /\ x.at = W[1].at /\ x.do = "write" /\ ~Mounting(W[1]) /\ ~Mounting(x)
      /\ \A i : Clears(W[1], i) => Clears(x, i)
  BY DEF Write, Mounting, Clears
<1>4. \A a \in DOMAIN W : a # 1 => W[a].do # "write"
  BY DEF Consistent, StepsFit, ClearFits
<1>5. V[1] = x
  BY <1>2, StepsWithOne
<1>6. ASSUME \A t : WillMount(W, t) => WillMount(V, t) PROVE ClearFits(V, 1)
  BY <1>1, <1>3, <1>5, <1>6 DEF ClearFits
<1>7. Consistent(V)
  BY <1>2, <1>3, <1>4, <1>6, HeadTurns
<1> QED BY <1>2, <1>7

LEMMA ReconcileTurns ==
  ASSUME NEW W \in Seq(ShareSteps), W # <<>>, Consistent(W), W[1].do = "reconcile",
         NEW x \in ShareSteps, x = [do |-> "apply", at |-> W[1].at, list |-> shares[W[1].at]]
  PROVE  Consistent(<<x>> \o Tail(W))
<1>1. PICK V : V = <<x>> \o Tail(W)
  OBVIOUS
<1>2. /\ x.at = W[1].at /\ x.do = "apply" /\ Mounting(W[1]) /\ Mounting(x) /\ \A i : ~Clears(W[1], i)
  BY DEF Mounting, Clears
<1>3. \A a \in DOMAIN W : a # 1 => W[a].do # "write"
  BY <1>2, OnlyMountsFollow
<1>4. NextFits(V, x)
  BY DEF NextFits
<1>5. Consistent(V)
  BY <1>1, <1>2, <1>3, <1>4, HeadTurns
<1> QED BY <1>1, <1>5

LEMMA RevokeTurns ==
  ASSUME NEW W \in Seq(ShareSteps), W # <<>>, Consistent(W), W[1] \in ShareSteps, W[1].do = "revoke",
         NEW x \in ShareSteps, NEW y \in ShareSteps,
         x = Write(W[1].source, W[1].list), y = Write(W[1].at, RemoveShare(shares[W[1].at], W[1].share))
  PROVE  Consistent(<<x, y>> \o Tail(W))
<1>0. 1 \in DOMAIN W /\ DOMAIN W = 1 .. Len(W) /\ Len(W) \in Nat
  OBVIOUS
<1>1. /\ W[1].share.src = W[1].source /\ W[1].source # W[1].at /\ WillMount(W, W[1].at) /\ LessOffers(W[1])
      /\ W[1].share \in ShareId
  <2>1. ~ClearFits(W, 1)
    BY DEF ClearFits, Clears
  <2> QED BY <1>0, <2>1, StepFields DEF Consistent, StepsFit, NextFits
<1>2. PICK V : V = <<x, y>> \o Tail(W)
  OBVIOUS
<1>3. /\ V \in Seq(ShareSteps) /\ DOMAIN V = 1 .. Len(W) + 1 /\ V[1] = x /\ V[2] = y
      /\ \A k \in 3 .. Len(W) + 1 : V[k] = W[k - 1]
  BY <1>2, StepsWithTwo
<1>4. /\ x.do = "write" /\ x.at = W[1].source /\ x.list = W[1].list
      /\ y.do = "write" /\ y.at = W[1].at /\ y.list = RemoveShare(shares[y.at], W[1].share)
      /\ ~Mounting(x) /\ ~Mounting(y) /\ ~Mounting(W[1])
  BY DEF Write, Mounting
<1>5. Clears(y, W[1].share)
  BY <1>1, <1>4 DEF Clears
<1>6. \A k \in DOMAIN W : k # 1 => k + 1 \in DOMAIN V /\ V[k + 1] = W[k]
  <2> SUFFICES ASSUME NEW k \in 2 .. Len(W) PROVE k + 1 \in DOMAIN V /\ V[k + 1] = W[k]
    BY <1>0
  <2>1. k + 1 \in 3 .. Len(W) + 1 /\ (k + 1) - 1 = k
    BY <1>0
  <2> QED BY <1>0, <1>3, <2>1
<1>7. \A k \in DOMAIN V : k = 1 \/ k = 2 \/ (k > 2 /\ k - 1 \in DOMAIN W /\ k - 1 # 1 /\ V[k] = W[k - 1])
  BY <1>0, <1>3
<1>8. 1 \in DOMAIN V /\ 2 \in DOMAIN V
  BY <1>0, <1>3
<1>9. \A i : ~Clears(W[1], i)
  BY DEF Clears
<1>10. \A i, t : WillClear(W, i, t) => WillClear(V, i, t)
  BY <1>6, <1>9 DEF WillClear
<1>11. \A t : WillMount(W, t) => WillMount(V, t)
  BY <1>4, <1>6 DEF WillMount
<1>12. EntriesBacked(V) /\ MountsBacked(V)
  BY <1>10, <1>11, BackingCarries DEF Consistent
<1>13. MountsLast(V)
  <2> SUFFICES ASSUME NEW a \in DOMAIN V, NEW b \in DOMAIN V, a < b, Mounting(V[a]) PROVE Mounting(V[b])
    BY DEF MountsLast
  <2>1. a > 2 /\ b > 2
    BY <1>3, <1>4, <1>7
  <2>2. a - 1 < b - 1
    BY <1>3
  <2> QED BY <1>7, <2>1, <2>2 DEF Consistent, MountsLast
<1>14. WillClear(V, W[1].share, W[1].at)
  BY <1>3, <1>4, <1>5, <1>8 DEF WillClear
<1>15. NextFits(V, x)
  <2>1. \A s \in shares[x.at] : s.id.src = x.at => \A r \in s.to :
          (\E z \in x.list : z.id = s.id /\ r \in z.to) \/ WillClear(V, s.id, r)
    BY <1>1, <1>4, <1>14 DEF LessOffers
  <2>2. NewOffers(V, x.at, x.list)
    BY <1>1, <1>4, <2>1 DEF LessOffers, NewOffers
  <2> QED BY <1>4, <2>2 DEF NextFits
<1>16. ClearFits(V, 2)
  BY <1>1, <1>3, <1>4, <1>5, <1>11 DEF ClearFits
<1>17. StepsFit(V)
  <2> SUFFICES ASSUME NEW a \in DOMAIN V
               PROVE  V[a].do = "reconcile" \/ ClearFits(V, a) \/ (a = 1 /\ NextFits(V, V[a]))
    BY DEF StepsFit
  <2>1. CASE a = 1
    BY <1>3, <1>15, <2>1
  <2>2. CASE a = 2
    BY <1>16, <2>2
  <2>3. CASE a # 1 /\ a # 2
    <3>1. V[a] = W[a - 1] /\ a - 1 \in DOMAIN W /\ a - 1 # 1
      BY <1>7, <2>3
    <3>2. W[a - 1].do = "reconcile" \/ ClearFits(W, a - 1)
      BY <3>1 DEF Consistent, StepsFit
    <3>3. ASSUME ClearFits(W, a - 1) PROVE ClearFits(V, a)
      <4>1. W[a - 1].do # "write"
        BY <3>1, <3>3 DEF ClearFits
      <4> QED BY <1>11, <3>1, <3>3, <4>1 DEF ClearFits
    <3> QED BY <3>1, <3>2, <3>3
  <2> QED BY <2>1, <2>2, <2>3
<1>18. Consistent(V)
  BY <1>12, <1>13, <1>17 DEF Consistent
<1> QED BY <1>2, <1>18

LEMMA ApplyRuns ==
  ASSUME NEW W \in Seq(ShareSteps), W # <<>>, Consistent(W), SharesData, W[1] \in ShareSteps, W[1].do = "apply",
         UNCHANGED shares, mounts' = [mounts EXCEPT ![W[1].at] = DesiredDevices(W[1].list, W[1].at)]
  PROVE  Consistent(<<>> \o Tail(W))'
<1>0. 1 \in DOMAIN W /\ DOMAIN W = 1 .. Len(W) /\ Len(W) \in Nat
  OBVIOUS
<1>1. PICK V : V = <<>> \o Tail(W)
  OBVIOUS
<1>2. DOMAIN V = 1 .. Len(W) - 1 /\ \A k \in 1 .. Len(W) - 1 : V[k] = W[k + 1]
  BY <1>1, StepsWithout
<1>3. /\ \A a \in DOMAIN W : Mounting(W[a]) /\ (a # 1 => W[a].do = "reconcile")
      /\ \A i, t : ~WillClear(W, i, t)
  BY OnlyMountsFollow DEF Mounting
<1>4. W[1].list = shares[W[1].at] /\ W[1].at \in ShareTenants
  <2>1. ~ClearFits(W, 1)
    BY DEF ClearFits, Clears
  <2> QED BY <1>0, <2>1, StepFields DEF Consistent, StepsFit, NextFits
<1>5. \A k \in DOMAIN V : V[k].do = "reconcile"
  <2> SUFFICES ASSUME NEW k \in 1 .. Len(W) - 1 PROVE V[k].do = "reconcile"
    BY <1>2
  <2>1. k + 1 \in DOMAIN W /\ k + 1 # 1
    BY <1>0
  <2> QED BY <1>2, <1>3, <2>1
<1>6. StepsFit(V)' /\ MountsLast(V)'
  BY <1>5 DEF StepsFit, MountsLast, Mounting
<1>7. \A t \in ShareTenants : \A s \in shares[t] : OwnOffer(s, t) \/ (KeptCopy(s, t) /\ OfferedNow(s.id, t))
  BY <1>3 DEF Consistent, EntriesBacked, EntryBacked
<1>8. EntriesBacked(V)'
  BY <1>7 DEF EntriesBacked, EntryBacked, OwnOffer, KeptCopy, OfferedNow
<1>9. ASSUME NEW t \in ShareTenants, NEW i \in mounts'[t]
      PROVE  WillMount(V, t) \/ (AcceptedNow(i, t) /\ OfferedNow(i, t))
  <2>1. CASE t = W[1].at
    <3>1. i \in DesiredDevices(shares[t], t)
      BY <1>4, <1>9, <2>1 DEF SharesData
    <3>2. PICK s \in shares[t] : s.id = i /\ s.state = "accepted"
      BY <3>1 DEF DesiredDevices, IsAccepted
    <3>3. OfferedNow(i, t)
      BY <1>7, <3>2 DEF OwnOffer
    <3> QED BY <3>2, <3>3 DEF AcceptedNow
  <2>2. CASE t # W[1].at
    <3>1. i \in mounts[t]
      BY <1>9, <2>2 DEF SharesData
    <3>2. ASSUME WillMount(W, t) PROVE WillMount(V, t)
      <4>1. PICK b \in DOMAIN W : W[b].at = t /\ Mounting(W[b])
        BY <3>2 DEF WillMount
      <4>2. b # 1
        BY <2>2, <4>1
      <4>3. b - 1 \in DOMAIN V /\ V[b - 1] = W[b]
        BY <1>0, <1>2, <4>2
      <4> QED BY <4>1, <4>3 DEF WillMount
    <3> QED BY <3>1, <3>2 DEF Consistent, MountsBacked
  <2> QED BY <2>1, <2>2
<1>10. MountsBacked(V)'
  BY <1>9 DEF MountsBacked, AcceptedNow, OfferedNow, WillMount, Mounting
<1>11. Consistent(V)'
  BY <1>6, <1>8, <1>10 DEF Consistent
<1> QED BY <1>1, <1>11

LEMMA WriteRuns ==
  ASSUME NEW W \in Seq(ShareSteps), W # <<>>, Consistent(W), SharesData, W[1] \in ShareSteps, W[1].do = "write",
         shares' = [shares EXCEPT ![W[1].at] = W[1].list], UNCHANGED mounts
  PROVE  Consistent(<<>> \o Tail(W))'
<1>0. 1 \in DOMAIN W /\ DOMAIN W = 1 .. Len(W) /\ Len(W) \in Nat
  OBVIOUS
<1>1. PICK V, at, list : V = <<>> \o Tail(W) /\ at = W[1].at /\ list = W[1].list
  OBVIOUS
<1>2. DOMAIN V = 1 .. Len(W) - 1 /\ \A k \in 1 .. Len(W) - 1 : V[k] = W[k + 1]
  BY <1>1, StepsWithout
<1>3. at \in ShareTenants /\ list \in ShareLists
  BY <1>1, StepFields
<1>4. /\ shares'[at] = list
      /\ \A t \in ShareTenants : t # at => shares'[t] = shares[t]
  BY <1>1, <1>3 DEF SharesData
<1>5. \A t \in ShareTenants : \A s \in shares[t] : s.id \in ShareId /\ s.id.src \in ShareTenants
  BY DEF SharesData, ShareLists, Offers, Copies, ShareId
<1>6. \A k \in DOMAIN W : k # 1 => k - 1 \in DOMAIN V /\ V[k - 1] = W[k]
  BY <1>0, <1>2
<1>7. \A k \in DOMAIN V : k + 1 \in DOMAIN W /\ k + 1 # 1 /\ V[k] = W[k + 1]
  BY <1>0, <1>2
<1>8. ASSUME NEW b \in DOMAIN W, b # 1, NEW i, Clears(W[b], i) PROVE Clears(W[b], i)'
  <2>1. CASE W[b].do = "drop"
    BY <1>8, <2>1 DEF Clears
  <2>2. CASE W[b].do = "write"
    <3>1. W[b].at # at /\ W[b].at \in ShareTenants
      <4>1. ClearFits(W, b)
        BY <1>8, <2>2 DEF Consistent, StepsFit
      <4>2. W[b] \in ShareSteps
        OBVIOUS
      <4> QED BY <1>1, <1>8, <2>2, <4>1, <4>2, StepFields DEF ClearFits
    <3> QED BY <1>4, <1>8, <2>2, <3>1 DEF Clears, RemoveShare, ById
  <2> QED BY <1>8, <2>1, <2>2 DEF Clears
\* Pending clears still are, but the one just made; pending mounts all are.
<1>9. ASSUME NEW i, NEW t, WillClear(W, i, t) PROVE WillClear(V, i, t)' \/ (t = at /\ \A s \in list : s.id # i)
  <2>1. PICK b \in DOMAIN W : W[b].at = t /\ Clears(W[b], i)
    BY <1>9 DEF WillClear
  <2>2. CASE b = 1
    BY <1>1, <2>1, <2>2 DEF Clears, RemoveShare, ById
  <2>3. CASE b # 1
    <3>1. b - 1 \in DOMAIN V /\ V[b - 1] = W[b] /\ Clears(W[b], i)'
      BY <1>6, <1>8, <2>1, <2>3
    <3>2. Clears(V[b - 1], i)'
      BY <3>1
    <3> QED BY <2>1, <3>1, <3>2 DEF WillClear
  <2> QED BY <2>2, <2>3
<1>10. \A t : WillMount(W, t) => WillMount(V, t)
  <2> SUFFICES ASSUME NEW t, NEW b \in DOMAIN W, W[b].at = t, Mounting(W[b]) PROVE WillMount(V, t)
    BY DEF WillMount
  <2>1. b # 1
    BY DEF Mounting
  <2> QED BY <1>6, <2>1 DEF WillMount
<1>11. StepsFit(V)'
  <2> SUFFICES ASSUME NEW k \in DOMAIN V PROVE V[k].do = "reconcile" \/ ClearFits(V, k)'
    BY DEF StepsFit
  <2>1. k + 1 \in DOMAIN W /\ k + 1 # 1 /\ V[k] = W[k + 1]
    BY <1>7
  <2>2. V[k].do = "reconcile" \/ ClearFits(W, k + 1)
    BY <2>1 DEF Consistent, StepsFit
  <2>3. ASSUME ClearFits(W, k + 1) PROVE ClearFits(V, k)'
    <3>1. PICK i \in ShareId : Clears(W[k + 1], i)
      BY <2>3 DEF ClearFits
    <3>2. Clears(W[k + 1], i)'
      BY <1>8, <2>1, <3>1
    <3>3. Clears(V[k], i)'
      BY <2>1, <3>2
    <3>4. WillMount(V, V[k].at)'
      BY <1>10, <2>1, <2>3 DEF ClearFits, WillMount, Mounting
    <3>5. V[k].do = "write" => k = 1
      BY <1>2, <2>1, <2>3 DEF ClearFits
    <3> QED BY <3>3, <3>4, <3>5 DEF ClearFits
  <2> QED BY <2>2, <2>3
<1>12. MountsLast(V)'
  <2> SUFFICES ASSUME NEW a \in DOMAIN V, NEW b \in DOMAIN V, a < b, Mounting(V[a]) PROVE Mounting(V[b])
    BY DEF MountsLast, Mounting
  <2>1. a + 1 < b + 1
    BY <1>2
  <2> QED BY <1>7, <2>1 DEF Consistent, MountsLast
\* The three kinds of writes.
<1>13. \/ (\E i \in ShareId : i.src # at /\ list = RemoveShare(shares[at], i)) /\ WillMount(W, at)
       \/ NewOffers(W, at, list)
       \/ NewCopy(W, W[1])
  BY <1>0, <1>1 DEF Consistent, StepsFit, ClearFits, Clears, NextFits
<1>14. \A t \in ShareTenants : \A s \in shares[t] : EntryBacked(W, s, t)
  BY DEF Consistent, EntriesBacked
<1>15. EntriesBacked(V)' /\ MountsBacked(V)'
  <2>1. ASSUME \A i \in ShareId, t \in ShareTenants : OfferedNow(i, t) => OfferedNow(i, t)' \/ (i.src = at /\ WillClear(W, i, t)),
               \A s \in list : s \in shares[at] \/ EntryBacked(V, s, at)',
               \/ WillMount(W, at)
               \/ \A s \in shares[at] : s.id.src # at => s \in list
        PROVE  EntriesBacked(V)' /\ MountsBacked(V)'
    <3>1. ASSUME NEW t \in ShareTenants, NEW s \in shares'[t], s \in shares[t] PROVE EntryBacked(V, s, t)'
      <4>1. OwnOffer(s, t) \/ (KeptCopy(s, t) /\ (OfferedNow(s.id, t) \/ WillClear(W, s.id, t)))
        BY <1>14, <3>1 DEF EntryBacked
      <4>2. s.id \in ShareId
        BY <1>5, <3>1
      <4>3. OfferedNow(s.id, t) => OfferedNow(s.id, t)' \/ WillClear(W, s.id, t)
        BY <2>1, <4>2
      <4>4. WillClear(W, s.id, t) => WillClear(V, s.id, t)'
        BY <1>4, <1>9, <3>1
      <4> QED BY <4>1, <4>3, <4>4 DEF EntryBacked, OwnOffer, KeptCopy
    <3>2. ASSUME NEW t \in ShareTenants, NEW s \in shares'[t] PROVE EntryBacked(V, s, t)'
      BY <1>4, <2>1, <3>1, <3>2
    <3>3. ASSUME NEW t \in ShareTenants, NEW i \in mounts[t], ~WillMount(W, t)
          PROVE  AcceptedNow(i, t)' /\ OfferedNow(i, t)'
      <4>1. AcceptedNow(i, t) /\ OfferedNow(i, t)
        BY <3>3 DEF Consistent, MountsBacked
      <4>2. PICK s \in shares[t] : s.id = i /\ s.state = "accepted"
        BY <4>1 DEF AcceptedNow
      <4>3. i \in ShareId
        BY <1>5, <4>2
      <4>4. s \in shares'[t]
        <5>1. s.id.src # t
          BY <1>14, <4>2 DEF EntryBacked, OwnOffer, KeptCopy
        <5> QED BY <1>4, <2>1, <3>3, <4>2, <5>1
      <4>5. ~(i.src = at /\ WillClear(W, i, t))
        <5> SUFFICES ASSUME i.src = at, NEW b \in DOMAIN W, W[b].at = t, Clears(W[b], i) PROVE FALSE
          BY DEF WillClear
        <5>1. b # 1
          BY <1>1 DEF Clears
        <5>2. ClearFits(W, b)
          BY <5>1 DEF Clears, Consistent, StepsFit
        <5> QED BY <3>3, <5>2 DEF ClearFits
      <4>6. OfferedNow(i, t)'
        BY <2>1, <4>1, <4>3, <4>5
      <4> QED BY <4>2, <4>4, <4>6 DEF AcceptedNow
    <3>4. MountsBacked(V)'
      BY <1>10, <3>3 DEF MountsBacked, WillMount, Mounting
    <3> QED BY <3>2, <3>4 DEF EntriesBacked
  <2>2. ASSUME NEW i \in ShareId, i.src # at, RemoveShare(shares[at], i) \subseteq list
        PROVE  \A j \in ShareId, t \in ShareTenants : OfferedNow(j, t) => OfferedNow(j, t)'
    <3> SUFFICES ASSUME NEW j \in ShareId, NEW t \in ShareTenants, NEW s \in shares[j.src], s.id = j, t \in s.to
                 PROVE  OfferedNow(j, t)'
      BY DEF OfferedNow
    <3>1. j.src \in ShareTenants
      BY DEF ShareId
    <3>2. s \in shares'[j.src]
      BY <1>4, <2>2, <3>1 DEF RemoveShare, ById
    <3> QED BY <3>2 DEF OfferedNow
  <2>3. CASE (\E i \in ShareId : i.src # at /\ list = RemoveShare(shares[at], i)) /\ WillMount(W, at)
    <3>1. \A s \in list : s \in shares[at]
      BY <2>3 DEF RemoveShare
    <3> QED BY <2>1, <2>2, <2>3, <3>1
  <2>4. CASE NewCopy(W, W[1])
    <3>1. PICK i \in ShareId, st \in States :
            /\ list = RemoveShare(shares[at], i) \cup {[id |-> i, to |-> {at}, state |-> st]}
            /\ i.src # at /\ OfferedNow(i, at) /\ WillMount(W, at)
      BY <1>1, <2>4 DEF NewCopy
    <3>2. \A j \in ShareId, t \in ShareTenants : OfferedNow(j, t) => OfferedNow(j, t)'
      BY <2>2, <3>1
    <3>3. PICK c : c = [id |-> i, to |-> {at}, state |-> st]
      OBVIOUS
    <3>4. KeptCopy(c, at) /\ OfferedNow(c.id, at)'
      BY <1>3, <3>1, <3>2, <3>3 DEF KeptCopy
    <3>5. EntryBacked(V, c, at)'
      BY <3>4 DEF EntryBacked, KeptCopy
    <3>6. \A s \in list : s \in shares[at] \/ EntryBacked(V, s, at)'
      BY <3>1, <3>3, <3>5 DEF RemoveShare
    <3> QED BY <2>1, <3>1, <3>2, <3>6
  <2>5. CASE NewOffers(W, at, list)
    <3>1. ASSUME NEW j \in ShareId, NEW t \in ShareTenants, OfferedNow(j, t)
          PROVE  OfferedNow(j, t)' \/ (j.src = at /\ WillClear(W, j, t))
      <4>1. PICK s \in shares[j.src] : s.id = j /\ t \in s.to
        BY <3>1 DEF OfferedNow
      <4>2. CASE j.src = at
        BY <1>4, <2>5, <4>1, <4>2 DEF NewOffers, OfferedNow
      <4>3. CASE j.src # at
        BY <1>4, <4>1, <4>3 DEF ShareId, OfferedNow
      <4> QED BY <4>2, <4>3
    <3>2. \A s \in list : s \in shares[at] \/ EntryBacked(V, s, at)'
      BY <2>5 DEF NewOffers, EntryBacked, OwnOffer
    <3>3. \A s \in shares[at] : s.id.src # at => s \in list
      BY <2>5 DEF NewOffers
    <3> QED BY <2>1, <3>1, <3>2, <3>3
  <2> QED BY <1>13, <2>3, <2>4, <2>5
<1>16. Consistent(V)'
  BY <1>11, <1>12, <1>15 DEF Consistent
<1> QED BY <1>1, <1>16

\* What requests start from when nothing is under way.
LEMMA SharesAtRest ==
  ASSUME Consistent(<<>>), SharesData
  PROVE  /\ \A t \in ShareTenants : \A s \in shares[t] : OwnOffer(s, t) \/ (KeptCopy(s, t) /\ OfferedNow(s.id, t))
         /\ EntriesBacked(<<>>) /\ MountsBacked(<<>>)
         /\ \A i, t : ~WillClear(<<>>, i, t)
         /\ \A t : ~WillMount(<<>>, t)
         /\ \A V : EntriesBacked(V) /\ MountsBacked(V)
<1>1. (\A i, t : ~WillClear(<<>>, i, t)) /\ (\A t : ~WillMount(<<>>, t))
  BY DEF WillClear, WillMount
<1> QED BY <1>1, BackingCarries DEF Consistent, EntriesBacked, EntryBacked

\* The steps of a request are consistent with what it read.
LEMMA CreateBegins ==
  ASSUME Consistent(<<>>), SharesData, NEW s \in ShareTenants, NEW n \in ShareNames, NEW to \in SUBSET ShareTenants, s \notin to,
         NEW w, w = Write(s, shares[s] \cup {[id |-> [src |-> s, name |-> n], to |-> to, state |-> "offered"]})
  PROVE  Consistent(<<w>>)
<1>1. PICK V : V = <<w>>
  OBVIOUS
<1>2. DOMAIN V = {1} /\ V[1] = w /\ w.do = "write" /\ w.at = s
  BY <1>1 DEF Write
<1>3. NewOffers(V, w.at, w.list)
  BY <1>2 DEF NewOffers, OwnOffer, Write
<1>4. StepsFit(V) /\ MountsLast(V)
  BY <1>2, <1>3 DEF StepsFit, NextFits, MountsLast
<1>5. Consistent(V)
  BY <1>4, SharesAtRest DEF Consistent
<1> QED BY <1>1, <1>5

LEMMA MountFollows ==
  ASSUME Consistent(<<>>), SharesData, NEW w, NEW r, w.do \in {"upsert", "revoke"},
         WillMount(<<w, Reconcile(r)>>, r) => NextFits(<<w, Reconcile(r)>>, w)
  PROVE  Consistent(<<w, Reconcile(r)>>)
<1>1. PICK V : V = <<w, Reconcile(r)>>
  OBVIOUS
<1>2. DOMAIN V = {1, 2} /\ V[1] = w /\ V[2] = Reconcile(r)
  BY <1>1
<1>3. V[2].do = "reconcile" /\ V[2].at = r /\ Mounting(V[2]) /\ ~Mounting(V[1])
  BY <1>2 DEF Reconcile, Mounting
<1>4. WillMount(V, r)
  BY <1>2, <1>3 DEF WillMount
<1>5. StepsFit(V) /\ MountsLast(V)
  BY <1>1, <1>2, <1>3, <1>4 DEF StepsFit, MountsLast
<1>6. Consistent(V)
  BY <1>5, SharesAtRest DEF Consistent
<1> QED BY <1>1, <1>6

LEMMA RevokeBegins ==
  ASSUME Consistent(<<>>), SharesData, NEW s \in ShareTenants, NEW n \in ShareNames, NEW r \in ShareTenants,
         NEW found \in ById(shares[s], [src |-> s, name |-> n]), r \in found.to,
         NEW less, less.id = found.id, less.to = found.to \ {r}, less.state = found.state,
         NEW w, w.do = "revoke", w.at = r, w.source = s, w.share = found.id,
         w.list = (shares[s] \ {found}) \cup {less}
  PROVE  Consistent(<<w, Reconcile(r)>>)
<1>1. found \in shares[s] /\ found.id.src = s
  BY DEF ById
<1>2. OwnOffer(found, s)
  BY <1>1, SharesAtRest DEF KeptCopy
<1>3. r # s
  BY <1>2 DEF OwnOffer
<1>4. OwnOffer(less, s)
  BY <1>2 DEF OwnOffer
<1>5. LessOffers(w)
  BY <1>1, <1>4 DEF LessOffers
<1>6. WillMount(<<w, Reconcile(r)>>, r) => NextFits(<<w, Reconcile(r)>>, w)
  BY <1>1, <1>3, <1>5 DEF NextFits
<1>7. w.do \in {"upsert", "revoke"}
  OBVIOUS
<1> QED BY <1>6, <1>7, MountFollows

LEMMA AnswerBegins ==
  ASSUME Consistent(<<>>), SharesData, NEW s \in ShareTenants, NEW n \in ShareNames, NEW r \in ShareTenants,
         NEW st \in States, NEW offered \in ByName(shares[s], n), r \in offered.to, NEW w,
         w = [do |-> "upsert", at |-> r, offered |-> offered, state |-> st]
  PROVE  Consistent(<<w, Reconcile(r)>>)
<1>1. offered \in shares[s]
  BY DEF ByName
<1>2. offered.id.src # r /\ OfferedNow(offered.id, r)
  <2>1. CASE OwnOffer(offered, s)
    BY <1>1, <2>1 DEF OwnOffer, OfferedNow
  <2>2. CASE KeptCopy(offered, s) /\ OfferedNow(offered.id, s)
    BY <2>2 DEF KeptCopy
  <2> QED BY <1>1, <2>1, <2>2, SharesAtRest
<1>3. w.do = "upsert" /\ w.at = r /\ w.offered = offered
  OBVIOUS
<1>4. WillMount(<<w, Reconcile(r)>>, r) => NextFits(<<w, Reconcile(r)>>, w)
  BY <1>2, <1>3 DEF NextFits
<1> QED BY <1>3, <1>4, MountFollows

LEMMA ReconcileBegins ==
  ASSUME Consistent(<<>>), SharesData, NEW t
  PROVE  Consistent(<<Reconcile(t)>>)
<1>1. PICK V : V = <<Reconcile(t)>>
  OBVIOUS
<1>2. DOMAIN V = {1} /\ V[1].do = "reconcile"
  BY <1>1 DEF Reconcile
<1>3. Consistent(V)
  BY <1>2, SharesAtRest DEF Consistent, StepsFit, MountsLast
<1> QED BY <1>1, <1>3

\* Where the steps of a deletion are.
DeletionPlaces(V, D, R) ==
  /\ \A k \in DOMAIN D : 1 + k \in DOMAIN V /\ V[1 + k] = D[k]
  /\ \A k \in DOMAIN R : 1 + Len(D) + k \in DOMAIN V /\ V[1 + Len(D) + k] = R[k]
  /\ \A a \in DOMAIN V : \/ a = 1
                         \/ \E k \in DOMAIN D : a = 1 + k /\ V[a] = D[k]
                         \/ \E k \in DOMAIN R : a = 1 + Len(D) + k /\ V[a] = R[k]
LEMMA DeletionPlaced ==
  ASSUME NEW w, NEW D \in Seq(ShareSteps), NEW R \in Seq(ShareSteps), NEW V, IsDeletion(V, w, D, R)
  PROVE  DeletionPlaces(V, D, R)
<1>7. DOMAIN D = 1 .. Len(D) /\ DOMAIN R = 1 .. Len(R) /\ Len(D) \in Nat /\ Len(R) \in Nat
  OBVIOUS
<1>8. DOMAIN V = 1 .. 1 + Len(D) + Len(R)
  BY DEF IsDeletion
<1>9. \A k \in DOMAIN D : 1 + k \in DOMAIN V /\ V[1 + k] = D[k]
  BY <1>7 DEF IsDeletion
<1>10. \A k \in DOMAIN R : 1 + Len(D) + k \in DOMAIN V /\ V[1 + Len(D) + k] = R[k]
  BY <1>7 DEF IsDeletion
<1>11. \A a \in DOMAIN V : \/ a = 1
                           \/ \E k \in DOMAIN D : a = 1 + k /\ V[a] = D[k]
                           \/ \E k \in DOMAIN R : a = 1 + Len(D) + k /\ V[a] = R[k]
  <2> SUFFICES ASSUME NEW a \in 2 .. 1 + Len(D) + Len(R)
               PROVE  \/ \E k \in DOMAIN D : a = 1 + k /\ V[a] = D[k]
                      \/ \E k \in DOMAIN R : a = 1 + Len(D) + k /\ V[a] = R[k]
    BY <1>7, <1>8
  <2>1. CASE a <= 1 + Len(D)
    <3>1. a - 1 \in DOMAIN D /\ a = 1 + (a - 1)
      BY <1>7, <2>1
    <3> QED BY <1>9, <3>1
  <2>2. CASE a > 1 + Len(D)
    <3>1. a - 1 - Len(D) \in DOMAIN R /\ a = 1 + Len(D) + (a - 1 - Len(D))
      BY <1>7, <2>2
    <3> QED BY <1>10, <3>1
  <2> QED BY <1>7, <2>1, <2>2
<1> QED BY <1>9, <1>10, <1>11 DEF DeletionPlaces

\* A drop at a tenant the share went to clears the copy there.
LEMMA DropClears ==
  ASSUME NEW d, NEW i, NEW ts, d.do = "drop", d.share = i, d.at \in ts, i.src \notin ts
  PROVE  Clears(d, i)
BY DEF Clears

LEMMA DeleteBegins ==
  ASSUME Consistent(<<>>), SharesData, NEW s \in ShareTenants, NEW n \in ShareNames,
         NEW found \in ById(shares[s], [src |-> s, name |-> n]), NEW w \in ShareSteps, w = Write(s, shares[s] \ {found}),
         NEW D \in Seq(ShareSteps), NEW R \in Seq(ShareSteps),
         \A k \in DOMAIN D : D[k].do = "drop" /\ D[k].share = found.id /\ D[k].at \in found.to,
         \A k \in DOMAIN R : R[k].do = "reconcile" /\ R[k].at \in found.to,
         \A t \in found.to : \E k \in DOMAIN D : D[k].at = t,
         \A t \in found.to : \E k \in DOMAIN R : R[k].at = t
  PROVE  DeleteSteps(w, D, R) \in Seq(ShareSteps) /\ Consistent(DeleteSteps(w, D, R))
<1>1. found \in shares[s] /\ found.id.src = s
  BY DEF ById
<1>2. OwnOffer(found, s)
  BY <1>1, SharesAtRest DEF KeptCopy
<1>3. found.id \in ShareId /\ found.to \in SUBSET ShareTenants
  BY <1>1 DEF SharesData, ShareLists, Offers, Copies
<1>5. PICK V : V = DeleteSteps(w, D, R)
  OBVIOUS
<1>6. IsDeletion(V, w, D, R)
  BY <1>5, DeletionSteps
<1>7. DOMAIN D = 1 .. Len(D) /\ DOMAIN R = 1 .. Len(R) /\ Len(D) \in Nat /\ Len(R) \in Nat
  OBVIOUS
<1>8. DOMAIN V = 1 .. 1 + Len(D) + Len(R) /\ V[1] = w /\ w.do = "write" /\ w.at = s /\ w.list = shares[s] \ {found}
  BY <1>6 DEF IsDeletion, Write
<1>9. /\ \A k \in DOMAIN D : 1 + k \in DOMAIN V /\ V[1 + k] = D[k]
      /\ \A k \in DOMAIN R : 1 + Len(D) + k \in DOMAIN V /\ V[1 + Len(D) + k] = R[k]
      /\ \A a \in DOMAIN V : \/ a = 1
                             \/ \E k \in DOMAIN D : a = 1 + k /\ V[a] = D[k]
                             \/ \E k \in DOMAIN R : a = 1 + Len(D) + k /\ V[a] = R[k]
  <2>1. DeletionPlaces(V, D, R)
    BY <1>6, DeletionPlaced
  <2> QED BY <2>1, Zenon DEF DeletionPlaces
<1>12. ASSUME NEW t \in found.to PROVE WillMount(V, t)
  <2>1. PICK k \in DOMAIN R : R[k].at = t
    OBVIOUS
  <2>2. 1 + Len(D) + k \in DOMAIN V /\ V[1 + Len(D) + k] = R[k]
    BY <1>9
  <2>3. Mounting(R[k])
    BY DEF Mounting
  <2> QED BY <2>1, <2>2, <2>3 DEF WillMount
<1>4. found.id.src \notin found.to
  BY <1>1, <1>2 DEF OwnOffer
<1>13. ASSUME NEW k \in DOMAIN D PROVE Clears(D[k], found.id)
  <2>1. D[k].do = "drop" /\ D[k].share = found.id /\ D[k].at \in found.to
    OBVIOUS
  <2> QED BY <1>4, <2>1, DropClears
<1>14. ASSUME NEW t \in found.to PROVE WillClear(V, found.id, t)
  <2>1. PICK k \in DOMAIN D : D[k].at = t
    OBVIOUS
  <2>2. 1 + k \in DOMAIN V /\ V[1 + k] = D[k]
    BY <1>9
  <2> QED BY <1>13, <2>1, <2>2 DEF WillClear
<1>15. NewOffers(V, s, w.list)
  BY <1>1, <1>8, <1>14 DEF NewOffers
<1>16. StepsFit(V)
  <2> SUFFICES ASSUME NEW a \in DOMAIN V
               PROVE  V[a].do = "reconcile" \/ ClearFits(V, a) \/ (a = 1 /\ NextFits(V, V[a]))
    BY DEF StepsFit
  <2>1. CASE a = 1
    BY <1>8, <1>15, <2>1 DEF NextFits
  <2>2. ASSUME NEW k \in DOMAIN D, V[a] = D[k] PROVE ClearFits(V, a)
    BY <1>3, <1>12, <1>13, <2>2 DEF ClearFits
  <2>3. ASSUME NEW k \in DOMAIN R, V[a] = R[k] PROVE V[a].do = "reconcile"
    BY <2>3
  <2> QED BY <1>9, <2>1, <2>2, <2>3
<1>17. MountsLast(V)
  <2> SUFFICES ASSUME NEW a \in DOMAIN V, NEW b \in DOMAIN V, a < b, Mounting(V[a]) PROVE Mounting(V[b])
    BY DEF MountsLast
  <2>1. PICK k \in DOMAIN R : a = 1 + Len(D) + k
    BY <1>8, <1>9 DEF Mounting
  <2>2. \A j \in DOMAIN D : b # 1 + j
    BY <1>7, <1>8, <2>1
  <2>3. b # 1
    BY <1>8
  <2> QED BY <1>9, <2>2, <2>3 DEF Mounting
<1>18. Consistent(V)
  BY <1>16, <1>17, SharesAtRest DEF Consistent
<1> QED BY <1>5, <1>6, <1>18 DEF IsDeletion

\* One request at a time: it begins when nothing is under way, ...
LEMMA OneBegins ==
  ASSUME SharesInv, NEW q \in ShareRequests, NEW V \in Seq(ShareSteps), Begins(q, V), ~disturbed',
         Consistent(<<>>) => Consistent(V)
  PROVE  OneByOne(V)'
<1>1. ~disturbed /\ \A r \in ShareRequests : work[r] = <<>>
  BY DEF Begins
<1>2. PICK W : OneByOne(W)
  BY <1>1 DEF SharesInv
<1>3. W = <<>>
  BY <1>1, <1>2 DEF OneByOne
<1>4. Consistent(V)
  BY <1>2, <1>3 DEF OneByOne
<1>5. Consistent(V)'
  BY <1>4, ConsistentStays DEF Begins
<1>6. work' = [work EXCEPT ![q] = V] /\ work \in [ShareRequests -> Seq(ShareSteps)]
  BY DEF Begins, SharesInv, SharesKept, SharesData
<1>7. work'[q] = V /\ \A r \in ShareRequests : r # q => work'[r] = <<>>
  BY <1>1, <1>6
<1> QED BY <1>5, <1>7 DEF OneByOne

\* ... and its steps come one after another.
LEMMA OneGoesOn ==
  ASSUME SharesInv, ~disturbed, NEW q \in ShareRequests, work[q] # <<>>, NEW V \in Seq(ShareSteps),
         work' = [work EXCEPT ![q] = V], Consistent(work[q]) => Consistent(V)'
  PROVE  OneByOne(V)'
<1>1. PICK W : OneByOne(W)
  BY DEF SharesInv
<1>2. W = work[q] /\ \A r \in ShareRequests : r # q => work[r] = <<>>
  BY <1>1 DEF OneByOne
<1>3. Consistent(V)'
  BY <1>1, <1>2 DEF OneByOne
<1>4. work \in [ShareRequests -> Seq(ShareSteps)]
  BY DEF SharesInv, SharesKept, SharesData
<1>5. work'[q] = V /\ \A r \in ShareRequests : r # q => work'[r] = <<>>
  BY <1>2, <1>4
<1> QED BY <1>3, <1>5 DEF OneByOne

LEMMA BeginsOneByOne ==
  ASSUME SharesInv, NEW q \in ShareRequests, ShareBegins(q), ~disturbed'
  PROVE  \E V : OneByOne(V)'
<1>0. /\ SharesData
      /\ \A t \in ShareTenants : shares[t] \in ShareLists
  BY DEF SharesInv, SharesKept, SharesData
<1>1. ASSUME NEW s \in ShareTenants, NEW n \in ShareNames, NEW to \in SUBSET ShareTenants, ShareCreate(q, s, n, to)
      PROVE  \E V : OneByOne(V)'
  <2>1. PICK w : w = Write(s, shares[s] \cup {[id |-> [src |-> s, name |-> n], to |-> to, state |-> "offered"]})
    OBVIOUS
  <2>2. Begins(q, <<w>>) /\ s \notin to
    BY <1>1, <2>1 DEF ShareCreate
  <2>3. w \in ShareSteps
    BY <1>0, <2>1 DEF Write, ShareSteps, ShareLists, Offers, ShareId
  <2>4. Consistent(<<>>) => Consistent(<<w>>)
    BY <1>0, <2>1, <2>2, CreateBegins
  <2>5. <<w>> \in Seq(ShareSteps)
    BY <2>3
  <2>6. OneByOne(<<w>>)'
    BY <2>2, <2>4, <2>5, OneBegins
  <2> QED BY <2>6
<1>2. ASSUME NEW s \in ShareTenants, NEW n \in ShareNames, NEW r \in ShareTenants, ShareRevoke(q, s, n, r)
      PROVE  \E V : OneByOne(V)'
  <2>1. PICK found \in ById(shares[s], [src |-> s, name |-> n]) :
          /\ r \in found.to /\ Cardinality(found.to) > 1
          /\ Begins(q, <<[do |-> "revoke", at |-> r, source |-> s, share |-> found.id,
                          list |-> (shares[s] \ {found}) \cup {[found EXCEPT !.to = @ \ {r}]}], Reconcile(r)>>)
    BY <1>2 DEF ShareRevoke
  <2>2. PICK less, w : /\ less = [found EXCEPT !.to = @ \ {r}]
                       /\ w = [do |-> "revoke", at |-> r, source |-> s, share |-> found.id,
                               list |-> (shares[s] \ {found}) \cup {less}]
    OBVIOUS
  <2>3. found \in Offers
    <3>1. found \in shares[s]
      BY DEF ById
    <3>2. found \notin Copies
      BY <2>1, ManyRecipients
    <3> QED BY <1>0, <3>1, <3>2 DEF ShareLists
  <2>4. /\ less \in Offers /\ found.id \in ShareId
        /\ less.id = found.id /\ less.to = found.to \ {r} /\ less.state = found.state
    BY <2>2, <2>3 DEF Offers
  <2>5. w \in ShareSteps /\ Reconcile(r) \in ShareSteps
    BY <1>0, <2>2, <2>4 DEF ShareSteps, ShareLists, Reconcile
  <2>6. /\ w.do = "revoke" /\ w.at = r /\ w.source = s /\ w.share = found.id
        /\ w.list = (shares[s] \ {found}) \cup {less}
    BY <2>2
  <2>7. Consistent(<<>>) => Consistent(<<w, Reconcile(r)>>)
    BY <1>0, <2>1, <2>4, <2>6, RevokeBegins
  <2>8. <<w, Reconcile(r)>> \in Seq(ShareSteps)
    BY <2>5
  <2>9. Begins(q, <<w, Reconcile(r)>>)
    BY <2>1, <2>2
  <2>10. OneByOne(<<w, Reconcile(r)>>)'
    BY <2>7, <2>8, <2>9, OneBegins
  <2> QED BY <2>10
<1>3. ASSUME NEW s \in ShareTenants, NEW n \in ShareNames, NEW r \in ShareTenants, NEW st \in States,
             ShareAnswer(q, r, s, n, st)
      PROVE  \E V : OneByOne(V)'
  <2>1. PICK offered \in ByName(shares[s], n) :
          /\ r \in offered.to
          /\ Begins(q, <<[do |-> "upsert", at |-> r, offered |-> offered, state |-> st], Reconcile(r)>>)
    BY <1>3 DEF ShareAnswer
  <2>2. PICK w : w = [do |-> "upsert", at |-> r, offered |-> offered, state |-> st]
    OBVIOUS
  <2>3. offered \in Offers \cup Copies
    BY <1>0 DEF ByName, ShareLists
  <2>4. w \in ShareSteps /\ Reconcile(r) \in ShareSteps
    BY <2>2, <2>3 DEF ShareSteps, Reconcile
  <2>5. Consistent(<<>>) => Consistent(<<w, Reconcile(r)>>)
    BY <1>0, <2>1, <2>2, AnswerBegins
  <2>6. <<w, Reconcile(r)>> \in Seq(ShareSteps)
    BY <2>4
  <2>7. Begins(q, <<w, Reconcile(r)>>)
    BY <2>1, <2>2
  <2>8. OneByOne(<<w, Reconcile(r)>>)'
    BY <2>5, <2>6, <2>7, OneBegins
  <2> QED BY <2>8
<1>4. ASSUME NEW s \in ShareTenants, NEW n \in ShareNames, ShareDelete(q, s, n)
      PROVE  \E V : OneByOne(V)'
  <2>1. PICK found, D, R :
          /\ found \in ById(shares[s], [src |-> s, name |-> n])
          /\ D = [k \in DOMAIN SE!SetToSeq(found.to) |->
                    [do |-> "drop", at |-> SE!SetToSeq(found.to)[k], share |-> found.id]]
          /\ R = [k \in DOMAIN SE!SetToSeq(found.to) |-> Reconcile(SE!SetToSeq(found.to)[k])]
          /\ Begins(q, <<Write(s, shares[s] \ {found})>> \o D \o R)
    BY <1>4 DEF ShareDelete, EachOf
  <2>2. PICK w : w = Write(s, shares[s] \ {found})
    OBVIOUS
  <2>3. found.id \in ShareId /\ found.to \in SUBSET ShareTenants
    BY <1>0, <2>1 DEF ById, ShareLists, Offers, Copies
  <2>4. w \in ShareSteps
    BY <1>0, <2>2 DEF Write, ShareSteps, ShareLists
  <2>5. /\ D \in Seq(ShareSteps) /\ R \in Seq(ShareSteps)
        /\ \A k \in DOMAIN D : D[k].do = "drop" /\ D[k].share = found.id /\ D[k].at \in found.to
        /\ \A k \in DOMAIN R : R[k].do = "reconcile" /\ R[k].at \in found.to
        /\ \A t \in found.to : \E k \in DOMAIN D : D[k].at = t
        /\ \A t \in found.to : \E k \in DOMAIN R : R[k].at = t
    <3>1. DropsOf(found.to, found.id, D, R)
      BY <2>1, <2>3, DropsAndReconciles
    <3> QED BY <3>1 DEF DropsOf
  <2>6. Begins(q, DeleteSteps(w, D, R))
    BY <2>1, <2>2 DEF DeleteSteps
  <2>7. found \in ById(shares[s], [src |-> s, name |-> n])
    BY <2>1
  <2>8. IsDeletion(DeleteSteps(w, D, R), w, D, R)
    BY <2>4, <2>5, DeletionSteps
  <2>9. DeleteSteps(w, D, R) \in Seq(ShareSteps)
    BY <2>8 DEF IsDeletion
  <2>10. Consistent(<<>>) => Consistent(DeleteSteps(w, D, R))
    BY <1>0, <2>2, <2>4, <2>5, <2>7, DeleteBegins
  <2>11. OneByOne(DeleteSteps(w, D, R))'
    BY <2>6, <2>9, <2>10, OneBegins
  <2> QED BY <2>11
<1>5. ASSUME NEW t \in ShareTenants, ShareReconcile(q, t) PROVE \E V : OneByOne(V)'
  <2>1. <<Reconcile(t)>> \in Seq(ShareSteps)
    BY DEF Reconcile, ShareSteps
  <2>2. Consistent(<<>>) => Consistent(<<Reconcile(t)>>)
    BY <1>0, ReconcileBegins
  <2>3. OneByOne(<<Reconcile(t)>>)'
    BY <1>5, <2>1, <2>2, OneBegins DEF ShareReconcile
  <2> QED BY <2>3
<1> QED BY <1>1, <1>2, <1>3, <1>4, <1>5 DEF ShareBegins

LEMMA StepsOneByOne ==
  ASSUME SharesInv, NEW q \in ShareRequests, ShareStep(q), ~disturbed'
  PROVE  \E V : OneByOne(V)'
<1>0. work[q] # <<>>
  BY DEF ShareStep, StepUpsert, StepRevoke, StepDrop, StepWrite, StepReconcile, StepApply, ShareGoes
<1>1. PICK W : W = work[q]
  OBVIOUS
<1>2. /\ W \in Seq(ShareSteps) /\ W # <<>> /\ Head(W) = W[1] /\ W[1] \in ShareSteps
      /\ <<>> \o Tail(W) \in Seq(ShareSteps)
  BY <1>0, <1>1, ShareNextStep DEF SharesInv
<1>3. /\ W[1].at \in ShareTenants
      /\ W[1].do \in {"write", "revoke", "apply"} => W[1].list \in ShareLists
      /\ W[1].do = "upsert" => W[1].offered \in Offers \cup Copies /\ W[1].state \in States
      /\ W[1].do = "revoke" => W[1].source \in ShareTenants
      /\ W[1].do \in {"revoke", "drop"} => W[1].share \in ShareId
  BY <1>2, StepFields
<1>4. /\ SharesData
      /\ \A t \in ShareTenants : shares[t] \in ShareLists
  BY DEF SharesInv, SharesKept, SharesData
<1>5. ASSUME ~disturbed, NEW V \in Seq(ShareSteps), work' = [work EXCEPT ![q] = V], UNCHANGED <<shares, mounts>>,
             Consistent(W) => Consistent(V)
      PROVE  \E U : OneByOne(U)'
  <2>1. Consistent(W) => Consistent(V)'
    BY <1>5, ConsistentStays
  <2>2. OneByOne(V)'
    BY <1>0, <1>1, <1>5, <2>1, OneGoesOn
  <2> QED BY <2>2
<1>6. CASE StepUpsert(q)
  <2>1. PICK x : x = Write(W[1].at, UpsertRecipientShare(shares[W[1].at], W[1].offered, W[1].at, W[1].state))
    OBVIOUS
  <2>2. W[1].do = "upsert" /\ work' = [work EXCEPT ![q] = <<x>> \o Tail(W)]
    BY <1>1, <1>2, <1>6, <2>1 DEF StepUpsert, ShareGoes, ShareRest
  <2>3. x \in ShareSteps
    <3>1. [id |-> W[1].offered.id, to |-> {W[1].at}, state |-> W[1].state] \in Copies
      BY <1>3, <2>2 DEF Offers, Copies
    <3>2. RemoveShare(shares[W[1].at], W[1].offered.id) \in ShareLists
      BY <1>3, <1>4, ListsAreLists
    <3>3. x.list \in ShareLists
      BY <2>1, <3>1, <3>2 DEF UpsertRecipientShare, Write, ShareLists
    <3> QED BY <1>3, <2>1, <3>3 DEF Write, ShareSteps
  <2>4. Consistent(W) => Consistent(<<x>> \o Tail(W))
    BY <1>2, <1>4, <2>1, <2>2, <2>3, UpsertTurns
  <2>5. <<x>> \o Tail(W) \in Seq(ShareSteps)
    BY <1>2, <2>3, StepsWithOne
  <2> QED BY <1>5, <1>6, <2>2, <2>4, <2>5 DEF StepUpsert
<1>7. CASE StepDrop(q)
  <2>1. PICK x : x = Write(W[1].at, RemoveShare(shares[W[1].at], W[1].share))
    OBVIOUS
  <2>2. W[1].do = "drop" /\ work' = [work EXCEPT ![q] = <<x>> \o Tail(W)]
    BY <1>1, <1>2, <1>7, <2>1 DEF StepDrop, ShareGoes, ShareRest
  <2>3. x \in ShareSteps
    BY <1>3, <1>4, <2>1, ListsAreLists DEF Write, ShareSteps
  <2>4. Consistent(W) => Consistent(<<x>> \o Tail(W))
    BY <1>2, <2>1, <2>2, <2>3, DropTurns
  <2>5. <<x>> \o Tail(W) \in Seq(ShareSteps)
    BY <1>2, <2>3, StepsWithOne
  <2> QED BY <1>5, <1>7, <2>2, <2>4, <2>5 DEF StepDrop
<1>8. CASE StepReconcile(q)
  <2>1. PICK x : x = [do |-> "apply", at |-> W[1].at, list |-> shares[W[1].at]]
    OBVIOUS
  <2>2. W[1].do = "reconcile" /\ work' = [work EXCEPT ![q] = <<x>> \o Tail(W)]
    BY <1>1, <1>2, <1>8, <2>1 DEF StepReconcile, ShareGoes, ShareRest
  <2>3. x \in ShareSteps
    BY <1>3, <1>4, <2>1 DEF ShareSteps
  <2>4. Consistent(W) => Consistent(<<x>> \o Tail(W))
    BY <1>2, <2>1, <2>2, <2>3, ReconcileTurns
  <2>5. <<x>> \o Tail(W) \in Seq(ShareSteps)
    BY <1>2, <2>3, StepsWithOne
  <2> QED BY <1>5, <1>8, <2>2, <2>4, <2>5 DEF StepReconcile
<1>9. CASE StepRevoke(q)
  <2>1. PICK x, y : x = Write(W[1].source, W[1].list) /\ y = Write(W[1].at, RemoveShare(shares[W[1].at], W[1].share))
    OBVIOUS
  <2>2. W[1].do = "revoke" /\ work' = [work EXCEPT ![q] = <<x, y>> \o Tail(W)]
    BY <1>1, <1>2, <1>9, <2>1 DEF StepRevoke, ShareGoes, ShareRest
  <2>3. x \in ShareSteps /\ y \in ShareSteps
    BY <1>3, <1>4, <2>1, <2>2, ListsAreLists DEF Write, ShareSteps
  <2>4. Consistent(W) => Consistent(<<x, y>> \o Tail(W))
    BY <1>2, <2>1, <2>2, <2>3, RevokeTurns
  <2>5. <<x, y>> \o Tail(W) \in Seq(ShareSteps)
    BY <1>2, <2>3, StepsWithTwo
  <2> QED BY <1>5, <1>9, <2>2, <2>4, <2>5 DEF StepRevoke
<1>10. CASE StepWrite(q)
  <2>1. /\ W[1].do = "write" /\ ~disturbed /\ UNCHANGED mounts
        /\ shares' = [shares EXCEPT ![W[1].at] = W[1].list] /\ work' = [work EXCEPT ![q] = <<>> \o Tail(W)]
    BY <1>1, <1>2, <1>10 DEF StepWrite, ShareGoes, ShareRest
  <2>2. Consistent(W) => Consistent(<<>> \o Tail(W))'
    BY <1>2, <1>4, <2>1, WriteRuns
  <2>3. OneByOne(<<>> \o Tail(W))'
    BY <1>0, <1>1, <1>2, <2>1, <2>2, OneGoesOn
  <2> QED BY <2>3
<1>11. CASE StepApply(q)
  <2>1. /\ W[1].do = "apply" /\ ~disturbed /\ UNCHANGED shares
        /\ mounts' = [mounts EXCEPT ![W[1].at] = DesiredDevices(W[1].list, W[1].at)]
        /\ work' = [work EXCEPT ![q] = <<>> \o Tail(W)]
    BY <1>1, <1>2, <1>11 DEF StepApply, ShareGoes, ShareRest
  <2>2. Consistent(W) => Consistent(<<>> \o Tail(W))'
    BY <1>2, <1>4, <2>1, ApplyRuns
  <2>3. OneByOne(<<>> \o Tail(W))'
    BY <1>0, <1>1, <1>2, <2>1, <2>2, OneGoesOn
  <2> QED BY <2>3
<1> QED BY <1>6, <1>7, <1>8, <1>9, <1>10, <1>11 DEF ShareStep

LEMMA SharesInitInv == SharesInit => SharesInv
<1> SUFFICES ASSUME SharesInit PROVE SharesInv
  OBVIOUS
<1>1. SharesKept
  <2>1. work \in [ShareRequests -> Seq(ShareSteps)] /\ \A q \in ShareRequests : DOMAIN work[q] = {}
    BY DEF SharesInit
  <2>2. SharesEvidenced
    BY <2>1 DEF SharesInit, SharesEvidenced, MountsWereOffered
  <2>3. SharesData
    BY <2>1 DEF SharesInit, SharesData, ShareLists
  <2> QED BY <2>2, <2>3 DEF SharesKept
<1>2. Consistent(<<>>)
  BY DEF SharesInit, Consistent, StepsFit, MountsLast, EntriesBacked, MountsBacked
<1>3. OneByOne(<<>>)
  BY <1>2 DEF SharesInit, OneByOne
<1> QED BY <1>1, <1>3 DEF SharesInv

LEMMA SharesStepInv ==
  ASSUME SharesInv, [SharesNext]_shareVars PROVE SharesInv'
<1>1. ASSUME NEW q \in ShareRequests, ShareBegins(q) PROVE SharesInv'
  BY <1>1, BeginsKept, BeginsOneByOne DEF SharesInv
<1>2. ASSUME NEW q \in ShareRequests, ShareStep(q) PROVE SharesInv'
  BY <1>2, StepsKept, StepsOneByOne DEF SharesInv
<1>3. ASSUME UNCHANGED <<shares, mounts, work, everOffered, disturbed>> PROVE SharesInv'
  <2>1. SharesKept'
    BY <1>3 DEF SharesInv, SharesKept, SharesData, SharesEvidenced, Evidenced, StepEvidenced, MountsWereOffered
  <2>2. ASSUME ~disturbed', NEW W, OneByOne(W) PROVE OneByOne(W)'
    <3>1. Consistent(W)'
      BY <1>3, <2>2, ConsistentStays DEF OneByOne
    <3> QED BY <1>3, <2>2, <3>1 DEF OneByOne
  <2> QED BY <1>3, <2>1, <2>2 DEF SharesInv
<1> QED BY <1>1, <1>2, <1>3 DEF SharesNext, SourceDirChanges, shareVars

LEMMA SharesInvHolds == SharesInv => SharesTypeOK /\ MountsFollowOffers
<1> SUFFICES ASSUME SharesInv PROVE SharesTypeOK /\ MountsFollowOffers
  OBVIOUS
<1>1. SharesTypeOK
  BY DEF SharesInv, SharesKept, SharesData, SharesTypeOK, ShareLists
<1>2. MountsWereOffered
  BY DEF SharesInv, SharesKept, SharesEvidenced
<1>3. ASSUME Quiet, ~disturbed, NEW t \in ShareTenants, NEW i \in mounts[t]
      PROVE  /\ \E s \in shares[t] : s.id = i /\ s.state = "accepted"
             /\ \E s \in shares[i.src] : s.id = i /\ t \in s.to
  <2>1. PICK W : OneByOne(W)
    BY <1>3 DEF SharesInv
  <2>2. W = <<>>
    BY <1>3, <2>1 DEF OneByOne, Quiet
  <2>3. ~WillMount(W, t)
    BY <2>2 DEF WillMount
  <2> QED BY <1>3, <2>1, <2>3 DEF OneByOne, Consistent, MountsBacked, AcceptedNow, OfferedNow
<1> QED BY <1>1, <1>2, <1>3 DEF MountsFollowOffers, MountsAreOffered

\* However requests interleave and fail, a tenant mounts nothing its owner never
\* offered it; one request at a time and no failure, nothing that is not offered
\* to it and accepted now (SetRecipientState, RevokeRecipient, DeleteOutbound).
THEOREM SharesStaySound == SharesSpec => [](SharesTypeOK /\ MountsFollowOffers)
BY SharesInitInv, SharesStepInv, SharesInvHolds, PTL DEF SharesSpec


-----------------------------------------------------------------------------
(* Tenant builds                                                           *)

\* One login builds the tenant at a time.
OneBuild == \A a, b \in Builds : builds[a] # NoBuild /\ builds[b] # NoBuild => a = b

\* Around a build keys are edited and machines made from a profile that still
\* mounts the shared /home, never beside one.
BuildUndisturbed ==
  /\ \A k \in ExtraKeys : AddSSHKey(k) => NoBuildRuns
  /\ \A m \in BuildMachines : NewMachine(m) /\ profile.home => NoBuildRuns

Records(p, j) == p # Missing /\ p.user = j.user /\ p.own = j.own /\ p.extra = j.extra

\* What a build that got this far has read and made so.
BuildFits(j) ==
  /\ j.step > 2 => bridge = OnOff(j.egress)
  /\ j.step > 14 => nat = OnOff(j.egress)
  /\ j.step <= 3 /\ settings # Missing =>
       j.extra = settings.extra /\ (j.named \/ j.user = settings.user)
  /\ j.step > 3 => Records(settings, j)
  /\ j.step = 9 /\ profile # Missing /\ profile.home =>
       \A m \in BuildMachines : machineHome[m] # "default"
  /\ j.step > 9 => Records(profile, j)
  /\ j.step = 17 => ~WaitsHealthy

\* The URL that was shown is the one the sidecar waits for and the log holds.
ShownURLsKnown ==
  /\ tailnet.log <= tailnet.minted /\ \A u \in shownURLs : u <= tailnet.minted
  /\ tailnet.unit \in shownURLs => tailnet.log = tailnet.unit
  /\ tailnet.unit # NoURL /\ tailnet.log # NoURL => tailnet.unit = tailnet.log

SidecarInv ==
  /\ SidecarTypeOK
  /\ ShownURLsKnown
  /\ converged => NoBuildRuns
  /\ EgressAgrees /\ ProfileMatchesSettings
  /\ \A b \in Builds : builds[b] # NoBuild => BuildFits(builds[b])

\* A build that runs is at one of the eighteen steps.
LEMMA RunningBuild ==
  ASSUME builds \in [Builds -> Jobs], NEW b \in Builds
  PROVE  /\ builds[b] # NoBuild <=> builds[b].step # 0
         /\ builds[b] # NoBuild =>
              builds[b] \in [step : 1 .. 18, user : UnixUsers, own : LoginKeys \cup {Blank},
                             extra : SUBSET ExtraKeys, named : BOOLEAN, egress : BOOLEAN, key : BOOLEAN]
<1>1. Len(BuildSteps) = 18
  BY DEF BuildSteps
<1>2. builds[b] \in Jobs
  OBVIOUS
<1> QED BY <1>1, <1>2 DEF Jobs, NoBuild

LEMMA StepNumbers ==
  ASSUME NEW n \in 1 .. 18
  PROVE  /\ BuildSteps[n] = "egress" <=> n = 1
         /\ BuildSteps[n] = "bridge" <=> n = 2
         /\ BuildSteps[n] = "infra" <=> n = 3
         /\ BuildSteps[n] = "migrate" <=> n = 8
         /\ BuildSteps[n] = "default" <=> n = 9
         /\ BuildSteps[n] = "sidecar" <=> n = 11
         /\ BuildSteps[n] = "nat" <=> n = 14
         /\ BuildSteps[n] = "tailscale" <=> n = 16
         /\ BuildSteps[n] = "start" <=> n = 17
         /\ BuildSteps[n] = "report" <=> n = 18
         /\ BuildSteps[n] \in Once <=> n \in {4, 5, 6, 7, 10, 12, 13, 15}
BY DEF BuildSteps, Once

LEMMA OnStep ==
  ASSUME builds \in [Builds -> Jobs], NEW b \in Builds
  PROVE  /\ On(b, "egress") => builds[b].step = 1
         /\ On(b, "bridge") => builds[b].step = 2
         /\ On(b, "infra") => builds[b].step = 3
         /\ On(b, "migrate") => builds[b].step = 8
         /\ On(b, "default") => builds[b].step = 9
         /\ On(b, "sidecar") => builds[b].step = 11
         /\ On(b, "nat") => builds[b].step = 14
         /\ On(b, "tailscale") => builds[b].step = 16
         /\ On(b, "start") => builds[b].step = 17
         /\ On(b, "report") => builds[b].step = 18
         /\ builds[b] # NoBuild /\ Step(b) \in Once => builds[b].step \in {4, 5, 6, 7, 10, 12, 13, 15}
<1> SUFFICES ASSUME builds[b] # NoBuild
             PROVE  /\ Step(b) = "egress" => builds[b].step = 1
                    /\ Step(b) = "bridge" => builds[b].step = 2
                    /\ Step(b) = "infra" => builds[b].step = 3
                    /\ Step(b) = "migrate" => builds[b].step = 8
                    /\ Step(b) = "default" => builds[b].step = 9
                    /\ Step(b) = "sidecar" => builds[b].step = 11
                    /\ Step(b) = "nat" => builds[b].step = 14
                    /\ Step(b) = "tailscale" => builds[b].step = 16
                    /\ Step(b) = "start" => builds[b].step = 17
                    /\ Step(b) = "report" => builds[b].step = 18
                    /\ Step(b) \in Once => builds[b].step \in {4, 5, 6, 7, 10, 12, 13, 15}
  BY DEF On
<1>1. builds[b].step \in 1 .. 18
  BY RunningBuild
<1> QED BY <1>1, StepNumbers DEF Step

\* A build that goes n steps on keeps what it planned.
LEMMA BuildMoves ==
  ASSUME builds \in [Builds -> Jobs], NEW b \in Builds, builds[b] # NoBuild,
         NEW n \in 1 .. 2, builds[b].step + n <= 18,
         builds' = [builds EXCEPT ![b].step = @ + n]
  PROVE  /\ builds' \in [Builds -> Jobs]
         /\ builds'[b] # NoBuild
         /\ builds'[b].step = builds[b].step + n
         /\ builds'[b].user = builds[b].user /\ builds'[b].own = builds[b].own
         /\ builds'[b].extra = builds[b].extra /\ builds'[b].named = builds[b].named
         /\ builds'[b].egress = builds[b].egress
         /\ \A a \in Builds \ {b} : builds'[a] = builds[a]
<1>1. PICK j : j = builds[b]
  OBVIOUS
<1>2. j \in [step : 1 .. 18, user : UnixUsers, own : LoginKeys \cup {Blank},
             extra : SUBSET ExtraKeys, named : BOOLEAN, egress : BOOLEAN, key : BOOLEAN]
  BY <1>1, RunningBuild
<1>3. PICK i : i = [j EXCEPT !.step = j.step + n]
  OBVIOUS
<1>4. /\ i \in [step : 1 .. 18, user : UnixUsers, own : LoginKeys \cup {Blank},
                extra : SUBSET ExtraKeys, named : BOOLEAN, egress : BOOLEAN, key : BOOLEAN]
      /\ i.step = j.step + n /\ i.user = j.user /\ i.own = j.own /\ i.extra = j.extra
      /\ i.named = j.named /\ i.egress = j.egress
  BY <1>1, <1>2, <1>3
<1>5. i \in Jobs /\ i # NoBuild
  <2>1. Len(BuildSteps) = 18
    BY DEF BuildSteps
  <2> QED BY <1>4, <2>1 DEF Jobs, NoBuild
<1>6. builds' = [builds EXCEPT ![b] = i]
  BY <1>1, <1>3
<1> QED BY <1>1, <1>4, <1>5, <1>6

\* The egress toggle is read into the plan.
LEMMA EgressRead ==
  ASSUME builds \in [Builds -> Jobs], NEW b \in Builds, builds[b] # NoBuild, builds[b].step = 1,
         NEW e \in BOOLEAN, builds' = [builds EXCEPT ![b].step = @ + 1, ![b].egress = e]
  PROVE  /\ builds' \in [Builds -> Jobs]
         /\ builds'[b] # NoBuild /\ builds'[b].step = 2
         /\ builds'[b].user = builds[b].user /\ builds'[b].extra = builds[b].extra
         /\ builds'[b].named = builds[b].named
         /\ \A a \in Builds \ {b} : builds'[a] = builds[a]
<1>1. PICK j : j = builds[b]
  OBVIOUS
<1>2. j \in [step : 1 .. 18, user : UnixUsers, own : LoginKeys \cup {Blank},
             extra : SUBSET ExtraKeys, named : BOOLEAN, egress : BOOLEAN, key : BOOLEAN]
  BY <1>1, RunningBuild
<1>3. PICK i : i = [j EXCEPT !.step = @ + 1, !.egress = e]
  OBVIOUS
<1>4. /\ i \in [step : 1 .. 18, user : UnixUsers, own : LoginKeys \cup {Blank},
                extra : SUBSET ExtraKeys, named : BOOLEAN, egress : BOOLEAN, key : BOOLEAN]
      /\ i.step = 2 /\ i.user = j.user /\ i.extra = j.extra /\ i.named = j.named
  <2>1. j.step + 1 = 2
    BY <1>1
  <2>2. PICK g : g = [j EXCEPT !.step = 2]
    OBVIOUS
  <2>3. /\ g \in [step : 1 .. 18, user : UnixUsers, own : LoginKeys \cup {Blank},
                  extra : SUBSET ExtraKeys, named : BOOLEAN, egress : BOOLEAN, key : BOOLEAN]
        /\ g.step = 2 /\ g.user = j.user /\ g.extra = j.extra /\ g.named = j.named
    BY <1>2, <2>2
  <2>4. i = [g EXCEPT !.egress = e]
    BY <1>3, <2>1, <2>2
  <2> QED BY <2>3, <2>4
<1>5. i \in Jobs /\ i # NoBuild
  <2>1. Len(BuildSteps) = 18
    BY DEF BuildSteps
  <2> QED BY <1>4, <2>1 DEF Jobs, NoBuild
<1>6. builds' = [builds EXCEPT ![b] = i]
  BY <1>1, <1>3
<1> QED BY <1>1, <1>4, <1>5, <1>6

LEMMA BuildEnds ==
  ASSUME builds \in [Builds -> Jobs], NEW b \in Builds, NEW well \in BOOLEAN, EndBuild(b, well)
  PROVE  /\ builds' \in [Builds -> Jobs] /\ builds'[b] = NoBuild
         /\ \A a \in Builds \ {b} : builds'[a] = builds[a]
         /\ converged' = well
BY DEF EndBuild, Jobs

-----------------------------------------------------------------------------
\* Every variable of the tenant's build keeps to its values, however many
\* logins build it at once and whatever fails.
LEMMA SidecarTypesInitially == SidecarInit => SidecarTypeOK
<1> SUFFICES ASSUME SidecarInit PROVE SidecarTypeOK
  OBVIOUS
<1>1. Older \/ Fresh
  BY DEF SidecarInit
<1>2. nat = "off" /\ reach = FALSE /\ shownURLs = {} /\ converged = FALSE /\ stops = 0
      /\ builds = [b \in Builds |-> NoBuild]
  BY DEF SidecarInit
<1>3. builds \in [Builds -> Jobs]
  BY <1>2 DEF Jobs
<1>4. 0 \in 0 .. MaxURL /\ 0 \in 0 .. MaxStops
  BY SidecarAssumption DEF SidecarAssumption
<1>5. /\ settings \in Settings \cup {Missing}
      /\ profile \in Profiles \cup {Missing}
  <2>1. CASE Fresh
    BY <2>1 DEF Fresh
  <2>2. CASE Older
    <3>1. PICK k \in LoginKeys, x \in SUBSET ExtraKeys :
            /\ settings = [user |-> TenantUser, own |-> k, extra |-> x, egress |-> FALSE]
            /\ profile = [user |-> TenantUser, own |-> k, extra |-> x, home |-> TRUE]
      BY <2>2 DEF Older
    <3> QED BY <3>1, SidecarAssumption DEF Settings, Profiles, SidecarAssumption
  <2> QED BY <1>1, <2>1, <2>2
<1>6. /\ made \subseteq Once
      /\ bridge \in {"none", "on", "off"}
      /\ machineHome \in [BuildMachines -> {"absent", "default", "homeshare"}]
      /\ sidecar \in {"none", "stopped", "running"}
  BY <1>1 DEF Older, Fresh
<1>7. tailnet \in [on : BOOLEAN, unit : 0 .. MaxURL, log : 0 .. MaxURL, minted : 0 .. MaxURL]
  <2>1. tailnet = [on |-> FALSE, unit |-> 0, log |-> 0, minted |-> 0] \/
        tailnet = [on |-> TRUE, unit |-> 0, log |-> 0, minted |-> 0]
    BY <1>1 DEF Older, Fresh, NoURL
  <2>2. 0 \in 0 .. MaxURL
    BY <1>4
  <2>3. CASE tailnet = [on |-> FALSE, unit |-> 0, log |-> 0, minted |-> 0]
    BY <2>2, <2>3
  <2>4. CASE tailnet = [on |-> TRUE, unit |-> 0, log |-> 0, minted |-> 0]
    BY <2>2, <2>4
  <2> QED BY <2>1, <2>3, <2>4
<1>8. nat \in {"on", "off"} /\ reach \in BOOLEAN /\ shownURLs \subseteq 1 .. MaxURL
      /\ converged \in BOOLEAN /\ stops \in 0 .. MaxStops
  BY <1>2, <1>4
<1> QED BY <1>3, <1>5, <1>6, <1>7, <1>8, Zenon DEF SidecarTypeOK

LEMMA PlansFit ==
  ASSUME SidecarTypeOK, NEW b \in Builds, NEW user \in UnixUsers \cup {Blank},
         NEW key \in LoginKeys \cup {Blank}, NEW a \in BOOLEAN,
         NEW stored \in {settings, Missing}, PlanBuild(b, user, key, a, stored)
  PROVE  /\ builds' \in [Builds -> Jobs]
         /\ builds'[b] # NoBuild /\ builds'[b].step = 1
         /\ builds'[b].extra = IF stored = Missing THEN {} ELSE stored.extra
         /\ stored # Missing => builds'[b].named \/ builds'[b].user = stored.user
         /\ \A c \in Builds \ {b} : builds'[c] = builds[c]
<1>1. PICK keys : keys = MergeTenantSSHKeys(key, stored)
  OBVIOUS
<1>2. /\ keys.own \in LoginKeys \cup {Blank} /\ keys.extra \in SUBSET ExtraKeys
      /\ keys.extra = IF stored = Missing THEN {} ELSE stored.extra
  BY <1>1 DEF MergeTenantSSHKeys, SidecarTypeOK, Settings
<1>3. PICK u : u = PlannedUser(user, stored)
  OBVIOUS
<1>4. u \in UnixUsers /\ (stored # Missing /\ user = Blank => u = stored.user)
  BY <1>3, SidecarAssumption DEF PlannedUser, SidecarAssumption, SidecarTypeOK, Settings
<1>5. PICK j : j = [step |-> 1, user |-> u, own |-> keys.own, extra |-> keys.extra,
                    named |-> user # Blank, egress |-> FALSE, key |-> a]
  OBVIOUS
<1>6. j \in Jobs /\ j # NoBuild
  <2>1. Len(BuildSteps) = 18
    BY DEF BuildSteps
  <2>2. (user # Blank) \in BOOLEAN
    OBVIOUS
  <2> QED BY <1>2, <1>4, <1>5, <2>1, <2>2 DEF Jobs, NoBuild
<1>7. builds' = [builds EXCEPT ![b] = j]
  BY <1>1, <1>3, <1>5 DEF PlanBuild
<1> QED BY <1>2, <1>4, <1>5, <1>6, <1>7 DEF SidecarTypeOK

\* What a build's step leaves of the rest.
LEMMA SidecarTypesKept ==
  ASSUME SidecarTypeOK, [SidecarNext]_sidecarVars PROVE SidecarTypeOK'
<1> USE DEF SidecarTypeOK
<1>1. ASSUME NEW b \in Builds, StartBuild(b) PROVE SidecarTypeOK'
  <2>1. PICK user \in UnixUsers \cup {Blank}, key \in LoginKeys \cup {Blank}, a \in AuthKeys :
          PlanBuild(b, user, key, a, settings) \/ PlanBuild(b, user, key, a, Missing)
    BY <1>1 DEF StartBuild
  <2>2. a \in BOOLEAN
    BY SidecarAssumption DEF SidecarAssumption
  <2>3. builds' \in [Builds -> Jobs]
    BY <2>1, <2>2, PlansFit
  <2>4. UNCHANGED <<objects, others>> /\ converged' = FALSE
    BY <2>1 DEF PlanBuild
  <2> QED BY <2>3, <2>4 DEF objects, others
<1>2. ASSUME NEW b \in Builds, builds[b] # NoBuild, builds[b].step # 18, Next1(b)
      PROVE  builds' \in [Builds -> Jobs]
  <2>1. builds[b].step \in 1 .. 18
    BY <1>2, RunningBuild
  <2>2. builds[b].step + 1 <= 18
    BY <1>2, <2>1
  <2>3. builds' = [builds EXCEPT ![b].step = @ + 1]
    BY <1>2 DEF Next1
  <2>4. 1 \in 1 .. 2
    OBVIOUS
  <2> QED BY <1>2, <2>2, <2>3, <2>4, BuildMoves
<1>3. ASSUME NEW b \in Builds, ReadEgress(b) PROVE SidecarTypeOK'
  <2>1. PICK e \in BOOLEAN : builds' = [builds EXCEPT ![b].step = @ + 1, ![b].egress = e]
    BY <1>3 DEF ReadEgress
  <2>2. builds[b].step = 1 /\ builds[b] # NoBuild
    BY <1>3, OnStep DEF ReadEgress, On
  <2>3. builds' \in [Builds -> Jobs]
    BY <2>1, <2>2, EgressRead
  <2> QED BY <1>3, <2>3 DEF ReadEgress, objects, others
<1>4. ASSUME NEW b \in Builds, EnsureV2Bridge(b) PROVE SidecarTypeOK'
  <2>1. builds[b].step = 2 /\ builds[b] # NoBuild /\ Next1(b)
    BY <1>4, OnStep DEF EnsureV2Bridge, On
  <2> QED BY <1>2, <1>4, <2>1 DEF EnsureV2Bridge, OnOff, others
<1>5. ASSUME NEW b \in Builds, EnsureInfra(b) PROVE SidecarTypeOK'
  <2>1. builds[b].step = 3 /\ builds[b] # NoBuild /\ Next1(b)
    BY <1>5, OnStep DEF EnsureInfra, On
  <2>2. settings' \in Settings
    BY <1>5, <2>1, RunningBuild DEF EnsureInfra, Settings
  <2> QED BY <1>2, <1>5, <2>1, <2>2 DEF EnsureInfra, others
<1>6. ASSUME NEW b \in Builds, EnsureOnce(b) PROVE SidecarTypeOK'
  <2>1. builds[b].step # 18 /\ builds[b] # NoBuild /\ Next1(b)
    BY <1>6, OnStep DEF EnsureOnce
  <2> QED BY <1>2, <1>6, <2>1 DEF EnsureOnce, others
<1>7. ASSUME NEW b \in Builds, MigrateV2MachinesToHomeShare(b) PROVE SidecarTypeOK'
  <2>1. builds[b].step = 8 /\ builds[b] # NoBuild /\ Next1(b)
    BY <1>7, OnStep DEF MigrateV2MachinesToHomeShare, On
  <2>2. machineHome' \in [BuildMachines -> {"absent", "default", "homeshare"}]
    BY <1>7 DEF MigrateV2MachinesToHomeShare
  <2> QED BY <1>2, <1>7, <2>1, <2>2 DEF MigrateV2MachinesToHomeShare, others
<1>8. ASSUME NEW b \in Builds, EnsureV2AppProfile(b) PROVE SidecarTypeOK'
  <2>1. builds[b].step = 9 /\ builds[b] # NoBuild /\ Next1(b)
    BY <1>8, OnStep DEF EnsureV2AppProfile, On
  <2>2. profile' \in Profiles
    BY <1>8, <2>1, RunningBuild DEF EnsureV2AppProfile, Profiles
  <2> QED BY <1>2, <1>8, <2>1, <2>2 DEF EnsureV2AppProfile, others
<1>9. ASSUME NEW b \in Builds, EnsureV2Sidecar(b) PROVE SidecarTypeOK'
  <2>1. builds[b].step = 11 /\ builds[b] # NoBuild /\ Next1(b)
    BY <1>9, OnStep DEF EnsureV2Sidecar, On
  <2> QED BY <1>2, <1>9, <2>1 DEF EnsureV2Sidecar, others
<1>10. ASSUME NEW b \in Builds, EnsureV2SidecarEgress(b) PROVE SidecarTypeOK'
  <2>1. builds[b].step = 14 /\ builds[b] # NoBuild /\ Next1(b)
    BY <1>10, OnStep DEF EnsureV2SidecarEgress, On
  <2> QED BY <1>2, <1>10, <2>1 DEF EnsureV2SidecarEgress, OnOff, others
<1>11. ASSUME NEW b \in Builds, TailscaleUp(b) PROVE SidecarTypeOK'
  <2>1. builds[b].step = 16 /\ builds[b] # NoBuild
    BY <1>11, OnStep DEF TailscaleUp, On
  <2>2. CASE EndBuild(b, TRUE) /\ reach' = TRUE /\ tailnet' = [tailnet EXCEPT !.on = TRUE]
    BY <1>11, <2>2, BuildEnds DEF TailscaleUp, others
  <2>3. CASE /\ builds' = [builds EXCEPT ![b].step = IF WaitsHealthy THEN @ + 2 ELSE @ + 1]
             /\ UNCHANGED <<tailnet, reach, converged>>
    <3>1. PICK n \in 1 .. 2 : builds' = [builds EXCEPT ![b].step = @ + n]
      <4>1. CASE WaitsHealthy
        <5>1. builds' = [builds EXCEPT ![b].step = @ + 2]
          BY <2>3, <4>1
        <5> WITNESS 2 \in 1 .. 2
        <5> QED BY <5>1
      <4>2. CASE ~WaitsHealthy
        <5>1. builds' = [builds EXCEPT ![b].step = @ + 1]
          BY <2>3, <4>2
        <5> WITNESS 1 \in 1 .. 2
        <5> QED BY <5>1
      <4> QED BY <4>1, <4>2
    <3>2. builds[b].step + n <= 18
      BY <2>1
    <3>3. builds' \in [Builds -> Jobs]
      BY <2>1, <3>1, <3>2, BuildMoves
    <3> QED BY <1>11, <2>3, <3>3 DEF TailscaleUp, others
  <2> QED BY <1>11, <2>2, <2>3 DEF TailscaleUp, Finish
<1>12. ASSUME NEW b \in Builds, StartTailscaleUp(b) PROVE SidecarTypeOK'
  <2>1. builds[b].step = 17 /\ builds[b] # NoBuild /\ Next1(b)
    BY <1>12, OnStep DEF StartTailscaleUp, On
  <2>2. PICK url, logged : /\ url = tailnet.minted + 1 /\ logged \in {NoURL, url}
                           /\ tailnet' = [tailnet EXCEPT !.unit = url, !.log = logged, !.minted = url]
    BY <1>12 DEF StartTailscaleUp
  <2>3. url \in 0 .. MaxURL /\ logged \in 0 .. MaxURL
    BY <1>12, <2>2, SidecarAssumption DEF StartTailscaleUp, SidecarAssumption, NoURL
  <2>4. tailnet' \in [on : BOOLEAN, unit : 0 .. MaxURL, log : 0 .. MaxURL, minted : 0 .. MaxURL]
    BY <2>2, <2>3
  <2> QED BY <1>2, <1>12, <2>1, <2>4 DEF StartTailscaleUp, others
<1>13. ASSUME NEW b \in Builds, ReportURL(b) PROVE SidecarTypeOK'
  <2>1. EndBuild(b, TRUE)
    BY <1>13 DEF ReportURL
  <2>2. shownURLs' \subseteq 1 .. MaxURL
    <3>1. shownURLs' = shownURLs \cup ({tailnet.log} \ {0}) /\ tailnet.log \in 0 .. MaxURL
      BY <1>13 DEF ReportURL, NoURL
    <3>2. tailnet.log # 0 => tailnet.log \in 1 .. MaxURL
      BY <3>1, SidecarAssumption DEF SidecarAssumption
    <3> QED BY <3>1, <3>2
  <2> QED BY <1>13, <2>1, <2>2, BuildEnds DEF ReportURL, objects, others
<1>14. ASSUME NEW b \in Builds, StopBuild(b) PROVE SidecarTypeOK'
  <2>1. EndBuild(b, FALSE)
    BY <1>14 DEF StopBuild
  <2> QED BY <1>14, <2>1, BuildEnds DEF StopBuild, objects, others
<1>15. CASE RunEgress
  <2>1. settings' \in Settings
    BY <1>15 DEF RunEgress, Settings
  <2> QED BY <1>15, <2>1 DEF RunEgress, others
<1>16. ASSUME NEW k \in ExtraKeys, AddSSHKey(k) PROVE SidecarTypeOK'
  <2>1. settings' \in Settings /\ profile' \in Profiles
    BY <1>16 DEF AddSSHKey, Settings, Profiles
  <2> QED BY <1>16, <2>1 DEF AddSSHKey, others
<1>17. ASSUME NEW m \in BuildMachines, NewMachine(m) PROVE SidecarTypeOK'
  BY <1>17 DEF NewMachine, others
<1>18. CASE SidecarStops
  <2>1. stops' \in 0 .. MaxStops
    BY <1>18, SidecarAssumption DEF SidecarStops, SidecarAssumption
  <2>2. tailnet' \in [on : BOOLEAN, unit : 0 .. MaxURL, log : 0 .. MaxURL, minted : 0 .. MaxURL]
    BY <1>18, SidecarAssumption DEF SidecarStops, SidecarAssumption, NoURL
  <2> QED BY <1>18, <2>1, <2>2 DEF SidecarStops, others
<1>19. CASE UserJoins
  <2>1. tailnet' \in [on : BOOLEAN, unit : 0 .. MaxURL, log : 0 .. MaxURL, minted : 0 .. MaxURL]
    <3>1. tailnet' = [tailnet EXCEPT !.on = TRUE, !.unit = 0] /\ 0 \in 0 .. MaxURL
      BY <1>19, SidecarAssumption DEF UserJoins, SidecarAssumption, NoURL
    <3>2. PICK g : g = [tailnet EXCEPT !.on = TRUE]
      OBVIOUS
    <3>3. g \in [on : BOOLEAN, unit : 0 .. MaxURL, log : 0 .. MaxURL, minted : 0 .. MaxURL]
      BY <3>2
    <3>4. tailnet' = [g EXCEPT !.unit = 0]
      BY <3>1, <3>2
    <3> QED BY <3>1, <3>3, <3>4
  <2> QED BY <1>19, <2>1 DEF UserJoins, others
<1>20. CASE UNCHANGED sidecarVars
  BY <1>20 DEF sidecarVars
<1>21. ASSUME NEW b \in Builds, BuildStep(b) PROVE SidecarTypeOK'
  BY <1>3, <1>4, <1>5, <1>6, <1>7, <1>8, <1>9, <1>10, <1>11, <1>12, <1>13, <1>21 DEF BuildStep
<1> QED
  BY <1>1, <1>14, <1>15, <1>16, <1>17, <1>18, <1>19, <1>20, <1>21 DEF SidecarNext

-----------------------------------------------------------------------------
LEMMA SidecarInvInitially == SidecarInit => SidecarInv
<1> SUFFICES ASSUME SidecarInit PROVE SidecarInv
  OBVIOUS
<1>1. shownURLs = {} /\ ~converged /\ \A b \in Builds : builds[b] = NoBuild
  BY DEF SidecarInit
<1>2. tailnet.unit = NoURL
  BY DEF SidecarInit, Older, Fresh
<1>3. tailnet.log <= tailnet.minted
  BY DEF SidecarInit, Older, Fresh, NoURL
<1> QED BY <1>1, <1>2, <1>3, SidecarTypesInitially DEF SidecarInv, ShownURLsKnown, EgressAgrees, ProfileMatchesSettings

\* The one build that runs goes on: it is enough that what it has done so far
\* is in place.
LEMMA BuildGoesOn ==
  ASSUME SidecarInv, SidecarTypeOK', OneBuild, NEW b \in Builds, builds[b] # NoBuild,
         \A a \in Builds \ {b} : builds'[a] = builds[a],
         converged' = converged, ShownURLsKnown', BuildFits(builds[b])'
  PROVE  SidecarInv'
<1>1. ~converged
  BY DEF SidecarInv, NoBuildRuns
<1>2. \A a \in Builds \ {b} : builds'[a] = NoBuild
  BY DEF OneBuild
<1> QED BY <1>1, <1>2 DEF SidecarInv, EgressAgrees, ProfileMatchesSettings, NoBuild

\* ... or ends.
LEMMA BuildOver ==
  ASSUME SidecarInv, SidecarTypeOK', OneBuild, NEW b \in Builds, builds[b] # NoBuild,
         NEW well \in BOOLEAN, EndBuild(b, well),
         ShownURLsKnown', well => EgressAgrees' /\ ProfileMatchesSettings'
  PROVE  SidecarInv'
<1>1. /\ builds'[b] = NoBuild /\ converged' = well
      /\ \A a \in Builds \ {b} : builds'[a] = builds[a]
  BY BuildEnds DEF SidecarInv, SidecarTypeOK
<1>2. \A a \in Builds : builds'[a] = NoBuild
  BY <1>1 DEF OneBuild
<1>3. (\A a \in Builds : builds[a] = NoBuild)'
  BY <1>2 DEF NoBuild
<1> QED BY <1>1, <1>3 DEF SidecarInv, EgressAgrees, ProfileMatchesSettings, NoBuildRuns

LEMMA SameURLs ==
  ASSUME ShownURLsKnown, UNCHANGED <<shownURLs, tailnet>> PROVE ShownURLsKnown'
BY DEF ShownURLsKnown

\* A step of a build on the way to the tailnet.
LEMMA BuildStepKeeps ==
  ASSUME SidecarInv, SidecarTypeOK', OneBuild, "list" \notin BuildFaults, "migrate" \notin BuildFaults,
         NEW b \in Builds,
         \/ ReadEgress(b) \/ EnsureV2Bridge(b) \/ EnsureInfra(b) \/ EnsureOnce(b)
         \/ MigrateV2MachinesToHomeShare(b) \/ EnsureV2AppProfile(b)
         \/ EnsureV2Sidecar(b) \/ EnsureV2SidecarEgress(b)
  PROVE  SidecarInv'
<1>1. builds \in [Builds -> Jobs] /\ builds[b] # NoBuild
  BY DEF SidecarInv, SidecarTypeOK, ReadEgress, EnsureV2Bridge, EnsureInfra, EnsureOnce, On,
         MigrateV2MachinesToHomeShare, EnsureV2AppProfile, EnsureV2Sidecar, EnsureV2SidecarEgress
<1>2. UNCHANGED <<shownURLs, tailnet, converged>>
  BY DEF ReadEgress, EnsureV2Bridge, EnsureInfra, EnsureOnce, objects, others,
         MigrateV2MachinesToHomeShare, EnsureV2AppProfile, EnsureV2Sidecar, EnsureV2SidecarEgress
<1>3. PICK j : j = builds[b]
  OBVIOUS
<1>4. j.step \in 1 .. 18 /\ BuildFits(j)
  BY <1>1, <1>3, RunningBuild DEF SidecarInv
<1>5. PICK i : i = builds'[b]
  OBVIOUS
<1>6. ASSUME Next1(b), j.step < 16
      PROVE  /\ i.step = j.step + 1 /\ i.user = j.user /\ i.own = j.own /\ i.extra = j.extra
             /\ i.named = j.named /\ i.egress = j.egress
             /\ \A a \in Builds \ {b} : builds'[a] = builds[a]
  <2>1. builds' = [builds EXCEPT ![b].step = @ + 1] /\ 1 \in 1 .. 2
    BY <1>6 DEF Next1
  <2>2. builds[b].step + 1 <= 18
    BY <1>3, <1>4, <1>6
  <2> QED BY <1>1, <1>3, <1>5, <2>1, <2>2, BuildMoves
<1>7. ASSUME BuildFits(i)', \A a \in Builds \ {b} : builds'[a] = builds[a] PROVE SidecarInv'
  <2>1. BuildFits(builds[b])'
    BY <1>5, <1>7
  <2>2. ShownURLsKnown'
    BY <1>2, SameURLs DEF SidecarInv
  <2> QED BY <1>1, <1>2, <1>7, <2>1, <2>2, BuildGoesOn
<1>8. CASE ReadEgress(b)
  <2>1. PICK e \in BOOLEAN : builds' = [builds EXCEPT ![b].step = @ + 1, ![b].egress = e]
    BY <1>8 DEF ReadEgress
  <2>2. j.step = 1
    BY <1>1, <1>3, <1>8, OnStep DEF ReadEgress
  <2>3. /\ i.step = 2 /\ i.user = j.user /\ i.extra = j.extra /\ i.named = j.named
        /\ \A a \in Builds \ {b} : builds'[a] = builds[a]
    BY <1>1, <1>3, <1>5, <2>1, <2>2, EgressRead
  <2>4. UNCHANGED settings
    BY <1>8 DEF ReadEgress, objects
  <2>5. BuildFits(i)'
    BY <1>4, <2>2, <2>3, <2>4 DEF BuildFits
  <2> QED BY <1>7, <2>3, <2>5
<1>9. CASE EnsureV2Bridge(b)
  <2>1. j.step = 2 /\ Next1(b) /\ bridge' = OnOff(j.egress) /\ UNCHANGED settings
    BY <1>1, <1>3, <1>9, OnStep DEF EnsureV2Bridge
  <2>2. BuildFits(i)'
    BY <1>4, <1>6, <2>1 DEF BuildFits, OnOff
  <2> QED BY <1>6, <1>7, <2>1, <2>2
<1>10. CASE EnsureInfra(b)
  <2>1. j.step = 3 /\ Next1(b) /\ UNCHANGED bridge
    BY <1>1, <1>3, <1>10, OnStep DEF EnsureInfra
  <2>2. settings' = [user |-> j.user, own |-> j.own, extra |-> j.extra,
                     egress |-> settings # Missing /\ settings.egress]
    BY <1>3, <1>10 DEF EnsureInfra
  <2>3. settings' \in Settings
    BY <1>1, <1>3, <2>2, RunningBuild DEF Settings, SidecarInv, SidecarTypeOK
  <2>4. settings' # Missing
    BY <2>3, SidecarAssumption DEF SidecarAssumption
  <2>5. i.step = 4 /\ i.user = j.user /\ i.own = j.own /\ i.extra = j.extra /\ i.egress = j.egress
    BY <1>6, <2>1
  <2>6. Records(settings, i)'
    BY <2>2, <2>4, <2>5 DEF Records
  <2>7. bridge' = OnOff(i.egress)
    BY <1>4, <2>1, <2>5 DEF BuildFits
  <2>8. BuildFits(i)'
    BY <2>5, <2>6, <2>7 DEF BuildFits, OnOff
  <2> QED BY <1>6, <1>7, <2>1, <2>8
<1>11. CASE EnsureOnce(b)
  <2>1. j.step \in {4, 5, 6, 7, 10, 12, 13, 15} /\ Next1(b) /\ UNCHANGED <<settings, bridge, nat, profile>>
    BY <1>1, <1>3, <1>11, OnStep DEF EnsureOnce
  <2>2. i.step = j.step + 1 /\ i.user = j.user /\ i.own = j.own /\ i.extra = j.extra /\ i.egress = j.egress
    BY <1>6, <2>1
  <2>3. BuildFits(i)'
    BY <1>4, <2>1, <2>2 DEF BuildFits, OnOff, Records
  <2> QED BY <1>6, <1>7, <2>1, <2>3
<1>12. CASE MigrateV2MachinesToHomeShare(b)
  <2>1. j.step = 8 /\ Next1(b) /\ UNCHANGED <<settings, bridge, nat, profile>>
    BY <1>1, <1>3, <1>12, OnStep DEF MigrateV2MachinesToHomeShare
  <2>2. i.step = 9 /\ i.user = j.user /\ i.own = j.own /\ i.extra = j.extra /\ i.egress = j.egress
    BY <1>6, <2>1
  <2>3. profile # Missing /\ profile.home => \A m \in BuildMachines : machineHome'[m] # "default"
    BY <1>12 DEF MigrateV2MachinesToHomeShare
  <2>4. BuildFits(i)'
    BY <1>4, <2>1, <2>2, <2>3 DEF BuildFits, OnOff, Records
  <2> QED BY <1>6, <1>7, <2>1, <2>4
<1>13. CASE EnsureV2AppProfile(b)
  <2>1. j.step = 9 /\ Next1(b) /\ UNCHANGED <<settings, bridge, nat>>
    BY <1>1, <1>3, <1>13, OnStep DEF EnsureV2AppProfile
  <2>2. profile' = [user |-> j.user, own |-> j.own, extra |-> j.extra, home |-> FALSE]
    BY <1>3, <1>13 DEF EnsureV2AppProfile
  <2>3. profile' # Missing
    <3>1. profile' \in Profiles
      BY <1>1, <1>3, <2>2, RunningBuild DEF Profiles, SidecarInv, SidecarTypeOK
    <3> QED BY <3>1, SidecarAssumption DEF SidecarAssumption
  <2>4. i.step = 10 /\ i.user = j.user /\ i.own = j.own /\ i.extra = j.extra /\ i.egress = j.egress
    BY <1>6, <2>1
  <2>5. Records(profile, i)'
    BY <2>2, <2>3, <2>4 DEF Records
  <2>6. BuildFits(i)'
    BY <1>4, <2>1, <2>4, <2>5 DEF BuildFits, OnOff, Records
  <2> QED BY <1>6, <1>7, <2>1, <2>6
<1>14. CASE EnsureV2Sidecar(b)
  <2>1. j.step = 11 /\ Next1(b) /\ UNCHANGED <<settings, bridge, nat, profile>>
    BY <1>1, <1>3, <1>14, OnStep DEF EnsureV2Sidecar
  <2>2. i.step = 12 /\ i.user = j.user /\ i.own = j.own /\ i.extra = j.extra /\ i.egress = j.egress
    BY <1>6, <2>1
  <2>3. BuildFits(i)'
    BY <1>4, <2>1, <2>2 DEF BuildFits, OnOff, Records
  <2> QED BY <1>6, <1>7, <2>1, <2>3
<1>15. CASE EnsureV2SidecarEgress(b)
  <2>1. j.step = 14 /\ Next1(b) /\ UNCHANGED <<settings, bridge, profile>> /\ nat' = OnOff(j.egress)
    BY <1>1, <1>3, <1>15, OnStep DEF EnsureV2SidecarEgress
  <2>2. i.step = 15 /\ i.user = j.user /\ i.own = j.own /\ i.extra = j.extra /\ i.egress = j.egress
    BY <1>6, <2>1
  <2>3. BuildFits(i)'
    BY <1>4, <2>1, <2>2 DEF BuildFits, OnOff, Records
  <2> QED BY <1>6, <1>7, <2>1, <2>3
<1> QED BY <1>8, <1>9, <1>10, <1>11, <1>12, <1>13, <1>14, <1>15

\* A step on the tailnet.
LEMMA TailnetStepKeeps ==
  ASSUME SidecarInv, SidecarTypeOK', OneBuild, NEW b \in Builds,
         TailscaleUp(b) \/ StartTailscaleUp(b) \/ ReportURL(b) \/ StopBuild(b)
  PROVE  SidecarInv'
<1>1. builds \in [Builds -> Jobs] /\ builds[b] # NoBuild
  BY DEF SidecarInv, SidecarTypeOK, TailscaleUp, StartTailscaleUp, ReportURL, StopBuild, On
<1>2. UNCHANGED <<settings, bridge, nat, profile>>
  BY DEF TailscaleUp, StartTailscaleUp, ReportURL, StopBuild, objects
<1>3. PICK j : j = builds[b]
  OBVIOUS
<1>4. j.step \in 1 .. 18 /\ BuildFits(j)
  BY <1>1, <1>3, RunningBuild DEF SidecarInv
<1>5. PICK i : i = builds'[b]
  OBVIOUS
<1>6. /\ tailnet.unit \in 0 .. MaxURL /\ tailnet.log \in 0 .. MaxURL /\ tailnet.minted \in 0 .. MaxURL
      /\ tailnet \in [on : BOOLEAN, unit : 0 .. MaxURL, log : 0 .. MaxURL, minted : 0 .. MaxURL]
      /\ shownURLs \subseteq 1 .. MaxURL
  BY DEF SidecarInv, SidecarTypeOK
<1>7. ASSUME NEW n \in 1 .. 2, j.step + n <= 18, builds' = [builds EXCEPT ![b].step = @ + n]
      PROVE  /\ i.step = j.step + n /\ i.user = j.user /\ i.own = j.own /\ i.extra = j.extra
             /\ i.egress = j.egress
             /\ \A a \in Builds \ {b} : builds'[a] = builds[a]
  BY <1>1, <1>3, <1>5, <1>7, BuildMoves
<1>8. ASSUME BuildFits(i)', \A a \in Builds \ {b} : builds'[a] = builds[a],
             ShownURLsKnown', converged' = converged
      PROVE SidecarInv'
  <2>1. BuildFits(builds[b])'
    BY <1>5, <1>8
  <2> QED BY <1>1, <1>8, <2>1, BuildGoesOn
<1>9. ASSUME j.step > 14 PROVE EgressAgrees' /\ ProfileMatchesSettings'
  BY <1>2, <1>4, <1>9 DEF EgressAgrees, ProfileMatchesSettings, BuildFits, Records
<1>10. CASE TailscaleUp(b)
  <2>1. j.step = 16 /\ UNCHANGED shownURLs
    BY <1>1, <1>3, <1>10, OnStep DEF TailscaleUp, others
  <2>2. CASE EndBuild(b, TRUE) /\ tailnet' = [tailnet EXCEPT !.on = TRUE]
    <3>1. tailnet'.unit = tailnet.unit /\ tailnet'.log = tailnet.log /\ tailnet'.minted = tailnet.minted
      BY <1>6, <2>2
    <3>2. ShownURLsKnown'
      BY <2>1, <3>1 DEF ShownURLsKnown, SidecarInv
    <3>3. TRUE \in BOOLEAN /\ (TRUE => EgressAgrees' /\ ProfileMatchesSettings')
      BY <1>9, <2>1
    <3> QED BY <1>1, <2>2, <3>2, <3>3, BuildOver
  <2>3. CASE /\ builds' = [builds EXCEPT ![b].step = IF WaitsHealthy THEN @ + 2 ELSE @ + 1]
             /\ UNCHANGED <<tailnet, reach, converged>>
    <3>1. ShownURLsKnown'
      BY <2>1, <2>3, SameURLs DEF SidecarInv
    <3>2. CASE WaitsHealthy
      <4>1. builds' = [builds EXCEPT ![b].step = @ + 2] /\ 2 \in 1 .. 2 /\ j.step + 2 <= 18
        BY <2>1, <2>3, <3>2
      <4>2. /\ i.step = 18 /\ i.user = j.user /\ i.own = j.own /\ i.extra = j.extra /\ i.egress = j.egress
            /\ \A a \in Builds \ {b} : builds'[a] = builds[a]
        BY <1>7, <2>1, <4>1
      <4>3. BuildFits(i)'
        BY <1>2, <1>4, <2>1, <4>2 DEF BuildFits, OnOff, Records
      <4> QED BY <1>8, <2>3, <3>1, <4>2, <4>3
    <3>3. CASE ~WaitsHealthy
      <4>1. builds' = [builds EXCEPT ![b].step = @ + 1] /\ 1 \in 1 .. 2 /\ j.step + 1 <= 18
        BY <2>1, <2>3, <3>3
      <4>2. /\ i.step = 17 /\ i.user = j.user /\ i.own = j.own /\ i.extra = j.extra /\ i.egress = j.egress
            /\ \A a \in Builds \ {b} : builds'[a] = builds[a]
        BY <1>7, <2>1, <4>1
      <4>3. ~WaitsHealthy'
        BY <2>3, <3>3 DEF WaitsHealthy
      <4>4. BuildFits(i)'
        BY <1>2, <1>4, <2>1, <4>2, <4>3 DEF BuildFits, OnOff, Records
      <4> QED BY <1>8, <2>3, <3>1, <4>2, <4>4
    <3> QED BY <3>2, <3>3
  <2> QED BY <1>10, <2>2, <2>3 DEF TailscaleUp, Finish
<1>11. CASE StartTailscaleUp(b)
  <2>1. j.step = 17 /\ Next1(b) /\ UNCHANGED <<shownURLs, converged>>
    BY <1>1, <1>3, <1>11, OnStep DEF StartTailscaleUp, others
  <2>2. builds' = [builds EXCEPT ![b].step = @ + 1] /\ 1 \in 1 .. 2 /\ j.step + 1 <= 18
    BY <2>1 DEF Next1
  <2>3. /\ i.step = 18 /\ i.user = j.user /\ i.own = j.own /\ i.extra = j.extra /\ i.egress = j.egress
        /\ \A a \in Builds \ {b} : builds'[a] = builds[a]
    BY <1>7, <2>1, <2>2
  <2>4. BuildFits(i)'
    BY <1>2, <1>4, <2>1, <2>3 DEF BuildFits, OnOff, Records
  <2>5. PICK url, logged : /\ url = tailnet.minted + 1 /\ logged \in {NoURL, url}
                           /\ tailnet' = [tailnet EXCEPT !.unit = url, !.log = logged, !.minted = url]
    BY <1>11 DEF StartTailscaleUp
  <2>6. tailnet'.unit = url /\ tailnet'.log = logged /\ tailnet'.minted = url
    BY <1>6, <2>5
  <2>7. \A u \in shownURLs : u <= tailnet.minted /\ u \in Nat
    BY <1>6 DEF SidecarInv, ShownURLsKnown
  <2>8. url \notin shownURLs /\ logged <= url /\ \A u \in shownURLs : u <= url
    BY <1>6, <2>5, <2>7 DEF NoURL
  <2>9. ShownURLsKnown'
    BY <2>1, <2>5, <2>6, <2>8 DEF ShownURLsKnown
  <2> QED BY <1>8, <2>1, <2>3, <2>4, <2>9
<1>12. CASE ReportURL(b)
  <2>1. j.step = 18 /\ EndBuild(b, TRUE) /\ UNCHANGED tailnet
    BY <1>1, <1>3, <1>12, OnStep DEF ReportURL, objects
  <2>2. shownURLs' = shownURLs \cup ({tailnet.log} \ {NoURL})
    BY <1>12 DEF ReportURL
  <2>3. tailnet.log <= tailnet.minted
    BY <1>6 DEF SidecarInv, ShownURLsKnown
  <2>4. ShownURLsKnown'
    BY <1>6, <2>1, <2>2, <2>3 DEF SidecarInv, ShownURLsKnown, NoURL
  <2>5. TRUE \in BOOLEAN /\ (TRUE => EgressAgrees' /\ ProfileMatchesSettings')
    BY <1>9, <2>1
  <2> QED BY <1>1, <2>1, <2>4, <2>5, BuildOver
<1>13. CASE StopBuild(b)
  <2>1. EndBuild(b, FALSE) /\ UNCHANGED <<tailnet, shownURLs>>
    BY <1>13 DEF StopBuild, objects, others
  <2>2. ShownURLsKnown'
    BY <2>1, SameURLs DEF SidecarInv
  <2> QED BY <1>1, <2>1, <2>2, BuildOver
<1> QED BY <1>10, <1>11, <1>12, <1>13

\* A login reads the settings and plans.
LEMMA StartKeeps ==
  ASSUME SidecarInv, SidecarTypeOK', OneBuild', "list" \notin BuildFaults, NEW b \in Builds, StartBuild(b)
  PROVE  SidecarInv'
<1>1. PICK user \in UnixUsers \cup {Blank}, key \in LoginKeys \cup {Blank}, a \in AuthKeys :
        PlanBuild(b, user, key, a, settings)
  BY DEF StartBuild
<1>2. a \in BOOLEAN
  BY SidecarAssumption DEF SidecarAssumption
<1>3. UNCHANGED <<settings, profile, bridge, nat, machineHome, tailnet, shownURLs>> /\ ~converged'
  BY <1>1 DEF PlanBuild, objects, others
<1>4. PICK i : i = builds'[b]
  OBVIOUS
<1>5. /\ builds'[b] # NoBuild /\ i.step = 1
      /\ settings # Missing => i.extra = settings.extra /\ (i.named \/ i.user = settings.user)
  BY <1>1, <1>2, <1>4, PlansFit DEF SidecarInv
<1>6. BuildFits(i)'
  BY <1>3, <1>5 DEF BuildFits
<1>7. \A c \in Builds : c # b => builds'[c] = NoBuild
  BY <1>5 DEF OneBuild, NoBuild
<1>8. ShownURLsKnown'
  BY <1>3, SameURLs DEF SidecarInv
<1>9. \A c \in Builds : builds'[c] # NoBuild => c = b
  BY <1>7
<1>10. (\A c \in Builds : builds[c] # NoBuild => BuildFits(builds[c]))'
  BY <1>4, <1>6, <1>9 DEF NoBuild
<1> QED BY <1>3, <1>8, <1>10 DEF SidecarInv, EgressAgrees, ProfileMatchesSettings

\* What happens around the builds.
LEMMA AroundBuildsKeeps ==
  ASSUME SidecarInv, SidecarTypeOK', BuildUndisturbed,
         \/ RunEgress \/ (\E k \in ExtraKeys : AddSSHKey(k))
         \/ (\E m \in BuildMachines : NewMachine(m)) \/ SidecarStops \/ UserJoins
  PROVE  SidecarInv'
<1> USE DEF SidecarInv
<1>1. ASSUME UNCHANGED <<builds, converged, bridge, nat>>, ShownURLsKnown', ProfileMatchesSettings',
             \A b \in Builds : builds[b] # NoBuild => BuildFits(builds[b])'
      PROVE  SidecarInv'
  BY <1>1 DEF EgressAgrees, NoBuildRuns, NoBuild
<1>2. settings # Missing => settings \in Settings
  BY DEF SidecarTypeOK
<1>3. CASE RunEgress
  <2>1. UNCHANGED <<builds, converged, bridge, nat, profile, machineHome, shownURLs, tailnet>>
    BY <1>3 DEF RunEgress, others
  <2>2. PICK e : settings' = [settings EXCEPT !.egress = e] /\ settings # Missing
    BY <1>3 DEF RunEgress
  <2>3. settings'.user = settings.user /\ settings'.own = settings.own /\ settings'.extra = settings.extra
    BY <1>2, <2>2 DEF Settings
  <2>4. settings' # Missing
    <3>1. settings' \in Settings
      BY <1>2, <1>3 DEF RunEgress, Settings
    <3> QED BY <3>1, SidecarAssumption DEF SidecarAssumption
  <2>5. ASSUME NEW b \in Builds, builds[b] # NoBuild PROVE BuildFits(builds[b])'
    <3>1. PICK j : j = builds[b] /\ builds'[b] = j
      BY <2>1
    <3>2. BuildFits(j)
      BY <2>5, <3>1
    <3>3. BuildFits(j)'
      BY <2>1, <2>2, <2>3, <2>4, <3>2 DEF BuildFits, Records, WaitsHealthy
    <3> QED BY <3>1, <3>3
  <2>6. ProfileMatchesSettings'
    BY <2>1, <2>2, <2>3, <2>4 DEF ProfileMatchesSettings
  <2> QED BY <1>1, <2>1, <2>5, <2>6, SameURLs
<1>4. ASSUME NEW k \in ExtraKeys, AddSSHKey(k) PROVE SidecarInv'
  <2>1. UNCHANGED <<builds, converged, bridge, nat, shownURLs, tailnet>> /\ settings # Missing /\ profile # Missing
    BY <1>4 DEF AddSSHKey, others
  <2>2. settings \in Settings /\ profile \in Profiles
    BY <2>1 DEF SidecarTypeOK
  <2>3. settings' = [settings EXCEPT !.extra = @ \cup {k}]
    BY <1>4 DEF AddSSHKey
  <2>4. settings'.user = settings.user /\ settings'.own = settings.own /\ settings'.extra = settings.extra \cup {k}
        /\ settings' \in Settings
    BY <2>2, <2>3 DEF Settings
  <2>5. profile' = [profile EXCEPT !.user = settings.user, !.own = settings.own, !.extra = settings.extra \cup {k}]
    BY <1>4 DEF AddSSHKey
  <2>6. profile'.user = settings.user /\ profile'.own = settings.own /\ profile'.extra = settings.extra \cup {k}
    BY <2>2, <2>5 DEF Profiles
  <2>7. profile' # Missing /\ settings' # Missing
    <3>1. profile' \in Profiles
      BY <2>2, <2>4, <2>5 DEF Profiles, Settings
    <3> QED BY <2>4, <3>1, SidecarAssumption DEF SidecarAssumption
  <2>8. ProfileMatchesSettings'
    BY <2>4, <2>6, <2>7 DEF ProfileMatchesSettings
  <2>9. NoBuildRuns
    BY <1>4 DEF BuildUndisturbed
  <2> QED BY <1>1, <2>1, <2>8, <2>9, SameURLs DEF NoBuildRuns
<1>5. ASSUME NEW m \in BuildMachines, NewMachine(m) PROVE SidecarInv'
  <2>1. UNCHANGED <<builds, converged, settings, bridge, nat, profile, shownURLs, tailnet>>
    BY <1>5 DEF NewMachine, others
  <2>2. profile.home => NoBuildRuns
    BY <1>5 DEF BuildUndisturbed
  <2>3. ASSUME NEW b \in Builds, builds[b] # NoBuild PROVE BuildFits(builds[b])'
    <3>1. PICK j : j = builds[b] /\ builds'[b] = j
      BY <2>1
    <3>2. BuildFits(j) /\ ~profile.home
      BY <2>2, <2>3, <3>1 DEF NoBuildRuns
    <3>3. BuildFits(j)'
      BY <2>1, <3>2 DEF BuildFits, Records, WaitsHealthy
    <3> QED BY <3>1, <3>3
  <2>4. ProfileMatchesSettings'
    BY <2>1 DEF ProfileMatchesSettings
  <2> QED BY <1>1, <2>1, <2>3, <2>4, SameURLs
<1>6. CASE SidecarStops \/ UserJoins
  <2>1. UNCHANGED <<builds, converged, settings, bridge, nat, profile, machineHome, shownURLs>>
    BY <1>6 DEF SidecarStops, UserJoins, others
  <2>2. tailnet'.unit = NoURL /\ tailnet'.log = tailnet.log /\ tailnet'.minted = tailnet.minted
    BY <1>6 DEF SidecarStops, UserJoins, SidecarTypeOK
  <2>3. NoURL \notin shownURLs
    BY DEF SidecarTypeOK, NoURL
  <2>4. ShownURLsKnown'
    BY <2>1, <2>2, <2>3 DEF ShownURLsKnown
  <2>5. ASSUME NEW b \in Builds, builds[b] # NoBuild PROVE BuildFits(builds[b])'
    <3>1. PICK j : j = builds[b] /\ builds'[b] = j
      BY <2>1
    <3>2. BuildFits(j)
      BY <2>5, <3>1
    <3>3. BuildFits(j)'
      BY <2>1, <2>2, <3>2 DEF BuildFits, Records, WaitsHealthy
    <3> QED BY <3>1, <3>3
  <2>6. ProfileMatchesSettings'
    BY <2>1 DEF ProfileMatchesSettings
  <2> QED BY <1>1, <2>1, <2>4, <2>5, <2>6
<1> QED BY <1>3, <1>4, <1>5, <1>6

LEMMA SidecarInvKept ==
  ASSUME BuildFaults \cap {"list", "migrate"} = {}
  PROVE  SidecarInv /\ OneBuild /\ OneBuild' /\ [SidecarNext]_sidecarVars /\ [BuildUndisturbed]_sidecarVars => SidecarInv'
<1> SUFFICES ASSUME SidecarInv, OneBuild, OneBuild', [SidecarNext]_sidecarVars, [BuildUndisturbed]_sidecarVars
             PROVE  SidecarInv'
  OBVIOUS
<1>1. SidecarTypeOK'
  BY SidecarTypesKept DEF SidecarInv
<1>2. "list" \notin BuildFaults /\ "migrate" \notin BuildFaults
  OBVIOUS
<1>3. CASE UNCHANGED sidecarVars
  BY <1>3 DEF sidecarVars, SidecarInv, SidecarTypeOK, ShownURLsKnown, EgressAgrees, ProfileMatchesSettings,
     NoBuildRuns, NoBuild, BuildFits, Records, WaitsHealthy
<1>4. CASE SidecarNext /\ BuildUndisturbed
  <2>1. ASSUME NEW b \in Builds, StartBuild(b) PROVE SidecarInv'
    BY <1>1, <1>2, <2>1, StartKeeps
  <2>2. ASSUME NEW b \in Builds, BuildStep(b) \/ StopBuild(b) PROVE SidecarInv'
    BY <1>1, <1>2, <2>2, BuildStepKeeps, TailnetStepKeeps DEF BuildStep
  <2> QED BY <1>1, <1>4, <2>1, <2>2, AroundBuildsKeeps DEF SidecarNext
<1> QED BY <1>3, <1>4

\* Who changes what of the tenant.
LEMMA BuildWrites ==
  ASSUME SidecarInv, SidecarNext
  PROVE  /\ \/ UNCHANGED <<profile, machineHome>>
            \/ \E b \in Builds : MigrateV2MachinesToHomeShare(b) \/ EnsureV2AppProfile(b)
            \/ (\E k \in ExtraKeys : AddSSHKey(k)) \/ (\E m \in BuildMachines : NewMachine(m))
         /\ \/ UNCHANGED settings
            \/ RunEgress \/ (\E k \in ExtraKeys : AddSSHKey(k)) \/ (\E b \in Builds : EnsureInfra(b))
         /\ \/ UNCHANGED tailnet
            \/ SidecarStops \/ UserJoins
            \/ (\E b \in Builds : TailscaleUp(b)) \/ (\E b \in Builds : StartTailscaleUp(b))
<1>1. ASSUME NEW b \in Builds, StartBuild(b) \/ StopBuild(b) PROVE UNCHANGED objects
  BY <1>1 DEF StartBuild, PlanBuild, StopBuild
<1>2. ASSUME NEW b \in Builds, ReadEgress(b) \/ EnsureV2Bridge(b) \/ EnsureOnce(b) \/ EnsureV2Sidecar(b)
                               \/ EnsureV2SidecarEgress(b) \/ ReportURL(b)
      PROVE  UNCHANGED <<profile, machineHome, settings, tailnet>>
  BY <1>2 DEF ReadEgress, EnsureV2Bridge, EnsureOnce, EnsureV2Sidecar, EnsureV2SidecarEgress, ReportURL, objects
<1>3. ASSUME NEW b \in Builds, TailscaleUp(b) \/ StartTailscaleUp(b)
      PROVE  UNCHANGED <<profile, machineHome, settings>>
  BY <1>3 DEF TailscaleUp, StartTailscaleUp
<1>4. SidecarStops \/ UserJoins => UNCHANGED <<profile, machineHome, settings>>
  BY DEF SidecarStops, UserJoins
<1>5. RunEgress => UNCHANGED <<profile, machineHome, tailnet>>
  BY DEF RunEgress
<1>6. \A m \in BuildMachines : NewMachine(m) => UNCHANGED <<settings, tailnet>>
  BY DEF NewMachine
<1>7. \A k \in ExtraKeys : AddSSHKey(k) => UNCHANGED <<tailnet>>
  BY DEF AddSSHKey
<1>8. ASSUME NEW b \in Builds
      PROVE  /\ MigrateV2MachinesToHomeShare(b) \/ EnsureV2AppProfile(b) => UNCHANGED <<settings, tailnet>>
             /\ EnsureInfra(b) => UNCHANGED <<profile, machineHome, tailnet>>
  BY DEF MigrateV2MachinesToHomeShare, EnsureV2AppProfile, EnsureInfra
<1> QED BY <1>1, <1>2, <1>3, <1>4, <1>5, <1>6, <1>7, <1>8 DEF SidecarNext, BuildStep, objects

\* A machine of an older release is on homeshare before its profile loses the
\* shared /home.
LEMMA HomesKept ==
  ASSUME SidecarInv, SidecarNext, "migrate" \notin BuildFaults, NEW m \in BuildMachines, HasHome(m)
  PROVE  HasHome(m)'
<1>1. machineHome \in [BuildMachines -> {"absent", "default", "homeshare"}]
  BY DEF SidecarInv, SidecarTypeOK
<1>2. CASE UNCHANGED <<profile, machineHome>>
  BY <1>2 DEF HasHome
<1>3. ASSUME NEW b \in Builds, MigrateV2MachinesToHomeShare(b) PROVE HasHome(m)'
  <2>1. machineHome'[m] = "homeshare" \/ machineHome'[m] = machineHome[m]
    BY <1>3 DEF MigrateV2MachinesToHomeShare
  <2>2. UNCHANGED profile
    BY <1>3 DEF MigrateV2MachinesToHomeShare
  <2> QED BY <2>1, <2>2 DEF HasHome
<1>4. ASSUME NEW b \in Builds, EnsureV2AppProfile(b) PROVE HasHome(m)'
  <2>1. builds[b].step = 9 /\ builds[b] # NoBuild
    BY <1>4, OnStep DEF EnsureV2AppProfile, On, SidecarInv, SidecarTypeOK
  <2>2. PICK j : j = builds[b]
    OBVIOUS
  <2>3. BuildFits(j) /\ j.step = 9
    BY <2>1, <2>2 DEF SidecarInv
  <2>4. machineHome[m] = "homeshare"
    BY <2>3 DEF BuildFits, HasHome
  <2>5. UNCHANGED machineHome
    BY <1>4 DEF EnsureV2AppProfile
  <2> QED BY <2>4, <2>5 DEF HasHome
<1>5. ASSUME NEW k \in ExtraKeys, AddSSHKey(k) PROVE HasHome(m)'
  <2>1. profile \in Profiles /\ UNCHANGED machineHome
    BY <1>5 DEF AddSSHKey, SidecarInv, SidecarTypeOK
  <2>2. profile' = [profile EXCEPT !.user = settings.user, !.own = settings.own, !.extra = settings.extra \cup {k}]
    BY <1>5 DEF AddSSHKey
  <2>3. profile'.home = profile.home
    BY <2>1, <2>2 DEF Profiles
  <2>4. profile' # Missing
    <3>1. SidecarTypeOK'
      BY SidecarTypesKept DEF SidecarInv
    <3>3. settings \in Settings
      BY <1>5 DEF AddSSHKey, SidecarInv, SidecarTypeOK
    <3>4. profile' \in Profiles
      BY <2>1, <2>2, <3>3 DEF Profiles, Settings
    <3> QED BY <3>4, SidecarAssumption DEF SidecarAssumption
  <2> QED BY <2>1, <2>3, <2>4 DEF HasHome
<1>6. ASSUME NEW x \in BuildMachines, NewMachine(x) PROVE HasHome(m)'
  <2>1. UNCHANGED profile /\ machineHome' = [machineHome EXCEPT ![x] = "default"] /\ machineHome[x] = "absent"
    BY <1>6 DEF NewMachine
  <2>2. x # m
    BY <2>1 DEF HasHome
  <2>3. machineHome'[m] = machineHome[m]
    BY <1>1, <2>1, <2>2
  <2> QED BY <2>1, <2>3 DEF HasHome
<1> QED BY <1>2, <1>3, <1>4, <1>5, <1>6, BuildWrites

\* A build writes back the keys it planned with, and the user unless it names one.
LEMMA KeysAndUserKept ==
  ASSUME SidecarInv, SidecarNext, settings # Missing
  PROVE  /\ settings.extra \subseteq settings'.extra
         /\ settings'.user # settings.user => \E b \in Builds : builds[b] # NoBuild /\ builds[b].named
<1>1. settings \in Settings
  BY DEF SidecarInv, SidecarTypeOK
<1>2. CASE UNCHANGED settings
  BY <1>2
<1>3. CASE RunEgress
  <2>1. settings' = [settings EXCEPT !.egress = ~@]
    BY <1>3 DEF RunEgress
  <2> QED BY <1>1, <2>1 DEF Settings
<1>4. ASSUME NEW k \in ExtraKeys, AddSSHKey(k)
      PROVE  settings.extra \subseteq settings'.extra /\ settings'.user = settings.user
  <2>1. settings' = [settings EXCEPT !.extra = @ \cup {k}]
    BY <1>4 DEF AddSSHKey
  <2> QED BY <1>1, <2>1 DEF Settings
<1>5. ASSUME NEW b \in Builds, EnsureInfra(b)
      PROVE  /\ settings.extra \subseteq settings'.extra
             /\ settings'.user # settings.user => builds[b] # NoBuild /\ builds[b].named
  <2>1. PICK j : j = builds[b]
    OBVIOUS
  <2>2. j.step = 3 /\ builds[b] # NoBuild
    BY <1>5, <2>1, OnStep DEF EnsureInfra, On, SidecarInv, SidecarTypeOK
  <2>3. BuildFits(j)
    BY <2>1, <2>2 DEF SidecarInv
  <2>4. j.extra = settings.extra /\ (j.named \/ j.user = settings.user)
    BY <2>2, <2>3 DEF BuildFits
  <2>5. settings'.extra = j.extra /\ settings'.user = j.user
    BY <1>5, <2>1 DEF EnsureInfra
  <2> QED BY <2>1, <2>2, <2>4, <2>5
<1> QED BY <1>2, <1>3, <1>4, <1>5, BuildWrites

\* `tailscale up` is started again only where no shown URL is waiting.
LEMMA ShownURLKept ==
  ASSUME SidecarInv, SidecarNext, tailnet.unit \in shownURLs
  PROVE  tailnet'.unit = tailnet.unit \/ tailnet'.on \/ sidecar' # "running"
<1>1. tailnet \in [on : BOOLEAN, unit : 0 .. MaxURL, log : 0 .. MaxURL, minted : 0 .. MaxURL]
  BY DEF SidecarInv, SidecarTypeOK
<1>2. CASE UNCHANGED tailnet
  BY <1>2
<1>3. CASE SidecarStops
  BY <1>3 DEF SidecarStops
<1>4. CASE UserJoins
  BY <1>1, <1>4 DEF UserJoins
<1>5. ASSUME NEW b \in Builds, TailscaleUp(b) PROVE tailnet'.unit = tailnet.unit
  BY <1>1, <1>5 DEF TailscaleUp
<1>6. ASSUME NEW b \in Builds, StartTailscaleUp(b) PROVE FALSE
  <2>1. PICK j : j = builds[b]
    OBVIOUS
  <2>2. j.step = 17 /\ builds[b] # NoBuild
    BY <1>6, <2>1, OnStep DEF StartTailscaleUp, On, SidecarInv, SidecarTypeOK
  <2>3. ~WaitsHealthy
    BY <2>1, <2>2 DEF SidecarInv, BuildFits
  <2>4. tailnet.unit # NoURL /\ tailnet.log = tailnet.unit
    BY DEF SidecarInv, SidecarTypeOK, ShownURLsKnown, NoURL
  <2> QED BY <2>3, <2>4 DEF WaitsHealthy
<1> QED BY <1>2, <1>3, <1>4, <1>5, <1>6, BuildWrites

\* CreateTenantV2: of one build at a time, around which keys are edited and
\* machines made, egress and profile agree with the settings when it ends,
\* machines keep their home, settings their keys and user, and a login URL that
\* was shown stays the one the sidecar waits for, wherever the egress toggle
\* moves, the sidecar stops or a step fails.
THEOREM BuildsStayConverged ==
  ASSUME BuildFaults \cap {"list", "migrate"} = {}
  PROVE  SidecarSpec /\ []OneBuild /\ [][BuildUndisturbed]_sidecarVars => BuildsConverge
<1>1. SidecarInv => EgressAgrees /\ ProfileMatchesSettings
  BY DEF SidecarInv
<1>2. SidecarInv /\ [SidecarNext]_sidecarVars =>
        [\A m \in BuildMachines : HasHome(m) => HasHome(m)']_sidecarVars
  BY HomesKept
<1>3. SidecarInv /\ [SidecarNext]_sidecarVars =>
        [settings # Missing => /\ settings.extra \subseteq settings'.extra
                               /\ settings'.user # settings.user =>
                                    \E b \in Builds : builds[b] # NoBuild /\ builds[b].named]_sidecarVars
  BY KeysAndUserKept
<1>4. SidecarInv /\ [SidecarNext]_sidecarVars =>
        [tailnet.unit \in shownURLs =>
           tailnet'.unit = tailnet.unit \/ tailnet'.on \/ sidecar' # "running"]_sidecarVars
  BY ShownURLKept
<1> QED
  BY <1>1, <1>2, <1>3, <1>4, SidecarInvInitially, SidecarInvKept, PTL
  DEF SidecarSpec, BuildsConverge, MachinesKeepHome, SettingsKept, LoginURLSurvives

-----------------------------------------------------------------------------
(* Tenant members: the types                                               *)

MemberRecords ==
  [op : {NoOp, "grant", "revoke", "login", "create", "addkey", "rmkey"},
   subject : {NoOp} \cup Members \cup AppProjects \cup OwnKeys,
   step : Steps, plan : SUBSET AppProjects,
   list : (SUBSET Members) \cup (SUBSET AppProjects),
   config : {NoOp} \cup Configs, alone : BOOLEAN]

\* What a request at work holds: operation, subject, step, list and config.
WorkFits(o, u, s, l, c) ==
  \/ /\ o \in {"grant", "revoke"} /\ u \in Members
     /\ s \in {"scope", "extend", "read", "etag", "update", "render", "machines"}
     /\ s = "extend" => l \subseteq AppProjects
     /\ s \in {"etag", "update"} => l \subseteq Members
     /\ s \in {"update", "render"} => c \in Configs
  \/ /\ o \in {"addkey", "rmkey"} /\ u \in OwnKeys
     /\ s \in {"etag", "update", "render"}
     /\ s \in {"update", "render"} => c \in Configs
  \/ o = "login" /\ u \in Members /\ s \in {"render", "machines"}
  \/ o = "create" /\ u \in AppProjects /\ s \in {"machines", "others"} /\ (s = "others" => l \subseteq Members)

RequestHolds(j) ==
  j.step \in {"idle", "ok", "failed"} \/ WorkFits(j.op, j.subject, j.step, j.list, j.config)

MemberTypes == MembersTypeOK /\ \A r \in MemberRequests : RequestHolds(mreq[r])

\* A request that moves on, field by field.
MovedTo(r, step, list, config) ==
  mreq' = [mreq EXCEPT ![r] = [op |-> mreq[r].op, subject |-> mreq[r].subject, step |-> step,
                               plan |-> mreq[r].plan, list |-> list, config |-> config,
                               alone |-> mreq[r].alone]]

LEMMA GoesFields ==
  ASSUME MembersTypeOK, NEW r \in MemberRequests, NEW fields, Goes(r, fields),
         DOMAIN fields \subseteq {"step", "list", "config"}
  PROVE  MovedTo(r, IF "step" \in DOMAIN fields THEN fields["step"] ELSE StepAfter(r),
                    IF "list" \in DOMAIN fields THEN fields["list"] ELSE mreq[r].list,
                    IF "config" \in DOMAIN fields THEN fields["config"] ELSE mreq[r].config)
<1>1. PICK j : j = mreq[r]
  OBVIOUS
<1>2. j \in MemberRecords /\ mreq \in [MemberRequests -> MemberRecords]
  BY <1>1 DEF MembersTypeOK, MemberRecords
<1>3. PICK s, l, c : /\ s = IF "step" \in DOMAIN fields THEN fields["step"] ELSE StepAfter(r)
                     /\ l = IF "list" \in DOMAIN fields THEN fields["list"] ELSE j.list
                     /\ c = IF "config" \in DOMAIN fields THEN fields["config"] ELSE j.config
  OBVIOUS
<1>4. PICK g : g = [f \in DOMAIN j |-> IF f \in DOMAIN fields THEN fields[f]
                                       ELSE IF f = "step" THEN StepAfter(r) ELSE j[f]]
  OBVIOUS
<1>5. mreq' = [mreq EXCEPT ![r] = g]
  BY <1>1, <1>2, <1>4 DEF Goes
<1>6. DOMAIN j = {"op", "subject", "step", "plan", "list", "config", "alone"}
  BY <1>2 DEF MemberRecords
<1>7. /\ g.op = j.op /\ g.subject = j.subject /\ g.step = s /\ g.plan = j.plan
      /\ g.list = l /\ g.config = c /\ g.alone = j.alone
  BY <1>3, <1>4, <1>6
<1>8. g = [op |-> j.op, subject |-> j.subject, step |-> s, plan |-> j.plan, list |-> l, config |-> c,
           alone |-> j.alone]
  BY <1>4, <1>6, <1>7
<1> QED BY <1>1, <1>3, <1>5, <1>8 DEF MovedTo

LEMMA GoesStep ==
  ASSUME MembersTypeOK, NEW r \in MemberRequests, Goes(r, << >>)
  PROVE  MovedTo(r, StepAfter(r), mreq[r].list, mreq[r].config)
<1>1. PICK x : x = << >> /\ DOMAIN x = {}
  OBVIOUS
<1> QED BY <1>1, GoesFields

LEMMA GoesList ==
  ASSUME MembersTypeOK, NEW r \in MemberRequests, NEW x, Goes(r, [list |-> x])
  PROVE  MovedTo(r, StepAfter(r), x, mreq[r].config)
<1>1. PICK y : y = [list |-> x]
  OBVIOUS
<1>2. DOMAIN y = {"list"} /\ y["list"] = x
  BY <1>1
<1> QED BY <1>1, <1>2, GoesFields

LEMMA GoesConfig ==
  ASSUME MembersTypeOK, NEW r \in MemberRequests, NEW x, Goes(r, [config |-> x])
  PROVE  MovedTo(r, StepAfter(r), mreq[r].list, x)
<1>1. PICK y : y = [config |-> x]
  OBVIOUS
<1>2. DOMAIN y = {"config"} /\ y["config"] = x
  BY <1>1
<1> QED BY <1>1, <1>2, GoesFields

LEMMA GoesBack ==
  ASSUME MembersTypeOK, NEW r \in MemberRequests, NEW s, Goes(r, [step |-> s])
  PROVE  MovedTo(r, s, mreq[r].list, mreq[r].config)
<1>1. PICK y : y = [step |-> s]
  OBVIOUS
<1>2. DOMAIN y = {"step"} /\ y["step"] = s
  BY <1>1
<1> QED BY <1>1, <1>2, GoesFields

LEMMA GoesOver ==
  ASSUME MembersTypeOK, NEW r \in MemberRequests, NEW s, NEW x, Goes(r, [step |-> s, list |-> x])
  PROVE  MovedTo(r, s, x, mreq[r].config)
<1>1. PICK y : y = [step |-> s, list |-> x]
  OBVIOUS
<1>2. DOMAIN y = {"step", "list"} /\ y["step"] = s /\ y["list"] = x
  BY <1>1
<1> QED BY <1>1, <1>2, GoesFields

\* What one request does leaves the others as they are.
LEMMA MemberMoved ==
  ASSUME MemberTypes, NEW r \in MemberRequests, NEW s \in Steps,
         NEW l \in (SUBSET Members) \cup (SUBSET AppProjects), NEW c \in {NoOp} \cup Configs,
         MovedTo(r, s, l, c), WorkFits(mreq[r].op, mreq[r].subject, s, l, c)
  PROVE  mreq' \in [MemberRequests -> MemberRecords] /\ \A q \in MemberRequests : RequestHolds(mreq[q])'
<1>1. mreq \in [MemberRequests -> MemberRecords]
  BY DEF MemberTypes, MembersTypeOK, MemberRecords
<1>2. PICK k : k = [op |-> mreq[r].op, subject |-> mreq[r].subject, step |-> s, plan |-> mreq[r].plan,
                    list |-> l, config |-> c, alone |-> mreq[r].alone]
  OBVIOUS
<1>3. k \in MemberRecords
  BY <1>1, <1>2 DEF MemberRecords
<1>4. k.op = mreq[r].op /\ k.subject = mreq[r].subject /\ k.step = s /\ k.list = l /\ k.config = c
  BY <1>2
<1>5. RequestHolds(k)
  BY <1>4 DEF RequestHolds
<1>6. mreq' = [mreq EXCEPT ![r] = k]
  BY <1>2 DEF MovedTo
<1>7. \A q \in MemberRequests : mreq'[q] = k \/ mreq'[q] = mreq[q]
  BY <1>1, <1>6
<1>8. \A q \in MemberRequests : RequestHolds(mreq'[q])
  BY <1>5, <1>7 DEF MemberTypes
<1> QED BY <1>1, <1>3, <1>6, <1>8 DEF RequestHolds, WorkFits, Configs

LEMMA MemberEnded ==
  ASSUME MemberTypes, NEW r \in MemberRequests, Answers(r) \/ GivesUp(r)
  PROVE  mreq' \in [MemberRequests -> MemberRecords] /\ \A q \in MemberRequests : RequestHolds(mreq[q])'
<1>1. mreq \in [MemberRequests -> MemberRecords]
  BY DEF MemberTypes, MembersTypeOK, MemberRecords
<1>2. Idle \in MemberRecords
  BY DEF Idle, MemberRecords, Steps
<1>3. PICK k : mreq' = [mreq EXCEPT ![r] = k] /\ k \in MemberRecords /\ k.step \in {"ok", "failed"}
  <2>1. CASE Answers(r)
    <3> DEFINE k == [Idle EXCEPT !.op = mreq[r].op, !.subject = mreq[r].subject,
                                 !.alone = mreq[r].alone, !.step = "ok"]
    <3>1. PICK a : a = [Idle EXCEPT !.op = mreq[r].op]
      OBVIOUS
    <3>2. PICK b : b = [a EXCEPT !.subject = mreq[r].subject]
      OBVIOUS
    <3>3. PICK c : c = [b EXCEPT !.alone = mreq[r].alone]
      OBVIOUS
    <3>4. a \in MemberRecords
      BY <1>1, <1>2, <3>1 DEF MemberRecords
    <3>5. b \in MemberRecords
      BY <1>1, <3>2, <3>4 DEF MemberRecords
    <3>6. c \in MemberRecords
      BY <1>1, <3>3, <3>5 DEF MemberRecords
    <3>7. k = [c EXCEPT !.step = "ok"]
      BY <3>1, <3>2, <3>3
    <3>8. k \in MemberRecords /\ k.step = "ok"
      BY <3>6, <3>7 DEF MemberRecords, Steps
    <3>9. mreq' = [mreq EXCEPT ![r] = k]
      BY <2>1 DEF Answers
    <3> HIDE DEF k
    <3> QED BY <3>8, <3>9
  <2>2. CASE GivesUp(r)
    <3> DEFINE k == [Idle EXCEPT !.step = "failed"]
    <3>1. k \in MemberRecords /\ k.step = "failed"
      BY DEF MemberRecords, Idle, Steps
    <3>2. mreq' = [mreq EXCEPT ![r] = k]
      BY <2>2 DEF GivesUp
    <3> HIDE DEF k
    <3> QED BY <3>1, <3>2
  <2> QED BY <2>1, <2>2
<1>4. RequestHolds(k)
  BY <1>3 DEF RequestHolds
<1>5. \A q \in MemberRequests : mreq'[q] = k \/ mreq'[q] = mreq[q]
  BY <1>1, <1>3
<1>6. \A q \in MemberRequests : RequestHolds(mreq'[q])
  BY <1>4, <1>5 DEF MemberTypes
<1> QED BY <1>1, <1>3, <1>6 DEF RequestHolds, WorkFits, Configs

\* A request that begins.
EntryOf(op, subject, plan, alone, head) ==
  [Idle EXCEPT !.op = op, !.subject = subject, !.plan = plan, !.alone = alone, !.step = head]

LEMMA EntryFields ==
  ASSUME NEW op, NEW subject, NEW plan, NEW alone, NEW head
  PROVE  EntryOf(op, subject, plan, alone, head) =
           [op |-> op, subject |-> subject, step |-> head, plan |-> plan, list |-> {},
            config |-> NoOp, alone |-> alone]
<1>1. PICK a : a = [Idle EXCEPT !.op = op]
  OBVIOUS
<1>2. PICK b : b = [a EXCEPT !.subject = subject]
  OBVIOUS
<1>3. PICK c : c = [b EXCEPT !.plan = plan]
  OBVIOUS
<1>4. PICK d : d = [c EXCEPT !.alone = alone]
  OBVIOUS
<1>5. EntryOf(op, subject, plan, alone, head) = [d EXCEPT !.step = head]
  BY <1>1, <1>2, <1>3, <1>4 DEF EntryOf
<1>6. a = [op |-> op, subject |-> NoOp, step |-> "idle", plan |-> {}, list |-> {}, config |-> NoOp, alone |-> TRUE]
  BY <1>1 DEF Idle
<1>7. b = [op |-> op, subject |-> subject, step |-> "idle", plan |-> {}, list |-> {}, config |-> NoOp, alone |-> TRUE]
  BY <1>2, <1>6
<1>8. c = [op |-> op, subject |-> subject, step |-> "idle", plan |-> plan, list |-> {}, config |-> NoOp, alone |-> TRUE]
  BY <1>3, <1>7
<1>9. d = [op |-> op, subject |-> subject, step |-> "idle", plan |-> plan, list |-> {}, config |-> NoOp, alone |-> alone]
  BY <1>4, <1>8
<1> QED BY <1>5, <1>9

LEMMA MemberBegun ==
  ASSUME MemberTypes, NEW r \in MemberRequests, MemberBegin(r)
  PROVE  mreq' \in [MemberRequests -> MemberRecords] /\ \A q \in MemberRequests : RequestHolds(mreq[q])'
<1>1. mreq \in [MemberRequests -> MemberRecords] /\ apps \subseteq AppProjects
  BY DEF MemberTypes, MembersTypeOK, MemberRecords
<1>0. PICK o \in MemberOps :
        mreq' = [s \in MemberRequests |->
                   IF s = r
                   THEN EntryOf(o[1], o[2], IF o[1] \in {"grant", "revoke"} THEN apps ELSE {},
                                {q \in MemberRequests \ {r} : Busy(q)} = {}, Head(StepsOf(o[1])))
                   ELSE IF s \in {q \in MemberRequests \ {r} : Busy(q)}
                        THEN [mreq[s] EXCEPT !.alone = FALSE]
                        ELSE mreq[s]]
  BY Zenon DEF MemberBegin, EntryOf
<1>2. PICK op, subject, plan, alone, head :
        /\ op = o[1] /\ subject = o[2] /\ plan = IF o[1] \in {"grant", "revoke"} THEN apps ELSE {}
        /\ alone = ({q \in MemberRequests \ {r} : Busy(q)} = {}) /\ head = Head(StepsOf(o[1]))
  OBVIOUS
<1>5. PICK busy, entry : /\ busy = {q \in MemberRequests \ {r} : Busy(q)}
                         /\ entry = EntryOf(op, subject, plan, alone, head)
  OBVIOUS
<1>6. mreq' = [s \in MemberRequests |->
                 IF s = r THEN entry
                 ELSE IF s \in busy THEN [mreq[s] EXCEPT !.alone = FALSE]
                 ELSE mreq[s]]
  BY <1>0, <1>2, <1>5, Zenon
<1>3. /\ o[1] \in {"grant", "revoke", "login", "create", "addkey", "rmkey"}
      /\ o[1] = "create" => o[2] \in AppProjects
  BY MembersAssumption DEF MembersAssumption
<1>4. \/ o[1] \in {"grant", "revoke"} /\ o[2] \in Members /\ head = "scope"
      \/ o[1] = "login" /\ o[2] \in Members /\ head = "render"
      \/ o[1] = "create" /\ o[2] \in AppProjects /\ head = "machines"
      \/ o[1] \in {"addkey", "rmkey"} /\ o[2] \in OwnKeys /\ head = "etag"
  BY <1>2, <1>3, OperationsBegin
<1>7. entry = [op |-> op, subject |-> subject, step |-> head, plan |-> plan, list |-> {},
               config |-> NoOp, alone |-> alone]
  BY <1>5, EntryFields
<1>8. entry \in MemberRecords /\ RequestHolds(entry)
  <2>1. plan \in SUBSET AppProjects
    BY <1>1, <1>2
  <2>2. /\ op \in {NoOp, "grant", "revoke", "login", "create", "addkey", "rmkey"}
        /\ subject \in {NoOp} \cup Members \cup AppProjects \cup OwnKeys /\ head \in Steps
    BY <1>2, <1>3, <1>4 DEF Steps
  <2>3. entry \in MemberRecords
    BY <1>2, <1>7, <2>1, <2>2 DEF MemberRecords
  <2>4. RequestHolds(entry)
    BY <1>2, <1>4, <1>7 DEF RequestHolds, WorkFits
  <2> QED BY <2>3, <2>4
<1>9. ASSUME NEW s \in MemberRequests PROVE mreq'[s] \in MemberRecords /\ RequestHolds(mreq'[s])
  <2>1. PICK j, k : j = mreq[s] /\ k = [j EXCEPT !.alone = FALSE]
    OBVIOUS
  <2>2. j \in MemberRecords /\ RequestHolds(j)
    BY <1>1, <2>1 DEF MemberTypes
  <2>3. k \in MemberRecords /\ k.op = j.op /\ k.subject = j.subject /\ k.step = j.step /\ k.list = j.list
        /\ k.config = j.config
    BY <2>1, <2>2 DEF MemberRecords
  <2>4. RequestHolds(k)
    BY <2>2, <2>3 DEF RequestHolds, WorkFits
  <2>5. mreq'[s] = entry \/ mreq'[s] = k \/ mreq'[s] = j
    BY <1>6, <2>1
  <2> QED BY <1>8, <2>2, <2>3, <2>4, <2>5
<1> QED BY <1>6, <1>9 DEF RequestHolds, WorkFits, Configs

\* What the steps leave in the tenant.
LEMMA MemberTypesKept ==
  ASSUME MemberTypes, [MembersNext]_memberVars PROVE MemberTypes'
<1> DEFINE Moves == mreq' \in [MemberRequests -> MemberRecords] /\ \A q \in MemberRequests : RequestHolds(mreq[q])'
           Table == /\ apps' \subseteq AppProjects /\ scope' \in [Members -> SUBSET AppProjects]
                    /\ infra' \in Configs
                    /\ profiles' \subseteq Members /\ block' \subseteq Members /\ seeded' \subseteq Members
<1>0. Moves /\ Table => MemberTypes'
  BY DEF MemberTypes, MembersTypeOK, MemberRecords
<1>1. /\ apps \subseteq AppProjects /\ scope \in [Members -> SUBSET AppProjects] /\ infra \in Configs
      /\ profiles \subseteq Members /\ block \subseteq Members /\ seeded \subseteq Members
      /\ mreq \in [MemberRequests -> MemberRecords]
      /\ MembersTypeOK
  BY DEF MemberTypes, MembersTypeOK, MemberRecords
<1> HIDE DEF Moves, Table
<1>2. CASE UNCHANGED memberVars
  <2>1. Moves
    BY <1>1, <1>2 DEF memberVars, Moves, MemberTypes, RequestHolds, WorkFits
  <2>2. Table
    BY <1>1, <1>2 DEF memberVars, Table
  <2> QED BY <1>0, <2>1, <2>2
<1>3. CASE MachineSeeded
  <2>1. Moves
    BY <1>1, <1>3 DEF MachineSeeded, Moves, MemberTypes, RequestHolds, WorkFits
  <2>2. Table
    BY <1>1, <1>3 DEF MachineSeeded, Table
  <2> QED BY <1>0, <2>1, <2>2
<1>4. ASSUME NEW r \in MemberRequests,
             \/ MemberBegin(r) \/ Fails(r)
             \/ ScopeRead(r) \/ ScopeWrite(r)
             \/ MembersRead(r) \/ InfraRead(r) \/ InfraWrite(r)
             \/ Render(r) \/ RenderAtLogin(r) \/ EnrolKey(r) \/ RevokeKey(r)
             \/ ProjectCreate(r) \/ ExtendMember(r)
      PROVE  MemberTypes'
  <2>1. PICK j : j = mreq[r]
    OBVIOUS
  <2>2. j \in MemberRecords /\ RequestHolds(j)
    BY <1>1, <2>1 DEF MemberTypes
  <2>3. CASE MemberBegin(r)
    <3>1. UNCHANGED <<apps, scope, infra, profiles, block, seeded>>
      BY <2>3 DEF MemberBegin
    <3> QED BY <1>0, <1>1, <2>3, <3>1, MemberBegun DEF Moves, Table
  <2>4. CASE Fails(r)
    <3>1. UNCHANGED <<apps, scope, infra, profiles, block, seeded>> /\ GivesUp(r)
      BY <2>4 DEF Fails
    <3> QED BY <1>0, <1>1, <3>1, MemberEnded DEF Moves, Table
  <2>5. CASE ScopeRead(r)
    <3>1. UNCHANGED <<apps, scope, infra, profiles, block, seeded>> /\ j.step = "scope"
      BY <2>1, <2>5 DEF ScopeRead
    <3>2. j.op \in {"grant", "revoke"} /\ j.subject \in Members
      BY <2>2, <3>1 DEF RequestHolds, WorkFits
    <3>3. CASE Goes(r, [list |-> scope[j.subject]])
      <4>1. StepAfter(r) = "extend"
        BY <2>1, <3>1, <3>2, StepsInOrder DEF Op
      <4>2. MovedTo(r, "extend", scope[j.subject], j.config)
        BY <1>1, <2>1, <3>3, <4>1, GoesList
      <4>3. scope[j.subject] \subseteq AppProjects /\ "extend" \in Steps
        BY <1>1, <3>2 DEF Steps
      <4>4. j.config \in {NoOp} \cup Configs
        BY <2>2 DEF MemberRecords
      <4>5. Moves
        <5>1. WorkFits(j.op, j.subject, "extend", scope[j.subject], j.config)
          BY <2>1, <3>2, <4>2, <4>3, <4>4 DEF WorkFits
        <5> QED BY <2>1, <3>2, <4>2, <4>3, <4>4, <5>1, MemberMoved DEF Moves
      <4> QED BY <1>0, <1>1, <3>1, <4>5 DEF Table
    <3>4. CASE Goes(r, [step |-> "read"])
      <4>1. MovedTo(r, "read", j.list, j.config)
        BY <1>1, <2>1, <3>4, GoesBack
      <4>2. j.config \in {NoOp} \cup Configs /\ j.list \in (SUBSET Members) \cup (SUBSET AppProjects) /\ "read" \in Steps
        BY <2>2 DEF MemberRecords, Steps
      <4>3. Moves
        <5>1. WorkFits(j.op, j.subject, "read", j.list, j.config)
          BY <2>1, <3>2, <4>1, <4>2 DEF WorkFits
        <5> QED BY <2>1, <3>2, <4>1, <4>2, <5>1, MemberMoved DEF Moves
      <4> QED BY <1>0, <1>1, <3>1, <4>3 DEF Table
    <3> QED BY <2>1, <2>5, <3>3, <3>4 DEF ScopeRead
  <2>6. CASE ScopeWrite(r)
    <3>1. UNCHANGED <<apps, infra, profiles, block, seeded>> /\ j.step = "extend" /\ Goes(r, << >>)
      BY <2>1, <2>6 DEF ScopeWrite
    <3>2. j.op \in {"grant", "revoke"} /\ j.subject \in Members /\ j.list \subseteq AppProjects
      BY <2>2, <3>1 DEF RequestHolds, WorkFits
    <3>3. scope' \in [Members -> SUBSET AppProjects]
      <4>1. j.plan \subseteq AppProjects
        BY <2>2 DEF MemberRecords
      <4>2. PICK x : /\ scope' = [scope EXCEPT ![j.subject] = x]
                     /\ x = IF j.op = "grant" THEN j.list \cup j.plan ELSE j.list \ j.plan
        BY <2>1, <2>6 DEF ScopeWrite, Op
      <4> QED BY <1>1, <3>2, <4>1, <4>2
    <3>4. MovedTo(r, "read", j.list, j.config)
      BY <1>1, <2>1, <3>1, <3>2, GoesStep, StepsInOrder DEF Op
    <3>5. j.config \in {NoOp} \cup Configs /\ j.list \in (SUBSET Members) \cup (SUBSET AppProjects) /\ "read" \in Steps
      BY <2>2 DEF MemberRecords, Steps
    <3>6. Moves
      <4>1. WorkFits(j.op, j.subject, "read", j.list, j.config)
        BY <2>1, <3>2, <3>4, <3>5 DEF WorkFits
      <4> QED BY <2>1, <3>2, <3>4, <3>5, <4>1, MemberMoved DEF Moves
    <3> QED BY <1>0, <1>1, <3>1, <3>3, <3>6 DEF Table
  <2>7. CASE MembersRead(r)
    <3>1. UNCHANGED <<apps, scope, infra, profiles, block, seeded>> /\ j.step = "read"
      BY <2>1, <2>7 DEF MembersRead
    <3>2. j.op \in {"grant", "revoke"} /\ j.subject \in Members
      BY <2>2, <3>1 DEF RequestHolds, WorkFits
    <3>3. PICK x : /\ Goes(r, [list |-> x])
                   /\ x = IF j.op = "grant" THEN infra.members \cup {j.subject} ELSE infra.members \ {j.subject}
      BY <2>1, <2>7 DEF MembersRead, Op
    <3>4. x \subseteq Members
      BY <1>1, <3>2, <3>3 DEF Configs
    <3>5. Goes(r, [list |-> x])
      BY <3>3
    <3>6. MovedTo(r, "etag", x, j.config)
      BY <1>1, <2>1, <3>1, <3>2, <3>5, GoesList, StepsInOrder DEF Op
    <3>7. j.config \in {NoOp} \cup Configs /\ "etag" \in Steps
      BY <2>2 DEF MemberRecords, Steps
    <3>8. Moves
      <4>1. WorkFits(j.op, j.subject, "etag", x, j.config)
        BY <2>1, <3>2, <3>4, <3>6, <3>7 DEF WorkFits
      <4> QED BY <2>1, <3>2, <3>4, <3>6, <3>7, <4>1, MemberMoved DEF Moves
    <3> QED BY <1>0, <1>1, <3>1, <3>8 DEF Table
  <2>8. CASE InfraRead(r)
    <3>1. UNCHANGED <<apps, scope, infra, profiles, block, seeded>> /\ j.step = "etag" /\ Goes(r, [config |-> infra])
      BY <2>1, <2>8 DEF InfraRead
    <3>2. \/ j.op \in {"grant", "revoke"} /\ j.subject \in Members /\ j.list \subseteq Members
          \/ j.op \in {"addkey", "rmkey"} /\ j.subject \in OwnKeys
      BY <2>2, <3>1 DEF RequestHolds, WorkFits
    <3>3. MovedTo(r, "update", j.list, infra)
      BY <1>1, <2>1, <3>1, <3>2, GoesConfig, StepsInOrder DEF Op
    <3>4. j.list \in (SUBSET Members) \cup (SUBSET AppProjects) /\ "update" \in Steps
      BY <2>2 DEF MemberRecords, Steps
    <3>5. Moves
      <4>1. WorkFits(j.op, j.subject, "update", j.list, infra)
        BY <1>1, <2>1, <3>2, <3>3, <3>4 DEF WorkFits
      <4> QED BY <1>1, <2>1, <3>2, <3>3, <3>4, <4>1, MemberMoved DEF Moves
    <3> QED BY <1>0, <1>1, <3>1, <3>5 DEF Table
  <2>9. CASE InfraWrite(r)
    <3>1. UNCHANGED <<apps, scope, profiles, block, seeded>> /\ j.step = "update"
      BY <2>1, <2>9 DEF InfraWrite
    <3>2. /\ j.config \in Configs
          /\ \/ j.op \in {"grant", "revoke"} /\ j.subject \in Members /\ j.list \subseteq Members
             \/ j.op \in {"addkey", "rmkey"} /\ j.subject \in OwnKeys
      BY <2>2, <3>1 DEF RequestHolds, WorkFits
    <3>3. CASE GivesUp(r) /\ UNCHANGED infra
      BY <1>0, <1>1, <3>1, <3>3, MemberEnded DEF Moves, Table
    <3>4. CASE ~(GivesUp(r) /\ UNCHANGED infra)
      <4>1. PICK c : /\ c = [members |-> IF j.op \in {"grant", "revoke"} THEN j.list ELSE j.config.members,
                             keys |-> KeysAfter(r)]
                     /\ infra' = c /\ Goes(r, [config |-> c])
        BY <2>1, <2>9, <3>4 DEF InfraWrite, Op
      <4>2. KeysAfter(r) \in SUBSET OwnKeys
        BY <2>1, <3>2 DEF KeysAfter, Op, Configs
      <4>3. c \in Configs
        BY <3>2, <4>1, <4>2 DEF Configs
      <4>4. Goes(r, [config |-> c])
        BY <4>1
      <4>5. MovedTo(r, "render", j.list, c)
        BY <1>1, <2>1, <3>1, <3>2, <4>4, GoesConfig, StepsInOrder DEF Op
      <4>6. j.list \in (SUBSET Members) \cup (SUBSET AppProjects) /\ "render" \in Steps
        BY <2>2 DEF MemberRecords, Steps
      <4>7. Moves
        <5>1. WorkFits(j.op, j.subject, "render", j.list, c)
          BY <2>1, <3>2, <4>3, <4>5, <4>6 DEF WorkFits
        <5> QED BY <2>1, <3>2, <4>3, <4>5, <4>6, <5>1, MemberMoved DEF Moves
      <4>8. infra' \in Configs
        BY <4>1, <4>3
      <4> QED BY <1>0, <1>1, <3>1, <4>7, <4>8 DEF Table
    <3> QED BY <3>3, <3>4
  <2>10. CASE Render(r)
    <3>1. /\ UNCHANGED <<apps, scope, infra, block, seeded>> /\ j.step = "render" /\ j.op # "login"
          /\ profiles' = j.config.members
      BY <2>1, <2>10 DEF Render, Op
    <3>2. /\ j.config \in Configs
          /\ \/ j.op \in {"grant", "revoke"} /\ j.subject \in Members
             \/ j.op \in {"addkey", "rmkey"} /\ j.subject \in OwnKeys
      BY <2>2, <3>1 DEF RequestHolds, WorkFits
    <3>3. Table
      BY <1>1, <3>1, <3>2 DEF Table, Configs
    <3>4. CASE Answers(r)
      BY <1>0, <3>3, <3>4, MemberEnded DEF Moves
    <3>5. CASE ~Answers(r)
      <4>1. Goes(r, << >>) /\ j.op \in {"grant", "revoke"} /\ j.subject \in Members
        BY <2>1, <2>10, <3>2, <3>5 DEF Render, Op
      <4>2. MovedTo(r, "machines", j.list, j.config)
        BY <1>1, <2>1, <3>1, <4>1, GoesStep, StepsInOrder DEF Op
      <4>3. j.config \in {NoOp} \cup Configs /\ j.list \in (SUBSET Members) \cup (SUBSET AppProjects) /\ "machines" \in Steps
        BY <2>2 DEF MemberRecords, Steps
      <4>4. Moves
        <5>1. WorkFits(j.op, j.subject, "machines", j.list, j.config)
          BY <2>1, <4>1, <4>2, <4>3 DEF WorkFits
        <5> QED BY <2>1, <4>1, <4>2, <4>3, <5>1, MemberMoved DEF Moves
      <4> QED BY <1>0, <3>3, <4>4
    <3> QED BY <3>4, <3>5
  <2>11. CASE RenderAtLogin(r)
    <3>1. /\ UNCHANGED <<apps, scope, infra, block, seeded>> /\ j.step = "render" /\ j.op = "login"
          /\ profiles' = profiles \/ profiles' = infra.members
          /\ Answers(r) \/ Goes(r, << >>)
      BY <2>1, <2>11 DEF RenderAtLogin, Op
    <3>2. j.subject \in Members
      BY <2>2, <3>1 DEF RequestHolds, WorkFits
    <3>3. Table
      BY <1>1, <3>1 DEF Table, Configs
    <3>4. CASE Answers(r)
      BY <1>0, <3>3, <3>4, MemberEnded DEF Moves
    <3>5. CASE Goes(r, << >>)
      <4>1. MovedTo(r, "machines", j.list, j.config)
        BY <1>1, <2>1, <3>1, <3>5, GoesStep, StepsInOrder DEF Op
      <4>2. j.config \in {NoOp} \cup Configs /\ j.list \in (SUBSET Members) \cup (SUBSET AppProjects) /\ "machines" \in Steps
        BY <2>2 DEF MemberRecords, Steps
      <4>3. Moves
        <5>1. WorkFits(j.op, j.subject, "machines", j.list, j.config)
          BY <2>1, <3>1, <3>2, <4>1, <4>2 DEF WorkFits
        <5> QED BY <2>1, <3>1, <3>2, <4>1, <4>2, <5>1, MemberMoved DEF Moves
      <4> QED BY <1>0, <3>3, <4>3
    <3> QED BY <3>1, <3>4, <3>5
  <2>12. CASE EnrolKey(r) \/ RevokeKey(r)
    <3>1. /\ UNCHANGED <<apps, scope, infra, profiles, seeded>> /\ Answers(r) /\ j.step = "machines"
          /\ \/ RevokeKey(r) /\ block' = {}
             \/ j.op \in {"grant", "login"} /\ (block' = block \/ block' = block \cup {j.subject})
      BY <2>1, <2>12 DEF EnrolKey, RevokeKey, Op
    <3>2. block' \subseteq Members
      BY <1>1, <2>2, <3>1 DEF RequestHolds, WorkFits
    <3>3. Moves
      BY <3>1, MemberEnded DEF Moves
    <3> QED BY <1>0, <1>1, <3>1, <3>2, <3>3 DEF Table
  <2>13. CASE ProjectCreate(r)
    <3>1. /\ UNCHANGED <<scope, infra, block, seeded>> /\ j.step = "machines" /\ j.op = "create"
          /\ apps' = apps \cup {j.subject} /\ profiles' = infra.members /\ Goes(r, [list |-> infra.members])
      BY <2>1, <2>13 DEF ProjectCreate, Op
    <3>2. j.subject \in AppProjects /\ infra.members \subseteq Members
      BY <1>1, <2>2, <3>1 DEF RequestHolds, WorkFits, Configs
    <3>3. MovedTo(r, "others", infra.members, j.config)
      BY <1>1, <2>1, <3>1, GoesList, StepsInOrder DEF Op
    <3>4. j.config \in {NoOp} \cup Configs /\ "others" \in Steps
      BY <2>2 DEF MemberRecords, Steps
    <3>5. Moves
      <4>1. WorkFits(j.op, j.subject, "others", infra.members, j.config)
        BY <2>1, <3>1, <3>2, <3>3, <3>4 DEF WorkFits
      <4> QED BY <2>1, <3>1, <3>2, <3>3, <3>4, <4>1, MemberMoved DEF Moves
    <3> QED BY <1>0, <1>1, <3>1, <3>2, <3>5 DEF Table
  <2>14. CASE ExtendMember(r)
    <3>1. UNCHANGED <<apps, infra, profiles, block, seeded>> /\ j.step = "others"
      BY <2>1, <2>14 DEF ExtendMember
    <3>2. j.subject \in AppProjects /\ j.op = "create" /\ j.list \subseteq Members
      BY <2>2, <3>1 DEF RequestHolds, WorkFits
    <3>3. CASE Answers(r) /\ UNCHANGED scope
      BY <1>0, <1>1, <3>1, <3>3, MemberEnded DEF Moves, Table
    <3>4. CASE ~(Answers(r) /\ UNCHANGED scope)
      <4>1. PICK u \in j.list : /\ Goes(r, [step |-> "others", list |-> j.list \ {u}])
                                /\ \/ scope' = [scope EXCEPT ![u] = @ \cup {j.subject}]
                                   \/ UNCHANGED scope
        BY <2>1, <2>14, <3>4 DEF ExtendMember
      <4>2. MovedTo(r, "others", j.list \ {u}, j.config)
        BY <1>1, <2>1, <4>1, GoesOver
      <4>3. j.config \in {NoOp} \cup Configs /\ "others" \in Steps /\ j.list \ {u} \subseteq Members
        BY <2>2, <3>2 DEF MemberRecords, Steps
      <4>4. Moves
        <5>1. WorkFits(j.op, j.subject, "others", j.list \ {u}, j.config)
          BY <2>1, <3>2, <4>2, <4>3 DEF WorkFits
        <5> QED BY <2>1, <3>2, <4>2, <4>3, <5>1, MemberMoved DEF Moves
      <4>5. scope' \in [Members -> SUBSET AppProjects]
        BY <1>1, <3>2, <4>1
      <4> QED BY <1>0, <1>1, <3>1, <4>4, <4>5 DEF Table
    <3> QED BY <3>3, <3>4
  <2> QED BY <1>4, <2>3, <2>4, <2>5, <2>6, <2>7, <2>8, <2>9, <2>10, <2>11, <2>12, <2>13, <2>14
<1> QED BY <1>2, <1>3, <1>4 DEF MembersNext

LEMMA MemberTypesInitially == MembersInit => MemberTypes
<1> SUFFICES ASSUME MembersInit PROVE MemberTypes
  OBVIOUS
<1>1. Idle \in MemberRecords /\ RequestHolds(Idle)
  BY DEF Idle, MemberRecords, Steps, RequestHolds
<1>2. mreq \in [MemberRequests -> MemberRecords] /\ \A r \in MemberRequests : RequestHolds(mreq[r])
  BY <1>1 DEF MembersInit
<1>3. infra \in Configs /\ apps \subseteq AppProjects
  BY MembersAssumption DEF MembersInit, Configs, MembersAssumption
<1> QED BY <1>2, <1>3 DEF MembersInit, MemberTypes, MembersTypeOK, MemberRecords

-----------------------------------------------------------------------------
(* Publications: the types, however commands overlap                       *)

TunnelTypes ==
  /\ TunnelsTypeOK /\ trun \in [TunnelRuns -> RunRecords]
  /\ \A r \in TunnelRuns : trun[r].id <= tunnelIds /\ RunFits(trun[r])

LEMMA TunnelTypesInitially == TunnelsInit => TunnelTypes
<1> SUFFICES ASSUME TunnelsInit PROVE TunnelTypes
  OBVIOUS
<1>1. MaxTunnels \in Nat /\ 0 \in 0 .. MaxTunnels
  BY TunnelsAssumption
<1>2. TunnelsTypeOK
  BY <1>1 DEF TunnelsInit, TunnelsTypeOK, NoRecord
<1>3. NoRun \in RunRecords /\ NoRun.id = 0 /\ RunFits(NoRun)
  BY <1>1 DEF NoRun, RunRecords, RunSteps, RunFits, Running
<1> QED BY <1>1, <1>2, <1>3 DEF TunnelsInit, TunnelTypes

\* A step of one command.
LEMMA RunStepTypes ==
  ASSUME TunnelTypes, NEW r \in TunnelRuns, NEW k \in RunRecords, trun' = [trun EXCEPT ![r] = k],
         RunFits(k), tunnelIds' \in {tunnelIds, tunnelIds + 1}, k.id <= tunnelIds', TunnelsTypeOK'
  PROVE  TunnelTypes'
<1>1. trun' \in [TunnelRuns -> RunRecords] /\ trun'[r] = k /\ \A q \in TunnelRuns \ {r} : trun'[q] = trun[q]
  BY DEF TunnelTypes
<1>2. \A q \in TunnelRuns : trun'[q].id <= tunnelIds'
  <2> TAKE q \in TunnelRuns
  <2>1. CASE q # r
    <3>1. /\ trun'[q] = trun[q] /\ trun[q].id <= tunnelIds /\ trun[q].id \in Nat
          /\ tunnelIds \in Nat /\ tunnelIds' \in Nat
      BY <1>1, <2>1, TunnelsAssumption DEF TunnelTypes, TunnelsTypeOK, RunRecords
    <3> QED BY <3>1
  <2> QED BY <1>1, <2>1
<1>3. \A q \in TunnelRuns : RunFits(trun[q])'
  <2> TAKE q \in TunnelRuns
  <2>1. RunFits(trun'[q])
    BY <1>1 DEF TunnelTypes
  <2> QED BY <2>1 DEF RunFits, Running, RunAt
<1> QED BY <1>1, <1>2, <1>3 DEF TunnelTypes

LEMMA RunStopsTypes ==
  ASSUME TunnelTypes, NEW r \in TunnelRuns, NEW ok \in BOOLEAN, RunEnds(r, ok),
         UNCHANGED tunnelIds, TunnelsTypeOK'
  PROVE  TunnelTypes'
<1>1. PICK k \in RunRecords : trun' = [trun EXCEPT ![r] = k] /\ SameRun(k, trun[r]) /\ k.step = "done"
  BY RunStops DEF TunnelTypes
<1>2. RunFits(k) /\ k.id <= tunnelIds'
  BY <1>1 DEF TunnelTypes, RunFits, Running, SameRun
<1> QED BY <1>1, <1>2, RunStepTypes

LEMMA RunMovesTypes ==
  ASSUME TunnelTypes, NEW r \in TunnelRuns, NEW step \in RunSteps, RunGoes(r, step),
         \A k : SameRun(k, trun[r]) /\ k.step = step => RunFits(k),
         UNCHANGED tunnelIds, TunnelsTypeOK'
  PROVE  TunnelTypes'
<1>1. PICK k \in RunRecords : trun' = [trun EXCEPT ![r] = k] /\ SameRun(k, trun[r]) /\ k.step = step
  BY RunMoves DEF TunnelTypes
<1>2. RunFits(k) /\ k.id <= tunnelIds'
  BY <1>1 DEF TunnelTypes, SameRun
<1> QED BY <1>1, <1>2, RunStepTypes

\* Where a command goes from its step.
LEMMA RunGoesFit ==
  ASSUME NEW j, RunFits(j), Running(j), NEW k, SameRun(k, j),
         \/ j.step = "preflight" /\ k.step = "claim"
         \/ j.step \in {"create", "dns"} /\ k.step = "undo"
         \/ j.step = "dns" /\ k.step = "list"
         \/ j.step = "write" /\ j.op = "publish" /\ k.step = "install"
         \/ j.step = "uninstall" /\ k.step = "lookup"
         \/ j.step = "lookup" /\ k.step \in {"list", "uncname"}
         \/ j.step = "uncname" /\ k.step = "untunnel"
         \/ j.step = "untunnel" /\ k.step = "release"
         \/ j.step = "release" /\ k.step = "list"
         \/ j.step = "tailcheck" /\ k.step = "site"
         \/ j.step = "site" /\ k.step = "arecord"
         \/ j.step = "unsite" /\ k.step = "unrecord"
  PROVE  RunFits(k)
BY DEF RunFits, Running, RunAt, SameRun

\* Of a command at work.
LEMMA RunAtWork ==
  ASSUME TunnelTypes, NEW r \in TunnelRuns, Running(trun[r])
  PROVE  /\ trun[r] \in RunRecords /\ RunFits(trun[r]) /\ trun[r].id <= tunnelIds /\ trun[r].id \in 0 .. MaxTunnels
         /\ trun[r].machine \in TunnelMachines /\ trun[r].host \in TunnelHosts
         /\ tunnelIds \in Nat /\ MaxTunnels \in Nat
BY TunnelsAssumption DEF TunnelTypes, TunnelsTypeOK, RunFits, RunRecords

\* A command that goes on along its operation.
LEMMA RunGoesTypes ==
  ASSUME TunnelTypes, NEW r \in TunnelRuns, Running(trun[r]), NEW step \in RunSteps, RunGoes(r, step),
         LET j == trun[r]
         IN  \/ j.step = "preflight" /\ step = "claim"
             \/ j.step \in {"create", "dns"} /\ step = "undo"
             \/ j.step = "dns" /\ step = "list"
             \/ j.step = "write" /\ j.op = "publish" /\ step = "install"
             \/ j.step = "uninstall" /\ step = "lookup"
             \/ j.step = "lookup" /\ step \in {"list", "uncname"}
             \/ j.step = "uncname" /\ step = "untunnel"
             \/ j.step = "untunnel" /\ step = "release"
             \/ j.step = "release" /\ step = "list"
             \/ j.step = "tailcheck" /\ step = "site"
             \/ j.step = "site" /\ step = "arecord"
             \/ j.step = "unsite" /\ step = "unrecord",
         UNCHANGED tunnelIds, TunnelsTypeOK'
  PROVE  TunnelTypes'
<1>1. RunFits(trun[r])
  BY DEF TunnelTypes
<1>2. \A k : SameRun(k, trun[r]) /\ k.step = step => RunFits(k)
  BY <1>1, RunGoesFit
<1> QED BY <1>2, RunMovesTypes

\* A command begins: its record is new, and of its operation.
LEMMA RunBeginTypes ==
  ASSUME TunnelTypes, NEW r \in TunnelRuns, TunnelRunBegin(r)
  PROVE  TunnelTypes'
<1>1. PICK k \in RunRecords :
        /\ trun' = [trun EXCEPT ![r] = k] /\ k.machine \in TunnelMachines /\ k.host \in TunnelHosts
        /\ k.id = 0 /\ k.up = FALSE
        /\ \/ k.op = "publish" /\ k.step = "preflight"
           \/ k.op = "unpublish" /\ k.step = "uninstall"
           \/ k.op = "tailnet" /\ k.step = "tailcheck"
           \/ k.op = "untailnet" /\ k.step = "unsite"
  BY RunBegins
<1>2. RunFits(k)
  BY <1>1 DEF RunFits, RunAt
<1>3. tunnelIds' = tunnelIds /\ TunnelsTypeOK'
  BY DEF TunnelRunBegin, TunnelTypes, TunnelsTypeOK
<1>4. tunnelIds \in Nat
  BY TunnelsAssumption DEF TunnelTypes, TunnelsTypeOK
<1>5. k.id <= tunnelIds'
  BY <1>1, <1>3, <1>4
<1> QED BY <1>1, <1>2, <1>3, <1>5, RunStepTypes

\* Steps that only ask.
LEMMA RunAsksTypes ==
  ASSUME TunnelTypes, NEW r \in TunnelRuns,
         TunnelPreflight(r) \/ LookupTunnel(r) \/ TailnetPreflight(r)
  PROVE  TunnelTypes'
<1>1. Running(trun[r]) /\ UNCHANGED tunnelIds
  BY DEF Running, TunnelPreflight, LookupTunnel, TailnetPreflight
<1>2. TunnelsTypeOK'
  BY DEF TunnelTypes, TunnelsTypeOK, TunnelPreflight, LookupTunnel, TailnetPreflight
<1>3. FALSE \in BOOLEAN /\ {"claim", "list", "uncname", "site"} \subseteq RunSteps
  BY DEF RunSteps
<1>4. CASE RunEnds(r, FALSE)
  BY <1>1, <1>2, <1>3, <1>4, RunStopsTypes
<1>5. CASE TunnelPreflight(r) /\ RunGoes(r, "claim")
  BY <1>1, <1>2, <1>3, <1>5, RunGoesTypes DEF TunnelPreflight
<1>6. CASE LookupTunnel(r) /\ RunGoes(r, "list")
  BY <1>1, <1>2, <1>3, <1>6, RunGoesTypes DEF LookupTunnel
<1>7. CASE LookupTunnel(r) /\ RunGoes(r, "uncname")
  BY <1>1, <1>2, <1>3, <1>7, RunGoesTypes DEF LookupTunnel
<1>8. CASE TailnetPreflight(r) /\ RunGoes(r, "site")
  BY <1>1, <1>2, <1>3, <1>8, RunGoesTypes DEF TailnetPreflight
<1> QED BY <1>4, <1>5, <1>6, <1>7, <1>8 DEF TunnelPreflight, LookupTunnel, TailnetPreflight

\* Steps on the rows of the Auth App.
LEMMA ClaimTypes ==
  ASSUME TunnelTypes, NEW r \in TunnelRuns, ClaimTunnel(r)
  PROVE  TunnelTypes'
<1>1. PICK h, m : h = trun[r].host /\ m = trun[r].machine
  OBVIOUS
<1>2. Running(trun[r]) /\ UNCHANGED tunnelIds /\ trun[r].step = "claim"
  BY DEF Running, ClaimTunnel
<1>3. TunnelsTypeOK'
  <2>1. h \in TunnelHosts /\ m \in TunnelMachines
    BY <1>1, <1>2, RunAtWork
  <2>2. owner' \in [TunnelHosts -> TunnelMachines \cup {NoMachine}]
    BY <1>1, <2>1 DEF ClaimTunnel, TunnelTypes, TunnelsTypeOK
  <2> QED BY <2>2 DEF ClaimTunnel, TunnelTypes, TunnelsTypeOK
<1>4. CASE RunEnds(r, FALSE)
  <2>1. FALSE \in BOOLEAN
    OBVIOUS
  <2> QED BY <1>2, <1>3, <1>4, <2>1, RunStopsTypes
<1>5. CASE trun' = [trun EXCEPT ![r].step = "create", ![r].fresh = owner[h] = NoMachine]
  <2>1. PICK fresh \in BOOLEAN : fresh <=> owner[h] = NoMachine
    OBVIOUS
  <2>2. TakesFresh(r, "create", fresh) /\ "create" \in RunSteps
    <3>1. fresh = (owner[h] = NoMachine)
      BY <2>1
    <3> QED BY <1>5, <3>1 DEF TakesFresh, RunSteps
  <2>3. PICK k \in RunRecords :
          /\ trun' = [trun EXCEPT ![r] = k] /\ k.step = "create" /\ k.fresh = fresh
          /\ k.op = trun[r].op /\ k.machine = trun[r].machine /\ k.host = trun[r].host
          /\ k.up = trun[r].up /\ k.id = trun[r].id /\ k.seen = trun[r].seen
    BY <2>2, RunTakesFresh DEF TunnelTypes
  <2>4. RunFits(k)
    BY <1>2, <2>3 DEF TunnelTypes, RunFits, Running, RunAt
  <2>5. k.id <= tunnelIds'
    BY <1>2, <2>3 DEF TunnelTypes
  <2> QED BY <1>2, <1>3, <2>3, <2>4, <2>5, RunStepTypes
<1> QED BY <1>1, <1>4, <1>5 DEF ClaimTunnel

LEMMA UndoTypes ==
  ASSUME TunnelTypes, NEW r \in TunnelRuns, UndoClaim(r) \/ ReleaseTunnel(r)
  PROVE  TunnelTypes'
<1>1. PICK h : h = trun[r].host
  OBVIOUS
<1>2. Running(trun[r]) /\ UNCHANGED tunnelIds
  BY DEF Running, UndoClaim, ReleaseTunnel
<1>3. TunnelsTypeOK'
  <2>1. h \in TunnelHosts
    BY <1>1, <1>2, RunAtWork
  <2>2. owner' \in [TunnelHosts -> TunnelMachines \cup {NoMachine}]
    BY <1>1, <2>1 DEF UndoClaim, ReleaseTunnel, TunnelTypes, TunnelsTypeOK
  <2>3. held' \subseteq TunnelHosts
    BY <1>1, <2>1 DEF UndoClaim, ReleaseTunnel, TunnelTypes, TunnelsTypeOK
  <2> QED BY <2>2, <2>3 DEF UndoClaim, ReleaseTunnel, TunnelTypes, TunnelsTypeOK
<1>4. FALSE \in BOOLEAN /\ "list" \in RunSteps
  BY DEF RunSteps
<1>5. CASE RunEnds(r, FALSE)
  BY <1>2, <1>3, <1>4, <1>5, RunStopsTypes
<1>6. CASE ReleaseTunnel(r) /\ RunGoes(r, "list")
  BY <1>2, <1>3, <1>4, <1>6, RunGoesTypes DEF ReleaseTunnel
<1> QED BY <1>5, <1>6 DEF UndoClaim, ReleaseTunnel

\* A new tunnel has the next id, which no other has.
LEMMA CreateTypes ==
  ASSUME TunnelTypes, NEW r \in TunnelRuns, CreateTunnel(r)
  PROVE  TunnelTypes'
<1>1. PICK h : h = trun[r].host
  OBVIOUS
<1>2. /\ Running(trun[r]) /\ trun[r].step = "create" /\ h \in TunnelHosts
      /\ UNCHANGED <<owner, held, record, unit, listed, site>>
  BY <1>1, RunAtWork DEF Running, CreateTunnel
<1>3. /\ tunnel \in [TunnelHosts -> 0 .. MaxTunnels] /\ tunnelIds \in 0 .. MaxTunnels /\ MaxTunnels \in Nat
      /\ \A g \in TunnelHosts : tunnel[g] <= tunnelIds /\ record[g].id <= tunnelIds /\ record[g].id \in Nat
      /\ \A g, f \in TunnelHosts : g # f /\ tunnel[g] # 0 => tunnel[g] # tunnel[f]
  BY TunnelsAssumption DEF TunnelTypes, TunnelsTypeOK
<1>4. CASE RunGoes(r, "undo") /\ UNCHANGED <<tunnel, tunnelIds>>
  <2>1. TunnelsTypeOK' /\ "undo" \in RunSteps
    BY <1>2, <1>4 DEF TunnelTypes, TunnelsTypeOK, RunSteps
  <2> QED BY <1>2, <1>4, <2>1, RunGoesTypes
<1>5. CASE /\ tunnel[h] # 0 \/ tunnelIds < MaxTunnels
           /\ tunnelIds' = IF tunnel[h] # 0 THEN tunnelIds ELSE tunnelIds + 1
           /\ tunnel' = [tunnel EXCEPT ![h] = IF @ # 0 THEN @ ELSE tunnelIds + 1]
           /\ trun' = [trun EXCEPT ![r].step = "dns", ![r].id = tunnel'[h]]
  <2>1. PICK i : i = IF tunnel[h] # 0 THEN tunnel[h] ELSE tunnelIds + 1
    OBVIOUS
  <2>2. tunnel' = [tunnel EXCEPT ![h] = i] /\ tunnel'[h] = i /\ \A g \in TunnelHosts \ {h} : tunnel'[g] = tunnel[g]
    BY <1>2, <1>3, <1>5, <2>1
  <2>3. i \in 1 .. MaxTunnels /\ tunnelIds' \in {tunnelIds, tunnelIds + 1} /\ tunnelIds' \in 0 .. MaxTunnels /\ i <= tunnelIds'
        /\ (i = tunnel[h] \/ i = tunnelIds + 1)
    BY <1>2, <1>3, <1>5, <2>1
  <2>4. tunnel' \in [TunnelHosts -> 0 .. MaxTunnels]
    BY <1>2, <1>3, <2>2, <2>3
  <2>5. \A g \in TunnelHosts : tunnel'[g] <= tunnelIds' /\ record'[g].id <= tunnelIds'
    <3> TAKE g \in TunnelHosts
    <3>1. tunnel[g] \in Nat /\ tunnelIds \in Nat /\ record'[g] = record[g]
      BY <1>2, <1>3
    <3> QED BY <1>3, <2>2, <2>3, <3>1
  <2>6. \A g, f \in TunnelHosts : g # f /\ tunnel'[g] # 0 => tunnel'[g] # tunnel'[f]
    <3> SUFFICES ASSUME NEW g \in TunnelHosts, NEW f \in TunnelHosts, g # f, tunnel'[g] # 0, tunnel'[g] = tunnel'[f]
                 PROVE  FALSE
      OBVIOUS
    <3>1. \A x \in TunnelHosts : tunnel[x] # tunnelIds + 1
      BY <1>3
    <3>2. tunnel'[h] = tunnel[h] \/ tunnel'[h] = tunnelIds + 1
      BY <2>2, <2>3
    <3> QED BY <1>3, <2>2, <3>1, <3>2
  <2>7. TunnelsTypeOK'
    <3>1. /\ owner' = owner /\ held' = held /\ record' = record /\ unit' = unit /\ listed' = listed /\ site' = site
      BY <1>2
    <3> QED BY <2>3, <2>4, <2>5, <2>6, <3>1 DEF TunnelTypes, TunnelsTypeOK
  <2>8. TakesId(r, "dns", i) /\ "dns" \in RunSteps /\ i \in 0 .. MaxTunnels
    <3>1. tunnel'[h] = i
      BY <2>2
    <3>2. trun' = [trun EXCEPT ![r].step = "dns", ![r].id = tunnel'[h]]
      BY <1>5
    <3>3. TakesId(r, "dns", i)
      BY ONLY <3>1, <3>2 DEF TakesId
    <3>4. i \in 0 .. MaxTunnels
      BY <1>3, <2>3
    <3> QED BY <3>3, <3>4 DEF RunSteps
  <2>9. PICK k \in RunRecords :
          /\ trun' = [trun EXCEPT ![r] = k] /\ k.step = "dns" /\ k.id = i
          /\ k.op = trun[r].op /\ k.machine = trun[r].machine /\ k.host = trun[r].host
          /\ k.fresh = trun[r].fresh /\ k.up = trun[r].up /\ k.seen = trun[r].seen
    BY <2>8, RunTakesId DEF TunnelTypes
  <2>10. RunFits(k)
    BY <1>2, <2>9 DEF TunnelTypes, RunFits, Running, RunAt
  <2> QED BY <2>3, <2>7, <2>9, <2>10, RunStepTypes
<1> QED BY <1>1, <1>4, <1>5 DEF CreateTunnel

\* Steps on the records and tunnels of Cloudflare.
LEMMA ProviderTypes ==
  ASSUME TunnelTypes, NEW r \in TunnelRuns,
         PointTunnel(r) \/ DeleteCname(r) \/ DeleteTunnel(r) \/ SetARecord(r) \/ DropARecord(r)
  PROVE  TunnelTypes'
<1>1. PICK h, i : h = trun[r].host /\ i = trun[r].id
  OBVIOUS
<1>2. Running(trun[r]) /\ UNCHANGED <<owner, tunnelIds, unit, listed, site>>
  BY DEF Running, PointTunnel, DeleteCname, DeleteTunnel, SetARecord, DropARecord
<1>3. h \in TunnelHosts /\ i \in 0 .. MaxTunnels /\ 0 \in 0 .. MaxTunnels /\ i <= tunnelIds /\ tunnelIds \in Nat
  BY <1>1, <1>2, RunAtWork
<1>4. \/ record' = record
      \/ \E x \in [type : {"none", "CNAME", "A"}, id : 0 .. MaxTunnels] :
            (x.id \in {0, i} \/ x = record[h]) /\ record' = [record EXCEPT ![h] = x]
  <2>1. record \in [TunnelHosts -> [type : {"none", "CNAME", "A"}, id : 0 .. MaxTunnels]]
    BY DEF TunnelTypes, TunnelsTypeOK
  <2>2. PICK mine, a : mine = [type |-> "CNAME", id |-> i] /\ a = [type |-> "A", id |-> 0]
    OBVIOUS
  <2>3. /\ {NoRecord, mine, a, record[h]} \subseteq [type : {"none", "CNAME", "A"}, id : 0 .. MaxTunnels]
        /\ NoRecord.id = 0 /\ a.id = 0 /\ mine.id = i
    BY <1>3, <2>1, <2>2 DEF NoRecord
  <2>4. \/ record' = record
        \/ \E x \in {NoRecord, mine, a, record[h]} : record' = [record EXCEPT ![h] = x]
    <3>1. CASE PointTunnel(r)
      BY <1>1, <2>2, <3>1 DEF PointTunnel
    <3>2. CASE DeleteCname(r)
      BY <1>1, <3>2 DEF DeleteCname
    <3>3. CASE DeleteTunnel(r)
      BY <3>3 DEF DeleteTunnel
    <3>4. CASE SetARecord(r)
      BY <1>1, <2>2, <3>4 DEF SetARecord
    <3>5. CASE DropARecord(r)
      BY <1>1, <3>5 DEF DropARecord
    <3> QED BY <3>1, <3>2, <3>3, <3>4, <3>5
  <2> QED BY <2>3, <2>4
<1>5. \/ tunnel' = tunnel
      \/ tunnel' = [tunnel EXCEPT ![h] = 0]
  BY <1>1 DEF PointTunnel, DeleteCname, DeleteTunnel, SetARecord, DropARecord
<1>6. held' = held \/ held' = held \cup {h}
  BY <1>1 DEF PointTunnel, DeleteCname, DeleteTunnel, SetARecord, DropARecord
<1>7. TunnelsTypeOK'
  <2>1. /\ record' \in [TunnelHosts -> [type : {"none", "CNAME", "A"}, id : 0 .. MaxTunnels]]
        /\ \A g \in TunnelHosts : record'[g].id <= tunnelIds
    <3>1. /\ record \in [TunnelHosts -> [type : {"none", "CNAME", "A"}, id : 0 .. MaxTunnels]]
          /\ \A g \in TunnelHosts : record[g].id <= tunnelIds
      BY DEF TunnelTypes, TunnelsTypeOK
    <3>2. CASE record' = record
      BY <3>1, <3>2
    <3>3. CASE record' # record
      <4>1. PICK x \in [type : {"none", "CNAME", "A"}, id : 0 .. MaxTunnels] :
              (x.id \in {0, i} \/ x = record[h]) /\ record' = [record EXCEPT ![h] = x]
        BY <1>4, <3>3
      <4>2. x.id <= tunnelIds
        BY <1>3, <3>1, <4>1
      <4>3. \A g \in TunnelHosts : record'[g] = IF g = h THEN x ELSE record[g]
        BY <3>1, <4>1
      <4>4. record' \in [TunnelHosts -> [type : {"none", "CNAME", "A"}, id : 0 .. MaxTunnels]]
        BY <3>1, <4>1
      <4> QED BY <3>1, <4>2, <4>3, <4>4
    <3> QED BY <3>2, <3>3
  <2>2. /\ tunnel' \in [TunnelHosts -> 0 .. MaxTunnels]
        /\ \A g \in TunnelHosts : tunnel'[g] <= tunnelIds
        /\ \A g, f \in TunnelHosts : g # f /\ tunnel'[g] # 0 => tunnel'[g] # tunnel'[f]
    <3>1. /\ tunnel \in [TunnelHosts -> 0 .. MaxTunnels]
          /\ \A g \in TunnelHosts : tunnel[g] <= tunnelIds
          /\ \A g, f \in TunnelHosts : g # f /\ tunnel[g] # 0 => tunnel[g] # tunnel[f]
      BY DEF TunnelTypes, TunnelsTypeOK
    <3>2. CASE tunnel' = tunnel
      BY <3>1, <3>2
    <3>3. CASE tunnel' = [tunnel EXCEPT ![h] = 0]
      <4>1. \A g \in TunnelHosts : tunnel'[g] = IF g = h THEN 0 ELSE tunnel[g]
        BY <3>1, <3>3
      <4>2. tunnel' \in [TunnelHosts -> 0 .. MaxTunnels]
        BY <1>3, <3>1, <3>3
      <4>3. \A g \in TunnelHosts : tunnel'[g] <= tunnelIds
        BY <1>3, <3>1, <4>1
      <4>4. \A g, f \in TunnelHosts : g # f /\ tunnel'[g] # 0 => tunnel'[g] # tunnel'[f]
        BY <3>1, <4>1
      <4> QED BY <4>2, <4>3, <4>4
    <3> QED BY <1>5, <3>2, <3>3
  <2>3. held' \subseteq TunnelHosts
    BY <1>3, <1>6 DEF TunnelTypes, TunnelsTypeOK
  <2>4. owner' = owner /\ tunnelIds' = tunnelIds /\ unit' = unit /\ listed' = listed /\ site' = site
    BY <1>2
  <2> QED BY <2>1, <2>2, <2>3, <2>4 DEF TunnelTypes, TunnelsTypeOK
<1>8. {FALSE, TRUE} \subseteq BOOLEAN /\ {"list", "undo", "untunnel", "release"} \subseteq RunSteps
  BY DEF RunSteps
<1>9. CASE RunEnds(r, FALSE) \/ RunEnds(r, TRUE)
  BY <1>2, <1>7, <1>8, <1>9, RunStopsTypes
<1>10. CASE PointTunnel(r) /\ RunGoes(r, "list")
  BY <1>2, <1>7, <1>8, <1>10, RunGoesTypes DEF PointTunnel
<1>11. CASE PointTunnel(r) /\ RunGoes(r, "undo")
  BY <1>2, <1>7, <1>8, <1>11, RunGoesTypes DEF PointTunnel
<1>12. CASE DeleteCname(r) /\ RunGoes(r, "untunnel")
  BY <1>2, <1>7, <1>8, <1>12, RunGoesTypes DEF DeleteCname
<1>13. CASE DeleteTunnel(r) /\ RunGoes(r, "release")
  BY <1>2, <1>7, <1>8, <1>13, RunGoesTypes DEF DeleteTunnel
<1> QED BY <1>9, <1>10, <1>11, <1>12, <1>13 DEF PointTunnel, DeleteCname, DeleteTunnel, SetARecord, DropARecord

\* Steps on the machine, its lists and the sidecar's sites.
LEMMA MachineTypes ==
  ASSUME TunnelTypes, NEW r \in TunnelRuns, InstallTunnel(r) \/ UninstallTunnel(r) \/ SetSite(r) \/ DropSite(r)
  PROVE  TunnelTypes'
<1>1. PICK h, m, i : h = trun[r].host /\ m = trun[r].machine /\ i = trun[r].id
  OBVIOUS
<1>2. Running(trun[r]) /\ UNCHANGED <<owner, held, tunnel, record, tunnelIds, listed>>
  BY DEF Running, InstallTunnel, UninstallTunnel, SetSite, DropSite
<1>3. h \in TunnelHosts /\ m \in TunnelMachines /\ i \in 0 .. MaxTunnels /\ 0 \in 0 .. MaxTunnels
  BY <1>1, <1>2, RunAtWork
<1>4. unit' \in [TunnelMachines -> [TunnelHosts -> 0 .. MaxTunnels]]
  <2>1. unit \in [TunnelMachines -> [TunnelHosts -> 0 .. MaxTunnels]]
    BY DEF TunnelTypes, TunnelsTypeOK
  <2>2. unit' = unit \/ \E x \in {0, i} : unit' = [unit EXCEPT ![m][h] = x]
    BY <1>1 DEF InstallTunnel, UninstallTunnel, SetSite, DropSite
  <2> QED BY <1>3, <2>1, <2>2
<1>5. site' \in [TunnelHosts -> TunnelMachines \cup {NoMachine}]
  <2>1. site \in [TunnelHosts -> TunnelMachines \cup {NoMachine}]
    BY DEF TunnelTypes, TunnelsTypeOK
  <2>2. site' = site \/ \E x \in {NoMachine, m} : site' = [site EXCEPT ![h] = x]
    BY <1>1 DEF InstallTunnel, UninstallTunnel, SetSite, DropSite
  <2> QED BY <1>3, <2>1, <2>2
<1>6. TunnelsTypeOK'
  BY <1>2, <1>4, <1>5 DEF TunnelTypes, TunnelsTypeOK
<1>7. {FALSE, TRUE} \subseteq BOOLEAN /\ {"list", "lookup", "arecord", "unrecord"} \subseteq RunSteps
  BY DEF RunSteps
<1>8. CASE RunEnds(r, FALSE)
  BY <1>2, <1>6, <1>7, <1>8, RunStopsTypes
<1>9. CASE UninstallTunnel(r) /\ RunGoes(r, "lookup")
  BY <1>2, <1>6, <1>7, <1>9, RunGoesTypes DEF UninstallTunnel
<1>10. CASE SetSite(r) /\ RunGoes(r, "arecord")
  BY <1>2, <1>6, <1>7, <1>10, RunGoesTypes DEF SetSite
<1>11. CASE DropSite(r) /\ RunGoes(r, "unrecord")
  BY <1>2, <1>6, <1>7, <1>11, RunGoesTypes DEF DropSite
<1>12. CASE trun[r].step = "install" /\ trun' = [trun EXCEPT ![r].step = "list", ![r].up = TRUE]
  <2>1. TakesUp(r, "list", TRUE)
    BY <1>12 DEF TakesUp
  <2>2. PICK k \in RunRecords :
          /\ trun' = [trun EXCEPT ![r] = k] /\ k.step = "list" /\ k.up = TRUE
          /\ k.op = trun[r].op /\ k.machine = trun[r].machine /\ k.host = trun[r].host
          /\ k.fresh = trun[r].fresh /\ k.id = trun[r].id /\ k.seen = trun[r].seen
    BY <1>7, <2>1, RunTakesUp DEF TunnelTypes
  <2>3. RunFits(k) /\ k.id <= tunnelIds'
    BY <1>2, <1>12, <2>2 DEF TunnelTypes, RunFits, Running, RunAt
  <2> QED BY <1>2, <1>6, <2>2, <2>3, RunStepTypes
<1> QED BY <1>8, <1>9, <1>10, <1>11, <1>12 DEF InstallTunnel, UninstallTunnel, SetSite, DropSite

LEMMA ListTypes ==
  ASSUME TunnelTypes, NEW r \in TunnelRuns, ReadList(r) \/ WriteList(r)
  PROVE  TunnelTypes'
<1>1. PICK h, m : h = trun[r].host /\ m = trun[r].machine
  OBVIOUS
<1>2. Running(trun[r]) /\ UNCHANGED <<owner, held, tunnel, record, tunnelIds, unit, site>>
  BY DEF Running, ReadList, WriteList
<1>3. h \in TunnelHosts /\ m \in TunnelMachines /\ trun[r].seen \subseteq TunnelHosts
  BY <1>1, <1>2, RunAtWork DEF RunRecords
<1>4. listed \in [TunnelMachines -> SUBSET TunnelHosts]
  BY DEF TunnelTypes, TunnelsTypeOK
<1>5. TunnelsTypeOK'
  <2>1. listed' = listed \/ \E x \in SUBSET TunnelHosts : listed' = [listed EXCEPT ![m] = x]
    <3>1. CASE ReadList(r)
      BY <3>1 DEF ReadList
    <3>2. CASE WriteList(r)
      <4>1. PICK x : x = IF trun[r].op = "publish" THEN trun[r].seen \cup {h} ELSE trun[r].seen \ {h}
        OBVIOUS
      <4>2. x \in SUBSET TunnelHosts /\ listed' = [listed EXCEPT ![m] = x]
        BY <1>1, <1>3, <3>2, <4>1 DEF WriteList
      <4> QED BY <4>2
    <3> QED BY <3>1, <3>2
  <2>2. listed' \in [TunnelMachines -> SUBSET TunnelHosts]
    BY <1>3, <1>4, <2>1
  <2> QED BY <1>2, <2>2 DEF TunnelTypes, TunnelsTypeOK
<1>6. {FALSE, TRUE} \subseteq BOOLEAN /\ {"write", "install"} \subseteq RunSteps
  BY DEF RunSteps
<1>7. CASE RunEnds(r, FALSE) \/ RunEnds(r, TRUE)
  BY <1>2, <1>5, <1>6, <1>7, RunStopsTypes
<1>8. CASE WriteList(r) /\ RunGoes(r, "install")
  <2>1. trun[r].op = "publish"
    <3>1. trun'[r].step = "install"
      BY <1>8 DEF TunnelTypes, RunGoes, RunRecords
    <3>2. CASE RunEnds(r, TRUE)
      BY <3>1, <3>2 DEF TunnelTypes, RunEnds, RunRecords
    <3> QED BY <1>8, <3>2 DEF WriteList
  <2> QED BY <1>2, <1>5, <1>6, <1>8, <2>1, RunGoesTypes DEF WriteList
<1>9. CASE trun[r].step = "list" /\ trun' = [trun EXCEPT ![r].step = "write", ![r].seen = listed[trun[r].machine]]
  <2>1. TakesSeen(r, "write", listed[m]) /\ listed[m] \in SUBSET TunnelHosts
    BY <1>1, <1>3, <1>4, <1>9 DEF TakesSeen
  <2>2. PICK k \in RunRecords :
          /\ trun' = [trun EXCEPT ![r] = k] /\ k.step = "write" /\ k.seen = listed[m]
          /\ k.op = trun[r].op /\ k.machine = trun[r].machine /\ k.host = trun[r].host
          /\ k.fresh = trun[r].fresh /\ k.up = trun[r].up /\ k.id = trun[r].id
    BY <1>6, <2>1, RunTakesSeen DEF TunnelTypes
  <2>3. RunFits(k) /\ k.id <= tunnelIds'
    BY <1>2, <1>9, <2>2 DEF TunnelTypes, RunFits, Running, RunAt
  <2> QED BY <1>2, <1>5, <2>2, <2>3, RunStepTypes
<1>10. CASE WriteList(r) /\ ~RunGoes(r, "install")
  BY <1>7, <1>10 DEF WriteList
<1>11. CASE ReadList(r)
  BY <1>7, <1>9, <1>11 DEF ReadList
<1> QED BY <1>8, <1>10, <1>11

\* No hypothesis: commands on one machine overlap, and every fault may occur.
LEMMA TunnelTypesKept ==
  ASSUME TunnelTypes, [TunnelsNext]_tunnelVars
  PROVE  TunnelTypes'
<1>1. CASE UNCHANGED tunnelVars
  BY <1>1 DEF tunnelVars, TunnelTypes, TunnelsTypeOK, RunFits, Running, RunAt
<1>2. ASSUME NEW h \in TunnelHosts, HoldEnds(h)
      PROVE  TunnelTypes'
  BY <1>2 DEF HoldEnds, TunnelTypes, TunnelsTypeOK, RunFits, Running, RunAt
<1>3. ASSUME NEW r \in TunnelRuns, TunnelRunBegin(r)
      PROVE  TunnelTypes'
  BY <1>3, RunBeginTypes
<1>4. ASSUME NEW r \in TunnelRuns, TunnelPreflight(r) \/ LookupTunnel(r) \/ TailnetPreflight(r)
      PROVE  TunnelTypes'
  BY <1>4, RunAsksTypes
<1>5. ASSUME NEW r \in TunnelRuns, ClaimTunnel(r)
      PROVE  TunnelTypes'
  BY <1>5, ClaimTypes
<1>6. ASSUME NEW r \in TunnelRuns, UndoClaim(r) \/ ReleaseTunnel(r)
      PROVE  TunnelTypes'
  BY <1>6, UndoTypes
<1>7. ASSUME NEW r \in TunnelRuns, CreateTunnel(r)
      PROVE  TunnelTypes'
  BY <1>7, CreateTypes
<1>8. ASSUME NEW r \in TunnelRuns,
             PointTunnel(r) \/ DeleteCname(r) \/ DeleteTunnel(r) \/ SetARecord(r) \/ DropARecord(r)
      PROVE  TunnelTypes'
  BY <1>8, ProviderTypes
<1>9. ASSUME NEW r \in TunnelRuns, InstallTunnel(r) \/ UninstallTunnel(r) \/ SetSite(r) \/ DropSite(r)
      PROVE  TunnelTypes'
  BY <1>9, MachineTypes
<1>10. ASSUME NEW r \in TunnelRuns, ReadList(r) \/ WriteList(r)
       PROVE  TunnelTypes'
  BY <1>10, ListTypes
<1> QED BY <1>1, <1>2, <1>3, <1>4, <1>5, <1>6, <1>7, <1>8, <1>9, <1>10 DEF TunnelsNext

-----------------------------------------------------------------------------
(* Projects and trust entries: the types, however requests overlap         *)

AccessTypes == AccessTypeOK /\ recorded \in Devices

LEMMA AccessTypesInitially == AccessInit => AccessTypes
<1> SUFFICES ASSUME AccessInit PROVE AccessTypes
  OBVIOUS
<1>1. {Untrusted, [name |-> OwnName, projects |-> {}], [name |-> "other", projects |-> {Foreign}],
       [name |-> OwnName, projects |-> {HomeProj}]} \subseteq Entries
  BY AccessAssumption DEF Entries, CertNames, OwnName
<1>2. Rest \in AccessJobs
  BY DEF AccessJobs
<1>3. entries \in [Devices -> Entries] /\ recorded \in Devices
  BY <1>1 DEF AccessInit
<1> QED BY <1>2, <1>3, AccessAssumption DEF AccessInit, AccessTypes, AccessTypeOK

\* A request goes on: its record is one of its kind.
LEMMA JobsStay ==
  ASSUME AccessTypes, NEW q \in AccessRequests, NEW k \in AccessJobs, access' = [access EXCEPT ![q] = k]
  PROVE  access' \in [AccessRequests -> AccessJobs]
BY DEF AccessTypes, AccessTypeOK

LEMMA JobsLeave ==
  ASSUME AccessTypes, NEW q \in AccessRequests, Leave(q)
  PROVE  access' \in [AccessRequests -> AccessJobs]
<1>1. Rest \in AccessJobs
  BY DEF AccessJobs
<1> QED BY <1>1, JobsStay DEF Leave

LEMMA JobsGo ==
  ASSUME AccessTypes, NEW q \in AccessRequests, NEW pc, Go(q, pc),
         \/ access[q] \in CreateJobs /\ pc \in {"ensure", "scaffold", "caller", "fleetlist", "fleet", "byname"}
         \/ access[q] \in DeleteJobs /\ pc \in {"machines", "check", "instances", "project"}
  PROVE  access' \in [AccessRequests -> AccessJobs]
<1>1. PICK j, k : j = access[q] /\ k = [j EXCEPT !.pc = pc]
  OBVIOUS
<1>2. access' = [access EXCEPT ![q] = k]
  BY <1>1 DEF Go
<1>3. CASE j \in CreateJobs
  <2>1. pc \in {"ensure", "scaffold", "caller", "fleetlist", "fleet", "byname"}
    BY <1>1, <1>3 DEF CreateJobs, DeleteJobs
  <2>2. k \in CreateJobs
    BY <1>1, <1>3, <2>1 DEF CreateJobs
  <2> QED BY <1>2, <2>2, JobsStay, JobsApart
<1>4. CASE j \in DeleteJobs
  <2>1. pc \in {"machines", "check", "instances", "project"}
    BY <1>1, <1>4 DEF CreateJobs, DeleteJobs
  <2>2. k \in DeleteJobs
    BY <1>1, <1>4, <2>1 DEF DeleteJobs
  <2> QED BY <1>2, <2>2, JobsStay, JobsApart
<1> QED BY <1>1, <1>3, <1>4

\* An extended entry is an entry.
LEMMA ExtendTypes ==
  ASSUME AccessTypes, NEW d \in Devices, NEW e \in Entries, NEW added \in SUBSET Projs, Extend(d, e, added)
  PROVE  entries' \in [Devices -> Entries]
<1>1. entries \in [Devices -> Entries]
  BY DEF AccessTypes, AccessTypeOK
<1>2. entries[d] \in Entries /\ entries[d] # Untrusted
  BY <1>1 DEF Extend, Writable
<1>3. entries' = [entries EXCEPT ![d] = [@ EXCEPT !.projects = e.projects \cup added]]
  BY DEF Extend, MergeProjects
<1>4. e.projects \cup added \in SUBSET (Projs \cup {Foreign})
  BY EntryParts
<1>5. [entries[d] EXCEPT !.projects = e.projects \cup added] \in Entries
  BY <1>2, <1>4, EntryParts
<1> QED BY <1>1, <1>3, <1>5

LEMMA CreateTypesKept ==
  ASSUME AccessTypes, NEW q \in AccessRequests,
         \/ \E p \in Projs, op \in {"create", "broker"} : BeginCreate(q, p, op)
         \/ EnsureProject(q) \/ Scaffold(q) \/ ExtendCaller(q) \/ ListFleet(q)
         \/ ExtendNext(q) \/ CreateEnds(q) \/ CreateFails(q)
  PROVE  AccessTypes'
<1>1. /\ access \in [AccessRequests -> AccessJobs] /\ access[q] \in AccessJobs
      /\ entries \in [Devices -> Entries] /\ recorded \in Devices
  BY DEF AccessTypes, AccessTypeOK
<1>2. CASE \E p \in Projs, op \in {"create", "broker"} : BeginCreate(q, p, op)
  <2>1. PICK p \in Projs, op \in {"create", "broker"} : BeginCreate(q, p, op)
    BY <1>2
  <2>2. [pc |-> "ensure", op |-> op, proj |-> p, seen |-> entries, left |-> {}] \in CreateJobs
    BY <1>1 DEF CreateJobs
  <2>3. access' \in [AccessRequests -> AccessJobs]
    BY <2>1, <2>2, JobsStay, JobsApart DEF BeginCreate
  <2> QED BY <2>1, <2>3 DEF BeginCreate, world, AccessTypes, AccessTypeOK
<1>3. CASE EnsureProject(q)
  <2>1. access[q] \in CreateJobs /\ access[q].proj \in Projs
    BY <1>1, <1>3, JobsApart DEF EnsureProject, At, CreateJobs
  <2>2. access' \in [AccessRequests -> AccessJobs]
    BY <1>3, <2>1, JobsGo DEF EnsureProject
  <2> QED BY <1>3, <2>1, <2>2 DEF EnsureProject, AccessTypes, AccessTypeOK
<1>4. CASE Scaffold(q)
  <2>1. access[q] \in CreateJobs
    BY <1>1, <1>4, JobsApart DEF Scaffold, At
  <2>2. PICK c, l : /\ c = IF recorded # NoDevice /\ entries[recorded] # Untrusted THEN "caller" ELSE "byname"
                    /\ l = {d \in Devices : entries[d].name = OwnName /\ entries[d].projects # {}}
    OBVIOUS
  <2>3. c \in {"caller", "byname"} /\ l \in SUBSET Devices
    BY <2>2
  <2>4. PICK k : k = [access[q] EXCEPT !.seen = entries, !.pc = c, !.left = l]
    OBVIOUS
  <2>5. k \in CreateJobs
    BY <1>1, <2>1, <2>3, <2>4 DEF CreateJobs
  <2>6. access' = [access EXCEPT ![q] = k]
    BY <1>4, <2>2, <2>4 DEF Scaffold
  <2>7. access' \in [AccessRequests -> AccessJobs]
    BY <2>5, <2>6, JobsStay, JobsApart
  <2> QED BY <1>4, <2>7 DEF Scaffold, world, AccessTypes, AccessTypeOK
<1>5. CASE ExtendCaller(q)
  <2>1. access[q] \in CreateJobs /\ access[q].proj \in Projs /\ access[q].seen[recorded] \in Entries
    BY <1>1, <1>5, JobsApart DEF ExtendCaller, At, CreateJobs
  <2>2. entries' \in [Devices -> Entries]
    BY <1>1, <1>5, <2>1, ExtendTypes DEF ExtendCaller
  <2>3. access' \in [AccessRequests -> AccessJobs]
    BY <1>5, <2>1, JobsGo DEF ExtendCaller
  <2> QED BY <1>5, <2>2, <2>3 DEF ExtendCaller, AccessTypes, AccessTypeOK
<1>6. CASE ListFleet(q)
  <2>1. access[q] \in CreateJobs
    BY <1>1, <1>6, JobsApart DEF ListFleet, At
  <2>2. PICK l : l = {d \in Devices : InFleet(entries[d])}
    OBVIOUS
  <2>3. l \in SUBSET Devices
    BY <2>2
  <2>4. PICK k : k = [access[q] EXCEPT !.pc = "fleet", !.seen = entries, !.left = l]
    OBVIOUS
  <2>5. k \in CreateJobs
    BY <1>1, <2>1, <2>3, <2>4 DEF CreateJobs
  <2>6. access' = [access EXCEPT ![q] = k]
    BY <1>6, <2>2, <2>4 DEF ListFleet
  <2>7. access' \in [AccessRequests -> AccessJobs]
    BY <2>5, <2>6, JobsStay, JobsApart
  <2> QED BY <1>6, <2>7 DEF ListFleet, world, AccessTypes, AccessTypeOK
<1>7. CASE ExtendNext(q)
  <2>1. access[q] \in CreateJobs /\ access[q].proj \in Projs /\ access[q].left \subseteq Devices
        /\ access[q].seen \in [Devices -> Entries]
    BY <1>1, <1>7, JobsApart DEF ExtendNext, CreateJobs
  <2>2. PICK d \in access[q].left : /\ Extend(d, access[q].seen[d], {access[q].proj})
                                    /\ access' = [access EXCEPT ![q].left = @ \ {d}]
    BY <1>7 DEF ExtendNext
  <2>3. entries' \in [Devices -> Entries]
    BY <2>1, <2>2, ExtendTypes
  <2>4. PICK k : k = [access[q] EXCEPT !.left = @ \ {d}]
    OBVIOUS
  <2>5. k \in CreateJobs
    BY <2>1, <2>4 DEF CreateJobs
  <2>6. access' \in [AccessRequests -> AccessJobs]
    BY <2>2, <2>4, <2>5, JobsStay, JobsApart
  <2> QED BY <1>7, <2>3, <2>6 DEF ExtendNext, AccessTypes, AccessTypeOK
<1>8. CASE CreateEnds(q)
  <2>1. access[q].proj \in Projs
    BY <1>1, <1>8, JobsApart DEF CreateEnds, CreateJobs
  <2>2. access' \in [AccessRequests -> AccessJobs]
    BY <1>8, JobsLeave DEF CreateEnds
  <2> QED BY <1>8, <2>1, <2>2 DEF CreateEnds, AccessTypes, AccessTypeOK
<1>9. CASE CreateFails(q)
  <2>1. access' \in [AccessRequests -> AccessJobs]
    BY <1>9, JobsLeave DEF CreateFails
  <2> QED BY <1>9, <2>1 DEF CreateFails, world, AccessTypes, AccessTypeOK
<1> QED BY <1>2, <1>3, <1>4, <1>5, <1>6, <1>7, <1>8, <1>9

LEMMA LoginTypesKept ==
  ASSUME AccessTypes, NEW q \in AccessRequests,
         (\E d \in Devices : BeginLogin(q, d)) \/ LoginLists(q) \/ LoginEnds(q) \/ LoginFails(q)
  PROVE  AccessTypes'
<1>1. /\ access \in [AccessRequests -> AccessJobs] /\ access[q] \in AccessJobs
      /\ entries \in [Devices -> Entries] /\ recorded \in Devices /\ existing \subseteq Projs
  BY DEF AccessTypes, AccessTypeOK
<1>2. CASE \E d \in Devices : BeginLogin(q, d)
  <2>1. PICK d \in Devices : BeginLogin(q, d)
    BY <1>2
  <2>2. [pc |-> "entry", op |-> "login", device |-> d, scope |-> RestrictedProjects(existing), seen |-> entries] \in LoginJobs
    BY <1>1 DEF LoginJobs, RestrictedProjects
  <2>3. access' \in [AccessRequests -> AccessJobs]
    BY <2>1, <2>2, JobsStay, JobsApart DEF BeginLogin
  <2> QED BY <2>1, <2>3 DEF BeginLogin, world, AccessTypes, AccessTypeOK
<1>3. CASE LoginLists(q)
  <2>1. access[q] \in LoginJobs
    BY <1>1, <1>3, JobsApart DEF LoginLists, At
  <2>2. PICK c : c = IF entries[access[q].device] = Untrusted THEN "token" ELSE "write"
    OBVIOUS
  <2>3. c \in {"token", "write"}
    BY <2>2
  <2>4. PICK k : k = [access[q] EXCEPT !.seen = entries, !.pc = c]
    OBVIOUS
  <2>5. k \in LoginJobs
    BY <1>1, <2>1, <2>3, <2>4 DEF LoginJobs
  <2>6. access' = [access EXCEPT ![q] = k]
    BY <1>3, <2>2, <2>4 DEF LoginLists
  <2>7. access' \in [AccessRequests -> AccessJobs]
    BY <2>5, <2>6, JobsStay, JobsApart
  <2> QED BY <1>3, <2>7 DEF LoginLists, world, AccessTypes, AccessTypeOK
<1>4. CASE LoginEnds(q)
  <2>1. PICK d, s : d = access[q].device /\ s = access[q].scope
    OBVIOUS
  <2>2. d \in Devices /\ s \subseteq Projs /\ access[q].seen[d] \in Entries
    BY <1>1, <1>4, <2>1, JobsApart DEF LoginEnds, LoginJobs
  <2>3. entries' \in [Devices -> Entries]
    <3>1. CASE Extend(d, access[q].seen[d], s)
      BY <2>2, <3>1, ExtendTypes
    <3>2. CASE entries' = [entries EXCEPT ![d] = IF @ = Untrusted THEN [name |-> OwnName, projects |-> s] ELSE @]
      <4>1. [name |-> OwnName, projects |-> s] \in Entries
        BY <2>2 DEF Entries, CertNames, OwnName
      <4> QED BY <1>1, <2>2, <3>2, <4>1
    <3> QED BY <1>4, <2>1, <3>1, <3>2 DEF LoginEnds
  <2>4. access' \in [AccessRequests -> AccessJobs]
    BY <1>4, JobsLeave DEF LoginEnds
  <2>5. recorded' \in Devices
    BY <1>4, <2>1, <2>2 DEF LoginEnds
  <2> QED BY <1>4, <2>3, <2>4, <2>5 DEF LoginEnds, AccessTypes, AccessTypeOK
<1>5. CASE LoginFails(q)
  <2>1. access' \in [AccessRequests -> AccessJobs]
    BY <1>5, JobsLeave DEF LoginFails
  <2> QED BY <1>5, <2>1 DEF LoginFails, world, AccessTypes, AccessTypeOK
<1> QED BY <1>2, <1>3, <1>4, <1>5

LEMMA DeleteTypesKept ==
  ASSUME AccessTypes, NEW q \in AccessRequests,
         \/ \E p \in Projs, op \in {"delete", "rm"} : BeginDelete(q, p, op)
         \/ RemoveMachines(q) \/ CheckDelete(q) \/ DeleteInstances(q) \/ DeleteProject(q)
  PROVE  AccessTypes'
<1>1. /\ access \in [AccessRequests -> AccessJobs] /\ access[q] \in AccessJobs
      /\ entries \in [Devices -> Entries] /\ contents \in [Projs -> {"none", "some"}]
  BY DEF AccessTypes, AccessTypeOK
<1>2. CASE \E p \in Projs, op \in {"delete", "rm"} : BeginDelete(q, p, op)
  <2>1. PICK p \in Projs, op \in {"delete", "rm"} : BeginDelete(q, p, op)
    BY <1>2
  <2>2. [pc |-> IF op = "rm" THEN "machines" ELSE "check", op |-> op, proj |-> p] \in DeleteJobs
    BY DEF DeleteJobs
  <2>3. access' \in [AccessRequests -> AccessJobs]
    BY <2>1, <2>2, JobsStay, JobsApart DEF BeginDelete
  <2> QED BY <2>1, <2>3 DEF BeginDelete, world, AccessTypes, AccessTypeOK
<1>3. CASE RemoveMachines(q) \/ CheckDelete(q) \/ DeleteInstances(q)
  <2>1. access[q] \in DeleteJobs
    BY <1>1, <1>3, JobsApart DEF RemoveMachines, CheckDelete, DeleteInstances, At
  <2>2. access' \in [AccessRequests -> AccessJobs]
    BY <1>3, <2>1, JobsGo, JobsLeave DEF RemoveMachines, CheckDelete, DeleteInstances
  <2>3. contents' \in [Projs -> {"none", "some"}]
    BY <1>1, <1>3 DEF RemoveMachines, CheckDelete, DeleteInstances, world
  <2> QED BY <1>3, <2>2, <2>3 DEF RemoveMachines, CheckDelete, DeleteInstances, world, AccessTypes, AccessTypeOK
<1>4. CASE DeleteProject(q)
  <2>1. access' \in [AccessRequests -> AccessJobs]
    BY <1>4, JobsLeave DEF DeleteProject
  <2>2. PICK p : p = access[q].proj
    OBVIOUS
  <2>3. entries' \in [Devices -> Entries]
    <3>1. ASSUME NEW d \in Devices PROVE [entries[d] EXCEPT !.projects = @ \ {p}] \in Entries
      <4>1. PICK e \in Entries : e = entries[d]
        BY <1>1
      <4>2. e.projects \ {p} \in SUBSET (Projs \cup {Foreign}) /\ (e = Untrusted => e.projects \ {p} = {})
        BY EntryParts
      <4>3. [e EXCEPT !.projects = e.projects \ {p}] \in Entries
        <5>1. CASE e = Untrusted
          BY <4>2, <5>1, EntryParts DEF Untrusted
        <5>2. CASE e # Untrusted
          BY <4>2, <5>2, EntryParts
        <5> QED BY <5>1, <5>2
      <4> QED BY <4>1, <4>3
    <3>2. entries' = entries \/ entries' = [d \in Devices |-> [entries[d] EXCEPT !.projects = @ \ {p}]]
      BY <1>4, <2>2 DEF DeleteProject
    <3> QED BY <1>1, <3>1, <3>2
  <2>4. existing' \subseteq existing /\ announced' \subseteq announced
    BY <1>4 DEF DeleteProject
  <2> QED BY <1>4, <2>1, <2>3, <2>4 DEF DeleteProject, AccessTypes, AccessTypeOK
<1> QED BY <1>2, <1>3, <1>4

\* No hypothesis: requests overlap, machines appear at any time, every fault may occur.
LEMMA AccessTypesKept ==
  ASSUME AccessTypes, [AccessNext]_accessVars
  PROVE  AccessTypes'
<1>1. CASE UNCHANGED accessVars
  BY <1>1 DEF accessVars, AccessTypes, AccessTypeOK
<1>2. ASSUME NEW q \in AccessRequests,
             \/ \E p \in Projs, op \in {"create", "broker"} : BeginCreate(q, p, op)
             \/ EnsureProject(q) \/ Scaffold(q) \/ ExtendCaller(q) \/ ListFleet(q)
             \/ ExtendNext(q) \/ CreateEnds(q) \/ CreateFails(q)
      PROVE  AccessTypes'
  BY <1>2, CreateTypesKept
<1>3. ASSUME NEW q \in AccessRequests,
             (\E d \in Devices : BeginLogin(q, d)) \/ LoginLists(q) \/ LoginEnds(q) \/ LoginFails(q)
      PROVE  AccessTypes'
  BY <1>3, LoginTypesKept
<1>4. ASSUME NEW q \in AccessRequests,
             \/ \E p \in Projs, op \in {"delete", "rm"} : BeginDelete(q, p, op)
             \/ RemoveMachines(q) \/ CheckDelete(q) \/ DeleteInstances(q) \/ DeleteProject(q)
      PROVE  AccessTypes'
  BY <1>4, DeleteTypesKept
<1>5. CASE RemoveUser
  <2>1. entries' \in [Devices -> Entries]
    BY <1>5, EntryParts DEF RemoveUser, AccessTypes, AccessTypeOK, Entries
  <2> QED BY <1>5, <2>1 DEF RemoveUser, AccessTypes, AccessTypeOK
<1>6. ASSUME NEW p \in Projs, FillProject(p)
      PROVE  AccessTypes'
  BY <1>6 DEF FillProject, AccessTypes, AccessTypeOK
<1> QED BY <1>1, <1>2, <1>3, <1>4, <1>5, <1>6 DEF AccessNext

-----------------------------------------------------------------------------
(* The components side by side                                             *)

\* Every variable of every component stays in its domain, and a tenant mounts
\* what was offered to it, in every behaviour of the suite: no hypothesis, any
\* requests, commands and builds overlap and every fault may occur.
TenantsInv ==
  /\ MemberTypes /\ AccountsInv /\ SharesInv /\ TokensInv
  /\ TunnelTypes /\ AccessTypes /\ SidecarTypeOK

LEMMA TenantsInvInitially == TenantsInit => TenantsInv
BY MemberTypesInitially, AccountsInitInv, SharesInitInv, TokensInitInv, TunnelTypesInitially,
   AccessTypesInitially, SidecarTypesInitially
   DEF TenantsInit, TenantsInv

\* A step is of one component and leaves the others, or of none.
LEMMA StepOfOne ==
  ASSUME [TenantsNext]_TenantsVars
  PROVE  /\ [MembersNext]_memberVars /\ [AccountsNext]_accountVars /\ [SharesNext]_shareVars
         /\ [TokensNext]_tokenVars /\ [TunnelsNext]_tunnelVars /\ [AccessNext]_accessVars
         /\ [SidecarNext]_sidecarVars
<1>1. CASE UNCHANGED TenantsVars
  BY <1>1 DEF TenantsVars
<1>2. CASE OnMembers(MembersStep)
  BY <1>2 DEF OnMembers, MembersStep
<1>3. CASE OnAccounts(AccountsStep)
  BY <1>3 DEF OnAccounts, AccountsStep
<1>4. CASE OnShares(SharesStep)
  BY <1>4 DEF OnShares, SharesStep
<1>5. CASE OnTokens(TokensStep)
  BY <1>5 DEF OnTokens, TokensStep
<1>6. CASE OnTunnels(TunnelsStep)
  BY <1>6 DEF OnTunnels, TunnelsStep
<1>7. CASE OnAccess(AccessStep)
  BY <1>7 DEF OnAccess, AccessStep
<1>8. CASE OnSidecar(SidecarStep)
  BY <1>8 DEF OnSidecar, SidecarStep
<1> QED BY <1>1, <1>2, <1>3, <1>4, <1>5, <1>6, <1>7, <1>8 DEF TenantsNext

LEMMA TenantsInvKept == TenantsInv /\ [TenantsNext]_TenantsVars => TenantsInv'
<1> SUFFICES ASSUME TenantsInv, [TenantsNext]_TenantsVars PROVE TenantsInv'
  OBVIOUS
<1>1. MemberTypes'
  BY StepOfOne, MemberTypesKept DEF TenantsInv
<1>2. AccountsInv'
  BY StepOfOne, AccountsStepInv DEF TenantsInv
<1>3. SharesInv'
  BY StepOfOne, SharesStepInv DEF TenantsInv
<1>4. TokensInv'
  BY StepOfOne, TokensNextInv DEF TenantsInv
<1>5. TunnelTypes'
  BY StepOfOne, TunnelTypesKept DEF TenantsInv
<1>6. AccessTypes'
  BY StepOfOne, AccessTypesKept DEF TenantsInv
<1>7. SidecarTypeOK'
  BY StepOfOne, SidecarTypesKept DEF TenantsInv
<1> QED BY <1>1, <1>2, <1>3, <1>4, <1>5, <1>6, <1>7 DEF TenantsInv

\* Members, accounts, shares, keys, publications, accesses and builds stay in
\* their domains and a reconcile mounts what was offered, however requests
\* overlap and fail: what a step writes, an earlier one read or was asked for.
THEOREM TenantsStaySafe == TenantsSpec => []TenantsSafe
<1>1. TenantsInv => TenantsSafe
  BY SharesInvHolds
  DEF TenantsInv, MemberTypes, AccountsInv, TokensInv, TunnelTypes, AccessTypes, TenantsSafe, TenantsTypeOK
<1> QED BY <1>1, TenantsInvInitially, TenantsInvKept, PTL DEF TenantsSpec
=============================================================================
