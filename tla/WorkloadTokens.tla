--------------------------- MODULE WorkloadTokens ---------------------------
(***************************************************************************)
(* The OIDC provider and workload identity of one tenant: secrets.go,      *)
(* oidc.go, workload.go, workload_api.go and cloud_identity.go.            *)
(*                                                                         *)
(* Nothing is created at installation: the first request that needs the    *)
(* encryption key or the signing key makes it, so two first requests race. *)
(* A machine's runtime secret is stored as a verifier and replaced at each *)
(* enable; a token is minted against the verifier, then against the        *)
(* machine listing, then with the newest active signing key.               *)
(***************************************************************************)
EXTENDS Naturals, FiniteSets

CONSTANTS
    TokenRequests,   \* concurrent requests
    TokenMachines,   \* machines of the tenant
    FreshKeys,       \* random values for encryption and signing keys
    MaxEnables,      \* bound on enables, which number the secrets
    CloudConfigs,    \* names of cloud identity configs
    NoKey

ASSUME TokensAssumption == NoKey \notin FreshKeys /\ MaxEnables \in Nat

VARIABLES
    encKey,     \* value of the encryption key in auth_app_meta
    signing,    \* signing key rows: kid -> [enc, at], at their insertion order
    machines,   \* machines the listing returns
    verifier,   \* machine_runtime_secrets: machine -> secret, 0 when none
    holds,      \* machine -> the last secret written into it, 0 when none
    enables,    \* secrets issued so far
    configs,    \* live cloud identity configs
    tokens,     \* kids of the tokens minted
    treq        \* the requests

tokenVars == <<encKey, signing, machines, verifier, holds, enables, configs, tokens, treq>>

NoRequest == [op |-> "none", step |-> "idle", machine |-> NoKey, mine |-> NoKey,
              key |-> NoKey, secret |-> 0]

SigningRow == [enc : FreshKeys, at : Nat]

TokensTypeOK ==
    /\ encKey \in FreshKeys \cup {NoKey}
    /\ DOMAIN signing \subseteq FreshKeys
    /\ \A k \in DOMAIN signing : signing[k] \in SigningRow
    /\ machines \subseteq TokenMachines
    /\ verifier \in [TokenMachines -> 0..MaxEnables]
    /\ holds \in [TokenMachines -> 0..MaxEnables]
    /\ enables \in 0..MaxEnables
    /\ configs \subseteq CloudConfigs
    /\ tokens \subseteq FreshKeys
    /\ treq \in [TokenRequests ->
          [op : {"none", "enable", "mint", "jwks"},
           step : {"idle", "check", "active", "encread", "encstore", "insert",
                   "store", "deliver", "sign", "ok", "refused", "undecryptable"},
           machine : TokenMachines \cup {NoKey}, mine : FreshKeys \cup {NoKey},
           key : FreshKeys \cup {NoKey}, secret : 0..MaxEnables]]

TokensInit ==
    /\ encKey = NoKey /\ signing = << >>
    /\ machines = {}
    /\ verifier = [m \in TokenMachines |-> 0] /\ holds = [m \in TokenMachines |-> 0]
    /\ enables = 0 /\ configs = {} /\ tokens = {}
    /\ treq = [r \in TokenRequests |-> NoRequest]

Resting == {"idle", "ok", "refused", "undecryptable"}

(* Random values are never drawn twice.                                    *)
Drawn == {treq[r].mine : r \in TokenRequests} \cup {treq[r].key : r \in TokenRequests}
           \cup DOMAIN signing \cup {encKey} \cup {signing[k].enc : k \in DOMAIN signing}

(* activeOIDCSigningKey: the active row created last.                      *)
Newest == CHOOSE k \in DOMAIN signing : \A j \in DOMAIN signing : signing[j].at <= signing[k].at

TokenGoes(r, step) == treq' = [treq EXCEPT ![r].step = step]

MachineComesAndGoes(m) ==
    /\ machines' = IF m \in machines THEN machines \ {m} ELSE machines \cup {m}
    /\ holds' = [holds EXCEPT ![m] = 0]
    /\ UNCHANGED <<encKey, signing, verifier, enables, configs, tokens, treq>>

(* UpsertCloudIdentityConfig revives a deleted row, DeleteCloudIdentity-   *)
(* Config marks it deleted.                                                *)
CloudConfigChange(n) ==
    /\ configs' = IF n \in configs THEN configs \ {n} ELSE configs \cup {n}
    /\ UNCHANGED <<encKey, signing, machines, verifier, holds, enables, tokens, treq>>

(* enableWorkloadForUser: the user may act on the tenant, the machine is   *)
(* listed and the config it names is live; mintWorkloadToken presents the  *)
(* secret the machine holds; oidcJWKSForTenant just needs the keys.        *)
TokenBegin(r) ==
    /\ treq[r].step \in Resting
    /\ UNCHANGED <<encKey, signing, machines, verifier, holds, enables, configs, tokens>>
    /\ \/ \E m \in TokenMachines, c \in CloudConfigs \cup {NoKey} :
             /\ enables < MaxEnables
             /\ treq' = [treq EXCEPT ![r] =
                          [NoRequest EXCEPT !.op = "enable", !.machine = m,
                             !.step = IF m \in machines /\ c \in configs \cup {NoKey}
                                      THEN "active" ELSE "refused"]]
       \/ \E m \in TokenMachines :
             /\ m \in machines /\ holds[m] # 0
             /\ treq' = [treq EXCEPT ![r] =
                          [NoRequest EXCEPT !.op = "mint", !.machine = m, !.secret = holds[m],
                             !.step = IF verifier[m] = holds[m] THEN "check" ELSE "refused"]]
       \/ treq' = [treq EXCEPT ![r] = [NoRequest EXCEPT !.op = "jwks", !.step = "active"]]

(* findEnabledMachine, after the verifier matched.                         *)
MintCheck(r) ==
    /\ treq[r].step = "check"
    /\ TokenGoes(r, IF treq[r].machine \in machines THEN "active" ELSE "refused")
    /\ UNCHANGED <<encKey, signing, machines, verifier, holds, enables, configs, tokens>>

AfterKey(r) == CASE treq[r].op = "enable" -> "store" [] treq[r].op = "mint" -> "sign"
                 [] treq[r].op = "jwks" -> "ok"

(* EnsureOIDCSigningKey: use the active row, or make one.                  *)
EnsureActive(r) ==
    /\ treq[r].step = "active"
    /\ treq' = [treq EXCEPT ![r].step = IF signing = << >> THEN "encread" ELSE AfterKey(r),
                            ![r].key = IF signing = << >> THEN NoKey ELSE Newest]
    /\ UNCHANGED <<encKey, signing, machines, verifier, holds, enables, configs, tokens>>

(* secretEncryptionKey: select the key; none, draw one ...                 *)
EncRead(r) ==
    /\ treq[r].step = "encread"
    /\ \/ /\ encKey # NoKey
          /\ treq' = [treq EXCEPT ![r].step = "insert", ![r].mine = encKey]
       \/ /\ encKey = NoKey
          /\ \E k \in FreshKeys \ Drawn :
                treq' = [treq EXCEPT ![r].step = "encstore", ![r].mine = k]
    /\ UNCHANGED <<encKey, signing, machines, verifier, holds, enables, configs, tokens>>

\* Mutant: the value just drawn is used, whatever the row holds.
EncStoreOwn(r) ==
    /\ treq[r].step = "encstore"
    /\ encKey' = IF encKey = NoKey THEN treq[r].mine ELSE encKey
    /\ TokenGoes(r, "insert")
    /\ UNCHANGED <<signing, machines, verifier, holds, enables, configs, tokens>>

(* ... insert it unless another is there, and select again.                *)
EncStore(r) ==
    /\ treq[r].step = "encstore"
    /\ encKey' = IF encKey = NoKey THEN treq[r].mine ELSE encKey
    /\ TokenGoes(r, "encread")
    /\ UNCHANGED <<signing, machines, verifier, holds, enables, configs, tokens>>

(* The private key, encrypted, becomes one more active row; the request    *)
(* then uses the newest active row.                                        *)
SigningInsert(r) ==
    /\ treq[r].step = "insert"
    /\ \E k \in FreshKeys \ Drawn :
          /\ signing' = [j \in DOMAIN signing \cup {k} |->
                           IF j = k THEN [enc |-> treq[r].mine, at |-> Cardinality(DOMAIN signing)]
                           ELSE signing[j]]
          /\ treq' = [treq EXCEPT ![r].step = "active", ![r].mine = NoKey]
    /\ UNCHANGED <<encKey, machines, verifier, holds, enables, configs, tokens>>

(* EnableMachineWorkloadIdentity: a new secret replaces the old verifier.  *)
EnableStore(r) ==
    /\ treq[r].step = "store"
    /\ enables < MaxEnables
    /\ enables' = enables + 1
    /\ verifier' = [verifier EXCEPT ![treq[r].machine] = enables + 1]
    /\ treq' = [treq EXCEPT ![r].step = "deliver", ![r].secret = enables + 1]
    /\ UNCHANGED <<encKey, signing, machines, holds, configs, tokens>>

(* The client writes the secret it was answered into the machine.          *)
SecretDelivered(r) ==
    /\ treq[r].step = "deliver"
    /\ holds' = [holds EXCEPT ![treq[r].machine] =
                   IF treq[r].machine \notin machines THEN 0 ELSE treq[r].secret]
    /\ TokenGoes(r, "ok")
    /\ UNCHANGED <<encKey, signing, machines, verifier, enables, configs, tokens>>

(* activeOIDCPrivateKey decrypts the row with the stored encryption key,   *)
(* signJWT puts its kid in the token.                                      *)
MintSign(r) ==
    /\ treq[r].step = "sign"
    /\ \/ /\ signing[treq[r].key].enc = encKey
          /\ tokens' = tokens \cup {treq[r].key}
          /\ TokenGoes(r, "ok")
       \/ /\ signing[treq[r].key].enc # encKey
          /\ TokenGoes(r, "undecryptable")
          /\ UNCHANGED tokens
    /\ UNCHANGED <<encKey, signing, machines, verifier, holds, enables, configs>>

TokensNext ==
    \/ \E m \in TokenMachines : MachineComesAndGoes(m)
    \/ \E n \in CloudConfigs : CloudConfigChange(n)
    \/ \E r \in TokenRequests :
          \/ TokenBegin(r) \/ MintCheck(r) \/ EnsureActive(r) \/ EncRead(r)
          \/ EncStore(r) \/ SigningInsert(r) \/ EnableStore(r) \/ SecretDelivered(r) \/ MintSign(r)

TokensSpec == TokensInit /\ [][TokensNext]_tokenVars

-----------------------------------------------------------------------------
(* "two racing first users converge on one key" (secrets.go): every        *)
(* signing key can be decrypted with the key that is stored, so no mint is *)
(* ever refused for want of it.                                            *)
FirstUsersConverge ==
    /\ \A k \in DOMAIN signing : signing[k].enc = encKey
    /\ \A r \in TokenRequests : treq[r].step # "undecryptable"
=============================================================================
