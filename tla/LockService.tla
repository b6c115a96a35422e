----------------------------- MODULE LockService -----------------------------
(***************************************************************************)
(* What certmagic asks of a Storage's Lock and Unlock: a client that asked *)
(* for a name either gives up or is granted the name while nobody holds    *)
(* it, and a free name that is asked for is granted.                       *)
(***************************************************************************)
CONSTANTS Clients, LockNames

VARIABLE
  lockClient   \* each client: what it is doing, and with which name

LockPhases == {"asking", "holding"}
LockClientStates == {[st |-> "idle"]} \cup [st : LockPhases, name : LockNames]

Holds(c, n) == lockClient[c] = [st |-> "holding", name |-> n]
Asks(c, n) == lockClient[c] = [st |-> "asking", name |-> n]

LSInit == lockClient = [c \in Clients |-> [st |-> "idle"]]

Become(c, s) == lockClient' = [lockClient EXCEPT ![c] = s]

Ask(c, n) == lockClient[c].st = "idle" /\ Become(c, [st |-> "asking", name |-> n])
Withdraw(c, n) == Asks(c, n) /\ Become(c, [st |-> "idle"])
Grant(c, n) ==
  /\ Asks(c, n) /\ \A d \in Clients : ~Holds(d, n)
  /\ Become(c, [st |-> "holding", name |-> n])
Release(c, n) == Holds(c, n) /\ Become(c, [st |-> "idle"])

LSNext == \E c \in Clients, n \in LockNames :
            Ask(c, n) \/ Withdraw(c, n) \/ Grant(c, n) \/ Release(c, n)

\* A client that holds a name gives it back, and a free name that somebody
\* keeps asking for is granted to somebody.
LSFairness ==
  \A n \in LockNames :
    /\ WF_lockClient(\E c \in Clients : Grant(c, n))
    /\ \A c \in Clients : WF_lockClient(Release(c, n))

LSSafe == LSInit /\ [][LSNext]_lockClient
LSSpec == LSSafe /\ LSFairness
=============================================================================
