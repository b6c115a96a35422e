--------------------------- MODULE AcmeStorageLock ---------------------------
(***************************************************************************)
(* sqliteStorage.Lock and Unlock (internal/authapp/acme_storage.go): a     *)
(* map from a name to the channel of its holder, guarded by a mutex, and   *)
(* waiters parked on the channel they saw.  Unlock deletes the entry and   *)
(* closes the channel, which wakes every waiter to try again.  A channel   *)
(* no client refers to is garbage, and its identity may be used again.     *)
(***************************************************************************)
CONSTANTS Clients, LockNames, Channels, NoChannel

ASSUME LockAssumption == NoChannel \notin Channels

VARIABLES
  locks,        \* s.locks: the channel of each held name
  closed,       \* the closed channels
  locker        \* each client: pc, name and the channel it waits on

lockVars == <<locks, closed, locker>>

LockIdle == [pc |-> "idle"]
LockerStates ==
  {LockIdle} \cup [pc : {"try", "held"}, name : LockNames]
             \cup [pc : {"wait"}, name : LockNames, ch : Channels]

LockInit ==
  /\ locks = [n \in LockNames |-> NoChannel]
  /\ closed = {}
  /\ locker = [c \in Clients |-> LockIdle]

Locker(c, s) == locker' = [locker EXCEPT ![c] = s]
Waiting(c, n, ch) == locker[c] = [pc |-> "wait", name |-> n, ch |-> ch]
ChannelInUse(ch) ==
  \/ \E n \in LockNames : locks[n] = ch
  \/ \E c \in Clients, n \in LockNames : Waiting(c, n, ch)

LockCall(c, n) ==
  /\ locker[c] = LockIdle
  /\ Locker(c, [pc |-> "try", name |-> n])
  /\ UNCHANGED <<locks, closed>>

\* One turn of Lock's loop, under s.mu: take the free name with a new
\* channel, or remember the channel of the one who has it.
LockTry(c, n) ==
  /\ locker[c] = [pc |-> "try", name |-> n]
  /\ \/ /\ locks[n] = NoChannel
        /\ \E ch \in Channels :
             /\ ~ChannelInUse(ch)
             /\ locks' = [locks EXCEPT ![n] = ch]
             /\ closed' = closed \ {ch}
        /\ Locker(c, [pc |-> "held", name |-> n])
     \/ /\ locks[n] # NoChannel
        /\ Locker(c, [pc |-> "wait", name |-> n, ch |-> locks[n]])
        /\ UNCHANGED <<locks, closed>>

\* Mutant: a parked waiter listens to its context only.
LockWakeNever(c, n, ch) ==
  /\ Waiting(c, n, ch) /\ ch \notin Channels
  /\ UNCHANGED lockVars

\* <-released: the channel is closed, go round the loop.
LockWake(c, n, ch) ==
  /\ Waiting(c, n, ch) /\ ch \in closed
  /\ Locker(c, [pc |-> "try", name |-> n])
  /\ UNCHANGED <<locks, closed>>

\* <-ctx.Done(), whether or not the channel is closed as well.
LockCancelled(c, n, ch) ==
  /\ Waiting(c, n, ch)
  /\ Locker(c, LockIdle)
  /\ UNCHANGED <<locks, closed>>

\* Mutant: the entry goes, the waiters are not woken.
UnlockQuietly(c, n) ==
  /\ locker[c] = [pc |-> "held", name |-> n]
  /\ locks' = [locks EXCEPT ![n] = NoChannel]
  /\ Locker(c, LockIdle)
  /\ UNCHANGED closed

\* certmagic unlocks what it locked, so the entry is there.
Unlock(c, n) ==
  /\ locker[c] = [pc |-> "held", name |-> n]
  /\ locks' = [locks EXCEPT ![n] = NoChannel]
  /\ closed' = closed \cup {locks[n]}
  /\ Locker(c, LockIdle)

LockNext == \E c \in Clients, n \in LockNames :
              \/ LockCall(c, n) \/ LockTry(c, n) \/ Unlock(c, n)
              \/ \E ch \in Channels : LockWake(c, n, ch) \/ LockCancelled(c, n, ch)

\* A goroutine that can go on goes on; an order that has the lock ends.
LockFairness ==
  \A c \in Clients, n \in LockNames :
    /\ WF_lockVars(LockTry(c, n))
    /\ WF_lockVars(Unlock(c, n))
    /\ \A ch \in Channels : WF_lockVars(LockWake(c, n, ch))

LockSafe == LockInit /\ [][LockNext]_lockVars
LockSpec == LockSafe /\ LockFairness

-----------------------------------------------------------------------------
(* What it promises                                                        *)

\* A client in Lock is asking, a client between Lock and Unlock is holding.
LockPhase(s) ==
  IF s = LockIdle THEN [st |-> "idle"]
  ELSE [st |-> IF s.pc = "held" THEN "holding" ELSE "asking", name |-> s.name]

Service == INSTANCE LockService WITH lockClient <- [c \in Clients |-> LockPhase(locker[c])]

\* The lock table implements the lock service: a name is granted only while
\* nobody holds it, and a free name that is asked for is granted.
LockImplementsService == Service!LSSpec

\* Every map entry, channel and client stays in its domain.
LockTypeOK ==
  /\ locks \in [LockNames -> Channels \cup {NoChannel}]
  /\ closed \subseteq Channels
  /\ locker \in [Clients -> LockerStates]

\* The entry of a name is the channel of its one holder; no two names share
\* a channel, and an entry's channel is open.
TableMatchesHolders ==
  /\ \A n \in LockNames : locks[n] # NoChannel =>
       /\ \E c \in Clients : locker[c] = [pc |-> "held", name |-> n]
       /\ locks[n] \notin closed
       /\ \A m \in LockNames : locks[m] = locks[n] => m = n
  /\ \A c \in Clients, n \in LockNames : locker[c] = [pc |-> "held", name |-> n] =>
       /\ locks[n] # NoChannel
       /\ \A d \in Clients : locker[d] = [pc |-> "held", name |-> n] => d = c

\* Lock: no wake-up is lost.  A waiter's channel is closed or is still the
\* holder's, so the Unlock that frees the name reaches it, although the
\* waiter looked at the map before it parked.
NoLostWakeup ==
  \A c \in Clients, n \in LockNames, ch \in Channels :
    Waiting(c, n, ch) => ch \in closed \/ locks[n] = ch

\* Lock and Unlock: the map names exactly the holders, and no waiter parks on a
\* channel that nobody will close.
LockSound == TableMatchesHolders /\ NoLostWakeup
=============================================================================
