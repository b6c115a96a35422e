---------------------------- MODULE ServerProofs ----------------------------
(***************************************************************************)
(* What the loops of the Auth App keep, for any set of clients, names,     *)
(* channels and hostnames: the ACME storage lock loses no wake-up and is   *)
(* one of LockService's, certificate orders stay bounded, and whatever     *)
(* requests, passes, orders, events, failures and restarts come between,   *)
(* the tables, records, files and caches stay in their domains.            *)
(***************************************************************************)
EXTENDS MCServer, FiniteSetTheorems, TLAPS

-----------------------------------------------------------------------------
(* The ACME storage lock.  The inductive invariant is the type invariant   *)
(* with the two halves of LockSound; neither half stands alone: a new      *)
(* channel is fresh only because waiters' channels are closed or still in  *)
(* the table.                                                              *)

LockInv == LockTypeOK /\ LockSound

HeldState(n) == [pc |-> "held", name |-> n]
TryState(n) == [pc |-> "try", name |-> n]
WaitState(n, ch) == [pc |-> "wait", name |-> n, ch |-> ch]

\* The states a client goes through are told apart by their parts.
LEMMA LockerStateFacts ==
  /\ \A n : HeldState(n) # LockIdle /\ TryState(n) # LockIdle
  /\ \A n, m : HeldState(n) # TryState(m) /\ (HeldState(n) = HeldState(m) => n = m)
  /\ \A n, m, ch : /\ WaitState(n, ch) # HeldState(m) /\ WaitState(n, ch) # TryState(m)
                   /\ WaitState(n, ch) # LockIdle
  /\ \A n, m, ch, dh : WaitState(n, ch) = WaitState(m, dh) => n = m /\ ch = dh
<1>1. \A n : HeldState(n).pc = "held" /\ HeldState(n).name = n
  BY DEF HeldState
<1>2. \A n : TryState(n).pc = "try"
  BY DEF TryState
<1>3. \A n, ch : WaitState(n, ch).pc = "wait" /\ WaitState(n, ch).name = n /\ WaitState(n, ch).ch = ch
  BY DEF WaitState
<1>4. LockIdle.pc = "idle"
  BY DEF LockIdle
<1> QED BY <1>1, <1>2, <1>3, <1>4

\* Every state of a client is one a step may leave it in.
LEMMA LockerStateTypes ==
  /\ LockIdle \in LockerStates
  /\ \A n \in LockNames : HeldState(n) \in LockerStates /\ TryState(n) \in LockerStates
  /\ \A n \in LockNames, ch \in Channels : WaitState(n, ch) \in LockerStates
BY DEF LockerStates, HeldState, TryState, WaitState, LockIdle

\* LockSound in terms of the named states.
LEMMA LockSoundNamed ==
  LockSound <=>
    /\ \A n \in LockNames : locks[n] # NoChannel =>
         /\ \E c \in Clients : locker[c] = HeldState(n)
         /\ locks[n] \notin closed
         /\ \A m \in LockNames : locks[m] = locks[n] => m = n
    /\ \A c \in Clients, n \in LockNames : locker[c] = HeldState(n) =>
         /\ locks[n] # NoChannel
         /\ \A d \in Clients : locker[d] = HeldState(n) => d = c
    /\ \A c \in Clients, n \in LockNames, ch \in Channels :
         locker[c] = WaitState(n, ch) => ch \in closed \/ locks[n] = ch
BY DEF LockSound, TableMatchesHolders, NoLostWakeup, Waiting, HeldState, WaitState

\* The same of the next state.
LEMMA LockSoundNamedNext ==
  LockSound' <=>
    /\ \A n \in LockNames : locks'[n] # NoChannel =>
         /\ \E c \in Clients : locker'[c] = HeldState(n)
         /\ locks'[n] \notin closed'
         /\ \A m \in LockNames : locks'[m] = locks'[n] => m = n
    /\ \A c \in Clients, n \in LockNames : locker'[c] = HeldState(n) =>
         /\ locks'[n] # NoChannel
         /\ \A d \in Clients : locker'[d] = HeldState(n) => d = c
    /\ \A c \in Clients, n \in LockNames, ch \in Channels :
         locker'[c] = WaitState(n, ch) => ch \in closed' \/ locks'[n] = ch
BY DEF LockSound, TableMatchesHolders, NoLostWakeup, Waiting, HeldState, WaitState

\* A step that leaves the table alone and moves one client that holds nothing
\* to a state in which it holds nothing and waits only for a table entry.
LEMMA QuietLockerStep ==
  ASSUME LockInv, NEW c \in Clients, NEW s \in LockerStates,
         locker' = [locker EXCEPT ![c] = s], UNCHANGED <<locks, closed>>,
         \A n \in LockNames : locker[c] # HeldState(n) /\ s # HeldState(n),
         \A n \in LockNames, ch \in Channels : s = WaitState(n, ch) => locks[n] = ch
  PROVE  LockInv'
<1>1. LockTypeOK'
  BY DEF LockInv, LockTypeOK
<1>2. \A d \in Clients : locker'[d] = IF d = c THEN s ELSE locker[d]
  BY DEF LockInv, LockTypeOK
<1>3. LockSound'
  BY <1>2, LockSoundNamed, LockSoundNamedNext DEF LockInv
<1> QED BY <1>1, <1>3 DEF LockInv

\* Taking a free name with a channel nobody uses.
LEMMA TakeStep ==
  ASSUME LockInv, NEW c \in Clients, NEW n \in LockNames, NEW ch \in Channels,
         locker[c] = TryState(n), locks[n] = NoChannel, ~ChannelInUse(ch),
         locks' = [locks EXCEPT ![n] = ch], closed' = closed \ {ch},
         locker' = [locker EXCEPT ![c] = HeldState(n)]
  PROVE  LockInv'
<1>1. LockTypeOK'
  BY LockerStateTypes DEF LockInv, LockTypeOK
<1>2. \A d \in Clients : locker'[d] = IF d = c THEN HeldState(n) ELSE locker[d]
  BY DEF LockInv, LockTypeOK
<1>3. \A m \in LockNames : locks'[m] = IF m = n THEN ch ELSE locks[m]
  BY DEF LockInv, LockTypeOK
<1>4. /\ \A m \in LockNames : locks[m] # ch
      /\ \A d \in Clients, m \in LockNames : locker[d] # WaitState(m, ch)
  BY DEF ChannelInUse, Waiting, WaitState
<1>5. \A d \in Clients : locker[d] # HeldState(n)
  BY LockSoundNamed DEF LockInv
<1>6. ASSUME NEW m \in LockNames, locks'[m] # NoChannel
      PROVE  /\ \E d \in Clients : locker'[d] = HeldState(m)
             /\ locks'[m] \notin closed'
             /\ \A k \in LockNames : locks'[k] = locks'[m] => k = m
  <2>1. CASE m = n
    BY <1>2, <1>3, <1>4, <2>1
  <2>2. CASE m # n
    <3>1. PICK d \in Clients : locker[d] = HeldState(m)
      BY <1>3, <1>6, <2>2, LockSoundNamed DEF LockInv
    <3>2. d # c
      BY <3>1, LockerStateFacts
    <3> QED BY <1>2, <1>3, <1>4, <1>6, <2>2, <3>1, <3>2, LockSoundNamed DEF LockInv
  <2> QED BY <2>1, <2>2
<1>7. ASSUME NEW d \in Clients, NEW m \in LockNames, locker'[d] = HeldState(m)
      PROVE  /\ locks'[m] # NoChannel
             /\ \A e \in Clients : locker'[e] = HeldState(m) => e = d
  <2>1. CASE m = n
    BY <1>2, <1>3, <1>5, <1>7, <2>1, LockAssumption
  <2>2. CASE m # n
    <3>1. d # c /\ locker[d] = HeldState(m)
      BY <1>2, <1>7, <2>2, LockerStateFacts
    <3>2. ASSUME NEW e \in Clients, locker'[e] = HeldState(m) PROVE e # c /\ locker[e] = HeldState(m)
      BY <1>2, <2>2, <3>2, LockerStateFacts
    <3> QED BY <1>3, <2>2, <3>1, <3>2, LockSoundNamed DEF LockInv
  <2> QED BY <2>1, <2>2
<1>8. ASSUME NEW d \in Clients, NEW m \in LockNames, NEW k \in Channels, locker'[d] = WaitState(m, k)
      PROVE  k \in closed' \/ locks'[m] = k
  <2>1. d # c /\ locker[d] = WaitState(m, k)
    BY <1>2, <1>8, LockerStateFacts
  <2>2. k # ch
    BY <1>4, <2>1
  <2>3. k \in closed \/ locks[m] = k
    BY <2>1, LockSoundNamed DEF LockInv
  <2> QED BY <1>3, <2>2, <2>3, LockAssumption
<1> QED BY <1>1, <1>6, <1>7, <1>8, LockSoundNamedNext DEF LockInv

\* Giving a name back wakes everyone who waits for it.
LEMMA UnlockStep ==
  ASSUME LockInv, NEW c \in Clients, NEW n \in LockNames, Unlock(c, n)
  PROVE  LockInv'
<1>1. locker[c] = HeldState(n) /\ locker' = [locker EXCEPT ![c] = LockIdle]
  BY DEF Unlock, Locker, HeldState
<1>2. \A d \in Clients : locker'[d] = IF d = c THEN LockIdle ELSE locker[d]
  BY <1>1 DEF LockInv, LockTypeOK
<1>3. \A m \in LockNames : locks'[m] = IF m = n THEN NoChannel ELSE locks[m]
  BY DEF Unlock, LockInv, LockTypeOK
<1>4. locks[n] # NoChannel /\ closed' = closed \cup {locks[n]}
  BY <1>1, LockSoundNamed DEF LockInv, Unlock
<1>5. LockTypeOK'
  BY <1>1, <1>4, LockerStateTypes DEF LockInv, LockTypeOK, Unlock
<1>6. ASSUME NEW m \in LockNames, locks'[m] # NoChannel
      PROVE  /\ \E d \in Clients : locker'[d] = HeldState(m)
             /\ locks'[m] \notin closed'
             /\ \A k \in LockNames : locks'[k] = locks'[m] => k = m
  <2>1. m # n /\ locks'[m] = locks[m]
    BY <1>3, <1>6
  <2>2. PICK d \in Clients : locker[d] = HeldState(m)
    BY <1>6, <2>1, LockSoundNamed DEF LockInv
  <2>3. d # c
    BY <1>1, <2>1, <2>2, LockerStateFacts
  <2>4. locks[m] \notin closed /\ locks[m] # locks[n] /\ \A k \in LockNames : locks[k] = locks[m] => k = m
    BY <1>6, <2>1, LockSoundNamed DEF LockInv
  <2> QED BY <1>2, <1>3, <1>4, <1>6, <2>1, <2>2, <2>3, <2>4
<1>7. ASSUME NEW d \in Clients, NEW m \in LockNames, locker'[d] = HeldState(m)
      PROVE  /\ locks'[m] # NoChannel
             /\ \A e \in Clients : locker'[e] = HeldState(m) => e = d
  <2>1. d # c /\ locker[d] = HeldState(m)
    BY <1>2, <1>7, LockerStateFacts
  <2>2. m # n
    BY <1>1, <2>1, LockSoundNamed DEF LockInv
  <2>3. \A e \in Clients : locker'[e] = HeldState(m) => locker[e] = HeldState(m)
    BY <1>2, LockerStateFacts
  <2> QED BY <1>3, <2>1, <2>2, <2>3, LockSoundNamed DEF LockInv
<1>8. ASSUME NEW d \in Clients, NEW m \in LockNames, NEW k \in Channels, locker'[d] = WaitState(m, k)
      PROVE  k \in closed' \/ locks'[m] = k
  <2>1. locker[d] = WaitState(m, k)
    BY <1>2, <1>8, LockerStateFacts
  <2> QED BY <1>3, <1>4, <2>1, LockSoundNamed DEF LockInv
<1> QED BY <1>5, <1>6, <1>7, <1>8, LockSoundNamedNext DEF LockInv

\* The empty table satisfies the invariant.
LEMMA LockInitInv == LockInit => LockInv
<1> SUFFICES ASSUME LockInit PROVE LockInv
  OBVIOUS
<1>1. LockTypeOK
  BY LockerStateTypes DEF LockInit, LockTypeOK
<1>2. \A c \in Clients : locker[c] = LockIdle
  BY DEF LockInit
<1>3. \A n \in LockNames : locks[n] = NoChannel
  BY DEF LockInit
<1> QED BY <1>1, <1>2, <1>3, LockSoundNamed, LockerStateFacts DEF LockInv

\* Lock finds the name free and takes it, or finds the holder's channel and
\* parks on it.
LEMMA LockTryStep ==
  ASSUME LockInv, NEW c \in Clients, NEW n \in LockNames, LockTry(c, n)
  PROVE  LockInv'
<1>1. locker[c] = TryState(n)
  BY DEF LockTry, TryState
<1>2. CASE locks[n] = NoChannel
  <2>1. PICK ch \in Channels : /\ ~ChannelInUse(ch)
                               /\ locks' = [locks EXCEPT ![n] = ch] /\ closed' = closed \ {ch}
    BY <1>2 DEF LockTry
  <2>2. locker' = [locker EXCEPT ![c] = HeldState(n)]
    BY <1>2 DEF LockTry, Locker, HeldState
  <2> QED BY <1>1, <1>2, <2>1, <2>2, TakeStep
<1>3. CASE locks[n] # NoChannel
  <2>1. locks[n] \in Channels
    BY <1>3 DEF LockInv, LockTypeOK
  <2>2. WaitState(n, locks[n]) \in LockerStates
    BY <2>1, LockerStateTypes
  <2>3. locker' = [locker EXCEPT ![c] = WaitState(n, locks[n])] /\ UNCHANGED <<locks, closed>>
    BY <1>3 DEF LockTry, Locker, WaitState
  <2>4. \A m \in LockNames : locker[c] # HeldState(m) /\ WaitState(n, locks[n]) # HeldState(m)
    BY <1>1, LockerStateFacts
  <2>5. \A m \in LockNames, ch \in Channels : WaitState(n, locks[n]) = WaitState(m, ch) => locks[m] = ch
    BY LockerStateFacts
  <2> QED BY <2>2, <2>3, <2>4, <2>5, QuietLockerStep
<1> QED BY <1>2, <1>3

\* Every step keeps the invariant.
LEMMA LockNextInv == LockInv /\ [LockNext]_lockVars => LockInv'
<1> SUFFICES ASSUME LockInv, [LockNext]_lockVars PROVE LockInv'
  OBVIOUS
<1>1. ASSUME NEW c \in Clients, NEW n \in LockNames, LockCall(c, n) PROVE LockInv'
  <2>1. locker[c] = LockIdle /\ locker' = [locker EXCEPT ![c] = TryState(n)] /\ UNCHANGED <<locks, closed>>
    BY <1>1 DEF LockCall, Locker, TryState
  <2>2. TryState(n) \in LockerStates
    BY LockerStateTypes
  <2>3. \A m \in LockNames : LockIdle # HeldState(m) /\ TryState(n) # HeldState(m)
    BY LockerStateFacts
  <2>4. \A m \in LockNames, k \in Channels : TryState(n) # WaitState(m, k)
    BY LockerStateFacts
  <2> QED BY <2>1, <2>2, <2>3, <2>4, QuietLockerStep
<1>2. ASSUME NEW c \in Clients, NEW n \in LockNames, LockTry(c, n) PROVE LockInv'
  BY <1>2, LockTryStep
<1>3. ASSUME NEW c \in Clients, NEW n \in LockNames, Unlock(c, n) PROVE LockInv'
  BY <1>3, UnlockStep
<1>4. ASSUME NEW c \in Clients, NEW n \in LockNames, NEW ch \in Channels, LockWake(c, n, ch) PROVE LockInv'
  <2>1. /\ locker[c] = WaitState(n, ch) /\ locker' = [locker EXCEPT ![c] = TryState(n)]
        /\ UNCHANGED <<locks, closed>>
    BY <1>4 DEF LockWake, Waiting, Locker, TryState, WaitState
  <2>2. TryState(n) \in LockerStates
    BY LockerStateTypes
  <2>3. \A m \in LockNames : WaitState(n, ch) # HeldState(m) /\ TryState(n) # HeldState(m)
    BY LockerStateFacts
  <2>4. \A m \in LockNames, k \in Channels : TryState(n) # WaitState(m, k)
    BY LockerStateFacts
  <2> QED BY <2>1, <2>2, <2>3, <2>4, QuietLockerStep
<1>5. ASSUME NEW c \in Clients, NEW n \in LockNames, NEW ch \in Channels, LockCancelled(c, n, ch) PROVE LockInv'
  <2>1. /\ locker[c] = WaitState(n, ch) /\ locker' = [locker EXCEPT ![c] = LockIdle]
        /\ UNCHANGED <<locks, closed>>
    BY <1>5 DEF LockCancelled, Waiting, Locker, WaitState
  <2>2. LockIdle \in LockerStates
    BY LockerStateTypes
  <2>3. \A m \in LockNames : WaitState(n, ch) # HeldState(m) /\ LockIdle # HeldState(m)
    BY LockerStateFacts
  <2>4. \A m \in LockNames, k \in Channels : LockIdle # WaitState(m, k)
    BY LockerStateFacts
  <2> QED BY <2>1, <2>2, <2>3, <2>4, QuietLockerStep
<1>6. CASE UNCHANGED lockVars
  BY <1>6, LockSoundNamed, LockSoundNamedNext DEF LockInv, LockTypeOK, lockVars
<1> QED BY <1>1, <1>2, <1>3, <1>4, <1>5, <1>6 DEF LockNext

\* The lock table keeps its types, matches its holders and loses no wake-up,
\* for any clients, names and channels.
THEOREM LockInvariant == LockSafe => []LockInv
BY LockInitInv, LockNextInv, PTL DEF LockSafe

\* Lock and Unlock: the map names exactly the holders, and every waiter's
\* channel will be closed by the holder or is closed.
THEOREM LockIsSound == LockSafe => []LockSound
<1>1. LockInv => LockSound
  BY DEF LockInv
<1> QED BY <1>1, LockInvariant, PTL

-----------------------------------------------------------------------------
(* The refinement of LockService, without its fairness.                    *)

Phase == [c \in Clients |-> LockPhase(locker[c])]
Asking(n) == [st |-> "asking", name |-> n]
Holding(n) == [st |-> "holding", name |-> n]
Resting == [st |-> "idle"]

\* How the states of the table map to the service's.
LEMMA PhaseFacts ==
  /\ LockPhase(LockIdle) = Resting
  /\ \A n : LockPhase(HeldState(n)) = Holding(n) /\ LockPhase(TryState(n)) = Asking(n)
  /\ \A n, ch : LockPhase(WaitState(n, ch)) = Asking(n)
<1>1. LockPhase(LockIdle) = Resting
  BY DEF LockPhase, Resting
<1>2. \A n : LockPhase(HeldState(n)) = Holding(n)
  BY LockerStateFacts DEF LockPhase, HeldState, Holding
<1>3. \A n : LockPhase(TryState(n)) = Asking(n)
  BY LockerStateFacts DEF LockPhase, TryState, Asking
<1>4. \A n, ch : LockPhase(WaitState(n, ch)) = Asking(n)
  BY LockerStateFacts DEF LockPhase, WaitState, Asking
<1> QED BY <1>1, <1>2, <1>3, <1>4

\* Only a holder's state maps to holding.
LEMMA HoldingMeansHeld ==
  ASSUME LockInv, NEW c \in Clients, NEW n \in LockNames, LockPhase(locker[c]) = Holding(n)
  PROVE  locker[c] = HeldState(n)
<1>1. \/ locker[c] = LockIdle
      \/ \E m \in LockNames : locker[c] = HeldState(m) \/ locker[c] = TryState(m)
      \/ \E m \in LockNames, ch \in Channels : locker[c] = WaitState(m, ch)
  BY DEF LockInv, LockTypeOK, LockerStates, HeldState, TryState, WaitState, LockIdle
<1>2. Holding(n) # Resting /\ \A m : Holding(n) # Asking(m) /\ (Holding(m) = Holding(n) => m = n)
  <2>1. \A m : Holding(m).st = "holding" /\ Holding(m).name = m
    BY DEF Holding
  <2>2. Resting.st = "idle" /\ \A m : Asking(m).st = "asking"
    BY DEF Resting, Asking
  <2> QED BY <2>1, <2>2
<1> QED BY <1>1, <1>2, PhaseFacts

\* Moving one client moves one client of the service.
LEMMA PhaseMoves ==
  ASSUME LockInv, NEW c \in Clients, NEW s, locker' = [locker EXCEPT ![c] = s]
  PROVE  Phase' = [Phase EXCEPT ![c] = LockPhase(s)]
<1>1. \A d \in Clients : locker'[d] = IF d = c THEN s ELSE locker[d]
  BY DEF LockInv, LockTypeOK
<1>2. Phase' = [d \in Clients |-> LockPhase(locker'[d])]
  BY DEF Phase, LockPhase
<1>3. [Phase EXCEPT ![c] = LockPhase(s)] = [d \in Clients |-> IF d = c THEN LockPhase(s) ELSE LockPhase(locker[d])]
  BY DEF Phase
<1> QED BY <1>1, <1>2, <1>3

\* A step of the table is a step of the service, or none.
LEMMA LockStepSimulates == LockInv /\ [LockNext]_lockVars => [Service!LSNext]_Phase
<1> SUFFICES ASSUME LockInv, [LockNext]_lockVars PROVE [Service!LSNext]_Phase
  OBVIOUS
<1> USE DEF Service!LSNext
<1>0. \A c \in Clients : Phase[c] = LockPhase(locker[c])
  BY DEF Phase
<1>1. ASSUME NEW c \in Clients, NEW n \in LockNames, LockCall(c, n) PROVE Service!Ask(c, n)
  <2>1. locker[c] = LockIdle /\ locker' = [locker EXCEPT ![c] = TryState(n)]
    BY <1>1 DEF LockCall, Locker, TryState
  <2>2. Phase' = [Phase EXCEPT ![c] = LockPhase(TryState(n))]
    BY <2>1, PhaseMoves
  <2>3. Phase[c] = Resting /\ Phase' = [Phase EXCEPT ![c] = Asking(n)]
    BY <1>0, <2>1, <2>2, PhaseFacts
  <2> QED BY <2>3 DEF Service!Ask, Service!Become, Phase, Resting, Asking
<1>2. ASSUME NEW c \in Clients, NEW n \in LockNames, LockTry(c, n)
      PROVE  Service!Grant(c, n) \/ UNCHANGED Phase
  <2>1. locker[c] = TryState(n) /\ Phase[c] = Asking(n)
    BY <1>0, <1>2, PhaseFacts DEF LockTry, TryState
  <2>2. CASE locks[n] = NoChannel
    <3>1. locker' = [locker EXCEPT ![c] = HeldState(n)]
      BY <1>2, <2>2 DEF LockTry, Locker, HeldState
    <3>2. Phase' = [Phase EXCEPT ![c] = Holding(n)]
      BY <3>1, PhaseMoves, PhaseFacts
    <3>3. \A d \in Clients : Phase[d] # Holding(n)
      BY <1>0, <2>2, HoldingMeansHeld, LockSoundNamed DEF LockInv
    <3> QED BY <2>1, <3>2, <3>3
            DEF Service!Grant, Service!Asks, Service!Holds, Service!Become, Phase, Asking, Holding
  <2>3. CASE locks[n] # NoChannel
    <3>1. locker' = [locker EXCEPT ![c] = WaitState(n, locks[n])]
      BY <1>2, <2>3 DEF LockTry, Locker, WaitState
    <3>2. Phase' = [Phase EXCEPT ![c] = LockPhase(WaitState(n, locks[n]))]
      BY <3>1, PhaseMoves
    <3> QED BY <2>1, <3>2, PhaseFacts DEF Phase
  <2> QED BY <2>2, <2>3
<1>3. ASSUME NEW c \in Clients, NEW n \in LockNames, Unlock(c, n) PROVE Service!Release(c, n)
  <2>1. locker[c] = HeldState(n) /\ locker' = [locker EXCEPT ![c] = LockIdle]
    BY <1>3 DEF Unlock, Locker, HeldState
  <2>2. Phase[c] = Holding(n) /\ Phase' = [Phase EXCEPT ![c] = Resting]
    BY <1>0, <2>1, PhaseMoves, PhaseFacts
  <2> QED BY <2>2 DEF Service!Release, Service!Holds, Service!Become, Phase, Resting, Holding
<1>4. ASSUME NEW c \in Clients, NEW n \in LockNames, NEW ch \in Channels, LockWake(c, n, ch)
      PROVE  UNCHANGED Phase
  <2>1. locker[c] = WaitState(n, ch) /\ locker' = [locker EXCEPT ![c] = TryState(n)]
    BY <1>4 DEF LockWake, Waiting, Locker, TryState, WaitState
  <2>2. Phase' = [Phase EXCEPT ![c] = LockPhase(TryState(n))]
    BY <2>1, PhaseMoves
  <2> QED BY <1>0, <2>1, <2>2, PhaseFacts DEF Phase
<1>5. ASSUME NEW c \in Clients, NEW n \in LockNames, NEW ch \in Channels, LockCancelled(c, n, ch)
      PROVE  Service!Withdraw(c, n)
  <2>1. locker[c] = WaitState(n, ch) /\ locker' = [locker EXCEPT ![c] = LockIdle]
    BY <1>5 DEF LockCancelled, Waiting, Locker, WaitState
  <2>2. Phase[c] = Asking(n) /\ Phase' = [Phase EXCEPT ![c] = Resting]
    BY <1>0, <2>1, PhaseMoves, PhaseFacts
  <2> QED BY <2>2 DEF Service!Withdraw, Service!Asks, Service!Become, Phase, Resting, Asking
<1>6. CASE UNCHANGED lockVars
  BY <1>6 DEF lockVars, Phase, LockPhase
<1> QED BY <1>1, <1>2, <1>3, <1>4, <1>5, <1>6 DEF LockNext

\* The lock table implements the lock service but for the fairness: a name is
\* granted only while nobody holds it, whoever waits, wakes or gives up.
THEOREM LockImplementsServiceSafety == LockSafe => Service!LSSafe
<1>1. LockInit => Service!LSInit
  BY PhaseFacts DEF LockInit, Service!LSInit, Resting
<1>2. LockInv /\ [LockNext]_lockVars => [Service!LSNext]_[c \in Clients |-> LockPhase(locker[c])]
  BY LockStepSimulates DEF Phase
<1> QED BY <1>1, <1>2, LockInvariant, PTL DEF LockSafe, Service!LSSafe

-----------------------------------------------------------------------------
(* Certificate orders                                                      *)

OrderSteps == {"issue", "store", "failed", "limited", "leave"}
OrderBusy == {o \in OrderSlots : orderJob[o] # CertIdle}

\* An order is of a hostname in flight until its deferred delete, and no other
\* order is of that hostname: inflight counts the goroutines.
OrdersInv ==
  /\ IsFiniteSet(inflight) /\ Cardinality(inflight) <= MaxOrders
  /\ orderJob \in [OrderSlots -> [pc : OrderSteps, host : inflight] \cup {CertIdle}]
  /\ \A o, p \in OrderBusy : orderJob[o].host = orderJob[p].host => o = p

\* A job that is at a step of an order is one.
LEMMA OrderAt ==
  ASSUME OrdersInv, NEW o \in OrderSlots, orderJob[o].pc \in OrderSteps
  PROVE  o \in OrderBusy /\ orderJob[o] \in [pc : OrderSteps, host : inflight]
BY DEF OrdersInv, OrderBusy, CertIdle, OrderSteps

LEMMA OrdersInitInv == CertInit => OrdersInv
<1> SUFFICES ASSUME CertInit PROVE OrdersInv
  OBVIOUS
<1>1. IsFiniteSet({}) /\ Cardinality({}) = 0
  BY FS_EmptySet
<1>2. OrderBusy = {}
  BY DEF CertInit, OrderBusy
<1>3. orderJob \in [OrderSlots -> [pc : OrderSteps, host : inflight] \cup {CertIdle}]
  BY DEF CertInit
<1> QED BY <1>1, <1>2, <1>3, CertAssumption DEF CertInit, OrdersInv, CertAssumption

\* The steps of an order.
LEMMA OrderStepKeeps ==
  ASSUME OrdersInv, NEW o \in OrderSlots, OrderStep(o)
  PROVE  OrdersInv'
<1>1. PICK j : j = orderJob[o]
  OBVIOUS
<1>2. j \in [pc : OrderSteps, host : inflight] /\ o \in OrderBusy
  BY <1>1, OrderAt DEF OrderStep, OrderIssues, StoreIssued, RecordFailure, OrderLeaves, OrderSteps
<1>3. ASSUME NEW pc \in OrderSteps, orderJob' = [orderJob EXCEPT ![o].pc = pc], inflight' = inflight
      PROVE  OrdersInv'
  <2> DEFINE k == [j EXCEPT !.pc = pc]
  <2>1. k \in [pc : OrderSteps, host : inflight] /\ k.host = j.host /\ k # CertIdle
    BY <1>2 DEF CertIdle, OrderSteps
  <2>2. orderJob' = [orderJob EXCEPT ![o] = k]
    BY <1>1, <1>3
  <2> HIDE DEF k
  <2>3. orderJob' \in [OrderSlots -> [pc : OrderSteps, host : inflight] \cup {CertIdle}]
    BY <2>1, <2>2 DEF OrdersInv
  <2>4. OrderBusy' = OrderBusy /\ \A p \in OrderBusy : orderJob'[p].host = orderJob[p].host
    BY <1>1, <1>2, <2>1, <2>2 DEF OrdersInv, OrderBusy
  <2> QED BY <1>3, <2>3, <2>4 DEF OrdersInv
<1>4. CASE OrderIssues(o) \/ StoreIssued(o) \/ RecordFailure(o)
  BY <1>3, <1>4 DEF OrderIssues, StoreIssued, RecordFailure, OrderSteps
<1>5. CASE OrderLeaves(o)
  <2>1. inflight' = inflight \ {j.host} /\ orderJob' = [orderJob EXCEPT ![o] = CertIdle]
    BY <1>1, <1>5 DEF OrderLeaves
  <2>2. IsFiniteSet(inflight') /\ Cardinality(inflight') <= MaxOrders
    <3>1. IsFiniteSet(inflight') /\ Cardinality(inflight') <= Cardinality(inflight)
      BY <2>1, FS_Subset DEF OrdersInv
    <3>2. Cardinality(inflight) \in Nat /\ Cardinality(inflight') \in Nat
      BY <3>1, FS_CardinalityType DEF OrdersInv
    <3> QED BY <3>1, <3>2, CertAssumption DEF OrdersInv, CertAssumption
  <2>3. OrderBusy' = OrderBusy \ {o} /\ \A p \in OrderBusy \ {o} : orderJob'[p] = orderJob[p]
    BY <2>1 DEF OrdersInv, OrderBusy
  <2>4. ASSUME NEW p \in OrderSlots PROVE orderJob'[p] \in [pc : OrderSteps, host : inflight'] \cup {CertIdle}
    <3>1. CASE p = o \/ p \notin OrderBusy
      BY <2>1, <3>1 DEF OrdersInv, OrderBusy
    <3>2. CASE p # o /\ p \in OrderBusy
      <4>1. orderJob[p] \in [pc : OrderSteps, host : inflight] /\ orderJob[p].host # j.host
        BY <1>1, <1>2, <3>2 DEF OrdersInv, OrderBusy
      <4> QED BY <2>1, <2>3, <3>2, <4>1
    <3> QED BY <3>1, <3>2
  <2>5. orderJob' \in [OrderSlots -> [pc : OrderSteps, host : inflight'] \cup {CertIdle}]
    BY <2>1, <2>4 DEF OrdersInv
  <2> QED BY <2>2, <2>3, <2>5 DEF OrdersInv
<1> QED BY <1>4, <1>5 DEF OrderStep

\* scheduleOrders starts an order of a hostname that is not in flight.
LEMMA OrderStartKeeps ==
  ASSUME OrdersInv, NEW h, NEW o \in OrderSlots, StartOrder(h, o)
  PROVE  OrdersInv'
<1>1. PICK k : k = [pc |-> "issue", host |-> h]
  OBVIOUS
<1>2. /\ orderJob[o] = CertIdle /\ h \notin inflight /\ Cardinality(inflight) < MaxOrders
      /\ orderJob' = [orderJob EXCEPT ![o] = k] /\ inflight' = inflight \cup {h}
  BY <1>1 DEF StartOrder
<1>3. k \in [pc : OrderSteps, host : inflight'] /\ k.host = h /\ k # CertIdle
  BY <1>1, <1>2 DEF OrderSteps, CertIdle
<1>4. IsFiniteSet(inflight') /\ Cardinality(inflight') <= MaxOrders
  <2>1. IsFiniteSet(inflight') /\ Cardinality(inflight') = Cardinality(inflight) + 1
    BY <1>2, FS_AddElement DEF OrdersInv
  <2>2. Cardinality(inflight) \in Nat
    BY FS_CardinalityType DEF OrdersInv
  <2> QED BY <1>2, <2>1, <2>2, CertAssumption DEF CertAssumption
<1>5. OrderBusy' = OrderBusy \cup {o} /\ \A p \in OrderBusy : p # o /\ orderJob'[p] = orderJob[p]
  BY <1>2, <1>3 DEF OrdersInv, OrderBusy
<1>6. \A p \in OrderBusy : orderJob[p].host # h
  BY <1>2 DEF OrdersInv, OrderBusy
<1>7. orderJob' \in [OrderSlots -> [pc : OrderSteps, host : inflight'] \cup {CertIdle}]
  <2>1. ASSUME NEW p \in OrderSlots PROVE orderJob'[p] \in [pc : OrderSteps, host : inflight'] \cup {CertIdle}
    BY <1>2, <1>3 DEF OrdersInv
  <2> QED BY <1>2, <2>1 DEF OrdersInv
<1>8. orderJob'[o] = k
  BY <1>2 DEF OrdersInv
<1>9. \A p, q \in OrderBusy' : orderJob'[p].host = orderJob'[q].host => p = q
  BY <1>3, <1>5, <1>6, <1>8 DEF OrdersInv
<1> QED BY <1>4, <1>7, <1>9 DEF OrdersInv

LEMMA OrdersStepInv == OrdersInv /\ [CertNext]_certVars => OrdersInv'
<1> SUFFICES ASSUME OrdersInv, [CertNext]_certVars PROVE OrdersInv'
  OBVIOUS
<1>1. CASE UNCHANGED <<orderJob, inflight>>
  BY <1>1 DEF OrdersInv, OrderBusy
<1>2. CASE CertRestart
  <2>1. IsFiniteSet(inflight') /\ Cardinality(inflight') = 0 /\ OrderBusy' = {}
    BY <1>2, FS_EmptySet DEF CertRestart, OrderBusy
  <2> QED BY <1>2, <2>1, CertAssumption DEF CertRestart, OrdersInv, CertAssumption
<1>3. ASSUME NEW o \in OrderSlots, OrderStep(o) PROVE OrdersInv'
  BY <1>3, OrderStepKeeps
<1>4. CASE CertPassSchedule
  BY <1>1, <1>4, OrderStartKeeps DEF CertPassSchedule
<1>5. CASE \E h \in CertNames : \/ NameAdded(h) \/ NameReleased(h) \/ NodeChanges(h) \/ CacheForgets(h)
                                \/ CertificateAges(h) \/ BackoffPasses(h)
  BY <1>1, <1>5 DEF NameAdded, NameReleased, NodeChanges, CacheForgets, CertificateAges, BackoffPasses
<1>6. CASE CertPassList \/ CertPassRow \/ CertPassARI \/ CertPassDrift \/ CertPassPush \/ CertPassPushed
           \/ CertGCList \/ CertGCDrop
  BY <1>1, <1>6 DEF CertPassList, CertPassRow, CertPassARI, CertPassDrift, CertPassPush, CertPassPushed,
                    CertGCList, CertGCDrop
<1>7. CASE UNCHANGED certVars
  BY <1>1, <1>7 DEF certVars
<1> QED BY <1>2, <1>3, <1>4, <1>5, <1>6, <1>7 DEF CertNext, CertPassStep

\* The goroutines are no more than the hostnames in flight.
LEMMA OrdersInvBounds == OrdersInv => OrdersBounded
<1> SUFFICES ASSUME OrdersInv PROVE OrdersBounded
  OBVIOUS
<1> DEFINE f == [o \in OrderBusy |-> orderJob[o].host]
<1>1. f \in [OrderBusy -> inflight] /\ \A o, p \in OrderBusy : f[o] = f[p] => o = p
  BY DEF OrdersInv, OrderBusy
<1>2. f \in Injection(OrderBusy, inflight)
  BY <1>1 DEF Injection, IsInjective
<1>3. IsFiniteSet(OrderBusy) /\ Cardinality(OrderBusy) <= Cardinality(inflight)
  BY <1>2, FS_Injection DEF OrdersInv
<1>4. Cardinality(OrderBusy) \in Nat /\ Cardinality(inflight) \in Nat
  BY <1>3, FS_CardinalityType DEF OrdersInv
<1>5. Cardinality(OrderBusy) <= MaxOrders
  BY <1>3, <1>4, CertAssumption DEF OrdersInv, CertAssumption
<1> QED BY <1>5 DEF OrdersInv, OrdersBounded, OrderBusy

\* scheduleOrders and the goroutines that outlive the pass that started them:
\* at most MaxOrders orders at once, never two for a hostname, for any number of
\* hostnames, slots and restarts, whatever fails.
THEOREM OrdersStayBounded == CertSpec => []OrdersBounded
BY OrdersInvBounds, OrdersInitInv, OrdersStepInv, PTL DEF CertSpec

-----------------------------------------------------------------------------
(* Certificates: the table, the Machines' files and what a pass holds.     *)

CertRowsOrNone == CertRows \cup {NoCertRow}
CertNodes == [CertNames -> {"gone", "stopped", "bare", "ready"}]
CertNextPasses ==
  [pc : {"next", "gc"}, live : SUBSET CertNames, node : CertNodes, due : SUBSET CertNames, todo : SUBSET CertNames]
CertNamePasses ==
  [pc : {"ari", "drift", "push", "pushed"}, live : SUBSET CertNames, node : CertNodes, due : SUBSET CertNames,
   todo : SUBSET CertNames, host : CertNames, row : CertRows]
CertDropPasses == [pc : {"drop"}, drop : SUBSET CertNames]
CertPasses == {CertIdle} \cup CertNextPasses \cup CertNamePasses \cup CertDropPasses

\* An order whose certificate is on its way finds a row with room for it, or
\* none: nothing else issues for its hostname.
SerialsFit ==
  \A o \in OrderSlots : orderJob[o].pc = "store" =>
    certRow[orderJob[o].host] = NoCertRow \/ certRow[orderJob[o].host].serial < MaxSerial

CertInv ==
  /\ OrdersInv /\ CertTypeOK /\ SerialsFit
  /\ acmeDirectory \in Directories /\ certPass \in CertPasses

LEMMA CertPassAt ==
  ASSUME NEW p \in CertPasses
  PROVE  /\ p.pc \in {"next", "gc"} => p \in CertNextPasses
         /\ p.pc \in {"ari", "drift", "push", "pushed"} => p \in CertNamePasses
         /\ p.pc = "drop" => p \in CertDropPasses
BY DEF CertPasses, CertNextPasses, CertNamePasses, CertDropPasses, CertIdle

LEMMA PendingRowTyped ==
  ASSUME acmeDirectory \in Directories
  PROVE  PendingRow \in CertRows /\ PendingRow.serial = 0
<1>1. 0 \in 0..MaxSerial /\ 0 \in 0..(MaxBackoffStep + 1)
  BY CertAssumption DEF CertAssumption
<1> QED BY <1>1 DEF PendingRow, CertRows

\* Rows as the table's statements change them.
LEMMA RowsChanged ==
  ASSUME NEW row \in CertRows
  PROVE  /\ \A s \in 0..MaxSerial : [row EXCEPT !.pushed = s] \in CertRows /\ [row EXCEPT !.pushed = s].serial = row.serial
         /\ \A a \in {"fresh", "due", "expired"} :
              [row EXCEPT !.age = a] \in CertRows /\ [row EXCEPT !.age = a].serial = row.serial
         /\ [row EXCEPT !.waiting = FALSE] \in CertRows /\ [row EXCEPT !.waiting = FALSE].serial = row.serial
<1>1. ASSUME NEW s \in 0..MaxSerial
      PROVE  [row EXCEPT !.pushed = s] \in CertRows /\ [row EXCEPT !.pushed = s].serial = row.serial
  BY DEF CertRows
<1>2. ASSUME NEW a \in {"fresh", "due", "expired"}
      PROVE  [row EXCEPT !.age = a] \in CertRows /\ [row EXCEPT !.age = a].serial = row.serial
  BY DEF CertRows
<1>3. FALSE \in BOOLEAN
  OBVIOUS
<1>4. [row EXCEPT !.waiting = FALSE] \in CertRows /\ [row EXCEPT !.waiting = FALSE].serial = row.serial
  BY <1>3 DEF CertRows
<1> QED BY <1>1, <1>2, <1>4

LEMMA RowFails ==
  ASSUME NEW row \in CertRows, NEW n \in 0..(MaxBackoffStep + 1)
  PROVE  /\ [row EXCEPT !.attempts = n, !.waiting = TRUE] \in CertRows
         /\ [row EXCEPT !.attempts = n, !.waiting = TRUE].serial = row.serial
<1>1. PICK r : r = [row EXCEPT !.attempts = n]
  OBVIOUS
<1>2. r \in CertRows /\ r.serial = row.serial
  BY <1>1 DEF CertRows
<1>3. TRUE \in BOOLEAN
  OBVIOUS
<1>4. [r EXCEPT !.waiting = TRUE] \in CertRows /\ [r EXCEPT !.waiting = TRUE].serial = r.serial
  BY <1>2, <1>3 DEF CertRows
<1>5. [row EXCEPT !.attempts = n, !.waiting = TRUE] = [r EXCEPT !.waiting = TRUE]
  BY <1>1
<1> QED BY <1>2, <1>4, <1>5

LEMMA RowIssued ==
  ASSUME NEW row \in CertRows, row.serial < MaxSerial
  PROVE  [row EXCEPT !.serial = @ + 1, !.age = "fresh", !.attempts = 0, !.waiting = FALSE] \in CertRows
<1>1. row.serial + 1 \in 0..MaxSerial /\ 0 \in 0..(MaxBackoffStep + 1)
  BY CertAssumption DEF CertRows, CertAssumption
<1>2. PICK r1 : r1 = [row EXCEPT !.serial = row.serial + 1]
  OBVIOUS
<1>3. r1 \in CertRows
  BY <1>1, <1>2 DEF CertRows
<1>4. PICK r2 : r2 = [r1 EXCEPT !.age = "fresh"]
  OBVIOUS
<1>5. r2 \in CertRows
  BY <1>3, <1>4 DEF CertRows
<1>6. PICK r3 : r3 = [r2 EXCEPT !.attempts = 0]
  OBVIOUS
<1>7. r3 \in CertRows
  BY <1>1, <1>5, <1>6 DEF CertRows
<1>8. [r3 EXCEPT !.waiting = FALSE] \in CertRows
  BY <1>7, RowsChanged
<1>9. [row EXCEPT !.serial = @ + 1, !.age = "fresh", !.attempts = 0, !.waiting = FALSE] = [r3 EXCEPT !.waiting = FALSE]
  BY <1>2, <1>4, <1>6
<1> QED BY <1>8, <1>9

\* What a step leaves alone, it keeps.
LEMMA CertInvFrom ==
  ASSUME OrdersInv', SerialsFit', acmeDirectory' \in Directories, certPass' \in CertPasses,
         certRow' \in [CertNames -> CertRowsOrNone], wanted' \subseteq CertNames, inflight' \subseteq CertNames,
         node' \in CertNodes, disk' \in [CertNames -> 0..MaxSerial],
         fileCache' \in [CertNames -> 0..MaxSerial \cup {NotCached}]
  PROVE  CertInv'
BY DEF CertInv, CertTypeOK, CertRowsOrNone, CertNodes, NotCached

LEMMA CertInvParts ==
  ASSUME CertInv
  PROVE  /\ OrdersInv /\ SerialsFit /\ acmeDirectory \in Directories /\ certPass \in CertPasses
         /\ certRow \in [CertNames -> CertRowsOrNone] /\ wanted \subseteq CertNames /\ inflight \subseteq CertNames
         /\ node \in CertNodes /\ disk \in [CertNames -> 0..MaxSerial]
         /\ fileCache \in [CertNames -> 0..MaxSerial \cup {NotCached}]
BY DEF CertInv, CertTypeOK, CertRowsOrNone, CertNodes, NotCached

\* A new row, or none, with no more serials than before or none issued: of
\* whatever hostname, no order on its way loses its room.
NoNewSerial(h, row) ==
  \/ row = NoCertRow \/ row.serial = 0
  \/ certRow[h] # NoCertRow /\ row.serial = certRow[h].serial

LEMMA RowKeeps ==
  ASSUME CertInv, NEW h \in CertNames, NEW row \in CertRowsOrNone, NoNewSerial(h, row),
         certRow' = [certRow EXCEPT ![h] = row], UNCHANGED orderJob
  PROVE  certRow' \in [CertNames -> CertRowsOrNone] /\ SerialsFit'
<1>1. certRow' \in [CertNames -> CertRowsOrNone]
  BY CertInvParts
<1>2. ASSUME NEW o \in OrderSlots, orderJob'[o].pc = "store"
      PROVE  certRow'[orderJob'[o].host] = NoCertRow \/ certRow'[orderJob'[o].host].serial < MaxSerial
  <2>1. certRow[orderJob[o].host] = NoCertRow \/ certRow[orderJob[o].host].serial < MaxSerial
    BY <1>2, CertInvParts DEF SerialsFit
  <2>2. CASE orderJob[o].host = h
    <3>1. certRow'[h] = row
      BY CertInvParts
    <3>2. 0 < MaxSerial
      BY CertAssumption DEF CertAssumption
    <3> QED BY <2>1, <2>2, <3>1, <3>2 DEF NoNewSerial
  <2>3. CASE orderJob[o].host # h
    BY <2>1, <2>3, CertInvParts
  <2> QED BY <2>2, <2>3
<1> QED BY <1>1, <1>2 DEF SerialsFit

\* The same of a statement that finds no row.
LEMMA UpdateKeeps ==
  ASSUME CertInv, NEW h \in CertNames, NEW row, UpdateRow(h, row), UNCHANGED orderJob,
         certRow[h] # NoCertRow => row \in CertRows /\ row.serial = certRow[h].serial
  PROVE  certRow' \in [CertNames -> CertRowsOrNone] /\ SerialsFit'
<1>1. CASE certRow[h] = NoCertRow
  BY <1>1, CertInvParts DEF UpdateRow, SerialsFit
<1>2. CASE certRow[h] # NoCertRow
  BY <1>2, RowKeeps DEF UpdateRow, NoNewSerial, CertRowsOrNone
<1> QED BY <1>1, <1>2

LEMMA RowsUntouched ==
  ASSUME CertInv, UNCHANGED <<certRow, orderJob>>
  PROVE  certRow' \in [CertNames -> CertRowsOrNone] /\ SerialsFit'
BY CertInvParts DEF SerialsFit

LEMMA NamesKeep ==
  ASSUME CertInv, OrdersInv', NEW h \in CertNames,
         NameAdded(h) \/ NameReleased(h) \/ CertificateAges(h) \/ BackoffPasses(h)
  PROVE  CertInv'
<1>1. UNCHANGED <<node, disk, fileCache, acmeDirectory, inflight, orderJob, certPass>> /\ wanted' \subseteq CertNames
  BY CertInvParts DEF NameAdded, NameReleased, CertificateAges, BackoffPasses
<1>2. PendingRow \in CertRows /\ PendingRow.serial = 0
  BY CertInvParts, PendingRowTyped
<1>3. certRow[h] # NoCertRow => certRow[h] \in CertRows
  BY CertInvParts DEF CertRowsOrNone
<1>4. ASSUME NEW row \in CertRowsOrNone, NoNewSerial(h, row), SetRow(h, row) PROVE CertInv'
  BY <1>1, <1>4, RowKeeps, CertInvFrom, CertInvParts DEF SetRow
<1>5. CASE UNCHANGED certRow
  BY <1>1, <1>5, RowsUntouched, CertInvFrom, CertInvParts
<1>6. CASE NameAdded(h)
  <2>1. RequestMachineCertificate(certRow[h]) \in CertRows /\ NoNewSerial(h, RequestMachineCertificate(certRow[h]))
    <3>1. CASE certRow[h] = NoCertRow
      BY <1>2, <3>1 DEF RequestMachineCertificate, NoNewSerial
    <3>2. CASE certRow[h] # NoCertRow /\ Usable(certRow[h])
      <4>1. 0 \in 0..MaxSerial
        BY CertAssumption DEF CertAssumption
      <4>2. RequestMachineCertificate(certRow[h]) = [certRow[h] EXCEPT !.pushed = 0]
        BY <3>2 DEF RequestMachineCertificate
      <4> QED BY <1>3, <3>2, <4>1, <4>2, RowsChanged DEF NoNewSerial
    <3>3. CASE certRow[h] # NoCertRow /\ ~Usable(certRow[h])
      BY <1>2, <3>3 DEF RequestMachineCertificate, NoNewSerial
    <3> QED BY <3>1, <3>2, <3>3
  <2> QED BY <1>4, <1>5, <1>6, <2>1 DEF NameAdded, CertRowsOrNone
<1>7. CASE NameReleased(h)
  BY <1>4, <1>5, <1>7 DEF NameReleased, NoNewSerial, CertRowsOrNone
<1>8. CASE CertificateAges(h)
  <2>1. PICK a \in {"fresh", "due", "expired"} : SetRow(h, [certRow[h] EXCEPT !.age = a])
    BY <1>8 DEF CertificateAges
  <2>2. certRow[h] # NoCertRow
    BY <1>8 DEF CertificateAges, CanIssue
  <2> QED BY <1>3, <1>4, <2>1, <2>2, RowsChanged DEF NoNewSerial, CertRowsOrNone
<1>9. CASE BackoffPasses(h)
  BY <1>3, <1>4, <1>9, RowsChanged DEF BackoffPasses, NoNewSerial, CertRowsOrNone
<1> QED BY <1>6, <1>7, <1>8, <1>9

LEMMA MachinesKeep ==
  ASSUME CertInv, OrdersInv', NEW h \in CertNames, NodeChanges(h) \/ CacheForgets(h)
  PROVE  CertInv'
<1>1. UNCHANGED <<certRow, wanted, acmeDirectory, inflight, orderJob, certPass>>
  BY DEF NodeChanges, CacheForgets
<1>2. node' \in CertNodes
  BY CertInvParts DEF NodeChanges, CacheForgets, CertNodes
<1>3. disk' \in [CertNames -> 0..MaxSerial]
  <2>1. 0 \in 0..MaxSerial
    BY CertAssumption DEF CertAssumption
  <2> QED BY <2>1, CertInvParts DEF NodeChanges, CacheForgets
<1>4. fileCache' \in [CertNames -> 0..MaxSerial \cup {NotCached}]
  BY CertInvParts DEF NodeChanges, CacheForgets
<1> QED BY <1>1, <1>2, <1>3, <1>4, RowsUntouched, CertInvFrom, CertInvParts

LEMMA OrdersKeep ==
  ASSUME CertInv, OrdersInv', NEW o \in OrderSlots, OrderStep(o)
  PROVE  CertInv'
<1>1. PICK j : j = orderJob[o]
  OBVIOUS
<1>2. j \in [pc : OrderSteps, host : inflight] /\ o \in OrderBusy
  BY <1>1, OrderAt, CertInvParts DEF OrderStep, OrderIssues, StoreIssued, RecordFailure, OrderLeaves, OrderSteps
<1>3. PICK h : h = j.host
  OBVIOUS
<1>4. h \in CertNames
  BY <1>2, <1>3, CertInvParts
<1>5. UNCHANGED <<wanted, node, disk, fileCache, acmeDirectory, certPass>> /\ inflight' \subseteq CertNames
  BY CertInvParts DEF OrderStep, OrderIssues, StoreIssued, RecordFailure, OrderLeaves
<1>6. ASSUME NEW pc \in OrderSteps \cup {"idle"}, NEW k, k.pc = pc, orderJob' = [orderJob EXCEPT ![o] = k],
             pc = "store" => k.host = h /\ (certRow'[h] = NoCertRow \/ certRow'[h].serial < MaxSerial),
             \A g \in CertNames \ {h} : certRow'[g] = certRow[g],
             UNCHANGED certRow \/ pc # "store"
      PROVE  SerialsFit'
  <2>1. ASSUME NEW p \in OrderSlots, orderJob'[p].pc = "store"
        PROVE  certRow'[orderJob'[p].host] = NoCertRow \/ certRow'[orderJob'[p].host].serial < MaxSerial
    <3>1. orderJob' = [q \in OrderSlots |-> IF q = o THEN k ELSE orderJob[q]]
      BY <1>6, CertInvParts DEF OrdersInv
    <3>2. CASE p = o
      BY <1>6, <2>1, <3>1, <3>2
    <3>3. CASE p # o
      <4>1. orderJob'[p] = orderJob[p] /\ orderJob[p].pc = "store"
        BY <2>1, <3>1, <3>3
      <4>2. p \in OrderBusy /\ orderJob[p].host \in inflight
        BY <4>1, OrderAt, CertInvParts DEF OrderSteps
      <4>3. orderJob[p].host # h
        BY <1>1, <1>2, <1>3, <3>3, <4>2, CertInvParts DEF OrdersInv
      <4>4. orderJob[p].host \in CertNames \ {h}
        BY <4>2, <4>3, CertInvParts
      <4> QED BY <1>6, <4>1, <4>4, CertInvParts DEF SerialsFit
    <3> QED BY <3>2, <3>3
  <2> QED BY <2>1 DEF SerialsFit
<1>7. ASSUME NEW pc \in OrderSteps PROVE [j EXCEPT !.pc = pc].pc = pc /\ [j EXCEPT !.pc = pc].host = h
  BY <1>2, <1>3
<1>8. CASE OrderIssues(o)
  <2>1. UNCHANGED certRow
    BY <1>8 DEF OrderIssues
  <2>2. PICK pc \in OrderSteps : /\ orderJob' = [orderJob EXCEPT ![o] = [j EXCEPT !.pc = pc]]
                                 /\ pc = "store" => certRow[h] = NoCertRow \/ certRow[h].serial < MaxSerial
    <3>1. CASE orderJob' = [orderJob EXCEPT ![o].pc = "store"] /\ (CanIssue(h) \/ certRow[h] = NoCertRow)
      BY <1>1, <3>1 DEF CanIssue, OrderSteps
    <3>2. CASE orderJob' = [orderJob EXCEPT ![o].pc = "failed"]
      BY <1>1, <3>2 DEF OrderSteps
    <3>3. CASE orderJob' = [orderJob EXCEPT ![o].pc = "limited"]
      BY <1>1, <3>3 DEF OrderSteps
    <3> QED BY <1>1, <1>3, <1>8, <3>1, <3>2, <3>3 DEF OrderIssues
  <2>3. SerialsFit'
    BY <1>6, <1>7, <2>1, <2>2
  <2> QED BY <1>5, <2>1, <2>3, CertInvFrom, CertInvParts
<1>9. CASE StoreIssued(o)
  <2>1. certRow[h] = NoCertRow \/ certRow[h].serial < MaxSerial
    BY <1>1, <1>3, <1>9, CertInvParts DEF StoreIssued, SerialsFit
  <2>2. CASE certRow[h] = NoCertRow
    <3>1. UNCHANGED certRow
      BY <1>1, <1>3, <1>9, <2>2 DEF StoreIssued
    <3>2. orderJob' = [orderJob EXCEPT ![o] = [j EXCEPT !.pc = "leave"]]
      BY <1>1, <1>9 DEF StoreIssued
    <3>3. SerialsFit'
      BY <1>6, <1>7, <3>1, <3>2 DEF OrderSteps
    <3> QED BY <1>5, <3>1, <3>3, CertInvFrom, CertInvParts
  <2>3. CASE certRow[h] # NoCertRow
    <3>1. PICK row : row = [certRow[h] EXCEPT !.serial = @ + 1, !.age = "fresh", !.attempts = 0, !.waiting = FALSE]
      OBVIOUS
    <3>2. certRow[h] \in CertRows
      BY <1>4, <2>3, CertInvParts DEF CertRowsOrNone
    <3>3. row \in CertRows
      BY <2>1, <2>3, <3>1, <3>2, RowIssued
    <3>4. certRow' = [certRow EXCEPT ![h] = row]
      BY <1>1, <1>3, <1>9, <2>3, <3>1 DEF StoreIssued, SetRow
    <3>5. certRow' \in [CertNames -> CertRowsOrNone] /\ \A g \in CertNames \ {h} : certRow'[g] = certRow[g]
      BY <1>4, <3>3, <3>4, CertInvParts DEF CertRowsOrNone
    <3>6. orderJob' = [orderJob EXCEPT ![o] = [j EXCEPT !.pc = "leave"]]
      BY <1>1, <1>9 DEF StoreIssued
    <3>7. SerialsFit'
      BY <1>6, <1>7, <3>5, <3>6 DEF OrderSteps
    <3> QED BY <1>5, <3>5, <3>7, CertInvFrom, CertInvParts
  <2> QED BY <2>2, <2>3
<1>10. CASE RecordFailure(o)
  <2>1. PICK n : n = IF orderJob[o].pc = "limited" \/ certRow[h].attempts > MaxBackoffStep
                     THEN MaxBackoffStep + 1 ELSE certRow[h].attempts + 1
    OBVIOUS
  <2>2. UpdateRow(h, [certRow[h] EXCEPT !.attempts = n, !.waiting = TRUE])
    BY <1>1, <1>3, <1>10, <2>1 DEF RecordFailure
  <2>3. ASSUME certRow[h] # NoCertRow PROVE certRow[h] \in CertRows /\ n \in 0..(MaxBackoffStep + 1)
    <3>1. certRow[h] \in CertRows
      BY <1>4, <2>3, CertInvParts DEF CertRowsOrNone
    <3>2. certRow[h].attempts \in 0..(MaxBackoffStep + 1)
      BY <3>1 DEF CertRows
    <3> QED BY <2>1, <3>1, <3>2, CertAssumption DEF CertAssumption
  <2>4. certRow' \in [CertNames -> CertRowsOrNone] /\ \A g \in CertNames \ {h} : certRow'[g] = certRow[g]
    <3>1. CASE certRow[h] = NoCertRow
      BY <2>2, <3>1, CertInvParts DEF UpdateRow
    <3>2. CASE certRow[h] # NoCertRow
      BY <1>4, <2>2, <2>3, <3>2, RowFails, CertInvParts DEF UpdateRow, CertRowsOrNone
    <3> QED BY <3>1, <3>2
  <2>5. orderJob' = [orderJob EXCEPT ![o] = [j EXCEPT !.pc = "leave"]]
    BY <1>1, <1>10 DEF RecordFailure
  <2>6. SerialsFit'
    BY <1>6, <1>7, <2>4, <2>5 DEF OrderSteps
  <2> QED BY <1>5, <2>4, <2>6, CertInvFrom, CertInvParts
<1>11. CASE OrderLeaves(o)
  <2>1. UNCHANGED certRow /\ orderJob' = [orderJob EXCEPT ![o] = CertIdle] /\ CertIdle.pc = "idle"
    BY <1>11 DEF OrderLeaves, CertIdle
  <2>2. SerialsFit'
    BY <1>6, <2>1
  <2> QED BY <1>5, <2>1, <2>2, CertInvFrom, CertInvParts
<1> QED BY <1>8, <1>9, <1>10, <1>11 DEF OrderStep

-----------------------------------------------------------------------------
(* The certificate stage of a pass                                         *)

CertListed(p) == <<p.live, p.node, p.due, p.todo>>

\* What a pass goes on with.
LEMMA NextPassTyped ==
  ASSUME NEW p \in CertNamePasses, NEW due \in SUBSET CertNames
  PROVE  [pc |-> "next", live |-> p.live, node |-> p.node, todo |-> p.todo, due |-> due] \in CertPasses
<1>1. [pc |-> "next", live |-> p.live, node |-> p.node, todo |-> p.todo, due |-> due] \in CertNextPasses
  BY DEF CertNamePasses, CertNextPasses
<1> QED BY <1>1 DEF CertPasses

LEMMA NameTurnEnds ==
  ASSUME certPass \in CertNamePasses, NEW row, NextName(row)
  PROVE  certPass' \in CertPasses
<1>1. PICK due : due = certPass.due \cup IF OrderDue(certPass.host, row) THEN {certPass.host} ELSE {}
  OBVIOUS
<1>2. due \in SUBSET CertNames
  BY <1>1 DEF CertNamePasses
<1> QED BY <1>1, <1>2, NextPassTyped DEF NextName, PassNext, PassGoto

\* A pass at a name that goes to its next step, with this row.
LEMMA NamePassMoves ==
  ASSUME NEW p \in CertNamePasses, NEW pc \in {"ari", "drift", "push", "pushed"}, NEW row \in CertRows
  PROVE  /\ [p EXCEPT !.pc = pc] \in CertNamePasses
         /\ [[p EXCEPT !.pc = pc] EXCEPT !.row = row] \in CertNamePasses
<1>1. PICK q : q = [p EXCEPT !.pc = pc]
  OBVIOUS
<1>2. q \in CertNamePasses
  BY <1>1 DEF CertNamePasses
<1>3. [q EXCEPT !.row = row] \in CertNamePasses
  BY <1>2 DEF CertNamePasses
<1> QED BY <1>1, <1>2, <1>3

\* A step of a pass between the table and the Machines' files.
LEMMA CertPassFrom ==
  ASSUME CertInv, OrdersInv', UNCHANGED <<wanted, node, acmeDirectory, inflight, orderJob>>,
         certPass' \in CertPasses, certRow' \in [CertNames -> CertRowsOrNone] /\ SerialsFit',
         disk' \in [CertNames -> 0..MaxSerial], fileCache' \in [CertNames -> 0..MaxSerial \cup {NotCached}]
  PROVE  CertInv'
BY CertInvFrom, CertInvParts

\* One that writes neither.
LEMMA CertPassReads ==
  ASSUME CertInv, OrdersInv', UNCHANGED <<certRow, wanted, node, disk, fileCache, acmeDirectory, inflight, orderJob>>,
         certPass' \in CertPasses
  PROVE  CertInv'
BY RowsUntouched, CertPassFrom, CertInvParts

LEMMA CertListKeeps ==
  ASSUME CertInv, OrdersInv', CertPassList
  PROVE  CertInv'
<1>1. PICK todo : todo = {h \in wanted : h \in DomainNames \/ node[h] # "gone"}
  OBVIOUS
<1>2. todo \in SUBSET CertNames /\ {} \in SUBSET CertNames /\ wanted \in SUBSET CertNames /\ node \in CertNodes
  BY <1>1, CertInvParts
<1>3. [pc |-> "next", live |-> wanted, node |-> node, due |-> {}, todo |-> todo] \in CertNextPasses
  BY <1>2 DEF CertNextPasses
<1>4. certPass' \in CertPasses
  BY <1>1, <1>3 DEF CertPassList, PassGoto, CertPasses
<1> QED BY <1>4, CertPassReads DEF CertPassList

LEMMA CertRowKeeps ==
  ASSUME CertInv, OrdersInv', CertPassRow
  PROVE  CertInv'
<1>1. certPass \in CertNextPasses
  BY CertInvParts, CertPassAt DEF CertPassRow
<1>2. PICK h \in certPass.todo :
        LET rest == [certPass EXCEPT !.todo = @ \ {h}]
            row == IF certRow[h] = NoCertRow THEN PendingRow
                   ELSE IF certRow[h].dir # acmeDirectory /\ (h \in DomainNames \/ HasCertificate(certRow[h]))
                   THEN PendingRow ELSE certRow[h]
        IN \/ PassGoto(rest) /\ UNCHANGED certRow
           \/ /\ PassGoto([pc |-> "ari", live |-> rest.live, node |-> rest.node, due |-> rest.due, todo |-> rest.todo,
                           host |-> h, row |-> row])
              /\ SetRow(h, row)
  BY DEF CertPassRow
<1>3. h \in CertNames
  BY <1>1 DEF CertNextPasses
<1>4. PICK rest : rest = [certPass EXCEPT !.todo = @ \ {h}]
  OBVIOUS
<1>5. rest \in CertNextPasses
  BY <1>1, <1>4 DEF CertNextPasses
<1>6. PICK row : row = IF certRow[h] = NoCertRow THEN PendingRow
                       ELSE IF certRow[h].dir # acmeDirectory /\ (h \in DomainNames \/ HasCertificate(certRow[h]))
                       THEN PendingRow ELSE certRow[h]
  OBVIOUS
<1>7. row \in CertRows /\ NoNewSerial(h, row)
  <2>1. PendingRow \in CertRows /\ PendingRow.serial = 0
    BY CertInvParts, PendingRowTyped
  <2>2. row = PendingRow \/ (certRow[h] # NoCertRow /\ row = certRow[h])
    BY <1>6
  <2> QED BY <1>3, <2>1, <2>2, CertInvParts DEF NoNewSerial, CertRowsOrNone
<1>8. UNCHANGED <<wanted, node, disk, fileCache, acmeDirectory, inflight, orderJob>>
  BY DEF CertPassRow
<1>9. CASE PassGoto(rest) /\ UNCHANGED certRow
  BY <1>5, <1>8, <1>9, CertPassReads DEF PassGoto, CertPasses
<1>10. CASE /\ PassGoto([pc |-> "ari", live |-> rest.live, node |-> rest.node, due |-> rest.due, todo |-> rest.todo,
                         host |-> h, row |-> row])
            /\ SetRow(h, row)
  <2>1. certPass' \in CertNamePasses
    BY <1>3, <1>5, <1>7, <1>10 DEF PassGoto, CertNextPasses, CertNamePasses
  <2>2. certRow' \in [CertNames -> CertRowsOrNone] /\ SerialsFit'
    BY <1>3, <1>7, <1>8, <1>10, RowKeeps DEF SetRow, CertRowsOrNone
  <2> QED BY <1>8, <2>1, <2>2, CertPassFrom, CertInvParts DEF CertPasses
<1> QED BY <1>2, <1>4, <1>6, <1>9, <1>10

LEMMA CertARIKeeps ==
  ASSUME CertInv, OrdersInv', CertPassARI
  PROVE  CertInv'
<1>1. certPass \in CertNamePasses
  BY CertInvParts, CertPassAt DEF CertPassARI
<1>2. PICK h : h = certPass.host
  OBVIOUS
<1>3. h \in CertNames /\ certPass.due \in SUBSET CertNames /\ certPass.row \in CertRows
  BY <1>1, <1>2 DEF CertNamePasses
<1>4. PICK on : on = [certPass EXCEPT !.pc = "drift"]
  OBVIOUS
<1>5. on \in CertNamePasses
  BY <1>1, <1>3, <1>4, NamePassMoves
<1>6. UNCHANGED <<wanted, node, disk, fileCache, acmeDirectory, inflight, orderJob>>
  BY DEF CertPassARI
<1>7. CASE PassGoto(on) /\ UNCHANGED certRow
  BY <1>5, <1>6, <1>7, CertPassReads DEF PassGoto, CertPasses
<1>8. CASE PassNext(certPass.due) /\ UNCHANGED certRow
  BY <1>1, <1>3, <1>6, <1>8, NextPassTyped, CertPassReads DEF PassNext, PassGoto
<1>9. CASE /\ CanIssue(h)
           /\ UpdateRow(h, [certRow[h] EXCEPT !.age = IF @ = "expired" THEN @ ELSE "due"])
           /\ PassGoto([on EXCEPT !.row = certRow'[h]])
  <2>1. certRow[h] # NoCertRow /\ certRow[h] \in CertRows
    BY <1>3, <1>9, CertInvParts DEF CanIssue, CertRowsOrNone
  <2>2. PICK a : a = IF certRow[h].age = "expired" THEN certRow[h].age ELSE "due"
    OBVIOUS
  <2>3. a \in {"fresh", "due", "expired"}
    BY <2>2
  <2>4. PICK row : row = [certRow[h] EXCEPT !.age = a]
    OBVIOUS
  <2>5. row \in CertRows /\ row.serial = certRow[h].serial
    BY <2>1, <2>3, <2>4, RowsChanged
  <2>6. UpdateRow(h, row)
    BY <1>9, <2>2, <2>4
  <2>7. certRow' \in [CertNames -> CertRowsOrNone] /\ SerialsFit'
    BY <1>3, <1>6, <2>5, <2>6, UpdateKeeps
  <2>8. certRow'[h] = row
    BY <1>3, <2>1, <2>6, CertInvParts DEF UpdateRow
  <2>9. [on EXCEPT !.row = row] \in CertNamePasses
    BY <1>5, <2>5 DEF CertNamePasses
  <2>10. certPass' \in CertPasses
    BY <1>9, <2>8, <2>9 DEF PassGoto, CertPasses
  <2> QED BY <1>6, <2>7, <2>10, CertPassFrom, CertInvParts
<1> QED BY <1>2, <1>4, <1>7, <1>8, <1>9 DEF CertPassARI

LEMMA CertDriftKeeps ==
  ASSUME CertInv, OrdersInv', CertPassDrift
  PROVE  CertInv'
<1>1. certPass \in CertNamePasses
  BY CertInvParts, CertPassAt DEF CertPassDrift
<1>2. PICK h : h = certPass.host
  OBVIOUS
<1>3. PICK row : row = certPass.row
  OBVIOUS
<1>4. h \in CertNames /\ row \in CertRows /\ row.serial \in 0..MaxSerial /\ row.pushed \in 0..MaxSerial
  BY <1>1, <1>2, <1>3 DEF CertNamePasses, CertRows
<1>5. 0 \in 0..MaxSerial
  BY CertAssumption DEF CertAssumption
<1>6. UNCHANGED <<wanted, node, disk, acmeDirectory, inflight, orderJob>>
  BY DEF CertPassDrift
<1>7. ReadDisk(h) \in 0..MaxSerial
  BY <1>4, CertInvParts DEF ReadDisk
<1>8. fileCache' \in [CertNames -> 0..MaxSerial \cup {NotCached}]
  <2>1. fileCache' = fileCache \/ fileCache' = [fileCache EXCEPT ![h] = ReadDisk(h)]
    BY <1>2 DEF CertPassDrift
  <2> QED BY <1>7, <2>1, CertInvParts
<1>9. certRow' \in [CertNames -> CertRowsOrNone] /\ SerialsFit'
  <2>1. UNCHANGED certRow \/ UpdateRow(h, [certRow[h] EXCEPT !.pushed = 0])
    BY <1>2 DEF CertPassDrift
  <2>2. CASE UpdateRow(h, [certRow[h] EXCEPT !.pushed = 0])
    <3>1. certRow[h] # NoCertRow => certRow[h] \in CertRows
      BY <1>4, CertInvParts DEF CertRowsOrNone
    <3> QED BY <1>4, <1>5, <1>6, <2>2, <3>1, RowsChanged, UpdateKeeps
  <2> QED BY <1>6, <2>1, <2>2, RowsUntouched
<1>10. certPass' \in CertNamePasses
  <2>1. PICK s \in 0..MaxSerial : certPass' = [certPass EXCEPT !.pc = "push", !.row.pushed = s]
    <3>1. PICK compared : compared = (/\ certPass.node[h] \in {"bare", "ready"} /\ HasCertificate(row)
                                      /\ h \in DomainNames \/ row.pushed = row.serial)
      OBVIOUS
    <3>2. PICK drifted : drifted = (compared /\ ReadDisk(h) # row.serial)
      OBVIOUS
    <3>3. PICK s : s = IF drifted THEN 0 ELSE IF compared THEN row.serial ELSE row.pushed
      OBVIOUS
    <3>4. s \in 0..MaxSerial
      BY <1>4, <1>5, <3>3
    <3>5. certPass' = [certPass EXCEPT !.pc = "push", !.row.pushed = s]
      BY <1>2, <1>3, <3>1, <3>2, <3>3 DEF CertPassDrift, PassGoto
    <3> QED BY <3>4, <3>5
  <2>2. PICK new : new = [row EXCEPT !.pushed = s]
    OBVIOUS
  <2>3. new \in CertRows
    BY <1>4, <2>1, <2>2, RowsChanged
  <2>4. PICK p : p = [certPass EXCEPT !.pc = "push"]
    OBVIOUS
  <2>5. p \in CertNamePasses /\ p.row = row
    BY <1>1, <1>3, <2>4 DEF CertNamePasses
  <2>6. certPass' = [p EXCEPT !.row = new]
    BY <1>1, <1>3, <2>1, <2>2, <2>4, <2>5 DEF CertNamePasses
  <2> QED BY <2>3, <2>5, <2>6 DEF CertNamePasses
<1> QED BY <1>6, <1>8, <1>9, <1>10, CertPassFrom, CertInvParts DEF CertPasses

LEMMA CertPushKeeps ==
  ASSUME CertInv, OrdersInv', CertPassPush
  PROVE  CertInv'
<1>1. certPass \in CertNamePasses
  BY CertInvParts, CertPassAt DEF CertPassPush
<1>2. PICK h : h = certPass.host
  OBVIOUS
<1>3. h \in CertNames /\ certPass.row \in CertRows /\ certPass.row.serial \in 0..MaxSerial
  BY <1>1, <1>2 DEF CertNamePasses, CertRows
<1>4. UNCHANGED <<certRow, wanted, node, acmeDirectory, inflight, orderJob>>
  BY DEF CertPassPush
<1>5. disk' \in [CertNames -> 0..MaxSerial]
  <2>1. disk' = disk \/ disk' = [disk EXCEPT ![h] = certPass.row.serial]
    BY <1>2 DEF CertPassPush
  <2> QED BY <1>3, <2>1, CertInvParts
<1>6. fileCache' \in [CertNames -> 0..MaxSerial \cup {NotCached}]
  <2>1. fileCache' = fileCache \/ fileCache' = [fileCache EXCEPT ![h] = NotCached]
    BY <1>2 DEF CertPassPush
  <2> QED BY <2>1, CertInvParts
<1>7. certPass' \in CertPasses
  <2>1. PassGoto([certPass EXCEPT !.pc = "pushed"]) \/ NextName(certPass.row)
    BY DEF CertPassPush
  <2>2. [certPass EXCEPT !.pc = "pushed"] \in CertPasses
    BY <1>1, <1>3, NamePassMoves DEF CertPasses
  <2> QED BY <1>1, <2>1, <2>2, NameTurnEnds DEF PassGoto
<1> QED BY <1>4, <1>5, <1>6, <1>7, RowsUntouched, CertPassFrom

LEMMA CertPushedKeeps ==
  ASSUME CertInv, OrdersInv', CertPassPushed
  PROVE  CertInv'
<1>1. certPass \in CertNamePasses
  BY CertInvParts, CertPassAt DEF CertPassPushed
<1>2. PICK h : h = certPass.host
  OBVIOUS
<1>3. h \in CertNames /\ certPass.row.serial \in 0..MaxSerial
  BY <1>1, <1>2 DEF CertNamePasses, CertRows
<1>4. UpdateRow(h, [certRow[h] EXCEPT !.pushed = certPass.row.serial])
  BY <1>2 DEF CertPassPushed
<1>5. UNCHANGED <<wanted, node, disk, fileCache, acmeDirectory, inflight, orderJob>>
  BY DEF CertPassPushed
<1>6. certRow[h] # NoCertRow => certRow[h] \in CertRows
  BY <1>3, CertInvParts DEF CertRowsOrNone
<1>7. certRow' \in [CertNames -> CertRowsOrNone] /\ SerialsFit'
  BY <1>3, <1>4, <1>5, <1>6, RowsChanged, UpdateKeeps
<1>8. certPass' \in CertPasses
  BY <1>1, NameTurnEnds DEF CertPassPushed
<1> QED BY <1>5, <1>7, <1>8, CertPassFrom, CertInvParts

LEMMA CertScheduleKeeps ==
  ASSUME CertInv, OrdersInv', CertPassSchedule
  PROVE  CertInv'
<1>1. certPass \in CertNextPasses
  BY CertInvParts, CertPassAt DEF CertPassSchedule
<1>2. UNCHANGED <<certRow, wanted, node, disk, fileCache, acmeDirectory>>
  BY DEF CertPassSchedule
<1>3. ASSUME NEW h \in certPass.due, NEW o \in OrderSlots, StartOrder(h, o),
             PassGoto([certPass EXCEPT !.due = @ \ {h}])
      PROVE  CertInv'
  <2>1. h \in CertNames
    BY <1>1 DEF CertNextPasses
  <2>2. inflight' \subseteq CertNames
    BY <1>3, <2>1, CertInvParts DEF StartOrder
  <2>3. [certPass EXCEPT !.due = @ \ {h}] \in CertNextPasses
    BY <1>1 DEF CertNextPasses
  <2>4. certPass' \in CertPasses
    BY <1>3, <2>3 DEF PassGoto, CertPasses
  <2>5. SerialsFit'
    <3>1. PICK k : k = [pc |-> "issue", host |-> h]
      OBVIOUS
    <3>2. orderJob' = [orderJob EXCEPT ![o] = k] /\ k.pc = "issue"
      BY <1>3, <3>1 DEF StartOrder
    <3>3. \A p \in OrderSlots : orderJob'[p] = IF p = o THEN k ELSE orderJob[p]
      BY <3>2, CertInvParts DEF OrdersInv
    <3> QED BY <1>2, <3>2, <3>3, CertInvParts DEF SerialsFit
  <2> QED BY <1>2, <2>2, <2>4, <2>5, CertInvFrom, CertInvParts
<1>4. CASE PassGoto([certPass EXCEPT !.pc = "gc"]) /\ UNCHANGED <<orderJob, inflight>>
  <2>1. [certPass EXCEPT !.pc = "gc"] \in CertNextPasses
    BY <1>1 DEF CertNextPasses
  <2> QED BY <1>2, <1>4, <2>1, CertPassReads DEF PassGoto, CertPasses
<1> QED BY <1>3, <1>4 DEF CertPassSchedule

LEMMA CertGCKeeps ==
  ASSUME CertInv, OrdersInv', CertGCList \/ CertGCDrop
  PROVE  CertInv'
<1>1. CASE CertGCList
  <2>1. PICK drop : drop = {h \in CertNames \ certPass.live : certRow[h] # NoCertRow /\ ~Usable(certRow[h])}
    OBVIOUS
  <2>2. [pc |-> "drop", drop |-> drop] \in CertDropPasses
    BY <2>1 DEF CertDropPasses
  <2>3. certPass' \in CertPasses
    BY <1>1, <2>1, <2>2 DEF CertGCList, PassGoto, CertPasses
  <2> QED BY <1>1, <2>3, CertPassReads DEF CertGCList
<1>2. CASE CertGCDrop
  <2>1. certPass \in CertDropPasses
    BY <1>2, CertInvParts, CertPassAt DEF CertGCDrop
  <2>2. UNCHANGED <<wanted, node, disk, fileCache, acmeDirectory, inflight, orderJob>>
    BY <1>2 DEF CertGCDrop
  <2>3. ASSUME NEW h \in certPass.drop, SetRow(h, NoCertRow), PassGoto([certPass EXCEPT !.drop = @ \ {h}])
        PROVE  CertInv'
    <3>1. h \in CertNames /\ [certPass EXCEPT !.drop = @ \ {h}] \in CertDropPasses
      BY <2>1 DEF CertDropPasses
    <3>2. certPass' \in CertPasses
      BY <2>3, <3>1 DEF PassGoto, CertPasses
    <3>3. certRow' \in [CertNames -> CertRowsOrNone] /\ SerialsFit'
      BY <2>2, <2>3, <3>1, RowKeeps DEF SetRow, NoNewSerial, CertRowsOrNone
    <3> QED BY <2>2, <3>2, <3>3, CertPassFrom, CertInvParts
  <2>4. CASE PassGoto(CertIdle) /\ UNCHANGED certRow
    BY <2>2, <2>4, CertPassReads DEF PassGoto, CertPasses
  <2> QED BY <1>2, <2>3, <2>4 DEF CertGCDrop
<1> QED BY <1>1, <1>2

LEMMA CertInitially == CertInit => CertInv
<1> SUFFICES ASSUME CertInit PROVE CertInv
  OBVIOUS
<1>1. 0 \in 0..MaxSerial
  BY CertAssumption DEF CertAssumption
<1>2. SerialsFit
  BY DEF CertInit, SerialsFit, CertIdle
<1> QED BY <1>1, <1>2, OrdersInitInv DEF CertInit, CertInv, CertTypeOK, CertPasses

LEMMA CertKept == CertInv /\ [CertNext]_certVars => CertInv'
<1> SUFFICES ASSUME CertInv, [CertNext]_certVars PROVE CertInv'
  OBVIOUS
<1>1. OrdersInv'
  BY OrdersStepInv, CertInvParts
<1>2. CASE CertPassStep
  BY <1>1, <1>2, CertListKeeps, CertRowKeeps, CertARIKeeps, CertDriftKeeps, CertPushKeeps, CertPushedKeeps,
     CertScheduleKeeps, CertGCKeeps DEF CertPassStep
<1>3. CASE CertRestart
  <2>1. SerialsFit'
    BY <1>3 DEF CertRestart, SerialsFit, CertIdle
  <2>2. fileCache' \in [CertNames -> 0..MaxSerial \cup {NotCached}] /\ certPass' \in CertPasses
        /\ acmeDirectory' \in Directories /\ inflight' \subseteq CertNames
    BY <1>3 DEF CertRestart, CertPasses
  <2>3. UNCHANGED <<certRow, wanted, node, disk>>
    BY <1>3 DEF CertRestart
  <2> QED BY <1>1, <2>1, <2>2, <2>3, CertInvFrom, CertInvParts
<1>4. CASE UNCHANGED certVars
  BY <1>1, <1>4, RowsUntouched, CertInvFrom, CertInvParts DEF certVars
<1>5. ASSUME NEW h \in CertNames, \/ NameAdded(h) \/ NameReleased(h) \/ NodeChanges(h) \/ CacheForgets(h)
                                  \/ CertificateAges(h) \/ BackoffPasses(h)
      PROVE  CertInv'
  BY <1>1, <1>5, NamesKeep, MachinesKeep
<1>6. ASSUME NEW o \in OrderSlots, OrderStep(o) PROVE CertInv'
  BY <1>1, <1>6, OrdersKeep
<1> QED BY <1>2, <1>3, <1>4, <1>5, <1>6 DEF CertNext

-----------------------------------------------------------------------------
(* The Route manager                                                       *)

PortJobs == [pc : {"port"}, host : RouteHosts, machine : Backends, addr : Addresses]
WireJobs == [pc : {"insert", "wire"}, host : RouteHosts, machine : Backends, addr : Addresses, port : LocalPorts]
UnwireJobs == [pc : {"unwire"}, host : RouteHosts]
ListedJobs == [pc : {"apply", "front"}, listed : SUBSET RouteTableRows]
NextJobs == [pc : {"next"}, todo : SUBSET RouteTableRows, pruned : BOOLEAN]
PruneJobs == [pc : {"prune", "pruned"}, todo : SUBSET RouteTableRows, pruned : BOOLEAN, row : RouteTableRows]
RefreshJobs ==
  [pc : {"refresh"}, todo : SUBSET RouteTableRows, pruned : BOOLEAN, row : RouteTableRows, addr : Addresses]
RouteRender == [pc |-> "render"]
RouteJobs ==
  {RouteIdle, RouteRender} \cup PortJobs \cup WireJobs \cup UnwireJobs \cup ListedJobs
    \cup NextJobs \cup PruneJobs \cup RefreshJobs

\* A job holds what its step needs, of the right type.
RouteInv == RouteTypeOK /\ routeJob \in [RouteWorkers -> RouteJobs]

LEMMA RouteJobSteps ==
  ASSUME NEW j \in RouteJobs
  PROVE  /\ j.pc = "port" => j \in PortJobs
         /\ j.pc \in {"insert", "wire"} => j \in WireJobs
         /\ j.pc = "unwire" => j \in UnwireJobs
         /\ j.pc \in {"apply", "front"} => j \in ListedJobs
         /\ j.pc = "next" => j \in NextJobs
         /\ j.pc \in {"prune", "pruned"} => j \in PruneJobs
         /\ j.pc = "refresh" => j \in RefreshJobs
<1>1. CASE j \in {RouteIdle, RouteRender}
  BY <1>1 DEF RouteIdle, RouteRender
<1>2. CASE j \in PortJobs \cup WireJobs \cup UnwireJobs \cup ListedJobs
  BY <1>2 DEF PortJobs, WireJobs, UnwireJobs, ListedJobs
<1>3. CASE j \in NextJobs \cup PruneJobs \cup RefreshJobs
  BY <1>3 DEF NextJobs, PruneJobs, RefreshJobs
<1> QED BY <1>1, <1>2, <1>3 DEF RouteJobs

LEMMA RouteGoes ==
  ASSUME RouteInv, NEW x \in RouteWorkers, NEW j \in RouteJobs, RouteGoto(x, j), RouteTypeOK'
  PROVE  RouteInv'
BY DEF RouteInv, RouteGoto

LEMMA RouteEnds ==
  ASSUME RouteInv, NEW x \in RouteWorkers, RouteEnd(x), RouteTypeOK'
  PROVE  RouteInv'
BY RouteGoes DEF RouteEnd, RouteJobs

LEMMA RoutesAlone ==
  ASSUME RouteInv, UNCHANGED <<routeTable, backend, device, caddy, front>>
  PROVE  RouteTypeOK'
BY DEF RouteInv, RouteTypeOK

\* A step of a job that only reads.
LEMMA RouteReads ==
  ASSUME RouteInv, NEW x \in RouteWorkers, NEW j \in RouteJobs, RouteGoto(x, j),
         UNCHANGED <<routeTable, backend, device, caddy, front>>
  PROVE  RouteInv'
BY RoutesAlone, RouteGoes

LEMMA PublishKeeps ==
  ASSUME RouteInv, NEW x \in RouteWorkers, NEW h \in RouteHosts, NEW m \in Backends, PublishState(x, h, m)
  PROVE  RouteInv'
<1>1. PICK j : j = [pc |-> "port", host |-> h, machine |-> m, addr |-> backend[m]]
  OBVIOUS
<1>2. j \in PortJobs
  BY <1>1 DEF PublishState, IsRunning, PortJobs
<1> QED BY <1>1, <1>2, RouteReads DEF PublishState, RouteJobs

LEMMA UpsertedTypes ==
  ASSUME NEW j \in PortJobs, NEW p \in LocalPorts, NEW pc \in {"insert", "wire"}
  PROVE  Upserted(pc, j, p) \in RouteJobs
<1>1. Upserted(pc, j, p) \in WireJobs
  BY DEF Upserted, PortJobs, WireJobs
<1> QED BY <1>1 DEF RouteJobs

LEMMA UpsertReadKeeps ==
  ASSUME RouteInv, NEW x \in RouteWorkers, UpsertRead(x)
  PROVE  RouteInv'
<1>1. PICK j : j = routeJob[x]
  OBVIOUS
<1>2. j \in PortJobs
  BY <1>1, RouteJobSteps DEF RouteInv, UpsertRead, RouteAt
<1>3. \A r \in routeTable : r.port \in LocalPorts
  BY DEF RouteInv, RouteTypeOK, RouteTableRows
<1>4. \/ \E r \in routeTable : RouteGoto(x, Upserted("wire", j, r.port))
      \/ RouteEnd(x)
      \/ \E p \in LocalPorts : RouteGoto(x, Upserted("insert", j, p))
  BY <1>1 DEF UpsertRead
<1>5. UNCHANGED <<routeTable, backend, device, caddy, front>>
  BY DEF UpsertRead
<1> QED BY <1>2, <1>3, <1>4, <1>5, UpsertedTypes, RouteReads, RouteEnds, RoutesAlone

LEMMA UpsertInsertKeeps ==
  ASSUME RouteInv, NEW x \in RouteWorkers, UpsertInsert(x)
  PROVE  RouteInv'
<1>1. PICK j : j = routeJob[x]
  OBVIOUS
<1>2. j \in WireJobs
  BY <1>1, RouteJobSteps DEF RouteInv, UpsertInsert, RouteAt
<1>3. CASE RouteEnd(x) /\ UNCHANGED routeTable
  BY <1>3, RoutesAlone, RouteEnds DEF UpsertInsert
<1>4. CASE /\ routeTable' = routeTable \cup {[host |-> j.host, machine |-> j.machine, port |-> j.port]}
           /\ RouteGoto(x, [j EXCEPT !.pc = "wire"])
  <2>1. [host |-> j.host, machine |-> j.machine, port |-> j.port] \in RouteTableRows
    BY <1>2 DEF RouteTableRows, WireJobs
  <2>2. RouteTypeOK'
    BY <1>4, <2>1 DEF UpsertInsert, RouteInv, RouteTypeOK
  <2>3. [j EXCEPT !.pc = "wire"] \in WireJobs
    BY <1>2 DEF WireJobs
  <2> QED BY <1>4, <2>2, <2>3, RouteGoes DEF RouteJobs
<1> QED BY <1>1, <1>3, <1>4 DEF UpsertInsert

\* A step that writes a device, or removes one.
LEMMA DeviceStep ==
  ASSUME RouteInv, NEW x \in RouteWorkers, UNCHANGED <<routeTable, backend, caddy, front>>,
         NEW j \in RouteJobs, RouteGoto(x, j), NEW h \in RouteHosts,
         RemoveProxyDevice(h) \/ \E p \in LocalPorts, a \in Addresses : EnsureProxyDevice(h, p, a)
  PROVE  RouteInv'
<1>1. \A p \in LocalPorts, a \in Addresses : [port |-> p, addr |-> a] \in RouteDevices
  BY DEF RouteDevices
<1>2. device' \in [RouteHosts -> RouteDevices \cup {NoDevice}]
  BY <1>1 DEF EnsureProxyDevice, RemoveProxyDevice, RouteInv, RouteTypeOK
<1>3. RouteTypeOK'
  BY <1>2 DEF RouteInv, RouteTypeOK
<1> QED BY <1>3, RouteGoes

LEMMA ResumedTypes ==
  ASSUME NEW j \in PruneJobs \cup RefreshJobs
  PROVE  PassResume(j) \in RouteJobs /\ [PassResume(j) EXCEPT !.pruned = TRUE] \in RouteJobs
<1>1. PassResume(j) \in NextJobs
  BY DEF PassResume, PruneJobs, RefreshJobs, NextJobs
<1>2. [PassResume(j) EXCEPT !.pruned = TRUE] \in NextJobs
  BY <1>1 DEF NextJobs
<1> QED BY <1>1, <1>2 DEF RouteJobs

LEMMA WiresKeep ==
  ASSUME RouteInv, NEW x \in RouteWorkers,
         PublishWire(x) \/ DeleteUnwire(x) \/ PruneDevice(x) \/ PassRefresh(x)
  PROVE  RouteInv'
<1>1. PICK j : j = routeJob[x]
  OBVIOUS
<1>2. j \in RouteJobs
  BY <1>1 DEF RouteInv
<1>3. UNCHANGED <<routeTable, backend, caddy, front>>
  BY DEF PublishWire, DeleteUnwire, PruneDevice, PassRefresh
<1>4. CASE RouteEnd(x) /\ UNCHANGED device
  BY <1>3, <1>4, RoutesAlone, RouteEnds
<1>5. RouteRender \in RouteJobs
  BY DEF RouteJobs
<1>6. CASE PublishWire(x)
  <2>1. j \in WireJobs
    BY <1>1, <1>2, <1>6, RouteJobSteps DEF PublishWire, RouteAt
  <2>2. j.host \in RouteHosts /\ j.port \in LocalPorts /\ j.addr \in Addresses
    BY <2>1 DEF WireJobs
  <2>3. \/ RouteEnd(x) /\ UNCHANGED device
        \/ EnsureProxyDevice(j.host, j.port, j.addr) /\ RouteGoto(x, RouteRender)
    BY <1>1, <1>6 DEF PublishWire, RouteRender
  <2> QED BY <1>3, <1>4, <1>5, <2>2, <2>3, DeviceStep
<1>7. CASE DeleteUnwire(x)
  <2>1. j \in UnwireJobs
    BY <1>1, <1>2, <1>7, RouteJobSteps DEF DeleteUnwire, RouteAt
  <2>2. j.host \in RouteHosts
    BY <2>1 DEF UnwireJobs
  <2>3. \/ RouteEnd(x) /\ UNCHANGED device
        \/ RemoveProxyDevice(j.host) /\ RouteGoto(x, RouteRender)
    BY <1>1, <1>7 DEF DeleteUnwire, RouteRender
  <2> QED BY <1>3, <1>4, <1>5, <2>2, <2>3, DeviceStep
<1>8. CASE PruneDevice(x)
  <2>1. j \in PruneJobs
    BY <1>1, <1>2, <1>8, RouteJobSteps DEF PruneDevice, RouteAt
  <2>2. j.row.host \in RouteHosts
    BY <2>1 DEF PruneJobs, RouteTableRows
  <2>3. \/ RouteEnd(x) /\ UNCHANGED device
        \/ RemoveProxyDevice(j.row.host) /\ RouteGoto(x, [PassResume(j) EXCEPT !.pruned = TRUE])
    BY <1>1, <1>8 DEF PruneDevice
  <2> QED BY <1>3, <1>4, <2>1, <2>2, <2>3, ResumedTypes, DeviceStep
<1>9. CASE PassRefresh(x)
  <2>1. j \in RefreshJobs
    BY <1>1, <1>2, <1>9, RouteJobSteps DEF PassRefresh, RouteAt
  <2>2. j.row.host \in RouteHosts /\ j.row.port \in LocalPorts /\ j.addr \in Addresses
    BY <2>1 DEF RefreshJobs, RouteTableRows
  <2>3. \/ RouteEnd(x) /\ UNCHANGED device
        \/ EnsureProxyDevice(j.row.host, j.row.port, j.addr) /\ RouteGoto(x, PassResume(j))
    BY <1>1, <1>9 DEF PassRefresh
  <2> QED BY <1>3, <1>4, <2>1, <2>2, <2>3, ResumedTypes, DeviceStep
<1> QED BY <1>6, <1>7, <1>8, <1>9

LEMMA DeleteKeeps ==
  ASSUME RouteInv, NEW x \in RouteWorkers, NEW h \in RouteHosts, DeleteRouteRow(x, h)
  PROVE  RouteInv'
<1>1. [pc |-> "unwire", host |-> h] \in UnwireJobs
  BY DEF UnwireJobs
<1>2. RouteTypeOK'
  BY DEF DeleteRouteRow, RouteInv, RouteTypeOK
<1> QED BY <1>1, <1>2, RouteGoes DEF DeleteRouteRow, RouteJobs

\* Regenerate and its two writes.
LEMMA RegenerateKeeps ==
  ASSUME RouteInv, NEW x \in RouteWorkers, Regenerate(x) \/ ApplyCaddy(x) \/ UpdateFrontRoutes(x)
  PROVE  RouteInv'
<1>1. PICK j : j = routeJob[x]
  OBVIOUS
<1>2. j \in RouteJobs
  BY <1>1 DEF RouteInv
<1>3. CASE Regenerate(x)
  <2>1. [pc |-> "apply", listed |-> routeTable] \in ListedJobs
    BY DEF ListedJobs, RouteInv, RouteTypeOK
  <2> QED BY <1>3, <2>1, RouteReads DEF Regenerate, RouteJobs
<1>4. CASE ApplyCaddy(x)
  <2>1. j \in ListedJobs
    BY <1>1, <1>2, <1>4, RouteJobSteps DEF ApplyCaddy, RouteAt
  <2>2. CASE RouteEnd(x) /\ UNCHANGED caddy
    BY <1>4, <2>2, RoutesAlone, RouteEnds DEF ApplyCaddy
  <2>3. CASE caddy' = RenderCaddyfile(j.listed) /\ RouteGoto(x, [j EXCEPT !.pc = "front"])
    <3>1. RenderCaddyfile(j.listed) \subseteq RouteSites
      BY <2>1 DEF ListedJobs, RenderCaddyfile, RouteSites, RouteTableRows
    <3>2. RouteTypeOK'
      BY <1>4, <2>3, <3>1 DEF ApplyCaddy, RouteInv, RouteTypeOK
    <3>3. [j EXCEPT !.pc = "front"] \in ListedJobs
      BY <2>1 DEF ListedJobs
    <3> QED BY <2>3, <3>2, <3>3, RouteGoes DEF RouteJobs
  <2> QED BY <1>1, <1>4, <2>2, <2>3 DEF ApplyCaddy
<1>5. CASE UpdateFrontRoutes(x)
  <2>1. j \in ListedJobs
    BY <1>1, <1>2, <1>5, RouteJobSteps DEF UpdateFrontRoutes, RouteAt
  <2>2. {r.host : r \in j.listed} \subseteq RouteHosts
    BY <2>1 DEF ListedJobs, RouteTableRows
  <2>3. RouteTypeOK'
    BY <1>1, <1>5, <2>2 DEF UpdateFrontRoutes, RouteInv, RouteTypeOK
  <2> QED BY <1>5, <2>3, RouteEnds DEF UpdateFrontRoutes
<1> QED BY <1>3, <1>4, <1>5

\* The other steps of a pass.
LEMMA PassKeeps ==
  ASSUME RouteInv, NEW x \in RouteWorkers, PassList(x) \/ PassLook(x) \/ PruneRoute(x) \/ PassEnd(x)
  PROVE  RouteInv'
<1>1. PICK j : j = routeJob[x]
  OBVIOUS
<1>2. j \in RouteJobs
  BY <1>1 DEF RouteInv
<1>3. CASE PassList(x)
  <2>1. [pc |-> "next", todo |-> routeTable, pruned |-> FALSE] \in NextJobs
    BY DEF NextJobs, RouteInv, RouteTypeOK
  <2> QED BY <1>3, <2>1, RouteReads DEF PassList, RouteJobs
<1>4. CASE PassLook(x)
  <2>1. j \in NextJobs
    BY <1>1, <1>2, <1>4, RouteJobSteps DEF PassLook, RouteAt
  <2>2. PICK r \in j.todo :
          LET rest == [j EXCEPT !.todo = @ \ {r}]
              found == [pc |-> "prune", todo |-> rest.todo, pruned |-> rest.pruned, row |-> r]
          IN \/ RouteGoto(x, rest) \/ RouteGoto(x, found)
             \/ IsRunning(r.machine) /\ RouteGoto(x, Refreshing(found, backend[r.machine]))
    BY <1>1, <1>4 DEF PassLook
  <2>3. PICK rest : rest = [j EXCEPT !.todo = @ \ {r}]
    OBVIOUS
  <2>4. rest \in NextJobs
    BY <2>1, <2>3 DEF NextJobs
  <2>5. PICK found : found = [pc |-> "prune", todo |-> rest.todo, pruned |-> rest.pruned, row |-> r]
    OBVIOUS
  <2>6. found \in PruneJobs
    BY <2>1, <2>2, <2>4, <2>5 DEF NextJobs, PruneJobs
  <2>7. ASSUME NEW a \in Addresses PROVE Refreshing(found, a) \in RefreshJobs
    BY <2>6 DEF PruneJobs, RefreshJobs, Refreshing
  <2>8. \E k \in RouteJobs : RouteGoto(x, k)
    BY <2>2, <2>3, <2>4, <2>5, <2>6, <2>7 DEF RouteJobs, IsRunning
  <2> QED BY <1>4, <2>8, RouteReads DEF PassLook
<1>5. CASE PruneRoute(x)
  <2>1. j \in PruneJobs
    BY <1>1, <1>2, <1>5, RouteJobSteps DEF PruneRoute, RouteAt
  <2>2. [j EXCEPT !.pc = "pruned"] \in PruneJobs
    BY <2>1 DEF PruneJobs
  <2>3. RouteTypeOK'
    BY <1>5 DEF PruneRoute, RouteInv, RouteTypeOK
  <2> QED BY <1>1, <1>5, <2>2, <2>3, RouteGoes DEF PruneRoute, RouteJobs
<1>6. CASE PassEnd(x)
  <2>1. \E k \in RouteJobs : RouteGoto(x, k)
    BY <1>6 DEF PassEnd, RouteEnd, RouteJobs, RouteRender
  <2> QED BY <1>6, <2>1, RouteReads DEF PassEnd
<1> QED BY <1>3, <1>4, <1>5, <1>6

LEMMA RoutesInitially == RouteInit => RouteInv
BY DEF RouteInit, RouteInv, RouteTypeOK, RouteJobs, BackendStates

LEMMA RoutesKept == RouteInv /\ [RouteNext]_routeVars => RouteInv'
<1> SUFFICES ASSUME RouteInv, [RouteNext]_routeVars PROVE RouteInv'
  OBVIOUS
<1>1. RouteRequests \subseteq RouteWorkers /\ RoutePasses \subseteq RouteWorkers
  BY DEF RouteWorkers
<1>2. CASE RouteRequested
  BY <1>1, <1>2, PublishKeeps, DeleteKeeps DEF RouteRequested, PublishState, DeleteRouteRow
<1>3. ASSUME NEW x \in RouteRequests, RouteRequestStep(x) PROVE RouteInv'
  BY <1>1, <1>3, UpsertReadKeeps, UpsertInsertKeeps, WiresKeep, RegenerateKeeps DEF RouteRequestStep
<1>4. ASSUME NEW x \in RoutePasses, RoutePassStep(x) PROVE RouteInv'
  BY <1>1, <1>4, WiresKeep, RegenerateKeeps, PassKeeps DEF RoutePassStep
<1>5. ASSUME NEW m \in Backends, BackendChanges(m) PROVE RouteInv'
  BY <1>5 DEF BackendChanges, RouteInv, RouteTypeOK
<1>6. CASE AuthAppRestarts
  <2>1. routeJob' \in [RouteWorkers -> RouteJobs]
    BY <1>6 DEF AuthAppRestarts, RouteJobs, RouteRender
  <2>2. RouteTypeOK'
    BY <1>6, RoutesAlone DEF AuthAppRestarts
  <2> QED BY <2>1, <2>2 DEF RouteInv
<1>7. CASE UNCHANGED routeVars
  BY <1>7 DEF routeVars, RouteInv, RouteTypeOK
<1> QED BY <1>2, <1>3, <1>4, <1>5, <1>6, <1>7 DEF RouteNext

-----------------------------------------------------------------------------
(* The zone stage of the reconciler.  What a pass writes to a record is    *)
(* the address of the one Machine the name was listed for, so that no name *)
(* was listed for two is part of the invariant.                            *)

ZoneNameSets == [ZoneMachines -> SUBSET PublicNames]
ZoneLeases == [ZoneMachines -> ZoneAddrs \cup {"stopped", "gone"}]
ZoneHolders == [ZoneHosts -> ZoneMachines \cup {NoName}]
ZoneSteps == {"stamp", "read", "set", "delete", "file"}
ZonePasses ==
  [pc : ZoneSteps, lease : ZoneLeases, listKey : ZoneNameSets,
   claim : ZoneDomains \cup {NoName}, converge : BOOLEAN, held : ZoneHolders,
   todo : SUBSET ZoneMachines, stale : SUBSET PublicNames, targets : ZoneNameSets]

ZonePassOK(p) ==
  /\ p \in ZonePasses
  /\ \A n, m \in ZoneMachines, x \in PublicNames : x \in p.targets[n] /\ x \in p.targets[m] => n = m

ZoneInv ==
  /\ holder \in ZoneHolders
  /\ claim \in ZoneDomains \cup {NoName} /\ domainKey \in ZoneDomains \cup {NoName}
  /\ records \in [PublicNames -> ZoneAddrs \cup {NoName}]
  /\ lease \in ZoneLeases
  /\ listKey \in ZoneNameSets /\ hostsFile \in ZoneNameSets /\ sites \in ZoneNameSets
  /\ namedBefore \subseteq ZoneMachines /\ releasing \subseteq ZoneHosts
  /\ zonePass = ZoneIdle \/ ZonePassOK(zonePass)

LEMMA ZoneInvTypes == ZoneInv => ZoneTypeOK
BY DEF ZoneInv, ZoneTypeOK, ZoneHolders, ZoneNameSets

\* The names of a Machine are public names, and no other Machine's.
LEMMA TargetsTyped ==
  ASSUME NEW m \in ZoneMachines, NEW c \in ZoneDomains \cup {NoName}, NEW k, NEW held \in ZoneHolders
  PROVE  /\ TargetsOf(m, c, k, held) \subseteq PublicNames
         /\ c # NoName => DerivedName(m, c) \in PublicNames
         /\ ExplicitOf(m, held) \subseteq PublicNames
BY DEF TargetsOf, DerivedOf, ExplicitOf, PublicNames, DerivedNames

LEMMA TargetsApart ==
  ASSUME NEW m \in ZoneMachines, NEW n \in ZoneMachines, NEW c \in ZoneDomains \cup {NoName}, NEW k,
         NEW held, NEW x, x \in TargetsOf(m, c, k, held), x \in TargetsOf(n, c, k, held)
  PROVE  m = n
<1>1. CASE x \in ZoneHosts
  <2>1. \A l \in ZoneMachines : x \notin DerivedOf(l, c, k)
    BY <1>1, ZoneAssumption DEF DerivedOf, ZoneAssumption, DerivedNames
  <2> QED BY <2>1 DEF TargetsOf, ExplicitOf
<1>2. CASE x \notin ZoneHosts
  <2>1. x = DerivedName(m, c) /\ x = DerivedName(n, c)
    BY <1>2 DEF TargetsOf, ExplicitOf, DerivedOf
  <2>2. x.machine = m /\ x.machine = n
    BY <2>1 DEF DerivedName
  <2> QED BY <2>2
<1> QED BY <1>1, <1>2

\* A pass that moves on keeps what it listed.
LEMMA ZonePassMoves ==
  ASSUME NEW p, ZonePassOK(p), NEW t \in SUBSET ZoneMachines, NEW pc \in ZoneSteps, NEW stale \in SUBSET PublicNames
  PROVE  /\ ZonePassOK([p EXCEPT !.pc = pc])
         /\ ZonePassOK([p EXCEPT !.todo = t])
         /\ ZonePassOK([p EXCEPT !.todo = t, !.pc = pc])
         /\ ZonePassOK([p EXCEPT !.pc = pc, !.todo = t])
         /\ ZonePassOK([p EXCEPT !.pc = pc, !.stale = stale])
<1>1. p \in ZonePasses
  BY DEF ZonePassOK
<1>2. ASSUME NEW q \in ZonePasses, q.targets = p.targets PROVE ZonePassOK(q)
  BY <1>2 DEF ZonePassOK
<1>3. PICK q : q = [p EXCEPT !.pc = pc]
  OBVIOUS
<1>4. q \in ZonePasses /\ q.targets = p.targets
  BY <1>1, <1>3 DEF ZonePasses
<1>5. PICK r : r = [p EXCEPT !.todo = t]
  OBVIOUS
<1>6. r \in ZonePasses /\ r.targets = p.targets
  BY <1>1, <1>5 DEF ZonePasses
<1>7. [r EXCEPT !.pc = pc] \in ZonePasses /\ [r EXCEPT !.pc = pc].targets = p.targets
  BY <1>6 DEF ZonePasses
<1>8. [q EXCEPT !.todo = t] \in ZonePasses /\ [q EXCEPT !.todo = t].targets = p.targets
  BY <1>4 DEF ZonePasses
<1>9. [q EXCEPT !.stale = stale] \in ZonePasses /\ [q EXCEPT !.stale = stale].targets = p.targets
  BY <1>4 DEF ZonePasses
<1>10. /\ [p EXCEPT !.todo = t, !.pc = pc] = [r EXCEPT !.pc = pc]
       /\ [p EXCEPT !.pc = pc, !.todo = t] = [q EXCEPT !.todo = t]
       /\ [p EXCEPT !.pc = pc, !.stale = stale] = [q EXCEPT !.stale = stale]
  BY <1>3, <1>5
<1> QED BY <1>2, <1>3, <1>4, <1>5, <1>6, <1>7, <1>8, <1>9, <1>10

\* A step of a pass that moves on, or ends, and leaves names and Machines be.
LEMMA ZonePassStepKeeps ==
  ASSUME ZoneInv, UNCHANGED <<holder, claim, domainKey, lease, releasing>>,
         records' \in [PublicNames -> ZoneAddrs \cup {NoName}],
         listKey' \in ZoneNameSets, hostsFile' \in ZoneNameSets, sites' \in ZoneNameSets,
         namedBefore' \subseteq ZoneMachines,
         zonePass' = ZoneIdle \/ ZonePassOK(zonePass')
  PROVE  ZoneInv'
BY DEF ZoneInv, ZonePassOK

LEMMA ZoneListKeeps ==
  ASSUME ZoneInv, ZonePassList
  PROVE  ZoneInv'
<1>1. PICK targets : targets = [m \in ZoneMachines |-> IF lease[m] = "gone" THEN {}
                                                      ELSE TargetsOf(m, claim, domainKey, holder)]
  OBVIOUS
<1>2. claim \in ZoneDomains \cup {NoName} /\ holder \in ZoneHolders
  BY DEF ZoneInv
<1>3. targets \in ZoneNameSets
  <2>1. ASSUME NEW m \in ZoneMachines PROVE targets[m] \in SUBSET PublicNames
    BY <1>1, <1>2, TargetsTyped
  <2> QED BY <1>1, <2>1 DEF ZoneNameSets
<1>4. ASSUME NEW n \in ZoneMachines, NEW m \in ZoneMachines, NEW x, x \in targets[n], x \in targets[m] PROVE n = m
  BY <1>1, <1>2, <1>4, TargetsApart
<1>5. Converges(claim, domainKey) \in BOOLEAN
  BY DEF Converges
<1>6. zonePass' = [pc |-> "stamp", lease |-> lease, listKey |-> listKey, claim |-> claim,
                   converge |-> Converges(claim, domainKey), held |-> holder, todo |-> ZoneMachines,
                   stale |-> {}, targets |-> targets]
  BY <1>1 DEF ZonePassList
<1>7. zonePass' \in ZonePasses /\ zonePass'.targets = targets
  BY <1>2, <1>3, <1>5, <1>6 DEF ZonePasses, ZoneSteps, ZoneInv
<1>8. ZonePassOK(zonePass')
  BY <1>4, <1>7 DEF ZonePassOK
<1> QED BY <1>8, ZonePassStepKeeps DEF ZonePassList, ZoneInv

LEMMA ZonePassAt ==
  ASSUME ZoneInv, zonePass.pc \in ZoneSteps
  PROVE  ZonePassOK(zonePass) /\ zonePass \in ZonePasses
BY DEF ZoneInv, ZoneIdle, ZoneSteps, ZonePassOK

LEMMA ZoneStampKeeps ==
  ASSUME ZoneInv, NEW m \in ZoneMachines, ConvergeListKey(m)
  PROVE  ZoneInv'
<1>1. ZonePassOK(zonePass) /\ zonePass \in ZonePasses
  BY ZonePassAt DEF ConvergeListKey, ZoneSteps
<1>2. zonePass.todo \subseteq ZoneMachines /\ zonePass.targets[m] \in SUBSET PublicNames
  BY <1>1 DEF ZonePasses, ZoneNameSets
<1>3. PICK pc \in ZoneSteps : zonePass' = [zonePass EXCEPT !.todo = zonePass.todo \ {m}, !.pc = pc]
  BY DEF ConvergeListKey, ZoneSteps
<1>4. ZonePassOK(zonePass')
  BY <1>1, <1>2, <1>3, ZonePassMoves
<1>5. listKey' = listKey \/ listKey' = [listKey EXCEPT ![m] = zonePass.targets[m]]
  BY DEF ConvergeListKey
<1>6. listKey' \in ZoneNameSets
  BY <1>2, <1>5 DEF ZoneNameSets, ZoneInv
<1> QED BY <1>4, <1>6, ZonePassStepKeeps DEF ConvergeListKey, ZoneInv

LEMMA ZoneReadKeeps ==
  ASSUME ZoneInv, ReadRecords
  PROVE  ZoneInv'
<1>1. ZonePassOK(zonePass)
  BY ZonePassAt DEF ReadRecords, ZoneSteps
<1>2. PICK stale : stale = {n \in Managed(zonePass) : records[n] # NoName} \ (DOMAIN Want(zonePass) \cup Keep(zonePass))
  OBVIOUS
<1>3. stale \subseteq PublicNames
  BY <1>2 DEF Managed
<1>4. \/ zonePass' = [zonePass EXCEPT !.pc = "set", !.stale = stale]
      \/ zonePass' = [zonePass EXCEPT !.pc = "file", !.todo = ZoneMachines]
  BY <1>2 DEF ReadRecords
<1>5. ZonePassOK(zonePass')
  <2>1. "set" \in ZoneSteps /\ "file" \in ZoneSteps /\ ZoneMachines \in SUBSET ZoneMachines
    BY DEF ZoneSteps
  <2>2. CASE zonePass' = [zonePass EXCEPT !.pc = "set", !.stale = stale]
    BY <1>1, <1>3, <2>1, <2>2, ZonePassMoves
  <2>3. CASE zonePass' = [zonePass EXCEPT !.pc = "file", !.todo = ZoneMachines]
    <3>1. {} \in SUBSET PublicNames
      OBVIOUS
    <3> QED BY <1>1, <2>1, <2>3, <3>1, ZonePassMoves
  <2> QED BY <1>4, <2>2, <2>3
<1> QED BY <1>5, ZonePassStepKeeps DEF ReadRecords, ZoneInv

\* A record that is wanted is an address: that of the one Machine the name is
\* listed for.
LEMMA WantedTyped ==
  ASSUME NEW p, ZonePassOK(p), NEW n \in DOMAIN Want(p)
  PROVE  n \in PublicNames /\ Want(p)[n] \in ZoneAddrs
<1>1. n \in PublicNames
  BY DEF Want
<1>2. PICK m \in ZoneMachines : n \in p.targets[m] /\ p.lease[m] \in ZoneAddrs
  BY DEF Want
<1>3. (CHOOSE k \in ZoneMachines : n \in p.targets[k]) = m
  BY <1>1, <1>2 DEF ZonePassOK
<1>4. Want(p)[n] = p.lease[CHOOSE k \in ZoneMachines : n \in p.targets[k]]
  BY DEF Want
<1> QED BY <1>1, <1>2, <1>3, <1>4

LEMMA ZoneWriteKeeps ==
  ASSUME ZoneInv, SetRecords \/ DeleteRecords
  PROVE  ZoneInv'
<1>1. ZonePassOK(zonePass)
  BY ZonePassAt DEF SetRecords, DeleteRecords, ZoneSteps
<1>2. CASE SetRecords
  <2>1. records' \in [PublicNames -> ZoneAddrs \cup {NoName}]
    BY <1>1, <1>2, WantedTyped DEF SetRecords, ZoneInv
  <2>2. ZonePassOK(zonePass')
    BY <1>1, <1>2, ZonePassMoves DEF SetRecords, ZoneSteps
  <2> QED BY <1>2, <2>1, <2>2, ZonePassStepKeeps DEF SetRecords, ZoneInv
<1>3. CASE DeleteRecords
  <2>1. records' \in [PublicNames -> ZoneAddrs \cup {NoName}]
    BY <1>3 DEF DeleteRecords, ZoneInv
  <2>2. ZonePassOK(zonePass')
    BY <1>1, <1>3, ZonePassMoves DEF DeleteRecords, ZoneSteps
  <2> QED BY <1>3, <2>1, <2>2, ZonePassStepKeeps DEF DeleteRecords, ZoneInv
<1> QED BY <1>2, <1>3

LEMMA ZoneFileKeeps ==
  ASSUME ZoneInv, NEW m \in ZoneMachines, ConvergeHostnamesFile(m)
  PROVE  ZoneInv'
<1>1. ZonePassOK(zonePass) /\ zonePass \in ZonePasses
  BY ZonePassAt DEF ConvergeHostnamesFile, ZoneSteps
<1>2. zonePass.todo \subseteq ZoneMachines /\ zonePass.targets[m] \in SUBSET PublicNames
  BY <1>1 DEF ZonePasses, ZoneNameSets
<1>3. zonePass' = ZoneIdle \/ zonePass' = [zonePass EXCEPT !.todo = zonePass.todo \ {m}]
  BY DEF ConvergeHostnamesFile, FileNext
<1>4. zonePass' = ZoneIdle \/ ZonePassOK(zonePass')
  <2>1. zonePass.todo \ {m} \in SUBSET ZoneMachines /\ "file" \in ZoneSteps /\ {} \in SUBSET PublicNames
    BY <1>2 DEF ZoneSteps
  <2>2. PICK t : t = zonePass.todo \ {m}
    OBVIOUS
  <2>3. ZonePassOK([zonePass EXCEPT !.todo = t])
    BY <1>1, <2>1, <2>2, ZonePassMoves
  <2> QED BY <1>3, <2>2, <2>3
<1>5. namedBefore' \in {namedBefore, namedBefore \cup {m}, namedBefore \ {m}}
  BY DEF ConvergeHostnamesFile, FileNext
<1>6. /\ hostsFile' \in {hostsFile, [hostsFile EXCEPT ![m] = zonePass.targets[m]]}
      /\ sites' \in {sites, [sites EXCEPT ![m] = zonePass.targets[m]]}
  BY DEF ConvergeHostnamesFile
<1>7. hostsFile' \in ZoneNameSets /\ sites' \in ZoneNameSets /\ namedBefore' \subseteq ZoneMachines
  BY <1>2, <1>5, <1>6 DEF ZoneNameSets, ZoneInv
<1> QED BY <1>4, <1>7, ZonePassStepKeeps DEF ConvergeHostnamesFile, ZoneInv

\* What the API writes to a list key.
LEMMA TableNamesTyped ==
  ASSUME ZoneInv, NEW m \in ZoneMachines, NEW held \in ZoneHolders
  PROVE  (IF claim # NoName THEN {DerivedName(m, claim)} ELSE {}) \cup ExplicitOf(m, held) \in SUBSET PublicNames
<1>1. claim \in ZoneDomains \cup {NoName}
  BY DEF ZoneInv
<1> QED BY <1>1, TargetsTyped

LEMMA ZoneNamesKeep ==
  ASSUME ZoneInv, ZoneNamesChange
  PROVE  ZoneInv'
<1>1. ASSUME NEW n \in ZoneHosts, HostnameRelease(n) PROVE ZoneInv'
  <2>1. holder' \in ZoneHolders /\ releasing' \subseteq ZoneHosts
    BY <1>1 DEF HostnameRelease, ZoneInv, ZoneHolders
  <2> QED BY <1>1, <2>1 DEF HostnameRelease, ZoneInv, ZonePassOK
<1>2. ASSUME NEW n \in ZoneHosts, NEW m \in ZoneMachines, HostnameAdd(n, m) PROVE ZoneInv'
  <2>1. holder' \in ZoneHolders
    BY <1>2 DEF HostnameAdd, ZoneInv, ZoneHolders
  <2>2. PICK names : names = (IF claim # NoName THEN {DerivedName(m, claim)} ELSE {}) \cup ExplicitOf(m, holder')
    OBVIOUS
  <2>3. names \in SUBSET PublicNames
    BY <2>1, <2>2, TableNamesTyped
  <2>4. listKey' = listKey \/ listKey' = [listKey EXCEPT ![m] = names]
    BY <1>2, <2>2 DEF HostnameAdd
  <2>5. listKey' \in ZoneNameSets
    BY <2>3, <2>4 DEF ZoneNameSets, ZoneInv
  <2> QED BY <1>2, <2>1, <2>5 DEF HostnameAdd, ZoneInv, ZonePassOK
<1>3. ASSUME NEW d \in ZoneDomains, ClaimSet(d) PROVE ZoneInv'
  BY <1>3 DEF ClaimSet, ZoneInv, ZonePassOK
<1>4. CASE ClaimReleased
  <2>1. records' \in [PublicNames -> ZoneAddrs \cup {NoName}]
    BY <1>4 DEF ClaimReleased, ZoneInv
  <2> QED BY <1>4, <2>1 DEF ClaimReleased, ZoneInv, ZonePassOK
<1>5. CASE DomainKeySet
  BY <1>5 DEF DomainKeySet, ZoneInv, ZonePassOK
<1> QED BY <1>1, <1>2, <1>3, <1>4, <1>5 DEF ZoneNamesChange

LEMMA ZoneHookKeeps ==
  ASSUME ZoneInv, NEW n \in ZoneHosts, ReleaseHook(n)
  PROVE  ZoneInv'
<1>1. records' \in [PublicNames -> ZoneAddrs \cup {NoName}]
  BY DEF ReleaseHook, ZoneInv
<1>2. ASSUME NEW m \in ZoneMachines PROVE NamesInTables(m) \in SUBSET PublicNames
  BY TableNamesTyped DEF NamesInTables, ZoneInv
<1>3. listKey' \in ZoneNameSets
  BY <1>2 DEF ReleaseHook, ZoneNameSets, ZoneInv
<1> QED BY <1>1, <1>3 DEF ReleaseHook, ZoneInv, ZonePassOK

LEMMA ZoneMachineKeeps ==
  ASSUME ZoneInv, NEW m \in ZoneMachines, MachineChanges(m)
  PROVE  ZoneInv'
<1>1. lease' \in ZoneLeases
  BY DEF MachineChanges, ZoneInv, ZoneLeases
<1>2. hostsFile' \in ZoneNameSets /\ sites' \in ZoneNameSets /\ listKey' \in ZoneNameSets
  BY DEF MachineChanges, ZoneInv, ZoneNameSets
<1> QED BY <1>1, <1>2 DEF MachineChanges, ZoneInv, ZonePassOK

LEMMA ZoneInitially == ZoneInit => ZoneInv
BY DEF ZoneInit, ZoneInv, ZoneHolders, ZoneLeases, ZoneNameSets

LEMMA ZoneKept == ZoneInv /\ [ZoneNext]_zoneVars => ZoneInv'
<1> SUFFICES ASSUME ZoneInv, [ZoneNext]_zoneVars PROVE ZoneInv'
  OBVIOUS
<1>1. CASE ZonePassStep
  BY <1>1, ZoneListKeeps, ZoneStampKeeps, ZoneReadKeeps, ZoneWriteKeeps, ZoneFileKeeps DEF ZonePassStep
<1>2. CASE ZoneRestart
  BY <1>2 DEF ZoneRestart, ZoneInv, ZonePassOK
<1>3. CASE UNCHANGED zoneVars
  BY <1>3 DEF zoneVars, ZoneInv, ZonePassOK
<1> QED BY <1>1, <1>2, <1>3, ZoneNamesKeep, ZoneHookKeeps, ZoneMachineKeeps DEF ZoneNext

-----------------------------------------------------------------------------
(* The resource cache and the DNS loop                                     *)

Feeds == [at : {"seed", "subscribe", "listening", "silent"}, seeded : BOOLEAN]
           \cup [at : {"store"}, seeded : BOOLEAN, list : Listing]
FleetPasses == [at : {"idle", "base"}] \cup [at : {"dirty"}, fleet : Listing]
                 \cup [at : {"apply"}, fleet : Listing \cup {NoFleet}]
Refreshes == [project : FleetProjects, event : Versions, seen : Versions \cup {NoFleet}]

\* A pass of the event goroutine is one of those its trigger bought: settling
\* counts down to 0 and never below.
FleetInv ==
  /\ FleetTypeOK
  /\ feed \in Feeds /\ dnsPass \in [Loops -> FleetPasses]
  /\ settling = 0 => dnsPass["event"] = NoPass

LEMMA FleetFacts ==
  /\ Loops = {"event", "ticker"} /\ NoPass \in FleetPasses
  /\ \A p \in FleetPasses : /\ p.at \in {"idle", "base", "dirty", "apply"}
                            /\ p.at = "dirty" => p.fleet \in Listing
                            /\ p.at = "apply" => p.fleet \in Listing \cup {NoFleet}
                            /\ p.at # "idle" => p # NoPass
  /\ \A f \in Feeds : /\ f.at \in {"seed", "store", "subscribe", "listening", "silent"}
                      /\ f.seeded \in BOOLEAN
                      /\ f.at = "store" => f.list \in Listing
                      /\ f.at # "store" => f \in [at : {"seed", "subscribe", "listening", "silent"}, seeded : BOOLEAN]
<1>1. Loops = {"event", "ticker"} /\ NoPass \in FleetPasses
  BY DEF Loops, NoPass, FleetPasses
<1>2. ASSUME NEW p \in FleetPasses
      PROVE  /\ p.at \in {"idle", "base", "dirty", "apply"}
             /\ p.at = "dirty" => p.fleet \in Listing
             /\ p.at = "apply" => p.fleet \in Listing \cup {NoFleet}
             /\ p.at # "idle" => p # NoPass
  BY DEF FleetPasses, NoPass
<1>3. ASSUME NEW f \in Feeds
      PROVE  /\ f.at \in {"seed", "store", "subscribe", "listening", "silent"}
             /\ f.seeded \in BOOLEAN
             /\ f.at = "store" => f.list \in Listing
             /\ f.at # "store" => f \in [at : {"seed", "subscribe", "listening", "silent"}, seeded : BOOLEAN]
  BY DEF Feeds
<1> QED BY <1>1, <1>2, <1>3

\* The type invariant without the parts the others imply.
LEMMA FleetInvIs ==
  FleetInv <=>
    /\ instances \in Listing /\ cached \in Listing /\ zoneFile \in Listing /\ served \in Listing
    /\ refreshes \subseteq Refreshes
    /\ dirty \subseteq FleetProjects /\ settling \in 0..3
    /\ breaks \in 0..MaxBreaks
    /\ feed \in Feeds /\ dnsPass \in [Loops -> FleetPasses]
    /\ settling = 0 => dnsPass["event"] = NoPass
BY FleetFacts DEF FleetInv, FleetTypeOK, Refreshes

LEMMA FleetInvIsNext ==
  FleetInv' <=>
    /\ instances' \in Listing /\ cached' \in Listing /\ zoneFile' \in Listing /\ served' \in Listing
    /\ refreshes' \subseteq Refreshes
    /\ dirty' \subseteq FleetProjects /\ settling' \in 0..3
    /\ breaks' \in 0..MaxBreaks
    /\ feed' \in Feeds /\ dnsPass' \in [Loops -> FleetPasses]
    /\ settling' = 0 => dnsPass'["event"] = NoPass
BY FleetFacts DEF FleetInv, FleetTypeOK, Refreshes

LEMMA FleetInitially == FleetInit => FleetInv
<1> SUFFICES ASSUME FleetInit PROVE FleetInv
  OBVIOUS
<1>1. instances \in Listing
  BY FleetAssumption DEF FleetInit, FleetAssumption, Listing, Versions
<1>2. feed \in Feeds /\ settling = 0 /\ dnsPass \in [Loops -> FleetPasses] /\ dnsPass["event"] = NoPass
  BY FleetFacts DEF FleetInit, NewFeed, Feeds
<1>3. breaks \in 0..MaxBreaks
  BY FleetAssumption DEF FleetInit, FleetAssumption
<1>4. cached = instances /\ zoneFile = instances /\ served = instances /\ refreshes = {} /\ dirty = {}
  BY DEF FleetInit
<1> QED BY <1>1, <1>2, <1>3, <1>4, FleetInvIs

LEMMA InstancesKeep ==
  ASSUME FleetInv, NEW p \in FleetProjects, NEW kind, InstancesChange(p, kind)
  PROVE  FleetInv'
<1>1. instances[p] + 1 \in Versions /\ instances' \in Listing /\ instances'[p] \in Versions
  BY FleetInvIs, FleetAssumption DEF InstancesChange, FleetAssumption, Listing, Versions
<1>2. [project |-> p, event |-> instances'[p], seen |-> NoFleet] \in Refreshes
  BY <1>1 DEF Refreshes
<1>3. refreshes' \subseteq Refreshes
  BY <1>2, FleetInvIs DEF InstancesChange
<1>4. dirty' \subseteq FleetProjects
  BY FleetInvIs DEF InstancesChange
<1>5. UNCHANGED <<cached, feed, settling, dnsPass, zoneFile, served, breaks>>
  BY DEF InstancesChange
<1> QED BY <1>1, <1>3, <1>4, <1>5, FleetInvIs, FleetInvIsNext

LEMMA RefreshKeeps ==
  ASSUME FleetInv, NEW h \in refreshes, RefreshRead(h) \/ RefreshStore(h)
  PROVE  FleetInv'
<1>1. h \in Refreshes
  BY FleetInvIs
<1>2. CASE RefreshRead(h)
  <2>1. instances[h.project] \in Versions
    BY <1>1, FleetInvIs DEF Refreshes, Listing
  <2>2. [h EXCEPT !.seen = instances[h.project]] \in Refreshes
    BY <1>1, <2>1 DEF Refreshes
  <2>3. refreshes' \subseteq Refreshes
    BY <1>2, <2>2, FleetInvIs DEF RefreshRead
  <2>4. UNCHANGED <<instances, cached, feed, dirty, settling, dnsPass, zoneFile, served, breaks>>
    BY <1>2 DEF RefreshRead, loopVars
  <2> QED BY <2>3, <2>4, FleetInvIs, FleetInvIsNext
<1>3. CASE RefreshStore(h)
  <2>1. h.project \in FleetProjects /\ h.seen \in Versions
    BY <1>1, <1>3 DEF Refreshes, RefreshStore
  <2>2. cached' \in Listing
    BY <1>3, <2>1, FleetInvIs DEF RefreshStore, Listing
  <2>3. refreshes' \subseteq Refreshes
    BY <1>3, FleetInvIs DEF RefreshStore
  <2>4. UNCHANGED <<instances, feed, dirty, settling, dnsPass, zoneFile, served, breaks>>
    BY <1>3 DEF RefreshStore, loopVars
  <2> QED BY <2>2, <2>3, <2>4, FleetInvIs, FleetInvIsNext
<1> QED BY <1>2, <1>3

LEMMA FeedKeeps ==
  ASSUME FleetInv, FeedStep \/ FeedSilent \/ CacheStale \/ FeedDrops
  PROVE  FleetInv'
<1>1. UNCHANGED <<instances, refreshes, dirty, settling, dnsPass, zoneFile, served>>
  BY DEF FeedStep, SeedRead, SeedStore, Subscribe, FeedSilent, CacheStale, FeedDrops, loopVars
<1>2. breaks' \in 0..MaxBreaks
  BY FleetInvIs, FleetAssumption
     DEF FeedStep, SeedRead, SeedStore, Subscribe, FeedSilent, CacheStale, FeedDrops, FleetAssumption
<1>3. feed.at \in {"seed", "store", "subscribe", "listening", "silent"} /\ feed.seeded \in BOOLEAN
  BY FleetInvIs, FleetFacts
<1>4. ASSUME NEW at \in {"seed", "listening", "silent"}, feed.at # "store"
      PROVE  [feed EXCEPT !.at = at] \in Feeds
  <2>1. feed \in [at : {"seed", "subscribe", "listening", "silent"}, seeded : BOOLEAN]
    BY <1>4, FleetInvIs, FleetFacts
  <2> QED BY <2>1 DEF Feeds
<1>5. CASE SeedRead
  <2>1. [at |-> "store", seeded |-> feed.seeded, list |-> instances] \in Feeds
    BY <1>3, FleetInvIs DEF Feeds
  <2>2. feed' \in Feeds /\ cached' = cached
    BY <1>5, <2>1, FleetInvIs DEF SeedRead
  <2> QED BY <1>1, <1>2, <2>2, FleetInvIs, FleetInvIsNext
<1>6. CASE SeedStore
  <2>1. [at |-> "subscribe", seeded |-> TRUE] \in Feeds
    BY DEF Feeds
  <2>2. feed' \in Feeds /\ cached' \in Listing
    BY <1>6, <2>1, FleetInvIs, FleetFacts DEF SeedStore
  <2> QED BY <1>1, <1>2, <2>2, FleetInvIs, FleetInvIsNext
<1>7. CASE Subscribe \/ FeedSilent \/ CacheStale \/ FeedDrops
  <2>1. feed' \in Feeds /\ cached' = cached
    BY <1>4, <1>7, FleetInvIs DEF Subscribe, FeedSilent, CacheStale, FeedDrops
  <2> QED BY <1>1, <1>2, <2>1, FleetInvIs, FleetInvIsNext
<1> QED BY <1>5, <1>6, <1>7 DEF FeedStep

\* A pass of one of the two goroutines moves on, to its end or not.
LEMMA FleetPassMoves ==
  ASSUME FleetInv, NEW w \in Loops, NEW p \in FleetPasses, dnsPass' = [dnsPass EXCEPT ![w] = p]
  PROVE  /\ dnsPass' \in [Loops -> FleetPasses]
         /\ dnsPass'["event"] = IF w = "event" THEN p ELSE dnsPass["event"]
BY FleetInvIs, FleetFacts

LEMMA FleetPassKeeps ==
  ASSUME FleetInv, NEW w \in Loops, PassStep(w)
  PROVE  FleetInv'
<1>1. dnsPass[w] \in FleetPasses
  BY FleetInvIs
<1>2. ASSUME NEW f \in Listing
      PROVE  /\ [at |-> "dirty", fleet |-> f] \in FleetPasses
             /\ [at |-> "apply", fleet |-> f] \in FleetPasses
  BY DEF FleetPasses
<1>3. [at |-> "base"] \in FleetPasses /\ [at |-> "apply", fleet |-> NoFleet] \in FleetPasses
  BY DEF FleetPasses
<1>4. dnsPass["event"] # NoPass => settling \in 1..3
  BY FleetInvIs
<1>5. CASE PassStart(w)
  <2>1. settling' \in 0..3 /\ (w = "event" => settling' # 0) /\ (w # "event" => settling' = settling)
    BY <1>5, FleetInvIs DEF PassStart
  <2>2. dnsPass' \in [Loops -> FleetPasses] /\ (w # "event" => dnsPass'["event"] = dnsPass["event"])
    BY <1>3, <1>5, FleetPassMoves DEF PassStart
  <2>3. UNCHANGED <<instances, cached, refreshes, feed, dirty, zoneFile, served, breaks>>
    BY <1>5 DEF PassStart, cacheVars
  <2> QED BY <2>1, <2>2, <2>3, FleetInvIs, FleetInvIsNext
<1>6. CASE PassBase(w)
  <2>1. \E p \in FleetPasses : dnsPass' = [dnsPass EXCEPT ![w] = p]
    BY <1>2, <1>3, <1>6, FleetInvIs DEF PassBase
  <2>2. dnsPass[w].at = "base"
    BY <1>6 DEF PassBase
  <2>3. dnsPass' \in [Loops -> FleetPasses] /\ (settling = 0 => dnsPass'["event"] = NoPass)
    BY <1>1, <2>1, <2>2, FleetPassMoves, FleetFacts, FleetInvIs
  <2>4. UNCHANGED <<instances, cached, refreshes, feed, dirty, settling, zoneFile, served, breaks>>
    BY <1>6 DEF PassBase, cacheVars
  <2> QED BY <2>3, <2>4, FleetInvIs, FleetInvIsNext
<1>7. CASE PassDirty(w)
  <2>1. dnsPass[w].at = "dirty" /\ dnsPass[w].fleet \in Listing
    BY <1>1, <1>7, FleetFacts DEF PassDirty
  <2>2. PICK read \in SUBSET dirty :
          /\ dnsPass' = [dnsPass EXCEPT ![w] = [at |-> "apply", fleet |->
               [p \in FleetProjects |-> IF p \in read THEN instances[p] ELSE dnsPass[w].fleet[p]]]]
          /\ cached' = [p \in FleetProjects |-> IF cacheOn /\ p \in read THEN instances[p] ELSE cached[p]]
    BY <1>7 DEF PassDirty
  <2>3. PICK fleet : fleet = [p \in FleetProjects |-> IF p \in read THEN instances[p] ELSE dnsPass[w].fleet[p]]
    OBVIOUS
  <2>4. fleet \in Listing /\ cached' \in Listing
    BY <2>1, <2>2, <2>3, FleetInvIs DEF Listing
  <2>5. dnsPass' \in [Loops -> FleetPasses] /\ (settling = 0 => dnsPass'["event"] = NoPass)
    BY <1>1, <1>2, <2>1, <2>2, <2>3, <2>4, FleetPassMoves, FleetFacts, FleetInvIs
  <2>6. UNCHANGED <<instances, refreshes, feed, dirty, settling, zoneFile, served, breaks>>
    BY <1>7 DEF PassDirty
  <2> QED BY <2>4, <2>5, <2>6, FleetInvIs, FleetInvIsNext
<1>8. CASE PassApply(w)
  <2>1. PICK zone : zone = IF dnsPass[w].fleet = NoFleet THEN instances ELSE dnsPass[w].fleet
    OBVIOUS
  <2>2. dnsPass[w].at = "apply" /\ zone \in Listing
    BY <1>1, <1>8, <2>1, FleetFacts, FleetInvIs DEF PassApply
  <2>3. zoneFile' \in Listing /\ served' \in Listing
    BY <1>8, <2>1, <2>2, FleetInvIs DEF PassApply
  <2>4. PassOver(w)
    BY <1>8 DEF PassApply
  <2>5. w = "event" => settling \in 1..3
    BY <1>1, <1>4, <2>2, FleetFacts
  <2>6. settling' \in 0..3 /\ dirty' \subseteq FleetProjects
    BY <2>4, <2>5, FleetInvIs DEF PassOver
  <2>7. dnsPass' \in [Loops -> FleetPasses] /\ dnsPass'["event"] = IF w = "event" THEN NoPass ELSE dnsPass["event"]
    BY <2>4, FleetPassMoves, FleetFacts DEF PassOver
  <2>8. settling' = 0 => dnsPass'["event"] = NoPass
    BY <2>4, <2>7, FleetInvIs DEF PassOver
  <2>9. UNCHANGED <<instances, cached, refreshes, feed, breaks>>
    BY <1>8 DEF PassApply, cacheVars
  <2> QED BY <2>3, <2>6, <2>7, <2>8, <2>9, FleetInvIs, FleetInvIsNext
<1> QED BY <1>5, <1>6, <1>7, <1>8 DEF PassStep

LEMMA FleetKept == FleetInv /\ [FleetNext]_fleetVars => FleetInv'
<1> SUFFICES ASSUME FleetInv, [FleetNext]_fleetVars PROVE FleetInv'
  OBVIOUS
<1>1. CASE DNSFeedConnects \/ DNSFeedDrops \/ CoreDNSTimer
  <2>1. UNCHANGED <<instances, cached, refreshes, feed, dirty, settling, dnsPass, zoneFile>>
    BY <1>1 DEF DNSFeedConnects, DNSFeedDrops, CoreDNSTimer, cacheVars, loopVars
  <2>2. breaks' \in 0..MaxBreaks /\ served' \in Listing
    BY <1>1, FleetInvIs, FleetAssumption DEF DNSFeedConnects, DNSFeedDrops, CoreDNSTimer, FleetAssumption
  <2> QED BY <2>1, <2>2, FleetInvIs, FleetInvIsNext
<1>2. [p \in FleetProjects |-> 0] \in Listing
  BY FleetAssumption DEF FleetAssumption, Listing, Versions
<1>3. CASE SidecarReset
  <2>1. UNCHANGED <<instances, cached, refreshes, feed, dirty, settling, dnsPass>>
    BY <1>3 DEF SidecarReset, cacheVars, loopVars
  <2>2. breaks' \in 0..MaxBreaks /\ served' \in Listing /\ zoneFile' \in Listing
    BY <1>2, <1>3, FleetInvIs, FleetAssumption DEF SidecarReset, FleetAssumption
  <2> QED BY <2>1, <2>2, FleetInvIs, FleetInvIsNext
<1>4. CASE AppRestart
  <2>1. feed' \in Feeds /\ settling' = 0 /\ dnsPass' \in [Loops -> FleetPasses] /\ dnsPass'["event"] = NoPass
    BY <1>4, FleetFacts DEF AppRestart, NewFeed, Feeds
  <2>2. breaks' \in 0..MaxBreaks /\ cached' \in Listing /\ refreshes' = {} /\ dirty' = {}
    BY <1>2, <1>4, FleetInvIs, FleetAssumption DEF AppRestart, FleetAssumption
  <2>3. UNCHANGED <<instances, zoneFile, served>>
    BY <1>4 DEF AppRestart
  <2> QED BY <2>1, <2>2, <2>3, FleetInvIs, FleetInvIsNext
<1>5. CASE UNCHANGED fleetVars
  BY <1>5, FleetInvIs, FleetInvIsNext DEF fleetVars, cacheVars, loopVars
<1> QED BY <1>1, <1>3, <1>4, <1>5, InstancesKeep, RefreshKeeps, FeedKeeps, FleetPassKeeps DEF FleetNext, RefreshStep

-----------------------------------------------------------------------------
(* The loops side by side                                                  *)

ServerInv == RouteInv /\ LockInv /\ ZoneInv /\ FleetInv /\ CertInv

LEMMA ServerInvInitially == ServerInit => ServerInv
BY RoutesInitially, LockInitInv, ZoneInitially, FleetInitially, CertInitially DEF ServerInit, ServerInv

\* A step of one loop leaves the invariants of the others.
LEMMA ServerInvKept == ServerInv /\ [ServerNext]_ServerVars => ServerInv'
<1> SUFFICES ASSUME ServerInv, [ServerNext]_ServerVars PROVE ServerInv'
  OBVIOUS
<1>1. RouteInv /\ LockInv /\ ZoneInv /\ FleetInv /\ CertInv
  BY DEF ServerInv
<1>2. [RouteNext]_routeVars /\ [LockNext]_lockVars /\ [ZoneNext]_zoneVars /\ [FleetNext]_fleetVars /\ [CertNext]_certVars
  <2>1. CASE OnRoutes(RouteNext)
    BY <2>1 DEF OnRoutes
  <2>2. CASE OnLock(LockNext)
    BY <2>2 DEF OnLock
  <2>3. CASE OnZone(ZoneStep)
    BY <2>3 DEF OnZone, ZoneStep
  <2>4. CASE OnFleet(FleetStep)
    BY <2>4 DEF OnFleet, FleetStep
  <2>5. CASE OnCerts(CertStep)
    BY <2>5 DEF OnCerts, CertStep
  <2>6. CASE UNCHANGED ServerVars
    BY <2>6 DEF ServerVars
  <2> QED BY <2>1, <2>2, <2>3, <2>4, <2>5, <2>6 DEF ServerNext
<1>3. RouteInv'
  BY <1>1, <1>2, RoutesKept
<1>4. LockInv'
  BY <1>1, <1>2, LockNextInv
<1>5. ZoneInv'
  BY <1>1, <1>2, ZoneKept
<1>6. FleetInv'
  BY <1>1, <1>2, FleetKept
<1>7. CertInv'
  BY <1>1, <1>2, CertKept
<1> QED BY <1>3, <1>4, <1>5, <1>6, <1>7 DEF ServerInv

\* Routes, the lock, records, caches and certificates stay in their domains,
\* and orders bounded, for any number of hostnames, Machines, requests, passes
\* and clients, whatever overlaps, fails and restarts.  What a step writes to a
\* table or a file is what an earlier step of its pass read.
THEOREM ServerStaysSafe == ServerSpec => []ServerSafe
<1>1. ServerInv => ServerSafe
  BY ZoneInvTypes, OrdersInvBounds DEF ServerInv, ServerSafe, ServerTypeOK, RouteInv, LockInv, FleetInv, CertInv
<1> QED BY <1>1, ServerInvInitially, ServerInvKept, PTL DEF ServerSpec
=============================================================================
