-------------------------- MODULE LockBackoffProofs --------------------------
(***************************************************************************)
(* What waiting for the registry lock is worth, for any number of callers, *)
(* whatever their options, their luck with the jitter and the operator.    *)
(***************************************************************************)
EXTENDS LockBackoff, TLAPS

USE PolicyAssumption, CapAssumption

-----------------------------------------------------------------------------
(* Waiting, time and sleep balance: what a caller in backoff mode has       *)
(* waited and still has to sleep stays within its budget while it sleeps,   *)
(* and within one late step more once it has tried; its last mkdir is no    *)
(* further back than it is late; and it has tried no more often than it has *)
(* waited.  A fixed caller that goes on has attempts left.                  *)
OnTime(p) == Waiting(p) => sleep[p] >= -MaxLate

Sleeping(p) ==
  phase[p] = "trying" =>
    IF Fixed(p) THEN attempts[p] < Policy(p).maxAttempts
    ELSE /\ elapsed[p] + sleep[p] <= Budget(p)
         /\ attempts[p] <= elapsed[p] + sleep[p]

HasTried(p) ==
  phase[p] = "busy" =>
    /\ sleep[p] <= 0 /\ attempts[p] >= 1
    /\ elapsed[p] - lastTry[p] <= -sleep[p]
    /\ IF Fixed(p) THEN attempts[p] <= Policy(p).maxAttempts
       ELSE elapsed[p] + sleep[p] <= Budget(p) + MaxLate

Reports(p) ==
  verdict[p] = "refused" =>
    /\ phase[p] = "idle"
    /\ IF Fixed(p) THEN attempts[p] = Policy(p).maxAttempts
       ELSE /\ attempts[p] >= 1
            /\ elapsed[p] >= Budget(p) /\ elapsed[p] <= Budget(p) + 2 * MaxLate
            /\ lastTry[p] >= Budget(p) - MaxLate

Paced(p) == ~Fixed(p) => attempts[p] <= elapsed[p] + 1

CallerInv(p) == OnTime(p) /\ Sleeping(p) /\ HasTried(p) /\ Reports(p) /\ Paced(p)
WaitInv == TypeOK /\ \A p \in Process : CallerInv(p)

-----------------------------------------------------------------------------
\* The policy that a caller's options come to.
LEMMA Policies ==
  ASSUME NEW p \in Process
  PROVE  /\ Budget(p) \in Nat /\ Policy(p).retryMs \in Nat
         /\ Fixed(p) => Policy(p).maxAttempts \in Nat \ {0}
<1>. DEFINE o == Options[p]
<1>1. /\ o.maxLockAttempts \in Int \cup {Unset} /\ o.lockRetryMs \in Int \cup {Unset}
      /\ o.lockBudgetMs \in Int \cup {Unset}
  OBVIOUS
<1>2. /\ Given(o.maxLockAttempts, DefaultAttempts) \in Int
      /\ Given(o.lockRetryMs, DefaultRetry) \in Int
      /\ Given(o.lockBudgetMs, DefaultBudget) \in Int
  BY <1>1 DEF Given
<1>. HIDE DEF o
<1>3. ASSUME NEW n \in Int, NEW m \in {0, 1}
      PROVE  Most(m, n) \in Nat /\ (m = 1 => Most(m, n) \in Nat \ {0})
  BY <1>3 DEF Most
<1>. QED BY <1>2, <1>3 DEF Budget, Fixed, Policy, lockPolicy, o

(* A delay under jitter and clamp is positive while there is budget left,   *)
(* and does not reach beyond it.                                            *)
LEMMA Delays ==
  ASSUME NEW d \in InitialDelay .. MaxDelay, NEW el \in Nat, NEW budget \in Nat,
         el < budget, NEW w \in NextBackoffDelays(d, el, budget)
  PROVE  w \in Nat /\ w >= 1 /\ el + w <= budget
<1>1. PICK j \in Jittered(d) : w = Most(0, Least(j, budget - el))
  BY DEF NextBackoffDelays
<1>2. d \in Nat \ {0}
  OBVIOUS
<1>3. j \in Nat /\ j >= 1
  BY <1>1, <1>2 DEF Jittered
<1>. QED BY <1>1, <1>3 DEF Most, Least

LEMMA NextDelayTyped ==
  ASSUME NEW d \in InitialDelay .. MaxDelay
  PROVE  NextDelay(d) \in InitialDelay .. MaxDelay
BY DEF NextDelay, Least

\* A caller that a step leaves alone.
SameCaller(q) ==
  /\ phase'[q] = phase[q] /\ elapsed'[q] = elapsed[q] /\ sleep'[q] = sleep[q]
  /\ attempts'[q] = attempts[q] /\ lastTry'[q] = lastTry[q]
  /\ verdict'[q] = verdict[q]

LEMMA CallerStays ==
  ASSUME NEW q \in Process, CallerInv(q), SameCaller(q)
  PROVE  CallerInv(q)'
BY DEF CallerInv, OnTime, Sleeping, HasTried, Reports, Paced, Waiting, SameCaller

LEMMA CallerTypes ==
  ASSUME WaitInv, NEW p \in Process
  PROVE  /\ elapsed[p] \in Nat /\ sleep[p] \in Int /\ attempts[p] \in Nat
         /\ lastTry[p] \in Nat /\ delayMs[p] \in InitialDelay .. MaxDelay
         /\ CallerInv(p)
BY DEF WaitInv, TypeOK

LEMMA FirstDelay == InitialDelay \in InitialDelay .. MaxDelay
OBVIOUS

LEMMA WaitInit == Init => WaitInv
<1>. SUFFICES ASSUME Init PROVE WaitInv
  OBVIOUS
<1>1. TypeOK
  <2>1. delayMs \in [Process -> InitialDelay .. MaxDelay]
    BY FirstDelay DEF Init
  <2>2. /\ elapsed \in [Process -> Nat] /\ sleep \in [Process -> Int]
        /\ attempts \in [Process -> Nat] /\ lastTry \in [Process -> Nat]
    BY DEF Init
  <2>. QED BY <2>1, <2>2 DEF Init, TypeOK
<1>2. ASSUME NEW p \in Process PROVE CallerInv(p)
  BY DEF Init, CallerInv, OnTime, Sleeping, HasTried, Reports, Paced, Waiting
<1>. QED BY <1>1, <1>2 DEF WaitInv

\* What the next lemmas prove of the caller that moves.
Moves(p) == TypeOK' /\ CallerInv(p)' /\ \A q \in Process \ {p} : SameCaller(q)

LEMMA BeginMoves ==
  ASSUME WaitInv, NEW p \in Process, Begin(p)
  PROVE  Moves(p)
<1>. USE DEF Begin, Forget, WaitInv, TypeOK
<1>1. TypeOK' /\ \A q \in Process \ {p} : SameCaller(q)
  BY FirstDelay DEF SameCaller
<1>2. /\ phase'[p] = "trying" /\ elapsed'[p] = 0 /\ sleep'[p] = 0
      /\ attempts'[p] = 0 /\ verdict'[p] = "none"
  OBVIOUS
<1>3. CallerInv(p)'
  BY <1>2, Policies DEF CallerInv, OnTime, Sleeping, HasTried, Reports, Paced, Waiting
<1>. QED BY <1>1, <1>3 DEF Moves

LEMMA AttemptMakes ==
  ASSUME WaitInv, NEW p \in Process, Attempt(p), ~EEXIST
  PROVE  Moves(p)
<1>1. /\ phase[p] = "trying" /\ lockDir' = TRUE
      /\ phase' = [phase EXCEPT ![p] = "inside"]
      /\ Forget(p) /\ UNCHANGED <<stale, verdict>>
  BY DEF Attempt
<1>2. TypeOK' /\ \A q \in Process \ {p} : SameCaller(q)
  BY <1>1, FirstDelay DEF Forget, SameCaller, WaitInv, TypeOK
<1>3. /\ phase'[p] = "inside" /\ attempts'[p] = 0 /\ elapsed'[p] = 0
      /\ verdict'[p] = verdict[p]
  BY <1>1 DEF Forget, WaitInv, TypeOK
<1>. QED BY <1>1, <1>2, <1>3, CallerTypes
         DEF Moves, CallerInv, OnTime, Sleeping, HasTried, Reports, Paced, Waiting

LEMMA AttemptFinds ==
  ASSUME WaitInv, NEW p \in Process, Attempt(p), EEXIST
  PROVE  Moves(p)
<1>1. /\ phase[p] = "trying" /\ sleep[p] <= 0
      /\ phase' = [phase EXCEPT ![p] = "busy"]
      /\ attempts' = [attempts EXCEPT ![p] = @ + 1]
      /\ lastTry' = [lastTry EXCEPT ![p] = elapsed[p]]
      /\ sleep' = [sleep EXCEPT ![p] = 0]
      /\ UNCHANGED <<lockDir, stale, elapsed, delayMs, verdict>>
  BY DEF Attempt, Counted
<1>2. TypeOK' /\ \A q \in Process \ {p} : SameCaller(q)
  BY <1>1 DEF SameCaller, WaitInv, TypeOK
<1>3. /\ phase'[p] = "busy" /\ attempts'[p] = attempts[p] + 1
      /\ lastTry'[p] = elapsed[p] /\ sleep'[p] = 0
      /\ elapsed'[p] = elapsed[p] /\ verdict'[p] = verdict[p]
  BY <1>1 DEF WaitInv, TypeOK
<1>4. CallerInv(p)'
  BY <1>1, <1>3, CallerTypes, Policies
     DEF CallerInv, OnTime, Sleeping, HasTried, Reports, Paced, Waiting
<1>. QED BY <1>2, <1>4 DEF Moves

LEMMA RefuseMoves ==
  ASSUME WaitInv, NEW p \in Process, Refuse(p)
  PROVE  Moves(p)
<1>. USE DEF Refuse, WaitInv, TypeOK
<1>1. TypeOK' /\ \A q \in Process \ {p} : SameCaller(q)
  BY DEF SameCaller
<1>2. /\ phase[p] = "busy" /\ phase'[p] = "idle" /\ verdict'[p] = "refused"
      /\ OutOfPatience(p)
      /\ elapsed'[p] = elapsed[p] /\ sleep'[p] = sleep[p]
      /\ attempts'[p] = attempts[p] /\ lastTry'[p] = lastTry[p]
  OBVIOUS
<1>. HIDE DEF Refuse, WaitInv, TypeOK
<1>3. CASE Fixed(p)
  <2>1. attempts[p] = Policy(p).maxAttempts
    <3>1. attempts[p] <= Policy(p).maxAttempts /\ attempts[p] \in Nat
      BY <1>2, <1>3, CallerTypes DEF CallerInv, HasTried
    <3>2. attempts[p] >= Policy(p).maxAttempts
      BY <1>2, <1>3 DEF OutOfPatience
    <3>3. Policy(p).maxAttempts \in Nat
      BY <1>3, Policies
    <3>. QED BY <3>1, <3>2, <3>3
  <2>. QED BY <1>1, <1>2, <1>3, <2>1
           DEF Moves, CallerInv, OnTime, Sleeping, HasTried, Reports, Paced, Waiting
<1>4. CASE ~Fixed(p)
  <2>1. elapsed[p] >= Budget(p) /\ elapsed[p] <= Budget(p) + 2 * MaxLate
        /\ attempts[p] >= 1 /\ attempts[p] <= elapsed[p] + 1
    BY <1>2, <1>4, CallerTypes, Policies
       DEF CallerInv, OnTime, HasTried, Paced, OutOfPatience, Waiting
  <2>2. lastTry[p] >= Budget(p) - MaxLate
    BY <1>2, <1>4, <2>1, CallerTypes, Policies DEF CallerInv, OnTime, HasTried, Waiting
  <2>. QED BY <1>1, <1>2, <1>4, <2>1, <2>2
           DEF Moves, CallerInv, OnTime, Sleeping, HasTried, Reports, Paced, Waiting
<1>. QED BY <1>3, <1>4

LEMMA SleepMoves ==
  ASSUME WaitInv, NEW p \in Process, Sleep(p)
  PROVE  Moves(p)
<1>. USE DEF WaitInv, TypeOK
<1>1. /\ phase[p] = "busy" /\ phase' = [phase EXCEPT ![p] = "trying"]
      /\ UNCHANGED <<lockDir, stale, elapsed, attempts, lastTry, verdict>>
  BY DEF Sleep
<1>2. \A q \in Process \ {p} : SameCaller(q)
  BY DEF Sleep, SameCaller
<1>3. CASE Fixed(p)
  <2>1. sleep' = [sleep EXCEPT ![p] = Policy(p).retryMs] /\ delayMs' = delayMs
        /\ attempts[p] < Policy(p).maxAttempts /\ Policy(p).retryMs \in Nat
    BY <1>3, Policies DEF Sleep, OutOfPatience
  <2>2. TypeOK'
    BY <1>1, <2>1
  <2>3. CallerInv(p)'
    BY <1>1, <1>3, <2>1
       DEF CallerInv, OnTime, Sleeping, HasTried, Reports, Paced, Waiting
  <2>. QED BY <1>2, <2>2, <2>3 DEF Moves
<1>4. CASE ~Fixed(p)
  <2>1. Budget(p) \in Nat /\ elapsed[p] < Budget(p)
    BY <1>4, Policies DEF Sleep, OutOfPatience
  <2>2. PICK w \in NextBackoffDelays(delayMs[p], elapsed[p], Budget(p)) :
          sleep' = [sleep EXCEPT ![p] = w]
    BY <1>4 DEF Sleep
  <2>3. w \in Nat /\ w >= 1 /\ elapsed[p] + w <= Budget(p)
    BY <2>1, <2>2, Delays
  <2>4. delayMs' \in [Process -> InitialDelay .. MaxDelay]
    BY <1>4, NextDelayTyped DEF Sleep
  <2>5. TypeOK'
    <3>1. sleep' \in [Process -> Int] /\ phase' \in [Process -> {"idle", "trying", "busy", "inside"}]
      BY <1>1, <2>2, <2>3
    <3>. QED BY <1>1, <2>4, <3>1
  <2>6. CallerInv(p)'
    BY <1>1, <1>4, <2>1, <2>2, <2>3
       DEF CallerInv, OnTime, Sleeping, HasTried, Reports, Paced, Waiting
  <2>. QED BY <1>2, <2>5, <2>6 DEF Moves
<1>. QED BY <1>3, <1>4

LEMMA LeaveMoves ==
  ASSUME WaitInv, NEW p \in Process, Release(p) \/ Die(p)
  PROVE  Moves(p)
<1>. USE DEF WaitInv, TypeOK
<1>1. TypeOK' /\ \A q \in Process \ {p} : SameCaller(q)
  <2>1. CASE Release(p)
    BY <2>1 DEF Release, callVars, SameCaller
  <2>2. CASE Die(p)
    BY <2>2, FirstDelay DEF Die, Forget, SameCaller
  <2>. QED BY <2>1, <2>2
<1>2. /\ phase[p] # "idle" /\ phase'[p] = "idle" /\ verdict'[p] = verdict[p]
      /\ \/ attempts'[p] = attempts[p] /\ elapsed'[p] = elapsed[p]
         \/ attempts'[p] = 0 /\ elapsed'[p] = 0
  BY DEF Release, Die, Forget, callVars
<1>3. CallerInv(p)'
  BY <1>2 DEF CallerInv, OnTime, Sleeping, HasTried, Reports, Paced, Waiting
<1>. QED BY <1>1, <1>3 DEF Moves

(* A tick: what is waited is slept off; the cap on elapsed is out of reach  *)
(* of a caller with a budget.                                               *)
LEMMA TickKeeps ==
  ASSUME WaitInv, Tick
  PROVE  WaitInv'
<1>1. TypeOK'
  BY DEF Least, WaitInv, TypeOK, Tick
<1>2. ASSUME NEW p \in Process PROVE CallerInv(p)'
  <2>1. CASE ~Waiting(p)
    <3>1. SameCaller(p)
      BY <2>1 DEF SameCaller, Tick, WaitInv, TypeOK
    <3>. QED BY <3>1, CallerStays, CallerTypes
  <2>2. CASE Waiting(p)
    <3>1. /\ sleep[p] > -MaxLate /\ sleep'[p] = sleep[p] - 1
          /\ elapsed'[p] = Least(ElapsedCap, elapsed[p] + 1)
          /\ phase'[p] = phase[p] /\ attempts'[p] = attempts[p]
          /\ lastTry'[p] = lastTry[p] /\ verdict'[p] = verdict[p]
          /\ elapsed[p] \in Nat /\ sleep[p] \in Int /\ attempts[p] \in Nat
          /\ lastTry[p] \in Nat /\ CallerInv(p)
      BY <2>2 DEF Tick, WaitInv, TypeOK
    <3>2. CASE Fixed(p)
      <4>1. elapsed'[p] \in Int /\ elapsed'[p] <= elapsed[p] + 1
        BY <3>1 DEF Least
      <4>. QED BY <2>2, <3>1, <3>2, <4>1
               DEF CallerInv, OnTime, Sleeping, HasTried, Reports, Paced, Waiting
    <3>3. CASE ~Fixed(p)
      <4>1. elapsed[p] + 1 <= Budget(p) + 2 * MaxLate
        BY <2>2, <3>1, <3>3, Policies
           DEF CallerInv, Sleeping, HasTried, Waiting
      <4>2. elapsed'[p] = elapsed[p] + 1
        BY <3>1, <3>3, <4>1, Policies DEF Least
      <4>. QED BY <2>2, <3>1, <3>3, <4>2
               DEF CallerInv, OnTime, Sleeping, HasTried, Reports, Paced, Waiting
    <3>. QED BY <3>2, <3>3
  <2>. QED BY <2>1, <2>2
<1>. QED BY <1>1, <1>2 DEF WaitInv

LEMMA WaitStep == WaitInv /\ [Next]_vars => WaitInv'
<1>. SUFFICES ASSUME WaitInv, [Next]_vars PROVE WaitInv'
  OBVIOUS
<1>1. ASSUME NEW p \in Process, Moves(p) PROVE WaitInv'
  BY <1>1, CallerStays DEF Moves, WaitInv
<1>2. ASSUME UNCHANGED <<phase, callVars>>, lockDir' \in BOOLEAN, stale' \in BOOLEAN
      PROVE  WaitInv'
  <2>1. TypeOK' /\ \A q \in Process : SameCaller(q)
    BY <1>2 DEF callVars, SameCaller, WaitInv, TypeOK
  <2>. QED BY <2>1, CallerStays DEF WaitInv
<1>3. CASE OperatorRemoves \/ UNCHANGED vars
  BY <1>2, <1>3 DEF OperatorRemoves, vars, WaitInv, TypeOK
<1>. QED BY <1>1, <1>3, BeginMoves, AttemptMakes, AttemptFinds, RefuseMoves, SleepMoves, LeaveMoves,
            TickKeeps DEF Next

LEMMA WaitInvariant == Spec => []WaitInv
BY WaitInit, WaitStep, PTL DEF Spec

(* The variables of every caller keep their types. *)
THEOREM BackoffTypeCorrect == Spec => []TypeOK
<1>1. WaitInv => TypeOK
  BY DEF WaitInv
<1>. QED BY WaitInvariant, <1>1, PTL

(* Nobody is refused who has not waited: all attempts, or the whole budget  *)
(* with a last mkdir one late step before its end at the earliest           *)
(* (acquireRegistryLock).                                                   *)
THEOREM RefusalsAreEarned == Spec => []RefusalIsEarned
<1>1. WaitInv => RefusalIsEarned
  BY DEF WaitInv, CallerInv, Reports, RefusalIsEarned
<1>. QED BY WaitInvariant, <1>1, PTL

(* And nobody waits longer than the budget and two late steps               *)
(* (nextBackoffDelayMs).                                                    *)
THEOREM OverrunsAreBounded == Spec => []OverrunBounded
<1>1. WaitInv => OverrunBounded
  <2>. SUFFICES ASSUME WaitInv, NEW p \in Process, ~Fixed(p),
                       Waiting(p) \/ verdict[p] = "refused"
                PROVE  elapsed[p] <= Budget(p) + 2 * MaxLate
    BY DEF OverrunBounded
  <2>1. CallerInv(p) /\ elapsed[p] \in Nat /\ sleep[p] \in Int
    BY DEF WaitInv, TypeOK
  <2>. QED BY <2>1, Policies
           DEF CallerInv, OnTime, Sleeping, HasTried, Reports, Waiting
<1>. QED BY WaitInvariant, <1>1, PTL

(* A backoff is no spinning: a retry is paid for with a tick of sleep, even *)
(* when jitter and clamp shrink the delay (nextBackoffDelayMs).             *)
THEOREM RetriesPaced == Spec => []RetriesArePaced
<1>1. WaitInv => RetriesArePaced
  BY DEF WaitInv, CallerInv, Paced, RetriesArePaced
<1>. QED BY WaitInvariant, <1>1, PTL

-----------------------------------------------------------------------------
(* The wait policy and the lock.  What delays, counters and time do is a    *)
(* stutter of the lock, the rest is the step of the same name.              *)
LEMMA LockSteps ==
  WaitInv /\ [Next]_vars => [TheLock!Next]_(TheLock!vars)
<1>. SUFFICES ASSUME WaitInv, [Next]_vars PROVE [TheLock!Next]_(TheLock!vars)
  OBVIOUS
<1>. DEFINE Lock == "events.lock"
            Dirs == IF lockDir THEN {Lock} ELSE {}
            Stale == IF stale THEN {Lock} ELSE {}
            Target == [p \in Process |-> Lock]
<1>1. phase \in [Process -> {"idle", "trying", "busy", "inside"}]
      /\ lockDir \in BOOLEAN /\ stale \in BOOLEAN
  BY DEF WaitInv, TypeOK
<1>2. ASSUME NEW p \in Process, Begin(p) PROVE TheLock!Next
  <2>1. Target = [Target EXCEPT ![p] = Lock]
    OBVIOUS
  <2>2. TheLock!Begin(p, Lock)
    BY <1>2, <2>1 DEF Begin, TheLock!Begin, TheLock!MoveTo
  <2>. QED BY <2>2 DEF TheLock!Next
<1>3. ASSUME NEW p \in Process, Attempt(p) PROVE TheLock!Next
  <2>1. CASE ~EEXIST
    <3>1. TheLock!MkdirMakes(p)
      BY <1>3, <2>1 DEF Attempt, EEXIST, TheLock!MkdirMakes, TheLock!MoveTo
    <3>. QED BY <3>1 DEF TheLock!Next
  <2>2. CASE EEXIST
    <3>1. TheLock!MkdirFinds(p)
      BY <1>3, <2>2 DEF Attempt, EEXIST, TheLock!MkdirFinds, TheLock!MoveTo
    <3>. QED BY <3>1 DEF TheLock!Next
  <2>. QED BY <2>1, <2>2
<1>4. ASSUME NEW p \in Process, Refuse(p) PROVE TheLock!Next
  <2>1. TheLock!GiveUp(p)
    BY <1>4 DEF Refuse, TheLock!GiveUp, TheLock!MoveTo
  <2>. QED BY <2>1 DEF TheLock!Next
<1>5. ASSUME NEW p \in Process, Sleep(p) PROVE TheLock!Next
  <2>1. TheLock!Wait(p)
    BY <1>5 DEF Sleep, TheLock!Wait, TheLock!MoveTo
  <2>. QED BY <2>1 DEF TheLock!Next
<1>6. ASSUME NEW p \in Process, Release(p) PROVE TheLock!Next
  <2>1. Dirs' = Dirs \ {Target[p]}
    BY <1>6 DEF Release
  <2>2. TheLock!Rmdir(p)
    BY <1>6, <2>1 DEF Release, TheLock!Rmdir, TheLock!MoveTo
  <2>. QED BY <2>2 DEF TheLock!Next
<1>7. ASSUME NEW p \in Process, Die(p) PROVE TheLock!Next
  <2>1. Stale' = IF phase[p] = "inside" THEN Stale \cup {Target[p]} ELSE Stale
    BY <1>1, <1>7 DEF Die
  <2>2. TheLock!Die(p)
    BY <1>7, <2>1 DEF Die, TheLock!Die, TheLock!MoveTo
  <2>. QED BY <2>2 DEF TheLock!Next
<1>8. ASSUME OperatorRemoves PROVE TheLock!Next
  <2>1. Lock \in Stale /\ Dirs' = Dirs \ {Lock} /\ Stale' = Stale \ {Lock}
    BY <1>8 DEF OperatorRemoves
  <2>2. TheLock!OperatorRemoves(Lock)
    BY <1>8, <2>1 DEF OperatorRemoves, TheLock!OperatorRemoves
  <2>. QED BY <2>2 DEF TheLock!Next
<1>9. CASE Tick \/ UNCHANGED vars
  BY <1>9 DEF Tick, vars, TheLock!vars
<1>. QED BY <1>2, <1>3, <1>4, <1>5, <1>6, <1>7, <1>8, <1>9 DEF Next

(* However a caller waits, it is the lock of RegistryLock that it waits for *)
(* (acquireRegistryLock, acquireRegistryLockAsync).                         *)
THEOREM BackoffUsesRegistryLock == Spec => ImplementsRegistryLock
<1>1. Init => TheLock!Init
  BY DEF Init, TheLock!Init
<1>. QED BY <1>1, LockSteps, WaitInvariant, PTL
         DEF Spec, ImplementsRegistryLock, TheLock!Spec
=============================================================================
