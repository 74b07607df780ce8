----------------------------- MODULE LockBackoff -----------------------------
(***************************************************************************)
(* How long acquireRegistryLock and its asynchronous twin wait for one     *)
(* lock directory (src/protocol/event-registry/storage.ts).  Time is in    *)
(* milliseconds scaled down: InitialDelay and MaxDelay stand for           *)
(* DEFAULT_LOCK_BACKOFF_INITIAL_MS and DEFAULT_LOCK_BACKOFF_MAX_MS.  Each  *)
(* caller measures elapsed time from its own start, so no absolute clock   *)
(* is kept; a step of a caller that is due happens at most MaxLate ticks   *)
(* late (scheduling, timer rounding).                                      *)
(***************************************************************************)
EXTENDS Naturals, Integers

CONSTANTS
  Process,       \* callers of acquireRegistryLock / acquireRegistryLockAsync
  Options,       \* each caller's RegistryLockOptions
  Unset,         \* an option the caller leaves out
  InitialDelay, MaxDelay,
  DefaultBudget, DefaultAttempts, DefaultRetry,
  MaxLate,
  ElapsedCap     \* bound: elapsed stops counting here, beyond any call's budget

(* The options are numbers, whatever their sign, and the built-in policy's  *)
(* first delay is one tick at least (DEFAULT_LOCK_BACKOFF_INITIAL_MS).      *)
ASSUME PolicyAssumption ==
  /\ Options \in [Process -> [maxLockAttempts : Int \cup {Unset},
                             lockRetryMs : Int \cup {Unset},
                             lockBudgetMs : Int \cup {Unset}]]
  /\ Unset \notin Int
  /\ InitialDelay \in Nat \ {0} /\ MaxDelay \in Nat /\ InitialDelay <= MaxDelay
  /\ DefaultBudget \in Nat /\ DefaultAttempts \in Nat /\ DefaultRetry \in Nat
  /\ MaxLate \in Nat /\ ElapsedCap \in Nat

VARIABLES
  lockDir,       \* does the directory exist
  stale,         \* did its maker die while inside
  phase,         \* "idle", "trying", "busy" or "inside"
  elapsed,       \* Date.now() - startedAt of the current or last call
  sleep,         \* ticks until the next attempt is due (negative when late)
  delayMs,       \* the undamped backoff delay
  attempts,      \* mkdir calls made in the current or last call
  lastTry,       \* elapsed at the last mkdir
  verdict        \* did the last call end in locked: false ("none", "refused")

callVars == <<elapsed, sleep, delayMs, attempts, lastTry, verdict>>
vars == <<lockDir, stale, phase, callVars>>

Least(a, b) == IF a <= b THEN a ELSE b
Most(a, b)  == IF a >= b THEN a ELSE b
Given(option, default) == IF option = Unset THEN default ELSE option

(* lockPolicy: one fixed option is enough to select the fixed mode. *)
lockPolicy(o) ==
  IF o.maxLockAttempts # Unset \/ o.lockRetryMs # Unset
  THEN [mode |-> "fixed",
        maxAttempts |-> Most(1, Given(o.maxLockAttempts, DefaultAttempts)),
        retryMs |-> Most(0, Given(o.lockRetryMs, DefaultRetry)),
        budgetMs |-> 0]
  ELSE [mode |-> "backoff", maxAttempts |-> 0, retryMs |-> 0,
        budgetMs |-> Most(0, Given(o.lockBudgetMs, DefaultBudget))]

Policy(p) == lockPolicy(Options[p])
Fixed(p) == Policy(p).mode = "fixed"
Budget(p) == Policy(p).budgetMs

(* Math.round(delayMs * (0.5 + Math.random() * 0.5)), over every draw. *)
FlooredJitter(d) == (d \div 2) .. d
Jittered(d) == ((d + 1) \div 2) .. d

(* nextBackoffDelayMs: never past the remaining budget. *)
Unclamped(d, el, budget) == Jittered(d)
NextBackoffDelays(d, el, budget) ==
  { Most(0, Least(j, budget - el)) : j \in Jittered(d) }

(* The delay doubles up to the cap. *)
Uncapped(d) == d * 2
NextDelay(d) == Least(MaxDelay, d * 2)

Waiting(p) == phase[p] \in {"trying", "busy"}

(* The cap on elapsed is beyond what a call with a budget can come to.      *)
ASSUME CapAssumption ==
  \A p \in Process : ~Fixed(p) => Budget(p) + 2 * MaxLate < ElapsedCap

-----------------------------------------------------------------------------
TypeOK ==
  /\ lockDir \in BOOLEAN /\ stale \in BOOLEAN
  /\ phase \in [Process -> {"idle", "trying", "busy", "inside"}]
  /\ elapsed \in [Process -> Nat]
  /\ sleep \in [Process -> Int]
  /\ delayMs \in [Process -> InitialDelay .. MaxDelay]
  /\ attempts \in [Process -> Nat]
  /\ lastTry \in [Process -> Nat]
  /\ verdict \in [Process -> {"none", "refused"}]

Init ==
  /\ lockDir = FALSE /\ stale = FALSE
  /\ phase = [p \in Process |-> "idle"]
  /\ elapsed = [p \in Process |-> 0]
  /\ sleep = [p \in Process |-> 0]
  /\ delayMs = [p \in Process |-> InitialDelay]
  /\ attempts = [p \in Process |-> 0]
  /\ lastTry = [p \in Process |-> 0]
  /\ verdict = [p \in Process |-> "none"]

(* The locals of acquireRegistryLock before and after a call. *)
Forget(p) ==
  /\ elapsed' = [elapsed EXCEPT ![p] = 0]
  /\ sleep' = [sleep EXCEPT ![p] = 0]
  /\ delayMs' = [delayMs EXCEPT ![p] = InitialDelay]
  /\ attempts' = [attempts EXCEPT ![p] = 0]
  /\ lastTry' = [lastTry EXCEPT ![p] = 0]

(* A call starts: startedAt = Date.now(), attempts = 0 (the locals of a    *)
(* call that is over are already forgotten, except in a refusal's report). *)
Begin(p) ==
  /\ phase[p] = "idle"
  /\ phase' = [phase EXCEPT ![p] = "trying"]
  /\ Forget(p)
  /\ verdict' = [verdict EXCEPT ![p] = "none"]
  /\ UNCHANGED <<lockDir, stale>>

(* Does mkdir report EEXIST? *)
RecursiveMkdir == FALSE
EEXIST == lockDir

(* attempts += 1, before the try. *)
CountedOnSuccess(p) == IF lockDir THEN attempts ELSE [attempts EXCEPT ![p] = @ + 1]
Counted(p) == [attempts EXCEPT ![p] = @ + 1]

(* One mkdir, once the sleep before it is over. *)
Attempt(p) ==
  /\ phase[p] = "trying"
  /\ sleep[p] <= 0
  /\ \/ /\ ~EEXIST
        /\ lockDir' = TRUE
        /\ phase' = [phase EXCEPT ![p] = "inside"]
        /\ Forget(p)
        /\ UNCHANGED <<stale, verdict>>
     \/ /\ EEXIST
        /\ phase' = [phase EXCEPT ![p] = "busy"]
        /\ attempts' = Counted(p)
        /\ lastTry' = [lastTry EXCEPT ![p] = elapsed[p]]
        /\ sleep' = [sleep EXCEPT ![p] = 0]
        /\ UNCHANGED <<lockDir, stale, elapsed, delayMs, verdict>>

(* After EEXIST: the give-up test of the two modes. *)
GivesUpEarly(p) ==
  IF Fixed(p) THEN attempts[p] >= Policy(p).maxAttempts
              ELSE elapsed[p] + delayMs[p] >= Budget(p)
OutOfPatience(p) ==
  IF Fixed(p) THEN attempts[p] >= Policy(p).maxAttempts
              ELSE elapsed[p] >= Budget(p)

Refuse(p) ==
  /\ phase[p] = "busy"
  /\ OutOfPatience(p)
  /\ phase' = [phase EXCEPT ![p] = "idle"]
  /\ verdict' = [verdict EXCEPT ![p] = "refused"]
  /\ UNCHANGED <<lockDir, stale, elapsed, sleep, delayMs, attempts, lastTry>>

(* sleepSync / sleepAsync before the next attempt; in backoff mode the     *)
(* delay doubles up to the cap.                                            *)
Sleep(p) ==
  /\ phase[p] = "busy"
  /\ ~OutOfPatience(p)
  /\ phase' = [phase EXCEPT ![p] = "trying"]
  /\ IF Fixed(p)
     THEN /\ sleep' = [sleep EXCEPT ![p] = Policy(p).retryMs]
          /\ UNCHANGED delayMs
     ELSE /\ \E w \in NextBackoffDelays(delayMs[p], elapsed[p], Budget(p)) :
               sleep' = [sleep EXCEPT ![p] = w]
          /\ delayMs' = [delayMs EXCEPT ![p] = NextDelay(@)]
  /\ UNCHANGED <<lockDir, stale, elapsed, attempts, lastTry, verdict>>

(* The caller's finally: rmdir. *)
Release(p) ==
  /\ phase[p] = "inside"
  /\ lockDir' = FALSE
  /\ phase' = [phase EXCEPT ![p] = "idle"]
  /\ UNCHANGED <<stale, callVars>>

(* The process dies (or mkdir fails with something else than EEXIST). *)
Die(p) ==
  /\ phase[p] # "idle"
  /\ phase' = [phase EXCEPT ![p] = "idle"]
  /\ stale' = (stale \/ phase[p] = "inside")
  /\ Forget(p)
  /\ UNCHANGED <<lockDir, verdict>>

(* The operator clears a lock whose maker is gone. *)
OperatorRemoves ==
  /\ stale
  /\ lockDir' = FALSE /\ stale' = FALSE
  /\ UNCHANGED <<phase, callVars>>

(* One tick passes while somebody waits; nobody who is due is kept waiting *)
(* more than MaxLate ticks.                                                *)
Tick ==
  /\ \E p \in Process : Waiting(p)
  /\ \A p \in Process : Waiting(p) => sleep[p] > -MaxLate
  /\ elapsed' = [p \in Process |->
       IF Waiting(p) THEN Least(ElapsedCap, elapsed[p] + 1) ELSE elapsed[p]]
  /\ sleep' = [p \in Process |-> IF Waiting(p) THEN sleep[p] - 1 ELSE sleep[p]]
  /\ UNCHANGED <<lockDir, stale, phase, delayMs, attempts, lastTry, verdict>>

CallerStep(p) == Attempt(p) \/ Refuse(p) \/ Sleep(p)

Next ==
  \/ \E p \in Process :
       Begin(p) \/ Attempt(p) \/ Refuse(p) \/ Sleep(p) \/ Release(p) \/ Die(p)
  \/ OperatorRemoves
  \/ Tick

(* A running caller keeps running and time passes; nothing is assumed of   *)
(* the holder, who may keep the lock for ever, or of the operator.         *)
Fairness == WF_vars(Tick) /\ \A p \in Process : WF_vars(CallerStep(p))

Spec == Init /\ [][Next]_vars /\ Fairness

-----------------------------------------------------------------------------
(* A refused caller really waited: all maxAttempts attempts in fixed mode, *)
(* and in backoff mode the whole budget, with its last mkdir no earlier    *)
(* than one late step before the deadline - a lock freed in time is seen   *)
(* (storage.ts: "a legitimate writer outlasting a busy peer waits instead  *)
(* of starving").                                                          *)
RefusalIsEarned ==
  \A p \in Process : verdict[p] = "refused" =>
    IF Fixed(p) THEN attempts[p] = Policy(p).maxAttempts
    ELSE /\ attempts[p] >= 1
         /\ elapsed[p] >= Budget(p)
         /\ lastTry[p] >= Budget(p) - MaxLate

(* The wall-clock promise of nextBackoffDelayMs: in backoff mode no call   *)
(* outlives its budget by more than its last two steps being late.         *)
OverrunBounded ==
  \A p \in Process :
    (Waiting(p) \/ verdict[p] = "refused") /\ ~Fixed(p) =>
      elapsed[p] <= Budget(p) + 2 * MaxLate

(* Backing off is not spinning: every retry of a backoff call is paid for  *)
(* with at least one tick of sleep, even when jitter and the clamp shrink  *)
(* the delay.                                                              *)
RetriesArePaced ==
  \A p \in Process : ~Fixed(p) => attempts[p] <= elapsed[p] + 1

(* Every call returns, whatever the holder of the lock does. *)
EveryWaitEnds == \A p \in Process : Waiting(p) ~> ~Waiting(p)

(* The wait policy never changes what the lock is: every step is a step of *)
(* the ownerless mkdir lock.                                               *)
TheLock == INSTANCE RegistryLock WITH
  LockDir <- {"events.lock"},
  dirs <- IF lockDir THEN {"events.lock"} ELSE {},
  target <- [p \in Process |-> "events.lock"],
  stale <- IF stale THEN {"events.lock"} ELSE {}

ImplementsRegistryLock == TheLock!Spec
=============================================================================
