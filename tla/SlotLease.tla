------------------------------ MODULE SlotLease ------------------------------
(***************************************************************************)
(* The slot lease of src/protocol/lease/store.ts.  Runners (processes,     *)
(* each acting under a holder id, each with its own clock) call acquire,   *)
(* any-of acquire, renew and release; every read-modify-write of a slot's  *)
(* record happens between the mkdir and the rmdir of that slot's lock      *)
(* directory, and each file operation is a step of its own.  check and     *)
(* fence read the record without the lock, so they are state functions.    *)
(*                                                                         *)
(* Calls refused before the lock (invalid arguments, a slot the allow-list *)
(* does not name) change nothing and are not steps.                        *)
(***************************************************************************)
EXTENDS Naturals, Sequences

CONSTANTS
  Runner, Holder, HolderOf,  \* the holder id each runner acts under
  NoHolder,                  \* holder: null, a free slot
  Slot,
  Orders,                    \* the slot lists passed to any-of acquire
  Ops,                       \* which of the four calls each runner makes
  Ttl, MaxTtl,               \* times to live a caller may ask for, their bound
  Skew,                      \* the clock-skew allowance
  Drift,                     \* how far each runner's clock is ahead
  AllowLists,                \* what slots.allow may come to list
  Presented,                 \* the tokens callers present to renew and release
  MaxTime, MaxToken          \* bounds on the clock and on new grants

ASSUME LeaseAssumption ==
  /\ HolderOf \in [Runner -> Holder]
  /\ NoHolder \notin Holder
  /\ Orders \subseteq Seq(Slot)
  /\ MaxTtl \in Nat /\ Ttl \subseteq 1 .. MaxTtl
  /\ Skew \in Nat
  /\ Drift \in [Runner -> Nat]
  /\ AllowLists \subseteq SUBSET Slot
  /\ Presented \subseteq Nat
  /\ MaxTime \in Nat /\ MaxToken \in Nat

(* Two clocks never differ by more than the allowance. *)
ASSUME SkewCoversDrift == \A r \in Runner : Drift[r] <= Skew

VARIABLES
  rec,       \* the record file of each slot (no file: token 0, free)
  dirs,      \* the slots whose lock directory exists
  stale,     \* those left behind by a runner that died
  allowed,   \* the slots slots.allow names (all of them: no such file)
  now,       \* real time
  pc, job, slot,     \* where a runner is, the call it makes, on which slot
  seen, next,        \* the record it read, the record it writes or returns
  outcome,           \* how the try of the current slot ended
  reported           \* history: the grants that calls returned to callers

fileVars == <<rec, dirs, stale, allowed>>
runVars  == <<pc, job, slot, seen, next, outcome>>
vars == <<fileVars, now, runVars, reported>>

Record == [token : Nat, holder : Holder \cup {NoHolder}, expires : Nat, ends : Nat]
(* "expires" is expires_at, on the clock of the runner that wrote it; "ends" *)
(* is the same instant in real time, which only the properties read.         *)
NoRecord == [token |-> 0, holder |-> NoHolder, expires |-> 0, ends |-> 0]

Job == [op : {"acquire", "acquireAny", "renew", "release"},
        order : Seq(Slot), todo : Seq(Slot), pass : {"own", "grant"},
        token : Nat, ttl : Nat]
NoJob == [op |-> "acquire", order |-> <<>>, todo |-> <<>>, pass |-> "grant",
          token |-> 0, ttl |-> 0]

Inside(r) == pc[r] \in {"locked", "decide", "write", "unlock"}

(* isRecord: a free slot has no expiry, a held one has a token. *)
WellFormed(rc) ==
  /\ rc \in Record
  /\ rc.holder = NoHolder => rc.expires = 0 /\ rc.ends = 0
  /\ rc.holder # NoHolder => rc.token > 0

TypeOK ==
  /\ rec \in [Slot -> Record] /\ \A s \in Slot : WellFormed(rec[s])
  /\ dirs \in SUBSET Slot /\ stale \in SUBSET Slot
  /\ allowed \in SUBSET Slot
  /\ now \in Nat
  /\ pc \in [Runner -> {"idle", "trying", "busy", "locked", "decide", "write",
                        "unlock", "return"}]
  /\ job \in [Runner -> Job]
  /\ slot \in [Runner -> Slot]
  /\ seen \in [Runner -> Record] /\ next \in [Runner -> Record]
  /\ outcome \in [Runner -> {"none", "granted", "done", "held", "refused", "error"}]
  /\ reported \in SUBSET [slot : Slot, token : Nat, holder : Holder]

Init ==
  /\ rec = [s \in Slot |-> NoRecord]
  /\ dirs = {} /\ stale = {}
  /\ allowed \in AllowLists
  /\ now = 0
  /\ pc = [r \in Runner |-> "idle"]
  /\ job = [r \in Runner |-> NoJob]
  /\ slot \in [Runner -> Slot]
  /\ seen = [r \in Runner |-> NoRecord]
  /\ next = [r \in Runner |-> NoRecord]
  /\ outcome = [r \in Runner |-> "none"]
  /\ reported = {}

Goto(r, l) == pc' = [pc EXCEPT ![r] = l]
End(r, out) == outcome' = [outcome EXCEPT ![r] = out]

-----------------------------------------------------------------------------
(* The clocks. *)
Clock(r) == now + Drift[r]

(* isExpired: the allowance delays the takeover. *)
IgnoresSkew(rc, at) == rc.holder # NoHolder /\ rc.expires <= at
Expired(rc, at) == rc.holder # NoHolder /\ rc.expires + Skew <= at

(* The records that the calls write. *)
LeasedTo(r, token) ==
  [token |-> token, holder |-> HolderOf[r],
   expires |-> Clock(r) + job[r].ttl, ends |-> now + job[r].ttl]

ForgetsToken(rc) == NoRecord
HolderOnly(rc) == [rc EXCEPT !.holder = NoHolder]
Freed(rc) == [token |-> rc.token, holder |-> NoHolder, expires |-> 0, ends |-> 0]

SameToken(rc) == rc.token
NextToken(rc) == rc.token + 1

-----------------------------------------------------------------------------
(* Starting a call.  Up front the allow-list must name every slot given.   *)
Call(r, j) ==
  /\ pc[r] = "idle"
  /\ j.op \in Ops[r]
  /\ \A i \in 1 .. Len(j.order) : j.order[i] \in allowed
  /\ job' = [job EXCEPT ![r] = j]
  /\ slot' = [slot EXCEPT ![r] = Head(j.order)]
  /\ Goto(r, "trying")
  /\ UNCHANGED <<fileVars, now, seen, next, outcome, reported>>

OneSlot(op, s, token, ttl) ==
  [op |-> op, order |-> <<s>>, todo |-> <<>>, pass |-> "grant",
   token |-> token, ttl |-> ttl]

(* Bound: a new grant is asked for only below MaxToken. *)
WithinBounds == \A s \in Slot : rec[s].token < MaxToken

StartAcquire(r) ==
  /\ WithinBounds
  /\ \E s \in Slot, ttl \in Ttl : Call(r, OneSlot("acquire", s, 0, ttl))

SkipsOwnPass == "grant"
FirstPass == "own"

StartAcquireAny(r) ==
  /\ WithinBounds
  /\ \E order \in Orders, ttl \in Ttl :
       /\ order # <<>>
       /\ Call(r, [op |-> "acquireAny", order |-> order, todo |-> Tail(order),
                   pass |-> FirstPass, token |-> 0, ttl |-> ttl])

StartRenew(r) ==
  \E s \in Slot, token \in Presented, ttl \in Ttl :
    Call(r, OneSlot("renew", s, token, ttl))

StartRelease(r) ==
  \E s \in Slot, token \in Presented :
    Call(r, OneSlot("release", s, token, 0))

-----------------------------------------------------------------------------
(* withSlotLock: acquireRegistryLock, as RegistryLock has it. *)
RecursiveMkdir(r) == FALSE
EEXIST(r) == slot[r] \in dirs

MkdirMakes(r) ==
  /\ pc[r] = "trying"
  /\ ~EEXIST(r)
  /\ dirs' = dirs \cup {slot[r]}
  /\ Goto(r, "locked")
  /\ UNCHANGED <<rec, stale, allowed, now, job, slot, seen, next, outcome, reported>>

MkdirFinds(r) ==
  /\ pc[r] = "trying"
  /\ EEXIST(r)
  /\ Goto(r, "busy")
  /\ UNCHANGED <<fileVars, now, job, slot, seen, next, outcome, reported>>

Wait(r) ==
  /\ pc[r] = "busy"
  /\ Goto(r, "trying")
  /\ UNCHANGED <<fileVars, now, job, slot, seen, next, outcome, reported>>

(* lock_unavailable *)
GiveUp(r) ==
  /\ pc[r] = "busy"
  /\ Goto(r, "return")
  /\ End(r, "refused")
  /\ UNCHANGED <<fileVars, now, job, slot, seen, next, reported>>

(* readLease, under the lock: the allow-list again, then the record. *)
ReadRecord(r) ==
  /\ pc[r] = "locked"
  /\ IF slot[r] \in allowed
     THEN /\ seen' = [seen EXCEPT ![r] = rec[slot[r]]]
          /\ Goto(r, "decide")
          /\ UNCHANGED outcome
     ELSE /\ Goto(r, "unlock")
          /\ End(r, "refused")
          /\ UNCHANGED seen
  /\ UNCHANGED <<fileVars, now, job, slot, next, reported>>

(* The body's two ways to go on: write a record, or return without writing. *)
Persist(r, rc) ==
  /\ next' = [next EXCEPT ![r] = rc]
  /\ Goto(r, "write")
  /\ UNCHANGED outcome

Settle(r, out) ==
  /\ next' = [next EXCEPT ![r] = IF out = "granted" THEN seen[r] ELSE NoRecord]
  /\ Goto(r, "unlock")
  /\ End(r, out)

(* acquireLease: free or expired under a new token, one's own refreshed     *)
(* under its token (even after it expired), anybody else's refused.         *)
DecideAcquire(r) ==
  LET old == seen[r]  me == HolderOf[r]  expired == Expired(old, Clock(r)) IN
  /\ job[r].op = "acquire"
  /\ \/ /\ old.holder = NoHolder \/ (old.holder # me /\ expired)
        /\ Persist(r, LeasedTo(r, NextToken(old)))
     \/ /\ old.holder = me
        /\ Persist(r, LeasedTo(r, old.token))
     \/ /\ old.holder \notin {NoHolder, me}
        /\ ~expired
        /\ Settle(r, "held")

(* acquireAnyLease, first pass: a slot already held is returned unwritten. *)
DecideOwn(r) ==
  /\ job[r].op = "acquireAny"
  /\ job[r].pass = "own"
  /\ IF seen[r].holder = HolderOf[r] /\ ~Expired(seen[r], Clock(r))
     THEN Settle(r, "granted")
     ELSE Settle(r, "held")

(* Second pass: the first free or expired slot. *)
DecideGrant(r) ==
  LET old == seen[r]  free == old.holder = NoHolder \/ Expired(old, Clock(r)) IN
  /\ job[r].op = "acquireAny"
  /\ job[r].pass = "grant"
  /\ \/ free /\ Persist(r, LeasedTo(r, NextToken(old)))
     \/ ~free /\ old.holder = HolderOf[r] /\ Settle(r, "granted")
     \/ ~free /\ old.holder # HolderOf[r] /\ Settle(r, "held")

(* renewLease and releaseLease: the holder's, with the current token; a     *)
(* renewal also needs the lease unexpired.                                  *)
Presents(r) == seen[r].holder = HolderOf[r] /\ seen[r].token = job[r].token

DecideRenew(r) ==
  /\ job[r].op = "renew"
  /\ IF Presents(r) /\ ~Expired(seen[r], Clock(r))
     THEN Persist(r, LeasedTo(r, seen[r].token))
     ELSE Settle(r, "refused")

DecideRelease(r) ==
  /\ job[r].op = "release"
  /\ IF Presents(r) THEN Persist(r, Freed(seen[r])) ELSE Settle(r, "refused")

Decide(r) ==
  /\ pc[r] = "decide"
  /\ \/ DecideAcquire(r) \/ DecideOwn(r) \/ DecideGrant(r)
     \/ DecideRenew(r) \/ DecideRelease(r)
  /\ UNCHANGED <<fileVars, now, job, slot, seen, reported>>

(* writeLease: the temporary file's rename puts the record in place. *)
RenameRecord(r) ==
  /\ pc[r] = "write"
  /\ rec' = [rec EXCEPT ![slot[r]] = next[r]]
  /\ Goto(r, "unlock")
  /\ End(r, IF job[r].op = "release" THEN "done" ELSE "granted")
  /\ UNCHANGED <<dirs, stale, allowed, now, job, slot, seen, next, reported>>

(* An unexpected fs error under the lock (an unreadable record, a failed    *)
(* write or rename) leaves the record as it was and goes through finally.   *)
NoFinally == "return"
Finally == "unlock"

Fault(r) ==
  /\ pc[r] \in {"locked", "write"}
  /\ Goto(r, Finally)
  /\ End(r, "error")
  /\ UNCHANGED <<fileVars, now, job, slot, seen, next, reported>>

RmdirLock(r) ==
  /\ pc[r] = "unlock"
  /\ dirs' = dirs \ {slot[r]}
  /\ Goto(r, "return")
  /\ seen' = [seen EXCEPT ![r] = NoRecord]
  /\ UNCHANGED <<rec, stale, allowed, now, job, slot, next, outcome, reported>>

-----------------------------------------------------------------------------
(* After the lock: any-of acquire goes on to the next slot of the pass, and *)
(* from the first pass to the second; anything else ends the call.          *)
RetriesForEver(j) ==
  IF j.todo # <<>> THEN [j EXCEPT !.todo = Tail(@)]
                   ELSE [j EXCEPT !.todo = Tail(j.order), !.pass = "grant"]
NextTry(j) ==
  IF j.todo # <<>> THEN [j EXCEPT !.todo = Tail(@)]
  ELSE IF j.pass = "own" THEN [j EXCEPT !.todo = Tail(j.order), !.pass = "grant"]
  ELSE NoJob

GoesOn(r) ==
  /\ job[r].op = "acquireAny"
  /\ outcome[r] = "held"
  /\ NextTry(job[r]) # NoJob

NextSlot(r) ==
  /\ pc[r] = "return"
  /\ GoesOn(r)
  /\ job' = [job EXCEPT ![r] = NextTry(@)]
  /\ slot' = [slot EXCEPT ![r] =
                IF job[r].todo # <<>> THEN Head(job[r].todo) ELSE Head(job[r].order)]
  /\ Goto(r, "trying")
  /\ End(r, "none")
  /\ UNCHANGED <<fileVars, now, seen, next, reported>>

Forget(r) ==
  /\ Goto(r, "idle")
  /\ job' = [job EXCEPT ![r] = NoJob]
  /\ seen' = [seen EXCEPT ![r] = NoRecord]
  /\ next' = [next EXCEPT ![r] = NoRecord]
  /\ End(r, "none")

Return(r) ==
  /\ pc[r] = "return"
  /\ ~GoesOn(r)
  /\ reported' =
       IF outcome[r] = "granted"
       THEN reported \cup {[slot |-> slot[r], token |-> next[r].token,
                            holder |-> HolderOf[r]]}
       ELSE reported
  /\ Forget(r)
  /\ UNCHANGED <<fileVars, now, slot>>

(* The runner's process dies (a failing rmdir ends the same way): the lock  *)
(* directory it made stays, and its slot refuses every writer.              *)
Die(r) ==
  /\ pc[r] # "idle"
  /\ stale' = IF Inside(r) THEN stale \cup {slot[r]} ELSE stale
  /\ Forget(r)
  /\ UNCHANGED <<rec, dirs, allowed, now, slot, reported>>

(* The operator: clears the lock of a dead runner, edits slots.allow. *)
OperatorRemoves(s) ==
  /\ s \in stale
  /\ dirs' = dirs \ {s}
  /\ stale' = stale \ {s}
  /\ UNCHANGED <<rec, allowed, now, runVars, reported>>

EditAllowList ==
  /\ allowed' \in AllowLists
  /\ UNCHANGED <<rec, dirs, stale, now, runVars, reported>>

Tick ==
  /\ now < MaxTime
  /\ now' = now + 1
  /\ UNCHANGED <<fileVars, runVars, reported>>

-----------------------------------------------------------------------------
LockStep(r) == MkdirMakes(r) \/ MkdirFinds(r) \/ Wait(r) \/ GiveUp(r)
BodyStep(r) == ReadRecord(r) \/ Decide(r) \/ RenameRecord(r) \/ RmdirLock(r)
CallStep(r) == NextSlot(r) \/ Return(r)

Start(r) ==
  StartAcquire(r) \/ StartAcquireAny(r) \/ StartRenew(r) \/ StartRelease(r)

Next ==
  \/ \E r \in Runner :
       Start(r) \/ LockStep(r) \/ BodyStep(r) \/ CallStep(r) \/ Fault(r) \/ Die(r)
  \/ \E s \in Slot : OperatorRemoves(s)
  \/ EditAllowList
  \/ Tick

(* A runner that is in a call keeps running, and a wait for the lock does  *)
(* not go on for ever (LockBackoff, EveryWaitEnds).  Nothing is assumed of *)
(* other runners, of the operator or of the clock.                         *)
Fairness ==
  \A r \in Runner :
    /\ WF_vars(LockStep(r) \/ BodyStep(r) \/ CallStep(r))
    /\ SF_vars(GiveUp(r))

Spec == Init /\ [][Next]_vars
FairSpec == Spec /\ Fairness

-----------------------------------------------------------------------------
(* checkLease and fenceAction, read without the lock. *)
checkLease(r, s, token) ==
  /\ rec[s].holder = HolderOf[r]
  /\ rec[s].token = token
  /\ ~Expired(rec[s], Clock(r))

fenceAction(s, token) ==
  IF token = rec[s].token THEN "current"
  ELSE IF token < rec[s].token THEN "superseded" ELSE "unknown_token"

(* Whatever a runner decides under the lock, it decides on the record that *)
(* its rename will replace: no other writer came between (store.ts "every  *)
(* read-modify-write of a slot's record runs under ODIN's EXISTING         *)
(* cross-process registry lock").                                          *)
DecidesOnCurrentRecord ==
  \A r \in Runner : pc[r] \in {"decide", "write"} => seen[r] = rec[slot[r]]

(* The fencing contract: of the grants that calls ever reported, the fence *)
(* passes those of one holder only, and never calls one of them unknown;   *)
(* so an action under an older lease cannot pass for the new holder's,     *)
(* whatever crashed, expired or was released in between.                   *)
FenceSeparatesHolders ==
  \A g \in reported :
    /\ fenceAction(g.slot, g.token) # "unknown_token"
    /\ fenceAction(g.slot, g.token) = "current" =>
         /\ rec[g.slot].holder \in {g.holder, NoHolder}
         /\ \A other \in reported :
              other.slot = g.slot /\ other.token = g.token => other.holder = g.holder

(* A lease that was neither released nor has run out in real time is never *)
(* given to anyone: the allowance covers what the clocks differ by.        *)
NoEarlyTakeover ==
  [][\A s \in Slot :
       rec'[s].token # rec[s].token /\ rec[s].holder # NoHolder
         => rec[s].ends <= now]_vars

(* Files, locks, clocks and crashes together are one atomic fenced lease. *)
TheLease == INSTANCE FencedLease WITH
  lease <- [s \in Slot |-> [token |-> rec[s].token, holder |-> rec[s].holder,
                            ends |-> rec[s].ends]]

ImplementsFencedLease == TheLease!Spec

(* Every path of a call, refusals and faults included, uses the lock as     *)
(* the registry does: never inside without its own directory, none leaked.  *)
PhaseOf(l) ==
  IF l \in {"idle", "return"} THEN "idle"
  ELSE IF l \in {"trying", "busy"} THEN l ELSE "inside"

TheLocks == INSTANCE RegistryLock WITH
  Process <- Runner, LockDir <- Slot, target <- slot,
  phase <- [r \in Runner |-> PhaseOf(pc[r])]

ImplementsRegistryLock == TheLocks!Spec

(* At most one runner is between the mkdir and the rmdir of a slot. *)
OneWriterPerSlot == TheLocks!MutualExclusion

(* Every call returns, granted or refused, even while a dead runner's lock  *)
(* blocks a slot for ever.                                                  *)
EveryCallReturns == \A r \in Runner : pc[r] # "idle" ~> pc[r] = "idle"

(* A holder that never runs two calls at once and only uses any-of acquire  *)
(* over the same slots, in whatever order, never holds two live leases:     *)
(* its retries find the one it has (lease.md: "idempotent re-acquire, no    *)
(* second grant").                                                          *)
LiveSlots(r) ==
  { s \in Slot : rec[s].holder = HolderOf[r] /\ ~Expired(rec[s], Clock(r)) }
AtMostOne(S) == \A s, t \in S : s = t

OneSlotPerHolder == \A r \in Runner : AtMostOne(LiveSlots(r))

(* lease.md, for a holder that does run two: "Two concurrent calls from one *)
(* holder with the same order settle on the same slot".  The same formula,  *)
(* checked where two runners share a holder and one order.                  *)
SameOrderSettles == \A r \in Runner : AtMostOne(LiveSlots(r))
=============================================================================
