--------------------------- MODULE SlotLeaseProofs ---------------------------
(* SlotLease for any number of runners, holders, slots and clocks.          *)
EXTENDS SlotLease, SequenceTheorems, TLAPS

USE LeaseAssumption DEF LeaseAssumption

-----------------------------------------------------------------------------
(* Types.  Beyond TypeOK: every record a runner carries is well formed, the *)
(* ttl it was asked for is bounded, and it has at least one slot to try.    *)
CallInv ==
  \A r \in Runner :
    /\ WellFormed(seen[r]) /\ WellFormed(next[r])
    /\ job[r].ttl <= MaxTtl
    /\ pc[r] # "idle" => job[r].order # <<>>

TypeInv == TypeOK /\ CallInv

LEMMA LeasedToRecord ==
  ASSUME TypeInv, NEW r \in Runner, NEW token \in Nat \ {0}
  PROVE  /\ WellFormed(LeasedTo(r, token))
         /\ LeasedTo(r, token).token = token
         /\ LeasedTo(r, token).holder = HolderOf[r]
         /\ LeasedTo(r, token).ends <= now + MaxTtl
         /\ LeasedTo(r, token).ends <= LeasedTo(r, token).expires
<1>1. now \in Nat /\ job[r].ttl \in Nat /\ job[r].ttl <= MaxTtl
  BY DEF TypeInv, TypeOK, CallInv, Job
<1>2. Drift[r] \in Nat /\ HolderOf[r] \in Holder /\ HolderOf[r] # NoHolder /\ MaxTtl \in Nat
  OBVIOUS
<1> QED BY <1>1, <1>2, SMTT(30) DEF LeasedTo, WellFormed, Record, Clock

LEMMA FreedRecord ==
  ASSUME NEW rc, WellFormed(rc)
  PROVE  /\ WellFormed(Freed(rc))
         /\ Freed(rc) = [token |-> rc.token, holder |-> NoHolder,
                         expires |-> 0, ends |-> 0]
BY DEF WellFormed, Freed, Record

LEMMA NoRecordWellFormed == WellFormed(NoRecord) /\ NoRecord \in Record
BY DEF WellFormed, NoRecord, Record

LEMMA NoJobTyped == NoJob \in Job /\ NoJob.ttl <= MaxTtl
BY DEF NoJob, Job

LEMMA NonEmptySeq ==
  ASSUME NEW S, NEW q \in Seq(S), q # <<>>
  PROVE  Head(q) \in S /\ Tail(q) \in Seq(S)
OBVIOUS

LEMMA OneSlotJob ==
  ASSUME NEW op \in {"acquire", "renew", "release"}, NEW s \in Slot,
         NEW token \in Nat, NEW ttl \in 0 .. MaxTtl
  PROVE  /\ OneSlot(op, s, token, ttl) \in Job
         /\ OneSlot(op, s, token, ttl).ttl <= MaxTtl
         /\ OneSlot(op, s, token, ttl).order # <<>>
<1>1. <<s>> \in Seq(Slot) /\ <<>> \in Seq(Slot) /\ <<s>> # <<>>
  OBVIOUS
<1>2. ttl \in Nat /\ ttl <= MaxTtl
  OBVIOUS
<1> QED BY <1>1, <1>2 DEF OneSlot, Job

-----------------------------------------------------------------------------
(* One lemma per group of actions. *)
LEMMA TypeCall ==
  ASSUME TypeInv, NEW r \in Runner, NEW j \in Job, j.ttl <= MaxTtl,
         j.order # <<>>, Call(r, j)
  PROVE  TypeInv'
<1>1. Head(j.order) \in Slot
  BY NonEmptySeq DEF Job
<1>2. TypeOK'
  BY <1>1 DEF TypeInv, TypeOK, Call, Goto, fileVars
<1>3. CallInv'
  BY DEF TypeInv, TypeOK, CallInv, Call, Goto, fileVars, WellFormed
<1> QED BY <1>2, <1>3 DEF TypeInv

LEMMA StartCalls ==
  ASSUME NEW r \in Runner, Start(r)
  PROVE  \E j \in Job : j.ttl <= MaxTtl /\ j.order # <<>> /\ Call(r, j)
<1>1. CASE StartAcquire(r)
  <2>1. PICK s \in Slot, ttl \in Ttl : Call(r, OneSlot("acquire", s, 0, ttl))
    BY <1>1 DEF StartAcquire
  <2> QED BY <2>1, OneSlotJob
<1>2. CASE StartAcquireAny(r)
  <2>1. PICK order \in Orders, ttl \in Ttl :
          /\ order # <<>>
          /\ Call(r, [op |-> "acquireAny", order |-> order, todo |-> Tail(order),
                      pass |-> FirstPass, token |-> 0, ttl |-> ttl])
    BY <1>2 DEF StartAcquireAny
  <2> DEFINE j == [op |-> "acquireAny", order |-> order, todo |-> Tail(order),
                   pass |-> FirstPass, token |-> 0, ttl |-> ttl]
  <2>2. j \in Job
    BY <2>1 DEF Job, FirstPass
  <2>3. Call(r, j)
    BY <2>1
  <2>4. j.ttl = ttl /\ j.order = order
    OBVIOUS
  <2>5. j.ttl <= MaxTtl /\ j.order # <<>>
    <3> HIDE DEF j
    <3>1. ttl \in 1 .. MaxTtl /\ MaxTtl \in Nat
      OBVIOUS
    <3> QED BY <2>1, <2>4, <3>1
  <2> HIDE DEF j
  <2> QED BY <2>2, <2>3, <2>5
<1>3. CASE StartRenew(r)
  <2>1. PICK s \in Slot, token \in Presented, ttl \in Ttl :
          Call(r, OneSlot("renew", s, token, ttl))
    BY <1>3 DEF StartRenew
  <2> DEFINE j == OneSlot("renew", s, token, ttl)
  <2>2. ttl \in 0 .. MaxTtl /\ token \in Nat
    OBVIOUS
  <2>3. j \in Job /\ j.ttl <= MaxTtl /\ j.order # <<>>
    BY <2>2, OneSlotJob
  <2> QED BY <2>1, <2>3
<1>4. CASE StartRelease(r)
  <2>1. PICK s \in Slot, token \in Presented :
          Call(r, OneSlot("release", s, token, 0))
    BY <1>4 DEF StartRelease
  <2> DEFINE j == OneSlot("release", s, token, 0)
  <2>2. 0 \in 0 .. MaxTtl /\ token \in Nat
    OBVIOUS
  <2>3. j \in Job /\ j.ttl <= MaxTtl /\ j.order # <<>>
    BY <2>2, OneSlotJob
  <2> QED BY <2>1, <2>3
<1> QED BY <1>1, <1>2, <1>3, <1>4 DEF Start

LEMMA TypeStart ==
  ASSUME TypeInv, NEW r \in Runner, Start(r)
  PROVE  TypeInv'
BY StartCalls, TypeCall

LEMMA TypeLock ==
  ASSUME TypeInv, NEW r \in Runner, LockStep(r)
  PROVE  TypeInv'
<1>1. CASE MkdirMakes(r)
  BY <1>1 DEF TypeInv, TypeOK, CallInv, MkdirMakes, Goto, WellFormed
<1>2. CASE MkdirFinds(r)
  BY <1>2 DEF TypeInv, TypeOK, CallInv, MkdirFinds, Goto, fileVars, WellFormed
<1>3. CASE Wait(r)
  BY <1>3 DEF TypeInv, TypeOK, CallInv, Wait, Goto, fileVars, WellFormed
<1>4. CASE GiveUp(r)
  BY <1>4 DEF TypeInv, TypeOK, CallInv, GiveUp, Goto, End, fileVars, WellFormed
<1> QED BY <1>1, <1>2, <1>3, <1>4 DEF LockStep

LEMMA TypeRead ==
  ASSUME TypeInv, NEW r \in Runner, ReadRecord(r)
  PROVE  TypeInv'
<1> USE DEF TypeInv, TypeOK, CallInv, ReadRecord, Goto, End, fileVars
<1>1. CASE slot[r] \in allowed
  <2>1. WellFormed(rec[slot[r]]) /\ rec[slot[r]] \in Record
    OBVIOUS
  <2>2. seen' = [seen EXCEPT ![r] = rec[slot[r]]]
    BY <1>1
  <2>3. TypeOK'
    BY <1>1, <2>1, <2>2
  <2>4. ASSUME NEW q \in Runner PROVE WellFormed(seen'[q]) /\ WellFormed(next'[q])
    BY <2>1, <2>2
  <2>5. CallInv'
    BY <1>1, <2>4 DEF WellFormed
  <2> QED BY <2>3, <2>5
<1>2. CASE slot[r] \notin allowed
  BY <1>2 DEF WellFormed
<1> QED BY <1>1, <1>2

(* What Persist writes and what Settle returns is a well-formed record. *)
LEMMA TypePersist ==
  ASSUME TypeInv, NEW r \in Runner, NEW rc, WellFormed(rc), Persist(r, rc),
         UNCHANGED <<fileVars, now, job, slot, seen, reported>>, pc[r] = "decide"
  PROVE  TypeInv'
BY DEF TypeInv, TypeOK, CallInv, Persist, Goto, fileVars, WellFormed

LEMMA TypeSettle ==
  ASSUME TypeInv, NEW r \in Runner, NEW out \in {"granted", "held", "refused"},
         Settle(r, out),
         UNCHANGED <<fileVars, now, job, slot, seen, reported>>, pc[r] = "decide"
  PROVE  TypeInv'
<1> DEFINE rc == IF out = "granted" THEN seen[r] ELSE NoRecord
<1>1. WellFormed(rc) /\ rc \in Record
  BY NoRecordWellFormed DEF TypeInv, TypeOK, CallInv
<1>2. next' = [next EXCEPT ![r] = rc]
  BY DEF Settle
<1> HIDE DEF rc
<1> QED BY <1>1, <1>2 DEF TypeInv, TypeOK, CallInv, Settle, Goto, End, fileVars, WellFormed

(* How the body ends, whatever the call: the decision is one of five         *)
(* records to write, or none.                                                *)
Writes(r, rc) ==
  \/ /\ job[r].op # "release"
     /\ seen[r].holder = NoHolder \/ Expired(seen[r], Clock(r))
     /\ rc = LeasedTo(r, seen[r].token + 1)
  \/ /\ job[r].op # "release"
     /\ seen[r].holder = HolderOf[r]
     /\ rc = LeasedTo(r, seen[r].token)
  \/ /\ job[r].op = "release"
     /\ seen[r].holder = HolderOf[r]
     /\ rc = Freed(seen[r])

Settles(r, out) ==
  /\ out \in {"granted", "held", "refused"}
  /\ out = "granted" => seen[r].holder = HolderOf[r]

LEMMA Decisions ==
  ASSUME TypeInv, NEW r \in Runner, Decide(r)
  PROVE  /\ pc[r] = "decide"
         /\ UNCHANGED <<fileVars, now, job, slot, seen, reported>>
         /\ \/ \E rc : Writes(r, rc) /\ Persist(r, rc)
            \/ \E out : Settles(r, out) /\ Settle(r, out)
<1> USE DEF Writes, Settles
<1>1. CASE DecideAcquire(r)
  BY <1>1 DEF Decide, DecideAcquire, NextToken
<1>2. CASE DecideOwn(r)
  BY <1>2 DEF Decide, DecideOwn
<1>3. CASE DecideGrant(r)
  BY <1>3 DEF Decide, DecideGrant, NextToken
<1>4. CASE DecideRenew(r)
  BY <1>4 DEF Decide, DecideRenew, Presents
<1>5. CASE DecideRelease(r)
  BY <1>5 DEF Decide, DecideRelease, Presents
<1> QED BY <1>1, <1>2, <1>3, <1>4, <1>5 DEF Decide

(* A held record has a token, so every record written is well formed. *)
LEMMA WritesWellFormed ==
  ASSUME TypeInv, NEW r \in Runner, NEW rc, Writes(r, rc)
  PROVE  /\ WellFormed(rc)
         /\ rc.ends <= now + MaxTtl
         /\ rc.ends <= rc.expires
<1>1. WellFormed(seen[r]) /\ seen[r].token \in Nat /\ HolderOf[r] # NoHolder
  BY DEF TypeInv, TypeOK, CallInv, Record
<1>2. seen[r].holder = HolderOf[r] => seen[r].token \in Nat \ {0}
  BY <1>1 DEF WellFormed
<1>3. seen[r].token + 1 \in Nat \ {0}
  BY <1>1
<1>4. now \in Nat /\ MaxTtl \in Nat
  BY DEF TypeInv, TypeOK
<1>5. CASE rc = LeasedTo(r, seen[r].token + 1)
  BY <1>3, <1>5, LeasedToRecord
<1>6. CASE seen[r].holder = HolderOf[r] /\ rc = LeasedTo(r, seen[r].token)
  BY <1>2, <1>6, LeasedToRecord
<1>7. CASE rc = Freed(seen[r])
  <2>1. WellFormed(rc) /\ rc.ends = 0 /\ rc.expires = 0
    BY <1>1, <1>7, FreedRecord
  <2> QED BY <1>4, <2>1
<1> QED BY <1>5, <1>6, <1>7 DEF Writes

LEMMA TypeBody ==
  ASSUME TypeInv, NEW r \in Runner, BodyStep(r)
  PROVE  TypeInv'
<1>1. CASE ReadRecord(r)
  BY <1>1, TypeRead
<1>2. CASE Decide(r)
  BY <1>2, Decisions, WritesWellFormed, TypePersist, TypeSettle DEF Settles
<1>3. CASE RenameRecord(r)
  <2>1. WellFormed(next[r]) /\ next[r] \in Record
    BY DEF TypeInv, TypeOK, CallInv
  <2>2. rec' = [rec EXCEPT ![slot[r]] = next[r]]
    BY <1>3 DEF RenameRecord
  <2>3. ASSUME NEW s \in Slot PROVE WellFormed(rec'[s])
    BY <2>1, <2>2 DEF TypeInv, TypeOK
  <2>4. TypeOK'
    BY <1>3, <2>1, <2>3 DEF TypeInv, TypeOK, RenameRecord, Goto, End
  <2>5. CallInv'
    BY <1>3 DEF TypeInv, TypeOK, CallInv, RenameRecord, Goto, End, WellFormed
  <2> QED BY <2>4, <2>5 DEF TypeInv
<1>4. CASE RmdirLock(r)
  <2>1. TypeOK'
    BY <1>4, NoRecordWellFormed DEF TypeInv, TypeOK, RmdirLock, Goto, WellFormed
  <2>2. CallInv'
    BY <1>4, NoRecordWellFormed DEF TypeInv, TypeOK, CallInv, RmdirLock, Goto, WellFormed
  <2> QED BY <2>1, <2>2 DEF TypeInv
<1> QED BY <1>1, <1>2, <1>3, <1>4 DEF BodyStep

LEMMA NextTryTyped ==
  ASSUME NEW j \in Job, j.order # <<>>, NextTry(j) # NoJob
  PROVE  /\ NextTry(j) \in Job
         /\ NextTry(j).ttl = j.ttl
         /\ NextTry(j).order = j.order
<1>1. CASE j.todo # <<>>
  <2>1. Tail(j.todo) \in Seq(Slot)
    BY <1>1, NonEmptySeq DEF Job
  <2> QED BY <1>1, <2>1 DEF NextTry, Job
<1>2. CASE j.todo = <<>>
  <2>1. Tail(j.order) \in Seq(Slot)
    BY NonEmptySeq DEF Job
  <2> QED BY <1>2, <2>1 DEF NextTry, Job
<1> QED BY <1>1, <1>2

LEMMA TypeNextSlot ==
  ASSUME TypeInv, NEW r \in Runner, NextSlot(r)
  PROVE  TypeInv'
<1> DEFINE j == NextTry(job[r])
           s == IF job[r].todo # <<>> THEN Head(job[r].todo) ELSE Head(job[r].order)
<1>1. job[r] \in Job /\ job[r].order # <<>> /\ job[r].ttl <= MaxTtl
  BY DEF TypeInv, TypeOK, CallInv, NextSlot
<1>2. j \in Job /\ j.ttl <= MaxTtl /\ j.order # <<>>
  BY <1>1, NextTryTyped DEF NextSlot, GoesOn
<1>3. s \in Slot
  BY <1>1, NonEmptySeq DEF Job
<1>4. job' = [job EXCEPT ![r] = j] /\ slot' = [slot EXCEPT ![r] = s]
  BY DEF NextSlot
<1> HIDE DEF j, s
<1> QED BY <1>2, <1>3, <1>4
        DEF TypeInv, TypeOK, CallInv, NextSlot, Goto, End, fileVars, WellFormed

LEMMA TypeForget ==
  ASSUME TypeInv, NEW r \in Runner, Forget(r),
         rec' = rec, dirs' = dirs, allowed' = allowed, now' = now, slot' = slot,
         stale' \in SUBSET Slot,
         reported' \in SUBSET [slot : Slot, token : Nat, holder : Holder]
  PROVE  TypeInv'
<1>1. TypeOK'
  BY NoRecordWellFormed, NoJobTyped DEF TypeInv, TypeOK, Forget, Goto, End, WellFormed
<1>2. CallInv'
  BY NoRecordWellFormed, NoJobTyped
     DEF TypeInv, TypeOK, CallInv, Forget, Goto, End, WellFormed
<1> QED BY <1>1, <1>2 DEF TypeInv

LEMMA TypeStep == TypeInv /\ [Next]_vars => TypeInv'
<1> SUFFICES ASSUME TypeInv, [Next]_vars PROVE TypeInv'
  OBVIOUS
<1>1. ASSUME NEW r \in Runner, Start(r) PROVE TypeInv'
  BY <1>1, TypeStart
<1>2. ASSUME NEW r \in Runner, LockStep(r) PROVE TypeInv'
  BY <1>2, TypeLock
<1>3. ASSUME NEW r \in Runner, BodyStep(r) PROVE TypeInv'
  BY <1>3, TypeBody
<1>4. ASSUME NEW r \in Runner, CallStep(r) PROVE TypeInv'
  <2>1. CASE NextSlot(r)
    BY <2>1, TypeNextSlot
  <2>2. CASE Return(r)
    <3>1. next[r].token \in Nat /\ slot[r] \in Slot
      BY DEF TypeInv, TypeOK, Record
    <3>2. reported' \in SUBSET [slot : Slot, token : Nat, holder : Holder]
      BY <2>2, <3>1 DEF Return, TypeInv, TypeOK
    <3> QED BY <2>2, <3>2, TypeForget DEF Return, fileVars, TypeInv, TypeOK
  <2> QED BY <1>4, <2>1, <2>2 DEF CallStep
<1>5. ASSUME NEW r \in Runner, Fault(r) PROVE TypeInv'
  BY <1>5 DEF TypeInv, TypeOK, CallInv, Fault, Finally, Goto, End, fileVars, WellFormed
<1>6. ASSUME NEW r \in Runner, Die(r) PROVE TypeInv'
  <2>1. stale' \in SUBSET Slot
    BY <1>6 DEF Die, TypeInv, TypeOK
  <2> QED BY <1>6, <2>1, TypeForget DEF Die, TypeInv, TypeOK
<1>7. ASSUME NEW s \in Slot, OperatorRemoves(s) PROVE TypeInv'
  BY <1>7 DEF TypeInv, TypeOK, CallInv, OperatorRemoves, runVars, WellFormed
<1>8. ASSUME EditAllowList PROVE TypeInv'
  BY <1>8 DEF TypeInv, TypeOK, CallInv, EditAllowList, runVars, WellFormed
<1>9. ASSUME Tick PROVE TypeInv'
  BY <1>9 DEF TypeInv, TypeOK, CallInv, Tick, fileVars, runVars, WellFormed
<1>10. CASE UNCHANGED vars
  BY <1>10 DEF TypeInv, TypeOK, CallInv, vars, fileVars, runVars, WellFormed
<1> QED BY <1>1, <1>2, <1>3, <1>4, <1>5, <1>6, <1>7, <1>8, <1>9, <1>10 DEF Next

LEMMA TypeInvariant == Spec => []TypeInv
<1>1. Init => TypeInv
  BY NoRecordWellFormed, NoJobTyped DEF Init, TypeInv, TypeOK, CallInv, WellFormed
<1> QED BY <1>1, TypeStep, PTL DEF Spec

(* The files and the runners' locals keep their types; in particular every *)
(* record on disk satisfies isRecord, so no call ever meets lease_corrupt. *)
THEOREM LeaseTypeCorrect == Spec => []TypeOK
BY TypeInvariant, PTL DEF TypeInv

-----------------------------------------------------------------------------
(* The lock.  Every step of the lease is a step of the registry lock or     *)
(* leaves it alone; exclusion is then the lock's own theorem.               *)
LEMMA PhaseMoves ==
  ASSUME TypeInv, NEW r \in Runner, NEW l, Goto(r, l)
  PROVE  [q \in Runner |-> PhaseOf(pc'[q])]
           = [[q \in Runner |-> PhaseOf(pc[q])] EXCEPT ![r] = PhaseOf(l)]
BY DEF TypeInv, TypeOK, Goto

LEMMA PhaseStays ==
  ASSUME TypeInv, NEW r \in Runner, NEW l, Goto(r, l), PhaseOf(l) = PhaseOf(pc[r])
  PROVE  [q \in Runner |-> PhaseOf(pc'[q])] = [q \in Runner |-> PhaseOf(pc[q])]
BY DEF TypeInv, TypeOK, Goto

LEMMA LocksStep ==
  TypeInv /\ [Next]_vars => [TheLocks!Next]_(TheLocks!vars)
<1> SUFFICES ASSUME TypeInv, [Next]_vars PROVE [TheLocks!Next]_(TheLocks!vars)
  OBVIOUS
<1> USE DEF PhaseOf, TheLocks!MoveTo
<1>1. ASSUME NEW r \in Runner, NEW d \in Slot,
             PhaseOf(pc[r]) = "idle", Goto(r, "trying"),
             slot' = [slot EXCEPT ![r] = d], UNCHANGED <<dirs, stale>>
      PROVE  TheLocks!Next
  <2>1. TheLocks!Begin(r, d)
    BY <1>1, PhaseMoves DEF TheLocks!Begin
  <2> QED BY <2>1 DEF TheLocks!Next
<1>2. ASSUME NEW r \in Runner, Start(r) PROVE TheLocks!Next
  <2>1. PICK j \in Job : Call(r, j) /\ j.order # <<>>
    BY <1>2, StartCalls
  <2>2. Head(j.order) \in Slot
    BY <2>1, NonEmptySeq DEF Job
  <2> QED BY <1>1, <2>1, <2>2 DEF Call, fileVars
<1>3. ASSUME NEW r \in Runner, LockStep(r) PROVE TheLocks!Next
  <2>1. CASE MkdirMakes(r)
    <3>1. TheLocks!MkdirMakes(r)
      BY <2>1, PhaseMoves, SMTT(30) DEF MkdirMakes, EEXIST, TheLocks!MkdirMakes
    <3> QED BY <3>1 DEF TheLocks!Next
  <2>2. CASE MkdirFinds(r)
    <3>1. TheLocks!MkdirFinds(r)
      BY <2>2, PhaseMoves DEF MkdirFinds, EEXIST, fileVars, TheLocks!MkdirFinds
    <3> QED BY <3>1 DEF TheLocks!Next
  <2>3. CASE Wait(r)
    <3>1. TheLocks!Wait(r)
      BY <2>3, PhaseMoves DEF Wait, fileVars, TheLocks!Wait
    <3> QED BY <3>1 DEF TheLocks!Next
  <2>4. CASE GiveUp(r)
    <3>1. TheLocks!GiveUp(r)
      BY <2>4, PhaseMoves DEF GiveUp, fileVars, TheLocks!GiveUp
    <3> QED BY <3>1 DEF TheLocks!Next
  <2> QED BY <1>3, <2>1, <2>2, <2>3, <2>4 DEF LockStep
<1>4. ASSUME NEW r \in Runner, ReadRecord(r) \/ Decide(r) \/ RenameRecord(r) \/ Fault(r)
      PROVE  UNCHANGED TheLocks!vars
  <2>1. PICK l \in {"decide", "write", "unlock"} : Goto(r, l)
    BY <1>4, Decisions DEF ReadRecord, RenameRecord, Fault, Finally, Persist, Settle
  <2>2. pc[r] \in {"locked", "decide", "write"} /\ UNCHANGED <<dirs, stale, slot>>
    BY <1>4 DEF ReadRecord, Decide, RenameRecord, Fault, fileVars
  <2> QED BY <2>1, <2>2, PhaseStays DEF TheLocks!vars
<1>5. ASSUME NEW r \in Runner, RmdirLock(r) PROVE TheLocks!Next
  <2>1. TheLocks!Rmdir(r)
    BY <1>5, PhaseMoves DEF RmdirLock, TheLocks!Rmdir
  <2> QED BY <2>1 DEF TheLocks!Next
<1>6. ASSUME NEW r \in Runner, NextSlot(r) PROVE TheLocks!Next
  <2> DEFINE s == IF job[r].todo # <<>> THEN Head(job[r].todo) ELSE Head(job[r].order)
  <2>1. job[r] \in Job /\ job[r].order # <<>>
    BY <1>6 DEF TypeInv, TypeOK, CallInv, NextSlot
  <2>2. s \in Slot
    BY <2>1, NonEmptySeq DEF Job
  <2> QED BY <1>1, <1>6, <2>2 DEF NextSlot, fileVars
<1>7. ASSUME NEW r \in Runner, Return(r) PROVE UNCHANGED TheLocks!vars
  BY <1>7, PhaseStays DEF Return, Forget, fileVars, TheLocks!vars
<1>8. ASSUME NEW r \in Runner, Die(r) PROVE [TheLocks!Next]_(TheLocks!vars)
  <2>1. CASE pc[r] = "return"
    BY <1>8, <2>1, PhaseStays DEF Die, Forget, Inside, TheLocks!vars
  <2>2. CASE pc[r] # "return"
    <3>1. TheLocks!Die(r)
      BY <1>8, <2>2, PhaseMoves DEF Die, Forget, Inside, TheLocks!Die, TypeInv, TypeOK
    <3> QED BY <3>1 DEF TheLocks!Next
  <2> QED BY <2>1, <2>2
<1>9. ASSUME NEW s \in Slot, OperatorRemoves(s) PROVE TheLocks!Next
  <2>1. TheLocks!OperatorRemoves(s)
    BY <1>9 DEF OperatorRemoves, runVars, TheLocks!OperatorRemoves
  <2> QED BY <2>1 DEF TheLocks!Next
<1>10. ASSUME EditAllowList \/ Tick \/ UNCHANGED vars PROVE UNCHANGED TheLocks!vars
  BY <1>10 DEF EditAllowList, Tick, vars, fileVars, runVars, TheLocks!vars
<1> QED
  BY <1>2, <1>3, <1>4, <1>5, <1>6, <1>7, <1>8, <1>9, <1>10 DEF Next, BodyStep, CallStep

(* Refusals, faults, crashes and any-of's slot after slot included, the     *)
(* lease uses its lock directories exactly as the registry lock allows.     *)
THEOREM LeaseUsesRegistryLock == Spec => ImplementsRegistryLock
<1>1. Init => TheLocks!Init
  BY DEF Init, TheLocks!Init, PhaseOf
<1> QED BY <1>1, LocksStep, TypeInvariant, PTL
        DEF Spec, ImplementsRegistryLock, TheLocks!Spec

(* The theorems about the lock, for the lease's own lock directories. *)
Locks == INSTANCE RegistryLockProofs WITH
  Process <- Runner, LockDir <- Slot, target <- slot,
  phase <- [r \in Runner |-> PhaseOf(pc[r])]

LEMMA SameLock == TheLocks!Spec => Locks!Spec
<1>1. TheLocks!Init => Locks!Init
  BY DEF TheLocks!Init, Locks!Init
<1>2. [TheLocks!Next]_(TheLocks!vars) => [Locks!Next]_(Locks!vars)
  BY DEF TheLocks!Next, Locks!Next, TheLocks!vars, Locks!vars,
         TheLocks!Begin, Locks!Begin, TheLocks!MkdirMakes, Locks!MkdirMakes,
         TheLocks!MkdirFinds, Locks!MkdirFinds, TheLocks!Wait, Locks!Wait,
         TheLocks!GiveUp, Locks!GiveUp, TheLocks!Rmdir, Locks!Rmdir,
         TheLocks!Die, Locks!Die, TheLocks!OperatorRemoves, Locks!OperatorRemoves,
         TheLocks!MoveTo, Locks!MoveTo
<1> QED BY <1>1, <1>2, PTL DEF TheLocks!Spec, Locks!Spec

(* At most one runner is between the mkdir and the rmdir of a slot. *)
THEOREM LeaseWritersExclude == Spec => []OneWriterPerSlot
<1>1. Locks!Spec => []Locks!MutualExclusion
  BY Locks!LockExcludes
<1>2. Locks!MutualExclusion => OneWriterPerSlot
  BY DEF Locks!MutualExclusion, OneWriterPerSlot, TheLocks!MutualExclusion,
         Locks!Holds, TheLocks!Holds
<1> QED BY <1>1, <1>2, LeaseUsesRegistryLock, SameLock, PTL DEF ImplementsRegistryLock

-----------------------------------------------------------------------------
(* What a runner knows under the lock.  Its record is the one on disk, and  *)
(* the record it is about to write follows from it by one of the three      *)
(* atomic operations: a new grant, an extension, a release.                 *)
EndsBeforeExpiry(rc) == rc.ends <= rc.expires

GrantsAnew(r) ==
  /\ next[r].token = seen[r].token + 1
  /\ next[r].holder = HolderOf[r]
  /\ seen[r].holder = NoHolder \/ seen[r].ends <= now

ExtendsOwn(r) ==
  /\ next[r].token = seen[r].token
  /\ next[r].holder = HolderOf[r]
  /\ seen[r].holder = HolderOf[r]

FreesOwn(r) ==
  /\ next[r] = [token |-> seen[r].token, holder |-> NoHolder, expires |-> 0, ends |-> 0]
  /\ seen[r].holder = HolderOf[r]

WriteInv ==
  /\ \A s \in Slot : EndsBeforeExpiry(rec[s])
  /\ \A r \in Runner :
       /\ EndsBeforeExpiry(seen[r])
       /\ pc[r] \in {"decide", "write"} => seen[r] = rec[slot[r]]
       /\ pc[r] = "write" =>
            /\ GrantsAnew(r) \/ ExtendsOwn(r) \/ FreesOwn(r)
            /\ FreesOwn(r) <=> job[r].op = "release"
            /\ next[r].ends <= now + MaxTtl
            /\ EndsBeforeExpiry(next[r])

(* A runner untouched by a step, or leaving the body. *)
Untouched(q) ==
  /\ pc'[q] = pc[q] /\ slot'[q] = slot[q] /\ job'[q] = job[q]
  /\ seen'[q] = seen[q] /\ next'[q] = next[q]

Leaves(q) ==
  /\ pc'[q] \notin {"decide", "write"}
  /\ seen'[q] \in {seen[q], NoRecord}

LEMMA WriteQuiet ==
  ASSUME TypeInv, WriteInv, rec' = rec, now' \in {now, now + 1},
         \A q \in Runner : Untouched(q) \/ Leaves(q)
  PROVE  WriteInv'
<1>1. \A s \in Slot : EndsBeforeExpiry(rec[s])'
  BY DEF WriteInv, EndsBeforeExpiry
<1>2. ASSUME NEW q \in Runner, Untouched(q)
      PROVE  /\ EndsBeforeExpiry(seen[q])'
             /\ pc'[q] \in {"decide", "write"} => seen'[q] = rec'[slot'[q]]
             /\ pc'[q] = "write" =>
                  /\ (GrantsAnew(q) \/ ExtendsOwn(q) \/ FreesOwn(q))'
                  /\ (FreesOwn(q))' <=> job'[q].op = "release"
                  /\ next'[q].ends <= now' + MaxTtl
                  /\ EndsBeforeExpiry(next[q])'
  <2>1. seen[q].ends \in Nat /\ next[q].ends \in Nat /\ now \in Nat /\ MaxTtl \in Nat
    BY DEF TypeInv, TypeOK, Record
  <2> QED BY <1>2, <2>1 DEF WriteInv, Untouched, EndsBeforeExpiry,
                            GrantsAnew, ExtendsOwn, FreesOwn
<1>3. ASSUME NEW q \in Runner, Leaves(q)
      PROVE  EndsBeforeExpiry(seen[q])' /\ pc'[q] \notin {"decide", "write"}
  BY <1>3 DEF Leaves, WriteInv, EndsBeforeExpiry, NoRecord
<1> QED BY <1>1, <1>2, <1>3 DEF WriteInv

(* A takeover is decided only after the lease has really ended: the         *)
(* record's expiry is no earlier than its end, and the decider's clock is   *)
(* ahead by at most the skew that it allows for.                            *)
LEMMA ExpiredHasEnded ==
  ASSUME TypeInv, NEW r \in Runner, NEW rc \in Record, EndsBeforeExpiry(rc),
         Expired(rc, Clock(r))
  PROVE  rc.ends <= now
<1>1. rc.ends \in Nat /\ rc.expires \in Nat /\ now \in Nat
  BY DEF Record, TypeInv, TypeOK
<1>2. Drift[r] \in Nat /\ Skew \in Nat /\ Drift[r] <= Skew
  BY SkewCoversDrift
<1> QED BY <1>1, <1>2 DEF Expired, Clock, EndsBeforeExpiry

LEMMA WritePersist ==
  ASSUME TypeInv, WriteInv, NEW r \in Runner, NEW rc, Writes(r, rc),
         Persist(r, rc), pc[r] = "decide",
         UNCHANGED <<fileVars, now, job, slot, seen, reported>>
  PROVE  WriteInv'
<1>1. WellFormed(rc) /\ rc.ends <= now + MaxTtl /\ rc.ends <= rc.expires
  BY WritesWellFormed
<1>2. seen[r] \in Record /\ WellFormed(seen[r]) /\ seen[r].token \in Nat
  BY DEF TypeInv, TypeOK, CallInv, Record
<1>3. next'[r] = rc /\ pc'[r] = "write" /\ UNCHANGED <<seen, now, job, slot, rec>>
  BY DEF Persist, Goto, TypeInv, TypeOK, fileVars
<1>4. seen[r].holder = HolderOf[r] => seen[r].token \in Nat \ {0}
  BY <1>2 DEF WellFormed
<1>5. (GrantsAnew(r) \/ ExtendsOwn(r) \/ FreesOwn(r))'
      /\ ((FreesOwn(r))' <=> job'[r].op = "release")
  <2>1. CASE /\ job[r].op # "release"
             /\ seen[r].holder = NoHolder \/ Expired(seen[r], Clock(r))
             /\ rc = LeasedTo(r, seen[r].token + 1)
    <3>1. seen[r].token + 1 \in Nat \ {0}
      BY <1>2
    <3>2. rc.token = seen[r].token + 1 /\ rc.holder = HolderOf[r]
      BY <2>1, <3>1, LeasedToRecord
    <3>3. seen[r].holder = NoHolder \/ seen[r].ends <= now
      BY <2>1, <1>2, ExpiredHasEnded DEF WriteInv
    <3> QED BY <1>3, <2>1, <3>2, <3>3 DEF GrantsAnew, FreesOwn
  <2>2. CASE /\ job[r].op # "release"
             /\ seen[r].holder = HolderOf[r]
             /\ rc = LeasedTo(r, seen[r].token)
    <3>1. rc.token = seen[r].token /\ rc.holder = HolderOf[r]
      BY <1>4, <2>2, LeasedToRecord
    <3> QED BY <1>3, <2>2, <3>1 DEF ExtendsOwn, FreesOwn
  <2>3. CASE /\ job[r].op = "release"
             /\ seen[r].holder = HolderOf[r]
             /\ rc = Freed(seen[r])
    BY <1>3, <2>3, FreedRecord, <1>2 DEF FreesOwn
  <2> QED BY <2>1, <2>2, <2>3 DEF Writes
<1>6. ASSUME NEW q \in Runner, q # r
      PROVE Untouched(q)
  BY <1>6, <1>3 DEF Untouched, Persist, Goto, TypeInv, TypeOK
<1> QED
  BY <1>1, <1>3, <1>5, <1>6
     DEF WriteInv, Untouched, EndsBeforeExpiry, GrantsAnew, ExtendsOwn, FreesOwn

LEMMA SoleWriter ==
  ASSUME TypeInv, OneWriterPerSlot, NEW q \in Runner, NEW r \in Runner,
         Inside(q), Inside(r), slot[q] = slot[r]
  PROVE  q = r
<1>1. PhaseOf(pc[q]) = "inside" /\ PhaseOf(pc[r]) = "inside" /\ slot[r] \in Slot
  BY DEF PhaseOf, Inside, TypeInv, TypeOK
<1> QED BY <1>1 DEF OneWriterPerSlot, TheLocks!MutualExclusion, TheLocks!Holds

LEMMA WriteRename ==
  ASSUME TypeInv, WriteInv, OneWriterPerSlot, NEW r \in Runner, RenameRecord(r)
  PROVE  WriteInv'
<1>1. pc[r] = "write" /\ slot[r] \in Slot /\ EndsBeforeExpiry(next[r])
  BY DEF RenameRecord, TypeInv, TypeOK, WriteInv
<1>2. \A s \in Slot : EndsBeforeExpiry(rec[s])'
  BY <1>1 DEF WriteInv, RenameRecord, EndsBeforeExpiry, TypeInv, TypeOK
<1>3. ASSUME NEW q \in Runner, q # r
      PROVE  Untouched(q) /\ (pc[q] \in {"decide", "write"} => rec'[slot[q]] = rec[slot[q]])
  <2>1. Untouched(q)
    BY <1>3 DEF Untouched, RenameRecord, Goto, TypeInv, TypeOK
  <2>2. pc[q] \in {"decide", "write"} => slot[q] # slot[r]
    BY <1>1, <1>3, SoleWriter DEF Inside
  <2> QED BY <2>1, <2>2 DEF RenameRecord, TypeInv, TypeOK
<1>4. pc'[r] = "unlock" /\ seen'[r] = seen[r] /\ now' = now
  BY DEF RenameRecord, Goto, TypeInv, TypeOK
<1> QED
  BY <1>2, <1>3, <1>4
     DEF WriteInv, Untouched, EndsBeforeExpiry, GrantsAnew, ExtendsOwn, FreesOwn

LEMMA WriteRead ==
  ASSUME TypeInv, WriteInv, NEW r \in Runner, ReadRecord(r)
  PROVE  WriteInv'
<1> USE DEF ReadRecord, Goto, End, TypeInv, TypeOK, fileVars
<1>1. CASE slot[r] \in allowed
  <2>1. ASSUME NEW q \in Runner, q # r PROVE Untouched(q)
    BY <1>1, <2>1 DEF Untouched
  <2>2. pc'[r] = "decide" /\ seen'[r] = rec[slot[r]] /\ slot' = slot /\ rec' = rec
        /\ now' = now /\ slot[r] \in Slot
    BY <1>1
  <2> QED
    BY <2>1, <2>2
       DEF WriteInv, Untouched, EndsBeforeExpiry, GrantsAnew, ExtendsOwn, FreesOwn
<1>2. CASE slot[r] \notin allowed
  <2>1. \A q \in Runner : Untouched(q) \/ Leaves(q)
    BY <1>2 DEF Untouched, Leaves
  <2> QED BY <1>2, <2>1, WriteQuiet
<1> QED BY <1>1, <1>2

LEMMA WriteStep ==
  TypeInv /\ OneWriterPerSlot /\ WriteInv /\ [Next]_vars => WriteInv'
<1> SUFFICES ASSUME TypeInv, OneWriterPerSlot, WriteInv, [Next]_vars PROVE WriteInv'
  OBVIOUS
<1>1. ASSUME NEW r \in Runner, Start(r) PROVE WriteInv'
  <2>1. PICK j \in Job : Call(r, j)
    BY <1>1, StartCalls
  <2>2. \A q \in Runner : Untouched(q) \/ Leaves(q)
    BY <2>1 DEF Call, Goto, Untouched, Leaves, TypeInv, TypeOK
  <2> QED BY <2>1, <2>2, WriteQuiet DEF Call, fileVars
<1>2. ASSUME NEW r \in Runner, LockStep(r) \/ RmdirLock(r) \/ Fault(r) PROVE WriteInv'
  <2>1. \A q \in Runner : Untouched(q) \/ Leaves(q)
    BY <1>2 DEF LockStep, MkdirMakes, MkdirFinds, Wait, GiveUp, RmdirLock, Fault, Finally,
                Goto, End, Untouched, Leaves, TypeInv, TypeOK
  <2> QED BY <1>2, <2>1, WriteQuiet
          DEF LockStep, MkdirMakes, MkdirFinds, Wait, GiveUp, RmdirLock, Fault, fileVars
<1>3. ASSUME NEW r \in Runner, Decide(r) PROVE WriteInv'
  <2>1. CASE \E rc : Writes(r, rc) /\ Persist(r, rc)
    BY <1>3, <2>1, Decisions, WritePersist
  <2>2. CASE \E out : Settle(r, out)
    <3>1. \A q \in Runner : Untouched(q) \/ Leaves(q)
      BY <1>3, <2>2, Decisions DEF Settle, Goto, Untouched, Leaves, TypeInv, TypeOK
    <3> QED BY <1>3, <3>1, Decisions, WriteQuiet DEF fileVars
  <2> QED BY <1>3, <2>1, <2>2, Decisions
<1>4. ASSUME NEW r \in Runner, NextSlot(r) PROVE WriteInv'
  <2>1. \A q \in Runner : Untouched(q) \/ Leaves(q)
    BY <1>4 DEF NextSlot, Goto, End, Untouched, Leaves, TypeInv, TypeOK
  <2> QED BY <1>4, <2>1, WriteQuiet DEF NextSlot, fileVars
<1>5. ASSUME NEW r \in Runner, Return(r) \/ Die(r) PROVE WriteInv'
  <2>1. \A q \in Runner : Untouched(q) \/ Leaves(q)
    BY <1>5 DEF Return, Die, Forget, Goto, End, Untouched, Leaves, TypeInv, TypeOK
  <2> QED BY <1>5, <2>1, WriteQuiet DEF Return, Die, fileVars
<1>6. ASSUME (\E s \in Slot : OperatorRemoves(s)) \/ EditAllowList \/ Tick
             \/ UNCHANGED vars
      PROVE  WriteInv'
  <2>1. UNCHANGED runVars /\ rec' = rec /\ now' \in {now, now + 1}
    BY <1>6 DEF OperatorRemoves, EditAllowList, Tick, vars, fileVars
  <2>2. \A q \in Runner : Untouched(q) \/ Leaves(q)
    BY <2>1 DEF runVars, Untouched
  <2> QED BY <2>1, <2>2, WriteQuiet
<1> QED
  BY <1>1, <1>2, <1>3, <1>4, <1>5, <1>6, WriteRead, WriteRename
     DEF Next, BodyStep, CallStep

LEMMA WriteInvariant == Spec => []WriteInv
<1>1. Init => WriteInv
  BY DEF Init, WriteInv, EndsBeforeExpiry, NoRecord
<1> QED BY <1>1, WriteStep, TypeInvariant, LeaseWritersExclude, PTL DEF Spec

(* A runner decides on, and replaces, the record that is on disk. *)
THEOREM LeaseDecidesOnCurrentRecord == Spec => []DecidesOnCurrentRecord
<1>1. WriteInv => DecidesOnCurrentRecord
  BY DEF WriteInv, DecidesOnCurrentRecord
<1> QED BY <1>1, WriteInvariant, PTL

-----------------------------------------------------------------------------
(* The records change in one action only, the rename.                       *)
LEMMA OnlyRenameWrites ==
  ASSUME [Next]_vars
  PROVE  \/ \E r \in Runner : RenameRecord(r)
         \/ rec' = rec /\ now' = now
         \/ rec' = rec /\ now' = now + 1
<1>1. ASSUME NEW r \in Runner, Start(r) PROVE rec' = rec /\ now' = now
  BY <1>1 DEF Start, StartAcquire, StartAcquireAny, StartRenew, StartRelease,
              Call, fileVars
<1>2. ASSUME NEW r \in Runner, LockStep(r) \/ CallStep(r) \/ Fault(r) \/ Die(r)
      PROVE  rec' = rec /\ now' = now
  BY <1>2 DEF LockStep, MkdirMakes, MkdirFinds, Wait, GiveUp, CallStep, NextSlot,
              Return, Fault, Die, fileVars
<1>3. ASSUME NEW r \in Runner, ReadRecord(r) \/ Decide(r) \/ RmdirLock(r)
      PROVE  rec' = rec /\ now' = now
  BY <1>3 DEF ReadRecord, Decide, RmdirLock, fileVars
<1>4. ASSUME (\E s \in Slot : OperatorRemoves(s)) \/ EditAllowList \/ UNCHANGED vars
      PROVE  rec' = rec /\ now' = now
  BY <1>4 DEF OperatorRemoves, EditAllowList, vars, fileVars
<1> QED BY <1>1, <1>2, <1>3, <1>4 DEF Next, BodyStep, Tick, fileVars

(* The rename puts one of the three records over the one it was decided on. *)
LEMMA RenameIsOneOfThree ==
  ASSUME TypeInv, WriteInv, NEW r \in Runner, RenameRecord(r)
  PROVE  /\ slot[r] \in Slot /\ next[r] \in Record /\ WellFormed(next[r])
         /\ seen[r] = rec[slot[r]]
         /\ rec' = [rec EXCEPT ![slot[r]] = next[r]] /\ now' = now
         /\ GrantsAnew(r) \/ ExtendsOwn(r) \/ FreesOwn(r)
         /\ next[r].ends \in 0 .. now + MaxTtl
<1>1. next[r] \in Record /\ slot[r] \in Slot /\ now \in Nat /\ WellFormed(next[r])
  BY DEF TypeInv, TypeOK, CallInv
<1>2. pc[r] = "write" /\ next[r].ends \in Nat /\ MaxTtl \in Nat
  BY <1>1 DEF RenameRecord, Record
<1>3. /\ seen[r] = rec[slot[r]]
      /\ GrantsAnew(r) \/ ExtendsOwn(r) \/ FreesOwn(r)
      /\ next[r].ends <= now + MaxTtl
  BY <1>2 DEF WriteInv
<1> QED BY <1>1, <1>2, <1>3 DEF RenameRecord

LEMMA RenameRefines ==
  ASSUME TypeInv, WriteInv, NEW r \in Runner, RenameRecord(r)
  PROVE  TheLease!Next
<1>0. PICK s \in Slot : s = slot[r]
  BY DEF TypeInv, TypeOK
<1> DEFINE old == [t \in Slot |-> [token |-> rec[t].token, holder |-> rec[t].holder,
                                   ends |-> rec[t].ends]]
           new == [t \in Slot |-> [token |-> rec'[t].token, holder |-> rec'[t].holder,
                                   ends |-> rec'[t].ends]]
<1>1. /\ next[r] \in Record /\ seen[r] = rec[s]
      /\ rec' = [rec EXCEPT ![s] = next[r]] /\ now' = now
      /\ GrantsAnew(r) \/ ExtendsOwn(r) \/ FreesOwn(r)
      /\ next[r].ends \in 0 .. now + MaxTtl
  BY <1>0, RenameIsOneOfThree
<1>2. new = [old EXCEPT ![s] =
                      [token |-> next[r].token, holder |-> next[r].holder,
                       ends |-> next[r].ends]]
  BY <1>1 DEF TypeInv, TypeOK
<1>3. old[s] = [token |-> seen[r].token, holder |-> seen[r].holder,
                      ends |-> seen[r].ends]
  BY <1>1
<1>4. HolderOf[r] \in Holder /\ HolderOf[r] # NoHolder
  OBVIOUS
<1> HIDE DEF old, new
<1>5. CASE GrantsAnew(r)
  <2>1. /\ old[s].holder = NoHolder \/ old[s].ends <= now
        /\ new = [old EXCEPT ![s] =
             [token |-> old[s].token + 1, holder |-> HolderOf[r],
              ends |-> next[r].ends]]
    BY <1>2, <1>3, <1>5 DEF GrantsAnew
  <2>2. TheLease!Grant(s, HolderOf[r])
    BY <1>1, <2>1 DEF old, new, TheLease!Grant, TheLease!Set
  <2> QED BY <1>4, <2>2 DEF TheLease!Next
<1>6. CASE ExtendsOwn(r)
  <2>1. /\ old[s].holder # NoHolder
        /\ new = [old EXCEPT ![s] =
             [token |-> old[s].token, holder |-> old[s].holder,
              ends |-> next[r].ends]]
    BY <1>2, <1>3, <1>4, <1>6 DEF ExtendsOwn
  <2>2. TheLease!Extend(s)
    BY <1>1, <2>1 DEF old, new, TheLease!Extend, TheLease!Set
  <2> QED BY <2>2 DEF TheLease!Next
<1>7. CASE FreesOwn(r)
  <2>1. /\ old[s].holder # NoHolder
        /\ new = [old EXCEPT ![s] =
             [token |-> old[s].token, holder |-> NoHolder, ends |-> 0]]
    BY <1>2, <1>3, <1>4, <1>7 DEF FreesOwn
  <2>2. TheLease!Release(s)
    BY <1>1, <2>1 DEF old, new, TheLease!Release, TheLease!Set
  <2> QED BY <2>2 DEF TheLease!Next
<1> QED BY <1>1, <1>5, <1>6, <1>7

(* Records in files, lock directories, drifting clocks and crashing runners *)
(* together behave as one atomic fenced lease per slot.                     *)
THEOREM LeaseImplementsFencedLease == Spec => ImplementsFencedLease
<1>1. Init => TheLease!Init
  BY DEF Init, NoRecord, TheLease!Init
<1>2. TypeInv /\ WriteInv /\ [Next]_vars => [TheLease!Next]_(TheLease!vars)
  <2> SUFFICES ASSUME TypeInv, WriteInv, [Next]_vars
               PROVE  [TheLease!Next]_(TheLease!vars)
    OBVIOUS
  <2>1. ASSUME NEW r \in Runner, RenameRecord(r) PROVE TheLease!Next
    BY <2>1, RenameRefines
  <2>2. CASE rec' = rec /\ now' = now
    BY <2>2 DEF TheLease!vars
  <2>3. CASE rec' = rec /\ now' = now + 1
    BY <2>3 DEF TheLease!Next, TheLease!Tick
  <2> QED BY <2>1, <2>2, <2>3, OnlyRenameWrites
<1> QED BY <1>1, <1>2, TypeInvariant, WriteInvariant, PTL
        DEF Spec, ImplementsFencedLease, TheLease!Spec

(* A lease that was neither released nor has run out in real time keeps its *)
(* token: the skew allowance delays every takeover past its end.            *)
THEOREM LeaseNoEarlyTakeover == Spec => NoEarlyTakeover
<1>1. TypeInv /\ WriteInv /\ [Next]_vars =>
        [\A s \in Slot : rec'[s].token # rec[s].token /\ rec[s].holder # NoHolder
                           => rec[s].ends <= now]_vars
  <2> SUFFICES ASSUME TypeInv, WriteInv, [Next]_vars, NEW s \in Slot,
                      rec'[s].token # rec[s].token, rec[s].holder # NoHolder
               PROVE  rec[s].ends <= now
    OBVIOUS
  <2>1. PICK r \in Runner : RenameRecord(r)
    BY OnlyRenameWrites
  <2>2. /\ slot[r] \in Slot /\ seen[r] = rec[slot[r]]
        /\ rec' = [rec EXCEPT ![slot[r]] = next[r]]
        /\ GrantsAnew(r) \/ ExtendsOwn(r) \/ FreesOwn(r)
    BY <2>1, RenameIsOneOfThree
  <2>3. s = slot[r] /\ rec'[s] = next[r]
    BY <2>2 DEF TypeInv, TypeOK
  <2> QED BY <2>2, <2>3 DEF GrantsAnew, ExtendsOwn, FreesOwn
<1> QED BY <1>1, TypeInvariant, WriteInvariant, PTL DEF Spec, NoEarlyTakeover

-----------------------------------------------------------------------------
(* Fencing.  A grant is decided before it is reported, so the invariant     *)
(* speaks of the grants reported and of those on their way to the caller.   *)
GrantOf(r) == [slot |-> slot[r], token |-> next[r].token, holder |-> HolderOf[r]]
Granting(r) == outcome[r] = "granted"
Grants == reported \cup {GrantOf(r) : r \in {q \in Runner : Granting(q)}}

SameGrant(g, h) == g.slot = h.slot /\ g.token = h.token

(* A grant never has a token the slot has not reached, and the one that has *)
(* the slot's token is its holder's, or was before its release.             *)
Fits(g, rc) ==
  /\ g.token <= rc.token
  /\ g.token = rc.token => rc.holder \in {g.holder, NoHolder}

FenceInv ==
  /\ \A r \in Runner : Granting(r) => pc[r] \in {"unlock", "return"}
  /\ \A g \in Grants : Fits(g, rec[g.slot])
  /\ \A g \in Grants, h \in Grants : SameGrant(g, h) => g.holder = h.holder

LEMMA GrantsTyped ==
  ASSUME TypeInv
  PROVE  \A g \in Grants : g.slot \in Slot /\ g.token \in Nat /\ g.holder \in Holder
<1>1. \A r \in Runner : slot[r] \in Slot /\ next[r].token \in Nat /\ HolderOf[r] \in Holder
  BY DEF TypeInv, TypeOK, Record
<1>2. \A g \in reported : g.slot \in Slot /\ g.token \in Nat /\ g.holder \in Holder
  BY DEF TypeInv, TypeOK
<1> QED BY <1>1, <1>2 DEF Grants, GrantOf

(* A step that leaves the records alone and reports nothing new. *)
LEMMA FenceQuiet ==
  ASSUME FenceInv, rec' = rec, Grants' \subseteq Grants,
         \A r \in Runner : (Granting(r))' => pc'[r] \in {"unlock", "return"}
  PROVE  FenceInv'
BY DEF FenceInv

(* A step that adds one grant at most and leaves records that all fit.      *)
LEMMA FenceGrant ==
  ASSUME FenceInv, NEW g,
         Grants' \subseteq Grants \cup {g},
         \A h \in Grants \cup {g} : Fits(h, rec'[h.slot]),
         \A h \in Grants : SameGrant(h, g) => h.holder = g.holder,
         \A q \in Runner : (Granting(q))' => pc'[q] \in {"unlock", "return"}
  PROVE  FenceInv'
BY DEF FenceInv, SameGrant

(* While r holds the slot, whoever had the slot's token before is r's holder. *)
LEMMA HolderHasTheToken ==
  ASSUME TypeInv, FenceInv, NEW r \in Runner, NEW g,
         g = [slot |-> slot[r], token |-> rec[slot[r]].token, holder |-> HolderOf[r]],
         rec[slot[r]].holder = HolderOf[r]
  PROVE  /\ Fits(g, rec[slot[r]])
         /\ \A h \in Grants : SameGrant(h, g) => h.holder = g.holder
<1>1. slot[r] \in Slot /\ rec[slot[r]].token \in Nat /\ HolderOf[r] # NoHolder
  BY DEF TypeInv, TypeOK, Record
<1> QED BY <1>1 DEF FenceInv, Fits, SameGrant

LEMMA FenceSettle ==
  ASSUME TypeInv, WriteInv, FenceInv, NEW r \in Runner, NEW out,
         Settles(r, out), Settle(r, out), pc[r] = "decide",
         UNCHANGED <<fileVars, now, job, slot, seen, reported>>
  PROVE  FenceInv'
<1> DEFINE g == [slot |-> slot[r], token |-> rec[slot[r]].token, holder |-> HolderOf[r]]
<1>1. /\ outcome' = [outcome EXCEPT ![r] = out]
      /\ next' = [next EXCEPT ![r] = IF out = "granted" THEN seen[r] ELSE NoRecord]
      /\ pc' = [pc EXCEPT ![r] = "unlock"]
      /\ rec' = rec /\ slot' = slot /\ reported' = reported
  BY DEF Settle, Goto, End, fileVars
<1>2. \A q \in Runner : (Granting(q))' => pc'[q] \in {"unlock", "return"}
  BY <1>1 DEF FenceInv, Granting, TypeInv, TypeOK
<1>3. \A q \in Runner : q # r => (Granting(q))' = Granting(q) /\ (GrantOf(q))' = GrantOf(q)
  BY <1>1 DEF Granting, GrantOf, TypeInv, TypeOK
<1>4. CASE out = "granted"
  <2>1. seen[r] = rec[slot[r]] /\ seen[r].holder = HolderOf[r]
    BY <1>4 DEF WriteInv, Settles
  <2>2. (GrantOf(r))' = g
    BY <1>1, <1>4, <2>1 DEF GrantOf, TypeInv, TypeOK
  <2>3. Grants' \subseteq Grants \cup {g}
    BY <1>1, <1>3, <2>2 DEF Grants
  <2>4. /\ Fits(g, rec[slot[r]])
        /\ \A h \in Grants : SameGrant(h, g) => h.holder = g.holder
    BY <2>1, HolderHasTheToken
  <2>5. \A h \in Grants \cup {g} : Fits(h, rec'[h.slot])
    BY <1>1, <2>4 DEF FenceInv
  <2> HIDE DEF g
  <2> QED BY <1>2, <2>3, <2>4, <2>5, FenceGrant
<1>5. CASE out # "granted"
  <2>1. ~(Granting(r))'
    BY <1>1, <1>5 DEF Granting, TypeInv, TypeOK
  <2>2. Grants' \subseteq Grants
    BY <1>1, <1>3, <2>1 DEF Grants
  <2> QED BY <1>1, <1>2, <2>2, FenceQuiet
<1> QED BY <1>4, <1>5

LEMMA FenceRename ==
  ASSUME TypeInv, WriteInv, FenceInv, NEW r \in Runner, RenameRecord(r)
  PROVE  FenceInv'
<1> DEFINE g == GrantOf(r)
<1>1. /\ slot[r] \in Slot /\ next[r] \in Record /\ seen[r] = rec[slot[r]]
      /\ rec' = [rec EXCEPT ![slot[r]] = next[r]]
      /\ GrantsAnew(r) \/ ExtendsOwn(r) \/ FreesOwn(r)
      /\ FreesOwn(r) <=> job[r].op = "release"
  BY RenameIsOneOfThree DEF WriteInv, RenameRecord
<1>2. /\ pc[r] = "write" /\ pc' = [pc EXCEPT ![r] = "unlock"]
      /\ outcome' = [outcome EXCEPT ![r] =
                       IF job[r].op = "release" THEN "done" ELSE "granted"]
      /\ slot' = slot /\ next' = next /\ reported' = reported
  BY DEF RenameRecord, Goto, End
<1>3. \A q \in Runner : (Granting(q))' => pc'[q] \in {"unlock", "return"}
  BY <1>2 DEF FenceInv, Granting, TypeInv, TypeOK
<1>4. \A q \in Runner : (GrantOf(q))' = GrantOf(q)
  BY <1>2 DEF GrantOf
<1>5. \A q \in Runner : q # r => (Granting(q))' = Granting(q)
  BY <1>2 DEF Granting, TypeInv, TypeOK
<1>6. \A s \in Slot : rec'[s] = IF s = slot[r] THEN next[r] ELSE rec[s]
  BY <1>1 DEF TypeInv, TypeOK
<1>7. /\ rec[slot[r]].token \in Nat /\ HolderOf[r] \in Holder /\ HolderOf[r] # NoHolder
      /\ next[r].token \in Nat
  BY <1>1 DEF TypeInv, TypeOK, Record
<1>8. \A h \in Grants : Fits(h, rec[h.slot])
  BY DEF FenceInv
<1>9. CASE FreesOwn(r)
  <2>1. ~(Granting(r))'
    BY <1>1, <1>2, <1>9 DEF Granting, TypeInv, TypeOK
  <2>2. Grants' \subseteq Grants
    BY <1>2, <1>4, <1>5, <2>1 DEF Grants
  <2>3. \A h \in Grants : Fits(h, rec'[h.slot])
    BY <1>1, <1>6, <1>8, <1>9, GrantsTyped DEF Fits, FreesOwn
  <2> QED BY <1>3, <2>2, <2>3 DEF FenceInv
<1>10. CASE ~FreesOwn(r)
  <2>1. Grants' \subseteq Grants \cup {g}
    BY <1>2, <1>4, <1>5 DEF Grants
  <2>2. g.slot = slot[r] /\ g.token = next[r].token /\ g.holder = HolderOf[r]
        /\ next[r].holder = HolderOf[r]
    BY <1>1, <1>10 DEF GrantOf, GrantsAnew, ExtendsOwn
  <2>3. Fits(g, rec'[g.slot])
    BY <1>1, <1>6, <1>7, <2>2 DEF Fits
  <2>4. CASE GrantsAnew(r)
    <3>1. \A h \in Grants : Fits(h, rec'[h.slot])
      BY <1>1, <1>6, <1>7, <1>8, <2>4, GrantsTyped DEF Fits, GrantsAnew
    <3>2. \A h \in Grants : ~SameGrant(h, g)
      BY <1>1, <1>7, <1>8, <2>2, <2>4, GrantsTyped DEF Fits, GrantsAnew, SameGrant
    <3> HIDE DEF g
    <3> QED BY <1>3, <2>1, <2>3, <3>1, <3>2, FenceGrant
  <2>5. CASE ExtendsOwn(r)
    <3>1. \A h \in Grants : Fits(h, rec'[h.slot])
      BY <1>1, <1>6, <1>7, <1>8, <2>5, GrantsTyped DEF Fits, ExtendsOwn
    <3>2. \A h \in Grants : SameGrant(h, g) => h.holder = g.holder
      BY <1>1, <1>7, <1>8, <2>2, <2>5, GrantsTyped DEF Fits, ExtendsOwn, SameGrant
    <3> HIDE DEF g
    <3> QED BY <1>3, <2>1, <2>3, <3>1, <3>2, FenceGrant
  <2> QED BY <1>1, <1>10, <2>4, <2>5
<1> QED BY <1>9, <1>10

(* A runner whose grant is as it was, or that has none any more. *)
SameOrGone(q) ==
  \/ ~(Granting(q))'
  \/ (Granting(q))' /\ Granting(q) /\ (GrantOf(q))' = GrantOf(q) /\ pc'[q] \in {"unlock", "return"}

LEMMA FenceRest ==
  ASSUME FenceInv, rec' = rec, reported' \subseteq Grants,
         \A q \in Runner : SameOrGone(q)
  PROVE  FenceInv'
<1>1. Grants' \subseteq Grants
  BY DEF Grants, SameOrGone
<1>2. \A r \in Runner : (Granting(r))' => pc'[r] \in {"unlock", "return"}
  BY DEF SameOrGone
<1> QED BY <1>1, <1>2, FenceQuiet

LEMMA FenceStep ==
  TypeInv /\ WriteInv /\ FenceInv /\ [Next]_vars => FenceInv'
<1> SUFFICES ASSUME TypeInv, WriteInv, FenceInv, [Next]_vars PROVE FenceInv'
  OBVIOUS
<1>0. \A q \in Runner : Granting(q) => pc[q] \in {"unlock", "return"}
  BY DEF FenceInv
<1>1. ASSUME NEW r \in Runner, Start(r) PROVE FenceInv'
  <2>1. PICK j \in Job : Call(r, j)
    BY <1>1, StartCalls
  <2>2. \A q \in Runner : SameOrGone(q)
    BY <1>0, <2>1 DEF Call, Goto, SameOrGone, Granting, GrantOf, TypeInv, TypeOK
  <2>3. rec' = rec /\ reported' = reported
    BY <2>1 DEF Call, fileVars
  <2> QED BY <2>2, <2>3, FenceRest DEF Grants
<1>2. ASSUME NEW r \in Runner,
             LockStep(r) \/ ReadRecord(r) \/ RmdirLock(r) \/ Fault(r)
      PROVE  FenceInv'
  <2>1. \A q \in Runner : SameOrGone(q)
    BY <1>0, <1>2 DEF LockStep, MkdirMakes, MkdirFinds, Wait, GiveUp, ReadRecord, RmdirLock,
                Fault, Finally, Goto, End, SameOrGone, Granting, GrantOf, TypeInv, TypeOK
  <2>2. rec' = rec /\ reported' = reported
    BY <1>2 DEF LockStep, MkdirMakes, MkdirFinds, Wait, GiveUp, ReadRecord, RmdirLock,
                Fault, fileVars
  <2> QED BY <2>1, <2>2, FenceRest DEF Grants
<1>3. ASSUME NEW r \in Runner, Decide(r) PROVE FenceInv'
  <2>1. pc[r] = "decide" /\ UNCHANGED <<fileVars, now, job, slot, seen, reported>>
    BY <1>3, Decisions
  <2>2. CASE \E rc : Persist(r, rc)
    <3>1. \A q \in Runner : SameOrGone(q)
      BY <1>0, <2>1, <2>2 DEF Persist, Goto, SameOrGone, Granting, GrantOf, TypeInv, TypeOK
    <3> QED BY <2>1, <3>1, FenceRest DEF Grants, fileVars
  <2>3. CASE \E out : Settles(r, out) /\ Settle(r, out)
    BY <2>1, <2>3, FenceSettle
  <2> QED BY <1>3, <2>2, <2>3, Decisions
<1>4. ASSUME NEW r \in Runner, NextSlot(r) PROVE FenceInv'
  <2>1. \A q \in Runner : SameOrGone(q)
    BY <1>0, <1>4 DEF NextSlot, Goto, End, SameOrGone, Granting, GrantOf, TypeInv, TypeOK
  <2> QED BY <1>4, <2>1, FenceRest DEF NextSlot, Grants, fileVars
<1>5. ASSUME NEW r \in Runner, Return(r) \/ Die(r) PROVE FenceInv'
  <2>1. \A q \in Runner : SameOrGone(q)
    BY <1>0, <1>5
       DEF Return, Die, Forget, Goto, End, SameOrGone, Granting, GrantOf, TypeInv, TypeOK
  <2>2. rec' = rec
    BY <1>5 DEF Return, Die, fileVars
  <2>3. reported' \subseteq Grants
    BY <1>5 DEF Return, Die, Grants, Granting, GrantOf
  <2> QED BY <2>1, <2>2, <2>3, FenceRest
<1>6. ASSUME (\E s \in Slot : OperatorRemoves(s)) \/ EditAllowList \/ Tick
             \/ UNCHANGED vars
      PROVE  FenceInv'
  <2>1. UNCHANGED runVars /\ rec' = rec /\ reported' = reported
    BY <1>6 DEF OperatorRemoves, EditAllowList, Tick, vars, fileVars
  <2>2. \A q \in Runner : SameOrGone(q)
    BY <1>0, <2>1 DEF runVars, SameOrGone, Granting, GrantOf
  <2> QED BY <2>1, <2>2, FenceRest DEF Grants
<1> QED
  BY <1>1, <1>2, <1>3, <1>4, <1>5, <1>6, FenceRename DEF Next, BodyStep, CallStep

(* The fencing contract, for any number of runners, crashes and grants: the *)
(* token that passes the fence is one holder's only.                        *)
THEOREM LeaseFenceSeparatesHolders == Spec => []FenceSeparatesHolders
<1>1. Init => FenceInv
  BY DEF Init, FenceInv, Grants, Granting
<1>2. TypeInv /\ FenceInv => FenceSeparatesHolders
  <2> SUFFICES ASSUME TypeInv, FenceInv, NEW g \in reported
               PROVE  /\ fenceAction(g.slot, g.token) # "unknown_token"
                      /\ fenceAction(g.slot, g.token) = "current" =>
                           /\ rec[g.slot].holder \in {g.holder, NoHolder}
                           /\ \A other \in reported :
                                other.slot = g.slot /\ other.token = g.token
                                  => other.holder = g.holder
    BY DEF FenceSeparatesHolders
  <2>1. g \in Grants /\ \A other \in reported : other \in Grants
    BY DEF Grants
  <2>2. g.token \in Nat /\ rec[g.slot].token \in Nat
    BY <2>1, GrantsTyped DEF TypeInv, TypeOK, Record
  <2>3. Fits(g, rec[g.slot])
    BY <2>1 DEF FenceInv
  <2>4. fenceAction(g.slot, g.token) # "unknown_token"
    BY <2>2, <2>3 DEF fenceAction, Fits
  <2>5. fenceAction(g.slot, g.token) = "current" => g.token = rec[g.slot].token
    BY DEF fenceAction
  <2> QED BY <2>1, <2>3, <2>4, <2>5 DEF FenceInv, Fits, SameGrant
<1> QED BY <1>1, <1>2, FenceStep, TypeInvariant, WriteInvariant, PTL DEF Spec

-----------------------------------------------------------------------------
(* One slot per holder.  The holder's runner makes one call at a time and   *)
(* no acquire of a given slot, and the lists of slots that it passes differ *)
(* in their order alone.                                                    *)
Listed(q) == { q[i] : i \in 1 .. Len(q) }
SameSlots(S) == \A order \in Orders : Listed(order) = S
AnyOfAlone(r) ==
  /\ Ops[r] \subseteq {"acquireAny", "renew", "release"}
  /\ \A q \in Runner : HolderOf[q] = HolderOf[r] => q = r

(* A pass has seen no live lease of the holder on the slots behind it, and  *)
(* none comes up there, since nobody else writes leases for this holder; so *)
(* the grant that the second pass makes is the only one.                    *)
Searching(r) == pc[r] \in {"trying", "busy", "locked", "decide"}
PassedOver(r) == pc[r] \in {"unlock", "return"} /\ outcome[r] = "held"

SearchInv(r, S) ==
  /\ job[r].order # <<>> /\ Listed(job[r].order) = S
  /\ job[r].pass = "own" =>
       /\ Searching(r) => LiveSlots(r) \subseteq {slot[r]} \cup Listed(job[r].todo)
       /\ PassedOver(r) => LiveSlots(r) \subseteq Listed(job[r].todo)
       /\ pc[r] # "write"
  /\ job[r].pass = "grant" =>
       (Searching(r) \/ PassedOver(r) \/ pc[r] = "write" => LiveSlots(r) = {})
  /\ slot[r] \in S /\ Listed(job[r].todo) \subseteq S

HolderInv(r, S) ==
  /\ AtMostOne(LiveSlots(r)) /\ LiveSlots(r) \subseteq S
  /\ pc[r] # "idle" =>
       /\ job[r].op \in {"acquireAny", "renew", "release"}
       /\ job[r].op = "acquireAny" => SearchInv(r, S)
       /\ job[r].op = "renew" /\ pc[r] = "write" =>
            slot[r] \in S /\ LiveSlots(r) \subseteq {slot[r]}

LEMMA ListedHeadTail ==
  ASSUME NEW q \in Seq(Slot), q # <<>>
  PROVE  Listed(q) = {Head(q)} \cup Listed(Tail(q))
<1>1. /\ Len(q) \in Nat /\ Len(q) >= 1 /\ Head(q) = q[1]
      /\ Len(Tail(q)) = Len(q) - 1
      /\ \A i \in 1 .. Len(q) - 1 : Tail(q)[i] = q[i + 1]
  OBVIOUS
<1>2. \A i \in 2 .. Len(q) : i - 1 \in 1 .. Len(q) - 1 /\ q[i] = Tail(q)[i - 1]
  BY <1>1
<1>3. Listed(q) \subseteq {Head(q)} \cup Listed(Tail(q))
  <2>. SUFFICES ASSUME NEW i \in 1 .. Len(q)
                PROVE  q[i] \in {Head(q)} \cup Listed(Tail(q))
    BY DEF Listed
  <2>1. CASE i = 1
    BY <1>1, <2>1
  <2>2. CASE i # 1
    <3>1. i \in 2 .. Len(q)
      BY <1>1, <2>2
    <3>. QED BY <1>1, <1>2, <3>1 DEF Listed
  <2>. QED BY <2>1, <2>2
<1>4. Head(q) \in Listed(q) /\ Listed(Tail(q)) \subseteq Listed(q)
  <2>1. 1 \in 1 .. Len(q) /\ \A i \in 1 .. Len(q) - 1 : i + 1 \in 1 .. Len(q)
    BY <1>1
  <2>. QED BY <1>1, <2>1 DEF Listed
<1>. QED BY <1>3, <1>4

(* Nobody else's write, and no passing of time, makes a lease of the        *)
(* holder's live.                                                           *)
LEMMA LiveShrinks ==
  ASSUME TypeInv, WriteInv, NEW r \in Runner, AnyOfAlone(r), [Next]_vars,
         ~RenameRecord(r)
  PROVE  LiveSlots(r)' \subseteq LiveSlots(r)
<1>1. Drift[r] \in Nat /\ Skew \in Nat /\ now \in Nat
      /\ \A s \in Slot : rec[s].expires \in Nat
  BY DEF TypeInv, TypeOK, Record
<1>2. ASSUME rec' = rec, now' \in {now, now + 1}
      PROVE  LiveSlots(r)' \subseteq LiveSlots(r)
  BY <1>1, <1>2 DEF LiveSlots, Expired, Clock
<1>3. ASSUME NEW q \in Runner, RenameRecord(q)
      PROVE  LiveSlots(r)' \subseteq LiveSlots(r)
  <2>1. q # r /\ HolderOf[q] # HolderOf[r] /\ HolderOf[r] # NoHolder
    BY <1>3 DEF AnyOfAlone
  <2>2. next[q].holder # HolderOf[r]
    <3>1. GrantsAnew(q) \/ ExtendsOwn(q) \/ FreesOwn(q)
      BY <1>3, RenameIsOneOfThree
    <3>2. FreesOwn(q) => next[q].holder = NoHolder
      BY DEF FreesOwn
    <3>. QED BY <2>1, <3>1, <3>2 DEF GrantsAnew, ExtendsOwn
  <2>3. rec' = [rec EXCEPT ![slot[q]] = next[q]] /\ now' = now
    BY <1>3, RenameIsOneOfThree
  <2>4. \A s \in Slot : rec'[s] = rec[s] \/ rec'[s].holder # HolderOf[r]
    BY <2>2, <2>3 DEF TypeInv, TypeOK
  <2>. QED BY <2>3, <2>4 DEF LiveSlots, Expired, Clock
<1>. QED BY <1>2, <1>3, OnlyRenameWrites

(* A step that leaves the runner where it is in its call. *)
LEMMA HolderStays ==
  ASSUME NEW S, NEW r \in Runner, HolderInv(r, S),
         LiveSlots(r)' \subseteq LiveSlots(r),
         pc'[r] = pc[r], job'[r] = job[r], slot'[r] = slot[r],
         outcome'[r] = outcome[r]
  PROVE  HolderInv(r, S)'
BY DEF HolderInv, SearchInv, Searching, PassedOver, AtMostOne

(* What is not its own step is such a step. *)
LEMMA OthersLeave ==
  ASSUME TypeInv, NEW q \in Runner, NEW r \in Runner, q # r,
         \/ Start(q) \/ LockStep(q) \/ BodyStep(q) \/ CallStep(q) \/ Fault(q) \/ Die(q)
  PROVE  /\ pc'[r] = pc[r] /\ job'[r] = job[r] /\ slot'[r] = slot[r]
         /\ outcome'[r] = outcome[r]
<1>. USE DEF TypeInv, TypeOK, Goto, End, fileVars
<1>1. CASE Start(q)
  <2>1. PICK j \in Job : Call(q, j)
    BY <1>1, StartCalls
  <2>. QED BY <2>1 DEF Call
<1>2. CASE LockStep(q) \/ Fault(q) \/ Die(q)
  BY <1>2 DEF LockStep, MkdirMakes, MkdirFinds, Wait, GiveUp, Fault, Die, Forget
<1>3. CASE CallStep(q)
  BY <1>3 DEF CallStep, NextSlot, Return, Forget
<1>4. CASE BodyStep(q)
  <2>1. CASE Decide(q)
    BY <2>1, Decisions DEF Persist, Settle
  <2>2. CASE ~Decide(q)
    BY <1>4, <2>2 DEF BodyStep, ReadRecord, RenameRecord, RmdirLock
  <2>. QED BY <2>1, <2>2
<1>. QED BY <1>1, <1>2, <1>3, <1>4


(* Its own steps.  Beginning a call: all that is live is still ahead. *)
LEMMA HolderStart ==
  ASSUME TypeInv, NEW S, SameSlots(S), NEW r \in Runner, AnyOfAlone(r),
         HolderInv(r, S), LiveSlots(r)' \subseteq LiveSlots(r), Start(r)
  PROVE  HolderInv(r, S)'
<1>. USE DEF Goto, TypeInv, TypeOK
<1>1. CASE StartAcquire(r)
  BY <1>1 DEF StartAcquire, Call, OneSlot, AnyOfAlone
<1>2. CASE StartAcquireAny(r)
  <2>1. PICK order \in Orders, ttl \in Ttl :
          /\ order # <<>>
          /\ Call(r, [op |-> "acquireAny", order |-> order, todo |-> Tail(order),
                      pass |-> FirstPass, token |-> 0, ttl |-> ttl])
    BY <1>2 DEF StartAcquireAny
  <2>2. /\ pc'[r] = "trying" /\ slot'[r] = Head(order)
        /\ job'[r].op = "acquireAny" /\ job'[r].order = order
        /\ job'[r].todo = Tail(order) /\ job'[r].pass = "own"
    BY <2>1 DEF Call, FirstPass
  <2>3. Listed(order) = S /\ Listed(order) = {Head(order)} \cup Listed(Tail(order))
    BY <2>1, ListedHeadTail DEF SameSlots
  <2>. QED BY <2>1, <2>2, <2>3
           DEF HolderInv, SearchInv, Searching, PassedOver, AtMostOne
<1>3. CASE StartRenew(r) \/ StartRelease(r)
  <2>1. PICK op \in {"renew", "release"}, s \in Slot, token \in Presented,
             ttl \in Ttl \cup {0} :
          Call(r, OneSlot(op, s, token, ttl))
    BY <1>3 DEF StartRenew, StartRelease
  <2>2. job'[r] = OneSlot(op, s, token, ttl) /\ pc'[r] = "trying"
    BY <2>1 DEF Call
  <2>3. pc'[r] = "trying" /\ job'[r].op \in {"renew", "release"}
    BY <2>2 DEF OneSlot
  <2>. QED BY <2>3 DEF HolderInv, AtMostOne
<1>. QED BY <1>1, <1>2, <1>3 DEF Start

(* On the record that the lock guards, a pass finds a live lease of the     *)
(* holder, or the slot is one more behind it.                               *)
LEMMA HolderDecide ==
  ASSUME TypeInv, WriteInv, NEW S, NEW r \in Runner, HolderInv(r, S),
         LiveSlots(r)' \subseteq LiveSlots(r), Decide(r)
  PROVE  HolderInv(r, S)'
<1>1. /\ pc[r] = "decide" /\ slot[r] \in Slot /\ seen[r] = rec[slot[r]]
      /\ job' = job /\ slot' = slot
  BY Decisions DEF WriteInv, TypeInv, TypeOK
<1>2. slot[r] \in LiveSlots(r) <=>
        seen[r].holder = HolderOf[r] /\ ~Expired(seen[r], Clock(r))
  BY <1>1 DEF LiveSlots
<1>3. \/ pc'[r] = "write"
      \/ pc'[r] = "unlock" /\ outcome'[r] \in {"granted", "held", "refused"}
  BY Decisions DEF Persist, Settle, Settles, Goto, End, TypeInv, TypeOK
<1>4. CASE job[r].op \notin {"acquireAny", "renew"}
  BY <1>1, <1>3, <1>4 DEF HolderInv, AtMostOne
<1>5. CASE DecideRenew(r)
  <2>1. pc'[r] = "write" => slot[r] \in LiveSlots(r)
    BY <1>2, <1>5 DEF DecideRenew, Presents, Settle, Goto, TypeInv, TypeOK
  <2>2. pc'[r] = "write" => slot[r] \in S /\ LiveSlots(r) \subseteq {slot[r]}
    BY <2>1 DEF HolderInv, AtMostOne
  <2>. QED BY <1>1, <1>5, <2>2 DEF HolderInv, AtMostOne, DecideRenew
<1>6. CASE DecideOwn(r)
  <2>1. pc'[r] = "unlock" /\ (outcome'[r] = "held" => slot[r] \notin LiveSlots(r))
    BY <1>2, <1>6 DEF DecideOwn, Settle, Goto, End, TypeInv, TypeOK
  <2>2. LiveSlots(r) \subseteq {slot[r]} \cup Listed(job[r].todo)
    BY <1>1, <1>6 DEF DecideOwn, HolderInv, SearchInv, Searching
  <2>. QED BY <1>1, <1>6, <2>1, <2>2
           DEF DecideOwn, HolderInv, SearchInv, Searching, PassedOver, AtMostOne
<1>7. CASE DecideGrant(r)
  <2>1. LiveSlots(r) = {}
    BY <1>1, <1>7 DEF DecideGrant, HolderInv, SearchInv, Searching
  <2>. QED BY <1>1, <1>7, <2>1
           DEF DecideGrant, HolderInv, SearchInv, Searching, PassedOver, AtMostOne
<1>8. CASE DecideAcquire(r) \/ DecideRelease(r)
  BY <1>4, <1>8 DEF DecideAcquire, DecideRelease
<1>. QED BY <1>5, <1>6, <1>7, <1>8 DEF Decide

(* A grant is the only live lease, a renewal that of the slot that was. *)
LEMMA HolderRename ==
  ASSUME TypeInv, WriteInv, NEW S, NEW r \in Runner, HolderInv(r, S),
         RenameRecord(r)
  PROVE  HolderInv(r, S)'
<1>1. /\ slot[r] \in Slot /\ rec' = [rec EXCEPT ![slot[r]] = next[r]] /\ now' = now
      /\ pc[r] = "write" /\ (FreesOwn(r) <=> job[r].op = "release")
  BY RenameIsOneOfThree DEF RenameRecord, WriteInv
<1>2. /\ pc'[r] = "unlock" /\ outcome'[r] # "held" /\ job' = job /\ slot' = slot
  BY DEF RenameRecord, Goto, End, TypeInv, TypeOK
<1>3. LiveSlots(r)' \subseteq LiveSlots(r) \cup {slot[r]}
  BY <1>1 DEF LiveSlots, Expired, Clock, TypeInv, TypeOK
<1>4. job[r].op = "release" => LiveSlots(r)' \subseteq LiveSlots(r)
  <2>. SUFFICES ASSUME job[r].op = "release" PROVE slot[r] \notin LiveSlots(r)'
    BY <1>3
  <2>1. next[r].holder = NoHolder /\ HolderOf[r] # NoHolder
    BY <1>1 DEF FreesOwn
  <2>2. rec'[slot[r]] = next[r]
    BY <1>1 DEF TypeInv, TypeOK
  <2>. QED BY <2>1, <2>2 DEF LiveSlots
<1>5. AtMostOne(LiveSlots(r))' /\ LiveSlots(r)' \subseteq S
  <2>1. CASE job[r].op = "acquireAny"
    <3>1. LiveSlots(r) = {} /\ slot[r] \in S
      BY <1>1, <2>1 DEF HolderInv, SearchInv, TypeInv, TypeOK, Job
    <3>. QED BY <1>3, <3>1 DEF AtMostOne
  <2>2. CASE job[r].op = "renew"
    BY <1>1, <1>3, <2>2 DEF HolderInv, AtMostOne
  <2>3. CASE job[r].op = "release"
    BY <1>4, <2>3 DEF HolderInv, AtMostOne
  <2>. QED BY <1>1, <2>1, <2>2, <2>3 DEF HolderInv
<1>. QED BY <1>1, <1>2, <1>5
         DEF HolderInv, SearchInv, Searching, PassedOver

(* From slot to slot, and from the first pass to the second. *)
LEMMA HolderNextSlot ==
  ASSUME TypeInv, NEW S, NEW r \in Runner, HolderInv(r, S),
         LiveSlots(r)' \subseteq LiveSlots(r), NextSlot(r)
  PROVE  HolderInv(r, S)'
<1>1. /\ pc[r] = "return" /\ job[r].op = "acquireAny" /\ PassedOver(r)
      /\ NextTry(job[r]) # NoJob
      /\ pc'[r] = "trying" /\ job'[r] = NextTry(job[r])
      /\ slot'[r] = IF job[r].todo # <<>> THEN Head(job[r].todo) ELSE Head(job[r].order)
  BY DEF NextSlot, GoesOn, PassedOver, Goto, TypeInv, TypeOK
<1>2. job[r] \in Job /\ SearchInv(r, S)
  BY <1>1 DEF HolderInv, TypeInv, TypeOK
<1>3. CASE job[r].todo # <<>>
  <2>1. Listed(job[r].todo) = {Head(job[r].todo)} \cup Listed(Tail(job[r].todo))
    BY <1>2, <1>3, ListedHeadTail DEF Job
  <2>2. /\ job'[r].todo = Tail(job[r].todo) /\ job'[r].pass = job[r].pass
        /\ job'[r].order = job[r].order /\ job'[r].op = "acquireAny"
    BY <1>1, <1>2, <1>3 DEF NextTry, Job
  <2>3. SearchInv(r, S)'
    BY <1>1, <1>2, <1>3, <2>1, <2>2 DEF SearchInv, Searching, PassedOver
  <2>. QED BY <1>1, <2>2, <2>3 DEF HolderInv, AtMostOne
<1>4. CASE job[r].todo = <<>>
  <2>1. /\ Listed(job[r].order) = {Head(job[r].order)} \cup Listed(Tail(job[r].order))
    BY <1>2, ListedHeadTail DEF SearchInv, Job
  <2>2. /\ job[r].pass = "own"
        /\ job'[r].todo = Tail(job[r].order) /\ job'[r].pass = "grant"
        /\ job'[r].order = job[r].order /\ job'[r].op = "acquireAny"
    BY <1>1, <1>2, <1>4 DEF NextTry, Job
  <2>3. LiveSlots(r) = {}
    BY <1>1, <1>2, <1>4, <2>2 DEF SearchInv, Listed
  <2>4. SearchInv(r, S)'
    BY <1>1, <1>2, <1>4, <2>1, <2>2, <2>3 DEF SearchInv, Searching, PassedOver
  <2>. QED BY <1>1, <2>2, <2>4 DEF HolderInv, AtMostOne
<1>. QED BY <1>3, <1>4

LEMMA HolderRest ==
  ASSUME TypeInv, NEW S, NEW r \in Runner, HolderInv(r, S),
         LiveSlots(r)' \subseteq LiveSlots(r),
         LockStep(r) \/ ReadRecord(r) \/ RmdirLock(r) \/ Return(r) \/ Fault(r) \/ Die(r)
  PROVE  HolderInv(r, S)'
<1>. USE DEF TypeInv, TypeOK, Goto, End
<1>1. CASE Return(r) \/ Die(r)
  BY <1>1 DEF Return, Die, Forget, HolderInv, AtMostOne
<1>2. CASE LockStep(r)
  BY <1>2 DEF LockStep, MkdirMakes, MkdirFinds, Wait, GiveUp,
              HolderInv, SearchInv, Searching, PassedOver, AtMostOne
<1>3. CASE ReadRecord(r)
  BY <1>3 DEF ReadRecord, HolderInv, SearchInv, Searching, PassedOver, AtMostOne
<1>4. CASE RmdirLock(r)
  BY <1>4 DEF RmdirLock, HolderInv, SearchInv, Searching, PassedOver, AtMostOne
<1>5. CASE Fault(r)
  BY <1>5 DEF Fault, Finally, HolderInv, SearchInv, Searching, PassedOver, AtMostOne
<1>. QED BY <1>1, <1>2, <1>3, <1>4, <1>5

LEMMA HolderStep ==
  ASSUME NEW S, SameSlots(S), NEW r \in Runner, AnyOfAlone(r)
  PROVE  TypeInv /\ WriteInv /\ HolderInv(r, S) /\ [Next]_vars => HolderInv(r, S)'
<1>. SUFFICES ASSUME TypeInv, WriteInv, HolderInv(r, S), [Next]_vars
              PROVE  HolderInv(r, S)'
  OBVIOUS
<1>1. CASE RenameRecord(r)
  BY <1>1, HolderRename
<1>2. CASE ~RenameRecord(r)
  <2>1. LiveSlots(r)' \subseteq LiveSlots(r)
    BY <1>2, LiveShrinks
  <2>2. ASSUME NEW q \in Runner,
               \/ Start(q) \/ LockStep(q) \/ BodyStep(q) \/ CallStep(q) \/ Fault(q) \/ Die(q)
        PROVE  HolderInv(r, S)'
    <3>1. CASE q # r
      BY <2>1, <2>2, <3>1, OthersLeave, HolderStays
    <3>2. CASE q = r
      BY <1>2, <2>1, <2>2, <3>2, HolderStart, HolderDecide, HolderNextSlot, HolderRest
         DEF BodyStep, CallStep
    <3>. QED BY <3>1, <3>2
  <2>3. ASSUME (\E s \in Slot : OperatorRemoves(s)) \/ EditAllowList \/ Tick
               \/ UNCHANGED vars
        PROVE  HolderInv(r, S)'
    <3>1. UNCHANGED runVars
      BY <2>3 DEF OperatorRemoves, EditAllowList, Tick, vars
    <3>. QED BY <2>1, <3>1, HolderStays DEF runVars
  <2>. QED BY <2>2, <2>3 DEF Next
<1>. QED BY <1>1, <1>2

(* Any-of acquire is idempotent: a holder that runs one call at a time and  *)
(* asks for the same slots in whatever order never holds two live leases,   *)
(* whatever times out, fails, dies or is taken over (acquireAnyLease).      *)
THEOREM LeaseOneSlotPerHolder ==
  ASSUME NEW S, SameSlots(S), \A r \in Runner : AnyOfAlone(r)
  PROVE  Spec => []OneSlotPerHolder
<1>. DEFINE Holders == \A r \in Runner : HolderInv(r, S)
<1>1. Init => Holders
  <2>1. ASSUME Init, NEW r \in Runner PROVE LiveSlots(r) = {} /\ pc[r] = "idle"
    <3>1. HolderOf[r] # NoHolder /\ NoRecord.holder = NoHolder
      BY DEF NoRecord
    <3>2. \A s \in Slot : rec[s] = NoRecord
      BY <2>1 DEF Init
    <3>. QED BY <2>1, <3>1, <3>2 DEF Init, LiveSlots
  <2>. QED BY <2>1 DEF HolderInv, AtMostOne
<1>2. TypeInv /\ WriteInv /\ Holders /\ [Next]_vars => Holders'
  BY HolderStep
<1>3. Holders => OneSlotPerHolder
  BY DEF OneSlotPerHolder, HolderInv
<1>. HIDE DEF Holders
<1>. QED BY <1>1, <1>2, <1>3, TypeInvariant, WriteInvariant, PTL DEF Spec
=============================================================================
