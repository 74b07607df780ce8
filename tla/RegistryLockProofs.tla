-------------------------- MODULE RegistryLockProofs --------------------------
(* The registry lock excludes and leaks nothing, for any number of processes *)
(* and lock directories.                                                     *)
EXTENDS RegistryLock, TLAPS

(* The lock's variables keep their types: what every other proof about the *)
(* mkdir lock starts from.                                                 *)
THEOREM TypeCorrect == Spec => []TypeOK
<1>1. Init => TypeOK
  BY DEF Init, TypeOK, Phase
<1>2. TypeOK /\ [Next]_vars => TypeOK'
  <2> USE DEF TypeOK, Phase, MoveTo
  <2>1. ASSUME TypeOK, NEW p \in Process, NEW d \in LockDir, Begin(p, d)
        PROVE TypeOK'
    BY <2>1 DEF Begin
  <2>2. ASSUME TypeOK, NEW p \in Process,
               MkdirMakes(p) \/ MkdirFinds(p) \/ Wait(p) \/ GiveUp(p) \/ Rmdir(p)
        PROVE TypeOK'
    BY <2>2 DEF MkdirMakes, MkdirFinds, Wait, GiveUp, Rmdir
  <2>3. ASSUME TypeOK, NEW p \in Process, Die(p)
        PROVE TypeOK'
    BY <2>3 DEF Die
  <2>4. ASSUME TypeOK, NEW d \in LockDir, OperatorRemoves(d)
        PROVE TypeOK'
    BY <2>4 DEF OperatorRemoves
  <2>5. ASSUME TypeOK, UNCHANGED vars
        PROVE TypeOK'
    BY <2>5 DEF vars
  <2> QED BY <2>1, <2>2, <2>3, <2>4, <2>5 DEF Next
<1> QED BY <1>1, <1>2, PTL DEF Spec

(* What makes exclusion inductive: the directories on disk are exactly those *)
(* of the processes inside and those left by dead makers, and no directory   *)
(* is both.                                                                  *)
LockInv == TypeOK /\ MutualExclusion /\ DirsAccounted

LEMMA LockStep == LockInv /\ [Next]_vars => LockInv'
<1> SUFFICES ASSUME LockInv, [Next]_vars PROVE LockInv'
  OBVIOUS
<1> USE DEF LockInv, TypeOK, Phase, MutualExclusion, DirsAccounted, Holds, MoveTo
<1>1. ASSUME NEW p \in Process, NEW d \in LockDir, Begin(p, d)
      PROVE LockInv'
  BY <1>1 DEF Begin
<1>2. ASSUME NEW p \in Process, MkdirMakes(p)
      PROVE LockInv'
  <2>1. TypeOK' /\ MutualExclusion'
    BY <1>2 DEF MkdirMakes
  <2>2. ASSUME NEW q \in Process
        PROVE phase'[q] = "inside" => target'[q] \notin stale'
    BY <1>2 DEF MkdirMakes
  <2>3. \A d \in LockDir :
          d \in dirs' <=> (d \in stale' \/ \E q \in Process : Holds(q, d)')
    BY <1>2 DEF MkdirMakes
  <2> QED BY <2>1, <2>2, <2>3
<1>3. ASSUME NEW p \in Process, MkdirFinds(p) \/ Wait(p) \/ GiveUp(p)
      PROVE LockInv'
  BY <1>3 DEF MkdirFinds, Wait, GiveUp
<1>4. ASSUME NEW p \in Process, Rmdir(p)
      PROVE LockInv'
  BY <1>4 DEF Rmdir
<1>5. ASSUME NEW p \in Process, Die(p)
      PROVE LockInv'
  <2>1. CASE phase[p] = "inside"
    BY <1>5, <2>1 DEF Die
  <2>2. CASE phase[p] # "inside"
    BY <1>5, <2>2 DEF Die
  <2> QED BY <2>1, <2>2
<1>6. ASSUME NEW d \in LockDir, OperatorRemoves(d)
      PROVE LockInv'
  BY <1>6 DEF OperatorRemoves
<1>7. CASE UNCHANGED vars
  BY <1>7 DEF vars
<1> QED BY <1>1, <1>2, <1>3, <1>4, <1>5, <1>6, <1>7 DEF Next

LEMMA LockInvariant == Spec => []LockInv
<1>1. Init => LockInv
  BY DEF Init, LockInv, TypeOK, Phase, MutualExclusion, DirsAccounted, Holds
<1> QED BY <1>1, LockStep, PTL DEF Spec

(* The critical sections of one lock directory exclude each other, through *)
(* crashes and through the operator's clean-up.                            *)
THEOREM LockExcludes == Spec => []MutualExclusion
BY LockInvariant, PTL DEF LockInv

(* A lock directory stays on disk only for a process that is inside or that *)
(* died inside: the finally blocks leak none and remove nobody else's.      *)
THEOREM LockLeaksNothing == Spec => []DirsAccounted
BY LockInvariant, PTL DEF LockInv
=============================================================================
