---------------------------- MODULE RegistryLock ----------------------------
(***************************************************************************)
(* The cross-process lock of src/protocol/event-registry/storage.ts, as    *)
(* the modules above it see it: a lock is a directory, mkdir makes it or   *)
(* reports EEXIST, rmdir removes it.  The directory names no owner, nobody *)
(* ever steals it, and it survives the process that made it: after a crash *)
(* only an operator takes it away.                                         *)
(*                                                                         *)
(* How long a caller waits is left open here (LockBackoff says it); what   *)
(* is done under the lock is said by SlotLease and EventRegistry, which    *)
(* both implement this module.                                             *)
(***************************************************************************)
CONSTANTS
  Process,   \* the operating-system processes that take locks
  LockDir    \* the paths of the lock directories

VARIABLES
  dirs,      \* the lock directories that exist
  phase,     \* where each process is in its acquire / critical section
  target,    \* the lock directory each process asks for
  stale      \* directories left behind by a process that is no longer there

vars == <<dirs, phase, target, stale>>

Phase == {"idle", "trying", "busy", "inside"}

TypeOK ==
  /\ dirs \in SUBSET LockDir
  /\ phase \in [Process -> Phase]
  /\ target \in [Process -> LockDir]
  /\ stale \in SUBSET LockDir

Init ==
  /\ dirs = {}
  /\ phase = [p \in Process |-> "idle"]
  /\ target \in [Process -> LockDir]
  /\ stale = {}

MoveTo(p, ph) == phase' = [phase EXCEPT ![p] = ph]

-----------------------------------------------------------------------------
(* A caller enters acquireRegistryLock. *)
Begin(p, d) ==
  /\ phase[p] = "idle"
  /\ MoveTo(p, "trying")
  /\ target' = [target EXCEPT ![p] = d]
  /\ UNCHANGED <<dirs, stale>>

(* mkdir made the directory: the caller holds the lock. *)
MkdirMakes(p) ==
  /\ phase[p] = "trying"
  /\ target[p] \notin dirs
  /\ dirs' = dirs \cup {target[p]}
  /\ MoveTo(p, "inside")
  /\ UNCHANGED <<target, stale>>

(* mkdir reported EEXIST. *)
MkdirFinds(p) ==
  /\ phase[p] = "trying"
  /\ target[p] \in dirs
  /\ MoveTo(p, "busy")
  /\ UNCHANGED <<dirs, target, stale>>

(* The caller waits and will try again. *)
Wait(p) ==
  /\ phase[p] = "busy"
  /\ MoveTo(p, "trying")
  /\ UNCHANGED <<dirs, target, stale>>

(* locked: false, the caller's lock_unavailable: never without an EEXIST. *)
GiveUp(p) ==
  /\ phase[p] = "busy"
  /\ MoveTo(p, "idle")
  /\ UNCHANGED <<dirs, target, stale>>

(* The finally block of every critical section. *)
Rmdir(p) ==
  /\ phase[p] = "inside"
  /\ dirs' = dirs \ {target[p]}
  /\ MoveTo(p, "idle")
  /\ UNCHANGED <<target, stale>>

(* The process dies, or an unexpected mkdir error leaves the acquire: what *)
(* it held stays on disk.                                                  *)
Die(p) ==
  /\ phase[p] # "idle"
  /\ MoveTo(p, "idle")
  /\ stale' = IF phase[p] = "inside" THEN stale \cup {target[p]} ELSE stale
  /\ UNCHANGED <<dirs, target>>

(* The operator removes a directory whose maker is gone. *)
OperatorRemoves(d) ==
  /\ d \in stale
  /\ dirs' = dirs \ {d}
  /\ stale' = stale \ {d}
  /\ UNCHANGED <<phase, target>>

Next ==
  \/ \E p \in Process :
       \/ \E d \in LockDir : Begin(p, d)
       \/ MkdirMakes(p)
       \/ MkdirFinds(p)
       \/ Wait(p)
       \/ GiveUp(p)
       \/ Rmdir(p)
       \/ Die(p)
  \/ \E d \in LockDir : OperatorRemoves(d)

Spec == Init /\ [][Next]_vars

-----------------------------------------------------------------------------
Holds(p, d) == phase[p] = "inside" /\ target[p] = d

(* No two processes are ever inside the critical section of one lock       *)
(* directory (storage.ts acquireRegistryLock: "never reports locked:true   *)
(* without the directory actually created").                               *)
MutualExclusion ==
  \A p, q \in Process : \A d \in LockDir :
    Holds(p, d) /\ Holds(q, d) => p = q

(* A lock directory is on disk exactly while a process is inside it or     *)
(* after its maker died there: no path of the code leaks one or removes    *)
(* another's.                                                              *)
DirsAccounted ==
  /\ \A d \in LockDir :
       d \in dirs <=> (d \in stale \/ \E p \in Process : Holds(p, d))
  /\ \A p \in Process : phase[p] = "inside" => target[p] \notin stale
=============================================================================
