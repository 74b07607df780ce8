------------------------- MODULE EventRegistryProofs -------------------------
(* EventRegistry for any number of processes, events, appends, compactions, *)
(* torn writes and crashes.                                                 *)
EXTENDS EventRegistry, TLAPS

USE RegistryAssumption DEF RegistryAssumption

-----------------------------------------------------------------------------
(* The lock, which does not depend on what the log holds. *)
PcInv ==
  /\ pc \in [Process -> {"idle", "trying", "busy", "locked", "append", "joined",
                         "write", "rename", "unlock"}]
  /\ dirs \in SUBSET {EventsLock} /\ stale \in SUBSET {EventsLock}
  /\ job \in [Process -> Job \cup {NoJob}]
  /\ \A p \in Process : pc[p] # "idle" => job[p] \in Job

(* How a step moves the processes, and nothing else of the lock. *)
Works(p) ==
  \/ RefuseLink(p) \/ AppendLine(p) \/ AppendPart(p) \/ AppendRest(p)
  \/ ReadLog(p) \/ WriteTmp(p) \/ RenameTmp(p) \/ Fault(p)

LEMMA WorkMoves ==
  ASSUME NEW p \in Process, Works(p)
  PROVE  /\ pc[p] \in {"locked", "append", "joined", "write", "rename"}
         /\ \E l \in {"append", "joined", "write", "rename", "unlock"} : Goto(p, l)
         /\ UNCHANGED <<dirs, stale, job>>
<1>1. CASE RefuseLink(p) \/ AppendLine(p) \/ AppendPart(p) \/ AppendRest(p)
  BY <1>1 DEF RefuseLink, Appends, AppendLine, AppendPart, AppendRest, Returned, fileVars
<1>2. CASE ReadLog(p) \/ WriteTmp(p) \/ RenameTmp(p) \/ Fault(p)
  BY <1>2 DEF ReadLog, WriteTmp, RenameTmp, Fault, fileVars
<1> QED BY <1>1, <1>2 DEF Works

LEMMA StartCalls ==
  ASSUME NEW p \in Process, Start(p)
  PROVE  \E j \in Job : Call(p, j)
<1>1. CASE StartAppend(p)
  <2>1. PICK e \in Event : Call(p, [op |-> "append", event |-> e])
    BY <1>1 DEF StartAppend
  <2> DEFINE j == [op |-> "append", event |-> e]
  <2>2. j \in Job
    BY DEF Job
  <2> QED BY <2>1, <2>2
<1>2. CASE StartCompact(p)
  <2>1. PICK at \in Instants : Call(p, [op |-> "compact", now |-> at])
    BY <1>2 DEF StartCompact
  <2> DEFINE j == [op |-> "compact", now |-> at]
  <2>2. j \in Job
    BY DEF Job
  <2> QED BY <2>1, <2>2
<1> QED BY <1>1, <1>2 DEF Start

LEMMA NextCases ==
  ASSUME [Next]_vars
  PROVE  \/ \E p \in Process : Start(p)
         \/ \E p \in Process : LockStep(p)
         \/ \E p \in Process : Works(p)
         \/ \E p \in Process : RmdirLock(p)
         \/ \E p \in Process : Die(p)
         \/ OperatorRemoves
         \/ UNCHANGED vars
BY DEF Next, AppendStep, CompactStep, Works

LEMMA PcStep == PcInv /\ [Next]_vars => PcInv'
<1> SUFFICES ASSUME PcInv, [Next]_vars PROVE PcInv'
  OBVIOUS
<1> USE DEF PcInv, Goto
<1>1. ASSUME NEW p \in Process, Start(p) PROVE PcInv'
  <2>1. PICK j \in Job : Call(p, j)
    BY <1>1, StartCalls
  <2> QED BY <2>1 DEF Call, fileVars
<1>2. ASSUME NEW p \in Process, LockStep(p) PROVE PcInv'
  BY <1>2 DEF LockStep, MkdirMakes, MkdirFinds, Wait, GiveUp, Forget, fileVars
<1>3. ASSUME NEW p \in Process, Works(p) PROVE PcInv'
  <2>1. PICK l \in {"append", "joined", "write", "rename", "unlock"} : Goto(p, l)
    BY <1>3, WorkMoves
  <2>2. pc[p] # "idle" /\ UNCHANGED <<dirs, stale, job>>
    BY <1>3, WorkMoves
  <2> QED BY <2>1, <2>2
<1>4. ASSUME NEW p \in Process, RmdirLock(p) \/ Die(p) PROVE PcInv'
  BY <1>4 DEF RmdirLock, Die, Forget
<1>5. CASE OperatorRemoves
  BY <1>5 DEF OperatorRemoves
<1>6. CASE UNCHANGED vars
  BY <1>6 DEF vars, fileVars
<1> QED BY <1>1, <1>2, <1>3, <1>4, <1>5, <1>6, NextCases

LEMMA PcInvariant == Spec => []PcInv
<1>1. Init => PcInv
  BY DEF Init, PcInv
<1> QED BY <1>1, PcStep, PTL DEF Spec

LEMMA PhaseMoves ==
  ASSUME PcInv, NEW p \in Process, NEW l, Goto(p, l)
  PROVE  [q \in Process |-> PhaseOf(pc'[q])]
           = [[q \in Process |-> PhaseOf(pc[q])] EXCEPT ![p] = PhaseOf(l)]
BY DEF PcInv, Goto

LEMMA PhaseStays ==
  ASSUME PcInv, NEW p \in Process, NEW l, Goto(p, l), PhaseOf(l) = PhaseOf(pc[p])
  PROVE  [q \in Process |-> PhaseOf(pc'[q])] = [q \in Process |-> PhaseOf(pc[q])]
BY DEF PcInv, Goto

LEMMA LockStepRefines == PcInv /\ [Next]_vars => [TheLock!Next]_(TheLock!vars)
<1> SUFFICES ASSUME PcInv, [Next]_vars PROVE [TheLock!Next]_(TheLock!vars)
  OBVIOUS
<1> USE DEF PhaseOf, TheLock!MoveTo
<1>1. ASSUME NEW p \in Process, Start(p) PROVE TheLock!Next
  <2>1. PICK j \in Job : Call(p, j)
    BY <1>1, StartCalls
  <2>2. TheLock!Begin(p, EventsLock)
    BY <2>1, PhaseMoves DEF Call, fileVars, TheLock!Begin
  <2> QED BY <2>2 DEF TheLock!Next
<1>2. ASSUME NEW p \in Process, LockStep(p) PROVE TheLock!Next
  <2>1. CASE MkdirMakes(p)
    <3>1. TheLock!MkdirMakes(p)
      BY <2>1, PhaseMoves DEF MkdirMakes, EEXIST, TheLock!MkdirMakes
    <3> QED BY <3>1 DEF TheLock!Next
  <2>2. CASE MkdirFinds(p)
    <3>1. TheLock!MkdirFinds(p)
      BY <2>2, PhaseMoves DEF MkdirFinds, EEXIST, fileVars, TheLock!MkdirFinds
    <3> QED BY <3>1 DEF TheLock!Next
  <2>3. CASE Wait(p)
    <3>1. TheLock!Wait(p)
      BY <2>3, PhaseMoves DEF Wait, fileVars, TheLock!Wait
    <3> QED BY <3>1 DEF TheLock!Next
  <2>4. CASE GiveUp(p)
    <3>1. TheLock!GiveUp(p)
      BY <2>4, PhaseMoves DEF GiveUp, Forget, fileVars, TheLock!GiveUp
    <3> QED BY <3>1 DEF TheLock!Next
  <2> QED BY <1>2, <2>1, <2>2, <2>3, <2>4 DEF LockStep
<1>3. ASSUME NEW p \in Process, Works(p) PROVE UNCHANGED TheLock!vars
  <2>1. PICK l \in {"append", "joined", "write", "rename", "unlock"} : Goto(p, l)
    BY <1>3, WorkMoves
  <2>2. /\ pc[p] \in {"locked", "append", "joined", "write", "rename"}
        /\ UNCHANGED <<dirs, stale>>
    BY <1>3, WorkMoves
  <2> QED BY <2>1, <2>2, PhaseStays DEF TheLock!vars
<1>4. ASSUME NEW p \in Process, RmdirLock(p) PROVE TheLock!Next
  <2>1. TheLock!Rmdir(p)
    BY <1>4, PhaseMoves DEF RmdirLock, Forget, TheLock!Rmdir
  <2> QED BY <2>1 DEF TheLock!Next
<1>5. ASSUME NEW p \in Process, Die(p) PROVE TheLock!Next
  <2>1. TheLock!Die(p)
    BY <1>5, PhaseMoves DEF Die, Forget, Inside, TheLock!Die, PcInv
  <2> QED BY <2>1 DEF TheLock!Next
<1>6. ASSUME OperatorRemoves PROVE TheLock!Next
  <2>1. TheLock!OperatorRemoves(EventsLock)
    BY <1>6 DEF OperatorRemoves, TheLock!OperatorRemoves
  <2> QED BY <2>1 DEF TheLock!Next
<1>7. ASSUME UNCHANGED vars PROVE UNCHANGED TheLock!vars
  BY <1>7 DEF vars, fileVars, TheLock!vars
<1> QED BY <1>1, <1>2, <1>3, <1>4, <1>5, <1>6, <1>7, NextCases

(* Torn writes, refusals and crashes included, appends and compactions use  *)
(* the lock directory as the registry lock allows.                          *)
THEOREM RegistryUsesLock == Spec => ImplementsRegistryLock
<1>1. Init => TheLock!Init
  BY DEF Init, TheLock!Init, PhaseOf
<1> QED BY <1>1, LockStepRefines, PcInvariant, PTL
        DEF Spec, ImplementsRegistryLock, TheLock!Spec

(* The theorems about the lock, for events.lock. *)
Locks == INSTANCE RegistryLockProofs WITH
  LockDir <- {EventsLock}, target <- [p \in Process |-> EventsLock],
  phase <- [p \in Process |-> PhaseOf(pc[p])]

LEMMA SameLock == TheLock!Spec => Locks!Spec
<1>1. TheLock!Init => Locks!Init
  BY DEF TheLock!Init, Locks!Init
<1>2. [TheLock!Next]_(TheLock!vars) => [Locks!Next]_(Locks!vars)
  BY DEF TheLock!Next, Locks!Next, TheLock!vars, Locks!vars,
         TheLock!Begin, Locks!Begin, TheLock!MkdirMakes, Locks!MkdirMakes,
         TheLock!MkdirFinds, Locks!MkdirFinds, TheLock!Wait, Locks!Wait,
         TheLock!GiveUp, Locks!GiveUp, TheLock!Rmdir, Locks!Rmdir,
         TheLock!Die, Locks!Die, TheLock!OperatorRemoves, Locks!OperatorRemoves,
         TheLock!MoveTo, Locks!MoveTo
<1> QED BY <1>1, <1>2, PTL DEF TheLock!Spec, Locks!Spec

OneWriter == \A p, q \in Process : Inside(p) /\ Inside(q) => p = q

LEMMA WritersExclude == Spec => []OneWriter
<1>1. Locks!Spec => []Locks!MutualExclusion
  BY Locks!LockExcludes
<1>2. PcInv /\ Locks!MutualExclusion => OneWriter
  BY DEF PcInv, Locks!MutualExclusion, Locks!Holds, OneWriter, Inside, PhaseOf
<1> QED BY <1>1, <1>2, RegistryUsesLock, PcInvariant, SameLock, PTL
        DEF ImplementsRegistryLock

-----------------------------------------------------------------------------
(* The log and who is at work on it.  Only a summary has hashes, only a     *)
(* line that is no summary can be ragged, an append under way is the reason *)
(* the log is ragged, and a compaction under way has read the present log.  *)
LogInv ==
  /\ IsLog(log) /\ DOMAIN log \subseteq 1 .. size
  /\ size \in Nat /\ ragged \in BOOLEAN
  /\ tmp = NoFile \/ IsLog(tmp)
  /\ DOMAIN text = Process /\ appended \in SUBSET Entry
  /\ ragged => size \in DOMAIN log /\ log[size].text # Summary
  /\ \A n \in DOMAIN log : log[n].text # Summary => log[n].hashes = {}

WorkInv(p) ==
  /\ IsLog(text[p])
  /\ pc[p] \in {"append", "joined"} => ragged /\ job[p].op = "append"
  /\ pc[p] = "joined" => log[size].text = Corrupt
  /\ pc[p] \in {"write", "rename"} =>
       job[p].op = "compact" /\ text[p] = log /\ Plannable(log)
  /\ pc[p] = "rename" => tmp = Compacted(log, job[p].now, size + 1)

RegistryInv == PcInv /\ LogInv /\ \A p \in Process : WorkInv(p)

LEMMA LineOfTyped ==
  \A t \in Event \cup {Summary, Corrupt} :
    /\ LineOf(t) \in Line
    /\ LineOf(t).text = t /\ LineOf(t).hashes = {}
BY DEF LineOf, Line

LEMMA NoLinesIsLog == IsLog(NoLines)
BY DEF NoLines, IsLog

LEMMA JobFields ==
  \A j \in Job : /\ j.op = "append" => j.event \in Event
                 /\ j.op = "compact" => j.now \in Instants
                 /\ j.op \in {"append", "compact"}
BY DEF Job

(* What a compaction makes of a log. *)
IsCompaction(c, l, at, n) ==
  /\ IsLog(c)
  /\ DOMAIN c = (DOMAIN l \ Removed(l, at)) \cup {n}
  /\ c[n].text = Summary
  /\ c[n].hashes = Hashes(l, Removed(l, at))
  /\ \A m \in DOMAIN l \ Removed(l, at) : c[m] = l[m]

LEMMA CompactedLog ==
  ASSUME NEW l, IsLog(l), NEW at \in Instants, NEW n \in Nat, n \notin DOMAIN l
  PROVE  IsCompaction(Compacted(l, at, n), l, at, n)
<1>1. Hashes(l, Removed(l, at)) \in SUBSET Entry
  BY DEF Hashes, Removed, Outlived, Entry, IsLog
<1>2. [text |-> Summary, hashes |-> Hashes(l, Removed(l, at))] \in Line
  BY <1>1 DEF Line
<1> DEFINE D == DOMAIN l \ Removed(l, at)
           s == [text |-> Summary, hashes |-> Hashes(l, Removed(l, at))]
<1>3. Compacted(l, at, n) = [m \in D \cup {n} |-> IF m = n THEN s ELSE l[m]]
  BY DEF Compacted
<1>4. D \subseteq DOMAIN l /\ s \in Line
  BY <1>2
<1>5. s.text = Summary /\ s.hashes = Hashes(l, Removed(l, at))
  OBVIOUS
<1> HIDE DEF D, s
<1>6. IsLog([m \in D \cup {n} |-> IF m = n THEN s ELSE l[m]])
  BY <1>4 DEF IsLog
<1> QED BY <1>3, <1>4, <1>5, <1>6 DEF D, IsCompaction

(* What the first bytes of a write make of the log. *)
LEMMA BytesWritten ==
  ASSUME LogInv, NEW t \in Event \cup {Corrupt}, WriteBytes(t)
  PROVE  /\ IsLog(log') /\ size' \in Nat
         /\ DOMAIN log' = DOMAIN log \cup {size'} /\ DOMAIN log' \subseteq 1 .. size'
         /\ log'[size'] = LineOf(IF ragged THEN Corrupt ELSE t)
         /\ \A n \in DOMAIN log' : n # size' => n \in DOMAIN log /\ log'[n] = log[n]
         /\ IF ragged THEN size' = size /\ size \in DOMAIN log
                      ELSE size' = size + 1 /\ size' \notin DOMAIN log
<1>1. CASE ragged
  <2>1. size' = size /\ log' = [log EXCEPT ![size] = LineOf(Corrupt)] /\ size \in DOMAIN log
    BY <1>1 DEF WriteBytes, LogInv
  <2>2. LineOf(Corrupt) \in Line
    BY LineOfTyped
  <2> QED BY <1>1, <2>1, <2>2 DEF LogInv, IsLog
<1>2. CASE ~ragged
  <2>1. size' = size + 1 /\ log' = [n \in DOMAIN log \cup {size + 1} |->
                                      IF n = size + 1 THEN LineOf(t) ELSE log[n]]
    BY <1>2 DEF WriteBytes
  <2>2. LineOf(t) \in Line
    BY LineOfTyped
  <2>3. size + 1 \notin DOMAIN log /\ size + 1 \in Nat
    BY DEF LogInv
  <2>4. IsLog(log')
    BY <2>1, <2>2, <2>3 DEF LogInv, IsLog
  <2> QED BY <1>2, <2>1, <2>3, <2>4 DEF LogInv
<1> QED BY <1>1, <1>2 DEF LogInv

(* A process that a step leaves alone, or that it takes out of its work. *)
Rests(q) ==
  /\ pc'[q] = pc[q] /\ job'[q] = job[q] /\ text'[q] = text[q]
Leaves(q) ==
  /\ pc'[q] \notin {"append", "joined", "write", "rename"}
  /\ text'[q] \in {text[q], NoLines}

LEMMA QuietStep ==
  ASSUME RegistryInv, PcInv', UNCHANGED <<log, size, ragged, tmp, appended>>, DOMAIN text' = Process,
         \A q \in Process : Rests(q) \/ Leaves(q)
  PROVE  RegistryInv'
<1>1. LogInv'
  BY DEF RegistryInv, LogInv
<1>2. ASSUME NEW q \in Process PROVE WorkInv(q)'
  BY <1>2, NoLinesIsLog DEF RegistryInv, WorkInv, Rests, Leaves
<1> QED BY <1>1, <1>2 DEF RegistryInv

(* While p is in the lock nobody else is at work. *)
LEMMA OthersRest ==
  ASSUME RegistryInv, OneWriter, NEW p \in Process, Inside(p), NEW q \in Process, q # p,
         Rests(q), IsLog(text[q])
  PROVE  WorkInv(q)'
<1>1. ~Inside(q)
  BY DEF OneWriter
<1> QED BY <1>1 DEF WorkInv, Rests, Inside

LEMMA AppendKeepsInv ==
  ASSUME RegistryInv, OneWriter, PcInv', NEW p \in Process,
         AppendLine(p) \/ AppendPart(p) \/ AppendRest(p)
  PROVE  RegistryInv'
<1>1. Inside(p) /\ job[p] \in Job /\ job[p].op = "append" /\ job[p].event \in Event
  BY JobFields DEF AppendLine, AppendPart, AppendRest, Appends, Inside, RegistryInv,
                   PcInv, WorkInv
<1>2. /\ text' = text /\ job' = job /\ tmp' = tmp
      /\ \E l \in {"append", "joined", "unlock"} : pc' = [pc EXCEPT ![p] = l]
  BY DEF AppendLine, AppendPart, AppendRest, Returned, Goto
<1>3. \A q \in Process : q # p => Rests(q)
  BY <1>2 DEF Rests, RegistryInv, PcInv
<1>4. \A q \in Process : IsLog(text[q])
  BY DEF RegistryInv, WorkInv
<1>5. \A q \in Process : q # p => WorkInv(q)'
  BY <1>1, <1>3, <1>4, OthersRest
<1>6. LogInv' /\ WorkInv(p)'
  <2>1. CASE AppendLine(p)
    <3>1. PICK t \in Event \cup {Corrupt} : WriteBytes(t)
      BY <1>1, <2>1 DEF AppendLine
    <3>2. ragged' = FALSE /\ pc'[p] = "unlock"
          /\ appended' = appended \cup {[pos |-> size', event |-> job[p].event]}
      BY <2>1 DEF AppendLine, Returned, Goto, RegistryInv, PcInv
    <3>3. /\ IsLog(log') /\ size' \in Nat /\ DOMAIN log' \subseteq 1 .. size'
          /\ \A n \in DOMAIN log' : n # size' => n \in DOMAIN log /\ log'[n] = log[n]
          /\ log'[size'].hashes = {}
      BY <3>1, BytesWritten, LineOfTyped DEF RegistryInv
    <3>4. appended' \in SUBSET Entry
      BY <1>1, <3>2, <3>3 DEF RegistryInv, LogInv, Entry
    <3>5. LogInv'
      BY <1>2, <3>2, <3>3, <3>4 DEF RegistryInv, LogInv
    <3> QED BY <1>2, <1>4, <3>2, <3>5 DEF WorkInv
  <2>2. CASE AppendPart(p)
    <3>1. PICK t \in Event \cup {Corrupt} : WriteBytes(t)
      BY <1>1, <2>2 DEF AppendPart
    <3>2. ragged' = TRUE /\ appended' = appended /\ pc'[p] = IF ragged THEN "joined" ELSE "append"
      BY <2>2 DEF AppendPart, Goto, RegistryInv, PcInv
    <3>3. /\ IsLog(log') /\ size' \in Nat /\ DOMAIN log' \subseteq 1 .. size'
          /\ \A n \in DOMAIN log' : n # size' => n \in DOMAIN log /\ log'[n] = log[n]
          /\ log'[size'].hashes = {} /\ size' \in DOMAIN log'
          /\ log'[size'].text = IF ragged THEN Corrupt ELSE t
      BY <3>1, BytesWritten, LineOfTyped DEF RegistryInv
    <3>4. LogInv'
      BY <1>2, <3>2, <3>3 DEF RegistryInv, LogInv
    <3> QED BY <1>1, <1>2, <1>4, <3>2, <3>3, <3>4 DEF WorkInv
  <2>3. CASE AppendRest(p)
    <3>1. ragged' = FALSE /\ pc'[p] = "unlock" /\ size' = size
          /\ appended' = appended \cup {[pos |-> size, event |-> job[p].event]}
      BY <2>3 DEF AppendRest, Returned, Goto, RegistryInv, PcInv
    <3>2. size \in DOMAIN log
      BY <2>3 DEF AppendRest, RegistryInv, LogInv, WorkInv
    <3>3. LineOf(job[p].event) \in Line /\ LineOf(job[p].event).hashes = {}
      BY <1>1, LineOfTyped
    <3>4. /\ IsLog(log') /\ DOMAIN log' = DOMAIN log
          /\ \A n \in DOMAIN log' : log'[n].text # Summary => log'[n].hashes = {}
      <4>1. CASE log' = log
        BY <4>1 DEF RegistryInv, LogInv
      <4>2. CASE log' = [log EXCEPT ![size] = LineOf(job[p].event)]
        BY <4>2, <3>2, <3>3 DEF RegistryInv, LogInv, IsLog
      <4> QED BY <2>3, <4>1, <4>2 DEF AppendRest
    <3>5. appended' \in SUBSET Entry
      BY <1>1, <3>1 DEF RegistryInv, LogInv, Entry
    <3>6. LogInv'
      BY <1>2, <3>1, <3>4, <3>5 DEF RegistryInv, LogInv
    <3> QED BY <1>2, <1>4, <3>1, <3>6 DEF WorkInv
  <2> QED BY <2>1, <2>2, <2>3
<1> QED BY <1>5, <1>6 DEF RegistryInv

LEMMA CompactKeepsInv ==
  ASSUME RegistryInv, OneWriter, PcInv', NEW p \in Process,
         ReadLog(p) \/ WriteTmp(p) \/ RenameTmp(p)
  PROVE  RegistryInv'
<1>1. Inside(p) /\ job[p] \in Job /\ job[p].op = "compact" /\ job[p].now \in Instants
  BY JobFields DEF ReadLog, WriteTmp, RenameTmp, Inside, RegistryInv, PcInv, WorkInv
<1>2. \A q \in Process : q # p => Rests(q)
  BY DEF ReadLog, WriteTmp, RenameTmp, Goto, Rests, RegistryInv, PcInv, LogInv
<1>3. \A q \in Process : IsLog(text[q])
  BY DEF RegistryInv, WorkInv
<1>4. \A q \in Process : q # p => WorkInv(q)'
  BY <1>1, <1>2, <1>3, OthersRest
<1>5. size + 1 \in Nat /\ size + 1 \notin DOMAIN log
  BY DEF RegistryInv, LogInv
<1>6. PICK at \in Instants, n \in Nat : at = job[p].now /\ n = size + 1
  BY <1>1, <1>5
<1>7. IsLog(log) /\ DOMAIN log \subseteq 1 .. size /\ size \in Nat /\ n \notin DOMAIN log
  BY <1>5, <1>6 DEF RegistryInv, LogInv
<1> DEFINE C == Compacted(log, at, n)
<1>8. /\ IsLog(C)
      /\ DOMAIN C = (DOMAIN log \ Removed(log, at)) \cup {n}
      /\ C[n].text = Summary
      /\ \A m \in DOMAIN log \ Removed(log, at) : C[m] = log[m]
  <2>1. IsLog(log) /\ n \notin DOMAIN log
    BY <1>7
  <2>2. IsCompaction(C, log, at, n)
    BY <2>1, CompactedLog
  <2> QED BY <2>2 DEF IsCompaction
<1>9. DOMAIN C \subseteq 1 .. n
      /\ \A m \in DOMAIN C : C[m].text # Summary => C[m].hashes = {}
  BY <1>6, <1>7, <1>8 DEF RegistryInv, LogInv
<1> HIDE DEF C
<1>10. LogInv' /\ WorkInv(p)'
  <2>1. CASE ReadLog(p)
    <3>1. LogInv'
      BY <2>1 DEF ReadLog, fileVars, RegistryInv, LogInv
    <3>2. CASE pc' = [pc EXCEPT ![p] = "write"]
               /\ text' = [text EXCEPT ![p] = log] /\ Plannable(log)
      BY <1>1, <2>1, <3>2 DEF ReadLog, fileVars, RegistryInv, LogInv, PcInv, WorkInv,
                              Plannable, Readable
    <3>3. CASE pc' = [pc EXCEPT ![p] = "unlock"] /\ text' = text
      BY <1>3, <3>1, <3>3 DEF RegistryInv, PcInv, WorkInv
    <3> QED BY <2>1, <3>1, <3>2, <3>3 DEF ReadLog, Goto
  <2>2. CASE WriteTmp(p)
    <3>1. text[p] = log /\ Plannable(log)
      BY <2>2 DEF WriteTmp, RegistryInv, WorkInv
    <3>2. tmp' = C
      BY <1>6, <2>2, <3>1 DEF WriteTmp, C
    <3>3. LogInv'
      BY <1>8, <2>2, <3>2 DEF WriteTmp, RegistryInv, LogInv
    <3>4. pc'[p] = "rename" /\ UNCHANGED <<log, size, job, text>>
      BY <2>2 DEF WriteTmp, Goto, RegistryInv, PcInv
    <3> QED BY <1>1, <1>3, <1>6, <3>1, <3>2, <3>3, <3>4 DEF WorkInv, C, Plannable, Readable
  <2>3. CASE RenameTmp(p)
    <3>1. log' = C
      BY <1>6, <2>3 DEF C, RenameTmp, RegistryInv, WorkInv
    <3>2. /\ size' = size + 1 /\ ragged' = FALSE /\ tmp' = NoFile /\ text' = text
          /\ appended' = appended
          /\ pc'[p] = "unlock"
      BY <2>3 DEF RenameTmp, Goto, RegistryInv, PcInv
    <3>3. LogInv'
      BY <1>6, <1>8, <1>9, <3>1, <3>2 DEF RegistryInv, LogInv
    <3> QED BY <1>3, <3>2, <3>3 DEF WorkInv
  <2> QED BY <2>1, <2>2, <2>3
<1> QED BY <1>4, <1>10 DEF RegistryInv

LEMMA RegistryStep ==
  RegistryInv /\ OneWriter /\ PcInv' /\ [Next]_vars => RegistryInv'
<1> SUFFICES ASSUME RegistryInv, OneWriter, PcInv', [Next]_vars PROVE RegistryInv'
  OBVIOUS
<1> USE DEF Goto
<1>1. ASSUME NEW p \in Process, Start(p) PROVE RegistryInv'
  <2>1. PICK j \in Job : Call(p, j)
    BY <1>1, StartCalls
  <2>2. \A q \in Process : Rests(q) \/ Leaves(q)
    BY <2>1 DEF Call, Rests, Leaves, RegistryInv, PcInv
  <2> QED BY <2>1, <2>2, QuietStep DEF Call, fileVars, RegistryInv, LogInv
<1>2. ASSUME NEW p \in Process, LockStep(p) PROVE RegistryInv'
  <2>1. \A q \in Process : Rests(q) \/ Leaves(q)
    BY <1>2 DEF LockStep, MkdirMakes, MkdirFinds, Wait, GiveUp, Forget, Rests, Leaves,
                RegistryInv, PcInv, LogInv
  <2>2. UNCHANGED <<log, size, ragged, tmp, appended>> /\ DOMAIN text' = Process
    BY <1>2 DEF LockStep, MkdirMakes, MkdirFinds, Wait, GiveUp, Forget, fileVars,
                RegistryInv, LogInv
  <2> QED BY <2>1, <2>2, QuietStep
<1>3. ASSUME NEW p \in Process, RefuseLink(p) PROVE RegistryInv'
  <2>1. \A q \in Process : Rests(q) \/ Leaves(q)
    BY <1>3 DEF RefuseLink, Rests, Leaves, RegistryInv, PcInv
  <2> QED BY <1>3, <2>1, QuietStep DEF RefuseLink, fileVars, RegistryInv, LogInv
<1>4. ASSUME NEW p \in Process, RmdirLock(p) PROVE RegistryInv'
  <2>1. \A q \in Process : Rests(q) \/ Leaves(q)
    BY <1>4 DEF RmdirLock, Forget, Rests, Leaves, RegistryInv, PcInv, LogInv
  <2> QED BY <1>4, <2>1, QuietStep DEF RmdirLock, Forget, RegistryInv, LogInv
<1>5. ASSUME NEW p \in Process, Fault(p) \/ Die(p) PROVE RegistryInv'
  <2>1. \A q \in Process : Rests(q) \/ Leaves(q)
    BY <1>5 DEF Fault, Die, Forget, Rests, Leaves, RegistryInv, PcInv, LogInv
  <2>2. UNCHANGED <<log, size, ragged, appended>> /\ DOMAIN text' = Process
    BY <1>5 DEF Fault, Die, Forget, RegistryInv, LogInv
  <2>3. CASE tmp' = tmp
    BY <2>1, <2>2, <2>3, QuietStep
  <2>4. CASE tmp' # tmp
    <3>1. Inside(p) /\ tmp' \in {NoLines, NoFile}
      BY <1>5, <2>4 DEF Fault, Die, Inside
    <3>2. LogInv'
      BY <2>2, <3>1, NoLinesIsLog DEF RegistryInv, LogInv
    <3>3. Leaves(p)
      BY <1>5 DEF Fault, Die, Forget, Leaves, RegistryInv, PcInv, LogInv
    <3>4. ASSUME NEW q \in Process, q # p PROVE WorkInv(q)'
      <4>1. Rests(q)
        BY <1>5, <3>4 DEF Fault, Die, Forget, Rests, RegistryInv, PcInv, LogInv
      <4> QED BY <3>1, <3>4, <4>1, OthersRest DEF RegistryInv, WorkInv
    <3>5. WorkInv(p)'
      BY <3>3, NoLinesIsLog DEF Leaves, RegistryInv, WorkInv
    <3> QED BY <3>2, <3>4, <3>5 DEF RegistryInv
  <2> QED BY <2>3, <2>4
<1>6. ASSUME OperatorRemoves \/ UNCHANGED vars PROVE RegistryInv'
  <2>1. \A q \in Process : Rests(q)
    BY <1>6 DEF OperatorRemoves, vars, Rests
  <2> QED BY <1>6, <2>1, QuietStep DEF OperatorRemoves, vars, fileVars, RegistryInv, LogInv
<1>7. ASSUME NEW p \in Process, Works(p) PROVE RegistryInv'
  BY <1>3, <1>5, <1>7, AppendKeepsInv, CompactKeepsInv DEF Works
<1> QED BY <1>1, <1>2, <1>4, <1>5, <1>6, <1>7, NextCases

LEMMA RegistryInvariant == Spec => []RegistryInv
<1>1. Init /\ PcInv => RegistryInv
  <2> SUFFICES ASSUME Init, PcInv PROVE RegistryInv
    OBVIOUS
  <2>1. DOMAIN NoLines = {}
    BY DEF NoLines
  <2>2. log = NoLines /\ \A p \in Process : pc[p] = "idle" /\ text[p] = NoLines
    BY DEF Init
  <2>3. LogInv
    BY <2>1, <2>2, NoLinesIsLog DEF Init, LogInv
  <2>4. \A p \in Process : WorkInv(p)
    BY <2>2, NoLinesIsLog DEF WorkInv
  <2> QED BY <2>3, <2>4 DEF RegistryInv
<1>2. Init => PcInv
  BY DEF Init, PcInv
<1> QED BY <1>1, <1>2, RegistryStep, WritersExclude, PcInvariant, PTL DEF Spec

(* A compaction replaces the log that it read and no other: no append comes *)
(* between its read and its rename.                                         *)
THEOREM RegistryCompactsCurrentLog == Spec => []CompactsCurrentLog
<1>1. RegistryInv => CompactsCurrentLog
  BY DEF RegistryInv, WorkInv, CompactsCurrentLog
<1> QED BY <1>1, RegistryInvariant, PTL

(* The files and the processes' locals keep their types; in particular no   *)
(* position is used beyond the last one.                                    *)
THEOREM RegistryTypeCorrect == Spec => []TypeOK
<1>1. RegistryInv => TypeOK
  BY DEF RegistryInv, PcInv, LogInv, WorkInv, TypeOK
<1> QED BY <1>1, RegistryInvariant, PTL

-----------------------------------------------------------------------------
(* The steps that change the log, and what they make of it. *)
Written(p) == AppendLine(p) \/ AppendPart(p) \/ AppendRest(p)

LEMMA LogMoves ==
  ASSUME RegistryInv, [Next]_vars
  PROVE  \/ UNCHANGED <<log, size, ragged, appended>>
         \/ \E p \in Process : Written(p)
         \/ \E p \in Process : RenameTmp(p)
<1>1. ASSUME NEW p \in Process, Start(p) PROVE UNCHANGED <<log, size, ragged, appended>>
  BY <1>1, StartCalls DEF Call, fileVars
<1>2. ASSUME NEW p \in Process, LockStep(p)
      PROVE  UNCHANGED <<log, size, ragged, appended>>
  BY <1>2 DEF LockStep, MkdirMakes, MkdirFinds, Wait, GiveUp, Forget, fileVars
<1>3. ASSUME NEW p \in Process, Works(p)
      PROVE  UNCHANGED <<log, size, ragged, appended>> \/ Written(p) \/ RenameTmp(p)
  BY <1>3 DEF Works, Written, RefuseLink, ReadLog, WriteTmp, Fault, fileVars
<1>4. ASSUME NEW p \in Process, RmdirLock(p) \/ Die(p)
      PROVE  UNCHANGED <<log, size, ragged, appended>>
  BY <1>4 DEF RmdirLock, Die, Forget
<1>5. ASSUME OperatorRemoves \/ UNCHANGED vars
      PROVE  UNCHANGED <<log, size, ragged, appended>>
  BY <1>5 DEF OperatorRemoves, vars, fileVars
<1> QED BY <1>1, <1>2, <1>3, <1>4, <1>5, NextCases

(* A write touches the line it begins, or the unfinished one. *)
LEMMA WrittenLog ==
  ASSUME RegistryInv, NEW p \in Process, Written(p)
  PROVE  /\ IsLog(log') /\ size' \in Nat
         /\ DOMAIN log' = DOMAIN log \cup {size'}
         /\ log'[size'].hashes = {}
         /\ \A n \in DOMAIN log' : n # size' => n \in DOMAIN log /\ log'[n] = log[n]
         /\ IF ragged THEN size' = size /\ size \in DOMAIN log
                      ELSE size' = size + 1 /\ size' \notin DOMAIN log
         /\ IF ragged'
            THEN appended' = appended
            ELSE /\ appended' = appended \cup {[pos |-> size', event |-> job[p].event]}
                 /\ log'[size'].text \in {job[p].event, Corrupt}
<1>1. job[p].event \in Event
  BY JobFields DEF Written, AppendLine, AppendPart, AppendRest, Appends, RegistryInv,
                   PcInv, WorkInv
<1>2. ASSUME NEW t \in Event \cup {Corrupt}, WriteBytes(t)
      PROVE  /\ IsLog(log') /\ size' \in Nat
             /\ DOMAIN log' = DOMAIN log \cup {size'}
             /\ log'[size'].hashes = {} /\ log'[size'].text \in {t, Corrupt}
             /\ \A n \in DOMAIN log' : n # size' => n \in DOMAIN log /\ log'[n] = log[n]
             /\ IF ragged THEN size' = size /\ size \in DOMAIN log
                          ELSE size' = size + 1 /\ size' \notin DOMAIN log
  BY <1>2, BytesWritten, LineOfTyped DEF RegistryInv
<1>3. CASE AppendLine(p)
  BY <1>1, <1>2, <1>3 DEF AppendLine, Returned
<1>4. CASE AppendPart(p)
  BY <1>1, <1>2, <1>4 DEF AppendPart
<1>5. CASE AppendRest(p)
  <2>1. /\ ragged /\ ragged' = FALSE /\ size' = size /\ size \in DOMAIN log
        /\ appended' = appended \cup {[pos |-> size, event |-> job[p].event]}
    BY <1>5 DEF AppendRest, Returned, RegistryInv, LogInv, WorkInv
  <2>2. CASE log' = log /\ log[size].text = Corrupt
    BY <2>1, <2>2 DEF RegistryInv, LogInv
  <2>3. CASE log' = [log EXCEPT ![size] = LineOf(job[p].event)]
    <3>1. /\ LineOf(job[p].event) \in Line /\ LineOf(job[p].event).hashes = {}
          /\ LineOf(job[p].event).text = job[p].event
      BY <1>1, LineOfTyped
    <3> QED BY <2>1, <2>3, <3>1 DEF RegistryInv, LogInv, IsLog
  <2> QED BY <1>5, <2>2, <2>3 DEF AppendRest, RegistryInv, WorkInv
<1> QED BY <1>3, <1>4, <1>5 DEF Written

(* A rename puts a summary behind the lines it keeps, which hashes the ones *)
(* it removes: events, and so no summaries.                                 *)
LEMMA RenamedLog ==
  ASSUME RegistryInv, NEW p \in Process, RenameTmp(p)
  PROVE  \E at \in Instants, n \in Nat :
           /\ n = size + 1 /\ size' = n /\ n \notin DOMAIN log
           /\ DOMAIN log' = (DOMAIN log \ Removed(log, at)) \cup {n}
           /\ log'[n].text = Summary
           /\ log'[n].hashes = Hashes(log, Removed(log, at))
           /\ \A m \in DOMAIN log \ Removed(log, at) : log'[m] = log[m]
           /\ \A m \in Removed(log, at) :
                /\ m \in DOMAIN log /\ log[m].text \in Event
                /\ ClassOf[log[m].text] # Terminal /\ log[m].hashes = {}
           /\ Readable(log) /\ ragged' = FALSE /\ appended' = appended
<1>1. job[p].op = "compact" /\ Plannable(log) /\ tmp = Compacted(log, job[p].now, size + 1)
  BY DEF RenameTmp, RegistryInv, WorkInv
<1>2. job[p].now \in Instants
  BY <1>1, JobFields DEF RenameTmp, RegistryInv, PcInv
<1>3. /\ IsLog(log) /\ DOMAIN log \subseteq 1 .. size /\ size \in Nat
      /\ \A n \in DOMAIN log : log[n].text # Summary => log[n].hashes = {}
  BY DEF RegistryInv, LogInv
<1>4. PICK at \in Instants, n \in Nat : at = job[p].now /\ n = size + 1
  <2>1. size + 1 \in Nat
    BY <1>3
  <2> QED BY <1>2, <2>1
<1>5. n \notin DOMAIN log
  BY <1>3, <1>4
<1>6. log' = Compacted(log, at, n) /\ size' = n /\ ragged' = FALSE /\ appended' = appended
  BY <1>1, <1>4 DEF RenameTmp
<1>7. IsCompaction(Compacted(log, at, n), log, at, n)
  <2>1. IsLog(log)
    BY <1>3
  <2> QED BY <2>1, <1>5, CompactedLog
<1>8. \A m \in Removed(log, at) :
         /\ m \in DOMAIN log /\ log[m].text \in Event
         /\ ClassOf[log[m].text] # Terminal /\ log[m].hashes = {}
  BY <1>3 DEF Removed, Outlived
<1> QED BY <1>1, <1>4, <1>5, <1>6, <1>7, <1>8 DEF Plannable, IsCompaction

(* Only unfinished lines and lines past their TTL are ever touched, and the *)
(* latter leave a hash: nothing else is rewritten, reordered or lost.       *)
THEOREM RegistryAppendOnly == Spec => AppendOnly
<1> DEFINE Kept ==
      \A n \in DOMAIN log :
        (n = size => ~ragged) =>
          \/ n \in DOMAIN log' /\ log'[n] = log[n]
          \/ /\ ~Outcome(log[n])
             /\ [pos |-> n, event |-> log[n].text] \in Hashed(log')
<1>1. ASSUME RegistryInv, [Next]_vars PROVE Kept
  <2>1. CASE UNCHANGED <<log, size, ragged, appended>>
    BY <2>1
  <2>2. ASSUME NEW p \in Process, Written(p) PROVE Kept
    BY <2>2, <1>1, WrittenLog
  <2>3. ASSUME NEW p \in Process, RenameTmp(p) PROVE Kept
    <3>1. PICK at \in Instants, n \in Nat :
            /\ DOMAIN log' = (DOMAIN log \ Removed(log, at)) \cup {n}
            /\ log'[n].hashes = Hashes(log, Removed(log, at))
            /\ \A m \in DOMAIN log \ Removed(log, at) : log'[m] = log[m]
            /\ \A m \in Removed(log, at) :
                 log[m].text \in Event /\ ClassOf[log[m].text] # Terminal
      BY <1>1, <2>3, RenamedLog
    <3>2. ASSUME NEW m \in Removed(log, at)
          PROVE  /\ ~Outcome(log[m])
                 /\ [pos |-> m, event |-> log[m].text] \in Hashed(log')
      BY <3>1, <3>2 DEF Outcome, Hashes, Hashed
    <3> QED BY <3>1, <3>2
  <2> QED BY <1>1, <2>1, <2>2, <2>3, LogMoves
<1>2. RegistryInv /\ [Next]_vars => [Kept]_vars
  BY <1>1
<1> QED BY <1>2, RegistryInvariant, PTL DEF Spec, AppendOnly

-----------------------------------------------------------------------------
(* Where position n is hashed. *)
By(n) == { q \in DOMAIN log : \E h \in log[q].hashes : h.pos = n }

AccountInv ==
  /\ \A n \in 1 .. size : IF n \in DOMAIN log THEN By(n) = {} ELSE \E q \in By(n) : By(n) = {q}
  /\ \A q \in DOMAIN log : \A h \in log[q].hashes : h.pos \in 1 .. size

LEMMA AccountStep ==
  RegistryInv /\ AccountInv /\ [Next]_vars => AccountInv'
<1> SUFFICES ASSUME RegistryInv, AccountInv, [Next]_vars PROVE AccountInv'
  OBVIOUS
<1>0. /\ DOMAIN log \subseteq 1 .. size /\ size \in Nat /\ ragged \in BOOLEAN
      /\ \A n \in DOMAIN log : log[n].text # Summary => log[n].hashes = {}
      /\ ragged => log[size].hashes = {}
  BY DEF RegistryInv, LogInv
<1>1. CASE UNCHANGED <<log, size, ragged, appended>>
  BY <1>1 DEF AccountInv, By
<1>2. ASSUME NEW p \in Process, Written(p) PROVE AccountInv'
  <2>1. /\ DOMAIN log' = DOMAIN log \cup {size'}
        /\ log'[size'].hashes = {}
        /\ \A n \in DOMAIN log' : n # size' => n \in DOMAIN log /\ log'[n] = log[n]
        /\ IF ragged THEN size' = size /\ size \in DOMAIN log
                     ELSE size' = size + 1 /\ size' \notin DOMAIN log
    BY <1>2, WrittenLog
  <2>2. \A q \in DOMAIN log' : log'[q].hashes # {} => q \in DOMAIN log /\ log'[q] = log[q]
    BY <2>1
  <2>3. \A q \in DOMAIN log : log[q].hashes # {} => q \in DOMAIN log' /\ log'[q] = log[q]
    BY <1>0, <2>1
  <2>4. \A n : By(n)' = By(n)
    BY <2>2, <2>3 DEF By
  <2>5. \A n \in 1 .. size' : n \in 1 .. size \/ n = size'
    BY <1>0, <2>1
  <2>6. \A q \in DOMAIN log' : \A h \in log'[q].hashes : h.pos \in 1 .. size'
    BY <1>0, <2>1, <2>2 DEF AccountInv
  <2>7. ASSUME NEW n \in 1 .. size'
        PROVE  IF n \in DOMAIN log' THEN By(n)' = {} ELSE \E q \in By(n)' : By(n)' = {q}
    <3>1. CASE n = size' /\ ~ragged
      <4>1. By(n) = {}
        BY <1>0, <2>1, <3>1 DEF AccountInv, By
      <4> QED BY <2>1, <2>4, <3>1, <4>1
    <3>2. CASE n # size' \/ ragged
      <4>1. n \in 1 .. size /\ (n \in DOMAIN log' <=> n \in DOMAIN log)
        BY <2>1, <2>5, <3>2
      <4> QED BY <2>4, <4>1 DEF AccountInv
    <3> QED BY <3>1, <3>2
  <2> QED BY <2>6, <2>7 DEF AccountInv, By
<1>3. ASSUME NEW p \in Process, RenameTmp(p) PROVE AccountInv'
  <2>1. PICK at \in Instants, s \in Nat :
          /\ s = size + 1 /\ size' = s /\ s \notin DOMAIN log
          /\ DOMAIN log' = (DOMAIN log \ Removed(log, at)) \cup {s}
          /\ log'[s].hashes = Hashes(log, Removed(log, at))
          /\ \A m \in DOMAIN log \ Removed(log, at) : log'[m] = log[m]
          /\ \A m \in Removed(log, at) : m \in DOMAIN log /\ log[m].hashes = {}
    BY <1>3, RenamedLog
  <2>2. \A n : (\E h \in log'[s].hashes : h.pos = n) <=> n \in Removed(log, at)
    <3>1. \A n \in Removed(log, at) :
            /\ [pos |-> n, event |-> log[n].text] \in Hashes(log, Removed(log, at))
            /\ [pos |-> n, event |-> log[n].text].pos = n
      BY DEF Hashes
    <3>2. \A h \in Hashes(log, Removed(log, at)) : h.pos \in Removed(log, at)
      BY DEF Hashes
    <3>3. log'[s].hashes = Hashes(log, Removed(log, at))
      BY <2>1
    <3>4. ASSUME NEW n \in Removed(log, at) PROVE \E h \in log'[s].hashes : h.pos = n
      BY <3>1, <3>3
    <3>5. ASSUME NEW h \in log'[s].hashes PROVE h.pos \in Removed(log, at)
      BY <3>2, <3>3
    <3> QED BY <3>4, <3>5
  <2>3. \A n : By(n)' = By(n) \cup (IF n \in Removed(log, at) THEN {s} ELSE {})
    BY <2>1, <2>2 DEF By
  <2>4. \A q \in DOMAIN log' : \A h \in log'[q].hashes : h.pos \in 1 .. size'
    BY <1>0, <2>1, <2>2, SMTT(30) DEF AccountInv
  <2>5. ASSUME NEW n \in 1 .. size'
        PROVE  IF n \in DOMAIN log' THEN By(n)' = {} ELSE \E q \in By(n)' : By(n)' = {q}
    <3>1. CASE n = s
      <4>1. By(n) = {} /\ n \notin Removed(log, at)
        BY <1>0, <2>1, <3>1 DEF AccountInv, By
      <4> QED BY <2>1, <2>3, <3>1, <4>1
    <3>2. CASE n # s
      <4>1. n \in 1 .. size
        BY <1>0, <2>1, <3>2
      <4>2. CASE n \in Removed(log, at)
        <5>1. n \in DOMAIN log /\ By(n) = {}
          BY <2>1, <4>1, <4>2 DEF AccountInv
        <5> QED BY <2>1, <2>3, <3>2, <4>2, <5>1
      <4>3. CASE n \notin Removed(log, at)
        <5>1. By(n)' = By(n) /\ (n \in DOMAIN log' <=> n \in DOMAIN log)
          BY <2>1, <2>3, <3>2, <4>3
        <5> QED BY <4>1, <5>1 DEF AccountInv
      <4> QED BY <4>2, <4>3
    <3> QED BY <3>1, <3>2
  <2> QED BY <2>4, <2>5 DEF AccountInv, By
<1> QED BY <1>1, <1>2, <1>3, LogMoves

(* Every position that was ever written is still a line of the file, or one *)
(* summary and no other hashes it.                                          *)
THEOREM RegistryAccountsForLines == Spec => []EveryLineAccounted
<1>1. Init => AccountInv
  BY DEF Init, AccountInv, NoLines
<1>2. AccountInv => EveryLineAccounted
  BY DEF AccountInv, EveryLineAccounted, By
<1> QED BY <1>1, <1>2, AccountStep, RegistryInvariant, PTL DEF Spec

-----------------------------------------------------------------------------
(* The finished lines account for every append that returned, as long as    *)
(* all of them can be read.                                                 *)
Done == { n \in DOMAIN log : n = size => ~ragged }
DoneEvents == { n \in Done : log[n].text \in Event }

AckInv ==
  (\A n \in Done : log[n].text # Corrupt)
    => appended \subseteq Hashes(log, DoneEvents) \cup Hashed(log)

LEMMA AckStep ==
  RegistryInv /\ AckInv /\ [Next]_vars => AckInv'
<1> SUFFICES ASSUME RegistryInv, AckInv, [Next]_vars,
                    \A n \in Done' : log'[n].text # Corrupt
             PROVE  appended' \subseteq (Hashes(log, DoneEvents) \cup Hashed(log))'
  BY DEF AckInv
<1>0. /\ DOMAIN log \subseteq 1 .. size /\ size \in Nat /\ ragged \in BOOLEAN
      /\ ragged => log[size].hashes = {}
  BY DEF RegistryInv, LogInv
<1>1. CASE UNCHANGED <<log, size, ragged, appended>>
  BY <1>1 DEF AckInv, Done, DoneEvents, Hashes, Hashed
<1>2. ASSUME NEW p \in Process, Written(p)
      PROVE  appended' \subseteq (Hashes(log, DoneEvents) \cup Hashed(log))'
  <2>1. /\ DOMAIN log' = DOMAIN log \cup {size'}
        /\ log'[size'].hashes = {}
        /\ \A n \in DOMAIN log' : n # size' => n \in DOMAIN log /\ log'[n] = log[n]
        /\ IF ragged THEN size' = size /\ size \in DOMAIN log
                     ELSE size' = size + 1 /\ size' \notin DOMAIN log
        /\ IF ragged'
            THEN appended' = appended
            ELSE /\ appended' = appended \cup {[pos |-> size', event |-> job[p].event]}
                 /\ log'[size'].text \in {job[p].event, Corrupt}
    BY <1>2, WrittenLog
  <2>2. \A n \in Done : n \in Done' /\ log'[n] = log[n]
    BY <1>0, <2>1 DEF Done
  <2>3. appended \subseteq Hashes(log, DoneEvents) \cup Hashed(log)
    BY <2>2 DEF AckInv
  <2>4. Hashed(log) \subseteq Hashed(log')
    BY <1>0, <2>1 DEF Hashed
  <2>5. Hashes(log, DoneEvents) \subseteq Hashes(log', DoneEvents')
    BY <2>2 DEF Hashes, DoneEvents
  <2>6. CASE ragged'
    BY <2>1, <2>3, <2>4, <2>5, <2>6
  <2>7. CASE ~ragged'
    <3>1. job[p].event \in Event
      BY <1>2, JobFields DEF Written, AppendLine, AppendPart, AppendRest, Appends,
                             RegistryInv, PcInv, WorkInv
    <3>2. size' \in Done' /\ log'[size'].text = job[p].event
      BY <2>1, <2>7 DEF Done
    <3>3. [pos |-> size', event |-> job[p].event] \in Hashes(log', DoneEvents')
      BY <3>1, <3>2 DEF Hashes, DoneEvents
    <3> QED BY <2>1, <2>3, <2>4, <2>5, <2>7, <3>3
  <2> QED BY <2>6, <2>7
<1>3. ASSUME NEW p \in Process, RenameTmp(p)
      PROVE  appended' \subseteq (Hashes(log, DoneEvents) \cup Hashed(log))'
  <2>1. PICK at \in Instants, s \in Nat :
          /\ s = size + 1 /\ size' = s /\ s \notin DOMAIN log
          /\ DOMAIN log' = (DOMAIN log \ Removed(log, at)) \cup {s}
          /\ log'[s].hashes = Hashes(log, Removed(log, at))
          /\ \A m \in DOMAIN log \ Removed(log, at) : log'[m] = log[m]
          /\ \A m \in Removed(log, at) : m \in DOMAIN log /\ log[m].hashes = {}
          /\ Readable(log) /\ ragged' = FALSE /\ appended' = appended
    BY <1>3, RenamedLog
  <2>2. appended \subseteq Hashes(log, DoneEvents) \cup Hashed(log)
    BY <2>1 DEF AckInv, Readable, Done
  <2>3. Hashed(log) \subseteq Hashed(log')
    BY <2>1 DEF Hashed
  <2>4. ASSUME NEW n \in DoneEvents
        PROVE  [pos |-> n, event |-> log[n].text] \in Hashes(log', DoneEvents') \cup Hashed(log')
    <3>1. CASE n \in Removed(log, at)
      BY <2>1, <3>1 DEF Hashes, Hashed
    <3>2. CASE n \notin Removed(log, at)
      <4>1. n \in DoneEvents' /\ log'[n].text = log[n].text
        BY <2>1, <3>2 DEF DoneEvents, Done
      <4> QED BY <4>1 DEF Hashes
    <3> QED BY <3>1, <3>2
  <2>5. Hashes(log, DoneEvents) \subseteq Hashes(log', DoneEvents') \cup Hashed(log')
    BY <2>4 DEF Hashes
  <2> QED BY <2>1, <2>2, <2>3, <2>5
<1> QED BY <1>1, <1>2, <1>3, LogMoves

(* Whoever is served the log is served every append that returned ok. *)
THEOREM RegistryReadsAreComplete == Spec => []ReadsAreComplete
<1>1. Init => AckInv
  BY DEF Init, AckInv
<1>2. AckInv => ReadsAreComplete
  BY DEF AckInv, ReadsAreComplete, readRegistryEvents, Readable, Raw, Hashes, Done, DoneEvents
<1> QED BY <1>1, <1>2, AckStep, RegistryInvariant, PTL DEF Spec
=============================================================================
