---------------------------- MODULE EventRegistry ----------------------------
(***************************************************************************)
(* One scope of the event registry: the log file events.jsonl of           *)
(* src/protocol/event-registry/storage.ts, its appends, and the proof-TTL  *)
(* compaction of compact.ts, the only operation that rewrites the log.     *)
(* Processes append and compact under the mkdir lock events.lock; readers  *)
(* and dry runs take no lock and change nothing: state functions.          *)
(*                                                                         *)
(* The log maps positions to lines.  A line gets its position with its     *)
(* first byte and keeps it, so the file is the log's lines in the order of *)
(* positions, and compaction leaves gaps.                                  *)
(*                                                                         *)
(* A write may be torn: the process dies, or the disk fills, after some of *)
(* its bytes.  The file then lacks its last newline, and the next append   *)
(* goes on in the same line.                                               *)
(*                                                                         *)
(* Calls refused before the lock (unsafe scope, invalid or oversized       *)
(* event, bad TTL policy) change nothing and are not steps.                *)
(***************************************************************************)
EXTENDS Naturals

CONSTANTS
  Process,
  Event,                 \* the valid events that callers append
  Class, ClassOf,        \* event_class
  Terminal,              \* the class that never compacts
  TsOf,                  \* ts, in days
  Undated,               \* the events whose ts does not parse as a date
  TtlDays,               \* the TTL of each class
  Instants,              \* the evaluation instants of compactions
  Summary, Corrupt,      \* a line that is a compaction's record; that is none
  NoFile,                \* there is no temporary file
  MaxLines               \* bound on the positions used

ASSUME RegistryAssumption ==
  /\ ClassOf \in [Event -> Class] /\ Terminal \in Class
  /\ TsOf \in [Event -> Nat] /\ TtlDays \in [Class -> Nat]
  /\ Undated \subseteq Event /\ Instants \subseteq Nat
  /\ Summary \notin Event /\ Corrupt \notin Event /\ Summary # Corrupt
  /\ MaxLines \in Nat

VARIABLES
  log,       \* events.jsonl: position -> line
  size,      \* the last position used
  ragged,    \* the file does not end in a newline
  tmp,       \* events.compact.tmp
  dirs, stale,       \* the lock directory, as in RegistryLock
  pc, job,           \* where a process is, the call it makes
  text,      \* the log a compaction has read
  appended   \* history: the appends whose write returned, so that they return ok

fileVars == <<log, size, ragged, tmp, dirs, stale>>
vars == <<fileVars, pc, job, text, appended>>

Entry == [pos : Nat, event : Event]
Line == [text : Event \cup {Summary, Corrupt}, hashes : SUBSET Entry]
IsLog(l) == l \in [DOMAIN l -> Line] /\ DOMAIN l \subseteq Nat

NoLines == [n \in {} |-> 0]
LineOf(t) == [text |-> t, hashes |-> {}]

Job == [op : {"append"}, event : Event] \cup [op : {"compact"}, now : Instants]
NoJob == [op |-> "none"]
EventsLock == "events.lock"

TypeOK ==
  /\ IsLog(log) /\ DOMAIN log \subseteq 1 .. size
  /\ size \in Nat /\ ragged \in BOOLEAN
  /\ tmp = NoFile \/ IsLog(tmp)
  /\ dirs \in SUBSET {EventsLock} /\ stale \in SUBSET {EventsLock}
  /\ pc \in [Process -> {"idle", "trying", "busy", "locked", "append", "joined",
                         "write", "rename", "unlock"}]
  /\ job \in [Process -> Job \cup {NoJob}]
  /\ DOMAIN text = Process /\ \A p \in Process : IsLog(text[p])
  /\ appended \in SUBSET Entry

Init ==
  /\ log = NoLines /\ size = 0 /\ ragged = FALSE /\ tmp = NoFile
  /\ dirs = {} /\ stale = {}
  /\ pc = [p \in Process |-> "idle"]
  /\ job = [p \in Process |-> NoJob]
  /\ text = [p \in Process |-> NoLines]
  /\ appended = {}

Goto(p, l) == pc' = [pc EXCEPT ![p] = l]
Inside(p) == pc[p] \in {"locked", "append", "joined", "write", "rename", "unlock"}

-----------------------------------------------------------------------------
(* What a log says. *)
Readable(l) == \A n \in DOMAIN l : l[n].text # Corrupt

(* readRegistryEvents serves every line or, fail-closed, nothing. *)
readRegistryEvents == IF Readable(log) THEN {log} ELSE {}

(* planCompaction refuses a log it cannot read or cannot date. *)
Plannable(l) == Readable(l) /\ \A n \in DOMAIN l : l[n].text \notin Undated

(* Strictly older than the cutoff, and of a class that compacts. *)
TerminalsToo(e, now) == e \in Event /\ TsOf[e] + TtlDays[ClassOf[e]] < now
Outlived(e, now) ==
  /\ e \in Event
  /\ ClassOf[e] # Terminal
  /\ TsOf[e] + TtlDays[ClassOf[e]] < now

Removed(l, now) == { n \in DOMAIN l : Outlived(l[n].text, now) }

(* The event_id and sha256 of every line of N, in file order. *)
Hashes(l, N) == { [pos |-> n, event |-> l[n].text] : n \in N }

(* The lines kept, byte for byte, and the summary as the last line, n. *)
SummaryFirst(l, now, n) ==
  [m \in (DOMAIN l \ Removed(l, now)) \cup {0} |->
     IF m = 0 THEN [text |-> Summary, hashes |-> Hashes(l, Removed(l, now))] ELSE l[m]]
HashesTheKept(l, now, n) ==
  [m \in (DOMAIN l \ Removed(l, now)) \cup {n} |->
     IF m = n THEN [text |-> Summary, hashes |-> Hashes(l, DOMAIN l \ Removed(l, now))]
     ELSE l[m]]
Compacted(l, now, n) ==
  [m \in (DOMAIN l \ Removed(l, now)) \cup {n} |->
     IF m = n THEN [text |-> Summary, hashes |-> Hashes(l, Removed(l, now))]
     ELSE l[m]]

-----------------------------------------------------------------------------
(* Starting a call. *)
Call(p, j) ==
  /\ pc[p] = "idle"
  /\ size < MaxLines
  /\ job' = [job EXCEPT ![p] = j]
  /\ Goto(p, "trying")
  /\ UNCHANGED <<fileVars, text, appended>>

StartAppend(p) == \E e \in Event : Call(p, [op |-> "append", event |-> e])
StartCompact(p) == \E at \in Instants : Call(p, [op |-> "compact", now |-> at])

(* acquireRegistryLock, as RegistryLock has it. *)
RecursiveMkdir(p) == FALSE
EEXIST(p) == EventsLock \in dirs

MkdirMakes(p) ==
  /\ pc[p] = "trying"
  /\ ~EEXIST(p)
  /\ dirs' = dirs \cup {EventsLock}
  /\ Goto(p, "locked")
  /\ UNCHANGED <<log, size, ragged, tmp, stale, job, text, appended>>

MkdirFinds(p) ==
  /\ pc[p] = "trying"
  /\ EEXIST(p)
  /\ Goto(p, "busy")
  /\ UNCHANGED <<fileVars, job, text, appended>>

Wait(p) ==
  /\ pc[p] = "busy"
  /\ Goto(p, "trying")
  /\ UNCHANGED <<fileVars, job, text, appended>>

Forget(p) ==
  /\ Goto(p, "idle")
  /\ job' = [job EXCEPT ![p] = NoJob]
  /\ text' = [text EXCEPT ![p] = NoLines]

(* lock_unavailable *)
GiveUp(p) ==
  /\ pc[p] = "busy"
  /\ Forget(p)
  /\ UNCHANGED <<fileVars, appended>>

-----------------------------------------------------------------------------
(* appendRegistryEvent under the lock. *)
Appends(p) == pc[p] = "locked" /\ job[p].op = "append"

(* The re-check finds a symbolic link: symlink_refused. *)
RefuseLink(p) ==
  /\ Appends(p)
  /\ Goto(p, "unlock")
  /\ UNCHANGED <<fileVars, job, text, appended>>

(* The first bytes of a write: they begin a line, which then reads t, or go *)
(* on in a ragged one, which then is no event.                              *)
Truncates(t) == size' = size + 1 /\ log' = [n \in {size + 1} |-> LineOf(t)]
WriteBytes(t) ==
  IF ragged
  THEN /\ size' = size
       /\ log' = [log EXCEPT ![size] = LineOf(Corrupt)]
  ELSE /\ size' = size + 1
       /\ log' = [n \in DOMAIN log \cup {size + 1} |->
                    IF n = size + 1 THEN LineOf(t) ELSE log[n]]

Returned(p, n) ==
  /\ appended' = appended \cup {[pos |-> n, event |-> job[p].event]}
  /\ ragged' = FALSE
  /\ Goto(p, "unlock")

(* fsAppend writes the whole line at once: the usual case. *)
AppendLine(p) ==
  /\ Appends(p)
  /\ WriteBytes(job[p].event)
  /\ Returned(p, size')
  /\ UNCHANGED <<tmp, dirs, stale, job, text>>

(* A short write: part of the line, or all of it but the newline. *)
AppendPart(p) ==
  /\ Appends(p)
  /\ \E t \in {job[p].event, Corrupt} : WriteBytes(t)
  /\ ragged' = TRUE
  /\ Goto(p, IF ragged THEN "joined" ELSE "append")
  /\ UNCHANGED <<tmp, dirs, stale, job, text, appended>>

(* fsAppend goes on and completes the line. *)
AppendRest(p) ==
  /\ pc[p] \in {"append", "joined"}
  /\ log' = IF pc[p] = "append"
            THEN [log EXCEPT ![size] = LineOf(job[p].event)] ELSE log
  /\ Returned(p, size)
  /\ UNCHANGED <<size, tmp, dirs, stale, job, text>>

-----------------------------------------------------------------------------
(* compactRegistryEvents under the lock: read, plan, temporary file, rename. *)
ReadLog(p) ==
  /\ pc[p] = "locked" /\ job[p].op = "compact"
  /\ IF Plannable(log) /\ Removed(log, job[p].now) # {}
     THEN /\ text' = [text EXCEPT ![p] = log]
          /\ Goto(p, "write")
     ELSE /\ Goto(p, "unlock")
          /\ UNCHANGED text
  /\ UNCHANGED <<fileVars, job, appended>>

WriteTmp(p) ==
  /\ pc[p] = "write"
  /\ tmp' = Compacted(text[p], job[p].now, size + 1)
  /\ Goto(p, "rename")
  /\ UNCHANGED <<log, size, ragged, dirs, stale, job, text, appended>>

RenameTmp(p) ==
  /\ pc[p] = "rename"
  /\ log' = tmp
  /\ size' = size + 1
  /\ ragged' = FALSE
  /\ tmp' = NoFile
  /\ Goto(p, "unlock")
  /\ UNCHANGED <<dirs, stale, job, text, appended>>

-----------------------------------------------------------------------------
(* A failing fs call throws through finally.  A failed write or rename of   *)
(* the temporary file removes it, if it can.                                *)
Fault(p) ==
  /\ pc[p] \in {"locked", "append", "joined", "write", "rename"}
  /\ Goto(p, "unlock")
  /\ IF pc[p] \in {"write", "rename"} THEN tmp' \in {tmp, NoLines, NoFile}
                                      ELSE UNCHANGED tmp
  /\ UNCHANGED <<log, size, ragged, dirs, stale, job, text, appended>>

RmdirLock(p) ==
  /\ pc[p] = "unlock"
  /\ dirs' = dirs \ {EventsLock}
  /\ Forget(p)
  /\ UNCHANGED <<log, size, ragged, tmp, stale, appended>>

(* The process dies: its lock directory stays, and so does what it wrote. *)
Die(p) ==
  /\ pc[p] # "idle"
  /\ stale' = IF Inside(p) THEN stale \cup {EventsLock} ELSE stale
  /\ IF pc[p] = "write" THEN tmp' \in {tmp, NoLines} ELSE UNCHANGED tmp
  /\ Forget(p)
  /\ UNCHANGED <<log, size, ragged, dirs, appended>>

(* The operator removes the lock of a dead process. *)
OperatorRemoves ==
  /\ EventsLock \in stale
  /\ dirs' = dirs \ {EventsLock}
  /\ stale' = stale \ {EventsLock}
  /\ UNCHANGED <<log, size, ragged, tmp, pc, job, text, appended>>

-----------------------------------------------------------------------------
Start(p) == StartAppend(p) \/ StartCompact(p)
LockStep(p) == MkdirMakes(p) \/ MkdirFinds(p) \/ Wait(p) \/ GiveUp(p)
AppendStep(p) == RefuseLink(p) \/ AppendLine(p) \/ AppendPart(p) \/ AppendRest(p)
CompactStep(p) == ReadLog(p) \/ WriteTmp(p) \/ RenameTmp(p)

Next ==
  \/ \E p \in Process :
       Start(p) \/ LockStep(p) \/ AppendStep(p) \/ CompactStep(p)
         \/ Fault(p) \/ RmdirLock(p) \/ Die(p)
  \/ OperatorRemoves

Spec == Init /\ [][Next]_vars

-----------------------------------------------------------------------------
(* The appends that a log accounts for: raw, or by a hash in a summary. *)
Raw(l) == Hashes(l, { n \in DOMAIN l : l[n].text \in Event })
Hashed(l) == UNION { l[n].hashes : n \in DOMAIN l }

(* Whoever is served the log is served every append that returned ok, raw  *)
(* or by its hash: a log that lost one is refused (storage.ts "refusing to *)
(* serve a partially readable log", compact.ts "a concurrent append can    *)
(* never be silently lost between the read and the atomic rename").        *)
ReadsAreComplete ==
  \A l \in readRegistryEvents : appended \subseteq Raw(l) \cup Hashed(l)

(* A compaction replaces the log that it read, by the plan it made of it.  *)
CompactsCurrentLog ==
  \A p \in Process :
    /\ pc[p] \in {"write", "rename"} => text[p] = log
    /\ pc[p] = "rename" => tmp = Compacted(log, job[p].now, size + 1)

(* Every position ever used is a line of the file or hashed by exactly one *)
(* summary, never both: re-hashing the removed lines replays the log       *)
(* (compact.ts "Replay verification").                                     *)
EveryLineAccounted ==
  \A n \in 1 .. size :
    LET by == { q \in DOMAIN log : \E h \in log[q].hashes : h.pos = n } IN
    IF n \in DOMAIN log THEN by = {} ELSE \E q \in by : by = {q}

(* A finished line only ever leaves the file for a summary's hash, and     *)
(* outcomes (the summaries are some) never do; what is left of a torn      *)
(* write is never touched by a compaction (compact.ts "TERMINAL-class      *)
(* events are never compacted: they are outcomes and the replay anchor").  *)
Outcome(l) == IF l.text \in Event THEN ClassOf[l.text] = Terminal ELSE TRUE

AppendOnly ==
  [][\A n \in DOMAIN log :
       (n = size => ~ragged) =>
         \/ n \in DOMAIN log' /\ log'[n] = log[n]
         \/ /\ ~Outcome(log[n])
            /\ [pos |-> n, event |-> log[n].text] \in Hashed(log')]_vars

(* Appends and compactions, torn writes and left-over temporary files       *)
(* included, use the lock as the registry lock has it.                      *)
PhaseOf(l) ==
  IF l = "idle" THEN "idle"
  ELSE IF l \in {"trying", "busy"} THEN l ELSE "inside"

TheLock == INSTANCE RegistryLock WITH
  LockDir <- {EventsLock}, target <- [p \in Process |-> EventsLock],
  phase <- [p \in Process |-> PhaseOf(pc[p])]

ImplementsRegistryLock == TheLock!Spec

(* storage.ts, of an append that returns ok: "line-atomic against           *)
(* interleaving", "no partial patches, no silent drops".                    *)
AckedIsReadable == appended \subseteq Raw(log) \cup Hashed(log)
=============================================================================
