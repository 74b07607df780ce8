------------------------------ MODULE OdinWatch ------------------------------
(***************************************************************************)
(* odin-watch (src/odin-watch): one process polls the screen of one pane,  *)
(* classifies it by ordered rules and tells ODIN through three files, the  *)
(* first of which, the flag, is all that wakes it.  The pane and the       *)
(* working tree change at any moment, so that a capture and a git call may *)
(* find anything; they may fail, and so may a write; the watcher may be    *)
(* killed and started again, when it has forgotten everything but the      *)
(* files.                                                                  *)
(*                                                                         *)
(* Times are ages (ticks since an event), saturated where the code only    *)
(* compares them with a threshold.                                         *)
(***************************************************************************)
EXTENDS Naturals

CONSTANTS
  Screen,          \* the sets of markers a screen may show
  Path,            \* paths that may be dirty
  WriteScope,      \* those the write scope covers
  Scoped,          \* whether a write scope was given
  Emits,           \* whether the registry emission is on
  Interval, AuditInterval,
  MaxLate,         \* bound: lateness of a poll's end and of a timer
  MaxRefused       \* bound: refused writes counted by the history

Marker == {"approval", "crash", "qa", "dev", "blocker", "working"}

WatchAssumption ==
  /\ Screen \subseteq SUBSET Marker
  /\ WriteScope \subseteq Path
  /\ Scoped \in BOOLEAN /\ Emits \in BOOLEAN
  /\ Interval \in Nat \ {0} /\ AuditInterval \in Nat \ {0}
  /\ MaxLate \in Nat /\ MaxRefused \in Nat

StaleThreshold == Interval * 3
AgeCap == MaxLate + 1 + IF StaleThreshold >= AuditInterval
                        THEN StaleThreshold ELSE AuditInterval
Slack == Interval + 2 * MaxLate
QuietCap == (1 + MaxRefused) * (AuditInterval + Slack) + 1

Verdict == {"UNKNOWN_NEEDS_READ", "WAITING_APPROVAL", "CRASHED", "QA_COMPLETE",
            "DEV_COMPLETE_QA_PENDING", "BLOCKED", "IDLE", "WORKING"}

Never == AgeCap + 1        \* last_mandatory_audit_ts: null
NoScreen == {"none"}       \* prev_hash: null
NoVerdict == "none"        \* last_verdict: null
NoFlag == 2                \* no flag file yet

VARIABLES
  pc,                      \* where the poll loop is
  age, pollAge, auditAge,  \* since startTs, loopStart, the last mandatory audit
  elapsed,                 \* loopStart - startTs
  snap, paths,             \* what the poll captured
  prevHash, lastVerdict,   \* remembered from the last completed poll
  result,                  \* what classify returned
  flag,                    \* the flag file
  finding,                 \* whether a FINDING_OPENED was ever appended
  behind,                  \* how many classifications each wake file is behind
  sameSince,               \* history: since the captured screen last differed
  quiet, refused           \* history: ticks of silence, writes refused in it

clocks == <<age, pollAge, auditAge, elapsed>>
memory == <<prevHash, lastVerdict>>
files == <<flag, behind>>
history == <<sameSince, quiet, refused>>
vars == <<pc, clocks, snap, paths, memory, result, files, finding, history>>

Why == {"none", "APPROVAL_MARKER", "CRASH_MARKER", "COMPLETION_MARKER", "BLOCKER_MARKER",
        "DIRTY_OUT_OF_SCOPE", "STALE_HASH", "ALL_CLEAR", "AMBIGUOUS_STATE",
        "MANDATORY_AUDIT"}
Result == [verdict : Verdict, wake : 0 .. 1, why : Why]
NoResult == [verdict |-> "UNKNOWN_NEEDS_READ", wake |-> 1, why |-> "none"]

TypeOK ==
  /\ pc \in {"capture", "probe", "classify", "flag", "reason", "state", "emit",
             "sleep", "down"}
  /\ age \in 0 .. AgeCap /\ elapsed \in 0 .. AgeCap
  /\ pollAge \in 0 .. Interval + MaxLate
  /\ auditAge \in 0 .. AgeCap \cup {Never}
  /\ snap \in Screen \cup {NoScreen} /\ paths \subseteq Path
  /\ prevHash \in Screen \cup {NoScreen}
  /\ lastVerdict \in Verdict \cup {NoVerdict}
  /\ result \in Result
  /\ flag \in 0 .. NoFlag
  /\ finding \in BOOLEAN
  /\ behind \in [{"flag", "reason", "state"} -> 0 .. 2]
  /\ sameSince \in 0 .. AgeCap
  /\ quiet \in 0 .. QuietCap /\ refused \in 0 .. MaxRefused + 1

Older(a) == IF a >= AgeCap THEN a ELSE a + 1

Init ==
  /\ pc = "capture"
  /\ age = 0 /\ pollAge = 0 /\ auditAge = Never /\ elapsed = 0
  /\ snap = NoScreen /\ paths = {}
  /\ prevHash = NoScreen /\ lastVerdict = NoVerdict
  /\ result = NoResult
  /\ flag = NoFlag
  /\ behind = [f \in {"flag", "reason", "state"} |-> 0]
  /\ finding = FALSE
  /\ sameSince = 0 /\ quiet = 0 /\ refused = 0

-----------------------------------------------------------------------------
(* classify: the rules in their order.  The binary passes no liveness       *)
(* observation, so the rules on those do not apply to it.                   *)
OutOfScope == IF Scoped THEN paths \ WriteScope ELSE {}

AuditElapsed(last) == IF last = Never THEN elapsed ELSE last
AuditDue == AuditElapsed(auditAge) >= AuditInterval

IgnoresHash == FALSE
UnchangedPastStale ==
  prevHash # NoScreen /\ prevHash = snap /\ elapsed > StaleThreshold

Says(verdict, wake, why) == [verdict |-> verdict, wake |-> wake, why |-> why]

(* rules 2 to 5: what the screen says, in order of precedence *)
MarkerVerdict ==
  CASE "approval" \in snap -> Says("WAITING_APPROVAL", 1, "APPROVAL_MARKER")
    [] "approval" \notin snap /\ "crash" \in snap -> Says("CRASHED", 1, "CRASH_MARKER")
    [] snap \cap {"approval", "crash"} = {} /\ "qa" \in snap ->
         Says("QA_COMPLETE", 1, "COMPLETION_MARKER")
    [] snap \cap {"approval", "crash", "qa"} = {} /\ "dev" \in snap ->
         Says("DEV_COMPLETE_QA_PENDING", 1, "COMPLETION_MARKER")
    [] OTHER -> Says("BLOCKED", 1, "BLOCKER_MARKER")

(* rules 6 to 10, on a screen without those markers *)
QuietVerdict ==
  CASE OutOfScope # {} -> Says("BLOCKED", 1, "DIRTY_OUT_OF_SCOPE")
    [] OutOfScope = {} /\ UnchangedPastStale -> Says("IDLE", 1, "STALE_HASH")
    [] OutOfScope = {} /\ ~UnchangedPastStale /\ "working" \in snap ->
         Says("WORKING", 0, "ALL_CLEAR")
    [] OTHER -> Says("UNKNOWN_NEEDS_READ", 1, "AMBIGUOUS_STATE")

(* rule 1: the audit wakes whatever the screen shows, under the last verdict *)
AuditVerdict ==
  Says(IF lastVerdict = NoVerdict THEN "UNKNOWN_NEEDS_READ" ELSE lastVerdict,
       1, "MANDATORY_AUDIT")

WorkingFirst ==
  IF "working" \in snap THEN Says("WORKING", 0, "ALL_CLEAR") ELSE QuietVerdict
classify ==
  IF AuditDue THEN AuditVerdict
  ELSE IF snap \ {"working"} # {} THEN MarkerVerdict
  ELSE QuietVerdict

-----------------------------------------------------------------------------
(* The poll loop. *)
(* The loop's local variables end with the poll. *)
EndPoll ==
  /\ pc' = "sleep"
  /\ snap' = NoScreen /\ paths' = {} /\ result' = NoResult /\ elapsed' = 0

Begin ==
  /\ pc = "sleep"
  /\ pollAge >= Interval
  /\ pc' = "capture"
  /\ pollAge' = 0 /\ elapsed' = age
  /\ UNCHANGED <<age, auditAge, snap, paths, memory, result, files, finding, history>>

(* snapshotter.capture: whatever the pane shows now; its text and its hash. *)
Capture ==
  /\ pc = "capture"
  /\ snap' \in Screen
  /\ sameSince' = IF prevHash = snap' THEN sameSince ELSE 0
  /\ pc' = "probe"
  /\ UNCHANGED <<clocks, paths, memory, result, files, finding, quiet, refused>>

(* getDirtyPaths, and the branch and head, which only go into the state file. *)
Probe ==
  /\ pc = "probe"
  /\ paths' \in SUBSET Path
  /\ pc' = "classify"
  /\ UNCHANGED <<clocks, snap, memory, result, files, finding, history>>

(* The audit clock is reset here, to the start of this poll, although the   *)
(* files are still to be written.                                           *)
ResetsEveryPoll == pollAge
AuditClock == IF AuditDue THEN pollAge ELSE auditAge
Classify ==
  /\ pc = "classify"
  /\ result' = classify
  /\ auditAge' = AuditClock
  /\ behind' = [f \in DOMAIN behind |-> IF behind[f] < 2 THEN behind[f] + 1 ELSE 2]
  /\ pc' = "flag"
  /\ UNCHANGED <<age, pollAge, elapsed, snap, paths, memory, flag, finding, history>>

(* writeWakeFiles: flag, reason, state, then the event. *)
StateFirst(f) == CASE f = "flag" -> "state" [] f = "state" -> "reason" [] OTHER -> "emit"
AfterFile(f) == CASE f = "flag" -> "reason" [] f = "reason" -> "state" [] OTHER -> "emit"

WriteFlag ==
  /\ pc = "flag"
  /\ flag' = result.wake
  /\ behind' = [behind EXCEPT !.flag = 0]
  /\ quiet' = IF result.wake = 1 THEN 0 ELSE quiet
  /\ refused' = IF result.wake = 1 THEN 0 ELSE refused
  /\ pc' = AfterFile("flag")
  /\ UNCHANGED <<clocks, snap, paths, memory, result, finding, sameSince>>

WriteReason ==
  /\ pc = "reason"
  /\ behind' = [behind EXCEPT !.reason = 0]
  /\ pc' = AfterFile("reason")
  /\ UNCHANGED <<clocks, snap, paths, memory, result, flag, finding, history>>

WriteState ==
  /\ pc = "state"
  /\ behind' = [behind EXCEPT !.state = 0]
  /\ pc' = AfterFile("state")
  /\ UNCHANGED <<clocks, snap, paths, memory, result, flag, finding, history>>

(* emitFindingOpened, when the emission is on; a refused append is reported *)
(* and goes on.  Then the poll is remembered.                               *)
Emit ==
  /\ pc = "emit"
  /\ finding' \in IF Emits THEN {finding, TRUE} ELSE {finding}
  /\ prevHash' = snap /\ lastVerdict' = result.verdict
  /\ EndPoll
  /\ UNCHANGED <<age, pollAge, auditAge, files, history>>

(* A capture or a git call that fails, or a file that cannot be written,    *)
(* ends the poll: it is reported and nothing is remembered of it.           *)
Fails ==
  /\ pc \in {"capture", "probe"}
  /\ EndPoll
  /\ quiet' = 0          \* the history excuses a silence that failed to look
  /\ UNCHANGED <<age, pollAge, auditAge, memory, files, finding, sameSince, refused>>

WriteRefused ==
  /\ pc \in {"flag", "reason", "state"}
  /\ refused' = IF pc = "flag" /\ refused <= MaxRefused THEN refused + 1 ELSE refused
  /\ EndPoll
  /\ UNCHANGED <<age, pollAge, auditAge, memory, files, finding, sameSince, quiet>>

-----------------------------------------------------------------------------
(* The watcher is killed and, some time later, started again: startTs is    *)
(* now, the memory is empty, the files are as they were.                    *)
Kill ==
  /\ pc # "down"
  /\ pc' = "down"
  /\ quiet' = 0
  /\ snap' = NoScreen /\ paths' = {} /\ result' = NoResult
  /\ prevHash' = NoScreen /\ lastVerdict' = NoVerdict
  /\ auditAge' = Never /\ age' = 0 /\ elapsed' = 0 /\ pollAge' = 0
  /\ sameSince' = 0
  /\ UNCHANGED <<files, finding, refused>>

Start ==
  /\ pc = "down"
  /\ pc' = "capture"
  /\ UNCHANGED <<clocks, snap, paths, memory, result, files, finding, history>>

(* Time.  A poll takes at most MaxLate, a sleep ends at most MaxLate late.  *)
Due == IF pc = "sleep" THEN pollAge >= Interval + MaxLate ELSE pollAge >= MaxLate
Tick ==
  /\ pc # "down"
  /\ ~Due
  /\ age' = Older(age) /\ pollAge' = pollAge + 1
  /\ auditAge' = IF auditAge = Never THEN Never ELSE Older(auditAge)
  /\ sameSince' = Older(sameSince)
  /\ quiet' = IF flag = 0 /\ quiet < QuietCap THEN quiet + 1 ELSE quiet
  /\ UNCHANGED <<pc, elapsed, snap, paths, memory, result, files, finding, refused>>

-----------------------------------------------------------------------------
PollStep == Begin \/ Capture \/ Probe \/ Classify \/ WriteFlag \/ WriteReason
              \/ WriteState \/ Emit

Next == PollStep \/ Fails \/ WriteRefused \/ Kill \/ Start \/ Tick

Spec == Init /\ [][Next]_vars

-----------------------------------------------------------------------------
(* When the flag has just been set to 0, this poll saw work on the screen   *)
(* and nothing that asks for attention, no path out of scope, and a screen  *)
(* that has not stood still for longer than the stale threshold (classifier *)
(* "ordered rules", and the remembered hash that only a completed poll      *)
(* updates).                                                                *)
SilenceIsEarned ==
  pc \in {"reason", "state", "emit"} /\ flag = 0 =>
    /\ snap = {"working"}
    /\ OutOfScope = {}
    /\ sameSince <= StaleThreshold + MaxLate

(* The mandatory audit: as long as its polls do not fail to look, the       *)
(* watcher is silent for at most the audit interval and a poll, and every   *)
(* flag that could not be written costs at most as much again, because the  *)
(* audit clock was reset before the write.                                  *)
QuietIsBounded ==
  refused <= MaxRefused => quiet <= (1 + refused) * (AuditInterval + Slack)

(* A reader, a failed write or a kill between two of the three writes never *)
(* meets a state or a reason that is newer than the flag.                   *)
FlagIsNewest == behind.flag <= behind.reason /\ behind.reason <= behind.state

(* index.ts "stale after 3 missed polls": a screen is called stale only     *)
(* when it has stood still for three intervals.                             *)
StaleAfterThreePolls ==
  pc = "flag" /\ result.why = "STALE_HASH" => sameSince >= StaleThreshold
=============================================================================
