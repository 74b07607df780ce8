------------------------------ MODULE Governance ------------------------------
(***************************************************************************)
(* The governance evaluators of src/protocol/governance.ts over one scope  *)
(* of the event registry.  They keep no state: every verdict is derived    *)
(* from the events in the log, and what a caller then appends is a second, *)
(* separate step.  The log itself is one atomic object here; EventRegistry *)
(* says how files and locks make it one.                                   *)
(*                                                                         *)
(* Callers follow the documented use: an attempt is evaluated before it is *)
(* recorded and a closure before it is recorded; overhead is held against  *)
(* the budget, then appended through the post-terminal guard; a refusal of *)
(* the budget leads to the terminal guard.                                 *)
(***************************************************************************)
EXTENDS Naturals, FiniteSets

CONSTANTS
  Process, Objective, Finding,
  Offered,          \* the event types that callers come with
  Ceiling, Budget,  \* ATTEMPT_CEILING, GOVERNANCE_OVERHEAD_BUDGET
  MaxEvents         \* bound on the events appended

ASSUME GovernanceAssumption ==
  /\ IsFiniteSet(Process) /\ Process # {}
  /\ Ceiling \in Nat /\ Budget \in Nat /\ MaxEvents \in Nat

VARIABLES
  log,       \* the events in the log
  past,      \* those that compactions have removed
  size,      \* how many were ever appended
  pc, call,  \* where a process is, the event it wants to append
  receipts   \* events that were accepted as a receipt's authority

vars == <<log, past, size, pc, call, receipts>>

Increments == {"ATTEMPT_STARTED", "ATTEMPT_COUNTED"}
Countable ==
  Increments \cup
  {"ATTEMPT_REFUSED", "FINDING_OPENED", "FINDING_OWNED", "FINDING_DELIVERED",
   "FINDING_CLOSED", "BREAK_GLASS_RECORDED", "AUDIT_OPENED", "AUDIT_COMPLETED"}
Outcomes == {"TERMINAL_BLOCKED", "TERMINAL_COMPLETED"}
Types == Countable \cup Outcomes \cup {"BUDGET_CROSSED", "BUDGET_EXHAUSTED"}

ASSUME OfferedAssumption == Offered \subseteq Types

(* An event's id is the place it gets in the log; an audit's target is an   *)
(* id, which need not exist, or ordinary work.                              *)
OrdinaryWork == 0
Target == 0 .. MaxEvents
Call == [type : Types, objective : Objective, finding : Finding, target : Target]
NoCall == [type |-> "none"]
Event == [type : Types, objective : Objective, finding : Finding, target : Target,
          pos : Nat, by : Process]

TypeOK ==
  /\ log \subseteq Event /\ past \subseteq Event
  /\ { e.pos : e \in log \cup past } = 1 .. size
  /\ \A e, f \in log \cup past : e.pos = f.pos => e = f
  /\ log \cap past = {}
  /\ pc \in [Process -> {"idle", "attempt", "closure", "audit", "budget", "guard",
                         "write", "exhaust", "block"}]
  /\ call \in [Process -> Call \cup {NoCall}]
  /\ receipts \subseteq 1 .. size

Init ==
  /\ log = {} /\ past = {} /\ size = 0
  /\ pc = [p \in Process |-> "idle"]
  /\ call = [p \in Process |-> NoCall]
  /\ receipts = {}

-----------------------------------------------------------------------------
(* What is derived from the log. *)
Of(o, types) == { e \in log : e.objective = o /\ e.type \in types }

deriveAttemptAccounting(o) == Cardinality(Of(o, Increments))

(* A further attempt, number count + 1, is at most the ceiling. *)
CountsAfterwards(o) == deriveAttemptAccounting(o) <= Ceiling
evaluateAttemptCeiling(o) == deriveAttemptAccounting(o) + 1 <= Ceiling

deriveOverheadCount(o) == Cardinality(Of(o, Countable))
TerminallyBlocked(o) == Of(o, {"TERMINAL_BLOCKED"}) # {}

AtTheBudgetToo(o) == deriveOverheadCount(o) <= Budget
evaluateOverheadBudget(o) == deriveOverheadCount(o) < Budget

(* A finding's lifecycle depends on the finding alone. *)
Recorded(f, type) == { e \in log : e.finding = f /\ e.type = type }

EitherWillDo(f) ==
  Recorded(f, "FINDING_OWNED") # {} \/ Recorded(f, "FINDING_DELIVERED") # {}
evaluateFindingClosure(f) ==
  Recorded(f, "FINDING_OWNED") # {} /\ Recorded(f, "FINDING_DELIVERED") # {}

StillOpen(f) == evaluateFindingClosure(f)
ActiveFinding(f) == evaluateFindingClosure(f) /\ Recorded(f, "FINDING_CLOSED") = {}

(* deriveMetaGovernanceDepth: one layer for the audit itself, one for its   *)
(* target unless that is ordinary work, and one for each further link of    *)
(* the chain of targets, the link included that ends it: an id that no      *)
(* audit of the objective has, or one that was met before.                  *)
TargetOf(o, id) ==
  LET found == { e \in Of(o, {"AUDIT_OPENED", "AUDIT_COMPLETED"}) : e.pos = id } IN
  IF found = {} THEN OrdinaryWork ELSE (CHOOSE e \in found : TRUE).target

auditChain(o, target) ==
  LET link[n \in 1 .. MaxEvents + 2] ==
        IF n = 1 THEN target
        ELSE IF link[n - 1] = OrdinaryWork
                  \/ \E m \in 1 .. n - 2 : link[m] = link[n - 1]
        THEN OrdinaryWork ELSE TargetOf(o, link[n - 1])
  IN link

deriveMetaGovernanceDepth(o, target) ==
  IF target = OrdinaryWork THEN 1
  ELSE 2 + Cardinality({ n \in 2 .. MaxEvents + 2 :
                           auditChain(o, target)[n] # OrdinaryWork })

META_GOVERNANCE_DEPTH_CAP == 1
breakGlass(o) == { e.pos : e \in Of(o, {"BREAK_GLASS_RECORDED"}) }

(* What a caller may offer as break-glass authority beside the log: nothing *)
(* or one artifact, by its id, which 0 is for one that is no such event.    *)
Offer == { {} } \cup { {id} : id \in Target }

OfferStands(o, offer) == offer \subseteq breakGlass(o)

\* Bug: a target that is gone counts as ordinary work.
LosesLinks(o, target, offer) ==
  /\ OfferStands(o, offer)
  /\ TargetOf(o, target) = OrdinaryWork \/ breakGlass(o) # {}
evaluateMetaGovernanceDepth(o, target, offer) ==
  /\ OfferStands(o, offer)
  /\ \/ deriveMetaGovernanceDepth(o, target) <= META_GOVERNANCE_DEPTH_CAP
     \/ breakGlass(o) # {}

(* resolveRegistryAuthority: a terminal event of the log alone carries a    *)
(* receipt's authority.                                                     *)
AnyClass(id) == \E e \in log : e.pos = id
adjudicateRegistryAuthority(id) == \E e \in log : e.pos = id /\ e.type \in Outcomes

-----------------------------------------------------------------------------
Goto(p, l) == pc' = [pc EXCEPT ![p] = l]

(* The call is over: appended, refused, rejected because the log could not  *)
(* be read or locked, or its process died.                                  *)
Over(p) ==
  /\ Goto(p, "idle")
  /\ call' = [call EXCEPT ![p] = NoCall]

(* Which function of the service a caller begins with. *)
FirstStage(type) ==
  IF type \in Increments THEN "attempt"
  ELSE IF type = "FINDING_CLOSED" THEN "closure"
  ELSE IF type = "AUDIT_OPENED" THEN "audit"
  ELSE IF type \in Countable THEN "budget"
  ELSE IF type = "TERMINAL_BLOCKED" THEN "exhaust" ELSE "write"

Start(p) ==
  /\ pc[p] = "idle"
  /\ size < MaxEvents
  /\ \E c \in [type : Offered, objective : Objective, finding : Finding,
               target : Target] :
       /\ c.type # "AUDIT_OPENED" => c.target = OrdinaryWork
       /\ call' = [call EXCEPT ![p] = c]
       /\ Goto(p, FirstStage(c.type))
  /\ UNCHANGED <<log, past, size, receipts>>

(* A verdict permits the next stage or ends the call. *)
Verdict(p, stage, permitted, then) ==
  /\ pc[p] = stage
  /\ IF permitted THEN Goto(p, then) /\ UNCHANGED call ELSE Over(p)
  /\ UNCHANGED <<log, past, size, receipts>>

EvaluateAttempt(p) ==
  Verdict(p, "attempt", evaluateAttemptCeiling(call[p].objective), "budget")

EvaluateClosure(p) ==
  Verdict(p, "closure", evaluateFindingClosure(call[p].finding), "budget")

EvaluateAudit(p, offer) ==
  Verdict(p, "audit",
          evaluateMetaGovernanceDepth(call[p].objective, call[p].target, offer), "budget")

(* A breach of the budget sends the caller to the terminal guard. *)
EvaluateBudget(p) ==
  /\ pc[p] = "budget"
  /\ Goto(p, IF evaluateOverheadBudget(call[p].objective) THEN "guard" ELSE "exhaust")
  /\ UNCHANGED <<log, past, size, call, receipts>>

(* appendGovernanceOverheadEvent: the post-terminal guard, then the append. *)
DeriveGuard(p) ==
  Verdict(p, "guard", ~TerminallyBlocked(call[p].objective), "write")

Append(p, type) ==
  /\ size' = size + 1
  /\ log' = log \cup {[type |-> type, objective |-> call[p].objective,
                       finding |-> call[p].finding, target |-> call[p].target,
                       pos |-> size + 1, by |-> p]}
  /\ Over(p)
  /\ UNCHANGED <<past, receipts>>

AppendEvent(p) == pc[p] = "write" /\ Append(p, call[p].type)

(* recordBudgetExhaustion: derives, refuses, and only then appends. *)
ChecksNoBreach(o) == ~TerminallyBlocked(o)
mayBlock(o) == ~TerminallyBlocked(o) /\ ~evaluateOverheadBudget(o)

DeriveExhaustion(p) ==
  Verdict(p, "exhaust", mayBlock(call[p].objective), "block")

AppendBlocked(p) == pc[p] = "block" /\ Append(p, "TERMINAL_BLOCKED")

(* A rejection (log or lock unavailable), or the end of the process. *)
Fail(p) ==
  /\ pc[p] # "idle"
  /\ Over(p)
  /\ UNCHANGED <<log, past, size, receipts>>

-----------------------------------------------------------------------------
(* compactRegistryEvents, as EventRegistry has it: what is older than the   *)
(* TTL goes, outcomes excepted.  Callers stamp events when they append      *)
(* them, so the order of positions is the order of ts.  The summary is the  *)
(* scope's and no objective's, and no evaluator reads it.                   *)
TerminalsToo(upTo) == { e \in log : e.pos <= upTo }
Outlived(upTo) == { e \in log : e.pos <= upTo /\ e.type \notin Outcomes }

DropsHistory(upTo) == {}
Hashed(upTo) == Outlived(upTo)

Compact(upTo) ==
  /\ Outlived(upTo) # {}
  /\ log' = log \ Outlived(upTo)
  /\ past' = past \cup Hashed(upTo)
  /\ UNCHANGED <<size, pc, call, receipts>>

(* A receipt that refers to an event is validated; a refusal changes        *)
(* nothing, and prose is never authority in its place.                      *)
Adjudicate(id) ==
  /\ adjudicateRegistryAuthority(id)
  /\ receipts' = receipts \cup {id}
  /\ UNCHANGED <<log, past, size, pc, call>>

Next ==
  \/ \E p \in Process :
       \/ Start(p) \/ EvaluateAttempt(p) \/ EvaluateClosure(p)
       \/ EvaluateBudget(p) \/ DeriveGuard(p) \/ AppendEvent(p)
       \/ DeriveExhaustion(p) \/ AppendBlocked(p) \/ Fail(p)
       \/ \E offer \in Offer : EvaluateAudit(p, offer)
  \/ \E upTo \in 1 .. size : Compact(upTo)
  \/ \E id \in 1 .. size : Adjudicate(id)

Spec == Init /\ [][Next]_vars

-----------------------------------------------------------------------------
Ever == log \cup past
Racers == Cardinality(Process) - 1

(* Verdict and append are two steps, so processes can pass the same verdict *)
(* together; but each other process exceeds the budget by one event at most *)
(* (governance.ts evaluateOverheadBudget: "At exhaustion (count >= budget): *)
(* the candidate overhead event is REFUSED").                               *)
BudgetOverrunBounded ==
  \A o \in Objective : deriveOverheadCount(o) <= Budget + Racers

(* So with attempts (evaluateAttemptCeiling: "attempt ATTEMPT_CEILING + 1   *)
(* (and beyond) is refused by name"), as far as the log goes back.          *)
AttemptOverrunBounded ==
  \A o \in Objective : deriveAttemptAccounting(o) <= Ceiling + Racers

(* A block is never false: the budget's worth of overhead came before it,   *)
(* even if a compaction came in between (recordBudgetExhaustion: "a false   *)
(* terminal block can never be recorded through this guard").               *)
BlocksAreEarned ==
  \A b \in Ever : b.type = "TERMINAL_BLOCKED" =>
    Budget <= Cardinality({ e \in Ever : /\ e.objective = b.objective
                                         /\ e.type \in Countable /\ e.pos < b.pos })

(* With a block it is over: from it on, each process appends one event at   *)
(* most, overhead or a block, and only one it had decided on before; so the *)
(* maker of the first block appends no more, however many compactions come  *)
(* after (appendGovernanceOverheadEvent: "the terminal event is the end of  *)
(* the proof chain").                                                       *)
BlockEndsTheChain ==
  \A b \in Ever : b.type = "TERMINAL_BLOCKED" =>
    \A e, f \in { e \in Ever : /\ e.objective = b.objective /\ e.pos >= b.pos
                               /\ e.type \in Countable \cup {"TERMINAL_BLOCKED"} } :
      e.by = f.by => e = f

(* No finding is closed that was not owned and delivered before (negative   *)
(* control 9: "a logged finding must not masquerade as driven").            *)
ClosedWereDriven ==
  \A c \in Ever : c.type = "FINDING_CLOSED" =>
    \A type \in {"FINDING_OWNED", "FINDING_DELIVERED"} :
      \E e \in Ever : e.finding = c.finding /\ e.type = type /\ e.pos < c.pos

(* A compaction that forgets a closure does not bring the duty back: an     *)
(* active finding was owned and delivered after every closure it ever had.  *)
ActiveSinceLastClosure ==
  \A f \in Finding : ActiveFinding(f) =>
    \A c \in Ever : c.finding = f /\ c.type = "FINDING_CLOSED" =>
      \A type \in {"FINDING_OWNED", "FINDING_DELIVERED"} :
        \E e \in Recorded(f, type) : e.pos > c.pos

(* So a finding is driven every time around, as far as closures tell.       *)
FindingsAreDriven == ClosedWereDriven /\ ActiveSinceLastClosure

(* No audit of an audit without a break-glass recorded before it, although  *)
(* compactions remove the audits that a chain leads through and the verdict *)
(* is used after others have appended (evaluateMetaGovernanceDepth: depth   *)
(* 2+ "is REFUSED [...] UNLESS a valid BREAK_GLASS event").                 *)
ReauditsBreakGlass ==
  \A a \in Ever : a.type = "AUDIT_OPENED" /\ a.target # OrdinaryWork =>
    \E g \in Ever : /\ g.type = "BREAK_GLASS_RECORDED" /\ g.pos < a.pos
                    /\ g.objective = a.objective

(* What was accepted as a receipt's authority stays resolvable as such:     *)
(* nothing later takes a terminal event from the log (governance.ts         *)
(* REGISTRY_RECEIPT_AUTHORITY_EVENT_CLASSES: "terminal events are the       *)
(* registry's outcome records").                                            *)
ReceiptsLast == \A id \in receipts : adjudicateRegistryAuthority(id)

(* governance-overhead-budget.yaml: "appends: exactly one TERMINAL_BLOCKED  *)
(* event per stable_objective_id".                                          *)
ExactlyOneBlock ==
  \A b, c \in Ever :
    b.type = "TERMINAL_BLOCKED" /\ c.type = "TERMINAL_BLOCKED"
      /\ b.objective = c.objective => b = c

(* governance.ts ATTEMPT_CEILING: "Attempts 1..ATTEMPT_CEILING are permitted;  *)
(* attempt ATTEMPT_CEILING + 1 (and beyond) is refused by name".               *)
CeilingHolds ==
  \A o \in Objective :
    Cardinality({ e \in Ever : e.objective = o /\ e.type \in Increments }) <= Ceiling
=============================================================================
