--------------------------- MODULE GovernanceProofs ---------------------------
(***************************************************************************)
(* What the governance evaluators promise although verdict and append are  *)
(* two steps and compactions come in between: for any number of callers,   *)
(* objectives, findings and events, any ceiling and any budget.            *)
(***************************************************************************)
EXTENDS Governance, FiniteSetTheorems, TLAPS

USE GovernanceAssumption, OfferedAssumption

-----------------------------------------------------------------------------
(* Types.  A caller that is in a stage has a call, of a type that begins    *)
(* there or has begun before, and a block is not written but by the         *)
(* terminal guard.                                                          *)
TypeInv ==
  /\ TypeOK
  /\ size \in Nat
  /\ IsFiniteSet(log) /\ IsFiniteSet(past)
  /\ \A p \in Process :
       /\ pc[p] # "idle" => call[p] \in Call
       /\ pc[p] \notin {"idle", "exhaust", "block"} =>
            call[p].type # "TERMINAL_BLOCKED"
       /\ pc[p] \in {"attempt", "closure", "audit"} =>
            pc[p] = FirstStage(call[p].type)

-----------------------------------------------------------------------------
(* Overruns: a verdict under the limit stands for one more event at most,   *)
(* so the events and the callers past their verdict fit under the limit and *)
(* the racers together.                                                     *)
Permitted(o, types, stages) ==
  { p \in Process : /\ pc[p] \in stages
                    /\ call[p].objective = o /\ call[p].type \in types }

Room(types, stages, limit) ==
  \A o \in Objective :
    Cardinality(Of(o, types)) + Cardinality(Permitted(o, types, stages))
      <= limit + Racers

OverrunInv ==
  /\ Room(Countable, {"guard", "write"}, Budget)
  /\ Room(Increments, {"budget", "guard", "write"}, Ceiling)

-----------------------------------------------------------------------------
(* Blocks: a compaction leaves them in the log; who is about to append one  *)
(* has seen the budget used up; and who is about to append anything of an   *)
(* objective has appended nothing since its first block.                    *)
OutcomesStay == \A e \in past : e.type \notin Outcomes

OverheadEver(o) == { e \in Ever : e.objective = o /\ e.type \in Countable }

EarnedInv ==
  \A p \in Process :
    pc[p] = "block" => Budget <= Cardinality(OverheadEver(call[p].objective))

Chained == Countable \cup {"TERMINAL_BLOCKED"}
SinceBlock(o, p) ==
  { e \in Ever : /\ e.by = p /\ e.objective = o /\ e.type \in Chained
                 /\ \E b \in Ever : /\ b.type = "TERMINAL_BLOCKED"
                                    /\ b.objective = o /\ b.pos <= e.pos }

ChainInv ==
  \A p \in Process :
    pc[p] = "block" \/ (pc[p] = "write" /\ call[p].type \in Countable) =>
      SinceBlock(call[p].objective, p) = {}

BlockInv ==
  /\ OutcomesStay /\ EarnedInv /\ BlocksAreEarned
  /\ ChainInv /\ BlockEndsTheChain

-----------------------------------------------------------------------------
(* Findings, audits, receipts: what a verdict rested on was appended before *)
(* whatever comes next, although it may be compacted away; and a compaction *)
(* takes the oldest events, so that what it leaves came later.              *)
Passed(p) == pc[p] \in {"budget", "guard", "write"}

DrivenInv ==
  \A p \in Process :
    Passed(p) /\ call[p].type = "FINDING_CLOSED" =>
      \A type \in {"FINDING_OWNED", "FINDING_DELIVERED"} :
        \E e \in Ever : e.finding = call[p].finding /\ e.type = type

GlassInv ==
  \A p \in Process :
    Passed(p) /\ call[p].type = "AUDIT_OPENED" /\ call[p].target # OrdinaryWork =>
      \E g \in Ever : g.type = "BREAK_GLASS_RECORDED"
                        /\ g.objective = call[p].objective

OldestGo ==
  \A e \in log, g \in past : e.type \notin Outcomes => g.pos < e.pos

HistoryInv ==
  /\ DrivenInv /\ GlassInv /\ OldestGo
  /\ ClosedWereDriven /\ ReauditsBreakGlass /\ ReceiptsLast

-----------------------------------------------------------------------------
(* How the steps move what the invariants speak of. *)

Stage == {"idle", "attempt", "closure", "audit", "budget", "guard", "write",
          "exhaust", "block"}

Decides(p) ==
  \/ Start(p) \/ EvaluateAttempt(p) \/ EvaluateClosure(p) \/ EvaluateBudget(p)
  \/ DeriveGuard(p) \/ DeriveExhaustion(p) \/ Fail(p)
  \/ \E offer \in Offer : EvaluateAudit(p, offer)

(* A caller goes on under a verdict, begins, or is done. *)
GoesOn(p) ==
  /\ call'[p] = call[p] /\ call[p] \in Call
  /\ \/ pc[p] = "attempt" /\ pc'[p] = "budget"
          /\ evaluateAttemptCeiling(call[p].objective)
     \/ pc[p] = "closure" /\ pc'[p] = "budget"
          /\ evaluateFindingClosure(call[p].finding)
     \/ pc[p] = "audit" /\ pc'[p] = "budget"
          /\ \E offer \in Offer :
               evaluateMetaGovernanceDepth(call[p].objective, call[p].target, offer)
     \/ pc[p] = "budget" /\ pc'[p] = "guard"
          /\ evaluateOverheadBudget(call[p].objective)
     \/ pc[p] = "budget" /\ pc'[p] = "exhaust"
     \/ pc[p] = "guard" /\ pc'[p] = "write" /\ ~TerminallyBlocked(call[p].objective)
     \/ pc[p] = "exhaust" /\ pc'[p] = "block" /\ mayBlock(call[p].objective)

Begins(p) ==
  /\ pc[p] = "idle" /\ call'[p] \in Call
  /\ pc'[p] = FirstStage(call'[p].type)

Ends(p) == pc'[p] = "idle" /\ call'[p] = NoCall

OthersStay(p) ==
  \A q \in Process \ {p} : pc'[q] = pc[q] /\ call'[q] = call[q]

LEMMA DecideMoves ==
  ASSUME TypeInv, NEW p \in Process, Decides(p)
  PROVE  /\ UNCHANGED <<log, past, size, receipts>>
         /\ OthersStay(p)
         /\ GoesOn(p) \/ Begins(p) \/ Ends(p)
<1>. USE DEF TypeInv, TypeOK, OthersStay, Goto, Over
<1>1. CASE Start(p)
  <2>1. PICK c \in [type : Offered, objective : Objective, finding : Finding,
                    target : Target] :
          /\ call' = [call EXCEPT ![p] = c]
          /\ Goto(p, FirstStage(c.type))
    BY <1>1 DEF Start
  <2>2. c \in Call
    BY DEF Call
  <2>. QED BY <1>1, <2>1, <2>2 DEF Start, Begins
<1>2. CASE EvaluateAttempt(p)
  BY <1>2 DEF EvaluateAttempt, Verdict, GoesOn, Ends
<1>3. CASE EvaluateClosure(p)
  BY <1>3 DEF EvaluateClosure, Verdict, GoesOn, Ends
<1>4. CASE EvaluateBudget(p)
  BY <1>4 DEF EvaluateBudget, GoesOn
<1>5. CASE DeriveGuard(p)
  BY <1>5 DEF DeriveGuard, Verdict, GoesOn, Ends
<1>6. CASE DeriveExhaustion(p)
  BY <1>6 DEF DeriveExhaustion, Verdict, GoesOn, Ends
<1>7. CASE Fail(p)
  BY <1>7 DEF Fail, Ends
<1>8. ASSUME NEW offer \in Offer, EvaluateAudit(p, offer)
      PROVE  /\ UNCHANGED <<log, past, size, receipts>>
             /\ OthersStay(p)
             /\ GoesOn(p) \/ Ends(p)
  BY <1>8 DEF EvaluateAudit, Verdict, GoesOn, Ends
<1>. QED BY <1>1, <1>2, <1>3, <1>4, <1>5, <1>6, <1>7, <1>8 DEF Decides

(* The event that a caller appends. *)
Added(p) ==
  [type |-> IF pc[p] = "write" THEN call[p].type ELSE "TERMINAL_BLOCKED",
   objective |-> call[p].objective, finding |-> call[p].finding,
   target |-> call[p].target, pos |-> size + 1, by |-> p]

Appends(p) == AppendEvent(p) \/ AppendBlocked(p)

LEMMA AppendAdds ==
  ASSUME TypeInv, NEW p \in Process, Appends(p)
  PROVE  /\ pc[p] \in {"write", "block"} /\ call[p] \in Call
         /\ Added(p) \in Event
         /\ log' = log \cup {Added(p)} /\ past' = past
         /\ size' = size + 1 /\ receipts' = receipts
         /\ OthersStay(p) /\ Ends(p)
<1>1. pc[p] \in {"write", "block"} /\ call[p] \in Call
  BY DEF Appends, AppendEvent, AppendBlocked, TypeInv
<1>2. Added(p) \in Event
  <2>1. Added(p).type \in Types
    BY <1>1 DEF Added, Call, Types, Outcomes
  <2>. QED BY <1>1, <2>1 DEF Added, Event, Call, TypeInv
<1>3. CASE AppendEvent(p)
  BY <1>1, <1>2, <1>3
     DEF AppendEvent, Append, Added, Over, Goto, OthersStay, Ends, TypeInv, TypeOK
<1>4. CASE AppendBlocked(p)
  BY <1>1, <1>2, <1>4
     DEF AppendBlocked, Append, Added, Over, Goto, OthersStay, Ends, TypeInv, TypeOK
<1>. QED BY <1>1, <1>3, <1>4 DEF Appends

LEMMA CompactMoves ==
  ASSUME NEW upTo \in 1 .. size, Compact(upTo)
  PROVE  /\ log' = log \ Outlived(upTo) /\ past' = past \cup Outlived(upTo)
         /\ Outlived(upTo) \subseteq log /\ Ever' = Ever
         /\ UNCHANGED <<size, pc, call, receipts>>
BY DEF Compact, Hashed, Outlived, Ever

(* So each step is one of five kinds. *)
LEMMA StepKinds ==
  [Next]_vars =>
    \/ \E p \in Process : Decides(p) \/ Appends(p)
    \/ \E upTo \in 1 .. size : Compact(upTo)
    \/ \E id \in 1 .. size : Adjudicate(id)
    \/ UNCHANGED vars
BY DEF Next, Decides, Appends

LEMMA EventPlaces ==
  ASSUME TypeInv, NEW e \in Ever
  PROVE  e \in Event /\ e.pos \in 1 .. size
BY DEF TypeInv, TypeOK, Ever

-----------------------------------------------------------------------------
LEMMA TypeInit == Init => TypeInv
BY FS_EmptySet DEF Init, TypeInv, TypeOK

LEMMA TypeStep == TypeInv /\ [Next]_vars => TypeInv'
<1>. SUFFICES ASSUME TypeInv, [Next]_vars PROVE TypeInv'
  OBVIOUS
<1>1. ASSUME NEW p \in Process, Decides(p) PROVE TypeInv'
  <2>1. /\ UNCHANGED <<log, past, size, receipts>>
        /\ OthersStay(p)
        /\ GoesOn(p) \/ Begins(p) \/ Ends(p)
    BY <1>1, DecideMoves
  <2>2. pc' \in [Process -> Stage] /\ call' \in [Process -> Call \cup {NoCall}]
    <3>1. /\ \E l \in Stage : pc' = [pc EXCEPT ![p] = l]
          /\ \E c \in Call \cup {NoCall} : call' = [call EXCEPT ![p] = c] \/ call' = call
      <4>1. CASE Start(p)
        BY <4>1 DEF Start, Goto, FirstStage, Stage, Call
      <4>2. CASE ~Start(p)
        BY <1>1, <4>2
           DEF Decides, EvaluateAttempt, EvaluateClosure, EvaluateBudget, EvaluateAudit,
               DeriveGuard, DeriveExhaustion, Fail, Verdict, Goto, Over, Stage
      <4>. QED BY <4>1, <4>2
    <3>. QED BY <3>1 DEF TypeInv, TypeOK, Stage
  <2>3. TypeOK'
    BY <2>1, <2>2 DEF TypeInv, TypeOK, Stage
  <2>4. ASSUME NEW q \in Process
        PROVE  /\ pc'[q] # "idle" => call'[q] \in Call
               /\ pc'[q] \notin {"idle", "exhaust", "block"} =>
                    call'[q].type # "TERMINAL_BLOCKED"
               /\ pc'[q] \in {"attempt", "closure", "audit"} =>
                    pc'[q] = FirstStage(call'[q].type)
    <3>1. CASE q # p
      BY <2>1, <3>1 DEF OthersStay, TypeInv
    <3>2. CASE q = p /\ (Begins(p) \/ Ends(p))
      BY <3>2 DEF Begins, Ends, FirstStage, Increments, Countable
    <3>3. CASE q = p /\ GoesOn(p)
      BY <3>3 DEF GoesOn, TypeInv
    <3>. QED BY <2>1, <3>1, <3>2, <3>3
  <2>. QED BY <2>1, <2>3, <2>4 DEF TypeInv
<1>2. ASSUME NEW p \in Process, Appends(p) PROVE TypeInv'
  <2>1. /\ Added(p) \in Event /\ Added(p).pos = size + 1
        /\ log' = log \cup {Added(p)} /\ past' = past
        /\ size' = size + 1 /\ receipts' = receipts
        /\ OthersStay(p) /\ Ends(p)
    BY <1>2, AppendAdds DEF Added
  <2>2. \A e \in log \cup past : e.pos # size + 1
    BY EventPlaces DEF Ever, TypeInv
  <2>3. /\ IsFiniteSet(log') /\ IsFiniteSet(past')
        /\ size' \in Nat
    BY <2>1, FS_AddElement DEF TypeInv
  <2>4. { e.pos : e \in (log \cup past)' } = 1 .. size'
    <3>1. { e.pos : e \in (log \cup past)' } = { e.pos : e \in log \cup past } \cup {size + 1}
      BY <2>1
    <3>2. 1 .. size + 1 = (1 .. size) \cup {size + 1}
      BY DEF TypeInv
    <3>. QED BY <2>1, <3>1, <3>2 DEF TypeInv, TypeOK
  <2>5. /\ pc' \in [Process -> Stage] /\ call' \in [Process -> Call \cup {NoCall}]
    BY <1>2 DEF TypeInv, TypeOK, Stage, Appends, AppendEvent, AppendBlocked, Append,
                Over, Goto
  <2>6. TypeOK'
    <3>1. log' \subseteq Event /\ past' \subseteq Event /\ log' \cap past' = {}
      BY <2>1, <2>2 DEF TypeInv, TypeOK
    <3>2. \A e, f \in (log \cup past)' : e.pos = f.pos => e = f
      BY <2>1, <2>2 DEF TypeInv, TypeOK
    <3>3. receipts' \subseteq 1 .. size'
      BY <2>1 DEF TypeInv, TypeOK
    <3>. QED BY <2>4, <2>5, <3>1, <3>2, <3>3 DEF TypeOK, Stage
  <2>7. \A q \in Process :
          /\ pc'[q] # "idle" => call'[q] \in Call
          /\ pc'[q] \notin {"idle", "exhaust", "block"} =>
               call'[q].type # "TERMINAL_BLOCKED"
          /\ pc'[q] \in {"attempt", "closure", "audit"} =>
               pc'[q] = FirstStage(call'[q].type)
    BY <2>1 DEF OthersStay, Ends, TypeInv
  <2>. QED BY <2>3, <2>6, <2>7 DEF TypeInv
<1>3. ASSUME NEW upTo \in 1 .. size, Compact(upTo) PROVE TypeInv'
  <2>1. /\ log' = log \ Outlived(upTo) /\ past' = past \cup Outlived(upTo)
        /\ Outlived(upTo) \subseteq log /\ Ever' = Ever
        /\ UNCHANGED <<size, pc, call, receipts>>
    BY <1>3, CompactMoves
  <2>2. IsFiniteSet(log') /\ IsFiniteSet(past')
    BY <2>1, FS_Subset, FS_Union DEF TypeInv
  <2>3. (log \cup past)' = log \cup past
    BY <2>1 DEF Ever
  <2>4. TypeOK'
    BY <2>1, <2>3 DEF TypeInv, TypeOK
  <2>. QED BY <2>1, <2>2, <2>4 DEF TypeInv
<1>4. ASSUME NEW id \in 1 .. size, Adjudicate(id) PROVE TypeInv'
  BY <1>4 DEF Adjudicate, TypeInv, TypeOK
<1>5. CASE UNCHANGED vars
  BY <1>5 DEF vars, TypeInv, TypeOK
<1>. QED BY <1>1, <1>2, <1>3, <1>4, <1>5, StepKinds

(* The evaluators' types, for every instance: the log, the calls and the    *)
(* stages of the callers.                                                   *)
THEOREM GovernanceTypeCorrect == Spec => []TypeOK
<1>1. TypeInv => TypeOK
  BY DEF TypeInv
<1>. QED BY TypeInit, TypeStep, <1>1, PTL DEF Spec

-----------------------------------------------------------------------------
(* Overruns. *)

(* Two finite sets, their sizes and what becomes of them. *)
LEMMA SumShrinks ==
  ASSUME NEW A, NEW B, IsFiniteSet(A), IsFiniteSet(B),
         NEW C \in SUBSET A, NEW D \in SUBSET B,
         NEW n \in Int, Cardinality(A) + Cardinality(B) <= n
  PROVE  Cardinality(C) + Cardinality(D) <= n
<1>1. Cardinality(C) <= Cardinality(A) /\ Cardinality(D) <= Cardinality(B)
  BY FS_Subset
<1>2. IsFiniteSet(C) /\ IsFiniteSet(D)
  BY FS_Subset
<1>3. /\ Cardinality(A) \in Nat /\ Cardinality(B) \in Nat
      /\ Cardinality(C) \in Nat /\ Cardinality(D) \in Nat
  BY <1>2, FS_CardinalityType
<1>. QED BY <1>1, <1>3

LEMMA SumMoves ==
  ASSUME NEW A, NEW B, IsFiniteSet(A), IsFiniteSet(B), NEW x, NEW p \in B,
         NEW C \in SUBSET (A \cup {x}), NEW D \in SUBSET (B \ {p}),
         NEW n \in Int, Cardinality(A) + Cardinality(B) <= n
  PROVE  Cardinality(C) + Cardinality(D) <= n
<1>1. Cardinality(A) \in Nat /\ Cardinality(B) \in Nat
  BY FS_CardinalityType
<1>2. /\ IsFiniteSet(A \cup {x}) /\ Cardinality(A \cup {x}) <= Cardinality(A) + 1
      /\ IsFiniteSet(B \ {p}) /\ Cardinality(B \ {p}) = Cardinality(B) - 1
  BY <1>1, FS_AddElement, FS_RemoveElement
<1>3. Cardinality(A \cup {x}) \in Nat /\ Cardinality(B \ {p}) \in Nat
  BY <1>2, FS_CardinalityType
<1>4. Cardinality(A \cup {x}) + Cardinality(B \ {p}) <= n
  BY <1>1, <1>2, <1>3
<1>. QED BY <1>2, <1>4, SumShrinks

LEMMA SomebodyRaces ==
  Cardinality(Process) \in Nat \ {0} /\ Racers \in Nat
<1>1. Cardinality(Process) \in Nat /\ Cardinality(Process) # 0
  BY FS_CardinalityType, FS_EmptySet
<1>. QED BY <1>1 DEF Racers

LEMMA FiniteSides ==
  ASSUME TypeInv, NEW o, NEW types, NEW stages
  PROVE  /\ IsFiniteSet(Of(o, types))
         /\ IsFiniteSet(Permitted(o, types, stages))
<1>1. Of(o, types) \subseteq log /\ Permitted(o, types, stages) \subseteq Process
  BY DEF Of, Permitted
<1>. QED BY <1>1, FS_Subset DEF TypeInv

(* A caller is permitted in addition only while the count is below the      *)
(* limit, and then all callers together fit.                                *)
LEMMA RoomOnVerdict ==
  ASSUME TypeInv, NEW o, NEW types, NEW stages, NEW limit \in Nat,
         Cardinality(Of(o, types)) < limit, UNCHANGED log
  PROVE  (Cardinality(Of(o, types)) + Cardinality(Permitted(o, types, stages))
            <= limit + Racers)'
<1>1. Of(o, types)' = Of(o, types)
  BY DEF Of
<1>2. Permitted(o, types, stages)' \subseteq Process
  BY DEF Permitted
<1>3. /\ Cardinality(Permitted(o, types, stages)') <= Cardinality(Process)
      /\ Cardinality(Permitted(o, types, stages)') \in Nat
  BY <1>2, FS_Subset, FS_CardinalityType
<1>4. Cardinality(Of(o, types)) \in Nat
  BY FiniteSides, FS_CardinalityType
<1>. QED BY <1>1, <1>3, <1>4, SomebodyRaces DEF Racers

LEMMA RoomWhileDeciding ==
  ASSUME TypeInv, NEW types, NEW stages, NEW limit \in Nat,
         Room(types, stages, limit),
         NEW p \in Process, Decides(p),
         \A o \in Objective :
           \/ Permitted(o, types, stages)' \subseteq Permitted(o, types, stages)
           \/ Cardinality(Of(o, types)) < limit
  PROVE  Room(types, stages, limit)'
<1>. SUFFICES ASSUME NEW o \in Objective
              PROVE  (Cardinality(Of(o, types)) + Cardinality(Permitted(o, types, stages))
                        <= limit + Racers)'
  BY DEF Room
<1>1. UNCHANGED log
  BY DecideMoves
<1>2. CASE Permitted(o, types, stages)' \subseteq Permitted(o, types, stages)
  <2>1. Of(o, types)' = Of(o, types)
    BY <1>1 DEF Of
  <2>2. limit + Racers \in Int /\ Racers' = Racers
    BY SomebodyRaces DEF Racers
  <2>. QED BY <1>2, <2>1, <2>2, FiniteSides, SumShrinks DEF Room
<1>3. CASE Cardinality(Of(o, types)) < limit
  BY <1>1, <1>3, RoomOnVerdict
<1>. QED BY <1>2, <1>3

(* An append of what was permitted moves one from the callers to the log. *)
LEMMA RoomOnAppend ==
  ASSUME TypeInv, NEW types \in SUBSET Countable, NEW stages, NEW limit \in Nat,
         "write" \in stages, "idle" \notin stages,
         Room(types, stages, limit), NEW p \in Process, Appends(p)
  PROVE  Room(types, stages, limit)'
<1>. SUFFICES ASSUME NEW o \in Objective
              PROVE  (Cardinality(Of(o, types)) + Cardinality(Permitted(o, types, stages))
                        <= limit + Racers)'
  BY DEF Room
<1>1. /\ log' = log \cup {Added(p)} /\ OthersStay(p) /\ Ends(p)
      /\ pc[p] \in {"write", "block"} /\ call[p] \in Call
  BY AppendAdds
<1>2. limit + Racers \in Int /\ Racers' = Racers
  BY SomebodyRaces DEF Racers
<1>3. Permitted(o, types, stages)' \subseteq Permitted(o, types, stages) \ {p}
  BY <1>1 DEF Permitted, OthersStay, Ends
<1>4. Cardinality(Of(o, types)) + Cardinality(Permitted(o, types, stages)) <= limit + Racers
  BY DEF Room
<1>5. CASE Added(p) \in Of(o, types)'
  <2>1. pc[p] = "write" /\ call[p].type \in types /\ call[p].objective = o
    BY <1>1, <1>5 DEF Of, Added, Increments, Countable
  <2>2. p \in Permitted(o, types, stages)
    BY <2>1 DEF Permitted
  <2>3. Of(o, types)' \subseteq Of(o, types) \cup {Added(p)}
    BY <1>1 DEF Of
  <2>4. IsFiniteSet(Of(o, types)) /\ IsFiniteSet(Permitted(o, types, stages))
    BY FiniteSides
  <2>. QED BY <1>2, <1>3, <1>4, <2>2, <2>3, <2>4, SumMoves
<1>6. CASE Added(p) \notin Of(o, types)'
  <2>1. Of(o, types)' \subseteq Of(o, types)
    BY <1>1, <1>6 DEF Of
  <2>2. IsFiniteSet(Of(o, types)) /\ IsFiniteSet(Permitted(o, types, stages))
    BY FiniteSides
  <2>. QED BY <1>2, <1>3, <1>4, <2>1, <2>2, SumShrinks
<1>. QED BY <1>5, <1>6

LEMMA RoomOnCompact ==
  ASSUME TypeInv, NEW types, NEW stages, NEW limit \in Nat,
         Room(types, stages, limit), log' \subseteq log, UNCHANGED <<pc, call>>
  PROVE  Room(types, stages, limit)'
<1>. SUFFICES ASSUME NEW o \in Objective
              PROVE  (Cardinality(Of(o, types)) + Cardinality(Permitted(o, types, stages))
                        <= limit + Racers)'
  BY DEF Room
<1>1. /\ Of(o, types)' \subseteq Of(o, types)
      /\ Permitted(o, types, stages)' = Permitted(o, types, stages)
  BY DEF Of, Permitted
<1>2. limit + Racers \in Int /\ Racers' = Racers
  BY SomebodyRaces DEF Racers
<1>. QED BY <1>1, <1>2, FiniteSides, SumShrinks DEF Room

LEMMA OverrunInit == Init => OverrunInv
<1>. SUFFICES ASSUME Init PROVE OverrunInv
  OBVIOUS
<1>1. ASSUME NEW types, NEW stages, "idle" \notin stages, NEW limit \in Nat
      PROVE  Room(types, stages, limit)
  <2>1. ASSUME NEW o PROVE Of(o, types) = {} /\ Permitted(o, types, stages) = {}
    BY <1>1 DEF Init, Of, Permitted
  <2>. QED BY <2>1, FS_EmptySet, SomebodyRaces DEF Room
<1>. QED BY <1>1 DEF OverrunInv

LEMMA OverrunStep == TypeInv /\ OverrunInv /\ [Next]_vars => OverrunInv'
<1>. SUFFICES ASSUME TypeInv, OverrunInv, [Next]_vars PROVE OverrunInv'
  OBVIOUS
<1>1. ASSUME NEW p \in Process, Decides(p) PROVE OverrunInv'
  <2>1. OthersStay(p) /\ (GoesOn(p) \/ Begins(p) \/ Ends(p))
    BY <1>1, DecideMoves
  <2>2. ASSUME NEW o \in Objective
        PROVE  \/ Permitted(o, Countable, {"guard", "write"})'
                    \subseteq Permitted(o, Countable, {"guard", "write"})
               \/ Cardinality(Of(o, Countable)) < Budget
    <3>1. CASE GoesOn(p) /\ pc[p] = "budget" /\ pc'[p] = "guard" /\ call[p].objective = o
      BY <3>1 DEF GoesOn, evaluateOverheadBudget, deriveOverheadCount
    <3>2. CASE Begins(p) \/ Ends(p)
      BY <2>1, <3>2 DEF Permitted, OthersStay, Begins, Ends, FirstStage, Increments, Countable
    <3>3. CASE GoesOn(p) /\ ~(pc[p] = "budget" /\ pc'[p] = "guard" /\ call[p].objective = o)
      BY <2>1, <3>3 DEF Permitted, OthersStay, GoesOn
    <3>. QED BY <2>1, <3>1, <3>2, <3>3
  <2>3. ASSUME NEW o \in Objective
        PROVE  \/ Permitted(o, Increments, {"budget", "guard", "write"})'
                    \subseteq Permitted(o, Increments, {"budget", "guard", "write"})
               \/ Cardinality(Of(o, Increments)) < Ceiling
    <3>1. CASE GoesOn(p) /\ pc[p] = "attempt" /\ call[p].objective = o
      <4>1. Cardinality(Of(o, Increments)) \in Nat
        BY FiniteSides, FS_CardinalityType
      <4>. QED BY <3>1, <4>1 DEF GoesOn, evaluateAttemptCeiling, deriveAttemptAccounting
    <3>2. CASE Begins(p) \/ Ends(p)
      BY <2>1, <3>2 DEF Permitted, OthersStay, Begins, Ends, FirstStage
    <3>3. CASE GoesOn(p) /\ ~(pc[p] = "attempt" /\ call[p].objective = o)
      <4>1. pc[p] \in {"closure", "audit"} => call[p].type \notin Increments
        BY <3>3 DEF TypeInv, FirstStage
      <4>. QED BY <2>1, <3>3, <4>1 DEF Permitted, OthersStay, GoesOn
    <3>. QED BY <2>1, <3>1, <3>2, <3>3
  <2>4. Room(Countable, {"guard", "write"}, Budget)'
    BY <1>1, <2>2, RoomWhileDeciding DEF OverrunInv
  <2>5. Room(Increments, {"budget", "guard", "write"}, Ceiling)'
    BY <1>1, <2>3, RoomWhileDeciding DEF OverrunInv
  <2>. QED BY <2>4, <2>5 DEF OverrunInv
<1>2. ASSUME NEW p \in Process, Appends(p) PROVE OverrunInv'
  <2>1. Increments \in SUBSET Countable /\ Countable \in SUBSET Countable
    BY DEF Countable
  <2>2. Room(Countable, {"guard", "write"}, Budget)'
    BY <1>2, <2>1, RoomOnAppend DEF OverrunInv
  <2>3. Room(Increments, {"budget", "guard", "write"}, Ceiling)'
    BY <1>2, <2>1, RoomOnAppend DEF OverrunInv
  <2>. QED BY <2>2, <2>3 DEF OverrunInv
<1>3. ASSUME log' \subseteq log, UNCHANGED <<pc, call>> PROVE OverrunInv'
  BY <1>3, RoomOnCompact DEF OverrunInv
<1>4. ASSUME NEW upTo \in 1 .. size, Compact(upTo) PROVE OverrunInv'
  BY <1>3, <1>4, CompactMoves
<1>5. ASSUME NEW id \in 1 .. size, Adjudicate(id) PROVE OverrunInv'
  BY <1>3, <1>5 DEF Adjudicate
<1>6. CASE UNCHANGED vars
  BY <1>3, <1>6 DEF vars
<1>. QED BY <1>1, <1>2, <1>4, <1>5, <1>6, StepKinds

LEMMA OverrunInvariant == Spec => [](TypeInv /\ OverrunInv)
BY TypeInit, TypeStep, OverrunInit, OverrunStep, PTL DEF Spec

LEMMA RoomBounds ==
  ASSUME TypeInv, NEW types, NEW stages, NEW limit \in Nat,
         Room(types, stages, limit), NEW o \in Objective
  PROVE  Cardinality(Of(o, types)) <= limit + Racers
<1>1. /\ Cardinality(Of(o, types)) \in Nat
      /\ Cardinality(Permitted(o, types, stages)) \in Nat
  BY FiniteSides, FS_CardinalityType
<1>. QED BY <1>1, SomebodyRaces DEF Room

(* However many callers pass the budget's verdict before they append: the   *)
(* overhead in the log exceeds the budget by one event for each other       *)
(* caller at most (evaluateOverheadBudget).                                 *)
THEOREM OverheadIsBounded == Spec => []BudgetOverrunBounded
<1>1. TypeInv /\ OverrunInv => BudgetOverrunBounded
  BY RoomBounds DEF OverrunInv, BudgetOverrunBounded, deriveOverheadCount
<1>. QED BY OverrunInvariant, <1>1, PTL

(* So with the attempts that are counted (evaluateAttemptCeiling). *)
THEOREM AttemptsAreBounded == Spec => []AttemptOverrunBounded
<1>1. TypeInv /\ OverrunInv => AttemptOverrunBounded
  BY RoomBounds DEF OverrunInv, AttemptOverrunBounded, deriveAttemptAccounting
<1>. QED BY OverrunInvariant, <1>1, PTL

-----------------------------------------------------------------------------
(* Blocks. *)

LEMMA EverGrows ==
  ASSUME TypeInv, NEW p \in Process, Appends(p)
  PROVE  /\ Ever' = Ever \cup {Added(p)}
         /\ Added(p).pos = size + 1 /\ Added(p).by = p
         /\ Added(p).objective = call[p].objective
         /\ \A e \in Ever : e.pos \in Nat /\ e.pos < size + 1
<1>1. log' = log \cup {Added(p)} /\ past' = past
  BY AppendAdds
<1>2. \A e \in Ever : e.pos \in 1 .. size
  BY EventPlaces
<1>. QED BY <1>1, <1>2 DEF Ever, Added, TypeInv

(* A step decides, appends, or leaves the callers and what ever was. *)
Keeps == /\ Ever' = Ever /\ past \subseteq past'
         /\ UNCHANGED <<size, pc, call>>

LEMMA ThreeKinds ==
  ASSUME TypeInv, [Next]_vars
  PROVE  \/ \E p \in Process : Decides(p) /\ Ever' = Ever
         \/ \E p \in Process : Appends(p)
         \/ Keeps
<1>1. ASSUME NEW upTo \in 1 .. size, Compact(upTo) PROVE Keeps
  BY <1>1, CompactMoves DEF Keeps
<1>2. ASSUME NEW p \in Process, Decides(p) PROVE Ever' = Ever
  BY <1>2, DecideMoves DEF Ever
<1>3. ASSUME NEW id \in 1 .. size, Adjudicate(id) PROVE Keeps
  BY <1>3 DEF Keeps, Ever, Adjudicate
<1>4. CASE UNCHANGED vars
  BY <1>4 DEF Keeps, Ever, vars
<1>. QED BY <1>1, <1>2, <1>3, <1>4, StepKinds

\* The log has every block there ever was.
LEMMA BlocksInLog ==
  ASSUME OutcomesStay, NEW o
  PROVE  TerminallyBlocked(o) <=>
           \E b \in Ever : b.type = "TERMINAL_BLOCKED" /\ b.objective = o
BY DEF OutcomesStay, TerminallyBlocked, Of, Ever, Outcomes

LEMMA OutcomesStep ==
  TypeInv /\ OutcomesStay /\ [Next]_vars => OutcomesStay'
<1>. SUFFICES ASSUME TypeInv, OutcomesStay, [Next]_vars PROVE OutcomesStay'
  OBVIOUS
<1>1. ASSUME past' = past PROVE OutcomesStay'
  BY <1>1 DEF OutcomesStay
<1>2. ASSUME NEW upTo \in 1 .. size, Compact(upTo) PROVE OutcomesStay'
  BY <1>2, CompactMoves DEF OutcomesStay, Outlived
<1>. QED BY <1>1, <1>2, StepKinds, DecideMoves, AppendAdds DEF Adjudicate, vars

LEMMA OverheadFinite ==
  ASSUME TypeInv, NEW o
  PROVE  /\ IsFiniteSet(OverheadEver(o))
         /\ Cardinality(OverheadEver(o)) \in Nat
         /\ Cardinality(Of(o, Countable)) \in Nat
         /\ Cardinality(Of(o, Countable)) <= Cardinality(OverheadEver(o))
<1>1. IsFiniteSet(Ever)
  BY FS_Union DEF Ever, TypeInv
<1>2. OverheadEver(o) \subseteq Ever /\ Of(o, Countable) \subseteq OverheadEver(o)
  BY DEF OverheadEver, Of, Ever
<1>3. IsFiniteSet(OverheadEver(o)) /\ IsFiniteSet(Of(o, Countable))
  BY <1>1, <1>2, FS_Subset
<1>. QED BY <1>1, <1>2, <1>3, FS_Subset, FS_CardinalityType

LEMMA OverheadGrows ==
  ASSUME TypeInv, NEW p \in Process, Appends(p), NEW o
  PROVE  /\ Cardinality(OverheadEver(o)) <= Cardinality(OverheadEver(o)')
         /\ Cardinality(OverheadEver(o)') \in Nat
<1>1. OverheadEver(o) \subseteq OverheadEver(o)'
        /\ OverheadEver(o)' \subseteq OverheadEver(o) \cup {Added(p)}
  BY EverGrows DEF OverheadEver
<1>2. IsFiniteSet(OverheadEver(o) \cup {Added(p)})
  BY OverheadFinite, FS_AddElement
<1>3. IsFiniteSet(OverheadEver(o)')
  BY <1>1, <1>2, FS_Subset
<1>. QED BY <1>1, <1>3, FS_Subset, FS_CardinalityType

(* Whoever is about to append a block has seen the budget used up. *)
LEMMA EarnedStep ==
  TypeInv /\ EarnedInv /\ [Next]_vars => EarnedInv'
<1>. SUFFICES ASSUME TypeInv, EarnedInv, [Next]_vars,
                     NEW q \in Process, pc'[q] = "block",
                     NEW o, o = call'[q].objective
              PROVE  Budget <= Cardinality(OverheadEver(o)')
  BY DEF EarnedInv, OverheadEver
<1>1. ASSUME Ever' = Ever, pc[q] = "block", call'[q] = call[q]
      PROVE  Budget <= Cardinality(OverheadEver(o)')
  BY <1>1 DEF EarnedInv, OverheadEver
<1>2. ASSUME NEW p \in Process, Decides(p), Ever' = Ever
      PROVE  Budget <= Cardinality(OverheadEver(o)')
  <2>1. OthersStay(p) /\ (GoesOn(p) \/ Begins(p) \/ Ends(p))
    BY <1>2, DecideMoves
  <2>2. CASE q # p
    BY <1>1, <1>2, <2>1, <2>2 DEF OthersStay
  <2>3. CASE q = p
    <3>1. \/ pc[q] = "exhaust" /\ call'[q] = call[q] /\ mayBlock(call[q].objective)
          \/ Begins(p) \/ Ends(p)
      BY <2>1, <2>3 DEF GoesOn
    <3>2. ~evaluateOverheadBudget(o)
      BY <3>1, <2>3 DEF Begins, Ends, FirstStage, mayBlock
    <3>3. Budget <= Cardinality(OverheadEver(o))
      BY <3>2, OverheadFinite DEF evaluateOverheadBudget, deriveOverheadCount
    <3>. QED BY <1>2, <3>3 DEF OverheadEver
  <2>. QED BY <2>2, <2>3
<1>3. ASSUME NEW p \in Process, Appends(p)
      PROVE  Budget <= Cardinality(OverheadEver(o)')
  <2>1. pc[q] = "block" /\ o = call[q].objective
    BY <1>3, AppendAdds DEF OthersStay, Ends
  <2>2. Budget <= Cardinality(OverheadEver(o))
    BY <2>1 DEF EarnedInv
  <2>3. /\ Cardinality(OverheadEver(o)) <= Cardinality(OverheadEver(o)')
        /\ Cardinality(OverheadEver(o)') \in Nat
    BY <1>3, OverheadGrows
  <2>. QED BY <2>2, <2>3, OverheadFinite
<1>4. CASE Keeps
  BY <1>1, <1>4 DEF Keeps
<1>. QED BY <1>2, <1>3, <1>4, ThreeKinds

LEMMA BlocksEarnedStep ==
  TypeInv /\ EarnedInv /\ BlocksAreEarned /\ [Next]_vars => BlocksAreEarned'
<1>. SUFFICES ASSUME TypeInv, EarnedInv, BlocksAreEarned, [Next]_vars
              PROVE  BlocksAreEarned'
  OBVIOUS
<1>. DEFINE Before(b) == { e \in Ever : /\ e.objective = b.objective
                                        /\ e.type \in Countable /\ e.pos < b.pos }
<1>1. CASE Ever' = Ever
  BY <1>1 DEF BlocksAreEarned
<1>2. ASSUME NEW p \in Process, Appends(p) PROVE BlocksAreEarned'
  <2>. SUFFICES ASSUME NEW b \in Ever', b.type = "TERMINAL_BLOCKED"
                PROVE  Budget <= Cardinality(Before(b)')
    BY DEF BlocksAreEarned
  <2>1. /\ Ever' = Ever \cup {Added(p)} /\ Added(p).pos = size + 1
        /\ Added(p).objective = call[p].objective
        /\ \A e \in Ever : e.pos \in Nat /\ e.pos < size + 1
    BY <1>2, EverGrows
  <2>2. CASE b \in Ever
    <3>1. Before(b)' = Before(b)
      BY <2>1, <2>2 DEF TypeInv
    <3>. QED BY <2>2, <3>1 DEF BlocksAreEarned
  <2>3. CASE b = Added(p)
    <3>1. pc[p] = "block"
      BY <1>2, <2>3, AppendAdds DEF Added, TypeInv
    <3>2. Before(b)' = OverheadEver(call[p].objective)
      BY <2>1, <2>3 DEF OverheadEver, TypeInv
    <3>. QED BY <3>1, <3>2 DEF EarnedInv
  <2>. QED BY <2>1, <2>2, <2>3
<1>. QED BY <1>1, <1>2, ThreeKinds DEF Keeps

(* Whoever is about to append overhead or a block has appended neither      *)
(* since the objective's first block: the guard saw no block in the log,    *)
(* and there every block is that there ever was.                            *)
ToChain(p) == pc[p] = "block" \/ (pc[p] = "write" /\ call[p].type \in Countable)

LEMMA ChainStep ==
  TypeInv /\ OutcomesStay /\ ChainInv /\ [Next]_vars => ChainInv'
<1>. SUFFICES ASSUME TypeInv, OutcomesStay, ChainInv, [Next]_vars,
                     NEW q \in Process, ToChain(q)',
                     NEW o, o = call'[q].objective
              PROVE  SinceBlock(o, q)' = {}
  BY DEF ChainInv, ToChain, SinceBlock
<1>1. ASSUME Ever' = Ever, pc'[q] = pc[q], call'[q] = call[q]
      PROVE  SinceBlock(o, q)' = {}
  BY <1>1 DEF ChainInv, ToChain, SinceBlock
<1>2. ASSUME NEW p \in Process, Decides(p), Ever' = Ever
      PROVE  SinceBlock(o, q)' = {}
  <2>1. OthersStay(p) /\ (GoesOn(p) \/ Begins(p) \/ Ends(p))
    BY <1>2, DecideMoves
  <2>2. CASE q # p
    BY <1>1, <1>2, <2>1, <2>2 DEF OthersStay
  <2>3. CASE q = p
    <3>1. ~TerminallyBlocked(o)
      <4>1. CASE GoesOn(p)
        BY <2>3, <4>1 DEF GoesOn, ToChain, mayBlock
      <4>2. CASE Begins(p) \/ Ends(p)
        BY <2>3, <4>2 DEF Begins, Ends, ToChain, FirstStage
      <4>. QED BY <2>1, <4>1, <4>2
    <3>2. SinceBlock(o, q) = {}
      BY <3>1, BlocksInLog DEF SinceBlock
    <3>. QED BY <1>2, <3>2 DEF SinceBlock
  <2>. QED BY <2>2, <2>3
<1>3. ASSUME NEW p \in Process, Appends(p)
      PROVE  SinceBlock(o, q)' = {}
  <2>1. /\ Ever' = Ever \cup {Added(p)}
        /\ Added(p).pos = size + 1 /\ Added(p).by = p
        /\ \A e \in Ever : e.pos \in Nat /\ e.pos < size + 1
    BY <1>3, EverGrows
  <2>2. q # p /\ pc'[q] = pc[q] /\ call'[q] = call[q]
    BY <1>3, AppendAdds DEF OthersStay, Ends, ToChain
  <2>3. SinceBlock(o, q) = {}
    BY <2>2 DEF ChainInv, ToChain
  <2>4. ASSUME NEW e \in SinceBlock(o, q)' PROVE FALSE
    <3>1. e \in Ever /\ e.by = q /\ e.objective = o /\ e.type \in Chained
      BY <2>1, <2>2, <2>4 DEF SinceBlock
    <3>2. PICK b \in Ever' : b.type = "TERMINAL_BLOCKED" /\ b.objective = o
                               /\ b.pos <= e.pos
      BY <2>4 DEF SinceBlock
    <3>3. b \in Ever
      BY <2>1, <3>1, <3>2 DEF TypeInv
    <3>4. e \in SinceBlock(o, q)
      BY <3>1, <3>2, <3>3 DEF SinceBlock
    <3>. QED BY <2>3, <3>4
  <2>. QED BY <2>4
<1>4. CASE Keeps
  BY <1>1, <1>4 DEF Keeps
<1>. QED BY <1>2, <1>3, <1>4, ThreeKinds

LEMMA BlockEndsStep ==
  TypeInv /\ ChainInv /\ BlockEndsTheChain /\ [Next]_vars => BlockEndsTheChain'
<1>. SUFFICES ASSUME TypeInv, ChainInv, BlockEndsTheChain, [Next]_vars
              PROVE  BlockEndsTheChain'
  OBVIOUS
<1>1. CASE Ever' = Ever
  BY <1>1 DEF BlockEndsTheChain
<1>2. ASSUME NEW p \in Process, Appends(p) PROVE BlockEndsTheChain'
  <2>1. /\ Ever' = Ever \cup {Added(p)}
        /\ Added(p).pos = size + 1 /\ Added(p).by = p
        /\ Added(p).objective = call[p].objective
        /\ \A e \in Ever : e.pos \in Nat /\ e.pos < size + 1
    BY <1>2, EverGrows
  <2>. SUFFICES ASSUME NEW b \in Ever', b.type = "TERMINAL_BLOCKED",
                       NEW e \in Ever', e.objective = b.objective, e.pos >= b.pos,
                       e.type \in Chained,
                       NEW f \in Ever', f.objective = b.objective, f.pos >= b.pos,
                       f.type \in Chained,
                       e.by = f.by
                PROVE  e = f
    BY DEF BlockEndsTheChain, Chained
  <2>2. ASSUME NEW g \in Ever, g.objective = b.objective, g.pos >= b.pos
        PROVE  b \in Ever
    BY <2>1, <2>2 DEF TypeInv
  <2>3. CASE e \in Ever /\ f \in Ever
    BY <2>2, <2>3 DEF BlockEndsTheChain, Chained
  <2>4. ASSUME NEW g \in Ever, g.objective = b.objective, g.pos >= b.pos,
               g.type \in Chained, g.by = p,
               Added(p).objective = b.objective, Added(p).type \in Chained
        PROVE  FALSE
    <3>1. ToChain(p)
      BY <1>2, <2>4, AppendAdds DEF Added, ToChain, Chained, TypeInv
    <3>2. SinceBlock(call[p].objective, p) = {}
      BY <3>1 DEF ChainInv, ToChain
    <3>3. b \in Ever /\ b.pos <= g.pos
      BY <2>1, <2>2, <2>4
    <3>4. g \in SinceBlock(call[p].objective, p)
      BY <2>1, <2>4, <3>3 DEF SinceBlock
    <3>. QED BY <3>2, <3>4
  <2>. QED BY <2>1, <2>3, <2>4
<1>. QED BY <1>1, <1>2, ThreeKinds DEF Keeps

LEMMA BlockInvariant == Spec => [](TypeInv /\ BlockInv)
<1>1. Init => BlockInv
  BY DEF Init, BlockInv, OutcomesStay, EarnedInv, BlocksAreEarned, ChainInv,
         BlockEndsTheChain, Ever
<1>2. TypeInv /\ BlockInv /\ [Next]_vars => BlockInv'
  BY OutcomesStep, EarnedStep, BlocksEarnedStep, ChainStep, BlockEndsStep DEF BlockInv
<1>. QED BY TypeInit, TypeStep, <1>1, <1>2, PTL DEF Spec

(* A terminal block is never false, although verdict and append are two     *)
(* steps: the budget's worth of overhead precedes it                        *)
(* (recordBudgetExhaustion).                                                *)
THEOREM BlocksEarned == Spec => []BlocksAreEarned
<1>1. BlockInv => BlocksAreEarned
  BY DEF BlockInv
<1>. QED BY BlockInvariant, <1>1, PTL

(* From the first block of an objective each caller appends one event at    *)
(* most, one it had decided on before (appendGovernanceOverheadEvent), even *)
(* if compactions come in between.                                          *)
THEOREM BlocksEndChains == Spec => []BlockEndsTheChain
<1>1. BlockInv => BlockEndsTheChain
  BY DEF BlockInv
<1>. QED BY BlockInvariant, <1>1, PTL

-----------------------------------------------------------------------------
(* History. *)

\* An audit of an audit is at depth 2 at least: it takes a break-glass.
LEMMA ReauditsAreDeep ==
  ASSUME NEW o, NEW target \in Target, target # OrdinaryWork, NEW offer,
         evaluateMetaGovernanceDepth(o, target, offer)
  PROVE  \E g \in log : g.type = "BREAK_GLASS_RECORDED" /\ g.objective = o
<1>. DEFINE Links == { n \in 2 .. MaxEvents + 2 : auditChain(o, target)[n] # OrdinaryWork }
<1>1. IsFiniteSet(2 .. MaxEvents + 2) /\ Links \subseteq 2 .. MaxEvents + 2
  BY FS_Interval
<1>2. Cardinality(Links) \in Nat
  BY <1>1, FS_Subset, FS_CardinalityType
<1>3. deriveMetaGovernanceDepth(o, target) = 2 + Cardinality(Links)
  BY DEF deriveMetaGovernanceDepth
<1>. HIDE DEF Links
<1>4. breakGlass(o) # {}
  BY <1>2, <1>3 DEF evaluateMetaGovernanceDepth, META_GOVERNANCE_DEPTH_CAP
<1>. QED BY <1>4 DEF breakGlass, Of

(* A verdict on a closure or on an audit rests on what is in the log, and   *)
(* that was ever after in it.                                               *)
LEMMA DrivenStep ==
  TypeInv /\ DrivenInv /\ [Next]_vars => DrivenInv'
<1>. SUFFICES ASSUME TypeInv, DrivenInv, [Next]_vars,
                     NEW q \in Process, Passed(q)', call'[q].type = "FINDING_CLOSED",
                     NEW type \in {"FINDING_OWNED", "FINDING_DELIVERED"}
              PROVE  \E e \in Ever' : e.finding = call'[q].finding /\ e.type = type
  BY DEF DrivenInv, Passed
<1>1. ASSUME Ever \subseteq Ever', Passed(q), call'[q] = call[q]
      PROVE  \E e \in Ever' : e.finding = call'[q].finding /\ e.type = type
  BY <1>1 DEF DrivenInv
<1>2. ASSUME NEW p \in Process, Decides(p), Ever' = Ever
      PROVE  \E e \in Ever' : e.finding = call'[q].finding /\ e.type = type
  <2>1. OthersStay(p) /\ (GoesOn(p) \/ Begins(p) \/ Ends(p))
    BY <1>2, DecideMoves
  <2>2. CASE q # p
    BY <1>1, <1>2, <2>1, <2>2 DEF OthersStay, Passed
  <2>3. CASE q = p /\ GoesOn(p)
    <3>1. CASE pc[p] = "closure"
      BY <1>2, <2>3, <3>1 DEF GoesOn, evaluateFindingClosure, Recorded, Ever
    <3>2. CASE pc[p] \in {"attempt", "audit"}
      BY <2>3, <3>2 DEF GoesOn, TypeInv, FirstStage, Increments
    <3>3. CASE pc[p] \notin {"closure", "attempt", "audit"}
      <4>1. Passed(p) /\ call'[p] = call[p]
        BY <2>3, <3>3 DEF GoesOn, Passed
      <4>. QED BY <1>1, <1>2, <2>3, <4>1
    <3>. QED BY <3>1, <3>2, <3>3
  <2>4. CASE q = p /\ (Begins(p) \/ Ends(p))
    BY <2>4 DEF Begins, Ends, Passed, FirstStage, Increments
  <2>. QED BY <2>1, <2>2, <2>3, <2>4
<1>3. ASSUME NEW p \in Process, Appends(p)
      PROVE  \E e \in Ever' : e.finding = call'[q].finding /\ e.type = type
  <2>1. Passed(q) /\ call'[q] = call[q] /\ Ever \subseteq Ever'
    BY <1>3, AppendAdds, EverGrows DEF OthersStay, Ends, Passed
  <2>. QED BY <1>1, <2>1
<1>4. CASE Keeps
  BY <1>1, <1>4 DEF Keeps, Passed
<1>. QED BY <1>2, <1>3, <1>4, ThreeKinds

LEMMA GlassStep ==
  TypeInv /\ GlassInv /\ [Next]_vars => GlassInv'
<1>. SUFFICES ASSUME TypeInv, GlassInv, [Next]_vars,
                     NEW q \in Process, Passed(q)', call'[q].type = "AUDIT_OPENED",
                     call'[q].target # OrdinaryWork
              PROVE  \E g \in Ever' : g.type = "BREAK_GLASS_RECORDED"
                                        /\ g.objective = call'[q].objective
  BY DEF GlassInv, Passed
<1>1. ASSUME Ever \subseteq Ever', Passed(q), call'[q] = call[q]
      PROVE  \E g \in Ever' : g.type = "BREAK_GLASS_RECORDED"
                                /\ g.objective = call'[q].objective
  BY <1>1 DEF GlassInv
<1>2. ASSUME NEW p \in Process, Decides(p), Ever' = Ever
      PROVE  \E g \in Ever' : g.type = "BREAK_GLASS_RECORDED"
                                /\ g.objective = call'[q].objective
  <2>1. OthersStay(p) /\ (GoesOn(p) \/ Begins(p) \/ Ends(p))
    BY <1>2, DecideMoves
  <2>2. CASE q # p
    BY <1>1, <1>2, <2>1, <2>2 DEF OthersStay, Passed
  <2>3. CASE q = p /\ GoesOn(p)
    <3>1. CASE pc[p] = "audit"
      <4>1. PICK offer \in Offer :
              evaluateMetaGovernanceDepth(call[p].objective, call[p].target, offer)
        BY <2>3, <3>1 DEF GoesOn
      <4>2. call'[p] = call[p] /\ call[p].target \in Target
        BY <2>3 DEF GoesOn, Call
      <4>. QED BY <1>2, <2>3, <4>1, <4>2, ReauditsAreDeep DEF Ever
    <3>2. CASE pc[p] \in {"attempt", "closure"}
      BY <2>3, <3>2 DEF GoesOn, TypeInv, FirstStage, Increments
    <3>3. CASE pc[p] \notin {"closure", "attempt", "audit"}
      <4>1. Passed(p) /\ call'[p] = call[p]
        BY <2>3, <3>3 DEF GoesOn, Passed
      <4>. QED BY <1>1, <1>2, <2>3, <4>1
    <3>. QED BY <3>1, <3>2, <3>3
  <2>4. CASE q = p /\ (Begins(p) \/ Ends(p))
    BY <2>4 DEF Begins, Ends, Passed, FirstStage, Increments
  <2>. QED BY <2>1, <2>2, <2>3, <2>4
<1>3. ASSUME NEW p \in Process, Appends(p)
      PROVE  \E g \in Ever' : g.type = "BREAK_GLASS_RECORDED"
                                /\ g.objective = call'[q].objective
  <2>1. Passed(q) /\ call'[q] = call[q] /\ Ever \subseteq Ever'
    BY <1>3, AppendAdds, EverGrows DEF OthersStay, Ends, Passed
  <2>. QED BY <1>1, <2>1
<1>4. CASE Keeps
  BY <1>1, <1>4 DEF Keeps, Passed
<1>. QED BY <1>2, <1>3, <1>4, ThreeKinds

LEMMA ClosedStep ==
  TypeInv /\ DrivenInv /\ ClosedWereDriven /\ [Next]_vars => ClosedWereDriven'
<1>. SUFFICES ASSUME TypeInv, DrivenInv, ClosedWereDriven, [Next]_vars
              PROVE  ClosedWereDriven'
  OBVIOUS
<1>1. CASE Ever' = Ever
  BY <1>1 DEF ClosedWereDriven
<1>2. ASSUME NEW p \in Process, Appends(p) PROVE ClosedWereDriven'
  <2>1. /\ Ever' = Ever \cup {Added(p)} /\ Added(p).pos = size + 1
        /\ \A e \in Ever : e.pos \in Nat /\ e.pos < size + 1
    BY <1>2, EverGrows
  <2>2. Added(p).type = "FINDING_CLOSED" =>
          Passed(p) /\ call[p].type = "FINDING_CLOSED"
    BY DEF Added, Passed
  <2>3. Added(p).finding = call[p].finding
    BY DEF Added
  <2>. QED BY <2>1, <2>2, <2>3 DEF ClosedWereDriven, DrivenInv
<1>. QED BY <1>1, <1>2, ThreeKinds DEF Keeps

LEMMA ReauditStep ==
  TypeInv /\ GlassInv /\ ReauditsBreakGlass /\ [Next]_vars => ReauditsBreakGlass'
<1>. SUFFICES ASSUME TypeInv, GlassInv, ReauditsBreakGlass, [Next]_vars
              PROVE  ReauditsBreakGlass'
  OBVIOUS
<1>1. CASE Ever' = Ever
  BY <1>1 DEF ReauditsBreakGlass
<1>2. ASSUME NEW p \in Process, Appends(p) PROVE ReauditsBreakGlass'
  <2>1. /\ Ever' = Ever \cup {Added(p)} /\ Added(p).pos = size + 1
        /\ \A e \in Ever : e.pos \in Nat /\ e.pos < size + 1
    BY <1>2, EverGrows
  <2>2. Added(p).type = "AUDIT_OPENED" =>
          Passed(p) /\ call[p].type = "AUDIT_OPENED"
    BY DEF Added, Passed
  <2>3. Added(p).objective = call[p].objective /\ Added(p).target = call[p].target
    BY DEF Added
  <2>. QED BY <2>1, <2>2, <2>3 DEF ReauditsBreakGlass, GlassInv
<1>. QED BY <1>1, <1>2, ThreeKinds DEF Keeps

(* A compaction takes the oldest events, outcomes apart. *)
LEMMA OldestStep ==
  TypeInv /\ OldestGo /\ [Next]_vars => OldestGo'
<1>. SUFFICES ASSUME TypeInv, OldestGo, [Next]_vars PROVE OldestGo'
  OBVIOUS
<1>1. ASSUME UNCHANGED <<log, past>> PROVE OldestGo'
  BY <1>1 DEF OldestGo
<1>2. ASSUME NEW p \in Process, Appends(p) PROVE OldestGo'
  <2>1. \A g \in past : g.pos < Added(p).pos
    BY <1>2, EverGrows DEF Ever
  <2>. QED BY <1>2, <2>1, AppendAdds DEF OldestGo
<1>3. ASSUME NEW upTo \in 1 .. size, Compact(upTo) PROVE OldestGo'
  <2>1. /\ log' = log \ Outlived(upTo) /\ past' = past \cup Outlived(upTo)
    BY <1>3, CompactMoves
  <2>2. ASSUME NEW e \in log', NEW g \in Outlived(upTo), e.type \notin Outcomes
        PROVE  g.pos < e.pos
    <3>1. e.pos \in Nat /\ g.pos \in Nat /\ size \in Nat
      BY <2>1, <2>2, EventPlaces DEF Ever, Outlived, TypeInv
    <3>2. ~(e.pos <= upTo) /\ g.pos <= upTo
      BY <2>1, <2>2 DEF Outlived
    <3>. QED BY <3>1, <3>2
  <2>. QED BY <2>1, <2>2 DEF OldestGo
<1>. QED BY <1>1, <1>2, <1>3, StepKinds, DecideMoves DEF Adjudicate, vars

LEMMA ReceiptsStep ==
  TypeInv /\ ReceiptsLast /\ [Next]_vars => ReceiptsLast'
<1>. SUFFICES ASSUME TypeInv, ReceiptsLast, [Next]_vars PROVE ReceiptsLast'
  OBVIOUS
<1>1. ASSUME receipts' = receipts,
             \A e \in log : e.type \in Outcomes => e \in log'
      PROVE  ReceiptsLast'
  BY <1>1 DEF ReceiptsLast, adjudicateRegistryAuthority
<1>2. ASSUME NEW upTo \in 1 .. size, Compact(upTo) PROVE ReceiptsLast'
  BY <1>1, <1>2, CompactMoves DEF Outlived
<1>3. ASSUME NEW id \in 1 .. size, Adjudicate(id) PROVE ReceiptsLast'
  BY <1>3 DEF Adjudicate, ReceiptsLast, adjudicateRegistryAuthority
<1>4. ASSUME NEW p \in Process, Decides(p) \/ Appends(p) PROVE ReceiptsLast'
  BY <1>1, <1>4, DecideMoves, AppendAdds
<1>5. CASE UNCHANGED vars
  BY <1>1, <1>5 DEF vars
<1>. QED BY <1>2, <1>3, <1>4, <1>5, StepKinds

LEMMA HistoryInvariant == Spec => [](TypeInv /\ HistoryInv)
<1>1. Init => HistoryInv
  BY DEF Init, HistoryInv, DrivenInv, GlassInv, OldestGo, ClosedWereDriven,
         ReauditsBreakGlass, ReceiptsLast, Passed, Ever
<1>2. TypeInv /\ HistoryInv /\ [Next]_vars => HistoryInv'
  BY DrivenStep, GlassStep, OldestStep, ClosedStep, ReauditStep, ReceiptsStep
     DEF HistoryInv
<1>. QED BY TypeInit, TypeStep, <1>1, <1>2, PTL DEF Spec

(* A finding is closed only after it was owned and delivered, and is driven *)
(* anew after each closure, whatever a compaction forgets                   *)
(* (evaluateFindingClosure).                                                *)
THEOREM ClosuresAreDriven == Spec => []FindingsAreDriven
<1>1. TypeInv /\ HistoryInv => FindingsAreDriven
  <2>. SUFFICES ASSUME TypeInv, HistoryInv PROVE ActiveSinceLastClosure
    BY DEF FindingsAreDriven, HistoryInv
  <2>. SUFFICES ASSUME NEW f \in Finding, ActiveFinding(f),
                       NEW c \in Ever, c.finding = f, c.type = "FINDING_CLOSED",
                       NEW type \in {"FINDING_OWNED", "FINDING_DELIVERED"}
                PROVE  \E e \in Recorded(f, type) : e.pos > c.pos
    BY DEF ActiveSinceLastClosure
  <2>1. PICK e \in Recorded(f, type) : TRUE
    BY DEF ActiveFinding, evaluateFindingClosure
  <2>2. c \in past
    BY DEF ActiveFinding, Recorded, Ever
  <2>3. e \in log /\ e.type \notin Outcomes
    BY <2>1 DEF Recorded, Outcomes
  <2>4. c.pos < e.pos /\ c.pos \in Nat /\ e.pos \in Nat
    BY <2>2, <2>3, EventPlaces DEF HistoryInv, OldestGo, Ever, TypeInv
  <2>. QED BY <2>1, <2>4
<1>. QED BY HistoryInvariant, <1>1, PTL

(* No audit of an audit goes on record without a break-glass before it      *)
(* (evaluateMetaGovernanceDepth).                                           *)
THEOREM ReauditsAreAuthorised == Spec => []ReauditsBreakGlass
<1>1. HistoryInv => ReauditsBreakGlass
  BY DEF HistoryInv
<1>. QED BY HistoryInvariant, <1>1, PTL

(* What a receipt was accepted for resolves ever after                      *)
(* (resolveRegistryAuthority): compaction takes no outcome away.            *)
THEOREM ReceiptsResolve == Spec => []ReceiptsLast
<1>1. HistoryInv => ReceiptsLast
  BY DEF HistoryInv
<1>. QED BY HistoryInvariant, <1>1, PTL
=============================================================================
