------------------------------ MODULE Continuity ------------------------------
(***************************************************************************)
(* Losing and raising seats (src/protocol/service.ts): the fallback        *)
(* contract a pod stages before a seat dies, the handoff a seat sends      *)
(* before its provider goes dark, the contract of a successor executive,   *)
(* and the plan by which a pod boots in a repository whose session hooks   *)
(* change it.  The validators judge the paper; the agents act on it.       *)
(***************************************************************************)
EXTENDS RoleSlots, Integers, Sequences, SequencesExt

CONSTANTS
  Providers,       \* providers of models
  Home,            \* the provider of the seat
  Rungs,           \* rungs that contracts are written with
  MaxRungs,        \* bound: rungs of a contract
  TriggerTexts,    \* substitution triggers that occur, each a Spelled name
  NoPaper

VARIABLES
  loss,            \* what befell the seat, or "none"
  sitting,         \* who sits there: rung 0 is the original occupant
  contract,        \* the fallback contract on file, once it validated
  handoff,         \* the outage handoff on file, once it validated
  cover,           \* the provider of the seat that covers an outage
  successor,       \* the successor contract on file, once it validated
  plan,            \* the bring-up plan on file, once it validated
  tree,            \* the repository: version of the target, dirty files
  truth,           \* the ground truth the pod captured
  bringUp          \* the pod is "down", "booted", "halted" or "working"

continuityVars == <<loss, sitting, contract, handoff, cover, successor, plan, tree,
                    truth, bringUp>>
seatVars == <<loss, sitting, contract, handoff, cover, successor>>
podVars == <<plan, tree, truth, bringUp>>

-----------------------------------------------------------------------------
(* Fallback contracts *)
CANONICAL_FAILOVER_TRIGGERS ==
  {"AGENT_DEATH", "USAGE_CAP_EXHAUSTION", "SILENT_SESSION_DROP"}
NON_TRIGGER_OPERATOR_SIDE ==
  {"PROVIDER_BILLING_ERROR", "BILLING_ERROR", "INSUFFICIENT_BALANCE"}
Troubles == CANONICAL_FAILOVER_TRIGGERS \cup {"BILLING_ERROR"}

\* A trigger as the shared fold reads it; what it cannot read is empty.
Normalized(t) == IF Readable(t) THEN t.seat ELSE ""

\* model: "pinned", "default" (a word like it), or "absent".
Rung == [harness : BOOLEAN, model : {"pinned", "default", "absent"}]
RungPinned(rung) == rung.harness /\ rung.model = "pinned"
\* Bug: the rungs after the first are taken as written.
FirstRungPinned(rungs) == RungPinned(rungs[1])
RungsPinned(rungs) == \A i \in DOMAIN rungs : RungPinned(rungs[i])

Contract == [rungs : BoundedSeq(Rungs, MaxRungs),
             noSubstitute : {"PAUSE_ESCALATE", "other"},
             triggers : SUBSET TriggerTexts, reverify : BOOLEAN]

validateFallbackContract(c) ==
  /\ IF c.rungs = <<>> THEN c.noSubstitute = "PAUSE_ESCALATE"
     ELSE RungsPinned(c.rungs)
  /\ \A t \in c.triggers : Normalized(t) \notin NON_TRIGGER_OPERATOR_SIDE
  /\ c.reverify

-----------------------------------------------------------------------------
(* Outage handoffs and successors.  A provider is written as it is called,  *)
(* in another case, padded with blanks, or not as a text (a survivor's may  *)
(* also be left out).  Names are compared in lower case, blanks and all.    *)
Cases == {"exact", "cased", "padded", "no_text"}
Lowered(name) == [provider |-> name.provider, padded |-> name.case = "padded"]

\* complete: the other texts and lists that are due are given.
Handoff == [complete : BOOLEAN,
            affected : [provider : Providers, case : Cases],
            survivor : [provider : Providers, case : Cases], bounded : BOOLEAN]

\* Bug: names are compared as written.
SurvivorIsNamedApart(h) == h.survivor # h.affected
SurvivorIsElsewhere(h) ==
  "no_text" \in {h.survivor.case, h.affected.case}
    \/ Lowered(h.survivor) # Lowered(h.affected)
validateOutageHandoff(h) ==
  h.complete /\ SurvivorIsElsewhere(h) /\ h.bounded

Successor == [complete : BOOLEAN, reportUp : BOOLEAN,
              authority : {"OPERATOR", "TEAM-A-EXEC", "SUCCESSOR"}]
validateSuccessorContract(s) ==
  s.complete /\ s.reportUp /\ s.authority \in {"OPERATOR", "TEAM-A-EXEC"}

-----------------------------------------------------------------------------
(* Bring-up plans *)
BRING_UP_STOP_TRIGGERS == <<"TARGET_ARTIFACT_WRONG">>
\* texts: the words of the plan that are texts.  Any other value passes, here and
\* in the tool's schema (a record of anything); the pod takes it to mean something.
Words == {"capture", "framing"}
Plan == [texts : SUBSET Words, capture : {"after_boot", "before_boot"},
         framing : {"count_agnostic", "enumerated"},
         stops : BoundedSeq({"TARGET_ARTIFACT_WRONG", "TREE_CHANGED"}, 2)]
WordsAreDue(p) ==
  /\ "capture" \in p.texts => p.capture = "after_boot"
  /\ "framing" \in p.texts => p.framing = "count_agnostic"

\* The stop triggers are compared as they are, with nothing filtered out.
refuseStopTriggers(stops) == stops # BRING_UP_STOP_TRIGGERS
\* Bug: entries that are no stop trigger are dropped, and none is enough.
DropsForeign(p) == WordsAreDue(p)
validateBringUpPlan(p) == WordsAreDue(p) /\ ~refuseStopTriggers(p.stops)

-----------------------------------------------------------------------------
ContinuityInit ==
  /\ loss = "none"
  /\ sitting = [rung |-> 0, model |-> "pinned", cause |-> "none"]
  /\ contract = NoPaper /\ handoff = NoPaper /\ successor = NoPaper
  /\ cover = NoPaper
  /\ plan = NoPaper
  /\ tree \in [target : {0}, aimed : BOOLEAN, dirty : {0, 1}]
  /\ truth = NoPaper
  /\ bringUp = "down"

Stage(c) ==
  /\ contract = NoPaper /\ validateFallbackContract(c)
  /\ contract' = c
  /\ UNCHANGED <<loss, sitting, handoff, cover, successor, podVars>>

\* The seat is hit; a credit exhaustion may be announced in time.
Hit(t) ==
  /\ loss = "none"
  /\ loss' = t
  /\ UNCHANGED <<sitting, contract, handoff, cover, successor, podVars>>

\* The agents read a trigger as it is meant, however it is written.
Substitute ==
  /\ loss # "none" /\ contract # NoPaper
  /\ \E t \in contract.triggers : t.seat = loss
  /\ sitting.rung < Len(contract.rungs)
  /\ LET rung == sitting.rung + 1 IN
     sitting' = [rung |-> rung, model |-> contract.rungs[rung].model,
                 cause |-> loss]
  /\ loss' = "none"
  /\ UNCHANGED <<contract, handoff, cover, successor, podVars>>

\* The operator sees to what is the operator's.
Settle ==
  /\ loss = "BILLING_ERROR"
  /\ loss' = "none"
  /\ UNCHANGED <<sitting, contract, handoff, cover, successor, podVars>>

Announce(h) ==
  /\ handoff = NoPaper /\ h.affected.provider = Home /\ validateOutageHandoff(h)
  /\ handoff' = h
  /\ UNCHANGED <<loss, sitting, contract, cover, successor, podVars>>

\* The provider is dark; whom the handoff names covers, and reverts.
Cover ==
  /\ handoff # NoPaper /\ loss = "USAGE_CAP_EXHAUSTION" /\ cover = NoPaper
  /\ cover' = handoff.survivor.provider
  /\ UNCHANGED <<loss, sitting, contract, handoff, successor, podVars>>

Revert ==
  /\ cover # NoPaper
  /\ cover' = NoPaper /\ handoff' = NoPaper /\ loss' = "none"
  /\ UNCHANGED <<sitting, contract, successor, podVars>>

Succeed(s) ==
  /\ successor = NoPaper /\ validateSuccessorContract(s)
  /\ successor' = s
  /\ UNCHANGED <<loss, sitting, contract, handoff, cover, podVars>>

-----------------------------------------------------------------------------
PlanBringUp(p) ==
  /\ plan = NoPaper /\ validateBringUpPlan(p)
  /\ plan' = p
  /\ UNCHANGED <<tree, truth, bringUp, seatVars>>

Capture ==
  /\ plan # NoPaper /\ truth = NoPaper
  /\ (plan.capture = "before_boot") = (bringUp = "down")
  /\ truth' = tree
  /\ UNCHANGED <<plan, tree, bringUp, seatVars>>

\* Session hooks run when the pod boots, and may touch anything ...
BootPod(target, dirty) ==
  /\ bringUp = "down"
  /\ plan # NoPaper /\ (plan.capture = "before_boot" => truth # NoPaper)
  /\ bringUp' = "booted"
  /\ tree' = [tree EXCEPT !.target = target, !.dirty = dirty]
  /\ UNCHANGED <<plan, truth, seatVars>>

\* ... and archive one more file at any time, next to the target.
HookLater(dirty) ==
  /\ bringUp = "booted" /\ dirty # tree.dirty
  /\ tree' = [tree EXCEPT !.dirty = dirty]
  /\ UNCHANGED <<plan, truth, bringUp, seatVars>>

\* Whether the pod halts on what it finds, by its plan.
Wrong == ~tree.aimed \/ tree.target # truth.target
MustHalt ==
  \/ Wrong /\ plan.stops # <<>> /\ Head(plan.stops) = "TARGET_ARTIFACT_WRONG"
  \/ tree.dirty # truth.dirty
       /\ \/ plan.framing = "enumerated"
          \/ Contains(plan.stops, "TREE_CHANGED")

Decide ==
  /\ bringUp = "booted" /\ truth # NoPaper
  /\ bringUp' = IF MustHalt THEN "halted" ELSE "working"
  /\ UNCHANGED <<plan, tree, truth, seatVars>>

SeatNext ==
  \/ Substitute \/ Settle \/ Cover \/ Revert
  \/ \E c \in Contract : Stage(c)
  \/ \E t \in Troubles : Hit(t)
  \/ \E h \in Handoff : Announce(h)
  \/ \E s \in Successor : Succeed(s)

PodNext ==
  \/ Capture \/ Decide
  \/ \E p \in Plan : PlanBringUp(p)
  \/ \E target, dirty \in {0, 1} : BootPod(target, dirty)
  \/ \E dirty \in {0, 1} : HookLater(dirty)

ContinuityNext == SeatNext \/ PodNext
ContinuitySpec == ContinuityInit /\ [][ContinuityNext]_continuityVars

-----------------------------------------------------------------------------
(* No substitution seats a harness's default model, at whatever rung, and   *)
(* one for a billing error rests on a trigger that the validator could not  *)
(* read.  An outage is covered from the provider that is dark only if the   *)
(* handoff named a provider by no text, or the two with and without blanks  *)
(* (validateFallbackContract, validateOutageHandoff).                       *)
BlanksDiffer(h) == (h.survivor.case = "padded") # (h.affected.case = "padded")

CoverIsFit ==
  /\ sitting.model = "pinned"
  /\ sitting.cause = "BILLING_ERROR" =>
       \E t \in contract.triggers : t.seat = "BILLING_ERROR" /\ ~Readable(t)
  /\ cover = Home => \/ "no_text" \in {handoff.survivor.case, handoff.affected.case}
                     \/ BlanksDiffer(handoff)

(* What validateOutageHandoff warns of and lets pass in these spellings     *)
(* ("must run on a DIFFERENT provider than the exhausted one",              *)
(* MCSurvivor.cfg).                                                         *)
CoverIsElsewhere == cover # Home

(* A pod that was brought up by a validated plan never works on the wrong   *)
(* target, and halts on no other ground if the plan's words are texts,      *)
(* whatever the repository's hooks did before or after (validateBringUpPlan:*)
(* "any hook-side mutation turns it into a false halt").                    *)
HaltsOnWrongTarget ==
  /\ bringUp = "working" => tree.aimed
  /\ bringUp = "halted" /\ plan.texts = Words => ~tree.aimed
=============================================================================
