-------------------------------- MODULE Slice --------------------------------
(***************************************************************************)
(* One slice of work between its first attempt and its closure, as the     *)
(* gates of src/protocol/service.ts see it: the step-up ladder, the commit *)
(* gate, the closure check, the roster authority check and the rollover of *)
(* a blocked pod.  The gates are pure functions of the record they are     *)
(* given; what happens between two calls - who emits which verdict, under  *)
(* which spelling, what a packet says - is up to the agents.               *)
(***************************************************************************)
EXTENDS RoleSlots, Integers, FiniteSets

CONSTANTS
  TierCount,       \* rungs of the ladder, the last one the reserve tier
  Implementer,     \* tier -> the seat that implements there
  PodPm,           \* the seat that leads the pod and closes its slices
  Spellings,       \* spellings that occur in records
  Emitted,         \* verdicts the agents may emit, a set of Verdict
  Signals,         \* failure signals that occur: proof, budget, blocked
  MaxVerdicts,     \* bound: verdicts emitted about the slice
  Coordinators,    \* agents that roll blocked pods over
  NoAnswer         \* a gate has not been asked

Tier == 0 .. TierCount - 1

ASSUME SliceAssumption ==
  /\ TierCount \in Nat \ {0}
  /\ MaxVerdicts \in Nat

VARIABLES
  phase,      \* work, staged, committed, verified, closed, or operator
  tier,       \* the rung the slice is on
  lane,       \* the rung whose reviewers look at it
  bar,        \* the acceptance bar handed from rung to rung
  unquoted,   \* rungs whose packet did not quote the bar of the assignment
  obs,        \* observations of the current attempt
  said,       \* the escalation gate's last answer about the attempt
  failed,     \* rungs whose attempt failed a gate
  verdicts,   \* verdicts emitted about the slice
  commit,     \* the exec-gated commit record
  roster,     \* the last roster mutation that was let through
  pod,        \* the blocked pod: paused, and its state preserved
  teams,      \* the teams there are, with their letters as written
  offers      \* per coordinator: its last snapshot of the teams and the letter
              \* it got for it

vars == <<phase, tier, lane, bar, unquoted, obs, said, failed, verdicts, commit,
          roster, pod, teams, offers>>

-----------------------------------------------------------------------------
(* The escalation gate and the baton *)

NoObservation == [qa |-> "none", holdout |-> "none", proof |-> "none",
                  budget |-> FALSE, blocked |-> FALSE]

FailedGates(o) ==
  { g \in {"QA_REJECT", "HOLDOUT_FAIL", "SELF_PROOF_GAP", "BUDGET_EXHAUSTED",
           "BLOCKED"} :
      \/ g = "QA_REJECT" /\ o.qa = "REJECT"
      \/ g = "HOLDOUT_FAIL" /\ o.holdout = "FAIL"
      \/ g = "SELF_PROOF_GAP" /\ o.proof = "GAP"
      \/ g = "BUDGET_EXHAUSTED" /\ o.budget
      \/ g = "BLOCKED" /\ o.blocked }

IndependentPass(o) == o.qa = "PASS" \/ o.holdout = "PASS"
AtReserveTier(t) == t = TierCount - 1

REMEDIATION_FAILED_GATES == {"QA_REJECT", "HOLDOUT_FAIL", "SELF_PROOF_GAP"}

\* The value the requirements name for failed_gate; bug: any failed gate.
AnyFailedGate(gates) == CHOOSE g \in gates : TRUE
PacketFailedGate(gates) ==
  CASE "QA_REJECT" \in gates -> "QA_REJECT"
    [] "HOLDOUT_FAIL" \in gates -> "HOLDOUT_FAIL"
    [] OTHER -> "SELF_PROOF_GAP"

Answer(verdict, next, gate) ==
  [verdict |-> verdict, next |-> next, gate |-> gate]

\* Bug: a positive is enough, whatever else failed.
PassWins(t, o) ==
  IF IndependentPass(o) THEN Answer("DONE", t, "none")
  ELSE Answer("REMEDIATE", t + 1, PacketFailedGate(FailedGates(o)))

evaluateEscalationGate(t, o) ==
  LET gates == FailedGates(o) IN
  CASE gates = {} /\ IndependentPass(o) -> Answer("DONE", t, "none")
    [] gates = {} /\ ~IndependentPass(o) ->
         Answer("INSUFFICIENT_EVIDENCE", t, "none")
    [] gates # {} /\ AtReserveTier(t) -> Answer("ESCALATE_OPERATOR", t, "none")
    [] gates # {} /\ ~AtReserveTier(t) ->
         Answer("REMEDIATE", t + 1, PacketFailedGate(gates))

(* A packet from rung t.  original_acceptance_bar is recommended only: it   *)
(* may be absent, or quote as the original what an earlier rung made of it. *)
Packet(t) == [tier_index : {t}, next_tier_index : 0 .. TierCount,
              review_lane_tier_index : 0 .. TierCount,
              artifact_paths : {0, 1},
              failed_gate : REMEDIATION_FAILED_GATES \cup {"BLOCKED"},
              acceptance_bar : {"original", "softened", "blank"},
              original_acceptance_bar : {"original", "softened", "absent"}]

NextIsOneUp(p) == p.next_tier_index = p.tier_index + 1
LaneTravels(p) == p.review_lane_tier_index = p.next_tier_index
\* Bug: any bar will do.
AnyBar(p) == p.acceptance_bar # "blank"
BarIsKept(p) ==
  /\ p.acceptance_bar # "blank"
  /\ p.original_acceptance_bar = "absent"
       \/ p.acceptance_bar = p.original_acceptance_bar

validateRemediationPacket(p) ==
  /\ p.artifact_paths > 0
  /\ p.failed_gate \in REMEDIATION_FAILED_GATES
  /\ NextIsOneUp(p) /\ LaneTravels(p) /\ BarIsKept(p)

\* The packet an agent builds from the requirements of the gate's answer, which
\* ask for no recommended field.
RequiredPacket(t, a) ==
  [tier_index |-> t, next_tier_index |-> a.next,
   review_lane_tier_index |-> a.next, artifact_paths |-> 1,
   failed_gate |-> a.gate, acceptance_bar |-> "original",
   original_acceptance_bar |-> "absent"]

-----------------------------------------------------------------------------
(* Verdicts and closure *)

\* declared: the verdict names a verdict-class artifact; class: its evidence
\* class; bound: it has a source binding.
Paper == [declared : BOOLEAN, class : {"none", "legal", "foreign"},
          bound : BOOLEAN]
CLOSURE_KINDS ==
  {"SLICE_QA_PASS", "HOLDOUT_ACCEPTED", "MISSION_INTERNAL_VALIDATOR"}
Verdict == [kind : CLOSURE_KINDS \cup {"OTHER"}, result : {"PASS", "FAIL"},
            by : Spellings, paper : Paper]

validateEvidenceClassification(paper) ==
  /\ paper.class # "foreign"
  /\ paper.declared => paper.class = "legal" /\ paper.bound

Emitters(vs, kind) ==
  { canonicalRoleSlot(v.by) : v \in { w \in vs : w.kind = kind /\ w.result = "PASS" } }

PartyIsReadable(v) == canonicalRoleSlot(v) # Unreadable

VerdictIsIndependent(v, claim) ==
  /\ validateEvidenceClassification(v.paper)
  /\ v.kind \in CLOSURE_KINDS
  /\ canonicalRoleSlot(v.by) # Unreadable
  /\ ~roleSlotsEqual(v.by, claim.implementer_lane)
  /\ ~roleSlotsEqual(v.by, claim.closing_authority)

\* claim: implementer_lane, closing_authority and the verdicts it rests on.
validateClosureIndependence(claim) ==
  /\ PartyIsReadable(claim.implementer_lane)
  /\ PartyIsReadable(claim.closing_authority)
  /\ claim.verdicts # {}
  /\ \A v \in claim.verdicts : VerdictIsIndependent(v, claim)
  /\ LET qa == Emitters(claim.verdicts, "SLICE_QA_PASS")
         holdout == Emitters(claim.verdicts, "HOLDOUT_ACCEPTED")
     IN qa # {} /\ holdout # {} /\ qa \cap holdout = {}

-----------------------------------------------------------------------------
(* The commit gate and the roster authority check *)

NoCommit == [issued_by |-> Spelled(Operator, "absent"),
             verified_ground_truth |-> FALSE, committed |-> FALSE,
             exec_reverified |-> FALSE]

\* The pod's lanes are given as the record spells them.
validateCommitGate(c, pm, implementer) ==
  /\ canonicalRoleSlot(c.issued_by) # Unreadable
  /\ hasExecutiveAuthority(c.issued_by)
  /\ canonicalRoleSlot(pm) # Unreadable
  /\ canonicalRoleSlot(implementer) # Unreadable
  /\ ~roleSlotsEqual(c.issued_by, pm)
  /\ ~roleSlotsEqual(c.issued_by, implementer)
  /\ c.verified_ground_truth
  /\ c.committed => c.exec_reverified

ActionTypes == {"RESTAFF", "LATERAL_ROSTER_NEGOTIATION", "UNRECOGNIZED"}
rosterMutations == {"RESTAFF"}

\* action: actor, authorized_by, action_type and lateral.
validateAuthorityAction(a) ==
  /\ canonicalRoleSlot(a.actor) # Unreadable
  /\ canonicalRoleSlot(a.authorized_by) # Unreadable
  /\ a.action_type \in rosterMutations
  /\ ~roleSlotsEqual(a.authorized_by, a.actor)
  /\ hasRosterMutationAuthority(a.authorized_by)
  /\ ~a.lateral

-----------------------------------------------------------------------------
(* The rollover of a blocked pod *)

ROLLOVER_LETTERS == <<"B", "C", "D", "E", "F">>
Letter == { ROLLOVER_LETTERS[i] : i \in DOMAIN ROLLOVER_LETTERS }

\* Bug: letters compared as written.
AsWritten(used) == { t.letter : t \in { u \in used : u.upper } }
UpperCased(used) == { t.letter : t \in used }

evaluateBlockedPodRollover(used, paused, preserved, restaff) ==
  LET free == { i \in DOMAIN ROLLOVER_LETTERS :
                  ROLLOVER_LETTERS[i] \notin UpperCased(used) } IN
  IF ~restaff /\ paused /\ preserved /\ free # {}
  THEN ROLLOVER_LETTERS[CHOOSE i \in free : \A j \in free : i <= j]
  ELSE "ESCALATE_OPERATOR"
-----------------------------------------------------------------------------
(* The slice *)

Init ==
  /\ phase = "work"
  /\ tier = 0 /\ lane = 0
  /\ bar = "original" /\ unquoted = {}
  /\ obs = NoObservation
  /\ said = NoAnswer
  /\ failed = {}
  /\ verdicts = {}
  /\ commit = NoCommit
  /\ roster = {}
  /\ pod = [paused |-> FALSE, preserved |-> FALSE]
  /\ teams = {[letter |-> "B", upper |-> TRUE, by |-> NoAnswer, fresh |-> TRUE]}
  /\ offers = [c \in Coordinators |-> NoAnswer]

Observed(o, v) ==
  CASE v.kind = "SLICE_QA_PASS" ->
         [o EXCEPT !.qa = IF v.result = "PASS" THEN "PASS" ELSE "REJECT"]
    [] v.kind = "HOLDOUT_ACCEPTED" -> [o EXCEPT !.holdout = v.result]
    [] OTHER -> o

\* Anybody may emit a verdict; what is emitted stays on file.
Emit(v) ==
  /\ phase \in {"work", "verified"}
  /\ Cardinality(verdicts) < MaxVerdicts
  /\ verdicts' = verdicts \cup {v}
  /\ obs' = IF phase = "work" THEN Observed(obs, v) ELSE obs
  /\ UNCHANGED <<phase, tier, lane, bar, unquoted, said, failed, commit, roster,
                 pod, teams, offers>>

Signal(s) ==
  /\ phase = "work"
  /\ obs' = CASE s = "proof" -> [obs EXCEPT !.proof = "GAP"]
              [] s = "budget" -> [obs EXCEPT !.budget = TRUE]
              [] s = "blocked" -> [obs EXCEPT !.blocked = TRUE]
  /\ UNCHANGED <<phase, tier, lane, bar, unquoted, said, failed, verdicts,
                 commit, roster, pod, teams, offers>>

Ask ==
  /\ phase = "work"
  /\ said' = evaluateEscalationGate(tier, obs)
  /\ UNCHANGED <<phase, tier, lane, bar, unquoted, obs, failed, verdicts,
                 commit, roster, pod, teams, offers>>

\* The three ways the agents follow an answer, which may be stale by then.
Done ==
  /\ phase = "work" /\ said # NoAnswer
  /\ said.verdict = "DONE"
  /\ phase' = "staged"
  /\ obs' = NoObservation /\ said' = NoAnswer
  /\ UNCHANGED <<tier, lane, bar, unquoted, failed, verdicts, commit, roster,
                 pod, teams, offers>>

Remediates == phase = "work" /\ said # NoAnswer /\ said.verdict = "REMEDIATE"

StepUp(p) ==
  /\ Remediates
  /\ p.next_tier_index < TierCount
  /\ validateRemediationPacket(p)
  /\ tier' = p.next_tier_index
  /\ lane' = p.review_lane_tier_index
  /\ bar' = p.acceptance_bar
  /\ unquoted' = unquoted \cup
       (IF p.original_acceptance_bar = "original" THEN {} ELSE {tier})
  /\ failed' = failed \cup {tier}
  /\ obs' = NoObservation
  /\ said' = NoAnswer
  /\ UNCHANGED <<phase, verdicts, commit, roster, pod, teams, offers>>

\* The attempt ends; no gate reads its verdicts again.
Escalate ==
  /\ phase = "work" /\ said # NoAnswer
  /\ said.verdict = "ESCALATE_OPERATOR"
  /\ phase' = "operator"
  /\ failed' = failed \cup {tier}
  /\ pod' = [pod EXCEPT !.preserved = TRUE]
  /\ obs' = NoObservation /\ said' = NoAnswer /\ verdicts' = {}
  /\ UNCHANGED <<tier, lane, bar, unquoted, commit, roster, teams, offers>>

\* The staged slice is committed once a record passes the gate...
Commit(v, pm, implementer, truth) ==
  LET c == [issued_by |-> v, verified_ground_truth |-> truth,
            committed |-> FALSE, exec_reverified |-> FALSE] IN
  /\ phase = "staged"
  /\ pm.seat = PodPm /\ implementer.seat = Implementer[tier]
  /\ validateCommitGate(c, pm, implementer)
  /\ phase' = "committed"
  /\ commit' = [c EXCEPT !.committed = TRUE]
  /\ UNCHANGED <<tier, lane, bar, unquoted, obs, said, failed, verdicts, roster,
                 pod, teams, offers>>

\* ... and counts as landed once the record that says so passes it again.
Land(pm, implementer, reverified) ==
  LET c == [commit EXCEPT !.exec_reverified = reverified] IN
  /\ phase = "committed"
  /\ pm.seat = PodPm /\ implementer.seat = Implementer[tier]
  /\ validateCommitGate(c, pm, implementer)
  /\ phase' = "verified"
  /\ commit' = c
  /\ UNCHANGED <<tier, lane, bar, unquoted, obs, said, failed, verdicts, roster,
                 pod, teams, offers>>

Close(claim) ==
  /\ phase = "verified"
  /\ claim.implementer_lane.seat = Implementer[tier]
  /\ claim.closing_authority.seat = PodPm
  /\ claim.verdicts \subseteq verdicts
  /\ validateClosureIndependence(claim)
  /\ phase' = "closed"
  /\ UNCHANGED <<tier, lane, bar, unquoted, obs, said, failed, verdicts, commit,
                 roster, pod, teams, offers>>

ChangeRoster(a) ==
  /\ phase = "operator"
  /\ validateAuthorityAction(a)
  /\ roster' = {a}
  /\ UNCHANGED <<phase, tier, lane, bar, unquoted, obs, said, failed, verdicts,
                 commit, pod, teams, offers>>

Pause ==
  /\ phase = "operator" /\ ~pod.paused
  /\ pod' = [pod EXCEPT !.paused = TRUE]
  /\ UNCHANGED <<phase, tier, lane, bar, unquoted, obs, said, failed, verdicts,
                 commit, roster, teams, offers>>

\* A coordinator lists the teams there are and asks for the next letter; the
\* evaluator knows of no answer it gave before ...
AskRollOver(c, restaff) ==
  LET next == evaluateBlockedPodRollover(teams, pod.paused, pod.preserved, restaff)
  IN /\ phase = "operator"
     /\ next # "ESCALATE_OPERATOR"
     /\ offers' = [offers EXCEPT ![c] = [letter |-> next, saw |-> teams]]
     /\ UNCHANGED <<phase, tier, lane, bar, unquoted, obs, said, failed, verdicts,
                    commit, roster, pod, teams>>

\* ... and spins the team later, when its list may be stale (not fresh).  The
\* team takes over the blocked one's work and is the pod that may block next.
\* How its letter is written is up to whoever lists the teams.
RollOver(c, upper) ==
  /\ offers[c] # NoAnswer
  /\ teams' = teams \cup {[letter |-> offers[c].letter, upper |-> upper, by |-> c,
                            fresh |-> offers[c].saw = teams]}
  /\ offers' = [offers EXCEPT ![c] = NoAnswer]
  /\ pod' = [paused |-> FALSE, preserved |-> TRUE]
  /\ UNCHANGED <<phase, tier, lane, bar, unquoted, obs, said, failed, verdicts,
                 commit, roster>>

Party(seat) == { v \in Spellings : v.seat = seat }

\* The guards in front of two of the choices only save TLC from making them.
Next ==
  \/ \E v \in Emitted : Emit(v)
  \/ \E s \in Signals : Signal(s)
  \/ Ask \/ Done \/ Escalate \/ Pause
  \/ Remediates /\ \E p \in Packet(tier) : StepUp(p)
  \/ \E v \in Spellings, pm \in Party(PodPm), i \in Party(Implementer[tier]),
        truth \in BOOLEAN : Commit(v, pm, i, truth)
  \/ \E pm \in Party(PodPm), i \in Party(Implementer[tier]), b \in BOOLEAN :
        Land(pm, i, b)
  \/ \E i \in Party(Implementer[tier]), c \in Party(PodPm),
        vs \in SUBSET verdicts :
        Close([implementer_lane |-> i, closing_authority |-> c, verdicts |-> vs])
  \/ /\ phase = "operator"
     /\ \E actor, by \in Spellings, type \in ActionTypes, lateral \in BOOLEAN :
          ChangeRoster([actor |-> actor, authorized_by |-> by,
                        action_type |-> type, lateral |-> lateral])
  \/ \E c \in Coordinators, restaff \in BOOLEAN : AskRollOver(c, restaff)
  \/ \E c \in Coordinators, upper \in BOOLEAN : RollOver(c, upper)

Spec == Init /\ [][Next]_vars

-----------------------------------------------------------------------------
TypeOK ==
  /\ phase \in {"work", "staged", "committed", "verified", "closed", "operator"}
  /\ tier \in Tier /\ lane \in Nat
  /\ verdicts \subseteq Emitted /\ Cardinality(verdicts) <= MaxVerdicts
  /\ failed \subseteq Tier /\ unquoted \subseteq Tier
  /\ bar \in {"original", "softened"}
  /\ teams \subseteq [letter : Letter, upper : BOOLEAN,
                      by : Coordinators \cup {NoAnswer}, fresh : BOOLEAN]

(* Closure independence: a closed slice was passed by two seats that are    *)
(* not each other, not its implementer and not its closer, whatever every   *)
(* party called itself in the records (validateClosureIndependence: "a      *)
(* respelled emitter is the SAME seat").                                    *)
Passed(kind) ==
  { v.by.seat : v \in { w \in verdicts : w.kind = kind /\ w.result = "PASS" } }

ClosedByTwoStrangers ==
  phase = "closed" =>
    \E q \in Passed("SLICE_QA_PASS"), h \in Passed("HOLDOUT_ACCEPTED") :
      /\ q # h
      /\ {q, h} \cap {Implementer[tier], PodPm} = {}

(* The ladder: every rung below the slice failed a gate, its reviewers are  *)
(* those of the rung it is on, and the operator sees it only from the       *)
(* reserve tier (evaluateEscalationGate: "never silent-fail past the top"). *)
(* The bar is the assignment's, unless the last packet did not quote it:    *)
(* one that does brings a softened bar back (validateRemediationPacket).    *)
LadderIsHonest ==
  /\ 0 .. tier - 1 \subseteq failed
  /\ lane = tier
  /\ bar # "original" => tier - 1 \in unquoted
  /\ phase = "operator" => failed = Tier

(* What the comment of validateRemediationPacket claims ("immutable         *)
(* acceptance bar" is "enforced here") and the code does not do: packets    *)
(* that leave original_acceptance_bar out soften the bar (MCBar.cfg).       *)
BarIsImmutable == bar = "original"

(* Whenever the gate asks for remediation, the packet built from nothing    *)
(* but its requirements passes the packet validator (service.ts: "an agent  *)
(* holding only these strings can build a packet the validator accepts").   *)
BatonIsAccepted ==
  phase = "work" =>
    LET a == evaluateEscalationGate(tier, obs) IN
    a.verdict = "REMEDIATE" => validateRemediationPacket(RequiredPacket(tier, a))

(* A commit that landed was authorized and checked twice by one executive   *)
(* seat that neither leads the pod nor implemented (validateCommitGate).    *)
Landed == phase \in {"verified", "closed"}

CommitIsSupervised ==
  Landed =>
    /\ commit.issued_by.seat \in RATIFIED_COMMIT_ISSUER_SLOTS
    /\ commit.issued_by.seat \notin {PodPm, Implementer[tier]}
    /\ commit.verified_ground_truth /\ commit.exec_reverified

(* So a slice is closed under supervision: by two strangers, over a commit  *)
(* that an executive answers for.                                           *)
SliceIsSupervised == ClosedByTwoStrangers /\ CommitIsSupervised

(* The commit gate and the roster gate "cannot disagree about the same      *)
(* actor": who authorized a landed commit could have authorized a change of *)
(* the pod's roster, and who authorized a change could have issued the      *)
(* token for the actor's commit.                                            *)
OneAuthority ==
  /\ Landed => validateAuthorityAction(
       [actor |-> Spelled(PodPm, "exact"), authorized_by |-> commit.issued_by,
        action_type |-> "RESTAFF", lateral |-> FALSE])
  /\ \A a \in roster : validateCommitGate(
       [issued_by |-> a.authorized_by, verified_ground_truth |-> TRUE,
        committed |-> FALSE, exec_reverified |-> FALSE], a.actor, a.actor)

(* One coordinator's rollovers never share a letter, however the letters in *)
(* use were written; two coordinators' do only if they asked before either  *)
(* had spun its team (evaluateBlockedPodRollover, on its caller's list).    *)
NoTwinTeams ==
  \A t, u \in teams : t # u /\ t.letter = u.letter =>
    t.by # u.by /\ ~(t.fresh /\ u.fresh)

(* So nobody but the executive office changes who is in a pod, and a pod is *)
(* told by its letter as long as its coordinators' lists are current.       *)
RosterIsSound == OneAuthority /\ NoTwinTeams
=============================================================================
