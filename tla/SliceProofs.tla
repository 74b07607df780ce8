------------------------------ MODULE SliceProofs ------------------------------
(***************************************************************************)
(* The gates of a slice together: whatever the agents emit, spell, leave   *)
(* out or hand over, a slice is closed under supervision, the ladder is    *)
(* climbed rung by rung, a bar is softened only by a packet that does not  *)
(* quote the assignment's, and pods share a letter only if their           *)
(* coordinators' lists were out of date.                                   *)
(***************************************************************************)
EXTENDS Slice, FiniteSetTheorems, TLAPS

\* The mark for an unreadable name is no seat.
UnreadableIsNoSeat == PodPm # Unreadable

-----------------------------------------------------------------------------
(* Role identity *)
LEMMA ReadableSeat ==
  ASSUME NEW v, canonicalRoleSlot(v) # Unreadable
  PROVE  canonicalRoleSlot(v) = v.seat
BY DEF canonicalRoleSlot

LEMMA DifferentSeats ==
  ASSUME NEW v, NEW w, canonicalRoleSlot(v) # Unreadable,
         canonicalRoleSlot(w) # Unreadable, ~roleSlotsEqual(v, w)
  PROVE  v.seat # w.seat
BY ReadableSeat DEF roleSlotsEqual

-----------------------------------------------------------------------------
(* Closure and commit *)

\* Whom a closure that is let through rests on.
LEMMA ClosureStrangers ==
  ASSUME NEW claim, validateClosureIndependence(claim)
  PROVE  \E v, w \in claim.verdicts :
           /\ v.kind = "SLICE_QA_PASS" /\ v.result = "PASS"
           /\ w.kind = "HOLDOUT_ACCEPTED" /\ w.result = "PASS"
           /\ v.by.seat # w.by.seat
           /\ {v.by.seat, w.by.seat}
                \cap {claim.implementer_lane.seat, claim.closing_authority.seat} = {}
<1>1. PICK v \in claim.verdicts : v.kind = "SLICE_QA_PASS" /\ v.result = "PASS"
  BY DEF validateClosureIndependence, Emitters
<1>2. PICK w \in claim.verdicts : w.kind = "HOLDOUT_ACCEPTED" /\ w.result = "PASS"
  BY DEF validateClosureIndependence, Emitters
<1>3. ASSUME NEW u \in {v, w}
      PROVE  /\ canonicalRoleSlot(u.by) = u.by.seat
             /\ u.by.seat # claim.implementer_lane.seat
             /\ u.by.seat # claim.closing_authority.seat
  <2>1. /\ canonicalRoleSlot(u.by) # Unreadable
        /\ ~roleSlotsEqual(u.by, claim.implementer_lane)
        /\ ~roleSlotsEqual(u.by, claim.closing_authority)
    BY <1>1, <1>2 DEF validateClosureIndependence, VerdictIsIndependent
  <2>2. /\ canonicalRoleSlot(claim.implementer_lane) # Unreadable
        /\ canonicalRoleSlot(claim.closing_authority) # Unreadable
    BY DEF validateClosureIndependence, PartyIsReadable
  <2>. QED  BY <2>1, <2>2, ReadableSeat, DifferentSeats
<1>4. v.by.seat # w.by.seat
  <2>1. /\ canonicalRoleSlot(v.by) \in Emitters(claim.verdicts, "SLICE_QA_PASS")
        /\ canonicalRoleSlot(w.by) \in Emitters(claim.verdicts, "HOLDOUT_ACCEPTED")
    BY <1>1, <1>2 DEF Emitters
  <2>2. canonicalRoleSlot(v.by) # canonicalRoleSlot(w.by)
    BY <2>1 DEF validateClosureIndependence
  <2>. QED  BY <1>3, <2>2
<1>. QED  BY <1>1, <1>2, <1>3, <1>4

\* Who a commit record that is let through was issued by.
LEMMA GateIssuer ==
  ASSUME NEW c, NEW pm, NEW implementer, validateCommitGate(c, pm, implementer)
  PROVE  /\ canonicalRoleSlot(c.issued_by) = c.issued_by.seat
         /\ canonicalRoleSlot(c.issued_by) # Unreadable
         /\ c.issued_by.seat \in RATIFIED_COMMIT_ISSUER_SLOTS
         /\ c.issued_by.seat \notin {pm.seat, implementer.seat}
         /\ c.verified_ground_truth
         /\ c.committed => c.exec_reverified
BY ReadableSeat, DifferentSeats DEF validateCommitGate, hasExecutiveAuthority

\* The record of a slice that was committed, and of one that landed.
CommitRecord == [issued_by : Spellings, verified_ground_truth : BOOLEAN,
                 committed : BOOLEAN, exec_reverified : BOOLEAN]

CommitInv ==
  /\ phase \in {"committed", "verified", "closed"} =>
       commit \in CommitRecord /\ commit.committed
  /\ Landed => canonicalRoleSlot(commit.issued_by) = commit.issued_by.seat
                 /\ canonicalRoleSlot(commit.issued_by) # Unreadable

SupervisedInv == CommitInv /\ SliceIsSupervised

LEMMA SupervisedInit ==  Init => SupervisedInv
BY DEF Init, SupervisedInv, CommitInv, SliceIsSupervised, ClosedByTwoStrangers,
       CommitIsSupervised, Landed

LEMMA CommitStep ==
  ASSUME NEW v \in Spellings, NEW q, NEW i, NEW truth \in BOOLEAN,
         Commit(v, q, i, truth)
  PROVE  SupervisedInv'
<1>1. phase' = "committed" /\ commit' \in CommitRecord /\ commit'.committed
  BY DEF Commit, CommitRecord
<1>. QED  BY <1>1 DEF SupervisedInv, CommitInv, SliceIsSupervised,
              ClosedByTwoStrangers, CommitIsSupervised, Landed

LEMMA LandStep ==
  ASSUME SupervisedInv, NEW q, NEW i, NEW b \in BOOLEAN, Land(q, i, b)
  PROVE  SupervisedInv'
<1>1. /\ commit \in CommitRecord /\ commit.committed
      /\ phase' = "verified" /\ tier' = tier
      /\ commit' = [commit EXCEPT !.exec_reverified = b]
      /\ q.seat = PodPm /\ i.seat = Implementer[tier]
      /\ validateCommitGate(commit', q, i)
  BY DEF SupervisedInv, CommitInv, Land
<1>2. commit' \in CommitRecord /\ commit'.committed
  BY <1>1 DEF CommitRecord
<1>3. /\ canonicalRoleSlot(commit'.issued_by) = commit'.issued_by.seat
      /\ canonicalRoleSlot(commit'.issued_by) # Unreadable
      /\ commit'.issued_by.seat \in RATIFIED_COMMIT_ISSUER_SLOTS
      /\ commit'.issued_by.seat \notin {PodPm, Implementer[tier]}
      /\ commit'.verified_ground_truth /\ commit'.exec_reverified
  BY <1>1, <1>2, GateIssuer
<1>. QED  BY <1>1, <1>2, <1>3 DEF SupervisedInv, CommitInv, SliceIsSupervised,
              ClosedByTwoStrangers, CommitIsSupervised, Landed

LEMMA CloseStep ==
  ASSUME SupervisedInv, NEW claim, Close(claim)
  PROVE  SupervisedInv'
<1>1. /\ phase = "verified" /\ phase' = "closed"
      /\ UNCHANGED <<tier, verdicts, commit>>
      /\ claim.implementer_lane.seat = Implementer[tier]
      /\ claim.closing_authority.seat = PodPm
      /\ claim.verdicts \subseteq verdicts
      /\ validateClosureIndependence(claim)
  BY DEF Close
<1>2. PICK v, w \in claim.verdicts :
        /\ v.kind = "SLICE_QA_PASS" /\ v.result = "PASS"
        /\ w.kind = "HOLDOUT_ACCEPTED" /\ w.result = "PASS"
        /\ v.by.seat # w.by.seat
        /\ {v.by.seat, w.by.seat} \cap {Implementer[tier], PodPm} = {}
  BY <1>1, ClosureStrangers
<1>3. /\ v.by.seat \in Passed("SLICE_QA_PASS")'
      /\ w.by.seat \in Passed("HOLDOUT_ACCEPTED")'
  BY <1>1, <1>2 DEF Passed
<1>4. ClosedByTwoStrangers'
  BY <1>1, <1>2, <1>3 DEF ClosedByTwoStrangers
<1>5. CommitInv' /\ CommitIsSupervised'
  BY <1>1 DEF SupervisedInv, CommitInv, SliceIsSupervised, CommitIsSupervised, Landed
<1>. QED  BY <1>4, <1>5 DEF SupervisedInv, SliceIsSupervised

\* A step that leaves the slice where it is, or takes it elsewhere.
LEMMA OtherStep ==
  ASSUME SupervisedInv,
         \/ UNCHANGED <<phase, tier, commit, verdicts>>
         \/ phase' \in {"staged", "operator"}
         \/ phase' \in {"work", "verified"} /\ UNCHANGED <<phase, tier, commit>>
  PROVE  SupervisedInv'
<1>1. CASE UNCHANGED <<phase, tier, commit, verdicts>>
  BY <1>1 DEF SupervisedInv, CommitInv, SliceIsSupervised, ClosedByTwoStrangers,
              CommitIsSupervised, Landed, Passed
<1>2. CASE phase' \in {"staged", "operator"}
  BY <1>2 DEF SupervisedInv, CommitInv, SliceIsSupervised, ClosedByTwoStrangers,
              CommitIsSupervised, Landed
<1>3. CASE phase' \in {"work", "verified"} /\ UNCHANGED <<phase, tier, commit>>
  BY <1>3 DEF SupervisedInv, CommitInv, SliceIsSupervised, ClosedByTwoStrangers,
              CommitIsSupervised, Landed
<1>. QED  BY <1>1, <1>2, <1>3

LEMMA SupervisedNext ==
  ASSUME SupervisedInv, [Next]_vars  PROVE SupervisedInv'
<1>1. CASE \E v \in Emitted : Emit(v)
  <2>1. phase' \in {"work", "verified"} /\ UNCHANGED <<phase, tier, commit>>
    BY <1>1 DEF Emit
  <2>. QED  BY <2>1, OtherStep
<1>2. CASE (\E s \in Signals : Signal(s)) \/ Ask \/ Pause
  <2>1. UNCHANGED <<phase, tier, commit, verdicts>>
    BY <1>2 DEF Signal, Ask, Pause
  <2>. QED  BY <2>1, OtherStep
<1>3. CASE Done \/ Escalate
  <2>1. phase' \in {"staged", "operator"}
    BY <1>3 DEF Done, Escalate
  <2>. QED  BY <2>1, OtherStep
<1>4. CASE \E p \in Packet(tier) : StepUp(p)
  <2>1. phase' = "work"
    BY <1>4 DEF StepUp, Remediates
  <2>. QED  BY <2>1 DEF SupervisedInv, CommitInv, SliceIsSupervised,
                ClosedByTwoStrangers, CommitIsSupervised, Landed
<1>5. CASE \E v \in Spellings, q \in Party(PodPm), i \in Party(Implementer[tier]),
              truth \in BOOLEAN : Commit(v, q, i, truth)
  BY <1>5, CommitStep
<1>6. CASE \E q \in Party(PodPm), i \in Party(Implementer[tier]), b \in BOOLEAN :
              Land(q, i, b)
  BY <1>6, LandStep
<1>7. CASE \E i \in Party(Implementer[tier]), c \in Party(PodPm),
              vs \in SUBSET verdicts :
              Close([implementer_lane |-> i, closing_authority |-> c,
                     verdicts |-> vs])
  BY <1>7, CloseStep
<1>8. CASE \/ \E actor, by \in Spellings, type \in ActionTypes, lateral \in BOOLEAN :
                ChangeRoster([actor |-> actor, authorized_by |-> by,
                              action_type |-> type, lateral |-> lateral])
           \/ \E c \in Coordinators, restaff \in BOOLEAN : AskRollOver(c, restaff)
           \/ \E c \in Coordinators, upper \in BOOLEAN : RollOver(c, upper)
  <2>1. UNCHANGED <<phase, tier, commit, verdicts>>
    BY <1>8 DEF ChangeRoster, AskRollOver, RollOver
  <2>. QED  BY <2>1, OtherStep
<1>9. CASE UNCHANGED vars
  <2>1. UNCHANGED <<phase, tier, commit, verdicts>>
    BY <1>9 DEF vars
  <2>. QED  BY <2>1, OtherStep
<1>. QED  BY <1>1, <1>2, <1>3, <1>4, <1>5, <1>6, <1>7, <1>8, <1>9 DEF Next

(* Whatever the seats, the spellings and the verdicts that occur: a slice   *)
(* is closed by two strangers over a commit that an executive answers for   *)
(* (validateClosureIndependence, validateCommitGate).                       *)
THEOREM SlicesAreSupervised == Spec => []SliceIsSupervised
<1>1. SupervisedInv => SliceIsSupervised
  BY DEF SupervisedInv
<1>. QED  BY SupervisedInit, SupervisedNext, <1>1, PTL DEF Spec

-----------------------------------------------------------------------------
(* The ladder *)

\* An answer sends the slice to the operator at the reserve tier alone; it may
\* be stale by the time it is followed, but not about the tier.
SaidInv == said # NoAnswer /\ said.verdict = "ESCALATE_OPERATOR" => AtReserveTier(tier)

LadderInv == tier \in Tier /\ failed \subseteq Tier /\ SaidInv /\ LadderIsHonest

LEMMA LadderInit ==  Init => LadderInv
BY SliceAssumption DEF Init, LadderInv, SaidInv, LadderIsHonest, Tier

LEMMA AskStep ==
  ASSUME LadderInv, Ask  PROVE LadderInv'
<1>1. said'.verdict = "ESCALATE_OPERATOR" => AtReserveTier(tier)
  BY DEF Ask, evaluateEscalationGate, Answer
<1>2. UNCHANGED <<phase, tier, lane, bar, unquoted, failed>>
  BY DEF Ask
<1>. QED  BY <1>1, <1>2 DEF LadderInv, SaidInv, LadderIsHonest, AtReserveTier

LEMMA StepUpStep ==
  ASSUME LadderInv, NEW p \in Packet(tier), StepUp(p)  PROVE LadderInv'
<1>1. /\ tier' = tier + 1 /\ tier + 1 < TierCount
      /\ lane' = tier'
      /\ failed' = failed \cup {tier}
      /\ said' = NoAnswer /\ phase' = "work"
  <2>1. p.tier_index = tier
    BY DEF Packet
  <2>. QED
    BY <2>1 DEF StepUp, Remediates, validateRemediationPacket, NextIsOneUp, LaneTravels
<1>2. tier \in 0 .. TierCount - 1 /\ 0 .. tier - 1 \subseteq failed
  BY DEF LadderInv, LadderIsHonest, Tier
<1>3. tier' \in Tier /\ failed' \subseteq Tier
  BY <1>1, <1>2, SliceAssumption DEF LadderInv, Tier
<1>4. 0 .. tier' - 1 \subseteq failed'
  BY <1>1, <1>2, SliceAssumption
<1>5. bar' # "original" => tier' - 1 \in unquoted'
  <2>1. bar' = p.acceptance_bar /\ BarIsKept(p)
    BY DEF StepUp, validateRemediationPacket
  <2>2. bar' # "original" => p.original_acceptance_bar # "original"
    BY <2>1 DEF BarIsKept
  <2>3. tier' - 1 = tier
    BY <1>1, <1>2, SliceAssumption
  <2>. QED  BY <2>2, <2>3 DEF StepUp
<1>. QED  BY <1>1, <1>3, <1>4, <1>5 DEF LadderInv, SaidInv, LadderIsHonest

LEMMA EscalateStep ==
  ASSUME LadderInv, Escalate  PROVE LadderInv'
<1>1. /\ UNCHANGED <<tier, lane, bar, unquoted>>
      /\ failed' = failed \cup {tier}
      /\ said' = NoAnswer
  BY DEF Escalate
<1>2. tier = TierCount - 1 /\ tier \in Tier /\ failed \subseteq Tier
      /\ 0 .. tier - 1 \subseteq failed
  BY DEF Escalate, LadderInv, SaidInv, LadderIsHonest, AtReserveTier
<1>3. failed' = Tier
  <2>1. ASSUME NEW r \in Tier  PROVE r \in 0 .. tier - 1 \/ r = tier
    BY <1>2, SliceAssumption DEF Tier
  <2>. QED  BY <1>1, <1>2, <2>1
<1>. QED  BY <1>1, <1>2, <1>3 DEF LadderInv, SaidInv, LadderIsHonest

\* A step off the ladder does not touch it, nor reach the operator.
LEMMA LadderKept ==
  ASSUME LadderInv, UNCHANGED <<tier, lane, bar, unquoted, failed>>,
         said' \in {said, NoAnswer}, phase' # "operator" \/ phase' = phase
  PROVE  LadderInv'
BY DEF LadderInv, SaidInv, LadderIsHonest, AtReserveTier

(* For any ladder and any packets the validator takes: no rung is skipped,  *)
(* the reviewers move with the slice, its bar is the assignment's unless    *)
(* the last packet did not quote that one, and the operator sees the slice  *)
(* when every rung has failed (evaluateEscalationGate,                      *)
(* validateRemediationPacket).                                              *)
THEOREM LaddersAreHonest == Spec => []LadderIsHonest
<1>1. ASSUME LadderInv, [Next]_vars  PROVE LadderInv'
  <2>1. CASE Ask
    BY <1>1, <2>1, AskStep
  <2>2. CASE \E p \in Packet(tier) : StepUp(p)
    BY <1>1, <2>2, StepUpStep
  <2>3. CASE Escalate
    BY <1>1, <2>3, EscalateStep
  <2>4. CASE \/ \E v \in Emitted : Emit(v)
             \/ \E s \in Signals : Signal(s)
             \/ Done \/ Pause
    <3>1. /\ UNCHANGED <<tier, lane, bar, unquoted, failed>>
          /\ said' \in {said, NoAnswer}
          /\ phase' # "operator" \/ phase' = phase
      BY <2>4 DEF Emit, Signal, Done, Pause
    <3>. QED  BY <1>1, <3>1, LadderKept
  <2>5. CASE \/ \E v \in Spellings, q \in Party(PodPm), i \in Party(Implementer[tier]),
                   truth \in BOOLEAN : Commit(v, q, i, truth)
             \/ \E q \in Party(PodPm), i \in Party(Implementer[tier]), b \in BOOLEAN :
                   Land(q, i, b)
             \/ \E i \in Party(Implementer[tier]), c \in Party(PodPm),
                   vs \in SUBSET verdicts :
                   Close([implementer_lane |-> i, closing_authority |-> c,
                          verdicts |-> vs])
    <3>1. /\ UNCHANGED <<tier, lane, bar, unquoted, failed, said>>
          /\ phase' # "operator"
      BY <2>5 DEF Commit, Land, Close
    <3>. QED  BY <1>1, <3>1, LadderKept
  <2>6. CASE \/ \E actor, by \in Spellings, type \in ActionTypes, lateral \in BOOLEAN :
                  ChangeRoster([actor |-> actor, authorized_by |-> by,
                                action_type |-> type, lateral |-> lateral])
             \/ \E c \in Coordinators, restaff \in BOOLEAN : AskRollOver(c, restaff)
             \/ \E c \in Coordinators, upper \in BOOLEAN : RollOver(c, upper)
             \/ UNCHANGED vars
    <3>1. UNCHANGED <<phase, tier, lane, bar, unquoted, failed, said>>
      BY <2>6 DEF ChangeRoster, AskRollOver, RollOver, vars
    <3>. QED  BY <1>1, <3>1, LadderKept
  <2>. QED  BY <1>1, <2>1, <2>2, <2>3, <2>4, <2>5, <2>6 DEF Next
<1>2. LadderInv => LadderIsHonest
  BY DEF LadderInv
<1>. QED  BY LadderInit, <1>1, <1>2, PTL DEF Spec

-----------------------------------------------------------------------------
(* The baton *)

(* At any rung and whatever was observed: an agent that follows the gate's  *)
(* requirements to the letter has a packet the validator accepts            *)
(* (requiredRemediationPacket, validateRemediationPacket).                  *)
THEOREM BatonsAreAccepted == Spec => []BatonIsAccepted
<1>1. BatonIsAccepted
  BY DEF BatonIsAccepted, evaluateEscalationGate, Answer, RequiredPacket,
         PacketFailedGate, validateRemediationPacket, REMEDIATION_FAILED_GATES,
         NextIsOneUp, LaneTravels, BarIsKept
<1>. QED  BY <1>1, PTL DEF Spec
-----------------------------------------------------------------------------
(* The roster *)

\* Whom a change of the roster that is let through was authorized by.
LEMMA RosterAuthority ==
  ASSUME NEW a, validateAuthorityAction(a)
  PROVE  validateCommitGate(
           [issued_by |-> a.authorized_by, verified_ground_truth |-> TRUE,
            committed |-> FALSE, exec_reverified |-> FALSE], a.actor, a.actor)
BY DEF validateAuthorityAction, validateCommitGate, hasRosterMutationAuthority,
       hasExecutiveAuthority, ROSTER_MUTATION_AUTHORITY_SLOTS

\* Whoever may commit what the pod made may also change the pod.
LEMMA CommitAuthority ==
  ASSUME UnreadableIsNoSeat, CommitInv, CommitIsSupervised, Landed
  PROVE  validateAuthorityAction(
           [actor |-> Spelled(PodPm, "exact"), authorized_by |-> commit.issued_by,
            action_type |-> "RESTAFF", lateral |-> FALSE])
<1>1. canonicalRoleSlot(Spelled(PodPm, "exact")) = PodPm
  BY DEF canonicalRoleSlot, Spelled, Readable
<1>2. /\ canonicalRoleSlot(commit.issued_by) = commit.issued_by.seat
      /\ canonicalRoleSlot(commit.issued_by) # Unreadable
      /\ commit.issued_by.seat \in RATIFIED_COMMIT_ISSUER_SLOTS
      /\ commit.issued_by.seat # PodPm
  BY DEF CommitInv, CommitIsSupervised
<1>3. /\ hasRosterMutationAuthority(commit.issued_by)
      /\ ~roleSlotsEqual(commit.issued_by, Spelled(PodPm, "exact"))
  BY <1>1, <1>2 DEF hasRosterMutationAuthority, ROSTER_MUTATION_AUTHORITY_SLOTS,
                    roleSlotsEqual
<1>. QED  BY <1>1, <1>2, <1>3
          DEF validateAuthorityAction, rosterMutations, UnreadableIsNoSeat

\* A change of the roster would have been a legal commit of its authorizer.
RosterInv ==
  \A a \in roster : validateCommitGate(
    [issued_by |-> a.authorized_by, verified_ground_truth |-> TRUE,
     committed |-> FALSE, exec_reverified |-> FALSE], a.actor, a.actor)

LEMMA RosterChange ==
  ASSUME NEW a, ChangeRoster(a)  PROVE RosterInv'
<1>1. roster' = {a} /\ validateAuthorityAction(a)
  BY DEF ChangeRoster
<1>. QED  BY <1>1, RosterAuthority DEF RosterInv

\* The letter of a rollover is one that no team has.
LEMMA RolloverLetter ==
  ASSUME NEW used, NEW paused, NEW preserved, NEW restaff,
         evaluateBlockedPodRollover(used, paused, preserved, restaff)
           # "ESCALATE_OPERATOR"
  PROVE  /\ evaluateBlockedPodRollover(used, paused, preserved, restaff) \in Letter
         /\ evaluateBlockedPodRollover(used, paused, preserved, restaff)
              \notin UpperCased(used)
<1>. DEFINE free == { i \in DOMAIN ROLLOVER_LETTERS :
                        ROLLOVER_LETTERS[i] \notin UpperCased(used) }
            first == CHOOSE i \in free : \A j \in free : i <= j
<1>1. /\ free # {}
      /\ evaluateBlockedPodRollover(used, paused, preserved, restaff)
           = ROLLOVER_LETTERS[first]
  BY DEF evaluateBlockedPodRollover
<1>2. free \subseteq 1 .. 5
  BY DEF ROLLOVER_LETTERS
<1>3. \E i \in free : \A j \in free : i <= j
  <2>1. PICK k \in 1 .. 5 : k \in free /\ \A j \in 1 .. 5 : j < k => j \notin free
    BY <1>1, <1>2
  <2>. QED  BY <1>2, <2>1
<1>4. /\ ROLLOVER_LETTERS[first] \notin UpperCased(used)
      /\ first \in DOMAIN ROLLOVER_LETTERS
  BY <1>3
<1>. QED  BY <1>1, <1>4 DEF Letter

LEMMA FreeLetter ==
  ASSUME NEW used, NEW paused, NEW preserved, NEW restaff,
         evaluateBlockedPodRollover(used, paused, preserved, restaff)
           # "ESCALATE_OPERATOR"
  PROVE  \A t \in used :
           t.letter # evaluateBlockedPodRollover(used, paused, preserved, restaff)
BY RolloverLetter DEF UpperCased

\* What a coordinator holds is a letter that no team had when it asked, and it
\* has spun no team since.
OffersInv ==
  /\ DOMAIN offers = Coordinators
  /\ \A c \in Coordinators : offers[c] # NoAnswer =>
       /\ offers[c].letter \in Letter
       /\ \A t \in offers[c].saw : t.letter # offers[c].letter
       /\ \A t \in teams \ offers[c].saw : t.by # c

LEMMA AskRollOverStep ==
  ASSUME OffersInv, NEW c \in Coordinators, NEW restaff, AskRollOver(c, restaff)
  PROVE  OffersInv'
<1>. DEFINE next == evaluateBlockedPodRollover(teams, pod.paused, pod.preserved, restaff)
<1>1. /\ next # "ESCALATE_OPERATOR"
      /\ offers' = [offers EXCEPT ![c] = [letter |-> next, saw |-> teams]]
      /\ teams' = teams
  BY DEF AskRollOver
<1>2. next \in Letter /\ \A t \in teams : t.letter # next
  BY <1>1, FreeLetter, RolloverLetter
<1>. HIDE DEF next
<1>. QED  BY <1>1, <1>2 DEF OffersInv

\* The team a coordinator spins, and whom it may share its letter with.
LEMMA SpunTeam ==
  ASSUME OffersInv, NEW c \in Coordinators, NEW upper, RollOver(c, upper)
  PROVE  \E u : /\ teams' = teams \cup {u}
                /\ u = [letter |-> offers[c].letter, upper |-> upper, by |-> c,
                        fresh |-> offers[c].saw = teams]
                /\ u.letter \in Letter /\ u.by = c
                /\ \A t \in teams : t.letter = u.letter => t.by # c /\ ~u.fresh
<1>. DEFINE u == [letter |-> offers[c].letter, upper |-> upper, by |-> c,
                  fresh |-> offers[c].saw = teams]
<1>1. offers[c] # NoAnswer /\ teams' = teams \cup {u}
  BY DEF RollOver
<1>2. ASSUME NEW t \in teams, t.letter = u.letter  PROVE t.by # c /\ ~u.fresh
  <2>1. t \notin offers[c].saw
    BY <1>1, <1>2 DEF OffersInv
  <2>. QED  BY <1>1, <2>1 DEF OffersInv
<1>. QED  BY <1>1, <1>2 DEF OffersInv

LEMMA RollOverStep ==
  ASSUME OffersInv, NEW c \in Coordinators, NEW upper, RollOver(c, upper)
  PROVE  OffersInv' /\ (NoTwinTeams => NoTwinTeams')
<1>1. PICK u : /\ teams' = teams \cup {u}
               /\ u.by = c
               /\ \A t \in teams : t.letter = u.letter => t.by # c /\ ~u.fresh
  BY SpunTeam
<1>2. offers' = [offers EXCEPT ![c] = NoAnswer]
  BY DEF RollOver
<1>3. OffersInv'
  <2>1. DOMAIN offers' = Coordinators /\ offers'[c] = NoAnswer
    BY <1>2 DEF OffersInv
  <2>2. ASSUME NEW d \in Coordinators, offers'[d] # NoAnswer
        PROVE  /\ offers'[d].letter \in Letter
               /\ \A t \in offers'[d].saw : t.letter # offers'[d].letter
               /\ \A t \in teams' \ offers'[d].saw : t.by # d
    <3>1. d # c /\ offers'[d] = offers[d]
      BY <1>2, <2>1, <2>2 DEF OffersInv
    <3>. QED  BY <1>1, <2>2, <3>1 DEF OffersInv
  <2>. QED  BY <2>1, <2>2 DEF OffersInv
<1>4. NoTwinTeams => NoTwinTeams'
  BY <1>1 DEF NoTwinTeams
<1>. QED  BY <1>3, <1>4

(* Whatever the seats and spellings: the commit gate and the roster gate    *)
(* accept the same authorities, and two pods share a letter only if two     *)
(* coordinators spun them from overlapping lists (validateAuthorityAction,  *)
(* validateCommitGate, evaluateBlockedPodRollover).                         *)
THEOREM RostersAreSound ==
  ASSUME UnreadableIsNoSeat
  PROVE  Spec => []RosterIsSound
<1>. DEFINE Inv == RosterInv /\ OffersInv /\ NoTwinTeams
<1>1. Init => Inv
  BY DEF Init, RosterInv, OffersInv, NoTwinTeams
<1>2. ASSUME Inv, [Next]_vars  PROVE Inv'
  <2>1. CASE \E actor, by \in Spellings, type \in ActionTypes, lateral \in BOOLEAN :
                ChangeRoster([actor |-> actor, authorized_by |-> by,
                              action_type |-> type, lateral |-> lateral])
    <3>1. UNCHANGED <<teams, offers>>
      BY <2>1 DEF ChangeRoster
    <3>. QED  BY <1>2, <2>1, <3>1, RosterChange DEF NoTwinTeams, OffersInv
  <2>2. CASE \E c \in Coordinators, restaff \in BOOLEAN : AskRollOver(c, restaff)
    <3>1. UNCHANGED <<roster, teams>>
      BY <2>2 DEF AskRollOver
    <3>. QED  BY <1>2, <2>2, <3>1, AskRollOverStep DEF RosterInv, NoTwinTeams
  <2>3. CASE \E c \in Coordinators, upper \in BOOLEAN : RollOver(c, upper)
    <3>1. roster' = roster
      BY <2>3 DEF RollOver
    <3>. QED  BY <1>2, <2>3, <3>1, RollOverStep DEF RosterInv
  <2>4. CASE UNCHANGED <<roster, teams, offers>>
    BY <1>2, <2>4 DEF RosterInv, NoTwinTeams, OffersInv
  <2>. QED  BY <1>2, <2>1, <2>2, <2>3, <2>4
            DEF Next, vars, Emit, Signal, Ask, Done, StepUp, Escalate, Commit, Land,
                Close, Pause
<1>3. SupervisedInv /\ Inv => RosterIsSound
  BY CommitAuthority, UnreadableIsNoSeat
     DEF SupervisedInv, SliceIsSupervised, RosterInv, RosterIsSound, OneAuthority
<1>4. Spec => []SupervisedInv
  BY SupervisedInit, SupervisedNext, PTL DEF Spec
<1>. QED  BY <1>1, <1>2, <1>3, <1>4, PTL DEF Spec

-----------------------------------------------------------------------------
(* Types *)

SliceTypes == TypeOK /\ OffersInv /\ IsFiniteSet(verdicts)

LEMMA SliceTypesInit == Init => SliceTypes
<1>. SUFFICES ASSUME Init PROVE SliceTypes
  OBVIOUS
<1>1. "B" \in Letter
  <2>1. 1 \in DOMAIN ROLLOVER_LETTERS /\ ROLLOVER_LETTERS[1] = "B"
    BY DEF ROLLOVER_LETTERS
  <2>. QED  BY <2>1 DEF Letter
<1>2. tier \in Tier /\ lane \in Nat
  BY SliceAssumption DEF Init, Tier
<1>3. Cardinality(verdicts) <= MaxVerdicts /\ IsFiniteSet(verdicts)
  BY FS_EmptySet, SliceAssumption DEF Init
<1>. QED  BY <1>1, <1>2, <1>3 DEF Init, SliceTypes, TypeOK, OffersInv

LEMMA EmitTypes ==
  ASSUME SliceTypes, NEW v \in Emitted, Emit(v)  PROVE SliceTypes'
<1>1. /\ verdicts' = verdicts \cup {v}
      /\ UNCHANGED <<phase, tier, lane, bar, unquoted, failed, teams, offers>>
      /\ Cardinality(verdicts) < MaxVerdicts
  BY DEF Emit
<1>2. IsFiniteSet(verdicts) /\ Cardinality(verdicts) \in Nat
  BY FS_CardinalityType DEF SliceTypes
<1>3. /\ IsFiniteSet(verdicts')
      /\ Cardinality(verdicts') \in {Cardinality(verdicts), Cardinality(verdicts) + 1}
  BY <1>1, <1>2, FS_AddElement
<1>4. Cardinality(verdicts') <= MaxVerdicts
  BY <1>1, <1>2, <1>3, SliceAssumption
<1>. QED  BY <1>1, <1>3, <1>4 DEF SliceTypes, TypeOK, OffersInv

LEMMA StepUpTypes ==
  ASSUME SliceTypes, NEW p \in Packet(tier), StepUp(p)  PROVE SliceTypes'
<1>1. /\ p.next_tier_index \in Tier /\ p.review_lane_tier_index \in Nat
      /\ p.acceptance_bar \in {"original", "softened"}
  BY SliceAssumption
     DEF StepUp, Packet, Tier, validateRemediationPacket, BarIsKept
<1>2. unquoted' \subseteq Tier /\ failed' \subseteq Tier
  BY DEF StepUp, SliceTypes, TypeOK
<1>3. OffersInv' /\ IsFiniteSet(verdicts')
  BY DEF StepUp, SliceTypes, OffersInv
<1>. QED  BY <1>1, <1>2, <1>3 DEF StepUp, SliceTypes, TypeOK

LEMMA RollOverTypes ==
  ASSUME SliceTypes, NEW c \in Coordinators, NEW upper \in BOOLEAN,
         RollOver(c, upper)
  PROVE  TypeOK' /\ IsFiniteSet(verdicts')
<1>1. PICK u : /\ teams' = teams \cup {u} /\ u.letter \in Letter
               /\ u = [letter |-> offers[c].letter, upper |-> upper, by |-> c,
                       fresh |-> offers[c].saw = teams]
  BY SpunTeam DEF SliceTypes
<1>2. u \in [letter : Letter, upper : BOOLEAN, by : Coordinators \cup {NoAnswer},
            fresh : BOOLEAN]
  BY <1>1
<1>3. UNCHANGED <<phase, tier, lane, bar, unquoted, verdicts, failed>>
  BY DEF RollOver
<1>. QED  BY <1>1, <1>2, <1>3 DEF SliceTypes, TypeOK

(* The slice stays on a rung of the ladder, on file are at most so many     *)
(* verdicts of those that are emitted, and teams have letters that the      *)
(* rollover hands out (evaluateEscalationGate, evaluateBlockedPodRollover). *)
THEOREM SliceTypeCorrect == Spec => []TypeOK
<1>1. ASSUME SliceTypes, [Next]_vars  PROVE SliceTypes'
  <2>1. CASE \E v \in Emitted : Emit(v)
    BY <1>1, <2>1, EmitTypes
  <2>2. CASE \E p \in Packet(tier) : StepUp(p)
    BY <1>1, <2>2, StepUpTypes
  <2>3. CASE Escalate
    <3>1. IsFiniteSet(verdicts') /\ Cardinality(verdicts') <= MaxVerdicts
      BY <2>3, FS_EmptySet, SliceAssumption DEF Escalate
    <3>. QED  BY <1>1, <2>3, <3>1 DEF Escalate, SliceTypes, TypeOK, OffersInv
  <2>4. CASE \E c \in Coordinators, restaff \in BOOLEAN : AskRollOver(c, restaff)
    <3>1. UNCHANGED <<phase, tier, lane, bar, unquoted, verdicts, failed, teams>>
      BY <2>4 DEF AskRollOver
    <3>. QED  BY <1>1, <2>4, <3>1, AskRollOverStep DEF SliceTypes, TypeOK
  <2>5. CASE \E c \in Coordinators, upper \in BOOLEAN : RollOver(c, upper)
    BY <1>1, <2>5, RollOverTypes, RollOverStep DEF SliceTypes
  <2>6. CASE /\ phase' \in {phase, "staged", "committed", "verified", "closed"}
             /\ UNCHANGED <<tier, lane, bar, unquoted, verdicts, failed, teams,
                            offers>>
    BY <1>1, <2>6 DEF SliceTypes, TypeOK, OffersInv
  <2>. QED  BY <1>1, <2>1, <2>2, <2>3, <2>4, <2>5, <2>6
            DEF Next, vars, Signal, Ask, Done, Commit, Land, Close, ChangeRoster, Pause
<1>2. SliceTypes => TypeOK
  BY DEF SliceTypes
<1>. QED  BY SliceTypesInit, <1>1, <1>2, PTL DEF Spec
=============================================================================
