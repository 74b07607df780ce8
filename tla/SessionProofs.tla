---------------------------- MODULE SessionProofs ----------------------------
(***************************************************************************)
(* What the gates of a session are worth, for every number of teams, set   *)
(* of packets, events, files, providers and rungs: the layout of the       *)
(* teams, the delivery of work, the continuity of the pod.                 *)
(***************************************************************************)
EXTENDS MCSession, FiniteSetTheorems, TLAPS

-----------------------------------------------------------------------------
(* The layout is packed for every number of teams, and growing it moves    *)
(* nobody but the guest of A's column, whatever the EXEC PM goes by.       *)
(* The second needs an invariant that survives an EXEC PM that goes by the *)
(* checklist and so leaves surfaces behind: every team is either where it  *)
(* would be without a guest, or below A.                                   *)

\* Where a team is when it is nobody's guest.
Place(t) == IF t = 0 THEN At(0, 0) ELSE At((t + 1) \div 2, (t + 1) % 2)

\* The teams there are, each in its place or below A.
Seated(n) ==
  /\ DOMAIN wall = TeamsOf(n)
  /\ \A t \in TeamsOf(n) : wall[t] = Place(t) \/ (wall[t] = At(0, 1) /\ t # 0)

\* An answer of the gate is for more teams than there are.
Awaited(n) == gate # Unasked => gate.to \in Nat /\ gate.to > n

\* What boot receipts say of a team is where it is, or that it is below A.
Reported(n) ==
  /\ DOMAIN booted = TeamsOf(n)
  /\ \A t \in TeamsOf(n) : booted[t] = wall[t].column \/ booted[t] = 0

IInv == \E n \in Nat \ {0} : Seated(n) /\ Awaited(n) /\ Reported(n)

-----------------------------------------------------------------------------
LEMMA TeamsCounted ==
  ASSUME NEW n \in Nat
  PROVE  IsFiniteSet(TeamsOf(n)) /\ Cardinality(TeamsOf(n)) = n
<1>1. CASE n = 0
  <2>1. TeamsOf(n) = {}
    BY <1>1, SMT DEF TeamsOf
  <2>. QED  BY <1>1, <2>1, FS_EmptySet
<1>2. CASE n # 0
  <2>1. 0 \in Int /\ n - 1 \in Int /\ 0 <= n - 1
    BY <1>2, SMT
  <2>. QED  BY <2>1, FS_Interval, SMT DEF TeamsOf
<1>. QED  BY <1>1, <1>2

\* A team that is there already is nobody's guest in a larger layout.
LEMMA TargetOfStaffed ==
  ASSUME NEW n \in Nat \ {0}, NEW m \in Nat, m > n, NEW t \in TeamsOf(n)
  PROVE  t \in TeamsOf(m) /\ computeSurfaceLayout(m)[t] = Place(t)
<1>1. t \in TeamsOf(m) /\ t # m - 1
  BY SMT DEF TeamsOf
<1>. QED  BY <1>1, SMT DEF computeSurfaceLayout, Place

LEMMA TargetInPlace ==
  ASSUME NEW m \in Nat, NEW t \in TeamsOf(m)
  PROVE  \/ computeSurfaceLayout(m)[t] = Place(t)
         \/ computeSurfaceLayout(m)[t] = At(0, 1) /\ t # 0
BY SMT DEF computeSurfaceLayout, Place, TeamsOf

-----------------------------------------------------------------------------
LEMMA StaffedIs ==
  ASSUME NEW n \in Nat \ {0}, Seated(n)
  PROVE  Staffed = n
BY TeamsCounted DEF Seated, Staffed

LEMMA InitSeated == WallInit => IInv
<1>. SUFFICES ASSUME WallInit PROVE Seated(1) /\ Awaited(1) /\ Reported(1)
  BY DEF IInv
<1>1. \A t \in TeamsOf(1) : t = 0
  BY SMT DEF TeamsOf
<1>2. Seated(1)
  BY <1>1, SMT DEF WallInit, Seated, computeSurfaceLayout, Place
<1>3. Awaited(1) /\ Reported(1)
  BY DEF WallInit, Awaited, Reported
<1>. QED  BY <1>2, <1>3

LEMMA AskSeated ==
  ASSUME LayoutAssumption, IInv, NEW to \in 1 .. MAX_TEAMS, NEW o, AskGate(to, o)
  PROVE  IInv'
<1>1. PICK n \in Nat \ {0} : Seated(n) /\ Awaited(n) /\ Reported(n)
  BY DEF IInv
<1>2. to \in Nat /\ to > n
  BY <1>1, StaffedIs, SMT DEF AskGate, LayoutAssumption
<1>3. gate'.to = to
  BY DEF AskGate, computeSurfaceLayoutGate
<1>4. Seated(n)' /\ Reported(n)'
  BY <1>1 DEF AskGate, Seated, Reported
<1>5. Awaited(n)'
  BY <1>2, <1>3 DEF Awaited
<1>. QED  BY <1>4, <1>5 DEF IInv

\* What the larger wall holds: the old places, or those of the layout.
LEMMA GrowPlaces ==
  ASSUME NEW n \in Nat \ {0}, Seated(n), Awaited(n), NEW follow, Grow(follow)
  PROVE  /\ gate.to \in Nat /\ gate.to > n
         /\ DOMAIN wall' = TeamsOf(gate.to)
         /\ \A t \in TeamsOf(gate.to) :
              \/ wall'[t] = computeSurfaceLayout(gate.to)[t]
              \/ t \in TeamsOf(n) /\ wall'[t] = wall[t]
<1>1. gate.to \in Nat /\ gate.to > n
  BY DEF Grow, Awaited
<1>2. DOMAIN wall' = TeamsOf(gate.to)
  BY DEF Grow
<1>3. ASSUME NEW t \in TeamsOf(gate.to)
      PROVE  \/ wall'[t] = computeSurfaceLayout(gate.to)[t]
             \/ t \in TeamsOf(n) /\ wall'[t] = wall[t]
  BY DEF Grow, Seated
<1>. QED  BY <1>1, <1>2, <1>3

LEMMA GrowSeated ==
  ASSUME IInv, NEW follow, Grow(follow)
  PROVE  IInv'
<1>1. PICK n \in Nat \ {0} : Seated(n) /\ Awaited(n) /\ Reported(n)
  BY DEF IInv
<1>0. PICK m : m = gate.to
  OBVIOUS
<1>2. /\ m \in Nat /\ m > n /\ DOMAIN wall' = TeamsOf(m)
      /\ \A t \in TeamsOf(m) : \/ wall'[t] = computeSurfaceLayout(m)[t]
                               \/ t \in TeamsOf(n) /\ wall'[t] = wall[t]
  BY <1>0, <1>1, GrowPlaces
<1>3. Seated(m)'
  <2>1. ASSUME NEW t \in TeamsOf(m)
        PROVE  wall'[t] = Place(t) \/ (wall'[t] = At(0, 1) /\ t # 0)
    BY <1>1, <1>2, TargetInPlace DEF Seated
  <2>. QED  BY <1>2, <2>1 DEF Seated, Grow
<1>4. Reported(m)'
  <2>1. DOMAIN booted' = TeamsOf(m)
    BY <1>0 DEF Grow
  <2>2. ASSUME NEW t \in TeamsOf(m), t \in TeamsOf(n)
        PROVE  booted'[t] = wall'[t].column \/ booted'[t] = 0
    <3>1. booted'[t] = booted[t]
      BY <1>0, <1>1, <2>2 DEF Grow, Seated
    <3>2. wall'[t] = wall[t] \/ wall'[t] = Place(t)
      BY <1>1, <1>2, <2>2, TargetOfStaffed
    <3>3. wall[t].column = 0 \/ wall[t] = Place(t)
      BY <1>1, <2>2 DEF Seated, At
    <3>. QED  BY <1>1, <2>2, <3>1, <3>2, <3>3 DEF Reported
  <2>3. ASSUME NEW t \in TeamsOf(m), t \notin TeamsOf(n)
        PROVE  booted'[t] = wall'[t].column
    BY <1>0, <1>1, <1>2, <2>3 DEF Grow, Seated
  <2>. QED  BY <2>1, <2>2, <2>3 DEF Reported, Grow
<1>5. Awaited(m)'
  BY DEF Grow, Awaited
<1>6. m \in Nat \ {0}
  BY <1>1, <1>2, SMT
<1>. QED  BY <1>3, <1>4, <1>5, <1>6 DEF IInv

LEMMA StepSeated ==
  ASSUME LayoutAssumption, IInv, [WallNext]_wallVars
  PROVE  IInv'
<1>1. ASSUME NEW to \in 1 .. MAX_TEAMS, NEW o \in Options, AskGate(to, o)
      PROVE  IInv'
  BY <1>1, AskSeated
<1>2. ASSUME Retry PROVE IInv'
  BY <1>2 DEF Retry, IInv, Seated, Awaited, Reported
<1>3. ASSUME NEW follow \in Follows, Grow(follow) PROVE IInv'
  BY <1>3, GrowSeated
<1>4. ASSUME UNCHANGED wallVars PROVE IInv'
  BY <1>4 DEF wallVars, IInv, Seated, Awaited, Reported
<1>. QED  BY <1>1, <1>2, <1>3, <1>4 DEF WallNext

-----------------------------------------------------------------------------
\* A step that grows the wall moves nobody but who is below A.
LEMMA GrowMoves ==
  ASSUME IInv, NEW follow, Grow(follow), NEW t \in DOMAIN wall
  PROVE  t \in DOMAIN wall' /\ (wall'[t] = wall[t] \/ wall[t] = At(0, 1))
<1>1. PICK n \in Nat \ {0} : Seated(n) /\ Awaited(n) /\ Reported(n)
  BY DEF IInv
<1>2. t \in TeamsOf(n)
  BY <1>1 DEF Seated
<1>3. gate.to \in Nat /\ gate.to > n /\ DOMAIN wall' = TeamsOf(gate.to)
  BY <1>1, GrowPlaces
<1>4. t \in TeamsOf(gate.to) /\ computeSurfaceLayout(gate.to)[t] = Place(t)
  BY <1>2, <1>3, TargetOfStaffed
<1>5. wall'[t] = Place(t) \/ wall'[t] = wall[t]
  BY <1>1, <1>4, GrowPlaces
<1>. QED  BY <1>1, <1>2, <1>3, <1>4, <1>5 DEF Seated

(* Growing the wall moves nobody but the team below A, for every limit on   *)
(* the teams, every answer of the gate and whatever the EXEC PM goes by.    *)
THEOREM GuestMovesAlone ==
  ASSUME LayoutAssumption
  PROVE  WallSpec => OnlyTheGuestMoves
<1>1. IInv /\ [WallNext]_wallVars =>
        [\A t \in DOMAIN wall :
           t \in DOMAIN wall' /\ (wall'[t] = wall[t] \/ wall[t] = At(0, 1))]_wallVars
  <2>. SUFFICES ASSUME IInv, WallNext, NEW t \in DOMAIN wall
                PROVE  t \in DOMAIN wall' /\ (wall'[t] = wall[t] \/ wall[t] = At(0, 1))
    OBVIOUS
  <2>1. ASSUME NEW follow \in Follows, Grow(follow)
        PROVE  t \in DOMAIN wall' /\ (wall'[t] = wall[t] \/ wall[t] = At(0, 1))
    BY <2>1, GrowMoves
  <2>2. ASSUME wall' = wall
        PROVE  t \in DOMAIN wall' /\ (wall'[t] = wall[t] \/ wall[t] = At(0, 1))
    BY <2>2
  <2>. QED  BY <2>1, <2>2 DEF WallNext, AskGate, Retry
<1>2. IInv /\ [WallNext]_wallVars => IInv'
  BY StepSeated
<1>. QED  BY InitSeated, <1>1, <1>2, PTL DEF WallSpec, OnlyTheGuestMoves

(* A boot receipt's column stays that of its team, unless the team booted   *)
(* below A: that receipt reports column 0 for good.                         *)
THEOREM ReceiptsKeep ==
  ASSUME LayoutAssumption
  PROVE  WallSpec => []ReceiptsKeepTheirColumn
<1>1. IInv => ReceiptsKeepTheirColumn
  BY DEF IInv, Seated, Reported, ReceiptsKeepTheirColumn
<1>2. IInv /\ [WallNext]_wallVars => IInv'
  BY StepSeated
<1>. QED  BY InitSeated, <1>1, <1>2, PTL DEF WallSpec

-----------------------------------------------------------------------------
(* The layouts themselves. *)
LEMMA PlacesDiffer ==
  ASSUME NEW t \in Nat, NEW u \in Nat, Place(t) = Place(u)
  PROVE  t = u
<1>1. CASE t = 0 /\ u # 0
  <2>1. (u + 1) \div 2 # 0
    BY <1>1, SMT
  <2>. QED  BY <1>1, <2>1 DEF Place, At
<1>2. CASE t # 0 /\ u = 0
  <2>1. (t + 1) \div 2 # 0
    BY <1>2, SMT
  <2>. QED  BY <1>2, <2>1 DEF Place, At
<1>3. CASE t # 0 /\ u # 0
  <2>1. (t + 1) \div 2 = (u + 1) \div 2 /\ (t + 1) % 2 = (u + 1) % 2
    BY <1>3 DEF Place, At
  <2>. QED  BY <2>1, SMT
<1>. QED  BY <1>1, <1>2, <1>3

LEMMA NobodyPlacedBelowA ==
  ASSUME NEW t \in Nat
  PROVE  Place(t) # At(0, 1)
<1>1. CASE t = 0
  BY <1>1 DEF Place, At
<1>2. CASE t # 0
  <2>1. (t + 1) \div 2 # 0
    BY <1>2, SMT
  <2>. QED  BY <1>2, <2>1 DEF Place, At
<1>. QED  BY <1>1, <1>2

\* The layout, said with Place.
LEMMA LayoutPlaces ==
  ASSUME NEW n \in Nat \ {0}
  PROVE  LET layout == computeSurfaceLayout(n) IN
         /\ DOMAIN layout = TeamsOf(n)
         /\ TeamsOf(n) \subseteq Nat /\ 0 \in TeamsOf(n)
         /\ \A t \in TeamsOf(n) :
              layout[t] = IF HasGuest(n) /\ t = n - 1 THEN At(0, 1) ELSE Place(t)
<1>1. TeamsOf(n) \subseteq Nat /\ 0 \in TeamsOf(n)
  BY SMT DEF TeamsOf
<1>2. HasGuest(n) => n - 1 # 0
  BY SMT DEF HasGuest
<1>. QED  BY <1>1, <1>2 DEF computeSurfaceLayout, Place

LEMMA LayoutPacked ==
  ASSUME NEW n \in Nat \ {0}
  PROVE  Packed(computeSurfaceLayout(n))
<1>. DEFINE layout == computeSurfaceLayout(n)
<1>1. /\ DOMAIN layout = TeamsOf(n)
      /\ TeamsOf(n) \subseteq Nat /\ 0 \in TeamsOf(n)
      /\ \A t \in TeamsOf(n) :
           layout[t] = IF HasGuest(n) /\ t = n - 1 THEN At(0, 1) ELSE Place(t)
  BY LayoutPlaces
<1>. HIDE DEF layout
<1>2. layout[0] = At(0, 0)
  <2>1. ~(HasGuest(n) /\ 0 = n - 1)
    BY SMT DEF HasGuest
  <2>. QED  BY <1>1, <2>1 DEF Place
<1>3. Injective(layout)
  <2>. SUFFICES ASSUME NEW t \in TeamsOf(n), NEW u \in TeamsOf(n), layout[t] = layout[u]
                PROVE  t = u
    BY <1>1 DEF Injective
  <2>1. t \in Nat /\ u \in Nat
    BY <1>1
  <2>. QED  BY <1>1, <2>1, PlacesDiffer, NobodyPlacedBelowA
<1>4. ASSUME NEW t \in TeamsOf(n)
      PROVE  layout[t].row \in {0, 1}
  <2>1. t \in Nat /\ (t + 1) % 2 \in {0, 1}
    BY <1>1, SMT
  <2>. QED  BY <1>1, <2>1 DEF Place, At
\* The team before a team that is no guest.
<1>5. ASSUME NEW t \in TeamsOf(n), t # 0
      PROVE  /\ t - 1 \in TeamsOf(n)
             /\ layout[t - 1] = Place(t - 1)
  <2>1. t - 1 \in TeamsOf(n) /\ t - 1 # n - 1
    BY <1>5, SMT DEF TeamsOf
  <2>. QED  BY <1>1, <2>1
<1>6. ASSUME NEW t \in TeamsOf(n), layout[t].row = 1
      PROVE  \E u \in TeamsOf(n) : layout[u] = At(layout[t].column, 0)
  <2>1. CASE layout[t].column = 0
    BY <1>1, <1>2, <2>1
  <2>2. CASE layout[t].column # 0
    <3>1. t # 0 /\ layout[t] = Place(t) /\ t \in Nat
      BY <1>1, <1>2, <2>2 DEF At
    <3>2. layout[t].column = (t + 1) \div 2 /\ (t + 1) % 2 = 1
      BY <1>6, <3>1 DEF Place, At
    <3>3. t - 1 # 0 /\ t % 2 = 0 /\ t \div 2 = (t + 1) \div 2
      BY <3>1, <3>2, SMT
    <3>4. layout[t - 1] = At(t \div 2, t % 2)
      <4>1. (t - 1) + 1 = t
        BY <3>1, SMT
      <4>. QED  BY <1>5, <3>1, <3>3, <4>1 DEF Place
    <3>. QED  BY <1>5, <3>1, <3>2, <3>3, <3>4
  <2>. QED  BY <2>1, <2>2
<1>7. ASSUME NEW t \in TeamsOf(n), layout[t].column > 0
      PROVE  \E u \in TeamsOf(n) : layout[u] = At(layout[t].column - 1, 0)
  <2>1. layout[t].column # 0
    BY <1>7, SMT
  <2>2. t # 0 /\ layout[t] = Place(t) /\ t \in Nat
    BY <1>1, <1>2, <2>1 DEF At
  <2>. DEFINE c == (t + 1) \div 2
  <2>3. layout[t].column = c
    BY <2>2 DEF Place, At
  <2>4. CASE c = 1
    BY <1>1, <1>2, <2>3, <2>4
  <2>5. CASE c # 1
    <3>. DEFINE u == 2 * (c - 1) - 1
    <3>1. /\ u \in Nat /\ u # 0 /\ u < t
          /\ (u + 1) \div 2 = c - 1 /\ (u + 1) % 2 = 0
      <4>1. c \in Nat /\ c >= 2 /\ 2 * c <= t + 1
        BY <2>2, <2>5, SMT
      <4>. HIDE DEF c
      <4>2. u + 1 = 2 * (c - 1) /\ u \in Nat /\ u # 0 /\ u < t
        BY <2>2, <4>1, SMT
      <4>. QED  BY <4>1, <4>2, SMT
    <3>2. u \in TeamsOf(n) /\ u # n - 1
      BY <3>1, SMT DEF TeamsOf
    <3>3. layout[u] = At(c - 1, 0)
      BY <1>1, <3>1, <3>2 DEF Place
    <3>. QED  BY <2>3, <3>2, <3>3
  <2>. QED  BY <2>4, <2>5
<1>8. Packed(layout)
  BY <1>1, <1>2, <1>3, <1>4, <1>6, <1>7 DEF Packed
<1>. QED  BY <1>8 DEF layout

\* In the quadrants: B and C have a quadrant each, and D counts by fives.
LEMMA QuadInjective ==
  ASSUME NEW n \in Nat \ {0}
  PROVE  Injective(computeHumanCmuxQuadLayout(n))
<1>. DEFINE quad == computeHumanCmuxQuadLayout(n)
<1>. SUFFICES ASSUME NEW s \in DOMAIN quad, NEW u \in DOMAIN quad, quad[s] = quad[u]
              PROVE  s = u
  BY DEF Injective
<1>1. /\ s \in TeamsOf(n) \X (1 .. 5) /\ u \in TeamsOf(n) \X (1 .. 5)
  BY DEF computeHumanCmuxQuadLayout
<1>2. PICK s1 \in TeamsOf(n), s2 \in 1 .. 5 : s = <<s1, s2>>
  BY <1>1
<1>3. PICK u1 \in TeamsOf(n), u2 \in 1 .. 5 : u = <<u1, u2>>
  BY <1>1
<1>4. /\ Quadrant(s1) = Quadrant(u1)
      /\ (IF s1 <= 2 THEN s2 ELSE 5 * (s1 - 3) + s2)
           = (IF u1 <= 2 THEN u2 ELSE 5 * (u1 - 3) + u2)
  BY <1>1, <1>2, <1>3 DEF computeHumanCmuxQuadLayout
<1>5. s1 \in Nat /\ u1 \in Nat
  BY SMT DEF TeamsOf
<1>6. s1 = u1 /\ s2 = u2
  BY <1>4, <1>5, SMT DEF Quadrant
<1>. QED  BY <1>2, <1>3, <1>6

-----------------------------------------------------------------------------
(* Under an EXEC PM that goes by the layout, the wall is the layout.        *)
WallIsLayout == wall = computeSurfaceLayout(Staffed)

LEMMA LayoutStaffed ==
  ASSUME NEW n \in Nat \ {0}, wall = computeSurfaceLayout(n)
  PROVE  Staffed = n
BY TeamsCounted DEF Staffed, computeSurfaceLayout

(* Going by the layout, the wall is packed at every size it grows through,  *)
(* and the quadrants would hold every role slot on a surface of its own.    *)
THEOREM PackedForAll ==
  ASSUME LayoutAssumption, Follows = {"layout"}
  PROVE  WallSpec => []WallIsPacked
<1>. DEFINE Inv == IInv /\ WallIsLayout
<1>1. WallInit => Inv
  <2>1. WallInit => wall = computeSurfaceLayout(1)
    BY DEF WallInit
  <2>. QED  BY <2>1, InitSeated, LayoutStaffed DEF WallIsLayout
<1>2. Inv /\ [WallNext]_wallVars => Inv'
  <2>. SUFFICES ASSUME Inv, [WallNext]_wallVars PROVE WallIsLayout'
    BY StepSeated
  <2>1. ASSUME NEW follow \in Follows, Grow(follow)
        PROVE  WallIsLayout'
    <3>1. PICK n \in Nat \ {0} : Seated(n) /\ Awaited(n)
      BY DEF IInv
    <3>2. gate.to \in Nat /\ gate.to > n
      BY <2>1, <3>1, GrowPlaces
    <3>3. PICK m \in Nat \ {0} : m = gate.to
      BY <3>1, <3>2, SMT
    <3>4. follow # "checklist"
      BY <2>1
    <3>5. wall' = computeSurfaceLayout(m)
      BY <2>1, <3>3, <3>4 DEF Grow, computeSurfaceLayout
    <3>6. Staffed' = m
      BY <3>5, TeamsCounted DEF Staffed, computeSurfaceLayout
    <3>. QED  BY <3>5, <3>6 DEF WallIsLayout
  <2>2. ASSUME wall' = wall
        PROVE  WallIsLayout'
    BY <2>2 DEF WallIsLayout, Staffed
  <2>. QED  BY <2>1, <2>2 DEF WallNext, AskGate, Retry, wallVars
<1>3. Inv => WallIsPacked
  <2>. SUFFICES ASSUME Inv PROVE WallIsPacked
    OBVIOUS
  <2>1. PICK n \in Nat \ {0} : Seated(n)
    BY DEF IInv
  <2>2. Staffed = n
    BY <2>1, StaffedIs
  <2>. QED  BY <2>1, <2>2, LayoutPacked, QuadInjective DEF WallIsPacked, WallIsLayout
<1>. QED  BY <1>1, <1>2, <1>3, PTL DEF WallSpec

-----------------------------------------------------------------------------
(* The delivery verdict never says more than the surface: for every set of *)
(* packets, registry events and files.                                     *)

\* A message that was whole when the sender looked stays whole, and one that
\* was acknowledged stays acknowledged: what is seen does not go stale.
SeenHolds ==
  seen # NoRecord /\ seen.submitted /\ ~seen.multiline =>
    /\ text \in Taken
    /\ seen.state = "DELIVERED_ACKED" => text = "acked"

RecordIsSeen ==
  record # NoRecord =>
    /\ seen # NoRecord
    /\ record.submitted = seen.submitted
    /\ record.multiline = seen.multiline
    /\ record.state = seen.state

\* What each verdict takes from the record it is about.
VerdictRests ==
  verdict \in {"delivered", "delivered_no_ack"} =>
    /\ record # NoRecord /\ record.submitted /\ ~record.multiline
    /\ verdict = "delivered" => record.state = "DELIVERED_ACKED"

TextTyped == text \in {"none", "typed", "jammed"} \cup Taken

MessageInv == TextTyped /\ SeenHolds /\ RecordIsSeen /\ VerdictRests

\* Only a submitted message on one line gets a verdict of delivery, and the
\* registry has no part in it.
LEMMA VerdictIsOfRecord ==
  ASSUME NEW r, validateCmuxDeliveryProof(r) \in {"delivered", "delivered_no_ack"}
  PROVE  /\ r.submitted /\ ~r.multiline
         /\ validateCmuxDeliveryProof(r) = "delivered" => r.state = "DELIVERED_ACKED"
<1>1. validateCmuxDeliveryProof(r) = ProseVerdict(r)
  BY DEF validateCmuxDeliveryProof
<1>2. ProseValid(r) /\ r.kind # "send_refusal" /\ ProseVerdict(r) = deliveryVerdictFor(r)
  BY <1>1 DEF ProseVerdict
<1>3. ~r.dry
  BY <1>1, <1>2 DEF deliveryVerdictFor
<1>4. r.submitted /\ ~r.multiline
  BY <1>2, <1>3 DEF ProseValid, DeliveryRecordValid
<1>5. deliveryVerdictFor(r) = "delivered" => r.state = "DELIVERED_ACKED"
  BY <1>3 DEF deliveryVerdictFor
<1>. QED  BY <1>1, <1>2, <1>4, <1>5

LEMMA SurfaceStep ==
  ASSUME MessageInv, Type \/ Acknowledge \/ (\E m \in BOOLEAN : Submit(m))
                     \/ (\E p : Prompt(p))
  PROVE  MessageInv'
<1>1. UNCHANGED <<seen, record, verdict>>
  BY DEF Type, Acknowledge, Submit, Prompt, Surface
<1>2. /\ text \in Taken => text' \in Taken
      /\ text = "acked" => text' = "acked"
  BY DEF Type, Acknowledge, Submit, Prompt, Surface, Taken
<1>0. TextTyped => TextTyped'
  BY DEF Type, Acknowledge, Submit, Prompt, Surface, TextTyped, Taken
<1>3. SeenHolds' /\ TextTyped'
  BY <1>1, <1>2, <1>0 DEF MessageInv, SeenHolds, TextTyped
<1>4. RecordIsSeen' /\ VerdictRests'
  BY <1>1 DEF MessageInv, RecordIsSeen, VerdictRests
<1>. QED  BY <1>3, <1>4 DEF MessageInv

LEMMA LookStep ==
  ASSUME MessageInv, NEW state \in CMUX_DELIVERY_STATES, Look(state)
  PROVE  MessageInv'
<1>1. /\ seen'.state = state
      /\ seen'.submitted = (text \notin {"none", "typed"})
      /\ seen'.multiline = (text = "jammed")
      /\ text' = text /\ record' = NoRecord /\ verdict' = "none"
  BY DEF Look
<1>2. state \in Observable
  BY DEF Look
<1>3. state = "DELIVERED_ACKED" => text \in {"acked", "jammed"}
  BY <1>2 DEF Observable
<1>4. SeenHolds' /\ TextTyped'
  BY <1>1, <1>3 DEF MessageInv, TextTyped, SeenHolds, Taken
<1>5. RecordIsSeen' /\ VerdictRests'
  BY <1>1 DEF RecordIsSeen, VerdictRests
<1>. QED  BY <1>4, <1>5 DEF MessageInv

LEMMA ValidateStep ==
  ASSUME MessageInv, Validate
  PROVE  MessageInv'
<1>1. record # NoRecord /\ UNCHANGED <<text, seen, record>>
  BY DEF Validate
<1>2. verdict' \in {"delivered", "delivered_no_ack"} =>
        verdict' = validateCmuxDeliveryProof(record)
  BY DEF Validate
<1>3. VerdictRests'
  BY <1>1, <1>2, VerdictIsOfRecord DEF VerdictRests
<1>4. TextTyped' /\ SeenHolds' /\ RecordIsSeen'
  BY <1>1 DEF MessageInv, TextTyped, SeenHolds, RecordIsSeen
<1>. QED  BY <1>3, <1>4 DEF MessageInv

LEMMA MessageStep ==
  ASSUME MessageInv, [AssignmentNext]_assignmentVars
  PROVE  MessageInv'
<1>1. ASSUME Type \/ Acknowledge \/ (\E m \in BOOLEAN : Submit(m))
             \/ (\E p : Prompt(p))
      PROVE  MessageInv'
  BY <1>1, SurfaceStep
<1>2. ASSUME NEW state \in CMUX_DELIVERY_STATES, Look(state)
      PROVE  MessageInv'
  BY <1>2, LookStep
<1>3. ASSUME NEW kind, NEW dry, NEW complete, NEW ref, Write(kind, dry, complete, ref)
      PROVE  MessageInv'
  <2>1. /\ seen # NoRecord /\ record = NoRecord
        /\ record'.submitted = seen.submitted /\ record'.state = seen.state
        /\ record'.multiline = seen.multiline
        /\ UNCHANGED <<text, seen, verdict>>
    BY <1>3 DEF Write
  <2>. QED
    BY <2>1 DEF MessageInv, TextTyped, SeenHolds, RecordIsSeen, VerdictRests
<1>4. ASSUME Validate
      PROVE  MessageInv'
  BY <1>4, ValidateStep
<1>5. ASSUME UNCHANGED messageVars
      PROVE  MessageInv'
  BY <1>5 DEF messageVars, MessageInv, TextTyped, SeenHolds, RecordIsSeen, VerdictRests
<1>6. ASSUME ReadingNext \/ PaperNext \/ UNCHANGED assignmentVars
      PROVE  UNCHANGED messageVars
  BY <1>6 DEF ReadingNext, PaperNext, Edit, Read, Claim, CheckRead, Pass, Register,
              Delegate, Boot, assignmentVars, messageVars
<1>7. ASSUME MessageNext
      PROVE  MessageInv'
  BY <1>1, <1>2, <1>3, <1>4, <1>7 DEF MessageNext
<1>. QED  BY <1>5, <1>6, <1>7 DEF AssignmentNext

(* Whatever kind a record claims, whatever it leaves out and whatever event *)
(* it leans on, a verdict of delivery is true of the message.               *)
THEOREM DeliveriesAreTrue == AssignmentSpec => []DeliveryIsTrue
<1>1. AssignmentInit => MessageInv
  BY DEF AssignmentInit, MessageInv, TextTyped, SeenHolds, RecordIsSeen, VerdictRests
<1>2. MessageInv /\ [AssignmentNext]_assignmentVars => MessageInv'
  BY MessageStep
<1>3. MessageInv => DeliveryIsTrue
  BY DEF MessageInv, SeenHolds, RecordIsSeen, VerdictRests, DeliveryIsTrue
<1>. QED  BY <1>1, <1>2, <1>3, PTL DEF AssignmentSpec

-----------------------------------------------------------------------------
(* The precheck passes only files that are, at that moment, what the proof  *)
(* recorded.                                                                *)
THEOREM ChecksAreOfTheDisk == AssignmentSpec => ActsOnWhatItRead
<1>1. [AssignmentNext]_assignmentVars =>
        [hook = "idle" /\ hook' = "read" =>
           \A f \in DOMAIN read : disk[f] # Gone /\ disk[f] = read[f].sha256]_assignmentVars
  <2>. SUFFICES ASSUME AssignmentNext, hook = "idle", hook' = "read"
                PROVE  \A f \in DOMAIN read : disk[f] # Gone /\ disk[f] = read[f].sha256
    OBVIOUS
  <2>1. CheckRead
    BY DEF AssignmentNext, MessageNext, ReadingNext, PaperNext, Type, Acknowledge, Submit, Prompt,
           Surface, Look, Write, Validate, Edit, Read, Claim, Pass, Register, Delegate,
           Boot, readingVars
  <2>. QED  BY <2>1 DEF CheckRead, verifyProof, EntryVerifies
<1>. QED  BY <1>1, PTL DEF AssignmentSpec, ActsOnWhatItRead

-----------------------------------------------------------------------------
(* A pod brought up by a validated plan halts on a wrong target only, and  *)
(* whoever takes over a seat is fit for it.                                *)

Tree == [target : {0, 1}, aimed : BOOLEAN, dirty : {0, 1}]

\* A validated plan stops on a wrong target alone.  If its words are texts, it
\* captures after the boot, and the truth it captured is of the target that the
\* pod goes on with.
PodInv ==
  /\ tree \in Tree
  /\ plan # NoPaper => validateBringUpPlan(plan)
  /\ bringUp # "down" \/ truth # NoPaper => plan # NoPaper
  /\ plan.texts = Words =>
       /\ bringUp = "down" => truth = NoPaper
       /\ truth # NoPaper => truth.target = tree.target

LEMMA StopsAreCanonical ==
  ASSUME PodInv, plan # NoPaper
  PROVE  /\ plan.stops # <<>> /\ Head(plan.stops) = "TARGET_ARTIFACT_WRONG"
         /\ ~Contains(plan.stops, "TREE_CHANGED")
<1>1. plan.stops = <<"TARGET_ARTIFACT_WRONG">>
  BY DEF PodInv, validateBringUpPlan, refuseStopTriggers, BRING_UP_STOP_TRIGGERS
<1>2. Len(plan.stops) = 1 /\ plan.stops[1] = "TARGET_ARTIFACT_WRONG"
  BY <1>1
<1>3. ~Contains(plan.stops, "TREE_CHANGED")
  BY <1>2, SMT DEF Contains
<1>. QED  BY <1>1, <1>3

LEMMA DecideIsEarned ==
  ASSUME PodInv, Decide
  PROVE  HaltsOnWrongTarget'
<1>1. /\ UNCHANGED <<plan, tree, truth>> /\ plan # NoPaper /\ truth # NoPaper
      /\ bringUp' = IF MustHalt THEN "halted" ELSE "working"
  BY DEF Decide, PodInv
<1>2. ~MustHalt => tree.aimed
  BY <1>1, StopsAreCanonical DEF MustHalt, Wrong
<1>3. ASSUME MustHalt, plan.texts = Words  PROVE ~tree.aimed
  <2>1. plan.framing = "count_agnostic" /\ tree.target = truth.target
    BY <1>1, <1>3 DEF PodInv, validateBringUpPlan, WordsAreDue, Words
  <2>. QED  BY <1>1, <1>3, <2>1, StopsAreCanonical DEF MustHalt, Wrong
<1>. QED  BY <1>1, <1>2, <1>3 DEF HaltsOnWrongTarget

LEMMA PodStep ==
  ASSUME PodInv, HaltsOnWrongTarget, [ContinuityNext]_continuityVars
  PROVE  PodInv' /\ HaltsOnWrongTarget'
<1>. USE DEF PodInv, HaltsOnWrongTarget, Tree
<1>1. ASSUME NEW p \in Plan, PlanBringUp(p)
      PROVE  PodInv' /\ HaltsOnWrongTarget'
  BY <1>1 DEF PlanBringUp
<1>2. ASSUME Capture
      PROVE  PodInv' /\ HaltsOnWrongTarget'
  <2>1. /\ plan # NoPaper /\ truth' = tree /\ UNCHANGED <<plan, tree, bringUp>>
        /\ (plan.capture = "before_boot") = (bringUp = "down")
    BY <1>2 DEF Capture
  <2>2. plan.texts = Words => bringUp # "down"
    BY <2>1 DEF validateBringUpPlan, WordsAreDue, Words
  <2>. QED  BY <2>1, <2>2
<1>3. ASSUME NEW target \in {0, 1}, NEW dirty \in {0, 1}, BootPod(target, dirty)
      PROVE  PodInv' /\ HaltsOnWrongTarget'
  BY <1>3 DEF BootPod
<1>4. ASSUME NEW dirty \in {0, 1}, HookLater(dirty)
      PROVE  PodInv' /\ HaltsOnWrongTarget'
  BY <1>4 DEF HookLater
<1>5. ASSUME Decide
      PROVE  PodInv' /\ HaltsOnWrongTarget'
  <2>1. PodInv'
    BY <1>5 DEF Decide
  <2>. QED  BY <1>5, <2>1, DecideIsEarned
<1>6. ASSUME UNCHANGED podVars
      PROVE  PodInv' /\ HaltsOnWrongTarget'
  BY <1>6 DEF podVars
<1>7. ASSUME SeatNext
      PROVE  UNCHANGED podVars
  BY <1>7 DEF SeatNext, Substitute, Settle, Cover, Revert, Stage, Hit, Announce, Succeed
<1>. QED
  BY <1>1, <1>2, <1>3, <1>4, <1>5, <1>6, <1>7 DEF ContinuityNext, PodNext, continuityVars, podVars

(* A pod that follows a validated plan works only if it was pointed at the  *)
(* right target and, where the plan's words are texts, halts only if it was *)
(* not, whatever session hooks did to the tree before or after it looked    *)
(* (validateBringUpPlan).                                                   *)
THEOREM HaltsAreEarned == ContinuitySpec => []HaltsOnWrongTarget
<1>1. ContinuityInit => PodInv /\ HaltsOnWrongTarget
  BY DEF ContinuityInit, PodInv, HaltsOnWrongTarget, Tree
<1>2. PodInv /\ HaltsOnWrongTarget /\ [ContinuityNext]_continuityVars => (PodInv /\ HaltsOnWrongTarget)'
  BY PodStep
<1>. QED  BY <1>1, <1>2, PTL DEF ContinuitySpec

-----------------------------------------------------------------------------
\* A handoff on file names a provider by no text, or one of the two with blanks
\* and the other without, or two different providers.
SeatInv ==
  /\ contract # NoPaper => contract \in Contract /\ validateFallbackContract(contract)
  /\ handoff # NoPaper => /\ handoff.affected.provider = Home
                          /\ SurvivorIsElsewhere(handoff)
  /\ sitting.rung \in Nat
  /\ sitting.cause = "BILLING_ERROR" => contract # NoPaper
  /\ cover # NoPaper => handoff # NoPaper

\* Providers are no missing paper.
ProvidersAreNamed == NoPaper \notin Providers \cup {Home}

LEMMA SubstituteIsFit ==
  ASSUME SeatInv, CoverIsFit, Substitute
  PROVE  SeatInv' /\ CoverIsFit'
<1>. DEFINE next == sitting.rung + 1
<1>1. /\ contract \in Contract /\ validateFallbackContract(contract)
      /\ next \in Nat /\ next >= 1 /\ next <= Len(contract.rungs)
  <2>1. contract \in Contract /\ validateFallbackContract(contract) /\ sitting.rung \in Nat
    BY DEF Substitute, SeatInv
  <2>2. contract.rungs \in Seq(Rungs)
    BY <2>1 DEF Contract, BoundedSeq, SeqOf
  <2>3. Len(contract.rungs) \in Nat /\ sitting.rung < Len(contract.rungs)
    BY <2>2 DEF Substitute
  <2>. QED  BY <2>1, <2>3
<1>2. contract.rungs[next].model = "pinned"
  <2>1. contract.rungs # <<>> /\ next \in DOMAIN contract.rungs
    <3>1. contract.rungs \in Seq(Rungs)
      BY <1>1 DEF Contract, BoundedSeq, SeqOf
    <3>. QED  BY <1>1, <3>1
  <2>. QED  BY <1>1, <2>1 DEF validateFallbackContract, RungsPinned, RungPinned
<1>3. loss = "BILLING_ERROR" =>
        \E t \in contract.triggers : t.seat = "BILLING_ERROR" /\ ~Readable(t)
  <2>1. PICK t \in contract.triggers : t.seat = loss
    BY DEF Substitute
  <2>2. Readable(t) => loss \notin NON_TRIGGER_OPERATOR_SIDE
    BY <1>1, <2>1 DEF validateFallbackContract, Normalized
  <2>. QED  BY <2>1, <2>2 DEF NON_TRIGGER_OPERATOR_SIDE
<1>4. /\ sitting' = [rung |-> next, model |-> contract.rungs[next].model, cause |-> loss]
      /\ contract # NoPaper /\ UNCHANGED <<contract, handoff, cover>>
  BY DEF Substitute
<1>5. SeatInv'
  BY <1>1, <1>4 DEF SeatInv
<1>6. CoverIsFit'
  BY <1>2, <1>3, <1>4 DEF CoverIsFit
<1>. QED  BY <1>5, <1>6

\* What a handoff on file says when it names the dark provider as survivor.
LEMMA CoverStep ==
  ASSUME SeatInv, CoverIsFit, Cover
  PROVE  CoverIsFit'
<1>1. /\ handoff # NoPaper /\ cover' = handoff.survivor.provider
      /\ UNCHANGED <<sitting, contract, handoff>>
  BY DEF Cover
<1>2. handoff.affected.provider = Home /\ SurvivorIsElsewhere(handoff)
  BY <1>1 DEF SeatInv
<1>3. ASSUME handoff.survivor.provider = Home,
             "no_text" \notin {handoff.survivor.case, handoff.affected.case}
      PROVE  BlanksDiffer(handoff)
  <2>1. Lowered(handoff.survivor) # Lowered(handoff.affected)
    BY <1>2, <1>3 DEF SurvivorIsElsewhere
  <2>. QED  BY <1>2, <1>3, <2>1 DEF Lowered, BlanksDiffer
<1>. QED  BY <1>1, <1>3 DEF CoverIsFit

LEMMA SeatStep ==
  ASSUME ProvidersAreNamed, SeatInv, CoverIsFit, [ContinuityNext]_continuityVars
  PROVE  SeatInv' /\ CoverIsFit'
<1>1. ASSUME Substitute PROVE SeatInv' /\ CoverIsFit'
  BY <1>1, SubstituteIsFit
<1>2. ASSUME NEW c \in Contract, Stage(c) PROVE SeatInv' /\ CoverIsFit'
  BY <1>2 DEF Stage, SeatInv, CoverIsFit
<1>3. ASSUME NEW h \in Handoff, Announce(h) PROVE SeatInv' /\ CoverIsFit'
  <2>1. cover # Home
    BY <1>3 DEF Announce, SeatInv, ProvidersAreNamed
  <2>. QED  BY <1>3, <2>1 DEF Announce, validateOutageHandoff, SeatInv, CoverIsFit
<1>4. ASSUME Cover PROVE SeatInv' /\ CoverIsFit'
  <2>1. SeatInv'
    BY <1>4 DEF Cover, SeatInv
  <2>. QED  BY <1>4, <2>1, CoverStep
<1>5. ASSUME Revert PROVE SeatInv' /\ CoverIsFit'
  BY <1>5 DEF Revert, SeatInv, CoverIsFit, ProvidersAreNamed
<1>6. ASSUME UNCHANGED <<sitting, contract, handoff, cover>>
      PROVE  SeatInv' /\ CoverIsFit'
  BY <1>6 DEF SeatInv, CoverIsFit, BlanksDiffer
<1>7. ASSUME \/ Settle
             \/ \E t \in Troubles : Hit(t)
             \/ \E s \in Successor : Succeed(s)
             \/ PodNext
      PROVE  UNCHANGED <<sitting, contract, handoff, cover>>
  BY <1>7 DEF Settle, Hit, Succeed, PodNext, Capture, Decide, PlanBringUp, BootPod,
              HookLater, seatVars
<1>. QED
  BY <1>1, <1>2, <1>3, <1>4, <1>5, <1>6, <1>7 DEF ContinuityNext, SeatNext, continuityVars

(* Whatever the providers, the rungs, the triggers and how all of them are  *)
(* written: a substitution seats a pinned model; one for a billing error    *)
(* rests on a trigger that the validator could not read; and an outage is   *)
(* covered from the dark provider only if a provider was named by no text   *)
(* or the two names differ by blanks (validateFallbackContract,             *)
(* validateOutageHandoff).                                                  *)
THEOREM CoversAreFit ==
  ASSUME ProvidersAreNamed
  PROVE  ContinuitySpec => []CoverIsFit
<1>1. ContinuityInit => SeatInv /\ CoverIsFit
  BY DEF ContinuityInit, SeatInv, CoverIsFit, ProvidersAreNamed
<1>2. SeatInv /\ CoverIsFit /\ [ContinuityNext]_continuityVars => (SeatInv /\ CoverIsFit)'
  BY SeatStep
<1>. QED  BY <1>1, <1>2, PTL DEF ContinuitySpec

-----------------------------------------------------------------------------
(* Readiness: nobody is activated unproven *)

\* The readiness gate is asked for harnesses by the name its registry knows them by, and
\* every seat of the team is of a governed role.
ByDisplayName == NameForms \subseteq {"display"}
GovernedTeam == \A s \in Seats : R!isGovernedRole(R!Role(s))

TroubleInv ==
  /\ DOMAIN trouble = Seats
  /\ \A s \in Seats : trouble[s] \subseteq Arising \cup {"NO_HOOKS"}

LEMMA TroubleInit == R!Init => TroubleInv
BY DEF R!Init, TroubleInv

LEMMA KnownTrouble ==
  ASSUME TroubleInv, NEW s \in Seats  PROVE trouble[s] \subseteq R!Trouble
BY TeamAssumption DEF TroubleInv, R!ReadinessAssumption, R!Trouble

LEMMA TroubleStep ==
  ASSUME TroubleInv, [R!Next]_(R!vars)
  PROVE  TroubleInv'
<1>1. ASSUME NEW s \in Seats, NEW ts \in SUBSET (Arising \cup {"NO_HOOKS"}),
             trouble' = [trouble EXCEPT ![s] = ts]
      PROVE  TroubleInv'
  BY <1>1 DEF TroubleInv
<1>2. ASSUME UNCHANGED trouble
      PROVE  TroubleInv'
  BY <1>2 DEF TroubleInv
<1>3. ASSUME NEW s \in Seats, NEW t \in Arising, R!Arise(s, t)
      PROVE  TroubleInv'
  BY <1>1, <1>3 DEF R!Arise, TroubleInv
<1>4. ASSUME NEW s \in Seats, NEW ts, R!Repair(s, ts)
      PROVE  TroubleInv'
  BY <1>1, <1>4 DEF R!Repair, TroubleInv
<1>5. ASSUME NEW s \in Seats, R!SignIn(s)
      PROVE  TroubleInv'
  BY <1>2, <1>5 DEF R!SignIn
<1>6. ASSUME NEW s \in Seats, NEW p, R!TakeUp(s, p)
      PROVE  TroubleInv'
  BY <1>2, <1>6 DEF R!TakeUp
<1>7. ASSUME NEW s \in Seats, R!Tend(s)
      PROVE  TroubleInv'
  BY <1>4, <1>5, <1>6, <1>7 DEF R!Tend
<1>8. ASSUME NEW s \in Seats, NEW b, R!Resolve(s, b)
      PROVE  TroubleInv'
  BY <1>2, <1>4, <1>5, <1>8 DEF R!Resolve
<1>9. ASSUME NEW s \in Seats, R!Follow(s)
       PROVE  TroubleInv'
  BY <1>4, <1>5, <1>6, <1>8, <1>9 DEF R!Follow
<1>10. CASE R!Launch
  BY <1>2, <1>10 DEF R!Launch
<1>11. CASE \E form \in NameForms : R!Activate(form)
  BY <1>2, <1>11 DEF R!Activate
<1>12. ASSUME NEW s \in Seats,
              \/ R!Ask(s) \/ R!AskAgain(s) \/ R!Reverify(s) \/ R!Staff(s)
              \/ \E status \in Statuses : R!LoseAuth(s, status)
              \/ \E source \in Sources : R!Declare(s, source)
              \/ \E p \in HandMade : R!Submit(s, p)
              \/ \E d \in {"edited", "aged"} : R!Drift(s, d)
              \/ \E w \in {"WAIVED_BY_EXEC_PM", "SUBSTITUTION_APPROVED_BY_EXEC_PM"} :
                   R!Waive(s, w)
       PROVE  UNCHANGED trouble
  BY <1>12 DEF R!Ask, R!AskAgain, R!Reverify, R!Staff, R!LoseAuth, R!Declare, R!Submit,
               R!Drift, R!Waive
<1>13. CASE UNCHANGED R!vars
  BY <1>2, <1>13 DEF R!vars
<1>. QED  BY <1>2, <1>3, <1>7, <1>9, <1>10, <1>11, <1>12, <1>13 DEF R!Next

\* Once the team is active, nothing more happens to it.
LEMMA ActiveIsLast ==
  ASSUME active = TRUE, [R!Next]_(R!vars)
  PROVE  UNCHANGED R!vars
<1>. SUFFICES ASSUME R!Next PROVE FALSE
  OBVIOUS
<1>1. ~R!Launch /\ \A form \in NameForms : ~R!Activate(form)
  BY DEF R!Launch, R!Activate
<1>2. \A s \in Seats : ~(R!Ask(s) \/ R!AskAgain(s) \/ R!Follow(s) \/ R!Tend(s)
                          \/ R!Reverify(s) \/ R!Staff(s))
  BY DEF R!Ask, R!AskAgain, R!Follow, R!Tend, R!Reverify, R!Staff
<1>3. \A s \in Seats : ~(\/ \E t \in Arising : R!Arise(s, t)
                         \/ \E status \in Statuses : R!LoseAuth(s, status)
                         \/ \E source \in Sources : R!Declare(s, source)
                         \/ \E p \in HandMade : R!Submit(s, p)
                         \/ \E d \in {"edited", "aged"} : R!Drift(s, d)
                         \/ \E w \in {"WAIVED_BY_EXEC_PM",
                                      "SUBSTITUTION_APPROVED_BY_EXEC_PM"} : R!Waive(s, w))
  BY DEF R!Arise, R!LoseAuth, R!Declare, R!Submit, R!Drift, R!Waive, R!Fault
<1>. QED  BY <1>1, <1>2, <1>3 DEF R!Next

LEMMA Categories ==
  ASSUME NEW name
  PROVE  R!harnessCategory(name)
           \in {"native_skill", "static_control_file", "unsupported", "mcp_only"}
BY Zenon DEF R!harnessCategory

\* The assurance a seat needs is no less than the best its harness supports.
LEMMA RequiredIsBest ==
  ASSUME NEW category \in {"native_skill", "static_control_file", "unsupported", "mcp_only"},
         NEW role
  PROVE  LET best == R!maxAssuranceForCategory(category)
             required == R!RequiredAssurance(category, role) IN
         /\ R!ASSURANCE_RANK(best) \in Nat /\ R!ASSURANCE_RANK(required) \in Nat
         /\ R!ASSURANCE_RANK(best) <= R!ASSURANCE_RANK(required)
         /\ R!isHighAuthorityRole(role) => R!ASSURANCE_RANK(required) >= 2
         /\ category # "unsupported" => best # "none"
BY DEF R!maxAssuranceForCategory, R!RequiredAssurance, R!ASSURANCE_RANK

\* What the gate has seen of a seat that it lets activate.
LEMMA ReadyIsProven ==
  ASSUME NEW s \in Seats, TroubleInv, R!isGovernedRole(R!Role(s)),
         R!activationAllowed(s, "display"), ~R!Vacant(s)
  PROVE  /\ R!ProvenFor(s)
         /\ trouble[s] \subseteq R!ProbeTroubles \cup {"SCP_SKILL_MISSING", "NO_HYDRATION"}
         /\ R!AuthClass(auth[s]) = {}
<1>. DEFINE harness == R!DisplayName(HarnessOf[s])
            category == R!harnessCategory(harness)
            best == R!maxAssuranceForCategory(category)
            required == R!RequiredAssurance(category, R!RequestedRole(s))
<1>1. R!Named(HarnessOf[s], "display") = harness
  BY DEF R!Named
<1>2. R!classifyGovernedReadiness(harness, R!RequestedRole(s), R!GateInput(s)).state = "GOVERNED_READY"
  BY <1>1 DEF R!activationAllowed, R!governed
<1>3. /\ category # "unsupported"
      /\ R!Blockers(R!GateInput(s), required) = {}
  <2>1. R!State(harness, R!RequestedRole(s), R!Blockers(R!GateInput(s), required)) = "GOVERNED_READY"
    BY <1>2 DEF R!classifyGovernedReadiness
  <2>. QED  BY <2>1 DEF R!State
<1>4. /\ R!GateInput(s).proof = proof[s] /\ R!GateInput(s).trouble = trouble[s]
      /\ R!GateInput(s).others = R!Failures(s) /\ R!GateInput(s).status = auth[s]
  BY DEF R!GateInput
<1>5. /\ R!AuthClass(auth[s]) = {}
      /\ trouble[s] \cap (R!LiveTroubles \cup {"NO_HOOKS"}) = {}
      /\ R!Failures(s) = {}
      /\ R!validateGovernedContextProof(proof[s])
      /\ ~(R!ASSURANCE_RANK(proof[s].source_type) < R!ASSURANCE_RANK(required))
  BY <1>3, <1>4 DEF R!Blockers
<1>6. trouble[s] \cap R!GateTroubles \subseteq {"SCP_SKILL_MISSING"}
  <2>1. trouble[s] \cap R!GateTroubles \subseteq R!Classifications(s)
    BY DEF R!Classifications, R!OccupantClassifications
  <2>2. R!Classifications(s) \subseteq
          {"SCP_SKILL_MISSING", "NON_GOVERNED_ONE_SHOT_ONLY", "VACANT_ROLE_SLOT"}
    BY <1>5 DEF R!Failures
  <2>. QED  BY <2>1, <2>2 DEF R!GateTroubles
<1>7. trouble[s] \subseteq R!ProbeTroubles \cup {"SCP_SKILL_MISSING", "NO_HYDRATION"}
  BY <1>5, <1>6, KnownTrouble DEF R!Trouble
<1>8. R!ProvenFor(s)
  <2>1. R!ASSURANCE_RANK(proof[s].source_type) \in Nat
    BY <1>5 DEF R!validateGovernedContextProof, R!GOVERNED_CONTEXT_SOURCE_TYPES,
                R!ASSURANCE_RANK
  <2>2. /\ R!ASSURANCE_RANK(best) \in Nat /\ R!ASSURANCE_RANK(required) \in Nat
        /\ R!ASSURANCE_RANK(best) <= R!ASSURANCE_RANK(required)
        /\ R!isHighAuthorityRole(R!RequestedRole(s)) => R!ASSURANCE_RANK(required) >= 2
        /\ best # "none"
    BY <1>3, Categories, RequiredIsBest
  <2>. QED  BY <1>5, <2>1, <2>2 DEF R!ProvenFor
<1>. QED  BY <1>5, <1>7, <1>8

\* Whatever was waived, substituted, left empty or repaired on the way, a team whose seats
\* are governed and whose harnesses go by their display names is active only with every
\* seat that it needs occupied and every occupant's control layer proven taken up, at the
\* best its harness supports (service.ts evaluateReadinessGate, governed-readiness.ts).
THEOREM ActivationsAreProven ==
  ASSUME ByDisplayName, GovernedTeam
  PROVE  R!Spec => []ActivatedIsProven
<1>. DEFINE Inv == TroubleInv /\ active \in BOOLEAN /\ ActivatedIsProven
<1>1. R!Init => Inv
  BY TroubleInit DEF R!Init, ActivatedIsProven, R!ActivatedIsProven
<1>2. Inv /\ [R!Next]_(R!vars) => Inv'
  <2>. SUFFICES ASSUME Inv, [R!Next]_(R!vars) PROVE Inv'
    OBVIOUS
  <2>1. TroubleInv'
    BY TroubleStep
  <2>2. CASE active
    <3>1. UNCHANGED <<active, occupant, trouble, auth, proof>>
      BY <2>2, ActiveIsLast DEF R!vars
    <3>. QED  BY <2>1, <3>1 DEF ActivatedIsProven, R!ActivatedIsProven, R!Vacant, R!ProvenFor
  <2>3. CASE ~active
    <3>1. \/ active' = active
          \/ \E form \in NameForms : R!Activate(form)
      BY DEF R!Next, R!vars, R!Launch, R!Ask, R!AskAgain, R!Follow, R!Tend, R!Reverify,
             R!Staff, R!Arise, R!LoseAuth, R!Declare, R!Submit, R!Drift, R!Waive
    <3>2. CASE active' = active
      BY <2>1, <2>3, <3>2 DEF ActivatedIsProven, R!ActivatedIsProven
    <3>3. CASE \E form \in NameForms : R!Activate(form)
      <4>1. /\ R!activationStatus("display") /\ active' = TRUE
            /\ UNCHANGED <<occupant, trouble, auth, proof>>
        BY <3>3 DEF ByDisplayName, R!Activate
      <4>2. ASSUME NEW s \in Seats
            PROVE  \/ R!Vacant(s) /\ s \in Optional
                   \/ /\ ~R!Vacant(s) /\ R!ProvenFor(s)
                      /\ trouble[s] \subseteq R!ProbeTroubles
                                         \cup {"SCP_SKILL_MISSING", "NO_HYDRATION"}
                      /\ R!AuthClass(auth[s]) = {}
        <5>1. R!activationAllowed(s, "display")
          BY <4>1 DEF R!activationStatus
        <5>2. CASE R!Vacant(s)
          <6>1. occupant[s] \notin {"BOOTSTRAPPED_IDLE", "ACTIVE_WATCH"}
            BY <5>2 DEF R!Vacant
          <6>. QED  BY <5>1, <5>2, <6>1
                    DEF R!activationAllowed, R!activationAllowedBase, R!readyOccupant
        <5>3. CASE ~R!Vacant(s)
          BY <5>1, <5>3, ReadyIsProven DEF GovernedTeam
        <5>. QED  BY <5>2, <5>3
      <4>. QED  BY <2>1, <4>1, <4>2
                DEF ActivatedIsProven, R!ActivatedIsProven, R!Vacant, R!ProvenFor
    <3>. QED  BY <3>1, <3>2, <3>3
  <2>. QED  BY <2>2, <2>3
<1>. QED  BY <1>1, <1>2, PTL DEF R!Spec

\* What a seat takes up, the operator's script has recorded and verified.
LEMMA TakenUpIsProof ==
  ASSUME NEW type, NEW named \in BOOLEAN,
         R!verifyGovernedContextProof(R!recordGovernedContextProof(type, named), {})
  PROVE  R!recordGovernedContextProof(type, named) \in R!Proof
BY DEF R!verifyGovernedContextProof, R!recordGovernedContextProof, R!Proof

ProofsTyped == proof \in [Seats -> R!Proof \cup {NoProof}]

LEMMA ProofsStep ==
  ASSUME ProofsTyped, [R!Next]_(R!vars)
  PROVE  ProofsTyped'
<1>1. ASSUME NEW s \in Seats, NEW p \in R!Proof \cup {NoProof},
             proof' = [proof EXCEPT ![s] = p]
      PROVE  ProofsTyped'
  BY <1>1 DEF ProofsTyped
<1>2. ASSUME UNCHANGED proof
      PROVE  ProofsTyped'
  BY <1>2 DEF ProofsTyped
<1>3. ASSUME NEW s \in Seats, NEW type, NEW named \in BOOLEAN,
             R!TakeUp(s, R!recordGovernedContextProof(type, named))
      PROVE  ProofsTyped'
  BY <1>1, <1>3, TakenUpIsProof DEF R!TakeUp
<1>4. ASSUME NEW s \in Seats, NEW ts, R!Repair(s, ts) \/ R!SignIn(s)
      PROVE  ProofsTyped'
  BY <1>2, <1>4 DEF R!Repair, R!SignIn
<1>5. ASSUME NEW s \in Seats, R!Tend(s)
      PROVE  ProofsTyped'
  BY <1>3, <1>4, <1>5 DEF R!Tend
<1>6. ASSUME NEW s \in Seats, NEW b, R!Resolve(s, b)
      PROVE  ProofsTyped'
  BY <1>2, <1>4, <1>6 DEF R!Resolve
<1>7. ASSUME NEW s \in Seats, R!Follow(s)
      PROVE  ProofsTyped'
  BY <1>3, <1>4, <1>6, <1>7 DEF R!Follow
<1>8. ASSUME NEW s \in Seats, R!Reverify(s) \/ \E p \in HandMade : R!Submit(s, p)
      PROVE  ProofsTyped'
  BY <1>1, <1>8, TeamAssumption DEF R!Reverify, R!Submit, R!ReadinessAssumption
<1>9. CASE R!Launch \/ \E form \in NameForms : R!Activate(form)
  BY <1>2, <1>9 DEF R!Launch, R!Activate
<1>10. ASSUME NEW s \in Seats,
              \/ R!Ask(s) \/ R!AskAgain(s) \/ R!Staff(s)
              \/ \E t \in Arising : R!Arise(s, t)
              \/ \E status \in Statuses : R!LoseAuth(s, status)
              \/ \E source \in Sources : R!Declare(s, source)
              \/ \E d \in {"edited", "aged"} : R!Drift(s, d)
              \/ \E w \in {"WAIVED_BY_EXEC_PM", "SUBSTITUTION_APPROVED_BY_EXEC_PM"} :
                   R!Waive(s, w)
       PROVE  UNCHANGED proof
  BY <1>10 DEF R!Ask, R!AskAgain, R!Staff, R!Arise, R!LoseAuth, R!Declare, R!Drift,
               R!Waive
<1>11. CASE UNCHANGED R!vars
  BY <1>2, <1>11 DEF R!vars
<1>. QED  BY <1>2, <1>5, <1>7, <1>8, <1>9, <1>10, <1>11 DEF R!Next

SessionTyped == session \subseteq {"authorized", "cmux"} /\ faults \in 0 .. MaxTroubles

LEMMA SessionStep ==
  ASSUME SessionTyped, [R!Next]_(R!vars)
  PROVE  SessionTyped'
<1>1. ASSUME R!Fault  PROVE faults' \in 0 .. MaxTroubles
  BY <1>1, TeamAssumption DEF R!Fault, R!ReadinessAssumption, SessionTyped
<1>2. ASSUME UNCHANGED session, faults' = faults \/ R!Fault
      PROVE  SessionTyped'
  BY <1>1, <1>2 DEF SessionTyped
<1>3. ASSUME NEW s \in Seats, R!Tend(s)
      PROVE  SessionTyped'
  BY <1>2, <1>3 DEF R!Tend, R!Repair, R!SignIn, R!TakeUp
<1>4. ASSUME NEW s \in Seats, R!Follow(s)
      PROVE  SessionTyped'
  <2>1. faults' = faults
    BY <1>4 DEF R!Follow
  <2>2. session' \subseteq session \cup {"authorized", "cmux"}
    BY <1>4 DEF R!Follow, R!Resolve, R!Repair, R!SignIn, R!TakeUp
  <2>. QED  BY <2>1, <2>2 DEF SessionTyped
<1>5. CASE R!Launch \/ \E form \in NameForms : R!Activate(form)
  BY <1>2, <1>5 DEF R!Launch, R!Activate
<1>6. ASSUME NEW s \in Seats,
              \/ R!Ask(s) \/ R!AskAgain(s) \/ R!Staff(s) \/ R!Reverify(s)
              \/ \E w \in {"WAIVED_BY_EXEC_PM", "SUBSTITUTION_APPROVED_BY_EXEC_PM"} :
                   R!Waive(s, w)
       PROVE  UNCHANGED <<session, faults>>
  BY <1>6 DEF R!Ask, R!AskAgain, R!Staff, R!Reverify, R!Waive
<1>7. ASSUME NEW s \in Seats,
              \/ \E t \in Arising : R!Arise(s, t)
              \/ \E status \in Statuses : R!LoseAuth(s, status)
              \/ \E source \in Sources : R!Declare(s, source)
              \/ \E p \in HandMade : R!Submit(s, p)
              \/ \E d \in {"edited", "aged"} : R!Drift(s, d)
       PROVE  UNCHANGED session /\ R!Fault
  BY <1>7 DEF R!Arise, R!LoseAuth, R!Declare, R!Submit, R!Drift
<1>8. CASE UNCHANGED R!vars
  BY <1>2, <1>8 DEF R!vars
<1>. QED  BY <1>2, <1>3, <1>4, <1>5, <1>6, <1>7, <1>8 DEF R!Next

\* Troubles are among those that arise, what is on record for a seat is a proof or none,
\* and what befalls a team is counted (service.ts evaluateReadinessGate,
\* verify-governed-context.mjs recordGovernedContextProof).
THEOREM TeamTypeCorrect == R!Spec => []R!TypeOK
<1>1. R!Init => ProofsTyped /\ SessionTyped
  BY TeamAssumption DEF R!Init, ProofsTyped, SessionTyped, R!ReadinessAssumption
<1>2. TroubleInv /\ ProofsTyped /\ SessionTyped => R!TypeOK
  BY DEF TroubleInv, ProofsTyped, SessionTyped, R!TypeOK
<1>. QED  BY <1>1, <1>2, TroubleInit, TroubleStep, ProofsStep, SessionStep, PTL DEF R!Spec

-----------------------------------------------------------------------------
(* The run of all the parts *)

\* Each part of a session beside the others behaves as by itself, so that what is proved of
\* a part holds of the run in which TLC checks it (service.ts: the evaluators share no state).
THEOREM PartsRunApart ==
  SessionSpec => WallSpec /\ R!Spec /\ AssignmentSpec /\ Spec /\ ContinuitySpec
<1>1. SessionInit => WallInit /\ R!Init /\ AssignmentInit /\ Init /\ ContinuityInit
  BY DEF SessionInit
<1>2. [SessionNext]_sessionVars =>
        /\ [WallNext]_wallVars /\ [R!Next]_(R!vars) /\ [AssignmentNext]_assignmentVars
        /\ [Next]_vars /\ [ContinuityNext]_continuityVars
  <2>1. UNCHANGED teamVars => UNCHANGED R!vars
    BY DEF teamVars, R!vars
  <2>2. UNCHANGED sessionVars =>
          UNCHANGED <<wallVars, teamVars, assignmentVars, vars, continuityVars>>
    BY DEF sessionVars
  <2>3. \A s \in Seats : R!Reverify(s) => R!Next
    BY DEF R!Next
  <2>4. LaunchNext \/ AdviceNext => R!Next
    BY <2>3 DEF LaunchNext, AdviceNext
  <2>. QED  BY <2>1, <2>2, <2>4 DEF SessionNext, AssignmentNext, ContinuityNext
<1>. QED  BY <1>1, <1>2, PTL
          DEF SessionSpec, WallSpec, R!Spec, AssignmentSpec, Spec, ContinuitySpec
=============================================================================
