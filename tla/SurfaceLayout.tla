---------------------------- MODULE SurfaceLayout ----------------------------
(***************************************************************************)
(* Where the teams sit on the screen (src/protocol/surface-layout.ts).     *)
(* Team 0 is A, the executive office, team 1 is B, and so on.  The         *)
(* canonical layout of n teams is a function of n; the EXEC PM grows the   *)
(* wall from one team count to a larger one, as the surface gate or the    *)
(* layout itself tells it.                                                 *)
(***************************************************************************)
EXTENDS Integers, FiniteSets

CONSTANTS
  MAX_TEAMS,       \* 26 in the code: the letters
  Follows,         \* what the EXEC PM goes by: "layout" or "checklist"
  Options          \* options the gate is asked with, a set of GateOptions

LayoutAssumption == MAX_TEAMS \in Nat

VARIABLES
  wall,            \* staffed team -> where its surface is
  booted,          \* staffed team -> the column its boot receipt reports
  gate             \* the gate's answer the EXEC PM acts on

wallVars == <<wall, booted, gate>>

Unasked == [status |-> "NOT_ASKED"]
TeamsOf(n) == 0 .. n - 1
Staffed == Cardinality(DOMAIN wall)

-----------------------------------------------------------------------------
(* The canonical layout: at most two surfaces stack in a column.           *)
At(column, row) == [column |-> column, row |-> row]

\* From four teams on, an even count puts the last team below A.
HasGuest(n) == n >= 4 /\ n % 2 = 0

\* Bug: the guest below A is team B, and the others move up.
GuestIsB(n) ==
  [t \in TeamsOf(n) |->
     IF t = 0 THEN At(0, 0)
     ELSE IF HasGuest(n) /\ t = 1 THEN At(0, 1)
     ELSE IF HasGuest(n) THEN At(t \div 2, t % 2)
     ELSE At((t + 1) \div 2, (t + 1) % 2)]
\* Bug: the top of a column is 2k, as if A had no column of its own.
CountsFromZero(n) ==
  [t \in TeamsOf(n) |->
     IF HasGuest(n) /\ t = n - 1 THEN At(0, 1) ELSE At(t \div 2, t % 2)]
computeSurfaceLayout(n) ==
  [t \in TeamsOf(n) |->
     IF t = 0 THEN At(0, 0)
     ELSE IF HasGuest(n) /\ t = n - 1 THEN At(0, 1)
     ELSE At((t + 1) \div 2, (t + 1) % 2)]

Columns(layout) == { layout[t].column : t \in DOMAIN layout }
InColumn(layout, c) == { t \in DOMAIN layout : layout[t].column = c }

(* The other profile, which is the default: four quadrants with one surface *)
(* per role slot.  D takes every team after C, five role slots each.        *)
Quadrant(team) == IF team <= 2 THEN team ELSE 3
computeHumanCmuxQuadLayout(n) ==
  [slot \in TeamsOf(n) \X (1 .. 5) |->
     [quadrant |-> Quadrant(slot[1]),
      index |-> IF slot[1] <= 2 THEN slot[2]
                ELSE 5 * (slot[1] - 3) + slot[2]]]

-----------------------------------------------------------------------------
(* The gate *)
GateOptions == [cmux : BOOLEAN, tabOnly : BOOLEAN, approved : BOOLEAN,
                split : BOOLEAN, routed : BOOLEAN]

GateStatus(o) ==
  CASE ~o.cmux -> "NOT_GOVERNED_NO_CMUX"
    [] o.cmux /\ o.tabOnly /\ ~o.approved -> "DEGRADED_OPERATOR_LAYOUT"
    [] o.cmux /\ (o.tabOnly => o.approved) /\ o.split /\ ~o.routed ->
         "SPLIT_WORKSPACE_BLOCKED"
    [] OTHER -> "PASS"

\* The teams outside A's column, which the layout lists in their order.
NonExec(layout) == { t \in DOMAIN layout : layout[t].column > 0 }

computeSurfaceLayoutGate(from, to, o) ==
  LET before == computeSurfaceLayout(from)
      after == computeSurfaceLayout(to)
  IN [status |-> GateStatus(o), to |-> to,
      newColumn |-> Cardinality(Columns(after)) > Cardinality(Columns(before)),
      execSplit |-> /\ Cardinality(InColumn(before, 0)) = 1
                    /\ Cardinality(InColumn(after, 0)) = 2,
      \* one ordered list of letters is no prefix of the other
      moves |-> /\ NonExec(before) # {}
                /\ \/ ~NonExec(before) \subseteq NonExec(after)
                   \/ \E t \in NonExec(after) \ NonExec(before) :
                        \E u \in NonExec(before) : t < u]

-----------------------------------------------------------------------------
(* A wall with its first team, and the EXEC PM that makes it grow.          *)
WallInit ==
  /\ wall = computeSurfaceLayout(1)
  /\ booted = [t \in TeamsOf(1) |-> wall[t].column]
  /\ gate = Unasked

AskGate(to, o) ==
  /\ gate = Unasked
  /\ to > Staffed /\ to <= MAX_TEAMS
  /\ gate' = computeSurfaceLayoutGate(Staffed, to, o)
  /\ UNCHANGED <<wall, booted>>

\* A blocked gate is asked again, once the operator saw to it.
Retry ==
  /\ gate # Unasked /\ gate.status # "PASS"
  /\ gate' = Unasked
  /\ UNCHANGED <<wall, booted>>

\* Surfaces are made for the new teams; those there are stay, unless moved.
Grow(follow) ==
  /\ gate # Unasked /\ gate.status = "PASS"
  /\ LET target == computeSurfaceLayout(gate.to)
         stays(t) == t \in DOMAIN wall /\ follow = "checklist" /\ ~gate.moves
     IN /\ wall' = [t \in TeamsOf(gate.to) |->
                      IF stays(t) THEN wall[t] ELSE target[t]]
        /\ booted' = [t \in TeamsOf(gate.to) |->
                        IF t \in DOMAIN wall THEN booted[t] ELSE target[t].column]
  /\ gate' = Unasked

WallNext ==
  \/ \E to \in 1 .. MAX_TEAMS, o \in Options : AskGate(to, o)
  \/ Retry
  \/ \E follow \in Follows : Grow(follow)

WallSpec == WallInit /\ [][WallNext]_wallVars

-----------------------------------------------------------------------------
Injective(layout) ==
  \A s, u \in DOMAIN layout : layout[s] = layout[u] => s = u

Packed(layout) ==
  /\ layout[0] = At(0, 0)
  /\ Injective(layout)
  /\ \A t \in DOMAIN layout : layout[t].row \in {0, 1}
  /\ \A t \in DOMAIN layout :
       /\ layout[t].row = 1 => \E u \in DOMAIN layout : layout[u] = At(layout[t].column, 0)
       /\ layout[t].column > 0 =>
            \E u \in DOMAIN layout : layout[u] = At(layout[t].column - 1, 0)

(* The wall is packed: A at the top of the first column, no two teams on    *)
(* one surface, no column of more than two and no gap below or between      *)
(* them (bootstrap-skill.md, "Surface Layout Custodianship"); and in the    *)
(* four quadrants no two role slots would share a surface either.           *)
WallIsPacked ==
  Packed(wall) /\ Injective(computeHumanCmuxQuadLayout(Staffed))

(* However the team count grows, the only team whose surface ever moves is  *)
(* the one that shares A's column: everybody else's locator stays good.     *)
OnlyTheGuestMoves ==
  [][\A t \in DOMAIN wall :
       t \in DOMAIN wall' /\ (wall'[t] = wall[t] \/ wall[t] = At(0, 1))]_wallVars

(* The column a boot receipt reports is the column its team is in, but for  *)
(* a team that booted below A and was moved out.                            *)
ReceiptsKeepTheirColumn ==
  \A t \in DOMAIN wall : booted[t] = wall[t].column \/ booted[t] = 0

(* An EXEC PM that does what the gate lists ends up with the canonical      *)
(* layout (bootstrap-skill.md:577, "new column, A returns to tall").        *)
ChecklistReachesLayout == gate = Unasked => wall = computeSurfaceLayout(Staffed)
=============================================================================
