------------------------------ MODULE RoleSlots ------------------------------
(***************************************************************************)
(* Role identity (src/protocol/role-identity.ts).  A seat is a team and a  *)
(* role; what a record holds is some spelling of it.  "exact" is the       *)
(* canonical text; "respelled" differs in case, blanks, separators,        *)
(* invisible characters or a U+2010/U+2011 hyphen and is folded away;      *)
(* "lookalike" holds a character outside the alphabet (a homoglyph, an en  *)
(* dash) and is refused; "absent" is a value that is not a text at all.    *)
(***************************************************************************)
CONSTANT Unreadable      \* what the canonicalization answers for no seat

Slot(team, role) == [team |-> team, role |-> role]
Spelled(seat, form) == [seat |-> seat, form |-> form]

\* The operator has a seat without a team.
Operator == Slot("none", "OPERATOR")
ExecutiveOffice ==
  {"EXEC-PM", "EXEC-ODIN", "EXEC-ASST", "EXEC-RSCH", "EXEC-QA"}

RATIFIED_COMMIT_ISSUER_SLOTS ==
  {Operator} \cup { Slot("A", role) : role \in ExecutiveOffice }
ROSTER_MUTATION_AUTHORITY_SLOTS == RATIFIED_COMMIT_ISSUER_SLOTS

Readable(v) == v.form \in {"exact", "respelled"}

canonicalRoleSlot(v) == IF Readable(v) THEN v.seat ELSE Unreadable

\* Raw strings compared, as the closure check once did.
SameText(v, w) == v.form # "absent" /\ v = w
\* Two unreadable values are never equal.
roleSlotsEqual(v, w) ==
  /\ canonicalRoleSlot(v) # Unreadable
  /\ canonicalRoleSlot(v) = canonicalRoleSlot(w)

hasExecutiveAuthority(v) ==
  /\ canonicalRoleSlot(v) # Unreadable
  /\ canonicalRoleSlot(v) \in RATIFIED_COMMIT_ISSUER_SLOTS

\* The former prefix test: anybody of team A, and the operator.
ByTeamPrefix(v) == Readable(v) /\ (v.seat.team = "A" \/ v.seat = Operator)
hasRosterMutationAuthority(v) ==
  /\ canonicalRoleSlot(v) # Unreadable
  /\ canonicalRoleSlot(v) \in ROSTER_MUTATION_AUTHORITY_SLOTS

(* Kind, not identity: the profile key a role falls under, without its     *)
(* team and lane, written with underscores.                                *)
roleKindOf(role) ==
  CASE role = "ODIN" -> "TEAM_ODIN"
    [] role = "PM" -> "TEAM_PM"
    [] role \in {"DEV", "DEV-1", "DEV-2"} -> "DEV_WORKER"
    [] role \in {"QA", "QA-1", "QA-2"} -> "QA_WORKER"
    [] role \in {"SHADOW", "SHADOW-1"} -> "SHADOW_REVIEWER"
    [] role = "EXEC-PM" -> "EXEC_PM"
    [] role = "EXEC-ODIN" -> "EXEC_ODIN"
    [] role \in {"EXEC-ASST", "EXEC-RSCH", "EXEC-QA"} -> "EXEC_STAFF"
    [] OTHER -> "NO_KIND"

isHighAuthorityRole(role) ==
  roleKindOf(role) \in {"EXEC_PM", "TEAM_PM", "EXEC_ODIN", "TEAM_ODIN"}
isOdinRole(role) == roleKindOf(role) \in {"EXEC_ODIN", "TEAM_ODIN"}
isGovernedRole(role) == roleKindOf(role) # "NO_KIND"
=============================================================================
