------------------------------ MODULE MCSession ------------------------------
(***************************************************************************)
(* What a session decides by the service's gates, in independent parts, of *)
(* which a behaviour runs one while the variables of the others keep their *)
(* first values: "wall" lays the teams out (SurfaceLayout); "launch"       *)
(* brings a team up, with waivers, and "advice" has the operator do as     *)
(* told about two seats that do not launch (both Readiness); "message"     *)
(* hands work to a seat and "reading" lets the seat act (both Assignment); *)
(* "slice" is a slice of work (Slice); "seat" loses and covers a seat and  *)
(* "pod" boots one in a repository (both Continuity).                      *)
(***************************************************************************)
EXTENDS SurfaceLayout, Assignment, Slice, Continuity, TLC

CONSTANTS Part,
          Seats, HarnessOf, StatedRole, Optional, HandMade,
          NameForms, Arising, Statuses, Sources, MaxTroubles, NotAsked

VARIABLES part,      \* the part that runs
          session, answer, occupant, waiver, trouble, auth, legacy, proof,
          drift, told, active, faults

teamVars == <<session, answer, occupant, waiver, trouble, auth, legacy, proof,
              drift, told, active, faults>>

-----------------------------------------------------------------------------
(* The slice: three tiers, so that two packets follow one another. *)
dev1 == Slot("B", "DEV-1")
dev2 == Slot("B", "DEV-2")
dev3 == Slot("B", "SHADOW")
qa == Slot("B", "QA-1")
holdout == Slot("A", "EXEC-QA")
pm == Slot("A", "EXEC-PM")
odin == Slot("A", "EXEC-ODIN")
trainee == Slot("A", "EXEC-PM-TRAINEE")

Devs == (0 :> dev1) @@ (1 :> dev2) @@ (2 :> dev3)
Texts ==
  { Spelled(seat, "exact") : seat \in {dev1, dev2, dev3, qa, holdout, pm, odin, trainee} }
    \cup { Spelled(seat, "respelled") : seat \in {dev2, qa, pm} }
    \cup { Spelled(odin, "lookalike") }

V(kind, result, by, paper) ==
  [kind |-> kind, result |-> result, by |-> by, paper |-> paper]
Typed == [declared |-> TRUE, class |-> "legal", bound |-> TRUE]
Unbound == [Typed EXCEPT !.bound = FALSE]
Legacy == [declared |-> FALSE, class |-> "none", bound |-> FALSE]

Authors ==
  { Spelled(dev2, "respelled"), Spelled(qa, "exact"), Spelled(qa, "respelled"),
    Spelled(holdout, "exact") }
SomeVerdicts ==
  { V("SLICE_QA_PASS", "PASS", by, Typed) :
      by \in Authors \cup {Spelled(pm, "respelled")} }
    \cup { V("HOLDOUT_ACCEPTED", "PASS", by, Typed) :
             by \in Authors \cup {Spelled(odin, "lookalike")} }
    \cup { V("SLICE_QA_PASS", "FAIL", Spelled(qa, "exact"), Typed),
           V("HOLDOUT_ACCEPTED", "FAIL", Spelled(holdout, "exact"), Legacy),
           V("HOLDOUT_ACCEPTED", "PASS", Spelled(holdout, "exact"), Unbound),
           V("MISSION_INTERNAL_VALIDATOR", "PASS", Spelled(holdout, "exact"), Typed) }

\* A behaviour of the slice changes the roster or rolls pods over, there are four
\* teams at most, and on the reserve tier little is said (a closure, which takes
\* two verdicts, is reached on the others).
SliceBounds ==
  /\ \/ roster' = {}
     \/ Cardinality(teams') = 1 /\ \A c \in Coordinators : offers'[c] = NoAnswer
  /\ Cardinality(teams') <= 4
  /\ tier' = 2 => Cardinality(verdicts') <= 1

-----------------------------------------------------------------------------
(* The team: an ODIN on a harness with a skill, a worker on an MCP-only one. *)
worker == Slot("B", "DEV-1")
Team == {odin, worker}
Harnesses == (odin :> "claude_code") @@ (worker :> "goose")
OnGoose == [s \in Team |-> "goose"]
NotVital == {worker}
AsWorker == odin :> "DEV-1"

Honest == [source_type |-> "mcp_bootstrap", complete |-> TRUE, clean |-> TRUE,
           marker |-> "m", evidence |-> "m", observed |-> TRUE, path |-> FALSE,
           digest |-> FALSE, dated |-> TRUE]
Made == { [Honest EXCEPT !.source_type = "static_control_file"],
          [Honest EXCEPT !.source_type = "native_skill", !.evidence = "other"] }

R == INSTANCE Readiness

ASSUME TeamAssumption == LayoutAssumption /\ R!ReadinessAssumption

LaunchNext == part = "launch" /\ R!Next /\ told' = told /\ drift' = drift
AdviceNext ==
  /\ part = "advice"
  /\ \/ R!Next /\ (told' # told \/ faults' # faults)
     \/ \E s \in Seats : R!Reverify(s)
  /\ waiver' = waiver /\ occupant' = occupant /\ active' = active
  /\ faults' <= 1

-----------------------------------------------------------------------------
(* The wall, the messages and the files, the seats and the pods.  The gate's *)
(* options: all is well, no CMUX, tabs only, or a split workspace.           *)
Well == [cmux |-> TRUE, tabOnly |-> FALSE, approved |-> FALSE, split |-> FALSE,
         routed |-> FALSE]
SomeOptions == {Well, [Well EXCEPT !.cmux = FALSE], [Well EXCEPT !.tabOnly = TRUE],
                [Well EXCEPT !.split = TRUE]}

SameSize == { [id |-> i, size |-> 1] : i \in {1, 2} }
Asked == getDelegationPacket(TRUE, FALSE)
SomePackets == { Asked, [Asked EXCEPT !.may_qa_accept = TRUE],
                 [Asked EXCEPT !.may_qa_accept = TRUE, !.ref = "e1"] }
Booted == [complete |-> TRUE, team |-> "B", audited |-> TRUE, may_implement |-> TRUE,
           may_qa_accept |-> FALSE, current |-> TRUE, ref |-> "none"]
SomeReceipts == { Booted, [Booted EXCEPT !.audited = FALSE],
                  [Booted EXCEPT !.audited = FALSE, !.ref = "e1"] }

SomeRungs == [harness : {TRUE}, model : {"pinned", "default", "absent"}]
SomeTriggers == { Spelled("AGENT_DEATH", "respelled"),
                  Spelled("USAGE_CAP_EXHAUSTION", "exact"),
                  Spelled("BILLING_ERROR", "respelled"),
                  Spelled("BILLING_ERROR", "lookalike") }

-----------------------------------------------------------------------------
SessionInit ==
  /\ part \in Part
  /\ WallInit /\ R!Init /\ AssignmentInit /\ Init /\ ContinuityInit
  /\ part # "launch" => \A s \in Seats : occupant[s] = "SURFACE_PROVISIONED"
  /\ part = "launch" => /\ occupant[odin] = "SURFACE_PROVISIONED"
                        /\ Cardinality(session) = 2 /\ answer = "unknown"
  /\ part # "launch" => session = {}
  /\ part \notin {"launch", "advice"} => answer = "yes"
  /\ part # "reading" => \A f \in Files : disk[f].id = 1
  /\ part # "pod" => tree = [target |-> 0, aimed |-> TRUE, dirty |-> 0]

SessionNext ==
  /\ part' = part
  /\ \/ /\ part = "wall" /\ WallNext
        /\ UNCHANGED <<teamVars, assignmentVars, vars, continuityVars>>
     \/ /\ LaunchNext \/ AdviceNext
        /\ UNCHANGED <<wallVars, assignmentVars, vars, continuityVars>>
     \/ /\ \/ part = "message" /\ (MessageNext \/ PaperNext)
           \/ part = "reading" /\ ReadingNext
        /\ UNCHANGED <<wallVars, teamVars, vars, continuityVars>>
     \/ /\ part = "slice" /\ Next /\ SliceBounds
        /\ UNCHANGED <<wallVars, teamVars, assignmentVars, continuityVars>>
     \/ /\ \/ part = "seat" /\ SeatNext
           \/ part = "pod" /\ PodNext
        /\ UNCHANGED <<wallVars, teamVars, assignmentVars, vars>>

sessionVars == <<part, wallVars, teamVars, assignmentVars, vars, continuityVars>>

\* In "advice" the operator goes on asking about every seat and doing as told.
Advised(act) ==
  part = "advice" /\ act
    /\ UNCHANGED <<part, wallVars, assignmentVars, vars, continuityVars>>
SessionSpec ==
  /\ SessionInit /\ [][SessionNext]_sessionVars
  /\ \A s \in Seats : /\ WF_sessionVars(Advised(R!Ask(s)))
                       /\ WF_sessionVars(Advised(R!Follow(s)))

-----------------------------------------------------------------------------
\* The properties of Readiness; those of the other modules are known by name.
ActivatedIsProven == R!ActivatedIsProven
AdviceLeadsToReady == part = "advice" => R!AdviceLeadsToReady
PlanIsTruthful == R!PlanIsTruthful
OfficesAreProven == R!OfficesAreProven
=============================================================================
