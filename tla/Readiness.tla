------------------------------ MODULE Readiness ------------------------------
(***************************************************************************)
(* Bringing a team up (src/protocol/service.ts, and the disk verifier      *)
(* scripts/protocol/verify-governed-context.mjs).  Every seat has an       *)
(* occupant on some harness with troubles that come and are repaired;      *)
(* proofs of the control layer's uptake are recorded, or made up; the      *)
(* readiness gate lets the team launch and later activate; the probe and   *)
(* the onboarding plan report on the same harnesses.                       *)
(***************************************************************************)
EXTENDS RoleSlots, Integers, FiniteSets, Sequences

CONSTANTS
  Seats,          \* the team's seats
  HarnessOf,      \* seat -> harness, by its canonical id
  StatedRole,     \* seat -> role, for seats whose record states one of its own
  Optional,       \* the seats that are explicitly not required
  NameForms,      \* how agents name a harness: by "display" name or by "id"
  Arising,        \* troubles that may arise
  Statuses,       \* authentication statuses that occur
  Sources,        \* legacy context sources that are declared, beside "none"
  HandMade,       \* proofs that agents write themselves
  MaxTroubles,    \* bound: troubles, declarations and hand-made proofs
  NoProof,
  NotAsked

VARIABLES
  session,        \* EXEC PM authorization on record, CMUX available
  answer,         \* the user's answer to the provisioning question
  occupant,       \* seat -> occupant state
  waiver,         \* seat -> the EXEC PM's waiver, or substitution
  trouble,        \* seat -> what is wrong with the occupant
  auth,           \* seat -> authentication status
  legacy,         \* seat -> context source the older fields declare
  proof,          \* seat -> governed-context proof on record
  drift,          \* seat -> what happened to its proof since it was recorded
  told,           \* seat -> what the gate last said of it, if it was asked
  active,         \* the team was activated
  faults          \* counts towards MaxTroubles

vars == <<session, answer, occupant, waiver, trouble, auth, legacy, proof,
          drift, told, active, faults>>

GateTroubles ==
  {"MCP_VERSION_UNVERIFIED", "MCP_VERSION_TOO_OLD", "MCP_UNAVAILABLE",
   "SCP_SKILL_MISSING", "BLOCKED_BY_PERMISSION", "MODEL_STALLED",
   "STREAMING_PROTOCOL_MISMATCH", "MODEL_UNREACHABLE",
   "ROLE_COMPATIBILITY_FAILED"}
LiveTroubles ==
  {"BLOCKED_BY_PERMISSION", "IDLE_STALLED", "UNSAFE_DELIVERY", "NOT_LIVE"}
\* Seen by the probe alone: no management command, no entry for the server.
ProbeTroubles == {"NOT_INSTALLED", "MCP_UNMANAGED", "MCP_UNCONFIGURED"}
Trouble ==
  GateTroubles \cup LiveTroubles \cup ProbeTroubles \cup {"NO_HOOKS", "NO_HYDRATION"}

-----------------------------------------------------------------------------
(* Harnesses and assurance *)

\* The names the registry of categories is keyed by, in lower case.
DisplayName(id) == IF id = "claude_code" THEN "claude code" ELSE id
Named(id, form) == IF form = "id" THEN id ELSE DisplayName(id)

harnessCategory(name) ==
  CASE name \in {"codex", "claude code"} -> "native_skill"
    [] name \in {"cursor", "zed", "aider", "crush"} -> "static_control_file"
    [] name \in {"pi", "nanocoder"} -> "unsupported"
    [] OTHER -> "mcp_only"

ASSURANCE_RANK(a) ==
  CASE a = "none" -> 0
    [] a = "mcp_bootstrap" -> 1
    [] a = "static_control_file" -> 2
    [] a = "native_skill" -> 3

maxAssuranceForCategory(c) ==
  CASE c = "mcp_only" -> "mcp_bootstrap"
    [] c = "unsupported" -> "none"
    [] OTHER -> c

RequiredAssurance(category, role) ==
  LET base == maxAssuranceForCategory(category) IN
  IF isHighAuthorityRole(role) /\ ASSURANCE_RANK(base) < 2
  THEN "static_control_file" ELSE base

-----------------------------------------------------------------------------
(* Proofs: complete stands for the schema and the required texts, marker    *)
(* and evidence are what the control source and the uptake receipt quote    *)
(* ("" for nothing), path for a control file that is named, digest for its  *)
(* checksum, dated for the receipt's time; clean: no secret-looking value.  *)
GOVERNED_CONTEXT_SOURCE_TYPES ==
  {"native_skill", "static_control_file", "mcp_bootstrap"}
Proof == [source_type : GOVERNED_CONTEXT_SOURCE_TYPES \cup {"bare"},
          complete : BOOLEAN, clean : BOOLEAN,
          marker : {"", "m"}, evidence : {"", "m", "other"}, observed : BOOLEAN,
          path : BOOLEAN, digest : BOOLEAN, dated : BOOLEAN]

ReadinessAssumption ==
  /\ MaxTroubles \in Nat
  /\ Optional \subseteq Seats
  /\ Arising \subseteq Trouble
  /\ HandMade \subseteq Proof

\* Bug: the control source has to be a file, which MCP uptake has none of.
OnDisk(p) ==
  /\ p # NoProof
  /\ p.complete /\ p.clean /\ p.source_type \in GOVERNED_CONTEXT_SOURCE_TYPES
  /\ p.path /\ p.digest
  /\ p.observed
  /\ p.evidence = p.marker

validateGovernedContextProof(p) ==
  /\ p # NoProof
  /\ p.complete /\ p.clean /\ p.source_type \in GOVERNED_CONTEXT_SOURCE_TYPES
  /\ p.marker # ""
  /\ p.path => p.digest
  /\ p.observed
  /\ p.evidence = p.marker

\* The verifier with access to the disk and the clock.
verifyGovernedContextProof(p, since) ==
  /\ p # NoProof
  /\ p.clean /\ p.complete /\ p.source_type \in GOVERNED_CONTEXT_SOURCE_TYPES
  /\ p.marker # "" /\ p.observed /\ p.evidence = p.marker
  /\ p.path => p.digest /\ "edited" \notin since
  /\ p.dated /\ "aged" \notin since

recordGovernedContextProof(type, named) ==
  [source_type |-> type, complete |-> TRUE, clean |-> TRUE, marker |-> "m",
   evidence |-> "m", observed |-> TRUE, path |-> named,
   digest |-> named, dated |-> TRUE]

-----------------------------------------------------------------------------
(* The four states of governed readiness.  A blocker is a name; which comes *)
(* first decides the advice.                                                *)
AuthClasses ==
  {"BLOCKED_BY_LOGIN", "BLOCKED_BY_API_KEY", "AUTH_PROVIDER_BLOCKED",
   "BLOCKED_BY_AUTH"}
AuthClass(status) ==
  CASE status = "AUTH_LOGIN_REQUIRED" -> {"BLOCKED_BY_LOGIN"}
    [] status = "AUTH_MISSING" -> {"BLOCKED_BY_API_KEY"}
    [] status = "AUTH_PROVIDER_BLOCKED" -> {"AUTH_PROVIDER_BLOCKED"}
    [] status = "AUTH_UNKNOWN" -> {"BLOCKED_BY_AUTH"}
    [] OTHER -> {}

\* in: installed, status, proof, trouble and other blockers.
Blockers(in, required) ==
  (IF in.installed THEN {} ELSE {"not installed"})
    \cup (IF AuthClass(in.status) = {} THEN {} ELSE {"authentication"})
    \cup (in.trouble \cap (LiveTroubles \cup {"NO_HOOKS"}))
    \cup in.others
    \cup (IF ~validateGovernedContextProof(in.proof) THEN {"no uptake"}
          ELSE IF ASSURANCE_RANK(in.proof.source_type) < ASSURANCE_RANK(required)
               THEN {"assurance"} ELSE {})

Reachable(harness, role) ==
  LET category == harnessCategory(harness) IN
  ASSURANCE_RANK(maxAssuranceForCategory(category))
    >= ASSURANCE_RANK(RequiredAssurance(category, role))

State(harness, role, blockers) ==
  IF harnessCategory(harness) = "unsupported" THEN "UNSUPPORTED"
  ELSE IF blockers = {} THEN "GOVERNED_READY"
  ELSE IF Reachable(harness, role) THEN "FIXABLE_BLOCKED"
  ELSE "NON_GOVERNED_ONE_SHOT_ONLY"

classifyGovernedReadiness(harness, role, in) ==
  LET required == RequiredAssurance(harnessCategory(harness), role)
      blockers == Blockers(in, required)
  IN [state |-> State(harness, role, blockers), required |-> required,
      blockers |-> blockers]

(* governedReadinessNextAction: what to do about the first blocker, in the  *)
(* order in which they are found.                                           *)
Advice(a) ==
  LET has(bs) == a.blockers \cap bs # {} IN
  IF a.state # "FIXABLE_BLOCKED" THEN "nothing to fix"
  ELSE IF has({"not installed"}) THEN "resolve"
  ELSE IF has({"authentication"}) THEN "sign in"
  ELSE IF has({"NO_HOOKS"}) THEN "deploy hooks"
  ELSE IF has(LiveTroubles) THEN "resolve live blocker"
  ELSE IF a.blockers \ {"no uptake", "assurance"} # {} THEN "resolve"
  ELSE IF has({"no uptake"}) THEN "take up"
  ELSE "raise assurance"

-----------------------------------------------------------------------------
(* The readiness gate *)

Role(s) == s.role
\* The assurance is asked for the role that the record states, if it states one,
\* and everything else for the role of the slot.
RequestedRole(s) == IF s \in DOMAIN StatedRole THEN StatedRole[s] ELSE Role(s)
Vacant(s) == occupant[s] = "VACANT_ROLE_SLOT"
Declared(s) == IF legacy[s] = "none" THEN {} ELSE {legacy[s]}

\* What resolveContextSources answers: the sources, and whether they conflict.
ProofSource(s) ==
  IF validateGovernedContextProof(proof[s]) THEN {proof[s].source_type} ELSE {}
ContextSources(s) == IF Declared(s) = {} THEN ProofSource(s) ELSE Declared(s)
ContextConflict(s) == Declared(s) # {} /\ ~ProofSource(s) \subseteq Declared(s)

unwaivableLaunchBlockers ==
  (GateTroubles \ {"SCP_SKILL_MISSING"})
    \cup {"UNSUITABLE_FOR_ODIN_ROLE", "CONTEXT_SOURCE_CONFLICT"}

OccupantClassifications(s) ==
  (trouble[s] \cap GateTroubles)
    \cup AuthClass(auth[s])
    \cup (IF ContextSources(s) = {} /\ isGovernedRole(Role(s))
          THEN {"NON_GOVERNED_ONE_SHOT_ONLY"} ELSE {})
    \cup (IF ContextConflict(s) THEN {"CONTEXT_SOURCE_CONFLICT"} ELSE {})
    \cup (IF answer # "yes" /\ auth[s] \in {"AUTH_MISSING", "AUTH_UNKNOWN", "unstated"}
          THEN {"USER_INPUT_REQUIRED"} ELSE {})
    \cup (IF isOdinRole(Role(s)) /\ "NO_HYDRATION" \in trouble[s]
               /\ legacy[s] # "static_control_file"
               /\ (legacy[s] # "native_skill" \/ "SCP_SKILL_MISSING" \in trouble[s])
          THEN {"UNSUITABLE_FOR_ODIN_ROLE"} ELSE {})

Classifications(s) ==
  (IF "authorized" \in session THEN {} ELSE {"EXEC_PM_AUTHORIZATION_REQUIRED"})
    \cup (IF "cmux" \in session THEN {} ELSE {"CMUX_UNAVAILABLE"})
    \cup (IF ~Vacant(s) THEN OccupantClassifications(s)
          ELSE IF s \in Optional THEN {"VACANT_ROLE_SLOT"}
          ELSE {"VACANT_ROLE_SLOT", "VACANT_SLOT_REQUIREMENT_UNVERIFIED"})

Failures(s) ==
  Classifications(s) \ {"SCP_SKILL_MISSING", "NON_GOVERNED_ONE_SHOT_ONLY",
                        "VACANT_ROLE_SLOT"}

\* Bug: the EXEC PM's waiver covers everything.
WaivesAll(s) == "authorized" \in session /\ waiver[s] = "WAIVED_BY_EXEC_PM"
approvedWaiver(s) ==
  /\ "authorized" \in session /\ waiver[s] = "WAIVED_BY_EXEC_PM"
  /\ Classifications(s) \cap unwaivableLaunchBlockers = {}
approvedSubstitution(s) ==
  /\ "authorized" \in session /\ waiver[s] = "SUBSTITUTION_APPROVED_BY_EXEC_PM"
  /\ Failures(s) = {}

Status(s) ==
  IF approvedSubstitution(s) THEN "SUBSTITUTION_APPROVED_BY_EXEC_PM"
  ELSE IF approvedWaiver(s) THEN "WAIVED_BY_EXEC_PM"
  ELSE IF "NON_GOVERNED_ONE_SHOT_ONLY" \in Classifications(s)
       THEN "NON_GOVERNED_ONE_SHOT_ONLY"
  ELSE IF Failures(s) # {} THEN "FAIL" ELSE "PASS"

launchAllowed(s) ==
  Status(s) \in {"PASS", "WAIVED_BY_EXEC_PM", "SUBSTITUTION_APPROVED_BY_EXEC_PM"}

readyOccupant(s) ==
  \/ occupant[s] \in {"BOOTSTRAPPED_IDLE", "ACTIVE_WATCH"}
  \/ Vacant(s) /\ s \in Optional

activationAllowedBase(s) ==
  \/ Status(s) = "PASS" /\ readyOccupant(s)
  \/ Status(s) = "WAIVED_BY_EXEC_PM" /\ readyOccupant(s) /\ Failures(s) = {}
  \/ /\ Status(s) = "SUBSTITUTION_APPROVED_BY_EXEC_PM"
     /\ Vacant(s) /\ s \in Optional

GateInput(s) ==
  [installed |-> TRUE, status |-> IF Vacant(s) THEN "unstated" ELSE auth[s],
   proof |-> proof[s], trouble |-> trouble[s], others |-> Failures(s)]

governed(s, form) ==
  classifyGovernedReadiness(Named(HarnessOf[s], form), RequestedRole(s),
                            GateInput(s))

\* Bug: the legacy readiness fields are enough.
AsBefore(s, form) == activationAllowedBase(s)
activationAllowed(s, form) ==
  /\ activationAllowedBase(s)
  /\ (isGovernedRole(Role(s)) /\ ~Vacant(s))
       => governed(s, form).state = "GOVERNED_READY"

Provided == session = {"authorized", "cmux"}
overallStatus == Seats # {} /\ Provided /\ \A s \in Seats : launchAllowed(s)
activationStatus(form) ==
  Seats # {} /\ Provided /\ \A s \in Seats : activationAllowed(s, form)

-----------------------------------------------------------------------------
(* The probe and the onboarding plan, which report on a harness, not a seat *)

ProbeClassifications(s) ==
  (trouble[s] \cap {"BLOCKED_BY_PERMISSION", "MODEL_STALLED", "MODEL_UNREACHABLE",
                    "STREAMING_PROTOCOL_MISMATCH", "ROLE_COMPATIBILITY_FAILED",
                    "NOT_INSTALLED"})
    \cup AuthClass(auth[s])
    \cup (IF answer = "yes" THEN {} ELSE {"USER_INPUT_REQUIRED"})
    \cup (IF "MCP_UNMANAGED" \notin trouble[s] THEN {}
          ELSE IF HarnessOf[s] = "crush" THEN {"MCP_UNAVAILABLE"} ELSE {"MCP_UNPROVEN"})
    \cup (IF "NOT_INSTALLED" \notin trouble[s] /\ "MCP_UNCONFIGURED" \in trouble[s]
               /\ legacy[s] \notin {"native_skill", "static_control_file"}
          THEN {"NON_GOVERNED_ONE_SHOT_ONLY"} ELSE {})

getHarnessProbeMatrix(s) ==
  classifyGovernedReadiness(Named(HarnessOf[s], "display"), RequestedRole(s),
    [installed |-> "NOT_INSTALLED" \notin trouble[s], status |-> auth[s],
     proof |-> proof[s], trouble |-> trouble[s],
     others |-> ProbeClassifications(s) \ (AuthClasses \cup
                  {"USER_INPUT_REQUIRED", "NON_GOVERNED_ONE_SHOT_ONLY"})])

\* nextUserAction: "All probed harnesses are governed-ready".
PlanSaysReady ==
  /\ answer = "yes"
  /\ \A s \in Seats : ProbeClassifications(s) \subseteq {"USER_INPUT_REQUIRED"}

-----------------------------------------------------------------------------
Init ==
  /\ session \in SUBSET {"authorized", "cmux"}
  /\ answer \in {"yes", "unknown"}
  /\ occupant \in [Seats -> {"SURFACE_PROVISIONED", "VACANT_ROLE_SLOT"}]
  /\ waiver = [s \in Seats |-> "none"]
  /\ trouble = [s \in Seats |-> {"NO_HOOKS"}]
  /\ auth = [s \in Seats |-> "unstated"]
  /\ legacy = [s \in Seats |-> "none"]
  /\ proof = [s \in Seats |-> NoProof]
  /\ drift = [s \in Seats |-> {}]
  /\ told = [s \in Seats |-> NotAsked]
  /\ active = FALSE
  /\ faults = 0

Fault ==
  /\ ~active /\ faults < MaxTroubles
  /\ faults' = faults + 1

Arise(s, t) ==
  /\ Fault /\ ~Vacant(s)
  /\ trouble' = [trouble EXCEPT ![s] = @ \cup {t}]
  /\ UNCHANGED <<session, answer, occupant, waiver, auth, legacy, proof, drift, told,
                 active>>

LoseAuth(s, status) ==
  /\ Fault /\ ~Vacant(s)
  /\ auth' = [auth EXCEPT ![s] = status]
  /\ UNCHANGED <<session, answer, occupant, waiver, trouble, legacy, proof, drift, told,
                 active>>

Declare(s, source) ==
  /\ Fault
  /\ legacy' = [legacy EXCEPT ![s] = source]
  /\ UNCHANGED <<session, answer, occupant, waiver, trouble, auth, proof, drift, told,
                 active>>

\* An agent hands in a proof of its own making.
Submit(s, p) ==
  /\ Fault
  /\ proof' = [proof EXCEPT ![s] = p]
  /\ UNCHANGED <<session, answer, occupant, waiver, trouble, auth, legacy, drift, told,
                 active>>

Drift(s, d) ==
  /\ Fault /\ proof[s] # NoProof
  /\ drift' = [drift EXCEPT ![s] = @ \cup {d}]
  /\ UNCHANGED <<session, answer, occupant, waiver, trouble, auth, legacy, proof, told,
                 active>>

\* A proof that no longer verifies on disk is withdrawn.
Reverify(s) ==
  /\ ~active /\ proof[s] # NoProof
  /\ ~verifyGovernedContextProof(proof[s], drift[s])
  /\ proof' = [proof EXCEPT ![s] = NoProof]
  /\ UNCHANGED <<session, answer, occupant, waiver, trouble, auth, legacy, drift, told,
                 active, faults>>

Waive(s, w) ==
  /\ ~active /\ "authorized" \in session /\ waiver[s] = "none"
  /\ waiver' = [waiver EXCEPT ![s] = w]
  /\ UNCHANGED <<session, answer, occupant, trouble, auth, legacy, proof, drift, told,
                 active, faults>>

Staff(s) ==
  /\ ~active /\ Vacant(s)
  /\ occupant' = [occupant EXCEPT ![s] = "SURFACE_PROVISIONED"]
  /\ UNCHANGED <<session, answer, waiver, trouble, auth, legacy, proof, drift, told,
                 active, faults>>

Launch ==
  /\ ~active /\ overallStatus
  /\ \E s \in Seats : occupant[s] = "SURFACE_PROVISIONED"
  /\ occupant' = [s \in Seats |->
                    IF Vacant(s) THEN occupant[s] ELSE "BOOTSTRAPPED_IDLE"]
  /\ UNCHANGED <<session, answer, waiver, trouble, auth, legacy, proof, drift, told,
                 active, faults>>

Activate(form) ==
  /\ ~active /\ activationStatus(form)
  /\ active' = TRUE
  /\ UNCHANGED <<session, answer, occupant, waiver, trouble, auth, legacy, proof,
                 drift, told, faults>>

-----------------------------------------------------------------------------
(* The operator follows a seat's advice, one blocker at a time. *)

Ask(s) ==
  /\ ~active /\ ~Vacant(s) /\ told[s] = NotAsked
  /\ \E a \in {governed(s, "display")} : told' = [told EXCEPT ![s] = a]
  /\ UNCHANGED <<session, answer, occupant, waiver, trouble, auth, legacy, proof,
                 drift, active, faults>>

\* A seat that was ready is asked about again, on resume.
AskAgain(s) ==
  /\ ~active /\ told[s] # NotAsked /\ told[s].state # "FIXABLE_BLOCKED"
  /\ told' = [told EXCEPT ![s] = NotAsked]
  /\ UNCHANGED <<session, answer, occupant, waiver, trouble, auth, legacy, proof,
                 drift, active, faults>>

\* The control layer is loaded, recorded by the script and verified by it.
TakeUp(s, p) ==
  /\ verifyGovernedContextProof(p, {})
  /\ proof' = [proof EXCEPT ![s] = p]
  /\ drift' = [drift EXCEPT ![s] = {}]
  /\ UNCHANGED <<session, answer, trouble, auth, legacy>>

CanTakeUp(s, level) ==
  LET best == maxAssuranceForCategory(harnessCategory(Named(HarnessOf[s], "display")))
  IN ASSURANCE_RANK(level) <= ASSURANCE_RANK(best)

Repair(s, ts) ==
  /\ trouble' = [trouble EXCEPT ![s] = @ \ ts]
  /\ UNCHANGED <<session, answer, auth, legacy, proof, drift>>

SignIn(s) ==
  /\ auth' = [auth EXCEPT ![s] = "AUTH_READY"]
  /\ UNCHANGED <<session, answer, trouble, legacy, proof, drift>>

\* The operator also acts unasked.
Tend(s) ==
  /\ ~active /\ ~Vacant(s)
  /\ \/ Repair(s, trouble[s])
     \/ SignIn(s)
     \/ \E level \in GOVERNED_CONTEXT_SOURCE_TYPES :
          CanTakeUp(s, level) /\ TakeUp(s, recordGovernedContextProof(level, FALSE))
  /\ UNCHANGED <<occupant, waiver, told, active, faults>>

\* The blocker that has no advice of its own is one of the gate's findings.
Resolve(s, b) ==
  \/ b \in GateTroubles /\ Repair(s, {b})
  \/ b \in AuthClasses /\ SignIn(s)
  \/ b = "UNSUITABLE_FOR_ODIN_ROLE" /\ Repair(s, {"NO_HYDRATION"})
  \/ /\ b = "CONTEXT_SOURCE_CONFLICT"
     /\ legacy' = [legacy EXCEPT ![s] = "none"]
     /\ UNCHANGED <<session, answer, trouble, auth, proof, drift>>
  \/ /\ b = "USER_INPUT_REQUIRED"
     /\ answer' = "yes"
     /\ UNCHANGED <<session, trouble, auth, legacy, proof, drift>>
  \/ /\ b \in {"EXEC_PM_AUTHORIZATION_REQUIRED", "CMUX_UNAVAILABLE"}
     /\ session' = session \cup
          {IF b = "CMUX_UNAVAILABLE" THEN "cmux" ELSE "authorized"}
     /\ UNCHANGED <<answer, trouble, auth, legacy, proof, drift>>

\* What the answer advised is done; the answer may be stale by now.
Follow(s) ==
  /\ ~active /\ told[s] # NotAsked /\ told[s].state = "FIXABLE_BLOCKED"
  /\ told' = [told EXCEPT ![s] = NotAsked]
  /\ \/ Advice(told[s]) = "sign in" /\ SignIn(s)
     \/ Advice(told[s]) = "deploy hooks" /\ Repair(s, {"NO_HOOKS"})
     \/ Advice(told[s]) = "resolve live blocker" /\ Repair(s, LiveTroubles)
     \/ /\ Advice(told[s]) = "resolve"
        /\ \E b \in told[s].blockers : Resolve(s, b)
     \/ /\ Advice(told[s]) \in {"take up", "raise assurance"}
        /\ CanTakeUp(s, told[s].required)
        /\ \E named \in BOOLEAN :
             TakeUp(s, recordGovernedContextProof(told[s].required, named))
  /\ UNCHANGED <<occupant, waiver, active, faults>>

Next ==
  \/ Launch
  \/ \E form \in NameForms : Activate(form)
  \/ \E s \in Seats :
       \/ Ask(s) \/ AskAgain(s) \/ Follow(s) \/ Tend(s) \/ Reverify(s) \/ Staff(s)
       \/ \E t \in Arising : Arise(s, t)
       \/ \E status \in Statuses : LoseAuth(s, status)
       \/ \E source \in Sources : Declare(s, source)
       \/ \E p \in HandMade : Submit(s, p)
       \/ \E d \in {"edited", "aged"} : Drift(s, d)
       \/ \E w \in {"WAIVED_BY_EXEC_PM", "SUBSTITUTION_APPROVED_BY_EXEC_PM"} :
            Waive(s, w)

Spec == Init /\ [][Next]_vars

\* The operator goes on asking about every seat and following the advice.
FairSpec ==
  Spec /\ \A s \in Seats : WF_vars(Ask(s)) /\ WF_vars(Follow(s))

-----------------------------------------------------------------------------
TypeOK ==
  /\ session \subseteq {"authorized", "cmux"}
  /\ proof \in [Seats -> Proof \cup {NoProof}]
  /\ \A s \in Seats : trouble[s] \subseteq Arising \cup {"NO_HOOKS"}
  /\ faults \in 0 .. MaxTroubles

(* An activated team is fit, whatever was waived, substituted or left empty *)
(* on the way: every seat that nobody may do without has an occupant, and   *)
(* every occupant has proven the uptake of its control layer, at the        *)
(* highest assurance its harness supports and never by MCP alone for what   *)
(* its record says is a PM or an ODIN, with nothing known to be wrong       *)
(* (evaluateReadinessGate: "a governed-role occupant may not ACTIVATE       *)
(* unless GOVERNED_READY").                                                 *)
ProvenFor(s) ==
  LET best == maxAssuranceForCategory(harnessCategory(DisplayName(HarnessOf[s]))) IN
  /\ validateGovernedContextProof(proof[s])
  /\ ASSURANCE_RANK(proof[s].source_type) >= ASSURANCE_RANK(best)
  /\ isHighAuthorityRole(RequestedRole(s)) => ASSURANCE_RANK(proof[s].source_type) >= 2
  /\ best # "none"

ActivatedIsProven ==
  active => \A s \in Seats :
    \/ Vacant(s) /\ s \in Optional
    \/ /\ ~Vacant(s) /\ ProvenFor(s)
       /\ trouble[s] \subseteq ProbeTroubles \cup {"SCP_SKILL_MISSING", "NO_HYDRATION"}
       /\ AuthClass(auth[s]) = {}

(* What the comment in classifyGovernedReadiness says ("PM/ODIN must clear  *)
(* at least static_control_file assurance; MCP-only never silently          *)
(* qualifies") and does not hold of a slot whose record states another role *)
(* (MCStatedRole.cfg).                                                      *)
OfficesAreProven ==
  active => \A s \in Seats : isHighAuthorityRole(Role(s)) /\ ~Vacant(s) =>
    ASSURANCE_RANK(proof[s].source_type) >= 2

(* A blocked seat is fixable as the classification claims: an operator who  *)
(* keeps following the advice that comes with it gets there.                *)
AdviceLeadsToReady ==
  \A s \in Seats :
    (told[s] # NotAsked /\ told[s].state = "FIXABLE_BLOCKED")
      ~> active \/ (told[s] # NotAsked /\ told[s].state = "GOVERNED_READY")

(* What the onboarding plan tells the user about the harnesses is what the  *)
(* probe beneath it found ("so they never emit conflicting statuses").      *)
PlanIsTruthful ==
  PlanSaysReady =>
    \A s \in Seats : getHarnessProbeMatrix(s).state = "GOVERNED_READY"
=============================================================================
