---------------------------- MODULE SessionReport ----------------------------
(***************************************************************************)
(* What a session report becomes on its way: compiled and redacted by the  *)
(* server (src/telemetry/report.ts, redactor.ts), reduced to the allowed   *)
(* fields by the client (submit.ts), normalised by the worker              *)
(* (telemetry/src/index.ts).                                               *)
(*                                                                         *)
(* A text is one of a few kinds.  A "secret" has a shape that the redactor *)
(* knows; a "straddling" one too, but it lies across the length a label is *)
(* cut to, and what the cut leaves, a "fragment", has no such shape.       *)
(***************************************************************************)
Text == {"plain", "secret", "straddling", "fragment", "masked"}
Private == {"secret", "straddling", "fragment"}

HarnessCheck == {"openHandsAuthApiCredentials", "kiloCodeLogin", "piRoleRefusal"}
Symptom == {"short_boot_prompt", "skill_missing", "tab_heavy"}
Blocker == {"auth_blocker", "role_refusal", "short_prompt", "missing_skill",
            "tab_heavy_layout"}

Version == {"listed", "unlisted", "empty", "overlong"}

(* What a session saw.  hasAx: diagnostics were given at all; and no text   *)
(* is a fragment before it is cut.                                          *)
Session == [labels : SUBSET (Text \ {"fragment"}), hasAx : BOOLEAN,
            blocked : SUBSET HarnessCheck, symptoms : SUBSET Symptom]

Report == [version : Version, labels : SUBSET Text, blockers : SUBSET Blocker,
           degraded : BOOLEAN, extra : SUBSET {"ax", "notes"}]

-----------------------------------------------------------------------------
redactString(t) == IF t \in {"secret", "straddling"} THEN "masked" ELSE t

(* redactPayload: every text, and whatever stands under a sensitive key *)
isSensitiveKey(k) == k = "openHandsAuthApiCredentials"
RedactedChecks(blocked) == { k \in blocked : ~isSensitiveKey(k) }
redactPayload(body) == [body EXCEPT !.labels = { redactString(t) : t \in @ }]

HARNESS_BLOCKER_MAP ==
  [k \in HarnessCheck |-> IF k = "piRoleRefusal" THEN "role_refusal" ELSE "auth_blocker"]

SymptomBlocker ==
  [s \in Symptom |-> CASE s = "short_boot_prompt" -> "short_prompt"
                       [] s = "skill_missing" -> "missing_skill"
                       [] s = "tab_heavy" -> "tab_heavy_layout"]

(* summarizeAx, of the redacted diagnostics *)
summarizeAx(blocked, symptoms) ==
  { SymptomBlocker[s] : s \in symptoms } \cup { HARNESS_BLOCKER_MAP[k] : k \in blocked }

compileSessionReport(session, version) ==
  [version |-> version,
   labels |-> { redactString(t) : t \in session.labels },
   blockers |-> IF session.hasAx
                THEN summarizeAx(RedactedChecks(session.blocked), session.symptoms)
                ELSE {},
   degraded |-> session.hasAx /\ "tab_heavy" \in session.symptoms,
   extra |-> IF session.hasAx THEN {"ax"} ELSE {}]

(* A report nobody compiled, as odin.submit_session_report takes it too. *)
Uncompiled(session, version) ==
  [version |-> version, labels |-> session.labels, blockers |-> {},
   degraded |-> FALSE, extra |-> {"notes"}]

-----------------------------------------------------------------------------
(* toTelemetryPayload: the allowed fields, each label redacted and cut. *)
Cut(t) == IF t = "straddling" THEN "fragment" ELSE t
CutVersion(v) == IF v = "overlong" THEN "listed" ELSE v

CutsFirst(t) == redactString(Cut(t))
safeString(t) == Cut(redactString(t))

toTelemetryPayload(report) ==
  [version |-> CutVersion(report.version),
   labels |-> { safeString(t) : t \in report.labels },
   blockers |-> report.blockers,
   degraded |-> report.degraded,
   extra |-> {}]

(* The worker's own cut, for whoever sends.  Reports have at most 100       *)
(* labels of a kind; of more, the worker would keep the first hundred.      *)
AnyLength(body) == body
Normalized(body) == [body EXCEPT !.labels = { Cut(t) : t \in @ }]

(* What has to reach the database of a report that was sent. *)
Expected(report) == Normalized(redactPayload(toTelemetryPayload(report)))
=============================================================================
