------------------------------ MODULE Telemetry ------------------------------
(***************************************************************************)
(* Opt-in telemetry: submitSessionReport (src/telemetry/submit.ts) and the *)
(* worker that stores the reports (telemetry/src/index.ts), with the       *)
(* network, the abort timer, the D1 database and its migration in between. *)
(*                                                                         *)
(* Anybody may send to the worker.  A request is handled once: fetch does  *)
(* not repeat a POST, and a caller who tries again makes a new call.       *)
(***************************************************************************)
EXTENDS SessionReport, Naturals

CONSTANTS
  Call,           \* calls of submitSessionReport
  Stranger,       \* requests that do not come from it
  Sessions,       \* the sessions reports are made of
  Versions,       \* the protocol versions in them
  Allowlist,      \* the versions the worker is set to take; none for any
  EnvFlaws,       \* what may be wrong in a call's environment
  Foreign,        \* what strangers send
  NewColumn,      \* the columns the migration adds, one statement each
  NoRequest

Sender == Call \cup Stranger

(* What may be wrong with a request, in the order the worker looks, and the *)
(* status each is refused with.                                             *)
Flaw == {"origin", "preflight", "method", "path", "unprovisioned", "token",
         "type", "size", "json", "shape"}
FlawOrder == <<"origin", "preflight", "method", "path", "unprovisioned", "token",
               "type", "size", "json", "shape">>
StatusOf ==
  [f \in Flaw |-> CASE f = "origin" -> 403 [] f = "preflight" -> 204
                    [] f = "method" -> 405 [] f = "path" -> 404
                    [] f = "unprovisioned" -> 503 [] f = "token" -> 401
                    [] f = "type" -> 415 [] f = "size" -> 413
                    [] f \in {"json", "shape"} -> 400]

\* submitSessionReport sends a POST, never a preflight.
ASSUME TelemetryAssumption ==
  /\ Call \cap Stranger = {}
  /\ Sessions \subseteq Session /\ Versions \subseteq Version
  /\ Allowlist \subseteq {"listed"}
  /\ EnvFlaws \subseteq SUBSET (Flaw \ {"preflight"})
  /\ Foreign \subseteq [body : Report, flaws : SUBSET Flaw]
  /\ NewColumn # {}

VARIABLES
  pc,             \* of each call
  result,         \* what each call returned
  req,            \* the request of each sender
  worker,         \* how far the worker is with it
  answer,         \* the worker's answer to it
  columns,        \* which of the new columns the table has
  payload,        \* whether the table has the old payload column
  rows,           \* the stored rows, by the sender whose id they carry
  faulted         \* history: the senders D1 failed

clientVars == <<pc, result>>
dbVars == <<columns, payload, rows, faulted>>
vars == <<pc, result, req, worker, answer, dbVars>>

NoAnswer == 0
NoResult == [submitted |-> FALSE, id |-> "none", reason |-> "none"]

TypeOK ==
  /\ pc \in [Call -> {"idle", "waiting", "reading", "done"}]
  /\ \A c \in Call : result[c].submitted \in BOOLEAN /\ result[c].id \in {"none", "id"}
  /\ \A s \in Sender : req[s] = NoRequest \/
        /\ req[s].body \in Report /\ req[s].flaws \subseteq Flaw
  /\ worker \in [Sender -> {"none", "arrived", "modern", "hybrid", "legacy",
                            "answered", "lost"}]
  /\ answer \in [Sender -> Nat]
  /\ columns \subseteq NewColumn /\ payload \in BOOLEAN
  /\ DOMAIN rows \subseteq Sender
  /\ \A s \in DOMAIN rows : rows[s] \in Report /\ "straddling" \notin rows[s].labels
  /\ faulted \subseteq Sender

(* The table was made by schema.sql, or by the schema before it. *)
Init ==
  /\ pc = [c \in Call |-> "idle"]
  /\ result = [c \in Call |-> NoResult]
  /\ req = [s \in Sender |-> NoRequest]
  /\ worker = [s \in Sender |-> "none"]
  /\ answer = [s \in Sender |-> NoAnswer]
  /\ \/ columns = NewColumn /\ payload = FALSE
     \/ columns = {} /\ payload = TRUE
  /\ rows = << >>
  /\ faulted = {}

-----------------------------------------------------------------------------
(* submitSessionReport up to the fetch. *)
safeTransport(endpoint) == endpoint \in {"worker", "root"}

Return(c, submitted, id, reason) ==
  /\ pc' = [pc EXCEPT ![c] = "done"]
  /\ result' = [result EXCEPT ![c] =
                  [submitted |-> submitted, id |-> id, reason |-> reason]]

EndpointSet(endpoint) == endpoint # "none"

Declines(c, consent, endpoint) ==
  /\ \/ ~consent /\ Return(c, FALSE, "none", "consent")
     \/ consent /\ ~EndpointSet(endpoint) /\ Return(c, FALSE, "none", "not configured")
     \/ /\ consent /\ EndpointSet(endpoint) /\ ~safeTransport(endpoint)
        /\ Return(c, FALSE, "none", "transport")
  /\ UNCHANGED <<req, worker>>

(* flaws: what is wrong in the environment, and a path that is not /report. *)
Sends(c, endpoint, session, report, flaws) ==
  /\ pc' = [pc EXCEPT ![c] = "waiting"]
  /\ req' = [req EXCEPT ![c] =
               [body |-> redactPayload(toTelemetryPayload(report)),
                flaws |-> flaws \cup IF endpoint = "root" THEN {"path"} ELSE {},
                session |-> session, report |-> report]]
  /\ worker' = [worker EXCEPT ![c] = "arrived"]
  /\ UNCHANGED result

Submit(c) ==
  /\ pc[c] = "idle"
  /\ \E consent \in BOOLEAN, endpoint \in {"none", "plain http", "root", "worker"},
        session \in Sessions, version \in Versions, flaws \in EnvFlaws :
       \E report \in {compileSessionReport(session, version), Uncompiled(session, version)} :
         \/ Declines(c, consent, endpoint)
         \/ /\ consent /\ EndpointSet(endpoint) /\ safeTransport(endpoint)
            /\ Sends(c, endpoint, session, report, flaws)
  /\ UNCHANGED <<answer, dbVars>>

-----------------------------------------------------------------------------
(* The answer, the abort timer, and a network that fails. *)
ok(status) == status \in 200 .. 299

(* fetch resolves with the status; the body is still to be read. *)
Resolves(c) ==
  /\ pc[c] = "waiting"
  /\ worker[c] = "answered"
  /\ pc' = [pc EXCEPT ![c] = "reading"]
  /\ UNCHANGED <<result, req, worker, answer, dbVars>>

(* response.json(): whole, or cut off or not JSON, which is caught. *)
ReadsBody(c) ==
  /\ pc[c] = "reading"
  /\ \E id \in IF answer[c] = 200 THEN {"id", "none"} ELSE {"none"} :
       Return(c, ok(answer[c]), id, IF ok(answer[c]) THEN "none" ELSE "HTTP")
  /\ UNCHANGED <<req, worker, answer, dbVars>>

(* The timer runs until the call returns, also while the body is read. *)
UntilResolved(c) == pc[c] = "waiting"
TimerRuns(c) == pc[c] \in {"waiting", "reading"}

Aborts(c) ==
  /\ TimerRuns(c)
  /\ IF pc[c] = "waiting" THEN Return(c, FALSE, "none", "aborted")
     ELSE Return(c, ok(answer[c]), "none", IF ok(answer[c]) THEN "none" ELSE "HTTP")
  /\ UNCHANGED <<req, worker, answer, dbVars>>

FetchFails(c) ==
  /\ pc[c] = "waiting"
  /\ Return(c, FALSE, "none", "network")
  /\ UNCHANGED <<req, worker, answer, dbVars>>

(* A request that does not arrive, an answer that does not, a worker that   *)
(* is stopped in between: what it wrote stays.                              *)
Loses(s) ==
  /\ worker[s] \notin {"none", "lost"}
  /\ s \in Call => pc[s] = "waiting"
  /\ worker' = [worker EXCEPT ![s] = "lost"]
  /\ UNCHANGED <<clientVars, req, answer, dbVars>>

StrangerSends(s) ==
  /\ worker[s] = "none"
  /\ \E r \in Foreign : req' = [req EXCEPT ![s] = r]
  /\ worker' = [worker EXCEPT ![s] = "arrived"]
  /\ UNCHANGED <<clientVars, answer, dbVars>>

-----------------------------------------------------------------------------
(* The worker: its checks, in their order, then the insert. *)
Answer(s, status) ==
  /\ worker' = [worker EXCEPT ![s] = "answered"]
  /\ answer' = [answer EXCEPT ![s] = status]

FirstFlaw(flaws) ==
  LET i == CHOOSE i \in DOMAIN FlawOrder :
             /\ FlawOrder[i] \in flaws
             /\ \A j \in 1 .. i - 1 : FlawOrder[j] \notin flaws
  IN FlawOrder[i]

versionAllowed(version) == Allowlist = {} \/ version \in Allowlist

(* unknown_fields, invalid_version, missing_version, version_not_allowed *)
AnyVersion(body) ==
  IF body.extra # {} \/ body.version \in {"overlong", "empty"} THEN 400 ELSE 0
BodyRefused(body) ==
  IF body.extra # {} \/ body.version \in {"overlong", "empty"} THEN 400
  ELSE IF ~versionAllowed(body.version) THEN 403 ELSE 0

Refuses(s) ==
  /\ worker[s] = "arrived"
  /\ IF req[s].flaws # {}
     THEN Answer(s, StatusOf[FirstFlaw(req[s].flaws)])
     ELSE /\ BodyRefused(req[s].body) # 0
          /\ Answer(s, BodyRefused(req[s].body))
  /\ UNCHANGED <<clientVars, req, dbVars>>

Admits(s) ==
  /\ worker[s] = "arrived"
  /\ req[s].flaws = {}
  /\ BodyRefused(req[s].body) = 0
  /\ worker' = [worker EXCEPT ![s] = "modern"]
  /\ UNCHANGED <<clientVars, req, answer, dbVars>>

(* SQLite names a missing column before it looks at constraints. *)
Fits(form) ==
  CASE form = "modern" -> columns = NewColumn /\ ~payload
    [] form = "hybrid" -> columns = NewColumn /\ payload
    [] form = "legacy" -> payload

(* insertReport's catch; a fallback that fails is not caught again. *)
NeverHybrid(form) ==
  IF form = "modern" /\ columns # NewColumn THEN "legacy" ELSE "none"
Fallback(form) ==
  CASE form = "modern" /\ columns # NewColumn -> "legacy"
    [] form = "modern" /\ columns = NewColumn /\ payload -> "hybrid"
    [] OTHER -> "none"

Forms == {"modern", "hybrid", "legacy"}
Stored(s) == [t \in DOMAIN rows \cup {s} |->
                IF t = s THEN Normalized(req[s].body) ELSE rows[t]]

Inserts(s) ==
  /\ worker[s] \in Forms
  /\ Fits(worker[s])
  /\ rows' = Stored(s)
  /\ Answer(s, 200)
  /\ UNCHANGED <<clientVars, req, columns, payload, faulted>>

IgnoresStorageError == 200
StorageError == 500

DoesNotFit(s) ==
  /\ worker[s] \in Forms
  /\ ~Fits(worker[s])
  /\ IF Fallback(worker[s]) = "none"
     THEN Answer(s, StorageError)
     ELSE worker' = [worker EXCEPT ![s] = Fallback(worker[s])] /\ UNCHANGED answer
  /\ UNCHANGED <<clientVars, req, dbVars>>

(* D1 fails for another reason, before or after it has stored the row. *)
D1Fails(s) ==
  /\ worker[s] \in Forms
  /\ rows' \in {rows} \cup IF Fits(worker[s]) THEN {Stored(s)} ELSE {}
  /\ faulted' = faulted \cup {s}
  /\ Answer(s, StorageError)
  /\ UNCHANGED <<clientVars, req, columns, payload>>

(* The migration's statements, each on its own. *)
Migrate ==
  /\ payload
  /\ \E c \in NewColumn \ columns : columns' = columns \cup {c}
  /\ UNCHANGED <<clientVars, req, worker, answer, payload, rows, faulted>>

-----------------------------------------------------------------------------
WorkerStep(s) == Refuses(s) \/ Admits(s) \/ Inserts(s) \/ DoesNotFit(s) \/ D1Fails(s)

Next ==
  \/ \E c \in Call : Submit(c) \/ Resolves(c) \/ ReadsBody(c)
                       \/ Aborts(c) \/ FetchFails(c)
  \/ \E s \in Stranger : StrangerSends(s)
  \/ \E s \in Sender : WorkerStep(s) \/ Loses(s)
  \/ Migrate

Spec == Init /\ [][Next]_vars

(* The timer fires; nothing is assumed of the network or of the worker. *)
FairSpec == Spec /\ \A c \in Call : WF_vars(Aborts(c))

-----------------------------------------------------------------------------
(* What leaves is counts and labels, whoever made the report: no            *)
(* diagnostics or notes, no secret, and no piece of one that the cut to a   *)
(* length left (submit.ts toTelemetryPayload, redactPayload; the data       *)
(* contract of telemetry/README.md).                                        *)
OnlyWhatMayLeave ==
  \A c \in Call : req[c] # NoRequest =>
    /\ req[c].body.extra = {}
    /\ req[c].body.labels \cap Private = {}

(* A call that reports a submission is right: the row is in the database,   *)
(* and it says what the report said, whatever was lost, aborted or migrated *)
(* meanwhile.                                                               *)
ClaimedIsStored ==
  \A c \in Call : result[c].submitted =>
    c \in DOMAIN rows /\ rows[c] = Expected(req[c].report)

(* No report is lost to the migration: at whatever statement of it the      *)
(* insert and its fallback run, only a fault of D1 makes a storage error.   *)
NoReportLostToSchema ==
  \A s \in Sender : answer[s] = 500 => s \in faulted

(* A row's sender had every admission: no flaw, no unknown field, a version *)
(* that is listed if there is a list; and who was refused has no row.       *)
OnlyAdmittedRows ==
  \A s \in Sender :
    /\ s \in DOMAIN rows => /\ req[s].flaws = {} /\ req[s].body.extra = {}
                            /\ Allowlist = {} \/ req[s].body.version \in Allowlist
    /\ answer[s] \notin {NoAnswer, 200, 500} => s \notin DOMAIN rows

(* So the stored rows are the admitted reports, and the answers true.       *)
StorageIsHonest == ClaimedIsStored /\ NoReportLostToSchema /\ OnlyAdmittedRows

(* The timer bounds the wait: every call that sent something returns.       *)
EveryCallAnswers == \A c \in Call : pc[c] = "waiting" ~> pc[c] = "done"

(* report.ts HARNESS_BLOCKER_MAP: a harness failure that blocked a session  *)
(* is reported under its class in the compiled report.                      *)
HarnessBlockersAreReported ==
  \A c \in Call : req[c] # NoRequest /\ req[c].report.extra = {"ax"} =>
      { HARNESS_BLOCKER_MAP[k] : k \in req[c].session.blocked } \subseteq req[c].body.blockers
=============================================================================
