---------------------------- MODULE SideToolsProofs ----------------------------
(***************************************************************************)
(* The four tools beside the protocol: what leaves of a session and what a *)
(* claimed submission stands on (Telemetry), into what odin-say types and  *)
(* what it may claim (OdinSay), what a silence of odin-watch means and how *)
(* long it lasts (OdinWatch), and what a pacing profile holds and its      *)
(* recommendation heeds (HarnessPacing).                                   *)
(***************************************************************************)
EXTENDS MCSideTools, Sequences, FiniteSetTheorems, TLAPS

-----------------------------------------------------------------------------
(* Telemetry: what a report becomes *)

\* The reports a call can be given.
Reports(session, version) ==
  {compileSessionReport(session, version), Uncompiled(session, version)}

LEMMA AnyReport ==
  ASSUME NEW session \in Session, NEW version \in Version,
         NEW report \in Reports(session, version)
  PROVE  report \in Report /\ "fragment" \notin report.labels
<1>1. CASE report = Uncompiled(session, version)
  BY <1>1 DEF Uncompiled, Report, Session, Text
<1>2. CASE report = compileSessionReport(session, version)
  <2>1. report.labels \subseteq Text /\ "fragment" \notin report.labels
    BY <1>2 DEF compileSessionReport, redactString, Session, Text
  <2>2. report.blockers \subseteq Blocker
    <3>1. \A s \in session.symptoms : SymptomBlocker[s] \in Blocker
      BY DEF SymptomBlocker, Blocker, Session, Symptom
    <3>2. \A k \in RedactedChecks(session.blocked) : HARNESS_BLOCKER_MAP[k] \in Blocker
      BY DEF HARNESS_BLOCKER_MAP, Blocker, Session, HarnessCheck, RedactedChecks
    <3>. QED  BY <1>2, <3>1, <3>2 DEF compileSessionReport, summarizeAx
  <2>3. report.degraded \in BOOLEAN /\ report.extra \in SUBSET {"ax", "notes"}
    BY <1>2 DEF compileSessionReport, Session
  <2>4. report = [version |-> version, labels |-> report.labels,
                  blockers |-> report.blockers, degraded |-> report.degraded,
                  extra |-> report.extra]
    BY <1>2 DEF compileSessionReport
  <2>. QED  BY <2>1, <2>2, <2>3, <2>4 DEF Report
<1>. QED  BY <1>1, <1>2 DEF Reports

\* Redacted and then cut, a text is no secret nor a piece of one.
LEMMA SafeText ==
  ASSUME NEW t \in Text \ {"fragment"}
  PROVE  redactString(safeString(t)) \in {"plain", "masked"}
BY DEF Text, safeString, redactString, Cut

\* What is sent of a report, and what the worker makes of a body.
LEMMA SentBody ==
  ASSUME NEW report \in Report, "fragment" \notin report.labels
  PROVE  LET body == redactPayload(toTelemetryPayload(report)) IN
           /\ body \in Report
           /\ body.extra = {}
           /\ body.labels \subseteq {"plain", "masked"}
<1>. DEFINE plain == toTelemetryPayload(report)
            body == redactPayload(plain)
<1>1. plain = [version |-> CutVersion(report.version),
                 labels |-> { safeString(t) : t \in report.labels },
                 blockers |-> report.blockers, degraded |-> report.degraded,
                 extra |-> {}]
  BY DEF toTelemetryPayload
<1>2. body = [version |-> CutVersion(report.version),
              labels |-> { redactString(t) : t \in plain.labels },
              blockers |-> report.blockers, degraded |-> report.degraded,
              extra |-> {}]
  <2>1. /\ plain.version = CutVersion(report.version)
        /\ plain.blockers = report.blockers /\ plain.degraded = report.degraded
        /\ plain.extra = {}
    BY <1>1
  <2>2. body = [plain EXCEPT !.labels = { redactString(t) : t \in plain.labels }]
    BY DEF redactPayload
  <2>3. ASSUME NEW labels
        PROVE  [plain EXCEPT !.labels = labels]
                 = [version |-> CutVersion(report.version), labels |-> labels,
                    blockers |-> report.blockers, degraded |-> report.degraded,
                    extra |-> {}]
    BY <1>1
  <2>. HIDE DEF plain
  <2>. QED  BY <2>2, <2>3, Zenon
<1>3. body.labels \subseteq {"plain", "masked"}
  <2>1. \A t \in report.labels : t \in Text \ {"fragment"}
    BY DEF Report
  <2>2. body.labels = { redactString(t) : t \in plain.labels }
    BY <1>2
  <2>3. plain.labels = { safeString(t) : t \in report.labels }
    BY <1>1
  <2>. QED  BY <2>1, <2>2, <2>3, SafeText
<1>4. CutVersion(report.version) \in Version
  BY DEF CutVersion, Version, Report
<1>. QED  BY <1>2, <1>3, <1>4 DEF Report, Text

LEMMA NormalizedBody ==
  ASSUME NEW body \in Report
  PROVE  Normalized(body) \in Report /\ "straddling" \notin Normalized(body).labels
<1>. DEFINE cut == { Cut(t) : t \in body.labels }
<1>1. cut \subseteq Text /\ "straddling" \notin cut
  BY DEF Report, Text, Cut
<1>2. Normalized(body) = [version |-> body.version, labels |-> cut,
                          blockers |-> body.blockers, degraded |-> body.degraded,
                          extra |-> body.extra]
  BY DEF Normalized, Report
<1>. QED  BY <1>1, <1>2 DEF Report

-----------------------------------------------------------------------------
(* Telemetry: how a request is refused *)
LEMMA FirstFlawIsThere ==
  ASSUME NEW flaws \in SUBSET Flaw, flaws # {}
  PROVE  FirstFlaw(flaws) \in flaws
<1>. DEFINE First(i) == /\ i \in DOMAIN FlawOrder
                        /\ FlawOrder[i] \in flaws
                        /\ \A j \in 1 .. i - 1 : FlawOrder[j] \notin flaws
<1>1. \E i : First(i)
  <2>1. DOMAIN FlawOrder = 1 .. 10
    BY DEF FlawOrder
  <2>2. /\ FlawOrder[1] = "origin" /\ FlawOrder[2] = "preflight"
        /\ FlawOrder[3] = "method" /\ FlawOrder[4] = "path"
        /\ FlawOrder[5] = "unprovisioned" /\ FlawOrder[6] = "token"
        /\ FlawOrder[7] = "type" /\ FlawOrder[8] = "size"
        /\ FlawOrder[9] = "json" /\ FlawOrder[10] = "shape"
    BY DEF FlawOrder
  <2>3. \E i \in 1 .. 10 : FlawOrder[i] \in flaws
    <3>1. PICK f \in flaws : f \in Flaw
      OBVIOUS
    <3>2. \E i \in 1 .. 10 : FlawOrder[i] = f
      BY <2>2, <3>1 DEF Flaw
    <3>. QED  BY <3>1, <3>2
  <2>4. \A i \in 1 .. 10 : FlawOrder[i] \in flaws =>
          \/ First(i)
          \/ \E j \in 1 .. 10 : j < i /\ FlawOrder[j] \in flaws
    BY <2>1
  <2>. HIDE DEF First
  <2>. QED  BY <2>3, <2>4
<1>2. First(CHOOSE i : First(i))
  BY <1>1
<1>. QED  BY <1>2 DEF FirstFlaw

LEMMA Statuses ==
  ASSUME NEW f \in Flaw
  PROVE  /\ StatusOf[f] \in Nat \ {0, 200, 500}
         /\ f # "preflight" => ~ok(StatusOf[f])
<1>1. /\ StatusOf["origin"] = 403 /\ StatusOf["preflight"] = 204
      /\ StatusOf["method"] = 405 /\ StatusOf["path"] = 404
      /\ StatusOf["unprovisioned"] = 503 /\ StatusOf["token"] = 401
      /\ StatusOf["type"] = 415 /\ StatusOf["size"] = 413
      /\ StatusOf["json"] = 400 /\ StatusOf["shape"] = 400
  BY DEF StatusOf, Flaw
<1>. QED  BY <1>1 DEF Flaw, ok

LEMMA BodyStatuses ==
  ASSUME NEW body
  PROVE  BodyRefused(body) \in {0, 400, 403}
BY DEF BodyRefused

-----------------------------------------------------------------------------
(* Telemetry: the inductive invariant *)

\* What submitSessionReport sends.
Sent(r) ==
  \E session \in Sessions, version \in Versions, flaws \in EnvFlaws,
     path \in {{}, {"path"}} :
    \E report \in Reports(session, version) :
      r = [body |-> redactPayload(toTelemetryPayload(report)), flaws |-> flaws \cup path,
           session |-> session, report |-> report]

Reason == {"none", "consent", "not configured", "transport", "aborted", "network", "HTTP"}

TelemetryTypes ==
  /\ pc \in [Call -> {"idle", "waiting", "reading", "done"}]
  /\ result \in [Call -> [submitted : BOOLEAN, id : {"none", "id"}, reason : Reason]]
  /\ req = [s \in Sender |-> req[s]]
  /\ worker \in [Sender -> {"none", "arrived", "modern", "hybrid", "legacy",
                            "answered", "lost"}]
  /\ answer \in [Sender -> Nat]
  /\ columns \subseteq NewColumn /\ payload \in BOOLEAN
  /\ rows = [s \in DOMAIN rows |-> rows[s]] /\ DOMAIN rows \subseteq Sender
  /\ faulted \subseteq Sender

\* A request is what its sender made of it, from its arrival on.
RequestInv ==
  \A s \in Sender :
    /\ worker[s] = "none" => req[s] = NoRequest
    /\ worker[s] # "none" => IF s \in Call THEN Sent(req[s]) ELSE req[s] \in Foreign

\* A call returns what it has an answer for.
CallInv ==
  \A c \in Call :
    /\ pc[c] = "idle" => worker[c] = "none"
    /\ pc[c] \in {"waiting", "reading"} => worker[c] # "none"
    /\ result[c].submitted => pc[c] = "done" /\ c \in DOMAIN rows

\* An answer is the last the worker does, and says what became of the row.
AnswerInv ==
  \A s \in Sender :
    /\ answer[s] # NoAnswer => worker[s] \in {"answered", "lost"}
    /\ answer[s] = 200 => s \in DOMAIN rows
    /\ answer[s] = 500 => s \in faulted
    /\ s \in Call /\ ok(answer[s]) => answer[s] = 200

\* The form an insert is tried in fits the table, or has one to fall back on.
Admitted(r) == r.flaws = {} /\ BodyRefused(r.body) = 0
FormInv ==
  /\ payload \/ columns = NewColumn
  /\ \A s \in Sender :
       /\ worker[s] \in Forms => Admitted(req[s])
       /\ worker[s] = "hybrid" => columns = NewColumn /\ payload
       /\ worker[s] = "legacy" => payload

RowInv ==
  \A s \in DOMAIN rows :
    /\ answer[s] \in {200, 500}
    /\ Admitted(req[s])
    /\ rows[s] = Normalized(req[s].body)

TelemetryInv ==
  TelemetryTypes /\ RequestInv /\ CallInv /\ AnswerInv /\ FormInv /\ RowInv

LEMMA TelemetryInit == Init => TelemetryInv
<1>. SUFFICES ASSUME Init PROVE TelemetryInv
  OBVIOUS
<1>1. TelemetryTypes
  <2>1. rows = [s \in DOMAIN rows |-> rows[s]] /\ DOMAIN rows \subseteq Sender
    BY DEF Init, Sender
  <2>2. req = [s \in Sender |-> req[s]]
    BY DEF Init
  <2>3. /\ pc \in [Call -> {"idle", "waiting", "reading", "done"}]
        /\ result \in [Call -> [submitted : BOOLEAN, id : {"none", "id"}, reason : Reason]]
    <3>1. NoResult \in [submitted : BOOLEAN, id : {"none", "id"}, reason : Reason]
      BY DEF NoResult, Reason
    <3>. QED  BY <3>1 DEF Init
  <2>. QED  BY <2>1, <2>2, <2>3 DEF Init, TelemetryTypes, NoAnswer
<1>2. RequestInv
  BY DEF Init, RequestInv
<1>3. CallInv /\ AnswerInv
  BY TelemetryAssumption DEF Init, CallInv, AnswerInv, NoAnswer, NoResult, ok, Sender
<1>4. FormInv /\ RowInv
  BY DEF Init, FormInv, RowInv, Forms
<1>. QED  BY <1>1, <1>2, <1>3, <1>4 DEF TelemetryInv

\* The calls' side: a call that declines, sends, or returns.
LEMMA SubmitInv ==
  ASSUME TelemetryInv, NEW c \in Call, Submit(c)
  PROVE  TelemetryInv'
<1>. USE DEF TelemetryInv
<1>1. pc[c] = "idle" /\ worker[c] = "none" /\ c \in Sender
  BY DEF Submit, CallInv, Sender
<1>2. UNCHANGED <<answer, dbVars>>
  BY DEF Submit
<1>3. \/ /\ \E reason \in Reason : Return(c, FALSE, "none", reason)
         /\ UNCHANGED <<req, worker>>
      \/ /\ \E r : Sent(r) /\ req' = [req EXCEPT ![c] = r]
         /\ pc' = [pc EXCEPT ![c] = "waiting"]
         /\ worker' = [worker EXCEPT ![c] = "arrived"]
         /\ UNCHANGED result
  <2>1. PICK consent \in BOOLEAN, endpoint \in {"none", "plain http", "root", "worker"},
             session \in Sessions, version \in Versions, flaws \in EnvFlaws :
               \E report \in Reports(session, version) :
                 \/ Declines(c, consent, endpoint)
                 \/ Sends(c, endpoint, session, report, flaws)
    BY DEF Submit, Reports
  <2>. PICK report \in Reports(session, version) :
         Declines(c, consent, endpoint) \/ Sends(c, endpoint, session, report, flaws)
    BY <2>1
  <2>2. CASE Declines(c, consent, endpoint)
    BY <2>2 DEF Declines, Reason
  <2>3. CASE Sends(c, endpoint, session, report, flaws)
    <3>. DEFINE path == IF endpoint = "root" THEN {"path"} ELSE {}
                r == [body |-> redactPayload(toTelemetryPayload(report)),
                      flaws |-> flaws \cup path, session |-> session, report |-> report]
    <3>1. Sent(r)
      BY DEF Sent
    <3>. QED  BY <2>3, <3>1 DEF Sends
  <2>. QED  BY <2>1, <2>2, <2>3
<1>4. CASE UNCHANGED <<req, worker>> /\ \E reason \in Reason : Return(c, FALSE, "none", reason)
  <2>1. TelemetryTypes'
    BY <1>2, <1>4 DEF TelemetryTypes, Return, dbVars
  <2>2. RequestInv' /\ AnswerInv' /\ FormInv' /\ RowInv'
    BY <1>2, <1>4 DEF RequestInv, AnswerInv, FormInv, RowInv, dbVars
  <2>3. CallInv'
    BY <1>2, <1>4 DEF TelemetryTypes, CallInv, Return, dbVars
  <2>. QED  BY <2>1, <2>2, <2>3
<1>5. CASE /\ \E r : Sent(r) /\ req' = [req EXCEPT ![c] = r]
           /\ pc' = [pc EXCEPT ![c] = "waiting"]
           /\ worker' = [worker EXCEPT ![c] = "arrived"]
           /\ UNCHANGED result
  <2>1. PICK r : Sent(r) /\ req' = [req EXCEPT ![c] = r]
    BY <1>5
  <2>2. /\ \A s \in Sender : req'[s] = IF s = c THEN r ELSE req[s]
        /\ \A s \in Sender : worker'[s] = IF s = c THEN "arrived" ELSE worker[s]
        /\ \A d \in Call : pc'[d] = IF d = c THEN "waiting" ELSE pc[d]
    BY <1>1, <1>5, <2>1 DEF TelemetryTypes
  <2>3. TelemetryTypes'
    <3>1. req' = [s \in Sender |-> req'[s]]
      BY <2>1 DEF TelemetryTypes
    <3>2. /\ worker' \in [Sender -> {"none", "arrived", "modern", "hybrid", "legacy",
                                    "answered", "lost"}]
          /\ pc' \in [Call -> {"idle", "waiting", "reading", "done"}]
      BY <1>1, <1>5 DEF TelemetryTypes
    <3>. QED  BY <1>2, <1>5, <3>1, <3>2 DEF TelemetryTypes, dbVars
  <2>4. RequestInv'
    BY <2>1, <2>2 DEF RequestInv
  <2>5. CallInv'
    BY <1>1, <1>2, <1>5, <2>2 DEF CallInv, dbVars
  <2>6. answer[c] = NoAnswer /\ c \notin DOMAIN rows
    BY <1>1 DEF AnswerInv, RowInv, NoAnswer
  <2>7. AnswerInv'
    BY <1>2, <2>2, <2>6 DEF AnswerInv, dbVars, ok, NoAnswer
  <2>8. FormInv'
    BY <1>2, <2>2 DEF FormInv, Forms, dbVars
  <2>9. RowInv'
    <3>1. \A s \in DOMAIN rows : req'[s] = req[s]
      BY <2>2, <2>6 DEF TelemetryTypes
    <3>. QED  BY <1>2, <3>1 DEF RowInv, dbVars
  <2>. QED  BY <2>3, <2>4, <2>5, <2>7, <2>8, <2>9
<1>. QED  BY <1>3, <1>4, <1>5

LEMMA CallStepInv ==
  ASSUME TelemetryInv, NEW c \in Call,
         Resolves(c) \/ ReadsBody(c) \/ Aborts(c) \/ FetchFails(c)
  PROVE  TelemetryInv'
<1>. USE DEF TelemetryInv
<1>1. /\ UNCHANGED <<req, worker, answer, dbVars>> /\ c \in Sender
      /\ pc[c] \in {"waiting", "reading"}
  BY DEF Resolves, ReadsBody, Aborts, FetchFails, TimerRuns, Sender
<1>2. RequestInv' /\ AnswerInv' /\ FormInv' /\ RowInv'
  BY <1>1 DEF RequestInv, AnswerInv, FormInv, RowInv, dbVars
<1>3. CASE Resolves(c)
  BY <1>1, <1>2, <1>3 DEF Resolves, TelemetryTypes, CallInv, dbVars
<1>4. CASE \E id \in {"none", "id"}, reason \in Reason, submitted \in BOOLEAN :
             Return(c, submitted, id, reason) /\ (submitted => ok(answer[c]))
  <2>1. PICK id \in {"none", "id"}, reason \in Reason, submitted \in BOOLEAN :
               Return(c, submitted, id, reason) /\ (submitted => ok(answer[c]))
    BY <1>4
  <2>2. submitted => c \in DOMAIN rows
    BY <1>1, <2>1 DEF AnswerInv
  <2>3. TelemetryTypes'
    BY <1>1, <2>1 DEF TelemetryTypes, Return, dbVars
  <2>4. /\ \A d \in Call : pc'[d] = IF d = c THEN "done" ELSE pc[d]
        /\ \A d \in Call \ {c} : result'[d] = result[d]
        /\ result'[c].submitted = submitted
    BY <2>1 DEF TelemetryTypes, Return
  <2>5. CallInv'
    BY <1>1, <2>2, <2>4 DEF CallInv, dbVars
  <2>. QED  BY <1>2, <2>3, <2>5
<1>5. ASSUME ReadsBody(c) \/ Aborts(c) \/ FetchFails(c)
      PROVE  \E id \in {"none", "id"}, reason \in Reason, submitted \in BOOLEAN :
               Return(c, submitted, id, reason) /\ (submitted => ok(answer[c]))
  <2>1. ok(answer[c]) \in BOOLEAN
    BY DEF ok
  <2>2. CASE ReadsBody(c)
    <3>1. PICK id \in {"none", "id"} :
            Return(c, ok(answer[c]), id, IF ok(answer[c]) THEN "none" ELSE "HTTP")
      BY <2>2 DEF ReadsBody
    <3>. QED  BY <2>1, <3>1 DEF Reason
  <2>3. CASE Aborts(c)
    <3>1. Return(c, FALSE, "none", "aborted")
            \/ Return(c, ok(answer[c]), "none", IF ok(answer[c]) THEN "none" ELSE "HTTP")
      BY <2>3 DEF Aborts
    <3>. QED  BY <2>1, <3>1 DEF Reason
  <2>4. CASE FetchFails(c)
    <3>1. Return(c, FALSE, "none", "network")
      BY <2>4 DEF FetchFails
    <3>. QED  BY <3>1 DEF Reason
  <2>. QED  BY <1>5, <2>2, <2>3, <2>4
<1>. QED  BY <1>3, <1>4, <1>5

\* A step of the worker leaves the senders and their requests alone.
LEMMA AtTheWorker ==
  ASSUME TelemetryInv, NEW s \in Sender, worker[s] # "none",
         UNCHANGED <<clientVars, req>>,
         NEW w \in {"arrived", "modern", "hybrid", "legacy", "answered", "lost"},
         worker' = [worker EXCEPT ![s] = w]
  PROVE  RequestInv' /\ (UNCHANGED rows => CallInv')
<1>1. \A t \in Sender : worker'[t] = IF t = s THEN w ELSE worker[t]
  BY DEF TelemetryInv, TelemetryTypes
<1>2. RequestInv'
  BY <1>1 DEF TelemetryInv, RequestInv
<1>3. ASSUME UNCHANGED rows PROVE CallInv'
  BY <1>1, <1>3 DEF TelemetryInv, CallInv, clientVars, Sender
<1>. QED  BY <1>2, <1>3

\* A request that has no answer yet has no row.
LEMMA Unanswered ==
  ASSUME TelemetryInv, NEW s \in Sender, worker[s] \in {"none", "arrived"} \cup Forms
  PROVE  answer[s] = NoAnswer /\ s \notin DOMAIN rows
BY DEF TelemetryInv, AnswerInv, RowInv, NoAnswer, Forms

\* An answer without a row: a refusal, or a fault of the database.
LEMMA AnswersInv ==
  ASSUME TelemetryInv, NEW s \in Sender, NEW status \in Nat \ {200},
         worker[s] \in {"arrived"} \cup Forms, Answer(s, status),
         UNCHANGED <<clientVars, req, columns, payload, rows>>,
         faulted \subseteq faulted', faulted' \subseteq Sender,
         status = 500 => s \in faulted', s \in Call => ~ok(status)
  PROVE  TelemetryInv'
<1>. USE DEF TelemetryInv
<1>1. /\ \A t \in Sender : worker'[t] = IF t = s THEN "answered" ELSE worker[t]
      /\ \A t \in Sender : answer'[t] = IF t = s THEN status ELSE answer[t]
  BY DEF Answer, TelemetryTypes
<1>2. answer[s] = NoAnswer /\ s \notin DOMAIN rows
  BY Unanswered
<1>3. RequestInv' /\ CallInv'
  BY AtTheWorker DEF Answer, Forms
<1>4. TelemetryTypes'
  <2>1. /\ worker' \in [Sender -> {"none", "arrived", "modern", "hybrid", "legacy",
                                   "answered", "lost"}]
        /\ answer' \in [Sender -> Nat]
    BY DEF Answer, TelemetryTypes
  <2>. QED  BY <2>1 DEF TelemetryTypes, clientVars
<1>5. AnswerInv'
  BY <1>1 DEF AnswerInv, ok
<1>6. FormInv'
  BY <1>1 DEF FormInv, Forms
<1>7. RowInv'
  <2>1. \A t \in DOMAIN rows : answer'[t] = answer[t]
    BY <1>1, <1>2 DEF TelemetryTypes
  <2>. QED  BY <2>1 DEF RowInv
<1>. QED  BY <1>3, <1>4, <1>5, <1>6, <1>7

\* An answer after the row was stored.
LEMMA StoresInv ==
  ASSUME TelemetryInv, NEW s \in Sender, worker[s] \in Forms,
         NEW status \in {200, 500}, Answer(s, status), rows' = Stored(s),
         UNCHANGED <<clientVars, req, columns, payload>>,
         faulted \subseteq faulted', faulted' \subseteq Sender,
         status = 500 => s \in faulted'
  PROVE  TelemetryInv'
<1>. USE DEF TelemetryInv
<1>1. /\ \A t \in Sender : worker'[t] = IF t = s THEN "answered" ELSE worker[t]
      /\ \A t \in Sender : answer'[t] = IF t = s THEN status ELSE answer[t]
  BY DEF Answer, TelemetryTypes
<1>2. answer[s] = NoAnswer /\ s \notin DOMAIN rows /\ Admitted(req[s])
  BY Unanswered DEF FormInv
<1>3. /\ DOMAIN rows' = DOMAIN rows \cup {s}
      /\ rows'[s] = Normalized(req[s].body)
      /\ \A t \in DOMAIN rows : rows'[t] = rows[t]
      /\ rows' = [t \in DOMAIN rows' |-> rows'[t]]
  BY <1>2 DEF Stored
<1>4. RequestInv'
  BY AtTheWorker DEF Answer, Forms
<1>5. TelemetryTypes'
  <2>1. /\ worker' \in [Sender -> {"none", "arrived", "modern", "hybrid", "legacy",
                                   "answered", "lost"}]
        /\ answer' \in [Sender -> Nat]
    BY DEF Answer, TelemetryTypes
  <2>. QED  BY <1>3, <2>1 DEF TelemetryTypes, clientVars
<1>6. CallInv'
  <2>1. SUFFICES ASSUME NEW c \in Call
                 PROVE  /\ pc[c] = "idle" => worker'[c] = "none"
                        /\ pc[c] \in {"waiting", "reading"} => worker'[c] # "none"
                        /\ result[c].submitted => pc[c] = "done" /\ c \in DOMAIN rows'
    BY DEF CallInv, clientVars
  <2>2. c \in Sender /\ worker[s] # "none"
    BY DEF Sender, Forms
  <2>. QED  BY <1>1, <1>3, <2>2 DEF CallInv
<1>7. AnswerInv'
  BY <1>1, <1>3 DEF AnswerInv, ok
<1>8. FormInv'
  BY <1>1 DEF FormInv, Forms
<1>9. RowInv'
  <2>1. \A t \in DOMAIN rows : answer'[t] = answer[t]
    BY <1>1, <1>2 DEF TelemetryTypes
  <2>. QED  BY <1>1, <1>2, <1>3, <2>1 DEF RowInv
<1>. QED  BY <1>4, <1>5, <1>6, <1>7, <1>8, <1>9

\* The worker's other steps: admitted, tried in another form, lost.
LEMMA MovesOnInv ==
  ASSUME TelemetryInv, NEW s \in Sender, worker[s] # "none",
         NEW w \in {"modern", "hybrid", "legacy", "lost"},
         worker' = [worker EXCEPT ![s] = w],
         UNCHANGED <<clientVars, req, answer, dbVars>>,
         w # "lost" => worker[s] \in {"arrived"} \cup Forms /\ Admitted(req[s]),
         w = "hybrid" => columns = NewColumn /\ payload,
         w = "legacy" => payload
  PROVE  TelemetryInv'
<1>. USE DEF TelemetryInv
<1>1. \A t \in Sender : worker'[t] = IF t = s THEN w ELSE worker[t]
  BY DEF TelemetryTypes
<1>2. RequestInv' /\ CallInv'
  BY AtTheWorker DEF dbVars
<1>3. TelemetryTypes'
  <2>1. worker' \in [Sender -> {"none", "arrived", "modern", "hybrid", "legacy",
                                "answered", "lost"}]
    BY DEF TelemetryTypes
  <2>. QED  BY <2>1 DEF TelemetryTypes, clientVars, dbVars
<1>4. w # "lost" => answer[s] = NoAnswer
  BY Unanswered
<1>5. AnswerInv'
  BY <1>1, <1>4 DEF AnswerInv, dbVars
<1>6. FormInv'
  BY <1>1 DEF FormInv, Forms, dbVars
<1>7. RowInv'
  BY DEF RowInv, dbVars
<1>. QED  BY <1>2, <1>3, <1>5, <1>6, <1>7

LEMMA StrangerInv ==
  ASSUME TelemetryInv, NEW s \in Stranger, StrangerSends(s)
  PROVE  TelemetryInv'
<1>. USE DEF TelemetryInv
<1>1. PICK r \in Foreign : req' = [req EXCEPT ![s] = r]
  BY DEF StrangerSends
<1>2. /\ s \in Sender /\ s \notin Call /\ worker[s] = "none"
      /\ worker' = [worker EXCEPT ![s] = "arrived"]
      /\ UNCHANGED <<clientVars, answer, dbVars>>
  BY TelemetryAssumption DEF StrangerSends, Sender
<1>3. /\ \A t \in Sender : worker'[t] = IF t = s THEN "arrived" ELSE worker[t]
      /\ \A t \in Sender : req'[t] = IF t = s THEN r ELSE req[t]
  BY <1>1, <1>2 DEF TelemetryTypes
<1>4. answer[s] = NoAnswer /\ s \notin DOMAIN rows
  BY <1>2, Unanswered
<1>5. TelemetryTypes'
  <2>1. req' = [t \in Sender |-> req'[t]]
    BY <1>1 DEF TelemetryTypes
  <2>2. worker' \in [Sender -> {"none", "arrived", "modern", "hybrid", "legacy",
                                "answered", "lost"}]
    BY <1>2 DEF TelemetryTypes
  <2>. QED  BY <1>2, <2>1, <2>2 DEF TelemetryTypes, clientVars, dbVars
<1>6. RequestInv'
  BY <1>2, <1>3 DEF RequestInv
<1>7. CallInv'
  BY <1>2, <1>3 DEF CallInv, clientVars, dbVars, Sender
<1>8. AnswerInv'
  BY <1>2, <1>3, <1>4 DEF AnswerInv, dbVars
<1>9. FormInv'
  BY <1>2, <1>3 DEF FormInv, Forms, dbVars
<1>10. RowInv'
  <2>1. \A t \in DOMAIN rows : req'[t] = req[t]
    BY <1>3, <1>4 DEF TelemetryTypes
  <2>. QED  BY <1>2, <2>1 DEF RowInv, dbVars
<1>. QED  BY <1>5, <1>6, <1>7, <1>8, <1>9, <1>10

LEMMA MigrateInv ==
  ASSUME TelemetryInv, Migrate
  PROVE  TelemetryInv'
<1>. USE DEF TelemetryInv
<1>1. PICK c \in NewColumn \ columns : columns' = columns \cup {c}
  BY DEF Migrate
<1>2. payload /\ UNCHANGED <<clientVars, req, worker, answer, payload, rows, faulted>>
  BY DEF Migrate
<1>3. columns # NewColumn
  BY <1>1
<1>4. TelemetryTypes'
  BY <1>1, <1>2 DEF TelemetryTypes, clientVars
<1>5. RequestInv' /\ CallInv' /\ AnswerInv' /\ RowInv'
  BY <1>2 DEF RequestInv, CallInv, AnswerInv, RowInv, clientVars
<1>6. FormInv'
  BY <1>2, <1>3 DEF FormInv
<1>. QED  BY <1>4, <1>5, <1>6

\* What the worker refuses a request with is neither a success nor a storage error.
LEMMA RefusesInv ==
  ASSUME TelemetryInv, NEW s \in Sender, Refuses(s)
  PROVE  TelemetryInv'
<1>1. /\ worker[s] = "arrived" /\ UNCHANGED <<clientVars, req, dbVars>>
      /\ IF s \in Call THEN Sent(req[s]) ELSE req[s] \in Foreign
  BY DEF Refuses, TelemetryInv, RequestInv
<1>2. req[s].flaws \in SUBSET Flaw /\ (s \in Call => "preflight" \notin req[s].flaws)
  <2>1. CASE s \in Call
    <3>1. PICK flaws \in EnvFlaws, path \in {{}, {"path"}} : req[s].flaws = flaws \cup path
      <4>1. Sent(req[s])
        BY <1>1, <2>1
      <4>2. PICK session \in Sessions, version \in Versions, flaws \in EnvFlaws,
                 path \in {{}, {"path"}} :
              \E report \in Reports(session, version) :
                req[s] = [body |-> redactPayload(toTelemetryPayload(report)),
                          flaws |-> flaws \cup path, session |-> session,
                          report |-> report]
        BY <4>1 DEF Sent
      <4>. QED  BY <4>2
    <3>2. flaws \in SUBSET (Flaw \ {"preflight"})
      BY TelemetryAssumption
    <3>. QED  BY <3>1, <3>2 DEF Flaw
  <2>2. CASE s \notin Call
    BY <1>1, <2>2, TelemetryAssumption
  <2>. QED  BY <2>1, <2>2
<1>3. PICK status \in Nat \ {200, 500} : Answer(s, status) /\ (s \in Call => ~ok(status))
  <2>1. CASE req[s].flaws # {}
    <3>1. FirstFlaw(req[s].flaws) \in req[s].flaws
      BY <1>2, <2>1, FirstFlawIsThere
    <3>. QED  BY <1>2, <2>1, <3>1, Statuses DEF Refuses
  <2>2. CASE req[s].flaws = {}
    <3>1. BodyRefused(req[s].body) \in {400, 403}
      BY <2>2, BodyStatuses DEF Refuses
    <3>. QED  BY <2>2, <3>1 DEF Refuses, ok
  <2>. QED  BY <2>1, <2>2
<1>4. faulted \subseteq Sender
  BY DEF TelemetryInv, TelemetryTypes
<1>. QED  BY <1>1, <1>3, <1>4, AnswersInv DEF dbVars

\* An insert that does not fit falls back on one that does.
LEMMA DoesNotFitInv ==
  ASSUME TelemetryInv, NEW s \in Sender, DoesNotFit(s)
  PROVE  TelemetryInv'
<1>1. /\ worker[s] \in Forms /\ ~Fits(worker[s])
      /\ UNCHANGED <<clientVars, req, dbVars>>
      /\ IF Fallback(worker[s]) = "none" THEN Answer(s, StorageError)
         ELSE worker' = [worker EXCEPT ![s] = Fallback(worker[s])] /\ UNCHANGED answer
  BY DEF DoesNotFit
<1>2. /\ payload \in BOOLEAN /\ (payload \/ columns = NewColumn) /\ Admitted(req[s])
      /\ worker[s] = "hybrid" => columns = NewColumn /\ payload
      /\ worker[s] = "legacy" => payload
  BY <1>1 DEF TelemetryInv, TelemetryTypes, FormInv
<1>3. worker[s] = "modern"
  BY <1>1, <1>2 DEF Fits, Forms
<1>4. /\ Fallback(worker[s]) \in {"hybrid", "legacy"}
      /\ Fallback(worker[s]) = "hybrid" => columns = NewColumn /\ payload
      /\ Fallback(worker[s]) = "legacy" => payload
  <2>1. CASE columns # NewColumn
    BY <1>2, <1>3, <2>1 DEF Fallback
  <2>2. CASE columns = NewColumn
    <3>1. payload
      BY <1>1, <1>3, <2>2 DEF Fits
    <3>. QED  BY <1>3, <2>2, <3>1 DEF Fallback
  <2>. QED  BY <2>1, <2>2
<1>. QED  BY <1>1, <1>2, <1>3, <1>4, MovesOnInv DEF Forms

LEMMA TelemetryStep ==
  ASSUME TelemetryInv, [Next]_vars
  PROVE  TelemetryInv'
<1>1. CASE UNCHANGED vars
  <2>1. TelemetryTypes' /\ RequestInv' /\ CallInv'
    BY <1>1 DEF TelemetryInv, TelemetryTypes, RequestInv, CallInv, vars, dbVars
  <2>2. AnswerInv' /\ FormInv' /\ RowInv'
    BY <1>1 DEF TelemetryInv, AnswerInv, FormInv, RowInv, vars, dbVars
  <2>. QED  BY <2>1, <2>2 DEF TelemetryInv
<1>2. ASSUME NEW c \in Call,
             Submit(c) \/ Resolves(c) \/ ReadsBody(c) \/ Aborts(c) \/ FetchFails(c)
      PROVE  TelemetryInv'
  BY <1>2, SubmitInv, CallStepInv
<1>3. ASSUME NEW s \in Stranger, StrangerSends(s) PROVE TelemetryInv'
  BY <1>3, StrangerInv
<1>4. ASSUME NEW s \in Sender, WorkerStep(s) \/ Loses(s) PROVE TelemetryInv'
  <2>1. CASE Refuses(s)
    BY <2>1, RefusesInv
  <2>2. CASE Admits(s)
    BY <2>2, MovesOnInv DEF Admits, Admitted
  <2>3. CASE Inserts(s)
    <3>1. faulted \subseteq Sender
      BY DEF TelemetryInv, TelemetryTypes
    <3>. QED  BY <2>3, <3>1, StoresInv DEF Inserts
  <2>4. CASE DoesNotFit(s)
    BY <2>4, DoesNotFitInv
  <2>5. CASE D1Fails(s)
    <3>1. /\ worker[s] \in Forms /\ Answer(s, 500)
          /\ faulted' = faulted \cup {s} /\ faulted' \subseteq Sender
          /\ UNCHANGED <<clientVars, req, columns, payload>>
      BY <2>5 DEF D1Fails, StorageError, TelemetryInv, TelemetryTypes
    <3>2. CASE rows' = rows
      BY <3>1, <3>2, AnswersInv DEF ok
    <3>3. CASE rows' = Stored(s)
      BY <3>1, <3>3, StoresInv
    <3>. QED  BY <2>5, <3>2, <3>3 DEF D1Fails
  <2>6. CASE Loses(s)
    BY <2>6, MovesOnInv DEF Loses
  <2>. QED  BY <1>4, <2>1, <2>2, <2>3, <2>4, <2>5, <2>6 DEF WorkerStep
<1>5. CASE Migrate
  BY <1>5, MigrateInv
<1>. QED  BY <1>1, <1>2, <1>3, <1>4, <1>5 DEF Next

LEMMA TelemetryAlways == Spec => []TelemetryInv
<1>1. TelemetryInv /\ [Next]_vars => TelemetryInv'
  BY TelemetryStep
<1>. QED  BY TelemetryInit, <1>1, PTL DEF Spec

\* Whoever made the report, what leaves is counts and labels without diagnostics,
\* notes, secrets or pieces of them (submit.ts toTelemetryPayload, redactPayload).
THEOREM OnlyCountsLeave == Spec => []OnlyWhatMayLeave
<1>1. TelemetryInv => OnlyWhatMayLeave
  <2>1. SUFFICES ASSUME TelemetryInv, NEW c \in Call, req[c] # NoRequest
                 PROVE  req[c].body.extra = {} /\ req[c].body.labels \cap Private = {}
    BY DEF OnlyWhatMayLeave
  <2>2. Sent(req[c])
    BY <2>1 DEF TelemetryInv, RequestInv, Sender
  <2>3. PICK session \in Sessions, version \in Versions :
          \E report \in Reports(session, version) :
            req[c].body = redactPayload(toTelemetryPayload(report))
    BY <2>2 DEF Sent
  <2>4. PICK report \in Reports(session, version) :
          req[c].body = redactPayload(toTelemetryPayload(report))
    BY <2>3
  <2>5. report \in Report /\ "fragment" \notin report.labels
    BY <2>4, AnyReport, TelemetryAssumption
  <2>. QED  BY <2>4, <2>5, SentBody DEF Private
<1>. QED  BY <1>1, TelemetryAlways, PTL

\* A claimed submission is a row that says what the report said, a storage error is a
\* fault of the database and never the migration, and only the admitted are stored
\* (telemetry/src/index.ts fetch and insertReport, submit.ts submitSessionReport).
THEOREM StorageKeepsItsWord == Spec => []StorageIsHonest
<1>1. ASSUME TelemetryInv PROVE ClaimedIsStored
  <2>1. SUFFICES ASSUME NEW c \in Call, result[c].submitted
                 PROVE  c \in DOMAIN rows /\ rows[c] = Expected(req[c].report)
    BY DEF ClaimedIsStored
  <2>2. /\ c \in DOMAIN rows /\ rows[c] = Normalized(req[c].body)
        /\ answer[c] \in {200, 500}
    BY <1>1, <2>1 DEF TelemetryInv, CallInv, RowInv
  <2>3. Sent(req[c])
    BY <1>1, <2>2 DEF TelemetryInv, AnswerInv, RequestInv, Sender, NoAnswer
  <2>4. req[c].body = redactPayload(toTelemetryPayload(req[c].report))
    BY <2>3 DEF Sent
  <2>. QED  BY <2>2, <2>4 DEF Expected
<1>2. ASSUME TelemetryInv PROVE NoReportLostToSchema
  BY <1>2 DEF TelemetryInv, AnswerInv, NoReportLostToSchema
<1>3. ASSUME TelemetryInv PROVE OnlyAdmittedRows
  BY <1>3 DEF TelemetryInv, RowInv, Admitted, BodyRefused, versionAllowed, OnlyAdmittedRows
<1>4. TelemetryInv => StorageIsHonest
  BY <1>1, <1>2, <1>3 DEF StorageIsHonest
<1>. QED  BY <1>4, TelemetryAlways, PTL

\* Every variable of the client, the worker and the table keeps its type; the rows hold
\* no text longer than a label (telemetry/src/index.ts normalizes before the insert).
THEOREM TelemetryTypeCorrect == Spec => []TypeOK
<1>1. ASSUME TelemetryInv, NEW s \in Sender, worker[s] # "none"
      PROVE  req[s].body \in Report /\ req[s].flaws \subseteq Flaw
  <2>1. CASE s \in Call
    <3>1. Sent(req[s])
      BY <1>1, <2>1 DEF TelemetryInv, RequestInv
    <3>2. PICK session \in Sessions, version \in Versions, flaws \in EnvFlaws,
               path \in {{}, {"path"}} :
            \E report \in Reports(session, version) :
              req[s] = [body |-> redactPayload(toTelemetryPayload(report)),
                        flaws |-> flaws \cup path, session |-> session,
                        report |-> report]
      BY <3>1 DEF Sent
    <3>3. PICK report \in Reports(session, version) :
            req[s] = [body |-> redactPayload(toTelemetryPayload(report)),
                      flaws |-> flaws \cup path, session |-> session, report |-> report]
      BY <3>2
    <3>4. req[s].body \in Report
      BY <3>3, AnyReport, SentBody, TelemetryAssumption
    <3>5. flaws \subseteq Flaw /\ path \subseteq Flaw
      BY TelemetryAssumption DEF Flaw
    <3>. QED  BY <3>3, <3>4, <3>5
  <2>2. CASE s \notin Call
    BY <1>1, <2>2, TelemetryAssumption DEF TelemetryInv, RequestInv
  <2>. QED  BY <2>1, <2>2
<1>2. ASSUME TelemetryInv, NEW s \in DOMAIN rows
      PROVE  rows[s] \in Report /\ "straddling" \notin rows[s].labels
  <2>1. s \in Sender /\ worker[s] # "none" /\ rows[s] = Normalized(req[s].body)
    <3>1. TelemetryTypes /\ RowInv
      BY <1>2 DEF TelemetryInv
    <3>2. DOMAIN rows \subseteq Sender
      BY <3>1 DEF TelemetryTypes
    <3>3. answer[s] \in {200, 500} /\ rows[s] = Normalized(req[s].body)
      BY <1>2, <3>1 DEF RowInv
    <3>. QED  BY <1>2, <3>2, <3>3 DEF TelemetryInv, AnswerInv, NoAnswer
  <2>. QED  BY <1>1, <1>2, <2>1, NormalizedBody
<1>3. ASSUME TelemetryInv PROVE TypeOK
  <2>1. \A s \in Sender : req[s] # NoRequest =>
          req[s].body \in Report /\ req[s].flaws \subseteq Flaw
    BY <1>1, <1>3 DEF TelemetryInv, RequestInv
  <2>2. \A c \in Call : result[c].submitted \in BOOLEAN /\ result[c].id \in {"none", "id"}
    BY <1>3 DEF TelemetryInv, TelemetryTypes
  <2>. QED  BY <1>2, <1>3, <2>1, <2>2 DEF TelemetryInv, TelemetryTypes, TypeOK
<1>4. TelemetryInv => TypeOK
  BY <1>3
<1>. QED  BY <1>4, TelemetryAlways, PTL

-----------------------------------------------------------------------------
(* odin-say: nothing goes out on a screen it was not read from. *)

\* What a step of the sender does to its place, its screen and its policy.
LEMMA SaysIntoTheOpen ==
  ASSUME SendsIntoTheOpen, [S!Next]_(S!sayVars)
  PROVE  SendsIntoTheOpen'
<1>. USE DEF SendsIntoTheOpen, S!SendsIntoTheOpen, S!blocked, S!busy, S!capped, S!stale_input,
             S!input_bar
<1>1. CASE UNCHANGED S!sayVars
  BY <1>1 DEF S!sayVars
<1>2. CASE S!Moves
  BY <1>2 DEF S!Moves
<1>3. CASE S!Preflight \/ S!GiveUp \/ S!Record \/ S!Kill
  BY <1>3 DEF S!Preflight, S!GiveUp, S!Record, S!Kill, S!Returns
<1>4. CASE S!Escape \/ S!ClearStale \/ S!Press
  BY <1>4 DEF S!Escape, S!ClearStale, S!Press
<1>5. CASE S!Type
  BY <1>5 DEF S!Type, S!Goes, S!Returns
<1>6. CASE S!Read \/ S!Wait
  <2>1. CASE S!Returns("PANE_READ_FAILED", texts > 0, 11)
    BY <2>1 DEF S!Returns
  <2>2. CASE S!Decides(screen')
    <3>1. UNCHANGED queues
      BY <1>6 DEF S!Read, S!Wait
    <3>2. ASSUME NEW s, s = screen', S!Unblocked(s), ~S!blocked(s)
          PROVE  SendsIntoTheOpen'
      BY <3>1, <3>2 DEF S!Unblocked, S!Settled, S!Goes, S!Returns
    <3>3. ASSUME NEW s, s = screen', S!Uncovered(s) \/ S!First(s)
          PROVE  SendsIntoTheOpen'
      BY <3>2, <3>3 DEF S!Uncovered, S!First, S!Refuses, S!Goes, S!Returns
    <3>4. ASSUME NEW s, s = screen', S!Waited(s) \/ S!Cleared(s)
          PROVE  SendsIntoTheOpen'
      BY <3>4 DEF S!Waited, S!Cleared, S!Settled, S!Refuses, S!Goes, S!Returns
    <3>5. ASSUME NEW s, s = screen', S!Back(s) \/ S!Last(s) \/ S!Steered(s)
          PROVE  SendsIntoTheOpen'
      BY <3>5 DEF S!Back, S!Last, S!Steered, S!Delivered, S!Goes, S!Returns
    <3>. QED  BY <2>2, <3>3, <3>4, <3>5 DEF S!Decides
  <2>. QED  BY <1>6, <2>1, <2>2 DEF S!Read, S!Wait, S!Reads
<1>. QED  BY <1>1, <1>2, <1>3, <1>4, <1>5, <1>6 DEF S!Next, S!Sender

\* Whatever the pane does between two calls, the line and the keys that make room for it
\* go out only on a read that showed no prompt, and into a turn or a capped seat only as
\* the harness takes it (say.rs deliver, "Re-classified after EVERY re-read").
THEOREM SendsAreIntoTheOpen == S!Spec => []SendsIntoTheOpen
<1>1. S!Init => SendsIntoTheOpen
  BY DEF S!Init, SendsIntoTheOpen, S!SendsIntoTheOpen
<1>2. SendsIntoTheOpen /\ [S!Next]_(S!sayVars) => SendsIntoTheOpen'
  BY SaysIntoTheOpen
<1>. QED  BY <1>1, <1>2, PTL DEF S!Spec

-----------------------------------------------------------------------------
(* odin-say: the outcome is true. *)

\* The places of the sender, by what it has done to the line: nothing yet, typed it,
\* typed and entered it, returned.
Unsent == {"preflight", "first", "escape", "uncovered", "waiting", "stale", "cleared",
           "type", "steer"}
Typed == {"enter", "press"}
Entered == {"back", "steered", "again", "last"}

\* How often the line was typed and entered, and that nothing is reported before its time.
StageInv ==
  /\ sayPc \in Unsent => texts = 0 /\ enters = 0
  /\ sayPc \in Typed => texts = 1 /\ enters = 0
  /\ sayPc \in Entered => texts = 1 /\ enters = IF sayPc = "last" THEN 2 ELSE 1
  /\ sayPc \in Unsent \cup Typed \cup Entered => outcome = S!NoOutcome
  /\ sayPc # "done" => exit = S!NoExit

\* Where the line is: with the harness, in the bar, or diverted from it.
LineInv ==
  /\ pane.shows # "nothing" => accepted
  /\ sayPc \in Typed \cup Entered => diverted \/ accepted \/ "message" \in pane.bar

\* What is returned is true of the line, once and for all.
ReturnInv ==
  outcome # S!NoOutcome =>
    /\ outcome.submitted => texts = 1 /\ enters >= 1
    /\ ~outcome.submitted /\ outcome.exit # 5 => texts = 0
    /\ outcome.exit = 3 => waited >= Budget
    /\ outcome.exit = 0 => diverted \/ accepted
    /\ outcome.state = "PANE_STILL_THINKING" /\ outcome.submitted => enters = 1

ExitInv ==
  /\ exit = 0 => recorded /\ outcome.exit = 0
  /\ exit # S!NoExit /\ texts = 1 => recorded \/ exit = 9

SayInv == S!TypeOK /\ StageInv /\ LineInv /\ ReturnInv /\ ExitInv

\* The places as the type invariant lists them.
LEMMA SayPlaces ==
  ASSUME SayInv
  PROVE  sayPc \in Unsent \cup Typed \cup Entered \cup {"record", "done"}
BY DEF SayInv, S!TypeOK, Unsent, Typed, Entered

LEMMA NoScreenTyped == S!NoScreen \in S!Screen
BY DEF S!NoScreen, S!Screen, S!Pane, S!Cover

LEMMA SayInit == S!Init => SayInv
<1>. SUFFICES ASSUME S!Init PROVE SayInv
  OBVIOUS
<1>1. pane \in S!Pane /\ pane.shows = "nothing"
  BY DEF S!Init, S!Pane
<1>2. S!TypeOK
  <2>1. moves \in 0 .. MaxMoves /\ waited \in 0 .. Budget + MaxRead
    BY SideAssumption DEF S!SayAssumption, S!Init
  <2>2. screen \in S!Screen /\ outcome \in S!Outcome \cup {S!NoOutcome}
        /\ exit \in (0 .. 11) \cup {S!NoExit}
    BY NoScreenTyped DEF S!Init
  <2>3. texts \in 0 .. 1 /\ enters \in 0 .. 2
    BY DEF S!Init
  <2>4. queues \in BOOLEAN /\ recorded \in BOOLEAN /\ accepted \in BOOLEAN /\ diverted \in BOOLEAN
    BY Zenon DEF S!Init
  <2>. QED  BY <1>1, <2>1, <2>2, <2>3, <2>4 DEF S!Init, S!TypeOK
<1>3. StageInv /\ ReturnInv /\ ExitInv
  BY DEF S!Init, StageInv, ReturnInv, ExitInv, Unsent, Typed, Entered, S!NoExit
<1>4. LineInv
  BY <1>1 DEF S!Init, LineInv, Typed, Entered
<1>. QED  BY <1>2, <1>3, <1>4 DEF SayInv

\* A returned outcome that is true of a line that was typed and entered, or of none.
Tells(o) ==
  /\ o \in S!Outcome
  /\ o.submitted <=> texts = 1
  /\ o.exit \notin {3, 5}
  /\ o.exit = 0 => diverted' \/ accepted
  /\ o.state = "PANE_STILL_THINKING" /\ o.submitted => enters = 1

\* What a read leads to: the next call of the same stage, or a true outcome.
LEMMA ReadReturns ==
  ASSUME SayInv, S!Read \/ S!Wait
  PROVE  \/ UNCHANGED outcome /\ sayPc \in Unsent /\ sayPc' \in Unsent
         \/ UNCHANGED outcome /\ sayPc = "back" /\ sayPc' = "again"
         \/ sayPc' = "record" /\ sayPc \notin {"again"} \cup Typed /\ Tells(outcome')
<1>1. /\ sayPc \in {"first", "uncovered", "waiting", "cleared", "back", "last", "steered"}
      /\ S!Reads /\ UNCHANGED <<pane, queues, texts, enters, accepted>>
  BY DEF S!Read, S!Wait
<1>2. /\ sayPc \in Unsent => texts = 0 /\ enters = 0
      /\ sayPc \in Entered => texts = 1 /\ (sayPc # "last" => enters = 1)
      /\ pane \in S!Pane
      /\ sayPc \in Entered => diverted \/ accepted \/ "message" \in pane.bar
      /\ pane.shows # "nothing" => accepted
  BY DEF SayInv, StageInv, LineInv, S!TypeOK
<1>3. ASSUME NEW state, NEW code \in {2, 4, 10, 11}, texts = 0,
             S!Returns(state, FALSE, code),
             [state |-> state, submitted |-> FALSE, exit |-> code] \in S!Outcome
      PROVE  sayPc' = "record" /\ Tells(outcome')
  BY <1>3 DEF S!Returns, Tells
<1>4. ASSUME NEW state \in {"INPUT_BAR_ONLY", "PANE_READ_FAILED", "DELIVERED_NO_ACK",
                           "DELIVERED_ACKED"},
             NEW code \in {0, 6, 7, 11}, texts = 1,
             S!Returns(state, TRUE, code),
             [state |-> state, submitted |-> TRUE, exit |-> code] \in S!Outcome,
             code = 0 => diverted' \/ accepted
      PROVE  sayPc' = "record" /\ Tells(outcome')
  BY <1>4 DEF S!Returns, Tells
<1>5. ASSUME NEW s, s = screen', S!Decides(s),
             s.pane = pane,
             diverted => diverted', texts = 1 /\ S!Hidden(s) => diverted'
      PROVE  \/ UNCHANGED outcome /\ sayPc \in Unsent /\ sayPc' \in Unsent
             \/ UNCHANGED outcome /\ sayPc = "back" /\ sayPc' = "again"
             \/ sayPc' = "record" /\ Tells(outcome')
  <2>1. CASE sayPc \in {"first", "uncovered", "waiting", "cleared"}
    <3>1. texts = 0 /\ sayPc \in Unsent
      BY <1>2, <2>1 DEF Unsent
    <3>2. ASSUME S!Refuses \/ S!Returns("SEAT_CAPPED", FALSE, 10)
                   \/ S!Returns("INPUT_BAR_ONLY", FALSE, 4)
          PROVE  sayPc' = "record" /\ Tells(outcome')
      <4>1. \A code \in {2, 4, 10}, state \in {"PANE_BLOCKED_ON_PERMISSION", "SEAT_CAPPED",
                                             "INPUT_BAR_ONLY"} :
              [state |-> state, submitted |-> FALSE, exit |-> code] \in S!Outcome
        BY DEF S!Outcome
      <4>2. PICK code \in {2, 4, 10}, state \in {"PANE_BLOCKED_ON_PERMISSION",
                                                "SEAT_CAPPED", "INPUT_BAR_ONLY"} :
              S!Returns(state, FALSE, code)
        BY <3>2 DEF S!Refuses
      <4>. QED  BY <1>3, <3>1, <4>1, <4>2
    <3>3. ASSUME S!Settled(s) \/ S!Unblocked(s)
          PROVE  \/ UNCHANGED outcome /\ sayPc' \in Unsent
                 \/ S!Returns("SEAT_CAPPED", FALSE, 10)
      BY <3>3 DEF S!Settled, S!Unblocked, S!Goes, Unsent
    <3>4. \/ UNCHANGED outcome /\ sayPc' \in Unsent
          \/ S!Settled(s) \/ S!Unblocked(s)
          \/ S!Refuses \/ S!Returns("INPUT_BAR_ONLY", FALSE, 4)
      BY <1>5, <2>1 DEF S!Decides, S!First, S!Uncovered, S!Waited, S!Cleared, S!Goes, Unsent
    <3>. QED  BY <3>1, <3>2, <3>3, <3>4
  <2>2. CASE sayPc \in {"back", "last", "steered"}
    <3>1. texts = 1 /\ sayPc \in Entered
      BY <1>2, <2>2 DEF Entered
    <3>2. ASSUME ~S!in_bar(s) PROVE diverted' \/ accepted
      <4>1. CASE S!Hidden(s)
        BY <1>5, <3>1, <4>1
      <4>2. CASE ~S!Hidden(s)
        <5>1. s.drawn
          BY <4>2 DEF S!Hidden
        <5>2. "message" \notin pane.bar
          BY <1>5, <3>2, <5>1 DEF S!in_bar, S!input_bar
        <5>. QED  BY <1>2, <1>5, <3>1, <5>2
      <4>. QED  BY <4>1, <4>2
    <3>3. S!answered(s) \/ S!shows_queued(s) => accepted
      BY <1>2, <1>5 DEF S!answered, S!shows_queued
    <3>4. ASSUME S!Delivered(s), ~S!in_bar(s) \/ S!answered(s)
          PROVE  sayPc' = "record" /\ Tells(outcome')
      <4>1. PICK state \in {"DELIVERED_NO_ACK", "DELIVERED_ACKED"} : S!Returns(state, TRUE, 0)
        BY <3>4 DEF S!Delivered
      <4>2. [state |-> state, submitted |-> TRUE, exit |-> 0] \in S!Outcome
        BY DEF S!Outcome
      <4>3. diverted' \/ accepted
        BY <3>2, <3>3, <3>4
      <4>. QED  BY <1>4, <3>1, <4>1, <4>2, <4>3
    <3>5. CASE sayPc = "back"
      BY <1>5, <3>4, <3>5 DEF S!Decides, S!Back, S!Goes
    <3>6. CASE sayPc = "last"
      <4>1. [state |-> "INPUT_BAR_ONLY", submitted |-> TRUE, exit |-> 6] \in S!Outcome
        BY DEF S!Outcome
      <4>2. \/ S!Returns("INPUT_BAR_ONLY", TRUE, 6)
            \/ S!Delivered(s) /\ (~S!in_bar(s) \/ S!answered(s))
        BY <1>5, <3>6 DEF S!Decides, S!Last
      <4>3. CASE S!Returns("INPUT_BAR_ONLY", TRUE, 6)
        BY <1>4, <3>1, <4>1, <4>3
      <4>. QED  BY <3>4, <4>2, <4>3
    <3>7. CASE sayPc = "steered"
      <4>1. /\ [state |-> "INPUT_BAR_ONLY", submitted |-> TRUE, exit |-> 7] \in S!Outcome
            /\ [state |-> "PANE_STILL_THINKING", submitted |-> TRUE, exit |-> 0] \in S!Outcome
        BY DEF S!Outcome
      <4>2. enters = 1
        BY <1>2, <3>1, <3>7
      <4>3. \/ S!Returns("INPUT_BAR_ONLY", TRUE, 7)
            \/ S!Returns("PANE_STILL_THINKING", TRUE, 0) /\ accepted
        BY <1>5, <3>3, <3>7 DEF S!Decides, S!Steered
      <4>4. CASE S!Returns("INPUT_BAR_ONLY", TRUE, 7)
        BY <1>4, <3>1, <4>1, <4>4
      <4>5. CASE S!Returns("PANE_STILL_THINKING", TRUE, 0) /\ accepted
        BY <3>1, <4>1, <4>2, <4>5 DEF S!Returns, Tells
      <4>. QED  BY <4>3, <4>4, <4>5
    <3>. QED  BY <2>2, <3>5, <3>6, <3>7
  <2>. QED  BY <1>1, <2>1, <2>2
<1>6. sayPc \notin {"again"} \cup Typed
  BY <1>1 DEF Typed
<1>7. ASSUME S!Returns("PANE_READ_FAILED", texts > 0, 11)
      PROVE  sayPc' = "record" /\ Tells(outcome')
  <2>1. \A sent \in BOOLEAN :
          [state |-> "PANE_READ_FAILED", submitted |-> sent, exit |-> 11] \in S!Outcome
    BY DEF S!Outcome
  <2>2. CASE texts = 0
    <3>1. (texts > 0) = FALSE
      BY <2>2
    <3>2. S!Returns("PANE_READ_FAILED", FALSE, 11)
      BY <1>7, <3>1, Zenon
    <3>. QED  BY <1>3, <2>1, <2>2, <3>2
  <2>3. CASE texts = 1
    <3>1. (texts > 0) = TRUE
      BY <2>3
    <3>2. S!Returns("PANE_READ_FAILED", TRUE, 11)
      BY <1>7, <3>1, Zenon
    <3>3. [state |-> "PANE_READ_FAILED", submitted |-> TRUE, exit |-> 11] \in S!Outcome
      BY <2>1
    <3>. QED  BY <1>4, <2>3, <3>2, <3>3
  <2>. QED  BY <1>1, <1>2, <2>2, <2>3 DEF Unsent, Entered
<1>8. ASSUME NEW drawn \in BOOLEAN, screen' = [pane |-> pane, drawn |-> drawn],
             S!Decides(screen'),
             diverted' = (diverted \/ (texts > 0 /\ S!Hidden(screen')))
      PROVE  \/ UNCHANGED outcome /\ sayPc \in Unsent /\ sayPc' \in Unsent
             \/ UNCHANGED outcome /\ sayPc = "back" /\ sayPc' = "again"
             \/ sayPc' = "record" /\ Tells(outcome')
  <2>1. diverted => diverted'
    BY <1>8, Zenon
  <2>2. texts = 1 => texts > 0
    OBVIOUS
  <2>3. texts = 1 /\ S!Hidden(screen') => diverted'
    BY <1>8, <2>2, Zenon
  <2>4. screen'.pane = pane
    BY <1>8
  <2>. QED  BY <1>5, <1>8, <2>1, <2>3, <2>4
<1>. QED  BY <1>1, <1>6, <1>7, <1>8 DEF S!Reads

\* What a step may do to the pane: the line leaves the bar for the harness or is diverted,
\* and nothing of it shows before the harness has it.
PaneKeeps ==
  /\ pane' \in S!Pane /\ accepted' \in BOOLEAN /\ diverted' \in BOOLEAN
  /\ (accepted => accepted') /\ (diverted => diverted')
  /\ pane'.shows # "nothing" => accepted'
  /\ "message" \in pane.bar => diverted' \/ accepted' \/ "message" \in pane'.bar

LEMMA PaneStays ==
  ASSUME SayInv, UNCHANGED <<pane, accepted>>, diverted' \in BOOLEAN, diverted => diverted'
  PROVE  PaneKeeps
BY DEF SayInv, S!TypeOK, LineInv, PaneKeeps

LEMMA PaneMoves ==
  ASSUME SayInv, S!Moves
  PROVE  PaneKeeps
<1>1. /\ pane \in S!Pane /\ accepted \in BOOLEAN /\ diverted \in BOOLEAN
      /\ pane.shows # "nothing" => accepted
  BY DEF SayInv, S!TypeOK, LineInv
<1>2. CASE \E over \in S!Cover : pane' = [pane EXCEPT !.over = over]
           /\ UNCHANGED <<accepted, diverted>>
  BY <1>1, <1>2 DEF PaneKeeps, S!Pane
<1>3. CASE /\ \E shows \in S!Turn : pane' = [pane EXCEPT !.busy = ~@, !.shows = shows]
           /\ UNCHANGED <<accepted, diverted>>
  <2>1. PICK shows \in S!Turn : pane' = [pane EXCEPT !.busy = ~@, !.shows = shows]
    BY <1>3
  <2>2. /\ shows \in {"nothing", "queue", "echo", "answer"}
        /\ shows # "nothing" => pane.shows # "nothing"
    BY <1>1, <2>1 DEF S!Turn, S!Pane
  <2>3. pane' \in S!Pane /\ pane'.shows = shows /\ pane'.bar = pane.bar
    BY <1>1, <2>1, <2>2 DEF S!Pane
  <2>. QED  BY <1>1, <1>3, <2>2, <2>3 DEF PaneKeeps
<1>4. CASE pane' = [pane EXCEPT !.capped = ~@] /\ UNCHANGED <<accepted, diverted>>
  BY <1>1, <1>4 DEF PaneKeeps, S!Pane
<1>5. CASE /\ pane' = [pane EXCEPT !.bar = @ \cup {"other"}]
           /\ UNCHANGED <<accepted, diverted>>
  BY <1>1, <1>5 DEF PaneKeeps, S!Pane
<1>6. CASE /\ pane' = [pane EXCEPT !.bar = {}] /\ UNCHANGED accepted
           /\ diverted' = (diverted \/ "message" \in pane.bar)
  <2>1. /\ diverted' \in BOOLEAN /\ (diverted => diverted')
        /\ "message" \in pane.bar => diverted'
    BY <1>6, Zenon
  <2>. QED  BY <1>1, <1>6, <2>1 DEF PaneKeeps, S!Pane
<1>7. CASE pane' = [pane EXCEPT !.shows = "nothing"] /\ UNCHANGED <<accepted, diverted>>
  BY <1>1, <1>7 DEF PaneKeeps, S!Pane
<1>. QED  BY <1>2, <1>3, <1>4, <1>5, <1>6, <1>7 DEF S!Moves

LEMMA PaneEnters ==
  ASSUME SayInv, S!Enter
  PROVE  PaneKeeps
<1>1. /\ pane \in S!Pane /\ accepted \in BOOLEAN /\ diverted \in BOOLEAN
      /\ pane.shows # "nothing" => accepted
  BY DEF SayInv, S!TypeOK, LineInv
<1>2. CASE UNCHANGED <<pane, accepted, diverted>>
  BY <1>2, PaneStays, <1>1
<1>3. CASE S!TakesEnter /\ (pane.over # "none" \/ pane.bar = {})
  <2>1. /\ pane' = [pane EXCEPT !.over = "none"] /\ UNCHANGED accepted
        /\ diverted' = (diverted \/ texts > 0)
    BY <1>3 DEF S!TakesEnter
  <2>2. diverted' \in BOOLEAN /\ (diverted => diverted')
    BY <2>1, Zenon
  <2>. QED  BY <1>1, <2>1, <2>2 DEF PaneKeeps, S!Pane, S!Cover
<1>4. CASE S!TakesEnter /\ ~(pane.over # "none" \/ pane.bar = {})
  <2>1. /\ \E shown \in S!Submitted :
             pane' = [pane EXCEPT !.bar = {}, !.busy = TRUE, !.shows = shown]
        /\ accepted' = (accepted \/ "message" \in pane.bar) /\ UNCHANGED diverted
    BY <1>4 DEF S!TakesEnter
  <2>2. PICK shown \in S!Submitted :
             pane' = [pane EXCEPT !.bar = {}, !.busy = TRUE, !.shows = shown]
    BY <2>1
  <2>3. /\ accepted' \in BOOLEAN /\ (accepted => accepted')
        /\ "message" \in pane.bar => accepted'
    BY <2>1, Zenon
  <2>4. /\ shown \in {"nothing", "queue", "echo", "answer"}
        /\ shown # "nothing" => pane.shows # "nothing" \/ "message" \in pane.bar
    BY <1>1, <2>2 DEF S!Submitted, S!Pane
  <2>5. pane' \in S!Pane /\ pane'.shows = shown
    BY <1>1, <2>2, <2>4 DEF S!Pane
  <2>. QED  BY <1>1, <2>1, <2>3, <2>4, <2>5 DEF PaneKeeps
<1>. QED  BY <1>2, <1>3, <1>4 DEF S!Enter

\* The bounded wait: a sleep never goes past the budget, and a read costs MaxRead at most.
LEMMA StepsOfTheWait ==
  ASSUME waited \in 0 .. Budget + MaxRead, waited < Budget,
         NEW cost \in 0 .. MaxRead
  PROVE  waited + S!Step + cost \in 0 .. Budget + MaxRead
BY SideAssumption DEF S!SayAssumption, S!Step

\* A step that keeps the line where it is told keeps the invariant.
LEMMA ReadStep ==
  ASSUME SayInv, S!Read \/ S!Wait
  PROVE  SayInv'
<1>1. /\ UNCHANGED <<pane, moves, queues, exit, recorded, texts, enters, accepted>>
      /\ S!Reads /\ sayPc # "done" /\ sayPc \notin Typed
  BY DEF S!Read, S!Wait, Typed
<1>2. diverted' \in BOOLEAN /\ (diverted => diverted')
  <2>1. diverted \in BOOLEAN
    BY DEF SayInv, S!TypeOK
  <2>2. ASSUME diverted' = (diverted \/ (texts > 0 /\ S!Hidden(screen')))
        PROVE  diverted' \in BOOLEAN /\ (diverted => diverted')
    BY <2>2, Zenon
  <2>. QED  BY <1>1, <2>1, <2>2 DEF S!Reads
<1>3. PaneKeeps
  BY <1>1, <1>2, PaneStays
<1>4. waited' \in 0 .. Budget + MaxRead
  BY StepsOfTheWait DEF SayInv, S!TypeOK, S!Read, S!Wait
<1>5. screen' \in S!Screen
  BY <1>1, NoScreenTyped DEF S!Reads, S!Screen, SayInv, S!TypeOK
<1>6. sayPc' \in Unsent \cup {"again", "record"} /\ outcome' \in S!Outcome \cup {S!NoOutcome}
  BY ReadReturns DEF SayInv, S!TypeOK, Tells
<1>7. S!TypeOK'
  BY <1>1, <1>3, <1>4, <1>5, <1>6 DEF SayInv, S!TypeOK, PaneKeeps, Unsent
<1>8. StageInv'
  BY <1>1, ReadReturns DEF SayInv, StageInv, Unsent, Typed, Entered
<1>9. LineInv'
  BY <1>1, <1>3, ReadReturns DEF SayInv, LineInv, PaneKeeps, Unsent, Typed, Entered
<1>10. ReturnInv'
  <2>1. CASE UNCHANGED outcome
    <3>1. outcome = S!NoOutcome
      BY SayPlaces, <1>1 DEF SayInv, StageInv, S!Read, S!Wait, Unsent, Entered
    <3>. QED  BY <2>1, <3>1 DEF ReturnInv
  <2>2. CASE sayPc \notin {"again"} \cup Typed /\ Tells(outcome')
    <3>1. texts \in 0 .. 1 /\ (texts = 1 => enters >= 1)
      BY <1>1, <2>2 DEF SayInv, StageInv, S!TypeOK, S!Read, S!Wait, Unsent, Entered
    <3>. QED  BY <1>1, <2>2, <3>1 DEF ReturnInv, Tells
  <2>. QED  BY <2>1, <2>2, ReadReturns
<1>11. ExitInv'
  BY <1>1 DEF SayInv, StageInv, ExitInv, S!NoExit
<1>. QED  BY <1>7, <1>8, <1>9, <1>10, <1>11 DEF SayInv

\* The steps that neither read nor type: what they say of the line is already true.
LEMMA QuietStep ==
  ASSUME SayInv, S!Preflight \/ S!GiveUp \/ S!Kill
  PROVE  SayInv'
<1>1. /\ UNCHANGED <<pane, moves, queues, waited, recorded, texts, enters, accepted,
                     diverted>>
      /\ sayPc # "done" /\ screen' \in S!Screen
  BY NoScreenTyped DEF S!Preflight, S!GiveUp, S!Kill, SayInv, S!TypeOK
<1>2. PaneKeeps
  BY <1>1, PaneStays DEF SayInv, S!TypeOK
<1>3. \/ sayPc' = "first" /\ UNCHANGED <<outcome, exit>> /\ sayPc \in Unsent
      \/ sayPc' = "done" /\ exit' = 8 /\ UNCHANGED outcome /\ sayPc \in Unsent
      \/ sayPc' = "done" /\ UNCHANGED <<outcome, exit>>
      \/ /\ sayPc' = "record" /\ UNCHANGED exit /\ sayPc \in Unsent /\ waited >= Budget
         /\ outcome' = [state |-> "PANE_STILL_THINKING", submitted |-> FALSE, exit |-> 3]
  BY DEF S!Preflight, S!GiveUp, S!Kill, S!Returns, Unsent
<1>4. outcome' \in S!Outcome \cup {S!NoOutcome}
  <2>1. [state |-> "PANE_STILL_THINKING", submitted |-> FALSE, exit |-> 3] \in S!Outcome
    BY DEF S!Outcome
  <2>. QED  BY <1>3, <2>1 DEF SayInv, S!TypeOK
<1>5. sayPc' \in {"first", "done", "record"} /\ exit' \in (0 .. 11) \cup {S!NoExit}
  BY <1>3 DEF SayInv, S!TypeOK
<1>6. S!TypeOK'
  BY <1>1, <1>2, <1>4, <1>5 DEF SayInv, S!TypeOK, PaneKeeps
<1>7. StageInv'
  BY <1>1, <1>3 DEF SayInv, StageInv, Unsent, Typed, Entered
<1>8. LineInv'
  BY <1>2, <1>5 DEF LineInv, PaneKeeps, Typed, Entered
<1>9. sayPc \in Unsent => texts = 0
  BY DEF SayInv, StageInv
<1>10. ReturnInv'
  BY <1>1, <1>3, <1>9 DEF SayInv, ReturnInv
<1>11. ExitInv'
  BY <1>1, <1>3, <1>9 DEF SayInv, StageInv, ExitInv, S!NoExit
<1>. QED  BY <1>6, <1>7, <1>8, <1>10, <1>11 DEF SayInv

\* What happens to the pane leaves what the sender says alone.
LEMMA MovesStep ==
  ASSUME SayInv, S!Moves
  PROVE  SayInv'
<1>1. /\ UNCHANGED <<queues, sayPc, screen, waited, outcome, exit, recorded, texts, enters>>
      /\ moves' \in 0 .. MaxMoves
  <2>1. moves \in 0 .. MaxMoves /\ MaxMoves \in Nat
    BY SideAssumption DEF S!SayAssumption, SayInv, S!TypeOK
  <2>2. moves < MaxMoves /\ moves' = moves + 1
    BY DEF S!Moves
  <2>3. moves' \in 0 .. MaxMoves
    BY <2>1, <2>2
  <2>4. UNCHANGED <<queues, sayPc, screen, waited, outcome, exit, recorded, texts, enters>>
    BY DEF S!Moves
  <2>. QED  BY <2>3, <2>4
<1>2. PaneKeeps
  BY PaneMoves
<1>3. S!TypeOK'
  BY <1>1, <1>2 DEF SayInv, S!TypeOK, PaneKeeps
<1>4. StageInv' /\ ExitInv'
  BY <1>1 DEF SayInv, StageInv, ExitInv
<1>5. LineInv' /\ ReturnInv'
  BY <1>1, <1>2 DEF SayInv, LineInv, ReturnInv, PaneKeeps
<1>. QED  BY <1>3, <1>4, <1>5 DEF SayInv

\* The keys: Escape, Enter on a stale line, Enter on the line.
LEMMA KeyStep ==
  ASSUME SayInv, S!Escape \/ S!ClearStale \/ S!Press
  PROVE  SayInv'
<1>1. /\ UNCHANGED <<moves, queues, waited, outcome, exit, recorded, texts>>
      /\ screen' \in S!Screen
  BY NoScreenTyped DEF S!Escape, S!ClearStale, S!Press
<1>2. PaneKeeps
  <2>1. CASE S!ClearStale \/ S!Press
    BY <2>1, PaneEnters DEF S!ClearStale, S!Press
  <2>2. CASE S!Escape
    <3>1. (\E over \in S!Cover : pane' = [pane EXCEPT !.over = over]) \/ UNCHANGED pane
      BY <2>2 DEF S!Escape, S!Cover
    <3>. QED  BY <2>2, <3>1 DEF S!Escape, SayInv, S!TypeOK, LineInv, PaneKeeps, S!Pane
  <2>. QED  BY <2>1, <2>2
<1>3. \/ sayPc = "escape" /\ sayPc' = "uncovered" /\ UNCHANGED enters
      \/ sayPc = "stale" /\ sayPc' = "cleared" /\ UNCHANGED enters
      \/ sayPc = "enter" /\ sayPc' = "back" /\ enters' = enters + 1
      \/ sayPc = "press" /\ sayPc' = "steered" /\ enters' = enters + 1
      \/ sayPc = "again" /\ sayPc' = "last" /\ enters' = enters + 1
  BY DEF S!Escape, S!ClearStale, S!Press
<1>4. StageInv' /\ enters' \in 0 .. 2
  BY <1>1, <1>3 DEF SayInv, StageInv, S!TypeOK, Unsent, Typed, Entered
<1>5. S!TypeOK'
  BY <1>1, <1>2, <1>3, <1>4 DEF SayInv, S!TypeOK, PaneKeeps
<1>6. LineInv'
  BY <1>2, <1>3 DEF SayInv, LineInv, PaneKeeps, Typed, Entered
<1>7. outcome = S!NoOutcome
  BY <1>3 DEF SayInv, StageInv, Unsent, Typed, Entered
<1>8. ReturnInv' /\ ExitInv'
  BY <1>1, <1>7 DEF SayInv, ReturnInv, ExitInv
<1>. QED  BY <1>4, <1>5, <1>6, <1>8 DEF SayInv

LEMMA TypeStep ==
  ASSUME SayInv, S!Type
  PROVE  SayInv'
<1>1. /\ UNCHANGED <<moves, queues, waited, exit, recorded, enters, accepted>>
      /\ screen' \in S!Screen /\ texts' = 1 /\ sayPc \in {"type", "steer"}
  BY NoScreenTyped DEF S!Type
<1>2. /\ texts = 0 /\ enters = 0 /\ outcome = S!NoOutcome /\ exit = S!NoExit
  BY <1>1 DEF SayInv, StageInv, Unsent
<1>3. pane \in S!Pane /\ diverted \in BOOLEAN
  BY DEF SayInv, S!TypeOK
<1>4. ASSUME S!TakesText
      PROVE  PaneKeeps /\ (diverted' \/ "message" \in pane'.bar)
  <2>1. CASE pane.over = "none"
    <3>1. pane' = [pane EXCEPT !.bar = @ \cup {"message"}]
      BY <1>4, <2>1 DEF S!TakesText
    <3>2. diverted' = diverted
      BY <1>3, <1>4, <2>1 DEF S!TakesText
    <3>3. /\ pane' \in S!Pane /\ pane'.shows = pane.shows
          /\ "message" \in pane'.bar
      BY <1>3, <3>1 DEF S!Pane
    <3>. QED  BY <1>1, <3>2, <3>3 DEF PaneKeeps, SayInv, S!TypeOK, LineInv
  <2>2. CASE pane.over # "none"
    <3>1. pane' = pane
      BY <1>4, <2>2 DEF S!TakesText
    <3>2. diverted' = TRUE
      BY <1>3, <1>4, <2>2 DEF S!TakesText
    <3>. QED  BY <1>1, <3>1, <3>2, PaneStays
  <2>. QED  BY <2>1, <2>2
<1>5. CASE S!TakesText /\ S!Goes(IF sayPc = "type" THEN "enter" ELSE "press")
  <2>1. sayPc' \in Typed /\ UNCHANGED outcome
    BY <1>5 DEF S!Goes, Typed
  <2>2. PaneKeeps /\ (diverted' \/ "message" \in pane'.bar)
    BY <1>4, <1>5
  <2>3. S!TypeOK'
    BY <1>1, <2>1, <2>2 DEF SayInv, S!TypeOK, PaneKeeps, Typed
  <2>4. StageInv' /\ LineInv'
    BY <1>1, <1>2, <2>1, <2>2 DEF StageInv, LineInv, PaneKeeps, Unsent, Typed, Entered
  <2>5. ReturnInv' /\ ExitInv'
    BY <1>1, <1>2, <2>1 DEF SayInv, ReturnInv, ExitInv, S!NoExit
  <2>. QED  BY <2>3, <2>4, <2>5 DEF SayInv
<1>6. CASE /\ S!Returns("INPUT_BAR_ONLY", FALSE, 5)
           /\ S!TakesText \/ UNCHANGED <<pane, diverted>>
  <2>1. /\ sayPc' = "record"
        /\ outcome' = [state |-> "INPUT_BAR_ONLY", submitted |-> FALSE, exit |-> 5]
        /\ outcome' \in S!Outcome
    BY <1>6 DEF S!Returns, S!Outcome
  <2>2. PaneKeeps
    BY <1>1, <1>3, <1>4, <1>6, PaneStays
  <2>3. S!TypeOK'
    BY <1>1, <2>1, <2>2 DEF SayInv, S!TypeOK, PaneKeeps
  <2>4. StageInv' /\ LineInv'
    BY <1>1, <1>2, <2>1, <2>2 DEF StageInv, LineInv, PaneKeeps, Unsent, Typed, Entered
  <2>5. ReturnInv' /\ ExitInv'
    BY <1>1, <1>2, <2>1 DEF SayInv, ReturnInv, ExitInv, S!NoExit
  <2>. QED  BY <2>3, <2>4, <2>5 DEF SayInv
<1>. QED  BY <1>5, <1>6 DEF S!Type

LEMMA RecordStep ==
  ASSUME SayInv, S!Record
  PROVE  SayInv'
<1>1. /\ UNCHANGED <<pane, moves, queues, screen, waited, outcome, texts, enters, accepted,
                     diverted>>
      /\ sayPc = "record" /\ sayPc' = "done" /\ recorded' \in BOOLEAN
      /\ exit' = S!ExitCode(recorded')
  BY DEF S!Record
<1>2. PaneKeeps
  BY <1>1, PaneStays DEF SayInv, S!TypeOK
<1>3. \/ recorded' /\ exit' = outcome.exit
      \/ ~recorded' /\ exit' = 9
  BY <1>1 DEF S!ExitCode
<1>4. outcome.exit \in (0 .. 11) \cup {S!NoExit}
  <2>1. CASE outcome = S!NoOutcome
    BY <2>1 DEF S!NoOutcome
  <2>2. CASE outcome \in S!Outcome
    BY <2>2 DEF S!Outcome
  <2>. QED  BY <2>1, <2>2 DEF SayInv, S!TypeOK
<1>5. S!TypeOK'
  BY <1>1, <1>2, <1>3, <1>4 DEF SayInv, S!TypeOK, PaneKeeps
<1>6. StageInv' /\ LineInv'
  BY <1>1, <1>2 DEF StageInv, LineInv, PaneKeeps, Unsent, Typed, Entered
<1>7. ReturnInv' /\ ExitInv'
  BY <1>1, <1>3 DEF SayInv, ReturnInv, ExitInv
<1>. QED  BY <1>5, <1>6, <1>7 DEF SayInv

LEMMA SayStep ==
  ASSUME SayInv, [S!Next]_(S!sayVars)
  PROVE  SayInv'
<1>1. CASE UNCHANGED S!sayVars
  <2>1. S!TypeOK'
    BY <1>1 DEF S!sayVars, SayInv, S!TypeOK
  <2>2. StageInv' /\ LineInv' /\ ReturnInv' /\ ExitInv'
    BY <1>1 DEF S!sayVars, SayInv, StageInv, LineInv, ReturnInv, ExitInv
  <2>. QED  BY <2>1, <2>2 DEF SayInv
<1>2. CASE S!Sender
  BY <1>2, ReadStep, QuietStep, KeyStep, TypeStep, RecordStep DEF S!Sender
<1>3. CASE S!Kill \/ S!Moves
  BY <1>3, QuietStep, MovesStep
<1>. QED  BY <1>1, <1>2, <1>3 DEF S!Next

LEMMA SayAlways == S!Spec => []SayInv
<1>1. SayInv /\ [S!Next]_(S!sayVars) => SayInv'
  BY SayStep
<1>. QED  BY SayInit, <1>1, PTL DEF S!Spec

\* Every variable of the sender and of the pane keeps its type, whatever the budget, the
\* cost of a read and the changes of the pane (say.rs deliver, main.rs).
THEOREM SayTypeCorrect == S!Spec => []S!TypeOK
BY SayAlways, PTL DEF SayInv

\* What is returned and recorded is true of the line: typed once, entered at most twice,
\* nothing typed in a refusal, exit 0 only with a record and, unless something took the
\* line on the way, with the line in the harness (say.rs deliver, main.rs, proof.rs).
THEOREM OutcomesAreTrue == S!Spec => []OutcomeIsTrue
<1>1. SayInv => OutcomeIsTrue
  BY DEF SayInv, ReturnInv, ExitInv, OutcomeIsTrue, S!OutcomeIsTrue
<1>. QED  BY <1>1, SayAlways, PTL

-----------------------------------------------------------------------------
(* odin-watch: the clocks and the caps *)
Unit == AuditInterval + W!Slack

LEMMA WatchConstants ==
  /\ Interval \in Nat \ {0} /\ AuditInterval \in Nat \ {0}
  /\ MaxLate \in Nat /\ MaxRefused \in Nat
  /\ WatchScreens \subseteq SUBSET W!Marker
BY SideAssumption DEF W!WatchAssumption

LEMMA Caps ==
  /\ W!AgeCap \in Nat
  /\ W!AgeCap > AuditInterval + MaxLate /\ W!AgeCap > 3 * Interval + MaxLate
  /\ Unit \in Nat /\ Unit = AuditInterval + Interval + 2 * MaxLate
  /\ W!Never = W!AgeCap + 1
BY WatchConstants DEF W!AgeCap, W!StaleThreshold, Unit, W!Slack, W!Never

LEMMA Times ==
  ASSUME NEW m \in Nat, NEW n \in Nat
  PROVE  m * n \in Nat /\ (1 + m) * n = m * n + n /\ (m + 1) * n = m * n + n
OBVIOUS

LEMMA QuietCaps == W!QuietCap \in Nat
<1>1. Unit \in Nat /\ 1 + MaxRefused \in Nat
  BY Caps, WatchConstants
<1>. QED  BY <1>1, Times DEF W!QuietCap, Unit

\* An age that saturates never runs backwards and never faster than time.
LEMMA Ageing ==
  ASSUME NEW a \in 0 .. W!AgeCap
  PROVE  /\ W!Older(a) \in 0 .. W!AgeCap
         /\ a <= W!Older(a) /\ W!Older(a) <= a + 1
         /\ a < W!AgeCap => W!Older(a) = a + 1
BY Caps DEF W!Older

LEMMA OlderTogether ==
  ASSUME NEW a \in 0 .. W!AgeCap, NEW b \in 0 .. W!AgeCap, a <= b
  PROVE  W!Older(a) <= W!Older(b)
BY Caps DEF W!Older

\* What classify returns, and what a 0 in it means.
LEMMA Classified ==
  ASSUME lastVerdict \in W!Verdict \cup {W!NoVerdict}
  PROVE  /\ W!classify \in W!Result
         /\ W!classify.wake = 0 =>
              /\ ~W!AuditDue
              /\ snap = {"working"} /\ W!OutOfScope = {} /\ ~W!UnchangedPastStale
<1>1. ASSUME NEW v \in W!Verdict, NEW w \in 0 .. 1, NEW y \in W!Why,
             W!classify = W!Says(v, w, y)
      PROVE  W!classify \in W!Result /\ W!classify.wake = w
  BY <1>1 DEF W!Says, W!Result
<1>2. CASE W!AuditDue
  <2>1. PICK v \in W!Verdict, y \in {"MANDATORY_AUDIT"} :
          W!AuditVerdict = W!Says(v, 1, y)
    BY DEF W!AuditVerdict, W!Verdict, W!NoVerdict
  <2>2. W!classify = W!Says(v, 1, y)
    BY <1>2, <2>1 DEF W!classify
  <2>3. y \in W!Why
    BY DEF W!Why
  <2>4. W!classify \in W!Result /\ W!classify.wake = 1
    BY <1>1, <2>2, <2>3
  <2>. QED  BY <2>4
<1>3. CASE ~W!AuditDue /\ snap \ {"working"} # {}
  <2>1. PICK v \in {"WAITING_APPROVAL", "CRASHED", "QA_COMPLETE", "DEV_COMPLETE_QA_PENDING",
                    "BLOCKED"},
             y \in {"APPROVAL_MARKER", "CRASH_MARKER", "COMPLETION_MARKER", "BLOCKER_MARKER"} :
               W!MarkerVerdict = W!Says(v, 1, y)
    BY DEF W!MarkerVerdict
  <2>2. W!classify = W!Says(v, 1, y)
    BY <1>3, <2>1 DEF W!classify
  <2>3. v \in W!Verdict /\ y \in W!Why
    BY DEF W!Verdict, W!Why
  <2>4. W!classify \in W!Result /\ W!classify.wake = 1
    BY <1>1, <2>2, <2>3
  <2>. QED  BY <2>4
<1>4. CASE ~W!AuditDue /\ snap \ {"working"} = {}
  <2>1. W!classify = W!QuietVerdict
    BY <1>4 DEF W!classify
  <2>2. CASE W!OutOfScope = {} /\ ~W!UnchangedPastStale /\ "working" \in snap
    <3>1. W!classify = W!Says("WORKING", 0, "ALL_CLEAR")
      BY <2>1, <2>2 DEF W!QuietVerdict
    <3>2. "WORKING" \in W!Verdict /\ "ALL_CLEAR" \in W!Why
      BY DEF W!Verdict, W!Why
    <3>3. W!classify \in W!Result
      BY <1>1, <3>1, <3>2
    <3>4. snap = {"working"}
      BY <1>4, <2>2
    <3>. QED  BY <1>4, <2>2, <3>3, <3>4
  <2>3. CASE ~(W!OutOfScope = {} /\ ~W!UnchangedPastStale /\ "working" \in snap)
    <3>1. PICK v \in {"BLOCKED", "IDLE", "UNKNOWN_NEEDS_READ"},
               y \in {"DIRTY_OUT_OF_SCOPE", "STALE_HASH", "AMBIGUOUS_STATE"} :
                 W!QuietVerdict = W!Says(v, 1, y)
      BY <2>3 DEF W!QuietVerdict
    <3>2. v \in W!Verdict /\ y \in W!Why
      BY DEF W!Verdict, W!Why
    <3>3. W!classify \in W!Result /\ W!classify.wake = 1
      BY <1>1, <2>1, <3>1, <3>2
    <3>. QED  BY <3>3
  <2>. QED  BY <2>2, <2>3
<1>. QED  BY <1>2, <1>3, <1>4

-----------------------------------------------------------------------------
(* odin-watch: the inductive invariant *)

\* The places of the loop: in a poll, with the screen captured, with the verdict given.
Polling == {"capture", "probe", "classify", "flag", "reason", "state", "emit"}
Captured == Polling \ {"capture"}
Judged == {"flag", "reason", "state", "emit"}

\* How long the screen can have stood still, by what the loop measures; and a 0 in the
\* verdict, and then in the flag, was given for the screen that is still at hand.
StillInv ==
  /\ sameSince <= age
  /\ watchPc \in Polling \cup {"down"} => age <= elapsed + pollAge /\ pollAge <= MaxLate
  /\ watchPc \in Captured /\ prevHash # snap => sameSince <= pollAge
  /\ watchPc \in Judged /\ watched.wake = 0 =>
       snap = {"working"} /\ W!OutOfScope = {} /\ ~W!UnchangedPastStale
  /\ watchPc \in {"reason", "state", "emit"} => flag = watched.wake

\* A file that is being written is no newer than those written before it.
FilesInv ==
  /\ FlagIsNewest
  /\ watchPc = "reason" => behind.flag = 0
  /\ watchPc = "state" => behind.flag = 0 /\ behind.reason = 0

\* What the silence is measured against: the refused writes, and the audit clock, which
\* is exact as long as the audit is not due, or else the last polls.
AuditSince == IF auditAge = W!Never THEN age ELSE auditAge
Silence(ticks) == quiet <= refused * Unit + ticks
QuietInv ==
  refused <= MaxRefused =>
    /\ watchPc = "down" => quiet = 0
    /\ watchPc \in {"capture", "probe", "classify", "flag"} =>
         Silence(AuditInterval + Interval + MaxLate + pollAge)
    /\ watchPc \in {"capture", "probe", "classify"} /\ ~W!AuditDue => Silence(AuditSince)
    /\ watchPc \in {"reason", "state", "emit", "sleep"}
         \/ (watchPc = "flag" /\ watched.wake = 0) =>
           /\ Silence(AuditInterval + pollAge)
           /\ AuditSince < AuditInterval => Silence(AuditSince)

WatchInv == W!TypeOK /\ StillInv /\ FilesInv /\ QuietInv

LEMMA WatchInit == W!Init => WatchInv
<1>. SUFFICES ASSUME W!Init PROVE WatchInv
  OBVIOUS
<1>1. W!NoResult \in W!Result /\ W!NoResult.wake = 1
  BY DEF W!NoResult, W!Result, W!Verdict, W!Why
<1>2. W!TypeOK
  <2>1. /\ age \in 0 .. W!AgeCap /\ elapsed \in 0 .. W!AgeCap
        /\ pollAge \in 0 .. Interval + MaxLate /\ auditAge \in 0 .. W!AgeCap \cup {W!Never}
        /\ sameSince \in 0 .. W!AgeCap /\ quiet \in 0 .. W!QuietCap
        /\ refused \in 0 .. MaxRefused + 1 /\ flag \in 0 .. W!NoFlag
    BY WatchConstants, Caps, QuietCaps DEF W!Init, W!NoFlag
  <2>2. behind \in [{"flag", "reason", "state"} -> 0 .. 2]
    BY DEF W!Init
  <2>3. finding \in BOOLEAN
    BY Zenon DEF W!Init
  <2>. QED  BY <1>1, <2>1, <2>2, <2>3 DEF W!Init, W!TypeOK
<1>3. StillInv
  BY WatchConstants DEF W!Init, StillInv, Polling, Captured, Judged
<1>4. FilesInv
  BY DEF W!Init, FilesInv, FlagIsNewest, W!FlagIsNewest
<1>5. QuietInv
  <2>1. refused * Unit \in Nat /\ AuditSince = 0
    BY Caps, Times DEF W!Init, AuditSince
  <2>. QED  BY <2>1, WatchConstants DEF W!Init, QuietInv, Silence
<1>. QED  BY <1>2, <1>3, <1>4, <1>5 DEF WatchInv

\* The typed facts the steps need.
LEMMA WatchTyped ==
  ASSUME WatchInv
  PROVE  /\ age \in 0 .. W!AgeCap /\ elapsed \in 0 .. W!AgeCap
         /\ pollAge \in 0 .. Interval + MaxLate
         /\ auditAge \in 0 .. W!AgeCap \cup {W!Never}
         /\ sameSince \in 0 .. W!AgeCap
         /\ quiet \in 0 .. W!QuietCap /\ refused \in 0 .. MaxRefused + 1
         /\ refused \in Nat /\ refused * Unit \in Nat
         /\ AuditSince \in 0 .. W!AgeCap
         /\ watched.wake \in 0 .. 1
         /\ behind \in [{"flag", "reason", "state"} -> 0 .. 2]
<1>1. /\ age \in 0 .. W!AgeCap /\ elapsed \in 0 .. W!AgeCap
      /\ pollAge \in 0 .. Interval + MaxLate
      /\ auditAge \in 0 .. W!AgeCap \cup {W!Never}
      /\ sameSince \in 0 .. W!AgeCap
      /\ quiet \in 0 .. W!QuietCap /\ refused \in 0 .. MaxRefused + 1
      /\ watched \in W!Result
      /\ behind \in [{"flag", "reason", "state"} -> 0 .. 2]
  BY DEF WatchInv, W!TypeOK
<1>2. refused \in Nat
  BY <1>1, WatchConstants
<1>3. refused * Unit \in Nat
  BY <1>2, Caps, Times
<1>4. AuditSince \in 0 .. W!AgeCap
  BY <1>1 DEF AuditSince
<1>5. watched.wake \in 0 .. 1
  BY <1>1 DEF W!Result
<1>. QED  BY <1>1, <1>2, <1>3, <1>4, <1>5

\* A poll begins.
LEMMA BeginStep ==
  ASSUME WatchInv, W!Begin
  PROVE  WatchInv'
<1>1. /\ watchPc = "sleep" /\ watchPc' = "capture" /\ pollAge' = 0 /\ elapsed' = age
      /\ UNCHANGED <<age, auditAge, snap, paths, prevHash, lastVerdict, watched, flag, behind,
                     finding, sameSince, quiet, refused>>
  BY DEF W!Begin, W!memory, W!files, W!history
<1>2. W!TypeOK'
  BY <1>1, WatchConstants DEF WatchInv, W!TypeOK
<1>3. StillInv'
  BY <1>1, WatchTyped, WatchConstants DEF WatchInv, StillInv, Polling, Captured, Judged
<1>4. FilesInv'
  BY <1>1 DEF WatchInv, FilesInv, FlagIsNewest, W!FlagIsNewest
<1>5. QuietInv'
  <2>1. SUFFICES ASSUME refused <= MaxRefused
                 PROVE  /\ quiet <= refused * Unit + (AuditInterval + Interval + MaxLate)
                        /\ ~W!AuditDue' => quiet <= refused * Unit + AuditSince
    BY <1>1, WatchTyped, WatchConstants DEF QuietInv, Silence, AuditSince
  <2>2. /\ quiet <= refused * Unit + (AuditInterval + pollAge)
        /\ AuditSince < AuditInterval => quiet <= refused * Unit + AuditSince
    BY <1>1, <2>1 DEF WatchInv, QuietInv, Silence
  <2>3. ~W!AuditDue' => AuditSince < AuditInterval
    BY <1>1, WatchTyped, WatchConstants DEF W!AuditDue, W!AuditElapsed, AuditSince
  <2>. QED  BY <2>2, <2>3, WatchTyped, WatchConstants
<1>. QED  BY <1>2, <1>3, <1>4, <1>5 DEF WatchInv

\* The screen and the tree are looked at.
LEMMA LookStep ==
  ASSUME WatchInv, W!Capture \/ W!Probe
  PROVE  WatchInv'
<1>1. /\ UNCHANGED <<age, pollAge, auditAge, elapsed, prevHash, lastVerdict, watched, flag,
                     behind, finding, quiet, refused>>
      /\ \/ /\ watchPc = "capture" /\ watchPc' = "probe"
            /\ snap' \in WatchScreens /\ UNCHANGED paths
            /\ sameSince' = IF prevHash = snap' THEN sameSince ELSE 0
         \/ /\ watchPc = "probe" /\ watchPc' = "classify"
            /\ paths' \subseteq WatchPaths /\ UNCHANGED <<snap, sameSince>>
  BY DEF W!Capture, W!Probe, W!clocks, W!memory, W!files, W!history
<1>2. sameSince' \in 0 .. W!AgeCap /\ sameSince' <= sameSince
  BY <1>1, WatchTyped, Caps
<1>3. W!TypeOK'
  BY <1>1, <1>2 DEF WatchInv, W!TypeOK
<1>4. StillInv'
  BY <1>1, <1>2, WatchTyped DEF WatchInv, StillInv, Polling, Captured, Judged
<1>5. FilesInv'
  BY <1>1 DEF WatchInv, FilesInv, FlagIsNewest, W!FlagIsNewest
<1>6. QuietInv'
  BY <1>1 DEF WatchInv, QuietInv, Silence, AuditSince, W!AuditDue, W!AuditElapsed
<1>. QED  BY <1>3, <1>4, <1>5, <1>6 DEF WatchInv

\* The verdict is given, and the audit clock goes back to the start of the poll.
LEMMA ClassifyStep ==
  ASSUME WatchInv, W!Classify
  PROVE  WatchInv'
<1>1. /\ watchPc = "classify" /\ watchPc' = "flag"
      /\ watched' = W!classify /\ auditAge' = W!AuditClock
      /\ behind' = [f \in DOMAIN behind |-> IF behind[f] < 2 THEN behind[f] + 1 ELSE 2]
      /\ UNCHANGED <<age, pollAge, elapsed, snap, paths, prevHash, lastVerdict, flag, finding,
                     sameSince, quiet, refused>>
  BY DEF W!Classify, W!memory, W!history
<1>2. /\ watched' \in W!Result
      /\ watched'.wake = 0 =>
           /\ ~W!AuditDue
           /\ snap = {"working"} /\ W!OutOfScope = {} /\ ~W!UnchangedPastStale
  BY <1>1, Classified DEF WatchInv, W!TypeOK
<1>3. auditAge' = (IF W!AuditDue THEN pollAge ELSE auditAge)
  BY <1>1 DEF W!AuditClock
<1>4. auditAge' \in 0 .. W!AgeCap \cup {W!Never}
  BY <1>3, WatchTyped, WatchConstants, Caps
<1>5. /\ behind' \in [{"flag", "reason", "state"} -> 0 .. 2]
      /\ behind'.flag <= behind'.reason /\ behind'.reason <= behind'.state
  BY <1>1, WatchTyped DEF WatchInv, FilesInv, FlagIsNewest, W!FlagIsNewest
<1>6. W!TypeOK'
  BY <1>1, <1>2, <1>4, <1>5 DEF WatchInv, W!TypeOK
<1>7. StillInv'
  BY <1>1, <1>2 DEF WatchInv, StillInv, Polling, Captured, Judged, W!OutOfScope,
                    W!UnchangedPastStale
<1>8. FilesInv'
  BY <1>1, <1>5 DEF FilesInv, FlagIsNewest, W!FlagIsNewest
<1>9. QuietInv'
  <2>1. SUFFICES ASSUME refused <= MaxRefused
                 PROVE  /\ quiet <= refused * Unit
                                      + (AuditInterval + Interval + MaxLate + pollAge)
                        /\ ~W!AuditDue =>
                             /\ quiet <= refused * Unit + (AuditInterval + pollAge)
                             /\ quiet <= refused * Unit + AuditSince'
    BY <1>1, <1>2 DEF QuietInv, Silence
  <2>2. /\ quiet <= refused * Unit + (AuditInterval + Interval + MaxLate + pollAge)
        /\ ~W!AuditDue => quiet <= refused * Unit + AuditSince
    BY <1>1, <2>1 DEF WatchInv, QuietInv, Silence
  <2>3. age <= elapsed + pollAge
    BY <1>1 DEF WatchInv, StillInv, Polling
  <2>4. ASSUME ~W!AuditDue
        PROVE  AuditSince <= AuditInterval + pollAge /\ AuditSince' = AuditSince
    BY <1>1, <1>3, <2>3, <2>4, WatchTyped, WatchConstants
    DEF W!AuditDue, W!AuditElapsed, AuditSince
  <2>. QED  BY <2>2, <2>4, WatchTyped, WatchConstants
<1>. QED  BY <1>6, <1>7, <1>8, <1>9 DEF WatchInv

\* The three files are written, the flag first.
LEMMA WriteFlagStep ==
  ASSUME WatchInv, W!WriteFlag
  PROVE  WatchInv'
<1>1. /\ watchPc = "flag" /\ watchPc' = "reason" /\ flag' = watched.wake
      /\ behind' = [behind EXCEPT !.flag = 0]
      /\ quiet' = (IF watched.wake = 1 THEN 0 ELSE quiet)
      /\ refused' = (IF watched.wake = 1 THEN 0 ELSE refused)
      /\ UNCHANGED <<age, pollAge, auditAge, elapsed, snap, paths, prevHash, lastVerdict,
                     watched, finding, sameSince>>
  BY DEF W!WriteFlag, W!AfterFile, W!clocks, W!memory
<1>2. /\ flag' \in 0 .. W!NoFlag
      /\ quiet' \in 0 .. W!QuietCap /\ refused' \in 0 .. MaxRefused + 1
  BY <1>1, WatchTyped, WatchConstants, QuietCaps DEF W!NoFlag
<1>3. /\ behind' \in [{"flag", "reason", "state"} -> 0 .. 2]
      /\ behind'.flag = 0 /\ behind'.reason = behind.reason
      /\ behind'.state = behind.state
  BY <1>1, WatchTyped
<1>4. W!TypeOK'
  BY <1>1, <1>2, <1>3 DEF WatchInv, W!TypeOK
<1>5. StillInv'
  BY <1>1 DEF WatchInv, StillInv, Polling, Captured, Judged, W!OutOfScope,
              W!UnchangedPastStale
<1>6. FilesInv'
  BY <1>1, <1>3, WatchTyped DEF WatchInv, FilesInv, FlagIsNewest, W!FlagIsNewest
<1>7. QuietInv'
  <2>1. CASE watched.wake = 1
    <3>1. quiet' = 0 /\ refused' = 0 /\ refused' * Unit = 0
      BY <1>1, <2>1, Caps
    <3>2. pollAge' \in Nat /\ AuditSince' \in Nat
      BY <1>1, WatchTyped, WatchConstants, Caps DEF AuditSince
    <3>. QED  BY <1>1, <3>1, <3>2, WatchConstants DEF QuietInv, Silence
  <2>2. CASE watched.wake = 0
    BY <1>1, <2>2 DEF WatchInv, QuietInv, Silence, AuditSince
  <2>. QED  BY <2>1, <2>2, WatchTyped
<1>. QED  BY <1>4, <1>5, <1>6, <1>7 DEF WatchInv

LEMMA WriteOthersStep ==
  ASSUME WatchInv, W!WriteReason \/ W!WriteState
  PROVE  WatchInv'
<1>1. /\ \/ /\ watchPc = "reason" /\ watchPc' = "state"
            /\ behind' = [behind EXCEPT !.reason = 0]
         \/ /\ watchPc = "state" /\ watchPc' = "emit"
            /\ behind' = [behind EXCEPT !.state = 0]
      /\ UNCHANGED <<age, pollAge, auditAge, elapsed, snap, paths, prevHash, lastVerdict,
                     watched, flag, finding, sameSince, quiet, refused>>
  BY DEF W!WriteReason, W!WriteState, W!AfterFile, W!clocks, W!memory, W!history
<1>2. /\ behind' \in [{"flag", "reason", "state"} -> 0 .. 2]
      /\ behind'.flag = behind.flag
      /\ watchPc = "reason" => behind'.reason = 0 /\ behind'.state = behind.state
      /\ watchPc = "state" => behind'.state = 0 /\ behind'.reason = behind.reason
  BY <1>1, WatchTyped
<1>3. W!TypeOK'
  BY <1>1, <1>2 DEF WatchInv, W!TypeOK
<1>4. StillInv'
  BY <1>1 DEF WatchInv, StillInv, Polling, Captured, Judged, W!OutOfScope,
              W!UnchangedPastStale
<1>5. FilesInv'
  BY <1>1, <1>2, WatchTyped DEF WatchInv, FilesInv, FlagIsNewest, W!FlagIsNewest
<1>6. QuietInv'
  BY <1>1 DEF WatchInv, QuietInv, Silence, AuditSince
<1>. QED  BY <1>3, <1>4, <1>5, <1>6 DEF WatchInv

\* A poll ends: its event is sent, the look fails or a write is refused.
LEMMA EndStep ==
  ASSUME WatchInv, W!Emit \/ W!Fails \/ W!WriteRefused
  PROVE  WatchInv'
<1>1. /\ watchPc \in Polling /\ watchPc' = "sleep"
      /\ snap' = W!NoScreen /\ paths' = {} /\ watched' = W!NoResult /\ elapsed' = 0
      /\ UNCHANGED <<age, pollAge, auditAge, flag, behind, sameSince>>
      /\ \/ /\ watchPc = "emit" /\ UNCHANGED <<quiet, refused>>
            /\ prevHash' = snap /\ lastVerdict' = watched.verdict
            /\ finding' \in (IF WatchEmits THEN {finding, TRUE} ELSE {finding})
         \/ /\ quiet' = 0 /\ UNCHANGED <<refused, prevHash, lastVerdict, finding>>
         \/ /\ watchPc \in {"flag", "reason", "state"}
            /\ refused' = (IF watchPc = "flag" /\ refused <= MaxRefused
                             THEN refused + 1 ELSE refused)
            /\ UNCHANGED <<quiet, prevHash, lastVerdict, finding>>
  <2>1. CASE W!Emit
    BY <2>1 DEF W!Emit, W!EndPoll, W!files, W!history, Polling
  <2>2. CASE W!Fails
    BY <2>2 DEF W!Fails, W!EndPoll, W!memory, W!files, Polling
  <2>3. CASE W!WriteRefused
    BY <2>3 DEF W!WriteRefused, W!EndPoll, W!memory, W!files, Polling
  <2>. QED  BY <2>1, <2>2, <2>3
<1>2. W!NoResult \in W!Result /\ watched.verdict \in W!Verdict
  BY DEF W!NoResult, W!Result, W!Verdict, W!Why, WatchInv, W!TypeOK
<1>3. W!TypeOK'
  <2>1. /\ quiet' \in 0 .. W!QuietCap /\ refused' \in 0 .. MaxRefused + 1
        /\ elapsed' \in 0 .. W!AgeCap
    <3>1. /\ quiet' = quiet \/ quiet' = 0
          /\ refused' = refused \/ (refused <= MaxRefused /\ refused' = refused + 1)
      BY <1>1
    <3>. QED  BY <1>1, <3>1, WatchTyped, WatchConstants, QuietCaps, Caps
  <2>2. /\ prevHash' \in WatchScreens \cup {W!NoScreen}
        /\ lastVerdict' \in W!Verdict \cup {W!NoVerdict}
    BY <1>1, <1>2 DEF WatchInv, W!TypeOK
  <2>3. finding' \in BOOLEAN
    BY <1>1 DEF WatchInv, W!TypeOK
  <2>. QED  BY <1>1, <1>2, <2>1, <2>2, <2>3 DEF WatchInv, W!TypeOK
<1>4. StillInv'
  BY <1>1 DEF WatchInv, StillInv, Polling, Captured, Judged
<1>5. FilesInv'
  BY <1>1 DEF WatchInv, FilesInv, FlagIsNewest, W!FlagIsNewest
<1>6. QuietInv'
  <2>1. SUFFICES ASSUME refused' <= MaxRefused
                 PROVE  /\ quiet' <= refused' * Unit + (AuditInterval + pollAge)
                        /\ AuditSince < AuditInterval =>
                             quiet' <= refused' * Unit + AuditSince
    BY <1>1 DEF QuietInv, Silence, AuditSince
  <2>2. CASE quiet' = 0 /\ refused' = refused
    BY <2>2, WatchTyped, WatchConstants, Caps
  <2>3. CASE watchPc \in {"reason", "state", "emit"} /\ quiet' = quiet /\ refused' = refused
    BY <2>1, <2>3 DEF WatchInv, QuietInv, Silence
  <2>4. CASE watchPc = "flag" /\ quiet' = quiet /\ refused <= MaxRefused
               /\ refused' = refused + 1
    <3>1. quiet <= refused * Unit + (AuditInterval + Interval + MaxLate + pollAge)
      BY <2>4 DEF WatchInv, QuietInv, Silence
    <3>2. pollAge <= MaxLate
      BY <2>4 DEF WatchInv, StillInv, Polling
    <3>3. refused' * Unit = refused * Unit + Unit
      BY <2>4, WatchTyped, Caps, Times
    <3>. QED  BY <2>4, <3>1, <3>2, <3>3, WatchTyped, WatchConstants, Caps
  <2>5. watchPc = "flag" /\ quiet' = quiet /\ refused' = refused => ~(refused <= MaxRefused)
          \/ quiet' = 0
    BY <1>1, WatchTyped, WatchConstants
  <2>. QED  BY <1>1, <2>1, <2>2, <2>3, <2>4, <2>5
<1>. QED  BY <1>3, <1>4, <1>5, <1>6 DEF WatchInv

\* The watcher is killed and started again.
LEMMA RestartStep ==
  ASSUME WatchInv, W!Kill \/ W!Start
  PROVE  WatchInv'
<1>1. CASE W!Kill
  <2>1. /\ watchPc' = "down" /\ quiet' = 0
        /\ snap' = W!NoScreen /\ paths' = {} /\ watched' = W!NoResult
        /\ prevHash' = W!NoScreen /\ lastVerdict' = W!NoVerdict
        /\ auditAge' = W!Never /\ age' = 0 /\ elapsed' = 0 /\ pollAge' = 0
        /\ sameSince' = 0
        /\ UNCHANGED <<flag, behind, finding, refused>>
    BY <1>1 DEF W!Kill, W!files
  <2>2. W!NoResult \in W!Result
    BY DEF W!NoResult, W!Result, W!Verdict, W!Why
  <2>3. W!TypeOK'
    <3>1. /\ age' \in 0 .. W!AgeCap /\ elapsed' \in 0 .. W!AgeCap
          /\ pollAge' \in 0 .. Interval + MaxLate /\ sameSince' \in 0 .. W!AgeCap
          /\ quiet' \in 0 .. W!QuietCap
      BY <2>1, WatchConstants, Caps, QuietCaps
    <3>. QED  BY <2>1, <2>2, <3>1 DEF WatchInv, W!TypeOK
  <2>4. StillInv'
    BY <2>1, WatchConstants DEF StillInv, Polling, Captured, Judged
  <2>5. FilesInv'
    BY <2>1 DEF WatchInv, FilesInv, FlagIsNewest, W!FlagIsNewest
  <2>6. QuietInv'
    BY <2>1 DEF QuietInv
  <2>. QED  BY <2>3, <2>4, <2>5, <2>6 DEF WatchInv
<1>2. CASE W!Start
  <2>1. /\ watchPc = "down" /\ watchPc' = "capture"
        /\ UNCHANGED <<age, pollAge, auditAge, elapsed, snap, paths, prevHash, lastVerdict,
                       watched, flag, behind, finding, sameSince, quiet, refused>>
    BY <1>2 DEF W!Start, W!clocks, W!memory, W!files, W!history
  <2>2. W!TypeOK'
    BY <2>1 DEF WatchInv, W!TypeOK
  <2>3. StillInv'
    BY <2>1 DEF WatchInv, StillInv, Polling, Captured, Judged
  <2>4. FilesInv'
    BY <2>1 DEF WatchInv, FilesInv, FlagIsNewest, W!FlagIsNewest
  <2>5. QuietInv'
    <3>1. refused <= MaxRefused => quiet = 0
      BY <2>1 DEF WatchInv, QuietInv
    <3>2. /\ refused <= MaxRefused =>
               /\ quiet <= refused * Unit + (AuditInterval + Interval + MaxLate + pollAge)
               /\ quiet <= refused * Unit + AuditSince
      BY <3>1, WatchTyped, WatchConstants, Caps
    <3>. QED  BY <2>1, <3>2 DEF QuietInv, Silence, AuditSince
  <2>. QED  BY <2>2, <2>3, <2>4, <2>5 DEF WatchInv
<1>. QED  BY <1>1, <1>2

\* A tick of the clock.
LEMMA TickStep ==
  ASSUME WatchInv, W!Tick
  PROVE  WatchInv'
<1>1. /\ watchPc # "down" /\ ~W!Due
      /\ age' = W!Older(age) /\ pollAge' = pollAge + 1
      /\ auditAge' = (IF auditAge = W!Never THEN W!Never ELSE W!Older(auditAge))
      /\ sameSince' = W!Older(sameSince)
      /\ quiet' = (IF flag = 0 /\ quiet < W!QuietCap THEN quiet + 1 ELSE quiet)
      /\ UNCHANGED <<watchPc, elapsed, snap, paths, prevHash, lastVerdict, watched, flag,
                     behind, finding, refused>>
  BY DEF W!Tick, W!memory, W!files
<1>2. /\ pollAge' <= Interval + MaxLate
      /\ watchPc \in Polling => pollAge' <= MaxLate
  BY <1>1, WatchTyped, WatchConstants DEF W!Due, Polling
<1>3. /\ age' \in 0 .. W!AgeCap /\ age' <= age + 1
      /\ sameSince' \in 0 .. W!AgeCap /\ sameSince' <= sameSince + 1
      /\ sameSince <= age => sameSince' <= age'
      /\ quiet' \in 0 .. W!QuietCap /\ quiet' <= quiet + 1
      /\ pollAge' \in 0 .. Interval + MaxLate
  BY <1>1, <1>2, WatchTyped, WatchConstants, Ageing, OlderTogether, QuietCaps
<1>4. /\ auditAge' \in 0 .. W!AgeCap \cup {W!Never}
      /\ AuditSince' = W!Older(AuditSince)
  <2>1. CASE auditAge = W!Never
    BY <1>1, <2>1 DEF AuditSince
  <2>2. CASE auditAge # W!Never
    <3>1. auditAge \in 0 .. W!AgeCap
      BY <2>2, WatchTyped
    <3>2. W!Older(auditAge) \in 0 .. W!AgeCap
      BY <3>1, Ageing
    <3>. QED  BY <1>1, <2>2, <3>2, Caps DEF AuditSince
  <2>. QED  BY <2>1, <2>2
<1>5. W!TypeOK'
  BY <1>1, <1>3, <1>4 DEF WatchInv, W!TypeOK
<1>6. StillInv'
  BY <1>1, <1>2, <1>3, WatchTyped
  DEF WatchInv, StillInv, Polling, Captured, Judged, W!OutOfScope, W!UnchangedPastStale
<1>7. FilesInv'
  BY <1>1 DEF WatchInv, FilesInv, FlagIsNewest, W!FlagIsNewest
<1>8. QuietInv'
  <2>1. ASSUME AuditSince < W!AgeCap
        PROVE  AuditSince' = AuditSince + 1
    BY <1>4, <2>1, WatchTyped, Ageing
  <2>2. AuditSince' < AuditInterval => AuditSince < AuditInterval /\ AuditSince < W!AgeCap
    BY <1>4, WatchTyped, WatchConstants, Ageing, Caps
  <2>3. watchPc \in Polling /\ ~W!AuditDue' => ~W!AuditDue /\ AuditSince < W!AgeCap
    <3>1. SUFFICES ASSUME watchPc \in Polling, ~W!AuditDue'
                   PROVE  ~W!AuditDue /\ AuditSince < W!AgeCap
      OBVIOUS
    <3>2. age <= elapsed + pollAge /\ pollAge <= MaxLate
      BY <3>1 DEF WatchInv, StillInv
    <3>3. CASE auditAge = W!Never
      BY <1>1, <3>1, <3>2, <3>3, WatchTyped, WatchConstants, Caps
      DEF W!AuditDue, W!AuditElapsed, AuditSince
    <3>4. CASE auditAge # W!Never
      <4>1. auditAge \in 0 .. W!AgeCap /\ auditAge' = W!Older(auditAge)
        BY <1>1, <3>4, WatchTyped
      <4>2. auditAge' # W!Never /\ auditAge <= auditAge' /\ auditAge' \in 0 .. W!AgeCap
        BY <4>1, Ageing, Caps
      <4>3. auditAge' < AuditInterval
        BY <3>1, <4>2, WatchConstants DEF W!AuditDue, W!AuditElapsed
      <4>. QED  BY <3>4, <4>1, <4>2, <4>3, WatchConstants, Caps
                DEF W!AuditDue, W!AuditElapsed, AuditSince
    <3>. QED  BY <3>3, <3>4
  <2>4. SUFFICES ASSUME refused <= MaxRefused
        PROVE
          /\ watchPc \in {"capture", "probe", "classify", "flag"} =>
               quiet' <= refused * Unit + (AuditInterval + Interval + MaxLate + pollAge')
          /\ watchPc \in {"capture", "probe", "classify"} /\ ~W!AuditDue' =>
               quiet' <= refused * Unit + AuditSince'
          /\ watchPc \in {"reason", "state", "emit", "sleep"}
               \/ (watchPc = "flag" /\ watched.wake = 0) =>
                 /\ quiet' <= refused * Unit + (AuditInterval + pollAge')
                 /\ AuditSince' < AuditInterval => quiet' <= refused * Unit + AuditSince'
    BY <1>1 DEF QuietInv, Silence
  <2>5. /\ watchPc \in {"capture", "probe", "classify", "flag"} =>
             quiet <= refused * Unit + (AuditInterval + Interval + MaxLate + pollAge)
        /\ watchPc \in {"capture", "probe", "classify"} /\ ~W!AuditDue =>
             quiet <= refused * Unit + AuditSince
        /\ watchPc \in {"reason", "state", "emit", "sleep"}
             \/ (watchPc = "flag" /\ watched.wake = 0) =>
               /\ quiet <= refused * Unit + (AuditInterval + pollAge)
               /\ AuditSince < AuditInterval => quiet <= refused * Unit + AuditSince
    BY <2>4 DEF WatchInv, QuietInv, Silence
  <2>6. watchPc \in {"capture", "probe", "classify", "flag"} =>
          quiet' <= refused * Unit + (AuditInterval + Interval + MaxLate + pollAge')
    BY <1>1, <1>3, <2>5, WatchTyped, WatchConstants
  <2>7. watchPc \in {"capture", "probe", "classify"} /\ ~W!AuditDue' =>
          quiet' <= refused * Unit + AuditSince'
    BY <1>3, <2>1, <2>3, <2>5, WatchTyped DEF Polling
  <2>8. watchPc \in {"reason", "state", "emit", "sleep"}
          \/ (watchPc = "flag" /\ watched.wake = 0) =>
            /\ quiet' <= refused * Unit + (AuditInterval + pollAge')
            /\ AuditSince' < AuditInterval => quiet' <= refused * Unit + AuditSince'
    BY <1>1, <1>3, <2>1, <2>2, <2>5, WatchTyped, WatchConstants
  <2>. QED  BY <2>6, <2>7, <2>8
<1>. QED  BY <1>5, <1>6, <1>7, <1>8 DEF WatchInv

LEMMA WatchStep == WatchInv /\ [W!Next]_(W!vars) => WatchInv'
<1>. SUFFICES ASSUME WatchInv, [W!Next]_(W!vars) PROVE WatchInv'
  OBVIOUS
<1>1. CASE W!Next
  BY <1>1, BeginStep, LookStep, ClassifyStep, WriteFlagStep, WriteOthersStep, EndStep,
     RestartStep, TickStep DEF W!Next, W!PollStep
<1>2. CASE UNCHANGED W!vars
  <2>1. UNCHANGED <<watchPc, age, pollAge, auditAge, elapsed, snap, paths, prevHash,
                    lastVerdict, watched, flag, behind, finding, sameSince, quiet, refused>>
    BY <1>2 DEF W!vars, W!clocks, W!memory, W!files, W!history
  <2>2. W!TypeOK' /\ FilesInv'
    BY <2>1 DEF WatchInv, W!TypeOK, FilesInv, FlagIsNewest, W!FlagIsNewest
  <2>3. StillInv'
    BY <2>1 DEF WatchInv, StillInv, W!OutOfScope, W!UnchangedPastStale
  <2>4. QuietInv'
    BY <2>1 DEF WatchInv, QuietInv, Silence, AuditSince, W!AuditDue, W!AuditElapsed
  <2>. QED  BY <2>2, <2>3, <2>4 DEF WatchInv
<1>. QED  BY <1>1, <1>2

LEMMA WatchAlways == W!Spec => []WatchInv
BY WatchInit, WatchStep, PTL DEF W!Spec

\* Every variable of the watcher keeps its type, the saturated ages, the verdicts and the
\* files' lags included (src/odin-watch/index.ts, classifier.ts).
THEOREM WatchTypeCorrect == W!Spec => []W!TypeOK
<1>1. WatchInv => W!TypeOK
  BY DEF WatchInv
<1>. QED  BY <1>1, WatchAlways, PTL

\* A flag set to 0 means what the poll saw: work and nothing else on the screen, no dirty
\* path out of scope, and a screen that has not stood still for longer than the stale
\* threshold and a poll (classifier.ts ordered rules, index.ts prev_hash).
THEOREM SilencesAreEarned == W!Spec => []SilenceIsEarned
<1>1. WatchInv => SilenceIsEarned
  <2>. SUFFICES ASSUME WatchInv, watchPc \in {"reason", "state", "emit"}, flag = 0
                PROVE  /\ snap = {"working"} /\ W!OutOfScope = {}
                       /\ sameSince <= W!StaleThreshold + MaxLate
    BY DEF SilenceIsEarned, W!SilenceIsEarned
  <2>1. /\ snap = {"working"} /\ W!OutOfScope = {} /\ ~W!UnchangedPastStale
        /\ sameSince <= age /\ age <= elapsed + pollAge /\ pollAge <= MaxLate
        /\ prevHash # snap => sameSince <= pollAge
    BY DEF WatchInv, StillInv, Polling, Captured, Judged
  <2>2. W!StaleThreshold \in Nat /\ "none" # "working"
    BY WatchConstants DEF W!StaleThreshold
  <2>3. CASE prevHash # snap
    BY <2>1, <2>2, <2>3, WatchTyped, WatchConstants
  <2>4. CASE prevHash = snap
    <3>1. prevHash # W!NoScreen
      BY <2>1, <2>4 DEF W!NoScreen
    <3>2. ~(elapsed > W!StaleThreshold)
      BY <2>1, <2>4, <3>1 DEF W!UnchangedPastStale
    <3>. QED  BY <2>1, <2>2, <3>2, WatchTyped, WatchConstants
  <2>. QED  BY <2>1, <2>3, <2>4
<1>. QED  BY <1>1, WatchAlways, PTL

\* As long as the polls look, no silence outlasts the mandatory audit's interval, a poll
\* and the lateness of both, and one such span more for every flag that could not be
\* written (classifier.ts rule 1, index.ts last_mandatory_audit_ts).
THEOREM QuietsAreBounded == W!Spec => []QuietIsBounded
<1>1. WatchInv => QuietIsBounded
  <2>. SUFFICES ASSUME WatchInv, refused <= MaxRefused
                PROVE  quiet <= (1 + refused) * Unit
    BY DEF QuietIsBounded, W!QuietIsBounded, Unit
  <2>1. (1 + refused) * Unit = refused * Unit + Unit
    BY WatchTyped, Caps, Times
  <2>2. watchPc \in Polling \cup {"sleep", "down"}
    BY DEF WatchInv, W!TypeOK, Polling
  <2>3. watchPc \in Polling => pollAge <= MaxLate
    BY DEF WatchInv, StillInv
  <2>4. \/ quiet = 0
        \/ watchPc \in Polling
             /\ quiet <= refused * Unit + (AuditInterval + Interval + MaxLate + pollAge)
        \/ quiet <= refused * Unit + (AuditInterval + pollAge)
    BY <2>2 DEF WatchInv, QuietInv, Silence, Polling
  <2>. QED  BY <2>1, <2>3, <2>4, WatchTyped, WatchConstants, Caps
<1>. QED  BY <1>1, WatchAlways, PTL

\* Whatever is interrupted between two of the three writes, a reader that was woken by the
\* flag finds no reason newer than it and no state newer than the reason (index.ts
\* writeWakeFiles order).
THEOREM FlagsAreNewest == W!Spec => []FlagIsNewest
<1>1. WatchInv => FlagIsNewest
  BY DEF WatchInv, FilesInv
<1>. QED  BY <1>1, WatchAlways, PTL

-----------------------------------------------------------------------------
(* Harness pacing: sequences and profiles *)

LEMMA Pacing ==
  /\ PacingEvents \subseteq P!Event
  /\ \A f \in {Absent, Empty, Torn} : f \notin P!Profile
  /\ Absent # Empty /\ Absent # Torn /\ Empty # Torn
BY SideAssumption DEF P!PacingAssumption

\* What appending does to the elements of a sequence.
LEMMA Appended ==
  ASSUME NEW T, NEW s \in Seq(T), NEW x \in T
  PROVE  /\ Append(s, x) \in Seq(T) /\ Len(Append(s, x)) = Len(s) + 1
         /\ P!Elements(Append(s, x)) = P!Elements(s) \cup {x}
<1>1. /\ Append(s, x) \in Seq(T) /\ Len(Append(s, x)) = Len(s) + 1
      /\ DOMAIN s = 1 .. Len(s) /\ DOMAIN Append(s, x) = 1 .. Len(s) + 1 /\ Len(s) \in Nat
      /\ \A i \in 1 .. Len(s) : Append(s, x)[i] = s[i]
      /\ Append(s, x)[Len(s) + 1] = x
  OBVIOUS
<1>2. 1 .. Len(s) + 1 = 1 .. Len(s) \cup {Len(s) + 1}
  BY <1>1
<1>3. P!Elements(Append(s, x)) \subseteq P!Elements(s) \cup {x}
  BY <1>1, <1>2 DEF P!Elements
<1>4. P!Elements(s) \cup {x} \subseteq P!Elements(Append(s, x))
  BY <1>1, <1>2 DEF P!Elements
<1>. QED  BY <1>1, <1>3, <1>4

LEMMA AppendedOnce ==
  ASSUME NEW T, NEW s \in Seq(T), NEW x \in T, x \notin P!Elements(s), P!NoneTwice(s)
  PROVE  P!NoneTwice(Append(s, x))
<1>1. /\ DOMAIN s = 1 .. Len(s) /\ DOMAIN Append(s, x) = 1 .. Len(s) + 1 /\ Len(s) \in Nat
      /\ \A i \in 1 .. Len(s) : Append(s, x)[i] = s[i]
      /\ Append(s, x)[Len(s) + 1] = x
  OBVIOUS
<1>2. \A i \in 1 .. Len(s) + 1 : i \in 1 .. Len(s) \/ i = Len(s) + 1
  BY <1>1
<1>3. \A i \in 1 .. Len(s) : s[i] # x
  BY <1>1 DEF P!Elements
<1>. QED  BY <1>1, <1>2, <1>3 DEF P!NoneTwice

\* Normalisation keeps an event an event and its hash, and leaves no blank format.
LEMMA Normalised ==
  ASSUME NEW e \in P!Event
  PROVE  /\ P!normalizeEventFormatFields(e) \in P!Event
         /\ P!normalizeEventFormatFields(e).hash = e.hash
         /\ P!normalizeEventFormatFields(e).delivery # "blank"
<1>. DEFINE n == P!normalizeEventFormatFields(e)
<1>1. e.format # "blank" /\ e.format \in P!Format \cup {"none"}
  BY DEF P!Event, P!Format
<1>2. CASE e.delivery = "none"
  <2>1. n = [e EXCEPT !.delivery = e.format]
    BY <1>2 DEF P!normalizeEventFormatFields
  <2>. QED  BY <1>1, <2>1 DEF P!Event, P!Format
<1>3. CASE e.delivery = "blank"
  <2>1. n = [e EXCEPT !.delivery = "none"]
    BY <1>3 DEF P!normalizeEventFormatFields
  <2>. QED  BY <2>1 DEF P!Event, P!Format
<1>4. CASE e.delivery # "none" /\ e.delivery # "blank"
  <2>1. n = e
    BY <1>4 DEF P!normalizeEventFormatFields
  <2>. QED  BY <1>4, <2>1
<1>. QED  BY <1>2, <1>3, <1>4

\* A profile that validates, and lists the signature of each of its crashes once.
Signed(p) == P!Elements(p.crash_signatures)
               = { e.hash : e \in P!Elements(p.events) } \ {"none"}
OnceEach(p) == P!NoneTwice(p.crash_signatures)
Deliverable(p) == \A e \in P!Elements(p.events) : e.delivery # "blank"
Exact(p) ==
  /\ p \in P!Profile /\ P!isValidHarnessProfile(p)
  /\ Signed(p) /\ OnceEach(p) /\ Deliverable(p)

LEMMA DefaultIsExact == Exact(P!buildDefaultProfile) /\ Exact(P!Permissive)
<1>1. ASSUME NEW p, NEW rec \in P!Recommendation,
             p = [samples_total |-> 0, events |-> << >>, crash_signatures |-> << >>,
                  recommended |-> rec]
      PROVE  Exact(p)
  <2>1. << >> \in Seq(P!Event) /\ << >> \in Seq(P!Hash)
    OBVIOUS
  <2>2. p \in P!Profile
    BY <1>1, <2>1 DEF P!Profile
  <2>3. P!Elements(p.events) = {} /\ P!Elements(p.crash_signatures) = {}
    BY <1>1 DEF P!Elements
  <2>4. OnceEach(p)
    BY <1>1 DEF OnceEach, P!NoneTwice
  <2>. QED  BY <1>1, <2>2, <2>3, <2>4 DEF Exact, Signed, Deliverable, P!isValidHarnessProfile
<1>2. P!NoData \in P!Recommendation
  BY DEF P!NoData, P!Recommendation, P!Bundling
<1>3. [bucket |-> "wide", wait |-> 0, bundling |-> "allowed", phases |-> "allowed"]
        \in P!Recommendation
  BY DEF P!Recommendation, P!Bundling
<1>4. Exact(P!buildDefaultProfile)
  BY <1>1, <1>2 DEF P!buildDefaultProfile
<1>5. Exact(P!Permissive)
  BY <1>1, <1>3 DEF P!Permissive
<1>. QED  BY <1>4, <1>5

\* An append keeps a profile exact.
LEMMA NextIsExact ==
  ASSUME NEW p, Exact(p), NEW e \in P!Event,
         P!isValidHarnessProfile(P!NextProfile(p, e))
  PROVE  /\ Exact(P!NextProfile(p, e))
         /\ P!Elements(P!NextProfile(p, e).events)
              = P!Elements(p.events) \cup {P!normalizeEventFormatFields(e)}
<1>. DEFINE n == P!normalizeEventFormatFields(e)
            q == P!NextProfile(p, e)
<1>1. /\ p.events \in Seq(P!Event) /\ p.crash_signatures \in Seq(P!Hash)
      /\ p.recommended \in P!Recommendation
  BY DEF Exact, P!Profile
<1>2. /\ q.samples_total = Len(p.events) + 1 /\ q.events = Append(p.events, n)
      /\ q.crash_signatures = P!WithSignature(p.crash_signatures, e.hash)
      /\ q.recommended = p.recommended
      /\ q = [samples_total |-> q.samples_total, events |-> q.events,
              crash_signatures |-> q.crash_signatures, recommended |-> q.recommended]
  BY DEF P!NextProfile
<1>3. n \in P!Event /\ n.hash = e.hash /\ n.delivery # "blank"
  BY Normalised
<1>4. q.events \in Seq(P!Event) /\ P!Elements(q.events) = P!Elements(p.events) \cup {n}
  BY <1>1, <1>2, <1>3, Appended
<1>5. e.hash \in P!Hash \cup {"none"} /\ "none" \notin P!Hash
  BY DEF P!Event, P!Hash
<1>6. /\ q.crash_signatures \in Seq(P!Hash) /\ OnceEach(q)
      /\ P!Elements(q.crash_signatures)
           = P!Elements(p.crash_signatures) \cup ({e.hash} \ {"none"})
  <2>1. P!NoneTwice(p.crash_signatures)
    BY DEF Exact, OnceEach
  <2>2. CASE e.hash = "none" \/ e.hash \in P!Elements(p.crash_signatures)
    <3>1. q.crash_signatures = p.crash_signatures
      BY <1>2, <2>2 DEF P!WithSignature
    <3>. QED  BY <1>1, <2>1, <2>2, <3>1 DEF OnceEach
  <2>3. CASE e.hash # "none" /\ e.hash \notin P!Elements(p.crash_signatures)
    <3>1. q.crash_signatures = Append(p.crash_signatures, e.hash)
      BY <1>2, <2>3 DEF P!WithSignature
    <3>2. /\ q.crash_signatures \in Seq(P!Hash)
          /\ P!Elements(q.crash_signatures) = P!Elements(p.crash_signatures) \cup {e.hash}
      BY <1>1, <1>5, <2>3, <3>1, Appended
    <3>3. P!NoneTwice(q.crash_signatures)
      BY <1>1, <1>5, <2>1, <2>3, <3>1, AppendedOnce
    <3>4. {e.hash} \ {"none"} = {e.hash}
      BY <2>3
    <3>. QED  BY <3>2, <3>3, <3>4 DEF OnceEach
  <2>. QED  BY <2>2, <2>3
<1>7. q \in P!Profile
  <2>1. q.samples_total \in Nat
    BY <1>1, <1>2
  <2>. QED  BY <1>1, <1>2, <1>4, <1>6, <2>1 DEF P!Profile
<1>8. Signed(q)
  <2>1. { d.hash : d \in P!Elements(q.events) }
          = { d.hash : d \in P!Elements(p.events) } \cup {e.hash}
    BY <1>3, <1>4
  <2>. QED  BY <1>6, <2>1 DEF Exact, Signed
<1>9. Deliverable(q)
  BY <1>3, <1>4 DEF Exact, Deliverable
<1>. QED  BY <1>4, <1>6, <1>7, <1>8, <1>9 DEF Exact

-----------------------------------------------------------------------------
(* Harness pacing: the inductive invariant *)

PacingTypes ==
  /\ left \subseteq PacingEvents /\ acked \subseteq PacingEvents
  /\ raced \subseteq PacingEvents
  /\ pacingPc \in [Writer -> {"idle", "read", "open"}]
  /\ event \in [Writer -> PacingEvents \cup {P!NoEvent}]
  /\ DOMAIN next = Writer

\* A profile holds every event that was written and that no other append overlapped.
Keeps(p) == \A e \in acked \ raced :
              P!normalizeEventFormatFields(e) \in P!Elements(p.events)

\* What a writer is about to write holds them too, and the event it came with; and unless
\* that one counts as raced, no other writer is at work.
WriterInv(w) ==
  /\ event[w] \in PacingEvents
  /\ P!normalizeEventFormatFields(event[w]) \in P!Elements(next[w].events)
  /\ Keeps(next[w])
  /\ event[w] \notin raced => \A v \in P!Active : v = w

\* A file that is there parses or does not: when it parses, it is exact; there is none
\* only while nothing was written, and never while somebody has it open.
FileInv ==
  /\ P!Whole(file) => Exact(file) /\ Keeps(file)
  /\ file = Absent => acked = {} /\ \A w \in Writer : pacingPc[w] # "open"

PacingInv ==
  /\ PacingTypes /\ FileInv
  /\ \A w \in Writer : Exact(next[w])
  /\ \A w \in P!Active : WriterInv(w)

LEMMA PacingInit == P!Init => PacingInv
<1>. SUFFICES ASSUME P!Init PROVE PacingInv
  OBVIOUS
<1>1. PacingTypes /\ P!Active = {}
  BY DEF P!Init, PacingTypes, P!Active
<1>2. FileInv
  BY DefaultIsExact DEF P!Init, FileInv, P!Whole, Keeps
<1>3. \A w \in Writer : Exact(next[w])
  BY DefaultIsExact DEF P!Init
<1>. QED  BY <1>1, <1>2, <1>3 DEF PacingInv

\* An append that is not worth one ends at once.
LEMMA IgnoreStep ==
  ASSUME PacingInv, NEW e \in PacingEvents, P!Ignore(e)
  PROVE  PacingInv'
<1>1. left' \subseteq left /\ UNCHANGED <<file, seed, pacingPc, event, next, acked, raced>>
  BY DEF P!Ignore
<1>. QED  BY <1>1 DEF PacingInv, PacingTypes, FileInv, WriterInv, Keeps, P!Active, P!Whole

\* A writer reads the profile and takes its event.
LEMMA ReadsProfile ==
  ASSUME PacingInv, NEW w \in Writer, NEW e \in PacingEvents, P!Read(w, e),
         NEW p \in P!Existing, P!isValidHarnessProfile(P!NextProfile(p, e)),
         next' = [next EXCEPT ![w] = P!NextProfile(p, e)]
  PROVE  PacingInv'
<1>1. /\ pacingPc[w] = "idle" /\ left' \subseteq left
      /\ pacingPc' = [pacingPc EXCEPT ![w] = "read"]
      /\ event' = [event EXCEPT ![w] = e]
      /\ raced' = (IF P!Active = {} THEN raced
                   ELSE raced \cup {e} \cup { event[v] : v \in P!Active })
      /\ UNCHANGED <<file, acked>>
  BY DEF P!Read
<1>2. Exact(p) /\ Keeps(p)
  <2>1. CASE file = Absent
    <3>1. p = P!buildDefaultProfile /\ acked = {}
      BY <2>1 DEF P!Existing, PacingInv, FileInv
    <3>. QED  BY <3>1, DefaultIsExact DEF Keeps
  <2>2. CASE file # Absent
    BY <2>2 DEF P!Existing, P!Readable, PacingInv, FileInv
  <2>. QED  BY <2>1, <2>2
<1>3. /\ Exact(P!NextProfile(p, e))
      /\ P!Elements(P!NextProfile(p, e).events)
           = P!Elements(p.events) \cup {P!normalizeEventFormatFields(e)}
  BY <1>2, NextIsExact, Pacing
<1>4. /\ raced \subseteq raced'
      /\ \A v \in P!Active : event[v] \in raced'
      /\ P!Active = {} \/ e \in raced'
  BY <1>1
<1>5. /\ P!Active' = P!Active \cup {w} /\ w \notin P!Active
      /\ \A v \in Writer : v # w => next'[v] = next[v] /\ event'[v] = event[v]
      /\ next'[w] = P!NextProfile(p, e) /\ event'[w] = e
  BY <1>1 DEF PacingInv, PacingTypes, P!Active
<1>6. PacingTypes'
  <2>1. raced' \subseteq PacingEvents
    BY <1>1 DEF PacingInv, PacingTypes, WriterInv
  <2>. QED  BY <1>1, <2>1 DEF PacingInv, PacingTypes
<1>7. FileInv'
  BY <1>1, <1>4 DEF PacingInv, PacingTypes, FileInv, Keeps, P!Whole
<1>8. \A v \in Writer : Exact(next'[v])
  BY <1>3, <1>5 DEF PacingInv
<1>9. ASSUME NEW v \in P!Active'
       PROVE  /\ event'[v] \in PacingEvents
              /\ P!normalizeEventFormatFields(event'[v]) \in P!Elements(next'[v].events)
              /\ \A d \in acked' \ raced' :
                   P!normalizeEventFormatFields(d) \in P!Elements(next'[v].events)
              /\ event'[v] \notin raced' => \A u \in P!Active' : u = v
  <2>1. CASE v = w
    BY <1>1, <1>2, <1>3, <1>4, <1>5, <2>1 DEF Keeps
  <2>2. CASE v # w
    <3>1. v \in P!Active /\ v \in Writer
      BY <1>5, <2>2 DEF P!Active
    <3>. QED  BY <1>1, <1>4, <1>5, <2>2, <3>1 DEF PacingInv, WriterInv, Keeps
  <2>. QED  BY <2>1, <2>2
<1>. QED  BY <1>6, <1>7, <1>8, <1>9 DEF PacingInv, WriterInv, Keeps

LEMMA AppendReads ==
  ASSUME PacingInv, NEW w \in Writer, NEW e \in PacingEvents, P!Read(w, e)
  PROVE  PacingInv'
BY ReadsProfile DEF P!Read

\* A writer truncates the file.
LEMMA OpenStep ==
  ASSUME PacingInv, NEW w \in Writer, P!Open(w)
  PROVE  PacingInv'
<1>1. /\ pacingPc[w] = "read" /\ file' = Empty
      /\ pacingPc' = [pacingPc EXCEPT ![w] = "open"]
      /\ UNCHANGED <<seed, left, event, next, acked, raced>>
  BY DEF P!Open
<1>2. P!Active' = P!Active
  BY <1>1 DEF PacingInv, PacingTypes, P!Active
<1>3. PacingTypes'
  BY <1>1 DEF PacingInv, PacingTypes
<1>4. FileInv'
  BY <1>1, Pacing DEF FileInv, P!Whole
<1>. QED  BY <1>1, <1>2, <1>3, <1>4 DEF PacingInv, WriterInv, Keeps

\* What is common to the ends of an append.
LEMMA Finished ==
  ASSUME PacingInv, NEW w \in Writer, pacingPc[w] # "idle", P!Finish(w)
  PROVE  /\ P!Active' = P!Active \ {w}
         /\ pacingPc' \in [Writer -> {"idle", "read", "open"}]
         /\ \A v \in Writer : pacingPc'[v] = "open" => pacingPc[v] = "open"
         /\ event' \in [Writer -> PacingEvents \cup {P!NoEvent}]
         /\ DOMAIN next' = Writer /\ \A v \in Writer : Exact(next'[v])
         /\ \A v \in P!Active' : next'[v] = next[v] /\ event'[v] = event[v] /\ v \in P!Active
<1>1. /\ pacingPc' = [pacingPc EXCEPT ![w] = "idle"]
      /\ event' = [event EXCEPT ![w] = P!NoEvent]
      /\ next' = [next EXCEPT ![w] = P!buildDefaultProfile]
  BY DEF P!Finish
<1>2. P!Active' = P!Active \ {w}
  BY <1>1 DEF PacingInv, PacingTypes, P!Active
<1>. QED  BY <1>1, <1>2, DefaultIsExact DEF PacingInv, PacingTypes, P!Active

\* A writer has written, perhaps over what another has put there since.
LEMMA WriteStep ==
  ASSUME PacingInv, NEW w \in Writer, P!Write(w)
  PROVE  PacingInv'
<1>1. /\ pacingPc[w] = "open" /\ file' \in P!Over(next[w])
      /\ acked' = acked \cup {event[w]} /\ P!Finish(w)
      /\ UNCHANGED <<seed, left, raced>>
  BY DEF P!Write
<1>2. w \in P!Active /\ WriterInv(w) /\ Exact(next[w])
  BY <1>1 DEF PacingInv, P!Active
<1>3. file' = next[w] \/ file' = Torn
  BY <1>1 DEF P!Over
<1>4. next[w] \in P!Profile
  BY <1>2 DEF Exact
<1>5. \/ acked' \ raced' = acked \ raced
      \/ P!Active' = {} /\ acked' \ raced' = (acked \ raced) \cup {event[w]}
  <2>1. CASE event[w] \in raced
    BY <1>1, <2>1
  <2>2. CASE event[w] \notin raced
    <3>1. \A v \in P!Active : v = w
      BY <1>2, <2>2 DEF WriterInv
    <3>2. P!Active' = {}
      BY <1>1, <3>1, Finished
    <3>. QED  BY <1>1, <2>2, <3>2
  <2>. QED  BY <2>1, <2>2
<1>6. \A d \in acked' \ raced' :
        P!normalizeEventFormatFields(d) \in P!Elements(next[w].events)
  BY <1>2, <1>5 DEF WriterInv, Keeps
<1>7. PacingTypes'
  BY <1>1, <1>2, Finished DEF PacingInv, PacingTypes, WriterInv
<1>8. FileInv'
  BY <1>2, <1>3, <1>4, <1>6, Pacing DEF FileInv, P!Whole, Keeps
<1>9. ASSUME NEW v \in P!Active'
      PROVE  /\ event'[v] \in PacingEvents
             /\ P!normalizeEventFormatFields(event'[v]) \in P!Elements(next'[v].events)
             /\ \A d \in acked' \ raced' :
                  P!normalizeEventFormatFields(d) \in P!Elements(next'[v].events)
             /\ event'[v] \notin raced' => \A u \in P!Active' : u = v
  <2>1. v \in P!Active /\ next'[v] = next[v] /\ event'[v] = event[v]
          /\ P!Active' \subseteq P!Active
    BY <1>1, Finished
  <2>2. acked' \ raced' = acked \ raced
    BY <1>5
  <2>. QED  BY <1>1, <2>1, <2>2 DEF PacingInv, WriterInv, Keeps
<1>. QED  BY <1>1, <1>7, <1>8, <1>9, Finished DEF PacingInv, WriterInv, Keeps

\* A writer dies; what it wrote of the file stays.
LEMMA BreaksStep ==
  ASSUME PacingInv, NEW w \in Writer, P!Breaks(w)
  PROVE  PacingInv'
<1>1. /\ pacingPc[w] # "idle"
      /\ file' = file \/ file' = Torn
      /\ P!Finish(w) /\ UNCHANGED <<seed, left, acked, raced>>
  BY DEF P!Breaks
<1>2. PacingTypes'
  BY <1>1, Finished DEF PacingInv, PacingTypes
<1>3. FileInv'
  BY <1>1, Finished, Pacing DEF PacingInv, FileInv, P!Whole, Keeps
<1>4. ASSUME NEW v \in P!Active'
      PROVE  /\ event'[v] \in PacingEvents
             /\ P!normalizeEventFormatFields(event'[v]) \in P!Elements(next'[v].events)
             /\ \A d \in acked' \ raced' :
                  P!normalizeEventFormatFields(d) \in P!Elements(next'[v].events)
             /\ event'[v] \notin raced' => \A u \in P!Active' : u = v
  <2>1. v \in P!Active /\ next'[v] = next[v] /\ event'[v] = event[v]
          /\ P!Active' \subseteq P!Active
    BY <1>1, Finished
  <2>. QED  BY <1>1, <2>1 DEF PacingInv, WriterInv, Keeps
<1>. QED  BY <1>1, <1>2, <1>3, <1>4, Finished DEF PacingInv, WriterInv, Keeps

\* An operator removes a profile that nobody can read.
LEMMA RemoveStep ==
  ASSUME PacingInv, P!OperatorRemoves
  PROVE  PacingInv'
<1>1. /\ P!Active = {} /\ file' = Absent /\ acked' = {}
      /\ UNCHANGED <<seed, left, pacingPc, event, next, raced>>
  BY DEF P!OperatorRemoves
<1>2. P!Active' = {} /\ \A w \in Writer : pacingPc'[w] # "open"
  BY <1>1 DEF P!Active
<1>3. PacingTypes'
  BY <1>1 DEF PacingInv, PacingTypes
<1>4. FileInv'
  BY <1>1, <1>2 DEF FileInv, P!Whole
<1>. QED  BY <1>1, <1>2, <1>3, <1>4 DEF PacingInv

LEMMA PacingStep == PacingInv /\ [P!Next]_(P!vars) => PacingInv'
<1>. SUFFICES ASSUME PacingInv, [P!Next]_(P!vars) PROVE PacingInv'
  OBVIOUS
<1>1. CASE \E e \in PacingEvents : P!Ignore(e)
  BY <1>1, IgnoreStep
<1>2. CASE \E w \in Writer, e \in PacingEvents : P!Read(w, e)
  BY <1>2, AppendReads
<1>3. CASE \E w \in Writer : P!Open(w) \/ P!Write(w) \/ P!Breaks(w)
  BY <1>3, OpenStep, WriteStep, BreaksStep
<1>4. CASE P!OperatorRemoves
  BY <1>4, RemoveStep
<1>5. CASE UNCHANGED P!vars
  BY <1>5 DEF P!vars, PacingInv, PacingTypes, FileInv, WriterInv, Keeps, P!Active, P!Whole
<1>. QED  BY <1>1, <1>2, <1>3, <1>4, <1>5 DEF P!Next

LEMMA PacingAlways == P!Spec => []PacingInv
BY PacingInit, PacingStep, PTL DEF P!Spec

\* A recommendation from a profile or a seed with a crash is the careful one.
LEMMA Heeded ==
  ASSUME PacingInv
  PROVE  P!CrashesAreRespected
<1>. SUFFICES ASSUME seed = "crash" \/ P!CrashesOf(file) > 0
              PROVE  P!isConservativeRecommendation(P!recommend(file, seed))
  BY DEF P!CrashesAreRespected
<1>1. ASSUME NEW rec \in P!Recommendation, NEW n \in Nat, n # 0
      PROVE  P!isConservativeRecommendation(P!applyCrashOverride(rec, n))
  <2>1. /\ P!applyCrashOverride(rec, n).bucket = "0-100-words"
        /\ P!applyCrashOverride(rec, n).bundling = "avoid"
        /\ P!applyCrashOverride(rec, n).wait = (IF rec.wait < 5 THEN 5 ELSE rec.wait)
    BY <1>1 DEF P!applyCrashOverride
  <2>2. rec.wait \in Nat
    BY DEF P!Recommendation
  <2>. QED  BY <2>1, <2>2 DEF P!isConservativeRecommendation
<1>2. P!CrashesOf(file) \in Nat
  <2>1. P!Readable(file) => file.crash_signatures \in Seq(P!Hash)
    BY DEF P!Readable, PacingInv, FileInv, Exact, P!Profile
  <2>. QED  BY <2>1 DEF P!CrashesOf
<1>3. P!CrashCount(file, seed) \in Nat /\ P!CrashCount(file, seed) # 0
  BY <1>2 DEF P!CrashCount, P!loadSeed
<1>4. CASE P!Readable(file)
  <2>1. file.recommended \in P!Recommendation
    BY <1>4 DEF P!Readable, P!isValidHarnessProfile
  <2>. QED  BY <1>1, <1>3, <1>4, <2>1 DEF P!recommend
<1>5. CASE ~P!Readable(file)
  <2>1. P!loadSeed(seed)
    BY <1>5 DEF P!CrashesOf, P!loadSeed
  <2>2. P!Crashed \in P!Recommendation
    BY DEF P!Crashed, P!Recommendation, P!Bundling
  <2>. QED  BY <1>1, <1>3, <1>5, <2>1, <2>2 DEF P!recommend
<1>. QED  BY <1>4, <1>5

\* Whatever appends overlap or die on the profile, which nothing locks: one that parses is
\* exact, an appended event is lost only to an append that overlapped it, and a crash that
\* the profile or the seed knows is heeded (storage.ts appendEvent, recommend.ts).
THEOREM ProfilesAreSound == P!Spec => []ProfileIsSound
<1>1. PacingInv => P!WholeProfileIsExact
  <2>1. Exact(file) => /\ P!isValidHarnessProfile(file)
                       /\ P!Elements(file.crash_signatures)
                            = { e.hash : e \in P!Elements(file.events) } \ {"none"}
                       /\ P!NoneTwice(file.crash_signatures)
                       /\ \A e \in P!Elements(file.events) : e.delivery # "blank"
    BY DEF Exact, Signed, OnceEach, Deliverable
  <2>2. PacingInv /\ P!Whole(file) => Exact(file)
    BY DEF PacingInv, FileInv
  <2>. QED  BY <2>1, <2>2 DEF P!WholeProfileIsExact
<1>2. PacingInv => P!LostOnlyToRacers
  BY DEF PacingInv, FileInv, Keeps, P!LostOnlyToRacers, P!Readable
<1>3. PacingInv => ProfileIsSound
  BY <1>1, <1>2, Heeded DEF ProfileIsSound, P!ProfileIsSound
<1>. QED  BY <1>3, PacingAlways, PTL

\* A profile grows by the events that were taken, one at a time.
Used == PacingEvents \ left
Counted(p) == Len(p.events) <= Cardinality(Used)
CountInv ==
  /\ \A w \in Writer : Counted(next[w])
  /\ P!Whole(file) => Counted(file)

LEMMA EventsAreFinite ==
  IsFiniteSet(PacingEvents) /\ P!Cardinality(PacingEvents) = Cardinality(PacingEvents)
<1>1. IsFiniteSet(PacingEvents)
  BY SideAssumption DEF P!PacingAssumption, P!IsFiniteSet, IsFiniteSet
<1>2. P!Cardinality(PacingEvents) = Cardinality(PacingEvents)
  BY DEF P!Cardinality, Cardinality
<1>. QED  BY <1>1, <1>2

LEMMA UsedIsFinite == IsFiniteSet(Used) /\ Cardinality(Used) \in Nat
BY EventsAreFinite, FS_Difference, FS_CardinalityType DEF Used

LEMMA UsedGrows ==
  ASSUME left' \subseteq left, left \subseteq PacingEvents
  PROVE  Cardinality(Used) <= Cardinality(Used')
<1>1. Used \in SUBSET (PacingEvents \ left')
  BY DEF Used
<1>2. IsFiniteSet(PacingEvents \ left')
  BY EventsAreFinite, FS_Difference
<1>. QED  BY <1>1, <1>2, FS_Subset DEF Used

LEMMA EmptyIsCounted == Counted(P!buildDefaultProfile) /\ Counted(P!Permissive)
<1>1. Len(<< >>) = 0
  OBVIOUS
<1>. QED  BY <1>1, UsedIsFinite DEF Counted, P!buildDefaultProfile, P!Permissive

LEMMA ReadCounts ==
  ASSUME PacingInv, CountInv, NEW w \in Writer, NEW e \in PacingEvents, P!Read(w, e)
  PROVE  CountInv'
<1>1. PICK p \in P!Existing : next' = [next EXCEPT ![w] = P!NextProfile(p, e)]
  BY DEF P!Read
<1>2. /\ e \in left /\ left' = left \ {e} /\ file' = file
      /\ DOMAIN next = Writer /\ left \subseteq PacingEvents
  BY DEF P!Read, PacingInv, PacingTypes
<1>3. Used' = Used \cup {e} /\ e \notin Used
  BY <1>2 DEF Used
<1>4. Cardinality(Used') = Cardinality(Used) + 1
  BY <1>3, UsedIsFinite, FS_AddElement
<1>5. Exact(p) /\ Counted(p)
  <2>1. CASE file = Absent
    BY <2>1, DefaultIsExact, EmptyIsCounted DEF P!Existing
  <2>2. CASE file # Absent
    BY <2>2 DEF P!Existing, P!Readable, PacingInv, FileInv, CountInv
  <2>. QED  BY <2>1, <2>2
<1>6. p.events \in Seq(P!Event)
  BY <1>5 DEF Exact, P!Profile
<1>7. Len(P!NextProfile(p, e).events) = Len(p.events) + 1 /\ Len(p.events) \in Nat
  <2>1. P!normalizeEventFormatFields(e) \in P!Event
    BY Pacing, Normalised
  <2>. QED  BY <1>6, <2>1, Appended DEF P!NextProfile
<1>8. ASSUME NEW v \in Writer
      PROVE  Len(next'[v].events) <= Cardinality(Used')
  <2>1. CASE v = w
    BY <1>1, <1>2, <1>4, <1>5, <1>7, <2>1, UsedIsFinite DEF Counted
  <2>2. CASE v # w
    <3>1. next'[v] = next[v] /\ Len(next[v].events) <= Cardinality(Used)
      BY <1>1, <1>2, <2>2 DEF CountInv, Counted
    <3>2. next[v].events \in Seq(P!Event)
      BY DEF PacingInv, Exact, P!Profile
    <3>. QED  BY <1>4, <3>1, <3>2, UsedIsFinite
  <2>. QED  BY <2>1, <2>2
<1>9. P!Whole(file) => Len(file.events) <= Cardinality(Used')
  <2>1. P!Whole(file) => file.events \in Seq(P!Event)
    BY DEF PacingInv, FileInv, Exact, P!Profile
  <2>. QED  BY <1>4, <2>1, UsedIsFinite DEF CountInv, Counted
<1>. QED  BY <1>2, <1>8, <1>9 DEF CountInv, Counted, P!Whole

\* No other step writes more than it has at hand.
LEMMA OtherCounts ==
  ASSUME PacingInv, CountInv, left' \subseteq left,
         \A w \in Writer : next'[w] \in {next[w], P!buildDefaultProfile},
         P!Whole(file') => file' = file \/ \E w \in Writer : file' = next[w]
  PROVE  CountInv'
<1>1. Cardinality(Used) <= Cardinality(Used') /\ Cardinality(Used') \in Nat
  <2>1. left \subseteq PacingEvents /\ IsFiniteSet(PacingEvents \ left')
    BY EventsAreFinite, FS_Difference DEF PacingInv, PacingTypes
  <2>. QED  BY <2>1, UsedGrows, FS_CardinalityType DEF Used
<1>2. ASSUME NEW p, Exact(p), Counted(p)
      PROVE  Len(p.events) <= Cardinality(Used')
  <2>1. p.events \in Seq(P!Event)
    BY <1>2 DEF Exact, P!Profile
  <2>. QED  BY <1>1, <1>2, <2>1, UsedIsFinite DEF Counted
<1>3. \A w \in Writer : Len(next'[w].events) <= Cardinality(Used')
  BY <1>2, DefaultIsExact, EmptyIsCounted DEF PacingInv, CountInv
<1>4. P!Whole(file') => Len(file'.events) <= Cardinality(Used')
  <2>1. P!Whole(file) /\ file' = file => Exact(file) /\ Counted(file)
    BY DEF PacingInv, FileInv, CountInv
  <2>2. \A w \in Writer : Exact(next[w]) /\ Counted(next[w])
    BY DEF PacingInv, CountInv
  <2>. QED  BY <1>2, <2>1, <2>2
<1>. QED  BY <1>3, <1>4 DEF CountInv, Counted, P!Whole

LEMMA CountStep ==
  ASSUME PacingInv, CountInv, [P!Next]_(P!vars)
  PROVE  CountInv'
<1>1. CASE \E w \in Writer, e \in PacingEvents : P!Read(w, e)
  BY <1>1, ReadCounts
<1>2. CASE \/ \E e \in PacingEvents : P!Ignore(e)
           \/ \E w \in Writer : P!Open(w)
           \/ P!OperatorRemoves \/ UNCHANGED P!vars
  <2>1. /\ left' \subseteq left /\ UNCHANGED next
        /\ file' \in {file, Empty, Absent}
    BY <1>2 DEF P!Ignore, P!Open, P!OperatorRemoves, P!vars
  <2>2. P!Whole(file') => file' = file
    BY <2>1 DEF P!Whole
  <2>. QED  BY <2>1, <2>2, OtherCounts
<1>3. ASSUME NEW w \in Writer, P!Write(w) \/ P!Breaks(w)
      PROVE  CountInv'
  <2>1. /\ left' = left /\ next' = [next EXCEPT ![w] = P!buildDefaultProfile]
        /\ file' \in {file, next[w], Torn}
    BY <1>3 DEF P!Write, P!Breaks, P!Finish, P!Over
  <2>2. \A v \in Writer : next'[v] \in {next[v], P!buildDefaultProfile}
    BY <2>1 DEF PacingInv, PacingTypes
  <2>3. P!Whole(file') => file' = file \/ file' = next[w]
    BY <2>1 DEF P!Whole
  <2>. QED  BY <2>1, <2>2, <2>3, OtherCounts
<1>. QED  BY <1>1, <1>2, <1>3 DEF P!Next

\* What writers hold is always valid, and a profile never has more events than were
\* offered (storage.ts appendEvent, isValidHarnessProfile).
THEOREM PacingTypeCorrect == P!Spec => []P!TypeOK
<1>1. P!Init => CountInv /\ seed \in P!SeedKind
  BY EmptyIsCounted DEF P!Init, CountInv, P!Whole
<1>2. seed \in P!SeedKind /\ [P!Next]_(P!vars) => (seed \in P!SeedKind)'
  BY DEF P!Next, P!vars, P!Ignore, P!Read, P!Open, P!Write, P!Breaks, P!OperatorRemoves
<1>3. PacingInv /\ CountInv /\ seed \in P!SeedKind => P!TypeOK
  <2>. SUFFICES ASSUME PacingInv, CountInv, seed \in P!SeedKind PROVE P!TypeOK
    OBVIOUS
  <2>1. P!Whole(file) => Len(file.events) <= Cardinality(PacingEvents)
    <3>1. Cardinality(Used) <= Cardinality(PacingEvents) /\ Cardinality(PacingEvents) \in Nat
      BY EventsAreFinite, FS_Subset, FS_CardinalityType DEF Used
    <3>2. P!Whole(file) => file.events \in Seq(P!Event)
      BY DEF PacingInv, FileInv, Exact, P!Profile
    <3>. QED  BY <3>1, <3>2, UsedIsFinite DEF CountInv, Counted
  <2>2. \A w \in Writer : P!isValidHarnessProfile(next[w])
    BY DEF PacingInv, Exact
  <2>. QED  BY <2>1, <2>2, EventsAreFinite DEF PacingInv, PacingTypes, P!TypeOK
<1>. QED  BY <1>1, <1>2, <1>3, CountStep, PacingAlways, PTL DEF P!Spec

-----------------------------------------------------------------------------
(* The run of all four *)

\* Each tool beside the others behaves as by itself, so that what is proved of a tool holds
\* of the run in which TLC checks it (src/telemetry, odin-say, odin-watch, harness-pacing:
\* they share no state).
THEOREM ToolsRunApart == SideSpec => Spec /\ W!Spec /\ P!Spec /\ S!Spec
<1>1. SideInit => Init /\ W!Init /\ P!Init /\ S!Init
  BY DEF SideInit
<1>2. [SideNext]_sideVars =>
        [Next]_vars /\ [W!Next]_(W!vars) /\ [P!Next]_(P!vars) /\ [S!Next]_(S!sayVars)
  <2>1. UNCHANGED watchVars => UNCHANGED W!vars
    BY DEF watchVars, W!vars, W!clocks, W!memory, W!files, W!history
  <2>2. UNCHANGED pacingVars => UNCHANGED P!vars
    BY DEF pacingVars, P!vars
  <2>3. UNCHANGED sayingVars => UNCHANGED S!sayVars
    BY DEF sayingVars, S!sayVars
  <2>4. UNCHANGED sideVars => UNCHANGED <<vars, watchVars, pacingVars, sayingVars>>
    BY DEF sideVars
  <2>. QED  BY <2>1, <2>2, <2>3, <2>4 DEF SideNext
<1>. QED  BY <1>1, <1>2, PTL DEF SideSpec, Spec, W!Spec, P!Spec, S!Spec
=============================================================================
