------------------------------ MODULE Assignment ------------------------------
(***************************************************************************)
(* Work handed to a seat: the delegation packet, the message and the proof *)
(* that it was delivered (src/protocol/service.ts), the seat's boot        *)
(* receipt, and the full-instruction-read proof that the precheck hook     *)
(* verifies on disk (scripts/protocol/verify-instruction-read.mjs,         *)
(* install-activation-hooks.mjs).  What a text says is abstracted to       *)
(* whether it satisfies the rule it is checked against.                    *)
(***************************************************************************)
EXTENDS Integers, FiniteSets

CONSTANTS
  Files,           \* instruction files a seat may be told to read
  Versions,        \* contents of a file: records with a size
  Packets,         \* delegation packets that are submitted
  Receipts,        \* boot receipts that are submitted
  Events,          \* registry events that artifacts may refer to
  MaxEdits,        \* bound: edits to the instruction files
  NoProof,
  NoRecord,
  Gone             \* the content of a file that does not exist

VARIABLES
  disk,            \* file -> its content
  read,            \* the seat's instruction-read proof: file -> entry
  hook,            \* the precheck: "idle", "read" (files verified) or "passed"
  terminal,        \* events the registry holds as TERMINAL
  packet,          \* the delegation packet that was accepted
  receipt,         \* the boot receipt that was accepted
  text,            \* the message on the seat's surface
  prompt,          \* what else the seat's surface shows
  seen,            \* the state the sender read off the surface
  record,          \* the delivery record the sender wrote
  verdict,         \* the delivery verdict on that record
  edits            \* counts towards MaxEdits

assignmentVars == <<disk, read, hook, terminal, packet, receipt, text, prompt, seen,
                    record, verdict, edits>>
readingVars == <<disk, read, hook, edits>>
messageVars == <<text, prompt, seen, record, verdict>>
paperVars == <<terminal, packet, receipt>>

-----------------------------------------------------------------------------
(* Registry authority, which every validator asks first.                    *)
ByRegistry(ref) == ref # "none"
Resolves(ref) == ref \in terminal

-----------------------------------------------------------------------------
(* Delivery proofs *)
CMUX_DELIVERY_STATES ==
  {"DELIVERED_ACKED", "DELIVERED_NO_ACK", "INPUT_BAR_ONLY",
   "PANE_BLOCKED_ON_PERMISSION", "PANE_STILL_THINKING", "SEAT_CAPPED"}
CMUX_SEND_REFUSAL_STATES ==
  CMUX_DELIVERY_STATES \ {"DELIVERED_ACKED", "DELIVERED_NO_ACK"}
\* complete: every text that is due is given; multiline: newlines are sent
\* to a harness that submits on each.
Record == [kind : {"delivery", "send_refusal", "other"}, dry : BOOLEAN,
           complete : BOOLEAN, submitted : BOOLEAN, state : CMUX_DELIVERY_STATES,
           multiline : BOOLEAN, ref : {"none"} \cup Events]

DeliveryRecordValid(r) ==
  /\ r.kind = "delivery" /\ r.complete
  /\ r.dry \/ r.submitted
  /\ r.state # "INPUT_BAR_ONLY"
  /\ ~r.multiline

validateCmuxSendRefusalProse(r) ==
  r.complete /\ ~r.submitted /\ r.state \in CMUX_SEND_REFUSAL_STATES

ProseValid(r) ==
  IF r.kind = "send_refusal" THEN validateCmuxSendRefusalProse(r)
  ELSE DeliveryRecordValid(r)

deliveryVerdictFor(r) ==
  CASE r.dry -> "not_proven"
    [] ~r.dry /\ r.state = "SEAT_CAPPED" -> "not_delivered"
    [] ~r.dry /\ r.state = "DELIVERED_ACKED" -> "delivered"
    [] OTHER -> "delivered_no_ack"

\* Bug: what the record would attest if it were valid.
AsClaimed(r) ==
  IF r.kind = "send_refusal" THEN "not_delivered" ELSE deliveryVerdictFor(r)
ProseVerdict(r) ==
  IF ~ProseValid(r) THEN "not_proven"
  ELSE IF r.kind = "send_refusal" THEN "not_delivered"
  ELSE deliveryVerdictFor(r)

DeliveryProofValid(r) ==
  IF ByRegistry(r.ref) THEN Resolves(r.ref) ELSE ProseValid(r)

\* A registry reference makes a record valid, and attests nothing by itself.
validateCmuxDeliveryProof(r) ==
  IF DeliveryProofValid(r) THEN ProseVerdict(r) ELSE "not_proven"

-----------------------------------------------------------------------------
(* Delegation packets and boot receipts *)
Delegation == [complete : BOOLEAN, may_implement : BOOLEAN, may_qa_accept : BOOLEAN,
           visible : BOOLEAN, proof_required : BOOLEAN, ref : {"none"} \cup Events]

getDelegationPacket(implement, qa) ==
  [complete |-> TRUE, may_implement |-> implement, may_qa_accept |-> qa,
   visible |-> TRUE, proof_required |-> TRUE, ref |-> "none"]

\* visible: the target is a role slot, required to be, without hidden agents.
validateDelegationPacket(p, proof) ==
  IF ByRegistry(p.ref) THEN Resolves(p.ref)
  ELSE /\ p.complete /\ p.visible /\ p.proof_required
       /\ ~(p.may_implement /\ p.may_qa_accept)
       /\ proof # NoRecord => DeliveryProofValid(proof)

\* audited: staffed_by, parent surface, column and team letter are as they must be.
Receipt == [complete : BOOLEAN, team : {"A", "B"}, audited : BOOLEAN,
            may_implement : BOOLEAN, may_qa_accept : BOOLEAN,
            current : BOOLEAN, ref : {"none"} \cup Events]

validateBootReceipt(b) ==
  IF ByRegistry(b.ref) THEN Resolves(b.ref)
  ELSE /\ b.complete /\ b.current
       /\ ~(b.may_implement /\ b.may_qa_accept)
       /\ b.team # "A" => b.audited

-----------------------------------------------------------------------------
(* Full-instruction-read proofs.  An entry has the recorded content, of     *)
(* which the digest is compared, or Gone for no digest, and the size.       *)
Entry(content) == [sha256 |-> content, bytes |-> content.size]
recordProof(fs) == [f \in fs |-> Entry(disk[f])]

validateInstructionReadProof(p) ==
  p # NoProof /\ DOMAIN p # {} /\ \A f \in DOMAIN p : p[f].sha256 # Gone

\* Bug: the byte counts are enough.
BySize(f, entry) == disk[f] # Gone /\ entry.bytes = disk[f].size
EntryVerifies(f, entry) ==
  /\ disk[f] # Gone
  /\ entry.sha256 = disk[f]
  /\ entry.bytes = disk[f].size
verifyProof(p) ==
  p # NoProof /\ DOMAIN p # {} /\ \A f \in DOMAIN p : EntryVerifies(f, p[f])

-----------------------------------------------------------------------------
AssignmentInit ==
  /\ disk \in [Files -> Versions]
  /\ read = NoProof
  /\ hook = "idle"
  /\ terminal = {}
  /\ packet = NoRecord
  /\ receipt = NoRecord
  /\ text = "none"
  /\ prompt = "idle"
  /\ seen = NoRecord
  /\ record = NoRecord
  /\ verdict = "none"
  /\ edits = 0

\* A file is edited, or removed.
Edit(f, content) ==
  /\ edits < MaxEdits /\ disk[f] # content
  /\ disk' = [disk EXCEPT ![f] = content]
  /\ edits' = edits + 1
  /\ UNCHANGED <<read, hook, paperVars, messageVars>>

\* The seat reads files in full and records the proof.
Read(fs) ==
  /\ hook # "passed" /\ \A f \in fs : disk[f] # Gone
  /\ read' = recordProof(fs)
  /\ hook' = "idle"
  /\ UNCHANGED <<disk, edits, paperVars, messageVars>>

\* Or it writes the proof itself, which the service looks at for its shape.
Claim(p) ==
  /\ hook # "passed" /\ validateInstructionReadProof(p)
  /\ read' = p
  /\ hook' = "idle"
  /\ UNCHANGED <<disk, edits, paperVars, messageVars>>

\* The hook: the files first, and then the governed-context proof, which
\* Readiness models and which is only asked for if it is given.
CheckRead ==
  /\ hook = "idle" /\ verifyProof(read)
  /\ hook' = "read"
  /\ UNCHANGED <<disk, read, edits, paperVars, messageVars>>

Pass ==
  /\ hook = "read"
  /\ hook' = "passed"
  /\ UNCHANGED <<disk, read, edits, paperVars, messageVars>>

Register(e) ==
  /\ e \notin terminal
  /\ terminal' = terminal \cup {e}
  /\ UNCHANGED <<packet, receipt, readingVars, messageVars>>

Delegate(p) ==
  /\ packet = NoRecord /\ validateDelegationPacket(p, NoRecord)
  /\ packet' = p
  /\ UNCHANGED <<terminal, receipt, readingVars, messageVars>>

Boot(b) ==
  /\ receipt = NoRecord /\ validateBootReceipt(b)
  /\ receipt' = b
  /\ UNCHANGED <<terminal, packet, readingVars, messageVars>>

-----------------------------------------------------------------------------
(* The surface.  The message is typed into the input bar, submitted and     *)
(* acknowledged; of several lines the harness takes the first as a whole    *)
(* prompt, so that the rest jams.  Meanwhile prompts come and go.           *)
Taken == {"taken", "acked"}

Surface(t, p) ==
  /\ text' = t /\ prompt' = p
  /\ UNCHANGED <<seen, record, verdict, readingVars, paperVars>>

Type == packet # NoRecord /\ text = "none" /\ prompt = "idle" /\ Surface("typed", prompt)
Submit(multiline) ==
  text = "typed" /\ Surface(IF multiline THEN "jammed" ELSE "taken", prompt)
Acknowledge == text = "taken" /\ prompt = "idle" /\ Surface("acked", prompt)
Prompt(p) == prompt # p /\ Surface(text, p)

\* What a reader of the surface can call what is there.
Observable ==
  { state \in CMUX_DELIVERY_STATES :
      \/ state = "PANE_BLOCKED_ON_PERMISSION" /\ prompt = "permission"
      \/ state = "PANE_STILL_THINKING" /\ prompt = "thinking"
      \/ state = "SEAT_CAPPED" /\ prompt = "capped" /\ text \in {"none", "typed"}
      \/ state = "INPUT_BAR_ONLY" /\ text = "typed"
      \/ state = "DELIVERED_NO_ACK" /\ text \in Taken \cup {"jammed"}
      \/ state = "DELIVERED_ACKED" /\ text \in {"acked", "jammed"} }

Look(state) ==
  /\ packet # NoRecord /\ state \in Observable
  /\ seen' = [state |-> state, submitted |-> text \notin {"none", "typed"},
              multiline |-> text = "jammed"]
  /\ record' = NoRecord /\ verdict' = "none"
  /\ UNCHANGED <<text, prompt, readingVars, paperVars>>

\* The record says what was seen, and is valid or not for other reasons.
Write(kind, dry, complete, ref) ==
  /\ seen # NoRecord /\ record = NoRecord
  /\ record' = [kind |-> kind, dry |-> dry, complete |-> complete,
                submitted |-> seen.submitted, state |-> seen.state,
                multiline |-> seen.multiline, ref |-> ref]
  /\ UNCHANGED <<text, prompt, seen, verdict, readingVars, paperVars>>

\* The record is validated, and attached to the packet if that stays valid.
Validate ==
  /\ record # NoRecord /\ verdict = "none"
  /\ verdict' = IF validateDelegationPacket(packet, record)
                THEN validateCmuxDeliveryProof(record) ELSE "not_proven"
  /\ UNCHANGED <<text, prompt, seen, record, readingVars, paperVars>>

MessageNext ==
  \/ Type \/ Acknowledge \/ Validate
  \/ \E multiline \in BOOLEAN : Submit(multiline)
  \/ \E p \in {"idle", "thinking", "permission", "capped"} : Prompt(p)
  \/ \E state \in CMUX_DELIVERY_STATES : Look(state)
  \/ \E kind \in {"delivery", "send_refusal", "other"}, dry, complete \in BOOLEAN,
        ref \in {"none"} \cup Events : Write(kind, dry, complete, ref)

ReadingNext ==
  \/ \E f \in Files, content \in Versions \cup {Gone} : Edit(f, content)
  \/ \E fs \in SUBSET Files :
       \/ Read(fs)
       \/ \E p \in [fs -> { Entry(content) : content \in Versions }
                          \cup { [sha256 |-> Gone, bytes |-> 0] }] : Claim(p)
  \/ CheckRead \/ Pass

PaperNext ==
  \/ \E e \in Events : Register(e)
  \/ \E p \in Packets : Delegate(p)
  \/ \E b \in Receipts : Boot(b)

AssignmentNext == MessageNext \/ ReadingNext \/ PaperNext
AssignmentSpec == AssignmentInit /\ [][AssignmentNext]_assignmentVars

-----------------------------------------------------------------------------
(* A sender that reports what it saw is told "delivered" only of a message  *)
(* that the seat has taken as a whole and acknowledged, and that it was not *)
(* delivered or nobody knows of one still unsent - whatever kind the record *)
(* claims, whatever it leaves out and whatever registry event it leans on   *)
(* ("a registry reference can make a record valid but never attests a       *)
(* delivery", validateCmuxDeliveryProof).                                   *)
DeliveryIsTrue ==
  /\ verdict = "delivered" => text = "acked"
  /\ verdict = "delivered_no_ack" => text \in Taken

(* The precheck lets a seat act only on files that were, when it looked,    *)
(* exactly what the seat read (verify-instruction-read.mjs).                *)
ActsOnWhatItRead ==
  [][hook = "idle" /\ hook' = "read" =>
       \A f \in DOMAIN read : disk[f] # Gone /\ disk[f] = read[f].sha256]_assignmentVars
=============================================================================
