# A TLA+ model of odin-sentinel

odin-sentinel is a protocol server, a command line and a set of helpers with
which several coding agents are run under one governance protocol.  Its core
logic is of two kinds: state that many processes share through the file system
(a cross-process lock, fenced slot leases, an append-only event registry with
compaction, the verdicts derived from it, wake files, profiles, a pane that
others type into), and gates, functions of a record that an agent submits, whose
answers the agents then act on.  This directory holds TLA+ modules of both, TLC
configurations that check them on small instances, and proofs, checked by TLAPS,
of what they promise for every instance.

Paths below are relative to the repository root.

## 1. Inventory

| Component | State it keeps | Operations | What is hard | What makes it correct |
|---|---|---|---|---|
| Registry lock, `src/protocol/event-registry/storage.ts` | a lock directory | acquire (fixed or backoff), release, sync and async | races on `mkdir`, deaths inside, deadlines | exclusion, no leak, earned refusals, bounded waits |
| Slot lease, `src/protocol/lease/store.ts` | one JSON record and one lock directory per slot, `slots.allow` | acquire, any-of acquire, renew, release; check, status, fence unlocked | read-modify-write over files, clocks that differ, crashes, retries, one slot lock at a time | one atomic fenced lease: exclusive, never early, tokens separate holders |
| Event registry, `storage.ts`, `types.ts` | `events.jsonl` per scope | append, read, query | torn writes, unlocked readers, crashes | reads are complete or refused, nothing acknowledged is lost |
| Compaction, `event-registry/compact.ts` | rewrites `events.jsonl` through `events.compact.tmp` | compact, dry run | appends meanwhile, crashes between file and rename | old lines become hashes, outcomes stay, each line accounted for once |
| Governance evaluators, `src/protocol/governance.ts` | none: everything derived from the registry | attempt ceiling, audit depth with break-glass, overhead budget, terminal guard, post-terminal refusal, finding closure, active findings, registry authority | derive and append are two steps; compaction removes what is derived from | ceilings and budgets, a block is earned and final, closed findings were driven, no deep audit without break-glass |
| Telemetry, `src/telemetry`, worker `telemetry/src` | D1 rows | compile, redact, reduce, submit; check, store | abort timer against a late answer, a schema under migration, order of redaction and cuts | nothing private leaves, a claimed submission is stored |
| odin-watch, `src/odin-watch` | three wake files; last hash, verdict and audit clock in memory | poll, classify, write | stale state, files written one by one, restarts | silence is earned and bounded, the flag is never older than the reason |
| Harness pacing, `src/harness-pacing` | one profile file per harness | append an event, recommend | read-modify-write without a lock, in-place writes | a whole profile is exact, crashes are heeded |
| odin-say, `crates/odin-say` | a proof log | deliver one line into a pane and prove it | the pane changes between reading and typing | no typing into prompts, one line, at most two Enters, true outcomes |
| Role identity, `src/protocol/role-identity.ts` | none | canonical seat, equality, executive and roster authority | respelled and unreadable names | a respelled seat is the same seat, an unreadable one nobody |
| Surface layout, `src/protocol/surface-layout.ts` | the wall the EXEC PM keeps | layout of N teams, quadrants, surface gate with its checklist | the layout of a larger N moves a team | packed at every size, only A's column guest moves |
| Readiness and onboarding, `src/protocol/service.ts`, `scripts/protocol/verify-governed-context.mjs` | none: proofs and declarations are submitted | launch and activation gates, waivers, probe matrix, onboarding plan, boot hook | a sequence of repairs and stale proofs between the gates' calls | who activates is proven; the advice leads there |
| Slice gates, `service.ts` | none: records are submitted | escalation, remediation packet, commit gate, closure, roster authority, blocked-pod rollover | long legal sequences, names respelled between records | supervision, an honest ladder, no letter twice from current lists |
| Delivery and assignment, `service.ts`, `scripts/protocol/verify-instruction-read.mjs` | none | delivery evidence, delegation packet, boot receipt, instruction-read check | the surface changes after the look, files change after the read | a verdict of delivery is true |
| Continuity, `service.ts` | none | fallback contract, outage handoff, successor contract, bring-up plan | seats die at any time, session hooks change the tree | substitutes are fit, halts are earned |
| Other operations of `service.ts` | none | listings, templates, text rendering | - | - |
| MCP server and CLI, `src/mcp`, `src/bin` | none | dispatch | asynchronous handlers | as the components above |
| Repository and schemas, `src/protocol/repository.ts`, `schemas.ts` | static data | load, validate | - | - |
| Scripts, plugins, charter, docs | - | - | - | - |

Leases and appends both call `acquireRegistryLock`.  Governance calls the
registry through an injected store, one locked append or one unlocked query at
a time; delivery and assignment ask it whether an artifact has an outcome
(`adjudicateRegistryAuthority`).  The MCP server, the CLI and odin-watch call
governance or the registry.  The gates of `service.ts` all use role identity;
they share no state but what the agents carry from one record to the next.
odin-say, harness pacing and telemetry are independent.

## 2. Modules

    RegistryLock ............ what the mkdir lock is
      LockBackoff ........... how long a caller waits           (implements RegistryLock)
    FencedLease ............. what a slot lease promises
      SlotLease ............. files, locks, clocks, crashes     (implements FencedLease
                                                                 and RegistryLock)
    EventRegistry ........... log, appends, compaction          (implements RegistryLock)
    Governance .............. verdicts over the log, taken as one atomic object

    SessionReport ........... what a report is on each leg of its way
      Telemetry ............. client, network, abort timer, worker, migration
    OdinWatch, HarnessPacing, OdinSay
    MCSideTools ............. the four tools above, one to a behaviour

    RoleSlots ............... seats and their spellings
      Slice, Readiness, Continuity
    SurfaceLayout, Assignment
    MCSession ............... the five above, one part to a behaviour

    RegistryLockProofs, LockBackoffProofs, SlotLeaseProofs, EventRegistryProofs,
    GovernanceProofs, SliceProofs   each extends its module
    SideToolsProofs, SessionProofs  extend MCSideTools and MCSession

**RegistryLock** is the abstract lock.  A process is `idle`, `trying` (about to
call `mkdir`), `busy` (it got `EEXIST`) or `inside`.  `Die` leaves the directory
behind (`stale`); only `OperatorRemoves` takes it away.  The code never steals a
lock, and the model has no action that does.

**LockBackoff** has `lockPolicy`, `nextBackoffDelayMs` and the two loops of
`acquireRegistryLock`; the asynchronous twin has the same steps.  Every caller
counts the time since its own call began.  A step that is due happens at most
`MaxLate` ticks late.  The random factor of the jitter is a choice over every
result it can have.

**SlotLease** has one action per file operation: `MkdirMakes`/`MkdirFinds`,
`ReadRecord`, the decision of each call (`DecideAcquire`, `DecideOwn`,
`DecideGrant`, `DecideRenew`, `DecideRelease`), `RenameRecord`, `RmdirLock`.
The decision and the writing of the temporary file touch nothing anyone else
reads, so the rename stands for the write.  `Fault` is any fs error under the
lock.  `ends` in a record is the lease's end in real time: only properties read
it.  `checkLease` and `fenceAction` are state functions, because they take no
lock and write nothing.  A record that does not parse is left out: records are
only written whole, and a corrupt one ends a call like `Fault`.

**EventRegistry** is one scope.  The log is a function from positions to lines;
a line keeps its position for ever and compaction leaves gaps.  A write may stop
half-way (`AppendPart` and then `Die` or `Fault`), and then the file is `ragged`:
the next bytes continue that line (`WriteBytes`).  `tmp` is
`events.compact.tmp`, also as a dead compaction leaves it.  A summary's hashes
are the set of positions and events they were made from: hashes are taken to be
free of collisions.

**Governance** has, per caller, the evaluator that it consults and the append
that follows as separate steps, and `Compact` between any two.  Here the log is
one atomic object; that is what EventRegistry and its theorems provide
(`ReadsAreComplete`, `AppendOnly`).  Callers keep to the documented use: attempts
and closures are evaluated first, overhead is held against the budget and
appended by `appendGovernanceOverheadEvent`, a block goes through
`recordBudgetExhaustion`, an audit is first put to `evaluateMetaGovernanceDepth`
with the links (`Offer`) its caller chose to give.  `receipts` remembers what
`adjudicateRegistryAuthority` once accepted.  `appendGovdispEvent`, which the MCP tool calls, checks
none of this; a caller who goes round the guards is outside this model.

**SessionReport** and **Telemetry**.  A text is one of five kinds (plain, with a
secret, with a secret across the length a label is cut to, ...), so that the order
of redacting and cutting matters as it does in the code.  `Submit` is the
synchronous part of `submitSessionReport`; `Resolves`, `ReadsBody`, `Aborts` and
`FetchFails` are the settlements of its two awaits; the worker's checks, in their
order, its insert and its two narrower inserts are steps against a database whose
migration adds one column at a time.  `Allowlist` is the set of versions the worker is
set to take; when it is empty it takes any.  A report has fewer labels of a kind than
the 100 the worker keeps.

**OdinWatch** is one watcher and one pane.  A poll is `Begin`, `Capture`, `Probe`
(git), `Classify` and the three writes, each of which may fail or be the last thing
the process does; `Start` begins with an empty memory and whatever files there are.
Times are ages, saturated where the code only compares.

**HarnessPacing** has several writers and one file.  A write truncates and then
fills (`Open`, `Write`), and may stop with a torn file; written over another writer's
bytes, a shorter text leaves a remainder that does not parse (`Over`).  `recommend` is
an operator over what is in the file and the shipped seed.

**OdinSay** has one action per call to the pane multiplexer.  Between any two, the
pane's harness and its user move (`Moves`): a prompt or an overlay opens or closes, a
turn starts or ends, the cap is hit, a text is typed, the line is taken.  `drawn`
says whether the read finds an input bar at all.  The regular expressions that
tell a blocked, busy or capped screen are the pane's state itself.

**RoleSlots**.  A name in a record is a seat and a spelling: exact, respelled
(folded away), a lookalike (refused) or not a text.

**Slice** is one slice from its first attempt to its closure.  The agents emit any
verdict under any name (`Emit`), signal, climb with any packet the validator takes
(`StepUp`), commit, land and close when the gates say so, and change the roster
beside it.  A packet (`Packet`) may leave `original_acceptance_bar` out, as the packets
made from the gate's requirements do, or quote as the original what an earlier packet
made of it; `unquoted` remembers the rungs whose packet did either.  A rollover is two
steps: a coordinator gets a letter for the teams it lists (`AskRollOver`) and spins the
team later (`RollOver`), when its list may be stale.  `fresh` in a team says that the
list was not; only a property reads it.

**Readiness** is a team.  `Arise`, `LoseAuth`, `Declare`, `Drift` and hand-made
proofs are what befalls its seats; `Ask`, `Follow`, `Reverify`, `Waive` and `Staff`
what an operator does; `Launch` and `Activate` happen when the gate lets them.  The
role a seat is judged by is that of its slot (`Role`), except that the assurance is asked
for the role its record states, if it states one (`RequestedRole`), as in the code.

**SurfaceLayout** has the layout of n teams as a function and a wall that grows by
it, or by the gate's checklist (`Follows`).

**Assignment** has the message on a seat's surface and the sender's look, record and
verdict as separate steps, and the instruction files between a seat's read and the
precheck hook.

**Continuity** has a seat with its contract and handoff, and a pod between
`PlanBringUp` and `Decide` in a repository whose hooks change it.  The papers are those
the validators take: a provider may be written in another case, padded or not as a text,
a trigger may be unreadable, and the words of a plan may be values that are no texts.

`MC*.tla` and `*.cfg` are instances for TLC.  MCSideTools and MCSession compose:
each behaviour is one of a part, and the variables of the parts that do not run keep
their initial values, so that one exploration is the sum of the parts and not their
product: the parts share nothing in the code either.  The parts' parameters are
CONSTANTS of the composition too (or defined from them), and the configurations give
them their values; what is proved in SideToolsProofs and SessionProofs holds for all
values.

## 3. Runs

| Run | Instance | Shows |
|---|---|---|
| `lock_backoff` | 3 callers: backoff, fixed, no patience; delays 1..4, budget 4, lateness 1 | a refusal is earned, waits are bounded, every wait ends, the policy implements the lock |
| `lease` | 2 holders, 1 slot, clocks apart by the whole allowance, times 0..2, 2 grants, every crash and fault | SlotLease implements FencedLease; no early takeover; the fence separates holders |
| `lease_anyof` | 2 holders, 2 slots, both orders | one holder, one call at a time: never two live leases |
| `lease_returns` | 2 holders, any-of against a taker, an allow-list that changes, stale lock directories, with fairness | every call returns |
| `registry` | 2 processes, 3 events (one old, one old outcome, one undated), 2 instants, 4 lines | complete reads, exact compaction, append-only, the lock |
| `governance` | 2 callers, ceiling 1, budget 3, 5 events; compactions at every position | overruns bounded by racers, blocks earned and final, closures driven, no deep audit without break-glass, receipts stay resolvable |
| `side_tools` | telemetry: 1 call, 1 stranger, 2 migration statements; watch: 3 screens, 1 path, intervals 1 and 2; pacing: 2 writers, 5 events; say: 3 changes of the pane | nothing private leaves and storage is honest; silence is earned and bounded; a profile is sound; a line is sent into the open and its outcome true |
| `session` | a wall of up to 9 teams; a team of 2 for launch and advice; a message; 2 files; a ladder of 3 rungs and 3 verdicts, 2 coordinators and up to 4 teams; 2 providers under 4 spellings and 2 fallback rungs; a pod | what sections 4 and 5 say of the gates, and that the advice leads to a ready team |
| `governance_attempt_reset` | 1 caller, ceiling 3, compactions | **violated**, see 6 |
| `telemetry_blockers` | telemetry with one blocked session | **violated**, see 6 |
| `onboarding_plan` | the advice part of the session | **violated**, see 6 |
| `say_delivered` | the say part of the side tools | **violated**, see 6 |

Bounds.  `ElapsedCap` (LockBackoff) is above every budget plus its lateness, so
nothing the properties compare is cut off.  `MaxTime` and `MaxToken` (SlotLease)
allow a grant, its expiry on either clock and a takeover; `lease_returns` needs no
expiry and has time stand still.  `MaxLines` (EventRegistry) allows two compactions,
the second of a log with a summary and a torn line.  `MaxEvents` (Governance) allows
the budget, a racer's overrun, a block and an append after it; ceiling and budget are
scaled down so that both are met within it.  A behaviour of `governance` has one of
two themes, duties (attempts, findings, blocks) or audits (audits, break-glass,
receipts): a log of duties is compacted once, a log of audits has three events, which
is an audit, one of it and one of that.  `MaxLate` and `MaxRefused` (OdinWatch) allow
a late poll and a refused flag; ages saturate above every threshold.  `MaxMoves`
(OdinSay) is three changes that the sender does not make: a prompt that opens, a line
of somebody else, a turn.  A wall of nine teams passes through both parities and the
first guest; the layout repeats every two teams, and section 5 proves it for all.
`MaxVerdicts` allows two passes and one that should not count.  Three rungs allow a packet
that softens the bar and one that quotes the softened bar.  `SliceBounds` (MCSession)
keeps four teams, which is three rollovers, two of one coordinator and one of the
other between them, does not follow the roster and the rollovers together, and has one
verdict on the last rung.
`MaxTroubles` and `MaxEdits` allow a trouble and a second one after its repair, an
edit after the read and one after the check. The constants of the code (3 attempts, 25
events, 30 days, 5 to 200 ms, 10 s, 2 s of skew, 300 s to live, 5 teams' worth of
letters) are parameters or scaled.

Deadlock is checked in `lock_backoff`.  The other runs stop at their bounds (no
new call is started), so they do not check it; `EveryCallReturns`, `EveryWaitEnds`
and `EveryCallAnswers` say that nobody gets stuck in a call.

Symmetry is used in `governance` only, over the callers, which has no liveness
property.

Fairness.  In LockBackoff time passes and a caller whose step is enabled takes
it: the operating system schedules running processes, and timers fire.  In
SlotLease a runner that is in a call goes on (weak), and one that finds the lock
taken again and again gives up at last (strong): that is `EveryWaitEnds` of
LockBackoff.  Nothing is assumed of the holder of a lock, of the operator, or of
a process that is not in a call.  In Telemetry the abort timer of a call runs down
(weak fairness of `Aborts`), and neither the network nor the worker ever has to
answer.  In the advice part of the session the operator keeps asking about each seat
and keeps doing what the answer says: that is the premise of `AdviceLeadsToReady`,
which is about the advice, so it is not something the code provides.

## 4. Properties

Each is stated at its definition with the code it is about.  The ones that take most
argument:

* `ReadsAreComplete`: a reader without a lock, at any moment between the steps
  of appends and compactions, is served every acknowledged append or nothing.
  It holds in spite of torn writes because a merged line is refused.
* `EveryLineAccounted`: over any number of compactions every position ever used
  is a line or hashed by exactly one summary.
* `FenceSeparatesHolders`, `NoEarlyTakeover`: what a fenced lease is for, with
  clocks that differ and calls that crash after their rename.
* `BlockEndsTheChain`: after a terminal block every process adds at most the one
  event it had already decided on, also when compactions come in between.
* `ReauditsBreakGlass`: the chain an audit's depth is measured along may be
  compacted away; the removed target then cannot be resolved and is refused, so no
  deep audit passes as a shallow one.
* `RefusalIsEarned`: a refused caller tried until its deadline.
* `StorageIsHonest`: at whatever statement of the migration the insert and its
  fallbacks run, a report said to be stored is, and no report is lost to the schema.
* `SilenceIsEarned`, `QuietIsBounded`: the flag is lowered only on fresh evidence of
  work, and a watcher that is silent for long audits, also when writes fail after the
  audit clock was reset.
* `ProfileIsSound`: writers without a lock lose only what overlapped, a profile that
  parses is exact, and a torn one never makes the recommendation bolder.
* `SendsIntoTheOpen`, `OutcomeIsTrue`: every key of the sender goes out on a screen
  that allowed it, and what it reports was so, unless something took the line or an
  Enter on the way or hid the bar.  (That the screen is still so when the key
  arrives is not in the code's power; `say_delivered` shows what follows.)
* `AdviceLeadsToReady`: from any mix of troubles, stale proofs and conflicting
  declarations an operator that does as told ends with a governed seat: the blockers
  never send it in a circle.
* `SliceIsSupervised`, `RosterIsSound`: over any records under any spelling, a closed
  slice was passed by two strangers, the two authority gates agree on everybody, and
  two teams share a letter only if two coordinators asked before either had spun its own.
* `LadderIsHonest`, `BatonIsAccepted`: no rung is skipped, and the requirements the gate
  gives suffice for its own validator.  The bar differs from the assignment's only when
  the last packet did not quote the assignment's: one that does cannot pass on a softened
  bar, so it brings the bar back.  That the bar never differs is not so (6, `MCBar.cfg`).
* `DeliveryIsTrue`: a verdict of delivery holds of the message, although the record
  may claim another kind, leave fields out or lean on a registry event.
* `HaltsOnWrongTarget`, `CoverIsFit`: what the continuity papers are for, over every paper
  the validators take.  Both name the papers that get past: a pod never works on a wrong
  target, and halts on a right one only by a plan whose words are no texts; a seat is
  substituted for a billing error only by an unreadable trigger, and covered from the
  dark provider only where a provider is no text or is written with blanks once.

Every property has a mutant in PROJECT.json, a change of the model that a
plausible bug in the code would be, under which TLC finds it violated.

## 5. Proofs

TLAPS proves, for every value of the constants that satisfies the assumptions named,
**every invariant and every action property of the passing runs**, the refinements
among them.  By module:

* `RegistryLockProofs`: `TypeCorrect`, `LockExcludes`, `LockLeaksNothing`.  The
  inductive invariant adds to `DirsAccounted` that no two processes are inside
  one directory; the accounting is needed because exclusion rests on the
  directory being there while somebody is inside.
* `LockBackoffProofs`: `RefusalsAreEarned`, `OverrunsAreBounded`, `RetriesPaced`.
  The invariant (`WaitInv`) says of every caller where its clock and its timer are:
  a sleep that is still due ends within the budget (`Sleeping`), because the code
  cuts the delay to what is left; so a last try is no further than one lateness from
  the deadline (`HasTried`), and a refusal comes no later than a second one
  (`Reports`).  `BackoffUsesRegistryLock` maps each step to one of the lock.
* `SlotLeaseProofs`: type correctness first.  Then the step-by-step refinement of
  RegistryLock (`LeaseUsesRegistryLock`), from which exclusion follows by the
  lock's own theorem (`LeaseWritersExclude`).  With it, the record a runner read
  is still there when it renames (`LeaseDecidesOnCurrentRecord`); with that and
  the fact that a record expired on any clock has ended in real time
  (`SkewCoversDrift`), each rename is a Grant, an Extend or a Release of
  FencedLease (`LeaseImplementsFencedLease`, `LeaseNoEarlyTakeover`).  The fence
  (`LeaseFenceSeparatesHolders`) needs a strengthening that also speaks of grants
  written or found but not yet reported.  `LeaseOneSlotPerHolder` follows the
  any-of search through its two passes (`SearchInv`): a slot that the first pass
  left behind has no live lease of the holder, and none comes up behind it, since
  nobody else writes leases for this holder (`LiveShrinks`); so the second pass
  grants when there is none.
* `EventRegistryProofs`: the same way from the lock (`RegistryUsesLock`) to
  `RegistryCompactsCurrentLog` and `RegistryTypeCorrect`; then `RegistryAppendOnly`,
  `RegistryAccountsForLines` and `RegistryReadsAreComplete`, whose invariant adds
  that an acknowledged event is in its line, in a summary, or in an unreadable
  line.
* `GovernanceProofs`, for any number of callers that decide on stale reads.
  `OverheadIsBounded` and `AttemptsAreBounded`: a verdict under the limit stands for
  one more event at most, so the events in the log and the callers past their
  verdict *together* stay within the limit and the racers (`OverrunInv`).
  `BlocksEarned` and `BlocksEndChains`: compactions leave outcomes alone
  (`OutcomesStay`), whoever is about to append a block has seen the budget used up
  by events that may be gone since (`EarnedInv`), and whoever is about to append to
  a blocked chain has appended nothing to it since the block (`ChainInv`).
  `ClosuresAreDriven`, `ReauditsAreAuthorised` and `ReceiptsResolve`: what a verdict
  rested on came before what it allows, also when it has been compacted away, and a
  compaction takes the oldest events first (`OldestGo`).
* `SideToolsProofs`.
  Telemetry: `OnlyCountsLeave` rests on what `redactPayload` makes of every report;
  `StorageKeepsItsWord` needs that a request is what its sender made of it,
  that an answer is the last the worker does and says what became of the row, and
  that the form an insert is tried in fits the table or has one to fall back on
  (`FormInv`), at every statement of the migration.
  odin-say: `SendsAreIntoTheOpen`; `OutcomesAreTrue` from how often the line was
  typed and entered at each place of the sender (`StageInv`), where the line is while
  the pane moves (`LineInv`), and what a return claims (`ReturnInv`).
  odin-watch: `SilencesAreEarned` (a 0 about to be written was given for the screen
  at hand), `FlagsAreNewest` (each file is no newer than the one written before it),
  and `QuietsAreBounded`, whose invariant measures the silence against the refused
  writes and the audit clock (`QuietInv`).
  Harness pacing: `ProfilesAreSound`.  Whatever is read, a writer's next profile is
  exact, because the validator lets nothing else through; a profile that is there
  holds every event no other append overlapped (`FileInv`, `WriterInv`).  That it
  never has more events than were offered (`PacingTypeCorrect`) needs a count against
  the events taken (`CountInv`).
  `ToolsRunApart`: in the run of all four, each tool behaves by its own
  specification.
* `SliceProofs`.  `SlicesAreSupervised`: whoever passes `validateClosureIndependence`
  is pairwise different as a seat, not as a text, since an unreadable name equals
  nobody and is refused; `CommitInv` says the same of the commit on record while the
  slice moves on.  `LaddersAreHonest` needs that the gate's last answer about the
  operator was given on the reserve tier (`SaidInv`), because the answer is acted on
  a step later; of the bar it says what the last packet quoted, for any packets that the
  validator takes.  `BatonsAreAccepted` follows from the two gates alone.
  `RostersAreSound` adds to that of the commit that every change of the roster on
  record was authorized (`RosterInv`), and that a letter on offer is in no list it was
  given for, and that a coordinator's list has all the teams it spun (`OffersInv`): so
  its next letter is another one, and a team spun from a current list has a letter of
  its own.
* `SessionProofs`.
  The wall: `GuestMovesAlone` and `ReceiptsKeep` need an invariant (`IInv`) that
  survives an EXEC PM who goes by the checklist and leaves surfaces behind: every
  team is in the place it has when nobody is A's guest, or below A, and its receipt
  says the one or the other.  `PackedForAll`, for an EXEC PM that goes by the layout,
  adds that the wall is the layout of as many teams as are staffed, and rests on
  counting columns for every n, even and odd.
  Readiness: `ActivationsAreProven`.  What the activation gate has seen of an occupant,
  read off for each category of harness, gives its proof (`ReadyIsProven`); of a seat
  that is active nothing changes any more.
  Assignment: `DeliveriesAreTrue` needs that what the sender saw does not go stale
  (`SeenHolds`: taken and acknowledged messages stay so), that the record is of what
  was seen, and that a verdict rests on the record: `MessageInv`.
  `ChecksAreOfTheDisk`: the precheck passes only on files which are, at that moment,
  what the seat read.
  Continuity: `HaltsAreEarned`: a plan on file has the one stop trigger, and one whose
  words are texts captures its ground truth after the boot, so that the truth on record
  has the target the pod goes on with (`PodInv`).
  `CoversAreFit`: contracts and handoffs on file are valid ones (`SeatInv`), whenever
  they were staged; the theorem is of all the papers the validators take.
  `PartsRunApart`: in the run of all the parts, each behaves by its own specification.

Assumptions on the constants.  TLC evaluates these in the runs:
`LeaseAssumption` and `SkewCoversDrift` (the clocks of the runners differ by no more
than the allowance; it is what `DEFAULT_CLOCK_SKEW_MS` is for), `PolicyAssumption`
(options are integers or unset, as `lockPolicy` reads them) and `CapAssumption` (the
bound on the clock is above what the properties compare), `RegistryAssumption`,
`GovernanceAssumption` (finitely many callers, and at least one), `SliceAssumption`,
`TelemetryAssumption` (a call is no stranger; the client sends POST, so that a
preflight is only ever a stranger's; the worker's allow-list is empty or holds the one
listed version), `SideAssumption` (intervals are positive; what
stands for an absent, an empty or a torn profile is no profile; there are finitely many
pacing events to come), `TeamAssumption` (seats that may stay vacant are seats, what
befalls them are the troubles there are, proofs made by hand have the form of proofs).

Hypotheses of single theorems, where the code promises no more:
`LeaseOneSlotPerHolder` is of holders that make one call at a time, no plain acquire
of a given slot, and whose lists have the same slots (`AnyOfAlone`, `SameSlots`); 6
tells what happens to twins.  `Follows = {"layout"}` (PackedForAll) is the EXEC PM who
goes by the layout, and `ByDisplayName` (ActivationsAreProven) the harnesses that are
asked for by display name: see 6 for the others.  `GovernedTeam` (same theorem): every
seat is of a governed role; an ungoverned one has nothing to prove.
`UnreadableIsNoSeat`: the mark for an unreadable name is no seat.  `ProvidersAreNamed`:
the mark for a missing paper is no provider.  Neither restricts what a record may hold.

Only model-checked: the four liveness properties, `EveryWaitEnds`,
`EveryCallReturns`, `EveryCallAnswers` and `AdviceLeadsToReady`, since fairness and
ENABLED are out of the prover's reach, and what the violation runs and the
configurations of section 6 show.  Also out of reach is induction over data: what a
recursive definition computes for every input.  Every module with a type invariant has
it as a theorem (`...TypeCorrect`); the runs do not repeat it.

## 6. Where the code and its documents disagree

With a run:

* `governance_attempt_reset`.  The fourth attempt "and beyond" is to be refused
  and nothing is to reset the count; a compaction removes attempts that have
  outlived their TTL, and the count starts again.
* `telemetry_blockers`.  The report is redacted before its diagnostics are
  summarised, and the name of one check, `openHandsAuthApiCredentials`, looks
  sensitive: its blocker never reaches the summary.
* `onboarding_plan`.  The plan says that all probed harnesses are governed-ready when
  no row has a classification, although rows are blocked for want of a proof.
* `say_delivered`.  A screen on which no input bar is to be seen counts as clear, and
  whether the Enter went through is not looked at: a line that is still in the bar is
  recorded as delivered.

With a configuration that TLC refutes, and no run of their own:

* `MCSameOrder.cfg`.  `docs/reference/lease.md` lets one holder run two calls
  with the same order and says that they settle on one slot.  They try one slot
  at a time; when another holder releases an earlier slot between their tries,
  the twins are granted different slots.
* `MCTornAppend.cfg`.  The header of `storage.ts` rules out silent drops.
  After a torn write the next append returns ok although its bytes continued
  the torn line, and the whole log is refused from then on.
* `MCTerminalOnce.cfg`.  The guard derives, then appends, and the lock
  covers the append alone: two processes append two `TERMINAL_BLOCKED` where
  the policy and the comment say exactly one.
* `MCStale.cfg`.  `src/odin-watch/index.ts` says "stale after 3 missed polls"; the
  classifier goes by the time since the watcher started, not since the screen
  changed, so that later on a screen which stood still for one poll is called stale.
* `MCCrashSamples.cfg`.  `recommend.ts` lets crash samples enforce the smallest bucket;
  a crash without a signature is no sample.
* `MCChecklist.cfg`.  The surface gate's checklist (`surface-layout.ts:200`) omits
  that A's guest moves out when the count becomes odd: who goes by it leaves the
  canonical layout.
* `MCTwoNames.cfg`.  The readiness gate knows harnesses by display name and id, but
  `harnessCategory` (`service.ts:293`, `service.ts:314`) only by the former:
  `claude_code` is judged as an MCP-only harness.
* `MCStatedRole.cfg`.  `service.ts:437` says that "PM/ODIN must clear at least
  static_control_file assurance; MCP-only never silently qualifies".  The required
  assurance goes by `slot.role ?? slot.roleSlot` (`service.ts:1689`): an ODIN's slot whose
  record states a worker's role activates on MCP alone.
* `MCBar.cfg`.  The comment of `validateRemediationPacket` (`service.ts:2533`) says that
  the "immutable acceptance bar" is "enforced here".  The bar is compared only with an
  `original_acceptance_bar` in the same packet, which is recommended and which the gate's
  requirements do not ask for: a packet without it softens the bar.
* `MCSurvivor.cfg`.  The survivor of an outage "must run on a DIFFERENT provider than the
  exhausted one" (`service.ts:2759`).  Providers are compared in lower case but with their
  blanks, and not at all when one is missing or no text: such a handoff names a survivor
  at the dark provider.

The model reaches more states that no document speaks of.  A compaction may remove the
`OWNED` or `DELIVERED` event of an open finding, which then no longer counts as active.
odin-say sends its second Enter, and types behind a stale line it has just entered,
without looking for a prompt or a turn again.  Two coordinators that ask for a rollover
letter before either has spun its team get the same one, since the evaluator knows only
its caller's list.  A substitution trigger that the name fold cannot read only warns,
whatever its reader takes it to mean; and a bring-up plan whose words are no texts passes
its validator, since the tool's schema is a record of anything.

## 7. Not modelled

* The MCP server and the CLI: they parse arguments, call one component and print.
* Repository and schemas: static data and the shapes of records.  What a gate tells
  apart of a shape is in the model of the gate.
* The rest of `service.ts`: listings, report templates, rendering of prompts.
* Scripts that run over the repository's own files, plugins, charter, documents.
* Symbolic-link checks are a refusal without effect (`RefuseLink`, `WriteRefused`).
* A wall clock that steps back, a file system on which `mkdir` or `rename` is not
  atomic, and a reader of a half-written wake file are outside the model.

## 8. Plan

1. Governance over EventRegistry's own log, in place of the atomic one: a refinement
   from `RegistryReadsAreComplete` and `RegistryAppendOnly`.
2. `ActivationsAreProven` for teams with ungoverned seats, as far as the gates judge
   them.
3. The any-of search of several runners of one holder: what does hold of twins.
4. Two senders on one pane: nothing in `crates/odin-say` excludes them, and each
   one's line is a stale line to the other.
