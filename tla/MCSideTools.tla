----------------------------- MODULE MCSideTools -----------------------------
(***************************************************************************)
(* The four tools beside the protocol that keep state of their own; a     *)
(* behaviour runs one of them, and the others keep their first values.     *)
(* "telemetry": one session with texts of every kind and every diagnosis,  *)
(* one without diagnostics; one stranger.  "watch": three screens - plain  *)
(* work, work under a permission prompt, nothing that can be told - and a  *)
(* path outside the scope.  "pacing": a crash with a signature, one with   *)
(* the same, one without, an event to normalise and an invalid one.  "say": *)
(* a line for a pane in any state, of a harness of either mid-turn policy.  *)
(***************************************************************************)
EXTENDS Telemetry

CONSTANTS Tool, c1, s1, w1, w2,
          Writer, Absent, Empty, Torn, PacingEvents,
          WatchScreens, WatchPaths, WatchScope, WatchScoped, WatchEmits,
          Interval, AuditInterval, MaxLate, MaxRefused,
          Poll, Budget, MaxRead, MaxMoves

VARIABLES
  tool,
  watchPc, age, pollAge, auditAge, elapsed, snap, paths, prevHash, lastVerdict,
  watched, flag, finding, behind, sameSince, quiet, refused,
  pacingPc, file, seed, left, event, next, acked, raced,
  sayPc, pane, moves, queues, screen, waited, outcome, exit, recorded, texts,
  enters, accepted, diverted

watchVars == <<watchPc, age, pollAge, auditAge, elapsed, snap, paths, prevHash,
               lastVerdict, watched, flag, finding, behind, sameSince, quiet,
               refused>>
pacingVars == <<pacingPc, file, seed, left, event, next, acked, raced>>
sayingVars == <<sayPc, pane, moves, queues, screen, waited, outcome, exit, recorded,
                texts, enters, accepted, diverted>>
sideVars == <<tool, vars, watchVars, pacingVars, sayingVars>>

-----------------------------------------------------------------------------
Seen(labels, hasAx, blocked, symptoms) ==
  [labels |-> labels, hasAx |-> hasAx, blocked |-> blocked, symptoms |-> symptoms]

SomeSessions ==
  { Seen({"plain", "secret", "straddling"}, TRUE, HarnessCheck, Symptom),
    Seen({"plain"}, FALSE, {}, {}) }

AuthSession == { Seen({"plain"}, TRUE, {"openHandsAuthApiCredentials"}, {}) }

Body(version, extra) ==
  [version |-> version, labels |-> {"straddling"}, blockers |-> {},
   degraded |-> FALSE, extra |-> extra]

SomeForeign ==
  { [body |-> Body(v, {}), flaws |-> {}] : v \in Version }
    \cup { [body |-> Body("listed", {}), flaws |-> f] :
             f \in {{"origin", "token"}, {"preflight"}, {"method", "path"}, {"type"},
                    {"size"}, {"json", "shape"}} }
    \cup { [body |-> Body("listed", {"notes"}), flaws |-> {}] }

SomeEnvFlaws == { {}, {"token"}, {"unprovisioned", "token"} }

Ev(type, hash, delivery, format, separator) ==
  [type |-> type, hash |-> hash, delivery |-> delivery, format |-> format,
   separator |-> separator]

SomeEvents ==
  { Ev("CRASH", "h1", "none", "double_enter", "none"),
    Ev("CRASH", "h1", "double_enter", "none", "none"),
    Ev("MILESTONE", "none", "blank", "double_enter", "given"),
    Ev("CRASH", "none", "none", "none", "none"),
    Ev("MILESTONE", "h2", "none", "none", "blank") }

W == INSTANCE OdinWatch WITH
       Screen <- WatchScreens, Path <- WatchPaths, WriteScope <- WatchScope,
       Scoped <- WatchScoped, Emits <- WatchEmits, pc <- watchPc, result <- watched
P == INSTANCE HarnessPacing WITH Offered <- PacingEvents, pc <- pacingPc
S == INSTANCE OdinSay WITH pc <- sayPc

ASSUME SideAssumption == W!WatchAssumption /\ P!PacingAssumption /\ S!SayAssumption

-----------------------------------------------------------------------------
SideInit ==
  /\ tool \in Tool
  /\ Init /\ W!Init /\ P!Init /\ S!Init
  /\ tool # "telemetry" => payload
  /\ tool # "pacing" => file = Absent /\ seed = "none"
  /\ tool # "say" => pane = screen.pane /\ ~queues

SideNext ==
  /\ tool' = tool
  /\ \/ tool = "telemetry" /\ Next /\ UNCHANGED <<watchVars, pacingVars, sayingVars>>
     \/ tool = "watch" /\ W!Next /\ UNCHANGED <<vars, pacingVars, sayingVars>>
     \/ tool = "pacing" /\ P!Next /\ UNCHANGED <<vars, watchVars, sayingVars>>
     \/ tool = "say" /\ S!Next /\ UNCHANGED <<vars, watchVars, pacingVars>>

\* Telemetry's fairness: the abort timer of a call runs down.
SideSpec ==
  /\ SideInit /\ [][SideNext]_sideVars
  /\ \A c \in Call : WF_sideVars(/\ tool = "telemetry" /\ Aborts(c)
                                 /\ UNCHANGED <<tool, watchVars, pacingVars, sayingVars>>)

-----------------------------------------------------------------------------
\* OdinWatch.SilenceIsEarned, ...; HarnessPacing.ProfileIsSound, ...; OdinSay.
SilenceIsEarned == W!SilenceIsEarned
QuietIsBounded == W!QuietIsBounded
FlagIsNewest == W!FlagIsNewest
ProfileIsSound == P!ProfileIsSound
SendsIntoTheOpen == S!SendsIntoTheOpen
OutcomeIsTrue == S!OutcomeIsTrue
\* Three that the code does not keep: MCDelivered.cfg, MCStale.cfg, MCCrashSamples.cfg.
DeliveredIsSubmitted == S!DeliveredIsSubmitted
StaleAfterThreePolls == W!StaleAfterThreePolls
CrashSamplesCount == P!CrashSamplesCount
=============================================================================
