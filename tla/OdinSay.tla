------------------------------- MODULE OdinSay -------------------------------
(***************************************************************************)
(* odin-say (crates/odin-say/src/say.rs, main.rs, proof.rs): one sender    *)
(* delivers one line to a pane.  It reads the pane, waits for it or        *)
(* refuses, types the line, presses Enter, reads the pane back and records *)
(* the outcome.  Each call to the pane multiplexer is a step; between any  *)
(* two the pane's harness and its user go on: a prompt may open, a turn    *)
(* start or end, a line be typed.  A read, a key or the text may fail, and *)
(* the sender may be killed.                                               *)
(*                                                                         *)
(* A pane: what covers it, whether a turn runs, whether the provider's cap *)
(* is its newest output, the texts in its input bar, and how the message   *)
(* shows elsewhere.                                                        *)
(***************************************************************************)
EXTENDS Naturals

CONSTANTS
  Poll, Budget,    \* opts.poll and opts.wait
  MaxRead,         \* bound: what a read costs beyond the sleep before it
  MaxMoves         \* bound: changes of the pane that the sender does not make

SayAssumption ==
  /\ Poll \in Nat \ {0} /\ Budget \in Nat
  /\ MaxRead \in Nat /\ MaxMoves \in Nat

Cover == {"none", "overlay", "prompt"}
Pane == [over : Cover, busy : BOOLEAN, capped : BOOLEAN,
         bar : SUBSET {"message", "other"},
         shows : {"nothing", "queue", "echo", "answer"}]
\* What a read finds: the pane, with its input bar drawn or not - a harness may
\* have no prompt glyph on it, hide it in a turn or under what covers it.
Screen == [pane : Pane, drawn : BOOLEAN]

VARIABLES
  pane, moves,
  queues,          \* identity: whether the mid-turn policy is "queue", else "refuse"
  pc, screen,      \* the sender: its next call, the screen it goes by
  waited,          \* since the first busy observation
  outcome, exit,   \* what deliver returned, what the process returned
  recorded,        \* whether the proof log has the record
  texts, enters,   \* history: how often the line was sent, and Enter after it
  accepted,        \* history: the harness has taken the line
  diverted         \* history: the line or an Enter met something else than the
                   \* bar, or the bar was emptied or hidden from a read-back

sayVars == <<pane, moves, queues, pc, screen, waited, outcome, exit, recorded, texts, enters,
             accepted, diverted>>

NoExit == 99
NoScreen ==
  [pane |-> [over |-> "none", busy |-> FALSE, capped |-> FALSE, bar |-> {},
             shows |-> "nothing"],
   drawn |-> FALSE]
NoOutcome == [state |-> "none", submitted |-> FALSE, exit |-> NoExit]
Outcome == [state : {"DELIVERED_ACKED", "DELIVERED_NO_ACK", "INPUT_BAR_ONLY",
                     "PANE_BLOCKED_ON_PERMISSION", "PANE_READ_FAILED",
                     "PANE_STILL_THINKING", "SEAT_CAPPED"},
            submitted : BOOLEAN, exit : {0, 2, 3, 4, 5, 6, 7, 10, 11}]

TypeOK ==
  /\ pane \in Pane /\ moves \in 0 .. MaxMoves /\ queues \in BOOLEAN
  /\ pc \in {"preflight", "first", "escape", "uncovered", "waiting", "stale", "cleared",
             "type", "enter", "back", "again", "last", "steer", "press", "steered", "record",
             "done"}
  /\ screen \in Screen
  /\ waited \in 0 .. Budget + MaxRead
  /\ outcome \in Outcome \cup {NoOutcome}
  /\ exit \in (0 .. 11) \cup {NoExit}
  /\ recorded \in BOOLEAN
  /\ texts \in 0 .. 1 /\ enters \in 0 .. 2
  /\ accepted \in BOOLEAN /\ diverted \in BOOLEAN

Init ==
  /\ pane \in [over : Cover, busy : BOOLEAN, capped : BOOLEAN, bar : SUBSET {"other"},
               shows : {"nothing"}]
  /\ moves = 0 /\ queues \in BOOLEAN
  /\ pc = "preflight" /\ screen = NoScreen /\ waited = 0
  /\ outcome = NoOutcome /\ exit = NoExit /\ recorded = FALSE
  /\ texts = 0 /\ enters = 0
  /\ accepted = FALSE /\ diverted = FALSE

-----------------------------------------------------------------------------
(* What the sender makes of a screen.  The last line with a prompt glyph is *)
(* the bar; where none is drawn, that is the echo of the line.              *)
blocked(s) == s.pane.over # "none"
busy(s) == s.pane.busy
capped(s) == s.pane.capped
input_bar(s) ==
  IF s.drawn THEN s.pane.bar
  ELSE IF s.pane.shows \in {"echo", "answer"} THEN {"message"} ELSE {}
stale_input(s) == input_bar(s) # {}
in_bar(s) == "message" \in input_bar(s)
answered(s) == s.pane.shows = "answer"
shows_queued(s) == s.pane.shows = "queue"
contains(s) == in_bar(s) \/ s.pane.shows # "nothing"

Goes(call) == pc' = call /\ UNCHANGED outcome
Returns(state, submitted, code) ==
  /\ pc' = "record"
  /\ outcome' = [state |-> state, submitted |-> submitted, exit |-> code]

Refuses == Returns("PANE_BLOCKED_ON_PERMISSION", FALSE, 2)

\* No turn runs: a capped seat is refused, a stale line is submitted first.
Settled(s) ==
  \/ capped(s) /\ Returns("SEAT_CAPPED", FALSE, 10)
  \/ ~capped(s) /\ stale_input(s) /\ Goes("stale")
  \/ ~capped(s) /\ ~stale_input(s) /\ Goes("type")

Unblocked(s) ==
  \/ busy(s) /\ queues /\ Goes("steer")
  \/ busy(s) /\ ~queues /\ Goes("waiting")
  \/ ~busy(s) /\ Settled(s)

\* After the Escape: the pane behind the overlay may be a permission prompt.
TakesItAsOpen(s) == Unblocked(s)
Uncovered(s) ==
  \/ blocked(s) /\ Refuses
  \/ ~blocked(s) /\ Unblocked(s)

First(s) ==
  \/ s.pane.over = "overlay" /\ Goes("escape")
  \/ s.pane.over # "overlay" /\ Uncovered(s)

Waited(s) ==
  \/ blocked(s) /\ Refuses
  \/ ~blocked(s) /\ busy(s) /\ Goes("waiting")
  \/ ~blocked(s) /\ ~busy(s) /\ Settled(s)

\* After the stale line's Enter: neither a turn nor a cap is looked for again.
Cleared(s) ==
  \/ blocked(s) /\ Refuses
  \/ ~blocked(s) /\ stale_input(s) /\ Returns("INPUT_BAR_ONLY", FALSE, 4)
  \/ ~blocked(s) /\ ~stale_input(s) /\ Goes("type")

Delivered(s) ==
  Returns(IF busy(s) \/ shows_queued(s) \/ ~contains(s)
          THEN "DELIVERED_NO_ACK" ELSE "DELIVERED_ACKED", TRUE, 0)

\* The first read-back, after a line sent mid-turn and after any other.
Steered(s) ==
  \/ shows_queued(s) /\ Returns("PANE_STILL_THINKING", TRUE, 0)
  \/ ~shows_queued(s) /\ Returns("INPUT_BAR_ONLY", TRUE, 7)
Back(s) ==
  \/ in_bar(s) /\ Goes("again")
  \/ ~in_bar(s) /\ Delivered(s)

EnoughOfEnters(s) == Delivered(s)
Last(s) ==
  \/ in_bar(s) /\ ~answered(s) /\ Returns("INPUT_BAR_ONLY", TRUE, 6)
  \/ (in_bar(s) => answered(s)) /\ Delivered(s)

-----------------------------------------------------------------------------
(* The pane. *)
Hidden(s) == s.pane.over # "none" \/ ~s.drawn

\* The line goes to the bar, or to what covers it.
TakesText ==
  /\ pane' = IF pane.over = "none" THEN [pane EXCEPT !.bar = @ \cup {"message"}] ELSE pane
  /\ diverted' = (diverted \/ pane.over # "none")

\* Enter: what covers the pane takes it and is gone; else the bar's line goes to
\* the harness, which starts a turn or, in the middle of one, queues the line.
Submitted ==
  IF "message" \notin pane.bar THEN {pane.shows}
  ELSE IF pane.busy THEN {"queue"} ELSE {"echo"}
TakesEnter ==
  IF pane.over # "none" \/ pane.bar = {}
  THEN /\ pane' = [pane EXCEPT !.over = "none"]
       /\ diverted' = (diverted \/ texts > 0)
       /\ UNCHANGED accepted
  ELSE /\ \E shown \in Submitted :
            pane' = [pane EXCEPT !.bar = {}, !.busy = TRUE, !.shows = shown]
       /\ accepted' = (accepted \/ "message" \in pane.bar)
       /\ UNCHANGED diverted

\* A key has no effect: the multiplexer failed, which is not looked at, or the
\* harness does not take a line in the middle of a turn.
Enter == TakesEnter \/ UNCHANGED <<pane, accepted, diverted>>

Turn == IF pane.shows \in {"echo", "queue"} THEN {pane.shows, "answer"} ELSE {pane.shows}

\* What happens to a pane without the sender.
Moves ==
  /\ pc # "done"
  /\ moves < MaxMoves
  /\ moves' = moves + 1
  /\ \/ /\ \E over \in Cover \ {pane.over} : pane' = [pane EXCEPT !.over = over]
        /\ UNCHANGED <<accepted, diverted>>
     \/ /\ \E shows \in Turn : pane' = [pane EXCEPT !.busy = ~@, !.shows = shows]
        /\ UNCHANGED <<accepted, diverted>>
     \/ /\ pane' = [pane EXCEPT !.capped = ~@]
        /\ UNCHANGED <<accepted, diverted>>
     \/ /\ pane.over = "none" /\ "other" \notin pane.bar
        /\ pane' = [pane EXCEPT !.bar = @ \cup {"other"}]
        /\ UNCHANGED <<accepted, diverted>>
     \/ /\ pane.over = "none" /\ pane.bar # {}       \* the user empties the bar
        /\ pane' = [pane EXCEPT !.bar = {}]
        /\ diverted' = (diverted \/ "message" \in pane.bar)
        /\ UNCHANGED accepted
     \/ /\ pane.shows # "nothing"                    \* it scrolls off the tail
        /\ pane' = [pane EXCEPT !.shows = "nothing"]
        /\ UNCHANGED <<accepted, diverted>>
  /\ UNCHANGED <<queues, pc, screen, waited, outcome, exit, recorded, texts, enters>>

-----------------------------------------------------------------------------
(* The sender. *)
Preflight ==
  /\ pc = "preflight"
  /\ \/ pc' = "first" /\ UNCHANGED exit
     \/ pc' = "done" /\ exit' = 8
  /\ UNCHANGED <<pane, moves, queues, screen, waited, outcome, recorded, texts, enters, accepted,
                 diverted>>

\* What the sender makes of a screen, by what it read it for.
Decides(s) ==
  \/ pc = "first" /\ First(s)
  \/ pc = "uncovered" /\ Uncovered(s)
  \/ pc = "waiting" /\ Waited(s)
  \/ pc = "cleared" /\ Cleared(s)
  \/ pc = "back" /\ Back(s)
  \/ pc = "last" /\ Last(s)
  \/ pc = "steered" /\ Steered(s)

(* A read: the pane as it is now, or a failure.  What was typed by then is  *)
(* what the failed read makes of the outcome.                               *)
Reads ==
  \/ \E drawn \in BOOLEAN :
       /\ screen' = [pane |-> pane, drawn |-> drawn]
       /\ Decides(screen')
       /\ diverted' = (diverted \/ (texts > 0 /\ Hidden(screen')))
  \/ /\ Returns("PANE_READ_FAILED", texts > 0, 11)
     /\ screen' = NoScreen /\ UNCHANGED diverted

Read ==
  /\ pc \in {"first", "uncovered", "cleared", "back", "last", "steered"}
  /\ Reads
  /\ UNCHANGED <<pane, moves, queues, waited, exit, recorded, texts, enters, accepted>>

(* The bounded wait: sleep a poll, or what is left of the budget, and read. *)
Step == IF Poll < Budget - waited THEN Poll ELSE Budget - waited
Wait ==
  /\ pc = "waiting" /\ waited < Budget
  /\ \E cost \in 0 .. MaxRead : waited' = waited + Step + cost
  /\ Reads
  /\ UNCHANGED <<pane, moves, queues, exit, recorded, texts, enters, accepted>>

GiveUp ==
  /\ pc = "waiting" /\ waited >= Budget
  /\ Returns("PANE_STILL_THINKING", FALSE, 3)
  /\ UNCHANGED <<pane, moves, queues, screen, waited, exit, recorded, texts, enters, accepted,
                 diverted>>

Escape ==
  /\ pc = "escape"
  /\ pc' = "uncovered" /\ screen' = NoScreen
  /\ \/ pane.over = "overlay" /\ \E over \in {"none", "prompt"} :
                                   pane' = [pane EXCEPT !.over = over]
     \/ pane.over = "prompt" /\ pane' = [pane EXCEPT !.over = "none"]
     \/ UNCHANGED pane
  /\ UNCHANGED <<moves, queues, waited, outcome, exit, recorded, texts, enters, accepted, diverted>>

ClearStale ==
  /\ pc = "stale"
  /\ pc' = "cleared" /\ screen' = NoScreen
  /\ Enter
  /\ UNCHANGED <<moves, queues, waited, outcome, exit, recorded, texts, enters>>

Type ==
  /\ pc \in {"type", "steer"}
  /\ \/ TakesText /\ Goes(IF pc = "type" THEN "enter" ELSE "press")
     \/ Returns("INPUT_BAR_ONLY", FALSE, 5) /\ (TakesText \/ UNCHANGED <<pane, diverted>>)
  /\ texts' = 1 /\ screen' = NoScreen
  /\ UNCHANGED <<moves, queues, waited, exit, recorded, enters, accepted>>

Press ==
  /\ pc \in {"enter", "press", "again"}
  /\ pc' = CASE pc = "enter" -> "back" [] pc = "press" -> "steered" [] OTHER -> "last"
  /\ Enter
  /\ enters' = enters + 1 /\ screen' = NoScreen
  /\ UNCHANGED <<moves, queues, waited, outcome, exit, recorded, texts>>

(* The record: a failed write is never exit 0. *)
ExitCode(written) == IF written THEN outcome.exit ELSE 9
Record ==
  /\ pc = "record"
  /\ recorded' \in BOOLEAN
  /\ exit' = ExitCode(recorded')
  /\ pc' = "done"
  /\ UNCHANGED <<pane, moves, queues, screen, waited, outcome, texts, enters, accepted, diverted>>

Kill ==
  /\ pc # "done"
  /\ pc' = "done" /\ screen' = NoScreen
  /\ UNCHANGED <<pane, moves, queues, waited, outcome, exit, recorded, texts, enters, accepted,
                 diverted>>

Sender == Preflight \/ Read \/ Wait \/ GiveUp \/ Escape \/ ClearStale \/ Type \/ Press
            \/ Record

Next == Sender \/ Kill \/ Moves

Spec == Init /\ [][Next]_sayVars

-----------------------------------------------------------------------------
(* "Nothing may be typed into" a permission prompt: the line, and the keys  *)
(* that make room for it, go out only on a read that showed none; and into  *)
(* a turn or a capped seat only as a queue harness takes it, or behind a    *)
(* stale line (deliver, "Re-classified after EVERY re-read").               *)
SendsIntoTheOpen ==
  /\ pc = "escape" => screen.pane.over = "overlay"
  /\ pc \in {"stale", "type", "steer"} => ~blocked(screen)
  /\ pc = "stale" => ~busy(screen) /\ ~capped(screen)
  /\ pc = "type" => ~stale_input(screen)
  /\ pc = "steer" => queues

(* The outcome against what was done to the pane and what became of the     *)
(* line: it is typed once, entered at most twice, and once in a turn;       *)
(* nothing of it is typed in a pre-send refusal; a busy pane is refused     *)
(* when the whole wait is over; the exit is 0 only with a record, and then, *)
(* unless something took the line or an Enter on the way or hid the bar,    *)
(* the harness has the line.                                                *)
OutcomeIsTrue ==
  /\ outcome # NoOutcome =>
       /\ outcome.submitted => texts = 1 /\ enters >= 1
       /\ ~outcome.submitted /\ outcome.exit # 5 => texts = 0
       /\ outcome.exit = 3 => waited >= Budget
       /\ outcome.exit = 0 /\ ~diverted => accepted
       /\ outcome.state = "PANE_STILL_THINKING" /\ outcome.submitted => enters = 1
  /\ exit = 0 => recorded /\ outcome.exit = 0
  /\ exit # NoExit /\ texts = 1 => recorded \/ exit = 9

(* say.rs "a dispatch is not delivered until submitted with Enter AND       *)
(* processing is verified"; "Exit 0 only for DELIVERED_*".                  *)
DeliveredIsSubmitted == exit = 0 => accepted
=============================================================================
