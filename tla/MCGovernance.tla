---------------------------- MODULE MCGovernance ----------------------------
(* Instances of Governance.  MCGovernance.cfg: two processes, scaled ceiling *)
(* and budget, and every kind of call, in two themes of which a behaviour    *)
(* has one: attempts, findings and blocks, or audits and receipts.           *)
(* MCTerminalOnce.cfg: two processes that exhaust one budget.                *)
(* MCAttemptReset.cfg: one process, so that nothing races, and compactions.  *)
EXTENDS Governance, TLC

CONSTANTS p1, p2

VARIABLE theme

Symmetry == Permutations(Process)

ThemeTypes ==
  [duties |-> {"ATTEMPT_STARTED", "FINDING_OWNED", "FINDING_DELIVERED",
               "FINDING_CLOSED", "TERMINAL_BLOCKED"},
   audits |-> {"AUDIT_OPENED", "BREAK_GLASS_RECORDED", "TERMINAL_COMPLETED"}]

OnTheme == \A p \in Process :
  call'[p] # NoCall => /\ call'[p].type \in ThemeTypes[theme]
                       /\ call'[p].target <= size' + 1

(* Audits and receipts have logs of three events only; the log of duties,   *)
(* of five, is compacted once.                                              *)
Bounds ==
  /\ theme = "duties" => receipts' = {} /\ past \in {{}, past'}
  /\ theme = "audits" => size' <= 3

ThemedInit == Init /\ theme \in DOMAIN ThemeTypes
ThemedNext == Next /\ OnTheme /\ Bounds /\ theme' = theme
ThemedSpec == ThemedInit /\ [][ThemedNext]_<<vars, theme>>
=============================================================================
