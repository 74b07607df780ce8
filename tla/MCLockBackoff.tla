---------------------------- MODULE MCLockBackoff ----------------------------
(* LockBackoff with one caller per wait policy: the default backoff, a      *)
(* fixed number of attempts, and a caller with no patience at all.          *)
EXTENDS LockBackoff

CONSTANTS backoff, fixed, impatient

MCProcess == {backoff, fixed, impatient}

MCOptions ==
  [p \in MCProcess |->
     CASE p = backoff   -> [maxLockAttempts |-> Unset, lockRetryMs |-> Unset,
                            lockBudgetMs |-> Unset]
       [] p = fixed     -> [maxLockAttempts |-> 2, lockRetryMs |-> Unset,
                            lockBudgetMs |-> 3]
       [] p = impatient -> [maxLockAttempts |-> Unset, lockRetryMs |-> Unset,
                            lockBudgetMs |-> 0]]
=============================================================================
