----------------------------- MODULE FencedLease -----------------------------
(***************************************************************************)
(* What docs/reference/lease.md promises of a slot, as one atomic object   *)
(* with one clock: a lease is exclusive until it ends, every new grant     *)
(* carries the next token, a renewal or a release never changes the token. *)
(* SlotLease (files, lock directories, several drifting clocks, crashes)   *)
(* implements it.                                                          *)
(***************************************************************************)
EXTENDS Naturals

CONSTANTS Slot, Holder, NoHolder, MaxTtl

VARIABLES
  lease,   \* per slot: the token, who holds it, and until when in real time
  now      \* real time

vars == <<lease, now>>

Init ==
  /\ lease = [s \in Slot |-> [token |-> 0, holder |-> NoHolder, ends |-> 0]]
  /\ now = 0

Set(s, token, holder, ends) ==
  lease' = [lease EXCEPT ![s] =
              [token |-> token, holder |-> holder, ends |-> ends]]

(* A free slot, or one whose lease has ended, goes to h under a new token. *)
Grant(s, h) ==
  /\ lease[s].holder = NoHolder \/ lease[s].ends <= now
  /\ \E ends \in 0 .. now + MaxTtl : Set(s, lease[s].token + 1, h, ends)
  /\ UNCHANGED now

(* The holder's lease gets a new end: same holder, same token. *)
Extend(s) ==
  /\ lease[s].holder # NoHolder
  /\ \E ends \in 0 .. now + MaxTtl : Set(s, lease[s].token, lease[s].holder, ends)
  /\ UNCHANGED now

(* The slot is free again and keeps its token. *)
Release(s) ==
  /\ lease[s].holder # NoHolder
  /\ Set(s, lease[s].token, NoHolder, 0)
  /\ UNCHANGED now

Tick ==
  /\ now' = now + 1
  /\ UNCHANGED lease

Next ==
  \/ \E s \in Slot : (\E h \in Holder : Grant(s, h)) \/ Extend(s) \/ Release(s)
  \/ Tick

Spec == Init /\ [][Next]_vars
=============================================================================
