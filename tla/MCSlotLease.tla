----------------------------- MODULE MCSlotLease -----------------------------
(* Instances of SlotLease.  In MCSlotLease.cfg two holders compete for one  *)
(* slot with clocks that differ by the whole allowance; in MCAnyOf.cfg they *)
(* ask for any of two slots; in MCSameOrder.cfg two runners act under one   *)
(* holder, as the reference manual allows.                                  *)
EXTENDS SlotLease, TLC

CONSTANTS r1, r2, r3, h1, h2, s1, s2

OneEach == (r1 :> h1) @@ (r2 :> h2)
SharedHolder == (r1 :> h1) @@ (r2 :> h1) @@ (r3 :> h2)
InSync == [r \in Runner |-> 0]
FastSecond == (r1 :> 0) @@ (r2 :> 1)

SingleSlotCalls == [r \in Runner |-> {"acquire", "renew", "release"}]
AnyOfCalls == (r1 :> {"acquireAny"}) @@ (r2 :> {"acquireAny", "release"})
AnyOfAgainstTaker == (r1 :> {"acquireAny"}) @@ (r2 :> {"acquire"})
TwinsAndOther == (r1 :> {"acquireAny"}) @@ (r2 :> {"acquireAny"})
                   @@ (r3 :> {"acquireAny", "release"})

OneSlotOrders == { <<s1>> }
BothOrders == { <<s1, s2>>, <<s2, s1>> }
SameOrder == { <<s1, s2>> }

NoList == { Slot }
Delisting == { Slot, {} }
=============================================================================
