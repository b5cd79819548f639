----------------------------- MODULE MCCheckout -----------------------------
(* A repository of three commits: two with a submodule, which the third drops. *)
EXTENDS Checkout

CONSTANTS c1, c2, c3, s1, s2

SubmoduleOf == [c \in Commit |-> IF c = c1 THEN s1 ELSE IF c = c2 THEN s2 ELSE NoSub]
=============================================================================
