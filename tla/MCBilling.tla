----------------------------- MODULE MCBilling -----------------------------
(***************************************************************************)
(* Instances of Billing for TLC: advances of different size, so that       *)
(* their instalments are sometimes equal.                                  *)
(***************************************************************************)
EXTENDS Billing, TLC

TwoAdvances == [a \in Advances |-> a]
AnySession  == Permutations(Sessions)
============================================================================
