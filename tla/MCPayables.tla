----------------------------- MODULE MCPayables -----------------------------
(***************************************************************************)
(* The instance of Payables for TLC: two invoices, one of them with an     *)
(* order to be matched against, and a claim.                               *)
(***************************************************************************)
EXTENDS Payables, TLC

TwoOrOne   == [d \in Documents |-> IF d = 2 THEN 1 ELSE 2]
WaiveOrNot == {{}, Ordered}
AnySession == Permutations(Sessions)
============================================================================
