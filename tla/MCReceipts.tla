----------------------------- MODULE MCReceipts -----------------------------
(***************************************************************************)
(* Instances of Receipts for TLC: what may be asked under a key.           *)
(***************************************************************************)
EXTENDS Receipts, TLC

CONSTANTS
  ann, ben,   \* two employees, one of whom may punch for the other
  forAnn,     \* a punch of each
  forBen,
  elsewhere   \* a write of another mutationRoute URL, with no audit row

ByWhom == (forAnn :> ann) @@ (forBen :> ben) @@ (elsewhere :> Nobody)

=============================================================================
