------------------------------ MODULE MCStock ------------------------------
(***************************************************************************)
(* Instances of Stock for TLC: two items, a store and a site, and the      *)
(* movements a storekeeper makes between them.                             *)
(***************************************************************************)
EXTENDS Stock

CONSTANTS store, site

Issue    == [effect |-> "OUT", from |-> store, to |-> Nowhere]
Transfer == [effect |-> "MOVE", from |-> store, to |-> site]

Moves       == {Issue, Transfer}
OneInStore  == [i \in Items |-> [l \in Locations |-> IF l = store THEN 1 ELSE 0]]
OneOfEach   == {[i \in Items |-> 1]}
InTheStore  == {[at |-> store, found |-> [i \in Items |-> IF i = 1 THEN 2 ELSE 0]]}   \* one over, one short
AnySession  == Permutations(Sessions)
None        == [i \in Items |-> 0]
============================================================================
