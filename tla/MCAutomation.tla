---------------------------- MODULE MCAutomation ----------------------------
(***************************************************************************)
(* Instances of Automation for TLC: one rule that moves the task and then  *)
(* tells somebody, and one that remarks on whatever happens.               *)
(***************************************************************************)
EXTENDS Automation, TLC

CONSTANTS started, closed, mover, remarker, u1, u2

AllMoves   == {<<started, closed>>, <<closed, started>>}
EachHers   == mover :> u1 @@ remarker :> u2
WhenMoved  == mover :> {closed} @@ remarker :> {started, closed}
ThenDoes   == mover :> <<[kind |-> "move", to |-> started], [kind |-> "notify", to |-> started]>>
              @@ remarker :> <<[kind |-> "remark", to |-> started]>>
OneOrOther == {[moves |-> 1, touches |-> 1, edits |-> 0, deaths |-> 1],
               [moves |-> 1, touches |-> 0, edits |-> 1, deaths |-> 1]}
=============================================================================
