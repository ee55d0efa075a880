-------------------------------- MODULE Dues --------------------------------
(***************************************************************************)
(* What the money routes promise together about every document that is     *)
(* owed: it is settled by no more than is due on it and only while it      *)
(* stands, what settled it may be taken back, and what is due never        *)
(* changes to less than is settled.                                        *)
(***************************************************************************)
EXTENDS Integers

CONSTANT Documents

VARIABLES
  due,    \* what is due on each document: nothing on a cancelled one
  paid,   \* what is settled of it
  open    \* whether it may be paid now

vars == <<due, paid, open>>

Init ==
  /\ due \in [Documents -> Nat]
  /\ paid = [d \in Documents |-> 0]
  /\ open \in [Documents -> BOOLEAN]

\* Money is applied, to one document or to several at once.
Settle ==
  /\ paid' \in [Documents -> Int]
  /\ \A d \in Documents :
       \/ paid'[d] = paid[d]
       \/ paid'[d] > paid[d] /\ open[d] /\ paid'[d] <= due[d]
  /\ UNCHANGED <<due, open>>

\* Money is taken back.
Release ==
  /\ paid' \in [Documents -> Int]
  /\ \A d \in Documents : paid'[d] <= paid[d]
  /\ UNCHANGED <<due, open>>

\* A document is stopped, released, revised or cancelled.
Change(d) ==
  /\ due' \in [Documents -> Nat] /\ open' \in [Documents -> BOOLEAN]
  /\ \A e \in Documents \ {d} : due'[e] = due[e] /\ open'[e] = open[e]
  /\ due'[d] # due[d] => paid[d] <= due'[d]
  /\ UNCHANGED paid

Next == Settle \/ Release \/ \E d \in Documents : Change(d)

Spec == Init /\ [][Next]_vars
============================================================================
