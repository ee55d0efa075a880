------------------------------ MODULE Billing ------------------------------
(***************************************************************************)
(* The running-account bills of one project: measured, submitted,          *)
(* certified by the client and paid; the receipts allocated to them; the   *)
(* retention and the advance recoveries that certification moves           *)
(* (apps/api/src/modules/billing/routes.ts, the RA_BILL side of            *)
(* finance/routes.ts, packages/shared/src/ra-billing.ts).                  *)
(*                                                                         *)
(* Raising a bill, allocating a receipt and releasing retention are        *)
(* transactions of several statements under READ COMMITTED, a step each.   *)
(* Moving a bill locks the one row it judges, and what it withholds waits  *)
(* for the project's, so that it is a single step, at its end.             *)
(*                                                                         *)
(* A measurement is one running total: items do not depend on each other.  *)
(* Tax and the statutory heads, which only shift what a bill is worth, are *)
(* left out, as are permissions, If-Match, the dispute flag and the date   *)
(* before which no retention is released.                                  *)
(***************************************************************************)
EXTENDS Integers, FiniteSets, FiniteSetsExt, Functions

CONSTANTS
  MaxBills,   \* bound: bills ever raised
  Receipts,   \* receipts from the client that stand at a time, each for one bill
  Advances,   \* advances from the client, in the order they were paid
  Sessions,   \* transactions that may run at a time
  Measures,   \* running totals that may be measured
  Amounts,    \* sums received, certified or released
  Advanced,   \* Advanced[a]: what was advanced
  RetainIn,   \* retention is one part in RetainIn of a bill
  RecoverIn,  \* and an instalment of an advance one part in RecoverIn
  Cap         \* retention stops here

ASSUME BillingConstants ==
  /\ MaxBills \in Nat
  /\ Advances \subseteq Nat /\ Advanced \in [Advances -> Nat]
  /\ Measures \subseteq Nat /\ Amounts \subseteq Nat
  /\ RetainIn \in Nat \ {0} /\ RecoverIn \in Nat \ {0} /\ Cap \in Nat

\* The tables are finite, so that what they hold can be summed.
ASSUME BillingFinite == IsFiniteSet(Receipts) /\ IsFiniteSet(Advances)

Bills == 1 .. MaxBills

VARIABLES
  bills,      \* ra_bills with their line and deductions
  applied,    \* what each receipt settles, and of which bill
  settled,    \* settled[b]: the sum over b's live allocations
  recovered,  \* project_advances.recovered_amount
  withheld, released,   \* retention_ledger, by type of entry
  tx          \* what each session is at

vars == <<bills, applied, settled, recovered, withheld, released, tx>>

-----------------------------------------------------------------------------
Open == {"DRAFT", "SUBMITTED"}
Certified == {"CERTIFIED", "PAID"}
Payable == {"SUBMITTED"} \cup Certified
Statuses == Open \cup Certified \cup {"NONE", "CANCELLED"}

Transitions == {<<"DRAFT", "SUBMITTED">>, <<"DRAFT", "CANCELLED">>, <<"SUBMITTED", "CERTIFIED">>,
                <<"SUBMITTED", "DRAFT">>, <<"SUBMITTED", "CANCELLED">>, <<"CERTIFIED", "PAID">>,
                <<"CERTIFIED", "CANCELLED">>}

NoRecovery == [a \in Advances |-> 0]
NoBill == [status |-> "NONE", final |-> FALSE, upto |-> 0, gross |-> 0, net |-> 0,
           retention |-> 0, recovers |-> NoRecovery, certified |-> 0]

Unapplied == [bill |-> 0, amount |-> 0]

Kinds  == {"raise", "receive", "release"}
Stages == {"idle", "previous", "held", "advances", "look", "commit"}

Idle == [kind |-> "raise", stage |-> "idle", bill |-> 0, receipt |-> CHOOSE p \in Receipts : TRUE,
         amount |-> 0, upto |-> 0, final |-> FALSE, previous |-> 0, held |-> 0,
         recovery |-> NoRecovery]

Raised == {b \in Bills : bills[b].status # "NONE"}
Billed == {b \in Bills : bills[b].status \in Certified}
Standing == {b \in Raised : bills[b].status # "CANCELLED"}
Held == withheld - released

\* documentValue: what a bill is worth to its receipts.
Worth(b) ==
  CASE bills[b].status = "SUBMITTED" -> bills[b].net
    [] bills[b].status \in Certified -> bills[b].certified
    [] OTHER                         -> 0

-----------------------------------------------------------------------------
(* Requests, and the rows they lock: the project's for raising and          *)
(* releasing, the receipt's and the bill's for receiving.                   *)

\* A session at work holds its rows until it commits.
At(s, kind) == tx[s].stage # "idle" /\ tx[s].kind = kind
ProjectFree == \A s \in Sessions : ~At(s, "raise") /\ ~At(s, "release")
BillFree(b) == \A s \in Sessions : At(s, "receive") => tx[s].bill # b
ReceiptFree(p) == \A s \in Sessions : At(s, "receive") => tx[s].receipt # p

\* A request that waits for its first lock has read nothing yet, so that it
\* begins when it gets the lock.
Begin(s, t) ==
  /\ tx[s].stage = "idle"
  /\ tx' = [tx EXCEPT ![s] = t]
  /\ UNCHANGED <<bills, applied, settled, recovered, withheld, released>>

Go(s, stage) == tx' = [tx EXCEPT ![s].stage = stage]
Leave(s) == tx' = [tx EXCEPT ![s] = Idle]

MutRaisesSideBySide(s) ==
  /\ \A b \in Standing : ~bills[b].final
  /\ \E upto \in Measures, final \in BOOLEAN :
       Begin(s, [Idle EXCEPT !.kind = "raise", !.stage = "previous", !.upto = upto, !.final = final])

\* POST /ra-bills: refused once a final bill stands.
Raise(s) ==
  /\ ProjectFree
  /\ \A b \in Standing : ~bills[b].final
  /\ \E upto \in Measures, final \in BOOLEAN :
       Begin(s, [Idle EXCEPT !.kind = "raise", !.stage = "previous", !.upto = upto, !.final = final])

\* POST /payments/:id/allocations, to a bill that takes receipts.
Receive(s) ==
  \E p \in Receipts, b \in Bills, n \in Amounts \ {0} :
    /\ ReceiptFree(p) /\ BillFree(b)
    /\ applied[p] = Unapplied
    /\ bills[b].status \in Payable
    /\ Begin(s, [Idle EXCEPT !.kind = "receive", !.stage = "look", !.receipt = p, !.bill = b,
                             !.amount = n])

MutReleaseUnlocked(s) ==
  \E n \in Amounts \ {0} :
    Begin(s, [Idle EXCEPT !.kind = "release", !.stage = "look", !.amount = n])

\* POST /projects/:id/retention/release
Release(s) ==
  /\ ProjectFree
  /\ \E n \in Amounts \ {0} :
       Begin(s, [Idle EXCEPT !.kind = "release", !.stage = "look", !.amount = n])

-----------------------------------------------------------------------------
(* Raising a bill.                                                          *)

\* previouslyCertified: the largest running total certified.
Previous == Max({bills[b].upto : b \in Billed} \cup {0})

ReadPrevious(s) ==
  /\ tx[s].stage = "previous"
  /\ IF tx[s].upto <= Previous /\ ~tx[s].final THEN Leave(s)   \* NOTHING_TO_BILL
     ELSE tx' = [tx EXCEPT ![s] = [@ EXCEPT !.previous = Previous, !.stage = "held"]]
  /\ UNCHANGED <<bills, applied, settled, recovered, withheld, released>>

ReadHeld(s) ==
  /\ tx[s].stage = "held"
  /\ tx' = [tx EXCEPT ![s] = [@ EXCEPT !.held = Held, !.stage = "advances"]]
  /\ UNCHANGED <<bills, applied, settled, recovered, withheld, released>>

AtLeastNone(n) == IF n < 0 THEN 0 ELSE n
Lesser(m, n) == IF m < n THEN m ELSE n
Share(gross, parts) == AtLeastNone(gross) \div parts

\* recoverAdvance: an instalment, and the last one what is left.
Recovery(gross) ==
  [a \in Advances |-> Lesser(Advanced[a] - recovered[a], Share(gross, RecoverIn))]

ReadAdvances(s) ==
  /\ tx[s].stage = "advances"
  /\ tx' = [tx EXCEPT ![s] = [@ EXCEPT !.recovery = Recovery(tx[s].upto - tx[s].previous),
                                       !.stage = "commit"]]
  /\ UNCHANGED <<bills, applied, settled, recovered, withheld, released>>

\* advanceByHead: instalments of the same amount are all put down to the
\* advance paid last.
Attributed(recovery) ==
  [a \in Advances |->
     IF \E c \in Advances : c > a /\ recovery[c] = recovery[a] THEN 0
     ELSE recovery[a] * Cardinality({c \in Advances : recovery[c] = recovery[a]})]

\* raBillLine and computeRaBill
Drawn(s) ==
  LET gross == tx[s].upto - tx[s].previous
      retention == AtLeastNone(Lesser(Share(gross, RetainIn), Cap - tx[s].held))
  IN  [status |-> "DRAFT", final |-> tx[s].final, upto |-> tx[s].upto, gross |-> gross,
       net |-> gross - retention - FoldFunction(+, 0, tx[s].recovery),
       retention |-> retention, recovers |-> Attributed(tx[s].recovery), certified |-> 0]

\* The next number, unless a bill is open or, for a final one, a final one
\* stands (uk_ra_one_open, uk_ra_one_final).
Insert(s) ==
  LET clash == \/ \E b \in Bills : bills[b].status \in Open
               \/ tx[s].final /\ \E b \in Standing : bills[b].final
  IN  /\ tx[s].stage = "commit" /\ tx[s].kind = "raise"
      /\ clash \/ Raised # Bills
      /\ bills' = IF clash THEN bills ELSE [bills EXCEPT ![Cardinality(Raised) + 1] = Drawn(s)]
      /\ Leave(s)
      /\ UNCHANGED <<applied, settled, recovered, withheld, released>>

-----------------------------------------------------------------------------
(* Receipts and retention.                                                  *)

Look(s) ==
  /\ tx[s].stage = "look"
  /\ LET within == IF tx[s].kind = "receive"
                     THEN tx[s].amount <= Worth(tx[s].bill) - settled[tx[s].bill]
                     ELSE tx[s].amount <= Held
     IN  IF within THEN Go(s, "commit") ELSE Leave(s)
  /\ UNCHANGED <<bills, applied, settled, recovered, withheld, released>>

Allocate(s) ==
  /\ tx[s].stage = "commit" /\ tx[s].kind = "receive"
  /\ applied' = [applied EXCEPT ![tx[s].receipt] = [bill |-> tx[s].bill, amount |-> tx[s].amount]]
  /\ settled' = [settled EXCEPT ![tx[s].bill] = @ + tx[s].amount]
  /\ Leave(s)
  /\ UNCHANGED <<bills, recovered, withheld, released>>

PayOut(s) ==
  /\ tx[s].stage = "commit" /\ tx[s].kind = "release"
  /\ released' = released + tx[s].amount
  /\ Leave(s)
  /\ UNCHANGED <<bills, applied, settled, recovered, withheld>>

MutReversalStillCounted(p) ==
  /\ applied[p] # Unapplied
  /\ ReceiptFree(p)
  /\ applied' = [applied EXCEPT ![p] = Unapplied]
  /\ UNCHANGED <<bills, settled, recovered, withheld, released, tx>>

\* POST /payments/:id/reverse; its place is free for another receipt.
Reverse(p) ==
  /\ applied[p] # Unapplied
  /\ ReceiptFree(p)
  /\ settled' = [settled EXCEPT ![applied[p].bill] = @ - applied[p].amount]
  /\ applied' = [applied EXCEPT ![p] = Unapplied]
  /\ UNCHANGED <<bills, recovered, withheld, released, tx>>

-----------------------------------------------------------------------------
(* POST /ra-bills/:id/status                                                *)

\* Certification withholds the retention and pays the advances down, which
\* the schema refuses beyond what was advanced.  The entry in retention_ledger
\* refers to the project and waits for whoever raises or releases there; a bill
\* without retention makes none.
Certifies(b) ==
  /\ bills[b].retention > 0 => ProjectFree
  /\ withheld' = withheld + bills[b].retention
  /\ recovered' = [a \in Advances |-> recovered[a] + bills[b].recovers[a]]
  /\ \A a \in Advances : recovered'[a] <= Advanced[a]

MutMoveDoesNotWait(b, next, figure) ==
  /\ <<bills[b].status, next>> \in Transitions
  /\ settled[b] <= (IF next = "CERTIFIED" THEN figure
                    ELSE IF next = "PAID" THEN bills[b].certified ELSE 0)
  /\ bills' = [bills EXCEPT ![b].status = next,
                            ![b].certified = IF next = "CERTIFIED" THEN figure ELSE @]
  /\ IF next = "CERTIFIED" THEN Certifies(b) ELSE UNCHANGED <<withheld, recovered>>
  /\ UNCHANGED <<applied, settled, released, tx>>

\* What the bill will be worth must cover what is allocated to it.
Move(b, next, figure) ==
  /\ BillFree(b)
  /\ <<bills[b].status, next>> \in Transitions
  /\ settled[b] <= (IF next = "CERTIFIED" THEN figure
                    ELSE IF next = "PAID" THEN bills[b].certified ELSE 0)
  /\ bills' = [bills EXCEPT ![b].status = next,
                            ![b].certified = IF next = "CERTIFIED" THEN figure ELSE @]
  /\ IF next = "CERTIFIED" THEN Certifies(b) ELSE UNCHANGED <<withheld, recovered>>
  /\ UNCHANGED <<applied, settled, released, tx>>

\* The figure is the net of the bill, or what the client says, never more than
\* the work is worth.
Figures(b, next) ==
  IF next = "CERTIFIED" THEN {bills[b].net} \cup {n \in Amounts : n <= bills[b].gross} ELSE {0}

-----------------------------------------------------------------------------
\* The worker dies, or the request is given up.
Abort(s) ==
  /\ tx[s].stage # "idle"
  /\ Leave(s)
  /\ UNCHANGED <<bills, applied, settled, recovered, withheld, released>>

Init ==
  /\ bills = [b \in Bills |-> NoBill]
  /\ applied = [p \in Receipts |-> Unapplied]
  /\ settled = [b \in Bills |-> 0]
  /\ recovered = NoRecovery
  /\ withheld = 0 /\ released = 0
  /\ tx = [s \in Sessions |-> Idle]

Next ==
  \/ \E s \in Sessions :
       \/ Raise(s) \/ Receive(s) \/ Release(s)
       \/ ReadPrevious(s) \/ ReadHeld(s) \/ ReadAdvances(s) \/ Insert(s)
       \/ Look(s) \/ Allocate(s) \/ PayOut(s) \/ Abort(s)
  \/ \E p \in Receipts : Reverse(p)
  \/ \E b \in Raised, next \in Statuses : \E figure \in Figures(b, next) : Move(b, next, figure)

Spec == Init /\ [][Next]_vars

-----------------------------------------------------------------------------
(* Properties.                                                              *)

\* The sum of what the live receipts A settle of a bill.
Received(A, b) == MapThenSumSet(LAMBDA p : A[p].amount, {p \in Receipts : A[p].bill = b})

\* Shapes; and what is settled of a bill is what its receipts add up to.
TypeOK ==
  /\ bills \in [Bills -> [status : Statuses, final : BOOLEAN, upto : Nat, gross : Int, net : Int,
                          retention : Nat, recovers : [Advances -> Nat], certified : Nat]]
  /\ applied \in [Receipts -> [bill : Bills \cup {0}, amount : Nat]]
  /\ \A b \in Bills : settled[b] = Received(applied, b)
  /\ recovered \in [Advances -> Nat] /\ withheld \in Nat /\ released \in Nat
  /\ tx \in [Sessions -> [kind : Kinds, stage : Stages, bill : Bills \cup {0}, amount : Nat,
                          receipt : Receipts \cup {Idle.receipt}, upto : Nat, final : BOOLEAN,
                          previous : Nat, held : Int, recovery : [Advances -> Nat]]]

\* No retention is released that was not withheld, whoever releases at the
\* same time (the project's row lock around the ledger's sum).
HeldNeverNegative == Held >= 0

\* Nothing follows a final bill that stands (034_ra_billing.sql:171), though
\* the check is made long before the bill is written.
FinalIsLast ==
  \A f \in Standing : bills[f].final => \A b \in Raised : b <= f

\* Bills implement the promise about what is due: no receipt beyond what the
\* bill is worth at its status, none stranded by a lower certification, a
\* return to draft or a cancellation.
Promise == INSTANCE Dues WITH
  Documents <- Bills,
  due  <- [b \in Bills |-> AtLeastNone(Worth(b))],
  paid <- settled,
  open <- [b \in Bills |-> bills[b].status \in Payable]

Kept == Promise!Spec

\* The schema's comment: only one bill may be in progress at a time, or two
\* people are billing the same work (034_ra_billing.sql:167).  Together the
\* certified bills claim no more than the most that was measured.
NotBilledTwice ==
  MapThenSumSet(LAMBDA b : bills[b].gross, Billed) <= Previous
============================================================================
