------------------------------ MODULE Payables ------------------------------
(***************************************************************************)
(* What the organisation owes and the money that settles it: vendor        *)
(* invoices and expense claims, payments typed in by hand, allocations,    *)
(* reimbursements, and the payment runs that are built one day, approved   *)
(* the next and executed later (apps/api/src/modules/finance/routes.ts,    *)
(* ledgers/routes.ts, the reimbursement of expenses/routes.ts and the      *)
(* invoice handlers of inventory/routes.ts and procurement/routes.ts).     *)
(*                                                                         *)
(* One session is one transaction under READ COMMITTED: a step is one      *)
(* statement, or several that no other session's commit between them could *)
(* make differ.  A handler that locks one row, looks at it and writes it   *)
(* is a single step, which waits while a session holds the row.  A refusal *)
(* rolls everything back.                                                  *)
(*                                                                         *)
(* Left out: permissions and the rule that builder and releaser differ,    *)
(* If-Match, due dates, accounting periods, bank statements.  Each only    *)
(* refuses more.  Receivables are the concern of Billing.                  *)
(***************************************************************************)
EXTENDS Integers, FiniteSets, FiniteSetsExt

CONSTANTS
  Invoices,    \* vendor invoices, in the order the database sorts them
  Claims,      \* approved expense claims
  Typed,       \* payments that may be recorded by hand
  Runs,        \* payment runs
  Sessions,    \* transactions that may run at a time
  Amounts,     \* sums of money
  Withheld,    \* tax an allocation may settle beside its cash
  Waivers,     \* sets of invoices whose failed match a run may waive
  Total,       \* Total[d]: what each document is first due
  Ordered,     \* invoices with a purchase order to be matched against
  MaxBegun,    \* bound: transactions ever begun
  MaxChanges   \* bound: documents and runs changed, payments typed and taken back

Documents == Invoices \cup Claims

\* A payment is typed, or made by a run for one of its lines.
Payments == ({0} \X Typed) \cup (Runs \X Invoices)

ASSUME PayablesConstants ==
  /\ Invoices \subseteq Nat /\ Claims \subseteq Nat /\ Invoices \cap Claims = {}
  /\ Typed \subseteq Nat /\ Runs \subseteq Nat \ {0}
  /\ Amounts \subseteq Nat \ {0} /\ Withheld \subseteq Nat
  /\ Waivers \subseteq SUBSET Invoices /\ Ordered \subseteq Invoices
  /\ Total \in [Documents -> Nat \ {0}]
  /\ MaxBegun \in Nat /\ MaxChanges \in Nat

\* The tables are finite, so that what is allocated can be summed.
ASSUME PayablesFinite == IsFiniteSet(Invoices) /\ IsFiniteSet(Typed) /\ IsFiniteSet(Runs)

VARIABLES
  total,      \* invoices.total, and what was approved of a claim
  cancelled,  \* invoices whose lifecycle_status is CANCELLED
  stopped,    \* invoices on hold or disputed
  matched,    \* invoices whose match_status is MATCHED or OVERRIDDEN
  closed,     \* claims that are REIMBURSED
  paid,       \* payments.amount, 0 while there is no such payment
  reversed,   \* payments with reversed_at
  applied,    \* applied[p][d]: what the live allocations of p settle of d
  drawn,      \* drawn[p]: the cash among them
  settled,    \* settled[d]: the sum over d's live allocations and reimbursements
  runs,       \* payment_runs with their lines
  tx,         \* what each session is at
  begun, changes   \* counters behind the bounds

documents == <<total, cancelled, stopped, matched>>
money == <<paid, reversed, applied, drawn, settled, closed>>
vars == <<documents, money, runs, tx, begun, changes>>

-----------------------------------------------------------------------------
Kinds  == {"allocate", "reimburse", "build", "approve", "execute"}
Stages == {"idle", "own", "documents", "look", "commit"}
States == {"NONE", "DRAFT", "APPROVED", "PAID", "CANCELLED"}

Row(table, id) == <<table, id>>
Rows == ({"payment"} \X Payments) \cup ({"document"} \X Documents)
          \cup ({"run"} \X Runs) \cup {Row("builder", 0)}

NoLines == [i \in Invoices |-> 0]
NoRun == [status |-> "NONE", lines |-> NoLines, waived |-> {}]

Idle == [kind |-> "build", stage |-> "idle", doc |-> 0, payment |-> <<0, 0>>, run |-> 0,
         cash |-> 0, kept |-> 0, waived |-> {}, lines |-> NoLines, has |-> {}]

OnRun(r) == {i \in Invoices : runs[r].lines[i] > 0}
Open(r) == runs[r].status \in {"DRAFT", "APPROVED"}
InOpenRun(i) == \E r \in Runs : Open(r) /\ i \in OnRun(r)

\* A cancelled invoice never owed anything.
Due(d) == IF d \in cancelled THEN 0 ELSE total[d]
Outstanding(d) == total[d] - settled[d]
Unallocated(p) == paid[p] - drawn[p]

\* matchAllowsPayment: without an order there is nothing to match.
MatchAllows(i) == i \in matched \/ i \notin Ordered

-----------------------------------------------------------------------------
(* Row locks, and the advisory lock under which runs are built.             *)

\* staleLines locks the invoices of a run in the order of their ids.
NextInvoice(s) ==
  {Row("document", i) : i \in
     {j \in OnRun(tx[s].run) : Row("document", j) \notin tx[s].has
        /\ \A k \in OnRun(tx[s].run) : k < j => Row("document", k) \in tx[s].has}}

MutClaimNotLocked(s) ==
  CASE tx[s].stage = "own" ->
         {CASE tx[s].kind = "allocate" -> Row("payment", tx[s].payment)
            [] tx[s].kind = "build"    -> Row("builder", 0)
            [] OTHER                   -> Row("run", tx[s].run)}
    [] tx[s].stage = "documents" ->
         IF tx[s].kind = "reimburse" THEN {}
         ELSE IF tx[s].kind = "allocate" THEN {Row("document", tx[s].doc)} ELSE NextInvoice(s)
    [] OTHER -> {}

MutBuildersSideBySide(s) ==
  CASE tx[s].stage = "own" ->
         CASE tx[s].kind = "allocate" -> {Row("payment", tx[s].payment)}
           [] tx[s].kind = "build"    -> {}
           [] OTHER                   -> {Row("run", tx[s].run)}
    [] tx[s].stage = "documents" ->
         IF tx[s].kind \in {"allocate", "reimburse"} THEN {Row("document", tx[s].doc)}
                                                     ELSE NextInvoice(s)
    [] OTHER -> {}

\* The row a session's next statement needs.
Wanted(s) ==
  CASE tx[s].stage = "own" ->
         {CASE tx[s].kind = "allocate" -> Row("payment", tx[s].payment)
            [] tx[s].kind = "build"    -> Row("builder", 0)
            [] OTHER                   -> Row("run", tx[s].run)}
    [] tx[s].stage = "documents" ->
         IF tx[s].kind \in {"allocate", "reimburse"} THEN {Row("document", tx[s].doc)}
                                                     ELSE NextInvoice(s)
    [] OTHER -> {}

WaitsFor(s, t) == s # t /\ Wanted(s) \cap tx[t].has # {}
Granted(s) == \A t \in Sessions : ~WaitsFor(s, t)
Free(row) == \A s \in Sessions : row \notin tx[s].has

-----------------------------------------------------------------------------
(* Transactions of several statements.                                      *)

Begin(s, t) ==
  /\ tx[s].stage = "idle"
  /\ begun < MaxBegun
  /\ begun' = begun + 1
  /\ tx' = [tx EXCEPT ![s] = t]
  /\ UNCHANGED <<documents, money, runs, changes>>

\* POST /payments/:id/allocations
Allocate(s) ==
  \E p \in Payments, d \in Documents, cash \in Amounts \cup {0}, kept \in Withheld :
    /\ paid[p] > 0
    /\ cash + kept > 0
    /\ Begin(s, [Idle EXCEPT !.kind = "allocate", !.stage = "own", !.payment = p, !.doc = d,
                             !.cash = cash, !.kept = kept])

\* POST /expense-claims/:id/reimburse
Reimburse(s) ==
  \E c \in Claims, n \in Amounts :
    Begin(s, [Idle EXCEPT !.kind = "reimburse", !.stage = "documents", !.doc = c, !.cash = n])

\* POST /payment-runs; the match of some invoices may be waived with a reason.
Build(s) ==
  \E r \in Runs, w \in Waivers :
    /\ runs[r].status = "NONE"
    /\ Begin(s, [Idle EXCEPT !.kind = "build", !.stage = "own", !.run = r, !.waived = w])

\* POST /payment-runs/:id/decision with APPROVE, and /payment-runs/:id/execute.
Decide(s, kind) ==
  \E r \in Runs :
    /\ Open(r)
    /\ Begin(s, [Idle EXCEPT !.kind = kind, !.stage = "own", !.run = r])

MutReversedNotReadAgain(s) ==
  CASE tx[s].kind = "allocate" -> TRUE
    [] tx[s].kind = "approve"  -> runs[tx[s].run].status = "DRAFT"
    [] tx[s].kind = "execute"  -> runs[tx[s].run].status = "APPROVED"
    [] OTHER                   -> runs[tx[s].run].status = "NONE"

\* What the row says once it is locked.
Stands(s) ==
  CASE tx[s].kind = "allocate" -> tx[s].payment \notin reversed
    [] tx[s].kind = "approve"  -> runs[tx[s].run].status = "DRAFT"
    [] tx[s].kind = "execute"  -> runs[tx[s].run].status = "APPROVED"
    [] OTHER                   -> runs[tx[s].run].status = "NONE"

LockOwn(s) ==
  /\ tx[s].stage = "own"
  /\ Granted(s)
  /\ LET unread == tx[s].kind = "build" \/ (tx[s].kind # "allocate" /\ OnRun(tx[s].run) = {})
     IN  tx' = [tx EXCEPT ![s] = IF ~Stands(s) THEN Idle ELSE [@ EXCEPT
                  !.has = Wanted(s), !.stage = IF unread THEN "look" ELSE "documents"]]
  /\ UNCHANGED <<documents, money, runs, begun, changes>>

\* The last of them is taken when no other row is wanted.
LockDocument(s) ==
  /\ tx[s].stage = "documents"
  /\ Granted(s)
  /\ LET has == tx[s].has \cup Wanted(s)
         last == tx[s].kind \in {"allocate", "reimburse"}
                   \/ \A i \in OnRun(tx[s].run) : Row("document", i) \in has
     IN  tx' = [tx EXCEPT ![s] = [@ EXCEPT !.has = has,
                  !.stage = IF last THEN "look" ELSE "documents"]]
  /\ UNCHANGED <<documents, money, runs, begun, changes>>

\* documentValue and checkAllocation
MayAllocate(s) ==
  /\ tx[s].doc \notin cancelled \cup stopped
  /\ tx[s].cash <= Unallocated(tx[s].payment)
  /\ tx[s].cash + tx[s].kept <= Outstanding(tx[s].doc)

MayReimburse(s) ==
  /\ tx[s].doc \notin closed
  /\ tx[s].cash <= Outstanding(tx[s].doc)

\* staleLines: a line that can no longer be paid as built.
Stale(r, i) ==
  \/ i \in cancelled \cup stopped
  \/ \E q \in Runs \ {r} : Open(q) /\ i \in OnRun(q)
  \/ ~MatchAllows(i) /\ i \notin runs[r].waived
  \/ Outstanding(i) < runs[r].lines[i]

\* selectForRun over everything not cancelled, in one statement; whether what
\* is not yet due is taken too is the user's choice.
Payable(s, i) ==
  /\ i \notin cancelled \cup stopped
  /\ Outstanding(i) > 0
  /\ ~InOpenRun(i)
  /\ MatchAllows(i) \/ i \in tx[s].waived

Selection(s, due) ==
  [i \in Invoices |-> IF i \in due /\ Payable(s, i) THEN Outstanding(i) ELSE 0]

MutExecuteNotJudged(s) ==
  CASE tx[s].kind = "allocate"  -> MayAllocate(s)
    [] tx[s].kind = "reimburse" -> MayReimburse(s)
    [] tx[s].kind = "approve"   -> \A i \in OnRun(tx[s].run) : ~Stale(tx[s].run, i)
    [] OTHER                    -> TRUE

May(s) ==
  CASE tx[s].kind = "allocate"  -> MayAllocate(s)
    [] tx[s].kind = "reimburse" -> MayReimburse(s)
    [] OTHER                    -> \A i \in OnRun(tx[s].run) : ~Stale(tx[s].run, i)

\* The figures are read, and judged.
Look(s) ==
  /\ tx[s].stage = "look"
  /\ tx[s].kind # "build"
  /\ tx' = [tx EXCEPT ![s] = IF May(s) THEN [@ EXCEPT !.stage = "commit"] ELSE Idle]
  /\ UNCHANGED <<documents, money, runs, begun, changes>>

Select(s) ==
  /\ tx[s].stage = "look"
  /\ tx[s].kind = "build"
  /\ \E due \in SUBSET Invoices :
       tx' = [tx EXCEPT ![s] = [@ EXCEPT !.lines = Selection(s, due), !.stage = "commit"]]
  /\ UNCHANGED <<documents, money, runs, begun, changes>>

Done(s) ==
  /\ tx' = [tx EXCEPT ![s] = Idle]
  /\ UNCHANGED <<documents, begun, changes>>

CommitAllocation(s) ==
  LET p == tx[s].payment
      d == tx[s].doc
      settles == tx[s].cash + tx[s].kept
  IN  /\ tx[s].stage = "commit" /\ tx[s].kind = "allocate"
      /\ applied' = [applied EXCEPT ![p][d] = @ + settles]
      /\ drawn' = [drawn EXCEPT ![p] = @ + tx[s].cash]
      /\ settled' = [settled EXCEPT ![d] = @ + settles]
      /\ Done(s)
      /\ UNCHANGED <<paid, reversed, closed, runs>>

\* The claim closes when nothing is left of it, on the figure read before.
CommitReimbursement(s) ==
  LET c == tx[s].doc IN
  /\ tx[s].stage = "commit" /\ tx[s].kind = "reimburse"
  /\ settled' = [settled EXCEPT ![c] = @ + tx[s].cash]
  /\ closed' = IF settled[c] + tx[s].cash = total[c] THEN closed \cup {c} ELSE closed
  /\ Done(s)
  /\ UNCHANGED <<paid, reversed, applied, drawn, runs>>

\* A line whose invoice is on another open run: the index refuses the insert.
Clashes(s) == \E i \in Invoices : tx[s].lines[i] > 0 /\ InOpenRun(i)

CommitRun(s) ==
  /\ tx[s].stage = "commit" /\ tx[s].kind = "build"
  /\ runs' = IF Clashes(s) THEN runs
             ELSE [runs EXCEPT ![tx[s].run] = [status |-> "DRAFT", lines |-> tx[s].lines,
                                               waived |-> tx[s].waived]]
  /\ Done(s)
  /\ UNCHANGED money

CommitApproval(s) ==
  /\ tx[s].stage = "commit" /\ tx[s].kind = "approve"
  /\ runs' = [runs EXCEPT ![tx[s].run].status = "APPROVED"]
  /\ Done(s)
  /\ UNCHANGED money

\* A payment and an allocation for every line, and the run is PAID.
Pays(s, p) == p[1] = tx[s].run

MutPaysWithoutAllocating(s) ==
  LET lines == runs[tx[s].run].lines IN
  /\ tx[s].stage = "commit" /\ tx[s].kind = "execute"
  /\ paid' = [p \in Payments |-> IF Pays(s, p) THEN lines[p[2]] ELSE paid[p]]
  /\ settled' = [d \in Documents |-> IF d \in Invoices THEN settled[d] + lines[d]
                                                       ELSE settled[d]]
  /\ runs' = [runs EXCEPT ![tx[s].run].status = "PAID"]
  /\ Done(s)
  /\ UNCHANGED <<reversed, applied, drawn, closed>>

CommitExecution(s) ==
  LET lines == runs[tx[s].run].lines IN
  /\ tx[s].stage = "commit" /\ tx[s].kind = "execute"
  /\ paid' = [p \in Payments |-> IF Pays(s, p) THEN lines[p[2]] ELSE paid[p]]
  /\ drawn' = [p \in Payments |-> IF Pays(s, p) THEN lines[p[2]] ELSE drawn[p]]
  /\ applied' = [p \in Payments |-> [d \in Documents |->
                   IF Pays(s, p) /\ d = p[2] THEN lines[d] ELSE applied[p][d]]]
  /\ settled' = [d \in Documents |-> IF d \in Invoices THEN settled[d] + lines[d]
                                                       ELSE settled[d]]
  /\ runs' = [runs EXCEPT ![tx[s].run].status = "PAID"]
  /\ Done(s)
  /\ UNCHANGED <<reversed, closed>>

\* The worker dies, or the database aborts the transaction.
Abort(s) ==
  /\ tx[s].stage # "idle"
  /\ tx' = [tx EXCEPT ![s] = Idle]
  /\ UNCHANGED <<documents, money, runs, begun, changes>>

-----------------------------------------------------------------------------
(* Handlers of one locked row.                                              *)

Changed ==
  /\ changes < MaxChanges
  /\ changes' = changes + 1
  /\ UNCHANGED <<tx, begun>>

\* POST /payments
Pay(p) ==
  /\ paid[p] = 0
  /\ \E n \in Amounts : paid' = [paid EXCEPT ![p] = n]
  /\ Changed
  /\ UNCHANGED <<documents, reversed, applied, drawn, settled, closed, runs>>

\* POST /payments/:id/reverse: every allocation it carried is released.
Reverse(p) ==
  /\ Free(Row("payment", p))
  /\ paid[p] > 0 /\ p \notin reversed
  /\ reversed' = reversed \cup {p}
  /\ settled' = [d \in Documents |-> settled[d] - applied[p][d]]
  /\ applied' = [applied EXCEPT ![p] = [d \in Documents |-> 0]]
  /\ drawn' = [drawn EXCEPT ![p] = 0]
  /\ Changed
  /\ UNCHANGED <<documents, paid, closed, runs>>

\* POST /payment-runs/:id/decision with CANCEL
CancelRun(r) ==
  /\ Free(Row("run", r))
  /\ Open(r)
  /\ runs' = [runs EXCEPT ![r].status = "CANCELLED"]
  /\ Changed
  /\ UNCHANGED <<documents, money>>

MutStopDoesNotWait(i) ==
  /\ stopped' = IF i \in stopped THEN stopped \ {i} ELSE stopped \cup {i}
  /\ Changed
  /\ UNCHANGED <<total, cancelled, matched, money, runs>>

\* POST /ap/invoices/:id/hold and /invoices/:id/dispute, both ways.
Stop(i) ==
  /\ Free(Row("document", i))
  /\ stopped' = IF i \in stopped THEN stopped \ {i} ELSE stopped \cup {i}
  /\ Changed
  /\ UNCHANGED <<total, cancelled, matched, money, runs>>

\* POST /invoices/:id/status with CANCELLED
Cancel(i) ==
  /\ Free(Row("document", i))
  /\ i \notin cancelled
  /\ settled[i] = 0
  /\ cancelled' = cancelled \cup {i}
  /\ Changed
  /\ UNCHANGED <<total, stopped, matched, money, runs>>

\* invoiceLinesLockReason: nobody has relied on the lines yet.
LinesEditable(i) ==
  /\ i \notin cancelled \cup stopped \cup matched
  /\ settled[i] = 0
  /\ \A r \in Runs : i \in OnRun(r) => runs[r].status = "CANCELLED"

\* PATCH /invoices/:id/lines
Revise(i) ==
  /\ Free(Row("document", i))
  /\ LinesEditable(i)
  /\ \E n \in Amounts : total' = [total EXCEPT ![i] = n]
  /\ Changed
  /\ UNCHANGED <<cancelled, stopped, matched, money, runs>>

\* POST /invoices/:id/match, with either verdict.
Match(i) ==
  /\ Free(Row("document", i))
  /\ \E S \in {matched \cup {i}, matched \ {i}} : matched' = S
  /\ Changed
  /\ UNCHANGED <<total, cancelled, stopped, money, runs>>

-----------------------------------------------------------------------------
Init ==
  /\ total = Total
  /\ cancelled = {} /\ stopped = {} /\ matched = {} /\ closed = {}
  /\ paid = [p \in Payments |-> 0]
  /\ reversed = {}
  /\ applied = [p \in Payments |-> [d \in Documents |-> 0]]
  /\ drawn = [p \in Payments |-> 0]
  /\ settled = [d \in Documents |-> 0]
  /\ runs = [r \in Runs |-> NoRun]
  /\ tx = [s \in Sessions |-> Idle]
  /\ begun = 0 /\ changes = 0

Session(s) ==
  \/ Allocate(s) \/ Reimburse(s) \/ Build(s)
  \/ Decide(s, "approve") \/ Decide(s, "execute")
  \/ LockOwn(s) \/ LockDocument(s) \/ Look(s) \/ Select(s)
  \/ CommitAllocation(s) \/ CommitReimbursement(s)
  \/ CommitRun(s) \/ CommitApproval(s) \/ CommitExecution(s)
  \/ Abort(s)

Next ==
  \/ \E s \in Sessions : Session(s)
  \/ \E p \in {0} \X Typed : Pay(p)
  \/ \E p \in Payments : Reverse(p)
  \/ \E r \in Runs : CancelRun(r)
  \/ \E i \in Invoices : Stop(i) \/ Cancel(i) \/ Revise(i)
  \/ \E i \in Ordered : Match(i)

Spec == Init /\ [][Next]_vars

-----------------------------------------------------------------------------
(* Properties.                                                              *)

\* The sum of the live allocations A of a document.
Allocated(A, d) == MapThenSumSet(LAMBDA p : A[p][d], Payments)

\* Shapes; and what is settled of an invoice is what its allocations add up to.
TypeOK ==
  /\ total \in [Documents -> Nat \ {0}]
  /\ cancelled \subseteq Invoices /\ stopped \subseteq Invoices
  /\ matched \subseteq Ordered /\ closed \subseteq Claims
  /\ paid \in [Payments -> Nat] /\ reversed \subseteq Payments
  /\ applied \in [Payments -> [Documents -> Nat]] /\ drawn \in [Payments -> Nat]
  /\ \A i \in Invoices : settled[i] = Allocated(applied, i)
  /\ \A c \in Claims : settled[c] >= Allocated(applied, c)
  /\ runs \in [Runs -> [status : States, lines : [Invoices -> Nat], waived : SUBSET Invoices]]
  /\ tx \in [Sessions -> [kind : Kinds, stage : Stages, doc : Documents \cup {0},
                          payment : Payments \cup {<<0, 0>>}, run : Runs \cup {0}, cash : Nat,
                          kept : Nat, waived : SUBSET Invoices, lines : [Invoices -> Nat],
                          has : SUBSET Rows]]
  /\ begun \in 0 .. MaxBegun /\ changes \in 0 .. MaxChanges

\* No document is ever settled beyond what is due on it, nothing of a
\* cancelled one, whichever routes pay it at the same time: by hand, by a run,
\* by a reimbursement (the row locks before the figures are read).
NotOverpaid == \A d \in Documents : settled[d] <= Due(d)

\* No payment is applied beyond what it was, nor after it was taken back.
NotOverspent ==
  \A p \in Payments :
    /\ drawn[p] <= paid[p]
    /\ p \in reversed => \A d \in Documents : applied[p][d] = 0

\* A run that is built leaves out what is on another, so that the index that
\* forbids it never has to refuse a whole run (ledgers/routes.ts:440).
NeverClashes == \A s \in Sessions : tx[s].stage = "commit" => ~Clashes(s)

\* When a run is paid, every line of it stands at that moment, however long
\* ago it was approved: not stopped, not cancelled, matched or waived, and
\* still owed in full (staleLines, judged again under the invoices' locks).
PaysWhatStands ==
  [][\A r \in Runs : runs[r].status = "APPROVED" /\ runs'[r].status = "PAID" =>
       \A i \in OnRun(r) : ~Stale(r, i)]_vars

\* Payables implement the promise about what is due.
Promise == INSTANCE Dues WITH
  due  <- [d \in Documents |-> Due(d)],
  paid <- settled,
  open <- [d \in Documents |-> d \notin cancelled \cup stopped]

Kept == Promise!Spec
============================================================================
