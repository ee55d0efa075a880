# Silverline ERP: models, checks and proofs

Silverline is an ERP for field operations: a Fastify API over PostgreSQL
(`apps/api`), a phone app for crews who are often offline (`apps/mobile`), a web
client (`apps/web`) and shared rules (`packages/shared`). This directory holds
TLA+ models of the parts whose correctness depends on order (who runs when, what
is lost, what dies half-way), the TLC configurations that check them, and
proofs checked by TLAPS.

Contents: [inventory](#1-inventory), [the models](#2-the-models-and-the-code),
[the runs](#3-the-runs), [abstractions](#4-abstractions-and-bounds),
[fairness](#5-fairness), [the proofs](#6-the-proofs),
[disagreements found](#7-where-code-and-comments-disagree),
[not modelled](#8-what-is-not-modelled), [the plan](#9-the-plan).

## 1. Inventory

| Part | State | Operations | Interacts with | Hard behaviour |
|---|---|---|---|---|
| **Phone outbox** `mobile/src/sync/queueCore.ts`, `dbCore.ts`, `schema.ts`, `policy.ts`, `engine.ts`, `replay.ts` | SQLite table `pending_ops`, one database per account; the one flush and what it has in hand | enqueue, retry, discard, purge, recover on open, sign-out/in, flush (snapshot, look-ahead, claim, freeze, send, settle) | screens file into it; the flush calls the API; the engine ticks it | death of the app at any await; the account's handle closed under a flush; lost and late replies; user actions between two statements |
| **Survey returns** `mobile/src/sync/surveyEntryOp.ts`, `survey/*` | on each row: the return, its base version, the list of requests that may have landed | file (fold in or queue behind), POST, replay, read, PATCH, hand-over to a newer row | outbox, `POST/PATCH /survey/entries` | telling its own lost work from a supervisor's correction |
| **HTTP client and session** `mobile/src/api/client.ts` | tokens, deadline of each request | request, refresh and resend | outbox, auth | a deadline passes after the server committed |
| **API write wrappers** `api/src/common/domain.ts` (`mutate`), `mutationRoute.ts` | receipts `v2_operations`, `mutation_receipts`; audit rows | once per idempotency key | every writing route | the same key on several workers, workers dying around the commit, refusals that are kept as evidence and found by key and employee |
| **Stock ledger** `api/src/modules/stock`, `inventory`, `procurement`, `common/stockLedger.ts` | `stock_transactions`; reservations; counts; receipts and returns | post, post without a place, reserve, release, count, approve, reject, receive, return | low-stock notices | balances summed by every statement under READ COMMITTED; row locks, those that foreign keys take included |
| **Payables** `modules/finance`, `modules/ledgers`, reimbursement in `expenses`, invoice routes of `inventory` and `procurement` | invoices, claims, payments, allocations, runs with their lines, periods | pay, reverse, allocate, reimburse, build / approve / cancel / execute a run, hold, dispute, cancel, revise, match, close a period | `mutate`; vendors | a claim paid by two routes; a run executed after its invoices changed; two runs built at once |
| **Running-account billing** `modules/billing`, `shared/ra-billing.ts` | bills, retention ledger, advances | raise, submit, certify, cancel, pay, release retention | receipts in `finance` | a bill raised while the one before is certified; a receipt on a bill that shrinks |
| **Sessions** `modules/auth`, `common/rateLimit.ts` | refresh tokens in families, attempt counters | sign in, rotate, sign out, revoke | phone client | lost reply to a rotation; sign-out beside a rotation; attempts counted, then recorded |
| **Job worker** `modules/automation`, `integrations`, `jobs` | domain events, rule executions, deliveries | take an event, judge rules, run actions, record, file and post deliveries, put off | task routes under receipts, webhooks | dead or answered 500 between an effect and its record; rules and roles edited meanwhile; at-least-once posts |
| **Approvals, leave, payroll, attendance, survey stages** | versioned documents | submit, decide, recall, open a year, lock a run | each other through employees | two deciders; balances beside requests |
| **Records** (people, CRM, tender, assets, documents, holidays) | versioned rows | create, update | `mutate` | little beyond the version |
| **Reports, screens, start-up** | none of its own | read, render, migrate | all | none |

What makes the core parts correct:

* *Outbox.* What the user filed takes effect at most once, never disappears, is
  sent with one body per key, is sent in the order filed per record, and is
  settled in the end.
* *Survey returns.* A correction made by somebody else is never overwritten
  unseen; an older filing never replaces a newer; the newest is never lost; a
  conflict is only reported for a reason.
* *Write wrappers.* The work of a key, its receipt and the audit row the wrapper
  owes it stand or fall together, once; a refused punch is kept once, and never
  beside one that took effect; a waiting request is served.
* *Stock.* No place is overdrawn and nothing promised twice without the
  permission; a count posts once; no more goes back than came; lock orders do
  not collide; a notice per crossing.
* *Payables.* Nothing is settled beyond what is due on it, by whatever routes;
  no payment is spent twice or after its reversal; an invoice is on one open run;
  what a run pays stands at that moment.
* *Billing.* A bill claims what was measured less what is claimed already; no
  receipt exceeds what its bill is worth or is stranded by a change of it;
  retention released was withheld; nothing follows a final bill.
* *Worker.* However often an event is gone through, no action of a rule is done
  twice; a record says what happened and is final; everything ends.

`PROJECT.json` lists all components, including those left out, and every
hazard at its line.

## 2. The models and the code

```
OutboxRows  <-- Outbox        <-- MCOutbox
     ^
     +--------- SurveyOutbox  <-- MCSurvey, SurveyOutbox_proofs
SurveyRequests <-+            <-- SurveySessions <-- MCSurveySessions
OncePerKey  <== Receipts      <-- MCReceipts, Receipts_proofs     (<== : implements)
OutboxRows  <-- Outbox        <-- Outbox_proofs
Stock       <-- MCStock, Stock_proofs
Dues        <== Payables      <-- MCPayables, Payables_proofs
     ^
     +========= Billing       <-- MCBilling, Billing_proofs
Automation  <-- MCAutomation, Automation_proofs
DataLemmas  <-- Outbox_proofs, SurveyOutbox_proofs, Stock_proofs, Payables_proofs,
                Billing_proofs
```

**OutboxRows** is the table: which rows are active, newest, ahead, ready, and
what each SQL statement leaves in a row. **Outbox** is the system around it.
`rows` is `pending_ops` by operation, `flush` the locals of `flushQueue`
(snapshot, row in hand, body, reply), `net` the requests under way, `receipts`,
`effects` and `opened` what the server keeps. Each action is what happens under
the queue's one lock, or between two awaits: `Enqueue`, `Retry`, `Discard`,
`Restart`, `SignOut`, `SignIn` for the user and the operating system;
`StartFlush`, `LookAhead`, `Claim`, `CannotOpen`, `Freeze`, `Send`, `TimeOut`,
`Settle`, `EndFlush` for the flush. `LookAhead` and `Claim` are two actions
because the code counts what is ahead outside the lock and claims inside it.
A sign-out leaves the flush running with a closed handle (`stale`): its next
statement throws.

**SurveyRequests** holds `surveyEntryOp.ts`' list of earlier requests (`Trim`,
`Landed`, `Dropped`, `Chain`) and the server's answer to one request.
**SurveyOutbox** runs the executor one await at a time: `SendReturn` (recorded,
then posted), `ReadDay`, the replays, `ReadDayAgain`, `AmendFrom`, `Settle`,
with lost replies, requests that arrive late, a supervisor's edits, and deaths
of the app. **SurveySessions** adds the sign-out and sign-in during a request.

**Receipts** is `mutate`/`mutationRoute` statement by statement for any number
of attempts: `Begin`, `Lock`, `FindReceipt`, `Work`, `Refuse`, `RefuseAndKeep`,
`Commit`, `Rollback`, `Answer`, `Die`. **OncePerKey** is what a caller may rely
on: one step in which a key is applied, and answers that agree with it.
`Contracted` states that Receipts implements it. Outbox takes one atomic server
step per request on the strength of that. A body says whose punch it is, if it
is one (`Puncher`). A punch from a mock location is refused and kept without a
receipt, so the key is free for anything else; only the punch handler looks for
what was kept, by key and employee (`Seen`, `attendance/routes.ts:980-989`). A
request of another route, or for another employee, is worked on under that key
as if nothing had been kept. `mutate` writes an audit row for every write,
`mutationRoute` for three URLs (`Audited`, `mutationRoute.ts:36-39`).

**Stock** runs each transaction by its statements: the document's row locked and
read (`LockDocument`), the item's row (`LockItem`), check and first reading
(`Look`), posting, second reading and notice (`Write`), `Commit`, `Abort`. `total` is
`itemOnHand` (everything posted for an item), `placed` is `onHandAt`; the code
derives neither from the other and nor does the model. A session sees the
committed sums plus its own writes, as READ COMMITTED has it. A goods receipt and
a count ask for no lock, but each line they insert names its item by a foreign
key (`009_v2.sql:16`, `043_inventory_control.sql:182`), for which the database
holds the item's row FOR KEY SHARE until the commit: that goes with another of
its kind and waits for a posting's FOR UPDATE. So they are entered line by line in
the order of the request (`Receive` or `Count`, `Compare`, `Insert`, then
`Received` or `Counted`, or `Drop`), beside the sessions and in the same rings of
waits (`WaitsFor`).

**Dues** is what the money routes promise of every document: it is settled only
while it is open and by no more than is due, what settled it may be taken back,
and what is due never falls below what is settled. Two modules implement it.

**Payables** has the routes that settle what the organisation owes. A session
(`tx`) is one transaction: `Allocate`, `Reimburse`, `Build` and `Decide` begin
it, `LockOwn` takes the row it starts from (the payment, the run, or the advisory
lock under which runs are built), `LockDocument` the documents (those of a run in
the order of their ids), `Look` and `Select` read the figures, and one `Commit...`
per route writes. `Stale` is `staleLines`, judged at approval and again at
execution. Handlers that lock one row, look at it and write it are single steps
that wait for that row: `Pay`, `Reverse`, `CancelRun`, `Stop` (hold and dispute),
`Cancel`, `Revise`, `Match`. `settled[d]` is the sum the queries compute;
`TypeOK` compares it with the allocations it is the sum of.

**Billing** has one project's bills. `Raise` is split where the code reads:
`ReadPrevious` (what is certified), `ReadHeld` (retention), `ReadAdvances`,
`Insert` (with the two unique indexes); `Move` is the status route with
everything certification moves. It locks the bill, and waits for the project only
when the bill it certifies has retention: the row it inserts then names the
project by a foreign key (`billing/routes.ts:451`, `034_ra_billing.sql:241`).
`Attributed` is `advanceByHead`, which looks an advance up by the head and the
amount of its instalment: of two equal instalments the later advance is paid
down for both.

**Automation** has the events of one task and the one worker. `Take` reads the
event, the task and the rules that are on; `Judge` passes a rule over, records
it as refused, or begins it; `Look` and `Act` alternate for each action, a
request under the key `event:rule:index` kept per user, which commits once
(`Commit`, an atomic step on the strength of Receipts); `Record`, then `Finish`
files the delivery and marks the event. `PutOff` is the `catch`, `LoseAnswer` a
request that commits and is answered 500, `Die` the end of the process, which
gives the advisory lock back. `effects` and `heard` are histories: what the
rules did, and what the subscriber took.

## 3. The runs

| Run | Instance | Shows |
|---|---|---|
| `Outbox` | two operations, a check-in and a check-out or two said of one record; one death or sign-out, one user retry; 1.0 M states | `AtMostOnce`, `NothingLost`, `OneBodyPerKey`, `FiledOrder`, and `Settles` under fairness if flushes get begun |
| `Survey` | several filings beside a supervisor, or fewer with more faults (lost replies, a death, a row put back); 2.5 M states | `NoSilentOverwrite`, `NeverBackwards`, `LatestKept` (these three as long as no failed return is put back after a newer filing), `OwnWorkRemembered` (for lists that never had more to keep than `PriorMax`), `ConflictHasCause` |
| `Receipts` | two attempts that come again and again, one key, the punches of two employees and a write of another route; 152 k states | `AllOrNothing`, `Consistent`, the refinement `Contracted`, and `Answers` under fairness |
| `Stock` | two transactions of any kind at a time, goods receipts and counts being entered among them, two items, two places, two counts, one receipt; 0.64 M states | `NotOverdrawn`, `PromisedOnce`, `AdjustedOnce`, `ReturnsWithinReceipt`, `ApprovalsKeepOrder`, `NoticedOnce` |
| `Payables` | two invoices (one with an order), a claim, two runs, one typed payment; two transactions at a time, four in all, and one change; 0.42 M states | `NotOverpaid`, `NotOverspent`, `NeverClashes`, `PaysWhatStands`, the refinement `Kept` |
| `Billing` | two bills, with retention and without, two receipts, two advances, two transactions at a time; 0.52 M states | `HeldNeverNegative`, `FinalIsLast`, the refinement `Kept` |
| `Automation` | two rules of two owners, a move by a person, a death, and another change or an edit; two attempts at each event and delivery; 1.1 M states | `DoneOnce`, `InTurn`, `RecordHonest`, `RecordedIsOver`, and `AllEnd` under fairness |
| `OutboxOvertaken`, `SurveyReopened`, `SurveySessions`, `BillingTwice` | the smallest instance | a counterexample each, [section 7](#7-where-code-and-comments-disagree) |

Each property of a passing run has a mutant in `PROJECT.json`: a plausible bug
in a definition of the model (a receipt not written, a body not saved before it
is sent, a row not read again after the claim, a claim paid without its lock, a
run executed without a second look) under which TLC finds that property violated.

Deadlock checking is off except in `Receipts`: with the bounds used up the other
systems come to rest, as an idle phone does.

## 4. Abstractions and bounds

*Outbox.* A body is what the server's receipt distinguishes: a punch is sent as
`live` or `replay` depending on the clock at its first attempt, everything else
as it was filed. How old a delivered row is, and how long a back-off lasts, is
a free choice. A 401 followed by a refresh and a resend stays within one
attempt, under one key. The server's business rules are a free refusal plus
`Needs` (a check-out needs its check-in). `MaxOps`, `MaxRestarts` and
`MaxUserRetries` bound what the user does; `MaxRetries`, `FlushLimit` and
`KeepMax` are the code's constants, made small so that a row does run out of
attempts and a settled row is purged. Two operations are enough: order is lost
when one is put back while the other goes ahead.

*Survey.* One village-day; a return is a figure, always given in full, so an
amendment that changes nothing is an equal figure. Keys contain what the code's
fingerprint hashes; collisions are left out. `PriorMax` is 3 for the code's 8,
so that the list does fill, and overflow. `Scenarios` bounds filings, lost replies, deaths and
user retries together, because all at once is too large: many filings with few
faults, or few filings with many. `reopened` is a history: a failed return was
put back after a newer one was filed, which is the exception that the
properties about order make. `cut` is another: the operations whose list once
had more to keep than `PriorMax` (`Overflows`), so that `Trim` dropped a request
for lack of room. Which rows a flush's snapshot holds is Outbox's concern, so
between two rows nothing is in hand.

*Receipts.* The transaction's isolation is READ COMMITTED; the advisory lock
ends with the transaction. `mutate` and `mutationRoute` keep receipts in two
tables, and a key used on a route of each kind is outside the contract, as is a
request without a key. A key is one user's; the same key on several routes of
one kind is inside. Audit rows that handlers write themselves are part of their
work; `audits` counts those of the wrapper. One key is enough: keys share
nothing but connections.

*Stock.* The items and places are finitely many (`StockConstants`), as a ledger
that can be summed needs. The items of a count are taken in one order, theirs.
Steps that no other session's commit between them could make differ
are one. Batches, serial numbers, units and the state of an item are left out;
so are refusals no other session can cause, and the purchase order a goods
receipt locks, which only makes receipts of one order wait for each other. Lines
of one return, receipt or count name different items. Other documents whose lines
name items (requisitions, orders, invoices) hold them FOR KEY SHARE as counts do
and post nothing; they are left out, as are edits of the items themselves.
What a count may find is `Walks`. `MaxBegun` bounds the transactions, and two is enough for every interleaving of two;
`AtOnce` bounds those open together, receipts and counts being entered among
them; rejections and releases come at any time. The sessions are interchangeable
(symmetry).
`overridden` and `cut` are histories for the exceptions that properties make: a
place somebody with `stock.negative_override` overdrew, a place an approved
count wrote down.

*Payables.* Money is counted in units; taxes withheld (`Withheld`) settle a
document without drawing on the payment, as `checkAllocation` has it. Due dates
only narrow what a run takes, which is a free choice here. Accounting periods,
bank statements and the rule that builder and releaser differ only refuse more
and are left out. `MaxBegun` transactions, two at a time, and `MaxChanges` steps
by others are enough for each hazard listed: a run built, approved and executed
takes three of the four, with a fourth beside it.

*Billing.* A measurement is one running total, as the items of a bill do not
depend on each other. Rates are shares (`RetainIn`, `RecoverIn`) with the code's
caps. Tax and the statutory heads shift what a bill is worth and nothing else.
Requests that wait for their first lock have read nothing and so begin with it.
Two bills are what the indexes tell apart, one open and one not. In the run
`Billing` some bills are large enough to have retention withheld and some are
not; in `BillingTwice` none is. Receipts and advances are finitely many
(`BillingFinite`), as are the payments of Payables (`PayablesFinite`): what they
hold is summed.

*Automation.* Times are left out: what is due again may be tried again at any
moment. `Scenarios` bounds what people and failures do; `MaxAttempts` and
`MaxPosts` are the code's 8, made small so that both run out. One subscription
stands for all. Notices are kept apart by their event key for anybody, other
effects by receipts for each user: `DoneOnce` is stated per owner, since a rule
handed over between two attempts does repeat its actions.

## 5. Fairness

*Outbox.* Weak fairness on the steps of a flush once it is begun, and on
back-offs: every await of the executor ends at the client's deadline at the
latest (`TimeOut`), and clocks run. Beginning a flush is another matter. The
engine ticks every 15 seconds, but starts one only with tokens, with the app in
front, and after the server answered a probe (`engine.ts:204-205`, `215-219`,
`253-255`); a phone that is offline for good attempts nothing, and its rows stay
queued. So `Settles` has that for its premise (`Reached`: flushes that could
begin do begin), and says what follows: every row settles, because attempts are
counted and run out. Nothing is asked of the requests themselves, any of which
may be lost, nor of the user. It is stated up to a sign-out, after which nothing
runs.

*Receipts.* Weak fairness on each attempt's next statement, since every query
returns or its connection dies; strong fairness on `Lock`, since PostgreSQL queues waiters.
`Begin` has none: nobody needs to send anything.

*Automation.* Weak fairness on the pass over events and on the one over
deliveries, separately, because the code isolates the one's failures from the
other: the service starts a pass every so often and each statement in it
returns. Nothing is asked of people, and nothing prevents failures:
`AllEnd` holds because attempts are counted.

*Survey*, *Stock*, *Payables* and *Billing* state safety only.

## 6. The proofs

`Receipts_proofs` proves, for any sets of attempts, keys, bodies and employees
(`ReceiptsConstants`: a body is a punch of one employee or of nobody, and the
markers are neither bodies, attempts nor employees):

* `Invariance`: `Spec => []Inv` with `Inv == TypeOK /\ LockHeld /\ Consistent /\
  AllOrNothing`. `AllOrNothing` alone is not inductive: a commit could
  follow a reading of the receipts that has gone stale. `Consistent` says what
  each attempt past the lock relies on (no receipt while it works or is about to
  apply, no punch of its employee kept when it is about to apply or keep one, the
  receipt it will answer from); that it stays true while others
  commit needs `LockHeld`: whoever is past the lock of a key holds it, so any
  two such attempts of one key are one (`OneHolder`). `StepTables` is the heart:
  what a step of one attempt leaves of the tables under another's key.
* `Typing`, `TogetherOrNotAtAll`, `TransactionsAgree`: the parts the run checks.
* `Refinement`: `Spec => Contracted`, each step of the wrappers being a step of
  `OncePerKey` or a stutter, under the invariant.

`Outbox_proofs` proves every safety property of the run `Outbox`, for any
records, payloads, dependencies between them and bounds (`OutboxConstants`:
there is something to file, and at least one operation may be filed):

* `Invariant`: `Safety => []Inv`. None of the properties is inductive alone, and
  the parts of `Inv` lean on one another. `AtMostOnce` needs a receipt for each
  effect (`Exactly`) under a key that is the operation's own (`Filed`).
  `OneBodyPerKey` needs that what a row says is what was sent for it (`OneBody`),
  so that the flush reads and sends a row nobody changes in between (`Held`: it
  is on the wire, or was queued again under a closed handle; the user's retry
  and discard want a failed one). `NothingLost` needs that a reply settles the
  row it is about (`Heard`: at most one request has a client waiting) and that
  "delivered" is true when it is written (`Truthful`).
* `RowsStep`, `MessagesStep` and `ServerStep` state once what any step does to a
  row, to a message and to the server; most of the rest follows from them
  without going back to the actions.
* `Typing`, `TakesEffectOnce`, `RetriesAgree`, `Kept`: the invariants the run
  checks.
* `SentInOrder`: `Safety => FiledOrder`, from `Inv` and `Waiting`: while the
  flush has its handle, the rows of its snapshot still wait, and between the
  count of what is ahead (taken outside the lock) and the claim, only a retry by
  the user can put a row ahead.

`SurveyOutbox_proofs` proves, for any figures, limits, filings and edits of a
village-day (`SurveyConstants`, with `PriorMax` and `MaxRetries` above 0), every
property of the run `Survey`:

* `Invariance`: `Spec => []IInv` with `IInv == TypeOK /\ Sane /\ (reopened \/
  (Order /\ NewestHeld))`. `Sane` is what the phone may believe: the executor has
  the row it claimed and on its list what it read there, places in the queue are
  in the order of filing, each receipt has the version it made, a version the
  executor calls its own was made by one of its requests. `Order` says of every
  request that may still land, from any list, reply or late message, that it
  is no newer than what waits behind it (`AllFair`, `DayBehind`), that the first
  row that waits is the one in hand (`HeadFirst`), and that a base version was on
  the screen of that filing or of one it was chained to. `NewestHeld` is
  `LatestKept` without its proviso. None holds by itself: that an amendment is
  not backwards needs that every request replayed before it is older, and this
  needs that rows hand their requests on in their order.
* The proviso is part of the invariant because the code breaks the order
  when a failed return is put back ([section 7](#7-where-code-and-comments-disagree)):
  looking for this proof is how that was found.
* `Carries(R)` says once that every list the phone keeps is made of the same
  kind of request, and `Onward` what any step may do to rows that wait, so that
  the actions are gone through once and not for each part.
* `Typing`, `Unseen`, `FiledOrder`, `NewestSafe`: `TypeOK`, `NoSilentOverwrite`,
  `NeverBackwards`, `LatestKept`.
* `CauseOfConflict`: the action property `ConflictHasCause`, without the proviso,
  from a second invariant, `CInv == TypeOK /\ Sane /\ Accounted`. While requests are
  replayed, each one that was answered is *over* (the server has its receipt,
  or the day is past the version it amends, so that it can make no version any
  more) and any version it did make is no later than the latest the replies gave
  (`Known`). This needs that nothing on a list amends a version still to come
  (`Past`; else a refused request might be taken later) and that a version of the
  crew's has one receipt (`DayReceipted`). So at the second read a version made by
  one of them is the one the executor calls its own, and there is no conflict.
* `WorkRemembered`: `OwnWorkRemembered`, from a third invariant, `RInv == TypeOK /\
  Sane /\ DayReceipted /\ Truthful /\ Room /\ Issued /\ Remembers`. A list *recalls*
  a receipt when it has that request, or one that landed as a later version
  (`Recalls`). Trimming is the hard part: of the requests that landed it keeps
  only the latest, and it drops every other body under that one's key. That
  nothing is forgotten by this rests on what the list says of versions being true
  (`Truthful`): the receipts give one version to a key and one key to a version,
  and whatever answers for a dropped request recalls what that one did (`Tells`,
  `TrimRecalls`). The property itself speaks of receipts and is not inductive: the
  receipt of a late return appears when nobody looks at the list. `Remembers` asks
  for what is *promised* instead (`Promised`: the receipts, and while there is no
  day the receipt any return that is on its way or late would get), of the row's
  list and of the executor's. What a step newly promises under a row's own key is
  the return it sends, which it has put on the list before (`PromisedStays`); no
  key is promised before the filing it is named for (`Issued`), so a new row owes
  nothing; and a claimed list, being within its limit (`Room`), is trimmed
  without loss (`ShortFits`).

`Stock_proofs` proves every property of the run `Stock`, for any items, places,
counts, receipts, movements and sessions, in two layers:

* `Invariance`: of the documents. The row of a count or of a goods receipt is held
  by one session, what it read there (the count may be approved, all that goes
  back was accepted) is still so at its commit, and what a return has posted of
  an item is the one line about it. A receipt on which nothing was accepted yet
  has no return past its lock, so that `Received` may overwrite it. `PostedOnce`
  and `NoneTooMany` follow.
* `LedgerInvariance`: of the ledger, `LedgerInv`. For each session `Sound` says
  which items it holds (`Rowed`), that it has written its lines so far and
  nothing else (`Wrote`), that a line which takes from a place was found to fit
  and does so still (`Checked`), and that the notices it has rung are the crossings
  its lines will be (`Rang`). What it found about an item whose row it holds
  stays true until it commits, since whoever else posts for the item waits, a
  goods receipt by its foreign key. `NeverOverdrawn` and `NeverPromisedTwice` are then the
  step in which a session commits. Reservations are summed over a set; a release
  takes one out of the sum.
* `OrderKept`: `ApprovalsKeepOrder`, for rings of any length of sessions and of
  documents being entered. Whoever takes its items in order waits for one above
  all it holds, a single posting holds none while it waits; so the item waited
  for rises along a ring in which all are in order, and where it is highest
  nobody of the ring is waited for. A ring thus has in it a return, a goods
  receipt or a count whose items were not given in order.
* `Noticed`: `NoticedOnce`, without exception, from `Rang`. `Typing`: `TypeOK`.

`Payables_proofs` proves, for any documents, payments, runs, sessions and amounts
due (`PayablesConstants`, `PayablesFinite`), what the run checks of the money:

* `Invariance`: `Spec => []Inv` with `Inv == Shape /\ Exclusive /\ Money /\
  (\A s \in Sessions : Sound(s))`. None of the money properties is inductive: a
  commit writes what its session decided some statements earlier. `Sound` says,
  for each kind of session and stage, which rows it holds and what it has found
  under them (what is still due on the document, what is unspent of the payment,
  which lines of the run stand); `Exclusive`, that no two sessions hold a row;
  and so what was found stays true, since whoever would change it waits for that
  row. `Money` is `NotOverpaid`, `NotOverspent`, that a document is on one open
  run, and that only a payment nothing is applied from is taken back.
* `AccountsInvariance`: `Balanced` (what is settled of an invoice is the sum of what
  the payments apply to it; a claim, which stays reimbursed when its payment is
  reversed, is settled by no less), `Unmade` (a payment that was not made applies
  nothing) and `Limits`. With `Inv` it gives `Typing`.
* `NeverOverpaid`, `NeverOverspent`, `BuildersAgree`, `RunsPayWhatStands`: the
  properties of the run.
* `Refinement`: `Spec => Kept`, each route being a step of `Dues` or a stutter.

`Billing_proofs` proves everything the run `Billing` checks, for any bills, receipts,
advances and rates (`BillingConstants`, `BillingFinite`):

* `Invariance`: at most one session is past the lock of the project, raising a
  bill or releasing retention; while it raises one no final bill stands, and what
  it is about to release is held. Certification waits for that lock when the
  bill has retention and not otherwise; either way it only adds to what is held, and
  makes no bill final. Bills are numbered
  without a gap, so that a final bill, once in, has nobody after it.
* `RetentionWithinHeld`, `NothingAfterFinal`: the two invariants of the run.
* `AccountsInvariance`: what the first invariant leaves open. `Summed`: what is
  settled of a bill is the sum of its live receipts. `PaidDown`: no advance is
  recovered beyond itself, so that an instalment is never negative. `Found` and
  `Apart`: a session that receives has a receipt not applied yet and a bill that
  takes it and is worth it, under two locks no other session has. With
  `Invariance` it gives `Typing`.
* `Refinement`: `Spec => Kept`. Whatever moves a bill judges what is settled of it
  under the bill's row, and whatever settles it judges what it is worth under
  the same row.

`Automation_proofs` proves every safety property of the run `Automation`, for any
rules, owners, workflow and bounds:

* `Invariance`: the shape of the tables and of what the worker has in hand, and
  `Done`: an effect has its receipt and a receipt its effect, under the key of
  the rule and its owner; and of a rule in hand every action before the one it
  is at is done. A retry goes through the actions from the first; that none is
  done twice is then the receipts, and that they are done in turn is that the
  worker never looks at one before the last is answered.
* `Typing`, `NothingTwice`, `OneAfterAnother`, `RecordsTrue`,
  `WhatIsRecordedIsOver`: the properties of the run.

`DataLemmas` has what the others need of data. Of numbers: a non-empty set of
naturals has a least member, one with a bound a greatest, and finitely many
numbers have a bound; finitely many numbers can be put in order; what counts up
from a number it starts at reaches every later one (`Counting`). Of folds: the
community modules define a sum over a set by going through it one chosen member
at a time, and `FoldExists` shows, by a least counterexample among the sizes of
subsets, that over a finite set there is such a function; `SumUnique` and the
lemmas after it then say that the order does not matter and what a sum becomes
when one member is added, removed or changed. That is induction over the
natural numbers, which is first-order; induction over the data itself is not
needed.

Only model-checked:

* liveness (`Settles`, `Answers`, `AllEnd`), which is beyond this prover;
* what `OwnWorkRemembered` leaves out. A list with more to keep than there is room
  for drops its oldest request, so nothing is claimed of the operations in `cut`,
  as `surveyEntryOp.ts:69-70` says; that this costs a review and not the filing is
  `NoSilentOverwrite` and `LatestKept`, which make no exception for them;
* the runs that end in a counterexample, which need no proof.

## 7. Where code and comments disagree

* **A check-out overtakes its own check-in** (`OutboxOvertaken`). `schema.ts:41-43`
  gives that order as the reason `seq` exists, and `queueCore.ts:7` calls the
  flush FIFO, but the look-ahead compares dedupe keys and the two punches have
  different ones: while the check-in waits out a back-off, the check-out goes
  and is refused for good.
* **A return put back into the past** (`SurveyReopened`). `queueCore.ts:372-373`
  says that a chain of returns lands in the order it was filed. A return A runs
  out of attempts; the next one, B, gets a row of its own, because filing looks
  for active rows only (`queueCore.ts:213-217`); A is put back under its old
  place (`queueCore.ts:518`) while B is sent, and B fails as well. The next
  filing, C, is folded into A's row, the only active one; then B is put back. A's
  row lands with C's figures, hands its request on to B's row as to a newer
  one, and B amends the day back to its own, older figures. `NoSilentOverwrite`,
  `NeverBackwards` and `LatestKept` carry the proviso `reopened` for this, and
  hold with it.
* **A sign-out in the middle** (`SurveySessions`). `queueCore.ts:166-179` takes
  recovery to be over before anything can run; a flush that survives a sign-out
  and sign-in writes its older return over a newer one folded into the same row.
* **Work billed twice** (`BillingTwice`). `modules/billing/routes.ts:18-19` gives as
  the module's invariant that a bill claims cumulative measurement less what
  earlier bills claimed, and `034_ra_billing.sql:167-168` allows one open bill so
  that two people cannot bill the same work. What is claimed already is read
  under the project's lock. Certification locks the bill only, and waits for the
  project through the foreign key of the retention it withholds; where a bill
  has none, a bill measured before the one in progress is certified and inserted
  after claims that work again. With retention the insertion comes first and the
  index on open bills refuses it.

Met on the way, and not runs:
a replay whose reply is lost is passed over (`surveyEntryOp.ts:221-225`), so that
a crew may be told of a conflict that only its own phone made (the exception
`clouded` of `ConflictHasCause`);
equal instalments of two advances are both put down to one (`billing/routes.ts:353`),
after which certification may be refused by the schema; a certified bill that is
cancelled leaves its retention withheld and its advances paid down; a final bill
whose net is negative can never be certified without a figure; a claim stays
REIMBURSED when the payment behind it is reversed; a rule whose first action changes the task may,
after a retry, no longer match and leave the rest undone without a record.

## 8. What is not modelled

Sessions, approvals, leave, payroll, attendance days and survey stages are
planned below. Left out for good: screens, reports,
migrations, cryptography and MFA codes, geocoding, report rendering, and record
keeping whose every write is one versioned row inside `mutate`. The arithmetic
of `packages/shared` (money, survey formulas) is pure and belongs to the
component that uses it. Of the modelled parts: the remote wipe of a phone
(`dbCore.ts:132-172`), which deletes `pending_ops`, undelivered work and all, on
an administrator's order; the survey API's stage ladder and billing; the tree of
stock locations; D-017 of
`docs/qa/2026-09-24/findings-integrity.md` (an item's total and the sum of its
places differ after a posting that names no place) is a known, open limitation,
visible in the model as `total` and `placed` being independent.

## 9. The plan

Done, in this order: Receipts over OncePerKey, with proofs; OutboxRows and
Outbox, with proofs; SurveyRequests and SurveyOutbox; Stock; Dues with Payables
and Billing; Automation; the proofs about Payables, Billing, Automation and the
documents of Stock; the proofs about the survey returns, the ledger of Stock, and
the sums of Payables and Billing.

Next:

1. **Sessions**: families of refresh tokens, rotation, sign-out, lost replies
   (a phone that lost the reply to a rotation presents a revoked token, and its
   family is revoked).
2. **Periods**: a payment dated into a period that is closed beside it.
3. Approvals and leave balances, if their routes hold more than versioned rows.

Runs stay small: two actors and the fewest objects that let them collide.
