---------------------------- MODULE OutboxRows ----------------------------
(***************************************************************************)
(* The rows of pending_ops, the table in which a phone keeps every write   *)
(* it has accepted from the user until the server has answered for it      *)
(* (apps/mobile/src/sync/queueCore.ts and schema.ts).                      *)
(*                                                                         *)
(* This module holds what the statements of the queue do to the table, as  *)
(* operators on the table itself: which rows are active, which row a new   *)
(* filing meets, which rows a flush may send, and the row each settlement  *)
(* leaves.  Outbox and SurveyOutbox build their actions from them.         *)
(*                                                                         *)
(* A table is a function from operations to rows.  An operation with no    *)
(* row (never filed, purged, discarded or absorbed) is in state "NONE".    *)
(***************************************************************************)
EXTENDS Integers, FiniteSets

CONSTANT
  MaxRetries    \* MAX_QUEUE_RETRIES: failed attempts after which a row stops

ASSUME MaxRetriesAssumption == MaxRetries \in Nat \ {0}

(***************************************************************************)
(* Row states: sent next, on the wire, or waiting for its back-off.        *)
(***************************************************************************)
ActiveStates  == {"QUEUED", "SENDING", "BACKOFF"}
WaitingStates == {"QUEUED", "BACKOFF"}
RowStates     == ActiveStates \cup {"SUCCEEDED", "FAILED", "NONE"}

\* What an attempt came to: delivered (ACCEPTED, ALREADY_APPLIED, REVIEW),
\* refused (CONFLICT, REJECTED), or nothing known of it, which also stands for
\* a 429 or a 5xx.  The row's decision keeps the last that was known.
Verdicts  == {"DELIVERED", "REFUSED", "TRANSPORT"}
Decisions == {"NONE", "DELIVERED", "REFUSED"}

Present(table) == {i \in DOMAIN table : table[i].state # "NONE"}

\* The active rows of one record, the record being the row's dedupe key.
ActiveOn(table, record) ==
  {i \in DOMAIN table : table[i].record = record /\ table[i].state \in ActiveStates}

\* SELECT ... WHERE dedupe_key = ? AND state IN (active) ORDER BY seq DESC LIMIT 1
Newest(table, S) == CHOOSE i \in S : \A j \in S : table[j].seq <= table[i].seq

\* SELECT COALESCE(MAX(seq), 0), plus one: the rows still there decide, so a
\* number is used again once its row has gone.
NextSeq(table) ==
  LET used == {0} \cup {table[i].seq : i \in Present(table)}
  IN  1 + CHOOSE n \in used : \A m \in used : m <= n

\* Older active rows for the same record: the flush's count of what is ahead.
Ahead(table, i) == {j \in ActiveOn(table, table[i].record) : table[j].seq < table[i].seq}

\* Rows a flush may pick up: queued, or in back-off whose time has come.
Ready(table) ==
  {i \in DOMAIN table : \/ table[i].state = "QUEUED"
                        \/ table[i].state = "BACKOFF" /\ table[i].due}

\* ORDER BY seq LIMIT n
Oldest(table, S, n) ==
  {i \in S : Cardinality({j \in S : table[j].seq < table[i].seq}) < n}

(***************************************************************************)
(* What one statement leaves in the row it updates.                        *)
(***************************************************************************)
MutClaimedAsSent(row) == [row EXCEPT !.state = "SENT"]

Claimed(row) == [row EXCEPT !.state = "SENDING"]

MutNothingRecovered(table) == table

\* RECOVER_INTERRUPTED_SQL, run on every open of the account's database.
Recovered(table) ==
  [i \in DOMAIN table |->
     IF table[i].state = "SENDING" THEN [table[i] EXCEPT !.state = "QUEUED"] ELSE table[i]]

Delivered(row) == [row EXCEPT !.state = "SUCCEEDED", !.decision = "DELIVERED"]

Refused(row) == [row EXCEPT !.state = "FAILED", !.decision = "REFUSED"]

\* A transport failure, a 429 or a 5xx: one attempt more, and after the last
\* one the row stops and waits for the user.
Deferred(row) ==
  LET tries == row.tries + 1
  IN  IF tries >= MaxRetries
        THEN [row EXCEPT !.state = "FAILED", !.tries = tries]
        ELSE [row EXCEPT !.state = "BACKOFF", !.tries = tries, !.due = FALSE]

\* retryOp, and whether it is offered: never for a request the server refused.
MayRetry(row) == row.state = "FAILED" /\ row.decision # "REFUSED"

Retried(row) == [row EXCEPT !.state = "QUEUED", !.tries = 0, !.due = TRUE]

\* A row an earlier attempt of which may have left the device.
MaySent(row) == row.state # "QUEUED" \/ row.tries > 0

============================================================================
