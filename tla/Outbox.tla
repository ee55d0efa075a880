------------------------------ MODULE Outbox ------------------------------
(***************************************************************************)
(* The phone's outbox and the server it talks to.                          *)
(*                                                                         *)
(* Every write the user makes is stored in pending_ops first and sent by a *)
(* flush that runs one operation at a time                                 *)
(* (apps/mobile/src/sync/queueCore.ts, engine.ts, dbCore.ts, replay.ts).   *)
(* One in-process lock makes each change of the table whole, but a flush   *)
(* is many such changes with awaits between them, so filings, retries,     *)
(* discards, a sign-out or the death of the app fall between any two.      *)
(* Requests and replies are lost or late; the server keeps one receipt per *)
(* idempotency key (apps/api/src/common/mutationRoute.ts; module Receipts  *)
(* shows why one step is the right picture of it).                         *)
(*                                                                         *)
(* Operations here do not chain: a second filing for a record queues       *)
(* behind the first.  The one entity that chains is in SurveyOutbox.       *)
(***************************************************************************)
EXTENDS OutboxRows

CONSTANTS
  Records,         \* what operations are about: the dedupe keys
  Payloads,        \* what the user can say about a record
  Says,            \* Says[r]: what of it he may say about record r
  Needs,           \* Needs[r]: records the server wants first (in before out)
  Punches,         \* records whose body is frozen at the first attempt
  MaxOps,          \* bound: operations ever filed
  FlushLimit,      \* LIMIT of the flush's SELECT (50 in the code)
  KeepMax,         \* SETTLED_KEEP_MAX (50 in the code)
  MaxRestarts,     \* bound: deaths of the app, and sign-outs, in a run
  MaxUserRetries   \* bound: presses of "retry" in a run

ASSUME OutboxConstants ==
  /\ Records # {} /\ Payloads # {} /\ Says \in [Records -> SUBSET Payloads]
  /\ Needs \in [Records -> SUBSET Records]
  /\ Punches \subseteq Records
  /\ MaxOps \in Nat \ {0} /\ FlushLimit \in Nat \ {0} /\ KeepMax \in Nat \ {0}
  /\ MaxRestarts \in Nat /\ MaxUserRetries \in Nat

VARIABLES
  rows,        \* pending_ops, by operation
  filed,       \* operations filed so far: the next client_uuid
  signedIn,    \* an account is active, its database open
  flush,       \* the one flush: its phase, its snapshot, what is in hand
  net,         \* requests sent and not yet handled
  receipts,    \* server: the body each idempotency key was used with
  effects,     \* server: how often each operation took effect
  opened,      \* server: records that exist
  requeued,    \* history: operations the user put back after a failure
  discarded,   \* history: failed operations the user threw away
  restarts, retries   \* counters behind MaxRestarts and MaxUserRetries

device == <<rows, filed, signedIn, flush>>
server == <<receipts, effects, opened>>
history == <<requeued, discarded, restarts, retries>>
vars == <<device, net, server, history>>

-----------------------------------------------------------------------------
Op     == 1 .. MaxOps
Bodies == {"open", "live", "replay", "plain"}   \* "open": the replay question unanswered
Phases == {"idle", "scan", "checked", "claimed", "frozen", "wire", "answered"}
InHand == {"claimed", "frozen", "wire", "answered"}  \* the flush holds a row it has claimed

Row == [state : RowStates, seq : Nat, record : Records, payload : Payloads,
        body : Bodies, key : Op, decision : Decisions, tries : Nat, due : BOOLEAN]

Request == [op : Op, key : Op, record : Records, body : Bodies \ {"open"}, live : BOOLEAN]

FlushType == [phase : Phases, todo : SUBSET Op, op : 0 .. MaxOps, body : Bodies,
              reply : Verdicts, stale : BOOLEAN]

Idle == [phase |-> "idle", todo |-> {}, op |-> 0, body |-> "plain",
         reply |-> "TRANSPORT", stale |-> FALSE]

NoRow == [state |-> "NONE", seq |-> 0, record |-> CHOOSE r \in Records : TRUE,
          payload |-> CHOOSE p \in Payloads : TRUE, body |-> "plain", key |-> 1,
          decision |-> "NONE", tries |-> 0, due |-> TRUE]

-----------------------------------------------------------------------------
(* The user, and the life of the app.                                       *)

\* enqueueOp.  An identical payload already active is answered with its row
\* (no step here); any other goes in behind what is active for the record.
IsDuplicate(record, payload) ==
  LET active == ActiveOn(rows, record)
  IN  /\ active # {}
      /\ LET newest == rows[Newest(rows, active)]
         IN newest.payload = payload /\ newest.body \in {"open", "plain"}

Enqueue(record, payload) ==
  /\ signedIn
  /\ filed < MaxOps
  /\ payload \in Says[record]
  /\ ~IsDuplicate(record, payload)
  /\ filed' = filed + 1
  /\ rows' = [rows EXCEPT ![filed + 1] =
       [NoRow EXCEPT !.state = "QUEUED", !.seq = NextSeq(rows), !.record = record,
          !.payload = payload, !.key = filed + 1,
          !.body = IF record \in Punches THEN "open" ELSE "plain"]]
  /\ UNCHANGED <<signedIn, flush, net, server, history>>

\* retryOp, from the sync-queue screen: the same row under the same key.
Retry(i) ==
  /\ signedIn
  /\ retries < MaxUserRetries
  /\ MayRetry(rows[i])
  /\ rows' = [rows EXCEPT ![i] = Retried(rows[i])]
  /\ requeued' = requeued \cup {i}
  /\ retries' = retries + 1
  /\ UNCHANGED <<filed, signedIn, flush, net, server, discarded, restarts>>

\* discardOp: only a failed row can go.
Discard(i) ==
  /\ signedIn
  /\ rows[i].state = "FAILED"
  /\ rows' = [rows EXCEPT ![i] = NoRow]
  /\ discarded' = discarded \cup {i}
  /\ UNCHANGED <<filed, signedIn, flush, net, server, requeued, restarts, retries>>

\* purgeSettledOps: delivered rows past their week go, and all but KeepMax of
\* the rest.  Age is abstracted: any delivered row may be old enough.
Purge(table, kept) ==
  LET done == {i \in DOMAIN table : table[i].state = "SUCCEEDED"}
  IN  \E gone \in SUBSET done :
        /\ Cardinality(done \ gone) <= KeepMax
        /\ kept = [i \in DOMAIN table |->
                     IF i \in gone THEN NoRow ELSE table[i]]

\* The reply, if one comes, finds nobody waiting.
Unheard(requests) == {[m EXCEPT !.live = FALSE] : m \in requests}

\* The app dies at any point and is opened again.  Its tables survive; the
\* open recovers what was on the wire.
Restart ==
  /\ restarts < MaxRestarts
  /\ restarts' = restarts + 1
  /\ flush' = Idle
  /\ net' = Unheard(net)
  /\ IF signedIn THEN Purge(Recovered(rows), rows') ELSE UNCHANGED rows
  /\ UNCHANGED <<filed, signedIn, server, requeued, discarded, retries>>

\* setActiveAccount(null) closes the handle under a flush that still runs.
SignOut ==
  /\ signedIn
  /\ restarts < MaxRestarts
  /\ restarts' = restarts + 1
  /\ signedIn' = FALSE
  /\ flush' = [flush EXCEPT !.stale = (flush.phase # "idle")]
  /\ UNCHANGED <<rows, filed, net, server, requeued, discarded, retries>>

\* The same account signs in again; its database opens on a new handle.
SignIn ==
  /\ ~signedIn
  /\ signedIn' = TRUE
  /\ Purge(Recovered(rows), rows')
  /\ UNCHANGED <<filed, flush, net, server, history>>

-----------------------------------------------------------------------------
(* The flush.                                                               *)

\* syncNow finds work, reaches the server and takes its snapshot.
StartFlush ==
  /\ signedIn
  /\ flush.phase = "idle"
  /\ Ready(rows) # {}
  /\ flush' = [Idle EXCEPT !.phase = "scan", !.todo = Oldest(rows, Ready(rows), FlushLimit)]
  /\ UNCHANGED <<rows, filed, signedIn, net, server, history>>

\* On to the rest of the snapshot.
NextRow == [Idle EXCEPT !.phase = "scan", !.todo = flush.todo, !.stale = flush.stale]

\* The next row of the snapshot, in order of seq; skipped while an older
\* operation for its record is active.  This count is read outside the lock.
MutLookAheadIgnored ==
  /\ flush.phase = "scan" /\ ~flush.stale /\ flush.todo # {}
  /\ LET i == CHOOSE j \in flush.todo : \A k \in flush.todo : rows[j].seq <= rows[k].seq
     IN  flush' = [flush EXCEPT !.todo = @ \ {i}, !.phase = "checked", !.op = i]
  /\ UNCHANGED <<rows, filed, signedIn, net, server, history>>

LookAhead ==
  /\ flush.phase = "scan" /\ ~flush.stale
  /\ flush.todo # {}
  /\ LET i == CHOOSE j \in flush.todo : \A k \in flush.todo : rows[j].seq <= rows[k].seq
     IN  flush' = IF Ahead(rows, i) = {}
                    THEN [flush EXCEPT !.todo = @ \ {i}, !.phase = "checked", !.op = i]
                    ELSE [flush EXCEPT !.todo = @ \ {i}]
  /\ UNCHANGED <<rows, filed, signedIn, net, server, history>>

\* Under the lock: claimed only if it is still waiting, then read again.
Claim ==
  /\ flush.phase = "checked" /\ ~flush.stale
  /\ LET i == flush.op IN
       IF rows[i].state \in WaitingStates
         THEN /\ rows' = [rows EXCEPT ![i] = Claimed(rows[i])]
              /\ flush' = [flush EXCEPT !.phase = "claimed", !.body = rows[i].body]
         ELSE /\ flush' = NextRow
              /\ UNCHANGED rows
  /\ UNCHANGED <<filed, signedIn, net, server, history>>

\* The sealed payload cannot be opened with this account's key.
CannotOpen ==
  /\ flush.phase = "claimed"
  /\ IF flush.stale
       THEN flush' = Idle /\ UNCHANGED rows
       ELSE /\ rows' = [rows EXCEPT ![flush.op] = Refused(rows[flush.op])]
            /\ flush' = NextRow
  /\ UNCHANGED <<filed, signedIn, net, server, history>>

\* rewriteOp: a row that is not settled takes the new payload.
Rewritten(i, body) ==
  IF rows[i].state \in ActiveStates THEN [rows EXCEPT ![i].body = body] ELSE rows

\* punchBody: live or replay, decided by the clock on the first attempt and
\* written back before the request goes.
MutFreezeNotSaved ==
  /\ flush.phase = "claimed" /\ signedIn /\ flush.body = "open"
  /\ \E body \in {"live", "replay"} : flush' = [flush EXCEPT !.body = body, !.phase = "frozen"]
  /\ UNCHANGED <<rows, filed, signedIn, net, server, history>>

Freeze ==
  /\ flush.phase = "claimed" /\ signedIn
  /\ flush.body = "open"
  /\ \E body \in {"live", "replay"} :
       /\ rows' = Rewritten(flush.op, body)
       /\ flush' = [flush EXCEPT !.body = body, !.phase = "frozen"]
  /\ UNCHANGED <<filed, signedIn, net, server, history>>

Send ==
  /\ signedIn
  /\ \/ flush.phase = "frozen"
     \/ flush.phase = "claimed" /\ flush.body # "open"
  /\ net' = net \cup {[op |-> flush.op, key |-> rows[flush.op].key, live |-> TRUE,
                       record |-> rows[flush.op].record, body |-> flush.body]}
  /\ flush' = [flush EXCEPT !.phase = "wire"]
  /\ UNCHANGED <<rows, filed, signedIn, server, history>>

\* The session ended under the executor: its own check, or the missing token,
\* fails the attempt before anything leaves.
SessionGone ==
  /\ flush.phase \in {"claimed", "frozen"} /\ ~signedIn
  /\ flush' = [flush EXCEPT !.phase = "answered", !.reply = "TRANSPORT"]
  /\ UNCHANGED <<rows, filed, signedIn, net, server, history>>

\* The request's deadline: the client gives up, the server may not have.
TimeOut ==
  /\ flush.phase = "wire"
  /\ net' = Unheard(net)
  /\ flush' = [flush EXCEPT !.phase = "answered", !.reply = "TRANSPORT"]
  /\ UNCHANGED <<rows, filed, signedIn, server, history>>

\* Under the lock: what came of the attempt is written to the row.
MutLateReplyIsSuccess(row, reply) == IF reply = "REFUSED" THEN Refused(row) ELSE Delivered(row)

Settlement(row, reply) ==
  CASE reply = "DELIVERED" -> Delivered(row)
    [] reply = "REFUSED"   -> Refused(row)
    [] OTHER               -> Deferred(row)

Settle ==
  /\ flush.phase = "answered" /\ ~flush.stale
  /\ rows' = [rows EXCEPT ![flush.op] = Settlement(rows[flush.op], flush.reply)]
  /\ flush' = NextRow
  /\ UNCHANGED <<filed, signedIn, net, server, history>>

EndFlush ==
  /\ flush.phase = "scan" /\ ~flush.stale
  /\ flush.todo = {}
  /\ Purge(rows, rows')
  /\ flush' = Idle
  /\ UNCHANGED <<filed, signedIn, net, server, history>>

\* A flush whose handle was closed under it: its next statement throws, and
\* the row keeps whatever the re-opening made of it.
StaleFlushEnds ==
  /\ flush.stale
  /\ flush.phase \in {"scan", "checked", "answered"}
  /\ flush' = Idle
  /\ UNCHANGED <<rows, filed, signedIn, net, server, history>>

\* next_retry_at passes.
BackoffElapses(i) ==
  /\ rows[i].state = "BACKOFF" /\ ~rows[i].due
  /\ rows' = [rows EXCEPT ![i].due = TRUE]
  /\ UNCHANGED <<filed, signedIn, flush, net, server, history>>

-----------------------------------------------------------------------------
(* The network and the server.                                              *)

\* Request m has been dealt with; its verdict reaches a client that is still
\* waiting, or is lost on the way.
Answer(m, verdict) ==
  /\ net' = net \ {m}
  /\ IF m.live
       THEN \E heard \in {verdict, "TRANSPORT"} :
              flush' = [flush EXCEPT !.phase = "answered", !.reply = heard]
       ELSE UNCHANGED flush
  /\ UNCHANGED <<rows, filed, signedIn, history>>

\* The key has a receipt: the stored reply, unless the bytes differ.
ServeAgain(m) ==
  /\ receipts[m.key] # "open"
  /\ Answer(m, IF receipts[m.key] = m.body THEN "DELIVERED" ELSE "REFUSED")
  /\ UNCHANGED server

\* The work, its receipt and its audit commit together.
MutServeNoReceipt(m) ==
  /\ receipts[m.key] = "open" /\ Needs[m.record] \subseteq opened
  /\ effects' = [effects EXCEPT ![m.op] = @ + 1]
  /\ opened' = opened \cup {m.record}
  /\ Answer(m, "DELIVERED")
  /\ UNCHANGED receipts

ServeFirst(m) ==
  /\ receipts[m.key] = "open"
  /\ Needs[m.record] \subseteq opened
  /\ receipts' = [receipts EXCEPT ![m.key] = m.body]
  /\ effects' = [effects EXCEPT ![m.op] = @ + 1]
  /\ opened' = opened \cup {m.record}
  /\ Answer(m, "DELIVERED")

\* A business refusal rolls back and leaves no receipt.  What is refused for
\* want of an earlier record is always refused.
ServeRefuses(m) ==
  /\ receipts[m.key] = "open"
  /\ Answer(m, "REFUSED")
  /\ UNCHANGED server

\* Lost on the way, a 429, a 5xx, or a server that died before its commit.
RequestFails(m) ==
  /\ Answer(m, "TRANSPORT")
  /\ UNCHANGED server

-----------------------------------------------------------------------------
Init ==
  /\ rows = [i \in Op |-> NoRow]
  /\ filed = 0
  /\ signedIn = TRUE
  /\ flush = Idle
  /\ net = {}
  /\ receipts = [i \in Op |-> "open"]
  /\ effects = [i \in Op |-> 0]
  /\ opened = {}
  /\ requeued = {} /\ discarded = {} /\ restarts = 0 /\ retries = 0

UserNext ==
  \/ \E r \in Records, p \in Payloads : Enqueue(r, p)
  \/ \E i \in Op : Retry(i) \/ Discard(i)
  \/ Restart \/ SignOut \/ SignIn

FlushNext ==
  \/ StartFlush \/ LookAhead \/ Claim \/ CannotOpen \/ Freeze \/ Send
  \/ SessionGone \/ TimeOut \/ Settle \/ EndFlush \/ StaleFlushEnds
  \/ \E i \in Op : BackoffElapses(i)

ServerNext ==
  \E m \in net : ServeAgain(m) \/ ServeFirst(m) \/ ServeRefuses(m) \/ RequestFails(m)

Next == UserNext \/ FlushNext \/ ServerNext

Safety == Init /\ [][Next]_vars

\* What runs by itself in an app that is not suspended: the steps of a flush
\* once begun, and the clock.  The user, and the choice the network makes, owe
\* nothing.
Fairness ==
  /\ WF_vars(LookAhead) /\ WF_vars(Claim) /\ WF_vars(Freeze) /\ WF_vars(Send)
  /\ WF_vars(SessionGone) /\ WF_vars(TimeOut) /\ WF_vars(Settle) /\ WF_vars(EndFlush)
  /\ WF_vars(StaleFlushEnds)
  /\ \A i \in Op : WF_vars(BackoffElapses(i))

\* What does not: a flush begins only when a tick finds the app in front, its
\* tokens there and the probe answered.  This says that while there is work a
\* tick sooner or later does, and is a matter of the phone, not of the code.
Reached == WF_vars(StartFlush)

Spec == Safety /\ Fairness

-----------------------------------------------------------------------------
(* Properties.                                                              *)

TypeOK ==
  /\ rows \in [Op -> Row]
  /\ filed \in 0 .. MaxOps
  /\ signedIn \in BOOLEAN
  /\ flush \in FlushType
  /\ net \subseteq Request
  /\ receipts \in [Op -> Bodies]
  /\ effects \in [Op -> Nat]
  /\ opened \subseteq Records
  /\ requeued \subseteq Op /\ discarded \subseteq Op
  /\ restarts \in Nat /\ retries \in Nat

\* Whatever is lost, late, retried or interrupted, what the user filed once
\* takes effect on the server at most once.
AtMostOnce == \A i \in Op : effects[i] <= 1

\* Nothing the user filed disappears: it is still in the outbox, or the user
\* threw it away after seeing it fail, or the server has it.  A row shown as
\* delivered is one the server has.
NothingLost ==
  \A i \in 1 .. filed :
    \/ rows[i].state \in ActiveStates \cup {"FAILED"}
    \/ rows[i].state = "NONE" /\ i \in discarded
    \/ effects[i] > 0

\* Every attempt under one key carries the same bytes, and the bytes the
\* server has already accepted under it: no retry can be refused as a
\* different request.
OneBodyPerKey ==
  /\ \A m, n \in net : m.key = n.key => m.body = n.body
  /\ \A m \in net : receipts[m.key] \in {"open", m.body}

\* An operation is never sent ahead of an older one for its record, except an
\* older one the user himself put back after it had failed.
FiledOrder ==
  [][\A i \in Op :
       rows[i].state # "SENDING" /\ rows'[i].state = "SENDING"
         => Ahead(rows, i) \subseteq requeued]_vars

\* On a phone that gets to begin a flush whenever work keeps waiting, every
\* operation is settled in the end, one way or the other, as long as the
\* account stays signed in, whatever becomes of the requests.
Settles ==
  Reached => \A i \in Op : rows[i].state \in ActiveStates
                             ~> (rows[i].state \notin ActiveStates \/ ~signedIn)

\* The order the schema's comment promises: an operation is never sent before
\* an earlier one it needs that is still waiting in this outbox.
NotSentBeforeItsNeed ==
  [][\A i \in Op :
       rows[i].state # "SENDING" /\ rows'[i].state = "SENDING"
         => \A j \in Op : rows[j].record \in Needs[rows[i].record] /\ rows[j].seq < rows[i].seq
                            => rows[j].state \notin ActiveStates]_vars

============================================================================
