--------------------------- MODULE Outbox_proofs ---------------------------
(***************************************************************************)
(* Proofs about Outbox, for any records, payloads and bounds: the safety   *)
(* properties its runs check on small instances hold of every outbox.      *)
(*                                                                         *)
(* Inv is inductive.  Its parts lean on one another in a circle that a     *)
(* step breaks nowhere: the row a flush has in hand is not touched by the  *)
(* user (Held), so what it sends is what the row says (OneBody); at most   *)
(* one request has a client waiting (Heard), so a reply settles the row it *)
(* is about; a receipt goes with each effect (Exactly), so a reply that    *)
(* says delivered is true (Truthful), and what is purged is on the server. *)
(* RowsStep, MessagesStep and ServerStep say once what any step does to a  *)
(* row, a message and the server; the parts are proved from those.         *)
(***************************************************************************)
EXTENDS Outbox, DataLemmas

-----------------------------------------------------------------------------
(* The inductive invariant.                                                 *)

\* Operations not filed yet have left no trace, and a row is what its
\* operation made it: its key is the operation's own.
Filed ==
  /\ \A i \in Op : i > filed => rows[i].state = "NONE" /\ receipts[i] = "open"
  /\ \A i \in Op : rows[i].seq <= filed
  /\ \A i \in Op : rows[i].state # "NONE" => rows[i].key = i
  /\ \A m \in net : m.key = m.op /\ m.op <= filed

\* The row a flush has in hand is still on the wire, or was queued again under
\* a flush whose handle is closed; the body it will send is the row's.
Held ==
  /\ flush.phase = "checked" => flush.op \in Op
  /\ flush.phase \in InHand =>
       flush.op \in Op /\ rows[flush.op].state \in {"SENDING", "QUEUED"}
  /\ flush.phase \in {"claimed", "frozen"} => flush.body = rows[flush.op].body
  /\ flush.phase = "frozen" => flush.body # "open"

\* At most one request has somebody waiting for its reply: the flush.
Heard ==
  /\ \A m \in net : m.live => flush.phase = "wire" /\ m.op = flush.op
  /\ \A m, n \in net : m.live /\ n.live => m = n

\* A receipt for each effect, and an effect for each receipt.
Exactly == \A i \in Op : effects[i] = IF receipts[i] = "open" THEN 0 ELSE 1

\* What has been sent or accepted under a row's key is the body the row has.
OneBody ==
  \A i \in Op : rows[i].state # "NONE" =>
    /\ \A m \in net : m.key = i => m.body = rows[i].body
    /\ receipts[i] \in {"open", rows[i].body}

\* What is taken for delivered is delivered.
Truthful ==
  /\ \A i \in Op : rows[i].state = "SUCCEEDED" => effects[i] > 0
  /\ flush.phase = "answered" /\ flush.reply = "DELIVERED" => effects[flush.op] > 0

Inv ==
  TypeOK /\ Filed /\ Held /\ Heard /\ Exactly /\ OneBody /\ OneBodyPerKey /\ Truthful /\ NothingLost

\* While a flush has its handle: the rows of its snapshot still wait, and what
\* is ahead of the one it has looked at was put back by the user.
Waiting ==
  /\ \A i \in flush.todo : ~flush.stale => rows[i].state \in WaitingStates
  /\ flush.phase = "checked" /\ ~flush.stale =>
       /\ rows[flush.op].state \in WaitingStates
       /\ Ahead(rows, flush.op) \subseteq requeued
  /\ ~signedIn => flush.stale \/ flush.phase = "idle"
  /\ flush.phase = "idle" => flush.todo = {}
  /\ flush.phase # "idle" => flush.op \notin flush.todo

-----------------------------------------------------------------------------
(* Lemmas about the table.                                                  *)

USE MaxRetriesAssumption, OutboxConstants
    DEF Op, ActiveStates, WaitingStates, RowStates, Verdicts, Decisions, Bodies, Phases, InHand

\* The row of an operation that was never filed, or is gone.
LEMMA NoRowType ==
  /\ NoRow \in Row /\ NoRow.state = "NONE" /\ NoRow.seq = 0
  /\ NoRow.body = "plain"
<1>1. (CHOOSE r \in Records : TRUE) \in Records
  OBVIOUS
<1>2. (CHOOSE p \in Payloads : TRUE) \in Payloads
  OBVIOUS
<1>3. 1 \in Op
  OBVIOUS
<1> QED BY <1>1, <1>2, <1>3 DEF NoRow, Row

\* A new row's number: above every row that is there.
LEMMA NextSeqAbove ==
  ASSUME rows \in [Op -> Row], filed \in Nat, \A i \in Op : rows[i].seq <= filed
  PROVE  /\ NextSeq(rows) \in Nat /\ NextSeq(rows) <= filed + 1
         /\ \A i \in Present(rows) : rows[i].seq < NextSeq(rows)
<1> DEFINE used == {0} \cup {rows[i].seq : i \in Present(rows)}
           max == CHOOSE n \in used : \A m \in used : m <= n
<1>1. used \in SUBSET Nat /\ used # {} /\ \A n \in used : n <= filed
  <2>1. \A i \in Present(rows) : rows[i].seq \in Nat /\ rows[i].seq <= filed
    BY DEF Row, Present
  <2> QED BY <2>1
<1>2. max \in used /\ \A m \in used : m <= max
  <2> HIDE DEF used
  <2>1. \E n \in used : \A m \in used : m <= n
    BY <1>1, Greatest
  <2> QED BY <2>1
<1>3. NextSeq(rows) = 1 + max
  BY DEF NextSeq
<1>4. \A i \in Present(rows) : rows[i].seq \in used
  OBVIOUS
<1> HIDE DEF used, max
<1>5. max \in Nat /\ max <= filed
  BY <1>1, <1>2
<1>6. ASSUME NEW i \in Present(rows) PROVE rows[i].seq \in Nat /\ rows[i].seq <= max
  BY <1>1, <1>2, <1>4
<1> QED BY <1>3, <1>5, <1>6

\* The first of a snapshot is one of its rows.
LEMMA FirstOfSnapshot ==
  ASSUME rows \in [Op -> Row], NEW S \in SUBSET Op, S # {}
  PROVE  \E j \in S : \A k \in S : rows[j].seq <= rows[k].seq
<1> DEFINE seqs == {rows[j].seq : j \in S}
<1>1. seqs \in SUBSET Nat /\ seqs # {}
  <2>1. \A j \in S : rows[j].seq \in Nat
    BY DEF Row
  <2> QED BY <2>1
<1>2. PICK n \in seqs : \A m \in seqs : n <= m
  <2> HIDE DEF seqs
  <2> QED BY <1>1, Least
<1> QED BY <1>2

\* A purge takes delivered rows and changes nothing else.
LEMMA PurgeShape ==
  ASSUME NEW table \in [Op -> Row], NEW kept, Purge(table, kept)
  PROVE  /\ kept \in [Op -> Row]
         /\ \A i \in Op : \/ kept[i] = table[i]
                          \/ table[i].state = "SUCCEEDED" /\ kept[i] = NoRow
  BY NoRowType DEF Purge

\* What each statement leaves in a row.
LEMMA RowOperators ==
  ASSUME NEW row \in Row
  PROVE  /\ Claimed(row) \in Row /\ Delivered(row) \in Row /\ Refused(row) \in Row
         /\ Deferred(row) \in Row /\ Retried(row) \in Row
         /\ \A b \in Bodies : [row EXCEPT !.body = b] \in Row
         /\ [row EXCEPT !.due = TRUE] \in Row
<1> USE DEF Row
<1>1. Claimed(row) \in Row
  BY DEF Claimed
<1>2. Delivered(row) \in Row
  BY DEF Delivered
<1>3. Refused(row) \in Row
  BY DEF Refused
<1>4. Deferred(row) \in Row
  <2> DEFINE tries == row.tries + 1
  <2>1. tries \in Nat
    OBVIOUS
  <2> HIDE DEF tries
  <2>2. [row EXCEPT !.state = "FAILED", !.tries = tries] \in Row
    BY <2>1
  <2>3. [row EXCEPT !.state = "BACKOFF", !.tries = tries, !.due = FALSE] \in Row
    BY <2>1
  <2> HIDE DEF Row
  <2> QED BY <2>2, <2>3, Zenon DEF Deferred, tries
<1>5. Retried(row) \in Row
  BY DEF Retried
<1>6. ASSUME NEW b \in Bodies PROVE [row EXCEPT !.body = b] \in Row
  OBVIOUS
<1>7. [row EXCEPT !.due = TRUE] \in Row
  OBVIOUS
<1> HIDE DEF Row
<1> QED BY <1>1, <1>2, <1>3, <1>4, <1>5, <1>6, <1>7

\* Opening the database queues again what was on the wire, and nothing else.
LEMMA RecoveredShape ==
  ASSUME rows \in [Op -> Row]
  PROVE  /\ Recovered(rows) \in [Op -> Row]
         /\ \A i \in Op : \/ Recovered(rows)[i] = rows[i] /\ rows[i].state # "SENDING"
                          \/ /\ rows[i].state = "SENDING"
                             /\ Recovered(rows)[i] = [rows[i] EXCEPT !.state = "QUEUED"]
<1>1. ASSUME NEW i \in Op PROVE [rows[i] EXCEPT !.state = "QUEUED"] \in Row
  <2> DEFINE row == rows[i]
  <2>1. row \in Row
    OBVIOUS
  <2> HIDE DEF row
  <2>2. [row EXCEPT !.state = "QUEUED"] \in Row
    BY <2>1 DEF Row
  <2> QED BY <2>2 DEF row
<1>2. DOMAIN rows = Op
  OBVIOUS
<1> QED BY <1>1, <1>2 DEF Recovered

\* The row of a new filing.
LEMMA NewRowType ==
  ASSUME NEW r \in Records, NEW p \in Payloads, NEW n \in Nat, NEW k \in Op, NEW b \in Bodies
  PROVE  [NoRow EXCEPT !.state = "QUEUED", !.seq = n, !.record = r, !.payload = p,
                       !.key = k, !.body = b] \in Row
<1>1. NoRow \in Row
  BY NoRowType
<1> QED BY <1>1 DEF Row

-----------------------------------------------------------------------------
(* Types.                                                                   *)

\* The flush that is not running.
LEMMA IdleType ==
  /\ Idle \in FlushType /\ Idle.phase = "idle"
  /\ Idle.todo = {} /\ Idle.op = 0 /\ Idle.stale = FALSE
  BY DEF FlushType, Idle

\* What each step leaves of the flush.
LEMMA FlushOperators ==
  ASSUME NEW f \in FlushType
  PROVE  /\ \A todo \in SUBSET Op :
              /\ [f EXCEPT !.phase = "scan", !.todo = todo] \in FlushType
              /\ \A stale \in BOOLEAN :
                   [f EXCEPT !.phase = "scan", !.todo = todo, !.stale = stale] \in FlushType
              /\ [f EXCEPT !.todo = todo] \in FlushType
              /\ \A i \in Op : [f EXCEPT !.todo = todo, !.phase = "checked", !.op = i] \in FlushType
         /\ \A b \in Bodies : /\ [f EXCEPT !.phase = "claimed", !.body = b] \in FlushType
                              /\ [f EXCEPT !.body = b, !.phase = "frozen"] \in FlushType
         /\ [f EXCEPT !.phase = "wire"] \in FlushType
         /\ \A v \in Verdicts : [f EXCEPT !.phase = "answered", !.reply = v] \in FlushType
         /\ \A s \in BOOLEAN : [f EXCEPT !.stale = s] \in FlushType
<1> USE DEF FlushType
<1>1. ASSUME NEW todo \in SUBSET Op PROVE [f EXCEPT !.phase = "scan", !.todo = todo] \in FlushType
  OBVIOUS
<1>2. ASSUME NEW todo \in SUBSET Op, NEW stale \in BOOLEAN
      PROVE  [f EXCEPT !.phase = "scan", !.todo = todo, !.stale = stale] \in FlushType
  OBVIOUS
<1>3. ASSUME NEW todo \in SUBSET Op PROVE [f EXCEPT !.todo = todo] \in FlushType
  OBVIOUS
<1>4. ASSUME NEW todo \in SUBSET Op, NEW i \in Op
      PROVE  [f EXCEPT !.todo = todo, !.phase = "checked", !.op = i] \in FlushType
  <2>1. i \in 0 .. MaxOps
    OBVIOUS
  <2> QED BY <2>1
<1>5. ASSUME NEW b \in Bodies PROVE [f EXCEPT !.phase = "claimed", !.body = b] \in FlushType
  OBVIOUS
<1>6. ASSUME NEW b \in Bodies PROVE [f EXCEPT !.body = b, !.phase = "frozen"] \in FlushType
  OBVIOUS
<1>7. [f EXCEPT !.phase = "wire"] \in FlushType
  OBVIOUS
<1>8. ASSUME NEW v \in Verdicts PROVE [f EXCEPT !.phase = "answered", !.reply = v] \in FlushType
  OBVIOUS
<1>9. ASSUME NEW s \in BOOLEAN PROVE [f EXCEPT !.stale = s] \in FlushType
  OBVIOUS
<1> HIDE DEF FlushType
<1> QED BY <1>1, <1>2, <1>3, <1>4, <1>5, <1>6, <1>7, <1>8, <1>9, Zenon

\* Requests nobody waits for are requests.
LEMMA UnheardType ==
  ASSUME NEW S \in SUBSET Request
  PROVE  Unheard(S) \in SUBSET Request
<1>1. ASSUME NEW m \in Request PROVE [m EXCEPT !.live = FALSE] \in Request
  BY DEF Request
<1> QED BY <1>1 DEF Unheard


\* Every action keeps the types.
LEMMA StepType == ASSUME TypeOK, Filed, Held, Next PROVE TypeOK'
<1> USE DEF TypeOK
<1>1. ASSUME NEW r \in Records, NEW p \in Payloads, Enqueue(r, p) PROVE TypeOK'
  <2> DEFINE new == [NoRow EXCEPT !.state = "QUEUED", !.seq = NextSeq(rows), !.record = r,
                       !.payload = p, !.key = filed + 1,
                       !.body = IF r \in Punches THEN "open" ELSE "plain"]
  <2>1. NextSeq(rows) \in Nat /\ filed + 1 \in Op
    BY <1>1, NextSeqAbove DEF Enqueue, Filed
  <2>2. new \in Row
    BY <2>1, NewRowType
  <2>3. rows' = [rows EXCEPT ![filed + 1] = new] /\ filed' = filed + 1
    BY <1>1, Zenon DEF Enqueue
  <2> HIDE DEF new
  <2>4. rows' \in [Op -> Row] /\ filed' \in 0 .. MaxOps
    BY <2>1, <2>2, <2>3 DEF Op
  <2> QED BY <1>1, <2>4 DEF Enqueue, server, history
<1>2. ASSUME NEW i \in Op, Retry(i) PROVE TypeOK'
  <2>1. Retried(rows[i]) \in Row
    BY RowOperators
  <2> QED BY <1>2, <2>1 DEF Retry, server
<1>3. ASSUME NEW i \in Op, Discard(i) PROVE TypeOK'
  BY <1>3, NoRowType DEF Discard, server
<1>4. CASE Restart
  <2>1. rows' \in [Op -> Row]
    BY <1>4, RecoveredShape, PurgeShape DEF Restart
  <2>2. flush' \in FlushType
    BY <1>4, IdleType DEF Restart
  <2>3. net' \subseteq Request
    BY <1>4, UnheardType DEF Restart
  <2> QED BY <1>4, <2>1, <2>2, <2>3 DEF Restart, server
<1>5. CASE SignOut
  <2>1. flush' \in FlushType
    BY <1>5, FlushOperators, Zenon DEF SignOut
  <2>2. /\ signedIn' = FALSE /\ restarts' = restarts + 1
        /\ UNCHANGED <<rows, filed, net, server, requeued, discarded, retries>>
    BY <1>5, Zenon DEF SignOut
  <2>3. signedIn' \in BOOLEAN
    BY <2>2, Zenon
  <2>4. restarts' \in Nat
    BY <2>2
  <2>5. UNCHANGED <<rows, filed, net, receipts, effects, opened, requeued, discarded, retries>>
    BY <2>2, Zenon DEF server
  <2> QED BY <2>1, <2>3, <2>4, <2>5
<1>6. CASE SignIn
  <2>1. rows' \in [Op -> Row]
    BY <1>6, RecoveredShape, PurgeShape DEF SignIn
  <2> QED BY <1>6, <2>1 DEF SignIn, server, history
<1>7. CASE StartFlush
  <2> DEFINE S == Oldest(rows, Ready(rows), FlushLimit)
  <2>1. S \in SUBSET Op
    BY DEF Oldest, Ready
  <2>2. flush' = [Idle EXCEPT !.phase = "scan", !.todo = S]
    BY <1>7, Zenon DEF StartFlush
  <2> HIDE DEF S
  <2>3. flush' \in FlushType
    BY <2>1, <2>2, IdleType, FlushOperators, Zenon
  <2> QED BY <1>7, <2>3 DEF StartFlush, server, history
<1>8. CASE LookAhead
  <2> DEFINE i == CHOOSE j \in flush.todo : \A k \in flush.todo : rows[j].seq <= rows[k].seq
             rest == flush.todo \ {i}
  <2>1. i \in Op /\ rest \in SUBSET Op
    <3>1. flush.todo \in SUBSET Op
      BY DEF FlushType
    <3> QED BY <1>8, <3>1, FirstOfSnapshot DEF LookAhead
  <2>2. \/ flush' = [flush EXCEPT !.todo = rest, !.phase = "checked", !.op = i]
        \/ flush' = [flush EXCEPT !.todo = rest]
    BY <1>8, Zenon DEF LookAhead
  <2> HIDE DEF i, rest
  <2>3. /\ [flush EXCEPT !.todo = rest, !.phase = "checked", !.op = i] \in FlushType
        /\ [flush EXCEPT !.todo = rest] \in FlushType
    BY <2>1, FlushOperators
  <2>4. flush' \in FlushType
    BY <2>2, <2>3, Zenon
  <2> QED BY <1>8, <2>4 DEF LookAhead, server, history
<1>9. NextRow \in FlushType
  <2>1. flush.todo \in SUBSET Op /\ flush.stale \in BOOLEAN
    BY DEF FlushType
  <2> QED BY <2>1, IdleType, FlushOperators, Zenon DEF NextRow
<1>10. CASE Claim
  <2>1. flush.op \in Op /\ rows[flush.op] \in Row
    BY <1>10 DEF Claim, Held
  <2>2. rows[flush.op].body \in Bodies /\ Claimed(rows[flush.op]) \in Row
    <3>1. rows[flush.op].body \in Bodies
      BY <2>1 DEF Row
    <3> QED BY <2>1, <3>1, RowOperators
  <2>3. rows' \in [Op -> Row]
    BY <1>10, <2>1, <2>2 DEF Claim
  <2>4. flush' \in FlushType
    <3>1. [flush EXCEPT !.phase = "claimed", !.body = rows[flush.op].body] \in FlushType
      BY <2>2, FlushOperators
    <3> QED BY <1>10, <1>9, <3>1, Zenon DEF Claim
  <2> QED BY <1>10, <2>3, <2>4 DEF Claim, server, history
<1>11. CASE CannotOpen
  <2>1. rows' \in [Op -> Row]
    <3>1. flush.op \in Op
      BY <1>11 DEF CannotOpen, Held
    <3>2. Refused(rows[flush.op]) \in Row
      BY <3>1, RowOperators
    <3> QED BY <1>11, <3>1, <3>2 DEF CannotOpen
  <2>2. flush' \in FlushType
    BY <1>11, <1>9, IdleType, Zenon DEF CannotOpen
  <2> QED BY <1>11, <2>1, <2>2 DEF CannotOpen, server, history
<1>12. CASE Freeze
  <2>1. PICK body \in {"live", "replay"} :
          /\ rows' = Rewritten(flush.op, body)
          /\ flush' = [flush EXCEPT !.body = body, !.phase = "frozen"]
    BY <1>12, Zenon DEF Freeze
  <2>2. rows' \in [Op -> Row]
    <3>1. flush.op \in Op
      BY <1>12 DEF Freeze, Held
    <3>2. [rows[flush.op] EXCEPT !.body = body] \in Row
      BY <3>1, RowOperators
    <3> QED BY <2>1, <3>1, <3>2 DEF Rewritten
  <2>3. flush' \in FlushType
    <3>1. body \in Bodies
      OBVIOUS
    <3> QED BY <2>1, <3>1, FlushOperators, Zenon
  <2> QED BY <1>12, <2>2, <2>3 DEF Freeze, server, history
<1>13. CASE Send
  <2>1. flush' \in FlushType
    BY <1>13, FlushOperators, Zenon DEF Send
  <2>2. net' \subseteq Request
    <3>1. flush.op \in Op /\ flush.body \in Bodies /\ flush.body # "open" /\ rows[flush.op] \in Row
      BY <1>13 DEF Send, Held, FlushType
    <3>2. rows[flush.op].key \in Op /\ rows[flush.op].record \in Records
      BY <3>1 DEF Row
    <3> DEFINE sent == [op |-> flush.op, key |-> rows[flush.op].key, live |-> TRUE,
                        record |-> rows[flush.op].record, body |-> flush.body]
    <3>3. sent \in Request
      BY <3>1, <3>2 DEF Request
    <3>4. net' = net \cup {sent}
      BY <1>13, Zenon DEF Send
    <3> HIDE DEF sent
    <3> QED BY <3>3, <3>4
  <2> QED BY <1>13, <2>1, <2>2 DEF Send, server, history
<1>14. \A v \in Verdicts : [flush EXCEPT !.phase = "answered", !.reply = v] \in FlushType
  BY FlushOperators
<1>15. CASE SessionGone
  <2>1. flush' \in FlushType
    BY <1>15, <1>14 DEF SessionGone
  <2> QED BY <1>15, <2>1 DEF SessionGone, server, history
<1>16. CASE TimeOut
  <2>1. flush' \in FlushType /\ net' \subseteq Request
    BY <1>16, <1>14, UnheardType DEF TimeOut
  <2> QED BY <1>16, <2>1 DEF TimeOut, server, history
<1>17. CASE Settle
  <2>1. rows' \in [Op -> Row]
    <3>1. flush.op \in Op
      BY <1>17 DEF Settle, Held
    <3>2. Settlement(rows[flush.op], flush.reply) \in Row
      BY <3>1, RowOperators DEF Settlement
    <3> QED BY <1>17, <3>1, <3>2 DEF Settle
  <2> QED BY <1>17, <1>9, <2>1 DEF Settle, server, history
<1>18. CASE EndFlush
  <2>1. rows' \in [Op -> Row]
    BY <1>18, PurgeShape DEF EndFlush
  <2> QED BY <1>18, <2>1, IdleType DEF EndFlush, server, history
<1>19. CASE StaleFlushEnds
  BY <1>19, IdleType DEF StaleFlushEnds, server, history
<1>20. ASSUME NEW i \in Op, BackoffElapses(i) PROVE TypeOK'
  <2>1. [rows[i] EXCEPT !.due = TRUE] \in Row
    BY RowOperators
  <2> QED BY <1>20, <2>1 DEF BackoffElapses, server, history
<1>21. ASSUME NEW m \in net, NEW verdict \in Verdicts, Answer(m, verdict)
       PROVE  /\ rows' \in [Op -> Row] /\ filed' \in 0 .. MaxOps /\ signedIn' \in BOOLEAN
              /\ flush' \in FlushType /\ net' \subseteq Request
              /\ requeued' \subseteq Op /\ discarded' \subseteq Op
              /\ restarts' \in Nat /\ retries' \in Nat
  <2>1. flush' \in FlushType
    BY <1>21, <1>14 DEF Answer
  <2> QED BY <1>21, <2>1 DEF Answer, history
<1>22. ASSUME NEW m \in net, ServeAgain(m) \/ ServeRefuses(m) \/ RequestFails(m) PROVE TypeOK'
  <2>1. PICK verdict \in Verdicts : Answer(m, verdict)
    BY <1>22 DEF ServeAgain, ServeRefuses, RequestFails
  <2>2. UNCHANGED server
    BY <1>22 DEF ServeAgain, ServeRefuses, RequestFails
  <2> QED BY <1>21, <2>1, <2>2 DEF server
<1>23. ASSUME NEW m \in net, ServeFirst(m) PROVE TypeOK'
  <2>1. m.key \in Op /\ m.op \in Op /\ m.body \in Bodies /\ m.record \in Records
    BY DEF Request
  <2>2. Answer(m, "DELIVERED")
    BY <1>23 DEF ServeFirst
  <2>3. effects[m.op] + 1 \in Nat
    BY <2>1
  <2> QED BY <1>21, <1>23, <2>1, <2>2, <2>3 DEF ServeFirst
<1> HIDE DEF TypeOK
<1> QED
  BY <1>1, <1>2, <1>3, <1>4, <1>5, <1>6, <1>7, <1>8, <1>10, <1>11, <1>12, <1>13, <1>15,
     <1>16, <1>17, <1>18, <1>19, <1>20, <1>22, <1>23, Zenon
  DEF Next, UserNext, FlushNext, ServerNext

-----------------------------------------------------------------------------
(* What a step does to one row, to the network and to the server.           *)

\* The same filing, whatever has become of it.
SameFiling(row, new) ==
  new.seq = row.seq /\ new.record = row.record /\ new.key = row.key /\ new.body = row.body

\* Which fields each statement of the table leaves alone.
LEMMA RowFields ==
  ASSUME NEW row \in Row
  PROVE  /\ SameFiling(row, Claimed(row)) /\ Claimed(row).state = "SENDING"
         /\ SameFiling(row, Delivered(row)) /\ Delivered(row).state = "SUCCEEDED"
         /\ SameFiling(row, Refused(row)) /\ Refused(row).state = "FAILED"
         /\ SameFiling(row, Deferred(row)) /\ Deferred(row).state \in {"FAILED", "BACKOFF"}
         /\ SameFiling(row, Retried(row)) /\ Retried(row).state = "QUEUED"
         /\ \A due \in BOOLEAN : /\ SameFiling(row, [row EXCEPT !.due = due])
                                 /\ [row EXCEPT !.due = due].state = row.state
         /\ \A state : /\ SameFiling(row, [row EXCEPT !.state = state])
                       /\ [row EXCEPT !.state = state].state = state
         /\ \A b : LET new == [row EXCEPT !.body = b]
                   IN  /\ new.seq = row.seq /\ new.record = row.record /\ new.key = row.key
                       /\ new.state = row.state /\ new.body = b
<1> USE DEF Row, SameFiling
<1>1. SameFiling(row, Claimed(row)) /\ Claimed(row).state = "SENDING"
  BY DEF Claimed
<1>2. SameFiling(row, Delivered(row)) /\ Delivered(row).state = "SUCCEEDED"
  BY DEF Delivered
<1>3. SameFiling(row, Refused(row)) /\ Refused(row).state = "FAILED"
  BY DEF Refused
<1>4. SameFiling(row, Deferred(row)) /\ Deferred(row).state \in {"FAILED", "BACKOFF"}
  BY DEF Deferred
<1>5. SameFiling(row, Retried(row)) /\ Retried(row).state = "QUEUED"
  BY DEF Retried
<1>6. ASSUME NEW due \in BOOLEAN
      PROVE  SameFiling(row, [row EXCEPT !.due = due]) /\ [row EXCEPT !.due = due].state = row.state
  OBVIOUS
<1>7. ASSUME NEW state
      PROVE  /\ SameFiling(row, [row EXCEPT !.state = state])
             /\ [row EXCEPT !.state = state].state = state
  OBVIOUS
<1>8. ASSUME NEW b
      PROVE  LET new == [row EXCEPT !.body = b]
             IN  /\ new.seq = row.seq /\ new.record = row.record /\ new.key = row.key
                 /\ new.state = row.state /\ new.body = b
  OBVIOUS
<1> HIDE DEF Row, SameFiling
<1> QED BY <1>1, <1>2, <1>3, <1>4, <1>5, <1>6, <1>7, <1>8, Zenon

\* A step leaves a row alone, or drops it once it is settled, or files it
\* behind every other, or updates it.  An update reports success only for a
\* reply that said so, and sends only what the flush has looked at; a row stops
\* waiting only in the hands of the flush, and is active again only for a user.
RowStep(i) ==
  \/ rows'[i] = rows[i]
  \/ /\ rows'[i] = NoRow
     /\ \/ rows[i].state = "SUCCEEDED"
        \/ rows[i].state = "FAILED" /\ i \in discarded'
  \/ /\ i = filed + 1 /\ filed' = filed + 1 /\ UNCHANGED <<net, receipts, effects>>
     /\ rows'[i].state = "QUEUED" /\ rows'[i].key = i /\ rows'[i].seq <= filed'
     /\ \A k \in Present(rows) : rows[k].seq < rows'[i].seq
  \/ /\ rows[i].state # "NONE" /\ rows'[i].state # "NONE"
     /\ rows'[i].seq = rows[i].seq /\ rows'[i].record = rows[i].record /\ rows'[i].key = rows[i].key
     /\ \/ rows'[i].body = rows[i].body
        \/ rows[i].body = "open" /\ UNCHANGED <<net, receipts>>
     /\ rows'[i].state \in ActiveStates \cup {"FAILED", "SUCCEEDED"}
     /\ rows'[i].state = "SUCCEEDED" =>
          flush.phase = "answered" /\ flush.reply = "DELIVERED" /\ flush.op = i
     /\ rows[i].state # "SENDING" /\ rows'[i].state = "SENDING" =>
          flush.phase = "checked" /\ ~flush.stale /\ flush.op = i
     /\ rows[i].state \in WaitingStates /\ rows'[i].state \notin WaitingStates =>
          flush.op = i /\ flush'.phase # flush.phase
     /\ rows'[i].state \in ActiveStates => rows[i].state \in ActiveStates \/ i \in requeued'

\* The update of one row, seen from any row.
LEMMA OneRowUpdated ==
  ASSUME rows \in [Op -> Row], NEW i \in Op, NEW j \in Op, NEW new,
         rows' = [rows EXCEPT ![j] = new], rows[j].state # "NONE", SameFiling(rows[j], new),
         new.state \in ActiveStates \cup {"FAILED", "SUCCEEDED"},
         new.state = "SUCCEEDED" =>
           flush.phase = "answered" /\ flush.reply = "DELIVERED" /\ flush.op = j,
         new.state = "SENDING" => flush.phase = "checked" /\ ~flush.stale /\ flush.op = j,
         rows[j].state \in WaitingStates /\ new.state \notin WaitingStates =>
           flush.op = j /\ flush'.phase # flush.phase,
         new.state \in ActiveStates => rows[j].state \in ActiveStates \/ j \in requeued'
  PROVE  RowStep(i)
<1>1. CASE i = j
  <2>1. rows'[i] = new
    BY <1>1
  <2> QED BY <1>1, <2>1 DEF RowStep, SameFiling
<1>2. CASE i # j
  BY <1>2 DEF RowStep
<1> QED BY <1>1, <1>2

\* A filing adds its row, queued, under the next number and its own key.
LEMMA EnqueueStep ==
  ASSUME TypeOK, Filed, NEW r \in Records, NEW p \in Payloads, Enqueue(r, p)
  PROVE  /\ filed + 1 \in Op /\ filed' = filed + 1
         /\ UNCHANGED <<net, receipts, effects>>
         /\ \A i \in Op : i # filed + 1 => rows'[i] = rows[i]
         /\ rows'[filed + 1].state = "QUEUED" /\ rows'[filed + 1].key = filed + 1
         /\ rows'[filed + 1].seq <= filed'
         /\ \A i \in Present(rows) : rows[i].seq < rows'[filed + 1].seq
<1> DEFINE b == IF r \in Punches THEN "open" ELSE "plain"
           new == [NoRow EXCEPT !.state = "QUEUED", !.seq = NextSeq(rows), !.record = r,
                     !.payload = p, !.key = filed + 1, !.body = b]
<1>0. rows \in [Op -> Row]
  BY DEF TypeOK
<1>1. /\ NextSeq(rows) \in Nat /\ NextSeq(rows) <= filed + 1 /\ filed + 1 \in Op
      /\ \A i \in Present(rows) : rows[i].seq < NextSeq(rows)
  BY NextSeqAbove DEF Enqueue, Filed, TypeOK
<1>2. rows' = [rows EXCEPT ![filed + 1] = new] /\ filed' = filed + 1
      /\ UNCHANGED <<net, receipts, effects>>
  BY Zenon DEF Enqueue, server
<1>3. new.state = "QUEUED" /\ new.key = filed + 1 /\ new.seq = NextSeq(rows)
  BY NoRowType DEF Row
<1> HIDE DEF new
<1> QED BY <1>0, <1>1, <1>2, <1>3

\* Whatever the step, this is what it does to a row.
LEMMA RowsStep ==
  ASSUME TypeOK, Filed, Held, Next, NEW i \in Op
  PROVE  RowStep(i)
<1> USE DEF RowStep
<1>0. rows \in [Op -> Row] /\ rows[i] \in Row /\ flush \in FlushType
  BY DEF TypeOK
<1>1. ASSUME NEW r \in Records, NEW p \in Payloads, Enqueue(r, p) PROVE RowStep(i)
  BY <1>1, EnqueueStep
<1>2. ASSUME NEW j \in Op, Retry(j) PROVE RowStep(i)
  <2>1. /\ rows' = [rows EXCEPT ![j] = Retried(rows[j])] /\ rows[j].state = "FAILED"
        /\ requeued' = requeued \cup {j}
    BY <1>2, Zenon DEF Retry, MayRetry
  <2>2. SameFiling(rows[j], Retried(rows[j])) /\ Retried(rows[j]).state = "QUEUED"
    BY <1>0, RowFields
  <2> QED BY <1>0, <2>1, <2>2, OneRowUpdated
<1>3. ASSUME NEW j \in Op, Discard(j) PROVE RowStep(i)
  BY <1>0, <1>3 DEF Discard
<1>4. ASSUME Purge(Recovered(rows), rows') PROVE RowStep(i)
  <2>1. \/ Recovered(rows)[i] = rows[i]
        \/ /\ rows[i].state = "SENDING"
           /\ Recovered(rows)[i] = [rows[i] EXCEPT !.state = "QUEUED"]
    BY <1>0, RecoveredShape, Zenon
  <2>2. \/ rows'[i] = Recovered(rows)[i]
        \/ Recovered(rows)[i].state = "SUCCEEDED" /\ rows'[i] = NoRow
    BY <1>0, <1>4, RecoveredShape, PurgeShape
  <2>3. LET new == [rows[i] EXCEPT !.state = "QUEUED"]
        IN  SameFiling(rows[i], new) /\ new.state = "QUEUED"
    <3> DEFINE row == rows[i]
    <3>1. row \in Row
      BY <1>0
    <3> HIDE DEF row
    <3>2. SameFiling(row, [row EXCEPT !.state = "QUEUED"])
          /\ [row EXCEPT !.state = "QUEUED"].state = "QUEUED"
      BY <3>1 DEF Row, SameFiling
    <3> QED BY <3>2 DEF row
  <2>4. CASE Recovered(rows)[i] = rows[i]
    BY <2>2, <2>4
  <2>5. CASE rows[i].state = "SENDING" /\ Recovered(rows)[i] = [rows[i] EXCEPT !.state = "QUEUED"]
    <3>1. rows'[i] = [rows[i] EXCEPT !.state = "QUEUED"]
      BY <2>2, <2>3, <2>5
    <3> QED BY <2>3, <2>5, <3>1 DEF SameFiling
  <2> QED BY <2>1, <2>4, <2>5
<1>5. CASE Restart \/ SignIn
  BY <1>4, <1>5 DEF Restart, SignIn
<1>6. CASE Claim
  <2>1. flush.op \in Op
    BY <1>6 DEF Claim, Held
  <2>2. \/ UNCHANGED rows
        \/ /\ rows' = [rows EXCEPT ![flush.op] = Claimed(rows[flush.op])]
           /\ rows[flush.op].state \in WaitingStates
           /\ flush' = [flush EXCEPT !.phase = "claimed", !.body = rows[flush.op].body]
           /\ flush.phase = "checked" /\ ~flush.stale
    BY <1>6, Zenon DEF Claim
  <2>3. LET new == Claimed(rows[flush.op])
        IN  SameFiling(rows[flush.op], new) /\ new.state = "SENDING"
    BY <1>0, <2>1, RowFields
  <2>4. CASE UNCHANGED rows
    BY <2>4
  <2>5. CASE ~ UNCHANGED rows
    <3>1. flush'.phase = "claimed"
      BY <1>0, <2>2, <2>5 DEF FlushType
    <3> QED BY <1>0, <2>1, <2>2, <2>3, <2>5, <3>1, OneRowUpdated
  <2> QED BY <2>4, <2>5
<1>7. CASE CannotOpen
  <2>1. flush.op \in Op /\ rows[flush.op].state # "NONE"
    BY <1>7 DEF CannotOpen, Held
  <2>2. \/ UNCHANGED rows
        \/ rows' = [rows EXCEPT ![flush.op] = Refused(rows[flush.op])] /\ flush' = NextRow
    BY <1>7, Zenon DEF CannotOpen
  <2>3. LET new == Refused(rows[flush.op])
        IN  SameFiling(rows[flush.op], new) /\ new.state = "FAILED"
    BY <1>0, <2>1, RowFields
  <2>4. flush.phase = "claimed" /\ NextRow.phase = "scan"
    BY <1>7, IdleType DEF CannotOpen, NextRow, FlushType
  <2> QED BY <1>0, <2>1, <2>2, <2>3, <2>4, OneRowUpdated
<1>8. CASE Freeze
  BY <1>0, <1>8, RowFields DEF Freeze, Rewritten, Held, server
<1>9. CASE Settle
  <2> DEFINE new == Settlement(rows[flush.op], flush.reply)
  <2>1. flush.op \in Op /\ rows[flush.op].state # "NONE" /\ flush.phase = "answered"
    BY <1>9 DEF Settle, Held
  <2>2. rows' = [rows EXCEPT ![flush.op] = new] /\ flush' = NextRow
    BY <1>9, Zenon DEF Settle
  <2>3. /\ SameFiling(rows[flush.op], new)
        /\ new.state \in {"BACKOFF", "FAILED", "SUCCEEDED"}
        /\ new.state = "SUCCEEDED" => flush.reply = "DELIVERED"
    BY <1>0, <2>1, RowFields DEF Settlement
  <2>4. NextRow.phase = "scan" /\ rows[flush.op].state \in ActiveStates
    BY <1>9, IdleType DEF Settle, NextRow, FlushType, Held
  <2> HIDE DEF new
  <2> QED BY <1>0, <2>1, <2>2, <2>3, <2>4, OneRowUpdated
<1>10. CASE EndFlush
  <2>1. Purge(rows, rows')
    BY <1>10 DEF EndFlush
  <2> QED BY <1>0, <2>1, PurgeShape
<1>11. ASSUME NEW j \in Op, BackoffElapses(j) PROVE RowStep(i)
  <2>1. rows' = [rows EXCEPT ![j] = [rows[j] EXCEPT !.due = TRUE]] /\ rows[j].state = "BACKOFF"
    BY <1>11, Zenon DEF BackoffElapses
  <2>2. LET new == [rows[j] EXCEPT !.due = TRUE]
        IN  SameFiling(rows[j], new) /\ new.state = rows[j].state
    BY <1>0, RowFields
  <2> DEFINE new == [rows[j] EXCEPT !.due = TRUE]
  <2>3. rows' = [rows EXCEPT ![j] = new] /\ SameFiling(rows[j], new) /\ new.state = "BACKOFF"
    BY <2>1, <2>2
  <2> HIDE DEF new
  <2> QED BY <1>0, <2>1, <2>3, OneRowUpdated
<1>12. CASE SignOut \/ StartFlush \/ LookAhead \/ Send \/ SessionGone \/ TimeOut \/ StaleFlushEnds
  BY <1>12 DEF SignOut, StartFlush, LookAhead, Send, SessionGone, TimeOut, StaleFlushEnds
<1>13. CASE ServerNext
  BY <1>13 DEF ServerNext, ServeAgain, ServeFirst, ServeRefuses, RequestFails, Answer
<1> HIDE DEF RowStep
<1> QED
  BY <1>1, <1>2, <1>3, <1>5, <1>6, <1>7, <1>8, <1>9, <1>10, <1>11, <1>12, <1>13, Zenon
  DEF Next, UserNext, FlushNext

\* What a step leaves on the network was there before, perhaps with nobody
\* waiting any more, or is the request of the row in hand.
NetStep(m) ==
  \/ m \in net
  \/ \E n \in net : ~m.live /\ n.op = m.op /\ n.key = m.key /\ n.body = m.body
  \/ /\ flush.phase \in {"claimed", "frozen"} /\ flush.body # "open"
     /\ m.op = flush.op /\ m.key = rows[flush.op].key /\ m.body = flush.body
     /\ flush' = [flush EXCEPT !.phase = "wire"]
     /\ UNCHANGED <<rows, filed, receipts>>

\* A request given up on is the same request, with nobody waiting.
LEMMA UnheardKeeps ==
  ASSUME net \subseteq Request, NEW m \in Unheard(net)
  PROVE  \E n \in net : ~m.live /\ n.op = m.op /\ n.key = m.key /\ n.body = m.body
<1>1. PICK n \in net : m = [n EXCEPT !.live = FALSE]
  BY DEF Unheard
<1>2. n \in Request
  OBVIOUS
<1> QED BY <1>1, <1>2 DEF Request

\* Whatever the step, this is where a message comes from.
LEMMA MessagesStep ==
  ASSUME TypeOK, Held, Next, NEW m \in net'
  PROVE  NetStep(m)
<1>0. net \subseteq Request
  BY DEF TypeOK
<1>1. CASE Restart \/ TimeOut
  <2>1. net' = Unheard(net)
    BY <1>1 DEF Restart, TimeOut
  <2> QED BY <1>0, <2>1, UnheardKeeps DEF NetStep
<1>2. CASE Send
  <2> DEFINE sent == [op |-> flush.op, key |-> rows[flush.op].key, live |-> TRUE,
                      record |-> rows[flush.op].record, body |-> flush.body]
  <2>1. net' = net \cup {sent} /\ flush' = [flush EXCEPT !.phase = "wire"]
        /\ UNCHANGED <<rows, filed, receipts>>
    BY <1>2, Zenon DEF Send, server
  <2>2. flush.phase \in {"claimed", "frozen"} /\ (flush.phase = "claimed" => flush.body # "open")
    BY <1>2 DEF Send
  <2>3. flush.phase = "frozen" => flush.body # "open"
    BY DEF Held
  <2>4. sent.op = flush.op /\ sent.key = rows[flush.op].key /\ sent.body = flush.body
    OBVIOUS
  <2> HIDE DEF sent
  <2> QED BY <2>1, <2>2, <2>3, <2>4 DEF NetStep
<1>3. CASE ServerNext
  BY <1>3 DEF ServerNext, ServeAgain, ServeFirst, ServeRefuses, RequestFails, Answer, NetStep
<1>4. CASE UNCHANGED net
  BY <1>4 DEF NetStep
<1>5. ASSUME UserNext PROVE Restart \/ UNCHANGED net
  BY <1>5 DEF UserNext, Enqueue, Retry, Discard, SignOut, SignIn
<1>6. ASSUME FlushNext PROVE TimeOut \/ Send \/ UNCHANGED net
  BY <1>6 DEF FlushNext, StartFlush, LookAhead, Claim, CannotOpen, Freeze, SessionGone, Settle,
              EndFlush, StaleFlushEnds, BackoffElapses
<1> QED BY <1>1, <1>2, <1>3, <1>4, <1>5, <1>6, Zenon DEF Next

\* The server changes by one first execution at a time.
FirstServed(m) ==
  /\ receipts[m.key] = "open"
  /\ receipts' = [receipts EXCEPT ![m.key] = m.body]
  /\ effects' = [effects EXCEPT ![m.op] = @ + 1]
  /\ net' = net \ {m}
  /\ UNCHANGED <<rows, filed>>

\* Whatever the step, this is what it does to the server.
LEMMA ServerStep ==
  ASSUME Next
  PROVE  UNCHANGED <<receipts, effects>> \/ \E m \in net : FirstServed(m)
<1>1. ASSUME UserNext \/ FlushNext PROVE UNCHANGED <<receipts, effects>>
  BY <1>1 DEF UserNext, FlushNext, Enqueue, Retry, Discard, Restart, SignOut, SignIn, StartFlush,
              LookAhead, Claim, CannotOpen, Freeze, Send, SessionGone, TimeOut, Settle, EndFlush,
              StaleFlushEnds, BackoffElapses, server
<1>2. CASE ServerNext
  BY <1>2 DEF ServerNext, ServeAgain, ServeFirst, ServeRefuses, RequestFails, Answer, server,
              FirstServed
<1> QED BY <1>1, <1>2 DEF Next

\* Filings only accumulate, and only by Enqueue.
LEMMA FiledGrows ==
  ASSUME TypeOK, Next
  PROVE  /\ filed' \in Nat /\ filed <= filed'
         /\ filed' # filed => filed' = filed + 1 /\ \E r \in Records, p \in Payloads : Enqueue(r, p)
<1>1. ASSUME NEW r \in Records, NEW p \in Payloads, Enqueue(r, p) PROVE filed' = filed + 1
  BY <1>1 DEF Enqueue
<1>2. UNCHANGED filed \/ \E r \in Records, p \in Payloads : Enqueue(r, p)
  BY DEF Next, UserNext, FlushNext, Retry, Discard, Restart, SignOut, SignIn, StartFlush,
         LookAhead, Claim, CannotOpen, Freeze, Send, SessionGone, TimeOut, Settle, EndFlush,
         StaleFlushEnds, BackoffElapses, ServerNext, ServeAgain, ServeFirst, ServeRefuses,
         RequestFails, Answer
<1> QED BY <1>1, <1>2 DEF TypeOK

-----------------------------------------------------------------------------
(* Each part of the invariant survives a step.                              *)

\* What is not filed leaves no trace, and keys stay with their operations.
LEMMA StepFiled == ASSUME TypeOK, TypeOK', Filed, Held, Next PROVE Filed'
<1>0. filed \in Nat /\ filed' \in Nat /\ filed <= filed'
  BY FiledGrows DEF TypeOK
<1>1. ASSUME NEW i \in Op, i > filed' PROVE rows'[i].state = "NONE" /\ receipts'[i] = "open"
  <2>1. i > filed /\ rows[i].state = "NONE" /\ receipts[i] = "open"
    BY <1>0, <1>1 DEF Filed
  <2>2. rows'[i].state = "NONE"
    BY <1>0, <1>1, <2>1, RowsStep, NoRowType DEF RowStep
  <2>3. ASSUME NEW m \in net, FirstServed(m) PROVE receipts'[i] = "open"
    <3>1. m.key # i
      BY <1>0, <2>1 DEF Filed
    <3> QED BY <2>1, <2>3, <3>1 DEF FirstServed, TypeOK
  <2> QED BY <2>1, <2>2, <2>3, ServerStep
<1>2. ASSUME NEW i \in Op PROVE rows'[i].seq <= filed'
  <2>1. rows[i].seq <= filed /\ rows[i].seq \in Nat
    BY DEF Filed, TypeOK, Row
  <2> QED BY <1>0, <2>1, RowsStep, NoRowType DEF RowStep
<1>3. ASSUME NEW i \in Op, rows'[i].state # "NONE" PROVE rows'[i].key = i
  BY <1>3, RowsStep, NoRowType DEF RowStep, Filed
<1>4. ASSUME NEW m \in net' PROVE m.key = m.op /\ m.op <= filed'
  <2>1. ASSUME NEW n \in net PROVE n.key = n.op /\ n.op <= filed'
    <3>1. n.key = n.op /\ n.op <= filed /\ n.op \in Op
      BY DEF Filed, TypeOK, Request
    <3> QED BY <1>0, <3>1
  <2>2. CASE flush.phase \in {"claimed", "frozen"} /\ m.op = flush.op /\ m.key = rows[flush.op].key
    <3>1. flush.op \in Op /\ rows[flush.op].state # "NONE"
      BY <2>2 DEF Held
    <3> QED BY <1>0, <2>2, <3>1 DEF Filed
  <2> QED BY <2>1, <2>2, MessagesStep DEF NetStep
<1> QED BY <1>1, <1>2, <1>3, <1>4 DEF Filed

\* Receipts and effects go together.
LEMMA StepExactly == ASSUME TypeOK, Filed, Exactly, Next PROVE Exactly'
<1>1. ASSUME NEW m \in net, FirstServed(m) PROVE Exactly'
  <2>1. m.key = m.op /\ m.op \in Op /\ m.body # "open"
    BY DEF Filed, TypeOK, Request
  <2> QED BY <1>1, <2>1 DEF FirstServed, Exactly, TypeOK
<1> QED BY <1>1, ServerStep DEF Exactly

\* The row in hand stays in hand, with its body, whatever else happens.
LEMMA StepHeld == ASSUME TypeOK, Filed, Held, Heard, Next PROVE Held'
<1>0. rows \in [Op -> Row] /\ flush \in FlushType
  BY DEF TypeOK
<1>1. ASSUME UNCHANGED flush,
             flush.phase \in InHand => /\ rows'[flush.op].state \in {"SENDING", "QUEUED"}
                                       /\ rows'[flush.op].body = rows[flush.op].body
      PROVE  Held'
  <2>1. /\ flush' = flush /\ flush'.phase = flush.phase
        /\ flush'.op = flush.op /\ flush'.body = flush.body
    BY <1>1
  <2> QED BY <1>1, <2>1 DEF Held
<1>2. ASSUME NEW j \in Op, NEW new, rows' = [rows EXCEPT ![j] = new], UNCHANGED flush,
             rows[j].state \notin {"SENDING", "QUEUED"}
      PROVE  Held'
  <2>1. ASSUME flush.phase \in InHand PROVE rows'[flush.op] = rows[flush.op]
    BY <1>0, <1>2, <2>1 DEF Held
  <2>2. ASSUME flush.phase \in InHand PROVE rows[flush.op].state \in {"SENDING", "QUEUED"}
    BY <2>2 DEF Held
  <2> QED BY <1>1, <1>2, <2>1, <2>2
<1>3. ASSUME NEW r \in Records, NEW p \in Payloads, Enqueue(r, p) PROVE Held'
  <2>1. filed + 1 \in Op /\ filed + 1 > filed
    BY <1>3 DEF Enqueue, TypeOK
  <2>2. rows[filed + 1].state = "NONE"
    BY <2>1 DEF Filed
  <2> QED BY <1>2, <1>3, <2>1, <2>2 DEF Enqueue
<1>4. ASSUME NEW j \in Op, Retry(j) \/ Discard(j) \/ BackoffElapses(j) PROVE Held'
  BY <1>2, <1>4, Zenon DEF Retry, MayRetry, Discard, BackoffElapses
<1>5. CASE SignIn
  <2>1. ASSUME flush.phase \in InHand
        PROVE  /\ rows'[flush.op].state \in {"SENDING", "QUEUED"}
               /\ rows'[flush.op].body = rows[flush.op].body
    <3> DEFINE i == flush.op
               new == [rows[i] EXCEPT !.state = "QUEUED"]
    <3>1. i \in Op /\ rows[i] \in Row /\ rows[i].state \in {"SENDING", "QUEUED"}
      BY <1>0, <2>1 DEF Held
    <3>2. Recovered(rows)[i] = rows[i] \/ Recovered(rows)[i] = new
      BY <1>0, <3>1, RecoveredShape
    <3>3. new.state = "QUEUED" /\ new.body = rows[i].body
      BY <3>1, RowFields DEF SameFiling
    <3>4. \/ rows'[i] = Recovered(rows)[i]
          \/ Recovered(rows)[i].state = "SUCCEEDED"
      BY <1>0, <1>5, <3>1, RecoveredShape, PurgeShape DEF SignIn
    <3> HIDE DEF i, new
    <3> QED BY <3>1, <3>2, <3>3, <3>4 DEF i
  <2> QED BY <1>1, <1>5, <2>1 DEF SignIn
<1>6. CASE SignOut
  BY <1>0, <1>6 DEF SignOut, Held, FlushType
<1>7. ASSUME flush'.phase \in {"idle", "scan"} PROVE Held'
  BY <1>7 DEF Held
<1>8. CASE Restart \/ StartFlush \/ EndFlush \/ StaleFlushEnds
  <2> DEFINE S == Oldest(rows, Ready(rows), FlushLimit)
  <2>1. flush' = Idle \/ flush' = [Idle EXCEPT !.phase = "scan", !.todo = S]
    BY <1>8, Zenon DEF Restart, StartFlush, EndFlush, StaleFlushEnds
  <2> HIDE DEF S
  <2>2. flush'.phase \in {"idle", "scan"}
    BY <2>1, IdleType DEF FlushType
  <2> QED BY <1>7, <2>2
<1>9. CASE CannotOpen \/ Settle
  <2>1. flush' = Idle \/ flush' = NextRow
    BY <1>9, Zenon DEF CannotOpen, Settle
  <2>2. flush'.phase \in {"idle", "scan"}
    BY <2>1, IdleType DEF NextRow, FlushType
  <2> QED BY <1>7, <2>2
<1>10. CASE LookAhead
  <2> DEFINE i == CHOOSE j \in flush.todo : \A k \in flush.todo : rows[j].seq <= rows[k].seq
             rest == flush.todo \ {i}
  <2>1. i \in Op /\ flush.phase = "scan"
    <3>1. flush.todo \in SUBSET Op
      BY <1>0 DEF FlushType
    <3> QED BY <1>0, <1>10, <3>1, FirstOfSnapshot DEF LookAhead
  <2>2. \/ flush' = [flush EXCEPT !.todo = rest, !.phase = "checked", !.op = i]
        \/ flush' = [flush EXCEPT !.todo = rest]
    BY <1>10, Zenon DEF LookAhead
  <2> HIDE DEF i, rest
  <2>3. flush'.phase = "scan" \/ (flush'.phase = "checked" /\ flush'.op = i)
    BY <1>0, <2>1, <2>2 DEF FlushType
  <2> QED BY <2>1, <2>3 DEF Held
<1>11. CASE Claim
  <2> DEFINE i == flush.op
             new == Claimed(rows[i])
  <2>1. i \in Op /\ rows[i] \in Row
    BY <1>0, <1>11 DEF Claim, Held
  <2>2. \/ /\ rows' = [rows EXCEPT ![i] = new]
           /\ flush' = [flush EXCEPT !.phase = "claimed", !.body = rows[i].body]
        \/ flush' = NextRow
    BY <1>11, Zenon DEF Claim
  <2>3. new.state = "SENDING" /\ new.body = rows[i].body
    BY <2>1, RowFields DEF SameFiling
  <2>4. CASE flush' = NextRow
    BY <1>7, <2>4 DEF NextRow, Idle
  <2> HIDE DEF new
  <2>5. CASE /\ rows' = [rows EXCEPT ![i] = new]
             /\ flush' = [flush EXCEPT !.phase = "claimed", !.body = rows[i].body]
    <3>1. rows'[i] = new
      BY <1>0, <2>1, <2>5
    <3>2. flush'.phase = "claimed" /\ flush'.op = i /\ flush'.body = rows[i].body
      BY <1>0, <2>5 DEF FlushType
    <3> HIDE DEF i
    <3> QED BY <2>1, <2>3, <3>1, <3>2 DEF Held
  <2> QED BY <2>2, <2>4, <2>5
<1>12. CASE Freeze
  <2> DEFINE i == flush.op
  <2>1. i \in Op /\ rows[i] \in Row /\ rows[i].state \in {"SENDING", "QUEUED"}
    BY <1>0, <1>12 DEF Freeze, Held
  <2>2. PICK body \in {"live", "replay"} :
          /\ rows' = Rewritten(i, body)
          /\ flush' = [flush EXCEPT !.body = body, !.phase = "frozen"]
    BY <1>12, Zenon DEF Freeze
  <2> DEFINE new == [rows[i] EXCEPT !.body = body]
  <2>3. rows' = [rows EXCEPT ![i] = new]
    BY <2>1, <2>2 DEF Rewritten
  <2>4. new.state = rows[i].state /\ new.body = body
    BY <2>1, RowFields
  <2> HIDE DEF new
  <2>5. rows'[i] = new
    BY <1>0, <2>1, <2>3
  <2>6. flush'.phase = "frozen" /\ flush'.op = i /\ flush'.body = body
    BY <1>0, <2>2 DEF FlushType
  <2> HIDE DEF i
  <2> QED BY <2>1, <2>4, <2>5, <2>6 DEF Held
<1>13. ASSUME UNCHANGED rows, flush.phase \in InHand, flush'.op = flush.op,
              flush'.phase \in {"wire", "answered"}
       PROVE  Held'
  BY <1>13 DEF Held
<1>14. CASE Send \/ SessionGone \/ TimeOut
  BY <1>0, <1>13, <1>14 DEF Send, SessionGone, TimeOut, FlushType
<1>15. ASSUME NEW m \in net, NEW verdict, Answer(m, verdict), Heard PROVE Held'
  BY <1>0, <1>1, <1>13, <1>15 DEF Answer, FlushType, Heard, Held
<1>16. CASE ServerNext
  BY <1>15, <1>16 DEF ServerNext, ServeAgain, ServeFirst, ServeRefuses, RequestFails
<1> QED
  BY <1>3, <1>4, <1>5, <1>6, <1>8, <1>9, <1>10, <1>11, <1>12, <1>14, <1>16, Zenon
  DEF Next, UserNext, FlushNext

\* Only the request just sent has somebody waiting for it.
LEMMA StepHeard == ASSUME TypeOK, Heard, Next PROVE Heard'
<1>0. flush \in FlushType /\ net \subseteq Request
  BY DEF TypeOK
<1>1. ASSUME net' \subseteq net, flush'.phase = flush.phase, flush'.op = flush.op PROVE Heard'
  BY <1>1 DEF Heard
<1>2. ASSUME net' \subseteq net, flush.phase # "wire" PROVE Heard'
  BY <1>2 DEF Heard
<1>3. CASE Restart \/ TimeOut
  <2>1. net' = Unheard(net)
    BY <1>3 DEF Restart, TimeOut
  <2>2. \A m \in net' : ~m.live
    BY <1>0, <2>1, UnheardKeeps
  <2> QED BY <2>2 DEF Heard
<1>4. CASE Send
  <2> DEFINE sent == [op |-> flush.op, key |-> rows[flush.op].key, live |-> TRUE,
                      record |-> rows[flush.op].record, body |-> flush.body]
  <2>1. net' = net \cup {sent} /\ flush' = [flush EXCEPT !.phase = "wire"]
    BY <1>4, Zenon DEF Send
  <2>2. \A m \in net : ~m.live
    BY <1>4 DEF Send, Heard
  <2>3. sent.op = flush.op
    OBVIOUS
  <2>4. flush'.phase = "wire" /\ flush'.op = flush.op
    BY <1>0, <2>1 DEF FlushType
  <2> HIDE DEF sent
  <2> QED BY <2>1, <2>2, <2>3, <2>4 DEF Heard
<1>5. CASE SignOut
  <2>1. net' \subseteq net /\ flush'.phase = flush.phase /\ flush'.op = flush.op
    BY <1>0, <1>5 DEF SignOut, FlushType
  <2> QED BY <1>1, <2>1
<1>6. ASSUME NEW m \in net, NEW verdict, Answer(m, verdict) PROVE Heard'
  <2>1. CASE m.live
    <3>1. \A n \in net' : ~n.live
      BY <1>6, <2>1 DEF Answer, Heard
    <3> QED BY <3>1 DEF Heard
  <2>2. CASE ~m.live
    BY <1>1, <1>6, <2>2 DEF Answer
  <2> QED BY <2>1, <2>2
<1>7. CASE ServerNext
  BY <1>6, <1>7 DEF ServerNext, ServeAgain, ServeFirst, ServeRefuses, RequestFails
<1>8. ASSUME UserNext PROVE Restart \/ SignOut \/ UNCHANGED <<net, flush>>
  BY <1>8 DEF UserNext, Enqueue, Retry, Discard, SignIn
<1>9. ASSUME FlushNext
      PROVE  TimeOut \/ Send \/ UNCHANGED <<net, flush>> \/ (net' = net /\ flush.phase # "wire")
  BY <1>9 DEF FlushNext, StartFlush, LookAhead, Claim, CannotOpen, Freeze, SessionGone, Settle,
              EndFlush, StaleFlushEnds, BackoffElapses
<1>10. CASE UNCHANGED <<net, flush>>
  BY <1>1, <1>10
<1>11. ASSUME net' = net, flush.phase # "wire" PROVE Heard'
  BY <1>2, <1>11
<1> QED BY <1>3, <1>4, <1>5, <1>7, <1>8, <1>9, <1>10, <1>11, Zenon DEF Next

\* What is sent for a row, or accepted, is the body the row has.
LEMMA StepOneBody ==
  ASSUME TypeOK, TypeOK', Filed, Held, OneBody, Next
  PROVE  OneBody'
<1> SUFFICES ASSUME NEW i \in Op, rows'[i].state # "NONE"
             PROVE  /\ \A m \in net' : m.key = i => m.body = rows'[i].body
                    /\ receipts'[i] \in {"open", rows'[i].body}
  BY DEF OneBody
<1>0. filed \in Nat /\ net \subseteq Request /\ receipts \in [Op -> Bodies]
  BY DEF TypeOK
\* The row was there before, and the step did not change its body.
<1>1. ASSUME rows[i].state # "NONE", rows'[i].body = rows[i].body
      PROVE  /\ \A m \in net' : m.key = i => m.body = rows'[i].body
             /\ receipts'[i] \in {"open", rows'[i].body}
  <2>1. ASSUME NEW m \in net', m.key = i PROVE m.body = rows[i].body
    <3>1. ASSUME flush.phase \in {"claimed", "frozen"}, m.key = rows[flush.op].key,
                 m.body = flush.body
          PROVE  m.body = rows[i].body
      BY <2>1, <3>1 DEF Held, Filed
    <3> QED BY <1>1, <2>1, <3>1, MessagesStep DEF NetStep, OneBody
  <2>2. ASSUME NEW m \in net, FirstServed(m) PROVE receipts'[i] \in {"open", rows[i].body}
    <3>1. m.key = i => m.body = rows[i].body
      BY <1>1 DEF OneBody
    <3> QED BY <1>0, <1>1, <2>2, <3>1 DEF FirstServed, OneBody
  <2>3. receipts'[i] \in {"open", rows[i].body}
    BY <1>1, <2>2, ServerStep DEF OneBody
  <2> QED BY <1>1, <2>1, <2>3
\* The row is new, or its body was still open: nothing has left under its key.
<1>2. ASSUME i = filed + 1 \/ (rows[i].state # "NONE" /\ rows[i].body = "open"),
             UNCHANGED <<net, receipts>>
      PROVE  /\ \A m \in net' : m.key = i => m.body = rows'[i].body
             /\ receipts'[i] \in {"open", rows'[i].body}
  <2>1. \A m \in net : m.key <= filed /\ m.body # "open" /\ m.key \in Nat
    BY <1>0 DEF Filed, Request
  <2>2. CASE i = filed + 1
    <3>1. i > filed
      BY <1>0, <2>2
    <3>2. \A m \in net : m.key # i
      BY <1>0, <2>1, <2>2
    <3> QED BY <1>2, <3>1, <3>2 DEF Filed
  <2>3. CASE rows[i].state # "NONE" /\ rows[i].body = "open"
    BY <1>2, <2>1, <2>3 DEF OneBody
  <2> QED BY <1>2, <2>2, <2>3
<1>3. CASE rows'[i] = rows[i]
  BY <1>1, <1>3
<1> QED BY <1>1, <1>2, <1>3, RowsStep, NoRowType DEF RowStep

\* What is sent agrees with what is under way and what was accepted.
LEMMA StepOneBodyPerKey ==
  ASSUME TypeOK, Filed, Held, OneBody, OneBodyPerKey, Next
  PROVE  OneBodyPerKey'
<1>0. net \subseteq Request /\ receipts \in [Op -> Bodies]
  BY DEF TypeOK
\* The request a step sends agrees with what is under way and accepted.
<1>1. ASSUME NEW m, flush.phase \in {"claimed", "frozen"}, m.key = rows[flush.op].key,
             m.body = flush.body
      PROVE  /\ \A n \in net : n.key = m.key => n.body = m.body
             /\ receipts[m.key] \in {"open", m.body}
  <2>1. flush.op \in Op /\ rows[flush.op].state # "NONE" /\ m.body = rows[flush.op].body
    BY <1>1 DEF Held
  <2>2. m.key = flush.op
    BY <1>1, <2>1 DEF Filed
  <2> QED BY <2>1, <2>2 DEF OneBody
<1>2. ASSUME NEW m \in net', NEW n \in net', m.key = n.key PROVE m.body = n.body
  BY <1>1, <1>2, MessagesStep DEF NetStep, OneBodyPerKey
<1>3. ASSUME NEW m \in net' PROVE receipts'[m.key] \in {"open", m.body}
  <2>1. CASE UNCHANGED <<receipts, effects>>
    BY <1>1, <2>1, MessagesStep DEF NetStep, OneBodyPerKey
  <2>2. ASSUME NEW n \in net, FirstServed(n) PROVE receipts'[m.key] \in {"open", m.body}
    <3>1. m \in net
      BY <2>2 DEF FirstServed
    <3>2. m.key \in Op /\ n.key \in Op
      BY <1>0, <3>1 DEF Request
    <3> QED BY <1>0, <2>2, <3>1, <3>2 DEF FirstServed, OneBodyPerKey
  <2> QED BY <2>1, <2>2, ServerStep
<1> QED BY <1>2, <1>3 DEF OneBodyPerKey

\* What the server has done stays done.
LEMMA EffectsGrow ==
  ASSUME TypeOK, Next, NEW i \in Op, effects[i] > 0
  PROVE  effects'[i] > 0
<1>1. ASSUME NEW m \in net, FirstServed(m) PROVE effects'[i] > 0
  <2>1. effects[i] \in Nat /\ effects \in [Op -> Nat]
    BY DEF TypeOK
  <2> QED BY <1>1, <2>1 DEF FirstServed
<1> QED BY <1>1, ServerStep

\* A flush that hears "delivered" hears the truth.
LEMMA StepReply ==
  ASSUME TypeOK, Filed, Held, Heard, Exactly, Truthful, Next, Exactly'
  PROVE  flush'.phase = "answered" /\ flush'.reply = "DELIVERED" => effects'[flush'.op] > 0
<1>0. flush \in FlushType /\ net \subseteq Request /\ effects \in [Op -> Nat]
  BY DEF TypeOK
<1> DEFINE Claims == flush'.phase = "answered" /\ flush'.reply = "DELIVERED"
           Done   == Claims => effects'[flush'.op] > 0
<1> SUFFICES Done OBVIOUS
<1>2. ASSUME flush'.phase = flush.phase, flush'.op = flush.op, flush'.reply = flush.reply PROVE Done
  <2>1. ASSUME Claims PROVE flush.op \in Op /\ effects[flush.op] > 0
    BY <1>2, <2>1 DEF Held, Truthful
  <2>2. ASSUME Claims PROVE effects'[flush.op] > 0
    BY <2>1, <2>2, EffectsGrow
  <2> QED BY <1>2, <2>2
<1>3. ASSUME flush'.phase # "answered" \/ flush'.reply # "DELIVERED" PROVE Done
  BY <1>3
<1>4. CASE SignOut
  <2>1. flush'.phase = flush.phase /\ flush'.op = flush.op /\ flush'.reply = flush.reply
    BY <1>0, <1>4 DEF SignOut, FlushType
  <2> QED BY <1>2, <2>1
<1>5. CASE Restart \/ StartFlush \/ EndFlush \/ StaleFlushEnds \/ CannotOpen \/ Settle
  <2> DEFINE S == Oldest(rows, Ready(rows), FlushLimit)
  <2>1. flush' = Idle \/ flush' = NextRow \/ flush' = [Idle EXCEPT !.phase = "scan", !.todo = S]
    BY <1>5, Zenon DEF Restart, StartFlush, EndFlush, StaleFlushEnds, CannotOpen, Settle
  <2> HIDE DEF S
  <2>2. flush'.phase # "answered"
    BY <2>1, IdleType DEF FlushType, NextRow
  <2> QED BY <1>3, <2>2
<1>6. CASE LookAhead \/ Claim \/ Freeze \/ Send
  <2> DEFINE i == CHOOSE j \in flush.todo : \A k \in flush.todo : rows[j].seq <= rows[k].seq
             rest == flush.todo \ {i}
  <2>1. \/ flush' = [flush EXCEPT !.todo = rest, !.phase = "checked", !.op = i]
        \/ flush' = [flush EXCEPT !.todo = rest] /\ flush.phase = "scan"
        \/ flush' = [flush EXCEPT !.phase = "claimed", !.body = rows[flush.op].body]
        \/ flush' = NextRow
        \/ \E body \in {"live", "replay"} :
             flush' = [flush EXCEPT !.body = body, !.phase = "frozen"]
        \/ flush' = [flush EXCEPT !.phase = "wire"]
    BY <1>6, Zenon DEF LookAhead, Claim, Freeze, Send
  <2> HIDE DEF i, rest
  <2>2. flush'.phase # "answered"
    BY <1>0, <2>1, IdleType DEF FlushType, NextRow
  <2> QED BY <1>3, <2>2
<1>7. CASE SessionGone \/ TimeOut
  <2>1. flush'.reply = "TRANSPORT"
    BY <1>0, <1>7 DEF SessionGone, TimeOut, FlushType
  <2> QED BY <1>3, <2>1
<1>8. ASSUME NEW m \in net, NEW verdict \in Verdicts, Answer(m, verdict),
             verdict = "DELIVERED" => effects'[m.op] > 0
      PROVE  Done
  <2>1. CASE m.live
    <3>1. PICK heard \in {verdict, "TRANSPORT"} :
            flush' = [flush EXCEPT !.phase = "answered", !.reply = heard]
      BY <1>8, <2>1, Zenon DEF Answer
    <3>2. flush'.op = m.op
      BY <1>0, <2>1, <3>1 DEF FlushType, Heard
    <3>3. flush'.reply = heard
      BY <1>0, <3>1 DEF FlushType
    <3> QED BY <1>8, <3>2, <3>3
  <2>2. CASE ~m.live
    BY <1>2, <1>8, <2>2 DEF Answer
  <2> QED BY <2>1, <2>2
<1>9. ASSUME NEW m \in net, ServeAgain(m) PROVE Done
  <2>1. m.op \in Op /\ m.key = m.op
    BY <1>0 DEF Request, Filed
  <2>2. effects'[m.op] > 0
    BY <1>9, <2>1 DEF ServeAgain, server, Exactly
  <2> DEFINE verdict == IF receipts[m.key] = m.body THEN "DELIVERED" ELSE "REFUSED"
  <2>3. verdict \in Verdicts /\ Answer(m, verdict)
    BY <1>9 DEF ServeAgain
  <2> HIDE DEF verdict, Done
  <2> QED BY <1>8, <2>2, <2>3
<1>10. ASSUME NEW m \in net, ServeFirst(m) PROVE Done
  <2>1. m.op \in Op
    BY <1>0 DEF Request
  <2>2. effects'[m.op] > 0
    BY <1>0, <1>10, <2>1 DEF ServeFirst
  <2>3. Answer(m, "DELIVERED")
    BY <1>10 DEF ServeFirst
  <2> HIDE DEF Done
  <2> QED BY <1>8, <2>2, <2>3
<1>11. ASSUME NEW m \in net, ServeRefuses(m) \/ RequestFails(m) PROVE Done
  <2>1. Answer(m, "REFUSED") \/ Answer(m, "TRANSPORT")
    BY <1>11 DEF ServeRefuses, RequestFails
  <2> HIDE DEF Done
  <2> QED BY <1>8, <2>1
<1>12. CASE UNCHANGED flush
  BY <1>2, <1>12
<1>13. ASSUME UserNext PROVE Restart \/ SignOut \/ UNCHANGED flush
  BY <1>13 DEF UserNext, Enqueue, Retry, Discard, SignIn
<1>14. ASSUME NEW i \in Op, BackoffElapses(i) PROVE UNCHANGED flush
  BY <1>14 DEF BackoffElapses
<1> HIDE DEF Done
<1> QED
  BY <1>4, <1>5, <1>6, <1>7, <1>9, <1>10, <1>11, <1>12, <1>13, <1>14, Zenon
  DEF Next, FlushNext, ServerNext

\* A row marked as delivered is one the server has.
LEMMA StepTruthful ==
  ASSUME TypeOK, Filed, Held, Heard, Exactly, Truthful, Next, Exactly'
  PROVE  Truthful'
<1>1. ASSUME NEW i \in Op, rows'[i].state = "SUCCEEDED" PROVE effects'[i] > 0
  <2>1. \/ rows[i].state = "SUCCEEDED"
        \/ flush.phase = "answered" /\ flush.reply = "DELIVERED" /\ flush.op = i
    BY <1>1, RowsStep, NoRowType DEF RowStep
  <2>2. effects[i] > 0
    BY <2>1 DEF Truthful
  <2> QED BY <2>2, EffectsGrow
<1> QED BY <1>1, StepReply DEF Truthful

\* A filed operation leaves the table only when it is delivered or discarded.
LEMMA StepNothingLost ==
  ASSUME TypeOK, TypeOK', Filed, Filed', Held, Truthful, NothingLost, Next
  PROVE  NothingLost'
<1>0. filed \in Nat /\ filed' \in Nat /\ filed' <= MaxOps
  BY FiledGrows DEF TypeOK
<1>1. discarded \subseteq discarded'
  BY DEF Next, UserNext, FlushNext, Enqueue, Retry, Discard, Restart, SignOut, SignIn, StartFlush,
         LookAhead, Claim, CannotOpen, Freeze, Send, SessionGone, TimeOut, Settle, EndFlush,
         StaleFlushEnds, BackoffElapses, ServerNext, ServeAgain, ServeFirst, ServeRefuses,
         RequestFails, Answer, history
<1> SUFFICES ASSUME NEW i \in 1 .. filed'
             PROVE  \/ rows'[i].state \in ActiveStates \cup {"FAILED"}
                    \/ rows'[i].state = "NONE" /\ i \in discarded'
                    \/ effects'[i] > 0
  BY DEF NothingLost
<1>2. i \in Op
  BY <1>0
<1>3. RowStep(i)
  BY <1>2, RowsStep
<1>4. CASE effects[i] > 0
  BY <1>2, <1>4, EffectsGrow
<1>5. CASE \/ rows[i].state = "SUCCEEDED"
           \/ flush.phase = "answered" /\ flush.reply = "DELIVERED" /\ flush.op = i
  BY <1>2, <1>4, <1>5 DEF Truthful
<1>6. CASE i = filed + 1 /\ rows'[i].state = "QUEUED"
  BY <1>6
<1>7. CASE i \notin 1 .. filed
  <2>1. i > filed /\ filed' = filed + 1
    BY <1>0, <1>2, <1>7, FiledGrows
  <2>2. PICK r \in Records, p \in Payloads : Enqueue(r, p)
    BY <2>1, FiledGrows
  <2>3. i = filed + 1
    BY <1>0, <1>2, <2>1
  <2> QED BY <2>2, <2>3, EnqueueStep
<1> QED BY <1>1, <1>3, <1>4, <1>5, <1>6, <1>7, NoRowType DEF RowStep, NothingLost

-----------------------------------------------------------------------------
(* The invariant, and the properties that follow from it.                   *)

\* The parts together: initially, by a step, by a stutter.
LEMMA InitInv == ASSUME Init PROVE Inv
<1>1. TypeOK
  <2>1. NoRow \in Row /\ Idle \in FlushType
    BY NoRowType, IdleType
  <2> QED BY <2>1 DEF Init, TypeOK
<1>2. \A i \in Op : /\ rows[i].state = "NONE" /\ rows[i].seq = 0
                     /\ receipts[i] = "open" /\ effects[i] = 0
  BY NoRowType DEF Init
<1>3. filed = 0 /\ net = {} /\ flush.phase = "idle"
  BY IdleType DEF Init
<1> QED BY <1>1, <1>2, <1>3
        DEF Inv, Filed, Held, Heard, Exactly, OneBody, OneBodyPerKey, Truthful, NothingLost

\* Every action keeps the invariant.
LEMMA StepInv == ASSUME Inv, Next PROVE Inv'
<1> USE DEF Inv
<1>1. TypeOK'
  BY StepType
<1>2. Filed' /\ Held' /\ Heard'
  BY <1>1, StepFiled, StepHeld, StepHeard
<1>3. Exactly'
  BY StepExactly
<1>4. OneBody' /\ OneBodyPerKey'
  BY <1>1, StepOneBody, StepOneBodyPerKey
<1>5. Truthful'
  BY <1>3, StepTruthful
<1>6. NothingLost'
  BY <1>1, <1>2, StepNothingLost
<1> QED BY <1>1, <1>2, <1>3, <1>4, <1>5, <1>6

\* So does a step that changes nothing.
LEMMA StutterInv == ASSUME Inv, UNCHANGED vars PROVE Inv'
  BY DEF Inv, vars, device, server, history, TypeOK, Filed, Held, Heard, Exactly, OneBody,
         OneBodyPerKey, Truthful, NothingLost

\* The strengthening is inductive: every state of every run satisfies it.
THEOREM Invariant == Safety => []Inv
  BY InitInv, StepInv, StutterInv, PTL DEF Safety

\* Every variable keeps its type, whatever the records, payloads and bounds
\* (queueCore.ts, schema.ts, mutationRoute.ts).
THEOREM Typing == Safety => []TypeOK
<1>1. Inv => TypeOK
  BY DEF Inv
<1> QED BY <1>1, Invariant, PTL

\* What the user filed once takes effect on the server at most once, through
\* any losses, late replies, retries, deaths of the app and sign-outs.
THEOREM TakesEffectOnce == Safety => []AtMostOnce
<1>1. Inv => AtMostOnce
  BY DEF Inv, Exactly, AtMostOnce
<1> QED BY <1>1, Invariant, PTL

\* Every attempt under one idempotency key carries the same bytes, and those
\* the server has accepted: a retry is never refused as a different request.
THEOREM RetriesAgree == Safety => []OneBodyPerKey
<1>1. Inv => OneBodyPerKey
  BY DEF Inv
<1> QED BY <1>1, Invariant, PTL

\* What the user filed is in the outbox, or thrown away by the user after it
\* failed, or on the server; no purge, recovery or settlement drops it.
THEOREM Kept == Safety => []NothingLost
<1>1. Inv => NothingLost
  BY DEF Inv
<1> QED BY <1>1, Invariant, PTL

-----------------------------------------------------------------------------
(* The order of sending.                                                    *)

\* While a flush has its handle, the rest of its snapshot waits for it.
LEMMA StepWaiting ==
  ASSUME TypeOK, TypeOK', Filed, Held, Heard, Waiting, Next
  PROVE  Waiting'
<1>0. /\ rows \in [Op -> Row] /\ flush \in FlushType /\ rows' \in [Op -> Row]
      /\ requeued \subseteq requeued'
  <2>1. requeued \subseteq requeued'
    BY DEF Next, UserNext, FlushNext, Enqueue, Retry, Discard, Restart, SignOut, SignIn, StartFlush,
           LookAhead, Claim, CannotOpen, Freeze, Send, SessionGone, TimeOut, Settle, EndFlush,
           StaleFlushEnds, BackoffElapses, ServerNext, ServeAgain, ServeFirst, ServeRefuses,
           RequestFails, Answer, history
  <2> QED BY <2>1 DEF TypeOK
<1>1. flush.todo \in SUBSET Op
  BY <1>0 DEF FlushType
\* The rest of the snapshot still waits.
<1>2. ASSUME NEW i \in flush.todo, ~flush.stale PROVE rows'[i].state \in WaitingStates
  <2>1. rows[i].state \in WaitingStates /\ i # flush.op /\ i \in Op
    BY <1>1, <1>2 DEF Waiting
  <2> QED BY <2>1, RowsStep DEF RowStep
\* And so does the row looked at, with nothing new ahead of it.
<1>3. ASSUME UNCHANGED flush, flush.phase = "checked", ~flush.stale
      PROVE  rows'[flush.op].state \in WaitingStates /\ Ahead(rows', flush.op) \subseteq requeued'
  <2> DEFINE i == flush.op
  <2>1. i \in Op /\ rows[i].state \in WaitingStates /\ Ahead(rows, i) \subseteq requeued
    BY <1>3 DEF Held, Waiting
  <2>2. flush'.phase = flush.phase
    BY <1>3
  <2> HIDE DEF i
  <2>3. RowStep(i)
    BY <2>1, RowsStep
  <2>4. i # filed + 1
    <3>1. filed \in Nat /\ ~ (i > filed)
      BY <2>1 DEF Filed, TypeOK
    <3> QED BY <2>1, <3>1
  <2>5. /\ rows'[i].state \in WaitingStates /\ rows'[i].seq = rows[i].seq
        /\ rows'[i].record = rows[i].record
    BY <2>1, <2>2, <2>3, <2>4 DEF RowStep, i
  <2>6. ASSUME NEW j \in Ahead(rows', i) PROVE j \in requeued'
    <3>1. /\ j \in Op /\ rows'[j].record = rows[i].record /\ rows'[j].state \in ActiveStates
          /\ rows'[j].seq < rows[i].seq
      BY <1>0, <2>5 DEF Ahead, ActiveOn
    <3>2. RowStep(j)
      BY <3>1, RowsStep
    <3>3. i \in Present(rows) /\ rows[i].seq \in Nat /\ rows'[j].seq \in Nat
      BY <1>0, <2>1, <3>1 DEF Present, Row
    <3>4. CASE j \in requeued'
      BY <3>4
    <3>5. CASE j \notin requeued'
      <4>1. /\ rows[j].record = rows[i].record /\ rows[j].state \in ActiveStates
            /\ rows[j].seq < rows[i].seq
        BY <3>1, <3>2, <3>3, <3>5, NoRowType DEF RowStep
      <4>2. j \in Ahead(rows, i)
        BY <1>0, <3>1, <4>1 DEF Ahead, ActiveOn
      <4> QED BY <1>0, <2>1, <4>2
    <3> QED BY <3>4, <3>5
  <2> QED BY <2>5, <2>6 DEF i
<1>4. ASSUME UNCHANGED flush, ~signedIn' => ~signedIn PROVE Waiting'
  <2>1. /\ flush'.todo = flush.todo /\ flush'.phase = flush.phase /\ flush'.op = flush.op
        /\ flush'.stale = flush.stale
    BY <1>4
  <2> QED BY <1>2, <1>3, <1>4, <2>1 DEF Waiting
\* The flush goes on with what it has in hand, or to the next row.
<1>5. ASSUME flush'.todo = flush.todo, flush'.stale = flush.stale, flush'.op \in {flush.op, 0},
             flush.phase # "idle", flush'.phase \notin {"idle", "checked"}, UNCHANGED signedIn
      PROVE  Waiting'
  <2>1. 0 \notin flush.todo
    BY <1>1
  <2> QED BY <1>2, <1>5, <2>1 DEF Waiting
<1>6. ASSUME flush' = NextRow, flush.phase # "idle", UNCHANGED signedIn PROVE Waiting'
  <2>1. /\ flush'.todo = flush.todo /\ flush'.stale = flush.stale /\ flush'.op = 0
        /\ flush'.phase = "scan"
    BY <1>6, IdleType DEF NextRow, FlushType
  <2> QED BY <1>5, <1>6, <2>1
<1>7. ASSUME flush' = Idle PROVE Waiting'
  <2>1. flush'.phase = "idle" /\ flush'.todo = {}
    BY <1>7, IdleType
  <2> QED BY <2>1 DEF Waiting
<1>8. CASE Restart \/ EndFlush \/ StaleFlushEnds
  BY <1>7, <1>8 DEF Restart, EndFlush, StaleFlushEnds
<1>9. CASE SignOut
  <2>1. /\ flush'.todo = flush.todo /\ flush'.phase = flush.phase /\ flush'.op = flush.op
        /\ flush'.stale = (flush.phase # "idle")
    BY <1>0, <1>9 DEF SignOut, FlushType
  <2> QED BY <1>1, <2>1 DEF Waiting
<1>10. CASE StartFlush
  <2> DEFINE S == Oldest(rows, Ready(rows), FlushLimit)
  <2>1. S \subseteq Op /\ \A i \in S : rows[i].state \in WaitingStates
    BY <1>0 DEF Oldest, Ready
  <2>2. /\ flush' = [Idle EXCEPT !.phase = "scan", !.todo = S]
        /\ UNCHANGED <<rows, signedIn>> /\ signedIn
    BY <1>10, Zenon DEF StartFlush
  <2> HIDE DEF S
  <2>3. flush'.phase = "scan" /\ flush'.todo = S /\ flush'.op = 0
    BY <2>2, IdleType DEF FlushType
  <2>4. 0 \notin S
    BY <2>1
  <2> QED BY <2>1, <2>2, <2>3, <2>4 DEF Waiting
<1>11. CASE LookAhead
  <2> DEFINE i == CHOOSE j \in flush.todo : \A k \in flush.todo : rows[j].seq <= rows[k].seq
             rest == flush.todo \ {i}
  <2>1. i \in flush.todo /\ i \in Op /\ rest \subseteq flush.todo /\ i \notin rest
    BY <1>0, <1>1, <1>11, FirstOfSnapshot DEF LookAhead
  <2>2. /\ \/ /\ flush' = [flush EXCEPT !.todo = rest, !.phase = "checked", !.op = i]
              /\ Ahead(rows, i) = {}
           \/ flush' = [flush EXCEPT !.todo = rest]
        /\ flush.phase = "scan" /\ ~flush.stale /\ UNCHANGED <<rows, signedIn>>
    BY <1>11, Zenon DEF LookAhead
  <2> HIDE DEF i, rest
  <2>3. flush'.todo = rest /\ flush'.stale = flush.stale
    BY <1>0, <2>2 DEF FlushType
  <2>4. \/ flush'.phase = "checked" /\ flush'.op = i /\ Ahead(rows, i) = {}
        \/ flush'.phase = "scan" /\ flush'.op = flush.op
    BY <1>0, <2>2 DEF FlushType
  <2>5. signedIn
    BY <2>2 DEF Waiting
  <2> QED BY <2>1, <2>2, <2>3, <2>4, <2>5 DEF Waiting
<1>12. CASE Claim \/ CannotOpen \/ Settle
  <2>1. /\ \/ flush' = NextRow \/ flush' = Idle
           \/ flush' = [flush EXCEPT !.phase = "claimed", !.body = rows[flush.op].body]
        /\ flush.phase # "idle" /\ UNCHANGED signedIn
    BY <1>12, Zenon DEF Claim, CannotOpen, Settle
  <2>2. CASE flush' = [flush EXCEPT !.phase = "claimed", !.body = rows[flush.op].body]
    <3>1. /\ flush'.todo = flush.todo /\ flush'.stale = flush.stale /\ flush'.op = flush.op
          /\ flush'.phase = "claimed"
      BY <1>0, <2>2 DEF FlushType
    <3> QED BY <1>5, <2>1, <3>1
  <2> QED BY <1>6, <1>7, <2>1, <2>2
<1>13. CASE Freeze \/ Send \/ SessionGone \/ TimeOut
  <2>1. /\ \/ \E body \in {"live", "replay"} :
                flush' = [flush EXCEPT !.body = body, !.phase = "frozen"]
           \/ flush' = [flush EXCEPT !.phase = "wire"]
           \/ flush' = [flush EXCEPT !.phase = "answered", !.reply = "TRANSPORT"]
        /\ flush.phase # "idle" /\ UNCHANGED signedIn
    BY <1>13, Zenon DEF Freeze, Send, SessionGone, TimeOut
  <2>2. /\ flush'.todo = flush.todo /\ flush'.stale = flush.stale /\ flush'.op = flush.op
        /\ flush'.phase \notin {"idle", "checked"}
    BY <1>0, <2>1 DEF FlushType
  <2> QED BY <1>5, <2>1, <2>2
<1>14. ASSUME NEW m \in net, NEW verdict, Answer(m, verdict) PROVE Waiting'
  <2>1. CASE m.live
    <3>1. /\ \E heard \in {verdict, "TRANSPORT"} :
               flush' = [flush EXCEPT !.phase = "answered", !.reply = heard]
          /\ UNCHANGED signedIn
      BY <1>14, <2>1, Zenon DEF Answer
    <3>2. flush.phase = "wire"
      BY <2>1 DEF Heard
    <3>3. /\ flush'.todo = flush.todo /\ flush'.stale = flush.stale /\ flush'.op = flush.op
          /\ flush'.phase = "answered"
      BY <1>0, <3>1 DEF FlushType
    <3> QED BY <1>5, <3>1, <3>2, <3>3
  <2>2. CASE ~m.live
    BY <1>4, <1>14, <2>2 DEF Answer
  <2> QED BY <2>1, <2>2
<1>15. CASE ServerNext
  BY <1>14, <1>15 DEF ServerNext, ServeAgain, ServeFirst, ServeRefuses, RequestFails
<1>16. ASSUME UserNext PROVE Restart \/ SignOut \/ (UNCHANGED flush /\ (~signedIn' => ~signedIn))
  BY <1>16 DEF UserNext, Enqueue, Retry, Discard, SignIn
<1>17. ASSUME NEW i \in Op, BackoffElapses(i) PROVE Waiting'
  BY <1>4, <1>17 DEF BackoffElapses
<1> QED
  BY <1>4, <1>8, <1>9, <1>10, <1>11, <1>12, <1>13, <1>15, <1>16, <1>17, Zenon
  DEF Next, FlushNext

\* What a step puts on the wire is what the flush has looked at.
LEMMA StepOrder ==
  ASSUME TypeOK, Filed, Held, Waiting, Next, NEW i \in Op,
         rows[i].state # "SENDING", rows'[i].state = "SENDING"
  PROVE  Ahead(rows, i) \subseteq requeued
<1>1. flush.phase = "checked" /\ ~flush.stale /\ flush.op = i
  BY RowsStep, NoRowType DEF RowStep
<1> QED BY <1>1 DEF Waiting

\* An operation is never sent ahead of an older one for its record, except an
\* older one the user put back after it had failed: between the flush's count
\* of what is ahead, taken outside the lock, and its claim of the row, nothing
\* but such a retry can come in ahead (queueCore.ts).
THEOREM SentInOrder == Safety => FiledOrder
<1>1. Init => Waiting
  BY IdleType DEF Init, Waiting
<1>2. Inv /\ Waiting /\ [Next]_vars => Waiting'
  <2>1. ASSUME Inv, Waiting, Next PROVE Waiting'
    BY <2>1, StepInv, StepWaiting DEF Inv
  <2>2. ASSUME Waiting, UNCHANGED vars PROVE Waiting'
    BY <2>2 DEF vars, device, history, Waiting
  <2> QED BY <2>1, <2>2
<1> DEFINE InOrder == \A i \in Op : rows[i].state # "SENDING" /\ rows'[i].state = "SENDING"
                                      => Ahead(rows, i) \subseteq requeued
<1>3. Inv /\ Waiting /\ [Next]_vars => [InOrder]_vars
  BY StepOrder DEF Inv
<1> HIDE DEF InOrder
<1>4. Safety => [][InOrder]_vars
  BY <1>1, <1>2, <1>3, Invariant, PTL DEF Safety
<1> QED BY <1>4 DEF FiledOrder, InOrder

=============================================================================
