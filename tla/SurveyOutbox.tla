--------------------------- MODULE SurveyOutbox ---------------------------
(***************************************************************************)
(* One village-day filed from a phone more than once.                      *)
(*                                                                         *)
(* The one kind of operation the outbox chains: a new filing is folded     *)
(* into the row that waits, or queued behind the one on the wire, and the  *)
(* executor turns a refused second return into an amendment, but only of   *)
(* a day whose latest change the crew has seen or has made itself          *)
(* (apps/mobile/src/sync/queueCore.ts, surveyEntryOp.ts).  A supervisor    *)
(* changes the same day on the server meanwhile.                           *)
(*                                                                         *)
(* The executor is a row of requests with awaits between them; everything  *)
(* else may happen at each await.  A step here runs from one await on the  *)
(* network to the next, together with the saves it makes under the lock.   *)
(***************************************************************************)
EXTENDS OutboxRows, SurveyRequests

CONSTANTS
  Figures,        \* what a return can say: positive numbers
  MaxFilings,     \* bound: returns the crew files
  MaxEdits,       \* bound: changes made by somebody else
  Scenarios       \* bounds on what may come together, each a record: returns
                  \* filed, replies never heard, deaths of the app, presses of "retry"

ASSUME SurveyConstants ==
  /\ Figures \subseteq Nat \ {0}
  /\ MaxFilings \in Nat \ {0} /\ MaxEdits \in Nat
  /\ Scenarios \subseteq [filings : 0 .. MaxFilings, lost : Nat, restarts : Nat, retries : Nat]

VARIABLES
  rows,        \* pending_ops, by operation; an operation is named by its first filing
  forms,       \* the version each filing's form was opened from, in order of filing
  seen,        \* the version the phone last read for the form
  exec,        \* the flush and the executor of the row it has in hand
  late,        \* requests the phone has given up on and the server may still get
  day,         \* server: the versions of the village-day
  receipts,    \* server: the keys accepted
  discarded,   \* history: filings the crew threw away after they failed
  reopened,    \* history: a failed return was put back after a newer filing
  cut,         \* history: operations whose list lost a request for lack of room
  restarts, retries, lost   \* counters behind the bounds

server == <<day, receipts>>
history == <<discarded, reopened>>
counters == <<restarts, retries, lost>>
vars == <<rows, forms, seen, exec, late, server, history, cut, counters>>

-----------------------------------------------------------------------------
Op == 1 .. MaxFilings
TheDay == "village-day"     \* one dedupe key for all of it
Filings == Len(forms)

Within(filings, timeouts, deaths, presses) ==
  \E b \in Scenarios : filings <= b.filings /\ timeouts <= b.lost
                        /\ deaths <= b.restarts /\ presses <= b.retries

Writers == {"crew", "other"}
Keys == Op \X Nat \X (Figures \cup {0})

\* history: what there is to trim on the list of operation i is trimmed.
CutFrom(i, list) == IF Overflows(list) THEN cut \cup {i} ELSE cut

\* Nothing in hand; the state between two rows of a flush too, since which
\* rows a flush's snapshot holds is Outbox's concern.
Resting == [phase |-> "idle", op |-> 0, fig |-> 0, nth |-> 0, prior |-> <<>>, base |-> 0,
            todo |-> <<>>, ours |-> 0, replayed |-> <<>>, clouded |-> FALSE,
            verdict |-> "TRANSPORT", conflict |-> FALSE]

NoRow == [state |-> "NONE", seq |-> 0, record |-> TheDay, fig |-> 0, nth |-> 0,
          prior |-> <<>>, base |-> 0, raw |-> TRUE, decision |-> "NONE",
          tries |-> 0, due |-> TRUE]

-----------------------------------------------------------------------------
(* The crew and the supervisor.                                             *)

\* The screen reads the day; a form filled from now on corrects this version.
Look ==
  /\ seen # Version(day)
  /\ seen' = Version(day)
  /\ UNCHANGED <<rows, forms, exec, late, server, history, cut, counters>>

\* enqueueOp with a supersede rule.  The newest active row is folded into: in
\* place while it waits, by a new row behind it while it is on the wire.
MutFilesBehindOldest(fig) ==
  LET active == ActiveOn(rows, TheDay)
      n == Filings + 1
      old == CHOOSE i \in active : \A j \in active : rows[i].seq <= rows[j].seq
      base == IF seen # 0 THEN seen ELSE rows[old].base
      prior == Trim(Chain(rows[old], <<>>, PostKey(old), MaySent(rows[old]),
                          rows[old].state = "SENDING"))
  IN
  /\ Within(n, lost, restarts, retries)
  /\ forms' = Append(forms, seen)
  /\ rows' = IF active = {}
               THEN [rows EXCEPT ![n] = [NoRow EXCEPT !.state = "QUEUED", !.seq = NextSeq(rows),
                                           !.fig = fig, !.nth = n, !.base = seen]]
             ELSE IF rows[old].state \in WaitingStates
               THEN [rows EXCEPT ![old] = [@ EXCEPT !.fig = fig, !.nth = n, !.prior = prior,
                                             !.base = base, !.raw = FALSE]]
             ELSE [rows EXCEPT ![n] = [NoRow EXCEPT !.state = "QUEUED", !.seq = NextSeq(rows),
                                         !.fig = fig, !.nth = n, !.prior = prior,
                                         !.base = base, !.raw = FALSE]]
  /\ UNCHANGED <<seen, exec, late, server, history, cut, counters>>

File(fig) ==
  LET active == ActiveOn(rows, TheDay)
      n == Filings + 1
      old == Newest(rows, active)
      fresh == [NoRow EXCEPT !.state = "QUEUED", !.seq = NextSeq(rows),
                             !.fig = fig, !.nth = n, !.base = seen]
      list == Chain(rows[old], <<>>, PostKey(old), MaySent(rows[old]),
                    rows[old].state = "SENDING")
      prior == Trim(list)
      base == IF seen # 0 THEN seen ELSE rows[old].base
  IN
  /\ Within(n, lost, restarts, retries)
  /\ active # {} => ~(rows[old].raw /\ rows[old].fig = fig)   \* answered with the row there
  /\ forms' = Append(forms, seen)
  /\ rows' = IF active = {} THEN [rows EXCEPT ![n] = fresh]
             ELSE IF rows[old].state \in WaitingStates
               THEN [rows EXCEPT ![old] = [@ EXCEPT !.fig = fig, !.nth = n, !.prior = prior,
                                             !.base = base, !.raw = FALSE]]
             ELSE [rows EXCEPT ![n] = [fresh EXCEPT !.prior = prior, !.base = base,
                                                    !.raw = FALSE]]
  /\ cut' = IF active = {} THEN cut
            ELSE CutFrom(IF rows[old].state \in WaitingStates THEN old ELSE n, list)
  /\ UNCHANGED <<seen, exec, late, server, history, counters>>

\* retryOp and discardOp.  Reviewing a conflict is Look, File, then Discard.
Retry(i) ==
  /\ Within(Filings, lost, restarts, retries + 1)
  /\ MayRetry(rows[i])
  /\ rows' = [rows EXCEPT ![i] = Retried(rows[i])]
  /\ retries' = retries + 1
  /\ reopened' = (reopened \/ rows[i].nth # Filings)
  /\ UNCHANGED <<forms, seen, exec, late, server, discarded, cut, restarts, lost>>

Discard(i) ==
  /\ rows[i].state = "FAILED"
  /\ rows' = [rows EXCEPT ![i] = NoRow]
  /\ discarded' = discarded \cup {rows[i].nth}
  /\ UNCHANGED <<forms, seen, exec, late, server, reopened, cut, counters>>

Edits == Cardinality({v \in DOMAIN day : day[v].by = "other"})

\* A supervisor, or another of the crew, makes or changes the day.
SomebodyElseWrites(fig) ==
  /\ Edits < MaxEdits
  /\ day # <<>> => day[Version(day)].fig # fig
  /\ day' = Append(day, [by |-> "other", fig |-> fig, nth |-> 0, key |-> <<1, 0, 0>>])
  /\ UNCHANGED <<rows, forms, seen, exec, late, receipts, history, cut, counters>>

-----------------------------------------------------------------------------
(* The flush takes a row.                                                   *)

\* Not while an older row of the day is active; read outside the lock.
LookAhead(i) ==
  /\ exec.phase = "idle"
  /\ i \in Ready(rows)
  /\ Ahead(rows, i) = {}
  /\ exec' = [Resting EXCEPT !.phase = "checked", !.op = i,
                             !.fig = rows[i].fig, !.nth = rows[i].nth]
  /\ UNCHANGED <<rows, forms, seen, late, server, history, cut, counters>>

\* Claimed if it still waits, and read again after the claim.
MutClaimNotReadAgain ==
  /\ exec.phase = "checked"
  /\ LET row == rows[exec.op] IN
       IF row.state \in WaitingStates
         THEN /\ rows' = [rows EXCEPT ![exec.op] = Claimed(row)]
              /\ exec' = [exec EXCEPT !.phase = "claimed", !.prior = Trim(row.prior),
                                      !.base = row.base]
         ELSE exec' = Resting /\ UNCHANGED rows
  /\ UNCHANGED <<forms, seen, late, server, history, cut, counters>>

Claim ==
  /\ exec.phase = "checked"
  /\ LET row == rows[exec.op] IN
       IF row.state \in WaitingStates
         THEN /\ rows' = [rows EXCEPT ![exec.op] = Claimed(row)]
              /\ exec' = [exec EXCEPT !.phase = "claimed", !.fig = row.fig, !.nth = row.nth,
                                      !.prior = Trim(row.prior), !.base = row.base]
         ELSE exec' = Resting /\ UNCHANGED rows
  /\ UNCHANGED <<forms, seen, late, server, history, cut, counters>>

-----------------------------------------------------------------------------
(* The executor: runSurveyEntryOp.                                          *)

OwnPost == Request(PostKey(exec.op), exec.fig, exec.nth)
OwnAmend == Request(AmendKey(exec.op, exec.base, exec.fig), exec.fig, exec.nth)

Asking == {"post", "replay", "amend"}

\* The request an asking executor waits for.
OnWire == CASE exec.phase = "post"   -> OwnPost
            [] exec.phase = "replay" -> LET p == Head(exec.todo)
                                        IN  Request(p.key, p.fig, p.nth)
            [] exec.phase = "amend"  -> OwnAmend

\* save: the row in hand, unless it is settled, takes what the executor holds.
Saved(prior) ==
  IF rows[exec.op].state \in ActiveStates
    THEN [rows EXCEPT ![exec.op].fig = exec.fig, ![exec.op].nth = exec.nth,
                      ![exec.op].prior = prior, ![exec.op].raw = FALSE]
    ELSE rows

\* record: on the list, and on the row, before it goes.
Recording(request) == Append(exec.prior, Remembered(request, 0))
Recorded(request) == Trim(Recording(request))

MutSentUnrecorded ==
  /\ exec.phase = "claimed"
  /\ exec' = [exec EXCEPT !.phase = "post"]
  /\ UNCHANGED <<rows, forms, seen, late, server, history, cut, counters>>

SendReturn ==
  /\ exec.phase = "claimed"
  /\ LET prior == Recorded(OwnPost) IN
       /\ exec' = [exec EXCEPT !.phase = "post", !.prior = prior]
       /\ rows' = Saved(prior)
       /\ cut' = CutFrom(exec.op, Recording(OwnPost))
  /\ UNCHANGED <<forms, seen, late, server, history, counters>>

Settling(verdict, prior) == [exec EXCEPT !.phase = "settle", !.verdict = verdict, !.prior = prior]

\* The next of the requests to replay, or the second read when none is left.
Replaying(todo, prior, ours) ==
  [exec EXCEPT !.phase = IF todo = <<>> THEN "reread" ELSE "replay",
               !.todo = todo, !.prior = prior, !.ours = ours]

\* What the executor does with a reply, by the request it was waiting for.
HearReturn(reply) ==
  CASE reply.kind = "ok" ->
         LET prior == Landed(exec.prior, OwnPost, reply.version)
         IN  exec' = Settling("DELIVERED", prior) /\ rows' = Saved(prior)
    [] reply.kind \in {"entered", "reused"} ->
         /\ exec' = [exec EXCEPT !.phase = "read", !.prior = Dropped(@, OwnPost)]
         /\ UNCHANGED rows
    [] reply.kind = "invalid" -> exec' = Settling("REFUSED", exec.prior) /\ UNCHANGED rows
    [] reply.kind = "silence" -> exec' = Settling("TRANSPORT", exec.prior) /\ UNCHANGED rows

MutReplyNotCounted(reply) ==
  /\ exec' = Replaying(Tail(exec.todo),
                       IF reply.kind = "ok" THEN Landed(exec.prior, OnWire, reply.version)
                                            ELSE exec.prior,
                       exec.ours)
  /\ UNCHANGED rows

\* Whatever fails here is swallowed; a 409 says the request never landed.
HearReplay(reply) ==
  /\ exec' = CASE reply.kind = "ok" ->
                    Replaying(Tail(exec.todo), Landed(exec.prior, OnWire, reply.version),
                              IF reply.version > exec.ours THEN reply.version ELSE exec.ours)
               [] reply.kind \in {"entered", "reused", "moved"} ->
                    Replaying(Tail(exec.todo), Dropped(exec.prior, OnWire), exec.ours)
               [] OTHER ->
                    [Replaying(Tail(exec.todo), exec.prior, exec.ours) EXCEPT !.clouded = TRUE]
  /\ UNCHANGED rows

HearAmend(reply) ==
  LET prior == CASE reply.kind = "ok" -> Landed(exec.prior, OwnAmend, reply.version)
                 [] reply.kind \in {"moved", "reused"} -> Dropped(exec.prior, OwnAmend)
                 [] OTHER -> exec.prior
      verdict == CASE reply.kind = "ok" -> "DELIVERED"
                   [] reply.kind = "silence" -> "TRANSPORT"
                   [] OTHER -> "REFUSED"
  IN exec' = Settling(verdict, prior) /\ rows' = Saved(prior)

Hear(reply) ==
  CASE exec.phase = "post"   -> HearReturn(reply)
    [] exec.phase = "replay" -> HearReplay(reply)
    [] exec.phase = "amend"  -> HearAmend(reply)

Serve(request) ==
  IF Takes(day, receipts, request)
    THEN day' = Written(day, request) /\ receipts' = Receipted(receipts, day, request)
    ELSE UNCHANGED server

\* The server answers in time.
Answered ==
  /\ exec.phase \in Asking
  /\ Hear(ReplyTo(day, receipts, OnWire))
  /\ Serve(OnWire)
  /\ UNCHANGED <<forms, seen, late, history, cut, counters>>

\* A refusal on other grounds (422, 403): nothing happens to the day.
Invalid ==
  /\ exec.phase \in Asking
  /\ Receipt(receipts, OnWire) = {}
  /\ Hear([kind |-> "invalid", version |-> 0])
  /\ UNCHANGED <<forms, seen, late, server, history, cut, counters>>

\* No reply is heard; whether the server gets the request is open.
Unheard ==
  /\ exec.phase \in Asking
  /\ Within(Filings, lost + 1, restarts, retries)
  /\ lost' = lost + 1
  /\ late' = late \cup {OnWire}
  /\ Hear([kind |-> "silence", version |-> 0])
  /\ UNCHANGED <<forms, seen, server, history, cut, restarts, retries>>

\* A request the phone no longer waits for reaches the server.
LateArrival(request) ==
  /\ late' = late \ {request}
  /\ Serve(request)
  /\ UNCHANGED <<rows, forms, seen, exec, history, cut, counters>>

\* An amendment, recorded before it goes; or a day somebody else has changed.
AmendFrom(base) ==
  LET held == [exec EXCEPT !.base = base]
      amend == Request(AmendKey(exec.op, base, exec.fig), exec.fig, exec.nth)
      prior == Recorded(amend)
  IN  /\ exec' = [held EXCEPT !.phase = "amend", !.prior = prior]
      /\ rows' = Saved(prior)
      /\ cut' = CutFrom(exec.op, Recording(amend))

Finished(verdict, conflict) ==
  /\ exec' = [Settling(verdict, exec.prior) EXCEPT !.conflict = conflict]
  /\ rows' = Saved(exec.prior)
  /\ UNCHANGED cut

\* The day read back: already as filed; still the version the form was opened
\* from; or else everything this phone may have sent is replayed first.
ReadDay ==
  /\ exec.phase = "read"
  /\ IF day[Version(day)].fig = exec.fig THEN Finished("DELIVERED", FALSE)
     ELSE IF exec.base = Version(day) THEN AmendFrom(exec.base)
     ELSE /\ exec' = [Replaying(exec.prior, exec.prior, 0) EXCEPT !.replayed = exec.prior]
          /\ UNCHANGED <<rows, cut>>
  /\ UNCHANGED <<forms, seen, late, server, history, counters>>

\* Read again after the replays: it must be ours, or as it was seen.
MutAnyVersionIsOurs ==
  /\ exec.phase = "reread"
  /\ IF day[Version(day)].fig = exec.fig THEN Finished("DELIVERED", FALSE)
     ELSE IF exec.ours # 0 \/ exec.base = Version(day) THEN AmendFrom(Version(day))
     ELSE Finished("REFUSED", TRUE)
  /\ UNCHANGED <<forms, seen, late, server, history, counters>>

ReadDayAgain ==
  /\ exec.phase = "reread"
  /\ LET base == IF exec.ours = Version(day) THEN Version(day) ELSE exec.base IN
       IF day[Version(day)].fig = exec.fig THEN Finished("DELIVERED", FALSE)
       ELSE IF base = Version(day) THEN AmendFrom(base)
       ELSE Finished("REFUSED", TRUE)
  /\ UNCHANGED <<forms, seen, late, server, history, counters>>

\* The read itself fails: a failed attempt like any other.
ReadFails ==
  /\ exec.phase \in {"read", "reread"}
  /\ Within(Filings, lost + 1, restarts, retries)
  /\ lost' = lost + 1
  /\ Finished("TRANSPORT", FALSE)
  /\ UNCHANGED <<forms, seen, late, server, history, restarts, retries>>

-----------------------------------------------------------------------------
(* What came of it, written under the lock: settleChain, then the row.      *)

Settlement(row, verdict) ==
  CASE verdict = "DELIVERED" -> [Delivered(row) EXCEPT !.prior = <<>>]
    [] verdict = "REFUSED"   -> Refused(row)
    [] verdict = "TRANSPORT" -> Deferred(row)

\* The newest row waiting behind the one in hand is told what that one sent,
\* and takes its place if that one would go back to wait.
Behind == {i \in ActiveOn(rows, TheDay) :
             rows[i].state \in WaitingStates /\ rows[i].seq > rows[exec.op].seq}

Settle ==
  /\ exec.phase = "settle"
  /\ LET row == rows[exec.op]
         newer == Newest(rows, Behind)
         list == Chain(row, rows[newer].prior, PostKey(exec.op), TRUE, TRUE)
         told == [rows[newer] EXCEPT !.prior = Trim(list), !.raw = FALSE,
                                     !.base = IF @ = 0 THEN row.base ELSE @]
     IN /\ rows' = IF Behind = {} THEN [rows EXCEPT ![exec.op] = Settlement(row, exec.verdict)]
                   ELSE [rows EXCEPT ![newer] = told,
                           ![exec.op] = IF exec.verdict = "TRANSPORT" THEN NoRow
                                        ELSE Settlement(row, exec.verdict)]
        /\ cut' = IF Behind = {} THEN cut ELSE CutFrom(newer, list)
  /\ exec' = Resting
  /\ UNCHANGED <<forms, seen, late, server, history, counters>>

BackoffElapses(i) ==
  /\ rows[i].state = "BACKOFF" /\ ~rows[i].due
  /\ rows' = [rows EXCEPT ![i].due = TRUE]
  /\ UNCHANGED <<forms, seen, exec, late, server, history, cut, counters>>

\* The app dies and is opened again.
Restart ==
  /\ Within(Filings, lost, restarts + 1, retries)
  /\ restarts' = restarts + 1
  /\ rows' = Recovered(rows)
  /\ exec' = Resting
  /\ late' = IF exec.phase \in Asking THEN late \cup {OnWire} ELSE late
  /\ UNCHANGED <<forms, seen, server, history, cut, retries, lost>>

-----------------------------------------------------------------------------
Init ==
  /\ rows = [i \in Op |-> NoRow]
  /\ forms = <<>> /\ seen = 0
  /\ exec = Resting
  /\ late = {}
  /\ day = <<>> /\ receipts = {}
  /\ discarded = {} /\ reopened = FALSE /\ cut = {}
  /\ restarts = 0 /\ retries = 0 /\ lost = 0

PeopleNext ==
  \/ Look \/ \E f \in Figures : File(f) \/ SomebodyElseWrites(f)
  \/ \E i \in Op : Retry(i) \/ Discard(i)

FlushNext ==
  \/ \E i \in Op : LookAhead(i) \/ BackoffElapses(i)
  \/ Claim \/ SendReturn \/ Answered \/ Invalid \/ Unheard
  \/ ReadDay \/ ReadDayAgain \/ ReadFails \/ Settle \/ Restart
  \/ \E r \in late : LateArrival(r)

Next == PeopleNext \/ FlushNext

Spec == Init /\ [][Next]_vars

-----------------------------------------------------------------------------
(* Properties.                                                              *)

Requests == [key : Keys, fig : Figures, nth : Op]

Lists == Seq([key : Keys, fig : Figures, nth : Op, landed : Nat])

Row == [state : RowStates, seq : Nat, record : {TheDay}, fig : Figures \cup {0},
        nth : Op \cup {0}, prior : Lists, base : Nat, raw : BOOLEAN, decision : Decisions,
        tries : Nat, due : BOOLEAN]

Phases == {"idle", "checked", "claimed", "read", "reread", "settle"} \cup Asking

Executor == [phase : Phases, op : Op \cup {0}, fig : Figures \cup {0}, nth : Op \cup {0},
             prior : Lists, base : Nat, todo : Lists, ours : Nat, replayed : Lists,
             clouded : BOOLEAN, verdict : Verdicts, conflict : BOOLEAN]

TypeOK ==
  /\ rows \in [Op -> Row]
  /\ forms \in Seq(Nat) /\ Filings <= MaxFilings
  /\ seen \in 0 .. Version(day)
  /\ exec \in Executor /\ Len(exec.prior) <= PriorMax
  /\ late \subseteq Requests
  /\ day \in Seq([by : Writers, fig : Figures, nth : Op \cup {0}, key : Keys])
  /\ receipts \subseteq [key : Keys, fig : Figures, version : Nat \ {0}]
  /\ discarded \subseteq Op /\ reopened \in BOOLEAN /\ cut \subseteq Op
  /\ restarts \in Nat /\ retries \in Nat /\ lost \in Nat

\* A crew's amendment only ever replaces a version the crew wrote, or one that
\* the form of this filing, or of an earlier one it was chained to, was opened
\* from: nobody else's correction is overwritten unseen, however late a
\* request is or however often it is sent.  As long as no return that failed is
\* put back after a newer one was filed.
NoSilentOverwrite ==
  \A v \in 2 .. Version(day) :
    day[v].by = "crew" =>
      \/ reopened
      \/ day[v - 1].by = "crew"
      \/ \E n \in 1 .. day[v].nth : forms[n] = v - 1

\* The crew's filings reach the day in the order they were made: an earlier
\* filing's figures never replace a later one's.  This is what the flush says
\* of a chain of rows, whatever the crew does with those that failed.
LandsInOrder ==
  \A v, w \in 1 .. Version(day) :
    v < w /\ day[v].by = "crew" /\ day[w].by = "crew" => day[v].nth <= day[w].nth

\* And it is so for as long as no failed return is put back after a newer
\* filing: a row put back keeps its old place in the queue.
NeverBackwards == reopened \/ LandsInOrder

\* The newest filing is never lost: it is on a row that is still to be sent or
\* has failed in plain sight, or was thrown away by the crew, or its row is
\* marked delivered and the day did read as it says.  With the same proviso: a
\* row put back may absorb the row of a newer filing it waits before.
LatestKept ==
  Filings > 0 =>
    \/ reopened
    \/ Filings \in discarded
    \/ \E i \in Op :
         /\ rows[i].nth = Filings
         /\ \/ rows[i].state \in ActiveStates \cup {"FAILED"}
            \/ /\ rows[i].state = "SUCCEEDED"
               /\ \E v \in 1 .. Version(day) : day[v].fig = rows[i].fig

\* Recorded before it goes, and carried on through every folding, trimming,
\* refusal and death of the app: the list of a row that is still to be sent, or
\* has failed, names the body the server has under the row's own key, or a later
\* version of the phone's.  Without it the row could not recognise its own work.
\* As long as the list never had more to keep than it has room for.
OwnWorkRemembered ==
  \A i \in Op \ cut : \A k \in receipts :
    rows[i].state \in ActiveStates \cup {"FAILED"} /\ k.key = PostKey(i)
      => \E j \in DOMAIN rows[i].prior :
           LET p == rows[i].prior[j] IN SameRequest(p, k) \/ p.landed > k.version

\* Somebody wrote the day's version under a request this phone had on its list.
ByOneOf(list) ==
  /\ day[Version(day)].by = "crew"
  /\ \E i \in DOMAIN list : SameRequest(list[i], day[Version(day)])

\* A return is sent back for review only when the day's version was not made
\* by a request it has just replayed, or when the replay of one went unanswered.
ConflictHasCause ==
  [][exec'.conflict /\ ~exec.conflict => exec.clouded \/ ~ByOneOf(exec.replayed)]_vars

============================================================================
