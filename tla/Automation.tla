----------------------------- MODULE Automation -----------------------------
(***************************************************************************)
(* The automation rules on one task: the domain events its changes raise,  *)
(* the worker that runs the rules on them, and the webhook calls that      *)
(* follow (apps/api/src/modules/automation/worker.ts, the dispatch route   *)
(* of automation/routes.ts, the task routes the worker calls).             *)
(*                                                                         *)
(* An advisory lock admits one worker at a time; it falls with the worker, *)
(* which may die between any two of its statements, and so the next one    *)
(* starts from what the tables hold.  A request the worker makes is one    *)
(* transaction under a receipt (Receipts), hence a step; it may commit     *)
(* and still be answered 500.  People change the task, the rules and       *)
(* each other's roles meanwhile.                                           *)
(*                                                                         *)
(* Times are left out: an event or a delivery that failed is due again at  *)
(* any moment.  One subscription stands for all; its owner keeps his role. *)
(* Rules are edited in their owner and their switch, never in what they    *)
(* look at and do; an action that calls a webhook, which files the same    *)
(* delivery earlier, is left out.  So are the other jobs of a pass, each   *)
(* isolated from the rest.                                                 *)
(***************************************************************************)
EXTENDS Integers, Sequences

CONSTANTS
  Statuses,     \* statuses of the task
  Moves,        \* Moves \subseteq Statuses \X Statuses: what its workflow allows
  Users,        \* those who own rules
  Rules,
  Owner,        \* Owner[r]: who owns it at first
  When,         \* When[r]: statuses of the task the rule's conditions accept
  Does,         \* Does[r]: its actions in order, each of a kind and, for a move, a target
  Scenarios,    \* bounds: what may happen at most, together: moves and other changes
                \* of the task by people, changes of rules and roles, deaths of the worker
  MaxAttempts,  \* 8 in the code: attempts at an event
  MaxPosts      \* 8 in the code: attempts at a delivery

ASSUME AutomationConstants ==
  /\ Moves \subseteq Statuses \X Statuses
  /\ Owner \in [Rules -> Users]
  /\ When \in [Rules -> SUBSET Statuses]
  /\ Does \in [Rules -> Seq([kind : {"move", "remark", "notify"}, to : Statuses])]
  /\ Scenarios \subseteq [moves : Nat, touches : Nat, edits : Nat, deaths : Nat]
  /\ {MaxAttempts, MaxPosts} \subseteq Nat \ {0}

VARIABLES
  task,        \* its status and version
  rules,       \* who owns each rule, and whether it is switched on
  standing,    \* what each user may do: all, nothing outside his projects, nothing
  events,      \* domain_events on the task, oldest first
  receipts,    \* idempotency keys answered, by user
  executions,  \* automation_executions: what is recorded of a rule on an event
  deliveries,  \* webhook_deliveries, by event
  worker,      \* what the worker holds in memory
  effects,     \* history: what the rules did, in order
  heard,       \* history: events the subscriber accepted
  spent        \* what is used of the bounds

vars == <<task, rules, standing, events, receipts, executions, deliveries, worker, effects, heard, spent>>
tables == <<task, rules, standing, events, receipts, executions, deliveries, effects, heard>>

-----------------------------------------------------------------------------
Standings == {"full", "outside", "none"}
Outcomes == {"SUCCEEDED", "FAILED"}

Within == \E s \in Scenarios : \A k \in DOMAIN s : spent'[k] <= s[k]

Idle == [at |-> "idle"]

Raised(depth) == [depth |-> depth, done |-> FALSE, attempts |-> 0]

NoDelivery == [status |-> "NONE", attempts |-> 0]

\* A new event takes its place in every table kept by event.
Raise(depth) ==
  /\ events' = Append(events, Raised(depth))
  /\ deliveries' = Append(deliveries, NoDelivery)
  /\ executions' = Append(executions, <<>>)

Init ==
  /\ task \in [status : Statuses, version : {1}]
  /\ rules = [r \in Rules |-> [owner |-> Owner[r], active |-> TRUE]]
  /\ standing = [u \in Users |-> "full"]
  /\ events = <<>> /\ executions = <<>> /\ deliveries = <<>>
  /\ receipts = {} /\ effects = <<>> /\ heard = {}
  /\ worker = Idle
  /\ spent = [moves |-> 0, touches |-> 0, edits |-> 0, deaths |-> 0]

-----------------------------------------------------------------------------
(* People. *)

PersonMoves(s) ==
  /\ <<task.status, s>> \in Moves
  /\ spent' = [spent EXCEPT !.moves = @ + 1] /\ Within
  /\ task' = [status |-> s, version |-> task.version + 1]
  /\ Raise(0)
  /\ UNCHANGED <<rules, standing, receipts, worker, effects, heard>>

\* Anything else of the task is changed; nothing here listens to that event.
PersonTouches ==
  /\ spent' = [spent EXCEPT !.touches = @ + 1] /\ Within
  /\ task' = [task EXCEPT !.version = @ + 1]
  /\ UNCHANGED <<rules, standing, events, receipts, executions, deliveries, worker, effects, heard>>

\* Whoever saves a rule owns it from then on.
EditRule(r, u, active) ==
  /\ standing[u] = "full"
  /\ rules[r] # [owner |-> u, active |-> active]
  /\ spent' = [spent EXCEPT !.edits = @ + 1] /\ Within
  /\ rules' = [rules EXCEPT ![r] = [owner |-> u, active |-> active]]
  /\ UNCHANGED <<task, standing, events, receipts, executions, deliveries, worker, effects, heard>>

ChangeRole(u, s) ==
  /\ standing[u] # s
  /\ spent' = [spent EXCEPT !.edits = @ + 1] /\ Within
  /\ standing' = [standing EXCEPT ![u] = s]
  /\ UNCHANGED <<task, rules, events, receipts, executions, deliveries, worker, effects, heard>>

-----------------------------------------------------------------------------
(* The worker on one event. *)

Pending(e) == ~events[e].done /\ events[e].attempts < MaxAttempts

\* An event that failed waits for its next attempt: it need not go first.
Take(e) ==
  /\ worker = Idle /\ Pending(e)
  /\ \A d \in 1 .. e - 1 : Pending(d) => events[d].attempts > 0
  /\ worker' = [at |-> "rules", event |-> e, sight |-> task.status,
                todo |-> IF events[e].depth = 0
                         THEN {[rule |-> r, owner |-> rules[r].owner] : r \in {q \in Rules : rules[q].active}}
                         ELSE {}]
  /\ UNCHANGED <<tables, spent>>

\* A rule recorded on an event is not told from one still to be run.
MutRunAgain(r, e) == FALSE

Recorded(r, e) == r \in DOMAIN executions[e]

Write(r, e, outcome) ==
  executions' = [executions EXCEPT ![e] =
                   [q \in DOMAIN @ \cup {r} |-> IF q \in DOMAIN @ THEN @[q] ELSE outcome]]

\* One of the rules read with the event is passed over, refused or begun.
Judge(x) ==
  /\ worker.at = "rules" /\ x \in worker.todo
  /\ LET rest == [worker EXCEPT !.todo = @ \ {x}]
     IN \/ /\ \/ worker.sight \notin When[x.rule]
              \/ Recorded(x.rule, worker.event)
              \/ standing[x.owner] = "none"
           /\ worker' = rest /\ UNCHANGED executions
        \/ /\ worker.sight \in When[x.rule] /\ ~Recorded(x.rule, worker.event)
           /\ standing[x.owner] = "outside"
           /\ worker' = rest /\ Write(x.rule, worker.event, "FAILED")
        \/ /\ worker.sight \in When[x.rule] /\ ~Recorded(x.rule, worker.event)
           /\ standing[x.owner] = "full"
           /\ worker' = [at |-> "act", event |-> worker.event, sight |-> worker.sight, todo |-> rest.todo,
                         rule |-> x.rule, by |-> x.owner, index |-> 1, seen |-> 0, failed |-> FALSE]
           /\ UNCHANGED executions
  /\ UNCHANGED <<task, rules, standing, events, receipts, deliveries, effects, heard, spent>>

Acting == worker.at = "act" /\ ~worker.failed /\ worker.index <= Len(Does[worker.rule])
Action == Does[worker.rule][worker.index]
Key == [event |-> worker.event, rule |-> worker.rule, index |-> worker.index, by |-> worker.by]

\* Before each action on the task its version is read again.
Look ==
  /\ Acting /\ worker.seen = 0
  /\ worker' = [worker EXCEPT !.seen = task.version]
  /\ UNCHANGED <<tables, spent>>

\* The key of a request names the attempt, and a retry is a new request.
MutNewKey == FALSE

Replayed == Key \in receipts

\* What the routes ask before they look for a receipt.
Admitted ==
  /\ standing[worker.by] = "full"
  /\ Action.kind = "notify" => rules[worker.rule] = [owner |-> worker.by, active |-> TRUE]

\* What a task route asks of a request it has not answered before.
Accepted ==
  Action.kind = "move" =>
    /\ worker.seen = task.version
    /\ task.status = Action.to \/ <<task.status, Action.to>> \in Moves

\* A notice is stored once whoever asks for it.
Noticed == \E i \in DOMAIN effects :
             /\ effects[i].event = worker.event
             /\ effects[i].rule = worker.rule
             /\ effects[i].index = worker.index

\* The request changes the task and leaves its receipt in one commit.
Commit ==
  /\ Admitted /\ ~Replayed /\ Accepted
  /\ receipts' = receipts \cup {Key}
  /\ effects' = IF Action.kind = "notify" /\ Noticed THEN effects ELSE Append(effects, Key)
  /\ IF Action.kind = "move"
     THEN task' = [status |-> Action.to, version |-> task.version + 1] /\ Raise(1)
     ELSE UNCHANGED <<task, events, deliveries, executions>>
  /\ UNCHANGED <<rules, standing, heard, spent>>

Turn == [worker EXCEPT !.index = @ + 1, !.seen = 0]

\* A refused action is passed over.
MutRefusedGoesOn ==
  /\ Acting /\ worker.seen # 0
  /\ \/ Commit /\ worker' = Turn
     \/ /\ ~Admitted \/ Replayed \/ ~Accepted
        /\ worker' = Turn /\ UNCHANGED <<tables, spent>>

Act ==
  /\ Acting /\ worker.seen # 0
  /\ \/ Commit /\ worker' = Turn
     \/ Admitted /\ Replayed /\ worker' = Turn /\ UNCHANGED <<tables, spent>>
     \/ /\ ~Admitted \/ ~(Replayed \/ Accepted)
        /\ worker' = [worker EXCEPT !.failed = TRUE] /\ UNCHANGED <<tables, spent>>

\* The outcome is judged by the last action alone.
MutSucceedsAnyway ==
  /\ worker.at = "act" /\ ~Acting
  /\ Write(worker.rule, worker.event, "SUCCEEDED")
  /\ worker' = [at |-> "rules", event |-> worker.event, sight |-> worker.sight, todo |-> worker.todo]
  /\ UNCHANGED <<task, rules, standing, events, receipts, deliveries, effects, heard, spent>>

Record ==
  /\ worker.at = "act" /\ ~Acting
  /\ Write(worker.rule, worker.event, IF worker.failed THEN "FAILED" ELSE "SUCCEEDED")
  /\ worker' = [at |-> "rules", event |-> worker.event, sight |-> worker.sight, todo |-> worker.todo]
  /\ UNCHANGED <<task, rules, standing, events, receipts, deliveries, effects, heard, spent>>

\* The event is marked before its delivery is filed.
MutMarksFirst ==
  \/ /\ worker.at = "rules" /\ worker.todo = {}
     /\ worker' = [worker EXCEPT !.at = "filed"]
     /\ events' = [events EXCEPT ![worker.event].done = TRUE]
     /\ UNCHANGED <<task, rules, standing, receipts, executions, deliveries, effects, heard, spent>>
  \/ /\ worker.at = "filed"
     /\ worker' = Idle
     /\ deliveries' = [deliveries EXCEPT ![worker.event] = [status |-> "PENDING", attempts |-> 0]]
     /\ UNCHANGED <<task, rules, standing, events, receipts, executions, effects, heard, spent>>

\* The delivery is filed unless it is there from an earlier attempt, then the event is marked.
Finish ==
  \/ /\ worker.at = "rules" /\ worker.todo = {}
     /\ worker' = [worker EXCEPT !.at = "filed"]
     /\ deliveries' = [deliveries EXCEPT ![worker.event] =
                         IF @.status = "NONE" THEN [status |-> "PENDING", attempts |-> 0] ELSE @]
     /\ UNCHANGED <<task, rules, standing, events, receipts, executions, effects, heard, spent>>
  \/ /\ worker.at = "filed"
     /\ worker' = Idle
     /\ events' = [events EXCEPT ![worker.event].done = TRUE]
     /\ UNCHANGED <<task, rules, standing, receipts, executions, deliveries, effects, heard, spent>>

\* The request commits and its answer is lost.
LoseAnswer ==
  /\ Acting /\ worker.seen # 0
  /\ Commit /\ worker' = [worker EXCEPT !.at = "lost"]

\* A failed attempt is not counted.
MutNotCounted ==
  /\ worker.at \in {"rules", "act", "lost", "filed"}
  /\ worker' = Idle
  /\ UNCHANGED <<task, rules, standing, events, receipts, executions, deliveries, effects, heard, spent>>

\* A statement fails or a request is answered 500, and the whole event is put off.
PutOff ==
  /\ worker.at \in {"rules", "act", "lost", "filed"}
  /\ worker' = Idle
  /\ events' = [events EXCEPT ![worker.event].attempts = @ + 1]
  /\ UNCHANGED <<task, rules, standing, receipts, executions, deliveries, effects, heard, spent>>

-----------------------------------------------------------------------------
(* The webhook call of one event, and what is written of it. *)

\* The subscriber may take the call and the answer be lost.
Post(e) ==
  /\ worker = Idle /\ deliveries[e].status = "PENDING"
  /\ \E taken \in BOOLEAN, answered \in BOOLEAN :
       /\ heard' = IF taken THEN heard \cup {e} ELSE heard
       /\ worker' = [at |-> "posted", event |-> e, ok |-> taken /\ answered]
  /\ UNCHANGED <<task, rules, standing, events, receipts, executions, deliveries, effects, spent>>

Settle ==
  /\ worker.at = "posted"
  /\ deliveries' = [deliveries EXCEPT ![worker.event] =
       [status |-> IF worker.ok THEN "DELIVERED"
                   ELSE IF @.attempts >= MaxPosts - 1 THEN "FAILED" ELSE "PENDING",
        attempts |-> @.attempts + 1]]
  /\ worker' = Idle
  /\ UNCHANGED <<task, rules, standing, events, receipts, executions, effects, heard, spent>>

\* What the worker holds in memory is lost, and its lock with it.
Die ==
  /\ worker # Idle
  /\ spent' = [spent EXCEPT !.deaths = @ + 1] /\ Within
  /\ worker' = Idle
  /\ UNCHANGED tables

-----------------------------------------------------------------------------
People ==
  \/ \E s \in Statuses : PersonMoves(s)
  \/ PersonTouches
  \/ \E r \in Rules, u \in Users, active \in BOOLEAN : EditRule(r, u, active)
  \/ \E u \in Users, s \in Standings : ChangeRole(u, s)

OnEvent ==
  \/ \E e \in DOMAIN events : Take(e)
  \/ worker.at = "rules" /\ \E x \in worker.todo : Judge(x)
  \/ Look \/ Act \/ Record \/ Finish
  \/ worker.at = "lost" /\ PutOff

OnDelivery == Settle \/ \E e \in DOMAIN events : Post(e)

Next == People \/ OnEvent \/ OnDelivery \/ LoseAnswer \/ PutOff \/ Die

\* The pass is started again every so often for as long as the service runs, and
\* each statement of it ends; nothing obliges people or failures.
Spec == Init /\ [][Next]_vars /\ WF_vars(OnEvent) /\ WF_vars(OnDelivery)

-----------------------------------------------------------------------------
(* Properties. *)

\* The tables keep their shape, an event is attempted so often and no more, one
\* marked as gone through has its delivery filed, and no rule runs on what a rule did.
TypeOK ==
  /\ task \in [status : Statuses, version : Nat]
  /\ rules \in [Rules -> [owner : Users, active : BOOLEAN]]
  /\ standing \in [Users -> Standings]
  /\ events \in Seq([depth : {0, 1}, done : BOOLEAN, attempts : 0 .. MaxAttempts])
  /\ Len(executions) = Len(events) /\ Len(deliveries) = Len(events)
  /\ \A e \in DOMAIN events :
       /\ DOMAIN executions[e] \subseteq Rules
       /\ \A r \in DOMAIN executions[e] : executions[e][r] \in Outcomes
       /\ deliveries[e].status \in {"NONE", "PENDING", "DELIVERED", "FAILED"}
       /\ deliveries[e].attempts \in 0 .. MaxPosts
       /\ events[e].done => deliveries[e].status # "NONE"
       /\ events[e].depth = 1 => executions[e] = <<>>
  /\ worker.at \in {"idle", "rules", "act", "lost", "filed", "posted"}

\* However often an event is gone through again, after a failure, a lost answer or
\* the worker's death, no action of a rule is done twice for it on one owner's
\* behalf, and no notice is sent twice on anyone's.
DoneOnce ==
  \A i, j \in DOMAIN effects :
    /\ i # j
    /\ effects[i].event = effects[j].event
    /\ effects[i].rule = effects[j].rule
    /\ effects[i].index = effects[j].index
    => /\ effects[i].by # effects[j].by
       /\ Does[effects[i].rule][effects[i].index].kind # "notify"

\* A rule's actions are done in their order: none before the one ahead of it,
\* in this attempt or an earlier one.
InTurn ==
  \A i \in DOMAIN effects : effects[i].index > 1 =>
    \E j \in 1 .. i - 1 :
      /\ effects[j].event = effects[i].event
      /\ effects[j].rule = effects[i].rule
      /\ effects[j].index = effects[i].index - 1

\* A rule recorded as having succeeded on an event has done every one of its actions.
RecordHonest ==
  \A e \in DOMAIN executions : \A r \in DOMAIN executions[e] :
    executions[e][r] = "SUCCEEDED" =>
      \A k \in DOMAIN Does[r] : \E i \in DOMAIN effects :
        effects[i].event = e /\ effects[i].rule = r /\ effects[i].index = k

\* Once a rule is recorded on an event the record stays, and the rule does
\* nothing more for that event, whoever owns it by then.
RecordedIsOver ==
  [][\A e \in DOMAIN executions : \A r \in DOMAIN executions[e] :
       /\ r \in DOMAIN executions'[e] /\ executions'[e][r] = executions[e][r]
       /\ \A i \in DOMAIN effects' :
            effects'[i].event = e /\ effects'[i].rule = r => i \in DOMAIN effects]_vars

\* Once people rest, every event is in the end gone through or given up, and the
\* subscriber has taken every one gone through, or its delivery is marked failed.
AllEnd ==
  <>[](\A e \in DOMAIN events :
         \/ ~events[e].done /\ events[e].attempts = MaxAttempts
         \/ events[e].done /\ (e \in heard \/ deliveries[e].status = "FAILED"))

=============================================================================
