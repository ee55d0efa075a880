------------------------- MODULE Automation_proofs -------------------------
(***************************************************************************)
(* Proofs about Automation, for any rules, users, workflow and bounds:     *)
(* what a rule does for an event, and what is recorded of it.              *)
(***************************************************************************)
EXTENDS Automation, TLAPS

-----------------------------------------------------------------------------
(* The inductive invariant: first what the tables and the worker are.       *)

Event == [depth : {0, 1}, done : BOOLEAN, attempts : 0 .. MaxAttempts]
Records == UNION {[R -> Outcomes] : R \in SUBSET Rules}
Delivery == [status : {"NONE", "PENDING", "DELIVERED", "FAILED"}, attempts : 0 .. MaxPosts]
Effect == [event : Nat, rule : Rules, index : Nat \ {0}, by : Users]

Todos == SUBSET [rule : Rules, owner : Users]
Read == {"rules", "filed"}
Work == {"act", "lost"}
Positive == Nat \ {0}
Reading == [at : Read, event : Nat, sight : Statuses, todo : Todos]
Working == [at : Work, event : Nat, sight : Statuses, todo : Todos, rule : Rules, by : Users,
            index : Positive, seen : Nat, failed : BOOLEAN]
Posting == [at : {"posted"}, event : Nat, ok : BOOLEAN]

World ==
  /\ task \in [status : Statuses, version : Nat]
  /\ rules \in [Rules -> [owner : Users, active : BOOLEAN]]
  /\ standing \in [Users -> Standings]
  /\ effects \in Seq(Effect) /\ receipts \subseteq Effect

\* A delivery is filed before its event is marked, and attempted only while
\* attempts are left; nothing is recorded of an event that a rule raised.
Tables ==
  /\ events \in Seq(Event) /\ executions \in Seq(Records) /\ deliveries \in Seq(Delivery)
  /\ Len(executions) = Len(events) /\ Len(deliveries) = Len(events)
  /\ \A e \in DOMAIN events :
       /\ events[e].done => deliveries[e].status # "NONE"
       /\ events[e].depth = 1 => executions[e] = <<>>
       /\ deliveries[e].status \in {"NONE", "PENDING"} => deliveries[e].attempts < MaxPosts

Worker == worker = Idle \/ worker \in Reading \/ worker \in Working \/ worker \in Posting

\* The event in hand is there, and has attempts left.
InHand ==
  /\ worker.at # "idle" => worker.event \in DOMAIN events
  /\ worker.at \in {"rules", "act", "lost", "filed"} => events[worker.event].attempts < MaxAttempts
  /\ worker.at \in {"act", "lost"} => events[worker.event].depth = 0
  /\ worker.at = "rules" /\ events[worker.event].depth = 1 => worker.todo = {}
  /\ worker.at = "filed" => deliveries[worker.event].status # "NONE"
  /\ worker.at = "posted" => deliveries[worker.event].status = "PENDING"

Shape == World /\ Tables /\ Worker /\ InHand

\* Then what was done: a receipt goes with each effect, an effect for each
\* receipt, and what the worker has passed of a rule is done.
Did(e, r, k) ==
  \E i \in DOMAIN effects : effects[i].event = e /\ effects[i].rule = r /\ effects[i].index = k

Receipted == \A i \in DOMAIN effects : effects[i] \in receipts
Effected == \A x \in receipts : Did(x.event, x.rule, x.index)

Doing ==
  worker.at = "act" =>
    /\ ~Recorded(worker.rule, worker.event)
    /\ \A k \in Nat : 0 < k /\ k < worker.index => Did(worker.event, worker.rule, k)

Done == Receipted /\ Effected /\ DoneOnce /\ InTurn /\ RecordHonest /\ Doing

Inv == Shape /\ Done

-----------------------------------------------------------------------------
(* What the worker holds.                                                   *)

LEMMA WorkerKinds ==
  ASSUME Worker
  PROVE  /\ worker.at \in Read => worker \in Reading
         /\ worker.at \in Work => worker \in Working
         /\ worker.at = "posted" => worker \in Posting
         /\ worker.at = "idle" => worker = Idle
<1>1. CASE worker = Idle BY <1>1 DEF Idle, Read, Work
<1>2. CASE worker \in Reading BY <1>2, SMT DEF Reading, Read, Work
<1>3. CASE worker \in Working BY <1>3, SMT DEF Working, Read, Work
<1>4. CASE worker \in Posting BY <1>4, SMT DEF Posting, Read, Work
<1> QED BY <1>1, <1>2, <1>3, <1>4 DEF Worker

LEMMA ReadingFields ==
  ASSUME NEW w \in Reading
  PROVE  /\ w.at \in Read /\ w.event \in Nat /\ w.sight \in Statuses
         /\ w.todo \in Todos
  BY SMT DEF Reading

LEMMA ReadingField ==
  ASSUME NEW w \in Reading
  PROVE  /\ \A at \in Read : LET v == [w EXCEPT !.at = at]
              IN v \in Reading /\ v.at = at /\ v.event = w.event
         /\ \A todo \in Todos : LET v == [w EXCEPT !.todo = todo]
              IN v \in Reading /\ v.at = w.at /\ v.event = w.event /\ v.todo = todo
<1>1. ASSUME NEW at \in Read
      PROVE  LET v == [w EXCEPT !.at = at] IN v \in Reading /\ v.at = at /\ v.event = w.event
  <2>1. [w EXCEPT !.at = at] \in Reading
    BY SMT DEF Reading
  <2>2. [w EXCEPT !.at = at].at = at /\ [w EXCEPT !.at = at].event = w.event
    BY SMT DEF Reading
  <2> QED BY <2>1, <2>2, Zenon
<1>2. ASSUME NEW todo \in Todos
      PROVE  LET v == [w EXCEPT !.todo = todo]
             IN v \in Reading /\ v.at = w.at /\ v.event = w.event /\ v.todo = todo
  BY SMT DEF Reading
<1> QED BY <1>1, <1>2, Zenon

LEMMA WorkingFields ==
  ASSUME NEW w \in Working
  PROVE  /\ w.at \in Work /\ w.event \in Nat /\ w.sight \in Statuses
         /\ w.todo \in Todos /\ w.rule \in Rules /\ w.by \in Users
         /\ w.index \in Positive /\ w.seen \in Nat /\ w.failed \in BOOLEAN
  BY SMT DEF Working

\* Two records that differ in where the worker is with a rule, not in the rule.
SameRule(w, v) == v.event = w.event /\ v.rule = w.rule

LEMMA WorkingField ==
  ASSUME NEW w \in Working
  PROVE  /\ LET v == [w EXCEPT !.at = "lost"] IN v \in Working /\ v.at = "lost" /\ SameRule(w, v)
         /\ LET v == [w EXCEPT !.failed = TRUE]
            IN v \in Working /\ v.at = w.at /\ SameRule(w, v) /\ v.index = w.index
         /\ \A n \in Nat : LET v == [w EXCEPT !.seen = n]
            IN v \in Working /\ v.at = w.at /\ SameRule(w, v) /\ v.index = w.index
         /\ LET v == [w EXCEPT !.index = @ + 1]
            IN v \in Working /\ v.at = w.at /\ SameRule(w, v) /\ v.index = w.index + 1
<1>1. LET v == [w EXCEPT !.at = "lost"] IN v \in Working /\ v.at = "lost" /\ SameRule(w, v)
  <2> DEFINE v == [w EXCEPT !.at = "lost"]
  <2>1. v \in Working
    <3>1. "lost" \in Work BY DEF Work
    <3> QED BY <3>1, SMT DEF Working
  <2>2. v.at = "lost" /\ v.event = w.event /\ v.rule = w.rule BY SMT DEF Working
  <2> QED BY <2>1, <2>2, Zenon DEF SameRule
<1>2. LET v == [w EXCEPT !.failed = TRUE]
      IN v \in Working /\ v.at = w.at /\ SameRule(w, v) /\ v.index = w.index
  <2> DEFINE v == [w EXCEPT !.failed = TRUE]
  <2>1. v \in Working
    <3>1. ASSUME NEW f \in BOOLEAN PROVE [w EXCEPT !.failed = f] \in Working
      BY SMT DEF Working
    <3> QED BY <3>1, Zenon
  <2>2. v.at = w.at /\ v.event = w.event /\ v.rule = w.rule /\ v.index = w.index
    BY SMT DEF Working
  <2> QED BY <2>1, <2>2, Zenon DEF SameRule
<1>3. ASSUME NEW n \in Nat
      PROVE  LET v == [w EXCEPT !.seen = n]
             IN v \in Working /\ v.at = w.at /\ SameRule(w, v) /\ v.index = w.index
  <2> DEFINE v == [w EXCEPT !.seen = n]
  <2>1. v \in Working BY SMT DEF Working
  <2>2. v.at = w.at /\ v.event = w.event /\ v.rule = w.rule /\ v.index = w.index
    BY SMT DEF Working
  <2> QED BY <2>1, <2>2, Zenon DEF SameRule
<1>4. LET v == [w EXCEPT !.index = @ + 1]
      IN v \in Working /\ v.at = w.at /\ SameRule(w, v) /\ v.index = w.index + 1
  <2> DEFINE m == w.index + 1
             v == [w EXCEPT !.index = m]
  <2>1. m \in Positive BY WorkingFields DEF Positive
  <2> HIDE DEF m
  <2>2. v \in Working BY <2>1, SMT DEF Working
  <2>3. v.at = w.at /\ v.event = w.event /\ v.rule = w.rule /\ v.index = m
    BY SMT DEF Working
  <2> QED BY <2>2, <2>3, Zenon DEF SameRule, m
<1> QED BY <1>1, <1>2, <1>3, <1>4, Zenon

LEMMA TurnFields ==
  ASSUME worker \in Working
  PROVE  /\ Turn \in Working /\ Turn.at = worker.at /\ SameRule(worker, Turn)
         /\ Turn.index = worker.index + 1
<1> DEFINE v == [worker EXCEPT !.index = @ + 1]
<1>1. v \in Working /\ v.at = worker.at /\ SameRule(worker, v) /\ v.index = worker.index + 1
  BY WorkingField, Zenon
<1>2. Turn = [v EXCEPT !.seen = 0]
  BY Zenon DEF Turn
<1> HIDE DEF v
<1>3. 0 \in Nat
  OBVIOUS
<1> DEFINE u == [v EXCEPT !.seen = 0]
<1>4. u \in Working /\ u.at = v.at /\ SameRule(v, u) /\ u.index = v.index
  BY <1>1, <1>3, WorkingField, Zenon
<1> HIDE DEF u
<1> QED BY <1>1, <1>2, <1>4 DEF SameRule, u

\* An effect is known by its fields.
LEMMA EffectsEqual ==
  ASSUME NEW x \in Effect, NEW y \in Effect,
         x.event = y.event, x.rule = y.rule, x.index = y.index, x.by = y.by
  PROVE  x = y
  BY SMT DEF Effect

-----------------------------------------------------------------------------
(* The tables, kept by event.                                               *)

LEMMA EventFields ==
  ASSUME NEW x \in Event
  PROVE  x.depth \in {0, 1} /\ x.done \in BOOLEAN /\ x.attempts \in 0 .. MaxAttempts
  BY SMT DEF Event

LEMMA DeliveryFields ==
  ASSUME NEW x \in Delivery
  PROVE  /\ x.status \in {"NONE", "PENDING", "DELIVERED", "FAILED"}
         /\ x.attempts \in 0 .. MaxPosts
  BY SMT DEF Delivery

LEMMA Domains ==
  ASSUME Tables
  PROVE  /\ Len(events) \in Nat
         /\ DOMAIN events = 1 .. Len(events) /\ DOMAIN executions = DOMAIN events
         /\ DOMAIN deliveries = DOMAIN events
  BY DEF Tables

\* What an event was, and what is kept of it, does not change.
Same(e) ==
  events'[e] = events[e] /\ executions'[e] = executions[e] /\ deliveries'[e] = deliveries[e]

\* A new event is the last, and nothing is recorded of it.
LEMMA RaiseTables ==
  ASSUME Tables, NEW depth \in {0, 1}, Raise(depth)
  PROVE  /\ Tables'
         /\ \A e \in DOMAIN events : e \in DOMAIN events' /\ Same(e)
         /\ \A e \in DOMAIN events' \ DOMAIN events : executions'[e] = <<>>
<1> DEFINE n == Len(events)
<1>1. Raised(depth) \in Event /\ ~Raised(depth).done
  <2>1. 0 \in 0 .. MaxAttempts
    BY AutomationConstants
  <2> QED BY <2>1 DEF Raised, Event
<1>2. NoDelivery \in Delivery /\ NoDelivery.status = "NONE" /\ NoDelivery.attempts < MaxPosts
  <2>1. 0 \in 0 .. MaxPosts /\ 0 < MaxPosts
    BY AutomationConstants
  <2> QED BY <2>1 DEF NoDelivery, Delivery
<1>3. <<>> \in Records
  <2>1. <<>> \in [{} -> Outcomes]
    OBVIOUS
  <2> QED BY <2>1, Zenon DEF Records
<1>4. /\ events' \in Seq(Event) /\ Len(events') = n + 1 /\ events'[n + 1] = Raised(depth)
      /\ \A e \in 1 .. n : events'[e] = events[e]
  BY <1>1 DEF Tables, Raise
<1>5. /\ deliveries' \in Seq(Delivery) /\ Len(deliveries') = n + 1
      /\ deliveries'[n + 1] = NoDelivery
      /\ \A e \in 1 .. n : deliveries'[e] = deliveries[e]
  BY <1>2 DEF Tables, Raise
<1>6. /\ executions' \in Seq(Records) /\ Len(executions') = n + 1 /\ executions'[n + 1] = <<>>
      /\ \A e \in 1 .. n : executions'[e] = executions[e]
  BY <1>3 DEF Tables, Raise
<1>7. DOMAIN events = 1 .. n /\ n \in Nat
  BY Domains
<1>8. DOMAIN events' = 1 .. n + 1
  BY <1>4, <1>7
<1>9. \A e \in DOMAIN events : e \in DOMAIN events' /\ Same(e)
  BY <1>4, <1>5, <1>6, <1>7, <1>8 DEF Same
<1>10. \A e \in DOMAIN events' : e \in DOMAIN events \/ e = n + 1
  BY <1>7, <1>8
<1>11. ASSUME NEW e \in DOMAIN events'
       PROVE  /\ events'[e].done => deliveries'[e].status # "NONE"
              /\ events'[e].depth = 1 => executions'[e] = <<>>
              /\ deliveries'[e].status \in {"NONE", "PENDING"} => deliveries'[e].attempts < MaxPosts
  <2>1. CASE e \in DOMAIN events
    <3>1. Same(e) BY <1>9, <2>1
    <3> QED BY <2>1, <3>1 DEF Same, Tables
  <2>2. CASE e = n + 1
    BY <1>1, <1>2, <1>4, <1>5, <1>6, <2>2
  <2> QED BY <1>10, <2>1, <2>2
<1>12. \A e \in DOMAIN events' \ DOMAIN events : executions'[e] = <<>>
  BY <1>6, <1>10
<1> HIDE DEF n
<1>13. Len(executions') = Len(events') /\ Len(deliveries') = Len(events')
  BY <1>4, <1>5, <1>6
<1>14. Tables'
  BY <1>4, <1>5, <1>6, <1>11, <1>13 DEF Tables
<1> QED BY <1>9, <1>12, <1>14

\* One event is marked, or an attempt at it counted.
LEMMA MarkTables ==
  ASSUME Tables, NEW e \in DOMAIN events, NEW x \in Event, x.depth = events[e].depth,
         x.done => deliveries[e].status # "NONE",
         events' = [events EXCEPT ![e] = x], UNCHANGED <<executions, deliveries>>
  PROVE  /\ Tables' /\ DOMAIN events' = DOMAIN events
         /\ events'[e] = x /\ \A d \in DOMAIN events \ {e} : events'[d] = events[d]
<1>1. DOMAIN events = 1 .. Len(events) /\ events \in Seq(Event)
  BY DEF Tables
<1>2. /\ events' \in Seq(Event) /\ Len(events') = Len(events) /\ DOMAIN events' = DOMAIN events
      /\ events'[e] = x /\ \A d \in DOMAIN events \ {e} : events'[d] = events[d]
  BY <1>1
<1>3. ASSUME NEW d \in DOMAIN events'
      PROVE  /\ events'[d].done => deliveries'[d].status # "NONE"
             /\ events'[d].depth = 1 => executions'[d] = <<>>
             /\ deliveries'[d].status \in {"NONE", "PENDING"} => deliveries'[d].attempts < MaxPosts
  <2>1. CASE d = e BY <1>2, <2>1 DEF Tables
  <2>2. CASE d # e BY <1>2, <2>2 DEF Tables
  <2> QED BY <2>1, <2>2
<1>4. /\ executions' \in Seq(Records) /\ deliveries' \in Seq(Delivery)
      /\ Len(executions') = Len(events') /\ Len(deliveries') = Len(events')
  BY <1>2 DEF Tables
<1>5. Tables'
  BY <1>2, <1>3, <1>4 DEF Tables
<1> QED BY <1>2, <1>5

\* One delivery is filed, or an attempt at it written.
LEMMA FileTables ==
  ASSUME Tables, NEW e \in DOMAIN events, NEW x \in Delivery, x.status # "NONE",
         x.status = "PENDING" => x.attempts < MaxPosts,
         deliveries' = [deliveries EXCEPT ![e] = x], UNCHANGED <<executions, events>>
  PROVE  /\ Tables'
         /\ deliveries'[e] = x /\ \A d \in DOMAIN events \ {e} : deliveries'[d] = deliveries[d]
<1>1. DOMAIN deliveries = DOMAIN events /\ DOMAIN events = 1 .. Len(events)
  BY Domains
<1>2. /\ deliveries' \in Seq(Delivery) /\ Len(deliveries') = Len(deliveries)
      /\ deliveries'[e] = x /\ \A d \in DOMAIN events \ {e} : deliveries'[d] = deliveries[d]
  BY <1>1 DEF Tables
<1>3. ASSUME NEW d \in DOMAIN events
      PROVE  /\ events[d].done => deliveries'[d].status # "NONE"
             /\ events[d].depth = 1 => executions[d] = <<>>
             /\ deliveries'[d].status \in {"NONE", "PENDING"} => deliveries'[d].attempts < MaxPosts
  <2>1. CASE d = e BY <1>2, <2>1 DEF Tables
  <2>2. CASE d # e BY <1>2, <2>2 DEF Tables
  <2> QED BY <2>1, <2>2
<1>4. Tables'
  BY <1>2, <1>3 DEF Tables
<1> QED BY <1>2, <1>4

\* One rule is recorded on an event that a person raised.
LEMMA WriteTables ==
  ASSUME Tables, NEW e \in DOMAIN events, events[e].depth = 0, NEW r \in Rules,
         NEW outcome \in Outcomes, Write(r, e, outcome), UNCHANGED <<events, deliveries>>
  PROVE  /\ Tables'
         /\ DOMAIN executions' = DOMAIN executions
         /\ \A d \in DOMAIN executions \ {e} : executions'[d] = executions[d]
         /\ DOMAIN executions'[e] = DOMAIN executions[e] \cup {r}
         /\ \A q \in DOMAIN executions[e] : executions'[e][q] = executions[e][q]
         /\ r \notin DOMAIN executions[e] => executions'[e][r] = outcome
<1> DEFINE old == executions[e]
           new == [q \in DOMAIN old \cup {r} |-> IF q \in DOMAIN old THEN old[q] ELSE outcome]
<1>1. DOMAIN executions = DOMAIN events /\ DOMAIN events = 1 .. Len(events)
  BY Domains
<1>2. executions' = [executions EXCEPT ![e] = new]
  BY Zenon DEF Write
<1>3. old \in Records
  BY <1>1 DEF Tables
<1>4. new \in Records
  <2>1. PICK R \in SUBSET Rules : old \in [R -> Outcomes]
    BY <1>3, Zenon DEF Records
  <2>2. R \cup {r} \in SUBSET Rules /\ new \in [R \cup {r} -> Outcomes]
    BY <2>1
  <2> QED BY <2>2, Zenon DEF Records
<1>5. /\ DOMAIN new = DOMAIN old \cup {r} /\ \A q \in DOMAIN old : new[q] = old[q]
      /\ r \notin DOMAIN old => new[r] = outcome
  OBVIOUS
<1> HIDE DEF old, new
<1>6. /\ executions' \in Seq(Records) /\ Len(executions') = Len(executions)
      /\ DOMAIN executions' = DOMAIN executions /\ executions'[e] = new
      /\ \A d \in DOMAIN executions \ {e} : executions'[d] = executions[d]
  BY <1>1, <1>2, <1>4 DEF Tables
<1>7. ASSUME NEW d \in DOMAIN events
      PROVE  /\ events[d].done => deliveries[d].status # "NONE"
             /\ events[d].depth = 1 => executions'[d] = <<>>
             /\ deliveries[d].status \in {"NONE", "PENDING"} => deliveries[d].attempts < MaxPosts
  <2>1. CASE d = e BY <2>1 DEF Tables
  <2>2. CASE d # e BY <1>1, <1>6, <2>2 DEF Tables
  <2> QED BY <2>1, <2>2
<1>8. Tables'
  BY <1>6, <1>7 DEF Tables
<1> QED BY <1>5, <1>6, <1>8 DEF old

-----------------------------------------------------------------------------
(* The shape is kept: one lemma for each action.                            *)

\* What the worker has in hand is not disturbed by what happens beside it.
LEMMA SameHand ==
  ASSUME InHand, UNCHANGED worker, \A e \in DOMAIN events : e \in DOMAIN events' /\ Same(e)
  PROVE  InHand'
<1>1. CASE worker.at = "idle" BY <1>1 DEF InHand
<1>2. CASE worker.at # "idle"
  <2>1. worker.event \in DOMAIN events BY <1>2 DEF InHand
  <2> QED BY <2>1 DEF InHand, Same
<1> QED BY <1>1, <1>2

LEMMA IdleHand == ASSUME worker' = Idle PROVE Worker' /\ InHand'
<1>1. worker'.at = "idle"
  BY DEF Idle
<1> QED BY <1>1 DEF Worker, InHand

LEMMA UntouchedTables ==
  ASSUME Tables, UNCHANGED <<events, executions, deliveries>>
  PROVE  Tables' /\ \A e \in DOMAIN events : e \in DOMAIN events' /\ Same(e)
  BY DEF Tables, Same

LEMMA TaskFields ==
  ASSUME World
  PROVE  task.status \in Statuses /\ task.version \in Nat
  BY DEF World

LEMMA NewTask ==
  ASSUME NEW status \in Statuses, NEW version \in Nat
  PROVE  [status |-> status, version |-> version] \in [status : Statuses, version : Nat]
  OBVIOUS

LEMMA PersonMovesShape == ASSUME Shape, NEW s \in Statuses, PersonMoves(s) PROVE Shape'
<1>1. Raise(0) /\ UNCHANGED worker
  BY DEF PersonMoves
<1>2. Tables' /\ \A e \in DOMAIN events : e \in DOMAIN events' /\ Same(e)
  BY <1>1, RaiseTables DEF Shape
<1>3. task.version + 1 \in Nat
  BY TaskFields DEF Shape
<1>4. World'
  BY <1>3, NewTask DEF PersonMoves, Shape, World
<1>5. InHand' /\ Worker'
  BY <1>1, <1>2, SameHand DEF Shape, Worker
<1> QED BY <1>2, <1>4, <1>5 DEF Shape

LEMMA BesidesShape ==
  ASSUME Shape, World', UNCHANGED <<events, executions, deliveries, worker>>
  PROVE  Shape'
<1>1. Tables' /\ \A e \in DOMAIN events : e \in DOMAIN events' /\ Same(e)
  BY UntouchedTables DEF Shape
<1>2. InHand' /\ Worker'
  BY <1>1, SameHand DEF Shape, Worker
<1> QED BY <1>1, <1>2 DEF Shape

LEMMA PersonTouchesShape == ASSUME Shape, PersonTouches PROVE Shape'
<1>1. task' = [task EXCEPT !.version = task.version + 1]
  BY Zenon DEF PersonTouches
<1>2. task.version + 1 \in Nat
  BY TaskFields DEF Shape
<1>3. task' \in [status : Statuses, version : Nat]
  BY <1>1, <1>2 DEF Shape, World
<1>4. World'
  BY <1>3 DEF PersonTouches, Shape, World
<1> QED BY <1>4, BesidesShape DEF PersonTouches

LEMMA EditRuleShape ==
  ASSUME Shape, NEW r \in Rules, NEW u \in Users, NEW active \in BOOLEAN, EditRule(r, u, active)
  PROVE  Shape'
<1>1. [owner |-> u, active |-> active] \in [owner : Users, active : BOOLEAN]
  OBVIOUS
<1>2. rules' \in [Rules -> [owner : Users, active : BOOLEAN]]
  BY <1>1 DEF EditRule, Shape, World
<1>3. World'
  BY <1>2 DEF EditRule, Shape, World
<1> QED BY <1>3, BesidesShape DEF EditRule

LEMMA ChangeRoleShape ==
  ASSUME Shape, NEW u \in Users, NEW s \in Standings, ChangeRole(u, s)
  PROVE  Shape'
<1>1. World'
  BY DEF ChangeRole, Shape, World
<1> QED BY <1>1, BesidesShape DEF ChangeRole

LEMMA TakeShape == ASSUME Shape, NEW e \in DOMAIN events, Take(e) PROVE Shape'
<1> DEFINE todo == IF events[e].depth = 0
                   THEN {[rule |-> r, owner |-> rules[r].owner] : r \in {q \in Rules : rules[q].active}}
                   ELSE {}
<1>1. worker' = [at |-> "rules", event |-> e, sight |-> task.status, todo |-> todo]
  BY Zenon DEF Take
<1>2. todo \in Todos
  <2>1. \A r \in Rules : rules[r].owner \in Users
    BY DEF Shape, World
  <2> QED BY <2>1 DEF Todos
<1>3. events[e].depth = 1 => todo = {}
  OBVIOUS
<1> HIDE DEF todo
<1>4. e \in Nat
  BY Domains DEF Shape
<1>5. worker' \in Reading /\ worker'.at = "rules" /\ worker'.event = e /\ worker'.todo = todo
  BY <1>1, <1>2, <1>4, TaskFields DEF Shape, Reading, Read
<1>6. Pending(e) /\ UNCHANGED tables
  BY DEF Take
<1>7. events[e].attempts < MaxAttempts
  BY <1>6 DEF Pending
<1>8. UNCHANGED <<task, rules, standing, events, receipts, executions, deliveries, effects>>
  BY <1>6 DEF tables
<1>9. InHand'
  BY <1>3, <1>5, <1>7, <1>8 DEF InHand
<1>10. World' /\ Tables'
  BY <1>8, UntouchedTables DEF Shape, World
<1> QED BY <1>5, <1>9, <1>10 DEF Shape, Worker

\* The worker moves on with the same event, the tables as they are.
LEMMA MovesOnShape ==
  ASSUME Shape, World', UNCHANGED <<events, deliveries, executions>>, Worker',
         worker'.event = worker.event,
         \/ /\ worker.at = "rules" /\ worker'.at = "rules" /\ worker'.todo \subseteq worker.todo
         \/ worker.at = "rules" /\ worker.todo # {} /\ worker'.at = "act"
         \/ worker.at = "act" /\ worker'.at \in {"rules", "act"}
  PROVE  Shape'
<1>1. Tables'
  BY UntouchedTables DEF Shape
<1>2. events[worker.event].depth \in {0, 1}
  BY EventFields DEF Shape, InHand, Tables
<1>3. InHand'
  BY <1>2 DEF InHand, Shape
<1> QED BY <1>1, <1>3 DEF Shape

\* One rule is recorded on the event in hand.
LEMMA WritesShape ==
  ASSUME Shape, World', worker.at \in {"rules", "act"}, events[worker.event].depth = 0,
         NEW r \in Rules, NEW outcome \in Outcomes, Write(r, worker.event, outcome),
         UNCHANGED <<events, deliveries>>, Worker', worker'.event = worker.event, worker'.at = "rules"
  PROVE  Shape'
<1>1. worker.event \in DOMAIN events
  BY DEF Shape, InHand
<1>2. Tables'
  BY <1>1, WriteTables DEF Shape
<1>3. InHand'
  BY DEF InHand, Shape
<1> QED BY <1>2, <1>3 DEF Shape

LEMMA JudgeShape == ASSUME Shape, NEW x \in worker.todo, Judge(x) PROVE Shape'
<1> DEFINE rest == [worker EXCEPT !.todo = @ \ {x}]
<1>1. worker \in Reading /\ worker.at = "rules"
  BY WorkerKinds DEF Judge, Shape, Read
<1>2. x \in [rule : Rules, owner : Users] /\ worker.todo \in Todos
  BY <1>1, ReadingFields DEF Todos
<1>3. x.rule \in Rules /\ x.owner \in Users
  BY <1>2
<1>4. rest \in Reading /\ rest.at = "rules" /\ rest.event = worker.event
      /\ rest.todo = worker.todo \ {x}
  <2> DEFINE less == worker.todo \ {x}
  <2>1. less \in Todos
    BY <1>2 DEF Todos
  <2>2. rest = [worker EXCEPT !.todo = less]
    BY Zenon
  <2> HIDE DEF less, rest
  <2>3. rest \in Reading /\ rest.at = worker.at /\ rest.event = worker.event /\ rest.todo = less
    BY <1>1, <2>1, <2>2, ReadingField, Zenon
  <2> QED BY <1>1, <2>3 DEF less
<1> HIDE DEF rest
<1>5. World' /\ UNCHANGED <<events, deliveries>>
  BY DEF Judge, Shape, World
<1>6. events[worker.event].depth = 0
  <2>1. worker.event \in DOMAIN events /\ events[worker.event].depth # 1
    BY <1>1 DEF Shape, InHand
  <2> QED BY <2>1, EventFields DEF Shape, Tables
<1>7. CASE worker' = rest /\ UNCHANGED executions
  BY <1>1, <1>4, <1>5, <1>7, MovesOnShape DEF Worker
<1>8. CASE worker' = rest /\ Write(x.rule, worker.event, "FAILED")
  BY <1>1, <1>3, <1>4, <1>5, <1>6, <1>8, WritesShape DEF Worker, Outcomes
<1>9. CASE /\ worker' = [at |-> "act", event |-> worker.event, sight |-> worker.sight, todo |-> rest.todo,
                         rule |-> x.rule, by |-> x.owner, index |-> 1, seen |-> 0, failed |-> FALSE]
           /\ UNCHANGED executions
  <2>1. rest.todo \in Todos /\ worker.event \in Nat /\ worker.sight \in Statuses
    BY <1>1, <1>4, ReadingFields
  <2>2. "act" \in Work /\ 1 \in Positive
    BY DEF Work, Positive
  <2>3. worker' \in Working
    BY <1>3, <1>9, <2>1, <2>2 DEF Working
  <2>4. worker'.at = "act" /\ worker'.event = worker.event
    BY <1>9
  <2>5. worker.todo # {}
    OBVIOUS
  <2> QED BY <1>1, <1>5, <1>9, <2>3, <2>4, <2>5, MovesOnShape DEF Worker
<1> QED BY <1>7, <1>8, <1>9, Zenon DEF Judge, rest

-----------------------------------------------------------------------------
(* The requests of one rule.                                                *)

LEMMA ActingFields ==
  ASSUME Shape, Acting
  PROVE  /\ worker \in Working /\ worker.at = "act"
         /\ Key \in Effect
         /\ Key.event = worker.event /\ Key.rule = worker.rule /\ Key.index = worker.index
         /\ Key.by = worker.by
         /\ Action.kind \in {"move", "remark", "notify"} /\ Action.to \in Statuses
<1>1. worker \in Working /\ worker.at = "act"
  BY WorkerKinds DEF Acting, Shape, Work
<1>2. /\ worker.event \in Nat /\ worker.rule \in Rules /\ worker.by \in Users
      /\ worker.index \in Positive
  BY <1>1, WorkingFields
<1>3. Key \in Effect
  BY <1>2 DEF Key, Effect, Positive
<1>4. Does[worker.rule] \in Seq([kind : {"move", "remark", "notify"}, to : Statuses])
  BY <1>2, AutomationConstants
<1>5. Action \in [kind : {"move", "remark", "notify"}, to : Statuses]
  <2> DEFINE does == Does[worker.rule]
  <2>1. worker.index \in Nat /\ 0 < worker.index /\ worker.index <= Len(does)
    BY <1>2 DEF Acting, Positive
  <2>2. Action = does[worker.index]
    BY DEF Action
  <2> DEFINE S == [kind : {"move", "remark", "notify"}, to : Statuses]
  <2>3. does \in Seq(S)
    BY <1>4
  <2> HIDE DEF does, S
  <2>4. does[worker.index] \in S
    BY <2>1, <2>3
  <2> QED BY <2>2, <2>4 DEF S
<1> QED BY <1>1, <1>3, <1>5 DEF Key

LEMMA CommitShape ==
  ASSUME Shape, Acting, Commit
  PROVE  World' /\ Tables' /\ \A e \in DOMAIN events : e \in DOMAIN events' /\ Same(e)
<1>1. receipts' \subseteq Effect /\ effects' \in Seq(Effect)
  <2>1. receipts \subseteq Effect /\ effects \in Seq(Effect)
    BY DEF Shape, World
  <2>2. Append(effects, Key) \in Seq(Effect)
    BY <2>1, ActingFields
  <2> QED BY <2>1, <2>2, ActingFields DEF Commit
<1>2. UNCHANGED <<rules, standing>>
  BY DEF Commit
<1>3. CASE Action.kind = "move"
  <2>1. Raise(1)
    BY <1>3 DEF Commit
  <2>2. task.version + 1 \in Nat /\ Action.to \in Statuses
    BY TaskFields, ActingFields DEF Shape
  <2>3. task' = [status |-> Action.to, version |-> task.version + 1]
    BY <1>3 DEF Commit
  <2>4. World'
    BY <1>1, <1>2, <2>2, <2>3, NewTask DEF Shape, World
  <2> QED BY <2>1, <2>4, RaiseTables DEF Shape
<1>4. CASE Action.kind # "move"
  <2>1. UNCHANGED <<task, events, deliveries, executions>>
    BY <1>4 DEF Commit
  <2>2. World'
    BY <1>1, <1>2, <2>1 DEF Shape, World
  <2> QED BY <2>1, <2>2, UntouchedTables DEF Shape
<1> QED BY <1>3, <1>4

\* The worker stays with the rule while the tables grow.
LEMMA StaysShape ==
  ASSUME Shape, World', Tables', \A e \in DOMAIN events : e \in DOMAIN events' /\ Same(e),
         worker.at = "act", worker' \in Working, worker'.event = worker.event
  PROVE  Shape'
<1>1. worker'.at \in Work
  BY WorkingFields
<1>2. worker.event \in DOMAIN events
  BY DEF Shape, InHand
<1>3. events'[worker.event] = events[worker.event] /\ worker.event \in DOMAIN events'
  BY <1>2 DEF Same
<1>4. InHand'
  BY <1>1, <1>3 DEF InHand, Shape, Work
<1> QED BY <1>4 DEF Shape, Worker

LEMMA UntouchedWorld ==
  ASSUME World, UNCHANGED tables
  PROVE  World'
  BY DEF World, tables

LEMMA LookShape == ASSUME Shape, Look PROVE Shape'
<1>1. worker \in Working /\ worker.at = "act"
  BY ActingFields DEF Look
<1> DEFINE seen == task.version
<1>2. seen \in Nat
  BY TaskFields DEF Shape
<1>3. worker' = [worker EXCEPT !.seen = seen]
  BY Zenon DEF Look
<1> HIDE DEF seen
<1>4. worker' \in Working /\ worker'.event = worker.event
  BY <1>1, <1>2, <1>3, WorkingField, Zenon DEF SameRule
<1>5. UNCHANGED <<events, executions, deliveries>> /\ World'
  BY UntouchedWorld DEF Look, tables, Shape
<1> QED BY <1>1, <1>4, <1>5, UntouchedTables, StaysShape DEF Shape

LEMMA ActShape == ASSUME Shape, Act PROVE Shape'
<1>1. worker \in Working /\ worker.at = "act" /\ Acting
  BY ActingFields DEF Act
<1>2. Turn \in Working /\ Turn.event = worker.event
  BY <1>1, TurnFields DEF SameRule
<1>3. CASE Commit /\ worker' = Turn
  BY <1>1, <1>2, <1>3, CommitShape, StaysShape
<1>4. CASE worker' = Turn /\ UNCHANGED tables
  <2>1. UNCHANGED <<events, executions, deliveries>> /\ World'
    BY <1>4, UntouchedWorld DEF tables, Shape
  <2> QED BY <1>1, <1>2, <1>4, <2>1, UntouchedTables, StaysShape DEF Shape
<1>5. CASE worker' = [worker EXCEPT !.failed = TRUE] /\ UNCHANGED tables
  <2>1. UNCHANGED <<events, executions, deliveries>> /\ World'
    BY <1>5, UntouchedWorld DEF tables, Shape
  <2>2. worker' \in Working /\ worker'.event = worker.event
    BY <1>1, <1>5, WorkingField, Zenon DEF SameRule
  <2> QED BY <1>1, <2>1, <2>2, UntouchedTables, StaysShape DEF Shape
<1> QED BY <1>3, <1>4, <1>5, Zenon DEF Act

LEMMA LoseAnswerShape == ASSUME Shape, LoseAnswer PROVE Shape'
<1>1. worker \in Working /\ worker.at = "act" /\ Acting /\ Commit
  BY ActingFields DEF LoseAnswer
<1>2. worker' = [worker EXCEPT !.at = "lost"]
  BY Zenon DEF LoseAnswer
<1>3. worker' \in Working /\ worker'.event = worker.event
  BY <1>1, <1>2, WorkingField, Zenon DEF SameRule
<1> QED BY <1>1, <1>3, CommitShape, StaysShape

LEMMA RecordShape == ASSUME Shape, Record PROVE Shape'
<1>1. worker \in Working /\ worker.at = "act"
  BY WorkerKinds DEF Record, Shape, Work
<1>2. /\ worker.event \in Nat /\ worker.sight \in Statuses /\ worker.todo \in Todos
      /\ worker.rule \in Rules
  BY <1>1, WorkingFields
<1>3. "rules" \in Read
  BY DEF Read
<1>4. worker' = [at |-> "rules", event |-> worker.event, sight |-> worker.sight, todo |-> worker.todo]
  BY Zenon DEF Record
<1>5. worker' \in Reading /\ worker'.at = "rules" /\ worker'.event = worker.event
  BY <1>2, <1>3, <1>4 DEF Reading
<1>6. World' /\ UNCHANGED <<events, deliveries>>
  BY DEF Record, Shape, World
<1>7. events[worker.event].depth = 0
  BY <1>1 DEF Shape, InHand
<1>8. PICK outcome \in Outcomes : Write(worker.rule, worker.event, outcome)
  BY DEF Record, Outcomes
<1> QED BY <1>1, <1>2, <1>5, <1>6, <1>7, <1>8, WritesShape DEF Worker

-----------------------------------------------------------------------------
(* The end of an event, and its delivery.                                   *)

LEMMA MarkedEvent ==
  ASSUME NEW x \in Event
  PROVE  /\ [x EXCEPT !.done = TRUE] \in Event /\ [x EXCEPT !.done = TRUE].depth = x.depth
         /\ x.attempts < MaxAttempts =>
              LET y == [x EXCEPT !.attempts = @ + 1]
              IN  y \in Event /\ y.depth = x.depth /\ y.done = x.done
<1>1. [x EXCEPT !.done = TRUE].depth = x.depth
  BY SMT DEF Event
<1>2. ASSUME NEW f \in BOOLEAN PROVE [x EXCEPT !.done = f] \in Event
  BY SMT DEF Event
<1>3. ASSUME x.attempts < MaxAttempts
      PROVE  LET y == [x EXCEPT !.attempts = @ + 1]
             IN  y \in Event /\ y.depth = x.depth /\ y.done = x.done
  <2> DEFINE n == x.attempts + 1
             y == [x EXCEPT !.attempts = n]
  <2>1. n \in 0 .. MaxAttempts
    BY <1>3, EventFields, AutomationConstants
  <2> HIDE DEF n
  <2>2. y \in Event
    BY <2>1, SMT DEF Event
  <2>3. y.depth = x.depth /\ y.done = x.done
    BY SMT DEF Event
  <2> QED BY <2>2, <2>3, Zenon DEF n
<1> QED BY <1>1, <1>2, <1>3, Zenon

LEMMA FinishShape == ASSUME Shape, Finish PROVE Shape'
<1>1. worker \in Reading /\ worker.event \in DOMAIN events
  BY WorkerKinds DEF Finish, Shape, InHand, Read
<1> DEFINE e == worker.event
<1>2. World'
  BY DEF Finish, Shape, World
<1>3. ASSUME worker.at = "rules", worker' = [worker EXCEPT !.at = "filed"],
             deliveries' = [deliveries EXCEPT ![worker.event] =
                              IF @.status = "NONE" THEN [status |-> "PENDING", attempts |-> 0] ELSE @],
             UNCHANGED <<events, executions>>
      PROVE  Shape'
  <2> DEFINE x == IF deliveries[e].status = "NONE" THEN [status |-> "PENDING", attempts |-> 0]
                  ELSE deliveries[e]
  <2>1. deliveries' = [deliveries EXCEPT ![e] = x]
    BY <1>3, Zenon
  <2>2. deliveries[e] \in Delivery
    BY <1>1, Domains DEF Shape, Tables
  <2>3. x \in Delivery /\ x.status # "NONE" /\ (x.status = "PENDING" => x.attempts < MaxPosts)
    <3>1. 0 \in 0 .. MaxPosts /\ 0 < MaxPosts
      BY AutomationConstants
    <3>2. deliveries[e].status = "PENDING" => deliveries[e].attempts < MaxPosts
      BY <1>1 DEF Shape, Tables
    <3> QED BY <2>2, <3>1, <3>2 DEF Delivery
  <2> HIDE DEF x
  <2>4. Tables' /\ deliveries'[e] = x
    BY <1>1, <1>3, <2>1, <2>3, FileTables DEF Shape
  <2>5. worker' \in Reading /\ worker'.at = "filed" /\ worker'.event = e
    <3>1. "filed" \in Read
      BY DEF Read
    <3> QED BY <1>1, <1>3, <3>1, ReadingField, Zenon
  <2>6. InHand'
    BY <1>1, <1>3, <2>3, <2>4, <2>5 DEF InHand, Shape
  <2> QED BY <1>2, <2>4, <2>5, <2>6 DEF Shape, Worker
<1>4. ASSUME worker.at = "filed", worker' = Idle,
             events' = [events EXCEPT ![worker.event].done = TRUE],
             UNCHANGED <<deliveries, executions>>
      PROVE  Shape'
  <2> DEFINE x == [events[e] EXCEPT !.done = TRUE]
  <2>1. events' = [events EXCEPT ![e] = x]
    BY <1>4, Zenon
  <2>2. x \in Event /\ x.depth = events[e].depth
    <3>1. events[e] \in Event
      BY <1>1 DEF Shape, Tables
    <3> QED BY <3>1, MarkedEvent, Zenon
  <2>3. deliveries[e].status # "NONE"
    BY <1>4 DEF Shape, InHand
  <2> HIDE DEF x
  <2>4. Tables'
    BY <1>1, <1>4, <2>1, <2>2, <2>3, MarkTables DEF Shape
  <2> QED BY <1>2, <1>4, <2>4, IdleHand DEF Shape
<1> QED BY <1>3, <1>4, Zenon DEF Finish

LEMMA PutOffShape == ASSUME Shape, PutOff PROVE Shape'
<1> DEFINE e == worker.event
           x == [events[e] EXCEPT !.attempts = @ + 1]
<1>1. e \in DOMAIN events /\ events[e].attempts < MaxAttempts
  BY DEF PutOff, Shape, InHand
<1>2. events' = [events EXCEPT ![e] = x]
  BY Zenon DEF PutOff
<1>3. events[e] \in Event
  BY <1>1 DEF Shape, Tables
<1>4. x \in Event /\ x.depth = events[e].depth /\ x.done = events[e].done
  BY <1>1, <1>3, MarkedEvent, Zenon
<1> HIDE DEF x
<1>5. x.done => deliveries[e].status # "NONE"
  BY <1>1, <1>4 DEF Shape, Tables
<1>6. UNCHANGED <<executions, deliveries>> /\ worker' = Idle
  BY DEF PutOff
<1>7. Tables'
  BY <1>1, <1>2, <1>4, <1>5, <1>6, MarkTables DEF Shape
<1>8. World'
  BY DEF PutOff, Shape, World
<1> QED BY <1>6, <1>7, <1>8, IdleHand DEF Shape

LEMMA PostShape == ASSUME Shape, NEW e \in DOMAIN events, Post(e) PROVE Shape'
<1>1. PICK ok \in BOOLEAN : worker' = [at |-> "posted", event |-> e, ok |-> ok]
  BY DEF Post
<1>2. e \in Nat
  BY Domains DEF Shape
<1>3. worker' \in Posting
  BY <1>1, <1>2 DEF Posting
<1>4. worker'.at = "posted" /\ worker'.event = e
  BY <1>1
<1>5. World' /\ UNCHANGED <<events, executions, deliveries>> /\ deliveries[e].status = "PENDING"
  BY DEF Post, Shape, World
<1>6. InHand'
  BY <1>4, <1>5 DEF InHand
<1>7. Tables'
  BY <1>5, UntouchedTables DEF Shape
<1> QED BY <1>3, <1>5, <1>6, <1>7 DEF Shape, Worker

LEMMA SettleShape == ASSUME Shape, Settle PROVE Shape'
<1> DEFINE e == worker.event
           x == [status |-> IF worker.ok THEN "DELIVERED"
                            ELSE IF deliveries[e].attempts >= MaxPosts - 1 THEN "FAILED" ELSE "PENDING",
                 attempts |-> deliveries[e].attempts + 1]
<1>1. e \in DOMAIN events /\ deliveries[e].status = "PENDING"
  BY DEF Settle, Shape, InHand
<1>2. deliveries' = [deliveries EXCEPT ![e] = x]
  BY Zenon DEF Settle
<1>3. deliveries[e] \in Delivery /\ deliveries[e].attempts < MaxPosts
  BY <1>1, Domains DEF Shape, Tables
<1>4. deliveries[e].attempts \in Nat /\ MaxPosts \in Nat
  BY <1>3, DeliveryFields, AutomationConstants
<1>5. x \in Delivery /\ x.status # "NONE" /\ (x.status = "PENDING" => x.attempts < MaxPosts)
  <2>1. deliveries[e].attempts + 1 \in 0 .. MaxPosts
    BY <1>3, <1>4
  <2>2. x.status = "PENDING" => deliveries[e].attempts + 1 < MaxPosts
    BY <1>4
  <2>3. x.status \in {"PENDING", "DELIVERED", "FAILED"} /\ x.attempts = deliveries[e].attempts + 1
    OBVIOUS
  <2> QED BY <2>1, <2>2, <2>3 DEF Delivery
<1> HIDE DEF x
<1>6. UNCHANGED <<events, executions>> /\ worker' = Idle
  BY DEF Settle
<1>7. Tables'
  BY <1>1, <1>2, <1>5, <1>6, FileTables DEF Shape
<1>8. World'
  BY DEF Settle, Shape, World
<1> QED BY <1>6, <1>7, <1>8, IdleHand DEF Shape

LEMMA DieShape == ASSUME Shape, Die PROVE Shape'
<1>1. UNCHANGED tables /\ worker' = Idle
  BY DEF Die
<1>2. Tables' /\ World'
  BY <1>1, UntouchedTables, UntouchedWorld DEF tables, Shape
<1> QED BY <1>1, <1>2, IdleHand DEF Shape

-----------------------------------------------------------------------------
(* What is done: kinds of steps.                                            *)

\* Nothing is done or recorded, and the worker begins no rule and passes no
\* action.
LEMMA QuietDone ==
  ASSUME Done, UNCHANGED <<effects, receipts, executions>>,
         worker'.at = "act" =>
           worker.at = "act" /\ SameRule(worker, worker') /\ worker'.index = worker.index
  PROVE  Done'
<1>1. Receipted' /\ Effected' /\ DoneOnce' /\ InTurn' /\ RecordHonest'
  BY DEF Done, Receipted, Effected, Did, DoneOnce, InTurn, RecordHonest
<1>2. Doing'
  BY DEF Done, Doing, Did, Recorded, SameRule
<1> QED BY <1>1, <1>2 DEF Done

\* A new event has no record.
LEMMA RaisedDone ==
  ASSUME Shape, Done, NEW depth \in {0, 1}, Raise(depth), UNCHANGED <<effects, receipts, worker>>
  PROVE  Done'
<1>1. /\ Tables' /\ \A e \in DOMAIN events : Same(e)
      /\ \A e \in DOMAIN events' \ DOMAIN events : executions'[e] = <<>>
  BY RaiseTables DEF Shape
<1>2. DOMAIN executions' = DOMAIN events' /\ DOMAIN executions = DOMAIN events
  BY <1>1, Domains DEF Shape, Tables
<1>3. RecordHonest'
  <2> SUFFICES ASSUME NEW e \in DOMAIN executions', NEW r \in DOMAIN executions'[e],
                      executions'[e][r] = "SUCCEEDED", NEW k \in DOMAIN Does[r]
               PROVE  Did(e, r, k)'
    BY DEF RecordHonest, Did
  <2>1. CASE e \in DOMAIN events
    <3>1. executions'[e] = executions[e] BY <1>1, <2>1 DEF Same
    <3>2. Did(e, r, k) BY <1>2, <2>1, <3>1 DEF Done, RecordHonest, Did
    <3> QED BY <3>2 DEF Did
  <2>2. CASE e \notin DOMAIN events
    <3>1. executions'[e] = <<>> BY <1>1, <1>2, <2>2
    <3>2. DOMAIN executions'[e] = {} BY <3>1
    <3> QED BY <3>2
  <2> QED BY <2>1, <2>2
<1>4. Doing'
  <2> SUFFICES ASSUME worker.at = "act" PROVE Doing'
    BY DEF Doing
  <2>1. executions'[worker.event] = executions[worker.event]
    BY <1>1 DEF Shape, InHand, Same
  <2> QED BY <2>1 DEF Done, Doing, Did, Recorded
<1>5. Receipted' /\ Effected' /\ DoneOnce' /\ InTurn'
  BY DEF Done, Receipted, Effected, Did, DoneOnce, InTurn
<1> QED BY <1>3, <1>4, <1>5 DEF Done

\* A record is true when it is written.
LEMMA WrittenDone ==
  ASSUME Shape, Done, NEW e \in DOMAIN events, events[e].depth = 0, NEW r \in Rules,
         NEW outcome \in Outcomes, Write(r, e, outcome), ~Recorded(r, e),
         outcome = "SUCCEEDED" => \A k \in DOMAIN Does[r] : Did(e, r, k),
         UNCHANGED <<events, deliveries, effects, receipts>>, worker'.at = "rules"
  PROVE  Done'
<1>1. /\ DOMAIN executions' = DOMAIN executions
      /\ \A d \in DOMAIN executions \ {e} : executions'[d] = executions[d]
      /\ DOMAIN executions'[e] = DOMAIN executions[e] \cup {r}
      /\ \A q \in DOMAIN executions[e] : executions'[e][q] = executions[e][q]
      /\ executions'[e][r] = outcome
  BY WriteTables DEF Shape, Recorded
<1>2. RecordHonest'
  <2> SUFFICES ASSUME NEW d \in DOMAIN executions', NEW q \in DOMAIN executions'[d],
                      executions'[d][q] = "SUCCEEDED", NEW k \in DOMAIN Does[q]
               PROVE  Did(d, q, k)'
    BY DEF RecordHonest, Did
  <2>1. CASE d = e /\ q = r
    <3>1. Did(d, q, k) BY <1>1, <2>1
    <3> QED BY <3>1 DEF Did
  <2>2. CASE ~(d = e /\ q = r)
    <3>1. q \in DOMAIN executions[d] /\ executions'[d][q] = executions[d][q]
      BY <1>1, <2>2
    <3>2. Did(d, q, k) BY <1>1, <3>1 DEF Done, RecordHonest, Did
    <3> QED BY <3>2 DEF Did
  <2> QED BY <2>1, <2>2
<1>3. Receipted' /\ Effected' /\ DoneOnce' /\ InTurn' /\ Doing'
  BY DEF Done, Receipted, Effected, Did, DoneOnce, InTurn, Doing
<1> QED BY <1>2, <1>3 DEF Done

\* What was done before stays done when something more is.
LEMMA Grown ==
  ASSUME effects \in Seq(Effect), NEW x \in Effect, effects' = Append(effects, x)
  PROVE  /\ Len(effects) \in Nat /\ DOMAIN effects = 1 .. Len(effects)
         /\ DOMAIN effects' = 1 .. Len(effects) + 1
         /\ \A i \in DOMAIN effects : i \in DOMAIN effects' /\ effects'[i] = effects[i]
         /\ \A i \in DOMAIN effects' : i \in DOMAIN effects \/ i = Len(effects) + 1
         /\ effects'[Len(effects) + 1] = x
         /\ \A e, r, k : Did(e, r, k) => Did(e, r, k)'
         /\ \A e, r, k : e = x.event /\ r = x.rule /\ k = x.index => Did(e, r, k)'
<1>1. /\ Len(effects) \in Nat /\ DOMAIN effects = 1 .. Len(effects)
      /\ DOMAIN effects' = 1 .. Len(effects) + 1
      /\ \A i \in DOMAIN effects : i \in DOMAIN effects' /\ effects'[i] = effects[i]
      /\ \A i \in DOMAIN effects' : i \in DOMAIN effects \/ i = Len(effects) + 1
      /\ effects'[Len(effects) + 1] = x
  OBVIOUS
<1>2. ASSUME NEW e, NEW r, NEW k, Did(e, r, k) PROVE Did(e, r, k)'
  BY <1>1, <1>2, Zenon DEF Did
<1>3. Len(effects) + 1 \in DOMAIN effects'
  BY <1>1
<1>4. ASSUME NEW e, NEW r, NEW k, e = x.event, r = x.rule, k = x.index PROVE Did(e, r, k)'
  BY <1>1, <1>3, <1>4, Zenon DEF Did
<1> QED BY <1>1, <1>2, <1>4

-----------------------------------------------------------------------------
(* A request that commits.                                                  *)

\* Its effect is new unless it is a notice sent already.
LEMMA CommitEffects ==
  ASSUME Shape, Done, Acting, Commit
  PROVE  /\ Receipted' /\ Effected' /\ DoneOnce' /\ InTurn'
         /\ \A e, r, k : Did(e, r, k) => Did(e, r, k)'
         /\ \A e, r, k : e = worker.event /\ r = worker.rule /\ k = worker.index => Did(e, r, k)'
<1>1. /\ Key \in Effect /\ Key.event = worker.event /\ Key.rule = worker.rule
      /\ Key.index = worker.index /\ Key.by = worker.by /\ worker.at = "act"
  BY ActingFields
<1>2. receipts' = receipts \cup {Key} /\ Key \notin receipts
  BY DEF Commit, Replayed
<1>3. CASE Action.kind = "notify" /\ Noticed
  <2>1. UNCHANGED effects
    BY <1>3 DEF Commit
  <2>2. Did(worker.event, worker.rule, worker.index)
    BY <1>3 DEF Noticed, Did
  <2>3. \A e, r, k : Did(e, r, k) => Did(e, r, k)'
    BY <2>1 DEF Did
  <2>4. Effected'
    BY <1>1, <1>2, <2>1, <2>2 DEF Done, Effected, Did
  <2>5. Receipted' /\ DoneOnce' /\ InTurn'
    BY <1>2, <2>1 DEF Done, Receipted, DoneOnce, InTurn
  <2> QED BY <2>2, <2>3, <2>4, <2>5
<1>4. CASE ~(Action.kind = "notify" /\ Noticed)
  <2> DEFINE n == Len(effects) + 1
  <2>1. effects' = Append(effects, Key) /\ effects \in Seq(Effect)
    BY <1>4 DEF Commit, Shape, World
  <2>2. /\ Len(effects) \in Nat /\ DOMAIN effects = 1 .. Len(effects)
        /\ \A i \in DOMAIN effects : i \in DOMAIN effects' /\ effects'[i] = effects[i]
        /\ \A i \in DOMAIN effects' : i \in DOMAIN effects \/ i = n
        /\ effects'[n] = Key
        /\ \A e, r, k : Did(e, r, k) => Did(e, r, k)'
        /\ \A e, r, k : e = Key.event /\ r = Key.rule /\ k = Key.index => Did(e, r, k)'
    <3>1. PICK x \in Effect : x = Key
      BY <1>1
    <3> QED BY <2>1, <3>1, Grown
  <2> HIDE DEF n
  <2>3. Receipted'
    BY <1>2, <2>2 DEF Done, Receipted
  <2>4. Effected'
    <3> SUFFICES ASSUME NEW x \in receipts' PROVE Did(x.event, x.rule, x.index)'
      BY DEF Effected
    <3>1. CASE x \in receipts BY <2>2, <3>1 DEF Done, Effected
    <3>2. CASE x = Key BY <2>2, <3>2
    <3> QED BY <1>2, <3>1, <3>2
  <2>5. ASSUME NEW i \in DOMAIN effects, effects[i].event = Key.event, effects[i].rule = Key.rule,
               effects[i].index = Key.index
        PROVE  effects[i].by # Key.by /\ Does[Key.rule][Key.index].kind # "notify"
    <3>1. effects[i] # Key
      BY <1>2 DEF Done, Receipted
    <3>2. effects[i] \in Effect
      BY <2>1
    <3>3. effects[i].by # Key.by
      BY <1>1, <2>5, <3>1, <3>2, EffectsEqual
    <3>4. Noticed
      BY <1>1, <2>5 DEF Noticed
    <3>5. Action.kind # "notify"
      BY <1>4, <3>4
    <3> QED BY <1>1, <3>3, <3>5 DEF Action
  <2>6. DoneOnce'
    <3> SUFFICES ASSUME NEW i \in DOMAIN effects', NEW j \in DOMAIN effects', i # j,
                        effects'[i].event = effects'[j].event, effects'[i].rule = effects'[j].rule,
                        effects'[i].index = effects'[j].index
                 PROVE  /\ effects'[i].by # effects'[j].by
                        /\ Does[effects'[i].rule][effects'[i].index].kind # "notify"
      BY Zenon DEF DoneOnce
    <3>1. CASE i \in DOMAIN effects /\ j \in DOMAIN effects
      BY <2>2, <3>1 DEF Done, DoneOnce
    <3>2. CASE i = n /\ j \in DOMAIN effects
      BY <2>2, <2>5, <3>2
    <3>3. CASE j = n /\ i \in DOMAIN effects
      BY <2>2, <2>5, <3>3
    <3> QED BY <2>2, <3>1, <3>2, <3>3
  <2>7. InTurn'
    <3> SUFFICES ASSUME NEW i \in DOMAIN effects', effects'[i].index > 1
                 PROVE  \E j \in 1 .. i - 1 : /\ effects'[j].event = effects'[i].event
                                            /\ effects'[j].rule = effects'[i].rule
                                            /\ effects'[j].index = effects'[i].index - 1
      BY DEF InTurn
    <3>1. CASE i \in DOMAIN effects
      <4>1. PICK j \in 1 .. i - 1 : /\ effects[j].event = effects[i].event
                                    /\ effects[j].rule = effects[i].rule
                                    /\ effects[j].index = effects[i].index - 1
        BY <2>2, <3>1 DEF Done, InTurn
      <4>2. j \in DOMAIN effects
        BY <2>2, <3>1
      <4> QED BY <2>2, <3>1, <4>1, <4>2
    <3>2. CASE i = n
      <4>1. worker.index \in Nat /\ worker.index > 1
        BY <1>1, <2>2, <3>2, ActingFields, WorkingFields DEF Positive
      <4>2. Did(worker.event, worker.rule, worker.index - 1)
        BY <1>1, <4>1 DEF Done, Doing
      <4>3. PICK j \in DOMAIN effects : /\ effects[j].event = worker.event
                                        /\ effects[j].rule = worker.rule
                                        /\ effects[j].index = worker.index - 1
        BY <4>2 DEF Did
      <4>4. j \in 1 .. i - 1
        BY <2>2, <3>2 DEF n
      <4> QED BY <1>1, <2>2, <3>2, <4>3, <4>4
    <3> QED BY <2>2, <3>1, <3>2
  <2> QED BY <1>1, <2>2, <2>3, <2>4, <2>6, <2>7
<1> QED BY <1>3, <1>4

\* Nothing is recorded by it.
LEMMA CommitRecords ==
  ASSUME Shape, Commit
  PROVE  /\ \A e \in DOMAIN executions : e \in DOMAIN executions' /\ executions'[e] = executions[e]
         /\ \A e \in DOMAIN executions' \ DOMAIN executions : executions'[e] = <<>>
<1>1. CASE Action.kind = "move"
  <2>1. Raise(1)
    BY <1>1 DEF Commit
  <2>2. /\ Tables' /\ \A e \in DOMAIN events : e \in DOMAIN events' /\ Same(e)
        /\ \A e \in DOMAIN events' \ DOMAIN events : executions'[e] = <<>>
    BY <2>1, RaiseTables DEF Shape
  <2>3. DOMAIN executions' = DOMAIN events' /\ DOMAIN executions = DOMAIN events
    BY <2>2, Domains DEF Shape, Tables
  <2> QED BY <2>2, <2>3 DEF Same
<1>2. CASE Action.kind # "move"
  BY <1>2 DEF Commit
<1> QED BY <1>1, <1>2

LEMMA CommitDone ==
  ASSUME Shape, Done, Acting, Commit, worker' = Turn \/ worker'.at # "act"
  PROVE  Done'
<1>1. /\ Receipted' /\ Effected' /\ DoneOnce' /\ InTurn'
      /\ \A e, r, k : Did(e, r, k) => Did(e, r, k)'
      /\ \A e, r, k : e = worker.event /\ r = worker.rule /\ k = worker.index => Did(e, r, k)'
  BY CommitEffects
<1>2. /\ \A e \in DOMAIN executions : e \in DOMAIN executions' /\ executions'[e] = executions[e]
      /\ \A e \in DOMAIN executions' \ DOMAIN executions : executions'[e] = <<>>
  BY CommitRecords
<1>3. RecordHonest'
  <2> SUFFICES ASSUME NEW e \in DOMAIN executions', NEW r \in DOMAIN executions'[e],
                      executions'[e][r] = "SUCCEEDED", NEW k \in DOMAIN Does[r]
               PROVE  Did(e, r, k)'
    BY DEF RecordHonest, Did
  <2>1. CASE e \in DOMAIN executions
    <3>1. Did(e, r, k) BY <1>2, <2>1 DEF Done, RecordHonest, Did
    <3> QED BY <1>1, <3>1
  <2>2. CASE e \notin DOMAIN executions
    <3>1. DOMAIN executions'[e] = {} BY <1>2, <2>2
    <3> QED BY <3>1
  <2> QED BY <2>1, <2>2
<1>4. Doing'
  <2> SUFFICES ASSUME worker' = Turn PROVE Doing'
    BY DEF Doing
  <2>1. /\ worker \in Working /\ worker.at = "act"
    BY ActingFields
  <2>2. SameRule(worker, worker') /\ worker'.index = worker.index + 1
    BY <2>1, TurnFields
  <2>3. worker.event \in DOMAIN executions
    BY <2>1, Domains DEF Shape, InHand
  <2>4. ~Recorded(worker.rule, worker.event)'
    BY <1>2, <2>1, <2>2, <2>3 DEF Done, Doing, Recorded, SameRule
  <2>5. ASSUME NEW k \in Nat, 0 < k, k < worker.index + 1
        PROVE  \A e, r : e = worker.event /\ r = worker.rule => Did(e, r, k)'
    <3>1. worker.index \in Nat
      BY <2>1, WorkingFields DEF Positive
    <3>2. CASE k < worker.index
      <4>1. Did(worker.event, worker.rule, k)
        BY <2>1, <2>5, <3>2 DEF Done, Doing
      <4> QED BY <1>1, <4>1
    <3>3. CASE k = worker.index
      BY <1>1, <3>3
    <3> QED BY <2>5, <3>1, <3>2, <3>3
  <2> QED BY <2>2, <2>4, <2>5 DEF Doing, SameRule
<1> QED BY <1>1, <1>3, <1>4 DEF Done

-----------------------------------------------------------------------------
(* What is done: the actions.                                               *)

LEMMA JudgeDone == ASSUME Shape, Done, NEW x \in worker.todo, Judge(x) PROVE Done'
<1> DEFINE rest == [worker EXCEPT !.todo = @ \ {x}]
<1>1. worker \in Reading /\ worker.at = "rules" /\ worker.event \in DOMAIN events
  BY WorkerKinds DEF Judge, Shape, InHand, Read
<1>2. rest.at = "rules"
  BY <1>1, SMT DEF Reading
<1> HIDE DEF rest
<1>3. UNCHANGED <<events, deliveries, effects, receipts>>
  BY DEF Judge
<1>4. x.rule \in Rules /\ events[worker.event].depth = 0
  <2>1. x \in [rule : Rules, owner : Users]
    BY <1>1, ReadingFields DEF Todos
  <2>2. events[worker.event].depth # 1
    BY <1>1 DEF Shape, InHand
  <2> QED BY <1>1, <2>1, <2>2, EventFields DEF Shape, Tables
<1>5. CASE worker' = rest /\ UNCHANGED executions
  BY <1>2, <1>3, <1>5, QuietDone
<1>6. CASE worker' = rest /\ Write(x.rule, worker.event, "FAILED") /\ ~Recorded(x.rule, worker.event)
  <2>1. PICK e \in DOMAIN events, r \in Rules, outcome \in Outcomes :
          e = worker.event /\ r = x.rule /\ outcome = "FAILED"
    BY <1>1, <1>4 DEF Outcomes
  <2>2. Write(r, e, outcome) /\ ~Recorded(r, e)
    BY <1>6, <2>1
  <2> QED BY <1>2, <1>3, <1>4, <1>6, <2>1, <2>2, WrittenDone
<1>7. CASE /\ worker' = [at |-> "act", event |-> worker.event, sight |-> worker.sight, todo |-> rest.todo,
                         rule |-> x.rule, by |-> x.owner, index |-> 1, seen |-> 0, failed |-> FALSE]
           /\ UNCHANGED executions /\ ~Recorded(x.rule, worker.event)
  <2>1. worker'.event = worker.event /\ worker'.rule = x.rule /\ worker'.index = 1
    BY <1>7
  <2>2. Doing'
    BY <1>7, <2>1 DEF Doing, Recorded
  <2>3. Receipted' /\ Effected' /\ DoneOnce' /\ InTurn' /\ RecordHonest'
    BY <1>3, <1>7 DEF Done, Receipted, Effected, Did, DoneOnce, InTurn, RecordHonest
  <2> QED BY <2>2, <2>3 DEF Done
<1> QED BY <1>5, <1>6, <1>7, Zenon DEF Judge, rest

LEMMA LookDone == ASSUME Shape, Done, Look PROVE Done'
<1>1. worker \in Working
  BY ActingFields DEF Look
<1>2. PICK seen \in Nat : worker' = [worker EXCEPT !.seen = seen]
  BY TaskFields, Zenon DEF Look, Shape
<1>3. worker'.at = worker.at /\ SameRule(worker, worker') /\ worker'.index = worker.index
  BY <1>1, <1>2, WorkingField, Zenon
<1> QED BY <1>3, QuietDone DEF Look, tables

LEMMA ActDone == ASSUME Shape, Done, Act PROVE Done'
<1>1. worker \in Working /\ worker.at = "act" /\ Acting
  BY ActingFields DEF Act
<1>2. CASE Commit /\ worker' = Turn
  BY <1>1, <1>2, CommitDone
<1>3. CASE Replayed /\ worker' = Turn /\ UNCHANGED tables
  <2>1. SameRule(worker, worker') /\ worker'.index = worker.index + 1
    BY <1>1, <1>3, TurnFields
  <2>2. UNCHANGED <<effects, receipts, executions>>
    BY <1>3 DEF tables
  <2>3. Did(worker.event, worker.rule, worker.index)
    BY <1>1, <1>3, ActingFields DEF Replayed, Done, Effected
  <2>4. worker.index \in Nat
    BY <1>1, WorkingFields DEF Positive
  <2>5. ASSUME NEW k \in Nat, 0 < k, k < worker.index + 1
        PROVE  Did(worker.event, worker.rule, k)
    <3>1. CASE k < worker.index BY <1>1, <2>5, <3>1 DEF Done, Doing
    <3>2. CASE k = worker.index BY <2>3, <3>2
    <3> QED BY <2>4, <2>5, <3>1, <3>2
  <2>6. Doing'
    BY <1>1, <2>1, <2>2, <2>5 DEF Done, Doing, Recorded, Did, SameRule
  <2>7. Receipted' /\ Effected' /\ DoneOnce' /\ InTurn' /\ RecordHonest'
    BY <2>2 DEF Done, Receipted, Effected, Did, DoneOnce, InTurn, RecordHonest
  <2> QED BY <2>6, <2>7 DEF Done
<1>4. CASE worker' = [worker EXCEPT !.failed = TRUE] /\ UNCHANGED tables
  <2>1. worker'.at = worker.at /\ SameRule(worker, worker') /\ worker'.index = worker.index
    BY <1>1, <1>4, WorkingField, Zenon
  <2> QED BY <1>4, <2>1, QuietDone DEF tables
<1> QED BY <1>2, <1>3, <1>4, Zenon DEF Act

LEMMA LoseAnswerDone == ASSUME Shape, Done, LoseAnswer PROVE Done'
<1>1. worker \in Working /\ Acting /\ Commit
  BY ActingFields DEF LoseAnswer
<1>2. worker' = [worker EXCEPT !.at = "lost"]
  BY Zenon DEF LoseAnswer
<1>3. worker'.at = "lost"
  BY <1>1, <1>2, WorkingField, Zenon
<1> QED BY <1>1, <1>3, CommitDone

\* It has not failed and no action is left, so that all are done.
LEMMA RecordDone == ASSUME Shape, Done, Record PROVE Done'
<1>1. worker \in Working /\ worker.at = "act" /\ ~Acting
  BY WorkerKinds DEF Record, Shape, Work
<1>2. PICK e \in DOMAIN events, r \in Rules : e = worker.event /\ r = worker.rule
  BY <1>1, WorkingFields DEF Shape, InHand
<1>3. PICK outcome \in Outcomes : outcome = IF worker.failed THEN "FAILED" ELSE "SUCCEEDED"
  BY DEF Outcomes
<1>4. Write(r, e, outcome)
  BY <1>2, <1>3 DEF Record
<1>5. events[e].depth = 0 /\ ~Recorded(r, e)
  BY <1>1, <1>2 DEF Shape, InHand, Done, Doing
<1>6. ASSUME outcome = "SUCCEEDED", NEW k \in DOMAIN Does[r] PROVE Did(e, r, k)
  <2>1. ~worker.failed
    BY <1>3, <1>6
  <2>2. worker.index \in Nat /\ Does[r] \in Seq([kind : {"move", "remark", "notify"}, to : Statuses])
    BY <1>1, WorkingFields, AutomationConstants DEF Positive
  <2> DEFINE does == Does[r]
             S == [kind : {"move", "remark", "notify"}, to : Statuses]
  <2>3. ~(worker.index <= Len(does))
    BY <1>1, <1>2, <2>1 DEF Acting
  <2>4. does \in Seq(S) /\ k \in DOMAIN does
    BY <2>2
  <2> HIDE DEF does, S
  <2>5. k \in Nat /\ 0 < k /\ k < worker.index
    BY <2>2, <2>3, <2>4
  <2> QED BY <1>1, <1>2, <2>5 DEF Done, Doing
<1>7. UNCHANGED <<events, deliveries, effects, receipts>> /\ worker'.at = "rules"
  BY DEF Record
<1> QED BY <1>4, <1>5, <1>6, <1>7, WrittenDone

-----------------------------------------------------------------------------
(* The theorems.                                                            *)

LEMMA InitInv == Init => Inv
<1> SUFFICES ASSUME Init PROVE Inv
  OBVIOUS
<1>1. task \in [status : Statuses, version : Nat]
  BY DEF Init
<1>2. rules \in [Rules -> [owner : Users, active : BOOLEAN]]
  BY AutomationConstants DEF Init
<1>3. standing \in [Users -> Standings]
  BY DEF Init, Standings
<1>4. World
  BY <1>1, <1>2, <1>3 DEF Init, World
<1>5. Tables
  BY DEF Init, Tables
<1>6. worker.at = "idle"
  BY DEF Init, Idle
<1>7. Worker /\ InHand
  BY <1>6 DEF Init, Worker, InHand
<1>8. DOMAIN effects = {} /\ receipts = {} /\ DOMAIN executions = {}
  BY DEF Init
<1>9. Done
  BY <1>6, <1>8 DEF Done, Receipted, Effected, DoneOnce, InTurn, RecordHonest, Doing
<1> QED BY <1>4, <1>5, <1>7, <1>9 DEF Inv, Shape

LEMMA NextKeeps == Inv /\ [Next]_vars => Inv'
<1> SUFFICES ASSUME Inv, [Next]_vars PROVE Inv'
  OBVIOUS
<1> USE DEF Inv
<1>1. ASSUME NEW s \in Statuses, PersonMoves(s) PROVE Inv'
  <2>1. Raise(0) /\ UNCHANGED <<effects, receipts, worker>>
    BY <1>1 DEF PersonMoves
  <2> QED BY <1>1, <2>1, PersonMovesShape, RaisedDone
<1>2. CASE PersonTouches
  BY <1>2, PersonTouchesShape, QuietDone DEF PersonTouches, SameRule
<1>3. ASSUME NEW r \in Rules, NEW u \in Users, NEW active \in BOOLEAN, EditRule(r, u, active)
      PROVE  Inv'
  BY <1>3, EditRuleShape, QuietDone DEF EditRule, SameRule
<1>4. ASSUME NEW u \in Users, NEW s \in Standings, ChangeRole(u, s) PROVE Inv'
  BY <1>4, ChangeRoleShape, QuietDone DEF ChangeRole, SameRule
<1>5. ASSUME NEW e \in DOMAIN events, Take(e) PROVE Inv'
  <2>1. worker'.at # "act"
    BY <1>5 DEF Take
  <2> QED BY <1>5, <2>1, TakeShape, QuietDone DEF Take, tables
<1>6. ASSUME NEW x \in worker.todo, Judge(x) PROVE Inv'
  BY <1>6, JudgeShape, JudgeDone
<1>7. CASE Look BY <1>7, LookShape, LookDone
<1>8. CASE Act BY <1>8, ActShape, ActDone
<1>9. CASE Record BY <1>9, RecordShape, RecordDone
<1>10. CASE Finish
  <2>1. worker'.at # "act"
    <3>1. CASE worker' = Idle BY <3>1 DEF Idle
    <3>2. CASE worker.at = "rules" /\ worker' = [worker EXCEPT !.at = "filed"]
      <4>1. worker \in Reading BY <3>2, WorkerKinds DEF Shape, Read
      <4>2. "filed" \in Read BY DEF Read
      <4>3. worker'.at = "filed" BY <3>2, <4>1, <4>2, ReadingField, Zenon
      <4> QED BY <4>3
    <3> QED BY <1>10, <3>1, <3>2, Zenon DEF Finish
  <2> QED BY <1>10, <2>1, FinishShape, QuietDone DEF Finish
<1>11. CASE PutOff
  <2>1. worker'.at # "act"
    BY <1>11 DEF PutOff, Idle
  <2> QED BY <1>11, <2>1, PutOffShape, QuietDone DEF PutOff
<1>12. CASE LoseAnswer BY <1>12, LoseAnswerShape, LoseAnswerDone
<1>13. ASSUME NEW e \in DOMAIN events, Post(e) PROVE Inv'
  <2>1. worker'.at # "act"
    BY <1>13 DEF Post
  <2> QED BY <1>13, <2>1, PostShape, QuietDone DEF Post
<1>14. CASE Settle
  <2>1. worker'.at # "act"
    BY <1>14 DEF Settle, Idle
  <2> QED BY <1>14, <2>1, SettleShape, QuietDone DEF Settle
<1>15. CASE Die
  <2>1. worker'.at # "act"
    BY <1>15 DEF Die, Idle
  <2> QED BY <1>15, <2>1, DieShape, QuietDone DEF Die, tables
<1>16. CASE UNCHANGED vars
  <2>1. World'
    BY <1>16 DEF Shape, World, vars
  <2> QED BY <1>16, <2>1, BesidesShape, QuietDone DEF vars, SameRule
<1>17. CASE People
  BY <1>1, <1>2, <1>3, <1>4, <1>17, Zenon DEF People
<1>18. CASE OnEvent
  BY <1>5, <1>6, <1>7, <1>8, <1>9, <1>10, <1>11, <1>18, Zenon DEF OnEvent
<1>19. CASE OnDelivery
  BY <1>13, <1>14, <1>19, Zenon DEF OnDelivery
<1> QED BY <1>11, <1>12, <1>15, <1>16, <1>17, <1>18, <1>19, Zenon DEF Next

\* The inductive invariant: what the tables and the worker are, and that each
\* effect has its receipt and each receipt its effect.
THEOREM Invariance == Spec => []Inv
  BY InitInv, NextKeeps, PTL DEF Spec

\* The tables keep their shape: no event and no delivery is attempted more often
\* than it may be, and one marked as gone through has its delivery filed.
THEOREM Typing == Spec => []TypeOK
<1>1. ASSUME Inv PROVE TypeOK
  <2>1. Shape
    BY <1>1 DEF Inv
  <2>2. ASSUME NEW e \in DOMAIN events
        PROVE  /\ DOMAIN executions[e] \subseteq Rules
               /\ \A r \in DOMAIN executions[e] : executions[e][r] \in Outcomes
    <3>1. executions[e] \in Records
      BY <2>1, Domains DEF Shape, Tables
    <3>2. PICK R \in SUBSET Rules : executions[e] \in [R -> Outcomes]
      BY <3>1, Zenon DEF Records
    <3> QED BY <3>2
  <2>3. ASSUME NEW e \in DOMAIN events
        PROVE  /\ deliveries[e].status \in {"NONE", "PENDING", "DELIVERED", "FAILED"}
               /\ deliveries[e].attempts \in 0 .. MaxPosts
               /\ events[e].done => deliveries[e].status # "NONE"
               /\ events[e].depth = 1 => executions[e] = <<>>
    <3>1. deliveries[e] \in Delivery
      BY <2>1, Domains DEF Shape, Tables
    <3> QED BY <2>1, <3>1, DeliveryFields DEF Shape, Tables
  <2>4. worker.at \in {"idle", "rules", "act", "lost", "filed", "posted"}
    <3>1. CASE worker = Idle BY <3>1 DEF Idle
    <3>2. CASE worker \in Reading BY <3>2, ReadingFields DEF Read
    <3>3. CASE worker \in Working BY <3>3, WorkingFields DEF Work
    <3>4. CASE worker \in Posting BY <3>4, SMT DEF Posting
    <3> QED BY <2>1, <3>1, <3>2, <3>3, <3>4 DEF Shape, Worker
  <2>5. /\ task \in [status : Statuses, version : Nat]
        /\ rules \in [Rules -> [owner : Users, active : BOOLEAN]]
        /\ standing \in [Users -> Standings]
    BY <2>1 DEF Shape, World
  <2>6. /\ events \in Seq([depth : {0, 1}, done : BOOLEAN, attempts : 0 .. MaxAttempts])
        /\ Len(executions) = Len(events) /\ Len(deliveries) = Len(events)
    BY <2>1 DEF Shape, Tables, Event
  <2> QED BY <2>2, <2>3, <2>4, <2>5, <2>6, Zenon DEF TypeOK
<1> QED BY <1>1, Invariance, PTL

\* No action of a rule is done twice for an event on one owner's behalf, and no
\* notice sent twice, through any failures, lost answers and deaths.
THEOREM NothingTwice == Spec => []DoneOnce
<1>1. Inv => DoneOnce BY DEF Inv, Done
<1> QED BY <1>1, Invariance, PTL

\* A rule's actions are done in their order.
THEOREM OneAfterAnother == Spec => []InTurn
<1>1. Inv => InTurn BY DEF Inv, Done
<1> QED BY <1>1, Invariance, PTL

\* A record that says succeeded is true: every action of the rule was done.
THEOREM RecordsTrue == Spec => []RecordHonest
<1>1. Inv => RecordHonest BY DEF Inv, Done
<1> QED BY <1>1, Invariance, PTL

\* A record stays as it was written, and nothing is done for what is recorded.
Over ==
  \A e \in DOMAIN executions : \A r \in DOMAIN executions[e] :
    /\ r \in DOMAIN executions'[e] /\ executions'[e][r] = executions[e][r]
    /\ \A i \in DOMAIN effects' :
         effects'[i].event = e /\ effects'[i].rule = r => i \in DOMAIN effects

LEMMA QuietOver == ASSUME UNCHANGED <<executions, effects>> PROVE Over
  BY DEF Over

LEMMA RaiseOver ==
  ASSUME Shape, NEW depth \in {0, 1}, Raise(depth), UNCHANGED effects
  PROVE  Over
<1>1. \A e \in DOMAIN events : executions'[e] = executions[e]
  BY RaiseTables DEF Shape, Same
<1>2. DOMAIN executions = DOMAIN events
  BY Domains DEF Shape
<1> QED BY <1>1, <1>2 DEF Over

LEMMA WriteOver ==
  ASSUME Shape, NEW e \in DOMAIN events, events[e].depth = 0, NEW r \in Rules,
         NEW outcome \in Outcomes, Write(r, e, outcome), UNCHANGED <<events, deliveries, effects>>
  PROVE  Over
<1>1. /\ \A d \in DOMAIN executions \ {e} : executions'[d] = executions[d]
      /\ DOMAIN executions'[e] = DOMAIN executions[e] \cup {r}
      /\ \A q \in DOMAIN executions[e] : executions'[e][q] = executions[e][q]
  BY WriteTables DEF Shape
<1> QED BY <1>1 DEF Over

\* What the worker does is of the rule in hand, which is not recorded yet.
LEMMA CommitOver == ASSUME Inv, Acting, Commit PROVE Over
<1>1. \A e \in DOMAIN executions : executions'[e] = executions[e]
  BY CommitRecords DEF Inv
<1>2. /\ Key \in Effect /\ Key.event = worker.event /\ Key.rule = worker.rule
      /\ worker.at = "act"
  BY ActingFields DEF Inv
<1>3. worker.rule \notin DOMAIN executions[worker.event]
  BY <1>2 DEF Inv, Done, Doing, Recorded
<1>4. ASSUME NEW i \in DOMAIN effects', i \notin DOMAIN effects
      PROVE  effects'[i].event = worker.event /\ effects'[i].rule = worker.rule
  <2>1. effects \in Seq(Effect)
    BY DEF Inv, Shape, World
  <2>2. effects' = Append(effects, Key)
    BY <1>4 DEF Commit
  <2>3. effects'[i] = Key
    BY <1>2, <1>4, <2>1, <2>2
  <2> QED BY <1>2, <2>3
<1> QED BY <1>1, <1>3, <1>4 DEF Over

LEMMA JudgeOver == ASSUME Inv, NEW x \in worker.todo, Judge(x) PROVE Over
<1>1. worker \in Reading /\ worker.at = "rules" /\ worker.event \in DOMAIN events
  BY WorkerKinds DEF Judge, Inv, Shape, InHand, Read
<1>2. UNCHANGED <<events, deliveries, effects>>
  BY DEF Judge
<1>3. CASE UNCHANGED executions BY <1>2, <1>3, QuietOver
<1>4. CASE Write(x.rule, worker.event, "FAILED")
  <2>1. x \in [rule : Rules, owner : Users]
    BY <1>1, ReadingFields DEF Todos
  <2>2. events[worker.event].depth # 1
    BY <1>1 DEF Inv, Shape, InHand
  <2>3. events[worker.event].depth = 0
    BY <1>1, <2>2, EventFields DEF Inv, Shape, Tables
  <2>4. PICK e \in DOMAIN events, r \in Rules, outcome \in Outcomes :
          e = worker.event /\ r = x.rule /\ outcome = "FAILED"
    BY <1>1, <2>1 DEF Outcomes
  <2> QED BY <1>2, <1>4, <2>3, <2>4, WriteOver DEF Inv
<1> QED BY <1>3, <1>4, Zenon DEF Judge

LEMMA RecordOver == ASSUME Inv, Record PROVE Over
<1>1. worker \in Working /\ worker.at = "act" /\ worker.event \in DOMAIN events
  BY WorkerKinds DEF Record, Inv, Shape, InHand, Work
<1>2. events[worker.event].depth = 0
  BY <1>1 DEF Inv, Shape, InHand
<1>3. PICK e \in DOMAIN events, r \in Rules : e = worker.event /\ r = worker.rule
  BY <1>1, WorkingFields
<1>4. PICK outcome \in Outcomes : Write(r, e, outcome)
  BY <1>3 DEF Record, Outcomes
<1> QED BY <1>2, <1>3, <1>4, WriteOver DEF Record, Inv

LEMMA NextOver == Inv /\ [Next]_vars => Over
<1> SUFFICES ASSUME Inv, [Next]_vars PROVE Over
  OBVIOUS
<1>1. CASE People
  <2>1. ASSUME NEW s \in Statuses, PersonMoves(s) PROVE Over
    BY <2>1, RaiseOver DEF PersonMoves, Inv
  <2>2. CASE PersonTouches BY <2>2, QuietOver DEF PersonTouches
  <2>3. ASSUME NEW r \in Rules, NEW u \in Users, NEW active \in BOOLEAN, EditRule(r, u, active)
        PROVE  Over
    BY <2>3, QuietOver DEF EditRule
  <2>4. ASSUME NEW u \in Users, NEW s \in Standings, ChangeRole(u, s) PROVE Over
    BY <2>4, QuietOver DEF ChangeRole
  <2> QED BY <1>1, <2>1, <2>2, <2>3, <2>4, Zenon DEF People
<1>2. CASE Act
  <2>1. CASE Commit BY <1>2, <2>1, CommitOver DEF Act
  <2>2. CASE UNCHANGED tables BY <2>2, QuietOver DEF tables
  <2> QED BY <1>2, <2>1, <2>2, Zenon DEF Act
<1>3. CASE PutOff BY <1>3, QuietOver DEF PutOff
<1>4. CASE OnEvent
  <2>1. ASSUME NEW e \in DOMAIN events, Take(e) PROVE Over
    BY <2>1, QuietOver DEF Take, tables
  <2>2. ASSUME NEW x \in worker.todo, Judge(x) PROVE Over BY <2>2, JudgeOver
  <2>3. CASE Look BY <2>3, QuietOver DEF Look, tables
  <2>4. CASE Record BY <2>4, RecordOver
  <2>5. CASE Finish BY <2>5, QuietOver DEF Finish
  <2> QED BY <1>2, <1>3, <1>4, <2>1, <2>2, <2>3, <2>4, <2>5, Zenon DEF OnEvent
<1>5. CASE OnDelivery
  <2>1. ASSUME NEW e \in DOMAIN events, Post(e) PROVE Over BY <2>1, QuietOver DEF Post
  <2>2. CASE Settle BY <2>2, QuietOver DEF Settle
  <2> QED BY <1>5, <2>1, <2>2, Zenon DEF OnDelivery
<1>6. CASE LoseAnswer BY <1>6, CommitOver DEF LoseAnswer
<1>7. CASE Die BY <1>7, QuietOver DEF Die, tables
<1>8. CASE UNCHANGED vars BY <1>8, QuietOver DEF vars
<1> QED BY <1>1, <1>3, <1>4, <1>5, <1>6, <1>7, <1>8, Zenon DEF Next

\* Once a rule is recorded on an event, the record stays and the rule does
\* nothing more for it, whoever owns it by then.
THEOREM WhatIsRecordedIsOver == Spec => RecordedIsOver
<1>1. Inv /\ [Next]_vars => [Over]_vars
  BY NextOver
<1>2. Spec => [][Over]_vars
  BY <1>1, Invariance, PTL DEF Spec
<1>3. Over => \A e \in DOMAIN executions : \A r \in DOMAIN executions[e] :
                /\ r \in DOMAIN executions'[e] /\ executions'[e][r] = executions[e][r]
                /\ \A i \in DOMAIN effects' :
                     effects'[i].event = e /\ effects'[i].rule = r => i \in DOMAIN effects
  BY DEF Over
<1> QED BY <1>2, <1>3, PTL DEF RecordedIsOver
=============================================================================
