----------------------------- MODULE Receipts -----------------------------
(***************************************************************************)
(* How the API applies a write once per idempotency key.                   *)
(*                                                                         *)
(* Every mutating route runs in mutate (common/domain.ts) or mutationRoute *)
(* (common/mutationRoute.ts): one transaction that takes an advisory lock  *)
(* on user and key, looks for a receipt, runs the handler, writes audit    *)
(* and receipt, and commits.  The same key arrives several times at once,  *)
(* on several workers, any of which may die at any point; a commit may     *)
(* stand although its reply was never sent.                                *)
(*                                                                         *)
(* The wrappers differ in two things: mutate writes an audit row for each  *)
(* write, mutationRoute for three URLs only; and a mutationRoute handler   *)
(* may keep what it wrote although it refuses (keepWritesOnRefusal): one   *)
(* does, the attendance punch from a mock location.  What is kept is found *)
(* again by key and employee, and by that handler alone: no receipt stands *)
(* in the way of another route, or of another employee, under that key.    *)
(***************************************************************************)
EXTENDS Naturals

CONSTANTS
  Attempts,   \* requests in flight, each on a connection of its own
  Keys,       \* idempotency keys, with the user they belong to
  Bodies,     \* what can be asked under a key: the request hash
  Employees,  \* those who punch in and out
  Puncher,    \* whose attendance punch a body is, or Nobody's
  Audited,    \* the bodies for which the wrapper writes an audit row
  Nothing,    \* not a body: no receipt
  Nobody      \* not an attempt, nor an employee

ASSUME ReceiptsConstants ==
  /\ Puncher \in [Bodies -> Employees \cup {Nobody}]
  /\ Audited \subseteq Bodies
  /\ Nothing \notin Bodies
  /\ Nobody \notin Attempts \cup Employees

VARIABLES
  request,    \* each attempt's key and body
  phase,      \* how far each attempt has come
  verdict,    \* what it will answer
  buffer,     \* what its transaction has written and not committed
  lock,       \* pg_advisory_xact_lock: who holds each key
  receipts,   \* committed: the body on each key's receipt
  effects,    \* committed: how often each key's work was done
  audits,     \* committed: how many audit rows name each key
  evidence,   \* committed: refused punches kept, by key and employee
  answers     \* history: the answers sent

tables == <<receipts, effects, audits, evidence>>
vars == <<request, phase, verdict, buffer, lock, tables, answers>>

-----------------------------------------------------------------------------
Writes == {"effect", "audit", "receipt", "evidence"}
Phases == {"away", "begun", "locked", "working", "rollback", "commit", "decided"}
Verdicts == {"none", "applied", "mismatch", "refused"}

\* Between BEGIN and COMMIT or ROLLBACK.
Open == {"begun", "locked", "working", "rollback", "commit"}

Key(a) == request[a].key
Body(a) == request[a].body

\* The request is a punch, and one by the same employee was kept as evidence
\* under its key, whatever else that one said.
IsPunch(a) == Puncher[Body(a)] \in Employees
Seen(a) == IsPunch(a) /\ evidence[Key(a)][Puncher[Body(a)]] > 0

\* What a handler's success leaves in its transaction.
Success(a) == {"effect", "receipt"} \cup (IF Body(a) \in Audited THEN {"audit"} ELSE {})

To(a, p) == phase' = [phase EXCEPT ![a] = p]
Will(a, v) == verdict' = [verdict EXCEPT ![a] = v]
Releases(a) == lock' = [k \in Keys |-> IF lock[k] = a THEN Nobody ELSE lock[k]]

-----------------------------------------------------------------------------
\* A connection is taken and BEGIN sent.
Begin(a) ==
  /\ phase[a] = "away"
  /\ \E k \in Keys, b \in Bodies : request' = [request EXCEPT ![a] = [key |-> k, body |-> b]]
  /\ To(a, "begun")
  /\ UNCHANGED <<verdict, buffer, lock, tables, answers>>

\* Waits for the key's advisory lock, held until the transaction ends.
MutNoLock(a) ==
  /\ phase[a] = "begun"
  /\ To(a, "locked")
  /\ UNCHANGED <<request, verdict, buffer, lock, tables, answers>>

Lock(a) ==
  /\ phase[a] = "begun"
  /\ lock[Key(a)] = Nobody
  /\ lock' = [lock EXCEPT ![Key(a)] = a]
  /\ To(a, "locked")
  /\ UNCHANGED <<request, verdict, buffer, tables, answers>>

\* The receipt, if there is one, answers; another body is a reused key.
MutHashNotCompared(a) ==
  /\ phase[a] = "locked"
  /\ IF receipts[Key(a)] = Nothing THEN To(a, "working") /\ UNCHANGED verdict
     ELSE To(a, "commit") /\ Will(a, "applied")
  /\ UNCHANGED <<request, buffer, lock, tables, answers>>

FindReceipt(a) ==
  /\ phase[a] = "locked"
  /\ IF receipts[Key(a)] = Nothing THEN To(a, "working") /\ UNCHANGED verdict
     ELSE IF receipts[Key(a)] = Body(a) THEN To(a, "commit") /\ Will(a, "applied")
     ELSE To(a, "rollback") /\ Will(a, "mismatch")
  /\ UNCHANGED <<request, buffer, lock, tables, answers>>

\* The handler succeeds; its audit row and receipt follow in the transaction.
\* The punch of an employee whose refused punch was kept is refused again.
MutNotSought(a) ==
  /\ phase[a] = "working"
  /\ buffer' = [buffer EXCEPT ![a] = Success(a)]
  /\ To(a, "commit") /\ Will(a, "applied")
  /\ UNCHANGED <<request, lock, tables, answers>>

Work(a) ==
  /\ phase[a] = "working"
  /\ ~Seen(a)
  /\ buffer' = [buffer EXCEPT ![a] = Success(a)]
  /\ To(a, "commit") /\ Will(a, "applied")
  /\ UNCHANGED <<request, lock, tables, answers>>

\* The handler throws, or answers 4xx: whatever it wrote goes.
Refuse(a) ==
  /\ phase[a] = "working"
  /\ To(a, "rollback") /\ Will(a, "refused")
  /\ UNCHANGED <<request, buffer, lock, tables, answers>>

\* It refuses a punch and keeps it as evidence, with no receipt and no audit.
RefuseAndKeep(a) ==
  /\ phase[a] = "working"
  /\ IsPunch(a) /\ ~Seen(a)
  /\ buffer' = [buffer EXCEPT ![a] = {"evidence"}]
  /\ To(a, "commit") /\ Will(a, "refused")
  /\ UNCHANGED <<request, lock, tables, answers>>

Plus(counts, a, write) ==
  IF write \in buffer[a] THEN [counts EXCEPT ![Key(a)] = @ + 1] ELSE counts

Kept(a) ==
  IF "evidence" \in buffer[a]
    THEN [evidence EXCEPT ![Key(a)][Puncher[Body(a)]] = @ + 1] ELSE evidence

\* The transaction ends, the lock is not given back.
MutLockKept(a) ==
  /\ phase[a] = "rollback"
  /\ buffer' = [buffer EXCEPT ![a] = {}]
  /\ To(a, "decided")
  /\ UNCHANGED <<request, verdict, lock, tables, answers>>

MutReceiptHoldsKey(a) ==
  /\ phase[a] = "commit"
  /\ receipts' = IF "receipt" \in buffer[a]
                   THEN [receipts EXCEPT ![Key(a)] = Key(a)] ELSE receipts
  /\ effects' = Plus(effects, a, "effect")
  /\ audits' = Plus(audits, a, "audit")
  /\ evidence' = Kept(a)
  /\ buffer' = [buffer EXCEPT ![a] = {}]
  /\ To(a, "decided") /\ Releases(a)
  /\ UNCHANGED <<request, verdict, answers>>

\* The receipt follows in a transaction of its own.
MutReceiptInItsOwnCommit(a) ==
  /\ phase[a] = "commit"
  /\ effects' = Plus(effects, a, "effect") /\ audits' = Plus(audits, a, "audit")
  /\ evidence' = Kept(a)
  /\ IF "receipt" \in buffer[a] /\ "effect" \in buffer[a]
       THEN /\ buffer' = [buffer EXCEPT ![a] = {"receipt"}]
            /\ UNCHANGED <<receipts, phase, lock>>
       ELSE /\ receipts' = IF "receipt" \in buffer[a]
                             THEN [receipts EXCEPT ![Key(a)] = Body(a)] ELSE receipts
            /\ buffer' = [buffer EXCEPT ![a] = {}]
            /\ To(a, "decided") /\ Releases(a)
  /\ UNCHANGED <<request, verdict, answers>>

\* COMMIT: everything the transaction wrote at once, and the lock with it.
Commit(a) ==
  /\ phase[a] = "commit"
  /\ receipts' = IF "receipt" \in buffer[a]
                   THEN [receipts EXCEPT ![Key(a)] = Body(a)] ELSE receipts
  /\ effects' = Plus(effects, a, "effect")
  /\ audits' = Plus(audits, a, "audit")
  /\ evidence' = Kept(a)
  /\ buffer' = [buffer EXCEPT ![a] = {}]
  /\ To(a, "decided") /\ Releases(a)
  /\ UNCHANGED <<request, verdict, answers>>

Rollback(a) ==
  /\ phase[a] = "rollback"
  /\ buffer' = [buffer EXCEPT ![a] = {}]
  /\ To(a, "decided") /\ Releases(a)
  /\ UNCHANGED <<request, verdict, tables, answers>>

\* The answer goes out, or the worker or the network loses it; the connection
\* is free for another attempt either way.
Answer(a) ==
  /\ phase[a] = "decided"
  /\ answers' \in {answers, answers \cup {<<Key(a), Body(a), verdict[a]>>}}
  /\ To(a, "away") /\ Will(a, "none")
  /\ UNCHANGED <<request, buffer, lock, tables>>

\* The worker dies in mid-transaction: the database rolls it back.
Die(a) ==
  /\ phase[a] \in Open
  /\ buffer' = [buffer EXCEPT ![a] = {}]
  /\ To(a, "away") /\ Will(a, "none") /\ Releases(a)
  /\ UNCHANGED <<request, tables, answers>>

-----------------------------------------------------------------------------
Init ==
  /\ request \in [Attempts -> [key : Keys, body : Bodies]]
  /\ phase = [a \in Attempts |-> "away"]
  /\ verdict = [a \in Attempts |-> "none"]
  /\ buffer = [a \in Attempts |-> {}]
  /\ lock = [k \in Keys |-> Nobody]
  /\ receipts = [k \in Keys |-> Nothing]
  /\ effects = [k \in Keys |-> 0]
  /\ audits = [k \in Keys |-> 0]
  /\ evidence = [k \in Keys |-> [e \in Employees |-> 0]]
  /\ answers = {}

Step(a) ==
  \/ Begin(a) \/ Lock(a) \/ FindReceipt(a) \/ Work(a) \/ Refuse(a) \/ RefuseAndKeep(a)
  \/ Commit(a) \/ Rollback(a) \/ Answer(a) \/ Die(a)

Next == \E a \in Attempts : Step(a)

Spec == Init /\ [][Next]_vars

\* A worker that lives finishes the request it has; which way its handler
\* decides is its own affair, that it decides is not.
Fairness ==
  \A a \in Attempts :
    /\ SF_vars(Lock(a))
    /\ WF_vars(FindReceipt(a)) /\ WF_vars(Work(a) \/ Refuse(a) \/ RefuseAndKeep(a))
    /\ WF_vars(Commit(a)) /\ WF_vars(Rollback(a)) /\ WF_vars(Answer(a))

FairSpec == Spec /\ Fairness

-----------------------------------------------------------------------------
(* Properties.                                                              *)

TypeOK ==
  /\ request \in [Attempts -> [key : Keys, body : Bodies]]
  /\ phase \in [Attempts -> Phases]
  /\ verdict \in [Attempts -> Verdicts]
  /\ buffer \in [Attempts -> SUBSET Writes]
  /\ lock \in [Keys -> Attempts \cup {Nobody}]
  /\ receipts \in [Keys -> Bodies \cup {Nothing}]
  /\ effects \in [Keys -> Nat] /\ audits \in [Keys -> Nat]
  /\ evidence \in [Keys -> [Employees -> Nat]]
  /\ answers \subseteq Keys \X Bodies \X Verdicts

\* The contract: seen through its committed tables, the wrapper does what
\* OncePerKey allows and nothing else.
Contract == INSTANCE OncePerKey WITH applied <- receipts
Contracted == Contract!Spec

\* A key's work, its receipt and the audit row the wrapper owes it are there
\* together or not at all, and once; and one employee's refused punch is kept
\* once under a key, and never beside a punch of theirs that took effect.
Punched(k, e) == receipts[k] # Nothing /\ Puncher[receipts[k]] = e

AllOrNothing ==
  \A k \in Keys :
    /\ effects[k] = IF receipts[k] = Nothing THEN 0 ELSE 1
    /\ audits[k] = IF receipts[k] \in Audited THEN 1 ELSE 0
    /\ \A e \in Employees : evidence[k][e] <= IF Punched(k, e) THEN 0 ELSE 1

\* The strengthening of AllOrNothing that every step preserves: whoever is past
\* the lock holds it, and while it does the receipt it found, or did not find,
\* stays as it was, so that its transaction and its answer agree with the
\* tables at the moment it commits.
PastLock == {"locked", "working", "rollback", "commit"}

LockHeld == \A a \in Attempts : phase[a] \in PastLock => lock[Key(a)] = a

ToCommit(a) ==
  \/ /\ buffer[a] = Success(a) /\ verdict[a] = "applied"
     /\ receipts[Key(a)] = Nothing /\ ~Seen(a)
  \/ /\ buffer[a] = {"evidence"} /\ verdict[a] = "refused"
     /\ receipts[Key(a)] = Nothing /\ IsPunch(a) /\ ~Seen(a)
  \/ buffer[a] = {} /\ verdict[a] = "applied" /\ receipts[Key(a)] = Body(a)

ToAnswer(a) ==
  \/ verdict[a] = "applied" /\ receipts[Key(a)] = Body(a)
  \/ verdict[a] = "mismatch" /\ receipts[Key(a)] \notin {Body(a), Nothing}
  \/ verdict[a] = "refused"

Consistent ==
  \A a \in Attempts :
    /\ phase[a] = "working" => receipts[Key(a)] = Nothing
    /\ phase[a] = "commit" => ToCommit(a)
    /\ phase[a] # "commit" => buffer[a] = {}
    /\ phase[a] \in {"rollback", "decided"} => ToAnswer(a)
    /\ phase[a] = "rollback" => verdict[a] # "applied"

Inv == TypeOK /\ LockHeld /\ Consistent /\ AllOrNothing

\* A request that waits for a key is served in the end, or its worker dies:
\* no order of arrivals and deaths leaves a key locked by nobody alive.
Answers ==
  \A a \in Attempts : phase[a] = "begun" ~> phase[a] \in {"decided", "away"}

============================================================================
