-------------------------- MODULE Receipts_proofs --------------------------
(***************************************************************************)
(* Proofs about Receipts, for any attempts, keys, bodies and employees.    *)
(***************************************************************************)
EXTENDS Receipts, TLAPS

USE ReceiptsConstants DEF Writes, Phases, Verdicts, PastLock, Open

\* The tables as they are before the first request.
LEMMA InitInv == Init => Inv
  BY DEF Init, Inv, TypeOK, LockHeld, Consistent, AllOrNothing, Punched, tables

\* Adding one row to a table of counts leaves a table of counts.
LEMMA CountType ==
  ASSUME NEW f \in [Employees -> Nat], NEW e
  PROVE  [f EXCEPT ![e] = @ + 1] \in [Employees -> Nat]
<1>1. CASE e \in Employees BY <1>1
<1>2. CASE e \notin Employees
  <2>1. [f EXCEPT ![e] = @ + 1] = f BY <1>2
  <2> QED BY <2>1
<1> QED BY <1>1, <1>2

\* What COMMIT adds to the tables are rows.
LEMMA CommitType == ASSUME TypeOK, NEW a \in Attempts, Commit(a) PROVE TypeOK'
<1> USE DEF TypeOK, Key, Body, To, Releases, tables
<1>1. Kept(a) \in [Keys -> [Employees -> Nat]]
  <2> DEFINE row == [evidence[Key(a)] EXCEPT ![Puncher[Body(a)]] = @ + 1]
  <2>1. row \in [Employees -> Nat] BY evidence[Key(a)] \in [Employees -> Nat], CountType
  <2> HIDE DEF row
  <2>2. Kept(a) \in {evidence, [evidence EXCEPT ![Key(a)] = row]} BY DEF Kept, row
  <2> QED BY <2>1, <2>2
<1> QED BY <1>1 DEF Commit, Plus

\* Type correctness of every step of one attempt.
LEMMA StepType == ASSUME TypeOK, NEW a \in Attempts, Step(a) PROVE TypeOK'
<1> USE DEF TypeOK, Key, Body, To, Will, Releases, tables
<1>1. CASE Begin(a) BY <1>1 DEF Begin
<1>2. CASE Lock(a) BY <1>2 DEF Lock
<1>3. CASE FindReceipt(a) BY <1>3 DEF FindReceipt
<1>4. CASE Work(a) BY <1>4 DEF Work, Success
<1>5. CASE Refuse(a) BY <1>5 DEF Refuse
<1>6. CASE RefuseAndKeep(a) BY <1>6 DEF RefuseAndKeep
<1>7. CASE Commit(a) BY <1>7, CommitType
<1>8. CASE Rollback(a) BY <1>8 DEF Rollback
<1>9. CASE Answer(a) BY <1>9 DEF Answer
<1>10. CASE Die(a) BY <1>10 DEF Die
<1> QED BY <1>1, <1>2, <1>3, <1>4, <1>5, <1>6, <1>7, <1>8, <1>9, <1>10 DEF Step

\* Two attempts past the lock of one key are one attempt.
LEMMA OneHolder ==
  ASSUME LockHeld, NEW a \in Attempts, NEW b \in Attempts,
         phase[a] \in PastLock, phase[b] \in PastLock, Key(a) = Key(b)
  PROVE  a = b
  BY DEF LockHeld

\* The lock stays with whoever is past it.
LEMMA StepLock == ASSUME TypeOK, LockHeld, NEW a \in Attempts, Step(a) PROVE LockHeld'
<1> USE DEF TypeOK, LockHeld, Key, Body, To, Will, Releases, tables
<1>1. CASE Begin(a) BY <1>1 DEF Begin
<1>2. CASE Lock(a) BY <1>2 DEF Lock
<1>3. CASE FindReceipt(a) BY <1>3 DEF FindReceipt
<1>4. CASE Work(a) BY <1>4 DEF Work
<1>5. CASE Refuse(a) BY <1>5 DEF Refuse
<1>6. CASE RefuseAndKeep(a) BY <1>6 DEF RefuseAndKeep
<1>7. CASE Commit(a) BY <1>7 DEF Commit
<1>8. CASE Rollback(a) BY <1>8 DEF Rollback
<1>9. CASE Answer(a) BY <1>9 DEF Answer
<1>10. CASE Die(a) BY <1>10 DEF Die
<1> QED BY <1>1, <1>2, <1>3, <1>4, <1>5, <1>6, <1>7, <1>8, <1>9, <1>10 DEF Step

\* What a step of a leaves of the tables under another attempt's key: all of
\* it, while that attempt is past the lock; once a receipt is there, it stays.
LEMMA StepTables ==
  ASSUME TypeOK, LockHeld, Consistent, NEW a \in Attempts, Step(a)
  PROVE  /\ \A k \in Keys : receipts[k] # Nothing => receipts'[k] = receipts[k]
         /\ \A b \in Attempts \ {a} : phase[b] \in PastLock =>
              /\ receipts'[Key(b)] = receipts[Key(b)]
              /\ evidence'[Key(b)] = evidence[Key(b)]
<1>1. CASE Commit(a)
  <2>1. phase[a] = "commit" BY <1>1 DEF Commit
  <2>2. ToCommit(a) BY <2>1 DEF Consistent
  <2>3. /\ receipts' = [receipts EXCEPT ![Key(a)] = receipts'[Key(a)]]
        /\ evidence' = [evidence EXCEPT ![Key(a)] = evidence'[Key(a)]]
        /\ receipts[Key(a)] # Nothing => receipts' = receipts
    BY <1>1, <2>2 DEF Commit, Plus, Kept, Success, ToCommit, TypeOK, Key
  <2>4. ASSUME NEW b \in Attempts \ {a}, phase[b] \in PastLock PROVE Key(b) # Key(a)
    BY <2>1, <2>4, OneHolder
  <2>5. \A b \in Attempts : Key(b) \in Keys BY DEF Key, TypeOK
  <2> QED BY <2>3, <2>4, <2>5 DEF TypeOK
<1>2. CASE ~Commit(a)
  <2>1. receipts' = receipts /\ evidence' = evidence
    BY <1>2 DEF Step, Begin, Lock, FindReceipt, Work, Refuse, RefuseAndKeep, Rollback,
                Answer, Die, tables
  <2> QED BY <2>1
<1> QED BY <1>1, <1>2

\* The stepping attempt itself stays consistent with the tables.
LEMMA StepOwn ==
  ASSUME TypeOK, LockHeld, Consistent, NEW a \in Attempts, Step(a)
  PROVE  /\ phase'[a] = "working" => receipts'[Key(a)'] = Nothing
         /\ phase'[a] = "commit" => ToCommit(a)'
         /\ phase'[a] # "commit" => buffer'[a] = {}
         /\ phase'[a] \in {"rollback", "decided"} => ToAnswer(a)'
         /\ phase'[a] = "rollback" => verdict'[a] # "applied"
<1> USE DEF TypeOK, Consistent, ToCommit, ToAnswer, Success, Seen, IsPunch, Key, Body, To,
            Will, Releases, tables
<1>1. CASE Begin(a) BY <1>1 DEF Begin
<1>2. CASE Lock(a) BY <1>2 DEF Lock
<1>3. CASE FindReceipt(a) BY <1>3 DEF FindReceipt
<1>4. CASE Work(a) BY <1>4 DEF Work
<1>5. CASE Refuse(a) BY <1>5 DEF Refuse
<1>6. CASE RefuseAndKeep(a) BY <1>6 DEF RefuseAndKeep
<1>7. CASE Commit(a) BY <1>7 DEF Commit
<1>8. CASE Rollback(a) BY <1>8 DEF Rollback
<1>9. CASE Answer(a) BY <1>9 DEF Answer
<1>10. CASE Die(a) BY <1>10 DEF Die
<1> QED BY <1>1, <1>2, <1>3, <1>4, <1>5, <1>6, <1>7, <1>8, <1>9, <1>10 DEF Step

\* And leaves every other attempt's own state alone.
LEMMA StepOthers ==
  ASSUME TypeOK, NEW a \in Attempts, NEW b \in Attempts \ {a}, Step(a)
  PROVE  /\ phase'[b] = phase[b] /\ verdict'[b] = verdict[b]
         /\ buffer'[b] = buffer[b] /\ request'[b] = request[b]
  BY DEF TypeOK, Step, Begin, Lock, FindReceipt, Work, Refuse, RefuseAndKeep, Commit,
         Rollback, Answer, Die, To, Will, tables

LEMMA StepConsistent ==
  ASSUME TypeOK, LockHeld, Consistent, NEW a \in Attempts, Step(a)
  PROVE  Consistent'
<1> SUFFICES ASSUME NEW b \in Attempts
             PROVE  /\ phase'[b] = "working" => receipts'[Key(b)'] = Nothing
                    /\ phase'[b] = "commit" => ToCommit(b)'
                    /\ phase'[b] # "commit" => buffer'[b] = {}
                    /\ phase'[b] \in {"rollback", "decided"} => ToAnswer(b)'
                    /\ phase'[b] = "rollback" => verdict'[b] # "applied"
  BY DEF Consistent
<1>1. CASE b = a BY <1>1, StepOwn
<1>2. CASE b # a
  <2>1. /\ phase'[b] = phase[b] /\ verdict'[b] = verdict[b]
        /\ buffer'[b] = buffer[b] /\ request'[b] = request[b]
    BY <1>2, StepOthers
  <2>2. Key(b)' = Key(b) /\ Body(b)' = Body(b) /\ Key(b) \in Keys /\ Body(b) \in Bodies
    BY <2>1 DEF Key, Body, TypeOK
  <2>3. /\ receipts[Key(b)] # Nothing => receipts'[Key(b)] = receipts[Key(b)]
        /\ phase[b] \in PastLock => /\ receipts'[Key(b)] = receipts[Key(b)]
                                   /\ evidence'[Key(b)] = evidence[Key(b)]
    BY <1>2, <2>2, StepTables
  <2> QED BY <2>1, <2>2, <2>3
      DEF Consistent, ToCommit, ToAnswer, Success, Seen, IsPunch
<1> QED BY <1>1, <1>2

\* What COMMIT does to the tables, by what the transaction holds: the whole of
\* a first success, the evidence of a refusal, or nothing.
LEMMA CommitTables ==
  ASSUME TypeOK, Consistent, NEW a \in Attempts, Commit(a)
  PROVE  /\ Key(a) \in Keys /\ Body(a) \in Bodies
         /\ \/ /\ receipts[Key(a)] = Nothing /\ ~Seen(a)
               /\ receipts' = [receipts EXCEPT ![Key(a)] = Body(a)]
               /\ effects' = [effects EXCEPT ![Key(a)] = @ + 1]
               /\ audits' = IF Body(a) \in Audited
                              THEN [audits EXCEPT ![Key(a)] = @ + 1] ELSE audits
               /\ evidence' = evidence
            \/ /\ receipts[Key(a)] = Nothing /\ IsPunch(a) /\ ~Seen(a)
               /\ evidence' = [evidence EXCEPT ![Key(a)][Puncher[Body(a)]] = @ + 1]
               /\ UNCHANGED <<receipts, effects, audits>>
            \/ UNCHANGED tables
<1>1. ToCommit(a) BY DEF Commit, Consistent
<1> QED BY <1>1 DEF Commit, ToCommit, Plus, Kept, Success, TypeOK, Key, Body, tables

LEMMA StepAllOrNothing ==
  ASSUME TypeOK, Consistent, AllOrNothing, NEW a \in Attempts, Step(a)
  PROVE  AllOrNothing'
<1>1. CASE Commit(a)
  <2> DEFINE k == Key(a)
             b == Body(a)
             p == Puncher[b]
             row == [evidence[k] EXCEPT ![p] = @ + 1]
  <2> USE DEF AllOrNothing, Punched, TypeOK, tables
  <2>1. k \in Keys /\ b \in Bodies BY <1>1, CommitTables
  <2>2. ~Seen(a) => (p \in Employees => evidence[k][p] = 0) BY <2>1 DEF Seen, IsPunch
  <2>3. IsPunch(a) => p \in Employees BY DEF IsPunch
  <2> HIDE DEF k, b, p, row
  <2>4. CASE /\ receipts[k] = Nothing /\ ~Seen(a)
             /\ receipts' = [receipts EXCEPT ![k] = b]
             /\ effects' = [effects EXCEPT ![k] = @ + 1]
             /\ audits' = IF b \in Audited THEN [audits EXCEPT ![k] = @ + 1] ELSE audits
             /\ evidence' = evidence
    BY <2>1, <2>2, <2>4 DEF p
  <2>5. CASE /\ receipts[k] = Nothing /\ IsPunch(a) /\ ~Seen(a)
             /\ evidence' = [evidence EXCEPT ![k] = row]
             /\ UNCHANGED <<receipts, effects, audits>>
    <3>1. p \in Employees /\ evidence[k][p] = 0 BY <2>2, <2>3, <2>5
    <3>2. \A e \in Employees : row[e] <= 1 BY <2>1, <2>5, <3>1 DEF row
    <3> QED BY <2>1, <2>5, <3>2
  <2>6. CASE UNCHANGED tables BY <2>6
  <2>7. [evidence EXCEPT ![k][p] = @ + 1] = [evidence EXCEPT ![k] = row]
    BY <2>1 DEF row
  <2> QED BY <1>1, <2>4, <2>5, <2>6, <2>7, CommitTables DEF k, b, p
<1>2. CASE ~Commit(a)
  <2>1. UNCHANGED tables
    BY <1>2 DEF Step, Begin, Lock, FindReceipt, Work, Refuse, RefuseAndKeep, Rollback,
                Answer, Die, tables
  <2> QED BY <2>1 DEF AllOrNothing, Punched, tables
<1> QED BY <1>1, <1>2

\* The inductive invariant.
THEOREM Invariance == Spec => []Inv
<1>1. Init => Inv BY InitInv
<1>2. Inv /\ [Next]_vars => Inv'
  <2> SUFFICES ASSUME Inv, [Next]_vars PROVE Inv'
    OBVIOUS
  <2>1. CASE Next
    <3>1. PICK a \in Attempts : Step(a) BY <2>1 DEF Next
    <3>2. TypeOK' BY <3>1, StepType DEF Inv
    <3>3. LockHeld' BY <3>1, StepLock DEF Inv
    <3>4. Consistent' BY <3>1, StepConsistent DEF Inv
    <3>5. AllOrNothing' BY <3>1, StepAllOrNothing DEF Inv
    <3> QED BY <3>2, <3>3, <3>4, <3>5 DEF Inv
  <2>2. CASE UNCHANGED vars
    BY <2>2 DEF vars, tables, Inv, TypeOK, LockHeld, Consistent, AllOrNothing, Punched,
                ToCommit, ToAnswer, Success, Seen, IsPunch, Key, Body
  <2> QED BY <2>1, <2>2
<1> QED BY <1>1, <1>2, PTL DEF Spec

\* Type correctness.
THEOREM Typing == Spec => []TypeOK
<1>1. Inv => TypeOK BY DEF Inv
<1> QED BY <1>1, Invariance, PTL

\* Under every key the work, the receipt and the audit row stand or fall
\* together, however many requests carry it and whichever workers die; and an
\* employee whose refused punch was kept has no punch that took effect.
THEOREM TogetherOrNotAtAll == Spec => []AllOrNothing
<1>1. Inv => AllOrNothing BY DEF Inv
<1> QED BY <1>1, Invariance, PTL

\* Every transaction is about to commit something its key's receipt allows.
THEOREM TransactionsAgree == Spec => []Consistent
<1>1. Inv => Consistent BY DEF Inv
<1> QED BY <1>1, Invariance, PTL

-----------------------------------------------------------------------------
(* The wrapper implements the contract.                                     *)

LEMMA ContractInit == Init => Contract!Init
  BY DEF Init, Contract!Init, tables

LEMMA ContractStep ==
  ASSUME Inv, NEW a \in Attempts, Step(a)
  PROVE  [Contract!Next]_(Contract!vars)
<1> USE DEF Inv, Contract!Next, Contract!vars
<1>1. CASE Commit(a)
  <2> DEFINE k == Key(a)
             b == Body(a)
  <2>1. k \in Keys /\ b \in Bodies BY <1>1, CommitTables
  <2>2. answers' = answers BY <1>1 DEF Commit
  <2>3. CASE /\ receipts[k] = Nothing
             /\ receipts' = [receipts EXCEPT ![k] = b]
             /\ effects' = [effects EXCEPT ![k] = @ + 1]
    <3>1. effects[k] = 0 /\ effects \in [Keys -> Nat]
      BY <2>1, <2>3 DEF AllOrNothing, TypeOK
    <3>2. effects' = [effects EXCEPT ![k] = 1] BY <2>3, <3>1
    <3>3. Contract!Apply(k, b) BY <2>2, <2>3, <3>2 DEF Contract!Apply
    <3> QED BY <2>1, <3>3
  <2>4. CASE UNCHANGED <<receipts, effects>> BY <2>2, <2>4
  <2> QED BY <1>1, <2>3, <2>4, CommitTables DEF tables
<1>2. CASE Answer(a)
  <2> DEFINE k == Key(a)
             b == Body(a)
  <2>1. k \in Keys /\ b \in Bodies BY DEF TypeOK, Key, Body
  <2>2. ToAnswer(a) BY <1>2 DEF Answer, Consistent
  <2>3. UNCHANGED <<receipts, effects>> BY <1>2 DEF Answer, tables
  <2>4. CASE answers' = answers BY <2>3, <2>4
  <2>5. CASE answers' = answers \cup {<<k, b, verdict[a]>>}
    <3>1. Contract!Tell(k, b, verdict[a])
      BY <2>2, <2>3, <2>5 DEF ToAnswer, Contract!Tell
    <3> QED BY <2>1, <2>2, <3>1 DEF ToAnswer, Contract!Verdicts
  <2> QED BY <1>2, <2>4, <2>5 DEF Answer
<1>3. CASE ~Commit(a) /\ ~Answer(a)
  <2>1. UNCHANGED <<receipts, effects, answers>>
    BY <1>3 DEF Step, Begin, Lock, FindReceipt, Work, Refuse, RefuseAndKeep, Rollback, Die,
                tables
  <2> QED BY <2>1
<1> QED BY <1>1, <1>2, <1>3

\* Seen through its committed receipts and effects, the wrapper is OncePerKey.
THEOREM Refinement == Spec => Contracted
<1>1. Inv /\ [Next]_vars => [Contract!Next]_(Contract!vars)
  <2> SUFFICES ASSUME Inv, [Next]_vars PROVE [Contract!Next]_(Contract!vars)
    OBVIOUS
  <2>1. CASE Next BY <2>1, ContractStep DEF Next
  <2>2. CASE UNCHANGED vars BY <2>2 DEF vars, tables, Contract!vars
  <2> QED BY <2>1, <2>2
<1> QED BY <1>1, ContractInit, Invariance, PTL DEF Spec, Contracted, Contract!Spec

============================================================================
