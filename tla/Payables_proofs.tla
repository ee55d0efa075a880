-------------------------- MODULE Payables_proofs --------------------------
(***************************************************************************)
(* Proofs about Payables, for any number of documents, payments, runs and  *)
(* sessions.                                                               *)
(***************************************************************************)
EXTENDS Payables, DataLemmas

-----------------------------------------------------------------------------
(* The inductive invariant.                                                 *)

Request == [kind : Kinds, stage : Stages, doc : Documents \cup {0},
            payment : Payments \cup {<<0, 0>>}, run : Runs \cup {0}, cash : Nat, kept : Nat,
            waived : SUBSET Invoices, lines : [Invoices -> Nat], has : SUBSET Rows]

Run == [status : States, lines : [Invoices -> Nat], waived : SUBSET Invoices]

Shape ==
  /\ total \in [Documents -> Nat]
  /\ cancelled \subseteq Invoices /\ stopped \subseteq Invoices
  /\ paid \in [Payments -> Nat] /\ reversed \subseteq Payments
  /\ applied \in [Payments -> [Documents -> Nat]] /\ drawn \in [Payments -> Nat]
  /\ settled \in [Documents -> Int]
  /\ runs \in [Runs -> Run]
  /\ tx \in [Sessions -> Request]

\* No two sessions hold a row.
Exclusive == \A s, t \in Sessions : s # t => tx[s].has \cap tx[t].has = {}

Past(s)    == tx[s].stage \in {"documents", "look", "commit"}
Judging(s) == tx[s].stage \in {"look", "commit"}
HasDocument(s, d) == Row("document", d) \in tx[s].has

\* What a session at work holds by now, and what it has found of it.
AllocateSound(s) ==
  /\ tx[s].payment \in Payments /\ tx[s].doc \in Documents
  /\ tx[s].cash + tx[s].kept > 0 /\ paid[tx[s].payment] > 0
  /\ tx[s].lines = NoLines
  /\ Past(s) => Row("payment", tx[s].payment) \in tx[s].has /\ tx[s].payment \notin reversed
  /\ Judging(s) => HasDocument(s, tx[s].doc)
  /\ tx[s].stage = "commit" => MayAllocate(s)

ReimburseSound(s) ==
  /\ tx[s].doc \in Claims /\ tx[s].cash > 0 /\ tx[s].stage # "own"
  /\ tx[s].lines = NoLines
  /\ Judging(s) => HasDocument(s, tx[s].doc)
  /\ tx[s].stage = "commit" => MayReimburse(s)

BuildSound(s) ==
  /\ tx[s].run \in Runs /\ tx[s].stage # "documents"
  /\ tx[s].stage # "commit" => tx[s].lines = NoLines
  /\ Past(s) => Row("builder", 0) \in tx[s].has /\ runs[tx[s].run].status = "NONE"
  /\ tx[s].stage = "commit" => ~Clashes(s)

DecideSound(s) ==
  /\ tx[s].run \in Runs
  /\ tx[s].lines = NoLines
  /\ Past(s) => /\ Row("run", tx[s].run) \in tx[s].has
                /\ tx[s].kind = "approve" => runs[tx[s].run].status = "DRAFT"
                /\ tx[s].kind = "execute" => runs[tx[s].run].status = "APPROVED"
  /\ Judging(s) => \A i \in OnRun(tx[s].run) : HasDocument(s, i)
  /\ tx[s].stage = "commit" => \A i \in OnRun(tx[s].run) : ~Stale(tx[s].run, i)

Sound(s) ==
  tx[s].stage # "idle" =>
    /\ tx[s].kind = "allocate" => AllocateSound(s)
    /\ tx[s].kind = "reimburse" => ReimburseSound(s)
    /\ tx[s].kind = "build" => BuildSound(s)
    /\ tx[s].kind \in {"approve", "execute"} => DecideSound(s)

\* The payments of a run are made when it is paid; what was taken back had
\* been paid.
RunsPayOnce == \A r \in Runs, i \in Invoices : paid[<<r, i>>] > 0 => runs[r].status = "PAID"
TakenBack == \A p \in reversed : paid[p] > 0

Money == NotOverpaid /\ NotOverspent /\ RunsPayOnce /\ TakenBack

Inv == Shape /\ Exclusive /\ Money /\ \A s \in Sessions : Sound(s)

-----------------------------------------------------------------------------
(* Requests, and what remains of one when some fields are replaced.         *)

LEMMA IdleRequest ==
  /\ Idle \in Request
  /\ Idle.stage = "idle" /\ Idle.has = {} /\ Idle.lines = NoLines /\ Idle.kind = "build"
  BY SMT DEF Idle, Request, Kinds, Stages, NoLines

\* A request with one field replaced.
LEMMA RequestField ==
  ASSUME NEW t \in Request
  PROVE  /\ \A k \in Kinds : [t EXCEPT !.kind = k] \in Request
         /\ \A stage \in Stages : [t EXCEPT !.stage = stage] \in Request
         /\ \A d \in Documents : [t EXCEPT !.doc = d] \in Request
         /\ \A p \in Payments : [t EXCEPT !.payment = p] \in Request
         /\ \A r \in Runs : [t EXCEPT !.run = r] \in Request
         /\ \A n \in Nat : [t EXCEPT !.cash = n] \in Request /\ [t EXCEPT !.kept = n] \in Request
         /\ \A w \in SUBSET Invoices : [t EXCEPT !.waived = w] \in Request
         /\ \A l \in [Invoices -> Nat] : [t EXCEPT !.lines = l] \in Request
         /\ \A h \in SUBSET Rows : [t EXCEPT !.has = h] \in Request
<1>1. ASSUME NEW k \in Kinds PROVE [t EXCEPT !.kind = k] \in Request
  BY SMT DEF Request
<1>2. ASSUME NEW stage \in Stages PROVE [t EXCEPT !.stage = stage] \in Request
  BY SMT DEF Request
<1>3. ASSUME NEW d \in Documents PROVE [t EXCEPT !.doc = d] \in Request
  BY SMT DEF Request
<1>4. ASSUME NEW p \in Payments PROVE [t EXCEPT !.payment = p] \in Request
  BY SMT DEF Request
<1>5. ASSUME NEW r \in Runs PROVE [t EXCEPT !.run = r] \in Request
  BY SMT DEF Request
<1>6. ASSUME NEW n \in Nat
      PROVE  [t EXCEPT !.cash = n] \in Request /\ [t EXCEPT !.kept = n] \in Request
  BY SMT DEF Request
<1>7. ASSUME NEW w \in SUBSET Invoices PROVE [t EXCEPT !.waived = w] \in Request
  BY SMT DEF Request
<1>8. ASSUME NEW l \in [Invoices -> Nat] PROVE [t EXCEPT !.lines = l] \in Request
  BY SMT DEF Request
<1>9. ASSUME NEW h \in SUBSET Rows PROVE [t EXCEPT !.has = h] \in Request
  BY SMT DEF Request
<1> QED BY <1>1, <1>2, <1>3, <1>4, <1>5, <1>6, <1>7, <1>8, <1>9, Zenon

\* Its fields.
LEMMA RequestFields ==
  ASSUME NEW t \in Request
  PROVE  /\ t.kind \in Kinds /\ t.stage \in Stages /\ t.doc \in Documents \cup {0}
         /\ t.payment \in Payments \cup {<<0, 0>>} /\ t.run \in Runs \cup {0}
         /\ t.cash \in Nat /\ t.kept \in Nat /\ t.waived \in SUBSET Invoices
         /\ t.lines \in [Invoices -> Nat] /\ t.has \in SUBSET Rows
  BY SMT DEF Request

LEMMA StartedRequest ==
  ASSUME NEW k \in Kinds, NEW stage \in Stages
  PROVE  LET t == [Idle EXCEPT !.kind = k, !.stage = stage]
         IN  t \in Request /\ t.kind = k /\ t.stage = stage /\ t.has = {} /\ t.lines = NoLines
<1> DEFINE a == [Idle EXCEPT !.kind = k]
           t == [a EXCEPT !.stage = stage]
<1>1. a \in Request BY IdleRequest, RequestField, Zenon
<1>2. a.kind = k /\ a.has = {} /\ a.lines = NoLines
  BY IdleRequest, SMT DEF Request
<1> HIDE DEF a
<1>3. t \in Request BY <1>1, RequestField, Zenon
<1>4. t.kind = k /\ t.stage = stage /\ t.has = {} /\ t.lines = NoLines
  BY <1>1, <1>2, SMT DEF Request
<1>5. t = [Idle EXCEPT !.kind = k, !.stage = stage]
  BY SMT DEF a
<1> QED BY <1>3, <1>4, SMT DEF a

AsksToAllocate(t, p, d, cash, kept) ==
  /\ t \in Request /\ t.kind = "allocate" /\ t.stage = "own" /\ t.payment = p /\ t.doc = d
  /\ t.cash = cash /\ t.kept = kept /\ t.has = {} /\ t.lines = NoLines

LEMMA AllocateRequest ==
  ASSUME NEW p \in Payments, NEW d \in Documents, NEW cash \in Nat, NEW kept \in Nat
  PROVE  LET t == [Idle EXCEPT !.kind = "allocate", !.stage = "own", !.payment = p, !.doc = d,
                               !.cash = cash, !.kept = kept]
         IN  AsksToAllocate(t, p, d, cash, kept)
<1> DEFINE a == [Idle EXCEPT !.kind = "allocate", !.stage = "own"]
           b == [a EXCEPT !.payment = p]
           c == [b EXCEPT !.doc = d]
           e == [c EXCEPT !.cash = cash]
           t == [e EXCEPT !.kept = kept]
<1>1. a \in Request /\ a.kind = "allocate" /\ a.stage = "own" /\ a.has = {} /\ a.lines = NoLines
  BY StartedRequest, Zenon DEF Kinds, Stages
<1> HIDE DEF a
<1>2. b \in Request BY <1>1, RequestField, Zenon
<1> HIDE DEF b
<1>3. c \in Request BY <1>2, RequestField, Zenon
<1> HIDE DEF c
<1>4. e \in Request BY <1>3, RequestField, Zenon
<1> HIDE DEF e
<1>5. t \in Request BY <1>4, RequestField, Zenon
<1>6. /\ t.kind = "allocate" /\ t.stage = "own" /\ t.payment = p /\ t.doc = d
      /\ t.cash = cash /\ t.kept = kept /\ t.has = {} /\ t.lines = NoLines
  BY <1>1, SMT DEF b, c, e, Request
<1>7. t = [Idle EXCEPT !.kind = "allocate", !.stage = "own", !.payment = p, !.doc = d,
                               !.cash = cash, !.kept = kept]
  BY SMT DEF a, b, c, e
<1> QED BY <1>5, <1>6, <1>7, Zenon DEF AsksToAllocate

AsksToReimburse(t, c, cash) ==
  /\ t \in Request /\ t.kind = "reimburse" /\ t.stage = "documents" /\ t.doc = c
  /\ t.cash = cash /\ t.has = {} /\ t.lines = NoLines

LEMMA ReimburseRequest ==
  ASSUME NEW c \in Claims, NEW cash \in Nat
  PROVE  LET t == [Idle EXCEPT !.kind = "reimburse", !.stage = "documents", !.doc = c,
                               !.cash = cash]
         IN  AsksToReimburse(t, c, cash)
<1> DEFINE a == [Idle EXCEPT !.kind = "reimburse", !.stage = "documents"]
           b == [a EXCEPT !.doc = c]
           t == [b EXCEPT !.cash = cash]
<1>1. /\ a \in Request /\ a.kind = "reimburse" /\ a.stage = "documents"
      /\ a.has = {} /\ a.lines = NoLines
  BY StartedRequest, Zenon DEF Kinds, Stages
<1> HIDE DEF a
<1>2. b \in Request BY <1>1, RequestField, Zenon DEF Documents
<1> HIDE DEF b
<1>3. t \in Request BY <1>2, RequestField, Zenon
<1>4. /\ t.kind = "reimburse" /\ t.stage = "documents" /\ t.doc = c
      /\ t.cash = cash /\ t.has = {} /\ t.lines = NoLines
  BY <1>1, SMT DEF b, Request
<1>5. t = [Idle EXCEPT !.kind = "reimburse", !.stage = "documents", !.doc = c, !.cash = cash]
  BY SMT DEF a, b
<1> QED BY <1>3, <1>4, <1>5, Zenon DEF AsksToReimburse

LEMMA DecideRequest ==
  ASSUME NEW k \in Kinds, NEW r \in Runs
  PROVE  LET t == [Idle EXCEPT !.kind = k, !.stage = "own", !.run = r]
         IN  /\ t \in Request /\ t.kind = k /\ t.stage = "own"
             /\ t.run = r /\ t.has = {} /\ t.lines = NoLines
<1> DEFINE a == [Idle EXCEPT !.kind = k, !.stage = "own"]
           t == [a EXCEPT !.run = r]
<1>1. a \in Request /\ a.kind = k /\ a.stage = "own" /\ a.has = {} /\ a.lines = NoLines
  BY StartedRequest, Zenon DEF Stages
<1> HIDE DEF a
<1>2. t \in Request BY <1>1, RequestField, Zenon
<1>3. t.kind = k /\ t.stage = "own" /\ t.run = r /\ t.has = {} /\ t.lines = NoLines
  BY <1>1, SMT DEF Request
<1> QED BY <1>2, <1>3, SMT DEF a

AsksToBuild(t, r) ==
  /\ t \in Request /\ t.kind = "build" /\ t.stage = "own"
  /\ t.run = r /\ t.has = {} /\ t.lines = NoLines

LEMMA BuildRequest ==
  ASSUME NEW r \in Runs, NEW w \in SUBSET Invoices
  PROVE  AsksToBuild([Idle EXCEPT !.kind = "build", !.stage = "own", !.run = r, !.waived = w], r)
<1> DEFINE a == [Idle EXCEPT !.kind = "build", !.stage = "own", !.run = r]
           t == [a EXCEPT !.waived = w]
<1>1. /\ a \in Request /\ a.kind = "build" /\ a.stage = "own"
      /\ a.run = r /\ a.has = {} /\ a.lines = NoLines
  BY DecideRequest, Zenon DEF Kinds
<1> HIDE DEF a
<1>2. t \in Request BY <1>1, RequestField, Zenon
<1>3. t.kind = "build" /\ t.stage = "own" /\ t.run = r /\ t.has = {} /\ t.lines = NoLines
  BY <1>1, SMT DEF Request
<1>4. t = [Idle EXCEPT !.kind = "build", !.stage = "own", !.run = r, !.waived = w]
  BY SMT DEF a
<1> QED BY <1>2, <1>3, <1>4, Zenon DEF AsksToBuild

\* What a request keeps when it takes a lock or moves on.
Same(t, u) ==
  /\ u.kind = t.kind /\ u.doc = t.doc /\ u.payment = t.payment /\ u.run = t.run
  /\ u.cash = t.cash /\ u.kept = t.kept /\ u.waived = t.waived

LEMMA LockedRequest ==
  ASSUME NEW t \in Request, NEW h \in SUBSET Rows, NEW stage \in Stages
  PROVE  LET u == [t EXCEPT !.has = h, !.stage = stage]
         IN  u \in Request /\ u.has = h /\ u.stage = stage /\ u.lines = t.lines /\ Same(t, u)
<1> DEFINE a == [t EXCEPT !.has = h]
           u == [a EXCEPT !.stage = stage]
<1>1. a \in Request BY RequestField, Zenon
<1> HIDE DEF a
<1>2. u \in Request BY <1>1, RequestField, Zenon
<1>3. u.has = h /\ u.stage = stage /\ u.lines = t.lines /\ Same(t, u)
  BY SMT DEF a, Same, Request
<1> QED BY <1>2, <1>3, SMT DEF a

LEMMA MovedRequest ==
  ASSUME NEW t \in Request, NEW stage \in Stages
  PROVE  LET u == [t EXCEPT !.stage = stage]
         IN  u \in Request /\ u.has = t.has /\ u.stage = stage /\ u.lines = t.lines /\ Same(t, u)
<1> DEFINE u == [t EXCEPT !.stage = stage]
<1>1. u \in Request BY RequestField, Zenon
<1>2. u.has = t.has /\ u.stage = stage /\ u.lines = t.lines /\ Same(t, u)
  BY SMT DEF Same, Request
<1> QED BY <1>1, <1>2, Zenon

LEMMA SelectedRequest ==
  ASSUME NEW t \in Request, NEW l \in [Invoices -> Nat], NEW stage \in Stages
  PROVE  LET u == [t EXCEPT !.lines = l, !.stage = stage]
         IN  u \in Request /\ u.has = t.has /\ u.stage = stage /\ u.lines = l /\ Same(t, u)
<1> DEFINE a == [t EXCEPT !.lines = l]
           u == [a EXCEPT !.stage = stage]
<1>1. a \in Request BY RequestField, Zenon
<1> HIDE DEF a
<1>2. u \in Request BY <1>1, RequestField, Zenon
<1>3. u.has = t.has /\ u.stage = stage /\ u.lines = l /\ Same(t, u)
  BY SMT DEF a, Same, Request
<1> QED BY <1>2, <1>3, SMT DEF a

-----------------------------------------------------------------------------
(* Steps that only move a request on.                                       *)

USE PayablesConstants

\* They keep the invariant if the session stays sound and takes no row that
\* another one holds.
LEMMA MoveKeeps ==
  ASSUME Inv, NEW s \in Sessions, NEW u \in Request,
         tx' = [tx EXCEPT ![s] = u], UNCHANGED <<documents, money, runs>>,
         \A t \in Sessions \ {s} : u.has \cap tx[t].has = {},
         Sound(s)'
  PROVE  Inv'
<1> USE DEF documents, money
<1>1. tx'[s] = u /\ \A t \in Sessions \ {s} : tx'[t] = tx[t]
  BY DEF Inv, Shape
<1>2. Shape'
  BY DEF Inv, Shape
<1>3. Exclusive'
  BY <1>1 DEF Inv, Exclusive
<1>4. Money'
  BY DEF Inv, Money, NotOverpaid, NotOverspent, RunsPayOnce, TakenBack, Due
<1>5. ASSUME NEW t \in Sessions \ {s} PROVE Sound(t)'
  <2>1. Sound(t) /\ tx'[t] = tx[t]
    BY <1>1 DEF Inv
  <2>2. UNCHANGED <<documents, money, runs>>
    OBVIOUS
  <2> QED
    BY ONLY <2>1, <2>2
       DEF Sound, AllocateSound, ReimburseSound, BuildSound, DecideSound, Past, Judging,
           HasDocument, MayAllocate, MayReimburse, Clashes, InOpenRun, Open, OnRun, Stale,
           Outstanding, Unallocated, MatchAllows, documents, money
<1> QED
  BY <1>2, <1>3, <1>4, <1>5 DEF Inv

\* A session that stops is sound.
LEMMA StopKeeps ==
  ASSUME Inv, NEW s \in Sessions, tx' = [tx EXCEPT ![s] = Idle],
         UNCHANGED <<documents, money, runs>>
  PROVE  Inv'
<1>1. tx'[s].stage = "idle" /\ Idle.has = {} /\ Idle \in Request
  BY IdleRequest DEF Inv, Shape
<1>2. Sound(s)'
  BY <1>1 DEF Sound
<1> QED
  BY <1>1, <1>2, MoveKeeps

LEMMA BeginKeeps ==
  ASSUME Inv, NEW s \in Sessions, Allocate(s) \/ Reimburse(s) \/ Build(s)
                                    \/ Decide(s, "approve") \/ Decide(s, "execute")
  PROVE  Inv'
<1>1. ASSUME NEW u \in Request, Begin(s, u), u.has = {}, Sound(s)' PROVE Inv'
  BY <1>1, MoveKeeps DEF Begin
<1>2. ASSUME NEW u \in Request, Begin(s, u) PROVE tx'[s] = u /\ UNCHANGED <<paid, runs>>
  BY <1>2 DEF Begin, Inv, Shape, money
<1>3. CASE Allocate(s)
  <2>1. PICK p \in Payments, d \in Documents, cash \in Amounts \cup {0}, kept \in Withheld :
          /\ paid[p] > 0 /\ cash + kept > 0
          /\ Begin(s, [Idle EXCEPT !.kind = "allocate", !.stage = "own", !.payment = p,
                                   !.doc = d, !.cash = cash, !.kept = kept])
    BY <1>3, Zenon DEF Allocate
  <2> DEFINE u == [Idle EXCEPT !.kind = "allocate", !.stage = "own", !.payment = p,
                               !.doc = d, !.cash = cash, !.kept = kept]
  <2>2. cash \in Nat /\ kept \in Nat
    OBVIOUS
  <2>3. AsksToAllocate(u, p, d, cash, kept)
    BY <2>2, AllocateRequest, Zenon
  <2>4. Begin(s, u) BY <2>1, Zenon
  <2> HIDE DEF u
  <2>5. Sound(s)'
    BY <1>2, <2>1, <2>3, <2>4 DEF AsksToAllocate, Sound, AllocateSound, Past, Judging
  <2> QED BY <1>1, <2>3, <2>4, <2>5 DEF AsksToAllocate
<1>4. CASE Reimburse(s)
  <2>1. PICK c \in Claims, n \in Amounts :
          Begin(s, [Idle EXCEPT !.kind = "reimburse", !.stage = "documents", !.doc = c,
                                !.cash = n])
    BY <1>4, Zenon DEF Reimburse
  <2> DEFINE u == [Idle EXCEPT !.kind = "reimburse", !.stage = "documents", !.doc = c,
                               !.cash = n]
  <2>2. n \in Nat /\ n > 0
    OBVIOUS
  <2>3. AsksToReimburse(u, c, n)
    BY <2>2, ReimburseRequest, Zenon
  <2>4. Begin(s, u) BY <2>1, Zenon
  <2> HIDE DEF u
  <2>5. Sound(s)'
    BY <1>2, <2>2, <2>3, <2>4 DEF AsksToReimburse, Sound, ReimburseSound, Past, Judging
  <2> QED BY <1>1, <2>3, <2>4, <2>5 DEF AsksToReimburse
<1>5. CASE Build(s)
  <2>1. PICK r \in Runs, w \in Waivers :
          Begin(s, [Idle EXCEPT !.kind = "build", !.stage = "own", !.run = r, !.waived = w])
    BY <1>5, Zenon DEF Build
  <2> DEFINE u == [Idle EXCEPT !.kind = "build", !.stage = "own", !.run = r, !.waived = w]
  <2>2. w \in SUBSET Invoices
    OBVIOUS
  <2>3. AsksToBuild(u, r)
    BY ONLY <2>2, r \in Runs, BuildRequest, Zenon
  <2>4. Begin(s, u) BY <2>1, Zenon
  <2> HIDE DEF u
  <2>5. Sound(s)'
    BY <1>2, <2>3, <2>4 DEF AsksToBuild, Sound, BuildSound, Past, Judging
  <2> QED BY <1>1, <2>3, <2>4, <2>5 DEF AsksToBuild
<1>6. ASSUME NEW k \in {"approve", "execute"}, Decide(s, k) PROVE Inv'
  <2>1. PICK r \in Runs : Begin(s, [Idle EXCEPT !.kind = k, !.stage = "own", !.run = r])
    BY <1>6, Zenon DEF Decide
  <2> DEFINE u == [Idle EXCEPT !.kind = k, !.stage = "own", !.run = r]
  <2>2. k \in Kinds
    BY DEF Kinds
  <2>3. u \in Request /\ u.kind = k /\ u.stage = "own" /\ u.run = r /\ u.has = {} /\ u.lines = NoLines
    BY ONLY <2>2, r \in Runs, DecideRequest, Zenon
  <2>4. Begin(s, u) BY <2>1, Zenon
  <2> HIDE DEF u
  <2>5. Sound(s)'
    BY <1>2, <2>3, <2>4 DEF Sound, DecideSound, Past, Judging
  <2> QED BY <1>1, <2>3, <2>4, <2>5
<1> QED BY <1>3, <1>4, <1>5, <1>6

\* What a request says before the lock is taken, by kind.
LEMMA Wants ==
  ASSUME NEW s \in Sessions
  PROVE  /\ tx[s].kind = "allocate" /\ tx[s].stage = "own" =>
              Wanted(s) = {Row("payment", tx[s].payment)}
         /\ tx[s].kind = "build" /\ tx[s].stage = "own" => Wanted(s) = {Row("builder", 0)}
         /\ tx[s].kind \in {"approve", "execute"} /\ tx[s].stage = "own" =>
              Wanted(s) = {Row("run", tx[s].run)}
         /\ tx[s].kind \in {"allocate", "reimburse"} /\ tx[s].stage = "documents" =>
              Wanted(s) = {Row("document", tx[s].doc)}
         /\ tx[s].kind \in {"approve", "execute"} /\ tx[s].stage = "documents" =>
              Wanted(s) = NextInvoice(s)
  BY DEF Wanted

LEMMA Standing ==
  ASSUME NEW s \in Sessions
  PROVE  /\ tx[s].kind = "allocate" => (Stands(s) <=> tx[s].payment \notin reversed)
         /\ tx[s].kind = "approve" => (Stands(s) <=> runs[tx[s].run].status = "DRAFT")
         /\ tx[s].kind = "execute" => (Stands(s) <=> runs[tx[s].run].status = "APPROVED")
         /\ tx[s].kind = "build" => (Stands(s) <=> runs[tx[s].run].status = "NONE")
  BY DEF Stands

LEMMA LockOwnKeeps == ASSUME Inv, NEW s \in Sessions, LockOwn(s) PROVE Inv'
<1> DEFINE unread == tx[s].kind = "build" \/ (tx[s].kind # "allocate" /\ OnRun(tx[s].run) = {})
           stage == IF unread THEN "look" ELSE "documents"
           u == [tx[s] EXCEPT !.has = Wanted(s), !.stage = stage]
<1>1. /\ tx[s].stage = "own" /\ Granted(s)
      /\ tx' = [tx EXCEPT ![s] = IF ~Stands(s) THEN Idle ELSE u]
      /\ UNCHANGED <<documents, money, runs>>
  BY Zenon DEF LockOwn
<1>2. CASE ~Stands(s)
  BY <1>1, <1>2, StopKeeps
<1>3. CASE Stands(s)
  <2>1. tx[s] \in Request /\ tx[s].kind \in Kinds /\ Sound(s)
    BY RequestFields DEF Inv, Shape
  <2>2. tx[s].kind # "reimburse"
    BY <1>1, <2>1 DEF Sound, ReimburseSound
  <2>3. stage \in Stages /\ stage # "own" /\ stage # "idle" /\ stage # "commit"
    BY DEF Stages
  <2>4. Wanted(s) \in SUBSET Rows
    <3>1. tx[s].kind = "allocate" => tx[s].payment \in Payments
      BY <1>1, <2>1 DEF Sound, AllocateSound
    <3>2. tx[s].kind \in {"approve", "execute"} => tx[s].run \in Runs
      BY <1>1, <2>1 DEF Sound, DecideSound
    <3> QED BY <1>1, <2>1, <2>2, <3>1, <3>2, Wants DEF Rows, Row, Kinds
  <2> HIDE DEF stage
  <2>5. u \in Request /\ u.has = Wanted(s) /\ u.stage = stage /\ u.lines = tx[s].lines
        /\ Same(tx[s], u)
    BY <2>1, <2>3, <2>4, LockedRequest, Zenon
  <2> HIDE DEF u
  <2>6. tx' = [tx EXCEPT ![s] = u]
    BY <1>1, <1>3, Zenon
  <2>7. tx'[s] = u /\ UNCHANGED <<runs, reversed, paid>>
    BY <1>1, <2>6 DEF Inv, Shape, money
  <2>8. \A t \in Sessions \ {s} : u.has \cap tx[t].has = {}
    BY <1>1, <2>5 DEF Granted, WaitsFor
  <2>9. Sound(s)'
    <3>1. CASE tx[s].kind = "allocate"
      <4>1. AllocateSound(s) /\ Wanted(s) = {Row("payment", tx[s].payment)}
            /\ tx[s].payment \notin reversed
        BY <1>1, <1>3, <2>1, <3>1, Wants, Standing DEF Sound
      <4>2. stage = "documents"
        BY <3>1 DEF stage
      <4>3. AllocateSound(s)'
        BY <2>5, <2>7, <4>1, <4>2 DEF AllocateSound, Same, Past, Judging
      <4> QED BY <2>5, <2>7, <3>1, <4>3 DEF Sound, Same
    <3>2. CASE tx[s].kind = "build"
      <4>1. BuildSound(s) /\ Wanted(s) = {Row("builder", 0)} /\ runs[tx[s].run].status = "NONE"
        BY <1>1, <1>3, <2>1, <3>2, Wants, Standing DEF Sound
      <4>2. stage = "look"
        BY <3>2 DEF stage
      <4>3. BuildSound(s)'
        BY <1>1, <2>5, <2>7, <4>1, <4>2 DEF BuildSound, Same, Past, Judging
      <4> QED BY <2>5, <2>7, <3>2, <4>3 DEF Sound, Same
    <3>3. CASE tx[s].kind \in {"approve", "execute"}
      <4>1. DecideSound(s) /\ Wanted(s) = {Row("run", tx[s].run)}
            /\ (tx[s].kind = "approve" => runs[tx[s].run].status = "DRAFT")
            /\ (tx[s].kind = "execute" => runs[tx[s].run].status = "APPROVED")
        BY <1>1, <1>3, <2>1, <3>3, Wants, Standing DEF Sound
      <4>2. \/ stage = "documents"
            \/ stage = "look" /\ OnRun(tx[s].run) = {}
        BY <3>3 DEF stage
      <4>3. OnRun(tx[s].run)' = OnRun(tx[s].run) /\ tx'[s].run = tx[s].run
        BY <2>5, <2>7 DEF OnRun, Same
      <4>4. DecideSound(s)'
        BY <2>3, <2>5, <2>7, <4>1, <4>2, <4>3 DEF DecideSound, Same, Past, Judging
      <4> QED BY <2>5, <2>7, <3>3, <4>4 DEF Sound, Same
    <3> QED BY <2>1, <2>2, <3>1, <3>2, <3>3 DEF Kinds
  <2> QED BY <1>1, <2>5, <2>6, <2>8, <2>9, MoveKeeps
<1> QED BY <1>2, <1>3

LEMMA LockDocumentKeeps == ASSUME Inv, NEW s \in Sessions, LockDocument(s) PROVE Inv'
<1> DEFINE has == tx[s].has \cup Wanted(s)
           last == tx[s].kind \in {"allocate", "reimburse"}
                     \/ \A i \in OnRun(tx[s].run) : Row("document", i) \in has
           stage == IF last THEN "look" ELSE "documents"
           u == [tx[s] EXCEPT !.has = has, !.stage = stage]
<1>1. /\ tx[s].stage = "documents" /\ Granted(s)
      /\ tx' = [tx EXCEPT ![s] = u]
      /\ UNCHANGED <<documents, money, runs>>
  BY Zenon DEF LockDocument
<1>2. tx[s] \in Request /\ tx[s].kind \in Kinds /\ Sound(s) /\ tx[s].has \in SUBSET Rows
  BY RequestFields DEF Inv, Shape
<1>3. tx[s].kind # "build"
  BY <1>1, <1>2 DEF Sound, BuildSound
<1>4. stage \in {"look", "documents"} /\ stage \in Stages
  BY DEF Stages
<1>5. Wanted(s) \in SUBSET Rows
  <2>1. tx[s].kind = "allocate" => tx[s].doc \in Documents
    BY <1>1, <1>2 DEF Sound, AllocateSound
  <2>2. tx[s].kind = "reimburse" => tx[s].doc \in Documents
    BY <1>1, <1>2 DEF Sound, ReimburseSound, Documents
  <2>3. NextInvoice(s) \in SUBSET Rows
    BY DEF NextInvoice, OnRun, Rows, Row, Documents
  <2> QED BY <1>1, <1>2, <1>3, <2>1, <2>2, <2>3, Wants DEF Rows, Row, Kinds
<1>6. has \in SUBSET Rows
  BY <1>2, <1>5
<1>7. tx[s].has \subseteq has /\ Wanted(s) \subseteq has
  OBVIOUS
<1>8. \A t \in Sessions \ {s} : has \cap tx[t].has = {}
  BY <1>1 DEF Granted, WaitsFor, Inv, Exclusive
<1>9. \/ stage = "documents"
      \/ /\ stage = "look"
         /\ \/ tx[s].kind \in {"allocate", "reimburse"}
            \/ \A i \in OnRun(tx[s].run) : Row("document", i) \in has
  OBVIOUS
<1> HIDE DEF has, stage
<1>10. u \in Request /\ u.has = has /\ u.stage = stage /\ u.lines = tx[s].lines
       /\ Same(tx[s], u)
  BY <1>2, <1>4, <1>6, LockedRequest, Zenon
<1> HIDE DEF u
<1>11. tx'[s] = u /\ UNCHANGED <<runs, reversed, paid>>
  BY <1>1 DEF Inv, Shape, money
<1>12. Sound(s)'
  <2>1. CASE tx[s].kind = "allocate"
    <3>1. AllocateSound(s) /\ Wanted(s) = {Row("document", tx[s].doc)}
      BY <1>1, <1>2, <2>1, Wants DEF Sound
    <3>2. AllocateSound(s)'
      BY <1>1, <1>4, <1>7, <1>10, <1>11, <3>1 DEF AllocateSound, Same, Past, Judging, HasDocument
    <3> QED BY <1>10, <1>11, <2>1, <3>2 DEF Sound, Same
  <2>2. CASE tx[s].kind = "reimburse"
    <3>1. ReimburseSound(s) /\ Wanted(s) = {Row("document", tx[s].doc)}
      BY <1>1, <1>2, <2>2, Wants DEF Sound
    <3>2. ReimburseSound(s)'
      BY <1>1, <1>4, <1>7, <1>10, <1>11, <3>1 DEF ReimburseSound, Same, Judging, HasDocument
    <3> QED BY <1>10, <1>11, <2>2, <3>2 DEF Sound, Same
  <2>3. CASE tx[s].kind \in {"approve", "execute"}
    <3>1. DecideSound(s)
      BY <1>1, <1>2, <2>3 DEF Sound
    <3>2. OnRun(tx[s].run)' = OnRun(tx[s].run) /\ tx'[s].run = tx[s].run
      BY <1>10, <1>11 DEF OnRun, Same
    <3>3. stage = "look" => \A i \in OnRun(tx[s].run) : Row("document", i) \in has
      BY <1>9, <2>3
    <3>4. DecideSound(s)'
      BY <1>1, <1>4, <1>7, <1>10, <1>11, <3>1, <3>2, <3>3
      DEF DecideSound, Same, Past, Judging, HasDocument
    <3> QED BY <1>10, <1>11, <2>3, <3>4 DEF Sound, Same
  <2> QED BY <1>2, <1>3, <2>1, <2>2, <2>3 DEF Kinds
<1> QED BY <1>1, <1>8, <1>10, <1>12, MoveKeeps

\* What is found good, by kind.
LEMMA Finds ==
  ASSUME NEW s \in Sessions
  PROVE  /\ tx[s].kind = "allocate" => (May(s) <=> MayAllocate(s))
         /\ tx[s].kind = "reimburse" => (May(s) <=> MayReimburse(s))
         /\ tx[s].kind \in {"approve", "execute"} =>
              (May(s) <=> \A i \in OnRun(tx[s].run) : ~Stale(tx[s].run, i))
  BY DEF May

LEMMA LookKeeps == ASSUME Inv, NEW s \in Sessions, Look(s) PROVE Inv'
<1> DEFINE u == [tx[s] EXCEPT !.stage = "commit"]
<1>1. /\ tx[s].stage = "look" /\ tx[s].kind # "build"
      /\ tx' = [tx EXCEPT ![s] = IF May(s) THEN u ELSE Idle]
      /\ UNCHANGED <<documents, money, runs>>
  BY Zenon DEF Look
<1>2. CASE ~May(s)
  BY <1>1, <1>2, StopKeeps
<1>3. CASE May(s)
  <2>1. tx[s] \in Request /\ tx[s].kind \in Kinds /\ Sound(s) /\ "commit" \in Stages
    BY RequestFields DEF Inv, Shape, Stages
  <2>2. u \in Request /\ u.has = tx[s].has /\ u.stage = "commit" /\ u.lines = tx[s].lines
        /\ Same(tx[s], u)
    BY <2>1, MovedRequest, Zenon
  <2> HIDE DEF u
  <2>3. tx' = [tx EXCEPT ![s] = u]
    BY <1>1, <1>3, Zenon
  <2>4. tx'[s] = u /\ UNCHANGED <<documents, money, runs>>
    BY <1>1, <2>3 DEF Inv, Shape
  <2>5. \A t \in Sessions \ {s} : u.has \cap tx[t].has = {}
    BY <2>2 DEF Inv, Exclusive
  <2>6. Sound(s)'
    <3> USE DEF documents, money
    <3>1. CASE tx[s].kind = "allocate"
      <4>1. AllocateSound(s) /\ MayAllocate(s)
        BY <1>1, <1>3, <2>1, <3>1, Finds DEF Sound
      <4>2. MayAllocate(s)'
        BY <2>2, <2>4, <4>1 DEF MayAllocate, Same, Unallocated, Outstanding
      <4>3. AllocateSound(s)'
        BY <1>1, <2>2, <2>4, <4>1, <4>2 DEF AllocateSound, Same, Past, Judging, HasDocument
      <4> QED BY <2>2, <2>4, <3>1, <4>3 DEF Sound, Same
    <3>2. CASE tx[s].kind = "reimburse"
      <4>1. ReimburseSound(s) /\ MayReimburse(s)
        BY <1>1, <1>3, <2>1, <3>2, Finds DEF Sound
      <4>2. MayReimburse(s)'
        BY <2>2, <2>4, <4>1 DEF MayReimburse, Same, Outstanding
      <4>3. ReimburseSound(s)'
        BY <1>1, <2>2, <2>4, <4>1, <4>2 DEF ReimburseSound, Same, Judging, HasDocument
      <4> QED BY <2>2, <2>4, <3>2, <4>3 DEF Sound, Same
    <3>3. CASE tx[s].kind \in {"approve", "execute"}
      <4>1. DecideSound(s) /\ \A i \in OnRun(tx[s].run) : ~Stale(tx[s].run, i)
        BY <1>1, <1>3, <2>1, <3>3, Finds DEF Sound
      <4>2. tx'[s].run = tx[s].run /\ OnRun(tx[s].run)' = OnRun(tx[s].run)
        BY <2>2, <2>4 DEF OnRun, Same
      <4>3. \A i \in OnRun(tx[s].run) : ~Stale(tx[s].run, i)'
        BY <2>2, <2>4, <4>1, <4>2 DEF Stale, OnRun, Open, Outstanding, MatchAllows
      <4>4. DecideSound(s)'
        BY <1>1, <2>2, <2>4, <4>1, <4>2, <4>3 DEF DecideSound, Same, Past, Judging, HasDocument
      <4> QED BY <2>2, <2>4, <3>3, <4>4 DEF Sound, Same
    <3> QED BY <1>1, <2>1, <3>1, <3>2, <3>3 DEF Kinds
  <2> QED BY <1>1, <2>2, <2>3, <2>5, <2>6, MoveKeeps
<1> QED BY <1>2, <1>3

\* A run is built of what is on no other.
LEMMA SelectKeeps == ASSUME Inv, NEW s \in Sessions, Select(s) PROVE Inv'
<1>1. /\ tx[s].stage = "look" /\ tx[s].kind = "build"
      /\ UNCHANGED <<documents, money, runs>>
  BY Zenon DEF Select
<1>2. PICK due \in SUBSET Invoices :
        tx' = [tx EXCEPT ![s] = [tx[s] EXCEPT !.lines = Selection(s, due), !.stage = "commit"]]
  BY Zenon DEF Select
<1> DEFINE lines == Selection(s, due)
           u == [tx[s] EXCEPT !.lines = lines, !.stage = "commit"]
<1>3. tx[s] \in Request /\ Sound(s) /\ "commit" \in Stages
  BY RequestFields DEF Inv, Shape, Stages
<1>4. lines \in [Invoices -> Nat] /\ \A i \in Invoices : lines[i] > 0 => ~InOpenRun(i)
  <2>1. \A i \in Invoices : Outstanding(i) \in Int
    BY DEF Inv, Shape, Outstanding, Documents
  <2> QED BY <2>1 DEF Selection, Payable
<1> HIDE DEF lines
<1>5. u \in Request /\ u.has = tx[s].has /\ u.stage = "commit" /\ u.lines = lines /\ Same(tx[s], u)
  BY <1>3, <1>4, SelectedRequest, Zenon
<1>6. tx' = [tx EXCEPT ![s] = u]
  BY <1>2, Zenon DEF lines
<1> HIDE DEF u
<1>7. tx'[s] = u
  BY <1>6 DEF Inv, Shape
<1>8. \A t \in Sessions \ {s} : u.has \cap tx[t].has = {}
  BY <1>5 DEF Inv, Exclusive
<1>9. Sound(s)'
  <2>1. BuildSound(s)
    BY <1>1, <1>3 DEF Sound
  <2>2. ~Clashes(s)'
    BY <1>1, <1>4, <1>5, <1>7 DEF Clashes, InOpenRun, Open, OnRun
  <2>3. BuildSound(s)'
    BY <1>1, <1>5, <1>7, <2>1, <2>2 DEF BuildSound, Same, Past
  <2> QED BY <1>1, <1>5, <1>7, <2>3 DEF Sound, Same
<1> QED BY <1>1, <1>5, <1>6, <1>8, <1>9, MoveKeeps

-----------------------------------------------------------------------------
(* Steps that change what is owed, paid or on a run.                        *)

\* What a step of somebody else leaves of the rows that t holds: what is
\* settled may only be taken back.
SparesDocuments(t) ==
  \A d \in Documents : HasDocument(t, d) =>
    /\ total'[d] = total[d] /\ settled'[d] <= settled[d]
    /\ d \in cancelled' <=> d \in cancelled
    /\ d \in stopped' <=> d \in stopped
    /\ d \in matched' <=> d \in matched
    /\ d \in closed' <=> d \in closed

SparesPayments(t) ==
  \A p \in Payments : paid[p] > 0 =>
    /\ paid'[p] > 0
    /\ Row("payment", p) \in tx[t].has =>
         paid'[p] = paid[p] /\ drawn'[p] = drawn[p] /\ (p \in reversed' <=> p \in reversed)

SparesRuns(t) ==
  \A r \in Runs :
    /\ Row("run", r) \in tx[t].has /\ runs[r].status # "NONE" => runs'[r] = runs[r]
    /\ Row("builder", 0) \in tx[t].has /\ runs[r].status = "NONE" => runs'[r] = runs[r]

\* No run's lines change, and one that becomes open has none that is on another.
RunsAgree ==
  \A r \in Runs :
    /\ runs[r].status # "NONE" => runs'[r].lines = runs[r].lines /\ runs'[r].waived = runs[r].waived
    /\ Open(r)' /\ ~Open(r) => /\ runs[r].status = "NONE"
                               /\ \A i \in OnRun(r)' : ~InOpenRun(i)

Spares(t) == SparesDocuments(t) /\ SparesPayments(t) /\ SparesRuns(t)

LEMMA SparedIsSound ==
  ASSUME Shape, Shape', RunsAgree, NEW t \in Sessions, Sound(t), tx'[t] = tx[t], Spares(t)
  PROVE  Sound(t)'
<1> SUFFICES ASSUME tx[t].stage # "idle" PROVE Sound(t)'
  BY DEF Sound
<1>1. CASE tx[t].kind = "allocate"
  <2>1. AllocateSound(t)
    BY <1>1 DEF Sound
  <2> DEFINE p == tx[t].payment
             d == tx[t].doc
  <2>2. p \in Payments /\ d \in Documents /\ paid[p] > 0 /\ paid'[p] > 0
    BY <2>1 DEF AllocateSound, Spares, SparesPayments
  <2>3. CASE tx[t].stage = "commit"
    <3>1. MayAllocate(t) /\ HasDocument(t, d) /\ Row("payment", p) \in tx[t].has
      BY <2>1, <2>3 DEF AllocateSound, Past, Judging
    <3>2. /\ total'[d] = total[d] /\ settled'[d] <= settled[d]
          /\ d \in cancelled' <=> d \in cancelled
          /\ d \in stopped' <=> d \in stopped
      BY <2>2, <3>1 DEF Spares, SparesDocuments
    <3>3. paid'[p] = paid[p] /\ drawn'[p] = drawn[p] /\ (p \in reversed' <=> p \in reversed)
      BY <2>2, <3>1 DEF Spares, SparesPayments
    <3>4. /\ total[d] \in Nat /\ settled[d] \in Int /\ settled'[d] \in Int
          /\ tx[t].cash \in Nat /\ tx[t].kept \in Nat
      BY <2>2, RequestFields DEF Shape
    <3>5. MayAllocate(t)'
      BY <3>1, <3>2, <3>3, <3>4 DEF MayAllocate, Unallocated, Outstanding
    <3> QED BY <1>1, <2>1, <2>2, <3>3, <3>5 DEF Sound, AllocateSound, Past, Judging, HasDocument
  <2>4. CASE tx[t].stage # "commit"
    <3>1. Past(t) => (p \in reversed' <=> p \in reversed)
      BY <2>1, <2>2 DEF AllocateSound, Spares, SparesPayments
    <3> QED BY <1>1, <2>1, <2>2, <2>4, <3>1 DEF Sound, AllocateSound, Past, Judging, HasDocument
  <2> QED BY <2>3, <2>4
<1>2. CASE tx[t].kind = "reimburse"
  <2>1. ReimburseSound(t) /\ tx[t].doc \in Documents
    BY <1>2 DEF Sound, ReimburseSound, Documents
  <2> DEFINE d == tx[t].doc
  <2>2. CASE tx[t].stage = "commit"
    <3>1. MayReimburse(t) /\ HasDocument(t, d)
      BY <2>1, <2>2 DEF ReimburseSound, Judging
    <3>2. total'[d] = total[d] /\ settled'[d] <= settled[d] /\ (d \in closed' <=> d \in closed)
      BY <2>1, <3>1 DEF Spares, SparesDocuments
    <3>3. total[d] \in Nat /\ settled[d] \in Int /\ settled'[d] \in Int /\ tx[t].cash \in Nat
      BY <2>1, RequestFields DEF Shape
    <3>4. MayReimburse(t)'
      BY <3>1, <3>2, <3>3 DEF MayReimburse, Outstanding
    <3> QED BY <1>2, <2>1, <3>4 DEF Sound, ReimburseSound, Judging, HasDocument
  <2>3. CASE tx[t].stage # "commit"
    BY <1>2, <2>1, <2>3 DEF Sound, ReimburseSound, Judging, HasDocument
  <2> QED BY <2>2, <2>3
<1>3. CASE tx[t].kind = "build"
  <2>1. BuildSound(t)
    BY <1>3 DEF Sound
  <2>2. Past(t) => runs'[tx[t].run] = runs[tx[t].run]
    BY <2>1 DEF BuildSound, Spares, SparesRuns
  <2>3. ASSUME tx[t].stage = "commit" PROVE ~Clashes(t)'
    <3>1. Row("builder", 0) \in tx[t].has /\ ~Clashes(t)
      BY <2>1, <2>3 DEF BuildSound, Past
    <3>2. ASSUME NEW r \in Runs, Open(r)' PROVE Open(r) /\ runs'[r].lines = runs[r].lines
      <4>1. runs[r].status # "NONE"
        BY <3>1, <3>2 DEF Spares, SparesRuns, Open
      <4> QED BY <3>2, <4>1 DEF RunsAgree
    <3> QED BY <3>1, <3>2 DEF Clashes, InOpenRun, OnRun
  <2> QED BY <1>3, <2>1, <2>2, <2>3 DEF Sound, BuildSound, Past
<1>4. CASE tx[t].kind \in {"approve", "execute"}
  <2> DEFINE r == tx[t].run
  <2>1. DecideSound(t) /\ r \in Runs
    BY <1>4 DEF Sound, DecideSound
  <2>2. Past(t) => runs'[r] = runs[r] /\ runs[r].status \in {"DRAFT", "APPROVED"}
    BY <1>4, <2>1 DEF DecideSound, Spares, SparesRuns
  <2>3. Past(t) => OnRun(r)' = OnRun(r)
    BY <2>2 DEF OnRun
  <2>4. ASSUME tx[t].stage = "commit", NEW i \in OnRun(r) PROVE ~Stale(r, i)'
    <3>1. Past(t) /\ ~Stale(r, i) /\ HasDocument(t, i) /\ i \in Invoices /\ i \in Documents
      BY <2>1, <2>4 DEF DecideSound, Past, Judging, OnRun, Documents
    <3>2. /\ total'[i] = total[i] /\ settled'[i] <= settled[i]
          /\ i \in cancelled' <=> i \in cancelled
          /\ i \in stopped' <=> i \in stopped
          /\ i \in matched' <=> i \in matched
      BY <3>1 DEF Spares, SparesDocuments
    <3>3. ASSUME NEW q \in Runs \ {r}, Open(q)', i \in OnRun(q)' PROVE FALSE
      <4>1. InOpenRun(i)
        BY <2>1, <2>2, <2>4, <3>1 DEF InOpenRun, Open
      <4>2. Open(q)
        BY <3>3, <4>1 DEF RunsAgree
      <4>3. i \in OnRun(q)
        BY <3>3, <4>2 DEF RunsAgree, Open, OnRun
      <4> QED BY <3>1, <4>2, <4>3 DEF Stale
    <3>4. ~(~MatchAllows(i) /\ i \notin runs[r].waived)'
      BY <2>2, <3>1, <3>2 DEF Stale, MatchAllows
    <3>5. /\ total[i] \in Nat /\ settled[i] \in Int /\ settled'[i] \in Int
          /\ runs[r].lines[i] \in Nat
      <4>1. runs[r] \in Run
        BY <2>1 DEF Shape
      <4> QED BY <3>1, <4>1 DEF Shape, Run
    <3>6. ~(Outstanding(i) < runs[r].lines[i])'
      BY <2>2, <3>1, <3>2, <3>5 DEF Stale, Outstanding
    <3> QED BY <3>1, <3>2, <3>3, <3>4, <3>6 DEF Stale
  <2>5. DecideSound(t)'
    BY <2>1, <2>2, <2>3, <2>4 DEF DecideSound, Past, Judging, HasDocument
  <2> QED BY <1>4, <2>5 DEF Sound
<1>5. tx[t].kind \in Kinds
  BY RequestFields DEF Shape
<1> QED BY <1>1, <1>2, <1>3, <1>4, <1>5 DEF Kinds

\* A transaction commits, or a handler of one row does.
LEMMA CommitKeeps ==
  ASSUME Inv, NEW s \in Sessions, tx' = [tx EXCEPT ![s] = Idle], Shape', Money', RunsAgree,
         \A t \in Sessions \ {s} : Spares(t)
  PROVE  Inv'
<1>1. tx'[s] = Idle /\ \A t \in Sessions \ {s} : tx'[t] = tx[t]
  BY DEF Inv, Shape
<1>2. Exclusive'
  BY <1>1, IdleRequest DEF Inv, Exclusive
<1>3. Sound(s)'
  BY <1>1, IdleRequest DEF Sound
<1>4. ASSUME NEW t \in Sessions \ {s} PROVE Sound(t)'
  BY <1>1, SparedIsSound DEF Inv
<1> QED BY <1>2, <1>3, <1>4 DEF Inv

LEMMA HandlerKeeps ==
  ASSUME Inv, UNCHANGED tx, Shape', Money', RunsAgree, \A t \in Sessions : Spares(t)
  PROVE  Inv'
<1>1. Exclusive'
  BY DEF Inv, Exclusive
<1>2. ASSUME NEW t \in Sessions PROVE Sound(t)'
  BY SparedIsSound DEF Inv
<1> QED BY <1>1, <1>2 DEF Inv

\* A run with its status replaced.
LEMMA RunStatus ==
  ASSUME NEW run \in Run, NEW status \in States
  PROVE  LET new == [run EXCEPT !.status = status]
         IN  /\ new \in Run /\ new.status = status
             /\ new.lines = run.lines /\ new.waived = run.waived
  BY SMT DEF Run

LEMMA CommitAllocationKeeps ==
  ASSUME Inv, NEW s \in Sessions, CommitAllocation(s) PROVE Inv'
<1> DEFINE p == tx[s].payment
           d == tx[s].doc
           cash == tx[s].cash
           settles == tx[s].cash + tx[s].kept
<1>1. /\ tx[s].stage = "commit" /\ tx[s].kind = "allocate"
      /\ applied' = [applied EXCEPT ![p] = [applied[p] EXCEPT ![d] = applied[p][d] + settles]]
      /\ drawn' = [drawn EXCEPT ![p] = drawn[p] + cash]
      /\ settled' = [settled EXCEPT ![d] = settled[d] + settles]
      /\ tx' = [tx EXCEPT ![s] = Idle]
      /\ UNCHANGED <<total, cancelled, stopped, matched, paid, reversed, closed, runs>>
  BY DEF CommitAllocation, Done, documents
<1>2. AllocateSound(s) /\ MayAllocate(s)
  BY <1>1 DEF Inv, Sound, AllocateSound
<1>3. p \in Payments /\ d \in Documents /\ cash \in Nat /\ settles \in Nat /\ settles > 0
  BY <1>2, RequestFields DEF AllocateSound, Inv, Shape
<1>4. p \notin reversed /\ Row("payment", p) \in tx[s].has /\ HasDocument(s, d)
  BY <1>1, <1>2 DEF AllocateSound, Past, Judging
<1>5. /\ d \notin cancelled /\ d \notin stopped
      /\ cash <= paid[p] - drawn[p] /\ settles <= total[d] - settled[d]
  BY <1>2 DEF MayAllocate, Unallocated, Outstanding
<1> HIDE DEF p, d, cash, settles
<1>6. Shape'
  <2>1. applied[p] \in [Documents -> Nat] /\ drawn[p] \in Nat /\ settled[d] \in Int
    BY <1>3 DEF Inv, Shape
  <2>2. applied' \in [Payments -> [Documents -> Nat]]
    <3>1. [applied[p] EXCEPT ![d] = applied[p][d] + settles] \in [Documents -> Nat]
      BY <1>3, <2>1
    <3> QED BY <1>1, <3>1 DEF Inv, Shape
  <2>3. drawn' \in [Payments -> Nat] /\ settled' \in [Documents -> Int]
    BY <1>1, <1>3, <2>1 DEF Inv, Shape
  <2>4. tx' \in [Sessions -> Request]
    BY <1>1, IdleRequest DEF Inv, Shape
  <2> QED BY <1>1, <2>2, <2>3, <2>4 DEF Inv, Shape
<1>7. Money'
  <2> USE DEF Inv, Shape, Money
  <2>1. NotOverpaid'
    BY <1>1, <1>3, <1>5 DEF NotOverpaid, Due
  <2>2. NotOverspent'
    BY <1>1, <1>3, <1>4, <1>5 DEF NotOverspent
  <2>3. RunsPayOnce' /\ TakenBack'
    BY <1>1 DEF RunsPayOnce, TakenBack
  <2> QED BY <2>1, <2>2, <2>3
<1>8. ASSUME NEW t \in Sessions \ {s} PROVE Spares(t)
  <2>1. ~HasDocument(t, d) /\ Row("payment", p) \notin tx[t].has
    BY <1>4 DEF Inv, Exclusive, HasDocument
  <2>2. SparesDocuments(t)
    BY <1>1, <2>1 DEF SparesDocuments, Inv, Shape
  <2>3. SparesPayments(t)
    BY <1>1, <2>1 DEF SparesPayments, Inv, Shape
  <2>4. SparesRuns(t)
    BY <1>1 DEF SparesRuns
  <2> QED BY <2>2, <2>3, <2>4 DEF Spares
<1>9. RunsAgree
  BY <1>1 DEF RunsAgree, Open
<1> QED BY <1>1, <1>6, <1>7, <1>8, <1>9, CommitKeeps

LEMMA CommitReimbursementKeeps ==
  ASSUME Inv, NEW s \in Sessions, CommitReimbursement(s) PROVE Inv'
<1> DEFINE c == tx[s].doc
           cash == tx[s].cash
<1>1. /\ tx[s].stage = "commit" /\ tx[s].kind = "reimburse"
      /\ settled' = [settled EXCEPT ![c] = settled[c] + cash]
      /\ closed' = closed \/ closed' = closed \cup {c}
      /\ tx' = [tx EXCEPT ![s] = Idle]
      /\ UNCHANGED <<total, cancelled, stopped, matched, paid, reversed, applied, drawn, runs>>
  BY DEF CommitReimbursement, Done, documents
<1>2. ReimburseSound(s) /\ MayReimburse(s) /\ HasDocument(s, c)
  BY <1>1 DEF Inv, Sound, ReimburseSound, Judging
<1>3. c \in Claims /\ c \in Documents /\ c \notin Invoices /\ cash \in Nat /\ cash > 0
  BY <1>2, RequestFields DEF ReimburseSound, Inv, Shape, Documents
<1>4. cash <= total[c] - settled[c]
  BY <1>2 DEF MayReimburse, Outstanding
<1> HIDE DEF c, cash
<1>5. Shape'
  <2>1. settled' \in [Documents -> Int]
    BY <1>1, <1>3 DEF Inv, Shape
  <2>2. tx' \in [Sessions -> Request]
    BY <1>1, IdleRequest DEF Inv, Shape
  <2> QED BY <1>1, <2>1, <2>2 DEF Inv, Shape
<1>6. Money'
  <2> USE DEF Inv, Shape, Money
  <2>1. NotOverpaid'
    BY <1>1, <1>3, <1>4 DEF NotOverpaid, Due
  <2>2. NotOverspent' /\ RunsPayOnce' /\ TakenBack'
    BY <1>1 DEF NotOverspent, RunsPayOnce, TakenBack
  <2> QED BY <2>1, <2>2
<1>7. ASSUME NEW t \in Sessions \ {s} PROVE Spares(t)
  <2>1. ~HasDocument(t, c)
    BY <1>2 DEF Inv, Exclusive, HasDocument, c
  <2>2. SparesDocuments(t)
    BY <1>1, <2>1 DEF SparesDocuments, Inv, Shape
  <2>3. SparesPayments(t) /\ SparesRuns(t)
    BY <1>1 DEF SparesPayments, SparesRuns
  <2> QED BY <2>2, <2>3 DEF Spares
<1>8. RunsAgree
  BY <1>1 DEF RunsAgree, Open
<1> QED BY <1>1, <1>5, <1>6, <1>7, <1>8, CommitKeeps

LEMMA CommitRunKeeps == ASSUME Inv, NEW s \in Sessions, CommitRun(s) PROVE Inv'
<1> DEFINE r == tx[s].run
           new == [status |-> "DRAFT", lines |-> tx[s].lines, waived |-> tx[s].waived]
<1>1. /\ tx[s].stage = "commit" /\ tx[s].kind = "build"
      /\ runs' = IF Clashes(s) THEN runs ELSE [runs EXCEPT ![r] = new]
      /\ tx' = [tx EXCEPT ![s] = Idle]
      /\ UNCHANGED <<documents, money>>
  BY Zenon DEF CommitRun, Done
<1>2. BuildSound(s)
  BY <1>1 DEF Inv, Sound
<1>3. /\ r \in Runs /\ runs[r].status = "NONE" /\ Row("builder", 0) \in tx[s].has /\ ~Clashes(s)
  BY <1>1, <1>2 DEF BuildSound, Past
<1>4. tx[s] \in Request
  BY DEF Inv, Shape
<1>5. /\ new \in Run /\ new.status = "DRAFT" /\ new.lines = tx[s].lines
  BY <1>4, RequestFields DEF Run, States
<1>6. runs' = [runs EXCEPT ![r] = new]
  BY <1>1, <1>3, Zenon
<1> HIDE DEF new, r
<1>7. runs'[r] = new /\ \A q \in Runs \ {r} : runs'[q] = runs[q]
  BY <1>3, <1>6 DEF Inv, Shape
<1> USE DEF documents, money
<1>8. Shape'
  BY <1>1, <1>5, <1>6, IdleRequest DEF Inv, Shape
<1>9. Money'
  <2>1. RunsPayOnce'
    BY <1>1, <1>3, <1>7 DEF Inv, Money, RunsPayOnce
  <2> QED BY <1>1, <2>1 DEF Inv, Money, NotOverpaid, NotOverspent, TakenBack, Due
<1>10. ASSUME NEW t \in Sessions \ {s} PROVE Spares(t)
  <2>1. Row("builder", 0) \notin tx[t].has
    BY <1>3 DEF Inv, Exclusive
  <2>2. SparesRuns(t)
    BY <1>3, <1>7, <2>1 DEF SparesRuns
  <2>3. SparesDocuments(t)
    BY <1>1 DEF SparesDocuments, Inv, Shape
  <2>4. SparesPayments(t)
    BY <1>1 DEF SparesPayments
  <2> QED BY <2>2, <2>3, <2>4 DEF Spares
<1>11. RunsAgree
  <2>1. \A i \in Invoices : runs'[r].lines[i] > 0 => ~InOpenRun(i)
    BY <1>3, <1>5, <1>7 DEF Clashes
  <2>2. ASSUME NEW q \in Runs, Open(q)', ~Open(q) PROVE q = r
    BY <1>7, <2>2 DEF Open
  <2> QED BY <1>3, <1>7, <2>1, <2>2 DEF RunsAgree, Open, OnRun
<1> QED BY <1>1, <1>8, <1>9, <1>10, <1>11, CommitKeeps

LEMMA CommitApprovalKeeps == ASSUME Inv, NEW s \in Sessions, CommitApproval(s) PROVE Inv'
<1> DEFINE r == tx[s].run
           new == [runs[r] EXCEPT !.status = "APPROVED"]
<1>1. /\ tx[s].stage = "commit" /\ tx[s].kind = "approve"
      /\ runs' = [runs EXCEPT ![r] = new]
      /\ tx' = [tx EXCEPT ![s] = Idle]
      /\ UNCHANGED <<documents, money>>
  BY Zenon DEF CommitApproval, Done
<1>2. DecideSound(s)
  BY <1>1 DEF Inv, Sound
<1>3. r \in Runs /\ runs[r].status = "DRAFT" /\ Row("run", r) \in tx[s].has
  BY <1>1, <1>2 DEF DecideSound, Past
<1>4. runs[r] \in Run /\ "APPROVED" \in States
  BY <1>3 DEF Inv, Shape, States
<1>5. /\ new \in Run /\ new.status = "APPROVED"
      /\ new.lines = runs[r].lines /\ new.waived = runs[r].waived
  BY <1>4, RunStatus, Zenon
<1> HIDE DEF new, r
<1>6. runs'[r] = new /\ \A q \in Runs \ {r} : runs'[q] = runs[q]
  BY <1>1, <1>3 DEF Inv, Shape
<1> USE DEF documents, money
<1>7. Shape'
  BY <1>1, <1>5, IdleRequest DEF Inv, Shape
<1>8. Money'
  <2>1. RunsPayOnce'
    BY <1>1, <1>3, <1>6 DEF Inv, Money, RunsPayOnce
  <2> QED BY <1>1, <2>1 DEF Inv, Money, NotOverpaid, NotOverspent, TakenBack, Due
<1>9. ASSUME NEW t \in Sessions \ {s} PROVE Spares(t)
  <2>1. Row("run", r) \notin tx[t].has
    BY <1>3 DEF Inv, Exclusive
  <2>2. SparesRuns(t)
    BY <1>3, <1>6, <2>1 DEF SparesRuns
  <2>3. SparesDocuments(t)
    BY <1>1 DEF SparesDocuments, Inv, Shape
  <2>4. SparesPayments(t)
    BY <1>1 DEF SparesPayments
  <2> QED BY <2>2, <2>3, <2>4 DEF Spares
<1>10. RunsAgree
  BY <1>3, <1>5, <1>6 DEF RunsAgree, Open
<1> QED BY <1>1, <1>7, <1>8, <1>9, <1>10, CommitKeeps

\* The payments of a run are those that were not made before.
LEMMA RunPayments ==
  ASSUME Inv, NEW s \in Sessions, tx[s].run \in Runs, runs[tx[s].run].status # "PAID",
         NEW p \in Payments, Pays(s, p)
  PROVE  p[2] \in Invoices /\ p[2] \in Documents /\ paid[p] = 0 /\ p \notin reversed
<1>1. p[2] \in Invoices /\ p = <<tx[s].run, p[2]>>
  BY DEF Pays, Payments
<1>2. ~(paid[p] > 0)
  BY <1>1 DEF Inv, Money, RunsPayOnce
<1>3. paid[p] \in Nat
  BY DEF Inv, Shape
<1> QED BY <1>1, <1>2, <1>3 DEF Inv, Money, TakenBack, Documents

LEMMA CommitExecutionKeeps == ASSUME Inv, NEW s \in Sessions, CommitExecution(s) PROVE Inv'
<1> DEFINE r == tx[s].run
           lines == runs[r].lines
           new == [runs[r] EXCEPT !.status = "PAID"]
           on(p) == p[2]
<1>1. /\ tx[s].stage = "commit" /\ tx[s].kind = "execute"
      /\ paid' = [p \in Payments |-> IF Pays(s, p) THEN lines[on(p)] ELSE paid[p]]
      /\ drawn' = [p \in Payments |-> IF Pays(s, p) THEN lines[on(p)] ELSE drawn[p]]
      /\ applied' = [p \in Payments |-> [d \in Documents |->
                       IF Pays(s, p) /\ d = on(p) THEN lines[d] ELSE applied[p][d]]]
      /\ settled' = [d \in Documents |-> IF d \in Invoices THEN settled[d] + lines[d]
                                                           ELSE settled[d]]
      /\ runs' = [runs EXCEPT ![r] = new]
      /\ tx' = [tx EXCEPT ![s] = Idle]
      /\ UNCHANGED <<total, cancelled, stopped, matched, reversed, closed>>
  BY DEF CommitExecution, Done, documents
<1>2. DecideSound(s)
  BY <1>1 DEF Inv, Sound
<1>3. r \in Runs /\ runs[r].status = "APPROVED" /\ Row("run", r) \in tx[s].has
  BY <1>1, <1>2 DEF DecideSound, Past
<1>4. \A i \in OnRun(r) : HasDocument(s, i) /\ ~Stale(r, i)
  BY <1>1, <1>2 DEF DecideSound, Judging
<1>5. runs[r] \in Run /\ "PAID" \in States /\ lines \in [Invoices -> Nat]
  <2>1. runs[r] \in Run
    BY <1>3 DEF Inv, Shape
  <2> QED BY <2>1 DEF States, Run
<1>6. /\ new \in Run /\ new.status = "PAID"
      /\ new.lines = runs[r].lines /\ new.waived = runs[r].waived
  BY <1>5, RunStatus, Zenon
<1>7. ASSUME NEW p \in Payments, Pays(s, p)
      PROVE  on(p) \in Invoices /\ on(p) \in Documents /\ paid[p] = 0 /\ p \notin reversed
  BY <1>3, <1>7, RunPayments
<1>8. ASSUME NEW i \in Invoices, lines[i] > 0
      PROVE  /\ HasDocument(s, i) /\ i \notin cancelled \cup stopped
             /\ lines[i] <= total[i] - settled[i]
  <2>1. i \in OnRun(r)
    BY <1>8 DEF OnRun
  <2>2. HasDocument(s, i) /\ ~Stale(r, i)
    BY <1>4, <2>1
  <2>3. total[i] \in Nat /\ settled[i] \in Int /\ lines[i] \in Nat
    BY <1>5 DEF Inv, Shape, Documents
  <2> QED BY <2>2, <2>3 DEF Stale, Outstanding
<1> HIDE DEF new, r, lines, on
<1>9. runs'[r] = new /\ \A q \in Runs \ {r} : runs'[q] = runs[q]
  BY <1>1, <1>3 DEF Inv, Shape
<1>10. Shape'
  <2>1. paid' \in [Payments -> Nat] /\ drawn' \in [Payments -> Nat]
    BY <1>1, <1>5, <1>7 DEF Inv, Shape
  <2>2. applied' \in [Payments -> [Documents -> Nat]]
    <3>1. ASSUME NEW p \in Payments, NEW d \in Documents
          PROVE  (IF Pays(s, p) /\ d = on(p) THEN lines[d] ELSE applied[p][d]) \in Nat
      <4>1. Pays(s, p) /\ d = on(p) => lines[d] \in Nat
        BY <1>5, <1>7
      <4>2. applied[p][d] \in Nat
        BY DEF Inv, Shape
      <4> QED BY <4>1, <4>2
    <3> QED BY <1>1, <3>1
  <2>3. settled' \in [Documents -> Int]
    <3>1. ASSUME NEW d \in Documents
          PROVE  (IF d \in Invoices THEN settled[d] + lines[d] ELSE settled[d]) \in Int
      <4>1. settled[d] \in Int /\ (d \in Invoices => lines[d] \in Nat)
        BY <1>5 DEF Inv, Shape
      <4> QED BY <4>1
    <3> QED BY <1>1, <3>1
  <2>4. tx' \in [Sessions -> Request] /\ runs' \in [Runs -> Run]
    BY <1>1, <1>6, IdleRequest DEF Inv, Shape
  <2> QED BY <1>1, <2>1, <2>2, <2>3, <2>4 DEF Inv, Shape
<1>11. Money'
  <2> USE DEF Inv, Money
  <2>1. NotOverpaid'
    <3>1. ASSUME NEW i \in Invoices PROVE settled'[i] <= Due(i)'
      <4>1. i \in Documents /\ lines[i] \in Nat /\ settled[i] \in Int /\ total[i] \in Nat
        BY <1>5 DEF Shape, Documents
      <4>2. settled'[i] = settled[i] + lines[i] /\ Due(i)' = Due(i) /\ settled[i] <= Due(i)
        BY <1>1, <4>1 DEF NotOverpaid, Due
      <4> QED BY <1>8, <4>1, <4>2 DEF Due
    <3>2. ASSUME NEW d \in Documents, d \notin Invoices PROVE settled'[d] <= Due(d)'
      BY <1>1, <3>2 DEF NotOverpaid, Due
    <3> QED BY <3>1, <3>2 DEF NotOverpaid
  <2>2. NotOverspent'
    <3>1. ASSUME NEW p \in Payments, Pays(s, p)
          PROVE  drawn'[p] <= paid'[p] /\ p \notin reversed'
      <4>1. drawn'[p] = lines[on(p)] /\ paid'[p] = lines[on(p)] /\ p \notin reversed
        BY <1>1, <1>7, <3>1
      <4>2. lines[on(p)] \in Nat
        BY <1>5, <1>7, <3>1
      <4> QED BY <1>1, <4>1, <4>2
    <3>2. ASSUME NEW p \in Payments, ~Pays(s, p)
          PROVE  /\ drawn'[p] = drawn[p] /\ paid'[p] = paid[p]
                 /\ \A d \in Documents : applied'[p][d] = applied[p][d]
      BY <1>1, <3>2
    <3> QED BY <1>1, <3>1, <3>2 DEF NotOverspent
  <2>3. RunsPayOnce'
    <3>1. ASSUME NEW q \in Runs \ {r}, NEW i \in Invoices PROVE paid'[<<q, i>>] = paid[<<q, i>>]
      BY <1>1 DEF Payments, Pays, r
    <3>2. \A q \in Runs \ {r}, i \in Invoices : paid'[<<q, i>>] > 0 => runs'[q].status = "PAID"
      BY <1>9, <3>1 DEF RunsPayOnce
    <3> QED BY <1>6, <1>9, <3>2 DEF RunsPayOnce
  <2>4. TakenBack'
    <3>1. ASSUME NEW p \in reversed PROVE p \in Payments /\ paid'[p] = paid[p]
      BY <1>1, <1>7 DEF Shape
    <3> QED BY <1>1, <3>1 DEF TakenBack
  <2> QED BY <2>1, <2>2, <2>3, <2>4
<1>12. ASSUME NEW t \in Sessions \ {s} PROVE Spares(t)
  <2>1. Row("run", r) \notin tx[t].has
    BY <1>3 DEF Inv, Exclusive
  <2>2. SparesRuns(t)
    BY <1>3, <1>9, <2>1 DEF SparesRuns
  <2>3. SparesDocuments(t)
    <3>1. ASSUME NEW d \in Documents, HasDocument(t, d) PROVE settled'[d] <= settled[d]
      <4>1. CASE d \notin Invoices
        BY <1>1, <4>1 DEF Inv, Shape
      <4>2. CASE d \in Invoices
        <5>1. ~HasDocument(s, d)
          BY <3>1 DEF Inv, Exclusive, HasDocument
        <5>2. lines[d] = 0
          BY <1>5, <1>8, <4>2, <5>1
        <5> QED BY <1>1, <4>2, <5>2 DEF Inv, Shape
      <4> QED BY <4>1, <4>2
    <3> QED BY <1>1, <3>1 DEF SparesDocuments
  <2>4. SparesPayments(t)
    BY <1>1, <1>7 DEF SparesPayments
  <2> QED BY <2>2, <2>3, <2>4 DEF Spares
<1>13. RunsAgree
  BY <1>3, <1>6, <1>9 DEF RunsAgree, Open
<1> QED BY <1>1, <1>10, <1>11, <1>12, <1>13, CommitKeeps

\* A payment typed in is no run's.
LEMMA PayKeeps == ASSUME Inv, NEW p \in {0} \X Typed, Pay(p) PROVE Inv'
<1>1. PICK n \in Amounts : paid' = [paid EXCEPT ![p] = n]
  BY DEF Pay
<1>2. /\ paid[p] = 0 /\ p \in Payments /\ n \in Nat /\ n > 0
      /\ UNCHANGED <<documents, reversed, applied, drawn, settled, closed, runs, tx>>
  BY DEF Pay, Payments, Changed
<1>3. \A q \in Payments \ {p} : paid'[q] = paid[q]
  BY <1>1 DEF Inv, Shape
<1>4. paid'[p] = n
  BY <1>1, <1>2 DEF Inv, Shape
<1> USE DEF documents
<1>5. Shape'
  BY <1>1, <1>2 DEF Inv, Shape
<1>6. Money'
  <2> USE DEF Inv, Money
  <2>1. NotOverpaid'
    BY <1>2 DEF NotOverpaid, Due
  <2>2. NotOverspent'
    <3>1. \A q \in Payments : drawn[q] \in Nat /\ paid[q] \in Nat
      BY DEF Shape
    <3> QED BY <1>2, <1>3, <1>4, <3>1 DEF NotOverspent
  <2>3. RunsPayOnce'
    <3>1. \A r \in Runs, i \in Invoices : <<r, i>> \in Payments \ {p}
      BY DEF Payments
    <3> QED BY <1>2, <1>3, <3>1 DEF RunsPayOnce
  <2>4. TakenBack'
    BY <1>2, <1>3, <1>4 DEF TakenBack, Shape
  <2> QED BY <2>1, <2>2, <2>3, <2>4
<1>7. ASSUME NEW t \in Sessions PROVE Spares(t)
  <2>1. SparesDocuments(t) /\ SparesRuns(t)
    BY <1>2 DEF SparesDocuments, SparesRuns, Inv, Shape
  <2>2. SparesPayments(t)
    BY <1>2, <1>3 DEF SparesPayments
  <2> QED BY <2>1, <2>2 DEF Spares
<1>8. RunsAgree
  BY <1>2 DEF RunsAgree, Open
<1> QED BY <1>2, <1>5, <1>6, <1>7, <1>8, HandlerKeeps

\* Taking a payment back only lowers what is settled.
LEMMA ReverseKeeps == ASSUME Inv, NEW p \in Payments, Reverse(p) PROVE Inv'
<1>1. /\ paid[p] > 0 /\ p \notin reversed
      /\ reversed' = reversed \cup {p}
      /\ settled' = [d \in Documents |-> settled[d] - applied[p][d]]
      /\ applied' = [applied EXCEPT ![p] = [d \in Documents |-> 0]]
      /\ drawn' = [drawn EXCEPT ![p] = 0]
      /\ UNCHANGED <<documents, paid, closed, runs, tx>>
  BY DEF Reverse, Changed
<1>2. \A t \in Sessions : Row("payment", p) \notin tx[t].has
  BY DEF Reverse, Free
<1>3. \A d \in Documents : applied[p][d] \in Nat /\ settled[d] \in Int
  BY DEF Inv, Shape
<1>4. \A d \in Documents : settled'[d] \in Int /\ settled'[d] <= settled[d]
  BY <1>1, <1>3
<1>5. \A q \in Payments \ {p} : drawn'[q] = drawn[q] /\ applied'[q] = applied[q]
  BY <1>1 DEF Inv, Shape
<1>6. drawn'[p] = 0 /\ \A d \in Documents : applied'[p][d] = 0
  BY <1>1 DEF Inv, Shape
<1> USE DEF documents
<1>7. Shape'
  <2>1. settled' \in [Documents -> Int]
    BY <1>1, <1>3
  <2>2. applied' \in [Payments -> [Documents -> Nat]]
    <3>1. [d \in Documents |-> 0] \in [Documents -> Nat]
      OBVIOUS
    <3> QED BY <1>1, <3>1 DEF Inv, Shape
  <2> QED BY <1>1, <2>1, <2>2 DEF Inv, Shape
<1>8. Money'
  <2> USE DEF Inv, Money
  <2>1. NotOverpaid'
    <3>1. \A d \in Documents : Due(d)' = Due(d) /\ Due(d) \in Nat
      BY <1>1 DEF Due, Shape
    <3> QED BY <1>3, <1>4, <3>1 DEF NotOverpaid
  <2>2. NotOverspent'
    <3>1. ASSUME NEW q \in Payments PROVE drawn'[q] <= paid'[q]
      BY <1>1, <1>5, <1>6 DEF NotOverspent, Shape
    <3>2. ASSUME NEW q \in reversed' PROVE \A d \in Documents : applied'[q][d] = 0
      BY <1>1, <1>5, <1>6 DEF NotOverspent, Shape
    <3> QED BY <3>1, <3>2 DEF NotOverspent
  <2>3. RunsPayOnce'
    BY <1>1 DEF RunsPayOnce
  <2>4. TakenBack'
    BY <1>1 DEF TakenBack
  <2> QED BY <2>1, <2>2, <2>3, <2>4
<1>9. ASSUME NEW t \in Sessions PROVE Spares(t)
  <2>1. SparesDocuments(t) /\ SparesRuns(t)
    BY <1>1, <1>4 DEF SparesDocuments, SparesRuns
  <2>2. SparesPayments(t)
    BY <1>1, <1>2, <1>5 DEF SparesPayments
  <2> QED BY <2>1, <2>2 DEF Spares
<1>10. RunsAgree
  BY <1>1 DEF RunsAgree, Open
<1> QED BY <1>1, <1>7, <1>8, <1>9, <1>10, HandlerKeeps

LEMMA CancelRunKeeps == ASSUME Inv, NEW r \in Runs, CancelRun(r) PROVE Inv'
<1> DEFINE new == [runs[r] EXCEPT !.status = "CANCELLED"]
<1>1. /\ Open(r)
      /\ runs' = [runs EXCEPT ![r] = new]
      /\ UNCHANGED <<documents, money, tx>>
  BY Zenon DEF CancelRun, Changed
<1>2. \A t \in Sessions : Row("run", r) \notin tx[t].has
  BY DEF CancelRun, Free
<1>3. runs[r] \in Run /\ "CANCELLED" \in States
  BY DEF Inv, Shape, States
<1>4. /\ new \in Run /\ new.status = "CANCELLED"
      /\ new.lines = runs[r].lines /\ new.waived = runs[r].waived
  BY <1>3, RunStatus, Zenon
<1> HIDE DEF new
<1>5. runs'[r] = new /\ \A q \in Runs \ {r} : runs'[q] = runs[q]
  BY <1>1 DEF Inv, Shape
<1> USE DEF documents, money
<1>6. Shape'
  BY <1>1, <1>4 DEF Inv, Shape
<1>7. Money'
  <2>1. RunsPayOnce'
    BY <1>1, <1>5 DEF Inv, Money, RunsPayOnce, Open
  <2> QED BY <1>1, <2>1 DEF Inv, Money, NotOverpaid, NotOverspent, TakenBack, Due
<1>8. ASSUME NEW t \in Sessions PROVE Spares(t)
  <2>1. SparesRuns(t)
    BY <1>1, <1>2, <1>5 DEF SparesRuns, Open
  <2>2. SparesDocuments(t)
    BY <1>1 DEF SparesDocuments, Inv, Shape
  <2>3. SparesPayments(t)
    BY <1>1 DEF SparesPayments
  <2> QED BY <2>1, <2>2, <2>3 DEF Spares
<1>9. RunsAgree
  BY <1>1, <1>4, <1>5 DEF RunsAgree, Open
<1> QED BY <1>1, <1>6, <1>7, <1>8, <1>9, HandlerKeeps

\* A handler of one document that nobody holds: what is due on it is not
\* lowered below what is settled, and the others are as they were.
LEMMA DocumentKeeps ==
  ASSUME Inv, NEW i \in Invoices, Free(Row("document", i)), UNCHANGED <<money, runs, tx>>,
         total' \in [Documents -> Nat], cancelled' \subseteq Invoices, stopped' \subseteq Invoices,
         settled[i] <= Due(i)',
         \A d \in Documents \ {i} : /\ total'[d] = total[d]
                                    /\ d \in cancelled' <=> d \in cancelled
                                    /\ d \in stopped' <=> d \in stopped
                                    /\ d \in matched' <=> d \in matched
  PROVE  Inv'
<1> USE DEF money
<1>1. Shape'
  BY DEF Inv, Shape
<1>2. Money'
  <2>1. NotOverpaid'
    <3>1. \A d \in Documents \ {i} : Due(d)' = Due(d)
      BY DEF Due
    <3> QED BY <3>1 DEF Inv, Money, NotOverpaid
  <2> QED BY <2>1 DEF Inv, Money, NotOverspent, RunsPayOnce, TakenBack
<1>3. ASSUME NEW t \in Sessions PROVE Spares(t)
  <2>1. ~HasDocument(t, i)
    BY DEF Free, HasDocument
  <2>2. SparesDocuments(t)
    BY <2>1 DEF SparesDocuments, Inv, Shape
  <2>3. SparesPayments(t) /\ SparesRuns(t)
    BY DEF SparesPayments, SparesRuns
  <2> QED BY <2>2, <2>3 DEF Spares
<1>4. RunsAgree
  BY DEF RunsAgree, Open
<1> QED BY <1>1, <1>2, <1>3, <1>4, HandlerKeeps

LEMMA StopDocumentKeeps == ASSUME Inv, NEW i \in Invoices, Stop(i) PROVE Inv'
<1>1. Due(i)' = Due(i) /\ settled[i] <= Due(i) /\ i \in Documents
  BY DEF Stop, Due, Inv, Money, NotOverpaid, Documents
<1> QED BY <1>1, DocumentKeeps DEF Stop, Changed, Inv, Shape

LEMMA CancelKeeps == ASSUME Inv, NEW i \in Invoices, Cancel(i) PROVE Inv'
<1>1. Due(i)' = 0 /\ settled[i] = 0
  BY DEF Cancel, Due
<1> QED BY <1>1, DocumentKeeps DEF Cancel, Changed, Inv, Shape

LEMMA ReviseKeeps == ASSUME Inv, NEW i \in Invoices, Revise(i) PROVE Inv'
<1>1. PICK n \in Amounts : total' = [total EXCEPT ![i] = n]
  BY DEF Revise
<1>2. settled[i] = 0 /\ i \in Documents /\ n \in Nat
  BY DEF Revise, LinesEditable, Documents
<1>3. Due(i)' \in Nat
  BY <1>1, <1>2 DEF Due, Inv, Shape
<1>4. /\ total' \in [Documents -> Nat]
      /\ \A d \in Documents \ {i} : total'[d] = total[d]
  BY <1>1, <1>2 DEF Inv, Shape
<1> QED BY <1>2, <1>3, <1>4, DocumentKeeps DEF Revise, Changed, Inv, Shape

LEMMA MatchKeeps == ASSUME Inv, NEW i \in Ordered, Match(i) PROVE Inv'
<1>1. Due(i)' = Due(i) /\ settled[i] <= Due(i) /\ i \in Documents /\ i \in Invoices
  BY DEF Match, Due, Inv, Money, NotOverpaid, Documents
<1> QED BY <1>1, DocumentKeeps DEF Match, Changed, Inv, Shape

-----------------------------------------------------------------------------
(* The theorems.                                                            *)

LEMMA InitInv == Init => Inv
<1> SUFFICES ASSUME Init PROVE Inv
  OBVIOUS
<1>1. Idle \in Request /\ Idle.stage = "idle" /\ Idle.has = {}
  BY IdleRequest
<1>2. NoRun \in Run
  BY DEF NoRun, Run, States, NoLines
<1> HIDE DEF Idle, NoRun
<1>3. Shape
  BY <1>1, <1>2 DEF Init, Shape
<1>4. Exclusive /\ \A s \in Sessions : Sound(s)
  BY <1>1 DEF Init, Exclusive, Sound
<1>5. NotOverpaid
  <2>1. \A d \in Documents : Due(d) \in Nat
    BY <1>3 DEF Due, Shape
  <2> QED BY <2>1 DEF NotOverpaid, Init
<1>6. NotOverspent /\ TakenBack
  BY DEF Init, NotOverspent, TakenBack
<1>7. RunsPayOnce
  BY DEF Init, RunsPayOnce, Payments
<1> QED BY <1>3, <1>4, <1>5, <1>6, <1>7 DEF Inv, Money

LEMMA SessionKeeps == ASSUME Inv, NEW s \in Sessions, Session(s) PROVE Inv'
<1>1. CASE Allocate(s) \/ Reimburse(s) \/ Build(s)
             \/ Decide(s, "approve") \/ Decide(s, "execute")
  BY <1>1, BeginKeeps
<1>2. CASE LockOwn(s) BY <1>2, LockOwnKeeps
<1>3. CASE LockDocument(s) BY <1>3, LockDocumentKeeps
<1>4. CASE Look(s) BY <1>4, LookKeeps
<1>5. CASE Select(s) BY <1>5, SelectKeeps
<1>6. CASE CommitAllocation(s) BY <1>6, CommitAllocationKeeps
<1>7. CASE CommitReimbursement(s) BY <1>7, CommitReimbursementKeeps
<1>8. CASE CommitRun(s) BY <1>8, CommitRunKeeps
<1>9. CASE CommitApproval(s) BY <1>9, CommitApprovalKeeps
<1>10. CASE CommitExecution(s) BY <1>10, CommitExecutionKeeps
<1>11. CASE Abort(s) BY <1>11, StopKeeps DEF Abort
<1> QED
  BY <1>1, <1>2, <1>3, <1>4, <1>5, <1>6, <1>7, <1>8, <1>9, <1>10, <1>11, Zenon DEF Session

LEMMA NextKeeps == Inv /\ [Next]_vars => Inv'
<1> SUFFICES ASSUME Inv, [Next]_vars PROVE Inv'
  OBVIOUS
<1>1. ASSUME NEW s \in Sessions, Session(s) PROVE Inv' BY <1>1, SessionKeeps
<1>2. ASSUME NEW p \in {0} \X Typed, Pay(p) PROVE Inv' BY <1>2, PayKeeps
<1>3. ASSUME NEW p \in Payments, Reverse(p) PROVE Inv' BY <1>3, ReverseKeeps
<1>4. ASSUME NEW r \in Runs, CancelRun(r) PROVE Inv' BY <1>4, CancelRunKeeps
<1>5. ASSUME NEW i \in Invoices, Stop(i) \/ Cancel(i) \/ Revise(i) PROVE Inv'
  BY <1>5, StopDocumentKeeps, CancelKeeps, ReviseKeeps
<1>6. ASSUME NEW i \in Ordered, Match(i) PROVE Inv' BY <1>6, MatchKeeps
<1>7. CASE UNCHANGED vars
  BY <1>7 DEF vars, documents, money, Inv, Shape, Exclusive, Money, NotOverpaid, NotOverspent,
              RunsPayOnce, TakenBack, Due, Sound, AllocateSound, ReimburseSound, BuildSound,
              DecideSound, Past, Judging, HasDocument, MayAllocate, MayReimburse, Clashes,
              InOpenRun, Open, OnRun, Stale, Outstanding, Unallocated, MatchAllows
<1> QED BY <1>1, <1>2, <1>3, <1>4, <1>5, <1>6, <1>7, Zenon DEF Next

\* The inductive invariant: who holds which rows, what was found under them,
\* and that the money adds up.
THEOREM Invariance == Spec => []Inv
  BY InitInv, NextKeeps, PTL DEF Spec

\* No document is settled beyond what is due on it, whichever routes pay it at
\* the same time.
THEOREM NeverOverpaid == Spec => []NotOverpaid
<1>1. Inv => NotOverpaid BY DEF Inv, Money
<1> QED BY <1>1, Invariance, PTL

\* No payment is applied beyond what it was, nor after it was taken back.
THEOREM NeverOverspent == Spec => []NotOverspent
<1>1. Inv => NotOverspent BY DEF Inv, Money
<1> QED BY <1>1, Invariance, PTL

\* The index that keeps an invoice off two open runs never refuses a run.
THEOREM BuildersAgree == Spec => []NeverClashes
<1>1. Inv => NeverClashes
  <2> SUFFICES ASSUME Inv, NEW s \in Sessions, tx[s].stage = "commit" PROVE ~Clashes(s)
    BY DEF NeverClashes
  <2>1. Sound(s) /\ tx[s].kind \in Kinds
    BY RequestFields DEF Inv, Shape
  <2>2. CASE tx[s].kind = "build"
    BY <2>1, <2>2 DEF Sound, BuildSound
  <2>3. CASE tx[s].kind # "build"
    <3>1. tx[s].lines = NoLines
      BY <2>1, <2>3 DEF Sound, AllocateSound, ReimburseSound, DecideSound, Kinds
    <3> QED BY <3>1 DEF Clashes, NoLines
  <2> QED BY <2>2, <2>3
<1> QED BY <1>1, Invariance, PTL

\* Only the execution of a run pays it.
LEMMA PaidByExecution ==
  ASSUME Inv, [Next]_vars, NEW r \in Runs, runs[r].status = "APPROVED", runs'[r].status = "PAID"
  PROVE  \E s \in Sessions : CommitExecution(s) /\ tx[s].run = r
<1>1. ASSUME NEW s \in Sessions, Session(s)
      PROVE  CommitExecution(s) /\ tx[s].run = r
  <2>1. CASE CommitExecution(s)
    <3>1. runs' = [runs EXCEPT ![tx[s].run].status = "PAID"]
      BY <2>1 DEF CommitExecution
    <3>2. tx[s].run # r => runs'[r] = runs[r]
      BY <3>1 DEF Inv, Shape
    <3> QED BY <2>1, <3>2
  <2>2. CASE CommitRun(s)
    <3> DEFINE new == [status |-> "DRAFT", lines |-> tx[s].lines, waived |-> tx[s].waived]
    <3>1. runs' = IF Clashes(s) THEN runs ELSE [runs EXCEPT ![tx[s].run] = new]
      BY <2>2, Zenon DEF CommitRun
    <3>2. new.status = "DRAFT"
      OBVIOUS
    <3> HIDE DEF new
    <3> QED BY <3>1, <3>2 DEF Inv, Shape
  <2>3. CASE CommitApproval(s)
    <3> DEFINE new == [runs[tx[s].run] EXCEPT !.status = "APPROVED"]
    <3>1. runs' = [runs EXCEPT ![tx[s].run] = new] /\ tx[s].stage = "commit" /\ tx[s].kind = "approve"
      BY <2>3, Zenon DEF CommitApproval
    <3>2. tx[s].run \in Runs /\ runs[tx[s].run] \in Run /\ "APPROVED" \in States
      BY <3>1 DEF Inv, Sound, DecideSound, Shape, States
    <3>3. new.status = "APPROVED"
      BY <3>2, RunStatus, Zenon
    <3> HIDE DEF new
    <3> QED BY <3>1, <3>3 DEF Inv, Shape
  <2>4. CASE ~CommitExecution(s) /\ ~CommitRun(s) /\ ~CommitApproval(s)
    <3>1. runs' = runs
      BY <1>1, <2>4, Zenon
      DEF Session, Allocate, Reimburse, Build, Decide, Begin, LockOwn, LockDocument, Look, Select,
          CommitAllocation, CommitReimbursement, Abort
    <3> QED BY <3>1
  <2> QED BY <2>1, <2>2, <2>3, <2>4
<1>2. ASSUME NEW q \in Runs, CancelRun(q) PROVE FALSE
  <2> DEFINE new == [runs[q] EXCEPT !.status = "CANCELLED"]
  <2>1. runs' = [runs EXCEPT ![q] = new] /\ runs[q] \in Run /\ "CANCELLED" \in States
    BY <1>2 DEF CancelRun, Inv, Shape, States
  <2>2. new.status = "CANCELLED"
    BY <2>1, RunStatus, Zenon
  <2> HIDE DEF new
  <2> QED BY <2>1, <2>2 DEF Inv, Shape
<1>3. ASSUME NEW p \in {0} \X Typed, Pay(p) PROVE FALSE BY <1>3 DEF Pay
<1>4. ASSUME NEW p \in Payments, Reverse(p) PROVE FALSE BY <1>4 DEF Reverse
<1>5. ASSUME NEW i \in Invoices, Stop(i) \/ Cancel(i) \/ Revise(i) PROVE FALSE
  BY <1>5 DEF Stop, Cancel, Revise
<1>6. ASSUME NEW i \in Ordered, Match(i) PROVE FALSE BY <1>6 DEF Match
<1>7. CASE UNCHANGED vars BY <1>7 DEF vars
<1> QED BY <1>1, <1>2, <1>3, <1>4, <1>5, <1>6, <1>7, Zenon DEF Next

\* Every line of a run still stands when it is paid, however long ago it was
\* approved and whatever else pays, stops or revises invoices meanwhile.
THEOREM RunsPayWhatStands == Spec => PaysWhatStands
<1>1. Inv /\ [Next]_vars =>
        [\A r \in Runs : runs[r].status = "APPROVED" /\ runs'[r].status = "PAID" =>
           \A i \in OnRun(r) : ~Stale(r, i)]_vars
  <2> SUFFICES ASSUME Inv, [Next]_vars, NEW r \in Runs,
                      runs[r].status = "APPROVED", runs'[r].status = "PAID"
               PROVE  \A i \in OnRun(r) : ~Stale(r, i)
    OBVIOUS
  <2>1. PICK s \in Sessions : CommitExecution(s) /\ tx[s].run = r
    BY PaidByExecution
  <2>2. tx[s].stage = "commit" /\ tx[s].kind = "execute" /\ Sound(s)
    BY <2>1 DEF CommitExecution, Inv
  <2> QED BY <2>1, <2>2 DEF Sound, DecideSound
<1> QED BY <1>1, Invariance, PTL DEF Spec, PaysWhatStands

-----------------------------------------------------------------------------
(* Payables implement the promise about what is due.                        *)

LEMMA DueType == ASSUME Shape PROVE \A d \in Documents : Due(d) \in Nat
  BY DEF Shape, Due

LEMMA PromiseInit == Init => Promise!Init
<1> SUFFICES ASSUME Init PROVE Promise!Init
  OBVIOUS
<1>1. \A d \in Documents : Due(d) \in Nat
  BY InitInv, DueType DEF Inv
<1>2. settled = [d \in Documents |-> 0]
  BY DEF Init
<1>3. [d \in Documents |-> d \notin cancelled \cup stopped] \in [Documents -> BOOLEAN]
  OBVIOUS
<1>4. [d \in Documents |-> Due(d)] \in [Documents -> Nat]
  BY <1>1
<1> QED BY <1>2, <1>3, <1>4, Zenon DEF Promise!Init

\* Money is applied to documents that stand, within what is due.
LEMMA PromiseSettles ==
  ASSUME Shape', UNCHANGED <<total, cancelled, stopped>>,
         \A d \in Documents :
           \/ settled'[d] = settled[d]
           \/ settled'[d] > settled[d] /\ d \notin cancelled \cup stopped /\ settled'[d] <= Due(d)
  PROVE  Promise!Settle
<1>1. settled' \in [Documents -> Int]
  BY DEF Shape
<1>2. UNCHANGED <<[d \in Documents |-> Due(d)],
                  [d \in Documents |-> d \notin cancelled \cup stopped]>>
  BY DEF Due
<1> QED BY <1>1, <1>2 DEF Promise!Settle

\* Nothing the promise sees is changed.
LEMMA PromiseStutters ==
  ASSUME UNCHANGED <<total, cancelled, stopped, settled>>
  PROVE  UNCHANGED Promise!vars
  BY DEF Promise!vars, Due

LEMMA PromiseChanges ==
  ASSUME Shape', NEW i \in Invoices, UNCHANGED settled, Due(i)' # Due(i) => settled[i] <= Due(i)',
         \A d \in Documents \ {i} : /\ total'[d] = total[d]
                                    /\ d \in cancelled' <=> d \in cancelled
                                    /\ d \in stopped' <=> d \in stopped
  PROVE  Promise!Next
<1>1. \A d \in Documents : Due(d)' \in Nat
  BY DEF Shape, Due
<1>2. \A d \in Documents \ {i} : Due(d)' = Due(d)
  BY DEF Due
<1>3. i \in Documents
  BY DEF Documents
<1>4. [d \in Documents |-> Due(d)]' \in [Documents -> Nat]
  BY <1>1
<1>5. [d \in Documents |-> d \notin cancelled \cup stopped]' \in [Documents -> BOOLEAN]
  OBVIOUS
<1>6. \A e \in Documents \ {i} :
        /\ [d \in Documents |-> Due(d)]'[e] = [d \in Documents |-> Due(d)][e]
        /\ [d \in Documents |-> d \notin cancelled \cup stopped]'[e] =
             [d \in Documents |-> d \notin cancelled \cup stopped][e]
  BY <1>2
<1>7. [d \in Documents |-> Due(d)]'[i] # [d \in Documents |-> Due(d)][i]
        => settled[i] <= [d \in Documents |-> Due(d)]'[i]
  BY <1>3
<1>8. Promise!Change(i)
  BY <1>4, <1>5, <1>6, <1>7 DEF Promise!Change
<1> QED BY <1>3, <1>8 DEF Promise!Next

LEMMA PromiseStep == Inv /\ [Next]_vars => [Promise!Next]_(Promise!vars)
<1> SUFFICES ASSUME Inv, [Next]_vars PROVE [Promise!Next]_(Promise!vars)
  OBVIOUS
<1>1. Inv' /\ Shape'
  BY NextKeeps DEF Inv
<1> USE DEF documents, money
<1>2. ASSUME NEW s \in Sessions, CommitAllocation(s) PROVE Promise!Settle
  <2> DEFINE d == tx[s].doc
             settles == tx[s].cash + tx[s].kept
  <2>1. /\ settled' = [settled EXCEPT ![d] = settled[d] + settles]
        /\ UNCHANGED <<total, cancelled, stopped>> /\ tx[s].stage = "commit"
        /\ tx[s].kind = "allocate"
    BY <1>2 DEF CommitAllocation, Done
  <2>2. AllocateSound(s) /\ MayAllocate(s)
    BY <2>1 DEF Inv, Sound, AllocateSound
  <2>3. d \in Documents /\ settles \in Nat /\ settles > 0 /\ settled[d] \in Int
    BY <2>2, RequestFields DEF AllocateSound, Inv, Shape
  <2>4. d \notin cancelled \cup stopped /\ settles <= Due(d) - settled[d] /\ Due(d) \in Nat
    BY <2>2, <2>3, DueType DEF MayAllocate, Outstanding, Due, Inv
  <2> HIDE DEF d, settles
  <2>5. \A e \in Documents \ {d} : settled'[e] = settled[e]
    BY <2>1 DEF Inv, Shape
  <2>6. settled'[d] = settled[d] + settles
    BY <2>1, <2>3 DEF Inv, Shape
  <2> QED BY <1>1, <2>1, <2>3, <2>4, <2>5, <2>6, PromiseSettles
<1>3. ASSUME NEW s \in Sessions, CommitReimbursement(s) PROVE Promise!Settle
  <2> DEFINE c == tx[s].doc
             cash == tx[s].cash
  <2>1. /\ settled' = [settled EXCEPT ![c] = settled[c] + cash]
        /\ UNCHANGED <<total, cancelled, stopped>> /\ tx[s].stage = "commit"
        /\ tx[s].kind = "reimburse"
    BY <1>3 DEF CommitReimbursement, Done
  <2>2. ReimburseSound(s) /\ MayReimburse(s)
    BY <2>1 DEF Inv, Sound, ReimburseSound
  <2>3. c \in Documents /\ c \notin Invoices /\ cash \in Nat /\ cash > 0 /\ settled[c] \in Int
    BY <2>2, RequestFields DEF ReimburseSound, Inv, Shape, Documents
  <2>4. c \notin cancelled \cup stopped
    BY <2>3 DEF Inv, Shape
  <2>5. cash <= Due(c) - settled[c] /\ Due(c) \in Nat
    BY <2>2, <2>3, <2>4, DueType DEF MayReimburse, Outstanding, Due, Inv
  <2> HIDE DEF c, cash
  <2>6. \A e \in Documents \ {c} : settled'[e] = settled[e]
    BY <2>1 DEF Inv, Shape
  <2>7. settled'[c] = settled[c] + cash
    BY <2>1, <2>3 DEF Inv, Shape
  <2> QED BY <1>1, <2>1, <2>3, <2>4, <2>5, <2>6, <2>7, PromiseSettles
<1>4. ASSUME NEW s \in Sessions, CommitExecution(s) PROVE Promise!Settle
  <2> DEFINE r == tx[s].run
             lines == runs[r].lines
  <2>1. /\ settled' = [d \in Documents |-> IF d \in Invoices THEN settled[d] + lines[d]
                                                             ELSE settled[d]]
        /\ UNCHANGED <<total, cancelled, stopped>> /\ tx[s].stage = "commit"
        /\ tx[s].kind = "execute"
    BY <1>4 DEF CommitExecution, Done
  <2>2. r \in Runs /\ \A i \in OnRun(r) : ~Stale(r, i)
    BY <2>1 DEF Inv, Sound, DecideSound
  <2>3. runs[r] \in Run
    BY <2>2 DEF Inv, Shape
  <2>4. \A d \in Documents : settled[d] \in Int /\ total[d] \in Nat
    BY DEF Inv, Shape
  <2>5. \A i \in Invoices : lines[i] \in Nat /\ i \in Documents
    BY <2>3 DEF Run, Documents
  <2>6. ASSUME NEW i \in Invoices, lines[i] > 0
        PROVE  i \notin cancelled \cup stopped /\ lines[i] <= Due(i) - settled[i]
    BY <2>2, <2>4, <2>5, <2>6 DEF OnRun, Stale, Outstanding, Due
  <2> HIDE DEF lines
  <2>7. ASSUME NEW d \in Documents, d \in Invoices
        PROVE  \/ settled'[d] = settled[d]
               \/ /\ settled'[d] > settled[d] /\ d \notin cancelled \cup stopped
                  /\ settled'[d] <= Due(d)
    <3>1. settled'[d] = settled[d] + lines[d] /\ lines[d] \in Nat /\ settled[d] \in Int
          /\ Due(d) \in Nat
      BY <2>1, <2>4, <2>5, <2>7, DueType DEF Inv
    <3> QED BY <2>6, <2>7, <3>1
  <2>8. ASSUME NEW d \in Documents, d \notin Invoices PROVE settled'[d] = settled[d]
    BY <2>1, <2>8
  <2> QED BY <1>1, <2>1, <2>7, <2>8, PromiseSettles
<1>5. ASSUME NEW s \in Sessions, Session(s) PROVE [Promise!Next]_(Promise!vars)
  <2>1. CASE CommitAllocation(s) \/ CommitReimbursement(s) \/ CommitExecution(s)
    BY <1>2, <1>3, <1>4, <2>1 DEF Promise!Next
  <2>2. CASE ~(CommitAllocation(s) \/ CommitReimbursement(s) \/ CommitExecution(s))
    <3>1. UNCHANGED <<total, cancelled, stopped, settled>>
      BY <1>5, <2>2
      DEF Session, Allocate, Reimburse, Build, Decide, Begin, LockOwn, LockDocument, Look, Select,
          CommitRun, CommitApproval, Done, Abort
    <3> QED BY <3>1, PromiseStutters
  <2> QED BY <2>1, <2>2
<1>6. ASSUME NEW p \in Payments, Reverse(p) PROVE [Promise!Next]_(Promise!vars)
  <2>1. \A d \in Documents : applied[p][d] \in Nat /\ settled[d] \in Int
    BY DEF Inv, Shape
  <2>2. settled' \in [Documents -> Int] /\ \A d \in Documents : settled'[d] <= settled[d]
    BY <1>6, <2>1 DEF Reverse
  <2>3. UNCHANGED <<[d \in Documents |-> Due(d)],
                    [d \in Documents |-> d \notin cancelled \cup stopped]>>
    BY <1>6 DEF Reverse, Due
  <2> QED BY <2>2, <2>3 DEF Promise!Release, Promise!Next
<1>7. ASSUME NEW i \in Invoices, Stop(i) \/ Cancel(i) \/ Revise(i) PROVE Promise!Next
  <2>1. CASE Stop(i)
    BY <1>1, <2>1, PromiseChanges DEF Stop, Due
  <2>2. CASE Cancel(i)
    <3>1. Due(i)' = 0 /\ settled[i] = 0
      BY <2>2 DEF Cancel, Due
    <3> QED BY <1>1, <2>2, <3>1, PromiseChanges DEF Cancel
  <2>3. CASE Revise(i)
    <3>1. settled[i] = 0 /\ UNCHANGED <<settled, cancelled, stopped>>
      BY <2>3 DEF Revise, LinesEditable
    <3>2. Due(i)' \in Nat
      BY <1>1 DEF Shape, Due, Documents
    <3>3. \A d \in Documents \ {i} : total'[d] = total[d]
      BY <2>3 DEF Revise, Inv, Shape
    <3> QED BY <1>1, <3>1, <3>2, <3>3, PromiseChanges
  <2> QED BY <1>7, <2>1, <2>2, <2>3
<1>8. ASSUME NEW p \in {0} \X Typed, Pay(p) PROVE UNCHANGED Promise!vars
  BY <1>8, PromiseStutters DEF Pay
<1>9. ASSUME NEW r \in Runs, CancelRun(r) PROVE UNCHANGED Promise!vars
  BY <1>9, PromiseStutters DEF CancelRun
<1>10. ASSUME NEW i \in Ordered, Match(i) PROVE UNCHANGED Promise!vars
  BY <1>10, PromiseStutters DEF Match
<1>11. CASE UNCHANGED vars
  BY <1>11, PromiseStutters DEF vars
<1> QED BY <1>5, <1>6, <1>7, <1>8, <1>9, <1>10, <1>11, Zenon DEF Next

\* Seen through what is due, settled and open, payables are Dues.
THEOREM Refinement == Spec => Kept
  BY Invariance, PromiseInit, PromiseStep, PTL DEF Spec, Kept, Promise!Spec
-----------------------------------------------------------------------------
(* Types, and what the allocations add up to.                               *)

\* What each payment has applied to a document.
Column(A, d) == [p \in Payments |-> A[p][d]]

Allocations == [Payments -> [Documents -> Nat]]

LEMMA AllocatedIsSum ==
  ASSUME NEW A \in Allocations, NEW d \in Documents
  PROVE  /\ IsFiniteSet(Payments)
         /\ \A p \in Payments : Column(A, d)[p] = A[p][d] /\ A[p][d] \in Nat
         /\ IsSum(Payments, Column(A, d), Allocated(A, d))
<1> DEFINE D == Payments
           f == Column(A, d)
           Eq(h) == h = [s \in SUBSET D |-> IF s = {} THEN 0
                           ELSE A[CHOOSE x \in s : TRUE][d] + h[s \ {CHOOSE x \in s : TRUE}]]
           iter == CHOOSE h : Eq(h)
<1>1. Allocated(A, d) = iter[D]
  BY Zenon DEF Allocated, MapThenSumSet, MapThenFoldSet
<1>2. IsFiniteSet(D) /\ \A x \in D : f[x] = A[x][d] /\ A[x][d] \in Nat
  <2>1. IsFiniteSet({0} \X Typed) /\ IsFiniteSet(Runs \X Invoices)
    <3>1. IsFiniteSet({0})
      BY FS_Singleton
    <3> QED BY <3>1, PayablesFinite, FS_Product
  <2>2. IsFiniteSet(D)
    BY ONLY <2>1, FS_Union DEF Payments
  <2> QED BY <2>2 DEF Column, Allocations
<1> HIDE DEF D, f
<1>3. ASSUME NEW h PROVE Eq(h) <=> IsFold(D, f, h)
  <2>1. \A s \in SUBSET D : s # {} => f[CHOOSE x \in s : TRUE] = A[CHOOSE x \in s : TRUE][d]
    BY <1>2
  <2>2. ASSUME NEW s \in SUBSET D
        PROVE (IF s = {} THEN 0 ELSE f[CHOOSE x \in s : TRUE] + h[s \ {CHOOSE x \in s : TRUE}])
          = (IF s = {} THEN 0
             ELSE A[CHOOSE x \in s : TRUE][d] + h[s \ {CHOOSE x \in s : TRUE}])
    <3>1. CASE s = {} BY <3>1, Zenon
    <3>2. CASE s # {}
      <4>1. f[CHOOSE x \in s : TRUE] = A[CHOOSE x \in s : TRUE][d]
        BY <2>1, <3>2, Zenon
      <4> QED BY <3>2, <4>1, Zenon
    <3> QED BY <3>1, <3>2, Zenon
  <2> QED BY ONLY <2>2, Zenon DEF IsFold
<1>n. \A x \in D : f[x] \in Int
  BY <1>2
<1>4. \E h : Eq(h)
  <2>1. \E h : IsFold(D, f, h)
    BY ONLY <1>2, <1>n, FoldIsSum
  <2> HIDE DEF Eq
  <2> QED BY <1>3, <2>1, Zenon
<1>5. Eq(iter)
  BY <1>4, Zenon
<1> HIDE DEF iter, Eq
<1>6. IsSum(D, f, iter[D])
  <2>1. IsFold(D, f, iter)
    BY <1>3, <1>5, Zenon
  <2> QED BY ONLY <1>2, <1>n, <2>1, FoldIsSum
<1> QED BY <1>1, <1>2, <1>6 DEF D, f

LEMMA AllocatedType ==
  ASSUME NEW A \in Allocations, NEW d \in Documents
  PROVE  Allocated(A, d) \in Nat
<1>1. /\ IsFiniteSet(Payments) /\ \A p \in Payments : Column(A, d)[p] \in Nat
      /\ IsSum(Payments, Column(A, d), Allocated(A, d))
  BY AllocatedIsSum
<1> QED BY ONLY <1>1, SumOfNaturals

\* The sum over a document changes by what one payment's allocation of it does.
LEMMA AllocatedChanges ==
  ASSUME NEW A \in Allocations, NEW B \in Allocations, NEW d \in Documents, NEW p \in Payments,
         \A q \in Payments \ {p} : B[q][d] = A[q][d]
  PROVE  Allocated(B, d) = Allocated(A, d) - A[p][d] + B[p][d]
<1> PICK f, g, v, w : /\ f = Column(A, d) /\ g = Column(B, d)
                      /\ v = Allocated(A, d) /\ w = Allocated(B, d)
  OBVIOUS
<1>1. /\ IsFiniteSet(Payments) /\ IsSum(Payments, f, v) /\ IsSum(Payments, g, w)
      /\ \A q \in Payments : f[q] = A[q][d] /\ g[q] = B[q][d] /\ f[q] \in Int /\ g[q] \in Int
  BY AllocatedIsSum
<1>2. \A q \in Payments \ {p} : f[q] = g[q]
  BY ONLY <1>1, \A q \in Payments \ {p} : B[q][d] = A[q][d]
<1>3. w = v - f[p] + g[p]
  BY ONLY <1>1, <1>2, p \in Payments, SumChanges
<1> QED BY <1>1, <1>3

\* It stays if none of them does.
LEMMA AllocatedStays ==
  ASSUME NEW A \in Allocations, NEW B \in Allocations, NEW d \in Documents,
         \A q \in Payments : B[q][d] = A[q][d]
  PROVE  Allocated(B, d) = Allocated(A, d)
<1> PICK f, g, v, w : /\ f = Column(A, d) /\ g = Column(B, d)
                      /\ v = Allocated(A, d) /\ w = Allocated(B, d)
  OBVIOUS
<1>1. /\ IsFiniteSet(Payments) /\ IsSum(Payments, f, v) /\ IsSum(Payments, g, w)
      /\ \A q \in Payments : f[q] = A[q][d] /\ g[q] = B[q][d] /\ f[q] \in Int
  BY AllocatedIsSum
<1>2. \A q \in Payments : f[q] = g[q]
  BY ONLY <1>1, \A q \in Payments : B[q][d] = A[q][d]
<1>3. v = w
  BY ONLY <1>1, <1>2, SumUnique
<1> QED BY <1>3

\* Nothing is allocated yet.
LEMMA AllocatedNone ==
  ASSUME NEW A \in Allocations, NEW d \in Documents, \A q \in Payments : A[q][d] = 0
  PROVE  Allocated(A, d) = 0
<1> PICK f, v : f = Column(A, d) /\ v = Allocated(A, d)
  OBVIOUS
<1>1. /\ IsFiniteSet(Payments) /\ IsSum(Payments, f, v)
      /\ \A q \in Payments : f[q] = 0
  BY AllocatedIsSum
<1>2. v = 0
  <2>1. IsSum(Payments, f, v) /\ \A q \in Payments : f[q] \in Int
    BY <1>1
  <2> QED BY ONLY <1>1, <2>1, SumOfZeros
<1> QED BY <1>2

-----------------------------------------------------------------------------
(* The accounts agree: the second invariant.                                *)

\* What is settled of an invoice is what is allocated to it; of a claim, that
\* and what was reimbursed.
Balanced ==
  /\ \A i \in Invoices : settled[i] = Allocated(applied, i)
  /\ \A c \in Claims : settled[c] >= Allocated(applied, c)

\* Nothing is applied of a payment that was not made: its run may make it yet.
Unmade == \A p \in Payments : paid[p] = 0 => \A d \in Documents : applied[p][d] = 0

Limits ==
  /\ total \in [Documents -> Nat \ {0}] /\ matched \subseteq Ordered /\ closed \subseteq Claims
  /\ begun \in 0 .. MaxBegun /\ changes \in 0 .. MaxChanges

Accounts == Limits /\ Unmade /\ Balanced

LEMMA BalanceStays ==
  ASSUME Balanced, UNCHANGED <<applied, settled>>
  PROVE  Balanced'
  BY DEF Balanced

LEMMA UnmadeStays ==
  ASSUME Unmade, UNCHANGED <<applied, paid>>
  PROVE  Unmade'
  BY DEF Unmade

LEMMA InitAccounts == Init => Accounts
<1> SUFFICES ASSUME Init PROVE Accounts
  OBVIOUS
<1>1. applied \in Allocations /\ \A p \in Payments, d \in Documents : applied[p][d] = 0
  BY DEF Init, Allocations
<1>2. \A d \in Documents : settled[d] = 0 /\ Allocated(applied, d) = 0
  <2>1. ASSUME NEW d \in Documents PROVE settled[d] = 0 /\ Allocated(applied, d) = 0
    <3>1. \A q \in Payments : applied[q][d] = 0
      BY <1>1
    <3>2. Allocated(applied, d) = 0
      BY ONLY <1>1, <3>1, d \in Documents, AllocatedNone
    <3> QED BY <3>2 DEF Init
  <2> QED BY <2>1
<1>3. Balanced
  BY <1>2 DEF Balanced, Documents
<1>4. Unmade
  BY <1>1 DEF Unmade
<1>5. Limits
  BY DEF Limits, Init
<1> QED BY <1>3, <1>4, <1>5 DEF Accounts

\* A document whose column stays, or changes by what is settled of it.
LEMMA BalanceOf ==
  ASSUME applied \in Allocations, applied' \in Allocations,
         settled \in [Documents -> Int], NEW d \in Documents
  PROVE  /\ Allocated(applied, d) \in Nat /\ Allocated(applied', d) \in Nat
         /\ \A p \in Payments :
              (\A q \in Payments \ {p} : applied'[q][d] = applied[q][d]) =>
                Allocated(applied', d) =
                  Allocated(applied, d) - applied[p][d] + applied'[p][d]
         /\ (\A q \in Payments : applied'[q][d] = applied[q][d]) =>
              Allocated(applied', d) = Allocated(applied, d)
<1> PICK A, B : A = applied /\ B = applied'
  OBVIOUS
<1>0. A \in Allocations /\ B \in Allocations
  OBVIOUS
<1>1. Allocated(A, d) \in Nat /\ Allocated(B, d) \in Nat
  BY ONLY <1>0, d \in Documents, AllocatedType
<1>2. ASSUME NEW p \in Payments, \A q \in Payments \ {p} : B[q][d] = A[q][d]
      PROVE  Allocated(B, d) = Allocated(A, d) - A[p][d] + B[p][d]
  BY ONLY <1>0, <1>2, p \in Payments, d \in Documents, AllocatedChanges
<1>3. ASSUME \A q \in Payments : B[q][d] = A[q][d]
      PROVE  Allocated(B, d) = Allocated(A, d)
  BY ONLY <1>0, <1>3, d \in Documents, AllocatedStays
<1> QED BY <1>1, <1>2, <1>3

LEMMA AllocationAccounts ==
  ASSUME Inv, Inv', Accounts, NEW s \in Sessions, CommitAllocation(s)
  PROVE  Accounts'
<1> PICK p, d, n : p = tx[s].payment /\ d = tx[s].doc /\ n = tx[s].cash + tx[s].kept
  OBVIOUS
<1>1. p \in Payments /\ d \in Documents /\ paid[p] > 0 /\ n \in Nat
  <2>1. AllocateSound(s)
    BY DEF Inv, Sound, CommitAllocation
  <2>2. tx[s] \in Request
    BY DEF Inv, Shape
  <2>3. tx[s].cash \in Nat /\ tx[s].kept \in Nat
    BY <2>2, RequestFields
  <2> QED BY <2>1, <2>3 DEF AllocateSound
<1>2. /\ applied' = [applied EXCEPT ![p][d] = @ + n]
      /\ settled' = [settled EXCEPT ![d] = @ + n]
      /\ UNCHANGED <<total, matched, closed, paid, begun, changes>>
  BY DEF CommitAllocation, Done, documents
<1>3. /\ applied \in Allocations /\ applied' \in Allocations
      /\ settled \in [Documents -> Int]
  BY DEF Inv, Shape, Allocations
<1>4. \A q \in Payments, e \in Documents :
        applied'[q][e] = IF q = p /\ e = d THEN applied[p][d] + n ELSE applied[q][e]
  BY ONLY <1>1, <1>2, <1>3 DEF Allocations
<1>5. Unmade'
  BY ONLY <1>1, <1>2, <1>4, Accounts DEF Unmade, Accounts
<1>6. ASSUME NEW e \in Documents
      PROVE  settled'[e] - Allocated(applied', e) = settled[e] - Allocated(applied, e)
  <2>1. applied[p][d] \in Nat /\ settled[e] \in Int
    BY <1>1, <1>3 DEF Allocations
  <2>2. Allocated(applied', e) = Allocated(applied, e) + (IF e = d THEN n ELSE 0)
        /\ Allocated(applied, e) \in Nat
    <3>1. CASE e = d
      <4>1. \A q \in Payments \ {p} : applied'[q][e] = applied[q][e]
        BY <1>4
      <4>2. applied'[p][e] = applied[p][e] + n
        BY <3>1, <1>1, <1>4
      <4>3. /\ Allocated(applied, e) \in Nat
            /\ Allocated(applied', e) = Allocated(applied, e) - applied[p][e] + applied'[p][e]
        BY ONLY <1>1, <1>3, <4>1, e \in Documents, BalanceOf
      <4> QED BY <3>1, <2>1, <1>1, <4>2, <4>3
    <3>2. CASE e # d
      <4>1. \A q \in Payments : applied'[q][e] = applied[q][e]
        BY <3>2, <1>4
      <4>2. Allocated(applied, e) \in Nat /\ Allocated(applied', e) = Allocated(applied, e)
        BY ONLY <1>3, <4>1, e \in Documents, BalanceOf
      <4> QED BY <3>2, <4>2
    <3> QED BY <3>1, <3>2
  <2>3. settled'[e] = settled[e] + (IF e = d THEN n ELSE 0)
    BY ONLY <1>1, <1>2, <1>3, e \in Documents
  <2> QED BY <2>1, <2>2, <2>3, <1>1
<1>7. ASSUME NEW e \in Documents PROVE /\ settled'[e] \in Int /\ settled[e] \in Int
                                       /\ Allocated(applied', e) \in Int
                                       /\ Allocated(applied, e) \in Int
  <2>1. settled' \in [Documents -> Int]
    BY DEF Inv, Shape
  <2>2. Allocated(applied, e) \in Nat /\ Allocated(applied', e) \in Nat
    BY ONLY <1>3, e \in Documents, BalanceOf
  <2> QED BY <2>1, <2>2, <1>3
<1>8. Balanced'
  <2>1. \A i \in Invoices : settled'[i] = Allocated(applied', i)
    BY <1>6, <1>7 DEF Accounts, Balanced, Documents
  <2>2. \A c \in Claims : settled'[c] >= Allocated(applied', c)
    BY <1>6, <1>7 DEF Accounts, Balanced, Documents
  <2> QED BY <2>1, <2>2 DEF Balanced
<1>9. Limits'
  BY <1>2 DEF Limits, Accounts
<1> QED BY <1>5, <1>8, <1>9 DEF Accounts

LEMMA ReimbursementAccounts ==
  ASSUME Inv, Inv', Accounts, NEW s \in Sessions, CommitReimbursement(s)
  PROVE  Accounts'
<1> PICK c, n : c = tx[s].doc /\ n = tx[s].cash
  OBVIOUS
<1>1. c \in Claims /\ n \in Nat
  <2>1. ReimburseSound(s)
    BY DEF Inv, Sound, CommitReimbursement
  <2>2. tx[s] \in Request
    BY DEF Inv, Shape
  <2>3. tx[s].cash \in Nat
    BY <2>2, RequestFields
  <2> QED BY <2>1, <2>3 DEF ReimburseSound
<1>2. /\ settled' = [settled EXCEPT ![c] = @ + n]
      /\ closed' \in {closed, closed \cup {c}}
      /\ UNCHANGED <<total, matched, paid, applied, begun, changes>>
  BY DEF CommitReimbursement, Done, documents
<1>3. applied \in Allocations /\ settled \in [Documents -> Int]
  BY DEF Inv, Shape, Allocations
<1>4. ASSUME NEW d \in Documents
      PROVE  settled'[d] \in Int /\ settled'[d] >= settled[d] /\ settled[d] \in Int
             /\ (d # c => settled'[d] = settled[d]) /\ Allocated(applied, d) \in Nat
  <2>1. c \in Documents
    BY <1>1 DEF Documents
  <2>2. Allocated(applied, d) \in Nat
    BY ONLY <1>3, d \in Documents, AllocatedType
  <2> QED BY ONLY <1>1, <1>2, <1>3, <2>1, <2>2, d \in Documents
<1>5. Balanced'
  <2>1. \A i \in Invoices : i \in Documents /\ i # c
    BY <1>1 DEF Documents
  <2>2. \A i \in Invoices : settled'[i] = Allocated(applied, i)
    BY <1>4, <2>1 DEF Accounts, Balanced
  <2>3. \A d \in Claims : settled'[d] >= Allocated(applied, d)
    BY <1>4 DEF Accounts, Balanced, Documents
  <2> QED BY <1>2, <2>2, <2>3 DEF Balanced
<1>6. Limits' /\ Unmade'
  BY <1>1, <1>2 DEF Limits, Unmade, Accounts
<1> QED BY <1>5, <1>6 DEF Accounts

LEMMA ExecutionAccounts ==
  ASSUME Inv, Inv', Accounts, NEW s \in Sessions, CommitExecution(s)
  PROVE  Accounts'
<1> PICK r, lines : r = tx[s].run /\ lines = runs[r].lines
  OBVIOUS
<1>1. r \in Runs /\ runs[r].status = "APPROVED" /\ lines \in [Invoices -> Nat]
  <2>1. DecideSound(s) /\ tx[s].stage = "commit" /\ tx[s].kind = "execute"
    BY DEF Inv, Sound, CommitExecution
  <2>2. runs \in [Runs -> Run]
    BY DEF Inv, Shape
  <2>3. r \in Runs /\ runs[r].status = "APPROVED"
    BY <2>1 DEF DecideSound, Past
  <2> QED BY <2>2, <2>3 DEF Run
<1>2. /\ \A p \in Payments :
           /\ paid'[p] = IF p[1] = r THEN lines[p[2]] ELSE paid[p]
           /\ \A d \in Documents : applied'[p][d] =
                IF p[1] = r /\ d = p[2] THEN lines[d] ELSE applied[p][d]
      /\ \A d \in Documents : settled'[d] = IF d \in Invoices THEN settled[d] + lines[d]
                                                              ELSE settled[d]
      /\ UNCHANGED <<total, matched, closed, begun, changes>>
  BY DEF CommitExecution, Done, documents, Pays
<1>3. /\ applied \in Allocations /\ applied' \in Allocations
      /\ settled \in [Documents -> Int] /\ settled' \in [Documents -> Int]
  BY DEF Inv, Shape, Allocations
<1>4. ASSUME NEW p \in Payments, p[1] = r
      PROVE  /\ p[2] \in Invoices /\ p = <<r, p[2]>>
             /\ \A d \in Documents : applied[p][d] = 0
  <2>1. Pays(s, p) /\ runs[tx[s].run].status # "PAID" /\ tx[s].run \in Runs
    BY <1>1, <1>4 DEF Pays
  <2>2. p[2] \in Invoices /\ paid[p] = 0
    BY <2>1, RunPayments
  <2> QED BY <1>1, <1>4, <2>2 DEF Payments, Accounts, Unmade
<1>5. Unmade'
  <2>1. ASSUME NEW p \in Payments, paid'[p] = 0, NEW d \in Documents PROVE applied'[p][d] = 0
    <3>1. CASE p[1] = r
      BY <1>2, <1>4, <2>1, <3>1
    <3>2. CASE p[1] # r
      BY <1>2, <2>1, <3>2 DEF Accounts, Unmade
    <3> QED BY <3>1, <3>2
  <2> QED BY <2>1 DEF Unmade
<1>6. ASSUME NEW i \in Invoices PROVE settled'[i] = Allocated(applied', i)
  <2> PICK p : p = <<r, i>>
    OBVIOUS
  <2>1. p \in Payments /\ p[1] = r /\ p[2] = i /\ i \in Documents
    BY <1>1 DEF Payments, Documents
  <2>2. \A q \in Payments \ {p} : applied'[q][i] = applied[q][i]
    <3>1. ASSUME NEW q \in Payments \ {p} PROVE applied'[q][i] = applied[q][i]
      <4>1. ~(q[1] = r /\ i = q[2]) /\ q \in Payments
        BY <1>4
      <4> QED BY ONLY <1>2, <2>1, <4>1
    <3> QED BY <3>1
  <2>3. applied[p][i] = 0 /\ applied'[p][i] = lines[i]
    <3>1. applied[p][i] = 0
      BY ONLY <1>4, <2>1
    <3> QED BY ONLY <1>2, <2>1, <3>1
  <2>4. /\ Allocated(applied, i) \in Nat
        /\ Allocated(applied', i) = Allocated(applied, i) - applied[p][i] + applied'[p][i]
    BY ONLY <1>3, <2>1, <2>2, BalanceOf
  <2>5. settled'[i] = settled[i] + lines[i] /\ settled[i] = Allocated(applied, i)
    BY <1>2, <2>1 DEF Accounts, Balanced
  <2>6. lines[i] \in Nat
    BY <1>1
  <2> QED BY ONLY <2>3, <2>4, <2>5, <2>6
<1>7. ASSUME NEW c \in Claims PROVE settled'[c] >= Allocated(applied', c)
  <2>1. c \in Documents /\ c \notin Invoices
    BY DEF Documents
  <2>2. \A q \in Payments : applied'[q][c] = applied[q][c]
    <3>1. ASSUME NEW q \in Payments PROVE applied'[q][c] = applied[q][c]
      <4>1. ~(q[1] = r /\ c = q[2])
        BY <1>4, <2>1
      <4> QED BY ONLY <1>2, <2>1, <4>1, q \in Payments
    <3> QED BY <3>1
  <2>3. Allocated(applied', c) = Allocated(applied, c)
    BY ONLY <1>3, <2>1, <2>2, BalanceOf
  <2> QED BY <1>2, <2>1, <2>3 DEF Accounts, Balanced
<1>8. Balanced'
  BY <1>6, <1>7 DEF Balanced
<1>9. Limits'
  BY <1>2 DEF Limits, Accounts
<1> QED BY <1>5, <1>8, <1>9 DEF Accounts

LEMMA ReversalAccounts ==
  ASSUME Inv, Inv', Accounts, NEW p \in Payments, Reverse(p)
  PROVE  Accounts'
<1>1. /\ applied' = [applied EXCEPT ![p] = [d \in Documents |-> 0]]
      /\ settled' = [d \in Documents |-> settled[d] - applied[p][d]]
      /\ changes < MaxChanges /\ changes' = changes + 1
      /\ UNCHANGED <<total, matched, closed, paid, begun>>
  BY DEF Reverse, Changed, documents
<1>2. /\ applied \in Allocations /\ applied' \in Allocations
      /\ settled \in [Documents -> Int]
  BY DEF Inv, Shape, Allocations
<1>3. \A q \in Payments, d \in Documents :
        applied'[q][d] = IF q = p THEN 0 ELSE applied[q][d]
  BY ONLY <1>1, <1>2 DEF Allocations
<1>4. Unmade'
  BY ONLY <1>1, <1>3, Accounts DEF Unmade, Accounts
<1>5. ASSUME NEW d \in Documents
      PROVE  /\ Allocated(applied', d) = Allocated(applied, d) - applied[p][d]
             /\ settled'[d] = settled[d] - applied[p][d]
             /\ Allocated(applied, d) \in Int /\ settled[d] \in Int /\ applied[p][d] \in Int
  <2>1. applied[p][d] \in Nat /\ settled[d] \in Int
    BY <1>2 DEF Allocations
  <2>2. (\A q \in Payments \ {p} : applied'[q][d] = applied[q][d]) /\ applied'[p][d] = 0
    BY <1>3
  <2>3. /\ Allocated(applied, d) \in Nat
        /\ Allocated(applied', d) = Allocated(applied, d) - applied[p][d] + applied'[p][d]
    BY ONLY <1>2, <2>2, p \in Payments, d \in Documents, BalanceOf
  <2>4. settled'[d] = settled[d] - applied[p][d]
    BY <1>1
  <2> QED BY <2>1, <2>2, <2>3, <2>4
<1>6. Balanced'
  <2>1. \A i \in Invoices : settled'[i] = Allocated(applied', i)
    BY <1>5 DEF Accounts, Balanced, Documents
  <2>2. \A c \in Claims : settled'[c] >= Allocated(applied', c)
    BY <1>5 DEF Accounts, Balanced, Documents
  <2> QED BY <2>1, <2>2 DEF Balanced
<1>7. Limits'
  BY <1>1 DEF Limits, Accounts
<1> QED BY <1>4, <1>6, <1>7 DEF Accounts

LEMMA PayAccounts ==
  ASSUME Inv, Accounts, NEW p \in {0} \X Typed, Pay(p)
  PROVE  Accounts'
<1>1. PICK n \in Amounts : paid' = [paid EXCEPT ![p] = n]
  BY DEF Pay
<1>2. /\ changes < MaxChanges /\ changes' = changes + 1
      /\ UNCHANGED <<total, matched, closed, applied, settled, begun>>
  BY DEF Pay, Changed, documents
<1>3. Unmade'
  <2>1. \A q \in Payments : paid'[q] = IF q = p THEN n ELSE paid[q]
    BY <1>1 DEF Inv, Shape
  <2>2. n > 0
    OBVIOUS
  <2> QED BY <1>2, <2>1, <2>2 DEF Accounts, Unmade
<1>4. Balanced'
  BY <1>2, BalanceStays DEF Accounts
<1>5. Limits'
  BY <1>2 DEF Limits, Accounts
<1> QED BY <1>3, <1>4, <1>5 DEF Accounts

\* Steps that move no money.
LEMMA AccountsStay ==
  ASSUME Accounts, UNCHANGED <<applied, settled, paid>>, Limits'
  PROVE  Accounts'
  BY BalanceStays, UnmadeStays DEF Accounts

LEMMA SessionAccounts ==
  ASSUME Inv, Inv', Accounts, NEW s \in Sessions, Session(s)
  PROVE  Accounts'
<1>1. ASSUME NEW u, Begin(s, u) PROVE Accounts'
  <2>1. /\ begun < MaxBegun /\ begun' = begun + 1 /\ UNCHANGED changes
        /\ UNCHANGED <<total, matched, closed, applied, settled, paid>>
    BY <1>1 DEF Begin, documents, money
  <2>2. Limits'
    BY <2>1 DEF Limits, Accounts
  <2> QED BY <2>1, <2>2, AccountsStay
<1>2. CASE Allocate(s) \/ Reimburse(s) \/ Build(s) \/ Decide(s, "approve") \/ Decide(s, "execute")
  <2>1. \E u : Begin(s, u)
    <3>1. CASE Allocate(s) BY <3>1, Zenon DEF Allocate
    <3>2. CASE Reimburse(s) BY <3>2, Zenon DEF Reimburse
    <3>3. CASE Build(s) BY <3>3, Zenon DEF Build
    <3>4. CASE Decide(s, "approve") BY <3>4, Zenon DEF Decide
    <3>5. CASE Decide(s, "execute") BY <3>5, Zenon DEF Decide
    <3> QED BY <1>2, <3>1, <3>2, <3>3, <3>4, <3>5
  <2> QED BY <1>1, <2>1
<1>3. CASE LockOwn(s) \/ LockDocument(s) \/ Look(s) \/ Select(s) \/ Abort(s)
             \/ CommitRun(s) \/ CommitApproval(s)
  <2>1. UNCHANGED <<total, matched, closed, applied, settled, paid, begun, changes>>
    BY <1>3 DEF LockOwn, LockDocument, Look, Select, Abort, CommitRun, CommitApproval, Done,
                documents, money
  <2>2. Limits'
    BY <2>1 DEF Limits, Accounts
  <2> QED BY <2>1, <2>2, AccountsStay
<1>4. CASE CommitAllocation(s) BY <1>4, AllocationAccounts
<1>5. CASE CommitReimbursement(s) BY <1>5, ReimbursementAccounts
<1>6. CASE CommitExecution(s) BY <1>6, ExecutionAccounts
<1> QED BY <1>2, <1>3, <1>4, <1>5, <1>6, Zenon DEF Session

LEMMA AccountsStep == Inv /\ Inv' /\ Accounts /\ [Next]_vars => Accounts'
<1> SUFFICES ASSUME Inv, Inv', Accounts, [Next]_vars PROVE Accounts'
  OBVIOUS
<1>1. ASSUME NEW s \in Sessions, Session(s) PROVE Accounts' BY <1>1, SessionAccounts
<1>2. ASSUME NEW p \in {0} \X Typed, Pay(p) PROVE Accounts' BY <1>2, PayAccounts
<1>3. ASSUME NEW p \in Payments, Reverse(p) PROVE Accounts' BY <1>3, ReversalAccounts
<1>4. ASSUME NEW r \in Runs, CancelRun(r) PROVE Accounts'
  <2>1. /\ UNCHANGED <<total, matched, closed, applied, settled, paid, begun>>
        /\ changes < MaxChanges /\ changes' = changes + 1
    BY <1>4 DEF CancelRun, Changed, documents, money
  <2>2. Limits'
    BY <2>1 DEF Limits, Accounts
  <2> QED BY <2>1, <2>2, AccountsStay
<1>5. ASSUME NEW i \in Invoices, Stop(i) \/ Cancel(i) \/ Revise(i) PROVE Accounts'
  <2>1. /\ UNCHANGED <<matched, closed, applied, settled, paid, begun>>
        /\ changes < MaxChanges /\ changes' = changes + 1
    BY <1>5 DEF Stop, Cancel, Revise, Changed, money
  <2>2. total' = total \/ \E n \in Amounts : total' = [total EXCEPT ![i] = n]
    BY <1>5 DEF Stop, Cancel, Revise
  <2>3. total' \in [Documents -> Nat \ {0}]
    BY <2>2 DEF Accounts, Limits
  <2>4. Limits'
    BY <2>1, <2>3 DEF Limits, Accounts
  <2> QED BY <2>1, <2>4, AccountsStay
<1>6. ASSUME NEW i \in Ordered, Match(i) PROVE Accounts'
  <2>1. /\ UNCHANGED <<total, closed, applied, settled, paid, begun>>
        /\ changes < MaxChanges /\ changes' = changes + 1
        /\ matched' \in {matched \cup {i}, matched \ {i}}
    BY <1>6 DEF Match, Changed, money
  <2>2. Limits'
    BY <2>1 DEF Limits, Accounts
  <2> QED BY <2>1, <2>2, AccountsStay
<1>7. CASE UNCHANGED vars
  <2>1. UNCHANGED <<total, matched, closed, applied, settled, paid, begun, changes>>
    BY <1>7 DEF vars, documents, money
  <2>2. Limits'
    BY <2>1 DEF Limits, Accounts
  <2> QED BY <2>1, <2>2, AccountsStay
<1> QED BY <1>1, <1>2, <1>3, <1>4, <1>5, <1>6, <1>7, Zenon DEF Next

\* The books balance: what is settled of every invoice is what the live
\* allocations to it add up to, through reversals and runs.
THEOREM AccountsInvariance == Spec => []Accounts
  BY InitAccounts, AccountsStep, Invariance, PTL DEF Spec

\* Every variable keeps its type; what is settled is the sum it stands for.
THEOREM Typing == Spec => []TypeOK
<1>1. Inv /\ Accounts => TypeOK
  BY DEF Inv, Shape, Accounts, Limits, Balanced, TypeOK, Request, Run
<1> QED BY <1>1, Invariance, AccountsInvariance, PTL

============================================================================
