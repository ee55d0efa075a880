--------------------------- MODULE Billing_proofs ---------------------------
(***************************************************************************)
(* Proofs about Billing, for any number of bills, receipts, advances and   *)
(* sessions: its types and sums, that retention is never released twice,   *)
(* that a final bill is last, and that it implements Dues.                 *)
(***************************************************************************)
EXTENDS Billing, DataLemmas, FiniteSetTheorems

-----------------------------------------------------------------------------
(* The inductive invariant.                                                 *)

\* N stands for whatever the other fields may hold: nothing below depends on
\* them, and what a bill is worth is the sum of a fold.
Bill(N) ==
  [status : Statuses, final : BOOLEAN, upto : Nat, gross : N, net : N,
   retention : Nat, recovers : N, certified : N]

Request(N) ==
  [kind : Kinds, stage : Stages, bill : N, receipt : N, amount : Nat, upto : Nat,
   final : BOOLEAN, previous : Nat, held : Int, recovery : N]

Shape(N) ==
  /\ Idle \in Request(N)
  /\ bills \in [Bills -> Bill(N)] /\ tx \in [Sessions -> Request(N)]
  /\ withheld \in Nat /\ released \in Nat

\* The project's row is held by one of those that raise a bill or release
\* retention.
OnProject(s) == At(s, "raise") \/ At(s, "release")
OneOnProject == \A s, t \in Sessions : s # t => ~(OnProject(s) /\ OnProject(t))

\* While a bill is raised no final one stands; what is about to be released
\* is held.
Sound(s) ==
  /\ tx[s].stage \in {"previous", "held", "advances"} => tx[s].kind = "raise"
  /\ tx[s].stage = "look" => tx[s].kind # "raise"
  /\ At(s, "raise") => \A b \in Standing : ~bills[b].final
  /\ tx[s].stage = "commit" /\ tx[s].kind = "release" => tx[s].amount <= Held

\* Bills are numbered without a gap.
InOrder == \E k \in 0 .. MaxBills : Raised = 1 .. k

Inv ==
  /\ \E N : Shape(N)
  /\ OneOnProject /\ InOrder /\ HeldNeverNegative /\ FinalIsLast
  /\ \A s \in Sessions : Sound(s)

-----------------------------------------------------------------------------
(* Records, and what remains of one when some fields are replaced.          *)

LEMMA TakenFromMore == \A k, m, n \in Nat : k >= m => k - n >= m - n
  OBVIOUS

USE BillingConstants

LEMMA RequestField ==
  ASSUME NEW N, NEW t \in Request(N)
  PROVE  /\ \A k \in Kinds : [t EXCEPT !.kind = k] \in Request(N)
         /\ \A stage \in Stages : [t EXCEPT !.stage = stage] \in Request(N)
         /\ \A b \in N : /\ [t EXCEPT !.bill = b] \in Request(N)
                         /\ [t EXCEPT !.receipt = b] \in Request(N)
                         /\ [t EXCEPT !.recovery = b] \in Request(N)
         /\ \A n \in Nat : /\ [t EXCEPT !.amount = n] \in Request(N)
                           /\ [t EXCEPT !.upto = n] \in Request(N)
                           /\ [t EXCEPT !.previous = n] \in Request(N)
         /\ \A f \in BOOLEAN : [t EXCEPT !.final = f] \in Request(N)
         /\ \A n \in Int : [t EXCEPT !.held = n] \in Request(N)
<1>1. ASSUME NEW k \in Kinds PROVE [t EXCEPT !.kind = k] \in Request(N)
  BY SMT DEF Request
<1>2. ASSUME NEW stage \in Stages PROVE [t EXCEPT !.stage = stage] \in Request(N)
  BY SMT DEF Request
<1>3. ASSUME NEW b \in N PROVE [t EXCEPT !.bill = b] \in Request(N)
  BY SMT DEF Request
<1>4. ASSUME NEW b \in N PROVE [t EXCEPT !.receipt = b] \in Request(N)
  BY SMT DEF Request
<1>5. ASSUME NEW b \in N PROVE [t EXCEPT !.recovery = b] \in Request(N)
  BY SMT DEF Request
<1>6. ASSUME NEW n \in Nat
      PROVE  [t EXCEPT !.amount = n] \in Request(N) /\ [t EXCEPT !.upto = n] \in Request(N)
  BY SMT DEF Request
<1>7. ASSUME NEW n \in Nat PROVE [t EXCEPT !.previous = n] \in Request(N)
  BY SMT DEF Request
<1>8. ASSUME NEW f \in BOOLEAN PROVE [t EXCEPT !.final = f] \in Request(N)
  BY SMT DEF Request
<1>9. ASSUME NEW n \in Int PROVE [t EXCEPT !.held = n] \in Request(N)
  BY SMT DEF Request
<1> QED BY <1>1, <1>2, <1>3, <1>4, <1>5, <1>6, <1>7, <1>8, <1>9, Zenon

LEMMA RequestFields ==
  ASSUME NEW N, NEW t \in Request(N)
  PROVE  /\ t.kind \in Kinds /\ t.stage \in Stages /\ t.amount \in Nat /\ t.upto \in Nat
         /\ t.final \in BOOLEAN /\ t.previous \in Nat /\ t.held \in Int
  BY SMT DEF Request

LEMMA IdleStage == Idle.stage = "idle" /\ Idle.kind = "raise"
  BY DEF Idle

\* What a request keeps when it is moved to another stage.
Moved(t, u, stage) ==
  /\ u.stage = stage /\ u.kind = t.kind /\ u.amount = t.amount /\ u.final = t.final

LEMMA MovedRequest ==
  ASSUME NEW N, NEW t \in Request(N), NEW stage \in Stages, NEW n \in Nat, NEW h \in Int, NEW m \in N
  PROVE  /\ LET u == [t EXCEPT !.stage = stage]
            IN  u \in Request(N) /\ Moved(t, u, stage)
         /\ LET u == [t EXCEPT !.previous = n, !.stage = stage]
            IN  u \in Request(N) /\ Moved(t, u, stage)
         /\ LET u == [t EXCEPT !.held = h, !.stage = stage]
            IN  u \in Request(N) /\ Moved(t, u, stage)
         /\ LET u == [t EXCEPT !.recovery = m, !.stage = stage]
            IN  u \in Request(N) /\ Moved(t, u, stage)
<1>1. ASSUME NEW v \in Request(N)
      PROVE  [v EXCEPT !.stage = stage] \in Request(N) /\ Moved(v, [v EXCEPT !.stage = stage], stage)
  <2>1. [v EXCEPT !.stage = stage] \in Request(N)
    BY RequestField, Zenon
  <2> QED BY <2>1, SMT DEF Request, Moved
<1> DEFINE p == [t EXCEPT !.previous = n]
           q == [t EXCEPT !.held = h]
           r == [t EXCEPT !.recovery = m]
<1>2. p \in Request(N) /\ q \in Request(N) /\ r \in Request(N)
  BY RequestField, Zenon
<1>3. Moved(t, p, t.stage) /\ Moved(t, q, t.stage) /\ Moved(t, r, t.stage)
  BY SMT DEF Request, Moved
<1> HIDE DEF p, q, r
<1>4. /\ [p EXCEPT !.stage = stage] \in Request(N) /\ Moved(t, [p EXCEPT !.stage = stage], stage)
      /\ [q EXCEPT !.stage = stage] \in Request(N) /\ Moved(t, [q EXCEPT !.stage = stage], stage)
      /\ [r EXCEPT !.stage = stage] \in Request(N) /\ Moved(t, [r EXCEPT !.stage = stage], stage)
  BY <1>1, <1>2, <1>3, Zenon DEF Moved
<1> QED BY <1>1, <1>4, SMT DEF p, q, r

-----------------------------------------------------------------------------
(* The project's bills.                                                     *)

LEMMA Wider ==
  ASSUME NEW M, NEW N
  PROVE  /\ Bill(M) \subseteq Bill(M \cup N) /\ Request(M) \subseteq Request(M \cup N)
         /\ Shape(M) => Shape(M \cup N)
<1>1. Bill(M) \subseteq Bill(M \cup N)
  BY SMT DEF Bill
<1>2. Request(M) \subseteq Request(M \cup N)
  BY SMT DEF Request
<1>3. ASSUME Shape(M) PROVE Shape(M \cup N)
  BY <1>1, <1>2, <1>3 DEF Shape
<1> QED BY <1>1, <1>2, <1>3

\* What is claimed already is a number: the bills are finitely many.
LEMMA PreviousNat ==
  ASSUME NEW N, Shape(N)
  PROVE  Previous \in Nat
<1> DEFINE upto == [b \in Bills |-> bills[b].upto]
           S == {bills[b].upto : b \in Billed} \cup {0}
<1>1. \A b \in Bills : bills[b].upto \in Nat
  <2>1. \A b \in Bills : bills[b] \in Bill(N)
    BY DEF Shape
  <2>2. \A r \in Bill(N) : r.upto \in Nat
    BY SMT DEF Bill
  <2> QED BY <2>1, <2>2
<1>2. PICK bound \in Nat : \A b \in Bills : bills[b].upto <= bound
  <2>1. \A b \in 1 .. MaxBills : upto[b] \in Nat
    BY <1>1 DEF Bills
  <2>2. \E bound \in Nat : \A b \in 1 .. MaxBills : upto[b] <= bound
    <3> HIDE DEF upto
    <3> QED BY <2>1, Bounded
  <2> QED BY <2>2 DEF Bills
<1>3. S \in SUBSET Nat /\ S # {} /\ \A x \in S : x <= bound
  BY <1>1, <1>2 DEF Billed
<1>4. \E x \in S : \A y \in S : y <= x
  <2> HIDE DEF S
  <2> QED BY <1>3, Greatest
<1>5. \E x \in S : \A y \in S : x >= y
  <2> HIDE DEF S
  <2> QED BY <1>3, <1>4
<1>6. Max(S) \in S
  <2> HIDE DEF S
  <2> QED BY <1>5, Zenon DEF Max
<1> QED BY <1>3, <1>6 DEF Previous

\* What is retained of a bill is never less than nothing.
LEMMA RetainedNat ==
  ASSUME NEW s \in Sessions, NEW N, Shape(N)
  PROVE  AtLeastNone(Lesser(Share(tx[s].upto - tx[s].previous, RetainIn), Cap - tx[s].held)) \in Nat
<1> DEFINE gross == tx[s].upto - tx[s].previous
<1>1. tx[s].upto \in Nat /\ tx[s].previous \in Nat /\ tx[s].held \in Int
  BY RequestFields DEF Shape
<1>2. gross \in Int
  BY <1>1
<1> HIDE DEF gross
<1>3. AtLeastNone(gross) \in Nat
  BY <1>2 DEF AtLeastNone
<1>4. Share(gross, RetainIn) \in Int
  BY <1>3 DEF Share
<1>5. Lesser(Share(gross, RetainIn), Cap - tx[s].held) \in Int
  BY <1>1, <1>4 DEF Lesser
<1>6. AtLeastNone(Lesser(Share(gross, RetainIn), Cap - tx[s].held)) \in Nat
  BY <1>5 DEF AtLeastNone
<1> QED BY <1>6 DEF gross

-----------------------------------------------------------------------------
(* Steps of a session that leave the bills and the retention alone.         *)

\* What a session may become without disturbing the others.
Fits(s, t) ==
  /\ t.stage # "idle" /\ t.kind \in {"raise", "release"} => OnProject(s) \/ ProjectFree
  /\ t.stage \in {"previous", "held", "advances"} => t.kind = "raise"
  /\ t.stage = "look" => t.kind # "raise"
  /\ t.stage # "idle" /\ t.kind = "raise" => \A b \in Standing : ~bills[b].final
  /\ t.stage = "commit" /\ t.kind = "release" => t.amount <= Held

LEMMA QuietKeeps ==
  ASSUME Inv, NEW s \in Sessions, NEW N, Shape(N), NEW t \in Request(N), Fits(s, t),
         tx' = [tx EXCEPT ![s] = t], UNCHANGED <<bills, withheld, released>>
  PROVE  Inv'
<1>1. tx'[s] = t /\ \A u \in Sessions \ {s} : tx'[u] = tx[u]
  BY DEF Shape
<1>2. Standing' = Standing /\ Raised' = Raised /\ Held' = Held
  BY DEF Standing, Raised, Held
<1>3. Shape(N)'
  BY DEF Shape
<1>4. OneOnProject'
  <2>1. \A u \in Sessions \ {s} : OnProject(u)' = OnProject(u)
    BY <1>1 DEF OnProject, At
  <2>2. OnProject(s)' => OnProject(s) \/ ProjectFree
    BY <1>1 DEF Fits, OnProject, At
  <2>3. ProjectFree => \A u \in Sessions : ~OnProject(u)
    BY DEF ProjectFree, OnProject
  <2> QED BY <2>1, <2>2, <2>3 DEF OneOnProject, Inv
<1>5. InOrder' /\ HeldNeverNegative' /\ FinalIsLast'
  BY <1>2 DEF Inv, InOrder, HeldNeverNegative, FinalIsLast
<1>6. ASSUME NEW u \in Sessions PROVE Sound(u)'
  <2>1. CASE u = s BY <1>1, <1>2, <2>1 DEF Fits, Sound, At
  <2>2. CASE u # s
    <3>1. Sound(u) BY DEF Inv
    <3> QED BY <1>1, <1>2, <2>2, <3>1 DEF Sound, At
  <2> QED BY <2>1, <2>2
<1> QED BY <1>3, <1>4, <1>5, <1>6 DEF Inv

\* A session that leaves, answered, refused or dead.
LEMMA LeaveKeeps ==
  ASSUME Inv, NEW s \in Sessions, Leave(s), UNCHANGED <<bills, withheld, released>>
  PROVE  Inv'
<1>1. PICK N : Shape(N)
  BY DEF Inv
<1>2. Idle \in Request(N) /\ Fits(s, Idle)
  BY <1>1, IdleStage DEF Shape, Fits
<1>3. tx' = [tx EXCEPT ![s] = Idle]
  BY DEF Leave
<1> QED BY <1>1, <1>2, <1>3, QuietKeeps

-----------------------------------------------------------------------------
(* One lemma for each action.                                               *)

LEMMA RaiseKeeps == ASSUME Inv, NEW s \in Sessions, Raise(s) PROVE Inv'
<1>1. PICK N : Shape(N)
  BY DEF Inv
<1>2. PICK upto \in Measures, final \in BOOLEAN :
        Begin(s, [Idle EXCEPT !.kind = "raise", !.stage = "previous", !.upto = upto, !.final = final])
  BY Zenon DEF Raise
<1> DEFINE a == [Idle EXCEPT !.kind = "raise"]
           b == [a EXCEPT !.stage = "previous"]
           c == [b EXCEPT !.upto = upto]
           t == [c EXCEPT !.final = final]
<1>3. a \in Request(N)
  BY <1>1, RequestField, Zenon DEF Shape, Kinds
<1>4. a.kind = "raise"
  BY <1>1, SMT DEF Shape, Request
<1> HIDE DEF a
<1>5. b \in Request(N) /\ b.kind = "raise" /\ b.stage = "previous"
  <2>1. b \in Request(N) BY <1>3, RequestField, Zenon DEF Stages
  <2> QED BY <1>3, <1>4, <2>1, SMT DEF Request
<1> HIDE DEF b
<1>6. c \in Request(N) /\ c.kind = "raise" /\ c.stage = "previous"
  <2>1. upto \in Nat OBVIOUS
  <2>2. c \in Request(N) BY <1>5, <2>1, RequestField, Zenon
  <2> QED BY <1>5, <2>2, SMT DEF Request
<1> HIDE DEF c
<1>7. t \in Request(N) /\ t.kind = "raise" /\ t.stage = "previous"
  <2>1. t \in Request(N) BY <1>6, RequestField, Zenon
  <2> QED BY <1>6, <2>1, SMT DEF Request
<1>8. tx' = [tx EXCEPT ![s] = t] /\ UNCHANGED <<bills, withheld, released>>
  BY <1>2, Zenon DEF Begin, a, b, c
<1> HIDE DEF t
<1>9. Fits(s, t)
  BY <1>7 DEF Raise, Fits
<1> QED BY <1>1, <1>7, <1>8, <1>9, QuietKeeps

LEMMA ReceiveKeeps == ASSUME Inv, NEW s \in Sessions, Receive(s) PROVE Inv'
<1>1. PICK M : Shape(M)
  BY DEF Inv
<1>2. PICK p \in Receipts, d \in Bills, n \in Amounts \ {0} :
        Begin(s, [Idle EXCEPT !.kind = "receive", !.stage = "look", !.receipt = p, !.bill = d,
                              !.amount = n])
  BY Zenon DEF Receive
<1> DEFINE N == M \cup {p, d}
           a == [Idle EXCEPT !.kind = "receive"]
           b == [a EXCEPT !.stage = "look"]
           c == [b EXCEPT !.receipt = p]
           e == [c EXCEPT !.bill = d]
           t == [e EXCEPT !.amount = n]
<1>3. Shape(N) /\ p \in N /\ d \in N
  BY <1>1, Wider
<1> HIDE DEF N
<1>4. a \in Request(N)
  BY <1>3, RequestField, Zenon DEF Shape, Kinds
<1>5. a.kind = "receive"
  BY <1>3, SMT DEF Shape, Request
<1> HIDE DEF a
<1>6. b \in Request(N) /\ b.kind = "receive" /\ b.stage = "look"
  <2>1. b \in Request(N) BY <1>4, RequestField, Zenon DEF Stages
  <2> QED BY <1>4, <1>5, <2>1, SMT DEF Request
<1> HIDE DEF b
<1>7. c \in Request(N) /\ c.kind = "receive" /\ c.stage = "look"
  <2>1. c \in Request(N) BY <1>3, <1>6, RequestField, Zenon
  <2> QED BY <1>6, <2>1, SMT DEF Request
<1> HIDE DEF c
<1>8. e \in Request(N) /\ e.kind = "receive" /\ e.stage = "look"
  <2>1. e \in Request(N) BY <1>3, <1>7, RequestField, Zenon
  <2> QED BY <1>7, <2>1, SMT DEF Request
<1> HIDE DEF e
<1>9. t \in Request(N) /\ t.kind = "receive" /\ t.stage = "look"
  <2>1. n \in Nat OBVIOUS
  <2>2. t \in Request(N) BY <1>8, <2>1, RequestField, Zenon
  <2> QED BY <1>8, <2>2, SMT DEF Request
<1>10. tx' = [tx EXCEPT ![s] = t] /\ UNCHANGED <<bills, withheld, released>>
  BY <1>2, Zenon DEF Begin, a, b, c, e
<1> HIDE DEF t
<1>11. Fits(s, t)
  BY <1>9 DEF Fits
<1> QED BY <1>3, <1>9, <1>10, <1>11, QuietKeeps

LEMMA ReleaseKeeps == ASSUME Inv, NEW s \in Sessions, Release(s) PROVE Inv'
<1>1. PICK N : Shape(N)
  BY DEF Inv
<1>2. PICK n \in Amounts \ {0} :
        Begin(s, [Idle EXCEPT !.kind = "release", !.stage = "look", !.amount = n])
  BY Zenon DEF Release
<1> DEFINE a == [Idle EXCEPT !.kind = "release"]
           b == [a EXCEPT !.stage = "look"]
           t == [b EXCEPT !.amount = n]
<1>3. a \in Request(N)
  BY <1>1, RequestField, Zenon DEF Shape, Kinds
<1>4. a.kind = "release"
  BY <1>1, SMT DEF Shape, Request
<1> HIDE DEF a
<1>5. b \in Request(N) /\ b.kind = "release" /\ b.stage = "look"
  <2>1. b \in Request(N) BY <1>3, RequestField, Zenon DEF Stages
  <2> QED BY <1>3, <1>4, <2>1, SMT DEF Request
<1> HIDE DEF b
<1>6. t \in Request(N) /\ t.kind = "release" /\ t.stage = "look"
  <2>1. n \in Nat OBVIOUS
  <2>2. t \in Request(N) BY <1>5, <2>1, RequestField, Zenon
  <2> QED BY <1>5, <2>2, SMT DEF Request
<1>7. tx' = [tx EXCEPT ![s] = t] /\ UNCHANGED <<bills, withheld, released>>
  BY <1>2, Zenon DEF Begin, a, b
<1> HIDE DEF t
<1>8. Fits(s, t)
  BY <1>6 DEF Release, Fits
<1> QED BY <1>1, <1>6, <1>7, <1>8, QuietKeeps

LEMMA ReadPreviousKeeps == ASSUME Inv, NEW s \in Sessions, ReadPrevious(s) PROVE Inv'
<1>1. PICK N : Shape(N)
  BY DEF Inv
<1>2. CASE Leave(s)
  BY <1>2, LeaveKeeps DEF ReadPrevious
<1>3. CASE tx' = [tx EXCEPT ![s] = [@ EXCEPT !.previous = Previous, !.stage = "held"]]
  <2> DEFINE t == [tx[s] EXCEPT !.previous = Previous, !.stage = "held"]
  <2>1. Previous \in Nat
    BY <1>1, PreviousNat
  <2>2. t \in Request(N) /\ Moved(tx[s], t, "held")
    <3>1. tx[s] \in Request(N) BY <1>1 DEF Shape
    <3>2. "held" \in Stages BY DEF Stages
    <3>3. \A n \in Nat : LET u == [tx[s] EXCEPT !.previous = n, !.stage = "held"]
                         IN  u \in Request(N) /\ Moved(tx[s], u, "held")
      <4> TAKE n \in Nat
      <4>1. tx[s].bill \in N BY <3>1, SMT DEF Request
      <4>2. 0 \in Int OBVIOUS
      <4> QED BY ONLY <3>1, <3>2, <4>1, <4>2, MovedRequest, Zenon
    <3> QED BY <2>1, <3>3, Zenon
  <2>3. tx' = [tx EXCEPT ![s] = t]
    BY <1>3, Zenon
  <2> HIDE DEF t
  <2>4. Fits(s, t)
    <3>1. Sound(s) BY DEF Inv
    <3> QED BY <2>2, <3>1 DEF ReadPrevious, Sound, Fits, Moved, At, OnProject
  <2> QED BY <1>1, <2>2, <2>3, <2>4, QuietKeeps DEF ReadPrevious
<1> QED BY <1>2, <1>3, Zenon DEF ReadPrevious

LEMMA ReadHeldKeeps == ASSUME Inv, NEW s \in Sessions, ReadHeld(s) PROVE Inv'
<1>1. PICK N : Shape(N)
  BY DEF Inv
<1> DEFINE t == [tx[s] EXCEPT !.held = Held, !.stage = "advances"]
<1>2. Held \in Int
  BY <1>1 DEF Held, Shape
<1>3. t \in Request(N) /\ Moved(tx[s], t, "advances")
  <2>1. tx[s] \in Request(N) BY <1>1 DEF Shape
  <2>2. "advances" \in Stages BY DEF Stages
  <2>3. tx[s].bill \in N BY <2>1, SMT DEF Request
  <2>4. 0 \in Nat OBVIOUS
  <2> QED BY ONLY <1>2, <2>1, <2>2, <2>3, <2>4, MovedRequest, Zenon
<1>4. tx' = [tx EXCEPT ![s] = t] /\ UNCHANGED <<bills, withheld, released>>
  BY Zenon DEF ReadHeld
<1> HIDE DEF t
<1>5. Fits(s, t)
  <2>1. Sound(s) BY DEF Inv
  <2> QED BY <1>3, <2>1 DEF ReadHeld, Sound, Fits, Moved, At, OnProject
<1> QED BY <1>1, <1>3, <1>4, <1>5, QuietKeeps

LEMMA ReadAdvancesKeeps == ASSUME Inv, NEW s \in Sessions, ReadAdvances(s) PROVE Inv'
<1>1. PICK M : Shape(M)
  BY DEF Inv
<1> DEFINE m == Recovery(tx[s].upto - tx[s].previous)
           N == M \cup {m}
           t == [tx[s] EXCEPT !.recovery = m, !.stage = "commit"]
<1>2. Shape(N) /\ m \in N
  BY <1>1, Wider
<1> HIDE DEF N, m
<1>3. t \in Request(N) /\ Moved(tx[s], t, "commit")
  <2>1. tx[s] \in Request(N) BY <1>2 DEF Shape
  <2>2. "commit" \in Stages BY DEF Stages
  <2>3. 0 \in Nat /\ 0 \in Int OBVIOUS
  <2> QED BY ONLY <1>2, <2>1, <2>2, <2>3, MovedRequest, Zenon
<1>4. tx' = [tx EXCEPT ![s] = t] /\ UNCHANGED <<bills, withheld, released>>
  BY Zenon DEF ReadAdvances, m
<1> HIDE DEF t
<1>5. Fits(s, t)
  <2>1. Sound(s) BY DEF Inv
  <2> QED BY <1>3, <2>1 DEF ReadAdvances, Sound, Fits, Moved, At, OnProject
<1> QED BY <1>2, <1>3, <1>4, <1>5, QuietKeeps

LEMMA LookKeeps == ASSUME Inv, NEW s \in Sessions, Look(s) PROVE Inv'
<1>1. PICK N : Shape(N)
  BY DEF Inv
<1>2. CASE Leave(s)
  BY <1>2, LeaveKeeps DEF Look
<1>3. CASE Go(s, "commit") /\ (tx[s].kind = "release" => tx[s].amount <= Held)
  <2> DEFINE t == [tx[s] EXCEPT !.stage = "commit"]
  <2>1. t \in Request(N) /\ Moved(tx[s], t, "commit")
    <3>1. tx[s] \in Request(N) BY <1>1 DEF Shape
    <3>2. "commit" \in Stages BY DEF Stages
    <3>3. tx[s].bill \in N BY <3>1, SMT DEF Request
    <3>4. 0 \in Nat /\ 0 \in Int OBVIOUS
    <3> QED BY ONLY <3>1, <3>2, <3>3, <3>4, MovedRequest, Zenon
  <2>2. tx' = [tx EXCEPT ![s] = t]
    BY <1>3, Zenon DEF Go
  <2> HIDE DEF t
  <2>3. Fits(s, t)
    <3>1. Sound(s) BY DEF Inv
    <3> QED BY <1>3, <2>1, <3>1 DEF Look, Sound, Fits, Moved, At, OnProject
  <2> QED BY <1>1, <2>1, <2>2, <2>3, QuietKeeps DEF Look
<1> QED BY <1>2, <1>3, Zenon DEF Look

\* The next number continues the others; nothing that stands before is final.
LEMMA NewBillKeeps ==
  ASSUME Inv, NEW s \in Sessions, At(s, "raise"), Raised # Bills, Leave(s),
         bills' = [bills EXCEPT ![Cardinality(Raised) + 1] = Drawn(s)],
         UNCHANGED <<withheld, released>>
  PROVE  Inv'
<1>1. PICK M : Shape(M)
  BY DEF Inv
<1>2. PICK k \in 0 .. MaxBills : Raised = 1 .. k
  BY DEF Inv, InOrder
<1>3. k < MaxBills /\ k + 1 \in Bills
  BY <1>2 DEF Bills
<1>4. Cardinality(Raised) = k
  BY <1>2, FS_Interval
<1> DEFINE d == Drawn(s)
<1>5. PICK N : Shape(N) /\ d.gross \in N /\ d.net \in N /\ d.recovers \in N /\ d.certified \in N
  <2>1. Shape(M \cup {d.gross, d.net, d.recovers, d.certified})
    BY <1>1, Wider
  <2> HIDE DEF d
  <2> QED BY <2>1, Zenon
<1>6. d \in Bill(N) /\ d.status = "DRAFT"
  <2> DEFINE kept == AtLeastNone(Lesser(Share(tx[s].upto - tx[s].previous, RetainIn),
                                        Cap - tx[s].held))
             gross == d.gross
             net == d.net
             recovers == d.recovers
             certified == d.certified
  <2>1. d = [status |-> "DRAFT", final |-> tx[s].final, upto |-> tx[s].upto, gross |-> gross,
             net |-> net, retention |-> kept, recovers |-> recovers, certified |-> certified]
    BY Zenon DEF Drawn
  <2>2. kept \in Nat
    BY <1>1, RetainedNat
  <2>3. tx[s].final \in BOOLEAN /\ tx[s].upto \in Nat
    BY <1>1, RequestFields DEF Shape
  <2>4. gross \in N /\ net \in N /\ recovers \in N /\ certified \in N
    BY <1>5
  <2>5. "DRAFT" \in Statuses
    BY DEF Statuses, Open
  <2> HIDE DEF kept, gross, net, recovers, certified, d
  <2> QED BY <2>1, <2>2, <2>3, <2>4, <2>5 DEF Bill
<1>7. /\ bills' \in [Bills -> Bill(N)] /\ bills'[k + 1] = d
      /\ \A b \in Bills \ {k + 1} : bills'[b] = bills[b]
  <2>1. bills' = [bills EXCEPT ![k + 1] = d]
    BY <1>4
  <2> HIDE DEF d
  <2> QED BY <1>3, <1>5, <1>6, <2>1 DEF Shape
<1>8. /\ tx' \in [Sessions -> Request(N)] /\ tx'[s] = Idle
      /\ \A u \in Sessions \ {s} : tx'[u] = tx[u]
  BY <1>5 DEF Leave, Shape
<1> HIDE DEF d
<1>9. Raised' = 1 .. (k + 1)
  <2>1. \A b \in Bills : b \in 1 .. (k + 1) <=> b \in Raised \/ b = k + 1
    BY <1>2, <1>3 DEF Bills
  <2>2. \A b \in Bills : b \in Raised' <=> b \in Raised \/ b = k + 1
    BY <1>6, <1>7 DEF Raised
  <2>3. Raised' \subseteq Bills
    BY DEF Raised
  <2>4. 1 .. (k + 1) \subseteq Bills
    BY <1>3 DEF Bills
  <2> QED BY <2>1, <2>2, <2>3, <2>4
<1>10. FinalIsLast'
  <2>1. \A b \in Standing : ~bills[b].final
    BY DEF Inv, Sound
  <2>2. ASSUME NEW f \in Standing', bills'[f].final PROVE f = k + 1
    <3>1. CASE f # k + 1
      <4>1. f \in Bills
        BY DEF Standing, Raised
      <4>2. bills'[f] = bills[f]
        BY <1>7, <3>1, <4>1
      <4>3. f \in Standing
        BY <4>1, <4>2 DEF Standing, Raised
      <4> QED BY <2>1, <2>2, <4>2, <4>3
    <3> QED BY <3>1
  <2>3. \A b \in Raised' : b <= k + 1
    BY <1>9
  <2> QED BY <2>2, <2>3 DEF FinalIsLast
<1>11. Held' = Held
  BY DEF Held
<1>12. \A u \in Sessions : ~OnProject(u)'
  <2>1. \A u \in Sessions \ {s} : ~OnProject(u)
    BY DEF Inv, OneOnProject, OnProject
  <2> QED BY <1>8, <2>1, IdleStage DEF OnProject, At
<1>13. ASSUME NEW u \in Sessions PROVE Sound(u)'
  <2>1. CASE u = s BY <1>8, <2>1, IdleStage DEF Sound, At
  <2>2. CASE u # s
    <3>1. Sound(u) BY DEF Inv
    <3>2. ~At(u, "raise")' BY <1>12 DEF OnProject
    <3> QED BY <1>8, <1>11, <2>2, <3>1, <3>2 DEF Sound, At
  <2> QED BY <2>1, <2>2
<1>14. Shape(N)'
  BY <1>5, <1>7, <1>8 DEF Shape
<1>15. InOrder'
  BY <1>3, <1>9 DEF InOrder
<1>16. OneOnProject' /\ HeldNeverNegative'
  BY <1>11, <1>12 DEF OneOnProject, HeldNeverNegative, Inv
<1> QED BY <1>10, <1>13, <1>14, <1>15, <1>16 DEF Inv

LEMMA InsertKeeps == ASSUME Inv, NEW s \in Sessions, Insert(s) PROVE Inv'
<1>1. CASE bills' = bills
  BY <1>1, LeaveKeeps DEF Insert
<1>2. CASE /\ Raised # Bills
           /\ bills' = [bills EXCEPT ![Cardinality(Raised) + 1] = Drawn(s)]
  BY <1>2, NewBillKeeps DEF Insert, At
<1> QED BY <1>1, <1>2, Zenon DEF Insert

\* Retention goes out while nobody else is on the project.
LEMMA PayOutKeeps == ASSUME Inv, NEW s \in Sessions, PayOut(s) PROVE Inv'
<1>1. PICK N : Shape(N)
  BY DEF Inv
<1>2. /\ tx' \in [Sessions -> Request(N)] /\ tx'[s] = Idle
      /\ \A u \in Sessions \ {s} : tx'[u] = tx[u]
  BY <1>1 DEF PayOut, Leave, Shape
<1>3. tx[s].amount \in Nat /\ tx[s].amount <= Held
  <2>1. tx[s].amount \in Nat
    BY <1>1, RequestFields DEF Shape
  <2> QED BY <2>1 DEF Inv, Sound, PayOut
<1>4. released' \in Nat /\ Held' >= 0 /\ withheld' \in Nat
  BY <1>1, <1>3 DEF Shape, PayOut, Held
<1>5. Raised' = Raised /\ Standing' = Standing /\ bills' = bills
  BY DEF PayOut, Raised, Standing
<1>6. \A u \in Sessions : ~OnProject(u)'
  <2>1. \A u \in Sessions \ {s} : ~OnProject(u)
    BY DEF Inv, OneOnProject, OnProject, PayOut, At
  <2> QED BY <1>2, <2>1, IdleStage DEF OnProject, At
<1>7. ASSUME NEW u \in Sessions PROVE Sound(u)'
  <2>1. CASE u = s BY <1>2, <2>1, IdleStage DEF Sound, At
  <2>2. CASE u # s
    <3>1. Sound(u) BY DEF Inv
    <3>2. ~At(u, "raise")' /\ ~At(u, "release")' BY <1>6 DEF OnProject
    <3> QED BY <1>2, <2>2, <3>1, <3>2 DEF Sound, At
  <2> QED BY <2>1, <2>2
<1>8. Shape(N)'
  BY <1>1, <1>2, <1>4, <1>5 DEF Shape
<1>9. OneOnProject' /\ HeldNeverNegative' /\ FinalIsLast' /\ InOrder'
  BY <1>4, <1>5, <1>6 DEF OneOnProject, HeldNeverNegative, FinalIsLast, InOrder, Inv
<1> QED BY <1>7, <1>8, <1>9 DEF Inv

LEMMA AllocateKeeps == ASSUME Inv, NEW s \in Sessions, Allocate(s) PROVE Inv'
  BY LeaveKeeps DEF Allocate

LEMMA AbortKeeps == ASSUME Inv, NEW s \in Sessions, Abort(s) PROVE Inv'
  BY LeaveKeeps DEF Abort

\* What receipts settle is no part of the invariant.
LEMMA StandsStill ==
  ASSUME Inv, UNCHANGED <<bills, withheld, released, tx>>
  PROVE  Inv'
<1>1. PICK N : Shape(N)
  BY DEF Inv
<1>2. Shape(N)'
  BY <1>1 DEF Shape
<1>3. Standing' = Standing /\ Raised' = Raised /\ Held' = Held
  BY DEF Standing, Raised, Held
<1>4. \A s \in Sessions : Sound(s)'
  BY <1>3 DEF Inv, Sound, At
<1>5. OneOnProject' /\ InOrder' /\ HeldNeverNegative' /\ FinalIsLast'
  BY <1>3 DEF Inv, OneOnProject, OnProject, At, InOrder, HeldNeverNegative, FinalIsLast
<1> QED BY <1>2, <1>4, <1>5 DEF Inv

LEMMA ReverseKeeps == ASSUME Inv, NEW p \in Receipts, Reverse(p) PROVE Inv'
  BY StandsStill DEF Reverse

\* A bill that moves was raised and stood, and withholds more or nothing.
LEMMA MoveKeeps ==
  ASSUME Inv, NEW b \in Raised, NEW next \in Statuses, NEW figure, Move(b, next, figure)
  PROVE  Inv'
<1>1. PICK M : Shape(M)
  BY DEF Inv
<1> DEFINE N == M \cup {figure}
<1>2. Shape(N) /\ figure \in N
  BY <1>1, Wider
<1> HIDE DEF N
<1>3. b \in Bills /\ bills[b] \in Bill(N)
  BY <1>2 DEF Raised, Shape
<1>4. next # "NONE" /\ bills[b].status \notin {"NONE", "CANCELLED"}
  <2>1. <<bills[b].status, next>> \in Transitions
    BY DEF Move
  <2> QED BY <2>1 DEF Transitions
<1> DEFINE fig == IF next = "CERTIFIED" THEN figure ELSE bills[b].certified
           half == [bills[b] EXCEPT !.status = next]
           moved == [half EXCEPT !.certified = fig]
<1>5. moved \in Bill(N) /\ moved.status = next /\ moved.final = bills[b].final
  <2>1. bills[b].certified \in N
    BY <1>3, SMT DEF Bill
  <2>2. fig \in N
    BY <1>2, <2>1
  <2> HIDE DEF fig
  <2>3. half \in Bill(N) /\ half.status = next /\ half.final = bills[b].final
    BY <1>3, SMT DEF Bill
  <2> HIDE DEF half
  <2> QED BY <2>2, <2>3, SMT DEF Bill
<1>6. /\ bills' \in [Bills -> Bill(N)] /\ bills'[b] = moved
      /\ \A c \in Bills \ {b} : bills'[c] = bills[c]
  <2> DEFINE mid == [bills EXCEPT ![b].status = next]
  <2>1. mid \in [Bills -> Bill(N)] /\ mid[b] = half /\ \A c \in Bills \ {b} : mid[c] = bills[c]
    <3>1. half \in Bill(N)
      BY <1>3, SMT DEF Bill
    <3>2. mid = [bills EXCEPT ![b] = half]
      BY Zenon
    <3> HIDE DEF half, mid
    <3> QED BY <1>2, <1>3, <3>1, <3>2 DEF Shape
  <2>2. half.certified = bills[b].certified
    BY <1>3, SMT DEF Bill
  <2>3. bills' = [bills EXCEPT ![b].status = next,
                               ![b].certified = IF next = "CERTIFIED" THEN figure ELSE @]
    BY Zenon DEF Move
  <2>4. bills' = [mid EXCEPT ![b] = [mid[b] EXCEPT !.certified =
                                       IF next = "CERTIFIED" THEN figure ELSE mid[b].certified]]
    BY <2>3, Zenon
  <2>5. bills' = [mid EXCEPT ![b] = moved]
    BY <2>1, <2>2, <2>4, Zenon
  <2> HIDE DEF mid, half, moved
  <2> QED BY <1>3, <1>5, <2>1, <2>5
<1> HIDE DEF moved
<1>7. withheld' \in Nat /\ withheld' >= withheld /\ released' = released /\ tx' = tx
  <2>1. bills[b].retention \in Nat
    BY <1>3, SMT DEF Bill
  <2> QED BY <1>2, <2>1 DEF Move, Certifies, Shape
<1>8. Raised' = Raised /\ Standing' \subseteq Standing
  <2>1. \A c \in Bills : (bills'[c].status # "NONE") <=> (bills[c].status # "NONE")
    BY <1>4, <1>5, <1>6
  <2>2. \A c \in Bills : bills[c].status = "CANCELLED" => bills'[c].status = "CANCELLED"
    BY <1>4, <1>6
  <2>3. Raised' = Raised
    BY <2>1 DEF Raised
  <2>4. \A c \in Raised : c \in Bills
    BY DEF Raised
  <2> QED BY <2>2, <2>3, <2>4 DEF Standing
<1>9. \A c \in Bills : bills'[c].final = bills[c].final
  BY <1>5, <1>6
<1>10. Held' >= Held
  <2>1. withheld \in Nat /\ released \in Nat
    BY <1>2 DEF Shape
  <2>2. withheld' \in Nat /\ withheld' >= withheld /\ released' = released
    BY <1>7
  <2>3. withheld' - released >= withheld - released
    BY <2>1, <2>2, TakenFromMore, Zenon
  <2>4. Held = withheld - released /\ Held' = withheld' - released
    BY <2>2 DEF Held
  <2> QED BY <2>3, <2>4
<1>11. Shape(N)'
  BY <1>2, <1>6, <1>7 DEF Shape
<1>12. FinalIsLast' /\ InOrder'
  <2>1. Standing' \subseteq Bills
    BY DEF Standing, Raised
  <2> QED BY <1>8, <1>9, <2>1 DEF Inv, FinalIsLast, InOrder
<1>13. OneOnProject' /\ HeldNeverNegative'
  <2>1. Held \in Int /\ Held' \in Int
    BY <1>2, <1>11 DEF Shape, Held
  <2> QED BY <1>7, <1>10, <2>1 DEF Inv, OneOnProject, OnProject, At, HeldNeverNegative
<1>14. ASSUME NEW u \in Sessions PROVE Sound(u)'
  <2>1. Sound(u)
    BY DEF Inv
  <2>2. Standing' \subseteq Bills
    BY DEF Standing, Raised
  <2>3. (\A c \in Standing : ~bills[c].final) => (\A c \in Standing' : ~bills'[c].final)
    BY <1>8, <1>9, <2>2
  <2>4. tx[u].amount \in Nat /\ Held \in Int /\ Held' \in Int
    BY <1>2, <1>11, RequestFields DEF Shape, Held
  <2> QED BY <1>7, <1>10, <2>1, <2>3, <2>4 DEF Sound, At
<1> QED BY <1>11, <1>12, <1>13, <1>14 DEF Inv

-----------------------------------------------------------------------------
(* The theorems.                                                            *)

LEMMA InitInv == Init => Inv
<1> SUFFICES ASSUME Init PROVE Inv
  OBVIOUS
<1> DEFINE N == {Idle.bill, Idle.receipt, Idle.recovery, 0, NoRecovery}
<1>1. Idle \in Request(N)
  <2> DEFINE first == CHOOSE p \in Receipts : TRUE
  <2>1. Idle = [kind |-> "raise", stage |-> "idle", bill |-> 0, receipt |-> first, amount |-> 0,
                upto |-> 0, final |-> FALSE, previous |-> 0, held |-> 0, recovery |-> NoRecovery]
    BY Zenon DEF Idle
  <2>2. first \in N /\ 0 \in N /\ NoRecovery \in N
    <3> HIDE DEF first
    <3> QED BY <2>1
  <2> HIDE DEF N, first
  <2> QED BY <2>1, <2>2 DEF Request, Kinds, Stages
<1>2. NoBill \in Bill(N)
  <2>1. 0 \in N /\ NoRecovery \in N
    OBVIOUS
  <2> HIDE DEF N
  <2> QED BY <2>1 DEF NoBill, Bill, Statuses
<1> HIDE DEF N
<1>3. Shape(N)
  BY <1>1, <1>2 DEF Init, Shape
<1>4. \A b \in Bills : bills[b].status = "NONE"
  BY DEF Init, NoBill
<1>5. Raised = {} /\ Standing = {}
  BY <1>4 DEF Raised, Standing
<1>6. InOrder
  <2>1. 1 .. 0 = {} /\ 0 \in 0 .. MaxBills
    OBVIOUS
  <2> QED BY <1>5, <2>1 DEF InOrder
<1>7. OneOnProject /\ HeldNeverNegative /\ FinalIsLast
  BY <1>5, IdleStage DEF Init, OneOnProject, OnProject, At, HeldNeverNegative, Held, FinalIsLast
<1>8. \A s \in Sessions : Sound(s)
  BY IdleStage DEF Init, Sound, At
<1> QED BY <1>3, <1>6, <1>7, <1>8 DEF Inv

LEMMA NextKeeps == Inv /\ [Next]_vars => Inv'
<1> SUFFICES ASSUME Inv, [Next]_vars PROVE Inv'
  OBVIOUS
<1>1. ASSUME NEW s \in Sessions,
             \/ Raise(s) \/ Receive(s) \/ Release(s)
             \/ ReadPrevious(s) \/ ReadHeld(s) \/ ReadAdvances(s) \/ Insert(s)
             \/ Look(s) \/ Allocate(s) \/ PayOut(s) \/ Abort(s)
      PROVE  Inv'
  <2>1. CASE Raise(s) BY <2>1, RaiseKeeps
  <2>2. CASE Receive(s) BY <2>2, ReceiveKeeps
  <2>3. CASE Release(s) BY <2>3, ReleaseKeeps
  <2>4. CASE ReadPrevious(s) BY <2>4, ReadPreviousKeeps
  <2>5. CASE ReadHeld(s) BY <2>5, ReadHeldKeeps
  <2>6. CASE ReadAdvances(s) BY <2>6, ReadAdvancesKeeps
  <2>7. CASE Insert(s) BY <2>7, InsertKeeps
  <2>8. CASE Look(s) BY <2>8, LookKeeps
  <2>9. CASE Allocate(s) BY <2>9, AllocateKeeps
  <2>10. CASE PayOut(s) BY <2>10, PayOutKeeps
  <2>11. CASE Abort(s) BY <2>11, AbortKeeps
  <2> QED BY <1>1, <2>1, <2>2, <2>3, <2>4, <2>5, <2>6, <2>7, <2>8, <2>9, <2>10, <2>11, Zenon
<1>2. ASSUME NEW p \in Receipts, Reverse(p) PROVE Inv'
  BY <1>2, ReverseKeeps
<1>3. ASSUME NEW b \in Raised, NEW next \in Statuses, NEW figure, Move(b, next, figure)
      PROVE  Inv'
  BY <1>3, MoveKeeps
<1>4. CASE UNCHANGED vars
  BY <1>4, StandsStill DEF vars
<1> QED BY <1>1, <1>2, <1>3, <1>4, Zenon DEF Next

\* The inductive invariant: one session at a time is on the project, what it
\* found there still holds, and bills are numbered without a gap.
THEOREM Invariance == Spec => []Inv
  BY InitInv, NextKeeps, PTL DEF Spec

\* No retention is released that was not withheld, however many release it,
\* raise bills and certify them at a time.
THEOREM RetentionWithinHeld == Spec => []HeldNeverNegative
<1>1. Inv => HeldNeverNegative BY DEF Inv
<1> QED BY <1>1, Invariance, PTL

\* No bill is raised after a final one that stands, though the check is made
\* long before the bill is written.
THEOREM NothingAfterFinal == Spec => []FinalIsLast
<1>1. Inv => FinalIsLast BY DEF Inv
<1> QED BY <1>1, Invariance, PTL

-----------------------------------------------------------------------------
(* What a bill's receipts add up to, and what it recovers of the advances.  *)

Slips == [bill : Bills \cup {0}, amount : Nat]

On(A, b) == {p \in Receipts : A[p].bill = b}
AmountOf(A, D) == [p \in D |-> A[p].amount]

LEMMA SlipFields == \A x \in Slips : x.bill \in Bills \cup {0} /\ x.amount \in Nat
  BY DEF Slips

\* The model's folds are sums.
LEMMA ReceivedIsSum ==
  ASSUME NEW A \in [Receipts -> Slips], NEW b
  PROVE  /\ IsFiniteSet(On(A, b))
         /\ \A p \in On(A, b) : AmountOf(A, On(A, b))[p] = A[p].amount /\ A[p].amount \in Nat
         /\ IsSum(On(A, b), AmountOf(A, On(A, b)), Received(A, b))
<1> DEFINE D == On(A, b)
           f == AmountOf(A, D)
           Eq(h) == h = [s \in SUBSET D |-> IF s = {} THEN 0
                           ELSE A[CHOOSE x \in s : TRUE].amount + h[s \ {CHOOSE x \in s : TRUE}]]
           iter == CHOOSE h : Eq(h)
<1>1. Received(A, b) = iter[D]
  BY Zenon DEF Received, On, MapThenSumSet, MapThenFoldSet
<1>2. IsFiniteSet(D) /\ \A x \in D : f[x] = A[x].amount /\ A[x].amount \in Nat
  <2>1. IsFiniteSet(D)
    BY FS_Subset, BillingFinite DEF On
  <2> QED BY <2>1, SlipFields DEF On, AmountOf
<1> HIDE DEF D, f
<1>3. ASSUME NEW h PROVE Eq(h) <=> IsFold(D, f, h)
  <2>1. \A s \in SUBSET D : s # {} => f[CHOOSE x \in s : TRUE] = A[CHOOSE x \in s : TRUE].amount
    BY <1>2
  <2>2. ASSUME NEW s \in SUBSET D
        PROVE (IF s = {} THEN 0 ELSE f[CHOOSE x \in s : TRUE] + h[s \ {CHOOSE x \in s : TRUE}])
          = (IF s = {} THEN 0
             ELSE A[CHOOSE x \in s : TRUE].amount + h[s \ {CHOOSE x \in s : TRUE}])
    <3>1. CASE s = {} BY <3>1, Zenon
    <3>2. CASE s # {}
      <4>1. f[CHOOSE x \in s : TRUE] = A[CHOOSE x \in s : TRUE].amount
        BY <2>1, <3>2, Zenon
      <4> QED BY <3>2, <4>1, Zenon
    <3> QED BY <3>1, <3>2, Zenon
  <2> QED BY ONLY <2>2, Zenon DEF IsFold
<1>n. \A x \in D : f[x] \in Int
  BY <1>2
<1>4. \E h : Eq(h)
  <2>1. \E h : IsFold(D, f, h)
    BY ONLY <1>2, <1>n, FoldIsSum
  <2> HIDE DEF Eq
  <2> QED BY <1>3, <2>1, Zenon
<1>5. Eq(iter)
  BY <1>4, Zenon
<1> HIDE DEF iter, Eq
<1>6. IsSum(D, f, iter[D])
  <2>1. IsFold(D, f, iter)
    BY <1>3, <1>5, Zenon
  <2> QED BY ONLY <1>2, <1>n, <2>1, FoldIsSum
<1> QED BY <1>1, <1>2, <1>6 DEF D, f

LEMMA ReceivedType ==
  ASSUME NEW A \in [Receipts -> Slips], NEW b
  PROVE  Received(A, b) \in Nat
<1> PICK D, f, v : D = On(A, b) /\ f = AmountOf(A, D) /\ v = Received(A, b)
  OBVIOUS
<1>1. IsFiniteSet(D) /\ (\A x \in D : f[x] \in Nat) /\ IsSum(D, f, v)
  BY ReceivedIsSum
<1> QED BY <1>1, SumOfNaturals

\* Without one of the receipts.
LEMMA ReceivedWithout ==
  ASSUME NEW A \in [Receipts -> Slips], NEW B \in [Receipts -> Slips], NEW b,
         NEW p \in Receipts, \A q \in Receipts \ {p} : B[q] = A[q], B[p].bill # b
  PROVE  Received(A, b) = Received(B, b) + (IF A[p].bill = b THEN A[p].amount ELSE 0)
<1> PICK D, f, v : D = On(A, b) /\ f = AmountOf(A, D) /\ v = Received(A, b)
  OBVIOUS
<1> PICK E, g, w : E = On(B, b) /\ g = AmountOf(B, E) /\ w = Received(B, b)
  OBVIOUS
<1>1. /\ IsFiniteSet(D) /\ (\A x \in D : f[x] = A[x].amount /\ f[x] \in Nat) /\ IsSum(D, f, v)
  BY ReceivedIsSum
<1>2. /\ IsFiniteSet(E) /\ (\A x \in E : g[x] = B[x].amount /\ g[x] \in Nat) /\ IsSum(E, g, w)
  BY ReceivedIsSum
<1>3. E = D \ {p} /\ (p \in D <=> A[p].bill = b) /\ \A x \in E : A[x].amount = B[x].amount
  BY DEF On
<1>n. (\A x \in D : f[x] \in Int) /\ (\A x \in E : g[x] \in Int)
  BY <1>1, <1>2
<1>v. v \in Int /\ w \in Int
  BY <1>1, <1>2, SumType
<1>4. CASE p \in D
  <2>0. PICK u : u = v - f[p]
    OBVIOUS
  <2>1. IsSum(E, f, u)
    <3>1. IsSum(D \ {p}, f, v - f[p])
      BY ONLY <1>1, <1>4, <1>n, SumWithout
    <3> QED BY <1>3, <2>0, <3>1, Zenon
  <2>2. \A x \in E : f[x] = g[x] /\ f[x] \in Int
    <3>1. ASSUME NEW x \in E PROVE f[x] = g[x] /\ f[x] \in Int
      <4>1. x \in D
        BY <1>3
      <4> QED BY ONLY <1>1, <1>2, <1>3, <1>n, <4>1, x \in E
    <3> QED BY <3>1
  <2>3. u = w
    BY ONLY <1>2, <2>1, <2>2, SumUnique
  <2>4. f[p] = A[p].amount /\ f[p] \in Nat
    BY <1>1, <1>4
  <2> QED BY <1>3, <1>4, <1>v, <2>0, <2>3, <2>4
<1>5. CASE p \notin D
  <2>1. E = D /\ \A x \in D : f[x] = g[x]
    BY <1>1, <1>2, <1>3, <1>5
  <2>2. v = w
    BY ONLY <1>1, <1>2, <1>n, <2>1, SumUnique
  <2> QED BY <1>3, <1>5, <1>v, <2>2
<1> QED BY <1>4, <1>5

LEMMA ReceivedNone ==
  ASSUME NEW A \in [Receipts -> Slips], NEW b, \A p \in Receipts : A[p].bill # b
  PROVE  Received(A, b) = 0
<1> PICK D, f, v : D = On(A, b) /\ f = AmountOf(A, D) /\ v = Received(A, b)
  OBVIOUS
<1>1. IsSum(D, f, v) /\ D = {}
  BY ReceivedIsSum DEF On
<1> QED BY <1>1, SumOfNone

\* What is recovered of all advances together is a number.
LEMMA RecoveredType ==
  ASSUME NEW R \in [Advances -> Nat]
  PROVE  FoldFunction(+, 0, R) \in Int
<1> DEFINE D == DOMAIN R
           Eq(h) == h = [s \in SUBSET D |-> IF s = {} THEN 0
                           ELSE R[CHOOSE x \in s : TRUE] + h[s \ {CHOOSE x \in s : TRUE}]]
           iter == CHOOSE h : Eq(h)
<1>1. FoldFunction(+, 0, R) = iter[D]
  BY Zenon DEF FoldFunction, FoldFunctionOnSet, MapThenFoldSet
<1>2. IsFiniteSet(D) /\ \A x \in D : R[x] \in Int
  BY BillingFinite
<1> HIDE DEF D
<1>3. ASSUME NEW h PROVE Eq(h) <=> IsFold(D, R, h)
  BY Zenon DEF IsFold
<1>4. \E h : Eq(h)
  <2>1. \E h : IsFold(D, R, h)
    BY ONLY <1>2, FoldIsSum
  <2> HIDE DEF Eq
  <2> QED BY <1>3, <2>1, Zenon
<1>5. Eq(iter)
  BY <1>4, Zenon
<1> HIDE DEF iter, Eq
<1>6. IsSum(D, R, iter[D])
  <2>1. IsFold(D, R, iter)
    BY <1>3, <1>5, Zenon
  <2> QED BY ONLY <1>2, <2>1, FoldIsSum
<1> QED BY <1>1, <1>6, SumType

LEMMA ShareNat == ASSUME NEW n \in Int, NEW k \in Nat \ {0} PROVE Share(n, k) \in Nat
<1> PICK m : m = AtLeastNone(n)
  OBVIOUS
<1>1. m \in Nat
  BY DEF AtLeastNone
<1>2. m \div k \in Int /\ k * (m \div k) <= m /\ m < k * (m \div k) + k
  BY ONLY <1>1, k \in Nat \ {0}
<1>3. m \div k >= 0
  BY ONLY <1>1, <1>2, k \in Nat \ {0}
<1> QED BY <1>2, <1>3 DEF Share

LEMMA RecoveryType ==
  ASSUME NEW n \in Int, recovered \in [Advances -> Nat],
         \A a \in Advances : recovered[a] <= Advanced[a]
  PROVE  Recovery(n) \in [Advances -> Nat]
<1>1. Share(n, RecoverIn) \in Nat
  BY ShareNat
<1>2. ASSUME NEW a \in Advances
      PROVE  Lesser(Advanced[a] - recovered[a], Share(n, RecoverIn)) \in Nat
  <2>1. Advanced[a] \in Nat /\ recovered[a] \in Nat /\ recovered[a] <= Advanced[a]
    OBVIOUS
  <2> QED BY ONLY <1>1, <2>1 DEF Lesser
<1> QED BY <1>2, Zenon DEF Recovery

LEMMA AttributedType ==
  ASSUME NEW R \in [Advances -> Nat]
  PROVE  Attributed(R) \in [Advances -> Nat]
<1>1. ASSUME NEW a \in Advances
      PROVE  R[a] * Cardinality({c \in Advances : R[c] = R[a]}) \in Nat
  <2>1. IsFiniteSet({c \in Advances : R[c] = R[a]})
    BY FS_Subset, BillingFinite
  <2>2. Cardinality({c \in Advances : R[c] = R[a]}) \in Nat
    BY <2>1, FS_CardinalityType
  <2>3. R[a] \in Nat
    OBVIOUS
  <2> QED BY ONLY <2>2, <2>3
<1> QED BY <1>1 DEF Attributed


-----------------------------------------------------------------------------
(* The second invariant: what the fields hold that Inv leaves open, what    *)
(* sessions that receive have found, and that receipts add up.              *)

Asked(t) ==
  /\ t.bill \in Bills \cup {0} /\ t.receipt \in Receipts \cup {Idle.receipt}
  /\ t.recovery \in [Advances -> Nat]

Figured(r) ==
  /\ r.gross \in Int /\ r.net \in Int
  /\ r.recovers \in [Advances -> Nat] /\ r.certified \in Nat

Receives(t) == t.stage # "idle" /\ t.kind = "receive"

\* What a session that receives has under its two rows: a receipt that is not
\* applied yet, and a bill that takes receipts; at last, that the bill is worth it.
Found(t) ==
  /\ t.receipt \in Receipts /\ t.bill \in Bills /\ t.amount \in Nat \ {0}
  /\ applied[t.receipt] = Unapplied
  /\ bills[t.bill].status \in Payable
  /\ t.stage = "commit" => t.amount <= Worth(t.bill) - settled[t.bill]

\* No two of them share a receipt or a bill.
Apart ==
  \A s, u \in Sessions : s # u /\ Receives(tx[s]) /\ Receives(tx[u]) =>
    tx[s].receipt # tx[u].receipt /\ tx[s].bill # tx[u].bill

Summed ==
  /\ applied \in [Receipts -> Slips] /\ settled \in [Bills -> Int]
  /\ \A p \in Receipts : applied[p] = Unapplied \/ applied[p].bill \in Bills
  /\ \A b \in Bills : settled[b] = Received(applied, b)

\* The schema's check on an advance.
PaidDown == recovered \in [Advances -> Nat] /\ \A a \in Advances : recovered[a] <= Advanced[a]

Accounts ==
  /\ Summed /\ PaidDown /\ Apart
  /\ \A b \in Bills : Figured(bills[b])
  /\ \A s \in Sessions : Asked(tx[s]) /\ (Receives(tx[s]) => Found(tx[s]))

LEMMA IdleAsked == Asked(Idle) /\ ~Receives(Idle)
  BY DEF Asked, Receives, Idle, NoRecovery

LEMMA UnappliedSlip == Unapplied \in Slips /\ Unapplied.bill = 0 /\ Unapplied.amount = 0
  BY DEF Unapplied, Slips

\* A session that becomes t, where nothing else it depends on changes.
LEMMA AccountsOfSession ==
  ASSUME Inv, Accounts, NEW s \in Sessions, NEW t, tx' = [tx EXCEPT ![s] = t],
         Asked(t), Receives(t) => Found(t),
         Receives(t) => \A u \in Sessions \ {s} : Receives(tx[u]) =>
                          t.receipt # tx[u].receipt /\ t.bill # tx[u].bill,
         UNCHANGED <<bills, applied, settled, recovered>>
  PROVE  Accounts'
<1>1. tx'[s] = t /\ \A u \in Sessions \ {s} : tx'[u] = tx[u]
  BY DEF Inv, Shape
<1>2. Summed' /\ PaidDown' /\ \A b \in Bills : Figured(bills[b])'
  BY DEF Accounts, Summed, PaidDown
<1>3. Apart'
  BY ONLY <1>1, Accounts, s \in Sessions,
          Receives(t) => \A u \in Sessions \ {s} : Receives(tx[u]) =>
                           t.receipt # tx[u].receipt /\ t.bill # tx[u].bill
     DEF Accounts, Apart, Receives
<1>4. ASSUME NEW u \in Sessions PROVE Asked(tx'[u]) /\ (Receives(tx'[u]) => Found(tx'[u]))
  BY <1>1 DEF Accounts
<1>5. ASSUME NEW u \in Sessions PROVE Asked(tx[u])' /\ (Receives(tx[u]) => Found(tx[u]))'
  <2>1. Asked(tx'[u]) => Asked(tx[u])'
    BY DEF Asked
  <2>2. Receives(tx[u])' => Receives(tx'[u])
    BY DEF Receives
  <2>3. Found(tx'[u]) => Found(tx[u])'
    BY DEF Found, Worth
  <2> QED BY <1>4, <2>1, <2>2, <2>3
<1> QED BY <1>2, <1>3, <1>5 DEF Accounts

LEMMA AccountsOfLeave ==
  ASSUME Inv, Accounts, NEW s \in Sessions, Leave(s),
         UNCHANGED <<bills, applied, settled, recovered>>
  PROVE  Accounts'
<1>1. tx' = [tx EXCEPT ![s] = Idle]
  BY DEF Leave
<1> QED BY <1>1, IdleAsked, AccountsOfSession

-----------------------------------------------------------------------------
(* What requests become.                                                    *)

\* A request that has begun and is given no particulars yet.
Started(N, t, k, stage) ==
  /\ t \in Request(N) /\ t.kind = k /\ t.stage = stage
  /\ t.bill = Idle.bill /\ t.receipt = Idle.receipt /\ t.recovery = Idle.recovery

LEMMA StartedFields ==
  ASSUME NEW N, Idle \in Request(N), NEW k \in Kinds, NEW stage \in Stages
  PROVE  Started(N, [Idle EXCEPT !.kind = k, !.stage = stage], k, stage)
<1> DEFINE a == [Idle EXCEPT !.kind = k]
           t == [a EXCEPT !.stage = stage]
<1>1. a \in Request(N)
  BY RequestField, Zenon
<1>2. a.kind = k /\ a.bill = Idle.bill /\ a.receipt = Idle.receipt /\ a.recovery = Idle.recovery
  BY SMT DEF Request
<1> HIDE DEF a
<1>3. t \in Request(N)
  BY <1>1, RequestField, Zenon
<1>4. /\ t.kind = k /\ t.stage = stage
      /\ t.bill = Idle.bill /\ t.receipt = Idle.receipt /\ t.recovery = Idle.recovery
  BY <1>1, <1>2, SMT DEF Request
<1>5. t = [Idle EXCEPT !.kind = k, !.stage = stage]
  BY Zenon DEF a
<1> QED BY <1>3, <1>4, <1>5, Zenon DEF Started

\* Fields of a request to raise a bill, to receive or to release.

LEMMA RaiseAsks ==
  ASSUME NEW N, Idle \in Request(N), NEW upto \in Nat, NEW final \in BOOLEAN
  PROVE  LET t == [Idle EXCEPT !.kind = "raise", !.stage = "previous", !.upto = upto, !.final = final]
         IN  Asked(t) /\ ~Receives(t)
<1> DEFINE b == [Idle EXCEPT !.kind = "raise", !.stage = "previous"]
           c == [b EXCEPT !.upto = upto]
           t == [c EXCEPT !.final = final]
<1>1. /\ b \in Request(N) /\ b.kind = "raise"
      /\ b.bill = Idle.bill /\ b.receipt = Idle.receipt /\ b.recovery = Idle.recovery
  <2>1. "raise" \in Kinds /\ "previous" \in Stages
    BY DEF Kinds, Stages
  <2>2. Started(N, [Idle EXCEPT !.kind = "raise", !.stage = "previous"], "raise", "previous")
    BY ONLY <2>1, StartedFields, Idle \in Request(N), Zenon
  <2> QED BY ONLY <2>2, Zenon DEF Started
<1> HIDE DEF b
<1>2. c \in Request(N)
  BY <1>1, RequestField, Zenon
<1>3. /\ c.kind = "raise"
      /\ c.bill = Idle.bill /\ c.receipt = Idle.receipt /\ c.recovery = Idle.recovery
  BY <1>1, SMT DEF Request
<1> HIDE DEF c
<1>4. /\ t.kind = "raise"
      /\ t.bill = Idle.bill /\ t.receipt = Idle.receipt /\ t.recovery = Idle.recovery
  BY <1>2, <1>3, SMT DEF Request
<1>5. t = [Idle EXCEPT !.kind = "raise", !.stage = "previous", !.upto = upto, !.final = final]
  BY Zenon DEF b, c
<1> HIDE DEF t
<1>6. Asked(t) /\ ~Receives(t)
  BY <1>4, IdleAsked DEF Asked, Receives
<1> QED BY <1>5, <1>6, Zenon

LEMMA ReleaseAsks ==
  ASSUME NEW N, Idle \in Request(N), NEW n \in Nat
  PROVE  LET t == [Idle EXCEPT !.kind = "release", !.stage = "look", !.amount = n]
         IN  Asked(t) /\ ~Receives(t)
<1> DEFINE b == [Idle EXCEPT !.kind = "release", !.stage = "look"]
           t == [b EXCEPT !.amount = n]
<1>1. /\ b \in Request(N) /\ b.kind = "release"
      /\ b.bill = Idle.bill /\ b.receipt = Idle.receipt /\ b.recovery = Idle.recovery
  <2>1. "release" \in Kinds /\ "look" \in Stages
    BY DEF Kinds, Stages
  <2>2. Started(N, [Idle EXCEPT !.kind = "release", !.stage = "look"], "release", "look")
    BY ONLY <2>1, StartedFields, Idle \in Request(N), Zenon
  <2> QED BY ONLY <2>2, Zenon DEF Started
<1> HIDE DEF b
<1>2. /\ t.kind = "release"
      /\ t.bill = Idle.bill /\ t.receipt = Idle.receipt /\ t.recovery = Idle.recovery
  BY <1>1, SMT DEF Request
<1>3. t = [Idle EXCEPT !.kind = "release", !.stage = "look", !.amount = n]
  BY Zenon DEF b
<1> HIDE DEF t
<1>4. Asked(t) /\ ~Receives(t)
  BY <1>2, IdleAsked DEF Asked, Receives
<1> QED BY <1>3, <1>4, Zenon

AsksToReceive(t, p, d, n) ==
  /\ t.kind = "receive" /\ t.stage = "look" /\ t.receipt = p /\ t.bill = d /\ t.amount = n
  /\ Asked(t)

LEMMA ReceiveAsks ==
  ASSUME NEW M, Shape(M), NEW p \in Receipts, NEW d \in Bills, NEW n \in Nat
  PROVE  AsksToReceive([Idle EXCEPT !.kind = "receive", !.stage = "look", !.receipt = p, !.bill = d,
                                    !.amount = n], p, d, n)
<1> DEFINE N == M \cup {p, d}
           b == [Idle EXCEPT !.kind = "receive", !.stage = "look"]
           c == [b EXCEPT !.receipt = p]
           e == [c EXCEPT !.bill = d]
           t == [e EXCEPT !.amount = n]
<1>1. Idle \in Request(N) /\ p \in N /\ d \in N
  BY Wider DEF Shape
<1> HIDE DEF N
<1>2. b \in Request(N) /\ b.kind = "receive" /\ b.stage = "look" /\ b.recovery = Idle.recovery
  <2>1. "receive" \in Kinds /\ "look" \in Stages
    BY DEF Kinds, Stages
  <2>2. Started(N, [Idle EXCEPT !.kind = "receive", !.stage = "look"], "receive", "look")
    BY ONLY <2>1, StartedFields, <1>1, Zenon
  <2> QED BY ONLY <2>2, Zenon DEF Started
<1> HIDE DEF b
<1>3. c \in Request(N)
  BY <1>1, <1>2, RequestField, Zenon
<1>4. c.kind = "receive" /\ c.stage = "look" /\ c.recovery = Idle.recovery /\ c.receipt = p
  BY <1>2, SMT DEF Request
<1> HIDE DEF c
<1>5. e \in Request(N)
  BY <1>1, <1>3, RequestField, Zenon
<1>6. /\ e.kind = "receive" /\ e.stage = "look" /\ e.recovery = Idle.recovery /\ e.receipt = p
      /\ e.bill = d
  BY <1>3, <1>4, SMT DEF Request
<1> HIDE DEF e
<1>7. /\ t.kind = "receive" /\ t.stage = "look" /\ t.recovery = Idle.recovery /\ t.receipt = p
      /\ t.bill = d /\ t.amount = n
  BY <1>5, <1>6, SMT DEF Request
<1>8. t = [Idle EXCEPT !.kind = "receive", !.stage = "look", !.receipt = p, !.bill = d,
                       !.amount = n]
  BY Zenon DEF b, c, e
<1> HIDE DEF t
<1>9. AsksToReceive(t, p, d, n)
  BY <1>7, IdleAsked DEF AsksToReceive, Asked
<1> QED BY <1>8, <1>9, Zenon

\* A request that moves on.
MovesOn(t, u, stage, recovery) ==
  /\ u.stage = stage /\ u.kind = t.kind /\ u.amount = t.amount
  /\ u.bill = t.bill /\ u.receipt = t.receipt /\ u.recovery = recovery

LEMMA MovedFields ==
  ASSUME NEW N, NEW t \in Request(N), NEW stage, NEW n, NEW h, NEW m
  PROVE  /\ MovesOn(t, [t EXCEPT !.stage = stage], stage, t.recovery)
         /\ MovesOn(t, [t EXCEPT !.previous = n, !.stage = stage], stage, t.recovery)
         /\ MovesOn(t, [t EXCEPT !.held = h, !.stage = stage], stage, t.recovery)
         /\ MovesOn(t, [t EXCEPT !.recovery = m, !.stage = stage], stage, m)
<1>1. MovesOn(t, [t EXCEPT !.stage = stage], stage, t.recovery)
  BY SMT DEF Request, MovesOn
<1>2. MovesOn(t, [t EXCEPT !.previous = n, !.stage = stage], stage, t.recovery)
  BY SMT DEF Request, MovesOn
<1>3. MovesOn(t, [t EXCEPT !.held = h, !.stage = stage], stage, t.recovery)
  BY SMT DEF Request, MovesOn
<1>4. MovesOn(t, [t EXCEPT !.recovery = m, !.stage = stage], stage, m)
  BY SMT DEF Request, MovesOn
<1> QED BY <1>1, <1>2, <1>3, <1>4

-----------------------------------------------------------------------------
(* One lemma for each action again.                                         *)

LEMMA QuietAccounts ==
  ASSUME Inv, Accounts, NEW s \in Sessions, NEW t, tx' = [tx EXCEPT ![s] = t],
         Asked(t), ~Receives(t), UNCHANGED <<bills, applied, settled, recovered>>
  PROVE  Accounts'
  BY AccountsOfSession

LEMMA RaiseAccounts == ASSUME Inv, Accounts, NEW s \in Sessions, Raise(s) PROVE Accounts'
<1>1. PICK N : Shape(N)
  BY DEF Inv
<1>2. PICK upto \in Measures, final \in BOOLEAN :
        Begin(s, [Idle EXCEPT !.kind = "raise", !.stage = "previous", !.upto = upto, !.final = final])
  BY Zenon DEF Raise
<1> DEFINE t == [Idle EXCEPT !.kind = "raise", !.stage = "previous", !.upto = upto, !.final = final]
<1>3. Asked(t) /\ ~Receives(t)
  <2>1. upto \in Nat /\ Idle \in Request(N)
    BY <1>1 DEF Shape
  <2> QED BY <2>1, RaiseAsks, Zenon
<1>4. tx' = [tx EXCEPT ![s] = t] /\ UNCHANGED <<bills, applied, settled, recovered>>
  BY <1>2, Zenon DEF Begin
<1> HIDE DEF t
<1> QED BY <1>3, <1>4, QuietAccounts

LEMMA ReleaseAccounts == ASSUME Inv, Accounts, NEW s \in Sessions, Release(s) PROVE Accounts'
<1>1. PICK N : Shape(N)
  BY DEF Inv
<1>2. PICK n \in Amounts \ {0} :
        Begin(s, [Idle EXCEPT !.kind = "release", !.stage = "look", !.amount = n])
  BY Zenon DEF Release
<1> DEFINE t == [Idle EXCEPT !.kind = "release", !.stage = "look", !.amount = n]
<1>3. Asked(t) /\ ~Receives(t)
  <2>1. n \in Nat /\ Idle \in Request(N)
    BY <1>1 DEF Shape
  <2> QED BY <2>1, ReleaseAsks, Zenon
<1>4. tx' = [tx EXCEPT ![s] = t] /\ UNCHANGED <<bills, applied, settled, recovered>>
  BY <1>2, Zenon DEF Begin
<1> HIDE DEF t
<1> QED BY <1>3, <1>4, QuietAccounts

\* The receipt and the bill are free, and nothing is applied of the receipt.
LEMMA ReceiveAccounts == ASSUME Inv, Accounts, NEW s \in Sessions, Receive(s) PROVE Accounts'
<1>1. PICK M : Shape(M)
  BY DEF Inv
<1>2. PICK p \in Receipts, d \in Bills, n \in Amounts \ {0} :
        /\ ReceiptFree(p) /\ BillFree(d)
        /\ applied[p] = Unapplied
        /\ bills[d].status \in Payable
        /\ Begin(s, [Idle EXCEPT !.kind = "receive", !.stage = "look", !.receipt = p, !.bill = d,
                                 !.amount = n])
  BY Zenon DEF Receive
<1> DEFINE t == [Idle EXCEPT !.kind = "receive", !.stage = "look", !.receipt = p, !.bill = d,
                             !.amount = n]
<1>3. AsksToReceive(t, p, d, n)
  <2>1. n \in Nat OBVIOUS
  <2> QED BY <1>1, <2>1, ReceiveAsks, Zenon
<1>4. tx' = [tx EXCEPT ![s] = t] /\ UNCHANGED <<bills, applied, settled, recovered>>
  BY <1>2, Zenon DEF Begin
<1> HIDE DEF t
<1>5. Found(t)
  <2>1. n \in Nat \ {0} OBVIOUS
  <2> QED BY <1>2, <1>3, <2>1 DEF Found, AsksToReceive
<1>6. \A u \in Sessions \ {s} : Receives(tx[u]) => t.receipt # tx[u].receipt /\ t.bill # tx[u].bill
  BY <1>2, <1>3 DEF AsksToReceive, ReceiptFree, BillFree, At, Receives
<1> QED BY <1>3, <1>4, <1>5, <1>6, AccountsOfSession DEF AsksToReceive

LEMMA ReadAccounts ==
  ASSUME Inv, Accounts, NEW s \in Sessions, ReadPrevious(s) \/ ReadHeld(s) \/ ReadAdvances(s)
  PROVE  Accounts'
<1>1. PICK N : Shape(N)
  BY DEF Inv
<1>2. tx[s] \in Request(N) /\ tx[s].kind = "raise" /\ Asked(tx[s])
  BY <1>1 DEF Shape, Inv, Sound, Accounts, ReadPrevious, ReadHeld, ReadAdvances
<1>3. ASSUME NEW u, NEW stage, NEW r \in [Advances -> Nat], MovesOn(tx[s], u, stage, r),
             tx' = [tx EXCEPT ![s] = u], UNCHANGED <<bills, applied, settled, recovered>>
      PROVE  Accounts'
  <2>1. Asked(u) /\ ~Receives(u)
    BY <1>2, <1>3 DEF MovesOn, Asked, Receives
  <2> QED BY <1>3, <2>1, QuietAccounts
<1>4. UNCHANGED <<bills, applied, settled, recovered>>
  BY DEF ReadPrevious, ReadHeld, ReadAdvances
<1>5. tx[s].recovery \in [Advances -> Nat]
  BY <1>2 DEF Asked
<1>6. CASE Leave(s)
  BY <1>4, <1>6, AccountsOfLeave
<1>7. CASE tx' = [tx EXCEPT ![s] = [@ EXCEPT !.previous = Previous, !.stage = "held"]]
  <2> PICK u : u = [tx[s] EXCEPT !.previous = Previous, !.stage = "held"]
    OBVIOUS
  <2>1. MovesOn(tx[s], u, "held", tx[s].recovery)
    BY <1>2, MovedFields, Zenon
  <2>2. tx' = [tx EXCEPT ![s] = u]
    BY <1>7, Zenon
  <2> QED BY <1>3, <1>4, <1>5, <2>1, <2>2
<1>8. CASE ReadHeld(s)
  <2> PICK u : u = [tx[s] EXCEPT !.held = Held, !.stage = "advances"]
    OBVIOUS
  <2>1. MovesOn(tx[s], u, "advances", tx[s].recovery)
    BY <1>2, MovedFields, Zenon
  <2>2. tx' = [tx EXCEPT ![s] = u]
    BY <1>8, Zenon DEF ReadHeld
  <2> QED BY <1>3, <1>4, <1>5, <2>1, <2>2
<1>9. CASE ReadAdvances(s)
  <2> PICK m : m = Recovery(tx[s].upto - tx[s].previous)
    OBVIOUS
  <2> PICK u : u = [tx[s] EXCEPT !.recovery = m, !.stage = "commit"]
    OBVIOUS
  <2>1. MovesOn(tx[s], u, "commit", m)
    BY <1>2, MovedFields, Zenon
  <2>2. tx' = [tx EXCEPT ![s] = u]
    BY <1>9, Zenon DEF ReadAdvances
  <2>3. m \in [Advances -> Nat]
    <3>1. tx[s].upto - tx[s].previous \in Int
      BY <1>2, RequestFields
    <3> QED BY <3>1, RecoveryType DEF Accounts, PaidDown
  <2> QED BY <1>3, <1>4, <2>1, <2>2, <2>3
<1>10. CASE ReadPrevious(s)
  BY <1>6, <1>7, <1>10, Zenon DEF ReadPrevious
<1> QED BY <1>8, <1>9, <1>10

\* What is received is within what the bill is worth.
LEMMA LookAccounts == ASSUME Inv, Accounts, NEW s \in Sessions, Look(s) PROVE Accounts'
<1>1. PICK N : Shape(N)
  BY DEF Inv
<1>2. tx[s] \in Request(N) /\ Asked(tx[s]) /\ tx[s].stage = "look"
  BY <1>1 DEF Shape, Accounts, Look
<1>4. UNCHANGED <<bills, applied, settled, recovered>>
  BY DEF Look
<1>5. CASE Leave(s)
  BY <1>4, <1>5, AccountsOfLeave
<1>6. CASE /\ Go(s, "commit")
           /\ tx[s].kind = "receive" => tx[s].amount <= Worth(tx[s].bill) - settled[tx[s].bill]
  <2> PICK u : u = [tx[s] EXCEPT !.stage = "commit"]
    OBVIOUS
  <2>1. MovesOn(tx[s], u, "commit", tx[s].recovery)
    BY <1>2, MovedFields, Zenon
  <2>2. tx' = [tx EXCEPT ![s] = u]
    BY <1>6, Zenon DEF Go
  <2>3. Asked(u)
    BY <1>2, <2>1 DEF Asked, MovesOn
  <2>4. Receives(u) => Receives(tx[s]) /\ Found(tx[s])
    BY <1>2, <2>1 DEF Receives, MovesOn, Accounts
  <2>5. Receives(u) => Found(u)
    BY <1>6, <2>1, <2>4 DEF Found, MovesOn, Receives
  <2>6. Receives(u) => \A v \in Sessions \ {s} : Receives(tx[v]) =>
                         u.receipt # tx[v].receipt /\ u.bill # tx[v].bill
    BY <2>1, <2>4 DEF MovesOn, Accounts, Apart
  <2> QED BY <1>4, <2>2, <2>3, <2>5, <2>6, AccountsOfSession
<1> QED BY <1>5, <1>6, Zenon DEF Look

LEMMA AbortAccounts == ASSUME Inv, Accounts, NEW s \in Sessions, Abort(s) PROVE Accounts'
  BY AccountsOfLeave DEF Abort

LEMMA PayOutAccounts == ASSUME Inv, Accounts, NEW s \in Sessions, PayOut(s) PROVE Accounts'
  BY AccountsOfLeave DEF PayOut

\* What a session found stays true while its two rows stay as they are.
LEMMA FoundStays ==
  ASSUME Accounts, NEW u \in Sessions, Receives(tx[u]), tx'[u] = tx[u],
         applied'[tx[u].receipt] = applied[tx[u].receipt],
         bills'[tx[u].bill] = bills[tx[u].bill],
         settled'[tx[u].bill] \in Int, settled'[tx[u].bill] <= settled[tx[u].bill]
  PROVE  Found(tx[u])'
<1> PICK t : t = tx[u]
  OBVIOUS
<1>1. Found(t) /\ t.bill \in Bills
  BY DEF Accounts, Found
<1>2. settled[t.bill] \in Int /\ Figured(bills[t.bill])
  BY <1>1 DEF Accounts, Summed
<1>3. Worth(t.bill) \in Int
  BY <1>2 DEF Worth, Figured
<1>4. Worth(tx[u].bill)' = Worth(t.bill)
  BY DEF Worth
<1>5. t.amount \in Nat
  BY <1>1 DEF Found
<1>6. t.amount <= Worth(t.bill) - settled[t.bill] => t.amount <= Worth(t.bill) - settled'[t.bill]
  BY ONLY <1>2, <1>3, <1>5, t = tx[u], settled'[tx[u].bill] \in Int,
          settled'[tx[u].bill] <= settled[tx[u].bill]
<1> QED BY <1>1, <1>4, <1>6 DEF Found

\* The figures of a new bill.
LEMMA DrawnFigures ==
  ASSUME Inv, Accounts, NEW s \in Sessions
  PROVE  Figured(Drawn(s)) /\ Drawn(s).status = "DRAFT"
<1>1. PICK N : Shape(N)
  BY DEF Inv
<1> PICK gross : gross = tx[s].upto - tx[s].previous
  OBVIOUS
<1> PICK kept : kept = AtLeastNone(Lesser(Share(tx[s].upto - tx[s].previous, RetainIn),
                                         Cap - tx[s].held))
  OBVIOUS
<1> PICK all : all = FoldFunction(+, 0, tx[s].recovery)
  OBVIOUS
<1> PICK recovers : recovers = Attributed(tx[s].recovery)
  OBVIOUS
<1>2. kept \in Nat
  BY <1>1, RetainedNat
<1>3. all \in Int /\ recovers \in [Advances -> Nat]
  BY RecoveredType, AttributedType DEF Accounts, Asked
<1>4. gross \in Int
  <2>1. tx[s] \in Request(N)
    BY <1>1 DEF Shape
  <2>2. tx[s].upto \in Nat /\ tx[s].previous \in Nat
    BY ONLY <2>1, RequestFields, Zenon
  <2> QED BY ONLY <2>2, gross = tx[s].upto - tx[s].previous
<1>5. Drawn(s) = [status |-> "DRAFT", final |-> tx[s].final, upto |-> tx[s].upto, gross |-> gross,
                  net |-> gross - kept - all, retention |-> kept, recovers |-> recovers,
                  certified |-> 0]
  BY Zenon DEF Drawn
<1> PICK net : net = gross - kept - all
  OBVIOUS
<1>6. net \in Int
  BY ONLY <1>2, <1>3, <1>4, net = gross - kept - all
<1> QED BY ONLY <1>3, <1>4, <1>5, <1>6, net = gross - kept - all DEF Figured

LEMMA InsertAccounts == ASSUME Inv, Accounts, NEW s \in Sessions, Insert(s) PROVE Accounts'
<1>1. CASE bills' = bills
  BY <1>1, AccountsOfLeave DEF Insert
<1>2. CASE /\ Raised # Bills
           /\ bills' = [bills EXCEPT ![Cardinality(Raised) + 1] = Drawn(s)]
  <2>1. PICK k \in 0 .. MaxBills : Raised = 1 .. k
    BY DEF Inv, InOrder
  <2>2. k + 1 \in Bills /\ k + 1 \notin Raised
    BY <1>2, <2>1 DEF Bills
  <2>3. Cardinality(Raised) = k
    BY <2>1, FS_Interval
  <2> PICK d : d = Drawn(s)
    OBVIOUS
  <2>4. Figured(d)
    BY DrawnFigures
  <2>5. bills'[k + 1] = d /\ \A b \in Bills \ {k + 1} : bills'[b] = bills[b]
    <3>1. bills' = [bills EXCEPT ![k + 1] = d]
      BY <1>2, <2>3
    <3>2. PICK N : bills \in [Bills -> Bill(N)]
      BY DEF Inv, Shape
    <3> QED BY ONLY <2>2, <3>1, <3>2
  <2>6. tx'[s] = Idle /\ (\A u \in Sessions \ {s} : tx'[u] = tx[u])
    BY DEF Insert, Leave, Inv, Shape
  <2>7. UNCHANGED <<applied, settled, recovered>>
    BY DEF Insert
  <2>8. Summed' /\ PaidDown'
    BY <2>7 DEF Accounts, Summed, PaidDown
  <2>9. ASSUME NEW b \in Bills PROVE Figured(bills[b])'
    <3>1. Figured(bills'[b])
      BY <2>4, <2>5 DEF Accounts
    <3> QED BY <3>1 DEF Figured
  <2>10. Apart'
    BY ONLY <2>6, Accounts, s \in Sessions, IdleAsked DEF Accounts, Apart, Receives
  <2>11. ASSUME NEW u \in Sessions PROVE Asked(tx[u])' /\ (Receives(tx[u]) => Found(tx[u]))'
    <3>1. CASE u = s
      BY <2>6, <3>1, IdleAsked DEF Asked, Receives
    <3>2. CASE u # s
      <4>1. Asked(tx[u])'
        BY <2>6, <3>2 DEF Accounts, Asked
      <4>2. ASSUME Receives(tx[u])' PROVE Found(tx[u])'
        <5>1. Receives(tx[u]) /\ tx'[u] = tx[u]
          BY <2>6, <3>2, <4>2 DEF Receives
        <5>2. Found(tx[u])
          BY <5>1 DEF Accounts
        <5>3. tx[u].bill \in Raised /\ tx[u].bill \in Bills
          BY <5>2 DEF Found, Raised, Payable, Certified
        <5>4. bills'[tx[u].bill] = bills[tx[u].bill]
          BY <2>2, <2>5, <5>3
        <5>5. settled[tx[u].bill] \in Int
          BY <5>3 DEF Accounts, Summed
        <5> QED BY <2>7, <5>1, <5>4, <5>5, FoundStays
      <4> QED BY <4>1, <4>2
    <3> QED BY <3>1, <3>2
  <2> QED BY <2>8, <2>9, <2>10, <2>11 DEF Accounts
<1> QED BY <1>1, <1>2, Zenon DEF Insert

\* The receipt settles its bill, both of them locked since it was judged.
LEMMA AllocateAccounts == ASSUME Inv, Accounts, NEW s \in Sessions, Allocate(s) PROVE Accounts'
<1> PICK p, d, n : p = tx[s].receipt /\ d = tx[s].bill /\ n = tx[s].amount
  OBVIOUS
<1>1. Receives(tx[s]) /\ Found(tx[s])
  BY DEF Allocate, Receives, Accounts
<1>2. p \in Receipts /\ d \in Bills /\ n \in Nat /\ applied[p] = Unapplied
  BY <1>1 DEF Found
<1>3. tx'[s] = Idle /\ (\A u \in Sessions \ {s} : tx'[u] = tx[u])
  BY DEF Allocate, Leave, Inv, Shape
<1>4. UNCHANGED <<bills, recovered>>
  BY DEF Allocate
<1>5. /\ applied \in [Receipts -> Slips] /\ settled \in [Bills -> Int]
      /\ \A b \in Bills : settled[b] = Received(applied, b)
      /\ \A q \in Receipts : applied[q] = Unapplied \/ applied[q].bill \in Bills
  BY DEF Accounts, Summed
<1> PICK x : x = [bill |-> d, amount |-> n]
  OBVIOUS
<1>6. x \in Slips /\ x.bill = d /\ x.amount = n
  BY <1>2 DEF Slips
<1>7. applied' = [applied EXCEPT ![p] = x] /\ settled' = [settled EXCEPT ![d] = @ + n]
  BY DEF Allocate
<1>8. /\ applied' \in [Receipts -> Slips] /\ applied'[p] = x
      /\ \A q \in Receipts \ {p} : applied'[q] = applied[q]
  BY ONLY <1>2, <1>5, <1>6, <1>7
<1>9. /\ settled' \in [Bills -> Int] /\ settled'[d] = settled[d] + n
      /\ \A b \in Bills \ {d} : settled'[b] = settled[b]
  BY ONLY <1>2, <1>5, <1>7
<1>10. ASSUME NEW b \in Bills PROVE settled'[b] = Received(applied', b)
  <2>1. applied[p].bill # b
    BY <1>2, UnappliedSlip DEF Bills
  <2> PICK A, B : A = applied' /\ B = applied
    OBVIOUS
  <2>2. /\ A \in [Receipts -> Slips] /\ B \in [Receipts -> Slips] /\ B[p].bill # b
        /\ \A q \in Receipts \ {p} : B[q] = A[q]
    BY <1>5, <1>8, <2>1
  <2>3. Received(A, b) = Received(B, b) + (IF A[p].bill = b THEN A[p].amount ELSE 0)
    BY ONLY <1>2, <2>2, ReceivedWithout
  <2>4. Received(B, b) = settled[b] /\ settled[b] \in Int
    BY <1>5
  <2>5. A[p] = x
    BY <1>8
  <2>6. settled'[b] = Received(A, b)
    BY ONLY <1>2, <1>6, <1>9, <2>3, <2>4, <2>5, b \in Bills
  <2> QED BY <2>6
<1>11. Summed'
  <2>1. \A q \in Receipts : applied'[q] = Unapplied \/ applied'[q].bill \in Bills
    BY <1>2, <1>5, <1>6, <1>8
  <2> QED BY <1>8, <1>9, <1>10, <2>1 DEF Summed
<1>12. PaidDown' /\ \A b \in Bills : Figured(bills[b])'
  BY <1>4 DEF Accounts, PaidDown, Figured
<1>13. Apart'
  BY ONLY <1>3, Accounts, s \in Sessions, IdleAsked DEF Accounts, Apart, Receives
<1>14. ASSUME NEW u \in Sessions PROVE Asked(tx[u])' /\ (Receives(tx[u]) => Found(tx[u]))'
  <2>1. CASE u = s
    BY <1>3, <2>1, IdleAsked DEF Asked, Receives
  <2>2. CASE u # s
    <3>1. Asked(tx[u])'
      BY <1>3, <2>2 DEF Accounts, Asked
    <3>2. ASSUME Receives(tx[u])' PROVE Found(tx[u])'
      <4>1. Receives(tx[u]) /\ tx'[u] = tx[u]
        BY <1>3, <2>2, <3>2 DEF Receives
      <4>2. tx[u].receipt \in Receipts /\ tx[u].bill \in Bills
        BY <4>1 DEF Accounts, Found
      <4>3. tx[u].receipt # p /\ tx[u].bill # d
        BY <1>1, <2>2, <4>1 DEF Accounts, Apart
      <4>4. /\ applied'[tx[u].receipt] = applied[tx[u].receipt]
            /\ settled'[tx[u].bill] = settled[tx[u].bill] /\ settled[tx[u].bill] \in Int
        BY ONLY <1>5, <1>8, <1>9, <4>2, <4>3
      <4>5. bills'[tx[u].bill] = bills[tx[u].bill]
        BY <1>4
      <4>6. settled'[tx[u].bill] \in Int /\ settled'[tx[u].bill] <= settled[tx[u].bill]
        BY ONLY <4>4
      <4> QED BY <4>1, <4>4, <4>5, <4>6, FoundStays
    <3> QED BY <3>1, <3>2
  <2> QED BY <2>1, <2>2
<1> QED BY <1>11, <1>12, <1>13, <1>14 DEF Accounts

\* The receipt is no session's, and what is settled only falls.
LEMMA ReverseAccounts == ASSUME Inv, Accounts, NEW p \in Receipts, Reverse(p) PROVE Accounts'
<1> PICK d, n : d = applied[p].bill /\ n = applied[p].amount
  OBVIOUS
<1>1. /\ applied \in [Receipts -> Slips] /\ settled \in [Bills -> Int]
      /\ \A b \in Bills : settled[b] = Received(applied, b)
      /\ \A q \in Receipts : applied[q] = Unapplied \/ applied[q].bill \in Bills
  BY DEF Accounts, Summed
<1>2. d \in Bills /\ n \in Nat
  BY <1>1, SlipFields DEF Reverse
<1>3. UNCHANGED <<bills, recovered, tx>> /\ ReceiptFree(p)
  BY DEF Reverse
<1>4. applied' = [applied EXCEPT ![p] = Unapplied] /\ settled' = [settled EXCEPT ![d] = @ - n]
  BY DEF Reverse
<1>5. /\ applied' \in [Receipts -> Slips] /\ applied'[p] = Unapplied
      /\ \A q \in Receipts \ {p} : applied'[q] = applied[q]
  BY ONLY <1>1, <1>4, UnappliedSlip, p \in Receipts
<1>6. /\ settled' \in [Bills -> Int] /\ settled'[d] = settled[d] - n
      /\ \A b \in Bills \ {d} : settled'[b] = settled[b]
  BY ONLY <1>1, <1>2, <1>4
<1>7. ASSUME NEW b \in Bills PROVE settled'[b] = Received(applied', b)
  <2>1. applied'[p].bill # b
    BY <1>5, UnappliedSlip DEF Bills
  <2> PICK A, B : A = applied /\ B = applied'
    OBVIOUS
  <2>2. /\ A \in [Receipts -> Slips] /\ B \in [Receipts -> Slips] /\ B[p].bill # b
        /\ \A q \in Receipts \ {p} : B[q] = A[q]
    BY <1>1, <1>5, <2>1
  <2>3. Received(A, b) = Received(B, b) + (IF A[p].bill = b THEN A[p].amount ELSE 0)
    BY ONLY <2>2, p \in Receipts, ReceivedWithout
  <2>4. Received(A, b) = settled[b] /\ settled[b] \in Int
    BY <1>1
  <2>5. A[p].bill = d /\ A[p].amount = n
    OBVIOUS
  <2>n. Received(B, b) \in Int
    <3>1. Received(B, b) \in Nat
      BY ONLY <2>2, ReceivedType
    <3> QED BY <3>1
  <2>6. settled'[b] = Received(B, b)
    BY ONLY <1>2, <1>6, <2>3, <2>4, <2>5, <2>n, b \in Bills
  <2> QED BY <2>6
<1>8. Summed'
  <2>1. \A q \in Receipts : applied'[q] = Unapplied \/ applied'[q].bill \in Bills
    BY <1>1, <1>5
  <2> QED BY <1>5, <1>6, <1>7, <2>1 DEF Summed
<1>9. PaidDown' /\ (\A b \in Bills : Figured(bills[b])') /\ Apart'
  BY <1>3 DEF Accounts, PaidDown, Figured, Apart, Receives
<1>10. ASSUME NEW u \in Sessions PROVE Asked(tx[u])' /\ (Receives(tx[u]) => Found(tx[u]))'
  <2>1. Asked(tx[u])'
    BY <1>3 DEF Accounts, Asked
  <2>2. ASSUME Receives(tx[u])' PROVE Found(tx[u])'
    <3>1. Receives(tx[u]) /\ tx'[u] = tx[u]
      BY <1>3, <2>2 DEF Receives
    <3>2. tx[u].receipt \in Receipts /\ tx[u].bill \in Bills
      BY <3>1 DEF Accounts, Found
    <3>3. tx[u].receipt # p
      BY <1>3, <3>1 DEF ReceiptFree, At, Receives
    <3>4. applied'[tx[u].receipt] = applied[tx[u].receipt]
      BY ONLY <1>5, <3>2, <3>3
    <3>5. settled'[tx[u].bill] \in Int /\ settled'[tx[u].bill] <= settled[tx[u].bill]
      BY ONLY <1>1, <1>2, <1>6, <3>2
    <3>6. bills'[tx[u].bill] = bills[tx[u].bill]
      BY <1>3
    <3> QED BY <3>1, <3>4, <3>5, <3>6, FoundStays
  <2> QED BY <2>1, <2>2
<1> QED BY <1>8, <1>9, <1>10 DEF Accounts

\* What a move makes of its bill: of its figures only the certified one.
Turned(r, m, next, figure) ==
  /\ m.status = next /\ m.certified = (IF next = "CERTIFIED" THEN figure ELSE r.certified)
  /\ m.gross = r.gross /\ m.net = r.net /\ m.recovers = r.recovers

LEMMA MovedBill ==
  ASSUME Inv, NEW b \in Raised, NEW next, NEW figure, Move(b, next, figure)
  PROVE  /\ Turned(bills[b], bills'[b], next, figure)
         /\ \A c \in Bills \ {b} : bills'[c] = bills[c]
<1>1. PICK N : bills \in [Bills -> Bill(N)]
  BY DEF Inv, Shape
<1>2. b \in Bills /\ bills[b] \in Bill(N)
  BY <1>1 DEF Raised
<1> PICK half : half = [bills[b] EXCEPT !.status = next]
  OBVIOUS
<1> PICK mid : mid = [bills EXCEPT ![b].status = next]
  OBVIOUS
<1> PICK figured : figured = IF next = "CERTIFIED" THEN figure ELSE half.certified
  OBVIOUS
<1> PICK m : m = [half EXCEPT !.certified = figured]
  OBVIOUS
<1>3. /\ half.status = next /\ half.certified = bills[b].certified
      /\ half.gross = bills[b].gross /\ half.net = bills[b].net /\ half.recovers = bills[b].recovers
  BY ONLY <1>2, half = [bills[b] EXCEPT !.status = next], SMT DEF Bill
<1>4. DOMAIN half = DOMAIN bills[b]
  OBVIOUS
<1>5. DOMAIN half = {"status", "final", "upto", "gross", "net", "retention", "recovers", "certified"}
  BY ONLY <1>2, <1>4, SMT DEF Bill
<1>6. /\ m.status = half.status /\ m.certified = figured
      /\ m.gross = half.gross /\ m.net = half.net /\ m.recovers = half.recovers
  BY ONLY <1>5, m = [half EXCEPT !.certified = figured], SMT
<1>7. Turned(bills[b], m, next, figure)
  BY ONLY <1>3, <1>6, figured = IF next = "CERTIFIED" THEN figure ELSE half.certified, SMT DEF Turned
<1>8. DOMAIN bills = Bills
  BY <1>1
<1>9. mid = [bills EXCEPT ![b] = half]
  BY Zenon
<1>10. DOMAIN mid = Bills /\ mid[b] = half /\ \A c \in Bills \ {b} : mid[c] = bills[c]
  BY ONLY <1>2, <1>8, <1>9, SMT
<1>11. bills' = [bills EXCEPT ![b].status = next,
                             ![b].certified = IF next = "CERTIFIED" THEN figure ELSE @]
  BY Zenon DEF Move
<1>12. bills' = [mid EXCEPT ![b] = [mid[b] EXCEPT !.certified =
                                     IF next = "CERTIFIED" THEN figure ELSE mid[b].certified]]
  BY ONLY <1>11, mid = [bills EXCEPT ![b].status = next], Zenon
<1>13. bills' = [mid EXCEPT ![b] = m]
  BY ONLY <1>10, <1>12, m = [half EXCEPT !.certified = figured],
          figured = IF next = "CERTIFIED" THEN figure ELSE half.certified, Zenon
<1>14. bills'[b] = m /\ \A c \in Bills \ {b} : bills'[c] = bills[c]
  BY ONLY <1>2, <1>10, <1>13, SMT
<1> QED BY <1>7, <1>14, Zenon

\* A certification is never below what is settled, and what is settled is never
\* less than nothing.
LEMMA MoveAccounts ==
  ASSUME Inv, Accounts, NEW b \in Raised, NEW next \in Statuses, NEW figure \in Figures(b, next),
         Move(b, next, figure)
  PROVE  Accounts'
<1>1. b \in Bills
  BY DEF Raised
<1>2. UNCHANGED <<applied, settled, tx>> /\ BillFree(b)
  BY DEF Move
<1>3. applied \in [Receipts -> Slips] /\ settled[b] = Received(applied, b) /\ Figured(bills[b])
  BY <1>1 DEF Accounts, Summed
<1>4. settled[b] \in Nat
  <2>1. Received(applied, b) \in Nat
    BY ONLY <1>3, ReceivedType
  <2> QED BY <1>3, <2>1
<1>5. next = "CERTIFIED" => figure \in Nat
  <2> SUFFICES ASSUME next = "CERTIFIED" PROVE figure \in Nat
    OBVIOUS
  <2>1. figure = bills[b].net \/ figure \in Amounts
    BY DEF Figures
  <2>2. bills[b].net \in Int /\ Amounts \subseteq Nat
    BY <1>3 DEF Figured
  <2>3. figure \in Int
    <3>1. CASE figure = bills[b].net BY <2>2, <3>1, Zenon
    <3>2. CASE figure \in Amounts BY <2>2, <3>2
    <3> QED BY <2>1, <3>1, <3>2
  <2>4. settled[b] <= figure
    BY DEF Move
  <2> QED BY ONLY <1>4, <2>3, <2>4
<1>6. /\ Turned(bills[b], bills'[b], next, figure)
      /\ \A c \in Bills \ {b} : bills'[c] = bills[c]
  BY MovedBill
<1>7. \A c \in Bills : Figured(bills[c])'
  <2>1. Figured(bills'[b])
    BY <1>3, <1>5, <1>6 DEF Figured, Turned
  <2>2. \A c \in Bills : Figured(bills'[c])
    BY <1>6, <2>1 DEF Accounts
  <2> QED BY <2>2 DEF Figured
<1>8. PaidDown'
  <2>1. CASE UNCHANGED recovered
    BY <2>1 DEF Accounts, PaidDown
  <2>2. CASE Certifies(b)
    <3> PICK r : r = bills[b].recovers
      OBVIOUS
    <3>1. r \in [Advances -> Nat] /\ recovered \in [Advances -> Nat]
      BY <1>3 DEF Figured, Accounts, PaidDown
    <3>2. recovered' = [a \in Advances |-> recovered[a] + r[a]]
      BY <2>2 DEF Certifies
    <3>3. recovered' \in [Advances -> Nat]
      BY ONLY <3>1, <3>2
    <3> QED BY <2>2, <3>3 DEF Certifies, PaidDown
  <2> QED BY <2>1, <2>2 DEF Move
<1>9. Summed' /\ Apart'
  BY <1>2 DEF Accounts, Summed, Apart, Receives
<1>10. ASSUME NEW u \in Sessions PROVE Asked(tx[u])' /\ (Receives(tx[u]) => Found(tx[u]))'
  <2>1. Asked(tx[u])'
    BY <1>2 DEF Accounts, Asked
  <2>2. ASSUME Receives(tx[u])' PROVE Found(tx[u])'
    <3>1. Receives(tx[u]) /\ tx'[u] = tx[u]
      BY <1>2, <2>2 DEF Receives
    <3>2. tx[u].receipt \in Receipts /\ tx[u].bill \in Bills
      BY <3>1 DEF Accounts, Found
    <3>3. tx[u].bill # b
      BY <1>2, <3>1 DEF BillFree, At, Receives
    <3>4. bills'[tx[u].bill] = bills[tx[u].bill]
      BY <1>6, <3>2, <3>3
    <3>5. settled'[tx[u].bill] \in Int /\ settled'[tx[u].bill] <= settled[tx[u].bill]
      <4>1. settled[tx[u].bill] \in Int
        BY <3>2 DEF Accounts, Summed
      <4> QED BY ONLY <4>1, <1>2
    <3> QED BY <1>2, <3>1, <3>4, <3>5, FoundStays
  <2> QED BY <2>1, <2>2
<1> QED BY <1>7, <1>8, <1>9, <1>10 DEF Accounts

LEMMA AccountsStandStill == ASSUME Accounts, UNCHANGED vars PROVE Accounts'
<1>1. Summed' /\ PaidDown' /\ Apart' /\ \A b \in Bills : Figured(bills[b])'
  BY DEF vars, Accounts, Summed, PaidDown, Apart, Receives, Figured
<1>2. ASSUME NEW u \in Sessions PROVE Asked(tx[u])' /\ (Receives(tx[u]) => Found(tx[u]))'
  <2>1. Asked(tx[u]) /\ (Receives(tx[u]) => Found(tx[u]))
    BY DEF Accounts
  <2> QED BY <2>1 DEF vars, Asked, Receives, Found, Worth
<1> QED BY <1>1, <1>2 DEF Accounts

LEMMA InitAccounts == Init => Accounts
<1> SUFFICES ASSUME Init PROVE Accounts
  OBVIOUS
<1>1. applied \in [Receipts -> Slips] /\ (\A p \in Receipts : applied[p] = Unapplied)
  BY UnappliedSlip DEF Init
<1>2. ASSUME NEW b \in Bills PROVE settled[b] = Received(applied, b)
  <2>1. \A p \in Receipts : applied[p].bill # b
    BY <1>1, UnappliedSlip DEF Bills
  <2>2. Received(applied, b) = 0
    BY ONLY <1>1, <2>1, ReceivedNone
  <2> QED BY <2>2 DEF Init
<1>3. settled \in [Bills -> Int]
  BY DEF Init
<1>4. PaidDown
  <2>1. recovered \in [Advances -> Nat] /\ \A a \in Advances : recovered[a] = 0
    BY DEF Init, NoRecovery
  <2>2. \A a \in Advances : Advanced[a] \in Nat
    OBVIOUS
  <2> QED BY ONLY <2>1, <2>2 DEF PaidDown
<1>5. Figured(NoBill)
  BY DEF Figured, NoBill, NoRecovery
<1>6. \A s \in Sessions : tx[s] = Idle
  BY DEF Init
<1> QED BY <1>1, <1>2, <1>3, <1>4, <1>5, <1>6, IdleAsked DEF Init, Accounts, Summed, Apart

LEMMA AccountsStep == Inv /\ Accounts /\ [Next]_vars => Accounts'
<1> SUFFICES ASSUME Inv, Accounts, [Next]_vars PROVE Accounts'
  OBVIOUS
<1>1. ASSUME NEW s \in Sessions,
             \/ Raise(s) \/ Receive(s) \/ Release(s)
             \/ ReadPrevious(s) \/ ReadHeld(s) \/ ReadAdvances(s) \/ Insert(s)
             \/ Look(s) \/ Allocate(s) \/ PayOut(s) \/ Abort(s)
      PROVE  Accounts'
  <2>1. CASE Raise(s) BY <2>1, RaiseAccounts
  <2>2. CASE Receive(s) BY <2>2, ReceiveAccounts
  <2>3. CASE Release(s) BY <2>3, ReleaseAccounts
  <2>4. CASE ReadPrevious(s) \/ ReadHeld(s) \/ ReadAdvances(s) BY <2>4, ReadAccounts
  <2>5. CASE Insert(s) BY <2>5, InsertAccounts
  <2>6. CASE Look(s) BY <2>6, LookAccounts
  <2>7. CASE Allocate(s) BY <2>7, AllocateAccounts
  <2>8. CASE PayOut(s) BY <2>8, PayOutAccounts
  <2>9. CASE Abort(s) BY <2>9, AbortAccounts
  <2> QED BY <1>1, <2>1, <2>2, <2>3, <2>4, <2>5, <2>6, <2>7, <2>8, <2>9, Zenon
<1>2. ASSUME NEW p \in Receipts, Reverse(p) PROVE Accounts'
  BY <1>2, ReverseAccounts
<1>3. ASSUME NEW b \in Raised, NEW next \in Statuses, NEW figure \in Figures(b, next),
             Move(b, next, figure)
      PROVE  Accounts'
  BY <1>3, MoveAccounts
<1>4. CASE UNCHANGED vars
  BY <1>4, AccountsStandStill
<1> QED BY <1>1, <1>2, <1>3, <1>4, Zenon DEF Next

\* The second invariant: what is settled of a bill is what its receipts add up
\* to, no advance is recovered beyond what was advanced, and what a session
\* found under its two locks holds until it commits.
THEOREM AccountsInvariance == Spec => []Accounts
  BY Invariance, InitAccounts, AccountsStep, PTL DEF Spec

\* Every variable is of its shape, and the running total of a bill is the sum
\* of its live receipts.
THEOREM Typing == Spec => []TypeOK
<1>1. ASSUME Inv, Accounts PROVE TypeOK
  <2>1. PICK N : Shape(N)
    BY <1>1 DEF Inv
  <2>2. bills \in [Bills -> [status : Statuses, final : BOOLEAN, upto : Nat, gross : Int, net : Int,
                             retention : Nat, recovers : [Advances -> Nat], certified : Nat]]
    <3>1. bills \in [Bills -> Bill(N)] /\ \A b \in Bills : Figured(bills[b])
      BY <1>1, <2>1 DEF Shape, Accounts
    <3>2. ASSUME NEW r \in Bill(N), Figured(r)
          PROVE  r \in [status : Statuses, final : BOOLEAN, upto : Nat, gross : Int, net : Int,
                        retention : Nat, recovers : [Advances -> Nat], certified : Nat]
      <4> PICK M : M = [Advances -> Nat]
        OBVIOUS
      <4>1. r.gross \in Int /\ r.net \in Int /\ r.recovers \in M /\ r.certified \in Nat
        BY <3>2, Zenon DEF Figured
      <4>2. r \in [status : Statuses, final : BOOLEAN, upto : Nat, gross : Int, net : Int,
                   retention : Nat, recovers : M, certified : Nat]
        BY ONLY <4>1, r \in Bill(N), SMT DEF Bill
      <4> QED BY <4>2, Zenon
    <3> PICK R : R = [status : Statuses, final : BOOLEAN, upto : Nat, gross : Int, net : Int,
                      retention : Nat, recovers : [Advances -> Nat], certified : Nat]
      OBVIOUS
    <3>3. \A b \in Bills : bills[b] \in R
      BY <3>1, <3>2, Zenon
    <3>4. bills \in [Bills -> R]
      BY ONLY <3>1, <3>3
    <3> QED BY <3>4, Zenon
  <2>3. tx \in [Sessions -> [kind : Kinds, stage : Stages, bill : Bills \cup {0}, amount : Nat,
                             receipt : Receipts \cup {Idle.receipt}, upto : Nat, final : BOOLEAN,
                             previous : Nat, held : Int, recovery : [Advances -> Nat]]]
    <3>1. tx \in [Sessions -> Request(N)] /\ \A s \in Sessions : Asked(tx[s])
      BY <1>1, <2>1 DEF Shape, Accounts
    <3> PICK M, L, K : M = [Advances -> Nat] /\ L = Bills \cup {0} /\ K = Receipts \cup {Idle.receipt}
      OBVIOUS
    <3>2. ASSUME NEW t \in Request(N), Asked(t)
          PROVE  t \in [kind : Kinds, stage : Stages, bill : L, amount : Nat, receipt : K, upto : Nat,
                        final : BOOLEAN, previous : Nat, held : Int, recovery : M]
      <4>1. t.bill \in L /\ t.receipt \in K /\ t.recovery \in M
        BY <3>2, Zenon DEF Asked
      <4> QED BY ONLY <4>1, t \in Request(N), SMT DEF Request
    <3> PICK R : R = [kind : Kinds, stage : Stages, bill : L, amount : Nat, receipt : K, upto : Nat,
                      final : BOOLEAN, previous : Nat, held : Int, recovery : M]
      OBVIOUS
    <3>3. \A s \in Sessions : tx[s] \in R
      BY <3>1, <3>2, Zenon
    <3>4. tx \in [Sessions -> R]
      BY ONLY <3>1, <3>3
    <3> QED BY <3>4, Zenon
  <2>4. /\ applied \in [Receipts -> [bill : Bills \cup {0}, amount : Nat]]
        /\ \A b \in Bills : settled[b] = Received(applied, b)
    BY <1>1 DEF Accounts, Summed, Slips
  <2>5. recovered \in [Advances -> Nat] /\ withheld \in Nat /\ released \in Nat
    BY <1>1, <2>1 DEF Accounts, PaidDown, Shape
  <2> QED BY <2>2, <2>3, <2>4, <2>5, Zenon DEF TypeOK
<1> QED BY <1>1, Invariance, AccountsInvariance, PTL

-----------------------------------------------------------------------------
(* Bills implement the promise about what is due.                           *)

DueOf(b) == AtLeastNone(Worth(b))
Takes(b) == bills[b].status \in Payable

LEMMA DueType == ASSUME Accounts, NEW b \in Bills PROVE Worth(b) \in Int /\ DueOf(b) \in Nat
<1>1. Worth(b) \in Int
  BY DEF Worth, Accounts, Figured
<1> QED BY <1>1 DEF DueOf, AtLeastNone

LEMMA PromiseInit == Init => Promise!Init
<1> SUFFICES ASSUME Init PROVE Promise!Init
  OBVIOUS
<1>1. \A b \in Bills : DueOf(b) \in Nat
  BY InitAccounts, DueType
<1>2. settled = [b \in Bills |-> 0]
  BY DEF Init
<1>3. [b \in Bills |-> bills[b].status \in Payable] \in [Bills -> BOOLEAN]
  OBVIOUS
<1>4. [b \in Bills |-> AtLeastNone(Worth(b))] \in [Bills -> Nat]
  BY <1>1 DEF DueOf
<1> QED BY <1>2, <1>3, <1>4, Zenon DEF Promise!Init

\* Nothing the promise sees is changed.
LEMMA PromiseStutters ==
  ASSUME UNCHANGED <<bills, settled>>
  PROVE  UNCHANGED Promise!vars
  BY DEF Promise!vars, Worth

\* One bill is raised or moved, and stays worth what is settled of it.
LEMMA PromiseChanges ==
  ASSUME Accounts, Accounts', NEW b \in Bills, UNCHANGED settled,
         \A c \in Bills \ {b} : bills'[c] = bills[c],
         DueOf(b)' # DueOf(b) => settled[b] <= DueOf(b)'
  PROVE  Promise!Next
<1> PICK due, dueNext, open, openNext :
      /\ due = [c \in Bills |-> DueOf(c)] /\ dueNext = [c \in Bills |-> DueOf(c)']
      /\ open = [c \in Bills |-> Takes(c)] /\ openNext = [c \in Bills |-> Takes(c)']
  OBVIOUS
<1>1. \A c \in Bills : DueOf(c)' \in Nat
  <2>1. ASSUME NEW c \in Bills PROVE Worth(c)' \in Int
    <3>1. Figured(bills[c])'
      BY DEF Accounts
    <3> QED BY <3>1 DEF Figured, Worth
  <2> QED BY <2>1 DEF DueOf, AtLeastNone
<1>2. \A c \in Bills \ {b} : DueOf(c)' = DueOf(c) /\ Takes(c)' = Takes(c)
  BY DEF DueOf, Worth, Takes
<1>3. dueNext \in [Bills -> Nat] /\ openNext \in [Bills -> BOOLEAN]
  BY <1>1 DEF Takes
<1>4. \A c \in Bills \ {b} : dueNext[c] = due[c] /\ openNext[c] = open[c]
  BY <1>2
<1>5. dueNext[b] # due[b] => settled[b] <= dueNext[b]
  OBVIOUS
<1>6. /\ [c \in Bills |-> AtLeastNone(Worth(c))] = due
      /\ [c \in Bills |-> bills[c].status \in Payable] = open
      /\ [c \in Bills |-> AtLeastNone(Worth(c))]' = dueNext
      /\ [c \in Bills |-> bills[c].status \in Payable]' = openNext
  BY Zenon DEF DueOf, Takes
<1>7. Promise!Change(b)
  BY ONLY <1>3, <1>4, <1>5, <1>6, UNCHANGED settled DEF Promise!Change
<1> QED BY <1>7 DEF Promise!Next

LEMMA PromiseOfInsert ==
  ASSUME Inv, Accounts, Accounts', NEW s \in Sessions, Insert(s)
  PROVE  [Promise!Next]_(Promise!vars)
<1>1. CASE bills' = bills
  BY <1>1, PromiseStutters DEF Insert
<1>2. CASE /\ Raised # Bills
           /\ bills' = [bills EXCEPT ![Cardinality(Raised) + 1] = Drawn(s)]
  <2>1. PICK k \in 0 .. MaxBills : Raised = 1 .. k
    BY DEF Inv, InOrder
  <2>2. k + 1 \in Bills /\ k + 1 \notin Raised
    BY <1>2, <2>1 DEF Bills
  <2>3. Cardinality(Raised) = k
    BY <2>1, FS_Interval
  <2> PICK d : d = Drawn(s)
    OBVIOUS
  <2>4. bills'[k + 1] = d /\ \A b \in Bills \ {k + 1} : bills'[b] = bills[b]
    <3>1. bills' = [bills EXCEPT ![k + 1] = d]
      BY <1>2, <2>3
    <3>2. PICK N : bills \in [Bills -> Bill(N)]
      BY DEF Inv, Shape
    <3> QED BY ONLY <2>2, <3>1, <3>2
  <2>5. bills[k + 1].status = "NONE" /\ bills'[k + 1].status = "DRAFT"
    BY <2>2, <2>4, DrawnFigures DEF Raised
  <2>6. DueOf(k + 1)' = DueOf(k + 1)
    BY <2>5 DEF DueOf, Worth, Certified
  <2> QED BY <2>2, <2>4, <2>6, PromiseChanges DEF Insert
<1> QED BY <1>1, <1>2, Zenon DEF Insert

LEMMA PromiseOfAllocate ==
  ASSUME Inv, Accounts, Accounts', NEW s \in Sessions, Allocate(s)
  PROVE  Promise!Settle
<1> PICK d, n : d = tx[s].bill /\ n = tx[s].amount
  OBVIOUS
<1>1. Found(tx[s])
  BY DEF Accounts, Receives, Allocate
<1>2. d \in Bills /\ n \in Nat \ {0} /\ Takes(d) /\ n <= Worth(d) - settled[d]
  BY <1>1 DEF Found, Takes, Allocate
<1>3. settled \in [Bills -> Int]
  BY DEF Accounts, Summed
<1>4. settled' = [settled EXCEPT ![d] = @ + n] /\ UNCHANGED bills
  BY DEF Allocate
<1>5. settled' \in [Bills -> Int] /\ settled'[d] = settled[d] + n
      /\ \A b \in Bills \ {d} : settled'[b] = settled[b]
  BY ONLY <1>2, <1>3, <1>4
<1>6. settled'[d] > settled[d] /\ settled'[d] <= DueOf(d)
  <2>1. Worth(d) \in Int /\ settled[d] \in Int
    BY <1>2, <1>3, DueType
  <2> QED BY ONLY <1>2, <1>5, <2>1 DEF DueOf, AtLeastNone
<1> PICK due, open : due = [b \in Bills |-> DueOf(b)] /\ open = [b \in Bills |-> Takes(b)]
  OBVIOUS
<1>7. \A b \in Bills : \/ settled'[b] = settled[b]
                       \/ settled'[b] > settled[b] /\ open[b] /\ settled'[b] <= due[b]
  BY <1>2, <1>5, <1>6
<1>8. /\ [b \in Bills |-> AtLeastNone(Worth(b))] = due
      /\ [b \in Bills |-> bills[b].status \in Payable] = open
  BY Zenon DEF DueOf, Takes
<1>9. UNCHANGED <<[b \in Bills |-> AtLeastNone(Worth(b))],
                  [b \in Bills |-> bills[b].status \in Payable]>>
  BY <1>4 DEF Worth
<1> QED BY ONLY <1>5, <1>7, <1>8, <1>9 DEF Promise!Settle

LEMMA PromiseOfReverse ==
  ASSUME Accounts, NEW p \in Receipts, Reverse(p)
  PROVE  Promise!Release
<1> PICK d, n : d = applied[p].bill /\ n = applied[p].amount
  OBVIOUS
<1>1. settled \in [Bills -> Int] /\ d \in Bills /\ n \in Nat
  BY SlipFields DEF Accounts, Summed, Reverse
<1>2. settled' = [settled EXCEPT ![d] = @ - n]
  BY DEF Reverse
<1>3. settled' \in [Bills -> Int] /\ \A b \in Bills : settled'[b] <= settled[b]
  BY ONLY <1>1, <1>2
<1>4. UNCHANGED <<[b \in Bills |-> AtLeastNone(Worth(b))],
                  [b \in Bills |-> bills[b].status \in Payable]>>
  BY DEF Reverse, Worth
<1> QED BY <1>3, <1>4, Zenon DEF Promise!Release

\* A certification is no lower than what is settled; a bill that is worth
\* nothing any more has nothing settled.
LEMMA PromiseOfMove ==
  ASSUME Inv, Accounts, Accounts', NEW b \in Raised, NEW next \in Statuses,
         NEW figure \in Figures(b, next), Move(b, next, figure)
  PROVE  Promise!Next
<1>1. b \in Bills
  BY DEF Raised
<1>2. settled[b] \in Int /\ Worth(b)' \in Int
  <2>1. Figured(bills[b])'
    BY <1>1 DEF Accounts
  <2> QED BY <1>1, <2>1 DEF Accounts, Summed, Figured, Worth
<1>3. /\ bills'[b].status = next
      /\ bills'[b].certified = (IF next = "CERTIFIED" THEN figure ELSE bills[b].certified)
      /\ \A c \in Bills \ {b} : bills'[c] = bills[c]
  BY MovedBill DEF Turned
<1>4. settled[b] <= DueOf(b)'
  <2>1. CASE next \in Certified
    <3>1. settled[b] <= bills'[b].certified
      BY <1>3, <2>1 DEF Move, Certified
    <3>2. Worth(b)' = bills'[b].certified
      BY <1>3, <2>1 DEF Worth, Certified
    <3> QED BY <1>2, <3>1, <3>2 DEF DueOf, AtLeastNone
  <2>2. CASE next \notin Certified
    <3>1. settled[b] <= 0
      BY <2>2 DEF Move, Certified
    <3> QED BY <1>2, <3>1 DEF DueOf, AtLeastNone
  <2> QED BY <2>1, <2>2
<1>5. UNCHANGED settled
  BY DEF Move
<1> QED BY <1>1, <1>3, <1>4, <1>5, PromiseChanges

LEMMA PromiseStep == Inv /\ Accounts /\ [Next]_vars => [Promise!Next]_(Promise!vars)
<1> SUFFICES ASSUME Inv, Accounts, [Next]_vars PROVE [Promise!Next]_(Promise!vars)
  OBVIOUS
<1>1. Accounts'
  BY AccountsStep
<1>2. ASSUME NEW s \in Sessions,
             \/ Raise(s) \/ Receive(s) \/ Release(s)
             \/ ReadPrevious(s) \/ ReadHeld(s) \/ ReadAdvances(s) \/ Insert(s)
             \/ Look(s) \/ Allocate(s) \/ PayOut(s) \/ Abort(s)
      PROVE  [Promise!Next]_(Promise!vars)
  <2>1. CASE Insert(s)
    BY <1>1, <2>1, PromiseOfInsert
  <2>2. CASE Allocate(s)
    BY <1>1, <2>2, PromiseOfAllocate DEF Promise!Next
  <2>3. CASE ~Insert(s) /\ ~Allocate(s)
    <3>1. UNCHANGED <<bills, settled>>
      BY <1>2, <2>3, Zenon
      DEF Raise, Receive, Release, Begin, ReadPrevious, ReadHeld, ReadAdvances, Look, PayOut, Abort
    <3> QED BY <3>1, PromiseStutters
  <2> QED BY <2>1, <2>2, <2>3
<1>3. ASSUME NEW p \in Receipts, Reverse(p) PROVE Promise!Next
  BY <1>3, PromiseOfReverse DEF Promise!Next
<1>4. ASSUME NEW b \in Raised, NEW next \in Statuses, NEW figure \in Figures(b, next),
             Move(b, next, figure)
      PROVE  Promise!Next
  BY <1>1, <1>4, PromiseOfMove
<1>5. CASE UNCHANGED vars
  BY <1>5, PromiseStutters DEF vars
<1> QED BY <1>2, <1>3, <1>4, <1>5, Zenon DEF Next

\* Seen through what bills are worth, what is settled of them and whether they
\* take receipts, billing is Dues: no receipt beyond what the bill is worth, and
\* none stranded by a lower certification, a return to draft or a cancellation.
THEOREM Refinement == Spec => Kept
  BY Invariance, AccountsInvariance, PromiseInit, PromiseStep, PTL DEF Spec, Kept, Promise!Spec

=============================================================================
