------------------------ MODULE SurveyOutbox_proofs ------------------------
(***************************************************************************)
(* Proofs about SurveyOutbox, for any figures, limits, filings and edits:  *)
(* the types, that no version is replaced unseen, that filings land in the *)
(* order they were made, that the newest is not lost, that a conflict is   *)
(* not with the phone's own work, and that this work is remembered.        *)
(*                                                                         *)
(* First the lists of requests: whatever the queue and the executor do to  *)
(* a list, it is made of what it was made of and of the request at hand    *)
(* (Carries).  So what is said of every request on any list, on its way or *)
(* late, can be said once, of a set R (AllFair).  Then what the state is   *)
(* between any two steps (Sane); then, as long as no failed return is put  *)
(* back after a newer one, the order of what waits, of what is under way   *)
(* and of what has landed (Order); and where the newest filing is          *)
(* (NewestHeld).  Then what a replay accounts for (Accounted).  Last, what *)
(* a list recalls: trimming it forgets nothing as long as there is room,   *)
(* since what it says is true (Truthful), so the list of a row, and the    *)
(* executor's, recall what the server has or may still get (Remembers).    *)
(***************************************************************************)
EXTENDS SurveyOutbox, DataLemmas, SequenceTheorems

-----------------------------------------------------------------------------
(* Folds over a sequence go through its domain, the greatest index last.    *)

LEMMA MaxOfNumbers ==
  ASSUME NEW n \in Nat, NEW s \in SUBSET (1 .. n), s # {}
  PROVE  Max(s) \in s /\ \A y \in s : y <= Max(s)
<1>1. \E x \in s : \A y \in s : y <= x
  <2>1. s \in SUBSET Nat /\ \A x \in s : x <= n
    OBVIOUS
  <2> QED BY <2>1, Greatest
<1>2. \E x \in s : \A y \in s : x >= y
  BY <1>1
<1> QED BY <1>2 DEF Max

LEMMA MaxOfInterval ==
  ASSUME NEW k \in Nat \ {0}
  PROVE  Max(1 .. k) = k /\ (1 .. k) \ {Max(1 .. k)} = 1 .. k - 1
<1>1. 1 .. k \in SUBSET (1 .. k) /\ 1 .. k # {} /\ k \in 1 .. k
  OBVIOUS
<1>2. Max(1 .. k) \in 1 .. k /\ k <= Max(1 .. k)
  BY <1>1, MaxOfNumbers
<1> QED BY <1>2

LastOf(n) == [s \in SUBSET (1 .. n) |-> Max(s)]

ListSteps(n, base, step, h) == Steps(1 .. n, LastOf(n), base, step, h)

\* The function a fold over n things recurs through exists.
LEMMA ListFoldExists ==
  ASSUME NEW n \in Nat, NEW V, NEW base \in V, NEW step \in [(1 .. n) \X V -> V]
  PROVE  \E h \in [SUBSET (1 .. n) -> V] : ListSteps(n, base, step, h)
<1>1. IsFiniteSet(1 .. n)
  BY FS_Interval
<1>2. \A s \in SUBSET (1 .. n) : s # {} => LastOf(n)[s] \in s
  BY MaxOfNumbers DEF LastOf
<1> QED BY <1>1, <1>2, FoldExists DEF ListSteps

\* What holds of nothing folded and is kept by each step holds in the end.
LEMMA ListFoldReaches ==
  ASSUME NEW n \in Nat, NEW iter, NEW W, iter[{}] \in W[0],
         \A k \in 1 .. n : iter[1 .. k - 1] \in W[k - 1] => iter[1 .. k] \in W[k]
  PROVE  iter[1 .. n] \in W[n]
<1> DEFINE T == {k \in Nat : k <= n => iter[1 .. k] \in W[k]}
<1>1. 0 \in T
  <2>1. 1 .. 0 = {}
    OBVIOUS
  <2> QED BY <2>1
<1>2. ASSUME NEW k \in T PROVE k + 1 \in T
  <2>1. k \in Nat /\ (k + 1) - 1 = k
    OBVIOUS
  <2>2. ASSUME k + 1 <= n PROVE iter[1 .. k + 1] \in W[k + 1]
    <3>1. k + 1 \in 1 .. n /\ k <= n
      BY <2>1, <2>2
    <3>2. iter[1 .. k] \in W[k]
      BY <2>1, <3>1
    <3> QED BY <2>1, <3>1, <3>2
  <2> QED BY <2>1, <2>2
<1>3. T \in SUBSET Nat
  OBVIOUS
<1>4. n \in T
  <2> HIDE DEF T
  <2> QED BY <1>1, <1>2, <1>3, Counting
<1> QED BY <1>4

-----------------------------------------------------------------------------
(* The lists of requests: what they are made of.                            *)

\* The place of a request on a list is a place of the list, or none.
LEMMA IndexOfType ==
  ASSUME NEW R, NEW list \in Seq(R), NEW p
  PROVE  /\ IndexOf(list, p) \in 0 .. Len(list)
         /\ IndexOf(list, p) # 0 => SameRequest(list[IndexOf(list, p)], p)
         /\ IndexOf(list, p) = 0 => \A i \in 1 .. Len(list) : ~SameRequest(list[i], p)
<1> DEFINE I == {i \in 1 .. Len(list) : SameRequest(list[i], p)}
<1>1. IndexOf(list, p) = IF I # {} THEN Min(I) ELSE 0
  BY Zenon DEF IndexOf, SelectInSeq
<1>2. I \in SUBSET Nat
  OBVIOUS
<1>3. CASE I # {}
  <2>1. \E x \in I : \A y \in I : x <= y
    BY <1>2, <1>3, Least
  <2>2. Min(I) \in I
    <3> HIDE DEF I
    <3> QED BY <2>1 DEF Min
  <2>3. IndexOf(list, p) \in I
    BY <1>1, <1>3, <2>2
  <2> QED BY <2>3
<1>4. CASE I = {}
  BY <1>1, <1>4
<1> QED BY <1>3, <1>4

\* Each request once: the list is made of the same requests.
LEMMA OnceKeeps ==
  ASSUME NEW R, NEW list \in Seq(R)
  PROVE  Once(list) \in Seq(R)
<1> DEFINE n == Len(list)
           Add(out, p) ==
             LET i == IndexOf(out, p)
             IN  IF i = 0 THEN Append(out, p)
                 ELSE IF p.landed > 0 THEN [out EXCEPT ![i] = p] ELSE out
           Eq(h) == h = [s \in SUBSET (1 .. n) |-> IF s = {} THEN <<>>
                           ELSE Add(h[s \ {Max(s)}], list[Max(s)])]
           iter == CHOOSE h : Eq(h)
           step == [q \in (1 .. n) \X Seq(R) |-> Add(q[2], list[q[1]])]
<1>1. Once(list) = iter[1 .. n]
  <2>1. DOMAIN list = 1 .. n
    OBVIOUS
  <2> QED BY <2>1, Zenon DEF Once, FoldLeft, MapThenFoldSet
<1>2. ASSUME NEW out \in Seq(R), NEW k \in 1 .. n PROVE Add(out, list[k]) \in Seq(R)
  <2>1. list[k] \in R /\ IndexOf(out, list[k]) \in 0 .. Len(out)
    BY IndexOfType
  <2> QED BY <2>1
<1> HIDE DEF Add
<1>3. step \in [(1 .. n) \X Seq(R) -> Seq(R)] /\ n \in Nat /\ <<>> \in Seq(R)
  BY <1>2
<1>4. PICK h \in [SUBSET (1 .. n) -> Seq(R)] : ListSteps(n, <<>>, step, h)
  <2> HIDE DEF step, n
  <2> QED BY <1>3, ListFoldExists
<1>5. Eq(h)
  <2>1. ASSUME NEW s \in SUBSET (1 .. n), s # {}
        PROVE  step[<<Max(s), h[s \ {Max(s)}]>>] = Add(h[s \ {Max(s)}], list[Max(s)])
    <3>1. Max(s) \in 1 .. n /\ h[s \ {Max(s)}] \in Seq(R)
      BY <1>3, <2>1, MaxOfNumbers
    <3> QED BY <3>1
  <2>2. \A s \in SUBSET (1 .. n) :
          (IF s = {} THEN <<>> ELSE step[<<Max(s), h[s \ {Max(s)}]>>])
            = (IF s = {} THEN <<>> ELSE Add(h[s \ {Max(s)}], list[Max(s)]))
    <3> HIDE DEF step, n
    <3> QED BY <2>1, Zenon
  <2> HIDE DEF step, n
  <2>3. h = [s \in SUBSET (1 .. n) |-> IF s = {} THEN <<>>
                                       ELSE step[<<Max(s), h[s \ {Max(s)}]>>]]
    BY <1>4 DEF ListSteps, Steps, LastOf
  <2> QED BY <2>2, <2>3, Zenon
<1>6. iter = [s \in SUBSET (1 .. n) |-> IF s = {} THEN <<>>
                           ELSE Add(iter[s \ {Max(s)}], list[Max(s)])]
  <2> HIDE DEF n
  <2> QED BY <1>5, Zenon
<1> HIDE DEF iter, Eq, step
<1>7. iter[{}] \in Seq(R)
  <2>1. {} \in SUBSET (1 .. n)
    OBVIOUS
  <2> QED BY <1>3, <1>6, <2>1
<1>8. ASSUME NEW k \in 1 .. n, iter[1 .. k - 1] \in Seq(R) PROVE iter[1 .. k] \in Seq(R)
  <2>1. Max(1 .. k) = k /\ (1 .. k) \ {Max(1 .. k)} = 1 .. k - 1
    BY MaxOfInterval
  <2>2. 1 .. k \in SUBSET (1 .. n) /\ 1 .. k # {}
    <3>1. n \in Nat /\ k \in 1 .. n /\ k \in Nat
      BY <1>3
    <3> HIDE DEF n
    <3>2. k \in 1 .. k
      BY <3>1
    <3>3. ASSUME NEW x \in 1 .. k PROVE x \in 1 .. n
      BY <3>1
    <3> QED BY <3>2, <3>3
  <2>3. iter[1 .. k] = Add(iter[(1 .. k) \ {Max(1 .. k)}], list[Max(1 .. k)])
    BY <1>6, <2>2
  <2> HIDE DEF n
  <2> QED BY <1>2, <1>8, <2>1, <2>3
<1>9. iter[1 .. n] \in Seq(R)
  <2> DEFINE W == [k \in 0 .. n |-> Seq(R)]
  <2>1. iter[{}] \in W[0] /\ \A k \in 1 .. n : iter[1 .. k - 1] \in W[k - 1] => iter[1 .. k] \in W[k]
    BY <1>3, <1>7, <1>8
  <2>2. iter[1 .. n] \in W[n]
    <3> HIDE DEF W, n
    <3> QED BY <1>3, <2>1, ListFoldReaches
  <2> HIDE DEF n
  <2> QED BY <1>3, <2>2
<1> QED BY <1>1, <1>9

\* What is left of a list is made of what it was made of, and is no longer.
LEMMA FilterKeeps ==
  ASSUME NEW R, NEW list \in Seq(R), NEW kept
  PROVE  Filter(list, kept) \in Seq(R) /\ Len(Filter(list, kept)) <= Len(list)
<1> DEFINE n == Len(list)
           Add(out, p) == IF p \in kept THEN Append(out, p) ELSE out
           Eq(h) == h = [s \in SUBSET (1 .. n) |-> IF s = {} THEN <<>>
                           ELSE Add(h[s \ {Max(s)}], list[Max(s)])]
           iter == CHOOSE h : Eq(h)
           step == [q \in (1 .. n) \X Seq(R) |-> Add(q[2], list[q[1]])]
<1>1. Filter(list, kept) = iter[1 .. n]
  <2>1. DOMAIN list = 1 .. n
    OBVIOUS
  <2> QED BY <2>1, Zenon DEF Filter, FoldLeft, MapThenFoldSet
<1>2. ASSUME NEW out \in Seq(R), NEW k \in 1 .. n 
      PROVE  Add(out, list[k]) \in Seq(R) /\ Len(Add(out, list[k])) <= Len(out) + 1
  OBVIOUS
<1> HIDE DEF Add
<1>3. step \in [(1 .. n) \X Seq(R) -> Seq(R)] /\ n \in Nat /\ <<>> \in Seq(R)
  <2>1. \A out \in Seq(R), k \in 1 .. n : Add(out, list[k]) \in Seq(R)
    BY <1>2
  <2> QED BY <2>1
<1>4. PICK h \in [SUBSET (1 .. n) -> Seq(R)] : ListSteps(n, <<>>, step, h)
  <2> HIDE DEF step, n
  <2> QED BY <1>3, ListFoldExists
<1>5. Eq(h)
  <2>1. ASSUME NEW s \in SUBSET (1 .. n), s # {}
        PROVE  step[<<Max(s), h[s \ {Max(s)}]>>] = Add(h[s \ {Max(s)}], list[Max(s)])
    <3>1. Max(s) \in 1 .. n /\ h[s \ {Max(s)}] \in Seq(R)
      BY <1>3, <2>1, MaxOfNumbers
    <3> QED BY <3>1
  <2>2. \A s \in SUBSET (1 .. n) :
          (IF s = {} THEN <<>> ELSE step[<<Max(s), h[s \ {Max(s)}]>>])
            = (IF s = {} THEN <<>> ELSE Add(h[s \ {Max(s)}], list[Max(s)]))
    <3> HIDE DEF step, n
    <3> QED BY <2>1, Zenon
  <2> HIDE DEF step, n
  <2>3. h = [s \in SUBSET (1 .. n) |-> IF s = {} THEN <<>>
                                       ELSE step[<<Max(s), h[s \ {Max(s)}]>>]]
    BY <1>4 DEF ListSteps, Steps, LastOf
  <2> QED BY <2>2, <2>3, Zenon
<1>6. iter = [s \in SUBSET (1 .. n) |-> IF s = {} THEN <<>>
                           ELSE Add(iter[s \ {Max(s)}], list[Max(s)])]
  <2> HIDE DEF n
  <2> QED BY <1>5, Zenon
<1> HIDE DEF iter, Eq, step
<1> DEFINE W == [k \in 0 .. n |-> {out \in Seq(R) : Len(out) <= k}]
<1>7. iter[{}] \in W[0]
  <2>1. {} \in SUBSET (1 .. n)
    OBVIOUS
  <2>2. iter[{}] = <<>>
    BY <1>6, <2>1
  <2> QED BY <1>3, <2>2
<1>8. ASSUME NEW k \in 1 .. n, iter[1 .. k - 1] \in W[k - 1] PROVE iter[1 .. k] \in W[k]
  <2>1. Max(1 .. k) = k /\ (1 .. k) \ {Max(1 .. k)} = 1 .. k - 1
    BY MaxOfInterval
  <2>2. 1 .. k \in SUBSET (1 .. n) /\ 1 .. k # {}
    <3>1. n \in Nat /\ k \in 1 .. n /\ k \in Nat
      BY <1>3
    <3> HIDE DEF n
    <3>2. k \in 1 .. k
      BY <3>1
    <3>3. ASSUME NEW x \in 1 .. k PROVE x \in 1 .. n
      BY <3>1
    <3> QED BY <3>2, <3>3
  <2>3. iter[1 .. k] = Add(iter[(1 .. k) \ {Max(1 .. k)}], list[Max(1 .. k)])
    BY <1>6, <2>2
  <2> HIDE DEF n
  <2>4. k \in Nat /\ k - 1 \in 0 .. n /\ k \in 0 .. n
    BY <1>3
  <2>5. PICK out : out = iter[1 .. k - 1]
    OBVIOUS
  <2>6. out \in Seq(R) /\ Len(out) <= k - 1 /\ Len(out) \in Nat
    BY <1>8, <2>4, <2>5
  <2>7. PICK new : new = Add(out, list[k])
    OBVIOUS
  <2>8. new \in Seq(R) /\ Len(new) \in Nat /\ Len(new) <= Len(out) + 1
    BY <1>2, <2>6, <2>7
  <2>9. Len(new) <= k
    BY <2>4, <2>6, <2>8
  <2> QED BY <2>1, <2>3, <2>4, <2>5, <2>7, <2>8, <2>9
<1>9. iter[1 .. n] \in W[n]
  <2> HIDE DEF W, n
  <2> QED BY <1>3, <1>7, <1>8, ListFoldReaches
<1>10. iter[1 .. n] \in Seq(R) /\ Len(iter[1 .. n]) <= n
  <2> HIDE DEF n
  <2> QED BY <1>3, <1>9
<1> QED BY <1>1, <1>10

LEMMA BestIndexType ==
  ASSUME NEW R, NEW list \in Seq(R)
  PROVE  BestIndex(list) \in 0 .. Len(list)
<1> DEFINE I == {i \in 1 .. Len(list) : list[i].landed > 0
                   /\ \A j \in DOMAIN list : list[j].landed <= list[i].landed}
<1>1. BestIndex(list) = IF I # {} THEN Min(I) ELSE 0
  BY Zenon DEF BestIndex, SelectInSeq
<1>2. I \in SUBSET (1 .. Len(list))
  OBVIOUS
<1> HIDE DEF I
<1>3. CASE I # {}
  <2>1. \E x \in I : \A y \in I : x <= y
    BY <1>2, <1>3, Least
  <2>2. Min(I) \in I
    BY <2>1 DEF Min
  <2>3. BestIndex(list) \in I
    BY <1>1, <1>3, <2>2, Zenon
  <2>4. Len(list) \in Nat
    OBVIOUS
  <2>5. BestIndex(list) \in 1 .. Len(list)
    BY <1>2, <2>3, Zenon
  <2> QED BY <2>4, <2>5
<1>4. CASE I = {}
  <2>1. Len(list) \in Nat /\ BestIndex(list) = 0
    BY <1>1, <1>4
  <2> QED BY <2>1
<1> QED BY <1>3, <1>4

LEMMA RelevantKeeps ==
  ASSUME NEW R, NEW list \in Seq(R)
  PROVE  Relevant(list) \in Seq(R)
<1>1. CASE BestIndex(list) = 0
  BY <1>1 DEF Relevant
<1>2. CASE BestIndex(list) # 0
  <2>1. Relevant(list) = Filter(list, {p \in Range(list) : p = list[BestIndex(list)] \/
                                   (p.landed = 0 /\ p.key # list[BestIndex(list)].key)})
    BY <1>2, Zenon DEF Relevant
  <2> QED BY <2>1, FilterKeeps
<1> QED BY <1>1, <1>2

LEMMA VictimType ==
  ASSUME NEW R, NEW list \in Seq(R), Len(list) > PriorMax
  PROVE  Victim(list) \in 1 .. Len(list)
<1> DEFINE others  == {i \in DOMAIN list : i # BestIndex(list)}
           repeats == {i \in others : ~FirstOfKey(list, i)}
           least(S) == CHOOSE i \in S : \A j \in S : i <= j
<1>1. Victim(list) = IF repeats # {} THEN least(repeats) ELSE least(others)
  BY Zenon DEF Victim
<1>2. repeats \in SUBSET others /\ others \in SUBSET (1 .. Len(list))
  OBVIOUS
<1>3. others # {}
  <2>1. 1 \in DOMAIN list /\ 2 \in DOMAIN list
    BY PriorMaxAssumption
  <2> QED BY <2>1
<1> HIDE DEF repeats, others
<1>4. ASSUME NEW S \in SUBSET (1 .. Len(list)), S # {} PROVE least(S) \in S
  <2>1. \E x \in S : \A y \in S : x <= y
    BY <1>4, Least
  <2> QED BY <2>1
<1> HIDE DEF least
<1> QED BY <1>1, <1>2, <1>3, <1>4

LEMMA RemoveAtType ==
  ASSUME NEW R, NEW list \in Seq(R), NEW i \in 1 .. Len(list)
  PROVE  RemoveAt(list, i) \in Seq(R) /\ Len(RemoveAt(list, i)) = Len(list) - 1
<1>1. SubSeq(list, 1, i - 1) \in Seq(R) /\ Len(SubSeq(list, 1, i - 1)) = i - 1
  OBVIOUS
<1>2. SubSeq(list, i + 1, Len(list)) \in Seq(R) /\ Len(SubSeq(list, i + 1, Len(list))) = Len(list) - i
  OBVIOUS
<1> DEFINE front == SubSeq(list, 1, i - 1)
           back == SubSeq(list, i + 1, Len(list))
<1>3. RemoveAt(list, i) = front \o back
  BY DEF RemoveAt
<1>4. /\ front \in Seq(R) /\ Len(front) = i - 1
      /\ back \in Seq(R) /\ Len(back) = Len(list) - i
  BY <1>1, <1>2
<1> HIDE DEF front, back
<1>6. Len(front) + Len(back) = Len(list) - 1
  <2>1. Len(list) \in Nat
    OBVIOUS
  <2> QED BY <1>4, <2>1
<1>5. front \o back \in Seq(R) /\ Len(front \o back) = Len(front) + Len(back)
  BY <1>4, ConcatProperties, Zenon
<1> QED BY <1>3, <1>5, <1>6

\* Trimming keeps a list within its limit, and makes it of what it was made of.
LEMMA TrimKeeps ==
  ASSUME NEW R, NEW list \in Seq(R)
  PROVE  Trim(list) \in Seq(R) /\ Len(Trim(list)) <= PriorMax
<1> DEFINE all == Relevant(Once(list))
           n == Len(all)
           Add(out, p) == IF Len(out) > PriorMax THEN RemoveAt(out, Victim(out)) ELSE out
           Eq(h) == h = [s \in SUBSET (1 .. n) |-> IF s = {} THEN all
                           ELSE Add(h[s \ {Max(s)}], all[Max(s)])]
           iter == CHOOSE h : Eq(h)
           step == [q \in (1 .. n) \X Seq(R) |-> Add(q[2], all[q[1]])]
           W == [k \in 0 .. n |-> {out \in Seq(R) : Len(out) <= PriorMax \/ Len(out) + k <= n}]
<1>0. all \in Seq(R)
  BY OnceKeeps, RelevantKeeps
<1>1. Trim(list) = iter[1 .. n]
  <2>1. DOMAIN all = 1 .. n
    BY <1>0
  <2> QED BY <2>1, Zenon DEF Trim, FoldLeft, MapThenFoldSet
<1> HIDE DEF all
<1>2. ASSUME NEW out \in Seq(R), NEW k \in 1 .. n
      PROVE  /\ Add(out, all[k]) \in Seq(R)
             /\ Len(out) <= PriorMax => Len(Add(out, all[k])) <= PriorMax
             /\ Len(out) > PriorMax => Len(Add(out, all[k])) = Len(out) - 1
  <2>1. CASE Len(out) > PriorMax
    <3>1. RemoveAt(out, Victim(out)) \in Seq(R) /\ Len(RemoveAt(out, Victim(out))) = Len(out) - 1
      BY <2>1, VictimType, RemoveAtType
    <3>2. ~(Len(out) <= PriorMax)
      BY <2>1, PriorMaxAssumption
    <3> QED BY <2>1, <3>1, <3>2
  <2>2. CASE ~(Len(out) > PriorMax)
    BY <2>2
  <2> QED BY <2>1, <2>2
<1> HIDE DEF Add
<1>3. step \in [(1 .. n) \X Seq(R) -> Seq(R)] /\ n \in Nat
  <2>1. n \in Nat
    BY <1>0
  <2>2. \A q \in (1 .. n) \X Seq(R) : Add(q[2], all[q[1]]) \in Seq(R)
    <3> HIDE DEF n
    <3> QED BY <1>2
  <2>3. step \in [(1 .. n) \X Seq(R) -> Seq(R)]
    <3> HIDE DEF n
    <3> QED BY <2>2, Zenon
  <2> QED BY <2>1, <2>3
<1>4. PICK h \in [SUBSET (1 .. n) -> Seq(R)] : ListSteps(n, all, step, h)
  <2> HIDE DEF step, n
  <2> QED BY <1>0, <1>3, ListFoldExists
<1>5. Eq(h)
  <2>1. ASSUME NEW s \in SUBSET (1 .. n), s # {}
        PROVE  step[<<Max(s), h[s \ {Max(s)}]>>] = Add(h[s \ {Max(s)}], all[Max(s)])
    <3>1. Max(s) \in 1 .. n /\ h[s \ {Max(s)}] \in Seq(R)
      BY <1>3, <2>1, MaxOfNumbers
    <3> QED BY <3>1
  <2>2. \A s \in SUBSET (1 .. n) :
          (IF s = {} THEN all ELSE step[<<Max(s), h[s \ {Max(s)}]>>])
            = (IF s = {} THEN all ELSE Add(h[s \ {Max(s)}], all[Max(s)]))
    <3> HIDE DEF step, n
    <3> QED BY <2>1, Zenon
  <2> HIDE DEF step, n
  <2>3. h = [s \in SUBSET (1 .. n) |-> IF s = {} THEN all
                                       ELSE step[<<Max(s), h[s \ {Max(s)}]>>]]
    BY <1>4 DEF ListSteps, Steps, LastOf
  <2> QED BY <2>2, <2>3, Zenon
<1>6. iter = [s \in SUBSET (1 .. n) |-> IF s = {} THEN all
                           ELSE Add(iter[s \ {Max(s)}], all[Max(s)])]
  <2> HIDE DEF n
  <2> QED BY <1>5, Zenon
<1> HIDE DEF iter, Eq, step
<1>7. iter[{}] \in W[0]
  <2>1. {} \in SUBSET (1 .. n)
    OBVIOUS
  <2>2. iter[{}] = all
    BY <1>6, <2>1
  <2> QED BY <1>0, <1>3, <2>2
<1>8. ASSUME NEW k \in 1 .. n, iter[1 .. k - 1] \in W[k - 1] PROVE iter[1 .. k] \in W[k]
  <2>1. Max(1 .. k) = k /\ (1 .. k) \ {Max(1 .. k)} = 1 .. k - 1
    BY MaxOfInterval
  <2>2. 1 .. k \in SUBSET (1 .. n) /\ 1 .. k # {}
    <3>1. n \in Nat /\ k \in 1 .. n /\ k \in Nat
      BY <1>3
    <3> HIDE DEF n
    <3>2. k \in 1 .. k
      BY <3>1
    <3>3. ASSUME NEW x \in 1 .. k PROVE x \in 1 .. n
      BY <3>1
    <3> QED BY <3>2, <3>3
  <2>3. iter[1 .. k] = Add(iter[(1 .. k) \ {Max(1 .. k)}], all[Max(1 .. k)])
    BY <1>6, <2>2
  <2> HIDE DEF n
  <2>4. k \in Nat /\ k - 1 \in 0 .. n /\ k \in 0 .. n
    BY <1>3
  <2>5. PICK out : out = iter[1 .. k - 1]
    OBVIOUS
  <2>6. out \in Seq(R) /\ (Len(out) <= PriorMax \/ Len(out) + (k - 1) <= n)
    BY <1>8, <2>4, <2>5
  <2>7. PICK new : new = Add(out, all[k])
    OBVIOUS
  <2>8. /\ new \in Seq(R) /\ Len(new) \in Nat /\ Len(out) \in Nat
        /\ Len(out) <= PriorMax => Len(new) <= PriorMax
        /\ Len(out) > PriorMax => Len(new) = Len(out) - 1
    BY <1>2, <2>6, <2>7
  <2>9. Len(new) <= PriorMax \/ Len(new) + k <= n
    BY <1>3, <2>4, <2>6, <2>8, PriorMaxAssumption
  <2> QED BY <2>1, <2>3, <2>4, <2>5, <2>7, <2>8, <2>9
<1>9. iter[1 .. n] \in W[n]
  <2> HIDE DEF W, n
  <2> QED BY <1>3, <1>7, <1>8, ListFoldReaches
<1>10. iter[1 .. n] \in Seq(R) /\ (Len(iter[1 .. n]) <= PriorMax \/ Len(iter[1 .. n]) + n <= n)
  <2> HIDE DEF n
  <2> QED BY <1>3, <1>9
<1>11. Len(iter[1 .. n]) <= PriorMax
  <2>1. Len(iter[1 .. n]) \in Nat
    BY <1>10
  <2> QED BY <1>3, <1>10, <2>1, PriorMaxAssumption
<1> QED BY <1>1, <1>10, <1>11

-----------------------------------------------------------------------------
(* What the executor and the queue do with a list.                          *)

LandedStays(R) == \A p \in R, v \in Nat : [p EXCEPT !.landed = v] \in R

LEMMA LandedKeeps ==
  ASSUME NEW R, LandedStays(R), NEW list \in Seq(R), NEW request, NEW version \in Nat
  PROVE  /\ Landed(list, request, version) \in Seq(R)
         /\ Len(list) <= PriorMax => Len(Landed(list, request, version)) <= PriorMax
<1> DEFINE i == IndexOf(list, request)
<1>1. i \in 0 .. Len(list)
  BY IndexOfType
<1>2. CASE i = 0
  BY <1>2 DEF Landed
<1>3. CASE i # 0
  <2>1. Landed(list, request, version) = Trim([list EXCEPT ![i].landed = version])
    BY <1>3, Zenon DEF Landed
  <2>2. i \in 1 .. Len(list) /\ list[i] \in R
    BY <1>1, <1>3
  <2> HIDE DEF i
  <2>3. [list[i] EXCEPT !.landed = version] \in R
    BY <2>2 DEF LandedStays
  <2>4. [list EXCEPT ![i].landed = version] \in Seq(R)
    BY <2>2, <2>3
  <2> QED BY <2>1, <2>4, TrimKeeps
<1> QED BY <1>2, <1>3

LEMMA DroppedKeeps ==
  ASSUME NEW R, NEW list \in Seq(R), NEW request
  PROVE  Dropped(list, request) \in Seq(R) /\ Len(Dropped(list, request)) <= Len(list)
BY FilterKeeps DEF Dropped

LEMMA ChainKeeps ==
  ASSUME NEW R, NEW older, NEW newer \in Seq(R), NEW key, NEW sent, NEW sending,
         older.prior \in Seq(R), sent => Remembered(Request(key, older.fig, older.nth), 0) \in R
  PROVE  /\ Chain(older, newer, key, sent, sending) \in Seq(R)
         /\ Trim(Chain(older, newer, key, sent, sending)) \in Seq(R)
         /\ Len(Trim(Chain(older, newer, key, sent, sending))) <= PriorMax
<1> DEFINE unknown == \A i \in DOMAIN older.prior : older.prior[i].key # key
           own == IF sent /\ (sending \/ unknown)
                    THEN <<Remembered(Request(key, older.fig, older.nth), 0)>> ELSE <<>>
<1>1. Chain(older, newer, key, sent, sending) = newer \o older.prior \o own
  BY Zenon DEF Chain
<1>2. own \in Seq(R)
  OBVIOUS
<1>3. newer \o older.prior \o own \in Seq(R)
  <2> HIDE DEF own
  <2> QED BY <1>2
<1> QED BY <1>1, <1>3, TrimKeeps

-----------------------------------------------------------------------------
(* What the state is, between any two steps.                                *)

InHand == exec.phase \notin {"idle", "checked"}

\* A row there is was made by a filing, and says what that one or a later said.
RowsFiled ==
  \A i \in Op : rows[i].state # "NONE" =>
    i <= rows[i].nth /\ rows[i].nth <= Filings /\ rows[i].fig \in Figures

\* Later operations are further back in the queue.
PlacesInOrder ==
  \A i, j \in Op : rows[i].state # "NONE" /\ rows[j].state # "NONE" /\ i < j
                     => rows[i].seq < rows[j].seq

\* The row in hand is on the wire, and is the only one; it says what the
\* executor has read from it.
Holds ==
  /\ exec.phase = "checked" => exec.op \in Op /\ rows[exec.op].state \in WaitingStates
  /\ InHand => /\ exec.op \in Op /\ rows[exec.op].state = "SENDING"
               /\ rows[exec.op].fig = exec.fig /\ rows[exec.op].nth = exec.nth
  /\ \A i \in Op : rows[i].state = "SENDING" => InHand /\ i = exec.op

\* There is a day to read, and something to replay.
Reading ==
  /\ exec.phase \in {"read", "replay", "reread", "amend"} => day # <<>>
  /\ exec.phase = "replay" => exec.todo # <<>>

\* A receipt names the version its request made.
ReceiptsTrue ==
  \A k \in receipts :
    /\ k.version <= Version(day) /\ day[k.version].by = "crew"
    /\ day[k.version].key = k.key /\ day[k.version].fig = k.fig

\* A version a replay was answered with is the crew's, and one that made the
\* day read as the return does was there.
OursTrue == exec.ours <= Version(day) /\ (exec.ours # 0 => day[exec.ours].by = "crew")

DeliveredTrue ==
  exec.phase = "settle" /\ exec.verdict = "DELIVERED" =>
    \E v \in 1 .. Version(day) : day[v].fig = exec.fig

Sane == RowsFiled /\ PlacesInOrder /\ Holds /\ Reading /\ ReceiptsTrue /\ OursTrue
          /\ DeliveredTrue

-----------------------------------------------------------------------------
(* The table.                                                               *)

USE MaxRetriesAssumption, PriorMaxAssumption, SurveyConstants
    DEF Op, ActiveStates, WaitingStates, RowStates, Verdicts, Decisions, Phases, Asking

LEMMA NoRowType ==
  /\ NoRow \in Row /\ NoRow.state = "NONE" /\ NoRow.prior = <<>> /\ NoRow.base = 0
  /\ NoRow.tries = 0 /\ NoRow.record = TheDay
<1>1. <<>> \in Lists
  BY DEF Lists
<1> QED BY <1>1 DEF NoRow, Row

LEMMA RowNumbers ==
  ASSUME NEW row \in Row
  PROVE  row.seq \in Nat /\ row.nth \in Nat /\ row.base \in Nat /\ row.tries \in Nat
BY DEF Row

LEMMA RestingType ==
  /\ Resting \in Executor /\ Resting.phase = "idle" /\ Resting.prior = <<>> /\ Resting.todo = <<>>
  /\ Resting.ours = 0 /\ Resting.conflict = FALSE /\ Resting.replayed = <<>> /\ Len(Resting.prior) = 0
<1>1. <<>> \in Lists /\ Len(<<>>) = 0
  BY DEF Lists
<1> QED BY <1>1 DEF Resting, Executor

\* What a statement on a row may change, and what it leaves.
SameReturn(row, new) ==
  /\ new.seq = row.seq /\ new.record = row.record /\ new.fig = row.fig /\ new.nth = row.nth
  /\ new.base = row.base

LEMMA RowStatements ==
  ASSUME NEW row \in Row
  PROVE  /\ Claimed(row) \in Row /\ SameReturn(row, Claimed(row))
         /\ Claimed(row).state = "SENDING" /\ Claimed(row).tries = row.tries
         /\ Claimed(row).prior = row.prior
         /\ Refused(row) \in Row /\ SameReturn(row, Refused(row))
         /\ Refused(row).state = "FAILED" /\ Refused(row).prior = row.prior
         /\ Retried(row) \in Row /\ SameReturn(row, Retried(row))
         /\ Retried(row).state = "QUEUED" /\ Retried(row).tries = 0 /\ Retried(row).prior = row.prior
<1> USE DEF Row, SameReturn
<1>1. /\ Claimed(row) \in Row /\ SameReturn(row, Claimed(row))
      /\ Claimed(row).state = "SENDING" /\ Claimed(row).tries = row.tries
      /\ Claimed(row).prior = row.prior
  BY DEF Claimed
<1>2. /\ Refused(row) \in Row /\ SameReturn(row, Refused(row))
      /\ Refused(row).state = "FAILED" /\ Refused(row).prior = row.prior
  BY DEF Refused
<1>3. /\ Retried(row) \in Row /\ SameReturn(row, Retried(row))
      /\ Retried(row).state = "QUEUED" /\ Retried(row).tries = 0 /\ Retried(row).prior = row.prior
  BY DEF Retried
<1> HIDE DEF Row, SameReturn
<1> QED BY <1>1, <1>2, <1>3

LEMMA DeferredRow ==
  ASSUME NEW row \in Row
  PROVE  /\ Deferred(row) \in Row /\ SameReturn(row, Deferred(row))
         /\ Deferred(row).state \in {"FAILED", "BACKOFF"} /\ Deferred(row).prior = row.prior
<1> USE DEF Row, SameReturn
<1> DEFINE tries == row.tries + 1
           last == [row EXCEPT !.state = "FAILED", !.tries = tries]
           later == [row EXCEPT !.state = "BACKOFF", !.tries = tries, !.due = FALSE]
<1>1. tries \in Nat
  OBVIOUS
<1>2. Deferred(row) = IF tries >= MaxRetries THEN last ELSE later
  BY Zenon DEF Deferred
<1> HIDE DEF tries
<1>3. last \in Row /\ SameReturn(row, last) /\ last.state = "FAILED" /\ last.prior = row.prior
  BY <1>1
<1>4. later \in Row /\ SameReturn(row, later) /\ later.state = "BACKOFF" /\ later.prior = row.prior
  BY <1>1
<1> HIDE DEF Row, SameReturn, last, later
<1> QED BY <1>2, <1>3, <1>4

LEMMA DeliveredRow ==
  ASSUME NEW row \in Row
  PROVE  LET new == [Delivered(row) EXCEPT !.prior = <<>>]
         IN  new \in Row /\ SameReturn(row, new) /\ new.state = "SUCCEEDED" /\ new.prior = <<>>
<1>1. <<>> \in Lists
  BY DEF Lists
<1> QED BY <1>1 DEF Row, SameReturn, Delivered

\* How a row is left when its turn is over.
LEMMA SettledRow ==
  ASSUME NEW row \in Row, NEW verdict \in Verdicts
  PROVE  LET new == Settlement(row, verdict)
         IN  /\ new \in Row /\ SameReturn(row, new)
             /\ new.prior = row.prior \/ new.prior = <<>>
             /\ new.state \in {"SUCCEEDED", "FAILED", "BACKOFF"}
             /\ new.state = "SUCCEEDED" => verdict = "DELIVERED"
<1>1. CASE verdict = "DELIVERED"
  BY <1>1, DeliveredRow DEF Settlement
<1>2. CASE verdict = "REFUSED"
  BY <1>2, RowStatements DEF Settlement
<1>3. CASE verdict = "TRANSPORT"
  BY <1>3, DeferredRow DEF Settlement
<1> QED BY <1>1, <1>2, <1>3

\* A row that is told by the one before it what that one sent.
Told(row, prior, base) == [row EXCEPT !.prior = prior, !.raw = FALSE, !.base = base]

LEMMA ToldRow ==
  ASSUME NEW row \in Row, NEW prior \in Lists, NEW base \in Nat
  PROVE  LET new == Told(row, prior, base)
         IN  /\ new \in Row /\ new.seq = row.seq /\ new.record = row.record
             /\ new.state = row.state /\ new.tries = row.tries /\ new.base = base
             /\ new.fig = row.fig /\ new.nth = row.nth /\ new.prior = prior
BY DEF Row, Told

\* A row that a newer return is folded into.
Folded(row, fig, nth, prior, base) ==
  [row EXCEPT !.fig = fig, !.nth = nth, !.prior = prior, !.base = base, !.raw = FALSE]

LEMMA FoldedRow ==
  ASSUME NEW row \in Row, NEW prior \in Lists, NEW fig \in Figures, NEW nth \in Op, NEW base \in Nat
  PROVE  LET new == Folded(row, fig, nth, prior, base)
         IN  /\ new \in Row /\ new.seq = row.seq /\ new.record = row.record
             /\ new.state = row.state /\ new.tries = row.tries /\ new.base = base
             /\ new.fig = fig /\ new.nth = nth /\ new.prior = prior
BY DEF Row, Folded

LEMMA NumberedRow ==
  ASSUME NEW row \in Row, NEW op \in Op, op <= row.nth
  PROVE  row.nth \in Op
<1>1. row.nth \in Op \cup {0}
  BY DEF Row
<1> QED BY <1>1

\* The row of a new filing, alone or behind another.
Fresh(fig, nth, seq, base) ==
  [NoRow EXCEPT !.state = "QUEUED", !.seq = seq, !.fig = fig, !.nth = nth, !.base = base]

LEMMA FreshRow ==
  ASSUME NEW fig \in Figures, NEW nth \in Op, NEW seq \in Nat, NEW base \in Nat
  PROVE  LET new == Fresh(fig, nth, seq, base)
         IN  /\ new \in Row /\ new.state = "QUEUED" /\ new.seq = seq /\ new.fig = fig
             /\ new.nth = nth /\ new.base = base /\ new.prior = <<>> /\ new.tries = 0
             /\ new.record = TheDay
BY NoRowType DEF Row, Fresh

Chaining(row, prior, base) == [row EXCEPT !.prior = prior, !.base = base, !.raw = FALSE]

LEMMA ChainingRow ==
  ASSUME NEW row \in Row, NEW prior \in Lists, NEW base \in Nat
  PROVE  LET new == Chaining(row, prior, base)
         IN  /\ new \in Row /\ new.seq = row.seq /\ new.record = row.record
             /\ new.state = row.state /\ new.tries = row.tries /\ new.base = base
             /\ new.fig = row.fig /\ new.nth = row.nth /\ new.prior = prior
BY DEF Row, Chaining

\* Of any rows there is a last one.
LEMMA NewestType ==
  ASSUME NEW table \in [Op -> Row], NEW S \in SUBSET Op, S # {}
  PROVE  Newest(table, S) \in S /\ \A j \in S : table[j].seq <= table[Newest(table, S)].seq
<1> DEFINE f == [i \in Op |-> table[i].seq]
           seqs == {f[i] : i \in S}
<1>1. \A i \in Op : f[i] \in Nat /\ f[i] = table[i].seq
  BY DEF Row
<1>2. PICK bound \in Nat : \A i \in 1 .. MaxFilings : f[i] <= bound
  <2> HIDE DEF f
  <2> QED BY <1>1, Bounded
<1> HIDE DEF f
<1>3. seqs \in SUBSET Nat /\ seqs # {} /\ \A x \in seqs : x <= bound
  BY <1>1, <1>2
<1>4. PICK x \in seqs : \A y \in seqs : y <= x
  <2> HIDE DEF seqs
  <2> QED BY <1>3, Greatest
<1>5. PICK i \in S : x = f[i]
  OBVIOUS
<1>6. \A j \in S : table[j].seq <= table[i].seq
  BY <1>1, <1>4, <1>5
<1>7. \E k \in S : \A j \in S : table[j].seq <= table[k].seq
  BY <1>6
<1> QED BY <1>7 DEF Newest

LEMMA NextSeqAbove ==
  ASSUME NEW table \in [Op -> Row]
  PROVE  NextSeq(table) \in Nat /\ \A i \in Present(table) : table[i].seq < NextSeq(table)
<1> DEFINE f == [i \in Op |-> table[i].seq]
           used == {0} \cup {table[i].seq : i \in Present(table)}
           max == CHOOSE n \in used : \A m \in used : m <= n
<1>1. \A i \in Op : f[i] \in Nat /\ f[i] = table[i].seq
  BY DEF Row
<1>2. PICK bound \in Nat : \A i \in 1 .. MaxFilings : f[i] <= bound
  <2> HIDE DEF f
  <2> QED BY <1>1, Bounded
<1> HIDE DEF f
<1>3. used \in SUBSET Nat /\ used # {} /\ \A x \in used : x <= bound
  BY <1>1, <1>2 DEF Present
<1>4. max \in used /\ \A m \in used : m <= max
  <2> HIDE DEF used
  <2>1. \E n \in used : \A m \in used : m <= n
    BY <1>3, Greatest
  <2> QED BY <2>1
<1>5. NextSeq(table) = 1 + max
  BY DEF NextSeq
<1>6. \A i \in Present(table) : table[i].seq \in used
  OBVIOUS
<1> HIDE DEF used, max
<1>7. max \in Nat
  BY <1>3, <1>4
<1>8. ASSUME NEW i \in Present(table) PROVE table[i].seq \in Nat /\ table[i].seq <= max
  BY <1>3, <1>4, <1>6
<1> QED BY <1>5, <1>7, <1>8

\* Opening the database queues again what was on the wire, and nothing else.
LEMMA RecoveredShape ==
  ASSUME NEW table \in [Op -> Row]
  PROVE  /\ Recovered(table) \in [Op -> Row]
         /\ \A i \in Op :
              /\ SameReturn(table[i], Recovered(table)[i])
              /\ Recovered(table)[i].prior = table[i].prior
              /\ Recovered(table)[i].tries = table[i].tries
              /\ Recovered(table)[i].state =
                   IF table[i].state = "SENDING" THEN "QUEUED" ELSE table[i].state
<1>1. ASSUME NEW i \in Op
      PROVE  LET new == [table[i] EXCEPT !.state = "QUEUED"]
             IN  /\ new \in Row /\ SameReturn(table[i], new) /\ new.prior = table[i].prior
                 /\ new.tries = table[i].tries /\ new.state = "QUEUED"
  <2> PICK row \in Row : row = table[i]
    OBVIOUS
  <2> DEFINE new == [row EXCEPT !.state = "QUEUED"]
  <2>1. new \in Row
    BY DEF Row
  <2>2. SameReturn(row, new) /\ new.prior = row.prior /\ new.tries = row.tries /\ new.state = "QUEUED"
    BY DEF Row, SameReturn
  <2> QED BY <2>1, <2>2
<1>2. \A i \in Op : SameReturn(table[i], table[i])
  BY DEF SameReturn
<1>3. DOMAIN table = Op
  OBVIOUS
<1>4. \A i \in Op : Recovered(table)[i] = IF table[i].state = "SENDING"
                                            THEN [table[i] EXCEPT !.state = "QUEUED"] ELSE table[i]
  BY <1>3 DEF Recovered
<1>5. Recovered(table) = [i \in Op |-> Recovered(table)[i]]
  BY <1>3 DEF Recovered
<1>6. ASSUME NEW i \in Op
      PROVE  /\ Recovered(table)[i] \in Row /\ SameReturn(table[i], Recovered(table)[i])
             /\ Recovered(table)[i].prior = table[i].prior
             /\ Recovered(table)[i].tries = table[i].tries
             /\ Recovered(table)[i].state =
                   IF table[i].state = "SENDING" THEN "QUEUED" ELSE table[i].state
  <2>1. CASE table[i].state = "SENDING"
    BY <1>1, <1>4, <2>1
  <2>2. CASE table[i].state # "SENDING"
    BY <1>2, <1>4, <2>2
  <2> QED BY <2>1, <2>2
<1> QED BY <1>5, <1>6

\* A request and what is remembered of it.
LEMMA RequestTypes ==
  ASSUME NEW key \in Keys, NEW fig \in Figures, NEW nth \in Op
  PROVE  /\ Request(key, fig, nth) \in Requests
         /\ \A landed \in Nat : Remembered(Request(key, fig, nth), landed)
                                  \in [key : Keys, fig : Figures, nth : Op, landed : Nat]
BY DEF Request, Requests, Remembered

LEMMA MemoryTypes ==
  ASSUME NEW request \in Requests, NEW landed \in Nat
  PROVE  Remembered(request, landed) \in [key : Keys, fig : Figures, nth : Op, landed : Nat]
BY DEF Requests, Remembered

LEMMA KeyTypes ==
  ASSUME NEW op \in Op
  PROVE  PostKey(op) \in Keys /\ \A base \in Nat, fig \in Figures : AmendKey(op, base, fig) \in Keys
BY DEF PostKey, AmendKey, Keys

-----------------------------------------------------------------------------
(* The executor.                                                            *)

\* What it does not change while it has a row in hand.
SameHand(next) ==
  /\ next.op = exec.op /\ next.fig = exec.fig /\ next.nth = exec.nth
  /\ next.replayed = exec.replayed /\ next.conflict = exec.conflict

LEMMA SettlingType ==
  ASSUME exec \in Executor, NEW verdict \in Verdicts, NEW prior \in Lists
  PROVE  LET next == Settling(verdict, prior)
         IN  /\ next \in Executor /\ SameHand(next) /\ next.base = exec.base
             /\ next.phase = "settle" /\ next.verdict = verdict /\ next.prior = prior
             /\ next.todo = exec.todo /\ next.ours = exec.ours /\ next.clouded = exec.clouded
BY DEF Settling, Executor, SameHand

LEMMA ReplayingType ==
  ASSUME exec \in Executor, NEW todo \in Lists, NEW prior \in Lists, NEW ours \in Nat
  PROVE  LET next == Replaying(todo, prior, ours)
         IN  /\ next \in Executor /\ SameHand(next) /\ next.base = exec.base
             /\ next.phase = (IF todo = <<>> THEN "reread" ELSE "replay")
             /\ next.todo = todo /\ next.prior = prior /\ next.ours = ours
             /\ next.clouded = exec.clouded /\ next.verdict = exec.verdict
<1>1. (IF todo = <<>> THEN "reread" ELSE "replay") \in Phases
  OBVIOUS
<1> DEFINE phase == IF todo = <<>> THEN "reread" ELSE "replay"
<1> HIDE DEF phase
<1>2. phase \in Phases
  BY <1>1 DEF phase
<1> DEFINE next == [exec EXCEPT !.phase = phase, !.todo = todo, !.prior = prior, !.ours = ours]
<1>3. /\ next \in Executor /\ SameHand(next) /\ next.base = exec.base
      /\ next.phase = phase /\ next.todo = todo /\ next.prior = prior /\ next.ours = ours
      /\ next.clouded = exec.clouded /\ next.verdict = exec.verdict
  <2>1. exec \in Executor
    OBVIOUS
  <2>2. next \in Executor
    BY <1>2 DEF Executor
  <2>3. SameHand(next) /\ next.base = exec.base /\ next.phase = phase
    BY <2>1 DEF Executor, SameHand
  <2>4. next.todo = todo /\ next.prior = prior /\ next.ours = ours
    BY <2>1 DEF Executor
  <2>5. next.clouded = exec.clouded /\ next.verdict = exec.verdict
    BY <2>1 DEF Executor
  <2> HIDE DEF next
  <2> QED BY <2>2, <2>3, <2>4, <2>5
<1>4. Replaying(todo, prior, ours) = next
  BY Zenon DEF Replaying, phase
<1> HIDE DEF next
<1> QED BY <1>3, <1>4 DEF phase

\* Everything the phone remembers of requests is made of R.
Carries(R) ==
  /\ exec.prior \in Seq(R) /\ exec.todo \in Seq(R)
  /\ \A i \in Op : rows[i].prior \in Seq(R)

Memories == [key : Keys, fig : Figures, nth : Op, landed : Nat]

LEMMA ListsAreMemories == Lists = Seq(Memories)
BY DEF Lists, Memories

\* A step that only puts another list on rows.
Quiet(table) ==
  /\ table \in [Op -> Row]
  /\ \A i \in Op : /\ SameReturn(rows[i], table[i]) /\ table[i].state = rows[i].state
                   /\ table[i].tries = rows[i].tries

LEMMA NothingIsQuiet == ASSUME rows \in [Op -> Row] PROVE Quiet(rows)
BY DEF Quiet, SameReturn

\* The row in hand takes the executor's list, which speaks for its return.
LEMMA SavedShape ==
  ASSUME rows \in [Op -> Row], exec \in Executor, RowsFiled, Holds, InHand, NEW prior \in Lists
  PROVE  /\ Quiet(Saved(prior))
         /\ \A i \in Op : Saved(prior)[i].prior = IF i = exec.op THEN prior ELSE rows[i].prior
<1> DEFINE old == rows[exec.op]
           new == [old EXCEPT !.fig = exec.fig, !.nth = exec.nth, !.prior = prior, !.raw = FALSE]
<1>1. exec.op \in Op /\ old \in Row /\ old.state = "SENDING" /\ old.fig = exec.fig
      /\ old.nth = exec.nth /\ exec.fig \in Figures /\ exec.nth \in Op
  <2>1. exec.op \in Op /\ old.state = "SENDING" /\ old.fig = exec.fig /\ old.nth = exec.nth
    BY DEF Holds
  <2>2. old.fig \in Figures /\ exec.op <= old.nth /\ old \in Row
    BY <2>1 DEF RowsFiled
  <2>3. old.nth \in Op
    <3> HIDE DEF old
    <3> QED BY ONLY <2>1, <2>2, NumberedRow
  <2> HIDE DEF old
  <2>4. exec.fig \in Figures /\ exec.nth \in Op
    BY ONLY <2>1, <2>2, <2>3
  <2> QED BY ONLY <2>1, <2>2, <2>4
<1>2. /\ new \in Row /\ new.seq = old.seq /\ new.record = old.record
      /\ new.state = old.state /\ new.tries = old.tries /\ new.base = old.base
      /\ new.fig = exec.fig /\ new.nth = exec.nth /\ new.prior = prior
  <2> HIDE DEF old
  <2>1. new \in Row
    <3> PICK fig, nth : fig = exec.fig /\ nth = exec.nth
      OBVIOUS
    <3>1. new = [old EXCEPT !.fig = fig, !.nth = nth, !.prior = prior, !.raw = FALSE]
      OBVIOUS
    <3>2. old \in Row /\ fig \in Figures /\ nth \in Op
      BY <1>1
    <3> HIDE DEF new
    <3> QED BY ONLY <3>1, <3>2, prior \in Lists DEF Row
  <2>2. new.fig = exec.fig /\ new.nth = exec.nth /\ new.prior = prior
    BY <1>1 DEF Row
  <2>3. /\ new.seq = old.seq /\ new.record = old.record
        /\ new.state = old.state /\ new.tries = old.tries /\ new.base = old.base
    BY <1>1 DEF Row
  <2> HIDE DEF new
  <2> QED BY <2>1, <2>2, <2>3
<1>3. Saved(prior) = [rows EXCEPT ![exec.op] = new]
  BY <1>1 DEF Saved
<1> HIDE DEF new
<1>4. \A i \in Op : Saved(prior)[i] = IF i = exec.op THEN new ELSE rows[i]
  BY <1>3
<1>5. Saved(prior) \in [Op -> Row]
  BY <1>1, <1>2, <1>3
<1>6. \A i \in Op : SameReturn(rows[i], rows[i])
  BY DEF SameReturn
<1>7. SameReturn(old, new)
  BY <1>1, <1>2 DEF SameReturn
<1>8. ASSUME NEW i \in Op
      PROVE  /\ SameReturn(rows[i], Saved(prior)[i]) /\ Saved(prior)[i].state = rows[i].state
             /\ Saved(prior)[i].tries = rows[i].tries
             /\ Saved(prior)[i].prior = IF i = exec.op THEN prior ELSE rows[i].prior
  BY <1>1, <1>2, <1>4, <1>6, <1>7
<1> QED BY <1>5, <1>8 DEF Quiet

\* So it carries what the executor carries.
LEMMA SavedCarries ==
  ASSUME rows \in [Op -> Row], exec \in Executor, RowsFiled, Holds, InHand, NEW prior \in Lists,
         NEW R, Carries(R), prior \in Seq(R)
  PROVE  \A i \in Op : Saved(prior)[i].prior \in Seq(R)
<1>1. \A i \in Op : Saved(prior)[i].prior = IF i = exec.op THEN prior ELSE rows[i].prior
  BY SavedShape
<1>2. \A i \in Op : rows[i].prior \in Seq(R)
  BY DEF Carries
<1> QED BY <1>1, <1>2

\* The list once a request is on it, for every R the request belongs to.
LEMMA RecordedList ==
  ASSUME exec \in Executor, NEW request, Remembered(request, 0) \in Memories
  PROVE  /\ Recorded(request) \in Lists /\ Len(Recorded(request)) <= PriorMax
         /\ \A R : exec.prior \in Seq(R) /\ Remembered(request, 0) \in R
                     => Recorded(request) \in Seq(R)
<1>1. ASSUME NEW R, exec.prior \in Seq(R), Remembered(request, 0) \in R
      PROVE  Recorded(request) \in Seq(R) /\ Len(Recorded(request)) <= PriorMax
  <2>1. Append(exec.prior, Remembered(request, 0)) \in Seq(R)
    BY <1>1
  <2> QED BY <2>1, TrimKeeps DEF Recorded, Recording
<1>2. exec.prior \in Seq(Memories)
  BY ListsAreMemories DEF Executor
<1> QED BY <1>1, <1>2, ListsAreMemories

\* The executor's own requests.
LEMMA OwnRequests ==
  ASSUME rows \in [Op -> Row], exec \in Executor, RowsFiled, Holds, InHand
  PROVE  /\ exec.op \in Op /\ exec.fig \in Figures /\ exec.nth \in Op
         /\ OwnPost \in Requests /\ Remembered(OwnPost, 0) \in Memories
         /\ \A base \in Nat :
              LET amend == Request(AmendKey(exec.op, base, exec.fig), exec.fig, exec.nth)
              IN  amend \in Requests /\ Remembered(amend, 0) \in Memories
         /\ OwnAmend \in Requests /\ Remembered(OwnAmend, 0) \in Memories
<1>1. exec.op \in Op /\ exec.fig \in Figures /\ exec.nth \in Op
  <2>1. exec.op \in Op /\ rows[exec.op].state = "SENDING" /\ rows[exec.op].fig = exec.fig
        /\ rows[exec.op].nth = exec.nth
    BY DEF Holds
  <2>2. rows[exec.op].fig \in Figures /\ exec.op <= rows[exec.op].nth /\ rows[exec.op] \in Row
    BY <2>1 DEF RowsFiled
  <2>3. rows[exec.op].nth \in Op
    BY ONLY <2>1, <2>2, NumberedRow
  <2> QED BY <2>1, <2>2, <2>3
<1>2. OwnPost \in Requests /\ Remembered(OwnPost, 0) \in Memories
  <2>1. PostKey(exec.op) \in Keys /\ 0 \in Nat
    <3> PICK op \in Op : op = exec.op
      BY <1>1
    <3>1. PostKey(op) \in Keys
      BY ONLY op \in Op, KeyTypes
    <3> QED BY <3>1
  <2>2. OwnPost \in Requests
    BY <1>1, <2>1, RequestTypes DEF OwnPost
  <2> QED BY ONLY <2>1, <2>2, MemoryTypes DEF Memories
<1>3. ASSUME NEW base \in Nat
      PROVE  LET amend == Request(AmendKey(exec.op, base, exec.fig), exec.fig, exec.nth)
             IN  amend \in Requests /\ Remembered(amend, 0) \in Memories
  <2> PICK key : key = AmendKey(exec.op, base, exec.fig)
    OBVIOUS
  <2> PICK amend : amend = Request(key, exec.fig, exec.nth)
    OBVIOUS
  <2>1. key \in Keys
    BY <1>1, KeyTypes
  <2>2. amend \in Requests /\ 0 \in Nat
    BY <1>1, <2>1, RequestTypes
  <2>3. Remembered(amend, 0) \in Memories
    BY ONLY <2>2, MemoryTypes DEF Memories
  <2> QED BY <2>2, <2>3, Zenon
<1>4. exec.base \in Nat
  BY DEF Executor
<1> QED BY <1>1, <1>2, <1>3, <1>4 DEF OwnAmend

Kinds == {"ok", "entered", "reused", "moved", "invalid", "silence"}

\* A list after a reply, for every R it was made of.
LEMMA LearnedList ==
  ASSUME exec \in Executor, Len(exec.prior) <= PriorMax, NEW request, NEW version \in Nat
  PROVE  /\ Landed(exec.prior, request, version) \in Lists
         /\ Len(Landed(exec.prior, request, version)) <= PriorMax
         /\ Dropped(exec.prior, request) \in Lists
         /\ Len(Dropped(exec.prior, request)) <= PriorMax
         /\ \A R : exec.prior \in Seq(R) => Dropped(exec.prior, request) \in Seq(R)
         /\ \A R : exec.prior \in Seq(R) /\ LandedStays(R)
                     => Landed(exec.prior, request, version) \in Seq(R)
<1>1. exec.prior \in Seq(Memories)
  BY ListsAreMemories DEF Executor
<1>2. LandedStays(Memories)
  BY DEF LandedStays, Memories
<1>3. /\ Dropped(exec.prior, request) \in Seq(Memories)
      /\ Len(Dropped(exec.prior, request)) <= Len(exec.prior)
  BY <1>1, DroppedKeeps
<1>4. Len(Dropped(exec.prior, request)) <= PriorMax
  <2>1. Len(exec.prior) \in Nat /\ Len(Dropped(exec.prior, request)) \in Nat
    BY <1>1, <1>3
  <2> QED BY <1>3, <2>1
<1>5. /\ Landed(exec.prior, request, version) \in Seq(Memories)
      /\ Len(Landed(exec.prior, request, version)) <= PriorMax
  BY <1>1, <1>2, LandedKeeps
<1>6. ASSUME NEW R, exec.prior \in Seq(R) PROVE Dropped(exec.prior, request) \in Seq(R)
  BY <1>6, DroppedKeeps
<1>7. ASSUME NEW R, exec.prior \in Seq(R), LandedStays(R)
      PROVE  Landed(exec.prior, request, version) \in Seq(R)
  BY <1>7, LandedKeeps
<1> QED BY <1>3, <1>4, <1>5, <1>6, <1>7, ListsAreMemories

\* What an executor that has heard a reply is left with.
Heard(reply) ==
  /\ exec' \in Executor /\ Len(exec'.prior) <= PriorMax
  /\ SameHand(exec') /\ exec'.base = exec.base
  /\ exec'.phase \in {"read", "replay", "reread", "settle"}
  /\ exec'.phase = "read" => exec.phase = "post" /\ reply.kind \in {"entered", "reused"}
  /\ exec'.phase \in {"replay", "reread"} => exec.phase = "replay"
  /\ exec'.phase = "replay" => exec'.todo # <<>>
  /\ exec'.phase = "settle" =>
       exec.phase \in {"post", "amend"} /\ (exec'.verdict = "DELIVERED" => reply.kind = "ok")
  /\ exec'.ours = exec.ours \/ (reply.kind = "ok" /\ exec'.ours = reply.version)
  /\ Quiet(rows')
  /\ \A R : Carries(R) /\ LandedStays(R) => Carries(R)'

LEMMA HearSettles ==
  ASSUME rows \in [Op -> Row], exec \in Executor, RowsFiled, Holds, InHand,
         exec.phase \in {"post", "amend"}, NEW reply, NEW verdict \in Verdicts, NEW prior \in Lists,
         Len(prior) <= PriorMax, verdict = "DELIVERED" => reply.kind = "ok",
         \A R : Carries(R) /\ LandedStays(R) => prior \in Seq(R),
         exec' = Settling(verdict, prior), rows' = Saved(prior) \/ (rows' = rows /\ prior = exec.prior)
  PROVE  Heard(reply)
<1>1. /\ exec' \in Executor /\ SameHand(exec') /\ exec'.base = exec.base
      /\ exec'.phase = "settle" /\ exec'.verdict = verdict /\ exec'.prior = prior
      /\ exec'.todo = exec.todo /\ exec'.ours = exec.ours
  BY SettlingType
<1>2. Quiet(rows')
  BY SavedShape, NothingIsQuiet
<1>3. ASSUME NEW R, Carries(R), LandedStays(R) PROVE Carries(R)'
  <2>1. prior \in Seq(R)
    BY <1>3
  <2>2. \A i \in Op : rows'[i].prior \in Seq(R)
    BY <1>3, <2>1, SavedCarries DEF Carries
  <2> QED BY <1>1, <1>3, <2>1, <2>2 DEF Carries
<1> QED BY <1>1, <1>2, <1>3, Zenon DEF Heard

LEMMA HearShape ==
  ASSUME rows \in [Op -> Row], exec \in Executor, Len(exec.prior) <= PriorMax, RowsFiled, Holds, Reading,
         exec.phase \in Asking, NEW reply, reply.version \in Nat, reply.kind \in Kinds,
         exec.phase = "post" => reply.kind # "moved", Hear(reply)
  PROVE  Heard(reply)
<1>0. InHand /\ exec.prior \in Lists /\ exec.todo \in Lists /\ exec.ours \in Nat
  BY DEF InHand, Executor
<1>1. CASE exec.phase = "post"
  <2>0. HearReturn(reply)
    BY <1>1 DEF Hear
  <2>1. CASE reply.kind = "ok"
    <3> DEFINE prior == Landed(exec.prior, OwnPost, reply.version)
    <3>1. exec' = Settling("DELIVERED", prior) /\ rows' = Saved(prior)
      BY <2>0, <2>1 DEF HearReturn
    <3>2. /\ prior \in Lists /\ Len(prior) <= PriorMax
          /\ \A R : Carries(R) /\ LandedStays(R) => prior \in Seq(R)
      BY LearnedList DEF Carries
    <3> HIDE DEF prior
    <3> QED BY <1>0, <1>1, <2>1, <3>1, <3>2, HearSettles
  <2>2. CASE reply.kind \in {"entered", "reused"}
    <3> DEFINE prior == Dropped(exec.prior, OwnPost)
    <3>1. exec' = [exec EXCEPT !.phase = "read", !.prior = prior] /\ rows' = rows
      BY <2>0, <2>2 DEF HearReturn
    <3>2. /\ prior \in Lists /\ Len(prior) <= PriorMax /\ \A R : Carries(R) => prior \in Seq(R)
      <4>1. 0 \in Nat
        OBVIOUS
      <4> QED BY <4>1, LearnedList DEF Carries
    <3> HIDE DEF prior
    <3>3. /\ exec' \in Executor /\ SameHand(exec') /\ exec'.base = exec.base
          /\ exec'.phase = "read" /\ exec'.prior = prior /\ exec'.todo = exec.todo
          /\ exec'.ours = exec.ours
      BY <3>1, <3>2 DEF Executor, SameHand
    <3>4. ASSUME NEW R, Carries(R) PROVE Carries(R)'
      BY <3>1, <3>2, <3>3, <3>4 DEF Carries
    <3> QED BY <1>1, <2>2, <3>1, <3>2, <3>3, <3>4, NothingIsQuiet DEF Heard
  <2>3. CASE reply.kind = "invalid"
    <3>1. exec' = Settling("REFUSED", exec.prior) /\ rows' = rows
      BY <2>0, <2>3 DEF HearReturn
    <3> QED BY <1>0, <1>1, <2>3, <3>1, HearSettles DEF Carries
  <2>4. CASE reply.kind = "silence"
    <3>1. exec' = Settling("TRANSPORT", exec.prior) /\ rows' = rows
      BY <2>0, <2>4 DEF HearReturn
    <3> QED BY <1>0, <1>1, <2>4, <3>1, HearSettles DEF Carries
  <2> QED BY <1>1, <2>1, <2>2, <2>3, <2>4 DEF Kinds
<1>2. CASE exec.phase = "replay"
  <2>0. HearReplay(reply) /\ rows' = rows
    BY <1>2 DEF Hear, HearReplay
  <2>1. exec.todo # <<>>
    BY <1>2 DEF Reading
  <2> DEFINE rest == Tail(exec.todo)
             landed == Landed(exec.prior, OnWire, reply.version)
             dropped == Dropped(exec.prior, OnWire)
             later == IF reply.version > exec.ours THEN reply.version ELSE exec.ours
  <2>2. rest \in Lists /\ \A R : Carries(R) => rest \in Seq(R)
    <3>1. \A R : exec.todo \in Seq(R) => rest \in Seq(R)
      BY <2>1
    <3> QED BY <1>0, <3>1, ListsAreMemories DEF Carries
  <2>3. /\ landed \in Lists /\ Len(landed) <= PriorMax
        /\ dropped \in Lists /\ Len(dropped) <= PriorMax
        /\ \A R : Carries(R) /\ LandedStays(R) => landed \in Seq(R) /\ dropped \in Seq(R)
    BY LearnedList DEF Carries
  <2>4. PICK prior, ours, next :
           /\ prior \in {landed, dropped, exec.prior} /\ ours \in {later, exec.ours}
           /\ next = Replaying(rest, prior, ours)
           /\ exec' = next \/ exec' = [next EXCEPT !.clouded = TRUE]
           /\ ours = exec.ours \/ (reply.kind = "ok" /\ ours = reply.version)
    BY <2>0 DEF HearReplay
  <2> HIDE DEF rest, landed, dropped
  <2>5. prior \in Lists /\ Len(prior) <= PriorMax /\ ours \in Nat
        /\ \A R : Carries(R) /\ LandedStays(R) => prior \in Seq(R)
    BY <1>0, <2>3, <2>4 DEF Carries
  <2> HIDE DEF later
  <2>6. /\ next \in Executor /\ SameHand(next) /\ next.base = exec.base
        /\ next.phase = (IF rest = <<>> THEN "reread" ELSE "replay")
        /\ next.todo = rest /\ next.prior = prior /\ next.ours = ours
    BY <2>2, <2>4, <2>5, ReplayingType
  <2>7. /\ exec' \in Executor /\ SameHand(exec') /\ exec'.base = exec.base
        /\ exec'.phase = (IF rest = <<>> THEN "reread" ELSE "replay")
        /\ exec'.todo = rest /\ exec'.prior = prior /\ exec'.ours = ours
    <3>1. CASE exec' = next
      BY <2>6, <3>1
    <3>2. CASE exec' = [next EXCEPT !.clouded = TRUE]
      BY <2>6, <3>2 DEF Executor, SameHand
    <3> QED BY <2>4, <3>1, <3>2
  <2>8. ASSUME NEW R, Carries(R), LandedStays(R) PROVE Carries(R)'
    BY <2>0, <2>2, <2>5, <2>7, <2>8 DEF Carries
  <2> QED BY <1>2, <2>0, <2>4, <2>5, <2>7, <2>8, NothingIsQuiet DEF Heard
<1>3. CASE exec.phase = "amend"
  <2>0. HearAmend(reply)
    BY <1>3 DEF Hear
  <2> DEFINE landed == Landed(exec.prior, OwnAmend, reply.version)
             dropped == Dropped(exec.prior, OwnAmend)
  <2>1. /\ landed \in Lists /\ Len(landed) <= PriorMax
        /\ dropped \in Lists /\ Len(dropped) <= PriorMax
        /\ \A R : Carries(R) /\ LandedStays(R) => landed \in Seq(R) /\ dropped \in Seq(R)
    BY LearnedList DEF Carries
  <2>2. PICK prior \in {landed, dropped, exec.prior}, verdict \in Verdicts :
          /\ exec' = Settling(verdict, prior) /\ rows' = Saved(prior)
          /\ verdict = "DELIVERED" => reply.kind = "ok"
    <3> DEFINE left == CASE reply.kind = "ok" -> landed
                         [] reply.kind \in {"moved", "reused"} -> dropped
                         [] OTHER -> exec.prior
               judged == CASE reply.kind = "ok" -> "DELIVERED"
                           [] reply.kind = "silence" -> "TRANSPORT"
                           [] OTHER -> "REFUSED"
    <3>1. exec' = Settling(judged, left) /\ rows' = Saved(left)
      BY <2>0, Zenon DEF HearAmend
    <3>2. left \in {landed, dropped, exec.prior}
      <4> HIDE DEF landed, dropped
      <4> QED BY DEF Kinds
    <3>3. judged \in Verdicts /\ (judged = "DELIVERED" => reply.kind = "ok")
      BY DEF Kinds
    <3> HIDE DEF left, judged, landed, dropped
    <3> QED BY <3>1, <3>2, <3>3
  <2> HIDE DEF landed, dropped
  <2>3. prior \in Lists /\ Len(prior) <= PriorMax
        /\ \A R : Carries(R) /\ LandedStays(R) => prior \in Seq(R)
    BY <1>0, <2>1 DEF Carries
  <2> QED BY <1>0, <1>3, <2>2, <2>3, HearSettles
<1> QED BY <1>1, <1>2, <1>3

\* What the end of an attempt leaves: a verdict, and whether it is a conflict.
LEMMA FinishedShape ==
  ASSUME rows \in [Op -> Row], exec \in Executor, Len(exec.prior) <= PriorMax, RowsFiled, Holds,
         InHand, NEW verdict \in Verdicts, NEW conflict \in BOOLEAN, Finished(verdict, conflict)
  PROVE  /\ exec' \in Executor /\ Len(exec'.prior) <= PriorMax
         /\ exec'.op = exec.op /\ exec'.fig = exec.fig /\ exec'.nth = exec.nth
         /\ exec'.base = exec.base /\ exec'.phase = "settle" /\ exec'.verdict = verdict
         /\ exec'.ours = exec.ours /\ exec'.conflict = conflict
         /\ Quiet(rows')
         /\ \A R : Carries(R) => Carries(R)'
<1>1. exec.prior \in Lists
  BY DEF Executor
<1> DEFINE next == Settling(verdict, exec.prior)
<1>2. /\ next \in Executor /\ SameHand(next) /\ next.base = exec.base
      /\ next.phase = "settle" /\ next.verdict = verdict /\ next.prior = exec.prior
      /\ next.todo = exec.todo /\ next.ours = exec.ours
  BY <1>1, SettlingType
<1>3. exec' = [next EXCEPT !.conflict = conflict] /\ rows' = Saved(exec.prior)
  BY DEF Finished
<1> HIDE DEF next
<1>4. /\ exec' \in Executor /\ exec'.op = exec.op /\ exec'.fig = exec.fig /\ exec'.nth = exec.nth
      /\ exec'.base = exec.base /\ exec'.phase = "settle" /\ exec'.verdict = verdict
      /\ exec'.prior = exec.prior /\ exec'.todo = exec.todo /\ exec'.ours = exec.ours
      /\ exec'.conflict = conflict
  BY <1>2, <1>3 DEF Executor, SameHand
<1>5. Quiet(rows')
  BY <1>1, <1>3, SavedShape
<1>6. ASSUME NEW R, Carries(R) PROVE Carries(R)'
  <2>1. \A i \in Op : rows'[i].prior \in Seq(R)
    BY <1>1, <1>3, <1>6, SavedCarries DEF Carries
  <2> QED BY <1>4, <1>6, <2>1 DEF Carries
<1> QED BY <1>4, <1>5, <1>6

\* An amendment of a version is recorded on both lists before it goes.
LEMMA AmendShape ==
  ASSUME rows \in [Op -> Row], exec \in Executor, Len(exec.prior) <= PriorMax, RowsFiled, Holds,
         InHand, NEW base \in Nat, AmendFrom(base)
  PROVE  /\ exec' \in Executor /\ Len(exec'.prior) <= PriorMax
         /\ SameHand(exec') /\ exec'.base = base /\ exec'.phase = "amend"
         /\ exec'.ours = exec.ours
         /\ Quiet(rows')
         /\ \A R : Carries(R)
                /\ Remembered(Request(AmendKey(exec.op, base, exec.fig), exec.fig, exec.nth), 0) \in R
              => Carries(R)'
<1> DEFINE amend == Request(AmendKey(exec.op, base, exec.fig), exec.fig, exec.nth)
           prior == Recorded(amend)
<1>1. exec' = [[exec EXCEPT !.base = base] EXCEPT !.phase = "amend", !.prior = prior]
      /\ rows' = Saved(prior)
  BY DEF AmendFrom
<1>2. Remembered(amend, 0) \in Memories
  BY OwnRequests
<1> HIDE DEF amend
<1>3. /\ prior \in Lists /\ Len(prior) <= PriorMax
      /\ \A R : exec.prior \in Seq(R) /\ Remembered(amend, 0) \in R => prior \in Seq(R)
  BY <1>2, RecordedList
<1> HIDE DEF prior
<1>4. /\ exec' \in Executor /\ SameHand(exec') /\ exec'.base = base /\ exec'.phase = "amend"
      /\ exec'.prior = prior /\ exec'.todo = exec.todo /\ exec'.ours = exec.ours
  BY <1>1, <1>3 DEF Executor, SameHand
<1>5. Quiet(rows')
  BY <1>1, <1>3, SavedShape
<1>6. ASSUME NEW R, Carries(R), Remembered(amend, 0) \in R PROVE Carries(R)'
  <2>1. prior \in Seq(R)
    BY <1>3, <1>6 DEF Carries
  <2>2. \A i \in Op : rows'[i].prior \in Seq(R)
    BY <1>1, <1>3, <1>6, <2>1, SavedCarries
  <2> QED BY <1>4, <1>6, <2>1, <2>2 DEF Carries
<1> QED BY <1>3, <1>4, <1>5, <1>6 DEF amend

LEMMA SendShape ==
  ASSUME rows \in [Op -> Row], exec \in Executor, Len(exec.prior) <= PriorMax, RowsFiled, Holds,
         SendReturn
  PROVE  /\ exec' \in Executor /\ Len(exec'.prior) <= PriorMax
         /\ SameHand(exec') /\ exec'.base = exec.base /\ exec'.phase = "post"
         /\ exec'.ours = exec.ours
         /\ Quiet(rows')
         /\ \A R : Carries(R) /\ Remembered(OwnPost, 0) \in R => Carries(R)'
<1> DEFINE prior == Recorded(OwnPost)
<1>0. InHand
  BY DEF SendReturn, InHand
<1>1. exec' = [exec EXCEPT !.phase = "post", !.prior = prior] /\ rows' = Saved(prior)
  BY DEF SendReturn
<1>2. Remembered(OwnPost, 0) \in Memories
  BY <1>0, OwnRequests
<1>3. /\ prior \in Lists /\ Len(prior) <= PriorMax
      /\ \A R : exec.prior \in Seq(R) /\ Remembered(OwnPost, 0) \in R => prior \in Seq(R)
  BY <1>2, RecordedList
<1> HIDE DEF prior
<1>4. /\ exec' \in Executor /\ SameHand(exec') /\ exec'.base = exec.base /\ exec'.phase = "post"
      /\ exec'.prior = prior /\ exec'.todo = exec.todo /\ exec'.ours = exec.ours
  BY <1>1, <1>3 DEF Executor, SameHand
<1>5. Quiet(rows')
  BY <1>0, <1>1, <1>3, SavedShape
<1>6. ASSUME NEW R, Carries(R), Remembered(OwnPost, 0) \in R PROVE Carries(R)'
  <2>1. prior \in Seq(R)
    BY <1>3, <1>6 DEF Carries
  <2>2. \A i \in Op : rows'[i].prior \in Seq(R)
    BY <1>0, <1>1, <1>3, <1>6, <2>1, SavedCarries
  <2> QED BY <1>4, <1>6, <2>1, <2>2 DEF Carries
<1> QED BY <1>3, <1>4, <1>5, <1>6

-----------------------------------------------------------------------------
(* The server.                                                              *)

VersionType == [by : Writers, fig : Figures, nth : Op \cup {0}, key : Keys]
ReceiptType == [key : Keys, fig : Figures, version : Nat \ {0}]

LEMMA ReplyShape ==
  ASSUME day \in Seq(VersionType), receipts \subseteq ReceiptType, NEW request
  PROVE  LET reply == ReplyTo(day, receipts, request)
         IN  /\ reply.kind \in {"ok", "entered", "reused", "moved"} /\ reply.version \in Nat
             /\ IsPost(request) => reply.kind # "moved"
             /\ reply.kind = "ok" =>
                  \/ \E k \in receipts : k.key = request.key /\ k.fig = request.fig
                                           /\ k.version = reply.version
                  \/ Takes(day, receipts, request) /\ reply.version = Version(day) + 1
             /\ reply.kind = "reused" => receipts # {}
             /\ IsPost(request) /\ reply.kind = "entered" => day # <<>>
<1> DEFINE kept == Receipt(receipts, request)
           reply == ReplyTo(day, receipts, request)
           k == CHOOSE x \in kept : TRUE
<1>1. CASE kept # {}
  <2>1. reply = IF k.fig = request.fig THEN [kind |-> "ok", version |-> k.version]
                                        ELSE [kind |-> "reused", version |-> 0]
    BY <1>1, Zenon DEF ReplyTo
  <2>2. k \in kept
    BY <1>1
  <2>3. k \in receipts /\ k.key = request.key /\ k.version \in Nat
    <3>1. k \in receipts /\ k.key = request.key
      BY <2>2 DEF Receipt
    <3> HIDE DEF k
    <3> QED BY <3>1 DEF ReceiptType
  <2> HIDE DEF k, reply
  <2>4. CASE k.fig = request.fig
    <3>1. reply.kind = "ok" /\ reply.version = k.version
      BY <2>1, <2>4
    <3> QED BY <2>3, <2>4, <3>1 DEF reply
  <2>5. CASE k.fig # request.fig
    <3>1. reply.kind = "reused" /\ reply.version = 0
      BY <2>1, <2>5
    <3> QED BY <2>3, <3>1 DEF reply
  <2> QED BY <2>4, <2>5
<1>2. CASE kept = {}
  <2>1. reply = IF Takes(day, receipts, request) THEN [kind |-> "ok", version |-> Version(day) + 1]
                ELSE [kind |-> IF IsPost(request) THEN "entered" ELSE "moved", version |-> 0]
    BY <1>2, Zenon DEF ReplyTo
  <2>2. Version(day) \in Nat
    BY DEF Version
  <2> HIDE DEF reply
  <2>3. CASE Takes(day, receipts, request)
    <3>1. reply.kind = "ok" /\ reply.version = Version(day) + 1
      BY <2>1, <2>3
    <3> QED BY <2>2, <2>3, <3>1 DEF reply
  <2>4. CASE ~Takes(day, receipts, request)
    <3>1. reply.kind = (IF IsPost(request) THEN "entered" ELSE "moved") /\ reply.version = 0
      BY <2>1, <2>4
    <3>2. IsPost(request) => day # <<>>
      BY <1>2, <2>4 DEF Takes
    <3> QED BY <3>1, <3>2 DEF reply
  <2> QED BY <2>3, <2>4
<1> QED BY <1>1, <1>2

\* What serving a request does: nothing, or one version and one receipt more.
Accepted(request) ==
  /\ Takes(day, receipts, request)
  /\ day' = Append(day, [by |-> "crew", fig |-> request.fig, nth |-> request.nth, key |-> request.key])
  /\ receipts' = receipts \cup
       {[key |-> request.key, fig |-> request.fig, version |-> Version(day) + 1]}

LEMMA ServeShape ==
  ASSUME NEW request, Serve(request)
  PROVE  \/ UNCHANGED <<day, receipts>>
         \/ Accepted(request)
<1>1. CASE Takes(day, receipts, request)
  BY <1>1, Zenon DEF Serve, Accepted, Written, Receipted
<1>2. CASE ~Takes(day, receipts, request)
  BY <1>2, Zenon DEF Serve, server
<1> QED BY <1>1, <1>2

LEMMA AcceptedType ==
  ASSUME day \in Seq(VersionType), receipts \subseteq ReceiptType, NEW request \in Requests,
         Accepted(request)
  PROVE  /\ day' \in Seq(VersionType) /\ receipts' \subseteq ReceiptType
         /\ Version(day') = Version(day) + 1
         /\ day'[Version(day) + 1] =
              [by |-> "crew", fig |-> request.fig, nth |-> request.nth, key |-> request.key]
         /\ \A v \in 1 .. Version(day) : day'[v] = day[v]
<1> DEFINE new == [by |-> "crew", fig |-> request.fig, nth |-> request.nth, key |-> request.key]
           receipt == [key |-> request.key, fig |-> request.fig, version |-> Version(day) + 1]
<1>1. Version(day) \in Nat
  BY DEF Version
<1>2. new \in VersionType /\ receipt \in ReceiptType
  BY <1>1 DEF Requests, VersionType, ReceiptType, Writers
<1>3. day' = Append(day, new) /\ receipts' = receipts \cup {receipt}
  BY Zenon DEF Accepted
<1> HIDE DEF new, receipt
<1>4. /\ day' \in Seq(VersionType) /\ Len(day') = Len(day) + 1 /\ day'[Len(day) + 1] = new
      /\ \A v \in 1 .. Len(day) : day'[v] = day[v]
  BY <1>2, <1>3
<1> QED BY <1>2, <1>3, <1>4 DEF Version, new

-----------------------------------------------------------------------------
(* Filing and settling.                                                     *)

LEMMA ActiveRows ==
  ASSUME rows \in [Op -> Row]
  PROVE  ActiveOn(rows, TheDay) = {i \in Op : rows[i].state \in ActiveStates}
BY DEF ActiveOn, Row

\* The older row's own request, which a newer one is told of if it may have gone.
OldPost(i) == Remembered(Request(PostKey(i), rows[i].fig, rows[i].nth), 0)

\* Where a filing goes: a row of its own, or the newest row that waits.
Alone(fig, n) ==
  /\ ActiveOn(rows, TheDay) = {}
  /\ rows' = [rows EXCEPT ![n] = Fresh(fig, n, NextSeq(rows), seen)]

FoldedInto(old, fig, n, prior, base) ==
  /\ rows[old].state \in WaitingStates
  /\ rows' = [rows EXCEPT ![old] = Folded(rows[old], fig, n, prior, base)]

QueuedBehind(old, fig, n, prior, base) ==
  /\ rows[old].state = "SENDING"
  /\ rows' = [rows EXCEPT ![n] = Chaining(Fresh(fig, n, NextSeq(rows), seen), prior, base)]

LEMMA FileCases ==
  ASSUME rows \in [Op -> Row], forms \in Seq(Nat), seen \in Nat, RowsFiled,
         NEW fig \in Figures, File(fig)
  PROVE  LET n == Filings + 1
         IN  /\ n \in Op /\ forms' = Append(forms, seen) /\ Len(forms') = n
             /\ \A m \in 1 .. Filings : forms'[m] = forms[m]
             /\ forms'[n] = seen
             /\ rows[n].state = "NONE"
             /\ \/ Alone(fig, n)
                \/ \E old \in Op, prior \in Lists : \E base \in {seen, rows[old].base} :
                     /\ rows[old].state \in ActiveStates
                     /\ \A i \in Op : rows[i].state \in ActiveStates => rows[i].seq <= rows[old].seq
                     /\ \A R : Carries(R) /\ (MaySent(rows[old]) => OldPost(old) \in R)
                                 => prior \in Seq(R)
                     /\ FoldedInto(old, fig, n, prior, base) \/ QueuedBehind(old, fig, n, prior, base)
<1> DEFINE n == Filings + 1
           active == ActiveOn(rows, TheDay)
           old == Newest(rows, active)
           prior == Trim(Chain(rows[old], <<>>, PostKey(old), MaySent(rows[old]),
                               rows[old].state = "SENDING"))
           base == IF seen # 0 THEN seen ELSE rows[old].base
<1>1. n \in Op
  <2>1. PICK b \in Scenarios : n <= b.filings
    BY DEF File, Within
  <2>2. b.filings \in 0 .. MaxFilings
    OBVIOUS
  <2>3. Filings \in Nat
    BY DEF Filings
  <2> QED BY <2>1, <2>2, <2>3
<1>2. forms' = Append(forms, seen) /\ Len(forms') = n /\ forms'[n] = seen
      /\ \A m \in 1 .. Filings : forms'[m] = forms[m]
  BY DEF File, Filings
<1>3. rows[n].state = "NONE"
  <2>1. rows[n].nth \in Nat /\ Filings \in Nat
    BY <1>1 DEF Row, Filings
  <2> QED BY <1>1, <2>1 DEF RowsFiled
<1>4. CASE active = {}
  <2>1. rows' = [rows EXCEPT ![n] = Fresh(fig, n, NextSeq(rows), seen)]
    BY <1>4, Zenon DEF File, Fresh
  <2> QED BY <1>1, <1>2, <1>3, <1>4, <2>1 DEF Alone
<1>5. CASE active # {}
  <2>1. active = {i \in Op : rows[i].state \in ActiveStates}
    BY ActiveRows
  <2>2. old \in active /\ \A j \in active : rows[j].seq <= rows[old].seq
    <3>1. active \in SUBSET Op
      BY <2>1
    <3> HIDE DEF active
    <3> QED BY <1>5, <3>1, NewestType
  <2>3. /\ rows[old].state \in WaitingStates
           => rows' = [rows EXCEPT ![old] = Folded(rows[old], fig, n, prior, base)]
        /\ rows[old].state \notin WaitingStates
           => rows' = [rows EXCEPT ![n] = Chaining(Fresh(fig, n, NextSeq(rows), seen), prior, base)]
    BY <1>5, Zenon DEF File, Folded, Chaining, Fresh
  <2> HIDE DEF active
  <2>4. old \in Op /\ rows[old].state \in ActiveStates
        /\ \A i \in Op : rows[i].state \in ActiveStates => rows[i].seq <= rows[old].seq
    BY <2>1, <2>2
  <2> HIDE DEF old
  <2>5. base \in {seen, rows[old].base}
    OBVIOUS
  <2>6. ASSUME NEW R, Carries(R), MaySent(rows[old]) => OldPost(old) \in R PROVE prior \in Seq(R)
    <3>1. rows[old].prior \in Seq(R) /\ <<>> \in Seq(R)
      BY <2>4, <2>6 DEF Carries
    <3> QED BY <2>6, <3>1, ChainKeeps DEF OldPost
  <2>7. prior \in Lists
    <3>1. rows[old].fig \in Figures /\ rows[old].nth \in Op /\ rows[old].prior \in Lists
      <4>1. rows[old].fig \in Figures /\ old <= rows[old].nth /\ rows[old] \in Row
        BY <2>4 DEF RowsFiled
      <4> QED BY <2>4, <4>1 DEF Row
    <3>2. OldPost(old) \in Memories
      <4>1. PostKey(old) \in Keys
        BY <2>4, KeyTypes
      <4> QED BY <3>1, <4>1, RequestTypes DEF OldPost, Memories
    <3>3. rows[old].prior \in Seq(Memories) /\ <<>> \in Seq(Memories)
      BY <3>1, ListsAreMemories
    <3> QED BY <3>2, <3>3, ChainKeeps, ListsAreMemories DEF OldPost
  <2> HIDE DEF prior, base
  <2>8. FoldedInto(old, fig, n, prior, base) \/ QueuedBehind(old, fig, n, prior, base)
    BY <2>3, <2>4 DEF FoldedInto, QueuedBehind
  <2> HIDE DEF n
  <2>9. \E o \in Op, p \in Lists : \E b \in {seen, rows[o].base} :
          /\ rows[o].state \in ActiveStates
          /\ \A i \in Op : rows[i].state \in ActiveStates => rows[i].seq <= rows[o].seq
          /\ \A R : Carries(R) /\ (MaySent(rows[o]) => OldPost(o) \in R) => p \in Seq(R)
          /\ FoldedInto(o, fig, n, p, b) \/ QueuedBehind(o, fig, n, p, b)
    BY <2>4, <2>5, <2>6, <2>7, <2>8
  <2> QED BY <1>1, <1>2, <1>3, <2>9 DEF n
<1> QED BY <1>4, <1>5

\* How a row in hand is left: as the verdict says, or absorbed by a newer one.
LEMMA SettleCases ==
  ASSUME rows \in [Op -> Row], exec \in Executor, RowsFiled, Holds, Settle
  PROVE  /\ exec' = Resting /\ exec.op \in Op /\ rows[exec.op].state = "SENDING"
         /\ \/ /\ Behind = {}
               /\ rows' = [rows EXCEPT ![exec.op] = Settlement(rows[exec.op], exec.verdict)]
            \/ \E newer \in Behind, prior \in Lists, base \in Nat, left \in Row :
                 /\ newer \in Op /\ newer # exec.op /\ rows[newer].state \in WaitingStates
                 /\ rows[newer].seq > rows[exec.op].seq
                 /\ base = rows[newer].base \/ base = rows[exec.op].base
                 /\ \A R : Carries(R) /\ OldPost(exec.op) \in R => prior \in Seq(R)
                 /\ \/ exec.verdict = "TRANSPORT" /\ left = NoRow
                    \/ exec.verdict # "TRANSPORT" /\ left = Settlement(rows[exec.op], exec.verdict)
                 /\ rows' = [rows EXCEPT ![newer] = Told(rows[newer], prior, base),
                                         ![exec.op] = left]
<1> DEFINE row == rows[exec.op]
           newer == Newest(rows, Behind)
           prior == Trim(Chain(row, rows[newer].prior, PostKey(exec.op), TRUE, TRUE))
           base == IF rows[newer].base = 0 THEN row.base ELSE rows[newer].base
           left == IF exec.verdict = "TRANSPORT" THEN NoRow ELSE Settlement(row, exec.verdict)
<1>1. exec' = Resting /\ InHand
  BY DEF Settle, InHand
<1>2. exec.op \in Op /\ row.state = "SENDING" /\ row \in Row
  BY <1>1 DEF Holds
<1>3. exec.verdict \in Verdicts
  BY DEF Executor
<1>4. left \in Row
  BY <1>2, <1>3, NoRowType, SettledRow
<1>5. CASE Behind = {}
  BY <1>1, <1>2, <1>5, Zenon DEF Settle
<1>6. CASE Behind # {}
  <2>1. rows' = [rows EXCEPT ![newer] = Told(rows[newer], prior, base), ![exec.op] = left]
    BY <1>6, Zenon DEF Settle, Told
  <2>2. newer \in Behind
    <3>1. Behind \in SUBSET Op
      BY ActiveRows DEF Behind
    <3> QED BY <1>6, <3>1, NewestType
  <2>3. newer \in Op /\ rows[newer].state \in WaitingStates /\ rows[newer].seq > row.seq
        /\ newer # exec.op
    <3>1. newer \in Op /\ rows[newer].state \in WaitingStates /\ rows[newer].seq > row.seq
      BY <2>2, ActiveRows DEF Behind
    <3> HIDE DEF newer
    <3> QED BY <1>2, <3>1
  <2> HIDE DEF newer
  <2>4. base \in Nat /\ (base = rows[newer].base \/ base = row.base)
    BY <1>2, <2>3 DEF Row
  <2>5. ASSUME NEW R, Carries(R), OldPost(exec.op) \in R PROVE prior \in Seq(R)
    <3>1. row.prior \in Seq(R) /\ rows[newer].prior \in Seq(R)
      BY <1>2, <2>3, <2>5 DEF Carries
    <3>2. Remembered(Request(PostKey(exec.op), row.fig, row.nth), 0) \in R
      BY <2>5 DEF OldPost
    <3> HIDE DEF row
    <3> QED BY <3>1, <3>2, ChainKeeps
  <2>6. prior \in Lists
    <3>1. row.fig \in Figures /\ row.nth \in Op
      <4>1. row.fig \in Figures /\ exec.op <= row.nth
        BY <1>2 DEF RowsFiled
      <4> QED BY <1>2, <4>1 DEF Row
    <3>2. Remembered(Request(PostKey(exec.op), row.fig, row.nth), 0) \in Memories
      <4>1. PostKey(exec.op) \in Keys
        BY <1>2, KeyTypes
      <4> QED BY <3>1, <4>1, RequestTypes DEF Memories
    <3>3. row.prior \in Seq(Memories) /\ rows[newer].prior \in Seq(Memories)
      BY <1>2, <2>3, ListsAreMemories DEF Row
    <3> HIDE DEF row
    <3> QED BY <3>2, <3>3, ChainKeeps, ListsAreMemories
  <2>7. \/ exec.verdict = "TRANSPORT" /\ left = NoRow
        \/ exec.verdict # "TRANSPORT" /\ left = Settlement(rows[exec.op], exec.verdict)
    OBVIOUS
  <2> HIDE DEF prior, base, left
  <2> QED BY <1>1, <1>2, <1>4, <2>1, <2>2, <2>3, <2>4, <2>5, <2>6, <2>7
<1> QED BY <1>5, <1>6
-----------------------------------------------------------------------------
(* What a step does to the day, to the forms and to the counters.           *)

\* The request an executor waits for is one.
LEMMA OnWireType ==
  ASSUME TypeOK, Sane, exec.phase \in Asking
  PROVE  OnWire \in Requests
<1>1. InHand /\ rows \in [Op -> Row] /\ exec \in Executor /\ RowsFiled /\ Holds
  BY DEF TypeOK, Sane, InHand
<1>2. CASE exec.phase = "post"
  BY <1>1, <1>2, OwnRequests DEF OnWire
<1>3. CASE exec.phase = "replay"
  <2>1. exec.todo \in Seq(Memories) /\ exec.todo # <<>>
    BY <1>1, <1>3, ListsAreMemories DEF Executor, Sane, Reading
  <2>2. Head(exec.todo) \in Memories
    BY <2>1
  <2> DEFINE p == Head(exec.todo)
  <2>3. p.key \in Keys /\ p.fig \in Figures /\ p.nth \in Op
    BY <2>2 DEF Memories
  <2>4. OnWire = Request(p.key, p.fig, p.nth)
    BY <1>3 DEF OnWire
  <2> HIDE DEF p
  <2> QED BY <2>3, <2>4, RequestTypes
<1>4. CASE exec.phase = "amend"
  BY <1>1, <1>4, OwnRequests DEF OnWire
<1> QED BY <1>2, <1>3, <1>4

\* The server gets a request that is on its way, or somebody else writes.
ServedStep ==
  \E r \in Requests : Accepted(r) /\ (r \in late \/ (exec.phase \in Asking /\ r = OnWire))

OtherStep ==
  /\ receipts' = receipts
  /\ \E fig \in Figures :
       day' = Append(day, [by |-> "other", fig |-> fig, nth |-> 0, key |-> <<1, 0, 0>>])

LEMMA ServerStep ==
  ASSUME TypeOK, Sane, Next
  PROVE  UNCHANGED <<day, receipts>> \/ ServedStep \/ OtherStep
<1>1. ASSUME NEW f \in Figures, SomebodyElseWrites(f) PROVE OtherStep
  BY <1>1, Zenon DEF SomebodyElseWrites, OtherStep
<1>2. CASE Answered
  <2>1. exec.phase \in Asking /\ Serve(OnWire)
    BY <1>2 DEF Answered
  <2>2. OnWire \in Requests
    BY <2>1, OnWireType
  <2> QED BY <2>1, <2>2, ServeShape DEF ServedStep
<1>3. ASSUME NEW r \in late, LateArrival(r) PROVE UNCHANGED <<day, receipts>> \/ ServedStep
  <2>1. r \in Requests /\ Serve(r)
    BY <1>3 DEF LateArrival, TypeOK
  <2> QED BY <2>1, ServeShape DEF ServedStep
<1>4. ASSUME UNCHANGED server PROVE UNCHANGED <<day, receipts>>
  BY <1>4, Zenon DEF server
<1>5. CASE PeopleNext
  <2>1. CASE Look
    BY <1>4, <2>1, Zenon DEF Look
  <2>2. ASSUME NEW f \in Figures, File(f) PROVE UNCHANGED <<day, receipts>>
    BY <1>4, <2>2, Zenon DEF File
  <2>3. ASSUME NEW i \in Op, Retry(i) \/ Discard(i) PROVE UNCHANGED <<day, receipts>>
    BY <1>4, <2>3, Zenon DEF Retry, Discard
  <2> QED BY <1>1, <1>5, <2>1, <2>2, <2>3, Zenon DEF PeopleNext
<1>6. CASE FlushNext
  <2>1. ASSUME NEW i \in Op, LookAhead(i) \/ BackoffElapses(i) PROVE UNCHANGED <<day, receipts>>
    BY <1>4, <2>1, Zenon DEF LookAhead, BackoffElapses
  <2>2. ASSUME \/ Claim \/ SendReturn \/ Invalid \/ Unheard
               \/ ReadDay \/ ReadDayAgain \/ ReadFails \/ Settle \/ Restart
        PROVE  UNCHANGED <<day, receipts>>
    BY <1>4, <2>2, Zenon DEF Claim, SendReturn, Invalid, Unheard, ReadDay, ReadDayAgain,
                             ReadFails, Settle, Restart
  <2> QED BY <1>2, <1>3, <1>6, <2>1, <2>2, Zenon DEF FlushNext
<1> QED BY <1>5, <1>6 DEF Next

\* Versions and receipts are added, never changed.
Grown ==
  /\ day' \in Seq(VersionType) /\ Version(day') \in Nat /\ Version(day) <= Version(day')
  /\ \A v \in 1 .. Version(day) : day'[v] = day[v]
  /\ receipts' \subseteq ReceiptType /\ receipts \subseteq receipts'

LEMMA ServerGrows ==
  ASSUME TypeOK, Sane, Next
  PROVE  Grown
<1>0. day \in Seq(VersionType) /\ receipts \subseteq ReceiptType /\ Version(day) \in Nat
  BY DEF TypeOK, VersionType, ReceiptType, Version
<1>1. CASE UNCHANGED <<day, receipts>>
  BY <1>0, <1>1 DEF Grown
<1>2. CASE ServedStep
  <2>1. PICK r \in Requests : Accepted(r)
    BY <1>2 DEF ServedStep
  <2>2. receipts \subseteq receipts'
    BY <2>1 DEF Accepted
  <2>3. /\ day' \in Seq(VersionType) /\ receipts' \subseteq ReceiptType
        /\ Version(day') = Version(day) + 1
        /\ \A v \in 1 .. Version(day) : day'[v] = day[v]
    BY <1>0, <2>1, AcceptedType
  <2> QED BY <1>0, <2>2, <2>3 DEF Grown
<1>3. CASE OtherStep
  <2>1. PICK fig \in Figures :
          day' = Append(day, [by |-> "other", fig |-> fig, nth |-> 0, key |-> <<1, 0, 0>>])
    BY <1>3 DEF OtherStep
  <2> DEFINE new == [by |-> "other", fig |-> fig, nth |-> 0, key |-> <<1, 0, 0>>]
  <2>2. new \in VersionType
    BY DEF VersionType, Writers, Keys
  <2> HIDE DEF new
  <2> QED BY <1>0, <1>3, <2>1, <2>2 DEF Grown, OtherStep, Version, new
<1> QED BY <1>1, <1>2, <1>3, ServerStep
-----------------------------------------------------------------------------
(* The steps of an executor that keeps its row in hand.                     *)

Works ==
  /\ InHand /\ exec' \in Executor /\ Len(exec'.prior) <= PriorMax
  /\ exec'.op = exec.op /\ exec'.fig = exec.fig /\ exec'.nth = exec.nth
  /\ exec'.phase \notin {"idle", "checked"}
  /\ exec'.phase \in {"read", "replay", "reread", "amend"} => day' # <<>>
  /\ exec'.phase = "replay" => exec'.todo # <<>>
  /\ exec'.ours <= Version(day') /\ (exec'.ours # 0 => day'[exec'.ours].by = "crew")
  /\ exec'.phase = "settle" /\ exec'.verdict = "DELIVERED" =>
       \E v \in 1 .. Version(day') : day'[v].fig = exec.fig
  /\ exec'.phase # "amend" => exec'.base = exec.base
  /\ exec'.phase \notin {"amend", "settle"} => exec.phase \notin {"amend", "settle"}
  /\ exec'.phase = "amend" =>
       /\ day # <<>> /\ exec'.base = Version(day) /\ UNCHANGED <<day, receipts>>
       /\ exec'.base = exec.base \/ day[exec'.base].by = "crew"
       /\ exec.phase \in {"read", "reread"}
  /\ Quiet(rows')
  /\ \A R : /\ Carries(R) /\ LandedStays(R)
            /\ exec.phase = "claimed" => Remembered(OwnPost, 0) \in R
            /\ exec'.phase = "amend" =>
                 Remembered(Request(AmendKey(exec.op, exec'.base, exec.fig), exec.fig, exec.nth), 0) \in R
            => Carries(R)'

LEMMA SendWorks ==
  ASSUME TypeOK, Sane, SendReturn
  PROVE  Works
<1>1. /\ rows \in [Op -> Row] /\ exec \in Executor /\ Len(exec.prior) <= PriorMax
      /\ RowsFiled /\ Holds /\ OursTrue
  BY DEF TypeOK, Sane
<1>2. exec.phase = "claimed" /\ InHand /\ UNCHANGED <<day, receipts>>
  BY DEF SendReturn, InHand, server
<1>3. /\ exec' \in Executor /\ Len(exec'.prior) <= PriorMax
      /\ SameHand(exec') /\ exec'.base = exec.base /\ exec'.phase = "post"
      /\ exec'.ours = exec.ours
      /\ Quiet(rows')
      /\ \A R : Carries(R) /\ Remembered(OwnPost, 0) \in R => Carries(R)'
  BY <1>1, SendShape
<1> QED BY <1>1, <1>2, <1>3 DEF Works, SameHand, OursTrue

\* An executor that has heard a reply the server gave, or none.
LEMMA HeardWorks ==
  ASSUME TypeOK, Sane, Grown, exec.phase \in Asking, NEW reply, Heard(reply),
         exec.phase = "post" /\ reply.kind \in {"entered", "reused"} => day # <<>>,
         reply.kind = "ok" =>
           /\ reply.version \in 1 .. Version(day') /\ day'[reply.version].by = "crew"
           /\ day'[reply.version].fig = OnWire.fig
  PROVE  Works
<1>1. InHand /\ exec \in Executor /\ Reading /\ OursTrue /\ Version(day) \in Nat
      /\ day \in Seq(VersionType)
  BY DEF TypeOK, Sane, InHand, Version, VersionType
<1>2. /\ exec' \in Executor /\ Len(exec'.prior) <= PriorMax
      /\ exec'.op = exec.op /\ exec'.fig = exec.fig /\ exec'.nth = exec.nth
      /\ exec'.base = exec.base /\ Quiet(rows')
      /\ exec'.phase \in {"read", "replay", "reread", "settle"}
      /\ exec'.phase = "replay" => exec'.todo # <<>>
      /\ \A R : Carries(R) /\ LandedStays(R) => Carries(R)'
  BY DEF Heard, SameHand
<1>3. exec'.phase \in {"read", "replay", "reread"} => day # <<>>
  BY <1>1 DEF Heard, Reading
<1>4. day # <<>> => day' # <<>>
  <2>1. day # <<>> => Version(day) >= 1
    BY <1>1 DEF Version
  <2>2. day' = <<>> => Version(day') = 0
    BY DEF Version
  <2> QED BY <1>1, <2>1, <2>2 DEF Grown
<1>5. exec'.ours <= Version(day') /\ (exec'.ours # 0 => day'[exec'.ours].by = "crew")
  <2>1. CASE exec'.ours = exec.ours
    <3>1. exec.ours \in Nat
      BY <1>1 DEF Executor
    <3>2. exec.ours # 0 => exec.ours \in 1 .. Version(day)
      BY <1>1, <3>1 DEF OursTrue
    <3> QED BY <1>1, <2>1, <3>1, <3>2 DEF Grown, OursTrue
  <2>2. CASE reply.kind = "ok" /\ exec'.ours = reply.version
    BY <2>2 DEF Grown
  <2> QED BY <2>1, <2>2 DEF Heard
<1>6. exec'.phase = "settle" /\ exec'.verdict = "DELIVERED" =>
        \E v \in 1 .. Version(day') : day'[v].fig = exec.fig
  <2> SUFFICES ASSUME exec'.phase = "settle" /\ exec'.verdict = "DELIVERED"
               PROVE  \E v \in 1 .. Version(day') : day'[v].fig = exec.fig
    OBVIOUS
  <2>1. exec.phase \in {"post", "amend"} /\ reply.kind = "ok"
    BY DEF Heard
  <2>2. OnWire.fig = exec.fig
    BY <2>1 DEF OnWire, OwnPost, OwnAmend, Request
  <2> QED BY <2>1, <2>2
<1>7. exec'.phase \notin {"amend", "settle"} => exec.phase \notin {"amend", "settle"}
  BY <1>2 DEF Heard
<1> QED BY <1>1, <1>2, <1>3, <1>4, <1>5, <1>6, <1>7 DEF Works

LEMMA AnsweredWorks ==
  ASSUME TypeOK, Sane, Answered, Grown
  PROVE  Works
<1> DEFINE reply == ReplyTo(day, receipts, OnWire)
<1>1. /\ rows \in [Op -> Row] /\ exec \in Executor /\ Len(exec.prior) <= PriorMax
      /\ RowsFiled /\ Holds /\ Reading /\ ReceiptsTrue
      /\ day \in Seq(VersionType) /\ receipts \subseteq ReceiptType /\ Version(day) \in Nat
  BY DEF TypeOK, Sane, VersionType, ReceiptType, Version
<1>2. exec.phase \in Asking /\ Hear(reply) /\ Serve(OnWire)
  BY DEF Answered
<1>3. OnWire \in Requests
  BY <1>2, OnWireType
<1>4. exec.phase = "post" => IsPost(OnWire)
  BY DEF OnWire, OwnPost, Request, PostKey, IsPost
<1>5. /\ reply.kind \in {"ok", "entered", "reused", "moved"} /\ reply.version \in Nat
      /\ IsPost(OnWire) => reply.kind # "moved"
      /\ reply.kind = "ok" =>
           \/ \E k \in receipts : k.key = OnWire.key /\ k.fig = OnWire.fig
                                    /\ k.version = reply.version
           \/ Takes(day, receipts, OnWire) /\ reply.version = Version(day) + 1
      /\ reply.kind = "reused" => receipts # {}
      /\ IsPost(OnWire) /\ reply.kind = "entered" => day # <<>>
  BY <1>1, ReplyShape
<1> HIDE DEF reply
<1>6. Heard(reply)
  BY <1>1, <1>2, <1>4, <1>5, HearShape DEF Kinds
<1>7. receipts # {} => day # <<>>
  <2> SUFFICES ASSUME NEW k \in receipts PROVE day # <<>>
    OBVIOUS
  <2>1. k.version \in Nat \ {0} /\ k.version <= Version(day)
    BY <1>1 DEF ReceiptsTrue, ReceiptType
  <2> QED BY <1>1, <2>1 DEF Version
<1>8. reply.kind = "ok" =>
        /\ reply.version \in 1 .. Version(day') /\ day'[reply.version].by = "crew"
        /\ day'[reply.version].fig = OnWire.fig
  <2>1. ASSUME NEW k \in receipts, k.fig = OnWire.fig, k.version = reply.version
        PROVE  /\ reply.version \in 1 .. Version(day') /\ day'[reply.version].by = "crew"
               /\ day'[reply.version].fig = OnWire.fig
    <3>1. /\ k.version \in 1 .. Version(day) /\ day[k.version].by = "crew"
          /\ day[k.version].fig = k.fig
      <4>1. k.version \in Nat \ {0}
        BY <1>1 DEF ReceiptType
      <4> QED BY <1>1, <4>1 DEF ReceiptsTrue
    <3> QED BY <1>1, <2>1, <3>1 DEF Grown
  <2>2. ASSUME Takes(day, receipts, OnWire), reply.version = Version(day) + 1
        PROVE  /\ reply.version \in 1 .. Version(day') /\ day'[reply.version].by = "crew"
               /\ day'[reply.version].fig = OnWire.fig
    <3>1. Accepted(OnWire)
      BY <1>2, <2>2 DEF Serve, Accepted, Written, Receipted
    <3>2. /\ Version(day') = Version(day) + 1
          /\ day'[Version(day) + 1] =
               [by |-> "crew", fig |-> OnWire.fig, nth |-> OnWire.nth, key |-> OnWire.key]
      BY <1>1, <1>3, <3>1, AcceptedType
    <3> QED BY <1>1, <2>2, <3>2
  <2> QED BY <1>5, <2>1, <2>2
<1> QED BY <1>2, <1>4, <1>5, <1>6, <1>7, <1>8, HeardWorks

\* No reply, or a refusal that says nothing of the day.
LEMMA UnansweredWorks ==
  ASSUME TypeOK, Sane, Grown, exec.phase \in Asking, NEW kind \in {"invalid", "silence"},
         Hear([kind |-> kind, version |-> 0])
  PROVE  Works
<1> DEFINE reply == [kind |-> kind, version |-> 0]
<1>1. /\ rows \in [Op -> Row] /\ exec \in Executor /\ Len(exec.prior) <= PriorMax
      /\ RowsFiled /\ Holds /\ Reading
  BY DEF TypeOK, Sane
<1>2. reply.version \in Nat /\ reply.kind \in Kinds /\ reply.kind \in {"invalid", "silence"}
  BY DEF Kinds
<1>3. Hear(reply)
  OBVIOUS
<1> HIDE DEF reply
<1>4. Heard(reply)
  BY <1>1, <1>2, <1>3, HearShape
<1> QED BY <1>2, <1>4, HeardWorks

\* An attempt that ends, with the day as filed if it ends well.
LEMMA FinishedWorks ==
  ASSUME TypeOK, Sane, exec.phase \in {"read", "reread"}, UNCHANGED <<day, receipts>>,
         NEW verdict \in Verdicts, NEW conflict \in BOOLEAN, Finished(verdict, conflict),
         verdict = "DELIVERED" => day[Version(day)].fig = exec.fig
  PROVE  Works
<1>1. /\ rows \in [Op -> Row] /\ exec \in Executor /\ Len(exec.prior) <= PriorMax
      /\ RowsFiled /\ Holds /\ Reading /\ OursTrue /\ day \in Seq(VersionType)
  BY DEF TypeOK, Sane, VersionType
<1>2. InHand /\ day # <<>>
  BY <1>1 DEF InHand, Reading
<1>3. /\ exec' \in Executor /\ Len(exec'.prior) <= PriorMax
      /\ exec'.op = exec.op /\ exec'.fig = exec.fig /\ exec'.nth = exec.nth
      /\ exec'.base = exec.base /\ exec'.phase = "settle" /\ exec'.verdict = verdict
      /\ exec'.ours = exec.ours /\ exec'.conflict = conflict
      /\ Quiet(rows')
      /\ \A R : Carries(R) => Carries(R)'
  BY <1>1, <1>2, FinishedShape
<1>4. Version(day) \in 1 .. Version(day)
  BY <1>1, <1>2 DEF Version
<1> QED BY <1>1, <1>2, <1>3, <1>4 DEF Works, OursTrue

LEMMA AmendWorks ==
  ASSUME TypeOK, Sane, exec.phase \in {"read", "reread"}, UNCHANGED <<day, receipts>>,
         NEW base \in Nat, AmendFrom(base), base = Version(day),
         base = exec.base \/ day[base].by = "crew"
  PROVE  Works
<1>1. /\ rows \in [Op -> Row] /\ exec \in Executor /\ Len(exec.prior) <= PriorMax
      /\ RowsFiled /\ Holds /\ Reading /\ OursTrue
  BY DEF TypeOK, Sane
<1>2. InHand /\ day # <<>>
  BY <1>1 DEF InHand, Reading
<1>3. /\ exec' \in Executor /\ Len(exec'.prior) <= PriorMax
      /\ SameHand(exec') /\ exec'.base = base /\ exec'.phase = "amend"
      /\ exec'.ours = exec.ours
      /\ Quiet(rows')
      /\ \A R : Carries(R)
            /\ Remembered(Request(AmendKey(exec.op, base, exec.fig), exec.fig, exec.nth), 0) \in R
          => Carries(R)'
  BY <1>1, <1>2, AmendShape
<1> QED BY <1>1, <1>2, <1>3 DEF Works, SameHand, OursTrue

LEMMA ReadWorks ==
  ASSUME TypeOK, Sane, ReadDay
  PROVE  Works
<1>1. /\ rows \in [Op -> Row] /\ exec \in Executor /\ Len(exec.prior) <= PriorMax
      /\ Reading /\ OursTrue /\ exec.phase = "read" /\ UNCHANGED <<day, receipts>>
  BY DEF TypeOK, Sane, ReadDay, server
<1>2. CASE Finished("DELIVERED", FALSE) /\ day[Version(day)].fig = exec.fig
  BY <1>1, <1>2, FinishedWorks
<1>3. CASE exec.base = Version(day) /\ AmendFrom(exec.base)
  <2>1. exec.base \in Nat
    BY <1>1 DEF Executor
  <2> QED BY <1>1, <1>3, <2>1, AmendWorks
<1>4. CASE exec' = [Replaying(exec.prior, exec.prior, 0) EXCEPT !.replayed = exec.prior]
           /\ UNCHANGED rows
  <2> DEFINE next == Replaying(exec.prior, exec.prior, 0)
  <2>1. exec.prior \in Lists
    BY <1>1 DEF Executor
  <2>2. /\ next \in Executor /\ SameHand(next) /\ next.base = exec.base
        /\ next.phase = (IF exec.prior = <<>> THEN "reread" ELSE "replay")
        /\ next.todo = exec.prior /\ next.prior = exec.prior /\ next.ours = 0
    BY <1>1, <2>1, ReplayingType
  <2>3. exec' = [next EXCEPT !.replayed = exec.prior]
    BY <1>4
  <2> HIDE DEF next
  <2>4. /\ exec' \in Executor /\ exec'.op = exec.op /\ exec'.fig = exec.fig
        /\ exec'.nth = exec.nth /\ exec'.base = exec.base
        /\ exec'.phase = (IF exec.prior = <<>> THEN "reread" ELSE "replay")
        /\ exec'.todo = exec.prior /\ exec'.prior = exec.prior /\ exec'.ours = 0
    <3>1. exec' \in Executor
      BY <2>1, <2>2, <2>3 DEF Executor
    <3>2. /\ exec'.op = next.op /\ exec'.fig = next.fig /\ exec'.nth = next.nth
          /\ exec'.base = next.base /\ exec'.phase = next.phase
          /\ exec'.todo = next.todo /\ exec'.prior = next.prior /\ exec'.ours = next.ours
      BY <2>2, <2>3 DEF Executor
    <3>3. next.op = exec.op /\ next.fig = exec.fig /\ next.nth = exec.nth
      BY <2>2 DEF SameHand
    <3> QED BY <2>2, <3>1, <3>2, <3>3
  <2>5. \A R : Carries(R) => Carries(R)'
    BY <1>4, <2>4 DEF Carries
  <2>6. Quiet(rows') /\ InHand /\ day # <<>> /\ Version(day) \in Nat
    BY <1>1, <1>4, NothingIsQuiet DEF InHand, Reading, Version, TypeOK
  <2> QED BY <1>1, <2>4, <2>5, <2>6 DEF Works
<1> QED BY <1>2, <1>3, <1>4 DEF ReadDay

LEMMA ReadAgainWorks ==
  ASSUME TypeOK, Sane, ReadDayAgain
  PROVE  Works
<1>1. /\ exec \in Executor /\ Reading /\ OursTrue /\ exec.phase = "reread" /\ UNCHANGED <<day, receipts>>
      /\ day \in Seq(VersionType)
  BY DEF TypeOK, Sane, ReadDayAgain, server, VersionType
<1>2. Version(day) \in Nat /\ Version(day) # 0 /\ exec.base \in Nat
  BY <1>1 DEF Reading, Version, Executor
<1>3. CASE Finished("DELIVERED", FALSE) /\ day[Version(day)].fig = exec.fig
  BY <1>1, <1>3, FinishedWorks
<1>4. CASE Finished("REFUSED", TRUE)
  BY <1>1, <1>4, FinishedWorks
<1>5. CASE exec.ours = Version(day) /\ AmendFrom(Version(day))
  <2>1. day[Version(day)].by = "crew"
    BY <1>1, <1>2, <1>5 DEF OursTrue
  <2> QED BY <1>1, <1>2, <1>5, <2>1, AmendWorks
<1>6. CASE exec.base = Version(day) /\ AmendFrom(exec.base)
  BY <1>1, <1>2, <1>6, AmendWorks
<1> QED BY <1>3, <1>4, <1>5, <1>6 DEF ReadDayAgain

LEMMA ReadFailsWorks ==
  ASSUME TypeOK, Sane, ReadFails
  PROVE  Works
<1>1. exec.phase \in {"read", "reread"} /\ UNCHANGED <<day, receipts>> /\ Finished("TRANSPORT", FALSE)
  BY DEF ReadFails, server
<1> QED BY <1>1, FinishedWorks

\* All of them together, with what they leave alone.
Working ==
  \/ SendReturn \/ Answered \/ Invalid \/ Unheard \/ ReadDay \/ ReadDayAgain \/ ReadFails

LEMMA WorkingWorks ==
  ASSUME TypeOK, Sane, Working, Grown
  PROVE  Works /\ UNCHANGED <<forms, seen, history>>
<1>1. UNCHANGED <<forms, seen, history>>
  BY DEF Working, SendReturn, Answered, Invalid, Unheard, ReadDay, ReadDayAgain, ReadFails
<1>2. ASSUME Invalid PROVE Works
  <2>1. exec.phase \in Asking /\ Hear([kind |-> "invalid", version |-> 0])
    BY <1>2 DEF Invalid
  <2> QED BY <2>1, UnansweredWorks
<1>3. ASSUME Unheard PROVE Works
  <2>1. exec.phase \in Asking /\ Hear([kind |-> "silence", version |-> 0])
    BY <1>3 DEF Unheard
  <2> QED BY <2>1, UnansweredWorks
<1> QED BY <1>1, <1>2, <1>3, SendWorks, AnsweredWorks, ReadWorks, ReadAgainWorks, ReadFailsWorks
        DEF Working

-----------------------------------------------------------------------------
(* The types, and what the state is, are kept.                              *)

\* A receipt goes with the version it is for.
LEMMA ReceiptsStayTrue ==
  ASSUME TypeOK, Sane, Next, Grown
  PROVE  ReceiptsTrue'
<1>1. /\ day \in Seq(VersionType) /\ receipts \subseteq ReceiptType /\ ReceiptsTrue
      /\ Version(day) \in Nat
  BY DEF TypeOK, Sane, VersionType, ReceiptType, Version
<1> DEFINE True(k) == /\ k.version <= Version(day') /\ day'[k.version].by = "crew"
                      /\ day'[k.version].key = k.key /\ day'[k.version].fig = k.fig
<1>2. ASSUME NEW k \in receipts PROVE True(k)
  <2>1. k.version \in 1 .. Version(day)
    BY <1>1 DEF ReceiptsTrue, ReceiptType
  <2> QED BY <1>1, <2>1 DEF ReceiptsTrue, Grown
<1>3. CASE receipts' = receipts
  BY <1>2, <1>3 DEF ReceiptsTrue
<1>4. ASSUME NEW r \in Requests, Accepted(r) PROVE \A k \in receipts' : True(k)
  <2>1. /\ Version(day') = Version(day) + 1
        /\ day'[Version(day) + 1] = [by |-> "crew", fig |-> r.fig, nth |-> r.nth, key |-> r.key]
    BY <1>1, <1>4, AcceptedType
  <2> DEFINE new == [key |-> r.key, fig |-> r.fig, version |-> Version(day) + 1]
  <2>2. receipts' = receipts \cup {new}
    BY <1>4 DEF Accepted
  <2>3. True(new)
    BY <1>1, <2>1
  <2> HIDE DEF new, True
  <2> QED BY <1>2, <2>2, <2>3
<1>5. CASE ServedStep
  BY <1>4, <1>5 DEF ServedStep, ReceiptsTrue
<1> QED BY <1>3, <1>5, ServerStep DEF OtherStep

\* An executor that rests, or waits while something else happens.
HandPart ==
  exec' \in Executor /\ Len(exec'.prior) <= PriorMax /\ Reading' /\ OursTrue' /\ DeliveredTrue'

LEMMA HandRests ==
  ASSUME TypeOK, Grown, exec' = Resting
  PROVE  HandPart
<1>1. Resting.verdict = "TRANSPORT" /\ 0 <= PriorMax
  BY DEF Resting
<1> QED BY <1>1, RestingType DEF HandPart, Reading, OursTrue, DeliveredTrue, Grown

LEMMA HandWaits ==
  ASSUME TypeOK, Sane, Grown, exec' = exec
  PROVE  HandPart
<1>1. /\ exec \in Executor /\ Len(exec.prior) <= PriorMax /\ Reading /\ OursTrue /\ DeliveredTrue
      /\ day \in Seq(VersionType) /\ Version(day) \in Nat
  BY DEF TypeOK, Sane, VersionType, Version
<1>2. day # <<>> => day' # <<>>
  BY <1>1 DEF Grown, Version
<1>3. Reading'
  BY <1>1, <1>2 DEF Reading
<1>4. OursTrue'
  <2>1. exec.ours \in Nat
    BY <1>1 DEF Executor
  <2> QED BY <1>1, <2>1 DEF OursTrue, Grown
<1>5. DeliveredTrue'
  <2>1. ASSUME NEW v \in 1 .. Version(day) PROVE v \in 1 .. Version(day') /\ day'[v] = day[v]
    BY <1>1 DEF Grown
  <2> QED BY <1>1, <2>1 DEF DeliveredTrue
<1> QED BY <1>1, <1>3, <1>4, <1>5 DEF HandPart

LEMMA HandWorks ==
  ASSUME TypeOK, Works
  PROVE  HandPart
BY DEF Works, HandPart, Reading, OursTrue, DeliveredTrue

\* A table in which one row has changed: gone, or in its place, or the last.
TablePart == rows' \in [Op -> Row] /\ RowsFiled' /\ PlacesInOrder'

LEMMA RowChanges ==
  ASSUME TypeOK, Sane, NEW i \in Op, NEW new \in Row, rows' = [rows EXCEPT ![i] = new],
         Filings' \in Nat, Filings <= Filings',
         new.state # "NONE" =>
           /\ i <= new.nth /\ new.nth <= Filings' /\ new.fig \in Figures
           /\ \/ rows[i].state # "NONE" /\ new.seq = rows[i].seq
              \/ \A j \in Op : rows[j].state # "NONE" => j < i /\ rows[j].seq < new.seq
  PROVE  TablePart
<1>1. rows \in [Op -> Row] /\ RowsFiled /\ PlacesInOrder /\ Filings \in Nat
  BY DEF TypeOK, Sane, Filings
<1>2. rows' \in [Op -> Row] /\ rows'[i] = new /\ \A j \in Op \ {i} : rows'[j] = rows[j]
  BY <1>1
<1>3. RowsFiled'
  <2> SUFFICES ASSUME NEW j \in Op, rows'[j].state # "NONE"
               PROVE  j <= rows'[j].nth /\ rows'[j].nth <= Filings' /\ rows'[j].fig \in Figures
    BY DEF RowsFiled
  <2>1. CASE j = i
    BY <1>2, <2>1
  <2>2. CASE j # i
    <3>1. rows[j].nth \in Nat
      BY <1>1, RowNumbers
    <3> QED BY <1>1, <1>2, <2>2, <3>1 DEF RowsFiled
  <2> QED BY <2>1, <2>2
<1>4. PlacesInOrder'
  <2> SUFFICES ASSUME NEW j \in Op, NEW k \in Op, rows'[j].state # "NONE", rows'[k].state # "NONE", j < k
               PROVE  rows'[j].seq < rows'[k].seq
    BY DEF PlacesInOrder
  <2>1. CASE j # i /\ k # i
    BY <1>1, <1>2, <2>1 DEF PlacesInOrder
  <2>2. CASE j = i /\ k # i
    <3>1. rows[k].state # "NONE" /\ new.state # "NONE" /\ ~(k < i)
      BY <1>2, <2>2
    <3>2. rows[i].state # "NONE" /\ new.seq = rows[i].seq
      BY <3>1
    <3> QED BY <1>1, <1>2, <2>2, <3>1, <3>2 DEF PlacesInOrder
  <2>3. CASE k = i /\ j # i
    BY <1>1, <1>2, <2>3 DEF PlacesInOrder
  <2> QED BY <2>1, <2>2, <2>3
<1> QED BY <1>2, <1>3, <1>4 DEF TablePart

\* A table whose rows keep their place and their return.
LEMMA RowsKeep ==
  ASSUME TypeOK, Sane, rows' \in [Op -> Row], forms' = forms,
         \A i \in Op : rows'[i].state # "NONE" =>
           rows[i].state # "NONE" /\ rows'[i].seq = rows[i].seq /\ rows'[i].fig = rows[i].fig
             /\ rows'[i].nth = rows[i].nth
  PROVE  TablePart
<1>1. rows \in [Op -> Row] /\ RowsFiled /\ PlacesInOrder
  BY DEF TypeOK, Sane
<1>2. RowsFiled'
  BY <1>1 DEF RowsFiled, Filings
<1>3. PlacesInOrder'
  BY <1>1 DEF PlacesInOrder
<1> QED BY <1>2, <1>3 DEF TablePart

LEMMA WorksKeepsTable ==
  ASSUME TypeOK, Sane, Works, UNCHANGED forms
  PROVE  TablePart /\ Holds'
<1>1. rows' \in [Op -> Row] /\ \A i \in Op : SameReturn(rows[i], rows'[i]) /\ rows'[i].state = rows[i].state
  BY DEF Works, Quiet
<1>2. TablePart
  BY <1>1, RowsKeep DEF SameReturn
<1>3. Holds'
  <2>1. Holds /\ InHand /\ exec'.op = exec.op /\ exec'.fig = exec.fig /\ exec'.nth = exec.nth
        /\ exec'.phase \notin {"idle", "checked"}
    BY DEF Works, Sane
  <2> QED BY <1>1, <2>1 DEF Holds, InHand, SameReturn
<1> QED BY <1>2, <1>3

LEMMA FileKeeps ==
  ASSUME TypeOK, Sane, NEW fig \in Figures, File(fig)
  PROVE  TablePart /\ Holds' /\ forms' \in Seq(Nat) /\ Filings' <= MaxFilings
<1>1. /\ rows \in [Op -> Row] /\ forms \in Seq(Nat) /\ seen \in Nat /\ RowsFiled /\ PlacesInOrder
      /\ Holds /\ exec \in Executor /\ Filings \in Nat
  BY DEF TypeOK, Sane, Version, Filings
<1> DEFINE n == Filings + 1
<1>2. /\ n \in Op /\ forms' = Append(forms, seen) /\ Len(forms') = n
      /\ rows[n].state = "NONE"
      /\ \/ Alone(fig, n)
         \/ \E old \in Op, prior \in Lists : \E base \in {seen, rows[old].base} :
              /\ rows[old].state \in ActiveStates
              /\ FoldedInto(old, fig, n, prior, base) \/ QueuedBehind(old, fig, n, prior, base)
  BY <1>1, FileCases
<1>3. Filings' \in Nat /\ Filings' = n /\ Filings <= Filings' /\ Filings' <= MaxFilings
      /\ forms' \in Seq(Nat)
  BY <1>1, <1>2 DEF Filings
<1>4. exec' = exec
  BY DEF File
<1>5. ASSUME NEW new \in Row, new.seq = NextSeq(rows), new.state = "QUEUED", new.nth = n, new.fig = fig,
             rows' = [rows EXCEPT ![n] = new]
      PROVE  TablePart /\ Holds'
  <2>1. \A j \in Op : rows[j].state # "NONE" => j < n /\ rows[j].seq < new.seq
    <3> SUFFICES ASSUME NEW j \in Op, rows[j].state # "NONE" PROVE j < n /\ rows[j].seq < new.seq
      OBVIOUS
    <3>1. j \in Present(rows)
      BY <1>1 DEF Present
    <3>2. rows[j].seq < NextSeq(rows)
      BY <1>1, <3>1, NextSeqAbove
    <3>3. j <= rows[j].nth /\ rows[j].nth <= Filings /\ rows[j].nth \in Nat
      BY <1>1, RowNumbers DEF RowsFiled
    <3> QED BY <1>1, <1>5, <3>2, <3>3
  <2>2. TablePart
    <3>1. n \in Op /\ n <= new.nth /\ new.nth <= Filings' /\ new.fig \in Figures
      BY <1>2, <1>3, <1>5
    <3> HIDE DEF n
    <3> QED BY <1>3, <1>5, <2>1, <3>1, RowChanges
  <2>3. rows'[n] = new /\ \A j \in Op \ {n} : rows'[j] = rows[j]
    BY <1>1, <1>2, <1>5
  <2>4. Holds'
    BY <1>1, <1>2, <1>4, <1>5, <2>3 DEF Holds, InHand
  <2> QED BY <2>2, <2>4
<1>6. CASE Alone(fig, n)
  <2> DEFINE new == Fresh(fig, n, NextSeq(rows), seen)
  <2>1. NextSeq(rows) \in Nat
    BY <1>1, NextSeqAbove
  <2>2. new \in Row /\ new.state = "QUEUED" /\ new.seq = NextSeq(rows) /\ new.fig = fig /\ new.nth = n
    <3>1. n \in Op /\ seen \in Nat
      BY <1>1, <1>2
    <3> HIDE DEF n
    <3> QED BY ONLY <2>1, <3>1, fig \in Figures, FreshRow
  <2>3. rows' = [rows EXCEPT ![n] = new]
    BY <1>6 DEF Alone
  <2> HIDE DEF new
  <2> QED BY <1>3, <1>5, <2>2, <2>3
<1>7. ASSUME NEW old \in Op, NEW prior \in Lists, NEW base \in {seen, rows[old].base},
             rows[old].state \in ActiveStates,
             FoldedInto(old, fig, n, prior, base) \/ QueuedBehind(old, fig, n, prior, base)
      PROVE  TablePart /\ Holds'
  <2>1. base \in Nat
    BY <1>1, <1>7 DEF Row
  <2>2. CASE QueuedBehind(old, fig, n, prior, base)
    <3> DEFINE mid == Fresh(fig, n, NextSeq(rows), seen)
               new == Chaining(mid, prior, base)
    <3>1. NextSeq(rows) \in Nat
      BY <1>1, NextSeqAbove
    <3>2. mid \in Row /\ mid.state = "QUEUED" /\ mid.seq = NextSeq(rows) /\ mid.fig = fig /\ mid.nth = n
      <4>1. n \in Op /\ seen \in Nat
        BY <1>1, <1>2
      <4> HIDE DEF n
      <4> QED BY ONLY <3>1, <4>1, fig \in Figures, FreshRow
    <3>3. new \in Row /\ new.state = "QUEUED" /\ new.seq = NextSeq(rows) /\ new.fig = fig /\ new.nth = n
      <4>1. mid \in Row /\ prior \in Lists /\ base \in Nat
        BY <2>1, <3>2
      <4> HIDE DEF mid, n
      <4> QED BY ONLY <3>2, <4>1, ChainingRow
    <3>4. rows' = [rows EXCEPT ![n] = new]
      BY <2>2 DEF QueuedBehind
    <3> HIDE DEF new
    <3> QED BY <1>5, <3>3, <3>4
  <2>3. CASE FoldedInto(old, fig, n, prior, base)
    <3> DEFINE row == rows[old]
               new == Folded(row, fig, n, prior, base)
    <3>1. row \in Row /\ row.state \in WaitingStates
      BY <1>1, <2>3 DEF FoldedInto
    <3>2. new \in Row /\ new.seq = row.seq /\ new.state = row.state /\ new.fig = fig /\ new.nth = n
      <4> HIDE DEF row
      <4>1. row \in Row /\ prior \in Lists /\ base \in Nat /\ n \in Op
        BY <1>2, <2>1, <3>1
      <4> HIDE DEF row, n
      <4> QED BY ONLY <4>1, fig \in Figures, FoldedRow
    <3>3. rows' = [rows EXCEPT ![old] = new]
      BY <2>3 DEF FoldedInto
    <3> HIDE DEF new
    <3>4. old <= n
      <4>1. row.nth \in Nat /\ old <= row.nth /\ row.nth <= Filings
        BY <1>1, <3>1, RowNumbers DEF RowsFiled
      <4> QED BY <1>1, <4>1
    <3>5. TablePart
      <4>1. new.state # "NONE" => /\ old <= new.nth /\ new.nth <= Filings' /\ new.fig \in Figures
                                  /\ rows[old].state # "NONE" /\ new.seq = rows[old].seq
        BY <1>3, <3>1, <3>2, <3>4
      <4> HIDE DEF n, row
      <4> QED BY <1>3, <3>2, <3>3, <4>1, RowChanges
    <3>6. rows'[old] = new /\ \A j \in Op \ {old} : rows'[j] = rows[j]
      BY <1>1, <3>3
    <3>7. Holds'
      BY <1>1, <1>4, <3>1, <3>2, <3>6 DEF Holds, InHand
    <3> QED BY <3>5, <3>7
  <2> QED BY <1>7, <2>2, <2>3
<1> HIDE DEF n
<1> QED BY <1>2, <1>3, <1>6, <1>7

\* What is left of the types once the table and the hand are known.
RestPart ==
  /\ forms' \in Seq(Nat) /\ Filings' <= MaxFilings
  /\ seen' \in 0 .. Version(day') /\ late' \subseteq Requests
  /\ discarded' \subseteq Op /\ reopened' \in BOOLEAN
  /\ restarts' \in Nat /\ retries' \in Nat /\ lost' \in Nat

LEMMA RestKeeps ==
  ASSUME TypeOK, Sane, Grown, forms' = forms, seen' = seen, late' \subseteq Requests,
         discarded' \subseteq Op, reopened' \in BOOLEAN,
         restarts' \in Nat, retries' \in Nat, lost' \in Nat
  PROVE  RestPart
<1>1. forms \in Seq(Nat) /\ Filings <= MaxFilings /\ seen \in 0 .. Version(day)
  BY DEF TypeOK
<1>2. Version(day) \in Nat
  BY DEF TypeOK, Version
<1>3. seen' \in 0 .. Version(day')
  BY <1>1, <1>2 DEF Grown
<1> QED BY <1>1, <1>3 DEF RestPart, Filings

LEMMA ChangedRow ==
  ASSUME TypeOK, Sane, forms' = forms, NEW i \in Op, NEW new \in Row, rows' = [rows EXCEPT ![i] = new],
         new.state # "NONE" => rows[i].state # "NONE" /\ SameReturn(rows[i], new)
  PROVE  TablePart /\ rows'[i] = new /\ \A j \in Op \ {i} : rows'[j] = rows[j]
<1>1. rows \in [Op -> Row]
  BY DEF TypeOK
<1>2. rows'[i] = new /\ rows' \in [Op -> Row] /\ \A j \in Op \ {i} : rows'[j] = rows[j]
  BY <1>1
<1>3. TablePart
  BY <1>2, RowsKeep DEF SameReturn
<1> QED BY <1>2, <1>3

LEMMA RetryKeeps ==
  ASSUME TypeOK, Sane, Grown, NEW i \in Op, Retry(i)
  PROVE  TablePart /\ HandPart /\ Holds' /\ RestPart
<1>1. rows \in [Op -> Row] /\ rows[i] \in Row /\ rows[i].state = "FAILED" /\ Holds
  BY DEF TypeOK, Sane, Retry, MayRetry
<1>2. rows' = [rows EXCEPT ![i] = Retried(rows[i])] /\ exec' = exec /\ UNCHANGED <<forms, seen, late, discarded>>
      /\ reopened' \in BOOLEAN /\ retries' = retries + 1 /\ restarts' = restarts /\ lost' = lost
  BY DEF Retry
<1>3. Retried(rows[i]) \in Row /\ SameReturn(rows[i], Retried(rows[i])) /\ Retried(rows[i]).state = "QUEUED"
  BY <1>1, RowStatements
<1>4. TablePart /\ rows'[i] = Retried(rows[i]) /\ \A j \in Op \ {i} : rows'[j] = rows[j]
  BY <1>1, <1>2, <1>3, ChangedRow
<1>5. Holds'
  BY <1>1, <1>2, <1>3, <1>4 DEF Holds, InHand
<1>6. RestPart
  BY <1>2, RestKeeps DEF TypeOK
<1> QED BY <1>2, <1>4, <1>5, <1>6, HandWaits

LEMMA DiscardKeeps ==
  ASSUME TypeOK, Sane, Grown, NEW i \in Op, Discard(i)
  PROVE  TablePart /\ HandPart /\ Holds' /\ RestPart
<1>1. rows \in [Op -> Row] /\ rows[i] \in Row /\ rows[i].state = "FAILED" /\ Holds /\ RowsFiled
  BY DEF TypeOK, Sane, Discard
<1>2. rows' = [rows EXCEPT ![i] = NoRow] /\ exec' = exec /\ UNCHANGED <<forms, seen, late, reopened, counters>>
      /\ discarded' = discarded \cup {rows[i].nth}
  BY DEF Discard
<1>3. TablePart /\ rows'[i] = NoRow /\ \A j \in Op \ {i} : rows'[j] = rows[j]
  BY <1>1, <1>2, NoRowType, ChangedRow
<1>4. Holds'
  BY <1>1, <1>2, <1>3, NoRowType DEF Holds, InHand
<1>5. rows[i].nth \in Op
  <2>1. i <= rows[i].nth /\ rows[i].nth \in Op \cup {0}
    BY <1>1 DEF RowsFiled, Row
  <2> QED BY <2>1
<1>6. RestPart
  BY <1>2, <1>5, RestKeeps DEF TypeOK, counters
<1> QED BY <1>2, <1>3, <1>4, <1>6, HandWaits

\* Nothing happens to the table or to the hand.
LEMMA TableWaits ==
  ASSUME TypeOK, Sane, UNCHANGED <<rows, exec, forms>>
  PROVE  TablePart /\ Holds'
<1>1. rows \in [Op -> Row] /\ Holds
  BY DEF TypeOK, Sane
<1>2. TablePart
  BY <1>1, RowsKeep
<1> QED BY <1>1, <1>2 DEF Holds, InHand

LEMMA LookKeeps ==
  ASSUME TypeOK, Sane, Grown, Look
  PROVE  TablePart /\ HandPart /\ Holds' /\ RestPart
<1>1. UNCHANGED <<rows, exec, forms, late, day, history, counters>> /\ seen' = Version(day)
  BY DEF Look, server
<1>2. RestPart
  BY <1>1 DEF RestPart, TypeOK, Filings, Version, history, counters
<1> QED BY <1>1, <1>2, TableWaits, HandWaits

LEMMA BackoffKeeps ==
  ASSUME TypeOK, Sane, Grown, NEW i \in Op, BackoffElapses(i)
  PROVE  TablePart /\ HandPart /\ Holds' /\ RestPart
<1>1. rows \in [Op -> Row] /\ rows[i] \in Row /\ rows[i].state = "BACKOFF" /\ Holds
  BY DEF TypeOK, Sane, BackoffElapses
<1> DEFINE new == [rows[i] EXCEPT !.due = TRUE]
<1>2. rows' = [rows EXCEPT ![i] = new] /\ exec' = exec
      /\ UNCHANGED <<forms, seen, late, history, counters>>
  BY <1>1 DEF BackoffElapses
<1>3. new \in Row /\ SameReturn(rows[i], new) /\ new.state = "BACKOFF"
  BY <1>1 DEF Row, SameReturn
<1> HIDE DEF new
<1>4. TablePart /\ rows'[i] = new /\ \A j \in Op \ {i} : rows'[j] = rows[j]
  BY <1>1, <1>2, <1>3, ChangedRow
<1>5. Holds'
  BY <1>1, <1>2, <1>3, <1>4 DEF Holds, InHand
<1>6. RestPart
  BY <1>2, RestKeeps DEF TypeOK, history, counters
<1> QED BY <1>2, <1>4, <1>5, <1>6, HandWaits

LEMMA LookAheadKeeps ==
  ASSUME TypeOK, Sane, Grown, NEW i \in Op, LookAhead(i)
  PROVE  TablePart /\ HandPart /\ Holds' /\ RestPart
<1>1. rows \in [Op -> Row] /\ rows[i] \in Row /\ rows[i].state \in WaitingStates /\ Holds /\ RowsFiled
      /\ exec.phase = "idle"
  BY DEF TypeOK, Sane, LookAhead, Ready
<1>2. exec' = [Resting EXCEPT !.phase = "checked", !.op = i, !.fig = rows[i].fig, !.nth = rows[i].nth]
      /\ UNCHANGED <<rows, forms, seen, late, history, counters>>
  BY DEF LookAhead
<1>3. rows[i].fig \in Figures \cup {0} /\ rows[i].nth \in Op \cup {0}
  BY <1>1 DEF Row
<1>4. /\ exec' \in Executor /\ exec'.phase = "checked" /\ exec'.op = i /\ exec'.prior = <<>>
      /\ exec'.ours = 0
  BY <1>2, <1>3, RestingType DEF Executor, Resting
<1>5. HandPart
  <2>1. Len(exec'.prior) <= PriorMax
    BY <1>4
  <2> QED BY <1>4, <2>1 DEF HandPart, Reading, OursTrue, DeliveredTrue, Grown
<1>6. TablePart
  BY <1>1, <1>2, RowsKeep
<1>7. Holds'
  BY <1>1, <1>2, <1>4 DEF Holds, InHand
<1>8. RestPart
  BY <1>2, RestKeeps DEF TypeOK, history, counters
<1> QED BY <1>5, <1>6, <1>7, <1>8

LEMMA ClaimKeeps ==
  ASSUME TypeOK, Sane, Grown, Claim
  PROVE  TablePart /\ HandPart /\ Holds' /\ RestPart
<1>1. /\ rows \in [Op -> Row] /\ exec \in Executor /\ exec.phase = "checked" /\ exec.op \in Op /\ Holds
      /\ rows[exec.op].state \in WaitingStates
  BY DEF TypeOK, Sane, Claim, Holds
<1> DEFINE i == exec.op
           row == rows[i]
           new == Claimed(row)
<1>2. row \in Row /\ rows' = [rows EXCEPT ![i] = new] /\ UNCHANGED <<forms, seen, late, history, counters>>
      /\ exec' = [exec EXCEPT !.phase = "claimed", !.fig = row.fig, !.nth = row.nth,
                              !.prior = Trim(row.prior), !.base = row.base]
  BY <1>1 DEF Claim
<1>3. new \in Row /\ SameReturn(row, new) /\ new.state = "SENDING"
  <2> HIDE DEF row
  <2> QED BY <1>2, RowStatements
<1>4. TablePart /\ rows'[i] = new /\ \A j \in Op \ {i} : rows'[j] = rows[j]
  <2> HIDE DEF new
  <2> QED BY <1>1, <1>2, <1>3, ChangedRow
<1>5. row.fig \in Figures \cup {0} /\ row.nth \in Op \cup {0} /\ row.base \in Nat /\ row.prior \in Seq(Memories)
  <2> HIDE DEF row
  <2> QED BY <1>2, ListsAreMemories DEF Row
<1>6. Trim(row.prior) \in Lists /\ Len(Trim(row.prior)) <= PriorMax
  <2> HIDE DEF row
  <2> QED BY <1>5, TrimKeeps, ListsAreMemories
<1>7. /\ exec' \in Executor /\ exec'.phase = "claimed" /\ exec'.op = i /\ exec'.prior = Trim(row.prior)
      /\ exec'.fig = row.fig /\ exec'.nth = row.nth /\ exec'.ours = exec.ours
  <2> HIDE DEF row
  <2> QED BY <1>1, <1>2, <1>5, <1>6 DEF Executor
<1>8. Holds'
  <2> HIDE DEF row, new
  <2>1. row.fig = new.fig /\ row.nth = new.nth
    BY <1>3 DEF SameReturn
  <2> QED BY <1>1, <1>3, <1>4, <1>7, <2>1 DEF Holds, InHand
<1>9. HandPart
  <2>1. OursTrue'
    <3>1. exec.ours \in Nat /\ Version(day) \in Nat /\ OursTrue
      BY <1>1 DEF Executor, Sane, Version, TypeOK
    <3> QED BY <1>7, <3>1 DEF OursTrue, Grown
  <2> QED BY <1>6, <1>7, <2>1 DEF HandPart, Reading, DeliveredTrue
<1>10. RestPart
  BY <1>2, RestKeeps DEF TypeOK, history, counters
<1> QED BY <1>4, <1>8, <1>9, <1>10

LEMMA SettleKeeps ==
  ASSUME TypeOK, Sane, Grown, Settle
  PROVE  TablePart /\ HandPart /\ Holds' /\ RestPart
<1>1. rows \in [Op -> Row] /\ exec \in Executor /\ Holds /\ RowsFiled
  BY DEF TypeOK, Sane
<1>2. UNCHANGED <<forms, seen, late, history, counters>>
  BY DEF Settle
<1>3. /\ exec' = Resting /\ exec.op \in Op /\ rows[exec.op].state = "SENDING"
      /\ \/ rows' = [rows EXCEPT ![exec.op] = Settlement(rows[exec.op], exec.verdict)]
         \/ \E newer \in Behind, prior \in Lists, base \in Nat, left \in Row :
              /\ newer \in Op /\ newer # exec.op /\ rows[newer].state \in WaitingStates
              /\ \/ exec.verdict = "TRANSPORT" /\ left = NoRow
                 \/ exec.verdict # "TRANSPORT" /\ left = Settlement(rows[exec.op], exec.verdict)
              /\ rows' = [rows EXCEPT ![newer] = Told(rows[newer], prior, base), ![exec.op] = left]
  BY <1>1, SettleCases
<1> DEFINE i == exec.op
           row == rows[i]
           settled == Settlement(row, exec.verdict)
<1>4. row \in Row /\ exec.verdict \in Verdicts /\ \A j \in Op \ {i} : rows[j].state # "SENDING"
  BY <1>1, <1>3 DEF Executor, Holds
<1>5. /\ settled \in Row /\ SameReturn(row, settled)
      /\ settled.state \in {"SUCCEEDED", "FAILED", "BACKOFF"}
  <2> HIDE DEF row
  <2> QED BY <1>4, SettledRow
<1>6. ASSUME rows' = [rows EXCEPT ![i] = settled] PROVE TablePart /\ Holds'
  <2>1. TablePart /\ rows'[i] = settled /\ \A j \in Op \ {i} : rows'[j] = rows[j]
    <3> HIDE DEF settled
    <3> QED BY <1>2, <1>3, <1>5, <1>6, ChangedRow
  <2>2. Holds'
    <3> HIDE DEF settled
    <3> QED BY <1>3, <1>4, <1>5, <2>1, RestingType DEF Holds, InHand
  <2> QED BY <2>1, <2>2
<1>7. ASSUME NEW newer \in Op, NEW prior \in Lists, NEW base \in Nat, NEW left \in Row,
             newer # i, rows[newer].state \in WaitingStates, left = NoRow \/ left = settled,
             rows' = [rows EXCEPT ![newer] = Told(rows[newer], prior, base), ![i] = left]
      PROVE  TablePart /\ Holds'
  <2> DEFINE old == rows[newer]
             told == Told(old, prior, base)
  <2>1. /\ told \in Row /\ told.seq = old.seq /\ told.record = old.record
        /\ told.state = old.state /\ told.fig = old.fig /\ told.nth = old.nth
    <3>1. old \in Row
      BY <1>1
    <3> HIDE DEF old
    <3> QED BY <3>1, ToldRow
  <2>2. left.state # "SENDING" /\ left.state # "QUEUED"
        /\ (left.state # "NONE" => SameReturn(row, left) /\ row.state # "NONE")
    BY <1>3, <1>5, <1>7, NoRowType
  <2> HIDE DEF told, settled
  <2>3. rows' = [rows EXCEPT ![newer] = told, ![i] = left]
    BY <1>7 DEF told
  <2>4. /\ rows' \in [Op -> Row] /\ rows'[newer] = told /\ rows'[i] = left
        /\ \A j \in Op \ {i, newer} : rows'[j] = rows[j]
    BY <1>1, <1>3, <1>7, <2>1, <2>3
  <2>5. TablePart
    <3> SUFFICES ASSUME NEW j \in Op, rows'[j].state # "NONE"
                 PROVE  rows[j].state # "NONE" /\ rows'[j].seq = rows[j].seq
                          /\ rows'[j].fig = rows[j].fig /\ rows'[j].nth = rows[j].nth
      BY <1>2, <2>4, RowsKeep
    <3>1. CASE j = i
      BY <2>2, <2>4, <3>1 DEF SameReturn
    <3>2. CASE j = newer
      BY <1>7, <2>1, <2>4, <3>2
    <3>3. CASE j \notin {i, newer}
      BY <2>4, <3>3
    <3> QED BY <3>1, <3>2, <3>3
  <2>6. Holds'
    <3>1. \A j \in Op : rows'[j].state # "SENDING"
      BY <1>4, <1>7, <2>1, <2>2, <2>4
    <3> QED BY <1>3, <3>1, RestingType DEF Holds, InHand
  <2> QED BY <2>5, <2>6
<1>8. TablePart /\ Holds'
  <2> HIDE DEF settled
  <2> QED BY <1>3, <1>6, <1>7 DEF settled
<1>9. RestPart
  BY <1>2, RestKeeps DEF TypeOK, history, counters
<1> QED BY <1>3, <1>8, <1>9, HandRests

LEMMA RestartKeeps ==
  ASSUME TypeOK, Sane, Grown, Restart
  PROVE  TablePart /\ HandPart /\ Holds' /\ RestPart
<1>1. rows \in [Op -> Row] /\ late \subseteq Requests
  BY DEF TypeOK
<1>2. /\ rows' = Recovered(rows) /\ exec' = Resting /\ restarts' = restarts + 1
      /\ UNCHANGED <<forms, seen, history, retries, lost>>
      /\ late' = IF exec.phase \in Asking THEN late \cup {OnWire} ELSE late
  BY DEF Restart
<1>3. /\ rows' \in [Op -> Row]
      /\ \A i \in Op : /\ SameReturn(rows[i], rows'[i])
                       /\ rows'[i].state = IF rows[i].state = "SENDING" THEN "QUEUED" ELSE rows[i].state
  BY <1>1, <1>2, RecoveredShape
<1>4. TablePart
  BY <1>2, <1>3, RowsKeep DEF SameReturn
<1>5. Holds'
  BY <1>2, <1>3, RestingType DEF Holds, InHand
<1>6. RestPart
  <2>1. late' \subseteq Requests
    BY <1>1, <1>2, OnWireType
  <2> QED BY <1>2, <2>1, RestKeeps DEF TypeOK, history
<1> QED BY <1>2, <1>4, <1>5, <1>6, HandRests

LEMMA WorkingKeeps ==
  ASSUME TypeOK, Sane, Grown, Working
  PROVE  TablePart /\ HandPart /\ Holds' /\ RestPart
<1>1. Works /\ UNCHANGED <<forms, seen, history>>
  BY WorkingWorks
<1>2. late' \subseteq Requests /\ restarts' \in Nat /\ retries' \in Nat /\ lost' \in Nat
  <2>1. CASE Unheard
    <3>1. exec.phase \in Asking /\ late' = late \cup {OnWire} /\ lost' = lost + 1
          /\ UNCHANGED <<restarts, retries>>
      BY <2>1 DEF Unheard
    <3> QED BY <3>1, OnWireType DEF TypeOK
  <2>2. CASE ReadFails
    BY <2>2 DEF ReadFails, TypeOK
  <2>3. CASE SendReturn \/ Answered \/ Invalid \/ ReadDay \/ ReadDayAgain
    BY <2>3 DEF SendReturn, Answered, Invalid, ReadDay, ReadDayAgain, counters, TypeOK
  <2> QED BY <2>1, <2>2, <2>3 DEF Working
<1>3. RestPart
  BY <1>1, <1>2, RestKeeps DEF history, TypeOK
<1> QED BY <1>1, <1>3, WorksKeepsTable, HandWorks

\* Steps that touch neither the table nor the hand.
LEMMA ElsewhereKeeps ==
  ASSUME TypeOK, Sane, Grown,
         \/ UNCHANGED vars
         \/ \E f \in Figures : SomebodyElseWrites(f)
         \/ \E r \in late : LateArrival(r)
  PROVE  TablePart /\ HandPart /\ Holds' /\ RestPart
<1>1. UNCHANGED <<rows, exec, forms, seen, history, counters>> /\ late' \subseteq late
  BY DEF vars, SomebodyElseWrites, LateArrival
<1>2. RestPart
  BY <1>1, RestKeeps DEF TypeOK, history, counters
<1> QED BY <1>1, <1>2, TableWaits, HandWaits

LEMMA FilingKeeps ==
  ASSUME TypeOK, Sane, Grown, NEW fig \in Figures, File(fig)
  PROVE  TablePart /\ HandPart /\ Holds' /\ RestPart
<1>1. TablePart /\ Holds' /\ forms' \in Seq(Nat) /\ Filings' <= MaxFilings
  BY FileKeeps
<1>2. UNCHANGED <<seen, exec, late, server, history, counters>>
  BY DEF File
<1>3. RestPart
  BY <1>1, <1>2 DEF RestPart, TypeOK, server, history, counters
<1> QED BY <1>1, <1>2, <1>3, HandWaits

\* The actions, one of which each step is.
LEMMA StepCases ==
  ASSUME Next
  PROVE  \/ Look \/ Claim \/ Settle \/ Restart \/ Working
         \/ \E f \in Figures : File(f) \/ SomebodyElseWrites(f)
         \/ \E i \in Op : Retry(i) \/ Discard(i) \/ LookAhead(i) \/ BackoffElapses(i)
         \/ \E r \in late : LateArrival(r)
BY DEF Next, PeopleNext, FlushNext, Working

\* Only what is on a row or in hand loses requests, and only on a list that is
\* made longer.
LEMMA CutStays ==
  ASSUME TypeOK, Sane, Next
  PROVE  cut' \subseteq Op /\ cut \subseteq cut'
<1>0. cut \subseteq Op
  BY DEF TypeOK
<1>1. ASSUME NEW i \in Op, NEW list, cut' = CutFrom(i, list) PROVE cut' \subseteq Op /\ cut \subseteq cut'
  BY <1>0, <1>1 DEF CutFrom
<1>2. CASE UNCHANGED cut
  BY <1>0, <1>2
<1>3. InHand => exec.op \in Op
  BY DEF Sane, Holds
<1>4. ASSUME NEW f \in Figures, File(f) PROVE cut' \subseteq Op /\ cut \subseteq cut'
  <2> DEFINE active == ActiveOn(rows, TheDay)
             old == Newest(rows, active)
             list == Chain(rows[old], <<>>, PostKey(old), MaySent(rows[old]),
                           rows[old].state = "SENDING")
             i == IF rows[old].state \in WaitingStates THEN old ELSE Filings + 1
  <2>1. cut' = IF active = {} THEN cut ELSE CutFrom(i, list)
    BY <1>4, Zenon DEF File
  <2>2. Filings + 1 \in Op
    BY <1>4, FileCases DEF TypeOK, Sane
  <2>3. active # {} => old \in Op
    <3>1. active \in SUBSET Op
      BY ActiveRows DEF TypeOK
    <3> HIDE DEF active
    <3> QED BY <3>1, NewestType DEF TypeOK
  <2>4. active # {} => i \in Op
    <3> HIDE DEF active, old
    <3> QED BY <2>2, <2>3
  <2> HIDE DEF active, list, i
  <2> QED BY <1>1, <1>2, <2>1, <2>4
<1>5. CASE SendReturn
  <2>1. InHand /\ cut' = CutFrom(exec.op, Recording(OwnPost))
    BY <1>5 DEF SendReturn, InHand
  <2> QED BY <1>1, <1>3, <2>1
<1>6. ASSUME InHand, NEW base, AmendFrom(base) PROVE cut' \subseteq Op /\ cut \subseteq cut'
  <2>1. PICK list : cut' = CutFrom(exec.op, list)
    BY <1>6, Zenon DEF AmendFrom
  <2> QED BY <1>1, <1>3, <1>6, <2>1
<1>7. CASE ReadDay \/ ReadDayAgain \/ ReadFails
  <2>1. InHand
    BY <1>7 DEF ReadDay, ReadDayAgain, ReadFails, InHand
  <2>2. UNCHANGED cut \/ \E base : AmendFrom(base)
    BY <1>7, Zenon DEF ReadDay, ReadDayAgain, ReadFails, Finished
  <2> QED BY <1>2, <1>6, <2>1, <2>2
<1>8. CASE Settle
  <2> DEFINE newer == Newest(rows, Behind)
             list == Chain(rows[exec.op], rows[newer].prior, PostKey(exec.op), TRUE, TRUE)
  <2>1. cut' = IF Behind = {} THEN cut ELSE CutFrom(newer, list)
    BY <1>8, Zenon DEF Settle
  <2>2. Behind # {} => newer \in Op
    <3>1. Behind \in SUBSET Op
      BY ActiveRows DEF Behind, TypeOK
    <3> QED BY <3>1, NewestType DEF TypeOK
  <2> HIDE DEF newer, list
  <2> QED BY <1>1, <1>2, <2>1, <2>2
<1>9. CASE Look \/ Claim \/ Restart \/ Answered \/ Invalid \/ Unheard
  BY <1>2, <1>9 DEF Look, Claim, Restart, Answered, Invalid, Unheard
<1>10. CASE \/ \E f \in Figures : SomebodyElseWrites(f)
            \/ \E i \in Op : Retry(i) \/ Discard(i) \/ LookAhead(i) \/ BackoffElapses(i)
            \/ \E r \in late : LateArrival(r)
  BY <1>2, <1>10 DEF SomebodyElseWrites, Retry, Discard, LookAhead, BackoffElapses, LateArrival
<1> QED BY <1>4, <1>5, <1>7, <1>8, <1>9, <1>10, StepCases DEF Working

LEMMA StepKeeps ==
  ASSUME TypeOK, Sane, Next
  PROVE  TypeOK' /\ Sane' /\ Grown
<1>1. Grown
  BY ServerGrows
<1>2. ReceiptsTrue'
  BY <1>1, ReceiptsStayTrue
<1>3. TablePart /\ HandPart /\ Holds' /\ RestPart
  BY <1>1, StepCases, LookKeeps, ClaimKeeps, SettleKeeps, RestartKeeps, WorkingKeeps, FilingKeeps,
     ElsewhereKeeps, RetryKeeps, DiscardKeeps, LookAheadKeeps, BackoffKeeps
<1>4. cut' \subseteq Op
  BY CutStays
<1>5. TypeOK'
  BY <1>1, <1>3, <1>4 DEF TypeOK, TablePart, HandPart, RestPart, Grown, VersionType, ReceiptType
<1> QED BY <1>1, <1>2, <1>3, <1>5 DEF Sane, TablePart, HandPart

LEMMA InitTypes == Init => TypeOK /\ Sane
<1> SUFFICES ASSUME Init PROVE TypeOK /\ Sane
  OBVIOUS
<1>1. \A i \in Op : rows[i] = NoRow
  BY DEF Init
<1>2. /\ rows \in [Op -> Row] /\ exec = Resting /\ day = <<>> /\ forms = <<>> /\ receipts = {}
      /\ seen = 0 /\ late = {} /\ discarded = {} /\ reopened = FALSE /\ cut = {}
      /\ restarts = 0 /\ retries = 0 /\ lost = 0
  BY NoRowType DEF Init
<1>3. Len(forms) = 0 /\ Len(day) = 0 /\ forms \in Seq(Nat) /\ day \in Seq(VersionType)
  BY <1>2
<1>4. TypeOK
  <2>1. Len(exec.prior) <= PriorMax /\ exec \in Executor
    BY <1>2, RestingType
  <2>2. Filings = 0 /\ Version(day) = 0
    BY <1>3 DEF Filings, Version
  <2>3. Filings <= MaxFilings /\ seen \in 0 .. Version(day) /\ receipts \subseteq ReceiptType
    BY <1>2, <2>2
  <2>4. late \subseteq Requests /\ discarded \subseteq Op /\ reopened \in BOOLEAN
        /\ cut \subseteq Op /\ restarts \in Nat /\ retries \in Nat /\ lost \in Nat
    BY <1>2
  <2> QED BY <1>2, <1>3, <2>1, <2>3, <2>4, Zenon DEF TypeOK, VersionType, ReceiptType
<1>5. Resting.verdict = "TRANSPORT"
  BY DEF Resting
<1>6. Holds /\ RowsFiled /\ PlacesInOrder
  BY <1>1, <1>2, NoRowType, RestingType DEF Holds, InHand, RowsFiled, PlacesInOrder
<1> QED BY <1>2, <1>3, <1>4, <1>5, <1>6, RestingType
        DEF Sane, Reading, ReceiptsTrue, OursTrue, DeliveredTrue, Version

\* Every variable keeps its type, every list of requests included.
THEOREM Typing == Spec => []TypeOK
<1>1. TypeOK /\ Sane /\ [Next]_vars => TypeOK' /\ Sane'
  <2> SUFFICES ASSUME TypeOK, Sane, [Next]_vars PROVE TypeOK' /\ Sane'
    OBVIOUS
  <2>1. CASE Next
    BY <2>1, StepKeeps
  <2>2. CASE UNCHANGED vars
    <3>1. UNCHANGED <<rows, forms, seen, exec, late, day, receipts, discarded, reopened, cut,
                      restarts, retries, lost>>
      BY <2>2 DEF vars, server, history, counters
    <3>2. TypeOK'
      BY <3>1 DEF TypeOK, Filings
    <3> QED BY <3>1, <3>2 DEF Sane, RowsFiled, PlacesInOrder, Holds, InHand, Reading, ReceiptsTrue,
                              OursTrue, DeliveredTrue, Filings
  <2> QED BY <2>1, <2>2
<1> QED BY <1>1, InitTypes, PTL DEF Spec

-----------------------------------------------------------------------------
(* The order of the filings, as long as no failed return is put back after  *)
(* a newer one.  Live rows are those that may still be sent then.           *)

Live ==
  {i \in Op : \/ rows[i].state \in ActiveStates
              \/ rows[i].state = "FAILED" /\ rows[i].nth = Filings}

\* Filings wait in turn, and only the first has been tried.
InTurn ==
  \A i, j \in Live : i < j =>
    rows[i].nth < rows[j].nth /\ rows[j].state = "QUEUED" /\ rows[j].tries = 0

\* The executor has the first in hand.
HeadFirst == exec.phase # "idle" => exec.op \in Live /\ \A i \in Live : exec.op <= i

Crew(v) == day[v].by = "crew"

\* A version the form of filing nth, or of an earlier one, was opened from.
SeenBy(nth, base) == \E n \in 1 .. nth : forms[n] = base

\* A request that may come at any time from now on: it speaks for a filing no
\* newer than those that still wait, and if it amends a version, then one that
\* was the crew's or had been seen, and no newer filing had made it.
Fair(request) ==
  /\ request.nth <= Filings
  /\ \A i \in Live : request.nth <= rows[i].nth
  /\ \/ IsPost(request)
     \/ /\ BaseOf(request) \in 1 .. Version(day)
        /\ Crew(BaseOf(request)) \/ SeenBy(request.nth, BaseOf(request))
        /\ \A v \in 1 .. BaseOf(request) : Crew(v) => day[v].nth <= request.nth

FairOnes == {p \in Memories : Fair(p)}

\* Every request that is on its way, or may be sent again, is fair.
AllFair ==
  /\ Carries(FairOnes)
  /\ \A r \in late : Fair(r)
  /\ exec.phase = "amend" => Fair(OwnAmend)

DayBehind ==
  \A v \in 1 .. Version(day) : Crew(v) =>
    day[v].nth <= Filings /\ \A i \in Live : day[v].nth <= rows[i].nth

\* What a return is to correct was on the crew's screen.
RowBasesSeen ==
  \A i \in Op : rows[i].state # "NONE" => rows[i].base = 0 \/ SeenBy(rows[i].nth, rows[i].base)

HandBaseSeen ==
  InHand /\ exec.phase \notin {"amend", "settle"} => exec.base = 0 \/ SeenBy(exec.nth, exec.base)

\* What the two properties say while it is so.
OverwritesSeen ==
  \A v \in 2 .. Version(day) :
    day[v].by = "crew" => day[v - 1].by = "crew" \/ SeenBy(day[v].nth, v - 1)

Order ==
  /\ InTurn /\ HeadFirst /\ AllFair /\ DayBehind /\ RowBasesSeen /\ HandBaseSeen
  /\ OverwritesSeen /\ LandsInOrder

\* What a step does to the rows that may still be sent: no row says an older
\* filing than it did, and a new one says the newest.
Onward ==
  /\ Grown
  /\ Filings \in Nat /\ Filings' \in Nat /\ Filings <= Filings'
  /\ \A n \in 1 .. Filings : forms'[n] = forms[n]
  /\ rows' \in [Op -> Row]
  /\ \A i \in Live' : rows'[i].nth = Filings' \/ (i \in Live /\ rows[i].nth <= rows'[i].nth)

LEMMA SeenStays ==
  ASSUME Onward, NEW nth \in Nat, NEW base, nth <= Filings, SeenBy(nth, base)
  PROVE  SeenBy(nth, base)'
BY DEF Onward, SeenBy

\* What was fair stays so.
LEMMA FairStays ==
  ASSUME TypeOK, Onward, NEW request, request.nth \in Nat, BaseOf(request) \in Nat, Fair(request)
  PROVE  Fair(request)'
<1>1. /\ rows \in [Op -> Row] /\ rows' \in [Op -> Row] /\ Live \subseteq Op /\ Live' \subseteq Op
      /\ day \in Seq(VersionType) /\ Version(day) \in Nat /\ Filings \in Nat /\ Filings' \in Nat
      /\ Filings <= Filings' /\ Grown /\ Version(day') \in Nat
  BY DEF TypeOK, Onward, Live, VersionType, Version, Grown
<1>2. request.nth <= Filings'
  BY <1>1 DEF Fair
<1>3. ASSUME NEW i \in Live' PROVE request.nth <= rows'[i].nth
  <2>1. CASE rows'[i].nth = Filings'
    BY <1>2, <2>1
  <2>2. CASE i \in Live /\ rows[i].nth <= rows'[i].nth
    <3>1. rows[i] \in Row /\ rows'[i] \in Row
      BY <1>1
    <3>2. rows[i].nth \in Nat /\ rows'[i].nth \in Nat
      BY <3>1, RowNumbers
    <3> QED BY <2>2, <3>2 DEF Fair
  <2> QED BY <2>1, <2>2 DEF Onward
<1>4. ASSUME BaseOf(request) \in 1 .. Version(day),
             Crew(BaseOf(request)) \/ SeenBy(request.nth, BaseOf(request)),
             \A v \in 1 .. BaseOf(request) : Crew(v) => day[v].nth <= request.nth
      PROVE  /\ BaseOf(request) \in 1 .. Version(day')
             /\ Crew(BaseOf(request))' \/ SeenBy(request.nth, BaseOf(request))'
             /\ \A v \in 1 .. BaseOf(request) : Crew(v)' => day'[v].nth <= request.nth
  <2>1. \A v \in 1 .. BaseOf(request) : v \in 1 .. Version(day) /\ day'[v] = day[v]
    BY <1>1, <1>4 DEF Grown
  <2>2. SeenBy(request.nth, BaseOf(request)) => SeenBy(request.nth, BaseOf(request))'
    BY SeenStays DEF Fair
  <2>3. BaseOf(request) \in 1 .. Version(day')
    BY <1>1, <1>4 DEF Grown
  <2>4. \A v \in 1 .. BaseOf(request) : Crew(v)' <=> Crew(v)
    BY <2>1 DEF Crew
  <2>5. BaseOf(request) \in 1 .. BaseOf(request)
    BY <1>1, <1>4
  <2>6. Crew(BaseOf(request)) => Crew(BaseOf(request))'
    BY <2>1, <2>5 DEF Crew
  <2>7. \A v \in 1 .. BaseOf(request) : Crew(v)' => day'[v].nth <= request.nth
    BY <1>4, <2>1, <2>4
  <2> QED BY <1>4, <2>2, <2>3, <2>6, <2>7, Zenon
<1> QED BY <1>2, <1>3, <1>4 DEF Fair, IsPost, BaseOf

\* A list of what is fair is one after the step, whatever it learns of what landed.
LEMMA FairLists ==
  ASSUME TypeOK, Onward
  PROVE  \E R : R = FairOnes' /\ FairOnes \subseteq R /\ LandedStays(R)
<1>1. PICK R : R = FairOnes'
  OBVIOUS
<1>2. R = {p \in Memories : Fair(p)'}
  BY <1>1 DEF FairOnes
<1>3. FairOnes \subseteq R
  <2> SUFFICES ASSUME NEW p \in Memories, Fair(p) PROVE Fair(p)'
    BY <1>2 DEF FairOnes
  <2>1. p.nth \in Nat /\ BaseOf(p) \in Nat
    BY DEF Memories, BaseOf, Keys
  <2> QED BY <2>1, FairStays
<1>4. LandedStays(R)
  <2> SUFFICES ASSUME NEW p \in R, NEW v \in Nat PROVE [p EXCEPT !.landed = v] \in R
    BY DEF LandedStays
  <2> DEFINE q == [p EXCEPT !.landed = v]
  <2>1. p \in Memories /\ Fair(p)'
    BY <1>2
  <2>2. q \in Memories /\ q.key = p.key /\ q.nth = p.nth
    BY <2>1 DEF Memories
  <2> HIDE DEF q
  <2>3. Fair(q)'
    BY <2>1, <2>2 DEF Fair, IsPost, BaseOf
  <2> QED BY <1>2, <2>2, <2>3 DEF q
<1> QED BY <1>1, <1>3, <1>4

LEMMA CarriedOver ==
  ASSUME NEW R, NEW S, R \subseteq S, Carries(R)
  PROVE  Carries(S)
BY DEF Carries

\* The executor's own return comes before what else waits.
LEMMA HandFair ==
  ASSUME TypeOK, Sane, Order, InHand
  PROVE  /\ exec.nth <= Filings /\ \A i \in Live : exec.nth <= rows[i].nth
         /\ Fair(OwnPost) /\ OwnPost.nth \in Nat /\ BaseOf(OwnPost) \in Nat
<1>1. /\ exec \in Executor /\ rows \in [Op -> Row] /\ Holds /\ RowsFiled
      /\ HeadFirst /\ exec.op \in Op
  BY DEF TypeOK, Sane, Order, InHand, Holds
<1>2. exec.op \in Live /\ \A i \in Live : exec.op <= i
  BY <1>1 DEF HeadFirst, InHand
<1>3. rows[exec.op].nth = exec.nth /\ rows[exec.op].nth <= Filings /\ exec.nth \in Nat
  BY <1>1, RowNumbers DEF Holds, RowsFiled
<1>4. \A i \in Live : exec.nth <= rows[i].nth
  <2> SUFFICES ASSUME NEW i \in Live PROVE exec.nth <= rows[i].nth
    OBVIOUS
  <2>1. i \in Op /\ rows[i] \in Row /\ rows[i].nth \in Nat
    BY <1>1, RowNumbers DEF Live
  <2>2. CASE i = exec.op
    BY <1>3, <2>1, <2>2
  <2>3. CASE i # exec.op
    <3>1. exec.op < i
      BY <1>1, <1>2, <2>1, <2>3
    <3>2. rows[exec.op].nth < rows[i].nth
      BY <1>2, <3>1 DEF Order, InTurn
    <3> QED BY <1>3, <2>1, <3>2
  <2> QED BY <2>2, <2>3
<1>5. IsPost(OwnPost) /\ OwnPost.nth = exec.nth /\ BaseOf(OwnPost) = 0
  BY DEF OwnPost, IsPost, BaseOf, PostKey, Request
<1> QED BY <1>3, <1>4, <1>5 DEF Fair

\* The request an executor waits for is fair.
LEMMA WireFair ==
  ASSUME TypeOK, Sane, Order, exec.phase \in Asking
  PROVE  Fair(OnWire)
<1>1. /\ exec \in Executor /\ rows \in [Op -> Row] /\ Holds /\ InHand /\ RowsFiled /\ Reading
      /\ HeadFirst /\ AllFair /\ exec.op \in Op
  BY DEF TypeOK, Sane, Order, InHand, Holds
<1>2. CASE exec.phase = "post"
  BY <1>1, <1>2, HandFair DEF OnWire
<1>3. CASE exec.phase = "replay"
  <2>1. exec.todo \in Seq(FairOnes) /\ exec.todo # <<>>
    BY <1>1, <1>3 DEF AllFair, Carries, Reading
  <2>2. Head(exec.todo) \in FairOnes
    BY <2>1
  <2> DEFINE p == Head(exec.todo)
             q == Request(p.key, p.fig, p.nth)
  <2>3. Fair(p)
    BY <2>2 DEF FairOnes
  <2>4. OnWire = q /\ q.key = p.key /\ q.nth = p.nth
    BY <1>3 DEF OnWire, Request
  <2> HIDE DEF p, q
  <2> QED BY <2>3, <2>4 DEF Fair, IsPost, BaseOf
<1>4. CASE exec.phase = "amend"
  BY <1>1, <1>4 DEF OnWire, AllFair
<1> QED BY <1>2, <1>3, <1>4

\* A version made by a fair request, or by somebody else, keeps the day in order.
LEMMA DayInOrder ==
  ASSUME TypeOK, Sane, Order, Next, Onward
  PROVE  DayBehind' /\ OverwritesSeen' /\ LandsInOrder'
<1>1. /\ day \in Seq(VersionType) /\ Version(day) \in Nat /\ receipts \subseteq ReceiptType
      /\ rows \in [Op -> Row] /\ rows' \in [Op -> Row] /\ Live \subseteq Op /\ Live' \subseteq Op
      /\ DayBehind /\ OverwritesSeen /\ LandsInOrder /\ Grown
      /\ Filings \in Nat /\ Filings' \in Nat /\ Filings <= Filings'
  BY DEF TypeOK, Onward, Live, VersionType, ReceiptType, Version, Order
<1>2. \A v \in 1 .. Version(day) : day[v].nth \in Nat /\ day[v] \in VersionType
  <2> SUFFICES ASSUME NEW v \in 1 .. Version(day) PROVE day[v].nth \in Nat /\ day[v] \in VersionType
    OBVIOUS
  <2>1. day[v] \in VersionType
    BY <1>1 DEF Version
  <2> QED BY <2>1 DEF VersionType
<1>3. ASSUME NEW nth \in Nat, nth <= Filings, \A i \in Live : nth <= rows[i].nth
      PROVE  nth <= Filings' /\ \A i \in Live' : nth <= rows'[i].nth
  <2> SUFFICES ASSUME NEW i \in Live' PROVE nth <= rows'[i].nth
    BY <1>1, <1>3
  <2>1. CASE rows'[i].nth = Filings'
    BY <1>1, <1>3, <2>1
  <2>2. CASE i \in Live /\ rows[i].nth <= rows'[i].nth
    <3>1. rows[i].nth \in Nat /\ rows'[i].nth \in Nat
      BY <1>1, RowNumbers
    <3> QED BY <1>3, <2>2, <3>1
  <2> QED BY <2>1, <2>2 DEF Onward
<1>4. ASSUME NEW v \in 1 .. Version(day), Crew(v)
      PROVE  day[v].nth <= Filings' /\ \A i \in Live' : day[v].nth <= rows'[i].nth
  BY <1>1, <1>2, <1>3, <1>4 DEF DayBehind
<1>5. ASSUME NEW v \in 1 .. Version(day) PROVE day'[v] = day[v]
  BY <1>1 DEF Grown
<1>6. ASSUME NEW v \in 2 .. Version(day), day[v].by = "crew"
      PROVE  day[v - 1].by = "crew" \/ SeenBy(day[v].nth, v - 1)'
  <2>1. day[v - 1].by = "crew" \/ SeenBy(day[v].nth, v - 1)
    BY <1>1, <1>6 DEF OverwritesSeen
  <2>2. v \in 1 .. Version(day)
    BY <1>1
  <2>3. day[v].nth <= Filings /\ day[v].nth \in Nat
    BY <1>1, <1>2, <1>6, <2>2 DEF DayBehind, Crew
  <2>4. PICK nth \in Nat : nth = day[v].nth
    BY <2>3
  <2>5. SeenBy(nth, v - 1) => SeenBy(nth, v - 1)'
    BY <2>3, <2>4, SeenStays
  <2>6. SeenBy(nth, v - 1)' => SeenBy(day[v].nth, v - 1)'
    BY <1>5, <2>2, <2>4 DEF SeenBy
  <2> QED BY <2>1, <2>4, <2>5, <2>6
<1>7. CASE UNCHANGED <<day, receipts>>
  <2>1. Version(day') = Version(day)
    BY <1>7
  <2> QED BY <1>4, <1>6, <1>7, <2>1 DEF DayBehind, OverwritesSeen, LandsInOrder, Crew, Order
<1> DEFINE N == Version(day) + 1
<1>8. ASSUME NEW e, Version(day') = N, day'[N] = e,
             e.by = "crew" =>
               /\ e.nth \in Nat /\ e.nth <= Filings /\ \A i \in Live : e.nth <= rows[i].nth
               /\ N > 1 => /\ day[N - 1].by = "crew" \/ SeenBy(e.nth, N - 1)
                           /\ \A v \in 1 .. N - 1 : Crew(v) => day[v].nth <= e.nth
      PROVE  DayBehind' /\ OverwritesSeen' /\ LandsInOrder'
  <2>1. DayBehind'
    <3> SUFFICES ASSUME NEW v \in 1 .. N, day'[v].by = "crew"
                 PROVE  day'[v].nth <= Filings' /\ \A i \in Live' : day'[v].nth <= rows'[i].nth
      BY <1>8 DEF DayBehind, Crew
    <3>1. CASE v = N
      BY <1>3, <1>8, <3>1
    <3>2. CASE v # N
      <4>1. v \in 1 .. Version(day)
        BY <1>1, <3>2
      <4> QED BY <1>4, <1>5, <4>1 DEF Crew
    <3> QED BY <3>1, <3>2
  <2>2. OverwritesSeen'
    <3> SUFFICES ASSUME NEW v \in 2 .. N, day'[v].by = "crew"
                 PROVE  day'[v - 1].by = "crew" \/ SeenBy(day[v].nth, v - 1)'
      BY <1>8 DEF OverwritesSeen
    <3>1. v - 1 \in 1 .. Version(day) /\ day'[v - 1] = day[v - 1]
      BY <1>1, <1>5
    <3>2. CASE v = N
      <4>1. PICK nth \in Nat : nth = e.nth
        BY <1>8, <3>2
      <4>2. nth <= Filings /\ (day[v - 1].by = "crew" \/ SeenBy(nth, v - 1))
        BY <1>1, <1>8, <3>2, <4>1
      <4>3. SeenBy(nth, v - 1) => SeenBy(nth, v - 1)'
        BY <4>2, SeenStays
      <4>4. SeenBy(nth, v - 1)' => SeenBy(day[v].nth, v - 1)'
        BY <1>8, <3>2, <4>1 DEF SeenBy
      <4> QED BY <3>1, <4>2, <4>3, <4>4
    <3>3. CASE v # N
      <4>1. v \in 2 .. Version(day) /\ v \in 1 .. Version(day)
        BY <1>1, <3>3
      <4> QED BY <1>5, <1>6, <3>1, <4>1
    <3> QED BY <3>2, <3>3
  <2>3. LandsInOrder'
    <3> SUFFICES ASSUME NEW v \in 1 .. N, NEW w \in 1 .. N, v < w,
                        day'[v].by = "crew", day'[w].by = "crew"
                 PROVE  day'[v].nth <= day'[w].nth
      BY <1>8 DEF LandsInOrder
    <3>1. v \in 1 .. Version(day) /\ day'[v] = day[v]
      BY <1>1, <1>5
    <3>2. CASE w = N
      <4>1. day[v].by = "crew" /\ day'[w] = e /\ e.by = "crew"
        BY <1>8, <3>1, <3>2
      <4>2. v \in 1 .. N - 1 /\ N > 1
        BY <1>1, <3>1
      <4>3. day[v].nth <= e.nth
        BY <1>8, <4>1, <4>2 DEF Crew
      <4> QED BY <3>1, <4>1, <4>3
    <3>3. CASE w # N
      <4>1. w \in 1 .. Version(day) /\ day'[w] = day[w]
        BY <1>1, <1>5, <3>3
      <4> QED BY <1>1, <3>1, <4>1 DEF LandsInOrder
    <3> QED BY <3>2, <3>3
  <2> QED BY <2>1, <2>2, <2>3
<1>9. CASE OtherStep
  <2>1. PICK fig \in Figures :
          day' = Append(day, [by |-> "other", fig |-> fig, nth |-> 0, key |-> <<1, 0, 0>>])
    BY <1>9 DEF OtherStep
  <2> DEFINE e == [by |-> "other", fig |-> fig, nth |-> 0, key |-> <<1, 0, 0>>]
  <2>2. e.by # "crew"
    OBVIOUS
  <2> HIDE DEF e
  <2>3. day' = Append(day, e)
    BY <2>1 DEF e
  <2>4. Version(day') = N /\ day'[N] = e
    BY <1>1, <2>3 DEF Version
  <2> HIDE DEF N
  <2> QED BY <1>8, <2>2, <2>4
<1>10. ASSUME NEW r \in Requests, Accepted(r), Fair(r)
       PROVE  DayBehind' /\ OverwritesSeen' /\ LandsInOrder'
  <2> DEFINE e == [by |-> "crew", fig |-> r.fig, nth |-> r.nth, key |-> r.key]
  <2>1. Version(day') = N /\ day'[N] = e
    BY <1>1, <1>10, AcceptedType
  <2>2. e.nth = r.nth /\ r.nth \in Nat
    BY DEF Requests
  <2>3. r.nth <= Filings /\ \A i \in Live : r.nth <= rows[i].nth
    BY <1>10 DEF Fair
  <2>4. IsPost(r) => Version(day) = 0
    BY <1>1, <1>10 DEF Accepted, Takes, Version
  <2>5. ~IsPost(r) => BaseOf(r) = Version(day)
    BY <1>10 DEF Accepted, Takes
  <2>6. N > 1 => /\ day[N - 1].by = "crew" \/ SeenBy(r.nth, N - 1)
                 /\ \A v \in 1 .. N - 1 : Crew(v) => day[v].nth <= r.nth
    <3> SUFFICES ASSUME N > 1 PROVE /\ day[N - 1].by = "crew" \/ SeenBy(r.nth, N - 1)
                                    /\ \A v \in 1 .. N - 1 : Crew(v) => day[v].nth <= r.nth
      OBVIOUS
    <3>1. ~IsPost(r) /\ N - 1 = Version(day) /\ BaseOf(r) = Version(day)
      <4>1. Version(day) \in Nat
        BY <1>1
      <4>2. N - 1 = Version(day) /\ Version(day) # 0
        BY <4>1
      <4> QED BY <2>4, <2>5, <4>2
    <3>2. /\ Crew(BaseOf(r)) \/ SeenBy(r.nth, BaseOf(r))
          /\ \A v \in 1 .. BaseOf(r) : Crew(v) => day[v].nth <= r.nth
      BY <1>10, <3>1 DEF Fair
    <3> HIDE DEF N
    <3> QED BY <3>1, <3>2 DEF Crew
  <2> HIDE DEF N, e
  <2> QED BY <1>8, <2>1, <2>2, <2>3, <2>6
<1>11. CASE ServedStep
  <2>1. PICK r \in Requests : Accepted(r) /\ (r \in late \/ (exec.phase \in Asking /\ r = OnWire))
    BY <1>11 DEF ServedStep
  <2>2. Fair(r)
    <3>1. CASE r \in late
      BY <3>1 DEF Order, AllFair
    <3>2. CASE exec.phase \in Asking /\ r = OnWire
      BY <3>2, WireFair
    <3> QED BY <2>1, <3>1, <3>2
  <2> QED BY <1>10, <2>1, <2>2
<1> QED BY <1>7, <1>9, <1>11, ServerStep

\* No row comes into line, and only the first of them may be tried.
LEMMA LineShrinks ==
  ASSUME TypeOK, Sane, Order, Grown, forms' = forms, rows' \in [Op -> Row],
         \A i \in Live' :
           /\ i \in Live /\ rows'[i].nth = rows[i].nth
           /\ \/ rows[i].state = "QUEUED" /\ rows[i].tries = 0
                   => rows'[i].state = "QUEUED" /\ rows'[i].tries = 0
              \/ \A k \in Live : i <= k
  PROVE  Onward /\ InTurn' /\ Live' \subseteq Live
<1>1. /\ rows \in [Op -> Row] /\ Live \subseteq Op /\ Live' \subseteq Op /\ InTurn
      /\ Filings \in Nat /\ Filings' = Filings
  BY DEF TypeOK, Order, Live, Filings
<1>2. \A i \in Op : rows[i].nth \in Nat
  BY <1>1, RowNumbers
<1>3. Onward
  BY <1>1, <1>2 DEF Onward
<1>4. InTurn'
  <2> SUFFICES ASSUME NEW i \in Live', NEW j \in Live', i < j
               PROVE  rows'[i].nth < rows'[j].nth /\ rows'[j].state = "QUEUED" /\ rows'[j].tries = 0
    BY DEF InTurn
  <2>1. i \in Live /\ j \in Live /\ rows'[i].nth = rows[i].nth /\ rows'[j].nth = rows[j].nth
    OBVIOUS
  <2>2. rows[i].nth < rows[j].nth /\ rows[j].state = "QUEUED" /\ rows[j].tries = 0
    BY <1>1, <2>1 DEF InTurn
  <2>3. ~(j <= i)
    BY <1>1
  <2> QED BY <2>1, <2>2, <2>3
<1> QED BY <1>3, <1>4

\* The executor goes on with the row it has, or has none.
LEMMA HeadStays ==
  ASSUME TypeOK, Order, Holds', rows' \in [Op -> Row],
         \A i \in Live' : i \in Live \/ \A k \in Live : k <= i,
         exec'.phase # "idle" => exec.phase # "idle" /\ exec'.op = exec.op
  PROVE  HeadFirst'
<1> SUFFICES ASSUME exec'.phase # "idle"
             PROVE  exec.op \in Live' /\ \A i \in Live' : exec.op <= i
  BY DEF HeadFirst
<1>1. exec.op \in Live /\ \A i \in Live : exec.op <= i
  BY DEF Order, HeadFirst
<1>2. exec.op \in Op /\ rows'[exec.op].state \in ActiveStates
  BY DEF Holds, InHand
<1> QED BY <1>1, <1>2 DEF Live

\* The bases of rows that keep theirs, or take one that was seen.
LEMMA BasesStay ==
  ASSUME TypeOK, Sane, Order, Onward, rows' \in [Op -> Row],
         \A i \in Op : rows'[i].state # "NONE" =>
           \/ /\ rows[i].state # "NONE" /\ rows'[i].base = rows[i].base
              /\ rows'[i].nth = rows[i].nth
           \/ rows'[i].base = 0 \/ SeenBy(rows[i].nth, rows[i].base)'
  PROVE  RowBasesSeen'
<1> SUFFICES ASSUME NEW i \in Op, rows'[i].state # "NONE"
             PROVE  rows'[i].base = 0 \/ SeenBy(rows[i].nth, rows[i].base)'
  BY DEF RowBasesSeen
<1>1. CASE /\ rows[i].state # "NONE" /\ rows'[i].base = rows[i].base
           /\ rows'[i].nth = rows[i].nth
  <2>1. rows \in [Op -> Row] /\ RowsFiled /\ RowBasesSeen
    BY DEF TypeOK, Sane, Order
  <2>2. PICK nth \in Nat, base \in Nat : nth = rows[i].nth /\ base = rows[i].base
    BY <2>1, RowNumbers
  <2>3. nth <= Filings /\ (base = 0 \/ SeenBy(nth, base))
    BY <1>1, <2>1, <2>2 DEF RowsFiled, RowBasesSeen
  <2>4. SeenBy(nth, base) => SeenBy(nth, base)'
    BY <2>3, SeenStays
  <2>5. SeenBy(nth, base)' => SeenBy(rows[i].nth, rows[i].base)'
    BY <1>1, <2>2 DEF SeenBy
  <2> QED BY <1>1, <2>2, <2>3, <2>4, <2>5
<1> QED BY <1>1

LEMMA HandBaseStays ==
  ASSUME TypeOK, Sane, Order, Onward,
         InHand' /\ exec'.phase \notin {"amend", "settle"} =>
           /\ InHand /\ exec.phase \notin {"amend", "settle"}
           /\ exec'.nth = exec.nth /\ exec'.base = exec.base
  PROVE  HandBaseSeen'
<1> SUFFICES ASSUME InHand', exec'.phase \notin {"amend", "settle"}
             PROVE  exec'.base = 0 \/ SeenBy(exec.nth, exec.base)'
  BY DEF HandBaseSeen
<1>1. InHand /\ exec'.nth = exec.nth /\ exec'.base = exec.base
      /\ (exec.base = 0 \/ SeenBy(exec.nth, exec.base)) /\ exec \in Executor
  BY DEF HandBaseSeen, Order, TypeOK
<1>2. PICK nth \in Nat, base \in Nat : nth = exec.nth /\ base = exec.base
  BY <1>1 DEF Executor
<1>3. nth <= Filings
  BY <1>1, <1>2, HandFair
<1>4. SeenBy(nth, base) => SeenBy(nth, base)'
  BY <1>3, SeenStays
<1>5. SeenBy(nth, base)' => SeenBy(exec.nth, exec.base)'
  BY <1>1, <1>2 DEF SeenBy
<1> QED BY <1>1, <1>2, <1>4, <1>5

\* Late requests and lists that are only carried on stay fair.
LEMMA FairCarried ==
  ASSUME TypeOK, Onward, Order,
         \A R : Carries(R) /\ LandedStays(R) => Carries(R)',
         \A r \in late' : r \in late \/ (r \in Requests /\ Fair(r)),
         exec'.phase = "amend" => exec.phase = "amend" /\ OwnAmend' = OwnAmend /\ OwnAmend \in Requests
  PROVE  AllFair'
<1>1. PICK R : R = FairOnes' /\ FairOnes \subseteq R /\ LandedStays(R)
  BY FairLists
<1>2. Carries(FairOnes) /\ late \subseteq Requests
  BY DEF Order, AllFair, TypeOK
<1>3. Carries(R)'
  BY <1>1, <1>2, CarriedOver
<1>4. Carries(FairOnes)'
  BY <1>1, <1>3 DEF Carries
<1>5. ASSUME NEW r \in Requests, Fair(r) PROVE Fair(r)'
  <2>1. r.nth \in Nat /\ BaseOf(r) \in Nat
    BY DEF Requests, BaseOf, Keys
  <2> QED BY <1>5, <2>1, FairStays
<1>6. ASSUME NEW r \in late' PROVE Fair(r)'
  BY <1>2, <1>5 DEF Order, AllFair
<1>7. ASSUME exec'.phase = "amend" PROVE Fair(OwnAmend)'
  <2>1. PICK r \in Requests : r = OwnAmend /\ Fair(r)
    BY <1>7 DEF Order, AllFair
  <2>2. Fair(r)' /\ r = OwnAmend'
    BY <1>5, <1>7, <2>1
  <2> QED BY <2>2 DEF Fair, IsPost, BaseOf
<1> QED BY <1>4, <1>6, <1>7 DEF AllFair

-----------------------------------------------------------------------------
(* The order is kept by each step.                                          *)

LinePart ==
  Onward /\ InTurn' /\ HeadFirst' /\ RowBasesSeen' /\ HandBaseSeen' /\ AllFair'

\* A table whose rows keep what they say, under an executor that goes on or rests.
LEMMA LineStays ==
  ASSUME TypeOK, Sane, Order, Grown, Holds', forms' = forms, rows' \in [Op -> Row],
         \A i \in Op : /\ SameReturn(rows[i], rows'[i])
                       /\ rows'[i].state = rows[i].state /\ rows'[i].tries = rows[i].tries,
         exec'.phase # "idle" => exec.phase # "idle" /\ exec'.op = exec.op
  PROVE  Onward /\ InTurn' /\ HeadFirst' /\ RowBasesSeen'
<1>1. \A i \in Live' : /\ i \in Live /\ rows'[i].nth = rows[i].nth
                       /\ rows'[i].state = rows[i].state /\ rows'[i].tries = rows[i].tries
  BY DEF Live, SameReturn, Filings
<1>2. Onward /\ InTurn' /\ Live' \subseteq Live
  BY <1>1, LineShrinks
<1>3. HeadFirst'
  BY <1>2, HeadStays
<1>4. RowBasesSeen'
  BY <1>2, BasesStay DEF SameReturn
<1> QED BY <1>2, <1>3, <1>4

\* A request that is fair is remembered as one.
LEMMA FairRemembered ==
  ASSUME TypeOK, Onward, NEW R, R = FairOnes', NEW q \in Requests, Fair(q), Remembered(q, 0) \in Memories
  PROVE  Fair(q)' /\ Remembered(q, 0) \in R
<1>1. q.nth \in Nat /\ BaseOf(q) \in Nat
  BY DEF Requests, BaseOf, Keys
<1>2. Fair(q)'
  BY <1>1, FairStays
<1> DEFINE m == Remembered(q, 0)
<1>3. m \in Memories /\ m.key = q.key /\ m.nth = q.nth
  BY DEF Remembered
<1> HIDE DEF m
<1>4. Fair(m)'
  BY <1>2, <1>3 DEF Fair, IsPost, BaseOf
<1>5. R = {p \in Memories : Fair(p)'}
  BY DEF FairOnes
<1> QED BY <1>2, <1>3, <1>4, <1>5 DEF m

LEMMA LineWorks ==
  ASSUME TypeOK, Sane, Order, Grown, Holds', Works, UNCHANGED <<forms, seen>>,
         \A r \in late' : r \in late \/ (exec.phase \in Asking /\ r = OnWire)
  PROVE  LinePart
<1>1. /\ rows' \in [Op -> Row] /\ exec' \in Executor /\ exec \in Executor
      /\ \A i \in Op : /\ SameReturn(rows[i], rows'[i])
                       /\ rows'[i].state = rows[i].state /\ rows'[i].tries = rows[i].tries
      /\ InHand /\ exec'.op = exec.op /\ exec'.fig = exec.fig /\ exec'.nth = exec.nth
      /\ rows \in [Op -> Row] /\ Holds /\ RowsFiled /\ day \in Seq(VersionType)
      /\ late \subseteq Requests
  BY DEF Works, Quiet, TypeOK, Sane, VersionType
<1>2. exec.phase # "idle"
  BY <1>1 DEF InHand
<1>3. Onward /\ InTurn' /\ HeadFirst' /\ RowBasesSeen'
  BY <1>1, <1>2, LineStays
<1>4. HandBaseSeen'
  <2>1. exec'.phase \notin {"amend", "settle"} => exec.phase \notin {"amend", "settle"}
    BY DEF Works
  <2> QED BY <1>1, <1>3, <2>1, HandBaseStays DEF Works
<1>5. PICK R : R = FairOnes' /\ FairOnes \subseteq R /\ LandedStays(R)
  BY <1>3, FairLists
<1>7. ASSUME NEW q \in Requests, Fair(q), Remembered(q, 0) \in Memories
      PROVE  Fair(q)' /\ Remembered(q, 0) \in R
  BY <1>3, <1>5, <1>7, FairRemembered
<1>8. Remembered(OwnPost, 0) \in R
  <2>1. OwnPost \in Requests /\ Fair(OwnPost) /\ Remembered(OwnPost, 0) \in Memories
    BY <1>1, HandFair, OwnRequests
  <2>2. PICK q \in Requests : q = OwnPost
    BY <2>1
  <2> QED BY <1>7, <2>1, <2>2
<1>9. ASSUME exec'.phase = "amend"
      PROVE  /\ Remembered(Request(AmendKey(exec.op, exec'.base, exec.fig), exec.fig, exec.nth), 0) \in R
             /\ Fair(OwnAmend)'
  <2>1. /\ day # <<>> /\ exec'.base = Version(day)
        /\ exec'.base = exec.base \/ day[exec'.base].by = "crew"
        /\ exec.phase \in {"read", "reread"}
    BY <1>9 DEF Works
  <2>2. PICK b \in Nat : b = exec'.base /\ b = Version(day)
    BY <1>1, <2>1 DEF Version
  <2> DEFINE a == Request(AmendKey(exec.op, b, exec.fig), exec.fig, exec.nth)
  <2>3. a \in Requests /\ Remembered(a, 0) \in Memories
    BY <1>1, <2>2, OwnRequests
  <2>4. a.nth = exec.nth /\ BaseOf(a) = b /\ a.key = AmendKey(exec.op, b, exec.fig)
    BY DEF Request, BaseOf, AmendKey
  <2> HIDE DEF a
  <2>5. b \in 1 .. Version(day)
    BY <1>1, <2>1, <2>2 DEF Version
  <2>6. Crew(b) \/ SeenBy(exec.nth, b)
    <3>1. exec.base = 0 \/ SeenBy(exec.nth, exec.base)
      BY <1>1, <2>1 DEF Order, HandBaseSeen
    <3> QED BY <2>1, <2>2, <2>5, <3>1 DEF Crew
  <2>7. \A v \in 1 .. b : Crew(v) => day[v].nth <= exec.nth
    <3>1. exec.op \in Live /\ rows[exec.op].nth = exec.nth
      BY <1>1, <1>2 DEF Order, HeadFirst, Holds
    <3> QED BY <2>2, <3>1 DEF Order, DayBehind
  <2>8. exec.nth <= Filings /\ \A i \in Live : exec.nth <= rows[i].nth
    BY <1>1, HandFair
  <2>9. Fair(a)
    BY <2>4, <2>5, <2>6, <2>7, <2>8 DEF Fair
  <2>10. PICK q \in Requests : q = a
    BY <2>3
  <2>11. Fair(q)' /\ Remembered(q, 0) \in R
    BY <1>7, <2>3, <2>9, <2>10
  <2>12. q = OwnAmend'
    BY <1>1, <2>2, <2>10 DEF OwnAmend, a
  <2>13. Fair(OwnAmend)'
    BY <2>11, <2>12 DEF Fair, IsPost, BaseOf
  <2> QED BY <2>2, <2>10, <2>11, <2>13 DEF a
<1>10. Carries(FairOnes)'
  <2>1. Carries(R)
    BY <1>5, CarriedOver DEF Order, AllFair
  <2>2. exec'.phase = "amend" =>
          Remembered(Request(AmendKey(exec.op, exec'.base, exec.fig), exec.fig, exec.nth), 0) \in R
    BY <1>9
  <2>3. Carries(R)'
    BY <1>5, <1>8, <2>1, <2>2 DEF Works
  <2> QED BY <1>5, <2>3 DEF Carries
<1>11. ASSUME NEW r \in late' PROVE Fair(r)'
  <2>1. r \in Requests /\ Fair(r)
    <3>1. CASE r \in late
      BY <1>1, <3>1 DEF Order, AllFair
    <3>2. CASE exec.phase \in Asking /\ r = OnWire
      BY <3>2, WireFair, OnWireType
    <3> QED BY <3>1, <3>2
  <2>2. r.nth \in Nat /\ BaseOf(r) \in Nat
    BY <2>1 DEF Requests, BaseOf, Keys
  <2> QED BY <1>3, <2>1, <2>2, FairStays
<1>12. AllFair'
  BY <1>9, <1>10, <1>11 DEF AllFair
<1> QED BY <1>3, <1>4, <1>12 DEF LinePart
\* Nothing happens to the rows, or only to the times they wait for.
LEMMA LineWaits ==
  ASSUME TypeOK, Sane, Order, Grown, Holds', forms' = forms, rows' \in [Op -> Row],
         \A i \in Op : /\ SameReturn(rows[i], rows'[i]) /\ rows'[i].prior = rows[i].prior
                       /\ rows'[i].state = rows[i].state /\ rows'[i].tries = rows[i].tries,
         exec' = exec, late' \subseteq late
  PROVE  LinePart
<1>1. Onward /\ InTurn' /\ HeadFirst' /\ RowBasesSeen'
  BY LineStays
<1>2. HandBaseSeen'
  BY <1>1, HandBaseStays DEF InHand
<1>3. \A R : Carries(R) => Carries(R)'
  BY DEF Carries
<1>4. exec.phase = "amend" => OwnAmend' = OwnAmend /\ OwnAmend \in Requests
  <2>1. exec.phase = "amend" => OnWire \in Requests
    BY OnWireType
  <2> QED BY <2>1 DEF OwnAmend, OnWire
<1>5. AllFair'
  BY <1>1, <1>3, <1>4, FairCarried
<1> QED BY <1>1, <1>2, <1>5 DEF LinePart

LEMMA UntouchedLine ==
  ASSUME TypeOK, Sane, Order, Grown, Holds', UNCHANGED <<rows, forms, exec>>, late' \subseteq late
  PROVE  LinePart
<1>1. rows' \in [Op -> Row] /\ \A i \in Op : SameReturn(rows[i], rows'[i])
  BY DEF TypeOK, SameReturn
<1> QED BY <1>1, LineWaits

LEMMA BackoffLine ==
  ASSUME TypeOK, Sane, Order, Grown, Holds', NEW i \in Op, BackoffElapses(i)
  PROVE  LinePart
<1>1. rows \in [Op -> Row] /\ rows[i] \in Row
  BY DEF TypeOK
<1> DEFINE new == [rows[i] EXCEPT !.due = TRUE]
<1>2. rows' = [rows EXCEPT ![i] = new] /\ UNCHANGED <<exec, forms, late>>
  BY <1>1 DEF BackoffElapses
<1>3. new \in Row /\ SameReturn(rows[i], new) /\ new.state = rows[i].state /\ new.tries = rows[i].tries
      /\ new.prior = rows[i].prior
  BY <1>1 DEF Row, SameReturn
<1> HIDE DEF new
<1>4. rows' \in [Op -> Row] /\ rows'[i] = new /\ \A j \in Op \ {i} : rows'[j] = rows[j]
  BY <1>1, <1>2, <1>3
<1>5. \A j \in Op : /\ SameReturn(rows[j], rows'[j]) /\ rows'[j].prior = rows[j].prior
                    /\ rows'[j].state = rows[j].state /\ rows'[j].tries = rows[j].tries
  BY <1>3, <1>4 DEF SameReturn
<1> QED BY <1>2, <1>4, <1>5, LineWaits

\* A failed row that is put back holds the newest filing, so nothing waits behind it.
LEMMA RetryLine ==
  ASSUME TypeOK, Sane, Order, Grown, Holds', NEW i \in Op, Retry(i), ~reopened'
  PROVE  LinePart
<1>1. rows \in [Op -> Row] /\ rows[i] \in Row /\ rows[i].state = "FAILED" /\ rows[i].nth = Filings
      /\ Live \subseteq Op
  BY DEF TypeOK, Retry, MayRetry, Live
<1>2. rows' = [rows EXCEPT ![i] = Retried(rows[i])] /\ UNCHANGED <<exec, forms, late>>
  BY DEF Retry
<1>3. Retried(rows[i]) \in Row /\ SameReturn(rows[i], Retried(rows[i])) /\ Retried(rows[i]).state = "QUEUED"
      /\ Retried(rows[i]).prior = rows[i].prior
  BY <1>1, RowStatements
<1>4. rows' \in [Op -> Row] /\ rows'[i] = Retried(rows[i]) /\ \A j \in Op \ {i} : rows'[j] = rows[j]
  BY <1>1, <1>2, <1>3
<1>5. i \in Live /\ \A k \in Live : i <= k
  <2>1. i \in Live
    BY <1>1 DEF Live
  <2>2. \A k \in Live : ~(k < i)
    BY <1>1, <2>1 DEF Order, InTurn
  <2> QED BY <1>1, <2>1, <2>2
<1>6. \A j \in Live' : j \in Live /\ rows'[j].nth = rows[j].nth /\ (j = i \/ rows'[j] = rows[j])
  BY <1>1, <1>2, <1>3, <1>4, <1>5 DEF Live, SameReturn, Filings
<1>7. Onward /\ InTurn' /\ Live' \subseteq Live
  BY <1>2, <1>4, <1>5, <1>6, LineShrinks
<1>8. HeadFirst'
  BY <1>2, <1>4, <1>7, HeadStays
<1>9. RowBasesSeen'
  <2>1. \A j \in Op : rows'[j].state # "NONE" =>
          rows[j].state # "NONE" /\ rows'[j].base = rows[j].base /\ rows'[j].nth = rows[j].nth
    BY <1>1, <1>3, <1>4 DEF SameReturn
  <2> QED BY <1>4, <1>7, <2>1, BasesStay
<1>10. HandBaseSeen'
  BY <1>2, <1>7, HandBaseStays DEF InHand
<1>11. AllFair'
  <2>1. \A R : Carries(R) => Carries(R)'
    BY <1>2, <1>3, <1>4 DEF Carries
  <2>2. exec.phase = "amend" => OwnAmend' = OwnAmend /\ OwnAmend \in Requests
    <3>1. exec.phase = "amend" => OnWire \in Requests
      BY OnWireType
    <3> QED BY <1>2, <3>1 DEF OwnAmend, OnWire
  <2> QED BY <1>2, <1>7, <2>1, <2>2, FairCarried
<1> QED BY <1>7, <1>8, <1>9, <1>10, <1>11 DEF LinePart

LEMMA DiscardLine ==
  ASSUME TypeOK, Sane, Order, Grown, Holds', NEW i \in Op, Discard(i)
  PROVE  LinePart
<1>1. rows \in [Op -> Row]
  BY DEF TypeOK
<1>2. rows' = [rows EXCEPT ![i] = NoRow] /\ UNCHANGED <<exec, forms, late>>
  BY DEF Discard
<1>4. rows' \in [Op -> Row] /\ rows'[i] = NoRow /\ \A j \in Op \ {i} : rows'[j] = rows[j]
  BY <1>1, <1>2, NoRowType
<1>6. \A j \in Live' : j \in Live /\ rows'[j] = rows[j]
  BY <1>1, <1>2, <1>4, NoRowType DEF Live, Filings
<1>7. Onward /\ InTurn' /\ Live' \subseteq Live
  BY <1>2, <1>4, <1>6, LineShrinks
<1>8. HeadFirst'
  BY <1>2, <1>4, <1>7, HeadStays
<1>9. RowBasesSeen'
  <2>1. \A j \in Op : rows'[j].state # "NONE" =>
          rows[j].state # "NONE" /\ rows'[j].base = rows[j].base /\ rows'[j].nth = rows[j].nth
    BY <1>4, NoRowType
  <2> QED BY <1>4, <1>7, <2>1, BasesStay
<1>10. HandBaseSeen'
  BY <1>2, <1>7, HandBaseStays DEF InHand
<1>11. AllFair'
  <2>1. ASSUME NEW R, Carries(R) PROVE Carries(R)'
    <3>1. NoRow.prior \in Seq(R)
      BY NoRowType
    <3>2. \A j \in Op : rows'[j].prior \in Seq(R)
      BY <1>4, <2>1, <3>1 DEF Carries
    <3> QED BY <1>2, <2>1, <3>2 DEF Carries
  <2>2. exec.phase = "amend" => OwnAmend' = OwnAmend /\ OwnAmend \in Requests
    <3>1. exec.phase = "amend" => OnWire \in Requests
      BY OnWireType
    <3> QED BY <1>2, <3>1 DEF OwnAmend, OnWire
  <2> QED BY <1>2, <1>7, <2>1, <2>2, FairCarried
<1> QED BY <1>7, <1>8, <1>9, <1>10, <1>11 DEF LinePart

\* The flush takes a row only when no older one is active, so the first in line.
LEMMA LookAheadLine ==
  ASSUME TypeOK, Sane, Order, Grown, Holds', NEW i \in Op, LookAhead(i)
  PROVE  LinePart
<1>1. /\ rows \in [Op -> Row] /\ i \in Ready(rows) /\ Ahead(rows, i) = {} /\ PlacesInOrder
      /\ Live \subseteq Op /\ UNCHANGED <<rows, forms, late>> /\ InTurn
      /\ exec' = [Resting EXCEPT !.phase = "checked", !.op = i, !.fig = rows[i].fig, !.nth = rows[i].nth]
  BY DEF TypeOK, Sane, LookAhead, Live, Order
<1>2. exec'.phase = "checked" /\ exec'.op = i /\ exec'.prior = <<>> /\ exec'.todo = <<>>
  BY <1>1 DEF Resting
<1>3. i \in Live /\ rows[i].state \in ActiveStates
  BY <1>1 DEF Ready, Live
<1>4. ASSUME NEW k \in Live PROVE i <= k
  <2>1. CASE rows[k].state \in ActiveStates
    <3>1. rows[k].record = TheDay /\ rows[i].record = TheDay
      BY <1>1 DEF Row
    <3>2. rows[k].seq \in Nat /\ rows[i].seq \in Nat
      BY <1>1, RowNumbers
    <3>3. ~(rows[k].seq < rows[i].seq)
      BY <1>1, <2>1, <3>1 DEF Ahead, ActiveOn
    <3>4. ~(k < i)
      BY <1>1, <1>3, <2>1, <3>3 DEF PlacesInOrder
    <3> QED BY <1>1, <3>4
  <2>2. CASE rows[k].state = "FAILED" /\ rows[k].nth = Filings
    <3>1. rows[i].nth \in Nat /\ rows[i].nth <= Filings /\ Filings \in Nat
      <4>1. rows[i].nth \in Nat /\ i \in Op
        BY <1>1, RowNumbers
      <4>2. rows[i].nth <= Filings
        BY <1>3, <4>1 DEF Sane, RowsFiled
      <4> QED BY <4>1, <4>2 DEF Filings, TypeOK
    <3>2. k < i => rows[k].nth < rows[i].nth
      BY <1>1, <1>3 DEF InTurn
    <3>3. ~(k < i)
      BY <2>2, <3>1, <3>2
    <3> QED BY <1>1, <3>3
  <2> QED BY <2>1, <2>2 DEF Live
<1>5. \A j \in Live' : j \in Live /\ rows'[j] = rows[j]
  BY <1>1 DEF Live, Filings
<1>6. Onward /\ InTurn' /\ Live' \subseteq Live
  BY <1>1, <1>5, LineShrinks
<1>7. HeadFirst'
  <2>1. i \in Live'
    BY <1>1, <1>3 DEF Live, Filings
  <2> QED BY <1>2, <1>4, <1>6, <2>1 DEF HeadFirst
<1>8. RowBasesSeen'
  BY <1>1, <1>6, BasesStay
<1>9. HandBaseSeen'
  BY <1>2 DEF HandBaseSeen, InHand
<1>10. AllFair'
  <2>1. ASSUME NEW R, Carries(R) PROVE Carries(R)'
    <3>1. exec'.prior \in Seq(R) /\ exec'.todo \in Seq(R)
      BY <1>2
    <3> QED BY <1>1, <2>1, <3>1 DEF Carries
  <2> QED BY <1>1, <1>2, <1>6, <2>1, FairCarried
<1> QED BY <1>6, <1>7, <1>8, <1>9, <1>10 DEF LinePart

LEMMA ClaimLine ==
  ASSUME TypeOK, Sane, Order, Grown, Holds', Claim
  PROVE  LinePart
<1>1. /\ rows \in [Op -> Row] /\ exec \in Executor /\ exec.phase = "checked" /\ exec.op \in Op /\ Holds
      /\ rows[exec.op].state \in WaitingStates /\ Live \subseteq Op
  BY DEF TypeOK, Sane, Claim, Holds, Live
<1> DEFINE i == exec.op
           row == rows[i]
           new == Claimed(row)
<1>2. row \in Row /\ rows' = [rows EXCEPT ![i] = new] /\ UNCHANGED <<forms, late>>
      /\ exec' = [exec EXCEPT !.phase = "claimed", !.fig = row.fig, !.nth = row.nth,
                              !.prior = Trim(row.prior), !.base = row.base]
  BY <1>1 DEF Claim
<1>3. new \in Row /\ SameReturn(row, new) /\ new.state = "SENDING" /\ new.prior = row.prior
  <2> HIDE DEF row
  <2> QED BY <1>2, RowStatements
<1>4. rows' \in [Op -> Row] /\ rows'[i] = new /\ \A j \in Op \ {i} : rows'[j] = rows[j]
  <2> HIDE DEF new
  <2> QED BY <1>1, <1>2, <1>3
<1>5. /\ exec'.phase = "claimed" /\ exec'.op = i /\ exec'.prior = Trim(row.prior)
      /\ exec'.nth = row.nth /\ exec'.base = row.base /\ exec'.todo = exec.todo
  <2> HIDE DEF row
  <2> QED BY <1>1, <1>2 DEF Executor
<1> HIDE DEF new
<1>6. i \in Live /\ \A k \in Live : i <= k
  BY <1>1 DEF Order, HeadFirst
<1>7. \A j \in Live' : j \in Live /\ rows'[j].nth = rows[j].nth /\ (j = i \/ rows'[j] = rows[j])
  BY <1>1, <1>2, <1>3, <1>4, <1>6 DEF Live, SameReturn, Filings
<1>8. Onward /\ InTurn' /\ Live' \subseteq Live
  BY <1>2, <1>4, <1>6, <1>7, LineShrinks
<1>9. HeadFirst'
  BY <1>1, <1>4, <1>5, <1>8, HeadStays
<1>10. \A j \in Op : rows'[j].state # "NONE" =>
         rows[j].state # "NONE" /\ rows'[j].base = rows[j].base /\ rows'[j].nth = rows[j].nth
  BY <1>1, <1>3, <1>4 DEF SameReturn
<1>11. RowBasesSeen'
  BY <1>4, <1>8, <1>10, BasesStay
<1>12. HandBaseSeen'
  <2>1. rows'[i].state # "NONE" /\ rows'[i].base = exec'.base /\ rows'[i].nth = exec'.nth
    BY <1>3, <1>4, <1>5 DEF SameReturn
  <2>2. rows'[i].base = 0 \/ SeenBy(rows[i].nth, rows[i].base)'
    BY <1>1, <1>5, <1>11, <2>1 DEF RowBasesSeen
  <2>3. exec'.base = 0 \/ SeenBy(exec.nth, exec.base)'
    BY <2>1, <2>2, <1>5 DEF SeenBy
  <2> QED BY <2>3 DEF HandBaseSeen
<1>13. AllFair'
  <2>1. ASSUME NEW R, Carries(R) PROVE Carries(R)'
    <3>1. row.prior \in Seq(R) /\ exec.todo \in Seq(R)
      BY <1>1, <2>1 DEF Carries
    <3>2. Trim(row.prior) \in Seq(R)
      <4> HIDE DEF row
      <4> QED BY <3>1, TrimKeeps
    <3>3. \A j \in Op : rows'[j].prior \in Seq(R)
      BY <1>3, <1>4, <2>1, <3>1 DEF Carries
    <3> HIDE DEF row
    <3> QED BY <1>5, <3>1, <3>2, <3>3 DEF Carries
  <2> QED BY <1>2, <1>5, <1>8, <2>1, FairCarried
<1> QED BY <1>8, <1>9, <1>11, <1>12, <1>13 DEF LinePart

LEMMA RestartLine ==
  ASSUME TypeOK, Sane, Order, Grown, Holds', Restart
  PROVE  LinePart
<1>1. rows \in [Op -> Row] /\ Live \subseteq Op /\ late \subseteq Requests
  BY DEF TypeOK, Live
<1>2. /\ rows' = Recovered(rows) /\ exec' = Resting /\ UNCHANGED forms
      /\ late' = IF exec.phase \in Asking THEN late \cup {OnWire} ELSE late
  BY DEF Restart
<1>3. /\ rows' \in [Op -> Row]
      /\ \A i \in Op : /\ SameReturn(rows[i], rows'[i]) /\ rows'[i].prior = rows[i].prior
                       /\ rows'[i].tries = rows[i].tries
                       /\ rows'[i].state = IF rows[i].state = "SENDING" THEN "QUEUED" ELSE rows[i].state
  BY <1>1, <1>2, RecoveredShape
<1>4. \A i \in Live' : /\ i \in Live /\ rows'[i].nth = rows[i].nth /\ rows'[i].tries = rows[i].tries
                       /\ rows[i].state = "QUEUED" => rows'[i].state = "QUEUED"
  BY <1>2, <1>3 DEF Live, SameReturn, Filings
<1>5. Onward /\ InTurn' /\ Live' \subseteq Live
  BY <1>2, <1>3, <1>4, LineShrinks
<1>6. HeadFirst' /\ HandBaseSeen'
  BY <1>2, RestingType DEF HeadFirst, HandBaseSeen, InHand
<1>7. RowBasesSeen'
  BY <1>3, <1>5, BasesStay DEF SameReturn
<1>8. AllFair'
  <2>1. ASSUME NEW R, Carries(R) PROVE Carries(R)'
    BY <1>2, <1>3, <2>1, RestingType DEF Carries
  <2>2. \A r \in late' : r \in late \/ (r \in Requests /\ Fair(r))
    BY <1>2, OnWireType, WireFair
  <2>3. exec'.phase # "amend"
    BY <1>2, RestingType
  <2> QED BY <1>5, <2>1, <2>2, <2>3, FairCarried
<1> QED BY <1>5, <1>6, <1>7, <1>8 DEF LinePart

LEMMA SettleLine ==
  ASSUME TypeOK, Sane, Order, Grown, Holds', Settle
  PROVE  LinePart
<1>1. /\ rows \in [Op -> Row] /\ exec \in Executor /\ RowsFiled /\ Holds /\ exec.phase = "settle" /\ InHand
      /\ Live \subseteq Op /\ UNCHANGED <<forms, late>> /\ RowBasesSeen /\ InTurn
  BY DEF TypeOK, Sane, Settle, InHand, Live, Order
<1>2. /\ exec' = Resting /\ exec.op \in Op /\ rows[exec.op].state = "SENDING"
      /\ \/ /\ Behind = {}
            /\ rows' = [rows EXCEPT ![exec.op] = Settlement(rows[exec.op], exec.verdict)]
         \/ \E newer \in Behind, prior \in Lists, base \in Nat, left \in Row :
              /\ newer \in Op /\ newer # exec.op /\ rows[newer].state \in WaitingStates
              /\ base = rows[newer].base \/ base = rows[exec.op].base
              /\ \A R : Carries(R) /\ OldPost(exec.op) \in R => prior \in Seq(R)
              /\ \/ exec.verdict = "TRANSPORT" /\ left = NoRow
                 \/ exec.verdict # "TRANSPORT" /\ left = Settlement(rows[exec.op], exec.verdict)
              /\ rows' = [rows EXCEPT ![newer] = Told(rows[newer], prior, base), ![exec.op] = left]
  BY <1>1, SettleCases
<1> DEFINE i == exec.op
           row == rows[i]
           settled == Settlement(row, exec.verdict)
<1>3. row \in Row /\ exec.verdict \in Verdicts
  BY <1>1, <1>2 DEF Executor
<1>4. /\ settled \in Row /\ SameReturn(row, settled)
      /\ settled.prior = row.prior \/ settled.prior = <<>>
      /\ settled.state \in {"SUCCEEDED", "FAILED", "BACKOFF"}
  <2> HIDE DEF row
  <2> QED BY <1>3, SettledRow
<1> HIDE DEF settled
<1>5. i \in Live /\ \A k \in Live : i <= k
  BY <1>1 DEF Order, HeadFirst
<1>6. HeadFirst' /\ HandBaseSeen' /\ exec'.phase # "amend" /\ exec'.prior = <<>> /\ exec'.todo = <<>>
  BY <1>2, RestingType DEF HeadFirst, HandBaseSeen, InHand
<1>7. CASE rows' = [rows EXCEPT ![i] = settled]
  <2>1. rows' \in [Op -> Row] /\ rows'[i] = settled /\ \A j \in Op \ {i} : rows'[j] = rows[j]
    BY <1>1, <1>2, <1>4, <1>7
  <2>2. \A j \in Live' : j \in Live /\ rows'[j].nth = rows[j].nth /\ (j = i \/ rows'[j] = rows[j])
    BY <1>1, <1>4, <1>5, <2>1 DEF Live, SameReturn, Filings
  <2>3. Onward /\ InTurn' /\ Live' \subseteq Live
    BY <1>1, <1>5, <2>1, <2>2, LineShrinks
  <2>4. \A j \in Op : rows'[j].state # "NONE" =>
          rows[j].state # "NONE" /\ rows'[j].base = rows[j].base /\ rows'[j].nth = rows[j].nth
    BY <1>2, <1>4, <2>1 DEF SameReturn
  <2>5. RowBasesSeen'
    BY <2>1, <2>3, <2>4, BasesStay
  <2>6. ASSUME NEW R, Carries(R) PROVE Carries(R)'
    <3>1. settled.prior \in Seq(R) /\ <<>> \in Seq(R)
      <4>1. row.prior \in Seq(R)
        BY <1>2, <2>6 DEF Carries
      <4>2. <<>> \in Seq(R)
        OBVIOUS
      <4> QED BY <1>4, <4>1, <4>2
    <3>2. \A j \in Op : rows'[j].prior \in Seq(R)
      BY <2>1, <2>6, <3>1 DEF Carries
    <3> QED BY <1>6, <3>1, <3>2 DEF Carries
  <2>7. AllFair'
    BY <1>1, <1>6, <2>3, <2>6, FairCarried
  <2> QED BY <1>6, <2>3, <2>5, <2>7 DEF LinePart
<1>8. ASSUME NEW newer \in Op, NEW prior \in Lists, NEW base \in Nat, NEW left \in Row,
             newer # i, rows[newer].state \in WaitingStates, left = NoRow \/ left = settled,
             base = rows[newer].base \/ base = row.base,
             \A R : Carries(R) /\ OldPost(i) \in R => prior \in Seq(R),
             rows' = [rows EXCEPT ![newer] = Told(rows[newer], prior, base), ![i] = left]
      PROVE  LinePart
  <2> DEFINE old == rows[newer]
             told == Told(old, prior, base)
  <2>1. /\ told \in Row /\ told.state = old.state /\ told.tries = old.tries /\ told.base = base
        /\ told.nth = old.nth /\ told.prior = prior
    <3>1. old \in Row
      BY <1>1
    <3> HIDE DEF old
    <3> QED BY <3>1, ToldRow
  <2> HIDE DEF told
  <2>2. rows' = [rows EXCEPT ![newer] = told, ![i] = left]
    BY <1>8 DEF told
  <2>3. /\ rows' \in [Op -> Row] /\ rows'[newer] = told /\ rows'[i] = left
        /\ \A j \in Op \ {i, newer} : rows'[j] = rows[j]
    BY <1>1, <1>2, <1>8, <2>1, <2>2
  <2>4. left.state # "NONE" => SameReturn(row, left)
    BY <1>4, <1>8, NoRowType
  <2>5. \A j \in Live' : j \in Live /\ rows'[j].nth = rows[j].nth
                         /\ (j = i \/ (rows'[j].state = rows[j].state /\ rows'[j].tries = rows[j].tries))
    <3> SUFFICES ASSUME NEW j \in Live'
                 PROVE  j \in Live /\ rows'[j].nth = rows[j].nth
                        /\ (j = i \/ (rows'[j].state = rows[j].state /\ rows'[j].tries = rows[j].tries))
      OBVIOUS
    <3>1. CASE j = i
      <4>1. left.state # "NONE"
        BY <2>3, <3>1 DEF Live
      <4> QED BY <1>5, <2>3, <2>4, <3>1, <4>1 DEF SameReturn
    <3>2. CASE j = newer
      BY <1>8, <2>1, <2>3, <3>2 DEF Live
    <3>3. CASE j \notin {i, newer}
      BY <1>1, <2>3, <3>3 DEF Live, Filings
    <3> QED BY <3>1, <3>2, <3>3
  <2>6. Onward /\ InTurn' /\ Live' \subseteq Live
    BY <1>1, <1>5, <2>3, <2>5, LineShrinks
  <2>7. base = 0 \/ SeenBy(old.nth, base)
    <3>1. newer \in Live /\ i < newer
      BY <1>1, <1>5, <1>8 DEF Live
    <3>2. row.nth < old.nth
      BY <1>1, <1>5, <3>1 DEF InTurn
    <3>3. row.nth \in Nat /\ old.nth \in Nat
      BY <1>1, <1>3, RowNumbers
    <3>4. CASE base = old.base
      BY <1>1, <1>8, <3>4 DEF RowBasesSeen
    <3>5. CASE base = row.base
      <4>1. row.base = 0 \/ SeenBy(row.nth, row.base)
        BY <1>1, <1>2 DEF RowBasesSeen
      <4> QED BY <3>2, <3>3, <3>5, <4>1 DEF SeenBy
    <3> QED BY <1>8, <3>4, <3>5
  <2>8. RowBasesSeen'
    <3>1. PICK nth \in Nat : nth = old.nth /\ nth <= Filings
      BY <1>1, <1>8, RowNumbers DEF RowsFiled
    <3>2. SeenBy(nth, base) => SeenBy(nth, base)'
      BY <2>6, <3>1, SeenStays
    <3>3. rows'[newer].base = 0 \/ SeenBy(rows[newer].nth, rows[newer].base)'
      BY <2>1, <2>3, <2>7, <3>1, <3>2 DEF SeenBy
    <3>4. \A j \in Op \ {newer} : rows'[j].state # "NONE" =>
            rows[j].state # "NONE" /\ rows'[j].base = rows[j].base /\ rows'[j].nth = rows[j].nth
      BY <1>2, <2>3, <2>4 DEF SameReturn
    <3> QED BY <2>3, <2>6, <3>3, <3>4, BasesStay
  <2>9. PICK R : R = FairOnes' /\ FairOnes \subseteq R /\ LandedStays(R)
    BY <2>6, FairLists
  <2>10. Carries(R)
    BY <2>9, CarriedOver DEF Order, AllFair
  <2>11. OldPost(i) \in R
    <3>1. OldPost(i) = Remembered(OwnPost, 0)
      BY <1>1 DEF Holds, OldPost, OwnPost
    <3>2. OwnPost \in Requests /\ Remembered(OwnPost, 0) \in Memories /\ Fair(OwnPost)
      BY <1>1, OwnRequests, HandFair
    <3>3. PICK q \in Requests : q = OwnPost
      BY <3>2
    <3> QED BY <2>6, <2>9, <3>1, <3>2, <3>3, FairRemembered
  <2>12. Carries(R)'
    <3>1. left.prior \in Seq(R)
      <4>1. row.prior \in Seq(R)
        BY <1>2, <2>10 DEF Carries
      <4>2. <<>> \in Seq(R)
        OBVIOUS
      <4> QED BY <1>4, <1>8, <4>1, <4>2, NoRowType
    <3>2. prior \in Seq(R)
      BY <1>8, <2>10, <2>11
    <3>3. \A j \in Op : rows'[j].prior \in Seq(R)
      BY <2>1, <2>3, <2>10, <3>1, <3>2 DEF Carries
    <3>4. exec'.prior \in Seq(R) /\ exec'.todo \in Seq(R)
      BY <1>6
    <3> QED BY <3>3, <3>4 DEF Carries
  <2>13. \A r \in late' : Fair(r)'
    <3> SUFFICES ASSUME NEW r \in late PROVE Fair(r)'
      BY <1>1
    <3>1. r \in Requests /\ Fair(r)
      BY DEF TypeOK, Order, AllFair
    <3>2. r.nth \in Nat /\ BaseOf(r) \in Nat
      BY <3>1 DEF Requests, BaseOf, Keys
    <3> QED BY <2>6, <3>1, <3>2, FairStays
  <2>14. AllFair'
    BY <1>6, <2>9, <2>12, <2>13 DEF AllFair, Carries
  <2> QED BY <1>6, <2>6, <2>8, <2>14 DEF LinePart
<1> QED BY <1>2, <1>7, <1>8 DEF settled

\* What a filing does to the line, wherever it goes: the newest row says it.
LEMMA FiledLine ==
  ASSUME TypeOK, Sane, Order, Grown, Holds', UNCHANGED <<exec, seen, late>>,
         Filings + 1 \in Op, forms' = Append(forms, seen), Filings' = Filings + 1,
         NEW k \in Op, NEW new \in Row, rows' = [rows EXCEPT ![k] = new],
         k <= Filings + 1, new.nth = Filings + 1, new.state \in WaitingStates,
         \A i \in Op : rows[i].state \in ActiveStates => i <= k,
         \A i \in Live : i < k => new.state = "QUEUED" /\ new.tries = 0,
         \/ new.base = seen
         \/ \E old \in Op : rows[old].state # "NONE" /\ new.base = rows[old].base
  PROVE  /\ Onward /\ InTurn' /\ HeadFirst' /\ RowBasesSeen' /\ HandBaseSeen'
         /\ \A i \in Live' : i = k \/ (i \in Live /\ rows[i].state \in ActiveStates /\ rows'[i] = rows[i])
<1>1. /\ rows \in [Op -> Row] /\ forms \in Seq(Nat) /\ RowsFiled /\ Live \subseteq Op /\ Live' \subseteq Op
      /\ Filings \in Nat /\ InTurn /\ RowBasesSeen
  BY DEF TypeOK, Sane, Live, Filings, Order
<1>2. rows' \in [Op -> Row] /\ rows'[k] = new /\ \A i \in Op \ {k} : rows'[i] = rows[i]
  BY <1>1
<1>3. (\A m \in 1 .. Filings : forms'[m] = forms[m]) /\ forms'[Filings + 1] = seen
  BY <1>1 DEF Filings
<1>4. ASSUME NEW i \in Live', i # k
      PROVE  i \in Live /\ rows[i].state \in ActiveStates /\ rows'[i] = rows[i] /\ i < k
             /\ rows[i].nth \in Nat /\ rows[i].nth <= Filings
  <2>1. i \in Op /\ rows'[i] = rows[i]
    BY <1>1, <1>2, <1>4
  <2>2. rows[i].state # "NONE" => rows[i].nth \in Nat /\ rows[i].nth <= Filings
    BY <1>1, <2>1, RowNumbers DEF RowsFiled
  <2>3. rows[i].state \in ActiveStates
    BY <1>1, <2>1, <2>2 DEF Live
  <2>4. i < k
    BY <1>4, <2>1, <2>3
  <2> QED BY <2>1, <2>2, <2>3, <2>4 DEF Live
<1>5. k \in Live'
  BY <1>2 DEF Live
<1>6. Onward
  <2>1. ASSUME NEW i \in Live'
        PROVE  rows'[i].nth = Filings' \/ (i \in Live /\ rows[i].nth <= rows'[i].nth)
    BY <1>2, <1>4
  <2>2. Filings' \in Nat /\ Filings <= Filings'
    BY <1>1
  <2>3. \A m \in 1 .. Filings : forms'[m] = forms[m]
    BY <1>3
  <2> QED BY <1>1, <1>2, <2>1, <2>2, <2>3, Zenon DEF Onward
<1>7. InTurn'
  <2> SUFFICES ASSUME NEW i \in Live', NEW j \in Live', i < j
               PROVE  rows'[i].nth < rows'[j].nth /\ rows'[j].state = "QUEUED" /\ rows'[j].tries = 0
    BY DEF InTurn
  <2>1. i # k
    <3> SUFFICES ASSUME i = k PROVE FALSE
      OBVIOUS
    <3>1. j < k /\ j \in Op /\ k < j
      BY <1>1, <1>4
    <3> QED BY <3>1
  <2>2. i \in Live /\ rows'[i] = rows[i] /\ i < k /\ rows[i].nth \in Nat /\ rows[i].nth <= Filings
    BY <1>4, <2>1
  <2>3. CASE j = k
    BY <1>1, <1>2, <2>2, <2>3
  <2>4. CASE j # k
    <3>1. j \in Live /\ rows'[j] = rows[j]
      BY <1>4, <2>4
    <3> QED BY <1>1, <2>2, <3>1 DEF InTurn
  <2> QED BY <2>3, <2>4
<1>8. HeadFirst'
  <2> SUFFICES ASSUME exec.phase # "idle" PROVE exec.op \in Live' /\ \A i \in Live' : exec.op <= i
    BY DEF HeadFirst
  <2>1. exec.op \in Live /\ \A i \in Live : exec.op <= i
    BY DEF Order, HeadFirst
  <2>2. exec.op \in Op /\ rows'[exec.op].state \in ActiveStates /\ rows[exec.op].state \in ActiveStates
    BY DEF Holds, InHand, Sane
  <2>3. exec.op \in Live' /\ exec.op <= k
    BY <2>2 DEF Live
  <2> QED BY <1>4, <2>1, <2>3
<1>9. new.base = 0 \/ SeenBy(new.nth, new.base)'
  <2>1. CASE new.base = seen
    BY <1>1, <1>3, <2>1 DEF SeenBy
  <2>2. ASSUME NEW old \in Op, rows[old].state # "NONE", new.base = rows[old].base
        PROVE  new.base = 0 \/ SeenBy(new.nth, new.base)'
    <3>1. PICK nth \in Nat : nth = rows[old].nth /\ nth <= Filings
      BY <1>1, <2>2, RowNumbers DEF RowsFiled
    <3>2. new.base = 0 \/ SeenBy(nth, new.base)
      BY <1>1, <2>2, <3>1 DEF RowBasesSeen
    <3>3. SeenBy(nth, new.base) => SeenBy(nth, new.base)'
      BY <1>6, <3>1, SeenStays
    <3>4. SeenBy(nth, new.base)' => SeenBy(new.nth, new.base)'
      <4>1. 1 .. nth \subseteq 1 .. new.nth
        BY <1>1, <3>1
      <4> QED BY <4>1, Zenon DEF SeenBy
    <3> QED BY <3>2, <3>3, <3>4
  <2> QED BY <2>1, <2>2
<1>10. RowBasesSeen'
  <2> SUFFICES ASSUME NEW i \in Op, rows'[i].state # "NONE"
               PROVE  rows'[i].base = 0 \/ SeenBy(rows[i].nth, rows[i].base)'
    BY DEF RowBasesSeen
  <2>1. CASE i = k
    BY <1>2, <1>9, <2>1 DEF SeenBy
  <2>2. CASE i # k
    <3>1. rows'[i] = rows[i] /\ (rows[i].base = 0 \/ SeenBy(rows[i].nth, rows[i].base))
      BY <1>1, <1>2, <2>2 DEF RowBasesSeen
    <3>2. PICK nth \in Nat, base \in Nat : nth = rows[i].nth /\ base = rows[i].base /\ nth <= Filings
      BY <1>1, <3>1, RowNumbers DEF RowsFiled
    <3>3. SeenBy(nth, base) => SeenBy(nth, base)'
      BY <1>6, <3>2, SeenStays
    <3>4. SeenBy(nth, base)' => SeenBy(rows[i].nth, rows[i].base)'
      BY <3>1, <3>2 DEF SeenBy
    <3> QED BY <3>1, <3>2, <3>3, <3>4
  <2> QED BY <2>1, <2>2
<1>11. HandBaseSeen'
  BY <1>6, HandBaseStays DEF InHand
<1> QED BY <1>4, <1>6, <1>7, <1>8, <1>10, <1>11

LEMMA FileLine ==
  ASSUME TypeOK, Sane, Order, Grown, Holds', NEW fig \in Figures, File(fig)
  PROVE  LinePart
<1>1. /\ rows \in [Op -> Row] /\ forms \in Seq(Nat) /\ seen \in Nat /\ RowsFiled /\ PlacesInOrder
      /\ Live \subseteq Op /\ InTurn /\ Filings \in Nat
  BY DEF TypeOK, Sane, Version, Live, Order, Filings
<1>2. UNCHANGED <<exec, seen, late>>
  BY DEF File
<1> DEFINE n == Filings + 1
<1>3. /\ n \in Op /\ forms' = Append(forms, seen) /\ Filings' = n
      /\ rows[n].state = "NONE"
      /\ \/ Alone(fig, n)
         \/ \E old \in Op, prior \in Lists : \E base \in {seen, rows[old].base} :
              /\ rows[old].state \in ActiveStates
              /\ \A i \in Op : rows[i].state \in ActiveStates => rows[i].seq <= rows[old].seq
              /\ \A R : Carries(R) /\ (MaySent(rows[old]) => OldPost(old) \in R) => prior \in Seq(R)
              /\ FoldedInto(old, fig, n, prior, base) \/ QueuedBehind(old, fig, n, prior, base)
  BY <1>1, FileCases DEF Filings
<1>4. \A i \in Op : rows[i].state # "NONE" => i <= Filings /\ i < n
  <2> SUFFICES ASSUME NEW i \in Op, rows[i].state # "NONE" PROVE i <= Filings /\ i < n
    OBVIOUS
  <2>1. i <= rows[i].nth /\ rows[i].nth <= Filings /\ rows[i].nth \in Nat
    BY <1>1, RowNumbers DEF RowsFiled
  <2> QED BY <1>1, <2>1
<1>5. ASSUME NEW k \in Op, NEW new \in Row, rows' = [rows EXCEPT ![k] = new],
             k <= n, new.nth = n, new.state \in WaitingStates,
             \A i \in Op : rows[i].state \in ActiveStates => i <= k,
             \A i \in Live : i < k => new.state = "QUEUED" /\ new.tries = 0,
             \/ new.base = seen
             \/ \E old \in Op : rows[old].state # "NONE" /\ new.base = rows[old].base,
             \/ new.prior = <<>>
             \/ \E old \in Op : /\ rows[old].state \in ActiveStates
                                /\ \A i \in Op : rows[i].state \in ActiveStates => i <= old
                                /\ \A R : Carries(R) /\ (MaySent(rows[old]) => OldPost(old) \in R)
                                            => new.prior \in Seq(R)
      PROVE  LinePart
  <2>1. /\ Onward /\ InTurn' /\ HeadFirst' /\ RowBasesSeen' /\ HandBaseSeen'
        /\ \A i \in Live' : i = k \/ (i \in Live /\ rows[i].state \in ActiveStates /\ rows'[i] = rows[i])
    BY <1>2, <1>3, <1>5, FiledLine
  <2>2. rows' \in [Op -> Row] /\ rows'[k] = new /\ \A i \in Op \ {k} : rows'[i] = rows[i]
    BY <1>1, <1>5
  <2>3. PICK R : R = FairOnes' /\ FairOnes \subseteq R /\ LandedStays(R)
    BY <2>1, FairLists
  <2>4. Carries(R) /\ R = {p \in Memories : Fair(p)'}
    BY <2>3, CarriedOver DEF Order, AllFair, FairOnes
  <2>5. ASSUME NEW old \in Op, rows[old].state \in ActiveStates, MaySent(rows[old]),
               \A i \in Op : rows[i].state \in ActiveStates => i <= old
        PROVE  OldPost(old) \in R
    <3>1. /\ rows[old] \in Row /\ rows[old].nth \in Nat /\ rows[old].nth <= Filings /\ old \in Live
          /\ rows[old].nth \in Op /\ rows[old].fig \in Figures
      <4>1. rows[old] \in Row /\ rows[old].nth \in Nat /\ rows[old].nth \in Op \cup {0}
        BY <1>1, RowNumbers DEF Row
      <4>2. old <= rows[old].nth /\ rows[old].nth <= Filings /\ rows[old].fig \in Figures
        BY <1>1, <2>5 DEF RowsFiled
      <4> QED BY <2>5, <4>1, <4>2 DEF Live
    <3>2. ASSUME NEW i \in Live' PROVE rows[old].nth <= rows'[i].nth
      <4>1. CASE i = k
        BY <1>1, <1>5, <2>2, <3>1, <4>1
      <4>2. CASE i \in Live /\ rows[i].state \in ActiveStates /\ rows'[i] = rows[i]
        <5>1. i <= old /\ i \in Op
          BY <1>1, <2>5, <4>2
        <5>2. ~(i < old)
          BY <2>5, <3>1, <4>2, <1>1 DEF InTurn, MaySent
        <5>3. i = old
          BY <5>1, <5>2
        <5> QED BY <3>1, <4>2, <5>3
      <4> QED BY <2>1, <4>1, <4>2
    <3> DEFINE p == OldPost(old)
    <3>3. p \in Memories /\ p.nth = rows[old].nth /\ IsPost(p)
      <4>1. PostKey(old) \in Keys /\ PostKey(old)[2] = 0
        BY KeyTypes DEF PostKey
      <4>2. p \in Memories
        BY <3>1, <4>1, RequestTypes DEF OldPost, Memories
      <4>3. p.nth = rows[old].nth /\ p.key = PostKey(old)
        BY DEF OldPost, Remembered, Request
      <4> QED BY <4>1, <4>2, <4>3 DEF IsPost
    <3>4. PICK q \in Memories : q = p
      BY <3>3
    <3>5. q.nth <= Filings' /\ (\A i \in Live' : q.nth <= rows'[i].nth) /\ IsPost(q)
      BY <1>1, <1>3, <3>1, <3>2, <3>3, <3>4
    <3>6. Fair(q)'
      BY <3>5 DEF Fair, IsPost
    <3> QED BY <2>4, <3>4, <3>6
  <2>6. new.prior \in Seq(R)
    <3>1. CASE new.prior = <<>>
      BY <3>1
    <3>2. ASSUME NEW old \in Op, rows[old].state \in ActiveStates,
                 \A i \in Op : rows[i].state \in ActiveStates => i <= old,
                 \A S : Carries(S) /\ (MaySent(rows[old]) => OldPost(old) \in S)
                                            => new.prior \in Seq(S)
          PROVE  new.prior \in Seq(R)
      BY <2>4, <2>5, <3>2
    <3> QED BY <1>5, <3>1, <3>2
  <2>7. Carries(R)'
    <3>1. \A i \in Op : rows'[i].prior \in Seq(R)
      BY <2>2, <2>4, <2>6 DEF Carries
    <3> QED BY <1>2, <2>4, <3>1 DEF Carries
  <2>8. ASSUME NEW r \in Requests, Fair(r) PROVE Fair(r)'
    <3>1. r.nth \in Nat /\ BaseOf(r) \in Nat
      BY DEF Requests, BaseOf, Keys
    <3> QED BY <2>1, <2>8, <3>1, FairStays
  <2>9. \A r \in late' : Fair(r)'
    BY <1>2, <2>8 DEF TypeOK, Order, AllFair
  <2>10. ASSUME exec'.phase = "amend" PROVE Fair(OwnAmend)'
    <3>1. OwnAmend \in Requests /\ Fair(OwnAmend) /\ OwnAmend' = OwnAmend
      BY <1>2, <2>10, OnWireType DEF OnWire, OwnAmend, Order, AllFair
    <3>2. PICK r \in Requests : r = OwnAmend
      BY <3>1
    <3>3. Fair(r)' /\ r = OwnAmend'
      BY <2>8, <3>1, <3>2
    <3> QED BY <3>3 DEF Fair, IsPost, BaseOf
  <2>11. AllFair'
    BY <2>3, <2>7, <2>9, <2>10 DEF AllFair, Carries
  <2> QED BY <2>1, <2>11 DEF LinePart
<1>6. CASE Alone(fig, n)
  <2> DEFINE new == Fresh(fig, n, NextSeq(rows), seen)
  <2>1. NextSeq(rows) \in Nat
    BY <1>1, NextSeqAbove
  <2>2. new \in Row /\ new.state = "QUEUED" /\ new.nth = n /\ new.base = seen /\ new.prior = <<>> /\ new.tries = 0
    <3>1. n \in Op /\ seen \in Nat
      BY <1>1, <1>3
    <3> HIDE DEF n
    <3> QED BY ONLY <2>1, <3>1, fig \in Figures, FreshRow
  <2>3. rows' = [rows EXCEPT ![n] = new]
    BY <1>6 DEF Alone
  <2>4. \A i \in Op : rows[i].state \in ActiveStates => i <= n
    BY <1>1, <1>4
  <2>5. n \in Op /\ n <= n
    BY <1>1, <1>3
  <2> HIDE DEF new, n
  <2> QED BY <1>5, <2>2, <2>3, <2>4, <2>5
<1>7. ASSUME NEW old \in Op, NEW prior \in Lists, NEW base \in {seen, rows[old].base},
             rows[old].state \in ActiveStates,
             \A i \in Op : rows[i].state \in ActiveStates => rows[i].seq <= rows[old].seq,
             \A R : Carries(R) /\ (MaySent(rows[old]) => OldPost(old) \in R) => prior \in Seq(R),
             FoldedInto(old, fig, n, prior, base) \/ QueuedBehind(old, fig, n, prior, base)
      PROVE  LinePart
  <2>1. base \in Nat
    BY <1>1, <1>7, RowNumbers
  <2>2. \A i \in Op : rows[i].state \in ActiveStates => i <= old
    <3> SUFFICES ASSUME NEW i \in Op, rows[i].state \in ActiveStates PROVE ~(old < i)
      OBVIOUS
    <3>1. rows[i].seq \in Nat /\ rows[old].seq \in Nat /\ rows[i].seq <= rows[old].seq
      BY <1>1, <1>7, RowNumbers
    <3> QED BY <1>1, <1>7, <3>1 DEF PlacesInOrder
  <2>3. CASE QueuedBehind(old, fig, n, prior, base)
    <3> DEFINE mid == Fresh(fig, n, NextSeq(rows), seen)
               new == Chaining(mid, prior, base)
    <3>1. NextSeq(rows) \in Nat
      BY <1>1, NextSeqAbove
    <3>2. mid \in Row /\ mid.state = "QUEUED" /\ mid.nth = n /\ mid.tries = 0
      <4>1. n \in Op /\ seen \in Nat
        BY <1>1, <1>3
      <4> HIDE DEF n
      <4> QED BY ONLY <3>1, <4>1, fig \in Figures, FreshRow
    <3>3. /\ new \in Row /\ new.state = "QUEUED" /\ new.nth = n /\ new.base = base
          /\ new.prior = prior /\ new.tries = 0
      <4>1. mid \in Row /\ prior \in Lists /\ base \in Nat
        BY <2>1, <3>2
      <4> HIDE DEF mid, n
      <4> QED BY ONLY <3>2, <4>1, ChainingRow
    <3>4. rows' = [rows EXCEPT ![n] = new]
      BY <2>3 DEF QueuedBehind
    <3> HIDE DEF new
    <3>5. \/ new.base = seen
          \/ \E other \in Op : rows[other].state # "NONE" /\ new.base = rows[other].base
      BY <1>7, <3>3
    <3>6. \A i \in Op : rows[i].state \in ActiveStates => i <= n
      BY <1>1, <1>4
    <3>7. n \in Op /\ n <= n
      BY <1>1, <1>3
    <3> HIDE DEF n
    <3> QED BY <1>5, <1>7, <2>2, <3>3, <3>4, <3>5, <3>6, <3>7
  <2>4. CASE FoldedInto(old, fig, n, prior, base)
    <3> DEFINE row == rows[old]
               new == Folded(row, fig, n, prior, base)
    <3>1. row \in Row /\ row.state \in WaitingStates
      BY <1>1, <2>4 DEF FoldedInto
    <3>2. /\ new \in Row /\ new.state = row.state /\ new.nth = n /\ new.base = base
          /\ new.prior = prior /\ new.tries = row.tries
      <4>1. row \in Row /\ prior \in Lists /\ base \in Nat /\ n \in Op
        BY <1>3, <2>1, <3>1
      <4> HIDE DEF row, n
      <4> QED BY ONLY <4>1, fig \in Figures, FoldedRow
    <3>3. rows' = [rows EXCEPT ![old] = new]
      BY <2>4 DEF FoldedInto
    <3> HIDE DEF new
    <3>4. old <= n
      BY <1>1, <1>4, <3>1
    <3>5. \A i \in Live : i < old => new.state = "QUEUED" /\ new.tries = 0
      <4>1. old \in Live
        BY <1>7 DEF Live
      <4> QED BY <1>1, <3>2, <4>1 DEF InTurn
    <3>6. \/ new.base = seen
          \/ \E other \in Op : rows[other].state # "NONE" /\ new.base = rows[other].base
      BY <1>7, <3>2
    <3> HIDE DEF n, row
    <3> QED BY <1>5, <1>7, <2>2, <3>1, <3>2, <3>3, <3>4, <3>5, <3>6
  <2> QED BY <1>7, <2>3, <2>4
<1> HIDE DEF n
<1> QED BY <1>3, <1>6, <1>7

LEMMA WorkingLine ==
  ASSUME TypeOK, Sane, Order, Grown, Holds', Working
  PROVE  LinePart
<1>1. Works /\ UNCHANGED <<forms, seen>>
  BY WorkingWorks DEF history
<1>2. \A r \in late' : r \in late \/ (exec.phase \in Asking /\ r = OnWire)
  <2>1. CASE Unheard
    BY <2>1 DEF Unheard
  <2>2. CASE SendReturn \/ Answered \/ Invalid \/ ReadDay \/ ReadDayAgain \/ ReadFails
    BY <2>2 DEF SendReturn, Answered, Invalid, ReadDay, ReadDayAgain, ReadFails
  <2> QED BY <2>1, <2>2 DEF Working
<1> QED BY <1>1, <1>2, LineWorks

LEMMA OrderKept ==
  ASSUME TypeOK, Sane, Order, Next, ~reopened'
  PROVE  Order'
<1>1. Holds' /\ Grown
  BY StepKeeps DEF Sane
<1>2. ASSUME Look \/ (\E f \in Figures : SomebodyElseWrites(f)) \/ (\E r \in late : LateArrival(r))
      PROVE  LinePart
  <2>1. UNCHANGED <<rows, forms, exec>> /\ late' \subseteq late
    BY <1>2 DEF Look, SomebodyElseWrites, LateArrival
  <2> QED BY <1>1, <2>1, UntouchedLine
<1>3. LinePart
  BY <1>1, <1>2, StepCases, ClaimLine, SettleLine, RestartLine, WorkingLine, FileLine,
     RetryLine, DiscardLine, LookAheadLine, BackoffLine
<1>4. DayBehind' /\ OverwritesSeen' /\ LandsInOrder'
  BY <1>3, DayInOrder DEF LinePart
<1> QED BY <1>3, <1>4 DEF Order, LinePart

\* Once a failed return has been put back, that is remembered.
LEMMA ReopenedStays == Next /\ reopened => reopened'
<1> SUFFICES ASSUME Next, reopened PROVE reopened'
  OBVIOUS
<1>1. CASE Working
  BY <1>1 DEF Working, SendReturn, Answered, Invalid, Unheard, ReadDay, ReadDayAgain, ReadFails, history
<1>2. CASE Look \/ Claim \/ Settle \/ Restart
  BY <1>2 DEF Look, Claim, Settle, Restart, history
<1>3. CASE \E f \in Figures : File(f) \/ SomebodyElseWrites(f)
  BY <1>3 DEF File, SomebodyElseWrites, history
<1>4. CASE \E i \in Op : Retry(i) \/ Discard(i) \/ LookAhead(i) \/ BackoffElapses(i)
  BY <1>4 DEF Retry, Discard, LookAhead, BackoffElapses, history
<1>5. CASE \E r \in late : LateArrival(r)
  BY <1>5 DEF LateArrival, history
<1> QED BY <1>1, <1>2, <1>3, <1>4, <1>5, StepCases

-----------------------------------------------------------------------------
(* The newest filing.                                                       *)

HasNewest(i) ==
  /\ rows[i].nth = Filings
  /\ \/ rows[i].state \in ActiveStates \cup {"FAILED"}
     \/ /\ rows[i].state = "SUCCEEDED"
        /\ \E v \in 1 .. Version(day) : day[v].fig = rows[i].fig

NewestHeld == Filings > 0 => Filings \in discarded \/ \E i \in Op : HasNewest(i)

LEMMA NewestStays ==
  ASSUME TypeOK, NewestHeld, forms' = forms, discarded \subseteq discarded',
         \A i \in Op : HasNewest(i) => HasNewest(i)' \/ Filings \in discarded'
  PROVE  NewestHeld'
BY DEF NewestHeld, Filings

\* A row that stays as it is still has it, however the day grows.
LEMMA NewestWaits ==
  ASSUME TypeOK, Grown, forms' = forms, NEW i \in Op, HasNewest(i),
         SameReturn(rows[i], rows'[i]),
         rows'[i].state = rows[i].state \/ rows'[i].state \in ActiveStates \cup {"FAILED"}
  PROVE  HasNewest(i)'
<1>1. Version(day) \in Nat
  BY DEF TypeOK, Version
<1>2. rows'[i].nth = Filings' /\ rows'[i].fig = rows[i].fig
  BY DEF HasNewest, SameReturn, Filings
<1>3. ASSUME NEW v \in 1 .. Version(day) PROVE v \in 1 .. Version(day') /\ day'[v] = day[v]
  BY <1>1 DEF Grown
<1> QED BY <1>2, <1>3 DEF HasNewest

LEMMA NewestKept ==
  ASSUME TypeOK, Sane, Order, NewestHeld, Next
  PROVE  NewestHeld'
<1>1. /\ rows \in [Op -> Row] /\ exec \in Executor /\ RowsFiled /\ Holds /\ Grown /\ InTurn /\ Live \subseteq Op
      /\ Filings \in Nat
  BY StepKeeps DEF TypeOK, Sane, Order, Live, Filings
<1>2. CASE Working
  <2>1. Works /\ UNCHANGED <<forms, discarded>>
    BY <1>1, <1>2, WorkingWorks DEF history
  <2>2. \A i \in Op : SameReturn(rows[i], rows'[i]) /\ rows'[i].state = rows[i].state
    BY <2>1 DEF Works, Quiet
  <2> QED BY <1>1, <2>1, <2>2, NewestWaits, NewestStays
<1>3. CASE Look \/ (\E f \in Figures : SomebodyElseWrites(f)) \/ (\E r \in late : LateArrival(r))
  <2>1. UNCHANGED <<rows, forms, discarded>>
    BY <1>3 DEF Look, SomebodyElseWrites, LateArrival, history
  <2> QED BY <1>1, <2>1, NewestWaits, NewestStays DEF SameReturn
<1>4. CASE Claim
  <2> DEFINE i == exec.op
             row == rows[i]
             new == Claimed(row)
  <2>1. i \in Op /\ row \in Row /\ rows' = [rows EXCEPT ![i] = new] /\ UNCHANGED <<forms, discarded>>
    BY <1>1, <1>4 DEF Claim, Holds, history
  <2>2. SameReturn(row, new) /\ new.state = "SENDING"
    <3> HIDE DEF row
    <3> QED BY <2>1, RowStatements
  <2> HIDE DEF new
  <2>3. rows'[i] = new /\ \A j \in Op \ {i} : rows'[j] = rows[j]
    BY <1>1, <2>1
  <2>4. \A j \in Op : HasNewest(j) => HasNewest(j)'
    <3> SUFFICES ASSUME NEW j \in Op, HasNewest(j) PROVE HasNewest(j)'
      OBVIOUS
    <3>1. SameReturn(rows[j], rows'[j])
          /\ (rows'[j].state = rows[j].state \/ rows'[j].state \in ActiveStates \cup {"FAILED"})
      BY <2>2, <2>3 DEF SameReturn
    <3> QED BY <1>1, <2>1, <3>1, NewestWaits
  <2> QED BY <2>1, <2>4, NewestStays
<1>5. CASE Restart
  <2>1. rows' = Recovered(rows) /\ UNCHANGED <<forms, discarded>>
    BY <1>5 DEF Restart, history
  <2>2. \A i \in Op : SameReturn(rows[i], rows'[i])
                      /\ (rows'[i].state = rows[i].state \/ rows'[i].state \in ActiveStates \cup {"FAILED"})
    <3>1. \A i \in Op : SameReturn(rows[i], rows'[i]) /\
            rows'[i].state = IF rows[i].state = "SENDING" THEN "QUEUED" ELSE rows[i].state
      BY <1>1, <2>1, RecoveredShape
    <3> QED BY <3>1
  <2> QED BY <1>1, <2>1, <2>2, NewestWaits, NewestStays
<1>6. ASSUME NEW i \in Op, NEW new \in Row, rows' = [rows EXCEPT ![i] = new], UNCHANGED <<forms, discarded>>,
             SameReturn(rows[i], new), new.state \in ActiveStates \cup {"FAILED"} \/ new.state = rows[i].state
      PROVE  NewestHeld'
  <2>1. rows'[i] = new /\ \A j \in Op \ {i} : rows'[j] = rows[j]
    BY <1>1, <1>6
  <2>2. \A j \in Op : HasNewest(j) => HasNewest(j)'
    <3> SUFFICES ASSUME NEW j \in Op, HasNewest(j) PROVE HasNewest(j)'
      OBVIOUS
    <3>1. SameReturn(rows[j], rows'[j])
          /\ (rows'[j].state = rows[j].state \/ rows'[j].state \in ActiveStates \cup {"FAILED"})
      BY <1>6, <2>1 DEF SameReturn
    <3> QED BY <1>1, <1>6, <3>1, NewestWaits
  <2> QED BY <1>6, <2>2, NewestStays
<1>7. ASSUME NEW i \in Op, Retry(i) PROVE NewestHeld'
  <2>1. Retried(rows[i]) \in Row /\ SameReturn(rows[i], Retried(rows[i])) /\ Retried(rows[i]).state = "QUEUED"
    BY <1>1, RowStatements
  <2>2. rows' = [rows EXCEPT ![i] = Retried(rows[i])] /\ UNCHANGED <<forms, discarded>>
    BY <1>7 DEF Retry
  <2> QED BY <1>6, <2>1, <2>2
<1>8. ASSUME NEW i \in Op, Discard(i) PROVE NewestHeld'
  <2>1. rows' = [rows EXCEPT ![i] = NoRow] /\ forms' = forms /\ discarded' = discarded \cup {rows[i].nth}
    BY <1>8 DEF Discard
  <2>2. rows'[i] = NoRow /\ \A j \in Op \ {i} : rows'[j] = rows[j]
    BY <1>1, <2>1, NoRowType
  <2>3. \A j \in Op : HasNewest(j) => HasNewest(j)' \/ Filings \in discarded'
    <3> SUFFICES ASSUME NEW j \in Op, HasNewest(j), j # i PROVE HasNewest(j)'
      BY <2>1 DEF HasNewest
    <3> QED BY <1>1, <2>1, <2>2, NewestWaits DEF SameReturn
  <2> QED BY <2>1, <2>3, NewestStays
<1>9. ASSUME NEW i \in Op, LookAhead(i) PROVE NewestHeld'
  <2>1. UNCHANGED <<rows, forms, discarded>>
    BY <1>9 DEF LookAhead, history
  <2> QED BY <1>1, <2>1, NewestWaits, NewestStays DEF SameReturn
<1>10. ASSUME NEW i \in Op, BackoffElapses(i) PROVE NewestHeld'
  <2> DEFINE new == [rows[i] EXCEPT !.due = TRUE]
  <2>1. rows' = [rows EXCEPT ![i] = new] /\ UNCHANGED <<forms, discarded>>
    BY <1>1, <1>10 DEF BackoffElapses, history
  <2>2. new \in Row /\ SameReturn(rows[i], new) /\ new.state = rows[i].state
    <3>1. rows[i] \in Row
      BY <1>1
    <3> QED BY <3>1 DEF Row, SameReturn
  <2> HIDE DEF new
  <2> QED BY <1>6, <2>1, <2>2
<1>11. ASSUME NEW fig \in Figures, File(fig) PROVE NewestHeld'
  <2> DEFINE n == Filings + 1
  <2>1. seen \in Nat /\ forms \in Seq(Nat)
    BY DEF TypeOK, Version
  <2>2. /\ n \in Op /\ Filings' = n
        /\ \/ Alone(fig, n)
           \/ \E old \in Op, prior \in Lists : \E base \in {seen, rows[old].base} :
                FoldedInto(old, fig, n, prior, base) \/ QueuedBehind(old, fig, n, prior, base)
    BY <1>1, <1>11, <2>1, FileCases DEF Filings
  <2>3. ASSUME NEW k \in Op, NEW new \in Row, rows' = [rows EXCEPT ![k] = new],
               new.nth = n, new.state \in ActiveStates
        PROVE  NewestHeld'
    <3>1. rows'[k] = new
      BY <1>1, <2>3
    <3>2. HasNewest(k)'
      BY <2>2, <2>3, <3>1 DEF HasNewest
    <3> QED BY <3>2 DEF NewestHeld
  <2>4. NextSeq(rows) \in Nat /\ n \in Op
    BY <1>1, <2>2, NextSeqAbove
  <2>5. CASE Alone(fig, n)
    <3> DEFINE new == Fresh(fig, n, NextSeq(rows), seen)
    <3>1. new \in Row /\ new.state = "QUEUED" /\ new.nth = n
      <4> HIDE DEF n
      <4> QED BY ONLY <2>1, <2>4, fig \in Figures, FreshRow
    <3>2. rows' = [rows EXCEPT ![n] = new]
      BY <2>5 DEF Alone
    <3> HIDE DEF new, n
    <3> QED BY <2>3, <2>4, <3>1, <3>2
  <2>6. ASSUME NEW old \in Op, NEW prior \in Lists, NEW base \in {seen, rows[old].base},
               FoldedInto(old, fig, n, prior, base) \/ QueuedBehind(old, fig, n, prior, base)
        PROVE  NewestHeld'
    <3>1. base \in Nat /\ rows[old] \in Row
      BY <1>1, <2>1, RowNumbers
    <3>2. CASE QueuedBehind(old, fig, n, prior, base)
      <4> DEFINE mid == Fresh(fig, n, NextSeq(rows), seen)
                 new == Chaining(mid, prior, base)
      <4>1. mid \in Row /\ mid.state = "QUEUED" /\ mid.nth = n
        <5> HIDE DEF n
        <5> QED BY ONLY <2>1, <2>4, fig \in Figures, FreshRow
      <4>2. new \in Row /\ new.state = "QUEUED" /\ new.nth = n
        <5>1. mid \in Row /\ prior \in Lists /\ base \in Nat
          BY <3>1, <4>1
        <5> HIDE DEF mid, n
        <5> QED BY ONLY <4>1, <5>1, ChainingRow
      <4>3. rows' = [rows EXCEPT ![n] = new]
        BY <3>2 DEF QueuedBehind
      <4> HIDE DEF new, n
      <4> QED BY <2>3, <2>4, <4>2, <4>3
    <3>3. CASE FoldedInto(old, fig, n, prior, base)
      <4> DEFINE row == rows[old]
                 new == Folded(row, fig, n, prior, base)
      <4>1. row.state \in WaitingStates /\ rows' = [rows EXCEPT ![old] = new]
        BY <3>3 DEF FoldedInto
      <4>2. new \in Row /\ new.state = row.state /\ new.nth = n
        <5> HIDE DEF row, n
        <5> QED BY <2>4, <3>1, FoldedRow DEF row
      <4> HIDE DEF new, n, row
      <4> QED BY <2>3, <4>1, <4>2
    <3> QED BY <2>6, <3>2, <3>3
  <2> HIDE DEF n
  <2> QED BY <2>2, <2>5, <2>6
<1>12. CASE Settle
  <2>1. forms' = forms /\ discarded' = discarded
    BY <1>12 DEF Settle, history
  <2> DEFINE i == exec.op
             row == rows[i]
             settled == Settlement(row, exec.verdict)
  <2>2. /\ i \in Op /\ row.state = "SENDING" /\ exec.phase = "settle"
        /\ \/ rows' = [rows EXCEPT ![i] = settled]
           \/ \E newer \in Behind, prior \in Lists, base \in Nat, left \in Row :
                /\ newer \in Op /\ newer # i /\ rows[newer].state \in WaitingStates
                /\ rows' = [rows EXCEPT ![newer] = Told(rows[newer], prior, base), ![i] = left]
    <3>1. exec.phase = "settle"
      BY <1>12 DEF Settle
    <3>2. i \in Op /\ row.state = "SENDING"
      BY <1>1, <1>12, SettleCases
    <3>3. \/ rows' = [rows EXCEPT ![i] = settled]
          \/ \E newer \in Behind, prior \in Lists, base \in Nat, left \in Row :
               /\ newer \in Op /\ newer # i /\ rows[newer].state \in WaitingStates
               /\ rows' = [rows EXCEPT ![newer] = Told(rows[newer], prior, base), ![i] = left]
      BY <1>1, <1>12, SettleCases
    <3> QED BY <3>1, <3>2, <3>3
  <2>3. row \in Row /\ exec.verdict \in Verdicts /\ row.fig = exec.fig
    BY <1>1, <2>2 DEF Executor, Holds
  <2>4. /\ settled \in Row /\ SameReturn(row, settled)
        /\ settled.state \in {"SUCCEEDED", "FAILED", "BACKOFF"}
        /\ settled.state = "SUCCEEDED" => exec.verdict = "DELIVERED"
    <3> HIDE DEF row
    <3> QED BY <2>3, SettledRow
  <2> HIDE DEF settled
  <2>5. CASE rows' = [rows EXCEPT ![i] = settled]
    <3>1. rows'[i] = settled /\ \A j \in Op \ {i} : rows'[j] = rows[j]
      BY <1>1, <2>2, <2>5
    <3>2. settled.state = "SUCCEEDED" => \E v \in 1 .. Version(day') : day'[v].fig = settled.fig
      <4> SUFFICES ASSUME settled.state = "SUCCEEDED"
                   PROVE  \E v \in 1 .. Version(day') : day'[v].fig = settled.fig
        OBVIOUS
      <4>1. \E v \in 1 .. Version(day) : day[v].fig = exec.fig
        BY <2>2, <2>4 DEF Sane, DeliveredTrue
      <4>2. UNCHANGED day
        BY <1>12 DEF Settle, server
      <4> QED BY <2>3, <2>4, <4>1, <4>2 DEF SameReturn
    <3>3. ASSUME NEW j \in Op, HasNewest(j) PROVE HasNewest(j)'
      <4>1. CASE j = i
        <5>1. settled.nth = Filings'
          BY <2>1, <2>4, <3>3, <4>1 DEF HasNewest, SameReturn, Filings
        <5> QED BY <2>4, <3>1, <3>2, <4>1, <5>1 DEF HasNewest
      <4>2. CASE j # i
        BY <1>1, <2>1, <3>1, <3>3, <4>2, NewestWaits DEF SameReturn
      <4> QED BY <4>1, <4>2
    <3> QED BY <2>1, <3>3, NewestStays
  <2>6. ASSUME NEW newer \in Op, NEW prior \in Lists, NEW base \in Nat, NEW left \in Row,
               newer # i, rows[newer].state \in WaitingStates,
               rows' = [rows EXCEPT ![newer] = Told(rows[newer], prior, base), ![i] = left]
        PROVE  NewestHeld'
    <3> DEFINE old == rows[newer]
               told == Told(old, prior, base)
    <3>1. told \in Row /\ told.state = old.state /\ told.nth = old.nth /\ told.fig = old.fig
      <4>1. old \in Row
        BY <1>1
      <4> HIDE DEF old
      <4> QED BY <4>1, ToldRow
    <3> HIDE DEF told
    <3>2. rows' = [rows EXCEPT ![newer] = told, ![i] = left]
      BY <2>6 DEF told
    <3>3. rows'[newer] = told /\ \A j \in Op \ {i, newer} : rows'[j] = rows[j]
      BY <1>1, <2>2, <2>6, <3>1, <3>2
    <3>4. row.nth < old.nth
      <4>1. i \in Live /\ newer \in Live /\ i <= newer
        BY <2>2, <2>6 DEF Order, HeadFirst, Live
      <4>2. i < newer
        BY <2>2, <2>6, <4>1
      <4> QED BY <1>1, <4>1, <4>2 DEF InTurn
    <3>5. row.nth # Filings
      <4>1. row.nth \in Nat /\ old.nth \in Nat /\ old.nth <= Filings
        BY <1>1, <2>2, <2>6, RowNumbers DEF RowsFiled
      <4> QED BY <1>1, <3>4, <4>1
    <3>6. ASSUME NEW j \in Op, HasNewest(j) PROVE HasNewest(j)'
      <4>1. j # i
        BY <3>5, <3>6 DEF HasNewest
      <4>2. CASE j = newer
        BY <2>1, <2>6, <3>1, <3>3, <3>6, <4>2 DEF HasNewest, Filings
      <4>3. CASE j # newer
        BY <1>1, <2>1, <3>3, <3>6, <4>1, <4>3, NewestWaits DEF SameReturn
      <4> QED BY <4>2, <4>3
    <3> QED BY <2>1, <3>6, NewestStays
  <2> QED BY <2>2, <2>5, <2>6
<1> QED BY <1>2, <1>3, <1>4, <1>5, <1>7, <1>8, <1>9, <1>10, <1>11, <1>12, StepCases

-----------------------------------------------------------------------------
(* What a conflict says.  The list that is replayed is the one the executor *)
(* holds when it finds the day changed.  With each reply one more request   *)
(* is accounted for: the server takes it no more, and if it made a version  *)
(* then no later one than the latest the replays were answered with.        *)

\* Every version of the crew's has its receipt, and no key has two.
DayReceipted ==
  /\ \A v \in 1 .. Version(day) :
       Crew(v) => \E k \in receipts : k.key = day[v].key /\ k.fig = day[v].fig /\ k.version = v
  /\ \A k, m \in receipts : k.key = m.key => k = m

\* The server takes the request no more: it has it, or the day is past its base.
Over(request) == Receipt(receipts, request) # {} \/ BaseOf(request) < Version(day)

\* Nothing that is remembered amends a version that is still to come.
Past == {p \in Memories : BaseOf(p) <= Version(day)}

\* Nothing more comes of a request, and what came of it is not news.
Known(p) ==
  /\ Over(p)
  /\ \A v \in 1 .. Version(day) : Crew(v) /\ SameRequest(p, day[v]) => v <= exec.ours

Replays == Len(exec.replayed) - Len(exec.todo)

Replayed ==
  exec.phase \in {"replay", "reread"} =>
    /\ Replays \in Nat
    /\ exec.phase = "reread" => exec.todo = <<>>
    /\ \A j \in 1 .. Len(exec.todo) : exec.todo[j] = exec.replayed[Replays + j]
    /\ exec.clouded \/ \A i \in 1 .. Replays : Known(exec.replayed[i])

Accounted == DayReceipted /\ Carries(Past) /\ Replayed

LEMMA ServerTypes ==
  ASSUME TypeOK
  PROVE  day \in Seq(VersionType) /\ receipts \subseteq ReceiptType /\ Version(day) \in Nat
BY DEF TypeOK, VersionType, ReceiptType, Version

LEMMA DayReceiptedStays ==
  ASSUME TypeOK, Sane, DayReceipted, Grown, Next
  PROVE  DayReceipted'
<1>1. day \in Seq(VersionType) /\ receipts \subseteq ReceiptType /\ Version(day) \in Nat
  BY ServerTypes
<1> DEFINE Kept(v) == \E k \in receipts' : k.key = day'[v].key /\ k.fig = day'[v].fig /\ k.version = v
<1>2. ASSUME NEW v \in 1 .. Version(day), Crew(v)' PROVE Kept(v)
  BY <1>1, <1>2 DEF DayReceipted, Crew, Grown
<1>3. CASE UNCHANGED <<day, receipts>>
  BY <1>3 DEF DayReceipted, Crew
<1>4. CASE OtherStep
  <2>1. PICK fig \in Figures :
          day' = Append(day, [by |-> "other", fig |-> fig, nth |-> 0, key |-> <<1, 0, 0>>])
    BY <1>4 DEF OtherStep
  <2>2. Version(day') = Version(day) + 1 /\ day'[Version(day) + 1].by = "other"
    BY <1>1, <2>1 DEF Version
  <2>3. ASSUME NEW v \in 1 .. Version(day'), Crew(v)' PROVE v \in 1 .. Version(day)
    <3>1. v # Version(day) + 1
      BY <2>2, <2>3 DEF Crew
    <3> QED BY <1>1, <2>2, <3>1
  <2>4. receipts' = receipts
    BY <1>4 DEF OtherStep
  <2> QED BY <1>2, <2>3, <2>4 DEF DayReceipted
<1>5. ASSUME NEW r \in Requests, Accepted(r) PROVE DayReceipted'
  <2>1. /\ Version(day') = Version(day) + 1
        /\ day'[Version(day) + 1] = [by |-> "crew", fig |-> r.fig, nth |-> r.nth, key |-> r.key]
    BY <1>1, <1>5, AcceptedType
  <2> DEFINE new == [key |-> r.key, fig |-> r.fig, version |-> Version(day) + 1]
  <2>2. receipts' = receipts \cup {new} /\ \A k \in receipts : k.key # r.key
    BY <1>5 DEF Accepted, Takes, Receipt
  <2>3. new.key = r.key /\ new.fig = r.fig /\ new.version = Version(day) + 1
    OBVIOUS
  <2> HIDE DEF new
  <2>4. Kept(Version(day) + 1)
    BY <2>1, <2>2, <2>3
  <2>5. \A v \in 1 .. Version(day') : v \in 1 .. Version(day) \/ v = Version(day) + 1
    BY <1>1, <2>1
  <2>6. \A k, m \in receipts' : k.key = m.key => k = m
    BY <2>2, <2>3 DEF DayReceipted
  <2>7. \A v \in 1 .. Version(day') : Crew(v)' => Kept(v)
    <3> HIDE DEF Kept
    <3> QED BY <1>2, <2>4, <2>5
  <2> QED BY <2>6, <2>7 DEF DayReceipted
<1>6. CASE ServedStep
  BY <1>5, <1>6 DEF ServedStep
<1> QED BY <1>3, <1>4, <1>6, ServerStep

\* Of a request that is over nothing more comes.
LEMMA NothingComes ==
  ASSUME TypeOK, Sane, Grown, Next, NEW p \in Memories, Over(p)
  PROVE  /\ Over(p)'
         /\ \A v \in 1 .. Version(day') : Crew(v)' /\ SameRequest(p, day'[v]) =>
              v \in 1 .. Version(day) /\ Crew(v) /\ SameRequest(p, day[v])
<1>1. /\ day \in Seq(VersionType) /\ receipts \subseteq ReceiptType /\ Version(day) \in Nat
      /\ BaseOf(p) \in Nat
  BY ServerTypes DEF Memories, Keys, BaseOf
<1>2. Over(p)'
  BY <1>1 DEF Over, Receipt, Grown, BaseOf
<1>3. ASSUME NEW v \in 1 .. Version(day'), Crew(v)', SameRequest(p, day'[v])
      PROVE  v \in 1 .. Version(day)
  <2>1. CASE UNCHANGED <<day, receipts>>
    BY <2>1
  <2>2. ASSUME NEW r \in Requests, Accepted(r) PROVE v \in 1 .. Version(day)
    <3>1. /\ Version(day') = Version(day) + 1
          /\ day'[Version(day) + 1] = [by |-> "crew", fig |-> r.fig, nth |-> r.nth, key |-> r.key]
      BY <1>1, <2>2, AcceptedType
    <3>2. Takes(day, receipts, r)
      BY <2>2 DEF Accepted
    <3>3. ASSUME v = Version(day) + 1 PROVE FALSE
      <4>1. r.key = p.key
        BY <1>3, <3>1, <3>3 DEF SameRequest
      <4>2. Receipt(receipts, p) = {}
        BY <3>2, <4>1 DEF Takes, Receipt
      <4>3. BaseOf(p) < Version(day)
        BY <4>2 DEF Over
      <4>4. BaseOf(p) = 0 => Version(day) = 0
        BY <3>2, <4>1 DEF Takes, IsPost, BaseOf, Version
      <4>5. BaseOf(p) # 0 => Version(day) = BaseOf(p)
        BY <3>2, <4>1 DEF Takes, IsPost, BaseOf
      <4> QED BY <1>1, <4>3, <4>4, <4>5
    <3> QED BY <1>1, <3>1, <3>3
  <2>3. ASSUME NEW fig \in Figures,
               day' = Append(day, [by |-> "other", fig |-> fig, nth |-> 0, key |-> <<1, 0, 0>>])
        PROVE  v \in 1 .. Version(day)
    <3>1. Version(day') = Version(day) + 1 /\ day'[Version(day) + 1].by = "other"
      BY <1>1, <2>3 DEF Version
    <3>2. v # Version(day) + 1
      BY <1>3, <3>1 DEF Crew
    <3> QED BY <1>1, <3>1, <3>2
  <2> QED BY <2>1, <2>2, <2>3, ServerStep DEF ServedStep, OtherStep
<1>4. ASSUME NEW v \in 1 .. Version(day), Crew(v)', SameRequest(p, day'[v])
      PROVE  Crew(v) /\ SameRequest(p, day[v])
  BY <1>4 DEF Crew, Grown
<1> QED BY <1>2, <1>3, <1>4

\* An answered request is over, and it made a version only if it is said to have.
LEMMA AnswerAccounts ==
  ASSUME TypeOK, Sane, DayReceipted, Grown, Next, NEW p \in Memories, BaseOf(p) <= Version(day),
         NEW request \in Requests, request.key = p.key, request.fig = p.fig, Serve(request),
         NEW reply, reply = ReplyTo(day, receipts, request)
  PROVE  /\ Over(p)'
         /\ \A v \in 1 .. Version(day') : Crew(v)' /\ SameRequest(p, day'[v]) =>
              reply.kind = "ok" /\ v <= reply.version
<1>1. /\ day \in Seq(VersionType) /\ receipts \subseteq ReceiptType /\ Version(day) \in Nat
      /\ BaseOf(p) \in Nat
  BY ServerTypes DEF Memories, Keys, BaseOf
<1> DEFINE kept == Receipt(receipts, request)
           k == CHOOSE x \in kept : TRUE
<1>2. kept = Receipt(receipts, p)
  BY DEF Receipt
<1>3. ASSUME Over(p), NEW v \in 1 .. Version(day'), Crew(v)', SameRequest(p, day'[v])
      PROVE  \E m \in kept : m.fig = p.fig /\ m.version = v
  <2>1. v \in 1 .. Version(day) /\ Crew(v) /\ SameRequest(p, day[v])
    BY <1>3, NothingComes
  <2>2. PICK m \in receipts : m.key = day[v].key /\ m.fig = day[v].fig /\ m.version = v
    BY <2>1 DEF DayReceipted
  <2> QED BY <1>2, <2>1, <2>2 DEF SameRequest, Receipt
<1>4. CASE kept # {}
  <2>1. k \in kept /\ \A m \in kept : m = k
    BY <1>4 DEF DayReceipted, Receipt
  <2>2. Over(p)
    BY <1>2, <1>4 DEF Over
  <2>3. reply = IF k.fig = request.fig THEN [kind |-> "ok", version |-> k.version]
                                        ELSE [kind |-> "reused", version |-> 0]
    BY <1>4, Zenon DEF ReplyTo
  <2>4. k.version \in Nat
    BY <1>1, <2>1 DEF Receipt, ReceiptType
  <2> HIDE DEF k, kept
  <2>5. ASSUME NEW v \in 1 .. Version(day'), Crew(v)', SameRequest(p, day'[v])
        PROVE  reply.kind = "ok" /\ v <= reply.version
    <3>1. k.fig = request.fig /\ k.version = v
      BY <1>3, <2>1, <2>2, <2>5
    <3> QED BY <2>3, <2>4, <3>1
  <2> QED BY <2>2, <2>5, NothingComes
<1>5. CASE kept = {} /\ Takes(day, receipts, request)
  <2>1. reply = [kind |-> "ok", version |-> Version(day) + 1]
    BY <1>5, Zenon DEF ReplyTo
  <2>2. Accepted(request)
    BY <1>5, Zenon DEF Serve, Accepted, Written, Receipted
  <2>3. Version(day') = Version(day) + 1
    BY <1>1, <2>2, AcceptedType
  <2>4. Over(p)'
    <3> DEFINE new == [key |-> request.key, fig |-> request.fig, version |-> Version(day) + 1]
    <3>1. new \in receipts' /\ new.key = p.key
      BY <2>2 DEF Accepted
    <3> HIDE DEF new
    <3> QED BY <3>1 DEF Over, Receipt
  <2> QED BY <1>1, <2>1, <2>3, <2>4
<1>6. CASE kept = {} /\ ~Takes(day, receipts, request)
  <2>1. Over(p)
    <3>1. CASE IsPost(request)
      <4>1. day # <<>> /\ BaseOf(p) = 0
        BY <1>6, <3>1 DEF Takes, IsPost, BaseOf
      <4> QED BY <1>1, <4>1 DEF Over, Version
    <3>2. CASE ~IsPost(request)
      <4>1. Version(day) # BaseOf(p)
        BY <1>6, <3>2 DEF Takes, BaseOf
      <4> QED BY <1>1, <4>1 DEF Over
    <3> QED BY <3>1, <3>2
  <2> QED BY <1>3, <1>6, <2>1, NothingComes
<1> QED BY <1>4, <1>5, <1>6

\* What an executor that replays is left with, whatever it hears.
LEMMA ReplayHeard ==
  ASSUME exec \in Executor, Len(exec.prior) <= PriorMax, exec.phase = "replay", exec.todo # <<>>,
         NEW reply, reply.version \in Nat, reply.kind \in Kinds, Hear(reply)
  PROVE  /\ exec'.replayed = exec.replayed /\ exec'.conflict = exec.conflict
         /\ exec'.todo = Tail(exec.todo)
         /\ exec'.phase = (IF Tail(exec.todo) = <<>> THEN "reread" ELSE "replay")
         /\ exec'.ours \in Nat /\ exec.ours <= exec'.ours
         /\ reply.kind = "ok" => reply.version <= exec'.ours
         /\ exec.clouded \/ reply.kind \in {"invalid", "silence"} => exec'.clouded
<1>0. HearReplay(reply) /\ exec.prior \in Lists /\ exec.todo \in Lists /\ exec.ours \in Nat
  BY DEF Hear, Executor
<1> DEFINE rest == Tail(exec.todo)
           landed == Landed(exec.prior, OnWire, reply.version)
           dropped == Dropped(exec.prior, OnWire)
           later == IF reply.version > exec.ours THEN reply.version ELSE exec.ours
<1>1. rest \in Lists
  BY <1>0, ListsAreMemories
<1>2. landed \in Lists /\ dropped \in Lists
  BY LearnedList
<1>3. later \in Nat /\ exec.ours <= later /\ reply.version <= later
  BY <1>0
<1>4. PICK prior, ours, next :
        /\ prior \in {landed, dropped, exec.prior} /\ ours \in {later, exec.ours}
        /\ reply.kind = "ok" => ours = later
        /\ next = Replaying(rest, prior, ours)
        /\ \/ exec' = next /\ reply.kind \notin {"invalid", "silence"}
           \/ exec' = [next EXCEPT !.clouded = TRUE]
  BY <1>0 DEF HearReplay, Kinds
<1> HIDE DEF rest, landed, dropped, later
<1>5. prior \in Lists /\ ours \in Nat /\ exec.ours <= ours /\ (reply.kind = "ok" => reply.version <= ours)
  BY <1>0, <1>2, <1>3, <1>4
<1>6. /\ next \in Executor /\ SameHand(next)
      /\ next.phase = (IF rest = <<>> THEN "reread" ELSE "replay")
      /\ next.todo = rest /\ next.ours = ours /\ next.clouded = exec.clouded
  BY <1>1, <1>4, <1>5, ReplayingType
<1>7. CASE exec' = next /\ reply.kind \notin {"invalid", "silence"}
  BY <1>5, <1>6, <1>7 DEF SameHand, rest
<1>8. CASE exec' = [next EXCEPT !.clouded = TRUE]
  <2>1. /\ exec'.replayed = next.replayed /\ exec'.conflict = next.conflict /\ exec'.todo = next.todo
        /\ exec'.phase = next.phase /\ exec'.ours = next.ours /\ exec'.clouded = TRUE
    BY <1>6, <1>8 DEF Executor
  <2> QED BY <1>5, <1>6, <2>1 DEF SameHand, rest
<1> QED BY <1>4, <1>7, <1>8

\* What was accounted for stays so.
LEMMA KnownStays ==
  ASSUME TypeOK, Sane, Grown, Next, NEW p \in Memories, Known(p),
         exec'.ours \in Nat, exec.ours \in Nat, exec.ours <= exec'.ours
  PROVE  Known(p)'
<1>1. Over(p)
  BY DEF Known
<1>2. Over(p)' /\ \A v \in 1 .. Version(day') : Crew(v)' /\ SameRequest(p, day'[v]) =>
                    v \in 1 .. Version(day) /\ Crew(v) /\ SameRequest(p, day[v])
  BY <1>1, NothingComes
<1>3. ASSUME NEW v \in 1 .. Version(day'), Crew(v)', SameRequest(p, day'[v]) PROVE v <= exec'.ours
  <2>1. v <= exec.ours
    BY <1>2, <1>3 DEF Known
  <2> QED BY <2>1
<1> QED BY <1>2, <1>3 DEF Known

LEMMA ReplayedMemories ==
  ASSUME TypeOK, Replayed, exec.phase \in {"replay", "reread"}, NEW i \in 1 .. Replays
  PROVE  exec.replayed[i] \in Memories /\ Replays <= Len(exec.replayed)
<1>1. exec.replayed \in Seq(Memories) /\ exec.todo \in Seq(Memories)
  BY ListsAreMemories DEF TypeOK, Executor
<1>2. Len(exec.replayed) \in Nat /\ Len(exec.todo) \in Nat /\ Replays = Len(exec.replayed) - Len(exec.todo)
  BY <1>1 DEF Replays
<1>3. i \in 1 .. Len(exec.replayed) /\ Replays <= Len(exec.replayed)
  <2> PICK n, m, k : n = Len(exec.replayed) /\ m = Len(exec.todo) /\ k = Replays
    OBVIOUS
  <2>1. n \in Nat /\ m \in Nat /\ k = n - m /\ i \in 1 .. k
    BY <1>2
  <2>2. i \in 1 .. n /\ k <= n
    BY ONLY <2>1
  <2> QED BY <2>2
<1> QED BY <1>1, <1>3

LEMMA ReplayedWaits ==
  ASSUME TypeOK, Sane, Grown, Next, Replayed, exec' = exec
  PROVE  Replayed'
<1> SUFFICES ASSUME exec.phase \in {"replay", "reread"}, ~exec.clouded, NEW i \in 1 .. Replays
             PROVE  Known(exec.replayed[i])'
  BY DEF Replayed, Replays
<1>1. PICK p \in Memories : p = exec.replayed[i]
  BY ReplayedMemories
<1>2. Known(p) /\ exec.ours \in Nat
  BY <1>1 DEF Replayed, TypeOK, Executor, Known, Over, SameRequest, BaseOf, Receipt
<1>3. Known(p)'
  BY <1>2, KnownStays
<1> QED BY <1>1, <1>3 DEF Known, Over, SameRequest, BaseOf, Receipt

\* A reply to a replay accounts for one request more.
LEMMA ReplayedHeard ==
  ASSUME TypeOK, Sane, Grown, Next, Replayed, exec.phase = "replay",
         NEW reply, reply.version \in Nat, reply.kind \in Kinds, Hear(reply),
         NEW q \in Memories, q = Head(exec.todo),
         reply.kind \notin {"invalid", "silence"} =>
           /\ Over(q)'
           /\ \A v \in 1 .. Version(day') : Crew(v)' /\ SameRequest(q, day'[v]) =>
                reply.kind = "ok" /\ v <= reply.version
  PROVE  Replayed'
<1>1. /\ exec \in Executor /\ Len(exec.prior) <= PriorMax /\ exec.todo # <<>> /\ exec.ours \in Nat
      /\ exec.replayed \in Seq(Memories) /\ exec.todo \in Seq(Memories)
  BY ListsAreMemories DEF TypeOK, Executor, Sane, Reading
<1>2. /\ exec'.replayed = exec.replayed /\ exec'.todo = Tail(exec.todo)
      /\ exec'.phase = (IF Tail(exec.todo) = <<>> THEN "reread" ELSE "replay")
      /\ exec'.ours \in Nat /\ exec.ours <= exec'.ours
      /\ reply.kind = "ok" => reply.version <= exec'.ours
      /\ exec.clouded \/ reply.kind \in {"invalid", "silence"} => exec'.clouded
  BY <1>1, ReplayHeard
<1>3. /\ Len(exec.replayed) \in Nat /\ Len(exec.todo) \in Nat /\ Len(exec.todo) >= 1
      /\ Len(exec'.todo) = Len(exec.todo) - 1
      /\ \A j \in 1 .. Len(exec'.todo) : exec'.todo[j] = exec.todo[j + 1]
      /\ Head(exec.todo) = exec.todo[1]
  <2>1. PICK todo : todo = exec.todo
    OBVIOUS
  <2>2. todo \in Seq(Memories) /\ todo # <<>> /\ exec.replayed \in Seq(Memories)
    BY <1>1, <2>1
  <2>3. Len(todo) \in Nat /\ Len(todo) >= 1 /\ Head(todo) = todo[1] /\ Len(exec.replayed) \in Nat
    BY ONLY <2>2
  <2>4. Len(Tail(todo)) = Len(todo) - 1 /\ \A j \in 1 .. Len(Tail(todo)) : Tail(todo)[j] = todo[j + 1]
    BY ONLY <2>2, <2>3
  <2> QED BY <1>2, <2>1, <2>3, <2>4
<1>4. Replays \in Nat /\ Replays' = Replays + 1 /\ Replays' <= Len(exec.replayed)
  <2>1. Replays \in Nat /\ Replays = Len(exec.replayed) - Len(exec.todo)
    BY DEF Replayed, Replays
  <2>2. Replays' = Len(exec.replayed) - Len(exec'.todo)
    BY <1>2 DEF Replays
  <2> PICK n, m, l : n = Len(exec.replayed) /\ m = Len(exec.todo) /\ l = Len(exec'.todo)
    OBVIOUS
  <2>3. n \in Nat /\ m \in Nat /\ m >= 1 /\ l = m - 1
    BY <1>3
  <2>4. n - l = (n - m) + 1 /\ n - l <= n
    BY ONLY <2>3
  <2> QED BY <2>1, <2>2, <2>4
<1>5. \A j \in 1 .. Len(exec.todo) : exec.todo[j] = exec.replayed[Replays + j]
  BY DEF Replayed
<1>6. ASSUME NEW j \in 1 .. Len(exec'.todo) PROVE exec'.todo[j] = exec'.replayed[Replays' + j]
  <2>1. j + 1 \in 1 .. Len(exec.todo) /\ Replays' + j = Replays + (j + 1)
    <3> PICK m, l, n : m = Len(exec.todo) /\ l = Len(exec'.todo) /\ n = Replays
      OBVIOUS
    <3>1. m \in Nat /\ l = m - 1 /\ n \in Nat /\ j \in 1 .. l
      BY <1>3, <1>4
    <3>2. j + 1 \in 1 .. m /\ (n + 1) + j = n + (j + 1)
      BY ONLY <3>1
    <3> QED BY <1>4, <3>2
  <2> QED BY <1>2, <1>3, <1>5, <2>1
<1>7. ASSUME ~exec'.clouded, NEW i \in 1 .. Replays' PROVE Known(exec.replayed[i])'
  <2>1. ~exec.clouded /\ reply.kind \notin {"invalid", "silence"}
    BY <1>2, <1>7
  <2>2. PICK p \in Memories : p = exec.replayed[i]
    BY <1>1, <1>4, <1>7
  <2>3. CASE i \in 1 .. Replays
    <3>1. Known(p)
      BY <2>1, <2>2, <2>3 DEF Replayed, Known, Over, SameRequest, BaseOf, Receipt
    <3>2. Known(p)'
      BY <1>1, <1>2, <3>1, KnownStays
    <3> QED BY <1>2, <2>2, <3>2 DEF Known, Over, SameRequest, BaseOf, Receipt
  <2>4. CASE i = Replays + 1
    <3>1. q = p
      BY <1>3, <1>5, <2>2, <2>4
    <3>2. Over(p)' /\ \A v \in 1 .. Version(day') : Crew(v)' /\ SameRequest(p, day'[v]) =>
                        reply.kind = "ok" /\ v <= reply.version
      BY <2>1, <3>1
    <3>3. ASSUME NEW v \in 1 .. Version(day'), Crew(v)', SameRequest(p, day'[v]) PROVE v <= exec'.ours
      BY <1>2, <3>2, <3>3
    <3>4. Known(p)'
      BY <3>2, <3>3 DEF Known
    <3> QED BY <1>2, <2>2, <3>4 DEF Known, Over, SameRequest, BaseOf, Receipt
  <2>5. i \in 1 .. Replays \/ i = Replays + 1
    BY <1>4
  <2> QED BY <2>3, <2>4, <2>5
<1>8. exec'.phase = "reread" => exec'.todo = <<>>
  BY <1>2
<1>9. Replays' \in Nat
  BY <1>4
<1>10. exec'.clouded \/ \A i \in 1 .. Replays' : Known(exec.replayed[i])'
  BY <1>7
<1> QED BY <1>2, <1>6, <1>8, <1>9, <1>10 DEF Replayed, Known, Over, SameRequest, BaseOf, Receipt

\* A row's own request amends nothing.
LEMMA OldPostType ==
  ASSUME TypeOK, Sane, NEW i \in Op, rows[i].state # "NONE"
  PROVE  OldPost(i) \in Memories /\ BaseOf(OldPost(i)) = 0 /\ OldPost(i).landed = 0
<1>1. rows[i] \in Row /\ rows[i].fig \in Figures /\ rows[i].nth \in Op
  <2>1. rows[i] \in Row /\ rows[i].fig \in Figures /\ i <= rows[i].nth
    BY DEF TypeOK, Sane, RowsFiled
  <2> QED BY <2>1, NumberedRow
<1>2. PostKey(i) \in Keys /\ PostKey(i)[2] = 0
  BY KeyTypes DEF PostKey
<1>3. OldPost(i) \in Memories
  BY <1>1, <1>2, RequestTypes DEF OldPost, Memories
<1>4. OldPost(i).key = PostKey(i) /\ OldPost(i).landed = 0
  BY DEF OldPost, Remembered, Request
<1> QED BY <1>2, <1>3, <1>4 DEF BaseOf

\* A list of a row is made of the lists there were, and of the request of a row,
\* of which it is not known whether it landed.
LEMMA FilingCarries ==
  ASSUME TypeOK, Sane, NEW fig \in Figures, File(fig), NEW R, Carries(R),
         \A p \in Memories : BaseOf(p) = 0 /\ p.landed = 0 => p \in R
  PROVE  Carries(R)'
<1>1. rows \in [Op -> Row] /\ forms \in Seq(Nat) /\ seen \in Nat /\ RowsFiled
  BY DEF TypeOK, Sane, Version
<1>2. exec' = exec
  BY DEF File
<1> DEFINE n == Filings + 1
<1>3. /\ n \in Op
      /\ \/ Alone(fig, n)
         \/ \E old \in Op, prior \in Lists : \E base \in {seen, rows[old].base} :
              /\ rows[old].state \in ActiveStates
              /\ \A S : Carries(S) /\ (MaySent(rows[old]) => OldPost(old) \in S) => prior \in Seq(S)
              /\ FoldedInto(old, fig, n, prior, base) \/ QueuedBehind(old, fig, n, prior, base)
  BY <1>1, FileCases
<1> HIDE DEF n
<1>4. NextSeq(rows) \in Nat
  BY <1>1, NextSeqAbove
<1>5. ASSUME NEW k \in Op, NEW new \in Row, rows' = [rows EXCEPT ![k] = new], new.prior \in Seq(R)
      PROVE  Carries(R)'
  <2>1. \A i \in Op : rows'[i].prior = IF i = k THEN new.prior ELSE rows[i].prior
    BY <1>1, <1>5
  <2> QED BY <1>2, <1>5, <2>1 DEF Carries
<1>6. CASE Alone(fig, n)
  <2> DEFINE new == Fresh(fig, n, NextSeq(rows), seen)
  <2>1. new \in Row /\ new.prior = <<>>
    BY ONLY <1>1, <1>3, <1>4, fig \in Figures, FreshRow
  <2>2. rows' = [rows EXCEPT ![n] = new]
    BY <1>6 DEF Alone
  <2> HIDE DEF new
  <2>3. new.prior \in Seq(R)
    BY <2>1
  <2> QED BY <1>3, <1>5, <2>1, <2>2, <2>3
<1>7. ASSUME NEW old \in Op, NEW prior \in Lists, NEW base \in {seen, rows[old].base},
             rows[old].state \in ActiveStates,
             \A S : Carries(S) /\ (MaySent(rows[old]) => OldPost(old) \in S) => prior \in Seq(S),
             FoldedInto(old, fig, n, prior, base) \/ QueuedBehind(old, fig, n, prior, base)
      PROVE  Carries(R)'
  <2>1. base \in Nat
    BY <1>1, <1>7, RowNumbers
  <2>2. prior \in Seq(R)
    <3>1. OldPost(old) \in Memories /\ BaseOf(OldPost(old)) = 0 /\ OldPost(old).landed = 0
      BY <1>7, OldPostType
    <3> QED BY <1>7, <3>1
  <2>3. CASE QueuedBehind(old, fig, n, prior, base)
    <3> DEFINE mid == Fresh(fig, n, NextSeq(rows), seen)
               new == Chaining(mid, prior, base)
    <3>1. mid \in Row
      BY ONLY <1>1, <1>3, <1>4, fig \in Figures, FreshRow
    <3> HIDE DEF mid
    <3>2. new \in Row /\ new.prior = prior
      BY ONLY <2>1, <3>1, prior \in Lists, ChainingRow
    <3>3. rows' = [rows EXCEPT ![n] = new]
      BY <2>3 DEF QueuedBehind, mid
    <3> HIDE DEF new
    <3> QED BY <1>3, <1>5, <2>2, <3>2, <3>3
  <2>4. CASE FoldedInto(old, fig, n, prior, base)
    <3> DEFINE row == rows[old]
               new == Folded(row, fig, n, prior, base)
    <3>1. row \in Row
      BY <1>1
    <3> HIDE DEF row
    <3>2. new \in Row /\ new.prior = prior
      BY ONLY <1>3, <2>1, <3>1, prior \in Lists, fig \in Figures, FoldedRow
    <3>3. rows' = [rows EXCEPT ![old] = new]
      BY <2>4 DEF FoldedInto, row
    <3> HIDE DEF new
    <3> QED BY <1>5, <2>2, <3>2, <3>3
  <2> QED BY <1>7, <2>3, <2>4
<1> QED BY <1>3, <1>6, <1>7

LEMMA SettleCarries ==
  ASSUME TypeOK, Sane, Settle, NEW R, Carries(R),
         \A p \in Memories : BaseOf(p) = 0 /\ p.landed = 0 => p \in R
  PROVE  Carries(R)'
<1>1. rows \in [Op -> Row] /\ exec \in Executor /\ RowsFiled /\ Holds
  BY DEF TypeOK, Sane
<1>2. /\ exec' = Resting /\ exec.op \in Op /\ rows[exec.op].state = "SENDING"
      /\ \/ rows' = [rows EXCEPT ![exec.op] = Settlement(rows[exec.op], exec.verdict)]
         \/ \E newer \in Behind, prior \in Lists, base \in Nat, left \in Row :
              /\ newer \in Op /\ newer # exec.op
              /\ \A S : Carries(S) /\ OldPost(exec.op) \in S => prior \in Seq(S)
              /\ left = NoRow \/ left = Settlement(rows[exec.op], exec.verdict)
              /\ rows' = [rows EXCEPT ![newer] = Told(rows[newer], prior, base), ![exec.op] = left]
  BY <1>1, SettleCases
<1> DEFINE i == exec.op
           row == rows[i]
           settled == Settlement(row, exec.verdict)
<1>3. row \in Row /\ exec.verdict \in Verdicts /\ row.prior \in Seq(R)
  BY <1>1, <1>2 DEF Executor, Carries
<1>4. settled \in Row /\ settled.prior \in Seq(R)
  <2>1. settled \in Row /\ (settled.prior = row.prior \/ settled.prior = <<>>)
    <3> HIDE DEF row
    <3> QED BY <1>3, SettledRow
  <2>2. <<>> \in Seq(R)
    OBVIOUS
  <2> HIDE DEF row, settled
  <2> QED BY <1>3, <2>1, <2>2
<1>5. exec'.prior \in Seq(R) /\ exec'.todo \in Seq(R)
  BY <1>2, RestingType
<1>6. NoRow.prior \in Seq(R)
  BY NoRowType
<1> HIDE DEF settled
<1>7. CASE rows' = [rows EXCEPT ![i] = settled]
  <2>1. \A j \in Op : rows'[j].prior = IF j = i THEN settled.prior ELSE rows[j].prior
    BY <1>1, <1>7
  <2> QED BY <1>4, <1>5, <2>1 DEF Carries
<1>8. ASSUME NEW newer \in Op, NEW prior \in Lists, NEW base \in Nat, NEW left \in Row,
             newer # i, left = NoRow \/ left = settled,
             \A S : Carries(S) /\ OldPost(i) \in S => prior \in Seq(S),
             rows' = [rows EXCEPT ![newer] = Told(rows[newer], prior, base), ![i] = left]
      PROVE  Carries(R)'
  <2> DEFINE old == rows[newer]
             told == Told(old, prior, base)
  <2>1. told \in Row /\ told.prior = prior
    <3>1. old \in Row
      BY <1>1
    <3> HIDE DEF old
    <3> QED BY <3>1, ToldRow
  <2> HIDE DEF told
  <2>2. rows' = [rows EXCEPT ![newer] = told, ![i] = left]
    BY <1>8 DEF told
  <2>3. rows'[newer] = told /\ rows'[i] = left /\ \A j \in Op \ {i, newer} : rows'[j] = rows[j]
    BY <1>1, <1>2, <1>8, <2>2
  <2>4. prior \in Seq(R)
    <3>1. OldPost(i) \in Memories /\ BaseOf(OldPost(i)) = 0 /\ OldPost(i).landed = 0
      BY <1>2, OldPostType
    <3> QED BY <1>8, <3>1
  <2>5. left.prior \in Seq(R)
    BY <1>4, <1>6, <1>8
  <2>6. \A j \in Op : rows'[j].prior \in Seq(R)
    BY <2>1, <2>3, <2>4, <2>5 DEF Carries
  <2> QED BY <1>5, <2>6 DEF Carries
<1> QED BY <1>2, <1>7, <1>8 DEF settled

LEMMA RowCarries ==
  ASSUME TypeOK, Sane, NEW R, Carries(R), NEW i \in Op,
         Retry(i) \/ Discard(i) \/ BackoffElapses(i) \/ LookAhead(i)
  PROVE  Carries(R)'
<1>1. rows \in [Op -> Row] /\ rows[i] \in Row /\ \A j \in Op : rows[j].prior \in Seq(R)
  BY DEF TypeOK, Carries
<1>2. ASSUME NEW new, rows' = [rows EXCEPT ![i] = new], new.prior \in Seq(R), exec' = exec
      PROVE  Carries(R)'
  <2>1. \A j \in Op : rows'[j].prior = IF j = i THEN new.prior ELSE rows[j].prior
    BY <1>1, <1>2
  <2> QED BY <1>1, <1>2, <2>1 DEF Carries
<1>3. CASE Retry(i)
  <2>1. Retried(rows[i]).prior \in Seq(R)
    BY <1>1, RowStatements
  <2> QED BY <1>2, <1>3, <2>1 DEF Retry
<1>4. CASE Discard(i)
  <2>1. NoRow.prior \in Seq(R)
    BY NoRowType
  <2> QED BY <1>2, <1>4, <2>1 DEF Discard
<1>5. CASE BackoffElapses(i)
  <2> DEFINE new == [rows[i] EXCEPT !.due = TRUE]
  <2>1. rows' = [rows EXCEPT ![i] = new] /\ exec' = exec
    BY <1>1, <1>5 DEF BackoffElapses
  <2>2. new.prior \in Seq(R)
    BY <1>1 DEF Row
  <2> HIDE DEF new
  <2> QED BY <1>2, <2>1, <2>2
<1>6. CASE LookAhead(i)
  <2>1. rows' = rows
        /\ exec' = [Resting EXCEPT !.phase = "checked", !.op = i, !.fig = rows[i].fig, !.nth = rows[i].nth]
    BY <1>6 DEF LookAhead
  <2>2. exec'.prior = <<>> /\ exec'.todo = <<>>
    BY <2>1 DEF Resting
  <2>3. exec'.prior \in Seq(R) /\ exec'.todo \in Seq(R)
    BY <2>2
  <2> QED BY <1>1, <2>1, <2>3 DEF Carries
<1> QED BY <1>3, <1>4, <1>5, <1>6

LEMMA ClaimCarries ==
  ASSUME TypeOK, Sane, Claim, NEW R, Carries(R)
  PROVE  Carries(R)'
<1>1. /\ rows \in [Op -> Row] /\ exec \in Executor /\ exec.op \in Op
      /\ rows[exec.op].state \in WaitingStates
  BY DEF TypeOK, Sane, Claim, Holds
<1> DEFINE i == exec.op
           row == rows[i]
           new == Claimed(row)
<1>2. row \in Row /\ rows' = [rows EXCEPT ![i] = new]
      /\ exec' = [exec EXCEPT !.phase = "claimed", !.fig = row.fig, !.nth = row.nth,
                              !.prior = Trim(row.prior), !.base = row.base]
  BY <1>1 DEF Claim
<1>3. row.prior \in Seq(R) /\ exec.todo \in Seq(R)
  BY <1>1 DEF Carries
<1> HIDE DEF row
<1>4. new.prior \in Seq(R)
  BY <1>2, <1>3, RowStatements
<1>5. exec'.prior = Trim(row.prior) /\ exec'.todo = exec.todo
  BY <1>1, <1>2 DEF Executor
<1>6. Trim(row.prior) \in Seq(R)
  BY <1>3, TrimKeeps
<1> HIDE DEF new
<1>7. \A j \in Op : rows'[j].prior = IF j = i THEN new.prior ELSE rows[j].prior
  BY <1>1, <1>2
<1> QED BY <1>3, <1>4, <1>5, <1>6, <1>7 DEF Carries

\* So with every step of no executor that has a row in hand.
LEMMA ElsewhereCarries ==
  ASSUME TypeOK, Sane, Next, ~Working, NEW R, Carries(R),
         \A p \in Memories : BaseOf(p) = 0 /\ p.landed = 0 => p \in R
  PROVE  Carries(R)'
<1>1. CASE Look \/ (\E f \in Figures : SomebodyElseWrites(f)) \/ (\E r \in late : LateArrival(r))
  BY <1>1 DEF Look, SomebodyElseWrites, LateArrival, Carries
<1>2. CASE Restart
  <2>1. rows' = Recovered(rows) /\ exec' = Resting /\ rows \in [Op -> Row]
    BY <1>2 DEF Restart, TypeOK
  <2>2. \A i \in Op : rows'[i].prior = rows[i].prior
    BY <2>1, RecoveredShape
  <2>3. exec'.prior \in Seq(R) /\ exec'.todo \in Seq(R)
    BY <2>1, RestingType
  <2> QED BY <2>2, <2>3 DEF Carries
<1> QED BY <1>1, <1>2, StepCases, FilingCarries, SettleCarries, RowCarries, ClaimCarries

\* Whatever the step, what is remembered after it was remembered before it, is the
\* request of a row, or amends the version the day has.
LEMMA StepCarries ==
  ASSUME TypeOK, Sane, Grown, Next, NEW R, Carries(R), LandedStays(R),
         \A p \in Memories : BaseOf(p) <= Version(day) => p \in R
  PROVE  Carries(R)'
<1>1. Version(day) \in Nat /\ \A p \in Memories : BaseOf(p) = 0 => p \in R
  <2>1. Version(day) \in Nat
    BY ServerTypes
  <2> QED BY <2>1
<1>2. CASE Working
  <2>1. Works
    BY <1>2, WorkingWorks
  <2>2. /\ rows \in [Op -> Row] /\ exec \in Executor /\ RowsFiled /\ Holds /\ InHand
    BY <2>1 DEF TypeOK, Sane, Works
  <2>3. Remembered(OwnPost, 0) \in R
    <3>1. Remembered(OwnPost, 0) \in Memories
      BY <2>2, OwnRequests
    <3>2. BaseOf(Remembered(OwnPost, 0)) = 0
      BY DEF BaseOf, Remembered, OwnPost, Request, PostKey
    <3> QED BY <1>1, <3>1, <3>2
  <2>4. ASSUME exec'.phase = "amend"
        PROVE  Remembered(Request(AmendKey(exec.op, exec'.base, exec.fig), exec.fig, exec.nth), 0) \in R
    <3>1. PICK b \in Nat : b = exec'.base /\ b = Version(day)
      BY <1>1, <2>1, <2>4 DEF Works
    <3> DEFINE a == Request(AmendKey(exec.op, b, exec.fig), exec.fig, exec.nth)
    <3>2. Remembered(a, 0) \in Memories
      BY <2>2, OwnRequests
    <3>3. BaseOf(Remembered(a, 0)) = b
      BY DEF BaseOf, Remembered, Request, AmendKey
    <3> QED BY <1>1, <3>1, <3>2, <3>3
  <2> QED BY <2>1, <2>3, <2>4 DEF Works
<1> QED BY <1>1, <1>2, ElsewhereCarries

\* So nothing that is remembered gets ahead of the day.
LEMMA PastStays ==
  ASSUME TypeOK, Sane, Grown, Next, Carries(Past)
  PROVE  Carries(Past)'
<1>1. Version(day) \in Nat /\ Version(day') \in Nat /\ Version(day) <= Version(day')
  BY ServerTypes DEF Grown
<1>2. PICK R : R = {p \in Memories : BaseOf(p) <= Version(day')}
  OBVIOUS
<1>3. \A p \in Memories : BaseOf(p) <= Version(day) => p \in R
  <2>1. \A p \in Memories : BaseOf(p) \in Nat
    BY DEF Memories, Keys, BaseOf
  <2> QED BY <1>1, <1>2, <2>1
<1>4. Carries(R)
  <2>1. Past \subseteq R
    BY <1>3 DEF Past
  <2> QED BY <2>1, CarriedOver
<1>5. LandedStays(R)
  <2> SUFFICES ASSUME NEW p \in R, NEW v \in Nat PROVE [p EXCEPT !.landed = v] \in R
    BY DEF LandedStays
  <2> DEFINE q == [p EXCEPT !.landed = v]
  <2>1. p \in Memories
    BY <1>2
  <2>2. q \in Memories /\ q.key = p.key
    BY <2>1 DEF Memories
  <2> HIDE DEF q
  <2>3. q \in R
    BY <1>2, <2>2 DEF BaseOf
  <2> QED BY <2>3 DEF q
<1>6. Carries(R)'
  BY <1>3, <1>4, <1>5, StepCarries
<1>7. R = Past'
  BY <1>2 DEF Past, BaseOf
<1> QED BY <1>6, <1>7 DEF Carries

\* How an executor comes to replay: the list it holds, and nothing answered yet.
LEMMA ReplayBegins ==
  ASSUME TypeOK, exec' = [Replaying(exec.prior, exec.prior, 0) EXCEPT !.replayed = exec.prior]
  PROVE  /\ exec'.replayed = exec.prior /\ exec'.todo = exec.prior /\ exec'.conflict = exec.conflict
         /\ exec'.phase = (IF exec.prior = <<>> THEN "reread" ELSE "replay")
<1>1. exec \in Executor /\ exec.prior \in Lists
  BY DEF TypeOK, Executor
<1> DEFINE next == Replaying(exec.prior, exec.prior, 0)
<1>2. /\ next \in Executor /\ SameHand(next)
      /\ next.phase = (IF exec.prior = <<>> THEN "reread" ELSE "replay") /\ next.todo = exec.prior
  BY <1>1, ReplayingType
<1>3. exec' = [next EXCEPT !.replayed = exec.prior]
  OBVIOUS
<1> HIDE DEF next
<1> QED BY <1>2, <1>3 DEF Executor, SameHand

LEMMA ReplayedAnswered ==
  ASSUME TypeOK, Sane, Grown, Next, Accounted, exec.phase = "replay", Answered
  PROVE  Replayed'
<1>1. /\ day \in Seq(VersionType) /\ receipts \subseteq ReceiptType
      /\ exec.todo \in Seq(Memories) /\ exec.todo \in Seq(Past) /\ exec.todo # <<>>
  BY ServerTypes, ListsAreMemories DEF TypeOK, Executor, Accounted, Carries, Sane, Reading
<1>2. PICK q : q = Head(exec.todo)
  OBVIOUS
<1>3. q \in Memories /\ BaseOf(q) <= Version(day)
  BY <1>1, <1>2 DEF Past
<1>4. PICK request \in Requests : request = OnWire
  BY OnWireType DEF Asking
<1>5. request.key = q.key /\ request.fig = q.fig
  BY <1>2, <1>4 DEF OnWire, Request
<1>6. PICK reply : reply = ReplyTo(day, receipts, request)
  OBVIOUS
<1>7. Hear(reply) /\ Serve(request)
  BY <1>4, <1>6 DEF Answered
<1>8. reply.kind \in Kinds /\ reply.version \in Nat
  BY <1>1, <1>6, ReplyShape DEF Kinds
<1>9. /\ Over(q)'
      /\ \A v \in 1 .. Version(day') : Crew(v)' /\ SameRequest(q, day'[v]) =>
           reply.kind = "ok" /\ v <= reply.version
  BY <1>3, <1>5, <1>6, <1>7, AnswerAccounts DEF Accounted
<1> QED BY <1>2, <1>3, <1>7, <1>8, <1>9, ReplayedHeard DEF Accounted

LEMMA ReplayedUnanswered ==
  ASSUME TypeOK, Sane, Grown, Next, Accounted, exec.phase = "replay",
         NEW kind \in {"invalid", "silence"}, Hear([kind |-> kind, version |-> 0])
  PROVE  Replayed'
<1>1. exec.todo \in Seq(Memories) /\ exec.todo # <<>>
  BY ListsAreMemories DEF TypeOK, Executor, Sane, Reading
<1>2. PICK q \in Memories : q = Head(exec.todo)
  BY <1>1
<1> DEFINE reply == [kind |-> kind, version |-> 0]
<1>3. Hear(reply) /\ reply.kind \in {"invalid", "silence"} /\ reply.kind \in Kinds /\ reply.version \in Nat
  BY DEF Kinds
<1> HIDE DEF reply
<1> QED BY <1>2, <1>3, ReplayedHeard DEF Accounted

\* An executor that waits for another reply does not come to replay by it.
LEMMA HeardElsewhere ==
  ASSUME TypeOK, Sane, exec.phase \in {"post", "amend"},
         Answered \/ Invalid \/ Unheard
  PROVE  exec'.phase \notin {"replay", "reread"} /\ exec'.conflict = exec.conflict
<1>1. /\ rows \in [Op -> Row] /\ exec \in Executor /\ Len(exec.prior) <= PriorMax
      /\ RowsFiled /\ Holds /\ Reading /\ exec.phase \in Asking
      /\ day \in Seq(VersionType) /\ receipts \subseteq ReceiptType
  BY ServerTypes DEF TypeOK, Sane, Asking
<1>2. ASSUME NEW reply, reply.version \in Nat, reply.kind \in Kinds, Hear(reply),
             exec.phase = "post" => reply.kind # "moved"
      PROVE  exec'.phase \notin {"replay", "reread"} /\ exec'.conflict = exec.conflict
  <2>1. Heard(reply)
    BY <1>1, <1>2, HearShape
  <2> QED BY <2>1 DEF Heard, SameHand
<1>3. CASE Answered
  <2>1. PICK reply : reply = ReplyTo(day, receipts, OnWire)
    OBVIOUS
  <2>2. exec.phase = "post" => IsPost(OnWire)
    BY DEF OnWire, OwnPost, Request, PostKey, IsPost
  <2>3. /\ reply.kind \in Kinds /\ reply.version \in Nat
        /\ exec.phase = "post" => reply.kind # "moved"
    BY <1>1, <2>1, <2>2, ReplyShape DEF Kinds
  <2>4. Hear(reply)
    BY <1>3, <2>1 DEF Answered
  <2> QED BY <1>2, <2>3, <2>4
<1>4. ASSUME NEW kind \in {"invalid", "silence"}, Hear([kind |-> kind, version |-> 0])
      PROVE  exec'.phase \notin {"replay", "reread"} /\ exec'.conflict = exec.conflict
  <2> DEFINE reply == [kind |-> kind, version |-> 0]
  <2>1. reply.kind \in {"invalid", "silence"} /\ reply.kind \in Kinds /\ reply.version \in Nat /\ Hear(reply)
    BY <1>4 DEF Kinds
  <2> HIDE DEF reply
  <2> QED BY <1>2, <2>1
<1>5. CASE Invalid
  BY <1>4, <1>5 DEF Invalid
<1>6. CASE Unheard
  BY <1>4, <1>6 DEF Unheard
<1> QED BY <1>3, <1>5, <1>6

\* The hand of each step that leaves the replays: no conflict comes of it, but of
\* the second read.
LEMMA HandCases ==
  ASSUME TypeOK, Sane, Next
  PROVE  \/ exec' = exec
         \/ exec'.phase \notin {"replay", "reread"} /\ (exec'.conflict => exec.conflict)
         \/ exec.phase = "replay" /\ (Answered \/ Invalid \/ Unheard)
         \/ exec' = [Replaying(exec.prior, exec.prior, 0) EXCEPT !.replayed = exec.prior]
         \/ exec'.phase \notin {"replay", "reread"} /\ ReadDayAgain
<1>1. /\ rows \in [Op -> Row] /\ exec \in Executor /\ Len(exec.prior) <= PriorMax
      /\ RowsFiled /\ Holds
  BY DEF TypeOK, Sane
<1> DEFINE Quietly == exec'.phase \notin {"replay", "reread"} /\ (exec'.conflict => exec.conflict)
<1>2. ASSUME exec' = Resting PROVE Quietly
  BY <1>2 DEF Resting
<1>3. ASSUME NEW verdict \in Verdicts, NEW conflict \in BOOLEAN, Finished(verdict, conflict),
             exec.phase \in {"read", "reread"}
      PROVE  exec'.phase = "settle" /\ exec'.conflict = conflict
  BY <1>1, <1>3, FinishedShape DEF InHand
<1>4. ASSUME NEW base \in Nat, AmendFrom(base), exec.phase \in {"read", "reread"}
      PROVE  Quietly
  <2>1. exec'.phase = "amend" /\ SameHand(exec')
    BY <1>1, <1>4, AmendShape DEF InHand
  <2> QED BY <2>1 DEF SameHand
<1>5. exec.base \in Nat /\ Version(day) \in Nat
  BY <1>1, ServerTypes DEF Executor
<1>6. {"DELIVERED", "REFUSED", "TRANSPORT"} \subseteq Verdicts
  BY DEF Verdicts
<1>7. CASE Working
  <2>1. CASE SendReturn
    <3>1. exec'.phase = "post" /\ SameHand(exec')
      BY <1>1, <2>1, SendShape
    <3> QED BY <3>1 DEF SameHand
  <2>2. CASE Answered \/ Invalid \/ Unheard
    <3>1. exec.phase \in Asking
      BY <2>2 DEF Answered, Invalid, Unheard
    <3>2. CASE exec.phase \in {"post", "amend"}
      BY <2>2, <3>2, HeardElsewhere
    <3> QED BY <2>2, <3>1, <3>2 DEF Asking
  <2>3. CASE ReadDay
    <3>1. exec.phase = "read"
      BY <2>3 DEF ReadDay
    <3>2. CASE Finished("DELIVERED", FALSE)
      BY <1>3, <1>6, <3>1, <3>2
    <3>3. CASE AmendFrom(exec.base)
      BY <1>4, <1>5, <3>1, <3>3
    <3> QED BY <2>3, <3>2, <3>3 DEF ReadDay
  <2>4. CASE ReadDayAgain
    <3>1. exec.phase = "reread"
      BY <2>4 DEF ReadDayAgain
    <3>2. CASE Finished("DELIVERED", FALSE)
      BY <1>3, <1>6, <3>1, <3>2
    <3>3. ASSUME NEW base \in {exec.base, Version(day)}, AmendFrom(base) PROVE Quietly
      BY <1>4, <1>5, <3>1, <3>3
    <3>4. CASE Finished("REFUSED", TRUE)
      <4>1. exec'.phase = "settle"
        BY <1>3, <1>6, <3>1, <3>4
      <4> QED BY <2>4, <4>1
    <3> QED BY <2>4, <3>2, <3>3, <3>4 DEF ReadDayAgain
  <2>5. CASE ReadFails
    <3>1. exec.phase \in {"read", "reread"} /\ Finished("TRANSPORT", FALSE)
      BY <2>5 DEF ReadFails
    <3> QED BY <1>3, <1>6, <3>1
  <2> QED BY <1>7, <2>1, <2>2, <2>3, <2>4, <2>5 DEF Working
<1>8. CASE Claim
  <2>1. CASE exec' = Resting
    BY <1>2, <2>1
  <2>2. PICK row : \/ exec' = Resting
                   \/ exec' = [exec EXCEPT !.phase = "claimed", !.fig = row.fig, !.nth = row.nth,
                                           !.prior = Trim(row.prior), !.base = row.base]
    BY <1>8 DEF Claim
  <2>3. CASE exec' = [exec EXCEPT !.phase = "claimed", !.fig = row.fig, !.nth = row.nth,
                                  !.prior = Trim(row.prior), !.base = row.base]
    <3>1. exec'.phase = "claimed" /\ exec'.conflict = exec.conflict
      BY <1>1, <2>3 DEF Executor
    <3> QED BY <3>1
  <2> QED BY <2>1, <2>2, <2>3
<1>9. CASE Settle \/ Restart
  BY <1>2, <1>9 DEF Settle, Restart
<1>10. ASSUME NEW i \in Op, LookAhead(i) PROVE Quietly
  <2>1. exec' = [Resting EXCEPT !.phase = "checked", !.op = i, !.fig = rows[i].fig, !.nth = rows[i].nth]
    BY <1>10 DEF LookAhead
  <2>2. exec'.phase = "checked" /\ exec'.conflict = FALSE
    BY <2>1 DEF Resting
  <2> QED BY <2>2
<1>11. CASE \/ Look \/ \E f \in Figures : File(f) \/ SomebodyElseWrites(f)
            \/ \E i \in Op : Retry(i) \/ Discard(i) \/ BackoffElapses(i)
            \/ \E r \in late : LateArrival(r)
  BY <1>11, Zenon DEF Look, File, SomebodyElseWrites, Retry, Discard, BackoffElapses, LateArrival
<1> QED BY <1>7, <1>8, <1>9, <1>10, <1>11, StepCases

LEMMA AccountedStays ==
  ASSUME TypeOK, Sane, Accounted, Next
  PROVE  Accounted'
<1>1. Grown
  BY ServerGrows
<1>2. DayReceipted' /\ Carries(Past)'
  BY <1>1, DayReceiptedStays, PastStays DEF Accounted
<1>3. Replayed'
  <2>1. CASE exec' = exec
    BY <1>1, <2>1, ReplayedWaits DEF Accounted
  <2>2. CASE exec'.phase \notin {"replay", "reread"}
    BY <2>2 DEF Replayed
  <2>3. CASE exec.phase = "replay" /\ Answered
    BY <1>1, <2>3, ReplayedAnswered
  <2>4. CASE exec.phase = "replay" /\ Invalid
    BY <1>1, <2>4, ReplayedUnanswered DEF Invalid
  <2>5. CASE exec.phase = "replay" /\ Unheard
    BY <1>1, <2>5, ReplayedUnanswered DEF Unheard
  <2>6. CASE exec' = [Replaying(exec.prior, exec.prior, 0) EXCEPT !.replayed = exec.prior]
    <3>1. /\ exec'.replayed = exec.prior /\ exec'.todo = exec.prior
          /\ exec'.phase = (IF exec.prior = <<>> THEN "reread" ELSE "replay")
      BY <2>6, ReplayBegins
    <3>2. exec.prior \in Seq(Memories) /\ Len(exec.prior) \in Nat
      BY ListsAreMemories DEF TypeOK, Executor
    <3>3. Replays' = 0
      BY <3>1, <3>2 DEF Replays
    <3> QED BY <3>1, <3>3 DEF Replayed
  <2> QED BY <2>1, <2>2, <2>3, <2>4, <2>5, <2>6, HandCases
<1> QED BY <1>2, <1>3 DEF Accounted

\* A conflict is not one when the day's version is known to be this phone's.
LEMMA ConflictCause ==
  ASSUME TypeOK, Sane, Accounted, Next, exec'.conflict, ~exec.conflict
  PROVE  exec.clouded \/ ~ByOneOf(exec.replayed)
<1>1. exec \in Executor /\ Version(day) \in Nat /\ exec.ours \in Nat /\ exec.ours <= Version(day)
  BY ServerTypes DEF TypeOK, Executor, Sane, OursTrue
<1>2. ReadDayAgain
  <2>1. CASE exec.phase = "replay" /\ (Answered \/ Invalid \/ Unheard)
    <3>1. exec.todo # <<>> /\ Len(exec.prior) <= PriorMax
      BY <2>1 DEF TypeOK, Sane, Reading
    <3>2. ASSUME NEW reply, reply.version \in Nat, reply.kind \in Kinds, Hear(reply) PROVE FALSE
      BY <1>1, <2>1, <3>1, <3>2, ReplayHeard
    <3>3. CASE Answered
      <4>1. PICK reply : reply = ReplyTo(day, receipts, OnWire)
        OBVIOUS
      <4>2. reply.kind \in Kinds /\ reply.version \in Nat
        BY <4>1, ServerTypes, ReplyShape DEF Kinds
      <4> QED BY <3>2, <3>3, <4>1, <4>2 DEF Answered
    <3>4. ASSUME NEW kind \in {"invalid", "silence"}, Hear([kind |-> kind, version |-> 0]) PROVE FALSE
      <4> DEFINE reply == [kind |-> kind, version |-> 0]
      <4>1. reply.kind \in Kinds /\ reply.version \in Nat /\ Hear(reply)
        BY <3>4 DEF Kinds
      <4> HIDE DEF reply
      <4> QED BY <3>2, <4>1
    <3> QED BY <2>1, <3>3, <3>4 DEF Invalid, Unheard
  <2>2. CASE exec' = [Replaying(exec.prior, exec.prior, 0) EXCEPT !.replayed = exec.prior]
    BY <2>2, ReplayBegins
  <2> QED BY <2>1, <2>2, HandCases
<1>3. exec.ours # Version(day)
  <2>1. exec.phase = "reread"
    BY <1>2 DEF ReadDayAgain
  <2>2. ASSUME exec.ours = Version(day) PROVE FALSE
    <3>1. Finished("DELIVERED", FALSE) \/ AmendFrom(Version(day))
      BY <1>2, <2>2 DEF ReadDayAgain
    <3>2. /\ rows \in [Op -> Row] /\ Len(exec.prior) <= PriorMax /\ RowsFiled /\ Holds /\ InHand
          /\ "DELIVERED" \in Verdicts
      BY <2>1 DEF TypeOK, Sane, InHand, Verdicts
    <3>3. CASE Finished("DELIVERED", FALSE)
      BY <1>1, <3>2, <3>3, FinishedShape
    <3>4. CASE AmendFrom(Version(day))
      <4>1. SameHand(exec')
        BY <1>1, <3>2, <3>4, AmendShape
      <4> QED BY <4>1 DEF SameHand
    <3> QED BY <3>1, <3>3, <3>4
  <2> QED BY <2>2
<1>4. exec.phase = "reread" /\ day # <<>>
  BY <1>2 DEF ReadDayAgain, Sane, Reading
<1> SUFFICES ASSUME ~exec.clouded, ByOneOf(exec.replayed) PROVE FALSE
  OBVIOUS
<1>5. PICK i \in DOMAIN exec.replayed : SameRequest(exec.replayed[i], day[Version(day)])
  BY DEF ByOneOf
<1>6. i \in 1 .. Replays
  <2>1. exec.replayed \in Seq(Memories) /\ exec.todo = <<>>
    BY <1>1, <1>4, ListsAreMemories DEF Executor, Accounted, Replayed
  <2>2. Replays = Len(exec.replayed)
    BY <2>1 DEF Replays
  <2> QED BY <1>5, <2>1, <2>2
<1>7. Version(day) \in 1 .. Version(day) /\ Crew(Version(day))
  <2>1. Version(day) # 0
    BY <1>4, ServerTypes DEF Version
  <2> QED BY <1>1, <2>1 DEF ByOneOf, Crew
<1>8. Version(day) <= exec.ours
  BY <1>4, <1>5, <1>6, <1>7 DEF Accounted, Replayed, Known
<1> QED BY <1>1, <1>3, <1>8

-----------------------------------------------------------------------------
(* The phone's own work.  First what is left on a list: each request once,  *)
(* and, unless there is no room, all of them but those that a landed one    *)
(* answers for.                                                             *)

\* Two that landed under one request landed as one version.
LandedAlike(R) ==
  /\ \A p \in R : p.landed \in Nat
  /\ \A p, q \in R : SameRequest(p, q) /\ p.landed > 0 /\ q.landed > 0 => p.landed = q.landed

\* The request is on the list, and what is known of where it landed.
OnList(list, p) ==
  \E j \in 1 .. Len(list) : SameRequest(list[j], p) /\ p.landed <= list[j].landed

\* One more request on a list that has each once.
Joined(out, p) ==
  LET i == IndexOf(out, p)
  IN  IF i = 0 THEN Append(out, p)
      ELSE IF p.landed > 0 THEN [out EXCEPT ![i] = p] ELSE out

LEMMA JoinedKeeps ==
  ASSUME NEW R, LandedAlike(R), NEW out \in Seq(R), NEW p \in R
  PROVE  /\ Joined(out, p) \in Seq(R) /\ Len(Joined(out, p)) <= Len(out) + 1
         /\ OnList(Joined(out, p), p)
         /\ \A q \in R : OnList(out, q) => OnList(Joined(out, p), q)
<1> PICK i : i = IndexOf(out, p)
  OBVIOUS
<1>1. /\ i \in 0 .. Len(out) /\ Len(out) \in Nat
      /\ i # 0 => SameRequest(out[i], p)
  BY IndexOfType
<1>2. \A q \in R : q.landed \in Nat
  BY DEF LandedAlike
<1>3. CASE i = 0
  <2> DEFINE new == Append(out, p)
  <2>1. Joined(out, p) = new
    BY <1>3, Zenon DEF Joined
  <2>2. /\ new \in Seq(R) /\ Len(new) = Len(out) + 1 /\ new[Len(out) + 1] = p
        /\ \A j \in 1 .. Len(out) : new[j] = out[j]
    BY <1>1
  <2> HIDE DEF new
  <2>3. Len(out) + 1 \in 1 .. Len(new) /\ \A j \in 1 .. Len(out) : j \in 1 .. Len(new)
    BY <1>1, <2>2
  <2>4. OnList(new, p)
    BY <1>2, <2>2, <2>3 DEF OnList, SameRequest
  <2>5. \A q \in R : OnList(out, q) => OnList(new, q)
    BY <2>2, <2>3 DEF OnList
  <2> QED BY <1>1, <2>1, <2>2, <2>4, <2>5
<1>4. CASE i # 0 /\ p.landed > 0
  <2> DEFINE new == [out EXCEPT ![i] = p]
  <2>1. Joined(out, p) = new
    BY <1>4, Zenon DEF Joined
  <2>2. i \in 1 .. Len(out)
    BY <1>1, <1>4
  <2>3. /\ new \in Seq(R) /\ Len(new) = Len(out) /\ new[i] = p
        /\ \A j \in 1 .. Len(out) : j # i => new[j] = out[j]
    BY <2>2
  <2> HIDE DEF new
  <2>4. OnList(new, p)
    BY <1>2, <2>2, <2>3 DEF OnList, SameRequest
  <2>5. ASSUME NEW q \in R, OnList(out, q) PROVE OnList(new, q)
    <3>1. PICK j \in 1 .. Len(out) : SameRequest(out[j], q) /\ q.landed <= out[j].landed
      BY <2>5 DEF OnList
    <3>2. CASE j # i
      BY <2>3, <3>1, <3>2 DEF OnList
    <3>3. CASE j = i
      <4>1. SameRequest(out[i], p) /\ out[i] \in R /\ SameRequest(p, q)
        BY <1>1, <1>4, <2>2, <3>1, <3>3 DEF SameRequest
      <4>2. out[i].landed \in Nat /\ q.landed \in Nat /\ p.landed \in Nat
        BY <1>2, <4>1
      <4>3. out[i].landed > 0 => out[i].landed = p.landed
        BY <1>4, <4>1 DEF LandedAlike
      <4>4. q.landed <= p.landed
        BY <1>4, <3>1, <3>3, <4>2, <4>3
      <4> QED BY <2>2, <2>3, <4>1, <4>4 DEF OnList
    <3> QED BY <3>2, <3>3
  <2> QED BY <1>1, <2>1, <2>3, <2>4, <2>5
<1>5. CASE i # 0 /\ ~(p.landed > 0)
  <2>1. Joined(out, p) = out
    BY <1>5, Zenon DEF Joined
  <2>2. i \in 1 .. Len(out) /\ out[i] \in R
    BY <1>1, <1>5
  <2>3. p.landed = 0 /\ out[i].landed \in Nat
    BY <1>2, <1>5, <2>2
  <2>4. OnList(out, p)
    BY <1>1, <1>5, <2>2, <2>3 DEF OnList
  <2> QED BY <1>1, <2>1, <2>4
<1> QED BY <1>3, <1>4, <1>5

\* Each request once: all of them.
LEMMA OnceHasAll ==
  ASSUME NEW R, LandedAlike(R), NEW list \in Seq(R)
  PROVE  /\ Once(list) \in Seq(R) /\ Len(Once(list)) <= Len(list)
         /\ \A m \in 1 .. Len(list) : OnList(Once(list), list[m])
<1> DEFINE n == Len(list)
           Eq(h) == h = [s \in SUBSET (1 .. n) |-> IF s = {} THEN <<>>
                           ELSE Joined(h[s \ {Max(s)}], list[Max(s)])]
           iter == CHOOSE h : Eq(h)
           step == [q \in (1 .. n) \X Seq(R) |-> Joined(q[2], list[q[1]])]
<1>1. Once(list) = iter[1 .. n]
  <2>1. DOMAIN list = 1 .. n
    OBVIOUS
  <2> QED BY <2>1, Zenon DEF Once, FoldLeft, MapThenFoldSet, Joined
<1>2. ASSUME NEW out \in Seq(R), NEW k \in 1 .. n
      PROVE  /\ Joined(out, list[k]) \in Seq(R) /\ Len(Joined(out, list[k])) <= Len(out) + 1
             /\ OnList(Joined(out, list[k]), list[k])
             /\ \A q \in R : OnList(out, q) => OnList(Joined(out, list[k]), q)
  <2>1. list[k] \in R
    OBVIOUS
  <2> QED BY <2>1, JoinedKeeps
<1>3. step \in [(1 .. n) \X Seq(R) -> Seq(R)] /\ n \in Nat /\ <<>> \in Seq(R)
  <2>1. n \in Nat /\ <<>> \in Seq(R)
    OBVIOUS
  <2>2. \A q \in (1 .. n) \X Seq(R) : Joined(q[2], list[q[1]]) \in Seq(R)
    <3> HIDE DEF n
    <3> QED BY <1>2
  <2>3. step \in [(1 .. n) \X Seq(R) -> Seq(R)]
    <3> HIDE DEF n
    <3> QED BY <2>2, Zenon
  <2> QED BY <2>1, <2>3
<1>4. PICK h \in [SUBSET (1 .. n) -> Seq(R)] : ListSteps(n, <<>>, step, h)
  <2> HIDE DEF step, n
  <2> QED BY <1>3, ListFoldExists
<1>5. Eq(h)
  <2>1. ASSUME NEW s \in SUBSET (1 .. n), s # {}
        PROVE  step[<<Max(s), h[s \ {Max(s)}]>>] = Joined(h[s \ {Max(s)}], list[Max(s)])
    <3>1. Max(s) \in 1 .. n /\ h[s \ {Max(s)}] \in Seq(R)
      BY <1>3, <2>1, MaxOfNumbers
    <3> QED BY <3>1
  <2>2. \A s \in SUBSET (1 .. n) :
          (IF s = {} THEN <<>> ELSE step[<<Max(s), h[s \ {Max(s)}]>>])
            = (IF s = {} THEN <<>> ELSE Joined(h[s \ {Max(s)}], list[Max(s)]))
    <3> HIDE DEF step, n
    <3> QED BY <2>1, Zenon
  <2> HIDE DEF step, n
  <2>3. h = [s \in SUBSET (1 .. n) |-> IF s = {} THEN <<>>
                                       ELSE step[<<Max(s), h[s \ {Max(s)}]>>]]
    BY <1>4 DEF ListSteps, Steps, LastOf
  <2> QED BY <2>2, <2>3, Zenon
<1>6. iter = [s \in SUBSET (1 .. n) |-> IF s = {} THEN <<>>
                           ELSE Joined(iter[s \ {Max(s)}], list[Max(s)])]
  <2> HIDE DEF n
  <2> QED BY <1>5, Zenon
<1> HIDE DEF iter, Eq, step
<1> DEFINE Has(out, k) == \A m \in 1 .. k : OnList(out, list[m])
           W == [k \in 0 .. n |-> {out \in Seq(R) : Len(out) <= k /\ Has(out, k)}]
<1>7. iter[{}] \in W[0]
  <2>1. {} \in SUBSET (1 .. n)
    OBVIOUS
  <2>2. iter[{}] = <<>>
    BY <1>6, <2>1
  <2> QED BY <1>3, <2>2
<1>8. ASSUME NEW k \in 1 .. n, iter[1 .. k - 1] \in W[k - 1] PROVE iter[1 .. k] \in W[k]
  <2>1. Max(1 .. k) = k /\ (1 .. k) \ {Max(1 .. k)} = 1 .. k - 1
    BY MaxOfInterval
  <2>2. 1 .. k \in SUBSET (1 .. n) /\ 1 .. k # {}
    <3>1. n \in Nat /\ k \in 1 .. n /\ k \in Nat
      BY <1>3
    <3> HIDE DEF n
    <3>2. k \in 1 .. k
      BY <3>1
    <3>3. ASSUME NEW x \in 1 .. k PROVE x \in 1 .. n
      BY <3>1
    <3> QED BY <3>2, <3>3
  <2>3. iter[1 .. k] = Joined(iter[(1 .. k) \ {Max(1 .. k)}], list[Max(1 .. k)])
    BY <1>6, <2>2
  <2>0. \A m \in 1 .. n : list[m] \in R
    OBVIOUS
  <2> HIDE DEF n
  <2>4. k \in Nat /\ k - 1 \in 0 .. n /\ k \in 0 .. n
    BY <1>3
  <2>5. PICK out : out = iter[1 .. k - 1]
    OBVIOUS
  <2>6. out \in Seq(R) /\ Len(out) <= k - 1 /\ Len(out) \in Nat /\ Has(out, k - 1)
    BY <1>8, <2>4, <2>5
  <2>7. PICK new : new = Joined(out, list[k])
    OBVIOUS
  <2>8. /\ new \in Seq(R) /\ Len(new) \in Nat /\ Len(new) <= Len(out) + 1 /\ OnList(new, list[k])
        /\ \A q \in R : OnList(out, q) => OnList(new, q)
    <3>1. /\ new \in Seq(R) /\ Len(new) <= Len(out) + 1 /\ OnList(new, list[k])
          /\ \A q \in R : OnList(out, q) => OnList(new, q)
      BY <1>2, <2>6, <2>7, Zenon
    <3>2. Len(new) \in Nat
      BY ONLY <3>1
    <3> QED BY <3>1, <3>2, Zenon
  <2>9. Len(new) <= k
    BY <2>4, <2>6, <2>8
  <2>10. Has(new, k)
    <3>1. ASSUME NEW m \in 1 .. k PROVE m = k \/ (m \in 1 .. k - 1 /\ m \in 1 .. n)
      BY <1>3, <2>4
    <3> QED BY <2>0, <2>6, <2>8, <3>1
  <2> HIDE DEF Has
  <2> QED BY <2>1, <2>3, <2>4, <2>5, <2>7, <2>8, <2>9, <2>10
<1>9. iter[1 .. n] \in W[n]
  <2> HIDE DEF W, n
  <2> QED BY <1>3, <1>7, <1>8, ListFoldReaches
<1>10. iter[1 .. n] \in Seq(R) /\ Len(iter[1 .. n]) <= n /\ Has(iter[1 .. n], n)
  <2> HIDE DEF n, Has
  <2> QED BY <1>3, <1>9
<1> QED BY <1>1, <1>10


Appears(list, p) == \E j \in 1 .. Len(list) : list[j] = p

\* What is left of a list: all that was to be kept.
LEMMA FilterHasKept ==
  ASSUME NEW R, NEW list \in Seq(R), NEW kept
  PROVE  \A m \in 1 .. Len(list) : list[m] \in kept => Appears(Filter(list, kept), list[m])
<1> DEFINE n == Len(list)
           Add(out, p) == IF p \in kept THEN Append(out, p) ELSE out
           Eq(h) == h = [s \in SUBSET (1 .. n) |-> IF s = {} THEN <<>>
                           ELSE Add(h[s \ {Max(s)}], list[Max(s)])]
           iter == CHOOSE h : Eq(h)
           step == [q \in (1 .. n) \X Seq(R) |-> Add(q[2], list[q[1]])]
<1>1. Filter(list, kept) = iter[1 .. n]
  <2>1. DOMAIN list = 1 .. n
    OBVIOUS
  <2> QED BY <2>1, Zenon DEF Filter, FoldLeft, MapThenFoldSet
<1>2. ASSUME NEW out \in Seq(R), NEW k \in 1 .. n
      PROVE  /\ Add(out, list[k]) \in Seq(R)
             /\ list[k] \in kept => Appears(Add(out, list[k]), list[k])
             /\ \A p : Appears(out, p) => Appears(Add(out, list[k]), p)
  <2>0. list[k] \in R
    OBVIOUS
  <2>1. CASE list[k] \in kept
    <3> DEFINE new == Append(out, list[k])
    <3>1. /\ new \in Seq(R) /\ Len(new) = Len(out) + 1 /\ new[Len(out) + 1] = list[k]
          /\ \A j \in 1 .. Len(out) : new[j] = out[j]
      BY <2>0
    <3>2. Add(out, list[k]) = new
      BY <2>1
    <3> HIDE DEF new, Add
    <3>3. Len(out) \in Nat
      OBVIOUS
    <3>4. Len(out) + 1 \in 1 .. Len(new) /\ \A j \in 1 .. Len(out) : j \in 1 .. Len(new)
      BY ONLY <3>1, <3>3
    <3>5. Appears(new, list[k]) /\ \A p : Appears(out, p) => Appears(new, p)
      BY <3>1, <3>4 DEF Appears
    <3> QED BY <3>1, <3>2, <3>5
  <2>2. CASE list[k] \notin kept
    BY <2>2
  <2> QED BY <2>1, <2>2
<1> HIDE DEF Add
<1>3. step \in [(1 .. n) \X Seq(R) -> Seq(R)] /\ n \in Nat /\ <<>> \in Seq(R)
  BY <1>2
<1>4. PICK h \in [SUBSET (1 .. n) -> Seq(R)] : ListSteps(n, <<>>, step, h)
  <2> HIDE DEF step, n
  <2> QED BY <1>3, ListFoldExists
<1>5. Eq(h)
  <2>1. ASSUME NEW s \in SUBSET (1 .. n), s # {}
        PROVE  step[<<Max(s), h[s \ {Max(s)}]>>] = Add(h[s \ {Max(s)}], list[Max(s)])
    <3>1. Max(s) \in 1 .. n /\ h[s \ {Max(s)}] \in Seq(R)
      BY <1>3, <2>1, MaxOfNumbers
    <3> QED BY <3>1
  <2>2. \A s \in SUBSET (1 .. n) :
          (IF s = {} THEN <<>> ELSE step[<<Max(s), h[s \ {Max(s)}]>>])
            = (IF s = {} THEN <<>> ELSE Add(h[s \ {Max(s)}], list[Max(s)]))
    <3> HIDE DEF step, n
    <3> QED BY <2>1, Zenon
  <2> HIDE DEF step, n
  <2>3. h = [s \in SUBSET (1 .. n) |-> IF s = {} THEN <<>>
                                       ELSE step[<<Max(s), h[s \ {Max(s)}]>>]]
    BY <1>4 DEF ListSteps, Steps, LastOf
  <2> QED BY <2>2, <2>3, Zenon
<1>6. iter = [s \in SUBSET (1 .. n) |-> IF s = {} THEN <<>>
                           ELSE Add(iter[s \ {Max(s)}], list[Max(s)])]
  <2> HIDE DEF n
  <2> QED BY <1>5, Zenon
<1> HIDE DEF iter, Eq, step
<1> DEFINE Has(out, k) == \A m \in 1 .. k : list[m] \in kept => Appears(out, list[m])
           W == [k \in 0 .. n |-> {out \in Seq(R) : Has(out, k)}]
<1>7. iter[{}] \in W[0]
  <2>1. {} \in SUBSET (1 .. n)
    OBVIOUS
  <2>2. iter[{}] = <<>>
    BY <1>6, <2>1
  <2> QED BY <1>3, <2>2
<1>8. ASSUME NEW k \in 1 .. n, iter[1 .. k - 1] \in W[k - 1] PROVE iter[1 .. k] \in W[k]
  <2>1. Max(1 .. k) = k /\ (1 .. k) \ {Max(1 .. k)} = 1 .. k - 1
    BY MaxOfInterval
  <2>2. 1 .. k \in SUBSET (1 .. n) /\ 1 .. k # {}
    <3>1. n \in Nat /\ k \in 1 .. n /\ k \in Nat
      BY <1>3
    <3> HIDE DEF n
    <3>2. k \in 1 .. k
      BY <3>1
    <3>3. ASSUME NEW x \in 1 .. k PROVE x \in 1 .. n
      BY <3>1
    <3> QED BY <3>2, <3>3
  <2>3. iter[1 .. k] = Add(iter[(1 .. k) \ {Max(1 .. k)}], list[Max(1 .. k)])
    BY <1>6, <2>2
  <2> HIDE DEF n
  <2>4. k \in Nat /\ k - 1 \in 0 .. n /\ k \in 0 .. n
    BY <1>3
  <2>5. PICK out : out = iter[1 .. k - 1]
    OBVIOUS
  <2>6. out \in Seq(R) /\ Has(out, k - 1)
    BY <1>8, <2>4, <2>5
  <2>7. PICK new : new = Add(out, list[k])
    OBVIOUS
  <2>8. /\ new \in Seq(R) /\ (list[k] \in kept => Appears(new, list[k]))
        /\ \A p : Appears(out, p) => Appears(new, p)
    BY <1>2, <2>6, <2>7, Zenon
  <2>10. Has(new, k)
    <3>1. ASSUME NEW m \in 1 .. k PROVE m = k \/ m \in 1 .. k - 1
      BY <1>3, <2>4
    <3> QED BY <2>6, <2>8, <3>1
  <2> HIDE DEF Has
  <2> QED BY <2>1, <2>3, <2>4, <2>5, <2>7, <2>8, <2>10
<1>9. iter[1 .. n] \in W[n]
  <2> HIDE DEF W, n
  <2> QED BY <1>3, <1>7, <1>8, ListFoldReaches
<1>10. Has(iter[1 .. n], n)
  <2> HIDE DEF n, Has
  <2> QED BY <1>3, <1>9
<1> QED BY <1>1, <1>10

\* The latest landed is one that landed, and none landed later.
LEMMA BestIsLatest ==
  ASSUME NEW R, NEW list \in Seq(R), BestIndex(list) # 0
  PROVE  /\ BestIndex(list) \in 1 .. Len(list) /\ list[BestIndex(list)].landed > 0
         /\ \A j \in 1 .. Len(list) : list[j].landed <= list[BestIndex(list)].landed
<1> DEFINE I == {i \in 1 .. Len(list) : list[i].landed > 0
                   /\ \A j \in DOMAIN list : list[j].landed <= list[i].landed}
<1>1. BestIndex(list) = IF I # {} THEN Min(I) ELSE 0
  BY Zenon DEF BestIndex, SelectInSeq
<1>2. I \in SUBSET Nat
  OBVIOUS
<1>3. DOMAIN list = 1 .. Len(list)
  OBVIOUS
<1> HIDE DEF I
<1>4. I # {}
  BY <1>1
<1>5. \E x \in I : \A y \in I : x <= y
  BY <1>2, <1>4, Least
<1>6. Min(I) \in I
  BY <1>5 DEF Min
<1>7. BestIndex(list) \in I
  BY <1>1, <1>4, <1>6, Zenon
<1> QED BY <1>3, <1>7, Zenon DEF I

\* A landed request answers for another: that one landed no later, or is no
\* more than another body under its key.
AnswersFor(b, p) == b.landed > 0 /\ p.landed <= b.landed /\ (p.landed > 0 \/ p.key = b.key)

LEMMA RelevantHas ==
  ASSUME NEW R, \A p \in R : p.landed \in Nat, NEW list \in Seq(R)
  PROVE  /\ Relevant(list) \in Seq(R) /\ Len(Relevant(list)) <= Len(list)
         /\ \A m \in 1 .. Len(list) :
              \/ Appears(Relevant(list), list[m])
              \/ \E b \in R : Appears(Relevant(list), b) /\ AnswersFor(b, list[m])
<1>1. CASE BestIndex(list) = 0
  <2>1. Relevant(list) = list
    BY <1>1 DEF Relevant
  <2> QED BY <2>1 DEF Appears
<1>2. CASE BestIndex(list) # 0
  <2> PICK b : b = BestIndex(list)
    OBVIOUS
  <2> DEFINE kept == {p \in Range(list) : p = list[b] \/ (p.landed = 0 /\ p.key # list[b].key)}
  <2>1. Relevant(list) = Filter(list, kept)
    BY <1>2, Zenon DEF Relevant
  <2>2. /\ b \in 1 .. Len(list) /\ list[b] \in R /\ list[b].landed > 0
        /\ \A j \in 1 .. Len(list) : list[j].landed <= list[b].landed /\ list[j] \in Range(list)
    <3>1. \A j \in 1 .. Len(list) : list[j] \in Range(list)
      BY DEF Range
    <3>2. b \in 1 .. Len(list) /\ list[b].landed > 0
          /\ \A j \in 1 .. Len(list) : list[j].landed <= list[b].landed
      BY <1>2, BestIsLatest
    <3> QED BY <3>1, <3>2
  <2>3. \A m \in 1 .. Len(list) : list[m] \in kept => Appears(Relevant(list), list[m])
    <3> HIDE DEF kept
    <3> QED BY <2>1, FilterHasKept
  <2>4. Appears(Relevant(list), list[b])
    BY <2>2, <2>3
  <2>5. ASSUME NEW m \in 1 .. Len(list), ~Appears(Relevant(list), list[m])
        PROVE  AnswersFor(list[b], list[m])
    <3>1. list[m] \notin kept /\ list[m] \in R /\ list[m].landed \in Nat
      BY <2>3, <2>5
    <3>2. list[m].landed # 0 \/ list[m].key = list[b].key
      BY <2>2, <3>1
    <3> HIDE DEF kept
    <3> QED BY <2>2, <3>1, <3>2 DEF AnswersFor
  <2>6. Relevant(list) \in Seq(R) /\ Len(Relevant(list)) <= Len(list)
    <3> HIDE DEF kept
    <3> QED BY <2>1, FilterKeeps
  <2> HIDE DEF kept
  <2> QED BY <2>2, <2>4, <2>5, <2>6
<1> QED BY <1>1, <1>2


\* What a list says of a receipt: the request, or something later of the phone's.
Recalls(list, k) ==
  \E j \in 1 .. Len(list) : SameRequest(list[j], k) \/ list[j].landed > k.version

\* Whatever answers for the request says of it what it says.
Tells(R, k) ==
  \A p, b \in R : SameRequest(p, k) /\ AnswersFor(b, p) => SameRequest(b, k) \/ b.landed > k.version

LEMMA OnceRecalls ==
  ASSUME NEW R, LandedAlike(R), NEW list \in Seq(R), NEW k, k.version \in Nat, Recalls(list, k)
  PROVE  Recalls(Once(list), k)
<1> PICK once : once = Once(list)
  OBVIOUS
<1>1. once \in Seq(R) /\ \A m \in 1 .. Len(list) : OnList(once, list[m])
  BY OnceHasAll
<1>2. PICK m \in 1 .. Len(list) : SameRequest(list[m], k) \/ list[m].landed > k.version
  BY DEF Recalls
<1>3. PICK j \in 1 .. Len(once) : SameRequest(once[j], list[m]) /\ list[m].landed <= once[j].landed
  BY <1>1 DEF OnList
<1>4. list[m] \in R /\ once[j] \in R
  BY <1>1
<1>5. list[m].landed \in Nat /\ once[j].landed \in Nat
  BY <1>4 DEF LandedAlike
<1>6. list[m].landed > k.version => once[j].landed > k.version
  BY <1>3, <1>5
<1>7. SameRequest(list[m], k) => SameRequest(once[j], k)
  BY <1>3 DEF SameRequest
<1> QED BY <1>2, <1>6, <1>7 DEF Recalls

LEMMA RelevantRecalls ==
  ASSUME NEW R, \A p \in R : p.landed \in Nat, NEW list \in Seq(R), NEW k, k.version \in Nat,
         Tells(R, k), Recalls(list, k)
  PROVE  Recalls(Relevant(list), k)
<1> PICK left : left = Relevant(list)
  OBVIOUS
<1>1. /\ left \in Seq(R)
      /\ \A m \in 1 .. Len(list) :
           \/ Appears(left, list[m])
           \/ \E b \in R : Appears(left, b) /\ AnswersFor(b, list[m])
  BY RelevantHas
<1>2. PICK m \in 1 .. Len(list) : SameRequest(list[m], k) \/ list[m].landed > k.version
  BY DEF Recalls
<1>3. list[m] \in R /\ list[m].landed \in Nat
  OBVIOUS
<1>4. CASE Appears(left, list[m])
  BY <1>2, <1>4 DEF Appears, Recalls
<1>5. ASSUME NEW b \in R, Appears(left, b), AnswersFor(b, list[m]) PROVE Recalls(left, k)
  <2>1. list[m].landed > k.version => b.landed > k.version
    BY <1>3, <1>5 DEF AnswersFor
  <2>2. SameRequest(b, k) \/ b.landed > k.version
    BY <1>2, <1>3, <1>5, <2>1 DEF Tells
  <2> QED BY <1>5, <2>2 DEF Appears, Recalls
<1> QED BY <1>1, <1>4, <1>5

\* A list that is not too long is left as it is.
LEMMA TrimFits ==
  ASSUME NEW R, NEW list \in Seq(R), ~Overflows(list)
  PROVE  Trim(list) = Relevant(Once(list))
<1> DEFINE all == Relevant(Once(list))
           n == Len(all)
           Add(out, p) == IF Len(out) > PriorMax THEN RemoveAt(out, Victim(out)) ELSE out
           Eq(h) == h = [s \in SUBSET (1 .. n) |-> IF s = {} THEN all
                           ELSE Add(h[s \ {Max(s)}], all[Max(s)])]
           iter == CHOOSE h : Eq(h)
           g == [s \in SUBSET (1 .. n) |-> all]
<1>0. all \in Seq(R) /\ ~(Len(all) > PriorMax)
  BY OnceKeeps, RelevantKeeps DEF Overflows
<1>1. Trim(list) = iter[1 .. n]
  <2>1. DOMAIN all = 1 .. n
    BY <1>0
  <2> QED BY <2>1, Zenon DEF Trim, FoldLeft, MapThenFoldSet
<1> HIDE DEF all
<1>2. \A p : Add(all, p) = all
  BY <1>0
<1> HIDE DEF Add
<1>3. n \in Nat
  BY <1>0
<1>4. Eq(g)
  <2> HIDE DEF n
  <2>1. ASSUME NEW s \in SUBSET (1 .. n), s # {} PROVE Add(g[s \ {Max(s)}], all[Max(s)]) = all
    <3>1. s \ {Max(s)} \in SUBSET (1 .. n)
      OBVIOUS
    <3>2. g[s \ {Max(s)}] = all
      BY <3>1
    <3> QED BY <1>2, <3>2
  <2>2. \A s \in SUBSET (1 .. n) :
          all = IF s = {} THEN all ELSE Add(g[s \ {Max(s)}], all[Max(s)])
    <3> HIDE DEF g
    <3> QED BY <2>1, Zenon
  <2> QED BY <2>2, Zenon
<1>5. Eq(iter)
  BY <1>4, Zenon
<1>6. iter = [s \in SUBSET (1 .. n) |-> IF s = {} THEN all
                           ELSE Add(iter[s \ {Max(s)}], all[Max(s)])]
  BY <1>5, Zenon
<1> HIDE DEF iter, Eq, g
<1> DEFINE W == [k \in 0 .. n |-> {all}]
<1>7. iter[{}] \in W[0]
  <2>1. {} \in SUBSET (1 .. n)
    OBVIOUS
  <2>2. iter[{}] = all
    BY <1>6, <2>1
  <2> QED BY <1>3, <2>2
<1>8. ASSUME NEW k \in 1 .. n, iter[1 .. k - 1] \in W[k - 1] PROVE iter[1 .. k] \in W[k]
  <2>1. Max(1 .. k) = k /\ (1 .. k) \ {Max(1 .. k)} = 1 .. k - 1
    BY MaxOfInterval
  <2>2. 1 .. k \in SUBSET (1 .. n) /\ 1 .. k # {}
    <3>1. n \in Nat /\ k \in 1 .. n /\ k \in Nat
      BY <1>3
    <3> HIDE DEF n
    <3>2. k \in 1 .. k
      BY <3>1
    <3>3. ASSUME NEW x \in 1 .. k PROVE x \in 1 .. n
      BY <3>1
    <3> QED BY <3>2, <3>3
  <2>3. iter[1 .. k] = Add(iter[(1 .. k) \ {Max(1 .. k)}], all[Max(1 .. k)])
    BY <1>6, <2>2
  <2> HIDE DEF n
  <2>4. k \in Nat /\ k - 1 \in 0 .. n /\ k \in 0 .. n
    BY <1>3
  <2>5. iter[1 .. k - 1] = all
    BY <1>8, <2>4
  <2> QED BY <1>2, <2>1, <2>3, <2>4, <2>5
<1>9. iter[1 .. n] \in W[n]
  <2> HIDE DEF W, n
  <2> QED BY <1>3, <1>7, <1>8, ListFoldReaches
<1>10. iter[1 .. n] = all
  <2> HIDE DEF n
  <2> QED BY <1>3, <1>9
<1> QED BY <1>1, <1>10 DEF all

\* And one that is within its limit is not too long.
LEMMA ShortFits ==
  ASSUME NEW R, LandedAlike(R), NEW list \in Seq(R), Len(list) <= PriorMax
  PROVE  ~Overflows(list)
<1> PICK once, all : once = Once(list) /\ all = Relevant(once)
  OBVIOUS
<1>1. once \in Seq(R) /\ Len(once) <= Len(list)
  BY OnceHasAll
<1>2. all \in Seq(R) /\ Len(all) <= Len(once)
  BY <1>1, RelevantHas DEF LandedAlike
<1>3. Len(all) \in Nat /\ Len(once) \in Nat /\ Len(list) \in Nat
  BY <1>1, <1>2
<1>4. ~(Len(all) > PriorMax)
  BY <1>1, <1>2, <1>3
<1> QED BY <1>4 DEF Overflows

LEMMA TrimRecalls ==
  ASSUME NEW R, LandedAlike(R), NEW list \in Seq(R), ~Overflows(list),
         NEW k, k.version \in Nat, Tells(R, k), Recalls(list, k)
  PROVE  Recalls(Trim(list), k)
<1>1. Once(list) \in Seq(R) /\ Recalls(Once(list), k)
  BY OnceHasAll, OnceRecalls
<1>2. Recalls(Relevant(Once(list)), k)
  BY <1>1, RelevantRecalls DEF LandedAlike
<1> QED BY <1>2, TrimFits

\* Nor is anything forgotten when a request of the list has landed.
LEMMA LandedRecalls ==
  ASSUME NEW R \in SUBSET Memories, LandedAlike(R), NEW list \in Seq(R), Len(list) <= PriorMax,
         NEW request, NEW version \in Nat \ {0},
         \A p \in R : SameRequest(p, request) => [p EXCEPT !.landed = version] \in R
  PROVE  /\ Landed(list, request, version) \in Seq(R)
         /\ \A k : k.version \in Nat /\ Tells(R, k) /\ Recalls(list, k)
                     => Recalls(Landed(list, request, version), k)
<1> PICK i : i = IndexOf(list, request)
  OBVIOUS
<1>1. i \in 0 .. Len(list) /\ (i # 0 => SameRequest(list[i], request))
  BY IndexOfType
<1>2. CASE i = 0
  BY <1>2 DEF Landed
<1>3. CASE i # 0
  <2> PICK new : new = [list[i] EXCEPT !.landed = version]
    OBVIOUS
  <2> DEFINE next == [list EXCEPT ![i].landed = version]
  <2>1. Landed(list, request, version) = Trim(next)
    BY <1>3, Zenon DEF Landed
  <2>2. i \in 1 .. Len(list) /\ list[i] \in R /\ list[i] \in Memories
    BY <1>1, <1>3
  <2>3. new \in R /\ new.key = list[i].key /\ new.fig = list[i].fig /\ new.landed = version
    BY <1>1, <1>3, <2>2 DEF Memories
  <2>4. /\ next \in Seq(R) /\ Len(next) = Len(list) /\ next[i] = new
        /\ \A j \in 1 .. Len(list) : j # i => next[j] = list[j]
    BY <2>2, <2>3
  <2> HIDE DEF next
  <2>5. ~Overflows(next)
    BY <2>4, ShortFits
  <2>6. ASSUME NEW k, k.version \in Nat, Tells(R, k), Recalls(list, k) PROVE Recalls(Trim(next), k)
    <3>1. PICK j \in 1 .. Len(list) : SameRequest(list[j], k) \/ list[j].landed > k.version
      BY <2>6 DEF Recalls
    <3>2. CASE j # i
      <4>1. Recalls(next, k)
        BY <2>4, <3>1, <3>2 DEF Recalls
      <4> QED BY <2>4, <2>5, <2>6, <4>1, TrimRecalls
    <3>3. CASE j = i
      <4>1. SameRequest(list[i], k) => SameRequest(new, k)
        BY <2>3 DEF SameRequest
      <4>2. list[i].landed > k.version => new.landed > k.version
        <5>1. list[i].landed \in Nat /\ SameRequest(list[i], new)
          BY <2>2, <2>3 DEF LandedAlike, SameRequest
        <5>2. list[i].landed > 0 => list[i].landed = new.landed
          <6>1. new.landed > 0
            BY <2>3
          <6> QED BY <2>2, <2>3, <5>1, <6>1, Zenon DEF LandedAlike
        <5> QED BY <2>3, <2>6, <5>1, <5>2
      <4>3. Recalls(next, k)
        BY <2>2, <2>4, <3>1, <3>3, <4>1, <4>2 DEF Recalls
      <4> QED BY <2>4, <2>5, <2>6, <4>3, TrimRecalls
    <3> QED BY <3>2, <3>3
  <2>7. Trim(next) \in Seq(R)
    BY <2>4, TrimKeeps
  <2> QED BY <2>1, <2>6, <2>7
<1> QED BY <1>2, <1>3

\* Nor when one is taken off that never did.
LEMMA DroppedRecalls ==
  ASSUME NEW R, NEW list \in Seq(R), NEW request, NEW k,
         \A p \in R : SameRequest(p, request) => ~SameRequest(p, k) /\ ~(p.landed > k.version),
         Recalls(list, k)
  PROVE  Recalls(Dropped(list, request), k)
<1> DEFINE kept == {q \in Range(list) : ~SameRequest(q, request)}
<1>1. PICK m \in 1 .. Len(list) : SameRequest(list[m], k) \/ list[m].landed > k.version
  BY DEF Recalls
<1>2. list[m] \in R /\ list[m] \in Range(list)
  BY DEF Range
<1>3. list[m] \in kept
  BY <1>1, <1>2
<1>4. Dropped(list, request) = Filter(list, kept)
  BY Zenon DEF Dropped
<1> HIDE DEF kept
<1>5. Appears(Dropped(list, request), list[m])
  BY <1>3, <1>4, FilterHasKept
<1> QED BY <1>1, <1>5 DEF Appears, Recalls

\* A longer list recalls more.
LEMMA LongerRecalls ==
  ASSUME NEW R, NEW a \in Seq(R), NEW b \in Seq(R), NEW k, Recalls(a, k) \/ Recalls(b, k)
  PROVE  Recalls(a \o b, k)
<1>1. /\ Len(a) \in Nat /\ Len(b) \in Nat /\ Len(a \o b) = Len(a) + Len(b)
      /\ \A j \in 1 .. Len(a) : (a \o b)[j] = a[j]
      /\ \A j \in 1 .. Len(b) : (a \o b)[Len(a) + j] = b[j]
  OBVIOUS
<1> PICK c : c = a \o b
  OBVIOUS
<1>2. CASE Recalls(a, k)
  <2>1. PICK j \in 1 .. Len(a) : SameRequest(a[j], k) \/ a[j].landed > k.version
    BY <1>2 DEF Recalls
  <2>2. j \in 1 .. Len(c) /\ c[j] = a[j]
    BY <1>1
  <2> QED BY <2>1, <2>2 DEF Recalls
<1>3. CASE Recalls(b, k)
  <2>1. PICK j \in 1 .. Len(b) : SameRequest(b[j], k) \/ b[j].landed > k.version
    BY <1>3 DEF Recalls
  <2>2. Len(a) + j \in 1 .. Len(c) /\ c[Len(a) + j] = b[j]
    BY <1>1
  <2> QED BY <2>1, <2>2 DEF Recalls
<1> QED BY <1>2, <1>3

LEMMA ChainRecalls ==
  ASSUME NEW R, NEW older, NEW newer \in Seq(R), NEW key, NEW sent, NEW sending,
         older.prior \in Seq(R), sent => Remembered(Request(key, older.fig, older.nth), 0) \in R,
         NEW k, Recalls(older.prior, k) \/ Recalls(newer, k)
  PROVE  Recalls(Chain(older, newer, key, sent, sending), k)
<1> DEFINE unknown == \A i \in DOMAIN older.prior : older.prior[i].key # key
           own == IF sent /\ (sending \/ unknown)
                    THEN <<Remembered(Request(key, older.fig, older.nth), 0)>> ELSE <<>>
<1>1. Chain(older, newer, key, sent, sending) = newer \o older.prior \o own
  BY Zenon DEF Chain
<1>2. own \in Seq(R)
  OBVIOUS
<1> HIDE DEF own
<1>3. newer \o older.prior \in Seq(R) /\ Recalls(newer \o older.prior, k)
  BY LongerRecalls
<1>4. Recalls((newer \o older.prior) \o own, k)
  BY <1>2, <1>3, LongerRecalls
<1> QED BY <1>1, <1>4

LEMMA RecordingRecalls ==
  ASSUME NEW R, exec.prior \in Seq(R), NEW request, Remembered(request, 0) \in R, NEW k,
         Recalls(exec.prior, k) \/ SameRequest(request, k)
  PROVE  Recording(request) \in Seq(R) /\ Recalls(Recording(request), k)
<1> PICK list, new : list = exec.prior /\ new = Remembered(request, 0)
  OBVIOUS
<1> DEFINE next == Append(list, new)
<1>1. Recording(request) = next
  BY DEF Recording
<1>2. /\ next \in Seq(R) /\ Len(next) = Len(list) + 1 /\ next[Len(list) + 1] = new
      /\ \A j \in 1 .. Len(list) : next[j] = list[j]
  OBVIOUS
<1>3. Len(list) \in Nat
  OBVIOUS
<1>4. SameRequest(request, k) => SameRequest(new, k)
  BY DEF SameRequest, Remembered
<1> HIDE DEF next
<1>5. Len(list) + 1 \in 1 .. Len(next) /\ \A j \in 1 .. Len(list) : j \in 1 .. Len(next)
  BY <1>2, <1>3
<1> QED BY <1>1, <1>2, <1>4, <1>5 DEF Recalls

-----------------------------------------------------------------------------
(* What becomes of each row's list when no executor works.                  *)

Closed(row) == row.state \in {"NONE", "SUCCEEDED"}

\* The list of row j stays as it is, or the row needs none any more, or is new.
KeepsList(j) == rows'[j].prior = rows[j].prior /\ (Closed(rows[j]) => Closed(rows'[j]))

Closes(j) == rows'[j].prior = <<>> /\ Closed(rows'[j])

Starts(j) == j = Filings + 1 /\ Len(rows'[j].prior) <= PriorMax

\* What a list gets from the one before it is put on behind what it has.
Extends(list, j) ==
  \A R : Carries(R) /\ (\A p \in Memories : BaseOf(p) = 0 /\ p.landed = 0 => p \in R) =>
    list \in Seq(R) /\ \A k : Recalls(rows[j].prior, k) => Recalls(list, k)

Lengthens(j) ==
  /\ ~Closed(rows[j])
  /\ \E list : Extends(list, j) /\ rows'[j].prior = Trim(list) /\ cut' = CutFrom(j, list)

ListMoves(j) == KeepsList(j) \/ Closes(j) \/ Starts(j) \/ Lengthens(j)

LEMMA ChainExtends ==
  ASSUME TypeOK, Sane, NEW old \in Op, NEW j \in Op, rows[old].state # "NONE", NEW newer, NEW sent,
         NEW sending, (newer = <<>> /\ j = old) \/ newer = rows[j].prior
  PROVE  Extends(Chain(rows[old], newer, PostKey(old), sent, sending), j)
<1> PICK older, list : older = rows[old]
                         /\ list = Chain(older, newer, PostKey(old), sent, sending)
  OBVIOUS
<1>1. /\ OldPost(old) \in Memories /\ BaseOf(OldPost(old)) = 0 /\ OldPost(old).landed = 0
      /\ OldPost(old) = Remembered(Request(PostKey(old), older.fig, older.nth), 0)
  BY OldPostType DEF OldPost
<1>2. ASSUME NEW R, Carries(R), \A p \in Memories : BaseOf(p) = 0 /\ p.landed = 0 => p \in R
      PROVE  list \in Seq(R) /\ \A k : Recalls(rows[j].prior, k) => Recalls(list, k)
  <2>1. /\ older.prior \in Seq(R) /\ newer \in Seq(R)
        /\ Remembered(Request(PostKey(old), older.fig, older.nth), 0) \in R
    <3>1. rows[old].prior \in Seq(R) /\ rows[j].prior \in Seq(R) /\ <<>> \in Seq(R)
      BY <1>2 DEF Carries
    <3>2. OldPost(old) \in R
      BY <1>1, <1>2
    <3> QED BY <1>1, <3>1, <3>2
  <2>2. list \in Seq(R)
    BY <2>1, ChainKeeps
  <2>3. ASSUME NEW k, Recalls(rows[j].prior, k) PROVE Recalls(list, k)
    <3>1. Recalls(older.prior, k) \/ Recalls(newer, k)
      BY <2>3
    <3> QED BY <2>1, <3>1, ChainRecalls
  <2> QED BY <2>2, <2>3
<1> QED BY <1>2 DEF Extends

LEMMA FileList ==
  ASSUME TypeOK, Sane, NEW fig \in Figures, File(fig)
  PROVE  exec' = exec /\ \A j \in Op : ListMoves(j)
<1>0. /\ rows \in [Op -> Row] /\ forms \in Seq(Nat) /\ seen \in Nat /\ RowsFiled
  BY DEF TypeOK, Sane, Version
<1> DEFINE n == Filings + 1
           active == ActiveOn(rows, TheDay)
           old == Newest(rows, active)
           list == Chain(rows[old], <<>>, PostKey(old), MaySent(rows[old]),
                         rows[old].state = "SENDING")
           base == IF seen # 0 THEN seen ELSE rows[old].base
           fresh == Fresh(fig, n, NextSeq(rows), seen)
<1>1. n \in Op /\ NextSeq(rows) \in Nat
  BY <1>0, FileCases, NextSeqAbove
<1>2. /\ exec' = exec
      /\ active = {} => rows' = [rows EXCEPT ![n] = fresh]
      /\ active # {} /\ rows[old].state \in WaitingStates
           => /\ rows' = [rows EXCEPT ![old] = Folded(rows[old], fig, n, Trim(list), base)]
              /\ cut' = CutFrom(old, list)
      /\ active # {} /\ rows[old].state \notin WaitingStates
           => rows' = [rows EXCEPT ![n] = Chaining(fresh, Trim(list), base)]
  BY Zenon DEF File, Folded, Chaining, Fresh
<1>3. fresh \in Row /\ fresh.prior = <<>>
  BY ONLY <1>0, <1>1, fig \in Figures, FreshRow
<1>4. active # {} => old \in Op /\ rows[old].state \in ActiveStates
  <2>1. active = {i \in Op : rows[i].state \in ActiveStates}
    BY <1>0, ActiveRows
  <2>2. active \in SUBSET Op
    BY <2>1
  <2>3. active # {} => old \in active
    <3> HIDE DEF active
    <3> QED BY <1>0, <2>2, NewestType
  <2> HIDE DEF old
  <2> QED BY <2>1, <2>3
<1> HIDE DEF fresh, n, active, old
<1>5. active # {} => Extends(list, old) /\ ~Closed(rows[old]) /\ base \in Nat
  <2>1. active # {} => rows[old].state # "NONE" /\ ~Closed(rows[old])
    BY <1>4 DEF ActiveStates, Closed
  <2>2. active # {} => base \in Nat
    BY <1>0, <1>4, RowNumbers
  <2>3. active # {} => Extends(list, old)
    BY <1>4, <2>1, ChainExtends
  <2> QED BY <2>1, <2>2, <2>3
<1> HIDE DEF list, base
<1>6. active # {} => Trim(list) \in Lists /\ Len(Trim(list)) <= PriorMax
  <2>1. Carries(Memories)
    BY <1>0, ListsAreMemories DEF TypeOK, Executor, Row, Carries
  <2>2. active # {} => list \in Seq(Memories)
    BY <1>5, <2>1, Zenon DEF Extends
  <2> QED BY <2>2, TrimKeeps, ListsAreMemories
<1>7. ASSUME NEW j \in Op, rows'[j] = rows[j] PROVE ListMoves(j)
  BY <1>7 DEF ListMoves, KeepsList
<1>8. CASE active = {}
  <2>1. rows'[n] = fresh /\ \A j \in Op : j # n => rows'[j] = rows[j]
    BY <1>0, <1>1, <1>2, <1>8
  <2>2. ListMoves(n)
    BY <1>3, <2>1 DEF ListMoves, Starts, n
  <2> QED BY <1>2, <1>7, <2>1, <2>2
<1>9. CASE active # {} /\ rows[old].state \in WaitingStates
  <2> DEFINE new == Folded(rows[old], fig, n, Trim(list), base)
  <2>1. new.prior = Trim(list)
    <3> PICK row : row = rows[old] /\ row \in Row
      BY <1>0, <1>4, <1>9
    <3> QED BY ONLY <1>1, <1>5, <1>6, <1>9, fig \in Figures, row = rows[old], row \in Row, FoldedRow
  <2> HIDE DEF new
  <2>2. rows' = [rows EXCEPT ![old] = new]
    BY <1>2, <1>9 DEF new
  <2>3. rows'[old] = new /\ \A j \in Op : j # old => rows'[j] = rows[j]
    BY <1>0, <1>4, <1>9, <2>2
  <2>4. Lengthens(old)
    BY <1>2, <1>5, <1>9, <2>1, <2>3, Zenon DEF Lengthens
  <2> QED BY <1>2, <1>7, <2>3, <2>4 DEF ListMoves
<1>10. CASE active # {} /\ rows[old].state \notin WaitingStates
  <2> DEFINE new == Chaining(fresh, Trim(list), base)
  <2>1. new.prior = Trim(list)
    BY ONLY <1>3, <1>5, <1>6, <1>10, ChainingRow
  <2> HIDE DEF new
  <2>2. rows' = [rows EXCEPT ![n] = new]
    BY <1>2, <1>10 DEF new
  <2>3. rows'[n] = new /\ \A j \in Op : j # n => rows'[j] = rows[j]
    BY <1>0, <1>1, <2>2
  <2>4. ListMoves(n)
    BY <1>6, <1>10, <2>1, <2>3 DEF ListMoves, Starts, n
  <2> QED BY <1>2, <1>7, <2>3, <2>4
<1> QED BY <1>8, <1>9, <1>10

LEMMA SettlementList ==
  ASSUME NEW row \in Row, NEW verdict \in Verdicts
  PROVE  LET new == Settlement(row, verdict)
         IN  (Closed(new) /\ new.prior = <<>>) \/ (~Closed(new) /\ new.prior = row.prior)
<1>1. CASE verdict = "DELIVERED"
  <2> DEFINE new == [Delivered(row) EXCEPT !.prior = <<>>]
  <2>1. new.state = "SUCCEEDED" /\ new.prior = <<>>
    BY DeliveredRow
  <2>2. Settlement(row, verdict) = new
    BY <1>1 DEF Settlement
  <2> HIDE DEF new
  <2>3. Closed(new)
    BY <2>1 DEF Closed
  <2> QED BY <2>1, <2>2, <2>3, Zenon
<1>2. CASE verdict = "REFUSED"
  BY <1>2, RowStatements DEF Settlement, Closed
<1>3. CASE verdict = "TRANSPORT"
  BY <1>3, DeferredRow DEF Settlement, Closed
<1> QED BY <1>1, <1>2, <1>3 DEF Verdicts

LEMMA SettleList ==
  ASSUME TypeOK, Sane, Settle
  PROVE  exec' = Resting /\ \A j \in Op : ListMoves(j)
<1> DEFINE i == exec.op
           row == rows[i]
           newer == Newest(rows, Behind)
           list == Chain(row, rows[newer].prior, PostKey(i), TRUE, TRUE)
           base == IF rows[newer].base = 0 THEN row.base ELSE rows[newer].base
           settled == Settlement(row, exec.verdict)
           left == IF exec.verdict = "TRANSPORT" THEN NoRow ELSE settled
<1>1. /\ rows \in [Op -> Row] /\ i \in Op /\ row \in Row /\ row.state = "SENDING"
      /\ exec.verdict \in Verdicts
  BY DEF TypeOK, Sane, Settle, Holds, InHand, Executor
<1>2. /\ exec' = Resting
      /\ Behind = {} => rows' = [rows EXCEPT ![i] = settled]
      /\ Behind # {} => /\ rows' = [rows EXCEPT ![newer] = Told(rows[newer], Trim(list), base),
                                                ![i] = left]
                        /\ cut' = CutFrom(newer, list)
  BY Zenon DEF Settle, Told
<1>3. Behind # {} => newer \in Op /\ rows[newer].state \in WaitingStates /\ newer # i
  <2>1. Behind \in SUBSET Op
    BY <1>1, ActiveRows DEF Behind
  <2>2. Behind # {} => newer \in Behind
    BY <1>1, <2>1, NewestType
  <2>3. \A o \in Behind : rows[o].state \in WaitingStates
    BY DEF Behind
  <2> HIDE DEF newer
  <2>4. Behind # {} => newer # i
    BY <1>1, <2>2, <2>3 DEF WaitingStates
  <2> QED BY <2>1, <2>2, <2>3, <2>4
<1>4. (Closed(settled) /\ settled.prior = <<>>) \/ (~Closed(settled) /\ settled.prior = row.prior)
  <2> HIDE DEF row
  <2> QED BY <1>1, SettlementList
<1>5. Closed(NoRow) /\ NoRow.prior = <<>>
  BY NoRowType DEF Closed
<1>6. (Closed(left) /\ left.prior = <<>>) \/ left.prior = row.prior
  <2> HIDE DEF settled
  <2> QED BY <1>4, <1>5
<1>7. ~Closed(row)
  BY <1>1 DEF Closed
<1>8. ASSUME NEW j \in Op, rows'[j] = rows[j] PROVE ListMoves(j)
  BY <1>8 DEF ListMoves, KeepsList
<1> HIDE DEF settled, left, newer
<1>9. CASE Behind = {}
  <2>1. rows'[i] = settled /\ \A j \in Op : j # i => rows'[j] = rows[j]
    BY <1>1, <1>2, <1>9
  <2>2. ListMoves(i)
    BY <1>4, <1>7, <2>1 DEF ListMoves, Closes, KeepsList
  <2> QED BY <1>2, <1>8, <2>1, <2>2
<1>10. CASE Behind # {}
  <2>1. Extends(list, newer)
    BY <1>1, <1>3, <1>10, ChainExtends
  <2> HIDE DEF list
  <2>2. Trim(list) \in Lists
    <3>1. Carries(Memories)
      BY <1>1, ListsAreMemories DEF TypeOK, Executor, Row, Carries
    <3>2. list \in Seq(Memories)
      BY <2>1, <3>1, Zenon DEF Extends
    <3> QED BY <3>2, TrimKeeps, ListsAreMemories
  <2>3. base \in Nat /\ rows[newer] \in Row
    BY <1>1, <1>3, <1>10 DEF Row
  <2> HIDE DEF base
  <2> DEFINE told == Told(rows[newer], Trim(list), base)
  <2>4. told.prior = Trim(list)
    <3> PICK old : old = rows[newer]
      OBVIOUS
    <3> QED BY ONLY <2>2, <2>3, old = rows[newer], ToldRow
  <2> HIDE DEF told
  <2>5. rows' = [rows EXCEPT ![newer] = told, ![i] = left]
    BY <1>2, <1>10 DEF told
  <2>6. rows'[newer] = told /\ rows'[i] = left /\ \A j \in Op : j # i /\ j # newer => rows'[j] = rows[j]
    <3> HIDE DEF i
    <3> QED BY <1>1, <1>3, <1>10, <2>5
  <2>7. ListMoves(i)
    BY <1>6, <1>7, <2>6 DEF ListMoves, Closes, KeepsList
  <2>8. ~Closed(rows[newer])
    BY <1>3, <1>10 DEF Closed, WaitingStates
  <2>9. Lengthens(newer)
    BY <1>2, <1>10, <2>1, <2>4, <2>6, <2>8, Zenon DEF Lengthens
  <2> QED BY <1>2, <1>8, <2>6, <2>7, <2>9 DEF ListMoves
<1> QED BY <1>9, <1>10

\* The executor goes on, rests, or takes the list of the row it claims.
HandMoves ==
  \/ exec' = exec
  \/ exec'.phase \in {"idle", "checked"}
  \/ /\ exec.op \in Op /\ exec'.op = exec.op /\ exec'.phase = "claimed"
     /\ ~Closed(rows[exec.op]) /\ exec'.prior = Trim(rows[exec.op].prior)

LEMMA ElsewhereLists ==
  ASSUME TypeOK, Sane, Next, ~Working
  PROVE  HandMoves /\ \A j \in Op : ListMoves(j)
<1>1. rows \in [Op -> Row] /\ exec \in Executor /\ \A j \in Op : rows[j] \in Row
  BY DEF TypeOK
<1>2. Resting.phase = "idle"
  BY DEF Resting
<1>3. ASSUME \A j \in Op : KeepsList(j) PROVE \A j \in Op : ListMoves(j)
  BY <1>3 DEF ListMoves
<1>4. ASSUME rows' = rows PROVE \A j \in Op : ListMoves(j)
  BY <1>3, <1>4 DEF KeepsList
<1>5. ASSUME NEW i \in Op, NEW new, rows' = [rows EXCEPT ![i] = new],
             (new.prior = rows[i].prior /\ ~Closed(rows[i])) \/ (new.prior = <<>> /\ Closed(new))
      PROVE  \A j \in Op : ListMoves(j)
  <2>1. rows'[i] = new /\ \A j \in Op : j # i => rows'[j] = rows[j]
    BY <1>1, <1>5
  <2>2. ListMoves(i)
    BY <1>5, <2>1 DEF ListMoves, KeepsList, Closes
  <2> QED BY <2>1, <2>2 DEF ListMoves, KeepsList
<1>6. CASE \/ Look \/ \E f \in Figures : SomebodyElseWrites(f)
           \/ \E r \in late : LateArrival(r)
  BY <1>4, <1>6 DEF Look, SomebodyElseWrites, LateArrival, HandMoves
<1>7. CASE Claim
  <2> DEFINE i == exec.op
             row == rows[i]
             new == Claimed(row)
  <2>1. i \in Op /\ row.state \in WaitingStates /\ row \in Row
    BY <1>1, <1>7 DEF Claim, Sane, Holds
  <2>2. /\ rows' = [rows EXCEPT ![i] = new]
        /\ exec' = [exec EXCEPT !.phase = "claimed", !.fig = row.fig, !.nth = row.nth,
                                !.prior = Trim(row.prior), !.base = row.base]
    BY <1>7, <2>1 DEF Claim
  <2>3. new.prior = row.prior /\ ~Closed(row)
    <3> HIDE DEF row
    <3> QED BY <2>1, RowStatements DEF Closed, WaitingStates
  <2>4. exec'.op = exec.op /\ exec'.prior = Trim(row.prior) /\ exec'.phase = "claimed"
    BY <1>1, <2>2 DEF Executor
  <2> HIDE DEF new
  <2> QED BY <1>5, <2>1, <2>2, <2>3, <2>4 DEF HandMoves
<1>8. CASE Restart
  <2>1. rows' = Recovered(rows) /\ exec' = Resting
    BY <1>8 DEF Restart
  <2>2. \A j \in Op : /\ rows'[j].prior = rows[j].prior
                      /\ rows'[j].state = IF rows[j].state = "SENDING" THEN "QUEUED" ELSE rows[j].state
    BY <1>1, <2>1, RecoveredShape
  <2>3. \A j \in Op : KeepsList(j)
    BY <2>2 DEF KeepsList, Closed
  <2> QED BY <1>2, <1>3, <2>1, <2>3 DEF HandMoves
<1>9. ASSUME NEW i \in Op, Retry(i) \/ Discard(i) \/ BackoffElapses(i)
      PROVE  exec' = exec /\ \A j \in Op : ListMoves(j)
  <2> PICK row : row = rows[i] /\ row \in Row
    BY <1>1
  <2>0. exec' = exec
    BY <1>9, Zenon DEF Retry, Discard, BackoffElapses
  <2>1. CASE Retry(i)
    <3>1. Retried(row).prior = row.prior /\ ~Closed(row)
      BY <2>1, RowStatements DEF Retry, MayRetry, Closed
    <3>2. rows' = [rows EXCEPT ![i] = Retried(row)]
      BY <2>1 DEF Retry
    <3> QED BY <1>5, <2>0, <3>1, <3>2
  <2>2. CASE Discard(i)
    <3>1. NoRow.prior = <<>> /\ Closed(NoRow)
      BY NoRowType DEF Closed
    <3> QED BY <1>5, <2>0, <2>2, <3>1 DEF Discard
  <2>3. CASE BackoffElapses(i)
    <3> DEFINE new == [row EXCEPT !.due = TRUE]
    <3>1. rows' = [rows EXCEPT ![i] = new] /\ ~Closed(row)
      BY <1>1, <2>3 DEF BackoffElapses, Closed
    <3>2. new.prior = row.prior
      BY DEF Row
    <3> HIDE DEF new
    <3> QED BY <1>5, <2>0, <3>1, <3>2
  <2> QED BY <1>9, <2>1, <2>2, <2>3
<1>10. ASSUME NEW i \in Op, LookAhead(i) PROVE HandMoves /\ \A j \in Op : ListMoves(j)
  <2>1. rows' = rows /\ exec' = [Resting EXCEPT !.phase = "checked", !.op = i,
                                                !.fig = rows[i].fig, !.nth = rows[i].nth]
    BY <1>10 DEF LookAhead
  <2>2. exec'.phase = "checked"
    BY <2>1 DEF Resting
  <2> QED BY <1>4, <2>1, <2>2 DEF HandMoves
<1>11. CASE Settle
  BY <1>2, <1>11, SettleList DEF HandMoves
<1>12. ASSUME NEW f \in Figures, File(f) PROVE HandMoves /\ \A j \in Op : ListMoves(j)
  BY <1>12, FileList DEF HandMoves
<1> QED BY <1>6, <1>7, <1>8, <1>9, <1>10, <1>11, <1>12, StepCases DEF HandMoves


-----------------------------------------------------------------------------
(* What is known to have landed has: its receipt says so.  And what a list  *)
(* recalls, it has to recall as soon as the request is on its way.          *)

Truth(p, S) == p.landed > 0 => \E k \in S : k.key = p.key /\ k.fig = p.fig /\ k.version = p.landed

TrueOnes(S) == {p \in Memories : Truth(p, S)}

\* The requests the server may get before the day is made.
Sent == late \cup (IF exec.phase \in Asking THEN {OnWire} ELSE {})

FirstReceipt(request) == [key |-> request.key, fig |-> request.fig, version |-> 1]

\* What the server keeps of the phone's returns, or would keep if it got them.
Promised == receipts \cup (IF day = <<>> THEN {FirstReceipt(r) : r \in Sent} ELSE {})

\* One receipt for a key, and one for a version.
Sound(S) ==
  S \subseteq ReceiptType /\ \A k, m \in S : k.key = m.key \/ k.version = m.version => k = m

LEMMA TrueTells ==
  ASSUME NEW S, Sound(S)
  PROVE  /\ LandedAlike(TrueOnes(S))
         /\ \A k \in S : k.version \in Nat /\ Tells(TrueOnes(S), k)
         /\ S = {} => \A k : Tells(TrueOnes(S), k)
<1>1. \A p \in TrueOnes(S) : p.landed \in Nat /\ Truth(p, S)
  BY DEF TrueOnes, Memories
<1>2. \A k \in S : k.version \in Nat
  BY DEF Sound, ReceiptType
<1>3. LandedAlike(TrueOnes(S))
  <2>1. ASSUME NEW p \in TrueOnes(S), NEW q \in TrueOnes(S), SameRequest(p, q), p.landed > 0, q.landed > 0
        PROVE  p.landed = q.landed
    <3>1. PICK k \in S : k.key = p.key /\ k.version = p.landed
      BY <1>1, <2>1 DEF Truth
    <3>2. PICK m \in S : m.key = q.key /\ m.version = q.landed
      BY <1>1, <2>1 DEF Truth
    <3>3. k = m
      BY <2>1, <3>1, <3>2 DEF Sound, SameRequest
    <3> QED BY <3>1, <3>2, <3>3
  <2> QED BY <1>1, <2>1 DEF LandedAlike
<1>4. ASSUME NEW k \in S, NEW p \in TrueOnes(S), NEW b \in TrueOnes(S), SameRequest(p, k), AnswersFor(b, p)
      PROVE  SameRequest(b, k) \/ b.landed > k.version
  <2>1. b.landed > 0 /\ p.landed <= b.landed /\ (p.landed > 0 \/ p.key = b.key)
    BY <1>4 DEF AnswersFor
  <2>2. PICK m \in S : m.key = b.key /\ m.fig = b.fig /\ m.version = b.landed
    BY <1>1, <2>1 DEF Truth
  <2>3. m = k => SameRequest(b, k)
    BY <2>2 DEF SameRequest
  <2>4. CASE p.landed > 0
    <3>1. PICK l \in S : l.key = p.key /\ l.version = p.landed
      BY <1>1, <2>4 DEF Truth
    <3>2. l = k
      BY <1>4, <3>1 DEF Sound, SameRequest
    <3>3. p.landed = k.version /\ k.version \in Nat /\ b.landed \in Nat
      BY <1>1, <1>2, <3>1, <3>2
    <3>4. b.landed = k.version \/ b.landed > k.version
      BY <2>1, <3>3
    <3>5. b.landed = k.version => m = k
      BY <2>2 DEF Sound
    <3> QED BY <2>3, <3>4, <3>5
  <2>5. CASE p.key = b.key
    <3>1. m = k
      BY <1>4, <2>2, <2>5 DEF Sound, SameRequest
    <3> QED BY <2>3, <3>1
  <2> QED BY <2>1, <2>4, <2>5
<1>5. ASSUME S = {}, NEW b \in TrueOnes(S), NEW p, AnswersFor(b, p) PROVE FALSE
  BY <1>1, <1>5 DEF AnswersFor, Truth
<1> QED BY <1>2, <1>3, <1>4, <1>5, Zenon DEF Tells

LEMMA SoundReceipts ==
  ASSUME NEW d, NEW S, Version(d) \in Nat, S \subseteq ReceiptType,
         \A k \in S : k.version <= Version(d) /\ d[k.version].key = k.key,
         \A k, m \in S : k.key = m.key => k = m
  PROVE  Sound(S) /\ (d = <<>> => S = {})
<1>1. Sound(S)
  BY DEF Sound
<1>2. ASSUME d = <<>>, NEW k \in S PROVE FALSE
  <2>1. Version(d) = 0 /\ k.version \in Nat \ {0}
    BY <1>2 DEF Version, ReceiptType
  <2> QED BY <2>1
<1> QED BY <1>1, <1>2

\* What was known is known, and of what is promised the receipts tell the truth.
LEMMA TruthGrows ==
  ASSUME TypeOK, Sane, DayReceipted, Next, NEW R, R = TrueOnes(receipts')
  PROVE  /\ R \in SUBSET Memories /\ LandedAlike(R) /\ TrueOnes(receipts) \subseteq R
         /\ \A p \in Memories : p.landed = 0 => p \in R
         /\ \A k \in Promised' : k.version \in Nat /\ Tells(R, k)
         /\ day' = <<>> => day = <<>> /\ receipts' = {}
         /\ Sound(receipts')
<1>1. TypeOK' /\ Sane' /\ Grown
  BY StepKeeps
<1>2. DayReceipted'
  BY <1>1, DayReceiptedStays
<1> PICK S, d : S = receipts' /\ d = day'
  OBVIOUS
<1>3. /\ Version(d) \in Nat /\ S \subseteq ReceiptType
      /\ \A k \in S : k.version <= Version(d) /\ d[k.version].key = k.key
      /\ \A k, m \in S : k.key = m.key => k = m
  BY <1>1, <1>2 DEF Grown, Sane, ReceiptsTrue, DayReceipted
<1>4. Sound(S) /\ (d = <<>> => S = {})
  BY ONLY <1>3, SoundReceipts
<1>5. LandedAlike(R) /\ (\A k \in S : k.version \in Nat /\ Tells(R, k)) /\ (S = {} => \A k : Tells(R, k))
  BY <1>4, TrueTells
<1>6. TrueOnes(receipts) \subseteq R
  BY <1>1 DEF TrueOnes, Truth, Grown
<1>7. \A p \in Memories : p.landed = 0 => p \in R
  BY DEF TrueOnes, Truth
<1>8. d = <<>> => day = <<>>
  <2>1. d = <<>> => Version(d) = 0
    BY DEF Version
  <2>2. day \in Seq(VersionType) /\ Version(day) \in Nat /\ Version(day) <= Version(d)
    BY <1>1, ServerTypes DEF Grown
  <2> QED BY <2>1, <2>2 DEF Version
<1>9. ASSUME NEW k \in Promised' PROVE k.version \in Nat /\ Tells(R, k)
  <2>1. k \in S \/ (d = <<>> /\ k.version = 1)
    BY <1>9 DEF Promised, FirstReceipt
  <2> QED BY <1>4, <1>5, <2>1
<1> QED BY <1>4, <1>5, <1>6, <1>7, <1>8, <1>9 DEF TrueOnes


\* A request is late only when it was on its way.
LEMMA LateSent ==
  ASSUME Next
  PROVE  late' \subseteq Sent
<1>1. CASE UNCHANGED late
  BY <1>1 DEF Sent
<1>2. CASE Unheard \/ Restart
  BY <1>2 DEF Unheard, Restart, Sent
<1>3. CASE \E r \in late : LateArrival(r)
  BY <1>3 DEF LateArrival, Sent
<1>4. CASE SendReturn \/ Answered \/ Invalid \/ ReadDay \/ ReadDayAgain \/ ReadFails
  BY <1>1, <1>4, Zenon DEF SendReturn, Answered, Invalid, ReadDay, ReadDayAgain, ReadFails
<1>5. CASE Look \/ Claim \/ Settle
  BY <1>1, <1>5, Zenon DEF Look, Claim, Settle
<1>6. CASE \/ \E f \in Figures : File(f) \/ SomebodyElseWrites(f)
           \/ \E i \in Op : Retry(i) \/ Discard(i) \/ LookAhead(i) \/ BackoffElapses(i)
  BY <1>1, <1>6, Zenon DEF File, SomebodyElseWrites, Retry, Discard, LookAhead, BackoffElapses
<1> QED BY <1>2, <1>3, <1>4, <1>5, <1>6, StepCases DEF Working

\* A return is waited for once it is sent.
LEMMA PostSent ==
  ASSUME TypeOK, Sane, Next, exec'.phase = "post"
  PROVE  exec' = exec \/ SendReturn
<1>1. CASE ~Working
  <2>1. HandMoves
    BY <1>1, ElsewhereLists
  <2> QED BY <2>1 DEF HandMoves
<1>2. /\ rows \in [Op -> Row] /\ exec \in Executor /\ Len(exec.prior) <= PriorMax
      /\ RowsFiled /\ Holds /\ Reading
  BY DEF TypeOK, Sane
<1>3. ASSUME exec.phase \in Asking, NEW reply, reply.version \in Nat, reply.kind \in Kinds,
             exec.phase = "post" => reply.kind # "moved", Hear(reply)
      PROVE  FALSE
  BY <1>2, <1>3, HearShape DEF Heard
<1>4. CASE Answered
  <2> PICK reply : reply = ReplyTo(day, receipts, OnWire)
    OBVIOUS
  <2>1. reply.kind \in Kinds /\ reply.version \in Nat /\ (IsPost(OnWire) => reply.kind # "moved")
    BY ServerTypes, ReplyShape DEF Kinds
  <2>2. exec.phase = "post" => IsPost(OnWire)
    BY DEF OnWire, OwnPost, Request, PostKey, IsPost
  <2> QED BY <1>3, <1>4, <2>1, <2>2 DEF Answered
<1>5. CASE Invalid \/ Unheard
  <2>1. PICK kind \in {"invalid", "silence"} :
          exec.phase \in Asking /\ Hear([kind |-> kind, version |-> 0])
    BY <1>5 DEF Invalid, Unheard
  <2> DEFINE reply == [kind |-> kind, version |-> 0]
  <2>2. reply.kind \in Kinds /\ reply.kind # "moved" /\ reply.version \in Nat /\ Hear(reply)
    BY <2>1 DEF Kinds
  <2> HIDE DEF reply
  <2> QED BY <1>3, <2>1, <2>2
<1>6. ASSUME exec.phase \in {"read", "reread"}, NEW verdict \in Verdicts, NEW conflict \in BOOLEAN,
             Finished(verdict, conflict)
      PROVE  FALSE
  BY <1>2, <1>6, FinishedShape DEF InHand
<1>7. ASSUME exec.phase \in {"read", "reread"}, NEW base \in Nat, AmendFrom(base) PROVE FALSE
  BY <1>2, <1>7, AmendShape DEF InHand
<1>8. CASE ReadDay \/ ReadDayAgain \/ ReadFails
  <2>1. exec.phase \in {"read", "reread"}
    BY <1>8 DEF ReadDay, ReadDayAgain, ReadFails
  <2>2. exec.base \in Nat /\ Version(day) \in Nat
    BY <1>2, ServerTypes DEF Executor
  <2>3. {"DELIVERED", "REFUSED", "TRANSPORT"} \subseteq Verdicts
    BY DEF Verdicts
  <2>4. \/ Finished("DELIVERED", FALSE) \/ Finished("REFUSED", TRUE) \/ Finished("TRANSPORT", FALSE)
        \/ AmendFrom(exec.base) \/ AmendFrom(Version(day))
        \/ exec' = [Replaying(exec.prior, exec.prior, 0) EXCEPT !.replayed = exec.prior]
    BY <1>8, Zenon DEF ReadDay, ReadDayAgain, ReadFails
  <2> QED BY <1>6, <1>7, <2>1, <2>2, <2>3, <2>4, ReplayBegins
<1> QED BY <1>1, <1>4, <1>5, <1>8 DEF Working

LEMMA PromisedStays ==
  ASSUME TypeOK, Sane, DayReceipted, Next, NEW k \in Promised', IsPost(k)
  PROVE  k \in Promised \/ (SendReturn /\ k = FirstReceipt(OwnPost))
<1>1. Sane' /\ (day' = <<>> => day = <<>>)
  BY StepKeeps, TruthGrows
<1>2. CASE k \in receipts'
  <2>1. CASE receipts' = receipts
    BY <1>2, <2>1 DEF Promised
  <2>2. ASSUME NEW r \in Sent, Accepted(r) PROVE k \in Promised
    <3>1. CASE k \in receipts
      BY <3>1 DEF Promised
    <3>2. CASE k = [key |-> r.key, fig |-> r.fig, version |-> Version(day) + 1]
      <4>1. k.key = r.key /\ Takes(day, receipts, r)
        BY <2>2, <3>2 DEF Accepted
      <4>2. day = <<>>
        BY <4>1 DEF Takes, IsPost
      <4>3. Version(day) + 1 = 1
        BY <4>2 DEF Version
      <4>4. k = FirstReceipt(r)
        BY <3>2, <4>3 DEF FirstReceipt
      <4> QED BY <4>2, <4>4 DEF Promised
    <3> QED BY <1>2, <2>2, <3>1, <3>2 DEF Accepted
  <2>3. ServedStep => \E r \in Sent : Accepted(r)
    BY DEF ServedStep, Sent
  <2> QED BY <2>1, <2>2, <2>3, ServerStep DEF OtherStep
<1>3. CASE k \notin receipts'
  <2>1. day' = <<>> /\ \E r \in Sent' : k = FirstReceipt(r)
    BY <1>3 DEF Promised, FirstReceipt
  <2>2. PICK r \in Sent' : k = FirstReceipt(r)
    BY <2>1
  <2>3. CASE r \in Sent
    BY <1>1, <2>1, <2>2, <2>3 DEF Promised
  <2>4. CASE r \notin late'
    <3>1. exec'.phase \in Asking /\ r = OnWire'
      BY <2>4 DEF Sent
    <3>2. exec'.phase = "post"
      BY <1>1, <2>1, <3>1 DEF Sane, Reading, Asking
    <3>3. r = OwnPost'
      BY <3>1, <3>2 DEF OnWire
    <3>4. CASE exec' = exec
      <4>1. r = OwnPost /\ exec.phase = "post"
        BY <3>2, <3>3, <3>4 DEF OwnPost
      <4>2. r \in Sent
        BY <4>1 DEF Sent, OnWire, Asking
      <4> QED BY <2>3, <4>2
    <3>5. CASE SendReturn
      <4>1. exec'.op = exec.op /\ exec'.fig = exec.fig /\ exec'.nth = exec.nth
        BY <3>5, SendShape DEF TypeOK, Sane, SameHand
      <4>2. r = OwnPost
        BY <3>3, <4>1 DEF OwnPost
      <4> QED BY <2>2, <3>5, <4>2
    <3> QED BY <3>2, <3>4, <3>5, PostSent
  <2>5. r \in late' => r \in Sent
    BY LateSent
  <2> QED BY <2>3, <2>4, <2>5
<1> QED BY <1>2, <1>3


-----------------------------------------------------------------------------
(* What becomes of the executor's list while it works.                      *)

\* What a reply leaves of the list.
Left(list, reply) ==
  \/ list = exec.prior
  \/ reply.kind = "ok" /\ list = Landed(exec.prior, OnWire, reply.version)
  \/ reply.kind \in {"entered", "reused", "moved"} /\ list = Dropped(exec.prior, OnWire)

\* It is put on the row if anything is.
Learns(reply) ==
  /\ Left(exec'.prior, reply)
  /\ exec'.todo = exec.todo \/ (exec.phase = "replay" /\ exec'.todo = Tail(exec.todo))
  /\ rows' = rows \/ rows' = Saved(exec'.prior)

LEMMA HearLearns ==
  ASSUME exec \in Executor, Len(exec.prior) <= PriorMax, exec.phase \in Asking, NEW reply,
         exec.phase = "replay" => exec.todo # <<>>, reply.version \in Nat, reply.kind \in Kinds,
         exec.phase = "post" => reply.kind # "moved", Hear(reply)
  PROVE  Learns(reply)
<1> DEFINE landed == Landed(exec.prior, OnWire, reply.version)
           dropped == Dropped(exec.prior, OnWire)
<1>0. exec.prior \in Lists /\ exec.todo \in Lists /\ exec.ours \in Nat /\ landed \in Lists /\ dropped \in Lists
  BY LearnedList DEF Executor
<1>1. ASSUME NEW list \in Lists, Left(list, reply), NEW verdict \in Verdicts,
             exec' = Settling(verdict, list), rows' = rows \/ rows' = Saved(list)
      PROVE  Learns(reply)
  <2>1. exec'.prior = list /\ exec'.todo = exec.todo
    BY <1>1, SettlingType
  <2> QED BY <1>1, <2>1 DEF Learns
<1>2. {"DELIVERED", "REFUSED", "TRANSPORT"} \subseteq Verdicts /\ Left(exec.prior, reply)
  BY DEF Verdicts, Left
<1>3. CASE exec.phase = "post"
  <2>0. OnWire = OwnPost /\ HearReturn(reply)
    BY <1>3 DEF OnWire, Hear
  <2>1. CASE reply.kind = "ok"
    <3>1. exec' = Settling("DELIVERED", landed) /\ rows' = Saved(landed)
      BY <2>0, <2>1 DEF HearReturn
    <3>2. Left(landed, reply)
      BY <2>1 DEF Left
    <3> HIDE DEF landed
    <3> QED BY <1>0, <1>1, <1>2, <3>1, <3>2
  <2>2. CASE reply.kind \in {"entered", "reused"}
    <3>1. exec' = [exec EXCEPT !.phase = "read", !.prior = dropped] /\ rows' = rows
      BY <2>0, <2>2 DEF HearReturn
    <3>2. Left(dropped, reply)
      BY <2>2 DEF Left
    <3> HIDE DEF dropped
    <3>3. exec'.prior = dropped /\ exec'.todo = exec.todo
      BY <1>0, <3>1 DEF Executor
    <3> QED BY <3>1, <3>2, <3>3 DEF Learns
  <2>3. CASE reply.kind \in {"invalid", "silence"}
    <3>1. PICK verdict \in Verdicts : exec' = Settling(verdict, exec.prior) /\ rows' = rows
      BY <1>2, <2>0, <2>3 DEF HearReturn
    <3> QED BY <1>0, <1>1, <1>2, <3>1
  <2> QED BY <1>3, <2>1, <2>2, <2>3 DEF Kinds
<1>4. CASE exec.phase = "replay"
  <2>0. HearReplay(reply) /\ rows' = rows
    BY <1>4 DEF Hear, HearReplay
  <2> DEFINE rest == Tail(exec.todo)
  <2>1. rest \in Lists
    BY <1>0, <1>4, ListsAreMemories
  <2>2. PICK prior, ours, next :
           /\ prior \in {landed, dropped, exec.prior} /\ Left(prior, reply)
           /\ ours \in {exec.ours, reply.version} /\ next = Replaying(rest, prior, ours)
           /\ exec' = next \/ exec' = [next EXCEPT !.clouded = TRUE]
    <3> HIDE DEF rest
    <3> QED BY <2>0 DEF HearReplay, Left, rest
  <2> HIDE DEF rest, landed, dropped
  <2>3. prior \in Lists /\ ours \in Nat
    BY <1>0, <2>2
  <2>4. next \in Executor /\ next.todo = rest /\ next.prior = prior
    BY <1>0, <2>1, <2>2, <2>3, ReplayingType
  <2>5. exec'.todo = rest /\ exec'.prior = prior
    BY <2>2, <2>4 DEF Executor
  <2> QED BY <1>4, <2>0, <2>2, <2>5 DEF Learns, rest
<1>5. CASE exec.phase = "amend"
  <2>0. OnWire = OwnAmend /\ HearAmend(reply)
    BY <1>5 DEF OnWire, Hear
  <2> DEFINE left == CASE reply.kind = "ok" -> landed
                       [] reply.kind \in {"moved", "reused"} -> dropped
                       [] OTHER -> exec.prior
             judged == CASE reply.kind = "ok" -> "DELIVERED"
                         [] reply.kind = "silence" -> "TRANSPORT"
                         [] OTHER -> "REFUSED"
  <2>1. exec' = Settling(judged, left) /\ rows' = Saved(left)
    BY <2>0, Zenon DEF HearAmend
  <2>2. left \in {landed, dropped, exec.prior} /\ Left(left, reply)
    <3>1. /\ reply.kind = "ok" => left = landed
          /\ reply.kind \in {"moved", "reused"} => left = dropped
          /\ reply.kind \in {"entered", "invalid", "silence"} => left = exec.prior
      <4> HIDE DEF landed, dropped
      <4> QED OBVIOUS
    <3> HIDE DEF left
    <3> QED BY <3>1 DEF Left, Kinds
  <2>3. judged \in Verdicts
    BY <1>2
  <2>4. left \in Lists
    <3> HIDE DEF landed, dropped, left
    <3> QED BY <1>0, <2>2
  <2> HIDE DEF left, judged
  <2> QED BY <1>1, <2>1, <2>2, <2>3, <2>4
<1> QED BY <1>3, <1>4, <1>5 DEF Asking


\* What the server says of a request, its receipts say of it afterwards.
LEMMA AnswerTrue ==
  ASSUME TypeOK, Sane, DayReceipted, exec.phase \in Asking, Serve(OnWire), NEW reply,
         reply = ReplyTo(day, receipts, OnWire)
  PROVE  /\ reply.kind \in {"ok", "entered", "reused", "moved"} /\ reply.version \in Nat
         /\ exec.phase = "post" => reply.kind # "moved"
         /\ reply.kind = "ok" => \E k \in receipts' :
              k.key = OnWire.key /\ k.fig = OnWire.fig /\ k.version = reply.version
         /\ reply.kind # "ok" =>
              /\ receipts' = receipts /\ day' = day /\ day # <<>>
              /\ \A k \in receipts : ~SameRequest(k, OnWire)
<1>0. /\ day \in Seq(VersionType) /\ receipts \subseteq ReceiptType /\ Version(day) \in Nat
      /\ Reading /\ ReceiptsTrue
  BY ServerTypes DEF Sane
<1>1. /\ reply.kind \in {"ok", "entered", "reused", "moved"} /\ reply.version \in Nat
      /\ IsPost(OnWire) => reply.kind # "moved"
  BY <1>0, ReplyShape
<1>2. exec.phase = "post" => IsPost(OnWire)
  BY DEF OnWire, OwnPost, Request, PostKey, IsPost
<1> DEFINE kept == Receipt(receipts, OnWire)
           k == CHOOSE x \in kept : TRUE
<1>3. CASE kept # {}
  <2>1. reply = IF k.fig = OnWire.fig THEN [kind |-> "ok", version |-> k.version]
                                       ELSE [kind |-> "reused", version |-> 0]
    BY <1>3, Zenon DEF ReplyTo
  <2>2. k \in kept
    BY <1>3
  <2>3. UNCHANGED <<day, receipts>>
    <3>1. ~Takes(day, receipts, OnWire)
      BY <1>3 DEF Takes
    <3> QED BY <3>1, Zenon DEF Serve, server
  <2> HIDE DEF k
  <2>4. k \in receipts /\ k.key = OnWire.key
    BY <2>2 DEF Receipt
  <2>5. day # <<>>
    <3>1. k.version \in Nat \ {0} /\ k.version <= Version(day)
      BY <1>0, <2>4 DEF ReceiptType, ReceiptsTrue
    <3> QED BY <1>0, <3>1 DEF Version
  <2>6. CASE k.fig = OnWire.fig
    <3>1. reply.kind = "ok" /\ reply.version = k.version
      BY <2>1, <2>6
    <3> QED BY <1>1, <1>2, <2>3, <2>4, <2>6, <3>1
  <2>7. CASE k.fig # OnWire.fig
    <3>1. reply.kind = "reused"
      BY <2>1, <2>7
    <3>2. \A m \in receipts : ~SameRequest(m, OnWire)
      BY <2>4, <2>7 DEF SameRequest, DayReceipted
    <3> QED BY <1>1, <1>2, <2>3, <2>5, <3>1, <3>2
  <2> QED BY <2>6, <2>7
<1>4. CASE kept = {}
  <2>1. reply = IF Takes(day, receipts, OnWire) THEN [kind |-> "ok", version |-> Version(day) + 1]
                ELSE [kind |-> IF IsPost(OnWire) THEN "entered" ELSE "moved", version |-> 0]
    BY <1>4, Zenon DEF ReplyTo
  <2>2. CASE Takes(day, receipts, OnWire)
    <3>1. reply.kind = "ok" /\ reply.version = Version(day) + 1
      BY <2>1, <2>2
    <3>2. Accepted(OnWire)
      BY <2>2, Zenon DEF Serve, Accepted, Written, Receipted
    <3> DEFINE new == [key |-> OnWire.key, fig |-> OnWire.fig, version |-> Version(day) + 1]
    <3>3. new \in receipts'
      BY <3>2 DEF Accepted
    <3>4. new.key = OnWire.key /\ new.fig = OnWire.fig /\ new.version = reply.version
      BY <3>1
    <3> HIDE DEF new
    <3> QED BY <1>1, <1>2, <3>1, <3>3, <3>4
  <2>3. CASE ~Takes(day, receipts, OnWire)
    <3>1. reply.kind = (IF IsPost(OnWire) THEN "entered" ELSE "moved")
      BY <2>1, <2>3
    <3>2. day # <<>>
      <4>1. IsPost(OnWire) => day # <<>>
        BY <1>4, <2>3 DEF Takes
      <4>2. exec.phase \in {"replay", "amend"} => day # <<>>
        BY <1>0 DEF Reading
      <4> QED BY <1>2, <4>1, <4>2 DEF Asking
    <3>3. UNCHANGED <<day, receipts>>
      BY <2>3, Zenon DEF Serve, server
    <3>4. \A m \in receipts : ~SameRequest(m, OnWire)
      BY <1>4 DEF Receipt, SameRequest
    <3> QED BY <1>1, <1>2, <3>1, <3>2, <3>3, <3>4
  <2> QED BY <2>2, <2>3
<1> QED BY <1>3, <1>4

\* So what is left of the list still tells the truth, and recalls what it did.
LEMMA AnswerRecalls ==
  ASSUME TypeOK, Sane, DayReceipted, Next, exec.phase \in Asking, Serve(OnWire), NEW reply,
         reply = ReplyTo(day, receipts, OnWire), NEW R, R = TrueOnes(receipts'), exec.prior \in Seq(R),
         NEW list, Left(list, reply)
  PROVE  list \in Seq(R) /\ \A k \in Promised' : Recalls(exec.prior, k) => Recalls(list, k)
<1>1. /\ R \in SUBSET Memories /\ LandedAlike(R)
      /\ \A k \in Promised' : k.version \in Nat /\ Tells(R, k)
      /\ Sound(receipts')
  BY TruthGrows
<1>2. CASE reply.kind = "ok" /\ list = Landed(exec.prior, OnWire, reply.version)
  <2>1. PICK m \in receipts' : m.key = OnWire.key /\ m.fig = OnWire.fig /\ m.version = reply.version
    BY <1>2, AnswerTrue
  <2> PICK version : version = reply.version
    OBVIOUS
  <2>2. version \in Nat \ {0}
    BY <1>1, <2>1 DEF Sound, ReceiptType
  <2>3. ASSUME NEW p \in R, SameRequest(p, OnWire) PROVE [p EXCEPT !.landed = version] \in R
    <3> DEFINE q == [p EXCEPT !.landed = version]
    <3>1. q \in Memories /\ q.key = p.key /\ q.fig = p.fig /\ q.landed = version
      BY <1>1, <2>2 DEF Memories
    <3> HIDE DEF q
    <3>2. Truth(q, receipts')
      BY <2>1, <2>3, <3>1 DEF Truth, SameRequest
    <3>3. q \in R
      BY <3>1, <3>2 DEF TrueOnes
    <3> QED BY <3>3 DEF q
  <2>4. Len(exec.prior) <= PriorMax
    BY DEF TypeOK
  <2> PICK prior, request : prior = exec.prior /\ request = OnWire
    OBVIOUS
  <2>5. /\ Landed(prior, request, version) \in Seq(R)
        /\ \A k : k.version \in Nat /\ Tells(R, k) /\ Recalls(prior, k)
                    => Recalls(Landed(prior, request, version), k)
    BY <1>1, <2>2, <2>3, <2>4, LandedRecalls
  <2> QED BY <1>1, <1>2, <2>5
<1>3. CASE reply.kind # "ok" /\ list = Dropped(exec.prior, OnWire)
  <2>1. receipts' = receipts /\ day' # <<>> /\ \A m \in receipts' : ~SameRequest(m, OnWire)
    BY <1>3, AnswerTrue
  <2>2. Promised' = receipts'
    BY <2>1 DEF Promised
  <2>3. list \in Seq(R)
    BY <1>3, DroppedKeeps
  <2>4. ASSUME NEW k \in receipts', Recalls(exec.prior, k) PROVE Recalls(list, k)
    <3>1. ASSUME NEW p \in R, SameRequest(p, OnWire) PROVE ~SameRequest(p, k) /\ ~(p.landed > k.version)
      <4>1. p.landed \in Nat /\ k.version \in Nat /\ Truth(p, receipts')
        BY <1>1, <2>2 DEF TrueOnes, Memories
      <4>2. ~SameRequest(p, k)
        BY <2>1, <3>1 DEF SameRequest
      <4>3. ~(p.landed > 0)
        BY <2>1, <3>1, <4>1 DEF Truth, SameRequest
      <4> QED BY <4>1, <4>2, <4>3
    <3> QED BY <1>3, <2>4, <3>1, DroppedRecalls
  <2> QED BY <2>2, <2>3, <2>4
<1>4. CASE list = exec.prior
  BY <1>4
<1> QED BY <1>2, <1>3, <1>4 DEF Left


LEMMA RecordedRecalls ==
  ASSUME NEW R, LandedAlike(R), exec.prior \in Seq(R), NEW request, Remembered(request, 0) \in R,
         NEW list, list = Recorded(request), cut' = CutFrom(exec.op, Recording(request))
  PROVE  /\ list \in Seq(R)
         /\ \A k : k.version \in Nat /\ Tells(R, k) /\ exec.op \notin cut'
                    /\ (Recalls(exec.prior, k) \/ SameRequest(request, k))
                      => Recalls(list, k)
<1> PICK long : long = Recording(request)
  OBVIOUS
<1>1. list = Trim(long)
  BY DEF Recorded
<1>2. long \in Seq(R)
  BY DEF Recording
<1>3. exec.op \notin cut' => ~Overflows(long)
  BY DEF CutFrom
<1>4. ASSUME NEW k, k.version \in Nat, Tells(R, k), exec.op \notin cut',
             Recalls(exec.prior, k) \/ SameRequest(request, k)
      PROVE  Recalls(list, k)
  <2>1. Recalls(long, k)
    BY <1>4, RecordingRecalls
  <2> QED BY <1>1, <1>2, <1>3, <1>4, <2>1, TrimRecalls
<1>5. list \in Seq(R)
  BY <1>1, <1>2, TrimKeeps
<1> QED BY <1>4, <1>5

\* What the list of the row in hand has to recall after a step.
Owed(k) == Recalls(exec.prior, k) \/ (SendReturn /\ k = FirstReceipt(OwnPost))

\* An executor that works forgets nothing, of what it had or of what it sends.
Remembering(R) ==
  /\ exec'.prior \in Seq(R) /\ exec'.todo \in Seq(R)
  /\ rows' = Saved(exec'.prior) \/ (rows' = rows /\ ~SendReturn)
  /\ \A k \in Promised' : exec.op \notin cut' /\ Owed(k) => Recalls(exec'.prior, k)

LEMMA WorkingLists ==
  ASSUME TypeOK, Sane, DayReceipted, Next, Working, NEW R, R = TrueOnes(receipts'),
         exec.prior \in Seq(R), exec.todo \in Seq(R)
  PROVE  Remembering(R)
<1>1. /\ R \in SUBSET Memories /\ LandedAlike(R)
      /\ \A p \in Memories : p.landed = 0 => p \in R
      /\ \A k \in Promised' : k.version \in Nat /\ Tells(R, k)
  BY TruthGrows
<1>2. /\ rows \in [Op -> Row] /\ exec \in Executor /\ Len(exec.prior) <= PriorMax
      /\ RowsFiled /\ Holds /\ InHand /\ Reading
  BY WorkingWorks, ServerGrows DEF TypeOK, Sane, Works
<1>3. exec.prior \in Lists /\ exec.todo \in Lists /\ exec.base \in Nat /\ Version(day) \in Nat
  BY <1>2, ServerTypes DEF Executor
<1>4. ASSUME ~SendReturn, exec'.prior = exec.prior, exec'.todo \in {exec.todo, exec.prior},
             rows' = rows \/ rows' = Saved(exec.prior)
      PROVE  Remembering(R)
  <2>1. exec'.todo \in Seq(R)
    BY <1>4
  <2>2. \A k : Owed(k) => Recalls(exec.prior, k)
    BY <1>4 DEF Owed
  <2> QED BY <1>4, <2>1, <2>2 DEF Remembering
<1>5. ASSUME NEW request, Remembered(request, 0) \in Memories, Remembered(request, 0).landed = 0,
             SendReturn => request = OwnPost,
             exec'.prior = Recorded(request), exec'.todo = exec.todo,
             rows' = Saved(Recorded(request)), cut' = CutFrom(exec.op, Recording(request))
      PROVE  Remembering(R)
  <2> PICK list : list = Recorded(request)
    OBVIOUS
  <2>1. Remembered(request, 0) \in R
    BY <1>1, <1>5
  <2>2. /\ list \in Seq(R)
        /\ \A k : k.version \in Nat /\ Tells(R, k) /\ exec.op \notin cut'
                   /\ (Recalls(exec.prior, k) \/ SameRequest(request, k))
                     => Recalls(list, k)
    BY <1>1, <1>5, <2>1, RecordedRecalls
  <2>3. ASSUME NEW k, Owed(k) PROVE Recalls(exec.prior, k) \/ SameRequest(request, k)
    BY <1>5, <2>3 DEF Owed, FirstReceipt, SameRequest
  <2> QED BY <1>1, <1>5, <2>2, <2>3 DEF Remembering
<1>6. ASSUME NEW verdict \in Verdicts, NEW conflict \in BOOLEAN, Finished(verdict, conflict)
      PROVE  exec'.prior = exec.prior /\ exec'.todo = exec.todo /\ rows' = Saved(exec.prior)
  <2> DEFINE next == Settling(verdict, exec.prior)
  <2>1. next \in Executor /\ next.prior = exec.prior /\ next.todo = exec.todo
    BY <1>2, <1>3, SettlingType
  <2>2. exec' = [next EXCEPT !.conflict = conflict] /\ rows' = Saved(exec.prior)
    BY <1>6 DEF Finished
  <2> HIDE DEF next
  <2> QED BY <2>1, <2>2 DEF Executor
<1>7. ASSUME NEW base \in Nat, AmendFrom(base), ~SendReturn
      PROVE  Remembering(R)
  <2> PICK amend : amend = Request(AmendKey(exec.op, base, exec.fig), exec.fig, exec.nth)
    OBVIOUS
  <2>1. /\ exec' = [[exec EXCEPT !.base = base] EXCEPT !.phase = "amend", !.prior = Recorded(amend)]
        /\ rows' = Saved(Recorded(amend)) /\ cut' = CutFrom(exec.op, Recording(amend))
    BY <1>7 DEF AmendFrom
  <2>2. Remembered(amend, 0) \in Memories
    BY <1>2, OwnRequests
  <2>3. exec'.prior = Recorded(amend) /\ exec'.todo = exec.todo
    BY <1>2, <2>1 DEF Executor
  <2>4. Remembered(amend, 0).landed = 0
    BY DEF Remembered
  <2> QED BY <1>5, <1>7, <2>1, <2>2, <2>3, <2>4
<1>8. CASE SendReturn
  <2>1. /\ exec' = [exec EXCEPT !.phase = "post", !.prior = Recorded(OwnPost)]
        /\ rows' = Saved(Recorded(OwnPost)) /\ cut' = CutFrom(exec.op, Recording(OwnPost))
    BY <1>8 DEF SendReturn
  <2>2. Remembered(OwnPost, 0) \in Memories /\ Remembered(OwnPost, 0).landed = 0
    BY <1>2, OwnRequests DEF Remembered
  <2>3. exec'.prior = Recorded(OwnPost) /\ exec'.todo = exec.todo
    BY <1>2, <2>1 DEF Executor
  <2> QED BY <1>5, <2>1, <2>2, <2>3
<1>9. CASE ReadDay \/ ReadDayAgain \/ ReadFails
  <2>1. ~SendReturn
    BY <1>9 DEF ReadDay, ReadDayAgain, ReadFails, SendReturn
  <2>2. {"DELIVERED", "REFUSED", "TRANSPORT"} \subseteq Verdicts
    BY DEF Verdicts
  <2>3. CASE exec' = [Replaying(exec.prior, exec.prior, 0) EXCEPT !.replayed = exec.prior] /\ rows' = rows
    <3> DEFINE next == Replaying(exec.prior, exec.prior, 0)
    <3>1. next \in Executor /\ next.prior = exec.prior /\ next.todo = exec.prior
      BY <1>2, <1>3, ReplayingType
    <3>2. exec' = [next EXCEPT !.replayed = exec.prior]
      BY <2>3
    <3> HIDE DEF next
    <3>3. exec'.prior = exec.prior /\ exec'.todo = exec.prior
      BY <3>1, <3>2 DEF Executor
    <3> QED BY <1>4, <2>1, <2>3, <3>3
  <2>4. \/ Finished("DELIVERED", FALSE) \/ Finished("REFUSED", TRUE) \/ Finished("TRANSPORT", FALSE)
        \/ AmendFrom(exec.base) \/ AmendFrom(Version(day))
        \/ exec' = [Replaying(exec.prior, exec.prior, 0) EXCEPT !.replayed = exec.prior] /\ rows' = rows
    BY <1>9, Zenon DEF ReadDay, ReadDayAgain, ReadFails
  <2>5. CASE Finished("DELIVERED", FALSE) \/ Finished("REFUSED", TRUE) \/ Finished("TRANSPORT", FALSE)
    BY <1>4, <1>6, <2>1, <2>2, <2>5
  <2>6. CASE AmendFrom(exec.base) \/ AmendFrom(Version(day))
    BY <1>3, <1>7, <2>1, <2>6
  <2> QED BY <2>3, <2>4, <2>5, <2>6
<1>10. ASSUME exec.phase \in Asking, NEW reply, Learns(reply), ~SendReturn,
              exec'.prior \in Seq(R),
              \A k \in Promised' : Recalls(exec.prior, k) => Recalls(exec'.prior, k)
       PROVE  Remembering(R)
  <2>1. exec.phase = "replay" => exec.todo # <<>>
    BY <1>2 DEF Reading
  <2>2. exec.todo # <<>> => Tail(exec.todo) \in Seq(R)
    <3> PICK todo \in Seq(R) : todo = exec.todo
      OBVIOUS
    <3> QED OBVIOUS
  <2>3. exec'.todo \in Seq(R)
    BY <1>10, <2>1, <2>2 DEF Learns
  <2>4. \A k : Owed(k) => Recalls(exec.prior, k)
    BY <1>10 DEF Owed
  <2> QED BY <1>10, <2>3, <2>4 DEF Learns, Remembering
<1>11. CASE Answered
  <2> PICK reply : reply = ReplyTo(day, receipts, OnWire)
    OBVIOUS
  <2>1. exec.phase \in Asking /\ Hear(reply) /\ Serve(OnWire) /\ ~SendReturn
    BY <1>11 DEF Answered, SendReturn, Asking
  <2>2. /\ reply.kind \in Kinds /\ reply.version \in Nat
        /\ exec.phase = "post" => reply.kind # "moved"
    BY <2>1, AnswerTrue DEF Kinds
  <2>3. exec.phase = "replay" => exec.todo # <<>>
    BY <1>2 DEF Reading
  <2>4. Learns(reply)
    BY <1>2, <2>1, <2>2, <2>3, HearLearns
  <2> PICK list : list = exec'.prior
    OBVIOUS
  <2>5. list \in Seq(R) /\ \A k \in Promised' : Recalls(exec.prior, k) => Recalls(list, k)
    BY <2>1, <2>4, AnswerRecalls DEF Learns
  <2> QED BY <1>10, <2>1, <2>4, <2>5
<1>12. CASE Invalid \/ Unheard
  <2>1. PICK kind \in {"invalid", "silence"} :
          exec.phase \in Asking /\ Hear([kind |-> kind, version |-> 0])
    BY <1>12 DEF Invalid, Unheard
  <2> DEFINE reply == [kind |-> kind, version |-> 0]
  <2>2. reply.kind \in {"invalid", "silence"} /\ reply.version \in Nat /\ Hear(reply)
    BY <2>1
  <2> HIDE DEF reply
  <2>3. exec.phase = "replay" => exec.todo # <<>>
    BY <1>2 DEF Reading
  <2>4. Learns(reply)
    BY <1>2, <2>1, <2>2, <2>3, HearLearns DEF Kinds
  <2>5. exec'.prior = exec.prior
    BY <2>2, <2>4 DEF Learns, Left
  <2>6. ~SendReturn
    BY <2>1 DEF SendReturn, Asking
  <2> QED BY <1>10, <2>1, <2>4, <2>5, <2>6
<1> QED BY <1>8, <1>9, <1>11, <1>12 DEF Working


-----------------------------------------------------------------------------
(* What the phone remembers of its own work: what every list says is true,  *)
(* every list has its length, and the one of a row that may still matter    *)
(* recalls what is promised under the row's own key.                        *)

Truthful == Carries(TrueOnes(receipts))

Room == \A i \in Op : Len(rows[i].prior) <= PriorMax

\* No key is promised before the filing it is named for.
Issued == \A k \in Promised : IsPost(k) => k.key[1] \in 1 .. Filings

Knows(i, k) ==
  /\ ~Closed(rows[i]) => Recalls(rows[i].prior, k)
  /\ InHand /\ exec.op = i => Recalls(exec.prior, k)

Remembers == \A i \in Op \ cut, k \in Promised : k.key = PostKey(i) => Knows(i, k)

LEMMA TruthStays ==
  ASSUME TypeOK, Sane, DayReceipted, Truthful, Next
  PROVE  Truthful'
<1> PICK R : R = TrueOnes(receipts')
  OBVIOUS
<1>1. /\ R \in SUBSET Memories /\ TrueOnes(receipts) \subseteq R
      /\ \A p \in Memories : BaseOf(p) = 0 /\ p.landed = 0 => p \in R
  BY TruthGrows
<1>2. Carries(R)
  BY <1>1, CarriedOver DEF Truthful
<1>3. CASE Working
  <2>1. Remembering(R)
    BY <1>2, <1>3, WorkingLists DEF Carries
  <2>2. exec'.prior \in Lists
    BY <1>3, ServerGrows, WorkingWorks DEF Works, Executor
  <2>3. rows \in [Op -> Row] /\ exec \in Executor /\ RowsFiled /\ Holds /\ InHand
    BY <1>3, ServerGrows, WorkingWorks DEF TypeOK, Sane, Works
  <2> PICK list : list = exec'.prior
    OBVIOUS
  <2>4. \A i \in Op : Saved(list)[i].prior \in Seq(R)
    BY <1>2, <2>1, <2>2, <2>3, SavedCarries DEF Remembering
  <2>5. \A i \in Op : rows'[i].prior \in Seq(R)
    BY <1>2, <2>1, <2>4 DEF Remembering, Carries
  <2>6. exec'.prior \in Seq(R) /\ exec'.todo \in Seq(R)
    BY <2>1 DEF Remembering
  <2> QED BY <2>5, <2>6 DEF Truthful, Carries, TrueOnes, Memories
<1>4. CASE ~Working
  <2>1. Carries(R)'
    BY <1>1, <1>2, <1>4, ElsewhereCarries
  <2> QED BY <2>1 DEF Truthful, Carries, TrueOnes, Memories
<1> QED BY <1>3, <1>4

LEMMA RoomStays ==
  ASSUME TypeOK, Sane, DayReceipted, Truthful, Room, Next
  PROVE  Room'
<1> SUFFICES ASSUME NEW i \in Op PROVE Len(rows'[i].prior) <= PriorMax
  BY DEF Room
<1> PICK R : R = TrueOnes(receipts')
  OBVIOUS
<1>1. /\ R \in SUBSET Memories /\ TrueOnes(receipts) \subseteq R
      /\ \A p \in Memories : BaseOf(p) = 0 /\ p.landed = 0 => p \in R
  BY TruthGrows
<1>2. Carries(R)
  BY <1>1, CarriedOver DEF Truthful
<1>3. CASE Working
  <2>1. Remembering(R)
    BY <1>2, <1>3, WorkingLists DEF Carries
  <2>2. exec'.prior \in Lists /\ Len(exec'.prior) <= PriorMax
    BY <1>3, ServerGrows, WorkingWorks DEF Works, Executor
  <2>3. rows \in [Op -> Row] /\ exec \in Executor /\ RowsFiled /\ Holds /\ InHand
    BY <1>3, ServerGrows, WorkingWorks DEF TypeOK, Sane, Works
  <2> PICK list : list = exec'.prior
    OBVIOUS
  <2>4. Saved(list)[i].prior = IF i = exec.op THEN list ELSE rows[i].prior
    BY <2>2, <2>3, SavedShape
  <2> QED BY <2>1, <2>2, <2>4 DEF Remembering, Room
<1>4. CASE ~Working
  <2>1. ListMoves(i)
    BY <1>4, ElsewhereLists
  <2>2. CASE KeepsList(i)
    BY <2>2 DEF KeepsList, Room
  <2>3. CASE Closes(i)
    BY <2>3 DEF Closes
  <2>4. CASE Starts(i)
    BY <2>4 DEF Starts
  <2>5. CASE Lengthens(i)
    <3>1. PICK list : Extends(list, i) /\ rows'[i].prior = Trim(list)
      BY <2>5 DEF Lengthens
    <3>2. list \in Seq(R)
      BY <1>1, <1>2, <3>1 DEF Extends
    <3> QED BY <3>1, <3>2, TrimKeeps
  <2> QED BY <2>1, <2>2, <2>3, <2>4, <2>5 DEF ListMoves
<1> QED BY <1>3, <1>4

LEMMA FilingsGrow ==
  ASSUME TypeOK, Sane, Next
  PROVE  Filings \in Nat /\ Filings' \in Nat /\ Filings <= Filings'
<1>1. rows \in [Op -> Row] /\ forms \in Seq(Nat) /\ seen \in Nat /\ RowsFiled /\ Filings \in Nat
  BY ServerTypes DEF TypeOK, Sane, Filings
<1>2. CASE forms' = forms
  BY <1>1, <1>2 DEF Filings
<1>3. ASSUME NEW f \in Figures, File(f) PROVE Filings' = Filings + 1
  BY <1>1, <1>3, FileCases DEF Filings
<1>4. forms' = forms \/ \E f \in Figures : File(f)
  BY DEF Next, PeopleNext, FlushNext, Look, SomebodyElseWrites, Retry, Discard, LookAhead,
         BackoffElapses, Claim, SendReturn, Answered, Invalid, Unheard, ReadDay, ReadDayAgain,
         ReadFails, Finished, AmendFrom, Settle, Restart, LateArrival
<1> QED BY <1>1, <1>2, <1>3, <1>4

\* What a step newly promises under a row's own key is the return it sends.
LEMMA IssuedStays ==
  ASSUME TypeOK, Sane, DayReceipted, Issued, Next
  PROVE  Issued'
<1> SUFFICES ASSUME NEW k \in Promised', IsPost(k) PROVE k.key[1] \in 1 .. Filings'
  BY DEF Issued, IsPost
<1>1. Filings \in Nat /\ Filings' \in Nat /\ Filings <= Filings'
  BY FilingsGrow
<1>2. CASE k \in Promised
  <2>1. k.key[1] \in 1 .. Filings
    BY <1>2 DEF Issued
  <2> QED BY <1>1, <2>1
<1>3. CASE SendReturn /\ k = FirstReceipt(OwnPost)
  <2>1. exec.op \in Op /\ rows[exec.op].state = "SENDING"
    BY <1>3 DEF SendReturn, Sane, Holds, InHand
  <2>2. exec.op <= rows[exec.op].nth /\ rows[exec.op].nth <= Filings
    BY <2>1 DEF Sane, RowsFiled
  <2>3. rows[exec.op].nth \in Nat
    <3>1. rows[exec.op] \in Row
      BY <2>1 DEF TypeOK
    <3> QED BY <3>1 DEF Row
  <2>4. k.key[1] = exec.op
    BY <1>3 DEF FirstReceipt, OwnPost, Request, PostKey
  <2> QED BY <1>1, <2>1, <2>2, <2>3, <2>4
<1> QED BY <1>2, <1>3, PromisedStays


\* Nothing is forgotten: not by a row's list, nor by the executor's.
LEMMA RemembersStays ==
  ASSUME TypeOK, Sane, DayReceipted, Truthful, Room, Issued, Remembers, Next
  PROVE  Remembers'
<1> SUFFICES ASSUME NEW i \in Op \ cut', NEW k \in Promised', k.key = PostKey(i) PROVE Knows(i, k)'
  BY DEF Remembers
<1> PICK R : R = TrueOnes(receipts')
  OBVIOUS
<1>1. /\ R \in SUBSET Memories /\ TrueOnes(receipts) \subseteq R /\ LandedAlike(R)
      /\ \A p \in Memories : BaseOf(p) = 0 /\ p.landed = 0 => p \in R
      /\ k.version \in Nat /\ Tells(R, k)
  BY TruthGrows
<1>2. Carries(R)
  BY <1>1, CarriedOver DEF Truthful
<1>3. i \in Op /\ i \notin cut /\ i \notin cut'
  BY CutStays
<1>4. IsPost(k) /\ k.key[1] = i
  BY DEF IsPost, PostKey
<1>5. k \in Promised \/ (SendReturn /\ k = FirstReceipt(OwnPost))
  BY <1>4, PromisedStays
<1>6. k \in Promised => Knows(i, k) /\ i \in 1 .. Filings
  BY <1>3, <1>4 DEF Remembers, Issued
<1>7. CASE ~Working
  <2>1. Knows(i, k) /\ i \in 1 .. Filings
    BY <1>5, <1>6, <1>7 DEF Working
  <2>2. HandMoves /\ ListMoves(i)
    BY <1>3, <1>7, ElsewhereLists
  <2>3. ~Closed(rows'[i]) => Recalls(rows'[i].prior, k)
    <3>1. CASE KeepsList(i)
      BY <2>1, <3>1 DEF KeepsList, Knows
    <3>2. CASE Closes(i)
      BY <3>2 DEF Closes
    <3>3. CASE Starts(i)
      <4>1. Filings \in Nat /\ i = Filings + 1
        BY <3>3, FilingsGrow DEF Starts
      <4> QED BY <2>1, <4>1
    <3>4. CASE Lengthens(i)
      <4>1. PICK list : ~Closed(rows[i]) /\ Extends(list, i) /\ rows'[i].prior = Trim(list)
                        /\ cut' = CutFrom(i, list)
        BY <3>4 DEF Lengthens
      <4>2. list \in Seq(R) /\ (Recalls(rows[i].prior, k) => Recalls(list, k))
        BY <1>1, <1>2, <4>1 DEF Extends
      <4>3. Recalls(list, k)
        BY <2>1, <4>1, <4>2 DEF Knows
      <4>4. ~Overflows(list)
        BY <1>3, <4>1 DEF CutFrom
      <4>5. Recalls(Trim(list), k)
        BY <1>1, <4>2, <4>3, <4>4, TrimRecalls
      <4> QED BY <4>1, <4>5
    <3> QED BY <2>2, <3>1, <3>2, <3>3, <3>4 DEF ListMoves
  <2>4. exec'.phase \notin {"idle", "checked"} /\ exec'.op = i => Recalls(exec'.prior, k)
    <3>1. CASE exec' = exec
      BY <2>1, <3>1 DEF Knows, InHand
    <3>2. ASSUME exec.op = i, ~Closed(rows[i]), exec'.prior = Trim(rows[i].prior)
          PROVE  Recalls(exec'.prior, k)
      <4> PICK list : list = rows[i].prior
        OBVIOUS
      <4>1. list \in Seq(R) /\ Len(list) <= PriorMax
        BY <1>2, <1>3 DEF Carries, Room
      <4>2. ~Overflows(list)
        BY <1>1, <4>1, ShortFits
      <4>3. Recalls(list, k)
        BY <2>1, <3>2 DEF Knows
      <4>4. Recalls(Trim(list), k)
        BY <1>1, <4>1, <4>2, <4>3, TrimRecalls
      <4> QED BY <3>2, <4>4
    <3> QED BY <2>2, <3>1, <3>2 DEF HandMoves
  <2> QED BY <2>3, <2>4 DEF Knows, InHand, Closed
<1>8. CASE Working
  <2>1. Remembering(R)
    BY <1>2, <1>8, WorkingLists DEF Carries
  <2>2. Works
    BY <1>8, ServerGrows, WorkingWorks
  <2>3. /\ rows \in [Op -> Row] /\ exec \in Executor /\ RowsFiled /\ Holds /\ InHand
        /\ exec'.prior \in Lists /\ exec'.op = exec.op
    BY <2>2 DEF TypeOK, Sane, Works, Executor
  <2> PICK list : list = exec'.prior
    OBVIOUS
  <2>4. /\ Saved(list)[i].prior = IF i = exec.op THEN list ELSE rows[i].prior
        /\ Saved(list)[i].state = rows[i].state
    BY <1>3, <2>3, SavedShape DEF Quiet
  <2>5. rows'[i].state = rows[i].state
    BY <2>1, <2>4 DEF Remembering
  <2>6. CASE i = exec.op
    <3>1. Owed(k)
      BY <1>5, <1>6, <2>3, <2>6 DEF Owed, Knows
    <3>2. Recalls(list, k)
      BY <1>3, <2>1, <2>6, <3>1 DEF Remembering
    <3>3. CASE rows' = Saved(list)
      BY <2>4, <2>6, <3>2, <3>3 DEF Knows
    <3>4. CASE rows' = rows /\ ~SendReturn
      <4>1. Knows(i, k)
        BY <1>5, <1>6, <3>4
      <4>2. Closed(rows'[i]) \/ Recalls(rows'[i].prior, k)
        BY <3>4, <4>1 DEF Knows
      <4> QED BY <3>2, <4>2 DEF Knows, Closed
    <3> QED BY <2>1, <3>3, <3>4 DEF Remembering
  <2>7. CASE i # exec.op
    <3>1. Knows(i, k)
      <4>1. OwnPost.key = PostKey(exec.op) /\ FirstReceipt(OwnPost).key[1] = exec.op
        BY DEF OwnPost, Request, FirstReceipt, PostKey
      <4> QED BY <1>4, <1>5, <1>6, <2>7, <4>1
    <3>2. rows'[i].prior = rows[i].prior
      BY <2>1, <2>4, <2>7 DEF Remembering
    <3>3. Closed(rows'[i]) \/ Recalls(rows'[i].prior, k)
      BY <2>5, <3>1, <3>2 DEF Knows, Closed
    <3> QED BY <2>3, <2>7, <3>3 DEF Knows, Closed
  <2> QED BY <2>6, <2>7
<1> QED BY <1>7, <1>8

-----------------------------------------------------------------------------
(* The theorems.                                                            *)

IInv == TypeOK /\ Sane /\ (reopened \/ (Order /\ NewestHeld))

LEMMA InitOrder == Init => IInv
<1> SUFFICES ASSUME Init PROVE Order /\ NewestHeld
  BY InitTypes DEF IInv
<1>1. \A i \in Op : rows[i] = NoRow /\ rows[i].state = "NONE" /\ rows[i].prior = <<>> /\ rows[i].base = 0
  BY NoRowType DEF Init
<1>2. /\ exec = Resting /\ exec.phase = "idle" /\ exec.prior = <<>> /\ exec.todo = <<>>
      /\ late = {} /\ Version(day) = 0 /\ Filings = 0
  BY RestingType DEF Init, Version, Filings
<1>3. Live = {}
  BY <1>1 DEF Live
<1>4. InTurn /\ HeadFirst /\ DayBehind /\ RowBasesSeen /\ HandBaseSeen /\ OverwritesSeen /\ LandsInOrder
      /\ NewestHeld
  BY <1>1, <1>2, <1>3
     DEF InTurn, HeadFirst, DayBehind, RowBasesSeen, HandBaseSeen, InHand, OverwritesSeen, LandsInOrder,
         NewestHeld
<1>5. AllFair
  <2>1. Carries(FairOnes)
    <3>1. <<>> \in Seq(FairOnes)
      OBVIOUS
    <3> QED BY <1>1, <1>2, <3>1 DEF Carries
  <2> QED BY <1>2, <2>1 DEF AllFair
<1> QED BY <1>4, <1>5 DEF Order

\* What holds throughout: the types, what the executor and the receipts say of
\* rows and versions, the order of the filings while none is put back, and where
\* the newest is.
THEOREM Invariance == Spec => []IInv
<1>1. IInv /\ [Next]_vars => IInv'
  <2> SUFFICES ASSUME IInv, [Next]_vars PROVE IInv'
    OBVIOUS
  <2>1. CASE Next
    <3>1. TypeOK' /\ Sane'
      BY <2>1, StepKeeps DEF IInv
    <3>2. CASE reopened'
      BY <3>1, <3>2 DEF IInv
    <3>3. CASE ~reopened'
      <4>1. Order /\ NewestHeld
        BY <2>1, <3>3, ReopenedStays DEF IInv
      <4>2. Order' /\ NewestHeld'
        BY <2>1, <3>3, <4>1, OrderKept, NewestKept DEF IInv
      <4> QED BY <3>1, <4>2 DEF IInv
    <3> QED BY <3>2, <3>3
  <2>2. CASE UNCHANGED vars
    <3>1. UNCHANGED <<rows, forms, seen, exec, late, day, receipts, discarded, reopened, cut,
                      restarts, retries, lost>>
      BY <2>2 DEF vars, server, history, counters
    <3>2. TypeOK'
      BY <3>1 DEF TypeOK, Filings, IInv
    <3>3. Sane'
      BY <3>1 DEF Sane, RowsFiled, PlacesInOrder, Holds, InHand, Reading, ReceiptsTrue,
                  OursTrue, DeliveredTrue, Filings, IInv
    <3>4. ASSUME Order PROVE Order'
      <4>1. Version(day) \in Nat /\ day \in Seq(VersionType) /\ receipts \subseteq ReceiptType
        BY DEF IInv, TypeOK, Version, VersionType, ReceiptType
      <4>2. Grown
        BY <3>1, <4>1 DEF Grown
      <4>3. LinePart
        BY <3>1, <3>3, <3>4, <4>2, UntouchedLine DEF IInv, Sane
      <4>4. Live' = Live
        BY <3>1 DEF Live, Filings
      <4>5. DayBehind' /\ OverwritesSeen' /\ LandsInOrder'
        BY <3>1, <3>4, <4>4 DEF Order, DayBehind, OverwritesSeen, LandsInOrder, Crew, SeenBy, Filings
      <4> QED BY <4>3, <4>5 DEF Order, LinePart
    <3>5. NewestHeld => NewestHeld'
      BY <3>1 DEF NewestHeld, HasNewest, Filings
    <3> QED BY <3>1, <3>2, <3>3, <3>4, <3>5 DEF IInv
  <2> QED BY <2>1, <2>2
<1> QED BY <1>1, InitOrder, PTL DEF Spec

\* A crew's amendment only replaces a version the crew wrote, or had on its
\* screen, however late a request comes and however often it is sent.
THEOREM Unseen == Spec => []NoSilentOverwrite
<1>1. IInv => NoSilentOverwrite
  BY DEF IInv, Order, OverwritesSeen, NoSilentOverwrite, SeenBy
<1> QED BY <1>1, Invariance, PTL

\* The filings reach the day in the order they were made, unless a failed one
\* was put back after a newer one.
THEOREM FiledOrder == Spec => []NeverBackwards
<1>1. IInv => NeverBackwards
  BY DEF IInv, Order, NeverBackwards
<1> QED BY <1>1, Invariance, PTL

\* The newest filing is on a row that may be sent or has failed, or was thrown
\* away, or the day did read as it says.
THEOREM NewestSafe == Spec => []LatestKept
<1>1. IInv => LatestKept
  BY DEF IInv, NewestHeld, HasNewest, LatestKept
<1> QED BY <1>1, Invariance, PTL

\* What the phone remembers and replays is accounted for: by the receipts, by the
\* day, and by the latest version a replay was answered with.
CInv == TypeOK /\ Sane /\ Accounted

LEMMA CauseInvariance == Spec => []CInv
<1>1. Init => CInv
  <2> SUFFICES ASSUME Init PROVE Accounted
    BY InitTypes DEF CInv
  <2>1. \A i \in Op : rows[i].prior = <<>>
    BY NoRowType DEF Init
  <2>2. /\ exec.phase = "idle" /\ exec.prior = <<>> /\ exec.todo = <<>>
        /\ Version(day) = 0 /\ receipts = {}
    BY RestingType DEF Init, Version
  <2>3. Carries(Past)
    <3>1. <<>> \in Seq(Past)
      OBVIOUS
    <3> QED BY <2>1, <2>2, <3>1 DEF Carries
  <2> QED BY <2>2, <2>3 DEF Accounted, DayReceipted, Replayed
<1>2. CInv /\ [Next]_vars => CInv'
  <2> SUFFICES ASSUME CInv, [Next]_vars PROVE CInv'
    OBVIOUS
  <2>1. CASE Next
    BY <2>1, StepKeeps, AccountedStays DEF CInv
  <2>2. CASE UNCHANGED vars
    <3>1. UNCHANGED <<rows, forms, seen, exec, late, day, receipts, discarded, reopened, cut,
                      restarts, retries, lost>>
      BY <2>2 DEF vars, server, history, counters
    <3>2. TypeOK' /\ Sane'
      BY <3>1 DEF CInv, TypeOK, Filings, Sane, RowsFiled, PlacesInOrder, Holds, InHand, Reading,
                  ReceiptsTrue, OursTrue, DeliveredTrue
    <3>3. Carries(Past)'
      BY <3>1 DEF CInv, Accounted, Carries, Past
    <3>4. DayReceipted'
      BY <3>1 DEF CInv, Accounted, DayReceipted, Crew
    <3>5. Replayed'
      <4>1. ASSUME NEW i, Known(exec.replayed[i]) PROVE Known(exec.replayed[i])'
        BY <3>1, <4>1 DEF Known, Over, Receipt, Crew, SameRequest, BaseOf
      <4>2. Replays' = Replays
        BY <3>1 DEF Replays
      <4> QED BY <3>1, <4>1, <4>2 DEF CInv, Accounted, Replayed
    <3> QED BY <3>2, <3>3, <3>4, <3>5 DEF CInv, Accounted
  <2> QED BY <2>1, <2>2
<1> QED BY <1>1, <1>2, PTL DEF Spec

\* A return is sent back for review only when the day's version is not one that
\* a request it replayed has made, or when the reply to a replay was not heard.
THEOREM CauseOfConflict == Spec => ConflictHasCause
<1>1. CInv /\ [Next]_vars =>
        [exec'.conflict /\ ~exec.conflict => exec.clouded \/ ~ByOneOf(exec.replayed)]_vars
  BY ConflictCause DEF CInv
<1> QED BY <1>1, CauseInvariance, PTL DEF Spec, ConflictHasCause

\* What the phone remembers of its own work is true, finds room on its lists,
\* and recalls whatever the server has, or may get, under a row's own key.
RInv == TypeOK /\ Sane /\ DayReceipted /\ Truthful /\ Room /\ Issued /\ Remembers

LEMMA MemoryInvariance == Spec => []RInv
<1>1. Init => RInv
  <2> SUFFICES ASSUME Init PROVE DayReceipted /\ Truthful /\ Room /\ Issued /\ Remembers
    BY InitTypes DEF RInv
  <2>1. \A i \in Op : rows[i].prior = <<>>
    BY NoRowType DEF Init
  <2>2. /\ exec.phase = "idle" /\ exec.prior = <<>> /\ exec.todo = <<>>
        /\ Version(day) = 0 /\ receipts = {} /\ late = {}
    BY RestingType DEF Init, Version
  <2>3. Truthful
    <3> PICK R : R = TrueOnes(receipts)
      OBVIOUS
    <3>1. <<>> \in Seq(R)
      OBVIOUS
    <3> QED BY <2>1, <2>2, <3>1 DEF Truthful, Carries
  <2>4. Promised = {}
    BY <2>2 DEF Promised, Sent
  <2> QED BY <2>1, <2>2, <2>3, <2>4 DEF DayReceipted, Room, Issued, Remembers
<1>2. RInv /\ [Next]_vars => RInv'
  <2> SUFFICES ASSUME RInv, [Next]_vars PROVE RInv'
    OBVIOUS
  <2>1. CASE Next
    <3>1. TypeOK' /\ Sane' /\ DayReceipted'
      BY <2>1, StepKeeps, ServerGrows, DayReceiptedStays DEF RInv
    <3>2. Truthful' /\ Room' /\ Issued' /\ Remembers'
      BY <2>1, TruthStays, RoomStays, IssuedStays, RemembersStays DEF RInv
    <3> QED BY <3>1, <3>2 DEF RInv
  <2>2. CASE UNCHANGED vars
    <3>1. UNCHANGED <<rows, forms, seen, exec, late, day, receipts, discarded, reopened, cut,
                      restarts, retries, lost>>
      BY <2>2 DEF vars, server, history, counters
    <3>2. TypeOK' /\ Sane'
      BY <3>1 DEF RInv, TypeOK, Filings, Sane, RowsFiled, PlacesInOrder, Holds, InHand, Reading,
                  ReceiptsTrue, OursTrue, DeliveredTrue
    <3>3. DayReceipted' /\ Room'
      BY <3>1 DEF RInv, DayReceipted, Crew, Room
    <3>4. Truthful'
      <4> PICK R : R = TrueOnes(receipts)
        OBVIOUS
      <4>1. TrueOnes(receipts)' = R
        BY <3>1 DEF TrueOnes, Memories
      <4>2. Carries(R)'
        BY <3>1 DEF RInv, Truthful, Carries
      <4> QED BY <4>1, <4>2 DEF Truthful, Carries
    <3>5. Promised' = Promised
      <4>1. OnWire' = OnWire
        BY <3>1 DEF OnWire, OwnPost, OwnAmend
      <4> QED BY <3>1, <4>1 DEF Promised, Sent
    <3>6. Issued' /\ Remembers'
      BY <3>1, <3>5 DEF RInv, Issued, Remembers, Knows, Closed, InHand, Filings
    <3> QED BY <3>2, <3>3, <3>4, <3>6 DEF RInv
  <2> QED BY <2>1, <2>2
<1> QED BY <1>1, <1>2, PTL DEF Spec

\* The list of a row that is still to be sent, or has failed, names what the
\* server has under the row's own key, or a later version of the phone's, unless
\* it once had more to keep than there is room for.
THEOREM WorkRemembered == Spec => []OwnWorkRemembered
<1>1. RInv => OwnWorkRemembered
  <2> SUFFICES ASSUME RInv, NEW i \in Op \ cut, NEW k \in receipts,
                      rows[i].state \in ActiveStates \cup {"FAILED"}, k.key = PostKey(i)
               PROVE  \E j \in DOMAIN rows[i].prior :
                        \/ SameRequest(rows[i].prior[j], k)
                        \/ rows[i].prior[j].landed > k.version
    BY DEF OwnWorkRemembered
  <2>1. ~Closed(rows[i])
    BY DEF Closed
  <2>2. Recalls(rows[i].prior, k)
    BY <2>1 DEF RInv, Remembers, Promised, Knows
  <2>3. DOMAIN rows[i].prior = 1 .. Len(rows[i].prior)
    BY DEF RInv, Truthful, Carries
  <2> QED BY <2>2, <2>3 DEF Recalls
<1> QED BY <1>1, MemoryInvariance, PTL

=============================================================================
