---------------------------- MODULE Stock_proofs ----------------------------
(***************************************************************************)
(* Proofs about Stock, for any items, places, counts, goods receipts and   *)
(* sessions.  First the documents: a count is posted once, and no more of  *)
(* a receipt goes back than was accepted.  Both rest on the document's     *)
(* row, which a session holds from the statement that reads it to its      *)
(* commit.  Then the ledger: nothing goes from a place that is not there,  *)
(* nothing is promised twice, no ring of waits is in the order of items,   *)
(* and the storekeepers are told when a level is crossed.  These rest on   *)
(* the items' rows: what a session has found of an item it holds stays     *)
(* found until it commits.                                                 *)
(***************************************************************************)
EXTENDS Stock, DataLemmas

-----------------------------------------------------------------------------
(* The inductive invariant.                                                 *)

\* A session's record has these fields, whatever they hold: what a count
\* posts, in the order of a sort, is of no concern here.
Fields == {"kind", "stage", "no", "lines", "at", "doc", "override", "has", "before", "total",
           "placed", "short", "rung"}
IsRequest(t) == t = [f \in Fields |-> t[f]]

IsTally(c) == c = [f \in {"status", "at", "variance"} |-> c[f]]

Parts == {"stage", "items", "at", "place", "amounts"}
IsEntry(e) == e = [f \in Parts |-> e[f]]

Shape ==
  /\ tx = [s \in Sessions |-> tx[s]] /\ \A s \in Sessions : IsRequest(tx[s])
  /\ counts = [c \in Counts |-> counts[c]] /\ \A c \in Counts : IsTally(counts[c])
  /\ grns \in [Grns -> [Items -> Int]] /\ adjusted \in [Counts -> Nat]
  /\ entries = [d \in Documents |-> entries[d]] /\ \A d \in Documents : IsEntry(entries[d])

\* The rows that an entry holds.
KeysOf(e) == {Row("item", e.items[n]) : n \in 1 .. e.at - 1}

\* No two sessions hold a row, nor does one hold what a document's entry holds.
Exclusive ==
  /\ \A s, t \in Sessions : s # t => tx[s].has \cap tx[t].has = {}
  /\ \A s \in Sessions, d \in Documents : tx[s].has \cap KeysOf(entries[d]) = {}

\* The document is not there before its entry commits.
IsNew(d) ==
  /\ d[1] = "grn" => grns[d[2]] = Nil
  /\ d[1] = "count" => counts[d[2]].status = "NONE"

\* A goods receipt has a line for whatever was accepted.
Covers(e) ==
  /\ e.stage # "look" /\ e.amounts \in [Items -> Nat]
  /\ \A i \in Items : e.amounts[i] # 0 => \E n \in DOMAIN e.items : e.items[n] = i

EntrySound(d, e) ==
  e.stage # "idle" =>
    /\ IsNew(d)
    /\ e.items \in Seq(Items) /\ e.at \in Nat \ {0}
    /\ e.stage = "commit" => e.at > Len(e.items)
    /\ e.stage # "commit" => e.at <= Len(e.items)
    /\ d[1] = "grn" => Covers(e)
    /\ d[1] = "count" => e.place \in Locations

\* Whoever approves a count holds its row, and it may still be approved.
ApproveSound(t) ==
  t.kind = "approve" /\ t.stage # "idle" =>
    /\ t.doc \in Counts
    /\ t.stage # "document" =>
         Row("count", t.doc) \in t.has /\ counts[t.doc].status = "COUNTED"

\* Goods of several items, each on one line.
Goods(lines) ==
  /\ lines \in Seq(Line) /\ lines # <<>>
  /\ \A n \in DOMAIN lines : lines[n].effect = "OUT"
  /\ \A m, n \in DOMAIN lines : m # n => lines[m].item # lines[n].item

\* What a return has posted of an item is the line of it, if it has come to it.
Posted(t, i) ==
  \/ t.total[i] = 0
  \/ \E n \in DOMAIN t.lines : n < t.at /\ t.lines[n].item = i /\ t.total[i] = -t.lines[n].qty

\* Whoever returns goods holds the receipt's row, and all of them are there.
ReturnSound(t) ==
  t.kind = "return" /\ t.stage # "idle" =>
    /\ t.doc \in Grns /\ Goods(t.lines) /\ t.at \in Nat \ {0} /\ t.total \in [Items -> Int]
    /\ t.stage # "commit" => t.at <= Len(t.lines)
    /\ \A i \in Items : Posted(t, i)
    /\ t.stage # "document" =>
         /\ Row("grn", t.doc) \in t.has
         /\ \A n \in DOMAIN t.lines : t.lines[n].qty <= grns[t.doc][t.lines[n].item]

Inv ==
  /\ Shape /\ Exclusive /\ AdjustedOnce /\ ReturnsWithinReceipt
  /\ \A s \in Sessions : ApproveSound(tx[s]) /\ ReturnSound(tx[s])
  /\ \A d \in Documents : EntrySound(d, entries[d])

-----------------------------------------------------------------------------
(* Records with some fields replaced.                                       *)

LEMMA Kept ==
  ASSUME NEW t, IsRequest(t), NEW v
  PROVE  /\ IsRequest([t EXCEPT !.kind = v]) /\ IsRequest([t EXCEPT !.stage = v])
         /\ IsRequest([t EXCEPT !.no = v]) /\ IsRequest([t EXCEPT !.lines = v])
         /\ IsRequest([t EXCEPT !.at = v]) /\ IsRequest([t EXCEPT !.doc = v])
         /\ IsRequest([t EXCEPT !.override = v]) /\ IsRequest([t EXCEPT !.has = v])
         /\ IsRequest([t EXCEPT !.before = v]) /\ IsRequest([t EXCEPT !.total = v])
         /\ IsRequest([t EXCEPT !.placed = v]) /\ IsRequest([t EXCEPT !.short = v])
         /\ IsRequest([t EXCEPT !.rung = v])
<1>1. IsRequest([t EXCEPT !.kind = v]) /\ IsRequest([t EXCEPT !.stage = v])
  BY SMT DEF Fields, IsRequest
<1>2. IsRequest([t EXCEPT !.no = v]) /\ IsRequest([t EXCEPT !.lines = v])
  BY SMT DEF Fields, IsRequest
<1>3. IsRequest([t EXCEPT !.at = v]) /\ IsRequest([t EXCEPT !.doc = v])
  BY SMT DEF Fields, IsRequest
<1>4. IsRequest([t EXCEPT !.override = v]) /\ IsRequest([t EXCEPT !.has = v])
  BY SMT DEF Fields, IsRequest
<1>5. IsRequest([t EXCEPT !.before = v]) /\ IsRequest([t EXCEPT !.total = v])
  BY SMT DEF Fields, IsRequest
<1>6. IsRequest([t EXCEPT !.placed = v]) /\ IsRequest([t EXCEPT !.short = v])
  BY SMT DEF Fields, IsRequest
<1>7. IsRequest([t EXCEPT !.rung = v])
  BY SMT DEF Fields, IsRequest
<1> QED BY <1>1, <1>2, <1>3, <1>4, <1>5, <1>6, <1>7, Zenon

LEMMA IdleFields ==
  /\ IsRequest(Idle) /\ Idle.stage = "idle" /\ Idle.has = {} /\ Idle.at = 1 /\ Idle.total = Nil
  BY DEF Idle, IsRequest, Fields

\* What is entered is a receipt or a count; an entry that is not under way holds
\* nothing.
LEMMA DocumentIs ==
  ASSUME NEW d \in Documents
  PROVE  \/ d[1] = "grn" /\ d[2] \in Grns /\ d = Row("grn", d[2])
         \/ d[1] = "count" /\ d[2] \in Counts /\ d = Row("count", d[2])
  BY DEF Documents, Row

LEMMA NoEntryFields ==
  /\ IsEntry(NoEntry) /\ NoEntry.stage = "idle" /\ KeysOf(NoEntry) = {}
<1>1. IsEntry(NoEntry) /\ NoEntry.stage = "idle" /\ NoEntry.at = 1
  BY DEF NoEntry, IsEntry, Parts
<1>2. 1 .. NoEntry.at - 1 = {}
  BY <1>1
<1> QED BY <1>1, <1>2 DEF KeysOf

-----------------------------------------------------------------------------
(* Steps of a session that leave the documents alone.                       *)

LEMMA StepKeeps ==
  ASSUME Inv, NEW s \in Sessions, NEW t, IsRequest(t), ApproveSound(t), ReturnSound(t),
         \A u \in Sessions \ {s} : t.has \cap tx[u].has = {},
         \A d \in Documents : t.has \cap KeysOf(entries[d]) = {},
         tx' = [tx EXCEPT ![s] = t], UNCHANGED <<grns, counts, adjusted, entries>>
  PROVE  Inv'
<1>1. /\ tx' = [u \in Sessions |-> tx'[u]] /\ tx'[s] = t
      /\ \A u \in Sessions \ {s} : tx'[u] = tx[u]
  BY DEF Inv, Shape
<1>2. Shape'
  BY <1>1 DEF Inv, Shape, IsEntry
<1>3. Exclusive'
  BY <1>1 DEF Inv, Exclusive, KeysOf
<1>4. AdjustedOnce' /\ ReturnsWithinReceipt'
  BY DEF Inv, AdjustedOnce, ReturnsWithinReceipt
<1>5. ApproveSound(t)' /\ ReturnSound(t)'
  BY DEF ApproveSound, ReturnSound, Posted, Goods
<1>6. ASSUME NEW u \in Sessions PROVE ApproveSound(tx[u])' /\ ReturnSound(tx[u])'
  <2>1. CASE u = s
    <3>1. tx'[u] = t
      BY <1>1, <2>1
    <3> QED BY <1>5, <3>1
  <2>2. CASE u # s
    <3>1. ApproveSound(tx[u]) /\ ReturnSound(tx[u]) BY DEF Inv
    <3> QED BY <1>1, <2>2, <3>1 DEF ApproveSound, ReturnSound, Posted
  <2> QED BY <2>1, <2>2
<1>7. ASSUME NEW d \in Documents PROVE EntrySound(d, entries[d])'
  BY DEF Inv, EntrySound, IsNew, Covers
<1> QED BY <1>2, <1>3, <1>4, <1>6, <1>7 DEF Inv

\* A session that ends, answered, refused or dead.
LEMMA LeaveKeeps ==
  ASSUME Inv, NEW s \in Sessions, tx' = [tx EXCEPT ![s] = Idle],
         UNCHANGED <<grns, counts, adjusted, entries>>
  PROVE  Inv'
  BY StepKeeps, IdleFields DEF ApproveSound, ReturnSound

LEMMA BeginKeeps ==
  ASSUME Inv, NEW s \in Sessions, NEW kind, NEW lines, NEW doc, NEW override,
         Begin(s, kind, lines, doc, override),
         kind = "approve" => doc \in Counts,
         kind = "return" => doc \in Grns /\ Goods(lines)
  PROVE  Inv'
<1> DEFINE no == begun + 1
           stage == IF kind \in {"return", "approve"} THEN "document" ELSE "lock"
<1> PICK t : t = [Idle EXCEPT !.kind = kind, !.no = no, !.lines = lines, !.doc = doc,
                              !.override = override, !.stage = stage]
  OBVIOUS
<1>1. tx' = [tx EXCEPT ![s] = t] /\ UNCHANGED <<grns, counts, adjusted, entries>>
  BY Zenon DEF Begin, documents
<1>2. IsRequest(t)
  BY IdleFields, Kept, Zenon
<1>3. /\ t.kind = kind /\ t.stage = stage /\ t.lines = lines /\ t.at = 1 /\ t.doc = doc
      /\ t.has = {} /\ t.total = Nil
  <2> HIDE DEF no, stage
  <2> QED BY IdleFields, SMT DEF IsRequest, Fields
<1>4. ApproveSound(t)
  BY <1>3 DEF ApproveSound
<1>5. ReturnSound(t)
  <2> SUFFICES ASSUME kind = "return" PROVE ReturnSound(t)
    BY <1>3 DEF ReturnSound
  <2>1. t.stage = "document" /\ Len(lines) \in Nat /\ 1 <= Len(lines)
    BY <1>3 DEF Goods
  <2>2. t.total \in [Items -> Int] /\ \A i \in Items : t.total[i] = 0
    BY <1>3 DEF Nil
  <2> QED BY <1>3, <2>1, <2>2 DEF ReturnSound, Posted
<1> QED BY <1>1, <1>2, <1>3, <1>4, <1>5, StepKeeps

\* A return as it was asked for: several items of one receipt.
LEMMA AskedGoods ==
  ASSUME NEW S \in SUBSET Items, S # {}, NEW q \in Nat \ {0}, NEW order \in SetToSeqs(S)
  PROVE  Goods([n \in DOMAIN order |->
           [item |-> order[n], effect |-> "OUT", from |-> Nowhere, to |-> Nowhere, qty |-> q]])
<1> DEFINE lines == [n \in DOMAIN order |->
             [item |-> order[n], effect |-> "OUT", from |-> Nowhere, to |-> Nowhere, qty |-> q]]
<1>1. IsFiniteSet(S) /\ Cardinality(S) \in Nat /\ Cardinality(S) # 0
  BY StockConstants, FS_Subset, FS_CardinalityType, FS_EmptySet DEF StockConstants
<1>2. /\ order \in [1 .. Cardinality(S) -> S]
      /\ \A i, j \in 1 .. Cardinality(S) : i # j => order[i] # order[j]
  BY DEF SetToSeqs
<1>3. lines \in [1 .. Cardinality(S) -> Line]
  BY <1>2 DEF Line, Effects
<1>4. lines \in Seq(Line) /\ Len(lines) = Cardinality(S) /\ lines # <<>>
  BY <1>1, <1>3
<1> QED BY <1>1, <1>2, <1>4 DEF Goods

LEMMA BegunKeeps ==
  ASSUME Inv, NEW s \in Sessions,
         Post(s) \/ PostUnplaced(s) \/ Reserve(s) \/ Return(s) \/ Approve(s)
  PROVE  Inv'
<1>1. CASE Post(s) BY <1>1, BeginKeeps DEF Post
<1>2. CASE PostUnplaced(s) BY <1>2, BeginKeeps DEF PostUnplaced
<1>3. CASE Reserve(s) BY <1>3, BeginKeeps DEF Reserve
<1>4. CASE Return(s)
  <2> PICK g \in Grns, S \in SUBSET Items, q \in Quantities :
         /\ S # {}
         /\ \E order \in SetToSeqs(S) :
              Begin(s, "return", [n \in DOMAIN order |->
                [item |-> order[n], effect |-> "OUT", from |-> Nowhere, to |-> Nowhere, qty |-> q]],
                g, FALSE)
    BY <1>4, Zenon DEF Return
  <2> PICK order \in SetToSeqs(S) :
         Begin(s, "return", [n \in DOMAIN order |->
           [item |-> order[n], effect |-> "OUT", from |-> Nowhere, to |-> Nowhere, qty |-> q]],
           g, FALSE)
    OBVIOUS
  <2>1. q \in Nat \ {0}
    BY StockConstants
  <2> QED BY <2>1, AskedGoods, BeginKeeps
<1>5. CASE Approve(s) BY <1>5, BeginKeeps DEF Approve
<1> QED BY <1>1, <1>2, <1>3, <1>4, <1>5

\* A lock is granted when nobody else holds the row.
LEMMA GrantedAlone ==
  ASSUME NEW s \in Sessions, Granted(s)
  PROVE  /\ \A u \in Sessions \ {s} : Wanted(s) \cap tx[u].has = {}
         /\ \A d \in Documents : Wanted(s) \cap KeysOf(entries[d]) = {}
<1>1. ASSUME NEW u \in Sessions \ {s} PROVE Wanted(s) \cap tx[u].has = {}
  BY DEF Granted, WaitsFor, Wants, Has, Parties
<1>2. ASSUME NEW d \in Documents PROVE Wanted(s) \cap KeysOf(entries[d]) = {}
  <2>1. d \notin Sessions
    BY StockConstants
  <2> QED BY <2>1 DEF Granted, WaitsFor, Wants, Has, Parties, Keys, KeysOf
<1> QED BY <1>1, <1>2

LEMMA LockDocumentKeeps ==
  ASSUME Inv, NEW s \in Sessions, LockDocument(s)
  PROVE  Inv'
<1> DEFINE approves == tx[s].kind = "approve"
           lines == IF approves THEN Lines(tx[s].doc) ELSE tx[s].lines
           stands == IF approves THEN counts[tx[s].doc].status = "COUNTED"
                     ELSE \A n \in DOMAIN lines : lines[n].qty <= grns[tx[s].doc][lines[n].item]
           stage == IF lines = <<>> THEN "commit" ELSE "lock"
<1>1. PICK t : t = [tx[s] EXCEPT !.has = Wanted(s), !.lines = lines, !.stage = stage]
  OBVIOUS
<1>2. /\ tx' = [tx EXCEPT ![s] = IF ~stands THEN Idle ELSE t]
      /\ UNCHANGED <<grns, counts, adjusted, entries>>
  BY <1>1, Zenon DEF LockDocument, documents
<1>3. CASE ~stands
  BY <1>2, <1>3, LeaveKeeps
<1>4. CASE stands
  <2> PICK r : r = tx[s] OBVIOUS
  <2>1. IsRequest(r) /\ r.stage = "document" /\ ApproveSound(r) /\ ReturnSound(r)
    BY DEF Inv, Shape, LockDocument
  <2>2. Wanted(s) = {Row(IF r.kind = "approve" THEN "count" ELSE "grn", r.doc)}
    BY <2>1 DEF Wanted
  <2>3. IsRequest(t)
    <3> HIDE DEF lines, stage
    <3> QED BY <1>1, <2>1, Kept, Zenon
  <2>4. /\ t.kind = r.kind /\ t.stage = stage /\ t.lines = lines /\ t.at = r.at /\ t.doc = r.doc
        /\ t.has = Wanted(s) /\ t.total = r.total
    <3> HIDE DEF lines, stage
    <3> QED BY <1>1, <2>1, SMT DEF IsRequest, Fields
  <2>5. /\ \A u \in Sessions \ {s} : t.has \cap tx[u].has = {}
        /\ \A d \in Documents : t.has \cap KeysOf(entries[d]) = {}
    BY <2>4, GrantedAlone DEF LockDocument
  <2>6. ApproveSound(t)
    BY <1>4, <2>1, <2>2, <2>4 DEF ApproveSound
  <2>7. ReturnSound(t)
    <3> SUFFICES ASSUME r.kind = "return" PROVE ReturnSound(t)
      BY <2>4 DEF ReturnSound
    <3>1. lines = r.lines /\ lines # <<>> /\ stage = "lock"
      BY <2>1 DEF ReturnSound, Goods
    <3>2. \A n \in DOMAIN r.lines : r.lines[n].qty <= grns[r.doc][r.lines[n].item]
      BY <1>4, <3>1
    <3> QED BY <2>1, <2>2, <2>4, <3>1, <3>2 DEF ReturnSound, Posted
  <2> QED BY <1>2, <1>4, <2>3, <2>5, <2>6, <2>7, StepKeeps
<1> QED BY <1>3, <1>4

LEMMA LockItemKeeps ==
  ASSUME Inv, NEW s \in Sessions, LockItem(s)
  PROVE  Inv'
<1>0. PICK t : t = [tx[s] EXCEPT !.has = tx[s].has \cup Wanted(s), !.stage = "look"]
  OBVIOUS
<1>1. tx' = [tx EXCEPT ![s] = t] /\ UNCHANGED <<grns, counts, adjusted, entries>>
  BY <1>0, Zenon DEF LockItem, documents
<1> PICK r : r = tx[s] OBVIOUS
<1>2. IsRequest(r) /\ r.stage = "lock" /\ ApproveSound(r) /\ ReturnSound(r)
  BY DEF Inv, Shape, LockItem
<1>3. IsRequest(t)
  BY <1>0, <1>2, Kept, Zenon
<1>4. /\ t.kind = r.kind /\ t.stage = "look" /\ t.lines = r.lines /\ t.at = r.at
      /\ t.doc = r.doc /\ t.has = r.has \cup Wanted(s) /\ t.total = r.total
  BY <1>0, <1>2, SMT DEF IsRequest, Fields
<1>5. /\ \A u \in Sessions \ {s} : t.has \cap tx[u].has = {}
      /\ \A d \in Documents : t.has \cap KeysOf(entries[d]) = {}
  BY <1>4, GrantedAlone DEF LockItem, Inv, Exclusive
<1>6. ApproveSound(t) /\ ReturnSound(t)
  BY <1>2, <1>4 DEF ApproveSound, ReturnSound, Posted
<1> QED BY <1>1, <1>3, <1>5, <1>6, StepKeeps

LEMMA LookKeeps ==
  ASSUME Inv, NEW s \in Sessions, Look(s)
  PROVE  Inv'
<1> DEFINE line == Current(s)
           beyond == tx[s].kind = "post" /\ tx[s].override /\ line.from # Nowhere
                       /\ line.qty > Free(s, line.item, line.from)
           before == Total(s, line.item)
           short == IF beyond THEN {<<line.item, line.from>>} ELSE {}
<1>0. PICK t : t = [tx[s] EXCEPT !.before = before, !.stage = "write", !.short = short]
  OBVIOUS
<1>1. /\ tx' = [tx EXCEPT ![s] = IF ~Allowed(s) THEN Idle ELSE t]
      /\ UNCHANGED <<grns, counts, adjusted, entries>>
  BY <1>0, Zenon DEF Look, documents
<1> PICK r : r = tx[s] OBVIOUS
<1>2. IsRequest(r) /\ r.stage = "look" /\ ApproveSound(r) /\ ReturnSound(r)
  BY DEF Inv, Shape, Look
<1> HIDE DEF before, short
<1>3. IsRequest(t)
  BY <1>0, <1>2, Kept, Zenon
<1>4. /\ t.kind = r.kind /\ t.stage = "write" /\ t.lines = r.lines /\ t.at = r.at
      /\ t.doc = r.doc /\ t.has = r.has /\ t.total = r.total
  BY <1>0, <1>2, SMT DEF IsRequest, Fields
<1>5. /\ \A u \in Sessions \ {s} : t.has \cap tx[u].has = {}
      /\ \A d \in Documents : t.has \cap KeysOf(entries[d]) = {}
  BY <1>4 DEF Inv, Exclusive
<1>6. ApproveSound(t) /\ ReturnSound(t)
  BY <1>2, <1>4 DEF ApproveSound, ReturnSound, Posted
<1>7. CASE Allowed(s) BY <1>1, <1>3, <1>5, <1>6, <1>7, StepKeeps
<1>8. CASE ~Allowed(s) BY <1>1, <1>8, LeaveKeeps
<1> QED BY <1>7, <1>8

\* A line goes out once: its item is on no other line.
LEMMA WriteKeeps ==
  ASSUME Inv, NEW s \in Sessions, Write(s)
  PROVE  Inv'
<1> DEFINE line == Current(s)
           i == line.item
           after == IF tx[s].kind = "return" THEN tx[s].before - line.qty
                                             ELSE Total(s, i) + ToTotal(line)
           sum == [tx[s].total EXCEPT ![i] = tx[s].total[i] + ToTotal(line)]
           places == [tx[s].placed EXCEPT ![i] =
                        [l \in Locations |-> tx[s].placed[i][l] + ToPlace(line, l)]]
           rung == tx[s].rung \cup (IF Rings(s, i, after) THEN {i} ELSE {})
           at == tx[s].at + 1
           stage == Then(s)
<1>0. PICK t : t = [tx[s] EXCEPT !.total = sum, !.placed = places, !.rung = rung, !.at = at,
                               !.stage = stage]
  OBVIOUS
<1>1. tx' = [tx EXCEPT ![s] = t] /\ UNCHANGED <<grns, counts, adjusted, entries>>
  BY <1>0, Zenon DEF Write, documents
<1> PICK r : r = tx[s] OBVIOUS
<1>2. IsRequest(r) /\ r.stage = "write" /\ ApproveSound(r) /\ ReturnSound(r)
  BY DEF Inv, Shape, Write
<1>3. /\ IsRequest(t) /\ t.kind = r.kind /\ t.stage = stage /\ t.lines = r.lines /\ t.at = at
      /\ t.doc = r.doc /\ t.has = r.has /\ t.total = sum
  <2> HIDE DEF sum, places, rung, at, stage
  <2>1. IsRequest(t)
    BY <1>0, <1>2, Kept, Zenon
  <2>2. t.kind = r.kind /\ t.lines = r.lines /\ t.doc = r.doc /\ t.has = r.has
    BY <1>0, <1>2, SMT DEF IsRequest, Fields
  <2>3. t.stage = stage /\ t.at = at /\ t.total = sum
    BY <1>0, <1>2, SMT DEF IsRequest, Fields
  <2> QED BY <2>1, <2>2, <2>3
<1>4. /\ \A u \in Sessions \ {s} : t.has \cap tx[u].has = {}
      /\ \A d \in Documents : t.has \cap KeysOf(entries[d]) = {}
  BY <1>3 DEF Inv, Exclusive
<1>5. ApproveSound(t)
  BY <1>2, <1>3, Zenon DEF ApproveSound
<1>6. ReturnSound(t)
  <2> SUFFICES ASSUME r.kind = "return" PROVE ReturnSound(t)
    BY <1>3 DEF ReturnSound
  <2>1. /\ r.doc \in Grns /\ Goods(r.lines) /\ r.at \in Nat \ {0} /\ r.at <= Len(r.lines)
        /\ r.total \in [Items -> Int] /\ \A j \in Items : Posted(r, j)
        /\ Row("grn", r.doc) \in r.has
        /\ \A n \in DOMAIN r.lines : r.lines[n].qty <= grns[r.doc][r.lines[n].item]
    BY <1>2 DEF ReturnSound
  <2>2. r.at \in DOMAIN r.lines /\ Len(r.lines) \in Nat
    BY <2>1 DEF Goods
  <2>3. line = r.lines[r.at] /\ i \in Items /\ line.effect = "OUT" /\ line.qty \in Nat \ {0}
    <3>1. line = r.lines[r.at]
      BY DEF Current
    <3>2. r.lines[r.at] \in Line /\ r.lines[r.at].effect = "OUT"
      BY <2>1, <2>2 DEF Goods
    <3> HIDE DEF line
    <3> QED BY <3>1, <3>2 DEF Line
  <2>4. r.total[i] = 0
    <3>1. Posted(r, i) /\ \A n \in DOMAIN r.lines : n # r.at => r.lines[n].item # i
      <4> HIDE DEF line
      <4> QED BY <2>1, <2>2, <2>3 DEF Goods
    <3>2. \A n \in DOMAIN r.lines : n < r.at => n # r.at
      BY <2>1, <2>2 DEF Goods
    <3> HIDE DEF line, i
    <3> QED BY ONLY <3>1, <3>2 DEF Posted
  <2>5. ToTotal(line) = -line.qty
    BY <2>3 DEF ToTotal
  <2>6. /\ sum \in [Items -> Int] /\ sum[i] = -line.qty
        /\ \A j \in Items \ {i} : sum[j] = r.total[j]
    <3> HIDE DEF line, i
    <3> QED BY <2>1, <2>3, <2>4, <2>5
  <2>7. at \in Nat \ {0} /\ (t.stage # "commit" => at <= Len(r.lines)) /\ r.at < at
    BY <1>3, <2>1, <2>2 DEF Then
  <2>8. ASSUME NEW j \in Items PROVE Posted(t, j)
    <3>1. CASE j = i
      <4> HIDE DEF line, i, sum, at
      <4>1. t.lines[r.at].item = j /\ t.total[j] = -t.lines[r.at].qty
        BY <1>3, <2>3, <2>6, <3>1 DEF i
      <4> QED BY <1>3, <2>2, <2>7, <4>1 DEF Posted
    <3>2. CASE j # i
      <4> HIDE DEF line, i, sum, at
      <4>1. Posted(r, j) /\ sum[j] = r.total[j]
        BY <2>1, <2>6, <3>2
      <4> QED BY <1>3, <2>1, <2>2, <2>7, <4>1 DEF Posted, Goods
    <3> QED BY <3>1, <3>2
  <2> HIDE DEF sum, at, line, i
  <2> QED BY <1>3, <2>1, <2>6, <2>7, <2>8 DEF ReturnSound
<1> QED BY <1>1, <1>3, <1>4, <1>5, <1>6, StepKeeps

-----------------------------------------------------------------------------
(* Steps that change the documents.                                         *)

\* What stays true of everyone else when the documents held by one change.
LEMMA OthersKeep ==
  ASSUME Inv, NEW u \in Sessions, tx'[u] = tx[u],
         \A c \in Counts : Row("count", c) \in tx[u].has => counts'[c] = counts[c],
         \A g \in Grns : Row("grn", g) \in tx[u].has => grns'[g] = grns[g]
  PROVE  ApproveSound(tx[u])' /\ ReturnSound(tx[u])'
<1>1. ApproveSound(tx[u]) /\ ReturnSound(tx[u])
  BY DEF Inv
<1>2. ApproveSound(tx[u])'
  BY <1>1 DEF ApproveSound
<1>3. ReturnSound(tx[u])'
  BY <1>1 DEF ReturnSound, Posted
<1> QED BY <1>2, <1>3

\* The session that ends, and the others as they were.
LEMMA EndKeeps ==
  ASSUME Inv, NEW s \in Sessions, tx' = [tx EXCEPT ![s] = Idle], entries' = entries
  PROVE  /\ tx' = [u \in Sessions |-> tx'[u]] /\ \A u \in Sessions : IsRequest(tx'[u])
         /\ Exclusive' /\ ApproveSound(tx[s])' /\ ReturnSound(tx[s])'
         /\ \A u \in Sessions \ {s} : tx'[u] = tx[u]
         /\ entries' = [d \in Documents |-> entries'[d]]
         /\ \A d \in Documents : entries'[d] = entries[d] /\ IsEntry(entries'[d])
<1>1. /\ tx' = [u \in Sessions |-> tx'[u]] /\ tx'[s] = Idle
      /\ \A u \in Sessions \ {s} : tx'[u] = tx[u]
  BY DEF Inv, Shape
<1>2. Exclusive'
  BY <1>1, IdleFields DEF Inv, Exclusive, KeysOf
<1>3. ApproveSound(tx[s])' /\ ReturnSound(tx[s])'
  BY <1>1, IdleFields DEF ApproveSound, ReturnSound
<1> QED BY <1>1, <1>2, <1>3, IdleFields DEF Inv, Shape

\* A document that is there stays: nothing of what is being entered is of it.
LEMMA EntriesStay ==
  ASSUME Inv, entries' = entries,
         \A g \in Grns : grns[g] = Nil => grns'[g] = Nil,
         \A c \in Counts : counts[c].status = "NONE" => counts'[c].status = "NONE"
  PROVE  \A d \in Documents : EntrySound(d, entries[d])'
<1> SUFFICES ASSUME NEW d \in Documents PROVE EntrySound(d, entries[d])'
  OBVIOUS
<1>1. EntrySound(d, entries[d])
  BY DEF Inv
<1>2. IsNew(d) => IsNew(d)'
  BY DocumentIs DEF IsNew
<1> QED BY <1>1, <1>2 DEF EntrySound, Covers

\* A receipt nothing was accepted on has nothing to give back: no return of it
\* is past its lock.
LEMMA ReturnedIsThere ==
  ASSUME Inv, NEW u \in Sessions, tx[u].kind = "return", tx[u].stage \notin {"idle", "document"}
  PROVE  tx[u].doc \in Grns /\ grns[tx[u].doc] # Nil
<1> PICK r : r = tx[u] OBVIOUS
<1>1. /\ r.doc \in Grns /\ Goods(r.lines)
      /\ \A n \in DOMAIN r.lines : r.lines[n].qty <= grns[r.doc][r.lines[n].item]
  <2>1. ReturnSound(r)
    BY DEF Inv
  <2> QED BY <2>1 DEF ReturnSound
<1>2. 1 \in DOMAIN r.lines /\ r.lines[1] \in Line
  BY <1>1 DEF Goods
<1>3. r.lines[1].qty \in Nat \ {0} /\ r.lines[1].item \in Items
  BY <1>2 DEF Line
<1> QED BY <1>1, <1>2, <1>3 DEF Nil

LEMMA CommitReturnKeeps ==
  ASSUME Inv, NEW s \in Sessions, Commit(s), tx[s].kind = "return"
  PROVE  Inv'
<1> PICK r : r = tx[s] OBVIOUS
<1>1. /\ tx' = [tx EXCEPT ![s] = Idle] /\ UNCHANGED <<counts, adjusted, entries>>
      /\ grns' = [grns EXCEPT ![r.doc] = [i \in Items |-> grns[r.doc][i] + r.total[i]]]
  BY DEF Commit
<1>2. r.stage = "commit" /\ r.kind = "return"
  BY DEF Commit
<1>3. /\ r.doc \in Grns /\ Goods(r.lines) /\ r.total \in [Items -> Int]
      /\ \A i \in Items : Posted(r, i)
      /\ Row("grn", r.doc) \in r.has
      /\ \A n \in DOMAIN r.lines : r.lines[n].qty <= grns[r.doc][r.lines[n].item]
  <2>1. ReturnSound(r)
    BY DEF Inv
  <2> QED BY <1>2, <2>1 DEF ReturnSound
<1>4. grns' \in [Grns -> [Items -> Int]]
  BY <1>1, <1>3 DEF Inv, Shape
<1>5. ASSUME NEW i \in Items PROVE grns[r.doc][i] + r.total[i] >= 0
  <2>1. grns[r.doc][i] \in Int /\ grns[r.doc][i] >= 0
    BY <1>3 DEF Inv, Shape, ReturnsWithinReceipt
  <2>2. CASE r.total[i] = 0
    BY <2>1, <2>2
  <2>3. CASE r.total[i] # 0
    <3>1. PICK n \in DOMAIN r.lines : r.lines[n].item = i /\ r.total[i] = -r.lines[n].qty
      BY <1>3, <2>3 DEF Posted
    <3>2. r.lines[n] \in Line
      BY <1>3 DEF Goods
    <3>3. r.lines[n].qty <= grns[r.doc][i] /\ r.lines[n].qty \in Nat
      BY <1>3, <3>1, <3>2 DEF Line
    <3> QED BY <2>1, <3>1, <3>3
  <2> QED BY <2>2, <2>3
<1>6. ReturnsWithinReceipt'
  <2> SUFFICES ASSUME NEW g \in Grns, NEW i \in Items PROVE grns'[g][i] >= 0
    BY DEF ReturnsWithinReceipt
  <2>1. CASE g = r.doc BY <1>1, <1>3, <1>5, <2>1 DEF Inv, Shape
  <2>2. CASE g # r.doc BY <1>1, <2>2 DEF Inv, Shape, ReturnsWithinReceipt
  <2> QED BY <2>1, <2>2
<1>7. ASSUME NEW u \in Sessions PROVE ApproveSound(tx[u])' /\ ReturnSound(tx[u])'
  <2>1. CASE u = s BY <1>1, <2>1, EndKeeps
  <2>2. CASE u # s
    <3>1. \A g \in Grns : Row("grn", g) \in tx[u].has => grns'[g] = grns[g]
      BY <1>1, <1>3, <2>2 DEF Inv, Shape, Exclusive
    <3> QED BY <1>1, <2>2, <3>1, EndKeeps, OthersKeep
  <2> QED BY <2>1, <2>2
<1>8. Shape' /\ AdjustedOnce'
  BY <1>1, <1>4, EndKeeps DEF Inv, Shape, AdjustedOnce
<1>9. \A d \in Documents : EntrySound(d, entries[d])'
  <2>1. grns[r.doc] # Nil
    BY <1>2, ReturnedIsThere
  <2>2. \A g \in Grns : grns[g] = Nil => grns'[g] = Nil
    BY <1>1, <2>1 DEF Inv, Shape
  <2> QED BY <1>1, <2>2, EntriesStay
<1> QED BY <1>1, <1>6, <1>7, <1>8, <1>9, EndKeeps DEF Inv

LEMMA CommitApproveKeeps ==
  ASSUME Inv, NEW s \in Sessions, Commit(s), tx[s].kind = "approve"
  PROVE  Inv'
<1> PICK r : r = tx[s] OBVIOUS
<1>1. /\ tx' = [tx EXCEPT ![s] = Idle] /\ UNCHANGED <<grns, entries>>
      /\ counts' = [counts EXCEPT ![r.doc].status = "APPROVED"]
      /\ adjusted' = [adjusted EXCEPT ![r.doc] = adjusted[r.doc] + 1]
  BY DEF Commit
<1>2. r.doc \in Counts /\ Row("count", r.doc) \in r.has /\ counts[r.doc].status = "COUNTED"
  <2>1. r.stage = "commit" /\ r.kind = "approve" /\ ApproveSound(r)
    BY DEF Commit, Inv
  <2> QED BY <2>1 DEF ApproveSound
<1>3. /\ counts' = [c \in Counts |-> counts'[c]] /\ counts'[r.doc].status = "APPROVED"
      /\ IsTally(counts'[r.doc])
      /\ \A c \in Counts \ {r.doc} : counts'[c] = counts[c]
  <2>1. IsTally(counts[r.doc])
    BY <1>2 DEF Inv, Shape
  <2> QED BY <1>1, <1>2, <2>1 DEF Inv, Shape, IsTally
<1>4. adjusted[r.doc] = 0 /\ adjusted' \in [Counts -> Nat] /\ adjusted'[r.doc] = 1
      /\ \A c \in Counts \ {r.doc} : adjusted'[c] = adjusted[c]
  BY <1>1, <1>2 DEF Inv, Shape, AdjustedOnce
<1>5. AdjustedOnce'
  BY <1>3, <1>4 DEF Inv, AdjustedOnce
<1>6. ASSUME NEW u \in Sessions PROVE ApproveSound(tx[u])' /\ ReturnSound(tx[u])'
  <2>1. CASE u = s BY <1>1, <2>1, EndKeeps
  <2>2. CASE u # s
    <3>1. \A c \in Counts : Row("count", c) \in tx[u].has => counts'[c] = counts[c]
      BY <1>2, <1>3, <2>2 DEF Inv, Exclusive
    <3> QED BY <1>1, <2>2, <3>1, EndKeeps, OthersKeep
  <2> QED BY <2>1, <2>2
<1>7. Shape'
  BY <1>1, <1>3, <1>4, EndKeeps DEF Inv, Shape
<1>8. ReturnsWithinReceipt'
  BY <1>1 DEF Inv, ReturnsWithinReceipt
<1>9. \A d \in Documents : EntrySound(d, entries[d])'
  <2>1. \A c \in Counts : counts[c].status = "NONE" => counts'[c].status = "NONE"
    BY <1>2, <1>3
  <2> QED BY <1>1, <2>1, EntriesStay
<1> QED BY <1>1, <1>5, <1>6, <1>7, <1>8, <1>9, EndKeeps DEF Inv

LEMMA CommitKeeps ==
  ASSUME Inv, NEW s \in Sessions, Commit(s)
  PROVE  Inv'
<1>1. CASE tx[s].kind = "return" BY <1>1, CommitReturnKeeps
<1>2. CASE tx[s].kind = "approve" BY <1>2, CommitApproveKeeps
<1>3. CASE tx[s].kind \notin {"return", "approve"}
  <2>1. tx' = [tx EXCEPT ![s] = Idle] /\ UNCHANGED <<grns, counts, adjusted, entries>>
    BY <1>3 DEF Commit
  <2> QED BY <2>1, LeaveKeeps
<1> QED BY <1>1, <1>2, <1>3

-----------------------------------------------------------------------------
(* Steps of a document's entry.                                             *)

LEMMA EntryFields ==
  ASSUME NEW e, IsEntry(e), NEW v
  PROVE  /\ IsEntry([e EXCEPT !.stage = v]) /\ IsEntry([e EXCEPT !.amounts = v])
         /\ IsEntry([e EXCEPT !.at = v])
  BY SMT DEF IsEntry, Parts

\* One that leaves the documents as they are.
LEMMA EntryKeeps ==
  ASSUME Inv, NEW d \in Documents, NEW e, IsEntry(e), EntrySound(d, e),
         \A s \in Sessions : tx[s].has \cap KeysOf(e) = {},
         entries' = [entries EXCEPT ![d] = e], UNCHANGED <<grns, counts, adjusted, tx>>
  PROVE  Inv'
<1>1. /\ entries' = [f \in Documents |-> entries'[f]] /\ entries'[d] = e
      /\ \A f \in Documents \ {d} : entries'[f] = entries[f]
  BY DEF Inv, Shape
<1>2. Shape'
  BY <1>1 DEF Inv, Shape
<1>3. Exclusive'
  BY <1>1 DEF Inv, Exclusive
<1>4. AdjustedOnce' /\ ReturnsWithinReceipt'
  BY DEF Inv, AdjustedOnce, ReturnsWithinReceipt
<1>5. ASSUME NEW u \in Sessions PROVE ApproveSound(tx[u])' /\ ReturnSound(tx[u])'
  BY DEF Inv, ApproveSound, ReturnSound, Posted
<1>6. ASSUME NEW f \in Documents PROVE EntrySound(f, entries[f])'
  <2>1. EntrySound(f, entries'[f])
    BY <1>1 DEF Inv
  <2> QED BY <2>1 DEF EntrySound, IsNew, Covers
<1> QED BY <1>2, <1>3, <1>4, <1>5, <1>6 DEF Inv

LEMMA DropKeeps ==
  ASSUME Inv, NEW d \in Documents, Drop(d)
  PROVE  Inv'
  BY EntryKeeps, NoEntryFields DEF Drop, EntrySound

\* The lines of a document, in whatever order.
LEMMA Listed ==
  ASSUME NEW S \in SUBSET Items, S # {}, NEW order \in SetToSeqs(S)
  PROVE  /\ order \in Seq(Items) /\ 1 <= Len(order) /\ Len(order) \in Nat
         /\ \A i \in S : \E n \in DOMAIN order : order[n] = i
<1>1. IsFiniteSet(S) /\ Cardinality(S) \in Nat /\ Cardinality(S) # 0
  BY StockConstants, FS_Subset, FS_CardinalityType, FS_EmptySet DEF StockConstants
<1>2. /\ order \in [1 .. Cardinality(S) -> S]
      /\ \A i, j \in 1 .. Cardinality(S) : i # j => order[i] # order[j]
  BY DEF SetToSeqs
<1>3. order \in Seq(Items) /\ Len(order) = Cardinality(S)
  BY <1>1, <1>2
<1>4. order \in Injection(1 .. Cardinality(S), S)
  BY <1>2 DEF Injection, IsInjective
<1>5. IsFiniteSet(1 .. Cardinality(S)) /\ Cardinality(1 .. Cardinality(S)) = Cardinality(S)
  BY <1>1, FS_Interval
<1>6. order \in Surjection(1 .. Cardinality(S), S)
  BY <1>1, <1>4, <1>5, FS_Injection
<1>7. \A i \in S : \E n \in 1 .. Cardinality(S) : order[n] = i
  BY <1>6 DEF Surjection
<1> QED BY <1>1, <1>2, <1>3, <1>7

\* Where a count is made, and of which items.
LEMMA WalksAre ==
  ASSUME NEW walk \in Walks
  PROVE  /\ walk.at \in Locations
         /\ DOMAIN walk.found # {} /\ DOMAIN walk.found \subseteq Items
         /\ walk.found \in [DOMAIN walk.found -> Nat]
  BY StockConstants

\* An entry begins with lines as they were asked for.
LEMMA EnterKeeps ==
  ASSUME Inv, NEW d \in Documents, NEW S \in SUBSET Items, S # {}, NEW order \in SetToSeqs(S),
         NEW stage \in {"look", "write"}, NEW place, NEW amounts,
         Enter(d, stage, order, place, amounts), IsNew(d),
         d[1] = "grn" => stage = "write" /\ amounts \in [Items -> Nat]
                         /\ \A i \in Items \ S : amounts[i] = 0,
         d[1] = "count" => place \in Locations
  PROVE  Inv'
<1> PICK e : e = [stage |-> stage, items |-> order, at |-> 1, place |-> place,
                  amounts |-> amounts]
  OBVIOUS
<1>1. entries' = [entries EXCEPT ![d] = e] /\ UNCHANGED <<grns, counts, adjusted, tx>>
  BY DEF Enter
<1>2. /\ IsEntry(e) /\ e.stage = stage /\ e.items = order /\ e.at = 1 /\ e.amounts = amounts
      /\ e.place = place
  BY DEF IsEntry, Parts
<1>3. KeysOf(e) = {}
  BY <1>2 DEF KeysOf
<1>4. EntrySound(d, e)
  <2>1. /\ order \in Seq(Items) /\ 1 <= Len(order)
        /\ \A i \in S : \E n \in DOMAIN order : order[n] = i
    BY Listed
  <2>2. d[1] = "grn" => Covers(e)
    BY <1>2, <2>1 DEF Covers
  <2> QED BY <1>2, <2>1, <2>2 DEF EntrySound
<1> QED BY <1>1, <1>2, <1>3, <1>4, EntryKeeps

LEMMA EnteredKeeps ==
  ASSUME Inv,
         \/ \E g \in Grns : Receive(g)
         \/ \E c \in Counts : Count(c)
  PROVE  Inv'
<1>1. CASE \E g \in Grns : Receive(g)
  <2> PICK g \in Grns : Receive(g)
    BY <1>1
  <2> PICK d : d = Row("grn", g) OBVIOUS
  <2>1. d \in Documents /\ d[1] = "grn" /\ d[2] = g /\ grns[g] = Nil
    BY DEF Documents, Row, Receive
  <2> PICK accepted \in Deliveries :
        /\ accepted # Nil
        /\ \E order \in SetToSeqs({i \in Items : accepted[i] > 0}) :
             Enter(d, "write", order, Nowhere, accepted)
    BY DEF Receive
  <2>2. accepted \in [Items -> Nat]
    BY StockConstants
  <2> PICK S : S = {i \in Items : accepted[i] > 0} OBVIOUS
  <2>3. S \in SUBSET Items /\ S # {} /\ \A i \in Items \ S : accepted[i] = 0
    <3>1. \A i \in Items : accepted[i] \in Nat
      BY <2>2
    <3>2. \A i \in Items \ S : accepted[i] = 0
      BY <3>1
    <3>3. S = {} => accepted = Nil
      BY <2>2, <3>2 DEF Nil
    <3> QED BY <3>2, <3>3
  <2> PICK order \in SetToSeqs(S) : Enter(d, "write", order, Nowhere, accepted)
    OBVIOUS
  <2>4. IsNew(d)
    BY <2>1 DEF IsNew
  <2> QED BY <2>1, <2>2, <2>3, <2>4, EnterKeeps
<1>2. CASE \E c \in Counts : Count(c)
  <2> PICK c \in Counts : Count(c)
    BY <1>2
  <2> PICK d : d = Row("count", c) OBVIOUS
  <2>1. d \in Documents /\ d[1] = "count" /\ d[2] = c /\ counts[c].status = "NONE"
    BY DEF Documents, Row, Count
  <2> PICK walk \in Walks : \E order \in SetToSeqs(DOMAIN walk.found) :
         Enter(d, "look", order, walk.at,
               [i \in Items |-> IF i \in DOMAIN walk.found THEN walk.found[i] ELSE 0])
    BY DEF Count
  <2> PICK order \in SetToSeqs(DOMAIN walk.found) :
         Enter(d, "look", order, walk.at,
               [i \in Items |-> IF i \in DOMAIN walk.found THEN walk.found[i] ELSE 0])
    OBVIOUS
  <2>2. DOMAIN walk.found \in SUBSET Items /\ DOMAIN walk.found # {} /\ walk.at \in Locations
    BY WalksAre
  <2>3. IsNew(d)
    BY <2>1 DEF IsNew
  <2> QED BY <2>1, <2>2, <2>3, EnterKeeps
<1> QED BY <1>1, <1>2

LEMMA CompareKeeps ==
  ASSUME Inv, NEW d \in Documents, Compare(d)
  PROVE  Inv'
<1> PICK r : r = entries[d] OBVIOUS
<1> DEFINE amounts == [r.amounts EXCEPT ![Entered(d)] = r.amounts[Entered(d)]
                                                          - placed[Entered(d)][r.place]]
<1>0. PICK e : e = [r EXCEPT !.stage = "write", !.amounts = amounts]
  OBVIOUS
<1>1. entries' = [entries EXCEPT ![d] = e] /\ UNCHANGED <<grns, counts, adjusted, tx>>
  BY <1>0 DEF Compare
<1>2. r.stage = "look" /\ IsEntry(r) /\ EntrySound(d, r)
  BY DEF Compare, Inv, Shape
<1> HIDE DEF amounts
<1>3. IsEntry(e)
  BY <1>0, <1>2, EntryFields, Zenon
<1>4. e.stage = "write" /\ e.items = r.items /\ e.at = r.at /\ e.place = r.place
  BY <1>0, <1>2 DEF IsEntry, Parts
<1>5. EntrySound(d, e)
  BY <1>2, <1>4 DEF EntrySound, Covers
<1>6. \A s \in Sessions : tx[s].has \cap KeysOf(e) = {}
  BY <1>4 DEF Inv, Exclusive, KeysOf
<1> QED BY <1>1, <1>3, <1>5, <1>6, EntryKeeps

\* One key more, which nobody holds.
LEMMA InsertKeeps ==
  ASSUME Inv, NEW d \in Documents, Insert(d)
  PROVE  Inv'
<1> PICK r : r = entries[d] OBVIOUS
<1> DEFINE stage == IF r.at = Len(r.items) THEN "commit"
                    ELSE IF d[1] = "count" THEN "look" ELSE "write"
           at == r.at + 1
<1>0. PICK e : e = [r EXCEPT !.at = at, !.stage = stage]
  OBVIOUS
<1>1. entries' = [entries EXCEPT ![d] = e] /\ UNCHANGED <<grns, counts, adjusted, tx>>
  BY <1>0 DEF Insert
<1>2. r.stage = "write" /\ IsEntry(r) /\ EntrySound(d, r)
  BY DEF Insert, Inv, Shape
<1>3. /\ r.items \in Seq(Items) /\ r.at \in Nat \ {0} /\ r.at <= Len(r.items)
      /\ Len(r.items) \in Nat /\ IsNew(d) /\ (d[1] = "grn" => Covers(r))
      /\ (d[1] = "count" => r.place \in Locations)
  BY <1>2 DEF EntrySound
<1>4. at \in Nat \ {0} /\ (stage = "commit" => at > Len(r.items))
      /\ (stage # "commit" => at <= Len(r.items)) /\ (d[1] = "grn" => stage # "look")
  BY <1>3, DocumentIs
<1>5. 1 .. at - 1 = (1 .. r.at - 1) \cup {r.at}
  BY <1>3
<1> HIDE DEF stage, at
<1>6. /\ IsEntry(e) /\ e.stage = stage /\ e.items = r.items /\ e.at = at
      /\ e.amounts = r.amounts /\ e.place = r.place
  <2>1. IsEntry(e)
    BY <1>0, <1>2, EntryFields, Zenon
  <2>2. /\ e.stage = stage /\ e.items = r.items /\ e.at = at
        /\ e.amounts = r.amounts /\ e.place = r.place
    BY <1>0, <1>2, SMT DEF IsEntry, Parts
  <2> QED BY <2>1, <2>2
<1>7. EntrySound(d, e)
  BY <1>3, <1>4, <1>6 DEF EntrySound, Covers
<1>8. KeysOf(e) = KeysOf(r) \cup {Row("item", r.items[r.at])}
  BY <1>5, <1>6 DEF KeysOf
<1>9. ASSUME NEW s \in Sessions PROVE tx[s].has \cap KeysOf(e) = {}
  <2>1. tx[s].has \cap KeysOf(r) = {}
    BY DEF Inv, Exclusive
  <2>2. tx[s].has \cap Needed(d) = {}
    <3>1. d \notin Sessions
      BY StockConstants
    <3> QED BY <3>1 DEF Insert, Granted, WaitsFor, Wants, Has, Parties
  <2>3. Needed(d) = {Row("item", r.items[r.at])}
    BY <1>2 DEF Needed, Entered
  <2> QED BY <1>8, <2>1, <2>2, <2>3
<1> QED BY <1>1, <1>6, <1>7, <1>9, EntryKeeps

\* The commit of an entry: the document was not there, so nobody is about it.
LEMMA ReceivedKeeps ==
  ASSUME Inv, NEW g \in Grns, Received(g)
  PROVE  Inv'
<1> PICK d : d = Row("grn", g) OBVIOUS
<1>1. d \in Documents /\ d[1] = "grn" /\ d[2] = g /\ EntrySound(d, entries[d])
  BY DEF Documents, Row, Inv
<1> PICK accepted : accepted = entries[d].amounts OBVIOUS
<1>2. /\ grns' = [grns EXCEPT ![g] = accepted] /\ entries' = [entries EXCEPT ![d] = NoEntry]
      /\ UNCHANGED <<counts, adjusted, tx>>
  BY DEF Received
<1>3. accepted \in [Items -> Nat] /\ grns[g] = Nil
  BY <1>1 DEF Received, EntrySound, IsNew, Covers
<1>4. /\ grns' \in [Grns -> [Items -> Int]] /\ grns'[g] = accepted
      /\ \A h \in Grns \ {g} : grns'[h] = grns[h]
  BY <1>2, <1>3 DEF Inv, Shape
<1>5. ReturnsWithinReceipt'
  BY <1>3, <1>4 DEF Inv, ReturnsWithinReceipt
<1>6. ASSUME NEW u \in Sessions PROVE ApproveSound(tx[u])' /\ ReturnSound(tx[u])'
  <2>1. ApproveSound(tx[u]) /\ ReturnSound(tx[u])
    BY DEF Inv
  <2>2. tx[u].kind = "return" /\ tx[u].stage \notin {"idle", "document"} =>
          grns'[tx[u].doc] = grns[tx[u].doc]
    BY <1>3, <1>4, ReturnedIsThere
  <2>3. ApproveSound(tx[u])'
    BY <1>2, <2>1 DEF ApproveSound
  <2>4. ReturnSound(tx[u])'
    BY <1>2, <2>1, <2>2 DEF ReturnSound, Posted
  <2> QED BY <2>3, <2>4
<1>7. /\ entries' = [f \in Documents |-> entries'[f]] /\ entries'[d] = NoEntry
      /\ \A f \in Documents \ {d} : entries'[f] = entries[f]
  BY <1>1, <1>2 DEF Inv, Shape
<1>8. Shape' /\ Exclusive' /\ AdjustedOnce'
  <2>1. Shape'
    BY <1>2, <1>4, <1>7, NoEntryFields DEF Inv, Shape
  <2>2. Exclusive'
    BY <1>2, <1>7, NoEntryFields DEF Inv, Exclusive
  <2> QED BY <1>2, <2>1, <2>2 DEF Inv, AdjustedOnce
<1>9. ASSUME NEW f \in Documents PROVE EntrySound(f, entries[f])'
  <2>1. CASE f = d
    BY <1>7, <2>1, NoEntryFields DEF EntrySound
  <2>2. CASE f # d
    <3>1. EntrySound(f, entries[f]) /\ entries'[f] = entries[f]
      BY <1>7, <2>2 DEF Inv
    <3>2. IsNew(f) => IsNew(f)'
      BY <1>1, <1>2, <1>4, <2>2, DocumentIs DEF IsNew
    <3> QED BY <3>1, <3>2 DEF EntrySound, Covers
  <2> QED BY <2>1, <2>2
<1> QED BY <1>5, <1>6, <1>8, <1>9 DEF Inv

\* A count changes when nobody past its lock is about it.
LEMMA CountKeeps ==
  ASSUME Inv, NEW c \in Counts, IsTally(counts'[c]), counts' = [d \in Counts |-> counts'[d]],
         \A d \in Counts \ {c} : counts'[d] = counts[d],
         counts[c].status # "APPROVED", counts'[c].status # "APPROVED",
         \A u \in Sessions :
           tx[u].kind = "approve" /\ tx[u].stage \notin {"idle", "document"} => tx[u].doc # c,
         entries' = [d \in Documents |-> entries'[d]],
         \A d \in Documents : entries'[d] = entries[d] \/ entries'[d] = NoEntry,
         counts[c].status = "NONE" => entries'[Row("count", c)] = NoEntry,
         UNCHANGED <<grns, adjusted, tx>>
  PROVE  Inv'
<1>1. Shape'
  BY NoEntryFields DEF Inv, Shape
<1>2. Exclusive'
  BY NoEntryFields DEF Inv, Exclusive
<1>3. AdjustedOnce' /\ ReturnsWithinReceipt'
  BY DEF Inv, AdjustedOnce, ReturnsWithinReceipt
<1>4. ASSUME NEW u \in Sessions PROVE ApproveSound(tx[u])' /\ ReturnSound(tx[u])'
  <2>1. ApproveSound(tx[u]) /\ ReturnSound(tx[u])
    BY DEF Inv
  <2>2. ApproveSound(tx[u])'
    BY <2>1 DEF ApproveSound
  <2>3. ReturnSound(tx[u])'
    BY <2>1 DEF ReturnSound, Posted
  <2> QED BY <2>2, <2>3
<1>5. ASSUME NEW d \in Documents PROVE EntrySound(d, entries[d])'
  <2>1. CASE entries'[d] = NoEntry
    BY <2>1, NoEntryFields DEF EntrySound
  <2>2. CASE entries'[d] # NoEntry
    <3>1. EntrySound(d, entries[d]) /\ entries'[d] = entries[d]
      BY <2>2 DEF Inv
    <3>2. IsNew(d) => IsNew(d)'
      BY <2>2, DocumentIs DEF IsNew
    <3> QED BY <3>1, <3>2 DEF EntrySound, Covers
  <2> QED BY <2>1, <2>2
<1> QED BY <1>1, <1>2, <1>3, <1>4, <1>5 DEF Inv

LEMMA CountedKeeps ==
  ASSUME Inv, NEW c \in Counts, Counted(c) \/ Reject(c)
  PROVE  Inv'
<1>1. CASE Counted(c)
  <2> PICK d : d = Row("count", c) OBVIOUS
  <2>1. d \in Documents /\ d[1] = "count" /\ d[2] = c /\ EntrySound(d, entries[d])
    BY DEF Documents, Row, Inv
  <2> PICK e : e = entries[d] OBVIOUS
  <2>2. /\ e.stage = "commit"
        /\ counts' = [counts EXCEPT ![c] = [status |-> "COUNTED", at |-> e.place,
                                            variance |-> e.amounts]]
        /\ entries' = [entries EXCEPT ![d] = NoEntry] /\ UNCHANGED <<grns, adjusted, tx>>
    BY <1>1 DEF Counted
  <2>3. counts[c].status = "NONE"
    BY <2>1, <2>2 DEF EntrySound, IsNew
  <2>4. /\ counts' = [f \in Counts |-> counts'[f]]
        /\ counts'[c] = [status |-> "COUNTED", at |-> e.place, variance |-> e.amounts]
        /\ \A f \in Counts \ {c} : counts'[f] = counts[f]
    BY <2>2 DEF Inv, Shape
  <2>5. IsTally(counts'[c]) /\ counts'[c].status = "COUNTED"
    BY <2>4 DEF IsTally
  <2>6. \A u \in Sessions :
          tx[u].kind = "approve" /\ tx[u].stage \notin {"idle", "document"} => tx[u].doc # c
    BY <2>3 DEF Inv, ApproveSound
  <2>7. /\ entries' = [f \in Documents |-> entries'[f]] /\ entries'[d] = NoEntry
        /\ \A f \in Documents : entries'[f] = entries[f] \/ entries'[f] = NoEntry
    BY <2>1, <2>2 DEF Inv, Shape
  <2>8. /\ counts[c].status # "APPROVED" /\ counts'[c].status # "APPROVED"
        /\ entries'[Row("count", c)] = NoEntry
    BY <2>3, <2>5, <2>7
  <2> QED BY <2>2, <2>4, <2>5, <2>6, <2>7, <2>8, CountKeeps
<1>2. CASE Reject(c)
  <2>1. /\ counts' = [counts EXCEPT ![c].status = "DRAFT"] /\ counts[c].status = "COUNTED"
        /\ UNCHANGED <<grns, adjusted, tx, entries>>
        /\ \A u \in Sessions : Row("count", c) \notin tx[u].has
    BY <1>2 DEF Reject
  <2>2. IsTally(counts[c])
    BY DEF Inv, Shape
  <2>3. /\ counts' = [d \in Counts |-> counts'[d]] /\ counts'[c].status = "DRAFT"
        /\ IsTally(counts'[c]) /\ \A d \in Counts \ {c} : counts'[d] = counts[d]
    BY <2>1, <2>2 DEF Inv, Shape, IsTally
  <2>4. \A u \in Sessions :
          tx[u].kind = "approve" /\ tx[u].stage \notin {"idle", "document"} => tx[u].doc # c
    BY <2>1 DEF Inv, ApproveSound
  <2>5. entries' = [d \in Documents |-> entries'[d]]
    BY <2>1 DEF Inv, Shape
  <2> QED BY <2>1, <2>3, <2>4, <2>5, CountKeeps
<1> QED BY <1>1, <1>2

-----------------------------------------------------------------------------
(* The theorems about documents.                                            *)

\* The first state.
LEMMA InitHolds == Init => Inv
<1> SUFFICES ASSUME Init PROVE Inv
  OBVIOUS
<1>1. Shape
  <2>1. tx = [s \in Sessions |-> tx[s]] /\ \A s \in Sessions : IsRequest(tx[s])
    BY IdleFields, Zenon DEF Init
  <2>2. counts = [c \in Counts |-> counts[c]] /\ \A c \in Counts : IsTally(counts[c])
    BY DEF Init, IsTally
  <2>3. grns \in [Grns -> [Items -> Int]] /\ adjusted \in [Counts -> Nat]
    BY DEF Init, Nil
  <2>4. entries = [d \in Documents |-> entries[d]] /\ \A d \in Documents : IsEntry(entries[d])
    BY NoEntryFields DEF Init
  <2> QED BY <2>1, <2>2, <2>3, <2>4 DEF Shape
<1>2. \A s \in Sessions : tx[s] = Idle
  BY DEF Init
<1>3. Exclusive /\ \A s \in Sessions : ApproveSound(tx[s]) /\ ReturnSound(tx[s])
  BY <1>2, IdleFields DEF Exclusive, ApproveSound, ReturnSound
<1>4. AdjustedOnce /\ ReturnsWithinReceipt
  BY DEF Init, AdjustedOnce, ReturnsWithinReceipt, Nil
<1>5. \A d \in Documents : EntrySound(d, entries[d])
  BY NoEntryFields DEF Init, EntrySound
<1> QED BY <1>1, <1>3, <1>4, <1>5 DEF Inv

LEMMA StepHolds == Inv /\ [Next]_vars => Inv'
<1> SUFFICES ASSUME Inv, [Next]_vars PROVE Inv'
  OBVIOUS
<1>1. ASSUME NEW s \in Sessions, Session(s) PROVE Inv'
  <2>1. CASE Post(s) \/ PostUnplaced(s) \/ Reserve(s) \/ Return(s) \/ Approve(s)
    BY <2>1, BegunKeeps
  <2>2. CASE LockDocument(s) BY <2>2, LockDocumentKeeps
  <2>3. CASE LockItem(s) BY <2>3, LockItemKeeps
  <2>4. CASE Look(s) BY <2>4, LookKeeps
  <2>5. CASE Write(s) BY <2>5, WriteKeeps
  <2>6. CASE Commit(s) BY <2>6, CommitKeeps
  <2>7. CASE Abort(s) BY <2>7, LeaveKeeps DEF Abort, documents
  <2> QED BY <1>1, <2>1, <2>2, <2>3, <2>4, <2>5, <2>6, <2>7 DEF Session
<1>2. ASSUME NEW g \in Grns, Receive(g) \/ Received(g) PROVE Inv'
  BY <1>2, EnteredKeeps, ReceivedKeeps
<1>3. ASSUME UNCHANGED <<grns, counts, adjusted, entries, tx>> PROVE Inv'
  <2>1. Shape' /\ Exclusive' /\ AdjustedOnce' /\ ReturnsWithinReceipt'
    BY <1>3 DEF Inv, Shape, Exclusive, AdjustedOnce, ReturnsWithinReceipt
  <2>2. \A u \in Sessions : ApproveSound(tx[u])' /\ ReturnSound(tx[u])'
    BY <1>3 DEF Inv, ApproveSound, ReturnSound, Posted
  <2>3. \A d \in Documents : EntrySound(d, entries[d])'
    BY <1>3, EntriesStay
  <2> QED BY <2>1, <2>2, <2>3 DEF Inv
<1>4. ASSUME NEW h \in held, StopHolding(h) PROVE Inv'
  BY <1>3, <1>4 DEF StopHolding
<1>5. ASSUME NEW c \in Counts, Count(c) \/ Counted(c) \/ Reject(c) PROVE Inv'
  BY <1>5, EnteredKeeps, CountedKeeps
<1>6. ASSUME NEW d \in Documents, Compare(d) \/ Insert(d) \/ Drop(d) PROVE Inv'
  BY <1>6, CompareKeeps, InsertKeeps, DropKeeps
<1>7. CASE UNCHANGED vars
  BY <1>3, <1>7 DEF vars, documents
<1> QED BY <1>1, <1>2, <1>4, <1>5, <1>6, <1>7 DEF Next

\* What holds throughout: rows are held by one session at a time, and what a
\* session has read under its document's row is still so.
THEOREM Invariance == Spec => []Inv
  BY InitHolds, StepHolds, PTL DEF Spec

\* A count's variances are posted once, when it is approved, for any number of
\* counts, approvals and rejections made at once (the status read again under
\* the count's lock).
THEOREM PostedOnce == Spec => []AdjustedOnce
<1>1. Inv => AdjustedOnce
  BY DEF Inv
<1> QED BY <1>1, Invariance, PTL

\* No more of a receipt goes back than was accepted, for any receipts, items
\* and returns of them made at once (POST /vendor-returns under the receipt's
\* lock).
THEOREM NoneTooMany == Spec => []ReturnsWithinReceipt
<1>1. Inv => ReturnsWithinReceipt
  BY DEF Inv
<1> QED BY <1>1, Invariance, PTL

-----------------------------------------------------------------------------
(* What is promised at a place: a sum over the reservations that hold it.   *)

Holding(H, i, l) == {h \in H : h.item = i /\ h.at = l}

QtyOf(D) == [h \in D |-> h.qty]

\* The model's fold is such a sum.
LEMMA PromisedIsSum ==
  ASSUME NEW H \in SUBSET Reservations, IsFiniteSet(H), NEW i, NEW l
  PROVE  /\ IsFiniteSet(Holding(H, i, l))
         /\ \A h \in Holding(H, i, l) : QtyOf(Holding(H, i, l))[h] = h.qty /\ h.qty \in Nat
         /\ IsSum(Holding(H, i, l), QtyOf(Holding(H, i, l)), Promised(H, i, l))
<1> DEFINE D == Holding(H, i, l)
           f == QtyOf(D)
           Eq(h) == h = [s \in SUBSET D |-> IF s = {} THEN 0
                           ELSE (CHOOSE x \in s : TRUE).qty + h[s \ {CHOOSE x \in s : TRUE}]]
           iter == CHOOSE h : Eq(h)
<1>1. Promised(H, i, l) = iter[D]
  BY Zenon DEF Promised, Holding, MapThenSumSet, MapThenFoldSet
<1>2. IsFiniteSet(D) /\ \A x \in D : f[x] = x.qty /\ x.qty \in Nat
  <2>1. IsFiniteSet(D)
    BY FS_Subset DEF Holding
  <2>2. ASSUME NEW x \in D PROVE f[x] = x.qty /\ x.qty \in Nat
    <3>1. x \in Reservations
      BY DEF Holding
    <3> QED BY <3>1, StockConstants DEF Reservations, QtyOf
  <2> QED BY <2>1, <2>2
<1> HIDE DEF D, f
<1>3. ASSUME NEW h PROVE Eq(h) <=> IsFold(D, f, h)
  <2>1. \A s \in SUBSET D : s # {} => f[CHOOSE x \in s : TRUE] = (CHOOSE x \in s : TRUE).qty
    BY <1>2
  <2>2. ASSUME NEW s \in SUBSET D
        PROVE (IF s = {} THEN 0 ELSE f[CHOOSE x \in s : TRUE] + h[s \ {CHOOSE x \in s : TRUE}])
          = (IF s = {} THEN 0
             ELSE (CHOOSE x \in s : TRUE).qty + h[s \ {CHOOSE x \in s : TRUE}])
    <3>1. CASE s = {} BY <3>1, Zenon
    <3>2. CASE s # {}
      <4>1. f[CHOOSE x \in s : TRUE] = (CHOOSE x \in s : TRUE).qty
        BY <2>1, <3>2, Zenon
      <4> QED BY <3>2, <4>1, Zenon
    <3> QED BY <3>1, <3>2, Zenon
  <2> QED BY <2>2, Zenon DEF IsFold
<1>n. \A x \in D : f[x] \in Int
  BY <1>2
<1>4. \E h : Eq(h)
  <2>1. \E h : IsFold(D, f, h)
    BY <1>2, <1>n, FoldIsSum
  <2> HIDE DEF Eq
  <2> QED BY <1>3, <2>1, Zenon
<1>5. Eq(iter)
  BY <1>4, Zenon
<1> HIDE DEF iter, Eq
<1>6. IsSum(D, f, iter[D])
  <2>1. IsFold(D, f, iter)
    BY <1>3, <1>5, Zenon
  <2> QED BY <1>2, <1>n, <2>1, FoldIsSum
<1> QED BY <1>1, <1>2, <1>6 DEF D, f

\* It is a natural number.
LEMMA PromisedType ==
  ASSUME NEW H \in SUBSET Reservations, IsFiniteSet(H), NEW i, NEW l
  PROVE  Promised(H, i, l) \in Nat
<1> PICK D, f, v : D = Holding(H, i, l) /\ f = QtyOf(D) /\ v = Promised(H, i, l)
  OBVIOUS
<1>1. IsFiniteSet(D) /\ (\A x \in D : f[x] \in Nat) /\ IsSum(D, f, v)
  BY PromisedIsSum
<1> QED BY <1>1, SumOfNaturals

\* Without one of the reservations.
LEMMA PromisedWithout ==
  ASSUME NEW H \in SUBSET Reservations, IsFiniteSet(H), NEW h \in H, NEW i, NEW l
  PROVE  Promised(H, i, l) =
           Promised(H \ {h}, i, l) + (IF h.item = i /\ h.at = l THEN h.qty ELSE 0)
<1> PICK D, f, v : D = Holding(H, i, l) /\ f = QtyOf(D) /\ v = Promised(H, i, l)
  OBVIOUS
<1> PICK E, g, w : E = Holding(H \ {h}, i, l) /\ g = QtyOf(E) /\ w = Promised(H \ {h}, i, l)
  OBVIOUS
<1>1. /\ IsFiniteSet(D) /\ (\A x \in D : f[x] = x.qty /\ x.qty \in Nat) /\ IsSum(D, f, v)
  BY PromisedIsSum
<1>2. /\ IsFiniteSet(E) /\ (\A x \in E : g[x] = x.qty /\ x.qty \in Nat) /\ IsSum(E, g, w)
  <2> PICK G : G = H \ {h}
    OBVIOUS
  <2>1. G \in SUBSET Reservations /\ IsFiniteSet(G)
    BY FS_Subset
  <2>2. /\ IsFiniteSet(Holding(G, i, l))
        /\ \A x \in Holding(G, i, l) : QtyOf(Holding(G, i, l))[x] = x.qty /\ x.qty \in Nat
        /\ IsSum(Holding(G, i, l), QtyOf(Holding(G, i, l)), Promised(G, i, l))
    BY ONLY <2>1, PromisedIsSum
  <2> QED BY <2>2
<1>3. E = D \ {h} /\ (h \in D <=> h.item = i /\ h.at = l)
  BY DEF Holding
<1>n. (\A x \in D : f[x] \in Int) /\ (\A x \in E : g[x] \in Int)
  <2>1. ASSUME NEW x \in D PROVE f[x] \in Int
    BY ONLY <1>1, x \in D
  <2>2. ASSUME NEW x \in E PROVE g[x] \in Int
    BY ONLY <1>2, x \in E
  <2> QED BY <2>1, <2>2
<1>v. v \in Int /\ w \in Int
  BY <1>1, <1>2, SumType
<1>4. CASE h \in D
  <2>1. IsSum(E, f, v - f[h])
    <3>1. IsSum(D \ {h}, f, v - f[h])
      BY ONLY <1>1, <1>4, <1>n, SumWithout
    <3> QED BY <1>3, <3>1, Zenon
  <2>2. \A x \in E : f[x] = g[x] /\ f[x] \in Int
    <3>1. ASSUME NEW x \in E PROVE f[x] = g[x] /\ f[x] \in Int
      <4>1. x \in D
        BY <1>3
      <4> QED BY ONLY <1>1, <1>2, <1>n, <4>1, x \in E
    <3> QED BY <3>1
  <2>0. PICK u : u = v - f[h]
    OBVIOUS
  <2>3. u = w
    <3>1. IsSum(E, f, u) /\ IsSum(E, g, w) /\ IsFiniteSet(E)
      BY <1>2, <2>0, <2>1
    <3> QED BY ONLY <2>2, <3>1, SumUnique
  <2>4. f[h] = h.qty /\ h.qty \in Nat
    BY <1>1, <1>4
  <2> QED BY <1>3, <1>4, <1>v, <2>0, <2>3, <2>4
<1>5. CASE h \notin D
  <2>1. E = D /\ \A x \in D : f[x] = g[x]
    BY <1>1, <1>2, <1>3, <1>5
  <2>2. v = w
    BY <1>1, <1>2, <1>n, <2>1, SumUnique
  <2> QED BY <1>3, <1>5, <1>v, <2>2
<1> QED BY <1>4, <1>5

\* One more promises its quantity more, at its place.
LEMMA PromisedWith ==
  ASSUME NEW H \in SUBSET Reservations, IsFiniteSet(H), NEW h \in Reservations, NEW i, NEW l
  PROVE  Promised(H \cup {h}, i, l) <=
           Promised(H, i, l) + (IF h.item = i /\ h.at = l THEN h.qty ELSE 0)
<1>1. H \cup {h} \in SUBSET Reservations /\ IsFiniteSet(H \cup {h}) /\ h \in H \cup {h}
  BY FS_AddElement
<1>2. Promised(H, i, l) \in Nat /\ Promised(H \cup {h}, i, l) \in Nat /\ h.qty \in Nat
  <2>1. h.qty \in Nat
    BY StockConstants DEF Reservations
  <2> QED BY <1>1, <2>1, PromisedType
<1>3. CASE h \in H
  <2>1. H \cup {h} = H
    BY <1>3
  <2> QED BY <1>2, <2>1
<1>4. CASE h \notin H
  <2>1. (H \cup {h}) \ {h} = H
    BY <1>4
  <2>2. Promised(H \cup {h}, i, l) = Promised((H \cup {h}) \ {h}, i, l)
                                         + (IF h.item = i /\ h.at = l THEN h.qty ELSE 0)
    BY <1>1, PromisedWithout
  <2> QED BY <1>2, <2>1, <2>2
<1> QED BY <1>3, <1>4
\* Of fewer reservations, no more.
LEMMA PromisedOfFewer ==
  ASSUME NEW H \in SUBSET Reservations, IsFiniteSet(H), NEW K \in SUBSET H, NEW i, NEW l
  PROVE  Promised(K, i, l) <= Promised(H, i, l)
<1> DEFINE T == {n \in Nat : \A k \in SUBSET H : Cardinality(H \ k) = n =>
                              Promised(k, i, l) <= Promised(H, i, l)}
<1>1. 0 \in T
  <2>1. ASSUME NEW k \in SUBSET H, Cardinality(H \ k) = 0
        PROVE  Promised(k, i, l) <= Promised(H, i, l)
    <3>1. H \ k = {}
      BY <2>1, FS_Subset, FS_EmptySet
    <3>2. k = H
      BY <3>1
    <3>3. Promised(H, i, l) \in Nat
      BY PromisedType
    <3> QED BY <3>2, <3>3
  <2> QED BY <2>1
<1>2. ASSUME NEW n \in T PROVE n + 1 \in T
  <2>1. ASSUME NEW k \in SUBSET H, Cardinality(H \ k) = n + 1
        PROVE  Promised(k, i, l) <= Promised(H, i, l)
    <3>0. n \in Nat
      OBVIOUS
    <3>1. PICK h : h \in H \ k
      <4>1. H \ k # {}
        <5>1. Cardinality({}) = 0
          BY FS_EmptySet
        <5> QED BY <2>1, <3>0, <5>1
      <4> QED BY <4>1
    <3> PICK m : m = k \cup {h} OBVIOUS
    <3>2. m \in SUBSET H /\ H \ m = (H \ k) \ {h} /\ h \in m /\ m \ {h} = k
      BY <3>1
    <3>3. Cardinality(H \ m) = n
      <4>1. IsFiniteSet(H \ k)
        BY FS_Subset
      <4>2. Cardinality((H \ k) \ {h}) = Cardinality(H \ k) - 1
        BY <3>1, <4>1, FS_RemoveElement
      <4> QED BY <2>1, <3>0, <3>2, <4>2
    <3>4. Promised(m, i, l) <= Promised(H, i, l)
      BY <3>2, <3>3
    <3>5. m \in SUBSET Reservations /\ IsFiniteSet(m) /\ k \in SUBSET Reservations /\ IsFiniteSet(k)
      BY <3>2, FS_Subset
    <3>6. Promised(m, i, l) = Promised(k, i, l) + (IF h.item = i /\ h.at = l THEN h.qty ELSE 0)
      BY <3>2, <3>5, PromisedWithout
    <3>7. /\ Promised(m, i, l) \in Nat /\ Promised(k, i, l) \in Nat /\ Promised(H, i, l) \in Nat
          /\ h.qty \in Nat
      <4>1. h \in Reservations
        BY <3>1
      <4>2. h.qty \in Nat
        BY <4>1, StockConstants DEF Reservations
      <4> QED BY <3>5, <4>2, PromisedType
    <3> QED BY ONLY <3>4, <3>6, <3>7
  <2> QED BY <2>1
<1>3. \A n \in Nat : n \in T
  <2> HIDE DEF T
  <2>1. T \in SUBSET Nat
    BY DEF T
  <2> QED BY <1>1, <1>2, <2>1, Counting
<1>4. Cardinality(H \ K) \in Nat
  BY FS_Subset, FS_CardinalityType
<1> QED BY <1>3, <1>4

-----------------------------------------------------------------------------
(* The inductive invariant of the ledger.                                   *)

\* What a line of each kind of transaction may say.
Suits(kind, line) ==
  /\ line.effect = "HOLD" <=> kind = "reserve"
  /\ kind = "reserve" => line.from \in Locations /\ line.qty \in Quantities
  /\ kind \in {"legacy", "return"} => line.from = Nowhere /\ line.to = Nowhere
  /\ kind = "approve" /\ line.from # Nowhere => line.effect = "OUT"
  /\ kind = "return" => line.effect = "OUT"

\* Lines of several items, each on one line; a count's in the order of items.
Asked(kind, lines) ==
  /\ lines \in Seq(Line)
  /\ \A n \in DOMAIN lines : Suits(kind, lines[n])
  /\ \A m, n \in DOMAIN lines : m # n => lines[m].item # lines[n].item
  /\ kind = "approve" => \A m, n \in DOMAIN lines : m < n => lines[m].item < lines[n].item
  /\ kind \in {"post", "legacy", "reserve"} => Len(lines) = 1

\* How far a transaction has come, at each stage.
Standing(t) ==
  /\ t.stage \in {"lock", "look", "write"} => t.at <= Len(t.lines)
  /\ t.stage = "document" => t.at = 1 /\ t.has = {} /\ t.kind \in {"return", "approve"}
  /\ t.stage = "commit" => t.at > Len(t.lines)

\* Lines whose item is locked, and lines that were found to fit.
Locked(t, n) == n < t.at \/ (n = t.at /\ t.stage \in {"look", "write"})
Passed(t, n) == n < t.at \/ (n = t.at /\ t.stage = "write")

\* Of items, a transaction holds the rows of the lines it has come to.
Rowed(t) ==
  \A i \in Items : Row("item", i) \in t.has <=>
                     \E n \in DOMAIN t.lines : Locked(t, n) /\ t.lines[n].item = i

\* What it has written is its lines up to where it is, and nothing else.
WroteLine(t, line) ==
  /\ t.total[line.item] = ToTotal(line)
  /\ \A l \in Locations : t.placed[line.item][l] = ToPlace(line, l)

WroteNone(t, i) ==
  t.total[i] = 0 /\ (\A l \in Locations : t.placed[i][l] = 0) /\ i \notin t.rung

Wrote(t) ==
  /\ \A n \in DOMAIN t.lines : n < t.at => WroteLine(t, t.lines[n])
  /\ \A i \in Items : (\A n \in DOMAIN t.lines : n < t.at => t.lines[n].item # i) => WroteNone(t, i)
  /\ t.kind # "post" => t.short = {}

\* A line that takes from a place takes what is there: for a posting what is
\* free there, unless its user may overdraw and that is on record.
Fits(t, line) ==
  line.from # Nowhere =>
    IF t.kind = "approve" THEN line.qty <= placed[line.item][line.from]
    ELSE \/ <<line.item, line.from>> \in t.short
         \/ line.qty <= placed[line.item][line.from] - Promised(held, line.item, line.from)

Checked(t) == \A n \in DOMAIN t.lines : Passed(t, n) => Fits(t, t.lines[n])

\* It has told of exactly the crossings its lines will be, as the ledger stands.
Rang(t) ==
  /\ \A i \in Items : i \in t.rung <=> Crosses(i, total[i], total[i] + t.total[i])
  /\ t.stage = "write" => t.before = total[t.lines[t.at].item]

\* All that a transaction goes by.
Sound(t) ==
  t.stage # "idle" =>
    Asked(t.kind, t.lines) /\ Standing(t) /\ Rowed(t) /\ Wrote(t) /\ Checked(t) /\ Rang(t)

LedgerInv ==
  /\ TypeOK /\ IsFiniteSet(held) /\ NotOverdrawn /\ PromisedOnce
  /\ \A s \in Sessions : Sound(tx[s])

-----------------------------------------------------------------------------
(* What stays as it is.                                                     *)

LEMMA PromisedNow ==
  ASSUME held \subseteq Reservations, IsFiniteSet(held)
  PROVE  \A i, l : Promised(held, i, l) \in Nat
<1>1. held \in SUBSET Reservations
  OBVIOUS
<1> QED BY <1>1, PromisedType

\* A transaction's findings stand while nobody else moves the items it holds.
LEMMA FindingsStand ==
  ASSUME NEW t \in Requests, Sound(t),
         placed \in [Items -> [Locations -> Int]],
         total \in [Items -> Int], total' \in [Items -> Int],
         \A i \in Items : Row("item", i) \in t.has =>
           placed'[i] = placed[i] /\ total'[i] = total[i],
         \A i \in Items, l \in Locations :
           Promised(held, i, l) \in Int /\ Promised(held', i, l) \in Int,
         \A i \in Items, l \in Locations :
           Row("item", i) \in t.has => Promised(held', i, l) <= Promised(held, i, l)
  PROVE  Sound(t)'
<1> SUFFICES ASSUME t.stage # "idle" PROVE Sound(t)'
  BY DEF Sound
<1>1. Asked(t.kind, t.lines) /\ Standing(t) /\ Rowed(t) /\ Wrote(t) /\ Checked(t) /\ Rang(t)
  BY DEF Sound
<1>2. ASSUME NEW n \in DOMAIN t.lines
      PROVE  t.lines[n] \in Line /\ t.lines[n].item \in Items /\ t.lines[n].qty \in Int
             /\ (t.lines[n].from # Nowhere => t.lines[n].from \in Locations)
  <2>1. t.lines[n] \in Line
    BY <1>1 DEF Asked
  <2> QED BY <2>1 DEF Line
<1>3. ASSUME NEW n \in DOMAIN t.lines, Locked(t, n) PROVE Row("item", t.lines[n].item) \in t.has
  BY <1>1, <1>2, <1>3 DEF Rowed
<1>4. Checked(t)'
  <2> SUFFICES ASSUME NEW n \in DOMAIN t.lines, Passed(t, n) PROVE Fits(t, t.lines[n])'
    BY DEF Checked, Passed
  <2> PICK line : line = t.lines[n]
    OBVIOUS
  <2>1. Fits(t, line) /\ Locked(t, n)
    BY <1>1 DEF Checked, Passed, Locked
  <2>2. line.item \in Items /\ line.qty \in Int /\ (line.from # Nowhere => line.from \in Locations)
        /\ Row("item", line.item) \in t.has
    BY <1>2, <1>3, <2>1
  <2> PICK i, l : i = line.item /\ l = line.from
    OBVIOUS
  <2>3. CASE l = Nowhere
    BY <2>3 DEF Fits
  <2>4. CASE l # Nowhere
    <3>1. i \in Items /\ l \in Locations /\ placed'[i][l] = placed[i][l] /\ placed[i][l] \in Int
          /\ Promised(held', i, l) <= Promised(held, i, l)
          /\ Promised(held, i, l) \in Int /\ Promised(held', i, l) \in Int
      <4>1. i \in Items /\ l \in Locations /\ Row("item", i) \in t.has
        BY <2>2, <2>4
      <4>2. placed'[i] = placed[i] /\ placed[i][l] \in Int
        BY <4>1
      <4>3. /\ Promised(held', i, l) <= Promised(held, i, l)
            /\ Promised(held, i, l) \in Int /\ Promised(held', i, l) \in Int
        BY <4>1
      <4> QED BY <4>1, <4>2, <4>3
    <3> PICK q, a, b : q = Promised(held, i, l) /\ a = Promised(held', i, l) /\ b = placed[i][l]
      OBVIOUS
    <3>2. IF t.kind = "approve" THEN line.qty <= b
          ELSE <<i, l>> \in t.short \/ line.qty <= b - q
      BY <2>1, <2>4 DEF Fits
    <3>3. IF t.kind = "approve" THEN line.qty <= b
          ELSE <<i, l>> \in t.short \/ line.qty <= b - a
      <4>1. a <= q /\ a \in Int /\ q \in Int /\ b \in Int /\ line.qty \in Int
        BY <2>2, <3>1
      <4>2. line.qty <= b - q => line.qty <= b - a
        BY ONLY <4>1
      <4> QED BY ONLY <3>2, <4>2
    <3> QED BY <3>1, <3>3 DEF Fits
  <2> QED BY <2>3, <2>4
<1>5. Rang(t)'
  <2>1. ASSUME NEW i \in Items
        PROVE  i \in t.rung <=> Crosses(i, total'[i], total'[i] + t.total[i])
    <3>1. CASE Row("item", i) \in t.has
      BY <1>1, <3>1 DEF Rang
    <3>2. CASE Row("item", i) \notin t.has
      <4>1. \A n \in DOMAIN t.lines : n < t.at => t.lines[n].item # i
        BY <1>3, <3>2 DEF Locked
      <4>2. t.total[i] = 0 /\ i \notin t.rung
        BY <1>1, <4>1 DEF Wrote, WroteNone
      <4>3. total'[i] \in Int /\ Level[i] \in Int
        BY StockConstants
      <4> QED BY <4>2, <4>3 DEF Crosses
    <3> QED BY <3>1, <3>2
  <2>2. t.stage = "write" => t.before = total'[t.lines[t.at].item]
    <3> SUFFICES ASSUME t.stage = "write" PROVE t.before = total'[t.lines[t.at].item]
      OBVIOUS
    <3>1. t.at \in DOMAIN t.lines /\ Locked(t, t.at)
      <4>1. t.at \in Nat \ {0} /\ t.lines \in Seq(Line) /\ t.at <= Len(t.lines)
        BY <1>1 DEF Standing, Requests
      <4> QED BY <4>1 DEF Locked
    <3>2. t.lines[t.at].item \in Items /\ Row("item", t.lines[t.at].item) \in t.has
      BY <1>2, <1>3, <3>1
    <3> QED BY <1>1, <3>2 DEF Rang
  <2> QED BY <2>1, <2>2 DEF Rang, Crosses
<1>6. Asked(t.kind, t.lines)' /\ Standing(t)' /\ Rowed(t)' /\ Wrote(t)'
  BY <1>1 DEF Asked, Standing, Rowed, Locked, Wrote, WroteLine, WroteNone, Suits
<1> QED BY <1>4, <1>5, <1>6 DEF Sound

\* A statement of one transaction changes nothing anyone else goes by.
LEMMA StatementKeeps ==
  ASSUME LedgerInv, NEW s \in Sessions, NEW t \in Requests, Sound(t),
         tx' = [tx EXCEPT ![s] = t], UNCHANGED <<ledger, documents, history>>,
         begun' \in 0 .. MaxBegun
  PROVE  LedgerInv'
<1>0. /\ TypeOK /\ IsFiniteSet(held) /\ NotOverdrawn /\ PromisedOnce
      /\ \A u \in Sessions : Sound(tx[u])
  BY DEF LedgerInv
<1>u. UNCHANGED <<total, placed, held, grns, counts, adjusted, entries, overridden, cut>>
  BY DEF ledger, documents, history
<1>1. /\ tx' \in [Sessions -> Requests] /\ tx'[s] = t
      /\ \A u \in Sessions \ {s} : tx'[u] = tx[u]
  BY <1>0 DEF TypeOK
<1>2. ASSUME NEW u \in Sessions PROVE Sound(tx'[u]) /\ tx'[u] \in Requests
  BY <1>0, <1>1
<1>3. ASSUME NEW r \in Requests, Sound(r) PROVE Sound(r)'
  <2>1. \A i \in Items, l \in Locations : Promised(held', i, l) = Promised(held, i, l)
    BY <1>u
  <2>2. \A i \in Items, l \in Locations : Promised(held, i, l) \in Int
    <3>1. held \subseteq Reservations
      BY <1>0 DEF TypeOK
    <3> QED BY <1>0, <3>1, PromisedNow
  <2>3. /\ \A i \in Items, l \in Locations :
             Promised(held, i, l) \in Int /\ Promised(held', i, l) \in Int
        /\ \A i \in Items, l \in Locations :
             Row("item", i) \in r.has => Promised(held', i, l) <= Promised(held, i, l)
    BY <2>1, <2>2
  <2>4. /\ placed \in [Items -> [Locations -> Int]] /\ total \in [Items -> Int]
        /\ total' \in [Items -> Int]
        /\ \A i \in Items : Row("item", i) \in r.has =>
             placed'[i] = placed[i] /\ total'[i] = total[i]
    BY <1>0, <1>u DEF TypeOK
  <2> QED BY <1>3, <2>3, <2>4, FindingsStand
<1>4. ASSUME NEW u \in Sessions PROVE Sound(tx[u])'
  <2> PICK r \in Requests : r = tx'[u] /\ Sound(r)
    BY <1>2
  <2>1. Sound(r)'
    BY <1>3
  <2> QED BY <2>1
<1>5. TypeOK'
  <2>1. ASSUME NEW u \in Sessions, tx'[u].stage \in {"lock", "look", "write"}
        PROVE  tx'[u].at <= Len(tx'[u].lines)
    <3>1. Sound(tx'[u])
      BY <1>2
    <3> QED BY <2>1, <3>1 DEF Sound, Standing
  <2> QED BY <1>0, <1>u, <1>1, <2>1 DEF TypeOK
<1>6. NotOverdrawn' /\ PromisedOnce' /\ IsFiniteSet(held)'
  <2>1. NotOverdrawn' /\ IsFiniteSet(held)'
    BY <1>0, <1>u DEF NotOverdrawn
  <2>2. ASSUME NEW i \in Items, NEW l \in Locations
        PROVE  (Reserved(i, l) <= placed[i][l] \/ <<i, l>> \in overridden \cup cut)'
    <3>1. Reserved(i, l) <= placed[i][l] \/ <<i, l>> \in overridden \cup cut
      BY <1>0 DEF PromisedOnce
    <3>2. Reserved(i, l) = Promised(held, i, l)
      BY DEF Reserved
    <3>3. Reserved(i, l)' = Promised(held', i, l)
      BY DEF Reserved
    <3> QED BY <1>u, <3>1, <3>2, <3>3
  <2> QED BY <2>1, <2>2 DEF PromisedOnce
<1> QED BY <1>4, <1>5, <1>6 DEF LedgerInv
-----------------------------------------------------------------------------
(* The steps of a session.                                                  *)

LEMMA IdleType == Idle \in Requests
<1>1. Nil \in [Items -> Int] /\ NilPlaced \in [Items -> [Locations -> Int]]
  BY DEF Nil, NilPlaced
<1>2. <<>> \in Seq(Line)
  OBVIOUS
<1>3. 0 \in 0 .. MaxBegun
  BY StockConstants
<1> HIDE DEF Line
<1> QED BY <1>1, <1>2, <1>3 DEF Idle, Requests, Kinds, Stages

\* Before the first item is locked.
LEMMA NothingYet ==
  ASSUME NEW t \in Requests, total \in [Items -> Int], Asked(t.kind, t.lines), Standing(t),
         t.at = 1, t.stage \in {"document", "lock", "commit"}, t.kind # "post" => t.short = {},
         \A i \in Items : WroteNone(t, i) /\ Row("item", i) \notin t.has
  PROVE  Sound(t)
<1>1. \A n \in DOMAIN t.lines : ~(n < t.at) /\ ~Locked(t, n) /\ ~Passed(t, n)
  <2>1. \A n \in DOMAIN t.lines : n \in Nat \ {0}
    BY DEF Asked
  <2> QED BY <2>1 DEF Locked, Passed
<1>2. Rowed(t)
  BY <1>1 DEF Rowed
<1>3. Wrote(t)
  BY <1>1 DEF Wrote
<1>4. Checked(t)
  BY <1>1 DEF Checked
<1>5. Rang(t)
  <2>1. ASSUME NEW i \in Items
        PROVE  i \notin t.rung /\ ~Crosses(i, total[i], total[i] + t.total[i])
    <3>1. t.total[i] = 0 /\ i \notin t.rung
      BY DEF WroteNone
    <3>2. total[i] \in Int /\ Level[i] \in Int
      BY StockConstants
    <3> QED BY <3>1, <3>2 DEF Crosses
  <2> QED BY <2>1 DEF Rang
<1> QED BY <1>2, <1>3, <1>4, <1>5 DEF Sound

\* A transaction begins with lines as they were asked for.
LEMMA BeginKeepsLedger ==
  ASSUME LedgerInv, NEW s \in Sessions, NEW kind \in Kinds, NEW lines,
         NEW doc \in Counts \cup Grns \cup {0}, NEW override \in BOOLEAN,
         Begin(s, kind, lines, doc, override), Asked(kind, lines)
  PROVE  LedgerInv'
<1> DEFINE no == begun + 1
           stage == IF kind \in {"return", "approve"} THEN "document" ELSE "lock"
<1>0. PICK t : t = [Idle EXCEPT !.kind = kind, !.no = no, !.lines = lines, !.doc = doc,
                              !.override = override, !.stage = stage]
  OBVIOUS
<1>1. /\ tx' = [tx EXCEPT ![s] = t] /\ UNCHANGED <<ledger, documents, history>>
      /\ begun' = no /\ begun < MaxBegun
  BY <1>0, Zenon DEF Begin
<1>2. no \in 0 .. MaxBegun /\ stage \in Stages /\ lines \in Seq(Line)
  BY <1>1, StockConstants DEF LedgerInv, TypeOK, Stages, Asked
<1>3. t \in Requests
  <2> HIDE DEF no, stage, Line
  <2> QED BY <1>0, <1>2, IdleType DEF Requests
<1>4. /\ t.kind = kind /\ t.stage = stage /\ t.lines = lines /\ t.at = 1 /\ t.has = {}
      /\ t.total = Nil /\ t.placed = NilPlaced /\ t.short = {} /\ t.rung = {}
  <2> HIDE DEF no, stage
  <2>1. IsRequest(Idle)
    BY IdleFields
  <2>2. /\ t.kind = kind /\ t.stage = stage /\ t.lines = lines /\ t.at = Idle.at
        /\ t.has = Idle.has /\ t.total = Idle.total /\ t.placed = Idle.placed
        /\ t.short = Idle.short /\ t.rung = Idle.rung
    BY <1>0, <2>1, SMT DEF IsRequest, Fields
  <2>3. Idle.placed = NilPlaced /\ Idle.short = {} /\ Idle.rung = {}
    BY DEF Idle
  <2> QED BY <2>2, <2>3, IdleFields
<1>5. Standing(t)
  <2>1. CASE kind \in {"return", "approve"}
    BY <1>4, <2>1 DEF Standing
  <2>2. CASE kind \notin {"return", "approve"}
    <3>1. Len(lines) = 1
      BY <2>2 DEF Asked, Kinds
    <3> QED BY <1>4, <2>2, <3>1 DEF Standing
  <2> QED BY <2>1, <2>2
<1>6. \A i \in Items : WroteNone(t, i) /\ Row("item", i) \notin t.has
  BY <1>4 DEF WroteNone, Nil, NilPlaced
<1>7. Sound(t)
  <2>1. total \in [Items -> Int]
    BY DEF LedgerInv, TypeOK
  <2> QED BY <1>3, <1>4, <1>5, <1>6, <2>1, NothingYet
<1> QED BY <1>1, <1>2, <1>3, <1>7, StatementKeeps

\* The lines of a count, by item id.
LEMMA LinesAsked ==
  ASSUME TypeOK, NEW c \in Counts
  PROVE  Asked("approve", Lines(c))
<1> DEFINE N == Cardinality(Found(c))
<1>1. Found(c) \in SUBSET Items /\ Found(c) \in SUBSET Nat /\ IsFiniteSet(Found(c)) /\ N \in Nat
  BY StockConstants, FS_Subset, FS_CardinalityType DEF Found
<1>2. /\ InOrder(c) \in [1 .. N -> Found(c)]
      /\ \A m, n \in 1 .. N : m < n => InOrder(c)[m] < InOrder(c)[n]
  <2> DEFINE Good(order) == order \in SetToSeqs(Found(c))
               /\ \A m, n \in DOMAIN order : m < n => order[m] < order[n]
  <2>1. PICK order \in [1 .. N -> Found(c)] :
               \A m, n \in 1 .. N : m < n => order[m] < order[n]
    BY <1>1, PutInOrder
  <2>2. \A m, n \in 1 .. N : m # n => order[m] # order[n]
    <3>1. ASSUME NEW m \in 1 .. N, NEW n \in 1 .. N, m # n PROVE order[m] # order[n]
      <4>1. (m < n \/ n < m) /\ order[m] \in Nat /\ order[n] \in Nat
        BY <1>1, <3>1
      <4> QED BY <2>1, <4>1
    <3> QED BY <3>1
  <2>3. Good(order)
    BY <2>1, <2>2 DEF SetToSeqs
  <2>4. Good(InOrder(c))
    <3>1. InOrder(c) = CHOOSE o : Good(o)
      BY Zenon DEF InOrder
    <3> HIDE DEF Good
    <3> QED BY <2>3, <3>1, Zenon
  <2>5. InOrder(c) \in [1 .. N -> Found(c)]
    BY <2>4 DEF SetToSeqs
  <2> QED BY <2>4, <2>5
<1> PICK order : order = InOrder(c)
  OBVIOUS
<1>3. Lines(c) = [n \in 1 .. N |-> Adjustment(c, order[n])]
  BY <1>2 DEF Lines
<1>4. ASSUME NEW n \in 1 .. N
      PROVE  /\ Adjustment(c, order[n]) \in Line /\ Suits("approve", Adjustment(c, order[n]))
             /\ Adjustment(c, order[n]).item = order[n]
  <2> PICK i : i = order[n]
    OBVIOUS
  <2>1. i \in Items /\ counts[c].variance[i] # 0
    BY <1>1, <1>2 DEF Found
  <2> PICK v, at : v = counts[c].variance[i] /\ at = counts[c].at
    OBVIOUS
  <2>2. v \in Int /\ v # 0 /\ at \in Locations \cup {Nowhere}
    BY <2>1 DEF TypeOK, Tallies
  <2>3. Adjustment(c, i) =
          IF v > 0 THEN [item |-> i, effect |-> "IN", from |-> Nowhere, to |-> at, qty |-> v]
                   ELSE [item |-> i, effect |-> "OUT", from |-> at, to |-> Nowhere, qty |-> -v]
    BY DEF Adjustment
  <2>4. CASE v > 0
    BY <2>1, <2>2, <2>3, <2>4 DEF Line, Effects, Suits
  <2>5. CASE ~(v > 0)
    <3>1. -v \in Nat \ {0}
      BY <2>2, <2>5
    <3> QED BY <2>1, <2>2, <2>3, <2>5, <3>1 DEF Line, Effects, Suits
  <2> QED BY <2>4, <2>5
<1>5. Lines(c) \in [1 .. N -> Line]
  BY <1>3, <1>4
<1>6. Lines(c) \in Seq(Line) /\ DOMAIN Lines(c) = 1 .. N
  BY <1>1, <1>5
<1>7. ASSUME NEW n \in 1 .. N
      PROVE  Suits("approve", Lines(c)[n]) /\ Lines(c)[n].item = order[n]
  BY <1>3, <1>4
<1>8. \A m, n \in 1 .. N : m < n => order[m] < order[n]
  BY <1>2
<1>9. \A m, n \in 1 .. N : m # n => order[m] # order[n]
  <2>1. ASSUME NEW m \in 1 .. N, NEW n \in 1 .. N, m # n PROVE order[m] # order[n]
    <3>1. (m < n \/ n < m) /\ order[m] \in Nat /\ order[n] \in Nat
      BY <1>1, <1>2, <2>1
    <3> QED BY <1>8, <3>1
  <2> QED BY <2>1
<1> QED BY <1>6, <1>7, <1>8, <1>9 DEF Asked

\* So does every kind of it.
LEMMA BegunKeepsLedger ==
  ASSUME LedgerInv, NEW s \in Sessions,
         Post(s) \/ PostUnplaced(s) \/ Reserve(s) \/ Return(s) \/ Approve(s)
  PROVE  LedgerInv'
<1>q. /\ Quantities \subseteq Nat \ {0} /\ Nowhere \notin Locations
      /\ \A m \in Movements :
           /\ m.effect \in {"IN", "OUT", "MOVE"} /\ m.from \in Locations \cup {Nowhere}
           /\ m.to \in Locations \cup {Nowhere}
  BY StockConstants DEF Valid
<1>k. /\ "post" \in Kinds /\ "legacy" \in Kinds /\ "reserve" \in Kinds /\ "return" \in Kinds
      /\ "approve" \in Kinds /\ FALSE \in BOOLEAN
  BY DEF Kinds
<1>a. ASSUME NEW kind \in {"post", "legacy", "reserve"}, NEW line \in Line, Suits(kind, line)
      PROVE  Asked(kind, <<line>>)
  <2>1. <<line>> \in Seq(Line) /\ Len(<<line>>) = 1 /\ DOMAIN <<line>> = {1} /\ <<line>>[1] = line
    OBVIOUS
  <2> HIDE DEF Line
  <2> QED BY <1>a, <2>1 DEF Asked
<1>1. CASE Post(s)
  <2> PICK m \in Movements, i \in Items, q \in Quantities, o \in Overdrawing :
         Begin(s, "post", <<[item |-> i, effect |-> m.effect, from |-> m.from, to |-> m.to,
                             qty |-> q]>>, 0, o)
    BY <1>1 DEF Post
  <2> PICK line : line = [item |-> i, effect |-> m.effect, from |-> m.from, to |-> m.to, qty |-> q]
    OBVIOUS
  <2>1. line \in Line /\ Suits("post", line)
    BY <1>q DEF Line, Effects, Suits
  <2>2. o \in BOOLEAN
    BY StockConstants
  <2> QED BY <1>k, <1>a, <2>1, <2>2, BeginKeepsLedger
<1>2. CASE PostUnplaced(s)
  <2> PICK i \in Items, e \in {"IN", "OUT"}, q \in Quantities :
         Begin(s, "legacy", <<[item |-> i, effect |-> e, from |-> Nowhere, to |-> Nowhere,
                               qty |-> q]>>, 0, FALSE)
    BY <1>2 DEF PostUnplaced
  <2> PICK line : line = [item |-> i, effect |-> e, from |-> Nowhere, to |-> Nowhere, qty |-> q]
    OBVIOUS
  <2>1. line \in Line /\ Suits("legacy", line)
    BY <1>q DEF Line, Effects, Suits
  <2> QED BY <1>k, <1>a, <2>1, BeginKeepsLedger
<1>3. CASE Reserve(s)
  <2> PICK i \in Items, l \in Locations, q \in Quantities :
         Begin(s, "reserve", <<[item |-> i, effect |-> "HOLD", from |-> l, to |-> Nowhere,
                                qty |-> q]>>, 0, FALSE)
    BY <1>3 DEF Reserve
  <2> PICK line : line = [item |-> i, effect |-> "HOLD", from |-> l, to |-> Nowhere, qty |-> q]
    OBVIOUS
  <2>1. line \in Line /\ Suits("reserve", line)
    BY <1>q DEF Line, Effects, Suits
  <2> QED BY <1>k, <1>a, <2>1, BeginKeepsLedger
<1>4. CASE Return(s)
  <2> PICK g \in Grns, S \in SUBSET Items, q \in Quantities :
         /\ S # {}
         /\ \E order \in SetToSeqs(S) :
              Begin(s, "return", [n \in DOMAIN order |->
                [item |-> order[n], effect |-> "OUT", from |-> Nowhere, to |-> Nowhere, qty |-> q]],
                g, FALSE)
    BY <1>4, Zenon DEF Return
  <2> PICK order \in SetToSeqs(S) :
         Begin(s, "return", [n \in DOMAIN order |->
           [item |-> order[n], effect |-> "OUT", from |-> Nowhere, to |-> Nowhere, qty |-> q]],
           g, FALSE)
    OBVIOUS
  <2> PICK lines : lines = [n \in DOMAIN order |->
         [item |-> order[n], effect |-> "OUT", from |-> Nowhere, to |-> Nowhere, qty |-> q]]
    OBVIOUS
  <2>1. Goods(lines)
    BY <1>q, AskedGoods
  <2>2. \A n \in DOMAIN lines : Suits("return", lines[n])
    BY DEF Suits
  <2>3. Asked("return", lines)
    BY <2>1, <2>2 DEF Asked, Goods
  <2> QED BY <1>k, <2>3, BeginKeepsLedger
<1>5. CASE Approve(s)
  <2>1. PICK c \in Counts : Begin(s, "approve", <<>>, c, FALSE)
    BY <1>5 DEF Approve
  <2>2. <<>> \in Seq(Line)
    OBVIOUS
  <2>3. Asked("approve", <<>>)
    <3> HIDE DEF Line
    <3> QED BY <2>2 DEF Asked
  <2> QED BY <1>k, <2>1, <2>3, BeginKeepsLedger
<1> QED BY <1>1, <1>2, <1>3, <1>4, <1>5

\* A session that ends, answered, refused or dead.
LEMMA LeaveKeepsLedger ==
  ASSUME LedgerInv, NEW s \in Sessions, tx' = [tx EXCEPT ![s] = Idle],
         UNCHANGED <<ledger, documents, begun, history>>
  PROVE  LedgerInv'
<1>1. Sound(Idle)
  BY IdleFields DEF Sound
<1>2. begun' \in 0 .. MaxBegun
  BY DEF LedgerInv, TypeOK
<1> QED BY <1>1, <1>2, IdleType, StatementKeeps

\* A session's record in the invariant.
LEMMA RequestOf ==
  ASSUME LedgerInv, NEW s \in Sessions
  PROVE  tx[s] \in Requests /\ IsRequest(tx[s]) /\ Sound(tx[s]) /\ begun \in 0 .. MaxBegun
         /\ (tx[s].stage \in {"lock", "look", "write"} => tx[s].at <= Len(tx[s].lines))
<1>1. tx[s] \in Requests /\ Sound(tx[s])
  BY DEF LedgerInv, TypeOK
<1>2. IsRequest(tx[s])
  <2> PICK r \in Requests : r = tx[s]
    BY <1>1
  <2>1. IsRequest(r)
    BY DEF Requests, IsRequest, Fields
  <2> QED BY <2>1
<1> QED BY <1>1, <1>2 DEF LedgerInv, TypeOK

\* The document's row, and the lines it gives.
LEMMA LockDocumentKeepsLedger ==
  ASSUME Inv, LedgerInv, NEW s \in Sessions, LockDocument(s)
  PROVE  LedgerInv'
<1> DEFINE approves == tx[s].kind = "approve"
           lines == IF approves THEN Lines(tx[s].doc) ELSE tx[s].lines
           stands == IF approves THEN counts[tx[s].doc].status = "COUNTED"
                     ELSE \A n \in DOMAIN lines : lines[n].qty <= grns[tx[s].doc][lines[n].item]
           stage == IF lines = <<>> THEN "commit" ELSE "lock"
<1>0. PICK t : t = [tx[s] EXCEPT !.has = Wanted(s), !.lines = lines, !.stage = stage]
  OBVIOUS
<1>1. /\ tx' = [tx EXCEPT ![s] = IF ~stands THEN Idle ELSE t]
      /\ UNCHANGED <<ledger, documents, begun, history>>
  BY <1>0, Zenon DEF LockDocument
<1>2. CASE ~stands
  BY <1>1, <1>2, LeaveKeepsLedger
<1>3. CASE stands
  <2> PICK r : r = tx[s] OBVIOUS
  <2>1. /\ r \in Requests /\ IsRequest(r) /\ r.stage = "document" /\ ApproveSound(r)
        /\ ReturnSound(r) /\ Sound(r) /\ begun \in 0 .. MaxBegun
    BY RequestOf DEF Inv, LockDocument
  <2>2. r.at = 1 /\ r.kind \in {"return", "approve"} /\ Asked(r.kind, r.lines) /\ Wrote(r)
    BY <2>1 DEF Sound, Standing
  <2>3. Wanted(s) = {Row(IF r.kind = "approve" THEN "count" ELSE "grn", r.doc)}
    BY <2>1 DEF Wanted
  <2>4. Wanted(s) \subseteq Rows /\ \A i \in Items : Row("item", i) \notin Wanted(s)
    <3>1. r.kind = "approve" => r.doc \in Counts
      BY <2>1 DEF ApproveSound
    <3>2. r.kind = "return" => r.doc \in Grns
      BY <2>1 DEF ReturnSound
    <3> QED BY <2>2, <2>3, <3>1, <3>2 DEF Row, Rows
  <2>5. Asked(r.kind, lines)
    <3>1. CASE r.kind = "approve"
      <4>1. r.doc \in Counts /\ TypeOK
        BY <2>1, <3>1 DEF ApproveSound, LedgerInv
      <4>2. lines = Lines(r.doc)
        BY <3>1
      <4> QED BY <3>1, <4>1, <4>2, LinesAsked
    <3>2. CASE r.kind # "approve"
      <4>1. lines = r.lines
        BY <3>2
      <4> QED BY <2>2, <4>1
    <3> QED BY <3>1, <3>2
  <2> HIDE DEF lines, approves
  <2>6. stage \in {"lock", "commit"} /\ (stage = "lock" => 1 <= Len(lines))
        /\ (stage = "commit" => 1 > Len(lines))
    BY <2>5 DEF Asked
  <2> HIDE DEF stage
  <2>7. t \in Requests
    <3>1. lines \in Seq(Line) /\ stage \in Stages
      BY <2>5, <2>6 DEF Asked, Stages
    <3>2. t = [r EXCEPT !.has = Wanted(s), !.lines = lines, !.stage = stage]
      BY <1>0
    <3> HIDE DEF Line
    <3> QED BY ONLY <2>1, <2>4, <3>1, <3>2 DEF Requests
  <2>8. /\ t.kind = r.kind /\ t.stage = stage /\ t.lines = lines /\ t.at = r.at
        /\ t.has = Wanted(s) /\ t.total = r.total /\ t.placed = r.placed /\ t.short = r.short
        /\ t.rung = r.rung
    BY <1>0, <2>1, SMT DEF IsRequest, Fields
  <2>9. \A i \in Items : WroteNone(t, i) /\ Row("item", i) \notin t.has
    <3>1. \A n \in DOMAIN r.lines : ~(n < r.at)
      BY <2>2 DEF Asked
    <3>2. \A i \in Items : WroteNone(r, i)
      BY <3>1, <2>2 DEF Wrote
    <3> QED BY <2>4, <2>8, <3>2 DEF WroteNone
  <2>10. Sound(t)
    <3>1. total \in [Items -> Int]
      BY DEF LedgerInv, TypeOK
    <3>2. Standing(t)
      BY <2>2, <2>6, <2>8 DEF Standing
    <3>3. t.at = 1 /\ t.stage \in {"document", "lock", "commit"} /\ Asked(t.kind, t.lines)
          /\ (t.kind # "post" => t.short = {})
      BY <2>2, <2>5, <2>6, <2>8 DEF Wrote
    <3> QED BY <2>7, <2>9, <3>1, <3>2, <3>3, NothingYet
  <2>11. tx' = [tx EXCEPT ![s] = t] /\ begun' \in 0 .. MaxBegun
    BY <1>1, <1>3, <2>1
  <2> QED BY <1>1, <2>7, <2>10, <2>11, StatementKeeps
<1> QED BY <1>2, <1>3

\* The line a transaction is at.
LEMMA CurrentLine ==
  ASSUME LedgerInv, NEW s \in Sessions, tx[s].stage \in {"lock", "look", "write"}
  PROVE  /\ Current(s) = tx[s].lines[tx[s].at] /\ tx[s].at \in DOMAIN tx[s].lines
         /\ Current(s) \in Line /\ Suits(tx[s].kind, Current(s))
         /\ \A n \in DOMAIN tx[s].lines : n \in Nat
         /\ \A n \in DOMAIN tx[s].lines : n # tx[s].at => tx[s].lines[n].item # Current(s).item
         /\ Current(s).item \in Items /\ tx[s].at \in Nat \ {0}
<1> PICK r : r = tx[s] OBVIOUS
<1>1. r \in Requests /\ Asked(r.kind, r.lines) /\ r.at <= Len(r.lines)
  BY RequestOf DEF Sound
<1>2. r.at \in DOMAIN r.lines /\ \A n \in DOMAIN r.lines : n \in Nat
  <2>1. r.at \in Nat \ {0} /\ r.lines \in Seq(Line)
    BY <1>1 DEF Requests
  <2> HIDE DEF Line
  <2> QED BY <1>1, <2>1
<1>3. r.lines[r.at] \in Line
  BY <1>1, <1>2 DEF Asked
<1>4. r.lines[r.at].item \in Items /\ r.at \in Nat \ {0}
  BY <1>1, <1>3 DEF Line, Requests
<1> QED BY <1>1, <1>2, <1>3, <1>4 DEF Asked, Current

\* One item's row more.
LEMMA LockItemKeepsLedger ==
  ASSUME Inv, LedgerInv, NEW s \in Sessions, LockItem(s)
  PROVE  LedgerInv'
<1>0. PICK t : t = [tx[s] EXCEPT !.has = tx[s].has \cup Wanted(s), !.stage = "look"]
  OBVIOUS
<1>1. tx' = [tx EXCEPT ![s] = t] /\ UNCHANGED <<ledger, documents, begun, history>>
  BY <1>0, Zenon DEF LockItem
<1> PICK r : r = tx[s] OBVIOUS
<1>2. /\ r \in Requests /\ IsRequest(r) /\ r.stage = "lock" /\ Sound(r) /\ begun \in 0 .. MaxBegun
      /\ r.at <= Len(r.lines)
  BY RequestOf DEF LockItem
<1> PICK j : j = Current(s).item OBVIOUS
<1>3. j \in Items /\ j = r.lines[r.at].item /\ r.at \in DOMAIN r.lines
  BY <1>2, CurrentLine DEF Line
<1>4. Wanted(s) = {Row("item", j)} \ r.has
  BY <1>2 DEF Wanted
<1>5. r.has \cup Wanted(s) = r.has \cup {Row("item", j)} /\ Row("item", j) \in Rows
  BY <1>3, <1>4 DEF Row, Rows
<1>6. t \in Requests
  <2> PICK has : has = r.has \cup Wanted(s) OBVIOUS
  <2>1. has \subseteq Rows /\ "look" \in Stages
    BY <1>2, <1>5 DEF Requests, Stages
  <2>2. t = [r EXCEPT !.has = has, !.stage = "look"]
    BY <1>0
  <2> QED BY ONLY <1>2, <2>1, <2>2 DEF Requests
<1>7. /\ t.kind = r.kind /\ t.stage = "look" /\ t.lines = r.lines /\ t.at = r.at
      /\ t.has = r.has \cup {Row("item", j)} /\ t.total = r.total /\ t.placed = r.placed
      /\ t.short = r.short /\ t.rung = r.rung
  BY <1>0, <1>2, <1>5, SMT DEF IsRequest, Fields
<1>8. Asked(r.kind, r.lines) /\ Rowed(r) /\ Wrote(r) /\ Checked(r) /\ Rang(r)
  BY <1>2 DEF Sound
<1>9. Standing(t) /\ Asked(t.kind, t.lines)
  BY <1>2, <1>7, <1>8 DEF Standing
<1>10. Rowed(t)
  <2> SUFFICES ASSUME NEW i \in Items
               PROVE  Row("item", i) \in t.has <=>
                        \E n \in DOMAIN t.lines : Locked(t, n) /\ t.lines[n].item = i
    BY DEF Rowed
  <2>1. \A n \in DOMAIN r.lines : Locked(t, n) <=> Locked(r, n) \/ n = r.at
    BY <1>2, <1>7 DEF Locked
  <2>2. Row("item", i) \in r.has <=> \E n \in DOMAIN r.lines : Locked(r, n) /\ r.lines[n].item = i
    BY <1>8 DEF Rowed
  <2>3. Row("item", i) = Row("item", j) <=> i = j
    BY DEF Row
  <2> QED BY <1>3, <1>7, <2>1, <2>2, <2>3
<1>11. Wrote(t)
  BY <1>7, <1>8 DEF Wrote, WroteLine, WroteNone
<1>12. Checked(t)
  BY <1>2, <1>7, <1>8 DEF Checked, Passed, Fits
<1>13. Rang(t)
  BY <1>7, <1>8 DEF Rang
<1>14. Sound(t)
  BY <1>9, <1>10, <1>11, <1>12, <1>13 DEF Sound
<1>15. begun' \in 0 .. MaxBegun
  BY <1>1, <1>2
<1> QED BY <1>1, <1>6, <1>14, <1>15, StatementKeeps

\* Of the item a transaction is about to post, it has posted nothing yet.
LEMMA NotYetWritten ==
  ASSUME LedgerInv, NEW s \in Sessions, tx[s].stage \in {"lock", "look", "write"}
  PROVE  WroteNone(tx[s], Current(s).item)
<1> PICK r : r = tx[s] OBVIOUS
<1>1. Wrote(r)
  BY RequestOf DEF Sound
<1> PICK i : i = Current(s).item OBVIOUS
<1>2. /\ \A n \in DOMAIN r.lines : n \in Nat
      /\ \A n \in DOMAIN r.lines : n # r.at => r.lines[n].item # i
      /\ i \in Items /\ r.at \in Nat
  BY CurrentLine
<1>3. ASSUME NEW n \in DOMAIN r.lines, n < r.at PROVE r.lines[n].item # i
  <2>1. n \in Nat /\ r.at \in Nat
    BY <1>2
  <2>2. n # r.at
    BY ONLY <1>3, <2>1
  <2> QED BY <1>2, <2>2
<1> QED BY <1>1, <1>2, <1>3 DEF Wrote

\* What the check has found, on the ledger under the item's lock.
LEMMA AllowedFits ==
  ASSUME LedgerInv, NEW s \in Sessions, tx[s].stage = "look", Allowed(s), NEW t,
         t.kind = tx[s].kind,
         tx[s].kind = "post" /\ tx[s].override /\ Current(s).from # Nowhere
           /\ Current(s).qty > Free(s, Current(s).item, Current(s).from) =>
             <<Current(s).item, Current(s).from>> \in t.short
  PROVE  Fits(t, Current(s))
<1> PICK r : r = tx[s] OBVIOUS
<1> PICK line : line = Current(s) OBVIOUS
<1>1. r \in Requests /\ line \in Line /\ Suits(r.kind, line) /\ WroteNone(r, line.item)
  BY RequestOf, CurrentLine, NotYetWritten
<1>2. /\ line.item \in Items /\ line.qty \in Nat /\ line.from \in Locations \cup {Nowhere}
      /\ r.kind \in Kinds
  BY <1>1 DEF Line, Requests
<1> SUFFICES ASSUME line.from # Nowhere PROVE Fits(t, line)
  BY DEF Fits
<1> PICK i, l : i = line.item /\ l = line.from OBVIOUS
<1>3. i \in Items /\ l \in Locations
  BY <1>2
<1> PICK p, q : p = placed[i][l] /\ q = Promised(held, i, l)
  OBVIOUS
<1>4. p \in Int /\ q \in Nat
  <2>1. placed \in [Items -> [Locations -> Int]] /\ held \subseteq Reservations /\ IsFiniteSet(held)
    BY DEF LedgerInv, TypeOK
  <2>2. q \in Nat
    BY <2>1, PromisedNow
  <2>3. placed[i][l] \in Int
    BY ONLY <1>3, <2>1
  <2> QED BY <2>2, <2>3
<1>5. Placed(s, i, l) = p /\ Free(s, i, l) = p - q
  <2>1. r.placed[i][l] = 0
    BY <1>1, <1>3 DEF WroteNone
  <2>2. Placed(s, i, l) = p
    BY <1>4, <2>1 DEF Placed
  <2> QED BY <2>2 DEF Free, Reserved
<1>6. CASE r.kind = "post"
  <2>1. r.override \/ line.qty <= p - q
    BY <1>5, <1>6 DEF Allowed
  <2>2. CASE line.qty <= p - q
    BY <1>6, <2>2 DEF Fits
  <2>3. CASE ~(line.qty <= p - q)
    <3>1. <<i, l>> \in t.short
      BY <1>2, <1>4, <1>5, <1>6, <2>1, <2>3
    <3> QED BY <1>6, <3>1 DEF Fits
  <2> QED BY <2>2, <2>3
<1>7. CASE r.kind = "reserve"
  BY <1>5, <1>7 DEF Allowed, Fits
<1>8. CASE r.kind = "approve"
  <2>1. line.effect = "OUT"
    BY <1>1, <1>8 DEF Suits
  <2> QED BY <1>5, <1>8, <2>1 DEF Allowed, Fits
<1>9. CASE r.kind \in {"legacy", "return"}
  BY <1>1, <1>9 DEF Suits
<1> QED BY <1>2, <1>6, <1>7, <1>8, <1>9 DEF Kinds

\* The line is found to fit, or refused.
LEMMA LookKeepsLedger ==
  ASSUME Inv, LedgerInv, NEW s \in Sessions, Look(s)
  PROVE  LedgerInv'
<1> DEFINE line == Current(s)
           beyond == tx[s].kind = "post" /\ tx[s].override /\ line.from # Nowhere
                       /\ line.qty > Free(s, line.item, line.from)
           before == Total(s, line.item)
           short == IF beyond THEN {<<line.item, line.from>>} ELSE {}
<1>0. PICK t : t = [tx[s] EXCEPT !.before = before, !.stage = "write", !.short = short]
  OBVIOUS
<1>1. /\ tx' = [tx EXCEPT ![s] = IF ~Allowed(s) THEN Idle ELSE t]
      /\ UNCHANGED <<ledger, documents, begun, history>>
  BY <1>0, Zenon DEF Look
<1>2. CASE ~Allowed(s)
  BY <1>1, <1>2, LeaveKeepsLedger
<1>3. CASE Allowed(s)
  <2> PICK r : r = tx[s] OBVIOUS
  <2>1. /\ r \in Requests /\ IsRequest(r) /\ r.stage = "look" /\ Sound(r) /\ begun \in 0 .. MaxBegun
        /\ r.at <= Len(r.lines)
    BY RequestOf DEF Look
  <2>2. /\ Asked(r.kind, r.lines) /\ Rowed(r) /\ Wrote(r) /\ Checked(r) /\ Rang(r)
    BY <2>1 DEF Sound
  <2>3. /\ line = r.lines[r.at] /\ r.at \in DOMAIN r.lines /\ line \in Line
        /\ WroteNone(r, line.item) /\ line.item \in Items
        /\ (line.from # Nowhere => line.from \in Locations)
    <3>1. /\ line = r.lines[r.at] /\ r.at \in DOMAIN r.lines /\ line \in Line
          /\ WroteNone(r, line.item)
      BY <2>1, CurrentLine, NotYetWritten
    <3> HIDE DEF line
    <3> QED BY <3>1 DEF Line
  <2>4. before = total[line.item] /\ before \in Int
    <3>1. total \in [Items -> Int]
      BY DEF LedgerInv, TypeOK
    <3>2. r.total[line.item] = 0
      BY <2>3 DEF WroteNone
    <3>3. before = total[line.item] + r.total[line.item]
      BY DEF Total
    <3>4. line.item \in Items
      BY <2>3
    <3> HIDE DEF line, before
    <3>5. total[line.item] \in Int
      BY ONLY <3>1, <3>4
    <3> QED BY ONLY <3>2, <3>3, <3>5
  <2>5. short \subseteq Items \X Locations /\ (r.kind # "post" => short = {})
    <3>1. beyond => line.item \in Items /\ line.from \in Locations /\ r.kind = "post"
      BY <2>3
    <3> HIDE DEF beyond, line
    <3> QED BY <3>1
  <2>6. beyond => <<line.item, line.from>> \in short
    OBVIOUS
  <2> HIDE DEF before, short
  <2>7. t \in Requests
    <3>1. "write" \in Stages
      BY DEF Stages
    <3>2. t = [r EXCEPT !.before = before, !.stage = "write", !.short = short]
      BY <1>0
    <3> HIDE DEF line
    <3> QED BY ONLY <2>1, <2>4, <2>5, <3>1, <3>2 DEF Requests
  <2>8. /\ t.kind = r.kind /\ t.stage = "write" /\ t.lines = r.lines /\ t.at = r.at
        /\ t.has = r.has /\ t.total = r.total /\ t.placed = r.placed
        /\ t.short = short /\ t.rung = r.rung /\ t.before = before
    BY <1>0, <2>1, SMT DEF IsRequest, Fields
  <2>9. Fits(t, line)
    BY <1>3, <2>1, <2>6, <2>8, AllowedFits
  <2>10. Standing(t) /\ Asked(t.kind, t.lines)
    BY <2>1, <2>2, <2>8 DEF Standing
  <2>11. Rowed(t)
    BY <2>1, <2>2, <2>8 DEF Rowed, Locked
  <2>12. Wrote(t)
    BY <2>2, <2>5, <2>8 DEF Wrote, WroteLine, WroteNone
  <2>13. Checked(t)
    <3> SUFFICES ASSUME NEW n \in DOMAIN t.lines, Passed(t, n) PROVE Fits(t, t.lines[n])
      BY DEF Checked
    <3>1. CASE n = r.at
      BY <2>3, <2>8, <2>9, <3>1
    <3>2. CASE n # r.at
      <4>1. n < r.at /\ n \in DOMAIN r.lines
        BY <2>8, <3>2 DEF Passed
      <4>2. r.kind # "post"
        <5>1. r.at \in 1 .. Len(r.lines) /\ n \in 1 .. Len(r.lines)
          BY <2>2, <2>3, <4>1 DEF Asked
        <5> QED BY <2>2, <4>1, <5>1 DEF Asked
      <4>3. t.short = r.short
        BY <2>2, <2>5, <2>8, <4>2 DEF Wrote
      <4>4. Fits(r, r.lines[n])
        BY <2>2, <4>1 DEF Checked, Passed
      <4> QED BY <2>8, <4>3, <4>4 DEF Fits
    <3> QED BY <3>1, <3>2
  <2>14. Rang(t)
    <3>1. ASSUME NEW i \in Items
          PROVE  i \in t.rung <=> Crosses(i, total[i], total[i] + t.total[i])
      <4>1. CASE i = line.item
        <5>1. t.total[i] = 0 /\ i \notin t.rung
          BY <2>3, <2>8, <4>1 DEF WroteNone
        <5>2. total[i] \in Int /\ Level[i] \in Int
          <6>1. total \in [Items -> Int] /\ i \in Items
            BY DEF LedgerInv, TypeOK
          <6> QED BY <6>1, StockConstants
        <5> QED BY <5>1, <5>2 DEF Crosses
      <4>2. CASE i # line.item
        BY <2>2, <2>8, <4>2 DEF Rang
      <4> QED BY <4>1, <4>2
    <3>2. t.before = total[t.lines[t.at].item]
      BY <2>3, <2>4, <2>8
    <3> QED BY <3>1, <3>2 DEF Rang
  <2>15. Sound(t)
    BY <2>9, <2>10, <2>11, <2>12, <2>13, <2>14 DEF Sound
  <2>16. tx' = [tx EXCEPT ![s] = t] /\ begun' \in 0 .. MaxBegun
    BY <1>1, <1>3, <2>1
  <2> QED BY <1>1, <2>7, <2>15, <2>16, StatementKeeps
<1> QED BY <1>2, <1>3

\* A line is written.
SumsWith(r, line) == [r.total EXCEPT ![line.item] = r.total[line.item] + ToTotal(line)]

PlacesWith(r, line) ==
  [r.placed EXCEPT ![line.item] =
     [l \in Locations |-> r.placed[line.item][l] + ToPlace(line, l)]]

LEMMA WrittenLine ==
  ASSUME NEW r \in Requests, NEW line \in Line
  PROVE  /\ SumsWith(r, line) \in [Items -> Int]
         /\ PlacesWith(r, line) \in [Items -> [Locations -> Int]]
         /\ SumsWith(r, line)[line.item] = r.total[line.item] + ToTotal(line)
         /\ \A l \in Locations :
              PlacesWith(r, line)[line.item][l] = r.placed[line.item][l] + ToPlace(line, l)
         /\ \A j \in Items \ {line.item} :
              SumsWith(r, line)[j] = r.total[j] /\ PlacesWith(r, line)[j] = r.placed[j]
         /\ ToTotal(line) \in Int /\ \A l \in Locations : ToPlace(line, l) \in Int
<1> DEFINE i == line.item
           row == [l \in Locations |-> r.placed[i][l] + ToPlace(line, l)]
           sum == [r.total EXCEPT ![i] = r.total[i] + ToTotal(line)]
           places == [r.placed EXCEPT ![i] = row]
<1>1. i \in Items /\ line.qty \in Nat
  BY DEF Line
<1>2. ToTotal(line) \in Int /\ \A l \in Locations : ToPlace(line, l) \in Int
  BY <1>1 DEF ToTotal, ToPlace
<1>3. r.total \in [Items -> Int] /\ r.placed \in [Items -> [Locations -> Int]]
  BY DEF Requests
<1> HIDE DEF i
<1>4. row \in [Locations -> Int] /\ \A l \in Locations : row[l] = r.placed[i][l] + ToPlace(line, l)
  BY <1>1, <1>2, <1>3
<1> HIDE DEF row
<1>5. /\ sum \in [Items -> Int] /\ sum[i] = r.total[i] + ToTotal(line)
      /\ \A j \in Items \ {i} : sum[j] = r.total[j]
  BY <1>1, <1>2, <1>3
<1>6. /\ places \in [Items -> [Locations -> Int]] /\ places[i] = row
      /\ \A j \in Items \ {i} : places[j] = r.placed[j]
  BY <1>1, <1>3, <1>4
<1>7. SumsWith(r, line) = sum /\ PlacesWith(r, line) = places
  BY Zenon DEF SumsWith, PlacesWith, i, row
<1> HIDE DEF sum, places
<1> QED BY <1>2, <1>4, <1>5, <1>6, <1>7 DEF i

LEMMA WriteKeepsLedger ==
  ASSUME Inv, LedgerInv, NEW s \in Sessions, Write(s)
  PROVE  LedgerInv'
<1> DEFINE line == Current(s)
           i == line.item
           after == IF tx[s].kind = "return" THEN tx[s].before - line.qty
                                             ELSE Total(s, i) + ToTotal(line)
           sum == [tx[s].total EXCEPT ![i] = tx[s].total[i] + ToTotal(line)]
           places == [tx[s].placed EXCEPT ![i] =
                        [l \in Locations |-> tx[s].placed[i][l] + ToPlace(line, l)]]
           rung == tx[s].rung \cup (IF Rings(s, i, after) THEN {i} ELSE {})
           at == tx[s].at + 1
           stage == Then(s)
<1>0. PICK t : t = [tx[s] EXCEPT !.total = sum, !.placed = places, !.rung = rung, !.at = at,
                               !.stage = stage]
  OBVIOUS
<1>1. tx' = [tx EXCEPT ![s] = t] /\ UNCHANGED <<ledger, documents, begun, history>>
  BY <1>0, Zenon DEF Write
<1> PICK r : r = tx[s] OBVIOUS
<1>2. /\ r \in Requests /\ IsRequest(r) /\ r.stage = "write" /\ Sound(r) /\ begun \in 0 .. MaxBegun
      /\ r.at <= Len(r.lines)
  BY RequestOf DEF Write
<1>3. /\ Asked(r.kind, r.lines) /\ Rowed(r) /\ Wrote(r) /\ Checked(r) /\ Rang(r)
  BY <1>2 DEF Sound
<1>4. /\ line = r.lines[r.at] /\ r.at \in DOMAIN r.lines /\ line \in Line
      /\ WroteNone(r, i) /\ i \in Items /\ Suits(r.kind, line)
      /\ (\A n \in DOMAIN r.lines : n \in Nat)
      /\ (\A n \in DOMAIN r.lines : n # r.at => r.lines[n].item # i)
  BY <1>2, CurrentLine, NotYetWritten
<1>5. /\ sum \in [Items -> Int] /\ places \in [Items -> [Locations -> Int]]
      /\ sum[i] = r.total[i] + ToTotal(line)
      /\ (\A l \in Locations : places[i][l] = r.placed[i][l] + ToPlace(line, l))
      /\ (\A j \in Items \ {i} : sum[j] = r.total[j] /\ places[j] = r.placed[j])
      /\ ToTotal(line) \in Int /\ (\A l \in Locations : ToPlace(line, l) \in Int)
  <2>1. sum = SumsWith(r, line) /\ places = PlacesWith(r, line)
    BY Zenon DEF SumsWith, PlacesWith
  <2>2. /\ SumsWith(r, line) \in [Items -> Int]
        /\ PlacesWith(r, line) \in [Items -> [Locations -> Int]]
        /\ SumsWith(r, line)[i] = r.total[i] + ToTotal(line)
        /\ \A l \in Locations : PlacesWith(r, line)[i][l] = r.placed[i][l] + ToPlace(line, l)
        /\ \A j \in Items \ {i} :
             SumsWith(r, line)[j] = r.total[j] /\ PlacesWith(r, line)[j] = r.placed[j]
        /\ ToTotal(line) \in Int /\ \A l \in Locations : ToPlace(line, l) \in Int
    <3> HIDE DEF line, sum, places
    <3> QED BY ONLY <1>2, <1>4, WrittenLine DEF i
  <2> HIDE DEF line, i, sum, places
  <2> QED BY ONLY <2>1, <2>2
<1>6. /\ sum[i] = ToTotal(line) /\ (\A l \in Locations : places[i][l] = ToPlace(line, l))
      /\ r.total[i] = 0 /\ i \notin r.rung
  <2>1. r.total[i] = 0 /\ i \notin r.rung /\ \A l \in Locations : r.placed[i][l] = 0
    BY <1>4 DEF WroteNone
  <2> HIDE DEF line, i, sum, places
  <2> QED BY <1>5, <2>1
<1>7. at \in Nat \ {0} /\ at = r.at + 1 /\ stage \in {"lock", "commit"} /\ r.at \in Nat \ {0}
      /\ (stage = "lock" => at <= Len(r.lines)) /\ Len(r.lines) \in Nat
      /\ (stage = "commit" => at > Len(r.lines))
  <2>1. r.at \in Nat \ {0} /\ r.lines \in Seq(Line)
    BY <1>2 DEF Requests
  <2>2. Len(r.lines) \in Nat
    BY <2>1
  <2> QED BY <2>1, <2>2 DEF Then
<1>8. \A j \in Items \ {i} : j \in rung <=> j \in r.rung
  OBVIOUS
<1>9. rung \subseteq Items
  <2>1. r.rung \subseteq Items
    BY <1>2 DEF Requests
  <2> HIDE DEF i, line, after
  <2> QED BY <1>4, <2>1
<1>10. i \in rung <=> Crosses(i, total[i], total[i] + sum[i])
  <2>1. r.before = total[i] /\ total[i] \in Int
    <3>1. total \in [Items -> Int]
      BY DEF LedgerInv, TypeOK
    <3>2. r.before = total[r.lines[r.at].item]
      BY <1>2, <1>3, <1>4 DEF Rang
    <3> HIDE DEF i, line
    <3> QED BY <1>4, <3>1, <3>2 DEF i
  <2>2. after = total[i] + ToTotal(line)
    <3>1. CASE r.kind = "return"
      <4>1. ToTotal(line) = -line.qty /\ line.qty \in Nat
        <5> HIDE DEF line
        <5> QED BY <1>4, <3>1 DEF Suits, ToTotal, Line
      <4> HIDE DEF i, line
      <4> QED BY <2>1, <3>1, <4>1
    <3>2. CASE r.kind # "return"
      <4>1. Total(s, i) = total[i] + r.total[i]
        BY DEF Total
      <4> HIDE DEF i, line
      <4> QED BY <1>6, <2>1, <3>2, <4>1
    <3> QED BY <3>1, <3>2
  <2>3. Rings(s, i, after) <=> r.kind # "reserve" /\ Crosses(i, total[i], after)
    <3> HIDE DEF i, after
    <3> QED BY <2>1 DEF Rings
  <2>4. r.kind = "reserve" => ~Crosses(i, total[i], after)
    <3> SUFFICES ASSUME r.kind = "reserve" PROVE ~Crosses(i, total[i], after)
      OBVIOUS
    <3>1. ToTotal(line) = 0
      <4> HIDE DEF line
      <4> QED BY <1>4 DEF Suits, ToTotal
    <3>2. Level[i] \in Int
      <4> HIDE DEF i
      <4> QED BY <1>4, StockConstants
    <3> HIDE DEF i, after, line
    <3> QED BY <2>1, <2>2, <3>1, <3>2 DEF Crosses
  <2> HIDE DEF i, after, line, sum
  <2> QED BY <1>6, <2>2, <2>3, <2>4
<1> HIDE DEF line, i, sum, places, rung, at, stage, after
<1>11. t \in Requests
  <2>1. stage \in Stages
    BY <1>7 DEF Stages
  <2>2. t = [r EXCEPT !.total = sum, !.placed = places, !.rung = rung, !.at = at, !.stage = stage]
    BY <1>0
  <2> HIDE DEF Line
  <2> QED BY ONLY <1>2, <1>5, <1>7, <1>9, <2>1, <2>2 DEF Requests
<1>12. /\ t.kind = r.kind /\ t.stage = stage /\ t.lines = r.lines /\ t.at = r.at + 1
       /\ t.has = r.has /\ t.total = sum /\ t.placed = places
       /\ t.short = r.short /\ t.rung = rung
  <2>1. t.at = at /\ at = r.at + 1
    BY <1>0, <1>2, <1>7, SMT DEF IsRequest, Fields
  <2> QED BY <1>0, <1>2, <2>1, SMT DEF IsRequest, Fields
<1>13. Standing(t) /\ Asked(t.kind, t.lines)
  BY <1>3, <1>7, <1>12 DEF Standing
<1>14. ASSUME NEW n \in DOMAIN r.lines
       PROVE  /\ Locked(t, n) <=> Locked(r, n)
              /\ Passed(t, n) <=> Passed(r, n)
              /\ n < t.at <=> (n < r.at \/ n = r.at)
  <2>1. n < r.at + 1 <=> (n < r.at \/ n = r.at)
    <3>1. n \in Nat /\ r.at \in Nat
      BY <1>4, <1>7
    <3> QED BY ONLY <3>1
  <2> QED BY <1>2, <1>7, <1>12, <2>1 DEF Locked, Passed
<1>15. Rowed(t)
  BY <1>3, <1>12, <1>14 DEF Rowed
<1>16. Wrote(t)
  <2>1. ASSUME NEW n \in DOMAIN r.lines, n < t.at PROVE WroteLine(t, r.lines[n])
    <3>1. CASE n = r.at
      BY <1>4, <1>6, <1>12, <3>1 DEF WroteLine, i
    <3>2. CASE n # r.at
      <4>1. n < r.at /\ r.lines[n].item \in Items \ {i}
        <5>1. r.lines[n] \in Line
          BY <1>3 DEF Asked
        <5> QED BY <1>4, <1>14, <2>1, <3>2, <5>1 DEF Line
      <4>2. WroteLine(r, r.lines[n])
        BY <1>3, <4>1 DEF Wrote
      <4> QED BY <1>5, <1>12, <4>1, <4>2 DEF WroteLine
    <3> QED BY <3>1, <3>2
  <2>2. ASSUME NEW j \in Items, \A n \in DOMAIN r.lines : n < t.at => r.lines[n].item # j
        PROVE  WroteNone(t, j)
    <3>1. j # i
      BY <1>4, <1>14, <2>2 DEF i
    <3>2. WroteNone(r, j)
      BY <1>3, <1>14, <2>2 DEF Wrote
    <3> QED BY <1>5, <1>8, <1>12, <3>1, <3>2 DEF WroteNone
  <2> QED BY <1>3, <1>12, <2>1, <2>2 DEF Wrote
<1>17. Checked(t)
  BY <1>3, <1>12, <1>14 DEF Checked, Fits
<1>18. Rang(t)
  <2>1. ASSUME NEW j \in Items
        PROVE  j \in t.rung <=> Crosses(j, total[j], total[j] + t.total[j])
    <3>1. CASE j = i
      BY <1>10, <1>12, <2>1, <3>1
    <3>2. CASE j # i
      BY <1>3, <1>5, <1>8, <1>12, <2>1, <3>2 DEF Rang
    <3> QED BY <3>1, <3>2
  <2> QED BY <1>7, <1>12, <2>1 DEF Rang
<1>19. Sound(t)
  BY <1>13, <1>15, <1>16, <1>17, <1>18 DEF Sound
<1>20. begun' \in 0 .. MaxBegun
  BY <1>1, <1>2
<1> QED BY <1>1, <1>11, <1>19, <1>20, StatementKeeps

\* What a commit does to a place: no more goes than was found there, unless
\* someone may overdraw it.
LEMMA CommittedPlace ==
  ASSUME LedgerInv, NEW r \in Requests, Sound(r), r.stage = "commit",
         NEW i \in Items, NEW l \in Locations
  PROVE  /\ r.placed[i][l] \in Int /\ placed[i][l] \in Int /\ Promised(held, i, l) \in Nat
         /\ \/ r.placed[i][l] >= 0
            \/ <<i, l>> \in r.short
            \/ placed[i][l] + r.placed[i][l] >= Promised(held, i, l)
            \/ r.kind = "approve" /\ placed[i][l] + r.placed[i][l] >= 0
         /\ r.kind = "reserve" => r.placed[i][l] = 0
<1> PICK p, d, q : p = placed[i][l] /\ d = r.placed[i][l] /\ q = Promised(held, i, l)
  OBVIOUS
<1>1. p \in Int /\ d \in Int /\ q \in Nat
  <2>1. /\ placed \in [Items -> [Locations -> Int]] /\ held \subseteq Reservations
        /\ IsFiniteSet(held)
    BY DEF LedgerInv, TypeOK
  <2>2. r.placed \in [Items -> [Locations -> Int]]
    BY DEF Requests
  <2>3. q \in Nat
    BY <2>1, PromisedNow
  <2>4. p \in Int /\ d \in Int
    BY ONLY <2>1, <2>2, i \in Items, l \in Locations, p = placed[i][l], d = r.placed[i][l]
  <2> QED BY <2>3, <2>4
<1>2. Asked(r.kind, r.lines) /\ Wrote(r) /\ Checked(r)
  BY DEF Sound
<1>3. CASE \E n \in DOMAIN r.lines : n < r.at /\ r.lines[n].item = i
  <2> PICK n \in DOMAIN r.lines : n < r.at /\ r.lines[n].item = i
    BY <1>3
  <2> PICK line : line = r.lines[n] OBVIOUS
  <2>1. line \in Line /\ Suits(r.kind, line)
    BY <1>2 DEF Asked
  <2>2. line.qty \in Nat \ {0}
    BY <2>1 DEF Line
  <2>3. d = ToPlace(line, l)
    BY <1>2 DEF Wrote, WroteLine
  <2>4. Fits(r, line)
    BY <1>2 DEF Checked, Passed
  <2>5. line.effect = "HOLD" <=> r.kind = "reserve"
    BY <2>1 DEF Suits
  <2>6. CASE line.effect = "HOLD"
    BY <1>1, <2>3, <2>6 DEF ToPlace
  <2>7. CASE line.effect # "HOLD" /\ line.to = l
    BY <1>1, <2>2, <2>3, <2>5, <2>7 DEF ToPlace
  <2>8. CASE line.effect # "HOLD" /\ line.to # l /\ line.from = l
    <3>1. d = -line.qty
      BY <2>3, <2>8 DEF ToPlace
    <3>2. l # Nowhere
      BY StockConstants
    <3>3. IF r.kind = "approve" THEN line.qty <= p
          ELSE <<i, l>> \in r.short \/ line.qty <= p - q
      BY <2>4, <2>8, <3>2 DEF Fits
    <3> QED BY <1>1, <2>2, <2>5, <2>8, <3>1, <3>3
  <2>9. CASE line.effect # "HOLD" /\ line.to # l /\ line.from # l
    BY <1>1, <2>3, <2>5, <2>9 DEF ToPlace
  <2> QED BY <2>6, <2>7, <2>8, <2>9
<1>4. CASE ~ \E n \in DOMAIN r.lines : n < r.at /\ r.lines[n].item = i
  <2>1. WroteNone(r, i)
    BY <1>2, <1>4 DEF Wrote
  <2>2. d = 0
    BY <2>1 DEF WroteNone
  <2> QED BY <1>1, <2>2
<1> QED BY <1>3, <1>4

\* A committed transaction moves the items it holds, and no others.
LEMMA CommitsOwnItems ==
  ASSUME NEW r \in Requests, Sound(r), r.stage = "commit", NEW i \in Items,
         Row("item", i) \notin r.has
  PROVE  r.total[i] = 0 /\ \A l \in Locations : r.placed[i][l] = 0
<1>1. Rowed(r) /\ Wrote(r)
  BY DEF Sound
<1>2. \A n \in DOMAIN r.lines : n < r.at => r.lines[n].item # i
  BY <1>1 DEF Rowed, Locked
<1> QED BY <1>1, <1>2 DEF Wrote, WroteNone

\* What a reservation adds to those that hold.
HoldOf(r) == [id |-> r.no, item |-> r.lines[1].item, at |-> r.lines[1].from, qty |-> r.lines[1].qty]

\* What it promises was free, and it holds the item.
LEMMA CommittedHold ==
  ASSUME NEW r \in Requests, Sound(r), r.stage = "commit", r.kind = "reserve"
  PROVE  /\ HoldOf(r) \in Reservations
         /\ Row("item", HoldOf(r).item) \in r.has
         /\ HoldOf(r).qty <= placed[HoldOf(r).item][HoldOf(r).at]
                               - Promised(held, HoldOf(r).item, HoldOf(r).at)
<1>1. Asked(r.kind, r.lines) /\ Standing(r) /\ Wrote(r) /\ Checked(r) /\ Rowed(r)
  BY DEF Sound
<1>2. 1 \in DOMAIN r.lines /\ 1 < r.at /\ r.no \in Nat
  <2>1. r.lines \in Seq(Line) /\ Len(r.lines) = 1 /\ r.at > Len(r.lines)
    BY <1>1 DEF Asked, Standing
  <2>2. r.no \in Nat
    BY StockConstants DEF Requests
  <2> QED BY <2>1, <2>2
<1> PICK line : line = r.lines[1] OBVIOUS
<1>3. line \in Line /\ Suits("reserve", line)
  BY <1>1, <1>2 DEF Asked
<1>4. line.item \in Items /\ line.from \in Locations /\ line.qty \in Quantities
      /\ line.from # Nowhere
  BY <1>3, StockConstants DEF Line, Suits
<1> PICK h : h = HoldOf(r) OBVIOUS
<1>5. h = [id |-> r.no, item |-> line.item, at |-> line.from, qty |-> line.qty]
  BY DEF HoldOf
<1>6. h \in Reservations /\ h.item = line.item /\ h.at = line.from /\ h.qty = line.qty
  BY <1>2, <1>4, <1>5 DEF Reservations
<1>7. Fits(r, line)
  BY <1>1, <1>2 DEF Checked, Passed
<1>8. r.short = {}
  BY <1>1 DEF Wrote
<1>9. line.qty <= placed[line.item][line.from] - Promised(held, line.item, line.from)
  BY <1>4, <1>7, <1>8 DEF Fits
<1>10. Row("item", line.item) \in r.has
  BY <1>1, <1>2, <1>4 DEF Rowed, Locked
<1> QED BY <1>6, <1>9, <1>10

\* What a commit leaves held: types, and what is promised.
LEMMA CommittedHoldings ==
  ASSUME LedgerInv, NEW s \in Sessions, Commit(s)
  PROVE  /\ held' \subseteq Reservations /\ IsFiniteSet(held')
         /\ tx[s].kind # "reserve" => held' = held
         /\ \A i \in Items, l \in Locations :
              /\ Promised(held', i, l) \in Nat /\ Promised(held, i, l) \in Nat
              /\ Row("item", i) \notin tx[s].has => Promised(held', i, l) <= Promised(held, i, l)
              /\ tx[s].kind = "reserve" =>
                   \/ Promised(held', i, l) <= Promised(held, i, l)
                   \/ Promised(held', i, l) <= placed[i][l]
<1> PICK r : r = tx[s] OBVIOUS
<1>1. r \in Requests /\ Sound(r) /\ r.stage = "commit"
  BY RequestOf DEF Commit
<1>2. held \in SUBSET Reservations /\ IsFiniteSet(held)
  BY DEF LedgerInv, TypeOK
<1>3. held' = IF r.kind # "reserve" THEN held ELSE held \cup {HoldOf(r)}
  BY DEF Commit, Holds, HoldOf
<1> PICK K : K = held' OBVIOUS
<1>4. CASE r.kind # "reserve"
  <2>1. K = held
    BY <1>3, <1>4
  <2>2. \A i, l : Promised(K, i, l) \in Nat /\ Promised(K, i, l) <= Promised(K, i, l)
    <3>1. \A i, l : Promised(held, i, l) \in Nat
      BY <1>2, PromisedType
    <3> QED BY <2>1, <3>1
  <2> QED BY <1>2, <1>4, <2>1, <2>2
<1>5. CASE r.kind = "reserve"
  <2> PICK h : h = HoldOf(r) OBVIOUS
  <2>1. /\ h \in Reservations /\ Row("item", h.item) \in r.has
        /\ h.qty <= placed[h.item][h.at] - Promised(held, h.item, h.at)
    BY <1>1, <1>5, CommittedHold
  <2>2. K = held \cup {h}
    BY <1>3, <1>5
  <2>3. K \in SUBSET Reservations /\ IsFiniteSet(K)
    BY <1>2, <2>1, <2>2, FS_AddElement
  <2>4. ASSUME NEW i \in Items, NEW l \in Locations
        PROVE  /\ Promised(K, i, l) \in Nat /\ Promised(held, i, l) \in Nat
               /\ Row("item", i) \notin r.has => Promised(K, i, l) <= Promised(held, i, l)
               /\ \/ Promised(K, i, l) <= Promised(held, i, l)
                  \/ Promised(K, i, l) <= placed[i][l]
    <3> PICK a, b, p : a = Promised(K, i, l) /\ b = Promised(held, i, l) /\ p = placed[i][l]
      OBVIOUS
    <3>1. a \in Nat /\ b \in Nat /\ p \in Int
      <4>1. a \in Nat /\ b \in Nat
        BY <1>2, <2>3, PromisedType
      <4>2. placed \in [Items -> [Locations -> Int]]
        BY DEF LedgerInv, TypeOK
      <4> QED BY <4>1, <4>2
    <3>2. a <= b + (IF h.item = i /\ h.at = l THEN h.qty ELSE 0)
      <4>1. Promised(held \cup {h}, i, l)
              <= Promised(held, i, l) + (IF h.item = i /\ h.at = l THEN h.qty ELSE 0)
        BY ONLY <1>2, <2>1, PromisedWith
      <4> QED BY <2>2, <4>1
    <3>3. CASE h.item = i /\ h.at = l
      <4>1. h.qty <= p - b /\ h.qty \in Nat /\ Row("item", i) \in r.has
        <5>1. h.qty \in Nat
          BY <2>1, StockConstants DEF Reservations
        <5> QED BY <2>1, <3>3, <5>1
      <4>2. a <= p
        BY ONLY <3>1, <3>2, <3>3, <4>1
      <4> QED BY <3>1, <4>1, <4>2
    <3>4. CASE ~(h.item = i /\ h.at = l)
      <4>1. a <= b
        BY ONLY <3>1, <3>2, <3>4
      <4> QED BY <3>1, <4>1
    <3> QED BY <3>3, <3>4
  <2> QED BY <1>5, <2>3, <2>4
<1> QED BY <1>4, <1>5

\* The sums after a commit.
LEMMA CommittedSums ==
  ASSUME LedgerInv, NEW s \in Sessions, Commit(s)
  PROVE  /\ total' \in [Items -> Int] /\ placed' \in [Items -> [Locations -> Int]]
         /\ \A i \in Items : total'[i] = total[i] + tx[s].total[i]
         /\ \A i \in Items, l \in Locations : placed'[i][l] = placed[i][l] + tx[s].placed[i][l]
         /\ \A i \in Items : Row("item", i) \notin tx[s].has =>
              placed'[i] = placed[i] /\ total'[i] = total[i]
<1> PICK r : r = tx[s] OBVIOUS
<1>1. r \in Requests /\ Sound(r) /\ r.stage = "commit"
  BY RequestOf DEF Commit
<1>2. /\ total \in [Items -> Int] /\ placed \in [Items -> [Locations -> Int]]
      /\ r.total \in [Items -> Int] /\ r.placed \in [Items -> [Locations -> Int]]
  BY <1>1 DEF LedgerInv, TypeOK, Requests
<1>3. /\ total' = [i \in Items |-> total[i] + r.total[i]]
      /\ placed' = [i \in Items |-> [l \in Locations |-> placed[i][l] + r.placed[i][l]]]
  BY DEF Commit, Total, Placed
<1>4. \A i \in Items : total'[i] = total[i] + r.total[i]
  BY ONLY <1>3
<1>5. \A i \in Items : placed'[i] = [l \in Locations |-> placed[i][l] + r.placed[i][l]]
  BY ONLY <1>3
<1>6. \A i \in Items : /\ placed[i] \in [Locations -> Int] /\ r.placed[i] \in [Locations -> Int]
                       /\ total[i] \in Int /\ r.total[i] \in Int
  BY ONLY <1>2
<1>7. \A i \in Items, l \in Locations : placed'[i][l] = placed[i][l] + r.placed[i][l]
  BY ONLY <1>5
<1>8. total' \in [Items -> Int] /\ placed' \in [Items -> [Locations -> Int]]
  <2>1. total' \in [Items -> Int]
    BY ONLY <1>3, <1>6
  <2>2. ASSUME NEW i \in Items
        PROVE  [l \in Locations |-> placed[i][l] + r.placed[i][l]] \in [Locations -> Int]
    BY ONLY <1>6, i \in Items
  <2>3. placed' \in [Items -> [Locations -> Int]]
    BY ONLY <1>3, <2>2
  <2> QED BY <2>1, <2>3
<1>9. ASSUME NEW i \in Items, Row("item", i) \notin r.has
      PROVE  placed'[i] = placed[i] /\ total'[i] = total[i]
  <2>1. r.total[i] = 0 /\ \A l \in Locations : r.placed[i][l] = 0
    BY <1>1, <1>9, CommitsOwnItems
  <2>2. placed'[i] \in [Locations -> Int] /\ placed[i] \in [Locations -> Int]
    BY ONLY <1>2, <1>8, i \in Items
  <2>3. ASSUME NEW l \in Locations PROVE placed'[i][l] = placed[i][l]
    <3>1. /\ placed[i][l] \in Int /\ r.placed[i][l] = 0
          /\ placed'[i][l] = placed[i][l] + r.placed[i][l]
      BY <1>7, <2>1, <2>2
    <3> QED BY ONLY <3>1
  <2>4. placed'[i] = placed[i]
    BY ONLY <2>2, <2>3
  <2>5. total'[i] = total[i]
    BY ONLY <1>4, <1>6, <2>1, i \in Items
  <2> QED BY <2>4, <2>5
<1> QED BY <1>4, <1>7, <1>8, <1>9

\* A commit: the others hold other items, and what they found stands.
LEMMA CommitKeepsLedger ==
  ASSUME Inv, LedgerInv, NEW s \in Sessions, Commit(s)
  PROVE  LedgerInv'
<1> PICK r : r = tx[s] OBVIOUS
<1>1. r \in Requests /\ Sound(r) /\ r.stage = "commit" /\ begun \in 0 .. MaxBegun
  BY RequestOf DEF Commit
<1>2. /\ TypeOK /\ IsFiniteSet(held) /\ NotOverdrawn /\ PromisedOnce
      /\ \A u \in Sessions : Sound(tx[u])
  BY DEF LedgerInv
<1>3. Inv'
  BY CommitKeeps
<1>4. /\ tx' = [tx EXCEPT ![s] = Idle] /\ begun' = begun /\ overridden' = overridden \cup r.short
      /\ cut' = IF r.kind # "approve" THEN cut
                ELSE cut \cup {p \in Items \X Locations : r.placed[p[1]][p[2]] < 0}
      /\ counts' = IF r.kind = "approve" THEN [counts EXCEPT ![r.doc].status = "APPROVED"]
                                         ELSE counts
  BY DEF Commit
<1>5. tx' \in [Sessions -> Requests] /\ tx'[s] = Idle /\ \A u \in Sessions \ {s} : tx'[u] = tx[u]
  BY <1>2, <1>4, IdleType DEF TypeOK
<1>6. /\ total' \in [Items -> Int] /\ placed' \in [Items -> [Locations -> Int]]
      /\ \A i \in Items, l \in Locations : placed'[i][l] = placed[i][l] + r.placed[i][l]
      /\ \A i \in Items : Row("item", i) \notin r.has =>
           placed'[i] = placed[i] /\ total'[i] = total[i]
  BY CommittedSums
<1>7. /\ held' \subseteq Reservations /\ IsFiniteSet(held') /\ (r.kind # "reserve" => held' = held)
      /\ \A i \in Items, l \in Locations :
           /\ Promised(held', i, l) \in Nat /\ Promised(held, i, l) \in Nat
           /\ Row("item", i) \notin r.has => Promised(held', i, l) <= Promised(held, i, l)
           /\ r.kind = "reserve" => \/ Promised(held', i, l) <= Promised(held, i, l)
                                    \/ Promised(held', i, l) <= placed[i][l]
  BY CommittedHoldings
<1>8. ASSUME NEW u \in Sessions PROVE Sound(tx[u])'
  <2>1. CASE u = s
    BY <1>5, <2>1, IdleFields DEF Sound
  <2>2. CASE u # s
    <3> PICK t : t = tx[u] OBVIOUS
    <3>1. t \in Requests /\ Sound(t)
      BY RequestOf
    <3>2. r.has \cap t.has = {}
      BY <2>2 DEF Inv, Exclusive
    <3>3. \A i \in Items : Row("item", i) \in t.has => Row("item", i) \notin r.has
      BY <3>2
    <3>4. \A i \in Items : Row("item", i) \in t.has =>
            placed'[i] = placed[i] /\ total'[i] = total[i]
      BY ONLY <1>6, <3>3
    <3>5. /\ \A i \in Items, l \in Locations :
               Promised(held, i, l) \in Int /\ Promised(held', i, l) \in Int
          /\ \A i \in Items, l \in Locations :
               Row("item", i) \in t.has => Promised(held', i, l) <= Promised(held, i, l)
      <4>1. \A i \in Items, l \in Locations :
               Row("item", i) \in t.has => Promised(held', i, l) <= Promised(held, i, l)
        BY ONLY <1>7, <3>3
      <4>2. \A i \in Items, l \in Locations :
               Promised(held, i, l) \in Int /\ Promised(held', i, l) \in Int
        BY ONLY <1>7
      <4> QED BY <4>1, <4>2
    <3>6. placed \in [Items -> [Locations -> Int]] /\ total \in [Items -> Int]
      BY <1>2 DEF TypeOK
    <3>7. Sound(t)'
      BY <1>6, <3>1, <3>4, <3>5, <3>6, FindingsStand
    <3>8. tx'[u] = t
      BY <1>5, <2>2
    <3> QED BY <3>7, <3>8
  <2> QED BY <2>1, <2>2
<1>9. /\ overridden' \subseteq Items \X Locations /\ cut' \subseteq Items \X Locations
      /\ overridden \subseteq overridden' /\ cut \subseteq cut' /\ r.short \subseteq overridden'
      /\ \A i \in Items, l \in Locations :
           r.kind = "approve" /\ r.placed[i][l] < 0 => <<i, l>> \in cut'
  <2>1. r.short \subseteq Items \X Locations
    BY <1>1 DEF Requests
  <2>2. overridden \subseteq Items \X Locations /\ cut \subseteq Items \X Locations
    BY <1>2 DEF TypeOK
  <2> QED BY <1>4, <2>1, <2>2
<1>10. counts' \in [Counts -> Tallies]
  <2>1. counts \in [Counts -> Tallies]
    BY <1>2 DEF TypeOK
  <2>2. CASE r.kind = "approve"
    <3>1. r.doc \in Counts
      <4>1. ApproveSound(r)
        BY DEF Inv
      <4> QED BY <1>1, <2>2, <4>1 DEF ApproveSound
    <3> PICK c : c = [counts[r.doc] EXCEPT !.status = "APPROVED"] OBVIOUS
    <3>2. c \in Tallies
      <4> PICK b \in Tallies : b = counts[r.doc]
        BY <2>1, <3>1
      <4>1. c = [b EXCEPT !.status = "APPROVED"]
        OBVIOUS
      <4> QED BY ONLY <4>1, b \in Tallies DEF Tallies
    <3>3. counts' = [counts EXCEPT ![r.doc] = c]
      BY <1>4, <2>2
    <3> QED BY ONLY <2>1, <3>2, <3>3
  <2>3. CASE r.kind # "approve"
    BY <1>4, <2>1, <2>3
  <2> QED BY <2>2, <2>3
<1>11. TypeOK'
  <2>1. grns' \in [Grns -> [Items -> Int]] /\ adjusted' \in [Counts -> Nat]
    BY <1>3 DEF Inv, Shape
  <2>2. ASSUME NEW u \in Sessions, tx'[u].stage \in {"lock", "look", "write"}
        PROVE  tx'[u].at <= Len(tx'[u].lines)
    <3>1. u # s
      BY <1>5, <2>2, IdleFields
    <3> QED BY <1>2, <1>5, <2>2, <3>1 DEF TypeOK
  <2>3. entries' = entries
    BY DEF Commit
  <2> QED BY <1>1, <1>2, <1>4, <1>5, <1>6, <1>7, <1>9, <1>10, <2>1, <2>2, <2>3 DEF TypeOK
<1>12. ASSUME NEW i \in Items, NEW l \in Locations
       PROVE  /\ placed'[i][l] >= 0 \/ <<i, l>> \in overridden'
              /\ Promised(held', i, l) <= placed'[i][l] \/ <<i, l>> \in overridden' \cup cut'
  <2> PICK p, d, n, a, b : /\ p = placed[i][l] /\ d = r.placed[i][l] /\ n = placed'[i][l]
                           /\ a = Promised(held, i, l) /\ b = Promised(held', i, l)
    OBVIOUS
  <2>1. p \in Int /\ d \in Int /\ a \in Nat /\ b \in Nat /\ n = p + d
    BY <1>1, <1>6, <1>7, CommittedPlace
  <2>2. /\ d >= 0 \/ <<i, l>> \in r.short \/ p + d >= a \/ (r.kind = "approve" /\ p + d >= 0)
        /\ r.kind = "reserve" => d = 0
    BY <1>1, CommittedPlace
  <2>3. /\ p >= 0 \/ <<i, l>> \in overridden
        /\ a <= p \/ <<i, l>> \in overridden \cup cut
    <3>1. Reserved(i, l) <= placed[i][l] \/ <<i, l>> \in overridden \cup cut
      BY <1>2 DEF PromisedOnce
    <3> QED BY <1>2, <3>1 DEF NotOverdrawn, Reserved
  <2>4. /\ <<i, l>> \in overridden \cup r.short => <<i, l>> \in overridden'
        /\ <<i, l>> \in cut => <<i, l>> \in cut'
        /\ r.kind = "approve" /\ d < 0 => <<i, l>> \in cut'
    BY <1>9
  <2>5. r.kind # "reserve" => a = b
    BY <1>7
  <2>6. r.kind = "reserve" => b <= a \/ b <= p
    BY <1>7
  <2>7. n >= 0 \/ <<i, l>> \in overridden'
    BY ONLY <2>1, <2>2, <2>3, <2>4
  <2>8. b <= n \/ <<i, l>> \in overridden' \/ <<i, l>> \in cut'
    <3>1. CASE r.kind = "reserve"
      BY ONLY <2>1, <2>2, <2>3, <2>4, <2>6, <3>1
    <3>2. CASE r.kind # "reserve"
      BY ONLY <2>1, <2>2, <2>3, <2>4, <2>5, <3>2
    <3> QED BY <3>1, <3>2
  <2> QED BY <2>7, <2>8
<1>13. NotOverdrawn' /\ PromisedOnce'
  <2>1. \A i \in Items, l \in Locations : Reserved(i, l)' = Promised(held', i, l)
    BY DEF Reserved
  <2> QED BY <1>12, <2>1 DEF NotOverdrawn, PromisedOnce
<1> QED BY <1>7, <1>8, <1>11, <1>13 DEF LedgerInv

-----------------------------------------------------------------------------
(* The steps that take no item lock.                                        *)

\* The ledger when only reservations end, and totals change of items that
\* nobody holds.
LEMMA RestKeepsLedger ==
  ASSUME LedgerInv, TypeOK', UNCHANGED <<placed, tx, overridden, cut>>,
         held' \subseteq held,
         \A s \in Sessions, i \in Items : Row("item", i) \in tx[s].has => total'[i] = total[i]
  PROVE  LedgerInv'
<1>1. /\ TypeOK /\ IsFiniteSet(held) /\ NotOverdrawn /\ PromisedOnce
      /\ \A u \in Sessions : Sound(tx[u])
      /\ held \in SUBSET Reservations
      /\ total \in [Items -> Int] /\ placed \in [Items -> [Locations -> Int]]
      /\ total' \in [Items -> Int]
  BY DEF LedgerInv, TypeOK
<1> PICK K : K = held' OBVIOUS
<1>2. K \in SUBSET held /\ IsFiniteSet(K) /\ K \in SUBSET Reservations
  BY <1>1, FS_Subset
<1>3. ASSUME NEW i \in Items, NEW l \in Locations
      PROVE  /\ Promised(held, i, l) \in Int /\ Promised(K, i, l) \in Int
             /\ Promised(K, i, l) <= Promised(held, i, l)
  BY ONLY <1>1, <1>2, PromisedOfFewer, PromisedType
<1>4. ASSUME NEW u \in Sessions PROVE Sound(tx[u])'
  <2> PICK t : t = tx[u] OBVIOUS
  <2>1. t \in Requests /\ Sound(t) /\ tx'[u] = t
    BY RequestOf
  <2>2. /\ \A i \in Items, l \in Locations :
             Promised(held, i, l) \in Int /\ Promised(held', i, l) \in Int
        /\ \A i \in Items, l \in Locations :
             Row("item", i) \in t.has => Promised(held', i, l) <= Promised(held, i, l)
        /\ \A i \in Items : Row("item", i) \in t.has =>
             placed'[i] = placed[i] /\ total'[i] = total[i]
    BY <1>3
  <2>3. Sound(t)'
    BY <1>1, <2>1, <2>2, FindingsStand
  <2> QED BY <2>1, <2>3
<1>5. NotOverdrawn'
  BY <1>1 DEF NotOverdrawn
<1>6. PromisedOnce'
  <2>1. ASSUME NEW i \in Items, NEW l \in Locations
        PROVE  Promised(K, i, l) <= placed[i][l] \/ <<i, l>> \in overridden \cup cut
    <3>1. Promised(held, i, l) <= placed[i][l] \/ <<i, l>> \in overridden \cup cut
      BY <1>1 DEF PromisedOnce, Reserved
    <3>2. placed[i][l] \in Int
      BY <1>1
    <3> QED BY <1>3, <3>1, <3>2
  <2>2. \A i \in Items, l \in Locations : Reserved(i, l)' = Promised(K, i, l)
    BY DEF Reserved
  <2> QED BY <2>1, <2>2 DEF PromisedOnce
<1> QED BY <1>2, <1>4, <1>5, <1>6 DEF LedgerInv

\* A reservation ends.
LEMMA StopHoldingKeepsLedger ==
  ASSUME LedgerInv, NEW h \in held, StopHolding(h)
  PROVE  LedgerInv'
<1>1. /\ held' \subseteq held
      /\ UNCHANGED <<total, placed, grns, counts, adjusted, entries, tx, begun, overridden, cut>>
  BY DEF StopHolding, ledger, history
<1>2. TypeOK'
  BY <1>1 DEF LedgerInv, TypeOK
<1> QED BY <1>1, <1>2, RestKeepsLedger

\* A document's entry moves on.
LEMMA EntryKeepsLedger ==
  ASSUME LedgerInv, NEW d \in Documents, NEW e \in Entries, entries' = [entries EXCEPT ![d] = e],
         UNCHANGED <<total, placed, held, grns, counts, adjusted, tx, begun, overridden, cut>>
  PROVE  LedgerInv'
<1>1. entries' \in [Documents -> Entries]
  BY DEF LedgerInv, TypeOK
<1>2. TypeOK'
  BY <1>1 DEF LedgerInv, TypeOK
<1> QED BY <1>2, RestKeepsLedger

LEMMA NoEntryType == NoEntry \in Entries
<1>1. Nil \in [Items -> Int] /\ <<>> \in Seq(Items)
  BY DEF Nil
<1> QED BY <1>1 DEF NoEntry, Entries

LEMMA EnteredKeepsLedger ==
  ASSUME LedgerInv,
         \/ \E g \in Grns : Receive(g)
         \/ \E c \in Counts : Count(c)
  PROVE  LedgerInv'
<1>a. ASSUME NEW d \in Documents, NEW S \in SUBSET Items, S # {}, NEW order \in SetToSeqs(S),
             NEW stage \in {"look", "write"}, NEW place \in Locations \cup {Nowhere},
             NEW amounts \in [Items -> Nat], Enter(d, stage, order, place, amounts)
      PROVE  LedgerInv'
  <2> PICK e : e = [stage |-> stage, items |-> order, at |-> 1, place |-> place,
                    amounts |-> amounts]
    OBVIOUS
  <2>1. order \in Seq(Items) /\ amounts \in [Items -> Int]
    BY <1>a, Listed
  <2>2. e \in Entries
    BY <2>1 DEF Entries
  <2>3. entries' = [entries EXCEPT ![d] = e]
        /\ UNCHANGED <<total, placed, held, grns, counts, adjusted, tx, begun, overridden, cut>>
    BY <1>a DEF Enter, ledger, history
  <2> QED BY <2>2, <2>3, EntryKeepsLedger
<1>1. CASE \E g \in Grns : Receive(g)
  <2> PICK g \in Grns : Receive(g)
    BY <1>1
  <2> PICK accepted \in Deliveries :
        /\ accepted # Nil
        /\ \E order \in SetToSeqs({i \in Items : accepted[i] > 0}) :
             Enter(Row("grn", g), "write", order, Nowhere, accepted)
    BY DEF Receive
  <2>1. accepted \in [Items -> Nat] /\ Row("grn", g) \in Documents
    BY StockConstants DEF Documents, Row
  <2> PICK S : S = {i \in Items : accepted[i] > 0} OBVIOUS
  <2>2. S \in SUBSET Items /\ S # {}
    <3>1. \A i \in Items : accepted[i] \in Nat
      BY <2>1
    <3>2. S = {} => accepted = Nil
      BY <2>1, <3>1 DEF Nil
    <3> QED BY <3>2
  <2> PICK order \in SetToSeqs(S) : Enter(Row("grn", g), "write", order, Nowhere, accepted)
    OBVIOUS
  <2> QED BY <1>a, <2>1, <2>2
<1>2. CASE \E c \in Counts : Count(c)
  <2> PICK c \in Counts : Count(c)
    BY <1>2
  <2>1. Row("count", c) \in Documents
    BY DEF Documents, Row
  <2> PICK walk \in Walks : \E order \in SetToSeqs(DOMAIN walk.found) :
         Enter(Row("count", c), "look", order, walk.at,
               [i \in Items |-> IF i \in DOMAIN walk.found THEN walk.found[i] ELSE 0])
    BY DEF Count
  <2> PICK amounts : amounts = [i \in Items |-> IF i \in DOMAIN walk.found THEN walk.found[i] ELSE 0]
    OBVIOUS
  <2> PICK order \in SetToSeqs(DOMAIN walk.found) :
         Enter(Row("count", c), "look", order, walk.at, amounts)
    OBVIOUS
  <2>2. /\ DOMAIN walk.found \in SUBSET Items /\ DOMAIN walk.found # {} /\ walk.at \in Locations
        /\ walk.found \in [DOMAIN walk.found -> Nat]
    BY WalksAre
  <2>3. amounts \in [Items -> Nat]
    BY <2>2
  <2> QED BY <1>a, <2>1, <2>2, <2>3
<1> QED BY <1>1, <1>2

\* An entry, as the invariants have it.
LEMMA EntryOf ==
  ASSUME Inv, LedgerInv, NEW d \in Documents, entries[d].stage # "idle"
  PROVE  /\ entries[d] \in Entries /\ EntrySound(d, entries[d])
         /\ entries[d].items \in Seq(Items) /\ entries[d].at \in Nat \ {0}
         /\ entries[d].stage # "commit" => entries[d].at \in DOMAIN entries[d].items
         /\ entries[d].stage # "commit" => Entered(d) \in Items
<1> PICK e : e = entries[d] OBVIOUS
<1>1. e \in Entries /\ EntrySound(d, e)
  BY DEF Inv, LedgerInv, TypeOK
<1>2. /\ e.items \in Seq(Items) /\ e.at \in Nat \ {0}
      /\ e.stage # "commit" => e.at <= Len(e.items)
  BY <1>1 DEF EntrySound
<1>3. e.stage # "commit" => e.at \in DOMAIN e.items
  BY <1>2
<1> QED BY <1>1, <1>2, <1>3 DEF Entered

LEMMA CompareKeepsLedger ==
  ASSUME Inv, LedgerInv, NEW d \in Documents, Compare(d)
  PROVE  LedgerInv'
<1> PICK r : r = entries[d] OBVIOUS
<1> PICK i, l : i = Entered(d) /\ l = r.place OBVIOUS
<1>1. r \in Entries /\ r.stage = "look" /\ EntrySound(d, r) /\ i \in Items
  BY EntryOf DEF Compare
<1>2. l \in Locations
  <2>1. d[1] # "grn"
    BY <1>1 DEF EntrySound, Covers
  <2> QED BY <1>1, <2>1, DocumentIs DEF EntrySound
<1>3. r.amounts \in [Items -> Int] /\ placed[i][l] \in Int
  <2>1. r.amounts \in [Items -> Int]
    BY <1>1 DEF Entries
  <2>2. placed \in [Items -> [Locations -> Int]]
    BY DEF LedgerInv, TypeOK
  <2> QED BY <1>1, <1>2, <2>1, <2>2
<1> PICK amounts : amounts = [r.amounts EXCEPT ![i] = r.amounts[i] - placed[i][l]] OBVIOUS
<1>4. amounts \in [Items -> Int]
  <2> PICK v : v = r.amounts[i] - placed[i][l] OBVIOUS
  <2>1. v \in Int
    <3>1. r.amounts[i] \in Int
      BY <1>1, <1>3
    <3> QED BY <1>3, <3>1
  <2> QED BY ONLY <1>3, <2>1, v = r.amounts[i] - placed[i][l],
             amounts = [r.amounts EXCEPT ![i] = r.amounts[i] - placed[i][l]]
<1> PICK e : e = [r EXCEPT !.stage = "write", !.amounts = amounts] OBVIOUS
<1>5. e \in Entries
  BY ONLY <1>1, <1>4, e = [r EXCEPT !.stage = "write", !.amounts = amounts] DEF Entries
<1>6. entries' = [entries EXCEPT ![d] = e]
      /\ UNCHANGED <<total, placed, held, grns, counts, adjusted, tx, begun, overridden, cut>>
  BY DEF Compare, ledger, history
<1> QED BY <1>5, <1>6, EntryKeepsLedger

LEMMA InsertKeepsLedger ==
  ASSUME Inv, LedgerInv, NEW d \in Documents, Insert(d)
  PROVE  LedgerInv'
<1> PICK r : r = entries[d] OBVIOUS
<1>1. r \in Entries /\ r.at \in Nat \ {0}
  BY EntryOf DEF Insert
<1> PICK at, stage :
      /\ at = r.at + 1
      /\ stage = IF r.at = Len(r.items) THEN "commit" ELSE IF d[1] = "count" THEN "look" ELSE "write"
  OBVIOUS
<1>2. at \in Nat \ {0} /\ stage \in {"idle", "look", "write", "commit"}
  BY <1>1
<1> PICK e : e = [r EXCEPT !.at = at, !.stage = stage] OBVIOUS
<1>3. e \in Entries
  BY ONLY <1>1, <1>2, e = [r EXCEPT !.at = at, !.stage = stage] DEF Entries
<1>4. entries' = [entries EXCEPT ![d] = e]
      /\ UNCHANGED <<total, placed, held, grns, counts, adjusted, tx, begun, overridden, cut>>
  BY DEF Insert, ledger, history
<1> QED BY <1>3, <1>4, EntryKeepsLedger

LEMMA DropKeepsLedger ==
  ASSUME LedgerInv, NEW d \in Documents, Drop(d)
  PROVE  LedgerInv'
<1>1. entries' = [entries EXCEPT ![d] = NoEntry]
      /\ UNCHANGED <<total, placed, held, grns, counts, adjusted, tx, begun, overridden, cut>>
  BY DEF Drop, ledger, history
<1> QED BY <1>1, NoEntryType, EntryKeepsLedger

\* A count is there or rejected: nobody goes by a variance before its lock.
LEMMA CountedKeepsLedger ==
  ASSUME LedgerInv, NEW c \in Counts, Counted(c) \/ Reject(c)
  PROVE  LedgerInv'
<1>1. /\ UNCHANGED <<total, placed, held, grns, adjusted, tx, begun, overridden, cut>>
  BY DEF Counted, Reject, ledger, history
<1>2. counts \in [Counts -> Tallies] /\ entries \in [Documents -> Entries]
  BY DEF LedgerInv, TypeOK
<1>3. counts' \in [Counts -> Tallies] /\ entries' \in [Documents -> Entries]
  <2>1. CASE Counted(c)
    <3> PICK d : d = Row("count", c) OBVIOUS
    <3>1. d \in Documents
      BY DEF Documents, Row
    <3> PICK e \in Entries : e = entries[d]
      BY <1>2, <3>1
    <3> PICK t : t = [status |-> "COUNTED", at |-> e.place, variance |-> e.amounts] OBVIOUS
    <3>2. t \in Tallies
      BY DEF Tallies, Entries
    <3>3. counts' = [counts EXCEPT ![c] = t] /\ entries' = [entries EXCEPT ![d] = NoEntry]
      BY <2>1 DEF Counted
    <3> QED BY ONLY <1>2, <3>2, <3>3, NoEntryType
  <2>2. CASE Reject(c)
    <3> PICK t : t = [counts[c] EXCEPT !.status = "DRAFT"] OBVIOUS
    <3>1. t \in Tallies
      <4> PICK b \in Tallies : b = counts[c]
        BY <1>2
      <4>1. t = [b EXCEPT !.status = "DRAFT"]
        OBVIOUS
      <4> QED BY ONLY <4>1, b \in Tallies DEF Tallies
    <3>2. counts' = [counts EXCEPT ![c] = t] /\ entries' = entries
      BY <2>2 DEF Reject
    <3> QED BY ONLY <1>2, <3>1, <3>2
  <2> QED BY <2>1, <2>2
<1>4. TypeOK'
  BY <1>1, <1>3 DEF LedgerInv, TypeOK
<1> QED BY <1>1, <1>4, RestKeepsLedger

\* Accepted goods: at no place, and of items whose rows the receipt holds, so
\* that no session does.
LEMMA ReceivedKeepsLedger ==
  ASSUME Inv, LedgerInv, NEW g \in Grns, Received(g)
  PROVE  LedgerInv'
<1> PICK d : d = Row("grn", g) OBVIOUS
<1> PICK e : e = entries[d] OBVIOUS
<1>1. d \in Documents /\ d[1] = "grn" /\ e.stage = "commit"
  BY DEF Documents, Row, Received
<1>2. /\ e.items \in Seq(Items) /\ e.at \in Nat \ {0} /\ e.at > Len(e.items) /\ Covers(e)
  BY <1>1, EntryOf DEF EntrySound
<1>3. /\ total' = [i \in Items |-> total[i] + e.amounts[i]]
      /\ entries' = [entries EXCEPT ![d] = NoEntry]
      /\ UNCHANGED <<placed, held, counts, adjusted, tx, begun, overridden, cut>>
  BY DEF Received, history
<1>4. /\ total \in [Items -> Int] /\ e.amounts \in [Items -> Nat]
      /\ \A i \in Items : total[i] \in Int /\ e.amounts[i] \in Nat
  BY <1>2 DEF LedgerInv, TypeOK, Covers
<1>5. total' \in [Items -> Int]
  BY ONLY <1>3, <1>4
<1>6. ASSUME NEW s \in Sessions, NEW i \in Items, Row("item", i) \in tx[s].has
      PROVE  total'[i] = total[i]
  <2>1. Row("item", i) \notin KeysOf(e)
    BY <1>1, <1>6 DEF Inv, Exclusive
  <2>2. \A n \in DOMAIN e.items : n \in 1 .. e.at - 1
    BY <1>2
  <2>3. e.amounts[i] = 0
    BY <1>2, <2>1, <2>2 DEF KeysOf, Covers
  <2> QED BY ONLY <1>3, <1>4, <2>3, i \in Items
<1>7. TypeOK'
  <2>1. grns' \in [Grns -> [Items -> Int]]
    BY ReceivedKeeps DEF Inv, Shape
  <2>2. entries' \in [Documents -> Entries]
    BY <1>3, NoEntryType DEF LedgerInv, TypeOK
  <2> QED BY <1>3, <1>5, <2>1, <2>2 DEF LedgerInv, TypeOK
<1> QED BY <1>3, <1>6, <1>7, RestKeepsLedger

-----------------------------------------------------------------------------
(* The invariant.                                                           *)

\* The opening balances add up.
LEMMA OpeningType ==
  ASSUME NEW i \in Items
  PROVE  MapThenSumSet(LAMBDA l : Opening[i][l], Locations) \in Int
<1> DEFINE D == Locations
           f == [l \in D |-> Opening[i][l]]
           Eq(h) == h = [s \in SUBSET D |-> IF s = {} THEN 0
                           ELSE Opening[i][CHOOSE x \in s : TRUE] + h[s \ {CHOOSE x \in s : TRUE}]]
           iter == CHOOSE h : Eq(h)
<1>1. MapThenSumSet(LAMBDA l : Opening[i][l], Locations) = iter[D]
  BY Zenon DEF MapThenSumSet, MapThenFoldSet
<1>2. IsFiniteSet(D) /\ (\A x \in D : f[x] = Opening[i][x]) /\ \A x \in D : f[x] \in Int
  BY StockConstants
<1> HIDE DEF D, f
<1>3. ASSUME NEW h PROVE Eq(h) <=> IsFold(D, f, h)
  <2>1. \A s \in SUBSET D : s # {} => f[CHOOSE x \in s : TRUE] = Opening[i][CHOOSE x \in s : TRUE]
    BY <1>2
  <2>2. ASSUME NEW s \in SUBSET D
        PROVE (IF s = {} THEN 0 ELSE f[CHOOSE x \in s : TRUE] + h[s \ {CHOOSE x \in s : TRUE}])
          = (IF s = {} THEN 0
             ELSE Opening[i][CHOOSE x \in s : TRUE] + h[s \ {CHOOSE x \in s : TRUE}])
    <3>1. CASE s = {} BY <3>1, Zenon
    <3>2. CASE s # {}
      <4>1. f[CHOOSE x \in s : TRUE] = Opening[i][CHOOSE x \in s : TRUE]
        BY <2>1, <3>2, Zenon
      <4> QED BY <3>2, <4>1, Zenon
    <3> QED BY <3>1, <3>2, Zenon
  <2> QED BY <2>2, Zenon DEF IsFold
<1>4. \E h : Eq(h)
  <2>1. \E h : IsFold(D, f, h)
    BY <1>2, FoldIsSum
  <2> HIDE DEF Eq
  <2> QED BY <1>3, <2>1, Zenon
<1>5. Eq(iter)
  BY <1>4, Zenon
<1> HIDE DEF iter, Eq
<1>6. IsSum(D, f, iter[D])
  <2>1. IsFold(D, f, iter)
    BY <1>3, <1>5, Zenon
  <2> QED BY <1>2, <2>1, FoldIsSum
<1> PICK v : v = iter[D] OBVIOUS
<1>7. v \in Int
  BY <1>6, SumType
<1> QED BY <1>1, <1>7, Zenon

\* The first state.
LEMMA InitLedger == Init => LedgerInv
<1> SUFFICES ASSUME Init PROVE LedgerInv
  OBVIOUS
<1>1. /\ placed = Opening /\ held = {} /\ grns = [g \in Grns |-> Nil] /\ begun = 0
      /\ entries = [d \in Documents |-> NoEntry]
      /\ counts = [c \in Counts |-> [status |-> "NONE", at |-> Nowhere, variance |-> Nil]]
      /\ tx = [s \in Sessions |-> Idle] /\ adjusted = [c \in Counts |-> 0]
      /\ overridden = {} /\ cut = {}
      /\ total = [i \in Items |-> MapThenSumSet(LAMBDA l : Opening[i][l], Locations)]
  BY Zenon DEF Init
<1>2. total \in [Items -> Int]
  BY <1>1, OpeningType, Zenon
<1>3. placed \in [Items -> [Locations -> Int]]
      /\ \A i \in Items, l \in Locations : placed[i][l] \in Int /\ placed[i][l] >= 0
  <2>1. \A i \in Items, l \in Locations : Opening[i][l] \in Nat
    BY StockConstants
  <2>2. placed \in [Items -> [Locations -> Int]]
    BY <1>1, StockConstants
  <2>3. \A i \in Items, l \in Locations : placed[i][l] \in Int /\ placed[i][l] >= 0
    BY ONLY <1>1, <2>1
  <2> QED BY <2>2, <2>3
<1>4. grns \in [Grns -> [Items -> Int]] /\ counts \in [Counts -> Tallies]
      /\ adjusted \in [Counts -> Nat] /\ begun \in 0 .. MaxBegun
      /\ entries \in [Documents -> Entries]
  <2>1. Nil \in [Items -> Int]
    BY DEF Nil
  <2>2. counts \in [Counts -> Tallies]
    BY ONLY <1>1, <2>1 DEF Tallies
  <2>3. 0 \in 0 .. MaxBegun
    BY StockConstants
  <2>4. entries \in [Documents -> Entries]
    BY <1>1, NoEntryType
  <2> QED BY <1>1, <2>1, <2>2, <2>3, <2>4
<1>5. tx \in [Sessions -> Requests] /\ \A s \in Sessions : tx[s].stage = "idle" /\ Sound(tx[s])
  <2>1. \A s \in Sessions : tx[s] = Idle
    BY <1>1
  <2> QED BY <1>1, <2>1, IdleType, IdleFields DEF Sound
<1>6. TypeOK
  BY <1>1, <1>2, <1>3, <1>4, <1>5 DEF TypeOK
<1>7. IsFiniteSet(held)
  BY <1>1, FS_EmptySet
<1>8. NotOverdrawn
  BY <1>3 DEF NotOverdrawn
<1>9. PromisedOnce
  <2>1. ASSUME NEW i, NEW l PROVE Promised({}, i, l) = 0
    <3> PICK D, f, v : D = Holding({}, i, l) /\ f = QtyOf(D) /\ v = Promised({}, i, l)
      OBVIOUS
    <3>1. IsSum(D, f, v)
      <4> PICK H : H = {} OBVIOUS
      <4>1. H \in SUBSET Reservations /\ IsFiniteSet(H)
        BY FS_EmptySet
      <4>2. IsSum(Holding(H, i, l), QtyOf(Holding(H, i, l)), Promised(H, i, l))
        BY ONLY <4>1, PromisedIsSum
      <4> QED BY <4>2
    <3>2. D = {}
      BY DEF Holding
    <3> QED BY <3>1, <3>2, SumOfNone
  <2>2. \A i \in Items, l \in Locations : Reserved(i, l) = Promised({}, i, l)
    BY <1>1 DEF Reserved
  <2> QED BY <1>3, <2>1, <2>2 DEF PromisedOnce
<1> QED BY <1>5, <1>6, <1>7, <1>8, <1>9 DEF LedgerInv

\* Every step.
LEMMA LedgerStep == Inv /\ LedgerInv /\ [Next]_vars => LedgerInv'
<1> SUFFICES ASSUME Inv, LedgerInv, [Next]_vars PROVE LedgerInv'
  OBVIOUS
<1>1. ASSUME NEW s \in Sessions, Session(s) PROVE LedgerInv'
  <2>1. CASE Post(s) \/ PostUnplaced(s) \/ Reserve(s) \/ Return(s) \/ Approve(s)
    BY <2>1, BegunKeepsLedger
  <2>2. CASE LockDocument(s) BY <2>2, LockDocumentKeepsLedger
  <2>3. CASE LockItem(s) BY <2>3, LockItemKeepsLedger
  <2>4. CASE Look(s) BY <2>4, LookKeepsLedger
  <2>5. CASE Write(s) BY <2>5, WriteKeepsLedger
  <2>6. CASE Commit(s) BY <2>6, CommitKeepsLedger
  <2>7. CASE Abort(s)
    <3>1. tx' = [tx EXCEPT ![s] = Idle] /\ UNCHANGED <<ledger, documents, begun, history>>
      BY <2>7 DEF Abort
    <3> QED BY <3>1, LeaveKeepsLedger
  <2> QED BY <1>1, <2>1, <2>2, <2>3, <2>4, <2>5, <2>6, <2>7 DEF Session
<1>2. ASSUME NEW g \in Grns, Receive(g) \/ Received(g) PROVE LedgerInv'
  BY <1>2, EnteredKeepsLedger, ReceivedKeepsLedger
<1>3. ASSUME NEW h \in held, StopHolding(h) PROVE LedgerInv'
  BY <1>3, StopHoldingKeepsLedger
<1>4. ASSUME NEW c \in Counts, Count(c) \/ Counted(c) \/ Reject(c) PROVE LedgerInv'
  BY <1>4, EnteredKeepsLedger, CountedKeepsLedger
<1>5. ASSUME NEW d \in Documents, Compare(d) \/ Insert(d) \/ Drop(d) PROVE LedgerInv'
  BY <1>5, CompareKeepsLedger, InsertKeepsLedger, DropKeepsLedger
<1>6. CASE UNCHANGED vars
  <2>1. UNCHANGED <<total, placed, held, grns, counts, adjusted, entries, tx, begun, overridden,
                    cut>>
    BY <1>6 DEF vars, ledger, documents, history
  <2>2. TypeOK'
    BY <2>1 DEF LedgerInv, TypeOK
  <2> QED BY <2>1, <2>2, RestKeepsLedger
<1> QED BY <1>1, <1>2, <1>3, <1>4, <1>5, <1>6 DEF Next

-----------------------------------------------------------------------------
(* Rings of waits.                                                          *)

\* Whoever waits, waits for one row: of an item, unless it is a session that
\* holds nothing yet.
LEMMA WaitsForOne ==
  ASSUME Inv, LedgerInv, NEW p \in Parties, Wants(p) # {}
  PROVE  \/ \E i \in Items : Wants(p) = {Row("item", i)}
         \/ Has(p) = {}
<1>1. CASE p \in Sessions
  <2> PICK r : r = tx[p] OBVIOUS
  <2>1. Wants(p) = Wanted(p) /\ Has(p) = r.has /\ r.stage \in {"document", "lock"}
    BY <1>1 DEF Wants, Has, Wanted
  <2>2. CASE r.stage = "document"
    <3>1. Standing(r)
      BY <1>1, <2>2, RequestOf DEF Sound
    <3> QED BY <2>1, <2>2, <3>1 DEF Standing
  <2>3. CASE r.stage = "lock"
    <3>1. Current(p).item \in Items
      BY <1>1, <2>3, CurrentLine
    <3>2. Wants(p) = {Row("item", Current(p).item)} \ r.has
      BY <2>1, <2>3 DEF Wanted
    <3> QED BY <3>1, <3>2
  <2> QED BY <2>1, <2>2, <2>3
<1>2. CASE p \notin Sessions
  <2>1. p \in Documents /\ Wants(p) = Needed(p)
    BY <1>2 DEF Parties, Wants
  <2>2. entries[p].stage = "write"
    BY <2>1 DEF Needed
  <2>3. Entered(p) \in Items
    BY <2>1, <2>2, EntryOf
  <2> QED BY <2>1, <2>2, <2>3 DEF Needed
<1> QED BY <1>1, <1>2

\* Whoever holds an item and waits, with its items in order, waits for one
\* after it.
LEMMA HoldersGoUp ==
  ASSUME Inv, LedgerInv, NEW p \in Parties, Wants(p) # {}, ~Unordered(p),
         NEW i \in Items, Row("item", i) \in Has(p)
  PROVE  \E j \in Items : i < j /\ Wants(p) = {Row("item", j)}
<1>1. PICK j \in Items : Wants(p) = {Row("item", j)}
  BY WaitsForOne
<1>2. CASE p \in Sessions
  <2> PICK r : r = tx[p] OBVIOUS
  <2>1. Wants(p) = Wanted(p) /\ Has(p) = r.has /\ r.stage \in {"document", "lock"}
    BY <1>2 DEF Wants, Has, Wanted
  <2>2. r \in Requests /\ Asked(r.kind, r.lines) /\ Standing(r) /\ Rowed(r)
    BY <1>2, <2>1, RequestOf DEF Sound
  <2>3. r.kind \in Kinds /\ r.at \in Nat \ {0} /\ r.lines \in Seq(Line)
    BY <2>2 DEF Requests
  <2>4. PICK n \in DOMAIN r.lines : Locked(r, n) /\ r.lines[n].item = i
    BY <2>1, <2>2 DEF Rowed
  <2>5. r.stage = "lock" /\ r.at <= Len(r.lines) /\ n < r.at
    <3>1. r.stage = "lock"
      BY <2>1, <2>2 DEF Standing
    <3> QED BY <2>2, <2>4, <3>1 DEF Standing, Locked
  <2>6. /\ n \in 1 .. Len(r.lines) /\ Len(r.lines) \in Nat /\ r.at \in DOMAIN r.lines
        /\ Len(r.lines) # 1
    <3>1. n \in 1 .. Len(r.lines) /\ Len(r.lines) \in Nat
      <4> HIDE DEF Line
      <4> QED BY <2>3, <2>4
    <3>2. r.at \in DOMAIN r.lines
      <4> HIDE DEF Line
      <4> QED BY <2>3, <2>5
    <3> QED BY <2>3, <2>5, <3>1, <3>2
  <2>7. r.kind \in {"approve", "return"}
    <3>1. r.kind \notin {"post", "legacy", "reserve"}
      BY <2>2, <2>6 DEF Asked
    <3> QED BY <2>3, <3>1 DEF Kinds
  <2>8. r.lines[n].item < r.lines[r.at].item
    <3>1. CASE r.kind = "approve"
      BY <2>2, <2>4, <2>5, <2>6, <3>1 DEF Asked
    <3>2. CASE r.kind = "return"
      <4> PICK order : order = [m \in DOMAIN r.lines |-> r.lines[m].item] OBVIOUS
      <4>1. Ascending(order)
        BY <1>2, <3>2 DEF Unordered
      <4>2. order[n] < order[r.at]
        BY <2>4, <2>5, <2>6, <4>1 DEF Ascending
      <4> QED BY <2>4, <2>6, <4>2
    <3> QED BY <2>7, <3>1, <3>2
  <2>9. Wanted(p) \subseteq {Row("item", r.lines[r.at].item)}
    BY <2>5 DEF Wanted, Current
  <2>10. j = r.lines[r.at].item
    <3>1. Row("item", j) = Row("item", r.lines[r.at].item)
      BY <1>1, <2>1, <2>9, Zenon
    <3> QED BY <3>1 DEF Row
  <2> QED BY <1>1, <2>4, <2>8, <2>10
<1>3. CASE p \notin Sessions
  <2> PICK e : e = entries[p] OBVIOUS
  <2>1. p \in Documents /\ Wants(p) = Needed(p) /\ Has(p) = Keys(p) /\ Ascending(e.items)
    BY <1>3 DEF Parties, Wants, Has, Unordered
  <2>2. e.stage = "write" /\ Needed(p) = {Row("item", e.items[e.at])}
    BY <2>1 DEF Needed, Entered
  <2>3. e.items \in Seq(Items) /\ e.at \in Nat \ {0} /\ e.at \in DOMAIN e.items
    BY <2>1, <2>2, EntryOf
  <2>4. PICK n \in 1 .. e.at - 1 : e.items[n] = i
    BY <2>1 DEF Keys, Row
  <2>5. n \in DOMAIN e.items /\ n < e.at
    BY <2>3
  <2>6. e.items[n] < e.items[e.at]
    BY <2>1, <2>3, <2>5 DEF Ascending
  <2>7. j = e.items[e.at]
    <3>1. Row("item", j) = Row("item", e.items[e.at])
      BY <1>1, <2>1, <2>2, Zenon
    <3> QED BY <3>1 DEF Row
  <2> QED BY <1>1, <2>4, <2>6, <2>7
<1> QED BY <1>2, <1>3

\* Along a ring with all items in order they would rise for ever.
LEMMA RingOutOfOrder ==
  ASSUME Inv, LedgerInv
  PROVE  ApprovalsKeepOrder
<1> SUFFICES ASSUME NEW C \in SUBSET Parties, Ring(C), \A p \in C : ~Unordered(p)
             PROVE  FALSE
  BY DEF ApprovalsKeepOrder
<1> DEFINE Tops == {i \in Items : \E p \in C : Wants(p) = {Row("item", i)}}
<1>1. ASSUME NEW p \in C
      PROVE  p \in Parties /\ Wants(p) # {} /\ \E q \in C : Wants(p) \cap Has(q) # {}
  BY DEF Ring, WaitsFor
<1>2. ASSUME NEW i \in Tops
      PROVE  \E j \in Tops : i < j
  <2>1. PICK p \in C : Wants(p) = {Row("item", i)}
    OBVIOUS
  <2>2. PICK q \in C : Row("item", i) \in Has(q)
    BY <1>1, <2>1
  <2>3. q \in Parties /\ Wants(q) # {} /\ ~Unordered(q) /\ i \in Items
    BY <1>1
  <2>4. PICK j \in Items : i < j /\ Wants(q) = {Row("item", j)}
    BY ONLY Inv, LedgerInv, <2>2, <2>3, HoldersGoUp
  <2>5. j \in Tops
    BY <2>4
  <2> QED BY <2>4, <2>5
<1>3. Tops # {}
  <2>1. PICK p \in C : TRUE
    BY DEF Ring
  <2>2. PICK q \in C : Has(q) # {}
    BY <1>1
  <2>3. PICK i \in Items : Wants(q) = {Row("item", i)}
    BY <1>1, <2>2, WaitsForOne
  <2>4. i \in Tops
    BY <2>3
  <2> QED BY <2>4
<1>4. Tops \in SUBSET Nat /\ IsFiniteSet(Tops)
  BY StockConstants, FS_Subset
<1> HIDE DEF Tops
<1>5. PICK i \in Tops : \A j \in Tops : j <= i
  BY <1>3, <1>4, GreatestOfFinite
<1>6. PICK j \in Tops : i < j
  BY <1>2
<1>7. i \in Nat /\ j \in Nat /\ i < j /\ j <= i
  BY <1>4, <1>5, <1>6
<1> QED BY ONLY <1>7

-----------------------------------------------------------------------------
(* The theorems about the ledger.                                           *)

\* What holds throughout, for any number of sessions posting, returning,
\* reserving, approving, dying and being refused: the ledger is never overdrawn
\* or promised twice, and every session's findings stand to its commit.
THEOREM LedgerInvariance == Spec => []LedgerInv
  BY InitLedger, LedgerStep, Invariance, PTL DEF Spec

\* Every variable keeps its type; the running sums stay sums.
THEOREM Typing == Spec => []TypeOK
<1>1. LedgerInv => TypeOK
  BY DEF LedgerInv
<1> QED BY <1>1, LedgerInvariance, PTL

\* Nobody ever takes from a place what is not there, except with the permission
\* to overdraw (checkIssue, and the check of an approval, under the item's lock).
THEOREM NeverOverdrawn == Spec => []NotOverdrawn
<1>1. LedgerInv => NotOverdrawn
  BY DEF LedgerInv
<1> QED BY <1>1, LedgerInvariance, PTL

\* What is promised at a place is there, unless a count wrote it down or someone
\* overdrew it (positionAt under the item's lock).
THEOREM NeverPromisedTwice == Spec => []PromisedOnce
<1>1. LedgerInv => PromisedOnce
  BY DEF LedgerInv
<1> QED BY <1>1, LedgerInvariance, PTL

\* A ring of waits always has in it a return, a goods receipt or a count being
\* entered, with items that are not in order: approvals take the items of a
\* count in the order of their ids, and postings take one.  For any number of
\* transactions of each kind, and any items.
THEOREM OrderKept == Spec => []ApprovalsKeepOrder
<1>1. Inv /\ LedgerInv => ApprovalsKeepOrder
  BY RingOutOfOrder
<1> QED BY <1>1, Invariance, LedgerInvariance, PTL

\* A commit's notices.
LEMMA NoticeOfCommit ==
  LedgerInv /\ [Next]_vars =>
    [\A s \in Sessions : Commit(s) =>
       \A i \in Items :
         i \in tx[s].rung <=> Crosses(i, total[i], total'[i])]_vars
<1> SUFFICES ASSUME LedgerInv, NEW s \in Sessions, Commit(s), NEW i \in Items
             PROVE  i \in tx[s].rung <=> Crosses(i, total[i], total'[i])
  OBVIOUS
<1> PICK r : r = tx[s] OBVIOUS
<1>1. Sound(r) /\ r.stage = "commit"
  BY RequestOf DEF Commit
<1>2. i \in r.rung <=> Crosses(i, total[i], total[i] + r.total[i])
  BY <1>1 DEF Sound, Rang
<1>3. total'[i] = total[i] + r.total[i]
  BY CommittedSums
<1> QED BY <1>2, <1>3

\* The storekeepers are told of exactly the crossings of a reorder level, each
\* once, for any number of postings and goods receipts made at once
\* (notifyLowStockCrossing under the item's lock, which the lines of a goods
\* receipt wait for).
THEOREM Noticed == Spec => NoticedOnce
  BY NoticeOfCommit, LedgerInvariance, PTL DEF Spec, NoticedOnce
=============================================================================
