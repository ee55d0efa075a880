------------------------------- MODULE Stock -------------------------------
(***************************************************************************)
(* The stock ledger: what every place holds, what is promised, and the     *)
(* transactions that move it (apps/api/src/modules/stock/routes.ts,        *)
(* common/stockLedger.ts; the postings of inventory and procurement too).  *)
(*                                                                         *)
(* No balance is stored: each is a sum over the committed postings, read   *)
(* again by every statement that needs it.  A posting holds the item's row *)
(* FOR UPDATE from its first reading to its commit.  A goods receipt and a *)
(* count ask for no lock, but each line they insert names its item by a    *)
(* foreign key: the database holds the item's row FOR KEY SHARE for them,  *)
(* which any number may, but nobody beside a posting.                      *)
(*                                                                         *)
(* One session is one transaction under READ COMMITTED: each step is one   *)
(* statement, or several that no other session's commit between them could *)
(* make differ, and sees what was committed before it and what it has      *)
(* written itself.  A refusal rolls everything back.  Batches, serials and *)
(* units are left out, and so are refusals that no other session can bring *)
(* about.                                                                  *)
(*                                                                         *)
(* An item has a total over everything posted, with a place or without,    *)
(* and a balance at each location.  Neither is derived from the other.     *)
(***************************************************************************)
EXTENDS Integers, Sequences, SequencesExt, FiniteSets, FiniteSetsExt

CONSTANTS
  Items,        \* item ids, in the order the database sorts them
  Locations,
  Nowhere,      \* no location
  Sessions,     \* transactions that post, reserve, return and approve
  Counts,       \* physical counts
  Grns,         \* goods receipts
  Movements,    \* what the users post: effect, from, to
  Quantities,   \* in what amounts
  Overdrawing,  \* whether they may overdraw: FALSE, TRUE, or either
  Deliveries,   \* what may be accepted of each item on a receipt
  Walks,        \* counts that may be made: where, and what is found of which items
  Opening,      \* Opening[i][l]: the opening balances
  Level,        \* Level[i]: the reorder level
  MaxBegun,     \* bound: sessions ever begun
  AtOnce        \* bound: transactions open at a time

Effects == {"IN", "OUT", "MOVE", "HOLD"}

\* What each type of movement has to name; more may be named.
Valid ==
  {m \in [effect : {"IN", "OUT", "MOVE"}, from : Locations \cup {Nowhere},
          to : Locations \cup {Nowhere}] :
     /\ m.effect # "IN" => m.from # Nowhere
     /\ m.effect # "OUT" => m.to # Nowhere
     /\ m.effect = "MOVE" => m.from # m.to}

\* A document that is being entered stands for the transaction that enters it.
Documents == ({"grn"} \X Grns) \cup ({"count"} \X Counts)

ASSUME StockConstants ==
  /\ Items \subseteq Nat /\ IsFiniteSet(Items)
  /\ IsFiniteSet(Locations) /\ Nowhere \notin Locations
  /\ Quantities \subseteq Nat \ {0}
  /\ Movements \subseteq Valid /\ Overdrawing \subseteq BOOLEAN
  /\ Deliveries \subseteq [Items -> Nat]
  /\ \A w \in Walks : /\ w.at \in Locations
                     /\ DOMAIN w.found # {} /\ DOMAIN w.found \subseteq Items
                     /\ w.found \in [DOMAIN w.found -> Nat]
  /\ Opening \in [Items -> [Locations -> Nat]]
  /\ Level \in [Items -> Nat] /\ MaxBegun \in Nat /\ AtOnce \in Nat
  /\ Sessions \cap Documents = {}

VARIABLES
  total,       \* itemOnHand: everything posted for an item
  placed,      \* onHandAt: what was posted into a location less what left it
  held,        \* reservations that hold stock
  grns,        \* of each receipt, what was accepted and not returned
  counts,      \* physical counts: status, where, the variances found
  entries,     \* what the entering of each document is at
  tx,          \* what each session is at
  begun,       \* transactions begun so far
  adjusted,    \* history: how often each count was posted
  overridden,  \* history: places issued from beyond what was free
  cut          \* history: places a count wrote down

ledger == <<total, placed>>
documents == <<held, grns, counts, adjusted, entries>>
history == <<overridden, cut>>
vars == <<ledger, documents, tx, begun, history>>

-----------------------------------------------------------------------------
\* The postings with a place and without, returns to a vendor, reservations,
\* approvals of counts; and what the next statement of a session does.
Kinds  == {"post", "legacy", "return", "reserve", "approve"}
Stages == {"idle", "document", "lock", "look", "write", "commit"}

Line == [item : Items, effect : Effects, from : Locations \cup {Nowhere},
         to : Locations \cup {Nowhere}, qty : Nat \ {0}]

\* Rows a transaction may hold: of items, of counts, of goods receipts.
Row(table, id) == <<table, id>>
Rows == ({"item"} \X Items) \cup ({"count"} \X Counts) \cup ({"grn"} \X Grns)

Nil == [i \in Items |-> 0]
NilPlaced == [i \in Items |-> [l \in Locations |-> 0]]

Idle == [kind |-> "post", stage |-> "idle", no |-> 0, lines |-> <<>>, at |-> 1, doc |-> 0,
         override |-> FALSE, has |-> {}, before |-> 0, total |-> Nil, placed |-> NilPlaced,
         short |-> {}, rung |-> {}]

Current(s) == tx[s].lines[tx[s].at]

\* The lines of a document are entered in the order of the request: of a goods
\* receipt what was accepted, of a count what was found and, once it has been
\* compared, by how much that differs.
NoEntry == [stage |-> "idle", items |-> <<>>, at |-> 1, place |-> Nowhere, amounts |-> Nil]

Entered(d) == entries[d].items[entries[d].at]

\* What a posting does to the item's total: a transfer nothing.
ToTotal(line) ==
  CASE line.effect = "IN"  -> line.qty
    [] line.effect = "OUT" -> -line.qty
    [] OTHER               -> 0

\* And to the balance at a location: arriving is looked for before leaving.
ToPlace(line, l) ==
  IF line.effect = "HOLD" THEN 0
  ELSE IF line.to = l THEN line.qty
  ELSE IF line.from = l THEN -line.qty ELSE 0

\* The sums as a session's statements see them.
Total(s, i) == total[i] + tx[s].total[i]
Placed(s, i, l) == placed[i][l] + tx[s].placed[i][l]

\* What reservations promise of an item at a place.
Promised(H, i, l) == MapThenSumSet(LAMBDA h : h.qty, {h \in H : h.item = i /\ h.at = l})

Reserved(i, l) == Promised(held, i, l)
Free(s, i, l) == Placed(s, i, l) - Reserved(i, l)

-----------------------------------------------------------------------------
(* Row locks.                                                               *)

MutReservesUnlocked(s) ==
  CASE tx[s].stage = "document" -> {Row(IF tx[s].kind = "approve" THEN "count" ELSE "grn",
                                       tx[s].doc)}
    [] tx[s].stage = "lock" /\ tx[s].kind # "reserve" -> {Row("item", Current(s).item)} \ tx[s].has
    [] OTHER -> {}

\* The row a session's next statement needs, if it needs one it has not got.
Wanted(s) ==
  CASE tx[s].stage = "document" -> {Row(IF tx[s].kind = "approve" THEN "count" ELSE "grn",
                                       tx[s].doc)}
    [] tx[s].stage = "lock"     -> {Row("item", Current(s).item)} \ tx[s].has
    [] OTHER                    -> {}

\* The rows of the items it has inserted a line of, held FOR KEY SHARE; and
\* the row that its next line needs.
Keys(d) == {Row("item", entries[d].items[n]) : n \in 1 .. entries[d].at - 1}
Needed(d) == IF entries[d].stage = "write" THEN {Row("item", Entered(d))} ELSE {}

Parties == Sessions \cup Documents
Wants(p) == IF p \in Sessions THEN Wanted(p) ELSE Needed(p)
Has(p) == IF p \in Sessions THEN tx[p].has ELSE Keys(p)

\* FOR KEY SHARE goes with FOR KEY SHARE, and with nothing else here.
WaitsFor(p, q) ==
  /\ p # q /\ {p, q} \cap Sessions # {}
  /\ Wants(p) \cap Has(q) # {}

Granted(p) == \A q \in Parties : ~WaitsFor(p, q)

\* Transactions that wait for each other in a ring.
Ring(C) == C # {} /\ \A p \in C : \E q \in C : WaitsFor(p, q)

-----------------------------------------------------------------------------
(* The transactions.                                                        *)

Open == {s \in Sessions : tx[s].stage # "idle"} \cup {d \in Documents : entries[d].stage # "idle"}
Room == Cardinality(Open) < AtOnce

Begin(s, kind, lines, doc, override) ==
  /\ tx[s].stage = "idle"
  /\ begun < MaxBegun /\ Room
  /\ begun' = begun + 1
  /\ tx' = [tx EXCEPT ![s] = [Idle EXCEPT !.kind = kind, !.no = begun + 1,
              !.lines = lines, !.doc = doc, !.override = override,
              !.stage = IF kind \in {"return", "approve"} THEN "document" ELSE "lock"]]
  /\ UNCHANGED <<ledger, documents, history>>

\* POST /stock-transactions; the user may have the permission to overdraw.
Post(s) ==
  \E m \in Movements, i \in Items, q \in Quantities, o \in Overdrawing :
    Begin(s, "post", <<[item |-> i, effect |-> m.effect, from |-> m.from, to |-> m.to,
                        qty |-> q]>>, 0, o)

\* POST /inventory/transactions: the older posting, which names no place.
PostUnplaced(s) ==
  \E i \in Items, e \in {"IN", "OUT"}, q \in Quantities :
    Begin(s, "legacy", <<[item |-> i, effect |-> e, from |-> Nowhere, to |-> Nowhere,
                          qty |-> q]>>, 0, FALSE)

\* POST /stock-reservations
Reserve(s) ==
  \E i \in Items, l \in Locations, q \in Quantities :
    Begin(s, "reserve", <<[item |-> i, effect |-> "HOLD", from |-> l, to |-> Nowhere,
                           qty |-> q]>>, 0, FALSE)

\* POST /vendor-returns: lines of one receipt, in the order of the request.
Return(s) ==
  \E g \in Grns, S \in SUBSET Items, q \in Quantities :
    /\ S # {}
    /\ \E order \in SetToSeqs(S) :
         Begin(s, "return", [n \in DOMAIN order |->
           [item |-> order[n], effect |-> "OUT", from |-> Nowhere, to |-> Nowhere, qty |-> q]],
           g, FALSE)

\* POST /stock-counts/:id/approval with APPROVE.
Approve(s) == \E c \in Counts : Begin(s, "approve", <<>>, c, FALSE)

\* The lines of a count that post something: those with a variance, by item id.
Found(c) == {i \in Items : counts[c].variance[i] # 0}

Adjustment(c, i) ==
  LET v == counts[c].variance[i] IN
  IF v > 0 THEN [item |-> i, effect |-> "IN", from |-> Nowhere, to |-> counts[c].at, qty |-> v]
           ELSE [item |-> i, effect |-> "OUT", from |-> counts[c].at, to |-> Nowhere, qty |-> -v]

MutAsEntered(c) ==
  CHOOSE order \in SetToSeqs(Found(c)) : \A m, n \in DOMAIN order :
    m < n => (order[m] < order[n] <=> \A d \in Counts : c <= d)

InOrder(c) ==
  CHOOSE order \in SetToSeqs(Found(c)) : \A m, n \in DOMAIN order : m < n => order[m] < order[n]

Lines(c) == [n \in DOMAIN InOrder(c) |-> Adjustment(c, InOrder(c)[n])]

\* The document's row is locked, and read as it is now: a count may still be
\* approved, a receipt has what is to go back.
MutStatusNotReadAgain(s) ==
  /\ tx[s].stage = "document" /\ Granted(s)
  /\ LET lines == IF tx[s].kind = "approve" THEN Lines(tx[s].doc) ELSE tx[s].lines
         stands == tx[s].kind = "approve"
                     \/ \A n \in DOMAIN lines : lines[n].qty <= grns[tx[s].doc][lines[n].item]
     IN  tx' = [tx EXCEPT ![s] = IF ~stands THEN Idle ELSE [@ EXCEPT
                  !.has = Wanted(s), !.lines = lines,
                  !.stage = IF lines = <<>> THEN "commit" ELSE "lock"]]
  /\ UNCHANGED <<ledger, documents, begun, history>>

MutReceiptNotLocked(s) ==
  /\ tx[s].stage = "document" /\ Granted(s)
  /\ LET approves == tx[s].kind = "approve"
         lines == IF approves THEN Lines(tx[s].doc) ELSE tx[s].lines
         stands == IF approves THEN counts[tx[s].doc].status = "COUNTED"
                   ELSE \A n \in DOMAIN lines : lines[n].qty <= grns[tx[s].doc][lines[n].item]
     IN  tx' = [tx EXCEPT ![s] = IF ~stands THEN Idle ELSE [@ EXCEPT
                  !.has = IF approves THEN Wanted(s) ELSE {}, !.lines = lines,
                  !.stage = IF lines = <<>> THEN "commit" ELSE "lock"]]
  /\ UNCHANGED <<ledger, documents, begun, history>>

LockDocument(s) ==
  /\ tx[s].stage = "document"
  /\ Granted(s)
  /\ LET approves == tx[s].kind = "approve"
         lines == IF approves THEN Lines(tx[s].doc) ELSE tx[s].lines
         stands == IF approves THEN counts[tx[s].doc].status = "COUNTED"
                   ELSE \A n \in DOMAIN lines : lines[n].qty <= grns[tx[s].doc][lines[n].item]
     IN  tx' = [tx EXCEPT ![s] = IF ~stands THEN Idle ELSE [@ EXCEPT
                  !.has = Wanted(s), !.lines = lines,
                  !.stage = IF lines = <<>> THEN "commit" ELSE "lock"]]
  /\ UNCHANGED <<ledger, documents, begun, history>>

\* SELECT ... FOR UPDATE of the line's item.
LockItem(s) ==
  /\ tx[s].stage = "lock"
  /\ Granted(s)
  /\ tx' = [tx EXCEPT ![s] = [@ EXCEPT !.has = tx[s].has \cup Wanted(s), !.stage = "look"]]
  /\ UNCHANGED <<ledger, documents, begun, history>>

\* Whether the line may be posted, on the sums as they are under the lock.
MutVarianceNotChecked(s) ==
  LET line == Current(s) IN
  CASE tx[s].kind = "post" ->
         line.from # Nowhere => tx[s].override \/ line.qty <= Free(s, line.item, line.from)
    [] tx[s].kind = "reserve" -> line.qty <= Free(s, line.item, line.from)
    [] tx[s].kind = "approve" -> TRUE
    [] OTHER -> line.effect = "OUT" => line.qty <= Total(s, line.item)

Allowed(s) ==
  LET line == Current(s) IN
  CASE tx[s].kind = "post" ->
         line.from # Nowhere => tx[s].override \/ line.qty <= Free(s, line.item, line.from)
    [] tx[s].kind = "reserve" -> line.qty <= Free(s, line.item, line.from)
    [] tx[s].kind = "approve" ->
         line.effect = "OUT" => line.qty <= Placed(s, line.item, line.from)
    [] OTHER -> line.effect = "OUT" => line.qty <= Total(s, line.item)

\* The check, and the total before the posting.
Look(s) ==
  /\ tx[s].stage = "look"
  /\ LET line == Current(s)
         beyond == tx[s].kind = "post" /\ tx[s].override /\ line.from # Nowhere
                     /\ line.qty > Free(s, line.item, line.from)
     IN  tx' = [tx EXCEPT ![s] = IF ~Allowed(s) THEN Idle ELSE [@ EXCEPT
                  !.before = Total(s, line.item), !.stage = "write",
                  !.short = IF beyond THEN {<<line.item, line.from>>} ELSE {}]]
  /\ UNCHANGED <<ledger, documents, begun, history>>

\* A posting takes the item from above its level to it or below.
Crosses(i, before, after) == before > Level[i] /\ after <= Level[i]

MutEveryLowPostingRings(s, i, after) == tx[s].kind # "reserve" /\ after <= Level[i]

\* notifyLowStockCrossing
Rings(s, i, after) == tx[s].kind # "reserve" /\ Crosses(i, tx[s].before, after)

MutOneLineTooMany(s) == IF tx[s].at <= Len(tx[s].lines) THEN "lock" ELSE "commit"

Then(s) == IF tx[s].at < Len(tx[s].lines) THEN "lock" ELSE "commit"

\* The row, and the notice.  A return works the total after it out of the one
\* before; the others read it again.
Write(s) ==
  /\ tx[s].stage = "write"
  /\ LET line == Current(s)
         i == line.item
         after == IF tx[s].kind = "return" THEN tx[s].before - line.qty
                                           ELSE Total(s, i) + ToTotal(line)
     IN  tx' = [tx EXCEPT ![s] = [@ EXCEPT
                  !.total = [tx[s].total EXCEPT ![i] = @ + ToTotal(line)],
                  !.placed = [tx[s].placed EXCEPT
                    ![i] = [l \in Locations |-> tx[s].placed[i][l] + ToPlace(line, l)]],
                  !.rung = tx[s].rung \cup (IF Rings(s, i, after) THEN {i} ELSE {}),
                  !.at = tx[s].at + 1,
                  !.stage = Then(s)]]
  /\ UNCHANGED <<ledger, documents, begun, history>>

\* What the committed transaction leaves in the documents.
Holds(s) ==
  IF tx[s].kind # "reserve" THEN held
  ELSE held \cup {[id |-> tx[s].no, item |-> tx[s].lines[1].item, at |-> tx[s].lines[1].from,
                   qty |-> tx[s].lines[1].qty]}

Commit(s) ==
  /\ tx[s].stage = "commit"
  /\ total' = [i \in Items |-> Total(s, i)]
  /\ placed' = [i \in Items |-> [l \in Locations |-> Placed(s, i, l)]]
  /\ held' = Holds(s)
  /\ grns' = IF tx[s].kind = "return"
               THEN [grns EXCEPT ![tx[s].doc] =
                       [i \in Items |-> grns[tx[s].doc][i] + tx[s].total[i]]]
               ELSE grns
  /\ counts' = IF tx[s].kind = "approve" THEN [counts EXCEPT ![tx[s].doc].status = "APPROVED"]
                                         ELSE counts
  /\ adjusted' = IF tx[s].kind = "approve" THEN [adjusted EXCEPT ![tx[s].doc] = @ + 1]
                                           ELSE adjusted
  /\ overridden' = overridden \cup tx[s].short
  /\ cut' = IF tx[s].kind # "approve" THEN cut
            ELSE cut \cup {p \in Items \X Locations : tx[s].placed[p[1]][p[2]] < 0}
  /\ tx' = [tx EXCEPT ![s] = Idle]
  /\ UNCHANGED <<entries, begun>>

\* The worker dies, or the database picks a session to break a ring of waits.
Abort(s) ==
  /\ tx[s].stage # "idle"
  /\ tx' = [tx EXCEPT ![s] = Idle]
  /\ UNCHANGED <<ledger, documents, begun, history>>

-----------------------------------------------------------------------------
(* Documents whose lines only name their items.                             *)

Enter(d, stage, order, place, amounts) ==
  /\ entries[d].stage = "idle"
  /\ Room
  /\ entries' = [entries EXCEPT ![d] = [stage |-> stage, items |-> order, at |-> 1,
                                        place |-> place, amounts |-> amounts]]
  /\ UNCHANGED <<ledger, held, grns, counts, adjusted, tx, begun, history>>

\* POST /grns: the goods accepted.
Receive(g) ==
  /\ grns[g] = Nil
  /\ \E accepted \in Deliveries :
       /\ accepted # Nil
       /\ \E order \in SetToSeqs({i \in Items : accepted[i] > 0}) :
            Enter(Row("grn", g), "write", order, Nowhere, accepted)

\* POST /stock-counts: what was found at a place.  It may be anything.
Count(c) ==
  /\ counts[c].status = "NONE"
  /\ \E w \in Walks : \E order \in SetToSeqs(DOMAIN w.found) :
       Enter(Row("count", c), "look", order, w.at,
             [i \in Items |-> IF i \in DOMAIN w.found THEN w.found[i] ELSE 0])

\* The variance of a count's line, against the ledger of the moment and frozen.
Compare(d) ==
  /\ entries[d].stage = "look"
  /\ LET i == Entered(d)
     IN  entries' = [entries EXCEPT ![d].stage = "write",
                       ![d].amounts[i] = @ - placed[i][entries[d].place]]
  /\ UNCHANGED <<ledger, held, grns, counts, adjusted, tx, begun, history>>

\* The INSERT of a line, and the lock its foreign key takes.
Insert(d) ==
  /\ entries[d].stage = "write"
  /\ Granted(d)
  /\ entries' = [entries EXCEPT ![d].at = @ + 1,
       ![d].stage = IF entries[d].at = Len(entries[d].items) THEN "commit"
                    ELSE IF d[1] = "count" THEN "look" ELSE "write"]
  /\ UNCHANGED <<ledger, held, grns, counts, adjusted, tx, begun, history>>

\* The commits: accepted goods are posted to the total, at no place.
Received(g) ==
  LET d == Row("grn", g) IN
  /\ entries[d].stage = "commit"
  /\ grns' = [grns EXCEPT ![g] = entries[d].amounts]
  /\ total' = [i \in Items |-> total[i] + entries[d].amounts[i]]
  /\ entries' = [entries EXCEPT ![d] = NoEntry]
  /\ UNCHANGED <<placed, held, counts, adjusted, tx, begun, history>>

Counted(c) ==
  LET d == Row("count", c) IN
  /\ entries[d].stage = "commit"
  /\ counts' = [counts EXCEPT ![c] = [status |-> "COUNTED", at |-> entries[d].place,
                                      variance |-> entries[d].amounts]]
  /\ entries' = [entries EXCEPT ![d] = NoEntry]
  /\ UNCHANGED <<ledger, held, grns, adjusted, tx, begun, history>>

\* The worker dies, or the database picks it to break a ring of waits.
Drop(d) ==
  /\ entries[d].stage # "idle"
  /\ entries' = [entries EXCEPT ![d] = NoEntry]
  /\ UNCHANGED <<ledger, held, grns, counts, adjusted, tx, begun, history>>

-----------------------------------------------------------------------------
(* Single statements.                                                       *)

\* A reservation is released, or its date passes.
StopHolding(h) ==
  /\ held' = held \ {h}
  /\ UNCHANGED <<ledger, grns, counts, adjusted, entries, tx, begun, history>>

\* The same approval with REJECT.
Reject(c) ==
  /\ counts[c].status = "COUNTED"
  /\ \A s \in Sessions : Row("count", c) \notin tx[s].has
  /\ counts' = [counts EXCEPT ![c].status = "DRAFT"]
  /\ UNCHANGED <<ledger, held, grns, adjusted, entries, tx, begun, history>>

-----------------------------------------------------------------------------
Init ==
  /\ placed = Opening
  /\ total = [i \in Items |-> MapThenSumSet(LAMBDA l : Opening[i][l], Locations)]
  /\ held = {}
  /\ grns = [g \in Grns |-> Nil]
  /\ counts = [c \in Counts |-> [status |-> "NONE", at |-> Nowhere, variance |-> Nil]]
  /\ entries = [d \in Documents |-> NoEntry]
  /\ tx = [s \in Sessions |-> Idle]
  /\ begun = 0
  /\ adjusted = [c \in Counts |-> 0]
  /\ overridden = {} /\ cut = {}

Session(s) ==
  \/ Post(s) \/ PostUnplaced(s) \/ Reserve(s) \/ Return(s) \/ Approve(s)
  \/ LockDocument(s) \/ LockItem(s) \/ Look(s) \/ Write(s) \/ Commit(s)
  \/ Abort(s)

Next ==
  \/ \E s \in Sessions : Session(s)
  \/ \E g \in Grns : Receive(g) \/ Received(g)
  \/ \E c \in Counts : Count(c) \/ Counted(c) \/ Reject(c)
  \/ \E d \in Documents : Compare(d) \/ Insert(d) \/ Drop(d)
  \/ \E h \in held : StopHolding(h)

Spec == Init /\ [][Next]_vars

-----------------------------------------------------------------------------
(* Properties.                                                              *)

Reservations == [id : Nat, item : Items, at : Locations, qty : Quantities]

Tallies == [status : {"NONE", "COUNTED", "DRAFT", "APPROVED"}, at : Locations \cup {Nowhere},
            variance : [Items -> Int]]

Requests ==
  [kind : Kinds, stage : Stages, no : 0 .. MaxBegun, lines : Seq(Line), at : Nat \ {0},
   doc : Counts \cup Grns \cup {0}, override : BOOLEAN, has : SUBSET Rows, before : Int,
   total : [Items -> Int], placed : [Items -> [Locations -> Int]],
   short : SUBSET (Items \X Locations), rung : SUBSET Items]

Entries == [stage : {"idle", "look", "write", "commit"}, items : Seq(Items), at : Nat \ {0},
            place : Locations \cup {Nowhere}, amounts : [Items -> Int]]

TypeOK ==
  /\ total \in [Items -> Int]
  /\ placed \in [Items -> [Locations -> Int]]
  /\ held \subseteq Reservations
  /\ grns \in [Grns -> [Items -> Int]]
  /\ counts \in [Counts -> Tallies]
  /\ entries \in [Documents -> Entries]
  /\ tx \in [Sessions -> Requests]
  /\ \A s \in Sessions : tx[s].stage \in {"lock", "look", "write"} => tx[s].at <= Len(tx[s].lines)
  /\ begun \in 0 .. MaxBegun
  /\ adjusted \in [Counts -> Nat]
  /\ overridden \subseteq Items \X Locations /\ cut \subseteq Items \X Locations

\* Nobody ever takes from a place what is not there, whoever else is posting
\* at the time and however old a count's variance is, except with the
\* permission to overdraw (checkIssue, and the check of an approval).
NotOverdrawn ==
  \A i \in Items, l \in Locations : placed[i][l] >= 0 \/ <<i, l>> \in overridden

\* What is promised at a place is there: two requests never both get the last
\* of it.  Only a count that writes the place down, or the permission to
\* overdraw, may leave less than was promised (positionAt under the item lock).
PromisedOnce ==
  \A i \in Items, l \in Locations :
    Reserved(i, l) <= placed[i][l] \/ <<i, l>> \in overridden \cup cut

\* A count's variances are posted once, all of them, when it is approved, and
\* never otherwise (the status read again under the count's lock).
AdjustedOnce ==
  \A c \in Counts : adjusted[c] = IF counts[c].status = "APPROVED" THEN 1 ELSE 0

\* No more of a receipt goes back than was accepted, however many returns of it
\* are made at once (POST /vendor-returns under the receipt's lock).
ReturnsWithinReceipt == \A g \in Grns, i \in Items : grns[g][i] >= 0

\* Approvals never wait for each other's items in a ring (ORDER BY item_id), and
\* no posting of one line is the cause of one: a ring of waits always has in it
\* a return, a goods receipt or a count being entered, with items that are not
\* in order.
Ascending(order) == \A m, n \in DOMAIN order : m < n => order[m] < order[n]

Unordered(p) ==
  IF p \in Sessions
    THEN tx[p].kind = "return" /\ ~Ascending([n \in DOMAIN tx[p].lines |-> tx[p].lines[n].item])
    ELSE ~Ascending(entries[p].items)

ApprovalsKeepOrder == \A C \in SUBSET Parties : Ring(C) => \E p \in C : Unordered(p)

\* The storekeepers are told exactly when a posting takes an item from above
\* its reorder level to it or below, and once: no other posting and no goods
\* receipt comes between a posting's two readings of the total.
NoticedOnce ==
  [][\A s \in Sessions : Commit(s) =>
       \A i \in Items : i \in tx[s].rung <=> Crosses(i, total[i], total'[i])]_vars

============================================================================
