-------------------------- MODULE SurveyRequests --------------------------
(***************************************************************************)
(* What a survey return remembers of the requests that may have carried    *)
(* it, and the village-day the server keeps.                               *)
(*                                                                         *)
(* A crew files one return per village and day.  A second filing becomes   *)
(* an amendment, and to tell its own earlier work from somebody else's the *)
(* phone carries, in the queued payload, the list of requests it may       *)
(* already have delivered (apps/mobile/src/sync/surveyEntryOp.ts).  The    *)
(* server numbers the day's versions and keeps a receipt per key           *)
(* (apps/api/src/modules/survey/routes.ts, common/domain.ts).              *)
(*                                                                         *)
(* The measures, rovers and notes of a return are one figure here: two     *)
(* bodies are the same exactly when their figures are.                     *)
(***************************************************************************)
EXTENDS Integers, Sequences, SequencesExt

CONSTANT PriorMax   \* PRIOR_MAX (8 in the code)

ASSUME PriorMaxAssumption == PriorMax \in Nat \ {0}

-----------------------------------------------------------------------------
(* Requests.  A key is <<op, base, fig>>: a POST goes under its operation's *)
(* own key, written <<op, 0, 0>>; an amendment has a key per base and body. *)

PostKey(op) == <<op, 0, 0>>
AmendKey(op, base, fig) == <<op, base, fig>>

IsPost(request) == request.key[2] = 0
BaseOf(request) == request.key[2]

\* nth, the filing a request speaks for, is carried for the properties only.
Request(key, fig, nth) == [key |-> key, fig |-> fig, nth |-> nth]

\* A remembered request; landed is the version its reply gave, 0 if unknown.
Remembered(request, landed) ==
  [key |-> request.key, fig |-> request.fig, nth |-> request.nth, landed |-> landed]

SameRequest(p, q) == p.key = q.key /\ p.fig = q.fig

IndexOf(list, p) == SelectInSeq(list, LAMBDA q : SameRequest(q, p))

-----------------------------------------------------------------------------
(* trim: each request once, of the landed only the latest, and no other     *)
(* body under that one's key; past PriorMax the oldest go, those that are   *)
(* not the first under their key before the others.                         *)

Once(list) ==
  LET add(out, p) ==
        LET i == IndexOf(out, p)
        IN  IF i = 0 THEN Append(out, p)
            ELSE IF p.landed > 0 THEN [out EXCEPT ![i] = p] ELSE out
  IN  FoldLeft(add, <<>>, list)

\* Where the latest landed request is, 0 if none is known to have landed.
BestIndex(list) ==
  SelectInSeq(list, LAMBDA p : p.landed > 0
                      /\ \A i \in DOMAIN list : list[i].landed <= p.landed)

\* What is left of a list, in its order.
Filter(list, kept) ==
  FoldLeft(LAMBDA out, p : IF p \in kept THEN Append(out, p) ELSE out, <<>>, list)

Relevant(list) ==
  LET b == BestIndex(list)
  IN  IF b = 0 THEN list
      ELSE Filter(list, {p \in Range(list) :
                           p = list[b] \/ (p.landed = 0 /\ p.key # list[b].key)})

FirstOfKey(list, i) == \A j \in 1 .. i - 1 : list[j].key # list[i].key

Victim(list) ==
  LET others  == {i \in DOMAIN list : i # BestIndex(list)}
      repeats == {i \in others : ~FirstOfKey(list, i)}
      least(S) == CHOOSE i \in S : \A j \in S : i <= j
  IN  IF repeats # {} THEN least(repeats) ELSE least(others)

\* There is more to keep than there is room for.
Overflows(list) == Len(Relevant(Once(list))) > PriorMax

MutTrimWithoutLimit(list) == Relevant(Once(list))

Trim(list) ==
  LET kept == Relevant(Once(list))
      shorten(out, p) == IF Len(out) > PriorMax THEN RemoveAt(out, Victim(out)) ELSE out
  IN  FoldLeft(shorten, kept, kept)

\* learn: what a reply taught about one request of the list.
Landed(list, request, version) ==
  LET i == IndexOf(list, request)
  IN  IF i = 0 THEN list ELSE Trim([list EXCEPT ![i].landed = version])

Dropped(list, request) == Filter(list, {q \in Range(list) : ~SameRequest(q, request)})

-----------------------------------------------------------------------------
(* supersedeSurveyEntry and handOver: the list a newer filing starts with,  *)
(* given the older row, its key, and whether its own body may have gone.    *)

Chain(older, newer, key, sent, sending) ==
  LET unknown == \A i \in DOMAIN older.prior : older.prior[i].key # key
      own == IF sent /\ (sending \/ unknown)
               THEN <<Remembered(Request(key, older.fig, older.nth), 0)>> ELSE <<>>
  IN  newer \o older.prior \o own

-----------------------------------------------------------------------------
(* The server.  day is the sequence of versions the village-day has had;    *)
(* receipts the keys that were accepted, with their bodies and versions.    *)

Version(day) == Len(day)

Receipt(receipts, request) == {k \in receipts : k.key = request.key}

MutTakesAnyVersion(day, receipts, request) ==
  Receipt(receipts, request) = {} /\ (IsPost(request) => day = <<>>)

\* A first request: a POST makes the day once, an amendment needs its version.
Takes(day, receipts, request) ==
  /\ Receipt(receipts, request) = {}
  /\ IF IsPost(request) THEN day = <<>> ELSE Version(day) = BaseOf(request)

Written(day, request) ==
  Append(day, [by |-> "crew", fig |-> request.fig, nth |-> request.nth, key |-> request.key])

Receipted(receipts, day, request) ==
  receipts \cup {[key |-> request.key, fig |-> request.fig, version |-> Version(day) + 1]}

\* The answer to a request: its version, or why it was refused.
ReplyTo(day, receipts, request) ==
  LET kept == Receipt(receipts, request) IN
  IF kept # {}
    THEN LET k == CHOOSE k \in kept : TRUE
         IN  IF k.fig = request.fig THEN [kind |-> "ok", version |-> k.version]
                                    ELSE [kind |-> "reused", version |-> 0]
  ELSE IF Takes(day, receipts, request) THEN [kind |-> "ok", version |-> Version(day) + 1]
  ELSE [kind |-> IF IsPost(request) THEN "entered" ELSE "moved", version |-> 0]

============================================================================
