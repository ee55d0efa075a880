---------------------------- MODULE OncePerKey ----------------------------
(***************************************************************************)
(* What a client may rely on when it sends a write with an Idempotency-Key *)
(* (the contract of mutate and mutationRoute, apps/api/src/common).        *)
(*                                                                         *)
(* A key takes effect once, in one indivisible step, with one body.  A     *)
(* client told "applied" sent exactly that body; one told "mismatch" sent  *)
(* another; "refused" promises nothing, and may be followed by anything.   *)
(***************************************************************************)
EXTENDS Naturals

CONSTANTS
  Keys,     \* idempotency keys, each of one user
  Bodies,   \* what can be asked under a key
  Nothing   \* not a body

VARIABLES
  applied,  \* the body each key took effect with, or Nothing
  effects,  \* how often each key took effect
  answers   \* the answers given: key, body and verdict

vars == <<applied, effects, answers>>

Verdicts == {"applied", "mismatch", "refused"}

Init ==
  /\ applied = [k \in Keys |-> Nothing]
  /\ effects = [k \in Keys |-> 0]
  /\ answers = {}

Apply(k, b) ==
  /\ applied[k] = Nothing
  /\ applied' = [applied EXCEPT ![k] = b]
  /\ effects' = [effects EXCEPT ![k] = 1]
  /\ UNCHANGED answers

Tell(k, b, verdict) ==
  /\ verdict = "applied" => applied[k] = b
  /\ verdict = "mismatch" => applied[k] \notin {b, Nothing}
  /\ answers' = answers \cup {<<k, b, verdict>>}
  /\ UNCHANGED <<applied, effects>>

Next ==
  \E k \in Keys, b \in Bodies :
    \/ Apply(k, b)
    \/ \E verdict \in Verdicts : Tell(k, b, verdict)

Spec == Init /\ [][Next]_vars

============================================================================
