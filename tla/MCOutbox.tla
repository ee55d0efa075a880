----------------------------- MODULE MCOutbox -----------------------------
(***************************************************************************)
(* Instances of Outbox for TLC: the two punches of a day, the second of    *)
(* which the server takes only after the first.                            *)
(***************************************************************************)
EXTENDS Outbox

CONSTANTS checkIn, checkOut, say, unsay

InAndOut   == {checkIn, checkOut}
OneThing   == {say}
TwoThings  == {say, unsay}

SayOne     == [r \in Records |-> OneThing]
TwoThenOne == [r \in Records |-> IF r = checkIn THEN TwoThings ELSE OneThing]

InBeforeOut == [r \in Records |-> IF r = checkOut THEN {checkIn} \cap Records ELSE {}]
PunchesOnly == Records \cap {checkIn, checkOut}
============================================================================
