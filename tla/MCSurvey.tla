------------------------------ MODULE MCSurvey ------------------------------
(***************************************************************************)
(* Instances of SurveyOutbox for TLC: three filings with one reply lost,   *)
(* or two filings with every fault; and three filings of which the crew    *)
(* puts back failed ones.                                                  *)
(***************************************************************************)
EXTENDS SurveyOutbox

ThreeFilings == [filings |-> 3, lost |-> 1, restarts |-> 0, retries |-> 0]
EveryFault   == [filings |-> 2, lost |-> 2, restarts |-> 1, retries |-> 1]

ManyOrFaulty == {ThreeFilings, EveryFault}
PutBack      == {[filings |-> 3, lost |-> 2, restarts |-> 0, retries |-> 2]}
============================================================================
