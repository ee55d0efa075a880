-------------------------- MODULE MCSurveySessions --------------------------
(***************************************************************************)
(* The instance of SurveySessions for TLC: two filings, one sign-out.      *)
(***************************************************************************)
EXTENDS SurveySessions

OneSignOut == {[filings |-> 2, lost |-> 0, restarts |-> 1, retries |-> 0]}
============================================================================
