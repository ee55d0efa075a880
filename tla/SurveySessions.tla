-------------------------- MODULE SurveySessions --------------------------
(***************************************************************************)
(* SurveyOutbox with a sign-out and a sign-in of the same account while a  *)
(* request is on the wire.                                                 *)
(*                                                                         *)
(* Signing out closes the database handle the flush holds; signing in      *)
(* opens another, and the open recovers what was on the wire               *)
(* (apps/mobile/src/sync/dbCore.ts).  The flush and its executor are not   *)
(* stopped: the executor's saves go through the new handle, the flush's    *)
(* own updates through the closed one.                                     *)
(***************************************************************************)
EXTENDS SurveyOutbox

VARIABLE stale   \* the flush that still runs belongs to the closed handle

ResumedVars == <<vars, stale>>

\* setActiveAccount(null), setActiveAccount(the same), getDb.
SignOutAndIn ==
  /\ exec.phase \in Asking
  /\ Within(Filings, lost, restarts + 1, retries)
  /\ restarts' = restarts + 1
  /\ rows' = Recovered(rows)
  /\ stale' = TRUE
  /\ UNCHANGED <<forms, seen, exec, late, server, history, cut, retries, lost>>

\* settleChain finds its rows through the new handle; the update that should
\* follow is made on the closed one and throws, unless the row was absorbed.
StaleSettle ==
  /\ exec.phase = "settle" /\ stale
  /\ LET row == rows[exec.op]
         newer == Newest(rows, Behind)
         list == Chain(row, rows[newer].prior, PostKey(exec.op), TRUE, TRUE)
         told == [rows[newer] EXCEPT !.prior = Trim(list), !.raw = FALSE,
                                     !.base = IF @ = 0 THEN row.base ELSE @]
     IN /\ rows' = IF Behind = {} THEN rows
                   ELSE [rows EXCEPT ![newer] = told,
                           ![exec.op] = IF exec.verdict = "TRANSPORT" THEN NoRow ELSE row]
        /\ cut' = IF Behind = {} THEN cut ELSE CutFrom(newer, list)
  /\ exec' = Resting
  /\ stale' = FALSE
  /\ UNCHANGED <<forms, seen, late, server, history, counters>>

ResumedInit == Init /\ stale = FALSE

ResumedNext ==
  \/ SignOutAndIn \/ StaleSettle
  \/ (exec.phase = "settle" /\ stale => exec' = exec) /\ Next /\ UNCHANGED stale

ResumedSpec == ResumedInit /\ [][ResumedNext]_ResumedVars

============================================================================
