----------------------------- MODULE QueryCall -----------------------------
(***************************************************************************)
(* What a caller of MySqlConnection may rely on, whichever of execute and  *)
(* prepared it calls and whatever the network does meanwhile: how often    *)
(* the server may run the query, and what the returned value then means.   *)
(* Nothing is said of statements, caches or sessions.                      *)
(***************************************************************************)
EXTENDS Naturals

CONSTANT MaxRuns        \* runs of one query when reconnects are allowed

VARIABLES phase,        \* "idle" between calls, "running" during one
          allow,        \* may this connection reconnect and retry
          runs,         \* how often the server ran the query of this call
          silent,       \* the call ended with a failure nobody is told of
          outcome       \* "none", then "pending", then "success" or "error"

vars == <<phase, allow, runs, silent, outcome>>

Init == /\ phase = "idle" /\ allow = TRUE
        /\ runs = 0 /\ silent = FALSE /\ outcome = "none"

\* Without reconnects a query runs at most once.
Limit == IF allow THEN MaxRuns ELSE 1

SetAllow == phase = "idle" /\ allow' \in BOOLEAN /\ UNCHANGED <<phase, runs, silent, outcome>>

Begin == /\ phase = "idle"
         /\ phase' = "running" /\ runs' = 0 /\ silent' = FALSE /\ outcome' = "pending"
         /\ UNCHANGED allow

Run == /\ phase = "running" /\ runs < Limit
       /\ runs' = runs + 1
       /\ UNCHANGED <<phase, allow, silent, outcome>>

\* The call returns, possibly in the step in which the server runs the query
\* once more (its answer is lost and the call gives up).  A success reported
\* without reconnects means the query ran exactly once, unless the client
\* library failed on its own and left no error where the call looks for one.
Return == /\ phase = "running" /\ phase' = "idle"
          /\ runs' \in {runs, runs + 1} /\ runs' <= Limit
          /\ outcome' \in {"success", "error"} /\ silent' \in BOOLEAN
          /\ outcome' = "success" /\ ~allow /\ ~silent' => runs' = 1
          /\ UNCHANGED allow

Next == SetAllow \/ Begin \/ Run \/ Return

Spec == Init /\ [][Next]_vars
=============================================================================
