--------------------------- MODULE RequestPromise ---------------------------
(***************************************************************************)
(* What the application may rely on for each request it sends to the       *)
(* server and awaits an answer to, over CoAP or over the device shadow:    *)
(* the call is accepted or rejected once; an accepted request is reported  *)
(* at most once, either as answered or as timed out; a rejected one is     *)
(* never reported.  The report may come before the call has returned.      *)
(***************************************************************************)
CONSTANT Requests

VARIABLES
    result,    \* outcome of each call
    report     \* what the request's callback was told

promiseVars == <<result, report>>

Outcomes == {"answer", "timeout"}

PInit ==
    /\ result = [r \in Requests |-> "none"]
    /\ report = [r \in Requests |-> "none"]

Begin(r) ==
    /\ result[r] = "none"
    /\ result' = [result EXCEPT ![r] = "calling"]
    /\ UNCHANGED report

Accept(r) ==
    /\ result[r] = "calling"
    /\ result' = [result EXCEPT ![r] = "ok"]
    /\ UNCHANGED report

Reject(r) ==
    /\ result[r] = "calling"
    /\ report[r] = "none"
    /\ result' = [result EXCEPT ![r] = "error"]
    /\ UNCHANGED report

\* One pass over the list of pending requests may report several of them.
Report ==
    /\ report' \in [Requests -> Outcomes \cup {"none"}]
    /\ \A r \in Requests : report'[r] # report[r] =>
         /\ report[r] = "none"
         /\ result[r] \in {"calling", "ok"}
    /\ UNCHANGED result

PNext ==
    \/ \E r \in Requests : Begin(r) \/ Accept(r) \/ Reject(r)
    \/ Report

PSpec == PInit /\ [][PNext]_promiseVars
============================================================================
