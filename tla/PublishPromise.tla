--------------------------- MODULE PublishPromise ---------------------------
(***************************************************************************)
(* What the application may rely on for each QoS 1 publish: the call is    *)
(* accepted or rejected once; the success event is raised at most once and *)
(* never for a rejected publish; the timeout event is raised at most once  *)
(* and never after the success event.  As long as the call returns within  *)
(* the timeout, a timeout event means an accepted publish; of a late call  *)
(* it says nothing: the call may still return an error.                    *)
(***************************************************************************)
CONSTANT Publishes

VARIABLES
    result,    \* outcome of each publish call
    events,    \* events raised for each publish
    late       \* publishes whose timeout passed before the call returned

promiseVars == <<result, events, late>>

Events == {"PUBLISH_SUCCESS", "PUBLISH_TIMEOUT"}

PInit ==
    /\ result = [p \in Publishes |-> "none"]
    /\ events = [p \in Publishes |-> {}]
    /\ late = {}

Begin(p) ==
    /\ result[p] = "none"
    /\ result' = [result EXCEPT ![p] = "calling"]
    /\ UNCHANGED <<events, late>>

\* The time given to the publish passes while the call is still running.
Lapse(p) ==
    /\ result[p] = "calling"
    /\ late' = late \cup {p}
    /\ UNCHANGED <<result, events>>

Accept(p) ==
    /\ result[p] = "calling"
    /\ result' = [result EXCEPT ![p] = "ok"]
    /\ UNCHANGED <<events, late>>

Reject(p) ==
    /\ result[p] = "calling"
    /\ "PUBLISH_SUCCESS" \notin events[p]
    /\ events[p] = {} \/ p \in late
    /\ result' = [result EXCEPT ![p] = "error"]
    /\ UNCHANGED <<events, late>>

\* The server may answer before the call has returned.
Succeed(p) ==
    /\ result[p] \in {"calling", "ok"}
    /\ "PUBLISH_SUCCESS" \notin events[p]
    /\ events' = [events EXCEPT ![p] = @ \cup {"PUBLISH_SUCCESS"}]
    /\ UNCHANGED <<result, late>>

TimeOut(p) ==
    /\ result[p] = "ok" \/ p \in late
    /\ events[p] = {}
    /\ events' = [events EXCEPT ![p] = {"PUBLISH_TIMEOUT"}]
    /\ UNCHANGED <<result, late>>

PNext == \E p \in Publishes :
    \/ Begin(p) \/ Lapse(p) \/ Accept(p) \/ Reject(p)
    \/ Succeed(p) \/ TimeOut(p)

PSpec == PInit /\ [][PNext]_promiseVars
============================================================================
