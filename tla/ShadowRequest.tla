--------------------------- MODULE ShadowRequest ---------------------------
(***************************************************************************)
(* Requests to the device shadow (shadow_client.c, shadow_client_manager.c *)
(* over MQTT): IOT_Shadow_Update and IOT_Shadow_Get, their _Sync forms,    *)
(* the construction that subscribes to the result topic, and the list of   *)
(* requests that await a result or their time-out.                         *)
(*                                                                         *)
(* A request is named after the thread that makes it, one per thread.  The *)
(* list is only touched under the client's mutex, and _traverse_list holds *)
(* it throughout, callbacks included: one pass is one step, and the list   *)
(* is a function from requests to the state of their timers.               *)
(* Only one thread reads from the connection: it is the one that yields,   *)
(* or, when IOT_MQTT_StartLoop was called, the loop thread of the MQTT     *)
(* client; every other call of IOT_MQTT_Yield then only sleeps.  Messages  *)
(* travel at QoS 0: they are lost and reordered, never duplicated.  The    *)
(* connection may be lost at any time; it comes back if auto_connect_enable*)
(* is set and the back-off is not exhausted, so it may stay lost for good. *)
(* A callback is set for every request, and makes no call of the client.   *)
(* Properties and deltas are left out; list_iterator_new succeeds.         *)
(***************************************************************************)
EXTENDS Integers, FiniteSets

CONSTANTS
    Callers,       \* application threads, and the requests they make
    NoRequest,
    Timeouts,      \* values of timeout_ms
    MAX_APPENDING_REQUEST_AT_ANY_GIVEN_TIME

ASSUME ShadowAssumption ==
    /\ IsFiniteSet(Callers)
    /\ NoRequest \notin Callers
    /\ Timeouts \subseteq Nat \ {0}
    /\ MAX_APPENDING_REQUEST_AT_ANY_GIVEN_TIME \in Nat

VARIABLES
    phase,          \* of the client
    link,           \* get_client_conn_state of the MQTT client
    loop,           \* the MQTT loop thread runs, nobody yields in a loop
    sync_status,    \* 1 stands for the packet id of the SUBSCRIBE
    subscribing,    \* a SUBSCRIBE awaits its SUBACK
    token_num,
    pc, tmp,        \* per thread: step of its call, value read from token_num
    sync,           \* per thread: it called the _Sync form
    timeout_ms,     \* per thread: the argument of the call
    token,          \* per request
    request_list,   \* listed requests, and whether their timer still runs
    underWay,       \* requests published whose result was not handled
    report,         \* history, per request: what its callback was told
    from,           \* history, per request: whose result that was
    discarded,      \* history: requests removed without a report
    waited,         \* history, per request: seconds its timer ran
    raced           \* history: two threads drew a token at once

clientVars == <<phase, link, loop, sync_status, subscribing>>
argVars    == <<tmp, sync, timeout_ms, token, token_num, raced>>
callVars   == <<pc, argVars>>
reports    == <<report, from, discarded>>
vars == <<clientVars, callVars, request_list, underWay, reports, waited>>

Requests == Callers
Listed   == DOMAIN request_list
Tokens   == 0..Cardinality(Callers)

Init ==
    /\ phase = "connected"
    /\ link = "up"
    /\ loop = FALSE
    /\ sync_status = 0
    /\ subscribing = FALSE
    /\ token_num = 0
    /\ pc = [t \in Callers |-> "idle"]
    /\ tmp = [t \in Callers |-> 0]
    /\ sync = [t \in Callers |-> FALSE]
    /\ timeout_ms = [t \in Callers |-> 0]
    /\ token = [r \in Requests |-> 0]
    /\ request_list = << >>
    /\ underWay = {}
    /\ report = [r \in Requests |-> "none"]
    /\ from = [r \in Requests |-> NoRequest]
    /\ waited = [r \in Requests |-> 0]
    /\ discarded = {}
    /\ raced = FALSE

----------------------------------------------------------------------------
(* Construction and destruction.                                           *)

\* IOT_Shadow_Construct subscribes to the result topic; a failure is logged
\* and leaves sync_status as if it had succeeded.
subscribe_operation_result_to_cloud ==
    /\ phase = "connected"
    /\ \/ phase' = "ready" /\ UNCHANGED <<sync_status, subscribing>>
       \/ phase' = "sync" /\ sync_status' = 1 /\ subscribing' = TRUE
    /\ UNCHANGED <<link, loop, callVars, request_list, underWay, reports, waited>>

\* Mutant: only the SUBACK is told to the loop of the construction.
_shadow_event_handler_NoTimeout(event) ==
    /\ subscribing
    /\ phase \in {"sync", "ready"}
    /\ link = "up"
    /\ subscribing' = FALSE
    /\ sync_status' = IF sync_status <= 0 \/ event # "SUCCESS"
                      THEN sync_status ELSE 0
    /\ UNCHANGED <<phase, link, loop, callVars, request_list, underWay, reports, waited>>

\* The MQTT client reports the SUBACK, a refusal or the time-out: its yield
\* comes to either only while it is connected.
_shadow_event_handler(event) ==
    /\ subscribing
    /\ phase \in {"sync", "ready"}
    /\ link = "up"
    /\ subscribing' = FALSE
    /\ sync_status' = IF sync_status <= 0 THEN sync_status
                      ELSE IF event = "SUCCESS" THEN 0 ELSE -1
    /\ UNCHANGED <<phase, link, loop, callVars, request_list, underWay, reports, waited>>

\* The loop of IOT_Shadow_Construct ends when sync_status changed, and only
\* then: it ignores what IOT_Shadow_Yield returns.
ConstructReturns ==
    /\ phase = "sync"
    /\ sync_status # 1
    /\ phase' = "ready"
    /\ UNCHANGED <<link, loop, sync_status, subscribing, callVars, request_list,
                   underWay, reports, waited>>

\* The MQTT client finds, while it yields, that the connection is lost.
ConnectionLost ==
    /\ phase \in {"sync", "ready"}
    /\ link = "up"
    /\ link' = "down"
    /\ UNCHANGED <<phase, loop, sync_status, subscribing, callVars, request_list,
                   underWay, reports, waited>>

\* It reconnects, which it may never do.
Reconnected ==
    /\ phase \in {"sync", "ready"}
    /\ link = "down"
    /\ link' = "up"
    /\ UNCHANGED <<phase, loop, sync_status, subscribing, callVars, request_list,
                   underWay, reports, waited>>

\* The application starts the loop thread instead of yielding itself.
IOT_MQTT_StartLoop ==
    /\ phase = "ready" /\ ~loop
    /\ \A t \in Callers : pc[t] = "idle"
    /\ loop' = TRUE
    /\ UNCHANGED <<phase, link, sync_status, subscribing, callVars, request_list,
                   underWay, reports, waited>>

\* No thread is inside a call.  The pending requests are freed.
IOT_Shadow_Destroy ==
    /\ phase = "ready"
    /\ \A t \in Callers : pc[t] \in {"idle", "ok", "error", "returned"}
    /\ phase' = "destroyed"
    /\ request_list' = << >>
    /\ discarded' = discarded \cup Listed
    /\ underWay' = {}
    /\ UNCHANGED <<link, loop, sync_status, subscribing, callVars, report, from,
                   waited>>

----------------------------------------------------------------------------
(* IOT_Shadow_Update, IOT_Shadow_Get and their _Sync forms.                *)

\* The call of t ends, or goes on, with pc = next.
Goes(t, next) == pc' = [pc EXCEPT ![t] = next]

Begin(t) ==
    /\ phase = "ready"
    /\ pc[t] = "idle"
    /\ Goes(t, "begin")
    /\ UNCHANGED <<clientVars, argVars, request_list, underWay, reports, waited>>

NotConnected(t) ==
    /\ pc[t] = "begin"
    /\ link = "down"
    /\ Goes(t, "error")
    /\ UNCHANGED <<clientVars, argVars, request_list, underWay, reports, waited>>

\* A subscription that failed is tried again, without waiting for its
\* outcome.  token_num is read (for an update, when its document was built);
\* no lock is held.
ReadToken(t) ==
    /\ pc[t] = "begin"
    /\ link = "up"
    /\ subscribing' \in {subscribing, subscribing \/ sync_status < 0}
    /\ tmp' = [tmp EXCEPT ![t] = token_num]
    /\ raced' = (raced \/ \E u \in Callers : pc[u] = "token")
    /\ Goes(t, "token")
    /\ UNCHANGED <<phase, link, loop, sync_status, sync, timeout_ms, token,
                   token_num, request_list, underWay, reports, waited>>

StoreToken(t) ==
    /\ pc[t] = "token"
    /\ token' = [token EXCEPT ![t] = tmp[t]]
    /\ token_num' = tmp[t] + 1
    /\ tmp' = [tmp EXCEPT ![t] = 0]
    /\ Goes(t, "publish")
    /\ UNCHANGED <<clientVars, sync, timeout_ms, raced, request_list,
                   underWay, reports, waited>>

\* do_shadow_request: the document is published before it is on the list.
_publish_operation_to_cloud(t) ==
    /\ pc[t] = "publish"
    /\ link = "up"
    /\ underWay' = underWay \cup {t}
    /\ Goes(t, "list")
    /\ UNCHANGED <<clientVars, argVars, request_list, reports, waited>>

\* The document has no room for its type, or MQTT refuses it.
PublishFails(t) ==
    /\ pc[t] = "publish"
    /\ Goes(t, "error")
    /\ UNCHANGED <<clientVars, argVars, request_list, underWay, reports, waited>>

\* _init_request_params takes the seconds as a uint8_t.
timeout_sec(ms) == (ms \div 1000) % 256

ListFull == Cardinality(Listed) >= MAX_APPENDING_REQUEST_AT_ANY_GIVEN_TIME

\* The node is pushed and its timer started; a timer of 0 seconds has run
\* out.  The asynchronous call returns, the other one begins to yield.  (The
\* two arguments are chosen here: nothing before depends on them.)
_add_request_to_list(t, b, ms) ==
    /\ pc[t] = "list"
    /\ ~ListFull
    /\ sync' = [sync EXCEPT ![t] = b]
    /\ timeout_ms' = [timeout_ms EXCEPT ![t] = ms]
    /\ request_list' = [r \in Listed \cup {t} |->
                          IF r # t THEN request_list[r]
                          ELSE IF timeout_sec(ms) = 0 THEN "expired"
                          ELSE "running"]
    /\ Goes(t, IF b THEN "wait" ELSE "ok")
    /\ UNCHANGED <<clientVars, tmp, token, token_num, raced, underWay, reports,
                   waited>>

\* The list is full, or there is no memory: an error, although published.
AddFails(t) ==
    /\ pc[t] = "list"
    /\ Goes(t, "error")
    /\ UNCHANGED <<clientVars, argVars, request_list, underWay, reports, waited>>

\* The caller of a _Sync form yields until _update_ack_cb was called.
SyncReturns(t) ==
    /\ pc[t] = "wait"
    /\ report[t] # "none"
    /\ Goes(t, "returned")
    /\ UNCHANGED <<clientVars, argVars, request_list, underWay, reports, waited>>

Call(t) ==
    \/ Begin(t) \/ NotConnected(t) \/ ReadToken(t) \/ StoreToken(t)
    \/ _publish_operation_to_cloud(t) \/ PublishFails(t)
    \/ \E b \in BOOLEAN, ms \in Timeouts : _add_request_to_list(t, b, ms)
    \/ AddFails(t) \/ SyncReturns(t)

----------------------------------------------------------------------------
(* Yielding.                                                               *)

\* The callbacks of R are called; a second call is an error.
Told(R, what) ==
    [r \in Requests |-> IF r \notin R THEN report[r]
                        ELSE IF report[r] = "none" THEN what ELSE "again"]

Without(R) == [r \in Listed \ R |-> request_list[r]]

\* Mutant: every request is matched, as if there was never more than one.
Matching_Any(m) == Listed

\* The requests with the token that the result of request m carries.
Matching(m) == {r \in Listed : token[r] = token[m]}

\* Mutant: the node of a request that was reported stays on the list.
_handle_request_callback_Keeps(m, readable) ==
    /\ request_list' = request_list
    /\ report' = IF readable THEN Told(Matching(m), "answer") ELSE report
    /\ from' = [r \in Requests |-> IF readable /\ r \in Matching(m)
                                   THEN m ELSE from[r]]
    /\ discarded' = discarded \cup (IF readable THEN {} ELSE Matching(m))

\* Accepted or rejected, the callback is told; a message whose result code
\* cannot be read removes the request without a word.
_handle_request_callback(m, readable) ==
    /\ request_list' = Without(Matching(m))
    /\ report' = IF readable THEN Told(Matching(m), "answer") ELSE report
    /\ from' = [r \in Requests |-> IF readable /\ r \in Matching(m)
                                   THEN m ELSE from[r]]
    /\ discarded' = discarded \cup (IF readable THEN {} ELSE Matching(m))

\* The thread that reads has the result of request m.  (A request or result
\* that is lost stays under way; the handler drops a message that is too long
\* or has no type or token, which is no different.)
_on_operation_result_handler(m) ==
    /\ phase = "ready"
    /\ link = "up"
    /\ m \in underWay
    /\ underWay' = underWay \ {m}
    /\ \E readable \in BOOLEAN : _handle_request_callback(m, readable)
    /\ UNCHANGED <<clientVars, callVars, waited>>

\* IOT_Shadow_Yield is called: by the application unless it relies on the
\* loop thread, which calls the MQTT client's yield only; and by the threads
\* inside a _Sync call.
Yielding == phase = "ready" /\ (~loop \/ \E t \in Callers : pc[t] = "wait")

\* Mutant: the timers are not looked at.
Expired_Any(r) == TRUE

Expired(r) == request_list[r] = "expired"

\* IOT_Shadow_Yield begins with the requests whose timer has run out,
\* whether or not there is a connection.
handle_expired_request ==
    LET ended == {r \in Listed : Expired(r)} IN
    /\ Yielding
    /\ ended # {}
    /\ request_list' = Without(ended)
    /\ report' = Told(ended, "timeout")
    /\ UNCHANGED <<clientVars, callVars, underWay, from, discarded, waited>>

----------------------------------------------------------------------------
(* The clock.                                                              *)

TimerExpires(r) ==
    /\ r \in Listed
    /\ request_list[r] = "running"
    /\ request_list' = [request_list EXCEPT ![r] = "expired"]
    /\ waited' = [waited EXCEPT ![r] = timeout_sec(timeout_ms[r])]
    /\ UNCHANGED <<clientVars, callVars, underWay, reports>>

----------------------------------------------------------------------------
Client ==
    \/ subscribe_operation_result_to_cloud \/ ConstructReturns
    \/ \E event \in {"SUCCESS", "NACK", "TIMEOUT"} :
         _shadow_event_handler(event)
    \/ ConnectionLost \/ Reconnected
    \/ IOT_MQTT_StartLoop
    \/ IOT_Shadow_Destroy

Next ==
    \/ Client
    \/ \E t \in Callers : Call(t)
    \/ \E m \in Requests : _on_operation_result_handler(m)
    \/ handle_expired_request
    \/ \E r \in Requests : TimerExpires(r)

Spec == Init /\ [][Next]_vars

\* Calls and the construction go on, whoever yields keeps yielding, timers
\* run out; the MQTT client tells the outcome of its SUBSCRIBE, at least its
\* time-out, if the connection stays.  Nothing says that it stays or comes
\* back, and neither the server nor the network is fair.
Fairness ==
    /\ WF_vars(\E t \in Callers : pc[t] # "idle" /\ Call(t))
    /\ WF_vars(subscribe_operation_result_to_cloud \/ ConstructReturns)
    /\ WF_vars(\E event \in {"SUCCESS", "NACK", "TIMEOUT"} :
                 _shadow_event_handler(event))
    /\ WF_vars(handle_expired_request)
    /\ WF_vars(\E r \in Requests : TimerExpires(r))

FairSpec == Spec /\ Fairness

----------------------------------------------------------------------------
(* Properties.                                                             *)

\* The values of the client's fields, the threads' locals and the histories;
\* the list never holds more than its limit, although requests are published
\* before there is room for them.
TypeOK ==
    /\ phase \in {"connected", "sync", "ready", "destroyed"}
    /\ link \in {"up", "down"}
    /\ loop \in BOOLEAN
    /\ sync_status \in {-1, 0, 1}
    /\ subscribing \in BOOLEAN
    /\ token_num \in Tokens
    /\ pc \in [Callers -> {"idle", "begin", "token", "publish", "list", "wait",
                           "ok", "error", "returned"}]
    /\ tmp \in [Callers -> Tokens]
    /\ sync \in [Callers -> BOOLEAN]
    /\ timeout_ms \in [Callers -> Timeouts \cup {0}]
    /\ token \in [Requests -> Tokens]
    /\ Listed \subseteq Requests
    /\ Cardinality(Listed) <= MAX_APPENDING_REQUEST_AT_ANY_GIVEN_TIME
    /\ request_list \in [Listed -> {"running", "expired"}]
    /\ underWay \subseteq Requests
    /\ report \in [Requests -> {"none", "answer", "timeout", "again"}]
    /\ from \in [Requests -> Requests \cup {NoRequest}]
    /\ waited \in [Requests -> 0..255]
    /\ discarded \subseteq Requests
    /\ raced \in BOOLEAN

\* A request keeps the promise stated by RequestPromise: _update_ack_cb, which
\* writes to the stack of the thread inside the _Sync call, runs once and
\* before that call returns; a request that was refused after it was
\* published is never reported, whenever its result comes.
Promise == INSTANCE RequestPromise WITH
    result <- [r \in Requests |-> IF pc[r] = "idle" THEN "none"
                                  ELSE IF pc[r] \in {"ok", "returned"} THEN "ok"
                                  ELSE IF pc[r] = "error" THEN "error"
                                  ELSE "calling"]
KeepsPromise == Promise!PSpec

\* The result a request is reported with is its own, unless two threads drew
\* a token at the same time: nothing protects token_num, and one result then
\* completes both requests.
OwnResult == ~raced => \A r \in Requests : from[r] \in {NoRequest, r}

\* A request that is reported as timed out had the milliseconds that
\* qcloud_iot_export_shadow.h documents for timeout_ms if, and only if, they
\* are whole seconds that a uint8_t counts: any other request times out early,
\* one of less than a second or of a multiple of 256 s at the next yield.
WaitsItsTime ==
    \A r \in Requests :
        report[r] = "timeout" =>
            (1000 * waited[r] >= timeout_ms[r]
               <=> timeout_ms[r] % 1000 = 0 /\ timeout_ms[r] < 256000)

\* Every request that is accepted is reported in the end although every
\* message, and the connection, may be lost; except one that was discarded
\* (its result could not be read: a _Sync call then never returns, or the
\* client was destroyed), and asynchronous ones when the application relies
\* on the loop thread: it does not look at the timers.  The construction ends,
\* unless the connection is lost for good, or again and again, before the
\* outcome of its SUBSCRIBE is told: its loop then never ends.
EventuallyReported ==
    /\ <>[](\A r \in Requests :
               pc[r] \in {"ok", "wait"} =>
                 \/ report[r] # "none" /\ pc[r] # "wait"
                 \/ r \in discarded
                 \/ loop /\ ~sync[r])
    /\ \/ <>(phase \in {"ready", "destroyed"})
       \/ []<>(phase = "sync" /\ subscribing /\ link = "down")
============================================================================
