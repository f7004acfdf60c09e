------------------------ MODULE ShadowRequestProofs ------------------------
(***************************************************************************)
(* Proofs about ShadowRequest, for any number of threads, any time-outs    *)
(* and any length of the list of pending requests.                         *)
(***************************************************************************)
EXTENDS ShadowRequest, TLAPS, FiniteSetTheorems

Steps == {"idle", "begin", "token", "publish", "list", "wait", "ok", "error",
          "returned"}

\* The typed part of the state without the Boolean fields and the limits.
\* No callback is called again.
DataOK ==
    /\ phase \in {"connected", "sync", "ready", "destroyed"}
    /\ link \in {"up", "down"}
    /\ sync_status \in {-1, 0, 1}
    /\ token_num \in Nat
    /\ pc \in [Callers -> Steps]
    /\ tmp \in [Callers -> Nat]
    /\ timeout_ms \in [Callers -> Timeouts \cup {0}]
    /\ token \in [Requests -> Nat]
    /\ Listed \subseteq Requests
    /\ request_list \in [Listed -> {"running", "expired"}]
    /\ underWay \subseteq Requests
    /\ report \in [Requests -> {"none", "answer", "timeout"}]
    /\ from \in [Requests -> Requests \cup {NoRequest}]
    /\ waited \in [Requests -> 0..255]
    /\ discarded \subseteq Requests

FlagsOK ==
    /\ loop \in BOOLEAN
    /\ subscribing \in BOOLEAN
    /\ sync \in [Callers -> BOOLEAN]
    /\ raced \in BOOLEAN

\* A listed request was accepted, or its caller waits, and has not been
\* reported; a call that has not come to the list has not been reported and
\* its timer has not run; what is under way has been published.
CallFits ==
    /\ \A r \in Listed : pc[r] \in {"wait", "ok"} /\ report[r] = "none"
    /\ \A t \in Callers : pc[t] \in {"idle", "begin", "token", "publish", "list",
                                     "error"}
                            => report[t] = "none" /\ waited[t] = 0
    /\ \A t \in underWay : pc[t] \in {"list", "wait", "ok", "returned", "error"}

\* Requests that have drawn a token and may be matched by it.
Drawn == {t \in Callers : \/ pc[t] \in {"publish", "list", "wait", "ok", "returned"}
                          \/ t \in underWay}

\* While the threads draw one after the other, tokens are below token_num and
\* distinct, and the thread between read and store has read the current one.
TokensFit ==
    ~raced =>
      /\ \A r \in Drawn : token[r] < token_num
      /\ \A r, s \in Drawn : token[r] = token[s] => r = s
      /\ \A t \in Callers : pc[t] = "token" => tmp[t] = token_num
      /\ \A t, u \in Callers : pc[t] = "token" /\ pc[u] = "token" => t = u

\* A timer runs its seconds, once.
TimerFits ==
    /\ \A r \in Listed :
         waited[r] = IF request_list[r] = "expired"
                     THEN timeout_sec(timeout_ms[r]) ELSE 0
    /\ \A r \in Requests : report[r] = "timeout" =>
         waited[r] = timeout_sec(timeout_ms[r])

IInv == DataOK /\ FlagsOK /\ CallFits /\ TokensFit /\ TimerFits /\ OwnResult

----------------------------------------------------------------------------
(* Facts about the operators.                                              *)

\* The seconds fit a uint8_t, and are all of ms for whole seconds below 256.
LEMMA SecondsOf ==
    ASSUME NEW ms \in Nat
    PROVE  /\ timeout_sec(ms) \in 0..255
           /\ 1000 * timeout_sec(ms) >= ms <=> ms % 1000 = 0 /\ ms < 256000
<1>1. timeout_sec(ms) \in 0..255
  BY SMT DEF timeout_sec
<1>2. CASE ms < 256000
  <2>1. timeout_sec(ms) = ms \div 1000
    BY <1>2, SMT DEF timeout_sec
  <2>2. 1000 * (ms \div 1000) >= ms <=> ms % 1000 = 0
    BY SMT
  <2> QED BY <1>2, <2>1, <2>2
<1>3. CASE ms >= 256000
  BY <1>1, <1>3, SMT
<1> QED BY <1>1, <1>2, <1>3, SMT

\* Telling requests that have not been reported changes those only.
LEMMA ToldOnce ==
    ASSUME DataOK, CallFits, NEW R, R \subseteq Listed,
           NEW what \in {"answer", "timeout"}
    PROVE  /\ Told(R, what) \in [Requests -> {"none", "answer", "timeout"}]
           /\ \A r \in R : Told(R, what)[r] = what
           /\ \A r \in Requests \ R : Told(R, what)[r] = report[r]
BY DEF DataOK, CallFits, Told

\* The rest of the list.
LEMMA WithoutFits ==
    ASSUME DataOK, NEW R, request_list' = Without(R)
    PROVE  /\ Listed' = Listed \ R
           /\ request_list' \in [Listed' -> {"running", "expired"}]
           /\ \A r \in Listed' : request_list'[r] = request_list[r]
<1>1. request_list' = [r \in Listed \ R |-> request_list[r]]
  BY DEF Without
<1>2. Listed' = Listed \ R
  BY <1>1 DEF Listed
<1>3. request_list \in [Listed -> {"running", "expired"}]
  BY DEF DataOK
<1> QED BY <1>1, <1>2, <1>3

----------------------------------------------------------------------------
(* The initial state and each step.                                        *)

\* A connected client without requests.
LEMMA InitIInv == Init => IInv
<1> SUFFICES ASSUME Init PROVE IInv
  OBVIOUS
<1> USE ShadowAssumption DEF Init
<1>1. Listed = {}
  BY DEF Listed
<1>2. request_list \in [Listed -> {"running", "expired"}]
  BY <1>1 DEF Listed
<1>3. DataOK
  BY <1>1, <1>2 DEF DataOK, Requests, Steps
<1>4. FlagsOK
  BY Zenon DEF FlagsOK
<1>5. CallFits /\ TokensFit /\ TimerFits
  BY <1>1 DEF CallFits, TokensFit, TimerFits, Drawn, Requests
<1>6. OwnResult
  BY DEF OwnResult, Requests
<1> QED BY <1>3, <1>4, <1>5, <1>6 DEF IInv

\* The construction, the loop thread and the SUBACK concern no request.
LEMMA ClientKeeps ==
    ASSUME IInv, Client, ~IOT_Shadow_Destroy PROVE IInv'
<1>1. /\ UNCHANGED <<callVars, request_list, underWay, reports, waited>>
      /\ Listed' = Listed
  BY DEF Client, subscribe_operation_result_to_cloud, ConstructReturns,
     _shadow_event_handler, ConnectionLost, Reconnected, IOT_MQTT_StartLoop, Listed
<1>2. phase' \in {"connected", "sync", "ready", "destroyed"}
  BY DEF IInv, DataOK, Client, subscribe_operation_result_to_cloud,
     ConstructReturns, _shadow_event_handler, ConnectionLost, Reconnected,
     IOT_MQTT_StartLoop
<1>3. sync_status' \in {-1, 0, 1} /\ link' \in {"up", "down"}
  BY DEF IInv, DataOK, Client, subscribe_operation_result_to_cloud,
     ConstructReturns, _shadow_event_handler, ConnectionLost, Reconnected,
     IOT_MQTT_StartLoop
<1>4. loop' \in BOOLEAN /\ subscribing' \in BOOLEAN
  BY Zenon DEF IInv, FlagsOK, Client, subscribe_operation_result_to_cloud,
     ConstructReturns, _shadow_event_handler, ConnectionLost, Reconnected,
     IOT_MQTT_StartLoop
<1>5. DataOK'
  BY <1>1, <1>2, <1>3 DEF IInv, DataOK, callVars, argVars, reports, Requests
<1>6. FlagsOK'
  BY <1>1, <1>4 DEF IInv, FlagsOK, callVars, argVars
<1>7. CallFits' /\ TokensFit' /\ TimerFits' /\ OwnResult'
  BY <1>1 DEF IInv, CallFits, TokensFit, TimerFits, OwnResult, Drawn,
     callVars, argVars, reports, timeout_sec, Requests
<1> QED BY <1>5, <1>6, <1>7 DEF IInv

\* Destroying the client empties the list.
LEMMA DestroyKeeps ==
    ASSUME IInv, IOT_Shadow_Destroy PROVE IInv'
<1>1. /\ UNCHANGED <<link, loop, sync_status, subscribing, callVars, report, from,
                     waited>>
      /\ Listed' = {} /\ request_list' = << >> /\ underWay' = {}
      /\ discarded' = discarded \cup Listed /\ phase' = "destroyed"
  BY DEF IOT_Shadow_Destroy, Listed
<1>2. request_list' \in [Listed' -> {"running", "expired"}]
  BY <1>1 DEF Listed
<1>3. DataOK'
  BY <1>1, <1>2 DEF IInv, DataOK, callVars, argVars, Requests
<1>4. FlagsOK'
  BY <1>1 DEF IInv, FlagsOK, callVars, argVars
<1>5. CallFits' /\ TokensFit' /\ TimerFits' /\ OwnResult'
  BY <1>1 DEF IInv, CallFits, TokensFit, TimerFits, OwnResult, Drawn,
     callVars, argVars, Requests, timeout_sec
<1> QED BY <1>3, <1>4, <1>5 DEF IInv

\* A step that only moves a call on, to a place that is no earlier.
LEMMA MoveKeeps ==
    ASSUME IInv, NEW t \in Callers, NEW next \in Steps, Goes(t, next),
           UNCHANGED <<clientVars, argVars, request_list, underWay, reports,
                       waited>>,
           \/ pc[t] = "idle" /\ next = "begin"
           \/ pc[t] \in {"begin", "publish", "list"} /\ next = "error"
           \/ pc[t] = "wait" /\ report[t] # "none" /\ next = "returned"
    PROVE  IInv'
<1>1. Listed' = Listed
  BY DEF Listed
<1>2. /\ pc' = [pc EXCEPT ![t] = next] /\ pc \in [Callers -> Steps]
      /\ pc' \in [Callers -> Steps]
  BY DEF Goes, IInv, DataOK
<1>3. DataOK'
  BY <1>1, <1>2 DEF IInv, DataOK, clientVars, argVars, reports, Requests
<1>4. FlagsOK'
  BY DEF IInv, FlagsOK, clientVars, argVars
<1>5. CallFits'
  BY <1>1, <1>2 DEF IInv, CallFits, reports
<1>6. Drawn' \subseteq Drawn
  BY <1>2 DEF Drawn
<1>7. TokensFit'
  <2>1. ~raced' => ~raced
    BY DEF argVars
  <2>2. \A u \in Callers : pc'[u] = "token" => pc[u] = "token"
    BY <1>2
  <2>3. Drawn' \subseteq Callers /\ UNCHANGED <<token, tmp, token_num>>
    BY DEF Drawn, argVars
  <2> QED BY <1>6, <2>1, <2>2, <2>3 DEF IInv, TokensFit
<1>8. TimerFits' /\ OwnResult'
  BY <1>1 DEF IInv, TimerFits, OwnResult, reports, argVars, timeout_sec, Requests
<1> QED BY <1>3, <1>4, <1>5, <1>7, <1>8 DEF IInv

\* A thread reads token_num: either it is the only one to do so, or the
\* threads race.
LEMMA ReadKeeps ==
    ASSUME IInv, NEW t \in Callers, ReadToken(t) PROVE IInv'
<1>1. /\ Listed' = Listed
      /\ UNCHANGED <<phase, link, sync_status, timeout_ms, token, token_num,
                     request_list, underWay, reports, waited>>
      /\ tmp' = [tmp EXCEPT ![t] = token_num]
      /\ pc[t] = "begin"
  BY DEF Listed, ReadToken
<1>2. /\ pc' = [pc EXCEPT ![t] = "token"] /\ pc \in [Callers -> Steps]
      /\ pc' \in [Callers -> Steps]
  BY DEF Goes, IInv, DataOK, ReadToken, Steps
<1>3. DataOK'
  BY <1>1, <1>2 DEF IInv, DataOK, reports, Requests
<1>4. FlagsOK'
  <2>1. subscribing' \in {subscribing, subscribing \/ sync_status < 0}
    BY DEF ReadToken
  <2>2. subscribing' \in BOOLEAN /\ raced' \in BOOLEAN
    BY <2>1, Zenon DEF IInv, FlagsOK, ReadToken
  <2>3. UNCHANGED <<loop, sync>>
    BY DEF ReadToken
  <2> QED BY <2>2, <2>3 DEF IInv, FlagsOK
<1>5. CallFits'
  BY <1>1, <1>2 DEF IInv, CallFits, reports
<1>6. ~raced' => ~raced /\ \A u \in Callers : pc[u] # "token"
  BY Zenon DEF ReadToken
<1>7. TokensFit'
  <2>1. Drawn' \subseteq Drawn
    BY <1>1, <1>2 DEF Drawn
  <2>2. \A u \in Callers : ~raced' /\ pc'[u] = "token" => u = t
    BY <1>2, <1>6
  <2>3. tmp'[t] = token_num /\ tmp \in [Callers -> Nat]
    BY <1>1 DEF IInv, DataOK
  <2> QED BY <1>1, <1>6, <2>1, <2>2, <2>3 DEF IInv, TokensFit
<1>8. TimerFits' /\ OwnResult'
  BY <1>1, <1>6 DEF IInv, TimerFits, OwnResult, reports, timeout_sec, Requests
<1> QED BY <1>3, <1>4, <1>5, <1>7, <1>8 DEF IInv

\* A thread stores the token it has read.
LEMMA StoreKeeps ==
    ASSUME IInv, NEW t \in Callers, StoreToken(t) PROVE IInv'
<1>1. /\ Listed' = Listed
      /\ UNCHANGED <<clientVars, sync, timeout_ms, raced, request_list, underWay,
                     reports, waited>>
      /\ tmp' = [tmp EXCEPT ![t] = 0]
      /\ token' = [token EXCEPT ![t] = tmp[t]]
      /\ token_num' = tmp[t] + 1
      /\ pc[t] = "token"
  BY DEF Listed, StoreToken
<1>2. /\ pc' = [pc EXCEPT ![t] = "publish"] /\ pc \in [Callers -> Steps]
      /\ pc' \in [Callers -> Steps]
  BY DEF Goes, IInv, DataOK, StoreToken, Steps
<1>3. DataOK'
  BY <1>1, <1>2 DEF IInv, DataOK, reports, Requests, clientVars
<1>4. FlagsOK'
  BY <1>1 DEF IInv, FlagsOK, clientVars
<1>5. CallFits'
  BY <1>1, <1>2 DEF IInv, CallFits, reports
<1>6. TokensFit'
  <2> SUFFICES ASSUME ~raced PROVE TokensFit'
    BY <1>1 DEF TokensFit
  <2>1. Drawn' = Drawn \cup {t} /\ t \notin Drawn /\ Drawn \subseteq Callers
    BY <1>1, <1>2 DEF Drawn, IInv, CallFits
  <2>2. tmp[t] = token_num /\ token_num' = token_num + 1 /\ token_num \in Nat
    BY <1>1 DEF IInv, TokensFit, DataOK
  <2>3. token \in [Callers -> Nat] /\ token'[t] = token_num
    BY <1>1, <2>2 DEF IInv, DataOK, Requests
  <2>4. \A r \in Drawn : token'[r] = token[r] /\ token[r] < token_num
    BY <1>1, <2>1, <2>3 DEF IInv, TokensFit
  <2>5. \A r \in Drawn' : token'[r] < token_num'
    BY <2>1, <2>2, <2>3, <2>4
  <2>6. \A r, s \in Drawn' : token'[r] = token'[s] => r = s
    BY <2>1, <2>2, <2>3, <2>4 DEF IInv, TokensFit
  <2>7. \A u \in Callers : pc'[u] # "token"
    BY <1>1, <1>2 DEF IInv, TokensFit
  <2> QED BY <2>5, <2>6, <2>7 DEF TokensFit
<1>7. TimerFits' /\ OwnResult'
  BY <1>1 DEF IInv, TimerFits, OwnResult, reports, timeout_sec, Requests
<1> QED BY <1>3, <1>4, <1>5, <1>6, <1>7 DEF IInv

\* The document is published.
LEMMA PublishKeeps ==
    ASSUME IInv, NEW t \in Callers, _publish_operation_to_cloud(t) PROVE IInv'
<1>1. /\ Listed' = Listed
      /\ UNCHANGED <<clientVars, argVars, request_list, reports, waited>>
      /\ underWay' = underWay \cup {t}
      /\ pc[t] = "publish"
  BY DEF Listed, _publish_operation_to_cloud
<1>2. /\ pc' = [pc EXCEPT ![t] = "list"] /\ pc \in [Callers -> Steps]
      /\ pc' \in [Callers -> Steps]
  BY DEF Goes, IInv, DataOK, _publish_operation_to_cloud, Steps
<1>3. DataOK'
  BY <1>1, <1>2 DEF IInv, DataOK, reports, Requests, clientVars, argVars
<1>4. FlagsOK'
  BY <1>1 DEF IInv, FlagsOK, clientVars, argVars
<1>5. CallFits'
  BY <1>1, <1>2 DEF IInv, CallFits, reports
<1>6. TokensFit'
  <2>1. Drawn' = Drawn
    BY <1>1, <1>2 DEF Drawn
  <2>2. \A u \in Callers : pc'[u] = "token" => pc[u] = "token"
    BY <1>2
  <2> QED BY <1>1, <2>1, <2>2 DEF IInv, TokensFit, argVars
<1>7. TimerFits' /\ OwnResult'
  BY <1>1 DEF IInv, TimerFits, OwnResult, reports, timeout_sec, Requests, argVars
<1> QED BY <1>3, <1>4, <1>5, <1>6, <1>7 DEF IInv

\* The request is listed, its timer starts.
LEMMA AddKeeps ==
    ASSUME IInv, NEW t \in Callers, NEW b \in BOOLEAN, NEW ms \in Timeouts,
           _add_request_to_list(t, b, ms)
    PROVE  IInv'
<1>1. /\ UNCHANGED <<clientVars, tmp, token, token_num, raced, underWay, reports,
                     waited>>
      /\ timeout_ms' = [timeout_ms EXCEPT ![t] = ms]
      /\ request_list' = [r \in Listed \cup {t} |->
                            IF r # t THEN request_list[r]
                            ELSE IF timeout_sec(ms) = 0 THEN "expired"
                            ELSE "running"]
      /\ Listed' = Listed \cup {t}
      /\ pc[t] = "list"
  BY DEF Listed, _add_request_to_list
<1>2. /\ \E next \in {"wait", "ok"} : pc' = [pc EXCEPT ![t] = next]
      /\ pc \in [Callers -> Steps]
      /\ pc' \in [Callers -> Steps]
  BY DEF Goes, IInv, DataOK, _add_request_to_list, Steps
<1>3. DataOK'
  <2>1. timeout_ms' \in [Callers -> Timeouts \cup {0}]
    BY <1>1 DEF IInv, DataOK
  <2>2. request_list' \in [Listed' -> {"running", "expired"}]
    BY <1>1 DEF IInv, DataOK
  <2> QED BY <1>1, <1>2, <2>1, <2>2 DEF IInv, DataOK, reports, Requests, clientVars
<1>4. FlagsOK'
  <2>1. sync' = [sync EXCEPT ![t] = b]
    BY DEF _add_request_to_list
  <2>2. sync' \in [Callers -> BOOLEAN]
    BY <2>1, Zenon DEF IInv, FlagsOK
  <2> QED BY <1>1, <2>2, Zenon DEF IInv, FlagsOK, clientVars
<1>5. CallFits'
  BY <1>1, <1>2 DEF IInv, CallFits, reports
<1>6. TokensFit'
  <2>1. Drawn' = Drawn
    BY <1>1, <1>2 DEF Drawn
  <2>2. \A u \in Callers : pc'[u] = "token" => pc[u] = "token"
    BY <1>2
  <2> QED BY <1>1, <2>1, <2>2 DEF IInv, TokensFit
<1>7. t \notin Listed /\ report[t] = "none" /\ waited[t] = 0
  BY <1>1 DEF IInv, CallFits
<1>8. \A r \in Requests \ {t} : timeout_ms'[r] = timeout_ms[r]
  BY <1>1 DEF IInv, DataOK, Requests
<1>9. timeout_ms'[t] = ms
  BY <1>1 DEF IInv, DataOK
<1>10. TimerFits'
  <2>1. \A r \in Listed' :
          waited'[r] = IF request_list'[r] = "expired"
                       THEN timeout_sec(timeout_ms'[r]) ELSE 0
    BY <1>1, <1>7, <1>8, <1>9 DEF IInv, TimerFits, DataOK
  <2>2. \A r \in Requests : report'[r] = "timeout" =>
          waited'[r] = timeout_sec(timeout_ms'[r])
    BY <1>1, <1>7, <1>8 DEF IInv, TimerFits, reports
  <2> QED BY <2>1, <2>2 DEF TimerFits, timeout_sec, Requests
<1>11. OwnResult'
  BY <1>1 DEF IInv, OwnResult, reports, Requests
<1> QED BY <1>3, <1>4, <1>5, <1>6, <1>10, <1>11 DEF IInv

\* A result is handled: with distinct tokens it matches its own request only.
LEMMA ResultKeeps ==
    ASSUME IInv, NEW m \in Requests, _on_operation_result_handler(m) PROVE IInv'
<1>1. PICK readable \in BOOLEAN : _handle_request_callback(m, readable)
  BY DEF _on_operation_result_handler
<1>2. /\ UNCHANGED <<clientVars, callVars, waited>>
      /\ m \in underWay /\ underWay' = underWay \ {m}
  BY DEF _on_operation_result_handler
<1>3. Matching(m) \subseteq Listed
  BY DEF Matching
<1>4. /\ Listed' = Listed \ Matching(m)
      /\ request_list' \in [Listed' -> {"running", "expired"}]
      /\ \A r \in Listed' : request_list'[r] = request_list[r]
  <2>1. DataOK /\ request_list' = Without(Matching(m))
    BY <1>1 DEF _handle_request_callback, IInv
  <2> QED BY <2>1, WithoutFits
<1>5. /\ report' \in [Requests -> {"none", "answer", "timeout"}]
      /\ \A r \in Requests : report'[r] # report[r] =>
           r \in Matching(m) /\ report'[r] = "answer"
  BY <1>1, <1>3, ToldOnce DEF _handle_request_callback, IInv, DataOK
<1>6. /\ from' \in [Requests -> Requests \cup {NoRequest}]
      /\ \A r \in Requests : from'[r] # from[r] => r \in Matching(m) /\ from'[r] = m
  BY <1>1 DEF _handle_request_callback, IInv, DataOK
<1>7. discarded' \subseteq Requests
  BY <1>1, <1>3 DEF _handle_request_callback, IInv, DataOK
<1>8. DataOK'
  BY <1>2, <1>4, <1>5, <1>6, <1>7 DEF IInv, DataOK, clientVars, callVars, argVars,
     Requests
<1>9. FlagsOK'
  BY <1>2 DEF IInv, FlagsOK, clientVars, callVars, argVars
<1>10. CallFits'
  <2>1. \A r \in Listed' : pc'[r] \in {"wait", "ok"} /\ report'[r] = "none"
    BY <1>2, <1>4, <1>5 DEF IInv, CallFits, DataOK, callVars
  <2>2. \A t \in Callers : t \in Matching(m) => pc[t] \in {"wait", "ok"}
    BY <1>3 DEF IInv, CallFits
  <2> QED BY <1>2, <1>5, <2>1, <2>2 DEF IInv, CallFits, callVars, Requests
<1>11. TokensFit'
  <2>1. Drawn' \subseteq Drawn
    BY <1>2 DEF Drawn, callVars
  <2> QED BY <1>2, <2>1 DEF IInv, TokensFit, callVars, argVars
<1>12. TimerFits'
  BY <1>2, <1>4, <1>5 DEF IInv, TimerFits, callVars, argVars, timeout_sec, Requests
<1>13. OwnResult'
  <2> SUFFICES ASSUME ~raced, NEW r \in Requests, from'[r] # from[r]
               PROVE  from'[r] = r
    BY <1>2 DEF IInv, OwnResult, callVars, argVars, Requests
  <2>1. r \in Listed /\ token[r] = token[m] /\ from'[r] = m
    BY <1>6 DEF Matching
  <2>2. r \in Drawn /\ m \in Drawn
    BY <1>2, <2>1 DEF Drawn, IInv, CallFits, Requests
  <2> QED BY <2>1, <2>2 DEF IInv, TokensFit
<1> QED BY <1>8, <1>9, <1>10, <1>11, <1>12, <1>13 DEF IInv

\* The requests whose timers ran out are told so.
LEMMA ExpiredKeeps ==
    ASSUME IInv, handle_expired_request PROVE IInv'
<1> DEFINE ended == {r \in Listed : Expired(r)}
<1>1. /\ UNCHANGED <<clientVars, callVars, underWay, from, discarded, waited>>
      /\ request_list' = Without(ended) /\ report' = Told(ended, "timeout")
  BY DEF handle_expired_request
<1>2. ended \subseteq Listed /\ \A r \in ended : request_list[r] = "expired"
  BY DEF Expired
<1> HIDE DEF ended
<1>4. /\ Listed' = Listed \ ended
      /\ request_list' \in [Listed' -> {"running", "expired"}]
      /\ \A r \in Listed' : request_list'[r] = request_list[r]
  <2>1. DataOK
    BY DEF IInv
  <2> QED BY <1>1, <2>1, WithoutFits
<1>5. /\ report' \in [Requests -> {"none", "answer", "timeout"}]
      /\ \A r \in Requests : report'[r] # report[r] =>
           r \in ended /\ report'[r] = "timeout"
  BY <1>1, <1>2, ToldOnce DEF IInv, DataOK
<1>8. DataOK'
  BY <1>1, <1>4, <1>5 DEF IInv, DataOK, clientVars, callVars, argVars, Requests
<1>9. FlagsOK'
  BY <1>1 DEF IInv, FlagsOK, clientVars, callVars, argVars
<1>10. CallFits'
  <2>1. \A r \in Listed' : pc'[r] \in {"wait", "ok"} /\ report'[r] = "none"
    BY <1>1, <1>4, <1>5 DEF IInv, CallFits, DataOK, callVars
  <2>2. \A t \in Callers : t \in ended => pc[t] \in {"wait", "ok"}
    BY <1>2 DEF IInv, CallFits
  <2> QED BY <1>1, <1>5, <2>1, <2>2 DEF IInv, CallFits, callVars, Requests
<1>11. TokensFit'
  <2>1. Drawn' = Drawn
    BY <1>1 DEF Drawn, callVars
  <2> QED BY <1>1, <2>1 DEF IInv, TokensFit, callVars, argVars
<1>12. TimerFits'
  <2>1. \A r \in ended : waited[r] = timeout_sec(timeout_ms[r])
    BY <1>2 DEF IInv, TimerFits
  <2> QED BY <1>1, <1>4, <1>5, <2>1 DEF IInv, TimerFits, callVars, argVars,
          timeout_sec, Requests
<1>13. OwnResult'
  BY <1>1 DEF IInv, OwnResult, callVars, argVars, Requests
<1> QED BY <1>8, <1>9, <1>10, <1>11, <1>12, <1>13 DEF IInv

\* A timer has run its seconds.
LEMMA TimerKeeps ==
    ASSUME IInv, NEW r \in Requests, TimerExpires(r) PROVE IInv'
<1>1. /\ UNCHANGED <<clientVars, callVars, underWay, reports>>
      /\ r \in Listed /\ request_list[r] = "running"
      /\ request_list' = [request_list EXCEPT ![r] = "expired"]
      /\ waited' = [waited EXCEPT ![r] = timeout_sec(timeout_ms[r])]
      /\ Listed' = Listed
  BY DEF TimerExpires, Listed
<1>2. /\ request_list' \in [Listed' -> {"running", "expired"}]
      /\ request_list'[r] = "expired"
      /\ \A s \in Listed \ {r} : request_list'[s] = request_list[s]
  BY <1>1 DEF IInv, DataOK
<1>3. timeout_ms[r] \in Nat
  <2>1. timeout_ms[r] \in Timeouts \cup {0}
    BY DEF IInv, DataOK, Requests
  <2>2. \A ms \in Timeouts : ms \in Nat
    BY ShadowAssumption
  <2> QED BY <2>1, <2>2
<1>4. waited' \in [Requests -> 0..255]
  <2>1. timeout_sec(timeout_ms[r]) \in 0..255
    BY <1>3, SecondsOf, SMT
  <2> QED BY <1>1, <2>1 DEF IInv, DataOK
<1>5. /\ waited'[r] = timeout_sec(timeout_ms[r])
      /\ \A s \in Requests \ {r} : waited'[s] = waited[s]
  BY <1>1 DEF IInv, DataOK
<1>6. DataOK'
  BY <1>1, <1>2, <1>4 DEF IInv, DataOK, clientVars, callVars, argVars, reports, Requests
<1>7. FlagsOK'
  BY <1>1 DEF IInv, FlagsOK, clientVars, callVars, argVars
<1>8. CallFits'
  BY <1>1, <1>5 DEF IInv, CallFits, callVars, reports, Requests
<1>9. TokensFit' /\ OwnResult'
  <2>1. Drawn' = Drawn
    BY <1>1 DEF Drawn, callVars
  <2> QED BY <1>1, <2>1 DEF IInv, TokensFit, OwnResult, callVars, argVars, reports,
          Requests
<1>10. TimerFits'
  <2>1. report[r] = "none"
    BY <1>1 DEF IInv, CallFits
  <2>2. UNCHANGED <<report, timeout_ms>> /\ Listed \subseteq Requests
    BY <1>1 DEF callVars, argVars, reports, IInv, DataOK
  <2>3. \A s \in Listed' :
          waited'[s] = IF request_list'[s] = "expired"
                       THEN timeout_sec(timeout_ms'[s]) ELSE 0
    BY <1>1, <1>2, <1>5, <2>2 DEF IInv, TimerFits
  <2>4. \A s \in Requests : report'[s] = "timeout" =>
          waited'[s] = timeout_sec(timeout_ms'[s])
    BY <1>5, <2>1, <2>2 DEF IInv, TimerFits
  <2> QED BY <2>3, <2>4 DEF TimerFits, Requests, timeout_sec
<1> QED BY <1>6, <1>7, <1>8, <1>9, <1>10 DEF IInv

\* Every step keeps the invariant.
LEMMA NextIInv == IInv /\ [Next]_vars => IInv'
<1> SUFFICES ASSUME IInv, [Next]_vars PROVE IInv'
  OBVIOUS
<1>1. CASE Client
  BY <1>1, ClientKeeps, DestroyKeeps
<1>2. ASSUME NEW t \in Callers, Call(t) PROVE IInv'
  <2>1. CASE Begin(t) \/ NotConnected(t) \/ PublishFails(t) \/ AddFails(t)
             \/ SyncReturns(t)
    BY <2>1, MoveKeeps DEF Begin, NotConnected, PublishFails, AddFails, SyncReturns,
       Steps
  <2>2. CASE ReadToken(t)
    BY <2>2, ReadKeeps
  <2>3. CASE StoreToken(t)
    BY <2>3, StoreKeeps
  <2>4. CASE _publish_operation_to_cloud(t)
    BY <2>4, PublishKeeps
  <2>5. CASE \E b \in BOOLEAN, ms \in Timeouts : _add_request_to_list(t, b, ms)
    BY <2>5, AddKeeps
  <2> QED BY <1>2, <2>1, <2>2, <2>3, <2>4, <2>5 DEF Call
<1>3. ASSUME NEW m \in Requests, _on_operation_result_handler(m) PROVE IInv'
  BY <1>3, ResultKeeps
<1>4. CASE handle_expired_request
  BY <1>4, ExpiredKeeps
<1>5. ASSUME NEW r \in Requests, TimerExpires(r) PROVE IInv'
  BY <1>5, TimerKeeps
<1>6. CASE UNCHANGED vars
  BY <1>6 DEF vars, clientVars, callVars, argVars, reports, IInv, DataOK, FlagsOK,
     CallFits, TokensFit, TimerFits, OwnResult, Drawn, Listed, Requests, timeout_sec
<1> QED BY <1>1, <1>2, <1>3, <1>4, <1>5, <1>6 DEF Next

----------------------------------------------------------------------------
(* The theorems about single requests.                                     *)

\* Unless two threads drew a token at once, the callback of a request is told
\* the result of that request, in whatever order results come and whichever
\* requests were refused, timed out or discarded in between.
THEOREM ResultsAreOwn == Spec => []OwnResult
<1>1. IInv => OwnResult
  BY DEF IInv
<1> QED BY InitIInv, NextIInv, <1>1, PTL DEF Spec

\* A request that times out had the documented milliseconds exactly when they
\* are whole seconds below 256: the timer ran its seconds, and ran them once.
THEOREM TimeoutsWait == Spec => []WaitsItsTime
<1>1. IInv => WaitsItsTime
  <2> SUFFICES ASSUME IInv, NEW r \in Requests, report[r] = "timeout"
               PROVE  1000 * waited[r] >= timeout_ms[r]
                        <=> timeout_ms[r] % 1000 = 0 /\ timeout_ms[r] < 256000
    BY SMT DEF WaitsItsTime
  <2>1. timeout_ms[r] \in Timeouts \cup {0} /\ waited[r] = timeout_sec(timeout_ms[r])
    BY DEF IInv, DataOK, TimerFits, Requests
  <2>2. \A ms \in Timeouts : ms \in Nat
    BY ShadowAssumption
  <2>3. timeout_ms[r] \in Nat
    BY <2>1, <2>2
  <2> QED BY <2>1, <2>3, SecondsOf, SMT
<1> QED BY InitIInv, NextIInv, <1>1, PTL DEF Spec

----------------------------------------------------------------------------
(* Refinement of RequestPromise.                                           *)

\* What the application knows of a call at each of its steps.
Outcome(step) == IF step = "idle" THEN "none"
                 ELSE IF step \in {"ok", "returned"} THEN "ok"
                 ELSE IF step = "error" THEN "error"
                 ELSE "calling"

Outcomes == [r \in Requests |-> Outcome(pc[r])]

\* One call moves: only what the application knows of that call changes.
LEMMA MoveOutcome ==
    ASSUME IInv, NEW t \in Callers, NEW next \in Steps, Goes(t, next)
    PROVE  /\ Outcomes' = [Outcomes EXCEPT ![t] = Outcome(next)]
           /\ Outcome(next) = Outcome(pc[t]) => Outcomes' = Outcomes
<1>1. pc \in [Callers -> Steps] /\ pc' = [pc EXCEPT ![t] = next]
  BY DEF IInv, DataOK, Goes
<1>2. Outcomes = [r \in Callers |-> Outcome(pc[r])] /\ Outcomes' = [r \in Callers |-> Outcome(pc'[r])]
  BY DEF Outcomes, Requests, Outcome
<1> QED BY <1>1, <1>2

\* A call that begins, is accepted or fails is a step of the promise; every
\* other move of a call is none.
LEMMA CallPromise ==
    ASSUME IInv, NEW t \in Callers, Call(t)
    PROVE  [Promise!PNext]_(Promise!promiseVars)
<1> DEFINE res == [r \in Requests |-> IF pc[r] = "idle" THEN "none"
                                      ELSE IF pc[r] \in {"ok", "returned"} THEN "ok"
                                      ELSE IF pc[r] = "error" THEN "error"
                                      ELSE "calling"]
<1>1. res = Outcomes /\ res' = Outcomes'
  BY DEF Outcomes, Outcome
<1>2. report' = report
  BY DEF Call, Begin, NotConnected, ReadToken, StoreToken,
     _publish_operation_to_cloud, PublishFails, _add_request_to_list, AddFails,
     SyncReturns, reports
<1>3. res[t] = Outcome(pc[t]) /\ t \in Requests
  BY DEF Requests, Outcome
<1>4. CASE Begin(t)
  <2>1. pc[t] = "idle" /\ Goes(t, "begin")
    BY <1>4 DEF Begin
  <2>2. Outcomes' = [Outcomes EXCEPT ![t] = "calling"] /\ res[t] = "none"
    BY <1>3, <2>1, MoveOutcome DEF Steps, Outcome
  <2>3. Promise!Begin(t)
    BY <1>1, <1>2, <2>2 DEF Promise!Begin
  <2> QED BY <1>3, <2>3 DEF Promise!PNext
<1>5. CASE NotConnected(t) \/ PublishFails(t) \/ AddFails(t)
  <2>1. pc[t] \in {"begin", "publish", "list"} /\ Goes(t, "error")
    BY <1>5 DEF NotConnected, PublishFails, AddFails
  <2>2. Outcomes' = [Outcomes EXCEPT ![t] = "error"] /\ res[t] = "calling"
    BY <1>3, <2>1, MoveOutcome DEF Steps, Outcome
  <2>3. report[t] = "none"
    BY <2>1 DEF IInv, CallFits
  <2>4. Promise!Reject(t)
    BY <1>1, <1>2, <2>2, <2>3 DEF Promise!Reject
  <2> QED BY <1>3, <2>4 DEF Promise!PNext
<1>6. CASE ReadToken(t) \/ StoreToken(t) \/ _publish_operation_to_cloud(t)
  <2>1. /\ pc[t] \in {"begin", "token", "publish"}
        /\ \E next \in {"token", "publish", "list"} : Goes(t, next)
    BY <1>6 DEF ReadToken, StoreToken, _publish_operation_to_cloud
  <2>2. Outcomes' = Outcomes
    BY <2>1, MoveOutcome DEF Steps, Outcome
  <2> QED BY <1>1, <1>2, <2>2 DEF Promise!promiseVars
<1>7. CASE \/ \E b \in BOOLEAN, ms \in Timeouts : _add_request_to_list(t, b, ms)
           \/ SyncReturns(t)
  <2>1. /\ pc[t] \in {"list", "wait"}
        /\ \E next \in {"wait", "ok", "returned"} : Goes(t, next)
    BY <1>7 DEF _add_request_to_list, SyncReturns
  <2>2. PICK next \in {"wait", "ok", "returned"} : Goes(t, next)
    BY <2>1
  <2>3. CASE next = "wait"
    <3>1. Outcomes' = Outcomes
      BY <2>1, <2>2, <2>3, MoveOutcome DEF Steps, Outcome
    <3> QED BY <1>1, <1>2, <3>1 DEF Promise!promiseVars
  <2>4. CASE next # "wait"
    <3>1. Outcomes' = [Outcomes EXCEPT ![t] = "ok"] /\ res[t] = "calling"
      BY <1>3, <2>1, <2>2, <2>4, MoveOutcome DEF Steps, Outcome
    <3>2. Promise!Accept(t)
      BY <1>1, <1>2, <3>1 DEF Promise!Accept
    <3> QED BY <1>3, <3>2 DEF Promise!PNext
  <2> QED BY <2>3, <2>4
<1> QED BY <1>4, <1>5, <1>6, <1>7 DEF Call

\* Whatever is told, is told to listed requests, for the first time.
LEMMA ReportPromise ==
    ASSUME IInv, pc' = pc, NEW R, R \subseteq Listed,
           NEW what \in {"answer", "timeout"}, report' = Told(R, what)
    PROVE  Promise!PNext
<1>1. /\ report' \in [Requests -> {"none", "answer", "timeout"}]
      /\ \A r \in Requests : report'[r] # report[r] => r \in Listed
  BY ToldOnce DEF IInv
<1>2. Promise!Report
  BY <1>1 DEF Promise!Report, Promise!Outcomes, IInv, CallFits
<1> QED BY <1>2 DEF Promise!PNext

\* Every step is a step of the promise, or leaves what the application was
\* told as it is.
LEMMA StepPromise == IInv /\ [Next]_vars => [Promise!PNext]_(Promise!promiseVars)
<1> SUFFICES ASSUME IInv, [Next]_vars
             PROVE  [Promise!PNext]_(Promise!promiseVars)
  OBVIOUS
<1>1. CASE pc' = pc /\ report' = report
  BY <1>1 DEF Promise!promiseVars
<1>2. CASE Client
  <2>1. pc' = pc /\ report' = report
    BY <1>2 DEF Client, subscribe_operation_result_to_cloud, ConstructReturns,
       _shadow_event_handler, ConnectionLost, Reconnected, IOT_MQTT_StartLoop,
       IOT_Shadow_Destroy, callVars,
       reports
  <2> QED BY <1>1, <2>1
<1>3. ASSUME NEW t \in Callers, Call(t)
      PROVE  [Promise!PNext]_(Promise!promiseVars)
  BY <1>3, CallPromise
<1>4. ASSUME NEW m \in Requests, _on_operation_result_handler(m)
      PROVE  [Promise!PNext]_(Promise!promiseVars)
  <2>1. pc' = pc
    BY <1>4 DEF _on_operation_result_handler, callVars
  <2>2. report' = report \/ report' = Told(Matching(m), "answer")
    BY <1>4 DEF _on_operation_result_handler, _handle_request_callback
  <2>3. Matching(m) \subseteq Listed
    BY DEF Matching
  <2> QED BY <1>1, <2>1, <2>2, <2>3, ReportPromise
<1>5. CASE handle_expired_request
  <2> DEFINE ended == {r \in Listed : Expired(r)}
  <2>1. pc' = pc /\ report' = Told(ended, "timeout")
    BY <1>5 DEF handle_expired_request, callVars
  <2>2. ended \subseteq Listed
    OBVIOUS
  <2> HIDE DEF ended
  <2> QED BY <2>1, <2>2, ReportPromise
<1>6. ASSUME NEW r \in Requests, TimerExpires(r)
      PROVE  [Promise!PNext]_(Promise!promiseVars)
  <2>1. pc' = pc /\ report' = report
    BY <1>6 DEF TimerExpires, callVars, reports
  <2> QED BY <1>1, <2>1
<1>7. CASE UNCHANGED vars
  <2>1. pc' = pc /\ report' = report
    BY <1>7 DEF vars, callVars, reports
  <2> QED BY <1>1, <2>1
<1> QED BY <1>2, <1>3, <1>4, <1>5, <1>6, <1>7 DEF Next

\* A shadow request keeps the promise of RequestPromise: it is accepted or
\* rejected once, an accepted one is reported at most once, as answered or as
\* timed out, and a rejected one is never reported although it was published.
THEOREM ShadowKeepsPromise == Spec => KeepsPromise
<1>1. Init => Promise!PInit
  BY DEF Init, Promise!PInit, Requests
<1> QED BY InitIInv, NextIInv, StepPromise, <1>1, PTL
        DEF Spec, KeepsPromise, Promise!PSpec

----------------------------------------------------------------------------
(* Types, with the limits of the list and of the counter.                  *)

\* Threads that are done with drawing a token.
Past == {t \in Callers : pc[t] \notin {"idle", "begin", "token"}}

\* The list has at most its limit; token_num, and every value read from it,
\* counts no more than the threads that have stored one.
LimitsFit ==
    /\ Cardinality(Listed) <= MAX_APPENDING_REQUEST_AT_ANY_GIVEN_TIME
    /\ token_num <= Cardinality(Past)
    /\ \A t \in Callers : tmp[t] <= Cardinality(Past) /\ token[t] <= Cardinality(Past)

\* A subset of the threads is finite, and no greater than what contains it.
LEMMA CountThreads ==
    ASSUME NEW S \in SUBSET Callers, NEW T \in SUBSET S
    PROVE  /\ IsFiniteSet(T) /\ Cardinality(T) \in Nat /\ Cardinality(S) \in Nat
           /\ Cardinality(T) <= Cardinality(S)
<1>1. IsFiniteSet(S)
  BY ShadowAssumption, FS_Subset
<1> QED BY <1>1, FS_Subset, FS_CardinalityType

\* What the limits say of the next state, when the list does not grow and
\* token_num does not change.
LEMMA LimitsStay ==
    ASSUME IInv, LimitsFit, IInv', Listed' \subseteq Listed, Past \subseteq Past',
           token_num' = token_num,
           \A t \in Callers : tmp'[t] \in {tmp[t], token_num} /\ token'[t] = token[t]
    PROVE  LimitsFit'
<1>1. Past' \in SUBSET Callers /\ Listed \in SUBSET Callers
  BY DEF Past, IInv, DataOK, Requests
<1>2. /\ Cardinality(Past) \in Nat /\ Cardinality(Past') \in Nat
      /\ Cardinality(Past) <= Cardinality(Past')
  BY <1>1, CountThreads
<1>3. /\ Cardinality(Listed) \in Nat /\ Cardinality(Listed') \in Nat
      /\ Cardinality(Listed') <= Cardinality(Listed)
  BY <1>1, CountThreads
<1>4. /\ token_num \in Nat
      /\ \A t \in Callers : tmp[t] \in Nat /\ token[t] \in Nat
  BY DEF IInv, DataOK, Requests
<1>5. Cardinality(Listed') <= MAX_APPENDING_REQUEST_AT_ANY_GIVEN_TIME
  BY <1>3, ShadowAssumption DEF LimitsFit
<1>6. token_num' <= Cardinality(Past')
  BY <1>2, <1>4 DEF LimitsFit
<1>7. \A t \in Callers : tmp'[t] <= Cardinality(Past') /\ token'[t] <= Cardinality(Past')
  BY <1>2, <1>4 DEF LimitsFit
<1> QED BY <1>5, <1>6, <1>7 DEF LimitsFit

\* Storing a token counts the thread that stores it.
LEMMA StoreLimits ==
    ASSUME IInv, LimitsFit, NEW t \in Callers, StoreToken(t) PROVE LimitsFit'
<1>1. /\ pc[t] = "token" /\ pc' = [pc EXCEPT ![t] = "publish"]
      /\ tmp' = [tmp EXCEPT ![t] = 0]
      /\ token' = [token EXCEPT ![t] = tmp[t]]
      /\ token_num' = tmp[t] + 1 /\ Listed' = Listed
  BY DEF StoreToken, Goes, Listed
<1>2. Past' = Past \cup {t} /\ t \notin Past /\ Past \in SUBSET Callers
  BY <1>1 DEF Past, IInv, DataOK
<1>3. IsFiniteSet(Past) /\ Cardinality(Past) \in Nat
  BY <1>2, CountThreads
<1>4. Cardinality(Past') = Cardinality(Past) + 1
  BY <1>2, <1>3, FS_AddElement
<1>5. tmp \in [Callers -> Nat] /\ token \in [Callers -> Nat]
  BY DEF IInv, DataOK, Requests
<1>6. \A u \in Callers : tmp[u] <= Cardinality(Past) /\ token[u] <= Cardinality(Past)
  BY DEF LimitsFit
<1>7. token_num' <= Cardinality(Past')
  BY <1>1, <1>3, <1>4, <1>5, <1>6
<1>8. \A u \in Callers : tmp'[u] <= Cardinality(Past') /\ token'[u] <= Cardinality(Past')
  BY <1>1, <1>3, <1>4, <1>5, <1>6
<1> QED BY <1>1, <1>7, <1>8 DEF LimitsFit

\* A request is listed only where there is room.
LEMMA AddLimits ==
    ASSUME IInv, LimitsFit, NEW t \in Callers, NEW b \in BOOLEAN,
           NEW ms \in Timeouts, _add_request_to_list(t, b, ms)
    PROVE  LimitsFit'
<1>1. /\ pc[t] = "list" /\ Listed' = Listed \cup {t} /\ ~ListFull
      /\ UNCHANGED <<tmp, token, token_num>>
      /\ \E next \in {"wait", "ok"} : pc' = [pc EXCEPT ![t] = next]
  BY DEF _add_request_to_list, Listed, Goes
<1>2. t \notin Listed /\ Listed \in SUBSET Callers
  BY <1>1 DEF IInv, CallFits, DataOK, Requests
<1>3. IsFiniteSet(Listed) /\ Cardinality(Listed) \in Nat
  BY <1>2, CountThreads
<1>4. Cardinality(Listed') = Cardinality(Listed) + 1
  BY <1>1, <1>2, <1>3, FS_AddElement
<1>5. Cardinality(Listed') <= MAX_APPENDING_REQUEST_AT_ANY_GIVEN_TIME
  BY <1>1, <1>3, <1>4, ShadowAssumption DEF ListFull
<1>6. Past' = Past
  BY <1>1 DEF Past, IInv, DataOK, Steps
<1> QED BY <1>1, <1>5, <1>6 DEF LimitsFit

\* Every step respects the limits.
LEMMA NextLimits == IInv /\ LimitsFit /\ [Next]_vars => LimitsFit'
<1> SUFFICES ASSUME IInv, LimitsFit, [Next]_vars PROVE LimitsFit'
  OBVIOUS
<1>0. IInv'
  BY NextIInv
<1>1. CASE Client \/ (\E r \in Requests : TimerExpires(r)) \/ UNCHANGED vars
  <2>1. UNCHANGED <<callVars>> /\ Listed' \subseteq Listed
    BY <1>1 DEF Client, subscribe_operation_result_to_cloud, ConstructReturns,
       _shadow_event_handler, ConnectionLost, Reconnected, IOT_MQTT_StartLoop,
       IOT_Shadow_Destroy, TimerExpires,
       vars, Listed
  <2>2. Past' = Past /\ UNCHANGED <<tmp, token, token_num>>
    BY <2>1 DEF Past, callVars, argVars
  <2> QED BY <1>0, <2>1, <2>2, LimitsStay
<1>2. CASE (\E m \in Requests : _on_operation_result_handler(m)) \/ handle_expired_request
  <2>1. UNCHANGED callVars
    BY <1>2 DEF _on_operation_result_handler, handle_expired_request
  <2>2. Past' = Past /\ UNCHANGED <<tmp, token, token_num>>
    BY <2>1 DEF Past, callVars, argVars
  <2>3. \E R : request_list' = Without(R)
    BY <1>2, Zenon DEF _on_operation_result_handler, _handle_request_callback,
       handle_expired_request
  <2>4. Listed' \subseteq Listed
    BY <2>3 DEF Listed, Without
  <2> QED BY <1>0, <2>2, <2>4, LimitsStay
<1>3. ASSUME NEW t \in Callers, Call(t) PROVE LimitsFit'
  <2>0. pc \in [Callers -> Steps] /\ tmp \in [Callers -> Nat]
    BY DEF IInv, DataOK
  <2>1. CASE Begin(t) \/ NotConnected(t) \/ PublishFails(t) \/ AddFails(t)
             \/ SyncReturns(t) \/ _publish_operation_to_cloud(t)
    <3>1. /\ UNCHANGED <<argVars, request_list>>
          /\ \/ Goes(t, "error") \/ Goes(t, "returned") \/ Goes(t, "list")
             \/ pc[t] = "idle" /\ Goes(t, "begin")
      BY <2>1 DEF Begin, NotConnected, PublishFails, AddFails, SyncReturns,
         _publish_operation_to_cloud
    <3>2. Past \subseteq Past' /\ Listed' = Listed /\ UNCHANGED <<tmp, token, token_num>>
      BY <2>0, <3>1 DEF Past, Goes, Listed, argVars
    <3> QED BY <1>0, <3>2, LimitsStay
  <2>2. CASE ReadToken(t)
    <3>1. /\ UNCHANGED <<token, token_num, request_list>>
          /\ pc[t] = "begin" /\ pc' = [pc EXCEPT ![t] = "token"]
          /\ tmp' = [tmp EXCEPT ![t] = token_num]
      BY <2>2 DEF ReadToken, Goes
    <3>2. Past' = Past /\ Listed' = Listed
      BY <2>0, <3>1 DEF Past, Listed
    <3>3. \A u \in Callers : tmp'[u] \in {tmp[u], token_num} /\ token'[u] = token[u]
      BY <2>0, <3>1
    <3> QED BY <1>0, <3>1, <3>2, <3>3, LimitsStay
  <2>3. CASE StoreToken(t)
    BY <2>3, StoreLimits
  <2>4. CASE \E b \in BOOLEAN, ms \in Timeouts : _add_request_to_list(t, b, ms)
    BY <2>4, AddLimits
  <2> QED BY <1>3, <2>1, <2>2, <2>3, <2>4 DEF Call
<1> QED BY <1>1, <1>2, <1>3 DEF Next

\* Type correctness of the client: in particular the list of pending requests
\* never outgrows its limit, although a request is published before the room
\* is checked.
THEOREM TypeCorrect == Spec => []TypeOK
<1>1. Init => LimitsFit
  <2> SUFFICES ASSUME Init PROVE LimitsFit
    OBVIOUS
  <2>1. Listed = {} /\ Past = {}
    BY DEF Init, Listed, Past
  <2>2. Cardinality({}) = 0
    BY FS_EmptySet
  <2> QED BY <2>1, <2>2, ShadowAssumption DEF Init, LimitsFit, Requests
<1>2. IInv /\ LimitsFit => TypeOK
  <2> SUFFICES ASSUME IInv, LimitsFit PROVE TypeOK
    OBVIOUS
  <2>1. Past \in SUBSET Callers
    BY DEF Past
  <2>2. /\ Cardinality(Past) <= Cardinality(Callers)
        /\ Cardinality(Past) \in Nat /\ Cardinality(Callers) \in Nat
    BY <2>1, CountThreads
  <2>3. \A n \in Nat : n <= Cardinality(Past) => n \in Tokens
    BY <2>2 DEF Tokens
  <2>4. token_num \in Tokens /\ tmp \in [Callers -> Tokens] /\ token \in [Requests -> Tokens]
    BY <2>3 DEF IInv, DataOK, LimitsFit, Requests
  <2>5. /\ report \in [Requests -> {"none", "answer", "timeout", "again"}]
        /\ Cardinality(Listed) <= MAX_APPENDING_REQUEST_AT_ANY_GIVEN_TIME
    BY DEF IInv, DataOK, LimitsFit
  <2>6. loop \in BOOLEAN /\ subscribing \in BOOLEAN /\ raced \in BOOLEAN
        /\ sync \in [Callers -> BOOLEAN]
    BY DEF IInv, FlagsOK
  <2> QED BY <2>4, <2>5, <2>6, Zenon DEF IInv, DataOK, TypeOK, Steps
<1> QED BY InitIInv, NextIInv, NextLimits, <1>1, <1>2, PTL DEF Spec
============================================================================
