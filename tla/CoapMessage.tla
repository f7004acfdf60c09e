---------------------------- MODULE CoapMessage ----------------------------
(***************************************************************************)
(* Requests of the CoAP client (coap_client_message.c, coap_client.c,      *)
(* coap_client_auth.c): confirmable messages that are retransmitted until  *)
(* an ACK, a piggybacked or a separate response, or the last time-out.     *)
(*                                                                         *)
(* IOT_COAP_Construct sends the first request itself, the authentication,  *)
(* and yields until its callback has set is_authed.  Then application      *)
(* threads send while one thread yields: it reads one datagram, handles    *)
(* it, and sweeps message_list.                                            *)
(*                                                                         *)
(* A request is named after the thread that sends it: each thread makes    *)
(* one, and two requests of one thread are those of two threads of which   *)
(* the second starts when the first is done.  The list is only touched     *)
(* under lock_list_wait_ack, and _coap_message_list_proc holds it          *)
(* throughout, callbacks included: one pass is one step, and the list is a *)
(* function from its requests to their CoAPMsgSendInfo.                    *)
(* Datagrams are lost, reordered and, since the server answers every       *)
(* retransmission, duplicated.  A response handler or an event handler is  *)
(* set for every request, list_iterator_new and the malloc of the          *)
(* retransmission copy succeed.                                            *)
(***************************************************************************)
EXTENDS Integers, FiniteSets

CONSTANTS
    Senders,          \* application threads that call IOT_COAP_SendMessage
    Yielder,          \* the thread that constructs the client, then yields
    NoThread,         \* the owner of a mutex nobody holds
    COAP_MSG_MAX_MSG_ID,
    FirstIds,         \* values of _get_random_start_packet_id
    max_retry_count,
    MaxRequests,      \* bound: requests in a behaviour
    MaxInFlight       \* bound: datagrams on their way to the client

ASSUME CoapAssumption ==
    /\ IsFiniteSet(Senders)
    /\ Yielder \notin Senders
    /\ NoThread \notin Senders \cup {Yielder}
    /\ COAP_MSG_MAX_MSG_ID \in Nat \ {0}
    /\ FirstIds \subseteq 0..COAP_MSG_MAX_MSG_ID
    /\ {max_retry_count, MaxRequests, MaxInFlight} \subseteq Nat

VARIABLES
    phase,          \* of the client: under construction, in use, destroyed
    is_authed,      \* -1 until the authentication callback ran
    next_msg_id,    \* last message id drawn
    message_token,  \* next token
    lock_send_buf,  \* owner of the mutex around send_buf
    send_buf,       \* the request serialized last, or an ACK
    pc,             \* per thread: the step of its call, then its outcome
    tmp,            \* per thread: the value read from a counter
    msg_id, token,  \* per request
    message_list,   \* requests awaiting a response, with their SendInfo
    ypc, in,        \* step of the yielding thread, datagram it handles
    server,         \* per request: a copy is on its way, a response is due
    answers,        \* datagrams on their way to the client
    report,         \* history, per request: what its callback was told
    from,           \* history, per request: whose answer that was
    raced           \* history: two threads drew from a counter at once

idVars   == <<next_msg_id, message_token, msg_id, token, raced>>
callVars == <<pc, tmp, lock_send_buf, send_buf>>
netVars  == <<server, answers>>
reports  == <<report, from, is_authed>>
vars == <<phase, idVars, callVars, message_list, ypc, in, netVars, reports>>

Threads  == Senders \cup {Yielder}
Requests == Threads     \* that of Yielder is the authentication
Listed   == DOMAIN message_list
ACK      == NoThread    \* send_buf holds an ACK
Begun    == {t \in Threads : pc[t] # "idle"}
Ended(t) == pc[t] \in {"idle", "ok", "error"}

\* "ACK" is the empty acknowledgement, "PIGGY" an ACK with any other code,
\* "RESP" a separate message, confirmable or not, with any code.
Kinds == {"ACK", "PIGGY", "RESP"}
Datagrams == [kind : Kinds, id : 0..COAP_MSG_MAX_MSG_ID,
              token : 0..(MaxRequests + 1), of : Requests]
NoDatagram == [kind |-> "NONE"]
Answer(kind, r) ==
    [kind |-> kind, id |-> msg_id[r], token |-> token[r], of |-> r]

\* expired: start_time has run out; invalid: the state of the node; copy: what
\* is retransmitted.
SendInfo == [acked : BOOLEAN, retrans_count : 0..max_retry_count,
             expired : BOOLEAN, invalid : BOOLEAN, copy : Requests \cup {ACK}]

\* IOT_COAP_Construct has connected; or it has returned, and the answer to the
\* authentication has been removed from the list.
Init ==
    /\ \/ phase = "auth"  /\ is_authed = -1 /\ message_token = 0
       \/ phase = "ready" /\ is_authed = 1  /\ message_token = 1
    /\ next_msg_id \in FirstIds
    /\ lock_send_buf = NoThread
    /\ send_buf = ACK
    /\ pc = [t \in Threads |-> "idle"]
    /\ tmp = [t \in Threads |-> 0]
    /\ msg_id = [r \in Requests |-> 0]
    /\ token = [r \in Requests |-> 0]
    /\ message_list = << >>
    /\ ypc = "read"
    /\ in = NoDatagram
    /\ server = [r \in Requests |-> "nothing"]
    /\ answers = {}
    /\ report = [r \in Requests |-> "none"]
    /\ from = [r \in Requests |-> NoThread]
    /\ raced = FALSE

----------------------------------------------------------------------------
(* Sending a request: IOT_COAP_SendMessage and coap_client_auth.           *)

\* The call begins; get_next_coap_msg_id reads next_msg_id.  No lock is held.
ReadMsgId(t) ==
    /\ pc[t] = "idle"
    /\ Cardinality(Begun) < MaxRequests
    /\ phase = IF t = Yielder THEN "auth" ELSE "ready"
    /\ tmp' = [tmp EXCEPT ![t] = next_msg_id]
    /\ pc' = [pc EXCEPT ![t] = "id"]
    /\ raced' = (raced \/ \E u \in Threads : pc[u] = "id")
    /\ UNCHANGED <<phase, next_msg_id, message_token, msg_id, token,
                   lock_send_buf, send_buf, message_list, ypc, in, netVars,
                   reports>>

get_next_coap_msg_id(id) == IF id = COAP_MSG_MAX_MSG_ID THEN 1 ELSE id + 1

\* next_msg_id is stored; get_coap_message_token reads message_token.
StoreMsgId(t) ==
    /\ pc[t] = "id"
    /\ next_msg_id' = get_next_coap_msg_id(tmp[t])
    /\ msg_id' = [msg_id EXCEPT ![t] = get_next_coap_msg_id(tmp[t])]
    /\ token' = [token EXCEPT ![t] = message_token]
    /\ tmp' = [tmp EXCEPT ![t] = message_token]
    /\ pc' = [pc EXCEPT ![t] = "token"]
    /\ raced' = (raced \/ \E u \in Threads : pc[u] = "token")
    /\ UNCHANGED <<phase, message_token, lock_send_buf,
                   send_buf, message_list, ypc, in, netVars, reports>>

StoreToken(t) ==
    /\ pc[t] = "token"
    /\ message_token' = tmp[t] + 1
    /\ tmp' = [tmp EXCEPT ![t] = 0]
    /\ pc' = [pc EXCEPT ![t] = "lock"]
    /\ UNCHANGED <<phase, next_msg_id, msg_id, token, raced, lock_send_buf, send_buf, message_list, ypc, in,
                   netVars, reports>>

\* The thread's call ends; coap_message_send releases lock_send_buf (and what
\* send_buf holds is of no use any more).
Return(t, outcome) ==
    /\ send_buf' = IF lock_send_buf = t THEN ACK ELSE send_buf
    /\ lock_send_buf' = IF lock_send_buf = t THEN NoThread ELSE lock_send_buf
    /\ pc' = [pc EXCEPT ![t] = outcome]

\* coap_message_send takes lock_send_buf and serializes.
Serialize(t) ==
    /\ pc[t] = "lock"
    /\ lock_send_buf = NoThread
    /\ lock_send_buf' = t
    /\ send_buf' = t
    /\ pc' = [pc EXCEPT ![t] = "write"]
    /\ UNCHANGED <<phase, idVars, tmp, message_list, ypc, in,
                   netVars, reports>>

\* No memory for the payload, or the message does not fit in send_buf.
SerializeFails(t) ==
    /\ pc[t] = "lock"
    /\ Return(t, "error")
    /\ UNCHANGED <<phase, idVars, tmp, message_list, ypc,
                   in, netVars, reports>>

\* What the server has to do once datagrams D are written.
Transmitted(D) == [r \in Requests |-> IF r \in D THEN "copy" ELSE server[r]]

\* Mutant: coap_message_send releases lock_send_buf once it has written.
Write_UnlocksEarly(t) ==
    /\ pc[t] = "write"
    /\ server' = Transmitted({send_buf})
    /\ pc' = [pc EXCEPT ![t] = "list"]
    /\ lock_send_buf' = NoThread
    /\ UNCHANGED <<phase, idVars, tmp, send_buf,
                   message_list, ypc, in, answers, reports>>

\* The message is on its way before it is on the list.
Write(t) ==
    /\ pc[t] = "write"
    /\ server' = Transmitted({send_buf})
    /\ pc' = [pc EXCEPT ![t] = "list"]
    /\ UNCHANGED <<phase, idVars, tmp, lock_send_buf, send_buf,
                   message_list, ypc, in, answers, reports>>

WriteFails(t) ==
    /\ pc[t] = "write"
    /\ Return(t, "error")
    /\ UNCHANGED <<phase, idVars, tmp, message_list, ypc,
                   in, netVars, reports>>

\* The timer starts, send_buf is copied for retransmissions, the node pushed.
_coap_message_list_add(t) ==
    LET info == [acked |-> FALSE,
                 retrans_count |-> 0, expired |-> FALSE, invalid |-> FALSE,
                 copy |-> send_buf]
    IN
    /\ pc[t] = "list"
    /\ message_list' = [r \in Listed \cup {t} |->
                           IF r = t THEN info ELSE message_list[r]]
    /\ pc' = [pc EXCEPT ![t] = "return"]
    /\ UNCHANGED <<phase, idVars, tmp, lock_send_buf, send_buf,
                   ypc, in, netVars, reports>>

\* No memory for the node: an error, although the message was sent.
ListAddFails(t) ==
    /\ pc[t] = "list"
    /\ Return(t, "error")
    /\ UNCHANGED <<phase, idVars, tmp, message_list, ypc,
                   in, netVars, reports>>

SendReturns(t) ==
    /\ pc[t] = "return"
    /\ Return(t, "ok")
    /\ UNCHANGED <<phase, idVars, tmp, message_list, ypc,
                   in, netVars, reports>>

Send(t) ==
    \/ ReadMsgId(t) \/ StoreMsgId(t) \/ StoreToken(t)
    \/ Serialize(t) \/ SerializeFails(t) \/ Write(t) \/ WriteFails(t)
    \/ _coap_message_list_add(t) \/ ListAddFails(t) \/ SendReturns(t)

----------------------------------------------------------------------------
(* IOT_COAP_Yield: coap_message_recv, then the sweep of the list.          *)

\* IOT_COAP_Construct yields once coap_client_auth returned, whatever it did.
Yielding == /\ phase \in {"auth", "ready"}
            /\ Ended(Yielder)
            /\ phase = "auth" => Yielder \in Begun

\* The list after f was applied to the SendInfo of the requests in R.
Modified(R, f(_)) ==
    [r \in Listed |-> IF r \in R THEN f(message_list[r]) ELSE message_list[r]]

\* The callbacks of R are called.
Told(R, what) ==
    [r \in Requests |-> IF r \notin R THEN report[r]
                        ELSE IF report[r] = "none" THEN what ELSE "again"]

\* Mutant: the node of an answered request stays NORMAL.
Answered_StaysNormal(R, m) ==
    /\ message_list' = Modified(R, LAMBDA info :
           [info EXCEPT !.acked = @ \/ m.kind = "PIGGY"])
    /\ report' = Told(R, "answer")
    /\ from' = [r \in Requests |-> IF r \in R THEN m.of ELSE from[r]]
    /\ is_authed' \in IF Yielder \in R THEN {0, 1} ELSE {is_authed}

\* Datagram m is the answer to R: their handlers are called, the sweep will
\* remove their nodes.  _coap_client_auth_callback is content with a 2.05
\* that has a payload.
Answered(R, m) ==
    /\ message_list' = Modified(R, LAMBDA info :
           [info EXCEPT !.acked = @ \/ m.kind = "PIGGY", !.invalid = TRUE])
    /\ report' = Told(R, "answer")
    /\ from' = [r \in Requests |-> IF r \in R THEN m.of ELSE from[r]]
    /\ is_authed' \in IF Yielder \in R THEN {0, 1} ELSE {is_authed}

\* Mutant: the ACK is taken for the end of the exchange.
_coap_ack_message_handle_Ends(m) ==
    /\ m.kind = "ACK"
    /\ message_list' = Modified({r \in Listed : msg_id[r] = m.id},
           LAMBDA info : [info EXCEPT !.acked = TRUE, !.invalid = TRUE])
    /\ ypc' = "sweep"
    /\ UNCHANGED <<in, reports>>

\* PROCESS_ACK_CMD: no more retransmissions, a new period for the response.
_coap_ack_message_handle(m) ==
    /\ m.kind = "ACK"
    /\ message_list' = Modified({r \in Listed : msg_id[r] = m.id},
           LAMBDA info : [info EXCEPT !.acked = TRUE, !.expired = FALSE])
    /\ ypc' = "sweep"
    /\ UNCHANGED <<in, reports>>

\* PROCESS_PIGGY_CMD: the nodes with the id of the message are answered.
_coap_piggyresp_message_handle(m) ==
    /\ m.kind = "PIGGY"
    /\ Answered({r \in Listed : msg_id[r] = m.id}, m)
    /\ ypc' = "sweep"
    /\ UNCHANGED in

\* A separate response that is confirmable is acknowledged first.
ResponseArrives(m) ==
    /\ m.kind = "RESP"
    /\ in' = m
    /\ ypc' \in {"ack", "response"}
    /\ UNCHANGED <<message_list, reports>>

\* A separate message with another code than 2.05 is dropped.
NotRecognized(m) ==
    /\ m.kind = "RESP"
    /\ ypc' = "sweep"
    /\ UNCHANGED <<in, message_list, reports>>

_coap_message_handle(m) ==
    /\ Yielding
    /\ ypc = "read"
    /\ m \in answers
    /\ answers' = answers \ {m}
    /\ \/ _coap_ack_message_handle(m)
       \/ _coap_piggyresp_message_handle(m)
       \/ ResponseArrives(m)
       \/ NotRecognized(m)
    /\ UNCHANGED <<phase, idVars, callVars, server>>

\* _coap_client_send_ack serializes into the same send_buf.
AckSerialize ==
    /\ ypc = "ack"
    /\ lock_send_buf = NoThread
    /\ lock_send_buf' = Yielder
    /\ send_buf' = ACK
    /\ ypc' = "acksent"
    /\ UNCHANGED <<phase, idVars, pc, tmp, message_list, in,
                   netVars, reports>>

AckWritten ==
    /\ ypc = "acksent"
    /\ lock_send_buf' = NoThread
    /\ ypc' = "response"
    /\ UNCHANGED <<phase, idVars, pc, tmp, send_buf, message_list,
                   in, netVars, reports>>

\* Mutant: only the lengths of the tokens are compared.
SameToken_Length(r) == TRUE

\* The tokens of the message and of the node are compared.
SameToken(r) == token[r] = in.token

\* PROCESS_RESP_CMD: the nodes with the token of the message are answered.
_coap_resp_message_handle ==
    /\ ypc = "response"
    /\ Answered({r \in Listed : SameToken(r)}, in)
    /\ in' = NoDatagram
    /\ ypc' = "sweep"
    /\ UNCHANGED <<phase, idVars, callVars, netVars>>

\* A node whose timer has run out is written again, or else given up.
Retransmit(info) == info.retrans_count < max_retry_count /\ ~info.acked

\* PROCESS_WAIT_CMD, after a datagram was handled or the read timed out (any
\* other error ends the cycle without it, and changes nothing): answered
\* nodes are removed; those whose timer has run out are written again (the
\* write may fail) or given up.
Sweep ==
    LET due   == {r \in Listed : /\ ~message_list[r].invalid
                                 /\ message_list[r].expired}
        again == {r \in due : Retransmit(message_list[r])}
        ended == due \ again
        keep  == {r \in Listed : ~message_list[r].invalid} \ ended
        after == Modified(again, LAMBDA info :
                   [info EXCEPT !.retrans_count = @ + 1, !.expired = FALSE])
    IN
    /\ Yielding
    /\ ypc \in {"read", "sweep"}
    /\ ypc' = "read"
    /\ message_list' = [r \in keep |-> after[r]]
    /\ \E written \in SUBSET again :
         server' = Transmitted({message_list[r].copy : r \in written})
    /\ report' = Told(ended, "timeout")
    /\ is_authed' = IF Yielder \in ended THEN 0 ELSE is_authed
    /\ UNCHANGED <<phase, idVars, callVars, in, answers,
                   from>>

\* Nothing is delivered on a connection that was closed.
ClosesIf(b) ==
    /\ server' = IF b THEN [r \in Requests |-> "nothing"] ELSE server
    /\ answers' = IF b THEN {} ELSE answers

\* IOT_COAP_Construct leaves its loop: the client is ready, or destroyed.
ConstructReturns ==
    /\ phase = "auth"
    /\ Yielding
    /\ ypc = "read"
    /\ is_authed # -1
    /\ phase' = IF is_authed = 1 THEN "ready" ELSE "destroyed"
    /\ message_list' = IF is_authed = 1 THEN message_list ELSE << >>
    /\ is_authed' = IF is_authed = 1 THEN 1 ELSE -1
    /\ ClosesIf(is_authed # 1)
    /\ UNCHANGED <<idVars, callVars, ypc, in, report, from>>

\* The application destroys the client when no thread is inside a call.
IOT_COAP_Destroy ==
    /\ phase = "ready"
    /\ ypc = "read"
    /\ \A t \in Threads : Ended(t)
    /\ phase' = "destroyed"
    /\ message_list' = << >>
    /\ is_authed' = -1
    /\ ClosesIf(TRUE)
    /\ UNCHANGED <<idVars, callVars, ypc, in, report, from>>

Yield ==
    \/ \E m \in answers : _coap_message_handle(m)
    \/ AckSerialize \/ AckWritten \/ _coap_resp_message_handle
    \/ Sweep
    \/ ConstructReturns

----------------------------------------------------------------------------
(* The server and the clock.                                               *)

\* The server answers every copy of a request that it receives: at once, or
\* with an ACK and a response later.
ServerAnswers(r, kind) ==
    /\ kind \in IF server[r] = "copy" THEN {"ACK", "PIGGY"}
                ELSE IF server[r] = "due" THEN {"RESP"} ELSE {}
    /\ Cardinality(answers) < MaxInFlight
    /\ answers' = answers \cup {Answer(kind, r)}
    /\ server' = [server EXCEPT ![r] = IF kind = "ACK" THEN "due"
                                                      ELSE "nothing"]
    /\ UNCHANGED <<phase, idVars, callVars, message_list, ypc, in, reports>>

NetworkLoses(m) ==
    /\ m \in answers
    /\ answers' = answers \ {m}
    /\ UNCHANGED <<phase, idVars, callVars, message_list, ypc, in, server, reports>>

\* command_timeout_ms has passed since the timer of the node was started.
TimerExpires(r) ==
    /\ r \in Listed
    /\ ~message_list[r].expired /\ ~message_list[r].invalid
    /\ message_list' = [message_list EXCEPT ![r].expired = TRUE]
    /\ UNCHANGED <<phase, idVars, callVars, ypc, in, netVars, reports>>

Environment ==
    \/ \E r \in Requests, kind \in Kinds : ServerAnswers(r, kind)
    \/ \E r \in Requests : TimerExpires(r)
    \/ \E m \in answers : NetworkLoses(m)

----------------------------------------------------------------------------
Next == \/ \E t \in Threads : Send(t)
        \/ Yield
        \/ IOT_COAP_Destroy
        \/ Environment

Spec == Init /\ [][Next]_vars

\* Calls return, the application keeps yielding (a read does not fail for
\* ever with anything but a time-out), timers run out.  Neither the network
\* nor the server is fair.
Fairness ==
    /\ WF_vars(\E t \in Threads : pc[t] # "idle" /\ Send(t))
    /\ WF_vars(\/ ReadMsgId(Yielder)
               \/ AckSerialize \/ AckWritten \/ _coap_resp_message_handle
               \/ Sweep \/ ConstructReturns)
    /\ WF_vars(\E r \in Requests : TimerExpires(r))

FairSpec == Spec /\ Fairness

----------------------------------------------------------------------------
(* Properties.                                                             *)

\* The values the client's fields, the list's nodes, the threads' locals and
\* the histories take: a message is retransmitted max_retry_count times at
\* most, message ids stay in 0..COAP_MSG_MAX_MSG_ID.
TypeOK ==
    /\ phase \in {"auth", "ready", "destroyed"}
    /\ is_authed \in {-1, 0, 1}
    /\ next_msg_id \in 0..COAP_MSG_MAX_MSG_ID
    /\ message_token \in 0..(MaxRequests + 1)
    /\ lock_send_buf \in Threads \cup {NoThread}
    /\ send_buf \in Requests \cup {ACK}
    /\ pc \in [Threads -> {"idle", "id", "token", "lock", "write",
                           "list", "return", "ok", "error"}]
    /\ tmp \in [Threads -> Nat]
    /\ msg_id \in [Requests -> 0..COAP_MSG_MAX_MSG_ID]
    /\ token \in [Requests -> 0..(MaxRequests + 1)]
    /\ Listed \subseteq Begun
    /\ message_list \in [Listed -> SendInfo]
    /\ ypc \in {"read", "ack", "acksent", "response", "sweep"}
    /\ in \in Datagrams \cup {NoDatagram}
    /\ server \in [Requests -> {"nothing", "copy", "due"}]
    /\ answers \subseteq Datagrams
    /\ report \in [Requests -> {"none", "answer", "timeout", "again"}]
    /\ from \in [Requests -> Requests \cup {NoThread}]
    /\ raced \in BOOLEAN

\* A request keeps the promise stated by RequestPromise, whatever the order
\* of ACK, piggybacked and separate responses, their duplicates, time-outs,
\* retransmissions and the return of the call that sent it: one report for a
\* request on the list, none for one that was refused after it was written.
Promise == INSTANCE RequestPromise WITH
    result <- [r \in Requests |-> IF pc[r] = "idle" THEN "none"
                                  ELSE IF pc[r] \in {"ok", "error"} THEN pc[r]
                                  ELSE "calling"]
KeepsPromise == Promise!PSpec

\* What is retransmitted for a request is that request, although every
\* request and every ACK of the yielding thread is serialized into the same
\* send_buf and copied from it only after it was written.
CopyIntact == \A r \in Listed : message_list[r].copy = r

\* The answer a request is reported with was made for it, unless two threads
\* drew a message id or a token at the same time (nothing protects the
\* counters) or the ids came round.
OwnAnswer ==
    ~raced /\ Cardinality(Begun) <= COAP_MSG_MAX_MSG_ID =>
        \A r \in Requests : from[r] \in {NoThread, r}

\* Every accepted request is reported in the end although every datagram may
\* be lost, unless the client is destroyed; and IOT_COAP_Construct returns,
\* unless coap_client_auth failed: it ignores that, and yields for ever.
\* (Requests are finitely many and a report is not taken back: the state in
\* which all are reported is reached, and stays.)
EventuallyReported ==
    <>[](/\ \A r \in Requests : pc[r] = "ok" =>
              report[r] # "none" \/ phase = "destroyed"
         /\ phase = "auth" => pc[Yielder] = "error")
============================================================================
