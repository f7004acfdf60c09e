--------------------------- MODULE MqttSubscribe ---------------------------
(***************************************************************************)
(* Subscribing, unsubscribing and resubscribing (mqtt_client_subscribe.c,  *)
(* mqtt_client_unsubscribe.c, _handle_suback_packet,                       *)
(* _handle_unsuback_packet, qcloud_iot_mqtt_sub_info_proc).                *)
(*                                                                         *)
(* Every call that gets past its entry checks copies the topic filter to   *)
(* the heap.  The copy belongs to the call, then to a node of              *)
(* list_sub_wait_ack, then to an entry of sub_handles, until somebody      *)
(* frees it.  Application threads call in while the yielding thread reads  *)
(* acknowledgements, sweeps the list, reconnects and resubscribes.         *)
(*                                                                         *)
(* A request number stands for the call, its filter copy, its list node    *)
(* and its packet id (that two requests on the list have different ids is  *)
(* the subject of MqttPublish).  0 is NULL.                                *)
(***************************************************************************)
EXTENDS Integers, FiniteSets, Sequences

CONSTANTS
    Apps,                  \* application threads
    Yielder,               \* the thread inside IOT_MQTT_Yield
    NoThread,              \* the owner of a mutex nobody holds
    Topics,                \* topic filters
    Wildcards,             \* the filters that contain "/#" or "/+"
    Handlers,              \* pairs of message and event handler
    MAX_MESSAGE_HANDLERS,  \* size of sub_handles, capacity of the list
    MaxRequests,           \* bound: requests in a behaviour
    MaxDisconnects,        \* bound: connections lost in a behaviour
    StackGarbage           \* what an uninitialized filter pointer may hold

ASSUME ThreadsAssumption ==
    /\ Yielder \notin Apps
    /\ NoThread \notin Apps \cup {Yielder}
ASSUME BoundsAssumption ==
    /\ MAX_MESSAGE_HANDLERS \in Nat \ {0}
    /\ MaxRequests \in Nat
    /\ MaxDisconnects \in Nat
    /\ Topics # {}
    /\ Wildcards \subseteq Topics
    /\ StackGarbage \subseteq 0..MaxRequests

VARIABLES
    is_connected,    \* the client's connection flag
    lock_write_buf,  \* owner of the mutex held from the push to the send
    pc,              \* where each thread is inside (un)subscribe
    arg,             \* per thread: the topic of the running unsubscribe
    cur,             \* per thread: the request of the running call
    requests,        \* requests made so far
    req,             \* per request: type, topic, handler
    heap,            \* per request: its filter copy is none, live or freed
    list,            \* list_sub_wait_ack
    node_state,      \* per request: state of its list node
    expired,         \* per request: sub_start_time has run out
    topic_filter,    \* per entry of sub_handles: the filter, 0 when free
    handle,          \* per entry: the request its other fields come from
    ypc,             \* where the yielding thread is
    itr,             \* loop index of the running resubscribe
    ptr,             \* filter pointer resubscribe read from sub_handles
    to_server,       \* requests on the connection
    to_client,       \* acknowledgements on the connection
    disconnects,     \* connections lost so far
    events,          \* history, per request: events raised
    lost,            \* history: filters that found sub_handles full
    used_freed,      \* history: filters used or freed again after being freed
    wild,            \* history: an uninitialized filter pointer was freed
    late,            \* history: requests that expired before they were sent
    raced,           \* history: filters freed under resubscribe's pointer
    asked,           \* history: topics asked for on this connection
    resub_failed     \* history: resubscribe gave up on this connection

connVars == <<to_server, to_client>>
reqVars  == <<requests, req>>
nodeVars == <<list, node_state, expired>>
slotVars == <<topic_filter, handle>>
marks    == <<wild, late, raced>>
vars == <<is_connected, lock_write_buf, pc, arg, cur, requests, req, heap,
          list, node_state, expired, topic_filter, handle, ypc, itr, ptr,
          to_server, to_client, disconnects, wild, late, raced, events,
          lost, used_freed, asked, resub_failed>>

Threads  == Apps \cup {Yielder}
Requests == 1..MaxRequests
Slots    == 1..MAX_MESSAGE_HANDLERS
NULL     == 0
NoTopic  == CHOOSE t \in Topics : TRUE
NoRequest == [type |-> "NONE", topic |-> NoTopic, handler |-> NULL]

Init ==
    /\ is_connected = TRUE
    /\ lock_write_buf = NoThread
    /\ pc = [t \in Threads |-> "idle"]
    /\ arg = [t \in Threads |-> NoTopic]
    /\ cur = [t \in Threads |-> NULL]
    /\ requests = 0
    /\ req = [n \in Requests |-> NoRequest]
    /\ heap = [n \in Requests |-> "none"]
    /\ list = {}
    /\ node_state = [n \in Requests |-> "NORMAL"]
    /\ expired = [n \in Requests |-> FALSE]
    /\ topic_filter = [i \in Slots |-> NULL]
    /\ handle = [i \in Slots |-> NULL]
    /\ ypc = "read"
    /\ itr = 1
    /\ ptr = NULL
    /\ to_server = <<>>
    /\ to_client = <<>>
    /\ disconnects = 0
    /\ events = [n \in Requests |-> {}]
    /\ lost = {}
    /\ used_freed = {}
    /\ wild = FALSE
    /\ late = {}
    /\ raced = {}
    /\ asked = {}
    /\ resub_failed = FALSE

\* Where a thread is.  Once freed memory has been used or a wild pointer
\* freed, what the program does is undefined: the model follows it up to
\* there.
Defined == used_freed = {} /\ ~wild
At(t, step) == pc[t] = step /\ Defined
YielderAt(step) == ypc = step /\ Defined

\* HAL_Free on each filter of a set (NULL is ignored).
Free(S) ==
    /\ heap' = [n \in Requests |-> IF n \in S THEN "freed" ELSE heap[n]]
    /\ used_freed' = used_freed \cup {n \in S \ {NULL} : heap[n] # "live"}

Raise(S, e) == events' = [n \in Requests |-> IF n \in S THEN events[n] \cup {e}
                                                        ELSE events[n]]

\* A call of thread t ends.  The yielding thread is inside resubscribe: it
\* goes on to the next entry, or gives up.
Return(t, ok) ==
    /\ pc' = [pc EXCEPT ![t] = "idle"]
    /\ cur' = [cur EXCEPT ![t] = NULL]
    /\ IF t # Yielder THEN UNCHANGED <<ypc, itr, resub_failed>>
       ELSE IF ok THEN itr' = itr + 1 /\ UNCHANGED <<ypc, resub_failed>>
       ELSE ypc' = "read" /\ resub_failed' = TRUE /\ UNCHANGED itr

\* The filter is copied to the heap and the call waits for lock_write_buf.
Allocate(t, type, topic, handler) ==
    /\ requests < MaxRequests
    /\ requests' = requests + 1
    /\ req' = [req EXCEPT ![requests + 1] =
                 [type |-> type, topic |-> topic, handler |-> handler]]
    /\ heap' = [heap EXCEPT ![requests + 1] = "live"]
    /\ cur' = [cur EXCEPT ![t] = requests + 1]
    /\ pc' = [pc EXCEPT ![t] = "lock"]

----------------------------------------------------------------------------
(* qcloud_iot_mqtt_subscribe                                               *)

Subscribe(t, topic, handler) ==
    /\ At(t, "idle")
    /\ t # Yielder
    /\ is_connected
    /\ Allocate(t, "SUBSCRIBE", topic, handler)
    /\ UNCHANGED <<is_connected, lock_write_buf, arg, nodeVars, slotVars, ypc,
                   itr, ptr, connVars, disconnects, marks, events, lost,
                   used_freed, asked, resub_failed>>

\* With lock_write_buf: serialize, push_sub_info_to.
Push(t) ==
    /\ At(t, "lock")
    /\ lock_write_buf = NoThread
    /\ Cardinality(list) < MAX_MESSAGE_HANDLERS
    /\ lock_write_buf' = t
    /\ list' = list \cup {cur[t]}
    /\ pc' = [pc EXCEPT ![t] = "send"]
    /\ UNCHANGED <<is_connected, arg, cur, reqVars, heap, node_state, expired,
                   slotVars, ypc, itr, ptr, connVars, disconnects, marks,
                   events, lost, used_freed, asked, resub_failed>>

\* The packet does not fit, the list is full or an allocation fails.
PushFails(t) ==
    /\ At(t, "lock")
    /\ lock_write_buf = NoThread
    /\ Free({cur[t]})
    /\ Return(t, FALSE)
    /\ UNCHANGED <<is_connected, lock_write_buf, arg, reqVars, nodeVars,
                   slotVars, ptr, connVars, disconnects, marks, events, lost,
                   asked>>

\* A packet written after the connection was lost is lost with it.  Nothing
\* the call does after the write concerns the request.
Send(t) ==
    /\ At(t, "send")
    /\ to_server' = IF is_connected THEN Append(to_server, cur[t])
                                    ELSE to_server
    /\ asked' = IF is_connected /\ req[cur[t]].type = "SUBSCRIBE"
                  THEN asked \cup {req[cur[t]].topic} ELSE asked
    /\ lock_write_buf' = NoThread
    /\ Return(t, TRUE)
    /\ UNCHANGED <<is_connected, arg, reqVars, heap, nodeVars, slotVars, ptr,
                   to_client, disconnects, marks, events, lost, used_freed>>

\* The node is taken off the list again and the filter freed, even if the
\* sweep has done both meanwhile.
SendFails(t) ==
    /\ At(t, "send")
    /\ list' = list \ {cur[t]}
    /\ expired' = [expired EXCEPT ![cur[t]] = FALSE]
    /\ Free({cur[t]})
    /\ lock_write_buf' = NoThread
    /\ Return(t, FALSE)
    /\ UNCHANGED <<is_connected, arg, reqVars, node_state, slotVars, ptr,
                   connVars, disconnects, marks, events, lost, asked>>

----------------------------------------------------------------------------
(* qcloud_iot_mqtt_unsubscribe                                             *)

\* The entries unsubscribe removes: a filter with a wildcard matches all.
Matches(topic) ==
    {i \in Slots :
        \/ topic_filter[i] # NULL /\ req[topic_filter[i]].topic = topic
        \/ topic \in Wildcards}

\* With lock_generic: entries are told and freed.  A free entry still has
\* the event handler of its last owner.
Unsubscribe(t, topic) ==
    /\ At(t, "idle")
    /\ t # Yielder
    /\ Matches(topic) # {}
    /\ Raise({handle[i] : i \in Matches(topic)}, "UNSUBSCRIBE")
    /\ Free({topic_filter[i] : i \in Matches(topic)})
    /\ topic_filter' = [i \in Slots |-> IF i \in Matches(topic) THEN NULL
                                                     ELSE topic_filter[i]]
    /\ raced' = raced \cup {f \in {ptr} \ {NULL} :
                              \E i \in Matches(topic) : topic_filter[i] = f}
    /\ arg' = [arg EXCEPT ![t] = topic]
    /\ pc' = [pc EXCEPT ![t] = "unsub"]
    /\ UNCHANGED <<is_connected, lock_write_buf, cur, reqVars, nodeVars,
                   handle, ypc, itr, ptr, connVars, disconnects, wild, late,
                   lost, asked, resub_failed>>

\* The connection is only looked at now.
UnsubscribeRequest(t) ==
    /\ At(t, "unsub")
    /\ is_connected
    /\ Allocate(t, "UNSUBSCRIBE", arg[t], NULL)
    /\ arg' = [arg EXCEPT ![t] = NoTopic]
    /\ UNCHANGED <<is_connected, lock_write_buf, nodeVars, slotVars, ypc, itr,
                   ptr, connVars, disconnects, marks, events, lost,
                   used_freed, asked, resub_failed>>

\* Not connected, or out of memory: the entry is gone, the server not told.
UnsubscribeFails(t) ==
    /\ At(t, "unsub")
    /\ Return(t, FALSE)
    /\ arg' = [arg EXCEPT ![t] = NoTopic]
    /\ UNCHANGED <<is_connected, lock_write_buf, reqVars, heap, nodeVars,
                   slotVars, ptr, connVars, disconnects, marks, events, lost,
                   used_freed, asked>>

----------------------------------------------------------------------------
(* The yielding thread: acknowledgements and the sweep.                    *)

callVars == <<lock_write_buf, pc, arg, cur, requests, req>>

\* Mutant: the comparison of handlers is left out.
_check_handle_is_identical_Never(i, n) == FALSE

\* _check_handle_is_identical
_check_handle_is_identical(i, n) ==
    /\ topic_filter[i] # NULL
    /\ req[topic_filter[i]].topic = req[n].topic
    /\ req[handle[i]].handler = req[n].handler

FreeSlots == {i \in Slots : topic_filter[i] = NULL}
FirstFree == CHOOSE i \in FreeSlots : \A j \in FreeSlots : i <= j

\* _mask_sub_info_from: the node with the packet id becomes invalid.
_mask_sub_info_from(n) ==
    node_state' = IF n \in list THEN [node_state EXCEPT ![n] = "INVALID"]
                                ELSE node_state

\* A SUBACK that grants the subscription.  An error keeps yield from
\* sweeping in this round.
SubackGranted(n) ==
    \/ /\ n \notin list                       \* it has timed out
       /\ ypc' = "read"
       /\ UNCHANGED <<heap, used_freed, slotVars, events, lost>>
    \/ /\ n \in list
       /\ \E i \in Slots : _check_handle_is_identical(i, n)
       /\ Free({n})
       /\ Raise({n}, "SUBCRIBE_SUCCESS")
       /\ ypc' = "sweep"
       /\ UNCHANGED <<slotVars, lost>>
    \/ /\ n \in list
       /\ ~\E i \in Slots : _check_handle_is_identical(i, n)
       /\ FreeSlots # {}
       /\ topic_filter' = [topic_filter EXCEPT ![FirstFree] = n]
       /\ handle' = [handle EXCEPT ![FirstFree] = n]
       /\ Raise({n}, "SUBCRIBE_SUCCESS")
       /\ ypc' = "sweep"
       /\ UNCHANGED <<heap, used_freed, lost>>
    \/ /\ n \in list
       /\ ~\E i \in Slots : _check_handle_is_identical(i, n)
       /\ FreeSlots = {}                      \* "NO more space"
       /\ lost' = lost \cup {n}
       /\ ypc' = "read"
       /\ UNCHANGED <<heap, used_freed, slotVars, events>>

\* Mutant: the filter of a refused subscription is not freed.
SubackRefused_Leaks(n) ==
    /\ Raise({n}, "SUBCRIBE_NACK")
    /\ ypc' = "read"
    /\ UNCHANGED <<heap, used_freed, slotVars, lost>>

\* A SUBACK that refuses it: the event is raised before the list is looked
\* at.
SubackRefused(n) ==
    /\ Raise({n}, "SUBCRIBE_NACK")
    /\ IF n \in list THEN Free({n}) ELSE UNCHANGED <<heap, used_freed>>
    /\ ypc' = "read"
    /\ UNCHANGED <<slotVars, lost>>

HandleSuback ==
    /\ YielderAt("read")
    /\ is_connected
    /\ to_client # <<>>
    /\ LET a == Head(to_client) IN
       /\ req[a.n].type = "SUBSCRIBE"
       /\ _mask_sub_info_from(a.n)
       /\ IF a.granted THEN SubackGranted(a.n) ELSE SubackRefused(a.n)
    /\ to_client' = Tail(to_client)
    /\ UNCHANGED <<is_connected, callVars, list, expired, itr, ptr, to_server,
                   disconnects, marks, asked, resub_failed>>

\* An UNSUBACK: the filter of its node is freed.  Without a node the filter
\* pointer is an uninitialized local.
HandleUnsuback ==
    /\ YielderAt("read")
    /\ is_connected
    /\ to_client # <<>>
    /\ LET n == Head(to_client).n IN
       /\ req[n].type = "UNSUBSCRIBE"
       /\ _mask_sub_info_from(n)
       /\ \E f \in (IF n \in list THEN {n} ELSE StackGarbage) :
            Free({f}) /\ wild' = (n \notin list /\ f # NULL)
       /\ Raise({n}, "UNSUBCRIBE_SUCCESS")
    /\ to_client' = Tail(to_client)
    /\ ypc' = "sweep"
    /\ UNCHANGED <<is_connected, callVars, list, expired, slotVars, itr, ptr,
                   to_server, disconnects, late, raced, lost, asked,
                   resub_failed>>

\* Mutant: nodes that were answered time out too.
TimedOut_Invalid == {n \in list : is_connected /\ expired[n]}

\* Mutant: the test of the connection is inverted.
TimedOut_Offline ==
    {n \in list : node_state[n] = "NORMAL" /\ ~is_connected /\ expired[n]}

\* Nodes the sweep gives up: they wait for an answer and their timer ran out.
TimedOut ==
    {n \in list : node_state[n] = "NORMAL" /\ is_connected /\ expired[n]}

\* qcloud_iot_mqtt_sub_info_proc holds lock_list_sub from end to end.  It
\* follows a handled packet, or a read that found nothing.
sub_info_proc ==
    /\ \/ YielderAt("sweep")
       \/ YielderAt("read") /\ is_connected
    /\ list' = {n \in list \ TimedOut : node_state[n] = "NORMAL"}
    /\ Free(TimedOut)
    /\ events' = [n \in Requests |->
                    IF n \in TimedOut THEN events[n] \cup {"TIMEOUT"}
                                      ELSE events[n]]
    /\ expired' = [n \in Requests |-> n \in list' /\ expired[n]]
    /\ ypc' = "read"
    /\ UNCHANGED <<is_connected, callVars, node_state, slotVars, itr, ptr,
                   connVars, disconnects, marks, lost, asked, resub_failed>>

----------------------------------------------------------------------------
(* Losing the connection, reconnecting, qcloud_iot_mqtt_resubscribe.       *)

Disconnect ==
    /\ YielderAt("read")
    /\ is_connected
    /\ disconnects < MaxDisconnects
    /\ disconnects' = disconnects + 1
    /\ is_connected' = FALSE
    /\ to_server' = <<>>
    /\ to_client' = <<>>
    /\ UNCHANGED <<callVars, heap, nodeVars, slotVars, ypc, itr, ptr, marks,
                   events, lost, used_freed, asked, resub_failed>>

\* CONNECT is accepted.
Reconnect ==
    /\ YielderAt("read")
    /\ ~is_connected
    /\ is_connected' = TRUE
    /\ asked' = {}
    /\ resub_failed' = FALSE
    /\ ypc' = "resub"
    /\ itr' = 1
    /\ UNCHANGED <<callVars, heap, nodeVars, slotVars, ptr, to_server,
                   to_client, disconnects, marks, events, lost, used_freed>>

\* Mutant: the loop ends at the first free entry.
ResubscribeSkip_Stops ==
    /\ YielderAt("resub")
    /\ pc[Yielder] = "idle"
    /\ IF itr \in Slots /\ topic_filter[itr] = NULL
         THEN ypc' = "read" /\ UNCHANGED itr
         ELSE itr \notin Slots /\ ypc' = "read" /\ UNCHANGED itr
    /\ UNCHANGED <<is_connected, callVars, heap, nodeVars, slotVars, ptr,
                   connVars, disconnects, marks, events, lost, used_freed,
                   asked, resub_failed>>

\* A free entry is passed over; after the last one the loop ends.
ResubscribeSkip ==
    /\ YielderAt("resub")
    /\ pc[Yielder] = "idle"
    /\ \/ itr \in Slots /\ topic_filter[itr] = NULL
          /\ itr' = itr + 1 /\ UNCHANGED ypc
       \/ itr \notin Slots /\ ypc' = "read" /\ UNCHANGED itr
    /\ UNCHANGED <<is_connected, callVars, heap, nodeVars, slotVars, ptr,
                   connVars, disconnects, marks, events, lost, used_freed,
                   asked, resub_failed>>

\* The filter pointer of an entry is read without lock_generic ...
ResubscribeRead ==
    /\ YielderAt("resub")
    /\ pc[Yielder] = "idle"
    /\ itr \in Slots /\ topic_filter[itr] # NULL
    /\ ptr' = topic_filter[itr]
    /\ pc' = [pc EXCEPT ![Yielder] = "copy"]
    /\ UNCHANGED <<is_connected, lock_write_buf, arg, cur, reqVars, heap,
                   nodeVars, slotVars, ypc, itr, connVars, disconnects, marks,
                   events, lost, used_freed, asked, resub_failed>>

\* ... and the string copied later: if it has been freed meanwhile, the copy
\* may hold anything.
ResubscribeCopy ==
    /\ At(Yielder, "copy")
    /\ \E topic \in (IF heap[ptr] = "live" THEN {req[ptr].topic} ELSE Topics) :
         Allocate(Yielder, "SUBSCRIBE", topic, req[handle[itr]].handler)
    /\ used_freed' = used_freed \cup {f \in {ptr} : heap[f] # "live"}
    /\ ptr' = NULL
    /\ UNCHANGED <<is_connected, lock_write_buf, arg, nodeVars, slotVars, ypc,
                   itr, connVars, disconnects, marks, events, lost, asked,
                   resub_failed>>

\* Out of memory.
ResubscribeFails ==
    /\ At(Yielder, "copy")
    /\ Return(Yielder, FALSE)
    /\ ptr' = NULL
    /\ UNCHANGED <<is_connected, lock_write_buf, arg, reqVars, heap, nodeVars,
                   slotVars, connVars, disconnects, marks, events, lost,
                   used_freed, asked>>

----------------------------------------------------------------------------
(* Environment: the server, and the clock.                                 *)

\* A SUBACK may refuse; an UNSUBACK only confirms.
ServerAnswers ==
    /\ Defined
    /\ to_server # <<>>
    /\ \E granted \in BOOLEAN :
         /\ req[Head(to_server)].type = "UNSUBSCRIBE" => granted
         /\ to_client' = Append(to_client, [n |-> Head(to_server),
                                           granted |-> granted])
    /\ to_server' = Tail(to_server)
    /\ UNCHANGED <<is_connected, callVars, heap, nodeVars, slotVars, ypc, itr,
                   ptr, disconnects, marks, events, lost, used_freed, asked,
                   resub_failed>>

\* command_timeout_ms after the push, whatever the call that pushed the node
\* is doing: the write of its packet may block.
TimerExpires(n) ==
    /\ Defined
    /\ n \in list
    /\ ~expired[n]
    /\ expired' = [expired EXCEPT ![n] = TRUE]
    /\ late' = late \cup {m \in {n} : \E t \in Threads :
                                       pc[t] = "send" /\ cur[t] = m}
    /\ UNCHANGED <<is_connected, callVars, heap, list, node_state, slotVars,
                   ypc, itr, ptr, connVars, disconnects, wild, raced, events,
                   lost, used_freed, asked, resub_failed>>

----------------------------------------------------------------------------
Call(t) ==
    \/ \E topic \in Topics, handler \in Handlers : Subscribe(t, topic, handler)
    \/ \E topic \in Topics : Unsubscribe(t, topic)
    \/ UnsubscribeRequest(t) \/ UnsubscribeFails(t)
    \/ Push(t) \/ PushFails(t)
    \/ Send(t) \/ SendFails(t)

Yield ==
    \/ HandleSuback \/ HandleUnsuback
    \/ sub_info_proc
    \/ Disconnect \/ Reconnect
    \/ ResubscribeSkip \/ ResubscribeRead \/ ResubscribeCopy
    \/ ResubscribeFails

Next == \/ \E t \in Threads : Call(t)
        \/ Yield
        \/ ServerAnswers
        \/ \E n \in Requests : TimerExpires(n)

Spec == Init /\ [][Next]_vars

\* Calls return, mutexes are taken, the yielding thread keeps cycling, CONNECT
\* succeeds in the end and timers run out.
Fairness ==
    /\ \A t \in Threads :
         /\ SF_vars(Push(t) \/ PushFails(t))
         /\ WF_vars(Send(t) \/ SendFails(t))
    /\ SF_vars(HandleSuback \/ HandleUnsuback)
    /\ SF_vars(sub_info_proc)
    /\ WF_vars(Reconnect)
    /\ WF_vars(ResubscribeSkip \/ ResubscribeRead \/ ResubscribeCopy
                 \/ ResubscribeFails)
    /\ \A n \in Requests : WF_vars(TimerExpires(n))

FairSpec == Spec /\ Fairness

----------------------------------------------------------------------------
(* Properties.                                                             *)

\* The values of the table, the list and the heap; in particular the loop of
\* resubscribe stays inside sub_handles.
TypeOK ==
    /\ is_connected \in BOOLEAN
    /\ lock_write_buf \in Threads \cup {NoThread}
    /\ pc \in [Threads -> {"idle", "lock", "send", "unsub", "copy"}]
    /\ arg \in [Threads -> Topics]
    /\ cur \in [Threads -> 0..MaxRequests]
    /\ requests \in 0..MaxRequests
    /\ req \in [Requests -> [type : {"NONE", "SUBSCRIBE", "UNSUBSCRIBE"},
                             topic : Topics,
                             handler : Handlers \cup {NULL}]]
    /\ heap \in [Requests -> {"none", "live", "freed"}]
    /\ list \subseteq 1..requests
    /\ node_state \in [Requests -> {"NORMAL", "INVALID"}]
    /\ expired \in [Requests -> BOOLEAN]
    /\ topic_filter \in [Slots -> 0..requests]
    /\ handle \in [Slots -> 0..requests]
    /\ ypc \in {"read", "sweep", "resub"}
    /\ itr \in 1..(MAX_MESSAGE_HANDLERS + 1)
    /\ ptr \in 0..requests
    /\ to_server \in Seq(1..requests)
    /\ to_client \in Seq([n : 1..requests, granted : BOOLEAN])
    /\ disconnects \in 0..MaxDisconnects
    /\ events \in [Requests -> SUBSET {"UNSUBSCRIBE", "SUBCRIBE_SUCCESS",
                                       "SUBCRIBE_NACK", "UNSUBCRIBE_SUCCESS",
                                       "TIMEOUT"}]
    /\ lost \subseteq 1..requests
    /\ used_freed \subseteq Requests
    /\ wild \in BOOLEAN
    /\ late \subseteq Requests
    /\ raced \subseteq Requests
    /\ asked \subseteq Topics
    /\ resub_failed \in BOOLEAN

\* Where a live filter may belong: to a call that has not pushed it, to a
\* node that waits, to an entry of sub_handles.
Owners(n) == {<<"call", t>> : t \in {u \in Threads :
                                       pc[u] = "lock" /\ cur[u] = n}}
             \cup {<<"node", m>> : m \in {k \in list :
                                       k = n /\ node_state[k] = "NORMAL"}}
             \cup {<<"entry", i>> : i \in {j \in Slots : topic_filter[j] = n}}

\* Every filter on the heap has exactly one owner, who will free it, whatever
\* the order of acknowledgements, time-outs, failed sends, unsubscribes and
\* reconnections; a freed one has none.  A freed filter is used again in two
\* cases only: its request timed out before the call had sent it and the send
\* then failed (both free it), or unsubscribe freed it under the pointer that
\* resubscribe had read.  What holds otherwise: a SUBACK that finds
\* sub_handles full leaks its filter, and after an UNSUBACK whose node timed
\* out (it frees a wild pointer) nothing is claimed.
FilterOwnership == ~wild =>
    /\ used_freed \subseteq late \cup raced
    /\ used_freed = {} => \A n \in Requests :
         Cardinality(Owners(n)) = IF heap[n] = "live" /\ n \notin lost THEN 1
                                                                       ELSE 0

\* No two entries of sub_handles have the same filter and handlers, although
\* resubscribe asks for every entry again and two threads may ask for the
\* same topic at once.
EntriesDistinct ==
    \A i, j \in Slots :
        i # j /\ topic_filter[i] # NULL /\ topic_filter[j] # NULL =>
            req[topic_filter[i]] # req[topic_filter[j]]

\* Once reconnected, every topic with a handler has been asked for on this
\* connection, unless resubscribe gave up (or a wild pointer was freed).
ReconnectAsksAgain ==
    is_connected /\ ypc # "resub" /\ ~resub_failed /\ ~wild =>
        \A i \in Slots : topic_filter[i] # NULL =>
            req[topic_filter[i]].topic \in asked

\* A subscription is not reported as both done and timed out, whichever of
\* SUBACK and time-out comes first: a late SUBACK finds no node, and a node
\* that was answered no longer times out.
OneOutcome ==
    \A n \in Requests : req[n].type = "SUBSCRIBE" =>
        ~({"SUBCRIBE_SUCCESS", "TIMEOUT"} \subseteq events[n])

\* A request on the list is reported in the end, unless sub_handles was full
\* or freed memory was used.
EventuallyReported ==
    \A n \in Requests :
        n \in list /\ (\A t \in Threads : cur[t] # n) ~>
            (events[n] # {} \/ n \in lost \/ ~Defined)
============================================================================
