---------------------------- MODULE MqttPublish ----------------------------
(***************************************************************************)
(* The QoS 0/1 publish path of the MQTT client and its tracking of PUBACKs *)
(* (mqtt_client_publish.c, _handle_puback_packet, pub_info_proc).          *)
(*                                                                         *)
(* Application threads run qcloud_iot_mqtt_publish: take lock_write_buf,   *)
(* draw a packet id, serialize into the shared write_buf, push a node on   *)
(* list_pub_wait_ack, send.  One yielding thread reads PUBACKs, sweeps the *)
(* list for acknowledged and timed-out nodes, and writes its own packets   *)
(* through the same write_buf.                                             *)
(*                                                                         *)
(* A list node is a number: the count of list_node_new calls when it was   *)
(* allocated.  list_rpush appends under lock_write_buf, so the list order  *)
(* is the numeric order, and the list is the set of its nodes.  0 is NULL. *)
(***************************************************************************)
EXTENDS Integers, FiniteSets

CONSTANTS
    Publishers,          \* application threads that call IOT_MQTT_Publish
    Yielder,             \* the thread inside IOT_MQTT_Yield
    NoThread,            \* the owner of a mutex nobody holds
    MAX_REPUB_NUM,       \* capacity of list_pub_wait_ack
    MAX_PACKET_ID,       \* largest MQTT packet identifier
    QoS,                 \* the QoS levels the application uses
    MaxNodes,            \* bound: nodes allocated in a behaviour
    CallbackRepublishes  \* the event callback may call IOT_MQTT_Publish

ASSUME ThreadsAssumption ==
    /\ Yielder \notin Publishers
    /\ NoThread \notin Publishers \cup {Yielder}
ASSUME BoundsAssumption ==
    /\ MAX_REPUB_NUM \in Nat \ {0}
    /\ MAX_PACKET_ID \in Nat \ {0}
    /\ MaxNodes \in Nat
    /\ QoS \subseteq {"QOS0", "QOS1"}
ASSUME SwitchesAssumption == CallbackRepublishes \in BOOLEAN

VARIABLES
    is_connected,    \* the client's connection flag
    next_packet_id,  \* last packet id drawn
    lock_write_buf,  \* owner of the mutex around write_buf and its send
    lock_list_pub,   \* owner of the mutex around list_pub_wait_ack
    write_buf,       \* the packet last serialized into the shared buffer
    pc,              \* where each thread is inside qcloud_iot_mqtt_publish
    call,            \* locals of that call: qos, packet id, list node
    nodes,           \* nodes allocated so far
    list,            \* list_pub_wait_ack
    msg_id,          \* per node: its packet id
    node_state,      \* per node: MQTT_NODE_STATE_NORMANL or _INVALID
    expired,         \* per node: pub_start_time has run out
    ypc,             \* where the yielding thread is
    iter,            \* ListIterator.next of the running sweep
    temp_node,       \* node the sweep removes at its next turn
    sent,            \* PUBLISH packets on their way to the server
    acks,            \* PUBACK packets on their way to the client
    result,          \* history, per node: outcome of the publish call
    events,          \* history, per node: events raised for the publish
    age,             \* history, per listed node: ids drawn since its own
    recycled,        \* history: an id was drawn again while still in use
    late,            \* history: nodes that expired before their call returned
    used_freed       \* history: nodes the code used after freeing them

connVars  == <<is_connected, sent, acks>>
nodeVars  == <<nodes, list, msg_id, node_state, expired>>
sweepVars == <<ypc, iter, temp_node>>
history   == <<result, events, age, recycled, late, used_freed>>
vars == <<is_connected, next_packet_id, lock_write_buf, lock_list_pub,
          write_buf, pc, call, nodes, list, msg_id, node_state, expired, ypc,
          iter, temp_node, sent, acks, result, events, age, recycled, late,
          used_freed>>

Threads == Publishers \cup {Yielder}
Nodes   == 1..MaxNodes
NULL    == 0
PacketIds == 0..MAX_PACKET_ID

PublishSteps == {"idle", "lock", "id", "serialize", "push", "send", "sent",
                 "undo", "unlock"}
HoldsWriteBuf == {"id", "serialize", "push", "send", "sent", "undo", "unlock"}
YieldSteps == {"read", "sweep", "next", "relock", "callback", "keepalive",
               "write"}
HoldsListPub == {"next", "callback"}

YielderPackets == {"CONNECT", "DISCONNECT", "PINGREQ", "PUBACK"}
Packets == [type : {"NONE", "PUBLISH"} \cup YielderPackets,
            by : Threads \cup {NoThread}, id : PacketIds]
Packet(type, t, id) == [type |-> type, by |-> t, id |-> id]
Wire == [id : PacketIds, node : Nodes]
Calls == [qos : {"QOS0", "QOS1"}, id : PacketIds, node : 0..MaxNodes]
Call(qos, id, node) == [qos |-> qos, id |-> id, node |-> node]
NoCall == Call("QOS0", 0, NULL)

\* The largest element of a set of nodes, NULL when it is empty: the tail.
Last(S)  == IF S = {} THEN NULL ELSE CHOOSE n \in S : \A m \in S : m <= n
First(S) == IF S = {} THEN NULL ELSE CHOOSE n \in S : \A m \in S : n <= m

\* Mutant: the sweep runs from the head of the list.
Direction_Head == "LIST_HEAD"

\* The direction given to list_iterator_new by the sweep.
Direction == "LIST_TAIL"

list_iterator_new(S) == IF Direction = "LIST_TAIL" THEN Last(S) ELSE First(S)

\* What list_iterator_next leaves in self->next after it returned node n.
list_iterator_next(S, n) ==
    IF Direction = "LIST_TAIL" THEN Last({m \in S : m < n})
                               ELSE First({m \in S : m > n})

----------------------------------------------------------------------------
Init ==
    /\ is_connected = TRUE
    /\ next_packet_id \in PacketIds
    /\ lock_write_buf = NoThread
    /\ lock_list_pub = NoThread
    /\ write_buf = Packet("NONE", NoThread, 0)
    /\ pc = [t \in Threads |-> "idle"]
    /\ call = [t \in Threads |-> NoCall]
    /\ nodes = 0
    /\ list = {}
    /\ msg_id = [n \in Nodes |-> 0]
    /\ node_state = [n \in Nodes |-> "NORMAL"]
    /\ expired = [n \in Nodes |-> FALSE]
    /\ ypc = "read"
    /\ iter = NULL
    /\ temp_node = NULL
    /\ sent = {}
    /\ acks = {}
    /\ result = [n \in Nodes |-> "none"]
    /\ events = [n \in Nodes |-> {}]
    /\ age = [n \in Nodes |-> 0]
    /\ recycled = FALSE
    /\ late = {}
    /\ used_freed = {}

Goto(t, step) == pc' = [pc EXCEPT ![t] = step]

\* Where a thread is.  Once freed memory has been used, what the program
\* does is undefined: the model follows it up to there.
At(t, step) == pc[t] = step /\ used_freed = {}
YielderAt(step) == ypc = step /\ used_freed = {}

----------------------------------------------------------------------------
(* qcloud_iot_mqtt_publish, by an application thread or by the yielding    *)
(* thread from inside the event callback.                                  *)

\* Entry checks; a call on a closed connection returns NO_CONN at once.
StartPublish(t, qos) ==
    /\ At(t, "idle")
    /\ t = Yielder => ypc = "callback" /\ CallbackRepublishes
    /\ is_connected
    /\ nodes < MaxNodes
    /\ call' = [call EXCEPT ![t] = Call(qos, 0, NULL)]
    /\ Goto(t, "lock")
    /\ UNCHANGED <<connVars, next_packet_id, lock_write_buf, lock_list_pub,
                   write_buf, nodeVars, sweepVars, history>>

\* Mutant: the mutex is not waited for.
LockWriteBuf_NoWait(t) ==
    /\ At(t, "lock")
    /\ lock_write_buf' = t
    /\ Goto(t, IF call[t].qos = "QOS1" THEN "id" ELSE "serialize")
    /\ UNCHANGED <<connVars, next_packet_id, lock_list_pub, write_buf, call,
                   nodeVars, sweepVars, history>>

LockWriteBuf(t) ==
    /\ At(t, "lock")
    /\ lock_write_buf = NoThread
    /\ lock_write_buf' = t
    /\ Goto(t, IF call[t].qos = "QOS1" THEN "id" ELSE "serialize")
    /\ UNCHANGED <<connVars, next_packet_id, lock_list_pub, write_buf, call,
                   nodeVars, sweepVars, history>>

\* Mutant: the counter does not wrap.
AdvancePacketId_NoWrap(id) == id + 1

\* get_next_packet_id advances the counter under lock_generic ...
AdvancePacketId(id) == IF id = MAX_PACKET_ID THEN 1 ELSE id + 1

get_next_packet_id(t) ==
    /\ At(t, "id")
    /\ next_packet_id' = AdvancePacketId(next_packet_id)
    /\ age' = [n \in Nodes |-> IF n \notin list THEN 0
                               ELSE IF age[n] < MAX_PACKET_ID THEN age[n] + 1
                               ELSE age[n]]
    /\ Goto(t, "serialize")
    /\ UNCHANGED <<connVars, lock_write_buf, lock_list_pub, write_buf, call,
                   nodeVars, sweepVars, result, events, recycled, late,
                   used_freed>>

\* ... and reads it back after the unlock.  The packet then goes into
\* write_buf.
Serialize(t) ==
    /\ At(t, "serialize")
    /\ LET id == IF call[t].qos = "QOS1" THEN next_packet_id ELSE 0 IN
       /\ call' = [call EXCEPT ![t].id = id]
       /\ write_buf' = Packet("PUBLISH", t, id)
    /\ Goto(t, IF call[t].qos = "QOS1" THEN "push" ELSE "send")
    /\ UNCHANGED <<connVars, next_packet_id, lock_write_buf, lock_list_pub,
                   nodeVars, sweepVars, history>>

\* The packet does not fit into write_buf.
SerializeFails(t) ==
    /\ At(t, "serialize")
    /\ Goto(t, "unlock")
    /\ UNCHANGED <<connVars, next_packet_id, lock_write_buf, lock_list_pub,
                   write_buf, call, nodeVars, sweepVars, history>>

\* A listed node or a packet on the connection carries the id.
InUse(id) == \/ \E n \in list : msg_id[n] = id
             \/ \E m \in sent \cup acks : m.id = id

\* _mask_push_pubInfo_to: the node is on the list before the packet is sent.
Push(t) ==
    /\ At(t, "push")
    /\ lock_list_pub = NoThread
    /\ Cardinality(list) < MAX_REPUB_NUM
    /\ nodes < MaxNodes
    /\ LET n == nodes + 1 IN
       /\ nodes' = n
       /\ list' = list \cup {n}
       /\ msg_id' = [msg_id EXCEPT ![n] = call[t].id]
       /\ node_state' = [node_state EXCEPT ![n] = "NORMAL"]
       /\ expired' = [expired EXCEPT ![n] = FALSE]
       /\ call' = [call EXCEPT ![t].node = n]
       /\ result' = [result EXCEPT ![n] = "calling"]
       /\ age' = [age EXCEPT ![n] = 0]
    /\ recycled' = (recycled \/ InUse(call[t].id))
    /\ Goto(t, "send")
    /\ UNCHANGED <<connVars, next_packet_id, lock_write_buf, lock_list_pub,
                   write_buf, sweepVars, events, late, used_freed>>

\* The list is full, or an allocation fails: the packet is not sent.
PushFails(t) ==
    /\ At(t, "push")
    /\ lock_list_pub = NoThread
    /\ Goto(t, "unlock")
    /\ UNCHANGED <<connVars, next_packet_id, lock_write_buf, lock_list_pub,
                   write_buf, call, nodeVars, sweepVars, history>>

\* send_mqtt_packet puts what write_buf holds on the connection; a packet
\* written while the client is not connected is lost.  The call returns
\* later: until then the server may answer and the node's timer run out.
Send(t) ==
    /\ At(t, "send")
    /\ sent' = IF call[t].qos = "QOS1" /\ is_connected
                 THEN sent \cup {[id |-> write_buf.id, node |-> call[t].node]}
                 ELSE sent
    /\ Goto(t, IF call[t].qos = "QOS1" THEN "sent" ELSE "unlock")
    /\ UNCHANGED <<is_connected, acks, next_packet_id, lock_write_buf,
                   lock_list_pub, write_buf, call, nodeVars, sweepVars,
                   history>>

\* The send succeeded: the call will return the packet id.
SendReturns(t) ==
    /\ At(t, "sent")
    /\ result' = [result EXCEPT ![call[t].node] = "ok"]
    /\ Goto(t, "unlock")
    /\ UNCHANGED <<connVars, next_packet_id, lock_write_buf, lock_list_pub,
                   write_buf, call, nodeVars, sweepVars, events, age,
                   recycled, late, used_freed>>

\* A write fails, or the call's timer runs out before all is written.
SendFails(t) ==
    /\ At(t, "send")
    /\ Goto(t, IF call[t].qos = "QOS1" THEN "undo" ELSE "unlock")
    /\ UNCHANGED <<connVars, next_packet_id, lock_write_buf, lock_list_pub,
                   write_buf, call, nodeVars, sweepVars, history>>

\* The node of a packet that could not be sent is taken off the list again.
\* The sweep may have freed it meanwhile: list_remove then works on freed
\* memory.
RemoveUnsent(t) ==
    /\ At(t, "undo")
    /\ lock_list_pub = NoThread
    /\ list' = list \ {call[t].node}
    /\ used_freed' = {call[t].node} \ list
    /\ result' = [result EXCEPT ![call[t].node] = "error"]
    /\ Goto(t, "unlock")
    /\ UNCHANGED <<connVars, next_packet_id, lock_write_buf, lock_list_pub,
                   write_buf, call, nodes, msg_id, node_state, expired,
                   sweepVars, events, age, recycled, late>>

UnlockWriteBuf(t) ==
    /\ At(t, "unlock")
    /\ lock_write_buf' = NoThread
    /\ Goto(t, "idle")
    /\ call' = [call EXCEPT ![t] = NoCall]
    /\ UNCHANGED <<connVars, next_packet_id, lock_list_pub, write_buf,
                   nodeVars, sweepVars, history>>

Publish(t) ==
    \/ \E qos \in QoS : StartPublish(t, qos)
    \/ LockWriteBuf(t)
    \/ get_next_packet_id(t)
    \/ Serialize(t) \/ SerializeFails(t)
    \/ Push(t) \/ PushFails(t)
    \/ Send(t) \/ SendReturns(t) \/ SendFails(t)
    \/ RemoveUnsent(t)
    \/ UnlockWriteBuf(t)

----------------------------------------------------------------------------
(* The yielding thread: one read cycle, then the sweep, then keep-alive.   *)

publishVars == <<next_packet_id, lock_write_buf, write_buf, pc, call>>

\* Mutant: acknowledged nodes stay as they are.
_mask_pubInfo_from_Skipped(id) == UNCHANGED node_state

\* Mutant: the id is not compared.
_mask_pubInfo_from_All(id) ==
    node_state' = [n \in Nodes |->
                     IF n \in list THEN "INVALID" ELSE node_state[n]]

\* _mask_pubInfo_from: every node carrying the id becomes invalid.
_mask_pubInfo_from(id) ==
    node_state' = [n \in Nodes |->
                     IF n \in list /\ msg_id[n] = id THEN "INVALID"
                                                     ELSE node_state[n]]

\* cycle_for_read finds a PUBACK: the event is raised whether or not a node
\* carries its id.
_handle_puback_packet(m) ==
    /\ YielderAt("read")
    /\ is_connected
    /\ m \in acks
    /\ lock_list_pub = NoThread
    /\ acks' = acks \ {m}
    /\ _mask_pubInfo_from(m.id)
    /\ events' = [events EXCEPT ![m.node] = @ \cup {"PUBLISH_SUCCESS"}]
    /\ ypc' = "sweep"
    /\ UNCHANGED <<is_connected, sent, publishVars, lock_list_pub, nodes,
                   list, msg_id, expired, iter, temp_node, result, age,
                   recycled, late, used_freed>>

ReadNothing ==
    /\ YielderAt("read")
    /\ is_connected
    /\ ypc' = "sweep"
    /\ UNCHANGED <<connVars, publishVars, lock_list_pub, nodeVars, iter,
                   temp_node, history>>

\* qcloud_iot_mqtt_pub_info_proc begins.
SweepBegin ==
    /\ YielderAt("sweep")
    /\ lock_list_pub = NoThread
    /\ IF list = {}
         THEN /\ ypc' = "keepalive"
              /\ UNCHANGED <<lock_list_pub, iter>>
         ELSE /\ ypc' = "next"
              /\ lock_list_pub' = Yielder
              /\ iter' = list_iterator_new(list)
    /\ temp_node' = NULL
    /\ UNCHANGED <<connVars, publishVars, nodeVars, history>>

MustTimeOut(n) == node_state[n] # "INVALID" /\ is_connected /\ expired[n]

\* One turn of the sweep's loop: advance the iterator, remove the node the
\* last turn marked, look at this one.  A timed-out node makes the sweep
\* drop and retake lock_list_pub.
SweepNext ==
    /\ YielderAt("next")
    /\ list' = list \ {temp_node}
    /\ \/ /\ iter = NULL
          /\ ypc' = "keepalive"
          /\ lock_list_pub' = NoThread
          /\ temp_node' = NULL
          /\ UNCHANGED iter
       \/ /\ iter # NULL
          /\ iter' = list_iterator_next(list, iter)
          /\ \/ /\ node_state[iter] = "INVALID"
                /\ temp_node' = iter
                /\ UNCHANGED <<ypc, lock_list_pub>>
             \/ /\ MustTimeOut(iter)
                /\ temp_node' = iter
                /\ ypc' = "relock"
                /\ lock_list_pub' = NoThread
             \/ /\ node_state[iter] # "INVALID"
                /\ ~MustTimeOut(iter)
                /\ temp_node' = NULL
                /\ UNCHANGED <<ypc, lock_list_pub>>
    /\ UNCHANGED <<connVars, publishVars, nodes, msg_id, node_state, expired,
                   history>>

\* The lock is taken again, the node's timer restarted and the timeout
\* event raised with lock_list_pub held.  A call whose send failed may have
\* freed the node while the lock was free.
SweepRelock ==
    /\ YielderAt("relock")
    /\ lock_list_pub = NoThread
    /\ lock_list_pub' = Yielder
    /\ expired' = [expired EXCEPT ![temp_node] = FALSE]
    /\ events' = [events EXCEPT ![temp_node] = @ \cup {"PUBLISH_TIMEOUT"}]
    /\ used_freed' = {temp_node} \ list
    /\ ypc' = "callback"
    /\ UNCHANGED <<connVars, publishVars, nodes, list, msg_id, node_state,
                   iter, temp_node, result, age, recycled, late>>

\* The callback returns to the sweep.
CallbackReturns ==
    /\ YielderAt("callback")
    /\ pc[Yielder] = "idle"
    /\ ypc' = "next"
    /\ UNCHANGED <<connVars, publishVars, lock_list_pub, nodeVars, iter,
                   temp_node, history>>

NothingToSend ==
    /\ YielderAt("keepalive")
    /\ ypc' = "read"
    /\ UNCHANGED <<connVars, publishVars, lock_list_pub, nodeVars, iter,
                   temp_node, history>>

\* Mutant: the yielding thread writes its packet without the mutex.
YielderSerializes_NoLock(type) ==
    /\ \/ type = "PUBACK"     /\ ypc = "read" /\ is_connected
       \/ type = "PINGREQ"    /\ YielderAt("keepalive")
       \/ type = "DISCONNECT" /\ ypc \in {"read", "keepalive"} /\ is_connected
       \/ type = "CONNECT"    /\ ypc = "read" /\ ~is_connected
    /\ used_freed = {}
    /\ write_buf' = Packet(type, Yielder, 0)
    /\ ypc' = "write"
    /\ UNCHANGED <<connVars, next_packet_id, lock_write_buf, pc, call,
                   lock_list_pub, nodeVars, iter, temp_node, history>>

\* The packets the yielding thread writes itself: PUBACK for a message it
\* read, PINGREQ of keep-alive, DISCONNECT after a read error or a dead peer,
\* CONNECT while disconnected.
YielderSerializes(type) ==
    /\ \/ type = "PUBACK"     /\ ypc = "read" /\ is_connected
       \/ type = "PINGREQ"    /\ YielderAt("keepalive")
       \/ type = "DISCONNECT" /\ ypc \in {"read", "keepalive"} /\ is_connected
       \/ type = "CONNECT"    /\ ypc = "read" /\ ~is_connected
    /\ used_freed = {}
    /\ lock_write_buf = NoThread
    /\ lock_write_buf' = Yielder
    /\ write_buf' = Packet(type, Yielder, 0)
    /\ ypc' = "write"
    /\ UNCHANGED <<connVars, next_packet_id, pc, call, lock_list_pub,
                   nodeVars, iter, temp_node, history>>

\* After the send the lock is released.  The sweep follows a PUBACK that was
\* sent, not one that could not be.  DISCONNECT closes the connection
\* and loses what is on it; CONNECT may or may not open a new one.
YielderSends ==
    /\ YielderAt("write")
    /\ lock_write_buf' = NoThread
    /\ ypc' \in IF write_buf.type = "PUBACK" THEN {"read", "sweep"}
                                             ELSE {"read"}
    /\ \/ /\ write_buf.type \in {"PINGREQ", "PUBACK"}
          /\ UNCHANGED connVars
       \/ /\ write_buf.type = "DISCONNECT"
          /\ is_connected' = FALSE
          /\ sent' = {}
          /\ acks' = {}
       \/ /\ write_buf.type = "CONNECT"
          /\ is_connected' \in BOOLEAN
          /\ UNCHANGED <<sent, acks>>
    /\ UNCHANGED <<next_packet_id, write_buf, pc, call, lock_list_pub,
                   nodeVars, iter, temp_node, history>>

Yield ==
    \/ \E m \in acks : _handle_puback_packet(m)
    \/ ReadNothing
    \/ SweepBegin \/ SweepNext \/ SweepRelock \/ CallbackReturns
    \/ NothingToSend
    \/ \E type \in YielderPackets : YielderSerializes(type)
    \/ YielderSends

----------------------------------------------------------------------------
(* Environment: the server and the clock.                                  *)

\* The server receives a PUBLISH and answers it.
ServerAcks(m) ==
    /\ m \in sent
    /\ sent' = sent \ {m}
    /\ acks' = acks \cup {m}
    /\ UNCHANGED <<is_connected, publishVars, lock_list_pub, nodeVars,
                   sweepVars, history>>

\* command_timeout_ms has passed since the node was pushed, whatever the
\* call that pushed it is doing: a write of the packet may block.
TimerExpires(n) ==
    /\ n \in list
    /\ ~expired[n]
    /\ expired' = [expired EXCEPT ![n] = TRUE]
    /\ late' = IF result[n] = "calling" THEN late \cup {n} ELSE late
    /\ UNCHANGED <<connVars, publishVars, lock_list_pub, nodes, list, msg_id,
                   node_state, sweepVars, result, events, age, recycled,
                   used_freed>>

Environment ==
    \/ \E m \in sent : ServerAcks(m)
    \/ \E n \in Nodes : TimerExpires(n)

----------------------------------------------------------------------------
Undefined == used_freed # {} /\ UNCHANGED vars

Next == (\E t \in Threads : Publish(t)) \/ Yield \/ Environment \/ Undefined

Spec == Init /\ [][Next]_vars

\* Threads keep running and timers run out.  A mutex is taken by a thread
\* that keeps asking for it; a connection is not lost before every single
\* read cycle; CONNECT eventually succeeds.
Fairness ==
    /\ \A t \in Publishers :
         /\ SF_vars(LockWriteBuf(t) \/ Push(t) \/ PushFails(t)
                      \/ RemoveUnsent(t))
         /\ WF_vars(get_next_packet_id(t) \/ Serialize(t) \/ Send(t)
                      \/ SendReturns(t) \/ SendFails(t) \/ UnlockWriteBuf(t))
    /\ SF_vars(ReadNothing \/ \E m \in acks : _handle_puback_packet(m))
    /\ WF_vars(SweepBegin \/ SweepNext \/ SweepRelock \/ CallbackReturns
                  \/ NothingToSend)
    /\ SF_vars(YielderSerializes("CONNECT"))
    /\ SF_vars(YielderSends /\ (write_buf.type = "CONNECT" => is_connected'))
    /\ \A n \in Nodes : WF_vars(TimerExpires(n))

FairSpec == Spec /\ Fairness

----------------------------------------------------------------------------
(* Properties.                                                             *)

\* The values the client's fields, the threads' locals and the histories take;
\* in particular the packet id stays in 0..MAX_PACKET_ID across its wrap.
TypeOK ==
    /\ is_connected \in BOOLEAN
    /\ next_packet_id \in PacketIds
    /\ lock_write_buf \in Threads \cup {NoThread}
    /\ lock_list_pub \in {Yielder, NoThread}
    /\ write_buf \in Packets
    /\ pc \in [Threads -> PublishSteps]
    /\ call \in [Threads -> Calls]
    /\ nodes \in 0..MaxNodes
    /\ list \subseteq 1..nodes
    /\ msg_id \in [Nodes -> PacketIds]
    /\ node_state \in [Nodes -> {"NORMAL", "INVALID"}]
    /\ expired \in [Nodes -> BOOLEAN]
    /\ ypc \in YieldSteps
    /\ iter \in 0..MaxNodes
    /\ temp_node \in 0..MaxNodes
    /\ sent \subseteq Wire
    /\ acks \subseteq Wire
    /\ result \in [Nodes -> {"none", "calling", "ok", "error"}]
    /\ events \in [Nodes -> SUBSET {"PUBLISH_SUCCESS", "PUBLISH_TIMEOUT"}]
    /\ age \in [Nodes -> PacketIds]
    /\ recycled \in BOOLEAN
    /\ late \subseteq Nodes
    /\ used_freed \subseteq Nodes

\* Two publishes awaiting their PUBACK carry different packet ids, unless
\* the older one has been waiting while all MAX_PACKET_ID ids were drawn.
\* get_next_packet_id reads the counter after it released lock_generic: this
\* is what lock_write_buf around the whole call protects.
IdsDistinct ==
    \A m, n \in list :
        m < n /\ msg_id[m] = msg_id[n] => age[m] = MAX_PACKET_ID

\* The packet a thread is about to send is the one it serialized, although
\* every thread serializes into the same write_buf.
PacketIntact ==
    /\ \A t \in Threads : pc[t] \in {"push", "send"} =>
         write_buf = Packet("PUBLISH", t, call[t].id)
    /\ ypc = "write" => write_buf.type \in YielderPackets

\* The only nodes used after they were freed are those whose timer ran out
\* before their publish call returned: the sweep and the call then each
\* remove the node.  In every other case neither the sweep, which lets go of
\* lock_list_pub in the middle of its iteration, nor a call that will remove
\* its own node when the send fails, holds a pointer to a freed one (the
\* call unless an id came round while in use: then the PUBACK of the older
\* publish frees the node of the newer one).
PointersLive ==
    /\ ypc \in {"next", "relock", "callback"} =>
         /\ iter \in list \cup {NULL}
         /\ temp_node \in list \cup {NULL} \cup late
    /\ \A t \in Threads :
         pc[t] \in {"send", "undo"} /\ call[t].qos = "QOS1" =>
             call[t].node \in list \cup late \/ recycled
    /\ used_freed \subseteq late \/ recycled

\* A QoS 1 publish keeps the promise stated by PublishPromise.
Promise == INSTANCE PublishPromise WITH Publishes <- Nodes
KeepsPromise == Promise!PSpec

\* Every publish that IOT_MQTT_Publish accepted is reported, as acknowledged
\* or as timed out, across disconnections, unless a packet id was recycled
\* or freed memory used.
EventuallyReported ==
    \A n \in Nodes : result[n] = "ok" ~>
        (events[n] # {} \/ recycled \/ used_freed # {})

\* No thread waits for a mutex it already holds: the user's callback runs
\* inside the sweep, with lock_list_pub held.
NoSelfDeadlock ==
    ~(pc[Yielder] \in {"push", "undo"} /\ lock_list_pub = Yielder)
============================================================================
