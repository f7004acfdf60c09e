---------------------------- MODULE MqttReceive ----------------------------
(***************************************************************************)
(* Receiving messages: _handle_publish_packet, _deliver_message and the    *)
(* ring of packet ids that recognises a message sent twice                 *)
(* (mqtt_client_common.c).                                                 *)
(*                                                                         *)
(* All messages are on one topic; an entry of sub_handles has a filter     *)
(* that matches it or one that does not (TopicMatch is about how this is   *)
(* decided).  Entries are written by the yielding thread when a SUBACK     *)
(* comes in and freed by application threads that unsubscribe              *)
(* (MqttSubscribe has the details).                                        *)
(***************************************************************************)
EXTENDS Integers, FiniteSets, Sequences

CONSTANTS
    Ids,                      \* packet ids the server uses
    MQTT_MAX_REPEAT_BUF_LEN,  \* size of the ring
    MAX_MESSAGE_HANDLERS,     \* size of sub_handles
    MaxMessages,              \* bound: messages in a behaviour
    MaxDisconnects            \* bound: connections lost in a behaviour

ASSUME ReceiveAssumption ==
    /\ Ids \subseteq Nat \ {0}
    /\ MQTT_MAX_REPEAT_BUF_LEN \in Nat \ {0}
    /\ MAX_MESSAGE_HANDLERS \in Nat \ {0}
    /\ MaxMessages \in Nat
    /\ MaxDisconnects \in Nat

VARIABLES
    is_connected,           \* the client's connection flag
    repeat_packet_id_buf,   \* the ring of packet ids
    current_packet_id_cnt,  \* where it is written next
    topic_filter,           \* per entry of sub_handles: none, match or other
    message_handler,        \* per entry: it has a message handler
    ypc,                    \* where the yielding thread is
    msg,                    \* the message being handled
    entry,                  \* index of _deliver_message's loop
    event_handle,           \* the default handler, NULL unless the user set it
    to_client,              \* messages on the connection
    to_server,              \* packet ids of PUBACKs on the connection
    qos,                    \* per message: its QoS
    id,                     \* per message: its packet id
    messages,               \* messages sent so far
    inflight,               \* QoS 1 messages the server has no PUBACK for
    disconnects,            \* connections lost so far
    installed,              \* history, per entry: last filter put there
    delivered,              \* history, per message: times it was delivered
    acked,                  \* history: messages the server has a PUBACK for
    window,                 \* history: the ids remembered last, oldest first
    forgotten,              \* history: messages whose id left the window
    confused,               \* history: messages with the id of another one
    dropped,                \* history: messages that nobody was called for
    unsent                  \* history: messages whose PUBACK failed

tableVars   == <<topic_filter, message_handler, installed>>
dropVars    == <<event_handle, dropped>>
ringVars    == <<repeat_packet_id_buf, current_packet_id_cnt, window,
                 forgotten>>
serverVars  == <<qos, id, messages, inflight, acked>>
vars == <<is_connected, repeat_packet_id_buf, current_packet_id_cnt,
          topic_filter, message_handler, ypc, msg, entry, to_client,
          to_server, qos, id, messages, inflight, disconnects, installed,
          delivered, acked, window, forgotten, confused, unsent, event_handle,
          dropped>>

Messages == 1..MaxMessages
Entries  == 0..(MAX_MESSAGE_HANDLERS - 1)
Ring     == 0..(MQTT_MAX_REPEAT_BUF_LEN - 1)
NoMessage == 0

Init ==
    /\ is_connected = TRUE
    /\ repeat_packet_id_buf = [i \in Ring |-> 0]
    /\ current_packet_id_cnt = 0
    /\ topic_filter = [i \in Entries |-> "none"]
    /\ message_handler = [i \in Entries |-> FALSE]
    /\ ypc = "read"
    /\ msg = NoMessage
    /\ entry = 0
    /\ to_client = <<>>
    /\ to_server = <<>>
    /\ qos = [m \in Messages |-> 0]
    /\ id = [m \in Messages |-> 0]
    /\ messages = 0
    /\ inflight = {}
    /\ disconnects = 0
    /\ installed = [i \in Entries |-> "none"]
    /\ delivered = [m \in Messages |-> 0]
    /\ acked = {}
    /\ window = <<>>
    /\ forgotten = {}
    /\ confused = {}
    /\ unsent = {}
    /\ event_handle \in {"NULL", "set"}
    /\ dropped = {}

----------------------------------------------------------------------------
(* The ring.                                                               *)

_get_packet_id_in_repeat_buf(packet_id) ==
    \E i \in Ring : repeat_packet_id_buf[i] = packet_id

\* Mutant: the last place of the ring is not used.
NextPlace_Short(cnt) ==
    IF cnt + 1 >= MQTT_MAX_REPEAT_BUF_LEN - 1 THEN 0 ELSE cnt + 1

\* The index after cnt.
NextPlace(cnt) == (cnt + 1) % MQTT_MAX_REPEAT_BUF_LEN

\* The messages delivered so far with the id.
Bearers(packet_id) == {m \in Messages : id[m] = packet_id /\ delivered[m] > 0}

_add_packet_id_to_repeat_buf(packet_id) ==
    IF _get_packet_id_in_repeat_buf(packet_id)
      THEN UNCHANGED ringVars
      ELSE /\ repeat_packet_id_buf' = [repeat_packet_id_buf EXCEPT
                                         ![current_packet_id_cnt] = packet_id]
           /\ current_packet_id_cnt' = NextPlace(current_packet_id_cnt)
           /\ window' = Append(IF Len(window) < MQTT_MAX_REPEAT_BUF_LEN
                                 THEN window ELSE Tail(window), packet_id)
           /\ forgotten' =
                IF Len(window) < MQTT_MAX_REPEAT_BUF_LEN THEN forgotten
                ELSE forgotten \cup Bearers(Head(window))

----------------------------------------------------------------------------
(* _handle_publish_packet                                                  *)

\* Mutant: a duplicate is not acknowledged.
ReadPublish_Silent ==
    /\ ypc = "read"
    /\ is_connected
    /\ to_client # <<>>
    /\ LET m == Head(to_client) IN
       /\ msg' = m
       /\ ypc' = IF qos[m] = 0 \/ ~_get_packet_id_in_repeat_buf(id[m])
                   THEN "match" ELSE "read"
    /\ to_client' = Tail(to_client)
    /\ entry' = 0
    /\ UNCHANGED <<is_connected, ringVars, tableVars, to_server, serverVars,
                   disconnects, delivered, confused, unsent, dropVars>>

\* A message is read.  QoS 1 with a known id: not delivered again (adding
\* the id to the ring once more does nothing).
ReadPublish ==
    /\ ypc = "read"
    /\ is_connected
    /\ to_client # <<>>
    /\ LET m == Head(to_client) IN
       /\ msg' = m
       /\ \/ /\ qos[m] = 0 \/ ~_get_packet_id_in_repeat_buf(id[m])
             /\ ypc' = "match"
             /\ UNCHANGED confused
          \/ /\ qos[m] = 1 /\ _get_packet_id_in_repeat_buf(id[m])
             /\ ypc' = "ack"
             /\ confused' = IF delivered[m] = 0 /\ m \notin dropped
                                 /\ \E k \in DOMAIN window : window[k] = id[m]
                              THEN confused \cup {m} ELSE confused
    /\ to_client' = Tail(to_client)
    /\ entry' = 0
    /\ UNCHANGED <<is_connected, ringVars, tableVars, to_server, serverVars,
                   disconnects, delivered, unsent, dropVars>>

\* The entries from the loop index on whose filter matches.
Candidates == {i \in Entries : i >= entry /\ topic_filter[i] = "match"}

\* _deliver_message looks for an entry under lock_generic and unlocks ...
Match ==
    /\ ypc = "match"
    /\ IF Candidates = {}
         THEN ypc' = "default" /\ UNCHANGED entry
         ELSE /\ ypc' = "found"
              /\ entry' = CHOOSE i \in Candidates : \A j \in Candidates : i <= j
    /\ UNCHANGED <<is_connected, ringVars, tableVars, msg, to_client,
                   to_server, serverVars, disconnects, delivered, confused,
                   unsent, dropVars>>

\* QoS 0 is done; for QoS 1 the id is remembered and acknowledged.
Handled == ypc' = IF qos[msg] = 0 THEN "read" ELSE "remember"

\* The message is handed over.
Deliver == delivered' = [delivered EXCEPT ![msg] = @ + 1] /\ Handled

\* Mutant: the search ends at an entry without a message handler.
CallHandler_GivesUp ==
    /\ ypc = "found"
    /\ IF message_handler[entry] THEN Deliver ELSE Handled /\ UNCHANGED delivered
    /\ UNCHANGED <<is_connected, ringVars, tableVars, msg, entry, to_client,
                   to_server, serverVars, disconnects, confused, unsent,
                   dropVars>>

\* ... and reads the handler without the lock.  An entry without a message
\* handler is passed over.
CallHandler ==
    /\ ypc = "found"
    /\ IF message_handler[entry]
         THEN Deliver /\ UNCHANGED entry
         ELSE ypc' = "match" /\ entry' = entry + 1 /\ UNCHANGED delivered
    /\ UNCHANGED <<is_connected, ringVars, tableVars, msg, to_client,
                   to_server, serverVars, disconnects, confused, unsent,
                   dropVars>>

\* MQTT_EVENT_PUBLISH_RECVEIVED, when there is a default handler.  Without
\* one the message is dropped, and _handle_publish_packet goes on.
CallDefault ==
    /\ ypc = "default"
    /\ IF event_handle = "set"
         THEN Deliver /\ UNCHANGED dropped
         ELSE Handled /\ dropped' = dropped \cup {msg} /\ UNCHANGED delivered
    /\ UNCHANGED <<is_connected, ringVars, tableVars, msg, entry, to_client,
                   to_server, serverVars, disconnects, confused, unsent,
                   event_handle>>

Remember ==
    /\ ypc = "remember"
    /\ _add_packet_id_to_repeat_buf(id[msg])
    /\ ypc' = "ack"
    /\ UNCHANGED <<is_connected, tableVars, msg, entry, to_client, to_server,
                   serverVars, disconnects, delivered, confused, unsent,
                   dropVars>>

SendPuback ==
    /\ ypc = "ack"
    /\ to_server' = Append(to_server, id[msg])
    /\ ypc' = "read"
    /\ UNCHANGED <<is_connected, ringVars, tableVars, msg, entry, to_client,
                   serverVars, disconnects, delivered, confused, unsent,
                   dropVars>>

\* The PUBACK cannot be written in time: yield returns the error.
SendPubackFails ==
    /\ ypc = "ack"
    /\ unsent' = unsent \cup {msg}
    /\ ypc' = "read"
    /\ UNCHANGED <<is_connected, ringVars, tableVars, msg, entry, to_client,
                   to_server, serverVars, disconnects, delivered, confused,
                   dropVars>>

----------------------------------------------------------------------------
(* sub_handles                                                             *)

\* Mutant: SUBACKs are handled by another thread than messages.
Install_AnyTime(i) ==
    /\ topic_filter[i] = "none"
    /\ \E f \in {"match", "other"}, h \in BOOLEAN :
         /\ topic_filter' = [topic_filter EXCEPT ![i] = f]
         /\ installed' = [installed EXCEPT ![i] = f]
         /\ message_handler' = [message_handler EXCEPT ![i] = h]
    /\ UNCHANGED <<is_connected, ringVars, ypc, msg, entry, to_client,
                   to_server, serverVars, disconnects, delivered, confused,
                   unsent, dropVars>>

\* A SUBACK fills a free entry.
Install(i) ==
    /\ ypc = "read"
    /\ topic_filter[i] = "none"
    /\ \E f \in {"match", "other"}, h \in BOOLEAN :
         /\ topic_filter' = [topic_filter EXCEPT ![i] = f]
         /\ installed' = [installed EXCEPT ![i] = f]
         /\ message_handler' = [message_handler EXCEPT ![i] = h]
    /\ UNCHANGED <<is_connected, ringVars, ypc, msg, entry, to_client,
                   to_server, serverVars, disconnects, delivered, confused,
                   unsent, dropVars>>

\* An application thread unsubscribes, with lock_generic.  The entry keeps
\* its handlers.
Unsubscribe(i) ==
    /\ topic_filter[i] # "none"
    /\ topic_filter' = [topic_filter EXCEPT ![i] = "none"]
    /\ UNCHANGED <<is_connected, ringVars, message_handler, installed, ypc,
                   msg, entry, to_client, to_server, serverVars, disconnects,
                   delivered, confused, unsent, dropVars>>

----------------------------------------------------------------------------
(* The connection and the server.                                          *)

Disconnect ==
    /\ ypc = "read"
    /\ is_connected
    /\ disconnects < MaxDisconnects
    /\ disconnects' = disconnects + 1
    /\ is_connected' = FALSE
    /\ to_client' = <<>>
    /\ to_server' = <<>>
    /\ UNCHANGED <<ringVars, tableVars, ypc, msg, entry, serverVars,
                   delivered, confused, unsent, dropVars>>

\* The messages of M, oldest first: the one such sequence.
InOrder(M) ==
    {s \in [1..Cardinality(M) -> M] :
       \A i, j \in 1..Cardinality(M) : i < j => s[i] < s[j]}

\* The server sends what is not acknowledged again, oldest first, or has
\* forgotten it.  The client keeps its ring of ids.
Reconnect ==
    /\ ypc = "read"
    /\ ~is_connected
    /\ is_connected' = TRUE
    /\ inflight' \in {inflight, {}}
    /\ to_client' \in InOrder(inflight')
    /\ unsent' = {}
    /\ UNCHANGED <<ringVars, tableVars, ypc, msg, entry, to_server, qos, id,
                   messages, acked, disconnects, delivered, confused,
                   dropVars>>

\* A new message, QoS 1 with an id that is not in use.
ServerSends(q, i) ==
    /\ is_connected
    /\ messages < MaxMessages
    /\ messages' = messages + 1
    /\ \/ q = 0 /\ i = 0 /\ UNCHANGED inflight
       \/ /\ q = 1 /\ i # 0
          /\ \A m \in inflight : id[m] # i
          /\ inflight' = inflight \cup {messages + 1}
    /\ qos' = [qos EXCEPT ![messages + 1] = q]
    /\ id' = [id EXCEPT ![messages + 1] = i]
    /\ to_client' = Append(to_client, messages + 1)
    /\ UNCHANGED <<is_connected, ringVars, tableVars, ypc, msg, entry,
                   to_server, acked, disconnects, delivered, confused, unsent,
                   dropVars>>

ServerReceivesPuback ==
    /\ to_server # <<>>
    /\ LET S == {m \in inflight : id[m] = Head(to_server)} IN
       /\ acked' = acked \cup S
       /\ inflight' = inflight \ S
    /\ to_server' = Tail(to_server)
    /\ UNCHANGED <<is_connected, ringVars, tableVars, ypc, msg, entry,
                   to_client, qos, id, messages, disconnects, delivered,
                   confused, unsent, dropVars>>

----------------------------------------------------------------------------
Yield == \/ ReadPublish \/ Match \/ CallHandler \/ CallDefault
         \/ Remember \/ SendPuback \/ SendPubackFails
         \/ Disconnect \/ Reconnect
         \/ \E i \in Entries : Install(i)

Server == \/ \E q \in {0, 1}, i \in Ids \cup {0} : ServerSends(q, i)
          \/ ServerReceivesPuback

Next == Yield \/ Server \/ \E i \in Entries : Unsubscribe(i)

Spec == Init /\ [][Next]_vars

\* The yielding thread keeps reading and reconnects; the server reads.
Fairness ==
    /\ SF_vars(ReadPublish)
    /\ WF_vars(Match \/ CallHandler \/ CallDefault \/ Remember
                  \/ SendPuback \/ SendPubackFails)
    /\ WF_vars(Reconnect)
    /\ WF_vars(ServerReceivesPuback)

FairSpec == Spec /\ Fairness

----------------------------------------------------------------------------
(* Properties.                                                             *)

\* The values of the ring, the table and the loop index; in particular the
\* write index stays inside the ring.
TypeOK ==
    /\ is_connected \in BOOLEAN
    /\ repeat_packet_id_buf \in [Ring -> Ids \cup {0}]
    /\ current_packet_id_cnt \in Ring
    /\ topic_filter \in [Entries -> {"none", "match", "other"}]
    /\ message_handler \in [Entries -> BOOLEAN]
    /\ ypc \in {"read", "match", "found", "default", "remember", "ack"}
    /\ msg \in Messages \cup {NoMessage}
    /\ entry \in 0..MAX_MESSAGE_HANDLERS
    /\ to_client \in Seq(Messages)
    /\ to_server \in Seq(Ids)
    /\ qos \in [Messages -> {0, 1}]
    /\ id \in [Messages -> Ids \cup {0}]
    /\ messages \in 0..MaxMessages
    /\ inflight \subseteq 1..messages
    /\ disconnects \in 0..MaxDisconnects
    /\ installed \in [Entries -> {"none", "match", "other"}]
    /\ delivered \in [Messages -> Nat]
    /\ acked \subseteq 1..messages
    /\ window \in Seq(Ids)
    /\ forgotten \subseteq 1..messages
    /\ confused \subseteq 1..messages
    /\ unsent \subseteq 1..messages
    /\ event_handle \in {"NULL", "set"}
    /\ dropped \subseteq 1..messages

\* The ring holds the last MQTT_MAX_REPEAT_BUF_LEN ids that were added, each
\* once, the newest just before the place written next.
RingIsWindow ==
    /\ \A k \in DOMAIN window :
         repeat_packet_id_buf[(current_packet_id_cnt + k - 1 - Len(window))
                                % MQTT_MAX_REPEAT_BUF_LEN] = window[k]
    /\ \A k, l \in DOMAIN window : k # l => window[k] # window[l]

\* A QoS 1 message sent again after a reconnection is not delivered again,
\* unless a full ring of other ids came in between.
DeliveredOnce ==
    \A m \in Messages : delivered[m] > 1 => m \in forgotten

\* A QoS 1 message the server need not send again has been delivered, with
\* two exceptions.  It came with an id that was among the last
\* MQTT_MAX_REPEAT_BUF_LEN: the ring outlives the connection, and a server
\* that starts its ids afresh has its messages acknowledged and dropped.  Or
\* it was dropped for want of a handler, which happens only to a client with
\* no default handler: none is set by DEFAULT_MQTTINIT_PARAMS, and an entry
\* with an event handler alone counts for nothing.
AckedWereDelivered ==
    /\ \A m \in acked : delivered[m] > 0 \/ m \in confused \cup dropped
    /\ dropped # {} => event_handle = "NULL"

\* The handler that gets the message is one that was subscribed to its topic,
\* although the entry may be freed between the match and the call.
HandlerOfMatch ==
    [][ypc = "found" /\ delivered' # delivered =>
         installed[entry] = "match"]_vars

\* Every QoS 1 message is acknowledged in the end, also when it is received
\* for the second time, unless its PUBACK cannot be sent.
EventuallyAcked ==
    \A m \in Messages : m \in inflight ~> (m \notin inflight \/ m \in unsent)
============================================================================
