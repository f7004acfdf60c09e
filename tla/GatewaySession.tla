--------------------------- MODULE GatewaySession ---------------------------
(***************************************************************************)
(* The gateway service (gateway_api.c, gateway_common.c): a gateway brings *)
(* subdevices online and offline, binds and unbinds them and lists them,   *)
(* each by a request that is published at QoS 0 and a wait for the result, *)
(* during which the calling thread yields and so handles whatever comes    *)
(* in: the result, late results of earlier requests, and requests of the   *)
(* server (unbind_all, change, search_devices).                            *)
(*                                                                         *)
(* A subdevice is a number.  The name of d is a prefix of the name of e    *)
(* when d <= e, because results are matched by a comparison that stops at  *)
(* the end of the shorter name.  One thread uses the gateway, as in        *)
(* gateway_sample.c.                                                       *)
(***************************************************************************)
EXTENDS Integers, FiniteSets, SequencesExt

CONSTANTS
    Devices,                 \* subdevices
    InitiallyBound,          \* those bound to the gateway when it starts
    GATEWAY_LOOP_MAX_COUNT,  \* turns of the wait before it is given up
    MaxCalls,                \* bound: requests in a behaviour
    MaxPushes,               \* bound: requests of the server
    MaxUnprepared            \* bound: sessions left by an Online not sent

ASSUME GatewayAssumption ==
    /\ Devices \subseteq Nat \ {0} /\ IsFiniteSet(Devices)
    /\ InitiallyBound \subseteq Devices
    /\ GATEWAY_LOOP_MAX_COUNT \in Nat
    /\ MaxCalls \in Nat
    /\ MaxPushes \in Nat
    /\ MaxUnprepared \in Nat

VARIABLES
    pc,           \* where the thread is
    sync_status,  \* gateway_data.sync_status: of the subscription
    loop_count,   \* turns of the wait so far (local, 0 outside a wait)
    res,          \* the result when the wait began
    calls,        \* requests made so far
    req,          \* per request: operation and subdevice
    session,      \* per subdevice: session_list
    reply,        \* per operation: gateway_data.<op>
    bind_list,    \* gateway->bind_list, first element first
    subdev_bindlist, \* the list last handed to the application
    to_server,    \* requests on the connection
    to_client,    \* messages on the connection
    online,       \* subdevices that are online for the server
    bound,        \* subdevices bound to the gateway for the server
    pushes,       \* requests the server made so far
    rc,           \* history: what the last request's call returned
    answered,     \* history, per operation: request of the last result
    given_up,     \* history: requests whose own result was not waited for
    apart,        \* history: subdevices the two sides may disagree about
    listed,       \* history: what the last describe_sub_devices listed
    touched,      \* history: messages that changed bind_list in this call
    unprepared,   \* history: sessions of an Online that could not be sent
    freed         \* history: sessions unbind_all freed during this call

callVars   == <<res, calls, req>>
connVars   == <<to_server, to_client>>
serverVars == <<online, bound, pushes>>
listVars   == <<bind_list, subdev_bindlist, listed, touched>>
openVars   == <<unprepared, freed>>
vars == <<pc, sync_status, loop_count, res, calls, req, session, reply,
          bind_list, subdev_bindlist, to_server, to_client, online, bound,
          pushes, rc, answered, given_up, apart, listed, touched, unprepared,
          freed>>

Ops == {"online", "offline", "bind", "unbind", "describe_sub_devices"}
Calls == 1..MaxCalls
PENDING == -1001
SUCCESS == 0
ERROR == 1
NoCall == 0
NoDevice == 0
NoRequest == [op |-> "online", dev |-> NoDevice]

op == req[calls].op
dev == req[calls].dev

Message(type, devs, result, n) ==
    [type |-> type, devs |-> devs, result |-> result, n |-> n]

\* IOT_Gateway_Construct: connected, the SUBSCRIBE for the results is sent.
\* When that fails there is no gateway.
Init ==
    /\ pc = "subscribe"
    /\ sync_status = PENDING
    /\ loop_count = 0
    /\ res = PENDING
    /\ calls = 0
    /\ req = [n \in Calls |-> NoRequest]
    /\ session = [d \in Devices |-> "none"]
    /\ reply = [o \in Ops |-> [client_id |-> NoDevice, result |-> SUCCESS]]
    /\ bind_list = <<>>
    /\ subdev_bindlist = <<>>
    /\ to_server = <<>>
    /\ to_client = <<>>
    /\ online = {}
    /\ bound = InitiallyBound
    /\ pushes = 0
    /\ rc = SUCCESS
    /\ answered = [o \in Ops |-> NoCall]
    /\ given_up = {}
    /\ apart = {}
    /\ listed = <<>>
    /\ touched = 0
    /\ unprepared = {}
    /\ freed = {}

----------------------------------------------------------------------------
(* gateway_subscribe_unsubscribe_topic, called by IOT_Gateway_Construct    *)

\* The loop that waits for the SUBACK.  A failure destroys the gateway.
SubscribeWait ==
    /\ pc = "subscribe"
    /\ pc' = IF sync_status = SUCCESS THEN "idle"
             ELSE IF sync_status = ERROR THEN "gone"
             ELSE IF loop_count > GATEWAY_LOOP_MAX_COUNT THEN "gone"
             ELSE "subscribe_yield"
    /\ loop_count' = IF pc' = "subscribe_yield" THEN loop_count ELSE 0
    /\ UNCHANGED <<sync_status, callVars, session, reply, listVars, connVars,
                   serverVars, rc, answered, given_up, apart, openVars>>

\* _gateway_event_handler may see the SUBACK, a refusal or a time-out.
SubscribeYield ==
    /\ pc = "subscribe_yield"
    /\ pc' = "subscribe"
    /\ sync_status' \in {PENDING, SUCCESS, ERROR}
    /\ loop_count' = loop_count + 1
    /\ UNCHANGED <<callVars, session, reply, listVars, connVars, serverVars,
                   rc, answered, given_up, apart, openVars>>

----------------------------------------------------------------------------
(* The calls.                                                              *)

\* Mutant: the result of the last call is left in place.
Request_NoReset(o, d) ==
    /\ calls' = calls + 1
    /\ req' = [req EXCEPT ![calls + 1] = [op |-> o, dev |-> d]]
    /\ reply' = [reply EXCEPT ![o].client_id = d]
    /\ res' = reply[o].result
    /\ pc' = "publish"

\* The result is reset and gateway_publish_sync remembers it.
Request(o, d) ==
    /\ calls' = calls + 1
    /\ req' = [req EXCEPT ![calls + 1] = [op |-> o, dev |-> d]]
    /\ reply' = [reply EXCEPT ![o] = [client_id |-> d, result |-> PENDING]]
    /\ res' = PENDING
    /\ pc' = "publish"

\* IOT_Gateway_Subdev_Online.  A session that is online ends it at once.
Online(d) ==
    /\ pc = "idle"
    /\ calls < MaxCalls
    /\ session[d] # "ONLINE"
    /\ session' = IF session[d] = "none" THEN [session EXCEPT ![d] = "INIT"]
                                         ELSE session
    /\ unprepared' = unprepared \ {d}
    /\ Request("online", d)
    /\ UNCHANGED <<sync_status, loop_count, listVars, connVars, serverVars,
                   rc, answered, given_up, apart, freed>>

\* Its topic, payload or name does not fit the buffer: it returns, and a new
\* session stays.  What it may have put into client_id the next call writes
\* over before it waits.
OnlineUnprepared(d) ==
    /\ pc = "idle"
    /\ calls < MaxCalls
    /\ session[d] # "ONLINE"
    /\ Cardinality(unprepared) < MaxUnprepared
    /\ session' = IF session[d] = "none" THEN [session EXCEPT ![d] = "INIT"]
                                         ELSE session
    /\ unprepared' = unprepared \cup {d}
    /\ UNCHANGED <<pc, sync_status, loop_count, callVars, reply, listVars,
                   connVars, serverVars, rc, answered, given_up, apart, freed>>

\* IOT_Gateway_Subdev_Offline.  Without a session it ends at once, and so it
\* does, with nothing changed, when it cannot be prepared (BindUnbind too).
Offline(d) ==
    /\ pc = "idle"
    /\ calls < MaxCalls
    /\ session[d] # "none"
    /\ Request("offline", d)
    /\ UNCHANGED <<sync_status, loop_count, session, listVars, connVars,
                   serverVars, rc, answered, given_up, apart, openVars>>

\* IOT_Gateway_Subdev_Bind, IOT_Gateway_Subdev_Unbind.
BindUnbind(o, d) ==
    /\ pc = "idle"
    /\ calls < MaxCalls
    /\ Request(o, d)
    /\ UNCHANGED <<sync_status, loop_count, session, listVars, connVars,
                   serverVars, rc, answered, given_up, apart, openVars>>

\* Mutant: bind_list is not emptied.
GetBindList_Keeps ==
    /\ pc = "idle"
    /\ calls < MaxCalls
    /\ touched' = 0
    /\ Request("describe_sub_devices", NoDevice)
    /\ UNCHANGED <<sync_status, loop_count, session, bind_list,
                   subdev_bindlist, listed, connVars, serverVars, rc,
                   answered, given_up, apart, openVars>>

\* IOT_Gateway_Subdev_GetBindList forgets what is on bind_list.
GetBindList ==
    /\ pc = "idle"
    /\ calls < MaxCalls
    /\ bind_list' = <<>>
    /\ touched' = 0
    /\ Request("describe_sub_devices", NoDevice)
    /\ UNCHANGED <<sync_status, loop_count, session, subdev_bindlist, listed,
                   connVars, serverVars, rc, answered, given_up, apart,
                   openVars>>

\* Its topic does not fit: bind_list is forgotten all the same.
GetBindListUnprepared ==
    /\ pc = "idle"
    /\ calls < MaxCalls
    /\ bind_list' = <<>>
    /\ UNCHANGED <<pc, sync_status, loop_count, callVars, session, reply,
                   subdev_bindlist, listed, touched, connVars, serverVars, rc,
                   answered, given_up, apart, openVars>>

\* subdev_remove_session
subdev_remove_session(d) == session' = [session EXCEPT ![d] = "none"]

\* The call ends well.  If the session was freed meanwhile, online and offline
\* write its status to memory that is free: what the program does from there
\* on is undefined, and the model ends.
Succeed ==
    /\ pc' = IF op \in {"online", "offline"} /\ session[dev] = "none"
               THEN "undefined" ELSE "idle"
    /\ loop_count' = 0
    /\ rc' = SUCCESS
    /\ CASE op = "online" ->
              session' = IF session[dev] = "none" THEN session
                         ELSE [session EXCEPT ![dev] = "ONLINE"]
         [] op = "offline" -> subdev_remove_session(dev)
         [] OTHER -> UNCHANGED session
    /\ unprepared' = IF op = "offline" THEN unprepared \ {dev} ELSE unprepared
    /\ freed' = IF pc' = "idle" THEN {} ELSE freed
    /\ IF op = "describe_sub_devices"
         THEN subdev_bindlist' = bind_list /\ bind_list' = <<>>
         ELSE UNCHANGED <<subdev_bindlist, bind_list>>
    /\ UNCHANGED <<listed, touched>>

\* Mutant: the session of a failed online stays.
Fail_KeepsSession ==
    /\ pc' = "idle"
    /\ loop_count' = 0
    /\ rc' = reply[op].result
    /\ freed' = {}
    /\ UNCHANGED <<session, unprepared, listVars>>

\* The call ends with the result as its return code.
Fail ==
    /\ pc' = "idle"
    /\ loop_count' = 0
    /\ rc' = reply[op].result
    /\ IF op = "online" THEN subdev_remove_session(dev)
                        ELSE UNCHANGED session
    /\ freed' = {}
    /\ UNCHANGED <<unprepared, listVars>>

\* gateway_publish_sync
Publish ==
    /\ pc = "publish"
    /\ to_server' = Append(to_server, calls)
    /\ pc' = "wait"
    /\ UNCHANGED <<sync_status, loop_count, callVars, session, reply,
                   listVars, to_client, serverVars, rc, answered, given_up,
                   apart, openVars>>

PublishFails ==
    /\ pc = "publish"
    /\ Fail
    /\ UNCHANGED <<sync_status, callVars, reply, connVars, serverVars,
                   answered, given_up, apart>>

\* The head of the waiting loop: a result is there.  When it is a late one
\* of an earlier request, the request's own result is not waited for.
WaitEnds ==
    /\ pc = "wait"
    /\ reply[op].result # res
    /\ IF reply[op].result = SUCCESS THEN Succeed ELSE Fail
    /\ given_up' = IF answered[op] = calls THEN given_up
                                           ELSE given_up \cup {calls}
    /\ UNCHANGED <<sync_status, callVars, reply, connVars, serverVars,
                   answered, apart>>

\* It is not, and will not be waited for any longer.
WaitTimesOut ==
    /\ pc = "wait"
    /\ reply[op].result = res
    /\ loop_count > GATEWAY_LOOP_MAX_COUNT
    /\ Fail
    /\ given_up' = given_up \cup {calls}
    /\ apart' = IF op \in {"online", "offline"}
                  THEN apart \cup {e \in Devices : dev <= e} ELSE apart
    /\ UNCHANGED <<sync_status, callVars, reply, connVars, serverVars,
                   answered>>

WaitTurn ==
    /\ pc = "wait"
    /\ reply[op].result = res
    /\ loop_count <= GATEWAY_LOOP_MAX_COUNT
    /\ pc' = "yield"
    /\ UNCHANGED <<sync_status, loop_count, callVars, session, reply,
                   listVars, connVars, serverVars, rc, answered, given_up,
                   apart, openVars>>

\* Mutant: the turns are not counted.
YieldReturns_Uncounted ==
    /\ pc = "yield"
    /\ pc' = "wait"
    /\ UNCHANGED <<sync_status, loop_count, callVars, session, reply,
                   listVars, connVars, serverVars, rc, answered, given_up,
                   apart, openVars>>

\* IOT_Gateway_Yield returns, having handled any number of messages.
YieldReturns ==
    /\ pc = "yield"
    /\ pc' = "wait"
    /\ loop_count' = loop_count + 1
    /\ UNCHANGED <<sync_status, callVars, session, reply, listVars, connVars,
                   serverVars, rc, answered, given_up, apart, openVars>>

\* IOT_Gateway_Destroy frees the sessions and closes the connection.
Destroy ==
    /\ pc = "idle"
    /\ pc' = "gone"
    /\ session' = [d \in Devices |-> "none"]
    /\ to_server' = <<>>
    /\ to_client' = <<>>
    /\ unprepared' = {}
    /\ UNCHANGED <<sync_status, loop_count, callVars, reply, listVars,
                   serverVars, rc, answered, given_up, apart, freed>>

----------------------------------------------------------------------------
(* _gateway_message_handler, inside a call that waits or when the          *)
(* application yields.                                                     *)

\* Mutant: the name in the result is not looked at.
IsAwaited_AnyName(d, client_id) == client_id # NoDevice

\* strncmp over the length of the name in the result.
IsAwaited(d, client_id) == d <= client_id

Touch == touched' = IF touched < 2 THEN touched + 1 ELSE touched

\* _subdev_proc_devlist puts each subdevice in front of bind_list; when it
\* runs out of memory it stops.
AddBindInfo(devs) ==
    \/ bind_list' = Reverse(devs) \o bind_list /\ Touch
    \/ /\ \E k \in 0..(Len(devs) - 1) :
            bind_list' = Reverse(SubSeq(devs, 1, k)) \o bind_list
       /\ touched' = 2

\* _subdev_unbind_device takes the first one with the name off bind_list.
RemoveBindInfo(d) ==
    /\ bind_list' = RemoveFirst(bind_list, d)
    /\ Touch

\* online, offline, bind and unbind store the result if it is awaited.
HandleResult(m) ==
    /\ m.type \in Ops \ {"describe_sub_devices"}
    /\ IF IsAwaited(m.devs[1], reply[m.type].client_id)
         THEN /\ reply' = [reply EXCEPT ![m.type].result = m.result]
              /\ answered' = [answered EXCEPT ![m.type] = m.n]
         ELSE UNCHANGED <<reply, answered>>
    /\ UNCHANGED <<session, listVars, openVars>>

HandleDescribe(m) ==
    /\ m.type = "describe_sub_devices"
    /\ AddBindInfo(m.devs)
    /\ listed' = m.devs
    /\ reply' = [reply EXCEPT ![m.type].result = SUCCESS]
    /\ answered' = [answered EXCEPT ![m.type] = m.n]
    /\ UNCHANGED <<session, subdev_bindlist, openVars>>

\* change: the server bound (1) or unbound (0) a subdevice.
HandleChange(m) ==
    /\ m.type = "change"
    /\ IF m.result = 1 THEN AddBindInfo(m.devs) ELSE RemoveBindInfo(m.devs[1])
    /\ UNCHANGED <<session, reply, answered, subdev_bindlist, listed,
                   openVars>>

\* unbind_all frees every session, also one that a waiting call works on.
HandleUnbindAll(m) ==
    /\ m.type = "unbind_all"
    /\ session' = [d \in Devices |-> "none"]
    /\ unprepared' = {}
    /\ freed' = IF pc = "idle" THEN {}
                ELSE freed \cup {d \in Devices : session[d] # "none"}
    /\ UNCHANGED <<reply, answered, listVars>>

\* search_devices is acknowledged and reported; a message that cannot be
\* parsed is dropped.
HandleOther(m) ==
    /\ m.type = "search_devices"
    /\ UNCHANGED <<session, reply, answered, listVars, openVars>>

HandleMessage ==
    /\ pc \in {"yield", "idle"}
    /\ to_client # <<>>
    /\ LET m == Head(to_client) IN
       \/ HandleResult(m) \/ HandleDescribe(m) \/ HandleChange(m)
       \/ HandleUnbindAll(m) \/ HandleOther(m)
    /\ to_client' = Tail(to_client)
    /\ UNCHANGED <<pc, sync_status, loop_count, callVars, to_server,
                   serverVars, rc, given_up, apart>>

----------------------------------------------------------------------------
(* Environment: the server, and a connection that may lose QoS 0 messages. *)

\* The server grants a request or refuses it.
Grant(o, d) ==
    /\ online' = CASE o = "online" -> online \cup {d}
                   [] o \in {"offline", "unbind"} -> online \ {d}
                   [] OTHER -> online
    /\ bound' = CASE o = "bind" -> bound \cup {d}
                  [] o = "unbind" -> bound \ {d}
                  [] OTHER -> bound
    /\ apart' = IF o = "unbind" THEN apart \cup {d} ELSE apart

ServerAnswers ==
    /\ to_server # <<>>
    /\ LET n == Head(to_server)
           o == req[n].op
           d == req[n].dev IN
       IF o = "describe_sub_devices"
         THEN /\ to_client' = Append(to_client,
                                Message(o, SetToSeq(bound), SUCCESS, n))
              /\ UNCHANGED <<online, bound, apart>>
         ELSE \E result \in {SUCCESS, ERROR} :
              /\ IF result = SUCCESS THEN Grant(o, d)
                                     ELSE UNCHANGED <<online, bound, apart>>
              /\ to_client' = Append(to_client, Message(o, <<d>>, result, n))
    /\ to_server' = Tail(to_server)
    /\ UNCHANGED <<pc, sync_status, loop_count, callVars, session, reply,
                   listVars, pushes, rc, answered, given_up, openVars>>

\* The console binds or unbinds a subdevice, all of them, or searches.
ServerPushes(m) ==
    /\ pushes < MaxPushes
    /\ pc \notin {"subscribe", "subscribe_yield", "gone", "undefined"}
    /\ pushes' = pushes + 1
    /\ to_client' = Append(to_client, m)
    /\ LET gone == CASE m.type = "unbind_all" -> Devices
                     [] m.type = "change" /\ m.result = 0 -> ToSet(m.devs)
                     [] OTHER -> {} IN
       /\ online' = online \ gone
       /\ bound' = IF m.type = "change" /\ m.result = 1
                     THEN bound \cup ToSet(m.devs) ELSE bound \ gone
       /\ apart' = apart \cup gone
    /\ UNCHANGED <<pc, sync_status, loop_count, callVars, session, reply,
                   listVars, to_server, rc, answered, given_up, openVars>>

Pushes == {Message("unbind_all", <<>>, 0, 0),
           Message("search_devices", <<>>, 0, 0)}
          \cup {Message("change", <<d>>, status, 0) : d \in Devices,
                                                      status \in {0, 1}}

MessageLost ==
    /\ \/ to_server # <<>> /\ to_server' = Tail(to_server)
          /\ UNCHANGED to_client
       \/ to_client # <<>> /\ to_client' = Tail(to_client)
          /\ UNCHANGED to_server
    /\ UNCHANGED <<pc, sync_status, loop_count, callVars, session, reply,
                   listVars, serverVars, rc, answered, given_up, apart,
                   openVars>>

----------------------------------------------------------------------------
Application ==
    \/ \E d \in Devices : \/ Online(d) \/ OnlineUnprepared(d) \/ Offline(d)
                          \/ \E o \in {"bind", "unbind"} : BindUnbind(o, d)
    \/ GetBindList \/ GetBindListUnprepared
    \/ Destroy

Call == \/ SubscribeWait \/ SubscribeYield
        \/ Publish \/ PublishFails
        \/ WaitEnds \/ WaitTimesOut \/ WaitTurn \/ YieldReturns

Environment ==
    \/ ServerAnswers
    \/ \E m \in Pushes : ServerPushes(m)
    \/ MessageLost

Next == Application \/ Call \/ HandleMessage \/ Environment

Spec == Init /\ [][Next]_vars

\* The thread keeps running, and yield returns after its 200 ms.
Fairness == WF_vars(Call)

FairSpec == Spec /\ Fairness

----------------------------------------------------------------------------
(* Properties.                                                             *)

\* The values of the gateway's fields; in particular the turns of a wait
\* stay within GATEWAY_LOOP_MAX_COUNT + 1.
TypeOK ==
    /\ pc \in {"subscribe", "subscribe_yield", "idle", "publish", "wait",
               "yield", "gone", "undefined"}
    /\ sync_status \in {PENDING, SUCCESS, ERROR}
    /\ loop_count \in 0..(GATEWAY_LOOP_MAX_COUNT + 1)
    /\ res \in {PENDING, SUCCESS, ERROR}
    /\ calls \in 0..MaxCalls
    /\ req \in [Calls -> [op : Ops, dev : Devices \cup {NoDevice}]]
    /\ session \in [Devices -> {"none", "INIT", "ONLINE"}]
    /\ reply \in [Ops -> [client_id : Devices \cup {NoDevice},
                          result : {PENDING, SUCCESS, ERROR}]]
    /\ bind_list \in Seq(Devices)
    /\ subdev_bindlist \in Seq(Devices)
    /\ to_server \in Seq(Calls)
    /\ \A m \in ToSet(to_client) : m.devs \in Seq(Devices)
    /\ online \subseteq Devices
    /\ bound \subseteq Devices
    /\ pushes \in 0..MaxPushes
    /\ rc \in {PENDING, SUCCESS, ERROR}
    /\ answered \in [Ops -> 0..MaxCalls]
    /\ given_up \subseteq 1..calls
    /\ apart \subseteq Devices
    /\ listed \in Seq(Devices)
    /\ touched \in 0..2
    /\ unprepared \subseteq Devices
    /\ freed \subseteq Devices

\* Between calls a session is half open only if the last Online of its
\* subdevice returned before it sent anything; a request that was sent leaves
\* none, whatever became of the wait.  And a call writes to a session that is
\* freed only if unbind_all, handled inside its wait, has freed it.
SessionsSettle ==
    /\ pc = "idle" =>
         \A d \in Devices : session[d] = "INIT" => d \in unprepared
    /\ pc = "undefined" => dev \in freed

\* The gateway's sessions agree with the server about who is online, unless
\* a wait for that subdevice (or one whose name begins its name) was given
\* up, or the subdevice was unbound.
AgreesWithServer ==
    pc = "idle" =>
        \A d \in Devices \ apart : session[d] = "ONLINE" <=> d \in online

\* The result last stored for the running call's operation is that of request
\* k: its own, or a late one.
OwnOrLate(k) ==
    \/ k = calls
    \/ k \in given_up /\ req[k].op = op /\ req[k].dev <= dev

\* A call returns success only if the server granted this very request, or
\* an earlier one of the same kind whose own result had not been waited for
\* and came late, of the same subdevice or of one whose name begins its name.
AnswersOwnRequest ==
    [][(pc = "wait" /\ pc' = "idle" /\ rc' = SUCCESS) =>
         OwnOrLate(answered[op])]_vars

\* The list GetBindList hands over is the one the server sent, each entry
\* once, unless another message changed bind_list during the call or memory
\* ran out.
ListIsReplied ==
    [][subdev_bindlist' # subdev_bindlist =>
         subdev_bindlist' = Reverse(listed) \/ touched > 1]_vars

\* Every call returns, also when no result ever comes (or writes to a freed
\* session).
CallsReturn == pc # "idle" ~> pc \in {"idle", "gone", "undefined"}
============================================================================
