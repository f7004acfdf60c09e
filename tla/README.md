# TLA+ models of the Tencent Cloud IoT device SDK

This directory models the core of the SDK (the MQTT client in
`src/sdk_src/protocol/mqtt/`, the CoAP client, and the services that keep state of
their own: device shadow, gateway, OTA), model-checks it with TLC on small
instances and proves their safety properties with TLAPS for instances of any
size. `PROJECT.json` maps every
definition to the lines it stands for and lists components, runs, mutants,
hazards, findings and theorems.

## 1. The system

The SDK is a C library for devices. An application links it, constructs one
client per connection and calls it from its own threads. One thread at a time is
inside `IOT_MQTT_Yield`: either an application thread or the loop thread that
`IOT_MQTT_StartLoop` creates. Everything that arrives is handled by that thread,
which also runs the application's callbacks. The mutexes (`lock_generic`,
`lock_write_buf`, `lock_list_pub`, `lock_list_sub`) are plain, not recursive.

### Inventory

| Component | State | Operations | Interacts with | Hard part | What makes it correct |
|---|---|---|---|---|---|
| MQTT publish (`mqtt_client_publish.c`, PUBACK handling, `pub_info_proc`) | `next_packet_id`, `write_buf`, `list_pub_wait_ack` | publish, handle PUBACK, sweep the list | all senders share `write_buf`; events go to the application | several threads, one buffer; time-out against late PUBACK; list changed during its sweep | ids distinct, packets intact, no dangling node, consistent events |
| MQTT subscribe (`mqtt_client_subscribe.c`, `mqtt_client_unsubscribe.c`, SUBACK/UNSUBACK handling, `sub_info_proc`) | `sub_handles`, `list_sub_wait_ack`, heap copies of filters | subscribe, unsubscribe, resubscribe, handle SUBACK/UNSUBACK, sweep | called by every service; resubscribe runs in reconnect | who frees a filter; late acknowledgements; full table; unsubscribe during resubscribe | one owner per filter, no duplicate entries, every entry asked for after a reconnection |
| MQTT session (`mqtt_client_yield.c`, `mqtt_client_connect.c`, loop thread in `mqtt_client.c`) | connection flag, ping count and timer, reconnect interval, thread flags | yield, keep-alive, disconnect, reconnect, start/stop loop | drives all other handlers | silence, flapping links, back-off, thread shut-down | dead peers noticed, live ones kept, bounded back-off, thread reconnects or ends |
| MQTT receive (`_handle_publish_packet`, `_deliver_message`) | ring of packet ids, `sub_handles` | deduplicate, match, deliver, acknowledge | reads the table subscribe writes | retransmissions, ring overflow, unlock between match and call | no double delivery, no lost delivery, every message acknowledged |
| Topic matching (`_is_topic_matched`) | two pointers | match a filter with a name | receive | boundary cases of `+`, `#` and empty levels | agrees with MQTT's definition, stays in bounds |
| MQTT framing (remaining length, `_read_mqtt_packet`) | `read_buf` | read, discard, encode | receive, connect | partial reads, oversized packets | stream stays in step |
| CoAP client (`protocol/coap`) | list of messages awaiting a response | send, retransmit, match responses | OTA over CoAP | retransmission against ACK, separate response | each request reported once, by its own answer; what is retransmitted is what was sent |
| Device shadow (`services/shadow`) | request list, subscriptions, version | update, get, delta handling, time-out | MQTT publish/subscribe | reply before the request is listed | one result or time-out per request, its own, not before its time |
| Gateway (`services/gateway`) | subdevice sessions, `sync_status`, results | bind, unbind, online, offline | yields inside its calls | session freed while waiting; late replies | results belong to their requests |
| OTA, resource (`services/ota`, `services/resource`, `samples/ota`) | download state, sizes, digest, two files | start, fetch, report, check | MQTT or CoAP, HTTP | restart, resume, refused ranges, messages at any moment | the digest follows the file, accepted means whole, the upgrade ends |
| AT client and socket (`network/at_socket`) | current response, semaphore, receive buffers | execute command, parse answers and URCs | parser thread, ring buffer | late answers | answers go to their own command |
| Ring buffer (`utils_ringbuff.c`) | two indices | push, pop | interrupt or thread against reader | index published before the byte | FIFO |
| Log upload (`services/log`) | upload buffer, saved log | append, upload, retry | HTTP | partial upload | nothing lost or corrupted |
| Dynamic registration, RRPC, broadcast, remote config, SSH proxy, HTTP, TLS/sockets, JSON, digests, platform layer | little or none | formatting, I/O, thin layers | — | — | not modelled, see section 7 |

## 2. Plan

Order of work, the most important behaviour first:

1. `MqttPublish` with `PublishPromise` — done, with proofs.
2. `MqttSubscribe` — done, with proofs.
3. `MqttSession` — done, with proofs of the back-off and of keep-alive.
4. `MqttReceive` and `TopicMatch` — done, with proofs.
5. `CoapMessage` — done, with proofs, implementing `RequestPromise`.
6. `ShadowRequest` — done, with proofs, implementing the same promise.
7. `GatewaySession` — done, with proofs.
8. `OtaDownload` — done, with proofs.
9. `RingBuffer` refining a FIFO queue, then `AtClient` on top of it.
10. `LogUpload`, `MqttFraming`.

9 and 10 are the components left that have concurrency or failure handling of their own.

Each new module gets one run whose invariants and liveness are checked together
where its state space allows; the separate liveness runs of publish and subscribe
exist because symmetry and the larger bounds do not go with liveness checking.

## 3. The modules and the code

**`MqttPublish`.** Threads are `Publishers` and `Yielder`. `pc[t]` is the place of a
thread inside `qcloud_iot_mqtt_publish`; one action per region between two lock
operations, plus the read of the packet id after `lock_generic` is released
(`get_next_packet_id` is two steps: the counter advances in the first, `Serialize`
reads it back). List nodes are numbered in allocation order; `list_rpush` runs
under `lock_write_buf`, so list order is numeric order and the list is a set.
`ypc` is the place of the yielding thread: read one packet, sweep
(`SweepBegin`, `SweepNext`, `SweepRelock`, `CallbackReturns` follow the unlock and
relock inside `pub_info_proc`), keep-alive, and the packets it writes itself (PUBACK,
PINGREQ, DISCONNECT, CONNECT; PUBACK, PINGREQ and the connection are in more
detail in `MqttReceive` and `MqttSession`). A send is two steps, `Send` (the packet is
written) and `SendReturns`, so a PUBACK may be handled before the call has its outcome. `TimerExpires`
may happen at any moment from the push on: writes block, and the call then waits for `lock_list_pub`
(`mqtt_client_publish.c:369`). `result`, `events`, `age`, `recycled` and `late` (nodes whose timer ran out before
their call returned) are history variables that no guard reads. `used_freed` records the nodes
that `RemoveUnsent` or `SweepRelock` used after they were freed; from then on the program's
behaviour is undefined, and the guards (`At`, `YielderAt`) end the behaviour there.

**`PublishPromise`** is the abstract specification of a QoS 1 publish as the application
sees it: accepted or rejected once, no event for a rejected call, success at most
once and never for a rejected publish, time-out at most once and never after
success (a PUBACK after the time-out raises success too, and the code does this). A call
that outlasts its time-out (`Lapse`) may be told of the time-out and then return an error.
`MqttPublish!KeepsPromise` instantiates it.

**`MqttSubscribe`.** A request number stands for a call, its heap copy of the filter, its
list node and its packet id. `heap` records live and freed copies, `used_freed` the freed ones that were
used or freed again, after which (or after a wild free) nothing is followed any more (`Defined`). A timer may run out
while its call is still sending (`late`), and a filter may be freed under the pointer that resubscribe
has read (`raced`). The table keeps
stale fields in free entries as the code does (`handle` survives `topic_filter`).
The unlocked read of the filter pointer in `qcloud_iot_mqtt_resubscribe` and the later
copy are two steps. The uninitialized local of `_handle_unsuback_packet` is a
nondeterministic choice from `StackGarbage`: NULL or the address of a filter.
A wildcard filter makes `qcloud_iot_mqtt_unsubscribe` remove every entry, and the
model does the same.

**`MqttSession`.** One round of `qcloud_iot_mqtt_yield` is: loop head, read, keep-alive, or
reconnect. `Conclude` is the common tail of the round. Time is counted in ticks of
`ping_timer`; `Latency` bounds how long a live server takes to answer. The loop
thread polls `thread_running`, which `IOT_MQTT_StopLoop` and `IOT_MQTT_SetLoopStatus` write.

**`MqttReceive`.** `ReadPublish`, `Match`, `CallHandler`/`CallDefault`, `Remember`, `SendPuback`
follow `_handle_publish_packet` and `_deliver_message`, with `MQTT_RMDUP_MSG_ENABLED` on (the
default). All messages are on one topic; an entry matches it or does not. `event_handle` says whether
the client has a default handler: the initialization parameters the SDK provides set none,
and a message that no entry takes is then `dropped`.

**`TopicMatch`** executes `_is_topic_matched` one turn of its loop per step, for every filter
and name within the bounds, and compares it with MQTT's definition by levels.

**`GatewaySession`.** One thread calls the gateway, as in `gateway_sample.c`. `pc` is its place:
subscribing in `IOT_Gateway_Construct`, idle, publishing, at the head of the waiting loop
of `gateway_publish_sync`, or inside its yield, where `HandleMessage` runs the whole of
`_gateway_message_handler`. A subdevice is a number, and a smaller number stands for a name
that begins the larger one's name, because `strncmp` over the length of the name in
the result takes both for the awaited one. `reply` holds the four `gateway_data` results and
that of the bind list, `bind_list` is the shared list that `describe_sub_devices` and `change`
messages write. `OnlineUnprepared` and `GetBindListUnprepared` are the exits before anything is sent
(a name that does not fit its buffer): the first leaves the new session in the list, the second has
emptied `bind_list`; those of the other calls change nothing. `pc` is "undefined" once online or offline
has written to a session that `unbind_all`, handled inside its wait, has freed. The server and the
lossy connection are external. `rc`, `answered`, `given_up`, `apart`, `listed`, `touched`, `freed`
and `unprepared` are history variables (only the bound on unprepared calls reads the last). `given_up` holds the requests
whose own result nobody waited for: those that timed out, and those whose call ended
with the late result of another one, so that their own is late in its turn. Two calls
cannot show the second kind; it came out of the proof of `AnswersOwnRequest`, and TLC
confirms it with three calls.

**`CoapMessage`.** The yielding thread constructs the client: it sends the authentication as the
first request and yields until its callback has run; then `Senders` call
`IOT_COAP_SendMessage`. A call is: draw the message id (`ReadMsgId`, `StoreMsgId`) and the token
(`StoreToken`) without a lock, then under `lock_send_buf` `Serialize`, `Write`, and
`_coap_message_list_add`, which copies `send_buf` for retransmissions. The yielding thread
handles one datagram (an empty ACK, a piggybacked or a separate response, the last
acknowledged through the same `send_buf`) and runs `Sweep`, the `PROCESS_WAIT_CMD` pass.
Every pass holds `lock_list_wait_ack`, so it is one step. A time-out of the read is followed by the
sweep in the UDP build as well: `HAL_UDP_linux.c` returns the SSL time-out code there.

**`ShadowRequest`.** Threads call update or get, or their synchronous forms. The document with its
token is published before the request is put on `request_list`; the result may come at
any later moment, or never. `IOT_Shadow_Yield` begins with `handle_expired_request`; the MQTT loop thread
does not call it. Time-outs keep their conversion to a `uint8_t` of seconds. `link` is the MQTT connection:
it may be lost and come back or not; results and the outcome of the SUBSCRIBE that
`IOT_Shadow_Construct` waits for are told only while it is up.

**`RequestPromise`** is the abstract specification of both: a call is accepted or rejected
once, an accepted request is reported at most once, as answered or as timed out, a
rejected one never. `KeepsPromise` in each module instantiates it.

**`OtaDownload`.** The OTA handle, driven by `process_ota` of `samples/ota/ota_mqtt_sample.c`, the only
caller in the repository and the code the SDK gives to its users for it. `pc` is the step of that
process; messages of the server are handled where it yields. A firmware is a sequence of
pieces, and the MD5 of a sequence is the sequence itself. `file` and `info` are on disk and
survive `Restart`. `DoubleFree` is the second `HAL_Free` of the version string in `_get_local_fw_info` when the
stored size is 0: the process aborts, or goes on with a C library that does not notice. `MainExits` is the end
of `main` on an MQTT error. What the HTTP client makes of a refused range is part of
`IOT_OTA_FetchYield` and `FetchNothing`: of all error statuses only 403 and 404 are errors to it
(`utils_httpc.c`, `_http_client_response_parse`); any other body counts as data, and an empty one as zero bytes.

`MC*` modules only add the symmetry sets, or nothing.

## 4. The runs

| Run | Shows |
|---|---|
| `publish` | `IdsDistinct`, `PacketIntact`, `PointersLive`, `KeepsPromise` with two publishers and the yielding thread |
| `publish_live` | every accepted publish is reported (`EventuallyReported`), across lost connections |
| `callback` | *violation*: publishing from the time-out callback waits for a mutex its own thread holds |
| `subscribe` | `FilterOwnership`, `EntriesDistinct`, `ReconnectAsksAgain`, `OneOutcome` |
| `subscribe_live` | every request is reported, or found the table full |
| `session` | `BackOffDoubles`, `NoFalseDisconnect`, `SilenceDetected`, `ReconnectsOrEnds` |
| `receive` | `RingIsWindow`, `DeliveredOnce`, `AckedWereDelivered`, `HandlerOfMatch`, `EventuallyAcked` |
| `matching` | `InBounds`, `FindsMatches`, `TakesNoOther`, `Terminates` |
| `gateway` | `SessionsSettle`, `AgreesWithServer`, `AnswersOwnRequest`, `ListIsReplied`, `CallsReturn` |
| `coap` | `CopyIntact`, `OwnAnswer`, the refinement `KeepsPromise`, and `EventuallyReported` whatever the network loses |
| `shadow` | `OwnResult`, `WaitsItsTime`, the refinement `KeepsPromise`, and `EventuallyReported` whatever the server leaves unanswered |
| `ota` | `HashFollowsFile`, `ValidIsWhole`, `EventuallyUpgraded` with three faults at any place |

`TypeOK` of `publish` is checked because the packet id's wrap-around is part of it; the
type invariants of the other modules are stated there and proved (section 5). `TopicMatch` has
`InBounds` in place of one, also proved.

**Bounds and why they are enough.**
*publish*: two publishers and the yielding thread are enough for every pair of
actors to race on a mutex and a third to interfere; two nodes give every order of
an older and a newer publish; with `MAX_PACKET_ID` 2 the counter wraps within two publishes, an id
can come round while in use, and `Init` starts the counter at every value. `publish_live` and `callback` need one publisher:
their question is about one publish and the yielding thread.
*subscribe*: three requests (two subscribes and an unsubscribe or a
resubscribe) on a table of two, two topics of which one is a wildcard, one lost
connection; entries can be identical or differ in the topic. *subscribe_live* has two handlers
and a table of one, which fills at once. The proofs cover any number of both.
*session*: `KeepAlive` 4 gives a retry period of 2 ticks, `Latency` 2 is the longest a server may
take without being given up; a maximum of 2000 ms with first waits 1000 and 1990
makes the doubling end on the maximum in one case and beyond it in the other.
*receive*: three messages over a ring of two overflow it; one reconnection resends; clients with and
without a default handler.
*gateway*: two requests, so that the result of the first can arrive during the second;
two subdevices, bound at the start, one of whose names begins the other's; one request of the
server; one subdevice at a time whose Online is not prepared; a
wait of two turns, each of which handles any number of messages. Chains of late results
need more calls; the theorems cover them.
*coap*: two requests, of two senders or of the authentication and a sender; one datagram in
flight and one retransmission are enough for answers that come twice, late, in the other order or
never; `COAP_MSG_MAX_MSG_ID` 2 with the first id at its end makes the counter wrap.
*shadow*: two requests, both on the list or one of them refused; the three time-outs are below
a second, ordinary, and beyond what the seconds count to. A third caller takes TLC beyond five minutes.
*ota*: a firmware of three pieces fetched by one or two at a time, a release during the download of
another, three faults: enough for an attempt that fails, its resumption that fails, and a restart.
*matching*: filters up to 5 and names up to 4 characters hold every combination of
two separators with `+`, `#`, empty levels and letters.

Deadlock is not checked where a bound on requests, messages or connections lets a
behaviour end (subscribe, receive, matching, gateway, coap, shadow, ota); the other publish runs and the session
model never stop, except that a use of freed memory is followed by stuttering. It is not checked in
`callback` either, which is about one deadlock and contains a second (section 6).

**Fairness.** The yielding thread and the loop thread keep running (the SDK requires
the application to call yield regularly) and calls return (sends and reads have
time limits): weak fairness. Mutexes are taken by a thread that keeps asking:
strong fairness, the scheduling guarantee the SDK takes for granted of its HAL mutexes. Timers
run out. CONNECT succeeds eventually in `publish_live` and `subscribe_live`: without
it nothing times out, because the sweeps only give up nodes while connected. In
`session` an attempt may fail for ever, and the thread then ends; strong fairness
of `LoopHead`, `Tick` and a successful `ReadPacket` says that yield's timer does not
expire before every round, that time passes, and that the packets already in the inbox are
not all mishandled. `gateway` assumes only that the calling thread runs and that its
yields return; no message needs to arrive. `coap` and `shadow` assume that calls go on, that whoever
yields keeps yielding and that timers run out; `coap` assumes nothing of server and network. `shadow` assumes
in addition that the MQTT client tells the outcome of a SUBSCRIBE, at least its time-out, if the
connection stays up long enough (`sub_info_proc` runs only while connected), and not that it
does or that it comes back: the property excepts a construction whose connection is down for good or again and again. `ota` assumes that the
process runs; faults are bounded, so from some point on none happens.

## 5. Proofs

`MqttPublishProofs` proves for any number of publishing threads, any list capacity,
any largest packet id and any number of nodes:

- `TypeCorrect`: `Spec => []TypeOK`;
- `PacketsIntact`: `Spec => []PacketIntact`;
- `PacketIdsDistinct`: `Spec => []IdsDistinct`;
- `PointersStayLive`: `Spec => []PointersLive`;
- `PublishKeepsPromise`: `Spec => KeepsPromise`, the refinement of `PublishPromise`.

Assumptions: only the named ones on the constants (threads distinct, bounds
natural numbers). Nothing is assumed about how long a send takes.

The argument. None of the properties is inductive by itself.
`BaseInv` adds to the types who holds which mutex at which place (`LockInv`) and what
the locals of a call are (`CallInv`); with it at most one thread is between lock and
unlock, which is all that `PacketIntact` needs. `IdInv` relates the counter to each
listed node: it is the node's id shifted by the draws since (`age`), older nodes
have larger ages, so equal ids need a full turn. `SendInv` says that the node of a
running send is the newest one and, unless its timer has run out (`late`) or its id was recycled,
still on the list and not given up by the sweep; `SweepInv` that the sweep moves towards the head
and that its pointers are on the list, `temp_node` with the same exception. These give `PointersLive`. `ResultInv`, `WireInv` and `WaitInv` relate what has
been reported to what is on the list and on the connection: a packet on
the connection belongs to a publish that was sent, without success event, and a waiting
node has raised no event until the sweep gives it up. From them every step of
`Next` is a step or a stutter of `PublishPromise` (`StepKeepsPromise`).
The invariants are built in layers (`NextBase`, `NextPacket`, `NextId`,
`NextPointers`, `NextPromise`), each lemma with one step per action.
`LastIsGreatest` and `IteratorMovesDown` are the facts about the list order.

`OtaDownloadProofs` proves for any set of versions, any firmware size, any buffer and any
number of faults and restarts:

- `OtaTypes`: `Spec => []TypeOK`;
- `HashStaysWithFile`: `Spec => []HashFollowsFile`;
- `AcceptedIsWhole`: `Spec => []ValidIsWhole`.

Its only assumption is `OtaAssumption` (sizes are positive numbers). The
inductive invariant `IInv` adds to the types: `OneOffer`, that while an update is fetched the three
fields of the handle come from one message; `StateFits`, that between offer and check the handle is
`FETCHING` or `FETCHED`, the states in which `_ota_callback` ignores messages, which is what keeps
`OneOffer` true; and `HashFits`, what the MD5 has seen at each step: before a resumed download the first
`downloaded_size` pieces of the file, before each fetch what the file will be opened with. Both properties
except a download that was resumed before the end of its file (`torn`), and only that one: `IOT_OTA_StartDownload`
sets the mark anew.
`AcceptedIsWhole` follows where the check is made: the MD5 equals the released one, and that of the file.
One lemma per action, then `Invariance`.

The other proof modules have the same shape: an inductive invariant `IInv` whose parts are
named for what they say (`...OK` is typed state, `...Fits` relates parts of it), one lemma per
action or group of actions, `NextIInv`, and a theorem for each property. Every `IInv` was
checked by TLC on small instances before it was proved.

`MqttSubscribeProofs`, for any threads, topics, handlers, size of `sub_handles` and number of
requests and lost connections: `TypeCorrect`, `FiltersAreOwned`, `NoTwinEntries`, `ReportedOneWay`,
`ResubscribeCovers`. `FilterOwnership` counts owners, and a count is not inductive;
`HeapFits` says instead, as long as no freed filter has been used, that a filter is on the heap exactly when a call, a waiting node, an
entry or the leak (`lost`) has it, and the other parts that no two of these have it at once: `CallFits` (a request
belongs to one call until it is sent, and is on the list from the push on), `ChannelFits` (a
request is on the connection once, in one direction, and its node has not been answered),
`EntryFits` (a request with an entry has been answered). `EventFits` gives `OneOutcome`: a
time-out takes the node off the list, a success invalidates it. `ResubFits` and `AskFits`
follow resubscribe through a table that unsubscribes and acknowledgements change: what
lies before its position has been asked for.

`MqttSessionProofs`, for any keep-alive interval, ping retries, largest wait and latency:
`TypeCorrect`, `WaitsDouble`, `KeepAliveIsRight`. `RetryFits` adds to `BackOffDoubles` that an
attempt is made only while the wait is at most the maximum. The doubling needs 2^(n+1) = 2·2^n, which the
provers do not know; `PowerDoubles` derives it from the number of subsets of 1..n. `PingFits` is the argument
for keep-alive: while the link was not cut, each ping without an answer stands for `PingGap` ticks that
a PINGREQ has been waiting, or the answer is in the inbox; and when keep-alive runs, yield
has just found no packet, so the ticks are at most `Latency`. `KeepAliveIsRight` assumes
`AnswersInTime`: `Latency < MQTT_PING_RETRY_TIMES * PingGap`, a statement about the server. It
cannot be weakened: with `Latency` equal to that product TLC finds a connection given up
whose server was in time.

`MqttReceiveProofs`, for any ids, ring, table and number of messages: `TypeCorrect`,
`RingHoldsWindow`, `DeliversOnce`, `AcknowledgesDelivered`, `HandlersMatch`. `RingFits` gives the place
of each remembered id in the ring by modular arithmetic; `DeliveryFits` says that a delivered
QoS 1 message is in the window, forgotten, or about to be remembered; `AckFits` that what is acknowledged was delivered, dropped or confused; `ChannelFits` that messages the server
keeps have different ids and that none of them is handled while its PUBACK is under
way. `TableFits` is what `HandlersMatch` needs across the unlock of `lock_generic`: an entry found stays one
whose last filter matched.

It extends `TopicMatch` too (`MatchSpec` is the specification of that module), and its last section is about
`_is_topic_matched`, for any alphabet and filters and names of any length: `PointersInBounds`
(`InBounds`), `MatchesAreFound` (`FindsMatches`), `NothingElseTaken` (`TakesNoOther`). They assume only that the
ordinary characters are none of `/`, `+`, `#` and NUL. The code compares characters and the definition
levels, so the inductive invariant `TopicInv` has to say where the loop is in both: `Aligned` says that the two pointers
are in levels with the same number `k + 1`, that the levels before match, and that within these
levels they are at the same character, behind a `+` and the level it stands for, or behind the
final `#`. There is one lemma per kind of character (`PlusOverNothing`, `PlusOverLevel`,
`HashOverRest`, `PastSeparators`, `SameCharacter`). `ExitFits` keeps why the loop was left, and
`Judged` what is returned. From these `MatchIsFound` follows by what a match leaves for the filter to be at
(`MatchedToEnd`, `MatchedRest`, `MatchedBreak`), and `TakenIsKnown` by the case in which 1 is returned
(`UsedUpMatches`, `AtHashMatches`, `BeforeHashTakes`, `PlusAtEndTakes`). Underneath are the facts about levels:
the k-th separator is the one of rank k (`SeparatorHasRank`, by the least position whose rank is
at least k, in place of an induction), what lies between two of them (`LevelBounds`), that a wildcard of a well-formed
filter is a level of its own (`WildAlone`), and that the beginning of a string has the same first levels
(`PrefixLevels`).

`GatewaySessionProofs`, for any finite set of subdevices and any number of turns, calls and
requests of the server: `TypeCorrect`, `NoHalfOpenSessions`, `SidesAgree`, `SuccessIsAnswered`,
`ListIsTheServers`. The inductive part of `SessionsSettle` is about the running call: the only half-open
session besides those of unprepared calls is its own, and a session it has lost is in `freed`. `LateFits` says that a request that is still under way when its call has ended
was given up, and that its subdevice, with every one whose name it begins, is marked as doubtful;
`AnswerFits` that what is stored for the running call is its own result or such a late one. `AgreeFits`
is the agreement with the server inside a call: before the request is served, while the
result travels, and once it is stored.

`CoapMessageProofs`, for any finite number of senders, range of message ids, retransmissions and
datagrams: `TypeCorrect`, `CopiesIntact`, `AnswersAreOwn`, `CoapKeepsPromise`. `BufferFits` ties `send_buf` to the
holder of its mutex; `WireFits` says that every datagram carries the id and the token of the request it
answers; `DrawsFit` that, unless two threads raced, ids are drawn in the order of the
tokens, so that two requests share an id only after a full turn of the counter. `NodesFit`
(a node is invalid exactly when its request has been reported, until the sweep that follows)
gives the refinement.

`ShadowRequestProofs`, for any finite number of threads, time-outs and length of the request list:
`TypeCorrect`, `ResultsAreOwn`, `TimeoutsWait`, `ShadowKeepsPromise`. `TokensFit` says that tokens are
distinct unless two threads raced, `CallFits` that a listed request has not been reported and
that what is under way has been published, `TimerFits` that a timer runs its seconds once. `TimeoutsWait`
is an equivalence: the documented milliseconds are kept exactly for whole seconds below 256.

Assumptions: only the named ones on the constants. Sizes are numbers; the threads of `CoapMessage`
and `ShadowRequest` and the subdevices are finitely many, because their number is
counted; there is at least one topic.

Only model-checked: the liveness properties, for fairness and ENABLED are out of the
prover's reach. Every safety property of a passing run is proved.

## 6. Findings

**`callback`** — `pub_info_proc` calls the event callback with `lock_list_pub` held. The
comment there leaves republishing to the user; a QoS 1 publish from the callback blocks
the yielding thread for ever. With the callback publishing there is a second deadlock before that
one: the callback waits for `lock_write_buf` with `lock_list_pub` held, while an application thread inside
`qcloud_iot_mqtt_publish` holds `lock_write_buf` and waits for `lock_list_pub`.

Behaviour that the properties state as exceptions, so that they say exactly when it happens:
a publish whose send outlasts its node's timer and then fails has its node removed by the sweep and by
the call (`late`, `used_freed`), and may be reported as timed out before it returns an error; a subscribe
or unsubscribe in the same position frees its filter twice; resubscribe may copy a filter that
unsubscribe has freed (`raced`); a QoS 1 message that no entry takes is acknowledged and dropped when
there is no default handler (`dropped`); an Online whose name does not fit its buffers leaves a half-open
session (`unprepared`), and one whose wait handles `unbind_all` writes to the freed session (`freed`);
`IOT_Shadow_Construct` never returns when the connection is lost for good before its SUBSCRIBE is answered; a
firmware fetch without data stores the size 0, and `_get_local_fw_info` then frees the version string
twice at every later attempt (`DoubleFree`); a SUBACK that finds `sub_handles` full leaks its filter (`lost`); resubscribe
stops at the first failure (`resub_failed`); the ring of ids outlives the
connection, so a new message with a remembered id is acknowledged and dropped (`confused`);
the late result of a gateway request that was given up answers the next one of its kind
(`OwnOrLate`), and from a wait given up on the gateway and the server may disagree about
the subdevice (`apart`); a `change` message handled while the bind list is awaited is
mixed into that list (`touched`);
`_handle_unsuback_packet` frees the filter of an uninitialized local when the request has timed out
already (`wild`); `_is_topic_matched` lets `a/#` accept `ab` and `a/+/b` accept `a/` (`TakesNoOther` shows that
nothing outside these two patterns is accepted); two CoAP senders, or two threads with a shadow
request, may draw the same id or token (`raced`); `IOT_COAP_Construct` never returns when
the sending of its authentication failed; a shadow result without a readable code removes its request
silently (`discarded`), and no asynchronous shadow request times out under the MQTT loop thread; a
firmware download resumed before the end of its file appends to it (`torn`); a version report that the
server refused, or an offer that cannot be parsed, leaves `process_ota` waiting (`Deaf`).

One of them contradicts a document: `qcloud_iot_export_shadow.h:240` and `:252` give the time-out of a
shadow request in milliseconds, and the code counts whole seconds in a `uint8_t`. A time-out below a second expires at
the next yield, a fraction of a second is cut off, and one of 256 s or more wraps. `WaitsItsTime` states
both directions: a request that timed out had its documented time if and only if that is a whole number of
seconds below 256. The run checks it with 500 ms and 257 s, which are cut short, and 4 s, which is kept.

Noticed while reading, and not part of a model: `_mqtt_yield_thread` declares `rc` twice, so the exit code
that `IOT_MQTT_GetLoopStatus` reports is always 0; `shadow_client_common.c:54` and `:66` look for a
`DeviceProperty` among nodes that hold `PropertyHandler`s, so that unregistering a property always fails and
a second registration is not noticed; when `_handle_delta` cannot allocate its iterator the shadow's mutex
is released twice (`shadow_client_manager.c:318`).

## 7. Not modelled

In the MQTT client: QoS 2 (PUBREC is answered, PUBREL only logged; the client does
not subscribe with QoS 2), `IOT_MQTT_Destroy`, a disconnect asked for by the
application (`was_manually_disconnected` is set only inside `_handle_disconnect` and on
destruction), the content of CONNECT and CONNACK, the byte-level framing.
In the gateway: the signature of bind, malformed messages, the acknowledgements of the
server's requests (published and forgotten) and the application's own subscriptions through
the gateway.
In the CoAP client: encoding and decoding, failing allocations of the list iterator and of the
retransmission copy, and a handler that sends (it runs under `lock_list_wait_ack`, which
`_coap_message_list_add` takes). In the shadow: registered properties and
deltas, the JSON. In OTA: progress reports, the texts of the messages, the signalling over
CoAP, and the resource client, which repeats the pattern.
The SDK's rule that only one thread yields at a time is assumed.

Components planned and not written yet are in section 2. Left out for good: dynamic registration and
HTTP (one exchange each, formatting and parsing), sockets and TLS (pure I/O; they
appear as sends and reads that may fail), JSON, digests, AES and base64 (standard
algorithms over byte strings), the SSH proxy (data movement), the platform
layers and vendored libraries. These last are most of the repository's C code: mbedtls alone
has more lines than everything else together, so that the share of all lines that
the models stand for stays small whatever is added to them.
