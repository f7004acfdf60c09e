---------------------------- MODULE MqttSession ----------------------------
(***************************************************************************)
(* The life of an MQTT connection: qcloud_iot_mqtt_yield with its keep-    *)
(* alive, disconnect and reconnect handling (mqtt_client_yield.c,          *)
(* mqtt_client_connect.c) and the loop thread that calls it                *)
(* (IOT_MQTT_StartLoop, _mqtt_yield_thread, IOT_MQTT_StopLoop).            *)
(*                                                                         *)
(* Time passes in ticks (the second of ping_timer) while the client waits  *)
(* for a packet or sleeps between two calls of yield.  As the SDK's        *)
(* documentation asks, only one thread is inside yield at a time.          *)
(***************************************************************************)
EXTENDS Integers, FiniteSets, Sequences

CONSTANTS
    KeepAlive,                    \* options.keep_alive_interval, in ticks
    MQTT_PING_RETRY_TIMES,        \* pings without an answer before giving up
    MAX_RECONNECT_WAIT_INTERVAL,  \* largest wait between two attempts, ms
    FirstIntervals,               \* values of _get_random_interval, ms
    Latency,                      \* ticks a live server takes to answer
    MaxInbox                      \* bound: packets waiting to be read

ASSUME SessionAssumption ==
    /\ KeepAlive \in Nat
    /\ MQTT_PING_RETRY_TIMES \in Nat
    /\ MAX_RECONNECT_WAIT_INTERVAL \in Nat
    /\ FirstIntervals \subseteq 1..MAX_RECONNECT_WAIT_INTERVAL
    /\ Latency \in Nat
    /\ MaxInbox \in Nat

VARIABLES
    is_connected,         \* the client's connection flag
    auto_connect_enable,  \* option: reconnect by itself
    is_ping_outstanding,  \* pings sent since a packet came in
    ping_timer,           \* ticks left on it
    interval,             \* current_reconnect_wait_interval
    delay_over,           \* reconnect_delay_timer has expired
    ypc,                  \* where yield is: out, loop, read, keepalive
    caller,               \* who called yield: none, app or loop
    rc,                   \* yield's return code so far
    thread_running,       \* the flag that the loop thread polls
    thread_exit_code,     \* what IOT_MQTT_GetLoopStatus reports
    loop,                 \* the loop thread: none, running or quit
    link,                 \* the server is reachable and answers
    waiting,              \* age of the oldest PINGREQ not answered, or -1
    inbox,                \* packets that arrived and are not read yet
    first,                \* history: interval after the last disconnection
    attempts,             \* history: failed attempts since then
    cut                   \* history: the link was down since the last packet

pingVars   == <<is_ping_outstanding, ping_timer>>
retryVars  == <<interval, delay_over, first, attempts>>
threadVars == <<thread_running, thread_exit_code, loop>>
linkVars   == <<link, waiting, inbox, cut>>
vars == <<is_connected, auto_connect_enable, is_ping_outstanding, ping_timer,
          interval, delay_over, ypc, caller, rc, thread_running,
          thread_exit_code, loop, link, waiting, inbox, first, attempts, cut>>

Min(a, b) == IF a < b THEN a ELSE b
\* ACK: PINGRESP, PUBACK, SUBACK or UNSUBACK.  BAD: larger than read_buf, or
\* of a type the client does not know.
PacketTypes == {"ACK", "PUBLISH", "BAD"}
NoPing == -1

\* After a successful IOT_MQTT_Construct.
Init ==
    /\ is_connected = TRUE
    /\ auto_connect_enable \in BOOLEAN
    /\ is_ping_outstanding = 0
    /\ ping_timer = KeepAlive
    /\ interval = 0
    /\ delay_over = TRUE
    /\ ypc = "out"
    /\ caller = "none"
    /\ rc = "SUCCESS"
    /\ thread_running = FALSE
    /\ thread_exit_code = "SUCCESS"
    /\ loop = "none"
    /\ link = TRUE
    /\ waiting = NoPing
    /\ inbox = <<>>
    /\ first = 0
    /\ attempts = 0
    /\ cut = FALSE

----------------------------------------------------------------------------
(* qcloud_iot_mqtt_yield                                                   *)

\* The entry checks.
EnterYield(who) ==
    /\ ypc = "out"
    /\ caller = "none"
    /\ caller' = who
    /\ IF ~is_connected /\ ~auto_connect_enable
         THEN rc' = "NO_CONN" /\ ypc' = "return"
         ELSE rc' = "SUCCESS" /\ ypc' = "loop"

\* The loop head: yield's own timer has run out.
TimeUp ==
    /\ ypc = "loop"
    /\ ypc' = "return"
    /\ UNCHANGED <<is_connected, auto_connect_enable, pingVars, retryVars,
                   caller, rc, threadVars, linkVars>>

\* It has not: a round on the connection, or towards a new one.
LoopHead ==
    /\ ypc = "loop"
    /\ \/ /\ is_connected
          /\ ypc' = "read" /\ UNCHANGED rc
       \/ /\ ~is_connected
          /\ interval > MAX_RECONNECT_WAIT_INTERVAL
          /\ ypc' = "return" /\ rc' = "RECONNECT_TIMEOUT"
       \/ /\ ~is_connected
          /\ interval <= MAX_RECONNECT_WAIT_INTERVAL
          /\ ypc' = "reconnect" /\ UNCHANGED rc
    /\ UNCHANGED <<is_connected, auto_connect_enable, pingVars, retryVars,
                   caller, threadVars, linkVars>>

\* What the loop does with the code of one round.  NO_CONN starts a new
\* series of attempts, or ends yield without auto_connect_enable; any other
\* error ends yield.
Conclude(code) ==
    \/ /\ code = "NO_CONN"
       /\ auto_connect_enable
       /\ \E i \in FirstIntervals : interval' = i /\ first' = i
       /\ attempts' = 0
       /\ delay_over' = FALSE
       /\ rc' = "ATTEMPTING_RECONNECT"
       /\ ypc' = "loop"
    \/ /\ code = "NO_CONN"
       /\ ~auto_connect_enable
       /\ rc' = code
       /\ ypc' = "return"
       /\ UNCHANGED retryVars
    \/ /\ code # "NO_CONN"
       /\ rc' = code
       /\ ypc' = IF code = "SUCCESS" THEN "loop" ELSE "return"
       /\ UNCHANGED retryVars

\* _handle_disconnect: the network is closed whether or not DISCONNECT could
\* be sent.
_handle_disconnect ==
    /\ is_connected' = FALSE
    /\ waiting' = NoPing
    /\ inbox' = <<>>
    /\ UNCHANGED <<pingVars, link, cut>>
    /\ Conclude("NO_CONN")

\* Mutant: a PUBLISH does not count as a sign of life.
PacketSeen_AckOnly(type) ==
    /\ is_ping_outstanding' = IF type = "ACK" THEN 0 ELSE is_ping_outstanding
    /\ ping_timer' = IF type = "ACK" THEN KeepAlive ELSE ping_timer

\* A packet is a sign of life; PUBLISH does not restart ping_timer.
PacketSeen(type) ==
    /\ is_ping_outstanding' = 0
    /\ ping_timer' = IF type = "ACK" THEN KeepAlive ELSE ping_timer

\* cycle_for_read handles a packet.  The handler may fail (a late SUBACK, a
\* PUBACK that cannot be sent), which skips the sweeps and keep-alive.
ReadPacket ==
    /\ ypc = "read"
    /\ inbox # <<>>
    /\ Head(inbox) # "BAD"
    /\ PacketSeen(Head(inbox))
    /\ inbox' = Tail(inbox)
    /\ cut' = ~link
    /\ \/ /\ ypc' = "keepalive"
          /\ UNCHANGED <<rc, retryVars>>
       \/ Conclude("ERR")
    /\ UNCHANGED <<is_connected, auto_connect_enable, caller, threadVars,
                   link, waiting>>

\* A packet that is read and discarded is no sign of life.
DiscardPacket ==
    /\ ypc = "read"
    /\ inbox # <<>>
    /\ Head(inbox) = "BAD"
    /\ inbox' = Tail(inbox)
    /\ Conclude("ERR")
    /\ UNCHANGED <<is_connected, auto_connect_enable, pingVars, caller,
                   threadVars, link, waiting, cut>>

ReadNothing ==
    /\ ypc = "read"
    /\ inbox = <<>>
    /\ ypc' = "keepalive"
    /\ UNCHANGED <<is_connected, auto_connect_enable, pingVars, retryVars,
                   caller, rc, threadVars, linkVars>>

\* The connection breaks under the read.
ReadError ==
    /\ ypc = "read"
    /\ _handle_disconnect
    /\ UNCHANGED <<auto_connect_enable, caller, threadVars>>

\* _mqtt_keep_alive, switched off or not due.
NoPingDue ==
    /\ ypc = "keepalive"
    /\ KeepAlive = 0 \/ ping_timer > 0
    /\ Conclude("SUCCESS")
    /\ UNCHANGED <<is_connected, auto_connect_enable, pingVars, caller,
                   threadVars, linkVars>>

PingDue == ypc = "keepalive" /\ KeepAlive # 0 /\ ping_timer = 0

\* Too many pings without an answer.
PingTimesOut ==
    /\ PingDue
    /\ is_ping_outstanding >= MQTT_PING_RETRY_TIMES
    /\ _handle_disconnect
    /\ UNCHANGED <<auto_connect_enable, caller, threadVars>>

\* Mutant: pings are not counted.
SendPing_Uncounted ==
    /\ PingDue
    /\ is_ping_outstanding < MQTT_PING_RETRY_TIMES
    /\ ping_timer' = Min(5, KeepAlive \div 2)
    /\ waiting' = IF waiting = NoPing THEN 0 ELSE waiting
    /\ Conclude("SUCCESS")
    /\ UNCHANGED <<is_connected, auto_connect_enable, is_ping_outstanding,
                   caller, threadVars, link, inbox, cut>>

SendPing ==
    /\ PingDue
    /\ is_ping_outstanding < MQTT_PING_RETRY_TIMES
    /\ is_ping_outstanding' = is_ping_outstanding + 1
    /\ ping_timer' = Min(5, KeepAlive \div 2)
    /\ waiting' = IF waiting = NoPing THEN 0 ELSE waiting
    /\ Conclude("SUCCESS")
    /\ UNCHANGED <<is_connected, auto_connect_enable, caller, threadVars,
                   link, inbox, cut>>

\* Four sends in a row fail: the connection is given up.
SendPingFails ==
    /\ PingDue
    /\ is_ping_outstanding < MQTT_PING_RETRY_TIMES
    /\ _handle_disconnect
    /\ UNCHANGED <<auto_connect_enable, caller, threadVars>>

----------------------------------------------------------------------------
(* _handle_reconnect                                                       *)

\* The delay between two attempts is not over.
ReconnectTooEarly ==
    /\ ypc = "reconnect"
    /\ ~delay_over
    /\ rc' = "ATTEMPTING_RECONNECT"
    /\ ypc' = "loop"
    /\ UNCHANGED <<is_connected, auto_connect_enable, pingVars, retryVars,
                   caller, threadVars, linkVars>>

\* Mutant: the wait is not doubled.
BackOff_Constant ==
    /\ attempts' = attempts
    /\ rc' = "ATTEMPTING_RECONNECT"
    /\ delay_over' = FALSE
    /\ UNCHANGED <<interval, first>>

\* Mutant: the wait grows by a constant.
BackOff_Linear ==
    /\ interval' = interval + first
    /\ attempts' = attempts + 1
    /\ UNCHANGED first
    /\ IF interval + first > MAX_RECONNECT_WAIT_INTERVAL
         THEN rc' = "RECONNECT_TIMEOUT" /\ UNCHANGED delay_over
         ELSE rc' = "ATTEMPTING_RECONNECT" /\ delay_over' = FALSE

\* An attempt failed: the wait is doubled.
BackOff ==
    /\ interval' = interval * 2
    /\ attempts' = attempts + 1
    /\ UNCHANGED first
    /\ IF interval * 2 > MAX_RECONNECT_WAIT_INTERVAL
         THEN rc' = "RECONNECT_TIMEOUT" /\ UNCHANGED delay_over
         ELSE rc' = "ATTEMPTING_RECONNECT" /\ delay_over' = FALSE

\* _mqtt_connect fails: no network, no CONNACK in time or a refusal.
ConnectFails ==
    /\ ypc = "reconnect"
    /\ delay_over
    /\ BackOff
    /\ ypc' = "loop"
    /\ UNCHANGED <<is_connected, auto_connect_enable, pingVars, caller,
                   threadVars, linkVars>>

\* _mqtt_connect succeeds.  A failing resubscribe counts as a failed attempt
\* although the client is connected.
ConnectSucceeds ==
    /\ ypc = "reconnect"
    /\ delay_over
    /\ link
    /\ is_connected' = TRUE
    /\ is_ping_outstanding' = 0
    /\ ping_timer' = KeepAlive
    /\ waiting' = NoPing
    /\ inbox' = <<>>
    /\ cut' = FALSE
    /\ \/ rc' = "RECONNECTED" /\ UNCHANGED retryVars
       \/ BackOff
    /\ ypc' = "loop"
    /\ UNCHANGED <<auto_connect_enable, caller, threadVars, link>>

----------------------------------------------------------------------------
(* The callers: _mqtt_yield_thread, or the application itself.             *)

\* Return codes after which the loop thread quits.
Fatal == {"RECONNECT_TIMEOUT"}

\* IOT_MQTT_Yield only sleeps while a loop thread is running.
AppYields ==
    /\ ~thread_running
    /\ loop # "running"
    /\ EnterYield("app")
    /\ UNCHANGED <<is_connected, auto_connect_enable, pingVars, retryVars,
                   threadVars, linkVars>>

AppReturns ==
    /\ ypc = "return"
    /\ caller = "app"
    /\ ypc' = "out"
    /\ caller' = "none"
    /\ UNCHANGED <<is_connected, auto_connect_enable, pingVars, retryVars, rc,
                   threadVars, linkVars>>

\* IOT_MQTT_StartLoop sets the flag before the thread exists, and leaves it
\* set when the thread cannot be created.
StartLoop ==
    /\ caller = "none"
    /\ loop # "running"
    /\ thread_running' = TRUE
    /\ loop' \in {"running", "none"}
    /\ UNCHANGED <<is_connected, auto_connect_enable, pingVars, retryVars,
                   thread_exit_code, ypc, caller, rc, linkVars>>

\* IOT_MQTT_SetLoopStatus writes the flag and nothing else; with FALSE it
\* is IOT_MQTT_StopLoop.
SetLoopStatus(loop_status) ==
    /\ thread_running' = loop_status
    /\ UNCHANGED <<is_connected, auto_connect_enable, pingVars, retryVars,
                   ypc, caller, rc, thread_exit_code, loop, linkVars>>

StopLoop == thread_running /\ SetLoopStatus(FALSE)

\* The thread ends.  The rc it stores is not the rc of yield: the loop body
\* declares its own, which hides it.
ThreadEnds ==
    /\ loop' = "quit"
    /\ thread_running' = FALSE
    /\ thread_exit_code' = "SUCCESS"

\* The head of the thread's loop.
LoopYields ==
    /\ loop = "running"
    /\ thread_running
    /\ EnterYield("loop")
    /\ UNCHANGED <<is_connected, auto_connect_enable, pingVars, retryVars,
                   threadVars, linkVars>>

LoopStops ==
    /\ loop = "running"
    /\ ~thread_running
    /\ ypc = "out"
    /\ ThreadEnds
    /\ UNCHANGED <<is_connected, auto_connect_enable, pingVars, retryVars,
                   ypc, caller, rc, linkVars>>

\* yield returned to the thread: it goes on, or clears the flag and ends.
LoopReturns ==
    /\ ypc = "return"
    /\ caller = "loop"
    /\ ypc' = "out"
    /\ caller' = "none"
    /\ IF rc \in Fatal THEN ThreadEnds
                       ELSE UNCHANGED threadVars
    /\ UNCHANGED <<is_connected, auto_connect_enable, pingVars, retryVars, rc,
                   linkVars>>

----------------------------------------------------------------------------
(* Environment: the server, the network, the clock.                        *)

\* A live server has answered a PINGREQ before Latency ticks are over.
Tick ==
    /\ ypc \in {"out", "read"}
    /\ link => waiting < Latency
    /\ ping_timer' = IF ping_timer > 0 THEN ping_timer - 1 ELSE 0
    /\ waiting' = IF waiting \in 0..(Latency - 1) THEN waiting + 1 ELSE waiting
    /\ UNCHANGED <<is_connected, auto_connect_enable, is_ping_outstanding,
                   retryVars, ypc, caller, rc, threadVars, link, inbox, cut>>

DelayExpires ==
    /\ ~delay_over
    /\ delay_over' = TRUE
    /\ UNCHANGED <<is_connected, auto_connect_enable, pingVars, interval,
                   first, attempts, ypc, caller, rc, threadVars, linkVars>>

ServerAnswers ==
    /\ link
    /\ waiting # NoPing
    /\ waiting' = NoPing
    /\ inbox' = Append(inbox, "ACK")
    /\ UNCHANGED <<is_connected, auto_connect_enable, pingVars, retryVars,
                   ypc, caller, rc, threadVars, link, cut>>

ServerSends(type) ==
    /\ link
    /\ is_connected
    /\ Len(inbox) < MaxInbox
    /\ inbox' = Append(inbox, type)
    /\ UNCHANGED <<is_connected, auto_connect_enable, pingVars, retryVars,
                   ypc, caller, rc, threadVars, link, waiting, cut>>

LinkChanges ==
    /\ link' = ~link
    /\ cut' = TRUE
    /\ UNCHANGED <<is_connected, auto_connect_enable, pingVars, retryVars,
                   ypc, caller, rc, threadVars, waiting, inbox>>

----------------------------------------------------------------------------
Yield == \/ TimeUp \/ LoopHead
         \/ ReadPacket \/ DiscardPacket \/ ReadNothing \/ ReadError
         \/ NoPingDue \/ PingTimesOut \/ SendPing \/ SendPingFails
         \/ ReconnectTooEarly \/ ConnectFails \/ ConnectSucceeds

LoopThread == LoopYields \/ LoopStops \/ LoopReturns

Application == \/ AppYields \/ AppReturns
               \/ StartLoop \/ StopLoop \/ SetLoopStatus(TRUE)

Environment ==
    \/ Tick \/ DelayExpires
    \/ ServerAnswers \/ \E type \in PacketTypes : ServerSends(type)
    \/ LinkChanges

Next == Yield \/ LoopThread \/ Application \/ Environment

Spec == Init /\ [][Next]_vars

\* The loop thread and yield keep running, time passes, and yield's timer
\* does not run out at the head of every single round.
Fairness ==
    /\ WF_vars(Yield)
    /\ WF_vars(LoopThread)
    /\ SF_vars(Tick)
    /\ WF_vars(DelayExpires)
    /\ SF_vars(LoopHead)
    /\ SF_vars(ReadPacket /\ ypc' = "keepalive")
    /\ SF_vars(ConnectFails \/ ConnectSucceeds)

FairSpec == Spec /\ Fairness

----------------------------------------------------------------------------
(* Properties.                                                             *)

\* The values of the client's fields; in particular unanswered pings never
\* exceed MQTT_PING_RETRY_TIMES, and a wait is at most twice the maximum.
TypeOK ==
    /\ is_connected \in BOOLEAN
    /\ auto_connect_enable \in BOOLEAN
    /\ is_ping_outstanding \in 0..MQTT_PING_RETRY_TIMES
    /\ ping_timer \in Nat
    /\ interval \in 0..(2 * MAX_RECONNECT_WAIT_INTERVAL)
    /\ delay_over \in BOOLEAN
    /\ ypc \in {"out", "loop", "read", "keepalive", "reconnect", "return"}
    /\ caller \in {"none", "app", "loop"}
    /\ rc \in {"SUCCESS", "NO_CONN", "ATTEMPTING_RECONNECT", "RECONNECTED",
               "RECONNECT_TIMEOUT", "ERR"}
    /\ thread_running \in BOOLEAN
    /\ thread_exit_code \in {"SUCCESS", "RECONNECT_TIMEOUT"}
    /\ loop \in {"none", "running", "quit"}
    /\ link \in BOOLEAN
    /\ waiting \in {NoPing} \cup 0..Latency
    /\ inbox \in Seq(PacketTypes)
    /\ first \in {0} \cup FirstIntervals
    /\ attempts \in Nat
    /\ cut \in BOOLEAN

\* The n-th wait of a series of attempts is 2^n times the first, and yield
\* gives up, with RECONNECT_TIMEOUT, only when the next wait would exceed
\* MAX_RECONNECT_WAIT_INTERVAL; the doubling therefore never overflows.
BackOffDoubles ==
    /\ first # 0 => interval = first * 2^attempts
    /\ rc = "RECONNECT_TIMEOUT" =>
         attempts > 0 /\ first * 2^attempts > MAX_RECONNECT_WAIT_INTERVAL

\* Keep-alive never gives up a connection over which the server answers
\* within Latency, even though a PUBLISH resets the count and not the timer.
NoFalseDisconnect == [][PingTimesOut => cut]_vars

\* A loop thread notices a server that stays silent.
SilenceDetected ==
    is_connected /\ ~link /\ loop = "running" ~>
        ~is_connected \/ link \/ loop # "running"

\* A disconnected loop thread gets the connection back, or ends.
ReconnectsOrEnds ==
    ~is_connected /\ auto_connect_enable /\ loop = "running" ~>
        is_connected \/ loop # "running"
============================================================================
