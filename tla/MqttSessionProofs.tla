------------------------- MODULE MqttSessionProofs -------------------------
(***************************************************************************)
(* Proofs about MqttSession, for any keep-alive interval, number of ping   *)
(* retries, bound on the waits between attempts, and latency.              *)
(***************************************************************************)
EXTENDS MqttSession, TLAPS, SequenceTheorems, FiniteSetTheorems

\* The elements of a sequence.
Elems(s) == {s[i] : i \in DOMAIN s}

Codes == {"SUCCESS", "NO_CONN", "ATTEMPTING_RECONNECT", "RECONNECTED",
          "RECONNECT_TIMEOUT", "ERR"}
Points == {"out", "loop", "read", "keepalive", "reconnect", "return"}

\* The typed part of the state: the Boolean fields, and the others.
FlagsOK ==
    /\ is_connected \in BOOLEAN
    /\ auto_connect_enable \in BOOLEAN
    /\ delay_over \in BOOLEAN
    /\ thread_running \in BOOLEAN
    /\ link \in BOOLEAN
    /\ cut \in BOOLEAN

ThreadsOK ==
    /\ ypc \in Points
    /\ caller \in {"none", "app", "loop"}
    /\ rc \in Codes
    /\ thread_exit_code \in {"SUCCESS", "RECONNECT_TIMEOUT"}
    /\ loop \in {"none", "running", "quit"}

RetryOK ==
    /\ interval \in 0..(2 * MAX_RECONNECT_WAIT_INTERVAL)
    /\ first \in {0} \cup FirstIntervals
    /\ attempts \in Nat

PingOK ==
    /\ is_ping_outstanding \in 0..MQTT_PING_RETRY_TIMES
    /\ ping_timer \in Nat
    /\ waiting \in {NoPing} \cup 0..Latency
    /\ inbox \in Seq(PacketTypes)

\* An attempt is only made after a wait that was not too long, and a series
\* of attempts begins with a wait.
RetryFits ==
    /\ first = 0 => interval = 0
    /\ ypc = "reconnect" => interval <= MAX_RECONNECT_WAIT_INTERVAL
    /\ BackOffDoubles

\* Yield reads and pings on a connection only; a link that was not cut is up.
LinkFits ==
    /\ ypc \in {"read", "keepalive"} => is_connected
    /\ ~cut => link

\* Each ping without an answer stands for PingGap ticks that its PINGREQ, or
\* an earlier one, has been waiting, unless the answer is there to be read.
\* When keep-alive runs it was not: yield had looked.
PingGap == Min(5, KeepAlive \div 2)
Waited == /\ waiting # NoPing
          /\ waiting + ping_timer >= is_ping_outstanding * PingGap
PingsAreOld == is_ping_outstanding >= 1 =>
    /\ Waited \/ "ACK" \in Elems(inbox)
    /\ ypc = "keepalive" =>
         Latency + ping_timer >= is_ping_outstanding * PingGap
PingFits == is_connected /\ ~cut => PingsAreOld

IInv == /\ FlagsOK /\ ThreadsOK /\ RetryOK /\ PingOK
        /\ RetryFits /\ LinkFits /\ PingFits

----------------------------------------------------------------------------
(* Numbers and sequences.                                                  *)

LEMMA Sizes ==
    /\ KeepAlive \in Nat /\ MQTT_PING_RETRY_TIMES \in Nat /\ Latency \in Nat
    /\ MAX_RECONNECT_WAIT_INTERVAL \in Nat /\ NoPing = -1
    /\ \A i \in FirstIntervals : i \in Nat /\ i >= 1 /\ i <= MAX_RECONNECT_WAIT_INTERVAL
    /\ PingGap \in Nat
BY SessionAssumption DEF NoPing, PingGap, Min

\* One more ping stands for PingGap more ticks.
LEMMA GapAdds ==
    ASSUME NEW k \in Nat, NEW g \in Nat
    PROVE  /\ (k + 1) * g = k * g + g /\ k * g \in Nat /\ (k + 1) * g \in Nat
           /\ 1 * g = g
OBVIOUS

\* Doubling: SUBSET (1..n) has 2^n elements, and a set has twice as many
\* subsets as it has without one of its elements.
LEMMA PowerDoubles ==
    ASSUME NEW n \in Nat
    PROVE  2^n \in Nat /\ 2^(n + 1) = 2 * 2^n
<1> DEFINE S == 1..n
           T == 1..(n + 1)
           A == SUBSET S
           B == {x \cup {n + 1} : x \in A}
           f == [x \in A |-> x \cup {n + 1}]
<1>1. IsFiniteSet(S) /\ Cardinality(S) = n /\ IsFiniteSet(T) /\ Cardinality(T) = n + 1
  BY FS_Interval
<1>2. /\ IsFiniteSet(A) /\ Cardinality(A) = 2^n
      /\ IsFiniteSet(SUBSET T) /\ Cardinality(SUBSET T) = 2^(n + 1)
  BY <1>1, FS_SUBSET
<1>3. f \in Bijection(A, B)
  <2>1. n + 1 \notin S
    OBVIOUS
  <2>2. \A x, y \in A : f[x] = f[y] => x = y
    BY <2>1
  <2>3. f \in [A -> B] /\ \A y \in B : \E x \in A : f[x] = y
    OBVIOUS
  <2> QED BY <2>2, <2>3 DEF Bijection, Injection, Surjection, IsInjective
<1>4. IsFiniteSet(B) /\ Cardinality(B) = 2^n
  BY <1>2, <1>3, FS_Bijection DEF ExistsBijection
<1>5. SUBSET T = A \cup B /\ A \cap B = {}
  <2>1. T = S \cup {n + 1} /\ n + 1 \notin S
    OBVIOUS
  <2> HIDE DEF S, T
  <2>2. ASSUME NEW x \in SUBSET T PROVE x \in A \cup B
    <3>1. CASE n + 1 \in x
      <4>1. x \ {n + 1} \in A /\ x = (x \ {n + 1}) \cup {n + 1}
        BY <2>1, <3>1
      <4> QED BY <4>1
    <3>2. CASE n + 1 \notin x
      BY <2>1, <3>2
    <3> QED BY <3>1, <3>2
  <2>3. \A x \in A : x \in SUBSET T /\ n + 1 \notin x
    BY <2>1
  <2>4. \A x \in B : x \in SUBSET T /\ n + 1 \in x
    BY <2>1
  <2> HIDE DEF A, B
  <2>5. A \cap B = {}
    BY <2>3, <2>4
  <2>6. SUBSET T = A \cup B
    BY <2>2, <2>3, <2>4, Zenon
  <2> QED BY <2>5, <2>6
<1> HIDE DEF A, B, T
<1>6. Cardinality(A \cup B) = Cardinality(A) + Cardinality(B) - Cardinality(A \cap B)
  BY <1>2, <1>4, FS_Union
<1>7. Cardinality(A \cap B) = 0
  BY <1>5, FS_EmptySet
<1>8. Cardinality(A) \in Nat
  BY <1>2, FS_CardinalityType
<1>9. Cardinality(A \cup B) = 2^(n + 1)
  BY <1>2, <1>5, Zenon
<1>10. Cardinality(A) = 2^n /\ Cardinality(B) = Cardinality(A)
  BY <1>2, <1>4, Zenon
<1> QED BY <1>6, <1>7, <1>8, <1>9, <1>10

LEMMA PowerZero == 2^0 = 1
BY SMT

LEMMA TakePacket ==
    ASSUME NEW s \in Seq(PacketTypes), s # << >>
    PROVE  Tail(s) \in Seq(PacketTypes) /\ Head(s) \in PacketTypes
OBVIOUS

\* A packet that is not the first one stays.
LEMMA TakeOther ==
    ASSUME NEW s \in Seq(PacketTypes), s # << >>, NEW x \in Elems(s), x # Head(s)
    PROVE  x \in Elems(Tail(s))
<1>1. /\ Head(s) = s[1] /\ Tail(s) \in Seq(PacketTypes) /\ Len(s) \in Nat
      /\ Len(Tail(s)) = Len(s) - 1
      /\ \A i \in 1..Len(Tail(s)) : Tail(s)[i] = s[i + 1]
  BY HeadTailProperties, LenProperties
<1>2. DOMAIN s = 1..Len(s) /\ DOMAIN Tail(s) = 1..(Len(s) - 1)
  BY <1>1, LenProperties
<1>3. PICK j \in 1..Len(s) : x = s[j]
  BY <1>2 DEF Elems
<1>4. j - 1 \in 1..(Len(s) - 1) /\ Tail(s)[j - 1] = s[j]
  BY <1>1, <1>3
<1> QED BY <1>2, <1>3, <1>4 DEF Elems

LEMMA AddPacket ==
    ASSUME NEW s \in Seq(PacketTypes), NEW x \in PacketTypes
    PROVE  Append(s, x) \in Seq(PacketTypes) /\ Elems(Append(s, x)) = Elems(s) \cup {x}
<1>1. /\ Append(s, x) \in Seq(PacketTypes) /\ Len(Append(s, x)) = Len(s) + 1
      /\ Len(s) \in Nat
      /\ \A i \in 1..Len(s) : Append(s, x)[i] = s[i]
      /\ Append(s, x)[Len(s) + 1] = x
  BY AppendProperties, LenProperties
<1>2. DOMAIN s = 1..Len(s) /\ DOMAIN Append(s, x) = 1..(Len(s) + 1)
  BY <1>1, LenProperties
<1> QED BY <1>1, <1>2 DEF Elems

LEMMA NothingSent == << >> \in Seq(PacketTypes) /\ Elems(<< >>) = {}
BY DEF Elems

----------------------------------------------------------------------------
(* The invariant holds initially.                                          *)

LEMMA InitIInv == Init => IInv
<1> SUFFICES ASSUME Init PROVE IInv
  OBVIOUS
<1>1. FlagsOK
  BY Zenon DEF Init, FlagsOK
<1>2. /\ ypc = "out" /\ caller = "none" /\ rc = "SUCCESS" /\ thread_exit_code = "SUCCESS"
      /\ loop = "none" /\ interval = 0 /\ first = 0 /\ attempts = 0
      /\ is_ping_outstanding = 0 /\ ping_timer = KeepAlive /\ waiting = NoPing
      /\ inbox = << >>
  BY DEF Init
<1>3. ThreadsOK /\ RetryOK
  BY <1>2, Sizes DEF ThreadsOK, RetryOK, Points, Codes
<1>4. PingOK
  BY <1>2, Sizes, NothingSent DEF PingOK
<1>5. RetryFits
  BY <1>2 DEF RetryFits, BackOffDoubles
<1>6. LinkFits
  <2>1. link = TRUE
    BY DEF Init
  <2>2. ypc \notin {"read", "keepalive"}
    BY <1>2
  <2> QED BY <2>1, <2>2, Zenon DEF LinkFits
<1>7. PingFits
  <2>1. PingsAreOld
    BY <1>2 DEF PingsAreOld
  <2> QED BY <2>1, Zenon DEF PingFits
<1> QED BY <1>1, <1>3, <1>4, <1>5, <1>6, <1>7 DEF IInv

----------------------------------------------------------------------------
(* Steps that leave the connection, its pings and the waits alone.         *)

LEMMA QuietStep ==
    ASSUME IInv, FlagsOK', ThreadsOK',
           UNCHANGED <<is_connected, pingVars, interval, first, attempts, linkVars>>,
           ypc' = ypc \/ ypc' # "keepalive",
           ypc' = ypc \/ (ypc' = "read" => is_connected),
           ypc' = ypc \/ (ypc' = "reconnect" => interval <= MAX_RECONNECT_WAIT_INTERVAL),
           \/ rc' = rc
           \/ rc' # "RECONNECT_TIMEOUT"
           \/ interval > MAX_RECONNECT_WAIT_INTERVAL
    PROVE  IInv'
<1>1. /\ UNCHANGED <<is_ping_outstanding, ping_timer, interval, first, attempts>>
      /\ UNCHANGED <<waiting, inbox>>
  BY DEF pingVars, linkVars
<1>2. RetryOK' /\ PingOK'
  BY <1>1 DEF IInv, RetryOK, PingOK
<1>3. RetryFits'
  <2>1. CASE interval > MAX_RECONNECT_WAIT_INTERVAL
    <3>1. first # 0 /\ first \in Nat /\ first <= MAX_RECONNECT_WAIT_INTERVAL
      BY <2>1, Sizes DEF IInv, RetryFits, RetryOK
    <3>2. interval = first * 2^attempts
      BY <3>1 DEF IInv, RetryFits, BackOffDoubles
    <3>3. attempts > 0
      <4> SUFFICES ASSUME attempts = 0 PROVE FALSE
        BY DEF IInv, RetryOK
      <4>1. 2^attempts = 1
        BY PowerZero
      <4> QED BY <2>1, <3>1, <3>2, <4>1, Sizes
    <3> QED BY <1>1, <2>1, <3>1, <3>2, <3>3 DEF IInv, RetryFits, BackOffDoubles
  <2>2. CASE rc' = rc \/ rc' # "RECONNECT_TIMEOUT"
    BY <1>1, <2>2 DEF IInv, RetryFits, BackOffDoubles
  <2> QED BY <2>1, <2>2
<1>4. LinkFits'
  BY Zenon DEF IInv, LinkFits, linkVars
<1>5. PingFits'
  <2>1. PingsAreOld => PingsAreOld'
    BY <1>1 DEF PingsAreOld, Waited
  <2> QED BY <2>1, Zenon DEF IInv, PingFits, linkVars
<1> QED BY <1>2, <1>3, <1>4, <1>5 DEF IInv

LEMMA TimeUpIInv == IInv /\ TimeUp => IInv'
<1> SUFFICES ASSUME IInv, TimeUp PROVE IInv'
  OBVIOUS
<1>1. /\ ypc' = "return"
      /\ UNCHANGED <<caller, rc, thread_exit_code, loop, interval, first, attempts>>
  BY DEF TimeUp, threadVars, retryVars
<1>2. FlagsOK'
  BY Zenon DEF IInv, FlagsOK, TimeUp, retryVars, threadVars, linkVars
<1>3. ThreadsOK'
  BY <1>1 DEF IInv, ThreadsOK, Points
<1> QED BY <1>1, <1>2, <1>3, QuietStep DEF TimeUp

LEMMA LoopHeadIInv == IInv /\ LoopHead => IInv'
<1> SUFFICES ASSUME IInv, LoopHead PROVE IInv'
  OBVIOUS
<1>1. UNCHANGED <<caller, thread_exit_code, loop, interval, first, attempts>>
  BY DEF LoopHead, threadVars, retryVars
<1>2. FlagsOK'
  BY Zenon DEF IInv, FlagsOK, LoopHead, retryVars, threadVars, linkVars
<1>3. \/ ypc' = "read" /\ rc' = rc /\ is_connected
      \/ /\ ypc' = "return" /\ rc' = "RECONNECT_TIMEOUT"
         /\ interval > MAX_RECONNECT_WAIT_INTERVAL
      \/ ypc' = "reconnect" /\ rc' = rc /\ interval <= MAX_RECONNECT_WAIT_INTERVAL
  BY Zenon DEF LoopHead
<1>4. ThreadsOK'
  <2>1. ypc' \in {"read", "return", "reconnect"} /\ rc' \in {rc, "RECONNECT_TIMEOUT"}
    BY <1>3, Zenon
  <2> QED BY <1>1, <2>1 DEF IInv, ThreadsOK, Points, Codes
<1> QED BY <1>1, <1>2, <1>3, <1>4, QuietStep DEF LoopHead

LEMMA TooEarlyIInv == IInv /\ ReconnectTooEarly => IInv'
<1> SUFFICES ASSUME IInv, ReconnectTooEarly PROVE IInv'
  OBVIOUS
<1>1. /\ ypc' = "loop" /\ rc' = "ATTEMPTING_RECONNECT"
      /\ UNCHANGED <<caller, thread_exit_code, loop, interval, first, attempts>>
  BY DEF ReconnectTooEarly, threadVars, retryVars
<1>2. FlagsOK'
  BY Zenon DEF IInv, FlagsOK, ReconnectTooEarly, retryVars, threadVars, linkVars
<1>3. ThreadsOK'
  BY <1>1 DEF IInv, ThreadsOK, Points, Codes
<1> QED BY <1>1, <1>2, <1>3, QuietStep DEF ReconnectTooEarly

\* The entry of yield, for either caller.
LEMMA EnterStep ==
    ASSUME IInv, NEW who \in {"app", "loop"}, EnterYield(who),
           UNCHANGED <<is_connected, auto_connect_enable, pingVars, retryVars,
                       threadVars, linkVars>>
    PROVE  IInv'
<1>1. /\ ypc' \in {"return", "loop"} /\ rc' \in {"NO_CONN", "SUCCESS"} /\ caller' = who
  BY Zenon DEF EnterYield
<1>2. UNCHANGED <<thread_exit_code, loop, interval, first, attempts>>
  BY DEF threadVars, retryVars
<1>3. FlagsOK'
  BY Zenon DEF IInv, FlagsOK, retryVars, threadVars, linkVars
<1>4. ThreadsOK'
  BY <1>1, <1>2 DEF IInv, ThreadsOK, Points, Codes
<1>5. rc' # "RECONNECT_TIMEOUT" /\ ypc' \notin {"keepalive", "read", "reconnect"}
  BY <1>1
<1> QED BY <1>2, <1>3, <1>4, <1>5, QuietStep

LEMMA YieldsIInv == IInv /\ (AppYields \/ LoopYields) => IInv'
BY EnterStep DEF AppYields, LoopYields

\* The callers after yield, and around it.
LEMMA CallerIInv ==
    ASSUME IInv,
           AppReturns \/ StartLoop \/ StopLoop \/ SetLoopStatus(TRUE)
             \/ LoopStops \/ LoopReturns
    PROVE  IInv'
<1>1. UNCHANGED <<is_connected, auto_connect_enable, pingVars, retryVars, rc, linkVars>>
  BY Zenon DEF AppReturns, StartLoop, StopLoop, SetLoopStatus, LoopStops, LoopReturns
<1>2. /\ ypc' \in {ypc, "out"} /\ caller' \in {caller, "none"}
      /\ loop' \in {loop, "running", "none", "quit"}
      /\ thread_exit_code' \in {thread_exit_code, "SUCCESS"}
  BY Zenon DEF AppReturns, StartLoop, StopLoop, SetLoopStatus, LoopStops, LoopReturns,
               ThreadEnds, threadVars
<1>3. thread_running' \in BOOLEAN
  BY Zenon DEF IInv, FlagsOK, AppReturns, StartLoop, StopLoop, SetLoopStatus, LoopStops,
               LoopReturns, ThreadEnds, threadVars
<1>4. FlagsOK'
  BY <1>1, <1>3, Zenon DEF IInv, FlagsOK, retryVars, linkVars
<1>5. UNCHANGED <<rc, interval, first, attempts>>
  BY <1>1 DEF retryVars
<1>6. ThreadsOK'
  BY <1>2, <1>5 DEF IInv, ThreadsOK, Points
<1>7. ypc' = ypc \/ ypc' \notin {"keepalive", "read", "reconnect"}
  BY <1>2
<1> QED BY <1>1, <1>4, <1>5, <1>6, <1>7, QuietStep

LEMMA DelayIInv == IInv /\ DelayExpires => IInv'
<1> SUFFICES ASSUME IInv, DelayExpires PROVE IInv'
  OBVIOUS
<1>1. UNCHANGED <<ypc, rc, caller, thread_exit_code, loop, interval, first, attempts>>
  BY DEF DelayExpires, threadVars
<1>2. FlagsOK'
  BY Zenon DEF IInv, FlagsOK, DelayExpires, threadVars, linkVars
<1>3. ThreadsOK'
  BY <1>1 DEF IInv, ThreadsOK
<1> QED BY <1>1, <1>2, <1>3, QuietStep DEF DelayExpires

\* A step of the application or of the clock that changes nothing else.
LEMMA StutterIInv == IInv /\ UNCHANGED vars => IInv'
<1> SUFFICES ASSUME IInv, UNCHANGED vars PROVE IInv'
  OBVIOUS
<1>1. UNCHANGED <<ypc, rc, caller, thread_exit_code, loop, interval, first, attempts>>
  BY DEF vars
<1>2. FlagsOK'
  BY Zenon DEF IInv, FlagsOK, vars
<1>3. ThreadsOK'
  BY <1>1 DEF IInv, ThreadsOK
<1>4. UNCHANGED <<is_connected, pingVars, interval, first, attempts, linkVars>>
  BY Zenon DEF vars, pingVars, linkVars
<1> QED BY <1>1, <1>2, <1>3, <1>4, QuietStep

----------------------------------------------------------------------------
(* Steps of a round on the connection.                                     *)

\* The waits are left alone.
LEMMA RetryKept ==
    ASSUME IInv, UNCHANGED <<interval, first, attempts>>,
           rc' = rc \/ rc' # "RECONNECT_TIMEOUT",
           ypc' = ypc \/ ypc' # "reconnect"
    PROVE  RetryOK' /\ RetryFits'
BY DEF IInv, RetryOK, RetryFits, BackOffDoubles

\* How a round ends: a new series of attempts starts with a wait that was
\* not doubled yet.
LEMMA ConcludeStep ==
    ASSUME IInv, NEW code \in {"SUCCESS", "ERR", "NO_CONN"}, Conclude(code)
    PROVE  /\ ypc' \in {"loop", "return"}
           /\ rc' \in {"SUCCESS", "ERR", "NO_CONN", "ATTEMPTING_RECONNECT"}
           /\ delay_over' \in BOOLEAN /\ RetryOK' /\ RetryFits'
<1>1. CASE UNCHANGED retryVars /\ rc' = code /\ ypc' \in {"loop", "return"}
  <2>1. UNCHANGED <<interval, first, attempts>>
    BY <1>1 DEF retryVars
  <2>2. delay_over' \in BOOLEAN
    BY <1>1, Zenon DEF IInv, FlagsOK, retryVars
  <2>3. rc' # "RECONNECT_TIMEOUT" /\ ypc' # "reconnect"
    BY <1>1
  <2> QED BY <1>1, <2>1, <2>2, <2>3, RetryKept
<1>2. CASE /\ \E i \in FirstIntervals : interval' = i /\ first' = i
           /\ attempts' = 0 /\ delay_over' = FALSE
           /\ rc' = "ATTEMPTING_RECONNECT" /\ ypc' = "loop"
  <2>1. PICK i \in FirstIntervals : interval' = i /\ first' = i
    BY <1>2
  <2>2. i \in Nat /\ i >= 1 /\ i <= MAX_RECONNECT_WAIT_INTERVAL /\ i * 1 = i
    BY Sizes
  <2>3. attempts' = 0 /\ rc' = "ATTEMPTING_RECONNECT" /\ ypc' = "loop"
    BY <1>2
  <2>4. RetryOK'
    BY <2>1, <2>2, <2>3, Sizes DEF RetryOK
  <2>5. BackOffDoubles'
    <3>1. 2^(attempts') = 1
      BY <2>3, PowerZero
    <3> QED BY <2>1, <2>2, <2>3, <3>1 DEF BackOffDoubles
  <2>6. RetryFits'
    BY <2>1, <2>2, <2>3, <2>5 DEF RetryFits
  <2> QED BY <1>2, <2>4, <2>6
<1> QED BY <1>1, <1>2, Zenon DEF Conclude

\* The pings of a round that goes on with the connection.
LEMMA RoundStep ==
    ASSUME IInv, PingOK', RetryOK', RetryFits', delay_over' \in BOOLEAN, cut' \in BOOLEAN,
           UNCHANGED <<is_connected, auto_connect_enable, caller, threadVars, link>>,
           ypc \in {"read", "keepalive"},
           ypc' \in {"keepalive", "loop", "return"}, rc' \in Codes,
           ~cut' => link, PingFits'
    PROVE  IInv'
<1>1. FlagsOK'
  BY Zenon DEF IInv, FlagsOK, threadVars
<1>2. ThreadsOK'
  <2>1. UNCHANGED <<caller, thread_exit_code, loop>>
    BY DEF threadVars
  <2> QED BY <2>1 DEF IInv, ThreadsOK, Points
<1>3. LinkFits'
  BY Zenon DEF IInv, LinkFits
<1> QED BY <1>1, <1>2, <1>3 DEF IInv

LEMMA ReadPacketIInv == IInv /\ ReadPacket => IInv'
<1> SUFFICES ASSUME IInv, ReadPacket PROVE IInv'
  OBVIOUS
<1>1. /\ ypc = "read" /\ inbox # << >> /\ inbox' = Tail(inbox) /\ is_ping_outstanding' = 0
      /\ ping_timer' \in {KeepAlive, ping_timer} /\ waiting' = waiting
  BY DEF ReadPacket, PacketSeen
<1>2. PingOK'
  BY <1>1, TakePacket, Sizes DEF IInv, PingOK
<1>3. PingFits'
  <2>1. PingsAreOld'
    BY <1>1 DEF PingsAreOld
  <2> QED BY <2>1, Zenon DEF PingFits
<1>4. cut' \in BOOLEAN /\ (~cut' => link)
  BY Zenon DEF IInv, FlagsOK, ReadPacket
<1>5. UNCHANGED <<is_connected, auto_connect_enable, caller, threadVars, link>>
  BY DEF ReadPacket
<1>6. CASE ypc' = "keepalive" /\ UNCHANGED <<rc, retryVars>>
  <2>1. UNCHANGED <<rc, interval, first, attempts>>
    BY <1>6 DEF retryVars
  <2>2. delay_over' \in BOOLEAN
    BY <1>6, Zenon DEF IInv, FlagsOK, retryVars
  <2>3. RetryOK' /\ RetryFits'
    BY <1>6, <2>1, RetryKept
  <2>4. rc' \in Codes
    BY <2>1 DEF IInv, ThreadsOK
  <2> QED BY <1>1, <1>2, <1>3, <1>4, <1>5, <1>6, <2>2, <2>3, <2>4, RoundStep
<1>7. CASE Conclude("ERR")
  <2>1. /\ ypc' \in {"loop", "return"}
        /\ rc' \in {"SUCCESS", "ERR", "NO_CONN", "ATTEMPTING_RECONNECT"}
        /\ delay_over' \in BOOLEAN /\ RetryOK' /\ RetryFits'
    BY <1>7, ConcludeStep
  <2>2. rc' \in Codes
    BY <2>1 DEF Codes
  <2> QED BY <1>1, <1>2, <1>3, <1>4, <1>5, <2>1, <2>2, RoundStep
<1> QED BY <1>6, <1>7 DEF ReadPacket

LEMMA DiscardPacketIInv == IInv /\ DiscardPacket => IInv'
<1> SUFFICES ASSUME IInv, DiscardPacket PROVE IInv'
  OBVIOUS
<1>1. /\ ypc = "read" /\ inbox # << >> /\ Head(inbox) = "BAD" /\ inbox' = Tail(inbox)
      /\ UNCHANGED <<is_ping_outstanding, ping_timer, waiting>>
  BY DEF DiscardPacket, pingVars
<1>2. PingOK'
  BY <1>1, TakePacket DEF IInv, PingOK
<1>3. /\ ypc' \in {"loop", "return"}
      /\ rc' \in {"SUCCESS", "ERR", "NO_CONN", "ATTEMPTING_RECONNECT"}
      /\ delay_over' \in BOOLEAN /\ RetryOK' /\ RetryFits'
  BY ConcludeStep DEF DiscardPacket
<1>4. UNCHANGED <<is_connected, auto_connect_enable, caller, threadVars, link, cut>>
  BY DEF DiscardPacket
<1>5. PingFits'
  <2>1. "ACK" \in Elems(inbox) => "ACK" \in Elems(Tail(inbox))
    BY <1>1, TakeOther DEF IInv, PingOK
  <2>2. PingsAreOld => PingsAreOld'
    BY <1>1, <1>3, <2>1 DEF PingsAreOld, Waited
  <2> QED BY <1>4, <2>2, Zenon DEF IInv, PingFits
<1>6. cut' \in BOOLEAN /\ (~cut' => link)
  BY <1>4, Zenon DEF IInv, FlagsOK, LinkFits
<1>7. rc' \in Codes
  BY <1>3 DEF Codes
<1> QED BY <1>1, <1>2, <1>3, <1>4, <1>5, <1>6, <1>7, RoundStep

LEMMA ReadNothingIInv == IInv /\ ReadNothing => IInv'
<1> SUFFICES ASSUME IInv, ReadNothing PROVE IInv'
  OBVIOUS
<1>1. /\ ypc = "read" /\ inbox = << >> /\ ypc' = "keepalive"
      /\ UNCHANGED <<is_ping_outstanding, ping_timer, waiting, inbox, rc>>
      /\ UNCHANGED <<interval, first, attempts>>
  BY DEF ReadNothing, pingVars, linkVars, retryVars
<1>2. PingOK'
  BY <1>1 DEF IInv, PingOK
<1>3. RetryOK' /\ RetryFits'
  BY <1>1, RetryKept
<1>4. /\ UNCHANGED <<is_connected, auto_connect_enable, caller, threadVars, link, cut>>
      /\ UNCHANGED delay_over
  BY DEF ReadNothing, retryVars, linkVars
<1>5. PingFits'
  <2>1. "ACK" \notin Elems(inbox)
    BY <1>1, NothingSent
  <2>2. waiting # NoPing => waiting <= Latency /\ waiting \in Nat
    BY Sizes DEF IInv, PingOK
  <2>3. /\ is_ping_outstanding * PingGap \in Nat /\ ping_timer \in Nat
        /\ waiting' = waiting /\ Latency \in Nat
    BY <1>1, Sizes DEF IInv, PingOK
  <2>4. PingsAreOld => PingsAreOld'
    <3> SUFFICES ASSUME PingsAreOld, is_ping_outstanding >= 1
                 PROVE  Waited' /\ Latency + ping_timer >= is_ping_outstanding * PingGap
      BY <1>1 DEF PingsAreOld
    <3>1. Waited
      BY <2>1 DEF PingsAreOld
    <3>2. waiting # NoPing /\ waiting + ping_timer >= is_ping_outstanding * PingGap
      BY <3>1 DEF Waited
    <3> DEFINE p == is_ping_outstanding * PingGap
    <3>3. p \in Nat /\ waiting + ping_timer >= p
      BY <2>3, <3>2
    <3> HIDE DEF p
    <3>4. Latency + ping_timer >= p
      BY <2>2, <2>3, <3>2, <3>3
    <3>5. Waited'
      BY <1>1, <3>1 DEF Waited
    <3> QED BY <3>4, <3>5 DEF p
  <2> QED BY <1>4, <2>4, Zenon DEF IInv, PingFits
<1>6. cut' \in BOOLEAN /\ (~cut' => link) /\ delay_over' \in BOOLEAN
  BY <1>4, Zenon DEF IInv, FlagsOK, LinkFits
<1>7. rc' \in Codes
  BY <1>1 DEF IInv, ThreadsOK
<1> QED BY <1>1, <1>2, <1>3, <1>4, <1>5, <1>6, <1>7, RoundStep

LEMMA NoPingDueIInv == IInv /\ NoPingDue => IInv'
<1> SUFFICES ASSUME IInv, NoPingDue PROVE IInv'
  OBVIOUS
<1>1. /\ ypc = "keepalive"
      /\ UNCHANGED <<is_ping_outstanding, ping_timer, waiting, inbox>>
  BY DEF NoPingDue, pingVars, linkVars
<1>2. PingOK'
  BY <1>1 DEF IInv, PingOK
<1>3. /\ ypc' \in {"loop", "return"}
      /\ rc' \in {"SUCCESS", "ERR", "NO_CONN", "ATTEMPTING_RECONNECT"}
      /\ delay_over' \in BOOLEAN /\ RetryOK' /\ RetryFits'
  BY ConcludeStep DEF NoPingDue
<1>4. UNCHANGED <<is_connected, auto_connect_enable, caller, threadVars, link, cut>>
  BY DEF NoPingDue, linkVars
<1>5. PingFits'
  <2>1. PingsAreOld => PingsAreOld'
    BY <1>1, <1>3 DEF PingsAreOld, Waited
  <2> QED BY <1>4, <2>1, Zenon DEF IInv, PingFits
<1>6. cut' \in BOOLEAN /\ (~cut' => link)
  BY <1>4, Zenon DEF IInv, FlagsOK, LinkFits
<1>7. rc' \in Codes
  BY <1>3 DEF Codes
<1> QED BY <1>1, <1>2, <1>3, <1>4, <1>5, <1>6, <1>7, RoundStep

\* A ping is sent when the timer of the one before has run out: all of the
\* earlier pings' ticks have passed, and the new one's lie in ping_timer.
LEMMA SendPingIInv == IInv /\ SendPing => IInv'
<1> SUFFICES ASSUME IInv, SendPing PROVE IInv'
  OBVIOUS
<1>1. /\ ypc = "keepalive" /\ ping_timer = 0 /\ is_ping_outstanding < MQTT_PING_RETRY_TIMES
      /\ is_ping_outstanding' = is_ping_outstanding + 1 /\ ping_timer' = PingGap
      /\ waiting' = IF waiting = NoPing THEN 0 ELSE waiting
      /\ inbox' = inbox
  BY DEF SendPing, PingDue, PingGap
<1>2. PingOK'
  <2>1. is_ping_outstanding' \in 0..MQTT_PING_RETRY_TIMES
    BY <1>1, Sizes DEF IInv, PingOK
  <2>2. ping_timer' \in Nat /\ inbox' \in Seq(PacketTypes)
    BY <1>1, Sizes DEF IInv, PingOK
  <2>3. waiting' \in {NoPing} \cup 0..Latency
    BY <1>1, Sizes DEF IInv, PingOK
  <2> QED BY <2>1, <2>2, <2>3 DEF PingOK
<1>3. /\ ypc' \in {"loop", "return"}
      /\ rc' \in {"SUCCESS", "ERR", "NO_CONN", "ATTEMPTING_RECONNECT"}
      /\ delay_over' \in BOOLEAN /\ RetryOK' /\ RetryFits'
  BY ConcludeStep DEF SendPing
<1>4. UNCHANGED <<is_connected, auto_connect_enable, caller, threadVars, link, cut>>
  BY DEF SendPing
<1>5. PingFits'
  <2>1. PingsAreOld => PingsAreOld'
    <3> SUFFICES ASSUME PingsAreOld, ~("ACK" \in Elems(inbox)) PROVE Waited'
      BY <1>1, <1>3 DEF PingsAreOld
    <3>1. is_ping_outstanding \in Nat /\ PingGap \in Nat
      BY Sizes DEF IInv, PingOK
    <3> DEFINE p == is_ping_outstanding * PingGap
    <3>2. p \in Nat /\ is_ping_outstanding' * PingGap = p + PingGap
      BY <1>1, <3>1, GapAdds
    <3>3. is_ping_outstanding = 0 => p = 0
      BY <3>1
    <3>4. is_ping_outstanding >= 1 => waiting # NoPing /\ waiting + 0 >= p
      BY <1>1 DEF PingsAreOld, Waited
    <3> HIDE DEF p
    <3>5. waiting = NoPing \/ waiting \in Nat
      BY Sizes DEF IInv, PingOK
    <3>6. waiting' # NoPing /\ waiting' + PingGap >= p + PingGap
      BY <1>1, <3>1, <3>2, <3>3, <3>4, <3>5, Sizes
    <3>7. PingGap' = PingGap
      BY DEF PingGap
    <3> QED BY <1>1, <3>2, <3>6, <3>7 DEF Waited
  <2> QED BY <1>4, <2>1, Zenon DEF IInv, PingFits
<1>6. cut' \in BOOLEAN /\ (~cut' => link)
  BY <1>4, Zenon DEF IInv, FlagsOK, LinkFits
<1>7. rc' \in Codes
  BY <1>3 DEF Codes
<1> QED BY <1>1, <1>2, <1>3, <1>4, <1>5, <1>6, <1>7, RoundStep

----------------------------------------------------------------------------
(* The connection is given up, and attempts to get it back.                *)

LEMMA DisconnectIInv ==
    ASSUME IInv, ReadError \/ PingTimesOut \/ SendPingFails
    PROVE  IInv'
<1>1. _handle_disconnect /\ UNCHANGED <<auto_connect_enable, caller, threadVars>>
  BY Zenon DEF ReadError, PingTimesOut, SendPingFails
<1>2. /\ UNCHANGED <<is_ping_outstanding, ping_timer>> /\ waiting' = NoPing /\ inbox' = << >>
      /\ UNCHANGED <<caller, thread_exit_code, loop>>
  BY <1>1 DEF _handle_disconnect, pingVars, threadVars
<1>3. /\ ypc' \in {"loop", "return"}
      /\ rc' \in {"SUCCESS", "ERR", "NO_CONN", "ATTEMPTING_RECONNECT"}
      /\ delay_over' \in BOOLEAN /\ RetryOK' /\ RetryFits'
  BY <1>1, ConcludeStep DEF _handle_disconnect
<1>4. PingOK'
  BY <1>2, NothingSent DEF IInv, PingOK
<1>5. ThreadsOK'
  BY <1>2, <1>3 DEF IInv, ThreadsOK, Points, Codes
<1>6. FlagsOK'
  BY <1>1, <1>3, Zenon DEF IInv, FlagsOK, _handle_disconnect, threadVars
<1>7. LinkFits' /\ PingFits'
  <2>1. is_connected' = FALSE /\ UNCHANGED <<link, cut>>
    BY <1>1 DEF _handle_disconnect
  <2>2. ypc' \notin {"read", "keepalive"}
    BY <1>3
  <2> QED BY <2>1, <2>2, Zenon DEF IInv, LinkFits, PingFits
<1> QED BY <1>3, <1>4, <1>5, <1>6, <1>7 DEF IInv

\* A failed attempt doubles a wait that was not too long.
LEMMA BackOffStep ==
    ASSUME IInv, ypc = "reconnect", ypc' = "loop", BackOff
    PROVE  /\ rc' \in Codes /\ RetryOK' /\ RetryFits' /\ delay_over' \in BOOLEAN
<1>1. /\ interval' = interval * 2 /\ attempts' = attempts + 1 /\ first' = first
  BY DEF BackOff
<1>2. /\ rc' \in {"RECONNECT_TIMEOUT", "ATTEMPTING_RECONNECT"}
      /\ rc' = "RECONNECT_TIMEOUT" => interval * 2 > MAX_RECONNECT_WAIT_INTERVAL
  BY Zenon DEF BackOff
<1>3. delay_over' \in BOOLEAN
  BY Zenon DEF BackOff, IInv, FlagsOK
<1>4. /\ interval \in Nat /\ interval <= MAX_RECONNECT_WAIT_INTERVAL
      /\ attempts \in Nat /\ (first = 0 \/ first \in Nat)
      /\ first = 0 => interval = 0
      /\ first # 0 => interval = first * 2^attempts
  BY Sizes DEF IInv, RetryOK, RetryFits, BackOffDoubles
<1>5. RetryOK'
  <2>1. interval * 2 \in 0..(2 * MAX_RECONNECT_WAIT_INTERVAL)
    BY <1>4, Sizes
  <2> QED BY <1>1, <1>4, <2>1 DEF IInv, RetryOK
<1>6. first # 0 => interval' = first * 2^(attempts + 1)
  <2>1. 2^attempts \in Nat /\ 2^(attempts + 1) = 2 * 2^attempts
    BY <1>4, PowerDoubles
  <2> DEFINE x == 2^attempts
             y == 2^(attempts + 1)
  <2>2. x \in Nat /\ y = 2 * x /\ (first # 0 => interval = first * x)
    BY <1>4, <2>1
  <2> HIDE DEF x, y
  <2>3. first # 0 => interval * 2 = first * y
    BY <1>4, <2>2
  <2> QED BY <1>1, <2>3 DEF y
<1>7. first' = 0 => interval' = 0
  BY <1>1, <1>4
<1>8. rc' = "RECONNECT_TIMEOUT" => interval' > MAX_RECONNECT_WAIT_INTERVAL /\ first # 0
  BY <1>1, <1>2, <1>4, Sizes
<1>9. attempts + 1 > 0
  BY <1>4
<1>10. BackOffDoubles'
  <2> DEFINE y == 2^(attempts + 1)
  <2>1. first # 0 => interval' = first * y
    BY <1>6
  <2>2. 2^(attempts') = y
    BY <1>1
  <2> HIDE DEF y
  <2> QED BY <1>1, <1>8, <1>9, <2>1, <2>2 DEF BackOffDoubles
<1>11. RetryFits'
  BY <1>7, <1>10 DEF RetryFits
<1>12. rc' \in Codes
  BY <1>2 DEF Codes
<1> QED BY <1>3, <1>5, <1>11, <1>12

LEMMA ConnectFailsIInv == IInv /\ ConnectFails => IInv'
<1> SUFFICES ASSUME IInv, ConnectFails PROVE IInv'
  OBVIOUS
<1>1. /\ ypc' = "loop"
      /\ UNCHANGED <<is_ping_outstanding, ping_timer, waiting, inbox>>
      /\ UNCHANGED <<caller, thread_exit_code, loop>>
  BY DEF ConnectFails, pingVars, linkVars, threadVars
<1>2. rc' \in Codes /\ RetryOK' /\ RetryFits' /\ delay_over' \in BOOLEAN
  BY BackOffStep DEF ConnectFails
<1>3. PingOK'
  BY <1>1 DEF IInv, PingOK
<1>4. ThreadsOK'
  BY <1>1, <1>2 DEF IInv, ThreadsOK, Points
<1>5. FlagsOK'
  BY <1>2, Zenon DEF IInv, FlagsOK, ConnectFails, linkVars, threadVars
<1>6. LinkFits'
  <2>1. ypc' \notin {"read", "keepalive"}
    BY <1>1
  <2> QED BY <2>1, Zenon DEF IInv, LinkFits, ConnectFails, linkVars
<1>7. PingFits'
  <2>1. PingsAreOld => PingsAreOld'
    BY <1>1 DEF PingsAreOld, Waited
  <2> QED BY <2>1, Zenon DEF IInv, PingFits, ConnectFails, linkVars
<1> QED BY <1>2, <1>3, <1>4, <1>5, <1>6, <1>7 DEF IInv

LEMMA ConnectSucceedsIInv == IInv /\ ConnectSucceeds => IInv'
<1> SUFFICES ASSUME IInv, ConnectSucceeds PROVE IInv'
  OBVIOUS
<1>1. /\ ypc = "reconnect" /\ ypc' = "loop" /\ is_ping_outstanding' = 0
      /\ ping_timer' = KeepAlive /\ waiting' = NoPing /\ inbox' = << >>
      /\ UNCHANGED <<caller, thread_exit_code, loop>>
  BY DEF ConnectSucceeds, threadVars
<1>2. rc' \in Codes /\ RetryOK' /\ RetryFits' /\ delay_over' \in BOOLEAN
  <2>1. CASE BackOff
    BY <1>1, <2>1, BackOffStep
  <2>2. CASE rc' = "RECONNECTED" /\ UNCHANGED retryVars
    <3>1. UNCHANGED <<interval, first, attempts>>
      BY <2>2 DEF retryVars
    <3>2. delay_over' \in BOOLEAN
      BY <2>2, Zenon DEF IInv, FlagsOK, retryVars
    <3>3. RetryOK' /\ RetryFits'
      BY <1>1, <2>2, <3>1, RetryKept
    <3> QED BY <2>2, <3>2, <3>3 DEF Codes
  <2> QED BY <2>1, <2>2 DEF ConnectSucceeds
<1>3. PingOK'
  BY <1>1, NothingSent, Sizes DEF PingOK
<1>4. ThreadsOK'
  BY <1>1, <1>2 DEF IInv, ThreadsOK, Points
<1>5. FlagsOK'
  BY <1>2, Zenon DEF IInv, FlagsOK, ConnectSucceeds, threadVars
<1>6. LinkFits'
  BY Zenon DEF LinkFits, ConnectSucceeds
<1>7. PingFits'
  <2>1. PingsAreOld'
    BY <1>1 DEF PingsAreOld
  <2> QED BY <2>1, Zenon DEF PingFits
<1> QED BY <1>2, <1>3, <1>4, <1>5, <1>6, <1>7 DEF IInv

----------------------------------------------------------------------------
(* The server, the network and the clock.                                  *)

\* Only the pings, the link and the packets change.
LEMMA WorldStep ==
    ASSUME IInv, PingOK', PingFits', link' \in BOOLEAN, cut' \in BOOLEAN, ~cut' => link',
           UNCHANGED <<is_connected, auto_connect_enable, retryVars, ypc, caller, rc,
                       threadVars>>
    PROVE  IInv'
<1>1. FlagsOK'
  BY Zenon DEF IInv, FlagsOK, retryVars, threadVars
<1>2. UNCHANGED <<ypc, caller, rc, thread_exit_code, loop, interval, first, attempts>>
  BY DEF threadVars, retryVars
<1>3. ThreadsOK'
  BY <1>2 DEF IInv, ThreadsOK
<1>4. RetryOK' /\ RetryFits'
  BY <1>2, RetryKept
<1>5. LinkFits'
  BY Zenon DEF IInv, LinkFits
<1> QED BY <1>1, <1>3, <1>4, <1>5 DEF IInv

\* While a PINGREQ waits, a tick that ping_timer loses is one it has waited.
LEMMA TickIInv == IInv /\ Tick => IInv'
<1> SUFFICES ASSUME IInv, Tick PROVE IInv'
  OBVIOUS
<1>1. /\ ypc \in {"out", "read"} /\ ypc' = ypc
      /\ ping_timer' = (IF ping_timer > 0 THEN ping_timer - 1 ELSE 0)
      /\ waiting' = (IF waiting \in 0..(Latency - 1) THEN waiting + 1 ELSE waiting)
      /\ UNCHANGED <<is_ping_outstanding, inbox>>
  BY DEF Tick
<1>2. /\ UNCHANGED <<is_connected, auto_connect_enable, retryVars, ypc, caller, rc,
                     threadVars, link, cut>>
      /\ link => waiting < Latency
  BY DEF Tick
<1>3. PingOK'
  <2>1. is_ping_outstanding' \in 0..MQTT_PING_RETRY_TIMES /\ inbox' \in Seq(PacketTypes)
    BY <1>1 DEF IInv, PingOK
  <2>2. ping_timer' \in Nat
    BY <1>1 DEF IInv, PingOK
  <2>3. waiting' \in {NoPing} \cup 0..Latency
    BY <1>1, Sizes DEF IInv, PingOK
  <2> QED BY <2>1, <2>2, <2>3 DEF PingOK
<1>4. PingFits'
  <2>1. ASSUME PingsAreOld, waiting < Latency PROVE PingsAreOld'
    <3>1. is_ping_outstanding \in Nat /\ PingGap \in Nat /\ ping_timer \in Nat
      BY Sizes DEF IInv, PingOK
    <3> DEFINE p == is_ping_outstanding * PingGap
    <3>2. p \in Nat /\ p' = p
      BY <1>1, <3>1, GapAdds DEF PingGap
    <3>3. Waited <=> waiting # NoPing /\ waiting + ping_timer >= p
      BY DEF Waited
    <3>4. Waited' <=> waiting' # NoPing /\ waiting' + ping_timer' >= p
      BY <3>2 DEF Waited
    <3> HIDE DEF p
    <3>5. waiting # NoPing => waiting \in 0..(Latency - 1) /\ waiting \in Nat
      BY <2>1, Sizes DEF IInv, PingOK
    <3>6. Waited => Waited'
      <4> SUFFICES ASSUME Waited PROVE Waited'
        OBVIOUS
      <4>1. /\ waiting \in Nat /\ waiting' = waiting + 1 /\ waiting + ping_timer >= p
        BY <1>1, <3>3, <3>5
      <4>2. ping_timer' \in Nat /\ ping_timer' >= ping_timer - 1
        BY <1>1, <3>1
      <4>3. ASSUME NEW w \in Nat, NEW t \in Nat, NEW u \in Nat, NEW q \in Nat,
                   w + t >= q, u >= t - 1
            PROVE  (w + 1) + u >= q
        BY <4>3
      <4>4. waiting' + ping_timer' >= p
        BY <3>1, <3>2, <4>1, <4>2, <4>3
      <4>5. waiting' # NoPing
        BY <4>1 DEF NoPing
      <4> QED BY <3>4, <4>4, <4>5
    <3> QED BY <1>1, <2>1, <3>6 DEF PingsAreOld
  <2> QED BY <1>2, <2>1, Zenon DEF IInv, PingFits, LinkFits
<1>5. link' \in BOOLEAN /\ cut' \in BOOLEAN /\ (~cut' => link')
  BY <1>2, Zenon DEF IInv, FlagsOK, LinkFits
<1> QED BY <1>2, <1>3, <1>4, <1>5, WorldStep

LEMMA ServerAnswersIInv == IInv /\ ServerAnswers => IInv'
<1> SUFFICES ASSUME IInv, ServerAnswers PROVE IInv'
  OBVIOUS
<1>1. /\ waiting' = NoPing /\ inbox' = Append(inbox, "ACK")
      /\ UNCHANGED <<is_ping_outstanding, ping_timer, ypc>>
  BY DEF ServerAnswers, pingVars
<1>2. UNCHANGED <<is_connected, auto_connect_enable, retryVars, ypc, caller, rc,
                  threadVars, link, cut>>
  BY DEF ServerAnswers
<1>3. inbox' \in Seq(PacketTypes) /\ "ACK" \in Elems(inbox')
  BY <1>1, AddPacket DEF IInv, PingOK, PacketTypes
<1>4. PingOK'
  BY <1>1, <1>3 DEF IInv, PingOK
<1>5. PingFits'
  <2>1. Elems(inbox)' = Elems(inbox')
    BY DEF Elems
  <2>2. PingsAreOld => PingsAreOld'
    BY <1>1, <1>3, <2>1 DEF PingsAreOld
  <2> QED BY <1>2, <2>2, Zenon DEF IInv, PingFits
<1>6. link' \in BOOLEAN /\ cut' \in BOOLEAN /\ (~cut' => link')
  BY <1>2, Zenon DEF IInv, FlagsOK, LinkFits
<1> QED BY <1>2, <1>4, <1>5, <1>6, WorldStep

LEMMA ServerSendsIInv ==
    ASSUME IInv, NEW type \in PacketTypes, ServerSends(type)
    PROVE  IInv'
<1>1. /\ inbox' = Append(inbox, type)
      /\ UNCHANGED <<is_ping_outstanding, ping_timer, waiting, ypc>>
  BY DEF ServerSends, pingVars
<1>2. UNCHANGED <<is_connected, auto_connect_enable, retryVars, ypc, caller, rc,
                  threadVars, link, cut>>
  BY DEF ServerSends
<1>3. inbox' \in Seq(PacketTypes) /\ Elems(inbox') = Elems(inbox) \cup {type}
  BY <1>1, AddPacket DEF IInv, PingOK
<1>4. PingOK'
  BY <1>1, <1>3 DEF IInv, PingOK
<1>5. PingFits'
  <2>1. Elems(inbox)' = Elems(inbox')
    BY DEF Elems
  <2>2. PingsAreOld => PingsAreOld'
    BY <1>1, <1>3, <2>1 DEF PingsAreOld, Waited
  <2> QED BY <1>2, <2>2, Zenon DEF IInv, PingFits
<1>6. link' \in BOOLEAN /\ cut' \in BOOLEAN /\ (~cut' => link')
  BY <1>2, Zenon DEF IInv, FlagsOK, LinkFits
<1> QED BY <1>2, <1>4, <1>5, <1>6, WorldStep

LEMMA LinkChangesIInv == IInv /\ LinkChanges => IInv'
<1> SUFFICES ASSUME IInv, LinkChanges PROVE IInv'
  OBVIOUS
<1>1. UNCHANGED <<is_ping_outstanding, ping_timer, waiting, inbox>>
  BY DEF LinkChanges, pingVars
<1>2. PingOK'
  BY <1>1 DEF IInv, PingOK
<1>3. PingFits' /\ link' \in BOOLEAN /\ cut' \in BOOLEAN /\ (~cut' => link')
  BY Zenon DEF IInv, FlagsOK, PingFits, LinkChanges
<1>4. UNCHANGED <<is_connected, auto_connect_enable, retryVars, ypc, caller, rc, threadVars>>
  BY DEF LinkChanges
<1> QED BY <1>2, <1>3, <1>4, WorldStep

----------------------------------------------------------------------------
(* The theorems.                                                           *)

LEMMA NextIInv == IInv /\ [Next]_vars => IInv'
<1> SUFFICES ASSUME IInv, [Next]_vars PROVE IInv'
  OBVIOUS
<1>1. CASE Yield
  BY <1>1, TimeUpIInv, LoopHeadIInv, ReadPacketIInv, DiscardPacketIInv, ReadNothingIInv,
     DisconnectIInv, NoPingDueIInv, SendPingIInv, TooEarlyIInv, ConnectFailsIInv,
     ConnectSucceedsIInv, Zenon DEF Yield
<1>2. CASE LoopThread
  BY <1>2, YieldsIInv, CallerIInv, Zenon DEF LoopThread
<1>3. CASE Application
  BY <1>3, YieldsIInv, CallerIInv, Zenon DEF Application
<1>4. CASE Environment
  BY <1>4, TickIInv, DelayIInv, ServerAnswersIInv, ServerSendsIInv, LinkChangesIInv, Zenon
     DEF Environment
<1>5. CASE UNCHANGED vars
  BY <1>5, StutterIInv
<1> QED BY <1>1, <1>2, <1>3, <1>4, <1>5, Zenon DEF Next

LEMMA SpecIInv == Spec => []IInv
BY InitIInv, NextIInv, PTL DEF Spec

\* Every field of the client keeps its range; in particular unanswered pings
\* never exceed MQTT_PING_RETRY_TIMES, and the wait between two attempts
\* never exceeds twice MAX_RECONNECT_WAIT_INTERVAL.
THEOREM TypeCorrect == Spec => []TypeOK
<1>1. IInv => TypeOK
  BY Zenon DEF IInv, FlagsOK, ThreadsOK, RetryOK, PingOK, Points, Codes, TypeOK
<1> QED BY <1>1, SpecIInv, PTL

\* However often attempts fail, succeed and fail in the resubscription, the
\* wait of _handle_reconnect is the first one doubled once per failure, and
\* RECONNECT_TIMEOUT is reported only when that is too long.
THEOREM WaitsDouble == Spec => []BackOffDoubles
<1>1. IInv => BackOffDoubles
  BY DEF IInv, RetryFits
<1> QED BY <1>1, SpecIInv, PTL

\* The server answers before the last of the pings allowed could time out.
AnswersInTime == Latency < MQTT_PING_RETRY_TIMES * PingGap

\* _mqtt_keep_alive never gives up a connection whose server answers within
\* Latency, when Latency is below MQTT_PING_RETRY_TIMES times the time that
\* a ping is given.
THEOREM KeepAliveIsRight ==
    ASSUME AnswersInTime
    PROVE  Spec => NoFalseDisconnect
<1>1. IInv /\ PingTimesOut => cut
  <2> SUFFICES ASSUME IInv, PingTimesOut, PingsAreOld PROVE FALSE
    <3>1. PingTimesOut => ypc \in {"read", "keepalive"}
      BY DEF PingTimesOut, PingDue
    <3> QED BY <3>1, Zenon DEF IInv, LinkFits, PingFits
  <2>1. /\ ypc = "keepalive" /\ ping_timer = 0
        /\ is_ping_outstanding = MQTT_PING_RETRY_TIMES
    BY Sizes DEF PingTimesOut, PingDue, IInv, PingOK
  <2>2. CASE MQTT_PING_RETRY_TIMES = 0
    BY <2>2, Sizes DEF AnswersInTime
  <2>3. CASE MQTT_PING_RETRY_TIMES >= 1
    <3>1. Latency + 0 >= MQTT_PING_RETRY_TIMES * PingGap
      BY <2>1, <2>3 DEF PingsAreOld
    <3> DEFINE p == MQTT_PING_RETRY_TIMES * PingGap
    <3>2. p \in Nat /\ Latency + 0 >= p /\ Latency < p
      BY <3>1, Sizes, GapAdds DEF AnswersInTime
    <3> HIDE DEF p
    <3> QED BY <3>2, Sizes
  <2> QED BY <2>2, <2>3, Sizes
<1>2. IInv /\ [Next]_vars => [PingTimesOut => cut]_vars
  BY <1>1
<1> QED BY <1>2, SpecIInv, PTL DEF Spec, NoFalseDisconnect
============================================================================
