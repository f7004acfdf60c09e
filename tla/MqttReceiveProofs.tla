------------------------- MODULE MqttReceiveProofs -------------------------
(***************************************************************************)
(* Proofs about MqttReceive, for any set of packet ids, any size of the    *)
(* ring and of sub_handles, any number of messages and lost connections;   *)
(* and about TopicMatch, the routine by which a message finds its entry.   *)
(***************************************************************************)
EXTENDS MqttReceive, TopicMatch, TLAPS, SequenceTheorems, FiniteSetTheorems, WellFoundedInduction

Elems(s) == {s[i] : i \in DOMAIN s}
Distinct(s) == \A i, j \in DOMAIN s : s[i] = s[j] => i = j

\* The typed part of the state without the Boolean fields.
DataOK ==
    /\ repeat_packet_id_buf \in [Ring -> Ids \cup {0}]
    /\ current_packet_id_cnt \in Ring
    /\ topic_filter \in [Entries -> {"none", "match", "other"}]
    /\ ypc \in {"read", "match", "found", "default", "remember", "ack"}
    /\ msg \in Messages \cup {NoMessage}
    /\ entry \in 0..MAX_MESSAGE_HANDLERS
    /\ to_client \in Seq(Messages)
    /\ to_server \in Seq(Ids)
    /\ qos \in [Messages -> {0, 1}]
    /\ id \in [Messages -> Ids \cup {0}]
    /\ messages \in 0..MaxMessages
    /\ inflight \subseteq 1..messages
    /\ disconnects \in 0..MaxDisconnects
    /\ installed \in [Entries -> {"none", "match", "other"}]
    /\ delivered \in [Messages -> Nat]
    /\ acked \subseteq 1..messages
    /\ window \in Seq(Ids)
    /\ forgotten \subseteq 1..messages
    /\ confused \subseteq 1..messages
    /\ unsent \subseteq 1..messages
    /\ event_handle \in {"NULL", "set"}
    /\ dropped \subseteq 1..messages

FlagsOK ==
    /\ is_connected \in BOOLEAN
    /\ message_handler \in [Entries -> BOOLEAN]

Busy == ypc # "read"

\* The messages the server keeps, the connection and the one being handled:
\* a QoS 1 message that is to be handled is kept, and its id is neither that
\* of another one that is kept nor acknowledged on this connection.
ChannelFits ==
    /\ Distinct(to_client) /\ Distinct(to_server)
    /\ \A m \in Messages : qos[m] = 1 => id[m] \in Ids
    /\ \A m \in inflight : qos[m] = 1
    /\ \A m, n \in inflight : id[m] = id[n] => m = n
    /\ \A m \in Elems(to_client) :
         /\ m \in 1..messages
         /\ qos[m] = 1 => m \in inflight /\ id[m] \notin Elems(to_server)
    /\ \A i \in Elems(to_server) : \E m \in inflight : id[m] = i
    /\ Busy => /\ msg \in 1..messages /\ msg \notin Elems(to_client)
               /\ qos[msg] = 1 => msg \in inflight /\ id[msg] \notin Elems(to_server)
    /\ ypc \in {"remember", "ack"} => qos[msg] = 1

\* Without a connection nothing is on it, and no message is being handled.
LinkFits == ~is_connected => to_client = << >> /\ to_server = << >> /\ ~Busy

\* The ring holds the window; until it is full, the rest of it is empty.
RingFits ==
    /\ Distinct(window) /\ Len(window) <= MQTT_MAX_REPEAT_BUF_LEN
    /\ \A k \in DOMAIN window :
         repeat_packet_id_buf[(current_packet_id_cnt + k - 1 - Len(window))
                                % MQTT_MAX_REPEAT_BUF_LEN] = window[k]
    /\ Len(window) < MQTT_MAX_REPEAT_BUF_LEN =>
         /\ current_packet_id_cnt = Len(window)
         /\ \A i \in Ring : i >= Len(window) => repeat_packet_id_buf[i] = 0

\* A QoS 1 message that was delivered is remembered by its id, and one that is
\* about to be delivered is not; a message of QoS 0 comes once.
DeliveryFits ==
    /\ \A m \in Messages : m > messages => delivered[m] = 0
    /\ \A m \in Messages : qos[m] = 1 /\ delivered[m] > 0 =>
         m \in forgotten \/ id[m] \in Elems(window) \/ (ypc = "remember" /\ msg = m)
    /\ \A m \in Messages : qos[m] = 0 => delivered[m] <= 1
    /\ \A m \in Elems(to_client) : qos[m] = 0 => delivered[m] = 0
    /\ ypc \in {"match", "found", "default"} =>
         /\ qos[msg] = 0 => delivered[msg] = 0
         /\ qos[msg] = 1 => id[msg] \notin Elems(window)
    /\ ypc = "remember" =>
         id[msg] \notin Elems(window) /\ (delivered[msg] > 0 \/ msg \in dropped)
    /\ DeliveredOnce

\* What is acknowledged, or about to be, has been delivered, or dropped.
AckFits ==
    /\ ypc = "ack" => delivered[msg] > 0 \/ msg \in confused \cup dropped
    /\ \A m \in inflight : id[m] \in Elems(to_server) =>
         delivered[m] > 0 \/ m \in confused \cup dropped
    /\ AckedWereDelivered

\* An entry in use has the filter that was installed last, and the entry that
\* was found had a filter that matches.
TableFits ==
    /\ \A i \in Entries : topic_filter[i] # "none" => installed[i] = topic_filter[i]
    /\ ypc = "found" => entry \in Entries /\ installed[entry] = "match"

IInv == /\ DataOK /\ FlagsOK /\ ChannelFits /\ LinkFits /\ RingFits
        /\ DeliveryFits /\ AckFits /\ TableFits

\* The sizes are positive numbers.
LEMMA Sizes ==
    /\ MQTT_MAX_REPEAT_BUF_LEN \in Nat /\ MQTT_MAX_REPEAT_BUF_LEN >= 1
    /\ MAX_MESSAGE_HANDLERS \in Nat /\ MAX_MESSAGE_HANDLERS >= 1
    /\ MaxMessages \in Nat /\ MaxDisconnects \in Nat
BY ReceiveAssumption

----------------------------------------------------------------------------
(* Sequences.                                                              *)

\* Taking the first element of a sequence.
LEMMA TakeFirst ==
    ASSUME NEW S, NEW s \in Seq(S), s # << >>
    PROVE  /\ Tail(s) \in Seq(S) /\ Head(s) \in S
           /\ Elems(s) = Elems(Tail(s)) \cup {Head(s)}
           /\ Distinct(s) => Distinct(Tail(s)) /\ Head(s) \notin Elems(Tail(s))
<1>1. /\ Head(s) = s[1] /\ Head(s) \in S /\ Tail(s) \in Seq(S) /\ Len(s) \in Nat
      /\ Len(Tail(s)) = Len(s) - 1 /\ 1 \in DOMAIN s
      /\ \A i \in 1..Len(Tail(s)) : Tail(s)[i] = s[i + 1]
  BY HeadTailProperties, LenProperties
<1>2. DOMAIN s = 1..Len(s) /\ DOMAIN Tail(s) = 1..(Len(s) - 1)
  BY <1>1, LenProperties
<1>3. Elems(s) = Elems(Tail(s)) \cup {Head(s)}
  <2>1. Elems(s) \subseteq Elems(Tail(s)) \cup {Head(s)}
    <3> SUFFICES ASSUME NEW i \in 1..Len(s), i # 1 PROVE s[i] \in Elems(Tail(s))
      BY <1>1, <1>2 DEF Elems
    <3>1. i - 1 \in 1..(Len(s) - 1) /\ (i - 1) + 1 = i
      BY <1>1
    <3>2. Tail(s)[i - 1] = s[i]
      BY <1>1, <3>1
    <3> QED BY <1>2, <3>1, <3>2 DEF Elems
  <2>2. ASSUME NEW i \in 1..(Len(s) - 1) PROVE Tail(s)[i] \in Elems(s)
    <3>1. i + 1 \in 1..Len(s) /\ Tail(s)[i] = s[i + 1]
      BY <1>1
    <3> QED BY <1>2, <3>1 DEF Elems
  <2>3. Elems(Tail(s)) \subseteq Elems(s) /\ Head(s) \in Elems(s)
    BY <1>1, <1>2, <2>2 DEF Elems
  <2> QED BY <2>1, <2>3
<1>4. Distinct(s) => Distinct(Tail(s)) /\ Head(s) \notin Elems(Tail(s))
  BY <1>1, <1>2 DEF Distinct, Elems
<1> QED BY <1>1, <1>3, <1>4

\* Adding an element to a sequence.
LEMMA AddLast ==
    ASSUME NEW S, NEW s \in Seq(S), NEW x \in S
    PROVE  /\ Append(s, x) \in Seq(S)
           /\ Elems(Append(s, x)) = Elems(s) \cup {x}
           /\ x \notin Elems(s) /\ Distinct(s) => Distinct(Append(s, x))
<1>1. /\ Append(s, x) \in Seq(S) /\ Len(Append(s, x)) = Len(s) + 1 /\ Len(s) \in Nat
      /\ \A i \in 1..Len(s) : Append(s, x)[i] = s[i]
      /\ Append(s, x)[Len(s) + 1] = x
  BY AppendProperties, LenProperties
<1>2. DOMAIN s = 1..Len(s) /\ DOMAIN Append(s, x) = 1..(Len(s) + 1)
  BY <1>1, LenProperties
<1> QED BY <1>1, <1>2 DEF Elems, Distinct

\* The empty sequence.
LEMMA NoElems ==
    /\ Elems(<< >>) = {} /\ Distinct(<< >>) /\ \A S : << >> \in Seq(S)
BY DEF Elems, Distinct

----------------------------------------------------------------------------
(* The ring.                                                               *)

\* The places of the ring, reached by counting round it in either direction.
LEMMA Places ==
    ASSUME NEW a \in Int
    PROVE  /\ a \in Ring => a % MQTT_MAX_REPEAT_BUF_LEN = a
           /\ a < 0 /\ a >= -MQTT_MAX_REPEAT_BUF_LEN =>
                a % MQTT_MAX_REPEAT_BUF_LEN = a + MQTT_MAX_REPEAT_BUF_LEN
           /\ a = MQTT_MAX_REPEAT_BUF_LEN => a % MQTT_MAX_REPEAT_BUF_LEN = 0
BY ReceiveAssumption DEF Ring

\* The place in the ring of the k-th of n ids, when c is written next.
Place(c, n, k) == LET a == c + k - 1 - n
                  IN  IF a >= 0 THEN a ELSE a + MQTT_MAX_REPEAT_BUF_LEN

\* The same, as the invariant says it.
LEMMA PlaceIs ==
    ASSUME NEW c \in Ring, NEW n \in Nat, n <= MQTT_MAX_REPEAT_BUF_LEN,
           n < MQTT_MAX_REPEAT_BUF_LEN => c = n, NEW k \in 1..n
    PROVE  /\ Place(c, n, k) \in Ring
           /\ (c + k - 1 - n) % MQTT_MAX_REPEAT_BUF_LEN = Place(c, n, k)
<1> DEFINE a == c + k - 1 - n
<1>1. /\ a \in Int /\ a < MQTT_MAX_REPEAT_BUF_LEN /\ a >= -MQTT_MAX_REPEAT_BUF_LEN
      /\ a >= 0 => a \in Ring
  BY ReceiveAssumption DEF Ring
<1>2. Place(c, n, k) = IF a >= 0 THEN a ELSE a + MQTT_MAX_REPEAT_BUF_LEN
  BY DEF Place
<1> HIDE DEF a
<1>3. a % MQTT_MAX_REPEAT_BUF_LEN = Place(c, n, k)
  BY <1>1, <1>2, Places
<1>4. Place(c, n, k) \in Ring
  BY <1>1, <1>2, ReceiveAssumption DEF Ring
<1> QED BY <1>3, <1>4 DEF a

\* Where the ids are after another one was put at c: the oldest of a full
\* ring made room for it.
LEMMA PlaceMoves ==
    ASSUME NEW c \in Ring, NEW n \in Nat, n <= MQTT_MAX_REPEAT_BUF_LEN,
           n < MQTT_MAX_REPEAT_BUF_LEN => c = n,
           NEW d, d = IF c + 1 = MQTT_MAX_REPEAT_BUF_LEN THEN 0 ELSE c + 1
    PROVE  /\ n < MQTT_MAX_REPEAT_BUF_LEN =>
                /\ Place(d, n + 1, n + 1) = c
                /\ \A k \in 1..n : /\ Place(d, n + 1, k) = Place(c, n, k)
                                   /\ Place(c, n, k) # c
           /\ n = MQTT_MAX_REPEAT_BUF_LEN =>
                /\ Place(d, n, n) = c
                /\ \A k \in 1..(n - 1) : /\ Place(d, n, k) = Place(c, n, k + 1)
                                         /\ Place(c, n, k + 1) # c
<1>1. MQTT_MAX_REPEAT_BUF_LEN \in Nat /\ MQTT_MAX_REPEAT_BUF_LEN >= 1
  BY ReceiveAssumption
<1>2. c \in Nat /\ c < MQTT_MAX_REPEAT_BUF_LEN
  BY <1>1 DEF Ring
<1>3. CASE c + 1 = MQTT_MAX_REPEAT_BUF_LEN
  BY <1>1, <1>2, <1>3 DEF Place
<1>4. CASE c + 1 # MQTT_MAX_REPEAT_BUF_LEN
  BY <1>1, <1>2, <1>4 DEF Place
<1> QED BY <1>3, <1>4

\* _get_packet_id_in_repeat_buf finds the ids of the window and no other.
LEMMA FindsWindow ==
    ASSUME DataOK, RingFits, NEW x \in Ids
    PROVE  _get_packet_id_in_repeat_buf(x) <=> x \in Elems(window)
<1>1. /\ current_packet_id_cnt \in Ring /\ Len(window) \in Nat
      /\ Len(window) <= MQTT_MAX_REPEAT_BUF_LEN
      /\ Len(window) < MQTT_MAX_REPEAT_BUF_LEN => current_packet_id_cnt = Len(window)
  BY LenProperties DEF DataOK, RingFits
<1>w. window \in Seq(Ids) /\ DOMAIN window = 1..Len(window)
  BY LenProperties DEF DataOK
<1>2. \A k \in 1..Len(window) :
        LET i == Place(current_packet_id_cnt, Len(window), k)
        IN  i \in Ring /\ repeat_packet_id_buf[i] = window[k]
  BY <1>1, <1>w, PlaceIs DEF RingFits
<1>3. x # 0 /\ MQTT_MAX_REPEAT_BUF_LEN \in Nat /\ MQTT_MAX_REPEAT_BUF_LEN >= 1
  BY ReceiveAssumption
<1>4. ASSUME NEW i \in Ring, repeat_packet_id_buf[i] = x
      PROVE  \E k \in 1..Len(window) : Place(current_packet_id_cnt, Len(window), k) = i
  <2>1. CASE Len(window) < MQTT_MAX_REPEAT_BUF_LEN
    <3>1. i < Len(window) /\ i \in Nat
      BY <1>1, <1>3, <1>4, <2>1 DEF RingFits, Ring
    <3>2. i + 1 \in 1..Len(window) /\ Place(current_packet_id_cnt, Len(window), i + 1) = i
      BY <1>1, <2>1, <3>1 DEF Place
    <3> QED BY <3>2
  <2>2. CASE Len(window) = MQTT_MAX_REPEAT_BUF_LEN
    <3>1. CASE i >= current_packet_id_cnt
      <4>1. /\ i - current_packet_id_cnt + 1 \in 1..Len(window)
            /\ Place(current_packet_id_cnt, Len(window), i - current_packet_id_cnt + 1) = i
        BY <1>1, <1>3, <2>2, <3>1 DEF Place, Ring
      <4> QED BY <4>1
    <3>2. CASE i < current_packet_id_cnt
      <4> DEFINE k == i - current_packet_id_cnt + 1 + MQTT_MAX_REPEAT_BUF_LEN
      <4>1. k \in 1..Len(window) /\ Place(current_packet_id_cnt, Len(window), k) = i
        BY <1>1, <1>3, <2>2, <3>2 DEF Place, Ring
      <4> QED BY <4>1
    <3>3. i >= current_packet_id_cnt \/ i < current_packet_id_cnt
      BY <1>1, <1>3 DEF Ring
    <3> QED BY <3>1, <3>2, <3>3
  <2>3. Len(window) < MQTT_MAX_REPEAT_BUF_LEN \/ Len(window) = MQTT_MAX_REPEAT_BUF_LEN
    BY <1>1, <1>3
  <2> QED BY <2>1, <2>2, <2>3
<1>5. _get_packet_id_in_repeat_buf(x) => x \in Elems(window)
  <2> SUFFICES ASSUME NEW i \in Ring, repeat_packet_id_buf[i] = x
               PROVE  x \in Elems(window)
    BY DEF _get_packet_id_in_repeat_buf
  <2>1. PICK k \in 1..Len(window) : Place(current_packet_id_cnt, Len(window), k) = i
    BY <1>4
  <2>2. window[k] = x
    BY <1>2, <2>1
  <2> QED BY <1>w, <2>2 DEF Elems
<1>6. x \in Elems(window) => _get_packet_id_in_repeat_buf(x)
  BY <1>w, <1>2 DEF Elems, _get_packet_id_in_repeat_buf
<1> QED BY <1>5, <1>6

\* Adding an id that is not there keeps the ring and the window together.
LEMMA AddFits ==
    ASSUME DataOK, RingFits, NEW x \in Ids, ~_get_packet_id_in_repeat_buf(x),
           _add_packet_id_to_repeat_buf(x)
    PROVE  /\ RingFits' /\ repeat_packet_id_buf' \in [Ring -> Ids \cup {0}]
           /\ current_packet_id_cnt' \in Ring /\ window' \in Seq(Ids)
           /\ x \in Elems(window')
           /\ \A y \in Elems(window) : y \in Elems(window')
                \/ forgotten' = forgotten \cup Bearers(y)
           /\ forgotten' = forgotten
                \/ \E y \in Ids : forgotten' = forgotten \cup Bearers(y)
<1> DEFINE base == IF Len(window) < MQTT_MAX_REPEAT_BUF_LEN THEN window ELSE Tail(window)
<1>1. /\ repeat_packet_id_buf' = [repeat_packet_id_buf EXCEPT ![current_packet_id_cnt] = x]
      /\ current_packet_id_cnt' = NextPlace(current_packet_id_cnt)
      /\ window' = Append(base, x)
      /\ forgotten' = IF Len(window) < MQTT_MAX_REPEAT_BUF_LEN THEN forgotten
                      ELSE forgotten \cup Bearers(Head(window))
  BY DEF _add_packet_id_to_repeat_buf
<1>2. /\ current_packet_id_cnt \in Ring /\ Len(window) \in Nat
      /\ Len(window) <= MQTT_MAX_REPEAT_BUF_LEN
      /\ Len(window) < MQTT_MAX_REPEAT_BUF_LEN => current_packet_id_cnt = Len(window)
      /\ MQTT_MAX_REPEAT_BUF_LEN \in Nat /\ MQTT_MAX_REPEAT_BUF_LEN >= 1
  BY LenProperties, ReceiveAssumption DEF DataOK, RingFits
<1>w. window \in Seq(Ids) /\ DOMAIN window = 1..Len(window)
  BY LenProperties DEF DataOK
<1>3. \A k \in 1..Len(window) :
        LET i == Place(current_packet_id_cnt, Len(window), k)
        IN  i \in Ring /\ repeat_packet_id_buf[i] = window[k]
  BY <1>2, <1>w, PlaceIs DEF RingFits
<1>4. x \notin Elems(window) /\ x # 0
  BY FindsWindow, ReceiveAssumption
<1>5. current_packet_id_cnt' = IF current_packet_id_cnt + 1 = MQTT_MAX_REPEAT_BUF_LEN
                                 THEN 0 ELSE current_packet_id_cnt + 1
  <2>1. /\ current_packet_id_cnt + 1 \in Int
        /\ \/ current_packet_id_cnt + 1 \in Ring
           \/ current_packet_id_cnt + 1 = MQTT_MAX_REPEAT_BUF_LEN
    BY <1>2 DEF Ring
  <2>2. current_packet_id_cnt + 1 \in Ring =>
          current_packet_id_cnt + 1 # MQTT_MAX_REPEAT_BUF_LEN
    BY <1>2 DEF Ring
  <2>3. current_packet_id_cnt' = (current_packet_id_cnt + 1) % MQTT_MAX_REPEAT_BUF_LEN
    BY <1>1 DEF NextPlace
  <2> QED BY <2>1, <2>2, <2>3, Places
<1>6. /\ base \in Seq(Ids) /\ Distinct(base)
      /\ Elems(base) \subseteq Elems(window)
      /\ \A y \in Elems(window) :
           \/ y \in Elems(base)
           \/ Len(window) = MQTT_MAX_REPEAT_BUF_LEN /\ y = Head(window)
      /\ Len(window) = MQTT_MAX_REPEAT_BUF_LEN => Head(window) \in Ids
  <2>1. CASE Len(window) < MQTT_MAX_REPEAT_BUF_LEN
    BY <1>w, <2>1 DEF RingFits
  <2>2. CASE Len(window) = MQTT_MAX_REPEAT_BUF_LEN
    <3>1. window # << >> /\ Distinct(window)
      BY <1>2, <1>w, <2>2 DEF RingFits
    <3>2. base = Tail(window)
      BY <1>2, <2>2
    <3> HIDE DEF base
    <3> QED BY <1>w, <2>2, <3>1, <3>2, TakeFirst
  <2> QED BY <1>2, <2>1, <2>2
<1>7. /\ window' \in Seq(Ids) /\ Elems(window') = Elems(base) \cup {x}
      /\ Distinct(window')
  <2> HIDE DEF base
  <2> QED BY <1>1, <1>4, <1>6, AddLast
<1>8. /\ Len(window) < MQTT_MAX_REPEAT_BUF_LEN =>
                  /\ Len(window') = Len(window) + 1 /\ window'[Len(window) + 1] = x
                  /\ \A k \in 1..Len(window) : window'[k] = window[k]
      /\ Len(window) = MQTT_MAX_REPEAT_BUF_LEN =>
                  /\ Len(window') = MQTT_MAX_REPEAT_BUF_LEN
                  /\ window'[MQTT_MAX_REPEAT_BUF_LEN] = x
                  /\ \A k \in 1..(MQTT_MAX_REPEAT_BUF_LEN - 1) : window'[k] = window[k + 1]
  <2>1. CASE Len(window) < MQTT_MAX_REPEAT_BUF_LEN
    <3>1. window' = Append(window, x)
      BY <1>1, <2>1
    <3> QED BY <1>2, <1>w, <2>1, <3>1, AppendProperties
  <2>2. CASE Len(window) = MQTT_MAX_REPEAT_BUF_LEN
    <3>1. window' = Append(Tail(window), x) /\ window # << >>
      BY <1>1, <1>2, <2>2
    <3>2. /\ Tail(window) \in Seq(Ids) /\ Len(Tail(window)) = MQTT_MAX_REPEAT_BUF_LEN - 1
          /\ \A k \in 1..(MQTT_MAX_REPEAT_BUF_LEN - 1) : Tail(window)[k] = window[k + 1]
      BY <1>2, <1>w, <2>2, <3>1, HeadTailProperties
    <3>3. /\ Len(window') = MQTT_MAX_REPEAT_BUF_LEN /\ window'[MQTT_MAX_REPEAT_BUF_LEN] = x
          /\ \A k \in 1..(MQTT_MAX_REPEAT_BUF_LEN - 1) : window'[k] = Tail(window)[k]
      BY <1>2, <3>1, <3>2, AppendProperties
    <3> QED BY <1>2, <2>2, <3>2, <3>3
  <2> QED BY <1>2, <2>1, <2>2
<1> HIDE DEF base
<1>9. current_packet_id_cnt' \in Ring
  BY <1>2, <1>5, ReceiveAssumption DEF Ring
<1>10. repeat_packet_id_buf' \in [Ring -> Ids \cup {0}]
       /\ repeat_packet_id_buf'[current_packet_id_cnt] = x
       /\ \A i \in Ring \ {current_packet_id_cnt} :
            repeat_packet_id_buf'[i] = repeat_packet_id_buf[i]
  BY <1>1, <1>2 DEF DataOK
<1>11. /\ Len(window') \in Nat /\ Len(window') <= MQTT_MAX_REPEAT_BUF_LEN
       /\ Len(window') < MQTT_MAX_REPEAT_BUF_LEN => current_packet_id_cnt' = Len(window')
  BY <1>2, <1>5, <1>8
<1>d. DOMAIN window' = 1..Len(window')
  BY <1>7, LenProperties
<1>12. \A i \in Ring : Len(window') < MQTT_MAX_REPEAT_BUF_LEN /\ i >= Len(window') =>
         repeat_packet_id_buf'[i] = 0
  BY <1>2, <1>8, <1>10, <1>11 DEF RingFits, Ring
<1>13. ASSUME NEW k \in 1..Len(window')
       PROVE  repeat_packet_id_buf'[Place(current_packet_id_cnt', Len(window'), k)]
                = window'[k]
  <2>1. CASE Len(window) < MQTT_MAX_REPEAT_BUF_LEN
    <3>1. CASE k = Len(window) + 1
      BY <1>2, <1>5, <1>8, <1>10, <2>1, <3>1, PlaceMoves
    <3>2. CASE k \in 1..Len(window)
      BY <1>2, <1>3, <1>5, <1>8, <1>10, <2>1, <3>2, PlaceMoves
    <3> QED BY <1>2, <1>8, <2>1, <3>1, <3>2
  <2>2. CASE Len(window) = MQTT_MAX_REPEAT_BUF_LEN
    <3>1. CASE k = MQTT_MAX_REPEAT_BUF_LEN
      BY <1>2, <1>5, <1>8, <1>10, <2>2, <3>1, PlaceMoves
    <3>2. CASE k \in 1..(MQTT_MAX_REPEAT_BUF_LEN - 1)
      <4>1. k + 1 \in 1..Len(window)
        BY <1>2, <2>2, <3>2
      <4> QED BY <1>2, <1>3, <1>5, <1>8, <1>10, <2>2, <3>2, <4>1, PlaceMoves
    <3> QED BY <1>2, <1>8, <2>2, <3>1, <3>2
  <2> QED BY <1>2, <2>1, <2>2
<1>14. RingFits'
  <2>1. \A k \in 1..Len(window') :
          (current_packet_id_cnt' + k - 1 - Len(window')) % MQTT_MAX_REPEAT_BUF_LEN
            = Place(current_packet_id_cnt', Len(window'), k)
    BY <1>9, <1>11, PlaceIs
  <2>2. \A k \in DOMAIN window' :
          repeat_packet_id_buf'[(current_packet_id_cnt' + k - 1 - Len(window'))
                                  % MQTT_MAX_REPEAT_BUF_LEN] = window'[k]
    BY <1>d, <1>13, <2>1
  <2> QED BY <1>7, <1>11, <1>12, <2>2 DEF RingFits, Ring
<1>15. \A y \in Elems(window) : y \in Elems(window')
                \/ forgotten' = forgotten \cup Bearers(y)
  BY <1>1, <1>2, <1>6, <1>7
<1>16. forgotten' = forgotten \/ \E y \in Ids : forgotten' = forgotten \cup Bearers(y)
  BY <1>1, <1>2, <1>6
<1> QED BY <1>7, <1>9, <1>10, <1>14, <1>15, <1>16

----------------------------------------------------------------------------
(* What an action leaves alone.                                            *)

\* The ring depends on the ring variables only.
LEMMA RingStays ==
    ASSUME RingFits, UNCHANGED ringVars
    PROVE  RingFits'
BY DEF RingFits, Distinct, ringVars

\* The entries are not touched, and none is found.
LEMMA TableStays ==
    ASSUME TableFits, UNCHANGED tableVars, ypc' # "found"
    PROVE  TableFits'
BY DEF TableFits, tableVars

\* The flags are not touched.
LEMMA FlagsStay ==
    ASSUME FlagsOK, UNCHANGED <<is_connected, message_handler>>
    PROVE  FlagsOK'
BY Zenon DEF FlagsOK

\* A busy client is connected, and so is one with something on the connection.
LEMMA LinkUp ==
    ASSUME LinkFits, is_connected \in BOOLEAN, UNCHANGED is_connected,
           is_connected \/ Busy \/ to_client # << >> \/ to_server # << >>
    PROVE  LinkFits'
BY Zenon DEF LinkFits

\* A step that leaves the connection, the server and the history of
\* deliveries alone, and only moves the handling of a message on.
LEMMA MoveFits ==
    ASSUME ChannelFits, DeliveryFits, AckFits, Busy,
           UNCHANGED <<msg, to_client, to_server, serverVars, delivered,
                       window, forgotten, confused, dropVars>>,
           \/ ypc \in {"match", "found"} /\ ypc' \in {"match", "found", "default"}
           \/ ypc = "ack" /\ ypc' = "read"
    PROVE  ChannelFits' /\ DeliveryFits' /\ AckFits'
<1> USE DEF serverVars, dropVars
<1>1. ChannelFits'
  BY DEF ChannelFits, Busy, Elems, Distinct
<1>2. DeliveryFits'
  BY DEF DeliveryFits, DeliveredOnce, Elems
<1>3. AckFits'
  BY DEF AckFits, AckedWereDelivered, Elems
<1> QED BY <1>1, <1>2, <1>3

----------------------------------------------------------------------------
(* The invariant holds initially.                                          *)

LEMMA InitIInv == Init => IInv
<1> SUFFICES ASSUME Init PROVE IInv
  OBVIOUS
<1> USE NoElems
<1>1. DataOK
  BY Sizes DEF Init, DataOK, Ring, Entries, NoMessage
<1>2. FlagsOK
  BY Zenon DEF Init, FlagsOK
<1>3. ChannelFits /\ LinkFits
  BY DEF Init, ChannelFits, LinkFits, Busy
<1>4. RingFits
  BY ReceiveAssumption DEF Init, RingFits, Ring
<1>5. DeliveryFits /\ AckFits /\ TableFits
  BY DEF Init, DeliveryFits, DeliveredOnce, AckFits, AckedWereDelivered, TableFits
<1> QED BY <1>1, <1>2, <1>3, <1>4, <1>5 DEF IInv

----------------------------------------------------------------------------
(* _handle_publish_packet and _deliver_message keep the invariant.         *)

LEMMA ReadPublishIInv == IInv /\ ReadPublish => IInv'
<1> SUFFICES ASSUME IInv, ReadPublish PROVE IInv'
  OBVIOUS
<1> DEFINE m == Head(to_client)
           known == _get_packet_id_in_repeat_buf(id[m])
<1>1. /\ ypc = "read" /\ to_client # << >> /\ to_client' = Tail(to_client)
      /\ msg' = m /\ entry' = 0
      /\ UNCHANGED <<repeat_packet_id_buf, current_packet_id_cnt, window, forgotten>>
      /\ UNCHANGED <<topic_filter, installed, to_server, qos, id>>
      /\ UNCHANGED <<messages, inflight, acked, disconnects, delivered, unsent>>
      /\ UNCHANGED <<event_handle, dropped>>
  BY DEF ReadPublish, ringVars, tableVars, serverVars, dropVars
<1>2. /\ to_client' \in Seq(Messages) /\ m \in Messages
      /\ Elems(to_client) = Elems(to_client') \cup {m}
      /\ Distinct(to_client') /\ m \notin Elems(to_client')
  BY <1>1, TakeFirst DEF IInv, DataOK, ChannelFits
<1>3. /\ m \in 1..messages
      /\ qos[m] = 1 => m \in inflight /\ id[m] \notin Elems(to_server) /\ id[m] \in Ids
  BY <1>2 DEF IInv, ChannelFits
<1>4. \/ /\ qos[m] = 0 \/ ~known
         /\ ypc' = "match" /\ confused' = confused
      \/ /\ qos[m] = 1 /\ known /\ ypc' = "ack"
         /\ confused' = IF delivered[m] = 0 /\ m \notin dropped
                               /\ \E k \in DOMAIN window : window[k] = id[m]
                          THEN confused \cup {m} ELSE confused
  BY DEF ReadPublish
<1>5. qos[m] = 1 => (known <=> id[m] \in Elems(window))
  BY <1>3, FindsWindow DEF IInv
<1> HIDE DEF m, known
<1>6. DataOK'
  <2>1. confused' \subseteq 1..messages /\ ypc' \in {"match", "ack"}
    BY <1>3, <1>4 DEF IInv, DataOK
  <2>2. entry' \in 0..MAX_MESSAGE_HANDLERS
    BY <1>1, Sizes
  <2> QED BY <1>1, <1>2, <2>1, <2>2 DEF IInv, DataOK
<1>7. FlagsOK' /\ RingFits' /\ TableFits' /\ LinkFits'
  <2>1. FlagsOK' /\ LinkFits'
    BY FlagsStay, LinkUp DEF IInv, ReadPublish, tableVars, FlagsOK
  <2>2. RingFits'
    BY RingStays DEF IInv, ReadPublish
  <2>3. ypc' # "found"
    BY <1>4
  <2>4. TableFits'
    BY <2>3, TableStays DEF IInv, ReadPublish
  <2> QED BY <2>1, <2>2, <2>4
<1>8. ChannelFits'
  BY <1>1, <1>2, <1>3, <1>4 DEF IInv, ChannelFits, Busy
<1>9. DeliveryFits'
  <2>1. /\ qos[m] = 0 => delivered[m] = 0
        /\ ypc' = "match" /\ qos[m] = 1 => id[m] \notin Elems(window)
        /\ ypc' \in {"match", "ack"}
    BY <1>2, <1>4, <1>5 DEF IInv, DeliveryFits
  <2>2. \A n \in Elems(to_client') : n \in Elems(to_client)
    BY <1>2
  <2>3. ypc' \in {"match", "found", "default"} =>
          /\ qos'[msg'] = 0 => delivered'[msg'] = 0
          /\ qos'[msg'] = 1 => id'[msg'] \notin Elems(window')
    BY <1>1, <2>1
  <2> QED BY <1>1, <2>1, <2>2, <2>3 DEF IInv, DeliveryFits, DeliveredOnce
<1>10. AckFits'
  <2>1. confused \subseteq confused'
    BY <1>4
  <2>2. ypc' = "ack" => delivered[m] > 0 \/ m \in confused' \cup dropped
    <3> SUFFICES ASSUME ypc' = "ack", delivered[m] = 0, m \notin dropped
                 PROVE  m \in confused'
      BY <1>2 DEF IInv, DataOK
    <3>1. id[m] \in Elems(window)
      BY <1>4, <1>5
    <3> QED BY <1>4, <3>1 DEF Elems
  <2> QED BY <1>1, <2>1, <2>2 DEF IInv, AckFits, AckedWereDelivered
<1> QED BY <1>6, <1>7, <1>8, <1>9, <1>10 DEF IInv

\* A non-empty set of naturals has a least element.
LEMMA LeastExists ==
    ASSUME NEW T \in SUBSET Nat, T # {}
    PROVE  \E x \in T : \A y \in T : x <= y
<1> DEFINE R == {ss \in Nat \X Nat : ss[1] < ss[2]}
<1>1. IsWellFoundedOn(R, Nat)
  BY NatLessThanWellFounded DEF OpToRel
<1>2. PICK x \in T : \A y \in T : ~(<<y, x>> \in R)
  <2> HIDE DEF R
  <2> QED BY <1>1, WFMin
<1>3. ASSUME NEW y \in T PROVE x <= y
  <2>1. <<y, x>> \notin R
    <3> HIDE DEF R
    <3> QED BY <1>2
  <2>2. y \in Nat /\ x \in Nat
    OBVIOUS
  <2>3. ~(y < x)
    BY <2>1, <2>2
  <2> QED BY <2>2, <2>3
<1> QED BY <1>3

LEMMA MatchIInv == IInv /\ Match => IInv'
<1> SUFFICES ASSUME IInv, Match PROVE IInv'
  OBVIOUS
<1>1. /\ ypc = "match"
      /\ UNCHANGED <<repeat_packet_id_buf, current_packet_id_cnt, window, forgotten>>
      /\ UNCHANGED <<topic_filter, installed, to_client, to_server, qos, id, msg>>
      /\ UNCHANGED <<messages, inflight, acked, disconnects, delivered, unsent, confused>>
      /\ UNCHANGED <<event_handle, dropped>>
  BY DEF Match, ringVars, tableVars, serverVars, dropVars
<1>2. \/ ypc' = "default" /\ entry' = entry
      \/ ypc' = "found" /\ entry' \in Candidates
  <2>1. CASE Candidates = {}
    BY <2>1 DEF Match
  <2>2. CASE Candidates # {}
    <3>1. Candidates \in SUBSET Nat
      BY Sizes DEF Candidates, Entries
    <3>2. \E i \in Candidates : \A j \in Candidates : i <= j
      BY <2>2, <3>1, LeastExists
    <3>3. /\ ypc' = "found"
          /\ entry' = CHOOSE i \in Candidates : \A j \in Candidates : i <= j
      BY <2>2 DEF Match
    <3> HIDE DEF Candidates
    <3> QED BY <3>2, <3>3
  <2> QED BY <2>1, <2>2
<1>3. entry' \in 0..MAX_MESSAGE_HANDLERS
  BY <1>2, Sizes DEF Candidates, Entries, IInv, DataOK
<1>4. ypc' \in {"found", "default"}
  BY <1>2
<1>5. DataOK'
  BY <1>1, <1>3, <1>4 DEF IInv, DataOK
<1>6. FlagsOK' /\ LinkFits' /\ RingFits'
  BY <1>1, FlagsStay, LinkUp, RingStays DEF IInv, FlagsOK, Match, tableVars, Busy
<1>7. ChannelFits' /\ DeliveryFits' /\ AckFits'
  BY <1>1, <1>4, MoveFits DEF IInv, Busy, serverVars, dropVars
<1>8. TableFits'
  BY <1>1, <1>2 DEF IInv, TableFits, Candidates
<1> QED BY <1>5, <1>6, <1>7, <1>8 DEF IInv

\* Handing a message over.
LEMMA DeliverIInv ==
    ASSUME IInv, ypc \in {"found", "default"}, Deliver, entry' = entry,
           UNCHANGED <<is_connected, ringVars, tableVars, msg, to_client,
                       to_server, serverVars, disconnects, confused, unsent,
                       dropVars>>
    PROVE  IInv'
<1>1. /\ msg \in 1..messages /\ msg \in Messages /\ Busy
      /\ msg \notin Elems(to_client)
      /\ qos[msg] \in {0, 1} /\ delivered[msg] \in Nat
  BY Sizes DEF IInv, ChannelFits, DataOK, Busy, Messages
<1>2. /\ UNCHANGED <<repeat_packet_id_buf, current_packet_id_cnt, window, forgotten>>
      /\ UNCHANGED <<topic_filter, installed, to_client, to_server, qos, id, msg>>
      /\ UNCHANGED <<messages, inflight, acked, disconnects, unsent, confused>>
      /\ UNCHANGED <<event_handle, dropped>>
  BY DEF ringVars, tableVars, serverVars, dropVars
<1>3. /\ delivered' \in [Messages -> Nat] /\ delivered'[msg] = delivered[msg] + 1
      /\ \A n \in Messages \ {msg} : delivered'[n] = delivered[n]
  BY <1>1 DEF Deliver, IInv, DataOK
<1>4. /\ qos[msg] = 0 => ypc' = "read"
      /\ qos[msg] = 1 => ypc' = "remember"
  BY DEF Deliver, Handled
<1>5. DataOK'
  BY <1>1, <1>2, <1>3, <1>4 DEF IInv, DataOK
<1>6. FlagsOK' /\ LinkFits'
  BY <1>1, FlagsStay, LinkUp DEF IInv, FlagsOK, tableVars
<1>7. RingFits' /\ TableFits'
  <2>1. ypc' # "found"
    BY <1>1, <1>4
  <2> QED BY <2>1, RingStays, TableStays DEF IInv
<1>8. ChannelFits'
  BY <1>1, <1>2, <1>4 DEF IInv, ChannelFits, Busy
<1>9. DeliveryFits'
  <2>1. /\ qos[msg] = 0 => delivered[msg] = 0
        /\ qos[msg] = 1 => id[msg] \notin Elems(window)
    BY DEF IInv, DeliveryFits
  <2>2. qos[msg] = 1 /\ delivered[msg] > 0 => msg \in forgotten
    BY <1>1, <2>1 DEF IInv, DeliveryFits
  <2>3. \A n \in Messages : qos[n] = 1 /\ delivered'[n] > 0 =>
          \/ n \in forgotten \/ id[n] \in Elems(window)
          \/ (ypc' = "remember" /\ msg = n)
    <3> SUFFICES ASSUME NEW n \in Messages, qos[n] = 1, delivered'[n] > 0, n # msg
                 PROVE  n \in forgotten \/ id[n] \in Elems(window)
      BY <1>4
    <3> QED BY <1>3 DEF IInv, DeliveryFits
  <2>4. \A n \in Messages : delivered'[n] > 1 => n \in forgotten
    BY <1>1, <1>3, <2>1, <2>2 DEF IInv, DeliveryFits, DeliveredOnce
  <2>5. \A n \in Messages : n > messages => delivered'[n] = 0
    BY <1>1, <1>3, Sizes DEF IInv, DeliveryFits, Messages, DataOK
  <2>6. /\ \A n \in Messages : qos[n] = 0 => delivered'[n] <= 1
        /\ \A n \in Elems(to_client) : qos[n] = 0 => delivered'[n] = 0
    <3>1. \A n \in Elems(to_client) : n \in Messages
      BY ElementOfSeq DEF Elems, IInv, DataOK
    <3>2. \A n \in Messages : qos[n] = 0 => delivered[n] <= 1
      BY DEF IInv, DeliveryFits
    <3>3. qos[msg] = 0 => delivered'[msg] = 1
      BY <1>3, <2>1
    <3>4. \A n \in Messages : qos[n] = 0 => delivered'[n] <= 1
      BY <1>3, <3>2, <3>3
    <3>5. \A n \in Elems(to_client) : qos[n] = 0 => delivered[n] = 0
      BY DEF IInv, DeliveryFits
    <3> QED BY <1>1, <1>3, <3>1, <3>4, <3>5
  <2>7. ypc' = "remember" => id[msg] \notin Elems(window) /\ delivered'[msg] > 0
    BY <1>1, <1>3, <1>4, <2>1
  <2>8. ypc' \in {"read", "remember"}
    BY <1>1, <1>4
  <2> QED BY <1>2, <2>3, <2>4, <2>5, <2>6, <2>7, <2>8 DEF DeliveryFits, DeliveredOnce
<1>10. AckFits'
  <2>1. \A n \in Messages : delivered[n] > 0 => delivered'[n] > 0
    BY <1>1, <1>3 DEF IInv, DataOK
  <2>2. inflight \subseteq Messages /\ acked \subseteq Messages
    BY Sizes DEF IInv, DataOK, Messages
  <2>3. ypc' # "ack"
    BY <1>1, <1>4
  <2> QED BY <1>2, <2>1, <2>2, <2>3 DEF IInv, AckFits, AckedWereDelivered
<1> QED BY <1>5, <1>6, <1>7, <1>8, <1>9, <1>10 DEF IInv

LEMMA CallHandlerIInv == IInv /\ CallHandler => IInv'
<1> SUFFICES ASSUME IInv, CallHandler PROVE IInv'
  OBVIOUS
<1>1. /\ ypc = "found"
      /\ UNCHANGED <<is_connected, ringVars, tableVars, msg, to_client,
                     to_server, serverVars, disconnects, confused, unsent,
                     dropVars>>
  BY DEF CallHandler
<1>2. \/ Deliver /\ entry' = entry
      \/ ypc' = "match" /\ entry' = entry + 1 /\ delivered' = delivered
  BY Zenon DEF CallHandler
<1>3. CASE Deliver /\ entry' = entry
  BY <1>1, <1>3, DeliverIInv
<1>4. CASE ypc' = "match" /\ entry' = entry + 1 /\ delivered' = delivered
  <2>1. entry' \in 0..MAX_MESSAGE_HANDLERS
    BY <1>1, <1>4, Sizes DEF IInv, TableFits, Entries
  <2>2. /\ UNCHANGED <<repeat_packet_id_buf, current_packet_id_cnt, window, forgotten>>
        /\ UNCHANGED <<topic_filter, installed, to_client, to_server, qos, id, msg>>
        /\ UNCHANGED <<messages, inflight, acked, disconnects, unsent, confused>>
        /\ UNCHANGED <<event_handle, dropped>>
    BY <1>1 DEF ringVars, tableVars, serverVars, dropVars
  <2>3. DataOK'
    BY <1>4, <2>1, <2>2 DEF IInv, DataOK
  <2>4. FlagsOK' /\ LinkFits' /\ RingFits' /\ TableFits'
    <3>1. ypc' # "found"
      BY <1>4
    <3>2. FlagsOK' /\ LinkFits'
      BY <1>1, FlagsStay, LinkUp DEF IInv, FlagsOK, tableVars, Busy
    <3> QED BY <1>1, <3>1, <3>2, RingStays, TableStays DEF IInv
  <2>5. ChannelFits' /\ DeliveryFits' /\ AckFits'
    BY <1>1, <1>4, <2>2, MoveFits DEF IInv, Busy, serverVars, dropVars
  <2> QED BY <2>3, <2>4, <2>5 DEF IInv
<1> QED BY <1>2, <1>3, <1>4

\* Dropping a message that nobody is to be called for.
LEMMA DropIInv ==
    ASSUME IInv, ypc = "default", Handled, event_handle = "NULL",
           dropped' = dropped \cup {msg},
           UNCHANGED <<is_connected, ringVars, tableVars, msg, entry, to_client,
                       to_server, serverVars, disconnects, delivered, confused,
                       unsent, event_handle>>
    PROVE  IInv'
<1>1. /\ msg \in 1..messages /\ msg \in Messages /\ Busy
      /\ qos[msg] \in {0, 1}
  BY Sizes DEF IInv, ChannelFits, DataOK, Busy, Messages
<1>2. /\ UNCHANGED <<repeat_packet_id_buf, current_packet_id_cnt, window, forgotten>>
      /\ UNCHANGED <<topic_filter, installed, to_client, to_server, qos, id, msg>>
      /\ UNCHANGED <<messages, inflight, acked, disconnects, unsent, confused>>
      /\ UNCHANGED <<delivered, entry, event_handle>>
  BY DEF ringVars, tableVars, serverVars
<1>3. /\ qos[msg] = 0 => ypc' = "read"
      /\ qos[msg] = 1 => ypc' = "remember"
      /\ ypc' \in {"read", "remember"}
  BY <1>1 DEF Handled
<1>4. DataOK'
  BY <1>1, <1>2, <1>3 DEF IInv, DataOK
<1>5. FlagsOK' /\ LinkFits'
  BY <1>1, FlagsStay, LinkUp DEF IInv, FlagsOK, tableVars
<1>6. RingFits' /\ TableFits'
  BY <1>3, RingStays, TableStays DEF IInv
<1>7. ChannelFits'
  BY <1>1, <1>2, <1>3 DEF IInv, ChannelFits, Busy
<1>8. DeliveryFits'
  BY <1>1, <1>2, <1>3 DEF IInv, DeliveryFits, DeliveredOnce
<1>9. AckFits'
  BY <1>2, <1>3 DEF IInv, AckFits, AckedWereDelivered
<1> QED BY <1>4, <1>5, <1>6, <1>7, <1>8, <1>9 DEF IInv

LEMMA CallDefaultIInv == IInv /\ CallDefault => IInv'
<1> SUFFICES ASSUME IInv, CallDefault PROVE IInv'
  OBVIOUS
<1>1. CASE event_handle = "set"
  BY <1>1, DeliverIInv DEF CallDefault, dropVars
<1>2. CASE event_handle # "set"
  <2>1. event_handle = "NULL"
    BY <1>2 DEF IInv, DataOK
  <2> QED BY <1>2, <2>1, DropIInv DEF CallDefault
<1> QED BY <1>1, <1>2

LEMMA RememberIInv == IInv /\ Remember => IInv'
<1> SUFFICES ASSUME IInv, Remember PROVE IInv'
  OBVIOUS
<1>1. /\ ypc = "remember" /\ ypc' = "ack" /\ _add_packet_id_to_repeat_buf(id[msg])
      /\ UNCHANGED <<topic_filter, installed, to_client, to_server, qos, id, msg, entry>>
      /\ UNCHANGED <<messages, inflight, acked, disconnects, unsent, confused, delivered>>
      /\ UNCHANGED <<event_handle, dropped>>
  BY DEF Remember, tableVars, serverVars, dropVars
<1>2. /\ msg \in 1..messages /\ msg \in Messages /\ qos[msg] = 1 /\ Busy
      /\ id[msg] \in Ids /\ id[msg] \notin Elems(window)
      /\ delivered[msg] > 0 \/ msg \in dropped
  BY <1>1, Sizes DEF IInv, ChannelFits, DeliveryFits, DataOK, Busy, Messages
<1>3. ~_get_packet_id_in_repeat_buf(id[msg])
  BY <1>2, FindsWindow DEF IInv
<1>4. /\ RingFits' /\ repeat_packet_id_buf' \in [Ring -> Ids \cup {0}]
      /\ current_packet_id_cnt' \in Ring /\ window' \in Seq(Ids)
      /\ id[msg] \in Elems(window')
      /\ \A y \in Elems(window) :
           y \in Elems(window') \/ forgotten' = forgotten \cup Bearers(y)
      /\ forgotten' = forgotten
           \/ \E y \in Ids : forgotten' = forgotten \cup Bearers(y)
  BY <1>1, <1>2, <1>3, AddFits DEF IInv
<1>5. \A y : Bearers(y) \subseteq 1..messages
  <2> SUFFICES ASSUME NEW n \in Messages, delivered[n] > 0 PROVE n \in 1..messages
    BY DEF Bearers
  <2>1. ~(n > messages)
    BY DEF IInv, DeliveryFits
  <2> QED BY <2>1, Sizes DEF Messages, IInv, DataOK
<1>6. DataOK'
  <2>1. forgotten' \subseteq 1..messages
    BY <1>4, <1>5 DEF IInv, DataOK
  <2> QED BY <1>1, <1>4, <2>1 DEF IInv, DataOK
<1>7. FlagsOK' /\ LinkFits'
  BY <1>2, FlagsStay, LinkUp DEF IInv, FlagsOK, Remember, tableVars
<1>8. TableFits'
  BY <1>1, TableStays DEF IInv, Remember
<1>9. ChannelFits'
  BY <1>1, <1>2 DEF IInv, ChannelFits, Busy
<1>10. DeliveryFits'
  <2>1. forgotten \subseteq forgotten'
    BY <1>4
  <2>2. ASSUME NEW n \in Messages, qos[n] = 1, delivered[n] > 0
        PROVE  n \in forgotten' \/ id[n] \in Elems(window')
    <3>1. CASE n \in forgotten
      BY <2>1, <3>1
    <3>2. CASE id[n] \in Elems(window)
      <4>1. n \in Bearers(id[n])
        BY <2>2 DEF Bearers
      <4> QED BY <1>4, <3>2, <4>1
    <3>3. CASE msg = n
      BY <1>4, <3>3
    <3> QED BY <2>2, <3>1, <3>2, <3>3 DEF IInv, DeliveryFits
  <2>3. \A n \in Messages : delivered[n] > 1 => n \in forgotten'
    BY <2>1 DEF IInv, DeliveryFits, DeliveredOnce
  <2> QED BY <1>1, <2>2, <2>3 DEF IInv, DeliveryFits, DeliveredOnce
<1>11. AckFits'
  BY <1>1, <1>2 DEF IInv, AckFits, AckedWereDelivered
<1> QED BY <1>4, <1>6, <1>7, <1>8, <1>9, <1>10, <1>11 DEF IInv

LEMMA SendPubackIInv == IInv /\ SendPuback => IInv'
<1> SUFFICES ASSUME IInv, SendPuback PROVE IInv'
  OBVIOUS
<1>1. /\ ypc = "ack" /\ ypc' = "read" /\ to_server' = Append(to_server, id[msg])
      /\ UNCHANGED <<repeat_packet_id_buf, current_packet_id_cnt, window, forgotten>>
      /\ UNCHANGED <<topic_filter, installed, to_client, qos, id, msg, entry>>
      /\ UNCHANGED <<messages, inflight, acked, disconnects, unsent, confused, delivered>>
      /\ UNCHANGED <<event_handle, dropped>>
  BY DEF SendPuback, ringVars, tableVars, serverVars, dropVars
<1>2. /\ msg \in inflight /\ msg \notin Elems(to_client) /\ qos[msg] = 1 /\ Busy
      /\ id[msg] \in Ids /\ id[msg] \notin Elems(to_server)
      /\ delivered[msg] > 0 \/ msg \in confused \cup dropped
  BY <1>1, Sizes DEF IInv, ChannelFits, AckFits, DataOK, Busy, Messages
<1>3. /\ to_server' \in Seq(Ids) /\ Elems(to_server') = Elems(to_server) \cup {id[msg]}
      /\ Distinct(to_server')
  BY <1>1, <1>2, AddLast DEF IInv, DataOK, ChannelFits
<1>4. DataOK'
  BY <1>1, <1>3 DEF IInv, DataOK
<1>5. FlagsOK' /\ LinkFits'
  BY <1>2, FlagsStay, LinkUp DEF IInv, FlagsOK, SendPuback, tableVars
<1>6. RingFits' /\ TableFits'
  BY <1>1, RingStays, TableStays DEF IInv, SendPuback
<1>7. ChannelFits'
  BY <1>1, <1>2, <1>3 DEF IInv, ChannelFits, Busy
<1>8. DeliveryFits'
  BY <1>1 DEF IInv, DeliveryFits, DeliveredOnce
<1>9. AckFits'
  <2>1. \A n \in inflight : id[n] = id[msg] => n = msg
    BY <1>2 DEF IInv, ChannelFits
  <2> QED BY <1>1, <1>2, <1>3, <2>1 DEF IInv, AckFits, AckedWereDelivered
<1> QED BY <1>4, <1>5, <1>6, <1>7, <1>8, <1>9 DEF IInv

LEMMA SendPubackFailsIInv == IInv /\ SendPubackFails => IInv'
<1> SUFFICES ASSUME IInv, SendPubackFails PROVE IInv'
  OBVIOUS
<1>1. /\ ypc = "ack" /\ ypc' = "read" /\ unsent' = unsent \cup {msg}
      /\ UNCHANGED <<repeat_packet_id_buf, current_packet_id_cnt, window, forgotten>>
      /\ UNCHANGED <<topic_filter, installed, to_client, to_server, qos, id, msg, entry>>
      /\ UNCHANGED <<messages, inflight, acked, disconnects, confused, delivered>>
      /\ UNCHANGED <<event_handle, dropped>>
  BY DEF SendPubackFails, ringVars, tableVars, serverVars, dropVars
<1>2. msg \in 1..messages /\ Busy
  BY <1>1 DEF IInv, ChannelFits, Busy
<1>3. DataOK'
  BY <1>1, <1>2 DEF IInv, DataOK
<1>4. FlagsOK' /\ LinkFits'
  BY <1>2, FlagsStay, LinkUp DEF IInv, FlagsOK, SendPubackFails, tableVars
<1>5. RingFits' /\ TableFits'
  BY <1>1, RingStays, TableStays DEF IInv, SendPubackFails
<1>6. ChannelFits' /\ DeliveryFits' /\ AckFits'
  BY <1>1, <1>2, MoveFits DEF IInv, serverVars, dropVars
<1> QED BY <1>3, <1>4, <1>5, <1>6 DEF IInv

----------------------------------------------------------------------------
(* sub_handles keeps the invariant.                                        *)

\* A step on the entries that leaves all else alone.
LEMMA EntryStep ==
    ASSUME IInv,
           UNCHANGED <<is_connected, ringVars, ypc, msg, entry, to_client,
                       to_server, serverVars, disconnects, delivered, confused,
                       unsent, dropVars>>,
           topic_filter' \in [Entries -> {"none", "match", "other"}],
           installed' \in [Entries -> {"none", "match", "other"}],
           message_handler' \in [Entries -> BOOLEAN], TableFits'
    PROVE  IInv'
<1>1. DataOK'
  BY DEF IInv, DataOK, ringVars, serverVars, dropVars
<1>2. FlagsOK' /\ LinkFits'
  BY Zenon DEF IInv, FlagsOK, LinkFits, Busy
<1>3. RingFits'
  BY RingStays DEF IInv
<1>4. ChannelFits'
  BY DEF IInv, ChannelFits, Busy, serverVars
<1>5. DeliveryFits' /\ AckFits'
  BY DEF IInv, DeliveryFits, DeliveredOnce, AckFits, AckedWereDelivered,
         ringVars, serverVars, dropVars
<1> QED BY <1>1, <1>2, <1>3, <1>4, <1>5 DEF IInv

LEMMA InstallIInv ==
    ASSUME NEW i \in Entries, IInv, Install(i)
    PROVE  IInv'
<1>1. PICK f \in {"match", "other"}, h \in BOOLEAN :
         /\ topic_filter' = [topic_filter EXCEPT ![i] = f]
         /\ installed' = [installed EXCEPT ![i] = f]
         /\ message_handler' = [message_handler EXCEPT ![i] = h]
  BY Zenon DEF Install
<1>2. /\ topic_filter' \in [Entries -> {"none", "match", "other"}]
      /\ installed' \in [Entries -> {"none", "match", "other"}]
  BY <1>1 DEF IInv, DataOK
<1>3. message_handler' \in [Entries -> BOOLEAN]
  BY <1>1, Zenon DEF IInv, FlagsOK
<1>4. TableFits'
  <2>1. ypc = "read" /\ ypc' = "read"
    BY DEF Install
  <2> QED BY <1>1, <2>1 DEF IInv, DataOK, TableFits
<1> QED BY <1>2, <1>3, <1>4, EntryStep DEF Install

LEMMA UnsubscribeIInv ==
    ASSUME NEW i \in Entries, IInv, Unsubscribe(i)
    PROVE  IInv'
<1>1. /\ topic_filter' = [topic_filter EXCEPT ![i] = "none"]
      /\ installed' = installed /\ ypc' = ypc /\ entry' = entry
  BY DEF Unsubscribe
<1>2. /\ topic_filter' \in [Entries -> {"none", "match", "other"}]
      /\ installed' \in [Entries -> {"none", "match", "other"}]
  BY <1>1 DEF IInv, DataOK
<1>3. message_handler' \in [Entries -> BOOLEAN]
  BY Zenon DEF IInv, FlagsOK, Unsubscribe
<1>4. TableFits'
  BY <1>1 DEF IInv, DataOK, TableFits
<1> QED BY <1>2, <1>3, <1>4, EntryStep DEF Unsubscribe

----------------------------------------------------------------------------
(* The connection and the server keep the invariant.                       *)

LEMMA DisconnectIInv == IInv /\ Disconnect => IInv'
<1> SUFFICES ASSUME IInv, Disconnect PROVE IInv'
  OBVIOUS
<1>1. /\ ypc = "read" /\ ypc' = "read" /\ to_client' = << >> /\ to_server' = << >>
      /\ disconnects < MaxDisconnects /\ disconnects' = disconnects + 1
      /\ UNCHANGED <<repeat_packet_id_buf, current_packet_id_cnt, window, forgotten>>
      /\ UNCHANGED <<topic_filter, installed, qos, id, msg, entry, unsent>>
      /\ UNCHANGED <<messages, inflight, acked, confused, delivered>>
      /\ UNCHANGED <<event_handle, dropped>>
  BY DEF Disconnect, ringVars, tableVars, serverVars, dropVars
<1>2. /\ Elems(to_client') = {} /\ Distinct(to_client')
      /\ Elems(to_server') = {} /\ Distinct(to_server')
      /\ to_client' \in Seq(Messages) /\ to_server' \in Seq(Ids)
  BY <1>1, NoElems
<1>3. disconnects' \in 0..MaxDisconnects
  BY <1>1, Sizes DEF IInv, DataOK
<1>4. DataOK'
  BY <1>1, <1>2, <1>3 DEF IInv, DataOK
<1>5. FlagsOK' /\ LinkFits'
  BY <1>1, Zenon DEF IInv, FlagsOK, LinkFits, Busy, Disconnect, tableVars
<1>6. RingFits' /\ TableFits'
  BY <1>1, RingStays, TableStays DEF IInv, Disconnect
<1>7. ChannelFits'
  BY <1>1, <1>2 DEF IInv, ChannelFits, Busy
<1>8. DeliveryFits' /\ AckFits'
  BY <1>1, <1>2 DEF IInv, DeliveryFits, DeliveredOnce, AckFits, AckedWereDelivered
<1> QED BY <1>4, <1>5, <1>6, <1>7, <1>8 DEF IInv

LEMMA ReconnectIInv == IInv /\ Reconnect => IInv'
<1> SUFFICES ASSUME IInv, Reconnect PROVE IInv'
  OBVIOUS
<1>1. /\ ypc = "read" /\ ypc' = "read" /\ unsent' = {}
      /\ inflight' \in {inflight, {}} /\ to_client' \in InOrder(inflight')
      /\ UNCHANGED <<repeat_packet_id_buf, current_packet_id_cnt, window, forgotten>>
      /\ UNCHANGED <<topic_filter, installed, to_server, qos, id, msg, entry, disconnects>>
      /\ UNCHANGED <<messages, acked, confused, delivered>>
      /\ UNCHANGED <<event_handle, dropped>>
  BY DEF Reconnect, ringVars, tableVars, dropVars
<1>2. to_server = << >>
  BY Zenon DEF IInv, LinkFits, Reconnect
<1>3. inflight' \subseteq 1..messages /\ inflight' \subseteq Messages
  BY <1>1, Sizes DEF IInv, DataOK, Messages
<1>4. Cardinality(inflight') \in Nat
  <2>1. IsFiniteSet(1..messages)
    BY FS_Interval DEF IInv, DataOK
  <2> QED BY <1>3, <2>1, FS_Subset, FS_CardinalityType
<1>5. /\ to_client' \in Seq(Messages) /\ Distinct(to_client')
      /\ Elems(to_client') \subseteq inflight'
  <2> DEFINE n == Cardinality(inflight')
  <2>1. /\ n \in Nat
        /\ to_client' \in [1..n -> inflight']
        /\ \A i, j \in 1..n : i < j => to_client'[i] < to_client'[j]
    BY <1>1, <1>4 DEF InOrder
  <2> HIDE DEF n
  <2>2. DOMAIN to_client' = 1..n /\ \A i \in 1..n : to_client'[i] \in Nat
    <3>1. \A m \in inflight' : m \in Nat
      BY <1>3, Sizes DEF Messages
    <3> QED BY <2>1, <3>1
  <2>3. Distinct(to_client')
    BY <2>1, <2>2 DEF Distinct
  <2>4. to_client' \in Seq(Messages)
    <3>1. to_client' \in [1..n -> Messages]
      BY <1>3, <2>1
    <3> QED BY <2>1, <3>1
  <2> QED BY <2>1, <2>2, <2>3, <2>4 DEF Elems
<1>6. DataOK'
  BY <1>1, <1>3, <1>5 DEF IInv, DataOK
<1>7. FlagsOK' /\ LinkFits'
  BY Zenon DEF IInv, FlagsOK, LinkFits, Reconnect, tableVars
<1>8. RingFits' /\ TableFits'
  BY <1>1, RingStays, TableStays DEF IInv, Reconnect
<1>9. Elems(to_server) = {} /\ inflight' \subseteq inflight
  BY <1>1, <1>2, NoElems
<1>10. \A m \in inflight' : qos[m] = 1
  BY <1>9 DEF IInv, ChannelFits
<1>11. ChannelFits'
  BY <1>1, <1>3, <1>5, <1>9 DEF IInv, ChannelFits, Busy
<1>12. DeliveryFits'
  BY <1>1, <1>5, <1>10 DEF IInv, DeliveryFits, DeliveredOnce
<1>13. AckFits'
  BY <1>1, <1>9 DEF IInv, AckFits, AckedWereDelivered
<1> QED BY <1>6, <1>7, <1>8, <1>11, <1>12, <1>13 DEF IInv

LEMMA ServerSendsIInv ==
    ASSUME NEW q \in {0, 1}, NEW i \in Ids \cup {0}, IInv, ServerSends(q, i)
    PROVE  IInv'
<1> DEFINE n == messages + 1
<1>1. /\ messages < MaxMessages /\ messages' = n /\ to_client' = Append(to_client, n)
      /\ qos' = [qos EXCEPT ![n] = q] /\ id' = [id EXCEPT ![n] = i]
      /\ \/ q = 0 /\ i = 0 /\ inflight' = inflight
         \/ /\ q = 1 /\ i # 0 /\ \A m \in inflight : id[m] # i
            /\ inflight' = inflight \cup {n}
      /\ UNCHANGED <<repeat_packet_id_buf, current_packet_id_cnt, window, forgotten>>
      /\ UNCHANGED <<topic_filter, installed, to_server, msg, entry, ypc, disconnects>>
      /\ UNCHANGED <<acked, confused, delivered, unsent>>
      /\ UNCHANGED <<event_handle, dropped>>
  BY DEF ServerSends, ringVars, tableVars, dropVars
<1>2. /\ messages \in Nat /\ n \in Messages /\ n \notin 1..messages
      /\ n \in 1..n /\ 1..messages \subseteq 1..n /\ 1..messages \subseteq Messages
      /\ n \in 0..MaxMessages /\ n > messages
      /\ \A m \in Messages : m > n => m > messages
  BY <1>1, Sizes DEF IInv, DataOK, Messages
<1> HIDE DEF n
<1>3. /\ qos' \in [Messages -> {0, 1}] /\ qos'[n] = q
      /\ id' \in [Messages -> Ids \cup {0}] /\ id'[n] = i
      /\ \A m \in Messages \ {n} : qos'[m] = qos[m] /\ id'[m] = id[m]
  BY <1>1, <1>2 DEF IInv, DataOK
<1>4. /\ inflight \subseteq 1..messages /\ n \notin inflight
      /\ \A m \in Elems(to_client) : m \in 1..messages /\ m # n
      /\ \A m \in 1..messages : qos'[m] = qos[m] /\ id'[m] = id[m]
  BY <1>2, <1>3 DEF IInv, DataOK, ChannelFits
<1>5. /\ to_client' \in Seq(Messages) /\ Distinct(to_client')
      /\ Elems(to_client') = Elems(to_client) \cup {n}
  <2>1. to_client \in Seq(Messages) /\ Distinct(to_client) /\ n \notin Elems(to_client)
    BY <1>4 DEF IInv, DataOK, ChannelFits
  <2> QED BY <1>1, <1>2, <2>1, AddLast
<1>6. q = 1 => i \in Ids /\ i \notin Elems(to_server)
  BY <1>1 DEF IInv, ChannelFits
<1>7. DataOK'
  <2>1. inflight' \subseteq 1..n /\ acked \subseteq 1..n /\ forgotten \subseteq 1..n
        /\ confused \subseteq 1..n /\ unsent \subseteq 1..n /\ dropped \subseteq 1..n
    BY <1>1, <1>2 DEF IInv, DataOK
  <2> QED BY <1>1, <1>2, <1>3, <1>5, <2>1 DEF IInv, DataOK
<1>8. FlagsOK' /\ LinkFits'
  BY FlagsStay, LinkUp DEF IInv, FlagsOK, ServerSends, tableVars
<1>9. RingFits' /\ TableFits'
  <2>1. RingFits'
    BY RingStays DEF IInv, ServerSends
  <2> QED BY <1>1, <2>1 DEF IInv, TableFits
<1>10. Busy => msg \in 1..messages /\ msg # n
  BY <1>2 DEF IInv, ChannelFits
<1>11. ChannelFits'
  <2>1. \A m \in Messages : qos'[m] = 1 => id'[m] \in Ids
    BY <1>3, <1>6 DEF IInv, ChannelFits
  <2>2. \A m \in inflight' : qos'[m] = 1
    <3>1. \A m \in inflight : qos'[m] = 1
      BY <1>4 DEF IInv, ChannelFits
    <3> QED BY <1>1, <1>3, <3>1
  <2>3. \A m, l \in inflight' : id'[m] = id'[l] => m = l
    <3>1. CASE inflight' = inflight
      BY <1>4, <3>1 DEF IInv, ChannelFits
    <3>2. CASE inflight' = inflight \cup {n} /\ \A m \in inflight : id[m] # i
      BY <1>3, <1>4, <3>2 DEF IInv, ChannelFits
    <3> QED BY <1>1, <3>1, <3>2
  <2>4. \A m \in Elems(to_client') :
          /\ m \in 1..messages'
          /\ qos'[m] = 1 => m \in inflight' /\ id'[m] \notin Elems(to_server)
    <3>1. ASSUME NEW m \in Elems(to_client), qos'[m] = 1
          PROVE  m \in inflight' /\ id'[m] \notin Elems(to_server)
      BY <1>1, <1>4, <3>1 DEF IInv, ChannelFits
    <3>2. qos'[n] = 1 => n \in inflight' /\ id'[n] \notin Elems(to_server)
      BY <1>1, <1>3, <1>6
    <3> QED BY <1>1, <1>2, <1>4, <1>5, <3>1, <3>2
  <2>5. \A j \in Elems(to_server) : \E m \in inflight' : id'[m] = j
    <3> SUFFICES ASSUME NEW j \in Elems(to_server) PROVE \E m \in inflight' : id'[m] = j
      OBVIOUS
    <3>1. PICK m \in inflight : id[m] = j
      BY DEF IInv, ChannelFits
    <3> QED BY <1>1, <1>4, <3>1
  <2>6. Busy => /\ msg \in 1..n /\ msg \notin Elems(to_client')
                /\ qos'[msg] = 1 => msg \in inflight' /\ id'[msg] \notin Elems(to_server)
    BY <1>1, <1>2, <1>4, <1>5, <1>10 DEF IInv, ChannelFits
  <2>7. ypc \in {"remember", "ack"} => qos'[msg] = 1
    BY <1>4, <1>10 DEF IInv, ChannelFits, Busy
  <2>8. Distinct(to_server)
    BY DEF IInv, ChannelFits
  <2> QED BY <1>1, <1>5, <2>1, <2>2, <2>3, <2>4, <2>5, <2>6, <2>7, <2>8
          DEF ChannelFits, Busy
<1>12. delivered[n] = 0
  BY <1>2 DEF IInv, DeliveryFits
<1>13. DeliveryFits'
  <2>1. \A m \in Messages : m > n => delivered[m] = 0
    BY <1>2 DEF IInv, DeliveryFits
  <2>2. \A m \in Messages : qos'[m] = 1 /\ delivered[m] > 0 =>
          m \in forgotten \/ id'[m] \in Elems(window) \/ (ypc = "remember" /\ msg = m)
    <3> SUFFICES ASSUME NEW m \in Messages \ {n}, qos[m] = 1, delivered[m] > 0
                 PROVE  m \in forgotten \/ id[m] \in Elems(window)
                          \/ (ypc = "remember" /\ msg = m)
      BY <1>3, <1>12
    <3> QED BY DEF IInv, DeliveryFits
  <2>3. \A m \in Messages : qos'[m] = 0 => delivered[m] <= 1
    BY <1>3, <1>12 DEF IInv, DeliveryFits
  <2>4. \A m \in Elems(to_client') : qos'[m] = 0 => delivered[m] = 0
    BY <1>4, <1>5, <1>12 DEF IInv, DeliveryFits
  <2>5. Busy => qos'[msg] = qos[msg] /\ id'[msg] = id[msg]
    BY <1>4, <1>10
  <2>6. /\ ypc \in {"match", "found", "default"} =>
             /\ qos'[msg] = 0 => delivered[msg] = 0
             /\ qos'[msg] = 1 => id'[msg] \notin Elems(window)
        /\ ypc = "remember" => /\ id'[msg] \notin Elems(window)
                               /\ delivered[msg] > 0 \/ msg \in dropped
    BY <2>5 DEF IInv, DeliveryFits, Busy
  <2>7. DeliveredOnce
    BY DEF IInv, DeliveryFits
  <2> QED BY <1>1, <2>1, <2>2, <2>3, <2>4, <2>6, <2>7 DEF DeliveryFits, DeliveredOnce
<1>14. AckFits'
  <2>1. \A m \in inflight' : id'[m] \in Elems(to_server) =>
          delivered[m] > 0 \/ m \in confused \cup dropped
    <3>1. \A m \in inflight : id'[m] \in Elems(to_server) =>
            delivered[m] > 0 \/ m \in confused \cup dropped
      BY <1>4 DEF IInv, AckFits
    <3>2. n \in inflight' => id'[n] \notin Elems(to_server)
      BY <1>1, <1>3, <1>4, <1>6
    <3> QED BY <1>1, <3>1, <3>2
  <2> QED BY <1>1, <2>1 DEF IInv, AckFits, AckedWereDelivered
<1> QED BY <1>7, <1>8, <1>9, <1>11, <1>13, <1>14 DEF IInv

LEMMA ServerReceivesPubackIInv == IInv /\ ServerReceivesPuback => IInv'
<1> SUFFICES ASSUME IInv, ServerReceivesPuback PROVE IInv'
  OBVIOUS
<1> DEFINE j == Head(to_server)
           S == {m \in inflight : id[m] = j}
<1>1. /\ to_server # << >> /\ to_server' = Tail(to_server)
      /\ acked' = acked \cup S /\ inflight' = inflight \ S
      /\ UNCHANGED <<repeat_packet_id_buf, current_packet_id_cnt, window, forgotten>>
      /\ UNCHANGED <<topic_filter, installed, to_client, qos, id, msg, entry, ypc>>
      /\ UNCHANGED <<messages, disconnects, confused, delivered, unsent>>
      /\ UNCHANGED <<event_handle, dropped>>
  BY DEF ServerReceivesPuback, ringVars, tableVars, dropVars
<1>2. \A m : m \in S <=> m \in inflight /\ id[m] = j
  OBVIOUS
<1>3. /\ to_server' \in Seq(Ids) /\ Elems(to_server) = Elems(to_server') \cup {j}
      /\ Distinct(to_server') /\ j \notin Elems(to_server')
  BY <1>1, TakeFirst DEF IInv, DataOK, ChannelFits
<1> HIDE DEF j, S
<1>4. DataOK'
  BY <1>1, <1>2, <1>3 DEF IInv, DataOK
<1>5. FlagsOK' /\ LinkFits'
  BY <1>1, FlagsStay, LinkUp DEF IInv, FlagsOK, ServerReceivesPuback, tableVars
<1>6. RingFits' /\ TableFits'
  <2>1. RingFits'
    BY RingStays DEF IInv, ServerReceivesPuback
  <2> QED BY <1>1, <2>1 DEF IInv, TableFits
<1>7. ChannelFits'
  <2>1. \A m \in Elems(to_client) :
          /\ m \in 1..messages
          /\ qos[m] = 1 => m \in inflight' /\ id[m] \notin Elems(to_server')
    BY <1>1, <1>2, <1>3 DEF IInv, ChannelFits
  <2>2. \A i \in Elems(to_server') : \E m \in inflight' : id[m] = i
    <3> SUFFICES ASSUME NEW i \in Elems(to_server') PROVE \E m \in inflight' : id[m] = i
      OBVIOUS
    <3>1. PICK m \in inflight : id[m] = i
      BY <1>3 DEF IInv, ChannelFits
    <3> QED BY <1>1, <1>2, <1>3, <3>1
  <2>3. Busy => /\ msg \in 1..messages /\ msg \notin Elems(to_client)
                /\ qos[msg] = 1 => msg \in inflight' /\ id[msg] \notin Elems(to_server')
    BY <1>1, <1>2, <1>3 DEF IInv, ChannelFits
  <2> QED BY <1>1, <1>3, <2>1, <2>2, <2>3 DEF IInv, ChannelFits, Busy
<1>8. DeliveryFits'
  BY <1>1 DEF IInv, DeliveryFits, DeliveredOnce
<1>9. AckFits'
  <2>1. \A m \in S : delivered[m] > 0 \/ m \in confused \cup dropped
    BY <1>2, <1>3 DEF IInv, AckFits
  <2> QED BY <1>1, <1>3, <2>1 DEF IInv, AckFits, AckedWereDelivered
<1> QED BY <1>4, <1>5, <1>6, <1>7, <1>8, <1>9 DEF IInv

----------------------------------------------------------------------------
(* The theorems.                                                           *)

LEMMA NextIInv == IInv /\ [Next]_vars => IInv'
<1> SUFFICES ASSUME IInv, [Next]_vars PROVE IInv'
  OBVIOUS
<1>1. CASE ReadPublish
  BY <1>1, ReadPublishIInv
<1>2. CASE Match
  BY <1>2, MatchIInv
<1>3. CASE CallHandler
  BY <1>3, CallHandlerIInv
<1>4. CASE CallDefault
  BY <1>4, CallDefaultIInv
<1>5. CASE Remember
  BY <1>5, RememberIInv
<1>6. CASE SendPuback
  BY <1>6, SendPubackIInv
<1>7. CASE SendPubackFails
  BY <1>7, SendPubackFailsIInv
<1>8. CASE Disconnect
  BY <1>8, DisconnectIInv
<1>9. CASE Reconnect
  BY <1>9, ReconnectIInv
<1>10. ASSUME NEW i \in Entries, Install(i) PROVE IInv'
  BY <1>10, InstallIInv
<1>11. ASSUME NEW i \in Entries, Unsubscribe(i) PROVE IInv'
  BY <1>11, UnsubscribeIInv
<1>12. ASSUME NEW q \in {0, 1}, NEW i \in Ids \cup {0}, ServerSends(q, i) PROVE IInv'
  BY <1>12, ServerSendsIInv
<1>13. CASE ServerReceivesPuback
  BY <1>13, ServerReceivesPubackIInv
<1>14. CASE UNCHANGED vars
  <2>1. /\ UNCHANGED <<is_connected, ringVars, ypc, msg, entry, to_client,
                       to_server, serverVars, disconnects, delivered, confused,
                       unsent, dropVars>>
        /\ UNCHANGED <<topic_filter, installed, message_handler>>
    BY <1>14 DEF vars, ringVars, serverVars, dropVars
  <2>2. TableFits'
    BY <2>1 DEF IInv, TableFits
  <2>3. message_handler' \in [Entries -> BOOLEAN]
    BY <2>1, Zenon DEF IInv, FlagsOK
  <2>4. /\ topic_filter' \in [Entries -> {"none", "match", "other"}]
        /\ installed' \in [Entries -> {"none", "match", "other"}]
    BY <2>1 DEF IInv, DataOK
  <2> QED BY <2>1, <2>2, <2>3, <2>4, EntryStep
<1> QED BY <1>1, <1>2, <1>3, <1>4, <1>5, <1>6, <1>7, <1>8, <1>9, <1>10,
           <1>11, <1>12, <1>13, <1>14 DEF Next, Yield, Server

LEMMA SpecIInv == Spec => []IInv
BY InitIInv, NextIInv, PTL DEF Spec

\* The state of the receiver has its types; in particular the ring is never
\* written outside its bounds.
THEOREM TypeCorrect == Spec => []TypeOK
<1>1. IInv => TypeOK
  BY Zenon DEF IInv, DataOK, FlagsOK, TypeOK
<1> QED BY <1>1, SpecIInv, PTL

\* The ring of packet ids always holds the ids remembered last, each once:
\* _add_packet_id_to_repeat_buf overwrites the oldest, whatever the size.
THEOREM RingHoldsWindow == Spec => []RingIsWindow
<1>1. IInv => RingIsWindow
  BY DEF IInv, RingFits, RingIsWindow, Distinct
<1> QED BY <1>1, SpecIInv, PTL

\* No message is handed over twice while the ring remembers its id.
THEOREM DeliversOnce == Spec => []DeliveredOnce
<1>1. IInv => DeliveredOnce
  BY DEF IInv, DeliveryFits
<1> QED BY <1>1, SpecIInv, PTL

\* No QoS 1 message is acknowledged that was not handed over, except one that
\* came with the id of another one still in the ring, and one that no entry
\* had a handler for, which only a client without a default handler drops.
THEOREM AcknowledgesDelivered == Spec => []AckedWereDelivered
<1>1. IInv => AckedWereDelivered
  BY DEF IInv, AckFits
<1> QED BY <1>1, SpecIInv, PTL

\* The handler _deliver_message calls without the lock belongs to a
\* subscription to the message's topic.
THEOREM HandlersMatch == Spec => HandlerOfMatch
<1>1. IInv /\ [Next]_vars =>
        [ypc = "found" /\ delivered' # delivered => installed[entry] = "match"]_vars
  BY DEF IInv, TableFits
<1> QED BY <1>1, SpecIInv, PTL DEF Spec, HandlerOfMatch

----------------------------------------------------------------------------
(* The question _deliver_message asks of every entry: _is_topic_matched,   *)
(* which MqttReceive takes as answered, as TopicMatch models it, for any   *)
(* alphabet and filters and names of any length.                           *)

\* The separators of s, how many there are, and how many up to position i.
Count(s) == Cardinality(Separators(s))
UpTo(s, i) == {j \in Separators(s) : j <= i}
Rank(s, i) == Cardinality(UpTo(s, i))

LEMMA SeparatorIs ==
    ASSUME NEW s, NEW k
    PROVE  Separator(s, k) =
             IF k = 0 THEN 0
             ELSE IF k \notin 1..Count(s) THEN Len(s) + 1
             ELSE CHOOSE i \in Separators(s) : Rank(s, i) = k
BY Zenon DEF Separator, Count, Rank, UpTo

LEMMA SepsAreFinite ==
    ASSUME NEW S, NEW s \in Seq(S)
    PROVE  /\ Len(s) \in Nat /\ Separators(s) \subseteq 1..Len(s) /\ IsFiniteSet(Separators(s))
           /\ Count(s) \in Nat
           /\ \A i : IsFiniteSet(UpTo(s, i)) /\ Rank(s, i) \in Nat /\ Rank(s, i) <= Count(s)
<1>1. Len(s) \in Nat /\ DOMAIN s = 1..Len(s)
  BY LenProperties
<1>2. Separators(s) \subseteq 1..Len(s)
  BY <1>1 DEF Separators
<1>3. IsFiniteSet(1..Len(s))
  BY <1>1, FS_Interval
<1>4. IsFiniteSet(Separators(s)) /\ Count(s) \in Nat
  BY <1>2, <1>3, FS_Subset, FS_CardinalityType DEF Count
<1>5. ASSUME NEW i PROVE IsFiniteSet(UpTo(s, i)) /\ Rank(s, i) \in Nat /\ Rank(s, i) <= Count(s)
  <2>1. UpTo(s, i) \subseteq Separators(s)
    BY DEF UpTo
  <2> QED BY <1>4, <2>1, FS_Subset, FS_CardinalityType DEF Rank, Count
<1> QED BY <1>1, <1>2, <1>4, <1>5

LEMMA RankGrows ==
    ASSUME NEW S, NEW s \in Seq(S), NEW i \in Nat, NEW j \in Nat, i < j
    PROVE  /\ Rank(s, i) <= Rank(s, j)
           /\ j \in Separators(s) => Rank(s, i) < Rank(s, j)
<1>1. UpTo(s, i) \subseteq UpTo(s, j)
  BY SepsAreFinite DEF UpTo
<1>2. Rank(s, i) <= Rank(s, j)
  BY <1>1, SepsAreFinite, FS_Subset DEF Rank
<1>3. ASSUME j \in Separators(s) PROVE UpTo(s, i) # UpTo(s, j)
  <2>1. j \in UpTo(s, j) /\ j \notin UpTo(s, i)
    BY <1>3 DEF UpTo
  <2> QED BY <2>1
<1>4. ASSUME j \in Separators(s) PROVE Rank(s, i) < Rank(s, j)
  BY <1>1, <1>3, <1>4, SepsAreFinite, FS_Subset DEF Rank
<1> QED BY <1>2, <1>4

LEMMA RankStep ==
    ASSUME NEW S, NEW s \in Seq(S), NEW i \in Nat
    PROVE  Rank(s, i + 1) = IF i + 1 \in Separators(s) THEN Rank(s, i) + 1 ELSE Rank(s, i)
<1>1. CASE i + 1 \in Separators(s)
  <2>1. UpTo(s, i + 1) = UpTo(s, i) \cup {i + 1} /\ i + 1 \notin UpTo(s, i)
    BY <1>1, SepsAreFinite DEF UpTo
  <2>2. Cardinality(UpTo(s, i) \cup {i + 1}) = Cardinality(UpTo(s, i)) + 1
    BY <2>1, SepsAreFinite, FS_AddElement
  <2> QED BY <1>1, <2>1, <2>2 DEF Rank
<1>2. CASE i + 1 \notin Separators(s)
  <2>1. UpTo(s, i + 1) = UpTo(s, i)
    BY <1>2, SepsAreFinite DEF UpTo
  <2> QED BY <1>2, <2>1 DEF Rank
<1> QED BY <1>1, <1>2

LEMMA RankEnds ==
    ASSUME NEW S, NEW s \in Seq(S)
    PROVE  Rank(s, 0) = 0 /\ Rank(s, Len(s)) = Count(s)
<1>1. UpTo(s, 0) = {} /\ UpTo(s, Len(s)) = Separators(s)
  BY SepsAreFinite DEF UpTo
<1> QED BY <1>1, FS_EmptySet DEF Rank, Count

\* The k-th separator is the one of rank k: ranks leave out no number.
LEMMA SeparatorHasRank ==
    ASSUME NEW S, NEW s \in Seq(S), NEW k \in 1..Count(s)
    PROVE  Separator(s, k) \in Separators(s) /\ Rank(s, Separator(s, k)) = k
<1> DEFINE T == {i \in 0..Len(s) : Rank(s, i) >= k}
<1>1. T \subseteq Nat /\ Len(s) \in T
  BY SepsAreFinite, RankEnds
<1>2. PICK i \in T : \A j \in T : i <= j
  BY <1>1, LeastExists
<1>3. i \in 0..Len(s) /\ Rank(s, i) >= k /\ i # 0
  BY <1>2, RankEnds, SepsAreFinite
<1>4. i - 1 \in Nat /\ i - 1 \in 0..Len(s) /\ (i - 1) + 1 = i
  BY <1>3, SepsAreFinite
<1>5. Rank(s, i - 1) < k
  BY <1>2, <1>4, SepsAreFinite
<1>6. Rank(s, (i - 1) + 1) =
        IF (i - 1) + 1 \in Separators(s) THEN Rank(s, i - 1) + 1 ELSE Rank(s, i - 1)
  BY <1>4, RankStep
<1>7. i \in Separators(s) /\ Rank(s, i) = k
  BY <1>3, <1>4, <1>5, <1>6, SepsAreFinite
<1>8. Separator(s, k) = CHOOSE x \in Separators(s) : Rank(s, x) = k
  <2>1. k # 0 /\ ~(k \notin 1..Count(s))
    OBVIOUS
  <2> QED BY <2>1, SeparatorIs, Zenon
<1> QED BY <1>7, <1>8

\* The separators before and after a level, and nothing but ordinary
\* characters between them.
LEMMA LevelBounds ==
    ASSUME NEW S, NEW s \in Seq(S), NEW k \in 0..Count(s)
    PROVE  /\ Separator(s, k) \in 0..Len(s)
           /\ Separator(s, k + 1) \in 1..(Len(s) + 1)
           /\ Separator(s, k) < Separator(s, k + 1)
           /\ k >= 1 => s[Separator(s, k)] = "/" /\ Separator(s, k) >= 1
           /\ k = 0 => Separator(s, k) = 0
           /\ k < Count(s) => /\ Separator(s, k + 1) <= Len(s)
                              /\ s[Separator(s, k + 1)] = "/"
           /\ k = Count(s) => Separator(s, k + 1) = Len(s) + 1
           /\ \A i \in 1..Len(s) :
                Separator(s, k) < i /\ i < Separator(s, k + 1) => s[i] # "/"
<1> DEFINE a == Separator(s, k)
           b == Separator(s, k + 1)
<1>1. Len(s) \in Nat /\ Count(s) \in Nat /\ DOMAIN s = 1..Len(s) /\ k \in Nat
  BY SepsAreFinite, LenProperties
<1>2. k = 0 => a = 0
  BY SeparatorIs
<1>3. k # 0 => a \in Separators(s) /\ Rank(s, a) = k
  BY <1>1, SeparatorHasRank
<1>4. k < Count(s) => b \in Separators(s) /\ Rank(s, b) = k + 1
  <2>1. k < Count(s) => k + 1 \in 1..Count(s)
    BY <1>1
  <2> QED BY <2>1, SeparatorHasRank
<1>5. k = Count(s) => b = Len(s) + 1
  <2>1. k = Count(s) => k + 1 # 0 /\ k + 1 \notin 1..Count(s)
    BY <1>1
  <2> QED BY <2>1, SeparatorIs
<1>6. \A i \in Separators(s) : i \in 1..Len(s) /\ s[i] = "/"
  BY SepsAreFinite DEF Separators
<1> HIDE DEF a, b
<1>7. a \in 0..Len(s) /\ b \in 1..(Len(s) + 1) /\ a \in Nat /\ b \in Nat
  BY <1>1, <1>2, <1>3, <1>4, <1>5, <1>6
<1>8. Rank(s, a) = k
  BY <1>2, <1>3, RankEnds
<1>9. a < b
  <2>1. CASE k = Count(s)
    BY <1>1, <1>5, <1>7, <2>1
  <2>2. CASE k < Count(s)
    <3> SUFFICES ASSUME b <= a PROVE FALSE
      BY <1>7
    <3>1. Rank(s, b) = k + 1
      BY <1>4, <2>2
    <3>2. b = a \/ b < a
      BY <1>7
    <3>3. b < a => Rank(s, b) <= Rank(s, a)
      BY <1>7, RankGrows
    <3> QED BY <1>1, <1>8, <3>1, <3>2, <3>3
  <2> QED BY <1>1, <2>1, <2>2
<1>10. ASSUME NEW i \in 1..Len(s), a < i, i < b PROVE s[i] # "/"
  <2> SUFFICES ASSUME s[i] = "/" PROVE FALSE
    OBVIOUS
  <2>1. i \in Separators(s) /\ i \in Nat
    BY <1>1 DEF Separators
  <2>2. Rank(s, i) > k /\ Rank(s, i) \in Nat
    BY <1>7, <1>8, <1>10, <2>1, RankGrows, SepsAreFinite
  <2>3. CASE k = Count(s)
    BY <2>2, <2>3, SepsAreFinite
  <2>4. CASE k < Count(s)
    <3>1. Rank(s, i) < Rank(s, b) /\ Rank(s, b) = k + 1
      BY <1>4, <1>7, <1>10, <2>1, <2>4, RankGrows
    <3> QED BY <1>1, <2>2, <3>1
  <2> QED BY <1>1, <2>3, <2>4
<1>11. k >= 1 => s[a] = "/" /\ a >= 1
  BY <1>1, <1>3, <1>6
<1>12. k < Count(s) => b <= Len(s) /\ s[b] = "/"
  BY <1>1, <1>4, <1>6
<1> QED BY <1>2, <1>5, <1>7, <1>9, <1>10, <1>11, <1>12 DEF a, b

LEMMA DepthIs ==
    ASSUME NEW S, NEW s \in Seq(S)
    PROVE  /\ Levels(s) = 1..(Count(s) + 1)
           /\ Cardinality(Levels(s)) = Count(s) + 1
           /\ Count(s) \in Nat
<1>1. Count(s) \in Nat
  BY SepsAreFinite
<1>2. Levels(s) = 1..(Count(s) + 1)
  BY DEF Levels, Count
<1>3. Cardinality(1..(Count(s) + 1)) = Count(s) + 1
  BY <1>1, FS_Interval
<1> QED BY <1>1, <1>2, <1>3

\* The last level of s.
Last(s) == Level(s, Count(s) + 1)

LEMMA LevelIs ==
    ASSUME NEW S, NEW s \in Seq(S), NEW k \in 0..Count(s)
    PROVE  /\ Level(s, k + 1) \in Seq(S)
           /\ Level(s, k + 1) = SubSeq(s, Separator(s, k) + 1, Separator(s, k + 1) - 1)
           /\ Len(Level(s, k + 1)) = Separator(s, k + 1) - Separator(s, k) - 1
           /\ \A d \in 1..(Separator(s, k + 1) - Separator(s, k) - 1) :
                /\ Level(s, k + 1)[d] = s[Separator(s, k) + d]
                /\ Separator(s, k) + d \in 1..Len(s)
<1> DEFINE a == Separator(s, k)
           b == Separator(s, k + 1)
           L == Level(s, k + 1)
<1>1. Len(s) \in Nat /\ a \in 0..Len(s) /\ b \in 1..(Len(s) + 1) /\ a < b
  BY LevelBounds, SepsAreFinite
<1>2. L = SubSeq(s, a + 1, b - 1)
  <2>1. (k + 1) - 1 = k
    BY SepsAreFinite
  <2> QED BY <2>1 DEF Level
<1> HIDE DEF a, b, L
<1>3. a + 1 \in 1..(Len(s) + 1) /\ b - 1 \in a..Len(s) /\ b - 1 \in (a + 1) - 1 .. Len(s)
  BY <1>1
<1>4. ASSUME NEW m \in 1..(Len(s) + 1), NEW n \in (m - 1)..Len(s), L = SubSeq(s, m, n)
      PROVE  /\ L \in Seq(S) /\ Len(L) = n - m + 1
             /\ \A d \in 1..(n - m + 1) : L[d] = s[m + d - 1]
  BY <1>4, SubSeqProperties
<1>5. /\ L \in Seq(S) /\ Len(L) = (b - 1) - (a + 1) + 1
      /\ \A d \in 1..((b - 1) - (a + 1) + 1) : L[d] = s[(a + 1) + d - 1]
  BY <1>2, <1>3, <1>4
<1>6. (b - 1) - (a + 1) + 1 = b - a - 1
  BY <1>1
<1>7. ASSUME NEW d \in 1..(b - a - 1) PROVE L[d] = s[a + d] /\ a + d \in 1..Len(s)
  <2>1. (a + 1) + d - 1 = a + d /\ a + d \in 1..Len(s)
    BY <1>1
  <2> QED BY <1>5, <1>6, <2>1
<1> QED BY <1>2, <1>5, <1>6, <1>7 DEF a, b, L

Chars == Letters \cup {"/", "+", "#"}

LEMMA StringIs ==
    ASSUME NEW C, NEW max \in Nat, NEW s \in Strings(C, max)
    PROVE  s \in Seq(C) /\ Len(s) \in Nat /\ Len(s) >= 1 /\ \A i \in 1..Len(s) : s[i] \in C
<1>1. PICK m \in 1..max : s \in [1..m -> C]
  BY DEF Strings
<1>2. m \in Nat /\ s \in Seq(C)
  BY <1>1
<1>3. Len(s) = m
  BY <1>1, <1>2
<1> QED BY <1>1, <1>2, <1>3

LEMMA FilterIs ==
    ASSUME NEW f \in Filters
    PROVE  /\ f \in Seq(Chars) /\ Len(f) \in Nat /\ Len(f) >= 1
           /\ \A i \in 1..Len(f) : f[i] \in Chars /\ f[i] # "NUL"
           /\ WellFormed(f)
<1>1. f \in Strings(Chars, MaxFilter) /\ WellFormed(f)
  BY DEF Filters, Chars
<1>2. "NUL" \notin Chars
  BY LettersAssumption DEF Chars
<1> QED BY <1>1, <1>2, StringIs, LettersAssumption, LengthsAssumption

LEMMA NameIs ==
    ASSUME NEW n \in Names
    PROVE  /\ n \in Seq(Chars) /\ Len(n) \in Nat /\ Len(n) >= 1
           /\ \A i \in 1..Len(n) : n[i] \in Letters \cup {"/"} /\ n[i] \notin {"+", "#", "NUL"}
<1>1. n \in Strings(Letters \cup {"/"}, MaxName)
  BY DEF Names
<1>2. /\ n \in Seq(Letters \cup {"/"}) /\ Len(n) \in Nat /\ Len(n) >= 1
      /\ \A i \in 1..Len(n) : n[i] \in Letters \cup {"/"}
  BY <1>1, StringIs, LettersAssumption, LengthsAssumption
<1>3. n \in Seq(Chars)
  BY <1>2 DEF Chars
<1> QED BY <1>2, <1>3, LettersAssumption, LengthsAssumption

\* A wildcard is a level of its own, and # the last one.
LEMMA WildAlone ==
    ASSUME NEW f \in Filters, NEW k \in 0..Count(f), NEW i \in 1..Len(f),
           Separator(f, k) < i, i < Separator(f, k + 1), f[i] \in {"+", "#"}
    PROVE  /\ i = Separator(f, k) + 1 /\ i + 1 = Separator(f, k + 1)
           /\ f[i] = "#" => k = Count(f)
           /\ Level(f, k + 1) = <<f[i]>>
<1> DEFINE a == Separator(f, k)
           b == Separator(f, k + 1)
           L == Level(f, k + 1)
<1>1. f \in Seq(Chars) /\ Count(f) \in Nat /\ Len(f) \in Nat
  BY FilterIs, SepsAreFinite
<1>2. /\ L \in Seq(Chars) /\ Len(L) = b - a - 1
      /\ \A d \in 1..(b - a - 1) : L[d] = f[a + d]
  BY <1>1, LevelIs
<1>3. a \in Nat /\ b \in Nat /\ a < i /\ i < b
  BY <1>1, LevelBounds
<1>4. \/ \A j \in DOMAIN L : L[j] \in Letters
      \/ L = <<"+">>
      \/ L = <<"#">> /\ k + 1 = Count(f) + 1
  <2>1. WellFormed(f)
    BY FilterIs
  <2>2. Cardinality(Levels(f)) = Count(f) + 1 /\ Levels(f) = 1..(Count(f) + 1)
    BY <1>1, DepthIs
  <2>3. k + 1 \in 1..(Count(f) + 1)
    BY <1>1
  <2> QED BY <2>1, <2>2, <2>3 DEF WellFormed
<1> HIDE DEF a, b, L
<1>5. i - a \in 1..(b - a - 1) /\ a + (i - a) = i /\ i - a \in 1..Len(L)
  BY <1>2, <1>3
<1>6. L[i - a] = f[i]
  BY <1>2, <1>5
<1>7. f[i] \notin Letters
  BY LettersAssumption
<1>8. DOMAIN L = 1..Len(L)
  BY <1>2, LenProperties
<1>9. L = <<"+">> \/ (L = <<"#">> /\ k + 1 = Count(f) + 1)
  BY <1>4, <1>5, <1>6, <1>7, <1>8
<1>10. Len(L) = 1 /\ L = <<L[1]>>
  BY <1>9
<1>11. i = a + 1 /\ i + 1 = b
  <2>1. b - a - 1 = 1
    BY <1>2, <1>10
  <2>2. i \in Nat /\ i - a \in 1..1
    BY <1>5, <2>1
  <2> QED BY <1>3, <2>1, <2>2
<1>12. f[i] = L[1]
  <2>1. i - a = 1
    BY <1>3, <1>11
  <2> QED BY <1>6, <2>1
<1>13. f[i] = "#" => k = Count(f)
  <2>1. f[i] = "#" => L # <<"+">>
    <3>1. L = <<"+">> => L[1] = "+"
      OBVIOUS
    <3> QED BY <1>12, <3>1
  <2>2. f[i] = "#" => k + 1 = Count(f) + 1
    BY <1>9, <2>1
  <2> QED BY <1>1, <2>2
<1> QED BY <1>10, <1>11, <1>12, <1>13 DEF a, b, L

\* MQTT's definition, in terms of the levels' numbers.
LEMMA MatchesIs ==
    ASSUME NEW S, NEW T, NEW f \in Seq(S), NEW n \in Seq(T)
    PROVE  /\ Last(f) = <<"#">> =>
                (Matches(f, n) <=> \A k \in 1..Count(f) :
                                           k <= Count(n) + 1 /\ LevelMatches(f, n, k))
           /\ Last(f) # <<"#">> =>
                (Matches(f, n) <=> /\ Count(n) = Count(f)
                                         /\ \A k \in 1..(Count(f) + 1) :
                                              LevelMatches(f, n, k))
<1>1. /\ Levels(f) = 1..(Count(f) + 1) /\ Levels(n) = 1..(Count(n) + 1)
      /\ Count(f) \in Nat /\ Count(n) \in Nat
      /\ Cardinality(Levels(f)) = Count(f) + 1
  BY DepthIs
<1>2. (Count(f) + 1) - 1 = Count(f)
  BY <1>1
<1>3. \A k \in 1..Count(f) : k \in 1..(Count(n) + 1) <=> k <= Count(n) + 1
  BY <1>1
<1>4. Levels(n) = Levels(f) <=> Count(n) = Count(f)
  <2>1. ASSUME NEW x \in Nat, NEW y \in Nat, 1..(x + 1) = 1..(y + 1) PROVE x = y
    <3>1. x + 1 \in 1..(y + 1) /\ y + 1 \in 1..(x + 1)
      BY <2>1
    <3> QED BY <3>1
  <2> QED BY <1>1, <2>1
<1>5. CASE Last(f) = <<"#">>
  <2>1. Matches(f, n) <=>
          \A k \in 1..((Count(f) + 1) - 1) : k \in Levels(n) /\ LevelMatches(f, n, k)
    BY <1>1, <1>5, Zenon DEF Matches, Last
  <2> QED BY <1>1, <1>2, <1>3, <1>5, <2>1
<1>6. CASE Last(f) # <<"#">>
  <2>1. Matches(f, n) <=> /\ Levels(n) = Levels(f)
                                /\ \A k \in Levels(f) : LevelMatches(f, n, k)
    BY <1>1, <1>6, Zenon DEF Matches, Last
  <2> QED BY <1>1, <1>4, <1>6, <2>1
<1> QED BY <1>5, <1>6

\* Two levels with the same characters, here and there.
SameLevel(f, n, k) ==
    /\ Separator(f, k + 1) - Separator(f, k) = Separator(n, k + 1) - Separator(n, k)
    /\ \A d \in 1..(Separator(f, k + 1) - Separator(f, k) - 1) :
         f[Separator(f, k) + d] = n[Separator(n, k) + d]

LEMMA SameLevels ==
    ASSUME NEW S, NEW T, NEW f \in Seq(S), NEW n \in Seq(T),
           NEW k \in 0..Count(f), k <= Count(n)
    PROVE  Level(f, k + 1) = Level(n, k + 1) <=> SameLevel(f, n, k)
<1> DEFINE a == Separator(f, k)
           b == Separator(f, k + 1)
           c == Separator(n, k)
           e == Separator(n, k + 1)
           L == Level(f, k + 1)
           M == Level(n, k + 1)
<1>1. k \in 0..Count(n)
  BY SepsAreFinite
<1>2. /\ L \in Seq(S) /\ Len(L) = b - a - 1 /\ \A d \in 1..(b - a - 1) : L[d] = f[a + d]
      /\ M \in Seq(T) /\ Len(M) = e - c - 1 /\ \A d \in 1..(e - c - 1) : M[d] = n[c + d]
  BY <1>1, LevelIs
<1>3. /\ a \in Nat /\ b \in Nat /\ a < b /\ c \in Nat /\ e \in Nat /\ c < e
  BY <1>1, LevelBounds, SepsAreFinite
<1>4. SameLevel(f, n, k) <=> b - a = e - c /\ \A d \in 1..(b - a - 1) : f[a + d] = n[c + d]
  BY DEF SameLevel
<1> HIDE DEF a, b, c, e, L, M
<1>5. ASSUME L = M PROVE SameLevel(f, n, k)
  <2>1. b - a - 1 = e - c - 1
    BY <1>2, <1>5
  <2>2. b - a = e - c
    BY <1>3, <2>1
  <2> QED BY <1>2, <1>4, <1>5, <2>1, <2>2
<1>6. ASSUME SameLevel(f, n, k) PROVE L = M
  <2>1. Len(L) = Len(M) /\ \A d \in 1..Len(L) : L[d] = M[d]
    BY <1>2, <1>4, <1>6
  <2> QED BY <1>2, <2>1, SeqEqual
<1> QED BY <1>5, <1>6 DEF L, M

LEMMA LevelMatchesIs ==
    ASSUME NEW f \in Filters, NEW n \in Names,
           NEW k \in 0..Count(f), k <= Count(n)
    PROVE  /\ LevelMatches(f, n, k + 1) <=>
                Level(f, k + 1) = <<"+">> \/ SameLevel(f, n, k)
           /\ Level(f, k + 1) = <<"+">> <=>
                /\ Separator(f, k) + 1 \in 1..Len(f) /\ f[Separator(f, k) + 1] = "+"
           /\ Level(f, k + 1) = <<"#">> <=>
                /\ Separator(f, k) + 1 \in 1..Len(f) /\ f[Separator(f, k) + 1] = "#"
<1>1. f \in Seq(Chars) /\ n \in Seq(Chars)
  BY FilterIs, NameIs
<1>2. LevelMatches(f, n, k + 1) <=>
        Level(f, k + 1) = <<"+">> \/ SameLevel(f, n, k)
  BY <1>1, SameLevels DEF LevelMatches
<1> DEFINE a == Separator(f, k)
           b == Separator(f, k + 1)
           L == Level(f, k + 1)
<1>3. ASSUME NEW x \in {"+", "#"}, L = <<x>> PROVE a + 1 \in 1..Len(f) /\ f[a + 1] = x
  <2>1. Len(L) = 1 /\ L[1] = x
    BY <1>3
  <2>2. Len(L) = b - a - 1 /\ \A d \in 1..(b - a - 1) : L[d] = f[a + d] /\ a + d \in 1..Len(f)
    BY <1>1, LevelIs
  <2> HIDE DEF a, b, L
  <2>3. b - a - 1 = 1
    BY <2>1, <2>2, Zenon
  <2>4. L[1] = f[a + 1] /\ a + 1 \in 1..Len(f)
    BY <2>2, <2>3
  <2> QED BY <2>1, <2>4
<1>4. ASSUME NEW x \in {"+", "#"}, a + 1 \in 1..Len(f), f[a + 1] = x PROVE L = <<x>>
  <2>1. a \in Nat /\ b \in Nat /\ a < b
    BY <1>1, LevelBounds, SepsAreFinite
  <2>2. b # a + 1
    <3>1. k < Count(f) => f[b] = "/"
      BY <1>1, LevelBounds
    <3>2. k = Count(f) => b = Len(f) + 1
      BY <1>1, LevelBounds
    <3>3. Len(f) \in Nat /\ Count(f) \in Nat
      BY <1>1, SepsAreFinite
    <3> QED BY <1>4, <2>1, <3>1, <3>2, <3>3
  <2>3. a < a + 1 /\ a + 1 < b
    BY <2>1, <2>2
  <2> HIDE DEF a, b, L
  <2>4. ASSUME NEW i \in 1..Len(f), a < i, i < b, f[i] \in {"+", "#"} PROVE L = <<f[i]>>
    BY <2>4, WildAlone DEF a, b, L
  <2> QED BY <1>4, <2>3, <2>4
<1> QED BY <1>2, <1>3, <1>4

----------------------------------------------------------------------------
(* Where _is_topic_matched is in its two strings: position i of filter f   *)
(* and position j of name n are in the levels with the same number, the    *)
(* levels before them match, and in these levels they are at the same      *)
(* character, behind a + and what it stands for, or behind a final #.      *)

Reached(f, n, k) ==
    /\ k \in 0..Count(f) /\ k <= Count(n)
    /\ \A m \in 1..k : LevelMatches(f, n, m)

AtChar(f, n, i, j, k) ==
    /\ i \in Nat /\ j \in Nat
    /\ Separator(f, k) < i /\ i <= Separator(f, k + 1) /\ j <= Separator(n, k + 1)
    /\ i - Separator(f, k) = j - Separator(n, k)
    /\ \A d \in 1..(i - Separator(f, k) - 1) : f[Separator(f, k) + d] = n[Separator(n, k) + d]

AfterPlus(f, n, i, j, k) ==
    /\ Level(f, k + 1) = <<"+">>
    /\ i = Separator(f, k + 1) /\ j = Separator(n, k + 1)

AfterHash(f, n, i, j, k) ==
    /\ Level(f, k + 1) = <<"#">> /\ k = Count(f)
    /\ i = Len(f) + 1 /\ j = Len(n) + 1

Aligned(f, n, i, j) ==
    \E k \in Nat : /\ Reached(f, n, k)
                   /\ \/ AtChar(f, n, i, j, k)
                      \/ AfterPlus(f, n, i, j, k)
                      \/ AfterHash(f, n, i, j, k)

\* The bounds of level k + 1 in either string, for a level that is reached.
Bounds(s, k) ==
    /\ Len(s) \in Nat /\ Count(s) \in Nat /\ k \in Nat /\ k <= Count(s)
    /\ Separator(s, k) \in Nat /\ Separator(s, k) <= Len(s)
    /\ Separator(s, k + 1) \in Nat /\ Separator(s, k + 1) <= Len(s) + 1
    /\ Separator(s, k) < Separator(s, k + 1)
    /\ k >= 1 => s[Separator(s, k)] = "/" /\ Separator(s, k) >= 1
    /\ k = 0 => Separator(s, k) = 0
    /\ k < Count(s) => Separator(s, k + 1) <= Len(s) /\ s[Separator(s, k + 1)] = "/"
    /\ k = Count(s) => Separator(s, k + 1) = Len(s) + 1
    /\ \A i \in 1..Len(s) : Separator(s, k) < i /\ i < Separator(s, k + 1) => s[i] # "/"

LEMMA BoundsHold ==
    ASSUME NEW S, NEW s \in Seq(S), NEW k \in 0..Count(s)
    PROVE  Bounds(s, k)
<1>1. Count(s) \in Nat /\ Len(s) \in Nat /\ k \in Nat /\ k <= Count(s)
  BY SepsAreFinite
<1>2. /\ Separator(s, k) \in 0..Len(s) /\ Separator(s, k + 1) \in 1..(Len(s) + 1)
      /\ Separator(s, k) < Separator(s, k + 1)
      /\ k >= 1 => s[Separator(s, k)] = "/" /\ Separator(s, k) >= 1
      /\ k = 0 => Separator(s, k) = 0
      /\ k < Count(s) => Separator(s, k + 1) <= Len(s) /\ s[Separator(s, k + 1)] = "/"
      /\ k = Count(s) => Separator(s, k + 1) = Len(s) + 1
      /\ \A i \in 1..Len(s) : Separator(s, k) < i /\ i < Separator(s, k + 1) => s[i] # "/"
  BY LevelBounds, Zenon
<1>3. /\ Separator(s, k) \in Nat /\ Separator(s, k) <= Len(s)
      /\ Separator(s, k + 1) \in Nat /\ Separator(s, k + 1) <= Len(s) + 1
  BY <1>1, <1>2
<1> QED BY <1>1, <1>2, <1>3, Zenon DEF Bounds

LEMMA ReachedBounds ==
    ASSUME NEW f \in Filters, NEW n \in Names,
           NEW k \in Nat, Reached(f, n, k)
    PROVE  Bounds(f, k) /\ Bounds(n, k) /\ k \in 0..Count(f) /\ k \in 0..Count(n)
<1>1. f \in Seq(Chars) /\ n \in Seq(Chars)
  BY FilterIs, NameIs
<1>2. Count(f) \in Nat /\ Count(n) \in Nat /\ Len(f) \in Nat /\ Len(n) \in Nat
  BY <1>1, SepsAreFinite
<1>3. k \in 0..Count(f) /\ k \in 0..Count(n) /\ k <= Count(f) /\ k <= Count(n)
  BY <1>2 DEF Reached
<1>4. Bounds(f, k) /\ Bounds(n, k)
  BY <1>1, <1>3, BoundsHold
<1> QED BY <1>3, <1>4

\* A position that is on a separator, and in a level, is at the level's end.
LEMMA AtSeparator ==
    ASSUME NEW s, NEW k, Bounds(s, k), NEW i \in Nat, Separator(s, k) < i, i <= Separator(s, k + 1),
           i <= Len(s), s[i] = "/"
    PROVE  i = Separator(s, k + 1) /\ k < Count(s)
<1>1. i = Separator(s, k + 1)
  <2> SUFFICES ASSUME i < Separator(s, k + 1) PROVE FALSE
    BY DEF Bounds
  <2>1. i \in 1..Len(s)
    BY DEF Bounds
  <2> QED BY <2>1 DEF Bounds
<1>2. k < Count(s)
  BY <1>1 DEF Bounds
<1> QED BY <1>1, <1>2

\* One that is on another character is not.
LEMMA AtCharacter ==
    ASSUME NEW s, NEW k, Bounds(s, k), NEW i \in Nat, i <= Separator(s, k + 1), i <= Len(s),
           s[i] # "/"
    PROVE  i < Separator(s, k + 1)
BY DEF Bounds

\* One behind the last character is in the last level.
LEMMA AtLast ==
    ASSUME NEW s, NEW k, Bounds(s, k), NEW i, i = Len(s) + 1, i <= Separator(s, k + 1)
    PROVE  i = Separator(s, k + 1) /\ k = Count(s)
<1>1. /\ Len(s) \in Nat /\ Count(s) \in Nat /\ k \in Nat /\ k <= Count(s)
      /\ Separator(s, k + 1) \in Nat /\ Separator(s, k + 1) <= Len(s) + 1
      /\ k < Count(s) => Separator(s, k + 1) <= Len(s)
  BY DEF Bounds
<1> QED BY <1>1

LEMMA AlignedInBounds ==
    ASSUME NEW f \in Filters, NEW n \in Names,
           NEW i, NEW j, Aligned(f, n, i, j)
    PROVE  i \in 1..(Len(f) + 1) /\ j \in 1..(Len(n) + 1)
<1>1. PICK k \in Nat : /\ Reached(f, n, k)
                       /\ \/ AtChar(f, n, i, j, k)
                          \/ AfterPlus(f, n, i, j, k)
                          \/ AfterHash(f, n, i, j, k)
  BY DEF Aligned
<1>2. Bounds(f, k) /\ Bounds(n, k)
  BY <1>1, ReachedBounds
<1>3. CASE AtChar(f, n, i, j, k)
  <2>1. /\ i \in Nat /\ j \in Nat /\ Separator(f, k) < i /\ i <= Separator(f, k + 1)
        /\ j <= Separator(n, k + 1) /\ i - Separator(f, k) = j - Separator(n, k)
    BY <1>3 DEF AtChar
  <2>2. /\ Separator(f, k) \in Nat /\ Separator(f, k + 1) \in Nat /\ Len(f) \in Nat
        /\ Separator(n, k) \in Nat /\ Separator(n, k + 1) \in Nat /\ Len(n) \in Nat
        /\ Separator(f, k + 1) <= Len(f) + 1 /\ Separator(n, k + 1) <= Len(n) + 1
    BY <1>2 DEF Bounds
  <2> QED BY <2>1, <2>2
<1>4. CASE AfterPlus(f, n, i, j, k)
  BY <1>2, <1>4 DEF AfterPlus, Bounds
<1>5. CASE AfterHash(f, n, i, j, k)
  BY <1>2, <1>5 DEF AfterHash, Bounds
<1> QED BY <1>1, <1>3, <1>4, <1>5

\* At a wildcard both positions are at the beginning of their levels.
LEMMA AtWildcard ==
    ASSUME NEW f \in Filters, NEW n \in Names,
           NEW i, NEW j, Aligned(f, n, i, j), i <= Len(f), f[i] \in {"+", "#"}
    PROVE  \E k \in Nat : /\ Reached(f, n, k) /\ AtChar(f, n, i, j, k)
                          /\ i = Separator(f, k) + 1 /\ j = Separator(n, k) + 1
                          /\ i + 1 = Separator(f, k + 1) /\ Level(f, k + 1) = <<f[i]>>
                          /\ f[i] = "#" => k = Count(f)
<1>1. PICK k \in Nat : /\ Reached(f, n, k)
                       /\ \/ AtChar(f, n, i, j, k)
                          \/ AfterPlus(f, n, i, j, k)
                          \/ AfterHash(f, n, i, j, k)
  BY DEF Aligned
<1>2. Bounds(f, k) /\ Bounds(n, k) /\ k \in 0..Count(f)
  BY <1>1, ReachedBounds
<1>3. AtChar(f, n, i, j, k)
  <2>1. ~AfterPlus(f, n, i, j, k)
    <3> SUFFICES ASSUME AfterPlus(f, n, i, j, k) PROVE FALSE
      OBVIOUS
    <3>1. f[i] = "/" \/ i = Len(f) + 1
      BY <1>2 DEF AfterPlus, Bounds
    <3> QED BY <1>2, <3>1 DEF Bounds
  <2>2. ~AfterHash(f, n, i, j, k)
    BY <1>2 DEF AfterHash, Bounds
  <2> QED BY <1>1, <2>1, <2>2
<1>4. /\ i \in Nat /\ Separator(f, k) < i /\ i <= Separator(f, k + 1)
      /\ i - Separator(f, k) = j - Separator(n, k) /\ j \in Nat
  BY <1>3 DEF AtChar
<1>5. i < Separator(f, k + 1) /\ i \in 1..Len(f)
  <2>1. f[i] # "/"
    OBVIOUS
  <2>2. i < Separator(f, k + 1)
    BY <1>2, <1>4, <2>1, AtCharacter
  <2>3. Len(f) \in Nat /\ Separator(f, k) \in Nat
    BY <1>2 DEF Bounds
  <2> QED BY <1>4, <2>2, <2>3
<1>6. /\ i = Separator(f, k) + 1 /\ i + 1 = Separator(f, k + 1)
      /\ f[i] = "#" => k = Count(f)
      /\ Level(f, k + 1) = <<f[i]>>
  BY <1>2, <1>4, <1>5, WildAlone
<1>7. j = Separator(n, k) + 1
  <2>1. Separator(f, k) \in Nat /\ Separator(n, k) \in Nat
    BY <1>2 DEF Bounds
  <2>2. i = Separator(f, k) + 1
    BY <1>6
  <2> QED BY <1>4, <2>1, <2>2
<1> QED BY <1>1, <1>3, <1>6, <1>7

\* At the beginning of the two strings.
LEMMA AlignedAtFirst ==
    ASSUME NEW f \in Filters, NEW n \in Names
    PROVE  Aligned(f, n, 1, 1)
<1>1. Reached(f, n, 0)
  <2>1. Count(f) \in Nat /\ Count(n) \in Nat
    BY FilterIs, NameIs, SepsAreFinite
  <2> QED BY <2>1 DEF Reached
<1>2. Bounds(f, 0) /\ Bounds(n, 0)
  BY <1>1, ReachedBounds
<1>3. /\ Separator(f, 0) = 0 /\ Separator(n, 0) = 0
      /\ Separator(f, 0 + 1) \in Nat /\ Separator(f, 0 + 1) >= 1
      /\ Separator(n, 0 + 1) \in Nat /\ Separator(n, 0 + 1) >= 1
  BY <1>2 DEF Bounds
<1>4. AtChar(f, n, 1, 1, 0)
  BY <1>3 DEF AtChar
<1> QED BY <1>1, <1>4 DEF Aligned

\* + over a separator: the level it stands for is empty.
LEMMA PlusOverNothing ==
    ASSUME NEW f \in Filters, NEW n \in Names,
           NEW i, NEW j, Aligned(f, n, i, j), i <= Len(f), j <= Len(n), f[i] = "+", n[j] = "/"
    PROVE  Aligned(f, n, i + 1, j)
<1>1. PICK k \in Nat : /\ Reached(f, n, k) /\ AtChar(f, n, i, j, k)
                       /\ j = Separator(n, k) + 1
                       /\ i + 1 = Separator(f, k + 1) /\ Level(f, k + 1) = <<f[i]>>
  BY AtWildcard
<1>2. Bounds(n, k)
  BY <1>1, ReachedBounds
<1>3. j \in Nat /\ Separator(n, k) < j /\ j <= Separator(n, k + 1)
  <2>1. Separator(n, k) \in Nat
    BY <1>2 DEF Bounds
  <2>2. j \in Nat /\ j <= Separator(n, k + 1)
    BY <1>1 DEF AtChar
  <2> QED BY <1>1, <2>1, <2>2
<1>4. j = Separator(n, k + 1)
  BY <1>2, <1>3, AtSeparator
<1>5. AfterPlus(f, n, i + 1, j, k)
  BY <1>1, <1>4 DEF AfterPlus
<1> QED BY <1>1, <1>5 DEF Aligned

\* The end of the level that position i of the name is in.
LEMMA LevelEndIs ==
    ASSUME topicName \in Names, NEW k \in Nat, Bounds(topicName, k),
           NEW i \in Nat, Separator(topicName, k) < i, i < Separator(topicName, k + 1)
    PROVE  LevelEnd(i) = Separator(topicName, k + 1) - 1
<1> DEFINE b == Separator(topicName, k + 1)
           Ends(e) == /\ e + 1 = Len(topicName) + 1 \/ topicName[e + 1] = "/"
                      /\ \A l \in (i + 1)..e : topicName[l] # "/"
<1>1. LevelEnd(i) = CHOOSE e \in i..((Len(topicName) + 1) - 1) : Ends(e)
  BY DEF LevelEnd, curn_end, N
<1>2. /\ Len(topicName) \in Nat /\ b \in Nat /\ b <= Len(topicName) + 1
      /\ Separator(topicName, k) \in Nat
      /\ b = Len(topicName) + 1 \/ (b <= Len(topicName) /\ topicName[b] = "/")
      /\ \A l \in 1..Len(topicName) : Separator(topicName, k) < l /\ l < b => topicName[l] # "/"
  BY DEF Bounds
<1> HIDE DEF b
<1>a. i < b
  BY DEF b
<1>3. b - 1 \in i..((Len(topicName) + 1) - 1) /\ (b - 1) + 1 = b
  BY <1>2, <1>a
<1>4. Ends(b - 1)
  <2>1. ASSUME NEW l \in (i + 1)..(b - 1) PROVE topicName[l] # "/"
    <3>1. l \in 1..Len(topicName) /\ Separator(topicName, k) < l /\ l < b
      BY <1>2, <1>a, <2>1
    <3> QED BY <1>2, <3>1
  <2> QED BY <1>2, <1>3, <2>1
<1>5. ASSUME NEW e \in i..((Len(topicName) + 1) - 1), Ends(e) PROVE e = b - 1
  <2>1. ~(e < b - 1)
    <3> SUFFICES ASSUME e < b - 1 PROVE FALSE
      OBVIOUS
    <3>1. /\ e + 1 \in 1..Len(topicName) /\ e + 1 # Len(topicName) + 1
          /\ Separator(topicName, k) < e + 1 /\ e + 1 < b
      BY <1>2, <1>a
    <3> QED BY <1>2, <1>5, <3>1
  <2>2. ~(e > b - 1)
    <3> SUFFICES ASSUME e > b - 1 PROVE FALSE
      OBVIOUS
    <3>1. b \in (i + 1)..e /\ b # Len(topicName) + 1
      BY <1>2, <1>a
    <3> QED BY <1>2, <1>5, <3>1
  <2>3. e \in Int
    BY <1>2
  <2> QED BY <1>2, <2>1, <2>2, <2>3
<1> HIDE DEF Ends
<1>6. \E e \in i..((Len(topicName) + 1) - 1) : Ends(e)
  BY <1>3, <1>4
<1> QED BY <1>1, <1>5, <1>6 DEF b

\* + over another character: it stands for the rest of the level.
LEMMA PlusOverLevel ==
    ASSUME NEW f \in Filters, topicName \in Names,
           NEW i, NEW j, Aligned(f, topicName, i, j), i <= Len(f), j <= Len(topicName),
           f[i] = "+", topicName[j] # "/"
    PROVE  Aligned(f, topicName, i + 1, LevelEnd(j) + 1)
<1>1. PICK k \in Nat : /\ Reached(f, topicName, k) /\ AtChar(f, topicName, i, j, k)
                       /\ j = Separator(topicName, k) + 1
                       /\ i + 1 = Separator(f, k + 1) /\ Level(f, k + 1) = <<f[i]>>
  BY AtWildcard
<1>2. Bounds(topicName, k)
  BY <1>1, ReachedBounds
<1>3. /\ j \in Nat /\ Separator(topicName, k) < j /\ j <= Separator(topicName, k + 1)
      /\ Separator(topicName, k + 1) \in Nat
  <2>1. Separator(topicName, k) \in Nat /\ Separator(topicName, k + 1) \in Nat
    BY <1>2 DEF Bounds
  <2>2. j \in Nat /\ j <= Separator(topicName, k + 1)
    BY <1>1 DEF AtChar
  <2> QED BY <1>1, <2>1, <2>2
<1>4. j < Separator(topicName, k + 1)
  BY <1>2, <1>3, AtCharacter
<1>5. LevelEnd(j) = Separator(topicName, k + 1) - 1
  BY <1>2, <1>3, <1>4, LevelEndIs
<1>6. LevelEnd(j) + 1 = Separator(topicName, k + 1)
  BY <1>3, <1>5
<1>7. AfterPlus(f, topicName, i + 1, LevelEnd(j) + 1, k)
  BY <1>1, <1>6 DEF AfterPlus
<1> QED BY <1>1, <1>7 DEF Aligned

\* # stands for the rest of the name.
LEMMA HashOverRest ==
    ASSUME NEW f \in Filters, NEW n \in Names,
           NEW i, NEW j, Aligned(f, n, i, j), i <= Len(f), f[i] = "#"
    PROVE  Aligned(f, n, i + 1, Len(n) + 1)
<1>1. PICK k \in Nat : /\ Reached(f, n, k) /\ k = Count(f)
                       /\ i + 1 = Separator(f, k + 1) /\ Level(f, k + 1) = <<f[i]>>
  BY AtWildcard
<1>2. Bounds(f, k)
  BY <1>1, ReachedBounds
<1>3. i + 1 = Len(f) + 1
  BY <1>1, <1>2 DEF Bounds
<1>4. AfterHash(f, n, i + 1, Len(n) + 1, k)
  BY <1>1, <1>3 DEF AfterHash
<1> QED BY <1>1, <1>4 DEF Aligned

\* Two separators: the levels before them match.
LEMMA SeparatorsMeet ==
    ASSUME NEW f \in Filters, NEW n \in Names,
           NEW i, NEW j, NEW k \in Nat, Reached(f, n, k),
           AtChar(f, n, i, j, k) \/ AfterPlus(f, n, i, j, k),
           i = Separator(f, k + 1), j = Separator(n, k + 1)
    PROVE  LevelMatches(f, n, k + 1)
<1>1. /\ k \in 0..Count(f) /\ k <= Count(n)
      /\ Separator(f, k) \in Nat /\ Separator(n, k) \in Nat
      /\ Separator(f, k + 1) \in Nat /\ Separator(n, k + 1) \in Nat
  <2>1. Bounds(f, k) /\ Bounds(n, k) /\ k \in 0..Count(f) /\ k \in 0..Count(n)
    BY ReachedBounds
  <2> QED BY <2>1 DEF Bounds
<1>2. CASE AtChar(f, n, i, j, k)
  <2>1. SameLevel(f, n, k)
    <3>1. /\ i - Separator(f, k) = j - Separator(n, k)
          /\ \A d \in 1..(i - Separator(f, k) - 1) : f[Separator(f, k) + d] = n[Separator(n, k) + d]
      BY <1>2 DEF AtChar
    <3> QED BY <3>1 DEF SameLevel
  <2> QED BY <1>1, <2>1, LevelMatchesIs
<1>3. CASE AfterPlus(f, n, i, j, k)
  BY <1>1, <1>3, LevelMatchesIs DEF AfterPlus
<1> QED BY <1>2, <1>3

LEMMA PastSeparators ==
    ASSUME NEW f \in Filters, NEW n \in Names,
           NEW i, NEW j, Aligned(f, n, i, j), i <= Len(f), j <= Len(n), f[i] = "/", n[j] = "/"
    PROVE  Aligned(f, n, i + 1, j + 1)
<1>1. PICK k \in Nat : /\ Reached(f, n, k)
                       /\ \/ AtChar(f, n, i, j, k)
                          \/ AfterPlus(f, n, i, j, k)
                          \/ AfterHash(f, n, i, j, k)
  BY DEF Aligned
<1>2. Bounds(f, k) /\ Bounds(n, k)
  BY <1>1, ReachedBounds
<1>3. ~AfterHash(f, n, i, j, k)
  BY <1>2 DEF AfterHash, Bounds
<1>4. /\ i \in Nat /\ Separator(f, k) < i /\ i <= Separator(f, k + 1)
      /\ j \in Nat /\ Separator(n, k) < j /\ j <= Separator(n, k + 1)
  <2>1. CASE AtChar(f, n, i, j, k)
    <3>1. Separator(f, k) \in Nat /\ Separator(n, k) \in Nat
      BY <1>2 DEF Bounds
    <3> QED BY <2>1, <3>1 DEF AtChar
  <2>2. CASE AfterPlus(f, n, i, j, k)
    BY <1>2, <2>2 DEF AfterPlus, Bounds
  <2> QED BY <1>1, <1>3, <2>1, <2>2
<1>5. i = Separator(f, k + 1) /\ k < Count(f) /\ j = Separator(n, k + 1) /\ k < Count(n)
  BY <1>2, <1>4, AtSeparator
<1>6. LevelMatches(f, n, k + 1)
  BY <1>1, <1>3, <1>5, SeparatorsMeet
<1>7. Reached(f, n, k + 1)
  <2>1. Count(f) \in Nat /\ Count(n) \in Nat
    BY <1>2 DEF Bounds
  <2>2. k + 1 \in 0..Count(f) /\ k + 1 <= Count(n)
    BY <1>5, <2>1
  <2>3. ASSUME NEW m \in 1..(k + 1) PROVE LevelMatches(f, n, m)
    <3>1. m \in 1..k \/ m = k + 1
      BY <2>3
    <3> QED BY <1>1, <1>6, <3>1 DEF Reached
  <2> QED BY <2>2, <2>3 DEF Reached
<1>8. Bounds(f, k + 1) /\ Bounds(n, k + 1)
  BY <1>7, ReachedBounds
<1>9. /\ Separator(f, (k + 1) + 1) \in Nat /\ Separator(n, (k + 1) + 1) \in Nat
      /\ i < Separator(f, (k + 1) + 1) /\ j < Separator(n, (k + 1) + 1)
  BY <1>5, <1>8 DEF Bounds
<1>10. AtChar(f, n, i + 1, j + 1, k + 1)
  <2>1. (i + 1) - i = 1 /\ (j + 1) - j = 1 /\ (i + 1) - i - 1 = 0
    BY <1>4
  <2>2. i + 1 <= Separator(f, (k + 1) + 1) /\ j + 1 <= Separator(n, (k + 1) + 1) /\ i < i + 1
    BY <1>4, <1>9
  <2>3. i + 1 \in Nat /\ j + 1 \in Nat
    BY <1>4
  <2>4. \A d \in 1..0 : f[i + d] = n[j + d]
    OBVIOUS
  <2> QED BY <1>5, <2>1, <2>2, <2>3, <2>4, Zenon DEF AtChar
<1> QED BY <1>7, <1>10 DEF Aligned

\* Two equal characters within a level.
LEMMA SameCharacter ==
    ASSUME NEW f \in Filters, NEW n \in Names,
           NEW i, NEW j, Aligned(f, n, i, j), i <= Len(f), j <= Len(n),
           f[i] # "/", f[i] = n[j]
    PROVE  Aligned(f, n, i + 1, j + 1)
<1>1. PICK k \in Nat : /\ Reached(f, n, k)
                       /\ \/ AtChar(f, n, i, j, k)
                          \/ AfterPlus(f, n, i, j, k)
                          \/ AfterHash(f, n, i, j, k)
  BY DEF Aligned
<1>2. Bounds(f, k) /\ Bounds(n, k)
  BY <1>1, ReachedBounds
<1>3. AtChar(f, n, i, j, k)
  <2>1. ~AfterPlus(f, n, i, j, k)
    BY <1>2 DEF AfterPlus, Bounds
  <2>2. ~AfterHash(f, n, i, j, k)
    BY <1>2 DEF AfterHash, Bounds
  <2> QED BY <1>1, <2>1, <2>2
<1> DEFINE a == Separator(f, k)
           c == Separator(n, k)
<1>4. /\ i \in Nat /\ j \in Nat /\ a < i /\ i <= Separator(f, k + 1) /\ j <= Separator(n, k + 1)
      /\ i - a = j - c
      /\ \A d \in 1..(i - a - 1) : f[a + d] = n[c + d]
  BY <1>3 DEF AtChar
<1>5. i < Separator(f, k + 1) /\ j < Separator(n, k + 1)
  BY <1>2, <1>4, AtCharacter
<1>6. /\ Separator(f, k + 1) \in Nat /\ Separator(n, k + 1) \in Nat /\ a \in Nat /\ c \in Nat
  BY <1>2 DEF Bounds
<1> HIDE DEF a, c
<1>7. /\ i + 1 \in Nat /\ j + 1 \in Nat /\ a < i + 1 /\ (i + 1) - a = (j + 1) - c
      /\ i + 1 <= Separator(f, k + 1) /\ j + 1 <= Separator(n, k + 1)
  BY <1>4, <1>5, <1>6
<1>8. ASSUME NEW d \in 1..((i + 1) - a - 1) PROVE f[a + d] = n[c + d]
  <2>1. d \in 1..(i - a - 1) \/ d = i - a
    BY <1>4, <1>6, <1>8
  <2>2. a + (i - a) = i /\ c + (i - a) = j
    BY <1>4, <1>6
  <2> QED BY <1>4, <2>1, <2>2
<1>9. AtChar(f, n, i + 1, j + 1, k)
  BY <1>7, <1>8 DEF AtChar, a, c
<1> QED BY <1>1, <1>9 DEF Aligned

----------------------------------------------------------------------------
(* The states of _is_topic_matched.                                        *)

\* How the loop is left: at the end of one of the strings, or at a mismatch.
ExitFits ==
    pc # "loop" => \/ F(curf) = "NUL"
                   \/ curn = Len(topicName) + 1
                   \/ Mismatch /\ ~(F(curf) = "+" /\ N(curn) = "/")

Judged == pc = "done" => (matched <=> Verdict)

TopicInv == /\ topicFilter \in Filters /\ topicName \in Names
            /\ pc \in {"loop", "exit", "done"}
            /\ Aligned(topicFilter, topicName, curf, curn)
            /\ ExitFits
            /\ Judged

\* The character at curf, and the strings that curf and curn stay in.
LEMMA Positions ==
    ASSUME topicFilter \in Filters, topicName \in Names,
           Aligned(topicFilter, topicName, curf, curn)
    PROVE  /\ Len(topicFilter) \in Nat /\ curf \in Nat /\ 1 <= curf /\ curf <= Len(topicFilter) + 1
           /\ Len(topicName) \in Nat /\ curn \in Nat /\ 1 <= curn /\ curn <= Len(topicName) + 1
           /\ Len(topicFilter) >= 1 /\ Len(topicName) >= 1
           /\ F(curf) = "NUL" <=> curf = Len(topicFilter) + 1
           /\ curf <= Len(topicFilter) => F(curf) = topicFilter[curf] /\ topicFilter[curf] \in Chars
           /\ curn <= Len(topicName) => N(curn) = topicName[curn]
                                   /\ topicName[curn] \notin {"+", "#", "NUL"}
<1>1. /\ Len(topicFilter) \in Nat /\ Len(topicFilter) >= 1
      /\ \A i \in 1..Len(topicFilter) : topicFilter[i] \in Chars /\ topicFilter[i] # "NUL"
  BY FilterIs
<1>2. /\ Len(topicName) \in Nat /\ Len(topicName) >= 1
      /\ \A i \in 1..Len(topicName) : topicName[i] \notin {"+", "#", "NUL"}
  BY NameIs
<1>3. curf \in 1..(Len(topicFilter) + 1) /\ curn \in 1..(Len(topicName) + 1)
  BY AlignedInBounds
<1>4. /\ curf \in Nat /\ 1 <= curf /\ curf <= Len(topicFilter) + 1
      /\ curn \in Nat /\ 1 <= curn /\ curn <= Len(topicName) + 1
  BY <1>1, <1>2, <1>3
<1>5. curf <= Len(topicFilter) => curf \in 1..Len(topicFilter) /\ curf # Len(topicFilter) + 1
  BY <1>1, <1>4
<1>6. curn <= Len(topicName) => curn \in 1..Len(topicName)
  BY <1>2, <1>4
<1>7. F(curf) = "NUL" <=> curf = Len(topicFilter) + 1
  BY <1>1, <1>4, <1>5 DEF F
<1>8. curf <= Len(topicFilter) => F(curf) = topicFilter[curf] /\ topicFilter[curf] \in Chars
  BY <1>1, <1>5 DEF F
<1>9. curn <= Len(topicName) =>
        N(curn) = topicName[curn] /\ topicName[curn] \notin {"+", "#", "NUL"}
  BY <1>2, <1>6 DEF N
<1> QED BY <1>1, <1>2, <1>4, <1>7, <1>8, <1>9

LEMMA TopicInit ==
    ASSUME MatchInit
    PROVE  TopicInv
<1>1. Aligned(topicFilter, topicName, curf, curn)
  BY AlignedAtFirst DEF MatchInit
<1> QED BY <1>1 DEF MatchInit, TopicInv, ExitFits, Judged

\* In the loop neither string is at its end.
LEMMA InLoopIs ==
    ASSUME TopicInv, InLoop
    PROVE  /\ pc = "loop"
           /\ curf \in Nat /\ curf <= Len(topicFilter) /\ curn \in Nat /\ curn <= Len(topicName)
           /\ F(curf) = topicFilter[curf] /\ N(curn) = topicName[curn]
           /\ topicName[curn] \notin {"+", "#", "NUL"}
<1>1. pc = "loop" /\ F(curf) # "NUL" /\ curn < Len(topicName) + 1
  BY DEF InLoop, curn_end
<1>2. topicFilter \in Filters /\ topicName \in Names /\ Aligned(topicFilter, topicName, curf, curn)
  BY DEF TopicInv
<1>3. /\ Len(topicFilter) \in Nat /\ curf \in Nat /\ curf <= Len(topicFilter) + 1
      /\ Len(topicName) \in Nat /\ curn \in Nat
      /\ F(curf) = "NUL" <=> curf = Len(topicFilter) + 1
  BY <1>2, Positions
<1>4. curf <= Len(topicFilter) /\ curn <= Len(topicName)
  BY <1>1, <1>3
<1> QED BY <1>1, <1>2, <1>3, <1>4, Positions

LEMMA EmptyLevelKeeps ==
    ASSUME TopicInv, EmptyLevel
    PROVE  TopicInv'
<1>1. topicFilter \in Filters /\ topicName \in Names /\ Aligned(topicFilter, topicName, curf, curn)
  BY DEF TopicInv
<1>2. /\ pc = "loop" /\ curf <= Len(topicFilter) /\ curn <= Len(topicName)
      /\ topicFilter[curf] = "+" /\ topicName[curn] = "/"
  BY InLoopIs DEF EmptyLevel
<1>3. Aligned(topicFilter, topicName, curf + 1, curn)
  BY <1>1, <1>2, PlusOverNothing
<1>4. /\ topicFilter' = topicFilter /\ topicName' = topicName
      /\ curf' = curf + 1 /\ curn' = curn /\ pc' = pc
  BY DEF EmptyLevel
<1>5. Aligned(topicFilter, topicName, curf, curn)'
  BY <1>3, <1>4
<1> QED BY <1>1, <1>2, <1>4, <1>5 DEF TopicInv, ExitFits, Judged, Filters, Names

LEMMA AdvanceKeeps ==
    ASSUME TopicInv, Advance
    PROVE  TopicInv'
<1>1. topicFilter \in Filters /\ topicName \in Names /\ Aligned(topicFilter, topicName, curf, curn)
  BY DEF TopicInv
<1>2. /\ pc = "loop" /\ curf <= Len(topicFilter) /\ curn <= Len(topicName) /\ curn \in Nat
      /\ F(curf) = topicFilter[curf] /\ N(curn) = topicName[curn]
      /\ topicName[curn] \notin {"+", "#", "NUL"}
  BY InLoopIs DEF Advance
<1>3. /\ topicFilter' = topicFilter /\ topicName' = topicName /\ curf' = curf + 1 /\ pc' = pc
      /\ curn' = Consumed + 1
  BY DEF Advance
<1>4. /\ ~(topicFilter[curf] = "+" /\ topicName[curn] = "/")
      /\ ~(topicName[curn] = "/" /\ topicFilter[curf] # "/")
      /\ ~(topicFilter[curf] \notin {"+", "#"} /\ topicFilter[curf] # topicName[curn])
  BY <1>2 DEF Advance, Mismatch
<1>5. Aligned(topicFilter, topicName, curf + 1, Consumed + 1)
  <2>1. CASE topicFilter[curf] = "+"
    <3>1. Consumed = LevelEnd(curn)
      BY <1>2, <2>1 DEF Consumed
    <3>2. topicName[curn] # "/"
      BY <1>4, <2>1
    <3>3. Aligned(topicFilter, topicName, curf + 1, LevelEnd(curn) + 1)
      BY <1>1, <1>2, <2>1, <3>2, PlusOverLevel
    <3> QED BY <3>1, <3>3
  <2>2. CASE topicFilter[curf] = "#"
    <3>1. Len(topicName) \in Nat
      BY <1>1, Positions
    <3>2. Consumed = (Len(topicName) + 1) - 1
      BY <1>2, <2>2 DEF Consumed, curn_end
    <3>3. Consumed + 1 = Len(topicName) + 1
      BY <3>1, <3>2
    <3>4. Aligned(topicFilter, topicName, curf + 1, Len(topicName) + 1)
      BY <1>1, <1>2, <2>2, HashOverRest
    <3> QED BY <3>3, <3>4
  <2>3. CASE topicFilter[curf] \notin {"+", "#"}
    <3>1. Consumed = curn
      BY <1>2, <2>3 DEF Consumed
    <3>2. topicFilter[curf] = topicName[curn]
      BY <1>4, <2>3
    <3>3. CASE topicFilter[curf] = "/"
      BY <1>1, <1>2, <3>1, <3>2, <3>3, PastSeparators
    <3>4. CASE topicFilter[curf] # "/"
      BY <1>1, <1>2, <3>1, <3>2, <3>4, SameCharacter
    <3> QED BY <3>3, <3>4
  <2> QED BY <2>1, <2>2, <2>3
<1>6. Aligned(topicFilter, topicName, curf, curn)'
  BY <1>3, <1>5
<1> QED BY <1>1, <1>2, <1>3, <1>6 DEF TopicInv, ExitFits, Judged, Filters, Names

LEMMA LeavesLoop ==
    ASSUME TopicInv, Break \/ LoopEnds
    PROVE  TopicInv'
<1>1. topicFilter \in Filters /\ topicName \in Names /\ Aligned(topicFilter, topicName, curf, curn)
  BY DEF TopicInv
<1>2. /\ topicFilter' = topicFilter /\ topicName' = topicName /\ curf' = curf /\ curn' = curn
      /\ pc' = "exit"
  BY DEF Break, LoopEnds
<1>3. \/ F(curf) = "NUL"
      \/ curn = Len(topicName) + 1
      \/ Mismatch /\ ~(F(curf) = "+" /\ N(curn) = "/")
  <2>1. CASE Break
    BY <2>1 DEF Break
  <2>2. CASE LoopEnds
    <3>1. F(curf) = "NUL" \/ curn >= Len(topicName) + 1
      BY <2>2 DEF LoopEnds, curn_end
    <3>2. Len(topicName) \in Nat /\ curn \in Nat /\ curn <= Len(topicName) + 1
      BY <1>1, Positions
    <3> QED BY <3>1, <3>2
  <2> QED BY <2>1, <2>2
<1>4. ExitFits'
  BY <1>2, <1>3 DEF ExitFits, Mismatch, F, N
<1>5. Aligned(topicFilter, topicName, curf, curn)'
  BY <1>1, <1>2
<1> QED BY <1>1, <1>2, <1>4, <1>5 DEF TopicInv, Judged, Filters, Names

LEMMA ReturnKeeps ==
    ASSUME TopicInv, Return
    PROVE  TopicInv'
<1>1. /\ topicFilter \in Filters /\ topicName \in Names
      /\ Aligned(topicFilter, topicName, curf, curn) /\ ExitFits
  BY DEF TopicInv
<1>2. /\ topicFilter' = topicFilter /\ topicName' = topicName /\ curf' = curf /\ curn' = curn
      /\ pc = "exit" /\ pc' = "done" /\ matched' = Verdict
  BY Zenon DEF Return
<1>3. ExitFits'
  <2>1. \/ F(curf) = "NUL"
        \/ curn = Len(topicName) + 1
        \/ Mismatch /\ ~(F(curf) = "+" /\ N(curn) = "/")
    <3>1. pc # "loop"
      BY <1>2
    <3> QED BY <1>1, <3>1 DEF ExitFits
  <2> QED BY <1>2, <2>1 DEF ExitFits, Mismatch, F, N
<1>4. Aligned(topicFilter, topicName, curf, curn)'
  BY <1>1, <1>2
<1>5. Verdict' <=> Verdict
  BY <1>2, Zenon DEF Verdict, F, N, curn_end
<1>6. Judged'
  BY <1>2, <1>5, Zenon DEF Judged
<1> QED BY <1>1, <1>2, <1>3, <1>4, <1>6 DEF TopicInv, Filters, Names

LEMMA TopicStutters ==
    ASSUME TopicInv, UNCHANGED matchVars
    PROVE  TopicInv'
<1>1. /\ topicFilter' = topicFilter /\ topicName' = topicName /\ curf' = curf /\ curn' = curn
      /\ pc' = pc /\ matched' = matched
  BY Zenon DEF matchVars
<1>2. /\ topicFilter' \in Filters /\ topicName' \in Names
      /\ Aligned(topicFilter, topicName, curf, curn)'
  BY <1>1 DEF TopicInv
<1>3. ExitFits' <=> ExitFits
  BY <1>1, Zenon DEF ExitFits, Mismatch, F, N
<1>4. Verdict' <=> Verdict
  BY <1>1, Zenon DEF Verdict, F, N, curn_end
<1>5. Judged' <=> Judged
  BY <1>1, <1>4, Zenon DEF Judged
<1> QED BY <1>1, <1>2, <1>3, <1>5 DEF TopicInv, Filters, Names

\* The steps of _is_topic_matched keep its two positions aligned.
LEMMA TopicInvariant == MatchSpec => []TopicInv
<1>1. MatchInit => TopicInv
  BY TopicInit
<1>2. TopicInv /\ [MatchNext]_matchVars => TopicInv'
  BY EmptyLevelKeeps, AdvanceKeeps, LeavesLoop, ReturnKeeps, TopicStutters DEF MatchNext
<1> QED BY <1>1, <1>2, PTL DEF MatchSpec

\* The pointers of _is_topic_matched stay within the filter and its NUL, and
\* within the name and its end, for filters and names of any length; and
\* curn[-1] is read only when there is a character before curn.
THEOREM PointersInBounds == MatchSpec => []InBounds
<1>1. TopicInv => InBounds
  <2> SUFFICES ASSUME TopicInv PROVE InBounds
    OBVIOUS
  <2>1. /\ topicFilter \in Filters /\ topicName \in Names
        /\ Aligned(topicFilter, topicName, curf, curn)
    BY DEF TopicInv
  <2>2. curf \in 1..(Len(topicFilter) + 1) /\ curn \in 1..(Len(topicName) + 1)
    BY <2>1, AlignedInBounds
  <2>3. Len(topicName) \in Nat /\ Len(topicName) >= 1
    BY <2>1, Positions
  <2>4. ASSUME pc = "exit", F(curf) = "+" PROVE curn > 1
    <3>1. \/ curn = Len(topicName) + 1
          \/ Mismatch /\ ~(F(curf) = "+" /\ N(curn) = "/")
      BY <2>4 DEF TopicInv, ExitFits
    <3>2. ~(Mismatch /\ ~(F(curf) = "+" /\ N(curn) = "/"))
      BY <2>4 DEF Mismatch
    <3> QED BY <2>3, <3>1, <3>2
  <2> QED BY <2>2, <2>4 DEF InBounds, curn_end
<1> QED BY <1>1, TopicInvariant, PTL

----------------------------------------------------------------------------
(* A topic that the filter matches.                                        *)

\* In a level that is a wildcard the positions are at its beginning, for no
\* character of a name is a wildcard.
LEMMA WildStart ==
    ASSUME NEW f \in Filters, NEW n \in Names,
           NEW i, NEW j, NEW k \in Nat, Reached(f, n, k), AtChar(f, n, i, j, k),
           NEW x \in {"+", "#"}, Level(f, k + 1) = <<x>>
    PROVE  i = Separator(f, k) + 1 /\ j = Separator(n, k) + 1 /\ i <= Len(f) /\ f[i] = x
<1> DEFINE a == Separator(f, k)
           c == Separator(n, k)
<1>1. Bounds(n, k) /\ Bounds(f, k) /\ k \in 0..Count(f) /\ k <= Count(n)
  BY ReachedBounds DEF Bounds
<1>2. a + 1 \in 1..Len(f) /\ f[a + 1] = x
  BY <1>1, LevelMatchesIs
<1>3. /\ i \in Nat /\ j \in Nat /\ a < i /\ j <= Separator(n, k + 1) /\ i - a = j - c
      /\ \A d \in 1..(i - a - 1) : f[a + d] = n[c + d]
  BY DEF AtChar
<1>4. /\ a \in Nat /\ c \in Nat /\ Separator(n, k + 1) \in Nat /\ Separator(n, k + 1) <= Len(n) + 1
      /\ Len(n) \in Nat /\ Len(f) \in Nat
  BY <1>1 DEF Bounds
<1>5. \A l \in 1..Len(n) : n[l] \notin {"+", "#"}
  BY NameIs
<1> HIDE DEF a, c
<1>6. i = a + 1
  <2> SUFFICES ASSUME i # a + 1 PROVE FALSE
    OBVIOUS
  <2>1. 1 \in 1..(i - a - 1) /\ c + 1 \in 1..Len(n)
    <3>1. /\ i \in Nat /\ j \in Nat /\ a < i /\ j <= Separator(n, k + 1) /\ i - a = j - c
      BY <1>3
    <3> QED BY <1>4, <3>1
  <2>2. f[a + 1] = n[c + 1]
    BY <1>3, <2>1
  <2> QED BY <1>2, <1>5, <2>1, <2>2
<1>7. j = c + 1
  BY <1>3, <1>4, <1>6
<1>8. i <= Len(f)
  BY <1>2, <1>4, <1>6
<1> QED BY <1>2, <1>6, <1>7, <1>8 DEF a, c

LEMMA MatchedLevel ==
    ASSUME NEW f \in Filters, NEW n \in Names,
           NEW k \in Nat, Reached(f, n, k), Matches(f, n)
    PROVE  /\ \/ Level(f, k + 1) = <<"#">> /\ k = Count(f)
              \/ Level(f, k + 1) = <<"+">>
              \/ SameLevel(f, n, k)
           /\ Last(f) = <<"#">> => Count(f) <= Count(n) + 1
           /\ Last(f) # <<"#">> => Count(f) = Count(n)
<1>1. f \in Seq(Chars) /\ n \in Seq(Chars)
  BY FilterIs, NameIs
<1>2. Count(f) \in Nat /\ Count(n) \in Nat /\ k \in 0..Count(f) /\ k <= Count(n)
  BY ReachedBounds DEF Bounds
<1>3. LevelMatches(f, n, k + 1) <=> Level(f, k + 1) = <<"+">> \/ SameLevel(f, n, k)
  BY <1>2, LevelMatchesIs
<1>4. CASE Last(f) = <<"#">>
  <2>1. \A m \in 1..Count(f) : m <= Count(n) + 1 /\ LevelMatches(f, n, m)
    BY <1>1, <1>4, MatchesIs
  <2>2. Count(f) <= Count(n) + 1
    <3>1. Count(f) = 0 \/ Count(f) \in 1..Count(f)
      BY <1>2
    <3> QED BY <1>2, <2>1, <3>1
  <2>3. k = Count(f) \/ k + 1 \in 1..Count(f)
    BY <1>2
  <2>4. k = Count(f) => Level(f, k + 1) = <<"#">>
    BY <1>4 DEF Last
  <2> QED BY <1>3, <1>4, <2>1, <2>2, <2>3, <2>4
<1>5. CASE Last(f) # <<"#">>
  <2>1. Count(n) = Count(f) /\ \A m \in 1..(Count(f) + 1) : LevelMatches(f, n, m)
    BY <1>1, <1>5, MatchesIs
  <2>2. k + 1 \in 1..(Count(f) + 1)
    BY <1>2
  <2> QED BY <1>3, <1>5, <2>1, <2>2
<1> QED BY <1>4, <1>5

\* When the filter is used up, so is the name.
LEMMA MatchedToEnd ==
    ASSUME NEW f \in Filters, NEW n \in Names,
           NEW i, NEW j, Aligned(f, n, i, j), Matches(f, n), i = Len(f) + 1
    PROVE  j = Len(n) + 1
<1>1. PICK k \in Nat : /\ Reached(f, n, k)
                       /\ \/ AtChar(f, n, i, j, k)
                          \/ AfterPlus(f, n, i, j, k)
                          \/ AfterHash(f, n, i, j, k)
  BY DEF Aligned
<1>2. Bounds(f, k) /\ Bounds(n, k) /\ k \in 0..Count(f) /\ Count(f) \in Nat /\ Len(f) \in Nat
  BY <1>1, ReachedBounds DEF Bounds
<1>3. CASE AfterHash(f, n, i, j, k)
  BY <1>3 DEF AfterHash
<1>4. ASSUME ~AfterHash(f, n, i, j, k) PROVE i <= Separator(f, k + 1)
  <2>1. Separator(f, k + 1) \in Nat
    BY <1>2 DEF Bounds
  <2> QED BY <1>1, <1>4, <2>1 DEF AtChar, AfterPlus
<1>5. ASSUME ~AfterHash(f, n, i, j, k) PROVE k = Count(f) /\ i = Separator(f, k + 1)
  <2>1. i <= Separator(f, k + 1)
    BY <1>4, <1>5
  <2> QED BY <1>2, <2>1 DEF Bounds
<1>6. ASSUME k = Count(f), Level(f, k + 1) # <<"#">> PROVE Separator(n, k + 1) = Len(n) + 1
  <2>1. Count(f) = Count(n)
    BY <1>1, <1>6, MatchedLevel DEF Last
  <2> QED BY <1>2, <1>6, <2>1 DEF Bounds
<1>7. CASE AfterPlus(f, n, i, j, k) /\ ~AfterHash(f, n, i, j, k)
  <2>1. Level(f, k + 1) = <<"+">> /\ j = Separator(n, k + 1)
    BY <1>7 DEF AfterPlus
  <2>2. <<"+">> # <<"#">>
    OBVIOUS
  <2> QED BY <1>5, <1>6, <1>7, <2>1, <2>2
<1>8. CASE AtChar(f, n, i, j, k) /\ ~AfterHash(f, n, i, j, k)
  <2>1. ASSUME NEW x \in {"+", "#"} PROVE Level(f, k + 1) # <<x>>
    BY <1>1, <1>2, <1>8, WildStart
  <2>2. SameLevel(f, n, k)
    BY <1>1, <2>1, MatchedLevel
  <2>3. Separator(f, k + 1) - Separator(f, k) = Separator(n, k + 1) - Separator(n, k)
    BY <2>2 DEF SameLevel
  <2>4. i - Separator(f, k) = j - Separator(n, k) /\ i \in Nat /\ j \in Nat
    BY <1>8 DEF AtChar
  <2>5. /\ Separator(f, k) \in Nat /\ Separator(n, k) \in Nat
        /\ Separator(f, k + 1) \in Nat /\ Separator(n, k + 1) \in Nat
    BY <1>2 DEF Bounds
  <2>6. i = Separator(f, k + 1) /\ Separator(n, k + 1) = Len(n) + 1
    BY <1>5, <1>6, <1>8, <2>1
  <2>7. j = Separator(n, k + 1)
    BY <2>3, <2>4, <2>5, <2>6
  <2> QED BY <2>6, <2>7
<1> QED BY <1>1, <1>3, <1>7, <1>8

\* When only the name is used up, the filter is at a final #, at the
\* separator before it, or at a + that stands for an empty last level.
LEMMA MatchedRest ==
    ASSUME NEW f \in Filters, NEW n \in Names,
           NEW i, NEW j, Aligned(f, n, i, j), Matches(f, n), i <= Len(f), j = Len(n) + 1
    PROVE  \/ f[i] = "#"
           \/ i + 1 <= Len(f) /\ f[i + 1] = "#"
           \/ f[i] = "+" /\ n[Len(n)] = "/"
<1>1. PICK k \in Nat : /\ Reached(f, n, k)
                       /\ \/ AtChar(f, n, i, j, k)
                          \/ AfterPlus(f, n, i, j, k)
                          \/ AfterHash(f, n, i, j, k)
  BY DEF Aligned
<1>2. /\ Bounds(f, k) /\ Bounds(n, k) /\ k \in 0..Count(f) /\ k <= Count(n)
      /\ Count(f) \in Nat /\ Count(n) \in Nat /\ Len(f) \in Nat /\ Len(n) \in Nat
  BY <1>1, ReachedBounds DEF Bounds
<1>3. ~AfterHash(f, n, i, j, k)
  BY <1>2 DEF AfterHash
<1>4. j = Separator(n, k + 1) /\ k = Count(n)
  <2>1. j <= Separator(n, k + 1)
    <3>1. Separator(n, k + 1) \in Nat
      BY <1>2 DEF Bounds
    <3> QED BY <1>1, <1>3, <3>1 DEF AtChar, AfterPlus
  <2> QED BY <1>2, <2>1 DEF Bounds
<1>5. ASSUME i = Separator(f, k + 1) PROVE i + 1 <= Len(f) /\ f[i + 1] = "#"
  <2>1. k < Count(f)
    BY <1>2, <1>5 DEF Bounds
  <2>2. Last(f) = <<"#">> /\ Count(f) = k + 1
    <3>1. Last(f) # <<"#">> => Count(f) = Count(n)
      BY <1>1, MatchedLevel
    <3>2. Last(f) = <<"#">> => Count(f) <= Count(n) + 1
      BY <1>1, MatchedLevel
    <3> QED BY <1>2, <1>4, <2>1, <3>1, <3>2
  <2>3. f \in Seq(Chars) /\ k + 1 \in 0..Count(f)
    BY <1>2, <2>1, FilterIs
  <2>4. Level(f, (k + 1) + 1) = <<"#">>
    BY <2>2 DEF Last
  <2>5. /\ Len(Level(f, (k + 1) + 1)) = Separator(f, (k + 1) + 1) - Separator(f, k + 1) - 1
        /\ \A d \in 1..(Separator(f, (k + 1) + 1) - Separator(f, k + 1) - 1) :
             /\ Level(f, (k + 1) + 1)[d] = f[Separator(f, k + 1) + d]
             /\ Separator(f, k + 1) + d \in 1..Len(f)
    BY <2>3, LevelIs
  <2>6. Len(<<"#">>) = 1 /\ <<"#">>[1] = "#"
    OBVIOUS
  <2>7. Separator(f, (k + 1) + 1) - Separator(f, k + 1) - 1 = 1
    BY <2>4, <2>5, <2>6, Zenon
  <2>8. f[Separator(f, k + 1) + 1] = "#" /\ Separator(f, k + 1) + 1 \in 1..Len(f)
    BY <2>4, <2>5, <2>6, <2>7
  <2> QED BY <1>2, <1>5, <2>8
<1>6. CASE AfterPlus(f, n, i, j, k)
  BY <1>5, <1>6 DEF AfterPlus
<1>7. CASE AtChar(f, n, i, j, k) /\ i # Separator(f, k + 1)
  <2>1. ~SameLevel(f, n, k)
    <3> SUFFICES ASSUME SameLevel(f, n, k) PROVE FALSE
      OBVIOUS
    <3>1. Separator(f, k + 1) - Separator(f, k) = Separator(n, k + 1) - Separator(n, k)
      BY DEF SameLevel
    <3>2. i - Separator(f, k) = j - Separator(n, k) /\ i \in Nat /\ j \in Nat
      BY <1>7 DEF AtChar
    <3>3. /\ Separator(f, k) \in Nat /\ Separator(n, k) \in Nat
          /\ Separator(f, k + 1) \in Nat /\ Separator(n, k + 1) \in Nat
      BY <1>2 DEF Bounds
    <3>4. i = Separator(f, k + 1)
      <4>1. j = Separator(n, k + 1)
        BY <1>4
      <4> QED BY <3>1, <3>2, <3>3, <4>1
    <3> QED BY <1>7, <3>4
  <2>2. PICK x \in {"+", "#"} : Level(f, k + 1) = <<x>>
    BY <1>1, <2>1, MatchedLevel
  <2>3. j = Separator(n, k) + 1 /\ f[i] = x
    BY <1>1, <1>7, <2>2, WildStart
  <2>4. n[Len(n)] = "/"
    <3>1. Len(n) >= 1
      BY NameIs
    <3>2. Separator(n, k) = Len(n)
      <4>1. Separator(n, k) \in Nat
        BY <1>2 DEF Bounds
      <4> QED BY <1>2, <2>3, <4>1
    <3> QED BY <1>2, <3>1, <3>2 DEF Bounds
  <2> QED BY <2>3, <2>4
<1> QED BY <1>1, <1>3, <1>5, <1>6, <1>7

\* The only mismatch is # over a separator.
LEMMA MatchedBreak ==
    ASSUME NEW f \in Filters, NEW n \in Names,
           NEW i, NEW j, Aligned(f, n, i, j), Matches(f, n), i <= Len(f), j <= Len(n)
    PROVE  f[i] \in {"+", "#"} \/ f[i] = n[j]
<1>1. PICK k \in Nat : /\ Reached(f, n, k)
                       /\ \/ AtChar(f, n, i, j, k)
                          \/ AfterPlus(f, n, i, j, k)
                          \/ AfterHash(f, n, i, j, k)
  BY DEF Aligned
<1>2. /\ Bounds(f, k) /\ Bounds(n, k) /\ k \in 0..Count(f) /\ k <= Count(n)
      /\ Len(f) \in Nat /\ Len(n) \in Nat
  BY <1>1, ReachedBounds DEF Bounds
<1>3. ~AfterHash(f, n, i, j, k)
  BY <1>2 DEF AfterHash
<1>4. ASSUME i = Separator(f, k + 1), j = Separator(n, k + 1) PROVE f[i] = n[j]
  BY <1>2, <1>4 DEF Bounds
<1>5. CASE AfterPlus(f, n, i, j, k)
  BY <1>4, <1>5 DEF AfterPlus
<1>6. CASE AtChar(f, n, i, j, k) /\ SameLevel(f, n, k)
  <2>1. /\ i - Separator(f, k) = j - Separator(n, k) /\ i \in Nat /\ j \in Nat
        /\ Separator(f, k) < i /\ i <= Separator(f, k + 1)
    BY <1>6 DEF AtChar
  <2>2. /\ Separator(f, k) \in Nat /\ Separator(n, k) \in Nat
        /\ Separator(f, k + 1) \in Nat /\ Separator(n, k + 1) \in Nat
    BY <1>2 DEF Bounds
  <2>3. Separator(f, k + 1) - Separator(f, k) = Separator(n, k + 1) - Separator(n, k)
    BY <1>6 DEF SameLevel
  <2>4. CASE i = Separator(f, k + 1)
    <3>1. j = Separator(n, k + 1)
      BY <2>1, <2>2, <2>3, <2>4
    <3> QED BY <1>4, <2>4, <3>1
  <2>5. CASE i < Separator(f, k + 1)
    <3>1. /\ i - Separator(f, k) \in 1..(Separator(f, k + 1) - Separator(f, k) - 1)
          /\ Separator(f, k) + (i - Separator(f, k)) = i
          /\ Separator(n, k) + (i - Separator(f, k)) = j
      <4>1. ASSUME NEW p \in Nat, NEW q \in Nat, NEW r \in Nat, p < i, i < q, i - p = j - r
            PROVE  i - p \in 1..(q - p - 1) /\ p + (i - p) = i /\ r + (i - p) = j
        BY <2>1, <4>1
      <4> QED BY <2>1, <2>2, <2>5, <4>1
    <3>2. \A d \in 1..(Separator(f, k + 1) - Separator(f, k) - 1) :
            f[Separator(f, k) + d] = n[Separator(n, k) + d]
      BY <1>6 DEF SameLevel
    <3> QED BY <3>1, <3>2
  <2> QED BY <2>1, <2>2, <2>4, <2>5
<1>7. CASE AtChar(f, n, i, j, k) /\ ~SameLevel(f, n, k)
  <2>1. PICK x \in {"+", "#"} : Level(f, k + 1) = <<x>>
    BY <1>1, <1>7, MatchedLevel
  <2> QED BY <1>1, <1>7, <2>1, WildStart
<1> QED BY <1>1, <1>3, <1>5, <1>6, <1>7

LEMMA MatchIsFound ==
    ASSUME TopicInv, pc # "loop", Matches(topicFilter, topicName)
    PROVE  Verdict
<1>1. topicFilter \in Filters /\ topicName \in Names /\ Aligned(topicFilter, topicName, curf, curn)
  BY DEF TopicInv
<1>2. /\ Len(topicFilter) \in Nat /\ curf \in Nat /\ 1 <= curf /\ curf <= Len(topicFilter) + 1
      /\ Len(topicName) \in Nat /\ curn \in Nat /\ curn <= Len(topicName) + 1
      /\ F(curf) = "NUL" <=> curf = Len(topicFilter) + 1
      /\ curf <= Len(topicFilter) => F(curf) = topicFilter[curf]
      /\ curn <= Len(topicName) => N(curn) = topicName[curn]
  BY <1>1, Positions
<1>3. CASE curf = Len(topicFilter) + 1
  <2>1. curn = Len(topicName) + 1
    BY <1>1, <1>3, MatchedToEnd
  <2> QED BY <1>2, <1>3, <2>1 DEF Verdict, curn_end
<1>4. CASE curf <= Len(topicFilter) /\ curn = Len(topicName) + 1
  <2>1. \/ topicFilter[curf] = "#"
        \/ curf + 1 <= Len(topicFilter) /\ topicFilter[curf + 1] = "#"
        \/ topicFilter[curf] = "+" /\ topicName[Len(topicName)] = "/"
    BY <1>1, <1>4, MatchedRest
  <2>2. F(curf) # "NUL" /\ F(curf) = topicFilter[curf]
    BY <1>2, <1>4
  <2>3. curf + 1 <= Len(topicFilter) => F(curf + 1) = topicFilter[curf + 1]
    BY <1>2 DEF F
  <2>4. N(curn - 1) = topicName[Len(topicName)]
    <3>1. curn - 1 = Len(topicName)
      BY <1>2, <1>4
    <3> QED BY <3>1 DEF N
  <2> QED BY <2>1, <2>2, <2>3, <2>4 DEF Verdict
<1>5. CASE curf <= Len(topicFilter) /\ curn <= Len(topicName)
  <2>1. topicFilter[curf] \in {"+", "#"} \/ topicFilter[curf] = topicName[curn]
    BY <1>1, <1>5, MatchedBreak
  <2>2. F(curf) # "NUL" /\ F(curf) = topicFilter[curf] /\ N(curn) = topicName[curn]
        /\ curn # Len(topicName) + 1
    BY <1>2, <1>5
  <2>3. Mismatch /\ ~(F(curf) = "+" /\ N(curn) = "/")
    BY <2>2 DEF TopicInv, ExitFits
  <2>4. topicFilter[curf] = "#"
    BY <2>1, <2>2, <2>3 DEF Mismatch
  <2> QED BY <2>2, <2>4 DEF Verdict
<1>6. \/ curf = Len(topicFilter) + 1
      \/ curf <= Len(topicFilter) /\ curn = Len(topicName) + 1
      \/ curf <= Len(topicFilter) /\ curn <= Len(topicName)
  BY <1>2
<1> QED BY <1>3, <1>4, <1>5, <1>6

\* _is_topic_matched returns 1 for every topic that the filter matches, so a
\* message is never kept from a subscription it belongs to.
THEOREM MatchesAreFound == MatchSpec => []FindsMatches
<1>1. TopicInv => FindsMatches
  <2> SUFFICES ASSUME TopicInv, pc = "done", Matches(topicFilter, topicName) PROVE matched
    BY Zenon DEF FindsMatches
  <2>1. pc # "loop"
    OBVIOUS
  <2>2. Verdict
    BY <2>1, MatchIsFound
  <2> QED BY <2>2, Zenon DEF TopicInv, Judged
<1> QED BY <1>1, TopicInvariant, PTL

----------------------------------------------------------------------------
(* A topic that is found to match: the beginning of a string, up to a      *)
(* position in its level k + 1, has the same levels up to k.               *)

LEMMA BoundHasRank ==
    ASSUME NEW S, NEW s \in Seq(S), NEW k \in 0..Count(s)
    PROVE  Rank(s, Separator(s, k)) = k /\ (k >= 1 => Separator(s, k) \in Separators(s))
<1>1. Count(s) \in Nat /\ Len(s) \in Nat /\ k \in Nat /\ k <= Count(s)
  BY SepsAreFinite
<1>2. Bounds(s, k)
  BY BoundsHold
<1>3. CASE k = 0
  BY <1>2, <1>3, RankEnds DEF Bounds
<1>4. CASE k # 0
  <2>1. k \in 1..Count(s)
    BY <1>1, <1>4
  <2> QED BY <1>2, <2>1, SeparatorHasRank
<1> QED BY <1>2, <1>3, <1>4

LEMMA RankIsUnique ==
    ASSUME NEW S, NEW s \in Seq(S), NEW x \in Separators(s), NEW y \in Separators(s),
           Rank(s, x) = Rank(s, y)
    PROVE  x = y
<1>1. x \in Nat /\ y \in Nat
  BY SepsAreFinite
<1>2. x < y => Rank(s, x) < Rank(s, y)
  BY <1>1, RankGrows
<1>3. y < x => Rank(s, y) < Rank(s, x)
  BY <1>1, RankGrows
<1>4. Rank(s, x) \in Nat
  BY SepsAreFinite
<1> QED BY <1>1, <1>2, <1>3, <1>4

\* p is s up to position m, which is in level k + 1.
Begins(p, S, s, k, m) ==
    /\ p \in Seq(S) /\ Len(p) = m /\ \A d \in 1..m : p[d] = s[d]
    /\ Count(p) = k
    /\ Separator(p, k) = Separator(s, k) /\ Separator(p, k + 1) = m + 1
    /\ \A l \in 1..k : Level(p, l) = Level(s, l)

LEMMA PrefixLevels ==
    ASSUME NEW S, NEW s \in Seq(S), NEW k \in 0..Count(s), NEW m \in Nat,
           Separator(s, k) <= m, m < Separator(s, k + 1), NEW p, p = SubSeq(s, 1, m)
    PROVE  Begins(p, S, s, k, m)
<1>1. /\ Bounds(s, k) /\ Rank(s, Separator(s, k)) = k
      /\ Len(s) \in Nat /\ Count(s) \in Nat /\ k \in Nat /\ Separator(s, k) \in Nat
  BY BoundsHold, BoundHasRank DEF Bounds
<1>2. m <= Len(s)
  BY <1>1 DEF Bounds
<1>3. p \in Seq(S) /\ Len(p) = m /\ \A d \in 1..m : p[d] = s[d]
  <2>1. 1 \in 1..(Len(s) + 1) /\ m \in (1 - 1)..Len(s) /\ m - 1 + 1 = m
    BY <1>1, <1>2
  <2>2. /\ p \in Seq(S) /\ Len(p) = m - 1 + 1
        /\ \A d \in 1..(m - 1 + 1) : p[d] = s[1 + d - 1]
    BY <2>1, SubSeqProperties
  <2>3. \A d \in 1..m : 1 + d - 1 = d
    OBVIOUS
  <2> QED BY <2>1, <2>2, <2>3
<1>4. Separators(p) = UpTo(s, m)
  <2>1. DOMAIN p = 1..m /\ DOMAIN s = 1..Len(s)
    BY <1>3, LenProperties
  <2> QED BY <1>1, <1>2, <1>3, <2>1 DEF UpTo, Separators
<1>5. \A x \in Separators(s) : x \in Nat
  BY SepsAreFinite
<1>6. ASSUME NEW x \in Nat, x <= m PROVE Rank(p, x) = Rank(s, x)
  <2>1. UpTo(p, x) = UpTo(s, x)
    BY <1>4, <1>5, <1>6 DEF UpTo
  <2> QED BY <2>1 DEF Rank
<1>7. Count(p) = k
  <2>1. UpTo(s, m) = UpTo(s, Separator(s, k))
    <3>1. ASSUME NEW x \in Separators(s), x <= m PROVE x <= Separator(s, k)
      <4>1. x \in 1..Len(s) /\ s[x] = "/"
        BY SepsAreFinite DEF Separators
      <4>2. x < Separator(s, k + 1)
        <5>1. Separator(s, k + 1) \in Nat
          BY <1>1 DEF Bounds
        <5> QED BY <1>5, <3>1, <5>1
      <4>3. ~(Separator(s, k) < x)
        BY <1>1, <4>1, <4>2 DEF Bounds
      <4> QED BY <1>1, <1>5, <4>3
    <3>2. \A x \in Separators(s) : x <= Separator(s, k) => x <= m
      BY <1>1, <1>5
    <3> QED BY <3>1, <3>2 DEF UpTo
  <2> QED BY <1>1, <1>4, <2>1 DEF Count, Rank
<1>8. ASSUME NEW l \in 0..k PROVE Separator(p, l) = Separator(s, l)
  <2>1. l \in 0..Count(s) /\ l \in 0..Count(p) /\ l \in Nat
    BY <1>1, <1>7
  <2>2. CASE l = 0
    <3>1. Bounds(s, l) /\ Bounds(p, l)
      BY <1>3, <2>1, BoundsHold
    <3> QED BY <2>2, <3>1 DEF Bounds
  <2>3. CASE l # 0
    <3>1. l >= 1
      BY <2>1, <2>3
    <3>2. Separator(s, l) \in Separators(s) /\ Rank(s, Separator(s, l)) = l
      BY <2>1, <3>1, BoundHasRank
    <3>3. Separator(p, l) \in Separators(p) /\ Rank(p, Separator(p, l)) = l
      BY <1>3, <2>1, <3>1, BoundHasRank
    <3>4. Separator(p, l) \in Separators(s) /\ Separator(p, l) <= m /\ Separator(p, l) \in Nat
      BY <1>4, <1>5, <3>3 DEF UpTo
    <3>5. Rank(s, Separator(p, l)) = l
      BY <1>6, <3>3, <3>4
    <3> QED BY <3>2, <3>4, <3>5, RankIsUnique
  <2> QED BY <2>2, <2>3
<1>9. Separator(p, k + 1) = m + 1
  <2>1. Bounds(p, k)
    <3>1. k \in 0..Count(p)
      BY <1>1, <1>7
    <3> QED BY <1>3, <3>1, BoundsHold
  <2> QED BY <1>3, <1>7, <2>1 DEF Bounds
<1>10. ASSUME NEW l \in 1..k PROVE Level(p, l) = Level(s, l)
  <2>1. /\ l - 1 \in 0..k /\ l \in 0..k /\ (l - 1) + 1 = l
        /\ l - 1 \in 0..Count(p) /\ l - 1 \in 0..Count(s) /\ l - 1 <= Count(s)
    BY <1>1, <1>7
  <2>2. Separator(p, l - 1) = Separator(s, l - 1) /\ Separator(p, l) = Separator(s, l)
    BY <1>8, <2>1
  <2>3. \A d \in 1..(Separator(p, l) - Separator(p, l - 1) - 1) : Separator(p, l - 1) + d \in 1..m
    <3>1. \A d \in 1..(Separator(p, (l - 1) + 1) - Separator(p, l - 1) - 1) :
            Separator(p, l - 1) + d \in 1..Len(p)
      BY <1>3, <2>1, LevelIs
    <3> QED BY <1>3, <2>1, <3>1
  <2>4. SameLevel(p, s, l - 1)
    <3>1. \A d \in 1..(Separator(p, l) - Separator(p, l - 1) - 1) :
            p[Separator(p, l - 1) + d] = s[Separator(s, l - 1) + d]
      BY <1>3, <2>2, <2>3
    <3> QED BY <2>1, <2>2, <3>1, Zenon DEF SameLevel
  <2>5. Level(p, (l - 1) + 1) = Level(s, (l - 1) + 1)
    BY <1>3, <2>1, <2>4, SameLevels
  <2> QED BY <2>1, <2>5
<1>11. Separator(p, k) = Separator(s, k)
  BY <1>1, <1>8
<1> QED BY <1>3, <1>7, <1>9, <1>10, <1>11 DEF Begins

\* The beginning of the filter that has been used up matches what it was
\* used for, when both end in the middle of level k + 1.
LEMMA PrefixMatches ==
    ASSUME NEW f \in Filters, NEW n \in Names,
           NEW k \in Nat, Reached(f, n, k), NEW i \in Nat, NEW j \in Nat,
           Separator(f, k) < i, i <= Separator(f, k + 1), j <= Separator(n, k + 1),
           i - Separator(f, k) = j - Separator(n, k),
           \A d \in 1..(i - Separator(f, k) - 1) : f[Separator(f, k) + d] = n[Separator(n, k) + d]
    PROVE  Matches(SubSeq(f, 1, i - 1), SubSeq(n, 1, j - 1))
<1> DEFINE p == SubSeq(f, 1, i - 1)
           q == SubSeq(n, 1, j - 1)
           a == Separator(f, k)
           c == Separator(n, k)
<1>1. f \in Seq(Chars) /\ n \in Seq(Chars)
  BY FilterIs, NameIs
<1>2. Bounds(f, k) /\ Bounds(n, k) /\ k \in 0..Count(f) /\ k \in 0..Count(n)
  BY ReachedBounds
<1>3. /\ a \in Nat /\ c \in Nat /\ Separator(f, k + 1) \in Nat /\ Separator(n, k + 1) \in Nat
      /\ Len(n) \in Nat /\ Separator(n, k + 1) <= Len(n) + 1
  BY <1>2 DEF Bounds
<1>4. a < i /\ i <= Separator(f, k + 1) /\ j <= Separator(n, k + 1) /\ i - a = j - c
  OBVIOUS
<1>5. \A d \in 1..(i - a - 1) : f[a + d] = n[c + d]
  OBVIOUS
<1> HIDE DEF a, c
<1>6. /\ i - 1 \in Nat /\ a <= i - 1 /\ i - 1 < Separator(f, k + 1) /\ (i - 1) + 1 = i
      /\ j - 1 \in Nat /\ c <= j - 1 /\ j - 1 < Separator(n, k + 1) /\ (j - 1) + 1 = j
  BY <1>3, <1>4
<1> HIDE DEF p, q
<1>7. /\ p \in Seq(Chars) /\ Len(p) = i - 1 /\ \A d \in 1..(i - 1) : p[d] = f[d]
      /\ Count(p) = k /\ Separator(p, k) = a /\ Separator(p, k + 1) = i
      /\ \A l \in 1..k : Level(p, l) = Level(f, l)
  <2>1. p = SubSeq(f, 1, i - 1) /\ Separator(f, k) = a
    BY DEF p, a
  <2>2. Begins(p, Chars, f, k, i - 1)
    <3>1. i - 1 \in Nat /\ Separator(f, k) <= i - 1 /\ i - 1 < Separator(f, k + 1)
      BY <1>6, <2>1
    <3> QED BY <1>1, <1>2, <2>1, <3>1, PrefixLevels
  <2>3. /\ p \in Seq(Chars) /\ Len(p) = i - 1 /\ \A d \in 1..(i - 1) : p[d] = f[d]
        /\ Count(p) = k /\ Separator(p, k) = a /\ Separator(p, k + 1) = (i - 1) + 1
        /\ \A l \in 1..k : Level(p, l) = Level(f, l)
    BY <2>1, <2>2 DEF Begins
  <2> QED BY <1>6, <2>3
<1>8. /\ q \in Seq(Chars) /\ Len(q) = j - 1 /\ \A d \in 1..(j - 1) : q[d] = n[d]
      /\ Count(q) = k /\ Separator(q, k) = c /\ Separator(q, k + 1) = j
      /\ \A l \in 1..k : Level(q, l) = Level(n, l)
  <2>1. q = SubSeq(n, 1, j - 1) /\ Separator(n, k) = c
    BY DEF q, c
  <2>2. Begins(q, Chars, n, k, j - 1)
    <3>1. j - 1 \in Nat /\ Separator(n, k) <= j - 1 /\ j - 1 < Separator(n, k + 1)
      BY <1>6, <2>1
    <3> QED BY <1>1, <1>2, <2>1, <3>1, PrefixLevels
  <2>3. /\ q \in Seq(Chars) /\ Len(q) = j - 1 /\ \A d \in 1..(j - 1) : q[d] = n[d]
        /\ Count(q) = k /\ Separator(q, k) = c /\ Separator(q, k + 1) = (j - 1) + 1
        /\ \A l \in 1..k : Level(q, l) = Level(n, l)
    BY <2>1, <2>2 DEF Begins
  <2> QED BY <1>6, <2>3
<1>9. ASSUME NEW d \in 1..(i - a - 1) PROVE p[a + d] = q[c + d] /\ q[c + d] # "#"
  <2>1. a + d \in 1..(i - 1) /\ c + d \in 1..(j - 1) /\ c + d \in 1..Len(n)
    BY <1>3, <1>4, <1>9
  <2>2. n[c + d] # "#"
    BY <2>1, NameIs
  <2> QED BY <1>5, <1>7, <1>8, <2>1, <2>2
<1>10. SameLevel(p, q, k)
  BY <1>4, <1>7, <1>8, <1>9, Zenon DEF SameLevel
<1>11. Level(p, k + 1) = Level(q, k + 1)
  <2>1. k \in 0..Count(p) /\ k <= Count(q)
    BY <1>7, <1>8
  <2> QED BY <1>7, <1>8, <1>10, <2>1, SameLevels
<1>12. Last(p) # <<"#">>
  <2> SUFFICES ASSUME Level(p, k + 1) = <<"#">> PROVE FALSE
    BY <1>7 DEF Last
  <2>1. /\ Len(Level(p, k + 1)) = i - a - 1
        /\ \A d \in 1..(i - a - 1) : Level(p, k + 1)[d] = p[a + d]
    <3>1. k \in 0..Count(p)
      BY <1>7
    <3>2. /\ Len(Level(p, k + 1)) = Separator(p, k + 1) - Separator(p, k) - 1
          /\ \A d \in 1..(Separator(p, k + 1) - Separator(p, k) - 1) :
               Level(p, k + 1)[d] = p[Separator(p, k) + d]
      <4>1. p \in Seq(Chars)
        BY <1>7
      <4> QED BY <3>1, <4>1, LevelIs
    <3>3. Separator(p, k + 1) = i /\ Separator(p, k) = a
      BY <1>7
    <3> QED BY <3>2, <3>3
  <2>2. Len(<<"#">>) = 1 /\ <<"#">>[1] = "#"
    OBVIOUS
  <2>3. i - a - 1 = 1
    BY <2>1, <2>2, Zenon
  <2>4. p[a + 1] = "#"
    BY <2>1, <2>2, <2>3
  <2> QED BY <1>9, <2>3, <2>4
<1>13. ASSUME NEW l \in 1..(k + 1) PROVE LevelMatches(p, q, l)
  <2>1. l \in 1..k \/ l = k + 1
    BY <1>13
  <2>2. CASE l = k + 1
    BY <1>11, <2>2 DEF LevelMatches
  <2>3. CASE l \in 1..k
    <3>1. LevelMatches(f, n, l)
      BY <2>3 DEF Reached
    <3> QED BY <1>7, <1>8, <2>3, <3>1 DEF LevelMatches
  <2> QED BY <2>1, <2>2, <2>3
<1>14. Matches(p, q)
  BY <1>7, <1>8, <1>12, <1>13, MatchesIs
<1> QED BY <1>14 DEF p, q

\* Both strings are used up.
LEMMA UsedUpMatches ==
    ASSUME NEW f \in Filters, NEW n \in Names,
           NEW i, NEW j, Aligned(f, n, i, j), i = Len(f) + 1, j = Len(n) + 1
    PROVE  Matches(f, n)
<1>1. PICK k \in Nat : /\ Reached(f, n, k)
                       /\ \/ AtChar(f, n, i, j, k)
                          \/ AfterPlus(f, n, i, j, k)
                          \/ AfterHash(f, n, i, j, k)
  BY DEF Aligned
<1>2. /\ Bounds(f, k) /\ Bounds(n, k) /\ k \in 0..Count(f) /\ k <= Count(n)
      /\ Count(f) \in Nat /\ Count(n) \in Nat /\ Len(f) \in Nat /\ Len(n) \in Nat
  BY <1>1, ReachedBounds DEF Bounds
<1>3. f \in Seq(Chars) /\ n \in Seq(Chars)
  BY FilterIs, NameIs
<1>4. CASE AfterHash(f, n, i, j, k)
  <2>1. Last(f) = <<"#">> /\ k = Count(f)
    BY <1>4 DEF AfterHash, Last
  <2>2. \A m \in 1..Count(f) : m <= Count(n) + 1 /\ LevelMatches(f, n, m)
    BY <1>1, <1>2, <2>1 DEF Reached
  <2> QED BY <1>3, <2>1, <2>2, MatchesIs
<1>5. CASE AtChar(f, n, i, j, k) \/ AfterPlus(f, n, i, j, k)
  <2>1. i <= Separator(f, k + 1) /\ j <= Separator(n, k + 1)
    <3>1. Separator(f, k + 1) \in Nat /\ Separator(n, k + 1) \in Nat
      BY <1>2 DEF Bounds
    <3> QED BY <1>5, <3>1 DEF AtChar, AfterPlus
  <2>2. i = Separator(f, k + 1) /\ k = Count(f)
    BY <1>2, <2>1, AtLast
  <2>3. j = Separator(n, k + 1) /\ k = Count(n)
    BY <1>2, <2>1, AtLast
  <2>4. LevelMatches(f, n, k + 1)
    BY <1>1, <1>5, <2>2, <2>3, SeparatorsMeet
  <2>5. Level(f, k + 1) # <<"#">>
    <3>1. CASE AtChar(f, n, i, j, k)
      BY <1>1, <1>2, <3>1, WildStart
    <3>2. CASE AfterPlus(f, n, i, j, k)
      <4>1. <<"+">> # <<"#">>
        OBVIOUS
      <4> QED BY <3>2, <4>1 DEF AfterPlus
    <3> QED BY <1>5, <3>1, <3>2
  <2>6. ASSUME NEW m \in 1..(Count(f) + 1) PROVE LevelMatches(f, n, m)
    <3>1. m \in 1..k \/ m = k + 1
      BY <1>2, <2>2
    <3> QED BY <1>1, <2>4, <3>1 DEF Reached
  <2>7. Last(f) # <<"#">> /\ Count(n) = Count(f)
    BY <2>2, <2>3, <2>5 DEF Last
  <2> QED BY <1>3, <2>6, <2>7, MatchesIs
<1> QED BY <1>1, <1>4, <1>5

\* The filter is at its final #.
LEMMA AtHashMatches ==
    ASSUME NEW f \in Filters, NEW n \in Names,
           NEW i, NEW j, Aligned(f, n, i, j), i <= Len(f), f[i] = "#"
    PROVE  Matches(f, n)
<1>1. PICK k \in Nat : /\ Reached(f, n, k) /\ k = Count(f)
                       /\ Level(f, k + 1) = <<f[i]>>
  BY AtWildcard
<1>2. f \in Seq(Chars) /\ n \in Seq(Chars)
  BY FilterIs, NameIs
<1>3. Count(f) \in Nat /\ Count(n) \in Nat /\ k <= Count(n)
  BY <1>1, ReachedBounds DEF Bounds
<1>4. \A m \in 1..Count(f) : m <= Count(n) + 1 /\ LevelMatches(f, n, m)
  BY <1>1, <1>3 DEF Reached
<1>5. Last(f) = <<"#">>
  BY <1>1 DEF Last
<1> QED BY <1>2, <1>4, <1>5, MatchesIs

\* The filter is at the separator before its final #.
LEMMA BeforeHash ==
    ASSUME NEW f \in Filters, NEW n \in Names,
           NEW i, NEW j, Aligned(f, n, i, j), i + 1 <= Len(f), f[i + 1] = "#"
    PROVE  \E k \in Nat : /\ Reached(f, n, k) /\ k + 1 = Count(f) /\ Last(f) = <<"#">>
                          /\ i = Separator(f, k + 1) /\ i + 1 = Len(f)
                          /\ AtChar(f, n, i, j, k) \/ AfterPlus(f, n, i, j, k)
<1>1. PICK k \in Nat : /\ Reached(f, n, k)
                       /\ \/ AtChar(f, n, i, j, k)
                          \/ AfterPlus(f, n, i, j, k)
                          \/ AfterHash(f, n, i, j, k)
  BY DEF Aligned
<1>2. /\ Bounds(f, k) /\ k \in 0..Count(f) /\ Count(f) \in Nat /\ Len(f) \in Nat
      /\ Separator(f, k) \in Nat /\ Separator(f, k + 1) \in Nat
      /\ Separator(f, k) < Separator(f, k + 1)
  BY <1>1, ReachedBounds DEF Bounds
<1>3. ~AfterHash(f, n, i, j, k)
  BY <1>2 DEF AfterHash
<1>4. i \in Nat /\ Separator(f, k) < i /\ i <= Separator(f, k + 1)
  <2>1. CASE AtChar(f, n, i, j, k)
    BY <2>1 DEF AtChar
  <2>2. CASE AfterPlus(f, n, i, j, k)
    BY <1>2, <2>2 DEF AfterPlus
  <2> QED BY <1>1, <1>3, <2>1, <2>2
<1>5. f[i + 1] # "/" /\ i + 1 \in 1..Len(f) /\ i + 1 \in Nat
  BY <1>2, <1>4
<1>6. i = Separator(f, k + 1)
  <2> SUFFICES ASSUME i # Separator(f, k + 1) PROVE FALSE
    OBVIOUS
  <2>1. i + 1 <= Separator(f, k + 1) /\ Separator(f, k) < i + 1 /\ i + 1 # Separator(f, k) + 1
    BY <1>2, <1>4
  <2>2. i + 1 < Separator(f, k + 1)
    BY <1>2, <1>5, <2>1, AtCharacter
  <2>3. i + 1 = Separator(f, k) + 1
    BY <1>2, <1>5, <2>1, <2>2, WildAlone
  <2> QED BY <2>1, <2>3
<1>7. k < Count(f)
  <2>1. i <= Len(f)
    BY <1>2, <1>4
  <2> QED BY <1>2, <1>6, <2>1 DEF Bounds
<1>8. k + 1 \in 0..Count(f) /\ f \in Seq(Chars)
  BY <1>2, <1>7, FilterIs
<1>9. /\ Bounds(f, k + 1) /\ Separator(f, (k + 1) + 1) \in Nat
      /\ Separator(f, k + 1) < Separator(f, (k + 1) + 1)
  BY <1>8, BoundsHold DEF Bounds
<1>10. Separator(f, k + 1) < i + 1 /\ i + 1 <= Separator(f, (k + 1) + 1)
  BY <1>4, <1>6, <1>9
<1>11. i + 1 < Separator(f, (k + 1) + 1)
  BY <1>5, <1>9, <1>10, AtCharacter
<1>12. /\ (i + 1) + 1 = Separator(f, (k + 1) + 1) /\ k + 1 = Count(f)
       /\ Level(f, (k + 1) + 1) = <<f[i + 1]>>
  BY <1>5, <1>8, <1>10, <1>11, WildAlone
<1>13. i + 1 = Len(f)
  <2>1. Separator(f, (k + 1) + 1) = Len(f) + 1
    BY <1>9, <1>12 DEF Bounds
  <2> QED BY <1>2, <1>4, <1>12, <2>1
<1>14. Last(f) = <<"#">>
  BY <1>12 DEF Last
<1> QED BY <1>1, <1>3, <1>6, <1>12, <1>13, <1>14

\* There p/# matches, or takes a topic in which the last level of p is longer.
LEMMA BeforeHashTakes ==
    ASSUME NEW f \in Filters, NEW n \in Names,
           NEW i, NEW j, Aligned(f, n, i, j), i + 1 <= Len(f), f[i + 1] = "#"
    PROVE  \/ Matches(f, n)
           \/ /\ f[Len(f)] = "#" /\ Len(f) > 1
              /\ \E k \in 0..(Len(n) - 1) :
                   IF Len(f) = 2 THEN k = 0
                   ELSE Matches(SubSeq(f, 1, Len(f) - 2), SubSeq(n, 1, k))
<1>1. PICK k \in Nat : /\ Reached(f, n, k) /\ k + 1 = Count(f) /\ Last(f) = <<"#">>
                       /\ i = Separator(f, k + 1) /\ i + 1 = Len(f)
                       /\ AtChar(f, n, i, j, k) \/ AfterPlus(f, n, i, j, k)
  BY BeforeHash
<1>2. /\ Bounds(f, k) /\ Bounds(n, k) /\ k <= Count(n)
      /\ Count(n) \in Nat /\ Count(f) \in Nat
  <2>1. Reached(f, n, k)
    BY <1>1
  <2>2. Bounds(f, k) /\ Bounds(n, k)
    BY <2>1, ReachedBounds
  <2> QED BY <2>2 DEF Bounds
<1>3. /\ Len(f) \in Nat /\ Len(n) \in Nat /\ Separator(f, k) \in Nat /\ Separator(f, k + 1) \in Nat
      /\ Separator(n, k) \in Nat /\ Separator(n, k + 1) \in Nat /\ Separator(n, k + 1) <= Len(n) + 1
      /\ Separator(f, k) < Separator(f, k + 1) /\ Separator(n, k) < Separator(n, k + 1)
  BY <1>2 DEF Bounds
<1>4. f \in Seq(Chars) /\ n \in Seq(Chars)
  BY FilterIs, NameIs
<1>5. CASE j = Separator(n, k + 1)
  <2>1. LevelMatches(f, n, k + 1)
    BY <1>1, <1>5, SeparatorsMeet
  <2>2. ASSUME NEW m \in 1..Count(f) PROVE m <= Count(n) + 1 /\ LevelMatches(f, n, m)
    <3>1. (m \in 1..k \/ m = k + 1) /\ m <= Count(n) + 1
      BY <1>1, <1>2
    <3> QED BY <1>1, <2>1, <3>1 DEF Reached
  <2> QED BY <1>1, <1>4, <2>2, MatchesIs
<1>6. CASE j # Separator(n, k + 1)
  <2>1. AtChar(f, n, i, j, k)
    BY <1>1, <1>6 DEF AfterPlus
  <2>2. /\ i \in Nat /\ j \in Nat /\ Separator(f, k) < i /\ i <= Separator(f, k + 1)
        /\ j <= Separator(n, k + 1) /\ i - Separator(f, k) = j - Separator(n, k)
    BY <2>1 DEF AtChar
  <2>3. j - 1 \in 0..(Len(n) - 1) /\ Len(f) > 1
    <3>1. i + 1 = Len(f)
      BY <1>1
    <3> QED BY <1>3, <1>6, <2>2, <3>1
  <2>4. f[Len(f)] = "#"
    BY <1>1
  <2>5. Len(f) = 2 => j - 1 = 0
    <3> SUFFICES ASSUME Len(f) = 2 PROVE j - 1 = 0
      OBVIOUS
    <3>1. i = 1 /\ Separator(f, k) = 0
      BY <1>1, <1>3, <2>2
    <3>2. k = 0
      BY <1>2, <3>1 DEF Bounds
    <3>3. Separator(n, k) = 0
      BY <1>2, <3>2 DEF Bounds
    <3> QED BY <2>2, <3>1, <3>3
  <2>6. Matches(SubSeq(f, 1, i - 1), SubSeq(n, 1, j - 1))
    <3>1. \A d \in 1..(i - Separator(f, k) - 1) : f[Separator(f, k) + d] = n[Separator(n, k) + d]
      BY <2>1 DEF AtChar
    <3> QED BY <1>1, <2>2, <3>1, PrefixMatches
  <2>7. i - 1 = Len(f) - 2
    <3>1. i + 1 = Len(f)
      BY <1>1
    <3> QED BY <1>3, <2>2, <3>1
  <2>8. IF Len(f) = 2 THEN j - 1 = 0
        ELSE Matches(SubSeq(f, 1, Len(f) - 2), SubSeq(n, 1, j - 1))
    BY <2>5, <2>6, <2>7
  <2> QED BY <2>3, <2>4, <2>8
<1> QED BY <1>5, <1>6

\* A + at the end of a name that ends in a separator matches, or the filter
\* goes on.
LEMMA PlusAtEndTakes ==
    ASSUME NEW f \in Filters, NEW n \in Names,
           NEW i, NEW j, Aligned(f, n, i, j), i <= Len(f), f[i] = "+",
           j = Len(n) + 1, n[Len(n)] = "/"
    PROVE  \/ Matches(f, n)
           \/ \E k \in 1..(Len(f) - 1) : /\ f[k] = "+" /\ k > 1
                                         /\ Matches(SubSeq(f, 1, k - 1), n)
<1>1. PICK k \in Nat : /\ Reached(f, n, k) /\ AtChar(f, n, i, j, k)
                       /\ i = Separator(f, k) + 1 /\ j = Separator(n, k) + 1
                       /\ i + 1 = Separator(f, k + 1) /\ Level(f, k + 1) = <<f[i]>>
  BY AtWildcard
<1>2. /\ Bounds(f, k) /\ Bounds(n, k) /\ k \in 0..Count(f) /\ k <= Count(n)
      /\ Count(n) \in Nat /\ Count(f) \in Nat
  <2>1. Reached(f, n, k)
    BY <1>1
  <2>2. Bounds(f, k) /\ Bounds(n, k) /\ k \in 0..Count(f)
    BY <2>1, ReachedBounds
  <2> QED BY <2>2 DEF Bounds
<1>3. /\ Len(f) \in Nat /\ Len(n) \in Nat /\ Separator(f, k) \in Nat /\ Separator(f, k + 1) \in Nat
      /\ Separator(n, k) \in Nat /\ Separator(n, k + 1) \in Nat /\ Separator(n, k + 1) <= Len(n) + 1
      /\ Separator(n, k) < Separator(n, k + 1)
  BY <1>2 DEF Bounds
<1>4. f \in Seq(Chars) /\ n \in Seq(Chars) /\ Len(n) >= 1
  BY FilterIs, NameIs
<1>5. i \in Nat /\ j \in Nat /\ j - 1 = Len(n) /\ Separator(n, k) = Len(n)
  <2>1. i = Separator(f, k) + 1 /\ j = Separator(n, k) + 1
    BY <1>1
  <2> QED BY <1>3, <2>1
<1>6. k = Count(n)
  <2>1. Separator(n, k + 1) = Len(n) + 1
    BY <1>3, <1>5
  <2> QED BY <1>2, <1>3, <2>1 DEF Bounds
<1>7. CASE i = Len(f)
  <2>1. k = Count(f)
    <3>1. Separator(f, k + 1) = Len(f) + 1
      BY <1>1, <1>7
    <3> QED BY <1>2, <1>3, <3>1 DEF Bounds
  <2>2. LevelMatches(f, n, k + 1)
    BY <1>1 DEF LevelMatches
  <2>3. ASSUME NEW m \in 1..(Count(f) + 1) PROVE LevelMatches(f, n, m)
    <3>1. m \in 1..k \/ m = k + 1
      BY <1>2, <2>1
    <3> QED BY <1>1, <2>2, <3>1 DEF Reached
  <2>4. Last(f) # <<"#">>
    <3>1. <<"+">> # <<"#">>
      OBVIOUS
    <3> QED BY <1>1, <2>1, <3>1 DEF Last
  <2> QED BY <1>4, <1>6, <2>1, <2>3, <2>4, MatchesIs
<1>8. CASE i # Len(f)
  <2>1. i \in 1..(Len(f) - 1) /\ i > 1
    <3>1. k >= 1
      <4>1. k # 0
        BY <1>2, <1>4, <1>5 DEF Bounds
      <4> QED BY <4>1
    <3>2. Separator(f, k) >= 1
      BY <1>2, <3>1 DEF Bounds
    <3>3. i = Separator(f, k) + 1
      BY <1>1
    <3> QED BY <1>3, <1>5, <1>8, <3>2, <3>3
  <2>2. Matches(SubSeq(f, 1, i - 1), SubSeq(n, 1, j - 1))
    <3>1. /\ Separator(f, k) < i /\ i <= Separator(f, k + 1) /\ j <= Separator(n, k + 1)
          /\ i - Separator(f, k) = j - Separator(n, k)
          /\ \A d \in 1..(i - Separator(f, k) - 1) : f[Separator(f, k) + d] = n[Separator(n, k) + d]
      BY <1>1 DEF AtChar
    <3> QED BY <1>1, <1>5, <3>1, PrefixMatches
  <2>3. SubSeq(n, 1, Len(n)) = n
    <3>1. \A m \in 1..Len(n) : SubSeq(n, 1, Len(n))[m] = n[m]
      BY <1>3, <1>4
    <3>2. SubSeq(n, 1, Len(n)) \in Seq(Chars) /\ Len(SubSeq(n, 1, Len(n))) = Len(n)
      BY <1>3, <1>4
    <3> QED BY <1>4, <3>1, <3>2, SeqEqual
  <2> QED BY <1>5, <2>1, <2>2, <2>3
<1> QED BY <1>7, <1>8

LEMMA TakenIsKnown ==
    ASSUME TopicInv, pc # "loop", Verdict
    PROVE  Matches(topicFilter, topicName) \/ TakesToo
<1>1. topicFilter \in Filters /\ topicName \in Names /\ Aligned(topicFilter, topicName, curf, curn)
  BY DEF TopicInv
<1>2. /\ Len(topicFilter) \in Nat /\ curf \in Nat /\ 1 <= curf /\ curf <= Len(topicFilter) + 1
      /\ Len(topicName) \in Nat /\ curn \in Nat /\ curn <= Len(topicName) + 1
      /\ F(curf) = "NUL" <=> curf = Len(topicFilter) + 1
      /\ curf <= Len(topicFilter) => F(curf) = topicFilter[curf]
  BY <1>1, Positions
<1>3. CASE curf = Len(topicFilter) + 1
  <2>1. curn = Len(topicName) + 1
    BY <1>2, <1>3 DEF Verdict, curn_end
  <2> QED BY <1>1, <1>3, <2>1, UsedUpMatches
<1>4. CASE curf # Len(topicFilter) + 1
  <2>1. curf <= Len(topicFilter) /\ F(curf) = topicFilter[curf] /\ F(curf) # "NUL"
    BY <1>2, <1>4
  <2>2. \/ topicFilter[curf] = "#"
        \/ F(curf + 1) = "#"
        \/ topicFilter[curf] = "+" /\ N(curn - 1) = "/"
    BY <2>1 DEF Verdict
  <2>3. CASE topicFilter[curf] = "#"
    BY <1>1, <2>1, <2>3, AtHashMatches
  <2>4. CASE F(curf + 1) = "#"
    <3>1. curf + 1 <= Len(topicFilter) /\ topicFilter[curf + 1] = "#"
      <4>1. curf + 1 # Len(topicFilter) + 1
        BY <2>4 DEF F
      <4>2. topicFilter[curf + 1] = "#"
        BY <2>4, <4>1 DEF F
      <4> QED BY <1>2, <2>1, <4>1, <4>2
    <3>2. \/ Matches(topicFilter, topicName)
          \/ /\ topicFilter[Len(topicFilter)] = "#" /\ Len(topicFilter) > 1
             /\ \E k \in 0..(Len(topicName) - 1) :
                  IF Len(topicFilter) = 2 THEN k = 0
                  ELSE Matches(SubSeq(topicFilter, 1, Len(topicFilter) - 2),
                               SubSeq(topicName, 1, k))
      BY <1>1, <3>1, BeforeHashTakes
    <3> QED BY <3>2 DEF TakesToo, Front
  <2>5. CASE topicFilter[curf] = "+" /\ N(curn - 1) = "/"
    <3>1. curn = Len(topicName) + 1
      <4>1. ~(Mismatch /\ ~(F(curf) = "+" /\ N(curn) = "/"))
        BY <2>1, <2>5 DEF Mismatch
      <4> QED BY <2>1, <4>1 DEF TopicInv, ExitFits
    <3>2. topicName[Len(topicName)] = "/"
      <4>1. curn - 1 = Len(topicName)
        BY <1>2, <3>1
      <4> QED BY <2>5, <4>1 DEF N
    <3>3. \/ Matches(topicFilter, topicName)
          \/ \E k \in 1..(Len(topicFilter) - 1) :
               /\ topicFilter[k] = "+" /\ k > 1
               /\ Matches(SubSeq(topicFilter, 1, k - 1), topicName)
      BY <1>1, <2>1, <2>5, <3>1, <3>2, PlusAtEndTakes
    <3> QED BY <3>2, <3>3 DEF TakesToo
  <2> QED BY <2>2, <2>3, <2>4, <2>5
<1> QED BY <1>3, <1>4

\* _is_topic_matched returns 1 for no topic but those that the filter
\* matches and the two kinds that TakesToo names.
THEOREM NothingElseTaken == MatchSpec => []TakesNoOther
<1>1. TopicInv => TakesNoOther
  <2> SUFFICES ASSUME TopicInv, pc = "done", matched
               PROVE  Matches(topicFilter, topicName) \/ TakesToo
    BY Zenon DEF TakesNoOther
  <2>1. pc # "loop"
    OBVIOUS
  <2>2. Verdict
    BY Zenon DEF TopicInv, Judged
  <2> QED BY <2>1, <2>2, TakenIsKnown
<1> QED BY <1>1, TopicInvariant, PTL
============================================================================
