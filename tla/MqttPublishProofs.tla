------------------------- MODULE MqttPublishProofs -------------------------
(***************************************************************************)
(* Proofs about MqttPublish, for any number of application threads, any    *)
(* list capacity and any largest packet id.                                *)
(***************************************************************************)
EXTENDS MqttPublish, TLAPS, WellFoundedInduction

----------------------------------------------------------------------------
(* The largest element of a set of list nodes.                             *)

\* A non-empty set of naturals has a least element.
LEMMA MinExists ==
    ASSUME NEW T \in SUBSET Nat, T # {}
    PROVE  \E x \in T : \A y \in T : x <= y
<1> DEFINE R == {ss \in Nat \X Nat : ss[1] < ss[2]}
<1>1. IsWellFoundedOn(R, Nat)
  BY NatLessThanWellFounded DEF OpToRel
<1>2. PICK x \in T : \A y \in T : ~(<<y, x>> \in R)
  <2> HIDE DEF R
  <2> QED BY <1>1, WFMin
<1>3. ASSUME NEW y \in T PROVE x <= y
  <2>1. <<y, x>> \notin R
    <3> HIDE DEF R
    <3> QED BY <1>2
  <2>2. y \in Nat /\ x \in Nat OBVIOUS
  <2>3. ~(y < x)
    BY <2>1, <2>2
  <2> QED BY <2>2, <2>3
<1> QED BY <1>3

\* A non-empty set of naturals bounded by N has a greatest element.
LEMMA MaxExists ==
    ASSUME NEW N \in Nat, NEW T \in SUBSET (0..N), T # {}
    PROVE  \E x \in T : \A y \in T : y <= x
<1> DEFINE U == {k \in Nat : N - k \in T}
<1>1. U \in SUBSET Nat OBVIOUS
<1>2. U # {}
  <2>1. PICK x \in T : TRUE OBVIOUS
  <2>2. N - x \in Nat /\ N - (N - x) = x BY <2>1
  <2>3. N - x \in U BY <2>2
  <2> QED BY <2>3
<1>3. PICK u \in U : \A v \in U : u <= v
  <2> HIDE DEF U
  <2> QED BY <1>1, <1>2, MinExists
<1>4. N - u \in T BY <1>3
<1>5. ASSUME NEW y \in T PROVE y <= N - u
  <2>1. N - y \in Nat /\ N - (N - y) = y OBVIOUS
  <2>2. N - y \in U BY <2>1
  <2>3. u <= N - y BY <1>3, <2>2
  <2> QED BY <2>3, <1>3, <2>1
<1> QED BY <1>4, <1>5

\* Last picks the greatest node of a non-empty set.
LEMMA LastIsGreatest ==
    ASSUME NEW S \in SUBSET Nodes
    PROVE  /\ S = {} => Last(S) = NULL
           /\ S # {} => Last(S) \in S /\ \A m \in S : m <= Last(S)
<1>1. CASE S = {}
  BY <1>1 DEF Last
<1>2. CASE S # {}
  <2>1. S \in SUBSET (0..MaxNodes)
    BY BoundsAssumption DEF Nodes
  <2>2. \E x \in S : \A y \in S : y <= x
    BY <2>1, <1>2, MaxExists, BoundsAssumption
  <2> QED BY <1>2, <2>2 DEF Last
<1> QED BY <1>1, <1>2

\* The iterator moves to a smaller node of the list, or to its end.
LEMMA IteratorMovesDown ==
    ASSUME NEW S \in SUBSET Nodes, NEW n
    PROVE  \/ list_iterator_next(S, n) = NULL
           \/ list_iterator_next(S, n) \in S /\ list_iterator_next(S, n) < n
<1> DEFINE D == {m \in S : m < n}
<1>1. D \in SUBSET Nodes OBVIOUS
<1>2. list_iterator_next(S, n) = Last(D)
  BY DEF list_iterator_next, Direction
<1>3. Last(D) = NULL \/ Last(D) \in D
  <2> HIDE DEF D
  <2> QED BY <1>1, LastIsGreatest
<1> QED BY <1>2, <1>3

----------------------------------------------------------------------------
(* The inductive invariant.                                                *)

\* Who holds which mutex, read off the program counters.
LockInv ==
    /\ \A t \in Threads : pc[t] \in HoldsWriteBuf => lock_write_buf = t
    /\ ypc = "write" => lock_write_buf = Yielder
    /\ pc[Yielder] # "idle" => ypc = "callback"
    /\ (lock_list_pub = Yielder) <=> (ypc \in HoldsListPub)

\* The locals of a publish call and of the sweep.
CallInv ==
    /\ \A t \in Threads :
         /\ pc[t] \in {"id", "push", "sent", "undo"} => call[t].qos = "QOS1"
         /\ pc[t] \in {"send", "sent", "undo"} /\ call[t].qos = "QOS1" =>
              call[t].node \in 1..nodes
    /\ ypc = "relock" => temp_node # NULL

BaseInv == TypeOK /\ LockInv /\ CallInv

\* The counter, a steps after it stood at i (less than one turn).
Shift(i, a) == IF i + a <= MAX_PACKET_ID THEN i + a
                                         ELSE i + a - MAX_PACKET_ID

\* How far the counter has moved since each listed node drew its id.
IdInv ==
    /\ \A n \in list : msg_id[n] \in 1..MAX_PACKET_ID
    /\ \A n \in list : age[n] < MAX_PACKET_ID =>
         next_packet_id = Shift(msg_id[n], age[n])
    /\ \A m, n \in list : m < n => age[n] < age[m] \/ age[m] = MAX_PACKET_ID
    /\ \A t \in Threads :
         (pc[t] = "serialize" /\ call[t].qos = "QOS1") \/ pc[t] = "push" =>
             next_packet_id >= 1 /\ \A n \in list : age[n] >= 1
    /\ \A t \in Threads : pc[t] = "push" => call[t].id = next_packet_id

\* The call owns a listed node; its packet is not on the connection yet.
InCall(t) == pc[t] \in {"send", "sent", "undo"} /\ call[t].qos = "QOS1"
Sending(t) == pc[t] \in {"send", "undo"} /\ call[t].qos = "QOS1"
Sweeping == ypc \in {"next", "relock", "callback"}

\* The node of a running call: the newest one.  Unless its time ran out
\* meanwhile it is untouched by the sweep, and by PUBACKs as long as its
\* packet has not been sent.
SendInv ==
    /\ \A t \in Threads : InCall(t) =>
         /\ call[t].node = nodes
         /\ result[nodes] = "calling"
         /\ nodes \notin late =>
              ~expired[nodes] /\ (ypc = "relock" => temp_node # nodes)
    /\ \A t \in Threads : Sending(t) /\ ~recycled =>
         /\ node_state[nodes] = "NORMAL"
         /\ \A m \in sent \cup acks : m.id # msg_id[nodes]
         /\ nodes \notin late => nodes \in list /\ temp_node # nodes

\* The sweep runs towards the head, its pointers are on the list.  Only the
\* node of a late call can be freed in the sweep's hands.
SweepInv ==
    /\ temp_node <= nodes
    /\ Sweeping => /\ iter \in list \cup {NULL}
                   /\ temp_node \in list \cup {NULL} \cup late
                   /\ temp_node # NULL => iter < temp_node
    /\ used_freed \subseteq late \/ recycled

\* What the application has been told of each publish.
ResultInv ==
    /\ \A n \in Nodes : n > nodes => result[n] = "none" /\ events[n] = {}
    /\ \A n \in 1..nodes : result[n] # "none"
    /\ \A n \in 1..nodes : result[n] = "calling" =>
         n = nodes /\ \E t \in Threads : InCall(t)
    /\ \A t \in Threads : InCall(t) => msg_id[nodes] = call[t].id
    /\ \A t \in Threads : Sending(t) =>
         /\ "PUBLISH_SUCCESS" \notin events[nodes]
         /\ events[nodes] = {} \/ nodes \in late

\* A packet on the connection belongs to one publish that was sent and whose
\* PUBACK has not been read.
WireInv ==
    /\ \A m \in sent \cup acks :
         /\ m.node <= nodes
         /\ m.id = msg_id[m.node]
         /\ result[m.node] \in {"calling", "ok"}
         /\ "PUBLISH_SUCCESS" \notin events[m.node]
         /\ \A t \in Threads : Sending(t) => m.node # nodes
    /\ \A m1, m2 \in sent \cup acks : m1.node = m2.node => m1 = m2
    /\ sent \cap acks = {}

\* A node waiting on the list has raised no event, up to the moment the
\* sweep gives it up.
WaitInv ==
    /\ \A n \in list : node_state[n] = "NORMAL" =>
         events[n] = {} \/ (Sweeping /\ temp_node = n)
    /\ \A n \in list : result[n] # "error"
    /\ ypc = "relock" =>
         /\ events[temp_node] = {}
         /\ result[temp_node] = "ok" \/ temp_node \in late

PromiseInv == ResultInv /\ WireInv /\ WaitInv

----------------------------------------------------------------------------
\* The initial states satisfy the basic invariant.
LEMMA InitBase == Init => BaseInv
<1> SUFFICES ASSUME Init PROVE BaseInv
  OBVIOUS
<1> USE ThreadsAssumption, BoundsAssumption
<1>1. TypeOK
  <2>1. write_buf \in Packets
    BY DEF Init, Packets, Packet, PacketIds
  <2>2. call \in [Threads -> Calls]
    BY DEF Init, Calls, NoCall, Call, PacketIds, NULL
  <2>3. pc \in [Threads -> PublishSteps]
    BY DEF Init, PublishSteps
  <2>4. /\ events \in [Nodes -> SUBSET {"PUBLISH_SUCCESS", "PUBLISH_TIMEOUT"}]
        /\ result \in [Nodes -> {"none", "calling", "ok", "error"}]
    BY DEF Init
  <2>5. /\ msg_id \in [Nodes -> PacketIds]
        /\ age \in [Nodes -> PacketIds]
    BY DEF Init, PacketIds
  <2>6. /\ node_state \in [Nodes -> {"NORMAL", "INVALID"}]
        /\ expired \in [Nodes -> BOOLEAN]
    BY DEF Init
  <2>7. /\ nodes \in 0..MaxNodes
        /\ list \subseteq 1..nodes
        /\ iter \in 0..MaxNodes
        /\ temp_node \in 0..MaxNodes
        /\ ypc \in YieldSteps
    BY DEF Init, NULL, YieldSteps
  <2> QED
    BY <2>1, <2>2, <2>3, <2>4, <2>5, <2>6, <2>7
    DEF Init, TypeOK
<1>2. LockInv
  BY DEF Init, LockInv, Threads, HoldsWriteBuf, HoldsListPub
<1>3. CallInv
  BY DEF Init, CallInv
<1> QED BY <1>1, <1>2, <1>3 DEF BaseInv

\* Every step preserves it.
LEMMA NextBase == BaseInv /\ [Next]_vars => BaseInv'
<1> SUFFICES ASSUME BaseInv, [Next]_vars PROVE BaseInv'
  OBVIOUS
<1> USE ThreadsAssumption, BoundsAssumption DEF BaseInv, At, YielderAt
<1>1. ASSUME NEW t \in Threads, NEW qos \in QoS, StartPublish(t, qos)
      PROVE  BaseInv'
  <2>1. TypeOK'
    <3>1. (call \in [Threads -> Calls])'
      BY <1>1 DEF StartPublish, TypeOK, connVars, nodeVars, sweepVars,
         history, Calls, Call, PacketIds, NULL
    <3> QED
      BY <1>1, <3>1 DEF StartPublish, TypeOK, connVars, nodeVars, sweepVars,
         history, Goto, PublishSteps, YieldSteps, NULL
  <2>2. LockInv'
    BY <1>1 DEF StartPublish, TypeOK, LockInv, connVars, nodeVars, sweepVars,
       history, Goto, Threads, HoldsWriteBuf, HoldsListPub
  <2>3. CallInv'
    BY <1>1 DEF StartPublish, TypeOK, CallInv, connVars, nodeVars, sweepVars,
       history, Goto, Threads, Call, NoCall, Calls
  <2> QED BY <2>1, <2>2, <2>3
<1>2. ASSUME NEW t \in Threads, LockWriteBuf(t) PROVE BaseInv'
  <2>1. TypeOK'
    BY <1>2 DEF LockWriteBuf, TypeOK, connVars, nodeVars, sweepVars, history,
       Goto, PublishSteps, YieldSteps, NULL
  <2>2. LockInv'
    BY <1>2 DEF LockWriteBuf, TypeOK, LockInv, connVars, nodeVars, sweepVars,
       history, Goto, Threads, HoldsWriteBuf, HoldsListPub
  <2>3. CallInv'
    BY <1>2 DEF LockWriteBuf, TypeOK, CallInv, connVars, nodeVars, sweepVars,
       history, Goto, Threads, Call, NoCall, Calls
  <2> QED BY <2>1, <2>2, <2>3
<1>3. ASSUME NEW t \in Threads, get_next_packet_id(t) PROVE BaseInv'
  <2>1. TypeOK'
    <3>1. next_packet_id' \in PacketIds
      BY <1>3 DEF get_next_packet_id, TypeOK, connVars, nodeVars, sweepVars,
         AdvancePacketId, PacketIds
    <3>2. age' \in [Nodes -> PacketIds]
      BY <1>3 DEF get_next_packet_id, TypeOK, connVars, nodeVars, sweepVars,
         PacketIds
    <3> QED
      BY <1>3, <3>1, <3>2 DEF get_next_packet_id, TypeOK, connVars, nodeVars,
         sweepVars, Goto, PublishSteps, YieldSteps, NULL
  <2>2. LockInv'
    BY <1>3 DEF get_next_packet_id, TypeOK, LockInv, connVars, nodeVars,
       sweepVars, Goto, Threads, HoldsWriteBuf, HoldsListPub
  <2>3. CallInv'
    BY <1>3 DEF get_next_packet_id, TypeOK, CallInv, connVars, nodeVars,
       sweepVars, Goto, Threads, Call, NoCall, Calls
  <2> QED BY <2>1, <2>2, <2>3
<1>4. ASSUME NEW t \in Threads, Serialize(t) PROVE BaseInv'
  <2>1. TypeOK'
    <3>1. call' \in [Threads -> Calls]
      BY <1>4 DEF Serialize, TypeOK, connVars, nodeVars, sweepVars, history,
         Calls, PacketIds
    <3>2. write_buf' \in Packets
      BY <1>4 DEF Serialize, TypeOK, connVars, nodeVars, sweepVars, history,
         Packets, Packet, PacketIds, Threads
    <3> QED
      BY <1>4, <3>1, <3>2 DEF Serialize, TypeOK, connVars, nodeVars,
         sweepVars, history, Goto, PublishSteps, YieldSteps, NULL
  <2>2. LockInv'
    BY <1>4 DEF Serialize, TypeOK, LockInv, connVars, nodeVars, sweepVars,
       history, Goto, Threads, HoldsWriteBuf, HoldsListPub
  <2>3. CallInv'
    BY <1>4 DEF Serialize, TypeOK, CallInv, connVars, nodeVars, sweepVars,
       history, Goto, Threads, Call, NoCall, Calls
  <2> QED BY <2>1, <2>2, <2>3
<1>5. ASSUME NEW t \in Threads, SerializeFails(t) PROVE BaseInv'
  <2>1. TypeOK'
    BY <1>5 DEF SerializeFails, TypeOK, connVars, nodeVars, sweepVars,
       history, Goto, PublishSteps, YieldSteps, NULL
  <2>2. LockInv'
    BY <1>5 DEF SerializeFails, TypeOK, LockInv, connVars, nodeVars,
       sweepVars, history, Goto, Threads, HoldsWriteBuf, HoldsListPub
  <2>3. CallInv'
    BY <1>5 DEF SerializeFails, TypeOK, CallInv, connVars, nodeVars,
       sweepVars, history, Goto, Threads, Call, NoCall, Calls
  <2> QED BY <2>1, <2>2, <2>3
<1>6. ASSUME NEW t \in Threads, Push(t) PROVE BaseInv'
  <2>1. TypeOK'
    <3>1. nodes' \in 0..MaxNodes /\ list' \subseteq 1..nodes'
      BY <1>6 DEF Push, TypeOK, connVars, sweepVars
    <3>2. call' \in [Threads -> Calls]
      BY <1>6 DEF Push, TypeOK, connVars, sweepVars, Calls
    <3>3. msg_id' \in [Nodes -> PacketIds]
      BY <1>6 DEF Push, TypeOK, connVars, sweepVars, Calls, Nodes
    <3>4. result' \in [Nodes -> {"none", "calling", "ok", "error"}]
      BY <1>6 DEF Push, TypeOK, connVars, sweepVars
    <3>5. age' \in [Nodes -> PacketIds]
      <4>1. 0 \in PacketIds BY DEF PacketIds
      <4> QED BY <1>6, <4>1 DEF Push, TypeOK
    <3> QED
      BY <1>6, <3>1, <3>2, <3>3, <3>4, <3>5 DEF Push, TypeOK, connVars,
         sweepVars, Goto, PublishSteps, YieldSteps, NULL
  <2>2. LockInv'
    BY <1>6 DEF Push, TypeOK, LockInv, connVars, sweepVars, Goto, Threads,
       HoldsWriteBuf, HoldsListPub
  <2>3. CallInv'
    BY <1>6 DEF Push, TypeOK, CallInv, connVars, sweepVars, Goto, Threads,
       Call, NoCall, Calls
  <2> QED BY <2>1, <2>2, <2>3
<1>7. ASSUME NEW t \in Threads, PushFails(t) PROVE BaseInv'
  <2>1. TypeOK'
    BY <1>7 DEF PushFails, TypeOK, connVars, nodeVars, sweepVars, history,
       Goto, PublishSteps, YieldSteps, NULL
  <2>2. LockInv'
    BY <1>7 DEF PushFails, TypeOK, LockInv, connVars, nodeVars, sweepVars,
       history, Goto, Threads, HoldsWriteBuf, HoldsListPub
  <2>3. CallInv'
    BY <1>7 DEF PushFails, TypeOK, CallInv, connVars, nodeVars, sweepVars,
       history, Goto, Threads, Call, NoCall, Calls
  <2> QED BY <2>1, <2>2, <2>3
<1>8. ASSUME NEW t \in Threads, Send(t) PROVE BaseInv'
  <2>1. TypeOK'
    <3>1. sent' \subseteq Wire
      BY <1>8 DEF Send, TypeOK, nodeVars, sweepVars, Wire, Packets, CallInv,
         Nodes, Calls
    <3> QED
      BY <1>8, <3>1 DEF Send, TypeOK, nodeVars, sweepVars, history, Goto,
         PublishSteps, YieldSteps, NULL
  <2>2. LockInv'
    BY <1>8 DEF Send, TypeOK, LockInv, nodeVars, sweepVars, Goto, Threads,
       HoldsWriteBuf, HoldsListPub
  <2>3. CallInv'
    BY <1>8 DEF Send, TypeOK, CallInv, nodeVars, sweepVars, Goto, Threads,
       Call, NoCall, Calls
  <2> QED BY <2>1, <2>2, <2>3
<1>9. ASSUME NEW t \in Threads, SendFails(t) PROVE BaseInv'
  <2>1. TypeOK'
    BY <1>9 DEF SendFails, TypeOK, connVars, nodeVars, sweepVars, history,
       Goto, PublishSteps, YieldSteps, NULL
  <2>2. LockInv'
    BY <1>9 DEF SendFails, TypeOK, LockInv, connVars, nodeVars, sweepVars,
       history, Goto, Threads, HoldsWriteBuf, HoldsListPub
  <2>3. CallInv'
    BY <1>9 DEF SendFails, TypeOK, CallInv, connVars, nodeVars, sweepVars,
       history, Goto, Threads, Call, NoCall, Calls
  <2> QED BY <2>1, <2>2, <2>3
<1>10. ASSUME NEW t \in Threads, RemoveUnsent(t) PROVE BaseInv'
  <2>1. TypeOK'
    <3>1. result' \in [Nodes -> {"none", "calling", "ok", "error"}]
      BY <1>10 DEF RemoveUnsent, TypeOK, connVars, sweepVars
    <3>2. used_freed' \subseteq Nodes
      BY <1>10 DEF RemoveUnsent, TypeOK, CallInv, Nodes
    <3> QED
      BY <1>10, <3>1, <3>2 DEF RemoveUnsent, TypeOK, connVars, sweepVars, Goto,
         PublishSteps, YieldSteps, NULL
  <2>2. LockInv'
    BY <1>10 DEF RemoveUnsent, TypeOK, LockInv, connVars, sweepVars, Goto,
       Threads, HoldsWriteBuf, HoldsListPub
  <2>3. CallInv'
    BY <1>10 DEF RemoveUnsent, TypeOK, CallInv, connVars, sweepVars, Goto,
       Threads, Call, NoCall, Calls
  <2> QED BY <2>1, <2>2, <2>3
<1>11. ASSUME NEW t \in Threads, UnlockWriteBuf(t) PROVE BaseInv'
  <2>1. TypeOK'
    <3>1. call' \in [Threads -> Calls]
      BY <1>11 DEF UnlockWriteBuf, TypeOK, connVars, nodeVars, sweepVars,
         history, Calls, NoCall, Call, PacketIds, NULL
    <3> QED
      BY <1>11, <3>1 DEF UnlockWriteBuf, TypeOK, connVars, nodeVars,
         sweepVars, history, Goto, PublishSteps, YieldSteps, NULL
  <2>2. LockInv'
    BY <1>11 DEF UnlockWriteBuf, TypeOK, LockInv, connVars, nodeVars,
       sweepVars, history, Goto, Threads, HoldsWriteBuf, HoldsListPub
  <2>3. CallInv'
    BY <1>11 DEF UnlockWriteBuf, TypeOK, CallInv, connVars, nodeVars,
       sweepVars, history, Goto, Threads, Call, NoCall, Calls
  <2> QED BY <2>1, <2>2, <2>3
<1>12. ASSUME NEW m \in acks, _handle_puback_packet(m) PROVE BaseInv'
  <2>1. TypeOK'
    <3>1. events' \in [Nodes -> SUBSET {"PUBLISH_SUCCESS", "PUBLISH_TIMEOUT"}]
      BY <1>12 DEF _handle_puback_packet, _mask_pubInfo_from, TypeOK,
         publishVars, Wire
    <3>2. node_state' \in [Nodes -> {"NORMAL", "INVALID"}]
      BY <1>12 DEF _handle_puback_packet, _mask_pubInfo_from, TypeOK,
         publishVars
    <3> QED
      BY <1>12, <3>1, <3>2 DEF _handle_puback_packet, _mask_pubInfo_from,
         TypeOK, publishVars, PublishSteps, YieldSteps, NULL
  <2>2. LockInv'
    BY <1>12 DEF _handle_puback_packet, _mask_pubInfo_from, TypeOK, LockInv,
       publishVars, Threads, HoldsWriteBuf, HoldsListPub
  <2>3. CallInv'
    BY <1>12 DEF _handle_puback_packet, _mask_pubInfo_from, TypeOK, CallInv,
       publishVars, Threads, Call, NoCall, Calls
  <2> QED BY <2>1, <2>2, <2>3
<1>13. ASSUME ReadNothing PROVE BaseInv'
  <2>1. TypeOK'
    BY <1>13 DEF ReadNothing, TypeOK, connVars, nodeVars, history,
       publishVars, PublishSteps, YieldSteps, NULL
  <2>2. LockInv'
    BY <1>13 DEF ReadNothing, TypeOK, LockInv, connVars, nodeVars, history,
       publishVars, Threads, HoldsWriteBuf, HoldsListPub
  <2>3. CallInv'
    BY <1>13 DEF ReadNothing, TypeOK, CallInv, connVars, nodeVars, history,
       publishVars, Threads, Call, NoCall, Calls
  <2> QED BY <2>1, <2>2, <2>3
<1>14. ASSUME SweepBegin PROVE BaseInv'
  <2>1. TypeOK'
    <3>1. list \in SUBSET Nodes
      BY DEF TypeOK, Nodes
    <3>2. Last(list) \in 0..MaxNodes
      <4>1. Last(list) = NULL \/ Last(list) \in list
        BY <3>1, LastIsGreatest
      <4>2. NULL \in 0..MaxNodes /\ \A x \in Nodes : x \in 0..MaxNodes
        BY DEF Nodes, NULL
      <4> QED BY <3>1, <4>1, <4>2
    <3>3. iter' \in 0..MaxNodes
      BY <1>14, <3>2 DEF SweepBegin, TypeOK, list_iterator_new, Direction
    <3> QED
      BY <1>14, <3>3 DEF SweepBegin, TypeOK, connVars, nodeVars, history,
         publishVars, PublishSteps, YieldSteps, NULL
  <2>2. LockInv'
    BY <1>14 DEF SweepBegin, TypeOK, LockInv, connVars, nodeVars, history,
       publishVars, Threads, HoldsWriteBuf, HoldsListPub
  <2>3. CallInv'
    BY <1>14 DEF SweepBegin, TypeOK, CallInv, connVars, nodeVars, history,
       publishVars, Threads, Call, NoCall, Calls
  <2> QED BY <2>1, <2>2, <2>3
<1>15. ASSUME SweepNext PROVE BaseInv'
  <2>1. TypeOK'
    <3>1. list \in SUBSET Nodes
      BY DEF TypeOK, Nodes
    <3>2. list_iterator_next(list, iter) \in 0..MaxNodes
      <4>1. \/ list_iterator_next(list, iter) = NULL
            \/ list_iterator_next(list, iter) \in list
        BY <3>1, IteratorMovesDown
      <4>2. NULL \in 0..MaxNodes /\ \A x \in Nodes : x \in 0..MaxNodes
        BY DEF Nodes, NULL
      <4> QED BY <3>1, <4>1, <4>2
    <3>3. iter' \in 0..MaxNodes
      BY <1>15, <3>2 DEF SweepNext, TypeOK
    <3> QED
      BY <1>15, <3>3 DEF SweepNext, TypeOK, connVars, history, publishVars,
         PublishSteps, YieldSteps, NULL
  <2>2. LockInv'
    BY <1>15 DEF SweepNext, TypeOK, LockInv, connVars, history, publishVars,
       Threads, HoldsWriteBuf, HoldsListPub
  <2>3. CallInv'
    BY <1>15 DEF SweepNext, TypeOK, CallInv, connVars, history, publishVars,
       Threads, Call, NoCall, Calls
  <2> QED BY <2>1, <2>2, <2>3
<1>16. ASSUME SweepRelock PROVE BaseInv'
  <2>1. TypeOK'
    <3>1. events' \in [Nodes -> SUBSET {"PUBLISH_SUCCESS", "PUBLISH_TIMEOUT"}]
      BY <1>16 DEF SweepRelock, TypeOK, connVars, publishVars
    <3>2. expired' \in [Nodes -> BOOLEAN]
      BY <1>16 DEF SweepRelock, TypeOK, connVars, publishVars
    <3> QED
      BY <1>16, <3>1, <3>2 DEF SweepRelock, TypeOK, connVars, publishVars,
         PublishSteps, YieldSteps, NULL
  <2>2. LockInv'
    BY <1>16 DEF SweepRelock, TypeOK, LockInv, connVars, publishVars, Threads,
       HoldsWriteBuf, HoldsListPub
  <2>3. CallInv'
    BY <1>16 DEF SweepRelock, TypeOK, CallInv, connVars, publishVars, Threads,
       Call, NoCall, Calls
  <2> QED BY <2>1, <2>2, <2>3
<1>17. ASSUME CallbackReturns PROVE BaseInv'
  <2>1. TypeOK'
    BY <1>17 DEF CallbackReturns, TypeOK, connVars, nodeVars, history,
       publishVars, PublishSteps, YieldSteps, NULL
  <2>2. LockInv'
    BY <1>17 DEF CallbackReturns, TypeOK, LockInv, connVars, nodeVars,
       history, publishVars, Threads, HoldsWriteBuf, HoldsListPub
  <2>3. CallInv'
    BY <1>17 DEF CallbackReturns, TypeOK, CallInv, connVars, nodeVars,
       history, publishVars, Threads, Call, NoCall, Calls
  <2> QED BY <2>1, <2>2, <2>3
<1>18. ASSUME NothingToSend PROVE BaseInv'
  <2>1. TypeOK'
    BY <1>18 DEF NothingToSend, TypeOK, connVars, nodeVars, history,
       publishVars, PublishSteps, YieldSteps, NULL
  <2>2. LockInv'
    BY <1>18 DEF NothingToSend, TypeOK, LockInv, connVars, nodeVars, history,
       publishVars, Threads, HoldsWriteBuf, HoldsListPub
  <2>3. CallInv'
    BY <1>18 DEF NothingToSend, TypeOK, CallInv, connVars, nodeVars, history,
       publishVars, Threads, Call, NoCall, Calls
  <2> QED BY <2>1, <2>2, <2>3
<1>19. ASSUME NEW type \in YielderPackets, YielderSerializes(type)
      PROVE  BaseInv'
  <2>1. TypeOK'
    <3>1. lock_write_buf' \in Threads \cup {NoThread}
      BY <1>19 DEF YielderSerializes, TypeOK, connVars, nodeVars, history,
         Threads
    <3>2. write_buf' \in Packets
      BY <1>19 DEF YielderSerializes, TypeOK, connVars, nodeVars, history,
         Packets, Packet, PacketIds, Threads
    <3> QED
      BY <1>19, <3>1, <3>2 DEF YielderSerializes, TypeOK, connVars, nodeVars,
         history, PublishSteps, YieldSteps, NULL
  <2>2. LockInv'
    BY <1>19 DEF YielderSerializes, TypeOK, LockInv, connVars, nodeVars,
       history, Threads, HoldsWriteBuf, HoldsListPub
  <2>3. CallInv'
    BY <1>19 DEF YielderSerializes, TypeOK, CallInv, connVars, nodeVars,
       history, Threads, Call, NoCall, Calls
  <2> QED BY <2>1, <2>2, <2>3
<1>20. ASSUME YielderSends PROVE BaseInv'
  <2>1. TypeOK'
    BY <1>20 DEF YielderSends, TypeOK, connVars, nodeVars, history,
       PublishSteps, YieldSteps, NULL
  <2>2. LockInv'
    BY <1>20 DEF YielderSends, TypeOK, LockInv, connVars, nodeVars, history,
       Threads, HoldsWriteBuf, HoldsListPub
  <2>3. CallInv'
    BY <1>20 DEF YielderSends, TypeOK, CallInv, connVars, nodeVars, history,
       Threads, Call, NoCall, Calls
  <2> QED BY <2>1, <2>2, <2>3
<1>21. ASSUME NEW m \in sent, ServerAcks(m) PROVE BaseInv'
  <2>1. TypeOK'
    BY <1>21 DEF ServerAcks, TypeOK, nodeVars, sweepVars, history, publishVars,
       PublishSteps, YieldSteps, NULL
  <2>2. LockInv'
    BY <1>21 DEF ServerAcks, TypeOK, LockInv, nodeVars, sweepVars, history,
       publishVars, Threads, HoldsWriteBuf, HoldsListPub
  <2>3. CallInv'
    BY <1>21 DEF ServerAcks, TypeOK, CallInv, nodeVars, sweepVars, history,
       publishVars, Threads, Call, NoCall, Calls
  <2> QED BY <2>1, <2>2, <2>3
<1>22. ASSUME NEW n \in Nodes, TimerExpires(n) PROVE BaseInv'
  <2>1. TypeOK'
    <3>1. expired' \in [Nodes -> BOOLEAN]
      BY <1>22 DEF TimerExpires, TypeOK, connVars, sweepVars, history,
         publishVars
    <3>2. late' \subseteq Nodes
      BY <1>22 DEF TimerExpires, TypeOK
    <3> QED
      BY <1>22, <3>1, <3>2 DEF TimerExpires, TypeOK, connVars, sweepVars,
         publishVars, PublishSteps, YieldSteps, NULL
  <2>2. LockInv'
    BY <1>22 DEF TimerExpires, TypeOK, LockInv, connVars, sweepVars, history,
       publishVars, Threads, HoldsWriteBuf, HoldsListPub
  <2>3. CallInv'
    BY <1>22 DEF TimerExpires, TypeOK, CallInv, connVars, sweepVars, history,
       publishVars, Threads, Call, NoCall, Calls
  <2> QED BY <2>1, <2>2, <2>3
<1>23. ASSUME UNCHANGED vars PROVE BaseInv'
  BY <1>23 DEF vars, TypeOK, LockInv, CallInv
<1>24. ASSUME NEW t \in Threads, SendReturns(t) PROVE BaseInv'
  <2>1. TypeOK'
    <3>1. result' \in [Nodes -> {"none", "calling", "ok", "error"}]
      BY <1>24 DEF SendReturns, TypeOK, connVars, sweepVars
    <3> QED
      BY <1>24, <3>1 DEF SendReturns, TypeOK, connVars, nodeVars, sweepVars,
         Goto, PublishSteps, YieldSteps, NULL
  <2>2. LockInv'
    BY <1>24 DEF SendReturns, TypeOK, LockInv, connVars, nodeVars, sweepVars,
       Goto, Threads, HoldsWriteBuf, HoldsListPub
  <2>3. CallInv'
    BY <1>24 DEF SendReturns, TypeOK, CallInv, connVars, nodeVars, sweepVars,
       Goto, Threads, Call, NoCall, Calls
  <2> QED BY <2>1, <2>2, <2>3
<1>25. ASSUME Undefined PROVE BaseInv'
  BY <1>23, <1>25 DEF Undefined
<1> QED
  BY <1>1, <1>2, <1>3, <1>4, <1>5, <1>6, <1>7, <1>8, <1>9, <1>10, <1>11,
     <1>12, <1>13, <1>14, <1>15, <1>16, <1>17, <1>18, <1>19, <1>20, <1>21,
     <1>22, <1>23, <1>24, <1>25 DEF Next, Publish, Yield, Environment

\* Type correctness, for any number of threads, list capacity and largest
\* packet id.
THEOREM TypeCorrect == Spec => []TypeOK
<1>1. Init => BaseInv
  BY InitBase
<1>2. BaseInv /\ [Next]_vars => BaseInv'
  BY NextBase
<1>3. BaseInv => TypeOK
  BY DEF BaseInv
<1> QED BY <1>1, <1>2, <1>3, PTL DEF Spec

----------------------------------------------------------------------------
\* A thread's packet stays in write_buf while the thread holds the mutex.
LEMMA NextPacket == BaseInv /\ PacketIntact /\ [Next]_vars => PacketIntact'
<1> SUFFICES ASSUME BaseInv, PacketIntact, [Next]_vars PROVE PacketIntact'
  OBVIOUS
<1> USE ThreadsAssumption, BoundsAssumption DEF BaseInv, At, YielderAt
<1>1. ASSUME NEW t \in Threads, NEW qos \in QoS, StartPublish(t, qos)
      PROVE  PacketIntact'
  BY <1>1 DEF StartPublish, Calls, Call, TypeOK, LockInv, PacketIntact,
     HoldsWriteBuf, connVars, nodeVars, sweepVars, history, Goto
<1>2. ASSUME NEW t \in Threads, LockWriteBuf(t) PROVE PacketIntact'
  BY <1>2 DEF LockWriteBuf, TypeOK, LockInv, PacketIntact, HoldsWriteBuf,
     connVars, nodeVars, sweepVars, history, Goto
<1>3. ASSUME NEW t \in Threads, get_next_packet_id(t) PROVE PacketIntact'
  BY <1>3 DEF get_next_packet_id, TypeOK, LockInv, PacketIntact,
     HoldsWriteBuf, connVars, nodeVars, sweepVars, Goto
<1>4. ASSUME NEW t \in Threads, Serialize(t) PROVE PacketIntact'
  BY <1>4 DEF Serialize, Packet, YielderPackets, Calls, TypeOK, LockInv,
     PacketIntact, HoldsWriteBuf, connVars, nodeVars, sweepVars, history, Goto
<1>5. ASSUME NEW t \in Threads, SerializeFails(t) PROVE PacketIntact'
  BY <1>5 DEF SerializeFails, TypeOK, LockInv, PacketIntact, HoldsWriteBuf,
     connVars, nodeVars, sweepVars, history, Goto
<1>6. ASSUME NEW t \in Threads, Push(t) PROVE PacketIntact'
  BY <1>6 DEF Push, Calls, TypeOK, LockInv, PacketIntact, HoldsWriteBuf,
     connVars, sweepVars, Goto
<1>7. ASSUME NEW t \in Threads, PushFails(t) PROVE PacketIntact'
  BY <1>7 DEF PushFails, TypeOK, LockInv, PacketIntact, HoldsWriteBuf,
     connVars, nodeVars, sweepVars, history, Goto
<1>8. ASSUME NEW t \in Threads, Send(t) PROVE PacketIntact'
  BY <1>8 DEF Send, TypeOK, LockInv, PacketIntact, HoldsWriteBuf, nodeVars,
     sweepVars, Goto
<1>9. ASSUME NEW t \in Threads, SendFails(t) PROVE PacketIntact'
  BY <1>9 DEF SendFails, TypeOK, LockInv, PacketIntact, HoldsWriteBuf,
     connVars, nodeVars, sweepVars, history, Goto
<1>10. ASSUME NEW t \in Threads, RemoveUnsent(t) PROVE PacketIntact'
  BY <1>10 DEF RemoveUnsent, TypeOK, LockInv, PacketIntact, HoldsWriteBuf,
     connVars, sweepVars, Goto
<1>11. ASSUME NEW t \in Threads, UnlockWriteBuf(t) PROVE PacketIntact'
  BY <1>11 DEF UnlockWriteBuf, NoCall, Call, TypeOK, LockInv, PacketIntact,
     HoldsWriteBuf, connVars, nodeVars, sweepVars, history, Goto
<1>12. ASSUME NEW m \in acks, _handle_puback_packet(m) PROVE PacketIntact'
  BY <1>12 DEF _handle_puback_packet, TypeOK, LockInv, PacketIntact,
     HoldsWriteBuf, publishVars
<1>13. ASSUME ReadNothing PROVE PacketIntact'
  BY <1>13 DEF ReadNothing, TypeOK, LockInv, PacketIntact, HoldsWriteBuf,
     connVars, nodeVars, history, publishVars
<1>14. ASSUME SweepBegin PROVE PacketIntact'
  BY <1>14 DEF SweepBegin, TypeOK, LockInv, PacketIntact, HoldsWriteBuf,
     connVars, nodeVars, history, publishVars
<1>15. ASSUME SweepNext PROVE PacketIntact'
  BY <1>15 DEF SweepNext, TypeOK, LockInv, PacketIntact, HoldsWriteBuf,
     connVars, history, publishVars
<1>16. ASSUME SweepRelock PROVE PacketIntact'
  BY <1>16 DEF SweepRelock, TypeOK, LockInv, PacketIntact, HoldsWriteBuf,
     connVars, publishVars
<1>17. ASSUME CallbackReturns PROVE PacketIntact'
  BY <1>17 DEF CallbackReturns, TypeOK, LockInv, PacketIntact, HoldsWriteBuf,
     connVars, nodeVars, history, publishVars
<1>18. ASSUME NothingToSend PROVE PacketIntact'
  BY <1>18 DEF NothingToSend, TypeOK, LockInv, PacketIntact, HoldsWriteBuf,
     connVars, nodeVars, history, publishVars
<1>19. ASSUME NEW type \in YielderPackets, YielderSerializes(type)
      PROVE  PacketIntact'
  BY <1>19 DEF YielderSerializes, Packet, Threads, TypeOK, LockInv,
     PacketIntact, HoldsWriteBuf, connVars, nodeVars, history
<1>20. ASSUME YielderSends PROVE PacketIntact'
  BY <1>20 DEF YielderSends, TypeOK, LockInv, PacketIntact, HoldsWriteBuf,
     connVars, nodeVars, history
<1>21. ASSUME NEW m \in sent, ServerAcks(m) PROVE PacketIntact'
  BY <1>21 DEF ServerAcks, TypeOK, LockInv, PacketIntact, HoldsWriteBuf,
     nodeVars, sweepVars, history, publishVars
<1>22. ASSUME NEW n \in Nodes, TimerExpires(n) PROVE PacketIntact'
  BY <1>22 DEF TimerExpires, TypeOK, LockInv, PacketIntact, HoldsWriteBuf,
     connVars, sweepVars, history, publishVars
<1>23. ASSUME UNCHANGED vars PROVE PacketIntact'
  BY <1>23 DEF vars, TypeOK, LockInv, PacketIntact, HoldsWriteBuf
<1>24. ASSUME NEW t \in Threads, SendReturns(t) PROVE PacketIntact'
  BY <1>24 DEF SendReturns, TypeOK, LockInv, PacketIntact, HoldsWriteBuf,
     connVars, nodeVars, sweepVars, Goto
<1>25. ASSUME Undefined PROVE PacketIntact'
  BY <1>23, <1>25 DEF Undefined
<1> QED
  BY <1>1, <1>2, <1>3, <1>4, <1>5, <1>6, <1>7, <1>8, <1>9, <1>10, <1>11,
     <1>12, <1>13, <1>14, <1>15, <1>16, <1>17, <1>18, <1>19, <1>20, <1>21,
     <1>22, <1>23, <1>24, <1>25 DEF Next, Publish, Yield, Environment

\* No thread ever sends a packet another thread has overwritten in the
\* shared write_buf.
THEOREM PacketsIntact == Spec => []PacketIntact
<1>1. Init => BaseInv /\ PacketIntact
  BY InitBase DEF Init, PacketIntact
<1>2. BaseInv /\ PacketIntact /\ [Next]_vars => (BaseInv /\ PacketIntact)'
  BY NextBase, NextPacket
<1> QED BY <1>1, <1>2, PTL DEF Spec

----------------------------------------------------------------------------
\* Drawing an id moves the counter one step on.
LEMMA ShiftStep ==
    ASSUME NEW i \in 1..MAX_PACKET_ID, NEW a \in Nat, a + 1 < MAX_PACKET_ID
    PROVE  Shift(i, a + 1) = AdvancePacketId(Shift(i, a))
BY BoundsAssumption DEF Shift, AdvancePacketId

\* Within one turn the counter does not come back to the same value.
LEMMA ShiftInjective ==
    ASSUME NEW i \in 1..MAX_PACKET_ID, NEW a \in Nat, NEW b \in Nat,
           a < MAX_PACKET_ID, b < a
    PROVE  Shift(i, a) # Shift(i, b)
BY BoundsAssumption DEF Shift

\* Every step preserves the relation between the counter and listed ids.
LEMMA NextId == BaseInv /\ IdInv /\ [Next]_vars => IdInv'
<1> SUFFICES ASSUME BaseInv, IdInv, [Next]_vars PROVE IdInv'
  OBVIOUS
<1> USE ThreadsAssumption, BoundsAssumption DEF BaseInv, At, YielderAt
<1>0. list \subseteq Nodes
  BY DEF TypeOK, Nodes
<1>1. ASSUME NEW t \in Threads, NEW qos \in QoS, StartPublish(t, qos)
      PROVE  IdInv'
  BY <1>1 DEF StartPublish, Call, TypeOK, LockInv, CallInv, IdInv,
     HoldsWriteBuf, connVars, nodeVars, sweepVars, history, Goto
<1>2. ASSUME NEW t \in Threads, LockWriteBuf(t) PROVE IdInv'
  BY <1>2 DEF LockWriteBuf, Threads, TypeOK, LockInv, CallInv, IdInv,
     HoldsWriteBuf, connVars, nodeVars, sweepVars, history, Goto
<1>3. ASSUME NEW t \in Threads, get_next_packet_id(t) PROVE IdInv'
  <2>1. /\ next_packet_id' = AdvancePacketId(next_packet_id)
        /\ next_packet_id' \in Nat /\ next_packet_id' >= 1
        /\ list' = list /\ msg_id' = msg_id /\ call' = call
        /\ pc' = [pc EXCEPT ![t] = "serialize"]
    BY <1>3 DEF get_next_packet_id, AdvancePacketId, TypeOK, PacketIds,
       nodeVars, Goto
  <2>2. \A n \in list :
          /\ age[n] \in 0..MAX_PACKET_ID
          /\ age'[n] = IF age[n] < MAX_PACKET_ID THEN age[n] + 1 ELSE age[n]
    BY <1>3, <1>0 DEF get_next_packet_id, TypeOK, PacketIds
  <2>3. \A n \in list' : age'[n] < MAX_PACKET_ID =>
          next_packet_id' = Shift(msg_id'[n], age'[n])
    <3> SUFFICES ASSUME NEW n \in list, age'[n] < MAX_PACKET_ID
                 PROVE  next_packet_id' = Shift(msg_id[n], age'[n])
      BY <2>1
    <3>1. age'[n] = age[n] + 1 /\ age[n] < MAX_PACKET_ID /\ age[n] \in Nat
      BY <2>2
    <3>2. msg_id[n] \in 1..MAX_PACKET_ID
      BY DEF IdInv
    <3>3. next_packet_id = Shift(msg_id[n], age[n])
      BY <3>1 DEF IdInv
    <3> QED BY <2>1, <3>1, <3>2, <3>3, ShiftStep
  <2>4. \A m, n \in list' :
          m < n => age'[n] < age'[m] \/ age'[m] = MAX_PACKET_ID
    BY <2>1, <2>2 DEF IdInv
  <2>5. \A n \in list' : age'[n] >= 1
    BY <2>1, <2>2
  <2>6. \A u \in Threads : pc'[u] = "push" => FALSE
    BY <1>3, <2>1 DEF get_next_packet_id, TypeOK, LockInv, HoldsWriteBuf
  <2> QED BY <2>1, <2>3, <2>4, <2>5, <2>6 DEF IdInv
<1>4. ASSUME NEW t \in Threads, Serialize(t) PROVE IdInv'
  BY <1>4 DEF Serialize, Calls, TypeOK, LockInv, CallInv, IdInv,
     HoldsWriteBuf, connVars, nodeVars, sweepVars, history, Goto
<1>5. ASSUME NEW t \in Threads, SerializeFails(t) PROVE IdInv'
  BY <1>5 DEF SerializeFails, TypeOK, LockInv, CallInv, IdInv, HoldsWriteBuf,
     connVars, nodeVars, sweepVars, history, Goto
<1>6. ASSUME NEW t \in Threads, Push(t) PROVE IdInv'
  <2> DEFINE new == nodes + 1
  <2>1. /\ list' = list \cup {new} /\ new \in Nodes /\ new \notin list
        /\ \A n \in list : n < new
        /\ next_packet_id' = next_packet_id
        /\ msg_id' = [msg_id EXCEPT ![new] = call[t].id]
        /\ age' = [age EXCEPT ![new] = 0]
    BY <1>6 DEF Push, TypeOK, Nodes
  <2>2. /\ call[t].id = next_packet_id
        /\ next_packet_id \in 1..MAX_PACKET_ID
        /\ \A n \in list : age[n] >= 1
    BY <1>6 DEF Push, IdInv, TypeOK, PacketIds
  <2>3. /\ msg_id'[new] = next_packet_id /\ age'[new] = 0
        /\ \A n \in list : msg_id'[n] = msg_id[n] /\ age'[n] = age[n]
        /\ \A n \in list : age[n] \in Nat
    BY <1>0, <2>1, <2>2 DEF TypeOK, PacketIds
  <2>4. Shift(next_packet_id, 0) = next_packet_id
    BY <2>2 DEF Shift
  <2>5. \A u \in Threads : ~(pc'[u] \in {"serialize", "push"})
    BY <1>6 DEF Push, Goto, TypeOK, LockInv, HoldsWriteBuf
  <2>6. \A n \in list' : msg_id'[n] \in 1..MAX_PACKET_ID
    BY <2>1, <2>2, <2>3 DEF IdInv
  <2>7. \A n \in list' : age'[n] < MAX_PACKET_ID =>
          next_packet_id' = Shift(msg_id'[n], age'[n])
    BY <2>1, <2>2, <2>3, <2>4 DEF IdInv
  <2>8. \A m, n \in list' :
          m < n => age'[n] < age'[m] \/ age'[m] = MAX_PACKET_ID
    <3>1. \A n \in list : ~(new < n)
      BY <2>1 DEF TypeOK
    <3> SUFFICES ASSUME NEW m \in list', NEW n \in list', m < n
                 PROVE  age'[n] < age'[m] \/ age'[m] = MAX_PACKET_ID
      OBVIOUS
    <3>2. m \in list
      BY <2>1, <3>1 DEF TypeOK
    <3>3. CASE n = new
      BY <3>2, <3>3, <2>2, <2>3
    <3>4. CASE n \in list
      BY <3>2, <3>4, <2>3 DEF IdInv
    <3> QED BY <2>1, <3>3, <3>4
  <2> QED BY <2>5, <2>6, <2>7, <2>8 DEF IdInv
<1>7. ASSUME NEW t \in Threads, PushFails(t) PROVE IdInv'
  BY <1>7 DEF PushFails, TypeOK, LockInv, CallInv, IdInv, HoldsWriteBuf,
     connVars, nodeVars, sweepVars, history, Goto
<1>8. ASSUME NEW t \in Threads, Send(t) PROVE IdInv'
  BY <1>8 DEF Send, TypeOK, LockInv, CallInv, IdInv, HoldsWriteBuf, nodeVars,
     sweepVars, history, Goto
<1>9. ASSUME NEW t \in Threads, SendFails(t) PROVE IdInv'
  BY <1>9 DEF SendFails, TypeOK, LockInv, CallInv, IdInv, HoldsWriteBuf,
     connVars, nodeVars, sweepVars, history, Goto
<1>10. ASSUME NEW t \in Threads, RemoveUnsent(t) PROVE IdInv'
  BY <1>10 DEF RemoveUnsent, TypeOK, LockInv, CallInv, IdInv, HoldsWriteBuf,
     connVars, sweepVars, Goto
<1>11. ASSUME NEW t \in Threads, UnlockWriteBuf(t) PROVE IdInv'
  BY <1>11 DEF UnlockWriteBuf, NoCall, Call, TypeOK, LockInv, CallInv, IdInv,
     HoldsWriteBuf, connVars, nodeVars, sweepVars, history, Goto
<1>12. ASSUME NEW m \in acks, _handle_puback_packet(m) PROVE IdInv'
  BY <1>12 DEF _handle_puback_packet, TypeOK, LockInv, CallInv, IdInv,
     HoldsWriteBuf, publishVars
<1>13. ASSUME ReadNothing PROVE IdInv'
  BY <1>13 DEF ReadNothing, TypeOK, LockInv, CallInv, IdInv, HoldsWriteBuf,
     connVars, nodeVars, history, publishVars
<1>14. ASSUME SweepBegin PROVE IdInv'
  BY <1>14 DEF SweepBegin, TypeOK, LockInv, CallInv, IdInv, HoldsWriteBuf,
     connVars, nodeVars, history, publishVars
<1>15. ASSUME SweepNext PROVE IdInv'
  BY <1>15 DEF SweepNext, TypeOK, LockInv, CallInv, IdInv, HoldsWriteBuf,
     connVars, history, publishVars
<1>16. ASSUME SweepRelock PROVE IdInv'
  BY <1>16 DEF SweepRelock, TypeOK, LockInv, CallInv, IdInv, HoldsWriteBuf,
     connVars, publishVars
<1>17. ASSUME CallbackReturns PROVE IdInv'
  BY <1>17 DEF CallbackReturns, TypeOK, LockInv, CallInv, IdInv,
     HoldsWriteBuf, connVars, nodeVars, history, publishVars
<1>18. ASSUME NothingToSend PROVE IdInv'
  BY <1>18 DEF NothingToSend, TypeOK, LockInv, CallInv, IdInv, HoldsWriteBuf,
     connVars, nodeVars, history, publishVars
<1>19. ASSUME NEW type \in YielderPackets, YielderSerializes(type)
      PROVE  IdInv'
  BY <1>19 DEF YielderSerializes, TypeOK, LockInv, CallInv, IdInv,
     HoldsWriteBuf, connVars, nodeVars, history
<1>20. ASSUME YielderSends PROVE IdInv'
  BY <1>20 DEF YielderSends, TypeOK, LockInv, CallInv, IdInv, HoldsWriteBuf,
     connVars, nodeVars, history
<1>21. ASSUME NEW m \in sent, ServerAcks(m) PROVE IdInv'
  BY <1>21 DEF ServerAcks, TypeOK, LockInv, CallInv, IdInv, HoldsWriteBuf,
     nodeVars, sweepVars, history, publishVars
<1>22. ASSUME NEW n \in Nodes, TimerExpires(n) PROVE IdInv'
  BY <1>22 DEF TimerExpires, TypeOK, LockInv, CallInv, IdInv, HoldsWriteBuf,
     connVars, sweepVars, history, publishVars
<1>23. ASSUME UNCHANGED vars PROVE IdInv'
  BY <1>23 DEF vars, TypeOK, LockInv, CallInv, IdInv, HoldsWriteBuf
<1>24. ASSUME NEW t \in Threads, SendReturns(t) PROVE IdInv'
  BY <1>24 DEF SendReturns, TypeOK, LockInv, CallInv, IdInv, HoldsWriteBuf,
     connVars, nodeVars, sweepVars, Goto
<1>25. ASSUME Undefined PROVE IdInv'
  BY <1>23, <1>25 DEF Undefined
<1> QED
  BY <1>1, <1>2, <1>3, <1>4, <1>5, <1>6, <1>7, <1>8, <1>9, <1>10, <1>11,
     <1>12, <1>13, <1>14, <1>15, <1>16, <1>17, <1>18, <1>19, <1>20, <1>21,
     <1>22, <1>23, <1>24, <1>25 DEF Next, Publish, Yield, Environment

\* Two listed publishes carry different packet ids until the counter has
\* made a full turn, for every MAX_PACKET_ID.
THEOREM PacketIdsDistinct == Spec => []IdsDistinct
<1>1. Init => BaseInv /\ IdInv
  BY InitBase DEF Init, IdInv
<1>2. BaseInv /\ IdInv /\ [Next]_vars => (BaseInv /\ IdInv)'
  BY NextBase, NextId
<1>3. BaseInv /\ IdInv => IdsDistinct
  <2> SUFFICES ASSUME BaseInv, IdInv, NEW m \in list, NEW n \in list, m < n,
                      msg_id[m] = msg_id[n], age[m] # MAX_PACKET_ID
               PROVE  FALSE
    BY DEF IdsDistinct
  <2>0. m \in Nodes /\ n \in Nodes
    BY BoundsAssumption DEF BaseInv, TypeOK, Nodes
  <2>1. /\ age[m] \in 0..MAX_PACKET_ID /\ age[n] \in 0..MAX_PACKET_ID
        /\ msg_id[m] \in 1..MAX_PACKET_ID
    BY <2>0 DEF BaseInv, TypeOK, PacketIds, IdInv
  <2>2. age[n] < age[m] /\ age[m] < MAX_PACKET_ID
    BY <2>1, BoundsAssumption DEF IdInv
  <2>3. Shift(msg_id[m], age[m]) = Shift(msg_id[m], age[n])
    BY <2>1, <2>2, BoundsAssumption DEF IdInv
  <2> QED BY <2>1, <2>2, <2>3, ShiftInjective, BoundsAssumption
<1> QED BY <1>1, <1>2, <1>3, PTL DEF Spec

----------------------------------------------------------------------------
\* The thread that sends holds lock_write_buf, so there is only one.
LEMMA OneSender ==
    ASSUME LockInv, NEW t \in Threads, NEW u \in Threads,
           pc[t] \in HoldsWriteBuf, pc[u] \in HoldsWriteBuf
    PROVE  t = u
BY DEF LockInv

\* Every step preserves what the sweep's pointers and a send rely on.
LEMMA NextPointers ==
    BaseInv /\ SendInv /\ SweepInv /\ [Next]_vars => SendInv' /\ SweepInv'
<1> SUFFICES ASSUME BaseInv, SendInv, SweepInv, [Next]_vars
             PROVE  (SendInv /\ SweepInv)'
  OBVIOUS
<1> USE ThreadsAssumption, BoundsAssumption
    DEF BaseInv, InCall, Sending, Sweeping, At, YielderAt
<1>0. list \subseteq Nodes /\ list \in SUBSET Nodes
  BY DEF TypeOK, Nodes
<1>1. ASSUME NEW t \in Threads, NEW qos \in QoS, StartPublish(t, qos)
      PROVE  (SendInv /\ SweepInv)'
  BY <1>1 DEF StartPublish, Call, TypeOK, LockInv, SendInv, SweepInv,
     HoldsWriteBuf, connVars, nodeVars, sweepVars, history, Goto
<1>2. ASSUME NEW t \in Threads, LockWriteBuf(t) PROVE (SendInv /\ SweepInv)'
  BY <1>2 DEF LockWriteBuf, Threads, TypeOK, LockInv, SendInv, SweepInv,
     HoldsWriteBuf, connVars, nodeVars, sweepVars, history, Goto
<1>3. ASSUME NEW t \in Threads, get_next_packet_id(t)
      PROVE  (SendInv /\ SweepInv)'
  BY <1>3 DEF get_next_packet_id, TypeOK, LockInv, SendInv, SweepInv,
     HoldsWriteBuf, connVars, nodeVars, sweepVars, Goto
<1>4. ASSUME NEW t \in Threads, Serialize(t) PROVE (SendInv /\ SweepInv)'
  BY <1>4 DEF Serialize, Calls, TypeOK, LockInv, SendInv, SweepInv,
     HoldsWriteBuf, connVars, nodeVars, sweepVars, history, Goto
<1>5. ASSUME NEW t \in Threads, SerializeFails(t) PROVE (SendInv /\ SweepInv)'
  BY <1>5 DEF SerializeFails, TypeOK, LockInv, SendInv, SweepInv,
     HoldsWriteBuf, connVars, nodeVars, sweepVars, history, Goto
<1>6. ASSUME NEW t \in Threads, Push(t) PROVE (SendInv /\ SweepInv)'
  <2>1. /\ nodes' = nodes + 1 /\ list' = list \cup {nodes'}
        /\ nodes' \in Nodes /\ nodes \in Nat
        /\ ~expired'[nodes'] /\ node_state'[nodes'] = "NORMAL"
        /\ msg_id'[nodes'] = call[t].id
        /\ result'[nodes'] = "calling"
        /\ temp_node' = temp_node /\ iter' = iter /\ ypc' = ypc
        /\ sent' = sent /\ acks' = acks /\ late' = late
        /\ used_freed' = used_freed
    BY <1>6 DEF Push, TypeOK, Nodes, sweepVars, connVars
  <2>2. \A u \in Threads : InCall(u)' => u = t
    BY <1>6, OneSender DEF Push, Goto, TypeOK, HoldsWriteBuf
  <2>3. call'[t].node = nodes'
    BY <1>6 DEF Push, TypeOK, Calls
  <2>4. temp_node' # nodes' /\ temp_node' <= nodes'
    BY <2>1 DEF SweepInv, TypeOK
  <2>5. ~recycled' => ~recycled
    BY <1>6 DEF Push
  <2>6. ~recycled' => ~InUse(call[t].id)
    BY <1>6 DEF Push
  <2>7. ~recycled' => \A m \in sent' \cup acks' : m.id # msg_id'[nodes']
    BY <2>1, <2>6 DEF InUse
  <2>8. SendInv'
    BY <2>1, <2>2, <2>3, <2>4, <2>7 DEF SendInv
  <2>9. (used_freed \subseteq late \/ recycled)'
    BY <2>1, <2>5 DEF SweepInv
  <2>10. SweepInv'
    BY <2>1, <2>4, <2>9 DEF SweepInv
  <2> QED BY <2>8, <2>10
<1>7. ASSUME NEW t \in Threads, PushFails(t) PROVE (SendInv /\ SweepInv)'
  BY <1>7 DEF PushFails, TypeOK, LockInv, SendInv, SweepInv, HoldsWriteBuf,
     connVars, nodeVars, sweepVars, history, Goto
<1>8. ASSUME NEW t \in Threads, Send(t) PROVE (SendInv /\ SweepInv)'
  <2>1. \A u \in Threads : ~Sending(u)' /\ (InCall(u)' => InCall(u))
    BY <1>8, OneSender DEF Send, TypeOK, HoldsWriteBuf, Goto
  <2>2. SendInv'
    BY <1>8, <2>1 DEF Send, SendInv, nodeVars, sweepVars, history
  <2>3. SweepInv'
    BY <1>8 DEF Send, SweepInv, nodeVars, sweepVars, history
  <2> QED BY <2>2, <2>3
<1>9. ASSUME NEW t \in Threads, SendFails(t) PROVE (SendInv /\ SweepInv)'
  BY <1>9 DEF SendFails, TypeOK, LockInv, SendInv, SweepInv, HoldsWriteBuf,
     connVars, nodeVars, sweepVars, history, Goto
<1>10. ASSUME NEW t \in Threads, RemoveUnsent(t) PROVE (SendInv /\ SweepInv)'
  <2>1. call[t].node = nodes
    BY <1>10 DEF RemoveUnsent, SendInv, CallInv
  <2>2. SendInv'
    BY <1>10, OneSender DEF RemoveUnsent, SendInv, TypeOK, HoldsWriteBuf, Goto
  <2>3. /\ list' = list \ {nodes} /\ nodes' = nodes /\ late' = late
        /\ ypc' = ypc /\ iter' = iter /\ temp_node' = temp_node
        /\ used_freed' = {nodes} \ list
    BY <1>10, <2>1 DEF RemoveUnsent, sweepVars
  <2>4. Sweeping => ypc = "relock" /\ temp_node # NULL
    BY <1>10 DEF RemoveUnsent, LockInv, HoldsListPub, CallInv
  <2>5. Sweeping => temp_node # nodes \/ nodes \in late
    BY <1>10, <2>4 DEF RemoveUnsent, SendInv, CallInv
  <2>6. Sweeping => iter # nodes
    BY <2>4 DEF SweepInv, TypeOK
  <2>7. nodes \in list \/ nodes \in late \/ recycled
    BY <1>10 DEF RemoveUnsent, SendInv, CallInv
  <2>8. (used_freed \subseteq late \/ recycled)'
    BY <1>10, <2>3, <2>7 DEF RemoveUnsent
  <2>9. SweepInv'
    BY <2>3, <2>5, <2>6, <2>8 DEF SweepInv
  <2> QED BY <2>2, <2>9
<1>11. ASSUME NEW t \in Threads, UnlockWriteBuf(t)
      PROVE  (SendInv /\ SweepInv)'
  BY <1>11 DEF UnlockWriteBuf, NoCall, Call, TypeOK, LockInv, SendInv,
     SweepInv, HoldsWriteBuf, connVars, nodeVars, sweepVars, history, Goto
<1>12. ASSUME NEW m \in acks, _handle_puback_packet(m)
      PROVE  (SendInv /\ SweepInv)'
  BY <1>12 DEF _handle_puback_packet, _mask_pubInfo_from, CallInv, Nodes,
     TypeOK, LockInv, SendInv, SweepInv, HoldsWriteBuf, publishVars
<1>13. ASSUME ReadNothing PROVE (SendInv /\ SweepInv)'
  BY <1>13 DEF ReadNothing, TypeOK, LockInv, SendInv, SweepInv, HoldsWriteBuf,
     connVars, nodeVars, history, publishVars
<1>14. ASSUME SweepBegin PROVE (SendInv /\ SweepInv)'
  <2>1. SendInv'
    BY <1>14 DEF SweepBegin, SendInv, TypeOK, CallInv, NULL, connVars, nodeVars,
       history, publishVars
  <2>2. list # {} => Last(list) \in list
    BY <1>0, LastIsGreatest
  <2>3. SweepInv'
    BY <1>14, <2>2 DEF SweepBegin, SweepInv, TypeOK, NULL, nodeVars, history,
       list_iterator_new, Direction
  <2> QED BY <2>1, <2>3
<1>15. ASSUME SweepNext PROVE (SendInv /\ SweepInv)'
  <2> DEFINE nxt == list_iterator_next(list, iter)
  <2>1. nxt = NULL \/ (nxt \in list /\ nxt < iter)
    BY <1>0, IteratorMovesDown
  <2> HIDE DEF nxt
  <2>2. /\ list' = list \ {temp_node} /\ nodes' = nodes
        /\ temp_node' \in {NULL, iter}
        /\ ypc' = "relock" => temp_node' = iter
        /\ ypc' \in {"next", "relock"} => iter # NULL /\ iter' = nxt
        /\ ypc' \in {"next", "relock", "keepalive"}
    BY <1>15 DEF SweepNext, nxt
  <2>3. iter \in list \cup {NULL}
    BY <1>15 DEF SweepNext, SweepInv
  <2>4. temp_node # NULL => iter < temp_node
    BY <1>15 DEF SweepNext, SweepInv
  <2>5. list \subseteq 1..nodes /\ nodes \in Nat
    BY DEF TypeOK
  <2>6. SweepInv'
    <3>1. temp_node' \in list' \cup {NULL}
      BY <2>2, <2>3, <2>4, <2>5 DEF NULL
    <3>2. ypc' # "keepalive" =>
            /\ iter' \in list' \cup {NULL}
            /\ temp_node' # NULL => iter' < temp_node'
      <4> SUFFICES ASSUME ypc' # "keepalive"
                   PROVE  /\ nxt \in list' \cup {NULL}
                          /\ temp_node' # NULL => nxt < temp_node'
        BY <2>2
      <4>1. iter \in 1..nodes
        BY <2>2, <2>3, <2>5
      <4>2. nxt = NULL \/ (nxt \in list /\ nxt \in 1..nodes /\ nxt < iter)
        BY <2>1, <2>5
      <4>3. temp_node \in Nat
        BY DEF TypeOK
      <4>4. nxt < iter
        BY <4>1, <4>2 DEF NULL
      <4>5. nxt # temp_node \/ nxt = NULL
        BY <2>4, <4>1, <4>2, <4>3 DEF NULL
      <4> QED BY <2>2, <4>2, <4>4, <4>5
    <3>3. temp_node' <= nodes'
      BY <2>2, <2>3, <2>5 DEF NULL
    <3>4. (used_freed \subseteq late \/ recycled)'
      BY <1>15 DEF SweepNext, SweepInv, history
    <3> QED BY <2>2, <3>1, <3>2, <3>3, <3>4 DEF SweepInv
  <2>7. SendInv'
    <3>1. /\ call' = call /\ pc' = pc /\ result' = result /\ late' = late
          /\ expired' = expired /\ node_state' = node_state /\ sent' = sent
          /\ acks' = acks /\ msg_id' = msg_id /\ recycled' = recycled
      BY <1>15 DEF SweepNext, connVars, publishVars, history
    <3>2. ypc' = "relock" => temp_node' = iter /\ expired[iter]
      BY <1>15 DEF SweepNext, MustTimeOut
    <3>3. temp_node' = NULL \/ node_state[iter] = "INVALID" \/ expired[iter]
      BY <1>15 DEF SweepNext, MustTimeOut
    <3>4. ASSUME NEW u \in Threads, InCall(u)
          PROVE  /\ call[u].node = nodes /\ nodes # NULL
                 /\ result[nodes] = "calling"
                 /\ nodes \notin late =>
                      ~expired[nodes] /\ (ypc' = "relock" => temp_node' # nodes)
      BY <3>2, <3>4 DEF SendInv, CallInv, NULL
    <3>5. ASSUME NEW u \in Threads, Sending(u), ~recycled
          PROVE  /\ node_state[nodes] = "NORMAL"
                 /\ \A m \in sent \cup acks : m.id # msg_id[nodes]
                 /\ nodes \notin late => nodes \in list' /\ temp_node' # nodes
      <4>1. /\ node_state[nodes] = "NORMAL"
            /\ \A m \in sent \cup acks : m.id # msg_id[nodes]
            /\ nodes \notin late => nodes \in list /\ temp_node # nodes
        BY <3>5 DEF SendInv
      <4>2. nodes # NULL /\ (nodes \notin late => ~expired[nodes])
        BY <3>4, <3>5
      <4> QED BY <4>1, <4>2, <2>2, <3>3
    <3> QED BY <2>2, <3>1, <3>4, <3>5 DEF SendInv
  <2> QED BY <2>6, <2>7
<1>16. ASSUME SweepRelock PROVE (SendInv /\ SweepInv)'
  BY <1>16 DEF SweepRelock, CallInv, Nodes, TypeOK, LockInv, SendInv,
     SweepInv, HoldsWriteBuf, connVars, publishVars
<1>17. ASSUME CallbackReturns PROVE (SendInv /\ SweepInv)'
  BY <1>17 DEF CallbackReturns, TypeOK, LockInv, SendInv, SweepInv,
     HoldsWriteBuf, connVars, nodeVars, history, publishVars
<1>18. ASSUME NothingToSend PROVE (SendInv /\ SweepInv)'
  BY <1>18 DEF NothingToSend, TypeOK, LockInv, SendInv, SweepInv,
     HoldsWriteBuf, connVars, nodeVars, history, publishVars
<1>19. ASSUME NEW type \in YielderPackets, YielderSerializes(type)
      PROVE  (SendInv /\ SweepInv)'
  BY <1>19 DEF YielderSerializes, TypeOK, LockInv, SendInv, SweepInv,
     HoldsWriteBuf, connVars, nodeVars, history
<1>20. ASSUME YielderSends PROVE (SendInv /\ SweepInv)'
  BY <1>20 DEF YielderSends, TypeOK, LockInv, SendInv, SweepInv,
     HoldsWriteBuf, connVars, nodeVars, history
<1>21. ASSUME NEW m \in sent, ServerAcks(m) PROVE (SendInv /\ SweepInv)'
  BY <1>21 DEF ServerAcks, TypeOK, LockInv, SendInv, SweepInv, HoldsWriteBuf,
     nodeVars, sweepVars, history, publishVars
<1>22. ASSUME NEW n \in Nodes, TimerExpires(n) PROVE (SendInv /\ SweepInv)'
  BY <1>22 DEF TimerExpires, CallInv, TypeOK, LockInv, SendInv,
     SweepInv, HoldsWriteBuf, connVars, sweepVars, history, publishVars
<1>23. ASSUME UNCHANGED vars PROVE (SendInv /\ SweepInv)'
  BY <1>23 DEF vars, TypeOK, LockInv, SendInv, SweepInv, HoldsWriteBuf
<1>24. ASSUME NEW t \in Threads, SendReturns(t) PROVE (SendInv /\ SweepInv)'
  <2>1. \A u \in Threads : ~InCall(u)'
    BY <1>24, OneSender DEF SendReturns, TypeOK, HoldsWriteBuf, Goto
  <2>2. SendInv'
    BY <2>1 DEF SendInv
  <2>3. SweepInv'
    BY <1>24 DEF SendReturns, SweepInv, nodeVars, sweepVars
  <2> QED BY <2>2, <2>3
<1>25. ASSUME Undefined PROVE (SendInv /\ SweepInv)'
  BY <1>23, <1>25 DEF Undefined
<1> QED
  BY <1>1, <1>2, <1>3, <1>4, <1>5, <1>6, <1>7, <1>8, <1>9, <1>10, <1>11,
     <1>12, <1>13, <1>14, <1>15, <1>16, <1>17, <1>18, <1>19, <1>20, <1>21,
     <1>22, <1>23, <1>24, <1>25 DEF Next, Publish, Yield, Environment

----------------------------------------------------------------------------
\* Every step preserves what the application has been told.
LEMMA NextPromise ==
    BaseInv /\ PacketIntact /\ SendInv /\ SweepInv /\ PromiseInv
      /\ [Next]_vars
      => PromiseInv'
<1> SUFFICES ASSUME BaseInv, PacketIntact, SendInv, SweepInv, PromiseInv,
                    [Next]_vars
             PROVE  PromiseInv'
  OBVIOUS
<1> USE ThreadsAssumption, BoundsAssumption
    DEF BaseInv, InCall, Sending, Sweeping, At, YielderAt
<1>0. list \subseteq Nodes /\ list \subseteq 1..nodes /\ nodes \in Nat
  BY DEF TypeOK, Nodes
<1>1. ASSUME NEW t \in Threads, NEW qos \in QoS, StartPublish(t, qos)
      PROVE  PromiseInv'
  BY <1>1 DEF StartPublish, Call, TypeOK, LockInv, PromiseInv, ResultInv,
     WireInv, WaitInv, HoldsWriteBuf, connVars, nodeVars, sweepVars, history,
     Goto
<1>2. ASSUME NEW t \in Threads, LockWriteBuf(t) PROVE PromiseInv'
  BY <1>2 DEF LockWriteBuf, Threads, TypeOK, LockInv, PromiseInv, ResultInv,
     WireInv, WaitInv, HoldsWriteBuf, connVars, nodeVars, sweepVars, history,
     Goto
<1>3. ASSUME NEW t \in Threads, get_next_packet_id(t) PROVE PromiseInv'
  BY <1>3 DEF get_next_packet_id, TypeOK, LockInv, PromiseInv, ResultInv,
     WireInv, WaitInv, HoldsWriteBuf, connVars, nodeVars, sweepVars, Goto
<1>4. ASSUME NEW t \in Threads, Serialize(t) PROVE PromiseInv'
  BY <1>4 DEF Serialize, Calls, TypeOK, LockInv, PromiseInv, ResultInv,
     WireInv, WaitInv, HoldsWriteBuf, connVars, nodeVars, sweepVars, history,
     Goto
<1>5. ASSUME NEW t \in Threads, SerializeFails(t) PROVE PromiseInv'
  BY <1>5 DEF SerializeFails, TypeOK, LockInv, PromiseInv, ResultInv, WireInv,
     WaitInv, HoldsWriteBuf, connVars, nodeVars, sweepVars, history, Goto
<1>6. ASSUME NEW t \in Threads, Push(t) PROVE PromiseInv'
  <2>1. /\ nodes' = nodes + 1 /\ list' = list \cup {nodes'}
        /\ nodes' \in Nodes
        /\ msg_id' = [msg_id EXCEPT ![nodes'] = call[t].id]
        /\ result' = [result EXCEPT ![nodes'] = "calling"]
        /\ node_state' = [node_state EXCEPT ![nodes'] = "NORMAL"]
        /\ call' = [call EXCEPT ![t].node = nodes']
        /\ pc' = [pc EXCEPT ![t] = "send"]
        /\ events' = events /\ sent' = sent /\ acks' = acks
        /\ ypc' = ypc /\ temp_node' = temp_node
    BY <1>6 DEF Push, TypeOK, Nodes, sweepVars, connVars, Goto
  <2>2. \A u \in Threads : InCall(u)' => u = t
    BY <1>6, OneSender DEF Push, Goto, TypeOK, HoldsWriteBuf
  <2>3. InCall(t)' /\ call'[t].id = call[t].id
    BY <1>6, <2>1 DEF Push, CallInv, TypeOK, Calls
  <2>4. \A n \in 1..nodes : result[n] # "calling"
    BY <1>6, OneSender DEF Push, ResultInv, PromiseInv, HoldsWriteBuf
  <2>5. ResultInv'
    <3>1. /\ result'[nodes'] = "calling" /\ msg_id'[nodes'] = call[t].id
          /\ events'[nodes'] = {}
      BY <1>0, <2>1 DEF TypeOK, PromiseInv, ResultInv
    <3>2. \A n \in Nodes : n # nodes' => result'[n] = result[n]
      BY <2>1 DEF TypeOK
    <3>3. \A n \in Nodes : n > nodes' => n > nodes /\ n # nodes'
      BY <1>0, <2>1 DEF Nodes
    <3>4. \A n \in 1..nodes' : n \in Nodes /\ (n = nodes' \/ n \in 1..nodes)
      BY <1>0, <2>1 DEF Nodes
    <3>5. \A n \in Nodes : n > nodes' => result'[n] = "none" /\ events'[n] = {}
      BY <2>1, <3>2, <3>3 DEF PromiseInv, ResultInv
    <3>6. \A n \in 1..nodes' : result'[n] # "none"
      BY <3>1, <3>2, <3>4 DEF PromiseInv, ResultInv
    <3>7. \A n \in 1..nodes' : result'[n] = "calling" => n = nodes'
      BY <2>4, <3>2, <3>4
    <3>8. \A u \in Threads : InCall(u)' => msg_id'[nodes'] = call'[u].id
      BY <2>2, <2>3, <3>1
    <3> QED BY <2>3, <3>1, <3>5, <3>6, <3>7, <3>8 DEF ResultInv
  <2>6. \A m \in sent \cup acks : m.node \in 1..nodes
    BY DEF WireInv, PromiseInv, TypeOK, Wire, Nodes
  <2>7. WireInv'
    BY <1>0, <2>1, <2>6 DEF WireInv, PromiseInv, TypeOK, Nodes
  <2>8. ypc = "relock" => temp_node \in 1..nodes
    BY <1>0 DEF SweepInv, CallInv, TypeOK, NULL
  <2>9. WaitInv'
    <3>1. \A n \in 1..nodes : /\ n \in Nodes /\ n # nodes'
                             /\ result'[n] = result[n]
                             /\ node_state'[n] = node_state[n]
      BY <1>0, <2>1 DEF TypeOK, Nodes
    <3>2. events'[nodes'] = {} /\ result'[nodes'] # "error"
      BY <1>0, <2>1 DEF TypeOK, PromiseInv, ResultInv
    <3>3. late' = late
      BY <1>6 DEF Push
    <3> QED BY <1>0, <2>1, <2>8, <3>1, <3>2, <3>3 DEF WaitInv, PromiseInv
  <2> QED BY <2>5, <2>7, <2>9 DEF PromiseInv
<1>7. ASSUME NEW t \in Threads, PushFails(t) PROVE PromiseInv'
  BY <1>7 DEF PushFails, TypeOK, LockInv, PromiseInv, ResultInv, WireInv,
     WaitInv, HoldsWriteBuf, connVars, nodeVars, sweepVars, history, Goto
<1>8. ASSUME NEW t \in Threads, Send(t) PROVE PromiseInv'
  <2>0. \A u \in Threads : ~Sending(u)' /\ (InCall(u)' => InCall(u))
    BY <1>8, OneSender DEF Send, Goto, TypeOK, HoldsWriteBuf
  <2>1. /\ acks' = acks /\ events' = events /\ call' = call
        /\ nodes' = nodes /\ list' = list /\ msg_id' = msg_id
        /\ node_state' = node_state /\ ypc' = ypc /\ result' = result
        /\ temp_node' = temp_node /\ late' = late
    BY <1>8 DEF Send, nodeVars, sweepVars, history
  <2>2. ResultInv'
    <3>1. \A u \in Threads : InCall(u) => InCall(u)'
      BY <1>8, OneSender DEF Send, Goto, TypeOK, HoldsWriteBuf
    <3> QED BY <2>0, <2>1, <3>1 DEF ResultInv, PromiseInv
  <2>3. WaitInv'
    BY <2>1 DEF WaitInv, PromiseInv
  <2>4. CASE call[t].qos # "QOS1"
    <3>1. sent' = sent
      BY <1>8, <2>4 DEF Send
    <3>2. WireInv'
      BY <2>0, <2>1, <3>1 DEF WireInv, PromiseInv
    <3> QED BY <2>2, <2>3, <3>2 DEF PromiseInv
  <2>5. CASE call[t].qos = "QOS1"
    <3> DEFINE p == [id |-> msg_id[nodes], node |-> nodes]
    <3>1. call[t].node = nodes /\ nodes \in Nodes /\ nodes \in 1..nodes
      BY <1>8, <2>5 DEF Send, SendInv, CallInv, TypeOK, Nodes
    <3>2. write_buf.id = msg_id[nodes] /\ result[nodes] = "calling"
      BY <1>8, <2>5 DEF Send, PacketIntact, Packet, PromiseInv, ResultInv,
         SendInv
    <3>3. sent' = sent \/ sent' = sent \cup {p}
      BY <1>8, <2>5, <3>1, <3>2 DEF Send
    <3>4. /\ "PUBLISH_SUCCESS" \notin events[nodes]
          /\ \A m \in sent \cup acks : m.node # nodes
      BY <1>8, <2>5 DEF Send, PromiseInv, ResultInv, WireInv
    <3>5. p.node = nodes /\ p.id = msg_id[nodes] /\ p \notin sent \cup acks
      BY <3>4
    <3> HIDE DEF p
    <3>6. \A m \in sent' \cup acks' : m \in sent \cup acks \/ m = p
      BY <2>1, <3>3
    <3>7. \A m \in sent' \cup acks' :
            /\ m.node <= nodes'
            /\ m.id = msg_id'[m.node]
            /\ result'[m.node] \in {"calling", "ok"}
            /\ "PUBLISH_SUCCESS" \notin events'[m.node]
      BY <1>0, <2>1, <3>2, <3>4, <3>5, <3>6 DEF PromiseInv, WireInv
    <3>8. \A m1, m2 \in sent' \cup acks' : m1.node = m2.node => m1 = m2
      BY <3>4, <3>5, <3>6 DEF PromiseInv, WireInv
    <3>9. sent' \cap acks' = {}
      BY <2>1, <3>3, <3>5 DEF PromiseInv, WireInv
    <3>10. WireInv'
      BY <2>0, <3>7, <3>8, <3>9 DEF WireInv
    <3> QED BY <2>2, <2>3, <3>10 DEF PromiseInv
  <2> QED BY <2>4, <2>5
<1>9. ASSUME NEW t \in Threads, SendFails(t) PROVE PromiseInv'
  BY <1>9 DEF SendFails, TypeOK, LockInv, PromiseInv, ResultInv, WireInv,
     WaitInv, HoldsWriteBuf, connVars, nodeVars, sweepVars, history, Goto
<1>10. ASSUME NEW t \in Threads, RemoveUnsent(t) PROVE PromiseInv'
  <2>1. /\ call[t].node = nodes /\ nodes \in Nodes
        /\ result[nodes] = "calling" /\ InCall(t) /\ Sending(t)
    BY <1>10 DEF RemoveUnsent, SendInv, CallInv, TypeOK, Nodes
  <2>2. /\ result' = [result EXCEPT ![nodes] = "error"]
        /\ list' = list \ {nodes} /\ nodes' = nodes /\ msg_id' = msg_id
        /\ sent' = sent /\ acks' = acks /\ events' = events
        /\ call' = call /\ node_state' = node_state /\ ypc' = ypc
        /\ temp_node' = temp_node /\ late' = late
    BY <1>10, <2>1 DEF RemoveUnsent, connVars, sweepVars
  <2>3. \A u \in Threads : ~InCall(u)' /\ ~Sending(u)'
    BY <1>10, OneSender DEF RemoveUnsent, Goto, TypeOK, HoldsWriteBuf
  <2>4. \A n \in Nodes : result'[n] = IF n = nodes THEN "error" ELSE result[n]
    BY <2>1, <2>2 DEF TypeOK
  <2>5. ResultInv'
    BY <2>1, <2>2, <2>3, <2>4, <1>0 DEF ResultInv, PromiseInv, TypeOK, Nodes
  <2>6. \A m \in sent \cup acks : m.node \in Nodes /\ m.node # nodes
    BY <2>1 DEF PromiseInv, WireInv, TypeOK, Wire
  <2>7. WireInv'
    BY <2>2, <2>3, <2>4, <2>6 DEF WireInv, PromiseInv
  <2>8. WaitInv'
    <3>1. ypc = "relock" => temp_node # nodes \/ nodes \in late
      BY <2>1 DEF SendInv
    <3>2. ypc = "relock" => temp_node \in Nodes
      BY DEF CallInv, TypeOK, Nodes, NULL
    <3>3. \A n \in list' : n \in list /\ n \in Nodes /\ n # nodes
      BY <1>0, <2>2
    <3> QED BY <2>2, <2>4, <3>1, <3>2, <3>3 DEF WaitInv, PromiseInv
  <2> QED BY <2>5, <2>7, <2>8 DEF PromiseInv
<1>11. ASSUME NEW t \in Threads, UnlockWriteBuf(t) PROVE PromiseInv'
  BY <1>11 DEF UnlockWriteBuf, NoCall, Call, TypeOK, LockInv, PromiseInv,
     ResultInv, WireInv, WaitInv, HoldsWriteBuf, connVars, nodeVars,
     sweepVars, history, Goto
<1>12. ASSUME NEW m \in acks, _handle_puback_packet(m) PROVE PromiseInv'
  <2>1. /\ m.node \in Nodes /\ m.id = msg_id[m.node] /\ m \notin sent
        /\ m.node <= nodes /\ m.node \in 1..nodes
        /\ \A t \in Threads : Sending(t) => m.node # nodes
    BY DEF PromiseInv, WireInv, TypeOK, Wire, Nodes
  <2>2. /\ acks' = acks \ {m} /\ sent' = sent
        /\ events' = [events EXCEPT ![m.node] = @ \cup {"PUBLISH_SUCCESS"}]
        /\ \A n \in list : node_state'[n] = "NORMAL" =>
             node_state[n] = "NORMAL" /\ msg_id[n] # m.id
        /\ list' = list /\ nodes' = nodes /\ msg_id' = msg_id
        /\ result' = result /\ pc' = pc /\ call' = call /\ late' = late
        /\ ypc = "read" /\ ypc' = "sweep"
    BY <1>12, <1>0 DEF _handle_puback_packet, _mask_pubInfo_from, publishVars,
       TypeOK
  <2>3. \A n \in Nodes : n # m.node => events'[n] = events[n]
    BY <2>1, <2>2 DEF TypeOK
  <2>4. ResultInv'
    <3>1. \A n \in Nodes : n > nodes => events'[n] = events[n]
      BY <2>1, <2>3, <1>0 DEF Nodes
    <3>2. \A t \in Threads : Sending(t) => events'[nodes] = events[nodes]
      <4>1. \A t \in Threads : Sending(t) => nodes \in Nodes
        BY DEF CallInv, SendInv, TypeOK, Nodes
      <4> QED BY <2>1, <2>3, <4>1
    <3> QED BY <2>2, <3>1, <3>2 DEF PromiseInv, ResultInv
  <2>5. \A k \in sent' \cup acks' :
          k \in sent \cup acks /\ k.node # m.node /\ k.node \in Nodes
    BY <2>1, <2>2 DEF PromiseInv, WireInv, TypeOK, Wire
  <2>6. WireInv'
    BY <2>2, <2>3, <2>5 DEF PromiseInv, WireInv
  <2>7. WaitInv'
    BY <2>1, <2>2, <1>0 DEF PromiseInv, WaitInv, TypeOK
  <2> QED BY <2>4, <2>6, <2>7 DEF PromiseInv
<1>13. ASSUME ReadNothing PROVE PromiseInv'
  BY <1>13 DEF ReadNothing, TypeOK, LockInv, PromiseInv, ResultInv, WireInv,
     WaitInv, HoldsWriteBuf, connVars, nodeVars, history, publishVars
<1>14. ASSUME SweepBegin PROVE PromiseInv'
  BY <1>14 DEF SweepBegin, TypeOK, LockInv, PromiseInv, ResultInv, WireInv,
     WaitInv, HoldsWriteBuf, connVars, nodeVars, history, publishVars
<1>15. ASSUME SweepNext PROVE PromiseInv'
  <2>1. /\ list' = list \ {temp_node} /\ nodes' = nodes
        /\ msg_id' = msg_id /\ node_state' = node_state
        /\ sent' = sent /\ acks' = acks /\ pc' = pc /\ call' = call
        /\ result' = result /\ events' = events /\ late' = late
    BY <1>15 DEF SweepNext, connVars, publishVars, history
  <2>2. ResultInv' /\ WireInv'
    BY <2>1 DEF PromiseInv, ResultInv, WireInv
  <2>3. ypc' = "relock" =>
          /\ temp_node' = iter /\ iter \in list /\ temp_node # iter
          /\ node_state[iter] # "INVALID" /\ expired[iter]
    <3>1. /\ iter \in list \cup {NULL}
          /\ temp_node # NULL => iter < temp_node
      BY <1>15 DEF SweepNext, SweepInv
    <3>2. ypc' = "relock" =>
            /\ temp_node' = iter /\ iter # NULL
            /\ node_state[iter] # "INVALID" /\ expired[iter]
      BY <1>15 DEF SweepNext, MustTimeOut
    <3> QED BY <3>1, <3>2, <1>0
  <2>4. ypc' = "relock" =>
          events[iter] = {} /\ (result[iter] = "ok" \/ iter \in late)
    <3> SUFFICES ASSUME ypc' = "relock"
                 PROVE  events[iter] = {} /\ (result[iter] = "ok" \/ iter \in late)
      OBVIOUS
    <3>1. node_state[iter] = "NORMAL" /\ iter \in 1..nodes /\ iter \in Nodes
      BY <2>3, <1>0 DEF TypeOK
    <3>2. events[iter] = {}
      BY <2>3, <3>1 DEF PromiseInv, WaitInv
    <3>3. result[iter] # "none" /\ result[iter] # "error"
      BY <2>3, <3>1 DEF PromiseInv, WaitInv, ResultInv
    <3>4. result[iter] = "calling" => iter = nodes /\ \E t \in Threads : InCall(t)
      BY <3>1 DEF PromiseInv, ResultInv
    <3>5. result[iter] = "calling" => iter \in late
      BY <2>3, <3>4 DEF SendInv
    <3>6. result[iter] \in {"none", "calling", "ok", "error"}
      BY <3>1 DEF TypeOK
    <3> QED BY <3>2, <3>3, <3>5, <3>6
  <2>5. \A n \in list' : result'[n] # "error"
    BY <2>1 DEF PromiseInv, WaitInv
  <2>6. \A n \in list' : node_state'[n] = "NORMAL" => events'[n] = {}
    BY <2>1 DEF PromiseInv, WaitInv
  <2>7. WaitInv'
    BY <2>1, <2>3, <2>4, <2>5, <2>6 DEF WaitInv
  <2> QED BY <2>2, <2>7 DEF PromiseInv
<1>16. ASSUME SweepRelock PROVE PromiseInv'
  <2>1. /\ list' = list /\ nodes' = nodes /\ late' = late
        /\ msg_id' = msg_id /\ node_state' = node_state
        /\ sent' = sent /\ acks' = acks /\ pc' = pc /\ call' = call
        /\ result' = result /\ temp_node' = temp_node
        /\ ypc = "relock" /\ ypc' = "callback"
        /\ events' = [events EXCEPT ![temp_node] = @ \cup {"PUBLISH_TIMEOUT"}]
    BY <1>16 DEF SweepRelock, connVars, publishVars
  <2>2. temp_node \in Nodes /\ temp_node \in 1..nodes
    BY <2>1 DEF SweepInv, CallInv, TypeOK, Nodes, NULL
  <2>3. /\ events[temp_node] = {}
        /\ result[temp_node] = "ok" \/ temp_node \in late
    BY <2>1 DEF PromiseInv, WaitInv
  <2>4. /\ events'[temp_node] = {"PUBLISH_TIMEOUT"}
        /\ \A n \in Nodes : n # temp_node => events'[n] = events[n]
    BY <2>1, <2>2, <2>3 DEF TypeOK
  <2>5. ResultInv'
    <3>1. \A n \in Nodes : n > nodes => events'[n] = events[n]
      BY <1>0, <2>2, <2>4 DEF Nodes
    <3>2. \A t \in Threads : Sending(t) =>
            /\ nodes \in Nodes
            /\ temp_node = nodes => nodes \in late
      BY <2>3 DEF SendInv, CallInv, TypeOK, Nodes
    <3>3. \A t \in Threads : Sending(t) =>
            /\ "PUBLISH_SUCCESS" \notin events'[nodes]
            /\ events'[nodes] = {} \/ nodes \in late
      BY <2>4, <3>2 DEF PromiseInv, ResultInv
    <3> QED BY <2>1, <3>1, <3>3 DEF PromiseInv, ResultInv
  <2>6. WireInv'
    <3>1. \A m \in sent \cup acks : m.node \in Nodes
      BY DEF TypeOK, Wire
    <3>2. \A m \in sent \cup acks : "PUBLISH_SUCCESS" \notin events'[m.node]
      BY <2>4, <3>1 DEF PromiseInv, WireInv
    <3> QED BY <2>1, <3>2 DEF PromiseInv, WireInv
  <2>7. WaitInv'
    BY <1>0, <2>1, <2>4 DEF PromiseInv, WaitInv
  <2> QED BY <2>5, <2>6, <2>7 DEF PromiseInv
<1>17. ASSUME CallbackReturns PROVE PromiseInv'
  BY <1>17 DEF CallbackReturns, TypeOK, LockInv, PromiseInv, ResultInv,
     WireInv, WaitInv, HoldsWriteBuf, connVars, nodeVars, history, publishVars
<1>18. ASSUME NothingToSend PROVE PromiseInv'
  BY <1>18 DEF NothingToSend, TypeOK, LockInv, PromiseInv, ResultInv, WireInv,
     WaitInv, HoldsWriteBuf, connVars, nodeVars, history, publishVars
<1>19. ASSUME NEW type \in YielderPackets, YielderSerializes(type)
      PROVE  PromiseInv'
  BY <1>19 DEF YielderSerializes, TypeOK, LockInv, PromiseInv, ResultInv,
     WireInv, WaitInv, HoldsWriteBuf, connVars, nodeVars, history
<1>20. ASSUME YielderSends PROVE PromiseInv'
  BY <1>20 DEF YielderSends, TypeOK, LockInv, PromiseInv, ResultInv, WireInv,
     WaitInv, HoldsWriteBuf, connVars, nodeVars, history
<1>21. ASSUME NEW m \in sent, ServerAcks(m) PROVE PromiseInv'
  BY <1>21 DEF ServerAcks, TypeOK, LockInv, PromiseInv, ResultInv, WireInv,
     WaitInv, HoldsWriteBuf, nodeVars, sweepVars, history, publishVars
<1>22. ASSUME NEW n \in Nodes, TimerExpires(n) PROVE PromiseInv'
  BY <1>22 DEF TimerExpires, TypeOK, LockInv, PromiseInv, ResultInv, WireInv,
     WaitInv, HoldsWriteBuf, connVars, sweepVars, publishVars
<1>23. ASSUME UNCHANGED vars PROVE PromiseInv'
  BY <1>23 DEF vars, TypeOK, LockInv, PromiseInv, ResultInv, WireInv, WaitInv,
     HoldsWriteBuf
<1>24. ASSUME NEW t \in Threads, SendReturns(t) PROVE PromiseInv'
  <2>1. /\ call[t].node = nodes /\ nodes \in Nodes /\ nodes \in 1..nodes
        /\ result[nodes] = "calling"
    BY <1>24 DEF SendReturns, SendInv, CallInv, TypeOK, Nodes
  <2>2. /\ result' = [result EXCEPT ![nodes] = "ok"]
        /\ list' = list /\ nodes' = nodes /\ msg_id' = msg_id
        /\ sent' = sent /\ acks' = acks /\ events' = events
        /\ call' = call /\ node_state' = node_state /\ ypc' = ypc
        /\ temp_node' = temp_node /\ late' = late
    BY <1>24, <2>1 DEF SendReturns, connVars, nodeVars, sweepVars
  <2>3. \A u \in Threads : ~InCall(u)' /\ ~Sending(u)'
    BY <1>24, OneSender DEF SendReturns, Goto, TypeOK, HoldsWriteBuf
  <2>4. ResultInv'
    BY <2>1, <2>2, <2>3 DEF ResultInv, PromiseInv, TypeOK, Nodes
  <2>5. WireInv'
    BY <2>1, <2>2, <2>3 DEF WireInv, PromiseInv, TypeOK, Wire
  <2>6. WaitInv'
    BY <2>1, <2>2, <1>0 DEF WaitInv, PromiseInv, TypeOK, Nodes
  <2> QED BY <2>4, <2>5, <2>6 DEF PromiseInv
<1>25. ASSUME Undefined PROVE PromiseInv'
  BY <1>23, <1>25 DEF Undefined
<1> QED
  BY <1>1, <1>2, <1>3, <1>4, <1>5, <1>6, <1>7, <1>8, <1>9, <1>10, <1>11,
     <1>12, <1>13, <1>14, <1>15, <1>16, <1>17, <1>18, <1>19, <1>20, <1>21,
     <1>22, <1>23, <1>24, <1>25 DEF Next, Publish, Yield, Environment
----------------------------------------------------------------------------
(* The whole invariant.                                                    *)

FullInv == BaseInv /\ PacketIntact /\ SendInv /\ SweepInv /\ PromiseInv

\* It holds initially.
LEMMA InitFull == Init => FullInv
<1> SUFFICES ASSUME Init PROVE FullInv
  OBVIOUS
<1>1. BaseInv
  BY InitBase
<1>2. PacketIntact /\ SendInv
  BY DEF Init, PacketIntact, SendInv, InCall, Sending
<1>3. SweepInv
  BY DEF Init, SweepInv, Sweeping, NULL
<1>4. PromiseInv
  BY BoundsAssumption DEF Init, PromiseInv, ResultInv, WireInv, WaitInv, InCall,
     Sending, Nodes
<1> QED BY <1>1, <1>2, <1>3, <1>4 DEF FullInv

\* Every step preserves it.
LEMMA NextFull == FullInv /\ [Next]_vars => FullInv'
BY NextBase, NextPacket, NextPointers, NextPromise DEF FullInv

\* Neither the sweep nor a publish call ever uses a node that has been
\* freed, unless the node's time ran out before its call returned.
THEOREM PointersStayLive == Spec => []PointersLive
<1>1. Init => FullInv
  BY InitFull
<1>2. FullInv /\ [Next]_vars => FullInv'
  BY NextFull
<1>3. FullInv => PointersLive
  BY DEF FullInv, BaseInv, CallInv, PointersLive, SendInv, SweepInv, InCall,
     Sending, Sweeping
<1> QED BY <1>1, <1>2, <1>3, PTL DEF Spec

----------------------------------------------------------------------------
(* Refinement of PublishPromise.                                           *)

\* Each step is a step of the abstract specification, or leaves what the
\* application has been told as it is.
LEMMA StepKeepsPromise ==
    BaseInv /\ SendInv /\ SweepInv /\ PromiseInv /\ [Next]_vars
      => [Promise!PNext]_(Promise!promiseVars)
<1> SUFFICES ASSUME BaseInv, SendInv, SweepInv, PromiseInv, [Next]_vars
             PROVE  [Promise!PNext]_(Promise!promiseVars)
  OBVIOUS
<1> USE ThreadsAssumption, BoundsAssumption
    DEF BaseInv, InCall, Sending, Sweeping, At, YielderAt
<1>1. ASSUME NEW t \in Threads, NEW qos \in QoS, StartPublish(t, qos)
      PROVE  [Promise!PNext]_(Promise!promiseVars)
  BY <1>1 DEF StartPublish, Promise!promiseVars, connVars, nodeVars,
     sweepVars, history, Goto
<1>2. ASSUME NEW t \in Threads, LockWriteBuf(t) PROVE [Promise!PNext]_(Promise!promiseVars)
  BY <1>2 DEF LockWriteBuf, Promise!promiseVars, connVars, nodeVars,
     sweepVars, history, Goto
<1>3. ASSUME NEW t \in Threads, get_next_packet_id(t) PROVE [Promise!PNext]_(Promise!promiseVars)
  BY <1>3 DEF get_next_packet_id, Promise!promiseVars, connVars, nodeVars,
     sweepVars, Goto
<1>4. ASSUME NEW t \in Threads, Serialize(t) PROVE [Promise!PNext]_(Promise!promiseVars)
  BY <1>4 DEF Serialize, Promise!promiseVars, connVars, nodeVars, sweepVars,
     history, Goto
<1>5. ASSUME NEW t \in Threads, SerializeFails(t) PROVE [Promise!PNext]_(Promise!promiseVars)
  BY <1>5 DEF SerializeFails, Promise!promiseVars, connVars, nodeVars,
     sweepVars, history, Goto
<1>6. ASSUME NEW t \in Threads, Push(t) PROVE [Promise!PNext]_(Promise!promiseVars)
  <2>1. Promise!Begin(nodes + 1)
    BY <1>6 DEF Push, TypeOK, Nodes, PromiseInv, ResultInv, Promise!Begin
  <2>2. nodes + 1 \in Nodes
    BY <1>6 DEF Push, TypeOK, Nodes
  <2> QED BY <2>1, <2>2 DEF Promise!PNext
<1>7. ASSUME NEW t \in Threads, PushFails(t) PROVE [Promise!PNext]_(Promise!promiseVars)
  BY <1>7 DEF PushFails, Promise!promiseVars, connVars, nodeVars, sweepVars,
     history, Goto
<1>8. ASSUME NEW t \in Threads, Send(t) PROVE [Promise!PNext]_(Promise!promiseVars)
  BY <1>8 DEF Send, Promise!promiseVars, history
<1>9. ASSUME NEW t \in Threads, SendFails(t) PROVE [Promise!PNext]_(Promise!promiseVars)
  BY <1>9 DEF SendFails, Promise!promiseVars, connVars, nodeVars, sweepVars,
     history, Goto
<1>10. ASSUME NEW t \in Threads, RemoveUnsent(t) PROVE [Promise!PNext]_(Promise!promiseVars)
  <2>1. call[t].node = nodes /\ nodes \in Nodes /\ nodes \in 1..nodes
    BY <1>10 DEF RemoveUnsent, SendInv, CallInv, TypeOK, Nodes
  <2>2. Promise!Reject(nodes)
    BY <1>10, <2>1 DEF RemoveUnsent, CallInv, SendInv, PromiseInv, ResultInv,
       Promise!Reject
  <2> QED BY <2>1, <2>2 DEF Promise!PNext
<1>11. ASSUME NEW t \in Threads, UnlockWriteBuf(t) PROVE [Promise!PNext]_(Promise!promiseVars)
  BY <1>11 DEF UnlockWriteBuf, Promise!promiseVars, connVars, nodeVars,
     sweepVars, history, Goto
<1>12. ASSUME NEW m \in acks, _handle_puback_packet(m) PROVE [Promise!PNext]_(Promise!promiseVars)
  <2>1. m.node \in Nodes
    BY DEF TypeOK, Wire
  <2>2. Promise!Succeed(m.node)
    BY <1>12 DEF _handle_puback_packet, PromiseInv, WireInv, Promise!Succeed
  <2> QED BY <2>1, <2>2 DEF Promise!PNext
<1>13. ASSUME ReadNothing PROVE [Promise!PNext]_(Promise!promiseVars)
  BY <1>13 DEF ReadNothing, Promise!promiseVars, connVars, nodeVars, history,
     publishVars
<1>14. ASSUME SweepBegin PROVE [Promise!PNext]_(Promise!promiseVars)
  BY <1>14 DEF SweepBegin, Promise!promiseVars, connVars, nodeVars, history,
     publishVars
<1>15. ASSUME SweepNext PROVE [Promise!PNext]_(Promise!promiseVars)
  BY <1>15 DEF SweepNext, Promise!promiseVars, connVars, history, publishVars
<1>16. ASSUME SweepRelock PROVE [Promise!PNext]_(Promise!promiseVars)
  <2>1. temp_node \in Nodes
    BY <1>16 DEF SweepRelock, CallInv, TypeOK, Nodes, NULL
  <2>2. /\ events[temp_node] = {}
        /\ result[temp_node] = "ok" \/ temp_node \in late
    BY <1>16 DEF SweepRelock, PromiseInv, WaitInv
  <2>3. events' = [events EXCEPT ![temp_node] = {"PUBLISH_TIMEOUT"}]
    BY <1>16, <2>2 DEF SweepRelock
  <2>4. Promise!TimeOut(temp_node)
    BY <1>16, <2>2, <2>3 DEF SweepRelock, Promise!TimeOut
  <2> QED BY <2>1, <2>4 DEF Promise!PNext
<1>17. ASSUME CallbackReturns PROVE [Promise!PNext]_(Promise!promiseVars)
  BY <1>17 DEF CallbackReturns, Promise!promiseVars, connVars, nodeVars,
     history, publishVars
<1>18. ASSUME NothingToSend PROVE [Promise!PNext]_(Promise!promiseVars)
  BY <1>18 DEF NothingToSend, Promise!promiseVars, connVars, nodeVars,
     history, publishVars
<1>19. ASSUME NEW type \in YielderPackets, YielderSerializes(type)
      PROVE  [Promise!PNext]_(Promise!promiseVars)
  BY <1>19 DEF YielderSerializes, Promise!promiseVars, connVars, nodeVars,
     history
<1>20. ASSUME YielderSends PROVE [Promise!PNext]_(Promise!promiseVars)
  BY <1>20 DEF YielderSends, Promise!promiseVars, connVars, nodeVars, history
<1>21. ASSUME NEW m \in sent, ServerAcks(m) PROVE [Promise!PNext]_(Promise!promiseVars)
  BY <1>21 DEF ServerAcks, Promise!promiseVars, nodeVars, sweepVars, history,
     publishVars
<1>22. ASSUME NEW n \in Nodes, TimerExpires(n) PROVE [Promise!PNext]_(Promise!promiseVars)
  <2>1. late' = late \/ Promise!Lapse(n)
    BY <1>22 DEF TimerExpires, Promise!Lapse
  <2>2. late' = late => UNCHANGED Promise!promiseVars
    BY <1>22 DEF TimerExpires, Promise!promiseVars
  <2> QED BY <2>1, <2>2 DEF Promise!PNext
<1>23. ASSUME UNCHANGED vars PROVE [Promise!PNext]_(Promise!promiseVars)
  BY <1>23 DEF vars, Promise!promiseVars
<1>24. ASSUME NEW t \in Threads, SendReturns(t) PROVE [Promise!PNext]_(Promise!promiseVars)
  <2>1. call[t].node = nodes /\ nodes \in Nodes
    BY <1>24 DEF SendReturns, SendInv, CallInv, TypeOK, Nodes
  <2>2. Promise!Accept(nodes)
    BY <1>24, <2>1 DEF SendReturns, SendInv, CallInv, Promise!Accept
  <2> QED BY <2>1, <2>2 DEF Promise!PNext
<1>25. ASSUME Undefined PROVE [Promise!PNext]_(Promise!promiseVars)
  BY <1>23, <1>25 DEF Undefined
<1> QED
  BY <1>1, <1>2, <1>3, <1>4, <1>5, <1>6, <1>7, <1>8, <1>9, <1>10, <1>11,
     <1>12, <1>13, <1>14, <1>15, <1>16, <1>17, <1>18, <1>19, <1>20, <1>21,
     <1>22, <1>23, <1>24, <1>25 DEF Next, Publish, Yield, Environment

\* A QoS 1 publish keeps the promise of PublishPromise, with any number of
\* threads and however long a send takes.
THEOREM PublishKeepsPromise == Spec => KeepsPromise
<1>1. Init => FullInv /\ Promise!PInit
  BY InitFull DEF Init, Promise!PInit
<1>2. FullInv /\ [Next]_vars => FullInv'
  BY NextFull
<1>3. FullInv /\ [Next]_vars => [Promise!PNext]_(Promise!promiseVars)
  BY StepKeepsPromise DEF FullInv
<1> QED BY <1>1, <1>2, <1>3, PTL DEF Spec, KeepsPromise, Promise!PSpec
============================================================================
