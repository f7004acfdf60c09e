------------------------ MODULE MqttSubscribeProofs ------------------------
(***************************************************************************)
(* Proofs about MqttSubscribe, for any threads, topics and handlers, any   *)
(* size of sub_handles and any number of requests and lost connections.    *)
(***************************************************************************)
EXTENDS MqttSubscribe, TLAPS, SequenceTheorems, FiniteSetTheorems, WellFoundedInduction

\* The elements of a sequence, and that it has each once.
Elems(s) == {s[i] : i \in DOMAIN s}
Distinct(s) == \A i, j \in DOMAIN s : s[i] = s[j] => i = j

\* The requests a sequence of acknowledgements answers, each once.
Acks == [n : Requests, granted : BOOLEAN]
Named(s) == {s[i].n : i \in DOMAIN s}
OneEach(s) == \A i, j \in DOMAIN s : s[i].n = s[j].n => i = j

\* What a request asks for.
Kinds == [type : {"NONE", "SUBSCRIBE", "UNSUBSCRIBE"}, topic : Topics,
          handler : Handlers \cup {NULL}]

Reports == {"UNSUBSCRIBE", "SUBCRIBE_SUCCESS", "SUBCRIBE_NACK",
            "UNSUBCRIBE_SUCCESS", "TIMEOUT"}

\* The typed part of the state without the Boolean fields, in three parts.
CallsOK ==
    /\ lock_write_buf \in Threads \cup {NoThread}
    /\ pc \in [Threads -> {"idle", "lock", "send", "unsub", "copy"}]
    /\ arg \in [Threads -> Topics]
    /\ cur \in [Threads -> 0..MaxRequests]
    /\ requests \in 0..MaxRequests
    /\ req \in [Requests -> Kinds]

TablesOK ==
    /\ heap \in [Requests -> {"none", "live", "freed"}]
    /\ list \subseteq 1..requests
    /\ node_state \in [Requests -> {"NORMAL", "INVALID"}]
    /\ topic_filter \in [Slots -> 0..requests]
    /\ handle \in [Slots -> 0..requests]
    /\ events \in [Requests -> SUBSET Reports]
    /\ lost \subseteq 1..requests

LinesOK ==
    /\ ypc \in {"read", "sweep", "resub"}
    /\ itr \in 1..(MAX_MESSAGE_HANDLERS + 1)
    /\ ptr \in 0..requests
    /\ to_server \in Seq(Requests)
    /\ to_client \in Seq(Acks)
    /\ disconnects \in 0..MaxDisconnects
    /\ asked \subseteq Topics

FlagsOK ==
    /\ is_connected \in BOOLEAN
    /\ expired \in [Requests -> BOOLEAN]
    /\ used_freed \subseteq Requests
    /\ late \subseteq Requests
    /\ raced \subseteq Requests
    /\ wild \in BOOLEAN
    /\ resub_failed \in BOOLEAN

\* A request belongs to one call until it has been sent; it is on the list
\* from the push on, unless it expired first, and cannot have been answered
\* yet.
InCall(t) == pc[t] \in {"lock", "send"}
CallFits ==
    /\ \A t \in Threads : InCall(t) =>
         /\ cur[t] \in 1..requests /\ node_state[cur[t]] = "NORMAL"
         /\ cur[t] \notin Elems(to_server) /\ cur[t] \notin Named(to_client)
    /\ \A t \in Threads : pc[t] = "lock" => cur[t] \notin list
    /\ \A t \in Threads : pc[t] = "send" => cur[t] \in list \cup late
    /\ \A t, u \in Threads : InCall(t) /\ InCall(u) /\ cur[t] = cur[u] => t = u
    /\ \A t \in Threads : pc[t] = "copy" => t = Yielder
    /\ pc[Yielder] # "unsub"

\* Timers run out for nodes on the list; one that is being sent is late then.
SendFits ==
    /\ \A t \in Threads : pc[t] = "send" => ~expired[cur[t]] \/ cur[t] \in late
    /\ \A n \in Requests : expired[n] => n \in list

\* A request is on the connection at most once, in one direction, and its
\* node has not been answered.
ChannelFits ==
    /\ Distinct(to_server) /\ OneEach(to_client)
    /\ \A n \in Elems(to_server) : n \notin Named(to_client)
    /\ \A n \in Elems(to_server) \cup Named(to_client) :
         /\ n \in 1..requests /\ node_state[n] = "NORMAL"
         /\ req[n].type = "SUBSCRIBE" => req[n].topic \in asked

\* Without a connection nothing is on it, and yield does nothing but reconnect.
LinkFits == ~is_connected => to_server = << >> /\ to_client = << >> /\ ypc = "read"

\* A request that has an entry, or found none, was answered; a number that is
\* not in use has no history.
EntryFits ==
    /\ \A i \in Slots : topic_filter[i] # NULL =>
         /\ handle[i] = topic_filter[i]
         /\ node_state[topic_filter[i]] = "INVALID" /\ topic_filter[i] \notin lost
    /\ \A n \in lost : node_state[n] = "INVALID"
    /\ \A n \in Requests : n > requests =>
         node_state[n] = "NORMAL" /\ events[n] = {}
    /\ EntriesDistinct

\* A time-out ends the wait for good; a success ends it by invalidating the
\* node.
EventFits ==
    /\ \A n \in Requests : "TIMEOUT" \in events[n] =>
         n \notin list /\ \A t \in Threads : ~(pc[t] = "lock" /\ cur[t] = n)
    /\ \A n \in Requests : "SUBCRIBE_SUCCESS" \in events[n] =>
         node_state[n] = "INVALID"
    /\ OneOutcome

\* The filters that are on the heap are those with an owner and the lost ones,
\* as long as the program is defined.
Calling(n) == \E t \in Threads : pc[t] = "lock" /\ cur[t] = n
Waiting(n) == n \in list /\ node_state[n] = "NORMAL"
Entered(n) == \E i \in Slots : topic_filter[i] = n
Owned(n) == Calling(n) \/ Waiting(n) \/ Entered(n) \/ n \in lost
HeapIsOwned == \A n \in Requests : heap[n] = "live" <=> Owned(n)
HeapFits == ~wild => /\ used_freed \subseteq late \cup raced
                     /\ used_freed = {} => HeapIsOwned

\* Resubscribe asks for the topic of the entry it is at.
ResubFits ==
    /\ pc[Yielder] \in {"copy", "lock", "send"} => ypc = "resub" /\ itr \in Slots
    /\ pc[Yielder] = "copy" =>
         /\ ptr \in 1..requests /\ handle[itr] \in 1..requests
         /\ topic_filter[itr] # NULL => topic_filter[itr] = ptr
         /\ topic_filter[itr] = NULL => ptr \in raced
    /\ InCall(Yielder) => req[cur[Yielder]].type = "SUBSCRIBE"

AskedBefore(k) == \A i \in Slots : i < k /\ topic_filter[i] # NULL =>
                    req[topic_filter[i]].topic \in asked
AsksForEntry == InCall(Yielder) /\ topic_filter[itr] # NULL =>
                  req[cur[Yielder]].topic = req[topic_filter[itr]].topic
AskFits == ~wild =>
    /\ AsksForEntry
    /\ ypc = "resub" => AskedBefore(itr)
    /\ is_connected /\ ypc # "resub" /\ ~resub_failed =>
         AskedBefore(MAX_MESSAGE_HANDLERS + 1)

IInv == /\ CallsOK /\ TablesOK /\ LinesOK /\ FlagsOK
        /\ CallFits /\ SendFits /\ ChannelFits /\ LinkFits /\ EntryFits
        /\ EventFits /\ HeapFits /\ ResubFits /\ AskFits

USE DEF marks, At, YielderAt

----------------------------------------------------------------------------
(* Numbers, threads and records.                                           *)

LEMMA Sizes ==
    /\ MAX_MESSAGE_HANDLERS \in Nat /\ MAX_MESSAGE_HANDLERS >= 1
    /\ MaxRequests \in Nat /\ MaxDisconnects \in Nat
    /\ NULL = 0 /\ NULL \notin Requests /\ NULL \notin Slots
BY BoundsAssumption DEF NULL, Requests, Slots

LEMMA YielderIn == Yielder \in Threads /\ \A t \in Apps : t \in Threads /\ t # Yielder
BY ThreadsAssumption DEF Threads

LEMMA NoTopicIn == NoTopic \in Topics
BY BoundsAssumption DEF NoTopic

\* Requests made so far are requests.
LEMMA MadeAreRequests ==
    ASSUME requests \in 0..MaxRequests
    PROVE  /\ \A n \in 1..requests : n \in Requests /\ n # NULL
           /\ \A n \in 0..requests : n # NULL => n \in 1..requests
           /\ \A n \in Requests : n \in 1..requests \/ n > requests
           /\ \A n \in 1..requests : ~(n > requests)
BY Sizes DEF Requests

\* An acknowledgement.
LEMMA AckIs ==
    /\ \A a \in Acks : a.n \in Requests /\ a.granted \in BOOLEAN
    /\ \A n \in Requests, g \in BOOLEAN :
         [n |-> n, granted |-> g] \in Acks
BY Zenon DEF Acks

\* A non-empty set of naturals has a least element.
LEMMA LeastExists ==
    ASSUME NEW T \in SUBSET Nat, T # {}
    PROVE  \E x \in T : \A y \in T : x <= y
<1> DEFINE R == {ss \in Nat \X Nat : ss[1] < ss[2]}
<1>1. IsWellFoundedOn(R, Nat)
  BY NatLessThanWellFounded DEF OpToRel
<1>2. PICK x \in T : \A y \in T : ~(<<y, x>> \in R)
  <2> HIDE DEF R
  <2> QED BY <1>1, WFMin
<1>3. ASSUME NEW y \in T PROVE x <= y
  <2>1. <<y, x>> \notin R
    <3> HIDE DEF R
    <3> QED BY <1>2
  <2>2. y \in Nat /\ x \in Nat
    OBVIOUS
  <2>3. ~(y < x)
    BY <2>1, <2>2
  <2> QED BY <2>2, <2>3
<1> QED BY <1>3

\* _handle_suback_packet puts a subscription in a free entry, if there is one.
LEMMA FirstFreeIs ==
    ASSUME FreeSlots # {}
    PROVE  FirstFree \in Slots /\ topic_filter[FirstFree] = NULL
<1>1. FreeSlots \in SUBSET Nat
  BY Sizes DEF FreeSlots, Slots
<1>2. \E i \in FreeSlots : \A j \in FreeSlots : i <= j
  BY <1>1, LeastExists
<1>3. FirstFree \in FreeSlots
  <2> HIDE DEF FreeSlots
  <2> QED BY <1>2 DEF FirstFree
<1> QED BY <1>3 DEF FreeSlots

----------------------------------------------------------------------------
(* Sequences.                                                              *)

\* Taking the first request off the connection.
LEMMA TakeRequest ==
    ASSUME NEW S, NEW s \in Seq(S), s # << >>, Distinct(s)
    PROVE  /\ Tail(s) \in Seq(S) /\ Head(s) \in S /\ Distinct(Tail(s))
           /\ Head(s) \in Elems(s) /\ Head(s) \notin Elems(Tail(s))
           /\ \A x \in Elems(Tail(s)) : x \in Elems(s)
<1>1. /\ Head(s) = s[1] /\ Head(s) \in S /\ Tail(s) \in Seq(S) /\ Len(s) \in Nat
      /\ Len(Tail(s)) = Len(s) - 1 /\ 1 \in DOMAIN s
      /\ \A i \in 1..Len(Tail(s)) : Tail(s)[i] = s[i + 1]
  BY HeadTailProperties, LenProperties
<1>2. DOMAIN s = 1..Len(s) /\ DOMAIN Tail(s) = 1..(Len(s) - 1)
  BY <1>1, LenProperties
<1>3. ASSUME NEW i \in 1..(Len(s) - 1)
      PROVE  i + 1 \in 1..Len(s) /\ i + 1 # 1 /\ Tail(s)[i] = s[i + 1]
  BY <1>1
<1>4. \A x \in Elems(Tail(s)) : x \in Elems(s)
  BY <1>2, <1>3 DEF Elems
<1>5. Distinct(Tail(s)) /\ Head(s) \notin Elems(Tail(s))
  BY <1>1, <1>2 DEF Distinct, Elems
<1> QED BY <1>1, <1>4, <1>5 DEF Elems

\* Putting a request on the connection.
LEMMA AddRequest ==
    ASSUME NEW S, NEW s \in Seq(S), NEW x \in S
    PROVE  /\ Append(s, x) \in Seq(S)
           /\ Elems(Append(s, x)) = Elems(s) \cup {x}
           /\ x \notin Elems(s) /\ Distinct(s) => Distinct(Append(s, x))
<1>1. /\ Append(s, x) \in Seq(S) /\ Len(Append(s, x)) = Len(s) + 1 /\ Len(s) \in Nat
      /\ \A i \in 1..Len(s) : Append(s, x)[i] = s[i]
      /\ Append(s, x)[Len(s) + 1] = x
  BY AppendProperties, LenProperties
<1>2. DOMAIN s = 1..Len(s) /\ DOMAIN Append(s, x) = 1..(Len(s) + 1)
  BY <1>1, LenProperties
<1> QED BY <1>1, <1>2 DEF Elems, Distinct

\* The same two facts for acknowledgements.
LEMMA TakeAck ==
    ASSUME NEW s \in Seq(Acks), s # << >>, OneEach(s)
    PROVE  /\ Tail(s) \in Seq(Acks) /\ Head(s) \in Acks /\ OneEach(Tail(s))
           /\ Head(s).n \in Named(s) /\ Head(s).n \notin Named(Tail(s))
           /\ \A x \in Named(Tail(s)) : x \in Named(s)
<1>1. /\ Head(s) = s[1] /\ Head(s) \in Acks /\ Tail(s) \in Seq(Acks) /\ Len(s) \in Nat
      /\ Len(Tail(s)) = Len(s) - 1 /\ 1 \in DOMAIN s
      /\ \A i \in 1..Len(Tail(s)) : Tail(s)[i] = s[i + 1]
  BY HeadTailProperties, LenProperties
<1>2. DOMAIN s = 1..Len(s) /\ DOMAIN Tail(s) = 1..(Len(s) - 1)
  BY <1>1, LenProperties
<1>3. ASSUME NEW i \in 1..(Len(s) - 1)
      PROVE  i + 1 \in 1..Len(s) /\ i + 1 # 1 /\ Tail(s)[i] = s[i + 1]
  BY <1>1
<1>4. \A x \in Named(Tail(s)) : x \in Named(s)
  BY <1>2, <1>3 DEF Named
<1>5. OneEach(Tail(s)) /\ Head(s).n \notin Named(Tail(s))
  BY <1>1, <1>2 DEF OneEach, Named
<1> QED BY <1>1, <1>4, <1>5 DEF Named

LEMMA AddAck ==
    ASSUME NEW s \in Seq(Acks), NEW a \in Acks
    PROVE  /\ Append(s, a) \in Seq(Acks)
           /\ Named(Append(s, a)) = Named(s) \cup {a.n}
           /\ a.n \notin Named(s) /\ OneEach(s) => OneEach(Append(s, a))
<1>1. /\ Append(s, a) \in Seq(Acks) /\ Len(Append(s, a)) = Len(s) + 1 /\ Len(s) \in Nat
      /\ \A i \in 1..Len(s) : Append(s, a)[i] = s[i]
      /\ Append(s, a)[Len(s) + 1] = a
  BY AppendProperties, LenProperties
<1>2. DOMAIN s = 1..Len(s) /\ DOMAIN Append(s, a) = 1..(Len(s) + 1)
  BY <1>1, LenProperties
<1> QED BY <1>1, <1>2 DEF Named, OneEach

LEMMA NothingSent ==
    /\ Elems(<< >>) = {} /\ Distinct(<< >>) /\ \A S : << >> \in Seq(S)
    /\ Named(<< >>) = {} /\ OneEach(<< >>)
BY DEF Elems, Distinct, Named, OneEach

----------------------------------------------------------------------------
(* The parts of the invariant with Boolean fields.                         *)

\* A step that frees the filters of S, or none.
LEMMA HeapStep ==
    ASSUME HeapFits, Defined, UNCHANGED wild, HeapIsOwned => HeapIsOwned', NEW S,
           \/ UNCHANGED used_freed
           \/ used_freed' \subseteq late' \cup raced'
           \/ /\ used_freed' = used_freed \cup {n \in S \ {NULL} : heap[n] # "live"}
              /\ HeapIsOwned => \A n \in S \ {NULL} : heap[n] = "live"
    PROVE  HeapFits'
<1>1. used_freed = {} /\ HeapIsOwned
  BY Zenon DEF HeapFits, Defined
<1>2. used_freed' \subseteq late' \cup raced'
  BY <1>1
<1> QED BY <1>1, <1>2, Zenon DEF HeapFits

\* A step that does not change how far resubscribe is.
LEMMA AskStep ==
    ASSUME AskFits, UNCHANGED <<wild, is_connected, resub_failed, itr>>,
           ypc = "resub" <=> ypc' = "resub",
           ~wild /\ AsksForEntry => AsksForEntry',
           \A k : AskedBefore(k) => AskedBefore(k)'
    PROVE  AskFits'
BY Zenon DEF AskFits

\* Resubscribe gives up.
LEMMA AskGivenUp ==
    ASSUME resub_failed' = TRUE, ypc' = "read", pc'[Yielder] = "idle"
    PROVE  AskFits'
<1>1. AsksForEntry'
  BY DEF AsksForEntry, InCall
<1> QED BY <1>1, Zenon DEF AskFits

LEMMA FlagsStay ==
    ASSUME FlagsOK, UNCHANGED <<is_connected, expired, used_freed, marks, resub_failed>>
    PROVE  FlagsOK'
BY Zenon DEF FlagsOK, marks

\* Nothing is freed of what was not there: what Free does.
LEMMA FreeDoes ==
    ASSUME NEW S \in SUBSET (0..MaxRequests), Free(S), FlagsOK,
           heap \in [Requests -> {"none", "live", "freed"}]
    PROVE  /\ heap' \in [Requests -> {"none", "live", "freed"}]
           /\ \A n \in Requests : heap'[n] = IF n \in S THEN "freed" ELSE heap[n]
           /\ used_freed' = used_freed \cup {n \in S \ {NULL} : heap[n] # "live"}
           /\ used_freed' \subseteq Requests
<1>1. heap' = [n \in Requests |-> IF n \in S THEN "freed" ELSE heap[n]]
  BY DEF Free
<1>2. used_freed' = used_freed \cup {n \in S \ {NULL} : heap[n] # "live"}
  BY DEF Free
<1>3. used_freed \subseteq Requests
  BY Zenon DEF FlagsOK
<1>4. \A n \in S \ {NULL} : n \in Requests
  BY Sizes DEF Requests
<1> QED BY <1>1, <1>2, <1>3, <1>4

----------------------------------------------------------------------------
(* The invariant holds initially.                                          *)

LEMMA InitIInv == Init => IInv
<1> SUFFICES ASSUME Init PROVE IInv
  OBVIOUS
<1> USE NothingSent, Sizes
<1>1. CallsOK
  <2>1. NoRequest \in Kinds
    BY NoTopicIn DEF NoRequest, Kinds
  <2> HIDE DEF NoRequest, Kinds
  <2> QED BY <2>1, NoTopicIn DEF Init, CallsOK
<1>2. TablesOK
  BY DEF Init, TablesOK
<1>3. LinesOK
  BY DEF Init, LinesOK
<1>4. FlagsOK
  BY Zenon DEF Init, FlagsOK
<1>5. /\ \A t \in Threads : pc[t] = "idle"
      /\ \A i \in Slots : topic_filter[i] = NULL
      /\ \A n \in Requests : /\ heap[n] = "none" /\ node_state[n] = "NORMAL"
                             /\ events[n] = {}
      /\ list = {} /\ lost = {} /\ to_server = << >> /\ to_client = << >>
      /\ requests = 0 /\ asked = {} /\ ypc = "read"
  BY DEF Init
<1>6. CallFits /\ ChannelFits /\ ResubFits
  BY <1>5, YielderIn DEF CallFits, InCall, ChannelFits, ResubFits
<1>7. SendFits /\ LinkFits
  <2>1. \A n \in Requests : ~expired[n]
    BY Zenon DEF Init
  <2> QED BY <1>5, <2>1, Zenon DEF SendFits, LinkFits
<1>8. EntryFits /\ EventFits
  BY <1>5 DEF EntryFits, EntriesDistinct, EventFits, OneOutcome
<1>9. HeapFits
  <2>1. HeapIsOwned
    BY <1>5 DEF HeapIsOwned, Owned, Calling, Waiting, Entered
  <2>2. used_freed \subseteq late \cup raced
    BY DEF Init
  <2> QED BY <2>1, <2>2, Zenon DEF HeapFits
<1>10. AskFits
  <2>1. AsksForEntry /\ \A k : AskedBefore(k)
    BY <1>5, YielderIn DEF AsksForEntry, InCall, AskedBefore
  <2> QED BY <2>1, Zenon DEF AskFits
<1> QED BY <1>1, <1>2, <1>3, <1>4, <1>6, <1>7, <1>8, <1>9, <1>10 DEF IInv

----------------------------------------------------------------------------
(* Calls keep the invariant.                                               *)

\* A call copies its filter: thread t is at its start, or the yielding thread
\* is about to ask for an entry again.
LEMMA AllocateIInv ==
    ASSUME IInv, NEW t \in Threads, NEW type \in {"SUBSCRIBE", "UNSUBSCRIBE"},
           NEW topic \in Topics, NEW handler \in Handlers \cup {NULL},
           Allocate(t, type, topic, handler),
           ~InCall(t),
           t = Yielder => /\ pc[Yielder] = "copy" /\ type = "SUBSCRIBE"
                          /\ HeapIsOwned /\ topic_filter[itr] # NULL =>
                               topic = req[topic_filter[itr]].topic,
           arg' \in [Threads -> Topics], ptr' \in {ptr, NULL},
           t # Yielder => ptr' = ptr,
           Defined, used_freed' \subseteq raced,
           UNCHANGED <<is_connected, lock_write_buf, nodeVars, slotVars, ypc, itr,
                       connVars, disconnects, marks, events, lost, asked,
                       resub_failed>>
    PROVE  IInv'
<1> DEFINE n == requests + 1
           new == [type |-> type, topic |-> topic, handler |-> handler]
<1>1. /\ requests < MaxRequests /\ requests' = n
      /\ req' = [req EXCEPT ![n] = new] /\ heap' = [heap EXCEPT ![n] = "live"]
      /\ cur' = [cur EXCEPT ![t] = n] /\ pc' = [pc EXCEPT ![t] = "lock"]
      /\ UNCHANGED <<lock_write_buf, list, node_state, topic_filter, handle, ypc, itr>>
      /\ UNCHANGED <<to_server, to_client, disconnects, events, lost, asked>>
      /\ UNCHANGED <<late, raced>>
  BY DEF Allocate, nodeVars, slotVars, connVars
<1>2. /\ n \in Requests /\ n \in 1..requests' /\ n \notin 1..requests /\ n # NULL
      /\ n > requests /\ requests \in 0..MaxRequests /\ requests' \in 0..MaxRequests
      /\ n \in 0..MaxRequests
      /\ 1..requests \subseteq 1..requests' /\ 0..requests \subseteq 0..requests'
      /\ \A m \in Requests : m > requests' => m > requests
      /\ 0 \in 0..requests'
  BY <1>1, Sizes DEF IInv, CallsOK, Requests
<1>3. new \in Kinds /\ new.type = type /\ new.topic = topic
  BY DEF Kinds
<1> HIDE DEF n, new
<1>4. /\ req' \in [Requests -> Kinds] /\ req'[n] = new
      /\ heap' \in [Requests -> {"none", "live", "freed"}] /\ heap'[n] = "live"
      /\ \A m \in Requests \ {n} : req'[m] = req[m] /\ heap'[m] = heap[m]
      /\ \A m \in 1..requests : req'[m] = req[m]
  BY <1>1, <1>2, <1>3, MadeAreRequests DEF IInv, CallsOK, TablesOK
<1>5. /\ cur' \in [Threads -> 0..MaxRequests] /\ cur'[t] = n
      /\ pc' \in [Threads -> {"idle", "lock", "send", "unsub", "copy"}]
      /\ pc'[t] = "lock"
      /\ \A u \in Threads \ {t} : cur'[u] = cur[u] /\ pc'[u] = pc[u]
  BY <1>1, <1>2 DEF IInv, CallsOK
<1>6. CallsOK'
  BY <1>1, <1>2, <1>4, <1>5 DEF IInv, CallsOK
<1>7. TablesOK'
  <2>1. /\ topic_filter \in [Slots -> 0..requests'] /\ handle \in [Slots -> 0..requests']
        /\ list \subseteq 1..requests' /\ lost \subseteq 1..requests'
    BY <1>2 DEF IInv, TablesOK
  <2> QED BY <1>1, <1>4, <2>1 DEF IInv, TablesOK
<1>8. LinesOK'
  <2>1. ptr' \in 0..requests'
    BY <1>2, Sizes DEF IInv, LinesOK
  <2> QED BY <1>1, <2>1 DEF IInv, LinesOK
<1>9. FlagsOK'
  <2>1. used_freed' \subseteq Requests
    BY Zenon DEF IInv, FlagsOK
  <2> QED BY <2>1, Zenon DEF IInv, FlagsOK, nodeVars
<1>10. CallFits'
  <2>1. \A u \in Threads : InCall(u)' =>
          /\ cur'[u] \in 1..requests' /\ node_state[cur'[u]] = "NORMAL"
          /\ cur'[u] \notin Elems(to_server) /\ cur'[u] \notin Named(to_client)
    <3>1. node_state[n] = "NORMAL" /\ n \notin Elems(to_server) /\ n \notin Named(to_client)
      BY <1>2 DEF IInv, EntryFits, ChannelFits
    <3>2. ASSUME NEW u \in Threads \ {t}, InCall(u)'
          PROVE  /\ cur[u] \in 1..requests /\ node_state[cur[u]] = "NORMAL"
                 /\ cur[u] \notin Elems(to_server) /\ cur[u] \notin Named(to_client)
      BY <1>5, <3>2 DEF IInv, CallFits, InCall
    <3> QED BY <1>2, <1>5, <3>1, <3>2
  <2>2. \A u \in Threads : pc'[u] = "lock" => cur'[u] \notin list
    BY <1>2, <1>5 DEF IInv, CallFits, TablesOK
  <2>3. \A u \in Threads : pc'[u] = "send" => cur'[u] \in list \cup late
    BY <1>5 DEF IInv, CallFits
  <2>4. ASSUME NEW u \in Threads, NEW v \in Threads, InCall(u)', InCall(v)',
               cur'[u] = cur'[v]
        PROVE  u = v
    <3>1. ASSUME NEW w \in Threads \ {t}, InCall(w)' PROVE cur'[w] # n /\ InCall(w)
      BY <1>2, <1>5, <3>1 DEF IInv, CallFits, InCall
    <3> QED BY <1>5, <2>4, <3>1 DEF IInv, CallFits
  <2>5. /\ \A u \in Threads : pc'[u] = "copy" => u = Yielder
        /\ pc'[Yielder] # "unsub"
    BY <1>5, YielderIn DEF IInv, CallFits
  <2> QED BY <1>1, <2>1, <2>2, <2>3, <2>4, <2>5 DEF CallFits
<1>11. SendFits'
  <2>1. \A u \in Threads : pc'[u] = "send" => pc[u] = "send" /\ cur'[u] = cur[u]
    BY <1>5
  <2>2. UNCHANGED <<expired, list, late>>
    BY DEF nodeVars
  <2> QED BY <2>1, <2>2, Zenon DEF IInv, SendFits
<1>12. ChannelFits'
  BY <1>1, <1>2, <1>4 DEF IInv, ChannelFits
<1>13. LinkFits'
  BY Zenon DEF IInv, LinkFits, connVars
<1>14. \A i \in Slots : topic_filter[i] # NULL =>
         topic_filter[i] \in 1..requests /\ req'[topic_filter[i]] = req[topic_filter[i]]
  BY <1>2, <1>4, MadeAreRequests DEF IInv, TablesOK
<1>15. EntryFits'
  <2>1. EntriesDistinct'
    BY <1>1, <1>14 DEF IInv, EntryFits, EntriesDistinct
  <2> QED BY <1>1, <1>2, <2>1 DEF IInv, EntryFits
<1>16. EventFits'
  <2>1. events[n] = {}
    BY <1>2 DEF IInv, EntryFits
  <2>2. OneOutcome'
    BY <1>1, <1>4, <2>1 DEF IInv, EventFits, OneOutcome
  <2> QED BY <1>1, <1>5, <2>1, <2>2 DEF IInv, EventFits
<1>17. HeapFits'
  <2>1. ASSUME HeapIsOwned PROVE HeapIsOwned'
    <3> SUFFICES ASSUME NEW m \in Requests
                 PROVE  heap'[m] = "live" <=> Owned(m)'
      BY DEF HeapIsOwned
    <3>1. CASE m = n
      BY <1>4, <1>5, <3>1 DEF Owned, Calling
    <3>2. CASE m # n
      <4>1. Calling(m)' <=> Calling(m)
        BY <1>5, <3>2 DEF Calling, InCall
      <4>2. Owned(m)' <=> Owned(m)
        BY <1>1, <4>1 DEF Owned, Waiting, Entered
      <4> QED BY <1>4, <2>1, <3>2, <4>2 DEF HeapIsOwned
    <3> QED BY <3>1, <3>2
  <2>2. used_freed' \subseteq late' \cup raced'
    BY <1>1
  <2> QED BY <2>1, <2>2, HeapStep DEF IInv
<1>18. ResubFits'
  <2>1. CASE t = Yielder
    BY <1>1, <1>3, <1>4, <1>5, <2>1 DEF IInv, ResubFits, InCall
  <2>2. CASE t # Yielder
    <3>1. pc'[Yielder] = pc[Yielder] /\ cur'[Yielder] = cur[Yielder]
      BY <1>5, <2>2, YielderIn
    <3>2. InCall(Yielder) => cur[Yielder] \in 1..requests
      BY YielderIn DEF IInv, CallFits
    <3> QED BY <1>1, <1>2, <1>4, <2>2, <3>1, <3>2 DEF IInv, ResubFits, InCall
  <2> QED BY <2>1, <2>2
<1>19. AskFits'
  <2>1. ASSUME NEW k, AskedBefore(k) PROVE AskedBefore(k)'
    BY <1>1, <1>14, <2>1 DEF AskedBefore
  <2>2. ASSUME ~wild, AsksForEntry PROVE AsksForEntry'
    <3>1. HeapIsOwned
      BY Zenon DEF IInv, HeapFits, Defined
    <3> SUFFICES ASSUME InCall(Yielder)', topic_filter[itr] # NULL
                 PROVE  req'[cur'[Yielder]].topic = req'[topic_filter[itr]].topic
      BY <1>1 DEF AsksForEntry
    <3>2. CASE t = Yielder
      <4>1. itr \in Slots
        BY <3>2 DEF IInv, ResubFits
      <4> QED BY <1>3, <1>4, <1>5, <1>14, <3>1, <3>2, <4>1
    <3>3. CASE t # Yielder
      <4>1. pc'[Yielder] = pc[Yielder] /\ cur'[Yielder] = cur[Yielder]
        BY <1>5, <3>3, YielderIn
      <4>2. InCall(Yielder) /\ itr \in Slots /\ cur[Yielder] \in 1..requests
        BY <4>1, YielderIn DEF IInv, InCall, ResubFits, CallFits
      <4> QED BY <1>4, <1>14, <2>2, <4>1, <4>2 DEF AsksForEntry
    <3> QED BY <3>2, <3>3
  <2> QED BY <2>1, <2>2, AskStep DEF IInv
<1> QED BY <1>6, <1>7, <1>8, <1>9, <1>10, <1>11, <1>12, <1>13, <1>15, <1>16,
           <1>17, <1>18, <1>19 DEF IInv

LEMMA SubscribeIInv ==
    ASSUME IInv, NEW t \in Threads, NEW topic \in Topics, NEW handler \in Handlers,
           Subscribe(t, topic, handler)
    PROVE  IInv'
<1>1. /\ pc[t] = "idle" /\ t # Yielder /\ ptr' = ptr /\ arg' = arg
      /\ Allocate(t, "SUBSCRIBE", topic, handler)
  BY DEF Subscribe
<1>2. arg' \in [Threads -> Topics] /\ ~InCall(t)
  BY <1>1 DEF IInv, CallsOK, InCall
<1>3. used_freed' \subseteq raced
  BY Zenon DEF Subscribe, Defined
<1> QED BY <1>1, <1>2, <1>3, AllocateIInv DEF Subscribe

LEMMA UnsubscribeRequestIInv ==
    ASSUME IInv, NEW t \in Threads, UnsubscribeRequest(t)
    PROVE  IInv'
<1>1. /\ pc[t] = "unsub" /\ ptr' = ptr /\ arg' = [arg EXCEPT ![t] = NoTopic]
      /\ Allocate(t, "UNSUBSCRIBE", arg[t], NULL)
  BY DEF UnsubscribeRequest
<1>2. /\ arg' \in [Threads -> Topics] /\ arg[t] \in Topics
      /\ ~InCall(t) /\ t # Yielder
  BY <1>1, NoTopicIn DEF IInv, CallsOK, InCall, CallFits
<1>3. used_freed' \subseteq raced
  BY Zenon DEF UnsubscribeRequest, Defined
<1> QED BY <1>1, <1>2, <1>3, AllocateIInv DEF UnsubscribeRequest

LEMMA ResubscribeCopyIInv == IInv /\ ResubscribeCopy => IInv'
<1> SUFFICES ASSUME IInv, ResubscribeCopy PROVE IInv'
  OBVIOUS
<1>1. PICK topic \in (IF heap[ptr] = "live" THEN {req[ptr].topic} ELSE Topics) :
         Allocate(Yielder, "SUBSCRIBE", topic, req[handle[itr]].handler)
  BY DEF ResubscribeCopy
<1>2. /\ pc[Yielder] = "copy" /\ ptr' = NULL /\ arg' = arg /\ ~InCall(Yielder)
      /\ arg' \in [Threads -> Topics]
  BY DEF ResubscribeCopy, InCall, IInv, CallsOK
<1>3. /\ ptr \in 1..requests /\ handle[itr] \in 1..requests /\ itr \in Slots
      /\ ptr \in Requests /\ handle[itr] \in Requests
      /\ topic_filter[itr] # NULL => topic_filter[itr] = ptr
      /\ topic_filter[itr] = NULL => ptr \in raced
  BY <1>2, MadeAreRequests DEF IInv, CallsOK, ResubFits
<1>4. topic \in Topics /\ req[handle[itr]].handler \in Handlers \cup {NULL}
  BY <1>1, <1>3 DEF IInv, CallsOK, Kinds
<1>5. HeapIsOwned /\ topic_filter[itr] # NULL => topic = req[topic_filter[itr]].topic
  <2> SUFFICES ASSUME HeapIsOwned, topic_filter[itr] # NULL
               PROVE  topic = req[ptr].topic
    BY <1>3
  <2>1. heap[ptr] = "live"
    BY <1>3 DEF HeapIsOwned, Owned, Entered
  <2> QED BY <1>1, <2>1
<1>6. used_freed' \subseteq raced
  <2>1. used_freed = {} /\ HeapIsOwned
    BY Zenon DEF IInv, HeapFits, Defined, ResubscribeCopy
  <2>2. used_freed' = {f \in {ptr} : heap[f] # "live"}
    BY <2>1 DEF ResubscribeCopy
  <2>3. topic_filter[itr] # NULL => heap[ptr] = "live"
    BY <1>3, <2>1 DEF HeapIsOwned, Owned, Entered
  <2> QED BY <1>3, <2>2, <2>3
<1> QED BY <1>1, <1>2, <1>4, <1>5, <1>6, YielderIn, AllocateIInv DEF ResubscribeCopy

LEMMA PushIInv ==
    ASSUME IInv, NEW t \in Threads, Push(t)
    PROVE  IInv'
<1>1. /\ pc[t] = "lock" /\ lock_write_buf' = t /\ list' = list \cup {cur[t]}
      /\ pc' = [pc EXCEPT ![t] = "send"]
      /\ UNCHANGED <<arg, cur, requests, req, heap, node_state, topic_filter, handle>>
      /\ UNCHANGED <<ypc, itr, ptr, to_server, to_client, disconnects>>
      /\ UNCHANGED <<events, lost, asked, late, raced>>
  BY DEF Push, reqVars, slotVars, connVars
<1>2. /\ pc' \in [Threads -> {"idle", "lock", "send", "unsub", "copy"}]
      /\ pc'[t] = "send" /\ \A u \in Threads \ {t} : pc'[u] = pc[u]
      /\ \A u \in Threads : InCall(u)' <=> InCall(u)
  BY <1>1 DEF IInv, CallsOK, InCall
<1>3. /\ cur[t] \in 1..requests /\ cur[t] \notin list /\ node_state[cur[t]] = "NORMAL"
      /\ \A u \in Threads \ {t} : InCall(u) => cur[u] # cur[t]
  BY <1>1 DEF IInv, CallFits, InCall
<1>4. CallsOK' /\ TablesOK' /\ LinesOK'
  BY <1>1, <1>2, <1>3 DEF IInv, CallsOK, TablesOK, LinesOK
<1>5. FlagsOK'
  BY FlagsStay DEF IInv, Push
<1>6. CallFits'
  BY <1>1, <1>2, <1>3 DEF IInv, CallFits, InCall
<1>7. SendFits'
  <2>1. ASSUME NEW u \in Threads, pc'[u] = "send"
        PROVE  ~expired[cur[u]] \/ cur[u] \in late
    <3>1. CASE u = t
      <4>1. cur[t] \in Requests
        BY <1>3, MadeAreRequests DEF IInv, CallsOK
      <4> QED BY <1>3, <3>1, <4>1, Zenon DEF IInv, SendFits
    <3>2. CASE u # t
      <4>1. pc[u] = "send"
        BY <1>2, <2>1, <3>2
      <4> QED BY <4>1, Zenon DEF IInv, SendFits
    <3> QED BY <3>1, <3>2
  <2>2. UNCHANGED <<expired, cur, late>>
    BY DEF Push
  <2>3. \A n \in list : n \in list'
    BY <1>1
  <2> QED BY <2>1, <2>2, <2>3, Zenon DEF IInv, SendFits
<1>8. ChannelFits' /\ EntryFits'
  BY <1>1 DEF IInv, ChannelFits, EntryFits, EntriesDistinct
<1>9. LinkFits'
  BY Zenon DEF IInv, LinkFits, Push, connVars
<1>10. EventFits'
  <2>1. \A n \in Requests : "TIMEOUT" \in events[n] => n # cur[t]
    BY <1>1 DEF IInv, EventFits
  <2> QED BY <1>1, <1>2, <2>1 DEF IInv, EventFits, OneOutcome
<1>11. HeapFits'
  <2>1. ASSUME NEW n \in Requests PROVE Owned(n)' <=> Owned(n)
    <3>1. CASE n = cur[t]
      BY <1>1, <1>3, <3>1 DEF Owned, Calling, Waiting
    <3>2. CASE n # cur[t]
      <4>1. Calling(n)' <=> Calling(n)
        BY <1>1, <1>2, <3>2 DEF Calling
      <4> QED BY <1>1, <3>2, <4>1 DEF Owned, Waiting, Entered
    <3> QED BY <3>1, <3>2
  <2>2. HeapIsOwned => HeapIsOwned'
    BY <1>1, <2>1 DEF HeapIsOwned
  <2> QED BY <2>2, HeapStep DEF IInv, Push
<1>12. ResubFits'
  <2>1. pc'[Yielder] = pc[Yielder] \/ (pc[Yielder] = "lock" /\ pc'[Yielder] = "send")
    BY <1>1, <1>2, YielderIn
  <2> QED BY <1>1, <2>1 DEF IInv, ResubFits, InCall
<1>13. AskFits'
  <2>1. AsksForEntry => AsksForEntry'
    BY <1>1, <1>2, YielderIn DEF AsksForEntry
  <2>2. \A k : AskedBefore(k) => AskedBefore(k)'
    BY <1>1 DEF AskedBefore
  <2> QED BY <2>1, <2>2, AskStep DEF IInv, Push
<1> QED BY <1>4, <1>5, <1>6, <1>7, <1>8, <1>9, <1>10, <1>11, <1>12, <1>13 DEF IInv

\* Where the thread is after a call.
LEMMA ReturnDoes ==
    ASSUME CallsOK, NEW t \in Threads, NEW ok, Return(t, ok)
    PROVE  /\ pc' \in [Threads -> {"idle", "lock", "send", "unsub", "copy"}]
           /\ cur' \in [Threads -> 0..MaxRequests] /\ pc'[t] = "idle"
           /\ \A u \in Threads \ {t} : pc'[u] = pc[u] /\ cur'[u] = cur[u]
           /\ \A u \in Threads : pc'[u] # "idle" => u # t
           /\ t # Yielder => ypc' = ypc /\ itr' = itr
BY Sizes DEF Return, CallsOK

\* The end of a call that was waiting to push or to send, or had not begun:
\* it leaves the list, and no request is sent.
LEMMA ReturnFits ==
    ASSUME IInv, NEW t \in Threads, NEW ok, Return(t, ok),
           UNCHANGED <<requests, req, node_state, to_server, to_client, topic_filter>>,
           UNCHANGED <<handle, events, lost, late>>,
           \/ list' = list /\ pc[t] \in {"unsub", "copy"}
           \/ list' = list \ {cur[t]} /\ InCall(t)
    PROVE  CallFits' /\ EntryFits' /\ EventFits'
<1>1. /\ pc'[t] = "idle"
      /\ \A u \in Threads \ {t} : pc'[u] = pc[u] /\ cur'[u] = cur[u]
  BY ReturnDoes DEF IInv
<1>2. ASSUME NEW u \in Threads, pc'[u] # "idle"
      PROVE  u # t /\ pc'[u] = pc[u] /\ cur'[u] = cur[u] /\ (InCall(u)' <=> InCall(u))
  BY <1>1, <1>2 DEF InCall
<1>3. ASSUME NEW u \in Threads, pc'[u] = "send" PROVE cur[u] \in list' \cup late
  <2>1. cur[u] \in list \cup late /\ u # t /\ InCall(u)
    BY <1>2, <1>3 DEF IInv, CallFits, InCall
  <2> QED BY <2>1 DEF IInv, CallFits
<1>4. CallFits'
  <2>1. \A u \in Threads : InCall(u)' =>
          /\ u # t /\ InCall(u) /\ cur'[u] = cur[u]
          /\ cur[u] \in 1..requests /\ node_state[cur[u]] = "NORMAL"
          /\ cur[u] \notin Elems(to_server) /\ cur[u] \notin Named(to_client)
    <3> SUFFICES ASSUME NEW u \in Threads, InCall(u)'
                 PROVE  /\ u # t /\ InCall(u) /\ cur'[u] = cur[u]
                        /\ cur[u] \in 1..requests /\ node_state[cur[u]] = "NORMAL"
                        /\ cur[u] \notin Elems(to_server) /\ cur[u] \notin Named(to_client)
      OBVIOUS
    <3>1. pc'[u] # "idle"
      BY DEF InCall
    <3> QED BY <1>2, <3>1 DEF IInv, CallFits
  <2>2. \A u, v \in Threads : InCall(u)' /\ InCall(v)' /\ cur'[u] = cur'[v] => u = v
    BY <2>1 DEF IInv, CallFits
  <2>3. \A u \in Threads : pc'[u] = "lock" => cur'[u] \notin list'
    BY <1>2 DEF IInv, CallFits
  <2>4. \A u \in Threads : pc'[u] = "send" => cur'[u] \in list' \cup late
    BY <1>2, <1>3
  <2>5. /\ \A u \in Threads : pc'[u] = "copy" => u = Yielder
        /\ pc'[Yielder] # "unsub"
    BY <1>1, <1>2, YielderIn DEF IInv, CallFits
  <2> QED BY <2>1, <2>2, <2>3, <2>4, <2>5 DEF CallFits
<1>5. EntryFits'
  BY DEF IInv, EntryFits, EntriesDistinct
<1>6. EventFits'
  <2>1. \A n \in Requests, u \in Threads : pc'[u] = "lock" /\ cur'[u] = n =>
          pc[u] = "lock" /\ cur[u] = n
    BY <1>2
  <2>2. list' \subseteq list
    OBVIOUS
  <2> QED BY <2>1, <2>2 DEF IInv, EventFits, OneOutcome
<1> QED BY <1>4, <1>5, <1>6

\* Resubscribe after the end of a call that failed.
LEMMA ReturnAsks ==
    ASSUME IInv, NEW t \in Threads, Return(t, FALSE),
           UNCHANGED <<requests, req, topic_filter, handle, asked>>,
           t # Yielder => ptr' = ptr,
           UNCHANGED <<wild, is_connected, raced>>
    PROVE  ResubFits' /\ AskFits'
           /\ resub_failed' \in BOOLEAN
           /\ ypc' \in {ypc, "read"} /\ itr' = itr
<1>1. /\ pc'[t] = "idle"
      /\ \A u \in Threads \ {t} : pc'[u] = pc[u] /\ cur'[u] = cur[u]
      /\ t # Yielder => ypc' = ypc /\ itr' = itr
  BY ReturnDoes DEF IInv
<1>2. CASE t = Yielder
  <2>1. ypc' = "read" /\ resub_failed' = TRUE /\ itr' = itr
    BY <1>2 DEF Return
  <2>2. AskFits'
    BY <1>1, <1>2, <2>1, AskGivenUp
  <2>3. ResubFits'
    BY <1>1, <1>2 DEF ResubFits, InCall
  <2>4. resub_failed' \in BOOLEAN
    BY <2>1, Zenon
  <2> QED BY <2>1, <2>2, <2>3, <2>4
<1>3. CASE t # Yielder
  <2>1. /\ pc'[Yielder] = pc[Yielder] /\ cur'[Yielder] = cur[Yielder]
        /\ ypc' = ypc /\ itr' = itr /\ ptr' = ptr
    BY <1>1, <1>3, YielderIn
  <2>2. resub_failed' = resub_failed
    BY <1>3, Zenon DEF Return
  <2>3. ResubFits'
    BY <2>1 DEF IInv, ResubFits, InCall
  <2>4. AsksForEntry => AsksForEntry'
    BY <2>1 DEF AsksForEntry, InCall
  <2>5. \A k : AskedBefore(k) => AskedBefore(k)'
    BY DEF AskedBefore
  <2>6. AskFits'
    BY <2>1, <2>2, <2>4, <2>5, AskStep DEF IInv
  <2>7. resub_failed' \in BOOLEAN
    BY <2>2, Zenon DEF IInv, FlagsOK
  <2> QED BY <2>1, <2>3, <2>6, <2>7
<1> QED BY <1>2, <1>3

\* PushFails and SendFails: the filter is freed and the node, if there is
\* one, taken off the list.
LEMMA CallFailsIInv ==
    ASSUME IInv, Defined, NEW t \in Threads, InCall(t), Return(t, FALSE), Free({cur[t]}),
           list' = list \ {cur[t]}, lock_write_buf' \in Threads \cup {NoThread},
           expired' \in [Requests -> BOOLEAN],
           \A n \in Requests : expired'[n] => expired[n] /\ n # cur[t],
           UNCHANGED <<is_connected, arg, reqVars, node_state, slotVars, ptr,
                       connVars, disconnects, marks, events, lost, asked>>
    PROVE  IInv'
<1>1. /\ UNCHANGED <<requests, req, arg, node_state, topic_filter, handle, ptr>>
      /\ UNCHANGED <<to_server, to_client, disconnects, events, lost, asked>>
      /\ UNCHANGED <<late, raced>>
  BY DEF reqVars, slotVars, connVars
<1>2. /\ pc' \in [Threads -> {"idle", "lock", "send", "unsub", "copy"}]
      /\ cur' \in [Threads -> 0..MaxRequests] /\ pc'[t] = "idle"
      /\ \A u \in Threads \ {t} : pc'[u] = pc[u] /\ cur'[u] = cur[u]
  BY ReturnDoes DEF IInv
<1>3. /\ heap' \in [Requests -> {"none", "live", "freed"}]
      /\ \A n \in Requests : heap'[n] = IF n = cur[t] THEN "freed" ELSE heap[n]
      /\ used_freed' = used_freed \cup {n \in {cur[t]} \ {NULL} : heap[n] # "live"}
      /\ used_freed' \subseteq Requests
  <2>1. /\ heap \in [Requests -> {"none", "live", "freed"}] /\ FlagsOK
        /\ {cur[t]} \in SUBSET (0..MaxRequests)
    BY DEF IInv, TablesOK, CallsOK
  <2>2. /\ heap' \in [Requests -> {"none", "live", "freed"}]
        /\ \A n \in Requests : heap'[n] = IF n \in {cur[t]} THEN "freed" ELSE heap[n]
        /\ used_freed' = used_freed \cup {n \in {cur[t]} \ {NULL} : heap[n] # "live"}
        /\ used_freed' \subseteq Requests
    BY <2>1, FreeDoes
  <2> QED BY <2>2
<1>4. /\ cur[t] \in 1..requests /\ cur[t] \in Requests
      /\ node_state[cur[t]] = "NORMAL"
      /\ \A u \in Threads \ {t} : InCall(u) => cur[u] # cur[t]
      /\ pc[t] = "send" => cur[t] \in list \cup late
  BY MadeAreRequests DEF IInv, CallsOK, CallFits
<1>5. CallFits' /\ EntryFits' /\ EventFits'
  BY <1>1, ReturnFits
<1>6. /\ ResubFits' /\ AskFits' /\ resub_failed' \in BOOLEAN
      /\ ypc' \in {ypc, "read"} /\ itr' = itr
  BY <1>1, ReturnAsks
<1>7. CallsOK' /\ TablesOK' /\ LinesOK'
  <2>1. CallsOK'
    BY <1>1, <1>2 DEF IInv, CallsOK
  <2>2. TablesOK'
    BY <1>1, <1>2, <1>3 DEF IInv, TablesOK
  <2>3. LinesOK'
    BY <1>1, <1>2, <1>6 DEF IInv, LinesOK
  <2> QED BY <2>1, <2>2, <2>3
<1>8. FlagsOK'
  BY <1>3, <1>6, Zenon DEF IInv, FlagsOK
<1>9. ChannelFits'
  BY <1>1 DEF IInv, ChannelFits
<1>10. LinkFits'
  <2>1. ypc = "read" => ypc' = "read"
    BY <1>6
  <2> QED BY <2>1, Zenon DEF IInv, LinkFits, connVars
<1>11. SendFits'
  <2>1. \A u \in Threads : pc'[u] = "send" => pc[u] = "send" /\ cur'[u] = cur[u]
    BY <1>2
  <2>2. \A n \in Requests : expired'[n] => n \in list'
    BY Zenon DEF IInv, SendFits
  <2>3. \A u \in Threads : pc'[u] = "send" => cur[u] \in Requests
    BY <2>1, MadeAreRequests DEF IInv, CallsOK, CallFits, InCall
  <2> QED BY <1>1, <2>1, <2>2, <2>3, Zenon DEF IInv, SendFits
<1>12. HeapFits'
  <2>1. cur[t] # NULL /\ cur[t] \notin lost /\ ~Entered(cur[t])
    BY <1>4, MadeAreRequests, Sizes DEF IInv, CallsOK, EntryFits, Entered
  <2>2. ASSUME NEW n \in Requests, n = cur[t] PROVE ~Owned(n)'
    <3>1. ~Calling(n)'
      BY <1>2, <1>4, <2>2 DEF Calling, InCall
    <3> QED BY <1>1, <2>1, <2>2, <3>1 DEF Owned, Waiting, Entered
  <2>3. ASSUME NEW n \in Requests, n # cur[t] PROVE Owned(n)' <=> Owned(n)
    <3>1. Calling(n)' <=> Calling(n)
      BY <1>2, <2>3 DEF Calling
    <3> QED BY <1>1, <2>3, <3>1 DEF Owned, Waiting, Entered
  <2>4. HeapIsOwned => HeapIsOwned'
    BY <1>3, <1>4, <2>2, <2>3 DEF HeapIsOwned
  <2>5. CASE cur[t] \in late
    <3>1. used_freed = {}
      BY Zenon DEF Defined
    <3>2. used_freed' \subseteq late' \cup raced'
      BY <1>1, <1>3, <2>5, <3>1
    <3> QED BY <2>4, <3>2, HeapStep DEF IInv
  <2>6. CASE cur[t] \notin late
    <3>1. Owned(cur[t])
      BY <1>4, <2>6 DEF Owned, Calling, Waiting, InCall
    <3>2. HeapIsOwned => \A n \in {cur[t]} \ {NULL} : heap[n] = "live"
      BY <1>4, <3>1 DEF HeapIsOwned
    <3> QED BY <1>3, <2>4, <3>2, HeapStep DEF IInv
  <2> QED BY <2>5, <2>6
<1> QED BY <1>5, <1>6, <1>7, <1>8, <1>9, <1>10, <1>11, <1>12 DEF IInv

LEMMA PushFailsIInv ==
    ASSUME IInv, NEW t \in Threads, PushFails(t)
    PROVE  IInv'
<1>1. InCall(t) /\ list' = list \ {cur[t]}
  BY DEF PushFails, nodeVars, InCall, IInv, CallFits
<1>2. lock_write_buf' \in Threads \cup {NoThread}
  BY DEF PushFails, IInv, CallsOK
<1>3. /\ Defined /\ expired' \in [Requests -> BOOLEAN]
      /\ \A n \in Requests : expired'[n] => expired[n] /\ n # cur[t]
  <2>1. cur[t] \notin list
    BY DEF PushFails, IInv, CallFits
  <2> QED BY <2>1, Zenon DEF PushFails, nodeVars, IInv, SendFits, FlagsOK
<1> QED BY <1>1, <1>2, <1>3, CallFailsIInv DEF PushFails, nodeVars

LEMMA SendFailsIInv ==
    ASSUME IInv, NEW t \in Threads, SendFails(t)
    PROVE  IInv'
<1>1. InCall(t) /\ lock_write_buf' \in Threads \cup {NoThread}
  BY DEF SendFails, InCall
<1>2. Defined /\ expired' = [expired EXCEPT ![cur[t]] = FALSE]
  BY Zenon DEF SendFails
<1>3. cur[t] \in Requests
  BY <1>1, MadeAreRequests DEF IInv, CallsOK, CallFits
<1>4. expired \in [Requests -> BOOLEAN]
  BY Zenon DEF IInv, FlagsOK
<1>5. /\ expired' \in [Requests -> BOOLEAN]
      /\ \A n \in Requests : expired'[n] => expired[n] /\ n # cur[t]
  BY <1>2, <1>3, <1>4, Zenon
<1> QED BY <1>1, <1>2, <1>5, CallFailsIInv DEF SendFails

\* UnsubscribeFails and ResubscribeFails: there is no request yet.
LEMMA NoRequestIInv ==
    ASSUME IInv, Defined, NEW t \in Threads, pc[t] \in {"unsub", "copy"}, Return(t, FALSE),
           arg' \in [Threads -> Topics], ptr' \in 0..requests, t # Yielder => ptr' = ptr,
           UNCHANGED <<is_connected, lock_write_buf, reqVars, heap, nodeVars,
                       slotVars, connVars, disconnects, marks, events, lost,
                       used_freed, asked>>
    PROVE  IInv'
<1>1. /\ UNCHANGED <<requests, req, heap, list, node_state, topic_filter, handle>>
      /\ UNCHANGED <<to_server, to_client, disconnects, events, lost, asked>>
      /\ UNCHANGED <<lock_write_buf, late, raced>>
  BY DEF reqVars, slotVars, connVars, nodeVars
<1>2. /\ pc' \in [Threads -> {"idle", "lock", "send", "unsub", "copy"}]
      /\ cur' \in [Threads -> 0..MaxRequests] /\ pc'[t] = "idle"
      /\ \A u \in Threads \ {t} : pc'[u] = pc[u] /\ cur'[u] = cur[u]
  BY ReturnDoes DEF IInv
<1>3. CallFits' /\ EntryFits' /\ EventFits'
  BY <1>1, ReturnFits
<1>4. /\ ResubFits' /\ AskFits' /\ resub_failed' \in BOOLEAN
      /\ ypc' \in {ypc, "read"} /\ itr' = itr
  BY <1>1, ReturnAsks
<1>5. CallsOK' /\ TablesOK' /\ LinesOK'
  BY <1>1, <1>2, <1>4 DEF IInv, CallsOK, TablesOK, LinesOK
<1>6. FlagsOK'
  BY <1>4, Zenon DEF IInv, FlagsOK, nodeVars
<1>7. ChannelFits'
  BY <1>1 DEF IInv, ChannelFits
<1>8. LinkFits'
  <2>1. ypc = "read" => ypc' = "read"
    BY <1>4
  <2> QED BY <2>1, Zenon DEF IInv, LinkFits, connVars
<1>9. SendFits'
  <2>1. \A u \in Threads : pc'[u] = "send" => pc[u] = "send" /\ cur'[u] = cur[u]
    BY <1>2
  <2> QED BY <2>1, Zenon DEF IInv, SendFits, nodeVars
<1>10. HeapFits'
  <2>1. ASSUME NEW n \in Requests PROVE Owned(n)' <=> Owned(n)
    <3>1. Calling(n)' <=> Calling(n)
      BY <1>2 DEF Calling
    <3> QED BY <1>1, <3>1 DEF Owned, Waiting, Entered
  <2>2. HeapIsOwned => HeapIsOwned'
    BY <1>1, <2>1 DEF HeapIsOwned
  <2> QED BY <2>2, HeapStep DEF IInv
<1> QED BY <1>3, <1>4, <1>5, <1>6, <1>7, <1>8, <1>9, <1>10 DEF IInv

LEMMA UnsubscribeFailsIInv ==
    ASSUME IInv, NEW t \in Threads, UnsubscribeFails(t)
    PROVE  IInv'
<1>1. arg' \in [Threads -> Topics] /\ ptr' = ptr /\ ptr' \in 0..requests
  BY NoTopicIn DEF UnsubscribeFails, IInv, CallsOK, LinesOK
<1> QED BY <1>1, NoRequestIInv DEF UnsubscribeFails

LEMMA ResubscribeFailsIInv == IInv /\ ResubscribeFails => IInv'
<1> SUFFICES ASSUME IInv, ResubscribeFails PROVE IInv'
  OBVIOUS
<1>1. arg' \in [Threads -> Topics] /\ ptr' \in 0..requests
  BY Sizes DEF ResubscribeFails, IInv, CallsOK
<1> QED BY <1>1, YielderIn, NoRequestIInv DEF ResubscribeFails

LEMMA SendIInv ==
    ASSUME IInv, NEW t \in Threads, Send(t)
    PROVE  IInv'
<1> DEFINE n == cur[t]
<1>1. /\ pc[t] = "send" /\ Return(t, TRUE) /\ lock_write_buf' = NoThread
      /\ UNCHANGED <<late, raced>>
      /\ UNCHANGED <<requests, req, arg, node_state, topic_filter, handle, ptr, heap>>
      /\ UNCHANGED <<list, to_client, disconnects, events, lost>>
  BY DEF Send, reqVars, slotVars, nodeVars
<1>2. \/ is_connected /\ to_server' = Append(to_server, n)
         /\ asked' = IF req[n].type = "SUBSCRIBE" THEN asked \cup {req[n].topic} ELSE asked
      \/ ~is_connected /\ to_server' = to_server /\ asked' = asked
  BY Zenon DEF Send
<1>3. \/ to_server' = Append(to_server, n)
         /\ asked' = IF req[n].type = "SUBSCRIBE" THEN asked \cup {req[n].topic} ELSE asked
      \/ to_server' = to_server /\ asked' = asked
  BY <1>2, Zenon
<1>4. /\ pc' \in [Threads -> {"idle", "lock", "send", "unsub", "copy"}]
      /\ cur' \in [Threads -> 0..MaxRequests] /\ pc'[t] = "idle"
      /\ \A u \in Threads \ {t} : pc'[u] = pc[u] /\ cur'[u] = cur[u]
      /\ \A u \in Threads : pc'[u] # "idle" => u # t
      /\ t # Yielder => ypc' = ypc /\ itr' = itr
  BY <1>1, ReturnDoes DEF IInv
<1>5. /\ n \in 1..requests /\ n \in Requests /\ node_state[n] = "NORMAL"
      /\ n \notin Elems(to_server) /\ n \notin Named(to_client)
      /\ \A u \in Threads \ {t} : InCall(u) => cur[u] # n
      /\ req[n] \in Kinds
  BY <1>1, MadeAreRequests DEF IInv, CallsOK, CallFits, InCall
<1>6. /\ to_server' \in Seq(Requests) /\ Distinct(to_server')
      /\ \A m \in Elems(to_server) : m \in Elems(to_server')
      /\ \A m \in Elems(to_server') : m \in Elems(to_server) \/ m = n
  <2>1. to_server \in Seq(Requests) /\ Distinct(to_server)
    BY DEF IInv, LinesOK, ChannelFits
  <2> HIDE DEF n
  <2>2. CASE to_server' = to_server
    BY <2>1, <2>2
  <2>3. CASE to_server' = Append(to_server, n)
    BY <1>5, <2>1, <2>3, AddRequest
  <2> QED BY <1>3, <2>2, <2>3
<1>7. /\ asked \subseteq asked' /\ asked' \subseteq Topics
      /\ n \in Elems(to_server') /\ req[n].type = "SUBSCRIBE" => req[n].topic \in asked'
  <2>1. asked \subseteq Topics /\ req[n].topic \in Topics
    BY <1>5 DEF IInv, LinesOK, Kinds
  <2> HIDE DEF n
  <2> QED BY <1>3, <1>5, <2>1
<1>8. t = Yielder => /\ ypc' = ypc /\ itr' = itr + 1 /\ ypc = "resub" /\ itr \in Slots
                     /\ req[n].type = "SUBSCRIBE" /\ InCall(Yielder)
  BY <1>1 DEF Return, IInv, ResubFits, InCall
<1>9. UNCHANGED <<is_connected, expired, used_freed, marks, resub_failed>>
  BY <1>1, Zenon DEF Send, nodeVars, Return
<1> HIDE DEF n
<1>10. CallsOK' /\ TablesOK'
  BY <1>1, <1>4 DEF IInv, CallsOK, TablesOK
<1>11. LinesOK'
  <2>1. itr' \in 1..(MAX_MESSAGE_HANDLERS + 1) /\ ypc' = ypc
    BY <1>4, <1>8, Sizes DEF IInv, LinesOK, Slots
  <2> QED BY <1>1, <1>6, <1>7, <2>1 DEF IInv, LinesOK
<1>12. FlagsOK'
  BY <1>9, FlagsStay DEF IInv
<1>13. CallFits'
  <2>1. ASSUME NEW u \in Threads, pc'[u] # "idle"
        PROVE  u # t /\ pc'[u] = pc[u] /\ cur'[u] = cur[u] /\ (InCall(u)' <=> InCall(u))
    BY <1>4, <2>1 DEF InCall
  <2>2. ASSUME NEW u \in Threads, InCall(u)'
        PROVE  /\ u # t /\ InCall(u) /\ cur'[u] = cur[u]
               /\ cur[u] \in 1..requests /\ node_state[cur[u]] = "NORMAL"
               /\ cur[u] \notin Elems(to_server') /\ cur[u] \notin Named(to_client)
    <3>1. pc'[u] # "idle"
      BY <2>2 DEF InCall
    <3> QED BY <1>5, <1>6, <2>1, <2>2, <3>1 DEF IInv, CallFits
  <2>3. \A u, v \in Threads : InCall(u)' /\ InCall(v)' /\ cur'[u] = cur'[v] => u = v
    BY <2>2 DEF IInv, CallFits
  <2>4. \A u \in Threads : /\ pc'[u] = "lock" => cur'[u] \notin list
                           /\ pc'[u] = "send" => cur'[u] \in list \cup late
                           /\ pc'[u] = "copy" => u = Yielder
    BY <2>1 DEF IInv, CallFits
  <2>5. pc'[Yielder] # "unsub"
    BY <1>4, YielderIn DEF IInv, CallFits
  <2> QED BY <1>1, <2>2, <2>3, <2>4, <2>5 DEF CallFits
<1>14. SendFits'
  <2>1. \A u \in Threads : pc'[u] = "send" => pc[u] = "send" /\ cur'[u] = cur[u]
    BY <1>4
  <2> QED BY <1>1, <1>9, <2>1, Zenon DEF IInv, SendFits
<1>15. ChannelFits'
  BY <1>1, <1>5, <1>6, <1>7 DEF IInv, ChannelFits
<1>16. LinkFits'
  <2>1. ypc' = ypc
    BY <1>4, <1>8
  <2> QED BY <1>1, <1>2, <1>9, <2>1, Zenon DEF IInv, LinkFits
<1>17. EntryFits'
  BY <1>1 DEF IInv, EntryFits, EntriesDistinct
<1>18. EventFits'
  <2>1. \A m \in Requests, u \in Threads : pc'[u] = "lock" /\ cur'[u] = m =>
          pc[u] = "lock" /\ cur[u] = m
    BY <1>4
  <2> QED BY <1>1, <2>1 DEF IInv, EventFits, OneOutcome
<1>19. HeapFits'
  <2>1. ASSUME NEW m \in Requests PROVE Owned(m)' <=> Owned(m)
    <3>1. Calling(m)' <=> Calling(m)
      BY <1>1, <1>4 DEF Calling
    <3> QED BY <1>1, <3>1 DEF Owned, Waiting, Entered
  <2>2. HeapIsOwned => HeapIsOwned'
    BY <1>1, <2>1 DEF HeapIsOwned
  <2>3. Defined
    BY DEF Send
  <2> QED BY <1>9, <2>2, <2>3, HeapStep DEF IInv
<1>20. \A k : AskedBefore(k) => AskedBefore(k)'
  BY <1>1, <1>7 DEF AskedBefore
<1>21. ResubFits' /\ AskFits'
  <2>1. CASE t = Yielder
    <3>1. ResubFits' /\ AsksForEntry'
      BY <1>4, <2>1 DEF ResubFits, AsksForEntry, InCall
    <3>2. ASSUME ~wild PROVE AskedBefore(itr)'
      <4>1. AskedBefore(itr) /\ AsksForEntry
        BY <1>8, <2>1, <3>2, Zenon DEF IInv, AskFits
      <4>2. to_server' = Append(to_server, n)
        <5>1. is_connected
          <6>1. ypc # "read"
            BY <1>8, <2>1
          <6> QED BY <6>1, Zenon DEF IInv, LinkFits
        <5> QED BY <1>2, <5>1, Zenon
      <4>3. n \in Elems(to_server')
        <5>1. to_server \in Seq(Requests)
          BY DEF IInv, LinesOK
        <5> QED BY <1>5, <4>2, <5>1, AddRequest
      <4>4. req[n].topic \in asked'
        BY <1>7, <1>8, <2>1, <4>3
      <4>5. topic_filter[itr] # NULL => req[topic_filter[itr]].topic \in asked'
        BY <1>8, <2>1, <4>1, <4>4 DEF AsksForEntry, n
      <4>6. ASSUME NEW i \in Slots, i < itr', topic_filter[i] # NULL
            PROVE  req[topic_filter[i]].topic \in asked'
        <5>1. i < itr \/ i = itr
          BY <1>8, <2>1, <4>6, Sizes DEF Slots
        <5> QED BY <1>7, <4>1, <4>5, <4>6, <5>1 DEF AskedBefore
      <4> QED BY <1>1, <4>6 DEF AskedBefore
    <3>3. ypc' = "resub"
      BY <1>8, <2>1
    <3> QED BY <1>9, <3>1, <3>2, <3>3, Zenon DEF AskFits
  <2>2. CASE t # Yielder
    <3>1. /\ pc'[Yielder] = pc[Yielder] /\ cur'[Yielder] = cur[Yielder]
          /\ ypc' = ypc /\ itr' = itr
      BY <1>4, <2>2, YielderIn
    <3>2. ResubFits'
      BY <1>1, <3>1 DEF IInv, ResubFits, InCall
    <3>3. AsksForEntry => AsksForEntry'
      BY <1>1, <3>1 DEF AsksForEntry, InCall
    <3> QED BY <1>9, <1>20, <3>1, <3>2, <3>3, AskStep DEF IInv
  <2> QED BY <2>1, <2>2
<1> QED BY <1>10, <1>11, <1>12, <1>13, <1>14, <1>15, <1>16, <1>17, <1>18,
           <1>19, <1>21 DEF IInv

LEMMA UnsubscribeIInv ==
    ASSUME IInv, NEW t \in Threads, NEW topic \in Topics, Unsubscribe(t, topic)
    PROVE  IInv'
<1> DEFINE M == Matches(topic)
           F == {topic_filter[i] : i \in M}
           H == {handle[i] : i \in M}
<1>1. /\ pc[t] = "idle" /\ t # Yielder /\ Raise(H, "UNSUBSCRIBE") /\ Free(F)
      /\ topic_filter' = [i \in Slots |-> IF i \in M THEN NULL ELSE topic_filter[i]]
      /\ arg' = [arg EXCEPT ![t] = topic] /\ pc' = [pc EXCEPT ![t] = "unsub"]
      /\ UNCHANGED <<lock_write_buf, cur, requests, req, list, node_state, handle>>
      /\ UNCHANGED <<ypc, itr, ptr, to_server, to_client, disconnects>>
      /\ UNCHANGED <<lost, asked, late>>
      /\ raced' = raced \cup {f \in {ptr} \ {NULL} : \E i \in M : topic_filter[i] = f}
  BY DEF Unsubscribe, reqVars, nodeVars, connVars
<1>2. M \subseteq Slots
  BY DEF Matches
<1>3. /\ topic_filter' \in [Slots -> 0..requests]
      /\ \A i \in Slots : topic_filter'[i] = IF i \in M THEN NULL ELSE topic_filter[i]
      /\ \A i \in Slots : topic_filter'[i] # NULL => topic_filter'[i] = topic_filter[i]
  BY <1>1, Sizes DEF IInv, TablesOK, CallsOK
<1>4. \A m : m \in F <=> \E i \in M : topic_filter[i] = m
  OBVIOUS
<1>5. /\ events' \in [Requests -> SUBSET Reports]
      /\ \A m \in Requests : \A e : e \in events'[m] => e \in events[m] \/ e = "UNSUBSCRIBE"
      /\ \A m \in Requests : m > requests => events'[m] = events[m]
  <2>1. events' = [m \in Requests |-> IF m \in H THEN events[m] \cup {"UNSUBSCRIBE"}
                                                 ELSE events[m]]
    BY <1>1 DEF Raise
  <2>2. events \in [Requests -> SUBSET Reports] /\ "UNSUBSCRIBE" \in Reports
    BY DEF IInv, TablesOK, Reports
  <2>3. \A m \in H : ~(m > requests)
    <3>1. \A m \in 0..requests : ~(m > requests)
      BY Sizes DEF IInv, CallsOK
    <3> QED BY <1>2, <3>1 DEF IInv, TablesOK
  <2> HIDE DEF H, Reports
  <2> QED BY <2>1, <2>2, <2>3
<1>6. /\ heap' \in [Requests -> {"none", "live", "freed"}]
      /\ \A m \in Requests : heap'[m] = IF m \in F THEN "freed" ELSE heap[m]
      /\ used_freed' = used_freed \cup {m \in F \ {NULL} : heap[m] # "live"}
      /\ used_freed' \subseteq Requests
  <2>1. heap \in [Requests -> {"none", "live", "freed"}] /\ FlagsOK
    BY DEF IInv, TablesOK
  <2>2. F \in SUBSET (0..MaxRequests)
    <3>1. \A i \in 0..requests : i \in 0..MaxRequests
      BY Sizes DEF IInv, CallsOK
    <3> QED BY <1>2, <3>1 DEF IInv, TablesOK
  <2> HIDE DEF F
  <2> QED BY <1>1, <2>1, <2>2, FreeDoes
<1> HIDE DEF M, F, H
<1>7. /\ pc' \in [Threads -> {"idle", "lock", "send", "unsub", "copy"}]
      /\ pc'[t] = "unsub" /\ arg' \in [Threads -> Topics]
      /\ \A u \in Threads \ {t} : pc'[u] = pc[u]
      /\ \A u \in Threads : InCall(u)' <=> InCall(u)
      /\ \A u \in Threads : /\ pc'[u] = "lock" <=> pc[u] = "lock"
                            /\ pc'[u] = "send" <=> pc[u] = "send"
                            /\ pc'[u] = "copy" <=> pc[u] = "copy"
  BY <1>1 DEF IInv, CallsOK, InCall
<1>8. CallsOK' /\ TablesOK' /\ LinesOK'
  BY <1>1, <1>3, <1>5, <1>6, <1>7 DEF IInv, CallsOK, TablesOK, LinesOK
<1>9. FlagsOK'
  <2>1. raced' \subseteq Requests
    <3>1. raced \subseteq Requests
      BY Zenon DEF IInv, FlagsOK
    <3>2. ptr # NULL => ptr \in Requests
      BY MadeAreRequests DEF IInv, LinesOK, CallsOK
    <3> QED BY <1>1, <3>1, <3>2
  <2> QED BY <1>6, <2>1, Zenon DEF IInv, FlagsOK, Unsubscribe, nodeVars
<1>10. CallFits'
  BY <1>1, <1>7, YielderIn DEF IInv, CallFits
<1>11. SendFits'
  BY <1>7, Zenon DEF IInv, SendFits, Unsubscribe, nodeVars
<1>12. ChannelFits'
  BY <1>1 DEF IInv, ChannelFits
<1>13. LinkFits'
  BY Zenon DEF IInv, LinkFits, Unsubscribe, connVars
<1>14. EntryFits'
  <2>1. EntriesDistinct'
    BY <1>1, <1>3 DEF IInv, EntryFits, EntriesDistinct
  <2>2. \A m \in Requests : m > requests => events'[m] = {}
    BY <1>5 DEF IInv, EntryFits
  <2> QED BY <1>1, <1>3, <2>1, <2>2 DEF IInv, EntryFits
<1>15. EventFits'
  <2>1. \A m \in Requests : /\ "TIMEOUT" \in events'[m] => "TIMEOUT" \in events[m]
                            /\ "SUBCRIBE_SUCCESS" \in events'[m] =>
                                 "SUBCRIBE_SUCCESS" \in events[m]
    BY <1>5
  <2> QED BY <1>1, <1>7, <2>1 DEF IInv, EventFits, OneOutcome
<1>16. HeapFits'
  <2>1. ASSUME NEW m \in Requests, m \in F
        PROVE  Entered(m) /\ ~Owned(m)'
    <3>1. PICK i \in M : topic_filter[i] = m
      BY <1>4, <2>1
    <3>2. i \in Slots /\ m # NULL
      BY <1>2, Sizes
    <3>3. node_state[m] = "INVALID" /\ m \notin lost
      BY <3>1, <3>2 DEF IInv, EntryFits
    <3>4. ~Calling(m)'
      BY <1>1, <1>7, <3>3 DEF IInv, CallFits, InCall, Calling
    <3>5. ASSUME NEW j \in Slots, topic_filter'[j] = m PROVE FALSE
      <4>1. topic_filter[j] = m /\ j \notin M
        BY <1>3, <3>2, <3>5
      <4> QED BY <3>1, <3>2, <4>1 DEF IInv, EntryFits, EntriesDistinct
    <3> QED BY <1>1, <3>1, <3>2, <3>3, <3>4, <3>5 DEF Owned, Waiting, Entered
  <2>2. ASSUME NEW m \in Requests, m \notin F PROVE Owned(m)' <=> Owned(m)
    <3>1. Calling(m)' <=> Calling(m)
      BY <1>1, <1>7 DEF Calling
    <3>2. Entered(m)' <=> Entered(m)
      BY <1>3, <1>4, <2>2, Sizes DEF Entered
    <3> QED BY <1>1, <3>1, <3>2 DEF Owned, Waiting
  <2>3. HeapIsOwned => HeapIsOwned'
    BY <1>6, <2>1, <2>2 DEF HeapIsOwned
  <2>4. HeapIsOwned => \A m \in F \ {NULL} : heap[m] = "live"
    <3> SUFFICES ASSUME HeapIsOwned, NEW m \in F, m # NULL PROVE heap[m] = "live"
      OBVIOUS
    <3>1. m \in Requests
      BY <1>2, <1>4, MadeAreRequests DEF IInv, TablesOK, CallsOK
    <3> QED BY <2>1, <3>1 DEF HeapIsOwned, Owned
  <2>5. wild' = wild /\ Defined
    BY DEF Unsubscribe
  <2> QED BY <1>6, <2>3, <2>4, <2>5, HeapStep DEF IInv
<1>17. pc'[Yielder] = pc[Yielder]
  BY <1>1, <1>7, YielderIn
<1>18. ResubFits'
  <2>1. pc[Yielder] = "copy" /\ topic_filter'[itr] = NULL => ptr \in raced'
    <3> SUFFICES ASSUME pc[Yielder] = "copy", topic_filter'[itr] = NULL
                 PROVE  ptr \in raced'
      OBVIOUS
    <3>1. ptr # NULL /\ itr \in Slots
      BY MadeAreRequests DEF IInv, ResubFits, CallsOK
    <3>2. CASE topic_filter[itr] = NULL
      BY <1>1, <3>2 DEF IInv, ResubFits
    <3>3. CASE topic_filter[itr] # NULL
      <4>1. topic_filter[itr] = ptr /\ itr \in M
        BY <1>3, <3>1, <3>3 DEF IInv, ResubFits
      <4> QED BY <1>1, <3>1, <4>1
    <3> QED BY <3>2, <3>3
  <2> QED BY <1>1, <1>3, <1>17, <2>1 DEF IInv, ResubFits, InCall
<1>19. AskFits'
  <2>1. AsksForEntry => AsksForEntry'
    <3>1. InCall(Yielder) => itr \in Slots
      BY DEF IInv, ResubFits, InCall
    <3> QED BY <1>1, <1>3, <1>17, <3>1 DEF AsksForEntry, InCall
  <2>2. \A k : AskedBefore(k) => AskedBefore(k)'
    BY <1>1, <1>3 DEF AskedBefore
  <2> QED BY <2>1, <2>2, AskStep DEF IInv, Unsubscribe
<1> QED BY <1>8, <1>9, <1>10, <1>11, <1>12, <1>13, <1>14, <1>15, <1>16, <1>18,
           <1>19 DEF IInv

----------------------------------------------------------------------------
(* Acknowledgements and the sweep keep the invariant.                      *)

\* The first acknowledgement is taken and its node, if it is on the list,
\* invalidated: it will not be answered again.
LEMMA AckTaken ==
    ASSUME IInv, NEW n, n = Head(to_client).n, to_client # << >>, ypc = "read",
           to_client' = Tail(to_client), _mask_sub_info_from(n),
           UNCHANGED <<callVars, list, to_server, asked, late>>
    PROVE  /\ to_client' \in Seq(Acks) /\ n \in 1..requests /\ n \in Requests
           /\ node_state[n] = "NORMAL"
           /\ req[n].type = "SUBSCRIBE" => req[n].topic \in asked
           /\ node_state' \in [Requests -> {"NORMAL", "INVALID"}]
           /\ \A m \in Requests : m # n => node_state'[m] = node_state[m]
           /\ node_state'[n] = IF n \in list THEN "INVALID" ELSE "NORMAL"
           /\ \A t \in Threads : InCall(t) => cur[t] # n
           /\ pc[Yielder] \notin {"copy", "lock", "send"}
           /\ CallsOK' /\ CallFits' /\ ChannelFits'
<1>1. /\ to_client' \in Seq(Acks) /\ OneEach(to_client')
      /\ n \in Named(to_client) /\ n \notin Named(to_client')
      /\ \A m \in Named(to_client') : m \in Named(to_client)
  BY TakeAck DEF IInv, LinesOK, ChannelFits
<1>2. /\ n \in 1..requests /\ n \in Requests /\ node_state[n] = "NORMAL"
      /\ req[n].type = "SUBSCRIBE" => req[n].topic \in asked
      /\ n \notin Elems(to_server)
  BY <1>1, MadeAreRequests DEF IInv, CallsOK, ChannelFits
<1>3. /\ node_state' \in [Requests -> {"NORMAL", "INVALID"}]
      /\ \A m \in Requests : m # n => node_state'[m] = node_state[m]
      /\ node_state'[n] = IF n \in list THEN "INVALID" ELSE "NORMAL"
  BY <1>2 DEF _mask_sub_info_from, IInv, TablesOK
<1>4. \A t \in Threads : InCall(t) => cur[t] # n
  BY <1>1 DEF IInv, CallFits
<1>5. pc[Yielder] \notin {"copy", "lock", "send"}
  BY DEF IInv, ResubFits
<1>6. UNCHANGED <<lock_write_buf, pc, arg, cur, requests, req>>
  BY DEF callVars
<1>7. CallsOK'
  BY <1>6 DEF IInv, CallsOK
<1>8. \A m \in 1..requests : m # n => node_state'[m] = node_state[m]
  BY <1>3, MadeAreRequests DEF IInv, CallsOK
<1>9. CallFits'
  BY <1>1, <1>4, <1>6, <1>8 DEF IInv, CallFits, InCall
<1>10. ChannelFits'
  BY <1>1, <1>2, <1>6, <1>8 DEF IInv, ChannelFits
<1> QED BY <1>1, <1>2, <1>3, <1>4, <1>5, <1>7, <1>9, <1>10

\* Raising an event.
LEMMA RaiseDoes ==
    ASSUME NEW n \in Requests, NEW e \in Reports, Raise({n}, e),
           events \in [Requests -> SUBSET Reports]
    PROVE  /\ events' \in [Requests -> SUBSET Reports]
           /\ events'[n] = events[n] \cup {e}
           /\ \A m \in Requests : m # n => events'[m] = events[m]
<1>1. events' = [m \in Requests |-> IF m \in {n} THEN events[m] \cup {e} ELSE events[m]]
  BY DEF Raise
<1> HIDE DEF Reports
<1> QED BY <1>1

\* Freeing one filter.
LEMMA FreeOne ==
    ASSUME IInv, NEW n \in Requests, Free({n})
    PROVE  /\ heap' \in [Requests -> {"none", "live", "freed"}]
           /\ heap'[n] = "freed" /\ \A m \in Requests : m # n => heap'[m] = heap[m]
           /\ used_freed' = used_freed \cup {m \in {n} \ {NULL} : heap[m] # "live"}
           /\ used_freed' \subseteq Requests
<1>1. /\ heap \in [Requests -> {"none", "live", "freed"}] /\ FlagsOK
      /\ {n} \in SUBSET (0..MaxRequests)
  BY Sizes DEF IInv, TablesOK, Requests
<1>2. /\ heap' \in [Requests -> {"none", "live", "freed"}]
      /\ \A m \in Requests : heap'[m] = IF m \in {n} THEN "freed" ELSE heap[m]
      /\ used_freed' = used_freed \cup {m \in {n} \ {NULL} : heap[m] # "live"}
      /\ used_freed' \subseteq Requests
  BY <1>1, FreeDoes
<1> QED BY <1>2

\* The four ways a SUBACK is handled: without a node, with one whose filter
\* is freed, with one that becomes an entry, with one that finds no entry.
Late(n) ==
    /\ n \notin list /\ UNCHANGED <<heap, used_freed, slotVars, lost>>
    /\ UNCHANGED events \/ Raise({n}, "SUBCRIBE_NACK")
Freed(n) ==
    /\ n \in list /\ Free({n}) /\ UNCHANGED <<slotVars, lost>>
    /\ Raise({n}, "SUBCRIBE_SUCCESS") \/ Raise({n}, "SUBCRIBE_NACK")
Installed(n) ==
    /\ n \in list /\ FreeSlots # {} /\ UNCHANGED <<heap, used_freed, lost>>
    /\ ~\E i \in Slots : _check_handle_is_identical(i, n)
    /\ topic_filter' = [topic_filter EXCEPT ![FirstFree] = n]
    /\ handle' = [handle EXCEPT ![FirstFree] = n]
    /\ Raise({n}, "SUBCRIBE_SUCCESS")
Lost(n) ==
    /\ n \in list /\ lost' = lost \cup {n}
    /\ UNCHANGED <<heap, used_freed, slotVars, events>>

\* Handling a SUBACK is one of them.
LEMMA SubackCases ==
    ASSUME HandleSuback
    PROVE  \E n : /\ n = Head(to_client).n /\ req[n].type = "SUBSCRIBE"
                  /\ _mask_sub_info_from(n) /\ ypc' \in {"read", "sweep"}
                  /\ Late(n) \/ Freed(n) \/ Installed(n) \/ Lost(n)
<1> DEFINE n == Head(to_client).n
<1>1. /\ req[n].type = "SUBSCRIBE" /\ _mask_sub_info_from(n)
      /\ SubackGranted(n) \/ SubackRefused(n)
  BY Zenon DEF HandleSuback
<1> HIDE DEF n
<1>2. CASE SubackGranted(n)
  <2>1. \/ n \notin list /\ ypc' = "read"
           /\ UNCHANGED <<heap, used_freed, slotVars, events, lost>>
        \/ n \in list /\ Free({n}) /\ Raise({n}, "SUBCRIBE_SUCCESS") /\ ypc' = "sweep"
           /\ UNCHANGED <<slotVars, lost>>
        \/ Installed(n) /\ ypc' = "sweep"
        \/ Lost(n) /\ ypc' = "read"
    BY <1>2, Zenon DEF SubackGranted, Installed, Lost
  <2> QED BY <1>1, <2>1, Zenon DEF n, Late, Freed
<1>3. CASE SubackRefused(n)
  <2>1. /\ ypc' = "read" /\ Raise({n}, "SUBCRIBE_NACK") /\ UNCHANGED <<slotVars, lost>>
        /\ \/ n \in list /\ Free({n})
           \/ n \notin list /\ UNCHANGED <<heap, used_freed>>
    BY <1>3, Zenon DEF SubackRefused
  <2> QED BY <1>1, <2>1, Zenon DEF n, Late, Freed
<1> QED BY <1>1, <1>2, <1>3

LEMMA HandleSubackIInv == IInv /\ HandleSuback => IInv'
<1> SUFFICES ASSUME IInv, HandleSuback PROVE IInv'
  OBVIOUS
<1>1. PICK n : /\ n = Head(to_client).n /\ req[n].type = "SUBSCRIBE"
               /\ _mask_sub_info_from(n) /\ ypc' \in {"read", "sweep"}
               /\ Late(n) \/ Freed(n) \/ Installed(n) \/ Lost(n)
  BY SubackCases
<1>2. /\ ypc = "read" /\ to_client # << >> /\ to_client' = Tail(to_client)
      /\ UNCHANGED <<callVars, list, to_server, asked, late, raced>>
      /\ UNCHANGED <<pc, cur, requests, req, itr, ptr, disconnects>>
  BY DEF HandleSuback, callVars
<1>3. /\ to_client' \in Seq(Acks) /\ n \in 1..requests /\ n \in Requests
      /\ node_state[n] = "NORMAL"
      /\ req[n].type = "SUBSCRIBE" => req[n].topic \in asked
      /\ node_state' \in [Requests -> {"NORMAL", "INVALID"}]
      /\ \A m \in Requests : m # n => node_state'[m] = node_state[m]
      /\ node_state'[n] = IF n \in list THEN "INVALID" ELSE "NORMAL"
      /\ \A t \in Threads : InCall(t) => cur[t] # n
      /\ pc[Yielder] \notin {"copy", "lock", "send"}
      /\ CallsOK' /\ CallFits' /\ ChannelFits'
  BY <1>1, <1>2, AckTaken
<1>4. /\ heap' \in [Requests -> {"none", "live", "freed"}]
      /\ \A m \in Requests : m # n => heap'[m] = heap[m]
      /\ used_freed' \subseteq Requests
  <2>1. CASE Freed(n)
    BY <1>3, <2>1, FreeOne DEF Freed
  <2>2. CASE UNCHANGED <<heap, used_freed>>
    <3>1. used_freed' \subseteq Requests
      BY <2>2, Zenon DEF IInv, FlagsOK
    <3> QED BY <2>2, <3>1 DEF IInv, TablesOK
  <2> QED BY <1>1, <2>1, <2>2 DEF Late, Installed, Lost
<1>5. /\ events' \in [Requests -> SUBSET Reports]
      /\ \A m \in Requests : m # n => events'[m] = events[m]
      /\ "TIMEOUT" \in events'[n] => "TIMEOUT" \in events[n]
      /\ "SUBCRIBE_SUCCESS" \in events'[n] => n \in list
  <2>1. events \in [Requests -> SUBSET Reports]
    BY DEF IInv, TablesOK
  <2>2. "SUBCRIBE_SUCCESS" \notin events[n]
    BY <1>3 DEF IInv, EventFits
  <2>3. "SUBCRIBE_SUCCESS" \in Reports /\ "SUBCRIBE_NACK" \in Reports
    BY DEF Reports
  <2>4. CASE UNCHANGED events
    BY <2>1, <2>2, <2>4
  <2>5. CASE Raise({n}, "SUBCRIBE_NACK")
    <3>1. /\ events' \in [Requests -> SUBSET Reports]
          /\ events'[n] = events[n] \cup {"SUBCRIBE_NACK"}
          /\ \A m \in Requests : m # n => events'[m] = events[m]
      BY <1>3, <2>1, <2>3, <2>5, RaiseDoes
    <3> QED BY <2>2, <3>1
  <2>6. CASE Raise({n}, "SUBCRIBE_SUCCESS") /\ n \in list
    BY <1>3, <2>1, <2>3, <2>6, RaiseDoes
  <2> QED BY <1>1, <2>4, <2>5, <2>6 DEF Late, Freed, Installed, Lost
<1>6. /\ topic_filter' \in [Slots -> 0..requests] /\ handle' \in [Slots -> 0..requests]
      /\ \/ topic_filter' = topic_filter /\ handle' = handle
         \/ Installed(n) /\ FirstFree \in Slots /\ topic_filter[FirstFree] = NULL
            /\ topic_filter'[FirstFree] = n /\ handle'[FirstFree] = n
            /\ \A i \in Slots \ {FirstFree} :
                 topic_filter'[i] = topic_filter[i] /\ handle'[i] = handle[i]
  <2>1. topic_filter \in [Slots -> 0..requests] /\ handle \in [Slots -> 0..requests]
    BY DEF IInv, TablesOK
  <2>2. CASE Installed(n)
    <3>1. FirstFree \in Slots /\ topic_filter[FirstFree] = NULL
      BY <2>2, FirstFreeIs DEF Installed
    <3>2. n \in 0..requests
      BY <1>3 DEF IInv, CallsOK
    <3>3. /\ topic_filter' = [topic_filter EXCEPT ![FirstFree] = n]
          /\ handle' = [handle EXCEPT ![FirstFree] = n]
      BY <2>2 DEF Installed
    <3> HIDE DEF FirstFree
    <3> QED BY <2>1, <2>2, <3>1, <3>2, <3>3
  <2>3. CASE UNCHANGED slotVars
    BY <2>1, <2>3 DEF slotVars
  <2> QED BY <1>1, <2>2, <2>3 DEF Late, Freed, Lost
<1>7. \/ lost' = lost
      \/ Lost(n) /\ lost' = lost \cup {n} /\ topic_filter' = topic_filter
  BY <1>1 DEF Late, Freed, Installed, Lost, slotVars
<1>8. TablesOK' /\ LinesOK'
  <2>1. lost' \subseteq 1..requests
    BY <1>3, <1>7 DEF IInv, TablesOK
  <2> QED BY <1>1, <1>2, <1>3, <1>4, <1>5, <1>6, <2>1 DEF IInv, TablesOK, LinesOK
<1>9. FlagsOK' /\ LinkFits' /\ SendFits'
  BY <1>2, <1>4, Zenon DEF IInv, FlagsOK, LinkFits, SendFits, HandleSuback
<1>10. n # NULL /\ n \notin lost /\ ~Entered(n) /\ ~Calling(n)
  BY <1>3, Sizes DEF IInv, EntryFits, Entered, Calling, InCall
<1>11. EntryFits'
  <2>1. \A i \in Slots : topic_filter[i] # NULL =>
          topic_filter[i] # n /\ topic_filter[i] \in Requests
    BY <1>10, MadeAreRequests DEF Entered, IInv, TablesOK, CallsOK
  <2>f. \A m \in Requests : m > requests => node_state'[m] = "NORMAL" /\ events'[m] = {}
    <3>1. ~(n > requests)
      BY <1>3, MadeAreRequests DEF IInv, CallsOK
    <3>2. \A m \in Requests : m > requests => node_state[m] = "NORMAL" /\ events[m] = {}
      BY DEF IInv, EntryFits
    <3> QED BY <1>3, <1>5, <3>1, <3>2
  <2>e. \A i \in Slots : topic_filter[i] # NULL =>
          /\ handle[i] = topic_filter[i] /\ node_state'[topic_filter[i]] = "INVALID"
          /\ topic_filter[i] \notin lost /\ topic_filter[i] # n
    <3>1. \A i \in Slots : topic_filter[i] # NULL =>
            /\ handle[i] = topic_filter[i] /\ node_state[topic_filter[i]] = "INVALID"
            /\ topic_filter[i] \notin lost
      BY DEF IInv, EntryFits
    <3>2. \A m \in Requests : m # n => node_state'[m] = node_state[m]
      BY <1>3
    <3> QED BY <2>1, <3>1, <3>2
  <2>2. CASE topic_filter' = topic_filter /\ handle' = handle
    <3>1. EntriesDistinct'
      BY <1>2, <2>2 DEF IInv, EntryFits, EntriesDistinct
    <3>2. \A i \in Slots : topic_filter[i] # NULL =>
            /\ handle[i] = topic_filter[i]
            /\ node_state'[topic_filter[i]] = "INVALID" /\ topic_filter[i] \notin lost'
      BY <1>7, <2>e
    <3>3. \A m \in lost' : node_state'[m] = "INVALID"
      <4>1. \A m \in lost : m \in Requests /\ m # n /\ node_state[m] = "INVALID"
        BY <1>10, MadeAreRequests DEF IInv, EntryFits, TablesOK, CallsOK
      <4> QED BY <1>3, <1>7, <4>1 DEF Lost
    <3> QED BY <1>2, <2>2, <2>f, <3>1, <3>2, <3>3 DEF EntryFits
  <2>3. CASE Installed(n) /\ FirstFree \in Slots /\ topic_filter[FirstFree] = NULL
            /\ topic_filter'[FirstFree] = n /\ handle'[FirstFree] = n
            /\ \A i \in Slots \ {FirstFree} :
                 topic_filter'[i] = topic_filter[i] /\ handle'[i] = handle[i]
    <3>1. n \in list /\ lost' = lost
      BY <2>3 DEF Installed
    <3>2. ASSUME NEW i \in Slots, topic_filter[i] # NULL
          PROVE  req[topic_filter[i]] # req[n]
      <4>1. ~_check_handle_is_identical(i, n)
        BY <2>3 DEF Installed
      <4>2. handle[i] = topic_filter[i]
        BY <3>2 DEF IInv, EntryFits
      <4> QED BY <3>2, <4>1, <4>2 DEF _check_handle_is_identical
    <3> HIDE DEF FirstFree
    <3>3. EntriesDistinct'
      BY <1>2, <2>3, <3>2 DEF IInv, EntryFits, EntriesDistinct
    <3>4. \A i \in Slots : topic_filter'[i] # NULL =>
            /\ handle'[i] = topic_filter'[i]
            /\ node_state'[topic_filter'[i]] = "INVALID" /\ topic_filter'[i] \notin lost
      BY <1>3, <1>10, <2>3, <2>e, <3>1
    <3>5. \A m \in lost : node_state'[m] = "INVALID"
      <4>1. \A m \in lost : m \in Requests /\ m # n /\ node_state[m] = "INVALID"
        BY <1>10, MadeAreRequests DEF IInv, EntryFits, TablesOK, CallsOK
      <4> QED BY <1>3, <4>1
    <3> QED BY <1>2, <2>f, <3>1, <3>3, <3>4, <3>5 DEF EntryFits
  <2> QED BY <1>6, <2>2, <2>3
<1>12. EventFits'
  <2>1. \A m \in Requests : "TIMEOUT" \in events'[m] => "TIMEOUT" \in events[m]
    BY <1>5
  <2>2. \A m \in Requests : "SUBCRIBE_SUCCESS" \in events'[m] => node_state'[m] = "INVALID"
    BY <1>3, <1>5 DEF IInv, EventFits
  <2>3. \A m \in Requests : m # n /\ req[m].type = "SUBSCRIBE" =>
          ~({"SUBCRIBE_SUCCESS", "TIMEOUT"} \subseteq events'[m])
    BY <1>5 DEF IInv, EventFits, OneOutcome
  <2>4. ~({"SUBCRIBE_SUCCESS", "TIMEOUT"} \subseteq events'[n])
    <3>1. n \in list => "TIMEOUT" \notin events[n]
      BY <1>3 DEF IInv, EventFits
    <3> QED BY <1>5, <3>1
  <2>5. OneOutcome'
    BY <1>2, <2>3, <2>4 DEF OneOutcome
  <2> QED BY <1>2, <2>1, <2>2, <2>5 DEF IInv, EventFits
<1>13. HeapFits'
  <2>1. ASSUME NEW m \in Requests, m # n PROVE Owned(m)' <=> Owned(m)
    <3>1. Entered(m)' <=> Entered(m)
      <4>1. m # NULL
        BY Sizes
      <4> HIDE DEF FirstFree
      <4> QED BY <1>6, <2>1, <4>1 DEF Entered
    <3>2. m \in lost' <=> m \in lost
      BY <1>7, <2>1
    <3> QED BY <1>2, <1>3, <2>1, <3>1, <3>2 DEF Owned, Waiting, Calling
  <2>2. /\ Late(n) => ~Owned(n) /\ ~Owned(n)' /\ heap' = heap
        /\ Freed(n) => Owned(n) /\ ~Owned(n)' /\ heap'[n] = "freed"
        /\ Installed(n) => Owned(n) /\ Owned(n)' /\ heap' = heap
        /\ Lost(n) => Owned(n) /\ Owned(n)' /\ heap' = heap
    <3>1. ~Calling(n)' /\ (Waiting(n) <=> n \in list) /\ ~Waiting(n)'
      BY <1>2, <1>3, <1>10 DEF Calling, Waiting
    <3>2. topic_filter' = topic_filter => ~Entered(n)'
      BY <1>10 DEF Entered
    <3>3. Late(n) => ~Owned(n) /\ ~Owned(n)' /\ heap' = heap
      BY <1>10, <3>1, <3>2 DEF Late, Owned, slotVars
    <3>4. Freed(n) => Owned(n) /\ ~Owned(n)' /\ heap'[n] = "freed"
      <4>1. Freed(n) => heap'[n] = "freed"
        BY <1>3, FreeOne DEF Freed
      <4> QED BY <1>10, <3>1, <3>2, <4>1 DEF Freed, Owned, slotVars
    <3>5. Installed(n) => Owned(n) /\ Owned(n)' /\ heap' = heap
      <4>1. Installed(n) => FirstFree \in Slots /\ topic_filter'[FirstFree] = n
        BY FirstFreeIs DEF Installed, IInv, TablesOK
      <4>2. Installed(n) => Entered(n)'
        <5> SUFFICES ASSUME Installed(n) PROVE Entered(n)'
          OBVIOUS
        <5>1. \E i \in Slots : topic_filter'[i] = n
          BY <4>1
        <5> QED BY <5>1 DEF Entered
      <4> QED BY <3>1, <4>2 DEF Installed, Owned
    <3>6. Lost(n) => Owned(n) /\ Owned(n)' /\ heap' = heap
      BY <3>1 DEF Lost, Owned
    <3> QED BY <3>3, <3>4, <3>5, <3>6
  <2>3. HeapIsOwned => HeapIsOwned'
    BY <1>1, <1>3, <1>4, <2>1, <2>2 DEF HeapIsOwned
  <2>4. Freed(n) /\ HeapIsOwned => \A m \in {n} \ {NULL} : heap[m] = "live"
    BY <1>3, <2>2 DEF HeapIsOwned
  <2>5. \/ UNCHANGED used_freed
        \/ /\ used_freed' = used_freed \cup {m \in {n} \ {NULL} : heap[m] # "live"}
           /\ HeapIsOwned => \A m \in {n} \ {NULL} : heap[m] = "live"
    <3>1. CASE Freed(n)
      <4>1. used_freed' = used_freed \cup {m \in {n} \ {NULL} : heap[m] # "live"}
        BY <1>3, <3>1, FreeOne DEF Freed
      <4> QED BY <2>4, <3>1, <4>1, Zenon
    <3>2. CASE Late(n) \/ Installed(n) \/ Lost(n)
      BY <3>2, Zenon DEF Late, Installed, Lost
    <3> QED BY <1>1, <3>1, <3>2, Zenon
  <2>6. wild' = wild /\ Defined
    BY DEF HandleSuback
  <2> QED BY <2>3, <2>5, <2>6, HeapStep DEF IInv
<1>14. ResubFits' /\ AsksForEntry'
  BY <1>2, <1>3 DEF ResubFits, AsksForEntry, InCall
<1>15. AskFits'
  <2>1. \A k : AskedBefore(k) => AskedBefore(k)'
    <3> HIDE DEF FirstFree
    <3> QED BY <1>1, <1>2, <1>3, <1>6 DEF AskedBefore
  <2>2. ypc = "resub" <=> ypc' = "resub"
    BY <1>1, <1>2
  <2> QED BY <1>14, <2>1, <2>2, AskStep DEF IInv, HandleSuback
<1> QED BY <1>3, <1>8, <1>9, <1>11, <1>12, <1>13, <1>14, <1>15 DEF IInv

LEMMA HandleUnsubackIInv == IInv /\ HandleUnsuback => IInv'
<1> SUFFICES ASSUME IInv, HandleUnsuback PROVE IInv'
  OBVIOUS
<1>1. PICK n : /\ n = Head(to_client).n /\ req[n].type = "UNSUBSCRIBE"
               /\ _mask_sub_info_from(n) /\ Raise({n}, "UNSUBCRIBE_SUCCESS")
               /\ \E f \in (IF n \in list THEN {n} ELSE StackGarbage) :
                    Free({f}) /\ wild' = (n \notin list /\ f # NULL)
  BY Zenon DEF HandleUnsuback
<1>2. /\ ypc = "read" /\ to_client # << >> /\ to_client' = Tail(to_client)
      /\ ypc' = "sweep"
      /\ UNCHANGED <<callVars, list, to_server, asked, late, raced>>
      /\ UNCHANGED <<pc, cur, requests, req, itr, ptr, disconnects>>
      /\ UNCHANGED <<topic_filter, handle, lost>>
  BY DEF HandleUnsuback, callVars, slotVars
<1>3. /\ to_client' \in Seq(Acks) /\ n \in 1..requests /\ n \in Requests
      /\ node_state[n] = "NORMAL"
      /\ req[n].type = "SUBSCRIBE" => req[n].topic \in asked
      /\ node_state' \in [Requests -> {"NORMAL", "INVALID"}]
      /\ \A m \in Requests : m # n => node_state'[m] = node_state[m]
      /\ node_state'[n] = IF n \in list THEN "INVALID" ELSE "NORMAL"
      /\ \A t \in Threads : InCall(t) => cur[t] # n
      /\ pc[Yielder] \notin {"copy", "lock", "send"}
      /\ CallsOK' /\ CallFits' /\ ChannelFits'
  BY <1>1, <1>2, AckTaken
<1>4. /\ heap' \in [Requests -> {"none", "live", "freed"}] /\ used_freed' \subseteq Requests
  <2>1. PICK f \in (IF n \in list THEN {n} ELSE StackGarbage) : Free({f})
    BY <1>1, Zenon
  <2>2. /\ heap \in [Requests -> {"none", "live", "freed"}] /\ FlagsOK
        /\ {f} \in SUBSET (0..MaxRequests)
    BY <1>3, BoundsAssumption DEF IInv, TablesOK, Requests
  <2> QED BY <2>1, <2>2, FreeDoes
<1>5. /\ events' \in [Requests -> SUBSET Reports]
      /\ events'[n] = events[n] \cup {"UNSUBCRIBE_SUCCESS"}
      /\ \A m \in Requests : m # n => events'[m] = events[m]
  <2>1. events \in [Requests -> SUBSET Reports] /\ "UNSUBCRIBE_SUCCESS" \in Reports
    BY DEF IInv, TablesOK, Reports
  <2> QED BY <1>1, <1>3, <2>1, RaiseDoes
<1>6. TablesOK' /\ LinesOK'
  BY <1>2, <1>3, <1>4, <1>5 DEF IInv, TablesOK, LinesOK
<1>7. FlagsOK' /\ LinkFits' /\ SendFits'
  <2>1. wild' \in BOOLEAN
    BY <1>1, Zenon
  <2> QED BY <1>2, <1>4, <2>1, Zenon DEF IInv, FlagsOK, LinkFits, SendFits, HandleUnsuback
<1>8. n # NULL /\ n \notin lost /\ ~Entered(n) /\ ~Calling(n)
  BY <1>3, Sizes DEF IInv, EntryFits, Entered, Calling, InCall
<1>9. EntryFits'
  <2>1. \A i \in Slots : topic_filter[i] # NULL =>
          /\ handle[i] = topic_filter[i] /\ node_state'[topic_filter[i]] = "INVALID"
          /\ topic_filter[i] \notin lost
    <3>1. \A i \in Slots : topic_filter[i] # NULL =>
            topic_filter[i] # n /\ topic_filter[i] \in Requests
      BY <1>8, MadeAreRequests DEF Entered, IInv, TablesOK, CallsOK
    <3>2. \A i \in Slots : topic_filter[i] # NULL =>
            /\ handle[i] = topic_filter[i] /\ node_state[topic_filter[i]] = "INVALID"
            /\ topic_filter[i] \notin lost
      BY DEF IInv, EntryFits
    <3>3. \A m \in Requests : m # n => node_state'[m] = node_state[m]
      BY <1>3
    <3> QED BY <3>1, <3>2, <3>3
  <2>2. \A m \in lost : node_state'[m] = "INVALID"
    <3>1. \A m \in lost : m \in Requests /\ m # n /\ node_state[m] = "INVALID"
      BY <1>8, MadeAreRequests DEF IInv, EntryFits, TablesOK, CallsOK
    <3> QED BY <1>3, <3>1
  <2>3. \A m \in Requests : m > requests => node_state'[m] = "NORMAL" /\ events'[m] = {}
    <3>1. ~(n > requests)
      BY <1>3, MadeAreRequests DEF IInv, CallsOK
    <3>2. \A m \in Requests : m > requests => node_state[m] = "NORMAL" /\ events[m] = {}
      BY DEF IInv, EntryFits
    <3> QED BY <1>3, <1>5, <3>1, <3>2
  <2>4. EntriesDistinct'
    BY <1>2 DEF IInv, EntryFits, EntriesDistinct
  <2> QED BY <1>2, <2>1, <2>2, <2>3, <2>4 DEF EntryFits
<1>10. EventFits'
  <2>1. \A m \in Requests : /\ "TIMEOUT" \in events'[m] => "TIMEOUT" \in events[m]
                            /\ "SUBCRIBE_SUCCESS" \in events'[m] =>
                                 "SUBCRIBE_SUCCESS" \in events[m]
    BY <1>5
  <2>2. \A m \in Requests : "SUBCRIBE_SUCCESS" \in events'[m] => node_state'[m] = "INVALID"
    <3>1. "SUBCRIBE_SUCCESS" \notin events[n]
      BY <1>3 DEF IInv, EventFits
    <3>2. \A m \in Requests : "SUBCRIBE_SUCCESS" \in events[m] => node_state[m] = "INVALID"
      BY DEF IInv, EventFits
    <3> QED BY <1>3, <2>1, <3>1, <3>2
  <2> QED BY <1>2, <2>1, <2>2 DEF IInv, EventFits, OneOutcome
<1>11. HeapFits'
  <2>1. CASE n \in list
    <3>1. Free({n}) /\ wild' = wild /\ Defined
      <4>1. Free({n}) /\ wild' = FALSE
        <5>1. PICK f \in {n} : Free({f}) /\ wild' = (n \notin list /\ f # NULL)
          BY <1>1, <2>1, Zenon
        <5>2. f = n
          BY Zenon
        <5> QED BY <2>1, <5>1, <5>2, Zenon
      <4>2. Defined
        BY DEF HandleUnsuback
      <4>3. wild = FALSE
        BY <4>2, Zenon DEF Defined, IInv, FlagsOK
      <4> QED BY <4>1, <4>2, <4>3, Zenon
    <3>2. /\ heap'[n] = "freed" /\ \A m \in Requests : m # n => heap'[m] = heap[m]
          /\ used_freed' = used_freed \cup {m \in {n} \ {NULL} : heap[m] # "live"}
      BY <1>3, <3>1, FreeOne
    <3>3. ASSUME NEW m \in Requests, m # n PROVE Owned(m)' <=> Owned(m)
      BY <1>2, <1>3, <3>3 DEF Owned, Waiting, Calling, Entered
    <3>4. Owned(n) /\ ~Owned(n)'
      BY <1>2, <1>3, <1>8, <2>1 DEF Owned, Waiting, Calling, Entered
    <3>5. HeapIsOwned => HeapIsOwned'
      BY <1>3, <3>2, <3>3, <3>4 DEF HeapIsOwned
    <3>6. HeapIsOwned => \A m \in {n} \ {NULL} : heap[m] = "live"
      BY <1>3, <3>4 DEF HeapIsOwned
    <3> QED BY <3>1, <3>2, <3>5, <3>6, HeapStep DEF IInv
  <2>2. CASE n \notin list
    <3>1. PICK f \in StackGarbage : Free({f}) /\ wild' = (n \notin list /\ f # NULL)
      BY <1>1, <2>2, Zenon
    <3>2. CASE f # NULL
      BY <2>2, <3>1, <3>2, Zenon DEF HeapFits
    <3>3. CASE f = NULL
      <4>1. Defined
        BY DEF HandleUnsuback
      <4>2. wild' = FALSE /\ wild = FALSE
        BY <3>1, <3>3, <4>1, Zenon DEF Defined, IInv, FlagsOK
      <4>3. /\ \A m \in Requests : heap'[m] = IF m \in {f} THEN "freed" ELSE heap[m]
            /\ used_freed' = used_freed \cup {m \in {f} \ {NULL} : heap[m] # "live"}
        BY <3>1 DEF Free
      <4>4. \A m \in Requests : heap'[m] = heap[m] /\ (Owned(m)' <=> Owned(m))
        <5>1. \A m \in Requests : heap'[m] = heap[m] /\ m # NULL
          BY <3>3, <4>3, Sizes
        <5>2. ASSUME NEW m \in Requests PROVE Waiting(m)' <=> Waiting(m)
          BY <1>2, <1>3, <2>2 DEF Waiting
        <5> QED BY <1>2, <5>1, <5>2 DEF Owned, Calling, Entered
      <4>5. HeapIsOwned => HeapIsOwned'
        BY <4>4 DEF HeapIsOwned
      <4>6. used_freed' = used_freed
        BY <3>3, <4>3
      <4>7. UNCHANGED wild
        BY <4>2, Zenon
      <4> QED BY <4>1, <4>5, <4>6, <4>7, HeapStep DEF IInv
    <3> QED BY <3>2, <3>3
  <2> QED BY <2>1, <2>2
<1>12. ResubFits' /\ AsksForEntry'
  BY <1>2, <1>3 DEF ResubFits, AsksForEntry, InCall
<1>13. AskFits'
  <2>1. \A k : AskedBefore(k) => AskedBefore(k)'
    BY <1>2 DEF AskedBefore
  <2>2. UNCHANGED <<is_connected, resub_failed>>
    BY DEF HandleUnsuback
  <2>3. ypc # "resub" /\ ypc' # "resub" /\ (wild => wild')
    <3>1. wild => wild'
      BY Zenon DEF HandleUnsuback, Defined
    <3> QED BY <1>2, <3>1
  <2> QED BY <1>12, <2>1, <2>2, <2>3, Zenon DEF IInv, AskFits
<1> QED BY <1>3, <1>6, <1>7, <1>9, <1>10, <1>11, <1>12, <1>13 DEF IInv

LEMMA sub_info_procIInv == IInv /\ sub_info_proc => IInv'
<1> SUFFICES ASSUME IInv, sub_info_proc PROVE IInv'
  OBVIOUS
<1>1. /\ ypc # "resub" /\ ypc' = "read" /\ Free(TimedOut)
      /\ list' = {n \in list \ TimedOut : node_state[n] = "NORMAL"}
      /\ events' = [n \in Requests |-> IF n \in TimedOut THEN events[n] \cup {"TIMEOUT"}
                                                          ELSE events[n]]
      /\ UNCHANGED <<lock_write_buf, pc, arg, cur, requests, req, node_state>>
      /\ UNCHANGED <<topic_filter, handle, itr, ptr, to_server, to_client>>
      /\ UNCHANGED <<disconnects, lost, asked, late, raced>>
  <2>1. ypc # "resub"
    BY DEF sub_info_proc
  <2> QED BY <2>1 DEF sub_info_proc, callVars, slotVars, connVars
<1>2. expired' = [n \in Requests |-> n \in list' /\ expired[n]]
  BY Zenon DEF sub_info_proc
<1>3. \A n \in TimedOut : n \in list /\ node_state[n] = "NORMAL" /\ expired[n]
  BY Zenon DEF TimedOut
<1>4. /\ TimedOut \subseteq list /\ list \subseteq Requests
      /\ \A n \in TimedOut : node_state[n] = "NORMAL" /\ ~(n > requests)
  BY <1>3, MadeAreRequests DEF IInv, TablesOK, CallsOK
<1>5. \A t \in Threads : pc[t] = "send" => cur[t] \notin TimedOut \/ cur[t] \in late
  BY <1>3, Zenon DEF IInv, SendFits
<1>6. /\ heap' \in [Requests -> {"none", "live", "freed"}]
      /\ \A n \in Requests : heap'[n] = IF n \in TimedOut THEN "freed" ELSE heap[n]
      /\ used_freed' = used_freed \cup {n \in TimedOut \ {NULL} : heap[n] # "live"}
      /\ used_freed' \subseteq Requests
  <2>1. heap \in [Requests -> {"none", "live", "freed"}] /\ FlagsOK
    BY DEF IInv, TablesOK
  <2>2. TimedOut \in SUBSET (0..MaxRequests)
    BY <1>4 DEF Requests
  <2> HIDE DEF TimedOut
  <2> QED BY <1>1, <2>1, <2>2, FreeDoes
<1>7. /\ events' \in [Requests -> SUBSET Reports]
      /\ \A n \in TimedOut : events'[n] = events[n] \cup {"TIMEOUT"}
      /\ \A n \in Requests \ TimedOut : events'[n] = events[n]
  <2>1. events \in [Requests -> SUBSET Reports] /\ "TIMEOUT" \in Reports
    BY DEF IInv, TablesOK, Reports
  <2> HIDE DEF TimedOut, Reports
  <2> QED BY <1>1, <1>4, <2>1
<1> HIDE DEF TimedOut
<1>8. CallsOK' /\ TablesOK' /\ LinesOK'
  BY <1>1, <1>6, <1>7 DEF IInv, CallsOK, TablesOK, LinesOK
<1>9. FlagsOK'
  <2>1. expired' \in [Requests -> BOOLEAN]
    BY <1>2, Zenon
  <2> QED BY <1>6, <2>1, Zenon DEF IInv, FlagsOK, sub_info_proc
<1>10. CallFits'
  <2>1. \A t \in Threads : pc[t] = "send" => cur[t] \in list' \cup late
    BY <1>1, <1>5 DEF IInv, CallFits, InCall
  <2>2. list' \subseteq list
    BY <1>1
  <2> QED BY <1>1, <2>1, <2>2 DEF IInv, CallFits, InCall
<1>11. SendFits'
  <2>1. \A n \in Requests : expired'[n] => n \in list' /\ expired[n]
    BY <1>2, Zenon
  <2>2. \A t \in Threads : pc[t] = "send" => cur[t] \in Requests
    BY MadeAreRequests DEF IInv, CallFits, InCall, CallsOK
  <2> QED BY <1>1, <2>1, <2>2, Zenon DEF IInv, SendFits
<1>12. ChannelFits'
  BY <1>1 DEF IInv, ChannelFits
<1>13. LinkFits'
  BY <1>1, Zenon DEF IInv, LinkFits, sub_info_proc, connVars
<1>14. EntryFits'
  <2>1. \A n \in Requests : n > requests => events'[n] = {}
    BY <1>4, <1>7 DEF IInv, EntryFits
  <2> QED BY <1>1, <2>1 DEF IInv, EntryFits, EntriesDistinct
<1>15. EventFits'
  <2>1. \A n \in Requests : "TIMEOUT" \in events'[n] => "TIMEOUT" \in events[n] \/ n \in TimedOut
    BY <1>7
  <2>2. \A n \in Requests : "SUBCRIBE_SUCCESS" \in events'[n] =>
          "SUBCRIBE_SUCCESS" \in events[n] /\ n \notin TimedOut
    BY <1>4, <1>7 DEF IInv, EventFits
  <2>3. \A n \in TimedOut, t \in Threads : ~(pc[t] = "lock" /\ cur[t] = n)
    BY <1>4 DEF IInv, CallFits
  <2>4. \A n \in Requests : "TIMEOUT" \in events'[n] =>
          n \notin list' /\ \A t \in Threads : ~(pc[t] = "lock" /\ cur[t] = n)
    BY <1>1, <2>1, <2>3 DEF IInv, EventFits
  <2>5. OneOutcome'
    BY <1>1, <2>1, <2>2 DEF IInv, EventFits, OneOutcome
  <2> QED BY <1>1, <2>2, <2>4, <2>5 DEF IInv, EventFits
<1>16. HeapFits'
  <2>1. ASSUME NEW n \in TimedOut PROVE Owned(n) /\ ~Owned(n)'
    <3>1. n \notin lost /\ ~Entered(n) /\ n \in list /\ node_state[n] = "NORMAL"
      <4>1. n \in list /\ node_state[n] = "NORMAL" /\ n # NULL
        BY <1>4, Sizes
      <4> QED BY <4>1 DEF IInv, EntryFits, Entered
    <3>2. ~Calling(n)
      BY <3>1 DEF IInv, CallFits, Calling
    <3> QED BY <1>1, <3>1, <3>2 DEF Owned, Waiting, Calling, Entered
  <2>2. ASSUME NEW n \in Requests, n \notin TimedOut PROVE Owned(n)' <=> Owned(n)
    BY <1>1, <2>2 DEF Owned, Waiting, Calling, Entered
  <2>3. HeapIsOwned => HeapIsOwned'
    BY <1>6, <2>1, <2>2 DEF HeapIsOwned
  <2>4. HeapIsOwned => \A n \in TimedOut \ {NULL} : heap[n] = "live"
    BY <1>4, <2>1 DEF HeapIsOwned
  <2>5. wild' = wild /\ Defined
    BY DEF sub_info_proc
  <2> QED BY <1>6, <2>3, <2>4, <2>5, HeapStep DEF IInv
<1>17. ResubFits' /\ AsksForEntry'
  <2>1. pc[Yielder] \notin {"copy", "lock", "send"}
    BY <1>1 DEF IInv, ResubFits
  <2> QED BY <1>1, <2>1 DEF ResubFits, AsksForEntry, InCall
<1>18. AskFits'
  <2>1. \A k : AskedBefore(k) => AskedBefore(k)'
    BY <1>1 DEF AskedBefore
  <2>2. ypc = "resub" <=> ypc' = "resub"
    BY <1>1
  <2> QED BY <1>17, <2>1, <2>2, AskStep DEF IInv, sub_info_proc
<1> QED BY <1>8, <1>9, <1>10, <1>11, <1>12, <1>13, <1>14, <1>15, <1>16, <1>17,
           <1>18 DEF IInv

----------------------------------------------------------------------------
(* The connection, the server and the clock keep the invariant.            *)

\* Steps that leave the calls, the list, the table and the heap alone.
LEMMA CoreStays ==
    ASSUME IInv, UNCHANGED <<callVars, heap, list, node_state, slotVars, events, lost>>
    PROVE  /\ CallsOK' /\ TablesOK' /\ EntryFits' /\ EventFits'
           /\ HeapIsOwned => HeapIsOwned'
<1> USE DEF callVars, slotVars
<1>1. CallsOK' /\ TablesOK'
  BY DEF IInv, CallsOK, TablesOK
<1>2. EntryFits' /\ EventFits'
  BY DEF IInv, EntryFits, EntriesDistinct, EventFits, OneOutcome
<1>3. HeapIsOwned => HeapIsOwned'
  BY DEF HeapIsOwned, Owned, Calling, Waiting, Entered
<1> QED BY <1>1, <1>2, <1>3

LEMMA DisconnectIInv == IInv /\ Disconnect => IInv'
<1> SUFFICES ASSUME IInv, Disconnect PROVE IInv'
  OBVIOUS
<1>1. /\ ypc = "read" /\ ypc' = "read" /\ to_server' = << >> /\ to_client' = << >>
      /\ disconnects < MaxDisconnects /\ disconnects' = disconnects + 1
      /\ UNCHANGED <<pc, cur, requests, req, node_state, list, topic_filter, handle>>
      /\ UNCHANGED <<itr, ptr, asked, late, raced>>
  BY DEF Disconnect, callVars, nodeVars, slotVars
<1>2. /\ CallsOK' /\ TablesOK' /\ EntryFits' /\ EventFits'
      /\ HeapIsOwned => HeapIsOwned'
  BY CoreStays DEF Disconnect, nodeVars
<1>3. /\ Elems(to_server') = {} /\ Named(to_client') = {}
      /\ Distinct(to_server') /\ OneEach(to_client')
      /\ to_server' \in Seq(Requests) /\ to_client' \in Seq(Acks)
  BY <1>1, NothingSent
<1>4. LinesOK'
  <2>1. disconnects' \in 0..MaxDisconnects
    BY <1>1, Sizes DEF IInv, LinesOK
  <2> QED BY <1>1, <1>3, <2>1 DEF IInv, LinesOK
<1>5. FlagsOK' /\ LinkFits' /\ SendFits'
  BY <1>1, Zenon DEF IInv, FlagsOK, LinkFits, SendFits, Disconnect, callVars, nodeVars
<1>6. CallFits' /\ ChannelFits'
  BY <1>1, <1>3 DEF IInv, CallFits, ChannelFits, InCall
<1>7. HeapFits'
  BY <1>2, HeapStep DEF IInv, Disconnect
<1>8. ResubFits' /\ (AsksForEntry => AsksForEntry') /\ (AskedBefore(itr) => AskedBefore(itr)')
  BY <1>1 DEF IInv, ResubFits, AsksForEntry, AskedBefore, InCall
<1>9. AskFits'
  <2>1. is_connected' = FALSE /\ wild' = wild
    BY DEF Disconnect
  <2>2. ypc' # "resub"
    BY <1>1
  <2> QED BY <1>8, <2>1, <2>2, Zenon DEF IInv, AskFits
<1> QED BY <1>2, <1>4, <1>5, <1>6, <1>7, <1>8, <1>9 DEF IInv

LEMMA ReconnectIInv == IInv /\ Reconnect => IInv'
<1> SUFFICES ASSUME IInv, Reconnect PROVE IInv'
  OBVIOUS
<1>1. /\ ypc = "read" /\ ypc' = "resub" /\ itr' = 1 /\ asked' = {}
      /\ UNCHANGED <<pc, cur, requests, req, node_state, list, topic_filter, handle>>
      /\ UNCHANGED <<ptr, to_server, to_client, disconnects, late, raced>>
  BY DEF Reconnect, callVars, nodeVars, slotVars
<1>2. /\ CallsOK' /\ TablesOK' /\ EntryFits' /\ EventFits'
      /\ HeapIsOwned => HeapIsOwned'
  BY CoreStays DEF Reconnect, nodeVars
<1>3. to_server = << >> /\ to_client = << >>
  BY Zenon DEF IInv, LinkFits, Reconnect
<1>4. /\ Elems(to_server') = {} /\ Named(to_client') = {}
      /\ Distinct(to_server') /\ OneEach(to_client')
  BY <1>1, <1>3, NothingSent
<1>5. LinesOK'
  BY <1>1, Sizes DEF IInv, LinesOK
<1>6. FlagsOK' /\ LinkFits' /\ SendFits'
  BY <1>1, Zenon DEF IInv, FlagsOK, LinkFits, SendFits, Reconnect, callVars, nodeVars
<1>7. CallFits' /\ ChannelFits'
  BY <1>1, <1>4 DEF IInv, CallFits, ChannelFits, InCall
<1>8. HeapFits'
  BY <1>2, HeapStep DEF IInv, Reconnect
<1>9. pc[Yielder] \notin {"copy", "lock", "send"}
  BY <1>1 DEF IInv, ResubFits
<1>10. ResubFits' /\ AsksForEntry'
  BY <1>1, <1>9 DEF ResubFits, AsksForEntry, InCall
<1>11. AskedBefore(itr)'
  <2>1. \A i \in Slots : ~(i < 1)
    BY Sizes DEF Slots
  <2> QED BY <1>1, <2>1 DEF AskedBefore
<1>12. AskFits'
  BY <1>1, <1>10, <1>11, Zenon DEF AskFits
<1> QED BY <1>2, <1>5, <1>6, <1>7, <1>8, <1>10, <1>12 DEF IInv

LEMMA ResubscribeSkipIInv == IInv /\ ResubscribeSkip => IInv'
<1> SUFFICES ASSUME IInv, ResubscribeSkip PROVE IInv'
  OBVIOUS
<1>1. /\ ypc = "resub" /\ pc[Yielder] = "idle"
      /\ \/ itr \in Slots /\ topic_filter[itr] = NULL /\ itr' = itr + 1 /\ ypc' = ypc
         \/ itr \notin Slots /\ ypc' = "read" /\ itr' = itr
      /\ UNCHANGED <<pc, cur, requests, req, node_state, list, topic_filter, handle>>
      /\ UNCHANGED <<ptr, to_server, to_client, disconnects, asked, late, raced>>
  BY DEF ResubscribeSkip, callVars, nodeVars, slotVars, connVars
<1>2. /\ CallsOK' /\ TablesOK' /\ EntryFits' /\ EventFits'
      /\ HeapIsOwned => HeapIsOwned'
  BY CoreStays DEF ResubscribeSkip, nodeVars
<1>3. /\ itr \in 1..(MAX_MESSAGE_HANDLERS + 1)
      /\ itr \in Slots => itr + 1 \in 1..(MAX_MESSAGE_HANDLERS + 1)
      /\ itr \notin Slots => itr = MAX_MESSAGE_HANDLERS + 1
      /\ itr \in Slots => \A i \in Slots : i < itr + 1 => i < itr \/ i = itr
  BY Sizes DEF IInv, LinesOK, Slots
<1>4. LinesOK'
  BY <1>1, <1>3 DEF IInv, LinesOK
<1>5. FlagsOK' /\ SendFits'
  BY Zenon DEF IInv, FlagsOK, SendFits, ResubscribeSkip, callVars, nodeVars
<1>6. LinkFits'
  <2>1. ypc # "read"
    BY <1>1
  <2>2. is_connected /\ is_connected' = is_connected
    BY <2>1, Zenon DEF IInv, LinkFits, ResubscribeSkip
  <2> QED BY <2>2, Zenon DEF LinkFits
<1>7. CallFits' /\ ChannelFits'
  BY <1>1 DEF IInv, CallFits, ChannelFits, InCall
<1>8. HeapFits'
  BY <1>2, HeapStep DEF IInv, ResubscribeSkip
<1>9. ResubFits' /\ AsksForEntry'
  BY <1>1 DEF ResubFits, AsksForEntry, InCall
<1>10. AskFits'
  <2>1. wild' = wild
    BY DEF ResubscribeSkip
  <2>2. ASSUME ~wild PROVE AskedBefore(itr)'
    <3>1. AskedBefore(itr)
      BY <1>1, <2>2, Zenon DEF IInv, AskFits
    <3>2. ASSUME NEW i \in Slots, i < itr', topic_filter[i] # NULL
          PROVE  req[topic_filter[i]].topic \in asked
      <4>1. i < itr
        BY <1>1, <1>3, <3>2
      <4> QED BY <3>1, <3>2, <4>1 DEF AskedBefore
    <3> QED BY <1>1, <3>2 DEF AskedBefore
  <2>3. ypc' # "resub" => itr' = MAX_MESSAGE_HANDLERS + 1
    BY <1>1, <1>3
  <2>4. ASSUME ~wild, ypc' # "resub" PROVE AskedBefore(MAX_MESSAGE_HANDLERS + 1)'
    BY <2>2, <2>3, <2>4 DEF AskedBefore
  <2> QED BY <1>9, <2>1, <2>2, <2>4, Zenon DEF AskFits
<1> QED BY <1>2, <1>4, <1>5, <1>6, <1>7, <1>8, <1>9, <1>10 DEF IInv

LEMMA ResubscribeReadIInv == IInv /\ ResubscribeRead => IInv'
<1> SUFFICES ASSUME IInv, ResubscribeRead PROVE IInv'
  OBVIOUS
<1>1. /\ ypc = "resub" /\ pc[Yielder] = "idle" /\ itr \in Slots
      /\ topic_filter[itr] # NULL /\ ptr' = topic_filter[itr]
      /\ pc' = [pc EXCEPT ![Yielder] = "copy"]
      /\ UNCHANGED <<lock_write_buf, arg, cur, requests, req, heap, list, node_state>>
      /\ UNCHANGED <<topic_filter, handle, ypc, itr, to_server, to_client>>
      /\ UNCHANGED <<disconnects, events, lost, asked, late, raced>>
  BY DEF ResubscribeRead, reqVars, nodeVars, slotVars, connVars
<1>2. /\ pc' \in [Threads -> {"idle", "lock", "send", "unsub", "copy"}]
      /\ pc'[Yielder] = "copy" /\ \A u \in Threads \ {Yielder} : pc'[u] = pc[u]
      /\ \A u \in Threads : /\ InCall(u)' <=> InCall(u)
                            /\ pc'[u] = "lock" <=> pc[u] = "lock"
                            /\ pc'[u] = "send" <=> pc[u] = "send"
                            /\ pc'[u] = "copy" => u = Yielder
  BY <1>1, YielderIn DEF IInv, CallsOK, CallFits, InCall
<1>3. ptr' \in 1..requests /\ ptr' \in 0..requests /\ handle[itr] = ptr'
  BY <1>1, MadeAreRequests DEF IInv, CallsOK, TablesOK, EntryFits
<1>4. CallsOK' /\ TablesOK' /\ LinesOK'
  BY <1>1, <1>2, <1>3 DEF IInv, CallsOK, TablesOK, LinesOK
<1>5. FlagsOK' /\ LinkFits'
  BY Zenon DEF IInv, FlagsOK, LinkFits, ResubscribeRead, connVars, nodeVars
<1>6. SendFits'
  BY <1>2, Zenon DEF IInv, SendFits, ResubscribeRead, nodeVars
<1>7. CallFits'
  BY <1>1, <1>2 DEF IInv, CallFits
<1>8. ChannelFits' /\ EntryFits'
  BY <1>1 DEF IInv, ChannelFits, EntryFits, EntriesDistinct
<1>9. EventFits'
  BY <1>1, <1>2 DEF IInv, EventFits, OneOutcome
<1>10. HeapFits'
  <2>1. HeapIsOwned => HeapIsOwned'
    BY <1>1, <1>2 DEF HeapIsOwned, Owned, Calling, Waiting, Entered
  <2> QED BY <2>1, HeapStep DEF IInv, ResubscribeRead
<1>11. ResubFits' /\ AsksForEntry'
  BY <1>1, <1>2, <1>3 DEF ResubFits, AsksForEntry, InCall
<1>12. AskFits'
  <2>1. \A k : AskedBefore(k) => AskedBefore(k)'
    BY <1>1 DEF AskedBefore
  <2> QED BY <1>1, <1>11, <2>1, AskStep DEF IInv, ResubscribeRead
<1> QED BY <1>4, <1>5, <1>6, <1>7, <1>8, <1>9, <1>10, <1>11, <1>12 DEF IInv

LEMMA ServerAnswersIInv == IInv /\ ServerAnswers => IInv'
<1> SUFFICES ASSUME IInv, ServerAnswers PROVE IInv'
  OBVIOUS
<1>1. PICK n \in {Head(to_server)}, g \in BOOLEAN :
        n = Head(to_server) /\ to_client' = Append(to_client, [n |-> n, granted |-> g])
  BY Zenon DEF ServerAnswers
<1>2. /\ to_server # << >> /\ to_server' = Tail(to_server)
      /\ UNCHANGED <<pc, cur, requests, req, node_state, list, topic_filter, handle>>
      /\ UNCHANGED <<ypc, itr, ptr, disconnects, asked, late, raced>>
  BY DEF ServerAnswers, callVars, nodeVars, slotVars
<1>3. /\ CallsOK' /\ TablesOK' /\ EntryFits' /\ EventFits'
      /\ HeapIsOwned => HeapIsOwned'
  BY CoreStays DEF ServerAnswers, nodeVars
<1>4. /\ to_server' \in Seq(Requests) /\ n \in Requests /\ Distinct(to_server')
      /\ n \in Elems(to_server) /\ n \notin Elems(to_server')
      /\ \A m \in Elems(to_server') : m \in Elems(to_server)
  BY <1>1, <1>2, TakeRequest DEF IInv, LinesOK, ChannelFits
<1>5. [n |-> n, granted |-> g] \in Acks /\ [n |-> n, granted |-> g].n = n
  <2>1. [n |-> n, granted |-> g] \in Acks
    BY <1>4, AckIs
  <2>2. [n |-> n, granted |-> g].n = n
    BY Zenon
  <2> QED BY <2>1, <2>2
<1>6. n \notin Named(to_client)
  BY <1>4 DEF IInv, ChannelFits
<1>7. /\ to_client' \in Seq(Acks) /\ Named(to_client') = Named(to_client) \cup {n}
      /\ OneEach(to_client')
  <2>1. to_client \in Seq(Acks) /\ OneEach(to_client)
    BY DEF IInv, LinesOK, ChannelFits
  <2> DEFINE a == [n |-> n, granted |-> g]
  <2>2. a \in Acks /\ a.n = n /\ to_client' = Append(to_client, a)
    BY <1>1, <1>5, Zenon
  <2> HIDE DEF a
  <2> QED BY <1>6, <2>1, <2>2, AddAck
<1>8. LinesOK'
  BY <1>2, <1>4, <1>7 DEF IInv, LinesOK
<1>9. FlagsOK' /\ SendFits'
  BY Zenon DEF IInv, FlagsOK, SendFits, ServerAnswers, callVars, nodeVars
<1>10. LinkFits'
  BY <1>2, Zenon DEF IInv, LinkFits, ServerAnswers
<1>11. CallFits' /\ ChannelFits'
  <2>1. CallFits'
    BY <1>2, <1>4, <1>7 DEF IInv, CallFits, InCall
  <2>2. ChannelFits'
    BY <1>2, <1>4, <1>6, <1>7 DEF IInv, ChannelFits
  <2> QED BY <2>1, <2>2
<1>12. HeapFits'
  BY <1>3, HeapStep DEF IInv, ServerAnswers
<1>13. ResubFits' /\ (AsksForEntry => AsksForEntry')
  BY <1>2 DEF IInv, ResubFits, AsksForEntry, InCall
<1>14. AskFits'
  <2>1. \A k : AskedBefore(k) => AskedBefore(k)'
    BY <1>2 DEF AskedBefore
  <2> QED BY <1>2, <1>13, <2>1, AskStep DEF IInv, ServerAnswers
<1> QED BY <1>3, <1>8, <1>9, <1>10, <1>11, <1>12, <1>13, <1>14 DEF IInv

\* A step that leaves all but the timers alone.
LEMMA TimerStep ==
    ASSUME IInv, SendFits', HeapFits', expired' \in [Requests -> BOOLEAN],
           late \subseteq late', late' \subseteq Requests,
           UNCHANGED <<is_connected, callVars, heap, list, node_state, slotVars,
                       ypc, itr, ptr, connVars, disconnects, wild, raced, events,
                       lost, used_freed, asked, resub_failed>>
    PROVE  IInv'
<1>1. /\ UNCHANGED <<pc, cur, requests, req, node_state, list, topic_filter, handle>>
      /\ UNCHANGED <<ypc, itr, ptr, to_server, to_client, disconnects, asked>>
  BY DEF callVars, slotVars, connVars
<1>2. /\ CallsOK' /\ TablesOK' /\ EntryFits' /\ EventFits'
      /\ HeapIsOwned => HeapIsOwned'
  BY CoreStays
<1>3. LinesOK' /\ CallFits' /\ ChannelFits'
  BY <1>1 DEF IInv, LinesOK, CallFits, ChannelFits, InCall
<1>4. FlagsOK' /\ LinkFits'
  BY Zenon DEF IInv, FlagsOK, LinkFits, connVars
<1>6. ResubFits' /\ (AsksForEntry => AsksForEntry')
  BY <1>1 DEF IInv, ResubFits, AsksForEntry, InCall
<1>7. AskFits'
  <2>1. \A k : AskedBefore(k) => AskedBefore(k)'
    BY <1>1 DEF AskedBefore
  <2> QED BY <1>1, <1>6, <2>1, AskStep DEF IInv
<1> QED BY <1>2, <1>3, <1>4, <1>6, <1>7 DEF IInv

LEMMA TimerExpiresIInv ==
    ASSUME IInv, NEW n \in Requests, TimerExpires(n)
    PROVE  IInv'
<1>1. /\ n \in list /\ expired' = [expired EXCEPT ![n] = TRUE]
      /\ UNCHANGED <<pc, cur, list>>
      /\ late' = late \cup {m \in {n} : \E t \in Threads : pc[t] = "send" /\ cur[t] = m}
  BY Zenon DEF TimerExpires, callVars
<1>2. expired \in [Requests -> BOOLEAN]
  BY Zenon DEF IInv, FlagsOK
<1>3. expired' \in [Requests -> BOOLEAN] /\ \A m \in Requests : m # n => expired'[m] = expired[m]
  BY <1>1, <1>2, Zenon
<1>4. \A t \in Threads : pc[t] = "send" => cur[t] \in Requests
  BY MadeAreRequests DEF IInv, CallFits, InCall, CallsOK
<1>5. late \subseteq late' /\ late' \subseteq Requests
  <2>1. late \subseteq Requests
    BY Zenon DEF IInv, FlagsOK
  <2> QED BY <1>1, <2>1
<1>6. \A t \in Threads : pc[t] = "send" /\ cur[t] = n => n \in late'
  BY <1>1
<1>7. SendFits'
  BY <1>1, <1>3, <1>4, <1>5, <1>6, Zenon DEF IInv, SendFits
<1>8. HeapFits'
  <2>1. HeapIsOwned => HeapIsOwned'
    BY CoreStays DEF TimerExpires
  <2> QED BY <2>1, HeapStep DEF IInv, TimerExpires
<1> QED BY <1>3, <1>5, <1>7, <1>8, TimerStep DEF TimerExpires

----------------------------------------------------------------------------
(* The theorems.                                                           *)

LEMMA NextIInv == IInv /\ [Next]_vars => IInv'
<1> SUFFICES ASSUME IInv, [Next]_vars PROVE IInv'
  OBVIOUS
<1>1. ASSUME NEW t \in Threads, Call(t) PROVE IInv'
  <2>1. ASSUME NEW topic \in Topics, NEW handler \in Handlers, Subscribe(t, topic, handler)
        PROVE  IInv'
    BY <2>1, SubscribeIInv
  <2>2. ASSUME NEW topic \in Topics, Unsubscribe(t, topic) PROVE IInv'
    BY <2>2, UnsubscribeIInv
  <2>3. CASE UnsubscribeRequest(t)
    BY <2>3, UnsubscribeRequestIInv
  <2>4. CASE UnsubscribeFails(t)
    BY <2>4, UnsubscribeFailsIInv
  <2>5. CASE Push(t)
    BY <2>5, PushIInv
  <2>6. CASE PushFails(t)
    BY <2>6, PushFailsIInv
  <2>7. CASE Send(t)
    BY <2>7, SendIInv
  <2>8. CASE SendFails(t)
    BY <2>8, SendFailsIInv
  <2> QED BY <1>1, <2>1, <2>2, <2>3, <2>4, <2>5, <2>6, <2>7, <2>8 DEF Call
<1>2. CASE HandleSuback
  BY <1>2, HandleSubackIInv
<1>3. CASE HandleUnsuback
  BY <1>3, HandleUnsubackIInv
<1>4. CASE sub_info_proc
  BY <1>4, sub_info_procIInv
<1>5. CASE Disconnect
  BY <1>5, DisconnectIInv
<1>6. CASE Reconnect
  BY <1>6, ReconnectIInv
<1>7. CASE ResubscribeSkip
  BY <1>7, ResubscribeSkipIInv
<1>8. CASE ResubscribeRead
  BY <1>8, ResubscribeReadIInv
<1>9. CASE ResubscribeCopy
  BY <1>9, ResubscribeCopyIInv
<1>10. CASE ResubscribeFails
  BY <1>10, ResubscribeFailsIInv
<1>11. CASE ServerAnswers
  BY <1>11, ServerAnswersIInv
<1>12. ASSUME NEW n \in Requests, TimerExpires(n) PROVE IInv'
  BY <1>12, TimerExpiresIInv
<1>13. CASE UNCHANGED vars
  <2>1. UNCHANGED <<is_connected, callVars, heap, list, node_state, slotVars,
                    ypc, itr, ptr, connVars, disconnects, wild, raced, events,
                    lost, used_freed, asked, resub_failed>>
    BY <1>13 DEF vars, callVars, slotVars, connVars
  <2>2. SendFits' /\ expired' \in [Requests -> BOOLEAN]
    BY <1>13, Zenon DEF IInv, SendFits, FlagsOK, vars
  <2>3. late' = late /\ late' \subseteq Requests
    BY <1>13, Zenon DEF IInv, FlagsOK, vars
  <2>4. HeapFits'
    <3>1. HeapIsOwned => HeapIsOwned'
      BY <2>1, CoreStays
    <3> QED BY <2>1, <2>3, <3>1, Zenon DEF IInv, HeapFits
  <2> QED BY <2>1, <2>2, <2>3, <2>4, TimerStep
<1> QED BY <1>1, <1>2, <1>3, <1>4, <1>5, <1>6, <1>7, <1>8, <1>9, <1>10, <1>11,
           <1>12, <1>13 DEF Next, Yield

LEMMA SpecIInv == Spec => []IInv
BY InitIInv, NextIInv, PTL DEF Spec

\* sub_handles never has two entries with the same filter and handlers.
THEOREM NoTwinEntries == Spec => []EntriesDistinct
<1>1. IInv => EntriesDistinct
  BY DEF IInv, EntryFits
<1> QED BY <1>1, SpecIInv, PTL

\* No subscription is reported both as done and as timed out.
THEOREM ReportedOneWay == Spec => []OneOutcome
<1>1. IInv => OneOutcome
  BY DEF IInv, EventFits
<1> QED BY <1>1, SpecIInv, PTL

\* After a reconnection every topic of sub_handles has been asked for, unless
\* resubscribe gave up or a wild pointer was freed.
THEOREM ResubscribeCovers == Spec => []ReconnectAsksAgain
<1>1. IInv => ReconnectAsksAgain
  <2> SUFFICES ASSUME IInv, is_connected, ypc # "resub", ~resub_failed, ~wild,
                      NEW i \in Slots, topic_filter[i] # NULL
               PROVE  req[topic_filter[i]].topic \in asked
    BY Zenon DEF ReconnectAsksAgain
  <2>1. AskedBefore(MAX_MESSAGE_HANDLERS + 1)
    BY Zenon DEF IInv, AskFits
  <2>2. i < MAX_MESSAGE_HANDLERS + 1
    BY Sizes DEF Slots
  <2> QED BY <2>1, <2>2 DEF AskedBefore
<1> QED BY <1>1, SpecIInv, PTL

\* Every topic filter on the heap has exactly one owner and a freed one none,
\* whichever thread is where.  A freed filter is used again only when a request
\* timed out before its send failed, or when unsubscribe freed it under the
\* pointer of resubscribe.  Nothing is claimed once an UNSUBACK for a node
\* that was gone has freed a wild pointer, and a filter that found
\* sub_handles full has no owner.
THEOREM FiltersAreOwned == Spec => []FilterOwnership
<1>1. IInv => FilterOwnership
  <2> SUFFICES ASSUME IInv, ~wild PROVE FilterOwnership
    BY Zenon DEF FilterOwnership
  <2>0. used_freed \subseteq late \cup raced
    BY Zenon DEF IInv, HeapFits
  <2> SUFFICES ASSUME used_freed = {}
               PROVE  \A n \in Requests : Cardinality(Owners(n)) =
                        IF heap[n] = "live" /\ n \notin lost THEN 1 ELSE 0
    BY <2>0, Zenon DEF FilterOwnership
  <2>1. HeapIsOwned
    BY Zenon DEF IInv, HeapFits
  <2>2. ASSUME NEW n \in Requests
        PROVE  Cardinality(Owners(n)) = IF heap[n] = "live" /\ n \notin lost THEN 1 ELSE 0
    <3> DEFINE O == Owners(n)
               C == {<<"call", t>> : t \in {u \in Threads : pc[u] = "lock" /\ cur[u] = n}}
               W == {<<"node", m>> : m \in {k \in list :
                                              k = n /\ node_state[k] = "NORMAL"}}
               E == {<<"entry", i>> : i \in {j \in Slots : topic_filter[j] = n}}
    <3>1. O = C \cup W \cup E
      BY DEF Owners
    <3>2. /\ ~Calling(n) => C = {}
          /\ ~Waiting(n) => W = {}
          /\ ~Entered(n) => E = {}
      BY DEF Calling, Waiting, Entered
    <3>3. /\ Calling(n) => \E t : C = {<<"call", t>>}
          /\ Waiting(n) => W = {<<"node", n>>}
          /\ Entered(n) => \E i : E = {<<"entry", i>>}
      <4>1. ASSUME Calling(n) PROVE \E t : C = {<<"call", t>>}
        <5>1. PICK t \in Threads : pc[t] = "lock" /\ cur[t] = n
          BY <4>1 DEF Calling
        <5>2. \A u \in Threads : pc[u] = "lock" /\ cur[u] = n => u = t
          BY <5>1 DEF IInv, CallFits, InCall
        <5>3. {u \in Threads : pc[u] = "lock" /\ cur[u] = n} = {t}
          BY <5>1, <5>2
        <5>4. C = {<<"call", t>>}
          BY <5>3
        <5> QED BY <5>4
      <4>2. Waiting(n) => W = {<<"node", n>>}
        BY DEF Waiting
      <4>3. ASSUME Entered(n) PROVE \E i : E = {<<"entry", i>>}
        <5>1. PICK i \in Slots : topic_filter[i] = n
          BY <4>3 DEF Entered
        <5>2. n # NULL
          BY Sizes
        <5>3. \A j \in Slots : topic_filter[j] = n => j = i
          BY <5>1, <5>2 DEF IInv, EntryFits, EntriesDistinct
        <5>4. {j \in Slots : topic_filter[j] = n} = {i}
          BY <5>1, <5>3
        <5>5. E = {<<"entry", i>>}
          BY <5>4
        <5> QED BY <5>5
      <4> QED BY <4>1, <4>2, <4>3
    <3>4. /\ ~(Calling(n) /\ Waiting(n)) /\ ~(Calling(n) /\ Entered(n))
          /\ ~(Waiting(n) /\ Entered(n))
          /\ n \in lost => ~Calling(n) /\ ~Waiting(n) /\ ~Entered(n)
      <4>1. Calling(n) => n \notin list /\ node_state[n] = "NORMAL"
        BY DEF Calling, IInv, CallFits, InCall
      <4>2. Entered(n) => node_state[n] = "INVALID" /\ n \notin lost
        BY Sizes DEF Entered, IInv, EntryFits
      <4>3. n \in lost => node_state[n] = "INVALID"
        BY DEF IInv, EntryFits
      <4> QED BY <4>1, <4>2, <4>3 DEF Waiting
    <3> HIDE DEF O, C, W, E
    <3>5. CASE heap[n] = "live" /\ n \notin lost
      <4>1. \E x : O = {x}
        <5>1. Calling(n) \/ Waiting(n) \/ Entered(n)
          BY <2>1, <3>5 DEF HeapIsOwned, Owned
        <5> QED BY <3>1, <3>2, <3>3, <3>4, <5>1
      <4>2. Cardinality(O) = 1
        BY <4>1, FS_Singleton
      <4> QED BY <3>5, <4>2 DEF O
    <3>6. CASE ~(heap[n] = "live" /\ n \notin lost)
      <4>1. ~Calling(n) /\ ~Waiting(n) /\ ~Entered(n)
        BY <2>1, <3>4, <3>6 DEF HeapIsOwned, Owned
      <4>2. O = {}
        BY <3>1, <3>2, <4>1
      <4>3. Cardinality(O) = 0
        BY <4>2, FS_EmptySet
      <4> QED BY <3>6, <4>3 DEF O
    <3> QED BY <3>5, <3>6
  <2> QED BY <2>2
<1> QED BY <1>1, SpecIInv, PTL

LEMMA NarrowSeq ==
    ASSUME NEW S, NEW T, NEW s \in Seq(S), \A i \in DOMAIN s : s[i] \in T
    PROVE  s \in Seq(T)
<1>1. Len(s) \in Nat /\ DOMAIN s = 1..Len(s) /\ s \in [1..Len(s) -> S]
  BY LenProperties
<1>2. s \in [1..Len(s) -> T]
  BY <1>1
<1> QED BY <1>1, <1>2, SeqDef

\* Every field of the tables, the list, the calls and the connection keeps its
\* range; no packet is under way for a request that was not made.
THEOREM TypeCorrect == Spec => []TypeOK
<1>1. IInv => TypeOK
  <2> SUFFICES ASSUME IInv PROVE TypeOK
    OBVIOUS
  <2>1. to_server \in Seq(1..requests)
    <3>1. \A i \in DOMAIN to_server : to_server[i] \in 1..requests
      BY DEF IInv, ChannelFits, Elems
    <3>2. to_server \in Seq(Requests)
      BY DEF IInv, LinesOK
    <3> QED BY <3>1, <3>2, NarrowSeq
  <2>2. to_client \in Seq([n : 1..requests, granted : BOOLEAN])
    <3>1. \A i \in DOMAIN to_client : to_client[i].n \in 1..requests
      BY DEF IInv, ChannelFits, Named
    <3>2. to_client \in Seq(Acks)
      BY DEF IInv, LinesOK
    <3>3. \A i \in DOMAIN to_client : to_client[i] \in Acks
      <4>1. to_client \in [1..Len(to_client) -> Acks]
        BY <3>2, LenProperties
      <4> QED BY <4>1
    <3>4. \A i \in DOMAIN to_client :
            to_client[i] \in [n : 1..requests, granted : BOOLEAN]
      BY <3>1, <3>3 DEF Acks
    <3> QED BY <3>2, <3>4, NarrowSeq
  <2> QED BY <2>1, <2>2, Zenon DEF IInv, CallsOK, TablesOK, LinesOK, FlagsOK, Kinds,
                                   Reports, TypeOK
<1> QED BY <1>1, SpecIInv, PTL
============================================================================
