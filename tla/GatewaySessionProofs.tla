----------------------- MODULE GatewaySessionProofs -----------------------
(***************************************************************************)
(* Proofs about GatewaySession, for any finite set of subdevices, any      *)
(* number of turns of a wait, and any number of calls and pushes.          *)
(***************************************************************************)
EXTENDS GatewaySession, TLAPS, SequenceTheorems, FiniteSetTheorems,
        WellFoundedInduction

\* The elements of a sequence, and that it has each once.
Elems(s) == {s[i] : i \in DOMAIN s}
Distinct(s) == \A i, j \in DOMAIN s : s[i] = s[j] => i = j

\* Messages: results carry the number of their request, pushes NoCall.
Pushed == {"change", "unbind_all", "search_devices"}
Messages == [type : Ops \cup Pushed, devs : Seq(Devices),
             result : {SUCCESS, ERROR}, n : 0..MaxCalls]
Named(s) == {s[i].n : i \in DOMAIN s}
OneEach(s) == \A i, j \in DOMAIN s : s[i].n = s[j].n /\ s[i].n # NoCall => i = j

Kinds == [op : Ops, dev : Devices \cup {NoDevice}]
Replies == [client_id : Devices \cup {NoDevice}, result : {PENDING, SUCCESS, ERROR}]
Sessions == {"online", "offline"}

\* The typed part of the state, in three parts.
CallsOK ==
    /\ pc \in {"subscribe", "subscribe_yield", "idle", "publish", "wait",
               "yield", "gone", "undefined"}
    /\ sync_status \in {PENDING, SUCCESS, ERROR}
    /\ loop_count \in 0..(GATEWAY_LOOP_MAX_COUNT + 1)
    /\ pc \in {"yield", "subscribe_yield"} => loop_count <= GATEWAY_LOOP_MAX_COUNT
    /\ res \in {PENDING, SUCCESS, ERROR}
    /\ calls \in 0..MaxCalls
    /\ req \in [Calls -> Kinds]
    /\ rc \in {PENDING, SUCCESS, ERROR}

FieldsOK ==
    /\ session \in [Devices -> {"none", "INIT", "ONLINE"}]
    /\ reply \in [Ops -> Replies]
    /\ answered \in [Ops -> 0..MaxCalls]
    /\ bind_list \in Seq(Devices)
    /\ subdev_bindlist \in Seq(Devices)
    /\ listed \in Seq(Devices)
    /\ touched \in 0..2
    /\ unprepared \subseteq Devices
    /\ freed \subseteq Devices

ServerOK ==
    /\ to_server \in Seq(Calls)
    /\ to_client \in Seq(Messages)
    /\ online \subseteq Devices
    /\ bound \subseteq Devices
    /\ pushes \in 0..MaxPushes
    /\ given_up \subseteq 1..calls
    /\ apart \subseteq Devices

\* The running call: it waits for the result of a request that it made, in a
\* field it has reset.
Running == pc \in {"publish", "wait", "yield"}
CallFits ==
    /\ \A k \in 1..calls : req[k].dev = NoDevice <=> req[k].op = "describe_sub_devices"
    /\ Running => calls >= 1 /\ res = PENDING /\ reply[op].client_id = dev
    /\ pc = "publish" => reply[op].result = PENDING

\* A request is on the connection at most once, in one direction; a message
\* with a number is the result of that request.
InFlight(k) == k \in Elems(to_server) \/ k \in Named(to_client)
ChannelFits ==
    /\ Distinct(to_server) /\ OneEach(to_client)
    /\ \A k \in Elems(to_server) : k \in 1..calls /\ k \notin Named(to_client)
    /\ pc = "publish" => ~InFlight(calls)
    /\ \A m \in Elems(to_client) : IF m.type \in Pushed THEN m.n = NoCall ELSE
         /\ m.n \in 1..calls /\ req[m.n].op = m.type
         /\ m.type # "describe_sub_devices" => m.devs[1] = req[m.n].dev
    /\ \A m \in Elems(to_client) : m.type = "unbind_all" => Devices \subseteq apart

\* The two sides may disagree about d and all the subdevices whose name it
\* begins.
Doubtful(d) == \A e \in Devices : d <= e => e \in apart

\* A request that outlived its call was given up, and its subdevices are
\* marked; one whose result was stored was sent and is not under way any
\* more.
LateFits ==
    /\ \A k \in 1..calls : InFlight(k) /\ ~(Running /\ k = calls) =>
         /\ k \in given_up
         /\ req[k].op \in Sessions => Doubtful(req[k].dev)
    /\ \A o \in Ops : answered[o] # NoCall =>
         answered[o] \in 1..calls /\ ~InFlight(answered[o])
    /\ pc = "publish" => \A o \in Ops : answered[o] # calls

\* What is stored for the running call is its own result or a late one.
AnswerFits ==
    Running /\ reply[op].result # PENDING =>
      /\ answered[op] # NoCall /\ OwnOrLate(answered[op])
      /\ answered[op] # calls /\ op \in Sessions => Doubtful(dev)

\* Only the subdevice that is being brought online has a half-open session,
\* and those whose Online was not sent.  A session in use is there, or has
\* been freed inside the call.
Opening(d) == Running /\ op = "online" /\ dev = d
SettleFits ==
    \A d \in Devices : session[d] = "INIT" => Opening(d) \/ d \in unprepared
FreedFits ==
    /\ Running /\ op \in Sessions => session[dev] # "none" \/ dev \in freed
    /\ pc = "undefined" => dev \in freed

\* A subdevice that is not marked: the two sides agree about it, and while it
\* is brought online or offline, they will when the result is in.  (To take
\* a half-open session offline changes nothing the two could agree about.)
Changing(d) ==
    Running /\ op \in Sessions /\ dev = d /\ (op = "offline" => session[d] # "INIT")
Granted(result) == result = SUCCESS <=> op = "online"
AgreeFits == pc # "gone" => \A d \in Devices \ apart :
    IF Changing(d)
    THEN /\ session[d] = IF op = "online" THEN "INIT" ELSE "ONLINE"
         /\ pc = "publish" \/ calls \in Elems(to_server) =>
              (d \in online <=> op = "offline")
         /\ \A m \in Elems(to_client) : m.n = calls =>
              (d \in online <=> Granted(m.result))
         /\ reply[op].result # PENDING => (d \in online <=> Granted(reply[op].result))
    ELSE session[d] = "ONLINE" <=> d \in online

\* bind_list while the devices are being listed.
ListFits ==
    Running /\ op = "describe_sub_devices" =>
      /\ touched = 0 => bind_list = << >>
      /\ reply[op].result # PENDING =>
           touched >= 1 /\ (touched = 1 => bind_list = Reverse(listed))

IInv == /\ CallsOK /\ FieldsOK /\ ServerOK /\ CallFits /\ ChannelFits /\ LateFits
        /\ AnswerFits /\ SettleFits /\ FreedFits /\ AgreeFits /\ ListFits

----------------------------------------------------------------------------
(* Codes, numbers and messages.                                            *)

LEMMA Codes ==
    /\ PENDING # SUCCESS /\ PENDING # ERROR /\ SUCCESS # ERROR
    /\ SUCCESS = 0 /\ ERROR = 1 /\ NoCall = 0 /\ NoDevice = 0
BY DEF PENDING, SUCCESS, ERROR, NoCall, NoDevice

LEMMA Sizes ==
    /\ GATEWAY_LOOP_MAX_COUNT \in Nat /\ MaxCalls \in Nat /\ MaxPushes \in Nat
    /\ \A d \in Devices : d \in Nat /\ d # NoDevice
    /\ NoDevice \notin Devices /\ NoDevice \in Nat
BY GatewayAssumption DEF NoDevice

\* Requests made so far are requests, and the next one is new.
LEMMA MadeAreCalls ==
    ASSUME calls \in 0..MaxCalls
    PROVE  /\ \A k \in 1..calls : k \in Calls /\ k # NoCall
           /\ calls >= 1 => calls \in 1..calls
           /\ calls + 1 \notin 1..calls /\ calls + 1 # NoCall
           /\ calls < MaxCalls => calls + 1 \in Calls
BY Sizes DEF Calls, NoCall

\* Op and dev are those of the last request.
LEMMA OpIs ==
    ASSUME IInv, Running
    PROVE  /\ op \in Ops /\ dev \in Devices \cup {NoDevice} /\ dev \in Nat
           /\ dev = NoDevice <=> op = "describe_sub_devices"
           /\ calls \in 1..calls /\ calls \in Calls /\ reply[op] \in Replies
           /\ reply[op].client_id = dev
<1>1. calls \in 1..calls /\ calls \in Calls
  BY MadeAreCalls DEF IInv, CallsOK, CallFits
<1>2. req[calls] \in Kinds
  BY <1>1 DEF IInv, CallsOK
<1>3. op \in Ops /\ dev \in Devices \cup {NoDevice}
  BY <1>2 DEF op, dev, Kinds
<1>4. dev = NoDevice <=> op = "describe_sub_devices"
  BY <1>1 DEF IInv, CallFits, op, dev
<1> QED BY <1>1, <1>3, <1>4, Sizes DEF IInv, CallFits, FieldsOK

LEMMA OpStays ==
    ASSUME UNCHANGED <<calls, req>>
    PROVE  op' = op /\ dev' = dev
BY DEF op, dev

LEMMA MessageIs ==
    /\ \A m \in Messages : /\ m.type \in Ops \cup Pushed /\ m.devs \in Seq(Devices)
                           /\ m.result \in {SUCCESS, ERROR} /\ m.n \in 0..MaxCalls
    /\ \A t \in Ops \cup Pushed, s \in Seq(Devices), r \in {SUCCESS, ERROR},
          k \in 0..MaxCalls :
         /\ Message(t, s, r, k) \in Messages
         /\ Message(t, s, r, k).type = t /\ Message(t, s, r, k).devs = s
         /\ Message(t, s, r, k).result = r /\ Message(t, s, r, k).n = k
BY DEF Messages, Message

LEMMA ReplyIs ==
    \A c \in Devices \cup {NoDevice}, r \in {PENDING, SUCCESS, ERROR} :
      /\ [client_id |-> c, result |-> r] \in Replies
      /\ [client_id |-> c, result |-> r].client_id = c
      /\ [client_id |-> c, result |-> r].result = r
BY DEF Replies

----------------------------------------------------------------------------
(* Sequences.                                                              *)

\* Taking the first request off the connection.
LEMMA TakeRequest ==
    ASSUME NEW S, NEW s \in Seq(S), s # << >>, Distinct(s)
    PROVE  /\ Tail(s) \in Seq(S) /\ Head(s) \in S /\ Distinct(Tail(s))
           /\ Head(s) \in Elems(s) /\ Head(s) \notin Elems(Tail(s))
           /\ \A x \in Elems(Tail(s)) : x \in Elems(s)
<1>1. /\ Head(s) = s[1] /\ Head(s) \in S /\ Tail(s) \in Seq(S) /\ Len(s) \in Nat
      /\ Len(Tail(s)) = Len(s) - 1 /\ 1 \in DOMAIN s
      /\ \A i \in 1..Len(Tail(s)) : Tail(s)[i] = s[i + 1]
  BY HeadTailProperties, LenProperties
<1>2. DOMAIN s = 1..Len(s) /\ DOMAIN Tail(s) = 1..(Len(s) - 1)
  BY <1>1, LenProperties
<1>3. ASSUME NEW i \in 1..(Len(s) - 1)
      PROVE  i + 1 \in 1..Len(s) /\ i + 1 # 1 /\ Tail(s)[i] = s[i + 1]
  BY <1>1
<1>4. \A x \in Elems(Tail(s)) : x \in Elems(s)
  BY <1>2, <1>3 DEF Elems
<1>5. Distinct(Tail(s)) /\ Head(s) \notin Elems(Tail(s))
  BY <1>1, <1>2 DEF Distinct, Elems
<1> QED BY <1>1, <1>4, <1>5 DEF Elems

\* The others stay.
LEMMA TakeRest ==
    ASSUME NEW S, NEW s \in Seq(S), s # << >>, NEW x \in Elems(s), x # Head(s)
    PROVE  x \in Elems(Tail(s))
<1>1. /\ Head(s) = s[1] /\ Tail(s) \in Seq(S) /\ Len(s) \in Nat
      /\ Len(Tail(s)) = Len(s) - 1
      /\ \A i \in 1..Len(Tail(s)) : Tail(s)[i] = s[i + 1]
  BY HeadTailProperties, LenProperties
<1>2. DOMAIN s = 1..Len(s) /\ DOMAIN Tail(s) = 1..(Len(s) - 1)
  BY <1>1, LenProperties
<1>3. PICK j \in 1..Len(s) : x = s[j]
  BY <1>2 DEF Elems
<1>4. j - 1 \in 1..(Len(s) - 1) /\ Tail(s)[j - 1] = s[j]
  BY <1>1, <1>3
<1> QED BY <1>2, <1>3, <1>4 DEF Elems

\* Putting a request on the connection.
LEMMA AddRequest ==
    ASSUME NEW S, NEW s \in Seq(S), NEW x \in S
    PROVE  /\ Append(s, x) \in Seq(S)
           /\ Elems(Append(s, x)) = Elems(s) \cup {x}
           /\ x \notin Elems(s) /\ Distinct(s) => Distinct(Append(s, x))
<1>1. /\ Append(s, x) \in Seq(S) /\ Len(Append(s, x)) = Len(s) + 1 /\ Len(s) \in Nat
      /\ \A i \in 1..Len(s) : Append(s, x)[i] = s[i]
      /\ Append(s, x)[Len(s) + 1] = x
  BY AppendProperties, LenProperties
<1>2. DOMAIN s = 1..Len(s) /\ DOMAIN Append(s, x) = 1..(Len(s) + 1)
  BY <1>1, LenProperties
<1> QED BY <1>1, <1>2 DEF Elems, Distinct

\* The same two facts for messages.
LEMMA TakeMessage ==
    ASSUME NEW s \in Seq(Messages), s # << >>, OneEach(s)
    PROVE  /\ Tail(s) \in Seq(Messages) /\ Head(s) \in Messages /\ OneEach(Tail(s))
           /\ Head(s) \in Elems(s) /\ Head(s).n \in Named(s)
           /\ Head(s).n # NoCall => Head(s).n \notin Named(Tail(s))
           /\ \A x \in Named(Tail(s)) : x \in Named(s)
           /\ \A x \in Elems(Tail(s)) : x \in Elems(s)
<1>1. /\ Head(s) = s[1] /\ Head(s) \in Messages /\ Tail(s) \in Seq(Messages)
      /\ Len(s) \in Nat /\ Len(Tail(s)) = Len(s) - 1 /\ 1 \in DOMAIN s
      /\ \A i \in 1..Len(Tail(s)) : Tail(s)[i] = s[i + 1]
  BY HeadTailProperties, LenProperties
<1>2. DOMAIN s = 1..Len(s) /\ DOMAIN Tail(s) = 1..(Len(s) - 1)
  BY <1>1, LenProperties
<1>3. ASSUME NEW i \in 1..(Len(s) - 1)
      PROVE  i + 1 \in 1..Len(s) /\ i + 1 # 1 /\ Tail(s)[i] = s[i + 1]
  BY <1>1
<1>4. /\ \A x \in Named(Tail(s)) : x \in Named(s)
      /\ \A x \in Elems(Tail(s)) : x \in Elems(s)
  BY <1>2, <1>3 DEF Named, Elems
<1>5. OneEach(Tail(s)) /\ (Head(s).n # NoCall => Head(s).n \notin Named(Tail(s)))
  BY <1>1, <1>2 DEF OneEach, Named
<1> QED BY <1>1, <1>4, <1>5 DEF Named, Elems

LEMMA AddMessage ==
    ASSUME NEW s \in Seq(Messages), NEW m \in Messages
    PROVE  /\ Append(s, m) \in Seq(Messages)
           /\ Named(Append(s, m)) = Named(s) \cup {m.n}
           /\ Elems(Append(s, m)) = Elems(s) \cup {m}
           /\ (m.n = NoCall \/ m.n \notin Named(s)) /\ OneEach(s) =>
                OneEach(Append(s, m))
<1>1. /\ Append(s, m) \in Seq(Messages) /\ Len(Append(s, m)) = Len(s) + 1
      /\ Len(s) \in Nat
      /\ \A i \in 1..Len(s) : Append(s, m)[i] = s[i]
      /\ Append(s, m)[Len(s) + 1] = m
  BY AppendProperties, LenProperties
<1>2. DOMAIN s = 1..Len(s) /\ DOMAIN Append(s, m) = 1..(Len(s) + 1)
  BY <1>1, LenProperties
<1> QED BY <1>1, <1>2 DEF Named, OneEach, Elems

LEMMA NothingSent ==
    /\ Elems(<< >>) = {} /\ Distinct(<< >>) /\ \A S : << >> \in Seq(S)
    /\ Named(<< >>) = {} /\ OneEach(<< >>)
BY DEF Elems, Distinct, Named, OneEach

\* The message of an element.
LEMMA ElemsNamed ==
    ASSUME NEW s \in Seq(Messages)
    PROVE  \A m \in Elems(s) : m \in Messages /\ m.n \in Named(s)
<1>1. \A i \in DOMAIN s : s[i] \in Messages
  BY ElementOfSeq, LenProperties
<1> QED BY <1>1 DEF Elems, Named

\* A list in front of another one.
LEMMA ReverseIs ==
    ASSUME NEW S, NEW s \in Seq(S)
    PROVE  Reverse(s) \in Seq(S) /\ Reverse(s) \o << >> = Reverse(s)
<1>1. Reverse(s) \in Seq(S)
  BY SMT DEF Reverse
<1> QED BY <1>1, ConcatEmptySeq

\* What the server lists.
LEMMA SetToSeqIs ==
    ASSUME NEW S \in SUBSET Devices
    PROVE  SetToSeq(S) \in Seq(Devices)
<1>1. IsFiniteSet(S)
  BY GatewayAssumption, FS_Subset
<1>2. PICK n \in Nat : ExistsBijection(1..n, S)
  BY <1>1, FS_NatBijection
<1>3. Cardinality(S) = n
  BY <1>2, FS_CountingElements
<1>4. PICK f : f \in Bijection(1..n, S)
  BY <1>2 DEF ExistsBijection
<1>5. f \in [1..n -> S] /\ IsInjective(f)
  BY <1>4 DEF Bijection, Injection, Surjection, IsInjective
<1>6. SetToSeq(S) \in [1..n -> S]
  BY <1>3, <1>5 DEF SetToSeq
<1> QED BY <1>6

\* A non-empty set of naturals has a least element.
LEMMA LeastExists ==
    ASSUME NEW T \in SUBSET Nat, T # {}
    PROVE  \E x \in T : \A y \in T : x <= y
<1> DEFINE R == {ss \in Nat \X Nat : ss[1] < ss[2]}
<1>1. IsWellFoundedOn(R, Nat)
  BY NatLessThanWellFounded DEF OpToRel
<1>2. PICK x \in T : \A y \in T : ~(<<y, x>> \in R)
  <2> HIDE DEF R
  <2> QED BY <1>1, WFMin
<1>3. ASSUME NEW y \in T PROVE x <= y
  <2>1. <<y, x>> \notin R
    <3> HIDE DEF R
    <3> QED BY <1>2
  <2>2. y \in Nat /\ x \in Nat
    OBVIOUS
  <2>3. ~(y < x)
    BY <2>1, <2>2
  <2> QED BY <2>2, <2>3
<1> QED BY <1>3

\* Taking a subdevice off bind_list.
LEMMA RemoveFirstIs ==
    ASSUME NEW S, NEW s \in Seq(S), NEW e
    PROVE  RemoveFirst(s, e) \in Seq(S)
<1> DEFINE I == {i \in 1..Len(s) : s[i] = e}
<1>1. CASE I = {}
  BY <1>1 DEF RemoveFirst
<1>2. CASE I # {}
  <2>1. I \in SUBSET Nat
    OBVIOUS
  <2>2. \E x \in I : \A y \in I : x <= y
    BY <1>2, <2>1, LeastExists
  <2>3. Min(I) \in I
    <3> HIDE DEF I
    <3> QED BY <2>2 DEF Min
  <2> DEFINE k == Min(I)
  <2>4. k \in 1..Len(s)
    BY <2>3
  <2> HIDE DEF k
  <2>5. RemoveAt(s, k) \in Seq(S)
    BY <2>4 DEF RemoveAt
  <2>6. SelectInSeq(s, LAMBDA v : v = e) = k
    BY <1>2 DEF SelectInSeq, k
  <2>7. \E i \in 1..Len(s) : s[i] = e
    BY <1>2
  <2> QED BY <2>5, <2>6, <2>7 DEF RemoveFirst
<1> QED BY <1>1, <1>2
----------------------------------------------------------------------------
(* The invariant holds initially.                                          *)

LEMMA InitIInv == Init => IInv
<1> SUFFICES ASSUME Init PROVE IInv
  OBVIOUS
<1> USE NothingSent, Sizes
<1>1. CallsOK
  <2>1. NoRequest \in Kinds
    BY DEF NoRequest, Kinds, Ops
  <2> HIDE DEF NoRequest, Kinds
  <2> QED BY <2>1 DEF Init, CallsOK
<1>2. FieldsOK
  <2>1. [client_id |-> NoDevice, result |-> SUCCESS] \in Replies
    BY ReplyIs
  <2> QED BY <2>1, Codes DEF Init, FieldsOK
<1>3. ServerOK
  BY GatewayAssumption DEF Init, ServerOK
<1>4. /\ pc = "subscribe" /\ calls = 0 /\ to_server = << >> /\ to_client = << >>
      /\ \A d \in Devices : session[d] = "none"
      /\ \A o \in Ops : answered[o] = NoCall
      /\ online = {}
  BY DEF Init
<1>5. ~Running /\ 1..calls = {}
  BY <1>4 DEF Running
<1>6. /\ CallFits /\ ChannelFits /\ LateFits /\ AnswerFits /\ SettleFits
      /\ FreedFits /\ ListFits
  BY <1>4, <1>5 DEF CallFits, ChannelFits, LateFits, AnswerFits, SettleFits,
     FreedFits, ListFits
<1>7. AgreeFits
  BY <1>4, <1>5 DEF AgreeFits, Changing
<1> QED BY <1>1, <1>2, <1>3, <1>6, <1>7 DEF IInv

----------------------------------------------------------------------------
(* Calls keep the invariant.                                               *)

\* The steps of a wait: none of what the invariant relates changes, but for
\* the turns of the loop.
LEMMA TurnStep ==
    ASSUME IInv, Running' <=> Running, pc # "publish", pc' # "publish", pc # "gone",
           pc' # "undefined",
           CallsOK', UNCHANGED <<callVars, session, reply, listVars, connVars,
                                 serverVars, rc, answered, given_up, apart, openVars>>
    PROVE  IInv'
<1>1. /\ UNCHANGED <<res, calls, req, bind_list, subdev_bindlist, listed, touched>>
      /\ UNCHANGED <<to_server, to_client, online, bound, pushes>>
      /\ UNCHANGED <<unprepared, freed>>
  BY DEF callVars, listVars, connVars, serverVars, openVars
<1>2. op' = op /\ dev' = dev
  BY <1>1, OpStays
<1>3. FieldsOK' /\ ServerOK'
  BY <1>1 DEF IInv, FieldsOK, ServerOK
<1>4. CallFits' /\ ListFits'
  BY <1>1, <1>2 DEF IInv, CallFits, ListFits
<1>5. ChannelFits'
  BY <1>1 DEF IInv, ChannelFits
<1>6. LateFits'
  BY <1>1 DEF IInv, LateFits, InFlight, Doubtful
<1>7. AnswerFits'
  BY <1>1, <1>2 DEF IInv, AnswerFits, OwnOrLate, Doubtful
<1>8. SettleFits' /\ FreedFits' /\ AgreeFits'
  BY <1>1, <1>2 DEF IInv, SettleFits, FreedFits, Opening, AgreeFits, Changing, Granted
<1> QED BY <1>3, <1>4, <1>5, <1>6, <1>7, <1>8 DEF IInv

LEMMA SubscribeWaitIInv == IInv /\ SubscribeWait => IInv'
<1> SUFFICES ASSUME IInv, SubscribeWait PROVE IInv'
  OBVIOUS
<1>1. /\ pc = "subscribe" /\ pc' \in {"idle", "gone", "subscribe_yield"}
      /\ pc' = "subscribe_yield" => ~(loop_count > GATEWAY_LOOP_MAX_COUNT)
      /\ loop_count' \in {loop_count, 0}
      /\ UNCHANGED <<sync_status, res, calls, req, rc>>
  BY DEF SubscribeWait, callVars
<1>2. CallsOK'
  BY <1>1, Sizes DEF IInv, CallsOK
<1>3. ~Running /\ ~Running'
  BY <1>1 DEF Running
<1> QED BY <1>1, <1>2, <1>3, TurnStep DEF SubscribeWait

LEMMA SubscribeYieldIInv == IInv /\ SubscribeYield => IInv'
<1> SUFFICES ASSUME IInv, SubscribeYield PROVE IInv'
  OBVIOUS
<1>1. /\ pc = "subscribe_yield" /\ pc' = "subscribe" /\ loop_count' = loop_count + 1
      /\ sync_status' \in {PENDING, SUCCESS, ERROR}
      /\ UNCHANGED <<res, calls, req, rc>>
  BY DEF SubscribeYield, callVars
<1>2. CallsOK'
  BY <1>1, Sizes DEF IInv, CallsOK
<1>3. ~Running /\ ~Running'
  BY <1>1 DEF Running
<1> QED BY <1>1, <1>2, <1>3, TurnStep DEF SubscribeYield

LEMMA WaitTurnIInv == IInv /\ WaitTurn => IInv'
<1> SUFFICES ASSUME IInv, WaitTurn PROVE IInv'
  OBVIOUS
<1>1. /\ pc = "wait" /\ pc' = "yield" /\ loop_count <= GATEWAY_LOOP_MAX_COUNT
      /\ UNCHANGED <<sync_status, loop_count, res, calls, req, rc>>
  BY DEF WaitTurn, callVars
<1>2. CallsOK'
  BY <1>1, Sizes DEF IInv, CallsOK
<1>3. Running /\ Running'
  BY <1>1 DEF Running
<1> QED BY <1>1, <1>2, <1>3, TurnStep DEF WaitTurn

LEMMA YieldReturnsIInv == IInv /\ YieldReturns => IInv'
<1> SUFFICES ASSUME IInv, YieldReturns PROVE IInv'
  OBVIOUS
<1>1. /\ pc = "yield" /\ pc' = "wait" /\ loop_count' = loop_count + 1
      /\ UNCHANGED <<sync_status, res, calls, req, rc>>
  BY DEF YieldReturns, callVars
<1>2. CallsOK'
  BY <1>1, Sizes DEF IInv, CallsOK
<1>3. Running /\ Running'
  BY <1>1 DEF Running
<1> QED BY <1>1, <1>2, <1>3, TurnStep DEF YieldReturns

\* A call makes a request: what was under way before is late for it.
LEMMA RequestIInv ==
    ASSUME IInv, pc = "idle", calls < MaxCalls,
           NEW o \in Ops, NEW d \in Devices \cup {NoDevice}, Request(o, d),
           d = NoDevice <=> o = "describe_sub_devices",
           o = "online" => session[d] # "ONLINE" /\ session'[d] = "INIT",
           o = "offline" => session[d] # "none",
           session' \in [Devices -> {"none", "INIT", "ONLINE"}],
           \A e \in Devices : session'[e] = session[e] \/ (e = d /\ o = "online"),
           unprepared' = IF o = "online" THEN unprepared \ {d} ELSE unprepared,
           \/ UNCHANGED <<bind_list, touched>> /\ o # "describe_sub_devices"
           \/ bind_list' = << >> /\ touched' = 0,
           UNCHANGED <<sync_status, loop_count, subdev_bindlist, listed, connVars,
                       serverVars, rc, answered, given_up, apart, freed>>
    PROVE  IInv'
<1> DEFINE k == calls + 1
           new == [op |-> o, dev |-> d]
           blank == [client_id |-> d, result |-> PENDING]
<1>1. /\ calls' = k /\ req' = [req EXCEPT ![k] = new]
      /\ reply' = [reply EXCEPT ![o] = blank] /\ res' = PENDING /\ pc' = "publish"
      /\ UNCHANGED <<to_server, to_client, online, bound, pushes>>
  BY DEF Request, connVars, serverVars
<1>2. /\ k \in Calls /\ k \notin 1..calls /\ k # NoCall /\ calls' >= 1
      /\ 1..calls' = 1..calls \cup {k} /\ calls' \in 0..MaxCalls
      /\ \A j \in 1..calls : j \in Calls /\ j # k
  BY <1>1, MadeAreCalls, Sizes DEF IInv, CallsOK
<1>3. /\ new \in Kinds /\ new.op = o /\ new.dev = d /\ blank \in Replies
      /\ blank.client_id = d /\ blank.result = PENDING
  BY ReplyIs DEF Kinds
<1> HIDE DEF k, new, blank
<1>4. /\ req' \in [Calls -> Kinds] /\ req'[k] = new
      /\ \A j \in 1..calls : req'[j] = req[j]
      /\ reply' \in [Ops -> Replies] /\ reply'[o] = blank
  BY <1>1, <1>2, <1>3 DEF IInv, CallsOK, FieldsOK
<1>5. op' = o /\ dev' = d
  BY <1>1, <1>3, <1>4 DEF op, dev
<1>6. ~Running /\ Running' /\ k \notin Elems(to_server) /\ k \notin Named(to_client)
  <2>1. k \notin Named(to_client)
    <3>1. ASSUME NEW i \in DOMAIN to_client PROVE to_client[i].n # k
      <4>1. to_client[i] \in Elems(to_client) /\ to_client[i] \in Messages
        BY ElemsNamed DEF Elems, IInv, ServerOK
      <4> QED BY <1>2, <4>1 DEF IInv, ChannelFits
    <3> QED BY <3>1 DEF Named
  <2> QED BY <1>1, <1>2, <2>1 DEF Running, IInv, ChannelFits
<1>7. CallsOK'
  BY <1>1, <1>2, <1>4 DEF IInv, CallsOK
<1>8. FieldsOK'
  <2>1. bind_list' \in Seq(Devices) /\ touched' \in 0..2
    <3>1. << >> \in Seq(Devices)
      BY NothingSent, Zenon
    <3>2. bind_list \in Seq(Devices) /\ touched \in 0..2
      BY DEF IInv, FieldsOK
    <3>3. bind_list' \in {bind_list, << >>} /\ touched' \in {touched, 0}
      BY Zenon
    <3>4. bind_list' \in Seq(Devices)
      BY <3>1, <3>2, <3>3, Zenon
    <3> QED BY <3>2, <3>3, <3>4
  <2> QED BY <1>4, <2>1 DEF IInv, FieldsOK
<1>9. ServerOK'
  BY <1>1, <1>2 DEF IInv, ServerOK
<1>10. CallFits'
  BY <1>1, <1>2, <1>3, <1>4, <1>5 DEF IInv, CallFits
<1>11. ChannelFits'
  <2>1. ~InFlight(calls)'
    BY <1>1, <1>6 DEF InFlight
  <2> QED BY <1>1, <1>2, <1>4, <2>1 DEF IInv, ChannelFits
<1>12. LateFits'
  <2>1. \A j \in 1..calls : InFlight(j)' <=> InFlight(j)
    BY <1>1 DEF InFlight
  <2>2. \A e : Doubtful(e)' <=> Doubtful(e)
    BY DEF Doubtful
  <2> QED BY <1>1, <1>2, <1>4, <1>6, <2>1, <2>2 DEF IInv, LateFits
<1>13. AnswerFits'
  BY <1>3, <1>4, <1>5 DEF AnswerFits
<1>14. SettleFits' /\ FreedFits'
  <2>1. \A e \in Devices : session[e] = "INIT" => e \in unprepared
    BY <1>6 DEF IInv, SettleFits, Opening
  <2>2. SettleFits'
    BY <1>5, <1>6, <2>1 DEF SettleFits, Opening
  <2>3. o \in Sessions => session'[d] # "none"
    BY DEF Sessions
  <2> QED BY <1>1, <1>5, <2>2, <2>3 DEF FreedFits
<1>15. AgreeFits'
  <2>1. ASSUME NEW e \in Devices \ apart
        PROVE  session[e] = "ONLINE" <=> e \in online
    BY <1>6 DEF IInv, AgreeFits, Changing
  <2>2. ASSUME NEW m \in Elems(to_client) PROVE m.n # k
    BY <1>6, <2>2, ElemsNamed DEF IInv, ServerOK
  <2>3. ASSUME NEW e \in Devices \ apart, Changing(e)'
        PROVE  /\ session'[e] = IF o = "online" THEN "INIT" ELSE "ONLINE"
               /\ e \in online' <=> o = "offline"
    <3>1. /\ e = d /\ o \in Sessions /\ session[e] \in {"none", "INIT", "ONLINE"}
          /\ o = "offline" => session[e] # "INIT" /\ session'[e] = session[e]
      BY <1>5, <2>3 DEF Changing, IInv, FieldsOK
    <3> QED BY <1>1, <2>1, <3>1 DEF Sessions
  <2>4. ASSUME NEW e \in Devices \ apart, ~Changing(e)'
        PROVE  session'[e] = session[e]
    BY <1>5, <1>6, <2>4 DEF Changing, Sessions
  <2> QED BY <1>1, <1>3, <1>4, <1>5, <2>1, <2>2, <2>3, <2>4 DEF AgreeFits
<1>16. ListFits'
  BY <1>3, <1>4, <1>5 DEF ListFits
<1> QED BY <1>7, <1>8, <1>9, <1>10, <1>11, <1>12, <1>13, <1>14, <1>15, <1>16 DEF IInv

LEMMA OnlineIInv == ASSUME IInv, NEW d \in Devices, Online(d) PROVE IInv'
<1>1. /\ pc = "idle" /\ calls < MaxCalls /\ session[d] # "ONLINE"
      /\ Request("online", d)
      /\ session' = IF session[d] = "none" THEN [session EXCEPT ![d] = "INIT"] ELSE session
      /\ unprepared' = unprepared \ {d}
      /\ UNCHANGED <<sync_status, loop_count, listVars, connVars, serverVars, rc,
                     answered, given_up, apart, freed>>
  BY DEF Online
<1>2. session \in [Devices -> {"none", "INIT", "ONLINE"}]
  BY DEF IInv, FieldsOK
<1>3. session[d] \in {"none", "INIT"}
  BY <1>1, <1>2
<1>4. /\ session' \in [Devices -> {"none", "INIT", "ONLINE"}] /\ session'[d] = "INIT"
      /\ \A e \in Devices : session'[e] = session[e] \/ e = d
  BY <1>1, <1>2, <1>3
<1>5. d # NoDevice /\ "online" \in Ops
  BY Sizes DEF Ops
<1> HIDE DEF NoDevice
<1>6. UNCHANGED <<bind_list, touched, subdev_bindlist, listed>>
  BY <1>1 DEF listVars
<1> QED BY <1>1, <1>4, <1>5, <1>6, RequestIInv

LEMMA OfflineIInv == ASSUME IInv, NEW d \in Devices, Offline(d) PROVE IInv'
<1>1. /\ pc = "idle" /\ calls < MaxCalls /\ session[d] # "none"
      /\ Request("offline", d)
      /\ UNCHANGED <<sync_status, loop_count, session, listVars, connVars, serverVars,
                     rc, answered, given_up, apart, openVars>>
  BY DEF Offline
<1>2. session' \in [Devices -> {"none", "INIT", "ONLINE"}]
  BY <1>1 DEF IInv, FieldsOK
<1>3. d # NoDevice /\ "offline" \in Ops
  BY Sizes DEF Ops
<1> HIDE DEF NoDevice
<1>4. UNCHANGED <<bind_list, touched, subdev_bindlist, listed, unprepared, freed>>
  BY <1>1 DEF listVars, openVars
<1> QED BY <1>1, <1>2, <1>3, <1>4, RequestIInv

LEMMA BindUnbindIInv ==
    ASSUME IInv, NEW o \in {"bind", "unbind"}, NEW d \in Devices, BindUnbind(o, d)
    PROVE  IInv'
<1>1. /\ pc = "idle" /\ calls < MaxCalls /\ Request(o, d)
      /\ UNCHANGED <<sync_status, loop_count, session, listVars, connVars, serverVars,
                     rc, answered, given_up, apart, openVars>>
  BY DEF BindUnbind
<1>2. session' \in [Devices -> {"none", "INIT", "ONLINE"}]
  BY <1>1 DEF IInv, FieldsOK
<1>3. /\ d # NoDevice /\ o \in Ops /\ o # "describe_sub_devices" /\ o # "online"
      /\ o # "offline"
  BY Sizes DEF Ops
<1> HIDE DEF NoDevice
<1>4. UNCHANGED <<bind_list, touched, subdev_bindlist, listed, unprepared, freed>>
  BY <1>1 DEF listVars, openVars
<1> QED BY <1>1, <1>2, <1>3, <1>4, RequestIInv

LEMMA GetBindListIInv == IInv /\ GetBindList => IInv'
<1> SUFFICES ASSUME IInv, GetBindList PROVE IInv'
  OBVIOUS
<1> DEFINE d == NoDevice
           o == "describe_sub_devices"
<1>1. /\ pc = "idle" /\ calls < MaxCalls /\ Request(o, d)
      /\ bind_list' = << >> /\ touched' = 0
      /\ UNCHANGED <<sync_status, loop_count, session, subdev_bindlist, listed, connVars,
                     serverVars, rc, answered, given_up, apart, openVars>>
  BY DEF GetBindList
<1>2. session' \in [Devices -> {"none", "INIT", "ONLINE"}]
  BY <1>1 DEF IInv, FieldsOK
<1>3. o \in Ops /\ d \in Devices \cup {NoDevice} /\ o # "online" /\ o # "offline"
  BY DEF Ops
<1>4. UNCHANGED <<unprepared, freed>>
  BY <1>1 DEF openVars
<1> QED BY <1>1, <1>2, <1>3, <1>4, RequestIInv

\* A call that returns before it makes a request.
LEMMA OnlineUnpreparedIInv == ASSUME IInv, NEW d \in Devices, OnlineUnprepared(d) PROVE IInv'
<1>1. /\ pc = "idle" /\ session[d] # "ONLINE" /\ unprepared' = unprepared \cup {d}
      /\ session' = IF session[d] = "none" THEN [session EXCEPT ![d] = "INIT"] ELSE session
      /\ UNCHANGED <<pc, sync_status, loop_count, res, calls, req, reply, bind_list>>
      /\ UNCHANGED <<subdev_bindlist, listed, touched, to_server, to_client, online>>
      /\ UNCHANGED <<bound, pushes, rc, answered, given_up, apart, freed>>
  BY DEF OnlineUnprepared, callVars, listVars, connVars, serverVars
<1>2. op' = op /\ dev' = dev /\ ~Running /\ ~Running'
  BY <1>1, OpStays DEF Running
<1>3. /\ session' \in [Devices -> {"none", "INIT", "ONLINE"}]
      /\ session'[d] # "ONLINE" /\ \A e \in Devices : e # d => session'[e] = session[e]
  BY <1>1 DEF IInv, FieldsOK
<1>4. CallsOK' /\ FieldsOK' /\ ServerOK'
  BY <1>1, <1>3 DEF IInv, CallsOK, FieldsOK, ServerOK
<1>5. CallFits' /\ ListFits' /\ ChannelFits' /\ AnswerFits'
  BY <1>1, <1>2 DEF IInv, CallFits, ListFits, ChannelFits, AnswerFits
<1>6. LateFits'
  BY <1>1, <1>2 DEF IInv, LateFits, Doubtful, InFlight
<1>7. SettleFits' /\ FreedFits'
  BY <1>1, <1>2, <1>3 DEF IInv, SettleFits, FreedFits, Opening
<1>8. AgreeFits'
  BY <1>1, <1>2, <1>3 DEF IInv, AgreeFits, Changing
<1> QED BY <1>4, <1>5, <1>6, <1>7, <1>8 DEF IInv

LEMMA GetBindListUnpreparedIInv == IInv /\ GetBindListUnprepared => IInv'
<1> SUFFICES ASSUME IInv, GetBindListUnprepared PROVE IInv'
  OBVIOUS
<1>1. /\ pc = "idle" /\ bind_list' = << >>
      /\ UNCHANGED <<pc, sync_status, loop_count, res, calls, req, session, reply>>
      /\ UNCHANGED <<subdev_bindlist, listed, touched, to_server, to_client, online>>
      /\ UNCHANGED <<bound, pushes, rc, answered, given_up, apart, unprepared, freed>>
  BY DEF GetBindListUnprepared, callVars, connVars, serverVars, openVars
<1>2. op' = op /\ dev' = dev /\ ~Running /\ ~Running'
  BY <1>1, OpStays DEF Running
<1>3. bind_list' \in Seq(Devices)
  BY <1>1, NothingSent, Zenon
<1>4. CallsOK' /\ FieldsOK' /\ ServerOK'
  BY <1>1, <1>3 DEF IInv, CallsOK, FieldsOK, ServerOK
<1>5. CallFits' /\ ListFits' /\ ChannelFits' /\ AnswerFits'
  BY <1>1, <1>2 DEF IInv, CallFits, ListFits, ChannelFits, AnswerFits
<1>6. LateFits'
  BY <1>1, <1>2 DEF IInv, LateFits, Doubtful, InFlight
<1>7. SettleFits' /\ FreedFits' /\ AgreeFits'
  BY <1>1, <1>2 DEF IInv, SettleFits, FreedFits, Opening, AgreeFits, Changing
<1> QED BY <1>4, <1>5, <1>6, <1>7 DEF IInv

LEMMA PublishIInv == IInv /\ Publish => IInv'
<1> SUFFICES ASSUME IInv, Publish PROVE IInv'
  OBVIOUS
<1>1. /\ pc = "publish" /\ pc' = "wait" /\ to_server' = Append(to_server, calls)
      /\ UNCHANGED <<sync_status, loop_count, res, calls, req, session, reply>>
      /\ UNCHANGED <<bind_list, subdev_bindlist, listed, touched, to_client, online>>
      /\ UNCHANGED <<bound, pushes, rc, answered, given_up, apart, unprepared, freed>>
  BY DEF Publish, callVars, listVars, serverVars, openVars
<1>2. op' = op /\ dev' = dev /\ Running /\ Running'
  BY <1>1, OpStays DEF Running
<1>3. calls \in Calls /\ calls \in 1..calls
  BY <1>2, OpIs
<1>4. calls \notin Elems(to_server) /\ calls \notin Named(to_client)
  BY <1>1 DEF IInv, ChannelFits, InFlight
<1>5. /\ to_server' \in Seq(Calls) /\ Elems(to_server') = Elems(to_server) \cup {calls}
      /\ Distinct(to_server')
  BY <1>1, <1>3, <1>4, AddRequest DEF IInv, ServerOK, ChannelFits
<1>6. CallsOK' /\ FieldsOK' /\ ServerOK'
  BY <1>1, <1>5 DEF IInv, CallsOK, FieldsOK, ServerOK
<1>7. CallFits' /\ ListFits' /\ SettleFits' /\ FreedFits'
  BY <1>1, <1>2 DEF IInv, CallFits, ListFits, SettleFits, FreedFits, Opening
<1>8. ChannelFits'
  BY <1>1, <1>3, <1>4, <1>5 DEF IInv, ChannelFits
<1>9. LateFits'
  <2>1. \A k \in 1..calls : k # calls => (InFlight(k)' <=> InFlight(k))
    BY <1>1, <1>5 DEF InFlight
  <2>2. \A e : Doubtful(e)' <=> Doubtful(e)
    BY <1>1 DEF Doubtful
  <2>3. \A o \in Ops : answered[o] # calls
    BY <1>1 DEF IInv, LateFits
  <2> QED BY <1>1, <1>2, <2>1, <2>2, <2>3 DEF IInv, LateFits
<1>10. AnswerFits'
  BY <1>1, <1>2 DEF IInv, CallFits, AnswerFits
<1>11. AgreeFits'
  BY <1>1, <1>2, <1>5 DEF IInv, AgreeFits, Changing, Granted
<1> QED BY <1>6, <1>7, <1>8, <1>9, <1>10, <1>11 DEF IInv

\* A call returns.  Its request, if it is still under way, is late from now
\* on, and was given up; subdevices that are not marked agree.
LEMMA ReturnIInv ==
    ASSUME IInv, Running, pc' \in {"idle", "undefined"}, loop_count' = 0,
           rc' \in {PENDING, SUCCESS, ERROR},
           session' \in [Devices -> {"none", "INIT", "ONLINE"}],
           \A e \in Devices : ~Changing(e) =>
             (session'[e] = "ONLINE" <=> session[e] = "ONLINE"),
           \A e \in Devices : session'[e] = "INIT" => e \in unprepared',
           unprepared' \subseteq Devices, freed' \subseteq Devices,
           pc' = "undefined" => dev \in freed',
           \A e \in Devices \ apart' : Changing(e) =>
             (session'[e] = "ONLINE" <=> e \in online),
           bind_list' \in Seq(Devices), subdev_bindlist' \in Seq(Devices),
           given_up' \subseteq 1..calls, apart' \subseteq Devices,
           given_up \subseteq given_up', apart \subseteq apart',
           InFlight(calls) => /\ calls \in given_up'
                              /\ op \in Sessions => Doubtful(dev)',
           UNCHANGED <<sync_status, callVars, reply, listed, touched, connVars,
                       serverVars, answered>>
    PROVE  IInv'
<1>1. /\ UNCHANGED <<sync_status, res, calls, req, reply, listed, touched>>
      /\ UNCHANGED <<to_server, to_client, online, bound, pushes, answered>>
  BY DEF callVars, connVars, serverVars
<1>2. ~Running' /\ op' = op /\ dev' = dev
  BY <1>1, OpStays DEF Running
<1>3. CallsOK' /\ FieldsOK' /\ ServerOK'
  <2>1. 0 \in 0..(GATEWAY_LOOP_MAX_COUNT + 1)
    BY Sizes
  <2>2. CallsOK'
    BY <1>1, <2>1 DEF IInv, CallsOK
  <2>3. FieldsOK'
    BY <1>1 DEF IInv, FieldsOK
  <2>4. ServerOK'
    BY <1>1 DEF IInv, ServerOK
  <2> QED BY <2>2, <2>3, <2>4
<1>4. CallFits' /\ AnswerFits' /\ ListFits'
  BY <1>1, <1>2 DEF IInv, CallFits, AnswerFits, ListFits
<1>5. ChannelFits'
  BY <1>1 DEF IInv, ChannelFits
<1>6. LateFits'
  <2>1. \A k : InFlight(k)' <=> InFlight(k)
    BY <1>1 DEF InFlight
  <2>2. ASSUME NEW k \in 1..calls, InFlight(k)
        PROVE  /\ k \in given_up'
               /\ req[k].op \in Sessions =>
                    \A e \in Devices : req[k].dev <= e => e \in apart'
    <3>1. CASE k = calls
      BY <1>2, <2>2, <3>1 DEF op, dev, Doubtful
    <3>2. CASE k # calls
      BY <2>2, <3>2 DEF IInv, LateFits, Doubtful
    <3> QED BY <3>1, <3>2
  <2> QED BY <1>1, <1>2, <2>1, <2>2 DEF IInv, LateFits, Doubtful
<1>7. SettleFits' /\ FreedFits'
  BY <1>2 DEF SettleFits, FreedFits
<1>8. AgreeFits'
  <2>1. pc # "gone" /\ \A e : ~Changing(e)'
    BY <1>2 DEF Changing, Running
  <2> QED BY <1>1, <2>1 DEF IInv, AgreeFits
<1> QED BY <1>3, <1>4, <1>5, <1>6, <1>7, <1>8 DEF IInv

\* What the end of a call does to the sessions.
LEMMA FailDoes ==
    ASSUME IInv, Running, Fail
    PROVE  /\ pc' = "idle" /\ loop_count' = 0 /\ rc' = reply[op].result
           /\ rc' \in {PENDING, SUCCESS, ERROR}
           /\ session' \in [Devices -> {"none", "INIT", "ONLINE"}]
           /\ \A e \in Devices : ~Changing(e) =>
                (session'[e] = "ONLINE" <=> session[e] = "ONLINE")
           /\ \A e \in Devices : session'[e] = "INIT" => e \in unprepared'
           /\ \A e \in Devices : Changing(e) =>
                session'[e] = IF op = "online" THEN "none" ELSE session[e]
           /\ unprepared' \subseteq Devices /\ freed' \subseteq Devices
           /\ UNCHANGED listVars
<1>1. /\ session \in [Devices -> {"none", "INIT", "ONLINE"}]
      /\ unprepared \subseteq Devices
  BY DEF IInv, FieldsOK
<1>2. /\ pc' = "idle" /\ loop_count' = 0 /\ rc' = reply[op].result
      /\ freed' = {} /\ unprepared' = unprepared /\ UNCHANGED listVars
  BY DEF Fail
<1>3. session' = IF op = "online" THEN [session EXCEPT ![dev] = "none"] ELSE session
  BY DEF Fail, subdev_remove_session
<1>4. rc' \in {PENDING, SUCCESS, ERROR}
  BY <1>2, OpIs DEF Replies
<1>5. \A e \in Devices : session[e] = "INIT" => (e = dev /\ op = "online") \/ e \in unprepared
  BY DEF IInv, SettleFits, Opening
<1>6. \A e \in Devices : op = "online" /\ e = dev <=> Changing(e) /\ op = "online"
  BY DEF Changing, Sessions
<1> QED BY <1>1, <1>2, <1>3, <1>4, <1>5, <1>6 DEF Changing

LEMMA SucceedDoes ==
    ASSUME IInv, Running, Succeed
    PROVE  /\ pc' \in {"idle", "undefined"} /\ loop_count' = 0 /\ rc' = SUCCESS
           /\ session' \in [Devices -> {"none", "INIT", "ONLINE"}]
           /\ \A e \in Devices : ~Changing(e) =>
                (session'[e] = "ONLINE" <=> session[e] = "ONLINE")
           /\ \A e \in Devices : session'[e] = "INIT" => e \in unprepared'
           /\ \A e \in Devices : Changing(e) =>
                session'[e] = IF op = "online" /\ session[e] # "none" THEN "ONLINE"
                                                                     ELSE "none"
           /\ unprepared' \subseteq Devices /\ freed' \subseteq Devices
           /\ pc' = "undefined" => dev \in freed'
           /\ bind_list' \in Seq(Devices) /\ subdev_bindlist' \in Seq(Devices)
           /\ subdev_bindlist' # subdev_bindlist =>
                op = "describe_sub_devices" /\ subdev_bindlist' = bind_list
           /\ UNCHANGED <<listed, touched>>
<1>1. /\ session \in [Devices -> {"none", "INIT", "ONLINE"}]
      /\ unprepared \subseteq Devices /\ freed \subseteq Devices
  BY DEF IInv, FieldsOK
<1>2. /\ pc' = IF op \in Sessions /\ session[dev] = "none" THEN "undefined" ELSE "idle"
      /\ loop_count' = 0 /\ rc' = SUCCESS
      /\ unprepared' = IF op = "offline" THEN unprepared \ {dev} ELSE unprepared
      /\ freed' = IF pc' = "idle" THEN {} ELSE freed
      /\ UNCHANGED <<listed, touched>>
  BY DEF Succeed, Sessions
<1>3. /\ op = "online" => session' = IF session[dev] = "none" THEN session
                                     ELSE [session EXCEPT ![dev] = "ONLINE"]
      /\ op = "offline" => session' = [session EXCEPT ![dev] = "none"]
      /\ op \notin Sessions => session' = session
  BY DEF Succeed, subdev_remove_session, Sessions
<1>4. \A e \in Devices : session[e] = "INIT" => (e = dev /\ op = "online") \/ e \in unprepared
  BY DEF IInv, SettleFits, Opening
<1>5. \A e \in Devices :
        Changing(e) <=> e = dev /\ op \in Sessions /\ (op = "offline" => session[e] # "INIT")
  BY DEF Changing
<1>6. op = "online" \/ op = "offline" \/ op \notin Sessions
  BY DEF Sessions
<1>7. /\ session' \in [Devices -> {"none", "INIT", "ONLINE"}]
      /\ \A e \in Devices : ~Changing(e) =>
           (session'[e] = "ONLINE" <=> session[e] = "ONLINE")
      /\ \A e \in Devices : session'[e] = "INIT" => e \in unprepared'
      /\ \A e \in Devices : Changing(e) =>
           session'[e] = IF op = "online" /\ session[e] # "none" THEN "ONLINE"
                                                                ELSE "none"
  <2>1. CASE op = "online"
    BY <1>1, <1>2, <1>3, <1>4, <1>5, <2>1 DEF Sessions
  <2>2. CASE op = "offline"
    BY <1>1, <1>2, <1>3, <1>4, <1>5, <2>2 DEF Sessions
  <2>3. CASE op \notin Sessions
    BY <1>1, <1>2, <1>3, <1>4, <1>5, <2>3 DEF Sessions
  <2> QED BY <1>6, <2>1, <2>2, <2>3
<1>8. /\ bind_list' \in Seq(Devices) /\ subdev_bindlist' \in Seq(Devices)
      /\ subdev_bindlist' # subdev_bindlist =>
           op = "describe_sub_devices" /\ subdev_bindlist' = bind_list
  <2>1. /\ bind_list \in Seq(Devices) /\ subdev_bindlist \in Seq(Devices)
    BY DEF IInv, FieldsOK
  <2>2. << >> \in Seq(Devices)
    BY NothingSent, Zenon
  <2>3. IF op = "describe_sub_devices"
          THEN subdev_bindlist' = bind_list /\ bind_list' = << >>
          ELSE UNCHANGED <<subdev_bindlist, bind_list>>
    BY DEF Succeed
  <2>4. CASE op = "describe_sub_devices"
    BY <2>1, <2>2, <2>3, <2>4, Zenon
  <2>5. CASE op # "describe_sub_devices"
    BY <2>1, <2>3, <2>5
  <2> QED BY <2>4, <2>5
<1>9. pc' = "undefined" => dev \in freed'
  BY <1>2 DEF IInv, FreedFits
<1> QED BY <1>1, <1>2, <1>7, <1>8, <1>9

LEMMA PublishFailsIInv == IInv /\ PublishFails => IInv'
<1> SUFFICES ASSUME IInv, PublishFails PROVE IInv'
  OBVIOUS
<1>1. /\ pc = "publish" /\ Fail
      /\ UNCHANGED <<sync_status, callVars, reply, connVars, serverVars, answered,
                     given_up, apart>>
  BY DEF PublishFails
<1>2. Running
  BY <1>1 DEF Running
<1>3. ~InFlight(calls)
  BY <1>1 DEF IInv, ChannelFits
<1>4. /\ UNCHANGED <<bind_list, subdev_bindlist, listed, touched>>
      /\ bind_list \in Seq(Devices) /\ subdev_bindlist \in Seq(Devices)
      /\ given_up \subseteq 1..calls /\ apart \subseteq Devices
  BY <1>1, <1>2, FailDoes DEF listVars, IInv, FieldsOK, ServerOK
<1>5. ASSUME NEW e \in Devices \ apart, Changing(e)
      PROVE  session'[e] = "ONLINE" <=> e \in online
  <2>1. session'[e] = IF op = "online" THEN "none" ELSE session[e]
    BY <1>1, <1>2, <1>5, FailDoes
  <2>2. /\ session[e] = IF op = "online" THEN "INIT" ELSE "ONLINE"
        /\ e \in online <=> op = "offline"
    BY <1>1, <1>5 DEF IInv, AgreeFits
  <2>3. op \in Sessions
    BY <1>5 DEF Changing
  <2> QED BY <2>1, <2>2, <2>3 DEF Sessions
<1>6. /\ pc' = "idle" /\ loop_count' = 0 /\ rc' \in {PENDING, SUCCESS, ERROR}
      /\ session' \in [Devices -> {"none", "INIT", "ONLINE"}]
      /\ \A e \in Devices : ~Changing(e) =>
           (session'[e] = "ONLINE" <=> session[e] = "ONLINE")
      /\ \A e \in Devices : session'[e] = "INIT" => e \in unprepared'
      /\ unprepared' \subseteq Devices /\ freed' \subseteq Devices
  BY <1>1, <1>2, FailDoes
<1> QED BY <1>1, <1>2, <1>3, <1>4, <1>5, <1>6, ReturnIInv

\* What the result the running call was waiting for says of a subdevice that
\* is not marked.
LEMMA ResultTells ==
    ASSUME IInv, Running, reply[op].result # PENDING,
           NEW e \in Devices \ apart, Changing(e)
    PROVE  /\ op \in Sessions
           /\ session[e] = IF op = "online" THEN "INIT" ELSE "ONLINE"
           /\ e \in online <=> (reply[op].result = SUCCESS <=> op = "online")
BY DEF IInv, AgreeFits, Changing, Running, Granted

LEMMA WaitEndsIInv == IInv /\ WaitEnds => IInv'
<1> SUFFICES ASSUME IInv, WaitEnds PROVE IInv'
  OBVIOUS
<1>1. /\ pc = "wait" /\ reply[op].result # res
      /\ IF reply[op].result = SUCCESS THEN Succeed ELSE Fail
      /\ given_up' = IF answered[op] = calls THEN given_up ELSE given_up \cup {calls}
      /\ UNCHANGED <<sync_status, callVars, reply, connVars, serverVars, answered, apart>>
  BY DEF WaitEnds
<1>2. Running
  BY <1>1 DEF Running
<1>3. /\ reply[op].result # PENDING /\ calls \in 1..calls /\ op \in Ops
      /\ calls # NoCall
  BY <1>1, <1>2, OpIs, MadeAreCalls DEF IInv, CallFits, CallsOK
<1>4. /\ given_up' \subseteq 1..calls /\ given_up \subseteq given_up'
      /\ apart' \subseteq Devices /\ apart' = apart
  BY <1>1, <1>3 DEF IInv, ServerOK
<1>5. ASSUME InFlight(calls)
      PROVE  calls \in given_up' /\ (op \in Sessions => Doubtful(dev)')
  <2>1. answered[op] # calls
    BY <1>3, <1>5 DEF IInv, LateFits
  <2>2. op \in Sessions => Doubtful(dev)
    BY <1>2, <1>3, <2>1 DEF IInv, AnswerFits
  <2>3. dev' = dev
    BY <1>1, OpStays DEF callVars
  <2> QED BY <1>1, <1>4, <2>1, <2>2, <2>3 DEF Doubtful
<1>6. /\ pc' \in {"idle", "undefined"} /\ loop_count' = 0
      /\ pc' = "undefined" => dev \in freed'
      /\ rc' \in {PENDING, SUCCESS, ERROR}
      /\ session' \in [Devices -> {"none", "INIT", "ONLINE"}]
      /\ \A e \in Devices : ~Changing(e) =>
           (session'[e] = "ONLINE" <=> session[e] = "ONLINE")
      /\ \A e \in Devices : session'[e] = "INIT" => e \in unprepared'
      /\ unprepared' \subseteq Devices /\ freed' \subseteq Devices
      /\ bind_list' \in Seq(Devices) /\ subdev_bindlist' \in Seq(Devices)
      /\ UNCHANGED <<listed, touched>>
  <2>1. CASE reply[op].result = SUCCESS
    BY <1>1, <1>2, <2>1, SucceedDoes
  <2>2. CASE reply[op].result # SUCCESS
    BY <1>1, <1>2, <2>2, FailDoes DEF listVars, IInv, FieldsOK
  <2> QED BY <2>1, <2>2
<1>7. ASSUME NEW e \in Devices \ apart, Changing(e)
      PROVE  session'[e] = "ONLINE" <=> e \in online
  <2>1. /\ op \in Sessions
        /\ session[e] = IF op = "online" THEN "INIT" ELSE "ONLINE"
        /\ e \in online <=> (reply[op].result = SUCCESS <=> op = "online")
    BY <1>2, <1>3, <1>7, ResultTells
  <2>2. CASE reply[op].result = SUCCESS
    <3>1. session'[e] = IF op = "online" /\ session[e] # "none" THEN "ONLINE" ELSE "none"
      BY <1>1, <1>2, <1>7, <2>2, SucceedDoes
    <3> QED BY <2>1, <2>2, <3>1
  <2>3. CASE reply[op].result # SUCCESS
    <3>1. session'[e] = IF op = "online" THEN "none" ELSE session[e]
      BY <1>1, <1>2, <1>7, <2>3, FailDoes
    <3> QED BY <2>1, <2>3, <3>1
  <2> QED BY <2>2, <2>3
<1> QED BY <1>1, <1>2, <1>4, <1>5, <1>6, <1>7, ReturnIInv

LEMMA WaitTimesOutIInv == IInv /\ WaitTimesOut => IInv'
<1> SUFFICES ASSUME IInv, WaitTimesOut PROVE IInv'
  OBVIOUS
<1>1. /\ pc = "wait" /\ Fail /\ given_up' = given_up \cup {calls}
      /\ apart' = IF op \in Sessions THEN apart \cup {e \in Devices : dev <= e} ELSE apart
      /\ UNCHANGED <<sync_status, callVars, reply, connVars, serverVars, answered>>
  BY DEF WaitTimesOut, Sessions
<1>2. Running
  BY <1>1 DEF Running
<1>3. calls \in 1..calls /\ dev \in Nat
  BY <1>2, OpIs
<1>4. /\ given_up' \subseteq 1..calls /\ given_up \subseteq given_up'
      /\ apart' \subseteq Devices /\ apart \subseteq apart' /\ calls \in given_up'
  BY <1>1, <1>3 DEF IInv, ServerOK
<1>5. op \in Sessions => Doubtful(dev)'
  <2>1. dev' = dev
    BY <1>1, OpStays DEF callVars
  <2> QED BY <1>1, <2>1 DEF Doubtful
<1>6. ASSUME NEW e \in Devices \ apart', Changing(e) PROVE FALSE
  BY <1>1, <1>3, <1>6 DEF Changing
<1>7. /\ pc' = "idle" /\ loop_count' = 0 /\ rc' \in {PENDING, SUCCESS, ERROR}
      /\ session' \in [Devices -> {"none", "INIT", "ONLINE"}]
      /\ \A e \in Devices : ~Changing(e) =>
           (session'[e] = "ONLINE" <=> session[e] = "ONLINE")
      /\ \A e \in Devices : session'[e] = "INIT" => e \in unprepared'
      /\ unprepared' \subseteq Devices /\ freed' \subseteq Devices
      /\ UNCHANGED listVars
  BY <1>1, <1>2, FailDoes
<1>8. /\ UNCHANGED <<bind_list, subdev_bindlist, listed, touched>>
      /\ bind_list \in Seq(Devices) /\ subdev_bindlist \in Seq(Devices)
  BY <1>7 DEF listVars, IInv, FieldsOK
<1> QED BY <1>1, <1>2, <1>4, <1>5, <1>6, <1>7, <1>8, ReturnIInv

LEMMA DestroyIInv == IInv /\ Destroy => IInv'
<1> SUFFICES ASSUME IInv, Destroy PROVE IInv'
  OBVIOUS
<1>1. /\ pc' = "gone" /\ session' = [d \in Devices |-> "none"]
      /\ to_server' = << >> /\ to_client' = << >>
      /\ UNCHANGED <<sync_status, loop_count, res, calls, req, reply, bind_list>>
      /\ UNCHANGED <<subdev_bindlist, listed, touched, online, bound, pushes, rc>>
      /\ UNCHANGED <<answered, given_up, apart, freed>> /\ unprepared' = {}
  BY DEF Destroy, callVars, listVars, serverVars
<1>2. ~Running'
  BY <1>1 DEF Running
<1>3. CallsOK' /\ FieldsOK'
  BY <1>1 DEF IInv, CallsOK, FieldsOK
<1>4. ServerOK'
  BY <1>1, NothingSent DEF IInv, ServerOK
<1>5. \A k : ~InFlight(k)'
  BY <1>1, NothingSent DEF InFlight
<1>6. ChannelFits'
  BY <1>1, NothingSent DEF ChannelFits
<1>7. CallFits' /\ LateFits'
  BY <1>1, <1>2, <1>5 DEF IInv, CallFits, LateFits
<1>8. AnswerFits' /\ SettleFits' /\ FreedFits' /\ AgreeFits' /\ ListFits'
  BY <1>1, <1>2 DEF AnswerFits, SettleFits, FreedFits, AgreeFits, ListFits
<1> QED BY <1>3, <1>4, <1>6, <1>7, <1>8 DEF IInv

----------------------------------------------------------------------------
(* The message handler keeps the invariant.                                *)

\* A result that is stored: m.devs names the request's subdevice, or one
\* whose name begins its name.
Stores(m, r) ==
    /\ m.type \in Ops /\ r \in {SUCCESS, ERROR}
    /\ reply' = [reply EXCEPT ![m.type].result = r]
    /\ answered' = [answered EXCEPT ![m.type] = m.n]
    /\ m.type # "describe_sub_devices" =>
         r = m.result /\ m.devs[1] <= reply[m.type].client_id

\* The first message is taken off the connection.
LEMMA HeadIs ==
    ASSUME IInv, to_client # << >>, to_client' = Tail(to_client),
           UNCHANGED <<calls, req, to_server>>, NEW m, m = Head(to_client)
    PROVE  /\ to_client' \in Seq(Messages) /\ OneEach(to_client')
           /\ \A k \in Named(to_client') : k \in Named(to_client)
           /\ \A x \in Elems(to_client') : x \in Elems(to_client)
           /\ m \in Messages /\ m \in Elems(to_client) /\ m.n \in Named(to_client)
           /\ m.type \in Ops =>
                /\ m.n \in 1..calls /\ m.n # NoCall /\ req[m.n].op = m.type
                /\ m.type # "describe_sub_devices" => m.devs[1] = req[m.n].dev
                /\ InFlight(m.n) /\ ~InFlight(m.n)'
<1>1. /\ to_client' \in Seq(Messages) /\ OneEach(to_client')
      /\ \A k \in Named(to_client') : k \in Named(to_client)
      /\ \A x \in Elems(to_client') : x \in Elems(to_client)
      /\ m \in Messages /\ m \in Elems(to_client) /\ m.n \in Named(to_client)
      /\ m.n # NoCall => m.n \notin Named(to_client')
  BY TakeMessage DEF IInv, ServerOK, ChannelFits
<1>2. ASSUME m.type \in Ops
      PROVE  /\ m.n \in 1..calls /\ m.n # NoCall /\ req[m.n].op = m.type
             /\ m.type # "describe_sub_devices" => m.devs[1] = req[m.n].dev
             /\ InFlight(m.n) /\ ~InFlight(m.n)'
  <2>1. m.type \notin Pushed
    BY <1>2 DEF Ops, Pushed
  <2>2. /\ m.n \in 1..calls /\ req[m.n].op = m.type
        /\ m.type # "describe_sub_devices" => m.devs[1] = req[m.n].dev
    BY <1>1, <2>1 DEF IInv, ChannelFits
  <2>3. m.n # NoCall
    BY <2>2, MadeAreCalls DEF IInv, CallsOK
  <2>4. m.n \notin Elems(to_server)
    BY <1>1 DEF IInv, ChannelFits
  <2>5. m' = m
    OBVIOUS
  <2> QED BY <1>1, <2>2, <2>3, <2>4, <2>5 DEF InFlight
<1> QED BY <1>1, <1>2

\* A stored result changes the fields of its own request only.
LEMMA StoresOne ==
    ASSUME reply \in [Ops -> Replies], answered \in [Ops -> 0..MaxCalls],
           NEW m, NEW r, m.n \in 0..MaxCalls, m.type \in Ops,
           r \in {PENDING, SUCCESS, ERROR},
           reply' = [reply EXCEPT ![m.type].result = r],
           answered' = [answered EXCEPT ![m.type] = m.n]
    PROVE  /\ reply' \in [Ops -> Replies] /\ answered' \in [Ops -> 0..MaxCalls]
           /\ \A o \in Ops : reply'[o].client_id = reply[o].client_id
           /\ \A o \in Ops \ {m.type} : reply'[o] = reply[o] /\ answered'[o] = answered[o]
           /\ reply'[m.type].result = r /\ answered'[m.type] = m.n
<1>1. answered' \in [Ops -> 0..MaxCalls]
  OBVIOUS
<1>2. reply' \in [Ops -> Replies]
  BY DEF Replies
<1> QED BY <1>1, <1>2 DEF Replies

\* A message is handled: at most a result is stored, sessions of marked
\* subdevices are removed, and bind_list changes as ListFits allows.
LEMMA HandledIInv ==
    ASSUME IInv, pc \in {"yield", "idle"}, to_client # << >>,
           to_client' = Tail(to_client), NEW m, m = Head(to_client),
           UNCHANGED <<pc, sync_status, loop_count, callVars, to_server, serverVars,
                       rc, given_up, apart>>,
           UNCHANGED <<reply, answered>> \/ \E r : Stores(m, r),
           session' \in [Devices -> {"none", "INIT", "ONLINE"}],
           \A d \in Devices : session'[d] \in {session[d], "none"},
           \A d \in Devices \ apart : session'[d] = session[d],
           unprepared' \subseteq Devices, freed' \subseteq Devices,
           \A d \in Devices : session'[d] = "INIT" => (d \in unprepared => d \in unprepared'),
           pc = "idle" \/ freed \subseteq freed',
           pc # "idle" => \A d \in Devices : session'[d] = session[d] \/ d \in freed',
           bind_list' \in Seq(Devices), subdev_bindlist' \in Seq(Devices),
           listed' \in Seq(Devices), touched' \in 0..2, ListFits'
    PROVE  IInv'
<1>1. /\ UNCHANGED <<pc, sync_status, loop_count, res, calls, req, to_server, online>>
      /\ UNCHANGED <<bound, pushes, rc, given_up, apart>>
  BY DEF callVars, serverVars
<1>2. op' = op /\ dev' = dev /\ (Running' <=> Running) /\ pc' # "publish"
  BY <1>1, OpStays DEF Running
<1>3. /\ to_client' \in Seq(Messages) /\ OneEach(to_client')
      /\ \A k \in Named(to_client') : k \in Named(to_client)
      /\ \A x \in Elems(to_client') : x \in Elems(to_client)
      /\ m \in Messages /\ m \in Elems(to_client)
      /\ m.type \in Ops =>
           /\ m.n \in 1..calls /\ m.n # NoCall /\ req[m.n].op = m.type
           /\ m.type # "describe_sub_devices" => m.devs[1] = req[m.n].dev
           /\ InFlight(m.n) /\ ~InFlight(m.n)'
  BY <1>1, HeadIs
<1>4. reply \in [Ops -> Replies] /\ answered \in [Ops -> 0..MaxCalls]
  BY DEF IInv, FieldsOK
<1>5. ASSUME NEW r, Stores(m, r)
      PROVE  /\ reply' \in [Ops -> Replies] /\ answered' \in [Ops -> 0..MaxCalls]
             /\ \A o \in Ops : reply'[o].client_id = reply[o].client_id
             /\ \A o \in Ops \ {m.type} : reply'[o] = reply[o] /\ answered'[o] = answered[o]
             /\ reply'[m.type].result = r /\ answered'[m.type] = m.n
  <2>1. m.n \in 0..MaxCalls /\ m.type \in Ops /\ r \in {PENDING, SUCCESS, ERROR}
    BY <1>3, <1>5, MessageIs DEF Stores
  <2>2. /\ reply' = [reply EXCEPT ![m.type].result = r]
        /\ answered' = [answered EXCEPT ![m.type] = m.n]
    BY <1>5 DEF Stores
  <2> QED BY <1>4, <2>1, <2>2, StoresOne
<1>6. /\ reply' \in [Ops -> Replies] /\ answered' \in [Ops -> 0..MaxCalls]
      /\ \A o \in Ops : reply'[o].client_id = reply[o].client_id
      /\ \A o \in Ops : answered'[o] = answered[o] \/ (m.type \in Ops /\ answered'[o] = m.n)
  BY <1>4, <1>5 DEF Stores
<1>7. CallsOK' /\ FieldsOK' /\ ServerOK'
  BY <1>1, <1>3, <1>6 DEF IInv, CallsOK, FieldsOK, ServerOK
<1>8. CallFits'
  <2>1. Running => op \in Ops
    BY OpIs
  <2> QED BY <1>1, <1>2, <1>6, <2>1 DEF IInv, CallFits
<1>9. ChannelFits'
  BY <1>1, <1>2, <1>3 DEF IInv, ChannelFits
<1>10. \A k : InFlight(k)' => InFlight(k)
  BY <1>1, <1>3 DEF InFlight
<1>11. LateFits'
  <2>1. ASSUME NEW o \in Ops, answered'[o] # NoCall
        PROVE  answered'[o] \in 1..calls /\ ~InFlight(answered[o])'
    <3>1. CASE answered'[o] = answered[o]
      <4>1. answered[o] \in 1..calls /\ ~InFlight(answered[o])
        BY <2>1, <3>1 DEF IInv, LateFits
      <4> QED BY <1>1, <1>3, <3>1, <4>1 DEF InFlight
    <3>2. CASE m.type \in Ops /\ answered'[o] = m.n
      BY <1>3, <3>2 DEF InFlight
    <3> QED BY <1>6, <3>1, <3>2
  <2>2. \A e : Doubtful(e)' <=> Doubtful(e)
    BY <1>1 DEF Doubtful
  <2>3. \A k \in 1..calls : InFlight(k)' /\ ~(Running /\ k = calls) =>
          k \in given_up /\ (req[k].op \in Sessions => Doubtful(req[k].dev))
    BY <1>10 DEF IInv, LateFits
  <2> QED BY <1>1, <1>2, <2>1, <2>2, <2>3 DEF LateFits
\* The result that is stored for the running call.
<1>12. ASSUME NEW r, Stores(m, r), Running, m.type = op
       PROVE  /\ OwnOrLate(m.n)
              /\ m.n # calls /\ op \in Sessions => Doubtful(dev)
  <2>1. CASE m.n = calls
    BY <2>1 DEF OwnOrLate
  <2>2. CASE m.n # calls
    <3>1. /\ m.n \in given_up /\ req[m.n].op = op
          /\ op \in Sessions => Doubtful(req[m.n].dev)
      BY <1>3, <1>12, <2>2 DEF IInv, LateFits, Stores
    <3>2. CASE op = "describe_sub_devices"
      <4>1. req[m.n].dev = NoDevice /\ dev = NoDevice /\ NoDevice <= NoDevice
        <5>1. m.n \in 1..calls
          BY <1>3, <1>12 DEF Stores
        <5>2. req[m.n].dev = NoDevice
          BY <3>1, <3>2, <5>1 DEF IInv, CallFits
        <5>3. dev = NoDevice /\ NoDevice \in Nat
          BY <1>12, <3>2, OpIs, Sizes
        <5> QED BY <5>2, <5>3
      <4> QED BY <3>1, <3>2, <4>1 DEF OwnOrLate, Sessions
    <3>3. CASE op # "describe_sub_devices"
      <4>1. req[m.n].dev <= dev
        BY <1>3, <1>12, <3>3, OpIs DEF Stores
      <4>2. dev \in Nat /\ \A e \in Devices : e \in Nat
        BY <1>12, OpIs, Sizes
      <4>3. req[m.n].dev \in Nat
        <5>1. m.n \in Calls
          BY <1>3, <1>12, MadeAreCalls DEF IInv, CallsOK, Stores
        <5>2. req[m.n] \in Kinds
          BY <5>1 DEF IInv, CallsOK
        <5> QED BY <5>2, Sizes DEF Kinds
      <4>4. Doubtful(req[m.n].dev) => Doubtful(dev)
        BY <4>1, <4>2, <4>3 DEF Doubtful
      <4> QED BY <3>1, <4>1, <4>4 DEF OwnOrLate
    <3> QED BY <3>2, <3>3
  <2> QED BY <2>1, <2>2
<1>13. AnswerFits'
  <2>1. \A k : OwnOrLate(k)' <=> OwnOrLate(k)
    BY <1>1, <1>2 DEF OwnOrLate
  <2>2. Doubtful(dev)' <=> Doubtful(dev)
    BY <1>1, <1>2 DEF Doubtful
  <2> SUFFICES ASSUME Running, reply'[op].result # PENDING
               PROVE  /\ answered'[op] # NoCall
                      /\ \A k : k = answered'[op] => OwnOrLate(k)
                      /\ answered'[op] # calls /\ op \in Sessions => Doubtful(dev)
    BY <1>1, <1>2, <2>2, <2>1 DEF AnswerFits, OwnOrLate
  <2>3. CASE reply'[op] = reply[op] /\ answered'[op] = answered[op]
    BY <2>3 DEF IInv, AnswerFits
  <2>4. CASE \E r : Stores(m, r) /\ m.type = op
    <3>1. PICK r : Stores(m, r) /\ m.type = op
      BY <2>4
    <3>2. answered'[op] = m.n /\ m.n # NoCall
      BY <1>3, <1>5, <3>1 DEF Stores
    <3>3. OwnOrLate(m.n) /\ (m.n # calls /\ op \in Sessions => Doubtful(dev))
      BY <1>12, <3>1
    <3> QED BY <3>2, <3>3
  <2>5. op \in Ops
    BY OpIs
  <2> QED BY <1>5, <2>3, <2>4, <2>5
<1>14. SettleFits' /\ FreedFits'
  <2>1. SettleFits'
    BY <1>2 DEF IInv, SettleFits, Opening
  <2>2. Running /\ op \in Sessions => dev \in Devices /\ pc # "idle"
    BY OpIs DEF Sessions, Running
  <2>3. FreedFits'
    BY <1>1, <1>2, <2>2 DEF IInv, FreedFits
  <2> QED BY <2>1, <2>3
<1>15. AgreeFits'
  <2>1. ASSUME NEW d \in Devices \ apart, ~Changing(d)
        PROVE  session'[d] = "ONLINE" <=> d \in online'
    BY <1>1, <2>1 DEF IInv, AgreeFits
  <2>2. ASSUME NEW d \in Devices \ apart, Changing(d)
        PROVE  /\ session'[d] = IF op = "online" THEN "INIT" ELSE "ONLINE"
               /\ calls \in Elems(to_server') => (d \in online' <=> op = "offline")
               /\ \A x \in Elems(to_client') : x.n = calls =>
                    (d \in online' <=> Granted(x.result))
    BY <1>1, <1>3, <2>2 DEF IInv, AgreeFits
  <2>3. \A r : Granted(r)' <=> Granted(r)
    BY <1>2 DEF Granted
  <2>4. \A d \in Devices \ apart : Changing(d)' <=> Changing(d)
    BY <1>2 DEF Changing
  <2> SUFFICES ASSUME NEW d \in Devices \ apart, Changing(d), reply'[op].result # PENDING
               PROVE  d \in online <=> Granted(reply'[op].result)
    BY <1>1, <1>2, <2>1, <2>2, <2>3, <2>4 DEF AgreeFits, Granted
  <2>5. Running /\ op \in Sessions /\ dev = d
    BY DEF Changing
  <2>6. CASE reply'[op] = reply[op]
    BY <2>6 DEF IInv, AgreeFits, Running, Changing
  <2>7. CASE \E r : Stores(m, r) /\ m.type = op
    <3>1. PICK r : Stores(m, r) /\ m.type = op
      BY <2>7
    <3>2. op # "describe_sub_devices" /\ reply'[op].result = m.result
      <4>1. op # "describe_sub_devices"
        BY <2>5 DEF Sessions
      <4>2. r = m.result
        BY <3>1, <4>1 DEF Stores
      <4> QED BY <1>5, <3>1, <4>1, <4>2
    <3>3. m.n = calls
      <4>1. d \in Nat /\ dev <= d
        BY <2>5, Sizes
      <4>2. m.n # calls => d \in apart
        BY <1>12, <2>5, <3>1, <4>1 DEF Doubtful
      <4> QED BY <4>2
    <3> QED BY <1>3, <2>5, <3>2, <3>3 DEF IInv, AgreeFits, Running
  <2>8. op \in Ops
    BY <2>5, OpIs
  <2> QED BY <1>5, <2>6, <2>7, <2>8
<1> QED BY <1>7, <1>8, <1>9, <1>11, <1>13, <1>14, <1>15 DEF IInv

\* What goes to the front of bind_list are subdevices.
LEMMA AddBindInfoDoes ==
    ASSUME IInv, NEW s \in Seq(Devices), AddBindInfo(s)
    PROVE  /\ bind_list' \in Seq(Devices) /\ touched' \in 0..2
           /\ touched' >= 1 /\ touched' >= touched
           /\ touched' = 1 => bind_list' = Reverse(s) \o bind_list /\ touched = 0
<1>1. bind_list \in Seq(Devices) /\ touched \in 0..2
  BY DEF IInv, FieldsOK
<1>2. ASSUME bind_list' = Reverse(s) \o bind_list, Touch
      PROVE  /\ bind_list' \in Seq(Devices) /\ touched' \in 0..2 /\ touched' >= 1
             /\ touched' >= touched /\ (touched' = 1 => touched = 0)
  <2>1. bind_list' \in Seq(Devices)
    BY <1>1, <1>2, ReverseIs, ConcatProperties
  <2> QED BY <1>1, <1>2, <2>1 DEF Touch
<1>3. ASSUME NEW k \in 0..(Len(s) - 1), touched' = 2,
             bind_list' = Reverse(SubSeq(s, 1, k)) \o bind_list
      PROVE  /\ bind_list' \in Seq(Devices) /\ touched' \in 0..2 /\ touched' >= 1
             /\ touched' >= touched /\ touched' # 1
  <2>1. SubSeq(s, 1, k) \in Seq(Devices)
    OBVIOUS
  <2>2. bind_list' \in Seq(Devices)
    BY <1>1, <1>3, <2>1, ReverseIs, ConcatProperties
  <2> QED BY <1>1, <1>3, <2>2
<1> QED BY <1>2, <1>3 DEF AddBindInfo

\* An entry that is taken off leaves a list of subdevices.
LEMMA RemoveBindInfoDoes ==
    ASSUME IInv, NEW d, RemoveBindInfo(d)
    PROVE  /\ bind_list' \in Seq(Devices) /\ touched' \in 0..2
           /\ touched' >= 1 /\ touched' >= touched
           /\ touched' = 1 => touched = 0
<1>1. bind_list \in Seq(Devices) /\ touched \in 0..2
  BY DEF IInv, FieldsOK
<1>2. bind_list' \in Seq(Devices)
  BY <1>1, RemoveFirstIs DEF RemoveBindInfo
<1> QED BY <1>1, <1>2 DEF RemoveBindInfo, Touch

LEMMA HandleMessageIInv == IInv /\ HandleMessage => IInv'
<1> SUFFICES ASSUME IInv, HandleMessage PROVE IInv'
  OBVIOUS
<1>1. PICK m : m = Head(to_client)
  OBVIOUS
<1>2. /\ pc \in {"yield", "idle"} /\ to_client # << >> /\ to_client' = Tail(to_client)
      /\ HandleResult(m) \/ HandleDescribe(m) \/ HandleChange(m)
         \/ HandleUnbindAll(m) \/ HandleOther(m)
      /\ UNCHANGED <<pc, sync_status, loop_count, callVars, to_server, serverVars,
                     rc, given_up, apart>>
  BY <1>1, Zenon DEF HandleMessage
<1>3. UNCHANGED <<pc, calls, req, to_server, apart>>
  BY <1>2 DEF callVars
<1>4. m \in Messages /\ m \in Elems(to_client) /\ m.devs \in Seq(Devices)
  BY <1>1, <1>2, <1>3, HeadIs, MessageIs
<1>5. /\ session \in [Devices -> {"none", "INIT", "ONLINE"}]
      /\ bind_list \in Seq(Devices) /\ subdev_bindlist \in Seq(Devices)
      /\ listed \in Seq(Devices) /\ touched \in 0..2
      /\ reply \in [Ops -> Replies] /\ unprepared \subseteq Devices /\ freed \subseteq Devices
  BY DEF IInv, FieldsOK
<1>6. op' = op /\ dev' = dev /\ (Running' <=> Running) /\ (Running => op \in Ops)
  BY <1>3, OpStays, OpIs DEF Running
<1>7. CASE HandleResult(m)
  <2>1. UNCHANGED <<reply, answered>> \/ Stores(m, m.result)
    BY <1>4, <1>7, MessageIs DEF HandleResult, Stores, IsAwaited
  <2>2. /\ m.type \in Ops /\ m.type # "describe_sub_devices"
        /\ UNCHANGED <<session, bind_list, subdev_bindlist, listed, touched>>
        /\ UNCHANGED <<unprepared, freed>>
    BY <1>7 DEF HandleResult, listVars, openVars
  <2>3. op = "describe_sub_devices" /\ Running => reply'[op] = reply[op]
    BY <1>5, <1>6, <2>1, <2>2 DEF Stores
  <2>4. ListFits'
    BY <1>6, <2>2, <2>3 DEF IInv, ListFits
  <2> QED BY <1>1, <1>2, <1>5, <2>1, <2>2, <2>4, HandledIInv
<1>8. CASE HandleDescribe(m)
  <2>1. /\ m.type = "describe_sub_devices" /\ AddBindInfo(m.devs) /\ listed' = m.devs
        /\ reply' = [reply EXCEPT ![m.type].result = SUCCESS]
        /\ answered' = [answered EXCEPT ![m.type] = m.n]
        /\ UNCHANGED <<session, subdev_bindlist, unprepared, freed>>
    BY <1>8 DEF HandleDescribe, openVars
  <2>2. Stores(m, SUCCESS)
    BY <2>1 DEF Stores, Ops
  <2>3. /\ bind_list' \in Seq(Devices) /\ touched' \in 0..2 /\ touched' >= 1
        /\ touched' = 1 => bind_list' = Reverse(m.devs) \o bind_list /\ touched = 0
    BY <1>4, <2>1, AddBindInfoDoes
  <2>4. ListFits'
    <3> SUFFICES ASSUME Running, op = "describe_sub_devices", touched' = 1
                 PROVE  bind_list' = Reverse(listed')
      BY <1>6, <2>3 DEF ListFits
    <3>1. bind_list = << >>
      BY <2>3 DEF IInv, ListFits
    <3> QED BY <1>4, <2>1, <2>3, <3>1, ReverseIs
  <2> QED BY <1>1, <1>2, <1>4, <1>5, <2>1, <2>2, <2>3, <2>4, HandledIInv
<1>9. CASE HandleChange(m)
  <2>1. /\ AddBindInfo(m.devs) \/ RemoveBindInfo(m.devs[1])
        /\ UNCHANGED <<session, reply, answered, subdev_bindlist, listed>>
        /\ UNCHANGED <<unprepared, freed>>
    BY <1>9 DEF HandleChange, openVars
  <2>2. /\ bind_list' \in Seq(Devices) /\ touched' \in 0..2 /\ touched' >= 1
        /\ touched' = 1 => touched = 0
    BY <1>4, <2>1, AddBindInfoDoes, RemoveBindInfoDoes
  <2>3. ListFits'
    <3> SUFFICES ASSUME Running, op = "describe_sub_devices"
                 PROVE  touched' = 1 => reply'[op].result = PENDING
      BY <1>6, <2>2 DEF ListFits
    <3> QED BY <1>5, <2>1, <2>2 DEF IInv, ListFits
  <2> QED BY <1>1, <1>2, <1>5, <2>1, <2>2, <2>3, HandledIInv
<1>10. CASE HandleUnbindAll(m)
  <2>1. /\ m.type = "unbind_all" /\ session' = [d \in Devices |-> "none"]
        /\ unprepared' = {}
        /\ freed' = IF pc = "idle" THEN {} ELSE freed \cup {d \in Devices : session[d] # "none"}
        /\ UNCHANGED <<reply, answered, bind_list, subdev_bindlist, listed, touched>>
    BY <1>10 DEF HandleUnbindAll, listVars
  <2>2. Devices \ apart = {}
    BY <1>4, <2>1 DEF IInv, ChannelFits
  <2>3. ListFits'
    BY <1>6, <2>1 DEF IInv, ListFits
  <2>4. /\ session' \in [Devices -> {"none", "INIT", "ONLINE"}]
        /\ \A d \in Devices : session'[d] = "none"
        /\ unprepared' \subseteq Devices /\ freed' \subseteq Devices
    BY <1>5, <2>1
  <2>5. /\ freed \subseteq freed' \/ pc = "idle"
        /\ pc # "idle" => \A d \in Devices : session'[d] = session[d] \/ d \in freed'
    BY <1>5, <2>1, <2>4
  <2> QED BY <1>1, <1>2, <1>5, <2>1, <2>2, <2>3, <2>4, <2>5, HandledIInv
<1>11. CASE HandleOther(m)
  <2>1. /\ UNCHANGED <<session, reply, answered, bind_list, subdev_bindlist, listed>>
        /\ UNCHANGED <<touched, unprepared, freed>>
    BY <1>11 DEF HandleOther, listVars, openVars
  <2>2. ListFits'
    BY <1>6, <2>1 DEF IInv, ListFits
  <2> QED BY <1>1, <1>2, <1>5, <2>1, <2>2, HandledIInv
<1> QED BY <1>2, <1>7, <1>8, <1>9, <1>10, <1>11

----------------------------------------------------------------------------
(* The server and the connection keep the invariant.                       *)

\* The server answers request n with message m: at most it changes whether
\* the request's subdevice is online.
LEMMA AnsweredIInv ==
    ASSUME IInv, to_server # << >>, to_server' = Tail(to_server),
           NEW n, n = Head(to_server), NEW m \in Messages,
           to_client' = Append(to_client, m), m.n = n, m.type = req[n].op,
           m.type # "describe_sub_devices" => m.devs[1] = req[n].dev,
           online' \subseteq Devices, bound' \subseteq Devices,
           apart' \subseteq Devices, apart \subseteq apart',
           \A e \in Devices \ apart' : e \in online' <=>
             IF e = req[n].dev /\ req[n].op \in Sessions /\ m.result = SUCCESS
             THEN req[n].op = "online" ELSE e \in online,
           UNCHANGED <<pc, sync_status, loop_count, callVars, session, reply, listVars,
                       pushes, rc, answered, given_up, openVars>>
    PROVE  IInv'
<1>1. /\ UNCHANGED <<pc, sync_status, loop_count, res, calls, req, session, reply>>
      /\ UNCHANGED <<bind_list, subdev_bindlist, listed, touched, pushes, rc, answered>>
      /\ UNCHANGED <<given_up, unprepared, freed>>
  BY DEF callVars, listVars, openVars
<1>2. op' = op /\ dev' = dev /\ (Running' <=> Running)
  BY <1>1, OpStays DEF Running
<1>3. /\ to_server' \in Seq(Calls) /\ Distinct(to_server') /\ n \in Elems(to_server)
      /\ n \notin Elems(to_server')
      /\ \A k \in Elems(to_server') : k \in Elems(to_server)
  BY TakeRequest DEF IInv, ServerOK, ChannelFits
<1>4. n \in 1..calls /\ n \in Calls /\ n \notin Named(to_client) /\ n # NoCall
  BY <1>3, MadeAreCalls DEF IInv, ChannelFits, CallsOK
<1>5. /\ to_client' \in Seq(Messages) /\ Named(to_client') = Named(to_client) \cup {n}
      /\ Elems(to_client') = Elems(to_client) \cup {m} /\ OneEach(to_client')
  BY <1>4, AddMessage DEF IInv, ServerOK, ChannelFits
<1>6. m.type \in Ops /\ m.type \notin Pushed /\ m.type # "unbind_all"
  BY <1>4 DEF IInv, CallsOK, Kinds, Ops, Pushed
<1>7. CallsOK' /\ FieldsOK' /\ ServerOK'
  BY <1>1, <1>3, <1>5 DEF IInv, CallsOK, FieldsOK, ServerOK
<1>8. CallFits' /\ ListFits' /\ SettleFits' /\ FreedFits'
  BY <1>1, <1>2 DEF IInv, CallFits, ListFits, SettleFits, FreedFits, Opening
<1>9. \A k : InFlight(k)' <=> InFlight(k)
  <2>1. InFlight(n) /\ InFlight(n)'
    BY <1>3, <1>5 DEF InFlight
  <2>2. ASSUME NEW k, k # n PROVE InFlight(k)' <=> InFlight(k)
    <3>1. k \in Elems(to_server) => k \in Elems(to_server')
      BY <2>2, TakeRest DEF IInv, ServerOK
    <3> QED BY <1>3, <1>5, <2>2, <3>1 DEF InFlight
  <2> QED BY <2>1, <2>2
<1>10. ChannelFits'
  <2>1. \A k \in Elems(to_server') : k \in 1..calls /\ k \notin Named(to_client')
    BY <1>3, <1>5 DEF IInv, ChannelFits
  <2>2. pc = "publish" => ~InFlight(calls)'
    BY <1>1, <1>9 DEF IInv, ChannelFits, InFlight
  <2> QED BY <1>1, <1>3, <1>4, <1>5, <1>6, <2>1, <2>2 DEF IInv, ChannelFits
<1>11. LateFits'
  BY <1>1, <1>2, <1>9 DEF IInv, LateFits, Doubtful, InFlight
<1>12. AnswerFits'
  BY <1>1, <1>2 DEF IInv, AnswerFits, OwnOrLate, Doubtful
\* The subdevice of a late request is marked.
<1>13. ASSUME NEW e \in Devices \ apart', e = req[n].dev, req[n].op \in Sessions
       PROVE  Running /\ n = calls
  <2>1. e \in Nat /\ e <= e
    BY Sizes
  <2>2. InFlight(n)
    BY <1>3 DEF InFlight
  <2> QED BY <1>4, <1>13, <2>1, <2>2 DEF IInv, LateFits, Doubtful
<1>14. AgreeFits'
  <2> SUFFICES ASSUME pc # "gone", NEW e \in Devices \ apart'
               PROVE  IF Changing(e)
                      THEN /\ session[e] = IF op = "online" THEN "INIT" ELSE "ONLINE"
                           /\ pc = "publish" \/ calls \in Elems(to_server') =>
                                (e \in online' <=> op = "offline")
                           /\ \A x \in Elems(to_client') : x.n = calls =>
                                (e \in online' <=> Granted(x.result))
                           /\ reply[op].result # PENDING =>
                                (e \in online' <=> Granted(reply[op].result))
                      ELSE session[e] = "ONLINE" <=> e \in online'
    BY <1>1, <1>2 DEF AgreeFits, Changing, Granted
  <2>1. CASE Running /\ n = calls /\ Changing(e)
    <3>1. op = req[n].op /\ dev = req[n].dev /\ op \in Sessions /\ dev = e
      BY <2>1 DEF op, dev, Changing
    <3>2. /\ session[e] = IF op = "online" THEN "INIT" ELSE "ONLINE"
          /\ e \in online <=> op = "offline"
      BY <1>3, <2>1 DEF IInv, AgreeFits
    <3>3. pc # "publish" /\ calls \notin Elems(to_server')
      BY <1>3, <2>1 DEF IInv, ChannelFits, InFlight
    <3>4. e \in online' <=> Granted(m.result)
      BY <3>1, <3>2 DEF Granted, Sessions
    <3>5. \A x \in Elems(to_client') : x.n = calls => x = m
      BY <1>4, <1>5, <2>1, ElemsNamed DEF IInv, ServerOK
    <3>6. reply[op].result = PENDING
      <4>1. op \in Ops /\ InFlight(calls) /\ e \in Nat /\ e <= e
        BY <1>3, <2>1, OpIs, Sizes DEF InFlight
      <4>2. answered[op] # NoCall => answered[op] # calls
        BY <4>1 DEF IInv, LateFits
      <4> QED BY <2>1, <3>1, <4>1, <4>2 DEF IInv, AnswerFits, Doubtful
    <3> QED BY <2>1, <3>2, <3>3, <3>4, <3>5, <3>6
  <2>2. CASE ~(Running /\ n = calls /\ Changing(e))
    <3>1. e \in online' <=> e \in online
      <4>1. CASE ~(e = req[n].dev /\ req[n].op \in Sessions)
        BY <4>1
      <4>2. CASE e = req[n].dev /\ req[n].op \in Sessions
        <5>1. Running /\ n = calls
          BY <1>13, <4>2
        <5>2. ~Changing(e) /\ op = "offline" /\ session[e] = "INIT"
          BY <2>2, <4>2, <5>1 DEF Changing, op, dev
        <5>3. e \notin online
          BY <5>2 DEF IInv, AgreeFits
        <5>4. req[n].op # "online"
          BY <5>1, <5>2 DEF op
        <5> QED BY <5>3, <5>4
      <4> QED BY <4>1, <4>2
    <3>2. CASE Changing(e)
      <4>1. n # calls
        BY <2>2, <3>2 DEF Changing
      <4>2. \A x \in Elems(to_client') : x.n = calls => x \in Elems(to_client)
        BY <1>5, <4>1
      <4> QED BY <1>3, <3>1, <3>2, <4>2 DEF IInv, AgreeFits
    <3>3. CASE ~Changing(e)
      BY <3>1, <3>3 DEF IInv, AgreeFits
    <3> QED BY <3>2, <3>3
  <2> QED BY <2>1, <2>2
<1> QED BY <1>7, <1>8, <1>10, <1>11, <1>12, <1>14 DEF IInv

LEMMA ServerAnswersIInv == IInv /\ ServerAnswers => IInv'
<1> SUFFICES ASSUME IInv, ServerAnswers PROVE IInv'
  OBVIOUS
<1>1. PICK n : n = Head(to_server)
  OBVIOUS
<1>2. PICK o, d : o = req[n].op /\ d = req[n].dev
  OBVIOUS
<1>3. /\ to_server # << >> /\ to_server' = Tail(to_server)
      /\ UNCHANGED <<pc, sync_status, loop_count, callVars, session, reply, listVars,
                     pushes, rc, answered, given_up, openVars>>
      /\ IF o = "describe_sub_devices"
         THEN /\ to_client' = Append(to_client, Message(o, SetToSeq(bound), SUCCESS, n))
              /\ UNCHANGED <<online, bound, apart>>
         ELSE \E result \in {SUCCESS, ERROR} :
              /\ IF result = SUCCESS THEN Grant(o, d)
                                     ELSE UNCHANGED <<online, bound, apart>>
              /\ to_client' = Append(to_client, Message(o, <<d>>, result, n))
  BY <1>1, <1>2, Zenon DEF ServerAnswers
<1>4. n \in 1..calls /\ n \in Calls /\ n \in 0..MaxCalls
  <2>1. n \in Elems(to_server)
    BY <1>1, <1>3, TakeRequest DEF IInv, ServerOK, ChannelFits
  <2>2. n \in 1..calls
    BY <2>1 DEF IInv, ChannelFits
  <2> QED BY <2>2, Sizes DEF IInv, CallsOK, Calls
<1>5. o \in Ops /\ d \in Devices \cup {NoDevice}
  BY <1>2, <1>4 DEF IInv, CallsOK, Kinds
<1>6. d = NoDevice <=> o = "describe_sub_devices"
  BY <1>2, <1>4 DEF IInv, CallFits
<1>7. online \subseteq Devices /\ bound \subseteq Devices /\ apart \subseteq Devices
  BY DEF IInv, ServerOK
<1>8. CASE o = "describe_sub_devices"
  <2> DEFINE m == Message(o, SetToSeq(bound), SUCCESS, n)
  <2>1. SetToSeq(bound) \in Seq(Devices)
    BY <1>7, SetToSeqIs
  <2>2. m \in Messages /\ m.type = o /\ m.n = n
    BY <1>4, <1>5, <2>1, MessageIs
  <2>3. to_client' = Append(to_client, m) /\ UNCHANGED <<online, bound, apart>>
    BY <1>3, <1>8
  <2> HIDE DEF m
  <2> QED BY <1>1, <1>2, <1>3, <1>7, <1>8, <2>2, <2>3, AnsweredIInv DEF Sessions
<1>9. CASE o # "describe_sub_devices"
  <2>1. PICK result \in {SUCCESS, ERROR} :
          /\ IF result = SUCCESS THEN Grant(o, d) ELSE UNCHANGED <<online, bound, apart>>
          /\ to_client' = Append(to_client, Message(o, <<d>>, result, n))
    BY <1>3, <1>9
  <2> DEFINE m == Message(o, <<d>>, result, n)
  <2>2. d \in Devices /\ <<d>> \in Seq(Devices)
    BY <1>5, <1>6, <1>9
  <2>3. m \in Messages /\ m.type = o /\ m.n = n /\ m.devs = <<d>> /\ m.result = result
    <3>1. o \in Ops \cup Pushed
      BY <1>5
    <3>2. PICK s \in Seq(Devices) : s = <<d>>
      BY <2>2
    <3>3. /\ Message(o, s, result, n) \in Messages
          /\ Message(o, s, result, n).type = o /\ Message(o, s, result, n).n = n
          /\ Message(o, s, result, n).devs = s /\ Message(o, s, result, n).result = result
      BY <1>4, <3>1, MessageIs
    <3> QED BY <3>2, <3>3
  <2>4. m.devs[1] = d /\ to_client' = Append(to_client, m)
    BY <2>1, <2>3
  <2>5. /\ online' \subseteq Devices /\ bound' \subseteq Devices
        /\ apart' \subseteq Devices /\ apart \subseteq apart'
        /\ \A e \in Devices \ apart' : e \in online' <=>
             IF e = d /\ o \in Sessions /\ result = SUCCESS
             THEN o = "online" ELSE e \in online
    <3>1. CASE result = SUCCESS
      <4>1. /\ online' = CASE o = "online" -> online \cup {d}
                           [] o \in {"offline", "unbind"} -> online \ {d}
                           [] OTHER -> online
            /\ bound' = CASE o = "bind" -> bound \cup {d}
                          [] o = "unbind" -> bound \ {d}
                          [] OTHER -> bound
            /\ apart' = IF o = "unbind" THEN apart \cup {d} ELSE apart
        BY <2>1, <3>1 DEF Grant
      <4>2. CASE o = "online"
        BY <1>7, <2>2, <3>1, <4>1, <4>2 DEF Sessions
      <4>3. CASE o = "offline"
        BY <1>7, <2>2, <3>1, <4>1, <4>3 DEF Sessions
      <4>4. CASE o = "bind"
        BY <1>7, <2>2, <3>1, <4>1, <4>4 DEF Sessions
      <4>5. CASE o = "unbind"
        BY <1>7, <2>2, <3>1, <4>1, <4>5 DEF Sessions
      <4> QED BY <1>5, <1>9, <4>2, <4>3, <4>4, <4>5 DEF Ops
    <3>2. CASE result # SUCCESS
      BY <1>7, <2>1, <3>2
    <3> QED BY <3>1, <3>2
  <2> HIDE DEF m
  <2> QED BY <1>1, <1>2, <1>3, <2>3, <2>4, <2>5, AnsweredIInv
<1> QED BY <1>8, <1>9

\* What the console may do.
LEMMA PushIs ==
    \A m \in Pushes :
      \/ m = Message("unbind_all", << >>, 0, 0)
      \/ m = Message("search_devices", << >>, 0, 0)
      \/ \E d \in Devices, status \in {0, 1} : m = Message("change", <<d>>, status, 0)
BY SMT DEF Pushes

LEMMA ServerPushesIInv == ASSUME IInv, NEW m \in Pushes, ServerPushes(m) PROVE IInv'
<1>1. m \in Messages /\ m.type \in Pushed /\ m.n = NoCall /\ m.devs \in Seq(Devices)
  <2>1. << >> \in Seq(Devices)
    BY NothingSent, Zenon
  <2>2. \A d \in Devices : <<d>> \in Seq(Devices)
    OBVIOUS
  <2>3. /\ {"change", "unbind_all", "search_devices"} = Pushed /\ 0 \in 0..MaxCalls
        /\ {0, 1} = {SUCCESS, ERROR} /\ NoCall = 0 /\ 0 \in {SUCCESS, ERROR}
    BY Sizes, Codes DEF Pushed
  <2>4. \/ m = Message("unbind_all", << >>, 0, 0)
        \/ m = Message("search_devices", << >>, 0, 0)
        \/ \E d \in Devices, status \in {0, 1} : m = Message("change", <<d>>, status, 0)
    BY PushIs
  <2>5. ASSUME NEW t \in Pushed, NEW s \in Seq(Devices), NEW r \in {SUCCESS, ERROR},
               m = Message(t, s, r, 0)
        PROVE  m \in Messages /\ m.type \in Pushed /\ m.n = NoCall /\ m.devs \in Seq(Devices)
    <3>1. t \in Ops \cup Pushed
      OBVIOUS
    <3> QED BY <2>3, <2>5, <3>1, MessageIs
  <2>6. CASE m = Message("unbind_all", << >>, 0, 0)
    BY <2>1, <2>3, <2>5, <2>6, Zenon
  <2>7. CASE m = Message("search_devices", << >>, 0, 0)
    BY <2>1, <2>3, <2>5, <2>7, Zenon
  <2>8. ASSUME NEW d \in Devices, NEW status \in {0, 1},
               m = Message("change", <<d>>, status, 0)
        PROVE  m \in Messages /\ m.type \in Pushed /\ m.n = NoCall /\ m.devs \in Seq(Devices)
    BY <2>2, <2>3, <2>5, <2>8, Zenon
  <2> QED BY <2>4, <2>6, <2>7, <2>8, Zenon
<1> DEFINE gone == CASE m.type = "unbind_all" -> Devices
                     [] m.type = "change" /\ m.result = 0 -> ToSet(m.devs)
                     [] OTHER -> {}
<1>2. /\ pushes < MaxPushes /\ pushes' = pushes + 1
      /\ to_client' = Append(to_client, m)
      /\ online' = online \ gone /\ apart' = apart \cup gone
      /\ bound' = IF m.type = "change" /\ m.result = 1
                    THEN bound \cup ToSet(m.devs) ELSE bound \ gone
      /\ UNCHANGED <<pc, sync_status, loop_count, callVars, session, reply, listVars,
                     to_server, rc, answered, given_up, openVars>>
  BY DEF ServerPushes
<1>3. ToSet(m.devs) \subseteq Devices
  <2>1. \A i \in DOMAIN m.devs : m.devs[i] \in Devices
    BY <1>1, ElementOfSeq, LenProperties
  <2> QED BY <2>1 DEF ToSet
<1>4. gone \subseteq Devices /\ (m.type = "unbind_all" => gone = Devices)
  <2>1. CASE m.type = "unbind_all"
    BY <2>1
  <2>2. CASE m.type # "unbind_all"
    BY <1>3, <2>2
  <2> QED BY <2>1, <2>2
<1> HIDE DEF gone
<1>5. /\ UNCHANGED <<pc, sync_status, loop_count, res, calls, req, session, reply>>
      /\ UNCHANGED <<bind_list, subdev_bindlist, listed, touched, to_server, rc>>
      /\ UNCHANGED <<answered, given_up, unprepared, freed>>
  BY <1>2 DEF callVars, listVars, openVars
<1>6. op' = op /\ dev' = dev /\ (Running' <=> Running)
  BY <1>5, OpStays DEF Running
<1>7. /\ to_client' \in Seq(Messages) /\ Named(to_client') = Named(to_client) \cup {NoCall}
      /\ Elems(to_client') = Elems(to_client) \cup {m} /\ OneEach(to_client')
  BY <1>1, <1>2, AddMessage DEF IInv, ServerOK, ChannelFits
<1>8. bound' \subseteq Devices /\ online' \subseteq Devices /\ apart' \subseteq Devices
  BY <1>2, <1>3, <1>4 DEF IInv, ServerOK
<1>9. pushes' \in 0..MaxPushes
  BY <1>2, Sizes DEF IInv, ServerOK
<1>10. CallsOK' /\ FieldsOK' /\ ServerOK'
  BY <1>5, <1>7, <1>8, <1>9 DEF IInv, CallsOK, FieldsOK, ServerOK
<1>11. CallFits' /\ ListFits' /\ SettleFits' /\ FreedFits'
  BY <1>5, <1>6 DEF IInv, CallFits, ListFits, SettleFits, FreedFits, Opening
<1>12. \A k \in 1..calls : InFlight(k)' <=> InFlight(k)
  BY <1>5, <1>7, MadeAreCalls DEF IInv, CallsOK, InFlight
<1>13. ChannelFits'
  <2>1. \A k \in Elems(to_server) : k # NoCall
    BY MadeAreCalls DEF IInv, CallsOK, ChannelFits
  <2>2. pc = "publish" => ~InFlight(calls)'
    <3> SUFFICES ASSUME pc = "publish" PROVE ~InFlight(calls)'
      OBVIOUS
    <3>1. Running
      BY DEF Running
    <3>2. calls \in 1..calls /\ ~InFlight(calls)
      BY <3>1, OpIs DEF IInv, ChannelFits
    <3> QED BY <1>5, <1>12, <3>2 DEF InFlight
  <2>3. m.type = "unbind_all" => Devices \subseteq apart'
    BY <1>2, <1>4
  <2>4. apart \subseteq apart'
    BY <1>2
  <2> QED BY <1>1, <1>5, <1>7, <2>1, <2>2, <2>3, <2>4 DEF IInv, ChannelFits
<1>14. apart \subseteq apart'
  BY <1>2
<1>15. LateFits'
  BY <1>5, <1>6, <1>12, <1>14 DEF IInv, LateFits, Doubtful, InFlight
<1>16. AnswerFits'
  BY <1>5, <1>6, <1>14 DEF IInv, AnswerFits, OwnOrLate, Doubtful
<1>17. AgreeFits'
  <2>1. Running => calls # NoCall
    BY OpIs, MadeAreCalls DEF IInv, CallsOK
  <2>2. \A e \in Devices \ apart' : e \in online' <=> e \in online
    BY <1>2
  <2>3. \A x \in Elems(to_client') : Running /\ x.n = calls => x \in Elems(to_client)
    BY <1>1, <1>7, <2>1
  <2> QED BY <1>5, <1>6, <1>14, <2>2, <2>3 DEF IInv, AgreeFits, Changing, Granted
<1> QED BY <1>10, <1>11, <1>13, <1>15, <1>16, <1>17 DEF IInv

LEMMA MessageLostIInv == IInv /\ MessageLost => IInv'
<1> SUFFICES ASSUME IInv, MessageLost PROVE IInv'
  OBVIOUS
<1>1. /\ UNCHANGED <<pc, sync_status, loop_count, res, calls, req, session, reply>>
      /\ UNCHANGED <<bind_list, subdev_bindlist, listed, touched, online, bound>>
      /\ UNCHANGED <<pushes, rc, answered, given_up, apart, unprepared, freed>>
  BY DEF MessageLost, callVars, listVars, serverVars, openVars
<1>2. /\ to_server' \in Seq(Calls) /\ Distinct(to_server')
      /\ \A k \in Elems(to_server') : k \in Elems(to_server)
      /\ to_client' \in Seq(Messages) /\ OneEach(to_client')
      /\ \A k \in Named(to_client') : k \in Named(to_client)
      /\ \A x \in Elems(to_client') : x \in Elems(to_client)
  <2>1. /\ to_server \in Seq(Calls) /\ Distinct(to_server)
        /\ to_client \in Seq(Messages) /\ OneEach(to_client)
    BY DEF IInv, ServerOK, ChannelFits
  <2>2. CASE to_server # << >> /\ to_server' = Tail(to_server) /\ UNCHANGED to_client
    BY <2>1, <2>2, TakeRequest
  <2>3. CASE to_client # << >> /\ to_client' = Tail(to_client) /\ UNCHANGED to_server
    BY <2>1, <2>3, TakeMessage
  <2> QED BY <2>2, <2>3 DEF MessageLost
<1>3. op' = op /\ dev' = dev /\ (Running' <=> Running)
  BY <1>1, OpStays DEF Running
<1>4. CallsOK' /\ FieldsOK' /\ ServerOK'
  BY <1>1, <1>2 DEF IInv, CallsOK, FieldsOK, ServerOK
<1>5. CallFits' /\ ListFits' /\ SettleFits' /\ FreedFits'
  BY <1>1, <1>3 DEF IInv, CallFits, ListFits, SettleFits, FreedFits, Opening
<1>6. \A k : InFlight(k)' => InFlight(k)
  BY <1>2 DEF InFlight
<1>7. ChannelFits'
  BY <1>1, <1>2 DEF IInv, ChannelFits, InFlight
<1>8. LateFits'
  BY <1>1, <1>2, <1>3 DEF IInv, LateFits, Doubtful, InFlight
<1>9. AnswerFits'
  BY <1>1, <1>3 DEF IInv, AnswerFits, OwnOrLate, Doubtful
<1>10. AgreeFits'
  BY <1>1, <1>2, <1>3 DEF IInv, AgreeFits, Changing, Granted
<1> QED BY <1>4, <1>5, <1>7, <1>8, <1>9, <1>10 DEF IInv

----------------------------------------------------------------------------
(* The theorems.                                                           *)

LEMMA NextIInv == IInv /\ [Next]_vars => IInv'
<1> SUFFICES ASSUME IInv, [Next]_vars PROVE IInv'
  OBVIOUS
<1>1. CASE Application
  BY <1>1, OnlineIInv, OnlineUnpreparedIInv, OfflineIInv, BindUnbindIInv,
     GetBindListIInv, GetBindListUnpreparedIInv, DestroyIInv
     DEF Application
<1>2. CASE Call
  BY <1>2, SubscribeWaitIInv, SubscribeYieldIInv, PublishIInv, PublishFailsIInv,
     WaitEndsIInv, WaitTimesOutIInv, WaitTurnIInv, YieldReturnsIInv
     DEF Call
<1>3. CASE HandleMessage
  BY <1>3, HandleMessageIInv
<1>4. CASE Environment
  BY <1>4, ServerAnswersIInv, ServerPushesIInv, MessageLostIInv DEF Environment
<1>5. CASE UNCHANGED vars
  <2>1. /\ UNCHANGED <<pc, sync_status, loop_count, res, calls, req, session, reply>>
        /\ UNCHANGED <<bind_list, subdev_bindlist, to_server, to_client, online, bound>>
        /\ UNCHANGED <<pushes, rc, answered, given_up, apart, listed, touched>>
        /\ UNCHANGED <<unprepared, freed>>
    BY <1>5 DEF vars
  <2>2. op' = op /\ dev' = dev /\ (Running' <=> Running)
    BY <2>1, OpStays DEF Running
  <2>3. CallsOK' /\ FieldsOK' /\ ServerOK'
    BY <2>1 DEF IInv, CallsOK, FieldsOK, ServerOK
  <2>4. CallFits' /\ ListFits' /\ SettleFits' /\ FreedFits' /\ ChannelFits'
    BY <2>1, <2>2 DEF IInv, CallFits, ListFits, SettleFits, FreedFits, Opening, ChannelFits,
       InFlight
  <2>5. LateFits' /\ AnswerFits'
    BY <2>1, <2>2 DEF IInv, LateFits, AnswerFits, OwnOrLate, Doubtful, InFlight
  <2>6. AgreeFits'
    BY <2>1, <2>2 DEF IInv, AgreeFits, Changing, Granted
  <2> QED BY <2>3, <2>4, <2>5, <2>6 DEF IInv
<1> QED BY <1>1, <1>2, <1>3, <1>4, <1>5 DEF Next

LEMMA SpecIInv == Spec => []IInv
BY InitIInv, NextIInv, PTL DEF Spec

\* The fields of the gateway have the values TypeOK gives them; in particular
\* the turns of a wait stay within GATEWAY_LOOP_MAX_COUNT + 1, and bind_list
\* holds subdevices whatever was put on it and taken off.
THEOREM TypeCorrect == Spec => []TypeOK
<1>1. IInv => TypeOK
  <2> SUFFICES ASSUME IInv PROVE TypeOK
    OBVIOUS
  <2>1. \A m \in ToSet(to_client) : m.devs \in Seq(Devices)
    <3>1. ToSet(to_client) = Elems(to_client)
      BY DEF ToSet, Elems
    <3> QED BY <3>1, ElemsNamed, MessageIs DEF IInv, ServerOK
  <2> QED BY <2>1 DEF IInv, CallsOK, FieldsOK, ServerOK, TypeOK, Kinds, Replies
<1> QED BY <1>1, SpecIInv, PTL

\* A call that made its request leaves no session half open, however it ended
\* and whatever the handler did to the sessions meanwhile: between calls only
\* an Online that returned before it sent anything has left one.  And a call
\* writes to a freed session only if unbind_all came inside it.
THEOREM NoHalfOpenSessions == Spec => []SessionsSettle
<1>1. IInv => SessionsSettle
  BY DEF IInv, SettleFits, FreedFits, Opening, Running, SessionsSettle
<1> QED BY <1>1, SpecIInv, PTL

\* Between calls the gateway and the server agree about every subdevice that
\* is not marked, for any number of calls, losses and late results.
THEOREM SidesAgree == Spec => []AgreesWithServer
<1>1. IInv => AgreesWithServer
  BY DEF IInv, AgreeFits, Changing, Running, AgreesWithServer
<1> QED BY <1>1, SpecIInv, PTL

\* The wait of a call that returns success ends in WaitEnds, with a result
\* that is stored: its own, or a late one.
THEOREM SuccessIsAnswered == Spec => AnswersOwnRequest
<1>1. ASSUME IInv, [Next]_vars, pc = "wait", pc' = "idle", rc' = SUCCESS
      PROVE  OwnOrLate(answered[op])
  <2>1. Running
    BY <1>1 DEF Running
  <2>2. WaitEnds \/ WaitTimesOut
    BY <1>1 DEF Next, Application, Call, Environment, Online, OnlineUnprepared, Offline,
       BindUnbind, GetBindList, GetBindListUnprepared, Destroy, SubscribeWait, SubscribeYield, Publish, PublishFails,
       WaitTurn, YieldReturns, HandleMessage, ServerAnswers, ServerPushes,
       MessageLost, vars
  <2>3. rc' # SUCCESS \/ reply[op].result # PENDING
    <3>1. CASE WaitTimesOut
      BY <1>1, <2>1, <3>1, FailDoes, Codes DEF WaitTimesOut, IInv, CallFits
    <3>2. CASE WaitEnds
      BY <1>1, <2>1, <3>2 DEF WaitEnds, IInv, CallFits
    <3> QED BY <2>2, <3>1, <3>2
  <2> QED BY <1>1, <2>1, <2>3 DEF IInv, AnswerFits
<1>2. IInv /\ [Next]_vars =>
        [(pc = "wait" /\ pc' = "idle" /\ rc' = SUCCESS) => OwnOrLate(answered[op])]_vars
  BY <1>1
<1> QED BY <1>2, SpecIInv, PTL DEF Spec, AnswersOwnRequest

\* A list that is handed over is the server's, unless bind_list was changed
\* by something else since it was emptied.
THEOREM ListIsTheServers == Spec => ListIsReplied
<1>1. ASSUME IInv, [Next]_vars, subdev_bindlist' # subdev_bindlist
      PROVE  subdev_bindlist' = Reverse(listed) \/ touched > 1
  <2>1. WaitEnds /\ Succeed
    BY <1>1 DEF Next, Application, Call, Environment, Online, OnlineUnprepared, Offline,
       BindUnbind, GetBindList, GetBindListUnprepared, Destroy, SubscribeWait, SubscribeYield, Publish, PublishFails,
       Fail, WaitEnds, WaitTimesOut, WaitTurn, YieldReturns, HandleMessage,
       HandleResult, HandleDescribe, HandleChange, HandleUnbindAll, HandleOther,
       ServerAnswers, ServerPushes, MessageLost, listVars, vars
  <2>2. Running /\ reply[op].result # PENDING
    BY <1>1, <2>1 DEF WaitEnds, Running, IInv, CallFits
  <2>3. op = "describe_sub_devices" /\ subdev_bindlist' = bind_list
    BY <1>1, <2>1, <2>2, SucceedDoes
  <2>4. touched \in 0..2 /\ touched >= 1 /\ (touched = 1 => bind_list = Reverse(listed))
    BY <1>1, <2>2, <2>3 DEF IInv, ListFits, FieldsOK
  <2> QED BY <2>3, <2>4
<1>2. IInv /\ [Next]_vars =>
        [subdev_bindlist' # subdev_bindlist =>
           subdev_bindlist' = Reverse(listed) \/ touched > 1]_vars
  BY <1>1
<1> QED BY <1>2, SpecIInv, PTL DEF Spec, ListIsReplied
============================================================================
