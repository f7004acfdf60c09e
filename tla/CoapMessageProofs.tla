------------------------- MODULE CoapMessageProofs -------------------------
(***************************************************************************)
(* Proofs about CoapMessage, for any number of threads, any range of       *)
(* message ids, any number of retransmissions and of datagrams under way.  *)
(***************************************************************************)
EXTENDS CoapMessage, TLAPS, FiniteSetTheorems

Steps == {"idle", "id", "token", "lock", "write", "list", "return", "ok", "error"}
Messages == [kind : Kinds, id : 0..COAP_MSG_MAX_MSG_ID, token : Nat, of : Requests]

\* The typed part of the state, without the bounds on tokens.  No callback is
\* called again.
DataOK ==
    /\ phase \in {"auth", "ready", "destroyed"}
    /\ is_authed \in {-1, 0, 1}
    /\ next_msg_id \in 0..COAP_MSG_MAX_MSG_ID
    /\ message_token \in Nat
    /\ lock_send_buf \in Threads \cup {NoThread}
    /\ send_buf \in Requests \cup {ACK}
    /\ pc \in [Threads -> Steps]
    /\ tmp \in [Threads -> Nat]
    /\ msg_id \in [Requests -> 0..COAP_MSG_MAX_MSG_ID]
    /\ token \in [Requests -> Nat]
    /\ Listed \subseteq Requests
    /\ ypc \in {"read", "ack", "acksent", "response", "sweep"}
    /\ in \in Messages \cup {NoDatagram}
    /\ server \in [Requests -> {"nothing", "copy", "due"}]
    /\ answers \subseteq Messages
    /\ report \in [Requests -> {"none", "answer", "timeout"}]
    /\ from \in [Requests -> Requests \cup {NoThread}]

NodesOK == message_list \in [Listed -> SendInfo]
FlagsOK == raced \in BOOLEAN

\* send_buf holds the request of the thread that has the mutex until that
\* thread has copied it.  The yielding thread handles a message outside of
\* every call of its own.
BufferFits ==
    /\ \A t \in Threads : pc[t] \in {"write", "list", "return"} =>
         lock_send_buf = t /\ send_buf = t
    /\ ypc = "acksent" => lock_send_buf = Yielder
    /\ ypc # "read" => Yielding

\* Requests that have drawn an id.
Numbered == {t \in Threads : pc[t] \notin {"idle", "id"}}

\* A request is reported while its node is on the list, which then is removed
\* by the next sweep.
NodesFit ==
    /\ \A r \in Listed : /\ pc[r] \in {"return", "ok"}
                         /\ message_list[r].copy = r
                         /\ message_list[r].invalid <=> report[r] # "none"
                         /\ message_list[r].invalid => ypc = "sweep"
    /\ \A t \in Threads : pc[t] \notin {"return", "ok"} => report[t] = "none"

\* m carries the id and the token of the request it answers.
Fits(m) == /\ m.of \in Numbered
           /\ m.id = msg_id[m.of]
           /\ m.token = token[m.of]

WireFits ==
    /\ \A r \in Requests : server[r] # "nothing" => r \in Numbered
    /\ \A m \in answers : Fits(m)
    /\ ypc \in {"ack", "acksent", "response"} => in # NoDatagram
    /\ in # NoDatagram => Fits(in)

\* The token of the first request: the authentication has drawn 0, or will.
Base == IF phase # "auth" /\ pc[Yielder] = "idle" THEN 1 ELSE 0

Stored == {t \in Threads : pc[t] \notin {"idle", "id", "token"}}

\* The counter of tokens, and every value read from it, counts the threads
\* that have stored one, or fewer.
CountFits ==
    /\ message_token \in Base..(Base + Cardinality(Stored))
    /\ \A t \in Numbered : token[t] \in Base..(Base + Cardinality(Stored))
    /\ \A t \in Threads : pc[t] = "token" => tmp[t] = token[t]
    /\ \A t \in Threads : pc[t] = "id" => tmp[t] \in 0..COAP_MSG_MAX_MSG_ID

\* The token drawn last.
Last == IF \E t \in Threads : pc[t] = "token" THEN message_token
        ELSE message_token - 1

\* The message id a draws after i.
Shift(i, a) == IF i + a <= COAP_MSG_MAX_MSG_ID THEN i + a
               ELSE i + a - COAP_MSG_MAX_MSG_ID

\* While the threads draw one after the other, tokens are distinct, and ids
\* are drawn in the order of the tokens.
DrawsFit ==
    ~raced =>
      /\ \A t, u \in Threads : pc[t] = "id" /\ pc[u] = "id" => t = u
      /\ \A t, u \in Threads : pc[t] = "token" /\ pc[u] = "token" => t = u
      /\ \A t \in Threads : pc[t] = "id" => tmp[t] = next_msg_id
      /\ \A t \in Threads : pc[t] = "token" => token[t] = message_token
      /\ \A r, s \in Numbered : token[r] = token[s] => r = s
      /\ \A r \in Numbered :
           /\ token[r] <= Last
           /\ msg_id[r] \in 1..COAP_MSG_MAX_MSG_ID
           /\ Last - token[r] < COAP_MSG_MAX_MSG_ID =>
                next_msg_id = Shift(msg_id[r], Last - token[r])

IInv == /\ DataOK /\ NodesOK /\ FlagsOK /\ BufferFits /\ NodesFit /\ WireFits
        /\ CountFits /\ DrawsFit /\ OwnAnswer

----------------------------------------------------------------------------
(* Counting threads, and the ring of message ids.                          *)

\* Threads are finitely many.
LEMMA CountThreads ==
    ASSUME NEW S \in SUBSET Threads, NEW T \in SUBSET S
    PROVE  /\ IsFiniteSet(T) /\ Cardinality(T) \in Nat /\ Cardinality(S) \in Nat
           /\ Cardinality(T) <= Cardinality(S)
<1>1. IsFiniteSet(Threads)
  BY CoapAssumption, FS_AddElement DEF Threads
<1>2. IsFiniteSet(S)
  BY <1>1, FS_Subset
<1> QED BY <1>2, FS_Subset, FS_CardinalityType

\* get_next_coap_msg_id stays in the ring, goes one step on, and returns to an
\* id after a whole turn only.
LEMMA Ring ==
    /\ \A i \in 0..COAP_MSG_MAX_MSG_ID :
         get_next_coap_msg_id(i) \in 1..COAP_MSG_MAX_MSG_ID
    /\ \A i \in 1..COAP_MSG_MAX_MSG_ID : Shift(i, 0) = i
    /\ \A i \in 1..COAP_MSG_MAX_MSG_ID, a \in Nat : a + 1 < COAP_MSG_MAX_MSG_ID =>
         Shift(i, a + 1) = get_next_coap_msg_id(Shift(i, a))
    /\ \A i \in 1..COAP_MSG_MAX_MSG_ID, a, b \in Nat :
         a < COAP_MSG_MAX_MSG_ID /\ b < a => Shift(i, a) # Shift(i, b)
BY CoapAssumption DEF Shift, get_next_coap_msg_id

----------------------------------------------------------------------------
(* The initial states.                                                     *)

\* A client that authenticates or has authenticated, without requests.
LEMMA InitIInv == Init => IInv
<1> SUFFICES ASSUME Init PROVE IInv
  OBVIOUS
<1> USE CoapAssumption
<1>1. Listed = {} /\ Stored = {} /\ Numbered = {} /\ Begun = {}
  BY DEF Init, Listed, Stored, Numbered, Begun
<1>2. DataOK
  BY <1>1 DEF Init, DataOK, Requests, Threads, Steps, ACK
<1>3. NodesOK
  BY <1>1 DEF Init, NodesOK, Listed
<1>4. FlagsOK
  BY Zenon DEF Init, FlagsOK
<1>5. BufferFits /\ WireFits /\ DrawsFit
  BY <1>1 DEF Init, BufferFits, WireFits, DrawsFit, Requests
<1>6. NodesFit
  BY <1>1 DEF Init, NodesFit, Requests
<1>7. CountFits
  <2>1. Yielder \in Threads /\ Cardinality({}) = 0
    BY FS_EmptySet DEF Threads
  <2>2. message_token = Base /\ Base \in {0, 1}
    BY <2>1 DEF Init, Base
  <2> QED BY <1>1, <2>1, <2>2 DEF Init, CountFits
<1>8. OwnAnswer
  BY DEF Init, OwnAnswer
<1> QED BY <1>2, <1>3, <1>4, <1>5, <1>6, <1>7, <1>8 DEF IInv

----------------------------------------------------------------------------
(* What steps leave alone.                                                 *)

Late == {"lock", "write", "list", "return", "ok", "error"}

\* Once the token is stored a call does not touch the counters.
LEMMA DrawsStay ==
    ASSUME IInv, UNCHANGED <<idVars, tmp>>, Base' = Base,
           \A t \in Threads : pc'[t] = pc[t] \/ (pc[t] \in Late /\ pc'[t] \in Late)
    PROVE  /\ Numbered' = Numbered /\ Stored' = Stored /\ Begun' = Begun
           /\ CountFits' /\ DrawsFit' /\ FlagsOK'
<1>1. Numbered' = Numbered /\ Stored' = Stored /\ Begun' = Begun
  BY DEF Numbered, Stored, Begun, Late
<1>2. \A t \in Threads : /\ pc'[t] = "id" <=> pc[t] = "id"
                         /\ pc'[t] = "token" <=> pc[t] = "token"
  BY DEF Late
<1>3. Last' = Last
  BY <1>2 DEF Last, idVars
<1>4. CountFits'
  BY <1>1, <1>2 DEF IInv, CountFits, idVars
<1>5. DrawsFit'
  BY <1>1, <1>2, <1>3 DEF IInv, DrawsFit, idVars, Shift
<1>6. FlagsOK'
  BY DEF IInv, FlagsOK, idVars
<1> QED BY <1>1, <1>4, <1>5, <1>6

\* The first token does not depend on a move past the beginning of a call.
LEMMA BaseStays ==
    ASSUME phase' = phase, pc'[Yielder] = "idle" <=> pc[Yielder] = "idle"
    PROVE  Base' = Base
BY DEF Base

\* Messages fit as long as their requests are numbered.
LEMMA WireStays ==
    ASSUME IInv, UNCHANGED <<msg_id, token>>, Numbered' = Numbered,
           answers' \subseteq answers, in' \in {in, NoDatagram},
           \A r \in Requests : server'[r] \in {server[r], "nothing"} \/ r \in Numbered,
           \/ UNCHANGED <<ypc, in>>
           \/ ypc' \in {"read", "sweep"}
           \/ ypc \in {"ack", "acksent", "response"} /\ in' = in
    PROVE  WireFits'
<1>1. \A m : Fits(m)' <=> Fits(m)
  BY DEF Fits
<1> QED BY <1>1 DEF IInv, WireFits

----------------------------------------------------------------------------
(* Sending.                                                                *)

\* A step of a call that has its id and its token.
LateMove(t, next) ==
    /\ pc[t] \in {"lock", "write", "list", "return"}
    /\ next \in Late
    /\ pc' = [pc EXCEPT ![t] = next]
    /\ UNCHANGED <<phase, idVars, tmp, ypc, in, answers, reports>>

\* Such a step leaves the counters, the messages under way and the reports.
LEMMA LateMoveFits ==
    ASSUME IInv, NEW t \in Threads, NEW next \in Late, LateMove(t, next),
           \A r \in Requests : server'[r] = server[r] \/ r \in Numbered
    PROVE  /\ pc' \in [Threads -> Steps] /\ pc'[t] = next
           /\ \A u \in Threads \ {t} : pc'[u] = pc[u]
           /\ FlagsOK' /\ WireFits' /\ CountFits' /\ DrawsFit' /\ OwnAnswer'
           /\ Begun' = Begun
<1>1. /\ pc' \in [Threads -> Steps] /\ pc'[t] = next
      /\ \A u \in Threads \ {t} : pc'[u] = pc[u]
  BY DEF LateMove, IInv, DataOK, Steps, Late
<1>2. Yielder \in Threads
  BY DEF Threads
<1>3. pc[t] \in Late /\ next \in Late /\ pc[t] # "idle" /\ next # "idle"
  BY DEF LateMove, Late
<1>4. Base' = Base
  BY <1>1, <1>2, <1>3, BaseStays DEF LateMove
<1>5. /\ Numbered' = Numbered /\ Begun' = Begun
      /\ FlagsOK' /\ CountFits' /\ DrawsFit'
  <2>1. ASSUME NEW u \in Threads
        PROVE  pc'[u] = pc[u] \/ (pc[u] \in Late /\ pc'[u] \in Late)
    BY <1>1, <1>3
  <2>2. UNCHANGED <<idVars, tmp>>
    BY DEF LateMove
  <2> QED BY <1>4, <2>1, <2>2, DrawsStay
<1>6. WireFits'
  BY <1>5, WireStays DEF LateMove, idVars
<1>7. OwnAnswer'
  BY <1>5 DEF IInv, OwnAnswer, LateMove, idVars, reports
<1> QED BY <1>1, <1>5, <1>6, <1>7

\* The thread takes the mutex and serializes its request.
LEMMA SerializeKeeps ==
    ASSUME IInv, NEW t \in Threads, Serialize(t) PROVE IInv'
<1>1. /\ LateMove(t, "write") /\ UNCHANGED <<message_list, server>>
      /\ lock_send_buf = NoThread /\ lock_send_buf' = t /\ send_buf' = t
      /\ Listed' = Listed /\ pc[t] = "lock"
  BY DEF Serialize, LateMove, Late, netVars, Listed
<1>2. /\ pc' \in [Threads -> Steps] /\ pc'[t] = "write"
      /\ \A u \in Threads \ {t} : pc'[u] = pc[u]
      /\ FlagsOK' /\ WireFits' /\ CountFits' /\ DrawsFit' /\ OwnAnswer'
      /\ Begun' = Begun
  BY <1>1, LateMoveFits DEF Late
<1>3. DataOK'
  BY <1>1, <1>2 DEF IInv, DataOK, LateMove, idVars, reports, Requests, Messages
<1>4. NodesOK'
  BY <1>1 DEF IInv, NodesOK
<1>5. NodesFit'
  BY <1>1, <1>2 DEF IInv, NodesFit, LateMove, reports, DataOK, Requests
<1>6. BufferFits'
  <2>1. \A u \in Threads : pc[u] \notin {"write", "list", "return"}
    BY <1>1, CoapAssumption DEF IInv, BufferFits, Threads
  <2>2. ypc # "acksent"
    BY <1>1, CoapAssumption DEF IInv, BufferFits
  <2>3. Yielding => t # Yielder
    BY <1>1 DEF Yielding, Ended
  <2>4. Yielder \in Threads
    BY DEF Threads
  <2>5. Yielding => Yielding'
    BY <1>1, <1>2, <2>3, <2>4 DEF Yielding, Ended, LateMove
  <2> QED BY <1>1, <1>2, <2>1, <2>2, <2>5 DEF IInv, BufferFits, LateMove
<1> QED BY <1>2, <1>3, <1>4, <1>5, <1>6 DEF IInv

\* The mutex is released and the call fails or returns.
LEMMA ReturnKeeps ==
    ASSUME IInv, NEW t \in Threads, NEW outcome \in {"ok", "error"},
           Return(t, outcome),
           UNCHANGED <<phase, idVars, tmp, message_list, ypc, in, netVars, reports>>,
           \/ pc[t] \in {"lock", "write", "list"} /\ outcome = "error"
           \/ pc[t] = "return" /\ outcome = "ok"
    PROVE  IInv'
<1>1. LateMove(t, outcome) /\ UNCHANGED <<message_list, server>> /\ Listed' = Listed
  BY DEF Return, LateMove, Late, netVars, Listed
<1>2. /\ pc' \in [Threads -> Steps] /\ pc'[t] = outcome
      /\ \A u \in Threads \ {t} : pc'[u] = pc[u]
      /\ FlagsOK' /\ WireFits' /\ CountFits' /\ DrawsFit' /\ OwnAnswer'
      /\ Begun' = Begun
  BY <1>1, LateMoveFits DEF Late
<1>3. /\ lock_send_buf = t => lock_send_buf' = NoThread /\ send_buf' = ACK
      /\ lock_send_buf # t => lock_send_buf' = lock_send_buf /\ send_buf' = send_buf
  BY DEF Return
<1>4. DataOK'
  BY <1>1, <1>2, <1>3 DEF IInv, DataOK, LateMove, idVars, reports, Requests, Messages
<1>5. NodesOK'
  BY <1>1 DEF IInv, NodesOK
<1>6. NodesFit'
  BY <1>1, <1>2 DEF IInv, NodesFit, LateMove, reports, DataOK, Requests
<1>7. BufferFits'
  <2>1. Yielding => t # Yielder
    BY DEF Yielding, Ended
  <2>2. Yielder \in Threads
    BY DEF Threads
  <2>3. Yielding => Yielding'
    BY <1>1, <1>2, <2>1, <2>2 DEF Yielding, Ended, LateMove
  <2>4. \A u \in Threads : pc'[u] \in {"write", "list", "return"} =>
          u # t /\ pc'[u] = pc[u]
    BY <1>2
  <2>5. ypc' = ypc
    OBVIOUS
  <2> QED BY <1>3, <2>1, <2>3, <2>4, <2>5 DEF IInv, BufferFits
<1> QED BY <1>2, <1>4, <1>5, <1>6, <1>7 DEF IInv

\* What is written is the request of the thread that writes.
LEMMA WriteKeeps ==
    ASSUME IInv, NEW t \in Threads, Write(t) PROVE IInv'
<1>1. /\ LateMove(t, "list") /\ Listed' = Listed /\ pc[t] = "write"
      /\ UNCHANGED <<message_list, lock_send_buf, send_buf>>
      /\ server' = Transmitted({send_buf})
  BY DEF Write, LateMove, Late, Listed
<1>2. t \in Numbered /\ send_buf = t
  BY <1>1 DEF Numbered, IInv, BufferFits
<1>3. /\ server' \in [Requests -> {"nothing", "copy", "due"}]
      /\ \A r \in Requests : server'[r] = server[r] \/ r \in Numbered
  BY <1>1, <1>2 DEF Transmitted, IInv, DataOK
<1>4. /\ pc' \in [Threads -> Steps] /\ pc'[t] = "list"
      /\ \A u \in Threads \ {t} : pc'[u] = pc[u]
      /\ FlagsOK' /\ WireFits' /\ CountFits' /\ DrawsFit' /\ OwnAnswer'
      /\ Begun' = Begun
  BY <1>1, <1>3, LateMoveFits DEF Late
<1>5. DataOK'
  BY <1>1, <1>3, <1>4 DEF IInv, DataOK, LateMove, idVars, reports, Requests, Messages
<1>6. NodesOK'
  BY <1>1 DEF IInv, NodesOK
<1>7. NodesFit'
  BY <1>1, <1>4 DEF IInv, NodesFit, LateMove, reports, DataOK, Requests
<1>8. BufferFits'
  <2>1. Yielding => t # Yielder
    BY <1>1 DEF Yielding, Ended
  <2>2. Yielder \in Threads
    BY DEF Threads
  <2>3. Yielding => Yielding'
    BY <1>1, <1>4, <2>1, <2>2 DEF Yielding, Ended, LateMove
  <2>4. \A u \in Threads : pc'[u] \in {"write", "list", "return"} =>
          pc[u] \in {"write", "list", "return"}
    BY <1>1, <1>4
  <2>5. ypc' = ypc
    BY <1>1 DEF LateMove
  <2> QED BY <1>1, <2>3, <2>4, <2>5 DEF IInv, BufferFits
<1> QED BY <1>4, <1>5, <1>6, <1>7, <1>8 DEF IInv

\* The copy that is kept for retransmissions is the request of the thread.
LEMMA ListAddKeeps ==
    ASSUME IInv, NEW t \in Threads, _coap_message_list_add(t) PROVE IInv'
<1> DEFINE info == [acked |-> FALSE, retrans_count |-> 0, expired |-> FALSE,
                    invalid |-> FALSE, copy |-> send_buf]
<1>1. /\ LateMove(t, "return") /\ pc[t] = "list"
      /\ UNCHANGED <<lock_send_buf, send_buf, server>>
      /\ message_list' = [r \in Listed \cup {t} |->
                             IF r = t THEN info ELSE message_list[r]]
  BY DEF _coap_message_list_add, LateMove, Late, netVars
<1>2. send_buf = t
  BY <1>1 DEF IInv, BufferFits
<1>3. info \in SendInfo /\ info.copy = t /\ ~info.invalid
  <2>1. 0 \in 0..max_retry_count
    BY CoapAssumption
  <2>2. send_buf \in Requests
    BY <1>2 DEF Requests
  <2> QED BY <1>2, <2>1, <2>2, Zenon DEF SendInfo
<1> HIDE DEF info
<1>4. Listed' = Listed \cup {t} /\ t \notin Listed
  BY <1>1 DEF Listed, IInv, NodesFit
<1>5. /\ pc' \in [Threads -> Steps] /\ pc'[t] = "return"
      /\ \A u \in Threads \ {t} : pc'[u] = pc[u]
      /\ FlagsOK' /\ WireFits' /\ CountFits' /\ DrawsFit' /\ OwnAnswer'
      /\ Begun' = Begun
  BY <1>1, LateMoveFits DEF Late
<1>6. DataOK'
  BY <1>1, <1>4, <1>5 DEF IInv, DataOK, LateMove, idVars, reports, Requests, Messages
<1>7. NodesOK'
  BY <1>1, <1>3, <1>4 DEF IInv, NodesOK
<1>8. NodesFit'
  <2>1. report[t] = "none" /\ report' = report /\ ypc' = ypc
    BY <1>1 DEF IInv, NodesFit, LateMove, reports
  <2>2. \A r \in Listed : message_list'[r] = message_list[r] /\ r # t
    BY <1>1, <1>4
  <2>3. message_list'[t] = info
    BY <1>1
  <2>4. \A r \in Listed : pc'[r] = pc[r]
    BY <1>5, <2>2 DEF IInv, DataOK, Requests
  <2>5. \A r \in Listed' : /\ pc'[r] \in {"return", "ok"}
                           /\ message_list'[r].copy = r
                           /\ message_list'[r].invalid <=> report'[r] # "none"
                           /\ message_list'[r].invalid => ypc' = "sweep"
    BY <1>3, <1>4, <1>5, <2>1, <2>2, <2>3, <2>4 DEF IInv, NodesFit
  <2>6. \A u \in Threads : pc'[u] \notin {"return", "ok"} => report'[u] = "none"
    BY <1>5, <2>1 DEF IInv, NodesFit
  <2> QED BY <2>5, <2>6 DEF NodesFit
<1>9. BufferFits'
  <2>1. Yielding => t # Yielder
    BY <1>1 DEF Yielding, Ended
  <2>2. Yielder \in Threads
    BY DEF Threads
  <2>3. Yielding => Yielding'
    BY <1>1, <1>5, <2>1, <2>2 DEF Yielding, Ended, LateMove
  <2>4. \A u \in Threads : pc'[u] \in {"write", "list", "return"} =>
          pc[u] \in {"write", "list", "return"}
    BY <1>1, <1>5
  <2>5. ypc' = ypc
    BY <1>1 DEF LateMove
  <2> QED BY <1>1, <2>3, <2>4, <2>5 DEF IInv, BufferFits
<1> QED BY <1>5, <1>6, <1>7, <1>8, <1>9 DEF IInv

\* What a call does to the rest of the state until it has its id and token.
LEMMA EarlyMoveFits ==
    ASSUME IInv, NEW t \in Threads, NEW next \in {"id", "token", "lock"},
           pc[t] \in {"idle", "id", "token"}, pc' = [pc EXCEPT ![t] = next],
           pc[t] = "idle" => phase = IF t = Yielder THEN "auth" ELSE "ready",
           UNCHANGED <<phase, lock_send_buf, send_buf, message_list, ypc, in,
                       netVars, reports>>
    PROVE  /\ pc' \in [Threads -> Steps] /\ pc'[t] = next
           /\ \A u \in Threads \ {t} : pc'[u] = pc[u]
           /\ Base' = Base /\ Base \in {0, 1}
           /\ NodesOK' /\ NodesFit' /\ BufferFits'
<1>1. /\ pc' \in [Threads -> Steps] /\ pc'[t] = next
      /\ \A u \in Threads \ {t} : pc'[u] = pc[u]
  BY DEF IInv, DataOK, Steps
<1>2. Yielder \in Threads
  BY DEF Threads
<1>3. Base' = Base /\ Base \in {0, 1}
  BY <1>1, <1>2 DEF Base
<1>4. Listed' = Listed
  BY DEF Listed
<1>5. NodesOK'
  BY <1>4 DEF IInv, NodesOK
<1>6. NodesFit'
  BY <1>1, <1>4 DEF IInv, NodesFit, reports, DataOK, Requests
<1>7. BufferFits'
  <2>1. \A u \in Threads : u \in Begun => u \in Begun'
    BY <1>1 DEF Begun
  <2>2. Yielding => t # Yielder
    BY <1>2 DEF Yielding, Ended, Begun
  <2>3. Yielding => Yielding'
    BY <1>1, <1>2, <2>1, <2>2 DEF Yielding, Ended
  <2>4. \A u \in Threads : pc'[u] \in {"write", "list", "return"} =>
          pc[u] \in {"write", "list", "return"}
    BY <1>1
  <2> QED BY <2>3, <2>4 DEF IInv, BufferFits
<1> QED BY <1>1, <1>3, <1>5, <1>6, <1>7

\* A thread reads next_msg_id.
LEMMA ReadMsgIdKeeps ==
    ASSUME IInv, NEW t \in Threads, ReadMsgId(t) PROVE IInv'
<1>1. /\ pc[t] = "idle" /\ pc' = [pc EXCEPT ![t] = "id"]
      /\ phase = IF t = Yielder THEN "auth" ELSE "ready"
      /\ tmp' = [tmp EXCEPT ![t] = next_msg_id]
      /\ UNCHANGED <<phase, next_msg_id, message_token, msg_id, token,
                     lock_send_buf, send_buf, message_list, ypc, in, netVars,
                     reports>>
  BY DEF ReadMsgId
<1>2. /\ pc' \in [Threads -> Steps] /\ pc'[t] = "id"
      /\ \A u \in Threads \ {t} : pc'[u] = pc[u]
      /\ Base' = Base /\ Base \in {0, 1}
      /\ NodesOK' /\ NodesFit' /\ BufferFits'
  BY <1>1, EarlyMoveFits
<1>3. /\ tmp' \in [Threads -> Nat] /\ tmp'[t] = next_msg_id
      /\ \A u \in Threads \ {t} : tmp'[u] = tmp[u]
      /\ next_msg_id \in 0..COAP_MSG_MAX_MSG_ID
  BY <1>1 DEF IInv, DataOK
<1>4. Listed' = Listed
  BY <1>1 DEF Listed
<1>5. DataOK'
  BY <1>1, <1>2, <1>3, <1>4 DEF IInv, DataOK, netVars, reports, Requests, Messages
<1>6. FlagsOK'
  BY Zenon DEF IInv, FlagsOK, ReadMsgId
<1>7. ~raced' => ~raced /\ \A u \in Threads : pc[u] # "id"
  BY Zenon DEF ReadMsgId
<1>8. Numbered' = Numbered /\ Stored' = Stored
  BY <1>1, <1>2 DEF Numbered, Stored
<1>9. \A u \in Threads : pc'[u] = "token" <=> pc[u] = "token"
  BY <1>1, <1>2
<1>10. Last' = Last
  BY <1>1, <1>9 DEF Last
<1>11. WireFits'
  BY <1>1, <1>8, WireStays DEF netVars
<1>12. CountFits'
  BY <1>1, <1>2, <1>3, <1>8 DEF IInv, CountFits
<1>13. DrawsFit'
  <2> SUFFICES ASSUME ~raced, \A u \in Threads : pc[u] # "id" PROVE DrawsFit'
    BY <1>7 DEF DrawsFit
  <2>1. \A u \in Threads : pc'[u] = "id" => u = t
    BY <1>2
  <2> QED BY <1>1, <1>3, <1>8, <1>9, <1>10, <2>1 DEF IInv, DrawsFit, Shift
<1>14. OwnAnswer'
  <2>1. Begun' \in SUBSET Threads /\ Begun \in SUBSET Begun'
    BY <1>1, <1>2 DEF Begun
  <2>2. /\ Cardinality(Begun) <= Cardinality(Begun')
        /\ Cardinality(Begun) \in Nat /\ Cardinality(Begun') \in Nat
    BY <2>1, CountThreads
  <2>3. Cardinality(Begun') <= COAP_MSG_MAX_MSG_ID =>
          Cardinality(Begun) <= COAP_MSG_MAX_MSG_ID
    BY <2>2, CoapAssumption
  <2>4. from' = from
    BY <1>1 DEF reports
  <2> QED BY <1>7, <2>3, <2>4 DEF IInv, OwnAnswer, Requests
<1> QED BY <1>2, <1>5, <1>6, <1>11, <1>12, <1>13, <1>14 DEF IInv

\* The id is stored, and the token read: in the order of the ids.
LEMMA StoreMsgIdKeeps ==
    ASSUME IInv, NEW t \in Threads, StoreMsgId(t) PROVE IInv'
<1> DEFINE id == get_next_coap_msg_id(tmp[t])
<1>1. /\ pc[t] = "id" /\ pc' = [pc EXCEPT ![t] = "token"]
      /\ next_msg_id' = id
      /\ msg_id' = [msg_id EXCEPT ![t] = id]
      /\ token' = [token EXCEPT ![t] = message_token]
      /\ tmp' = [tmp EXCEPT ![t] = message_token]
      /\ UNCHANGED <<phase, message_token, lock_send_buf, send_buf, message_list,
                     ypc, in, netVars, reports>>
  BY DEF StoreMsgId
<1>2. /\ pc' \in [Threads -> Steps] /\ pc'[t] = "token"
      /\ \A u \in Threads \ {t} : pc'[u] = pc[u]
      /\ Base' = Base /\ Base \in {0, 1}
      /\ NodesOK' /\ NodesFit' /\ BufferFits'
  BY <1>1, EarlyMoveFits
<1>3. id \in 1..COAP_MSG_MAX_MSG_ID
  BY <1>1, Ring DEF IInv, CountFits
<1> HIDE DEF id
<1>4. /\ tmp' \in [Threads -> Nat] /\ tmp'[t] = message_token
      /\ token' \in [Threads -> Nat] /\ token'[t] = message_token
      /\ msg_id' \in [Threads -> 0..COAP_MSG_MAX_MSG_ID] /\ msg_id'[t] = id
      /\ \A u \in Threads \ {t} : tmp'[u] = tmp[u] /\ token'[u] = token[u]
                                  /\ msg_id'[u] = msg_id[u]
  BY <1>1, <1>3 DEF IInv, DataOK, Requests
<1>5. Listed' = Listed
  BY <1>1 DEF Listed
<1>6. DataOK'
  <2>1. next_msg_id' \in 0..COAP_MSG_MAX_MSG_ID
    BY <1>1, <1>3
  <2> QED BY <1>1, <1>2, <1>4, <1>5, <2>1
          DEF IInv, DataOK, netVars, reports, Requests, Messages
<1>7. FlagsOK'
  BY Zenon DEF IInv, FlagsOK, StoreMsgId
<1>8. ~raced' => ~raced /\ \A u \in Threads : pc[u] # "token"
  BY Zenon DEF StoreMsgId
<1>9. /\ Numbered' = Numbered \cup {t} /\ t \notin Numbered /\ Numbered \subseteq Threads
      /\ Stored' = Stored /\ Begun' = Begun
  BY <1>1, <1>2 DEF Numbered, Stored, Begun
<1>10. WireFits'
  <2>1. \A m : Fits(m) => Fits(m)'
    BY <1>4, <1>9 DEF Fits
  <2> QED BY <1>1, <1>9, <2>1 DEF IInv, WireFits, netVars
<1>11. CountFits'
  BY <1>1, <1>2, <1>4, <1>9 DEF IInv, CountFits
<1>12. DrawsFit'
  <2> SUFFICES ASSUME ~raced, \A u \in Threads : pc[u] # "token" PROVE DrawsFit'
    BY <1>8 DEF DrawsFit
  <2>1. Last = message_token - 1 /\ Last' = message_token /\ message_token \in Nat
    BY <1>1, <1>2 DEF Last, IInv, DataOK
  <2>2. \A u \in Threads : pc'[u] = "token" => u = t
    BY <1>2
  <2>3. \A u \in Threads : pc'[u] # "id"
    BY <1>1, <1>2 DEF IInv, DrawsFit
  <2>4. \A r \in Numbered : /\ token[r] \in Nat /\ token[r] <= Last
                            /\ msg_id[r] \in 1..COAP_MSG_MAX_MSG_ID
                            /\ token'[r] = token[r] /\ msg_id'[r] = msg_id[r]
    BY <1>4, <1>9 DEF IInv, DrawsFit, DataOK, Requests
  <2>5. \A r, s \in Numbered' : token'[r] = token'[s] => r = s
    BY <1>4, <1>9, <2>1, <2>4 DEF IInv, DrawsFit
  <2>6. id = get_next_coap_msg_id(next_msg_id)
    BY <1>1 DEF id, IInv, DrawsFit
  <2>7. ASSUME NEW r \in Numbered, Last' - token'[r] < COAP_MSG_MAX_MSG_ID
        PROVE  next_msg_id' = Shift(msg_id'[r], Last' - token'[r])
    <3> DEFINE a == Last - token[r]
    <3>1. a \in Nat /\ Last' - token'[r] = a + 1 /\ a + 1 < COAP_MSG_MAX_MSG_ID
      BY <2>1, <2>4, <2>7
    <3>2. a < COAP_MSG_MAX_MSG_ID
      BY <3>1, CoapAssumption
    <3>3. next_msg_id = Shift(msg_id[r], a)
      BY <3>2 DEF IInv, DrawsFit
    <3> HIDE DEF a
    <3>4. next_msg_id' = Shift(msg_id[r], a + 1)
      BY <1>1, <2>4, <2>6, <3>1, <3>3, Ring
    <3> QED BY <2>4, <3>1, <3>4
  <2>8. /\ Last' - token'[t] = 0
        /\ next_msg_id' = Shift(msg_id'[t], 0)
    BY <1>1, <1>3, <1>4, <2>1, Ring
  <2>9. \A r \in Numbered' :
           /\ token'[r] <= Last'
           /\ msg_id'[r] \in 1..COAP_MSG_MAX_MSG_ID
           /\ Last' - token'[r] < COAP_MSG_MAX_MSG_ID =>
                next_msg_id' = Shift(msg_id'[r], Last' - token'[r])
    <3>1. ASSUME NEW r \in Numbered
          PROVE  /\ token'[r] <= Last'
                 /\ msg_id'[r] \in 1..COAP_MSG_MAX_MSG_ID
      BY <2>1, <2>4
    <3>2. token'[t] <= Last' /\ msg_id'[t] \in 1..COAP_MSG_MAX_MSG_ID
      BY <1>3, <1>4, <2>1
    <3> QED BY <1>9, <2>7, <2>8, <3>1, <3>2
  <2>10. token'[t] = message_token'
    BY <1>1, <1>4
  <2> QED BY <2>2, <2>3, <2>5, <2>9, <2>10 DEF DrawsFit, Shift
<1>13. OwnAnswer'
  BY <1>1, <1>8, <1>9 DEF IInv, OwnAnswer, reports, Requests
<1> QED BY <1>2, <1>6, <1>7, <1>10, <1>11, <1>12, <1>13 DEF IInv

\* The counter of tokens moves on.
LEMMA StoreTokenKeeps ==
    ASSUME IInv, NEW t \in Threads, StoreToken(t) PROVE IInv'
<1>1. /\ pc[t] = "token" /\ pc' = [pc EXCEPT ![t] = "lock"]
      /\ message_token' = tmp[t] + 1
      /\ tmp' = [tmp EXCEPT ![t] = 0]
      /\ UNCHANGED <<phase, next_msg_id, msg_id, token, raced, lock_send_buf,
                     send_buf, message_list, ypc, in, netVars, reports>>
  BY DEF StoreToken
<1>2. /\ pc' \in [Threads -> Steps] /\ pc'[t] = "lock"
      /\ \A u \in Threads \ {t} : pc'[u] = pc[u]
      /\ Base' = Base /\ Base \in {0, 1}
      /\ NodesOK' /\ NodesFit' /\ BufferFits'
  BY <1>1, EarlyMoveFits
<1>3. /\ tmp' \in [Threads -> Nat] /\ tmp[t] = token[t] /\ token[t] \in Nat
      /\ \A u \in Threads \ {t} : tmp'[u] = tmp[u]
  BY <1>1 DEF IInv, DataOK, CountFits, Requests
<1>4. Listed' = Listed
  BY <1>1 DEF Listed
<1>5. DataOK'
  BY <1>1, <1>2, <1>3, <1>4 DEF IInv, DataOK, netVars, reports, Requests, Messages
<1>6. FlagsOK'
  BY <1>1 DEF IInv, FlagsOK
<1>7. /\ Numbered' = Numbered /\ t \in Numbered /\ Begun' = Begun
      /\ Stored' = Stored \cup {t} /\ t \notin Stored /\ Stored \in SUBSET Threads
  BY <1>1, <1>2 DEF Numbered, Stored, Begun
<1>8. WireFits'
  BY <1>1, <1>7, WireStays DEF netVars
<1>9. CountFits'
  <2>1. IsFiniteSet(Stored) /\ Cardinality(Stored) \in Nat
    BY <1>7, CountThreads
  <2>2. Cardinality(Stored') = Cardinality(Stored) + 1
    BY <1>7, <2>1, FS_AddElement
  <2>3. \A u \in Numbered : token[u] \in Base..(Base + Cardinality(Stored))
    BY DEF IInv, CountFits
  <2>4. message_token' \in Base'..(Base' + Cardinality(Stored'))
    BY <1>1, <1>2, <1>3, <1>7, <2>1, <2>2, <2>3
  <2>5. \A u \in Numbered' : token'[u] \in Base'..(Base' + Cardinality(Stored'))
    BY <1>1, <1>2, <1>7, <2>1, <2>2, <2>3
  <2>6. /\ \A u \in Threads : pc'[u] = "token" => tmp'[u] = token'[u]
        /\ \A u \in Threads : pc'[u] = "id" => tmp'[u] \in 0..COAP_MSG_MAX_MSG_ID
    BY <1>1, <1>2, <1>3 DEF IInv, CountFits
  <2> QED BY <2>4, <2>5, <2>6 DEF CountFits
<1>10. DrawsFit'
  <2> SUFFICES ASSUME ~raced PROVE DrawsFit'
    BY <1>1 DEF DrawsFit
  <2>1. \A u \in Threads : pc'[u] # "token"
    BY <1>1, <1>2 DEF IInv, DrawsFit
  <2>2. \A u \in Threads : pc'[u] = "id" => pc[u] = "id" /\ tmp'[u] = tmp[u]
    BY <1>1, <1>2, <1>3
  <2>3. token[t] = message_token
    BY <1>1 DEF IInv, DrawsFit
  <2>4. Last = message_token
    BY <1>1 DEF Last
  <2>5. Last' = message_token' - 1
    BY <2>1 DEF Last
  <2>6. Last' = Last
    BY <1>1, <1>3, <2>3, <2>4, <2>5
  <2> QED BY <1>1, <1>7, <2>1, <2>2, <2>6 DEF IInv, DrawsFit, Shift
<1>11. OwnAnswer'
  BY <1>1, <1>7 DEF IInv, OwnAnswer, reports, Requests
<1> QED BY <1>2, <1>5, <1>6, <1>8, <1>9, <1>10, <1>11 DEF IInv

----------------------------------------------------------------------------
(* Matching a message with the requests on the list.                       *)

\* The tokens drawn so far are no more than the requests that drew them.
LEMMA LastBound ==
    ASSUME IInv
    PROVE  /\ Last + 1 <= Base + Cardinality(Numbered)
           /\ Last \in Int /\ Base \in {0, 1} /\ Cardinality(Numbered) \in Nat
<1>1. Stored \in SUBSET Numbered /\ Numbered \in SUBSET Threads
  BY DEF Stored, Numbered
<1>2. /\ Cardinality(Stored) \in Nat /\ Cardinality(Numbered) \in Nat
      /\ Cardinality(Stored) <= Cardinality(Numbered) /\ IsFiniteSet(Stored)
  BY <1>1, CountThreads
<1>3. /\ message_token \in Nat /\ Base \in {0, 1}
      /\ message_token <= Base + Cardinality(Stored)
  BY <1>2 DEF IInv, CountFits, Base, DataOK
<1>4. Last \in Int
  BY <1>3 DEF Last
<1>5. CASE \E t \in Threads : pc[t] = "token"
  <2>1. PICK t \in Threads : pc[t] = "token"
    BY <1>5
  <2>2. Stored \cup {t} \in SUBSET Numbered /\ t \notin Stored
    BY <1>1, <2>1 DEF Stored, Numbered
  <2>3. Cardinality(Stored \cup {t}) = Cardinality(Stored) + 1
    BY <1>2, <2>2, FS_AddElement
  <2>4. Cardinality(Stored \cup {t}) <= Cardinality(Numbered)
    BY <1>1, <2>2, CountThreads
  <2>5. Last = message_token
    BY <1>5 DEF Last
  <2> QED BY <1>2, <1>3, <2>3, <2>4, <2>5
<1>6. CASE ~ \E t \in Threads : pc[t] = "token"
  <2>1. Last = message_token - 1
    BY <1>6 DEF Last
  <2> QED BY <1>2, <1>3, <2>1
<1> QED BY <1>2, <1>3, <1>4, <1>5, <1>6

\* As long as no threads raced and the ids have not come round, a request with
\* the id or the token of a message is the one the message answers.
LEMMA MatchesOwn ==
    ASSUME IInv, ~raced, Cardinality(Begun) <= COAP_MSG_MAX_MSG_ID,
           NEW r \in Listed, NEW m, Fits(m), msg_id[r] = m.id \/ token[r] = m.token
    PROVE  r = m.of
<1> DEFINE s == m.of
<1>1. r \in Numbered /\ s \in Numbered
  BY DEF IInv, NodesFit, DataOK, Numbered, Fits, Requests
<1>2. msg_id[r] = msg_id[s] \/ token[r] = token[s]
  BY DEF Fits
<1> HIDE DEF s
<1>3. Numbered \in SUBSET Begun /\ Begun \in SUBSET Threads
  BY DEF Numbered, Begun
<1>4. /\ Cardinality(Numbered) <= Cardinality(Begun)
      /\ Cardinality(Numbered) \in Nat /\ Cardinality(Begun) \in Nat
  BY <1>3, CountThreads
<1>5. \A q \in Numbered :
        /\ token[q] \in Nat /\ token[q] >= Base /\ token[q] <= Last
        /\ msg_id[q] \in 1..COAP_MSG_MAX_MSG_ID
        /\ Last - token[q] < COAP_MSG_MAX_MSG_ID =>
             next_msg_id = Shift(msg_id[q], Last - token[q])
  <2>1. \A q \in Numbered : token[q] \in Nat
    BY <1>3 DEF IInv, DataOK, Requests, Begun
  <2>2. \A q \in Numbered : token[q] >= Base
    BY <2>1, LastBound DEF IInv, CountFits
  <2> QED BY <2>1, <2>2 DEF IInv, DrawsFit
<1>6. \A q \in Numbered : /\ Last - token[q] \in Nat
                          /\ Last - token[q] < COAP_MSG_MAX_MSG_ID
  BY <1>4, <1>5, LastBound, CoapAssumption
<1>7. ASSUME msg_id[r] = msg_id[s] PROVE token[r] = token[s]
  <2> DEFINE a == Last - token[r]
             b == Last - token[s]
  <2>1. /\ a \in Nat /\ b \in Nat
        /\ a < COAP_MSG_MAX_MSG_ID /\ b < COAP_MSG_MAX_MSG_ID
    BY <1>1, <1>6
  <2>2. /\ msg_id[r] \in 1..COAP_MSG_MAX_MSG_ID
        /\ Shift(msg_id[r], a) = Shift(msg_id[r], b)
    BY <1>1, <1>5, <1>6, <1>7
  <2>3. (a = b) => (token[r] = token[s])
    BY <1>1, <1>5, LastBound
  <2> HIDE DEF a, b
  <2>4. ~(a < b) /\ ~(b < a)
    BY <2>1, <2>2, Ring
  <2> QED BY <2>1, <2>3, <2>4
<1>8. token[r] = token[s]
  BY <1>2, <1>7
<1> QED BY <1>1, <1>8 DEF IInv, DrawsFit, s

----------------------------------------------------------------------------
(* Yielding.                                                               *)

\* A step that leaves calls and counters alone.
LEMMA QuietFits ==
    ASSUME IInv, UNCHANGED <<phase, idVars, callVars>>
    PROVE  /\ Numbered' = Numbered /\ Begun' = Begun /\ Yielding' = Yielding
           /\ CountFits' /\ DrawsFit' /\ FlagsOK'
           /\ \A m : Fits(m)' <=> Fits(m)
<1>1. Base' = Base
  BY BaseStays DEF callVars
<1>2. Numbered' = Numbered /\ Begun' = Begun /\ CountFits' /\ DrawsFit' /\ FlagsOK'
  BY <1>1, DrawsStay DEF callVars
<1>3. \A m : Fits(m)' <=> Fits(m)
  BY <1>2 DEF Fits, idVars
<1>4. Yielding' = Yielding
  BY <1>2 DEF Yielding, Ended, callVars
<1> QED BY <1>2, <1>3, <1>4

\* The node of an answered request.
LEMMA InfoAnswered ==
    ASSUME NEW info \in SendInfo, NEW b \in BOOLEAN
    PROVE  /\ [info EXCEPT !.acked = @ \/ b, !.invalid = TRUE] \in SendInfo
           /\ [info EXCEPT !.acked = @ \/ b, !.invalid = TRUE].invalid
           /\ [info EXCEPT !.acked = @ \/ b, !.invalid = TRUE].copy = info.copy
BY DEF SendInfo

\* The node of an acknowledged request.
LEMMA InfoAcked ==
    ASSUME NEW info \in SendInfo
    PROVE  /\ [info EXCEPT !.acked = TRUE, !.expired = FALSE] \in SendInfo
           /\ [info EXCEPT !.acked = TRUE, !.expired = FALSE].invalid = info.invalid
           /\ [info EXCEPT !.acked = TRUE, !.expired = FALSE].copy = info.copy
BY DEF SendInfo

\* The node of a request whose timer runs out.
LEMMA InfoExpired ==
    ASSUME NEW info \in SendInfo
    PROVE  /\ [info EXCEPT !.expired = TRUE] \in SendInfo
           /\ [info EXCEPT !.expired = TRUE].invalid = info.invalid
           /\ [info EXCEPT !.expired = TRUE].copy = info.copy
BY DEF SendInfo

\* The node of a request that is written again.
LEMMA InfoAgain ==
    ASSUME NEW info \in SendInfo, Retransmit(info)
    PROVE  /\ [info EXCEPT !.retrans_count = @ + 1, !.expired = FALSE] \in SendInfo
           /\ [info EXCEPT !.retrans_count = @ + 1, !.expired = FALSE].invalid
                = info.invalid
           /\ [info EXCEPT !.retrans_count = @ + 1, !.expired = FALSE].copy = info.copy
<1>1. info.retrans_count \in 0..max_retry_count /\ max_retry_count \in Nat
  BY CoapAssumption DEF SendInfo
<1>2. info.retrans_count + 1 \in 0..max_retry_count
  BY <1>1 DEF Retransmit
<1> QED BY <1>2, Zenon DEF SendInfo

\* Telling requests that have not been reported changes those only.
LEMMA ToldOnce ==
    ASSUME IInv, NEW R, R \subseteq Listed, \A r \in R : ~message_list[r].invalid,
           NEW what \in {"answer", "timeout"}
    PROVE  /\ Told(R, what) \in [Requests -> {"none", "answer", "timeout"}]
           /\ \A r \in R : Told(R, what)[r] = what
           /\ \A r \in Requests \ R : Told(R, what)[r] = report[r]
<1>1. \A r \in R : report[r] = "none" /\ r \in Requests
  BY DEF IInv, NodesFit, DataOK
<1>2. report \in [Requests -> {"none", "answer", "timeout"}]
  BY DEF IInv, DataOK
<1> QED BY <1>1, <1>2 DEF Told

\* Message m answers R, by its id or by its token.
LEMMA AnsweredFits ==
    ASSUME IInv, UNCHANGED <<phase, idVars, callVars>>, ypc # "sweep", ypc' = "sweep",
           NEW m \in Messages, Fits(m),
           NEW R, R \subseteq Listed, Answered(R, m),
           \A r \in R : msg_id[r] = m.id \/ token[r] = m.token
    PROVE  /\ Listed' = Listed /\ NodesOK' /\ NodesFit' /\ OwnAnswer'
           /\ report' \in [Requests -> {"none", "answer", "timeout"}]
           /\ from' \in [Requests -> Requests \cup {NoThread}]
           /\ is_authed' \in {-1, 0, 1}
<1> DEFINE new(info) == [info EXCEPT !.acked = @ \/ m.kind = "PIGGY", !.invalid = TRUE]
<1>1. /\ Listed' = Listed
      /\ message_list' = [r \in Listed |-> IF r \in R THEN new(message_list[r])
                                           ELSE message_list[r]]
  <2>1. message_list' = [r \in Listed |-> IF r \in R THEN new(message_list[r])
                                           ELSE message_list[r]]
    BY Zenon DEF Answered, Modified
  <2> QED BY <2>1 DEF Listed
<1>2. \A r \in Listed : message_list[r] \in SendInfo
  BY DEF IInv, NodesOK
<1>3. \A r \in Listed : /\ new(message_list[r]) \in SendInfo
                        /\ new(message_list[r]).invalid
                        /\ new(message_list[r]).copy = message_list[r].copy
  BY <1>2, InfoAnswered
<1> HIDE DEF new
<1>4. NodesOK'
  BY <1>1, <1>2, <1>3 DEF NodesOK
<1>5. \A r \in R : ~message_list[r].invalid
  BY DEF IInv, NodesFit
<1>6. /\ report' \in [Requests -> {"none", "answer", "timeout"}]
      /\ \A r \in R : report'[r] = "answer"
      /\ \A r \in Requests \ R : report'[r] = report[r]
  BY <1>5, ToldOnce DEF Answered
<1>7. m.of \in Requests
  BY DEF Messages
<1>8. /\ from' \in [Requests -> Requests \cup {NoThread}]
      /\ \A r \in Requests : from'[r] = IF r \in R THEN m.of ELSE from[r]
  BY <1>7 DEF Answered, IInv, DataOK
<1>9. is_authed' \in {-1, 0, 1}
  BY DEF Answered, IInv, DataOK
<1>10. NodesFit'
  <2>1. Listed \subseteq Requests /\ Requests = Threads /\ pc' = pc
    BY DEF IInv, DataOK, Requests, callVars
  <2>2. ASSUME NEW r \in Listed
        PROVE  /\ pc'[r] \in {"return", "ok"}
               /\ message_list'[r].copy = r
               /\ message_list'[r].invalid <=> report'[r] # "none"
               /\ message_list'[r].invalid => ypc' = "sweep"
    <3>1. CASE r \in R
      <4>1. message_list'[r] = new(message_list[r])
        BY <1>1, <3>1
      <4> QED BY <1>3, <1>6, <2>1, <3>1, <4>1 DEF IInv, NodesFit
    <3>2. CASE r \notin R
      <4>1. message_list'[r] = message_list[r]
        BY <1>1, <3>2
      <4> QED BY <1>6, <2>1, <3>2, <4>1 DEF IInv, NodesFit
    <3> QED BY <3>1, <3>2
  <2>3. \A t \in Threads : pc'[t] \notin {"return", "ok"} => report'[t] = "none"
    BY <1>6, <2>1 DEF IInv, NodesFit
  <2> QED BY <1>1, <2>2, <2>3 DEF NodesFit
<1>11. OwnAnswer'
  <2>1. UNCHANGED <<raced, Begun>>
    BY QuietFits DEF idVars
  <2> SUFFICES ASSUME ~raced, Cardinality(Begun) <= COAP_MSG_MAX_MSG_ID,
                      NEW r \in Requests
               PROVE  from'[r] \in {NoThread, r}
    BY <2>1 DEF OwnAnswer, Requests
  <2>2. CASE r \in R
    BY <1>8, <2>2, MatchesOwn
  <2>3. CASE r \notin R
    BY <1>8, <2>3 DEF IInv, OwnAnswer
  <2> QED BY <2>2, <2>3
<1> QED BY <1>1, <1>4, <1>6, <1>8, <1>9, <1>10, <1>11

\* A message is handled.
LEMMA HandleKeeps ==
    ASSUME IInv, NEW m \in answers, _coap_message_handle(m) PROVE IInv'
<1>1. /\ Yielding /\ ypc = "read" /\ answers' = answers \ {m}
      /\ UNCHANGED <<phase, idVars, callVars, server>>
  BY DEF _coap_message_handle
<1>2. /\ Numbered' = Numbered /\ Begun' = Begun /\ Yielding' = Yielding
      /\ CountFits' /\ DrawsFit' /\ FlagsOK'
      /\ \A n : Fits(n)' <=> Fits(n)
  BY <1>1, QuietFits
<1>3. m \in Messages /\ Fits(m)
  BY DEF IInv, DataOK, WireFits
<1>4. in' \in {in, m} /\ ypc' \in {"ack", "response", "sweep"}
  BY DEF _coap_message_handle, _coap_ack_message_handle, ResponseArrives,
     _coap_piggyresp_message_handle, NotRecognized
<1>5. \/ ypc' = "sweep" /\ in' = in
      \/ in' = m /\ ypc' \in {"ack", "response"}
  BY DEF _coap_message_handle, _coap_ack_message_handle, ResponseArrives,
     _coap_piggyresp_message_handle, NotRecognized
<1>6. WireFits'
  <2>1. m # NoDatagram
    <3>1. m.kind \in Kinds
      BY <1>3 DEF Messages
    <3>2. NoDatagram.kind = "NONE"
      BY DEF NoDatagram
    <3> QED BY <3>1, <3>2 DEF Kinds
  <2> QED BY <1>1, <1>2, <1>3, <1>5, <2>1 DEF IInv, WireFits
<1>7. BufferFits'
  BY <1>1, <1>2, <1>4 DEF IInv, BufferFits, callVars
<1>8. /\ Listed' = Listed /\ NodesOK' /\ NodesFit' /\ OwnAnswer'
      /\ report' \in [Requests -> {"none", "answer", "timeout"}]
      /\ from' \in [Requests -> Requests \cup {NoThread}]
      /\ is_authed' \in {-1, 0, 1}
  <2>1. CASE _coap_piggyresp_message_handle(m)
    <3> DEFINE R == {r \in Listed : msg_id[r] = m.id}
    <3>1. Answered(R, m) /\ ypc' = "sweep"
      BY <2>1 DEF _coap_piggyresp_message_handle
    <3>2. R \subseteq Listed /\ \A r \in R : msg_id[r] = m.id
      OBVIOUS
    <3> HIDE DEF R
    <3> QED BY <1>1, <1>3, <3>1, <3>2, AnsweredFits
  <2>2. CASE _coap_ack_message_handle(m)
    <3> DEFINE R == {r \in Listed : msg_id[r] = m.id}
               new(info) == [info EXCEPT !.acked = TRUE, !.expired = FALSE]
    <3>1. /\ Listed' = Listed /\ UNCHANGED reports
          /\ message_list' = [r \in Listed |-> IF r \in R THEN new(message_list[r])
                                               ELSE message_list[r]]
      <4>1. message_list' = [r \in Listed |-> IF r \in R THEN new(message_list[r])
                                               ELSE message_list[r]]
        BY <2>2, Zenon DEF _coap_ack_message_handle, Modified
      <4> HIDE DEF R, new
      <4> QED BY <2>2, <4>1 DEF Listed, _coap_ack_message_handle
    <3>2. \A r \in Listed : message_list[r] \in SendInfo
      BY DEF IInv, NodesOK
    <3>3. \A r \in Listed : /\ new(message_list[r]) \in SendInfo
                            /\ new(message_list[r]).invalid = message_list[r].invalid
                            /\ new(message_list[r]).copy = message_list[r].copy
      BY <3>2, InfoAcked
    <3> HIDE DEF R, new
    <3>4. NodesOK'
      BY <3>1, <3>2, <3>3 DEF NodesOK
    <3>5. \A r \in Listed : /\ message_list'[r].invalid = message_list[r].invalid
                            /\ message_list'[r].copy = message_list[r].copy
      BY <3>1, <3>3
    <3>6. NodesFit'
      BY <1>1, <3>1, <3>5 DEF IInv, NodesFit, reports, callVars
    <3>7. OwnAnswer'
      BY <1>1, <1>2, <3>1 DEF IInv, OwnAnswer, reports, idVars, Requests
    <3> QED BY <3>1, <3>4, <3>6, <3>7 DEF IInv, DataOK, reports, Requests
  <2>3. CASE ResponseArrives(m) \/ NotRecognized(m)
    <3>1. UNCHANGED <<message_list, reports>> /\ Listed' = Listed
      BY <2>3 DEF ResponseArrives, NotRecognized, Listed
    <3>2. NodesOK'
      BY <3>1 DEF IInv, NodesOK
    <3>3. NodesFit'
      BY <1>1, <3>1 DEF IInv, NodesFit, reports, callVars
    <3>4. OwnAnswer'
      BY <1>1, <1>2, <3>1 DEF IInv, OwnAnswer, reports, idVars, Requests
    <3> QED BY <3>1, <3>2, <3>3, <3>4 DEF IInv, DataOK, reports, Requests
  <2> QED BY <2>1, <2>2, <2>3 DEF _coap_message_handle
<1>9. DataOK'
  <2>1. in' \in Messages \cup {NoDatagram} /\ answers' \subseteq Messages
    BY <1>1, <1>3, <1>4 DEF IInv, DataOK
  <2> QED BY <1>1, <1>4, <1>8, <2>1 DEF IInv, DataOK, idVars, callVars, Requests, Messages
<1> QED BY <1>2, <1>6, <1>7, <1>8, <1>9 DEF IInv

\* The ACK goes through send_buf under the mutex.
LEMMA AckKeeps ==
    ASSUME IInv, AckSerialize \/ AckWritten PROVE IInv'
<1>1. /\ UNCHANGED <<phase, idVars, pc, tmp, message_list, in, netVars, reports>>
      /\ ypc \in {"ack", "acksent"} /\ ypc' \in {"acksent", "response"}
      /\ Listed' = Listed
  BY DEF AckSerialize, AckWritten, Listed
<1>2. /\ lock_send_buf' \in {Yielder, NoThread} /\ send_buf' \in {send_buf, ACK}
      /\ ypc' = "acksent" => lock_send_buf' = Yielder
  BY DEF AckSerialize, AckWritten
<1>3. Base' = Base
  BY <1>1, BaseStays
<1>4. /\ Numbered' = Numbered /\ Begun' = Begun /\ CountFits' /\ DrawsFit' /\ FlagsOK'
  BY <1>1, <1>3, DrawsStay
<1>5. DataOK'
  BY <1>1, <1>2 DEF IInv, DataOK, idVars, netVars, reports, Requests, Threads, Messages
<1>6. NodesOK'
  BY <1>1 DEF IInv, NodesOK
<1>7. NodesFit'
  BY <1>1 DEF IInv, NodesFit, reports
<1>8. WireFits'
  BY <1>1, <1>4, WireStays DEF netVars, idVars
<1>9. \A t \in Threads : pc[t] \notin {"write", "list", "return"}
  <2>1. Yielding /\ (lock_send_buf = NoThread \/ lock_send_buf = Yielder)
    BY DEF AckSerialize, AckWritten, IInv, BufferFits
  <2>2. pc[Yielder] \notin {"write", "list", "return"}
    BY <2>1 DEF Yielding, Ended
  <2> QED BY <2>1, <2>2, CoapAssumption DEF IInv, BufferFits, Threads
<1>10. BufferFits'
  <2>1. Yielding' = Yielding
    BY <1>1, <1>4 DEF Yielding, Ended
  <2> QED BY <1>1, <1>2, <1>9, <2>1 DEF IInv, BufferFits
<1>11. OwnAnswer'
  BY <1>1, <1>4 DEF IInv, OwnAnswer, reports, idVars, Requests
<1> QED BY <1>4, <1>5, <1>6, <1>7, <1>8, <1>10, <1>11 DEF IInv

\* A separate response answers the requests with its token.
LEMMA ResponseKeeps ==
    ASSUME IInv, _coap_resp_message_handle PROVE IInv'
<1> DEFINE R == {r \in Listed : SameToken(r)}
<1>1. /\ ypc = "response" /\ Answered(R, in) /\ in' = NoDatagram /\ ypc' = "sweep"
      /\ UNCHANGED <<phase, idVars, callVars, netVars>>
  BY DEF _coap_resp_message_handle
<1>2. R \subseteq Listed /\ \A r \in R : token[r] = in.token
  BY DEF SameToken
<1> HIDE DEF R
<1>3. in \in Messages /\ Fits(in)
  BY <1>1 DEF IInv, WireFits, DataOK
<1>4. /\ Listed' = Listed /\ NodesOK' /\ NodesFit' /\ OwnAnswer'
      /\ report' \in [Requests -> {"none", "answer", "timeout"}]
      /\ from' \in [Requests -> Requests \cup {NoThread}]
      /\ is_authed' \in {-1, 0, 1}
  BY <1>1, <1>2, <1>3, AnsweredFits
<1>5. /\ Numbered' = Numbered /\ Begun' = Begun /\ Yielding' = Yielding
      /\ CountFits' /\ DrawsFit' /\ FlagsOK'
  BY <1>1, QuietFits
<1>6. DataOK'
  BY <1>1, <1>4 DEF IInv, DataOK, idVars, callVars, netVars, Requests, Messages
<1>7. WireFits'
  BY <1>1, <1>5, WireStays DEF idVars, netVars
<1>8. BufferFits'
  BY <1>1, <1>5 DEF IInv, BufferFits, callVars
<1> QED BY <1>4, <1>5, <1>6, <1>7, <1>8 DEF IInv

\* The sweep removes the answered requests, writes again or gives up those
\* whose timers have run out.
LEMMA SweepKeeps ==
    ASSUME IInv, Sweep PROVE IInv'
<1> DEFINE due   == {r \in Listed : /\ ~message_list[r].invalid
                                    /\ message_list[r].expired}
           again == {r \in due : Retransmit(message_list[r])}
           ended == due \ again
           keep  == {r \in Listed : ~message_list[r].invalid} \ ended
           new(info) == [info EXCEPT !.retrans_count = @ + 1, !.expired = FALSE]
           after == [r \in Listed |-> IF r \in again THEN new(message_list[r])
                                      ELSE message_list[r]]
<1>1. /\ Yielding /\ ypc \in {"read", "sweep"} /\ ypc' = "read"
      /\ UNCHANGED <<phase, idVars, callVars, in, answers, from>>
      /\ report' = Told(ended, "timeout")
      /\ is_authed' \in {0, is_authed}
  BY DEF Sweep
<1>2. message_list' = [r \in keep |-> after[r]]
  BY Zenon DEF Sweep, Modified
<1>3. \E written \in SUBSET again :
         server' = Transmitted({message_list[r].copy : r \in written})
  BY Zenon DEF Sweep
<1>4. /\ again \subseteq Listed /\ ended \subseteq Listed /\ keep \subseteq Listed
      /\ ended \cap keep = {}
  OBVIOUS
<1>5. /\ \A r \in keep : ~message_list[r].invalid
      /\ \A r \in ended : ~message_list[r].invalid
      /\ \A r \in again : Retransmit(message_list[r])
  OBVIOUS
<1>6. \A r \in Listed : message_list[r] \in SendInfo /\ message_list[r].copy = r
  BY DEF IInv, NodesOK, NodesFit
<1>7. \A r \in again : /\ new(message_list[r]) \in SendInfo
                       /\ new(message_list[r]).invalid = message_list[r].invalid
                       /\ new(message_list[r]).copy = message_list[r].copy
  BY <1>4, <1>5, <1>6, InfoAgain
<1> HIDE DEF due, again, ended, keep, new
<1>8. \A r \in keep : /\ after[r] \in SendInfo
                      /\ after[r].copy = r
                      /\ after[r].invalid = message_list[r].invalid
  BY <1>4, <1>6, <1>7
<1> HIDE DEF after
<1>9. Listed' = keep
  BY <1>2 DEF Listed
<1>10. NodesOK'
  BY <1>2, <1>8, <1>9 DEF NodesOK
<1>11. /\ report' \in [Requests -> {"none", "answer", "timeout"}]
       /\ \A r \in Requests \ ended : report'[r] = report[r]
  BY <1>1, <1>4, <1>5, ToldOnce
<1>12. /\ server' \in [Requests -> {"nothing", "copy", "due"}]
       /\ \A r \in Requests : server'[r] = server[r] \/ r \in Listed
  BY <1>3, <1>4, <1>6 DEF Transmitted, IInv, DataOK
<1>13. /\ Numbered' = Numbered /\ Begun' = Begun /\ Yielding' = Yielding
       /\ CountFits' /\ DrawsFit' /\ FlagsOK'
  BY <1>1, QuietFits
<1>14. Listed \subseteq Numbered /\ Listed \subseteq Requests /\ Requests = Threads
  BY DEF IInv, NodesFit, DataOK, Numbered, Requests
<1>15. DataOK'
  BY <1>1, <1>4, <1>9, <1>11, <1>12, <1>14
     DEF IInv, DataOK, idVars, callVars, Requests, Messages
<1>16. NodesFit'
  <2>1. \A r \in keep : /\ pc[r] \in {"return", "ok"} /\ report[r] = "none"
    BY <1>4, <1>5 DEF IInv, NodesFit
  <2>2. \A r \in keep : message_list'[r] = after[r] /\ report'[r] = "none"
    BY <1>2, <1>4, <1>11, <1>14, <2>1
  <2>3. \A r \in keep : /\ message_list'[r].copy = r
                        /\ message_list'[r].invalid = message_list[r].invalid
    BY <1>8, <2>2
  <2>4. \A r \in keep : ~message_list'[r].invalid
    BY <1>5, <2>3
  <2>5. \A t \in Threads : pc[t] \notin {"return", "ok"} => report'[t] = "none"
    BY <1>4, <1>11, <1>14 DEF IInv, NodesFit
  <2> QED BY <1>1, <1>9, <2>1, <2>2, <2>3, <2>4, <2>5 DEF NodesFit, callVars
<1>17. WireFits'
  BY <1>1, <1>12, <1>13, <1>14, WireStays DEF idVars
<1>18. BufferFits'
  BY <1>1, <1>13 DEF IInv, BufferFits, callVars
<1>19. OwnAnswer'
  BY <1>1, <1>13 DEF IInv, OwnAnswer, idVars, Requests
<1> QED BY <1>10, <1>13, <1>15, <1>16, <1>17, <1>18, <1>19 DEF IInv

\* The client becomes ready, or is destroyed.
LEMMA EndKeeps ==
    ASSUME IInv, ConstructReturns \/ IOT_COAP_Destroy PROVE IInv'
<1>1. /\ UNCHANGED <<idVars, callVars, ypc, in, report, from>> /\ ypc = "read"
      /\ phase' \in {"ready", "destroyed"} /\ is_authed' \in {-1, 1}
      /\ phase = "auth" => Yielder \in Begun
      /\ phase # "auth" \/ phase' # "auth"
  BY DEF ConstructReturns, IOT_COAP_Destroy, Yielding
<1>2. message_list' \in {message_list, << >>}
  BY DEF ConstructReturns, IOT_COAP_Destroy
<1>3. /\ server' \in {server, [r \in Requests |-> "nothing"]}
      /\ answers' \in {answers, {}}
  BY DEF ConstructReturns, IOT_COAP_Destroy, ClosesIf
<1>4. Listed' \subseteq Listed /\ \A r \in Listed' : message_list'[r] = message_list[r]
  BY <1>2 DEF Listed
<1>5. NodesOK'
  <2>1. CASE message_list' = message_list
    BY <2>1 DEF IInv, NodesOK, Listed
  <2>2. CASE message_list' = << >>
    <3>1. Listed' = {}
      BY <2>2 DEF Listed
    <3> QED BY <2>2, <3>1 DEF NodesOK
  <2> QED BY <1>2, <2>1, <2>2
<1>6. Base' = Base
  BY <1>1 DEF Base, Begun, callVars
<1>7. /\ Numbered' = Numbered /\ Begun' = Begun /\ CountFits' /\ DrawsFit' /\ FlagsOK'
  BY <1>1, <1>6, DrawsStay DEF callVars
<1>8. DataOK'
  BY <1>1, <1>3, <1>4 DEF IInv, DataOK, idVars, callVars, Requests, Messages
<1>9. NodesFit'
  BY <1>1, <1>4 DEF IInv, NodesFit, callVars
<1>10. WireFits'
  <2>1. \A r \in Requests : server'[r] \in {server[r], "nothing"}
    BY <1>3
  <2>2. answers' \subseteq answers
    BY <1>3
  <2> QED BY <1>1, <1>7, <2>1, <2>2, WireStays DEF idVars
<1>11. BufferFits'
  BY <1>1 DEF IInv, BufferFits, callVars
<1>12. OwnAnswer'
  BY <1>1, <1>7 DEF IInv, OwnAnswer, idVars, Requests
<1> QED BY <1>5, <1>7, <1>8, <1>9, <1>10, <1>11, <1>12 DEF IInv

\* The server answers what it has received, with its id and its token.
LEMMA ServerKeeps ==
    ASSUME IInv, NEW r \in Requests, NEW kind \in Kinds, ServerAnswers(r, kind)
    PROVE  IInv'
<1> DEFINE m == Answer(kind, r)
<1>1. /\ UNCHANGED <<phase, idVars, callVars, message_list, ypc, in, reports>>
      /\ answers' = answers \cup {m} /\ server[r] # "nothing"
      /\ \E s \in {"nothing", "due"} : server' = [server EXCEPT ![r] = s]
      /\ Listed' = Listed
  BY DEF ServerAnswers, Listed
<1>2. r \in Numbered /\ r \in Threads
  BY <1>1 DEF IInv, WireFits, Requests
<1>3. m \in Messages /\ Fits(m)
  BY <1>2 DEF Answer, Messages, Fits, IInv, DataOK, Requests
<1> HIDE DEF m
<1>4. /\ server' \in [Requests -> {"nothing", "copy", "due"}]
      /\ \A q \in Requests : server'[q] = server[q] \/ q = r
  BY <1>1 DEF IInv, DataOK
<1>5. /\ Numbered' = Numbered /\ Begun' = Begun /\ Yielding' = Yielding
      /\ CountFits' /\ DrawsFit' /\ FlagsOK'
      /\ \A n : Fits(n)' <=> Fits(n)
  BY <1>1, QuietFits
<1>6. DataOK'
  BY <1>1, <1>3, <1>4 DEF IInv, DataOK, idVars, callVars, reports, Requests, Messages
<1>7. NodesOK'
  BY <1>1 DEF IInv, NodesOK
<1>8. NodesFit' /\ OwnAnswer'
  BY <1>1, <1>5 DEF IInv, NodesFit, OwnAnswer, idVars, callVars, reports, Requests
<1>9. WireFits'
  BY <1>1, <1>2, <1>3, <1>4, <1>5 DEF IInv, WireFits
<1>10. BufferFits'
  BY <1>1, <1>5 DEF IInv, BufferFits, callVars
<1> QED BY <1>5, <1>6, <1>7, <1>8, <1>9, <1>10 DEF IInv

\* A timer runs out.
LEMMA TimerKeeps ==
    ASSUME IInv, NEW r \in Requests, TimerExpires(r) PROVE IInv'
<1> DEFINE new == [message_list[r] EXCEPT !.expired = TRUE]
<1>1. /\ UNCHANGED <<phase, idVars, callVars, ypc, in, netVars, reports>>
      /\ r \in Listed
  BY DEF TimerExpires
<1>2. message_list' = [message_list EXCEPT ![r] = new]
  BY Zenon DEF TimerExpires
<1>3. message_list \in [Listed -> SendInfo]
  BY DEF IInv, NodesOK
<1>4. new \in SendInfo /\ new.invalid = message_list[r].invalid
      /\ new.copy = message_list[r].copy
  BY <1>1, <1>3, InfoExpired
<1> HIDE DEF new
<1>5. Listed' = Listed
  BY <1>2 DEF Listed
<1>6. NodesOK'
  BY <1>2, <1>3, <1>4, <1>5 DEF NodesOK
<1>7. \A s \in Listed : /\ message_list'[s].invalid = message_list[s].invalid
                        /\ message_list'[s].copy = message_list[s].copy
  BY <1>2, <1>3, <1>4
<1>8. /\ Numbered' = Numbered /\ Begun' = Begun /\ Yielding' = Yielding
      /\ CountFits' /\ DrawsFit' /\ FlagsOK'
  BY <1>1, QuietFits
<1>9. DataOK'
  BY <1>1, <1>5 DEF IInv, DataOK, idVars, callVars, netVars, reports, Requests, Messages
<1>10. NodesFit'
  BY <1>1, <1>5, <1>7 DEF IInv, NodesFit, callVars, reports
<1>11. WireFits'
  BY <1>1, <1>8, WireStays DEF idVars, netVars
<1>12. BufferFits' /\ OwnAnswer'
  BY <1>1, <1>8 DEF IInv, BufferFits, OwnAnswer, callVars, reports, idVars, Requests
<1> QED BY <1>6, <1>8, <1>9, <1>10, <1>11, <1>12 DEF IInv

\* A datagram is lost, or nothing happens.
LEMMA LossKeeps ==
    ASSUME IInv, answers' \subseteq answers,
           UNCHANGED <<phase, idVars, callVars, message_list, ypc, in, server, reports>>
    PROVE  IInv'
<1>1. Listed' = Listed
  BY DEF Listed
<1>2. /\ Numbered' = Numbered /\ Begun' = Begun /\ Yielding' = Yielding
      /\ CountFits' /\ DrawsFit' /\ FlagsOK'
  BY QuietFits
<1>3. DataOK'
  BY <1>1 DEF IInv, DataOK, idVars, callVars, reports, Requests, Messages
<1>4. NodesOK'
  BY <1>1 DEF IInv, NodesOK
<1>5. NodesFit' /\ OwnAnswer' /\ BufferFits'
  BY <1>1, <1>2 DEF IInv, NodesFit, OwnAnswer, BufferFits, idVars, callVars, reports,
     Requests
<1>6. WireFits'
  BY <1>2, WireStays DEF idVars
<1> QED BY <1>2, <1>3, <1>4, <1>5, <1>6 DEF IInv

\* Every step keeps the invariant.
LEMMA NextIInv == IInv /\ [Next]_vars => IInv'
<1> SUFFICES ASSUME IInv, [Next]_vars PROVE IInv'
  OBVIOUS
<1>1. ASSUME NEW t \in Threads, Send(t) PROVE IInv'
  <2>1. CASE \/ SerializeFails(t) \/ WriteFails(t) \/ ListAddFails(t) \/ SendReturns(t)
    BY <2>1, ReturnKeeps DEF SerializeFails, WriteFails, ListAddFails, SendReturns
  <2> QED BY <1>1, <2>1, ReadMsgIdKeeps, StoreMsgIdKeeps, StoreTokenKeeps,
          SerializeKeeps, WriteKeeps, ListAddKeeps DEF Send
<1>2. CASE Yield
  BY <1>2, HandleKeeps, AckKeeps, ResponseKeeps, SweepKeeps, EndKeeps DEF Yield
<1>3. CASE IOT_COAP_Destroy
  BY <1>3, EndKeeps
<1>4. CASE Environment
  <2>1. ASSUME NEW m \in answers, NetworkLoses(m) PROVE IInv'
    BY <2>1, LossKeeps DEF NetworkLoses
  <2> QED BY <1>4, <2>1, ServerKeeps, TimerKeeps DEF Environment
<1>5. CASE UNCHANGED vars
  BY <1>5, LossKeeps DEF vars, netVars
<1> QED BY <1>1, <1>2, <1>3, <1>4, <1>5 DEF Next

----------------------------------------------------------------------------
(* The theorems about single requests.                                     *)

\* What is retransmitted for a request is that request, although all requests
\* and ACKs are serialized into one buffer and copied after they were written.
THEOREM CopiesIntact == Spec => []CopyIntact
<1>1. IInv => CopyIntact
  BY DEF IInv, NodesFit, CopyIntact
<1> QED BY InitIInv, NextIInv, <1>1, PTL DEF Spec

\* Unless two threads drew from a counter at once or there were more requests
\* than ids, a request is reported with its own answer, however late, often or
\* out of order the datagrams come.
THEOREM AnswersAreOwn == Spec => []OwnAnswer
<1>1. IInv => OwnAnswer
  BY DEF IInv
<1> QED BY InitIInv, NextIInv, <1>1, PTL DEF Spec

----------------------------------------------------------------------------
(* Refinement of RequestPromise.                                           *)

\* What the application knows of a call at each of its steps.
Outcome(step) == IF step = "idle" THEN "none"
                 ELSE IF step \in {"ok", "error"} THEN step
                 ELSE "calling"

Outcomes == [r \in Requests |-> Outcome(pc[r])]

\* One call moves: only what the application knows of that call changes.
LEMMA MoveOutcome ==
    ASSUME IInv, NEW t \in Threads, NEW next \in Steps, pc' = [pc EXCEPT ![t] = next]
    PROVE  /\ Outcomes' = [Outcomes EXCEPT ![t] = Outcome(next)]
           /\ Outcome(next) = Outcome(pc[t]) => Outcomes' = Outcomes
<1>1. pc \in [Threads -> Steps]
  BY DEF IInv, DataOK
<1>2. /\ Outcomes = [r \in Threads |-> Outcome(pc[r])]
      /\ Outcomes' = [r \in Threads |-> Outcome(pc'[r])]
  BY DEF Outcomes, Requests, Outcome
<1> QED BY <1>1, <1>2

\* A call that begins, is accepted or fails is a step of the promise; every
\* other move of a call is none.
LEMMA SendPromise ==
    ASSUME IInv, NEW t \in Threads, Send(t)
    PROVE  [Promise!PNext]_(Promise!promiseVars)
<1> DEFINE res == [r \in Requests |-> IF pc[r] = "idle" THEN "none"
                                      ELSE IF pc[r] \in {"ok", "error"} THEN pc[r]
                                      ELSE "calling"]
<1>1. res = Outcomes /\ res' = Outcomes'
  BY DEF Outcomes, Outcome
<1>2. report' = report
  BY DEF Send, ReadMsgId, StoreMsgId, StoreToken, Serialize, SerializeFails, Write,
     WriteFails, _coap_message_list_add, ListAddFails, SendReturns, reports
<1>3. res[t] = Outcome(pc[t]) /\ t \in Requests
  BY DEF Requests, Outcome
<1>4. CASE ReadMsgId(t)
  <2>1. pc[t] = "idle" /\ pc' = [pc EXCEPT ![t] = "id"]
    BY <1>4 DEF ReadMsgId
  <2>2. Outcomes' = [Outcomes EXCEPT ![t] = "calling"] /\ res[t] = "none"
    BY <1>3, <2>1, MoveOutcome DEF Steps, Outcome
  <2>3. Promise!Begin(t)
    BY <1>1, <1>2, <2>2 DEF Promise!Begin
  <2> QED BY <1>3, <2>3 DEF Promise!PNext
<1>5. CASE SerializeFails(t) \/ WriteFails(t) \/ ListAddFails(t)
  <2>1. pc[t] \in {"lock", "write", "list"} /\ pc' = [pc EXCEPT ![t] = "error"]
    BY <1>5 DEF SerializeFails, WriteFails, ListAddFails, Return
  <2>2. Outcomes' = [Outcomes EXCEPT ![t] = "error"] /\ res[t] = "calling"
    BY <1>3, <2>1, MoveOutcome DEF Steps, Outcome
  <2>3. report[t] = "none"
    BY <2>1 DEF IInv, NodesFit
  <2>4. Promise!Reject(t)
    BY <1>1, <1>2, <2>2, <2>3 DEF Promise!Reject
  <2> QED BY <1>3, <2>4 DEF Promise!PNext
<1>6. CASE SendReturns(t)
  <2>1. pc[t] = "return" /\ pc' = [pc EXCEPT ![t] = "ok"]
    BY <1>6 DEF SendReturns, Return
  <2>2. Outcomes' = [Outcomes EXCEPT ![t] = "ok"] /\ res[t] = "calling"
    BY <1>3, <2>1, MoveOutcome DEF Steps, Outcome
  <2>3. Promise!Accept(t)
    BY <1>1, <1>2, <2>2 DEF Promise!Accept
  <2> QED BY <1>3, <2>3 DEF Promise!PNext
<1>7. CASE StoreMsgId(t) \/ StoreToken(t) \/ Serialize(t) \/ Write(t)
           \/ _coap_message_list_add(t)
  <2>1. /\ pc[t] \in {"id", "token", "lock", "write", "list"}
        /\ \E next \in {"token", "lock", "write", "list", "return"} :
             pc' = [pc EXCEPT ![t] = next]
    BY <1>7 DEF StoreMsgId, StoreToken, Serialize, Write, _coap_message_list_add
  <2>2. Outcomes' = Outcomes
    BY <2>1, MoveOutcome DEF Steps, Outcome
  <2> QED BY <1>1, <1>2, <2>2 DEF Promise!promiseVars
<1> QED BY <1>4, <1>5, <1>6, <1>7 DEF Send

\* Whatever is told, is told to listed requests, for the first time.
LEMMA ReportPromise ==
    ASSUME IInv, pc' = pc, NEW R, R \subseteq Listed,
           \A r \in R : ~message_list[r].invalid,
           NEW what \in {"answer", "timeout"}, report' = Told(R, what)
    PROVE  Promise!PNext
<1>1. /\ report' \in [Requests -> {"none", "answer", "timeout"}]
      /\ \A r \in Requests : report'[r] # report[r] => r \in R
  BY ToldOnce
<1>2. \A r \in R : report[r] = "none" /\ pc[r] \in {"return", "ok"}
  BY DEF IInv, NodesFit
<1>3. Promise!Report
  BY <1>1, <1>2 DEF Promise!Report, Promise!Outcomes
<1> QED BY <1>3 DEF Promise!PNext

\* Every step is a step of the promise, or leaves what the application was
\* told as it is.
LEMMA StepPromise == IInv /\ [Next]_vars => [Promise!PNext]_(Promise!promiseVars)
<1> SUFFICES ASSUME IInv, [Next]_vars
             PROVE  [Promise!PNext]_(Promise!promiseVars)
  OBVIOUS
<1>1. CASE pc' = pc /\ report' = report
  BY <1>1 DEF Promise!promiseVars
<1>2. ASSUME NEW R, R \subseteq Listed, pc' = pc, ypc # "sweep",
             report' = Told(R, "answer")
      PROVE  [Promise!PNext]_(Promise!promiseVars)
  <2>1. \A r \in R : ~message_list[r].invalid
    BY <1>2 DEF IInv, NodesFit
  <2> QED BY <1>2, <2>1, ReportPromise
<1>3. ASSUME NEW t \in Threads, Send(t)
      PROVE  [Promise!PNext]_(Promise!promiseVars)
  BY <1>3, SendPromise
<1>4. ASSUME NEW m \in answers, _coap_message_handle(m)
      PROVE  [Promise!PNext]_(Promise!promiseVars)
  <2> DEFINE R == {r \in Listed : msg_id[r] = m.id}
  <2>1. pc' = pc /\ ypc = "read" /\ R \subseteq Listed
    BY <1>4 DEF _coap_message_handle, callVars
  <2>2. report' = report \/ report' = Told(R, "answer")
    BY <1>4 DEF _coap_message_handle, _coap_ack_message_handle,
       _coap_piggyresp_message_handle, ResponseArrives, NotRecognized, Answered,
       reports
  <2> HIDE DEF R
  <2> QED BY <1>1, <1>2, <2>1, <2>2
<1>5. CASE _coap_resp_message_handle
  <2> DEFINE R == {r \in Listed : SameToken(r)}
  <2>1. /\ pc' = pc /\ ypc = "response" /\ R \subseteq Listed
        /\ report' = Told(R, "answer")
    BY <1>5 DEF _coap_resp_message_handle, callVars, Answered
  <2> HIDE DEF R
  <2> QED BY <1>2, <2>1
<1>6. CASE Sweep
  <2> DEFINE due   == {r \in Listed : /\ ~message_list[r].invalid
                                      /\ message_list[r].expired}
             ended == due \ {r \in due : Retransmit(message_list[r])}
  <2>1. pc' = pc /\ report' = Told(ended, "timeout")
    BY <1>6 DEF Sweep, callVars
  <2>2. ended \subseteq Listed /\ \A r \in ended : ~message_list[r].invalid
    OBVIOUS
  <2> HIDE DEF due, ended
  <2> QED BY <2>1, <2>2, ReportPromise
<1>7. CASE AckSerialize \/ AckWritten \/ ConstructReturns \/ IOT_COAP_Destroy
           \/ Environment \/ UNCHANGED vars
  <2>1. pc' = pc /\ report' = report
    BY <1>7 DEF AckSerialize, AckWritten, ConstructReturns, IOT_COAP_Destroy,
       Environment, ServerAnswers, TimerExpires, NetworkLoses, vars, callVars, reports
  <2> QED BY <1>1, <2>1
<1> QED BY <1>3, <1>4, <1>5, <1>6, <1>7 DEF Next, Yield

\* A CoAP request keeps the promise of RequestPromise: it is accepted or
\* rejected once, an accepted one is reported at most once, as answered or as
\* timed out, and one that was refused after it was written is never reported.
THEOREM CoapKeepsPromise == Spec => KeepsPromise
<1>1. Init => Promise!PInit
  BY DEF Init, Promise!PInit, Requests
<1> QED BY InitIInv, NextIInv, StepPromise, <1>1, PTL
        DEF Spec, KeepsPromise, Promise!PSpec

----------------------------------------------------------------------------
(* Types, with the bounds of the tokens.                                   *)

\* The requests of a behaviour are bounded; one that has not drawn its token
\* has the initial one.
BoundFits ==
    /\ Cardinality(Begun) <= MaxRequests
    /\ \A r \in Requests \ Numbered : token[r] = 0

\* Every step respects the bounds.
LEMMA NextBound == IInv /\ BoundFits /\ [Next]_vars => BoundFits'
<1> SUFFICES ASSUME IInv, BoundFits, [Next]_vars PROVE BoundFits'
  OBVIOUS
<1>0. pc \in [Threads -> Steps] /\ token \in [Threads -> Nat] /\ Requests = Threads
  BY DEF IInv, DataOK, Requests
<1>1. ASSUME NEW t \in Threads, ReadMsgId(t) PROVE BoundFits'
  <2>1. /\ pc[t] = "idle" /\ pc' = [pc EXCEPT ![t] = "id"] /\ token' = token
        /\ Cardinality(Begun) < MaxRequests
    BY <1>1 DEF ReadMsgId
  <2>2. /\ Begun' = Begun \cup {t} /\ t \notin Begun /\ Begun \in SUBSET Threads
        /\ Numbered' = Numbered
    BY <1>0, <2>1 DEF Begun, Numbered
  <2>3. IsFiniteSet(Begun) /\ Cardinality(Begun) \in Nat
    BY <2>2, CountThreads
  <2>4. Cardinality(Begun') = Cardinality(Begun) + 1
    BY <2>2, <2>3, FS_AddElement
  <2>5. Cardinality(Begun') <= MaxRequests
    BY <2>1, <2>3, <2>4, CoapAssumption
  <2> QED BY <2>1, <2>2, <2>5 DEF BoundFits, Requests
<1>2. ASSUME NEW t \in Threads, StoreMsgId(t) PROVE BoundFits'
  <2>1. /\ pc[t] = "id" /\ pc' = [pc EXCEPT ![t] = "token"]
        /\ token' = [token EXCEPT ![t] = message_token]
    BY <1>2 DEF StoreMsgId
  <2>2. Begun' = Begun /\ Numbered' = Numbered \cup {t}
    BY <1>0, <2>1 DEF Begun, Numbered
  <2>3. \A r \in Requests \ Numbered' : token'[r] = token[r] /\ r \notin Numbered
    BY <1>0, <2>1, <2>2
  <2> QED BY <2>2, <2>3 DEF BoundFits, Requests
<1>3. ASSUME NEW t \in Threads, pc[t] \in {"token"} \cup Late,
             NEW next \in Late, pc' = [pc EXCEPT ![t] = next], token' = token
      PROVE  BoundFits'
  <2>1. Begun' = Begun /\ Numbered' = Numbered
    BY <1>0, <1>3 DEF Begun, Numbered, Late
  <2> QED BY <1>3, <2>1 DEF BoundFits, Requests
<1>4. ASSUME NEW t \in Threads, Send(t) PROVE BoundFits'
  <2>1. CASE StoreToken(t) \/ Serialize(t) \/ SerializeFails(t) \/ Write(t)
             \/ WriteFails(t) \/ _coap_message_list_add(t) \/ ListAddFails(t)
             \/ SendReturns(t)
    <3>1. /\ pc[t] \in {"token"} \cup Late /\ token' = token
          /\ \E next \in Late : pc' = [pc EXCEPT ![t] = next]
      BY <2>1 DEF StoreToken, Serialize, SerializeFails, Write, WriteFails,
         _coap_message_list_add, ListAddFails, SendReturns, Return, Late, idVars
    <3> QED BY <1>3, <3>1
  <2> QED BY <1>1, <1>2, <1>4, <2>1 DEF Send
<1>5. CASE Yield \/ IOT_COAP_Destroy \/ Environment \/ UNCHANGED vars
  <2>1. pc' = pc /\ token' = token
    BY <1>5 DEF Yield, _coap_message_handle, AckSerialize, AckWritten,
       _coap_resp_message_handle, Sweep, ConstructReturns, IOT_COAP_Destroy,
       Environment, ServerAnswers, TimerExpires, NetworkLoses, vars, callVars, idVars
  <2> QED BY <2>1 DEF BoundFits, Begun, Numbered, Requests
<1> QED BY <1>4, <1>5 DEF Next

\* Type correctness of the client: in particular message ids stay in their
\* range whatever threads race for them, tokens are no more than requests, and
\* no message is written again more than max_retry_count times.
THEOREM TypeCorrect == Spec => []TypeOK
<1>1. Init => BoundFits
  <2> SUFFICES ASSUME Init PROVE BoundFits
    OBVIOUS
  <2>1. Begun = {}
    BY DEF Init, Begun
  <2> QED BY <2>1, FS_EmptySet, CoapAssumption DEF Init, BoundFits
<1>2. IInv /\ BoundFits => TypeOK
  <2> SUFFICES ASSUME IInv, BoundFits PROVE TypeOK
    OBVIOUS
  <2>1. Stored \in SUBSET Begun /\ Begun \in SUBSET Threads
    BY DEF Stored, Begun
  <2>2. /\ Cardinality(Stored) <= Cardinality(Begun)
        /\ Cardinality(Stored) \in Nat /\ Cardinality(Begun) \in Nat
    BY <2>1, CountThreads
  <2>3. Base \in {0, 1} /\ MaxRequests \in Nat
    BY CoapAssumption DEF Base
  <2>4. \A n \in Base..(Base + Cardinality(Stored)) : n \in 0..(MaxRequests + 1)
    BY <2>2, <2>3 DEF BoundFits
  <2>5. message_token \in 0..(MaxRequests + 1)
    BY <2>4 DEF IInv, CountFits
  <2>6. \A r \in Requests : token[r] \in 0..(MaxRequests + 1)
    BY <2>3, <2>4 DEF IInv, CountFits, BoundFits
  <2>7. token \in [Requests -> 0..(MaxRequests + 1)]
    BY <2>6 DEF IInv, DataOK
  <2>8. \A m \in Messages : Fits(m) => m \in Datagrams
    BY <2>6 DEF Messages, Datagrams, Fits, Numbered, Requests
  <2>9. answers \subseteq Datagrams
    BY <2>8 DEF IInv, DataOK, WireFits
  <2>10. in \in Datagrams \cup {NoDatagram}
    BY <2>8 DEF IInv, DataOK, WireFits
  <2>11. Listed \subseteq Begun
    BY DEF IInv, NodesFit, DataOK, Begun, Requests
  <2>12. report \in [Requests -> {"none", "answer", "timeout", "again"}]
    BY DEF IInv, DataOK
  <2> QED BY <2>5, <2>7, <2>9, <2>10, <2>11, <2>12, Zenon
          DEF IInv, DataOK, NodesOK, FlagsOK, TypeOK, Steps
<1> QED BY InitIInv, NextIInv, NextBound, <1>1, <1>2, PTL DEF Spec
============================================================================
