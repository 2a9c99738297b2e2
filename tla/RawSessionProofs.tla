-------------------------- MODULE RawSessionProofs --------------------------
(* Theorems about RawSession, for every number of callers and of ids. *)
EXTENDS RawSession, FiniteSetTheorems, TLAPS

LEMMA ConvertType ==
  ASSUME NEW o, NEW kind
  PROVE  Convert(o, kind) \in Outcomes
BY DEF Convert, Outcomes

LEMMA HandlesAfterType ==
  ASSUME NEW o, NEW kind, handles \in Nat
  PROVE  HandlesAfter(o, kind) \in Nat
BY DEF HandlesAfter

LEMMA ReturnType ==
  ASSUME TypeOK, NEW p \in Callers, NEW res \in Outcomes, Return(p, res)
  PROVE  /\ pc' \in [Callers -> {"idle", "inserted", "waiting", "expired"}]
         /\ key' \in [Callers -> Keys] /\ ser' \in [Callers -> Int]
         /\ buf' \in [Callers -> Replies] /\ ret' \in [Callers -> Outcomes]
<1>1. NoReply \in Replies
  BY DEF NoReply, Replies
<1>2. NoId \in Keys
  BY DEF Keys
<1> QED
  BY <1>1, <1>2 DEF Return, TypeOK

LEMMA UseNextIdType ==
  ASSUME TypeOK, NEW o, UseNextId(o)
  PROVE  next_req_id' \in Ids /\ issued' \in Nat /\ inits' \in Nat
BY SessionAssumption DEF TypeOK, UseNextId, NextId, Ids

LEMMA TypeStep == TypeOK /\ [Next]_vars => TypeOK'
<1> SUFFICES ASSUME TypeOK, [Next]_vars PROVE TypeOK'
  OBVIOUS
<1> USE SessionAssumption
<1>0. {"Limited", "SessionClosed", "SendError", "RecvNone", "Timeout", "Dropped"}
        \subseteq Outcomes
  BY DEF Outcomes
<1>1. ASSUME NEW p \in Callers, NEW o \in Ops, Refuse(p, o) PROVE TypeOK'
  BY <1>0, <1>1, ReturnType DEF TypeOK, Refuse, taskVars, srvVars, idVars
<1>2. ASSUME NEW p \in Callers, NEW o \in Ops, SendClosed(p, o) PROVE TypeOK'
  BY <1>0, <1>2, ReturnType, UseNextIdType DEF TypeOK, SendClosed, taskVars, srvVars
<1>3. ASSUME NEW p \in Callers, NEW o \in Ops, Insert(p, o) PROVE TypeOK'
  <2>1. NoReply \in Replies /\ "none" \in Outcomes
    BY DEF NoReply, Replies, Outcomes
  <2>2. KeyFor(o) \in Keys /\ Serial(o) \in Int
    BY DEF KeyFor, Serial, TypeOK, Keys
  <2> QED
    BY <1>3, <2>1, <2>2, UseNextIdType DEF TypeOK, Insert, taskVars, srvVars
<1>4. ASSUME NEW p \in Callers, Enqueue(p) PROVE TypeOK'
  BY <1>4 DEF TypeOK, Enqueue, srvVars, idVars, Requests
<1>5. ASSUME NEW p \in Callers, EnqueueFails(p) PROVE TypeOK'
  BY <1>0, <1>5, ReturnType DEF TypeOK, EnqueueFails, WithoutReceiver, taskVars,
     srvVars, idVars
<1>6. ASSUME NEW p \in Callers, Recv(p) PROVE TypeOK'
  BY <1>6, ReturnType, ConvertType, HandlesAfterType DEF TypeOK, Recv, taskVars,
     srvVars, idVars
<1>7. ASSUME NEW p \in Callers, RecvNone(p) PROVE TypeOK'
  BY <1>0, <1>7, ReturnType DEF TypeOK, RecvNone, Remove, taskVars, srvVars, idVars
<1>8. ASSUME NEW p \in Callers, Expire(p) PROVE TypeOK'
  BY <1>8 DEF TypeOK, Expire, taskVars, srvVars, idVars
<1>9. ASSUME NEW p \in Callers, ExpireReturn(p) PROVE TypeOK'
  BY <1>0, <1>9, ReturnType DEF TypeOK, ExpireReturn, Remove, taskVars, srvVars, idVars
<1>10. ASSUME NEW p \in Callers, Drop(p) PROVE TypeOK'
  BY <1>0, <1>10, ReturnType DEF TypeOK, Drop, WithoutReceiver, taskVars, srvVars,
     idVars
<1>11. CASE CloseSession
  BY <1>11 DEF TypeOK, CloseSession, callVars, srvVars, idVars, Shutdown,
     Requests, Keys
<1>12. ASSUME NEW k \in Keys, NEW kind \in Kinds \cup {"Version"}, NEW s \in Int,
              Reply(k, kind, s), atServer' \subseteq atServer, srvOpen' \in Nat,
              strays' \in Nat
       PROVE  TypeOK'
  <2>1. Validate(k, kind) \in AllKinds \cup {"Version", "UnexpectedPacket",
                                             "DuplicateVersion", "NoReply"}
    BY DEF Validate
  <2>3. version' \in BOOLEAN /\ cancelled' \in BOOLEAN
    BY <1>12, Zenon DEF TypeOK, Reply, taskVars
  <2>4. [kind |-> Validate(k, kind), ser |-> s] \in Replies
    BY <2>1 DEF Replies
  <2>5. buf' \in [Callers -> Replies]
    BY <1>12, <2>4 DEF TypeOK, Reply
  <2> QED
    BY <1>12, <2>3, <2>5 DEF TypeOK, Reply, Remove, taskVars, idVars
<1>13. ASSUME NEW r \in atServer, NEW kind \in Kinds \cup {"Version"},
              ReadAnswer(r, kind)
       PROVE  TypeOK'
  <2>1. r.key \in Keys /\ r.ser \in Int
    BY DEF TypeOK, Requests
  <2>2. srvOpen' \in Nat /\ strays' \in Nat /\ atServer' \subseteq atServer
    BY <1>13 DEF ReadAnswer, SrvOpenAfter, TypeOK
  <2> QED
    BY <1>12, <1>13, <2>1, <2>2 DEF ReadAnswer
<1>14. ASSUME NEW k \in Keys, NEW kind \in Kinds \cup {"Version"},
              ReadStray(k, kind)
       PROVE  TypeOK'
  <2>1. srvOpen' \in Nat /\ strays' \in Nat /\ atServer' \subseteq atServer
    BY <1>14 DEF ReadStray, TypeOK
  <2> QED
    BY <1>12, <1>14, <2>1 DEF ReadStray
<1>15. CASE ReaderEof \/ ReaderCancelled
  BY <1>15 DEF TypeOK, ReaderEof, ReaderCancelled, ReaderEnds, callVars, srvVars,
     idVars
<1>16. CASE WriterWrites
  BY <1>16 DEF TypeOK, WriterWrites, callVars, idVars
<1>17. CASE WriterEnds
  BY <1>17 DEF TypeOK, WriterEnds, callVars, srvVars, idVars
<1>18. CASE UNCHANGED vars
  BY <1>18 DEF TypeOK, vars, callVars, taskVars, srvVars, idVars
<1> QED
  BY <1>1, <1>2, <1>3, <1>4, <1>5, <1>6, <1>7, <1>8, <1>9, <1>10, <1>11, <1>13,
     <1>14, <1>15, <1>16, <1>17, <1>18 DEF Next, CallStep

LEMMA TypeInit == Init => TypeOK
<1> SUFFICES ASSUME Init PROVE TypeOK
  OBVIOUS
<1>1. version \in BOOLEAN /\ cancelled \in BOOLEAN
  BY Zenon DEF Init
<1>2. NoReply \in Replies
  BY DEF NoReply, Replies
<1>3. next_req_id \in Ids /\ NoId \in Keys
  BY SessionAssumption DEF Init, Ids, Keys
<1>4. outq \in Seq(Requests)
  BY DEF Init
<1> QED
  BY <1>1, <1>2, <1>3, <1>4 DEF Init, TypeOK, Outcomes

(* The type invariant: the state of the session keeps its shape through     *)
(* every call, task and reply step of the code.                             *)
THEOREM TypeCorrect == Spec => []TypeOK
BY TypeInit, TypeStep, PTL DEF Spec

-----------------------------------------------------------------------------
(* The inductive invariant.  Requests are numbered (ser) in the order their *)
(* ids are handed out, so the latest IdSpace requests have the ids that     *)
(* count back from next_req_id, and two requests that share an id are a     *)
(* multiple of IdSpace apart.                                               *)

(* The id of request s when i requests were made and n is the next id.      *)
SlotOf(n, i, s) ==
  IF n - (i + 1 - s) < 0 THEN n - (i + 1 - s) + IdSpace ELSE n - (i + 1 - s)

(* Then request s, which carries id k, is one of them. *)
Placed(n, i, k, s) == /\ s \in 1 .. i
                      /\ i - s < IdSpace => k = SlotOf(n, i, s)

(* Request a is request b or made at least IdSpace requests before it. *)
Late(a, b) == a = b \/ b - a >= IdSpace

QueueSet(q) == {q[i] : i \in 1 .. Len(q)}
OnWire == atServer \cup QueueSet(outq)

RecordOK(r) == IF r.key = NoId THEN r.ser <= 0 
               ELSE Placed(next_req_id, issued, r.key, r.ser)
RecordsOK == \A r \in OnWire : RecordOK(r)

CallOK(p) ==
  /\ pc[p] = "idle" => key[p] = NoId /\ ser[p] = 0 /\ buf[p] = NoReply
  /\ IF key[p] = NoId THEN ser[p] <= 0 
     ELSE Placed(next_req_id, issued, key[p], ser[p])
CallsOK == \A p \in Callers : CallOK(p)

Distinct == \A p, q \in Callers : ser[p] > 0 /\ ser[p] = ser[q] => p = q

(* No request that carries the id of a registered call is newer than it. *)
NewestAt(k) ==
  requests[k] \in Callers =>
    /\ \A r \in OnWire : r.key = k => Late(r.ser, ser[requests[k]])
    /\ \A q \in Callers : pc[q] = "inserted" /\ key[q] = k
                             => Late(ser[q], ser[requests[k]])
Newest == \A k \in Ids : NewestAt(k)

CorrelationInv ==
  /\ TypeOK /\ RegisteredLive
  /\ RecordsOK /\ CallsOK /\ Distinct /\ Newest
  /\ Correlated

(* Arithmetic of the ids *)

LEMMA PlacedNext ==
  ASSUME NEW n \in Ids, NEW i \in Nat, NEW k \in Ids, NEW s \in Int,
         Placed(n, i, k, s), NEW m, m = IF n = IdSpace - 1 THEN 0 ELSE n + 1
  PROVE  Placed(m, i + 1, k, s)
BY SessionAssumption DEF Placed, SlotOf, Ids

LEMMA PlacedNew ==
  ASSUME NEW n \in Ids, NEW i \in Nat, NEW m,
         m = IF n = IdSpace - 1 THEN 0 ELSE n + 1
  PROVE  Placed(m, i + 1, n, i + 1)
BY SessionAssumption DEF Placed, SlotOf, Ids

(* A request that already carries the next id is IdSpace requests old. *)
LEMMA FreshLate ==
  ASSUME NEW n \in Ids, NEW i \in Nat, NEW s \in Int, Placed(n, i, n, s)
  PROVE  Late(s, i + 1)
BY SessionAssumption DEF Placed, SlotOf, Late, Ids

(* Two of the latest IdSpace requests that carry one id are one request. *)
LEMMA SlotUnique ==
  ASSUME NEW n \in Ids, NEW i \in Nat, NEW k \in Ids, NEW s \in Int, NEW t \in Int,
         i <= IdSpace, Placed(n, i, k, s), Placed(n, i, k, t)
  PROVE  s = t
BY SessionAssumption DEF Placed, SlotOf, Ids

(* An id is handed out, or none is. *)
IdStep == \/ UNCHANGED <<next_req_id, issued>>
          \/ issued' = issued + 1 /\ next_req_id' = NextId

LEMMA PlacedStays ==
  ASSUME TypeOK, IdStep, NEW k \in Ids, NEW s \in Int,
         Placed(next_req_id, issued, k, s)
  PROVE  Placed(next_req_id', issued', k, s)
BY PlacedNext DEF TypeOK, IdStep, NextId

LEMMA RecordStays ==
  ASSUME TypeOK, IdStep, NEW r \in Requests, RecordOK(r)
  PROVE  RecordOK(r)'
BY PlacedStays DEF RecordOK, Requests, Keys

(* The writer's queue *)

LEMMA WireType == TypeOK => OnWire \subseteq Requests
BY DEF TypeOK, OnWire, QueueSet

LEMMA QueueAppend ==
  ASSUME NEW S, NEW q \in Seq(S), NEW e \in S
  PROVE  QueueSet(Append(q, e)) = QueueSet(q) \cup {e}
BY DEF QueueSet

LEMMA QueueTail ==
  ASSUME NEW S, NEW q \in Seq(S), q # <<>>
  PROVE  QueueSet(Tail(q)) \subseteq QueueSet(q) /\ Head(q) \in QueueSet(q)
BY DEF QueueSet

(* Preservation, by what a step does to the calls *)

(* Steps of the two tasks that hand nothing to a call. *)
LEMMA TaskStep ==
  ASSUME CorrelationInv, TypeOK', UNCHANGED <<callVars, idVars, requests>>,
         OnWire' \subseteq OnWire \cup {Shutdown}
  PROVE  CorrelationInv'
<1>1. RegisteredLive' /\ Correlated' /\ Distinct'
  BY DEF CorrelationInv, RegisteredLive, Correlated, Distinct, Active, callVars
<1>2. RecordsOK'
  BY DEF CorrelationInv, RecordsOK, RecordOK, Shutdown, idVars
<1>3. CallsOK'
  BY DEF CorrelationInv, CallsOK, CallOK, callVars, idVars
<1>4. Newest'
  BY DEF CorrelationInv, Newest, NewestAt, callVars, Shutdown, Ids, NoId
<1> QED
  BY <1>1, <1>2, <1>3, <1>4 DEF CorrelationInv

(* A call ends, in whatever way. *)
LEMMA LeaveStep ==
  ASSUME CorrelationInv, TypeOK', NEW p \in Callers, NEW res, Return(p, res),
         IdStep, UNCHANGED <<outq, atServer>>,
         \A k \in Keys : requests'[k] \in Callers =>
                            requests'[k] = requests[k] /\ requests'[k] # p
  PROVE  CorrelationInv'
<1> USE DEF CorrelationInv
<1>0. OnWire' = OnWire
  BY DEF OnWire
<1>1. RegisteredLive'
  BY DEF RegisteredLive, Return, Active, TypeOK
<1>2. RecordsOK'
  BY <1>0, RecordStays, WireType DEF RecordsOK
<1>3. CallsOK'
  <2> SUFFICES ASSUME NEW q \in Callers PROVE CallOK(q)'
    BY DEF CallsOK
  <2>1. CASE q = p
    BY <2>1 DEF CallOK, Return, TypeOK, NoReply
  <2>2. CASE q # p
    <3>1. UNCHANGED <<pc[q], key[q], ser[q], buf[q]>>
      BY <2>2 DEF Return, TypeOK
    <3>2. CallOK(q)
      BY DEF CallsOK
    <3>3. key[q] # NoId => Placed(next_req_id', issued', key[q], ser[q])
      BY <3>2, PlacedStays DEF CallOK, TypeOK, Keys
    <3> QED
      BY <3>1, <3>2, <3>3 DEF CallOK
  <2> QED
    BY <2>1, <2>2
<1>4. Distinct'
  BY DEF Distinct, Return, TypeOK
<1>5. Newest'
  BY <1>0 DEF Newest, NewestAt, Return, TypeOK, Keys
<1>6. Correlated'
  BY DEF Correlated, Return, TypeOK, NoReply
<1> QED
  BY <1>1, <1>2, <1>3, <1>4, <1>5, <1>6

(* A call registers under a new id, or as init under none. *)
LEMMA InsertStep ==
  ASSUME CorrelationInv, TypeOK', NEW p \in Callers, NEW o \in Ops, Insert(p, o)
  PROVE  CorrelationInv'
<1> USE DEF CorrelationInv
<1>0. OnWire' = OnWire /\ IdStep
  BY DEF Insert, OnWire, IdStep, UseNextId, srvVars, taskVars
<1>1. RegisteredLive'
  BY DEF RegisteredLive, Insert, Active, TypeOK, CallsOK, CallOK
<1>2. RecordsOK'
  BY <1>0, RecordStays, WireType DEF RecordsOK
<1>3. CallsOK'
  <2> SUFFICES ASSUME NEW q \in Callers PROVE CallOK(q)'
    BY DEF CallsOK
  <2>1. CASE q = p /\ o = "init"
    BY <2>1 DEF CallOK, Insert, TypeOK, KeyFor, Serial
  <2>2. CASE q = p /\ o # "init"
    <3>1. key'[p] = next_req_id /\ ser'[p] = issued + 1 /\ pc'[p] = "inserted"
      BY <2>2 DEF Insert, TypeOK, KeyFor, Serial
    <3>2. issued' = issued + 1 /\ next_req_id' = NextId
      BY <2>2 DEF Insert, UseNextId
    <3>3. Placed(next_req_id', issued', next_req_id, issued + 1)
      BY <3>2, PlacedNew DEF NextId, TypeOK
    <3>4. next_req_id # NoId
      BY DEF TypeOK, Ids, NoId
    <3> QED
      BY <2>2, <3>1, <3>3, <3>4 DEF CallOK
  <2>3. CASE q # p
    <3>1. UNCHANGED <<pc[q], key[q], ser[q], buf[q]>>
      BY <2>3 DEF Insert, TypeOK
    <3>2. CallOK(q)
      BY DEF CallsOK
    <3>3. key[q] # NoId => Placed(next_req_id', issued', key[q], ser[q])
      BY <1>0, <3>2, PlacedStays DEF CallOK, TypeOK, Keys
    <3> QED
      BY <3>1, <3>2, <3>3 DEF CallOK
  <2> QED
    BY <2>1, <2>2, <2>3
<1>4. \A q \in Callers : ser[q] <= issued
  BY DEF CallsOK, CallOK, Placed, TypeOK
<1>5. Distinct'
  BY <1>4 DEF Distinct, Insert, Serial, TypeOK
<1>6. Newest'
  <2> SUFFICES ASSUME NEW k \in Ids, requests'[k] \in Callers PROVE NewestAt(k)'
    BY DEF Newest, NewestAt
  <2>1. CASE o # "init" /\ k = next_req_id
    <3>1. requests'[k] = p /\ ser'[p] = issued + 1
      BY <2>1 DEF Insert, KeyFor, Serial, TypeOK, Keys
    <3>2. ASSUME NEW r \in OnWire', r.key = k PROVE Late(r.ser, issued + 1)
      <4>1. r \in Requests /\ r.key # NoId /\ RecordOK(r)
        BY <1>0, <3>2, WireType DEF RecordsOK, Ids, NoId
      <4> QED
        BY <2>1, <3>2, <4>1, FreshLate DEF RecordOK, Requests, TypeOK
    <3>3. ASSUME NEW q \in Callers, key'[q] = k PROVE Late(ser'[q], issued + 1)
      <4>1. CASE q = p
        BY <3>1, <4>1 DEF Late
      <4>2. CASE q # p
        <5>1. key[q] = k /\ ser'[q] = ser[q] /\ k # NoId
          BY <3>3, <4>2 DEF Insert, TypeOK, Ids, NoId
        <5>2. Placed(next_req_id, issued, k, ser[q]) /\ ser[q] \in Int
          BY <5>1 DEF CallsOK, CallOK, TypeOK
        <5> QED
          BY <2>1, <5>1, <5>2, FreshLate DEF TypeOK
      <4> QED
        BY <4>1, <4>2
    <3> QED
      BY <3>1, <3>2, <3>3 DEF NewestAt
  <2>2. CASE o = "init" \/ k # next_req_id
    <3>1. requests'[k] = requests[k]
      BY <2>2 DEF Insert, KeyFor, TypeOK, Keys, Ids, NoId
    <3>2. requests[k] # p
      BY <3>1 DEF Insert, RegisteredLive, Active, Keys
    <3>3. ser'[requests[k]] = ser[requests[k]]
      BY <3>1, <3>2 DEF Insert, TypeOK
    <3>4. ASSUME NEW q \in Callers, key'[q] = k
          PROVE  q # p /\ key[q] = k /\ ser'[q] = ser[q] /\ pc'[q] = pc[q]
      BY <2>2, <3>4 DEF Insert, TypeOK, KeyFor, Ids, NoId
    <3> QED
      BY <1>0, <3>1, <3>3, <3>4 DEF Newest, NewestAt
  <2> QED
    BY <2>1, <2>2
<1>7. Correlated'
  BY DEF Correlated, Insert, TypeOK, NoReply
<1> QED
  BY <1>1, <1>2, <1>3, <1>5, <1>6, <1>7

(* The packet of a registered call is queued. *)
LEMMA EnqueueStep ==
  ASSUME CorrelationInv, TypeOK', NEW p \in Callers, Enqueue(p)
  PROVE  CorrelationInv'
<1> USE DEF CorrelationInv
<1> DEFINE e == [op |-> op[p], key |-> key[p], ser |-> ser[p]]
<1>0. OnWire' = OnWire \cup {e} /\ e.key = key[p] /\ e.ser = ser[p]
  <2>1. e \in Requests
    BY DEF TypeOK, Requests
  <2>2. QueueSet(outq') = QueueSet(outq) \cup {e}
    BY <2>1, QueueAppend DEF Enqueue, TypeOK
  <2> QED
    BY <2>2 DEF OnWire, Enqueue, srvVars
<1> HIDE DEF e
<1>1. RegisteredLive' /\ Distinct' /\ Correlated'
  BY DEF RegisteredLive, Distinct, Correlated, Enqueue, Active, TypeOK
<1>2. RecordsOK'
  BY <1>0 DEF RecordsOK, RecordOK, CallsOK, CallOK, Enqueue, idVars
<1>3. CallsOK'
  BY DEF CallsOK, CallOK, Enqueue, TypeOK, idVars
<1>4. Newest'
  BY <1>0 DEF Newest, NewestAt, Enqueue, TypeOK
<1> QED
  BY <1>1, <1>2, <1>3, <1>4

LEMMA ExpireStep ==
  ASSUME CorrelationInv, TypeOK', NEW p \in Callers, Expire(p)
  PROVE  CorrelationInv'
<1> USE DEF CorrelationInv
<1>0. OnWire' = OnWire
  BY DEF Expire, OnWire, taskVars, srvVars
<1>1. RegisteredLive' /\ Distinct' /\ Correlated'
  BY DEF RegisteredLive, Distinct, Correlated, Expire, Active, TypeOK
<1>2. RecordsOK' /\ CallsOK'
  BY <1>0 DEF RecordsOK, RecordOK, CallsOK, CallOK, Expire, TypeOK, idVars
<1>3. Newest'
  BY <1>0 DEF Newest, NewestAt, Expire, TypeOK
<1> QED
  BY <1>1, <1>2, <1>3

(* A packet arrives: the answer s to a request under the same key, or one   *)
(* of the server's own.                                                     *)
LEMMA ReplyStep ==
  ASSUME CorrelationInv, TypeOK', NEW k \in Keys, NEW kind, NEW s \in Int,
         Reply(k, kind, s), atServer' \subseteq atServer,
         s > 0 => \E r \in OnWire : r.key = k /\ r.ser = s
  PROVE  CorrelationInv'
<1> USE DEF CorrelationInv
<1>0. OnWire' \subseteq OnWire /\ UNCHANGED <<next_req_id, issued>>
  BY DEF Reply, OnWire, taskVars, idVars
<1>1. RegisteredLive'
  <2> SUFFICES ASSUME NEW l \in Keys, requests'[l] \in Callers
               PROVE  /\ Active(requests[l]) /\ key[requests[l]] = l
                      /\ requests'[l] = requests[l] /\ buf'[requests[l]] = NoReply
    BY DEF RegisteredLive, Active, Reply
  <2>1. l # k /\ requests'[l] = requests[l]
    BY SessionAssumption DEF Reply, Remove, TypeOK
  <2>2. requests[l] # requests[k]
    BY <2>1 DEF RegisteredLive
  <2> QED
    BY <2>1, <2>2 DEF RegisteredLive, Reply, TypeOK
<1>2. RecordsOK'
  BY <1>0 DEF RecordsOK, RecordOK
<1>3. CallsOK'
  <2> SUFFICES ASSUME NEW q \in Callers PROVE CallOK(q)'
    BY DEF CallsOK
  <2>1. pc[q] = "idle" => buf'[q] = buf[q]
    BY DEF Reply, RegisteredLive, Active, TypeOK
  <2> QED
    BY <1>0, <2>1 DEF CallsOK, CallOK, Reply
<1>4. Distinct'
  BY DEF Distinct, Reply
<1>5. Newest'
  BY <1>0, SessionAssumption DEF Newest, NewestAt, Reply, Remove, TypeOK, Keys
<1>6. Correlated'
  <2> SUFFICES ASSUME NEW q \in Callers, buf'[q].ser > 0
               PROVE  Late(buf'[q].ser, ser[q])
    BY DEF Correlated, Late, Reply
  <2>1. CASE requests[k] = q
    <3>1. buf'[q].ser = s
      BY <2>1 DEF Reply, TypeOK
    <3>2. PICK r \in OnWire : r.key = k /\ r.ser = s
      BY <3>1
    <3>3. k # NoId
      BY <3>1, <3>2 DEF RecordsOK, RecordOK
    <3> QED
      BY <2>1, <3>1, <3>2, <3>3 DEF Newest, NewestAt, Keys
  <2>2. CASE requests[k] # q
    BY <2>2 DEF Reply, Correlated, Late, TypeOK
  <2> QED
    BY <2>1, <2>2
<1> QED
  BY <1>1, <1>2, <1>3, <1>4, <1>5, <1>6

LEMMA CorrelationStep == CorrelationInv /\ [Next]_vars => CorrelationInv'
<1> SUFFICES ASSUME CorrelationInv, [Next]_vars PROVE CorrelationInv'
  OBVIOUS
<1>0. TypeOK /\ TypeOK' /\ RegisteredLive
  BY TypeStep DEF CorrelationInv
<1>1. ASSUME NEW p \in Callers, NEW o \in Ops, Refuse(p, o) PROVE CorrelationInv'
  BY <1>0, <1>1, LeaveStep DEF Refuse, IdStep, idVars, taskVars, srvVars,
     RegisteredLive, Active
<1>2. ASSUME NEW p \in Callers, NEW o \in Ops, SendClosed(p, o)
      PROVE  CorrelationInv'
  <2>1. IdStep
    BY <1>2 DEF SendClosed, UseNextId, IdStep
  <2> QED
    BY <1>0, <1>2, <2>1, LeaveStep DEF SendClosed, taskVars, srvVars,
       RegisteredLive, Active
<1>3. ASSUME NEW p \in Callers, NEW o \in Ops, Insert(p, o) PROVE CorrelationInv'
  BY <1>0, <1>3, InsertStep
<1>4. ASSUME NEW p \in Callers, Enqueue(p) PROVE CorrelationInv'
  BY <1>0, <1>4, EnqueueStep
<1>5. ASSUME NEW p \in Callers, EnqueueFails(p) PROVE CorrelationInv'
  BY <1>0, <1>5, LeaveStep, SessionAssumption DEF EnqueueFails, WithoutReceiver,
     IdStep, idVars, taskVars, srvVars
<1>6. ASSUME NEW p \in Callers, Recv(p) PROVE CorrelationInv'
  BY <1>0, <1>6, LeaveStep DEF Recv, IdStep, idVars, taskVars, srvVars,
     RegisteredLive
<1>7. ASSUME NEW p \in Callers, RecvNone(p) PROVE CorrelationInv'
  BY <1>0, <1>7, LeaveStep, SessionAssumption DEF RecvNone, Remove, IdStep, idVars,
     taskVars, srvVars, TypeOK
<1>8. ASSUME NEW p \in Callers, Expire(p) PROVE CorrelationInv'
  BY <1>0, <1>8, ExpireStep
<1>9. ASSUME NEW p \in Callers, ExpireReturn(p) PROVE CorrelationInv'
  <2>1. \A k \in Keys : requests'[k] \in Callers =>
                           requests'[k] = requests[k] /\ requests'[k] # p
    BY <1>0, <1>9, SessionAssumption DEF ExpireReturn, Remove, RegisteredLive, TypeOK
  <2> QED
    BY <1>0, <1>9, <2>1, LeaveStep DEF ExpireReturn, IdStep, idVars, taskVars, srvVars
<1>10. ASSUME NEW p \in Callers, Drop(p) PROVE CorrelationInv'
  BY <1>0, <1>10, LeaveStep, SessionAssumption DEF Drop, WithoutReceiver, IdStep,
     idVars, taskVars, srvVars
<1>11. CASE CloseSession
  <2>0. Shutdown \in Requests
    BY DEF Shutdown, Requests, Keys
  <2>1. QueueSet(outq') = QueueSet(outq) \cup {Shutdown}
    BY <1>0, <1>11, <2>0, QueueAppend DEF CloseSession, TypeOK
  <2> QED
    BY <1>0, <1>11, <2>1, TaskStep DEF CloseSession, OnWire, srvVars
<1>12. ASSUME NEW r \in atServer, NEW kind \in Kinds \cup {"Version"},
              ReadAnswer(r, kind)
       PROVE  CorrelationInv'
  <2>1. r \in OnWire /\ r.key \in Keys /\ r.ser \in Int
    BY <1>0 DEF OnWire, TypeOK, Requests
  <2>2. Reply(r.key, kind, r.ser) /\ atServer' \subseteq atServer
    BY <1>12 DEF ReadAnswer
  <2> QED
    BY <1>0, <2>1, <2>2, ReplyStep
<1>13. ASSUME NEW k \in Keys, NEW kind \in Kinds \cup {"Version"}, ReadStray(k, kind)
       PROVE  CorrelationInv'
  BY <1>0, <1>13, ReplyStep DEF ReadStray
<1>14. CASE ReaderEof \/ ReaderCancelled
  BY <1>0, <1>14, TaskStep DEF ReaderEof, ReaderCancelled, ReaderEnds, OnWire,
     srvVars
<1>15. CASE WriterWrites
  <2>1. QueueSet(outq') \subseteq QueueSet(outq) /\ Head(outq) \in QueueSet(outq)
    BY <1>0, <1>15, QueueTail DEF WriterWrites, TypeOK
  <2> QED
    BY <1>0, <1>15, <2>1, TaskStep DEF WriterWrites, OnWire
<1>16. CASE WriterEnds
  <2>1. QueueSet(outq') = {}
    BY <1>16 DEF WriterEnds, QueueSet
  <2> QED
    BY <1>0, <1>16, <2>1, TaskStep DEF WriterEnds, OnWire, srvVars
<1>17. CASE UNCHANGED vars
  BY <1>0, <1>17, TaskStep DEF vars, OnWire, taskVars, srvVars
<1> QED
  BY <1>1, <1>2, <1>3, <1>4, <1>5, <1>6, <1>7, <1>8, <1>9, <1>10, <1>11, <1>12,
     <1>13, <1>14, <1>15, <1>16, <1>17 DEF Next, CallStep

LEMMA CorrelationInit == Init => CorrelationInv
<1> SUFFICES ASSUME Init PROVE CorrelationInv
  OBVIOUS
<1>1. TypeOK
  BY TypeInit
<1>2. OnWire = {}
  BY DEF Init, OnWire, QueueSet
<1> QED
  BY <1>1, <1>2, SessionAssumption DEF Init, CorrelationInv, RegisteredLive,
     RecordsOK, CallsOK, CallOK, Distinct, Newest, NewestAt, Correlated, NoReply,
     Keys, Ids

(* Whatever the interleaving of calls, timeouts, drops and late replies, a  *)
(* sender in the map is that of a waiting call with an empty channel, so    *)
(* the try_send of SessionInner::reply is never refused as full.            *)
THEOREM ChannelsStayEmpty == Spec => []RegisteredLive
<1>1. CorrelationInv => RegisteredLive
  BY DEF CorrelationInv
<1> QED
  BY <1>1, CorrelationInit, CorrelationStep, PTL DEF Spec

(* A call is handed the answer to its own request, for any number of        *)
(* callers and of ids; an answer can go astray only when it is a full round *)
(* of the id counter late.                                                  *)
THEOREM AnswersCorrelate == Spec => []Correlated
<1>1. CorrelationInv => Correlated
  BY DEF CorrelationInv
<1> QED
  BY <1>1, CorrelationInit, CorrelationStep, PTL DEF Spec

-----------------------------------------------------------------------------
(* No lost wakeup *)

(* During the first IdSpace requests two calls never share an id. *)
LEMMA KeysApart ==
  ASSUME CorrelationInv, issued <= IdSpace, NEW p \in Callers, NEW q \in Callers,
         key[p] = key[q], key[p] # NoId
  PROVE  p = q
<1>1. /\ Placed(next_req_id, issued, key[p], ser[p])
      /\ Placed(next_req_id, issued, key[p], ser[q])
  BY DEF CorrelationInv, CallsOK, CallOK
<1>2. ser[p] = ser[q]
  BY <1>1, SlotUnique DEF CorrelationInv, TypeOK, Keys
<1>3. ser[p] > 0
  BY <1>1 DEF Placed, CorrelationInv, TypeOK
<1> QED
  BY <1>2, <1>3 DEF CorrelationInv, Distinct

LEMMA WakeupStep ==
  CorrelationInv /\ NoLostWakeup /\ [Next]_vars => NoLostWakeup'
<1> SUFFICES ASSUME CorrelationInv, NoLostWakeup, [Next]_vars, issued' <= IdSpace,
                    NEW q \in Callers, Active(q)', key'[q] # NoId
             PROVE  requests'[key'[q]] = q \/ buf'[q] # NoReply
  BY DEF NoLostWakeup
<1>0. /\ TypeOK /\ RegisteredLive
      /\ Active(q) /\ key[q] # NoId /\ issued <= IdSpace
           => requests[key[q]] = q \/ buf[q] # NoReply
  BY DEF CorrelationInv, NoLostWakeup
<1> DEFINE Goal == requests'[key'[q]] = q \/ buf'[q] # NoReply
<1>1. ASSUME NEW p \in Callers, NEW o \in Ops, Refuse(p, o) \/ SendClosed(p, o)
      PROVE  Goal
  BY <1>0, <1>1, SessionAssumption DEF Refuse, SendClosed, Return, Active, TypeOK,
     UseNextId, idVars
<1>2. ASSUME NEW p \in Callers, NEW o \in Ops, Insert(p, o) PROVE Goal
  <2>1. CASE q = p
    BY <1>0, <1>2, <2>1 DEF Insert, TypeOK, KeyFor, Keys
  <2>2. CASE q # p
    <3>1. UNCHANGED <<pc[q], key[q], buf[q]>> /\ issued <= IdSpace
      BY <1>0, <1>2, <2>2, SessionAssumption DEF Insert, TypeOK, UseNextId
    <3>2. requests[key[q]] = q \/ buf[q] # NoReply
      BY <1>0, <3>1 DEF Active
    <3>3. CASE o = "init"
      BY <1>0, <1>2, <3>1, <3>2, <3>3 DEF Insert, KeyFor, TypeOK
    <3>4. CASE o # "init"
      <4>1. issued + 1 <= IdSpace
        BY <1>2, <3>4 DEF Insert, UseNextId
      <4>2. Placed(next_req_id, issued, key[q], ser[q])
        BY <3>1 DEF CorrelationInv, CallsOK, CallOK
      <4>3. key[q] # next_req_id
        BY <1>0, <4>1, <4>2, FreshLate, SessionAssumption DEF Late, Placed, TypeOK
      <4> QED
        BY <1>0, <1>2, <3>1, <3>2, <3>4, <4>3 DEF Insert, KeyFor, TypeOK
    <3> QED
      BY <3>3, <3>4
  <2> QED
    BY <2>1, <2>2
<1>3. ASSUME NEW p \in Callers, Enqueue(p) \/ Expire(p) PROVE Goal
  BY <1>0, <1>3 DEF Enqueue, Expire, Active, TypeOK, idVars
<1>4. ASSUME NEW p \in Callers, EnqueueFails(p) \/ Drop(p) PROVE Goal
  BY <1>0, <1>4 DEF EnqueueFails, Drop, WithoutReceiver, Return, Active, TypeOK,
     idVars
<1>5. ASSUME NEW p \in Callers, Recv(p) PROVE Goal
  BY <1>0, <1>5 DEF Recv, Return, Active, TypeOK, idVars
<1>6. ASSUME NEW p \in Callers, RecvNone(p) \/ ExpireReturn(p) PROVE Goal
  <2>1. q # p /\ UNCHANGED <<pc[q], key[q], buf[q], issued>>
    BY <1>0, <1>6 DEF RecvNone, ExpireReturn, Return, Active, TypeOK, idVars
  <2>2. key[p] # key[q]
    BY <2>1, KeysApart
  <2> QED
    BY <1>0, <1>6, <2>1, <2>2 DEF RecvNone, ExpireReturn, Remove, Active, TypeOK
<1>7. ASSUME NEW k \in Keys, NEW kind \in Kinds \cup {"Version"}, NEW s \in Int,
             Reply(k, kind, s)
      PROVE  Goal
  <2>1. UNCHANGED <<pc, key, issued>>
    BY <1>7 DEF Reply, idVars
  <2>2. requests[key[q]] = q \/ buf[q] # NoReply
    BY <1>0, <2>1 DEF Active
  <2>3. CASE requests[k] = q
    <3>1. buf'[q].kind = Validate(k, kind)
      BY <1>0, <1>7, <2>3 DEF Reply, TypeOK
    <3>2. kind \in AllKinds \cup {"Version"}
      BY SessionAssumption
    <3>3. Validate(k, kind) # "NoReply"
      BY <3>2 DEF Validate, AllKinds
    <3> QED
      BY <3>1, <3>3 DEF NoReply
  <2>4. CASE requests[k] # q
    BY <1>0, <1>7, <2>1, <2>2, <2>4 DEF Reply, Remove, TypeOK
  <2> QED
    BY <2>3, <2>4
<1>8. ASSUME NEW r \in atServer, NEW kind \in Kinds \cup {"Version"},
             ReadAnswer(r, kind)
      PROVE  Goal
  BY <1>0, <1>7, <1>8 DEF ReadAnswer, TypeOK, Requests
<1>9. ASSUME NEW k \in Keys, NEW kind \in Kinds \cup {"Version"}, ReadStray(k, kind)
      PROVE  Goal
  BY <1>7, <1>9 DEF ReadStray
<1>10. CASE \/ CloseSession \/ ReaderEof \/ ReaderCancelled
            \/ WriterWrites \/ WriterEnds \/ UNCHANGED vars
  BY <1>0, <1>10 DEF CloseSession, ReaderEof, ReaderCancelled, ReaderEnds,
     WriterWrites, WriterEnds, vars, callVars, idVars, Active
<1> QED
  BY <1>1, <1>2, <1>3, <1>4, <1>5, <1>6, <1>8, <1>9, <1>10 DEF Next, CallStep

(* During the first IdSpace requests no step of another call, no timeout,   *)
(* drop or late reply takes the entry of a waiting call away: the reader    *)
(* can reach it, or has already.                                            *)
THEOREM WaitersReachable == Spec => []NoLostWakeup
<1>1. Init => NoLostWakeup
  BY DEF Init, NoLostWakeup, Active
<1> QED
  BY <1>1, CorrelationInit, CorrelationStep, WakeupStep, PTL DEF Spec

-----------------------------------------------------------------------------
(* The handshake.  Only an init waits under NoId, and only a Version goes   *)
(* there, so the check of reply is enough.                                  *)

Accepted(c) == /\ op[c] = "init"
               /\ buf[c].kind = "Version" \/ (pc[c] = "idle" /\ ret[c] = "Ok")

InitKey(r) == r.key = NoId <=> r.op = "init"
NamesOK == /\ \A r \in atServer : InitKey(r)
           /\ \A r \in QueueSet(outq) : r = Shutdown \/ InitKey(r)

GatedCall(p) ==
  /\ Active(p) => (key[p] = NoId <=> op[p] = "init")
  /\ buf[p].kind = "NoReply" => buf[p] = NoReply
  /\ buf[p].kind = "Version" => op[p] = "init"
  /\ buf[p].kind \in AllKinds \cup {"Version"} => version
  /\ ret[p] = "Ok" => version
Gated == \A p \in Callers : GatedCall(p)

AcceptedOnce == \A p, q \in Callers : Accepted(p) /\ Accepted(q) => p = q

HandshakeInv == NamesOK /\ Gated /\ AcceptedOnce

LEMMA ConvertOk ==
  ASSUME NEW o, NEW kind, Convert(o, kind) = "Ok",
         kind \in AllKinds \cup {"Version", "UnexpectedPacket", "DuplicateVersion"}
  PROVE  /\ kind \in AllKinds \cup {"Version"}
         /\ o = "init" => kind = "Version"
<1>1. SuccessOf("init") = "Version"
  BY DEF SuccessOf
<1>2. Expects["init"] = "Version"
  BY <1>1 DEF Expects, AllOps
<1> QED
  BY <1>2 DEF Convert

LEMMA GateLeave ==
  ASSUME TypeOK, HandshakeInv, NEW p \in Callers, NEW res, Return(p, res),
         UNCHANGED <<op, outq, atServer, version>>,
         res = "Ok" => version /\ (op[p] = "init" => Accepted(p))
  PROVE  HandshakeInv'
<1>1. /\ \A q \in Callers \ {p} : UNCHANGED <<pc[q], key[q], buf[q], ret[q]>>
      /\ pc'[p] = "idle" /\ buf'[p] = NoReply /\ ret'[p] = res
  BY DEF Return, TypeOK
<1>2. NamesOK'
  BY DEF HandshakeInv, NamesOK, InitKey
<1>3. Gated'
  <2> SUFFICES ASSUME NEW q \in Callers PROVE GatedCall(q)'
    BY DEF Gated
  <2>1. CASE q = p
    BY <1>1, <2>1 DEF GatedCall, Active, NoReply, AllKinds
  <2>2. CASE q # p
    BY <1>1, <2>2 DEF HandshakeInv, Gated, GatedCall, Active
  <2> QED
    BY <2>1, <2>2
<1>4. \A q \in Callers : Accepted(q)' => Accepted(q)
  BY <1>1 DEF Accepted, NoReply
<1> QED
  BY <1>2, <1>3, <1>4 DEF HandshakeInv, AcceptedOnce

LEMMA GateInsert ==
  ASSUME TypeOK, HandshakeInv, NEW p \in Callers, NEW o \in Ops, Insert(p, o)
  PROVE  HandshakeInv'
<1>1. /\ \A q \in Callers \ {p} : UNCHANGED <<pc[q], op[q], key[q], buf[q], ret[q]>>
      /\ pc'[p] = "inserted" /\ op'[p] = o /\ key'[p] = KeyFor(o)
      /\ buf'[p] = NoReply /\ ret'[p] = "none" /\ UNCHANGED <<outq, atServer, version>>
  BY DEF Insert, TypeOK, taskVars, srvVars
<1>2. KeyFor(o) = NoId <=> o = "init"
  BY SessionAssumption DEF KeyFor, TypeOK, Ids, NoId
<1>3. NamesOK'
  BY <1>1 DEF HandshakeInv, NamesOK, InitKey
<1>4. Gated'
  <2> SUFFICES ASSUME NEW q \in Callers PROVE GatedCall(q)'
    BY DEF Gated
  <2>1. CASE q = p
    BY <1>1, <1>2, <2>1 DEF GatedCall, NoReply, AllKinds
  <2>2. CASE q # p
    BY <1>1, <2>2 DEF HandshakeInv, Gated, GatedCall, Active
  <2> QED
    BY <2>1, <2>2
<1>5. \A q \in Callers : Accepted(q)' => Accepted(q)
  BY <1>1 DEF Accepted, NoReply
<1> QED
  BY <1>3, <1>4, <1>5 DEF HandshakeInv, AcceptedOnce

LEMMA GateReply ==
  ASSUME TypeOK, RegisteredLive, HandshakeInv, NEW k \in Keys,
         NEW kind \in Kinds \cup {"Version"}, NEW s,
         (kind = "Version") <=> (k = NoId), Reply(k, kind, s),
         atServer' \subseteq atServer
  PROVE  HandshakeInv'
<1> DEFINE c == requests[k]
<1>0. UNCHANGED <<pc, op, key, ret, outq>>
  BY DEF Reply, taskVars
<1>1. NamesOK'
  BY <1>0 DEF HandshakeInv, NamesOK, InitKey
<1>2. CASE c \in Callers
  <2>1. /\ buf'[c].kind = Validate(k, kind) /\ version' = (version \/ k = NoId)
        /\ \A q \in Callers \ {c} : buf'[q] = buf[q]
    BY <1>2 DEF Reply, TypeOK
  <2>2. key[c] = k /\ Active(c) /\ buf[c] = NoReply
    BY <1>2 DEF RegisteredLive
  <2>3. op[c] = "init" <=> k = NoId
    BY <1>2, <2>2 DEF HandshakeInv, Gated, GatedCall
  <2>4. kind \in AllKinds \cup {"Version"}
    BY SessionAssumption
  <2>5. /\ Validate(k, kind) # "NoReply"
        /\ Validate(k, kind) = "Version" => k = NoId /\ ~version
        /\ Validate(k, kind) \in AllKinds => version
    BY <2>4 DEF Validate, AllKinds
  <2> HIDE DEF c
  <2>6. version \in BOOLEAN /\ version => version'
    BY <2>1 DEF TypeOK
  <2>7. Gated'
    <3> SUFFICES ASSUME NEW q \in Callers PROVE GatedCall(q)'
      BY DEF Gated
    <3>1. CASE q = c
      BY <1>0, <2>1, <2>2, <2>3, <2>5, <2>6, <3>1
         DEF HandshakeInv, Gated, GatedCall, Active
    <3>2. CASE q # c
      BY <1>0, <2>1, <2>6, <3>2 DEF HandshakeInv, Gated, GatedCall, Active
    <3> QED
      BY <3>1, <3>2
  <2>8. \A q \in Callers : Accepted(q) => version
    BY DEF HandshakeInv, Gated, GatedCall, Accepted
  <2>9. ASSUME NEW q \in Callers, Accepted(q)' PROVE Accepted(q) \/ (q = c /\ ~version)
    BY <1>0, <2>1, <2>5, <2>9 DEF Accepted
  <2>10. AcceptedOnce'
    BY <2>8, <2>9 DEF HandshakeInv, AcceptedOnce
  <2> QED
    BY <1>1, <2>7, <2>10 DEF HandshakeInv
<1>3. CASE c \notin Callers
  BY <1>0, <1>1, <1>3
     DEF Reply, HandshakeInv, Gated, GatedCall, Active, AcceptedOnce, Accepted
<1> QED
  BY <1>2, <1>3

LEMMA HandshakeStep ==
  CorrelationInv /\ HandshakeInv /\ [Next]_vars => HandshakeInv'
<1> SUFFICES ASSUME CorrelationInv, HandshakeInv, [Next]_vars PROVE HandshakeInv'
  OBVIOUS
<1>0. TypeOK /\ RegisteredLive
  BY DEF CorrelationInv
<1>1. ASSUME NEW p \in Callers, NEW o \in Ops, Refuse(p, o) \/ SendClosed(p, o)
      PROVE  HandshakeInv'
  BY <1>0, <1>1, GateLeave DEF Refuse, SendClosed, taskVars, srvVars
<1>2. ASSUME NEW p \in Callers, NEW o \in Ops, Insert(p, o) PROVE HandshakeInv'
  BY <1>0, <1>2, GateInsert
<1>3. ASSUME NEW p \in Callers,
             EnqueueFails(p) \/ RecvNone(p) \/ ExpireReturn(p) \/ Drop(p)
      PROVE  HandshakeInv'
  BY <1>0, <1>3, GateLeave DEF EnqueueFails, RecvNone, ExpireReturn, Drop, taskVars,
     srvVars
<1>4. ASSUME NEW p \in Callers, Recv(p) PROVE HandshakeInv'
  <2>1. GatedCall(p) /\ buf[p] # NoReply /\ buf[p] \in Replies
    BY <1>0, <1>4 DEF HandshakeInv, Gated, Recv, TypeOK
  <2>2. buf[p].kind \in AllKinds \cup {"Version", "UnexpectedPacket", "DuplicateVersion"}
    BY <2>1 DEF GatedCall, Replies
  <2>3. Convert(op[p], buf[p].kind) = "Ok" => version /\ (op[p] = "init" => Accepted(p))
    BY <2>1, <2>2, ConvertOk DEF GatedCall, Accepted
  <2> QED
    BY <1>0, <1>4, <2>3, GateLeave DEF Recv, taskVars, srvVars
<1>5. ASSUME UNCHANGED <<op, key, buf, ret, version>>, NamesOK',
             \A p \in Callers : (Active(p)' <=> Active(p)) /\ (pc'[p] = "idle" => pc[p] = "idle")
      PROVE  HandshakeInv'
  BY <1>5 DEF HandshakeInv, Gated, GatedCall, AcceptedOnce, Accepted
<1>6. ASSUME NEW p \in Callers, Enqueue(p) PROVE HandshakeInv'
  <2> DEFINE r == [op |-> op[p], key |-> key[p], ser |-> ser[p]]
  <2>1. r \in Requests /\ InitKey(r)
    BY <1>0, <1>6 DEF Enqueue, TypeOK, Requests, InitKey, HandshakeInv, Gated, GatedCall,
       Active
  <2> HIDE DEF r
  <2>2. outq' = Append(outq, r) /\ UNCHANGED atServer
    BY <1>6 DEF Enqueue, srvVars, r
  <2>3. QueueSet(outq') = QueueSet(outq) \cup {r}
    BY <1>0, <2>1, <2>2, QueueAppend DEF TypeOK
  <2>4. NamesOK'
    BY <2>1, <2>2, <2>3 DEF HandshakeInv, NamesOK, InitKey
  <2> QED
    BY <1>0, <1>5, <1>6, <2>4 DEF Enqueue, Active, TypeOK
<1>7. ASSUME NEW p \in Callers, Expire(p) PROVE HandshakeInv'
  <2>1. NamesOK'
    BY <1>7 DEF Expire, taskVars, srvVars, HandshakeInv, NamesOK, InitKey
  <2> QED
    BY <1>0, <1>5, <1>7, <2>1 DEF Expire, Active, TypeOK
<1>8. CASE CloseSession
  <2>0. Shutdown \in Requests
    BY DEF Shutdown, Requests, Keys
  <2>1. QueueSet(outq') = QueueSet(outq) \cup {Shutdown}
    BY <1>0, <1>8, <2>0, QueueAppend DEF CloseSession, TypeOK
  <2>2. NamesOK'
    BY <1>8, <2>1 DEF CloseSession, srvVars, HandshakeInv, NamesOK, InitKey
  <2> QED
    BY <1>5, <1>8, <2>2 DEF CloseSession, callVars, Active
<1>9. ASSUME NEW r \in atServer, NEW kind \in Kinds \cup {"Version"}, ReadAnswer(r, kind)
      PROVE  HandshakeInv'
  <2>1. r.key \in Keys /\ InitKey(r)
    BY <1>0 DEF TypeOK, Requests, HandshakeInv, NamesOK
  <2>2. /\ Reply(r.key, kind, r.ser) /\ atServer' \subseteq atServer
        /\ kind = "Version" <=> r.key = NoId
    BY <1>9, <2>1 DEF ReadAnswer, InitKey
  <2> QED
    BY <1>0, <2>1, <2>2, GateReply
<1>10. ASSUME NEW k \in Keys, NEW kind \in Kinds \cup {"Version"}, ReadStray(k, kind)
       PROVE  HandshakeInv'
  BY <1>0, <1>10, GateReply DEF ReadStray
<1>11. CASE ReaderEof \/ ReaderCancelled \/ UNCHANGED vars
  <2>1. UNCHANGED <<callVars, version, outq, atServer>>
    BY <1>11 DEF ReaderEof, ReaderCancelled, ReaderEnds, vars, taskVars, srvVars
  <2>2. NamesOK'
    BY <2>1 DEF HandshakeInv, NamesOK, InitKey
  <2> QED
    BY <1>5, <2>1, <2>2 DEF callVars, Active
<1>12. CASE WriterWrites
  <2>1. QueueSet(outq') \subseteq QueueSet(outq) /\ Head(outq) \in QueueSet(outq)
    BY <1>0, <1>12, QueueTail DEF WriterWrites, TypeOK
  <2>2. InitKey(Head(outq))
    BY <1>12, <2>1 DEF WriterWrites, HandshakeInv, NamesOK
  <2>3. NamesOK'
    BY <1>12, <2>1, <2>2 DEF WriterWrites, HandshakeInv, NamesOK, InitKey
  <2> QED
    BY <1>5, <1>12, <2>3 DEF WriterWrites, callVars, Active
<1>13. CASE WriterEnds
  <2>1. QueueSet(outq') = {}
    BY <1>13 DEF WriterEnds, QueueSet
  <2>2. NamesOK'
    BY <1>13, <2>1 DEF WriterEnds, srvVars, HandshakeInv, NamesOK, InitKey
  <2> QED
    BY <1>5, <1>13, <2>2 DEF WriterEnds, callVars, Active
<1> QED
  BY <1>1, <1>2, <1>3, <1>4, <1>6, <1>7, <1>8, <1>9, <1>10, <1>11, <1>12, <1>13
     DEF Next, CallStep

LEMMA HandshakeInit == Init => HandshakeInv
<1> SUFFICES ASSUME Init PROVE HandshakeInv
  OBVIOUS
<1>1. QueueSet(outq) = {} /\ atServer = {}
  BY DEF Init, QueueSet
<1>2. NamesOK
  BY <1>1 DEF NamesOK
<1>3. Gated
  BY DEF Init, Gated, GatedCall, Active, NoReply, AllKinds
<1>4. AcceptedOnce
  BY DEF Init, AcceptedOnce, Accepted, NoReply
<1> QED
  BY <1>2, <1>3, <1>4 DEF HandshakeInv

(* Before the reader has handed a Version to an init, no call is given a    *)
(* packet of the server and none returns Ok: the check in reply cannot be   *)
(* passed by a race of calls with the handshake.                            *)
THEOREM HandshakeGates == Spec => []VersionFirst
<1>1. HandshakeInv => VersionFirst
  BY DEF HandshakeInv, Gated, GatedCall, VersionFirst
<1> QED
  BY <1>1, CorrelationInit, CorrelationStep, HandshakeInit, HandshakeStep, PTL DEF Spec

(* Any number of inits may race, be dropped or time out: at most one of     *)
(* them has a Version accepted.                                             *)
THEOREM VersionOnce == Spec => []OneVersion
<1>1. HandshakeInv => OneVersion
  BY DEF HandshakeInv, AcceptedOnce, Accepted, OneVersion
<1> QED
  BY <1>1, CorrelationInit, CorrelationStep, HandshakeInit, HandshakeStep, PTL DEF Spec

-----------------------------------------------------------------------------
(* The handle limit *)

LEMMA OpeningFinite ==
  /\ IsFiniteSet(Opening) /\ Cardinality(Opening) \in Nat
  /\ Cardinality(Callers) \in Nat /\ Cardinality(Opening) <= Cardinality(Callers)
BY SessionAssumption, FS_Subset, FS_CardinalityType DEF Opening

LEMMA OpeningFiniteNext ==
  /\ IsFiniteSet(Opening') /\ Cardinality(Opening') \in Nat
  /\ Cardinality(Opening') <= Cardinality(Callers)
<1>1. Opening' \in SUBSET Callers
  BY DEF Opening
<1> QED
  BY <1>1, SessionAssumption, FS_Subset, FS_CardinalityType

(* A step that takes no new open on board cannot raise the bound. *)
LEMMA NoNewOpen ==
  ASSUME TypeOK, HandleBound, handles' \in Nat,
         \/ Opening' \subseteq Opening /\ handles' <= handles
         \/ \E p \in Opening : Opening' = Opening \ {p} /\ handles' <= handles + 1
  PROVE  HandleBound'
<1>1. CASE Opening' \subseteq Opening /\ handles' <= handles
  <2>1. Cardinality(Opening') <= Cardinality(Opening)
    BY <1>1, OpeningFinite, FS_Subset
  <2> QED
    BY <1>1, <2>1, OpeningFinite, OpeningFiniteNext, SessionAssumption
       DEF HandleBound, TypeOK
<1>2. ASSUME NEW p \in Opening, Opening' = Opening \ {p}, handles' <= handles + 1
      PROVE  HandleBound'
  <2>1. Cardinality(Opening') = Cardinality(Opening) - 1
    BY <1>2, OpeningFinite, FS_RemoveElement
  <2> QED
    BY <1>2, <2>1, OpeningFinite, OpeningFiniteNext, SessionAssumption
       DEF HandleBound, TypeOK
<1> QED
  BY <1>1, <1>2

LEMMA HandleStep == TypeOK /\ HandleBound /\ [Next]_vars => HandleBound'
<1> SUFFICES ASSUME TypeOK, HandleBound, [Next]_vars PROVE HandleBound'
  OBVIOUS
<1>0. handles' \in Nat /\ handles \in Nat
  BY TypeStep DEF TypeOK
<1>1. ASSUME NEW p \in Callers, NEW o \in Ops, Refuse(p, o) \/ SendClosed(p, o)
      PROVE  HandleBound'
  <2>1. Opening' \subseteq Opening /\ handles' <= handles
    BY <1>0, <1>1 DEF Refuse, SendClosed, Return, Opening, Active, TypeOK
  <2> QED
    BY <1>0, <2>1, NoNewOpen
<1>2. ASSUME NEW p \in Callers, NEW o \in Ops, Insert(p, o) PROVE HandleBound'
  <2>1. CASE o \in OpenOps
    BY <1>0, <1>2, <2>1, OpeningFinite, OpeningFiniteNext, SessionAssumption
       DEF HandleBound, Insert, LimitReached
  <2>2. CASE o \notin OpenOps
    <3>1. Opening' \subseteq Opening /\ handles' <= handles
      BY <1>0, <1>2, <2>2 DEF Insert, Opening, Active, TypeOK
    <3> QED
      BY <1>0, <3>1, NoNewOpen
  <2> QED
    BY <2>1, <2>2
<1>3. ASSUME NEW p \in Callers, Recv(p) PROVE HandleBound'
  <2>1. CASE p \in Opening
    <3>1. Opening' = Opening \ {p}
      BY <1>3 DEF Recv, Return, Opening, Active, TypeOK
    <3>2. handles' <= handles + 1
      BY <1>0, <1>3 DEF Recv, HandlesAfter
    <3> QED
      BY <1>0, <2>1, <3>1, <3>2, NoNewOpen
  <2>2. CASE p \notin Opening
    <3>1. Opening' \subseteq Opening
      BY <1>3 DEF Recv, Return, Opening, Active, TypeOK
    <3>2. handles' <= handles
      BY <1>0, <1>3, <2>2 DEF Recv, HandlesAfter, Opening, Active
    <3> QED
      BY <1>0, <3>1, <3>2, NoNewOpen
  <2> QED
    BY <2>1, <2>2
<1>4. ASSUME NEW p \in Callers,
             \/ Enqueue(p) \/ EnqueueFails(p) \/ RecvNone(p) \/ Expire(p)
             \/ ExpireReturn(p) \/ Drop(p)
      PROVE  HandleBound'
  <2>1. Opening' \subseteq Opening /\ handles' <= handles
    BY <1>0, <1>4 DEF Enqueue, EnqueueFails, RecvNone, Expire, ExpireReturn, Drop,
       Return, Opening, Active, TypeOK
  <2> QED
    BY <1>0, <2>1, NoNewOpen
<1>5. CASE \/ CloseSession \/ ReaderEof \/ ReaderCancelled
           \/ WriterWrites \/ WriterEnds \/ UNCHANGED vars
           \/ \E k, kind, s : Reply(k, kind, s)
  <2>1. Opening' = Opening /\ handles' = handles
    BY <1>5 DEF CloseSession, ReaderEof, ReaderCancelled, ReaderEnds, WriterWrites,
       WriterEnds, Reply, vars, callVars, Opening, Active
  <2> QED
    BY <1>0, <2>1, NoNewOpen
<1>6. ASSUME NEW r, NEW kind, ReadAnswer(r, kind) PROVE HandleBound'
  BY <1>5, <1>6 DEF ReadAnswer
<1>7. ASSUME NEW k, NEW kind, ReadStray(k, kind) PROVE HandleBound'
  BY <1>5, <1>7 DEF ReadStray
<1> QED
  BY <1>1, <1>2, <1>3, <1>4, <1>5, <1>6, <1>7 DEF Next, CallStep

(* The check of max_open_handles in open and opendir and the count they     *)
(* take later are apart, but whatever the interleaving the count exceeds    *)
(* the limit by at most one handle for each other task.                     *)
THEOREM HandlesBounded == Spec => []HandleBound
<1>1. Init => HandleBound
  <2> SUFFICES ASSUME Init PROVE HandleBound
    OBVIOUS
  <2>1. Opening = {}
    BY DEF Init, Opening, Active
  <2>2. Cardinality(Callers) # 0
    BY SessionAssumption, FS_EmptySet
  <2> QED
    BY <2>1, <2>2, OpeningFinite, FS_EmptySet, SessionAssumption DEF Init, HandleBound
<1> QED
  BY <1>1, TypeInit, TypeStep, HandleStep, PTL DEF Spec
=============================================================================
