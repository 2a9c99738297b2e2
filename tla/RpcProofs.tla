------------------------------ MODULE RpcProofs ------------------------------
(* RawSession implements Rpc, for every number of callers and of ids. *)
EXTENDS RawSessionProofs

(* A request is in one place at a time: with its call until it is queued,   *)
(* in the queue once, then at the server.  So an answer, and a send that    *)
(* fails, take the one copy of it away.                                     *)
QueuedOnce ==
  \A i, j \in 1 .. Len(outq) : outq[i].ser > 0 /\ outq[i].ser = outq[j].ser => i = j
SentOnce ==
  \A r, u \in atServer : r.ser > 0 /\ r.ser = u.ser => r = u
QueuedOrSent ==
  \A r \in atServer, i \in 1 .. Len(outq) : r.ser > 0 => outq[i].ser # r.ser
NotYetQueued ==
  \A p \in Callers : pc[p] = "inserted" /\ ser[p] > 0 =>
    \A r \in OnWire : r.ser # ser[p]

(* The empty packet is nobody's request. *)
MarkersOnly == \A r \in OnWire : r.op = "shutdown" => r = Shutdown

WireInv == QueuedOnce /\ SentOnce /\ QueuedOrSent /\ NotYetQueued /\ MarkersOnly

(* Nothing new on the wire, no call that is new. *)
LEMMA WireShrinks ==
  ASSUME WireInv, outq' = outq, atServer' \subseteq atServer,
         \A q \in Callers : pc'[q] = "inserted" => pc[q] = "inserted" /\ ser'[q] = ser[q]
  PROVE  WireInv'
<1>0. OnWire' \subseteq OnWire
  BY DEF OnWire
<1>1. QueuedOnce' /\ SentOnce' /\ QueuedOrSent'
  BY DEF WireInv, QueuedOnce, SentOnce, QueuedOrSent
<1>2. NotYetQueued' /\ MarkersOnly'
  BY <1>0 DEF WireInv, NotYetQueued, MarkersOnly, Shutdown
<1> QED
  BY <1>1, <1>2 DEF WireInv

LEMMA WireInsert ==
  ASSUME CorrelationInv, WireInv, NEW p \in Callers, NEW o \in Ops, Insert(p, o)
  PROVE  WireInv'
<1>0. outq' = outq /\ atServer' = atServer /\ OnWire' = OnWire
  BY DEF Insert, taskVars, srvVars, OnWire
<1>1. QueuedOnce' /\ SentOnce' /\ QueuedOrSent' /\ MarkersOnly'
  BY <1>0 DEF WireInv, QueuedOnce, SentOnce, QueuedOrSent, MarkersOnly, Shutdown
<1>2. ASSUME NEW r \in OnWire PROVE r.ser <= issued
  <2>1. RecordOK(r) /\ r \in Requests /\ issued \in Nat
    BY WireType DEF CorrelationInv, RecordsOK, TypeOK
  <2> QED
    BY <2>1 DEF RecordOK, Placed, Requests
<1>3. ~(Serial(o) > 0) \/ Serial(o) = issued + 1
  BY DEF Serial, CorrelationInv, TypeOK
<1>4. NotYetQueued'
  <2> SUFFICES ASSUME NEW q \in Callers, pc'[q] = "inserted", ser'[q] > 0,
                      NEW r \in OnWire
               PROVE  r.ser # ser'[q]
    BY <1>0 DEF NotYetQueued
  <2>1. CASE q = p
    <3>1. issued \in Nat /\ r.ser \in Int
      BY WireType DEF CorrelationInv, TypeOK, Requests
    <3>2. ser'[q] = Serial(o)
      BY <2>1 DEF Insert, CorrelationInv, TypeOK
    <3> QED
      BY <1>2, <1>3, <3>1, <3>2
  <2>2. CASE q # p
    BY <2>2 DEF Insert, CorrelationInv, TypeOK, WireInv, NotYetQueued
  <2> QED
    BY <2>1, <2>2
<1> QED
  BY <1>1, <1>4 DEF WireInv

(* A packet joins the queue: the marker, or a request not there before.     *)
LEMMA WireAppend ==
  ASSUME TypeOK, WireInv, NEW e \in Requests, outq' = Append(outq, e), atServer' = atServer,
         e.op = "shutdown" => e = Shutdown,
         e.ser > 0 => \A r \in OnWire : r.ser # e.ser,
         \A q \in Callers : pc'[q] = "inserted" /\ ser'[q] > 0 =>
            pc[q] = "inserted" /\ ser'[q] = ser[q] /\ ser[q] # e.ser
  PROVE  WireInv'
<1>0. outq \in Seq(Requests) /\ Len(outq) \in Nat
  BY DEF TypeOK
<1>1. OnWire' = OnWire \cup {e}
  BY <1>0, QueueAppend DEF OnWire
<1>2. /\ Len(outq') = Len(outq) + 1
      /\ \A i \in 1 .. Len(outq) : outq'[i] = outq[i] /\ outq[i] \in OnWire
      /\ outq'[Len(outq) + 1] = e
  BY <1>0 DEF OnWire, QueueSet
<1>3. QueuedOnce'
  <2> SUFFICES ASSUME NEW i \in 1 .. Len(outq) + 1, NEW j \in 1 .. Len(outq) + 1,
                      outq'[i].ser > 0, outq'[i].ser = outq'[j].ser
               PROVE  i = j
    BY <1>2 DEF QueuedOnce
  <2>1. CASE i \in 1 .. Len(outq) /\ j \in 1 .. Len(outq)
    BY <1>2, <2>1 DEF WireInv, QueuedOnce
  <2>2. CASE i = Len(outq) + 1 /\ j \in 1 .. Len(outq)
    BY <1>2, <2>2
  <2>3. CASE j = Len(outq) + 1 /\ i \in 1 .. Len(outq)
    BY <1>2, <2>3
  <2>4. CASE i = Len(outq) + 1 /\ j = Len(outq) + 1
    BY <2>4
  <2> QED
    BY <1>0, <2>1, <2>2, <2>3, <2>4
<1>4. SentOnce'
  BY DEF WireInv, SentOnce
<1>5. QueuedOrSent'
  <2> SUFFICES ASSUME NEW r \in atServer, NEW i \in 1 .. Len(outq) + 1, r.ser > 0
               PROVE  outq'[i].ser # r.ser
    BY <1>2 DEF QueuedOrSent
  <2>1. CASE i \in 1 .. Len(outq)
    BY <1>2, <2>1 DEF WireInv, QueuedOrSent
  <2>2. CASE i = Len(outq) + 1
    BY <1>2, <2>2 DEF OnWire
  <2> QED
    BY <1>0, <2>1, <2>2
<1>6. NotYetQueued'
  BY <1>1 DEF WireInv, NotYetQueued
<1>7. MarkersOnly'
  BY <1>1 DEF WireInv, MarkersOnly, Shutdown
<1> QED
  BY <1>3, <1>4, <1>5, <1>6, <1>7 DEF WireInv

LEMMA WireWritten ==
  ASSUME TypeOK, WireInv, WriterWrites
  PROVE  WireInv'
<1> DEFINE h == Head(outq)
<1>0. outq \in Seq(Requests) /\ outq # <<>> /\ Len(outq) \in Nat
  BY DEF TypeOK, WriterWrites
<1>1. /\ Len(outq') = Len(outq) - 1 /\ h = outq[1] /\ 1 \in 1 .. Len(outq)
      /\ \A i \in 1 .. Len(outq') : outq'[i] = outq[i + 1] /\ i + 1 \in 1 .. Len(outq)
  BY <1>0 DEF WriterWrites
<1>2. atServer' \subseteq atServer \cup {h} /\ UNCHANGED <<pc, ser>>
  BY DEF WriterWrites, callVars
<1>3. h \in OnWire /\ OnWire' \subseteq OnWire
  <2>1. QueueSet(outq') \subseteq QueueSet(outq) /\ h \in QueueSet(outq)
    BY <1>0, QueueTail DEF WriterWrites
  <2> QED
    BY <1>2, <2>1 DEF OnWire
<1>4. \A i \in 1 .. Len(outq') : h.ser > 0 => outq'[i].ser # h.ser
  BY <1>1 DEF WireInv, QueuedOnce
<1>5. \A r \in atServer : r.ser > 0 => r.ser # h.ser
  BY <1>1 DEF WireInv, QueuedOrSent
<1> HIDE DEF h
<1>6. QueuedOnce'
  <2> SUFFICES ASSUME NEW i \in 1 .. Len(outq'), NEW j \in 1 .. Len(outq'),
                      outq'[i].ser > 0, outq'[i].ser = outq'[j].ser
               PROVE  i = j
    BY DEF QueuedOnce
  <2>1. i + 1 = j + 1
    BY <1>1 DEF WireInv, QueuedOnce
  <2> QED
    BY <2>1
<1>7. SentOnce'
  BY <1>2, <1>5 DEF WireInv, SentOnce
<1>8. QueuedOrSent'
  BY <1>1, <1>2, <1>4 DEF WireInv, QueuedOrSent
<1>9. NotYetQueued' /\ MarkersOnly'
  BY <1>2, <1>3 DEF WireInv, NotYetQueued, MarkersOnly, Shutdown
<1> QED
  BY <1>6, <1>7, <1>8, <1>9 DEF WireInv

LEMMA WireStep == CorrelationInv /\ WireInv /\ [Next]_vars => WireInv'
<1> SUFFICES ASSUME CorrelationInv, WireInv, [Next]_vars PROVE WireInv'
  OBVIOUS
<1>0. TypeOK
  BY DEF CorrelationInv
<1>1. ASSUME NEW p \in Callers, NEW res, Return(p, res), UNCHANGED <<outq, atServer>>
      PROVE  WireInv'
  <2>1. \A q \in Callers : pc'[q] = "inserted" => pc[q] = "inserted" /\ ser'[q] = ser[q]
    BY <1>0, <1>1 DEF Return, TypeOK
  <2> QED
    BY <1>1, <2>1, WireShrinks
<1>2. ASSUME NEW p \in Callers, NEW o \in Ops, Refuse(p, o) \/ SendClosed(p, o)
      PROVE  WireInv'
  BY <1>1, <1>2 DEF Refuse, SendClosed, taskVars, srvVars
<1>3. ASSUME NEW p \in Callers, NEW o \in Ops, Insert(p, o) PROVE WireInv'
  BY <1>3, WireInsert
<1>4. ASSUME NEW p \in Callers, Enqueue(p) PROVE WireInv'
  <2> DEFINE e == [op |-> op[p], key |-> key[p], ser |-> ser[p]]
  <2>1. /\ e \in Requests /\ e.ser = ser[p] /\ e.op # "shutdown"
        /\ outq' = Append(outq, e) /\ atServer' = atServer
    BY <1>0, <1>4, SessionAssumption DEF Enqueue, TypeOK, Requests, srvVars, AllOps,
       FileOps, StatOps, DirOps, PathOps, ExtOps
  <2>2. e.ser > 0 => \A r \in OnWire : r.ser # e.ser
    BY <1>4, <2>1 DEF WireInv, NotYetQueued, Enqueue
  <2>3. ASSUME NEW q \in Callers, pc'[q] = "inserted", ser'[q] > 0
        PROVE  pc[q] = "inserted" /\ ser'[q] = ser[q] /\ ser[q] # e.ser
    <3>1. q # p /\ pc[q] = "inserted" /\ ser'[q] = ser[q]
      BY <1>0, <1>4, <2>3 DEF Enqueue, TypeOK
    <3> QED
      BY <2>1, <2>3, <3>1 DEF CorrelationInv, Distinct
  <2> HIDE DEF e
  <2> QED
    BY <1>0, <2>1, <2>2, <2>3, WireAppend
<1>5. ASSUME NEW p \in Callers,
             EnqueueFails(p) \/ Recv(p) \/ RecvNone(p) \/ ExpireReturn(p) \/ Drop(p)
      PROVE  WireInv'
  BY <1>1, <1>5 DEF EnqueueFails, Recv, RecvNone, ExpireReturn, Drop, taskVars, srvVars
<1>6. ASSUME NEW p \in Callers, Expire(p) PROVE WireInv'
  <2>1. /\ outq' = outq /\ atServer' = atServer /\ ser' = ser
        /\ \A q \in Callers : pc'[q] = "inserted" => pc[q] = "inserted"
    BY <1>0, <1>6 DEF Expire, TypeOK, taskVars, srvVars
  <2> QED
    BY <2>1, WireShrinks
<1>7. CASE CloseSession
  <2>1. Shutdown \in Requests /\ Shutdown.ser = 0
    BY DEF Shutdown, Requests, Keys
  <2>2. outq' = Append(outq, Shutdown) /\ UNCHANGED <<atServer, pc, ser>>
    BY <1>7 DEF CloseSession, callVars, srvVars
  <2>3. \A q \in Callers : ser[q] > 0 => ser[q] # 0
    BY <1>0 DEF TypeOK
  <2> QED
    BY <1>0, <2>1, <2>2, <2>3, WireAppend
<1>8. ASSUME NEW k, NEW kind, NEW s, Reply(k, kind, s), atServer' \subseteq atServer
      PROVE  WireInv'
  BY <1>8, WireShrinks DEF Reply, taskVars
<1>9. ASSUME NEW r \in atServer, NEW kind, ReadAnswer(r, kind) PROVE WireInv'
  BY <1>8, <1>9 DEF ReadAnswer
<1>10. ASSUME NEW k \in Keys, NEW kind, ReadStray(k, kind) PROVE WireInv'
  BY <1>8, <1>10 DEF ReadStray
<1>11. CASE ReaderEof \/ ReaderCancelled \/ UNCHANGED vars
  BY <1>11, WireShrinks DEF ReaderEof, ReaderCancelled, ReaderEnds, vars, callVars,
     taskVars, srvVars
<1>12. CASE WriterWrites
  BY <1>0, <1>12, WireWritten
<1>13. CASE WriterEnds
  <2>1. outq' = <<>> /\ UNCHANGED <<atServer, pc, ser>> /\ OnWire' \subseteq OnWire
    BY <1>13 DEF WriterEnds, OnWire, QueueSet, callVars, srvVars
  <2> QED
    BY <2>1 DEF WireInv, QueuedOnce, SentOnce, QueuedOrSent, NotYetQueued, MarkersOnly,
       Shutdown
<1> QED
  BY <1>2, <1>3, <1>4, <1>5, <1>6, <1>7, <1>9, <1>10, <1>11, <1>12, <1>13
     DEF Next, CallStep

LEMMA WireInit == Init => WireInv
BY DEF Init, WireInv, QueuedOnce, SentOnce, QueuedOrSent, NotYetQueued, MarkersOnly,
   OnWire, QueueSet

-----------------------------------------------------------------------------
(* The views *)

RpcInv == CorrelationInv /\ NoLostWakeup /\ HandshakeInv /\ WireInv

RpcVars == <<CallView, ResultView, WireView, issued, version, strays>>

(* A call of a method other than init is under way. *)
InCall(p) == pc[p] # "idle" /\ op[p] # "init"

(* The requests of calls that have not queued them yet. *)
Held == {[op |-> op[p], key |-> key[p], ser |-> ser[p]] :
           p \in {q \in Callers : pc[q] = "inserted"}}

Asks(r) == r.op \notin {"init", "shutdown"}
Asked(r) == [op |-> r.op, num |-> r.ser]

LEMMA WireViewIs ==
  /\ Under = OnWire \cup Held
  /\ WireView = {Asked(r) : r \in {u \in OnWire \cup Held : Asks(u)}}
<1>1. Under = OnWire \cup Held
  BY DEF Under, OnWire, QueueSet, Held
<1> QED
  BY <1>1 DEF WireView, Asks, Asked

LEMMA NoCallIs ==
  /\ Contract!NoCall = [op |-> "none", num |-> 0, answer |-> NoReply]
  /\ Contract!NoAnswer = NoReply
BY DEF Contract!NoCall, Contract!NoAnswer, NoReply

LEMMA OpsNamed ==
  "none" \notin AllOps /\ "shutdown" \notin AllOps /\ "init" \in AllOps
BY DEF AllOps, FileOps, StatOps, DirOps, PathOps, ExtOps

LEMMA InCallIs ==
  ASSUME RpcInv, NEW p \in Callers, InCall(p)
  PROVE  /\ CallView[p] = [op |-> op[p], num |-> ser[p], answer |-> buf[p]]
         /\ CallView[p] # Contract!NoCall
         /\ Active(p) /\ key[p] \in Ids /\ key[p] # NoId
         /\ Placed(next_req_id, issued, key[p], ser[p]) /\ ser[p] \in Int /\ ser[p] > 0
         /\ op[p] \in Ops \ {"init"} /\ op[p] # "shutdown"
<1>0. TypeOK /\ CallOK(p) /\ GatedCall(p)
  BY DEF RpcInv, CorrelationInv, CallsOK, HandshakeInv, Gated
<1>1. op[p] \in Ops \ {"init"} /\ op[p] \in AllOps
  BY <1>0, SessionAssumption DEF InCall, TypeOK
<1>2. CallView[p] = [op |-> op[p], num |-> ser[p], answer |-> buf[p]]
  BY DEF CallView, AsCall, InCall
<1>3. CallView[p] # Contract!NoCall
  BY <1>1, <1>2, OpsNamed, NoCallIs
<1>4. Active(p) /\ key[p] \in Ids /\ key[p] # NoId
  BY <1>0 DEF InCall, TypeOK, Active, GatedCall, Keys
<1>5. Placed(next_req_id, issued, key[p], ser[p]) /\ ser[p] \in Int
  BY <1>0, <1>4 DEF CallOK, TypeOK
<1>6. ser[p] > 0
  BY <1>0, <1>5 DEF Placed, TypeOK
<1> QED
  BY <1>1, <1>2, <1>3, <1>4, <1>5, <1>6, OpsNamed

LEMMA NotInCallIs ==
  ASSUME NEW p \in Callers, ~InCall(p)
  PROVE  CallView[p] = Contract!NoCall
BY NoCallIs DEF CallView, AsCall, InCall

LEMMA ViewDomains ==
  /\ DOMAIN CallView = Callers /\ CallView = [p \in Callers |-> CallView[p]]
  /\ DOMAIN ResultView = Callers /\ ResultView = [p \in Callers |-> ResultView[p]]
BY DEF CallView, ResultView

(* What may be answered on the wire is a request with a number and an id.   *)
LEMMA AskedIs ==
  ASSUME RpcInv, NEW r \in OnWire, Asks(r)
  PROVE  /\ r \in Requests /\ r.key \in Ids /\ r.key # NoId
         /\ Placed(next_req_id, issued, r.key, r.ser) /\ r.ser > 0
         /\ r.op \in Ops \ {"init"}
<1>1. r \in Requests /\ r.op \in Ops \ {"init"} /\ issued \in Nat
  BY WireType DEF RpcInv, CorrelationInv, Requests, Asks, TypeOK
<1>2. InitKey(r)
  BY DEF RpcInv, HandshakeInv, NamesOK, OnWire, Asks, Shutdown
<1>3. r.key \in Ids /\ r.key # NoId
  BY <1>1, <1>2 DEF InitKey, Requests, Keys
<1>4. Placed(next_req_id, issued, r.key, r.ser)
  BY <1>3 DEF RpcInv, CorrelationInv, RecordsOK, RecordOK
<1>5. r.ser > 0
  BY <1>1, <1>4 DEF Placed
<1> QED
  BY <1>1, <1>3, <1>4, <1>5

(* Two requests with one number are one. *)
LEMMA AskedOnce ==
  ASSUME RpcInv, NEW r \in OnWire, NEW u \in OnWire, Asks(r), r.ser = u.ser
  PROVE  r = u
<1>1. r.ser > 0 /\ u.ser > 0
  BY AskedIs
<1>2. CASE r \in atServer /\ u \in atServer
  BY <1>1, <1>2 DEF RpcInv, WireInv, SentOnce
<1>3. CASE r \in atServer /\ u \in QueueSet(outq)
  BY <1>1, <1>3 DEF RpcInv, WireInv, QueuedOrSent, QueueSet
<1>4. CASE u \in atServer /\ r \in QueueSet(outq)
  BY <1>1, <1>4 DEF RpcInv, WireInv, QueuedOrSent, QueueSet
<1>5. CASE r \in QueueSet(outq) /\ u \in QueueSet(outq)
  BY <1>1, <1>5 DEF RpcInv, WireInv, QueuedOnce, QueueSet
<1> QED
  BY <1>2, <1>3, <1>4, <1>5 DEF OnWire

-----------------------------------------------------------------------------
(* The steps *)

LEMMA WireViewNext ==
  WireView' = {Asked(r) : r \in {u \in OnWire' \cup Held' : Asks(u)}}
<1>1. Under' = OnWire' \cup Held'
  BY DEF Under, OnWire, QueueSet, Held
<1> QED
  BY <1>1 DEF WireView, Asks, Asked

(* The request of a call is with it alone until it is queued. *)
LEMMA HeldAlone ==
  ASSUME RpcInv, NEW p \in Callers, pc[p] = "inserted", op[p] # "init",
         NEW r \in OnWire \cup Held, Asks(r), r.ser = ser[p]
  PROVE  r = [op |-> op[p], key |-> key[p], ser |-> ser[p]]
<1>1. ser[p] > 0
  BY InCallIs DEF InCall
<1>2. r \notin OnWire
  BY <1>1 DEF RpcInv, WireInv, NotYetQueued
<1>3. PICK q \in Callers : r = [op |-> op[q], key |-> key[q], ser |-> ser[q]]
  BY <1>2 DEF Held
<1>4. q = p
  BY <1>1, <1>3 DEF RpcInv, CorrelationInv, Distinct
<1> QED
  BY <1>3, <1>4

(* A call ends: Rpc returns the same, and of init it sees nothing.          *)
LEMMA LeaveMaps ==
  ASSUME RpcInv, NEW p \in Callers, NEW res \in Contract!Local \cup Contract!Remote,
         Return(p, res), pc[p] # "idle",
         UNCHANGED <<op, outq, atServer, version, issued, strays>>,
         (pc[p] = "inserted") <=> (res = "SendError"),
         InCall(p) /\ res \in Contract!Remote =>
           buf[p] # NoReply /\ (res = "Ok" <=> Contract!Fits(op[p], buf[p].kind)),
         InCall(p) /\ res = "RecvNone" => issued > IdSpace
  PROVE  [Contract!Next]_RpcVars
<1> DEFINE own == [op |-> op[p], key |-> key[p], ser |-> ser[p]]
<1>0. TypeOK
  BY DEF RpcInv, CorrelationInv
<1>1. CallView' = [CallView EXCEPT ![p] = Contract!NoCall]
  BY <1>0, NoCallIs DEF CallView, AsCall, Return, TypeOK
<1>2. ResultView' = [ResultView EXCEPT ![p] = IF op[p] = "init" THEN "none" ELSE res]
  BY <1>0 DEF ResultView, Return, TypeOK
<1>3. OnWire' = OnWire
  BY DEF OnWire
<1>4. /\ \A q \in Callers \ {p} : UNCHANGED <<pc[q], op[q], key[q], ser[q]>>
      /\ pc'[p] = "idle"
  BY <1>0 DEF Return, TypeOK
<1>5. /\ Held' \subseteq Held
      /\ Held \subseteq Held' \cup {own}
      /\ pc[p] # "inserted" => Held' = Held
      /\ pc[p] = "inserted" => own \in Held
  BY <1>4 DEF Held
<1>6. CASE op[p] = "init"
  <2>1. CallView' = CallView
    BY <1>1, <1>6, NotInCallIs, ViewDomains DEF InCall
  <2>2. ResultView' = ResultView
    BY <1>2, <1>6 DEF ResultView
  <2>3. ~Asks(own)
    BY <1>6 DEF Asks
  <2> HIDE DEF own
  <2>4. WireView' = WireView
    BY <1>3, <1>5, <2>3, WireViewIs, WireViewNext
  <2> QED
    BY <2>1, <2>2, <2>4 DEF RpcVars
<1>7. CASE op[p] # "init"
  <2>1. InCall(p)
    BY <1>7 DEF InCall
  <2>2. /\ CallView[p] # Contract!NoCall
        /\ CallView[p].op = op[p] /\ CallView[p].num = ser[p]
        /\ CallView[p].answer = buf[p] /\ op[p] # "shutdown" /\ ser[p] > 0
    <3>1. CallView[p] = [op |-> op[p], num |-> ser[p], answer |-> buf[p]]
      BY <2>1, InCallIs
    <3>2. CallView[p] # Contract!NoCall /\ op[p] # "shutdown" /\ ser[p] > 0
      BY <2>1, InCallIs
    <3> QED
      BY <3>1, <3>2
  <2>3. WireView' = IF res = "SendError"
                    THEN WireView \ {[op |-> op[p], num |-> ser[p]]} ELSE WireView
    <3>1. CASE res # "SendError"
      BY <1>3, <1>5, <3>1, WireViewIs, WireViewNext
    <3>2. CASE res = "SendError"
      <4>1. pc[p] = "inserted" /\ own.op = op[p] /\ own.ser = ser[p]
        BY <3>2
      <4>2. \A r \in OnWire \cup Held : Asks(r) /\ r.ser = ser[p] => r = own
        BY <1>7, <4>1, HeldAlone
      <4>3. own \notin OnWire \cup Held'
        <5>1. own \notin OnWire
          BY <2>2, <4>1 DEF RpcInv, WireInv, NotYetQueued
        <5>2. ASSUME own \in Held' PROVE FALSE
          <6>1. PICK q \in Callers : /\ pc'[q] = "inserted"
                                     /\ own = [op |-> op'[q], key |-> key'[q], ser |-> ser'[q]]
            BY <5>2 DEF Held
          <6>2. q # p /\ ser[q] = ser[p]
            BY <1>4, <6>1
          <6> QED
            BY <2>2, <6>2 DEF RpcInv, CorrelationInv, Distinct
        <5> QED
          BY <5>1, <5>2
      <4> HIDE DEF own
      <4>4. Asked(own) = [op |-> op[p], num |-> ser[p]]
        BY <4>1 DEF Asked
      <4>5. ASSUME NEW w \in WireView' PROVE w \in WireView /\ w # Asked(own)
        <5>1. PICK r \in OnWire \cup Held' : Asks(r) /\ w = Asked(r)
          BY <1>3, WireViewNext
        <5>2. r \in OnWire \cup Held /\ r # own
          BY <1>5, <4>3, <5>1
        <5>3. r.ser # ser[p]
          BY <4>2, <5>1, <5>2
        <5>4. w # Asked(own)
          BY <4>1, <5>1, <5>3 DEF Asked
        <5> QED
          BY <5>1, <5>2, <5>4, WireViewIs
      <4>6. ASSUME NEW w \in WireView, w # Asked(own) PROVE w \in WireView'
        <5>1. PICK r \in OnWire \cup Held : Asks(r) /\ w = Asked(r)
          BY WireViewIs
        <5>2. r \in OnWire' \cup Held'
          BY <1>3, <1>5, <4>6, <5>1
        <5> QED
          BY <5>1, <5>2, WireViewNext
      <4> QED
        BY <3>2, <4>4, <4>5, <4>6
    <3> QED
      BY <3>1, <3>2
  <2> HIDE DEF own
  <2>4. Contract!Return(p, res)
    BY <1>1, <1>2, <1>7, <2>1, <2>2, <2>3, NoCallIs DEF Contract!Return
  <2> QED
    BY <2>4 DEF Contract!Next
<1> QED
  BY <1>6, <1>7

(* A call is refused before it has a request. *)
LEMMA RefuseMaps ==
  ASSUME RpcInv, NEW p \in Callers, NEW res \in Contract!Local, Return(p, res),
         pc[p] = "idle", UNCHANGED <<op, outq, atServer, version, strays>>,
         issued' \in {issued, issued + 1}
  PROVE  Contract!Next
<1> DEFINE res0 == IF op[p] = "init" THEN "none" ELSE res
<1>0. TypeOK /\ ~InCall(p)
  BY DEF RpcInv, CorrelationInv, InCall
<1>1. CallView' = CallView
  BY <1>0 DEF CallView, AsCall, Return, TypeOK
<1>2. ResultView' = [ResultView EXCEPT ![p] = res0]
  BY <1>0 DEF ResultView, Return, TypeOK
<1>3. OnWire' = OnWire /\ Held' = Held
  BY <1>0 DEF OnWire, Held, Return, TypeOK
<1>4. WireView' = WireView
  BY <1>3, WireViewIs, WireViewNext
<1>5. CallView[p] = Contract!NoCall
  BY <1>0, NotInCallIs
<1>6. res0 \in Contract!Local \cup {"none"}
  OBVIOUS
<1> HIDE DEF res0
<1>7. Contract!Refuse(p, res0)
  BY <1>1, <1>2, <1>4, <1>5 DEF Contract!Refuse
<1> QED
  BY <1>6, <1>7 DEF Contract!Next

(* A call makes its request; an init makes none that Rpc knows of. *)
LEMMA InsertMaps ==
  ASSUME RpcInv, NEW p \in Callers, NEW o \in Ops, Insert(p, o)
  PROVE  Contract!Next
<1> DEFINE own == [op |-> o, key |-> KeyFor(o), ser |-> Serial(o)]
<1>0. TypeOK /\ ~InCall(p) /\ pc[p] = "idle" /\ o # "shutdown"
  BY OpsNamed, SessionAssumption DEF RpcInv, CorrelationInv, InCall, Insert
<1>1. CallView[p] = Contract!NoCall
  BY <1>0, NotInCallIs
<1>2. ResultView' = [ResultView EXCEPT ![p] = "none"]
  BY <1>0 DEF ResultView, Insert, TypeOK
<1>3. OnWire' = OnWire /\ UNCHANGED <<version, strays>>
  BY DEF OnWire, Insert, taskVars, srvVars
<1>4. Held' = Held \cup {own}
  <2>1. /\ pc'[p] = "inserted" /\ op'[p] = o /\ key'[p] = KeyFor(o) /\ ser'[p] = Serial(o)
        /\ \A q \in Callers \ {p} : UNCHANGED <<pc[q], op[q], key[q], ser[q]>>
    BY <1>0 DEF Insert, TypeOK
  <2> QED
    BY <1>0, <2>1 DEF Held
<1>5. CASE o = "init"
  <2>1. CallView' = CallView
    BY <1>0, <1>5 DEF CallView, AsCall, Insert, TypeOK
  <2>2. ~Asks(own)
    BY <1>5 DEF Asks
  <2> HIDE DEF own
  <2>3. WireView' = WireView
    BY <1>3, <1>4, <2>2, WireViewIs, WireViewNext
  <2>4. issued' = issued
    BY <1>5 DEF Insert, UseNextId
  <2>5. Contract!Refuse(p, "none")
    BY <1>1, <1>2, <1>3, <2>1, <2>3, <2>4 DEF Contract!Refuse
  <2> QED
    BY <2>5 DEF Contract!Next
<1>6. CASE o # "init"
  <2>1. issued' = issued + 1 /\ Serial(o) = issued + 1
    BY <1>6 DEF Insert, UseNextId, Serial
  <2>2. CallView' = [CallView EXCEPT ![p] = [op |-> o, num |-> issued + 1,
                                             answer |-> Contract!NoAnswer]]
    BY <1>0, <1>6, <2>1, NoCallIs DEF CallView, AsCall, Insert, TypeOK
  <2>3. Asks(own) /\ Asked(own) = [op |-> o, num |-> issued + 1]
    BY <1>0, <1>6, <2>1 DEF Asks, Asked
  <2> HIDE DEF own
  <2>4. WireView' = WireView \cup {[op |-> o, num |-> issued + 1]}
    BY <1>3, <1>4, <2>3, WireViewIs, WireViewNext
  <2>5. Contract!Call(p, o)
    BY <1>1, <1>2, <1>3, <2>1, <2>2, <2>4 DEF Contract!Call
  <2> QED
    BY <1>6, <2>5 DEF Contract!Next
<1> QED
  BY <1>5, <1>6

(* Steps that only move requests along, or lose them. *)
LEMMA MoveMaps ==
  ASSUME UNCHANGED <<op, ser, buf, ret, issued, version, strays>>,
         \A q \in Callers : pc'[q] = "idle" <=> pc[q] = "idle",
         \A r \in OnWire' \cup Held' : Asks(r) => r \in OnWire \cup Held
  PROVE  Contract!Next
<1>1. CallView' = CallView
  BY DEF CallView, AsCall
<1>2. ResultView' = ResultView
  BY DEF ResultView
<1>3. WireView' \subseteq WireView
  BY WireViewIs, WireViewNext
<1>4. Contract!Lose(WireView \ WireView')
  BY <1>1, <1>2, <1>3 DEF Contract!Lose
<1> QED
  BY <1>4 DEF Contract!Next

(* A packet is handed to the call under k, or dropped. *)
LEMMA HandOver ==
  ASSUME RpcInv, NEW k \in Keys, NEW kind, NEW s, Reply(k, kind, s),
         NEW p \in Callers, requests[k] = p
  PROVE  /\ key[p] = k /\ buf[p] = NoReply
         /\ k = NoId => ~InCall(p) /\ CallView' = CallView
         /\ k # NoId =>
              /\ InCall(p) /\ Contract!Waits(p) /\ version' = version
              /\ CallView[p].num = ser[p]
              /\ CallView' = [CallView EXCEPT
                     ![p].answer = [kind |-> Contract!Given(kind), ser |-> s]]
<1>0. TypeOK /\ RegisteredLive /\ GatedCall(p)
  BY DEF RpcInv, CorrelationInv, HandshakeInv, Gated
<1>1. Active(p) /\ key[p] = k /\ buf[p] = NoReply
  BY <1>0 DEF RegisteredLive
<1>2. /\ UNCHANGED <<pc, op, ser>> /\ version' = (version \/ k = NoId)
      /\ buf' = [buf EXCEPT ![p] = [kind |-> Validate(k, kind), ser |-> s]]
  BY DEF Reply
<1>3. CASE k = NoId
  <2>1. op[p] = "init"
    BY <1>0, <1>1, <1>3 DEF GatedCall
  <2>2. \A q \in Callers \ {p} : buf'[q] = buf[q]
    BY <1>0, <1>2 DEF TypeOK
  <2>3. \A q \in Callers : AsCall(q)' = AsCall(q)
    BY <1>1, <1>2, <2>1, <2>2 DEF AsCall
  <2>4. CallView' = CallView
    BY <2>3 DEF CallView
  <2> QED
    BY <1>1, <1>3, <2>1, <2>4 DEF InCall
<1>4. CASE k # NoId
  <2>1. InCall(p)
    BY <1>0, <1>1, <1>4 DEF GatedCall, InCall, Active
  <2>2. Validate(k, kind) = Contract!Given(kind) /\ version' = version
    BY <1>0, <1>2, <1>4 DEF Validate, Contract!Given, TypeOK
  <2>3. /\ CallView[p] = [op |-> op[p], num |-> ser[p], answer |-> buf[p]]
        /\ CallView[p] # Contract!NoCall
    BY <1>1, <2>1, InCallIs
  <2>4. Contract!Waits(p) /\ CallView[p].num = ser[p]
    BY <1>1, <2>3, NoCallIs DEF Contract!Waits
  <2>5. /\ \A q \in Callers \ {p} : buf'[q] = buf[q]
        /\ buf'[p] = [kind |-> Contract!Given(kind), ser |-> s]
    BY <1>0, <1>1, <1>2, <2>2 DEF TypeOK
  <2>6. \A q \in Callers \ {p} : AsCall(q)' = AsCall(q)
    BY <1>2, <2>5 DEF AsCall
  <2>7. AsCall(p)' = [op |-> op[p], num |-> ser[p],
                      answer |-> [kind |-> Contract!Given(kind), ser |-> s]]
    BY <1>2, <2>1, <2>5 DEF AsCall, InCall
  <2>8. CallView' = [CallView EXCEPT
                       ![p].answer = [kind |-> Contract!Given(kind), ser |-> s]]
    <3> DEFINE a == [kind |-> Contract!Given(kind), ser |-> s]
    <3> HIDE DEF a
    <3>1. AsCall(p)' = [CallView[p] EXCEPT !.answer = a]
      BY <2>3, <2>7 DEF a
    <3>2. CallView' = [CallView EXCEPT ![p] = AsCall(p)']
      BY <2>6 DEF CallView
    <3>3. CallView' = [CallView EXCEPT ![p].answer = a]
      BY <3>1, <3>2
    <3> QED
      BY <3>3 DEF a
  <2> QED
    BY <1>1, <1>4, <2>1, <2>2, <2>4, <2>8
<1> QED
  BY <1>3, <1>4

LEMMA ReplyViews ==
  ASSUME NEW k, NEW kind, NEW s, Reply(k, kind, s)
  PROVE  /\ ResultView' = ResultView /\ Held' = Held /\ outq' = outq /\ issued' = issued
         /\ requests[k] \notin Callers => CallView' = CallView /\ version' = version
BY DEF Reply, ResultView, Held, CallView, AsCall, taskVars, idVars

(* An answer takes the one copy of its request off the wire. *)
LEMMA AnswerTakes ==
  ASSUME RpcInv, NEW r \in atServer, Asks(r), atServer' = atServer \ {r},
         outq' = outq, Held' = Held
  PROVE  Asked(r) \in WireView /\ WireView' = WireView \ {Asked(r)}
<1>0. r \in OnWire /\ r.ser > 0
  BY AskedIs DEF OnWire
<1>1. Asked(r) \in WireView
  BY <1>0, WireViewIs
<1>2. \A i \in 1 .. Len(outq) : outq[i].ser # r.ser
  BY <1>0 DEF RpcInv, WireInv, QueuedOrSent
<1>3. r \notin QueueSet(outq) /\ OnWire' = OnWire \ {r}
  BY <1>2 DEF QueueSet, OnWire
<1>4. ASSUME NEW u \in Held PROVE u.ser # r.ser
  <2>1. PICK q \in Callers : pc[q] = "inserted" /\ u.ser = ser[q]
    BY DEF Held
  <2>2. ser[q] > 0 => ser[q] # r.ser
    BY <1>0, <2>1 DEF RpcInv, WireInv, NotYetQueued
  <2> QED
    BY <1>0, <2>1, <2>2
<1>5. \A u \in OnWire : u.ser = r.ser => u = r
  BY <1>0, AskedOnce
<1>6. ASSUME NEW w \in WireView' PROVE w \in WireView /\ w # Asked(r)
  <2>1. PICK u \in (OnWire \ {r}) \cup Held : Asks(u) /\ w = Asked(u)
    BY <1>3, WireViewNext
  <2>2. u.ser # r.ser
    BY <1>4, <1>5
  <2>3. w # Asked(r)
    BY <2>1, <2>2 DEF Asked
  <2> QED
    BY <2>1, <2>3, WireViewIs
<1>7. ASSUME NEW w \in WireView, w # Asked(r) PROVE w \in WireView'
  <2>1. PICK u \in OnWire \cup Held : Asks(u) /\ w = Asked(u)
    BY WireViewIs
  <2>2. u \in OnWire' \cup Held'
    BY <1>3, <1>7, <2>1
  <2> QED
    BY <2>1, <2>2, WireViewNext
<1> QED
  BY <1>1, <1>6, <1>7

(* While ids are not reused, a request whose call waits is found again.     *)
LEMMA NobodyWaits ==
  ASSUME RpcInv, NEW r \in atServer, Asks(r), requests[r.key] \notin Callers,
         issued <= IdSpace, NEW q \in Callers, Contract!Waits(q),
         CallView[q].num = r.ser
  PROVE  FALSE
<1>0. r \in OnWire /\ TypeOK
  BY DEF OnWire, RpcInv, CorrelationInv
<1>1. r.key \in Ids /\ Placed(next_req_id, issued, r.key, r.ser) /\ r.ser \in Int
  BY <1>0, AskedIs DEF Requests
<1>2. InCall(q)
  BY NotInCallIs DEF Contract!Waits
<1>3. CallView[q] = [op |-> op[q], num |-> ser[q], answer |-> buf[q]]
  BY <1>2, InCallIs
<1>4. /\ Active(q) /\ key[q] \in Ids /\ key[q] # NoId
      /\ Placed(next_req_id, issued, key[q], ser[q])
  BY <1>2, InCallIs
<1>5. ser[q] = r.ser /\ buf[q] = NoReply
  BY <1>3, NoCallIs DEF Contract!Waits
<1>6. key[q] = r.key
  BY <1>0, <1>1, <1>4, <1>5, SessionAssumption DEF Placed, TypeOK
<1>7. requests[key[q]] = q
  BY <1>4, <1>5 DEF RpcInv, NoLostWakeup
<1> QED
  BY <1>6, <1>7

LEMMA AnswerMaps ==
  ASSUME RpcInv, NEW r \in atServer, NEW kind \in Kinds \cup {"Version"},
         ReadAnswer(r, kind)
  PROVE  [Contract!Next]_RpcVars
<1>0. TypeOK /\ r \in OnWire /\ r.key \in Keys /\ InitKey(r)
  BY DEF RpcInv, CorrelationInv, OnWire, TypeOK, Requests, HandshakeInv, NamesOK
<1>1. /\ Reply(r.key, kind, r.ser) /\ atServer' = atServer \ {r} /\ strays' = strays
      /\ (kind = "Version") <=> (r.op = "init")
  BY DEF ReadAnswer
<1>2. /\ ResultView' = ResultView /\ Held' = Held /\ outq' = outq /\ issued' = issued
      /\ requests[r.key] \notin Callers => CallView' = CallView /\ version' = version
  BY <1>1, ReplyViews
<1>3. r.op # "shutdown"
  BY <1>0 DEF RpcInv, WireInv, MarkersOnly, InitKey, Shutdown
<1>4. CASE r.op = "init"
  <2>1. r.key = NoId /\ ~Asks(r)
    BY <1>0, <1>4 DEF InitKey, Asks
  <2>2. OnWire' \subseteq OnWire /\ OnWire \subseteq OnWire' \cup {r}
    BY <1>1, <1>2 DEF OnWire
  <2>3. WireView' = WireView
    BY <1>2, <2>1, <2>2, WireViewIs, WireViewNext
  <2>4. CASE requests[r.key] \notin Callers
    BY <1>1, <1>2, <2>3, <2>4 DEF RpcVars
  <2>5. CASE requests[r.key] \in Callers
    <3>1. CallView' = CallView
      BY <1>0, <1>1, <2>1, <2>5, HandOver
    <3>2. version' = TRUE
      BY <1>1, <2>1, <2>5 DEF Reply
    <3>3. Contract!Ready
      BY <1>1, <1>2, <2>3, <3>1, <3>2 DEF Contract!Ready
    <3> QED
      BY <3>3 DEF Contract!Next
  <2> QED
    BY <2>4, <2>5
<1>5. CASE r.op # "init"
  <2>1. Asks(r) /\ r.key # NoId /\ r.key \in Ids /\ kind \in Kinds
    BY <1>0, <1>1, <1>3, <1>5 DEF Asks, InitKey, Keys
  <2>2. Asked(r) \in WireView /\ WireView' = WireView \ {Asked(r)} /\ Asked(r).num = r.ser
    BY <1>1, <1>2, <2>1, AnswerTakes DEF Asked
  <2>3. CASE requests[r.key] \notin Callers
    <3>1. issued <= IdSpace =>
            ~\E q \in Callers : Contract!Waits(q) /\ CallView[q].num = Asked(r).num
      BY <2>1, <2>2, <2>3, NobodyWaits
    <3>2. Contract!AnswerLate(Asked(r))
      BY <1>1, <1>2, <2>2, <2>3, <3>1 DEF Contract!AnswerLate
    <3> QED
      BY <2>2, <3>2 DEF Contract!Next
  <2>4. ASSUME NEW p \in Callers, requests[r.key] = p PROVE Contract!Next
    <3>1. /\ Contract!Waits(p) /\ version' = version /\ CallView[p].num = ser[p]
          /\ CallView' = [CallView EXCEPT
                 ![p].answer = [kind |-> Contract!Given(kind), ser |-> r.ser]]
      BY <1>0, <1>1, <2>1, <2>4, HandOver
    <3>2. Late(r.ser, ser[p])
      BY <1>0, <2>1, <2>4 DEF RpcInv, CorrelationInv, Newest, NewestAt
    <3>3. Contract!Answer(Asked(r), p, kind)
      BY <1>1, <1>2, <2>2, <3>1, <3>2 DEF Contract!Answer, Late
    <3> QED
      BY <2>1, <2>2, <3>3 DEF Contract!Next
  <2> QED
    BY <2>3, <2>4
<1> QED
  BY <1>4, <1>5

LEMMA StrayMaps ==
  ASSUME RpcInv, NEW k \in Keys, NEW kind \in Kinds \cup {"Version"}, ReadStray(k, kind)
  PROVE  Contract!Next
<1>1. /\ Reply(k, kind, 0) /\ atServer' = atServer /\ strays' = strays + 1
      /\ (kind = "Version") <=> (k = NoId)
  BY DEF ReadStray
<1>2. /\ ResultView' = ResultView /\ Held' = Held /\ outq' = outq /\ issued' = issued
      /\ requests[k] \notin Callers => CallView' = CallView /\ version' = version
  BY <1>1, ReplyViews
<1>3. WireView' = WireView
  <2>1. OnWire' = OnWire
    BY <1>1, <1>2 DEF OnWire
  <2> QED
    BY <1>2, <2>1, WireViewIs, WireViewNext
<1>4. CASE requests[k] \notin Callers
  <2>1. Contract!StrayDropped
    BY <1>1, <1>2, <1>3, <1>4 DEF Contract!StrayDropped
  <2> QED
    BY <2>1 DEF Contract!Next
<1>5. ASSUME NEW p \in Callers, requests[k] = p, k = NoId PROVE Contract!Next
  <2>1. CallView' = CallView
    BY <1>1, <1>5, HandOver
  <2>2. version' = TRUE
    BY <1>1, <1>5 DEF Reply
  <2>3. Contract!Ready
    BY <1>1, <1>2, <1>3, <2>1, <2>2 DEF Contract!Ready
  <2> QED
    BY <2>3 DEF Contract!Next
<1>6. ASSUME NEW p \in Callers, requests[k] = p, k # NoId PROVE Contract!Next
  <2>1. /\ Contract!Waits(p) /\ version' = version
        /\ CallView' = [CallView EXCEPT
               ![p].answer = [kind |-> Contract!Given(kind), ser |-> 0]]
    BY <1>1, <1>6, HandOver
  <2>2. Contract!Stray(p, kind) /\ kind \in Kinds
    BY <1>1, <1>2, <1>3, <1>6, <2>1 DEF Contract!Stray
  <2> QED
    BY <2>2 DEF Contract!Next
<1> QED
  BY <1>4, <1>5, <1>6

(* What a method makes of its answer: Ok exactly for the packet it asks for. *)
LEMMA ConvertIs ==
  ASSUME NEW o, NEW kind
  PROVE  /\ Convert(o, kind) \in Contract!Remote
         /\ Convert(o, kind) = "Ok" <=> Contract!Fits(o, kind)
BY DEF Convert, Contract!Remote, Contract!Fits

LEMMA RpcRefines ==
  ASSUME RpcInv, [Next]_vars
  PROVE  [Contract!Next]_RpcVars
<1>0. TypeOK
  BY DEF RpcInv, CorrelationInv
<1>a. {"Limited", "SessionClosed", "SendError", "RecvNone", "Timeout", "Dropped"}
         = Contract!Local
  BY DEF Contract!Local
<1>b. \A res \in Contract!Local : res \notin Contract!Remote
  BY DEF Contract!Local, Contract!Remote
<1>1. ASSUME NEW p \in Callers, NEW o \in Ops, Refuse(p, o) PROVE Contract!Next
  BY <1>a, <1>1, RefuseMaps DEF Refuse, taskVars, srvVars, idVars
<1>2. ASSUME NEW p \in Callers, NEW o \in Ops, SendClosed(p, o) PROVE Contract!Next
  <2>1. issued' \in {issued, issued + 1}
    BY <1>2 DEF SendClosed, UseNextId
  <2> QED
    BY <1>a, <1>2, <2>1, RefuseMaps DEF SendClosed, taskVars, srvVars
<1>3. ASSUME NEW p \in Callers, NEW o \in Ops, Insert(p, o) PROVE Contract!Next
  BY <1>3, InsertMaps
<1>4. ASSUME NEW p \in Callers, Enqueue(p) PROVE Contract!Next
  <2> DEFINE e == [op |-> op[p], key |-> key[p], ser |-> ser[p]]
  <2>1. /\ e \in Requests /\ outq' = Append(outq, e) /\ e \in Held
        /\ UNCHANGED <<atServer, op, key, ser, buf, ret, issued, version, strays>>
    BY <1>0, <1>4 DEF Enqueue, TypeOK, Requests, srvVars, idVars, Held
  <2>2. Held' \subseteq Held
    BY <1>0, <1>4 DEF Enqueue, TypeOK, Held
  <2> HIDE DEF e
  <2>3. OnWire' = OnWire \cup {e}
    BY <1>0, <2>1, QueueAppend DEF OnWire, TypeOK
  <2>4. \A q \in Callers : pc'[q] = "idle" <=> pc[q] = "idle"
    BY <1>0, <1>4 DEF Enqueue, TypeOK
  <2> QED
    BY <2>1, <2>2, <2>3, <2>4, MoveMaps
<1>5. ASSUME NEW p \in Callers, EnqueueFails(p) PROVE [Contract!Next]_RpcVars
  BY <1>a, <1>b, <1>5, LeaveMaps DEF EnqueueFails, taskVars, srvVars, idVars
<1>6. ASSUME NEW p \in Callers, Recv(p) PROVE [Contract!Next]_RpcVars
  <2> DEFINE res == Convert(op[p], buf[p].kind)
  <2>1. res \in Contract!Remote /\ (res = "Ok" <=> Contract!Fits(op[p], buf[p].kind))
    BY ConvertIs
  <2>2. /\ Return(p, res) /\ pc[p] = "waiting" /\ buf[p] # NoReply
        /\ UNCHANGED <<op, outq, atServer, version, issued, strays>>
    BY <1>6 DEF Recv, taskVars, srvVars, idVars
  <2>3. res # "SendError" /\ res # "RecvNone"
    BY <2>1, <1>a, <1>b
  <2> HIDE DEF res
  <2> QED
    BY <2>1, <2>2, <2>3, LeaveMaps
<1>7. ASSUME NEW p \in Callers, RecvNone(p) PROVE [Contract!Next]_RpcVars
  <2>1. /\ Return(p, "RecvNone") /\ pc[p] = "waiting" /\ buf[p] = NoReply
        /\ \A k \in Keys : requests[k] # p
        /\ UNCHANGED <<op, outq, atServer, version, issued, strays>>
    BY <1>7 DEF RecvNone, taskVars, srvVars, idVars
  <2>2. InCall(p) => issued > IdSpace
    <3> SUFFICES ASSUME InCall(p), ~(issued > IdSpace) PROVE FALSE
      OBVIOUS
    <3>1. issued <= IdSpace
      BY <1>0, SessionAssumption DEF TypeOK
    <3>2. Active(p) /\ key[p] # NoId /\ key[p] \in Keys
      BY <1>0, InCallIs DEF TypeOK
    <3> QED
      BY <2>1, <3>1, <3>2 DEF RpcInv, NoLostWakeup
  <2> QED
    BY <1>a, <1>b, <2>1, <2>2, LeaveMaps
<1>8. ASSUME NEW p \in Callers, Expire(p) PROVE Contract!Next
  <2>1. /\ UNCHANGED <<op, ser, buf, ret, issued, version, strays>> /\ OnWire' = OnWire
        /\ \A q \in Callers : pc'[q] = "idle" <=> pc[q] = "idle"
    BY <1>0, <1>8 DEF Expire, TypeOK, taskVars, srvVars, idVars, OnWire
  <2>2. Held' \subseteq Held
    BY <1>0, <1>8 DEF Expire, TypeOK, Held
  <2> QED
    BY <2>1, <2>2, MoveMaps
<1>9. ASSUME NEW p \in Callers, ExpireReturn(p) \/ Drop(p)
      PROVE  [Contract!Next]_RpcVars
  BY <1>a, <1>b, <1>9, LeaveMaps DEF ExpireReturn, Drop, taskVars, srvVars, idVars
<1>10. ASSUME UNCHANGED <<callVars, issued, version, strays>>,
              \A r \in OnWire' : Asks(r) => r \in OnWire
       PROVE  Contract!Next
  <2>1. Held' = Held
    BY <1>10 DEF Held, callVars
  <2> QED
    BY <1>10, <2>1, MoveMaps DEF callVars
<1>11. CASE CloseSession
  <2>1. Shutdown \in Requests /\ ~Asks(Shutdown)
    BY DEF Shutdown, Requests, Keys, Asks
  <2>2. OnWire' = OnWire \cup {Shutdown}
    BY <1>0, <1>11, <2>1, QueueAppend DEF CloseSession, TypeOK, OnWire, srvVars
  <2> QED
    BY <1>10, <1>11, <2>1, <2>2 DEF CloseSession, srvVars, idVars
<1>12. ASSUME NEW r \in atServer, NEW kind \in Kinds \cup {"Version"}, ReadAnswer(r, kind)
       PROVE  [Contract!Next]_RpcVars
  BY <1>12, AnswerMaps
<1>13. ASSUME NEW k \in Keys, NEW kind \in Kinds \cup {"Version"}, ReadStray(k, kind)
       PROVE  Contract!Next
  BY <1>13, StrayMaps
<1>14. CASE ReaderEof \/ ReaderCancelled \/ UNCHANGED vars
  BY <1>10, <1>14 DEF ReaderEof, ReaderCancelled, ReaderEnds, OnWire, srvVars, idVars,
     vars, taskVars
<1>15. CASE WriterWrites
  <2>1. QueueSet(outq') \subseteq QueueSet(outq) /\ Head(outq) \in QueueSet(outq)
    BY <1>0, <1>15, QueueTail DEF WriterWrites, TypeOK
  <2> QED
    BY <1>10, <1>15, <2>1 DEF WriterWrites, OnWire, idVars
<1>16. CASE WriterEnds
  <2>1. QueueSet(outq') = {}
    BY <1>16 DEF WriterEnds, QueueSet
  <2> QED
    BY <1>10, <1>16, <2>1 DEF WriterEnds, OnWire, srvVars, idVars
<1> QED
  BY <1>1, <1>2, <1>3, <1>4, <1>5, <1>6, <1>7, <1>8, <1>9, <1>11, <1>12, <1>13, <1>14,
     <1>15, <1>16 DEF Next, CallStep

(* RawSftpSession is a remote procedure call that is carried out at most    *)
(* once, for any number of callers and of ids: however calls, timeouts,     *)
(* dropped futures, late and unasked replies and the end of the session     *)
(* interleave, the answer to a request goes to the call that made it, and   *)
(* only such a call returns Ok; the two exceptions are those Rpc states.    *)
THEOREM SessionIsRpc == Spec => IsRpc
<1>1. Init => Contract!Init
  <2> SUFFICES ASSUME Init PROVE Contract!Init
    OBVIOUS
  <2>1. CallView = [p \in Callers |-> Contract!NoCall]
    BY NoCallIs DEF Init, CallView, AsCall
  <2>2. ResultView = [p \in Callers |-> "none"]
    BY DEF Init, ResultView
  <2>3. OnWire = {} /\ Held = {}
    BY DEF Init, OnWire, QueueSet, Held
  <2>4. WireView = {}
    BY <2>3, WireViewIs
  <2> QED
    BY <2>1, <2>2, <2>4 DEF Init, Contract!Init
<1>2. Init => RpcInv
  <2>1. Init => NoLostWakeup
    BY DEF Init, NoLostWakeup, Active
  <2> QED
    BY <2>1, CorrelationInit, HandshakeInit, WireInit DEF RpcInv
<1>3. RpcInv /\ [Next]_vars => RpcInv'
  BY CorrelationStep, WakeupStep, HandshakeStep, WireStep DEF RpcInv
<1>4. RpcInv /\ [Next]_vars
        => [Contract!Next]_<<CallView, ResultView, WireView, issued, version, strays>>
  BY RpcRefines DEF RpcVars
<1> QED
  BY <1>1, <1>2, <1>3, <1>4, PTL DEF Spec, IsRpc, Contract!Spec, Contract!vars
=============================================================================
