------------------------------ MODULE RawSession ------------------------------
(***************************************************************************)
(* The client core of russh-sftp: RawSftpSession and SessionInner          *)
(* (client/rawsession.rs) with the reader and writer tasks of client::run  *)
(* (client/mod.rs).                                                        *)
(*                                                                         *)
(* Any number of concurrent calls share one stream.  A call takes a u32 id,*)
(* registers the sending end of a one-slot channel under that id in        *)
(* `requests', queues its packet for the writer task and waits on its      *)
(* channel with a timeout.  The reader task looks every incoming packet up *)
(* in `requests', takes the sender out and hands the packet over.          *)
(*                                                                         *)
(* Callers is the set of tasks that use the session; each has at most one  *)
(* call in flight and may start another when it is idle.  The server is    *)
(* external: it may answer the requests that reached it in any order, with *)
(* any kind of packet, or never, and may send packets nobody asked for.    *)
(* A packet that does not decode, one of a kind execute_handler does not   *)
(* process and a stream error other than EOF only log a warning in the     *)
(* reader: they change no state and are not actions here.                  *)
(***************************************************************************)
EXTENDS Integers, Sequences, FiniteSets

CONSTANTS
  Callers,         \* the tasks that call methods of the session
  Ops,             \* the methods they call, a subset of AllOps
  Kinds,           \* packet kinds the server uses besides Version
  IdSpace,         \* number of request ids: 2^32 in the code (AtomicU32)
  MaxOpenHandles,  \* max_open_handles of limits@openssh.com, 0 for no limit
  MaxCalls,        \* bound: ids handed out
  MaxInits,        \* bound: calls of init
  MaxStray,        \* bound: packets that answer no request
  NoSender, Closed \* entries of `requests' that lead to no live receiver

VARIABLES
  next_req_id,  \* AtomicU32
  requests,     \* SharedRequests: key -> sender of the channel of a call
  version,      \* SessionInner::version.is_some()
  handles,      \* AtomicU64
  pc, op, key,  \* per caller: where its call is, the method, the map key
  buf,          \* per caller: the one slot of its channel
  ret,          \* per caller: what its last call returned
  outq,         \* the unbounded channel from the calls to the writer task
  reader, writer, cancelled,  \* the two tasks and their CancellationToken
  atServer,     \* external: requests that reached the server, unanswered
  srvOpen,      \* external: handles the server holds open
  issued, inits, strays,      \* history: ids handed out, inits, strays
  ser           \* history, per caller: number of its request

callVars == <<pc, op, key, ser, buf, ret>>
taskVars == <<outq, reader, writer, cancelled>>
srvVars  == <<atServer, srvOpen, strays>>
idVars   == <<next_req_id, issued, inits>>
vars == <<callVars, taskVars, srvVars, idVars, requests, version, handles>>

-----------------------------------------------------------------------------
(* The methods of RawSftpSession, in the order of the file, with the packet *)
(* that makes each return Ok.                                               *)

FileOps == [open |-> "Handle", close |-> "StatusOk",
            read |-> "Data", write |-> "StatusOk"]
StatOps == [lstat |-> "Attrs", fstat |-> "Attrs",
            setstat |-> "StatusOk", fsetstat |-> "StatusOk"]
DirOps  == [opendir |-> "Handle", readdir |-> "Name", remove |-> "StatusOk",
            mkdir |-> "StatusOk", rmdir |-> "StatusOk"]
PathOps == [realpath |-> "Name", stat |-> "Attrs", rename |-> "StatusOk",
            readlink |-> "Name", symlink |-> "StatusOk"]
ExtOps  == [extended |-> "any", limits |-> "ExtendedReply",
            hardlink |-> "StatusOk", fsync |-> "StatusOk",
            statvfs |-> "ExtendedReply"]
AllOps  == {"init"} \cup DOMAIN FileOps \cup DOMAIN StatOps \cup DOMAIN DirOps
             \cup DOMAIN PathOps \cup DOMAIN ExtOps
SuccessOf(o) ==
  IF o = "init" THEN "Version"
  ELSE CASE o \in DOMAIN FileOps -> FileOps[o]
         [] o \in DOMAIN StatOps -> StatOps[o]
         [] o \in DOMAIN DirOps  -> DirOps[o]
         [] o \in DOMAIN PathOps -> PathOps[o]
         [] OTHER -> ExtOps[o]
Expects == [o \in AllOps |-> SuccessOf(o)]

AllKinds == {"Handle", "Data", "Name", "Attrs", "ExtendedReply",
             "BadReply", "StatusOk", "StatusErr"}  \* BadReply: ExtendedReply
                                      \* whose payload does not decode
OpenOps  == {"open", "opendir"}   \* check max_open_handles, count a Handle
SizedOps == {"read", "write"}     \* check max_read_len, max_write_len

ASSUME SessionAssumption ==
  /\ IsFiniteSet(Callers) /\ Callers # {}
  /\ Ops \subseteq AllOps /\ Kinds \subseteq AllKinds
  /\ IdSpace \in Nat \ {0, 1} /\ MaxOpenHandles \in Nat
  /\ MaxCalls \in Nat /\ MaxInits \in Nat /\ MaxStray \in Nat
  /\ NoSender # Closed /\ NoSender \notin Callers /\ Closed \notin Callers

(* into_with_status!, into_status! and the matches of init, limits, statvfs. *)
(* The Err values reply may put into the channel pass through `?'.           *)
Convert(o, kind) ==
  IF kind \in {"UnexpectedPacket", "DuplicateVersion"} THEN kind
  ELSE IF o = "extended" \/ kind = Expects[o] THEN "Ok"
  ELSE CASE kind = "StatusErr" /\ o # "init" -> "Status"
         [] kind = "StatusOk" /\ o \notin {"init", "limits", "statvfs"} -> "Status"
         [] kind = "BadReply" /\ o \in {"limits", "statvfs"} -> "BadReply"
         [] OTHER -> "UnexpectedPacket"

Outcomes == {"none", "Ok", "Status", "UnexpectedPacket", "DuplicateVersion",
             "BadReply", "Limited", "SessionClosed", "SendError", "RecvNone",
             "Timeout", "Dropped"}

NoId == -1                        \* Option::None, the key of init
Ids  == 0 .. IdSpace - 1
Keys == Ids \cup {NoId}

NoReply  == [kind |-> "NoReply", ser |-> 0]
Replies  == [kind : AllKinds \cup {"Version", "UnexpectedPacket",
                                   "DuplicateVersion", "NoReply"}, ser : Int]
Requests == [op : Ops \cup {"init", "shutdown"}, key : Keys, ser : Int]
Shutdown == [op |-> "shutdown", key |-> NoId, ser |-> 0]  \* Bytes::new()

Active(p)  == pc[p] \in {"inserted", "waiting", "expired"}
TxClosed   == writer = "ended"    \* rx lives exactly as long as the writer

Init ==
  /\ next_req_id = 1
  /\ requests = [k \in Keys |-> NoSender]
  /\ version = FALSE
  /\ handles = 0
  /\ pc = [p \in Callers |-> "idle"]
  /\ op = [p \in Callers |-> "init"]
  /\ key = [p \in Callers |-> NoId]
  /\ ser = [p \in Callers |-> 0]
  /\ buf = [p \in Callers |-> NoReply]
  /\ ret = [p \in Callers |-> "none"]
  /\ outq = <<>>
  /\ reader = "running" /\ writer = "running" /\ cancelled = FALSE
  /\ atServer = {} /\ srvOpen = 0
  /\ issued = 0 /\ inits = 0 /\ strays = 0

-----------------------------------------------------------------------------
(* Calls *)

(* open and opendir before they send: the count is loaded, nothing is held. *)
LimitReached_OffByOne == MaxOpenHandles > 0 /\ handles > MaxOpenHandles \* fault
LimitReached == MaxOpenHandles > 0 /\ handles >= MaxOpenHandles

(* AtomicU32::fetch_add wraps. *)
NextId_Saturating ==                                                 \* fault
  IF next_req_id = IdSpace - 1 THEN next_req_id ELSE next_req_id + 1
NextId_Reused == next_req_id                                         \* fault
NextId_NoWrap == next_req_id + 1                                     \* fault
NextId == IF next_req_id = IdSpace - 1 THEN 0 ELSE next_req_id + 1

KeyFor(o) == IF o = "init" THEN NoId ELSE next_req_id

(* Taking an id, and numbering the request for the history. *)
UseNextId(o) ==
  IF o = "init"
  THEN inits < MaxInits /\ inits' = inits + 1 /\ UNCHANGED <<next_req_id, issued>>
  ELSE /\ issued < MaxCalls
       /\ issued' = issued + 1 /\ next_req_id' = NextId /\ UNCHANGED inits
Serial(o) == IF o = "init" THEN -(inits + 1) ELSE issued + 1

(* The locals of the call, the receiver with its slot included, are gone.   *)
Return(p, r) == /\ pc'  = [pc EXCEPT ![p] = "idle"]
                /\ key' = [key EXCEPT ![p] = NoId]
                /\ ser' = [ser EXCEPT ![p] = 0]
                /\ buf' = [buf EXCEPT ![p] = NoReply]
                /\ ret' = [ret EXCEPT ![p] = r]

(* Err(Limited): too many handles, or a length beyond the server's limit. *)
Refuse(p, o) ==
  /\ pc[p] = "idle" /\ o \in Ops
  /\ (o \in OpenOps /\ LimitReached) \/ o \in SizedOps
  /\ Return(p, "Limited")
  /\ UNCHANGED <<op, taskVars, srvVars, idVars, requests,
                 version, handles>>

(* send() on a closed session; the id is spent. *)
SendClosed(p, o) ==
  /\ pc[p] = "idle" /\ o \in Ops /\ ~(o \in OpenOps /\ LimitReached)
  /\ TxClosed
  /\ UseNextId(o)
  /\ Return(p, "SessionClosed")
  /\ UNCHANGED <<op, taskVars, srvVars, requests, version,
                 handles>>

(* use_next_id, then send() up to the insertion.  An entry already under    *)
(* the key is replaced, which drops its sender.                             *)
Insert(p, o) ==
  /\ pc[p] = "idle" /\ o \in Ops /\ ~(o \in OpenOps /\ LimitReached)
  /\ ~TxClosed
  /\ UseNextId(o)
  /\ requests' = [requests EXCEPT ![KeyFor(o)] = p]
  /\ pc'  = [pc EXCEPT ![p] = "inserted"]
  /\ op'  = [op EXCEPT ![p] = o]
  /\ key' = [key EXCEPT ![p] = KeyFor(o)]
  /\ ser' = [ser EXCEPT ![p] = Serial(o)]
  /\ buf' = [buf EXCEPT ![p] = NoReply]
  /\ ret' = [ret EXCEPT ![p] = "none"]
  /\ UNCHANGED <<taskVars, srvVars, version, handles>>

(* The map once the receiver of p is gone: its sender stays, closed. *)
WithoutReceiver(p) ==
  [k \in Keys |-> IF requests[k] = p THEN Closed ELSE requests[k]]

(* self.tx.send(..): queued, or refused because the writer ended meanwhile; *)
(* then `?' leaves the entry in the map.                                    *)
Enqueue(p) ==
  /\ pc[p] = "inserted"
  /\ ~TxClosed
  /\ outq' = Append(outq, [op |-> op[p], key |-> key[p], ser |-> ser[p]])
  /\ pc' = [pc EXCEPT ![p] = "waiting"]
  /\ UNCHANGED <<op, key, ser, buf, ret, reader, writer, cancelled, srvVars,
                 idVars, requests, version, handles>>

EnqueueFails(p) ==
  /\ pc[p] = "inserted"
  /\ TxClosed
  /\ requests' = WithoutReceiver(p)
  /\ Return(p, "SendError")
  /\ UNCHANGED <<op, taskVars, srvVars, idVars, version, handles>>

(* A Handle is counted by open and opendir; close gives one back on status  *)
(* Ok, and stays at 0 when there is none to give back.                      *)
HandlesAfter(o, kind) ==
  CASE o \in OpenOps /\ kind = "Handle"  -> handles + 1
    [] o = "close" /\ kind = "StatusOk" /\ handles > 0 -> handles - 1
    [] OTHER -> handles

(* rx.recv() yields a result: the rest of the method runs. *)
Recv(p) ==
  /\ pc[p] = "waiting"
  /\ buf[p] # NoReply
  /\ handles' = HandlesAfter(op[p], buf[p].kind)
  /\ Return(p, Convert(op[p], buf[p].kind))
  /\ UNCHANGED <<op, taskVars, srvVars, idVars, requests, version>>

Remove_Forgotten(k) == requests                                      \* fault
Remove(k) == [requests EXCEPT ![k] = NoSender]

(* rx.recv() yields None: the sender was dropped without a result. *)
RecvNone(p) ==
  /\ pc[p] = "waiting"
  /\ buf[p] = NoReply
  /\ \A k \in Keys : requests[k] # p
  /\ requests' = Remove(key[p])
  /\ Return(p, "RecvNone")
  /\ UNCHANGED <<op, taskVars, srvVars, idVars, version,
                 handles>>

(* time::timeout polls the channel before the timer: it elapses only on an  *)
(* empty channel.  The entry is removed in a later step, and the channel is *)
(* open until then: a reply that slips in is lost.                          *)
Expire_Never(p) == FALSE                                             \* fault
Expire(p) ==
  /\ pc[p] = "waiting"
  /\ buf[p] = NoReply
  /\ pc' = [pc EXCEPT ![p] = "expired"]
  /\ UNCHANGED <<op, key, ser, buf, ret, taskVars, srvVars, idVars, requests,
                 version, handles>>

ExpireReturn(p) ==
  /\ pc[p] = "expired"
  /\ requests' = Remove(key[p])
  /\ Return(p, "Timeout")
  /\ UNCHANGED <<op, taskVars, srvVars, idVars, version, handles>>

(* The future of the call is dropped at its await point (an aborted task, a *)
(* select!, a File that is dropped): no code of the call runs any more.     *)
Drop(p) ==
  /\ pc[p] = "waiting"
  /\ requests' = WithoutReceiver(p)
  /\ Return(p, "Dropped")
  /\ UNCHANGED <<op, taskVars, srvVars, idVars, version, handles>>

(* close_session(), also called by Drop of the session.  A second marker    *)
(* behind the first is never read: one is kept.                             *)
CloseSession ==
  /\ ~TxClosed
  /\ \A i \in 1 .. Len(outq) : outq[i] # Shutdown
  /\ outq' = Append(outq, Shutdown)
  /\ UNCHANGED <<callVars, reader, writer, cancelled, srvVars, idVars, requests,
                 version, handles>>

-----------------------------------------------------------------------------
(* The reader task *)

(* What reply puts into the channel of the call found under key k. *)
Validate_AnyTime(k, kind) ==                                         \* fault
  IF k = NoId /\ version THEN "DuplicateVersion" ELSE kind
Validate_Again(k, kind) ==                                           \* fault
  IF k # NoId /\ ~version THEN "UnexpectedPacket" ELSE kind
Validate(k, kind) ==
  CASE k # NoId /\ ~version -> "UnexpectedPacket"
    [] k = NoId /\ version  -> "DuplicateVersion"
    [] OTHER -> kind

(* SessionInner::reply, and version() around it: the entry is taken out,    *)
(* the result handed to a receiver that still exists, and the version       *)
(* recorded when reply returned Ok.                                         *)
Reply(k, kind, s) ==
  LET p == requests[k] IN
  /\ reader = "running"
  /\ requests' = Remove(k)
  /\ IF p \in Callers
     THEN /\ buf' = [buf EXCEPT ![p] = [kind |-> Validate(k, kind), ser |-> s]]
          /\ version' = (version \/ k = NoId)
     ELSE UNCHANGED <<buf, version>>
  /\ UNCHANGED <<pc, op, key, ser, ret, taskVars, idVars, handles>>

(* External: handles open at the server after it answered r with `kind'.    *)
SrvOpenAfter(r, kind) ==
  CASE r.op \in OpenOps /\ kind = "Handle" -> srvOpen + 1
    [] r.op = "close" /\ kind = "StatusOk" /\ srvOpen > 0 -> srvOpen - 1
    [] OTHER -> srvOpen

(* The packet that answers request r is read off the stream. *)
ReadAnswer(r, kind) ==
  /\ (kind = "Version") <=> (r.op = "init")
  /\ atServer' = atServer \ {r}
  /\ srvOpen' = SrvOpenAfter(r, kind)
  /\ Reply(r.key, kind, r.ser)
  /\ UNCHANGED strays

(* A packet that answers no outstanding request: a duplicate, or an id of   *)
(* the server's own, as the id 0 of its BadMessage status.                  *)
ReadStray(k, kind) ==
  /\ strays < MaxStray /\ strays' = strays + 1
  /\ (kind = "Version") <=> (k = NoId)
  /\ Reply(k, kind, 0)
  /\ UNCHANGED <<atServer, srvOpen>>

(* EOF, or the token: the loop is left and the token cancelled. *)
ReaderEnds ==
  /\ reader = "running"
  /\ reader' = "ended" /\ cancelled' = TRUE
  /\ UNCHANGED <<callVars, outq, writer, srvVars, idVars, requests, version,
                 handles>>
ReaderEof       == ReaderEnds
ReaderCancelled == cancelled /\ ReaderEnds

(* The writer task *)

(* One packet is written; the result of write_all is ignored, so it may     *)
(* also be lost.                                                            *)
WriterWrites ==
  /\ writer = "running" /\ outq # <<>> /\ Head(outq) # Shutdown
  /\ outq' = Tail(outq)
  /\ \/ atServer' = atServer \cup {Head(outq)}
     \/ UNCHANGED atServer
  /\ UNCHANGED <<callVars, reader, writer, cancelled, srvOpen, strays, idVars,
                 requests, version, handles>>

(* The loop is left on the marker or on the token; rx is dropped with what  *)
(* is still queued.                                                         *)
WriterEnds_NoCancel ==                                               \* fault
  /\ writer = "running"
  /\ cancelled \/ (outq # <<>> /\ Head(outq) = Shutdown)
  /\ writer' = "ended" /\ outq' = <<>>
  /\ UNCHANGED <<callVars, reader, cancelled, srvVars, idVars, requests, version,
                 handles>>
WriterEnds ==
  /\ writer = "running"
  /\ cancelled \/ (outq # <<>> /\ Head(outq) = Shutdown)
  /\ writer' = "ended" /\ cancelled' = TRUE /\ outq' = <<>>
  /\ UNCHANGED <<callVars, reader, srvVars, idVars, requests, version, handles>>

-----------------------------------------------------------------------------
CallStep(p) ==
  \/ Enqueue(p) \/ EnqueueFails(p) \/ Recv(p) \/ Expire(p) \/ ExpireReturn(p)

Next ==
  \/ \E p \in Callers, o \in Ops : Refuse(p, o) \/ SendClosed(p, o) \/ Insert(p, o)
  \/ \E p \in Callers : CallStep(p) \/ RecvNone(p) \/ Drop(p)
  \/ CloseSession
  \/ \E r \in atServer, kind \in Kinds \cup {"Version"} : ReadAnswer(r, kind)
  \/ \E k \in Keys, kind \in Kinds \cup {"Version"} : ReadStray(k, kind)
  \/ ReaderEof \/ ReaderCancelled \/ WriterWrites \/ WriterEnds

Spec == Init /\ [][Next]_vars

(* The scheduler polls woken tasks and the timer fires; nothing is assumed  *)
(* of the server, of the callers or of the order of reader and timer.       *)
Fairness ==
  /\ \A p \in Callers : WF_vars(CallStep(p))
  /\ WF_vars(WriterWrites \/ WriterEnds)
  /\ WF_vars(ReaderCancelled)
FairSpec == Spec /\ Fairness

-----------------------------------------------------------------------------
(* Properties *)

(* The state of the session and of its tasks has its type: the counter of   *)
(* AtomicU32 stays in the id space it wraps in, and the one of handles does *)
(* not go below zero.                                                       *)
TypeOK ==
  /\ next_req_id \in Ids
  /\ requests \in [Keys -> Callers \cup {NoSender, Closed}]
  /\ version \in BOOLEAN
  /\ handles \in Nat
  /\ pc \in [Callers -> {"idle", "inserted", "waiting", "expired"}]
  /\ op \in [Callers -> Ops \cup {"init"}]
  /\ key \in [Callers -> Keys]
  /\ ser \in [Callers -> Int]
  /\ buf \in [Callers -> Replies]
  /\ ret \in [Callers -> Outcomes]
  /\ outq \in Seq(Requests)
  /\ reader \in {"running", "ended"} /\ writer \in {"running", "ended"}
  /\ cancelled \in BOOLEAN
  /\ atServer \subseteq Requests
  /\ srvOpen \in Nat
  /\ issued \in Nat /\ inits \in Nat /\ strays \in Nat

(* A sender in `requests' belongs to a call that is still waiting, stands   *)
(* under the key of that call, and its one-slot channel is empty: reply's   *)
(* try_send never meets a full channel and no finished call leaves a live   *)
(* sender behind.                                                           *)
RegisteredLive ==
  \A k \in Keys : requests[k] \in Callers =>
    /\ Active(requests[k]) /\ key[requests[k]] = k
    /\ buf[requests[k]] = NoReply

(* A call other than init is handed the answer to its own request.  The     *)
(* only way to get another one is an answer that is at least 2^32 requests  *)
(* late (the ids wrapped), or a packet the server made up (ser 0).          *)
Correlated ==
  \A p \in Callers :
    buf[p].ser > 0 => buf[p].ser = ser[p] \/ ser[p] - buf[p].ser >= IdSpace

(* During the first 2^32 requests a waiting call stays reachable: its       *)
(* sender is registered, or its result is already in the channel.  Neither  *)
(* a concurrent call nor a timeout, drop or late reply of an earlier one    *)
(* can take its entry away.                                                 *)
NoLostWakeup ==
  issued <= IdSpace =>
    \A p \in Callers : Active(p) /\ key[p] # NoId =>
      requests[key[p]] = p \/ buf[p] # NoReply

(* The handshake gates everything: a call gets a packet, or has returned    *)
(* Ok, only after the reader handed a Version to an init ...                *)
VersionFirst ==
  \A p \in Callers :
    buf[p].kind \in AllKinds \/ (op[p] # "init" /\ ret[p] = "Ok") => version

(* ... and however many inits race, a Version is accepted for one of them.  *)
OneVersion ==
  \A p, q \in Callers :
    LET Accepted(c) == /\ op[c] = "init"
                       /\ buf[c].kind = "Version" \/ (pc[c] = "idle" /\ ret[c] = "Ok")
    IN  Accepted(p) /\ Accepted(q) => p = q

(* The same state as Rpc sees it: init is not a call, and a request has a   *)
(* number, not an id.                                                       *)
AsCall(p) ==
  IF pc[p] # "idle" /\ op[p] # "init"
  THEN [op |-> op[p], num |-> ser[p], answer |-> buf[p]]
  ELSE [op |-> "none", num |-> 0, answer |-> NoReply]
CallView   == [p \in Callers |-> AsCall(p)]
ResultView == [p \in Callers |-> IF op[p] = "init" THEN "none" ELSE ret[p]]
Under == {outq[i] : i \in 1 .. Len(outq)} \cup atServer
           \cup {[op |-> op[p], key |-> key[p], ser |-> ser[p]] :
                   p \in {q \in Callers : pc[q] = "inserted"}}
WireView ==
  {[op |-> r.op, num |-> r.ser] : r \in {u \in Under : u.op \notin {"init", "shutdown"}}}
Contract == INSTANCE Rpc WITH
  call <- CallView, result <- ResultView, wire <- WireView, ready <- version,
  Ops  <- Ops \ {"init"}

(* The session implements Rpc: however calls, timeouts, dropped futures and *)
(* late replies interleave, a request is answered at most once and to the   *)
(* call that made it, and only such a call returns Ok.                      *)
IsRpc == Contract!Spec

Opening == {p \in Callers : Active(p) /\ op[p] \in OpenOps}

(* open and opendir check max_open_handles before they send and count after *)
(* they receive.  The calls in flight can push the count over the limit,    *)
(* but each task by one handle only.                                        *)
HandleBound ==
  MaxOpenHandles > 0 =>
    handles + Cardinality(Opening) <= MaxOpenHandles + Cardinality(Callers) - 1

(* Every call returns, whatever the server, the stream and other callers do.*)
CallsReturn == \A p \in Callers : pc[p] # "idle" ~> pc[p] = "idle"

(* Once close_session has queued its marker both tasks end.                 *)
CloseEnds ==
  (\E i \in 1 .. Len(outq) : outq[i] = Shutdown)
    ~> (reader = "ended" /\ writer = "ended")

-----------------------------------------------------------------------------
(* A statement of the documentation that the code does not keep *)

Quiet == atServer = {} /\ outq = <<>> /\ \A p \in Callers : pc[p] = "idle"

(* client/error.rs:22, Limited "Occurs due to exceeding the limits set by   *)
(* the `limits@openssh.com` extension": with no request on its way an open  *)
(* is refused only if the server holds that many handles open.              *)
LimitedOnlyWhenFull ==
  [][\A p \in Callers :
       Quiet /\ ret[p] # "Limited" /\ ret'[p] = "Limited"
         => srvOpen >= MaxOpenHandles]_vars
=============================================================================
