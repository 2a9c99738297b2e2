------------------------------ MODULE SftpServer ------------------------------
(***************************************************************************)
(* The server loop (server/mod.rs) and the two tasks of client::run         *)
(* (client/mod.rs) at the ends of a stream that holds a bounded number of   *)
(* packets each way.                                                        *)
(*                                                                          *)
(* The loop takes one packet at a time: it reads a request, awaits the      *)
(* handler, writes one response and only then reads again.  The Handler is  *)
(* the application's: a method it implements may succeed or return a status *)
(* code, and puts the id it was given into its packet.  The client's writer *)
(* does not look at the token while it waits in write_all.                  *)
(***************************************************************************)
EXTENDS Naturals, Sequences

CONSTANTS Cap,          \* packets each direction of the stream holds
          Implements,   \* kinds of packets the application's Handler handles
          MaxRequests   \* bound: packets the client sends

ASSUME ServerAssumption ==
  /\ Cap \in Nat \ {0} /\ MaxRequests \in Nat
  /\ Implements \subseteq {"Init", "Request"}

VARIABLES
  queue,  \* the channel from the calls to the writer task
  writer, \* the writer task: in select!, or in write_all with a packet
  reader, cancelled,  \* the reader task, and the CancellationToken
  sent,   \* history: the packets the client wrote, in order
  up,     \* the stream to the server
  conn,   \* the stream: "open", "shut" down by the client, or "lost"
  srv,    \* where the loop is, and with which packet
  down,   \* the stream to the client
  got,    \* history: the responses the client read, in order
  broken  \* a write of the server has failed

clientVars == <<queue, writer, reader, cancelled, conn>>
serverVars == <<srv, broken>>
vars == <<clientVars, serverVars, sent, up, down, got>>

(* What a packet is to the loop: Init, a request with an id, or something   *)
(* else, a packet that only a server sends or bytes that do not decode.     *)
PacketKinds == {"Init", "Request", "Other"}
Packets   == [num : Nat, kind : PacketKinds]
Responses == [num : Nat, kind : {"Version", "Reply", "Status"}, id : Nat]

Idle   == [at |-> "read"]
Select == [at |-> "select"]
Ended  == [at |-> "ended"]

(* Both halves are dropped with their tasks, and the stream with them. *)
Gone == writer = Ended /\ reader = "ended"

(* The client numbers its packets; the number of a Request is its id.       *)
(* Packet::get_request_id is 0 for everything else.                         *)
get_request_id(p) == IF p.kind = "Request" THEN p.num ELSE 0

(* Whether the handler's method succeeds.  The default of init does, every  *)
(* other default is the error unimplemented().                              *)
HandlerOk(p) == IF p.kind \in Implements THEN BOOLEAN ELSE {p.kind = "Init"}

(* process_request, and the BadMessage of process_handler for bytes that do *)
(* not decode; ok tells whether the handler succeeded.                      *)
Response(p, ok) ==
  CASE p.kind = "Other" -> [num |-> p.num, kind |-> "Status", id |-> 0]
    [] p.kind = "Init" /\ ok    -> [num |-> p.num, kind |-> "Version", id |-> 0]
    [] p.kind = "Request" /\ ok -> [num |-> p.num, kind |-> "Reply", id |-> p.num]
    [] p.kind \in {"Init", "Request"} /\ ~ok ->
         [num |-> p.num, kind |-> "Status", id |-> get_request_id(p)]

Init ==
  /\ queue = <<>> /\ writer = Select /\ reader = "running" /\ cancelled = FALSE
  /\ sent = <<>> /\ up = <<>> /\ conn = "open"
  /\ srv = Idle /\ down = <<>> /\ got = <<>> /\ broken = FALSE

-----------------------------------------------------------------------------
(* The client: calls and close_session *)

Closing == \E i \in 1 .. Len(queue) : queue[i] = "Close"

(* Packets on their way to the stream, for the bound.  A packet behind the  *)
(* marker is never written: none is queued there.                           *)
Call(kind) ==
  /\ writer # Ended /\ ~Closing
  /\ Len(sent) + Len(queue) + (IF writer = Select THEN 0 ELSE 1) < MaxRequests
  /\ queue' = Append(queue, kind)
  /\ UNCHANGED <<writer, reader, cancelled, conn, serverVars, sent, up, down, got>>

CloseSession ==
  /\ writer # Ended /\ ~Closing
  /\ queue' = Append(queue, "Close")
  /\ UNCHANGED <<writer, reader, cancelled, conn, serverVars, sent, up, down, got>>

-----------------------------------------------------------------------------
(* The writer task *)

WriterTakes ==
  /\ writer = Select /\ queue # <<>> /\ Head(queue) # "Close"
  /\ writer' = [at |-> "write", kind |-> Head(queue)] /\ queue' = Tail(queue)
  /\ UNCHANGED <<reader, cancelled, conn, serverVars, sent, up, down, got>>

(* write_all waits for room; on a stream the server has left, or that is    *)
(* lost, it fails, and the error is ignored.                                *)
WriterWrites ==
  LET p == [num |-> Len(sent) + 1, kind |-> writer.kind] IN
  /\ writer.at = "write"
  /\ \/ /\ srv # Ended /\ conn # "lost" /\ Len(up) < Cap
        /\ sent' = Append(sent, p) /\ up' = Append(up, p)
     \/ (srv = Ended \/ conn = "lost") /\ UNCHANGED <<sent, up>>
  /\ writer' = Select
  /\ UNCHANGED <<queue, reader, cancelled, conn, serverVars, down, got>>

(* The marker: shutdown, break, cancel. *)
WriterShuts ==
  /\ writer = Select /\ queue # <<>> /\ Head(queue) = "Close"
  /\ conn' = IF conn = "lost" THEN "lost" ELSE "shut"
  /\ writer' = Ended /\ cancelled' = TRUE /\ queue' = <<>>
  /\ UNCHANGED <<reader, serverVars, sent, up, down, got>>

WriterCancelled ==
  /\ writer = Select /\ cancelled
  /\ writer' = Ended /\ queue' = <<>>
  /\ UNCHANGED <<reader, cancelled, conn, serverVars, sent, up, down, got>>

(* The reader task reads whenever there is something to read, also while    *)
(* the writer waits.                                                        *)
ReaderReads_InTurn ==                                                \* fault
  /\ reader = "running" /\ down # <<>> /\ writer.at # "write"
  /\ got' = Append(got, Head(down)) /\ down' = Tail(down)
  /\ UNCHANGED <<clientVars, serverVars, sent, up>>
ReaderReads ==
  /\ reader = "running" /\ down # <<>>
  /\ got' = Append(got, Head(down)) /\ down' = Tail(down)
  /\ UNCHANGED <<clientVars, serverVars, sent, up>>

(* The token, or the end of what the server wrote; of a lost connection the *)
(* end may come before that.                                                *)
ReaderEnds ==
  /\ reader = "running"
  /\ cancelled \/ conn = "lost" \/ (srv = Ended /\ down = <<>>)
  /\ reader' = "ended" /\ cancelled' = TRUE
  /\ UNCHANGED <<queue, writer, conn, serverVars, sent, up, down, got>>

-----------------------------------------------------------------------------
(* One round of the loop in server::run *)

(* read_packet *)
ServerReads_Eager ==                                                 \* fault
  /\ srv.at \in {"read", "handle"} /\ up # <<>>
  /\ srv' = [at |-> "handle", packet |-> Head(up)] /\ up' = Tail(up)
  /\ UNCHANGED <<clientVars, broken, sent, down, got>>
ServerReads ==
  /\ srv = Idle /\ up # <<>>
  /\ srv' = [at |-> "handle", packet |-> Head(up)] /\ up' = Tail(up)
  /\ UNCHANGED <<clientVars, broken, sent, down, got>>

(* The handler is done, or was not needed. *)
ServerHandles(ok) ==
  /\ srv.at = "handle" /\ ok \in HandlerOk(srv.packet)
  /\ srv' = [at |-> "write", packet |-> Response(srv.packet, ok)]
  /\ UNCHANGED <<clientVars, broken, sent, up, down, got>>

(* write_all and flush.  An error is logged, the response is lost and the   *)
(* loop reads on; a stream that failed once does not recover.               *)
ServerWrites ==
  /\ srv.at = "write" /\ Len(down) < Cap /\ ~broken /\ ~Gone /\ conn # "lost"
  /\ down' = Append(down, srv.packet) /\ srv' = Idle
  /\ UNCHANGED <<clientVars, broken, sent, up, got>>

ServerWriteFails_Retry ==                                            \* fault
  /\ srv.at = "write"
  /\ broken' = TRUE
  /\ UNCHANGED <<clientVars, srv, sent, up, down, got>>
ServerWriteFails ==
  /\ srv.at = "write"
  /\ broken' = TRUE /\ srv' = Idle
  /\ UNCHANGED <<clientVars, sent, up, down, got>>

(* UnexpectedEof: the loop is left. *)
ServerEnds ==
  /\ srv = Idle
  /\ conn = "lost" \/ (up = <<>> /\ (conn = "shut" \/ Gone))
  /\ srv' = Ended
  /\ UNCHANGED <<clientVars, broken, sent, up, down, got>>

(* External: the connection is cut.  Each side may still read some of what  *)
(* is on its way and then meets the end of the stream.                      *)
ConnectionLost ==
  /\ conn # "lost" /\ conn' = "lost"
  /\ UNCHANGED <<queue, writer, reader, cancelled, serverVars, sent, up, down, got>>

WriterStep == WriterTakes \/ WriterWrites \/ WriterShuts \/ WriterCancelled

Next ==
  \/ \E kind \in PacketKinds : Call(kind)
  \/ CloseSession \/ WriterStep \/ ReaderReads \/ ReaderEnds
  \/ ServerReads \/ ServerWrites \/ ServerWriteFails \/ ServerEnds \/ ConnectionLost
  \/ \E ok \in BOOLEAN : ServerHandles(ok)

Spec == Init /\ [][Next]_vars

(* The runtime polls the tasks, the handler's futures complete, and a write *)
(* to a stream that is broken, gone or lost fails.  select! picks among its *)
(* ready branches at random: a queue that never runs dry does not hide the  *)
(* token.                                                                   *)
Fairness == /\ WF_vars(WriterStep) /\ SF_vars(WriterCancelled)
            /\ WF_vars(ReaderReads) /\ WF_vars(ReaderEnds)
            /\ WF_vars(ServerReads) /\ WF_vars(ServerWrites) /\ WF_vars(ServerEnds)
            /\ WF_vars((broken \/ Gone \/ conn = "lost") /\ ServerWriteFails)
            /\ WF_vars(\E ok \in BOOLEAN : ServerHandles(ok))
FairSpec == Spec /\ Fairness

-----------------------------------------------------------------------------
(* Properties *)

(* Everything the server has answered, oldest first. *)
Answered == got \o down \o (IF srv.at = "write" THEN <<srv.packet>> ELSE <<>>)

(* Packets are answered in order and each at most once; while the stream    *)
(* works none is passed over: the answers, the packet in hand and the       *)
(* packets not yet read are the packets that were sent.                     *)
OneAnswerEach ==
  LET done == Len(Answered)
      held == IF srv.at = "handle" THEN <<srv.packet>> ELSE <<>>
  IN  /\ \A i, j \in 1 .. done : i < j => Answered[i].num < Answered[j].num
      /\ ~broken => /\ \A i \in 1 .. done : Answered[i].num = i
                    /\ SubSeq(sent, done + 1, Len(sent)) = held \o up

(* Every packet is answered in the end, however little the stream holds: a  *)
(* server that waits to write does not wait for a client that waits to      *)
(* write.  Only close_session and the loss of the connection cut this short:*)
(* the reader follows the writer at once and leaves answers on the stream.  *)
AllAnswered ==
  \A n \in 1 .. MaxRequests :
    Len(sent) >= n ~> Len(got) >= n \/ broken \/ cancelled

(* close_session stops everything, although the writer has to get rid of    *)
(* what is queued before it and does not look at the token meanwhile, and   *)
(* so does the loss of the connection, although only the reader notices it: *)
(* both tasks end and the server's loop, also when both directions of the   *)
(* stream are full and while calls go on.                                   *)
CloseStopsAll == Closing \/ conn = "lost" ~> (Gone /\ srv = Ended)

(* server/handler.rs:10, "a response must be sent to any request, even if   *)
(* completed by error": the client finds the call that waits for it, under  *)
(* the id of a request and under None for Init, which only Version leads to.*)
ErrorReachesCaller ==
  \A i \in 1 .. Len(got) :
    LET p == sent[got[i].num] IN
    \/ p.kind = "Init" /\ got[i].kind = "Version"
    \/ p.kind = "Request" /\ got[i].id = p.num
    \/ p.kind = "Other"
=============================================================================
