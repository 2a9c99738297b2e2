---------------------------------- MODULE Rpc ----------------------------------
(***************************************************************************)
(* What RawSftpSession promises to its callers, without ids, map, queue,    *)
(* channels and tasks: a remote procedure call that is carried out at most  *)
(* once.  A request is answered at most once, its answer goes to the call   *)
(* that made it, and a call succeeds only with the answer to its request.   *)
(*                                                                          *)
(* Two things can come between: packets nobody asked for, and an answer     *)
(* that is IdSpace requests late.                                           *)
(***************************************************************************)
EXTENDS Integers

CONSTANTS Callers, Ops,  \* who calls what
          Expects,       \* per method: the kind of packet that means success
          Kinds,         \* kinds of answers
          IdSpace        \* how many requests apart an answer may be mistaken

VARIABLES call,     \* per caller: its call
          result,   \* per caller: what its last call returned
          wire,     \* requests that may still be answered
          issued,   \* requests made
          ready,    \* the handshake is over
          strays    \* packets nobody asked for

vars == <<call, result, wire, issued, ready, strays>>

NoAnswer == [kind |-> "NoReply", ser |-> 0]
NoCall   == [op |-> "none", num |-> 0, answer |-> NoAnswer]

Local  == {"Limited", "SessionClosed", "SendError", "RecvNone", "Timeout", "Dropped"}
Remote == {"Ok", "Status", "UnexpectedPacket", "DuplicateVersion", "BadReply"}

Waits(p) == call[p] # NoCall /\ call[p].answer = NoAnswer

(* Packets before the handshake become errors. *)
Given(kind) == IF ready THEN kind ELSE "UnexpectedPacket"

Fits(o, kind) == /\ kind \notin {"UnexpectedPacket", "DuplicateVersion"}
                 /\ o = "extended" \/ kind = Expects[o]

Init == /\ call = [p \in Callers |-> NoCall] /\ result = [p \in Callers |-> "none"]
        /\ wire = {} /\ issued = 0 /\ ready = FALSE /\ strays = 0

Call(p, o) ==
  /\ call[p] = NoCall
  /\ issued' = issued + 1
  /\ call' = [call EXCEPT ![p] = [op |-> o, num |-> issued + 1, answer |-> NoAnswer]]
  /\ result' = [result EXCEPT ![p] = "none"]
  /\ wire' = wire \cup {[op |-> o, num |-> issued + 1]}
  /\ UNCHANGED <<ready, strays>>

(* No request is made: the call is refused at once, or it is the handshake. *)
Refuse(p, r) ==
  /\ call[p] = NoCall
  /\ result' = [result EXCEPT ![p] = r]
  /\ issued' \in {issued, issued + 1}
  /\ UNCHANGED <<call, wire, ready, strays>>

Ready ==
  /\ ready' = TRUE
  /\ strays' \in {strays, strays + 1}
  /\ UNCHANGED <<call, result, wire, issued>>

Lose(ws) == /\ wire' = wire \ ws
            /\ UNCHANGED <<call, result, issued, ready, strays>>

(* The answer to w reaches the call that waits for it, or one that came a   *)
(* whole round of ids later.                                                *)
Answer(w, p, kind) ==
  /\ Waits(p)
  /\ call[p].num = w.num \/ call[p].num - w.num >= IdSpace
  /\ call' = [call EXCEPT ![p].answer = [kind |-> Given(kind), ser |-> w.num]]
  /\ wire' = wire \ {w}
  /\ UNCHANGED <<result, issued, ready, strays>>

(* It is dropped only if nobody waits for it (any more). *)
AnswerLate(w) ==
  /\ issued <= IdSpace => ~\E p \in Callers : Waits(p) /\ call[p].num = w.num
  /\ wire' = wire \ {w}
  /\ UNCHANGED <<call, result, issued, ready, strays>>

(* A packet nobody asked for, taken for the answer of a call that waits. *)
Stray(p, kind) ==
  /\ Waits(p)
  /\ call' = [call EXCEPT ![p].answer = [kind |-> Given(kind), ser |-> 0]]
  /\ strays' = strays + 1
  /\ UNCHANGED <<result, wire, issued, ready>>

StrayDropped == strays' = strays + 1 /\ UNCHANGED <<call, result, wire, issued, ready>>

Return(p, r) ==
  LET c == call[p] IN
  /\ c # NoCall
  /\ r \in Remote => c.answer # NoAnswer /\ (r = "Ok" <=> Fits(c.op, c.answer.kind))
  /\ r = "RecvNone" => issued > IdSpace
  /\ call' = [call EXCEPT ![p] = NoCall]
  /\ result' = [result EXCEPT ![p] = r]
  /\ wire' = IF r = "SendError" THEN wire \ {[op |-> c.op, num |-> c.num]} ELSE wire
  /\ UNCHANGED <<issued, ready, strays>>

Next ==
  \/ \E p \in Callers : \/ \E o \in Ops : Call(p, o)
                        \/ \E r \in Local \cup {"none"} : Refuse(p, r)
                        \/ \E r \in Local \cup Remote : Return(p, r)
                        \/ \E kind \in Kinds : Stray(p, kind)
                        \/ \E w \in wire, kind \in Kinds : Answer(w, p, kind)
  \/ \E w \in wire : AnswerLate(w)
  \/ \E ws \in SUBSET wire : Lose(ws)
  \/ Ready \/ StrayDropped

Spec == Init /\ [][Next]_vars
=============================================================================
