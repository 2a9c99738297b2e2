----------------------------- MODULE PacketStream -----------------------------
(***************************************************************************)
(* One direction of the stream, byte by byte: a sender that writes packets  *)
(* (TryFrom<Packet> for Bytes), and the loops of client::run and            *)
(* server::run that take frames off it (read_packet) and decode them.       *)
(*                                                                          *)
(* The peer need not use this crate: it may also write frames whose body    *)
(* is not what the crate would write, and the stream may end anywhere.      *)
(***************************************************************************)
EXTENDS PacketCodec

CONSTANTS Packets,     \* packets the sender writes
          Foreign,     \* external: bodies another implementation writes
          MaxFrames,   \* bound: frames on the stream
          MaxShort     \* bound: frames whose body breaks off

VARIABLES wire,    \* bytes written and not read yet
          sent,    \* history: what was written, frame by frame
          lost,    \* history: bytes the end of the stream cut off
          eof,     \* the stream has ended
          got,     \* what each frame was decoded to
          loop     \* the receiving loop: "reading" or "ended"

vars == <<wire, sent, lost, eof, got, loop>>

(* A packet is a sequence of bytes whose length a u32 can hold: get_u32     *)
(* reads from the length field what put_u32 wrote to it.                    *)
ASSUME StreamAssumption ==
  /\ W32 \in Nat \ {0} /\ MaxFrames \in Nat /\ MaxShort \in Nat
  /\ \A body \in {Body(p) : p \in Packets} \cup Foreign :
       /\ body \in Seq(0 .. 255)
       /\ \A n \in 0 .. Len(body) : Number(Put(W32, n)) = n

NoPacket == [type |-> "none", fields |-> <<>>]

Init == /\ wire = <<>> /\ sent = <<>> /\ lost = 0 /\ eof = FALSE
        /\ got = <<>> /\ loop = "reading"

(* Where the k-th of the frames ends on the stream. *)
FrameEnd(frames, k) == IF k = 0 THEN 0 ELSE frames[k].end

Write(body, p, short) ==
  /\ ~eof /\ Len(sent) < MaxFrames
  /\ wire' = wire \o Frame(body)
  /\ sent' = Append(sent, [body |-> body, packet |-> p, short |-> short,
                           end |-> FrameEnd(sent, Len(sent)) + W32 + Len(body)])
  /\ UNCHANGED <<lost, eof, got, loop>>

SendPacket(p) == Write(Body(p), p, 0)

(* The last n bytes of the body are missing, and the length says so.        *)
SendShort(p, n) ==
  LET b == Body(p) IN
  /\ Cardinality({i \in 1 .. Len(sent) : sent[i].short > 0}) < MaxShort
  /\ Write(SubSeq(b, 1, Len(b) - n), p, n)

SendForeign(body) == Write(body, NoPacket, 0)

(* The stream ends, and what is under way may be cut. *)
Ends(n) ==
  /\ ~eof /\ eof' = TRUE
  /\ lost' = n /\ wire' = SubSeq(wire, 1, Len(wire) - n)
  /\ UNCHANGED <<sent, got, loop>>

(* read_packet waits for the length and for as many bytes. *)
Complete == Len(wire) >= W32 /\ Len(wire) - W32 >= Get(W32, wire).val

(* One round of the loop: the frame leaves the stream before it is decoded, *)
(* and an error of decoding does not end the loop.                          *)
Read_Strict ==                                                       \* fault
  LET n == Get(W32, wire).val
      p == TryFrom(SubSeq(wire, W32 + 1, W32 + n))
  IN
  /\ loop = "reading" /\ Complete
  /\ got' = Append(got, p)
  /\ wire' = SubSeq(wire, W32 + n + 1, Len(wire))
  /\ loop' = IF p = Bad THEN "ended" ELSE "reading"
  /\ UNCHANGED <<sent, lost, eof>>
Read ==
  LET n == Get(W32, wire).val IN
  /\ loop = "reading" /\ Complete
  /\ got' = Append(got, TryFrom(SubSeq(wire, W32 + 1, W32 + n)))
  /\ wire' = SubSeq(wire, W32 + n + 1, Len(wire))
  /\ UNCHANGED <<sent, lost, eof, loop>>

(* UnexpectedEof, in the length or in the body: the loop is left. *)
ReadEof ==
  /\ loop = "reading" /\ eof /\ ~Complete
  /\ loop' = "ended" /\ wire' = <<>>
  /\ UNCHANGED <<sent, lost, eof, got>>

Next ==
  \/ \E p \in Packets : SendPacket(p)
  \/ \E p \in Packets : \E n \in 1 .. Len(Body(p)) : SendShort(p, n)
  \/ \E body \in Foreign : SendForeign(body)
  \/ \E n \in 0 .. Len(wire) : Ends(n)
  \/ Read \/ ReadEof

Spec == Init /\ [][Next]_vars

-----------------------------------------------------------------------------
(* Properties *)

Same(p, q) == p.type = q.type /\ p.fields = q.fields

(* What a packet is to the receiver: attributes come as they are after one  *)
(* transfer, and a map has no order.                                        *)
Canon(p) ==
  [type |-> p.type,
   fields |-> [i \in 1 .. Len(p.fields) |->
     LET v == p.fields[i]
         Sent(a) == Deserialize(Serialize(a))
     IN  CASE Fields(p.type)[i] = "attrs" -> Sent(v)
           [] Fields(p.type)[i] = "map"   -> MapOf(v)
           [] Fields(p.type)[i] = "files" ->
                [j \in 1 .. Len(v) |-> [v[j] EXCEPT !.attrs = Sent(@)]]
           [] OTHER -> v]]

(* Frame by frame the receiver sees what was written: a frame that does not *)
(* decode, is too short for its fields or has bytes to spare, does not      *)
(* shift the frames behind it, and a cut stream yields no part of a frame.  *)
InStep ==
  /\ Len(got) <= Len(sent)
  /\ \A i \in 1 .. Len(got) : Same(got[i], TryFrom(sent[i].body))

(* What the crate writes the crate reads, whatever the packet and whatever  *)
(* came before it on the stream.                                            *)
Understood ==
  \A i \in 1 .. Len(got) :
    sent[i].packet # NoPacket /\ sent[i].short = 0 => Same(got[i], Canon(sent[i].packet))

(* The loop ends at the end of the stream only, and after every frame that  *)
(* arrived whole.                                                           *)
EndsAtEof ==
  loop = "ended" =>
    /\ eof
    /\ \A k \in 1 .. Len(sent) :
         FrameEnd(sent, k) <= FrameEnd(sent, Len(sent)) - lost => Len(got) >= k

(* The attribute block that ends a packet, the one of its last file too.    *)
LastAttrs(p) ==
  LET kind == Last(Fields(p.type))
      v == Last(p.fields)
  IN  CASE kind = "attrs" -> {PutAttrs(v)}
        [] kind = "files" /\ v # <<>> -> {PutAttrs(Last(v).attrs)}
        [] OTHER -> {}

(* The last field of a packet may be shorter: extensions and extended data  *)
(* by a part, attributes altogether.                                        *)
MayLack(p, n) ==
  \/ /\ Last(Fields(p.type)) \in {"map", "data"}
     /\ n <= Len(PutField(Last(Fields(p.type)), Last(p.fields)))
  \/ \E block \in LastAttrs(p) : n = Len(block)

(* A body that breaks off early is refused, and not completed with made-up  *)
(* fields, unless it breaks off in its last field and that may be shorter.  *)
ShortRefused ==
  \A i \in 1 .. Len(got) :
    sent[i].short > 0 /\ got[i].type # "Bad" => MayLack(sent[i].packet, sent[i].short)
=============================================================================
