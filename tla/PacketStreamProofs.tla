-------------------------- MODULE PacketStreamProofs --------------------------
(* Theorems about PacketStream, for all packets and any number of frames. *)
EXTENDS PacketStream, SequenceTheorems, TLAPS

(* What stands on the stream: bytes of a body and those of put_u32. *)
Bytes == 0 .. 255 \cup {Put(W32, n)[i] : n \in Nat, i \in 1 .. W32}

(* Bodies whose length survives put_u32 and get_u32. *)
Bodies == {b \in Seq(Bytes) : Number(Put(W32, Len(b))) = Len(b)}

Frames == [body : Bodies, packet : Packets \cup {NoPacket}, short : Nat, end : Nat]

TypeInv ==
  /\ wire \in Seq(Bytes) /\ lost \in Nat /\ eof \in BOOLEAN
  /\ loop \in {"reading", "ended"}
  /\ sent \in Seq(Frames)
  /\ got \in Seq({TryFrom(b) : b \in Seq(Bytes)}) /\ Len(got) <= Len(sent)

(* The frames lie on the stream end to end. *)
Abutting ==
  /\ \A k \in 1 .. Len(sent) : FrameEnd(sent, k) = FrameEnd(sent, k - 1) + W32 + Len(sent[k].body)
  /\ \A j, k \in 0 .. Len(sent) : j <= k => FrameEnd(sent, j) <= FrameEnd(sent, k)

(* While the loop reads, the bytes under way are those of the frames behind *)
(* the last one it took, up to where the stream was cut.                    *)
Unread ==
  loop = "reading" =>
    /\ Len(wire) = FrameEnd(sent, Len(sent)) - lost - FrameEnd(sent, Len(got))
    /\ \A k \in Len(got) + 1 .. Len(sent) :
         \A j \in 1 .. W32 + Len(sent[k].body) :
           LET at == FrameEnd(sent, k - 1) - FrameEnd(sent, Len(got)) + j
           IN  at <= Len(wire) => wire[at] = Frame(sent[k].body)[j]

Decoded == \A i \in 1 .. Len(got) : got[i] = TryFrom(sent[i].body)

StreamInv ==
  /\ TypeInv /\ Abutting /\ Unread /\ Decoded /\ EndsAtEof
  /\ ~eof => lost = 0

-----------------------------------------------------------------------------
(* The frame of a body: the length, then the body. *)
LEMMA PutType ==
  ASSUME NEW n \in Nat
  PROVE  Put(W32, n) \in Seq(Bytes) /\ Len(Put(W32, n)) = W32
<1>1. W32 \in Nat
  BY StreamAssumption
<1>2. DOMAIN Put(W32, n) = 1 .. W32
  BY DEF Put
<1>3. \A i \in 1 .. W32 : Put(W32, n)[i] \in Bytes
  BY DEF Bytes
<1>4. Put(W32, n) = [i \in 1 .. W32 |-> Put(W32, n)[i]]
  BY DEF Put
<1> HIDE DEF Put
<1> QED
  BY <1>1, <1>2, <1>3, <1>4, LenProperties

LEMMA FrameIs ==
  ASSUME NEW b \in Bodies
  PROVE  /\ Frame(b) \in Seq(Bytes) /\ Len(b) \in Nat /\ Len(Frame(b)) = W32 + Len(b)
         /\ \A j \in 1 .. W32 : Frame(b)[j] = Put(W32, Len(b))[j]
         /\ \A j \in 1 .. Len(b) : Frame(b)[W32 + j] = b[j]
<1>1. b \in Seq(Bytes) /\ Len(b) \in Nat
  BY DEF Bodies
<1>2. Put(W32, Len(b)) \in Seq(Bytes) /\ Len(Put(W32, Len(b))) = W32
  BY <1>1, PutType
<1>3. W32 \in Nat \ {0}
  BY StreamAssumption
<1>4. /\ Frame(b) \in Seq(Bytes) /\ Len(Frame(b)) = W32 + Len(b)
      /\ \A j \in 1 .. W32 + Len(b) :
           Frame(b)[j] = IF j <= W32 THEN Put(W32, Len(b))[j] ELSE b[j - W32]
  <2> DEFINE l == Put(W32, Len(b))
  <2> HIDE DEF l
  <2>1. Frame(b) = l \o b /\ l \in Seq(Bytes) /\ Len(l) = W32
    BY <1>2 DEF Frame, l
  <2>2. /\ Frame(b) \in Seq(Bytes) /\ Len(Frame(b)) = W32 + Len(b)
        /\ \A j \in 1 .. W32 + Len(b) : Frame(b)[j] = IF j <= W32 THEN l[j] ELSE b[j - W32]
    BY <1>1, <2>1, ConcatProperties
  <2> QED
    BY <2>2 DEF l
<1>5. \A j \in 1 .. W32 : Frame(b)[j] = Put(W32, Len(b))[j]
  BY <1>1, <1>3, <1>4
<1>6. ASSUME NEW j \in 1 .. Len(b) PROVE Frame(b)[W32 + j] = b[j]
  BY <1>1, <1>3, <1>4
<1> QED
  BY <1>1, <1>4, <1>5, <1>6

(* Every body the sender may write is one, and so is what is left of it     *)
(* when it breaks off.                                                      *)
LEMMA SentWhole ==
  ASSUME NEW b \in {Body(p) : p \in Packets} \cup Foreign
  PROVE  b \in Bodies
<1>1. b \in Seq(0 .. 255) /\ Len(b) \in Nat
      /\ \A m \in 0 .. Len(b) : Number(Put(W32, m)) = m
  BY StreamAssumption
<1>2. b \in Seq(Bytes)
  BY <1>1, SeqMonotonic DEF Bytes
<1> QED
  BY <1>1, <1>2 DEF Bodies

LEMMA SentShort ==
  ASSUME NEW b \in {Body(p) : p \in Packets} \cup Foreign, NEW n \in 1 .. Len(b)
  PROVE  SubSeq(b, 1, Len(b) - n) \in Bodies
<1>1. b \in Seq(Bytes) /\ Len(b) \in Nat
  BY SentWhole DEF Bodies
<1>2. Len(b) - n \in 0 .. Len(b)
  BY <1>1
<1>3. \A i \in 1 .. Len(b) - n : b[i] \in Bytes
  BY <1>1, <1>2, ElementOfSeq
<1>4. /\ SubSeq(b, 1, Len(b) - n) \in Seq(Bytes)
      /\ Len(SubSeq(b, 1, Len(b) - n)) = Len(b) - n
  BY <1>2, <1>3, SubSeqProperties
<1>5. Number(Put(W32, Len(b) - n)) = Len(b) - n
  BY <1>2, StreamAssumption
<1> QED
  BY <1>4, <1>5 DEF Bodies

-----------------------------------------------------------------------------
LEMMA EndType ==
  ASSUME TypeInv, NEW k \in 0 .. Len(sent)
  PROVE  FrameEnd(sent, k) \in Nat
<1>1. sent \in Seq(Frames) /\ Len(sent) \in Nat
  BY DEF TypeInv
<1>2. k # 0 => sent[k] \in Frames
  BY <1>1, ElementOfSeq
<1> QED
  BY <1>2 DEF FrameEnd, Frames

(* A frame is written behind the others. *)
LEMMA WriteStep ==
  ASSUME StreamInv, NEW b \in Bodies, NEW p \in Packets \cup {NoPacket}, NEW n \in Nat,
         Write(b, p, n)
  PROVE  StreamInv'
<1>a. PICK N \in Nat : N = Len(sent)
  BY DEF StreamInv, TypeInv
<1>b. PICK G \in Nat : G = Len(got)
  BY DEF StreamInv, TypeInv
<1> DEFINE e == FrameEnd(sent, N) + W32 + Len(b)
           f == [body |-> b, packet |-> p, short |-> n, end |-> e]
<1>0. /\ TypeInv /\ Abutting /\ Unread /\ Decoded /\ loop = "reading" /\ lost = 0
      /\ UNCHANGED <<lost, eof, got, loop>>
  BY DEF Write, StreamInv, TypeInv, EndsAtEof
<1>1. /\ N = Len(sent) /\ G = Len(got) /\ G <= N /\ W32 \in Nat \ {0} /\ Len(b) \in Nat
      /\ Len(wire) \in Nat /\ wire \in Seq(Bytes) /\ sent \in Seq(Frames)
  BY <1>a, <1>b, <1>0, StreamAssumption DEF TypeInv, Bodies
<1>2. /\ \A k \in 0 .. N : FrameEnd(sent, k) \in Nat
      /\ FrameEnd(sent, N) \in Nat /\ FrameEnd(sent, G) \in Nat
      /\ e \in Nat /\ f \in Frames /\ f.body = b /\ f.end = e
  BY <1>0, <1>1, EndType DEF Frames
<1>3. sent' = Append(sent, f)
  BY <1>1 DEF Write
<1> HIDE DEF e, f
<1>4. /\ sent' \in Seq(Frames) /\ Len(sent') = N + 1 /\ sent'[N + 1] = f
      /\ \A k \in 1 .. N : sent'[k] = sent[k]
  BY <1>1, <1>2, <1>3, AppendProperties
<1>5. /\ Frame(b) \in Seq(Bytes) /\ Len(Frame(b)) = W32 + Len(b)
  BY FrameIs
<1>6. /\ wire' \in Seq(Bytes) /\ Len(wire') = Len(wire) + W32 + Len(b)
      /\ \A i \in 1 .. Len(wire) : wire'[i] = wire[i]
      /\ \A j \in 1 .. W32 + Len(b) : wire'[Len(wire) + j] = Frame(b)[j]
  <2> DEFINE g == Frame(b)
  <2> HIDE DEF g
  <2>1. g \in Seq(Bytes) /\ Len(g) = W32 + Len(b) /\ wire' = wire \o g
    BY <1>5 DEF Write, g
  <2>2. /\ wire' \in Seq(Bytes) /\ Len(wire') = Len(wire) + Len(g)
        /\ \A i \in 1 .. Len(wire) + Len(g) :
             wire'[i] = IF i <= Len(wire) THEN wire[i] ELSE g[i - Len(wire)]
    <3>1. wire \in Seq(Bytes) /\ g \in Seq(Bytes)
      BY <1>1, <2>1
    <3>2. /\ wire \o g \in Seq(Bytes) /\ Len(wire \o g) = Len(wire) + Len(g)
          /\ \A i \in 1 .. Len(wire) + Len(g) :
               (wire \o g)[i] = IF i <= Len(wire) THEN wire[i] ELSE g[i - Len(wire)]
      BY <3>1, ConcatProperties
    <3> QED
      BY <2>1, <3>2
  <2>3. Len(wire') = Len(wire) + W32 + Len(b)
    BY <1>1, <2>1, <2>2
  <2>4. \A i \in 1 .. Len(wire) : wire'[i] = wire[i]
    BY <1>1, <2>1, <2>2
  <2>5. \A j \in 1 .. W32 + Len(b) : wire'[Len(wire) + j] = g[j]
    BY <1>1, <2>1, <2>2
  <2> QED
    BY <2>2, <2>3, <2>4, <2>5 DEF g
<1>7. TypeInv'
  BY <1>0, <1>1, <1>4, <1>6 DEF TypeInv
<1>8. (\A k \in 0 .. N : FrameEnd(sent', k) = FrameEnd(sent, k)) /\ FrameEnd(sent', N + 1) = e
  BY <1>1, <1>2, <1>4 DEF FrameEnd
<1>9. e = FrameEnd(sent, N) + W32 + Len(b)
  BY DEF e
<1>10. Abutting'
  <2>1. ASSUME NEW k \in 1 .. N + 1
        PROVE  FrameEnd(sent', k) = FrameEnd(sent', k - 1) + W32 + Len(sent'[k].body)
    <3>1. CASE k \in 1 .. N
      <4>1. k - 1 \in 0 .. N /\ k \in 0 .. N
        BY <1>1, <3>1
      <4>2. /\ FrameEnd(sent', k) = FrameEnd(sent, k) /\ FrameEnd(sent', k - 1) = FrameEnd(sent, k - 1)
            /\ sent'[k].body = sent[k].body
        BY <1>4, <1>8, <3>1, <4>1
      <4>3. FrameEnd(sent, k) = FrameEnd(sent, k - 1) + W32 + Len(sent[k].body)
        BY <1>0, <1>1, <3>1 DEF Abutting
      <4> QED
        BY <4>2, <4>3
    <3>2. CASE k = N + 1
      <4>1. k - 1 = N /\ N \in 0 .. N
        BY <1>1, <3>2
      <4> QED
        BY <1>2, <1>4, <1>8, <1>9, <3>2, <4>1
    <3> QED
      BY <1>1, <3>1, <3>2
  <2>2. ASSUME NEW j \in 0 .. N + 1, NEW k \in 0 .. N + 1, j <= k
        PROVE  FrameEnd(sent', j) <= FrameEnd(sent', k)
    <3>1. CASE k \in 0 .. N
      <4>1. j \in 0 .. N
        BY <1>1, <2>2, <3>1
      <4>2. FrameEnd(sent', j) = FrameEnd(sent, j) /\ FrameEnd(sent', k) = FrameEnd(sent, k)
        BY <1>8, <3>1, <4>1
      <4>3. FrameEnd(sent, j) <= FrameEnd(sent, k)
        BY <1>0, <1>1, <2>2, <3>1, <4>1 DEF Abutting
      <4> QED
        BY <4>2, <4>3
    <3>2. CASE k = N + 1 /\ j \in 0 .. N
      <4>1. FrameEnd(sent, j) <= FrameEnd(sent, N) /\ FrameEnd(sent, j) \in Nat /\ FrameEnd(sent, N) \in Nat
        BY <1>0, <1>1, <1>2, <3>2 DEF Abutting
      <4> QED
        BY <1>1, <1>8, <1>9, <3>2, <4>1
    <3>3. CASE k = N + 1 /\ j = N + 1
      BY <1>2, <1>8, <3>3
    <3> QED
      BY <1>1, <3>1, <3>2, <3>3
  <2> QED
    BY <1>4, <2>1, <2>2 DEF Abutting
<1>11. Unread'
  <2>1. Len(wire) = FrameEnd(sent, N) - FrameEnd(sent, G)
    BY <1>0, <1>1, <1>2 DEF Unread
  <2>2. Len(wire') = FrameEnd(sent', N + 1) - FrameEnd(sent, G)
    <3>1. Len(wire') = Len(wire) + W32 + Len(b)
      BY <1>6
    <3>2. FrameEnd(sent', N + 1) = FrameEnd(sent, N) + W32 + Len(b)
      BY <1>8, <1>9
    <3>3. FrameEnd(sent, N) \in Nat /\ FrameEnd(sent, G) \in Nat /\ W32 \in Nat /\ Len(b) \in Nat
      BY <1>1, <1>2
    <3> QED
      BY <2>1, <3>1, <3>2, <3>3
  <2>3. ASSUME NEW k \in G + 1 .. N + 1, NEW j \in 1 .. W32 + Len(sent'[k].body)
        PROVE  wire'[FrameEnd(sent', k - 1) - FrameEnd(sent, G) + j] = Frame(sent'[k].body)[j]
    <3> DEFINE at == FrameEnd(sent, k - 1) - FrameEnd(sent, G) + j
    <3>1. CASE k \in G + 1 .. N
      <4>1. /\ k \in 1 .. N /\ k \in 0 .. N /\ k - 1 \in 0 .. N /\ G \in 0 .. N /\ G <= k - 1
            /\ N \in 0 .. N /\ sent'[k] = sent[k] /\ j \in 1 .. W32 + Len(sent[k].body)
        BY <1>1, <1>4, <2>3, <3>1
      <4>2. /\ FrameEnd(sent, G) <= FrameEnd(sent, k - 1) /\ FrameEnd(sent, k) <= FrameEnd(sent, N)
            /\ FrameEnd(sent, k) = FrameEnd(sent, k - 1) + W32 + Len(sent[k].body)
        <5>1. FrameEnd(sent, k) = FrameEnd(sent, k - 1) + W32 + Len(sent[k].body)
          BY <1>0, <1>1, <4>1 DEF Abutting
        <5>2. \A i, m \in 0 .. N : i <= m => FrameEnd(sent, i) <= FrameEnd(sent, m)
          BY <1>0, <1>1 DEF Abutting
        <5>3. k <= N
          BY <4>1
        <5> QED
          BY <4>1, <5>1, <5>2, <5>3
      <4>3. Len(sent[k].body) \in Nat
        <5>1. sent[k] \in Frames
          BY <1>1, <4>1, ElementOfSeq
        <5> QED
          BY <5>1 DEF Frames, Bodies
      <4>4. at \in 1 .. Len(wire)
        <5>1. FrameEnd(sent, k) \in Nat /\ FrameEnd(sent, k - 1) \in Nat
          BY <1>2, <4>1
        <5>2. FrameEnd(sent, N) \in Nat /\ FrameEnd(sent, G) \in Nat /\ W32 \in Nat
          BY <1>1, <1>2
        <5>3. j \in Nat /\ j >= 1 /\ j <= W32 + Len(sent[k].body)
          BY <4>1, <4>3, <5>2
        <5> DEFINE a == FrameEnd(sent, k - 1)
                   c == FrameEnd(sent, G)
                   l == W32 + Len(sent[k].body)
                   y == FrameEnd(sent, k)
                   z == FrameEnd(sent, N)
        <5>4. a \in Nat /\ c \in Nat /\ y \in Nat /\ z \in Nat /\ l \in Nat
          BY <4>3, <5>1, <5>2
        <5>5. c <= a /\ y = a + l /\ y <= z /\ j <= l /\ Len(wire) = z - c /\ at = a - c + j
          BY <2>1, <4>2, <4>3, <5>1, <5>2, <5>3
        <5> HIDE DEF a, c, l, y, z, at
        <5> QED
          BY <5>3, <5>4, <5>5
      <4>5. wire[at] = Frame(sent[k].body)[j]
        <5>1. \A i \in G + 1 .. N : \A m \in 1 .. W32 + Len(sent[i].body) :
                FrameEnd(sent, i - 1) - FrameEnd(sent, G) + m <= Len(wire) =>
                  wire[FrameEnd(sent, i - 1) - FrameEnd(sent, G) + m] = Frame(sent[i].body)[m]
          BY <1>0, <1>1 DEF Unread
        <5>2. at <= Len(wire)
          BY <1>1, <4>4
        <5> QED
          BY <3>1, <4>1, <5>1, <5>2
      <4> QED
        BY <1>6, <1>8, <4>1, <4>4, <4>5
    <3>2. CASE k = N + 1
      <4>1. k - 1 = N /\ N \in 0 .. N /\ sent'[k].body = b
        BY <1>1, <1>2, <1>4, <3>2
      <4>2. at = Len(wire) + j
        BY <2>1, <4>1
      <4> QED
        BY <1>6, <1>8, <2>3, <4>1, <4>2
    <3>3. k \in G + 1 .. N \/ k = N + 1
      BY <1>1
    <3> QED
      BY <3>1, <3>2, <3>3
  <2>4. FrameEnd(sent', G) = FrameEnd(sent, G) /\ got' = got
    BY <1>0, <1>1, <1>8
  <2>5. FrameEnd(sent', N + 1) \in Nat
    BY <1>2, <1>8
  <2> QED
    <3>1. Len(sent') = N + 1 /\ Len(got') = G /\ lost' = 0
      BY <1>0, <1>1, <1>4, <2>4
    <3>2. Len(wire') = FrameEnd(sent', Len(sent')) - lost' - FrameEnd(sent', Len(got'))
      BY <1>2, <2>2, <2>4, <2>5, <3>1
    <3> QED
      BY <2>3, <2>4, <3>1, <3>2 DEF Unread
<1>12. Decoded'
  BY <1>0, <1>1, <1>4 DEF Decoded
<1> QED
  BY <1>0, <1>7, <1>10, <1>11, <1>12 DEF StreamInv, EndsAtEof

-----------------------------------------------------------------------------
(* The first bytes under way are those of the next frame. *)
LEMMA NextFrame ==
  ASSUME StreamInv, loop = "reading", NEW G \in Nat, G = Len(got), Len(wire) >= W32
  PROVE  /\ G + 1 \in 1 .. Len(sent) /\ sent[G + 1].body \in Bodies
         /\ \A j \in 1 .. W32 + Len(sent[G + 1].body) :
              j <= Len(wire) => wire[j] = Frame(sent[G + 1].body)[j]
<1>0. TypeInv /\ Unread
  BY DEF StreamInv
<1>1. /\ Len(wire) \in Nat /\ Len(sent) \in Nat /\ G <= Len(sent) /\ lost \in Nat
      /\ sent \in Seq(Frames) /\ W32 \in Nat \ {0}
  BY <1>0, StreamAssumption DEF TypeInv
<1>2. Len(wire) = FrameEnd(sent, Len(sent)) - lost - FrameEnd(sent, G)
  BY <1>0 DEF Unread
<1>3. FrameEnd(sent, Len(sent)) \in Nat /\ FrameEnd(sent, G) \in Nat
  BY <1>0, <1>1, EndType
<1>4. G # Len(sent)
  BY <1>1, <1>2, <1>3
<1>5. G + 1 \in 1 .. Len(sent)
  BY <1>1, <1>4
<1>6. sent[G + 1] \in Frames
  BY <1>1, <1>5, ElementOfSeq
<1>7. sent[G + 1].body \in Bodies
  BY <1>6 DEF Frames
<1>8. ASSUME NEW j \in 1 .. W32 + Len(sent[G + 1].body), j <= Len(wire)
      PROVE  wire[j] = Frame(sent[G + 1].body)[j]
  <2>1. \A k \in G + 1 .. Len(sent) : \A i \in 1 .. W32 + Len(sent[k].body) :
          FrameEnd(sent, k - 1) - FrameEnd(sent, G) + i <= Len(wire) =>
            wire[FrameEnd(sent, k - 1) - FrameEnd(sent, G) + i] = Frame(sent[k].body)[i]
    BY <1>0 DEF Unread
  <2>2. G + 1 \in G + 1 .. Len(sent) /\ (G + 1) - 1 = G
    BY <1>1, <1>5
  <2>3. FrameEnd(sent, G) - FrameEnd(sent, G) + j = j
    BY <1>3, <1>7 DEF Bodies
  <2> QED
    BY <1>8, <2>1, <2>2, <2>3
<1> QED
  BY <1>5, <1>7, <1>8

(* So the length read is the one written. *)
LEMMA LengthRead ==
  ASSUME StreamInv, loop = "reading", NEW G \in Nat, G = Len(got), Len(wire) >= W32
  PROVE  Get(W32, wire).val = Len(sent[G + 1].body)
<1> DEFINE b == sent[G + 1].body
<1>0. /\ b \in Bodies /\ wire \in Seq(Bytes) /\ Len(wire) \in Nat /\ W32 \in Nat \ {0}
      /\ Len(b) \in Nat
  BY NextFrame, StreamAssumption DEF StreamInv, TypeInv, Bodies
<1>1. \A j \in 1 .. W32 + Len(b) : j <= Len(wire) => wire[j] = Frame(b)[j]
  BY NextFrame
<1>2. Number(Put(W32, Len(b))) = Len(b)
  BY <1>0 DEF Bodies
<1> HIDE DEF b
<1>3. /\ Frame(b) \in Seq(Bytes)
      /\ \A j \in 1 .. W32 : Frame(b)[j] = Put(W32, Len(b))[j]
  BY <1>0, FrameIs
<1>4. Leading(wire, W32) = Put(W32, Len(b))
  <2>1. \A i \in 1 .. W32 : wire[i] \in Bytes
    BY <1>0, ElementOfSeq
  <2>2. /\ Leading(wire, W32) \in Seq(Bytes) /\ Len(Leading(wire, W32)) = W32
        /\ \A i \in 1 .. W32 : Leading(wire, W32)[i] = wire[i]
    <3>1. /\ SubSeq(wire, 1, W32) \in Seq(Bytes)
          /\ Len(SubSeq(wire, 1, W32)) = IF 1 <= W32 THEN W32 - 1 + 1 ELSE 0
          /\ \A i \in 1 .. W32 - 1 + 1 : SubSeq(wire, 1, W32)[i] = wire[1 + i - 1]
      BY <1>0, <2>1, SubSeqProperties
    <3>2. 1 <= W32 /\ W32 - 1 + 1 = W32 /\ \A i \in 1 .. W32 : 1 + i - 1 = i
      BY <1>0
    <3>3. /\ SubSeq(wire, 1, W32) \in Seq(Bytes) /\ Len(SubSeq(wire, 1, W32)) = W32
          /\ \A i \in 1 .. W32 : SubSeq(wire, 1, W32)[i] = wire[i]
      BY <3>1, <3>2
    <3> QED
      BY <3>3 DEF Leading
  <2>3. Put(W32, Len(b)) \in Seq(Bytes) /\ Len(Put(W32, Len(b))) = W32
    BY <1>0, PutType
  <2>4. ASSUME NEW i \in 1 .. W32 PROVE Leading(wire, W32)[i] = Put(W32, Len(b))[i]
    <3>1. i \in 1 .. W32 + Len(b) /\ i <= Len(wire)
      BY <1>0
    <3> QED
      BY <1>1, <1>3, <2>2, <3>1
  <2> DEFINE l == Leading(wire, W32)
             m == Put(W32, Len(b))
  <2>5. l \in Seq(Bytes) /\ m \in Seq(Bytes) /\ Len(l) = W32 /\ Len(m) = W32
        /\ \A i \in 1 .. W32 : l[i] = m[i]
    BY <2>2, <2>3, <2>4
  <2> HIDE DEF l, m
  <2>6. l = m
    BY <2>5, SeqEqual
  <2> QED
    BY <2>6 DEF l, m
<1>5. Get(W32, wire) = Gives(Number(Leading(wire, W32)), wire, W32)
  BY <1>0 DEF Get
<1>6. Get(W32, wire).val = Number(Leading(wire, W32))
  BY <1>5 DEF Gives
<1> QED
  BY <1>2, <1>4, <1>6 DEF b

(* A part of the bytes under way. *)
LEMMA WirePart ==
  ASSUME TypeInv, NEW m \in Nat, NEW n \in Nat, m + n <= Len(wire)
  PROVE  /\ SubSeq(wire, m + 1, m + n) \in Seq(Bytes)
         /\ Len(SubSeq(wire, m + 1, m + n)) = n
         /\ \A i \in 1 .. n : SubSeq(wire, m + 1, m + n)[i] = wire[m + i]
<1>1. wire \in Seq(Bytes) /\ Len(wire) \in Nat
  BY DEF TypeInv
<1>2. \A i \in m + 1 .. m + n : wire[i] \in Bytes
  <2> SUFFICES ASSUME NEW i \in m + 1 .. m + n PROVE wire[i] \in Bytes
    OBVIOUS
  <2>1. i \in 1 .. Len(wire)
    BY <1>1
  <2> QED
    BY <1>1, <2>1, ElementOfSeq
<1> DEFINE p == SubSeq(wire, m + 1, m + n)
<1>3. /\ p \in Seq(Bytes)
      /\ Len(p) = IF m + 1 <= m + n THEN (m + n) - (m + 1) + 1 ELSE 0
      /\ \A i \in 1 .. (m + n) - (m + 1) + 1 : p[i] = wire[(m + 1) + i - 1]
  BY <1>2, SubSeqProperties
<1> HIDE DEF p
<1>4. (m + n) - (m + 1) + 1 = n /\ (m + 1 <= m + n \/ n = 0)
  OBVIOUS
<1>5. \A i \in 1 .. n : (m + 1) + i - 1 = m + i
  OBVIOUS
<1>6. Len(p) = n
  BY <1>3, <1>4
<1>7. \A i \in 1 .. n : p[i] = wire[m + i]
  BY <1>3, <1>4, <1>5
<1> QED
  BY <1>3, <1>6, <1>7 DEF p

(* The stream ends: what is lost is missing at the end of what is under way. *)
LEMMA EndStep ==
  ASSUME StreamInv, NEW n \in 0 .. Len(wire), Ends(n)
  PROVE  StreamInv'
<1>0. /\ TypeInv /\ Abutting /\ Unread /\ Decoded /\ loop = "reading" /\ lost = 0
      /\ UNCHANGED <<sent, got, loop>> /\ eof' = TRUE /\ lost' = n
      /\ wire' = SubSeq(wire, 1, Len(wire) - n)
  BY DEF Ends, StreamInv, TypeInv, EndsAtEof
<1>1. /\ Len(wire) \in Nat /\ n \in Nat /\ Len(wire) - n \in Nat
      /\ Len(sent) \in Nat /\ Len(got) \in Nat /\ Len(got) <= Len(sent)
  BY <1>0 DEF TypeInv
<1>2. /\ wire' \in Seq(Bytes) /\ Len(wire') = Len(wire) - n
      /\ \A i \in 1 .. Len(wire) - n : wire'[i] = wire[i]
  <2> DEFINE l == Len(wire) - n
  <2>1. l \in Nat /\ 0 + l <= Len(wire) /\ 0 + 1 = 1 /\ 0 + l = l
    BY <1>1
  <2> HIDE DEF l
  <2>2. /\ SubSeq(wire, 0 + 1, 0 + l) \in Seq(Bytes)
        /\ Len(SubSeq(wire, 0 + 1, 0 + l)) = l
        /\ \A i \in 1 .. l : SubSeq(wire, 0 + 1, 0 + l)[i] = wire[0 + i]
    BY <1>0, <2>1, WirePart
  <2>3. SubSeq(wire, 0 + 1, 0 + l) = wire'
    BY <1>0, <2>1 DEF l
  <2>4. \A i \in 1 .. l : 0 + i = i
    BY <2>1
  <2> QED
    BY <2>2, <2>3, <2>4 DEF l
<1>3. TypeInv'
  BY <1>0, <1>1, <1>2 DEF TypeInv
<1>4. Abutting' /\ Decoded'
  BY <1>0 DEF Abutting, Decoded
<1>5. Unread'
  <2>0. Len(got) \in 0 .. Len(sent) /\ Len(sent) \in 0 .. Len(sent)
    BY <1>1
  <2>1. FrameEnd(sent, Len(sent)) \in Nat /\ FrameEnd(sent, Len(got)) \in Nat
    BY <1>0, <2>0, EndType
  <2>2. Len(wire) = FrameEnd(sent, Len(sent)) - lost - FrameEnd(sent, Len(got))
    BY <1>0 DEF Unread
  <2>3. Len(wire') = FrameEnd(sent, Len(sent)) - n - FrameEnd(sent, Len(got))
    BY <1>0, <1>1, <1>2, <2>1, <2>2
  <2>4. ASSUME NEW k \in Len(got) + 1 .. Len(sent), NEW j \in 1 .. W32 + Len(sent[k].body),
               FrameEnd(sent, k - 1) - FrameEnd(sent, Len(got)) + j <= Len(wire')
        PROVE  wire'[FrameEnd(sent, k - 1) - FrameEnd(sent, Len(got)) + j]
                 = Frame(sent[k].body)[j]
    <3> DEFINE at == FrameEnd(sent, k - 1) - FrameEnd(sent, Len(got)) + j
    <3>1. k \in 1 .. Len(sent) /\ k - 1 \in 0 .. Len(sent) /\ Len(got) <= k - 1
      BY <1>1
    <3>2. FrameEnd(sent, k - 1) \in Nat /\ FrameEnd(sent, Len(got)) <= FrameEnd(sent, k - 1)
      BY <1>0, <2>0, <3>1, EndType DEF Abutting
    <3>3. at \in Nat /\ at >= 1
      <4>1. W32 \in Nat /\ sent[k] \in Frames
        BY <1>0, <3>1, StreamAssumption, ElementOfSeq DEF TypeInv
      <4>2. j \in Nat /\ j >= 1
        BY <4>1 DEF Frames, Bodies
      <4> QED
        BY <2>1, <3>2, <4>2
    <3>4. at <= Len(wire) => wire[at] = Frame(sent[k].body)[j]
      BY <1>0 DEF Unread
    <3>5. at <= Len(wire')
      BY <2>4
    <3> HIDE DEF at
    <3>6. at \in 1 .. Len(wire) - n /\ at <= Len(wire)
      BY <1>1, <1>2, <3>3, <3>5
    <3>7. wire'[at] = Frame(sent[k].body)[j]
      BY <1>2, <3>4, <3>6
    <3> QED
      BY <3>7 DEF at
  <2>5. \A k \in Len(got) + 1 .. Len(sent) : \A j \in 1 .. W32 + Len(sent[k].body) :
          FrameEnd(sent, k - 1) - FrameEnd(sent, Len(got)) + j <= Len(wire') =>
            wire'[FrameEnd(sent, k - 1) - FrameEnd(sent, Len(got)) + j] = Frame(sent[k].body)[j]
    BY <2>4
  <2>6. sent' = sent /\ got' = got /\ lost' = n
    BY <1>0
  <2> QED
    BY <2>3, <2>5, <2>6 DEF Unread
<1> QED
  BY <1>0, <1>3, <1>4, <1>5 DEF StreamInv, EndsAtEof

(* The loop is left: only the rest of a frame was under way. *)
LEMMA EofStep ==
  ASSUME StreamInv, ReadEof
  PROVE  StreamInv'
<1>0. /\ TypeInv /\ Abutting /\ Unread /\ Decoded /\ loop = "reading" /\ eof
      /\ UNCHANGED <<sent, lost, eof, got>> /\ loop' = "ended" /\ wire' = <<>>
  BY DEF ReadEof, StreamInv
<1>1. PICK G \in Nat : G = Len(got)
  BY <1>0 DEF TypeInv
<1>2. TypeInv' /\ Abutting' /\ Unread' /\ Decoded'
  BY <1>0 DEF TypeInv, Abutting, Unread, Decoded
<1>3. /\ Len(wire) \in Nat /\ Len(sent) \in Nat /\ G <= Len(sent) /\ lost \in Nat
      /\ W32 \in Nat \ {0}
  BY <1>0, <1>1, StreamAssumption DEF TypeInv
<1>4. ASSUME NEW k \in 1 .. Len(sent),
             FrameEnd(sent, k) <= FrameEnd(sent, Len(sent)) - lost, ~(G >= k)
      PROVE  FALSE
  <2>1. /\ G + 1 \in 1 .. Len(sent) /\ G + 1 \in 0 .. Len(sent) /\ G \in 0 .. Len(sent)
        /\ G + 1 <= k /\ k \in 0 .. Len(sent) /\ Len(sent) \in 0 .. Len(sent)
        /\ (G + 1) - 1 = G
    BY <1>3, <1>4
  <2> DEFINE g == FrameEnd(sent, G)
             h == FrameEnd(sent, G + 1)
             e == FrameEnd(sent, k)
             z == FrameEnd(sent, Len(sent))
             l == Len(sent[G + 1].body)
  <2>2. g \in Nat /\ h \in Nat /\ e \in Nat /\ z \in Nat
    BY <1>0, <2>1, EndType
  <2>3. l \in Nat
    <3>1. sent[G + 1] \in Frames
      BY <1>0, <2>1, ElementOfSeq DEF TypeInv
    <3> QED
      BY <3>1 DEF Frames, Bodies
  <2>4. h = g + W32 + l /\ h <= e
    BY <1>0, <2>1 DEF Abutting
  <2>5. e <= z - lost /\ Len(wire) = z - lost - g
    BY <1>0, <1>1, <1>4 DEF Unread
  <2>6. Len(wire) >= W32 => Get(W32, wire).val = l
    BY <1>0, <1>1, LengthRead
  <2>7. ~(Len(wire) >= W32 /\ Len(wire) - W32 >= Get(W32, wire).val)
    BY DEF ReadEof, Complete
  <2> HIDE DEF g, h, e, z, l
  <2>8. Len(wire) >= W32 + l
    BY <1>3, <2>2, <2>3, <2>4, <2>5
  <2>9. Len(wire) >= W32 /\ Len(wire) - W32 >= l
    BY <1>3, <2>3, <2>8
  <2> QED
    BY <2>6, <2>7, <2>9
<1>5. EndsAtEof'
  BY <1>0, <1>1, <1>4 DEF EndsAtEof
<1> QED
  BY <1>0, <1>2, <1>5 DEF StreamInv

(* A frame is taken off the stream. *)
LEMMA ReadStep ==
  ASSUME StreamInv, Read
  PROVE  StreamInv'
<1>a. PICK G \in Nat : G = Len(got)
  BY DEF StreamInv, TypeInv
<1>b. PICK b : b = sent[G + 1].body
  OBVIOUS
<1>0. /\ TypeInv /\ Abutting /\ Unread /\ Decoded /\ loop = "reading" /\ W32 \in Nat \ {0}
      /\ UNCHANGED <<sent, lost, eof, loop>>
  BY StreamAssumption DEF Read, StreamInv
<1>1. Len(wire) >= W32 /\ Len(wire) - W32 >= Get(W32, wire).val
  BY DEF Read, Complete
<1>2. /\ G + 1 \in 1 .. Len(sent) /\ b \in Bodies /\ Get(W32, wire).val = Len(b)
      /\ \A j \in 1 .. W32 + Len(b) : j <= Len(wire) => wire[j] = Frame(b)[j]
  BY <1>a, <1>b, <1>0, <1>1, NextFrame, LengthRead
<1>3. /\ Len(wire) \in Nat /\ Len(b) \in Nat /\ b \in Seq(Bytes) /\ lost \in Nat
      /\ Len(sent) \in Nat /\ W32 + Len(b) <= Len(wire)
  BY <1>0, <1>1, <1>2 DEF TypeInv, Bodies
<1>4. /\ got' = Append(got, TryFrom(SubSeq(wire, W32 + 1, W32 + Len(b))))
      /\ wire' = SubSeq(wire, W32 + Len(b) + 1, Len(wire))
  BY <1>2 DEF Read
<1>5. SubSeq(wire, W32 + 1, W32 + Len(b)) = b
  <2> DEFINE p == SubSeq(wire, W32 + 1, W32 + Len(b))
  <2>1. p \in Seq(Bytes) /\ Len(p) = Len(b) /\ \A i \in 1 .. Len(b) : p[i] = wire[W32 + i]
    BY <1>0, <1>3, WirePart
  <2> HIDE DEF p
  <2>2. ASSUME NEW i \in 1 .. Len(b) PROVE p[i] = b[i]
    <3>1. W32 + i \in 1 .. W32 + Len(b) /\ W32 + i <= Len(wire)
      BY <1>0, <1>3
    <3>2. wire[W32 + i] = Frame(b)[W32 + i]
      BY <1>2, <3>1
    <3> QED
      BY <1>2, <2>1, <3>2, FrameIs
  <2>3. p = b
    BY <1>3, <2>1, <2>2, SeqEqual
  <2> QED
    BY <2>3 DEF p
<1>6. /\ got' \in Seq({TryFrom(c) : c \in Seq(Bytes)}) /\ Len(got') = G + 1
      /\ got'[G + 1] = TryFrom(b) /\ \A i \in 1 .. G : got'[i] = got[i]
  <2> DEFINE S == {TryFrom(c) : c \in Seq(Bytes)}
  <2>1. got \in Seq(S) /\ TryFrom(b) \in S /\ got' = Append(got, TryFrom(b))
    BY <1>0, <1>3, <1>4, <1>5 DEF TypeInv
  <2> HIDE DEF S
  <2>2. /\ got' \in Seq(S) /\ Len(got') = Len(got) + 1 /\ got'[Len(got) + 1] = TryFrom(b)
        /\ \A i \in 1 .. Len(got) : got'[i] = got[i]
    BY <2>1, AppendProperties
  <2> QED
    BY <1>a, <2>2 DEF S
<1>7. PICK m \in Nat : m = W32 + Len(b)
  BY <1>0, <1>3
<1>8. /\ wire' \in Seq(Bytes) /\ Len(wire') = Len(wire) - m
      /\ \A i \in 1 .. Len(wire) - m : wire'[i] = wire[m + i]
  <2> DEFINE l == Len(wire) - m
  <2>1. l \in Nat /\ m + l = Len(wire) /\ m + l <= Len(wire)
    BY <1>3, <1>7
  <2> HIDE DEF l
  <2>2. wire' = SubSeq(wire, m + 1, m + l)
    BY <1>4, <1>7, <2>1
  <2>3. /\ SubSeq(wire, m + 1, m + l) \in Seq(Bytes) /\ Len(SubSeq(wire, m + 1, m + l)) = l
        /\ \A i \in 1 .. l : SubSeq(wire, m + 1, m + l)[i] = wire[m + i]
    BY <1>0, <2>1, WirePart
  <2> QED
    BY <2>2, <2>3 DEF l
<1>9. TypeInv'
  <2>1. Len(got') <= Len(sent)
    BY <1>2, <1>3, <1>6
  <2> QED
    BY <1>0, <1>6, <1>8, <2>1 DEF TypeInv
<1>10. Abutting'
  BY <1>0 DEF Abutting
<1>11. Unread'
  <2>0. /\ G + 1 \in 0 .. Len(sent) /\ G \in 0 .. Len(sent) /\ Len(sent) \in 0 .. Len(sent)
        /\ (G + 1) - 1 = G
    BY <1>2, <1>3
  <2> DEFINE g == FrameEnd(sent, G)
             h == FrameEnd(sent, G + 1)
             z == FrameEnd(sent, Len(sent))
  <2>1. g \in Nat /\ h \in Nat /\ z \in Nat
    BY <1>0, <2>0, EndType
  <2>2. h = g + W32 + Len(b)
    BY <1>b, <1>0, <1>2, <2>0 DEF Abutting
  <2>3. Len(wire) = z - lost - g
    BY <1>a, <1>0 DEF Unread
  <2>4. \A k \in G + 1 .. Len(sent) : \A j \in 1 .. W32 + Len(sent[k].body) :
          FrameEnd(sent, k - 1) - g + j <= Len(wire) =>
            wire[FrameEnd(sent, k - 1) - g + j] = Frame(sent[k].body)[j]
    BY <1>a, <1>0 DEF Unread
  <2>5. \A i, k \in 0 .. Len(sent) : i <= k => FrameEnd(sent, i) <= FrameEnd(sent, k)
    BY <1>0 DEF Abutting
  <2>6. Len(wire') = z - lost - h
    <3> HIDE DEF g, h, z
    <3> QED
      BY <1>0, <1>3, <1>7, <1>8, <2>1, <2>2, <2>3
  <2>7. ASSUME NEW k \in (G + 1) + 1 .. Len(sent), NEW j \in 1 .. W32 + Len(sent[k].body),
               FrameEnd(sent, k - 1) - h + j <= Len(wire')
        PROVE  wire'[FrameEnd(sent, k - 1) - h + j] = Frame(sent[k].body)[j]
    <3> DEFINE y == FrameEnd(sent, k - 1)
    <3>1. k \in G + 1 .. Len(sent) /\ k \in 1 .. Len(sent) /\ k - 1 \in 0 .. Len(sent)
          /\ G + 1 <= k - 1
      BY <1>3
    <3>2. y \in Nat /\ h <= y
      BY <1>0, <2>0, <2>5, <3>1, EndType
    <3>3. j \in Nat /\ j >= 1
      <4>1. sent[k] \in Frames
        BY <1>0, <3>1, ElementOfSeq DEF TypeInv
      <4>2. Len(sent[k].body) \in Nat
        BY <4>1 DEF Frames, Bodies
      <4> QED
        BY <1>0, <4>2
    <3>4. y - g + j <= Len(wire) => wire[y - g + j] = Frame(sent[k].body)[j]
      BY <2>4, <2>7, <3>1
    <3>5. y - h + j <= Len(wire')
      BY <2>7
    <3> HIDE DEF y, g, h, z
    <3>6. m + (y - h + j) = y - g + j /\ y - h + j \in Nat /\ y - h + j >= 1
      BY <1>0, <1>3, <1>7, <2>1, <2>2, <3>2, <3>3
    <3>7. y - h + j \in 1 .. Len(wire) - m /\ y - g + j <= Len(wire)
      BY <1>3, <1>7, <1>8, <3>5, <3>6
    <3>8. wire'[y - h + j] = wire[y - g + j]
      BY <1>8, <3>6, <3>7
    <3>9. wire'[y - h + j] = Frame(sent[k].body)[j]
      BY <3>4, <3>7, <3>8
    <3> QED
      BY <3>9 DEF y, h
  <2>8. \A k \in (G + 1) + 1 .. Len(sent) : \A j \in 1 .. W32 + Len(sent[k].body) :
          FrameEnd(sent, k - 1) - h + j <= Len(wire') =>
            wire'[FrameEnd(sent, k - 1) - h + j] = Frame(sent[k].body)[j]
    BY <2>7
  <2>9. sent' = sent /\ Len(got') = G + 1 /\ lost' = lost
    BY <1>0, <1>6
  <2> QED
    BY <2>6, <2>8, <2>9 DEF Unread
<1>12. Decoded'
  <2> SUFFICES ASSUME NEW i \in 1 .. G + 1 PROVE got'[i] = TryFrom(sent[i].body)
    BY <1>0, <1>6 DEF Decoded
  <2>1. CASE i \in 1 .. G
    BY <1>a, <1>0, <1>6, <2>1 DEF Decoded
  <2>2. CASE i = G + 1
    BY <1>b, <1>6, <2>2
  <2> QED
    BY <2>1, <2>2
<1> QED
  BY <1>0, <1>9, <1>10, <1>11, <1>12 DEF StreamInv, EndsAtEof

LEMMA StreamStep == StreamInv /\ [Next]_vars => StreamInv'
<1> SUFFICES ASSUME StreamInv, [Next]_vars PROVE StreamInv'
  OBVIOUS
<1>1. ASSUME NEW p \in Packets, SendPacket(p) PROVE StreamInv'
  <2>1. Body(p) \in Bodies
    BY SentWhole
  <2> QED
    BY <1>1, <2>1, WriteStep DEF SendPacket
<1>2. ASSUME NEW p \in Packets, NEW n \in 1 .. Len(Body(p)), SendShort(p, n)
      PROVE  StreamInv'
  <2>1. SubSeq(Body(p), 1, Len(Body(p)) - n) \in Bodies /\ Body(p) \in Bodies
    BY SentShort, SentWhole
  <2>2. n \in Nat
    BY <2>1 DEF Bodies
  <2> QED
    BY <1>2, <2>1, <2>2, WriteStep DEF SendShort
<1>3. ASSUME NEW body \in Foreign, SendForeign(body) PROVE StreamInv'
  <2>1. body \in Bodies
    BY SentWhole
  <2> QED
    BY <1>3, <2>1, WriteStep DEF SendForeign
<1>4. ASSUME NEW n \in 0 .. Len(wire), Ends(n) PROVE StreamInv'
  BY <1>4, EndStep
<1>5. CASE Read
  BY <1>5, ReadStep
<1>6. CASE ReadEof
  BY <1>6, EofStep
<1>7. CASE UNCHANGED vars
  BY <1>7 DEF vars, StreamInv, TypeInv, Abutting, Unread, Decoded, EndsAtEof
<1> QED
  BY <1>1, <1>2, <1>3, <1>4, <1>5, <1>6, <1>7 DEF Next

LEMMA StreamInit == Init => StreamInv
<1> SUFFICES ASSUME Init PROVE StreamInv
  OBVIOUS
<1>1. wire = <<>> /\ sent = <<>> /\ got = <<>> /\ lost = 0 /\ loop = "reading"
  BY DEF Init
<1>2. TypeInv
  <2>1. eof \in BOOLEAN
    BY Zenon DEF Init
  <2> QED
    BY <1>1, <2>1 DEF TypeInv
<1>3. FrameEnd(sent, 0) = 0 /\ Len(sent) = 0 /\ Len(got) = 0 /\ Len(wire) = 0
  BY <1>1 DEF FrameEnd
<1>4. Abutting
  <2>1. \A j \in 0 .. 0 : j = 0
    OBVIOUS
  <2> QED
    BY <1>3, <2>1 DEF Abutting
<1>5. Unread /\ Decoded
  BY <1>1, <1>3 DEF Unread, Decoded
<1> QED
  BY <1>1, <1>2, <1>4, <1>5 DEF StreamInv, EndsAtEof

(* The receiving loop stays in step with the sender, whatever the packets,  *)
(* the foreign bodies and their number: read_packet takes exactly the bytes *)
(* of one frame, whether or not its body decodes, and nothing of a frame    *)
(* the end of the stream cut off.                                           *)
THEOREM FramesStayInStep == Spec => []InStep
<1>1. StreamInv => InStep
  BY DEF StreamInv, TypeInv, Decoded, InStep, Same
<1> QED
  BY <1>1, StreamInit, StreamStep, PTL DEF Spec

(* The loop is left at the end of the stream only, and not before it has    *)
(* taken every frame that arrived whole.                                    *)
THEOREM LoopEndsAtEof == Spec => []EndsAtEof
<1>1. StreamInv => EndsAtEof
  BY DEF StreamInv
<1> QED
  BY <1>1, StreamInit, StreamStep, PTL DEF Spec

-----------------------------------------------------------------------------
(* What the stream adds to the codec: nothing.  The bodies of the frames    *)
(* are those of the packets, so that what holds of the codec for each       *)
(* packet by itself holds of every frame of every stream.                   *)

Cropped(p, n) == SubSeq(Body(p), 1, Len(Body(p)) - n)

Written ==
  \A i \in 1 .. Len(sent) :
    /\ sent[i].short = 0 /\ sent[i].packet # NoPacket =>
         sent[i].packet \in Packets /\ sent[i].body = Body(sent[i].packet)
    /\ sent[i].short > 0 =>
         /\ sent[i].packet \in Packets /\ sent[i].short \in 1 .. Len(Body(sent[i].packet))
         /\ sent[i].body = Cropped(sent[i].packet, sent[i].short)

LEMMA WrittenOne ==
  ASSUME StreamInv, Written, NEW b, NEW p, NEW n \in Nat, Write(b, p, n),
         n = 0 /\ p # NoPacket => p \in Packets /\ b = Body(p),
         n > 0 => p \in Packets /\ n \in 1 .. Len(Body(p)) /\ b = Cropped(p, n)
  PROVE  Written'
<1>1. PICK f : /\ sent' = Append(sent, f) /\ f.body = b /\ f.packet = p /\ f.short = n
  BY DEF Write
<1>2. sent \in Seq(Frames) /\ Len(sent) \in Nat
  BY DEF StreamInv, TypeInv
<1>3. /\ Len(sent') = Len(sent) + 1 /\ sent'[Len(sent) + 1] = f
      /\ \A i \in 1 .. Len(sent) : sent'[i] = sent[i]
  <2>1. sent \in Seq(Frames \cup {f}) /\ f \in Frames \cup {f}
    BY <1>2, SeqMonotonic
  <2> QED
    BY <1>1, <2>1, AppendProperties
<1>4. \A i \in 1 .. Len(sent') : i \in 1 .. Len(sent) \/ i = Len(sent) + 1
  BY <1>2, <1>3
<1> QED
  BY <1>1, <1>3, <1>4 DEF Written

LEMMA WrittenStep == StreamInv /\ Written /\ [Next]_vars => Written'
<1> SUFFICES ASSUME StreamInv, Written, [Next]_vars PROVE Written'
  OBVIOUS
<1>1. ASSUME NEW p \in Packets, SendPacket(p) PROVE Written'
  BY <1>1, WrittenOne DEF SendPacket
<1>2. ASSUME NEW p \in Packets, NEW n \in 1 .. Len(Body(p)), SendShort(p, n) PROVE Written'
  <2>1. Len(Body(p)) \in Nat
    BY SentWhole DEF Bodies
  <2>2. n \in Nat /\ n > 0 /\ Write(Cropped(p, n), p, n)
    BY <1>2, <2>1 DEF SendShort, Cropped
  <2> QED
    BY <2>2, WrittenOne
<1>3. ASSUME NEW body \in Foreign, SendForeign(body) PROVE Written'
  BY <1>3, WrittenOne DEF SendForeign
<1>4. ASSUME UNCHANGED sent PROVE Written'
  BY <1>4 DEF Written
<1>5. ASSUME NEW n \in 0 .. Len(wire), Ends(n) PROVE Written'
  BY <1>4, <1>5 DEF Ends
<1>6. CASE Read \/ ReadEof \/ UNCHANGED vars
  BY <1>4, <1>6 DEF Read, ReadEof, vars
<1> QED
  BY <1>1, <1>2, <1>3, <1>5, <1>6 DEF Next

LEMMA WrittenAlways == Spec => [](StreamInv /\ Written)
<1>1. Init => Written
  BY DEF Init, Written
<1> QED
  BY <1>1, StreamInit, StreamStep, WrittenStep, PTL DEF Spec

(* Packets the codec reads back by themselves are read back on any stream,  *)
(* whatever was written before them and however often a frame in between    *)
(* did not decode.                                                          *)
THEOREM UnderstoodOnAnyStream ==
  ASSUME \A p \in Packets : Same(TryFrom(Body(p)), Canon(p))
  PROVE  Spec => []Understood
<1>1. StreamInv /\ Written => Understood
  <2> SUFFICES ASSUME StreamInv, Written, NEW i \in 1 .. Len(got),
                      sent[i].packet # NoPacket, sent[i].short = 0
               PROVE  Same(got[i], Canon(sent[i].packet))
    BY DEF Understood
  <2>1. i \in 1 .. Len(sent) /\ got[i] = TryFrom(sent[i].body)
    BY DEF StreamInv, TypeInv, Decoded
  <2>2. sent[i].packet \in Packets /\ got[i] = TryFrom(Body(sent[i].packet))
    BY <2>1 DEF Written
  <2> QED
    BY <2>2
<1> QED
  BY <1>1, WrittenAlways, PTL

(* Bodies the codec refuses by themselves when they break off are refused   *)
(* on any stream: what follows on it is never taken for the missing part.   *)
THEOREM ShortRefusedOnAnyStream ==
  ASSUME \A p \in Packets : \A n \in 1 .. Len(Body(p)) :
           TryFrom(Cropped(p, n)).type # "Bad" => MayLack(p, n)
  PROVE  Spec => []ShortRefused
<1>1. StreamInv /\ Written => ShortRefused
  <2> SUFFICES ASSUME StreamInv, Written, NEW i \in 1 .. Len(got),
                      sent[i].short > 0, got[i].type # "Bad"
               PROVE  MayLack(sent[i].packet, sent[i].short)
    BY DEF ShortRefused
  <2>1. i \in 1 .. Len(sent) /\ got[i] = TryFrom(sent[i].body)
    BY DEF StreamInv, TypeInv, Decoded
  <2>2. /\ sent[i].packet \in Packets /\ sent[i].short \in 1 .. Len(Body(sent[i].packet))
        /\ got[i] = TryFrom(Cropped(sent[i].packet, sent[i].short))
    BY <2>1 DEF Written
  <2> QED
    BY <2>2
<1> QED
  BY <1>1, WrittenAlways, PTL
=============================================================================
