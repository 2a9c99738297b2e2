--------------------------- MODULE SftpServerProofs ---------------------------
(* Theorems about SftpServer, for streams of any size and any number of     *)
(* packets.                                                                 *)
EXTENDS SftpServer, SequenceTheorems, TLAPS

-----------------------------------------------------------------------------
(* The inductive invariant.  The packets on the stream are the end of what  *)
(* was sent; the one in hand is the last before them; answers stand for     *)
(* packets before that one.                                                 *)

SrvStates == {Idle, Ended} \cup [at : {"handle"}, packet : Packets]
               \cup [at : {"write"}, packet : Responses]

Types ==
  /\ queue \in Seq(PacketKinds \cup {"Close"})
  /\ writer \in {Select, Ended} \cup [at : {"write"}, kind : PacketKinds]
  /\ sent \in Seq(Packets) /\ up \in Seq(Packets)
  /\ got \in Seq(Responses) /\ down \in Seq(Responses)
  /\ srv \in SrvStates /\ broken \in BOOLEAN

Held  == IF srv.at = "handle" THEN 1 ELSE 0
Taken == Len(sent) - Len(up)       \* packets the server has read

Numbered == \A i \in 1 .. Len(sent) : sent[i].num = i
OnStream == Len(up) <= Len(sent) /\ \A i \in 1 .. Len(up) : up[i] = sent[Taken + i]
InHand   == srv.at = "handle" => Taken >= 1 /\ srv.packet = sent[Taken]
AnswersOK == \A i \in 1 .. Len(Answered) : Answered[i].num \in 1 .. Taken - Held
InOrder ==
  \A i, j \in 1 .. Len(Answered) : i < j => Answered[i].num < Answered[j].num
NoneMissing ==
  ~broken => /\ Len(Answered) = Taken - Held
             /\ \A i \in 1 .. Len(Answered) : Answered[i].num = i

LoopInv == /\ Types /\ Numbered /\ OnStream /\ InHand
           /\ AnswersOK /\ InOrder /\ NoneMissing

(* Sequences *)

LEMMA AnsweredType == Types => Answered \in Seq(Responses)
<1> SUFFICES ASSUME Types PROVE Answered \in Seq(Responses)
  OBVIOUS
<1>1. (IF srv.at = "write" THEN <<srv.packet>> ELSE <<>>) \in Seq(Responses)
  BY DEF Types, SrvStates, Idle, Ended
<1> QED
  BY <1>1, ConcatProperties DEF Answered, Types

(* Moving the head of one sequence behind another keeps what they make up.  *)
LEMMA MoveHead ==
  ASSUME NEW S, NEW s \in Seq(S), NEW t \in Seq(S), t # <<>>
  PROVE  Append(s, Head(t)) \o Tail(t) = s \o t
<1>1. Head(t) \in S /\ Tail(t) \in Seq(S) /\ <<Head(t)>> \in Seq(S)
  BY HeadTailProperties
<1>2. Len(t) \in Nat \ {0} /\ Head(t) = t[1]
  BY EmptySeq
<1>3. t = <<Head(t)>> \o Tail(t)
  <2>1. SubSeq(t, 1, Len(t)) = <<t[1]>> \o SubSeq(t, 1 + 1, Len(t))
    BY <1>2, SubSeqRecursiveFirst
  <2>2. Tail(t) = SubSeq(t, 1 + 1, Len(t))
    BY TailIsSubSeq
  <2> QED
    BY <1>2, <2>1, <2>2, SubSeqFull
<1>4. Append(s, Head(t)) = s \o <<Head(t)>>
  BY <1>1, AppendIsConcat
<1>5. (s \o <<Head(t)>>) \o Tail(t) = s \o (<<Head(t)>> \o Tail(t))
  BY <1>1, ConcatAssociative
<1> QED
  BY <1>3, <1>4, <1>5

LEMMA ConcatAppend ==
  ASSUME NEW S, NEW s \in Seq(S), NEW t \in Seq(S), NEW e \in S
  PROVE  s \o Append(t, e) = Append(s \o t, e)
<1>1. Append(t, e) = t \o <<e>> /\ <<e>> \in Seq(S)
  BY AppendIsConcat
<1>2. s \o t \in Seq(S) /\ Append(s \o t, e) = (s \o t) \o <<e>>
  BY ConcatProperties, AppendIsConcat
<1>3. (s \o t) \o <<e>> = s \o (t \o <<e>>)
  BY <1>1, ConcatAssociative
<1> QED
  BY <1>1, <1>2, <1>3

(* The answers with and without one that waits to be written. *)
LEMMA AnsweredAtWrite ==
  ASSUME Types, srv.at = "write"
  PROVE  /\ srv.packet \in Responses
         /\ Answered = Append(got \o down, srv.packet)
<1>1. srv.packet \in Responses
  BY DEF Types, SrvStates, Idle, Ended
<1>2. got \o down \in Seq(Responses)
  BY ConcatProperties DEF Types
<1>3. Append(got \o down, srv.packet) = (got \o down) \o <<srv.packet>>
  BY <1>1, <1>2, AppendIsConcat
<1> QED
  BY <1>1, <1>3 DEF Answered

LEMMA AnsweredElse ==
  ASSUME Types, srv.at # "write"
  PROVE  Answered = got \o down
<1>1. got \o down \in Seq(Responses)
  BY ConcatProperties DEF Types
<1>2. (got \o down) \o <<>> = got \o down
  BY <1>1, ConcatEmptySeq
<1> QED
  BY <1>2 DEF Answered

-----------------------------------------------------------------------------
(* A step of the client that hands nothing over, or one that only moves     *)
(* answers along.                                                           *)
LEMMA AsideStep ==
  ASSUME LoopInv, Types', UNCHANGED <<sent, up, srv, broken>>, Answered' = Answered
  PROVE  LoopInv'
BY DEF LoopInv, Numbered, OnStream, InHand, AnswersOK, InOrder, NoneMissing, Held,
   Taken

LEMMA TypesStep == Types /\ [Next]_vars => Types'
<1> SUFFICES ASSUME Types, [Next]_vars PROVE Types'
  OBVIOUS
<1> USE DEF Types
<1>1. ASSUME NEW kind \in PacketKinds, Call(kind) PROVE Types'
  BY <1>1 DEF Call, serverVars
<1>2. CASE CloseSession
  BY <1>2 DEF CloseSession, serverVars
<1>3. CASE WriterTakes
  <2>1. Head(queue) \in PacketKinds /\ Tail(queue) \in Seq(PacketKinds \cup {"Close"})
    BY <1>3 DEF WriterTakes
  <2> QED
    BY <1>3, <2>1 DEF WriterTakes, serverVars
<1>4. CASE WriterWrites
  <2>1. writer.kind \in PacketKinds /\ Len(sent) + 1 \in Nat
    BY <1>4 DEF WriterWrites, Select, Ended
  <2>2. [num |-> Len(sent) + 1, kind |-> writer.kind] \in Packets
    BY <2>1 DEF Packets
  <2>3. Append(sent, [num |-> Len(sent) + 1, kind |-> writer.kind]) \in Seq(Packets)
        /\ Append(up, [num |-> Len(sent) + 1, kind |-> writer.kind]) \in Seq(Packets)
    BY <2>2, AppendProperties
  <2> HIDE DEF Types
  <2>4. sent' \in Seq(Packets) /\ up' \in Seq(Packets)
    BY <1>4, <2>3 DEF WriterWrites, Types
  <2>5. writer' = Select /\ UNCHANGED <<queue, srv, broken, down, got>>
    BY <1>4 DEF WriterWrites, serverVars
  <2> QED
    BY <2>4, <2>5 DEF Types
<1>5. CASE WriterShuts \/ WriterCancelled
  <2>1. queue' = <<>> /\ writer' = Ended /\ UNCHANGED <<srv, broken, sent, up, down, got>>
    BY <1>5 DEF WriterShuts, WriterCancelled, serverVars
  <2>2. <<>> \in Seq(PacketKinds \cup {"Close"})
    BY EmptySeq
  <2> QED
    BY <2>1, <2>2
<1>6. CASE ReaderReads
  BY <1>6 DEF ReaderReads, clientVars, serverVars
<1>7. CASE ReaderEnds \/ ConnectionLost
  BY <1>7 DEF ReaderEnds, ConnectionLost, serverVars
<1>8. CASE ServerReads
  <2>1. Head(up) \in Packets /\ Tail(up) \in Seq(Packets)
    BY <1>8 DEF ServerReads
  <2> QED
    BY <1>8, <2>1 DEF ServerReads, clientVars, SrvStates
<1>9. ASSUME NEW ok \in BOOLEAN, ServerHandles(ok) PROVE Types'
  <2>1. srv.packet \in Packets
    BY <1>9 DEF ServerHandles, SrvStates, Idle, Ended
  <2>2. Response(srv.packet, ok) \in Responses
    BY <2>1 DEF Response, Responses, Packets, PacketKinds, get_request_id
  <2> QED
    BY <1>9, <2>2 DEF ServerHandles, clientVars, SrvStates
<1>10. CASE ServerWrites
  <2>1. srv.packet \in Responses
    BY <1>10 DEF ServerWrites, SrvStates, Idle, Ended
  <2> QED
    BY <1>10, <2>1 DEF ServerWrites, clientVars, SrvStates
<1>11. CASE ServerWriteFails \/ ServerEnds
  BY <1>11 DEF ServerWriteFails, ServerEnds, clientVars, SrvStates
<1>12. CASE UNCHANGED vars
  BY <1>12 DEF vars, clientVars, serverVars
<1> QED
  BY <1>1, <1>2, <1>3, <1>4, <1>5, <1>6, <1>7, <1>8, <1>9, <1>10, <1>11, <1>12
     DEF Next, WriterStep

LEMMA LoopInit == Init => LoopInv
<1> SUFFICES ASSUME Init PROVE LoopInv
  OBVIOUS
<1>1. Types
  <2>1. <<>> \in Seq(PacketKinds \cup {"Close"}) /\ <<>> \in Seq(Packets)
        /\ <<>> \in Seq(Responses)
    BY EmptySeq
  <2> QED
    BY <2>1 DEF Init, Types, SrvStates
<1>2. srv.at # "write" /\ srv.at # "handle" /\ sent = <<>> /\ up = <<>>
  BY DEF Init, Idle
<1>3. Answered = <<>>
  <2>1. got \o down = <<>>
    BY EmptySeq, ConcatEmptySeq DEF Init
  <2> QED
    BY <1>1, <1>2, <2>1, AnsweredElse
<1>4. Len(sent) = 0 /\ Len(up) = 0 /\ Len(Answered) = 0
  BY <1>2, <1>3
<1>5. 1 .. 0 = {} /\ Taken = 0 /\ Held = 0
  BY <1>2, <1>4 DEF Taken, Held
<1>6. Numbered /\ OnStream /\ InHand
  BY <1>2, <1>4, <1>5 DEF Numbered, OnStream, InHand
<1>7. AnswersOK /\ InOrder /\ NoneMissing
  BY <1>4, <1>5 DEF AnswersOK, InOrder, NoneMissing
<1> QED
  BY <1>1, <1>6, <1>7 DEF LoopInv

-----------------------------------------------------------------------------
(* The steps that change what was sent, read or answered *)

LEMMA WriterWritesInv ==
  ASSUME LoopInv, Types', WriterWrites
  PROVE  LoopInv'
<1> DEFINE p == [num |-> Len(sent) + 1, kind |-> writer.kind]
<1>0. UNCHANGED <<srv, broken, down, got>> /\ Answered' = Answered
  BY DEF WriterWrites, serverVars, Answered
<1>1. CASE UNCHANGED <<sent, up>>
  BY <1>0, <1>1, AsideStep
<1>2. CASE sent' = Append(sent, p) /\ up' = Append(up, p)
  <2>1. writer.kind \in PacketKinds /\ Len(sent) \in Nat
    BY DEF WriterWrites, Select, Ended, LoopInv, Types
  <2>2. p \in Packets /\ p.num = Len(sent) + 1
    BY <2>1 DEF Packets
  <2> HIDE DEF p
  <2>3. sent \in Seq(Packets) /\ up \in Seq(Packets) /\ Len(up) \in Nat
    BY DEF LoopInv, Types
  <2>4. /\ Len(sent') = Len(sent) + 1 /\ sent'[Len(sent) + 1] = p
        /\ \A i \in 1 .. Len(sent) : sent'[i] = sent[i]
    BY <1>2, <2>2, <2>3, AppendProperties
  <2>5. /\ Len(up') = Len(up) + 1 /\ up'[Len(up) + 1] = p
        /\ \A i \in 1 .. Len(up) : up'[i] = up[i]
    BY <1>2, <2>2, <2>3, AppendProperties
  <2>6. Len(up) <= Len(sent) /\ Taken \in 0 .. Len(sent)
    BY <2>1, <2>3 DEF LoopInv, OnStream, Taken
  <2>7. Taken' = Taken /\ Held' = Held
    BY <1>0, <2>1, <2>3, <2>4, <2>5 DEF Taken, Held
  <2>8. Numbered'
    BY <2>1, <2>2, <2>4 DEF LoopInv, Numbered
  <2>9. OnStream'
    <3>1. Len(up') <= Len(sent')
      BY <2>1, <2>3, <2>4, <2>5, <2>6
    <3>2. ASSUME NEW i \in 1 .. Len(up') PROVE up'[i] = sent'[Taken + i]
      <4>1. CASE i = Len(up) + 1
        BY <2>1, <2>3, <2>4, <2>5, <4>1 DEF Taken
      <4>2. CASE i \in 1 .. Len(up)
        <5>1. Taken + i \in 1 .. Len(sent)
          BY <2>1, <2>3, <2>6, <4>2 DEF Taken
        <5> QED
          BY <2>4, <2>5, <4>2, <5>1 DEF LoopInv, OnStream
      <4> QED
        BY <2>3, <2>5, <4>1, <4>2
    <3> QED
      BY <2>7, <3>1, <3>2 DEF OnStream
  <2>10. InHand'
    <3> SUFFICES ASSUME srv.at = "handle" PROVE Taken >= 1 /\ srv.packet = sent'[Taken]
      BY <1>0, <2>7 DEF InHand
    <3>1. Taken >= 1 /\ srv.packet = sent[Taken]
      BY DEF LoopInv, InHand
    <3> QED
      BY <2>4, <2>6, <3>1
  <2>11. AnswersOK'
    BY <1>0, <2>7 DEF LoopInv, AnswersOK
  <2>12. InOrder' /\ NoneMissing'
    BY <1>0, <2>7 DEF LoopInv, InOrder, NoneMissing
  <2> QED
    BY <2>8, <2>9, <2>10, <2>11, <2>12 DEF LoopInv
<1> QED
  BY <1>1, <1>2 DEF WriterWrites

LEMMA ReaderReadsInv ==
  ASSUME LoopInv, Types', ReaderReads
  PROVE  LoopInv'
<1>1. UNCHANGED <<sent, up, srv, broken>> /\ down # <<>>
      /\ got' = Append(got, Head(down)) /\ down' = Tail(down)
  BY DEF ReaderReads, serverVars
<1>2. got' \o down' = got \o down
  BY <1>1, MoveHead DEF LoopInv, Types
<1>3. Answered' = Answered
  BY <1>1, <1>2 DEF Answered
<1> QED
  BY <1>1, <1>3, AsideStep

LEMMA ServerReadsInv ==
  ASSUME LoopInv, Types', ServerReads
  PROVE  LoopInv'
<1>1. /\ UNCHANGED <<sent, broken, down, got>> /\ up # <<>> /\ up' = Tail(up)
      /\ srv.at # "write" /\ srv.at # "handle"
      /\ srv' = [at |-> "handle", packet |-> Head(up)]
  BY DEF ServerReads, Idle
<1>2. Answered' = Answered
  BY <1>1 DEF Answered
<1>3. up \in Seq(Packets) /\ sent \in Seq(Packets) /\ Types
  BY DEF LoopInv, Types
<1>4. /\ Len(up) \in Nat \ {0} /\ Len(sent) \in Nat /\ Head(up) = up[1]
      /\ Len(up') = Len(up) - 1 /\ \A i \in 1 .. Len(up) - 1 : up'[i] = up[i + 1]
  BY <1>1, <1>3, EmptySeq, HeadTailProperties
<1>5. Taken' = Taken + 1 /\ Held' = 1 /\ Held = 0 /\ Taken \in Int
  BY <1>1, <1>3, <1>4 DEF Taken, Held
<1>6. Len(up) <= Len(sent) /\ \A i \in 1 .. Len(up) : up[i] = sent[Taken + i]
  BY DEF LoopInv, OnStream
<1>7. OnStream'
  <2>1. ASSUME NEW i \in 1 .. Len(up') PROVE up'[i] = sent[Taken + 1 + i]
    <3>1. up'[i] = up[i + 1] /\ i + 1 \in 1 .. Len(up)
      BY <1>4
    <3>2. up[i + 1] = sent[Taken + (i + 1)]
      BY <1>6, <3>1
    <3> QED
      BY <1>4, <1>5, <3>1, <3>2
  <2> QED
    BY <1>1, <1>4, <1>5, <1>6, <2>1 DEF OnStream
<1>8. InHand'
  BY <1>1, <1>4, <1>5, <1>6 DEF InHand, Taken
<1>9. Numbered' /\ AnswersOK' /\ InOrder' /\ NoneMissing'
  BY <1>1, <1>2, <1>5 DEF LoopInv, Numbered, AnswersOK, InOrder, NoneMissing
<1> QED
  BY <1>7, <1>8, <1>9 DEF LoopInv

LEMMA ServerHandlesInv ==
  ASSUME LoopInv, Types', NEW ok \in BOOLEAN, ServerHandles(ok)
  PROVE  LoopInv'
<1> DEFINE r == Response(srv.packet, ok)
<1>1. /\ UNCHANGED <<sent, up, broken, down, got>> /\ srv.at = "handle"
      /\ srv' = [at |-> "write", packet |-> r]
  BY DEF ServerHandles
<1>2. Types /\ srv.packet \in Packets /\ srv'.at = "write" /\ srv'.packet = r
  BY <1>1 DEF LoopInv, Types, SrvStates, Idle, Ended
<1>3. r \in Responses /\ r.num = srv.packet.num
  BY <1>2, Zenon DEF Response, Responses, Packets, PacketKinds, get_request_id
<1> HIDE DEF r
<1>4. Answered \in Seq(Responses) /\ Answered' = Append(Answered, r)
  <2>1. Answered = got \o down /\ Answered \in Seq(Responses)
    BY <1>1, <1>2, AnsweredElse, AnsweredType
  <2>2. Answered' = (got \o down) \o <<r>>
    BY <1>1, <1>2 DEF Answered
  <2> QED
    BY <1>3, <2>1, <2>2, AppendIsConcat
<1>5. /\ Len(Answered) \in Nat /\ Len(Answered') = Len(Answered) + 1
      /\ Answered'[Len(Answered) + 1] = r
      /\ \A i \in 1 .. Len(Answered) : Answered'[i] = Answered[i]
  BY <1>3, <1>4, AppendProperties
<1>6. Taken' = Taken /\ Held = 1 /\ Held' = 0 /\ Taken \in Int /\ Taken \in 1 .. Len(sent)
  BY <1>1, <1>2 DEF LoopInv, Types, Taken, Held, InHand, OnStream
<1>7. r.num = Taken
  BY <1>1, <1>3, <1>6 DEF LoopInv, InHand, Numbered
<1>8. ASSUME NEW i \in 1 .. Len(Answered)
      PROVE  Answered'[i] = Answered[i] /\ Answered[i].num \in 1 .. Taken - 1
  BY <1>5, <1>6 DEF LoopInv, AnswersOK
<1>9. \A i \in 1 .. Len(Answered') : i \in 1 .. Len(Answered) \/ i = Len(Answered) + 1
  BY <1>5
<1>10. AnswersOK'
  <2> SUFFICES ASSUME NEW i \in 1 .. Len(Answered')
               PROVE  Answered'[i].num \in 1 .. Taken
    BY <1>1, <1>6 DEF AnswersOK
  <2>1. CASE i \in 1 .. Len(Answered)
    BY <1>6, <1>8, <2>1
  <2>2. CASE i = Len(Answered) + 1
    BY <1>5, <1>6, <1>7, <2>2
  <2> QED
    BY <1>9, <2>1, <2>2
<1>11. InOrder'
  <2> SUFFICES ASSUME NEW i \in 1 .. Len(Answered'), NEW j \in 1 .. Len(Answered'), i < j
               PROVE  Answered'[i].num < Answered'[j].num
    BY DEF InOrder
  <2>1. i \in 1 .. Len(Answered)
    BY <1>5
  <2>2. CASE j \in 1 .. Len(Answered)
    BY <1>8, <2>1, <2>2 DEF LoopInv, InOrder
  <2>3. CASE j = Len(Answered) + 1
    BY <1>5, <1>6, <1>7, <1>8, <2>1, <2>3
  <2> QED
    BY <1>9, <2>2, <2>3
<1>12. NoneMissing'
  <2> SUFFICES ASSUME ~broken
               PROVE  /\ Len(Answered') = Taken
                      /\ \A i \in 1 .. Len(Answered') : Answered'[i].num = i
    BY <1>1, <1>6 DEF NoneMissing
  <2>1. Len(Answered) = Taken - 1 /\ \A i \in 1 .. Len(Answered) : Answered[i].num = i
    BY <1>6 DEF LoopInv, NoneMissing
  <2> QED
    BY <1>5, <1>6, <1>7, <1>8, <1>9, <2>1
<1>13. Numbered' /\ OnStream' /\ InHand'
  BY <1>1, <1>2, <1>6 DEF LoopInv, Numbered, OnStream, InHand
<1> QED
  BY <1>10, <1>11, <1>12, <1>13 DEF LoopInv

LEMMA ServerWritesInv ==
  ASSUME LoopInv, Types', ServerWrites
  PROVE  LoopInv'
<1>1. /\ UNCHANGED <<sent, up, broken, got>> /\ srv.at = "write" /\ srv' = Idle
      /\ down' = Append(down, srv.packet) /\ srv'.at # "write" /\ srv'.at # "handle"
  BY DEF ServerWrites, Idle
<1>2. Types /\ got \in Seq(Responses) /\ down \in Seq(Responses)
  BY DEF LoopInv, Types
<1>3. srv.packet \in Responses /\ Answered = Append(got \o down, srv.packet)
  BY <1>1, <1>2, AnsweredAtWrite
<1>4. got \o down' = Append(got \o down, srv.packet) /\ got \o down' \in Seq(Responses)
  BY <1>1, <1>2, <1>3, ConcatAppend, AppendProperties, ConcatProperties
<1>5. Answered' = Answered
  <2>1. Answered' = (got \o down') \o <<>>
    BY <1>1 DEF Answered
  <2> QED
    BY <1>3, <1>4, <2>1, ConcatEmptySeq
<1>6. Taken' = Taken /\ Held' = Held
  BY <1>1 DEF Taken, Held
<1> QED
  BY <1>1, <1>5, <1>6
     DEF LoopInv, Numbered, OnStream, InHand, AnswersOK, InOrder, NoneMissing

LEMMA ServerWriteFailsInv ==
  ASSUME LoopInv, Types', ServerWriteFails
  PROVE  LoopInv'
<1>1. /\ UNCHANGED <<sent, up, down, got>> /\ srv.at = "write" /\ srv' = Idle
      /\ broken' /\ srv'.at # "write" /\ srv'.at # "handle"
  BY DEF ServerWriteFails, Idle
<1>2. Types /\ got \o down \in Seq(Responses)
  BY ConcatProperties DEF LoopInv, Types
<1>3. srv.packet \in Responses /\ Answered = Append(got \o down, srv.packet)
  BY <1>1, <1>2, AnsweredAtWrite
<1>4. Answered' = got \o down
  <2>1. Answered' = (got \o down) \o <<>>
    BY <1>1 DEF Answered
  <2> QED
    BY <1>2, <2>1, ConcatEmptySeq
<1>5. /\ Len(Answered') \in Nat /\ Len(Answered) = Len(Answered') + 1
      /\ \A i \in 1 .. Len(Answered') : i \in 1 .. Len(Answered) /\ Answered'[i] = Answered[i]
  BY <1>2, <1>3, <1>4, AppendProperties
<1>6. Taken' = Taken /\ Held' = Held
  BY <1>1 DEF Taken, Held
<1>7. AnswersOK' /\ InOrder'
  BY <1>1, <1>5, <1>6 DEF LoopInv, AnswersOK, InOrder
<1>8. Numbered' /\ OnStream' /\ InHand' /\ NoneMissing'
  BY <1>1, <1>6 DEF LoopInv, Numbered, OnStream, InHand, NoneMissing
<1> QED
  BY <1>7, <1>8 DEF LoopInv

LEMMA LoopNext == LoopInv /\ [Next]_vars => LoopInv'
<1> SUFFICES ASSUME LoopInv, [Next]_vars PROVE LoopInv'
  OBVIOUS
<1>0. Types'
  BY TypesStep DEF LoopInv
<1>1. ASSUME UNCHANGED <<sent, up, srv, broken, down, got>> PROVE LoopInv'
  <2>1. Answered' = Answered
    BY <1>1 DEF Answered
  <2> QED
    BY <1>0, <1>1, <2>1, AsideStep
<1>2. ASSUME NEW kind \in PacketKinds, Call(kind) PROVE LoopInv'
  BY <1>1, <1>2 DEF Call, serverVars
<1>3. CASE \/ CloseSession \/ WriterTakes \/ WriterShuts \/ WriterCancelled
            \/ ReaderEnds \/ ConnectionLost
  BY <1>1, <1>3 DEF CloseSession, WriterTakes, WriterShuts, WriterCancelled, ReaderEnds,
     ConnectionLost, serverVars
<1>4. CASE WriterWrites
  BY <1>0, <1>4, WriterWritesInv
<1>5. CASE ReaderReads
  BY <1>0, <1>5, ReaderReadsInv
<1>6. CASE ServerReads
  BY <1>0, <1>6, ServerReadsInv
<1>7. ASSUME NEW ok \in BOOLEAN, ServerHandles(ok) PROVE LoopInv'
  BY <1>0, <1>7, ServerHandlesInv
<1>8. CASE ServerWrites
  BY <1>0, <1>8, ServerWritesInv
<1>9. CASE ServerWriteFails
  BY <1>0, <1>9, ServerWriteFailsInv
<1>10. CASE ServerEnds
  <2>1. /\ UNCHANGED <<sent, up, broken, down, got>> /\ srv.at # "write" /\ srv.at # "handle"
        /\ srv'.at # "write" /\ srv'.at # "handle"
    BY <1>10 DEF ServerEnds, Idle, Ended
  <2>2. Answered' = Answered /\ Taken' = Taken /\ Held' = Held
    BY <2>1 DEF Answered, Taken, Held
  <2> QED
    BY <1>0, <2>1, <2>2
       DEF LoopInv, Numbered, OnStream, InHand, AnswersOK, InOrder, NoneMissing
<1>11. CASE UNCHANGED vars
  BY <1>1, <1>11 DEF vars, serverVars
<1> QED
  BY <1>2, <1>3, <1>4, <1>5, <1>6, <1>7, <1>8, <1>9, <1>10, <1>11 DEF Next, WriterStep

-----------------------------------------------------------------------------
(* What follows from the invariant *)

LEMMA LoopOneAnswer == LoopInv => OneAnswerEach
<1> SUFFICES ASSUME LoopInv PROVE OneAnswerEach
  OBVIOUS
<1> DEFINE done == Len(Answered)
           held == IF srv.at = "handle" THEN <<srv.packet>> ELSE <<>>
           rest == SubSeq(sent, done + 1, Len(sent))
<1>1. ASSUME ~broken PROVE rest = held \o up
  <2>1. sent \in Seq(Packets) /\ up \in Seq(Packets) /\ Answered \in Seq(Responses)
    BY AnsweredType DEF LoopInv, Types
  <2>2. Len(sent) \in Nat /\ Len(up) \in Nat /\ done \in Nat
    BY <2>1, LenProperties
  <2>3. done = Len(sent) - Len(up) - Held /\ Held \in {0, 1}
    BY <1>1, <2>2 DEF LoopInv, NoneMissing, Taken, Held
  <2>4. held \in Seq(Packets) /\ Len(held) = Held
    BY DEF LoopInv, Types, SrvStates, Idle, Ended, Held
  <2>5. held # <<>> => Held = 1 /\ held[1] = sent[done + 1]
    BY <2>2, <2>3 DEF LoopInv, InHand, Held, Taken
  <2> HIDE DEF done, held
  <2>6. /\ rest \in Seq(Packets) /\ Len(rest) = Held + Len(up)
        /\ \A i \in 1 .. Held + Len(up) : rest[i] = sent[done + i]
    <3>1. \A i \in done + 1 .. Len(sent) : sent[i] \in Packets
      BY <2>1, <2>2
    <3>2. /\ rest \in Seq(Packets)
          /\ Len(rest) = IF done + 1 <= Len(sent) THEN Len(sent) - (done + 1) + 1 ELSE 0
          /\ \A i \in 1 .. Len(sent) - (done + 1) + 1 : rest[i] = sent[(done + 1) + i - 1]
      BY <2>2, <3>1, SubSeqProperties
    <3>3. Len(rest) = Held + Len(up) /\ Len(sent) - (done + 1) + 1 = Held + Len(up)
      BY <2>2, <2>3, <3>2
    <3>4. \A i \in 1 .. Held + Len(up) : (done + 1) + i - 1 = done + i
      BY <2>2, <2>3
    <3> QED
      BY <3>2, <3>3, <3>4
  <2> HIDE DEF rest
  <2>7. /\ held \o up \in Seq(Packets) /\ Len(held \o up) = Held + Len(up)
        /\ \A i \in 1 .. Held + Len(up) :
             (held \o up)[i] = IF i <= Held THEN held[i] ELSE up[i - Held]
    BY <2>1, <2>4, ConcatProperties
  <2>8. ASSUME NEW i \in 1 .. Held + Len(up) PROVE rest[i] = (held \o up)[i]
    <3>1. CASE i <= Held
      <4>1. i = 1 /\ Held = 1 /\ held # <<>>
        BY <2>2, <2>3, <2>4, <3>1
      <4> QED
        BY <2>5, <2>6, <2>7, <4>1
    <3>2. CASE i > Held
      <4>1. i - Held \in 1 .. Len(up) /\ Taken + (i - Held) = done + i
        BY <2>2, <2>3, <3>2 DEF Taken
      <4>2. up[i - Held] = sent[Taken + (i - Held)]
        BY <4>1 DEF LoopInv, OnStream
      <4>3. (held \o up)[i] = up[i - Held]
        BY <2>2, <2>3, <2>7, <3>2
      <4> QED
        BY <2>6, <4>1, <4>2, <4>3
    <3>3. i <= Held \/ i > Held
      BY <2>2, <2>3
    <3> QED
      BY <3>1, <3>2, <3>3
  <2> QED
    BY <2>6, <2>7, <2>8, SeqEqual
<1> QED
  BY <1>1 DEF LoopInv, InOrder, NoneMissing, OneAnswerEach

(* server::run answers packets in the order they were written and each at   *)
(* most once, and passes none over while its writes succeed.                *)
THEOREM ServerOneAnswerEach == Spec => []OneAnswerEach
  BY LoopInit, LoopNext, LoopOneAnswer, PTL DEF Spec
=============================================================================
