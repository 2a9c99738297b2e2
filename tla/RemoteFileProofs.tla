-------------------------- MODULE RemoteFileProofs --------------------------
(* Theorems about RemoteFile, for every word size, limit, buffer length and *)
(* answer of the server, and a task that overlaps its operations.           *)
EXTENDS RemoteFile, TLAPS

(* Arithmetic of the seeks and of the transfers *)

LEMMA WrapRange ==
  ASSUME NEW x \in -Half - Half .. Half + Half - 2
  PROVE  Wrap(x) \in -Half .. Half - 1
BY FileAssumption DEF Wrap, U64

(* A target that is not refused is the one meant, or 2^64 below it when it  *)
(* is out of a u64.                                                         *)
LEMMA NewPosRange ==
  ASSUME NEW s \in SeekFuts, NEW size \in Sizes,
         IF s.from = "Start" THEN s.arg \in 0 .. U64 - 1
         ELSE s.arg \in -Half .. Half - 1
  PROVE  /\ NewPos(s, size) \in -Half - Half .. Half + Half - 2
         /\ Wrap(NewPos(s, size)) >= 0 =>
              /\ Target(s, size) \in 0 .. 2 * U64 - 1
              /\ Wrap(NewPos(s, size)) = Cursor!Wrapped(Target(s, size))
<1>1. /\ size \in 0 .. U64 - 1 /\ s.from \in {"Start", "Current", "End"}
      /\ s.cur \in 0 .. U64 - 1
  BY FileAssumption DEF SeekFuts, Froms
<1>2. CASE s.from = "Start"
  BY <1>1, <1>2, FileAssumption DEF NewPos, Target, I64, Wrap, U64, Cursor!Wrapped
<1>3. CASE s.from = "Current"
  BY <1>1, <1>3, FileAssumption DEF NewPos, Target, I64, Wrap, U64, Cursor!Wrapped
<1>4. CASE s.from = "End"
  BY <1>1, <1>4, FileAssumption DEF NewPos, Target, I64, Wrap, U64, Cursor!Wrapped
<1> QED
  BY <1>1, <1>2, <1>3, <1>4

LEMMA AddedRange ==
  ASSUME pos \in 0 .. U64 - 1, NEW n \in 0 .. U64 - 1
  PROVE  Added(n) \in 0 .. U64 - 1 /\ Added(n) = Cursor!Wrapped(pos + n)
BY FileAssumption DEF Added, Cursor!Wrapped, U64

LEMMA ChunkType ==
  ASSUME NEW room \in Nat, NEW limit \in Nat
  PROVE  Chunk(room, limit) \in Nat /\ Chunk(room, limit) <= room
                                    /\ Chunk(room, limit) <= limit
BY DEF Chunk

LEMMA CastShrinks ==
  ASSUME NEW x \in Nat
  PROVE  x % U32 \in Nat /\ x % U32 <= x
BY FileAssumption

-----------------------------------------------------------------------------
(* The type invariant needs the range of what a seek was asked for, and the *)
(* lengths of the requests: a write that was made cannot be too long.       *)

SeekRange ==
  f_seek \notin {None, Finished} =>
    IF f_seek.from = "Start" THEN f_seek.arg \in 0 .. U64 - 1
    ELSE f_seek.arg \in -Half .. Half - 1
Lengthy ==
  /\ f_read # None => f_read.len <= f_read.room
  /\ f_write # None => f_write.len <= f_write.room /\ f_write.len <= U64 - 1

TypeInv == TypeOK /\ SeekRange /\ Lengthy

LEMMA FutureTypes ==
  ASSUME TypeInv, NEW room \in Rooms
  PROVE  /\ ReadFuture(room) \in Transfers /\ WriteFuture(room) \in Transfers
         /\ ReadFuture(room).len <= ReadFuture(room).room
         /\ WriteFuture(room).len <= WriteFuture(room).room
         /\ WriteFuture(room).len <= U64 - 1
         /\ f_read = None => ReadFuture(room).offset = pos
         /\ f_write = None => WriteFuture(room).offset = pos
<1>1. /\ room \in Nat /\ MaxReadLen \in Nat /\ MaxWriteLen \in Nat
      /\ MaxWriteLen <= U64 - 1 /\ U64 \in Nat /\ pos \in 0 .. U64 - 1
  BY FileAssumption DEF TypeInv, TypeOK, U64
<1>2. /\ Chunk(room, MaxReadLen) \in Nat /\ Chunk(room, MaxReadLen) <= room
      /\ Chunk(room, MaxWriteLen) \in Nat /\ Chunk(room, MaxWriteLen) <= room
      /\ Chunk(room, MaxWriteLen) <= MaxWriteLen
  BY <1>1, ChunkType
<1>3. /\ Chunk(room, MaxReadLen) % U32 \in Nat
      /\ Chunk(room, MaxReadLen) % U32 <= Chunk(room, MaxReadLen)
  BY <1>2, CastShrinks
<1>4. Chunk(room, MaxReadLen) % U32 <= room /\ Chunk(room, MaxWriteLen) <= U64 - 1
  BY <1>1, <1>2, <1>3
<1>5. /\ f_read \in Transfers \cup {None} /\ f_write \in Transfers \cup {None}
      /\ Lengthy
  BY DEF TypeInv, TypeOK
<1>6. /\ ReadFuture(room) \in Transfers
      /\ ReadFuture(room).len <= ReadFuture(room).room
      /\ f_read = None => ReadFuture(room).offset = pos
  <2>1. CASE f_read = None
    <3> DEFINE asked == Chunk(room, MaxReadLen) % U32
    <3> HIDE DEF asked
    <3>1. asked \in Nat /\ asked <= room
      BY <1>3, <1>4 DEF asked
    <3>2. ReadFuture(room) = [offset |-> pos, len |-> asked, room |-> room]
      BY <2>1 DEF ReadFuture, asked
    <3> QED
      BY <1>1, <3>1, <3>2 DEF Transfers
  <2>2. CASE f_read # None
    BY <1>5, <2>2 DEF ReadFuture, Lengthy
  <2> QED
    BY <2>1, <2>2
<1>7. /\ WriteFuture(room) \in Transfers
      /\ WriteFuture(room).len <= WriteFuture(room).room
      /\ WriteFuture(room).len <= U64 - 1
      /\ f_write = None => WriteFuture(room).offset = pos
  <2>1. CASE f_write = None
    BY <1>1, <1>2, <1>4, <2>1 DEF WriteFuture, Transfers
  <2>2. CASE f_write # None
    BY <1>5, <2>2 DEF WriteFuture, Lengthy
  <2> QED
    BY <2>1, <2>2
<1> QED
  BY <1>6, <1>7

LEMMA ResultType ==
  ASSUME NEW o \in {"read", "write", "seek"}, NEW x \in Int, NEW n \in Nat,
         NEW room \in Nat, NEW asked \in Nat, NEW first \in Nat
  PROVE  [op |-> o, at |-> x, n |-> n, room |-> room, asked |-> asked,
          first |-> first] \in Results \ {None}
BY FileAssumption DEF Results

(* An operation that ends leaves only the others disturbed. *)
LEMMA EndsDisturbs ==
  ASSUME disturbed \subseteq Pending, NEW o, Ends(o), Pending' = Pending \ {o}
  PROVE  disturbed' \subseteq Pending'
BY DEF Ends

LEMMA TypeInit == Init => TypeInv
<1> SUFFICES ASSUME Init PROVE TypeInv
  OBVIOUS
<1>1. closed \in BOOLEAN
  BY Zenon DEF Init
<1>2. pos \in 0 .. U64 - 1
  BY FileAssumption DEF Init, U64
<1> QED
  BY <1>1, <1>2 DEF Init, TypeInv, TypeOK, SeekRange, Lengthy

(* What each kind of step does to the operations under way. *)
LEMMA ReadEnds ==
  ASSUME f_read' = None, UNCHANGED <<f_write, f_seek>>
  PROVE  Pending' = Pending \ {"read"}
BY DEF Pending

LEMMA WriteEnds ==
  ASSUME f_write' = None, UNCHANGED <<f_read, f_seek>>
  PROVE  Pending' = Pending \ {"write"}
BY DEF Pending

LEMMA SeekEnds ==
  ASSUME f_seek' \in {None, Finished}, UNCHANGED <<f_read, f_write>>
  PROVE  Pending' = Pending \ {"seek"}
BY DEF Pending

LEMMA TypeStep == TypeInv /\ [Next]_vars => TypeInv'
<1> SUFFICES ASSUME TypeInv, [Next]_vars PROVE TypeInv'
  OBVIOUS
<1>0. TypeOK /\ SeekRange /\ Lengthy /\ disturbed \subseteq Pending
  BY DEF TypeInv, TypeOK
<1>1. ASSUME NEW room \in Rooms, PollReadPending(room) PROVE TypeInv'
  <2>1. f_read' \in Transfers /\ f_read'.len <= f_read'.room
    BY <1>1, FutureTypes DEF PollReadPending
  <2>2. disturbed' \subseteq Pending'
    BY <1>0, <1>1, <2>1, FileAssumption DEF PollReadPending, Pending
  <2> QED
    BY <1>0, <1>1, <2>1, <2>2 DEF TypeInv, TypeOK, SeekRange, Lengthy, PollReadPending
<1>2. ASSUME NEW room \in Rooms, PollReadNothing(room) PROVE TypeInv'
  <2>1. disturbed' \subseteq Pending'
    BY <1>0, <1>2, EndsDisturbs, ReadEnds DEF PollReadNothing
  <2> QED
    BY <1>0, <1>2, <2>1 DEF TypeInv, TypeOK, SeekRange, Lengthy, PollReadNothing
<1>3. ASSUME NEW room \in Rooms, NEW n \in Lengths, PollReadData(room, n)
      PROVE  TypeInv'
  <2>1. disturbed' \subseteq Pending'
    BY <1>0, <1>3, EndsDisturbs, ReadEnds DEF PollReadData
  <2>2. /\ f_read \in Transfers /\ n \in 0 .. U64 - 1 /\ n \in Nat /\ room \in Nat
        /\ pos \in 0 .. U64 - 1
    BY <1>0, <1>3, FileAssumption DEF PollReadData, TypeOK, U64
  <2>3. f_read.offset \in Int /\ f_read.len \in Nat /\ f_read.room \in Nat
    BY <2>2 DEF Transfers
  <2>4. Added(n) \in 0 .. U64 - 1
    BY <2>2, AddedRange
  <2>5. [op |-> "read", at |-> f_read.offset, n |-> n, room |-> room,
         asked |-> f_read.len, first |-> f_read.room] \in Results
    BY <2>2, <2>3, ResultType
  <2>6. /\ pos' \in 0 .. U64 - 1 /\ result' \in Results \cup {None}
        /\ panicked' \in {"no", "buffer", "overflow", "resumed"}
    BY <1>3, <2>2, <2>4, <2>5 DEF PollReadData
  <2> QED
    BY <1>0, <1>3, <2>1, <2>6 DEF TypeInv, TypeOK, SeekRange, Lengthy, PollReadData
<1>4. ASSUME NEW room \in Rooms, PollWritePending(room) PROVE TypeInv'
  <2>1. /\ f_write' \in Transfers /\ f_write'.len <= f_write'.room
        /\ f_write'.len <= U64 - 1
    BY <1>4, FutureTypes DEF PollWritePending
  <2>2. disturbed' \subseteq Pending'
    BY <1>0, <1>4, <2>1, FileAssumption DEF PollWritePending, Pending
  <2> QED
    BY <1>0, <1>4, <2>1, <2>2 DEF TypeInv, TypeOK, SeekRange, Lengthy, PollWritePending
<1>5. ASSUME NEW room \in Rooms, PollWriteErr(room) PROVE TypeInv'
  <2>1. disturbed' \subseteq Pending'
    BY <1>0, <1>5, EndsDisturbs, WriteEnds DEF PollWriteErr
  <2> QED
    BY <1>0, <1>5, <2>1 DEF TypeInv, TypeOK, SeekRange, Lengthy, PollWriteErr
<1>6. ASSUME NEW room \in Rooms, PollWriteOk(room) PROVE TypeInv'
  <2>1. disturbed' \subseteq Pending'
    BY <1>0, <1>6, EndsDisturbs, WriteEnds DEF PollWriteOk
  <2>2. f_write \in Transfers /\ room \in Nat /\ pos \in 0 .. U64 - 1 /\ Lengthy
    BY <1>0, <1>6, FileAssumption DEF PollWriteOk, TypeOK
  <2>3. /\ f_write.offset \in Int /\ f_write.len \in Nat /\ f_write.room \in Nat
        /\ f_write.len \in 0 .. U64 - 1
    BY <1>6, <2>2, FileAssumption DEF Transfers, Lengthy, PollWriteOk, U64
  <2>4. Added(f_write.len) \in 0 .. U64 - 1
    BY <2>2, <2>3, AddedRange
  <2>5. [op |-> "write", at |-> f_write.offset, n |-> f_write.len, room |-> room,
         asked |-> f_write.len, first |-> f_write.room] \in Results
    BY <2>2, <2>3, ResultType
  <2>6. /\ pos' \in 0 .. U64 - 1 /\ result' \in Results \cup {None}
        /\ panicked' \in {"no", "buffer", "overflow", "resumed"}
    BY <1>0, <1>6, <2>2, <2>4, <2>5 DEF PollWriteOk, WriteDone, TypeOK
  <2> QED
    BY <1>0, <1>6, <2>1, <2>6 DEF TypeInv, TypeOK, SeekRange, Lengthy, PollWriteOk
<1>7. ASSUME NEW from \in Froms, NEW arg \in Offsets \cup 0 .. U64 - 1,
             StartSeek(from, arg)
      PROVE  TypeInv'
  <2>0. arg \in Int /\ pos \in 0 .. U64 - 1
    BY <1>0, FileAssumption DEF TypeOK
  <2>1. f_seek' \in SeekFuts
    BY <1>7, <2>0 DEF StartSeek, SeekFuts
  <2>2. SeekRange'
    BY <1>7, FileAssumption DEF StartSeek, SeekRange
  <2>3. disturbed' \subseteq Pending'
    BY <1>0, <1>7, <2>1, FileAssumption DEF StartSeek, Pending
  <2> QED
    BY <1>0, <1>7, <2>1, <2>2, <2>3 DEF TypeInv, TypeOK, Lengthy, StartSeek
<1>8. CASE PollCompleteErr
  <2>1. disturbed' \subseteq Pending'
    BY <1>0, <1>8, EndsDisturbs, SeekEnds DEF PollCompleteErr
  <2> QED
    BY <1>0, <1>8, <2>1 DEF TypeInv, TypeOK, SeekRange, Lengthy, PollCompleteErr
<1>9. ASSUME NEW size \in Sizes, PollCompleteReady(size) PROVE TypeInv'
  <2>0. f_seek' \in {None, Finished}
    BY <1>9 DEF PollCompleteReady
  <2>1. disturbed' \subseteq Pending'
    BY <1>0, <1>9, <2>0, EndsDisturbs, SeekEnds DEF PollCompleteReady
  <2>2. f_seek \in SeekFuts /\ f_seek \notin {None, Finished}
    BY <1>0, <1>9 DEF PollCompleteReady, TypeOK
  <2>3. /\ Wrap(NewPos(f_seek, size)) \in -Half .. Half - 1
        /\ Wrap(NewPos(f_seek, size)) >= 0 => Target(f_seek, size) \in Int
    BY <1>0, <2>2, NewPosRange, WrapRange DEF SeekRange
  <2>4. Wrap(NewPos(f_seek, size)) >= 0 =>
          [op |-> "seek", at |-> Target(f_seek, size), n |-> 0, room |-> 0,
           asked |-> 0, first |-> 0] \in Results
    BY <2>3, ResultType
  <2>5. /\ pos' \in 0 .. U64 - 1 /\ result' \in Results \cup {None}
        /\ panicked' \in {"no", "buffer", "overflow", "resumed"}
    BY <1>0, <1>9, <2>3, <2>4, FileAssumption DEF PollCompleteReady, TypeOK, U64
  <2> QED
    BY <1>0, <1>9, <2>0, <2>1, <2>5
    DEF TypeInv, TypeOK, SeekRange, Lengthy, PollCompleteReady
<1>10. CASE PollCompleteAgain
  <2>1. disturbed' \subseteq Pending'
    BY <1>0, <1>10 DEF PollCompleteAgain, Pending, fileVars
  <2> QED
    BY <1>0, <1>10, <2>1 DEF PollCompleteAgain, TypeInv, TypeOK, SeekRange, Lengthy,
       fileVars
<1>14. CASE PollFlushPending \/ PollFlushReady
  <2>1. disturbed' \subseteq Pending'
    BY <1>0, <1>14 DEF PollFlushPending, PollFlushReady, Pending
  <2> QED
    BY <1>0, <1>14, <2>1 DEF PollFlushPending, PollFlushReady, TypeInv, TypeOK,
       SeekRange, Lengthy
<1>11. CASE PollShutdownPending \/ PollShutdownReady
  <2>1. closed' \in BOOLEAN
    BY <1>0, <1>11, Zenon DEF PollShutdownPending, PollShutdownReady, TypeOK
  <2>2. disturbed' \subseteq Pending'
    BY <1>0, <1>11 DEF PollShutdownPending, PollShutdownReady, Pending
  <2> QED
    BY <1>0, <1>11, <2>1, <2>2 DEF PollShutdownPending, PollShutdownReady, SendsClose,
       TypeInv, TypeOK, SeekRange, Lengthy
<1>12. ASSUME NEW where \in {"runtime", "outside"}, DropFile(where) PROVE TypeInv'
  BY <1>0, <1>12 DEF DropFile, TypeInv, TypeOK, SeekRange, Lengthy
<1>13. CASE UNCHANGED vars
  BY <1>0, <1>13 DEF vars, fileVars, TypeInv, TypeOK, SeekRange, Lengthy, Pending
<1> QED
  BY <1>1, <1>2, <1>3, <1>4, <1>5, <1>6, <1>7, <1>8, <1>9, <1>10, <1>11, <1>12, <1>13,
     <1>14 DEF Next

(* The file's state keeps its shape, and the position stays a u64, whatever *)
(* lengths and sizes the server answers and however the task overlaps its   *)
(* operations.                                                              *)
THEOREM TypeCorrect == Spec => []TypeOK
<1>1. TypeInv => TypeOK
  BY DEF TypeInv
<1> QED
  BY <1>1, TypeInit, TypeStep, PTL DEF Spec

-----------------------------------------------------------------------------
(* Results against buffers.  What a transfer was asked for is no more than  *)
(* the buffer it was made for holds (Lengthy).                              *)

LEMMA FitsStep == TypeInv /\ FitsBuffer /\ [Next]_vars => FitsBuffer'
<1> SUFFICES ASSUME TypeInv, FitsBuffer, [Next]_vars PROVE FitsBuffer'
  OBVIOUS
<1>0. TypeOK /\ Lengthy
  BY DEF TypeInv
<1>1. ASSUME NEW room \in Rooms, NEW n \in Lengths, PollReadData(room, n)
      PROVE  FitsBuffer'
  <2>1. CASE result' = None
    BY <2>1 DEF FitsBuffer
  <2>2. CASE result' = [op |-> "read", at |-> f_read.offset, n |-> n, room |-> room,
                        asked |-> f_read.len, first |-> f_read.room]
    <3>1. f_read.len \in Nat /\ f_read.room \in Nat /\ f_read.len <= f_read.room
      BY <1>0, <1>1 DEF PollReadData, TypeOK, Transfers, Lengthy
    <3>2. n \in Nat /\ room \in Nat
      BY FileAssumption DEF U64
    <3>3. n > room => n > f_read.len \/ room < f_read.room
      BY <3>1, <3>2
    <3> QED
      BY <2>2, <3>3 DEF FitsBuffer
  <2> QED
    BY <1>1, <2>1, <2>2 DEF PollReadData
<1>2. ASSUME NEW room \in Rooms, PollWriteOk(room) PROVE FitsBuffer'
  <2>1. CASE result' = None
    BY <2>1 DEF FitsBuffer
  <2>2. CASE result' = [op |-> "write", at |-> f_write.offset, n |-> f_write.len,
                        room |-> room, asked |-> f_write.len, first |-> f_write.room]
    <3>1. f_write.len \in Nat /\ f_write.room \in Nat /\ f_write.len <= f_write.room
      BY <1>0, <1>2 DEF PollWriteOk, TypeOK, Transfers, Lengthy
    <3>2. room \in Nat
      BY FileAssumption
    <3>3. f_write.len > room => room < f_write.room
      BY <3>1, <3>2
    <3> QED
      BY <2>2, <3>3 DEF FitsBuffer
  <2> QED
    BY <1>2, <2>1, <2>2 DEF PollWriteOk, WriteDone
<1>3. ASSUME NEW size \in Sizes, PollCompleteReady(size) PROVE FitsBuffer'
  BY <1>3 DEF PollCompleteReady, FitsBuffer
<1>4. CASE result' = None
  BY <1>4 DEF FitsBuffer
<1>5. CASE UNCHANGED vars
  BY <1>5 DEF FitsBuffer, vars
<1> QED
  BY <1>1, <1>2, <1>3, <1>4, <1>5 DEF Next, PollReadPending, PollReadNothing,
     PollWritePending, PollWriteErr, StartSeek, PollCompleteErr, PollCompleteAgain,
     PollFlushPending, PollFlushReady, PollShutdownPending, PollShutdownReady, DropFile

(* With any limits, buffers and answers: poll_read overruns its buffer and  *)
(* poll_write reports more than it was given only after an answer longer    *)
(* than its request, or a buffer shorter than the one the request was for.  *)
THEOREM TransfersFit == Spec => []FitsBuffer
<1>1. Init => FitsBuffer
  BY DEF Init, FitsBuffer
<1> QED
  BY <1>1, TypeInit, TypeStep, FitsStep, PTL DEF Spec

-----------------------------------------------------------------------------
(* Operations under way, and where they began.                              *)

LEMMA AtCursorParts ==
  AtCursor <=> /\ f_read # None /\ "read" \notin disturbed => f_read.offset = pos
               /\ f_write # None /\ "write" \notin disturbed => f_write.offset = pos
               /\ f_seek \notin {None, Finished} /\ "seek" \notin disturbed
                    => f_seek.cur = pos
BY DEF AtCursor, Pending, BeganAt

LEMMA AtCursorPartsNext ==
  AtCursor' <=> /\ f_read' # None /\ "read" \notin disturbed' => f_read'.offset = pos'
                /\ f_write' # None /\ "write" \notin disturbed'
                     => f_write'.offset = pos'
                /\ f_seek' \notin {None, Finished} /\ "seek" \notin disturbed'
                     => f_seek'.cur = pos'
BY DEF AtCursor, Pending, BeganAt

(* What ends moves the position under all the others, or not at all. *)
LEMMA EndsAt ==
  ASSUME AtCursor, NEW o \in {"read", "write", "seek"}, Ends(o),
         Pending' = Pending \ {o},
         f_read' \in {f_read, None}, f_write' \in {f_write, None},
         f_seek' \in {f_seek, None, Finished}
  PROVE  AtCursor'
<1>1. CASE pos' = pos
  <2>1. disturbed' = disturbed \ {o}
    BY <1>1 DEF Ends
  <2>2. \A p \in Pending' \ disturbed' : p \in Pending \ disturbed
    BY <2>1
  <2>3. /\ "read" \in Pending' => f_read' = f_read
        /\ "write" \in Pending' => f_write' = f_write
        /\ "seek" \in Pending' => f_seek' = f_seek
    BY DEF Pending
  <2> QED
    BY <1>1, <2>2, <2>3, AtCursorParts, AtCursorPartsNext DEF Pending
<1>2. CASE pos' # pos
  <2>1. Pending' \subseteq disturbed'
    BY <1>2 DEF Ends
  <2> QED
    BY <2>1, AtCursorPartsNext DEF Pending
<1> QED
  BY <1>1, <1>2

LEMMA AtStep == TypeInv /\ AtCursor /\ [Next]_vars => AtCursor'
<1> SUFFICES ASSUME TypeInv, AtCursor, [Next]_vars PROVE AtCursor'
  OBVIOUS
<1>1. ASSUME NEW room \in Rooms, PollReadPending(room) PROVE AtCursor'
  <2>1. f_read' = ReadFuture(room) /\ (f_read = None => f_read'.offset = pos)
    BY <1>1, FutureTypes DEF PollReadPending
  <2>2. f_read # None => f_read' = f_read
    BY <2>1 DEF ReadFuture
  <2> QED
    BY <1>1, <2>1, <2>2, AtCursorParts, AtCursorPartsNext DEF PollReadPending
<1>2. ASSUME NEW room \in Rooms, PollWritePending(room) PROVE AtCursor'
  <2>1. f_write' = WriteFuture(room) /\ (f_write = None => f_write'.offset = pos)
    BY <1>2, FutureTypes DEF PollWritePending
  <2>2. f_write # None => f_write' = f_write
    BY <2>1 DEF WriteFuture
  <2> QED
    BY <1>2, <2>1, <2>2, AtCursorParts, AtCursorPartsNext DEF PollWritePending
<1>3. ASSUME NEW room \in Rooms,
             \/ PollReadNothing(room)
             \/ \E n \in Lengths : PollReadData(room, n)
      PROVE  AtCursor'
  BY <1>3, ReadEnds, EndsAt DEF PollReadNothing, PollReadData
<1>4. ASSUME NEW room \in Rooms, PollWriteErr(room) \/ PollWriteOk(room)
      PROVE  AtCursor'
  BY <1>4, WriteEnds, EndsAt DEF PollWriteErr, PollWriteOk
<1>5. ASSUME NEW from \in Froms, NEW arg \in Offsets \cup 0 .. U64 - 1,
             StartSeek(from, arg)
      PROVE  AtCursor'
  BY <1>5, AtCursorParts, AtCursorPartsNext DEF StartSeek
<1>6. ASSUME \/ PollCompleteErr
             \/ \E size \in Sizes : PollCompleteReady(size)
      PROVE  AtCursor'
  <2>1. Ends("seek") /\ f_seek' \in {None, Finished} /\ UNCHANGED <<f_read, f_write>>
    BY <1>6 DEF PollCompleteErr, PollCompleteReady
  <2> QED
    BY <2>1, SeekEnds, EndsAt
<1>7. ASSUME UNCHANGED <<pos, f_read, f_write, f_seek, disturbed>> PROVE AtCursor'
  BY <1>7, AtCursorParts, AtCursorPartsNext
<1>8. ASSUME NEW where \in {"runtime", "outside"}, DropFile(where) PROVE AtCursor'
  BY <1>8, AtCursorPartsNext DEF DropFile
<1> QED
  BY <1>1, <1>2, <1>3, <1>4, <1>5, <1>6, <1>7, <1>8 DEF Next, PollCompleteAgain,
     PollFlushPending, PollFlushReady, PollShutdownPending, PollShutdownReady,
     fileVars, vars

(* Whatever the task leaves pending, drops or takes up again: an operation  *)
(* that no other one moved the cursor under is for the place of the cursor. *)
THEOREM NeverStale == Spec => []AtCursor
<1>1. Init => AtCursor
  BY DEF Init, AtCursor, Pending
<1> QED
  BY <1>1, TypeInit, TypeStep, AtStep, PTL DEF Spec

-----------------------------------------------------------------------------
(* The abstract cursor.  What the slots of the file map to.                 *)

LEMMA BegunIs ==
  /\ Begun = [o \in Cursor!Ops |-> Begun[o]]
  /\ Begun["read"] = IF f_read # None THEN f_read.offset ELSE None
  /\ Begun["write"] = IF f_write # None THEN f_write.offset ELSE None
  /\ Begun["seek"] = IF f_seek \notin {None, Finished} THEN f_seek.cur ELSE None
BY DEF Begun, Cursor!Ops, BeganAt, Pending

LEMMA BegunNext ==
  /\ Begun' = [o \in Cursor!Ops |-> Begun'[o]]
  /\ Begun'["read"] = IF f_read' # None THEN f_read'.offset ELSE None
  /\ Begun'["write"] = IF f_write' # None THEN f_write'.offset ELSE None
  /\ Begun'["seek"] = IF f_seek' \notin {None, Finished} THEN f_seek'.cur ELSE None
BY DEF Begun, Cursor!Ops, BeganAt, Pending

(* A step that completes nothing and takes no operation up. *)
LEMMA MapsAbandon ==
  ASSUME result' = None, pos' = pos, NEW ops \in SUBSET Cursor!Ops,
         \A o \in Cursor!Ops : Begun'[o] = IF o \in ops THEN None ELSE Begun[o]
  PROVE  Cursor!Next
<1>1. Completed' = None
  BY DEF Completed
<1>2. Begun' = [o \in Cursor!Ops |-> IF o \in ops THEN None ELSE Begun[o]]
  BY BegunNext
<1>3. Cursor!Abandon(ops)
  BY <1>1, <1>2 DEF Cursor!Abandon
<1> QED
  BY <1>3 DEF Cursor!Next

(* A step that leaves the position and all operations on it alone. *)
LEMMA MapsForget ==
  ASSUME result' = None, pos' = pos, \A o \in Cursor!Ops : Begun'[o] = Begun[o]
  PROVE  Cursor!Next
<1>1. \A o \in Cursor!Ops : Begun'[o] = IF o \in {} THEN None ELSE Begun[o]
  OBVIOUS
<1>2. {} \in SUBSET Cursor!Ops
  OBVIOUS
<1> QED
  BY <1>1, <1>2, MapsAbandon

(* A step that begins operation o. *)
LEMMA MapsBegin ==
  ASSUME result' = None, pos' = pos, NEW o \in Cursor!Ops, Begun[o] = None,
         Begun'[o] = pos, \A p \in Cursor!Ops \ {o} : Begun'[p] = Begun[p]
  PROVE  Cursor!Next
<1>1. Completed' = None
  BY DEF Completed
<1>2. Begun' = [Begun EXCEPT ![o] = pos]
  BY BegunNext, BegunIs
<1>3. Cursor!Begin(o)
  BY <1>1, <1>2 DEF Cursor!Begin
<1> QED
  BY <1>3 DEF Cursor!Next

(* A step that completes operation o. *)
LEMMA MapsEnd ==
  ASSUME NEW o \in Cursor!Ops, Begun'[o] = None,
         \A p \in Cursor!Ops \ {o} : Begun'[p] = Begun[p]
  PROVE  Begun' = [Begun EXCEPT ![o] = None]
BY BegunNext, BegunIs

LEMMA OpsAre == Cursor!Ops = {"read", "write", "seek"}
BY DEF Cursor!Ops

LEMMA CursorRefines ==
  ASSUME TypeInv, [Next]_vars
  PROVE  [Cursor!Next]_<<pos, Begun, Completed>>
<1>0. TypeOK /\ SeekRange /\ Lengthy /\ pos \in 0 .. U64 - 1
  BY DEF TypeInv, TypeOK
<1>13. \A x \in 0 .. U64 - 1 : x # None
  BY FileAssumption
<1>1. ASSUME NEW room \in Rooms, PollReadPending(room) PROVE Cursor!Next
  <2>1. /\ result' = None /\ pos' = pos /\ f_read' \in Transfers /\ f_read' # None
        /\ f_read = None => f_read'.offset = pos
        /\ f_read # None => f_read' = f_read
        /\ UNCHANGED <<f_write, f_seek>>
    BY <1>1, FutureTypes, FileAssumption DEF PollReadPending, ReadFuture
  <2>2. CASE f_read = None
    BY <2>1, <2>2, OpsAre, BegunIs, BegunNext, MapsBegin
  <2>3. CASE f_read # None
    BY <2>1, <2>3, OpsAre, BegunIs, BegunNext, MapsForget
  <2> QED
    BY <2>2, <2>3
<1>2. ASSUME NEW room \in Rooms, PollReadNothing(room) PROVE Cursor!Next
  <2>1. {"read"} \in SUBSET Cursor!Ops
    BY OpsAre
  <2>2. \A o \in Cursor!Ops : Begun'[o] = IF o \in {"read"} THEN None ELSE Begun[o]
    BY <1>2, OpsAre, BegunIs, BegunNext DEF PollReadNothing
  <2> QED
    BY <1>2, <2>1, <2>2, MapsAbandon DEF PollReadNothing
<1>3. ASSUME NEW room \in Rooms, NEW n \in Lengths, PollReadData(room, n)
      PROVE  Cursor!Next
  <2>1. /\ f_read # None /\ f_read' = None /\ UNCHANGED <<f_write, f_seek>>
        /\ n \in 0 .. U64 - 1 /\ f_read \in Transfers
        /\ f_read.offset \in 0 .. U64 - 1
    BY <1>0, <1>3, FileAssumption DEF PollReadData, TypeOK, Transfers
  <2>2. CASE result' = None /\ pos' = pos
    <3>1. {"read"} \in SUBSET Cursor!Ops
      BY OpsAre
    <3>2. \A o \in Cursor!Ops : Begun'[o] = IF o \in {"read"} THEN None ELSE Begun[o]
      BY <2>1, OpsAre, BegunIs, BegunNext
    <3> QED
      BY <2>2, <3>1, <3>2, MapsAbandon
  <2>3. CASE /\ pos' = Added(n)
             /\ result' = [op |-> "read", at |-> f_read.offset, n |-> n, room |-> room,
                           asked |-> f_read.len, first |-> f_read.room]
    <3>1. Begun' = [Begun EXCEPT !["read"] = None]
      BY <2>1, OpsAre, BegunIs, BegunNext, MapsEnd
    <3>2. Begun["read"] = f_read.offset /\ Begun["read"] # None
      BY <1>13, <2>1, BegunIs
    <3>3. result' # None
      <4>1. /\ f_read.offset \in Int /\ f_read.len \in Nat /\ f_read.room \in Nat
            /\ n \in Nat /\ room \in Nat
        BY <2>1, FileAssumption DEF Transfers, U64
      <4> QED
        BY <2>3, <4>1, ResultType
    <3>4. Completed' = [op |-> "read", at |-> f_read.offset, n |-> n]
      BY <2>3, <3>3 DEF Completed
    <3>5. pos' = Cursor!Wrapped(pos + n)
      BY <1>0, <2>1, <2>3, AddedRange
    <3>6. Cursor!Transfer("read", n)
      BY <3>1, <3>2, <3>4, <3>5 DEF Cursor!Transfer
    <3> QED
      BY <2>1, <3>6 DEF Cursor!Next
  <2> QED
    BY <1>3, <2>2, <2>3 DEF PollReadData
<1>4. ASSUME NEW room \in Rooms, PollWritePending(room) PROVE Cursor!Next
  <2>1. /\ result' = None /\ pos' = pos /\ f_write' \in Transfers /\ f_write' # None
        /\ f_write = None => f_write'.offset = pos
        /\ f_write # None => f_write' = f_write
        /\ UNCHANGED <<f_read, f_seek>>
    BY <1>4, FutureTypes, FileAssumption DEF PollWritePending, WriteFuture
  <2>2. CASE f_write = None
    BY <2>1, <2>2, OpsAre, BegunIs, BegunNext, MapsBegin
  <2>3. CASE f_write # None
    BY <2>1, <2>3, OpsAre, BegunIs, BegunNext, MapsForget
  <2> QED
    BY <2>2, <2>3
<1>5. ASSUME NEW room \in Rooms, PollWriteErr(room) PROVE Cursor!Next
  <2>1. {"write"} \in SUBSET Cursor!Ops
    BY OpsAre
  <2>2. \A o \in Cursor!Ops : Begun'[o] = IF o \in {"write"} THEN None ELSE Begun[o]
    BY <1>5, OpsAre, BegunIs, BegunNext DEF PollWriteErr
  <2> QED
    BY <1>5, <2>1, <2>2, MapsAbandon DEF PollWriteErr
<1>6. ASSUME NEW room \in Rooms, PollWriteOk(room) PROVE Cursor!Next
  <2>1. /\ f_write # None /\ f_write' = None /\ UNCHANGED <<f_read, f_seek>>
        /\ f_write \in Transfers /\ f_write.offset \in 0 .. U64 - 1
        /\ f_write.len \in 0 .. U64 - 1
    BY <1>0, <1>6, FileAssumption DEF PollWriteOk, TypeOK, Transfers, Lengthy, U64
  <2>2. CASE result' = None /\ pos' = pos
    <3>1. {"write"} \in SUBSET Cursor!Ops
      BY OpsAre
    <3>2. \A o \in Cursor!Ops : Begun'[o] = IF o \in {"write"} THEN None ELSE Begun[o]
      BY <2>1, OpsAre, BegunIs, BegunNext
    <3> QED
      BY <2>2, <3>1, <3>2, MapsAbandon
  <2>3. CASE /\ pos' = Added(f_write.len)
             /\ result' = [op |-> "write", at |-> f_write.offset, n |-> f_write.len,
                           room |-> room, asked |-> f_write.len,
                           first |-> f_write.room]
    <3>1. Begun' = [Begun EXCEPT !["write"] = None]
      BY <2>1, OpsAre, BegunIs, BegunNext, MapsEnd
    <3>2. Begun["write"] = f_write.offset /\ Begun["write"] # None
      BY <1>13, <2>1, BegunIs
    <3>3. result' # None
      <4>1. /\ f_write.offset \in Int /\ f_write.len \in Nat /\ f_write.room \in Nat
            /\ room \in Nat
        BY <2>1, FileAssumption DEF Transfers, U64
      <4> QED
        BY <2>3, <4>1, ResultType
    <3>4. Completed' = [op |-> "write", at |-> f_write.offset, n |-> f_write.len]
      BY <2>3, <3>3 DEF Completed
    <3>5. pos' = Cursor!Wrapped(pos + f_write.len)
      BY <1>0, <2>1, <2>3, AddedRange
    <3>6. Cursor!Transfer("write", f_write.len)
      BY <3>1, <3>2, <3>4, <3>5 DEF Cursor!Transfer
    <3> QED
      BY <2>1, <3>6 DEF Cursor!Next
  <2> QED
    BY <1>6, <2>2, <2>3 DEF PollWriteOk, WriteDone
<1>7. ASSUME NEW from \in Froms, NEW arg \in Offsets \cup 0 .. U64 - 1,
             StartSeek(from, arg)
      PROVE  Cursor!Next
  <2>1. f_seek' \notin {None, Finished} /\ f_seek'.cur = pos
    <3>1. arg \in Int
      BY FileAssumption
    <3>2. f_seek' \in SeekFuts
      BY <1>0, <1>7, <3>1 DEF StartSeek, SeekFuts
    <3> QED
      BY <1>7, <3>2, FileAssumption DEF StartSeek
  <2> QED
    BY <1>7, <2>1, OpsAre, BegunIs, BegunNext, MapsBegin DEF StartSeek
<1>8. CASE PollCompleteErr
  <2>1. {"seek"} \in SUBSET Cursor!Ops
    BY OpsAre
  <2>2. \A o \in Cursor!Ops : Begun'[o] = IF o \in {"seek"} THEN None ELSE Begun[o]
    BY <1>8, OpsAre, BegunIs, BegunNext DEF PollCompleteErr
  <2> QED
    BY <1>8, <2>1, <2>2, MapsAbandon DEF PollCompleteErr
<1>9. ASSUME NEW size \in Sizes, PollCompleteReady(size) PROVE Cursor!Next
  <2>1. /\ f_seek \in SeekFuts /\ f_seek \notin {None, Finished}
        /\ f_seek' \in {None, Finished} /\ UNCHANGED <<f_read, f_write>>
        /\ f_seek.cur \in 0 .. U64 - 1
    BY <1>0, <1>9 DEF PollCompleteReady, TypeOK, SeekFuts
  <2>2. CASE result' = None /\ pos' = pos
    <3>1. {"seek"} \in SUBSET Cursor!Ops
      BY OpsAre
    <3>2. \A o \in Cursor!Ops : Begun'[o] = IF o \in {"seek"} THEN None ELSE Begun[o]
      BY <2>1, OpsAre, BegunIs, BegunNext
    <3> QED
      BY <2>2, <3>1, <3>2, MapsAbandon
  <2>3. CASE /\ Wrap(NewPos(f_seek, size)) >= 0
             /\ pos' = Wrap(NewPos(f_seek, size))
             /\ result' = [op |-> "seek", at |-> Target(f_seek, size), n |-> 0,
                           room |-> 0, asked |-> 0, first |-> 0]
    <3>1. Begun' = [Begun EXCEPT !["seek"] = None]
      BY <2>1, OpsAre, BegunIs, BegunNext, MapsEnd
    <3>2. Begun["seek"] # None
      BY <1>13, <2>1, BegunIs
    <3>3. result' # None
      BY <1>0, <2>1, <2>3, NewPosRange, ResultType DEF SeekRange
    <3>4. Completed' = [op |-> "seek", at |-> Target(f_seek, size), n |-> 0]
      BY <2>3, <3>3 DEF Completed
    <3>5. /\ Target(f_seek, size) \in 0 .. 2 * U64 - 1
          /\ pos' = Cursor!Wrapped(Target(f_seek, size))
      BY <1>0, <2>1, <2>3, NewPosRange DEF SeekRange
    <3>6. Cursor!Seek(Target(f_seek, size))
      BY <3>1, <3>2, <3>4, <3>5 DEF Cursor!Seek
    <3> QED
      BY <3>5, <3>6 DEF Cursor!Next
  <2> QED
    BY <1>9, <2>2, <2>3 DEF PollCompleteReady
<1>10. ASSUME result' = None, UNCHANGED <<pos, f_read, f_write, f_seek>>
       PROVE  Cursor!Next
  BY <1>10, BegunIs, BegunNext, OpsAre, MapsForget
<1>11. ASSUME NEW where \in {"runtime", "outside"}, DropFile(where) PROVE Cursor!Next
  <2>1. \A o \in Cursor!Ops : Begun'[o] = None
    BY <1>11, OpsAre, BegunNext DEF DropFile
  <2> QED
    BY <1>11, <2>1, MapsAbandon DEF DropFile
<1>12. ASSUME UNCHANGED vars PROVE UNCHANGED <<pos, Begun, Completed>>
  BY <1>12 DEF vars, fileVars, Begun, BeganAt, Pending, Completed
<1> QED
  BY <1>1, <1>2, <1>3, <1>4, <1>5, <1>6, <1>7, <1>8, <1>9, <1>10, <1>11, <1>12
     DEF Next, PollCompleteAgain, PollFlushPending, PollFlushReady,
     PollShutdownPending, PollShutdownReady, fileVars

(* For every server and every task, one that overlaps its operations too,   *)
(* the File is a file with a cursor: each transfer takes place where it     *)
(* began, seeks land where they should although the code computes in i64,   *)
(* or 2^64 below, and nothing else moves the cursor.                        *)
THEOREM CursorImplemented == Spec => IsCursor
<1>1. Init => Cursor!Init
  <2> SUFFICES ASSUME Init PROVE Cursor!Init
    OBVIOUS
  <2>1. \A o \in Cursor!Ops : Begun[o] = None
    BY OpsAre, BegunIs DEF Init
  <2>2. Begun = [o \in Cursor!Ops |-> None]
    BY <2>1, BegunIs
  <2> QED
    BY <2>2 DEF Init, Cursor!Init, Completed
<1>2. TypeInv /\ [Next]_vars => [Cursor!Next]_<<pos, Begun, Completed>>
  BY CursorRefines
<1> QED
  BY <1>1, <1>2, TypeInit, TypeStep, PTL DEF Spec, IsCursor, Cursor!Spec

-----------------------------------------------------------------------------
(* The handle.  A file counts as closed, or is being shut down, only once a *)
(* Close went out.                                                          *)

CloseSent == /\ closed \/ f_shutdown # None => closes > 0
             /\ HandleReleased
ReleaseInv == closes \in Nat /\ CloseSent

LEMMA ReleaseStep == ReleaseInv /\ [Next]_vars => ReleaseInv'
<1> SUFFICES ASSUME ReleaseInv, [Next]_vars PROVE ReleaseInv'
  OBVIOUS
<1> USE DEF ReleaseInv, CloseSent, HandleReleased
<1>1. CASE PollShutdownPending
  BY <1>1 DEF PollShutdownPending, SendsClose
<1>2. CASE PollShutdownReady
  BY <1>2 DEF PollShutdownReady, SendsClose
<1>3. ASSUME NEW where \in {"runtime", "outside"}, DropFile(where) PROVE ReleaseInv'
  BY <1>3 DEF DropFile, DropCloses
<1>4. CASE UNCHANGED <<closed, f_shutdown, dropped, closes>>
  BY <1>4
<1> QED
  BY <1>1, <1>2, <1>3, <1>4 DEF Next, PollReadPending, PollReadNothing, PollReadData,
     PollWritePending, PollWriteErr, PollWriteOk, StartSeek, PollCompleteErr,
     PollCompleteReady, PollCompleteAgain, PollFlushPending, PollFlushReady, fileVars,
     vars

(* However a file was used, shut down, abandoned or left by a panic: when   *)
(* it is dropped in a runtime a Close for its handle has been handed to the *)
(* session.                                                                 *)
THEOREM HandleAlwaysReleased == Spec => []HandleReleased
<1>1. Init => ReleaseInv
  BY DEF Init, ReleaseInv, CloseSent, HandleReleased
<1>2. ReleaseInv => HandleReleased
  BY DEF ReleaseInv, CloseSent
<1> QED
  BY <1>1, <1>2, ReleaseStep, PTL DEF Spec
=============================================================================
