------------------------------ MODULE RemoteFile ------------------------------
(***************************************************************************)
(* client::fs::File (client/fs/file.rs): the AsyncRead, AsyncSeek and       *)
(* AsyncWrite state machines over one handle.                               *)
(*                                                                          *)
(* Each kind of operation has a slot for its unfinished future.  A poll     *)
(* makes the future when the slot is empty, polls it, and empties the slot  *)
(* when it is ready.  The call of the session inside the future is external *)
(* here: a poll of it is pending or ready with any result; a call that was  *)
(* just made can only be ready with an error (Limited, session closed).     *)
(*                                                                          *)
(* The task that owns the file may leave an operation pending and go on     *)
(* with another, or with the same one and another buffer: a read dropped by *)
(* select! or a timeout, or the two halves of io::split.  What is pending   *)
(* stays in its slot and is what the next poll of its kind goes on with.    *)
(***************************************************************************)
EXTENDS Integers, FiniteSets

CONSTANTS
  Fsync,        \* extensions.fsync: does the server support fsync@openssh.com?
  MaxReadLen,   \* limits.read_len, or MAX_READ_LENGTH
  MaxWriteLen,  \* limits.write_len, or MAX_WRITE_LENGTH
  U32,          \* 2^32: a Read asks for a u32
  Half,         \* 2^63: positions are u64, seeks compute in i64
  Rooms,        \* lengths of the buffers the task passes
  Lengths,      \* lengths of the data in the answers of the server
  Offsets,      \* arguments of SeekFrom::Current and SeekFrom::End
  Sizes,        \* sizes the server reports
  MaxShutdowns, \* bound: polls of a shutdown that start a Close
  Finished,     \* a future of a seek that ended and was left in f_seek
  None          \* Option::None

U64       == 2 * Half
Froms     == {"Start", "Current", "End"}
Transfers == [offset : 0 .. U64 - 1, len : Nat, room : Nat]
SeekFuts  == [from : Froms, arg : Int, cur : 0 .. U64 - 1]
Results   == [op : {"read", "write", "seek"}, at : Int, n : Nat,
              room : Nat, asked : Nat, first : Nat]

ASSUME FileAssumption ==
  /\ Fsync \in BOOLEAN /\ MaxReadLen \in Nat /\ MaxWriteLen \in 0 .. U64 - 1
  /\ U32 \in Nat \ {0} /\ Half \in Nat \ {0}
  /\ Rooms \subseteq Nat /\ Lengths \subseteq 0 .. U64 - 1
  /\ Offsets \subseteq -Half .. Half - 1 /\ Sizes \subseteq 0 .. U64 - 1
  /\ MaxShutdowns \in Nat
  /\ None \notin Transfers \cup SeekFuts \cup Results \cup (0 .. U64 - 1)
  /\ Finished \notin SeekFuts \cup {None}

VARIABLES
  pos, closed,        \* File::pos, File::closed
  f_read, f_write,    \* FileState: offset and length of the request, and the
                      \* length of the buffer it was made for
  f_seek,             \* position asked for, and pos when the seek started
  f_flush, f_shutdown,
  dropped,            \* the File is gone: dropped in a runtime, or outside
  panicked,           \* why a poll panicked, "no" if none did
  closes,             \* history: Close requests handed to the session
  disturbed,          \* history: the pending operations during which another
                      \* one moved pos
  result              \* history: what the step just taken completed, and the
                      \* buffers it was made for and given

fileVars == <<f_read, f_write, f_seek, f_flush, f_shutdown>>
vars == <<pos, closed, fileVars, dropped, panicked, closes, disturbed, result>>

Init ==
  /\ pos = 0 /\ closed = FALSE
  /\ f_read = None /\ f_write = None /\ f_seek = None
  /\ f_flush = None /\ f_shutdown = None
  /\ dropped = "no" /\ panicked = "no" /\ closes = 0
  /\ disturbed = {} /\ result = None

(* The task may poll any operation of a file it still has. *)
Usable == dropped = "no" /\ panicked = "no"

(* The operations on the position that are under way. *)
Pending ==
  {o \in {"read", "write", "seek"} :
     \/ o = "read" /\ f_read # None
     \/ o = "write" /\ f_write # None
     \/ o = "seek" /\ f_seek \notin {None, Finished}}

(* Operation o ends: with pos' as it is, or moved under the others.         *)
Ends(o) ==
  disturbed' = (IF pos' = pos THEN disturbed ELSE disturbed \cup Pending) \ {o}

Chunk_Limit(room, limit) == limit                                    \* fault
Chunk(room, limit) == IF room > limit THEN limit ELSE room

(* pos += n of a u64: past the end it panics in a debug build and wraps in  *)
(* a release build.                                                         *)
Added_Unbounded(n) == pos + n                                        \* fault
Added(n) == IF pos + n < U64 THEN pos + n ELSE pos + n - U64

-----------------------------------------------------------------------------
(* poll_read *)

(* The length asked for is cast to u32. *)
ReadFuture(room) ==
  IF f_read # None THEN f_read
  ELSE [offset |-> pos, len |-> Chunk(room, MaxReadLen) % U32, room |-> room]

PollReadPending(room) ==
  /\ Usable /\ room \in Rooms
  /\ f_read' = ReadFuture(room)
  /\ result' = None
  /\ UNCHANGED <<pos, closed, f_write, f_seek, f_flush, f_shutdown, dropped,
                 panicked, closes, disturbed>>

(* Ready with an error, or with the Eof status that reads as no data. *)
PollReadNothing(room) ==
  /\ Usable /\ room \in Rooms
  /\ f_read' = None
  /\ result' = None
  /\ UNCHANGED <<pos, closed, f_write, f_seek, f_flush, f_shutdown, dropped,
                 panicked, closes>>
  /\ Ends("read")

(* Data of whatever length the server sent.  The position is moved first;   *)
(* then put_slice panics when the data does not fit the buffer passed now.  *)
PollReadData(room, n) ==
  /\ Usable /\ room \in Rooms /\ n \in Lengths
  /\ f_read # None
  /\ f_read' = None
  /\ \/ /\ pos + n >= U64
        /\ panicked' = "overflow"
        /\ result' = None
        /\ UNCHANGED pos
     \/ /\ pos' = Added(n)
        /\ panicked' = IF n > room THEN "buffer" ELSE "no"
        /\ result' = [op |-> "read", at |-> f_read.offset, n |-> n, room |-> room,
                      asked |-> f_read.len, first |-> f_read.room]
  /\ Ends("read")
  /\ UNCHANGED <<closed, f_write, f_seek, f_flush, f_shutdown, dropped, closes>>

-----------------------------------------------------------------------------
(* poll_write *)

WriteFuture(room) ==
  IF f_write # None THEN f_write
  ELSE [offset |-> pos, len |-> Chunk(room, MaxWriteLen), room |-> room]

PollWritePending(room) ==
  /\ Usable /\ room \in Rooms
  /\ f_write' = WriteFuture(room)
  /\ result' = None
  /\ UNCHANGED <<pos, closed, f_read, f_seek, f_flush, f_shutdown, dropped,
                 panicked, closes, disturbed>>

PollWriteErr(room) ==
  /\ Usable /\ room \in Rooms
  /\ f_write' = None
  /\ result' = None
  /\ UNCHANGED <<pos, closed, f_read, f_seek, f_flush, f_shutdown, dropped,
                 panicked, closes>>
  /\ Ends("write")

(* The count that is returned is the one of the first poll's buffer. *)
WriteDone(room) ==
  \/ /\ pos + f_write.len >= U64
     /\ panicked' = "overflow"
     /\ result' = None
     /\ UNCHANGED pos
  \/ /\ pos' = Added(f_write.len)
     /\ result' = [op |-> "write", at |-> f_write.offset, n |-> f_write.len,
                   room |-> room, asked |-> f_write.len, first |-> f_write.room]
     /\ UNCHANGED panicked

PollWriteOk_Kept(room) ==                                            \* fault
  /\ Usable /\ room \in Rooms /\ f_write # None
  /\ WriteDone(room) /\ Ends("write")
  /\ UNCHANGED <<closed, fileVars, dropped, closes>>
PollWriteOk(room) ==
  /\ Usable /\ room \in Rooms /\ f_write # None
  /\ f_write' = None
  /\ WriteDone(room) /\ Ends("write")
  /\ UNCHANGED <<closed, f_read, f_seek, f_flush, f_shutdown, dropped, closes>>

-----------------------------------------------------------------------------
(* start_seek and poll_complete *)

StartSeek(from, arg) ==
  /\ Usable
  /\ f_seek = None        \* otherwise an error, and nothing changes
  /\ IF from = "Start" THEN arg \in 0 .. U64 - 1 ELSE arg \in Offsets
  /\ f_seek' = [from |-> from, arg |-> arg, cur |-> pos]
  /\ result' = None
  /\ UNCHANGED <<pos, closed, f_read, f_write, f_flush, f_shutdown, dropped,
                 panicked, closes, disturbed>>

I64_Saturating(x)  == IF x >= Half THEN Half - 1 ELSE x               \* fault
I64(x)  == IF x >= Half THEN x - U64 ELSE x           \* `as i64' of a u64
Wrap(x) == IF x >= Half THEN x - U64 ELSE IF x < -Half THEN x + U64 ELSE x

(* new_pos before and after overflow; what the arithmetic means without it. *)
NewPos(s, size) ==
  CASE s.from = "Start"   -> I64(s.arg)
    [] s.from = "Current" -> I64(s.cur) + s.arg
    [] s.from = "End"     -> I64(size) + s.arg
Target(s, size) ==
  CASE s.from = "Start"   -> s.arg
    [] s.from = "Current" -> s.cur + s.arg
    [] s.from = "End"     -> size + s.arg

(* SeekFrom::End sends fstat; until it is answered poll_complete changes    *)
(* nothing.  When it failed, or reported no size, `?' leaves the finished   *)
(* future in f_seek.                                                        *)
PollCompleteErr ==
  /\ Usable /\ f_seek \notin {None, Finished}
  /\ f_seek.from = "End"
  /\ f_seek' = Finished
  /\ result' = None
  /\ UNCHANGED <<pos, closed, f_read, f_write, f_flush, f_shutdown, dropped,
                 panicked, closes>>
  /\ Ends("seek")

(* The new position is known.  An overflow of the addition panics in a      *)
(* debug build and wraps in a release build; a negative position is an      *)
(* error and stays in f_seek like the others.                               *)
PollCompleteReady(size) ==
  /\ Usable /\ f_seek \notin {None, Finished} /\ size \in Sizes
  /\ LET raw == NewPos(f_seek, size) IN
     \/ /\ raw # Wrap(raw)
        /\ panicked' = "overflow"
        /\ f_seek' = Finished /\ result' = None
        /\ UNCHANGED pos
     \/ /\ Wrap(raw) < 0
        /\ f_seek' = Finished /\ result' = None
        /\ UNCHANGED <<pos, panicked>>
     \/ /\ Wrap(raw) >= 0
        /\ pos' = Wrap(raw)
        /\ f_seek' = None
        /\ result' = [op |-> "seek", at |-> Target(f_seek, size), n |-> 0,
                      room |-> 0, asked |-> 0, first |-> 0]
        /\ UNCHANGED panicked
  /\ Ends("seek")
  /\ UNCHANGED <<closed, f_read, f_write, f_flush, f_shutdown, dropped, closes>>

(* A future that has finished is polled again: "resumed after completion".  *)
PollCompleteAgain ==
  /\ Usable /\ f_seek = Finished
  /\ panicked' = "resumed"
  /\ result' = None
  /\ UNCHANGED <<pos, closed, fileVars, dropped, closes, disturbed>>

-----------------------------------------------------------------------------
(* poll_flush: without the extension it is ready at once and does nothing. *)

PollFlushPending ==
  /\ Usable /\ Fsync
  /\ f_flush' = "fsync" /\ result' = None
  /\ UNCHANGED <<pos, closed, f_read, f_write, f_seek, f_shutdown, dropped,
                 panicked, closes, disturbed>>

PollFlushReady ==
  /\ Usable /\ Fsync
  /\ f_flush' = None /\ result' = None
  /\ UNCHANGED <<pos, closed, f_read, f_write, f_seek, f_shutdown, dropped,
                 panicked, closes, disturbed>>

(* poll_shutdown: the Close is sent by the first poll; whatever comes back, *)
(* the file counts as closed.                                               *)
SendsClose == IF f_shutdown = None THEN 1 ELSE 0

PollShutdownPending ==
  /\ Usable /\ closes + SendsClose <= MaxShutdowns
  /\ f_shutdown' = "close" /\ result' = None
  /\ closes' = closes + SendsClose
  /\ UNCHANGED <<pos, closed, f_read, f_write, f_seek, f_flush, dropped, panicked,
                 disturbed>>

PollShutdownReady ==
  /\ Usable /\ closes + SendsClose <= MaxShutdowns
  /\ f_shutdown' = None /\ result' = None
  /\ closed' = TRUE
  /\ closes' = closes + SendsClose
  /\ UNCHANGED <<pos, f_read, f_write, f_seek, f_flush, dropped, panicked,
                 disturbed>>

(* Drop, at any time, and after a panic too: a Close is spawned unless the  *)
(* file was closed, or there is no runtime to spawn it on (try_current).    *)
DropCloses_Inverted(where) == closed /\ where = "runtime"            \* fault
DropCloses(where) == ~closed /\ where = "runtime"

DropFile(where) ==
  /\ dropped = "no"
  /\ dropped' = where
  /\ closes' = IF DropCloses(where) THEN closes + 1 ELSE closes
  /\ f_read' = None /\ f_write' = None /\ f_seek' = None
  /\ f_flush' = None /\ f_shutdown' = None
  /\ disturbed' = {} /\ result' = None
  /\ UNCHANGED <<pos, closed, panicked>>

-----------------------------------------------------------------------------
Next ==
  \/ \E room \in Rooms :
       \/ PollReadPending(room) \/ PollReadNothing(room)
       \/ \E n \in Lengths : PollReadData(room, n)
       \/ PollWritePending(room) \/ PollWriteErr(room) \/ PollWriteOk(room)
  \/ \E from \in Froms, arg \in Offsets \cup 0 .. U64 - 1 : StartSeek(from, arg)
  \/ PollCompleteErr \/ PollCompleteAgain
  \/ \E size \in Sizes : PollCompleteReady(size)
  \/ PollFlushPending \/ PollFlushReady
  \/ PollShutdownPending \/ PollShutdownReady
  \/ \E where \in {"runtime", "outside"} : DropFile(where)

Spec == Init /\ [][Next]_vars

-----------------------------------------------------------------------------
(* Properties *)

(* The fields of File and FileState have their types: the position stays a  *)
(* u64 through transfers of any length and seeks from and to anywhere.      *)
TypeOK ==
  /\ pos \in 0 .. U64 - 1 /\ closed \in BOOLEAN
  /\ f_read \in Transfers \cup {None} /\ f_write \in Transfers \cup {None}
  /\ f_seek \in SeekFuts \cup {Finished, None}
  /\ f_flush \in {"fsync", None} /\ f_shutdown \in {"close", None}
  /\ dropped \in {"no", "runtime", "outside"} /\ closes \in Nat
  /\ panicked \in {"no", "buffer", "overflow", "resumed"}
  /\ disturbed \subseteq Pending
  /\ result \in Results \cup {None}

Completed ==
  IF result = None THEN None ELSE [op |-> result.op, at |-> result.at, n |-> result.n]
BeganAt(o) == CASE o = "read" -> f_read.offset
                [] o = "write" -> f_write.offset
                [] o = "seek" -> f_seek.cur
Begun == LET pending == Pending IN
         [o \in {"read", "write", "seek"} |->
            IF o \in pending THEN BeganAt(o) ELSE None]
Cursor == INSTANCE FileCursor WITH
            cursor <- pos, begun <- Begun, result <- Completed, Modulus <- U64

(* However its operations overlap, the file has a cursor: a transfer takes  *)
(* place where the cursor was when its request was made and moves it by its *)
(* length; a seek ends where it was meant to in spite of the casts to i64,  *)
(* or 2^64 below if that is out of a u64; nothing else moves the cursor.    *)
IsCursor == Cursor!Spec

(* An operation under way that no other one moved the cursor under is for   *)
(* the place where the cursor is: whatever was left pending, failed or was  *)
(* taken up again, no request is made for an old position.                  *)
AtCursor == \A o \in Pending \ disturbed : BeganAt(o) = pos

(* put_slice in poll_read panics, and the count poll_write returns exceeds  *)
(* the slice it was given, only when the server sent more than it was asked *)
(* for, or the task took the operation up again with a shorter buffer than  *)
(* it began with.                                                           *)
FitsBuffer ==
  result # None /\ result.n > result.room =>
    (result.op = "read" /\ result.n > result.asked) \/ result.room < result.first

(* The handle is given back: a file that went out of scope in a runtime has *)
(* asked the session to close it, after a shutdown that failed, one left    *)
(* half way, or a panic.                                                    *)
HandleReleased == dropped = "runtime" => closes > 0

-----------------------------------------------------------------------------
(* A statement of the code's own message that it does not keep *)

(* client/fs/file.rs:177, "other file operation is pending, call            *)
(* poll_complete before start_seek": once poll_complete was ready there is  *)
(* no pending seek, so a second seek never panics.                          *)
PollCompleteClears == panicked # "resumed"
=============================================================================
