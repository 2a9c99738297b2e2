# russh-sftp in TLA+

Specifications of the SFTP client and server of russh-sftp, checked with TLC on
small instances and, where possible, proved with TLAPS for every value of the
constants. Paths below are relative to the crate's `src/`.

## The system

An SFTP client and server over one byte stream each. The client has three layers:

| component | state it keeps | operations | used by |
|---|---|---|---|
| `RawSftpSession`, `SessionInner` (client/rawsession.rs) | `next_req_id`, the map `requests` from id to the sender of a one-slot channel, `handles`, `version`, limits, timeout | `init`, one method per SFTP request, `close_session`, `reply` | the layers above; any number of tasks at once |
| `client::run` (client/mod.rs) | reader task, writer task, the unbounded queue between calls and writer, a `CancellationToken` | read a packet and dispatch it; write a packet; end | spawned by `RawSftpSession::new` |
| `File` (client/fs/file.rs) | `pos`, `closed`, one slot per kind of unfinished operation | `poll_read`, `poll_write`, `start_seek`, `poll_complete`, `poll_flush`, `poll_shutdown`, `Drop` | one task, or the halves of `io::split` |
| `SftpSession`, `ReadDir` (client/session.rs, client/fs/dir.rs) | negotiated extensions and limits; a listing | `new_opts`, `read_dir`, `read`, `write`, methods of one request; `next` | applications |
| `server::run` (server/mod.rs), `Handler` (server/handler.rs) | where its loop is; the application's handler | read a request, await the handler, write the response | applications |
| `FileAttributes` (protocol/file_attrs.rs) | optional fields, a mode word | type tests and setters, `From<&Metadata>`, the attribute block | applications on both sides |
| packets, serializer, deserializer, `read_packet` (protocol/, ser.rs, de.rs, buf.rs, utils.rs) | the byte stream | encode and frame; take a frame off the stream and decode it | reader, writer and server loop |

A call takes an id, puts the sending end of a channel into `requests`, queues its
packet and waits on the channel with a timeout. The writer writes the queue out;
the reader takes the sender of each incoming id out of the map and hands the
packet over. The server answers strictly one packet after the other.

What is hard: calls, timeouts, dropped futures and replies race for one map; ids
wrap; answers come late, twice, or never; two tasks have to end each other; the
handle count follows answers, not facts; the halves of a `File` share a position;
every method that holds a handle may fail or be dropped at each `await`; two loops
write to each other through bounded buffers; file types share bits; layouts depend
on flags and lengths the peer chose. `PROJECT.json` lists these as
hazards, at the lines where they bite.

## Modules

| module | models | state and actions |
|---|---|---|
| `Rpc` | | abstract: a remote call that is carried out at most once, without ids, map, queue or tasks |
| `RawSession` | rawsession.rs and client/mod.rs | variables are named as in the code; `pc`, `op`, `key`, `buf`, `ret` are the locals of the call each task has in flight. `send` is cut where other tasks can get in between: `Insert`, `Enqueue`/`EnqueueFails`, then `Recv`, `RecvNone`, `Expire` and `ExpireReturn`, or `Drop` (the future is dropped). The reader: `ReadAnswer`, `ReadStray` (both `Reply`), `ReaderEof`, `ReaderCancelled`; the writer: `WriterWrites`, `WriterEnds`. `IsRpc` maps it to `Rpc`. |
| `FileCursor` | | abstract: an open file is a cursor |
| `RemoteFile` | client/fs/file.rs | the slots of `FileState` hold what the future captured; each poll is one action per outcome (pending, error, data). The task may leave any operation pending and go on with another, or with the same one and another buffer. `disturbed` and `result` are history: whether `pos` moved under an operation, and what a step completed. `IsCursor` maps it to `FileCursor`. |
| `SftpServer` | server/mod.rs, `Handler`, `Packet::get_request_id`, composed with the tasks of client/mod.rs over a stream that holds `Cap` packets each way | a round of the server is `ServerReads`, `ServerHandles`, `ServerWrites` or `ServerWriteFails`. The client: `Call` and `CloseSession` fill the queue, `WriterTakes` and `WriterWrites` cut `write_all` off from `select!`, `WriterShuts` is the marker, `WriterCancelled` the token; `ReaderReads`, `ReaderEnds`. `ConnectionLost` cuts the stream: each side reads some of what is on its way and then meets the end. |
| `SftpSession` | client/session.rs, client/fs/dir.rs | `NewInit`, `NewLimits`, `NewFails`; `CallOne`; `Start` (the request to open is sent), `ServerOpens` (a step of the server, possibly after the call is over), `OpenOk` (the answer reaches the call), `Piece`, `EmptyName`, `StreamEnd`, `CloseOk`, `Fails`, `Cancel`, `SpawnedClose`; `IterNext` |
| `FileAttrs` | protocol/file_attrs.rs, `unix` of utils.rs | operators only: a mode word is the set of its bits, an attribute block its flags and the values they announce |
| `FileMetadata` | the life of one attribute value | `Convert` (from `Metadata`) or `Receive` (from a peer), then `SetType`, `Assign` and `Transfer` in any order; `own` remembers which fields nobody assigned. `Facts` is what the file has, its times before the cast to u32 |
| `PacketCodec` | ser.rs, de.rs, buf.rs, the structs of protocol/, the `TryFrom` of protocol/mod.rs | operators only: a packet is a type and its fields, bytes are numbers below 256; every `Get` yields a value and the bytes that are left, or fails; `Bind` is the `?` operator |
| `PacketStream` | `read_packet` and the receiving loops, over bytes | `SendPacket`, `SendShort` (a body that breaks off), `SendForeign` (a body the crate would not write), `Ends` anywhere; `Read`, `ReadEof` |
| `MCRawSession`, `MCRemoteFile`, `MCSftpSession`, `MCFileMetadata`, `MCPacketStream` | | values of the constants for TLC |
| `RawSessionProofs`, `RpcProofs`, `RemoteFileProofs`, `SftpServerProofs`, `SftpSessionProofs`, `FileMetadataProofs`, `PacketStreamProofs` | | theorems |

Definitions marked `\* fault` are variants of the definition below them, as a
plausible mistake would write it. No specification uses them; they serve to check
that each property notices such a mistake.

### Where steps are cut

* `Reply` is one step. The reader is the only task that delivers, `remove` is
  atomic, and between `remove` and `try_send` no other task can reach that sender.
* `Insert` covers the check of the handle limit, `use_next_id`, `is_closed` and the
  insertion. What happens between these in other tasks commutes with them:
  the writer ending in between shows as `EnqueueFails`, a handle counted in
  between as an `Insert` before it.
* `WriterEnds` of `RawSession` joins the marker, `shutdown`, `break` and `cancel`. A
  packet queued behind the marker is dropped with the queue either way.
* In `SftpServer` a packet enters the stream as a whole. In `PacketStream` it is
  bytes, and a frame is read once all of it is there.
* A poll of `File` runs on one thread with `&mut self`: one step.

### Abstractions and assumptions

* In the session and server modules a packet is its kind; payloads are left out
  except where a property is about them (positions and lengths in `RemoteFile`,
  entries in `SftpSession`). `PacketStream` shows that bytes and packets correspond.
* Requests can be serialised. Limits are set once, before the session is shared
  (`new_opts` does so); the raw API takes `&mut self`.
* The timer may fire at any time after the call waits: no duration is assumed.
* A stream error other than EOF, and a packet that does not decode, only log: the
  reader's loop goes on with nothing changed, which is a stuttering step.
* In `RemoteFile` nothing is assumed of the server: data has any length and a size
  is any u64. The arithmetic is that of the code: `as i64` and `as u32` cast, and
  an addition that overflows panics (a debug build) or wraps (a release build).
* In `SftpSession` a `File` dropped outside a runtime (`try_current`) spawns no
  `Close`; a call that returns by itself is in one, as the timer of its last request
  needs it. A runtime goes on to run the tasks it was given.
* Peers cut the times they send to u32 as this crate does (`Written`).
* In `SftpServer` handlers put the id they were given into their packet.
* `set_timeout`, `File::metadata`, `File::set_metadata` and `File::sync_all`
  keep no state beyond the one call they make.
* `From<&Metadata>` is that of unix. `FilePermissions` is the set of its bits.
* In `PacketCodec` a u64 has `W64` bytes; text is ASCII, and a byte from 128 up is
  one that `from_utf8_lossy` replaces.

## Runs

Deadlock is not checked: a session that was closed, a file that was dropped, a
stream that ended and a client that sent all it wanted do stop.

| run | checks | bounds, and why they suffice |
|---|---|---|
| `session_core` | `TypeOK`, `RegisteredLive`, `Correlated`, `NoLostWakeup`, `CallsReturn`, `CloseEnds`, `IsRpc` | 2 tasks, 3 requests over 2 ids: the third reuses the id of the first, whose reply may still be on its way; one packet nobody asked for |
| `handshake` | `VersionFirst`, `OneVersion`, `IsRpc` | 2 tasks, 2 inits, 2 reads, answered with Data or a status: inits that displace each other, requests ahead of both, answers of the wrong kind |
| `handle_limit` | `HandleBound` | limit 1, 2 tasks, 3 requests after init: both tasks pass the check at once, and a close comes between |
| `file_cursor` | `TypeOK`, `AtCursor`, `FitsBuffer`, `HandleReleased`, `IsCursor` | positions of 2 bits (2^63 becomes 2), requests below 3 (2^32), buffers of 1 and 6 around limits of 5 and 2, data of 1 and 2, sizes of 2^63-1 (1) and 2^64-1 (3), the extremes of i64 as offsets; all three operations on the position pending at once: every cast and overflow, both chunk cases, over-long answers and shorter buffers occur |
| `server_loop` | `OneAnswerEach`, `AllAnswered`, `CloseStopsAll` | 4 packets of every kind over streams that hold 1: both directions full, the server between, the writer stuck in `write_all`, and a close or the loss of the connection at any of these points |
| `session_methods` | `ListingExact`, `ClosedOnce`, `GivenBack`, `AskedOnlyOffered`, `FilesClosed`, `MethodsEnd` | 2 tasks, 2 requests to open, a directory of 4 entries split in every way with an empty name between, failure or drop at each request, in a runtime or outside, the server opening before or after it or never; a server without extensions and one with some |
| `file_attrs` | `TypeOK`, `Faithful`, `TypeKept`, `ConvertedDir`, `SentOnce` | words of 16 bits hold every bit that has a meaning; files of all 7 types with permission and set-id bits, times before the epoch, beyond u32 and unknown; blocks with any flags; any order and number of setters and transfers |
| `packet_stream` | `InStep`, `Understood`, `EndsAtEof`, `ShortRefused` | 12 packets that have every layout between them, one of them cut at every byte, and 8 bodies the crate would not write; 2 frames, so that each follows each; numbers at both ends of their range |

The properties in words stand above their definitions. Results worth knowing:

* a call never gets another call's answer unless that answer is 2^32 requests late;
* the handle limit can be exceeded, by one handle for each other task at most;
* every call returns with nothing assumed of the server, because the timer fires;
* `read_dir` reverses the order of batches but loses and repeats nothing; on an
  error, or when it is dropped, it leaves its handle open at the server;
* `read` and `write` give a handle back that has reached them, whatever fails, unless
  they are dropped outside a runtime. An open that times out or is dropped before
  its answer leaks the handle the server may have opened;
* `File` stays a file with a cursor however reads, writes and seeks overlap: a
  request goes to where the cursor was when it was made. Its buffer is overrun (a
  panic in `put_slice`) only by an answer longer than what was asked for, or if a pending
  read is taken up with a shorter buffer; `SeekFrom::End(2)` on a file whose reported
  size is 2^64-1 ends at 1;
* a time in attributes is that of the file exactly if it fits a u32; one before 1970
  or after 2106 comes out as another time;
* client and server cannot block each other for good, although neither the server
  nor the client's writer reads while it writes: the client's reader always does;
* `From<&Metadata>` keeps the type of directories, files and links. Character
  and block devices come out as links, sockets as files; nothing becomes a directory;
* a frame that does not decode never shifts the frames behind it. A body that breaks
  off just before its last attribute block is read as one with no attributes.

Four runs show where the code does not do what its documentation or messages say
(`findings` in `PROJECT.json`):

* `limited_late`: after a close whose answer was missed the session refuses to
  open with `Limited` although the server holds no handle;
* `seek_twice`: a failed seek leaves its finished future behind; the next
  `poll_complete` panics;
* `init_refused`: the error of a handler's `init` is sent under id 0 and never
  reaches the client's `init`, which times out;
* `type_tests`: `is_dir` and its kin test bits that file types share; `is_dir` is
  true of the attributes of a block device or a socket.

### Fairness

* `RawSession`: the runtime polls woken tasks and the timer fires, so a call that
  can take a step of `CallStep` takes one; the writer makes progress, which needs
  a peer that drains the stream (`SftpServer` shows that this crate's server does);
  the reader notices the token, since `select!` picks among ready branches at random.
  Nothing is assumed of the server, of `ReaderEof`, or of `RecvNone`: the map defers
  the drop of a replaced sender.
* `SftpServer`: the tasks are polled, the handler's futures complete, and a write to
  a stream that is broken, lost or whose other end is gone fails. The writer meets the
  token even if its queue never runs dry (`SF`): `select!` picks at random. A lost
  connection shows as EOF; with an error that is not EOF and does not go away the
  loops of reader and server go on for ever, as the code has it.
* `SftpSession`: each request is answered or times out (`CallsReturn`), spawned
  tasks run, and a server sends finitely many empty names.
* `FileMetadata` and `PacketStream` have safety properties only.

## Proofs

Each module of theorems extends the module it is about. The assumptions are the
named `ASSUME`s of that module, which hold of every instance above.

`RawSessionProofs`, for any set of callers, any number of ids above 1, any limit
and any bounds (from `SessionAssumption`):

* `TypeCorrect`: `TypeOK`, inductive as it is.
* `ChannelsStayEmpty` and `AnswersCorrelate`: `RegisteredLive` and `Correlated`
  from the inductive invariant `CorrelationInv`. Neither is inductive alone: that a
  reply belongs to the call it reaches depends on where the id counter stood when
  each request on the wire was numbered. `RecordsOK` and `CallsOK` say that a
  request's id and number agree with the counter modulo the id space, `Distinct`
  that calls in flight have distinct numbers, `Newest` that a call registered under
  an id is the newest request with it, so that an older one is a full round older.
* `WaitersReachable`: `NoLostWakeup`, from `CorrelationInv` and the lemma that two
  of the latest `IdSpace` requests never share an id (`KeysApart`).
* `HandshakeGates` and `VersionOnce`: `VersionFirst` and `OneVersion` from
  `HandshakeInv`, on top of `CorrelationInv`: `Gated` says of the packet in a channel
  and of the result that `version` was set before, `AcceptedOnce` that no
  second init has a Version.
* `HandlesBounded`: `HandleBound`, inductive with `TypeOK`.

`RpcProofs`, on top of these: `SessionIsRpc`, the refinement of `Rpc`. The invariants
above say which call a reply reaches. The refinement also needs that an answer, or a
send that fails, takes the request off the abstract wire, and so that no second
copy of it is left: `WireInv` says that a request stands in one place at a time, with
its call, in the queue or at the server. Each action then maps to a step of `Rpc`
or to none: `Insert` to `Call`, or to `Refuse` like `Refuse` and `SendClosed` if it is
an init, a reply to `Answer`, `AnswerLate`, `Stray`
or `StrayDropped`, the ends of tasks to `Lose`, every way out of `send` to `Return`,
the Version to `Ready`; what moves a request along the wire is a stutter.

`RemoteFileProofs`, for any word size, limits, buffers, answers and sizes, and for
tasks that overlap operations as they like (from `FileAssumption`):

* `TypeCorrect`: `TypeOK`, from `TypeInv`, which adds the range of what a pending seek
  was asked for and that a request is no longer than the buffer it was made for.
* `TransfersFit`: `FitsBuffer`, from `TypeInv`: `asked` and `first` of a result are the
  request and the buffer it was made for, and the first fits the second.
* `NeverStale`: `AtCursor`. An operation is made at the cursor, and each step that
  moves it puts the operations under way into `disturbed`.
* `CursorImplemented`: the refinement of `FileCursor`. Each poll that completes maps to
  `Transfer` or `Seek`, a first poll to `Begin`, failures, panics and the drop to
  `Abandon`; the lemma `NewPosRange` says that a
  target that is not refused is the one meant, or 2^64 below it.
* `HandleAlwaysReleased`: `HandleReleased`, from `ReleaseInv`: a file counts as closed
  only once a Close went out.

`SftpServerProofs`, for streams of any size and any number of packets (from
`ServerAssumption`): `ServerOneAnswerEach`, from `LoopInv`. The packets sent are
numbered by their place; `Taken` of them have left the stream, the rest lie on it (`OnStream`), and the one in hand is the last taken (`InHand`). The
answers are numbered upwards by packets taken, and without gaps while no write
failed.

`SftpSessionProofs`, for any number of tasks and handles (from `SftpAssumption`):

* `OnlyOfferedAsked`: `AskedOnlyOffered`, from `OfferInv`.
* `HandlesClosedOnce` and `HandlesGivenBack`: `ClosedOnce` and `GivenBack`, from
  `HandleInv`. A handle belongs from the request for it on to one call, and after that
  to a spawned close, to a close that was sent, or to a call that ended in one of the
  ways `GivenBack` names; the server's own step may come at any of these points. The
  two properties say this of the end of a call only, and a step in the middle needs it
  of all places.
* `ListingsExact`: `ListingExact`, from `ListInv` on top of `HandleInv`. While
  `read_dir` collects, what it has and what the server still holds are the directory
  cut in two (`Parts`); a batch moves the cut, and because a handle has one user no
  other call does. When it iterates, what is shown and what is left are the directory
  but for dots that were passed over (`Remains`). The lemmas are `Cut` and `Join`, on
  sequences without repetition, and `FollowingIs`: the iterator stops at the first
  entry that is no dot.

`FileMetadataProofs`, for every file, every mode word and every assignment (from
`AttrsAssumption`): `AttrsTypeOK`, `AttrsFaithful`, `AttrsTypeKept` and
`AttrsConvertedDir` from `AttrsInv`, `AttrsSentOnce` from the type alone. They rest
on `RoundTrip`: what `Deserialize` makes of a serialised value is that value with
the halves of its pairs filled in. `AttrsFaithful` says of times that the cast keeps
those that fit and moves the others by a multiple of 2^32 (`UnixSays`). `LayoutPlaces` gives the place of each field for
each set of flags.

`PacketStreamProofs`, for all packets, foreign bodies and any number of frames (from
`StreamAssumption`: bodies are sequences of bytes, and `get_u32` reads from a length
field what `put_u32` wrote, for lengths up to those of the bodies):

* `FramesStayInStep` and `LoopEndsAtEof`: `InStep` and `EndsAtEof`, from `StreamInv`.
  What was decoded says nothing about what will be: the invariant is about the bytes
  under way. The frames abut (`Abutting`), and while the loop reads, the stream is
  what follows the last frame taken, byte by byte, up to the cut (`Unread`). So the
  next length is the one that was written, and the next body too.
* `UnderstoodOnAnyStream` and `ShortRefusedOnAnyStream`: what the codec does with a
  packet, or with one that breaks off, it does on every stream. Their hypotheses say
  it of each packet by itself, which `packet_stream` checks for its packets.

Only model-checked:

* all liveness (`CallsReturn`, `CloseEnds`, `AllAnswered`, `CloseStopsAll`,
  `FilesClosed`, `MethodsEnd`), which is out of the prover's reach;
* that the codec reads back what it writes and refuses what breaks off, the
  hypotheses of the last two theorems. Serializer and deserializer are folds over
  fields, entries and bytes, and what a fold computes needs induction over data;
* that `Number` inverts `Put`, for the same reason: `StreamAssumption` states it and
  TLC evaluates it.

## Not modelled

* The text of errors and log messages, the long name of a directory entry, `Display`
  of permissions; `set_readonly`, which works on a copy.
* The conversion of `OpenFlags` to `OpenOptions`, the payloads of extensions beyond
  being sequences of fields, `From<&Metadata>` on windows.
* The methods of serializer and deserializer for types no packet has: they only
  return an error.
* What an application does in its `Handler`; the transport below the stream; the
  examples.

## Plan

Done: `RawSession` over `Rpc`, `RemoteFile` over `FileCursor`, `SftpServer` with the
client's tasks, `SftpSession`, `FileAttrs` and `FileMetadata`, `PacketCodec` and
`PacketStream`; their safety properties and both refinements proved, those of
the codec on the stream from what it does with one packet.

Left: lemmas about single readers and writers of `PacketCodec` that need no induction
(`GetBytes` after `PutStr`, `GetCode`, a block of attributes), towards the hypotheses
of `UnderstoodOnAnyStream`.
