------------------------------ MODULE PacketCodec ------------------------------
(***************************************************************************)
(* From packets to bytes and back: the serializer (ser.rs), the             *)
(* deserializer (de.rs, buf.rs), the packet types (protocol/) and their     *)
(* framing (protocol/mod.rs).                                               *)
(*                                                                          *)
(* Bytes are numbers below 256.  A packet is its type and the sequence of   *)
(* its fields.  The number of bytes in a u32 and in a u64 is a parameter.   *)
(***************************************************************************)
EXTENDS FileAttrs, SequencesExt

CONSTANT W64              \* bytes of a u64: 8 in the code
W32 == Width \div 8       \* bytes of a u32: 4 in the code

-----------------------------------------------------------------------------
(* SSH_FXP_* *)
Codes == [Init |-> 1, Version |-> 2, Open |-> 3, Close |-> 4, Read |-> 5,
          Write |-> 6, Lstat |-> 7, Fstat |-> 8, SetStat |-> 9, FSetStat |-> 10,
          OpenDir |-> 11, ReadDir |-> 12, Remove |-> 13, MkDir |-> 14,
          RmDir |-> 15, RealPath |-> 16, Stat |-> 17, Rename |-> 18,
          ReadLink |-> 19, Symlink |-> 20, Status |-> 101, Handle |-> 102,
          Data |-> 103, Name |-> 104, Attrs |-> 105, Extended |-> 200,
          ExtendedReply |-> 201]

(* The fields of the structs.  `bytes' and `files' are counted vectors;     *)
(* `map' and `data' go on to the end of the packet.                         *)
InitFields   == <<"u32", "map">>
OpenFields   == <<"u32", "str", "u32", "attrs">>
ReadFields   == <<"u32", "str", "u64", "u32">>
WriteFields  == <<"u32", "str", "u64", "bytes">>
SetFields    == <<"u32", "str", "attrs">>
PathsFields  == <<"u32", "str", "str">>
StatusFields == <<"u32", "code", "str", "str">>
NameFields   == <<"u32", "files">>

Fields(type) ==
  CASE type \in {"Init", "Version"} -> InitFields
    [] type = "Open"   -> OpenFields
    [] type = "Read"   -> ReadFields
    [] type = "Write"  -> WriteFields
    [] type \in {"SetStat", "FSetStat", "MkDir"} -> SetFields
    [] type \in {"Rename", "Symlink"} -> PathsFields
    [] type = "Status" -> StatusFields
    [] type = "Data"   -> <<"u32", "bytes">>
    [] type = "Name"   -> NameFields
    [] type = "Attrs"  -> <<"u32", "attrs">>
    [] type = "Extended"      -> <<"u32", "str", "data">>
    [] type = "ExtendedReply" -> <<"u32", "data">>
    [] OTHER -> <<"u32", "str">>    \* an id and a path or a handle

MaxCode == 8              \* StatusCode::OpUnsupported
FlagBit == [SIZE |-> 1, UIDGID |-> 2, PERMISSIONS |-> 4, ACMODTIME |-> 8,
            EXTENDED |-> 2 ^ (Width - 1)]

-----------------------------------------------------------------------------
(* Serializer *)

(* put_u8, put_u32, put_u64: big-endian. *)
Put(w, n) == [i \in 1 .. w |-> (n \div 256 ^ (w - i)) % 256]

(* serialize_str, and serialize_seq of a vector of bytes *)
PutStr_NoLen(s) == s                                                 \* fault
PutStr(s) == Put(W32, Len(s)) \o s

(* FileAttributes: the flags as a number, then the fields, the mode as a    *)
(* number too.                                                              *)
PutBlock(s, l) ==
  LET Bit(f) == IF f \in s.flags THEN FlagBit[f] ELSE 0
  IN  Put(W32, Bit("SIZE") + Bit("UIDGID") + Bit("PERMISSIONS") + Bit("ACMODTIME"))
        \o FlattenSeq([i \in 1 .. Len(l) |->
                         Put(IF l[i] = "size" THEN W64 ELSE W32, s.vals[i])])
PutAttrs(a) == PutBlock(Serialize(a), Layout(Flags(a)))

PutFile(f) == PutStr(f.filename) \o PutStr(f.longname) \o PutAttrs(f.attrs)

(* serialize_seq with a length writes it; serialize_map does not. *)
PutFiles(fs) ==
  Put(W32, Len(fs)) \o FlattenSeq([i \in 1 .. Len(fs) |-> PutFile(fs[i])])
PutMap(m) ==
  FlattenSeq([i \in 1 .. Len(m) |-> PutStr(m[i].key) \o PutStr(m[i].value)])

PutField(kind, v) ==
  CASE kind \in {"u32", "code"}  -> Put(W32, v)
    [] kind = "u64"              -> Put(W64, v)
    [] kind \in {"str", "bytes"} -> PutStr(v)
    [] kind = "attrs"            -> PutAttrs(v)
    [] kind = "files"            -> PutFiles(v)
    [] kind = "map"              -> PutMap(v)
    [] kind = "data"             -> v           \* data_serialize: no length

(* to_bytes: the fields of a struct one after the other. *)
PutFields(type, vs) ==
  FlattenSeq([i \in 1 .. Len(vs) |-> PutField(Fields(type)[i], vs[i])])

(* TryFrom<Packet> for Bytes: the length covers the type byte. *)
Body(p) == <<Codes[p.type]>> \o PutFields(p.type, p.fields)
Frame_NoType(body) == Put(W32, Len(body) - 1) \o body                \* fault
Frame(body) == Put(W32, Len(body)) \o body

-----------------------------------------------------------------------------
(* Deserializer: every reader takes bytes off the front of the input and    *)
(* yields a value with the rest, or fails (BadMessage, UnexpectedBehavior). *)

Fails == [ok |-> FALSE, rest |-> <<>>]
Bind(r, F(_)) == IF r.ok THEN F(r) ELSE Fails     \* the `?' operator
Gives(v, in, n) == [ok |-> TRUE, val |-> v, rest |-> SubSeq(in, n + 1, Len(in))]
Leading(in, n) == SubSeq(in, 1, n)

(* try_get_u8, try_get_u32, try_get_u64 *)
Number(bytes) == FoldLeft(LAMBDA n, b : n * 256 + b, 0, bytes)
Get(w, in) == IF Len(in) < w THEN Fails ELSE Gives(Number(Leading(in, w)), in, w)

(* String::from_utf8_lossy.  Bytes from 128 up stand for bytes that are no  *)
(* part of a character: each becomes the three bytes of U+FFFD.             *)
Lossy(s) ==
  FlattenSeq([i \in 1 .. Len(s) |-> IF s[i] < 128 THEN <<s[i]>> ELSE <<239, 191, 189>>])

(* try_get_bytes, try_get_string; a vector of bytes is read one by one. *)
GetBytes(in) ==
  Bind(Get(W32, in), LAMBDA n :
    IF n.val > Len(n.rest) THEN Fails ELSE Gives(Leading(n.rest, n.val), n.rest, n.val))
GetStr(in) == Bind(GetBytes(in), LAMBDA s : [s EXCEPT !.val = Lossy(@)])

(* StatusCode: deserialize_enum takes the index of the variant. *)
GetCode(in) == Bind(Get(W32, in), LAMBDA n : IF n.val <= MaxCode THEN n ELSE Fails)

(* Reads one more element behind what st has read. *)
Then(st, Read(_)) ==
  Bind(st, LAMBDA s : Bind(Read(s.rest), LAMBDA e : [e EXCEPT !.val = Append(s.val, @)]))

(* FileAttributes by deserialize_any: nothing at all reads as no flags, and *)
(* the flags decide what follows.  EXTENDED is known, what it announces is  *)
(* not read.                                                                *)
FlagsIn(n) == {f \in DOMAIN FlagBit : (n \div FlagBit[f]) % 2 = 1}
GetVals(in, flags) ==
  FoldLeft(LAMBDA st, f : Then(st, LAMBDA rest : Get(IF f = "size" THEN W64 ELSE W32, rest)),
           Gives(<<>>, in, 0), Layout(flags))
GetBlock(in, flags) ==
  Bind(GetVals(in, flags),
       LAMBDA vs : [vs EXCEPT !.val = Deserialize([flags |-> flags, vals |-> @])])
GetAttrs_Lenient(in) ==                                              \* fault
  IF Len(in) < W32 THEN Gives(empty, in, Len(in))
  ELSE Bind(Get(W32, in), LAMBDA n : GetBlock(n.rest, FlagsIn(n.val)))
GetAttrs(in) ==
  IF in = <<>> THEN Gives(empty, in, 0)
  ELSE Bind(Get(W32, in), LAMBDA n : GetBlock(n.rest, FlagsIn(n.val)))

GetFile(in) ==
  Bind(GetStr(in), LAMBDA name :
    Bind(GetStr(name.rest), LAMBDA long :
      Bind(GetAttrs(long.rest), LAMBDA a :
        [a EXCEPT !.val = [filename |-> name.val, longname |-> long.val, attrs |-> @]])))

(* A vector: its length, then the elements.  Each takes a byte at least.    *)
GetFiles(in) ==
  Bind(Get(W32, in), LAMBDA n :
    FoldLeft(LAMBDA st, i : Then(st, GetFile), Gives(<<>>, n.rest, 0),
             [i \in 1 .. (IF n.val > Len(in) THEN Len(in) ELSE n.val) |-> i]))

(* A map: pairs while there are bytes; a later pair replaces an earlier     *)
(* one with its key.                                                        *)
MapOf(pairs) ==
  [k \in {pairs[i].key : i \in 1 .. Len(pairs)} |->
     pairs[CHOOSE i \in 1 .. Len(pairs) :
             /\ pairs[i].key = k
             /\ \A j \in i + 1 .. Len(pairs) : pairs[j].key # k].value]
GetPair(in) ==
  Bind(GetStr(in), LAMBDA k :
    Bind(GetStr(k.rest), LAMBDA v : [v EXCEPT !.val = [key |-> k.val, value |-> @]]))
GetMap(in) ==
  Bind(FoldLeft(LAMBDA st, i : IF st.rest = <<>> THEN st ELSE Then(st, GetPair),
                Gives(<<>>, in, 0), in),
       LAMBDA r : [r EXCEPT !.val = MapOf(@)])

GetField(kind, in) ==
  CASE kind = "u32"   -> Get(W32, in)
    [] kind = "u64"   -> Get(W64, in)
    [] kind = "code"  -> GetCode(in)
    [] kind = "str"   -> GetStr(in)
    [] kind = "bytes" -> GetBytes(in)
    [] kind = "attrs" -> GetAttrs(in)
    [] kind = "files" -> GetFiles(in)
    [] kind = "map"   -> GetMap(in)
    [] kind = "data"  -> Gives(in, in, Len(in))  \* data_deserialize: all there is

(* from_bytes of a struct: its fields in order.  Bytes behind the last one  *)
(* are not looked at.                                                       *)
GetFields(type, in) ==
  FoldLeft(LAMBDA st, kind : Then(st, LAMBDA rest : GetField(kind, rest)),
           Gives(<<>>, in, 0), Fields(type))

(* TryFrom<&mut Bytes> for Packet *)
Bad == [type |-> "Bad", fields |-> <<>>]
TryFrom(body) ==
  LET known == {t \in DOMAIN Codes : body # <<>> /\ Codes[t] = body[1]}
      Packet(type, r) == IF r.ok THEN [type |-> type, fields |-> r.val] ELSE Bad
      Decode(type) == Packet(type, GetFields(type, Tail(body)))
  IN  IF known = {} THEN Bad ELSE Decode(CHOOSE t \in known : TRUE)
=============================================================================
