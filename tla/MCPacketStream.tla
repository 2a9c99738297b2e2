---------------------------- MODULE MCPacketStream ----------------------------
(* A packet of every layout, with numbers at both ends of their range.      *)
EXTENDS PacketStream

P(type, fields) == [type |-> type, fields |-> fields]
Max32 == 256 ^ W32 - 1
Part  == [empty EXCEPT !.gid = 5, !.mtime = Max32]
Sized == [empty EXCEPT !.size = 256 ^ W64 - 1, !.permissions = 16877]
ab    == <<97, 98>>

MCPackets ==
  {P("Init", <<3, << >> >>),
   P("Version", <<3, << [key |-> ab, value |-> <<49>>], [key |-> <<98>>, value |-> <<>>] >> >>),
   P("Open", <<1, ab, 26, Part>>),
   P("Read", <<Max32, <<104>>, 256 ^ W64 - 1, 300>>),
   P("Write", <<2, <<104>>, 256, <<0, 255>> >>),
   P("SetStat", <<4, <<>>, empty>>),
   P("Rename", <<5, <<97>>, ab>>),
   P("Close", <<6, <<104>> >>),
   P("Status", <<7, MaxCode, ab, <<>> >>),
   P("Name", <<8, << [filename |-> <<97>>, longname |-> <<>>, attrs |-> Sized],
                     [filename |-> <<98>>, longname |-> ab, attrs |-> Part] >> >>),
   P("Attrs", <<9, [default EXCEPT !.permissions = 16895]>>),
   P("ExtendedReply", <<10, <<1, 2, 3>> >>)}

(* An empty frame; a type and a status code nobody knows; bytes to spare; a *)
(* count beyond the packet; a name that is not UTF-8; attributes with an    *)
(* extended pair in front of a second file; a key that comes twice.         *)
MCForeign ==
  {<<>>, <<99, 1>>,
   <<101>> \o Put(W32, 7) \o Put(W32, MaxCode + 1) \o PutStr(<<>>) \o PutStr(<<>>),
   Body(P("Close", <<6, <<104>> >>)) \o <<1, 2>>,
   <<104>> \o Put(W32, 8) \o Put(W32, Max32) \o PutFile([filename |-> ab, longname |-> ab, attrs |-> empty]),
   <<17>> \o Put(W32, 9) \o PutStr(<<97, 200>>),
   <<104>> \o Put(W32, 8) \o Put(W32, 2) \o PutStr(<<97>>) \o PutStr(<<>>)
      \o Put(W32, FlagBit.EXTENDED) \o Put(W32, 1) \o PutStr(ab) \o PutStr(ab)
      \o PutFile([filename |-> <<98>>, longname |-> <<>>, attrs |-> empty]),
   <<2>> \o Put(W32, 3) \o PutStr(ab) \o PutStr(<<49>>) \o PutStr(ab) \o PutStr(<<50>>)}
=============================================================================
