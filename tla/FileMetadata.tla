----------------------------- MODULE FileMetadata -----------------------------
(***************************************************************************)
(* The life of one FileAttributes value (protocol/file_attrs.rs): made from *)
(* the Metadata of a file or received from a peer, changed by setters and   *)
(* through its public fields, and sent on any number of times.              *)
(*                                                                          *)
(* `own' names what the value still has from its file: nobody assigned it.  *)
(***************************************************************************)
EXTENDS FileAttrs

CONSTANTS Files,   \* external: what the operating system says of files
          Assigned, Values  \* the numbers a program assigns, and what to

Numbers == {"size", "uid", "gid", "atime", "mtime"}

ASSUME AttrsAssumption ==
  /\ Width \in Nat /\ Width >= 16 /\ U32 \in Nat \ {0}
  /\ None \notin Nat /\ None \notin Files /\ \A w \in Word : None # w
  /\ Assigned \subseteq Numbers /\ Values \subseteq Nat
  /\ Files \subseteq [mode : Word, len : Nat, uid : Nat, gid : Nat,
                      accessed : Int \cup {None}, modified : Int \cup {None}]

VARIABLES attrs,   \* the value
          file,    \* history: the file it is about, None if there is none
          src,     \* history: how the value was made
          own      \* history: what it has from the file

vars == <<attrs, file, src, own>>

Types == {"FIFO", "CHR", "DIR", "BLK", "REG", "LNK", "SOCK"}

(* External: what the file has under the name of a field.  Its times are    *)
(* seconds since the epoch, before or after, or None if the platform keeps  *)
(* none.                                                                    *)
Times == {"atime", "mtime"}
Facts(m) == [size |-> m.len, uid |-> m.uid, gid |-> m.gid, permissions |-> m.mode,
             atime |-> m.accessed, mtime |-> m.modified]

(* External: a peer writes the facts into its block, where a time has the   *)
(* width of a u32; it cuts them as this crate does.                         *)
Written(m) == [f \in OnWire |->
                 IF f \in Times THEN unix(unwrap_or(Facts(m)[f], 0)) ELSE Facts(m)[f]]

Init ==
  /\ attrs \in {empty, default}
  /\ file = None /\ src = "program" /\ own = {}

(* A server's handler converts what the operating system says. *)
Convert(m) ==
  /\ src = "program"
  /\ attrs' = from_metadata(m)
  /\ file' = m /\ src' = "metadata"
  /\ own' = Numbers \cup {"permissions", "type"}

(* A block of a peer that sends the mode as it is, with any flags. *)
Receive(m, flags) ==
  LET l == Layout(flags) IN
  /\ src = "program"
  /\ attrs' = Deserialize([flags |-> flags,
                           vals |-> [i \in 1 .. Len(l) |-> Written(m)[l[i]]]])
  /\ file' = m /\ src' = "peer"
  /\ own' = {f \in OnWire : FlagOf[f] \in flags}
              \cup (IF "PERMISSIONS" \in flags THEN {"type"} ELSE {})

(* set_dir, set_regular, set_symlink, set_character, set_block, set_fifo.   *)
SetType(t, on) ==
  /\ attrs' = set_if(attrs, t, on)
  /\ own' = own \ {"type"}
  /\ UNCHANGED <<file, src>>

(* The fields are public. *)
Assign(f, v) ==
  /\ attrs' = [attrs EXCEPT ![f] = v]
  /\ own' = own \ {f}
  /\ UNCHANGED <<file, src>>

(* The value goes over the wire to a peer that uses this crate. *)
Transfer ==
  /\ attrs' = Deserialize(Serialize(attrs))
  /\ UNCHANGED <<file, src, own>>

Next ==
  \/ \E m \in Files : Convert(m)
  \/ \E m \in Files, flags \in SUBSET {FlagOf[f] : f \in OnWire} : Receive(m, flags)
  \/ \E t \in Tested, on \in BOOLEAN : SetType(t, on)
  \/ \E f \in Assigned, v \in Values \cup {None} : Assign(f, v)
  \/ Transfer

Spec == Init /\ [][Next]_vars

-----------------------------------------------------------------------------
(* Properties *)

(* The value and its history have their types. *)
TypeOK ==
  /\ \A f \in Numbers : attrs[f] \in Nat \cup {None}
  /\ attrs.permissions \in Word \cup {None}
  /\ attrs.user = None /\ attrs.group = None
  /\ file \in Files \cup {None} /\ src \in {"program", "metadata", "peer"}
  /\ own \subseteq Numbers \cup {"permissions", "type"}
  /\ own # {} => file # None

(* Whatever setters ran, whichever other fields were assigned and however   *)
(* often it was sent: a field nobody assigned still says what the file has. *)
(* A time it says only if the file has one and it lies within the U32       *)
(* seconds after the epoch; one before or after comes out as a time within  *)
(* them that is off by a multiple of U32, and a missing one as the epoch.   *)
(* The permission bits survive the setters of the type.                     *)
SaysTime(x, t) ==
  \/ t = None /\ x = 0
  \/ /\ t # None /\ x \in 0 .. U32 - 1 /\ (x - t) % U32 = 0
     /\ x = t <=> t \in 0 .. U32 - 1
Faithful ==
  /\ \A f \in own \cap (Numbers \ Times) : attrs[f] = Facts(file)[f]
  /\ \A f \in own \cap Times : SaysTime(attrs[f], Facts(file)[f])
  /\ "permissions" \in own => permissions(attrs) = file.mode \cap FlagBits

(* file_type of a mode that came over the wire is the type of the file.     *)
(* From<&Metadata> keeps it for directories, files and links; it may turn a *)
(* device into a link, but never makes a directory of what is none.         *)
TypeKept ==
  "type" \in own =>
    \/ file_type(attrs) = FileType(file.mode \cap TypeBits)
    \/ /\ src = "metadata" /\ file_type(attrs) # "Dir"
       /\ FileType(file.mode \cap TypeBits) = "Other"

(* is_dir, which longname and clients rely on, is right for attributes made *)
(* from Metadata although the bits of DIR are part of BLK and SOCK.         *)
ConvertedDir ==
  "type" \in own /\ src = "metadata" => (is_type(attrs, "DIR") <=> std_is_dir(file))

(* Sending keeps every field that is present, adds at most a 0 as the other *)
(* half of a pair, and what was sent once does not change when it is sent   *)
(* on: the size of a relayed block, for one, stays absent if it was.        *)
SentOnce ==
  LET once == Deserialize(Serialize(attrs)) IN
  /\ \A f \in OnWire :
       IF attrs[f] # None THEN once[f] = attrs[f]
       ELSE once[f] \in {None, 0} /\ (once[f] = 0 => FlagOf[f] \in {"UIDGID", "ACMODTIME"})
  /\ Deserialize(Serialize(once)) = once

-----------------------------------------------------------------------------
(* protocol/file_attrs.rs:206, "Returns `true` if is a" dir (regular,       *)
(* symlink, character, block, fifo).                                        *)
TestsTell ==
  "type" \in own /\ src = "peer" =>
    \A t \in Tested : is_type(attrs, t) <=> file.mode \cap TypeBits = FileMode[t]
=============================================================================
