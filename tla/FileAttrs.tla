------------------------------- MODULE FileAttrs -------------------------------
(***************************************************************************)
(* FileAttributes (protocol/file_attrs.rs): optional fields, the mode word  *)
(* with the type of a file, and the layout of the attribute block.          *)
(*                                                                          *)
(* A mode word is the set of its bits.  An optional field is its value, or  *)
(* None.                                                                    *)
(***************************************************************************)
EXTENDS Integers, Sequences

CONSTANTS None,     \* Option::None
          Width     \* bits of a u32: 32 in the code

-----------------------------------------------------------------------------
(* FileMode.  Several types share bits: BLK = DIR | CHR, LNK = REG | CHR,   *)
(* SOCK = REG | DIR, NAM = DIR | FIFO.                                      *)
FileMode == [FIFO |-> {12}, CHR |-> {13}, DIR |-> {14}, NAM |-> {12, 14},
             BLK |-> {13, 14}, REG |-> {15}, LNK |-> {13, 15},
             SOCK |-> {14, 15}]
TypeBits == 12 .. 15     \* what from_bits_truncate leaves
FlagBits == 0 .. 8       \* FilePermissionFlags

Word == SUBSET (0 .. Width - 1)
U32  == 2 ^ Width

unwrap_or(o, d) == IF o = None THEN d ELSE o

(* FileType::from(FileMode) *)
FileType(mode) ==
  CASE mode = FileMode.DIR -> "Dir"
    [] mode = FileMode.LNK -> "Symlink"
    [] mode = FileMode.REG -> "File"
    [] OTHER -> "Other"

file_type(a)   == FileType(unwrap_or(a.permissions, {}) \cap TypeBits)
permissions(a) == unwrap_or(a.permissions, {}) \cap FlagBits

(* impl_fn_type!: is_dir, is_regular, is_symlink, is_character, is_block,   *)
(* is_fifo ask whether the mode contains the bits of the type.              *)
Tested == {"DIR", "REG", "LNK", "CHR", "BLK", "FIFO"}
is_type(a, t) ==
  a.permissions # None /\ FileMode[t] \subseteq a.permissions \cap TypeBits

set_type(a, t) ==
  [a EXCEPT !.permissions = unwrap_or(a.permissions, {}) \cup FileMode[t]]
remove_type(a, t) ==
  [a EXCEPT !.permissions = unwrap_or(a.permissions, {}) \ FileMode[t]]

(* set_dir, set_regular, set_symlink, ... *)
set_if(a, t, on) == IF on THEN set_type(a, t) ELSE remove_type(a, t)

empty == [size |-> None, uid |-> None, user |-> None, gid |-> None,
          group |-> None, permissions |-> None, atime |-> None, mtime |-> None]

default == [size |-> 0, uid |-> 0, user |-> None, gid |-> 0, group |-> None,
            permissions |-> FlagBits \cup FileMode.DIR, atime |-> 0, mtime |-> 0]

(* utils::unix: seconds since the epoch, before it negative, cast to u32.   *)
unix_Signed(t) == t                                                  \* fault
unix_Millis(t) == (t * 1000) % U32                                   \* fault
unix(t) == t % U32

(* External: Metadata::is_dir on unix. *)
std_is_dir(m) == m.mode \cap TypeBits = FileMode.DIR

(* What Metadata says, before the type is put in order.  A time the         *)
(* platform does not have is the epoch.                                     *)
as_is(m) == [size |-> m.len, uid |-> m.uid, user |-> None, gid |-> m.gid,
             group |-> None, permissions |-> m.mode,
             atime |-> unix(unwrap_or(m.accessed, 0)),
             mtime |-> unix(unwrap_or(m.modified, 0))]

(* From<&Metadata> on unix: set_dir(is_dir), then set_regular(!is_dir).     *)
from_metadata_NoDir(m) == set_if(as_is(m), "REG", ~std_is_dir(m))    \* fault
from_metadata_Reg(m) ==                                              \* fault
  set_type(set_if(as_is(m), "DIR", std_is_dir(m)), "REG")
from_metadata(m) ==
  set_if(set_if(as_is(m), "DIR", std_is_dir(m)), "REG", ~std_is_dir(m))

-----------------------------------------------------------------------------
(* The attribute block: flags, then the fields the flags announce. *)

FlagOf == [size |-> "SIZE", uid |-> "UIDGID", gid |-> "UIDGID",
           permissions |-> "PERMISSIONS", atime |-> "ACMODTIME",
           mtime |-> "ACMODTIME"]
OnWire == DOMAIN FlagOf

(* Half of a pair is enough to announce the pair. *)
Flags_ByFirst(a) ==                                                  \* fault
  {FlagOf[f] : f \in {g \in {"size", "uid", "permissions", "atime"} : a[g] # None}}
Flags(a) == {FlagOf[f] : f \in {g \in OnWire : a[g] # None}}

(* The fields that `flags' announces, in the order of Serialize and         *)
(* Deserialize.                                                             *)
Layout(flags) ==
     (IF "SIZE" \in flags THEN <<"size">> ELSE <<>>)
  \o (IF "UIDGID" \in flags THEN <<"uid", "gid">> ELSE <<>>)
  \o (IF "PERMISSIONS" \in flags THEN <<"permissions">> ELSE <<>>)
  \o (IF "ACMODTIME" \in flags THEN <<"atime", "mtime">> ELSE <<>>)

Serialize(a) ==
  LET l == Layout(Flags(a))
  IN  [flags |-> Flags(a), vals |-> [i \in 1 .. Len(l) |-> unwrap_or(a[l[i]], 0)]]

(* Fields are taken off the block one by one; `user' and `group' are not on *)
(* the wire.                                                                *)
Deserialize(w) ==
  LET After(flag, n) == IF flag \in w.flags THEN n ELSE 0
      Take(flag, i)  == IF flag \in w.flags THEN w.vals[i] ELSE None
      u == 1 + After("SIZE", 1)
      p == u + After("UIDGID", 2)
      t == p + After("PERMISSIONS", 1)
  IN  [size |-> Take("SIZE", 1),
       uid |-> Take("UIDGID", u), user |-> None, gid |-> Take("UIDGID", u + 1),
       group |-> None, permissions |-> Take("PERMISSIONS", p),
       atime |-> Take("ACMODTIME", t), mtime |-> Take("ACMODTIME", t + 1)]
=============================================================================
