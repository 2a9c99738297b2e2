--------------------------- MODULE FileMetadataProofs ---------------------------
(* Theorems about FileMetadata, for every file and any number of steps. *)
EXTENDS FileMetadata, SequenceTheorems, TLAPS

-----------------------------------------------------------------------------
(* The attribute block *)

LEMMA InFirst ==
  ASSUME NEW S, NEW s \in Seq(S), NEW t \in Seq(S), NEW i \in 1 .. Len(s)
  PROVE  (s \o t)[i] = s[i]
BY ConcatProperties, LenProperties

LEMMA InSecond ==
  ASSUME NEW S, NEW s \in Seq(S), NEW t \in Seq(S), NEW i \in 1 .. Len(t)
  PROVE  (s \o t)[Len(s) + i] = t[i]
BY ConcatProperties, LenProperties

LEMMA LayoutPlaces ==
  ASSUME NEW flags
  PROVE  LET After(flag, n) == IF flag \in flags THEN n ELSE 0
             u == 1 + After("SIZE", 1)
             p == u + After("UIDGID", 2)
             t == p + After("PERMISSIONS", 1)
             l == Layout(flags)
         IN  /\ l \in Seq(OnWire) /\ Len(l) = t - 1 + After("ACMODTIME", 2)
             /\ "SIZE" \in flags => l[1] = "size"
             /\ "UIDGID" \in flags => l[u] = "uid" /\ l[u + 1] = "gid"
             /\ "PERMISSIONS" \in flags => l[p] = "permissions"
             /\ "ACMODTIME" \in flags => l[t] = "atime" /\ l[t + 1] = "mtime"
<1> DEFINE s1 == IF "SIZE" \in flags THEN <<"size">> ELSE <<>>
           s2 == IF "UIDGID" \in flags THEN <<"uid", "gid">> ELSE <<>>
           s3 == IF "PERMISSIONS" \in flags THEN <<"permissions">> ELSE <<>>
           s4 == IF "ACMODTIME" \in flags THEN <<"atime", "mtime">> ELSE <<>>
<1>0. OnWire = {"size", "uid", "gid", "permissions", "atime", "mtime"}
  BY DEF OnWire, FlagOf
<1>1. s1 \in Seq(OnWire) /\ Len(s1) = (IF "SIZE" \in flags THEN 1 ELSE 0)
      /\ ("SIZE" \in flags => s1[1] = "size")
  <2>1. CASE "SIZE" \in flags
    BY <1>0, <2>1
  <2>2. CASE "SIZE" \notin flags
    BY <2>2
  <2> QED
    BY <2>1, <2>2
<1>2. s2 \in Seq(OnWire) /\ Len(s2) = (IF "UIDGID" \in flags THEN 2 ELSE 0)
      /\ ("UIDGID" \in flags => s2[1] = "uid" /\ s2[2] = "gid")
  <2>1. CASE "UIDGID" \in flags
    BY <1>0, <2>1
  <2>2. CASE "UIDGID" \notin flags
    BY <2>2
  <2> QED
    BY <2>1, <2>2
<1>3. s3 \in Seq(OnWire) /\ Len(s3) = (IF "PERMISSIONS" \in flags THEN 1 ELSE 0)
      /\ ("PERMISSIONS" \in flags => s3[1] = "permissions")
  <2>1. CASE "PERMISSIONS" \in flags
    BY <1>0, <2>1
  <2>2. CASE "PERMISSIONS" \notin flags
    BY <2>2
  <2> QED
    BY <2>1, <2>2
<1>4. s4 \in Seq(OnWire) /\ Len(s4) = (IF "ACMODTIME" \in flags THEN 2 ELSE 0)
      /\ ("ACMODTIME" \in flags => s4[1] = "atime" /\ s4[2] = "mtime")
  <2>1. CASE "ACMODTIME" \in flags
    BY <1>0, <2>1
  <2>2. CASE "ACMODTIME" \notin flags
    BY <2>2
  <2> QED
    BY <2>1, <2>2
<1> DEFINE a == s1 \o s2
           b == a \o s3
           c == b \o s4
<1>5. c = Layout(flags)
  BY DEF Layout
<1> HIDE DEF s1, s2, s3, s4
<1>6. /\ a \in Seq(OnWire) /\ Len(a) = Len(s1) + Len(s2)
      /\ "SIZE" \in flags => a[1] = "size"
      /\ "UIDGID" \in flags => a[Len(s1) + 1] = "uid" /\ a[Len(s1) + 2] = "gid"
  BY <1>1, <1>2, ConcatProperties, InFirst, InSecond
<1> HIDE DEF a
<1>7. /\ b \in Seq(OnWire) /\ Len(b) = Len(a) + Len(s3)
      /\ \A i \in 1 .. Len(a) : b[i] = a[i]
      /\ "PERMISSIONS" \in flags => b[Len(a) + 1] = "permissions"
  <2>1. b \in Seq(OnWire) /\ Len(b) = Len(a) + Len(s3)
    BY <1>3, <1>6, ConcatProperties
  <2>2. \A i \in 1 .. Len(a) : b[i] = a[i]
    BY <1>3, <1>6, InFirst
  <2>3. \A i \in 1 .. Len(s3) : b[Len(a) + i] = s3[i]
    BY <1>3, <1>6, InSecond
  <2> QED
    BY <1>3, <2>1, <2>2, <2>3
<1> HIDE DEF b
<1>8. /\ c \in Seq(OnWire) /\ Len(c) = Len(b) + Len(s4)
      /\ \A i \in 1 .. Len(b) : c[i] = b[i]
      /\ "ACMODTIME" \in flags => c[Len(b) + 1] = "atime" /\ c[Len(b) + 2] = "mtime"
  <2>1. c \in Seq(OnWire) /\ Len(c) = Len(b) + Len(s4)
    BY <1>4, <1>7, ConcatProperties
  <2>2. \A i \in 1 .. Len(b) : c[i] = b[i]
    BY <1>4, <1>7, InFirst
  <2>3. \A i \in 1 .. Len(s4) : c[Len(b) + i] = s4[i]
    BY <1>4, <1>7, InSecond
  <2> QED
    BY <1>4, <2>1, <2>2, <2>3
<1> HIDE DEF c
<1>9. /\ Len(s1) \in Nat /\ Len(s2) \in Nat /\ Len(s3) \in Nat
      /\ Len(a) \in Nat /\ Len(b) \in Nat
  BY <1>1, <1>2, <1>3, <1>6, <1>7, LenProperties
<1>10. "SIZE" \in flags => c[1] = "size"
  BY <1>1, <1>2, <1>3, <1>6, <1>7, <1>8
<1>11. "UIDGID" \in flags => c[Len(s1) + 1] = "uid" /\ c[Len(s1) + 1 + 1] = "gid"
  BY <1>1, <1>2, <1>3, <1>6, <1>7, <1>8
<1>12. "PERMISSIONS" \in flags => c[Len(s1) + Len(s2) + 1] = "permissions"
  BY <1>1, <1>2, <1>3, <1>6, <1>7, <1>8
<1>13. "ACMODTIME" \in flags => /\ c[Len(s1) + Len(s2) + Len(s3) + 1] = "atime"
                                /\ c[Len(s1) + Len(s2) + Len(s3) + 1 + 1] = "mtime"
  BY <1>1, <1>2, <1>3, <1>6, <1>7, <1>8
<1>14. c \in Seq(OnWire) /\ Len(c) = Len(s1) + Len(s2) + Len(s3) + Len(s4)
  BY <1>6, <1>7, <1>8, <1>9
<1> DEFINE After(flag, n) == IF flag \in flags THEN n ELSE 0
           u == 1 + After("SIZE", 1)
           p == u + After("UIDGID", 2)
           t == p + After("PERMISSIONS", 1)
           l == Layout(flags)
<1>15. After("SIZE", 1) = Len(s1) /\ After("UIDGID", 2) = Len(s2)
  BY <1>1, <1>2
<1>16. After("PERMISSIONS", 1) = Len(s3) /\ After("ACMODTIME", 2) = Len(s4)
  BY <1>3, <1>4
<1> HIDE DEF After
<1>17. /\ u = Len(s1) + 1 /\ p = Len(s1) + Len(s2) + 1
       /\ t = Len(s1) + Len(s2) + Len(s3) + 1
  BY <1>9, <1>15, <1>16
<1>18. Len(s4) \in Nat
  BY <1>4
<1> HIDE DEF u, p, t
<1>19. l \in Seq(OnWire) /\ Len(l) = t - 1 + After("ACMODTIME", 2)
  <2>1. l \in Seq(OnWire) /\ Len(l) = Len(s1) + Len(s2) + Len(s3) + Len(s4)
    BY <1>5, <1>14
  <2>2. t - 1 + Len(s4) = Len(s1) + Len(s2) + Len(s3) + Len(s4)
    BY <1>9, <1>17, <1>18
  <2> QED
    BY <1>16, <2>1, <2>2
<1>20. "SIZE" \in flags => l[1] = "size"
  BY <1>5, <1>10
<1>21. "UIDGID" \in flags => l[u] = "uid" /\ l[u + 1] = "gid"
  BY <1>5, <1>11, <1>17
<1>22. "PERMISSIONS" \in flags => l[p] = "permissions"
  BY <1>5, <1>12, <1>17
<1>23. "ACMODTIME" \in flags => l[t] = "atime" /\ l[t + 1] = "mtime"
  BY <1>5, <1>13, <1>17
<1> QED
  BY <1>19, <1>20, <1>21, <1>22, <1>23 DEF After, u, p, t

(* Deserialize finds every announced field where the layout has put it.     *)
LEMMA ReadBack ==
  ASSUME NEW flags, NEW V, NEW vals,
         \A i \in 1 .. Len(Layout(flags)) : vals[i] = V[Layout(flags)[i]]
  PROVE  LET d == Deserialize([flags |-> flags, vals |-> vals])
         IN  d = [size |-> IF "SIZE" \in flags THEN V["size"] ELSE None,
                  uid |-> IF "UIDGID" \in flags THEN V["uid"] ELSE None, user |-> None,
                  gid |-> IF "UIDGID" \in flags THEN V["gid"] ELSE None, group |-> None,
                  permissions |-> IF "PERMISSIONS" \in flags THEN V["permissions"] ELSE None,
                  atime |-> IF "ACMODTIME" \in flags THEN V["atime"] ELSE None,
                  mtime |-> IF "ACMODTIME" \in flags THEN V["mtime"] ELSE None]
<1> DEFINE l == Layout(flags)
           After(flag, n) == IF flag \in flags THEN n ELSE 0
           u == 1 + After("SIZE", 1)
           p == u + After("UIDGID", 2)
           t == p + After("PERMISSIONS", 1)
<1>1. /\ Len(l) = t - 1 + After("ACMODTIME", 2)
      /\ "SIZE" \in flags => l[1] = "size"
      /\ "UIDGID" \in flags => l[u] = "uid" /\ l[u + 1] = "gid"
      /\ "PERMISSIONS" \in flags => l[p] = "permissions"
      /\ "ACMODTIME" \in flags => l[t] = "atime" /\ l[t + 1] = "mtime"
  BY LayoutPlaces
<1> HIDE DEF l
<1>2. \A i \in 1 .. Len(l) : vals[i] = V[l[i]]
  BY DEF l
<1>3. "SIZE" \in flags => vals[1] = V["size"]
  BY <1>1, <1>2
<1>4. "UIDGID" \in flags => vals[u] = V["uid"] /\ vals[u + 1] = V["gid"]
  BY <1>1, <1>2
<1>5. "PERMISSIONS" \in flags => vals[p] = V["permissions"]
  BY <1>1, <1>2
<1>6. "ACMODTIME" \in flags => vals[t] = V["atime"] /\ vals[t + 1] = V["mtime"]
  BY <1>1, <1>2
<1> QED
  BY <1>3, <1>4, <1>5, <1>6 DEF Deserialize

Attrs == [size : Nat \cup {None}, uid : Nat \cup {None}, user : {None},
          gid : Nat \cup {None}, group : {None}, permissions : Word \cup {None},
          atime : Nat \cup {None}, mtime : Nat \cup {None}]

(* What sending does to a value: an absent half of a pair becomes 0.        *)
Sent(x, other) == IF x = None /\ other # None THEN 0 ELSE x

LEMMA RoundTrip ==
  ASSUME NEW a \in Attrs
  PROVE  Deserialize(Serialize(a)) =
           [size |-> a.size, uid |-> Sent(a.uid, a.gid), user |-> None,
            gid |-> Sent(a.gid, a.uid), group |-> None, permissions |-> a.permissions,
            atime |-> Sent(a.atime, a.mtime), mtime |-> Sent(a.mtime, a.atime)]
<1> DEFINE flags == Flags(a)
           V == [f \in OnWire |-> unwrap_or(a[f], 0)]
           vals == [i \in 1 .. Len(Layout(flags)) |-> unwrap_or(a[Layout(flags)[i]], 0)]
<1>0. OnWire = {"size", "uid", "gid", "permissions", "atime", "mtime"}
  BY DEF OnWire, FlagOf
<1>1. /\ "SIZE" \in flags <=> a.size # None
      /\ "UIDGID" \in flags <=> a.uid # None \/ a.gid # None
      /\ "PERMISSIONS" \in flags <=> a.permissions # None
      /\ "ACMODTIME" \in flags <=> a.atime # None \/ a.mtime # None
  BY <1>0 DEF Flags, FlagOf
<1>2. Serialize(a) = [flags |-> flags, vals |-> vals]
  BY DEF Serialize
<1> HIDE DEF flags
<1>3. \A i \in 1 .. Len(Layout(flags)) : vals[i] = V[Layout(flags)[i]]
  <2>1. Layout(flags) \in Seq(OnWire)
    BY LayoutPlaces
  <2> QED
    BY <2>1
<1>4. /\ V["size"] = unwrap_or(a.size, 0) /\ V["uid"] = unwrap_or(a.uid, 0)
      /\ V["gid"] = unwrap_or(a.gid, 0) /\ V["permissions"] = unwrap_or(a.permissions, 0)
      /\ V["atime"] = unwrap_or(a.atime, 0) /\ V["mtime"] = unwrap_or(a.mtime, 0)
  BY <1>0
<1> HIDE DEF V, vals
<1> DEFINE d == Deserialize([flags |-> flags, vals |-> vals])
<1>5. d = [size |-> IF "SIZE" \in flags THEN V["size"] ELSE None,
           uid |-> IF "UIDGID" \in flags THEN V["uid"] ELSE None, user |-> None,
           gid |-> IF "UIDGID" \in flags THEN V["gid"] ELSE None, group |-> None,
           permissions |-> IF "PERMISSIONS" \in flags THEN V["permissions"] ELSE None,
           atime |-> IF "ACMODTIME" \in flags THEN V["atime"] ELSE None,
           mtime |-> IF "ACMODTIME" \in flags THEN V["mtime"] ELSE None]
  BY <1>3, ReadBack
<1> HIDE DEF d
<1>6. /\ (IF "SIZE" \in flags THEN V["size"] ELSE None) = a.size
      /\ (IF "UIDGID" \in flags THEN V["uid"] ELSE None) = Sent(a.uid, a.gid)
      /\ (IF "UIDGID" \in flags THEN V["gid"] ELSE None) = Sent(a.gid, a.uid)
  BY <1>1, <1>4 DEF Sent, unwrap_or
<1>7. /\ (IF "PERMISSIONS" \in flags THEN V["permissions"] ELSE None) = a.permissions
      /\ (IF "ACMODTIME" \in flags THEN V["atime"] ELSE None) = Sent(a.atime, a.mtime)
      /\ (IF "ACMODTIME" \in flags THEN V["mtime"] ELSE None) = Sent(a.mtime, a.atime)
  BY <1>1, <1>4 DEF Sent, unwrap_or
<1> QED
  BY <1>2, <1>5, <1>6, <1>7 DEF d

LEMMA NoneApart == None \notin Nat /\ None \notin Word
BY AttrsAssumption

LEMMA SentType ==
  ASSUME NEW x \in Nat \cup {None}, NEW y
  PROVE  /\ Sent(x, y) \in Nat \cup {None}
         /\ x # None => Sent(x, y) = x
         /\ Sent(x, y) = None <=> x = None /\ y = None
         /\ x = None => Sent(x, y) \in {None, 0}
BY NoneApart DEF Sent

LEMMA SentAttrs ==
  ASSUME NEW a \in Attrs
  PROVE  Deserialize(Serialize(a)) \in Attrs
<1> DEFINE d == Deserialize(Serialize(a))
<1>1. /\ a.size \in Nat \cup {None} /\ a.permissions \in Word \cup {None}
      /\ a.uid \in Nat \cup {None} /\ a.gid \in Nat \cup {None}
      /\ a.atime \in Nat \cup {None} /\ a.mtime \in Nat \cup {None}
  BY DEF Attrs
<1>2. /\ Sent(a.uid, a.gid) \in Nat \cup {None} /\ Sent(a.gid, a.uid) \in Nat \cup {None}
      /\ Sent(a.atime, a.mtime) \in Nat \cup {None}
      /\ Sent(a.mtime, a.atime) \in Nat \cup {None}
  BY <1>1, SentType
<1> QED
  BY <1>1, <1>2, RoundTrip DEF Attrs

LEMMA UnixType == \A t \in Int : unix(t) \in Nat
BY AttrsAssumption DEF unix

LEMMA WrittenAre ==
  ASSUME NEW m
  PROVE  /\ Written(m)["size"] = m.len /\ Written(m)["uid"] = m.uid
         /\ Written(m)["gid"] = m.gid /\ Written(m)["permissions"] = m.mode
         /\ Written(m)["atime"] = unix(unwrap_or(m.accessed, 0))
         /\ Written(m)["mtime"] = unix(unwrap_or(m.modified, 0))
<1>1. OnWire = {"size", "uid", "gid", "permissions", "atime", "mtime"}
  BY DEF OnWire, FlagOf
<1> QED
  BY <1>1 DEF Written, Facts, Times

LEMMA FactsType ==
  ASSUME NEW m \in Files
  PROVE  /\ m.len \in Nat /\ m.uid \in Nat /\ m.gid \in Nat /\ m.mode \in Word
         /\ unix(unwrap_or(m.accessed, 0)) \in Nat
         /\ unix(unwrap_or(m.modified, 0)) \in Nat
<1>1. m \in [mode : Word, len : Nat, uid : Nat, gid : Nat,
             accessed : Int \cup {None}, modified : Int \cup {None}]
  BY AttrsAssumption
<1>2. unwrap_or(m.accessed, 0) \in Int /\ unwrap_or(m.modified, 0) \in Int
  BY <1>1 DEF unwrap_or
<1> QED
  BY <1>1, <1>2, UnixType

-----------------------------------------------------------------------------
(* The inductive invariant: what a value has from its file is still there,  *)
(* and until a setter runs the mode is the converted or the received one.   *)

Mode(m, how) == IF how = "metadata" THEN from_metadata(m).permissions ELSE m.mode

AttrsInv ==
  /\ attrs \in Attrs
  /\ file \in Files \cup {None} /\ src \in {"program", "metadata", "peer"}
  /\ own \subseteq Numbers \cup {"permissions", "type"}
  /\ own # {} => file # None
  /\ "size" \in own => attrs.size = file.len
  /\ "uid" \in own => attrs.uid = file.uid
  /\ "gid" \in own => attrs.gid = file.gid
  /\ "atime" \in own => attrs.atime = unix(unwrap_or(file.accessed, 0))
  /\ "mtime" \in own => attrs.mtime = unix(unwrap_or(file.modified, 0))
  /\ "permissions" \in own =>
       attrs.permissions # None /\ attrs.permissions \cap FlagBits = file.mode \cap FlagBits
  /\ "type" \in own => src # "program" /\ attrs.permissions = Mode(file, src)

(* The mode of a converted value. *)
LEMMA ConvertedMode ==
  ASSUME NEW m \in Files
  PROVE  /\ from_metadata(m) =
              [size |-> m.len, uid |-> m.uid, user |-> None, gid |-> m.gid,
               group |-> None, permissions |-> from_metadata(m).permissions,
               atime |-> unix(unwrap_or(m.accessed, 0)),
               mtime |-> unix(unwrap_or(m.modified, 0))]
         /\ from_metadata(m).permissions =
              IF std_is_dir(m) THEN (m.mode \cup {14}) \ {15} ELSE (m.mode \ {14}) \cup {15}
<1> DEFINE a == as_is(m)
           With(w) == [size |-> m.len, uid |-> m.uid, user |-> None, gid |-> m.gid,
                       group |-> None, permissions |-> w,
                       atime |-> unix(unwrap_or(m.accessed, 0)),
                       mtime |-> unix(unwrap_or(m.modified, 0))]
<1>1. a = With(m.mode)
  BY DEF as_is
<1>2. \A w, x : [With(w) EXCEPT !.permissions = x] = With(x) /\ With(w).permissions = w
  OBVIOUS
<1>3. /\ \A w \in Word : unwrap_or(w, {}) = w
      /\ m.mode \in Word /\ m.mode \cup {14} \in Word /\ m.mode \ {14} \in Word
  BY FactsType, NoneApart, AttrsAssumption DEF unwrap_or, Word
<1>4. FileMode.DIR = {14} /\ FileMode.REG = {15}
  BY DEF FileMode
<1> HIDE DEF a, With
<1>5. CASE std_is_dir(m)
  <2>1. set_type(a, "DIR") = With(m.mode \cup {14})
    <3>1. set_type(With(m.mode), "DIR") = With(m.mode \cup {14})
      BY <1>2, <1>3, <1>4 DEF set_type
    <3> QED
      BY <1>1, <3>1
  <2>2. remove_type(With(m.mode \cup {14}), "REG") = With((m.mode \cup {14}) \ {15})
    BY <1>2, <1>3, <1>4 DEF remove_type
  <2>3. from_metadata(m) = With((m.mode \cup {14}) \ {15})
    BY <1>5, <2>1, <2>2 DEF from_metadata, set_if, a
  <2> QED
    BY <1>2, <1>5, <2>3 DEF With
<1>6. CASE ~std_is_dir(m)
  <2>1. remove_type(a, "DIR") = With(m.mode \ {14})
    <3>1. remove_type(With(m.mode), "DIR") = With(m.mode \ {14})
      BY <1>2, <1>3, <1>4 DEF remove_type
    <3> QED
      BY <1>1, <3>1
  <2>2. set_type(With(m.mode \ {14}), "REG") = With((m.mode \ {14}) \cup {15})
    BY <1>2, <1>3, <1>4 DEF set_type
  <2>3. from_metadata(m) = With((m.mode \ {14}) \cup {15})
    BY <1>6, <2>1, <2>2 DEF from_metadata, set_if, a
  <2> QED
    BY <1>2, <1>6, <2>3 DEF With
<1> QED
  BY <1>5, <1>6

(* Bits of the type and of the permissions do not overlap. *)
LEMMA SetIfMode ==
  ASSUME NEW a \in Attrs, NEW t \in Tested, NEW on \in BOOLEAN
  PROVE  /\ \E w \in Word : /\ set_if(a, t, on) = [a EXCEPT !.permissions = w]
                           /\ w \cap FlagBits = unwrap_or(a.permissions, {}) \cap FlagBits
<1> DEFINE o == unwrap_or(a.permissions, {})
<1>1. FileMode[t] \subseteq TypeBits
  BY DEF Tested, FileMode, TypeBits
<1>2. o \in Word
  BY DEF unwrap_or, Attrs, Word
<1>3. o \cup FileMode[t] \in Word /\ o \ FileMode[t] \in Word
  BY <1>1, <1>2, AttrsAssumption DEF Word, TypeBits
<1>4. /\ (o \cup FileMode[t]) \cap FlagBits = o \cap FlagBits
      /\ (o \ FileMode[t]) \cap FlagBits = o \cap FlagBits
  BY <1>1 DEF FlagBits, TypeBits
<1>5. set_if(a, t, on) = [a EXCEPT !.permissions =
                            IF on THEN o \cup FileMode[t] ELSE o \ FileMode[t]]
  BY DEF set_if, set_type, remove_type
<1> HIDE DEF o
<1>6. CASE on
  BY <1>3, <1>4, <1>5, <1>6 DEF o
<1>7. CASE ~on
  BY <1>3, <1>4, <1>5, <1>7 DEF o
<1> QED
  BY <1>6, <1>7

LEMMA AttrsInit == Init => AttrsInv
<1> SUFFICES ASSUME Init PROVE AttrsInv
  OBVIOUS
<1>1. FlagBits \cup FileMode.DIR \in Word
  BY AttrsAssumption DEF FlagBits, FileMode, Word
<1>2. empty \in Attrs /\ default \in Attrs
  BY <1>1 DEF Attrs, empty, default
<1> QED
  BY <1>2 DEF Init, AttrsInv

LEMMA AttrsNext == AttrsInv /\ [Next]_vars => AttrsInv'
<1> SUFFICES ASSUME AttrsInv, [Next]_vars PROVE AttrsInv'
  OBVIOUS
<1>0. Numbers \cup {"permissions", "type"} =
        {"size", "uid", "gid", "atime", "mtime", "permissions", "type"}
  BY DEF Numbers
<1>1. ASSUME NEW m \in Files, Convert(m) PROVE AttrsInv'
  <2> DEFINE w == from_metadata(m).permissions
  <2>1. m.mode \in Word /\ w = IF std_is_dir(m) THEN (m.mode \cup {14}) \ {15}
                               ELSE (m.mode \ {14}) \cup {15}
    BY FactsType, ConvertedMode
  <2>2. w \in Word /\ w \cap FlagBits = m.mode \cap FlagBits
    BY <2>1, AttrsAssumption DEF Word, FlagBits
  <2>3. from_metadata(m) =
          [size |-> m.len, uid |-> m.uid, user |-> None, gid |-> m.gid,
           group |-> None, permissions |-> w,
           atime |-> unix(unwrap_or(m.accessed, 0)),
           mtime |-> unix(unwrap_or(m.modified, 0))]
    BY ConvertedMode
  <2>4. attrs' = from_metadata(m) /\ file' = m /\ src' = "metadata"
        /\ own' = Numbers \cup {"permissions", "type"}
    BY <1>1 DEF Convert
  <2>5. w # None /\ m # None
    BY <2>2, NoneApart, AttrsAssumption
  <2> HIDE DEF w
  <2>6. attrs' \in Attrs
    BY <2>2, <2>3, <2>4, FactsType DEF Attrs
  <2>7. Mode(file', src') = attrs'.permissions
    BY <2>4 DEF Mode
  <2> QED
    BY <2>2, <2>3, <2>4, <2>5, <2>6, <2>7 DEF AttrsInv
<1>2. ASSUME NEW m \in Files, NEW flags \in SUBSET {FlagOf[f] : f \in OnWire},
             Receive(m, flags)
      PROVE  AttrsInv'
  <2> DEFINE l == Layout(flags)
             vals == [i \in 1 .. Len(l) |-> Written(m)[l[i]]]
  <2>1. /\ attrs' = Deserialize([flags |-> flags, vals |-> vals]) /\ file' = m /\ src' = "peer"
        /\ own' = {f \in OnWire : FlagOf[f] \in flags}
                     \cup (IF "PERMISSIONS" \in flags THEN {"type"} ELSE {})
    BY <1>2 DEF Receive
  <2>2. \A i \in 1 .. Len(l) : vals[i] = Written(m)[l[i]]
    OBVIOUS
  <2> HIDE DEF vals
  <2>3. attrs' = [size |-> IF "SIZE" \in flags THEN m.len ELSE None,
                  uid |-> IF "UIDGID" \in flags THEN m.uid ELSE None, user |-> None,
                  gid |-> IF "UIDGID" \in flags THEN m.gid ELSE None, group |-> None,
                  permissions |-> IF "PERMISSIONS" \in flags THEN m.mode ELSE None,
                  atime |-> IF "ACMODTIME" \in flags
                            THEN unix(unwrap_or(m.accessed, 0)) ELSE None,
                  mtime |-> IF "ACMODTIME" \in flags
                            THEN unix(unwrap_or(m.modified, 0)) ELSE None]
    BY <2>1, <2>2, ReadBack, WrittenAre
  <2>4. attrs' \in Attrs
    BY <2>3, FactsType DEF Attrs
  <2>5. /\ "size" \in own' <=> "SIZE" \in flags
        /\ "uid" \in own' <=> "UIDGID" \in flags
        /\ "gid" \in own' <=> "UIDGID" \in flags
        /\ "permissions" \in own' <=> "PERMISSIONS" \in flags
        /\ "atime" \in own' <=> "ACMODTIME" \in flags
        /\ "mtime" \in own' <=> "ACMODTIME" \in flags
        /\ "type" \in own' => "PERMISSIONS" \in flags
    BY <2>1 DEF OnWire, FlagOf
  <2>6. own' \subseteq Numbers \cup {"permissions", "type"}
    BY <1>0, <2>1 DEF OnWire, FlagOf
  <2>7. m.mode # None /\ m # None /\ Mode(m, "peer") = m.mode
    BY FactsType, NoneApart, AttrsAssumption DEF Mode
  <2> QED
    BY <2>1, <2>3, <2>4, <2>5, <2>6, <2>7 DEF AttrsInv
<1>3. ASSUME NEW t \in Tested, NEW on \in BOOLEAN, SetType(t, on) PROVE AttrsInv'
  <2>1. PICK w \in Word : /\ set_if(attrs, t, on) = [attrs EXCEPT !.permissions = w]
                          /\ w \cap FlagBits = unwrap_or(attrs.permissions, {}) \cap FlagBits
    BY SetIfMode DEF AttrsInv
  <2>2. attrs' = [attrs EXCEPT !.permissions = w] /\ UNCHANGED <<file, src>>
        /\ own' = own \ {"type"}
    BY <1>3, <2>1 DEF SetType
  <2>3. /\ attrs' \in Attrs /\ attrs'.permissions = w /\ attrs'.size = attrs.size
        /\ attrs'.uid = attrs.uid /\ attrs'.gid = attrs.gid
        /\ attrs'.atime = attrs.atime /\ attrs'.mtime = attrs.mtime
    BY <2>2 DEF AttrsInv, Attrs
  <2>4. "permissions" \in own => w # None /\ w \cap FlagBits = file.mode \cap FlagBits
    BY <2>1, NoneApart DEF AttrsInv, unwrap_or
  <2> QED
    BY <2>2, <2>3, <2>4 DEF AttrsInv
<1>4. ASSUME NEW f \in Assigned, NEW v \in Values \cup {None}, Assign(f, v) PROVE AttrsInv'
  <2>1. /\ attrs' = [attrs EXCEPT ![f] = v] /\ own' = own \ {f} /\ UNCHANGED <<file, src>>
        /\ f \in {"size", "uid", "gid", "atime", "mtime"} /\ v \in Nat \cup {None}
    BY <1>4, AttrsAssumption DEF Assign, Numbers
  <2>2. /\ attrs' \in Attrs /\ attrs'.permissions = attrs.permissions
        /\ f # "size" => attrs'.size = attrs.size
        /\ f # "uid" => attrs'.uid = attrs.uid
        /\ f # "gid" => attrs'.gid = attrs.gid
        /\ f # "atime" => attrs'.atime = attrs.atime
        /\ f # "mtime" => attrs'.mtime = attrs.mtime
    BY <2>1 DEF AttrsInv, Attrs
  <2> QED
    BY <2>1, <2>2 DEF AttrsInv
<1>5. CASE Transfer
  <2>1. attrs' = Deserialize(Serialize(attrs)) /\ UNCHANGED <<file, src, own>>
        /\ attrs \in Attrs
    BY <1>5 DEF Transfer, AttrsInv
  <2>2. /\ attrs' \in Attrs /\ attrs'.size = attrs.size
        /\ attrs'.permissions = attrs.permissions
        /\ attrs'.uid = Sent(attrs.uid, attrs.gid) /\ attrs'.gid = Sent(attrs.gid, attrs.uid)
        /\ attrs'.atime = Sent(attrs.atime, attrs.mtime)
        /\ attrs'.mtime = Sent(attrs.mtime, attrs.atime)
    BY <2>1, SentAttrs, RoundTrip
  <2>3. /\ "uid" \in own => attrs.uid # None
        /\ "gid" \in own => attrs.gid # None
        /\ "atime" \in own => attrs.atime # None
        /\ "mtime" \in own => attrs.mtime # None
    BY FactsType, NoneApart DEF AttrsInv
  <2>4. /\ "uid" \in own => attrs'.uid = attrs.uid
        /\ "gid" \in own => attrs'.gid = attrs.gid
        /\ "atime" \in own => attrs'.atime = attrs.atime
        /\ "mtime" \in own => attrs'.mtime = attrs.mtime
    BY <2>2, <2>3 DEF Sent
  <2> QED
    BY <2>1, <2>2, <2>4 DEF AttrsInv
<1>6. CASE UNCHANGED vars
  BY <1>6 DEF vars, AttrsInv
<1> QED
  BY <1>1, <1>2, <1>3, <1>4, <1>5, <1>6 DEF Next

-----------------------------------------------------------------------------
(* What follows from the invariant *)

LEMMA KeptType == AttrsInv => TypeKept /\ ConvertedDir
<1> SUFFICES ASSUME AttrsInv, "type" \in own PROVE TypeKept /\ ConvertedDir
  BY DEF TypeKept, ConvertedDir
<1> DEFINE w == attrs.permissions
           old == file.mode \cap TypeBits
           new == w \cap TypeBits
<1>1. file \in Files /\ file.mode \in Word /\ w = Mode(file, src)
  BY FactsType DEF AttrsInv
<1>2. w # None /\ unwrap_or(w, {}) = w
  <2>1. w \in Word
    <3>1. CASE src = "metadata"
      <4>1. w = IF std_is_dir(file) THEN (file.mode \cup {14}) \ {15}
                ELSE (file.mode \ {14}) \cup {15}
        BY <1>1, <3>1, ConvertedMode DEF Mode
      <4> QED
        BY <1>1, <4>1, AttrsAssumption DEF Word
    <3>2. CASE src # "metadata"
      BY <1>1, <3>2 DEF Mode
    <3> QED
      BY <3>1, <3>2
  <2> QED
    BY <2>1, NoneApart DEF unwrap_or
<1>3. CASE src # "metadata"
  BY <1>1, <1>2, <1>3 DEF TypeKept, ConvertedDir, Mode, file_type
<1>4. CASE src = "metadata"
  <2>1. w = IF std_is_dir(file) THEN (file.mode \cup {14}) \ {15}
            ELSE (file.mode \ {14}) \cup {15}
    BY <1>1, <1>4, ConvertedMode DEF Mode
  <2>2. new = IF std_is_dir(file) THEN (old \cup {14}) \ {15} ELSE (old \ {14}) \cup {15}
    BY <2>1 DEF TypeBits
  <2>3. std_is_dir(file) <=> old = {14}
    BY DEF std_is_dir, FileMode
  <2>4. is_type(attrs, "DIR") <=> 14 \in new
    BY <1>2 DEF is_type, FileMode
  <2>5. file_type(attrs) = FileType(new)
    BY <1>2 DEF file_type
  <2> HIDE DEF old, new, w
  <2>6. ConvertedDir
    BY <2>2, <2>3, <2>4 DEF ConvertedDir
  <2>7. FileType(new) = FileType(old) \/ (FileType(new) # "Dir" /\ FileType(old) = "Other")
    <3>1. CASE old = {14}
      <4>1. new = {14}
        BY <2>2, <2>3, <3>1
      <4> QED
        BY <3>1, <4>1
    <3>2. CASE old = {15} \/ old = {13, 15}
      <4>1. new = old
        BY <2>2, <2>3, <3>2
      <4> QED
        BY <4>1
    <3>3. CASE old # {14} /\ old # {15} /\ old # {13, 15}
      <4>1. new # {14}
        BY <2>2, <2>3, <3>3
      <4> QED
        BY <3>3, <4>1 DEF FileType, FileMode
    <3> QED
      BY <3>1, <3>2, <3>3
  <2>8. TypeKept
    BY <1>4, <2>5, <2>7 DEF TypeKept, old
  <2> QED
    BY <2>6, <2>8
<1> QED
  BY <1>3, <1>4

LEMMA Divided ==
  ASSUME NEW d \in Nat \ {0}, NEW t \in Int
  PROVE  t = d * (t \div d) + (t % d)
OBVIOUS

LEMMA Multiple ==
  ASSUME NEW d \in Nat \ {0}, NEW k \in Int
  PROVE  (d * k) % d = 0
OBVIOUS

LEMMA Cut ==
  ASSUME NEW d \in Nat \ {0}, NEW t \in Int
  PROVE  /\ t % d \in 0 .. d - 1 /\ ((t % d) - t) % d = 0
         /\ t \in 0 .. d - 1 => t % d = t
<1> DEFINE k == 0 - (t \div d)
<1>1. k \in Int /\ (t % d) - t = d * k
  BY Divided
<1> HIDE DEF k
<1>2. ((t % d) - t) % d = 0
  BY <1>1, Multiple
<1>3. t % d \in 0 .. d - 1
  OBVIOUS
<1>4. t \in 0 .. d - 1 => t % d = t
  OBVIOUS
<1> QED
  BY <1>2, <1>3, <1>4

(* What the cast to u32 says of the time of a file. *)
LEMMA UnixSays ==
  ASSUME NEW t \in Int \cup {None}
  PROVE  SaysTime(unix(unwrap_or(t, 0)), t)
<1>1. U32 \in Nat \ {0} /\ None \notin Nat
  BY AttrsAssumption
<1>2. CASE t = None
  BY <1>1, <1>2, Cut DEF SaysTime, unix, unwrap_or
<1>3. CASE t # None
  <2>1. t \in Int /\ unix(unwrap_or(t, 0)) = t % U32
    BY <1>3 DEF unix, unwrap_or
  <2>2. PICK x : x = t % U32
    OBVIOUS
  <2>3. /\ x \in 0 .. U32 - 1 /\ (x - t) % U32 = 0
        /\ t \in 0 .. U32 - 1 => x = t
    BY <1>1, <2>1, <2>2, Cut
  <2> QED
    BY <1>3, <2>1, <2>2, <2>3 DEF SaysTime
<1> QED
  BY <1>2, <1>3

(* Whatever setters ran and however often it was sent, a field nobody       *)
(* assigned and the permission bits still say what the file has, a time     *)
(* exactly if it fits a u32, and else one off by a multiple of U32.         *)
THEOREM AttrsFaithful == Spec => []Faithful
<1>1. AttrsInv => Faithful
  <2> SUFFICES ASSUME AttrsInv PROVE Faithful
    OBVIOUS
  <2>1. \A f \in own \cap (Numbers \ Times) : attrs[f] = Facts(file)[f]
    BY DEF AttrsInv, Numbers, Times, Facts
  <2>2. ASSUME NEW f \in own \cap Times PROVE SaysTime(attrs[f], Facts(file)[f])
    <3>1. file \in Files
      BY <2>2 DEF AttrsInv
    <3>2. file.accessed \in Int \cup {None} /\ file.modified \in Int \cup {None}
      BY <3>1, AttrsAssumption
    <3>3. /\ SaysTime(unix(unwrap_or(file.accessed, 0)), file.accessed)
          /\ SaysTime(unix(unwrap_or(file.modified, 0)), file.modified)
      BY <3>2, UnixSays
    <3>4. CASE f = "atime"
      BY <2>2, <3>3, <3>4 DEF AttrsInv, Facts
    <3>5. CASE f = "mtime"
      BY <2>2, <3>3, <3>5 DEF AttrsInv, Facts
    <3> QED
      BY <3>4, <3>5 DEF Times
  <2>3. "permissions" \in own => permissions(attrs) = file.mode \cap FlagBits
    BY DEF AttrsInv, permissions, unwrap_or
  <2> QED
    BY <2>1, <2>2, <2>3 DEF Faithful
<1> QED
  BY <1>1, AttrsInit, AttrsNext, PTL DEF Spec

(* The type survives the wire, and From<&Metadata> keeps directories, files *)
(* and links, whatever bits the mode has besides.                           *)
THEOREM AttrsTypeKept == Spec => []TypeKept
  BY KeptType, AttrsInit, AttrsNext, PTL DEF Spec

(* is_dir is right for what From<&Metadata> made: BLK and SOCK contain the  *)
(* bits of DIR, but the conversion takes them away.                         *)
THEOREM AttrsConvertedDir == Spec => []ConvertedDir
  BY KeptType, AttrsInit, AttrsNext, PTL DEF Spec

(* Sending keeps what is there, adds nothing but the 0 of a half pair, and  *)
(* sending on changes nothing any more.                                     *)
THEOREM AttrsSentOnce == Spec => []SentOnce
<1>1. AttrsInv => SentOnce
  <2> SUFFICES ASSUME AttrsInv PROVE SentOnce
    OBVIOUS
  <2> DEFINE once == Deserialize(Serialize(attrs))
             again == Deserialize(Serialize(once))
  <2>1. attrs \in Attrs /\ once \in Attrs
    BY SentAttrs DEF AttrsInv
  <2>2. once = [size |-> attrs.size, uid |-> Sent(attrs.uid, attrs.gid), user |-> None,
                gid |-> Sent(attrs.gid, attrs.uid), group |-> None,
                permissions |-> attrs.permissions,
                atime |-> Sent(attrs.atime, attrs.mtime),
                mtime |-> Sent(attrs.mtime, attrs.atime)]
    BY <2>1, RoundTrip
  <2> HIDE DEF once
  <2>3. again = [size |-> once.size, uid |-> Sent(once.uid, once.gid), user |-> None,
                 gid |-> Sent(once.gid, once.uid), group |-> None,
                 permissions |-> once.permissions,
                 atime |-> Sent(once.atime, once.mtime),
                 mtime |-> Sent(once.mtime, once.atime)]
    BY <2>1, RoundTrip
  <2>4. \A x, y \in Nat \cup {None} : Sent(Sent(x, y), Sent(y, x)) = Sent(x, y)
    BY NoneApart DEF Sent
  <2>5. /\ attrs.uid \in Nat \cup {None} /\ attrs.gid \in Nat \cup {None}
        /\ attrs.atime \in Nat \cup {None} /\ attrs.mtime \in Nat \cup {None}
    BY <2>1 DEF Attrs
  <2>6. again = once
    BY <2>2, <2>3, <2>4, <2>5
  <2>7. \A x, y \in Nat \cup {None} :
          IF x # None THEN Sent(x, y) = x ELSE Sent(x, y) \in {None, 0}
    BY SentType
  <2>8. ASSUME NEW f \in OnWire
        PROVE  IF attrs[f] # None THEN once[f] = attrs[f]
               ELSE once[f] \in {None, 0}
                    /\ (once[f] = 0 => FlagOf[f] \in {"UIDGID", "ACMODTIME"})
    <3>1. f \in {"size", "permissions"} => once[f] = attrs[f]
      BY <2>2
    <3>2. f \in {"uid", "gid", "atime", "mtime"} =>
            /\ IF attrs[f] # None THEN once[f] = attrs[f] ELSE once[f] \in {None, 0}
            /\ FlagOf[f] \in {"UIDGID", "ACMODTIME"}
      BY <2>2, <2>5, <2>7 DEF FlagOf
    <3>3. f \in {"size", "permissions"} \/ f \in {"uid", "gid", "atime", "mtime"}
      BY DEF OnWire, FlagOf
    <3> QED
      BY <3>1, <3>2, <3>3, NoneApart
  <2> QED
    BY <2>6, <2>8 DEF SentOnce, once
<1> QED
  BY <1>1, AttrsInit, AttrsNext, PTL DEF Spec

(* The value and its history keep their types. *)
THEOREM AttrsTypeOK == Spec => []TypeOK
<1>1. AttrsInv => TypeOK
  <2> SUFFICES ASSUME AttrsInv PROVE TypeOK
    OBVIOUS
  <2>1. \A f \in Numbers : attrs[f] \in Nat \cup {None}
    BY DEF AttrsInv, Attrs, Numbers
  <2> QED
    BY <2>1 DEF AttrsInv, Attrs, TypeOK
<1> QED
  BY <1>1, AttrsInit, AttrsNext, PTL DEF Spec
=============================================================================
