---------------------------- MODULE MCRemoteFile ----------------------------
(* Instances of RemoteFile for TLC. *)
EXTENDS RemoteFile

(* The extremes of i64, for Half = 2. *)
MCOffsets == {-2, 1}
=============================================================================
