---------------------------- MODULE MCFileMetadata ----------------------------
(* Files of every type, with and without a few permission and set-id bits;  *)
(* times before the epoch, after U32 seconds and unknown.                  *)
EXTENDS FileMetadata

MCFiles ==
  {[mode |-> FileMode[t] \cup bits, len |-> 7, uid |-> 5, gid |-> 6,
    accessed |-> time, modified |-> 4] :
     t \in Types, bits \in {{}, {7, 8}, {1, 4, 11}}, time \in {-1, U32 + 2, None}}
=============================================================================
