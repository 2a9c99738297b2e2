---------------------------- MODULE MCSftpSession ----------------------------
(* Instances of SftpSession for TLC. *)
EXTENDS SftpSession

(* A directory whose dots stand apart and together, over several batches.   *)
MCListing == <<"a", ".", "..", "b">>
MCContent == <<"x", "y">>

(* A server without extensions, and one with some; fs_info has none to use. *)
MCOffers == {{}, {"hardlink", "limits"}}
=============================================================================
