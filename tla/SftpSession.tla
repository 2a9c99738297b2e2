------------------------------ MODULE SftpSession ------------------------------
(***************************************************************************)
(* The high-level client (client/session.rs, client/fs/dir.rs): new_opts,   *)
(* which negotiates extensions and limits, and the methods of SftpSession   *)
(* that tasks call concurrently afterwards.                                 *)
(*                                                                          *)
(* Each request goes through RawSftpSession and comes back with an answer   *)
(* or an error (see RawSession: a call always returns).  read_dir, read and *)
(* write hold a handle of the server over several requests and may fail, or *)
(* be dropped, at each of them.  The server opens the handle in a step of   *)
(* its own, which may come after the call that asked for it is over.        *)
(***************************************************************************)
EXTENDS Naturals, Sequences, SequencesExt, Functions

CONSTANTS
  Tasks,        \* tasks that call methods of the session
  Listing,      \* external: the entries of a directory, in the server's order
  Content,      \* the bytes of a file: what read finds, what write is given
  Methods,      \* the methods they call
  Offers,       \* external: sets of extensions the server may announce
  MaxOpens,     \* bound: requests that ask the server to open something
  MaxEmpty      \* bound: Name packets without an entry

Extensions == {"hardlink", "fsync", "statvfs", "limits"}

(* The methods that make one request, with the raw call, and the extension  *)
(* they need.                                                               *)
OneRequest == [canonicalize |-> "realpath", create_dir |-> "mkdir",
               try_exists |-> "stat", metadata |-> "stat",
               read_link |-> "readlink", remove_dir |-> "rmdir",
               remove_file |-> "remove", rename |-> "rename",
               symlink |-> "symlink", set_metadata |-> "setstat",
               symlink_metadata |-> "lstat",
               hardlink |-> "hardlink", fs_info |-> "statvfs"]
Streaming  == {"read_dir", "read", "write"}

ASSUME SftpAssumption ==
  /\ Listing \in Seq(ToSet(Listing)) /\ IsInjective(Listing)
  /\ Content \in Seq(ToSet(Content)) /\ IsInjective(Content)
  /\ Methods \subseteq DOMAIN OneRequest \cup Streaming
  /\ Offers \subseteq SUBSET Extensions
  /\ MaxOpens \in Nat /\ MaxEmpty \in Nat

VARIABLES
  phase,      \* new_opts: "init", "limits"; then "ready" or "failed"
  offered,    \* external: the extensions the server announced in Version
  exts,       \* Extensions: the flags the client derived
  asked,      \* history: extended requests sent
  job,        \* per task: its call
  shown,      \* per task: what the ReadDir iterator has yielded
  calls,      \* per request to open: the method it is for, what the server
              \* made of it, and how the call ended
  rest,       \* per handle: what the server has not sent, or got, yet
  closes,     \* per handle: Close requests sent
  spawned,    \* handles whose Close a dropped File spawned, not sent yet
  empties     \* external: empty Name packets the server has sent

newVars == <<phase, offered, exts>>
handleVars == <<calls, rest, closes, spawned, empties>>
vars == <<newVars, asked, job, shown, handleVars>>

(* A handle is named by the request that asked for it. *)
Handles == 1 .. Len(calls)
Idle    == [at |-> "idle", method |-> "none", handle |-> 0, acc |-> <<>>]

Init ==
  /\ phase = "init" /\ offered = {} /\ exts = {} /\ asked = {}
  /\ job = [t \in Tasks |-> Idle] /\ shown = [t \in Tasks |-> <<>>]
  /\ calls = <<>> /\ rest = <<>> /\ closes = <<>> /\ spawned = {} /\ empties = 0

-----------------------------------------------------------------------------
(* new_opts *)

(* The Version packet came; limits is asked for before anything else.       *)
NewInit(offer) ==
  /\ phase = "init"
  /\ offered' = offer /\ exts' = offer \ {"limits"}
  /\ phase' = IF "limits" \in offer THEN "limits" ELSE "ready"
  /\ asked' = asked \cup ({"limits"} \cap offer)
  /\ UNCHANGED <<job, shown, handleVars>>

(* The limits came and are set; what they are is RawSession's concern.      *)
NewLimits ==
  /\ phase = "limits"
  /\ phase' = "ready" /\ exts' = exts \cup {"limits"}
  /\ UNCHANGED <<offered, asked, job, shown, handleVars>>

(* `?': the session is dropped. *)
NewFails ==
  /\ phase \in {"init", "limits"}
  /\ phase' = "failed"
  /\ UNCHANGED <<offered, exts, asked, job, shown, handleVars>>

-----------------------------------------------------------------------------
(* One request: sent unless the extension is missing (Ok(false), Ok(None)). *)
Sends_Always(m) == TRUE                                              \* fault
Sends(m) == OneRequest[m] \in Extensions => OneRequest[m] \in exts

CallOne(t, m) ==
  /\ phase = "ready" /\ job[t].at \in {"idle", "iterate"}
  /\ asked' = IF Sends(m) THEN asked \cup ({OneRequest[m]} \cap Extensions) ELSE asked
  /\ UNCHANGED <<newVars, job, shown, handleVars>>

-----------------------------------------------------------------------------
(* read_dir, read and write *)

(* The request to open is sent.  A ReadDir of an earlier call that is not   *)
(* exhausted is dropped.                                                    *)
Start(t, m) ==
  /\ phase = "ready" /\ job[t].at \in {"idle", "iterate"} /\ Len(calls) < MaxOpens
  /\ calls'  = Append(calls, [method |-> m, server |-> "asked", outcome |-> "running"])
  /\ closes' = Append(closes, 0)
  /\ rest'   = Append(rest, IF m = "read_dir" THEN Listing ELSE Content)
  /\ job' = [job EXCEPT ![t] = [at |-> "open", method |-> m,
                                handle |-> Len(calls) + 1, acc |-> <<>>]]
  /\ shown' = [shown EXCEPT ![t] = <<>>]
  /\ UNCHANGED <<newVars, asked, spawned, empties>>

(* The server opens, if the request reaches it and it has no objection, and *)
(* answers: whether anybody still waits for the handle it cannot know.      *)
ServerOpens(h) ==
  /\ calls[h].server = "asked"
  /\ calls' = [calls EXCEPT ![h].server = "open"]
  /\ UNCHANGED <<newVars, asked, job, shown, rest, closes, spawned, empties>>

(* The answer to opendir or open brings the call its handle. *)
OpenOk(t) ==
  /\ job[t].at = "open" /\ calls[job[t].handle].server = "open"
  /\ job' = [job EXCEPT ![t].at = "stream"]
  /\ UNCHANGED <<newVars, asked, shown, handleVars>>

(* One request for the handle succeeds with the next n items: read_dir puts *)
(* them in front of what it has, read_to_end behind, write_all goes on      *)
(* behind what the server took.                                             *)
Collect(m, piece, acc) == IF m = "read_dir" THEN piece \o acc ELSE acc \o piece

Piece(t, n) ==
  LET h == job[t].handle IN
  /\ job[t].at = "stream" /\ n \in 1 .. Len(rest[h])
  /\ job' = [job EXCEPT ![t].acc =
               Collect(job[t].method, SubSeq(rest[h], 1, n), job[t].acc)]
  /\ rest' = [rest EXCEPT ![h] = SubSeq(rest[h], n + 1, Len(rest[h]))]
  /\ UNCHANGED <<newVars, asked, shown, calls, closes, spawned, empties>>

(* A Name without an entry brings read_dir nothing, and its loop goes on.   *)
EmptyName(t) ==
  /\ job[t].at = "stream" /\ job[t].method = "read_dir"
  /\ empties < MaxEmpty /\ empties' = empties + 1
  /\ UNCHANGED <<newVars, asked, job, shown, calls, rest, closes, spawned>>

(* The File of read or write goes out of scope when the call is over, in    *)
(* whatever way, and spawns a Close, unless that is outside a runtime       *)
(* (try_current).  read_dir owns a bare handle, and a call that the handle  *)
(* has not reached owns nothing.                                            *)
Scope_Always(m, h, outcome) == {h}                                   \* fault
Scope_Manual(m, h, outcome) ==                                       \* fault
  IF m # "read_dir" /\ outcome = "Ok" THEN {h} ELSE {}
Scope(m, h, outcome) ==
  IF m # "read_dir" /\ outcome \notin {"Missed", "Outside"} THEN {h} ELSE {}

(* The call of t returns, or its future is dropped. *)
Over(t, outcome, keep) ==
  LET h  == job[t].handle
      by == IF job[t].at = "open" THEN "Missed" ELSE outcome
  IN
  /\ job' = [job EXCEPT ![t] = IF keep THEN [job[t] EXCEPT !.at = "iterate"] ELSE Idle]
  /\ calls' = [calls EXCEPT ![h].outcome = by]
  /\ spawned' = spawned \cup Scope(job[t].method, h, by)
  /\ UNCHANGED <<newVars, asked, shown, rest, empties>>

(* Eof, or all is written.  read_dir goes on to close, whose request is     *)
(* sent before it waits; the other two are done.                            *)
StreamEnd(t) ==
  LET h == job[t].handle IN
  /\ job[t].at = "stream" /\ rest[h] = <<>>
  /\ IF job[t].method = "read_dir"
     THEN /\ closes' = [closes EXCEPT ![h] = @ + 1]
          /\ job' = [job EXCEPT ![t].at = "close"]
          /\ UNCHANGED <<newVars, asked, shown, calls, rest, spawned, empties>>
     ELSE Over(t, "Ok", FALSE) /\ UNCHANGED closes

CloseOk(t) == job[t].at = "close" /\ Over(t, "Ok", TRUE) /\ UNCHANGED closes

(* A request fails or times out, and `?' or return leaves the method.       *)
Fails_Retry(t) ==                                                    \* fault
  /\ job[t].at \in {"open", "stream", "close"}
  /\ job' = [job EXCEPT ![t].at = "open"]
  /\ UNCHANGED <<newVars, asked, shown, handleVars>>
Fails(t) ==
  /\ job[t].at \in {"open", "stream", "close"}
  /\ Over(t, "Err", FALSE) /\ UNCHANGED closes

(* The future is dropped at an await, in a runtime or outside.  (A call that *)
(* returns is in one: its last request was made there, with its timer.)     *)
Cancel(t, outcome) ==
  /\ job[t].at \in {"open", "stream", "close"}
  /\ Over(t, outcome, FALSE) /\ UNCHANGED closes

(* The task that Drop of File spawned sends its Close. *)
SpawnedClose(h) ==
  /\ h \in spawned
  /\ spawned' = spawned \ {h} /\ closes' = [closes EXCEPT ![h] = @ + 1]
  /\ UNCHANGED <<newVars, asked, job, shown, calls, rest, empties>>

(* ReadDir::next: "." and ".." are passed over, however many there are.     *)
NotDot(name) == name \notin {".", ".."}
Following_Once(s) == IF Len(s) > 1 /\ ~NotDot(Head(s)) THEN 2 ELSE 1 \* fault
Following(s) == SelectInSeq(s, NotDot)   \* 0 if there is none

IterNext(t) ==
  LET s == job[t].acc
      i == Following(s)
  IN
  /\ job[t].at = "iterate"
  /\ IF i = 0 \/ s = <<>>
     THEN job' = [job EXCEPT ![t] = Idle] /\ UNCHANGED shown
     ELSE /\ job' = [job EXCEPT ![t].acc = SubSeq(s, i + 1, Len(s))]
          /\ shown' = [shown EXCEPT ![t] = Append(@, s[i])]
  /\ UNCHANGED <<newVars, asked, handleVars>>

-----------------------------------------------------------------------------
CallStep(t) ==
  \/ OpenOk(t) \/ EmptyName(t) \/ StreamEnd(t) \/ CloseOk(t) \/ Fails(t)
  \/ \E n \in 1 .. Len(Listing) + Len(Content) : Piece(t, n)

Next ==
  \/ \E offer \in Offers : NewInit(offer)
  \/ NewLimits \/ NewFails
  \/ \E t \in Tasks :
       \/ \E m \in Methods \cap DOMAIN OneRequest : CallOne(t, m)
       \/ \E m \in Methods \cap Streaming : Start(t, m)
       \/ \E outcome \in {"Cancelled", "Outside"} : Cancel(t, outcome)
       \/ CallStep(t) \/ IterNext(t)
  \/ \E h \in Handles : ServerOpens(h) \/ SpawnedClose(h)

Spec == Init /\ [][Next]_vars

(* Requests are answered or time out, and spawned tasks are run. *)
Fairness == /\ \A t \in Tasks : WF_vars(CallStep(t))
            /\ \A h \in 1 .. MaxOpens : WF_vars(h \in Handles /\ SpawnedClose(h))
FairSpec == Spec /\ Fairness

-----------------------------------------------------------------------------
(* Properties *)

(* read_dir turns the order of the server's batches round, but what the     *)
(* iterator yields in the end is the directory, each entry once and no dot. *)
ListingExact ==
  \A t \in Tasks : job[t].at = "iterate" =>
    LET all == shown[t] \o job[t].acc IN
    /\ IsInjective(all)
    /\ \A n \in ToSet(shown[t]) : NotDot(n)
    /\ {n \in ToSet(all) : NotDot(n)} = {n \in ToSet(Listing) : NotDot(n)}

(* Whatever fails and whenever: a handle is closed at most once, and never  *)
(* while its call still uses it.                                            *)
ClosedOnce ==
  \A h \in Handles :
    /\ closes[h] + (IF h \in spawned THEN 1 ELSE 0) <= 1
    /\ \A t \in Tasks : job[t].at = "stream" /\ job[t].handle = h =>
         closes[h] = 0 /\ h \notin spawned

(* A handle stays open at the server for good, once the call it was opened  *)
(* for is over, only when its answer did not reach the call in time, when   *)
(* read_dir did not succeed, or when the File was dropped outside a runtime.*)
(* On every other path of read, write and read_dir, a dropped future        *)
(* included, it is closed, or its Close has been spawned.                   *)
GivenBack ==
  \A h \in Handles :
    /\ calls[h].server = "open" /\ calls[h].outcome # "running"
    /\ closes[h] = 0 /\ h \notin spawned
    => \/ calls[h].outcome \in {"Missed", "Outside"}
       \/ calls[h].method = "read_dir" /\ calls[h].outcome # "Ok"

(* The server gets only extended requests it announced in its Version.      *)
AskedOnlyOffered == asked \subseteq offered

(* read_dir, read and write return in the end, however the server splits    *)
(* its answers and whatever fails, as long as it sends only so many empty   *)
(* Name packets: the loop of read_dir has no other way out than Eof.        *)
MethodsEnd ==
  \A t \in Tasks : job[t].at \in {"open", "stream", "close"} ~> job[t].at \in {"idle", "iterate"}

(* The handle that a read or write got is closed in the end, however the    *)
(* call ended inside the runtime.                                           *)
FilesClosed ==
  \A h \in 1 .. MaxOpens :
    (h \in Handles /\ calls[h].method # "read_dir"
                   /\ calls[h].outcome \in {"Ok", "Err", "Cancelled"})
      ~> (h \in Handles /\ closes[h] = 1)
=============================================================================
