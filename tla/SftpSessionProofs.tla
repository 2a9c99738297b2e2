--------------------------- MODULE SftpSessionProofs ---------------------------
(* Theorems about SftpSession, for every number of tasks and handles and    *)
(* every directory and file.                                                *)
EXTENDS SftpSession, SequenceTheorems, WellFoundedInduction, TLAPS

-----------------------------------------------------------------------------
(* Extensions: the flags are part of what was announced, and nothing is     *)
(* asked for before the announcement.                                       *)

OfferInv ==
  /\ asked \subseteq offered /\ exts \subseteq offered
  /\ phase = "init" => asked = {}
  /\ phase = "limits" => "limits" \in offered

LEMMA OfferStep == OfferInv /\ [Next]_vars => OfferInv'
<1> SUFFICES ASSUME OfferInv, [Next]_vars PROVE OfferInv'
  OBVIOUS
<1> USE DEF OfferInv
<1>1. ASSUME NEW offer \in Offers, NewInit(offer) PROVE OfferInv'
  BY <1>1 DEF NewInit
<1>2. CASE NewLimits \/ NewFails
  BY <1>2 DEF NewLimits, NewFails
<1>3. ASSUME NEW t \in Tasks, NEW m \in Methods \cap DOMAIN OneRequest, CallOne(t, m)
      PROVE  OfferInv'
  <2>1. asked' \subseteq asked \cup exts /\ UNCHANGED <<phase, offered, exts>> /\ phase = "ready"
    BY <1>3 DEF CallOne, Sends, newVars
  <2> QED
    BY <2>1
<1>4. ASSUME UNCHANGED <<newVars, asked>> PROVE OfferInv'
  BY <1>4 DEF newVars
<1>5. ASSUME NEW t \in Tasks,
             \/ \E m \in Methods \cap Streaming : Start(t, m)
             \/ \E outcome \in {"Cancelled", "Outside"} : Cancel(t, outcome)
             \/ CallStep(t) \/ IterNext(t)
      PROVE  OfferInv'
  <2>1. UNCHANGED <<newVars, asked>>
    BY <1>5 DEF Start, CallStep, OpenOk, EmptyName, StreamEnd, CloseOk, Fails, Piece,
       Cancel, IterNext, Over
  <2> QED
    BY <1>4, <2>1
<1>6. ASSUME NEW h \in Handles, ServerOpens(h) \/ SpawnedClose(h) PROVE OfferInv'
  BY <1>4, <1>6 DEF ServerOpens, SpawnedClose
<1>7. CASE UNCHANGED vars
  BY <1>4, <1>7 DEF vars
<1> QED
  BY <1>1, <1>2, <1>3, <1>5, <1>6, <1>7 DEF Next

(* hardlink, fsync, statvfs and limits go only to a server that announced   *)
(* them, whatever part of new_opts failed.                                  *)
THEOREM OnlyOfferedAsked == Spec => []AskedOnlyOffered
<1>1. Init => OfferInv
  BY DEF Init, OfferInv
<1>2. OfferInv => AskedOnlyOffered
  BY DEF OfferInv, AskedOnlyOffered
<1> QED
  BY <1>1, <1>2, OfferStep, PTL DEF Spec

-----------------------------------------------------------------------------
(* Handles.  A handle belongs to one call as long as that call uses it, is  *)
(* not given back before, and by the end of the call has been.              *)

Places == {"idle", "open", "stream", "close", "iterate"}
Ends   == {"running", "Ok", "Err", "Cancelled", "Outside", "Missed"}
Calls  == [method : Streaming, server : {"asked", "open"}, outcome : Ends]
Uses(t) == job[t].at \in {"open", "stream", "close"}

IsJob(r) == /\ r = [at |-> r.at, method |-> r.method, handle |-> r.handle, acc |-> r.acc]
            /\ r.at \in Places /\ r.handle \in Nat
Shapes ==
  /\ DOMAIN job = Tasks /\ job = [t \in Tasks |-> job[t]]
  /\ \A t \in Tasks : IsJob(job[t])
  /\ calls \in Seq(Calls)
  /\ closes \in Seq(Nat) /\ Len(closes) = Len(calls)
  /\ spawned \subseteq Handles

JobOK(t) ==
  LET h == job[t].handle IN
  /\ job[t].at = "idle" => h = 0
  /\ Uses(t) => h \in Handles /\ calls[h].method = job[t].method /\ h \notin spawned
  /\ job[t].at \in {"open", "stream"} => closes[h] = 0
  /\ job[t].at = "close" => closes[h] = 1 /\ job[t].method = "read_dir"
Owned == \A s, t \in Tasks : Uses(s) /\ Uses(t) /\ job[s].handle = job[t].handle => s = t
HandleOK(h) ==
  /\ closes[h] \in {0, 1} /\ (h \in spawned => closes[h] = 0)
  /\ \/ calls[h].outcome \in {"running", "Missed", "Outside"}
     \/ calls[h].method = "read_dir" /\ calls[h].outcome # "Ok"
     \/ closes[h] = 1 \/ h \in spawned
HandleInv == /\ Shapes /\ Owned
             /\ \A t \in Tasks : JobOK(t)
             /\ \A h \in Handles : HandleOK(h)

LEMMA HandleInit == Init => HandleInv
BY DEF Init, HandleInv, Shapes, Owned, JobOK, HandleOK, Uses, Handles, Idle, IsJob, Places

LEMMA Record ==
  ASSUME NEW a \in Places, NEW m, NEW h \in Nat, NEW x
  PROVE  LET r == [at |-> a, method |-> m, handle |-> h, acc |-> x]
         IN  IsJob(r) /\ r.at = a /\ r.method = m /\ r.handle = h
BY DEF IsJob

(* A step of one task that leaves the handles alone. *)
LEMMA JobStep ==
  ASSUME HandleInv, NEW t \in Tasks, NEW r, job' = [job EXCEPT ![t] = r], IsJob(r),
         UNCHANGED <<calls, closes, spawned>>, JobOK(t)',
         Uses(t)' => Uses(t) /\ r.handle = job[t].handle
  PROVE  HandleInv'
<1>1. DOMAIN job = Tasks /\ job'[t] = r /\ \A s \in Tasks \ {t} : job'[s] = job[s]
  BY DEF HandleInv, Shapes
<1>2. Shapes'
  BY <1>1 DEF HandleInv, Shapes, Handles, IsJob
<1>3. \A s \in Tasks : JobOK(s)'
  BY <1>1 DEF HandleInv, JobOK, Uses, Handles
<1>4. Owned'
  BY <1>1 DEF HandleInv, Owned, Uses
<1>5. \A h \in Handles' : HandleOK(h)'
  BY DEF HandleInv, HandleOK, Handles
<1> QED
  BY <1>2, <1>3, <1>4, <1>5 DEF HandleInv

LEMMA PieceInv ==
  ASSUME HandleInv, NEW t \in Tasks, NEW n, Piece(t, n)
  PROVE  HandleInv'
<1> DEFINE acc == Collect(job[t].method, SubSeq(rest[job[t].handle], 1, n), job[t].acc)
           r == [job[t] EXCEPT !.acc = acc]
<1>1. IsJob(job[t])
  BY DEF HandleInv, Shapes
<1>2. UNCHANGED <<calls, closes, spawned>> /\ job' = [job EXCEPT ![t] = r]
      /\ job[t].at = "stream"
  BY DEF Piece
<1> HIDE DEF acc
<1>3. IsJob(r) /\ r.at = job[t].at /\ r.handle = job[t].handle /\ r.method = job[t].method
  BY <1>1 DEF IsJob
<1> HIDE DEF r
<1>4. job'[t] = r
  BY <1>2 DEF HandleInv, Shapes
<1>5. JobOK(t)' /\ (Uses(t)' => Uses(t))
  BY <1>2, <1>3, <1>4 DEF HandleInv, JobOK, Uses, Handles
<1> QED
  BY <1>2, <1>3, <1>5, JobStep

LEMMA IterNextInv ==
  ASSUME HandleInv, NEW t \in Tasks, IterNext(t)
  PROVE  HandleInv'
<1>1. PICK r : /\ job' = [job EXCEPT ![t] = r] /\ IsJob(r)
               /\ r.at = "iterate" \/ (r.at = "idle" /\ r.handle = 0)
  <2>1. IsJob(job[t]) /\ job[t].at = "iterate"
    BY DEF HandleInv, Shapes, IterNext
  <2>2. CASE job' = [job EXCEPT ![t] = Idle]
    <3>1. IsJob(Idle) /\ Idle.at = "idle" /\ Idle.handle = 0
      BY Record DEF Idle, Places
    <3> QED
      BY <2>2, <3>1
  <2>3. ASSUME NEW x, job' = [job EXCEPT ![t].acc = x]
        PROVE  \E r : /\ job' = [job EXCEPT ![t] = r] /\ IsJob(r) /\ r.at = "iterate"
    <3>1. job' = [job EXCEPT ![t] = [job[t] EXCEPT !.acc = x]]
      BY <2>3
    <3>2. IsJob([job[t] EXCEPT !.acc = x]) /\ [job[t] EXCEPT !.acc = x].at = "iterate"
      BY <2>1 DEF IsJob
    <3> QED
      BY <3>1, <3>2
  <2> QED
    BY <2>2, <2>3 DEF IterNext
<1>2. job'[t] = r /\ UNCHANGED <<calls, closes, spawned>>
  BY <1>1 DEF HandleInv, Shapes, IterNext, handleVars
<1>3. JobOK(t)' /\ ~Uses(t)'
  BY <1>1, <1>2 DEF JobOK, Uses
<1> QED
  BY <1>1, <1>2, <1>3, JobStep

(* A handle of its own for the call. *)
LEMMA StartInv ==
  ASSUME HandleInv, NEW t \in Tasks, NEW m \in Streaming, Start(t, m)
  PROVE  HandleInv'
<1> DEFINE n == Len(calls) + 1
           c == [method |-> m, server |-> "asked", outcome |-> "running"]
<1>1. IsJob(job[t]) /\ ~Uses(t)
  BY DEF HandleInv, Shapes, Start, Uses
<1>2. c \in Calls /\ c.method = m /\ c.outcome = "running"
  BY DEF Calls, Ends
<1>3. /\ calls' = Append(calls, c) /\ closes' = Append(closes, 0) /\ UNCHANGED spawned
      /\ calls \in Seq(Calls) /\ closes \in Seq(Nat)
      /\ Len(closes) = Len(calls) /\ Len(calls) \in Nat /\ spawned \subseteq Handles
  BY DEF HandleInv, Shapes, Start
<1> HIDE DEF c
<1>4. /\ calls' \in Seq(Calls) /\ Len(calls') = n
      /\ calls'[n] = c /\ \A h \in Handles : calls'[h] = calls[h]
  BY <1>2, <1>3, AppendProperties DEF Handles
<1>5. /\ closes' \in Seq(Nat) /\ Len(closes') = n
      /\ closes'[n] = 0 /\ \A h \in Handles : closes'[h] = closes[h]
  BY <1>3, AppendProperties DEF Handles
<1>6. n \in Nat /\ n \notin Handles /\ Handles' = Handles \cup {n}
  BY <1>3, <1>4 DEF Handles
<1>7. /\ IsJob(job'[t]) /\ job'[t].at = "open" /\ job'[t].handle = n
      /\ job'[t].method = m /\ \A s \in Tasks \ {t} : job'[s] = job[s]
      /\ DOMAIN job' = Tasks /\ job' = [s \in Tasks |-> job'[s]]
  <2> DEFINE r == [at |-> "open", method |-> m, handle |-> n, acc |-> <<>>]
  <2>1. job' = [job EXCEPT ![t] = r]
    BY DEF Start
  <2>2. IsJob(r) /\ r.at = "open" /\ r.handle = n /\ r.method = m
    BY <1>6, Record DEF Places
  <2> HIDE DEF r
  <2> QED
    BY <2>1, <2>2 DEF HandleInv, Shapes
<1> HIDE DEF n
<1>8. Shapes'
  <2>1. \A s \in Tasks : IsJob(job'[s])
    BY <1>7 DEF HandleInv, Shapes
  <2> QED
    BY <1>3, <1>4, <1>5, <1>6, <1>7, <2>1 DEF Shapes, IsJob
<1>9. \A s \in Tasks : JobOK(s)'
  <2> SUFFICES ASSUME NEW s \in Tasks PROVE JobOK(s)'
    OBVIOUS
  <2>1. CASE s = t
    BY <1>2, <1>3, <1>4, <1>5, <1>6, <1>7, <2>1 DEF JobOK, Uses
  <2>2. CASE s # t
    <3>1. JobOK(s) /\ job'[s] = job[s]
      BY <1>7, <2>2 DEF HandleInv
    <3>2. Uses(s) => /\ job[s].handle \in Handles'
                     /\ calls'[job[s].handle] = calls[job[s].handle]
                     /\ closes'[job[s].handle] = closes[job[s].handle]
      BY <1>4, <1>5, <1>6, <3>1 DEF JobOK
    <3> QED
      BY <1>3, <3>1, <3>2 DEF JobOK, Uses
  <2> QED
    BY <2>1, <2>2
<1>10. Owned'
  <2>1. \A s \in Tasks \ {t} : Uses(s)' => Uses(s) /\ job'[s].handle \in Handles
    BY <1>7 DEF HandleInv, JobOK, Uses
  <2> QED
    BY <1>6, <1>7, <2>1 DEF HandleInv, Owned, Uses
<1>11. \A h \in Handles' : HandleOK(h)'
  BY <1>2, <1>3, <1>4, <1>5, <1>6 DEF HandleInv, HandleOK
<1> QED
  BY <1>8, <1>9, <1>10, <1>11 DEF HandleInv

(* The answer is there: the call goes on with its handle. *)
LEMMA OpenOkInv ==
  ASSUME HandleInv, NEW t \in Tasks, OpenOk(t)
  PROVE  HandleInv'
<1> DEFINE r == [job[t] EXCEPT !.at = "stream"]
<1>1. IsJob(job[t]) /\ JobOK(t) /\ job[t].at = "open"
  BY DEF HandleInv, Shapes, OpenOk
<1>2. job' = [job EXCEPT ![t] = r] /\ UNCHANGED <<calls, closes, spawned>>
  BY DEF OpenOk, handleVars
<1>3. IsJob(r) /\ r.at = "stream" /\ r.handle = job[t].handle /\ r.method = job[t].method
  BY <1>1 DEF IsJob, Places
<1> HIDE DEF r
<1>4. job'[t] = r
  BY <1>2 DEF HandleInv, Shapes
<1>5. JobOK(t)' /\ Uses(t)
  BY <1>1, <1>2, <1>3, <1>4 DEF JobOK, Uses, Handles
<1> QED
  BY <1>2, <1>3, <1>5, JobStep

(* The server opens, whether or not the call is still there. *)
LEMMA ServerOpensInv ==
  ASSUME HandleInv, NEW g \in Handles, ServerOpens(g)
  PROVE  HandleInv'
<1> DEFINE c == [calls[g] EXCEPT !.server = "open"]
<1>1. calls[g] \in Calls
  BY ElementOfSeq DEF HandleInv, Shapes, Handles
<1>2. c \in Calls /\ c.method = calls[g].method /\ c.outcome = calls[g].outcome
  BY <1>1 DEF Calls
<1>3. calls' = [calls EXCEPT ![g] = c] /\ UNCHANGED <<job, closes, spawned>>
  BY DEF ServerOpens
<1> HIDE DEF c
<1>4. /\ calls' \in Seq(Calls) /\ Len(calls') = Len(calls)
      /\ \A h \in Handles : /\ calls'[h].method = calls[h].method
                           /\ calls'[h].outcome = calls[h].outcome
  BY <1>2, <1>3, ExceptSeq DEF HandleInv, Shapes, Handles
<1>5. Handles' = Handles
  BY <1>4 DEF Handles
<1>6. Shapes' /\ Owned'
  BY <1>3, <1>4, <1>5 DEF HandleInv, Shapes, Owned, Uses, IsJob
<1>7. \A t \in Tasks : JobOK(t)'
  BY <1>3, <1>4, <1>5 DEF HandleInv, JobOK, Uses
<1>8. \A h \in Handles' : HandleOK(h)'
  BY <1>3, <1>4, <1>5 DEF HandleInv, HandleOK
<1> QED
  BY <1>6, <1>7, <1>8 DEF HandleInv

(* read_dir at Eof: the Close is sent before it is waited for. *)
LEMMA DirEndInv ==
  ASSUME HandleInv, NEW t \in Tasks, StreamEnd(t), job[t].method = "read_dir"
  PROVE  HandleInv'
<1> DEFINE g == job[t].handle
<1>1. IsJob(job[t]) /\ job[t].at = "stream" /\ g \in Handles /\ closes[g] = 0
      /\ g \notin spawned
  BY DEF HandleInv, Shapes, StreamEnd, JobOK, Uses
<1>2. closes' = [closes EXCEPT ![g] = @ + 1] /\ UNCHANGED <<calls, spawned>>
      /\ job' = [job EXCEPT ![t] = [job[t] EXCEPT !.at = "close"]]
  BY DEF StreamEnd, HandleInv, Shapes
<1>3. LET r == [job[t] EXCEPT !.at = "close"]
      IN  IsJob(r) /\ r.at = "close" /\ r.handle = g /\ r.method = "read_dir"
  BY <1>1 DEF IsJob, Places
<1>4. /\ IsJob(job'[t]) /\ job'[t].at = "close" /\ job'[t].handle = g
      /\ job'[t].method = "read_dir" /\ \A s \in Tasks \ {t} : job'[s] = job[s]
      /\ DOMAIN job' = Tasks /\ job' = [s \in Tasks |-> job'[s]]
  BY <1>2, <1>3 DEF HandleInv, Shapes
<1>5. /\ closes' \in Seq(Nat) /\ Len(closes') = Len(closes) /\ closes'[g] = 1
      /\ \A h \in Handles \ {g} : closes'[h] = closes[h]
  BY <1>1, <1>2, ExceptSeq DEF HandleInv, Shapes, Handles
<1>6. Handles' = Handles
  BY <1>2 DEF Handles
<1> HIDE DEF g
<1>7. Shapes'
  <2>1. \A s \in Tasks : IsJob(job'[s])
    BY <1>4 DEF HandleInv, Shapes
  <2> QED
    BY <1>2, <1>4, <1>5, <1>6, <2>1 DEF HandleInv, Shapes, IsJob
<1>8. \A s \in Tasks \ {t} : Uses(s) => job[s].handle # g
  BY <1>1 DEF HandleInv, Owned, Uses, g
<1>9. \A s \in Tasks : JobOK(s)'
  <2> SUFFICES ASSUME NEW s \in Tasks PROVE JobOK(s)'
    OBVIOUS
  <2>1. CASE s = t
    <3>1. calls[g].method = "read_dir"
      BY <1>1 DEF HandleInv, JobOK, Uses, g
    <3> QED
      BY <1>1, <1>2, <1>4, <1>5, <1>6, <2>1, <3>1 DEF JobOK, Uses
  <2>2. CASE s # t
    BY <1>2, <1>4, <1>5, <1>6, <1>8, <2>2 DEF HandleInv, JobOK, Uses
  <2> QED
    BY <2>1, <2>2
<1>10. Owned'
  BY <1>1, <1>4 DEF HandleInv, Owned, Uses, g
<1>11. \A h \in Handles' : HandleOK(h)'
  BY <1>1, <1>2, <1>5, <1>6 DEF HandleInv, HandleOK
<1> QED
  BY <1>7, <1>9, <1>10, <1>11 DEF HandleInv

(* The call is over: the Drop of a File spawns the Close. *)
LEMMA OverInv ==
  ASSUME HandleInv, NEW t \in Tasks, job[t].at \in {"open", "stream", "close"},
         NEW outcome \in Ends \ {"running"}, NEW keep \in BOOLEAN,
         Over(t, outcome, keep), UNCHANGED closes,
         outcome = "Ok" => job[t].at = "close" \/ job[t].method # "read_dir",
         outcome # "Missed",
         keep => job[t].at = "close"
  PROVE  HandleInv'
<1> DEFINE g == job[t].handle
<1>1. IsJob(job[t]) /\ JobOK(t)
  BY DEF HandleInv, Shapes
<1>2. PICK r : /\ job' = [job EXCEPT ![t] = r] /\ IsJob(r)
               /\ r.at = "iterate" \/ (r.at = "idle" /\ r.handle = 0)
  <2>1. IsJob(Idle) /\ Idle.at = "idle" /\ Idle.handle = 0
    BY Record DEF Idle, Places
  <2>2. [job[t] EXCEPT !.at = "iterate"] =
          [at |-> "iterate", method |-> job[t].method, handle |-> g, acc |-> job[t].acc]
    BY <1>1 DEF IsJob
  <2>3. IsJob([job[t] EXCEPT !.at = "iterate"])
        /\ [job[t] EXCEPT !.at = "iterate"].at = "iterate"
    BY <1>1, <2>2, Record DEF Places, IsJob
  <2> QED
    BY <2>1, <2>3 DEF Over
<1>3. /\ DOMAIN job' = Tasks /\ job' = [s \in Tasks |-> job'[s]]
      /\ job'[t] = r /\ \A s \in Tasks \ {t} : job'[s] = job[s]
  BY <1>2 DEF HandleInv, Shapes
<1>4. ~Uses(t)' /\ JobOK(t)'
  BY <1>2, <1>3 DEF Uses, JobOK
<1>10. PICK by \in Ends : by = IF job[t].at = "open" THEN "Missed" ELSE outcome
  BY DEF Ends
<1>11. Uses(t) /\ g \in Handles /\ g \notin spawned /\ calls[g].method = job[t].method
  BY <1>1 DEF JobOK, Uses
<1>12. /\ calls' = [calls EXCEPT ![g] = [calls[g] EXCEPT !.outcome = by]]
       /\ spawned' = spawned \cup Scope(job[t].method, g, by)
  BY <1>10, <1>11 DEF Over, HandleInv, Shapes, Handles
<1>13. LET c == [calls[g] EXCEPT !.outcome = by]
       IN  c \in Calls /\ c.method = calls[g].method /\ c.outcome = by
  <2>1. calls[g] \in Calls
    BY <1>11, ElementOfSeq DEF HandleInv, Shapes, Handles
  <2> QED
    BY <2>1 DEF Calls
<1>14. /\ calls' \in Seq(Calls) /\ Len(calls') = Len(calls)
       /\ calls'[g].method = calls[g].method /\ calls'[g].outcome = by
       /\ \A h \in Handles \ {g} : calls'[h] = calls[h]
  BY <1>11, <1>12, <1>13, ExceptSeq DEF HandleInv, Shapes, Handles
<1>15. Handles' = Handles
  BY <1>14 DEF Handles
<1>16. spawned' = IF job[t].method # "read_dir" /\ by \notin {"Missed", "Outside"}
                   THEN spawned \cup {g} ELSE spawned
  BY <1>12 DEF Scope
<1> HIDE DEF g
<1>17. Shapes'
  <2>1. \A s \in Tasks : IsJob(job'[s])
    BY <1>2, <1>3 DEF HandleInv, Shapes
  <2>2. spawned' \subseteq Handles'
    BY <1>11, <1>15, <1>16 DEF HandleInv, Shapes
  <2> QED
    BY <1>3, <1>14, <2>1, <2>2 DEF HandleInv, Shapes, IsJob
<1>18. \A s \in Tasks : JobOK(s)'
  <2> SUFFICES ASSUME NEW s \in Tasks, s # t PROVE JobOK(s)'
    BY <1>4
  <2>1. JobOK(s) /\ job'[s] = job[s] /\ (Uses(s) => job[s].handle # g)
    BY <1>3, <1>11 DEF HandleInv, Owned, g
  <2>2. Uses(s) => /\ job[s].handle \in Handles' /\ job[s].handle \notin spawned'
                   /\ calls'[job[s].handle] = calls[job[s].handle]
    BY <1>14, <1>15, <1>16, <2>1 DEF JobOK
  <2> QED
    BY <2>1, <2>2 DEF JobOK, Uses
<1>19. Owned'
  BY <1>3, <1>4 DEF HandleInv, Owned, Uses
<1>20. \A h \in Handles' : HandleOK(h)'
  <2> SUFFICES ASSUME NEW h \in Handles PROVE HandleOK(h)'
    BY <1>15
  <2>1. CASE h # g
    BY <1>14, <1>16, <2>1 DEF HandleInv, HandleOK
  <2>2. CASE h = g
    <3>1. \/ closes[g] = 0 /\ job[t].at \in {"open", "stream"}
          \/ closes[g] = 1 /\ job[t].method = "read_dir"
      BY <1>1, <1>11 DEF JobOK, Uses, g
    <3>2. \/ by \in {"Missed", "Outside"}
          \/ job[t].method # "read_dir"
          \/ by # "Ok"
          \/ closes[g] = 1
      BY <1>1, <1>10 DEF JobOK, g
    <3>3. calls'[g].method = job[t].method /\ calls'[g].outcome = by
      BY <1>11, <1>14
    <3> QED
      BY <1>11, <1>16, <2>2, <3>1, <3>2, <3>3 DEF HandleOK
  <2> QED
    BY <2>1, <2>2
<1> QED
  BY <1>17, <1>18, <1>19, <1>20 DEF HandleInv

(* The spawned task sends its Close. *)
LEMMA SpawnedCloseInv ==
  ASSUME HandleInv, NEW g \in Handles, SpawnedClose(g)
  PROVE  HandleInv'
<1>1. /\ UNCHANGED <<job, calls>> /\ g \in spawned /\ spawned' = spawned \ {g}
      /\ closes' = [closes EXCEPT ![g] = @ + 1] /\ closes[g] = 0
  BY DEF SpawnedClose, HandleInv, HandleOK
<1>2. /\ closes' \in Seq(Nat) /\ Len(closes') = Len(closes) /\ closes'[g] = 1
      /\ \A h \in Handles \ {g} : closes'[h] = closes[h]
  BY <1>1, ExceptSeq DEF HandleInv, Shapes, Handles
<1>3. Handles' = Handles
  BY <1>1 DEF Handles
<1>4. Shapes' /\ Owned'
  BY <1>1, <1>2, <1>3 DEF HandleInv, Shapes, Owned, Uses, IsJob
<1>5. \A t \in Tasks : JobOK(t)'
  <2> SUFFICES ASSUME NEW t \in Tasks PROVE JobOK(t)'
    OBVIOUS
  <2>1. JobOK(t) /\ (Uses(t) => job[t].handle # g)
    BY <1>1 DEF HandleInv, JobOK
  <2>2. Uses(t) => closes'[job[t].handle] = closes[job[t].handle]
    BY <1>2, <2>1 DEF JobOK
  <2> QED
    BY <1>1, <1>3, <2>1, <2>2 DEF JobOK, Uses
<1>6. \A h \in Handles' : HandleOK(h)'
  BY <1>1, <1>2, <1>3 DEF HandleInv, HandleOK
<1> QED
  BY <1>4, <1>5, <1>6 DEF HandleInv

LEMMA HandleNext == HandleInv /\ [Next]_vars => HandleInv'
<1> SUFFICES ASSUME HandleInv, [Next]_vars PROVE HandleInv'
  OBVIOUS
<1>1. ASSUME UNCHANGED <<job, calls, closes, spawned>> PROVE HandleInv'
  BY <1>1 DEF HandleInv, Shapes, Owned, JobOK, HandleOK, Uses, Handles, IsJob
<1>2. ASSUME NEW offer \in Offers, NewInit(offer) PROVE HandleInv'
  BY <1>1, <1>2 DEF NewInit, handleVars
<1>3. CASE NewLimits \/ NewFails \/ UNCHANGED vars
  BY <1>1, <1>3 DEF NewLimits, NewFails, vars, handleVars
<1>4. ASSUME NEW t \in Tasks, NEW m, CallOne(t, m) \/ EmptyName(t) PROVE HandleInv'
  BY <1>1, <1>4 DEF CallOne, EmptyName, handleVars
<1>5. ASSUME NEW t \in Tasks, NEW m \in Methods \cap Streaming, Start(t, m) PROVE HandleInv'
  BY <1>5, StartInv
<1>6. ASSUME NEW t \in Tasks, OpenOk(t) \/ IterNext(t) PROVE HandleInv'
  BY <1>6, OpenOkInv, IterNextInv
<1>7. ASSUME NEW t \in Tasks, NEW n, Piece(t, n) PROVE HandleInv'
  BY <1>7, PieceInv
<1>8. ASSUME NEW t \in Tasks, StreamEnd(t) PROVE HandleInv'
  <2>1. CASE job[t].method = "read_dir"
    BY <1>8, <2>1, DirEndInv
  <2>2. CASE job[t].method # "read_dir"
    <3>1. job[t].at = "stream" /\ Over(t, "Ok", FALSE) /\ UNCHANGED closes
      BY <1>8, <2>2 DEF StreamEnd
    <3> QED
      BY <2>2, <3>1, OverInv DEF Ends
  <2> QED
    BY <2>1, <2>2
<1>9. ASSUME NEW t \in Tasks, CloseOk(t) PROVE HandleInv'
  BY <1>9, OverInv DEF CloseOk, Ends
<1>10. ASSUME NEW t \in Tasks, NEW outcome \in {"Cancelled", "Outside"},
              Fails(t) \/ Cancel(t, outcome)
       PROVE  HandleInv'
  BY <1>10, OverInv DEF Fails, Cancel, Ends
<1>11. ASSUME NEW h \in Handles, ServerOpens(h) \/ SpawnedClose(h) PROVE HandleInv'
  BY <1>11, ServerOpensInv, SpawnedCloseInv
<1> QED
  BY <1>2, <1>3, <1>4, <1>5, <1>6, <1>7, <1>8, <1>9, <1>10, <1>11 DEF Next, CallStep

(* Whatever requests fail and whichever futures are dropped, a handle is    *)
(* closed at most once and not while a call uses it: the explicit close of  *)
(* read_dir and the one Drop of File spawns never meet.                     *)
THEOREM HandlesClosedOnce == Spec => []ClosedOnce
<1>1. HandleInv => ClosedOnce
  <2> SUFFICES ASSUME HandleInv, NEW h \in Handles
               PROVE  /\ closes[h] + (IF h \in spawned THEN 1 ELSE 0) <= 1
                      /\ \A t \in Tasks : job[t].at = "stream" /\ job[t].handle = h =>
                           closes[h] = 0 /\ h \notin spawned
    BY DEF ClosedOnce
  <2> QED
    BY DEF HandleInv, HandleOK, JobOK, Uses
<1> QED
  BY <1>1, HandleInit, HandleNext, PTL DEF Spec

(* A handle leaks at the server only with a call its answer did not reach,  *)
(* with a read_dir that did not succeed, or with a File dropped outside a   *)
(* runtime; in every other end of a call it has been given back.            *)
THEOREM HandlesGivenBack == Spec => []GivenBack
<1>1. HandleInv => GivenBack
  BY DEF HandleInv, HandleOK, GivenBack
<1> QED
  BY <1>1, HandleInit, HandleNext, PTL DEF Spec

-----------------------------------------------------------------------------
(* The listing.  While read_dir collects, what it has and what the server   *)
(* still holds are the directory cut in two; when it iterates, what is      *)
(* shown and what is left are, but for the dots that were passed over.      *)

Entries == ToSet(Listing)
Items   == Entries \cup ToSet(Content)

Apart(a, b) ==
  /\ IsInjective(a) /\ IsInjective(b) /\ ToSet(a) \cap ToSet(b) = {}
  /\ ToSet(a) \cup ToSet(b) \subseteq Entries
Parts(a, b) == a \in Seq(Entries) /\ b \in Seq(Entries) /\ Apart(a, b)
               /\ Entries \subseteq ToSet(a) \cup ToSet(b)
Remains(a, b) ==
  /\ a \in Seq(Entries) /\ b \in Seq(Entries) /\ Apart(a, b)
  /\ \A n \in ToSet(a) : NotDot(n)
  /\ \A n \in Entries : NotDot(n) => n \in ToSet(a) \cup ToSet(b)

DirOK(t) ==
  LET h == job[t].handle IN
  /\ job[t].at \in {"open", "stream", "close"} => shown[t] = <<>>
  /\ Uses(t) /\ job[t].method = "read_dir" => Parts(job[t].acc, rest[h])
  /\ job[t].at = "close" => rest[h] = <<>>
  /\ job[t].at = "iterate" => Remains(shown[t], job[t].acc)
ListInv ==
  /\ rest \in Seq(Seq(Items)) /\ Len(rest) = Len(calls)
  /\ shown = [t \in Tasks |-> shown[t]]
  /\ \A t \in Tasks : DirOK(t)

(* A set of natural numbers has a least element. *)
LEMMA LeastIndex ==
  ASSUME NEW I \in SUBSET Nat, I # {}
  PROVE  Min(I) \in I /\ \A j \in I : Min(I) <= j
<1> DEFINE R == {ss \in Nat \X Nat : ss[1] < ss[2]}
<1>1. IsWellFoundedOn(R, Nat)
  BY NatLessThanWellFounded, Zenon DEF OpToRel
<1> HIDE DEF R
<1>2. PICK x \in I : \A y \in I : ~(<<y, x>> \in R)
  BY <1>1, WFMin
<1>3. ASSUME NEW y \in I PROVE x <= y
  <2>1. x \in Nat /\ y \in Nat /\ ~(<<y, x>> \in R)
    BY <1>2
  <2>2. ~(y < x)
    BY <2>1 DEF R
  <2> QED
    BY <2>1, <2>2
<1> QED
  BY <1>3 DEF Min

(* ReadDir::next takes the first entry that is not a dot. *)
LEMMA FollowingIs ==
  ASSUME NEW S, NEW s \in Seq(S)
  PROVE  \/ Following(s) = 0
         \/ /\ Following(s) \in 1 .. Len(s) /\ NotDot(s[Following(s)])
            /\ \A j \in 1 .. Len(s) : j < Following(s) => ~NotDot(s[j])
<1> DEFINE I == {i \in 1 .. Len(s) : NotDot(s[i])}
<1>1. Following(s) = IF I # {} THEN Min(I) ELSE 0
  BY DEF Following, SelectInSeq
<1>2. I \in SUBSET Nat /\ Len(s) \in Nat
  BY LenProperties
<1>3. CASE I = {}
  BY <1>1, <1>3
<1>4. CASE I # {}
  <2>1. PICK m : m = Following(s) /\ m \in I /\ \A j \in I : m <= j
    BY <1>1, <1>2, <1>4, LeastIndex
  <2>2. \A j \in 1 .. Len(s) : j < m => ~NotDot(s[j])
    BY <1>2, <2>1
  <2> QED
    BY <2>1, <2>2
<1> QED
  BY <1>3, <1>4

(* What is in a sequence, by index. *)
LEMMA Elements ==
  ASSUME NEW S, NEW s \in Seq(S)
  PROVE  /\ Len(s) \in Nat /\ DOMAIN s = 1 .. Len(s)
         /\ \A i \in 1 .. Len(s) : s[i] \in ToSet(s) /\ s[i] \in S
         /\ \A x \in ToSet(s) : \E i \in 1 .. Len(s) : x = s[i]
         /\ ToSet(s) \subseteq S
         /\ IsInjective(s) <=> \A i, j \in 1 .. Len(s) : s[i] = s[j] => i = j
<1>1. Len(s) \in Nat /\ DOMAIN s = 1 .. Len(s) /\ \A i \in 1 .. Len(s) : s[i] \in S
  BY LenProperties, ElementOfSeq
<1> QED
  BY <1>1 DEF ToSet, IsInjective

(* The front and the back of a sequence without repetition. *)
LEMMA Cut ==
  ASSUME NEW S, NEW s \in Seq(S), IsInjective(s), NEW n \in 1 .. Len(s)
  PROVE  LET p == SubSeq(s, 1, n)
             q == SubSeq(s, n + 1, Len(s))
         IN  /\ p \in Seq(S) /\ q \in Seq(S) /\ IsInjective(p) /\ IsInjective(q)
             /\ ToSet(p) \cap ToSet(q) = {} /\ ToSet(p) \cup ToSet(q) = ToSet(s)
<1> DEFINE p == SubSeq(s, 1, n)
           q == SubSeq(s, n + 1, Len(s))
<1>1. /\ Len(s) \in Nat /\ n \in Nat /\ n <= Len(s) /\ n >= 1
      /\ \A i \in 1 .. Len(s) : s[i] \in S
  BY Elements
<1>2. p \in Seq(S) /\ Len(p) = n /\ \A i \in 1 .. n : p[i] = s[i]
  BY <1>1, SubSeqProperties
<1>3. q \in Seq(S) /\ Len(q) = Len(s) - n /\ \A i \in 1 .. Len(s) - n : q[i] = s[n + i]
  <2>1. \A i \in n + 1 .. Len(s) : s[i] \in S
    BY <1>1
  <2>2. /\ q \in Seq(S) /\ Len(q) = IF n + 1 <= Len(s) THEN Len(s) - (n + 1) + 1 ELSE 0
        /\ \A i \in 1 .. Len(s) - (n + 1) + 1 : q[i] = s[(n + 1) + i - 1]
    BY <1>1, <2>1, SubSeqProperties
  <2> QED
    BY <1>1, <2>2
<1> HIDE DEF p, q
<1>4. \A i, j \in 1 .. Len(s) : s[i] = s[j] => i = j
  BY Elements
<1>5. IsInjective(p) /\ IsInjective(q)
  <2>1. \A i, j \in 1 .. Len(p) : p[i] = p[j] => i = j
    BY <1>1, <1>2, <1>4
  <2>2. ASSUME NEW i \in 1 .. Len(q), NEW j \in 1 .. Len(q), q[i] = q[j] PROVE i = j
    <3>1. n + i \in 1 .. Len(s) /\ n + j \in 1 .. Len(s) /\ s[n + i] = s[n + j]
      BY <1>1, <1>3, <2>2
    <3>2. n + i = n + j
      BY <1>4, <3>1
    <3> QED
      BY <1>1, <3>2
  <2> QED
    BY <1>2, <1>3, <2>1, <2>2, Elements
<1>6. \A x \in ToSet(p) : \E i \in 1 .. n : x = s[i]
  BY <1>2, Elements
<1>7. \A x \in ToSet(q) : \E i \in 1 .. Len(s) : i > n /\ x = s[i]
  <2> SUFFICES ASSUME NEW x \in ToSet(q) PROVE \E i \in 1 .. Len(s) : i > n /\ x = s[i]
    OBVIOUS
  <2>1. PICK k \in 1 .. Len(s) - n : x = q[k]
    BY <1>3, Elements
  <2>2. n + k \in 1 .. Len(s) /\ n + k > n /\ x = s[n + k]
    BY <1>1, <1>3, <2>1
  <2> QED
    BY <2>2
<1>8. ToSet(p) \cap ToSet(q) = {}
  BY <1>1, <1>4, <1>6, <1>7
<1>9. ToSet(s) \subseteq ToSet(p) \cup ToSet(q)
  <2> SUFFICES ASSUME NEW x \in ToSet(s) PROVE x \in ToSet(p) \cup ToSet(q)
    OBVIOUS
  <2>1. PICK i \in 1 .. Len(s) : x = s[i]
    BY Elements
  <2>2. CASE i <= n
    <3>1. i \in 1 .. Len(p) /\ p[i] = x
      BY <1>1, <1>2, <2>1, <2>2
    <3> QED
      BY <1>2, <3>1, Elements
  <2>3. CASE i > n
    <3>1. i - n \in 1 .. Len(q) /\ q[i - n] = x
      BY <1>1, <1>3, <2>1, <2>3
    <3> QED
      BY <1>3, <3>1, Elements
  <2> QED
    BY <1>1, <2>2, <2>3
<1>10. ToSet(p) \cup ToSet(q) \subseteq ToSet(s)
  BY <1>1, <1>6, <1>7, Elements
<1> QED
  BY <1>2, <1>3, <1>5, <1>8, <1>9, <1>10 DEF p, q

(* Two sequences without repetition that share nothing, one after the other. *)
LEMMA Join ==
  ASSUME NEW S, NEW a \in Seq(S), NEW b \in Seq(S), IsInjective(a), IsInjective(b),
         ToSet(a) \cap ToSet(b) = {}
  PROVE  /\ a \o b \in Seq(S) /\ IsInjective(a \o b)
         /\ ToSet(a \o b) = ToSet(a) \cup ToSet(b)
<1> DEFINE c == a \o b
<1>1. /\ c \in Seq(S) /\ Len(c) = Len(a) + Len(b)
      /\ \A i \in 1 .. Len(a) + Len(b) :
           c[i] = IF i <= Len(a) THEN a[i] ELSE b[i - Len(a)]
  BY ConcatProperties
<1>2. /\ Len(a) \in Nat /\ Len(b) \in Nat
      /\ \A i, j \in 1 .. Len(a) : a[i] = a[j] => i = j
      /\ \A i, j \in 1 .. Len(b) : b[i] = b[j] => i = j
      /\ \A i \in 1 .. Len(a) : a[i] \in ToSet(a)
      /\ \A i \in 1 .. Len(b) : b[i] \in ToSet(b)
  BY Elements
<1> HIDE DEF c
<1>3. IsInjective(c)
  <2> SUFFICES ASSUME NEW i \in 1 .. Len(c), NEW j \in 1 .. Len(c), c[i] = c[j] PROVE i = j
    BY <1>1, Elements
  <2>1. i \in 1 .. Len(a) \/ (i - Len(a) \in 1 .. Len(b) /\ i > Len(a))
    BY <1>1, <1>2
  <2>2. j \in 1 .. Len(a) \/ (j - Len(a) \in 1 .. Len(b) /\ j > Len(a))
    BY <1>1, <1>2
  <2>3. CASE i \in 1 .. Len(a) /\ j \in 1 .. Len(a)
    BY <1>1, <1>2, <2>3
  <2>4. CASE i > Len(a) /\ j > Len(a)
    <3>1. c[i] = b[i - Len(a)] /\ c[j] = b[j - Len(a)]
      BY <1>1, <1>2, <2>4
    <3>2. i - Len(a) \in 1 .. Len(b) /\ j - Len(a) \in 1 .. Len(b)
      BY <1>2, <2>1, <2>2, <2>4
    <3>3. i - Len(a) = j - Len(a)
      BY <1>2, <3>1, <3>2
    <3> QED
      BY <1>2, <3>3
  <2>5. ASSUME NEW k \in 1 .. Len(c), NEW l \in 1 .. Len(c), k <= Len(a), l > Len(a)
        PROVE  c[k] # c[l]
    <3>1. k \in 1 .. Len(a) /\ c[k] = a[k]
      BY <1>1, <1>2, <2>5
    <3>2. l - Len(a) \in 1 .. Len(b) /\ c[l] = b[l - Len(a)]
      BY <1>1, <1>2, <2>5
    <3>3. c[k] \in ToSet(a) /\ c[l] \in ToSet(b)
      BY <1>2, <3>1, <3>2
    <3> QED
      BY <3>3
  <2> QED
    BY <1>2, <2>1, <2>2, <2>3, <2>4, <2>5
<1>4. ToSet(c) \subseteq ToSet(a) \cup ToSet(b)
  <2> SUFFICES ASSUME NEW x \in ToSet(c) PROVE x \in ToSet(a) \cup ToSet(b)
    OBVIOUS
  <2>1. PICK i \in 1 .. Len(c) : x = c[i]
    BY <1>1, Elements
  <2>2. i \in 1 .. Len(a) \/ (i - Len(a) \in 1 .. Len(b) /\ i > Len(a))
    BY <1>1, <1>2
  <2> QED
    BY <1>1, <1>2, <2>1, <2>2
<1>5. ToSet(a) \cup ToSet(b) \subseteq ToSet(c)
  <2>1. ASSUME NEW i \in 1 .. Len(a) PROVE a[i] \in ToSet(c)
    <3>1. i \in 1 .. Len(c) /\ c[i] = a[i]
      BY <1>1, <1>2
    <3> QED
      BY <1>1, <3>1, Elements
  <2>2. ASSUME NEW i \in 1 .. Len(b) PROVE b[i] \in ToSet(c)
    <3> DEFINE k == Len(a) + i
    <3>1. k \in 1 .. Len(a) + Len(b) /\ ~(k <= Len(a)) /\ k - Len(a) = i
      BY <1>2
    <3>2. k \in 1 .. Len(c) /\ c[k] = b[i]
      BY <1>1, <3>1
    <3> QED
      BY <1>1, <3>2, Elements
  <2> QED
    BY <2>1, <2>2, Elements
<1> QED
  BY <1>1, <1>3, <1>4, <1>5 DEF c

LEMMA Empty ==
  /\ <<>> \in Seq(Entries) /\ IsInjective(<<>>) /\ ToSet(<<>>) = {}
BY DEF IsInjective, ToSet

LEMMA WholeParts == Parts(<<>>, Listing) /\ Listing \in Seq(Items) /\ Content \in Seq(Items)
<1>1. Listing \in Seq(Entries) /\ IsInjective(Listing) /\ Content \in Seq(ToSet(Content))
  BY SftpAssumption DEF Entries
<1>2. Listing \in Seq(Items) /\ Content \in Seq(Items)
  BY <1>1, SeqMonotonic DEF Items
<1> QED
  BY <1>1, <1>2, Empty DEF Parts, Apart, Entries

(* A batch moves from the server's part to the front of the client's.       *)
LEMMA PieceParts ==
  ASSUME NEW a, NEW b, Parts(a, b), NEW n \in 1 .. Len(b)
  PROVE  Parts(SubSeq(b, 1, n) \o a, SubSeq(b, n + 1, Len(b)))
<1> DEFINE p == SubSeq(b, 1, n)
           q == SubSeq(b, n + 1, Len(b))
<1>1. /\ a \in Seq(Entries) /\ b \in Seq(Entries) /\ IsInjective(a) /\ IsInjective(b)
      /\ ToSet(a) \cap ToSet(b) = {} /\ ToSet(a) \cup ToSet(b) = Entries
  BY DEF Parts, Apart
<1>2. /\ p \in Seq(Entries) /\ q \in Seq(Entries) /\ IsInjective(p) /\ IsInjective(q)
      /\ ToSet(p) \cap ToSet(q) = {} /\ ToSet(p) \cup ToSet(q) = ToSet(b)
  BY <1>1, Cut
<1> HIDE DEF p, q
<1>3. ToSet(p) \cap ToSet(a) = {}
  BY <1>1, <1>2
<1>4. /\ p \o a \in Seq(Entries) /\ IsInjective(p \o a)
      /\ ToSet(p \o a) = ToSet(p) \cup ToSet(a)
  BY <1>1, <1>2, <1>3, Join
<1>5. Parts(p \o a, q)
  BY <1>1, <1>2, <1>3, <1>4 DEF Parts, Apart
<1> QED
  BY <1>5 DEF p, q

(* The iterator starts with the whole directory.                            *)
LEMMA CollectedRemains ==
  ASSUME NEW a, Parts(a, <<>>)
  PROVE  Remains(<<>>, a)
BY Empty DEF Parts, Remains, Apart

(* It shows the first entry that is no dot, and only dots are passed over.  *)
LEMMA ShowRemains ==
  ASSUME NEW a, NEW s, Remains(a, s), NEW i, i = Following(s), i # 0
  PROVE  Remains(Append(a, s[i]), SubSeq(s, i + 1, Len(s)))
<1> DEFINE p == SubSeq(s, 1, i)
           q == SubSeq(s, i + 1, Len(s))
           b == Append(a, s[i])
<1>1. /\ a \in Seq(Entries) /\ s \in Seq(Entries) /\ IsInjective(a) /\ IsInjective(s)
      /\ ToSet(a) \cap ToSet(s) = {}
      /\ \A n \in ToSet(a) : NotDot(n)
      /\ \A n \in Entries : NotDot(n) => n \in ToSet(a) \cup ToSet(s)
  BY DEF Remains, Apart
<1>2. /\ i \in 1 .. Len(s) /\ NotDot(s[i])
      /\ \A j \in 1 .. Len(s) : j < i => ~NotDot(s[j])
  BY <1>1, FollowingIs
<1>3. /\ p \in Seq(Entries) /\ q \in Seq(Entries) /\ IsInjective(p) /\ IsInjective(q)
      /\ ToSet(p) \cap ToSet(q) = {} /\ ToSet(p) \cup ToSet(q) = ToSet(s)
  BY <1>1, <1>2, Cut
<1>4. /\ Len(s) \in Nat /\ Len(p) = i /\ \A j \in 1 .. i : p[j] = s[j]
      /\ s[i] \in Entries /\ s[i] \in ToSet(s)
  <2>1. Len(s) \in Nat /\ \A j \in 1 .. Len(s) : s[j] \in Entries /\ s[j] \in ToSet(s)
    BY <1>1, Elements
  <2>2. \A j \in 1 .. i : s[j] \in Entries
    BY <1>2, <2>1
  <2> QED
    BY <1>2, <2>1, <2>2, SubSeqProperties
<1> HIDE DEF p, q
<1>5. s[i] \in ToSet(p) /\ \A x \in ToSet(p) : NotDot(x) => x = s[i]
  <2>1. s[i] \in ToSet(p)
    BY <1>2, <1>3, <1>4, Elements
  <2>2. ASSUME NEW x \in ToSet(p), NotDot(x) PROVE x = s[i]
    <3>1. PICK j \in 1 .. i : x = s[j]
      BY <1>3, <1>4, Elements
    <3> QED
      BY <1>2, <1>4, <2>2, <3>1
  <2> QED
    BY <2>1, <2>2
<1>6. b \in Seq(Entries) /\ IsInjective(b) /\ ToSet(b) = ToSet(a) \cup {s[i]}
  <2> DEFINE c == <<s[i]>>
  <2>1. c \in Seq(Entries) /\ IsInjective(c) /\ ToSet(c) = {s[i]}
    BY <1>4 DEF IsInjective, ToSet
  <2>2. b = a \o c
    BY <1>1, <1>4, AppendIsConcat
  <2>3. ToSet(a) \cap ToSet(c) = {}
    BY <1>1, <1>4, <2>1
  <2> HIDE DEF c, b
  <2> QED
    BY <1>1, <2>1, <2>2, <2>3, Join
<1> HIDE DEF b
<1>7. Apart(b, q)
  <2>1. ToSet(b) \cap ToSet(q) = {}
    BY <1>1, <1>3, <1>5, <1>6
  <2>2. ToSet(b) \subseteq Entries /\ ToSet(q) \subseteq Entries
    BY <1>3, <1>6, Elements
  <2> QED
    BY <1>3, <1>6, <2>1, <2>2 DEF Apart
<1>8. \A n \in ToSet(b) : NotDot(n)
  BY <1>1, <1>2, <1>6
<1>9. \A n \in Entries : NotDot(n) => n \in ToSet(b) \cup ToSet(q)
  BY <1>1, <1>3, <1>5, <1>6
<1>10. Remains(b, q)
  BY <1>3, <1>6, <1>7, <1>8, <1>9 DEF Remains
<1> QED
  BY <1>10 DEF b, q

(* A step of one task that moves nothing from or to the server.             *)
LEMMA ListTask ==
  ASSUME ListInv, NEW t \in Tasks, UNCHANGED rest, Len(calls') = Len(calls),
         \A s \in Tasks \ {t} : job'[s] = job[s] /\ shown'[s] = shown[s],
         shown' = [s \in Tasks |-> shown'[s]], DirOK(t)'
  PROVE  ListInv'
<1>1. \A s \in Tasks : DirOK(s)'
  BY DEF ListInv, DirOK, Uses
<1> QED
  BY <1>1 DEF ListInv

LEMMA StartList ==
  ASSUME HandleInv, ListInv, NEW t \in Tasks, NEW m, Start(t, m)
  PROVE  ListInv'
<1> DEFINE k == Len(calls) + 1
           x == IF m = "read_dir" THEN Listing ELSE Content
           c == [method |-> m, server |-> "asked", outcome |-> "running"]
           r == [at |-> "open", method |-> m, handle |-> k, acc |-> <<>>]
<1>1. /\ calls' = Append(calls, c) /\ rest' = Append(rest, x)
      /\ job' = [job EXCEPT ![t] = r] /\ shown' = [shown EXCEPT ![t] = <<>>]
  BY DEF Start
<1>2. /\ job'[t] = r /\ \A s \in Tasks \ {t} : job'[s] = job[s]
  BY <1>1 DEF HandleInv, Shapes
<1>3. x \in Seq(Items) /\ (m = "read_dir" => Parts(<<>>, x))
  BY WholeParts
<1>4. rest \in Seq(Seq(Items)) /\ Len(rest) = Len(calls) /\ Len(calls) \in Nat
      /\ Len(calls') = k
  <2> HIDE DEF c
  <2> QED
    BY <1>1, AppendProperties DEF HandleInv, Shapes, ListInv
<1>5. /\ shown' = [s \in Tasks |-> shown'[s]] /\ shown'[t] = <<>>
      /\ \A s \in Tasks \ {t} : shown'[s] = shown[s]
  BY <1>1 DEF ListInv
<1> HIDE DEF x
<1>6. /\ rest' \in Seq(Seq(Items)) /\ Len(rest') = k /\ rest'[k] = x
      /\ \A h \in Handles : rest'[h] = rest[h]
  BY <1>1, <1>3, <1>4, AppendProperties DEF Handles
<1>7. ASSUME NEW s \in Tasks \ {t} PROVE DirOK(s)'
  <2>1. DirOK(s) /\ (Uses(s) => job[s].handle \in Handles)
    BY DEF ListInv, HandleInv, JobOK
  <2> QED
    BY <1>2, <1>5, <1>6, <2>1 DEF DirOK, Uses
<1>8. DirOK(t)'
  <2>1. job'[t].at = "open" /\ job'[t].method = m /\ job'[t].handle = k
        /\ job'[t].acc = <<>>
    BY <1>2
  <2> HIDE DEF k, r
  <2> QED
    BY <1>3, <1>5, <1>6, <2>1 DEF DirOK, Uses
<1> QED
  BY <1>4, <1>5, <1>6, <1>7, <1>8 DEF ListInv

LEMMA OpenOkList ==
  ASSUME HandleInv, ListInv, NEW t \in Tasks, OpenOk(t)
  PROVE  ListInv'
<1>1. /\ job[t].at = "open" /\ job' = [job EXCEPT ![t].at = "stream"]
      /\ UNCHANGED <<shown, rest, calls>> /\ IsJob(job[t]) /\ DOMAIN job = Tasks
  BY DEF OpenOk, HandleInv, Shapes, handleVars
<1>2. /\ job'[t].at = "stream" /\ job'[t].method = job[t].method
      /\ job'[t].acc = job[t].acc /\ job'[t].handle = job[t].handle
      /\ \A s \in Tasks \ {t} : job'[s] = job[s] /\ shown'[s] = shown[s]
  BY <1>1 DEF IsJob
<1>3. DirOK(t)'
  BY <1>1, <1>2 DEF ListInv, DirOK, Uses
<1> QED
  BY <1>1, <1>2, <1>3, ListTask DEF ListInv

(* The server's step concerns neither the entries nor the calls. *)
LEMMA ServerOpensList ==
  ASSUME HandleInv, ListInv, NEW h \in Handles, ServerOpens(h)
  PROVE  ListInv'
<1>1. UNCHANGED <<job, shown, rest>> /\ Len(calls') = Len(calls)
  BY DEF ServerOpens, HandleInv, Shapes
<1> QED
  BY <1>1 DEF ListInv, DirOK, Uses

LEMMA PieceList ==
  ASSUME HandleInv, ListInv, NEW t \in Tasks, NEW n, Piece(t, n)
  PROVE  ListInv'
<1>1. PICK h, a, b : h = job[t].handle /\ a = job[t].acc /\ b = rest[h]
  OBVIOUS
<1> DEFINE q == SubSeq(b, n + 1, Len(b))
           c == Collect(job[t].method, SubSeq(b, 1, n), a)
<1>2. /\ job[t].at = "stream" /\ n \in 1 .. Len(b) /\ job' = [job EXCEPT ![t].acc = c]
      /\ rest' = [rest EXCEPT ![h] = q] /\ UNCHANGED <<shown, calls>>
  BY <1>1 DEF Piece
<1>3. h \in Handles /\ rest \in Seq(Seq(Items)) /\ Len(rest) = Len(calls)
      /\ Len(calls) \in Nat /\ h \in 1 .. Len(rest)
  BY <1>1, <1>2, LenProperties DEF HandleInv, Shapes, JobOK, Uses, ListInv, Handles
<1>4. b \in Seq(Items) /\ q \in Seq(Items)
  <2>1. b \in Seq(Items)
    BY <1>1, <1>3, ElementOfSeq
  <2>2. Len(b) \in Nat /\ \A i \in 1 .. Len(b) : b[i] \in Items
    BY <2>1, Elements
  <2>3. \A i \in n + 1 .. Len(b) : b[i] \in Items
    BY <1>2, <2>2
  <2> QED
    BY <1>2, <2>1, <2>2, <2>3, SubSeqProperties
<1>5. /\ rest' \in Seq(Seq(Items)) /\ Len(rest') = Len(rest) /\ rest'[h] = q
      /\ \A g \in Handles \ {h} : rest'[g] = rest[g]
  <2> HIDE DEF q
  <2> QED
    BY <1>2, <1>3, <1>4, ExceptSeq DEF Handles
<1>6. /\ job'[t].at = "stream" /\ job'[t].method = job[t].method /\ job'[t].handle = h
      /\ job'[t].acc = c /\ \A s \in Tasks \ {t} : job'[s] = job[s]
  <2> HIDE DEF c
  <2>1. IsJob(job[t]) /\ DOMAIN job = Tasks
    BY DEF HandleInv, Shapes
  <2> QED
    BY <1>1, <1>2, <2>1 DEF IsJob
<1>7. job[t].method = "read_dir" => Parts(c, q)
  <2>1. job[t].method = "read_dir" => Parts(a, b)
    BY <1>1, <1>2 DEF ListInv, DirOK, Uses
  <2>2. job[t].method = "read_dir" => c = SubSeq(b, 1, n) \o a
    BY DEF Collect
  <2> QED
    BY <1>2, <2>1, <2>2, PieceParts
<1> HIDE DEF q, c
<1>8. DirOK(t)'
  BY <1>2, <1>5, <1>6, <1>7 DEF ListInv, DirOK, Uses
<1>9. ASSUME NEW s \in Tasks \ {t} PROVE DirOK(s)'
  <2>1. DirOK(s) /\ (Uses(s) => job[s].handle \in Handles \ {h})
    BY <1>1, <1>2 DEF ListInv, HandleInv, JobOK, Owned, Uses
  <2> QED
    BY <1>2, <1>5, <1>6, <2>1 DEF DirOK, Uses
<1>10. shown' = [s \in Tasks |-> shown'[s]]
  BY <1>2 DEF ListInv
<1> QED
  BY <1>2, <1>3, <1>5, <1>8, <1>9, <1>10 DEF ListInv

LEMMA OverList ==
  ASSUME HandleInv, ListInv, NEW t \in Tasks, NEW outcome, NEW keep \in BOOLEAN,
         Over(t, outcome, keep), keep => job[t].at = "close"
  PROVE  ListInv'
<1>1. /\ job' = [job EXCEPT ![t] = IF keep THEN [job[t] EXCEPT !.at = "iterate"] ELSE Idle]
      /\ UNCHANGED <<shown, rest>> /\ Len(calls') = Len(calls)
  BY DEF Over, HandleInv, Shapes
<1>2. IsJob(job[t]) /\ DOMAIN job = Tasks
  BY DEF HandleInv, Shapes
<1>3. \A s \in Tasks \ {t} : job'[s] = job[s] /\ shown'[s] = shown[s]
  BY <1>1, <1>2
<1>4. CASE keep
  <2>1. job'[t].at = "iterate" /\ job'[t].acc = job[t].acc
    BY <1>1, <1>2, <1>4 DEF IsJob
  <2>2. shown[t] = <<>> /\ Parts(job[t].acc, <<>>)
    BY <1>4 DEF ListInv, HandleInv, DirOK, JobOK, Uses
  <2>3. Remains(shown'[t], job'[t].acc)
    BY <1>1, <2>1, <2>2, CollectedRemains
  <2>4. DirOK(t)'
    BY <2>1, <2>3 DEF DirOK, Uses
  <2> QED
    BY <1>1, <1>3, <2>4, ListTask DEF ListInv
<1>5. CASE ~keep
  <2>1. job'[t].at = "idle"
    BY <1>1, <1>2, <1>5 DEF Idle
  <2>2. DirOK(t)'
    BY <2>1 DEF DirOK, Uses
  <2> QED
    BY <1>1, <1>3, <2>2, ListTask DEF ListInv
<1> QED
  BY <1>4, <1>5

(* Eof: nothing is left at the server. *)
LEMMA DirEndList ==
  ASSUME HandleInv, ListInv, NEW t \in Tasks, StreamEnd(t), job[t].method = "read_dir"
  PROVE  ListInv'
<1>1. /\ job[t].at = "stream" /\ rest[job[t].handle] = <<>> /\ UNCHANGED <<shown, rest, calls>>
      /\ job' = [job EXCEPT ![t].at = "close"] /\ IsJob(job[t]) /\ DOMAIN job = Tasks
  BY DEF StreamEnd, HandleInv, Shapes
<1>2. /\ job'[t].at = "close" /\ job'[t].method = "read_dir" /\ job'[t].acc = job[t].acc
      /\ job'[t].handle = job[t].handle
      /\ \A s \in Tasks \ {t} : job'[s] = job[s] /\ shown'[s] = shown[s]
  BY <1>1 DEF IsJob
<1>3. DirOK(t)'
  BY <1>1, <1>2 DEF ListInv, DirOK, Uses
<1> QED
  BY <1>1, <1>2, <1>3, ListTask DEF ListInv

LEMMA IterNextList ==
  ASSUME HandleInv, ListInv, NEW t \in Tasks, IterNext(t)
  PROVE  ListInv'
<1>1. PICK s, i : s = job[t].acc /\ i = Following(s)
  OBVIOUS
<1>2. /\ job[t].at = "iterate" /\ IsJob(job[t]) /\ DOMAIN job = Tasks
      /\ UNCHANGED <<rest, calls>> /\ shown = [u \in Tasks |-> shown[u]]
      /\ Remains(shown[t], s)
  BY <1>1 DEF IterNext, HandleInv, Shapes, ListInv, DirOK, handleVars
<1>3. CASE job' = [job EXCEPT ![t] = Idle] /\ UNCHANGED shown
  <2>1. job'[t].at = "idle" /\ \A u \in Tasks \ {t} : job'[u] = job[u] /\ shown'[u] = shown[u]
    BY <1>2, <1>3 DEF Idle
  <2>2. DirOK(t)'
    BY <2>1 DEF DirOK, Uses
  <2> QED
    BY <1>2, <1>3, <2>1, <2>2, ListTask
<1>4. CASE /\ i # 0 /\ job' = [job EXCEPT ![t].acc = SubSeq(s, i + 1, Len(s))]
           /\ shown' = [shown EXCEPT ![t] = Append(@, s[i])]
  <2>1. /\ job'[t].at = "iterate" /\ job'[t].acc = SubSeq(s, i + 1, Len(s))
        /\ shown'[t] = Append(shown[t], s[i]) /\ shown' = [u \in Tasks |-> shown'[u]]
        /\ \A u \in Tasks \ {t} : job'[u] = job[u] /\ shown'[u] = shown[u]
    BY <1>2, <1>4 DEF IsJob
  <2>2. Remains(Append(shown[t], s[i]), SubSeq(s, i + 1, Len(s)))
    BY <1>1, <1>2, <1>4, ShowRemains
  <2>3. DirOK(t)'
    BY <2>1, <2>2 DEF DirOK, Uses
  <2> QED
    BY <1>2, <2>1, <2>3, ListTask
<1> QED
  BY <1>1, <1>3, <1>4 DEF IterNext

LEMMA ListNext == HandleInv /\ ListInv /\ [Next]_vars => ListInv'
<1> SUFFICES ASSUME HandleInv, ListInv, [Next]_vars PROVE ListInv'
  OBVIOUS
<1>1. ASSUME UNCHANGED <<job, shown, calls, rest>> PROVE ListInv'
  BY <1>1 DEF ListInv, DirOK, Uses
<1>2. ASSUME NEW offer \in Offers, NewInit(offer) PROVE ListInv'
  BY <1>1, <1>2 DEF NewInit, handleVars
<1>3. CASE NewLimits \/ NewFails \/ UNCHANGED vars
  BY <1>1, <1>3 DEF NewLimits, NewFails, vars, handleVars
<1>4. ASSUME NEW t \in Tasks, NEW m, CallOne(t, m) \/ EmptyName(t) PROVE ListInv'
  BY <1>1, <1>4 DEF CallOne, EmptyName, handleVars
<1>5. ASSUME NEW t \in Tasks, NEW m, Start(t, m) PROVE ListInv'
  BY <1>5, StartList
<1>6. ASSUME NEW t \in Tasks, OpenOk(t) \/ IterNext(t) PROVE ListInv'
  BY <1>6, OpenOkList, IterNextList
<1>7. ASSUME NEW t \in Tasks, NEW n, Piece(t, n) PROVE ListInv'
  BY <1>7, PieceList
<1>8. ASSUME NEW t \in Tasks, StreamEnd(t) PROVE ListInv'
  <2>1. CASE job[t].method = "read_dir"
    BY <1>8, <2>1, DirEndList
  <2>2. CASE job[t].method # "read_dir"
    BY <1>8, <2>2, OverList DEF StreamEnd
  <2> QED
    BY <2>1, <2>2
<1>9. ASSUME NEW t \in Tasks, NEW outcome,
             CloseOk(t) \/ Fails(t) \/ Cancel(t, outcome)
      PROVE  ListInv'
  BY <1>9, OverList DEF CloseOk, Fails, Cancel
<1>10. ASSUME NEW h \in Handles, SpawnedClose(h) PROVE ListInv'
  BY <1>1, <1>10 DEF SpawnedClose
<1>11. ASSUME NEW h \in Handles, ServerOpens(h) PROVE ListInv'
  BY <1>11, ServerOpensList
<1> QED
  BY <1>2, <1>3, <1>4, <1>5, <1>6, <1>7, <1>8, <1>9, <1>10, <1>11 DEF Next, CallStep

(* Whatever batches the server cuts the directory into, with whatever other *)
(* calls in between, and wherever the dots stand: the iterator of read_dir  *)
(* shows each entry once, no dot, and leaves none out.                      *)
THEOREM ListingsExact == Spec => []ListingExact
<1>1. Init => ListInv
  BY DEF Init, ListInv, DirOK, Uses, Idle
<1>2. ListInv => ListingExact
  <2> SUFFICES ASSUME ListInv, NEW t \in Tasks, job[t].at = "iterate"
               PROVE  LET all == shown[t] \o job[t].acc IN
                      /\ IsInjective(all)
                      /\ \A n \in ToSet(shown[t]) : NotDot(n)
                      /\ {n \in ToSet(all) : NotDot(n)} = {n \in ToSet(Listing) : NotDot(n)}
    BY DEF ListingExact
  <2>1. Remains(shown[t], job[t].acc)
    BY DEF ListInv, DirOK
  <2>2. /\ IsInjective(shown[t] \o job[t].acc)
        /\ ToSet(shown[t] \o job[t].acc) = ToSet(shown[t]) \cup ToSet(job[t].acc)
    BY <2>1, Join DEF Remains, Apart
  <2> QED
    BY <2>1, <2>2 DEF Remains, Apart, Entries
<1>3. Init /\ [][Next]_vars => [](HandleInv /\ ListInv)
  BY <1>1, HandleInit, HandleNext, ListNext, PTL
<1> QED
  BY <1>2, <1>3, PTL DEF Spec
=============================================================================
