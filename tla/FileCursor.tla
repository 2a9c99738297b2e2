------------------------------ MODULE FileCursor ------------------------------
(* What an open file promises to the task that uses it: a cursor, and reads *)
(* and writes that take place where the cursor was when they began and move *)
(* it by what they transferred.  One operation of each kind may be under    *)
(* way.  One that fails, or is given up, leaves the cursor alone.           *)
EXTENDS Naturals

CONSTANTS Modulus, \* 2^64: a cursor past the end goes on at the beginning
          None

VARIABLES cursor, \* the position of the next operation
          begun,  \* the cursor when the operation under way began, or None
          result  \* what the step just taken completed: where, and how much

Ops == {"read", "write", "seek"}
Wrapped(x) == IF x < Modulus THEN x ELSE x - Modulus

Init == cursor = 0 /\ begun = [op \in Ops |-> None] /\ result = None

Begin(op) ==
  /\ result' = None /\ UNCHANGED cursor
  /\ begun[op] = None
  /\ begun' = [begun EXCEPT ![op] = cursor]

Transfer(op, n) ==
  /\ begun[op] # None
  /\ result' = [op |-> op, at |-> begun[op], n |-> n]
  /\ cursor' = Wrapped(cursor + n)
  /\ begun' = [begun EXCEPT ![op] = None]

Seek(target) ==
  /\ result' = [op |-> "seek", at |-> target, n |-> 0]
  /\ cursor' = Wrapped(target)
  /\ begun["seek"] # None
  /\ begun' = [begun EXCEPT !["seek"] = None]

(* Operations fail, or the file is given up with all that is under way.     *)
Abandon(ops) ==
  /\ result' = None /\ UNCHANGED cursor
  /\ begun' = [op \in Ops |-> IF op \in ops THEN None ELSE begun[op]]

Next ==
  \/ \E op \in Ops : Begin(op)
  \/ \E op \in {"read", "write"}, n \in 0 .. Modulus - 1 : Transfer(op, n)
  \/ \E target \in 0 .. 2 * Modulus - 1 : Seek(target)
  \/ \E ops \in SUBSET Ops : Abandon(ops)

Spec == Init /\ [][Next]_<<cursor, begun, result>>
=============================================================================
