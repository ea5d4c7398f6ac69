------------------------------ MODULE ByteTape ------------------------------
(***************************************************************************)
(* What a user of a char buffer expects: a queue of bytes that remembers    *)
(* the bytes read last for as long as their place is not needed, so that a  *)
(* reader can put some back or start again from the beginning.              *)
(***************************************************************************)
EXTENDS Naturals, Sequences

CONSTANTS Bytes, Places

VARIABLES queue, behind     \* bytes to be read, bytes read last (latest last)

vars == <<queue, behind>>

Init == queue = <<>> /\ behind = <<>>

Forget(b) == IF Len(queue) + Len(behind) = Places THEN Tail(b) ELSE b

Put == /\ Len(queue) < Places
       /\ \E x \in Bytes : queue' = Append(queue, x)
       /\ behind' = Forget(behind)

\* Forward over n bytes, or all there are.
Get(n) ==
  LET m == IF n < Len(queue) THEN n ELSE Len(queue)
  IN /\ queue' = SubSeq(queue, m + 1, Len(queue))
     /\ behind' = behind \o SubSeq(queue, 1, m)

PutBack(n) ==
  /\ n <= Len(behind)
  /\ queue' = SubSeq(behind, Len(behind) - n + 1, Len(behind)) \o queue
  /\ behind' = SubSeq(behind, 1, Len(behind) - n)

Clear == queue' = <<>> /\ behind' = <<>>

Next == Put \/ Clear \/ \E n \in 1 .. Places : Get(n) \/ PutBack(n)

Spec == Init /\ [][Next]_vars
=============================================================================
