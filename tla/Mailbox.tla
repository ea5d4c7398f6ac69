------------------------------- MODULE Mailbox -------------------------------
(***************************************************************************)
(* What a block buffer (buffer_read_write_fun.cxx) promises the two threads *)
(* that share it: a bounded first-in first-out mailbox.  A write that       *)
(* succeeds appends one item, a read that succeeds removes the oldest item  *)
(* and hands the reader exactly that item, "full" and "empty" are answered  *)
(* only when they are true, and "busy" answers change nothing.              *)
(***************************************************************************)
EXTENDS Naturals, Sequences

CONSTANTS Capacity,     \* items the mailbox holds
          Items,        \* the items that can be written
          NoItem        \* no item

VARIABLES queue,        \* items written and not yet taken
          hand,         \* the item a read in progress has taken, or NoItem
          got,          \* the item the last read returned, NoItem while one runs
          w_ret,        \* "none" or "put" while a write runs, then its answer
          r_ret         \* answer of the last read

vars == <<queue, hand, got, w_ret, r_ret>>

Init == /\ queue = << >>
        /\ hand = NoItem
        /\ got = NoItem
        /\ w_ret = "none"
        /\ r_ret = "none"

(* A write is accepted when there is room, and takes effect at once: from   *)
(* then on ("put") its only possible answer is "ok".                        *)
Put(m) == /\ Len(queue) < Capacity
          /\ w_ret = "none"
          /\ queue' = Append(queue, m)
          /\ w_ret' \in {"put", "ok"}
          /\ UNCHANGED <<hand, got, r_ret>>

(* A write that was put is answered "ok"; one that was not, and the next    *)
(* one, runs without effect ("none") or is refused: "RW_BUSY" may always be *)
(* answered, "FULL" only by a mailbox that is full.                         *)
AnswerWrite(ret) == /\ ret = "ok" <=> w_ret = "put"
                    /\ ret = "FULL" => Len(queue) = Capacity
                    /\ w_ret' = ret
                    /\ UNCHANGED <<queue, hand, got, r_ret>>

(* A read takes the oldest item, and then delivers what it took. *)
Take == /\ queue # << >>
        /\ hand = NoItem
        /\ hand' = Head(queue)
        /\ queue' = Tail(queue)
        /\ got' = NoItem
        /\ r_ret' = "none"
        /\ UNCHANGED w_ret

Deliver == /\ hand # NoItem
           /\ got' = hand
           /\ hand' = NoItem
           /\ r_ret' = "ok"
           /\ UNCHANGED <<queue, w_ret>>

AnswerRead(ret) == /\ hand = NoItem
                   /\ ret = "EMPTY" => queue = << >>
                   /\ r_ret' = ret
                   /\ got' = IF ret = "none" THEN NoItem ELSE got
                   /\ UNCHANGED <<queue, hand, w_ret>>

Next == \/ \E m \in Items : Put(m)
        \/ \E ret \in {"none", "ok", "FULL", "RW_BUSY"} : AnswerWrite(ret)
        \/ Take
        \/ Deliver
        \/ \E ret \in {"none", "EMPTY", "RW_BUSY"} : AnswerRead(ret)

Spec == Init /\ [][Next]_vars

(* With a reader that polls for ever, every item is taken and delivered. *)
FairSpec == Spec /\ WF_vars(Take) /\ WF_vars(Deliver)
==============================================================================
