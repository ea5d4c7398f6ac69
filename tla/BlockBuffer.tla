----------------------------- MODULE BlockBuffer -----------------------------
(***************************************************************************)
(* The block buffer of buffer_read_write_fun.cxx as it is built, without    *)
(* CONFIG_BUFFER_MUTEX_LOCK: a ring of fixed-size items that one writing    *)
(* thread and one reading thread share with no lock.                        *)
(*                                                                          *)
(* A pointer into the ring is the number of its item; the value             *)
(* total_items is pb_tail, where a pointer may be seen between the addition *)
(* of item_size and the reset to pb_head.  An item is the length word and   *)
(* the payload bytes, written and read one after the other; both are named  *)
(* by the message they come from, so an item whose two parts differ is torn.*)
(* The threads interleave between any two accesses to shared memory, which  *)
(* happen in program order: pb_head is a byte pointer, so the compiler may  *)
(* not move its copies across the stores to the pointers, and the target    *)
(* has one core.                                                            *)
(***************************************************************************)
EXTENDS Integers

CONSTANTS total_items,      \* items of the ring; one of them is never in use
          Messages,         \* what the callers write
          NoMessage,        \* the content of memory nobody has written
          CounterModulus    \* 2^32 in the build: items_waiting is unsigned

(* BlockBufferCreate turns 1 into 2, and above 256 items the counting loops *)
(* (max_loop, loop_max) give up.  The buffers of bcu_function.cxx and of    *)
(* the network module have 2 to 16 items.                                   *)
ASSUME ItemsAssumption == total_items \in 2..256
ASSUME MessagesAssumption == NoMessage \notin Messages
ASSUME CounterAssumption == CounterModulus \in Nat \ {0}

VARIABLES slots,            \* the memory of the ring
          pb_writeto,       \* the item to write next
          pb_readfrom,      \* the item read last
          items_waiting,    \* the shared counter, which no decision uses
          w_pc, w_msg, w_cnt, w_ret,      \* the writing thread
          r_pc, r_item, r_cnt, r_ret      \* the reading thread

shared == <<slots, pb_writeto, pb_readfrom, items_waiting>>
writer == <<w_pc, w_msg, w_cnt, w_ret>>
reader == <<r_pc, r_item, r_cnt, r_ret>>
vars == <<shared, writer, reader>>

Slots == 0 .. total_items - 1
Pointers == 0 .. total_items
Counters == 0 .. CounterModulus - 1
Content == Messages \union {NoMessage}
Items == [length : Content, data : Content]
NoItem == [length |-> NoMessage, data |-> NoMessage]

(* BlockBufferCreate: empty, the item "read last" being the last one. *)
Init == /\ slots = [i \in Slots |-> NoItem]
        /\ pb_writeto = 0
        /\ pb_readfrom = total_items - 1
        /\ items_waiting = 0
        /\ w_pc = "idle" /\ w_msg = NoMessage /\ w_cnt = 0 /\ w_ret = "none"
        /\ r_pc = "idle" /\ r_item = NoItem /\ r_cnt = 0 /\ r_ret = "none"

(* A pointer seen at pb_tail is not the start of any item. *)
BlockBufferPtrIsValid(readfrom, writeto) ==
    readfrom < total_items /\ writeto < total_items

(* pointer += item_size, and back to pb_head at pb_tail. *)
NextSlotPastTail(p) ==              \* mutant: > for >=
    IF p + 1 > total_items THEN 0 ELSE p + 1
NextSlot(p) == IF p + 1 >= total_items THEN 0 ELSE p + 1

(* The counting loop of Write and Read: the steps from the item after r to *)
(* w.  When r = w it goes all the way round: total_items - 1.               *)
CountItems(r, w) == IF r < w THEN w - r - 1 ELSE w - r - 1 + total_items

(* ++ and -- on an unsigned int. *)
Increment(n) == IF n + 1 = CounterModulus THEN 0 ELSE n + 1
Decrement(n) == IF n = 0 THEN CounterModulus - 1 ELSE n - 1

-----------------------------------------------------------------------------
(* BlockBufferWrite *)

(* The entry: a snapshot of pb_readfrom (pb_writeto is the writer's own)    *)
(* decides the answer.                                                      *)
WriteBusy == /\ w_pc = "idle"
             /\ ~BlockBufferPtrIsValid(pb_readfrom, pb_writeto)
             /\ w_ret' = "RW_BUSY"
             /\ UNCHANGED <<shared, w_pc, w_msg, w_cnt, reader>>

WriteFull == /\ w_pc = "idle"
             /\ BlockBufferPtrIsValid(pb_readfrom, pb_writeto)
             /\ CountItems(pb_readfrom, pb_writeto) >= total_items - 1
             /\ w_ret' = "FULL"
             /\ UNCHANGED <<shared, w_pc, w_msg, w_cnt, reader>>

WriteEnterUnchecked(m) ==           \* mutant: the full test is missing
                 /\ w_pc = "idle"
                 /\ BlockBufferPtrIsValid(pb_readfrom, pb_writeto)
                 /\ w_pc' = "length"
                 /\ w_msg' = m
                 /\ w_ret' = "none"
                 /\ UNCHANGED <<shared, w_cnt, reader>>
WriteEnter(m) == /\ w_pc = "idle"
                 /\ BlockBufferPtrIsValid(pb_readfrom, pb_writeto)
                 /\ CountItems(pb_readfrom, pb_writeto) < total_items - 1
                 /\ w_pc' = "length"
                 /\ w_msg' = m
                 /\ w_ret' = "none"
                 /\ UNCHANGED <<shared, w_cnt, reader>>

(* prvCopyQueueData, one access to shared memory at a time. *)
WriteLength == /\ w_pc = "length"
               /\ slots' = [slots EXCEPT ![pb_writeto].length = w_msg]
               /\ w_pc' = "data"
               /\ UNCHANGED <<pb_writeto, pb_readfrom, items_waiting,
                              w_msg, w_cnt, w_ret, reader>>

WriteData == /\ w_pc = "data"
             /\ slots' = [slots EXCEPT ![pb_writeto].data = w_msg]
             /\ w_pc' = "load"
             /\ UNCHANGED <<pb_writeto, pb_readfrom, items_waiting,
                            w_msg, w_cnt, w_ret, reader>>

WriteLoadCount == /\ w_pc = "load"
                  /\ w_cnt' = items_waiting
                  /\ w_pc' = "store"
                  /\ UNCHANGED <<shared, w_msg, w_ret, reader>>

WriteStoreCount == /\ w_pc = "store"
                   /\ items_waiting' = Increment(w_cnt)
                   /\ w_pc' = "advance"
                   /\ UNCHANGED <<slots, pb_writeto, pb_readfrom,
                                  w_msg, w_cnt, w_ret, reader>>

(* The build may store the sum before it tests it, or only the result. *)
AdvanceWriteTo == /\ w_pc = "advance"
                  /\ \/ /\ pb_writeto + 1 = total_items
                        /\ pb_writeto' = total_items
                        /\ w_pc' = "wrap"
                        /\ UNCHANGED w_ret
                     \/ /\ pb_writeto' = NextSlot(pb_writeto)
                        /\ w_pc' = "idle"
                        /\ w_ret' = "ok"
                  /\ UNCHANGED <<slots, pb_readfrom, items_waiting,
                                 w_msg, w_cnt, reader>>

WrapWriteToForgotten ==             \* mutant: pb_writeto stays at pb_tail
               /\ w_pc = "wrap"
               /\ w_pc' = "idle"
               /\ w_ret' = "ok"
               /\ UNCHANGED <<shared, w_msg, w_cnt, reader>>
WrapWriteTo == /\ w_pc = "wrap"
               /\ pb_writeto' = 0
               /\ w_pc' = "idle"
               /\ w_ret' = "ok"
               /\ UNCHANGED <<slots, pb_readfrom, items_waiting,
                              w_msg, w_cnt, reader>>

-----------------------------------------------------------------------------
(* BlockBufferRead *)

ReadBusy == /\ r_pc = "idle"
            /\ ~BlockBufferPtrIsValid(pb_readfrom, pb_writeto)
            /\ r_ret' = "RW_BUSY"
            /\ UNCHANGED <<shared, writer, r_pc, r_item, r_cnt>>

ReadEmpty == /\ r_pc = "idle"
             /\ BlockBufferPtrIsValid(pb_readfrom, pb_writeto)
             /\ CountItems(pb_readfrom, pb_writeto) = 0
             /\ r_ret' = "EMPTY"
             /\ UNCHANGED <<shared, writer, r_pc, r_item, r_cnt>>

ReadEnter == /\ r_pc = "idle"
             /\ BlockBufferPtrIsValid(pb_readfrom, pb_writeto)
             /\ CountItems(pb_readfrom, pb_writeto) > 0
             /\ r_pc' = "advance"
             /\ r_ret' = "none"
             /\ UNCHANGED <<shared, writer, r_item, r_cnt>>

(* The read pointer moves first: from here on the item it points at is the  *)
(* reader's, and the item it leaves may be written.                         *)
AdvanceReadFrom == /\ r_pc = "advance"
                   /\ \/ /\ pb_readfrom + 1 = total_items
                         /\ pb_readfrom' = total_items
                         /\ r_pc' = "wrap"
                      \/ /\ pb_readfrom' = NextSlot(pb_readfrom)
                         /\ r_pc' = "length"
                   /\ UNCHANGED <<slots, pb_writeto, items_waiting, writer,
                                  r_item, r_cnt, r_ret>>

WrapReadFrom == /\ r_pc = "wrap"
                /\ pb_readfrom' = 0
                /\ r_pc' = "length"
                /\ UNCHANGED <<slots, pb_writeto, items_waiting, writer,
                               r_item, r_cnt, r_ret>>

ReadLength == /\ r_pc = "length"
              /\ r_item' = [length |-> slots[pb_readfrom].length,
                            data |-> NoMessage]
              /\ r_pc' = "data"
              /\ UNCHANGED <<shared, writer, r_cnt, r_ret>>

ReadData == /\ r_pc = "data"
            /\ r_item' = [length |-> r_item.length,
                          data |-> slots[pb_readfrom].data]
            /\ r_pc' = "load"
            /\ UNCHANGED <<shared, writer, r_cnt, r_ret>>

ReadLoadCount == /\ r_pc = "load"
                 /\ r_cnt' = items_waiting
                 /\ r_pc' = "store"
                 /\ UNCHANGED <<shared, writer, r_item, r_ret>>

ReadStoreCount == /\ r_pc = "store"
                  /\ items_waiting' = Decrement(r_cnt)
                  /\ r_pc' = "idle"
                  /\ r_ret' = "ok"
                  /\ UNCHANGED <<slots, pb_writeto, pb_readfrom, writer,
                                 r_item, r_cnt>>

-----------------------------------------------------------------------------
WriterStep == \/ WriteLength \/ WriteData \/ WriteLoadCount \/ WriteStoreCount
              \/ AdvanceWriteTo \/ WrapWriteTo

ReaderStep == \/ ReadBusy \/ ReadEmpty \/ ReadEnter
              \/ AdvanceReadFrom \/ WrapReadFrom \/ ReadLength \/ ReadData
              \/ ReadLoadCount \/ ReadStoreCount

Next == \/ WriteBusy \/ WriteFull \/ (\E m \in Messages : WriteEnter(m))
        \/ WriterStep \/ ReaderStep

Spec == Init /\ [][Next]_vars

(* A write that has begun is finished (the threads share the processor      *)
(* round-robin); whether the writer ever writes is up to its caller.  The   *)
(* reader polls in an endless loop.                                         *)
Fairness == WF_vars(WriterStep) /\ WF_vars(ReaderStep)

FairSpec == Spec /\ Fairness
-----------------------------------------------------------------------------
(* Properties *)

(* Where a pointer caught at pb_tail is going. *)
Norm(p) == IF p = total_items THEN 0 ELSE p
rd == Norm(pb_readfrom)
wr == Norm(pb_writeto)

(* The items written and not yet taken lie strictly between the pointers. *)
Between(r, i, w) == IF r < w THEN r < i /\ i < w ELSE r < i \/ i < w
Queued(i) == Between(rd, i, wr)

Whole(item) == item.length \in Messages /\ item.data = item.length

Copying == {"length", "data", "load", "store", "advance"}

(* Every variable keeps its type.  In particular no pointer leaves the ring *)
(* that BlockBufferCreate allocates, and a pointer stands at pb_tail only   *)
(* between the addition and the reset of its own thread's call: no call     *)
(* returns and leaves it there, where every later call answers RW_BUSY.     *)
TypeOK == /\ slots \in [Slots -> Items]
          /\ pb_writeto \in Pointers
          /\ pb_readfrom \in Pointers
          /\ items_waiting \in Counters
          /\ w_pc \in {"idle", "wrap"} \union Copying
          /\ w_msg \in Content
          /\ w_cnt \in Counters
          /\ w_ret \in {"none", "ok", "FULL", "RW_BUSY"}
          /\ r_pc \in {"idle", "wrap"} \union Copying
          /\ r_item \in Items
          /\ r_cnt \in Counters
          /\ r_ret \in {"none", "ok", "EMPTY", "RW_BUSY"}
          /\ w_pc # "wrap" => pb_writeto \in Slots
          /\ r_pc # "wrap" => pb_readfrom \in Slots

(* The pointers meet only when the ring is full, and a write in progress    *)
(* began when it was not: what a call decided from its snapshot stays true  *)
(* while the other thread moves its pointer.                                *)
WriterPosition == /\ w_pc = "wrap" <=> pb_writeto = total_items
                  /\ w_pc \in Copying => w_msg \in Messages /\ wr # rd

ReaderPosition == /\ r_pc = "wrap" <=> pb_readfrom = total_items
                  /\ r_pc = "advance" => NextSlot(rd) # wr

(* What the writer has put into its item so far. *)
WriterItem == /\ w_pc = "data" => slots[wr].length = w_msg
              /\ w_pc \in {"load", "store", "advance"}
                    => slots[wr] = [length |-> w_msg, data |-> w_msg]

(* A queued item, and the item the reader is copying, are whole: nobody is  *)
(* writing them.                                                            *)
QueuedWhole == \A i \in Slots : Queued(i) => Whole(slots[i])

TakenWhole == /\ r_pc \in {"wrap", "length", "data"} => Whole(slots[rd])
              /\ r_pc = "data" => r_item.length = slots[rd].length
              /\ r_pc \in {"load", "store"} => Whole(r_item)

(* A read that succeeds (BlockBufferRead > 0) returned the length word and  *)
(* the payload of one and the same message, and never memory that nobody    *)
(* wrote.                                                                   *)
NoTornRead == r_pc = "idle" /\ r_ret = "ok" => Whole(r_item)

(* The strengthening that is inductive, and from which NoTornRead and       *)
(* SlotOwnership follow: every fact one thread relies on between two of its *)
(* steps of BlockBufferWrite or BlockBufferRead.                            *)
IInv == /\ WriterPosition /\ ReaderPosition
        /\ WriterItem /\ QueuedWhole /\ TakenWhole
        /\ NoTornRead

(* The item prvCopyQueueData fills is never one that is queued or that      *)
(* BlockBufferRead is copying, however their steps interleave: what makes   *)
(* the mutex unnecessary for one writer and one reader.                     *)
SlotOwnership ==
    w_pc \in Copying => /\ pb_writeto \in Slots
                        /\ ~Queued(pb_writeto)
                        /\ r_pc \in {"length", "data"}
                              => pb_writeto # pb_readfrom
==============================================================================
