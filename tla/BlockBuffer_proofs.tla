-------------------------- MODULE BlockBuffer_proofs --------------------------
(***************************************************************************)
(* Proofs about the block buffer, for every size of the ring, every set of  *)
(* messages and every width of the counter.                                 *)
(***************************************************************************)
EXTENDS BlockBuffer, TLAPS

(* The ring arithmetic: the next item is an item of the ring. *)
LEMMA NextSlotInRing ==
    ASSUME NEW p \in Slots
    PROVE  NextSlot(p) \in Slots
  BY ItemsAssumption DEF NextSlot, Slots

(* A pointer caught at pb_tail stands for pb_head. *)
LEMMA NormInRing ==
    ASSUME NEW p \in Pointers
    PROVE  /\ Norm(p) \in Slots
           /\ p # total_items => p \in Slots /\ Norm(p) = p
           /\ p \in Slots /\ p + 1 = total_items
                => NextSlot(p) = 0 /\ Norm(total_items) = 0
  BY ItemsAssumption DEF Norm, Slots, Pointers, NextSlot

(* ++ and -- keep items_waiting within its width. *)
LEMMA CounterInRange ==
    ASSUME NEW n \in Counters
    PROVE  Increment(n) \in Counters /\ Decrement(n) \in Counters
  BY CounterAssumption DEF Counters, Increment, Decrement

(* Every step of BlockBufferWrite and BlockBufferRead keeps the variables   *)
(* in their types: no pointer is ever seen outside the allocated ring.      *)
LEMMA TypeStep == TypeOK /\ IInv /\ [Next]_vars => TypeOK'
<1> SUFFICES ASSUME TypeOK, IInv, [Next]_vars
             PROVE  TypeOK'
  OBVIOUS
<1> USE DEF TypeOK, shared, writer, reader, Content, Copying
<1>1. CASE WriteBusy
  BY <1>1 DEF WriteBusy
<1>2. CASE WriteFull
  BY <1>2 DEF WriteFull
<1>3. ASSUME NEW m \in Messages, WriteEnter(m)
      PROVE  TypeOK'
  BY <1>3 DEF WriteEnter
<1>4. CASE WriteLength
  BY <1>4 DEF WriteLength, Items
<1>5. CASE WriteData
  BY <1>5 DEF WriteData, Items
<1>6. CASE WriteLoadCount
  BY <1>6 DEF WriteLoadCount
<1>7. CASE WriteStoreCount
  BY <1>7, CounterInRange DEF WriteStoreCount
<1>8. CASE AdvanceWriteTo
  BY <1>8, NextSlotInRing, ItemsAssumption DEF AdvanceWriteTo, Pointers, Slots
<1>9. CASE WrapWriteTo
  BY <1>9, ItemsAssumption DEF WrapWriteTo, Pointers, Slots
<1>10. CASE ReadBusy
  BY <1>10 DEF ReadBusy
<1>11. CASE ReadEmpty
  BY <1>11 DEF ReadEmpty
<1>12. CASE ReadEnter
  BY <1>12 DEF ReadEnter
<1>13. CASE AdvanceReadFrom
  BY <1>13, NextSlotInRing, ItemsAssumption DEF AdvanceReadFrom, Pointers, Slots
<1>14. CASE WrapReadFrom
  BY <1>14, ItemsAssumption DEF WrapReadFrom, Pointers, Slots
<1>15. CASE ReadLength
  <2>1. pb_readfrom \in Slots
    BY <1>15, NormInRing DEF IInv, ReaderPosition, ReadLength
  <2> QED
    BY <1>15, <2>1 DEF ReadLength, Items
<1>16. CASE ReadData
  <2>1. pb_readfrom \in Slots
    BY <1>16, NormInRing DEF IInv, ReaderPosition, ReadData
  <2> QED
    BY <1>16, <2>1 DEF ReadData, Items
<1>17. CASE ReadLoadCount
  BY <1>17 DEF ReadLoadCount
<1>18. CASE ReadStoreCount
  BY <1>18, CounterInRange DEF ReadStoreCount
<1>19. CASE UNCHANGED vars
  BY <1>19 DEF vars
<1> QED
  BY <1>1, <1>2, <1>3, <1>4, <1>5, <1>6, <1>7, <1>8, <1>9, <1>10, <1>11,
     <1>12, <1>13, <1>14, <1>15, <1>16, <1>17, <1>18, <1>19
     DEF Next, WriterStep, ReaderStep

(* The counts decide as intended: a ring is writable when the pointers are  *)
(* apart, and readable when the item after the one read last is not free.   *)
LEMMA CountDecides ==
    ASSUME NEW r \in Slots, NEW w \in Slots
    PROVE  /\ CountItems(r, w) < total_items - 1 <=> w # r
           /\ CountItems(r, w) > 0 <=> NextSlot(r) # w
  BY ItemsAssumption DEF CountItems, Slots, NextSlot

(* The two ends are not queued; moving pb_writeto queues exactly the item   *)
(* it leaves, and moving pb_readfrom takes the item it reaches.             *)
LEMMA RingMoves ==
    ASSUME NEW r \in Slots, NEW w \in Slots, NEW i \in Slots
    PROVE  /\ ~Between(r, w, w) /\ ~Between(r, r, w)
           /\ w # r => (Between(r, i, NextSlot(w)) <=> Between(r, i, w) \/ i = w)
           /\ w # r => NextSlot(r) # NextSlot(w)
           /\ NextSlot(r) # w /\ Between(NextSlot(r), i, w) => Between(r, i, w)
           /\ NextSlot(r) # w /\ i = NextSlot(r) => Between(r, i, w)
  BY ItemsAssumption DEF Between, Slots, NextSlot

(* How each pointer relates to the item it stands for. *)
LEMMA Positions ==
    ASSUME TypeOK
    PROVE  /\ rd \in Slots /\ wr \in Slots
           /\ pb_readfrom # total_items => rd = pb_readfrom
           /\ pb_writeto # total_items => wr = pb_writeto
           /\ pb_readfrom = total_items => rd = 0
           /\ pb_writeto = total_items => wr = 0
  BY ItemsAssumption DEF TypeOK, rd, wr, Norm, Slots, Pointers

-----------------------------------------------------------------------------
(* The steps that move no pointer and write no item: only the facts about   *)
(* the acting thread's own position are at stake.                           *)
LEMMA QuietStep ==
    ASSUME TypeOK, IInv,
           UNCHANGED <<slots, pb_writeto, pb_readfrom>>
    PROVE  /\ rd' = rd /\ wr' = wr
           /\ QueuedWhole'
  BY DEF rd, wr, Norm, IInv, QueuedWhole, Queued, Between, Whole

(* A write into the item at pb_writeto leaves the others as they are. *)
LEMMA FillStep ==
    ASSUME TypeOK, IInv, w_pc \in Copying,
           UNCHANGED <<pb_writeto, pb_readfrom>>,
           \A i \in Slots : i # pb_writeto => slots'[i] = slots[i]
    PROVE  /\ rd' = rd /\ wr' = wr
           /\ slots'[rd] = slots[rd]
           /\ QueuedWhole'
<1>1. rd' = rd /\ wr' = wr
  BY DEF rd, wr, Norm
<1>2. wr # rd /\ wr = pb_writeto /\ rd \in Slots /\ wr \in Slots
  BY Positions DEF IInv, WriterPosition, Copying
<1>3. ASSUME NEW i \in Slots, Queued(i)'
      PROVE  Whole(slots[i])'
  <2>1. Queued(i)
    BY <1>1, <1>3 DEF Queued, Between
  <2>2. i # wr
    BY <2>1, <1>2, RingMoves DEF Queued
  <2> QED
    BY <2>1, <2>2, <1>2 DEF IInv, QueuedWhole, Whole
<1> QED
  BY <1>1, <1>2, <1>3 DEF QueuedWhole

(* pb_writeto moves on, perhaps by way of pb_tail. *)
LEMMA PublishStep ==
    ASSUME TypeOK, IInv, w_pc = "advance",
           wr' = NextSlot(wr), UNCHANGED <<slots, pb_readfrom>>
    PROVE  /\ rd' = rd
           /\ NextSlot(rd) # wr'
           /\ QueuedWhole'
<1>1. rd' = rd
  BY DEF rd, Norm
<1>2. wr # rd /\ rd \in Slots /\ wr \in Slots /\ Whole(slots[wr])
  BY Positions DEF IInv, WriterPosition, WriterItem, Copying, Whole
<1>3. ASSUME NEW i \in Slots, Queued(i)'
      PROVE  Whole(slots[i])'
  <2>1. Queued(i) \/ i = wr
    BY <1>1, <1>2, <1>3, RingMoves DEF Queued, Between
  <2> QED
    BY <2>1, <1>2 DEF IInv, QueuedWhole, Whole
<1> QED
  BY <1>1, <1>2, <1>3, RingMoves DEF QueuedWhole

(* pb_readfrom moves on, perhaps by way of pb_tail. *)
LEMMA TakeStep ==
    ASSUME TypeOK, IInv, r_pc = "advance",
           rd' = NextSlot(rd), UNCHANGED <<slots, pb_writeto>>
    PROVE  /\ wr' = wr
           /\ rd' # wr'
           /\ Whole(slots[rd])'
           /\ QueuedWhole'
<1>1. wr' = wr
  BY DEF wr, Norm
<1>2. NextSlot(rd) # wr /\ rd \in Slots /\ wr \in Slots /\ NextSlot(rd) \in Slots
  BY Positions, NextSlotInRing DEF IInv, ReaderPosition
<1>3. Queued(NextSlot(rd))
  BY <1>2, RingMoves DEF Queued
<1>4. ASSUME NEW i \in Slots, Queued(i)'
      PROVE  Whole(slots[i])'
  <2>1. Between(NextSlot(rd), i, wr)
    BY <1>1, <1>4 DEF Queued, Between
  <2>2. Queued(i)
    BY <2>1, <1>2, RingMoves DEF Queued
  <2> QED
    BY <2>2 DEF IInv, QueuedWhole, Whole
<1> QED
  BY <1>1, <1>2, <1>3, <1>4 DEF IInv, QueuedWhole, Whole
-----------------------------------------------------------------------------
(* Every step keeps what the threads rely on.                               *)
LEMMA InvStep == TypeOK /\ IInv /\ [Next]_vars => IInv'
<1> SUFFICES ASSUME TypeOK, IInv, [Next]_vars
             PROVE  IInv'
  OBVIOUS
<1>0. /\ WriterPosition /\ ReaderPosition /\ WriterItem
      /\ QueuedWhole /\ TakenWhole /\ NoTornRead
  BY DEF IInv
<1>P. /\ rd \in Slots /\ wr \in Slots
      /\ pb_readfrom # total_items => rd = pb_readfrom
      /\ pb_writeto # total_items => wr = pb_writeto
  BY Positions
<1> USE <1>0 DEF IInv, WriterPosition, ReaderPosition, WriterItem, TakenWhole,
                NoTornRead, Whole, Copying, shared, writer, reader
<1>1. CASE WriteBusy
  <2>1. rd' = rd /\ wr' = wr /\ QueuedWhole'
    BY <1>1, QuietStep DEF WriteBusy, shared
  <2> QED
    BY <1>1, <2>1 DEF WriteBusy
<1>2. CASE WriteFull
  <2>1. rd' = rd /\ wr' = wr /\ QueuedWhole'
    BY <1>2, QuietStep DEF WriteFull, shared
  <2> QED
    BY <1>2, <2>1 DEF WriteFull
<1>3. ASSUME NEW m \in Messages, WriteEnter(m)
      PROVE  IInv'
  <2>1. rd' = rd /\ wr' = wr /\ QueuedWhole'
    BY <1>3, QuietStep DEF WriteEnter
  <2>2. rd = pb_readfrom /\ wr = pb_writeto
    BY <1>3, <1>P, ItemsAssumption DEF WriteEnter, BlockBufferPtrIsValid
  <2>3. CountItems(rd, wr) < total_items - 1
    BY <1>3, <2>2 DEF WriteEnter
  <2>4. wr # rd
    BY <2>3, <1>P, CountDecides
  <2> QED
    BY <1>3, <2>1, <2>4 DEF WriteEnter
<1>4. CASE WriteLength
  <2>1. /\ rd' = rd /\ wr' = wr /\ wr = pb_writeto
        /\ slots'[rd] = slots[rd] /\ QueuedWhole'
    BY <1>4, <1>P, FillStep DEF WriteLength, TypeOK
  <2>2. slots'[wr] = [slots[wr] EXCEPT !.length = w_msg]
    BY <1>4, <1>P, <2>1 DEF WriteLength, TypeOK
  <2>3. slots'[wr].length = w_msg
    BY <2>2, <1>P DEF TypeOK, Items
  <2> QED
    BY <1>4, <2>1, <2>3 DEF WriteLength
<1>5. CASE WriteData
  <2>1. /\ rd' = rd /\ wr' = wr /\ wr = pb_writeto
        /\ slots'[rd] = slots[rd] /\ QueuedWhole'
    BY <1>5, <1>P, FillStep DEF WriteData, TypeOK
  <2>2. slots'[wr] = [slots[wr] EXCEPT !.data = w_msg]
    BY <1>5, <1>P, <2>1 DEF WriteData, TypeOK
  <2>3. slots'[wr] = [length |-> w_msg, data |-> w_msg]
    BY <1>5, <2>2, <1>P DEF WriteData, TypeOK, Items
  <2> QED
    BY <1>5, <2>1, <2>3 DEF WriteData
<1>6. CASE WriteLoadCount
  <2>1. rd' = rd /\ wr' = wr /\ QueuedWhole'
    BY <1>6, QuietStep DEF WriteLoadCount, shared
  <2> QED
    BY <1>6, <2>1 DEF WriteLoadCount
<1>7. CASE WriteStoreCount
  <2>1. rd' = rd /\ wr' = wr /\ QueuedWhole'
    BY <1>7, QuietStep DEF WriteStoreCount, shared
  <2> QED
    BY <1>7, <2>1 DEF WriteStoreCount
<1>8. CASE AdvanceWriteTo
  <2>1. /\ wr' = NextSlot(wr)
        /\ pb_writeto' = total_items <=> w_pc' = "wrap"
    BY <1>8, <1>P, ItemsAssumption
       DEF AdvanceWriteTo, wr, Norm, NextSlot, Slots
  <2>2. rd' = rd /\ NextSlot(rd) # wr' /\ QueuedWhole'
    BY <1>8, <2>1, PublishStep DEF AdvanceWriteTo
  <2> QED
    BY <1>8, <2>1, <2>2 DEF AdvanceWriteTo
<1>9. CASE WrapWriteTo
  <2>1. rd' = rd /\ wr' = wr /\ pb_writeto' # total_items
    BY <1>9, ItemsAssumption DEF WrapWriteTo, wr, rd, Norm
  <2>2. QueuedWhole'
    BY <1>9, <2>1 DEF WrapWriteTo, QueuedWhole, Queued, Between
  <2> QED
    BY <1>9, <2>1, <2>2 DEF WrapWriteTo
<1>10. CASE ReadBusy
  <2>1. rd' = rd /\ wr' = wr /\ QueuedWhole'
    BY <1>10, QuietStep DEF ReadBusy, shared
  <2> QED
    BY <1>10, <2>1 DEF ReadBusy
<1>11. CASE ReadEmpty
  <2>1. rd' = rd /\ wr' = wr /\ QueuedWhole'
    BY <1>11, QuietStep DEF ReadEmpty, shared
  <2> QED
    BY <1>11, <2>1 DEF ReadEmpty
<1>12. CASE ReadEnter
  <2>1. rd' = rd /\ wr' = wr /\ QueuedWhole'
    BY <1>12, QuietStep DEF ReadEnter
  <2>2. rd = pb_readfrom /\ wr = pb_writeto
    BY <1>12, <1>P, ItemsAssumption DEF ReadEnter, BlockBufferPtrIsValid
  <2>3. CountItems(rd, wr) > 0
    BY <1>12, <2>2 DEF ReadEnter
  <2>4. NextSlot(rd) # wr
    BY <2>3, <1>P, CountDecides
  <2> QED
    BY <1>12, <2>1, <2>4 DEF ReadEnter, NextSlot
<1>13. CASE AdvanceReadFrom
  <2>1. /\ rd' = NextSlot(rd)
        /\ pb_readfrom' = total_items <=> r_pc' = "wrap"
    BY <1>13, <1>P, ItemsAssumption
       DEF AdvanceReadFrom, rd, Norm, NextSlot, Slots
  <2>2. wr' = wr /\ rd' # wr' /\ Whole(slots[rd])' /\ QueuedWhole'
    BY <1>13, <2>1, TakeStep DEF AdvanceReadFrom
  <2> QED
    BY <1>13, <2>1, <2>2 DEF AdvanceReadFrom
<1>14. CASE WrapReadFrom
  <2>1. rd' = rd /\ wr' = wr /\ pb_readfrom' # total_items
    BY <1>14, ItemsAssumption DEF WrapReadFrom, wr, rd, Norm
  <2>2. QueuedWhole'
    BY <1>14, <2>1 DEF WrapReadFrom, QueuedWhole, Queued, Between
  <2> QED
    BY <1>14, <2>1, <2>2 DEF WrapReadFrom
<1>15. CASE ReadLength
  <2>1. rd' = rd /\ wr' = wr /\ QueuedWhole'
    BY <1>15, QuietStep DEF ReadLength, shared
  <2> QED
    BY <1>15, <2>1, <1>P DEF ReadLength
<1>16. CASE ReadData
  <2>1. rd' = rd /\ wr' = wr /\ QueuedWhole'
    BY <1>16, QuietStep DEF ReadData, shared
  <2> QED
    BY <1>16, <2>1, <1>P DEF ReadData
<1>17. CASE ReadLoadCount
  <2>1. rd' = rd /\ wr' = wr /\ QueuedWhole'
    BY <1>17, QuietStep DEF ReadLoadCount, shared
  <2> QED
    BY <1>17, <2>1 DEF ReadLoadCount
<1>18. CASE ReadStoreCount
  <2>1. rd' = rd /\ wr' = wr /\ QueuedWhole'
    BY <1>18, QuietStep DEF ReadStoreCount, shared
  <2> QED
    BY <1>18, <2>1 DEF ReadStoreCount
<1>19. CASE UNCHANGED vars
  <2>1. rd' = rd /\ wr' = wr /\ QueuedWhole'
    BY <1>19, QuietStep DEF vars
  <2> QED
    BY <1>19, <2>1 DEF vars
<1> QED
  BY <1>1, <1>2, <1>3, <1>4, <1>5, <1>6, <1>7, <1>8, <1>9, <1>10, <1>11,
     <1>12, <1>13, <1>14, <1>15, <1>16, <1>17, <1>18, <1>19
     DEF Next, WriterStep, ReaderStep

(* The ring BlockBufferCreate sets up has nothing queued. *)
LEMMA InitInv == Init => TypeOK /\ IInv
<1> SUFFICES ASSUME Init
             PROVE  TypeOK /\ IInv
  OBVIOUS
<1>1. TypeOK
  BY ItemsAssumption, CounterAssumption
     DEF Init, TypeOK, Slots, Pointers, Counters, Items, Content, NoItem, Copying
<1>2. rd = total_items - 1 /\ wr = 0
  BY ItemsAssumption DEF Init, rd, wr, Norm
<1>3. QueuedWhole
  BY <1>2, ItemsAssumption DEF QueuedWhole, Queued, Between, Slots
<1>4. WriterPosition /\ ReaderPosition
  BY ItemsAssumption DEF Init, WriterPosition, ReaderPosition, Copying
<1>5. WriterItem /\ TakenWhole /\ NoTornRead
  BY DEF Init, WriterItem, TakenWhole, NoTornRead
<1> QED
  BY <1>1, <1>3, <1>4, <1>5 DEF IInv

-----------------------------------------------------------------------------
(* No interleaving of one writer and one reader takes a variable out of its *)
(* type or breaks what the threads rely on between their steps.             *)
THEOREM Invariance == Spec => [](TypeOK /\ IInv)
<1>1. Init => TypeOK /\ IInv
  BY InitInv
<1>2. (TypeOK /\ IInv) /\ [Next]_vars => (TypeOK /\ IInv)'
  BY TypeStep, InvStep
<1> QED
  BY <1>1, <1>2, PTL DEF Spec

(* Type correctness: the pointers of BlockBufferWrite and BlockBufferRead   *)
(* stay within what BlockBufferCreate allocated, and no call leaves one at  *)
(* pb_tail.                                                                 *)
THEOREM TypeCorrect == Spec => []TypeOK
  BY Invariance, PTL

(* A successful BlockBufferRead never returns a torn or unwritten item.     *)
THEOREM ReadsAreWhole == Spec => []NoTornRead
<1>1. TypeOK /\ IInv => NoTornRead
  BY DEF IInv
<1> QED
  BY <1>1, Invariance, PTL

(* prvCopyQueueData fills only an item that is neither queued nor being     *)
(* copied by BlockBufferRead.                                               *)
THEOREM WriterOwnsItsSlot == Spec => []SlotOwnership
<1>1. TypeOK /\ IInv => SlotOwnership
  <2> SUFFICES ASSUME TypeOK, IInv, w_pc \in Copying
               PROVE  /\ pb_writeto \in Slots
                      /\ ~Queued(pb_writeto)
                      /\ r_pc \in {"length", "data"}
                            => pb_writeto # pb_readfrom
    BY DEF SlotOwnership
  <2>1. wr = pb_writeto /\ wr # rd /\ wr \in Slots /\ rd \in Slots
    BY Positions DEF IInv, WriterPosition, Copying
  <2>2. ~Queued(wr)
    BY <2>1, RingMoves DEF Queued
  <2>3. r_pc \in {"length", "data"} => rd = pb_readfrom
    BY Positions DEF IInv, ReaderPosition
  <2> QED
    BY <2>1, <2>2, <2>3
<1> QED
  BY <1>1, Invariance, PTL
==============================================================================
