---------------------------- MODULE MCLines_proofs ----------------------------
(***************************************************************************)
(* The block buffer implements the mailbox under the mapping of             *)
(* MCBlockBuffer, for every size of the ring, every set of messages and     *)
(* every width of the counter: each step of a thread puts, takes, delivers  *)
(* or answers, or is a stutter.                                             *)
(*                                                                          *)
(* The buffers of the network thread, for any choice of lines, any room and *)
(* any size of the ring with two readers: what they hold, that every type   *)
(* is registered, and that readers which do not meet take each package      *)
(* once.                                                                    *)
(***************************************************************************)
EXTENDS MCLines, BlockBuffer_proofs, SequenceTheorems

(* While a call runs its last answer is gone.                               *)
Unanswered == /\ w_pc # "idle" => w_ret = "none"
              /\ r_pc # "idle" => r_ret = "none"

LEMMA UnansweredStep == Unanswered /\ [Next]_vars => Unanswered'
<1> SUFFICES ASSUME Unanswered, [Next]_vars
             PROVE  Unanswered'
  OBVIOUS
<1> USE DEF Unanswered, shared, writer, reader
<1>1. CASE WriteBusy \/ WriteFull \/ \E m \in Messages : WriteEnter(m)
  BY <1>1 DEF WriteBusy, WriteFull, WriteEnter
<1>2. CASE WriterStep
  BY <1>2 DEF WriterStep, WriteLength, WriteData, WriteLoadCount, WriteStoreCount,
              AdvanceWriteTo, WrapWriteTo
<1>3. CASE ReaderStep
  BY <1>3 DEF ReaderStep, ReadBusy, ReadEmpty, ReadEnter, AdvanceReadFrom, WrapReadFrom,
              ReadLength, ReadData, ReadLoadCount, ReadStoreCount
<1>4. CASE UNCHANGED vars
  BY <1>4 DEF vars
<1> QED
  BY <1>1, <1>2, <1>3, <1>4 DEF Next

-----------------------------------------------------------------------------
(* The queue *)

Count == CountItems(rd, wr)

(* A queue is a sequence of items, the k-th from the k-th place, and these  *)
(* places are the queued ones: neither end of the ring is among them.       *)
QueueShape ==
    /\ Count \in 0 .. total_items - 1
    /\ \A k \in 1 .. total_items : Place(k) \in Slots
    /\ \A k \in 1 .. Count : Place(k) # rd /\ (wr # rd => Place(k) # wr)
    /\ QueuedItems \in Seq(Items) /\ Len(QueuedItems) = Count
    /\ \A k \in 1 .. Count : QueuedItems[k] = slots[Place(k)]

LEMMA QueueIsSeq == TypeOK => QueueShape
<1> SUFFICES ASSUME TypeOK
             PROVE  QueueShape
  OBVIOUS
<1>1. rd \in Slots /\ wr \in Slots /\ total_items \in Nat
  BY Positions, ItemsAssumption
<1>2. Count \in 0 .. total_items - 1
  BY <1>1, ItemsAssumption DEF Count, CountItems, Slots
<1>3. \A k \in 1 .. total_items : Place(k) \in Slots
  BY <1>1 DEF Place, Slots
<1>4. \A k \in 1 .. Count : Place(k) # rd /\ (wr # rd => Place(k) # wr)
  BY <1>1 DEF Place, Slots, Count, CountItems
<1>5. \A k \in 1 .. Count : slots[Place(k)] \in Items
  <2>1. \A k \in 1 .. Count : Place(k) \in Slots
    BY <1>1, <1>2, <1>3
  <2> QED
    BY <2>1 DEF TypeOK
<1>6. QueuedItems = [k \in 1 .. Count |-> slots[Place(k)]]
  BY DEF QueuedItems, Count
<1>7. QueuedItems \in Seq(Items) /\ Len(QueuedItems) = Count
  BY <1>2, <1>5, <1>6
<1> QED
  BY <1>2, <1>3, <1>4, <1>6, <1>7 DEF QueueShape

LEMMA QueueStaysSeq == TypeOK' => QueueShape'
  BY QueueIsSeq, PTL

(* Steps that keep both ends and the queued places keep the queue.          *)
LEMMA QueueKept ==
    ASSUME TypeOK, TypeOK', rd' = rd, wr' = wr,
           \A i \in Slots : i # rd /\ i # wr => slots'[i] = slots[i],
           wr # rd \/ slots' = slots
    PROVE  QueuedItems' = QueuedItems
<1>1. /\ Count \in Nat /\ Count <= total_items - 1 /\ total_items \in Nat
      /\ QueuedItems \in Seq(Items) /\ Len(QueuedItems) = Count
      /\ \A k \in 1 .. Count : /\ QueuedItems[k] = slots[Place(k)]
                               /\ Place(k) \in Slots /\ Place(k) # rd
                               /\ wr # rd => Place(k) # wr
  BY QueueIsSeq, ItemsAssumption DEF QueueShape
<1>2. /\ QueuedItems' \in Seq(Items) /\ Len(QueuedItems') = Count'
      /\ \A k \in 1 .. Count' : QueuedItems'[k] = slots'[Place(k)']
  BY QueueStaysSeq DEF QueueShape
<1>3. Count' = Count /\ \A k \in 1 .. Count : Place(k)' = Place(k)
  BY DEF Count, Place, CountItems
<1>4. \A k \in 1 .. Count : QueuedItems'[k] = QueuedItems[k]
  BY <1>1, <1>2, <1>3
<1> QED
  BY <1>1, <1>2, <1>3, <1>4, SeqEqual

(* pb_writeto leaves its item: the item is appended.                        *)
LEMMA QueuePut ==
    ASSUME TypeOK, TypeOK', rd' = rd, wr' = NextSlot(wr), wr # rd, slots' = slots
    PROVE  QueuedItems' = Append(QueuedItems, slots[wr]) /\ Count < total_items - 1
<1>1. /\ Count \in Nat /\ total_items \in Nat
      /\ QueuedItems \in Seq(Items) /\ Len(QueuedItems) = Count
      /\ \A k \in 1 .. Count : QueuedItems[k] = slots[Place(k)]
  BY QueueIsSeq, ItemsAssumption DEF QueueShape
<1>2. /\ QueuedItems' \in Seq(Items) /\ Len(QueuedItems') = Count'
      /\ \A k \in 1 .. Count' : QueuedItems'[k] = slots'[Place(k)']
  BY QueueStaysSeq DEF QueueShape
<1>3. rd \in Slots /\ wr \in Slots /\ slots[wr] \in Items
  BY Positions DEF TypeOK
<1>4. Count' = Count + 1 /\ Place(Count + 1) = wr /\ Count < total_items - 1
  BY <1>3, ItemsAssumption DEF Count, CountItems, Place, NextSlot, Slots
<1>5. \A k \in 1 .. Count + 1 : Place(k)' = Place(k)
  BY DEF Place
<1>6. /\ Append(QueuedItems, slots[wr]) \in Seq(Items)
      /\ Len(Append(QueuedItems, slots[wr])) = Count + 1
      /\ \A k \in 1 .. Count : Append(QueuedItems, slots[wr])[k] = QueuedItems[k]
      /\ Append(QueuedItems, slots[wr])[Count + 1] = slots[wr]
  BY <1>1, <1>3, AppendProperties
<1>7. \A k \in 1 .. Count + 1 : QueuedItems'[k] = Append(QueuedItems, slots[wr])[k]
  <2> SUFFICES ASSUME NEW k \in 1 .. Count + 1
               PROVE  QueuedItems'[k] = Append(QueuedItems, slots[wr])[k]
    OBVIOUS
  <2>1. QueuedItems'[k] = slots[Place(k)]
    BY <1>2, <1>4, <1>5
  <2>2. CASE k = Count + 1
    BY <2>1, <2>2, <1>4, <1>6
  <2>3. CASE k \in 1 .. Count
    BY <2>1, <2>3, <1>1, <1>6
  <2> QED
    BY <2>2, <2>3, <1>1
<1> QED
  BY <1>1, <1>2, <1>4, <1>6, <1>7, SeqEqual

(* pb_readfrom reaches the next item: it is the head of the queue.          *)
LEMMA QueueTake ==
    ASSUME TypeOK, TypeOK', wr' = wr, rd' = NextSlot(rd), NextSlot(rd) # wr, slots' = slots
    PROVE  /\ QueuedItems # << >> /\ slots[rd'] = Head(QueuedItems)
           /\ QueuedItems' = Tail(QueuedItems)
<1>1. /\ Count \in Nat /\ total_items \in Nat
      /\ QueuedItems \in Seq(Items) /\ Len(QueuedItems) = Count
      /\ \A k \in 1 .. Count : QueuedItems[k] = slots[Place(k)]
  BY QueueIsSeq, ItemsAssumption DEF QueueShape
<1>2. /\ QueuedItems' \in Seq(Items) /\ Len(QueuedItems') = Count'
      /\ \A k \in 1 .. Count' : QueuedItems'[k] = slots'[Place(k)']
  BY QueueStaysSeq DEF QueueShape
<1>3. rd \in Slots /\ wr \in Slots
  BY Positions
<1>4. Count > 0 /\ Count' = Count - 1 /\ Place(1) = rd'
  BY <1>3, ItemsAssumption DEF Count, CountItems, Place, NextSlot, Slots
<1>5. \A k \in 1 .. Count - 1 : Place(k)' = Place(k + 1)
  <2> SUFFICES ASSUME NEW k \in 1 .. Count - 1
               PROVE  Place(k)' = Place(k + 1)
    OBVIOUS
  <2>1. k \in Nat /\ k >= 1 /\ k < total_items /\ rd \in 0 .. total_items - 1
    BY <1>1, <1>3, QueueIsSeq DEF QueueShape, Slots
  <2> QED
    BY <1>1, <2>1 DEF Place, NextSlot
<1>6. QueuedItems # << >> /\ Head(QueuedItems) = slots[rd']
  <2>1. QueuedItems # << >> /\ Head(QueuedItems) = QueuedItems[1]
    BY <1>1, <1>4
  <2> QED
    BY <2>1, <1>1, <1>4
<1>7. /\ Tail(QueuedItems) \in Seq(Items) /\ Len(Tail(QueuedItems)) = Count - 1
      /\ \A k \in 1 .. Count - 1 : Tail(QueuedItems)[k] = QueuedItems[k + 1]
  BY <1>1, <1>4, <1>6
<1>8. \A k \in 1 .. Count - 1 : QueuedItems'[k] = Tail(QueuedItems)[k]
  BY <1>1, <1>2, <1>4, <1>5, <1>7
<1> QED
  BY <1>1, <1>2, <1>4, <1>6, <1>7, <1>8, SeqEqual

-----------------------------------------------------------------------------
(* The steps *)

Wholes == {[length |-> m, data |-> m] : m \in Messages}
Hand == ItemInHand
Got == IF r_pc = "idle" THEN r_item ELSE NoItem
Answer == IF w_pc = "wrap" THEN "put" ELSE w_ret

Inv == TypeOK /\ IInv /\ Unanswered

(* What the mailbox sees of the reader, when its step is not one of these.  *)
LEMMA HandKept ==
    ASSUME UNCHANGED reader, rd' = rd,
           r_pc \in {"wrap", "length", "data"} => slots'[rd] = slots[rd]
    PROVE  Hand' = Hand /\ Got' = Got /\ r_ret' = r_ret
BY DEF reader, Hand, ItemInHand, Got

LEMMA WriterMaps ==
    ASSUME Inv, Inv', WriteBusy \/ WriteFull \/ (\E m \in Messages : WriteEnter(m))
                      \/ WriterStep
    PROVE  [Mail!Next]_(Mail!vars)
<1> USE DEF Copying
<1>0. /\ TypeOK /\ IInv /\ TypeOK' /\ rd \in Slots /\ wr \in Slots
      /\ w_pc \in Copying => w_msg \in Messages /\ wr # rd /\ wr = pb_writeto
      /\ w_pc \in Copying \union {"wrap"} => w_ret = "none"
  BY Positions DEF Inv, IInv, WriterPosition, Unanswered
<1>1. ASSUME UNCHANGED <<shared, reader>>
      PROVE  QueuedItems' = QueuedItems /\ Hand' = Hand /\ Got' = Got /\ r_ret' = r_ret
  <2>1. rd' = rd /\ wr' = wr /\ slots' = slots
    BY <1>1 DEF shared, rd, wr, Norm
  <2> QED
    BY <1>0, <1>1, <2>1, QueueKept, HandKept
<1>2. CASE WriteBusy
  <2>1. Answer' = "RW_BUSY" /\ Answer # "put" /\ UNCHANGED <<shared, reader>>
    BY <1>0, <1>2 DEF WriteBusy, Answer, TypeOK
  <2>2. Mail!AnswerWrite("RW_BUSY")
    BY <1>1, <2>1 DEF Mail!AnswerWrite, Hand, Got, Answer
  <2> QED
    BY <2>2 DEF Mail!Next
<1>3. CASE WriteFull
  <2>1. Answer' = "FULL" /\ Answer # "put" /\ UNCHANGED <<shared, reader>>
    BY <1>0, <1>3 DEF WriteFull, Answer, TypeOK
  <2>2. Len(QueuedItems) = total_items - 1
    <3>1. rd = pb_readfrom /\ wr = pb_writeto
      BY <1>0, <1>3, Positions, ItemsAssumption DEF WriteFull, BlockBufferPtrIsValid
    <3>2. Count >= total_items - 1
      BY <1>3, <3>1 DEF WriteFull, Count
    <3>3. Count \in 0 .. total_items - 1 /\ Len(QueuedItems) = Count
      BY <1>0, QueueIsSeq DEF QueueShape
    <3> QED
      BY <3>2, <3>3, ItemsAssumption
  <2>3. Mail!AnswerWrite("FULL")
    BY <1>1, <2>1, <2>2 DEF Mail!AnswerWrite, Hand, Got, Answer
  <2> QED
    BY <2>3 DEF Mail!Next
<1>4. ASSUME NEW m \in Messages, WriteEnter(m)
      PROVE  [Mail!Next]_(Mail!vars)
  <2>1. Answer' = "none" /\ Answer # "put" /\ UNCHANGED <<shared, reader>>
    BY <1>0, <1>4 DEF WriteEnter, Answer, TypeOK
  <2>2. Mail!AnswerWrite("none")
    BY <1>1, <2>1 DEF Mail!AnswerWrite, Hand, Got, Answer
  <2> QED
    BY <2>2 DEF Mail!Next
<1>5. CASE WriteLength \/ WriteData
  <2>1. /\ rd' = rd /\ wr' = wr /\ UNCHANGED reader /\ Answer' = Answer
        /\ \A i \in Slots : i # wr => slots'[i] = slots[i]
        /\ wr # rd
    BY <1>0, <1>5 DEF WriteLength, WriteData, rd, wr, Norm, Answer, TypeOK
  <2>2. QueuedItems' = QueuedItems
    BY <1>0, <2>1, QueueKept
  <2>3. Hand' = Hand /\ Got' = Got /\ r_ret' = r_ret
    BY <1>0, <2>1, HandKept
  <2> QED
    BY <2>1, <2>2, <2>3 DEF Mail!vars, Hand, Got, Answer
<1>6. CASE WriteLoadCount \/ WriteStoreCount
  <2>1. /\ rd' = rd /\ wr' = wr /\ UNCHANGED reader /\ Answer' = Answer /\ slots' = slots
    BY <1>6 DEF WriteLoadCount, WriteStoreCount, rd, wr, Norm, Answer, shared
  <2>2. QueuedItems' = QueuedItems
    BY <1>0, <2>1, QueueKept
  <2>3. Hand' = Hand /\ Got' = Got /\ r_ret' = r_ret
    BY <2>1, HandKept
  <2> QED
    BY <2>1, <2>2, <2>3 DEF Mail!vars, Hand, Got, Answer
<1>7. CASE AdvanceWriteTo
  <2>1. /\ rd' = rd /\ wr' = NextSlot(wr) /\ UNCHANGED reader /\ slots' = slots
        /\ Answer = "none" /\ Answer' \in {"put", "ok"}
    BY <1>0, <1>7, ItemsAssumption
       DEF AdvanceWriteTo, rd, wr, Norm, NextSlot, Slots, Answer
  <2>2. wr # rd /\ slots[wr] \in Wholes
    BY <1>0, <1>7 DEF AdvanceWriteTo, IInv, WriterItem, Wholes
  <2>3. QueuedItems' = Append(QueuedItems, slots[wr]) /\ Len(QueuedItems) < total_items - 1
    BY <1>0, <2>1, <2>2, QueuePut, QueueIsSeq DEF QueueShape
  <2>4. Hand' = Hand /\ Got' = Got /\ r_ret' = r_ret
    BY <2>1, HandKept
  <2>5. Mail!Put(slots[wr])
    BY <2>1, <2>3, <2>4 DEF Mail!Put, Hand, Got, Answer
  <2> QED
    BY <2>2, <2>5 DEF Mail!Next, Wholes
<1>8. CASE WrapWriteTo
  <2>1. /\ rd' = rd /\ wr' = wr /\ UNCHANGED reader /\ slots' = slots
        /\ Answer = "put" /\ Answer' = "ok"
    <3>1. pb_writeto = total_items
      BY <1>0, <1>8 DEF WrapWriteTo, IInv, WriterPosition
    <3> QED
      BY <1>8, <3>1, ItemsAssumption DEF WrapWriteTo, rd, wr, Norm, Answer
  <2>2. QueuedItems' = QueuedItems
    BY <1>0, <2>1, QueueKept
  <2>3. Hand' = Hand /\ Got' = Got /\ r_ret' = r_ret
    BY <2>1, HandKept
  <2>4. Mail!AnswerWrite("ok")
    BY <2>1, <2>2, <2>3 DEF Mail!AnswerWrite, Hand, Got, Answer
  <2> QED
    BY <2>4 DEF Mail!Next
<1> QED
  BY <1>2, <1>3, <1>4, <1>5, <1>6, <1>7, <1>8 DEF WriterStep

LEMMA ReaderMaps ==
    ASSUME Inv, Inv', ReaderStep
    PROVE  [Mail!Next]_(Mail!vars)
<1>0. /\ TypeOK /\ IInv /\ TypeOK' /\ rd \in Slots /\ wr \in Slots
      /\ r_pc # "idle" => r_ret = "none"
      /\ r_pc \in {"length", "data"} => rd = pb_readfrom
  BY Positions DEF Inv, IInv, ReaderPosition, Unanswered
<1>1. ASSUME UNCHANGED <<shared, writer>>
      PROVE  QueuedItems' = QueuedItems /\ Answer' = Answer /\ rd' = rd /\ slots' = slots
  <2>1. rd' = rd /\ wr' = wr /\ slots' = slots /\ Answer' = Answer
    BY <1>1 DEF shared, writer, rd, wr, Norm, Answer
  <2> QED
    BY <1>0, <2>1, QueueKept
<1>2. CASE ReadBusy
  <2>1. /\ Hand = NoItem /\ Hand' = NoItem /\ Got' = Got /\ r_ret' = "RW_BUSY"
        /\ UNCHANGED <<shared, writer>>
    BY <1>2 DEF ReadBusy, Hand, ItemInHand, Got
  <2>2. Mail!AnswerRead("RW_BUSY")
    BY <1>1, <2>1 DEF Mail!AnswerRead, Hand, Got, Answer
  <2> QED
    BY <2>2 DEF Mail!Next
<1>3. CASE ReadEmpty
  <2>1. /\ Hand = NoItem /\ Hand' = NoItem /\ Got' = Got /\ r_ret' = "EMPTY"
        /\ UNCHANGED <<shared, writer>>
    BY <1>3 DEF ReadEmpty, Hand, ItemInHand, Got
  <2>2. QueuedItems = << >>
    <3>1. rd = pb_readfrom /\ wr = pb_writeto
      BY <1>0, <1>3, Positions, ItemsAssumption DEF ReadEmpty, BlockBufferPtrIsValid
    <3>2. Count = 0
      BY <1>3, <3>1 DEF ReadEmpty, Count
    <3>3. QueuedItems \in Seq(Items) /\ Len(QueuedItems) = 0
      BY <1>0, <3>2, QueueIsSeq DEF QueueShape
    <3> QED
      BY <3>3
  <2>3. Mail!AnswerRead("EMPTY")
    BY <1>1, <2>1, <2>2 DEF Mail!AnswerRead, Hand, Got, Answer
  <2> QED
    BY <2>3 DEF Mail!Next
<1>4. CASE ReadEnter
  <2>1. /\ Hand = NoItem /\ Hand' = NoItem /\ Got' = NoItem /\ r_ret' = "none"
        /\ UNCHANGED <<shared, writer>>
    BY <1>4 DEF ReadEnter, Hand, ItemInHand, Got
  <2>2. Mail!AnswerRead("none")
    BY <1>1, <2>1 DEF Mail!AnswerRead, Hand, Got, Answer
  <2> QED
    BY <2>2 DEF Mail!Next
<1>5. CASE AdvanceReadFrom
  <2>1. /\ wr' = wr /\ rd' = NextSlot(rd) /\ UNCHANGED writer /\ slots' = slots
        /\ r_pc = "advance" /\ r_pc' \in {"wrap", "length"} /\ r_ret' = "none"
    BY <1>0, <1>5, Positions, ItemsAssumption
       DEF AdvanceReadFrom, rd, wr, Norm, NextSlot, Slots, IInv, ReaderPosition
  <2>2. NextSlot(rd) # wr
    BY <1>0, <2>1 DEF IInv, ReaderPosition
  <2>3. /\ QueuedItems # << >> /\ slots[rd'] = Head(QueuedItems)
        /\ QueuedItems' = Tail(QueuedItems)
    BY <1>0, <2>1, <2>2, QueueTake
  <2>4. Hand = NoItem /\ Hand' = slots[rd'] /\ Got' = NoItem /\ Answer' = Answer
    BY <2>1 DEF Hand, ItemInHand, Got, Answer, writer
  <2>5. Mail!Take
    BY <2>1, <2>3, <2>4 DEF Mail!Take, Hand, Got, Answer
  <2> QED
    BY <2>5 DEF Mail!Next
<1>6. CASE WrapReadFrom
  <2>1. /\ wr' = wr /\ rd' = rd /\ UNCHANGED <<writer, r_ret>> /\ slots' = slots
        /\ r_pc = "wrap" /\ r_pc' = "length"
    <3>1. pb_readfrom = total_items
      BY <1>0, <1>6 DEF WrapReadFrom, IInv, ReaderPosition
    <3> QED
      BY <1>6, <3>1, ItemsAssumption DEF WrapReadFrom, rd, wr, Norm
  <2>2. QueuedItems' = QueuedItems
    BY <1>0, <2>1, QueueKept
  <2>3. Hand' = Hand /\ Got' = Got /\ Answer' = Answer
    BY <2>1 DEF Hand, ItemInHand, Got, Answer, writer
  <2> QED
    BY <2>1, <2>2, <2>3 DEF Mail!vars, Hand, Got, Answer
<1>7. CASE ReadLength
  <2>1. Hand' = Hand /\ Got' = Got /\ r_ret' = r_ret /\ UNCHANGED <<shared, writer>>
    <3>1. r_pc = "length" /\ r_pc' = "data" /\ UNCHANGED <<shared, writer, r_ret>>
      BY <1>7 DEF ReadLength
    <3> QED
      BY <1>1, <3>1 DEF Hand, ItemInHand, Got
  <2> QED
    BY <1>1, <2>1 DEF Mail!vars, Hand, Got, Answer
<1>8. CASE ReadData
  <2>1. r_pc = "data" /\ r_pc' = "load" /\ UNCHANGED <<shared, writer, r_ret>>
    BY <1>8 DEF ReadData
  <2>2. r_item' = slots[rd]
    <3>1. slots[rd] \in Items /\ r_item.length = slots[rd].length
      BY <1>0, <2>1 DEF TypeOK, IInv, TakenWhole
    <3>2. r_item' = [length |-> slots[rd].length, data |-> slots[rd].data]
      BY <1>0, <1>8, <2>1, <3>1 DEF ReadData
    <3> QED
      BY <3>1, <3>2 DEF Items
  <2>3. Hand' = Hand /\ Got' = Got
    BY <1>1, <2>1, <2>2 DEF Hand, ItemInHand, Got
  <2> QED
    BY <1>1, <2>1, <2>3 DEF Mail!vars, Hand, Got, Answer
<1>9. CASE ReadLoadCount
  <2>1. /\ r_pc = "load" /\ r_pc' = "store" /\ UNCHANGED <<shared, writer, r_ret, r_item>>
    BY <1>9 DEF ReadLoadCount
  <2>2. Hand' = Hand /\ Got' = Got
    BY <2>1 DEF Hand, ItemInHand, Got
  <2> QED
    BY <1>1, <2>1, <2>2 DEF Mail!vars, Hand, Got, Answer
<1>10. CASE ReadStoreCount
  <2>1. /\ r_pc = "store" /\ r_pc' = "idle" /\ r_ret' = "ok" /\ r_item' = r_item
        /\ UNCHANGED <<slots, pb_writeto, pb_readfrom, writer>>
    BY <1>10 DEF ReadStoreCount
  <2>2. rd' = rd /\ wr' = wr /\ slots' = slots /\ Answer' = Answer
    BY <2>1 DEF rd, wr, Norm, Answer, writer
  <2>3. QueuedItems' = QueuedItems
    BY <1>0, <2>2, QueueKept
  <2>4. r_item # NoItem
    BY <1>0, <2>1, MessagesAssumption DEF IInv, TakenWhole, Whole, NoItem
  <2>5. Hand = r_item /\ Hand' = NoItem /\ Got' = r_item
    BY <2>1 DEF Hand, ItemInHand, Got
  <2>6. Mail!Deliver
    BY <2>1, <2>2, <2>3, <2>4, <2>5 DEF Mail!Deliver, Hand, Got, Answer
  <2> QED
    BY <2>6 DEF Mail!Next
<1> QED
  BY <1>2, <1>3, <1>4, <1>5, <1>6, <1>7, <1>8, <1>9, <1>10 DEF ReaderStep

(* BlockBufferWrite and BlockBufferRead, interleaved in any way, behave as  *)
(* an atomic first-in first-out mailbox of total_items - 1 items: nothing   *)
(* accepted is lost, doubled, torn or reordered, and full and empty are     *)
(* answered only when they are true.                                        *)
THEOREM ImplementsMailbox == Spec => Mail!Spec
<1>1. Init => Mail!Init
  <2> SUFFICES ASSUME Init
               PROVE  Mail!Init
    OBVIOUS
  <2>1. rd = total_items - 1 /\ wr = 0
    BY ItemsAssumption DEF Init, rd, wr, Norm
  <2>2. Count = 0 /\ TypeOK
    BY <2>1, InitInv, ItemsAssumption DEF Count, CountItems
  <2>3. QueuedItems = << >>
    <3>1. QueuedItems \in Seq(Items) /\ Len(QueuedItems) = 0
      BY <2>2, QueueIsSeq DEF QueueShape
    <3> QED
      BY <3>1
  <2> QED
    BY <2>3 DEF Init, Mail!Init, ItemInHand
<1>2. Init => Inv
  BY InitInv DEF Init, Inv, Unanswered
<1>3. Inv /\ [Next]_vars => Inv'
  BY TypeStep, InvStep, UnansweredStep DEF Inv
<1>4. Inv /\ Inv' /\ [Next]_vars => [Mail!Next]_(Mail!vars)
  <2> SUFFICES ASSUME Inv, Inv', [Next]_vars
               PROVE  [Mail!Next]_(Mail!vars)
    OBVIOUS
  <2>1. CASE UNCHANGED vars
    <3>1. /\ UNCHANGED <<shared, writer, reader>> /\ rd' = rd /\ wr' = wr
          /\ slots' = slots
      BY <2>1 DEF vars, shared, rd, wr, Norm
    <3>2. QueuedItems' = QueuedItems
      BY <3>1, QueueKept DEF Inv
    <3>3. Hand' = Hand /\ Got' = Got /\ r_ret' = r_ret
      BY <3>1, HandKept
    <3> QED
      BY <3>1, <3>2, <3>3 DEF Mail!vars, writer, Hand, Got
  <2> QED
    BY <2>1, WriterMaps, ReaderMaps DEF Next
<1> QED
  BY <1>1, <1>2, <1>3, <1>4, PTL DEF Spec, Mail!Spec

-----------------------------------------------------------------------------
(* The network thread: its turn *)

LEMMA LeastExists ==
    ASSUME NEW s, s \subseteq 1 .. 9, s # {}
    PROVE  \E i \in s : \A j \in s : i <= j
<1>1. \A j \in s : j \in {1, 2, 3, 4, 5, 6, 7, 8, 9}
  OBVIOUS
<1>2. CASE 1 \in s \/ 2 \in s \/ 3 \in s
  BY <1>1, <1>2
<1>3. CASE ~(1 \in s \/ 2 \in s \/ 3 \in s) /\ (4 \in s \/ 5 \in s \/ 6 \in s)
  BY <1>1, <1>3
<1>4. CASE ~(1 \in s \/ 2 \in s \/ 3 \in s \/ 4 \in s \/ 5 \in s \/ 6 \in s)
  <2>1. \A j \in s : j \in {7, 8, 9}
    BY <1>1, <1>4
  <2>2. CASE 7 \in s
    BY <2>1, <2>2
  <2>3. CASE 7 \notin s /\ 8 \in s
    BY <2>1, <2>3
  <2>4. CASE s = {9}
    BY <2>4
  <2> QED
    BY <2>1, <2>2, <2>3, <2>4
<1> QED
  BY <1>2, <1>3, <1>4

LEMMA FirstIsLine ==
    ASSUME NEW s, s \subseteq Net!Turn, s # {}
    PROVE  Net!First(s) \in Lines
<1>1. DOMAIN Net!Order = 1 .. 9
  BY DEF Net!Order
<1>2. PICK i \in s : \A j \in s : i <= j
  BY <1>1, LeastExists DEF Net!Turn
<1> DEFINE c == CHOOSE k \in s : \A j \in s : k <= j
<1>3. c \in s
  BY <1>2, Zenon
<1>4. Net!First(s) = Net!Order[c]
  BY DEF Net!First
<1> HIDE DEF c
<1> QED
  BY <1>3, <1>4 DEF Net!Turn

LEMMA TurnGoesOn ==
    Net!First(Net!Turn) \in Lines /\ \A l, came : Net!Then(l, came) \in Lines
<1>1. Net!Turn # {}
  BY LinesAssumption DEF Net!Turn
<1>2. Net!First(Net!Turn) \in Lines
  BY <1>1, FirstIsLine
<1>3. ASSUME NEW l
      PROVE  Net!Following(l) \in Lines
  <2> DEFINE later == {i \in Net!Turn : \E j \in DOMAIN Net!Order :
                                          Net!Order[j] = l /\ j < i}
  <2>1. CASE later = {}
    BY <1>2, <2>1 DEF Net!Following
  <2>2. CASE later # {}
    <3>1. Net!First(later) \in Lines
      BY <2>2, FirstIsLine
    <3> QED
      BY <2>2, <3>1 DEF Net!Following
  <2> QED
    BY <2>1, <2>2
<1> QED
  BY <1>2, <1>3 DEF Net!Then

-----------------------------------------------------------------------------
(* The network thread: types *)

(* Where both threads are, and what the buffers of the lines hold.          *)
LineTypes ==
    /\ net \in Lines \cup {"setup", "exit", "written", "forward"}
    /\ ctl \in {"register", "common", "reading", "lines"}
    /\ buffer \in [Lines \ {"common"} -> 0 .. RoomOfLine]

LEMMA LineTypesStep == LineTypes /\ [Net!Next]_(Net!vars) => LineTypes'
<1> SUFFICES ASSUME LineTypes, [Net!Next]_(Net!vars)
             PROVE  LineTypes'
  OBVIOUS
<1> USE DEF LineTypes
<1>1. ASSUME NEW l, l \in Lines \ {"common"}
      PROVE  /\ Net!PushToBlockBuffer(l) \in [Lines \ {"common"} -> 0 .. RoomOfLine]
             /\ Net!UdpSendFunCMD(l) \in [Lines \ {"common"} -> 0 .. RoomOfLine]
  BY <1>1, LinesAssumption DEF Net!PushToBlockBuffer, Net!UdpSendFunCMD
<1>2. CASE Net!Setup
  BY <1>2, TurnGoesOn DEF Net!Setup
<1>3. CASE Net!CmdRecvAndHandle
  BY <1>1, <1>3, TurnGoesOn DEF Net!CmdRecvAndHandle
<1>4. CASE Net!ReceiveCommon
  BY <1>4, TurnGoesOn DEF Net!ReceiveCommon
<1>5. CASE Net!ForwardRead
  BY <1>5 DEF Net!ForwardRead
<1>6. CASE Net!ZhwNetworkRecvForward
  BY <1>6, TurnGoesOn DEF Net!ZhwNetworkRecvForward
<1>7. ASSUME NEW l \in Lines, Net!ReceiveLine(l) \/ Net!SendLine(l)
      PROVE  LineTypes'
  <2>1. l \in Lines \ {"common"}
    BY <1>7 DEF Net!ReceiveLine, Net!SendLine, Net!Sending
  <2>2. CASE Net!ReceiveLine(l)
    <3>1. /\ net' \in Lines /\ ctl' = ctl
          /\ buffer' = buffer \/ buffer' = Net!PushToBlockBuffer(l)
      BY <2>2, TurnGoesOn DEF Net!ReceiveLine
    <3> QED
      BY <1>1, <2>1, <3>1
  <2>3. CASE Net!SendLine(l)
    <3>1. net' \in Lines /\ ctl' = ctl /\ buffer' = Net!UdpSendFunCMD(l)
      BY <2>3, TurnGoesOn DEF Net!SendLine
    <3> QED
      BY <1>1, <2>1, <3>1
  <2> QED
    BY <1>7, <2>2, <2>3
<1>8. CASE Net!ZhwBufferRegister
  BY <1>8 DEF Net!ZhwBufferRegister
<1>9. CASE Net!ControlRead \/ Net!RegisterBcuCallState
  BY <1>9 DEF Net!ControlRead, Net!RegisterBcuCallState
<1>10. CASE Net!SystemControl
  BY <1>10, LinesAssumption DEF Net!SystemControl
<1>11. CASE Net!Put
  <2>1. \A l \in Lines \cap Net!Sending : l \in Lines \ {"common"}
    BY DEF Net!Sending
  <2> QED
    BY <1>1, <1>11, <2>1 DEF Net!Put
<1>12. CASE UNCHANGED Net!vars
  BY <1>12 DEF Net!vars
<1> QED
  BY <1>2, <1>3, <1>4, <1>5, <1>6, <1>7, <1>8, <1>9, <1>10, <1>11, <1>12
     DEF Net!Next, Net!NetWorkMain

(* The registrations made so far.                                           *)
Kinds == {Net!Registrations[i] : i \in DOMAIN Net!Registrations}

RegistrationTypes ==
    /\ done \in 0 .. 5 /\ (ctl = "register" <=> done < 5)
    /\ registered \in Seq(Kinds) /\ Len(registered) = done
    /\ \A i \in 1 .. done : registered[i] = Net!Registrations[i]

LEMMA RegistrationStep ==
    RegistrationTypes /\ [Net!Next]_(Net!vars) => RegistrationTypes'
<1> SUFFICES ASSUME RegistrationTypes, [Net!Next]_(Net!vars)
             PROVE  RegistrationTypes'
  OBVIOUS
<1>1. CASE UNCHANGED <<registered, done>> /\ (ctl' = "register" <=> ctl = "register")
  BY <1>1 DEF RegistrationTypes
<1>2. CASE Net!ZhwBufferRegister
  <2>1. DOMAIN Net!Registrations = 1 .. 5 /\ Len(Net!Registrations) = 5
    BY DEF Net!Registrations
  <2>2. ctl = "register" /\ done \in 0 .. 4 /\ Len(registered) = done
    BY <1>2 DEF Net!ZhwBufferRegister, RegistrationTypes
  <2>3. Net!Registrations[done + 1].buffer \notin Net!WalkedOver
    <3>1. \A i \in 1 .. done - 1 :
             Net!Registrations[done + 1].buffer # Net!Registrations[i].buffer
      <4>0. /\ Net!Registrations[1].buffer = "ptt-rx"
            /\ Net!Registrations[2].buffer = "dev_vol"
            /\ Net!Registrations[3].buffer = "dev_vol"
            /\ Net!Registrations[4].buffer = "all-dev-state"
            /\ Net!Registrations[5].buffer = "version-check"
        BY DEF Net!Registrations
      <4>1. done = 0 \/ done = 1 \/ done = 2 \/ done = 3 \/ done = 4
        BY <2>2
      <4>2. CASE done = 0 \/ done = 1
        BY <4>2
      <4>3. CASE done = 2
        <5>1. \A i \in 1 .. done - 1 : i = 1
          BY <4>3
        <5> QED
          BY <4>0, <4>3, <5>1
      <4>4. CASE done = 3
        <5>1. \A i \in 1 .. done - 1 : i = 1 \/ i = 2
          BY <4>4
        <5> QED
          BY <4>0, <4>4, <5>1
      <4>5. CASE done = 4
        <5>1. \A i \in 1 .. done - 1 : i = 1 \/ i = 2 \/ i = 3
          BY <4>5
        <5> QED
          BY <4>0, <4>5, <5>1
      <4> QED
        BY <4>1, <4>2, <4>3, <4>4, <4>5
    <3>2. \A i \in 1 .. done - 1 : registered[i] = Net!Registrations[i]
      BY <2>2 DEF RegistrationTypes
    <3> QED
      BY <2>2, <3>1, <3>2 DEF Net!WalkedOver
  <2>4. /\ registered' = Append(registered, Net!Registrations[done + 1])
        /\ done' = done + 1
        /\ ctl' = IF done' = 5 THEN "common" ELSE ctl
    BY <1>2, <2>1, <2>3 DEF Net!ZhwBufferRegister
  <2>5. Net!Registrations[done + 1] \in Kinds
    BY <2>1, <2>2 DEF Kinds
  <2> PICK x \in Kinds : x = Net!Registrations[done + 1]
    BY <2>5
  <2>6. /\ Append(registered, x) \in Seq(Kinds) /\ Len(Append(registered, x)) = done + 1
        /\ \A i \in 1 .. done : Append(registered, x)[i] = registered[i]
        /\ Append(registered, x)[done + 1] = x
    BY <2>2, AppendProperties DEF RegistrationTypes
  <2>7. \A i \in 1 .. done + 1 : registered'[i] = Net!Registrations[i]
    <3>1. \A i \in 1 .. done + 1 : i \in 1 .. done \/ i = done + 1
      BY <2>2
    <3> QED
      BY <2>4, <2>6, <3>1 DEF RegistrationTypes
  <2> QED
    BY <2>2, <2>4, <2>6, <2>7 DEF RegistrationTypes
<1>3. CASE Net!ControlRead \/ Net!RegisterBcuCallState \/ Net!SystemControl
  BY <1>1, <1>3 DEF Net!ControlRead, Net!RegisterBcuCallState, Net!SystemControl
<1>4. CASE Net!NetWorkMain \/ Net!Put \/ UNCHANGED Net!vars
  BY <1>1, <1>4 DEF Net!NetWorkMain, Net!Setup, Net!CmdRecvAndHandle, Net!ReceiveCommon,
     Net!ForwardRead, Net!ZhwNetworkRecvForward, Net!ReceiveLine, Net!SendLine, Net!Put,
     Net!vars
<1> QED
  BY <1>2, <1>3, <1>4 DEF Net!Next

-----------------------------------------------------------------------------
(* The network thread: network-udp-common-recv and its two readers *)

Packages == Arriving \cup {Net!Nothing}
Steps == {"out", "load", "store", "copy", "end"}

RingTypes ==
    /\ memory \in [Net!Places -> Packages] /\ taken \in [Net!Places -> 0 .. 2]
    /\ writeto \in Net!Places /\ readfrom \in Net!Places
    /\ at \in [Net!Readers -> Steps] /\ seen \in [Net!Readers -> Net!Places]
    /\ hand \in [Net!Readers -> Packages] /\ met \in BOOLEAN

(* A thread is where it reads as long as its reader is in a read.           *)
ReadersInPlace ==
    /\ net = "forward" <=> at["network"] # "out"
    /\ ctl = "reading" <=> at["control"] # "out"

LEMMA NextPlaceIsPlace ==
    \A p \in Net!Places : Net!NextPlace(p) \in Net!Places /\ Net!NextPlace(p) # p
BY LinesAssumption DEF Net!Places, Net!NextPlace

LEMMA CountedType ==
    ASSUME RingTypes, NEW p, NEW n \in 0 .. 2
    PROVE  Net!Counted(p, n) \in [Net!Places -> 0 .. 2]
BY DEF Net!Counted, RingTypes

LEMMA WriteType ==
    ASSUME RingTypes, NEW package \in Arriving, Net!Write(package)
    PROVE  /\ memory' \in [Net!Places -> Packages] /\ taken' \in [Net!Places -> 0 .. 2]
           /\ writeto' \in Net!Places /\ readfrom' = readfrom
<1>1. CASE UNCHANGED Net!ring
  BY <1>1 DEF Net!ring, RingTypes
<1>2. CASE /\ memory' = [memory EXCEPT ![writeto] = package]
           /\ taken' = Net!Counted(writeto, 0) /\ writeto' = Net!NextPlace(writeto)
           /\ UNCHANGED readfrom
  <2>1. taken' \in [Net!Places -> 0 .. 2]
    BY <1>2, CountedType
  <2>2. memory' \in [Net!Places -> Packages]
    BY <1>2 DEF RingTypes, Packages
  <2> QED
    BY <1>2, <2>1, <2>2, NextPlaceIsPlace DEF RingTypes
<1> QED
  BY <1>1, <1>2 DEF Net!Write

LEMMA ReadBeginType ==
    ASSUME RingTypes, NEW r \in Net!Readers, Net!ReadBegin(r)
    PROVE  RingTypes' /\ at' \in {[at EXCEPT ![r] = "load"], [at EXCEPT ![r] = "end"]}
<1>1. at' \in {[at EXCEPT ![r] = "load"], [at EXCEPT ![r] = "end"]}
  BY DEF Net!ReadBegin
<1>2. at' \in [Net!Readers -> Steps]
  BY <1>1 DEF RingTypes, Steps
<1>3. met' \in BOOLEAN
  BY DEF Net!ReadBegin, RingTypes
<1>4. taken' \in [Net!Places -> 0 .. 2]
  BY DEF Net!ReadBegin, RingTypes
<1> QED
  BY <1>1, <1>2, <1>3, <1>4 DEF Net!ReadBegin, RingTypes

LEMMA ReadType ==
    ASSUME RingTypes, NEW r \in Net!Readers, Net!Read(r)
    PROVE  /\ RingTypes' /\ at[r] # "out"
           /\ at' \in {[at EXCEPT ![r] = s] : s \in {"store", "copy", "end"}}
<1>1. CASE Net!ReadLoad(r)
  BY <1>1 DEF Net!ReadLoad, Net!ring, RingTypes, Steps
<1>2. CASE Net!ReadStore(r)
  <2>1. readfrom' \in Net!Places
    BY <1>2, NextPlaceIsPlace DEF Net!ReadStore, RingTypes
  <2>2. 0 \in Net!Places
    BY LinesAssumption DEF Net!Places
  <2> QED
    BY <1>2, <2>1, <2>2 DEF Net!ReadStore, RingTypes, Steps
<1>3. CASE Net!ReadCopy(r)
  <2>1. (IF taken[readfrom] < 2 THEN taken[readfrom] + 1 ELSE 2) \in 0 .. 2
    BY DEF RingTypes
  <2>2. taken' \in [Net!Places -> 0 .. 2]
    BY <1>3, <2>1, CountedType DEF Net!ReadCopy
  <2>3. memory[readfrom] \in Packages
    BY DEF RingTypes
  <2>4. hand' \in [Net!Readers -> Packages]
    BY <1>3, <2>3 DEF Net!ReadCopy, RingTypes
  <2>5. /\ at[r] = "copy" /\ at' = [at EXCEPT ![r] = "end"]
        /\ UNCHANGED <<memory, writeto, readfrom, seen, met>>
    BY <1>3 DEF Net!ReadCopy
  <2> QED
    BY <2>2, <2>4, <2>5 DEF RingTypes, Steps
<1> QED
  BY <1>1, <1>2, <1>3 DEF Net!Read

LEMMA LineNames ==
    \A l \in Lines : l # "forward" /\ l # "written"
<1>1. DOMAIN Net!Order = 1 .. 9
  BY DEF Net!Order
<1>2. \A i \in 1 .. 9 : i = 1 \/ i = 2 \/ i = 3 \/ i = 4 \/ i = 5 \/ i = 6 \/ i = 7
                        \/ i = 8 \/ i = 9
  OBVIOUS
<1>3. /\ Net!Order[1] = "cmd" /\ Net!Order[2] = "common" /\ Net!Order[3] = "big"
      /\ Net!Order[4] = "heart" /\ Net!Order[5] = "shell" /\ Net!Order[6] = "send big"
      /\ Net!Order[7] = "send cmd" /\ Net!Order[8] = "send common"
      /\ Net!Order[9] = "send shell"
  BY DEF Net!Order
<1>4. ASSUME NEW i \in 1 .. 9
      PROVE  Net!Order[i] # "forward" /\ Net!Order[i] # "written"
  BY <1>2, <1>3
<1>5. ASSUME NEW l \in Lines
      PROVE  l # "forward" /\ l # "written"
  <2>1. PICK i \in 1 .. 9 : l = Net!Order[i]
    BY <1>1, LinesAssumption
  <2> QED
    BY <1>4, <2>1
<1> QED
  BY <1>5

LEMMA RingStep ==
    RingTypes /\ ReadersInPlace /\ [Net!Next]_(Net!vars) => (RingTypes /\ ReadersInPlace)'
<1> SUFFICES ASSUME RingTypes, ReadersInPlace, [Net!Next]_(Net!vars)
             PROVE  (RingTypes /\ ReadersInPlace)'
  OBVIOUS
<1>0. "network" \in Net!Readers /\ "control" \in Net!Readers
  BY DEF Net!Readers
<1>1. ASSUME UNCHANGED Net!ring, UNCHANGED Net!readVars,
             net' = "forward" <=> net = "forward", ctl' = "reading" <=> ctl = "reading"
      PROVE  (RingTypes /\ ReadersInPlace)'
  BY <1>1 DEF Net!ring, Net!readVars, RingTypes, ReadersInPlace
<1>2. \A l \in Lines : l # "forward"
  BY LineNames
<1>3. CASE Net!NetWorkMain
  <2>1. CASE Net!Setup
    BY <1>1, <1>2, <2>1, TurnGoesOn DEF Net!Setup
  <2>2. CASE Net!CmdRecvAndHandle
    BY <1>1, <1>2, <2>2, TurnGoesOn DEF Net!CmdRecvAndHandle
  <2>3. CASE Net!ReceiveCommon
    <3>1. CASE UNCHANGED Net!ring
      <4>1. net = "common" /\ net' # "forward" /\ UNCHANGED <<ctl, Net!readVars>>
        BY <1>2, <2>3, TurnGoesOn DEF Net!ReceiveCommon
      <4> QED
        BY <1>1, <3>1, <4>1
    <3>2. CASE net' = "written" /\ \E type \in Arriving : Net!Write(type)
      <4>1. net = "common" /\ UNCHANGED <<ctl, Net!readVars>>
        BY <2>3 DEF Net!ReceiveCommon
      <4>2. /\ memory' \in [Net!Places -> Packages] /\ taken' \in [Net!Places -> 0 .. 2]
            /\ writeto' \in Net!Places /\ readfrom' = readfrom
        BY <3>2, WriteType
      <4> QED
        BY <3>2, <4>1, <4>2 DEF RingTypes, ReadersInPlace, Net!readVars
    <3> QED
      BY <2>3, <3>1, <3>2 DEF Net!ReceiveCommon
  <2>4. CASE Net!ForwardRead
    <3>1. CASE net = "written" /\ net' = "forward" /\ Net!ReadBegin("network")
      <4>1. RingTypes' /\ at'["network"] # "out" /\ at'["control"] = at["control"]
        BY <1>0, <3>1, ReadBeginType DEF RingTypes
      <4> QED
        BY <2>4, <3>1, <4>1 DEF ReadersInPlace, Net!ForwardRead
    <3>2. CASE net = "forward" /\ Net!Read("network") /\ UNCHANGED net
      <4>1. RingTypes' /\ at'["network"] # "out" /\ at'["control"] = at["control"]
        BY <1>0, <3>2, ReadType DEF RingTypes
      <4> QED
        BY <2>4, <3>2, <4>1 DEF ReadersInPlace, Net!ForwardRead
    <3> QED
      BY <2>4, <3>1, <3>2 DEF Net!ForwardRead
  <2>5. CASE Net!ZhwNetworkRecvForward
    <3>1. /\ net' # "forward" /\ UNCHANGED <<ctl, Net!ring, seen, met>>
          /\ at' = [at EXCEPT !["network"] = "out"]
          /\ hand' = [hand EXCEPT !["network"] = Net!Nothing]
      BY <1>2, <2>5, TurnGoesOn DEF Net!ZhwNetworkRecvForward, Net!ReadEnd
    <3>2. RingTypes'
      BY <1>0, <3>1 DEF RingTypes, Net!ring, Steps, Packages
    <3> QED
      BY <1>0, <3>1, <3>2 DEF ReadersInPlace, RingTypes
  <2>6. ASSUME NEW l \in Lines, Net!ReceiveLine(l) \/ Net!SendLine(l)
        PROVE  (RingTypes /\ ReadersInPlace)'
    <3>1. net = l /\ net' \in Lines /\ UNCHANGED <<ctl, Net!ring, Net!readVars>>
      BY <2>6, TurnGoesOn DEF Net!ReceiveLine, Net!SendLine
    <3> QED
      BY <1>1, <1>2, <3>1
  <2> QED
    BY <1>3, <2>1, <2>2, <2>3, <2>4, <2>5, <2>6 DEF Net!NetWorkMain
<1>4. CASE Net!ControlRead
  <2>1. CASE ctl = "common" /\ ctl' = "reading" /\ Net!ReadBegin("control")
    <3>1. RingTypes' /\ at'["control"] # "out" /\ at'["network"] = at["network"]
      BY <1>0, <2>1, ReadBeginType DEF RingTypes
    <3> QED
      BY <1>4, <2>1, <3>1 DEF ReadersInPlace, Net!ControlRead
  <2>2. CASE ctl = "reading" /\ Net!Read("control") /\ UNCHANGED ctl
    <3>1. RingTypes' /\ at'["control"] # "out" /\ at'["network"] = at["network"]
      BY <1>0, <2>2, ReadType DEF RingTypes
    <3> QED
      BY <1>4, <2>2, <3>1 DEF ReadersInPlace, Net!ControlRead
  <2> QED
    BY <1>4, <2>1, <2>2 DEF Net!ControlRead
<1>5. CASE Net!RegisterBcuCallState
  <2>1. /\ ctl' = "lines" /\ UNCHANGED <<net, Net!ring, seen, met>>
        /\ at' = [at EXCEPT !["control"] = "out"]
        /\ hand' = [hand EXCEPT !["control"] = Net!Nothing]
    BY <1>5 DEF Net!RegisterBcuCallState, Net!ReadEnd
  <2>2. RingTypes'
    BY <1>0, <2>1 DEF RingTypes, Net!ring, Steps, Packages
  <2> QED
    BY <1>0, <2>1, <2>2 DEF ReadersInPlace, RingTypes
<1>6. CASE Net!ZhwBufferRegister
  BY <1>1, <1>6 DEF Net!ZhwBufferRegister
<1>7. CASE Net!SystemControl \/ Net!Put \/ UNCHANGED Net!vars
  BY <1>1, <1>7 DEF Net!SystemControl, Net!Put, Net!vars
<1> QED
  BY <1>3, <1>4, <1>5, <1>6, <1>7 DEF Net!Next

-----------------------------------------------------------------------------
(* The network thread: packages forwarded, and its type invariant *)

ForwardTypes ==
    /\ forwarded \in [Net!Buffers -> Nat]
    /\ \A b \in Net!Buffers : forwarded[b] <= Net!Capacity[b]
    /\ bcu_call_state \in Net!CallStates

LEMMA CapacityIsNat == \A b \in Net!Buffers : Net!Capacity[b] \in Nat
BY DEF Net!Capacity

LEMMA ForwardStep == ForwardTypes /\ [Net!Next]_(Net!vars) => ForwardTypes'
<1> SUFFICES ASSUME ForwardTypes, [Net!Next]_(Net!vars)
             PROVE  ForwardTypes'
  OBVIOUS
<1>1. CASE UNCHANGED <<forwarded, bcu_call_state>>
  BY <1>1 DEF ForwardTypes, Net!Buffers, Net!Capacity, Net!CallStates
<1>2. CASE Net!ZhwNetworkRecvForward
  <2>1. bcu_call_state' = bcu_call_state
    BY <1>2 DEF Net!ZhwNetworkRecvForward
  <2>2. PICK to : \/ forwarded' = forwarded
                  \/ /\ forwarded[to] < Net!Capacity[to]
                     /\ forwarded' = [forwarded EXCEPT ![to] = @ + 1]
    BY <1>2 DEF Net!ZhwNetworkRecvForward
  <2>3. CASE to \in Net!Buffers
    BY <2>1, <2>2, <2>3, CapacityIsNat DEF ForwardTypes
  <2>4. CASE to \notin Net!Buffers
    <3>1. forwarded' = forwarded
      BY <2>2, <2>4 DEF ForwardTypes
    <3> QED
      BY <1>1, <2>1, <3>1
  <2> QED
    BY <2>3, <2>4
<1>3. CASE Net!RegisterBcuCallState
  <2>1. forwarded' = forwarded /\ bcu_call_state' \in Net!CallStates
    BY <1>3 DEF Net!RegisterBcuCallState, ForwardTypes
  <2> QED
    BY <2>1 DEF ForwardTypes
<1>4. CASE Net!ZhwBufferRegister \/ Net!ControlRead \/ Net!SystemControl \/ Net!Put
  BY <1>1, <1>4 DEF Net!ZhwBufferRegister, Net!ControlRead, Net!SystemControl, Net!Put
<1>5. CASE Net!NetWorkMain
  <2>1. CASE Net!Setup \/ Net!CmdRecvAndHandle \/ Net!ReceiveCommon \/ Net!ForwardRead
    BY <1>1, <2>1 DEF Net!Setup, Net!CmdRecvAndHandle, Net!ReceiveCommon, Net!ForwardRead
  <2>2. ASSUME NEW l, Net!ReceiveLine(l) \/ Net!SendLine(l)
        PROVE  ForwardTypes'
    BY <1>1, <2>2 DEF Net!ReceiveLine, Net!SendLine
  <2> QED
    BY <1>2, <1>5, <2>1, <2>2 DEF Net!NetWorkMain
<1>6. CASE UNCHANGED Net!vars
  BY <1>1, <1>6 DEF Net!vars
<1> QED
  BY <1>2, <1>3, <1>4, <1>5, <1>6 DEF Net!Next

LinesTypes == LineTypes /\ RegistrationTypes /\ RingTypes /\ ReadersInPlace /\ ForwardTypes

LEMMA LinesTypesInit == Net!Init => LinesTypes
<1> SUFFICES ASSUME Net!Init
             PROVE  LinesTypes
  OBVIOUS
<1>1. LineTypes
  BY LinesAssumption DEF Net!Init, LineTypes
<1>2. RegistrationTypes
  BY DEF Net!Init, RegistrationTypes
<1>3. RingTypes
  <2>1. writeto \in Net!Places /\ readfrom \in Net!Places /\ 0 \in Net!Places
    BY LinesAssumption DEF Net!Init, Net!Places
  <2>2. memory \in [Net!Places -> Packages] /\ taken \in [Net!Places -> 0 .. 2]
    BY DEF Net!Init, Packages
  <2>3. /\ at \in [Net!Readers -> Steps] /\ seen \in [Net!Readers -> Net!Places]
        /\ hand \in [Net!Readers -> Packages] /\ met \in BOOLEAN
    BY <2>1 DEF Net!Init, Packages, Steps
  <2> QED
    BY <2>1, <2>2, <2>3 DEF RingTypes
<1>4. ReadersInPlace
  BY DEF Net!Init, ReadersInPlace, Net!Readers
<1>5. ForwardTypes
  BY CapacityIsNat DEF Net!Init, ForwardTypes, Net!CallStates
<1> QED
  BY <1>1, <1>2, <1>3, <1>4, <1>5 DEF LinesTypes

LEMMA LinesTypesStep == LinesTypes /\ [Net!Next]_(Net!vars) => LinesTypes'
BY LineTypesStep, RegistrationStep, RingStep, ForwardStep DEF LinesTypes

LEMMA LinesTypesGiveTypeOK == LinesTypes => Net!TypeOK
<1> SUFFICES ASSUME LinesTypes
             PROVE  Net!TypeOK
  OBVIOUS
<1>1. /\ net \in Lines \cup {"setup", "exit", "written", "forward"}
      /\ ctl \in {"register", "common", "reading", "lines"}
  BY DEF LinesTypes, LineTypes
<1>2. \A l \in DOMAIN buffer : buffer[l] \in 0 .. [k \in Lines |-> RoomOfLine][l]
  BY DEF LinesTypes, LineTypes
<1>3. registered \in Seq(Kinds) /\ done \in 0 .. Len(Net!Registrations)
  BY DEF LinesTypes, RegistrationTypes, Net!Registrations
<1>4. \A b \in Net!Buffers : forwarded[b] \in 0 .. Net!Capacity[b]
  BY CapacityIsNat DEF LinesTypes, ForwardTypes
<1> QED
  BY <1>1, <1>2, <1>3, <1>4
     DEF Net!TypeOK, LinesTypes, RingTypes, ForwardTypes, Packages, Steps, Kinds

LEMMA TypesGiveAllRegistered == LinesTypes => Net!AllRegistered
<1> SUFFICES ASSUME LinesTypes, ctl # "register", NEW i \in DOMAIN Net!Registrations
             PROVE  \E j \in Net!Found(Net!Registrations[i].line, Net!Registrations[i].type) :
                      registered[j] = Net!Registrations[i]
  BY DEF Net!AllRegistered
<1>1. i \in 1 .. 5
  BY DEF Net!Registrations
<1>2. registered[i] = Net!Registrations[i] /\ DOMAIN registered = 1 .. 5
  BY <1>1 DEF LinesTypes, RegistrationTypes
<1>3. i \in Net!Found(Net!Registrations[i].line, Net!Registrations[i].type)
  BY <1>1, <1>2 DEF Net!Found
<1> QED
  BY <1>2, <1>3

-----------------------------------------------------------------------------
(* The network thread: readers that have never met *)

(* One package, or none, waits in network-udp-common-recv.                  *)
NoneWaits == writeto = Net!NextPlace(readfrom)
OneWaits == writeto = Net!NextPlace(Net!NextPlace(readfrom))

(* The place whose package is still to be taken.                            *)
ToTake(p) ==
    \/ OneWaits /\ p = Net!NextPlace(readfrom)
    \/ p = readfrom /\ \E r \in Net!Readers : at[r] = "copy"

Apart ==
    /\ \A r, q \in Net!Readers : r # q => at[r] = "out" \/ at[q] = "out"
    /\ NoneWaits \/ (OneWaits /\ net \in {"written", "forward"})
    /\ \A r \in Net!Readers :
         /\ at[r] \in {"load", "store"} => OneWaits
         /\ at[r] = "store" => seen[r] = readfrom
    /\ at["network"] \in {"copy", "end"} => NoneWaits
    /\ \A p \in Net!Places : taken[p] = IF ToTake(p) THEN 0 ELSE 1

NeverMet == met = TRUE \/ Apart

LEMMA WaitingIsNoneOrOne ==
    ASSUME readfrom \in Net!Places, writeto \in Net!Places
    PROVE  /\ Net!Waiting \in 0 .. Items_ - 1
           /\ Net!Waiting = 0 <=> NoneWaits
           /\ Net!Waiting = 1 <=> OneWaits
BY LinesAssumption DEF Net!Places, Net!Waiting, Net!NextPlace, NoneWaits, OneWaits

LEMMA ApartTakesOnce == RingTypes /\ NeverMet => Net!TakenOnce
<1> SUFFICES ASSUME RingTypes, Apart
             PROVE  /\ \A p \in Net!Places :
                         taken[p] = IF p \in Net!Queued \cup Net!Moved THEN 0 ELSE 1
                    /\ Net!Waiting <= 1
                    /\ Net!Waiting = 1 => net \in {"written", "forward"}
  BY DEF Net!TakenOnce, NeverMet
<1>0. readfrom \in Net!Places /\ writeto \in Net!Places
  BY DEF RingTypes
<1>1. /\ Net!Waiting = 0 <=> NoneWaits
      /\ Net!Waiting = 1 <=> OneWaits
  BY <1>0, WaitingIsNoneOrOne
<1>2. ~(NoneWaits /\ OneWaits)
  BY <1>0, NextPlaceIsPlace DEF NoneWaits, OneWaits
<1>3. CASE Net!Waiting = 0
  <2>1. Net!Queued = {}
    BY <1>3 DEF Net!Queued
  <2> QED
    BY <1>1, <1>2, <1>3, <2>1 DEF Apart, ToTake, Net!Moved
<1>4. CASE Net!Waiting = 1
  <2>0. 1 .. Net!Waiting = {1}
    BY <1>4
  <2> DEFINE place(k) == IF readfrom + k < Items_ THEN readfrom + k
                         ELSE readfrom + k - Items_
  <2>a. Net!Queued = {place(k) : k \in {1}}
    BY <2>0 DEF Net!Queued
  <2>b. place(1) = Net!NextPlace(readfrom)
    BY <1>0, LinesAssumption DEF Net!NextPlace, Net!Places
  <2>1. Net!Queued = {Net!NextPlace(readfrom)}
    BY <2>a, <2>b
  <2> QED
    BY <1>1, <1>2, <1>4, <2>1 DEF Apart, ToTake, Net!Moved
<1> QED
  BY <1>1, <1>3, <1>4 DEF Apart

LEMMA MetStays == met = TRUE /\ [Net!Next]_(Net!vars) => met' = TRUE
<1> SUFFICES ASSUME met = TRUE, [Net!Next]_(Net!vars)
             PROVE  met' = TRUE
  OBVIOUS
<1>1. ASSUME NEW r, Net!ReadBegin(r) \/ Net!Read(r) \/ Net!ReadEnd(r)
      PROVE  met' = TRUE
  BY <1>1 DEF Net!ReadBegin, Net!Read, Net!ReadLoad, Net!ReadStore, Net!ReadCopy, Net!ReadEnd
<1>2. CASE Net!NetWorkMain
  BY <1>1, <1>2 DEF Net!NetWorkMain, Net!Setup, Net!CmdRecvAndHandle, Net!ReceiveCommon,
     Net!ForwardRead, Net!ZhwNetworkRecvForward, Net!ReceiveLine, Net!SendLine, Net!readVars
<1>3. CASE ~Net!NetWorkMain
  BY <1>1, <1>3 DEF Net!Next, Net!ZhwBufferRegister, Net!ControlRead,
     Net!RegisterBcuCallState, Net!SystemControl, Net!Put, Net!readVars, Net!vars
<1> QED
  BY <1>2, <1>3

(* What is needed of a step that moves no pointer of the ring.              *)
LEMMA ApartKept ==
    ASSUME Apart, UNCHANGED <<Net!ring, at, seen>>,
           net \in {"written", "forward"} => net' \in {"written", "forward"}
    PROVE  Apart'
<1>1. NoneWaits' = NoneWaits /\ OneWaits' = OneWaits
  BY DEF NoneWaits, OneWaits, Net!NextPlace, Net!ring
<1>2. \A p : ToTake(p)' = ToTake(p)
  BY <1>1 DEF ToTake, Net!NextPlace, Net!ring
<1> QED
  BY <1>1, <1>2 DEF Apart, Net!ring

(* A package is written while the network thread does not read; the other   *)
(* reader is not between its two accesses to the pointer.                   *)
LEMMA ApartWrite ==
    ASSUME RingTypes, ReadersInPlace, Apart, NEW package, Net!Write(package), met = FALSE,
           net = "common", net' = "written", UNCHANGED <<at, seen>>
    PROVE  Apart'
<1>0. /\ readfrom \in Net!Places /\ writeto \in Net!Places
      /\ "network" \in Net!Readers /\ "control" \in Net!Readers
      /\ taken \in [Net!Places -> 0 .. 2]
  BY DEF RingTypes, Net!Readers
<1>1. NoneWaits /\ ~OneWaits
  BY <1>0, NextPlaceIsPlace DEF Apart, NoneWaits, OneWaits
<1>2. at["network"] = "out" /\ \A r \in Net!Readers : at[r] \notin {"load", "store"}
  BY <1>0, <1>1 DEF ReadersInPlace, Apart
<1>3. CASE UNCHANGED Net!ring
  BY <1>3, ApartKept
<1>4. CASE /\ taken' = Net!Counted(writeto, 0) /\ writeto' = Net!NextPlace(writeto)
           /\ readfrom' = readfrom
  <2>1. writeto = Net!NextPlace(readfrom) /\ taken' = [taken EXCEPT ![writeto] = 0]
    BY <1>1, <1>4 DEF NoneWaits, Net!Counted
  <2>2. OneWaits'
    BY <1>4, <2>1 DEF OneWaits, Net!NextPlace
  <2>3. \A p : ToTake(p)' <=> (p = writeto \/ ToTake(p))
    BY <1>1, <1>4, <2>1, <2>2 DEF ToTake, Net!NextPlace
  <2>4. \A p \in Net!Places : taken'[p] = IF ToTake(p)' THEN 0 ELSE 1
    BY <1>0, <2>1, <2>3 DEF Apart
  <2> QED
    BY <1>2, <1>4, <2>2, <2>4 DEF Apart
<1> QED
  BY <1>3, <1>4 DEF Net!Write

LEMMA ApartReadBegin ==
    ASSUME RingTypes, Apart, NEW r \in Net!Readers, Net!ReadBegin(r), at[r] = "out",
           met' = FALSE, net \in {"written", "forward"} => net' \in {"written", "forward"}
    PROVE  Apart'
<1>1. \A q \in Net!Readers : at[q] = "out"
  BY DEF Net!ReadBegin
<1>2. UNCHANGED <<Net!ring, seen>>
  BY DEF Net!ReadBegin, Net!ring
<1>3. NoneWaits' = NoneWaits /\ OneWaits' = OneWaits
  BY <1>2 DEF NoneWaits, OneWaits, Net!NextPlace, Net!ring
<1>4. \/ at' = [at EXCEPT ![r] = "load"] /\ Net!Waiting > 0
      \/ at' = [at EXCEPT ![r] = "end"] /\ ~(Net!Waiting > 0)
  BY <1>1 DEF Net!ReadBegin, Net!NotEmpty, Net!Busy
<1>5. \/ at' = [at EXCEPT ![r] = "load"] /\ OneWaits
      \/ at' = [at EXCEPT ![r] = "end"] /\ NoneWaits
  BY <1>4, WaitingIsNoneOrOne DEF RingTypes, Apart
<1>6. \A q \in Net!Readers : at'[q] = IF q = r THEN at'[r] ELSE "out"
  BY <1>1, <1>5 DEF RingTypes
<1>7. at'[r] \in {"load", "end"}
  BY <1>5 DEF RingTypes
<1>8. \A p : ToTake(p)' = ToTake(p)
  BY <1>1, <1>2, <1>3, <1>6, <1>7 DEF ToTake, Net!NextPlace, Net!ring
<1>9. "network" \in Net!Readers
  BY DEF Net!Readers
<1>10. \A q \in Net!Readers : /\ at'[q] \in {"load", "store"} => OneWaits
                              /\ at'[q] # "store"
  BY <1>5, <1>6, <1>7 DEF RingTypes
<1>11. at'["network"] \in {"copy", "end"} => NoneWaits
  BY <1>5, <1>6, <1>9 DEF RingTypes
<1> QED
  BY <1>2, <1>3, <1>6, <1>8, <1>10, <1>11 DEF Apart, Net!ring

LEMMA ApartRead ==
    ASSUME RingTypes, Apart, NEW r \in Net!Readers, Net!Read(r), met = FALSE, net' = net
    PROVE  Apart'
<1>0. /\ readfrom \in Net!Places /\ writeto \in Net!Places /\ "network" \in Net!Readers
      /\ at \in [Net!Readers -> Steps] /\ taken \in [Net!Places -> 0 .. 2]
      /\ seen \in [Net!Readers -> Net!Places]
  BY DEF RingTypes, Net!Readers
<1>1. at[r] # "out" /\ \A q \in Net!Readers \ {r} : at[q] = "out"
  BY DEF Net!Read, Net!ReadLoad, Net!ReadStore, Net!ReadCopy, Apart
<1>2. CASE Net!ReadLoad(r)
  <2>1. /\ at[r] = "load" /\ at' = [at EXCEPT ![r] = "store"]
        /\ seen' = [seen EXCEPT ![r] = readfrom] /\ UNCHANGED Net!ring
    BY <1>2 DEF Net!ReadLoad
  <2>2. NoneWaits' = NoneWaits /\ OneWaits' = OneWaits
    BY <2>1 DEF NoneWaits, OneWaits, Net!NextPlace, Net!ring
  <2>3. \A p : ToTake(p)' = ToTake(p)
    BY <1>0, <1>1, <2>1, <2>2 DEF ToTake, Net!NextPlace, Net!ring
  <2>4. OneWaits
    BY <2>1 DEF Apart
  <2> QED
    BY <1>0, <1>1, <2>1, <2>2, <2>3, <2>4 DEF Apart, Net!ring
<1>3. CASE Net!ReadStore(r)
  <2>1. /\ at[r] = "store" /\ at' = [at EXCEPT ![r] = "copy"]
        /\ readfrom' = Net!NextPlace(seen[r]) /\ UNCHANGED <<taken, writeto>>
    BY <1>3 DEF Net!ReadStore
  <2>2. OneWaits /\ readfrom' = Net!NextPlace(readfrom)
    BY <2>1 DEF Apart
  <2>3. NoneWaits'
    BY <2>1, <2>2 DEF NoneWaits, OneWaits, Net!NextPlace
  <2>4. readfrom' \in Net!Places /\ ~OneWaits'
    <3>1. readfrom' \in Net!Places
      BY <1>0, <2>2, NextPlaceIsPlace
    <3>2. PICK f \in Net!Places : f = readfrom'
      BY <3>1
    <3> QED
      BY <2>3, <3>2, NextPlaceIsPlace DEF NoneWaits, OneWaits, Net!NextPlace
  <2>5. \A p : ToTake(p)' <=> p = Net!NextPlace(readfrom)
    BY <1>0, <2>1, <2>2, <2>4 DEF ToTake
  <2>6. \A p : ToTake(p) <=> p = Net!NextPlace(readfrom)
    BY <1>0, <1>1, <2>1, <2>2 DEF ToTake
  <2>7. \A p \in Net!Places : taken'[p] = IF ToTake(p)' THEN 0 ELSE 1
    BY <2>1, <2>5, <2>6 DEF Apart
  <2> QED
    BY <1>0, <1>1, <2>1, <2>3, <2>7 DEF Apart
<1>4. CASE Net!ReadCopy(r)
  <2>1. /\ at[r] = "copy" /\ at' = [at EXCEPT ![r] = "end"]
        /\ taken' = Net!Counted(readfrom, IF taken[readfrom] < 2
                                          THEN taken[readfrom] + 1 ELSE 2)
        /\ UNCHANGED <<writeto, readfrom, seen>>
    BY <1>4 DEF Net!ReadCopy
  <2>2. NoneWaits' = NoneWaits /\ OneWaits' = OneWaits
    BY <2>1 DEF NoneWaits, OneWaits, Net!NextPlace
  <2>3. taken[readfrom] = 0
    BY <1>0, <2>1 DEF Apart, ToTake
  <2>4. taken' = [taken EXCEPT ![readfrom] = 1]
    BY <2>1, <2>3 DEF Net!Counted
  <2>5. \A p : ToTake(p)' <=> (ToTake(p) /\ p # readfrom)
    <3>1. \A q \in Net!Readers : at'[q] # "copy"
      BY <1>0, <1>1, <2>1
    <3>2. Net!NextPlace(readfrom) # readfrom /\ Net!NextPlace(readfrom)' = Net!NextPlace(readfrom)
      BY <1>0, <2>1, NextPlaceIsPlace DEF Net!NextPlace
    <3>3. \A p : ToTake(p)' <=> (OneWaits /\ p = Net!NextPlace(readfrom))
      BY <2>1, <2>2, <3>1, <3>2 DEF ToTake
    <3> QED
      BY <3>2, <3>3 DEF ToTake
  <2>6. \A p \in Net!Places : taken'[p] = IF ToTake(p)' THEN 0 ELSE 1
    BY <1>0, <2>4, <2>5 DEF Apart
  <2> QED
    BY <1>0, <1>1, <2>1, <2>2, <2>6 DEF Apart
<1> QED
  BY <1>2, <1>3, <1>4 DEF Net!Read

LEMMA ApartReadEnd ==
    ASSUME RingTypes, ReadersInPlace, LineTypes, Apart, NEW r \in Net!Readers,
           Net!ReadEnd(r), UNCHANGED Net!ring, r = "network" \/ net' = net
    PROVE  Apart'
<1>1. /\ at[r] = "end" /\ at' = [at EXCEPT ![r] = "out"] /\ seen' = seen
      /\ at \in [Net!Readers -> Steps]
  BY DEF Net!ReadEnd, RingTypes
<1>2. (NoneWaits' <=> NoneWaits) /\ (OneWaits' <=> OneWaits)
  BY DEF NoneWaits, OneWaits, Net!NextPlace, Net!ring
<1>3. \A p : ToTake(p)' <=> ToTake(p)
  BY <1>1, <1>2 DEF ToTake, Net!NextPlace, Net!ring
<1>4. NoneWaits \/ net' = net
  BY <1>1 DEF Apart
<1>5. \A q \in Net!Readers : at'[q] = at[q] \/ at'[q] = "out"
  BY <1>1
<1>6. taken' = taken /\ readfrom' = readfrom /\ "network" \in Net!Readers
  BY DEF Net!ring, Net!Readers
<1>7. NoneWaits' \/ (OneWaits' /\ net' \in {"written", "forward"})
  <2>1. NoneWaits \/ (OneWaits /\ net \in {"written", "forward"})
    BY DEF Apart
  <2> QED
    BY <1>2, <1>4, <2>1
<1>8. \A q \in Net!Readers :
         /\ at'[q] \in {"load", "store"} => OneWaits'
         /\ at'[q] = "store" => seen'[q] = readfrom'
  BY <1>1, <1>2, <1>5, <1>6 DEF Apart
<1>9. at'["network"] \in {"copy", "end"} => NoneWaits'
  BY <1>2, <1>5, <1>6 DEF Apart
<1>10. \A q, o \in Net!Readers : q # o => at'[q] = "out" \/ at'[o] = "out"
  BY <1>5 DEF Apart
<1>11. \A p \in Net!Places : taken'[p] = IF ToTake(p)' THEN 0 ELSE 1
  BY <1>3, <1>6 DEF Apart
<1> QED
  BY <1>7, <1>8, <1>9, <1>10, <1>11 DEF Apart

LEMMA NeverMetStep ==
    RingTypes /\ ReadersInPlace /\ LineTypes /\ NeverMet /\ [Net!Next]_(Net!vars) => NeverMet'
<1> SUFFICES ASSUME RingTypes, ReadersInPlace, LineTypes, NeverMet, [Net!Next]_(Net!vars),
                    met = FALSE, met' = FALSE
             PROVE  Apart'
  <2>1. RingTypes /\ ReadersInPlace /\ [Net!Next]_(Net!vars) => met' \in BOOLEAN
    BY RingStep DEF RingTypes
  <2> QED
    BY <2>1, MetStays DEF NeverMet, RingTypes
<1>0. Apart /\ "network" \in Net!Readers /\ "control" \in Net!Readers
  BY DEF NeverMet, Net!Readers
<1>1. ASSUME UNCHANGED <<Net!ring, Net!readVars>>, net' = net \/ net \notin {"written", "forward"}
      PROVE  Apart'
  BY <1>0, <1>1, ApartKept DEF Net!readVars
<1>2. CASE Net!Setup
  BY <1>1, <1>2 DEF Net!Setup
<1>3. CASE Net!CmdRecvAndHandle
  BY <1>1, <1>3 DEF Net!CmdRecvAndHandle
<1>4. CASE Net!ReceiveCommon
  <2>1. net = "common" /\ UNCHANGED Net!readVars
    BY <1>4 DEF Net!ReceiveCommon
  <2>2. CASE UNCHANGED Net!ring
    BY <1>1, <2>1, <2>2
  <2>3. ASSUME net' = "written", NEW type \in Arriving, Net!Write(type)
        PROVE  Apart'
    BY <1>0, <2>1, <2>3, ApartWrite DEF Net!readVars
  <2> QED
    BY <1>4, <2>2, <2>3 DEF Net!ReceiveCommon
<1>5. CASE Net!ForwardRead
  <2>1. CASE net = "written" /\ net' = "forward" /\ Net!ReadBegin("network")
    <3>1. at["network"] = "out"
      BY <2>1 DEF ReadersInPlace
    <3> QED
      BY <1>0, <2>1, <3>1, ApartReadBegin
  <2>2. CASE net = "forward" /\ Net!Read("network") /\ UNCHANGED net
    BY <1>0, <2>2, ApartRead
  <2> QED
    BY <1>5, <2>1, <2>2 DEF Net!ForwardRead
<1>6. CASE Net!ZhwNetworkRecvForward
  BY <1>0, <1>6, ApartReadEnd DEF Net!ZhwNetworkRecvForward
<1>7. ASSUME NEW l \in Lines, Net!ReceiveLine(l) \/ Net!SendLine(l)
      PROVE  Apart'
  <2>1. net \notin {"written", "forward"} /\ UNCHANGED <<Net!ring, Net!readVars>>
    BY <1>7, LineNames DEF Net!ReceiveLine, Net!SendLine
  <2> QED
    BY <1>1, <2>1
<1>8. CASE Net!ControlRead
  <2>1. net' = net
    BY <1>8 DEF Net!ControlRead
  <2>2. CASE ctl = "common" /\ ctl' = "reading" /\ Net!ReadBegin("control")
    <3>1. at["control"] = "out"
      BY <2>2 DEF ReadersInPlace
    <3> QED
      BY <1>0, <2>1, <2>2, <3>1, ApartReadBegin
  <2>3. CASE ctl = "reading" /\ Net!Read("control") /\ UNCHANGED ctl
    BY <1>0, <2>1, <2>3, ApartRead
  <2> QED
    BY <1>8, <2>2, <2>3 DEF Net!ControlRead
<1>9. CASE Net!RegisterBcuCallState
  BY <1>0, <1>9, ApartReadEnd DEF Net!RegisterBcuCallState
<1>10. CASE Net!ZhwBufferRegister \/ Net!SystemControl \/ Net!Put
  BY <1>1, <1>10 DEF Net!ZhwBufferRegister, Net!SystemControl, Net!Put
<1>11. CASE UNCHANGED Net!vars
  BY <1>1, <1>11 DEF Net!vars
<1> QED
  BY <1>2, <1>3, <1>4, <1>5, <1>6, <1>7, <1>8, <1>9, <1>10, <1>11
     DEF Net!Next, Net!NetWorkMain

LEMMA NeverMetInit == Net!Init => NeverMet
<1> SUFFICES ASSUME Net!Init
             PROVE  Apart
  BY DEF NeverMet
<1>1. NoneWaits
  BY LinesAssumption DEF Net!Init, NoneWaits, Net!NextPlace
<1>2. ~OneWaits
  BY <1>1, LinesTypesInit, NextPlaceIsPlace DEF NoneWaits, OneWaits, LinesTypes, RingTypes
<1>3. /\ \A r \in Net!Readers : at[r] = "out"
      /\ \A p \in Net!Places : taken[p] = 1 /\ ~ToTake(p)
      /\ "network" \in Net!Readers
  BY <1>2 DEF Net!Init, ToTake, Net!Readers
<1>4. \A p \in Net!Places : taken[p] = IF ToTake(p) THEN 0 ELSE 1
  BY <1>3
<1>5. \A r \in Net!Readers : at[r] \notin {"load", "store", "copy", "end"}
  BY <1>3
<1>6. \A r, q \in Net!Readers : r # q => at[r] = "out" \/ at[q] = "out"
  BY <1>3
<1> QED
  BY <1>1, <1>3, <1>4, <1>5, <1>6 DEF Apart

-----------------------------------------------------------------------------
(* Behaviours of the block buffer, and of the network thread *)

(* What a behaviour is not about keeps its initial state.                   *)
LinesInv ==
    /\ subject = "block" => Inv
    /\ LinesTypes /\ NeverMet

LEMMA LinesInvInit == LinesInit => LinesInv
BY InitInv, LinesTypesInit, NeverMetInit DEF LinesInit, LinesInv, Inv, Init, Unanswered

LEMMA LinesInvStep == LinesInv /\ [LinesNext]_<<subject, vars, netVars>> => LinesInv'
<1> SUFFICES ASSUME LinesInv, [LinesNext]_<<subject, vars, netVars>>
             PROVE  LinesInv'
  OBVIOUS
<1>1. subject' = subject
  BY DEF LinesNext
<1>2. [Next]_vars /\ [Net!Next]_(Net!vars)
  BY DEF LinesNext, netVars, Net!vars, Net!ring, Net!readVars
<1>3. subject = "block" => Inv'
  BY <1>2, TypeStep, InvStep, UnansweredStep DEF LinesInv, Inv
<1>4. LinesTypes' /\ NeverMet'
  BY <1>2, LinesTypesStep, NeverMetStep DEF LinesInv, LinesTypes
<1> QED
  BY <1>1, <1>3, <1>4 DEF LinesInv

LEMMA LinesInvHolds == LinesSpec => []LinesInv
<1> QED
  BY LinesInvInit, LinesInvStep, PTL DEF LinesSpec

(* The state of the block buffer, and that of the network thread and its    *)
(* buffers, keep their types, for any lines, any room in their buffers and   *)
(* any number of items.                                                     *)
THEOREM LinesTypeCorrect == LinesSpec => []LinesTypeOK
<1>1. LinesInv => LinesTypeOK
  BY LinesTypesGiveTypeOK DEF LinesInv, Inv, LinesTypeOK
<1> QED
  BY <1>1, LinesInvHolds, PTL

(* When ZhwBufferRegister has been called for every type, each type is found *)
(* in the buffer it was registered with.                                    *)
THEOREM RegistrationsFound == LinesSpec => []AllRegistered
<1>1. LinesInv => AllRegistered
  BY TypesGiveAllRegistered DEF LinesInv, AllRegistered
<1> QED
  BY <1>1, LinesInvHolds, PTL

(* As long as the network thread and the control thread have not been in a  *)
(* read of network-udp-common-recv at once, each package is taken by one of  *)
(* them, and at most one waits there.                                       *)
THEOREM EachTakenOnce == LinesSpec => []TakenOnce
<1>1. LinesInv => TakenOnce
  BY ApartTakesOnce DEF LinesInv, LinesTypes, TakenOnce
<1> QED
  BY <1>1, LinesInvHolds, PTL
=============================================================================
