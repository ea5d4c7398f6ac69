-------------------------- MODULE CharBuffer_proofs --------------------------
(***************************************************************************)
(* Proofs about the pointers of a char buffer of any size, for calls of any *)
(* length, cleared at any moment: that they stay in the ring and agree, and *)
(* that the ring is the queue of bytes ByteTape promises.  They need that   *)
(* no thread is switched between the advance of a pointer and its wrap:     *)
(* there a reader sees pb_tail, and what it computes from it is not room in *)
(* the ring.                                                                *)
(***************************************************************************)
EXTENDS CharBuffer, TLAPS, SequenceTheorems

WrapIsNotSeen == ~SwitchAtWrap

-----------------------------------------------------------------------------
(* A write has its bytes before it or behind it, and one in hand is left.   *)
WriteGoesOn == to_write + copied <= MaxCall /\ (writer = "advance" => to_write > 0)

LEMMA WriteStep == TypeOK /\ WriteGoesOn /\ [Next]_vars => WriteGoesOn'
<1> SUFFICES ASSUME TypeOK, WriteGoesOn, [Next]_vars
             PROVE  WriteGoesOn'
  OBVIOUS
<1> USE SizeAssumption DEF WriteGoesOn
<1>1. to_write \in 0 .. MaxCall /\ copied \in 0 .. MaxCall
  BY DEF TypeOK
<1>2. CASE UNCHANGED writeVars
  BY <1>2 DEF writeVars
<1>3. CASE WriteCall \/ WriteReturn \/ WriteByte
  BY <1>1, <1>3 DEF WriteCall, WriteReturn, WriteByte
<1>4. CASE WriteAdvance \/ WriteWrap
  BY <1>1, <1>4 DEF WriteAdvance, WriteWrap
<1>5. CASE ReadCall \/ ReadReturn \/ ReadByte \/ ReadWrap \/ UNCHANGED vars
  BY <1>2, <1>5 DEF ReadCall, ReadReturn, ReadByte, ReadWrap, vars
<1>6. CASE CharBufferBrush \/ CharBufferClear
           \/ \E n \in 1 .. MaxCall : UpdateCurrentReadPointer(n) \/ BackWrite(n)
  BY <1>2, <1>6 DEF CharBufferBrush, CharBufferClear, UpdateCurrentReadPointer, BackWrite
<1> QED
  BY <1>3, <1>4, <1>5, <1>6 DEF Next

(* Every variable keeps its type; both pointers stay below pb_tail.         *)
LEMMA TypeStep == WrapIsNotSeen /\ TypeOK /\ WriteGoesOn /\ [Next]_vars => TypeOK'
<1> SUFFICES ASSUME WrapIsNotSeen, TypeOK, WriteGoesOn, [Next]_vars
             PROVE  TypeOK'
  OBVIOUS
<1> USE SizeAssumption DEF WrapIsNotSeen
<1>1. /\ writeto \in 0 .. Size - 1 /\ readfrom \in 0 .. Size - 1
      /\ Advanced(writeto) \in 0 .. Size - 1 /\ Wrapped(writeto) \in 0 .. Size - 1
      /\ Advanced(readfrom) \in 0 .. Size - 1 /\ Wrapped(readfrom) \in 0 .. Size - 1
  BY DEF TypeOK, Advanced, Wrapped, Tail_
<1>2. CASE WriteCall
  BY <1>2 DEF WriteCall, TypeOK, ringVars, readVars, Steps
<1>3. CASE WriteReturn
  BY <1>3 DEF WriteReturn, TypeOK, ringVars, readVars, Steps
<1>4. CASE WriteByte
  BY <1>1, <1>4 DEF WriteByte, TypeOK, readVars, Steps
<1>5. CASE WriteAdvance
  BY <1>1, <1>5 DEF WriteAdvance, WriteGoesOn, TypeOK, readVars, Steps, Places
<1>6. CASE WriteWrap
  BY <1>1, <1>6 DEF WriteWrap, TypeOK, readVars, Steps
<1>7. CASE ReadCall
  BY <1>7 DEF ReadCall, TypeOK, ringVars, writeVars, Steps
<1>8. CASE ReadReturn
  BY <1>8 DEF ReadReturn, TypeOK, ringVars, writeVars, Steps
<1>9. CASE ReadByte
  BY <1>1, <1>9 DEF ReadByte, TypeOK, writeVars, Steps
<1>10. CASE ReadWrap
  BY <1>1, <1>10 DEF ReadWrap, TypeOK, writeVars, Steps
<1>11. ASSUME NEW n \in 1 .. MaxCall, UpdateCurrentReadPointer(n)
       PROVE  TypeOK'
  <2>1. Forward(n) \in 0 .. Size - 1
    BY <1>1, <1>11 DEF Forward, Tail_
  <2> QED
    BY <1>1, <1>11, <2>1 DEF UpdateCurrentReadPointer, TypeOK, writeVars, readVars, Steps
<1>12. ASSUME NEW n \in 1 .. MaxCall, BackWrite(n)
       PROVE  TypeOK'
  <2>1. Backward(n) \in 0 .. Size - 1
    BY <1>1, <1>12 DEF Backward, Tail_
  <2> QED
    BY <1>1, <1>12, <2>1 DEF BackWrite, TypeOK, writeVars, readVars, Steps
<1>13. CASE CharBufferBrush
  BY <1>1, <1>13 DEF CharBufferBrush, TypeOK, writeVars, readVars, Steps
<1>14. CASE CharBufferClear
  <2>1. clear_count' \in 0 .. ClearModulus - 1
    BY <1>14 DEF CharBufferClear, TypeOK
  <2>2. writeto' = 0 /\ readfrom' = 0 /\ since' = 0
    BY <1>14 DEF CharBufferClear
  <2>3. UNCHANGED <<memory, writeVars, readVars>>
    BY <1>14 DEF CharBufferClear
  <2> QED
    BY <1>1, <2>1, <2>2, <2>3 DEF TypeOK, writeVars, readVars, Steps, Places
<1>15. CASE UNCHANGED vars
  BY <1>15 DEF vars, TypeOK, ringVars, writeVars, readVars
<1> QED
  BY <1>2, <1>3, <1>4, <1>5, <1>6, <1>7, <1>8, <1>9, <1>10, <1>11, <1>12, <1>13,
     <1>14, <1>15 DEF Next

LEMMA TypeInit == Init => TypeOK /\ WriteGoesOn
BY SizeAssumption DEF Init, TypeOK, WriteGoesOn, Steps, Places

(* Whatever the threads call and whenever a third one clears the buffer,    *)
(* every variable keeps its type: no pointer leaves the ring.               *)
THEOREM TypeCorrect == WrapIsNotSeen /\ Spec => []TypeOK
<1>1. SUFFICES ASSUME WrapIsNotSeen
               PROVE  Spec => []TypeOK
  OBVIOUS
<1> QED
  BY <1>1, TypeInit, TypeStep, WriteStep, PTL DEF Spec

-----------------------------------------------------------------------------
(* The pointers *)

(* What is used of the two threads' state: the pointers are in the ring,    *)
(* the byte being written has a place, and the bytes waiting were written.  *)
Fits ==
  /\ writer = "advance" => ~Full
  /\ TotalBytes <= since

(* The room that is offered and the bytes that wait are the ring.           *)
LEMMA RoomIsRest ==
    WrapIsNotSeen /\ TypeOK =>
      /\ CharBufferIsFull = IF TotalBytes = Places THEN -1 ELSE Places - TotalBytes
      /\ RightDelta <= TotalBytes /\ readfrom + RightDelta <= Tail_
BY SizeAssumption DEF WrapIsNotSeen, TypeOK, CharBufferIsFull, Full, Wrapped, TotalBytes,
                      RightDelta, Places, Tail_

LEMMA FitsStep == WrapIsNotSeen /\ TypeOK /\ Fits /\ [Next]_vars => Fits'
<1> SUFFICES ASSUME WrapIsNotSeen, TypeOK, Fits, [Next]_vars
             PROVE  Fits'
  OBVIOUS
<1> USE SizeAssumption DEF WrapIsNotSeen
<1>1. /\ writeto \in 0 .. Size - 1 /\ readfrom \in 0 .. Size - 1
      /\ since \in 0 .. Size - 1
  BY DEF TypeOK, Places
<1>2. CASE UNCHANGED <<writeto, readfrom, since>> /\ (writer' = writer \/ writer' # "advance")
  BY <1>2 DEF Fits, Full, Wrapped, TotalBytes, Tail_
<1>3. CASE WriteByte
  BY <1>3 DEF WriteByte, Fits, Full, Wrapped, TotalBytes, Tail_
<1>4. CASE WriteAdvance
  BY <1>1, <1>4 DEF WriteAdvance, Fits, Full, Advanced, Wrapped, TotalBytes, Tail_,
                    Places
<1>5. CASE WriteWrap \/ ReadWrap
  BY <1>1, <1>5 DEF WriteWrap, ReadWrap, Fits, Full, Wrapped, TotalBytes, Tail_, readVars,
                    writeVars
<1>6. CASE ReadByte
  BY <1>1, <1>6 DEF ReadByte, Fits, Full, Advanced, Wrapped, TotalBytes, Tail_, writeVars
<1>7. ASSUME NEW n \in 1 .. MaxCall, UpdateCurrentReadPointer(n)
      PROVE  Fits'
  (* The reader goes towards the writer and not past it. *)
  <2>1. readfrom' = Forward(n) /\ UNCHANGED <<writeto, since, writer>> /\ n \in Nat \ {0}
    BY <1>7 DEF UpdateCurrentReadPointer, writeVars
  <2>2. CASE readfrom < writeto
    BY <1>1, <2>1, <2>2 DEF Forward, Fits, Full, Wrapped, TotalBytes, Tail_
  <2>3. CASE readfrom > writeto
    BY <1>1, <2>1, <2>3 DEF Forward, Fits, Full, Wrapped, TotalBytes, Tail_
  <2>4. CASE readfrom = writeto
    BY <1>1, <2>1, <2>4 DEF Forward, Fits, Full, Wrapped, TotalBytes, Tail_
  <2> QED
    BY <1>1, <2>2, <2>3, <2>4
<1>8. ASSUME NEW n \in 1 .. MaxCall, BackWrite(n)
      PROVE  Fits'
  <2>1. /\ readfrom' = Backward(n) /\ UNCHANGED <<writeto, since, writer>>
        /\ writer = "out" /\ n \in Nat \ {0} /\ n <= since - TotalBytes
    BY <1>8 DEF BackWrite, writeVars
  <2> QED
    BY <1>1, <2>1 DEF Backward, Fits, TotalBytes, Tail_
<1>9. CASE CharBufferBrush
  BY <1>1, <1>9 DEF CharBufferBrush, Fits, TotalBytes, writeVars
<1>10. CASE CharBufferClear
  BY <1>10 DEF CharBufferClear, Fits, Full, Wrapped, TotalBytes, Tail_, writeVars
<1>11. CASE WriteCall \/ WriteReturn \/ ReadCall \/ ReadReturn \/ UNCHANGED vars
  BY <1>2, <1>11 DEF WriteCall, WriteReturn, ReadCall, ReadReturn, vars, ringVars,
                     writeVars, readVars
<1> QED
  BY <1>3, <1>4, <1>5, <1>6, <1>7, <1>8, <1>9, <1>10, <1>11 DEF Next

(* For a ring of any size: the byte that a write has stored and not yet     *)
(* published keeps its place whatever the reader does, the room that        *)
(* CharBufferIsFull promises and the bytes that                             *)
(* CharBufferCurrentReadPointer offers add up to the ring, and no more      *)
(* bytes wait than were written, also after a clear in the middle of a      *)
(* call.                                                                    *)
THEOREM PointersHold == WrapIsNotSeen /\ Spec => []PointersAgree
<1>1. SUFFICES ASSUME WrapIsNotSeen
               PROVE  Spec => []PointersAgree
  OBVIOUS
<1>2. Init => Fits
  BY SizeAssumption DEF Init, Fits, TotalBytes
<1>3. TypeOK /\ Fits => PointersAgree
  BY <1>1, RoomIsRest DEF Fits, PointersAgree
<1> QED
  BY <1>1, <1>2, <1>3, TypeInit, TypeStep, WriteStep, FitsStep, PTL DEF Spec

-----------------------------------------------------------------------------
(* Sequences told by their elements *)

LEMMA AppendIs ==
    ASSUME NEW B, NEW s \in Seq(B), NEW t \in Seq(B), NEW x \in B, Len(t) = Len(s) + 1,
           \A k \in 1 .. Len(s) : t[k] = s[k], t[Len(s) + 1] = x
    PROVE  t = Append(s, x)
<1>1. Append(s, x) \in Seq(B) /\ Len(Append(s, x)) = Len(s) + 1
  BY AppendProperties
<1>2. ASSUME NEW k \in 1 .. Len(t)
      PROVE  t[k] = Append(s, x)[k]
  BY AppendProperties
<1> QED
  BY <1>1, <1>2, SeqEqual

LEMMA TailIs ==
    ASSUME NEW B, NEW s \in Seq(B), NEW t \in Seq(B), Len(s) = Len(t) + 1,
           \A k \in 1 .. Len(t) : t[k] = s[k + 1]
    PROVE  t = Tail(s)
<1>1. s # <<>>
  OBVIOUS
<1>2. /\ Tail(s) \in Seq(B) /\ Len(Tail(s)) = Len(t)
      /\ \A k \in 1 .. Len(t) : Tail(s)[k] = s[k + 1]
  BY <1>1, HeadTailProperties
<1> QED
  BY <1>2, SeqEqual

LEMMA JoinIs ==
    ASSUME NEW B, NEW s \in Seq(B), NEW t \in Seq(B), NEW u \in Seq(B),
           Len(u) = Len(s) + Len(t),
           \A k \in 1 .. Len(s) : u[k] = s[k],
           \A k \in 1 .. Len(t) : u[Len(s) + k] = t[k]
    PROVE  u = s \o t
<1>1. /\ s \o t \in Seq(B) /\ Len(s \o t) = Len(s) + Len(t)
      /\ \A k \in 1 .. Len(s) : (s \o t)[k] = s[k]
      /\ \A k \in 1 .. Len(t) : (s \o t)[Len(s) + k] = t[k]
  BY ConcatProperties
<1>2. Len(s) \in Nat /\ Len(t) \in Nat
  OBVIOUS
<1> DEFINE c == s \o t
<1> HIDE DEF c
<1>3. ASSUME NEW k \in 1 .. Len(u)
      PROVE  u[k] = c[k]
  <2>1. CASE k <= Len(s)
    BY <1>1, <1>2, <2>1 DEF c
  <2>2. CASE k > Len(s)
    <3>1. k - Len(s) \in 1 .. Len(t) /\ Len(s) + (k - Len(s)) = k
      BY <1>2, <2>2
    <3> QED
      BY <1>1, <3>1 DEF c
  <2> QED
    BY <1>2, <2>1, <2>2
<1> QED
  BY <1>1, <1>3, SeqEqual DEF c

(* The bytes w, parted into those read and those to be read.                *)
Parted(B, w, h, q) ==
  /\ h \in Seq(B) /\ q \in Seq(B)
  /\ \A k \in 1 .. Len(h) : h[k] = w[k]
  /\ \A k \in 1 .. Len(q) : q[k] = w[Len(h) + k]

(* m bytes have moved from the front of q to the end of h.                  *)
Further(h, q, h2, q2, m) ==
  /\ h2 = h \o SubSeq(q, 1, m) /\ q2 = SubSeq(q, m + 1, Len(q))
  /\ h = SubSeq(h2, 1, Len(h2) - m)
  /\ q = SubSeq(h2, Len(h2) - m + 1, Len(h2)) \o q2

(* Two ways to part the same bytes, the second m bytes further on.          *)
LEMMA PartedAgain ==
    ASSUME NEW B, NEW w, NEW h, NEW q, NEW h2, NEW q2, NEW m \in Nat,
           Parted(B, w, h, q), Parted(B, w, h2, q2),
           Len(h2) = Len(h) + m, Len(q) = Len(q2) + m
    PROVE  Further(h, q, h2, q2, m)
<1> USE DEF Parted
<1>1. Len(h) \in Nat /\ Len(q) \in Nat /\ Len(h2) \in Nat /\ Len(q2) \in Nat
  OBVIOUS
<1>2. /\ SubSeq(q, 1, m) \in Seq(B) /\ Len(SubSeq(q, 1, m)) = m
      /\ \A k \in 1 .. m : SubSeq(q, 1, m)[k] = q[k]
  BY <1>1, SubSeqProperties
<1>3. /\ SubSeq(q, m + 1, Len(q)) \in Seq(B) /\ Len(SubSeq(q, m + 1, Len(q))) = Len(q2)
      /\ \A k \in 1 .. Len(q2) : SubSeq(q, m + 1, Len(q))[k] = q[m + k]
  BY <1>1, SubSeqProperties
<1>4. /\ SubSeq(h2, 1, Len(h2) - m) \in Seq(B) /\ Len(SubSeq(h2, 1, Len(h2) - m)) = Len(h)
      /\ \A k \in 1 .. Len(h) : SubSeq(h2, 1, Len(h2) - m)[k] = h2[k]
  BY <1>1, SubSeqProperties
<1> DEFINE s == SubSeq(h2, Len(h2) - m + 1, Len(h2))
<1>5. s \in Seq(B) /\ Len(s) = m /\ \A k \in 1 .. m : s[k] = h2[Len(h) + k]
  <2>1. Len(h2) - m + 1 = Len(h) + 1
    BY <1>1
  <2> QED
    BY <1>1, <2>1, SubSeqProperties
<1> HIDE DEF s
<1>6. h2 = h \o SubSeq(q, 1, m)
  <2> DEFINE f == SubSeq(q, 1, m)
  <2>1. f \in Seq(B) /\ Len(f) = m /\ \A k \in 1 .. m : f[k] = q[k]
    BY <1>2
  <2> HIDE DEF f
  <2>2. \A k \in 1 .. Len(h) : h2[k] = h[k]
    <3>1. \A k \in 1 .. Len(h) : k \in 1 .. Len(h2)
      BY <1>1
    <3> QED
      BY <3>1
  <2>3. \A k \in 1 .. m : h2[Len(h) + k] = f[k]
    <3>1. \A k \in 1 .. m : Len(h) + k \in 1 .. Len(h2) /\ k \in 1 .. Len(q)
      BY <1>1
    <3> QED
      BY <2>1, <3>1
  <2> QED
    BY <2>1, <2>2, <2>3, JoinIs, SMTT(30) DEF f
<1>7. q2 = SubSeq(q, m + 1, Len(q))
  <2>1. ASSUME NEW k \in 1 .. Len(q2)
        PROVE  q2[k] = q[m + k]
    <3>1. m + k \in 1 .. Len(q) /\ Len(h) + (m + k) = Len(h2) + k
      BY <1>1
    <3> QED
      BY <3>1
  <2> QED
    BY <1>3, <2>1, SeqEqual
<1>8. h = SubSeq(h2, 1, Len(h2) - m)
  <2>1. ASSUME NEW k \in 1 .. Len(h)
        PROVE  h[k] = h2[k]
    <3>1. k \in 1 .. Len(h2)
      BY <1>1
    <3> QED
      BY <3>1
  <2> QED
    BY <1>4, <2>1, SeqEqual
<1>9. q = s \o q2
  <2>1. \A k \in 1 .. Len(s) : q[k] = s[k]
    <3>1. \A k \in 1 .. m : Len(h) + k \in 1 .. Len(h2) /\ k \in 1 .. Len(q)
      BY <1>1
    <3> QED
      BY <1>5, <3>1
  <2>2. Len(q) = Len(s) + Len(q2)
    BY <1>1, <1>5
  <2>3. \A k \in 1 .. Len(q2) : q[Len(s) + k] = q2[k]
    <3>1. \A k \in 1 .. Len(q2) : m + k \in 1 .. Len(q) /\ Len(h) + (m + k) = Len(h2) + k
      BY <1>1
    <3> QED
      BY <1>5, <3>1, ZenonT(30)
  <2> QED
    BY <1>5, <2>1, <2>2, <2>3, JoinIs
<1> QED
  BY <1>6, <1>7, <1>8, <1>9 DEF s, Further

(* The same bytes parted at the same place.                                 *)
LEMMA PartedTheSame ==
    ASSUME NEW B, NEW w, NEW h, NEW q, NEW w2, NEW h2, NEW q2,
           Parted(B, w, h, q), Parted(B, w2, h2, q2), Len(h2) = Len(h), Len(q2) = Len(q),
           \A k \in 1 .. Len(h) + Len(q) : w2[k] = w[k]
    PROVE  h2 = h /\ q2 = q
<1> USE DEF Parted
<1>1. Len(h) \in Nat /\ Len(q) \in Nat
  OBVIOUS
<1>2. /\ \A k \in 1 .. Len(h) : k \in 1 .. Len(h) + Len(q)
      /\ \A k \in 1 .. Len(q) : Len(h) + k \in 1 .. Len(h) + Len(q)
  BY <1>1
<1>3. \A k \in 1 .. Len(h) : h2[k] = h[k]
  BY <1>2
<1>4. \A k \in 1 .. Len(q) : q2[k] = q[k]
  BY <1>2
<1> QED
  BY <1>3, <1>4, SeqEqual

(* One more byte behind all of them.                                        *)
LEMMA PartedLonger ==
    ASSUME NEW B, NEW w, NEW h, NEW q, NEW w2, NEW h2, NEW q2, NEW x \in B,
           Parted(B, w, h, q), Parted(B, w2, h2, q2),
           Len(h2) = Len(h), Len(q2) = Len(q) + 1,
           \A k \in 1 .. Len(h) + Len(q) : w2[k] = w[k], w2[Len(h2) + Len(q2)] = x
    PROVE  h2 = h /\ q2 = Append(q, x)
<1> USE DEF Parted
<1>1. Len(h) \in Nat /\ Len(q) \in Nat
  OBVIOUS
<1>2. /\ \A k \in 1 .. Len(h) : k \in 1 .. Len(h) + Len(q)
      /\ \A k \in 1 .. Len(q) : /\ Len(h) + k \in 1 .. Len(h) + Len(q)
                                /\ k \in 1 .. Len(q2)
      /\ Len(q2) \in 1 .. Len(q2)
  BY <1>1
<1>3. \A k \in 1 .. Len(h) : h2[k] = h[k]
  BY <1>2
<1>4. \A k \in 1 .. Len(q) : q2[k] = q[k]
  BY <1>2, ZenonT(30)
<1>5. q2[Len(q) + 1] = x
  BY <1>2
<1> QED
  BY <1>3, <1>4, <1>5, SeqEqual, AppendIs

(* One more byte, for which the first of those read is forgotten.           *)
LEMMA PartedShifted ==
    ASSUME NEW B, NEW w, NEW h, NEW q, NEW w2, NEW h2, NEW q2, NEW x \in B,
           Parted(B, w, h, q), Parted(B, w2, h2, q2),
           Len(h) = Len(h2) + 1, Len(q2) = Len(q) + 1,
           \A k \in 1 .. Len(h2) + Len(q) : w2[k] = w[k + 1], w2[Len(h2) + Len(q2)] = x
    PROVE  h2 = Tail(h) /\ q2 = Append(q, x)
<1> USE DEF Parted
<1>1. Len(h2) \in Nat /\ Len(q) \in Nat
  OBVIOUS
<1>2. /\ \A k \in 1 .. Len(h2) : k \in 1 .. Len(h2) + Len(q) /\ k + 1 \in 1 .. Len(h)
      /\ \A k \in 1 .. Len(q) : /\ Len(h2) + k \in 1 .. Len(h2) + Len(q)
                                /\ (Len(h2) + k) + 1 = Len(h) + k
                                /\ k \in 1 .. Len(q2)
      /\ Len(q2) \in 1 .. Len(q2)
  BY <1>1
<1>3. \A k \in 1 .. Len(h2) : h2[k] = h[k + 1]
  BY <1>2
<1>4. ASSUME NEW k \in 1 .. Len(q)
      PROVE  q2[k] = q[k]
  <2> PICK j : j = Len(h2) + k
    OBVIOUS
  <2>1. j \in 1 .. Len(h2) + Len(q) /\ j + 1 = Len(h) + k
    BY <1>2
  <2>2. q2[k] = w2[j] /\ q[k] = w[j + 1]
    BY <1>2, <2>1
  <2> QED
    BY <2>1, <2>2
<1>5. q2[Len(q) + 1] = x
  BY <1>2
<1> QED
  BY <1>3, <1>4, <1>5, TailIs, AppendIs

-----------------------------------------------------------------------------
(* The tape *)

(* The place of the k-th byte since the last clear that is still in the     *)
(* ring.                                                                    *)
At(k) == Around(Around(writeto + Size - since) + k - 1)

(* These bytes are those read last and those to be read, in that order.     *)
TapeOf(w, h, q) ==
  /\ h = Behind /\ q = Queue /\ Parted(Bytes, w, h, q)
  /\ Len(q) = TotalBytes /\ Len(h) + Len(q) = since
  /\ \A k \in 1 .. since : w[k] = memory[At(k)]

Sound == WrapIsNotSeen /\ TypeOK /\ Fits

LEMMA BytesHavePlaces ==
    Sound => /\ writeto \in 0 .. Size - 1 /\ readfrom \in 0 .. Size - 1
             /\ since \in 0 .. Size - 1 /\ memory \in [0 .. Size - 1 -> Bytes]
             /\ TotalBytes \in 0 .. since
             /\ \A k \in 1 .. since : At(k) \in 0 .. Size - 1 /\ At(k) # writeto
<1> SUFFICES ASSUME Sound
             PROVE  /\ writeto \in 0 .. Size - 1 /\ readfrom \in 0 .. Size - 1
                    /\ since \in 0 .. Size - 1 /\ memory \in [0 .. Size - 1 -> Bytes]
                    /\ TotalBytes \in 0 .. since
                    /\ \A k \in 1 .. since : At(k) \in 0 .. Size - 1 /\ At(k) # writeto
  OBVIOUS
<1> USE SizeAssumption
<1>1. /\ writeto \in 0 .. Size - 1 /\ readfrom \in 0 .. Size - 1
      /\ since \in 0 .. Size - 1 /\ memory \in [0 .. Size - 1 -> Bytes]
  BY DEF Sound, WrapIsNotSeen, TypeOK, Places
<1>2. TotalBytes \in 0 .. since
  BY <1>1 DEF TotalBytes, Sound, Fits, Tail_
<1>3. \A k \in 1 .. since : At(k) \in 0 .. Size - 1 /\ At(k) # writeto
  BY <1>1 DEF At, Around
<1> QED
  BY <1>1, <1>2, <1>3

LEMMA SoundTape == Sound => \E w, h, q : TapeOf(w, h, q)
<1> SUFFICES ASSUME Sound
             PROVE  \E w, h, q : TapeOf(w, h, q)
  OBVIOUS
<1> USE SizeAssumption
<1> DEFINE w == [k \in 1 .. since |-> memory[At(k)]]
           r == since - TotalBytes
<1>0. /\ writeto \in 0 .. Size - 1 /\ readfrom \in 0 .. Size - 1
      /\ since \in 0 .. Size - 1 /\ TotalBytes \in 0 .. since
  BY BytesHavePlaces
<1>1. r \in Nat /\ TotalBytes \in Nat /\ r + TotalBytes = since
  BY <1>0
<1>2. \A k \in 1 .. TotalBytes : Around(readfrom + k - 1) = At(r + k)
  BY <1>0, <1>1 DEF At, Around, TotalBytes, Tail_
<1> HIDE DEF r
<1>3. /\ \A k \in 1 .. TotalBytes : r + k \in 1 .. since
      /\ \A k \in 1 .. r : k \in 1 .. since
  BY <1>1
<1>4. \A k \in 1 .. since : w[k] = memory[At(k)] /\ w[k] \in Bytes
  BY BytesHavePlaces
<1> HIDE DEF w
<1>5. Queue = [k \in 1 .. TotalBytes |-> memory[Around(readfrom + k - 1)]]
  BY DEF Queue, Ring
<1>6. \A k \in 1 .. TotalBytes : Queue[k] = w[r + k] /\ Queue[k] \in Bytes
  BY <1>2, <1>3, <1>4, <1>5
<1>7. Behind = [k \in 1 .. r |-> memory[At(k)]]
  BY DEF Behind, Ring, At, r
<1>8. \A k \in 1 .. r : Behind[k] = w[k] /\ Behind[k] \in Bytes
  BY <1>3, <1>4, <1>7
<1>9. Queue \in Seq(Bytes) /\ Len(Queue) = TotalBytes
  <2>1. Queue \in [1 .. TotalBytes -> Bytes]
    BY <1>5, <1>6
  <2> QED
    BY <1>1, <2>1
<1>10. Behind \in Seq(Bytes) /\ Len(Behind) = r
  BY <1>1, <1>7, <1>8
<1>11. TapeOf(w, Behind, Queue)
  BY <1>1, <1>4, <1>6, <1>8, <1>9, <1>10 DEF TapeOf, Parted
<1> QED
  BY <1>11

LEMMA NextTape == Sound' => (\E w, h, q : TapeOf(w, h, q))'
  BY SoundTape, PTL

(* A step that keeps the pointers and all bytes but the one in hand.        *)
LEMMA TapeKept ==
    ASSUME Sound, Sound', UNCHANGED <<writeto, readfrom, since>>,
           \A i \in 0 .. Size - 1 : i # writeto => memory'[i] = memory[i]
    PROVE  Queue' = Queue /\ Behind' = Behind
<1>1. PICK w, h, q : TapeOf(w, h, q)
  BY SoundTape
<1>2. PICK w2, h2, q2 : TapeOf(w2, h2, q2)'
  BY NextTape
<1>3. TotalBytes' = TotalBytes /\ since' = since
  BY DEF TotalBytes
<1>4. \A k \in 1 .. since : At(k)' = At(k)
  BY DEF At, Around
<1>5. \A k \in 1 .. since : w2[k] = w[k]
  BY <1>1, <1>2, <1>4, BytesHavePlaces, SMTT(30) DEF TapeOf
<1>6. Len(q2) = Len(q) /\ Len(h2) = Len(h) /\ Len(h) + Len(q) = since
  BY <1>1, <1>2, <1>3 DEF TapeOf, Parted
<1>7. h2 = h /\ q2 = q
  BY <1>1, <1>2, <1>5, <1>6, PartedTheSame DEF TapeOf
<1> QED
  BY <1>1, <1>2, <1>7 DEF TapeOf

(* writeto is advanced: the byte it stood at is put at the end.             *)
LEMMA TapePut ==
    ASSUME Sound, Sound', ~Full, writeto' = Wrapped(writeto + 1),
           UNCHANGED <<memory, readfrom>>,
           since' = IF since < Places THEN since + 1 ELSE since
    PROVE  Tape!Put
<1> USE SizeAssumption DEF Places
<1>1. PICK w, h, q : TapeOf(w, h, q)
  BY SoundTape
<1>2. PICK w2, h2, q2 : TapeOf(w2, h2, q2)'
  BY NextTape
<1>3. TotalBytes' = TotalBytes + 1 /\ TotalBytes < Places
  <2>1. writeto \in 0 .. Size - 1 /\ readfrom \in 0 .. Size - 1
    BY BytesHavePlaces
  <2> QED
    BY <2>1 DEF TotalBytes, Full, Wrapped, Tail_
<1>4. PICK x \in Bytes : x = memory[writeto]
  BY BytesHavePlaces
<1>5. PICK n \in Nat : n = since'
  BY BytesHavePlaces
<1>6. /\ writeto \in 0 .. Size - 1 /\ readfrom \in 0 .. Size - 1
      /\ since \in 0 .. Size - 1 /\ TotalBytes \in 0 .. since
  BY BytesHavePlaces
<1>7. At(n)' = writeto /\ n \in 1 .. n
  BY <1>5, <1>6 DEF At, Around, Wrapped, Tail_
<1>8. w2[n] = x /\ Len(h2) + Len(q2) = n
  BY <1>2, <1>4, <1>5, <1>7 DEF TapeOf
<1>9. /\ h \in Seq(Bytes) /\ q \in Seq(Bytes) /\ Len(h) + Len(q) = since
      /\ Len(q) = TotalBytes /\ Len(q2) = Len(q) + 1 /\ h2 \in Seq(Bytes)
  BY <1>1, <1>2, <1>3 DEF TapeOf, Parted
<1>10. CASE since < Places
  <2>1. n = since + 1 /\ Len(h2) = Len(h)
    BY <1>5, <1>6, <1>8, <1>9, <1>10
  <2>2. \A k \in 1 .. since : At(k)' = At(k) /\ k \in 1 .. n
    BY <1>5, <1>6, <1>10, <2>1 DEF At, Around, Wrapped, Tail_
  <2>3. \A k \in 1 .. since : w2[k] = w[k]
    BY <1>1, <1>2, <1>5, <2>2 DEF TapeOf
  <2>4. h2 = h /\ q2 = Append(q, x)
    <3>1. Parted(Bytes, w, h, q) /\ Parted(Bytes, w2, h2, q2)
      BY <1>1, <1>2 DEF TapeOf
    <3>2. \A k \in 1 .. Len(h) + Len(q) : w2[k] = w[k]
      BY <1>9, <2>3
    <3>3. w2[Len(h2) + Len(q2)] = x
      BY <1>8
    <3>4. Len(h2) = Len(h) /\ Len(q2) = Len(q) + 1
      BY <1>9, <2>1
    <3> HIDE DEF Places
    <3> QED
      BY <3>1, <3>2, <3>3, <3>4, PartedLonger, SMTT(30)
  <2>5. Tape!Forget(Behind) = Behind
    <3>1. Len(Queue) + Len(Behind) # Places
      BY <1>1, <1>9, <1>10 DEF TapeOf
    <3> QED
      BY <3>1 DEF Tape!Forget
  <2> QED
    BY <1>1, <1>2, <1>3, <1>4, <1>9, <2>4, <2>5 DEF Tape!Put, TapeOf
<1>11. CASE since = Places
  <2>1. n = since /\ Len(h) = Len(h2) + 1
    BY <1>5, <1>6, <1>8, <1>9, <1>11
  <2>2. \A k \in 1 .. since - 1 : At(k)' = At(k + 1) /\ k \in 1 .. n /\ k + 1 \in 1 .. since
    BY <1>5, <1>6, <1>11, <2>1 DEF At, Around, Wrapped, Tail_
  <2>3. \A k \in 1 .. since - 1 : w2[k] = w[k + 1]
    BY <1>1, <1>2, <1>5, <2>2, SMTT(30) DEF TapeOf
  <2>4. Len(h2) + Len(q) = since - 1
    BY <1>9, <2>1, SMTT(30)
  <2>5. h2 = Tail(h) /\ q2 = Append(q, x)
    BY <1>1, <1>2, <1>8, <1>9, <2>1, <2>3, <2>4, PartedShifted DEF TapeOf
  <2>6. Tape!Forget(Behind) = Tail(Behind)
    <3>1. Len(Queue) + Len(Behind) = Places
      BY <1>1, <1>9, <1>11 DEF TapeOf
    <3> QED
      BY <3>1 DEF Tape!Forget
  <2> QED
    BY <1>1, <1>2, <1>3, <1>4, <1>9, <2>5, <2>6 DEF Tape!Put, TapeOf
<1> QED
  BY <1>6, <1>10, <1>11

(* The reader's pointer alone moves, m bytes further on or back: they       *)
(* change sides in their order.                                             *)
LEMMA TapeMoved ==
    ASSUME Sound, Sound', UNCHANGED <<memory, writeto, since>>, NEW m \in Nat
    PROVE  /\ TotalBytes = TotalBytes' + m =>
                /\ Queue' = SubSeq(Queue, m + 1, Len(Queue))
                /\ Behind' = Behind \o SubSeq(Queue, 1, m)
           /\ TotalBytes' = TotalBytes + m =>
                /\ Queue' = SubSeq(Behind, Len(Behind) - m + 1, Len(Behind)) \o Queue
                /\ Behind' = SubSeq(Behind, 1, Len(Behind) - m)
<1>1. PICK w, h, q : TapeOf(w, h, q)
  BY SoundTape
<1>2. PICK w2, h2, q2 : TapeOf(w2, h2, q2)'
  BY NextTape
<1>3. Parted(Bytes, w, h, q) /\ Parted(Bytes, w2, h2, q2)
  BY <1>1, <1>2 DEF TapeOf
<1>4. \A k \in 1 .. since : w2[k] = w[k]
  <2>1. \A k : At(k)' = At(k)
    BY DEF At, Around
  <2> QED
    BY <1>1, <1>2, <2>1 DEF TapeOf
<1>5. /\ Len(q) = TotalBytes /\ Len(q2) = TotalBytes' /\ Len(h2) + Len(q2) = since
      /\ Len(h) + Len(q) = since
  BY <1>1, <1>2 DEF TapeOf
<1>6. Parted(Bytes, w, h2, q2)
  <2>1. Len(h2) \in Nat /\ Len(q2) \in Nat
    BY <1>3 DEF Parted
  <2>2. /\ \A k \in 1 .. Len(h2) : k \in 1 .. since
        /\ \A k \in 1 .. Len(q2) : Len(h2) + k \in 1 .. since
    BY <1>5, <2>1
  <2> QED
    BY <1>3, <1>4, <2>2 DEF Parted
<1>7. Len(h) \in Nat /\ Len(q) \in Nat /\ Len(h2) \in Nat /\ Len(q2) \in Nat
  BY <1>3 DEF Parted
<1>8. ASSUME TotalBytes = TotalBytes' + m
      PROVE  /\ Queue' = SubSeq(Queue, m + 1, Len(Queue))
             /\ Behind' = Behind \o SubSeq(Queue, 1, m)
  <2>1. Len(q) = Len(q2) + m
    BY <1>5, <1>8
  <2>2. Len(h2) = Len(h) + m
    BY <1>5, <1>7, <2>1
  <2>3. Further(h, q, h2, q2, m)
    BY <1>3, <1>6, <2>1, <2>2, PartedAgain
  <2> QED
    BY <1>1, <1>2, <2>3 DEF TapeOf, Further
<1>9. ASSUME TotalBytes' = TotalBytes + m
      PROVE  /\ Queue' = SubSeq(Behind, Len(Behind) - m + 1, Len(Behind)) \o Queue
             /\ Behind' = SubSeq(Behind, 1, Len(Behind) - m)
  <2>1. Len(q2) = Len(q) + m
    BY <1>5, <1>9
  <2>2. Len(h) = Len(h2) + m
    BY <1>5, <1>7, <2>1
  <2>3. Further(h2, q2, h, q, m)
    BY <1>3, <1>6, <2>1, <2>2, PartedAgain
  <2> QED
    BY <1>1, <1>2, <2>3 DEF TapeOf, Further
<1> QED
  BY <1>8, <1>9

(* The reader goes on over n bytes, or all there are.                       *)
LEMMA GoesOn ==
    ASSUME Sound, Sound', UNCHANGED <<memory, writeto, since>>, NEW n \in Nat \ {0},
           TotalBytes' = IF n < TotalBytes THEN TotalBytes - n ELSE 0
    PROVE  Tape!Get(n)
<1>1. PICK w, h, q : TapeOf(w, h, q)
  BY SoundTape
<1>2. Queue = q /\ Behind = h /\ Len(q) = TotalBytes /\ TotalBytes \in Nat
  BY <1>1 DEF TapeOf, Parted
<1>3. PICK m \in Nat : m = IF n < Len(q) THEN n ELSE Len(q)
  BY <1>2
<1>4. TotalBytes = TotalBytes' + m
  BY <1>2, <1>3
<1>5. /\ Queue' = SubSeq(Queue, m + 1, Len(Queue))
      /\ Behind' = Behind \o SubSeq(Queue, 1, m)
  BY <1>4, TapeMoved
<1> QED
  BY <1>2, <1>3, <1>5 DEF Tape!Get

(* The reader goes back over n bytes.                                       *)
LEMMA GoesBack ==
    ASSUME Sound, Sound', UNCHANGED <<memory, writeto, since>>, NEW n \in Nat \ {0},
           TotalBytes' = TotalBytes + n
    PROVE  Tape!PutBack(n)
<1>1. PICK w, h, q : TapeOf(w, h, q)
  BY SoundTape
<1>2. /\ Behind = h /\ Len(h) \in Nat /\ Len(h) + TotalBytes = since
      /\ TotalBytes \in Nat
  BY <1>1 DEF TapeOf, Parted
<1>3. TotalBytes' <= since /\ since \in Nat
  BY BytesHavePlaces DEF Sound, Fits
<1>4. n <= Len(Behind)
  BY <1>2, <1>3
<1>5. /\ Queue' = SubSeq(Behind, Len(Behind) - n + 1, Len(Behind)) \o Queue
      /\ Behind' = SubSeq(Behind, 1, Len(Behind) - n)
  BY TapeMoved
<1> QED
  BY <1>4, <1>5 DEF Tape!PutBack

(* CharBufferUpdateCurrentReadPointer moves the pointer over n bytes, or to *)
(* the writer.                                                              *)
LEMMA ForwardIs ==
    ASSUME Sound, NEW n \in 1 .. MaxCall, UpdateCurrentReadPointer(n)
    PROVE  /\ TotalBytes' = IF n < TotalBytes THEN TotalBytes - n ELSE 0
           /\ UNCHANGED <<memory, writeto, since>>
<1> USE SizeAssumption
<1>1. /\ readfrom' = Forward(n) /\ UNCHANGED <<memory, writeto, since>>
      /\ n \in Nat \ {0}
  BY DEF UpdateCurrentReadPointer
<1>2. writeto \in 0 .. Size - 1 /\ readfrom \in 0 .. Size - 1
  BY BytesHavePlaces
<1>3. CASE readfrom < writeto
  BY <1>1, <1>2, <1>3 DEF Forward, TotalBytes, Tail_
<1>4. CASE readfrom > writeto
  BY <1>1, <1>2, <1>4 DEF Forward, TotalBytes, Tail_
<1>5. CASE readfrom = writeto
  BY <1>1, <1>2, <1>5 DEF Forward, TotalBytes, Tail_
<1> QED
  BY <1>1, <1>2, <1>3, <1>4, <1>5

(* SingleThreadCharBufferBackWrite moves it back over n bytes.              *)
LEMMA BackwardIs ==
    ASSUME Sound, NEW n \in 1 .. MaxCall, BackWrite(n)
    PROVE  TotalBytes' = TotalBytes + n /\ UNCHANGED <<memory, writeto, since>>
<1> USE SizeAssumption
<1>1. /\ readfrom' = Backward(n) /\ UNCHANGED <<memory, writeto, since>>
      /\ n \in Nat \ {0} /\ n <= since - TotalBytes
  BY DEF BackWrite
<1>2. /\ writeto \in 0 .. Size - 1 /\ readfrom \in 0 .. Size - 1
      /\ since \in 0 .. Size - 1
  BY BytesHavePlaces
<1>3. CASE readfrom <= writeto
  BY <1>1, <1>2, <1>3 DEF Backward, TotalBytes, Tail_
<1>4. CASE readfrom > writeto
  BY <1>1, <1>2, <1>4 DEF Backward, TotalBytes, Tail_
<1> QED
  BY <1>2, <1>3, <1>4

LEMMA AsTold ==
    ASSUME Sound, Sound', NEW n \in 1 .. MaxCall
    PROVE  /\ BackWrite(n) => Tape!PutBack(n)
           /\ UpdateCurrentReadPointer(n) => Tape!Get(n)
<1>1. n \in Nat \ {0}
  BY SizeAssumption
<1> QED
  BY <1>1, ForwardIs, BackwardIs, GoesOn, GoesBack

(* Every step of the threads is one of the tape, or changes no byte of it.  *)
LEMMA TapeStep == Sound /\ Sound' /\ [Next]_vars => [Tape!Next]_(Tape!vars)
<1> SUFFICES ASSUME Sound, Sound', [Next]_vars
             PROVE  Tape!Next \/ UNCHANGED <<Queue, Behind>>
  BY DEF Tape!vars
<1> USE SizeAssumption
<1>1. /\ writeto \in 0 .. Size - 1 /\ readfrom \in 0 .. Size - 1
      /\ since \in 0 .. Size - 1 /\ TotalBytes \in 0 .. since
      /\ memory \in [0 .. Size - 1 -> Bytes]
  BY BytesHavePlaces
<1>2. ~SwitchAtWrap
  BY DEF Sound, WrapIsNotSeen
<1>3. CASE UNCHANGED <<memory, writeto, readfrom, since>>
  BY <1>3, TapeKept
<1>4. CASE WriteByte
  BY <1>1, <1>4, TapeKept DEF WriteByte
<1>5. CASE WriteAdvance
  <2>1. ~Full /\ writeto' = Wrapped(writeto + 1)
    BY <1>2, <1>5 DEF WriteAdvance, Advanced, Sound, Fits
  <2> QED
    BY <1>5, <2>1, TapePut DEF WriteAdvance, Tape!Next
<1>6. CASE WriteWrap \/ ReadWrap
  <2>1. UNCHANGED <<memory, writeto, readfrom, since>>
    BY <1>1, <1>6 DEF WriteWrap, ReadWrap, Wrapped, Tail_, readVars, writeVars
  <2> QED
    BY <1>3, <2>1
<1>7. CASE ReadByte
  <2>1. UNCHANGED <<memory, writeto, since>> /\ readfrom' = Wrapped(readfrom + 1)
        /\ writeto # readfrom
    BY <1>2, <1>7 DEF ReadByte, Advanced, writeVars
  <2>2. TotalBytes' = IF 1 < TotalBytes THEN TotalBytes - 1 ELSE 0
    BY <1>1, <2>1 DEF TotalBytes, Wrapped, Tail_
  <2>3. Tape!Get(1)
    BY <2>1, <2>2, GoesOn
  <2> QED
    BY <2>3 DEF Tape!Next, Places
<1>8. ASSUME NEW n \in 1 .. MaxCall, UpdateCurrentReadPointer(n)
      PROVE  Tape!Next
  <2> DEFINE k == IF n <= Places THEN n ELSE Places
  <2>1. k \in 1 .. Places /\ k \in Nat \ {0}
    BY DEF Places
  <2>2. /\ TotalBytes' = IF n < TotalBytes THEN TotalBytes - n ELSE 0
        /\ UNCHANGED <<memory, writeto, since>>
    BY <1>8, ForwardIs
  <2>3. TotalBytes' = IF k < TotalBytes THEN TotalBytes - k ELSE 0
    BY <1>1, <2>2 DEF Places
  <2> HIDE DEF k
  <2>4. Tape!Get(k)
    BY <2>1, <2>2, <2>3, GoesOn
  <2> QED
    BY <2>1, <2>4 DEF Tape!Next
<1>9. ASSUME NEW n \in 1 .. MaxCall, BackWrite(n)
      PROVE  Tape!Next
  <2>1. Tape!PutBack(n)
    BY <1>9, AsTold
  <2>2. n \in 1 .. Places
    BY <1>1, <1>9 DEF BackWrite, Places
  <2> QED
    BY <2>1, <2>2 DEF Tape!Next
<1>10. CASE CharBufferBrush
  <2>1. /\ UNCHANGED <<memory, writeto, since>> /\ readfrom' = 0 /\ writeto = since
    BY <1>10 DEF CharBufferBrush
  <2> DEFINE n == since - TotalBytes
  <2>2. n \in 0 .. Places /\ TotalBytes' = TotalBytes + n
    BY <1>1, <2>1 DEF TotalBytes, Places
  <2>3. CASE n = 0
    <3>1. readfrom = 0
      BY <1>1, <2>1, <2>3 DEF TotalBytes, Tail_
    <3> QED
      BY <1>3, <2>1, <3>1
  <2> HIDE DEF n
  <2>4. CASE n # 0
    <3>1. n \in Nat \ {0} /\ n \in 1 .. Places
      BY <2>2, <2>4 DEF Places
    <3>2. Tape!PutBack(n)
      BY <2>1, <2>2, <3>1, GoesBack
    <3> QED
      BY <3>1, <3>2 DEF Tape!Next
  <2> QED
    BY <2>3, <2>4
<1>11. CASE CharBufferClear
  <2>1. writeto' = 0 /\ readfrom' = 0 /\ since' = 0
    BY <1>11 DEF CharBufferClear
  <2>2. TotalBytes' = 0 /\ since' - TotalBytes' = 0
    BY <2>1 DEF TotalBytes
  <2>3. Queue' = << >> /\ Behind' = << >>
    BY <2>1, <2>2 DEF Queue, Behind, Ring
  <2> QED
    BY <2>3 DEF Tape!Next, Tape!Clear
<1>12. CASE WriteCall \/ WriteReturn \/ ReadCall \/ ReadReturn \/ UNCHANGED vars
  BY <1>3, <1>12 DEF WriteCall, WriteReturn, ReadCall, ReadReturn, vars, ringVars,
                     writeVars, readVars
<1> QED
  BY <1>4, <1>5, <1>6, <1>7, <1>8, <1>9, <1>10, <1>11, <1>12 DEF Next

(* For a ring of any size and calls of any length: the ring is the queue of *)
(* bytes its users expect.  No byte is lost, doubled or read before it is   *)
(* written, also when the reader goes on over bytes it used in place, puts  *)
(* some back, or starts again from the beginning, and when a third thread   *)
(* clears the buffer in the middle of a call; and a call that moves the     *)
(* reader's pointer moves it as far as it was told.                         *)
THEOREM ImplementsTape == WrapIsNotSeen /\ Spec => IsTape
<1>1. SUFFICES ASSUME WrapIsNotSeen
               PROVE  Spec => IsTape
  OBVIOUS
<1>2. Init => Fits /\ Tape!Init
  <2> SUFFICES ASSUME Init
               PROVE  Fits /\ Tape!Init
    OBVIOUS
  <2>1. Fits /\ TotalBytes = 0 /\ since - TotalBytes = 0
    BY SizeAssumption DEF Init, Fits, TotalBytes
  <2> QED
    BY <2>1 DEF Queue, Behind, Ring, Tape!Init
<1>3. Spec => []Sound
  BY <1>1, <1>2, TypeInit, TypeStep, WriteStep, FitsStep, PTL DEF Spec, Sound
<1>4. Sound /\ Sound' => MovesAsTold
  BY AsTold DEF MovesAsTold
<1> QED
  BY <1>2, <1>3, <1>4, TapeStep, PTL DEF Spec, Tape!Spec, IsTape
=============================================================================
