----------------------------- MODULE CharBuffer -----------------------------
(***************************************************************************)
(* A char buffer (buffer_read_write_fun.cxx): a ring of bytes with one      *)
(* writing and one reading thread and no lock.  A call copies byte by byte; *)
(* a byte is taken after a look at both pointers, then the pointer is       *)
(* advanced and, in a store of its own, wrapped.  A third thread may clear  *)
(* the buffer at the enter or exit of a session.                            *)
(*                                                                          *)
(* The code itself forbids neither a switch of threads between advance and  *)
(* wrap nor a clear in the middle of a call; SwitchAtWrap and ClearInCall   *)
(* say whether they happen.                                                 *)
(***************************************************************************)
EXTENDS Naturals, Integers, Sequences

CONSTANTS Size,             \* buffer_size
          Bytes,
          MaxCall,          \* bound: bytes of one call
          ClearModulus,     \* clear_count is an unsigned char
          SwitchAtWrap, ClearInCall

ASSUME SizeAssumption ==
  /\ Size \in Nat /\ Size > 1 /\ MaxCall \in Nat \ {0} /\ ClearModulus \in Nat \ {0}
  /\ SwitchAtWrap \in BOOLEAN /\ ClearInCall \in BOOLEAN

VARIABLES memory, writeto, readfrom, clear_count,
          writer, to_write, copied,     \* step, bytes left and done of a write
          reader, to_read, got,         \* the same of a read
          since     \* history: bytes since the last clear, up to Size - 1

ringVars == <<memory, writeto, readfrom, clear_count>>
writeVars == <<writer, to_write, copied>>
readVars == <<reader, to_read, got>>
vars == <<ringVars, writeVars, readVars, since>>

Places == Size - 1
Tail_ == Size       \* pb_tail, one past the last byte

Init ==
  /\ memory \in [0 .. Size - 1 -> Bytes]
  /\ writeto = 0 /\ readfrom = 0 /\ clear_count \in 0 .. ClearModulus - 1
  /\ writer = "out" /\ to_write = 0 /\ copied = 0
  /\ reader = "out" /\ to_read = 0 /\ got = 0
  /\ since = 0

Wrapped(p) == IF p >= Tail_ THEN 0 ELSE p
Advanced(p) == IF SwitchAtWrap THEN p + 1 ELSE Wrapped(p + 1)

(***************************************************************************)
(* What the pointers say                                                    *)
(***************************************************************************)
\* CharBufferCurrentReadPointer: all bytes waiting, and those up to the tail.
TotalBytes == IF readfrom <= writeto THEN writeto - readfrom
              ELSE (Tail_ - readfrom) + writeto
RightDelta == IF readfrom <= writeto THEN writeto - readfrom ELSE Tail_ - readfrom

\* mutant: the place in front of the reader is used too
FullNever == FALSE

Full == Wrapped(writeto + 1) = readfrom

\* The places left, or -1 (errBUFFER_FULL).
CharBufferIsFull ==
  IF Full THEN -1
  ELSE IF readfrom <= writeto THEN Size - (writeto - readfrom) - 1
       ELSE readfrom - writeto - 1

(***************************************************************************)
(* CharBufferWrite                                                          *)
(***************************************************************************)
WriteCall ==
  /\ writer = "out"
  /\ to_write' \in 1 .. MaxCall /\ copied' = 0 /\ writer' = "check"
  /\ UNCHANGED <<ringVars, readVars, since>>

\* All bytes are written, or the buffer is full: what is left stays out.
WriteReturn ==
  /\ writer = "check" /\ (to_write = 0 \/ Full)
  /\ writer' = "out" /\ to_write' = 0 /\ copied' = 0
  /\ UNCHANGED <<ringVars, readVars, since>>

WriteByte ==
  /\ writer = "check" /\ to_write > 0 /\ ~Full
  /\ \E b \in Bytes : memory' = [memory EXCEPT ![writeto] = b]
  /\ writer' = "advance"
  /\ UNCHANGED <<writeto, readfrom, clear_count, to_write, copied, readVars, since>>

WriteAdvance ==
  /\ writer = "advance"
  /\ writeto' = Advanced(writeto)
  /\ to_write' = to_write - 1 /\ copied' = copied + 1
  /\ since' = IF since < Places THEN since + 1 ELSE since
  /\ writer' = "wrap"
  /\ UNCHANGED <<memory, readfrom, clear_count, readVars>>

WriteWrap ==
  /\ writer = "wrap"
  /\ writeto' = Wrapped(writeto) /\ writer' = "check"
  /\ UNCHANGED <<memory, readfrom, clear_count, to_write, copied, readVars, since>>

(***************************************************************************)
(* CharBufferRead                                                           *)
(***************************************************************************)
ReadCall ==
  /\ reader = "out"
  /\ to_read' \in 1 .. MaxCall /\ got' = 0 /\ reader' = "check"
  /\ UNCHANGED <<ringVars, writeVars, since>>

\* Empty (-2, or what was read before) or the user's array is full.
ReadReturn ==
  /\ reader = "check" /\ (writeto = readfrom \/ got >= to_read)
  /\ reader' = "out" /\ to_read' = 0 /\ got' = 0
  /\ UNCHANGED <<ringVars, writeVars, since>>

\* The byte is copied and the pointer advanced.
ReadByte ==
  /\ reader = "check" /\ writeto # readfrom /\ got < to_read
  /\ readfrom' = Advanced(readfrom) /\ got' = got + 1 /\ reader' = "wrap"
  /\ UNCHANGED <<memory, writeto, clear_count, to_read, writeVars, since>>

ReadWrap ==
  /\ reader = "wrap"
  /\ readfrom' = Wrapped(readfrom) /\ reader' = "check"
  /\ UNCHANGED <<memory, writeto, clear_count, to_read, got, writeVars, since>>

(***************************************************************************)
(* Calls of the reading thread that move its pointer                        *)
(***************************************************************************)
\* CharBufferUpdateCurrentReadPointer: forward over n bytes that were used
\* in place, not beyond the writer.
Forward(n) ==
  LET delta_2 == writeto
      delta_3 == n - (Tail_ - readfrom)
  IN CASE readfrom < writeto ->
            IF readfrom + n >= writeto THEN writeto ELSE readfrom + n
       [] readfrom > writeto ->
            IF readfrom + n < Tail_ THEN readfrom + n
            ELSE IF delta_3 >= delta_2 THEN delta_2 ELSE delta_3
       [] OTHER -> readfrom

\* mutant: pb_tail is taken for the last byte
BackwardFromLast(n) ==
  IF readfrom >= n THEN readfrom - n ELSE Tail_ - 1 - (n - readfrom)

\* SingleThreadCharBufferBackWrite: back over n bytes, if there is room.
Backward(n) ==
  IF readfrom <= writeto
  THEN IF readfrom >= n THEN readfrom - n
       ELSE IF readfrom + (Tail_ - writeto - 1) >= n THEN Tail_ - (n - readfrom) ELSE readfrom
  ELSE IF readfrom - writeto - 1 >= n THEN readfrom - n ELSE readfrom

\* CharBufferUpdateCurrentReadPointer2 puts back both pointers when the buffer
\* was cleared in between; when the calls are whole that never happens.
UpdateCurrentReadPointer(n) ==
  /\ reader = "out"
  /\ readfrom' = Forward(n)
  /\ UNCHANGED <<memory, writeto, clear_count, writeVars, readVars, since>>

\* Only of bytes read since the buffer was cleared, and while no write runs.
BackWrite(n) ==
  /\ reader = "out" /\ writer = "out" /\ n <= since - TotalBytes
  /\ readfrom' = Backward(n)
  /\ UNCHANGED <<memory, writeto, clear_count, writeVars, readVars, since>>

\* The user of CharBufferBrush fills the buffer once after a clear.
CharBufferBrush ==
  /\ reader = "out" /\ writer = "out" /\ writeto = since
  /\ readfrom' = 0
  /\ UNCHANGED <<memory, writeto, clear_count, writeVars, readVars, since>>

CharBufferClear ==
  /\ ClearInCall \/ (reader = "out" /\ writer = "out")
  /\ writeto' = 0 /\ readfrom' = 0 /\ since' = 0
  /\ clear_count' = IF clear_count + 1 = ClearModulus THEN 0 ELSE clear_count + 1
  /\ UNCHANGED <<memory, writeVars, readVars>>

Next ==
  \/ WriteCall \/ WriteReturn \/ WriteByte \/ WriteAdvance \/ WriteWrap
  \/ ReadCall \/ ReadReturn \/ ReadByte \/ ReadWrap
  \/ \E n \in 1 .. MaxCall : UpdateCurrentReadPointer(n) \/ BackWrite(n)
  \/ CharBufferBrush \/ CharBufferClear

Spec == Init /\ [][Next]_vars

(***************************************************************************)
(* Properties                                                               *)
(***************************************************************************)
Steps == {"out", "check", "advance", "wrap"}

TypeOK ==
  /\ memory \in [0 .. Size - 1 -> Bytes]
  /\ writeto \in 0 .. Size /\ readfrom \in 0 .. Size
  /\ (~SwitchAtWrap => writeto < Size /\ readfrom < Size)
  /\ clear_count \in 0 .. ClearModulus - 1
  /\ writer \in Steps /\ to_write \in 0 .. MaxCall /\ copied \in 0 .. MaxCall
  /\ reader \in Steps \ {"advance"} /\ to_read \in 0 .. MaxCall /\ got \in 0 .. MaxCall
  /\ since \in 0 .. Places

\* What one thread has made of both pointers stays true while the other moves
\* its own: the byte a write has stored and not yet published keeps its place,
\* the room CharBufferIsFull promises and the bytes CharBufferCurrentReadPointer
\* offers add up to the ring, and no more bytes wait than were written.
PointersAgree ==
  /\ writer = "advance" => ~Full
  /\ TotalBytes <= since
  /\ CharBufferIsFull = IF TotalBytes = Places THEN -1 ELSE Places - TotalBytes
  /\ RightDelta <= TotalBytes /\ readfrom + RightDelta <= Tail_

\* The bytes from p on, n of them, once around the ring.
Around(p) == IF p < Size THEN p ELSE p - Size
Ring(p, n) == [i \in 1 .. n |-> memory[Around(p + i - 1)]]
Queue == Ring(readfrom, TotalBytes)
Behind == Ring(Around(writeto + Size - since), since - TotalBytes)

\* The ring is the queue of bytes its users expect: no byte is lost, doubled,
\* or read before it is written, also when the reader goes back; and a call
\* that moves the reader's pointer moves it as far as it was told.
Tape == INSTANCE ByteTape WITH queue <- Queue, behind <- Behind
MovesAsTold ==
  \A n \in 1 .. MaxCall : /\ BackWrite(n) => Tape!PutBack(n)
                          /\ UpdateCurrentReadPointer(n) => Tape!Get(n)
IsTape == Tape!Spec /\ [][MovesAsTold]_vars
=============================================================================
