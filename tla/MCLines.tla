------------------------------- MODULE MCLines -------------------------------
(***************************************************************************)
(* The block buffers for TLC: one with its writer and its reader, step by   *)
(* step (BlockBuffer), and those of the network thread's lines (Network),   *)
(* where a call of a buffer with one reader is one step.  A behaviour is    *)
(* about one of them.                                                       *)
(***************************************************************************)
EXTENDS MCBlockBuffer

CONSTANTS Lines, RoomOfLine, Arriving, Items_

VARIABLES net, ctl, buffer, memory, taken, writeto, readfrom, at, seen, hand,
          registered, done, forwarded, bcu_call_state, met,
          subject     \* what the behaviour is about

Net == INSTANCE Network WITH Room <- [l \in Lines |-> RoomOfLine],
                             Items <- Items_

ASSUME LinesAssumption ==
  /\ Lines # {} /\ Lines \subseteq {Net!Order[i] : i \in DOMAIN Net!Order}
  /\ RoomOfLine \in Nat /\ Items_ \in Nat /\ Items_ > 1

netVars == <<net, ctl, buffer, memory, taken, writeto, readfrom, at, seen, hand,
             registered, done, forwarded, bcu_call_state, met>>

LinesInit == subject \in {"block", "lines"} /\ Init /\ Net!Init

LinesNext ==
  /\ UNCHANGED subject
  /\ \/ subject = "block" /\ Next /\ UNCHANGED netVars
     \/ subject = "lines" /\ Net!Next /\ UNCHANGED vars

LinesSpec ==
  /\ LinesInit /\ [][LinesNext]_<<subject, vars, netVars>>
  /\ subject = "block" => Fairness
  /\ subject = "lines" => Net!Fairness

\* The ring of a block buffer, and the lines' buffers, pointers and
\* registrations keep their types.  What a behaviour is not about does not
\* change in it.
LinesTypeOK ==
  /\ subject = "block" => TypeOK
  /\ subject = "lines" => Net!TypeOK

\* Every type is found in the buffer it was registered with (Network).
AllRegistered == Net!AllRegistered

\* Readers that do not meet take each package once (Network).
TakenOnce == Net!TakenOnce

\* A full sending buffer gets room again (Network).
RoomAgain == Net!RoomAgain
=============================================================================
