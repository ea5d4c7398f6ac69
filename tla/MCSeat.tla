------------------------------- MODULE MCSeat -------------------------------
(***************************************************************************)
(* What the driver has in hand besides the calls, for TLC: the choice of    *)
(* cars (CarSelection), the menu with password and volume (Settings) and a  *)
(* metal key (ExternButton); the firmware of the seat (Firmware), and the   *)
(* start of its program (StartUp).  They share no state but what StartUp    *)
(* leaves to them, so a behaviour is about one of them.                     *)
(***************************************************************************)
EXTENDS CarSelection

CONSTANTS Length, Cap

ASSUME SeatAssumption == Length \in Nat \ {0} /\ Cap \in Nat /\ Cap >= 2

VARIABLES shown_page, password, ok, mask, title, d2d_volume, sub, inc, label,
          dev_vol, current_dia, session, missed,
          key, down, flag, pressed, counting, sampler, at, low, given,
          file, mounted, serving, tftp_created, writer, step, dev_status,
          unchecked, cut,
          next, set, early, timer, showing, ended,
          subject     \* what the behaviour is about

Menu == INSTANCE Settings
Key == INSTANCE ExternButton WITH control <- counting
Flash == INSTANCE Firmware
Start == INSTANCE StartUp

menuVars == <<shown_page, password, ok, mask, title, d2d_volume, sub, inc, label,
              dev_vol, current_dia, session, missed>>
keyVars == <<key, down, flag, pressed, counting, sampler, at, low, given>>
flashVars == <<file, mounted, serving, tftp_created, writer, step, dev_status,
               unchecked, cut>>
startVars == <<next, set, early, timer, showing, ended>>

SeatInit ==
  /\ subject \in {"cars", "menu", "key", "firmware", "start"}
  /\ Init /\ Menu!Init /\ Key!Init /\ Flash!Init /\ Start!Init
  /\ subject # "key" => key = "cc" /\ ~down
  /\ subject # "firmware" => mounted

SeatNext ==
  /\ UNCHANGED subject
  /\ \/ subject = "cars" /\ Next /\ UNCHANGED <<menuVars, keyVars, flashVars, startVars>>
     \/ subject = "menu" /\ Menu!Next /\ UNCHANGED <<vars, keyVars, flashVars, startVars>>
     \/ subject = "key" /\ Key!Next /\ UNCHANGED <<vars, menuVars, flashVars, startVars>>
     \/ subject = "firmware" /\ Flash!Next /\ UNCHANGED <<vars, menuVars, keyVars, startVars>>
     \/ subject = "start" /\ Start!Next /\ UNCHANGED <<vars, menuVars, keyVars, flashVars>>

SeatSpec ==
  /\ SeatInit /\ [][SeatNext]_<<subject, vars, menuVars, keyVars, flashVars, startVars>>
  /\ subject = "key" => Key!Fairness

\* Cars, pages, keys and files keep their types; the volume stays on its scale
\* and the counter of a key never wraps.  What a behaviour is not about does
\* not change in it.
SeatTypeOK ==
  /\ subject = "cars" => TypeOK
  /\ subject = "menu" => Menu!TypeOK
  /\ subject = "key" => Key!TypeOK
  /\ subject = "firmware" => Flash!TypeOK
  /\ subject = "start" => Start!TypeOK

\* The pages of the menu tell what is behind them (Settings).
PagesTellState == Menu!PagesTellState

\* The speaker is as loud in a call between drivers as chosen (Settings).
CallIsAsLoudAsChosen == Menu!CallIsAsLoudAsChosen

\* One press of a key gives one event, but for late stores (ExternButton).
PressGivesOneEvent == Key!PressGivesOneEvent

\* A key that is held, or left alone, is noticed in the end (ExternButton).
HeldKeyIsNoticed == Key!HeldKeyIsNoticed

\* The firmware in place works, whatever is uploaded and verified (Firmware).
KeepsWorking == Flash!KeepsWorking

\* At the start nothing is used before it is set, but for what is known
\* (StartUp).
NothingIsEarly == Start!NothingIsEarly
=============================================================================
