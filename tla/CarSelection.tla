---------------------------- MODULE CarSelection ----------------------------
(***************************************************************************)
(* The cars a driver chooses for an announcement or for listening: the      *)
(* touch screen thread marks, confirms and cancels cars; the control thread *)
(* takes package 7, by which the control centre tells which cars are taken, *)
(* and lets the touch thread show them (SyncSelectCarInfo, code 33 of       *)
(* switchFlag).  Between the package and its handler, and in the delay of   *)
(* CannelSelectCar, anything else may happen.                               *)
(*                                                                          *)
(* The control centre and the other seats are no part of the program: the   *)
(* centre gives a free car to the seat that asks first, takes back what its *)
(* owner releases, and tells the seats.  The buffers for package 1 and      *)
(* package 7 are bounded, and what meets a full one is lost.                *)
(***************************************************************************)
EXTENDS Naturals, Sequences, FiniteSets

CONSTANTS Cars,
          SendPlaces,   \* places of "network-udp-server-send"
          RecvPlaces    \* packages 7 under way to the seat

ASSUME CarsAssumption ==
  IsFiniteSet(Cars) /\ SendPlaces \in Nat /\ RecvPlaces \in Nat

VARIABLES marked, finished,     \* car_select_flag, car_select_finish
          count,                \* car_select_count_for_monitor
          occupied,             \* car_occupy_state
          offered, buttons,     \* cars and other buttons that are active
          page,
          touch, control,       \* what the two threads wait for
          sent, received,       \* packages 1 and 7 under way
          owner                 \* of a car, at the control centre

screenVars == <<offered, buttons, page>>
linkVars == <<sent, received, owner>>
vars == <<marked, finished, count, occupied, screenVars, touch, control, linkVars>>

Buttons == {"next_page", "enter_select", "btn_monitor", "btn_return0"}
Delays == {"cancel_select", "btn_enter", "btn_return0"}
Packages == [cars : SUBSET Cars, select : BOOLEAN]

Init ==
  /\ marked = {} /\ finished = 0 /\ count = 0 /\ occupied = {}
  /\ offered = Cars /\ buttons = {"btn_monitor", "btn_return0"} /\ page = "car"
  /\ touch = "wait" /\ control = "loop"
  /\ sent = <<>> /\ received = <<>> /\ owner = [c \in Cars |-> "nobody"]

(***************************************************************************)
(* Touch screen thread                                                      *)
(***************************************************************************)
Change(on, off) == buttons' = (buttons \cup on) \ off

Callback(p) == touch = "wait" /\ page = p

\* Both writes of a package that finds the buffer full fail together.
Send(package) ==
  sent' = IF Len(sent) < SendPlaces THEN Append(sent, package) ELSE sent

Toggled(c) == IF c \in marked THEN marked \ {c} ELSE marked \cup {c}

UpdateSelectCarInfo ==
  /\ Callback("car") /\ finished = 0
  /\ \E c \in offered : marked' = Toggled(c)
  /\ Change({"enter_select"}, {})
  /\ UNCHANGED <<finished, count, occupied, offered, page, touch, control, linkVars>>

\* mutant: a confirmed choice can be confirmed again
ConfirmedButtonsStay == Change({"next_page"}, {})

ConfirmedButtons == Change({"next_page"}, {"enter_select"})

EnterSelectCar ==
  /\ Callback("car") /\ "enter_select" \in buttons
  /\ marked # {}
  /\ ConfirmedButtons
  /\ count' = Cardinality(marked)
  /\ Send([cars |-> marked, select |-> TRUE])
  /\ finished' = 1
  /\ UNCHANGED <<marked, occupied, offered, page, touch, control, received, owner>>

\* The end of CannelSelectCar, and what its caller does afterwards.
AfterCancel(caller) ==
  /\ finished' = 0 /\ page' = "car"
  /\ Change(IF caller # "btn_enter" THEN {}
            ELSE {"btn_return0"} \cup (IF count' = 1 THEN {"btn_monitor"} ELSE {}),
            {"next_page"})

\* With nothing marked there is no package and no delay, and the cars stay
\* as they are.
CannelSelectCar(caller) ==
  \/ /\ marked # {}
     /\ marked' = {} /\ offered' = Cars /\ occupied' = {} /\ count' = 0
     /\ Send([cars |-> marked, select |-> FALSE])
     /\ touch' = caller
     /\ UNCHANGED <<finished, buttons, page, control, received, owner>>
  \/ /\ marked = {}
     /\ UNCHANGED count /\ AfterCancel(caller)
     /\ UNCHANGED <<marked, offered, occupied, touch, control, linkVars>>

cb_cancel_select == Callback("car") /\ CannelSelectCar("cancel_select")

cb_btn_return0 ==
  Callback("choose") /\ "btn_return0" \in buttons /\ CannelSelectCar("btn_return0")

EndDelay ==
  /\ touch \in Delays
  /\ UNCHANGED count /\ AfterCancel(touch) /\ touch' = "wait"
  /\ UNCHANGED <<marked, offered, occupied, control, linkVars>>

cb_next_page ==
  /\ Callback("car") /\ "next_page" \in buttons
  /\ page' = "choose"
  /\ IF count = 1 THEN Change({"btn_monitor"}, {}) ELSE Change({}, {"btn_monitor"})
  /\ UNCHANGED <<marked, finished, count, occupied, offered, touch, control, linkVars>>

\* The announcement begins or ends as live_button_state says, which other
\* threads change at any time.
cb_btn_enter ==
  /\ Callback("choose")
  /\ \/ /\ Change({}, {"btn_monitor", "btn_return0"})
        /\ UNCHANGED <<marked, finished, count, occupied, offered, page, touch,
                       control, linkVars>>
     \/ CannelSelectCar("btn_enter")

(***************************************************************************)
(* Package 7 and its handler                                                *)
(***************************************************************************)
ProbeBigCommPackage ==
  /\ control = "loop" /\ received # <<>>
  /\ occupied' = occupied \cup Head(received) /\ received' = Tail(received)
  /\ control' = "33"
  /\ UNCHANGED <<marked, finished, count, screenVars, touch, sent, owner>>

\* mutant: a car that is taken stays marked
KeptMarksTaken == marked \cap occupied

\* A taken car stays marked only if it was confirmed.
KeptMarks == IF finished = 0 THEN {} ELSE marked \cap occupied

SyncSelectCarInfo ==
  /\ touch = "wait" /\ control = "33"
  /\ marked' = KeptMarks
  /\ offered' = Cars \ occupied
  /\ occupied' = {}
  /\ control' = "loop"
  /\ UNCHANGED <<finished, count, buttons, page, touch, linkVars>>

(***************************************************************************)
(* The control centre and the other seats                                   *)
(***************************************************************************)
\* The centre tells the seats what is taken by now.
Tell == received' = IF Len(received) = RecvPlaces THEN received
                    ELSE Append(received, {c \in Cars : owner'[c] # "nobody"})

TakePackage ==
  /\ sent # <<>>
  /\ LET p == Head(sent)
         from == IF p.select THEN "nobody" ELSE "seat"
         to == IF p.select THEN "seat" ELSE "nobody"
     IN owner' = [c \in Cars |-> IF c \in p.cars /\ owner[c] = from THEN to ELSE owner[c]]
  /\ sent' = Tail(sent) /\ Tell
  /\ UNCHANGED <<marked, finished, count, occupied, screenVars, touch, control>>

\* Another seat takes free cars or gives back its own.
OtherSeat ==
  /\ \E C \in SUBSET Cars \ {{}}, from, to \in {"nobody", "other"} :
       /\ from # to /\ \A c \in C : owner[c] = from
       /\ owner' = [c \in Cars |-> IF c \in C THEN to ELSE owner[c]]
  /\ Tell
  /\ UNCHANGED <<marked, finished, count, occupied, screenVars, touch, control, sent>>

Next ==
  \/ UpdateSelectCarInfo \/ EnterSelectCar \/ cb_cancel_select \/ cb_btn_return0
  \/ EndDelay \/ cb_next_page \/ cb_btn_enter
  \/ ProbeBigCommPackage \/ SyncSelectCarInfo \/ TakePackage \/ OtherSeat

Spec == Init /\ [][Next]_vars

(***************************************************************************)
(* Properties                                                               *)
(***************************************************************************)
TypeOK ==
  /\ marked \in SUBSET Cars /\ finished \in {0, 1} /\ count \in Nat
  /\ occupied \in SUBSET Cars /\ offered \in SUBSET Cars
  /\ buttons \in SUBSET Buttons /\ page \in {"car", "choose"}
  /\ touch \in {"wait"} \cup Delays /\ control \in {"loop", "33"}
  /\ sent \in Seq(Packages) /\ received \in Seq(SUBSET Cars)
  /\ owner \in [Cars -> {"nobody", "seat", "other"}]

\* A car the driver has marked and not yet confirmed is one the driver can
\* still press, so the mark can be taken back: what package 7 takes away on
\* the other thread it also unmarks.
MarksAreOffered == finished = 0 => marked \subseteq offered

\* A choice is confirmed at most once, and "next page" is there exactly while
\* one is: whatever order callbacks, the delay of a cancel and package 7 take.
ConfirmedOnce ==
  /\ "next_page" \in buttons <=> finished = 1
  /\ finished = 1 => "enter_select" \notin buttons

\* "Cancel the choice" (cancel_select) gives the cars back: with nothing
\* confirmed and no package under way, the seat owns no car at the centre.
CancelReleases ==
  touch = "wait" /\ control = "loop" /\ sent = <<>> /\ received = <<>> /\ finished = 0
    => \A c \in Cars : owner[c] # "seat"
=============================================================================
