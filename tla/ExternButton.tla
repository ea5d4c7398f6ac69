---------------------------- MODULE ExternButton ----------------------------
(***************************************************************************)
(* A metal key of the seat (bcu_extern_button.cxx): pa for an announcement, *)
(* pc for a passenger's call, cc for a call with another driver.  The       *)
(* control thread and the sampling thread both read its pin and count the   *)
(* readings in one unlocked counter; the control thread asks whether the    *)
(* key was pressed.  The sampling thread starts above the control thread    *)
(* and interrupts it; when one of its turns takes too long, it is put below *)
(* for good (DemaoEntry), and from then on is interrupted itself.           *)
(*                                                                          *)
(* The keys have counters of their own, so one of them is followed; the     *)
(* others show only as waits for the touch screen between the count and the *)
(* question.                                                                *)
(***************************************************************************)
EXTENDS Naturals

CONSTANT Cap      \* readings counted, at least 2: 100

VARIABLES key, down,        \* which key, and is it held?
          flag,             \* pa_state_flag and the like
          pressed,          \* whether_live_button_is_pressed and the like
          control, sampler, \* where the two threads are in the count
          at,               \* where the control thread is in its turn
          low,              \* is the sampling thread below the other?
          given             \* history: events since the key was pressed
                            \* or a reading was stored late, see below

keyVars == <<key, down>>
vars == <<keyVars, flag, pressed, control, sampler, at, low, given>>

Idle == [does |-> "nothing", value |-> 0, old |-> FALSE]

Init ==
  /\ key \in {"pa", "pc", "cc"} /\ down \in BOOLEAN
  /\ flag = 0 /\ pressed = 0 /\ control = Idle /\ sampler = Idle
  /\ at = "count" /\ low = FALSE /\ given = 0

ControlRuns == low \/ sampler = Idle
SamplerRuns == low => control = Idle /\ at # "ask"

\* What another thread has read is late once the pin or the counter changes.
Overtaken(c) == [c EXCEPT !.old = c.does # "nothing"]

\* Every press is followed by itself.
PressOrRelease ==
  /\ down' = ~down
  /\ given' = IF down THEN given ELSE 0
  /\ control' = Overtaken(control)
  /\ sampler' = Overtaken(sampler)
  /\ UNCHANGED <<key, flag, pressed, at, low>>

\* mutant: the counter is not stopped at its end
LookedUncapped == [Idle EXCEPT !.does = IF down THEN "add" ELSE "store"]

\* The pin is read, and the counter compared; to add one it is read again.
Looked ==
  IF down /\ flag < Cap THEN [Idle EXCEPT !.does = "add"]
  ELSE [Idle EXCEPT !.does = "store", !.value = IF down THEN Cap ELSE 0]

Count(c) ==
  c.does = "store" /\ flag' = c.value /\ given' = IF c.old THEN 0 ELSE given

Added(c) == [c EXCEPT !.does = "store", !.value = flag + 1]

GetPAAllOuterButtonState ==
  /\ at = "count" /\ ControlRuns
  /\ \/ control = Idle /\ control' = Looked /\ UNCHANGED <<flag, sampler, at, given>>
     \/ control.does = "add" /\ control' = Added(control)
        /\ UNCHANGED <<flag, sampler, at, given>>
     \/ Count(control) /\ control' = Idle /\ sampler' = Overtaken(sampler) /\ at' = "ask"
  /\ UNCHANGED <<keyVars, pressed, low>>

GetPAAllOuterButtonState2 ==
  /\ SamplerRuns
  /\ \/ sampler = Idle /\ sampler' = Looked /\ UNCHANGED <<flag, control, given>>
     \/ sampler.does = "add" /\ sampler' = Added(sampler)
        /\ UNCHANGED <<flag, control, given>>
     \/ Count(sampler) /\ sampler' = Idle /\ control' = Overtaken(control)
  /\ UNCHANGED <<keyVars, pressed, at, low>>

\* An event of a key asked before, or a change of a page, lets the control
\* thread wait in AlarmTSToChangeScreen.
AlarmTSToChangeScreen ==
  /\ key # "pa" /\ at = "ask" /\ ControlRuns /\ at' = "wait"
  /\ UNCHANGED <<keyVars, flag, pressed, control, sampler, low, given>>

AlarmDone ==
  /\ at = "wait" /\ ControlRuns /\ at' = "ask"
  /\ UNCHANGED <<keyVars, flag, pressed, control, sampler, low, given>>

\* mutant: a key that is held gives an event each time it is asked for
EventUnlatched ==
  IF flag >= 2 THEN pressed' = 0 /\ given' = given + 1
  ELSE UNCHANGED <<pressed, given>>

\* mutant: the key is never released
ReleasedNever ==
  IF flag >= 2 /\ pressed = 0 THEN pressed' = 1 /\ given' = given + 1
  ELSE UNCHANGED <<pressed, given>>

\* GetLiveExternButtonState, GetD2PExternButtonState, GetD2DExternButtonState
GetExternButtonState ==
  IF flag >= 2 /\ pressed = 0 THEN pressed' = 1 /\ given' = given + 1
  ELSE pressed' = (IF flag < 2 THEN 0 ELSE pressed) /\ UNCHANGED given

\* ProbeMetalButtonToPerform asks for pa and pc each turn; cc is asked for on
\* its page, when the seat is idle or in a call with another driver.
Probe ==
  /\ at = "ask" /\ ControlRuns /\ at' = "count"
  /\ GetExternButtonState \/ (key = "cc" /\ UNCHANGED <<pressed, given>>)
  /\ UNCHANGED <<keyVars, flag, control, sampler, low>>

PthreadPriorityChangeForSchedRr == low' = TRUE

DemaoEntry ==
  /\ ~low /\ PthreadPriorityChangeForSchedRr
  /\ UNCHANGED <<keyVars, flag, pressed, control, sampler, at, given>>

Next ==
  \/ PressOrRelease \/ GetPAAllOuterButtonState \/ GetPAAllOuterButtonState2
  \/ AlarmTSToChangeScreen \/ AlarmDone \/ Probe \/ DemaoEntry

Spec == Init /\ [][Next]_vars

\* The sampling thread waits for its timer between two turns, so the control
\* thread comes to run; the touch screen thread answers it.
Fairness ==
  /\ SF_vars(GetPAAllOuterButtonState) /\ SF_vars(Probe) /\ SF_vars(AlarmDone)
  /\ WF_vars(GetPAAllOuterButtonState2)

FairSpec == Spec /\ Fairness

(***************************************************************************)
(* Properties                                                               *)
(***************************************************************************)
Steps == [does : {"nothing", "add", "store"}, value : 0 .. Cap + 2, old : BOOLEAN]

\* The check before the addition and the addition are not one step, so the
\* counter may pass its end, but by two only: an unsigned char does not wrap.
TypeOK ==
  /\ key \in {"pa", "pc", "cc"} /\ down \in BOOLEAN
  /\ flag \in 0 .. Cap + 2 /\ pressed \in {0, 1}
  /\ control \in Steps /\ sampler \in Steps /\ at \in {"count", "ask", "wait"}
  /\ low \in BOOLEAN /\ given \in 0 .. 2

\* A press gives one event, and a second one only when a reading was stored
\* after the pin or the counter had changed: GetPAAllOuterButtonState of two
\* threads and GetLiveExternButtonState.
PressGivesOneEvent == given <= 1

\* A key of the pages that is held, or left alone, for long enough is noticed
\* as such, whichever thread counts and whoever waits meanwhile.
Noticed == pressed = IF down THEN 1 ELSE 0
HeldKeyIsNoticed ==
  \A d \in BOOLEAN : (key # "cc" /\ down = d) ~> (Noticed \/ down # d)
=============================================================================
