------------------------------ MODULE BcuControl ------------------------------
(***************************************************************************)
(* The sessions of one driver seat: the intercom state (talk to a driver,   *)
(* talk to a passenger's call box, listen to one) and the announcement      *)
(* state (idle or a live announcement), and the threads that change them.   *)
(*                                                                          *)
(* The control thread obeys metal keys, packages of the control centre and  *)
(* the commands of "bcu-screen-cmd-tx"; the touch screen thread runs button *)
(* callbacks and the handlers of switchFlag; the sampling thread ends an    *)
(* announcement nobody speaks into.  Control and touch thread both change   *)
(* the intercom state, and neither takes a lock.                            *)
(*                                                                          *)
(* A step runs a thread up to its next cyg_thread_delay, Fl::wait or wait   *)
(* for switchFlag, or less: then[t] says where thread t goes on.  Waiting   *)
(* calls, alarm tones, sound, volumes and the network belong elsewhere.     *)
(***************************************************************************)
EXTENDS Naturals, Sequences, StateTables

CONSTANTS Pages,        \* the pages the driver visits
          Keys,         \* the metal keys the driver uses
          Packages,     \* what the control centre asks for
          Capacity,     \* places of "bcu-screen-cmd-tx": 4 in the code
          CommandsMayWait   \* may SendCmd find "bcu-network-cmd-tx" full?

ASSUME CapacityAssumption == Capacity \in Nat \ {0}

VARIABLES intercom, ann,    \* bcu_active_intercom_state, bcu_active_ann_state
          current_state_ann,
          mic_owner, destination,   \* destination: where the samples go
          live_button_state, d2d_button_state, this_bcu_request,
          begin_to_broadcast_audio_data,
          unused_for_long,  \* live_state_running_free_counts has reached 30
          is_intercomming_with_pcu, d2p_button_state,
          page, active,     \* the page shown, the buttons that can be pressed
          cars,             \* car_select_count_for_monitor, up to 2
          screen_cmds,      \* "bcu-screen-cmd-tx"
          send_ts_cmd_to_control,
          switchFlag, pc, then

micVars == <<mic_owner, destination>>
annVars == <<ann, current_state_ann, live_button_state, unused_for_long>>
intercomVars == <<intercom, d2d_button_state, this_bcu_request,
                  begin_to_broadcast_audio_data>>
sessionVars == <<micVars, annVars, intercomVars>>
callVars == <<is_intercomming_with_pcu, d2p_button_state>>
screenVars == <<page, active, cars>>
commandVars == <<screen_cmds, send_ts_cmd_to_control>>
vars == <<sessionVars, callVars, screenVars, commandVars, switchFlag, pc, then>>

Threads == {"control", "touch", "sample"}
Buttons == {"next_page", "btn_monitor", "btn_return0", "pcus", "enter_monitor",
            "btn_return", "enter_d2d", "canenl_d2d", "return_D2D", "iph_rows",
            "btn_intercomm_accept", "btn_intercomm_refuse"}

\* No command leads to the driver call that hangs a passenger's up.
Rules == {r \in BCURuleTableInit : "hang_up" \notin {r[1], r[3]}}

\* The buttons that touch_screen_main leaves active when it builds a page.
\* accept, refuse, btn_monitor, enter_d2d and canenl_d2d begin inactive.
gp_intercomm == {"iph_rows"}
controlpage == {"pcus", "btn_return", "enter_monitor"}
AnnOrMonitorSelect == {"btn_return0"}
D2D_intercom_page == {"return_D2D"}
ActiveAtStart ==
  gp_intercomm \cup controlpage \cup AnnOrMonitorSelect \cup D2D_intercom_page

Init ==
  /\ intercom = "idle" /\ ann = "idle" /\ current_state_ann = "idle"
  /\ mic_owner = "NONE" /\ destination = "none"
  /\ live_button_state = 0 /\ d2d_button_state = 0 /\ this_bcu_request = 0
  /\ begin_to_broadcast_audio_data = 0 /\ unused_for_long = FALSE
  /\ is_intercomming_with_pcu = 0 /\ d2p_button_state = 0
  /\ page = "static" /\ cars = 0
  /\ active = ActiveAtStart
  /\ screen_cmds = <<>> /\ send_ts_cmd_to_control = "live_off"
  /\ switchFlag = 0
  /\ pc = [control |-> "metal", touch |-> "wait", sample |-> "sample"]
  /\ then = [t \in Threads |-> "none"]

(***************************************************************************)
(* Threads                                                                  *)
(***************************************************************************)
Goto(t, next) == pc' = [pc EXCEPT ![t] = next] /\ UNCHANGED then
Call(t, step, next) == /\ pc' = [pc EXCEPT ![t] = step]
                       /\ then' = [then EXCEPT ![t] = next]
Return(t) == Call(t, then[t], "none")

NoExchange == UNCHANGED sessionVars
GiveMic(owner, to) == mic_owner' = owner /\ destination' = to

(***************************************************************************)
(* Intercom sessions                                                        *)
(***************************************************************************)
\* mutant: the session keeps its flags
ExitKeepsFlags ==
  /\ IF intercom = "idle" THEN UNCHANGED micVars ELSE GiveMic("NONE", "none")
  /\ UNCHANGED <<d2d_button_state, this_bcu_request, begin_to_broadcast_audio_data>>

Exit ==
  LET leaves(s) == intercom \in s IN
  /\ IF leaves({"idle"}) THEN UNCHANGED micVars ELSE GiveMic("NONE", "none")
  /\ d2d_button_state' = IF leaves({"d2d"}) THEN 0 ELSE d2d_button_state
  /\ this_bcu_request' = IF leaves({"d2d"}) THEN 0 ELSE this_bcu_request
  /\ begin_to_broadcast_audio_data' =
       IF leaves({"d2p", "monitor"}) THEN 0 ELSE begin_to_broadcast_audio_data

\* Without a rule for this event in this state nothing happens, at once.
StateMachineExchange(t, event, next) ==
  \/ \E r \in Rules : /\ r[1] = intercom /\ r[2] = event
                      /\ Exit /\ intercom' = r[3]
                      /\ Call(t, "enter", next)
                      /\ UNCHANGED annVars
  \/ /\ ~\E r \in Rules : r[1] = intercom /\ r[2] = event
     /\ NoExchange
     /\ Goto(t, next)

\* mutant: the destination is remembered before the delay
EnterDestinationOfRule(t) ==
  CASE then[t] = "requested" -> "d2d" [] then[t] = "called" -> "d2d"
    [] then[t] = "monitoring" -> "monitor" [] OTHER -> intercom

EnteredState(t) == intercom

\* After the delay: enter of the state that is the current one by then.
\* What D2P and monitor do after SendCmd may come later.
Enter(t) ==
  LET state == EnteredState(t) IN
  /\ pc[t] = "enter"
  /\ mic_owner' = IF state \in {"d2d", "d2p"} THEN "INTERCOM" ELSE mic_owner
  /\ d2d_button_state' = IF state = "d2d" THEN 1 ELSE d2d_button_state
  /\ \/ /\ begin_to_broadcast_audio_data' =
             IF state \in {"d2p", "monitor"} THEN 1
             ELSE begin_to_broadcast_audio_data
        /\ Return(t)
     \/ /\ CommandsMayWait /\ state \in {"d2p", "monitor"}
        /\ UNCHANGED begin_to_broadcast_audio_data
        /\ Goto(t, "sent")
  /\ UNCHANGED <<destination, annVars, intercom, this_bcu_request, callVars,
                 screenVars, commandVars, switchFlag>>

EnterSent(t) ==
  /\ pc[t] = "sent"
  /\ begin_to_broadcast_audio_data' = 1
  /\ Return(t)
  /\ UNCHANGED <<micVars, annVars, intercom, d2d_button_state,
                 this_bcu_request, callVars, screenVars, commandVars, switchFlag>>

(***************************************************************************)
(* Live announcements                                                       *)
(***************************************************************************)
LiveAnnEnter ==
  /\ live_button_state' = 1 /\ current_state_ann' = "live"
  /\ GiveMic("ANNOUNCE", "OCS")
  /\ unused_for_long' = FALSE

\* mutant: the announcement keeps the microphone
LiveAnnExitKeepsMic ==
  /\ ann' = "idle" /\ current_state_ann' = "idle" /\ live_button_state' = 0
  /\ unused_for_long' = FALSE /\ UNCHANGED micVars

\* LiveAnnExit and IdleAnnEnter
LiveAnnExit ==
  /\ ann' = "idle" /\ current_state_ann' = "idle" /\ live_button_state' = 0
  /\ GiveMic("NONE", "none")
  /\ unused_for_long' = FALSE

EnableLiveMonitorTimer ==
  /\ live_button_state = 1 /\ ~unused_for_long
  /\ unused_for_long' = TRUE
  /\ UNCHANGED <<micVars, ann, current_state_ann, live_button_state,
                 intercomVars, callVars, screenVars, commandVars, switchFlag,
                 pc, then>>

(***************************************************************************)
(* Commands to the control thread                                           *)
(***************************************************************************)
\* mutant: fills the place that tells full from empty
SetCmdOffByOne(t, command, next) ==
  /\ send_ts_cmd_to_control' = command
  /\ \/ /\ Len(screen_cmds) <= Capacity
        /\ screen_cmds' = Append(screen_cmds, command)
        /\ Call(t, next, "none")
     \/ /\ Len(screen_cmds) > Capacity
        /\ UNCHANGED screen_cmds
        /\ Call(t, "retry", next)

TouchScreenSetCmd(t, command, next) ==
  /\ send_ts_cmd_to_control' = command
  /\ \/ /\ Len(screen_cmds) < Capacity
        /\ screen_cmds' = Append(screen_cmds, command)
        /\ Call(t, next, "none")
     \/ /\ Len(screen_cmds) = Capacity
        /\ UNCHANGED screen_cmds
        /\ Call(t, "retry", next)

\* mutant: polls until there is room
RetryUntilWritten(t) ==
  /\ pc[t] = "retry"
  /\ \/ /\ Len(screen_cmds) < Capacity
        /\ screen_cmds' = Append(screen_cmds, send_ts_cmd_to_control)
        /\ Return(t)
     \/ /\ Len(screen_cmds) = Capacity
        /\ UNCHANGED <<screen_cmds, pc, then>>
  /\ NoExchange /\ UNCHANGED <<callVars, screenVars, send_ts_cmd_to_control,
                               switchFlag>>

\* The second and last try writes whatever the shared package holds by then.
Retry(t) ==
  /\ pc[t] = "retry"
  /\ screen_cmds' = IF Len(screen_cmds) < Capacity
                    THEN Append(screen_cmds, send_ts_cmd_to_control)
                    ELSE screen_cmds
  /\ Return(t)
  /\ NoExchange /\ UNCHANGED <<callVars, screenVars, send_ts_cmd_to_control,
                               switchFlag>>

ExchangeToLive(t, next) ==
  IF mic_owner \in {"NONE", "ANNOUNCE"} /\ ann # "live"
  THEN TouchScreenSetCmd(t, "live_on", next)
  ELSE Goto(t, next) /\ UNCHANGED commandVars

(***************************************************************************)
(* Calls with passengers, from the touch or the control thread              *)
(***************************************************************************)
\* RecvD2PRequest ends an announcement itself, in whatever thread it runs.
RecvD2PRequest(t, next) ==
  /\ IF ann = "live" THEN LiveAnnExit /\ UNCHANGED intercomVars ELSE NoExchange
  /\ Call(t, "receive", next)

Receive(t) ==
  /\ pc[t] = "receive"
  /\ is_intercomming_with_pcu' = 1
  /\ active' = active \ {"btn_intercomm_accept"}
  /\ TouchScreenSetCmd(t, "d2p_on", then[t])
  /\ NoExchange /\ UNCHANGED <<d2p_button_state, page, cars, switchFlag>>

\* Without a call of its own, the BCU refuses one if any waits.
RefuseD2PRequest(t) ==
  /\ pc[t] = "refuse"
  /\ is_intercomming_with_pcu' = 0
  /\ \/ TouchScreenSetCmd(t, "d2p_off", then[t])
     \/ /\ is_intercomming_with_pcu = 0
        /\ Return(t) /\ UNCHANGED commandVars
  /\ NoExchange /\ UNCHANGED <<d2p_button_state, screenVars, switchFlag>>

Disable_D2p_All_Btn == (active \ {"iph_rows"}) \cup {"btn_intercomm_accept"}
Enable_D2p_All_Btn ==
  (active \ {"btn_intercomm_accept", "btn_intercomm_refuse"}) \cup {"iph_rows"}
Enable_D2d_All_Btn == active \ {"enter_d2d", "canenl_d2d"}
Disable_D2D_All_Btn == active \cup {"enter_d2d", "canenl_d2d"}

(***************************************************************************)
(* Control thread                                                           *)
(***************************************************************************)
Control(step, next) == pc.control = step /\ Goto("control", next)

AlarmTSToChangeScreen(code, next) ==
  /\ switchFlag' = code
  /\ Call("control", "alarm", next)

ProbeMetalButtonToPerform ==
  /\ \/ /\ pc.control = "metal" /\ "pa" \in Keys
        /\ AlarmTSToChangeScreen(16, "metal_pc")
     \/ /\ pc.control = "metal_pc" /\ "pc" \in Keys
        /\ AlarmTSToChangeScreen(17, "metal_cc")
     \/ Control("metal", "metal_pc") /\ UNCHANGED switchFlag
     \/ Control("metal_pc", "metal_cc") /\ UNCHANGED switchFlag
  /\ NoExchange /\ UNCHANGED <<callVars, screenVars, commandVars>>

AlarmDone ==
  /\ pc.control = "alarm" /\ switchFlag = 0
  /\ Return("control")
  /\ NoExchange /\ UNCHANGED <<callVars, screenVars, commandVars, switchFlag>>

\* The key counts only while a row of the D2D page is chosen.
JudgeWhetherD2DHaveFinished ==
  /\ pc.control = "metal_cc" /\ "cc" \in Keys
  /\ "enter_d2d" \in active
  /\ intercom = "d2d" /\ d2d_button_state = 1
  /\ StateMachineExchange("control", "driver_release", "finished")
  /\ UNCHANGED <<callVars, screenVars, commandVars, switchFlag>>

JudegWhetherRequestD2D ==
  /\ pc.control = "metal_cc" /\ "cc" \in Keys
  /\ "enter_d2d" \in active
  /\ intercom = "idle" /\ mic_owner = "NONE" /\ d2d_button_state = 0
  /\ this_bcu_request' = 1
  /\ intercom' = "d2d" /\ Call("control", "enter", "requested")
  /\ UNCHANGED <<micVars, annVars, d2d_button_state, callVars, screenVars,
                 begin_to_broadcast_audio_data, commandVars, switchFlag>>

\* What the control thread does after an exchange of its own.
AfterD2DKey ==
  /\ \/ Control("metal_cc", "package") /\ UNCHANGED active
     \/ /\ Control("finished", "package")
        /\ active' = Enable_D2d_All_Btn \cup {"return_D2D"}
     \/ /\ Control("requested", "package")
        /\ active' = (active \cup {"canenl_d2d"}) \ {"return_D2D"}
  /\ NoExchange /\ UNCHANGED <<callVars, page, cars, commandVars, switchFlag>>

\* Type 2: announce.  SetLiveCmd makes the control thread its own customer.
ProbeAnnouncePackage ==
  /\ \/ "live_on" \in Packages /\ ExchangeToLive("control", "command")
     \/ /\ "live_off" \in Packages
        /\ TouchScreenSetCmd("control", "live_off", "command")
  /\ NoExchange /\ UNCHANGED <<callVars, screenVars, switchFlag>>

\* Type 5: listen to a call box.
ProbeMonitorPackage ==
  /\ \E event \in {"monitor_call", "monitor_exit"} \cap Packages :
       StateMachineExchange("control", event, "command")
  /\ UNCHANGED <<callVars, screenVars, commandVars, switchFlag>>

\* Type 6: take a call, or refuse it after a delay.
ProbeIntercomPackage ==
  /\ \/ /\ "d2p_on" \in Packages
        /\ active' = Disable_D2p_All_Btn
        /\ RecvD2PRequest("control", "received")
     \/ /\ "d2p_off" \in Packages
        /\ Call("control", "refuse", "refused")
        /\ NoExchange /\ UNCHANGED active
  /\ UNCHANGED <<callVars, page, cars, commandVars, switchFlag>>

ProbeBigCommPackage ==
  \/ /\ pc.control = "package"
     /\ ProbeAnnouncePackage \/ ProbeMonitorPackage \/ ProbeIntercomPackage
  \/ /\ Control("package", "command")
     /\ NoExchange /\ UNCHANGED <<callVars, screenVars, commandVars, switchFlag>>

AfterPackage ==
  /\ \/ /\ Control("received", "command")
        /\ d2p_button_state' = 2 /\ UNCHANGED active
     \/ /\ Control("refused", "command")
        /\ active' = Enable_D2p_All_Btn /\ UNCHANGED d2p_button_state
  /\ NoExchange /\ UNCHANGED <<is_intercomming_with_pcu, page, cars, commandVars,
                               switchFlag>>

\* Only a command that changes something is obeyed.
WhetherWantToExchangeState(command) ==
  CASE command = "live_on" -> ann # "live"
    [] command = "live_off" -> ann = "live"
    [] command = "d2p_on" -> intercom # "d2p"
    [] command = "d2p_off" -> intercom = "d2p"

\* Over to a state of no lower priority; the end of a state leads to idle.
\* LiveAnnEnter may wait in SendCmd before it does anything else.
BcuDynamicStateExchange(command) ==
  LET event == BCUSetTSCmd(command).event_type_ann
      next == IF WhetherOverPackage(command) /\ ann = event THEN "idle" ELSE event
  IN /\ BcuStateEventIdJudge(ann) = "ann"
     /\ BcuAnnStatePriorityListSearch(event) <= BcuAnnStatePriorityListSearch(ann)
     /\ UNCHANGED intercomVars
     /\ \/ next = "idle" /\ LiveAnnExit /\ Goto("control", "metal")
        \/ /\ next = "live" /\ ann' = "live"
           /\ LiveAnnEnter /\ Goto("control", "metal")
        \/ /\ next = "live" /\ ann' = "live" /\ CommandsMayWait
           /\ UNCHANGED <<micVars, current_state_ann, live_button_state,
                          unused_for_long>>
           /\ Goto("control", "live_sent")

\* mutant: the owner of the microphone decides about both commands
ANNStateHangleOwned(command) ==
  LET refused == mic_owner # (IF command = "live_on" THEN "NONE" ELSE "ANNOUNCE") IN
  \/ /\ WhetherWantToExchangeState(command) /\ ~refused
     /\ BcuDynamicStateExchange(command)
  \/ /\ ~WhetherWantToExchangeState(command) \/ refused
     /\ NoExchange /\ Goto("control", "metal")

\* An announcement is refused while anybody owns the microphone.
ANNStateHangle(command) ==
  LET refused == command = "live_on" /\ mic_owner # "NONE" IN
  \/ /\ WhetherWantToExchangeState(command) /\ ~refused
     /\ BcuDynamicStateExchange(command)
  \/ /\ ~WhetherWantToExchangeState(command) \/ refused
     /\ NoExchange /\ Goto("control", "metal")

\* LiveAnnEnter sends its command before anything else.
LiveSent ==
  /\ Control("live_sent", "metal")
  /\ LiveAnnEnter
  /\ UNCHANGED <<ann, intercomVars, callVars, screenVars, commandVars, switchFlag>>

\* mutant: the end of the call is told as the call itself
IntercomStateHangleSwapped(command) ==
  StateMachineExchange("control", "pcu_call", "metal")

IntercomStateHangle(command) ==
  \/ /\ WhetherWantToExchangeState(command)
     /\ StateMachineExchange("control", GetEventType(intercom, command), "metal")
  \/ /\ ~WhetherWantToExchangeState(command)
     /\ NoExchange /\ Goto("control", "metal")

ReadCommand ==
  /\ pc.control = "command"
  /\ \/ /\ screen_cmds # <<>>
        /\ screen_cmds' = Tail(screen_cmds)
        /\ LET command == Head(screen_cmds) IN
           \/ /\ BCUSetTSCmd(command).event_type_ann # "idle"
              /\ ANNStateHangle(command)
           \/ /\ BCUSetTSCmd(command).event_type_intercom # "idle"
              /\ IntercomStateHangle(command)
     \/ /\ screen_cmds = <<>>
        /\ Goto("control", "metal") /\ NoExchange /\ UNCHANGED screen_cmds
  /\ UNCHANGED <<callVars, screenVars, send_ts_cmd_to_control, switchFlag>>

(***************************************************************************)
(* Touch screen thread                                                      *)
(***************************************************************************)
\* A callback runs inside Fl::wait; then the loop looks at switchFlag.
Pressed(p) == pc.touch = "wait" /\ page = p
Done == Goto("touch", "flag")

\* Buttons that show another page and do no more.
MenuButtons == {<<"static", "car">>, <<"static", "set">>, <<"static", "d2d">>}
cb_btn_return1 == <<"car", "static">>
cb_btn_main_file_back == <<"set", "static">>
cb_btn_intercomm_back == <<"d2p", "static">>
PageButtons ==
  MenuButtons \cup {cb_btn_return1, cb_btn_main_file_back, cb_btn_intercomm_back}

ShowPage ==
  \E to \in Pages :
    /\ pc.touch = "wait"
    /\ <<page, to>> \in PageButtons
    /\ page' = to /\ Done
    /\ NoExchange /\ UNCHANGED <<callVars, active, cars, commandVars, switchFlag>>

cb_return_D2D ==
  /\ Pressed("d2d") /\ "return_D2D" \in active
  /\ page' = "static" /\ Done
  /\ NoExchange /\ UNCHANGED <<callVars, active, cars, commandVars, switchFlag>>

cb_btn_intercomm ==
  /\ Pressed("static") /\ "d2p" \in Pages
  /\ page' = "d2p" /\ d2p_button_state' = 1 /\ Done
  /\ NoExchange /\ UNCHANGED <<is_intercomming_with_pcu, active, cars, commandVars,
                               switchFlag>>

\* UpdateSelectCarInfo for one car or more, then EnterSelectCar.
EnterSelectCar ==
  /\ Pressed("car")
  /\ cars' \in {1, 2} /\ active' = active \cup {"next_page"} /\ Done
  /\ NoExchange /\ UNCHANGED <<callVars, page, commandVars, switchFlag>>

\* The count stays when no car is marked any more; else there is a delay.
CannelSelectCar(after) ==
  /\ cars' \in {0, cars}
  /\ active' = after \ {"next_page"}

cb_cancel_select ==
  /\ Pressed("car")
  /\ CannelSelectCar(active) /\ Done
  /\ NoExchange /\ UNCHANGED <<callVars, page, commandVars, switchFlag>>

cb_next_page ==
  /\ Pressed("car") /\ "next_page" \in active /\ "choose" \in Pages
  /\ page' = "choose"
  /\ active' = IF cars = 1 THEN active \cup {"btn_monitor"}
               ELSE active \ {"btn_monitor"}
  /\ Done
  /\ NoExchange /\ UNCHANGED <<callVars, cars, commandVars, switchFlag>>

cb_btn_return0 ==
  Pressed("choose") /\ "btn_return0" \in active /\ CannelSelectCar(active)

cb_btn_return ==
  /\ Pressed("monitor") /\ "btn_return" \in active
  /\ CannelSelectCar(active \cup {"pcus"})

\* Back to the cars, from the choice or from the call boxes.
BackToCars ==
  /\ cb_btn_return0 \/ cb_btn_return
  /\ page' = "car" /\ Done
  /\ NoExchange /\ UNCHANGED <<callVars, commandVars, switchFlag>>

cb_btn_monitor ==
  /\ Pressed("choose") /\ "btn_monitor" \in active /\ "monitor" \in Pages
  /\ page' = "monitor" /\ Done
  /\ NoExchange /\ UNCHANGED <<callVars, active, cars, commandVars, switchFlag>>

\* The announcement button: on, or off with a delay before the command.
cb_btn_enter ==
  /\ Pressed("choose")
  /\ \/ /\ live_button_state = 0
        /\ active' = active \ {"btn_monitor", "btn_return0"}
        /\ ExchangeToLive("touch", "flag")
        /\ UNCHANGED cars
     \/ /\ live_button_state = 1
        /\ CannelSelectCar(active)
        /\ Call("touch", "exit_live", "left_live")
        /\ UNCHANGED commandVars
  /\ NoExchange /\ UNCHANGED <<callVars, page, switchFlag>>

ExitLive ==
  /\ pc.touch = "exit_live"
  /\ TouchScreenSetCmd("touch", "live_off", then.touch)
  /\ NoExchange /\ UNCHANGED <<callVars, screenVars, switchFlag>>

LeftLive ==
  /\ pc.touch \in {"left_live", "metal_left"}
  /\ page' = "car"
  /\ IF pc.touch = "left_live"
     THEN /\ active' = active \cup {"btn_return0"} \cup
                       (IF cars = 1 THEN {"btn_monitor"} ELSE {})
          /\ UNCHANGED switchFlag /\ Done
     ELSE switchFlag' = 0 /\ UNCHANGED active /\ Goto("touch", "wait")
  /\ NoExchange /\ UNCHANGED <<callVars, cars, commandVars>>

cb_pcu ==
  /\ Pressed("monitor") /\ "pcus" \in active
  /\ active' = (active \ {"pcus", "btn_return"}) \cup {"enter_monitor"}
  /\ Done
  /\ NoExchange /\ UNCHANGED <<callVars, page, cars, commandVars, switchFlag>>

cb_enter_monitor ==
  /\ Pressed("monitor") /\ "enter_monitor" \in active
  /\ StateMachineExchange("touch", "monitor_call", "monitoring")
  /\ UNCHANGED <<callVars, screenVars, commandVars, switchFlag>>

cb_cancle_monitor ==
  /\ Pressed("monitor")
  /\ active' = active \cup {"pcus"}
  /\ StateMachineExchange("touch", "monitor_exit", "unmonitored")
  /\ UNCHANGED <<callVars, page, cars, commandVars, switchFlag>>

\* SetD2dCmdPackage; the rows are active exactly when enter_d2d is not.
cb_btn_d2d ==
  /\ Pressed("d2d") /\ "enter_d2d" \notin active
  /\ active' = Disable_D2D_All_Btn /\ Done
  /\ NoExchange /\ UNCHANGED <<callVars, page, cars, commandVars, switchFlag>>

cb_enter_d2d ==
  /\ Pressed("d2d") /\ "enter_d2d" \in active
  /\ this_bcu_request = 0
  /\ StateMachineExchange("touch", "driver_call", "called")
  /\ UNCHANGED <<callVars, screenVars, commandVars, switchFlag>>

cb_canenl_d2d ==
  /\ Pressed("d2d") /\ "canenl_d2d" \in active
  /\ intercom = "d2d"
  /\ StateMachineExchange("touch", "driver_release", "cancelled")
  /\ UNCHANGED <<callVars, screenVars, commandVars, switchFlag>>

\* What a callback does to the buttons after its exchange.
AfterExchange ==
  /\ active' = CASE pc.touch = "monitoring" -> active \ {"enter_monitor", "btn_return"}
                 [] pc.touch = "unmonitored" -> active \cup {"btn_return"}
                 [] pc.touch = "called" -> (active \cup {"canenl_d2d"}) \ {"return_D2D"}
                 [] pc.touch = "cancelled" -> Enable_D2d_All_Btn \cup {"return_D2D"}
                 [] OTHER -> active
  /\ pc.touch \in {"monitoring", "unmonitored", "called", "cancelled"}
  /\ Done
  /\ NoExchange /\ UNCHANGED <<callVars, page, cars, commandVars, switchFlag>>

\* SetReceptPCUNo; the rows are active exactly while none is chosen.
cb_btn_d2p_request ==
  /\ Pressed("d2p") /\ "iph_rows" \in active
  /\ is_intercomming_with_pcu = 0
  /\ active' = Disable_D2p_All_Btn /\ Done
  /\ NoExchange /\ UNCHANGED <<callVars, page, cars, commandVars, switchFlag>>

cb_btn_intercomm_accept ==
  /\ Pressed("d2p") /\ "btn_intercomm_accept" \in active
  /\ RecvD2PRequest("touch", "accepted")
  /\ UNCHANGED <<callVars, screenVars, commandVars, switchFlag>>

cb_btn_intercomm_refuse ==
  /\ Pressed("d2p") /\ "btn_intercomm_refuse" \in active
  /\ Call("touch", "refuse", "refused")
  /\ NoExchange /\ UNCHANGED <<callVars, screenVars, commandVars, switchFlag>>

AfterCall ==
  /\ \/ /\ pc.touch = "accepted"
        /\ d2p_button_state' = 2
        /\ active' = active \cup {"btn_intercomm_refuse"}
     \/ /\ pc.touch = "refused"
        /\ active' = Enable_D2p_All_Btn /\ UNCHANGED d2p_button_state
  /\ Done
  /\ NoExchange /\ UNCHANGED <<is_intercomming_with_pcu, page, cars, commandVars,
                               switchFlag>>

NoCallback ==
  /\ pc.touch = "wait" /\ Done
  /\ NoExchange /\ UNCHANGED <<callVars, screenVars, commandVars, switchFlag>>

(***************************************************************************)
(* Handlers of switchFlag                                                   *)
(***************************************************************************)
NoAlarm ==
  /\ pc.touch = "flag" /\ switchFlag = 0
  /\ Goto("touch", "wait")
  /\ NoExchange /\ UNCHANGED <<callVars, screenVars, commandVars, switchFlag>>

\* The announcement key works on the page where announcing can be chosen.
GetOuterButtonState ==
  /\ pc.touch = "flag" /\ switchFlag = 16
  /\ \/ /\ page = "choose" /\ live_button_state = 0 /\ cars > 0
        /\ ExchangeToLive("touch", "handled") /\ UNCHANGED <<active, cars>>
     \/ /\ page = "choose" /\ live_button_state = 1
        /\ CannelSelectCar(active)
        /\ Call("touch", "exit_live", "metal_left") /\ UNCHANGED commandVars
     \/ /\ page # "choose" \/ (live_button_state = 0 /\ cars = 0)
        /\ Goto("touch", "handled") /\ UNCHANGED <<active, cars, commandVars>>
  /\ NoExchange /\ UNCHANGED <<callVars, page, switchFlag>>

\* The passenger key shows the calls, takes the chosen one, or ends it.
JudegD2PButton ==
  /\ pc.touch = "flag" /\ switchFlag = 17
  /\ \/ /\ d2p_button_state = 0 /\ page = "static" /\ "d2p" \in Pages
        /\ page' = "d2p" /\ d2p_button_state' = 1
        /\ NoExchange /\ Goto("touch", "handled")
     \/ /\ d2p_button_state = 1 /\ "iph_rows" \notin active
        /\ RecvD2PRequest("touch", "taken")
        /\ UNCHANGED <<page, d2p_button_state>>
     \/ /\ d2p_button_state = 2
        /\ NoExchange /\ Call("touch", "refuse", "refused_key")
        /\ UNCHANGED <<page, d2p_button_state>>
     \/ /\ d2p_button_state = 0 \/ (d2p_button_state = 1 /\ "iph_rows" \in active)
        /\ NoExchange /\ Goto("touch", "handled")
        /\ UNCHANGED <<page, d2p_button_state>>
  /\ UNCHANGED <<is_intercomming_with_pcu, active, cars, commandVars, switchFlag>>

Handled ==
  /\ \/ pc.touch = "handled" /\ UNCHANGED <<d2p_button_state, active>>
     \/ pc.touch = "taken" /\ d2p_button_state' = 2 /\ UNCHANGED active
     \/ /\ pc.touch = "refused_key"
        /\ active' = Enable_D2p_All_Btn /\ UNCHANGED d2p_button_state
  /\ switchFlag' = 0 /\ Goto("touch", "wait")
  /\ NoExchange /\ UNCHANGED <<is_intercomming_with_pcu, page, cars, commandVars>>

(***************************************************************************)
(* Sampling thread                                                          *)
(***************************************************************************)
\* Thirty seconds without push-to-talk end an announcement.
BcuMicSampleAndPlayEntry ==
  /\ pc.sample = "sample"
  /\ ann = "live" /\ current_state_ann = "live" /\ intercom # "d2p"
  /\ IF unused_for_long
     THEN TouchScreenSetCmd("sample", "live_off", "sampled")
     ELSE Goto("sample", "sampled") /\ UNCHANGED commandVars
  /\ NoExchange /\ UNCHANGED <<callVars, screenVars, switchFlag>>

PutMicSample ==
  /\ pc.sample = "sampled" /\ Goto("sample", "sample")
  /\ unused_for_long' \in {FALSE, unused_for_long}
  /\ UNCHANGED <<micVars, ann, current_state_ann, live_button_state, intercomVars,
                 callVars, screenVars, commandVars, switchFlag>>

(***************************************************************************)
ThreadSteps(t) == Enter(t) \/ EnterSent(t) \/ Retry(t) \/ Receive(t)
                  \/ RefuseD2PRequest(t)
ControlSteps ==
  \/ ThreadSteps("control")
  \/ ProbeMetalButtonToPerform \/ AlarmDone \/ JudgeWhetherD2DHaveFinished
  \/ JudegWhetherRequestD2D \/ AfterD2DKey \/ ProbeBigCommPackage
  \/ AfterPackage \/ ReadCommand \/ LiveSent
Callbacks ==
  \/ ShowPage \/ cb_return_D2D \/ cb_btn_intercomm \/ EnterSelectCar
  \/ cb_cancel_select \/ cb_next_page \/ BackToCars \/ cb_btn_monitor
  \/ cb_btn_enter \/ cb_pcu \/ cb_enter_monitor \/ cb_cancle_monitor
  \/ cb_btn_d2d \/ cb_enter_d2d \/ cb_canenl_d2d \/ cb_btn_d2p_request
  \/ cb_btn_intercomm_accept \/ cb_btn_intercomm_refuse \/ NoCallback
TouchSteps ==
  \/ ThreadSteps("touch") \/ Callbacks
  \/ ExitLive \/ LeftLive \/ AfterExchange \/ AfterCall
  \/ NoAlarm \/ GetOuterButtonState \/ JudegD2PButton \/ Handled
SampleSteps == Retry("sample") \/ BcuMicSampleAndPlayEntry \/ PutMicSample

Next == ControlSteps \/ TouchSteps \/ SampleSteps \/ EnableLiveMonitorTimer

Spec == Init /\ [][Next]_vars

\* No thread starves, and Fl::wait returns again and again.
FairSpec == /\ Spec /\ WF_vars(ControlSteps) /\ WF_vars(TouchSteps)
            /\ WF_vars(SampleSteps)

(***************************************************************************)
(* Properties                                                               *)
(***************************************************************************)
\* Every variable has its type (state_machine.h 87-180).
TypeOK ==
  /\ intercom \in {"idle", "d2d", "d2p", "monitor"}
  /\ ann \in {"idle", "live"} /\ current_state_ann \in {"idle", "live"}
  /\ mic_owner \in {"NONE", "INTERCOM", "ANNOUNCE"}
  /\ destination \in {"none", "OCS"}
  /\ live_button_state \in {0, 1} /\ d2d_button_state \in {0, 1}
  /\ this_bcu_request \in {0, 1} /\ begin_to_broadcast_audio_data \in {0, 1}
  /\ unused_for_long \in BOOLEAN
  /\ is_intercomming_with_pcu \in {0, 1} /\ d2p_button_state \in 0 .. 2
  /\ page \in {"static"} \cup Pages \cup {"car"}
  /\ active \subseteq Buttons /\ cars \in 0 .. 2
  /\ screen_cmds \in Seq(Commands) /\ Len(screen_cmds) <= Capacity
  /\ send_ts_cmd_to_control \in Commands
  /\ switchFlag \in {0, 16, 17}
  /\ DOMAIN pc = Threads /\ DOMAIN then = Threads

\* A thread between the exit of one state and the end of the next one's enter.
Entering == {t \in Threads : pc[t] \in {"enter", "sent"}}

\* The microphone belongs to a session that is going on, and samples go to
\* the control centre only during an announcement (StateMachineExchange,
\* bcu_function 644-668, and the enter and exit functions): whoever enters
\* after the delay enters what the other threads have left there.
MicHeldInSession ==
  /\ mic_owner = "INTERCOM" => intercom \in {"d2d", "d2p"}
  /\ mic_owner = "ANNOUNCE" => ann = "live"
  /\ destination = "OCS" => mic_owner = "ANNOUNCE" \/ intercom \in {"d2d", "d2p"}

\* Flags of a session are off outside it, and on in it unless some thread
\* has yet to enter: no thread that slept through an exit sets one afterwards.
FlagsTellSessions ==
  /\ d2d_button_state = 1 => intercom = "d2d"
  /\ begin_to_broadcast_audio_data = 1 => intercom \in {"d2p", "monitor"}
  /\ Entering = {} =>
       /\ intercom = "d2d" => d2d_button_state = 1
       /\ intercom \in {"d2p", "monitor"} => begin_to_broadcast_audio_data = 1
  /\ live_button_state = 1 <=> ann = "live"

\* The metal key's own request is forgotten when its session ends: otherwise
\* enter_d2d would be dead from then on (JudegWhetherRequestD2D, D2DIntercomExit).
RequestEndsWithSession ==
  this_bcu_request = 1 \/ d2d_button_state = 1 => intercom = "d2d"

\* A command to end the announcement, once in the buffer, ends it whatever
\* was queued before it (ANNStateHangle, WhetherWantToExchangeState).
LiveOffObeyed ==
  (\E i \in 1 .. Len(screen_cmds) : screen_cmds[i] = "live_off") ~> ann = "idle"

\* The same for the end of a passenger call (IntercomStateHangle).
CallOffObeyed ==
  (\E i \in 1 .. Len(screen_cmds) : screen_cmds[i] = "d2p_off") ~> intercom # "d2p"

\* The control thread comes back to its commands again and again: neither the
\* handshake with the touch screen nor a full command buffer stops it.
ControlGoesOn == []<>(pc.control = "command")
===============================================================================
