------------------------------ MODULE StartUp ------------------------------
(***************************************************************************)
(* The start of the program.  main prepares what the threads share and      *)
(* creates them one after the other; each then prepares what it needs       *)
(* itself and goes into its loop.  Nothing makes a thread wait for what     *)
(* another one prepares, so that everything must be there in time by the    *)
(* order of the steps alone.                                                *)
(*                                                                          *)
(* A step is named after its function; it uses some things and sets others. *)
(* A creation of a thread that fails is not modelled: its result is only    *)
(* printed.  What InitBuffer does when memory is short is in Registry.      *)
(***************************************************************************)
EXTENDS Integers, Sequences

Threads == {"main", "demao", "screen", "network", "control", "sampler"}

Step(name, uses, sets) == [name |-> name, uses |-> uses, sets |-> sets]

\* The seats, and the table of devices by type and number.
ReadType == 3
ReadNum == 1..5

Device(type, number) == [type |-> type, number |-> number]
device_info ==
  <<Device(3, 1), Device(3, 2), Device(3, 3), Device(3, 4), Device(3, 5),
    Device(8, 230), Device(3, 230), Device(7, 230), Device(7, 231)>>
ZhwReadFromTestDB == DOMAIN device_info

(***************************************************************************)
(* The steps of main                                                        *)
(***************************************************************************)
Init_ocs_select_car_struct == Step("Init_ocs_select_car_struct", {}, {"selection"})

\* The rows of the table become a list behind an empty node.
InitGlobalArray == Step("InitGlobalArray", {}, {"registry_lock", "table"})

InitBcuAndState == Step("InitBcuAndState", {}, {"page_flags"})

InitGlobalInfo == {"device_states"}
InitAllDeviceInfo == Step("InitAllDeviceInfo", {"mutexes"}, InitGlobalInfo)

UpdateCurrentDeviceInformation ==
  Step("UpdateCurrentDeviceInformation", {}, {"own_number"})

creat_linked_list == Step("creat_linked_list", {}, {"request_lists"})
InitMutex == Step("InitMutex", {}, {"mutexes"})

\* The names by which the threads open what InitBuffer creates.
CharBuffers ==
  {"bcu-network-audio-tx", "bcu-network-audio-pendig", "bcu-network-audio-rx",
   "bcu-local-audio-rx", "bcu-alarm-audio-data"}
BlockBuffers ==
  {"bcu-control-recv-ts-info", "bcu-network-cmd-rx", "bcu-network-cmd-tx",
   "bcu-screen-cmd-tx", "bcu-ptt-state-rx", "network-udp-common-send",
   "network-udp-dev_vol-recv", "network-udp-common-recv", "network-udp-heart-recv",
   "network-udp-heart-send", "bcu-recv-all-dev-state",
   "network-udp-common-big-recv-version-check", "network-udp-shell-recv",
   "network-udp-shell-send", "network-udp-server-send", "network-udp-server-recv"}
InitBuffer == Step("InitBuffer", {}, CharBuffers \cup BlockBuffers)

\* A search finds the buffers of its own list only.
CharBufferOpen(names) ==
  {IF n \in BlockBuffers THEN "another_list" ELSE n : n \in names}
BlockBufferOpen(names) ==
  {IF n \in CharBuffers THEN "another_list" ELSE n : n \in names}

InitSemaphore == Step("InitSemaphore", {}, {"semaphores"})
InitAudioDataDestination ==
  Step("InitAudioDataDestination", {"mutexes"}, {"destination"})

LookupSndCard == Step("LookupSndCard", {}, {"card_handle"})
OpenSndCard == Step("OpenSndCard", {"card_handle"}, {"open_card"})
AdjustBCUSNDVolume == {"card_handle", "open_card"}
AdjustVolumeAfterCODEC == Step("AdjustVolumeAfterCODEC", AdjustBCUSNDVolume, {})

SetPTTStateInfoPackage == Step("SetPTTStateInfoPackage", {"own_number"}, {"PTT_packages"})
BlankAudio == Step("main", {}, {"blank_audio"})
ThreadAttributionConfigure == Step("ThreadAttributionConfigure", {}, {"attributes"})
pthread_create(t) == Step("pthread_create", {"attributes"}, {t})

Prepare ==
  <<Init_ocs_select_car_struct, InitGlobalArray, InitBcuAndState,
    InitAllDeviceInfo, UpdateCurrentDeviceInformation, creat_linked_list, InitMutex>>
Open ==
  <<InitBuffer, InitSemaphore, InitAudioDataDestination, LookupSndCard, OpenSndCard,
    AdjustVolumeAfterCODEC, InitAllDeviceInfo, SetPTTStateInfoPackage, BlankAudio>>
Create ==
  <<ThreadAttributionConfigure, pthread_create("demao"), pthread_create("screen"),
    pthread_create("network"), pthread_create("control"), pthread_create("sampler")>>

(***************************************************************************)
(* The steps of the threads, up to their loops                              *)
(***************************************************************************)
DemaoEntry == <<>>

\* The pages of the touch screen in the order in which they are built.
Page(name) == Step("touch_screen_main", {}, {name})
gp_main_file == Page("gp_main_file")
gp_intercomm == Page("gp_intercomm")
gp_static_show == Page("gp_static_show")
gp_input_password == Page("gp_input_password")
gp_setting == Page("gp_setting")
gp_setting_items == Page("gp_setting_items")
AnnOrMonitorSelect == Page("AnnOrMonitorSelect")
D2D_intercom_page == Page("D2D_intercom_page")
main_group == Page("main_group")

BcuSimulateStateInit == {"priorities"}
TouchScreenInit == {"volumes"}
SystemInitBeforeRun ==
  Step("SystemInitBeforeRun", {"gp_setting", "gp_main_file", "gp_intercomm", "main_group"},
       BcuSimulateStateInit \cup TouchScreenInit)

TouchScreenEntry ==
  <<Step("TouchScreenEntry",
         BlockBufferOpen({"bcu-screen-cmd-tx", "bcu-control-recv-ts-info"}), {"touch_ids"}),
    gp_main_file, gp_intercomm, gp_static_show, gp_input_password, gp_setting,
    gp_setting_items, AnnOrMonitorSelect, D2D_intercom_page, main_group,
    SystemInitBeforeRun>>

CacheCreate == Step("CacheCreate", {}, {"cache"})

\* The walk begins at the empty node and ends after as many nodes as there are
\* rows, so the last row is never compared.  Nothing sets what is returned
\* when no row matches.
ResolveUseType(type, number) ==
  {i \in ZhwReadFromTestDB :
     /\ device_info[i] = Device(type, number)
     /\ i \in 1..(Len(device_info) - 1)}
ReadGlobalArray(type, number) ==
  IF ResolveUseType(type, number) = {} THEN {"a_row"} ELSE {}
ReadFromIO == {Device(ReadType, n) : n \in ReadNum}
zhw_server_dev_info ==
  Step("zhw_server_dev_info",
       {"table"} \cup UNION {ReadGlobalArray(d.type, d.number) : d \in ReadFromIO},
       {"address"})
ZhwSetMacToSys == Step("ZhwSetMacToSys", {"address"}, {"hardware_address"})
ZhwSetIpToSys == Step("ZhwSetIpToSys", {"hardware_address", "address"}, {"interface"})
ZhwSetAddToSys == <<ZhwSetMacToSys, ZhwSetIpToSys>>
IpAndPortInit == {"address"}
SockfdServerInit == Step("SockfdServerInit", IpAndPortInit \cup {"interface"}, {"sockets"})
ZhwSetMulitIp == Step("ZhwSetMulitIp", {"sockets"}, {"groups"})

NetworkBuffers ==
  CharBufferOpen({"bcu-network-audio-tx", "bcu-network-audio-rx"}) \cup
  BlockBufferOpen(
    {"bcu-network-cmd-tx", "bcu-network-cmd-rx", "network-udp-common-send",
     "network-udp-common-recv", "network-udp-heart-recv", "network-udp-heart-send",
     "network-udp-shell-recv", "network-udp-shell-send", "network-udp-server-recv",
     "network-udp-server-send"})

NetworkHandleEntry ==
  <<Step("NetworkHandleEntry", NetworkBuffers, {"network_ids"}), CacheCreate,
    zhw_server_dev_info>> \o ZhwSetAddToSys \o <<SockfdServerInit, ZhwSetMulitIp>>

\* BCURuleInit empties the table, BCUAddRule takes the first empty place of it.
BCURuleInit == {"empty_rules"}
BCUAddRule == {"rules"}
BCURuleTableInit == Step("BCURuleTableInit", {}, BCURuleInit \cup BCUAddRule)
BCUControlMainBufferInit ==
  Step("BCUControlMainBufferInit",
       CharBufferOpen(CharBuffers \cup {"bcu-local-audio-data"}) \cup
       BlockBufferOpen(BlockBuffers \ {"network-udp-heart-recv", "network-udp-heart-send"}),
       {"control_ids"})
RegisterCommonBufferRecvBuffer ==
  Step("RegisterCommonBufferRecvBuffer", {"control_ids", "registry_lock"}, {"registered"})
CreateD2DHangUpD2PTimeOutTimer ==
  Step("CreateD2DHangUpD2PTimeOutTimer", {}, {"hang-up_timer"})
CreateAudioSampleTimer == Step("CreateAudioSampleTimer", {}, {"sample_timer"})
CreateLiveMonitorTimer == Step("CreateLiveMonitorTimer", {}, {"live_timer"})
BCUStateInit == Step("BCUStateInit", {}, {"active_states"})
ControlCommomPackageInit ==
  Step("ControlCommomPackageInit", {"own_number"}, {"volume_packages"})

SystemControl ==
  <<BCURuleTableInit, BCUControlMainBufferInit, RegisterCommonBufferRecvBuffer,
    CreateD2DHangUpD2PTimeOutTimer, CreateAudioSampleTimer, CreateLiveMonitorTimer,
    BCUStateInit, ControlCommomPackageInit>>

CreateSndEnableTimer == Step("CreateSndEnableTimer", {}, {"enable_timer"})
BcuMicSampleAndPlayEntry == <<CreateSndEnableTimer>>

\* mutant: the threads are created before the buffers are there
CreateFirst == Prepare \o Create \o Open

MainSteps == Prepare \o Open \o Create

Program ==
  [t \in Threads |->
     CASE t = "main" -> MainSteps [] t = "demao" -> DemaoEntry
       [] t = "screen" -> TouchScreenEntry [] t = "network" -> NetworkHandleEntry
       [] t = "control" -> SystemControl [] t = "sampler" -> BcuMicSampleAndPlayEntry]

VARIABLES next,    \* the next step of each thread
          set,     \* what has been set, and the threads that have been created
          early,   \* history: steps that used what was not set
          timer,   \* does the sample timer run?
          showing, \* does the control thread wait for the touch thread?
          ended    \* has the program ended?

vars == <<next, set, early, timer, showing, ended>>

Init ==
  /\ next = [t \in Threads |-> 1] /\ set = {"main"} /\ early = {}
  /\ timer = FALSE /\ showing = FALSE /\ ended = FALSE

(***************************************************************************)
(* What is known to come early: the first lock of the device states, when   *)
(* main is alone, a press before the control thread is in its loop, and a   *)
(* buffer that nothing creates and nothing but its opening uses.            *)
(***************************************************************************)
Known ==
  {<<"InitAllDeviceInfo", "mutexes">>,
   <<"BCUControlMainBufferInit", "bcu-local-audio-data">>} \cup
  {<<"Press", x>> : x \in {"rules", "control_ids", "sample_timer", "active_states", "cache"}}

\* Without a card the program goes on and every call of the card fails.
Uses(step) ==
  early' = early \cup
    ({<<step.name, x>> : x \in step.uses \ set}
       \ (Known \cup (IF "no_card" \in set
                      THEN {step.name} \X {"card_handle", "open_card"} ELSE {})))

InLoop(t) == t \in set /\ next[t] > Len(Program[t])

(***************************************************************************)
(* A step; some of them may fail                                            *)
(***************************************************************************)
Do(t) ==
  /\ t \in set /\ next[t] \in DOMAIN Program[t]
  /\ LET step == Program[t][next[t]] IN
       /\ Uses(step)
       /\ \/ set' = set \cup step.sets
          \/ step.name = "LookupSndCard" /\ set' = set \cup {"no_card"}
          \/ step.name = "OpenSndCard" /\ set' = set \cup {"no_card"}
          \/ step.name = "ZhwSetMulitIp" /\ UNCHANGED set
  /\ next' = [next EXCEPT ![t] = @ + 1]
  /\ UNCHANGED <<timer, showing, ended>>

\* main leaves after InitBuffer; the others end the program.
MayEnd == {"InitBuffer", "ThreadAttributionConfigure", "ZhwSetMacToSys",
           "ZhwSetIpToSys", "SockfdServerInit"}
End(t) ==
  /\ t \in set /\ next[t] \in DOMAIN Program[t]
  /\ Program[t][next[t]].name \in MayEnd
  /\ ended' = TRUE
  /\ UNCHANGED <<next, set, early, timer, showing>>

(***************************************************************************)
(* Turns of the loops                                                       *)
(***************************************************************************)
Turn(t, uses) ==
  /\ InLoop(t) /\ Uses(Step(t, uses, {}))
  /\ UNCHANGED <<next, set, ended>>

\* The sampling thread's own timer wakes the other one.
DemaoTurn ==
  /\ timer /\ InLoop("sampler") /\ Turn("demao", {"semaphores", "sampler"})
  /\ UNCHANGED <<timer, showing>>

NetworkTurn ==
  /\ Turn("network", {"sockets", "network_ids", "cache", "network"})
  /\ UNCHANGED <<timer, showing>>

\* Nothing has arrived.
ControlTurn ==
  /\ ~showing
  /\ Turn("control", {"active_states", "control_ids", "rules", "hang-up_timer"})
  /\ UNCHANGED <<timer, showing>>

\* A call comes in; the touch thread has to show it first.
Package ==
  /\ InLoop("network") /\ ~showing
  /\ Turn("control", {"request_lists", "selection", "own_number", "active_states",
                      "control_ids", "sample_timer", "card_handle"})
  /\ showing' = TRUE /\ timer' \in {timer, TRUE}

AlarmTSToChangeScreen == InLoop("screen")

\* The button of waiting drivers is then coloured by the control thread.
AutoChangeIntercommButtonEnableStateAndColor ==
  /\ showing /\ AlarmTSToChangeScreen
  /\ Turn("control", {"main_group"})
  /\ showing' = FALSE /\ UNCHANGED timer

EnterSession == {"rules", "active_states", "control_ids", "sample_timer", "cache",
                 "mutexes", "card_handle", "open_card", "own_number"}

\* A command of the network begins a session, or ends it.
Command ==
  /\ InLoop("network") /\ ~showing
  /\ Turn("control", EnterSession \cup {"network", "control", "screen", "live_timer"})
  /\ timer' \in BOOLEAN /\ UNCHANGED showing

\* A session begins by a rule from the state that is active.
SessionsBegin == {"rules", "active_states", "sample_timer"} \subseteq set

\* The driver presses a button; the touch thread may change the state itself.
Press ==
  /\ InLoop("screen")
  /\ Uses(Step("Press", EnterSession \cup {"touch_ids", "volumes", "priorities",
                                           "page_flags", "request_lists"}, {}))
  /\ timer' \in IF SessionsBegin THEN BOOLEAN ELSE {timer}
  /\ UNCHANGED <<next, set, showing, ended>>

SamplerTurn ==
  /\ timer
  /\ Turn("sampler", {"semaphores", "enable_timer", "active_states", "control_ids",
                      "card_handle", "open_card", "blank_audio", "PTT_packages",
                      "network", "destination"})
  /\ UNCHANGED <<timer, showing>>

Next ==
  \/ /\ ~ended
     /\ \/ \E t \in Threads : Do(t) \/ End(t)
        \/ DemaoTurn \/ NetworkTurn \/ SamplerTurn
        \/ ControlTurn \/ Package \/ AutoChangeIntercommButtonEnableStateAndColor
        \/ Command \/ Press
  \/ ended /\ UNCHANGED vars

Spec == Init /\ [][Next]_vars

(***************************************************************************)
(* Properties                                                               *)
(***************************************************************************)
TypeOK ==
  /\ next \in [Threads -> 1..(Len(MainSteps) + 1)]
  /\ timer \in BOOLEAN /\ showing \in BOOLEAN /\ ended \in BOOLEAN

\* However the threads run, and whatever comes from the network or a finger,
\* nothing is used before it is set, but for what is known.
NothingIsEarly == early = {}
=============================================================================
