--------------------------- MODULE BcuControl_proofs ---------------------------
(***************************************************************************)
(* Proofs about the sessions of a seat, for every set of pages, keys and    *)
(* packages and every capacity of the command buffer.                       *)
(***************************************************************************)
EXTENDS BcuControl, SequenceTheorems, TLAPS

-----------------------------------------------------------------------------
(* The metal key's request *)

(* Only exchanges, enters and the metal key touch the intercom state. *)
LEMMA ExchangeKeepsRequest ==
    ASSUME RequestEndsWithSession, NEW t, NEW event, NEW next,
           StateMachineExchange(t, event, next)
    PROVE  RequestEndsWithSession'
<1>1. CASE Exit
  BY <1>1 DEF Exit, RequestEndsWithSession
<1>2. CASE NoExchange
  BY <1>2 DEF NoExchange, sessionVars, intercomVars, RequestEndsWithSession
<1> QED
  BY <1>1, <1>2 DEF StateMachineExchange

(* So nothing else endangers the property. *)
LEMMA QuietKeepsRequest ==
    ASSUME RequestEndsWithSession, UNCHANGED intercomVars
    PROVE  RequestEndsWithSession'
  BY DEF intercomVars, RequestEndsWithSession

(* The callbacks and handlers that exchange no intercom state. *)
QuietCallbacks ==
    \/ ShowPage \/ cb_return_D2D \/ cb_btn_intercomm \/ EnterSelectCar
    \/ cb_cancel_select \/ cb_next_page \/ BackToCars \/ cb_btn_monitor
    \/ cb_btn_enter \/ cb_pcu \/ cb_btn_d2d \/ cb_btn_d2p_request
    \/ cb_btn_intercomm_refuse \/ NoCallback
QuietTouchSteps ==
    \/ ExitLive \/ LeftLive \/ AfterExchange \/ AfterCall
    \/ NoAlarm \/ GetOuterButtonState \/ Handled
QuietControlSteps ==
    \/ ProbeMetalButtonToPerform \/ AlarmDone \/ AfterD2DKey \/ AfterPackage
    \/ /\ Control("package", "command") /\ NoExchange
       /\ UNCHANGED <<callVars, screenVars, commandVars, switchFlag>>
QuietThreadSteps(t) == Retry(t) \/ Receive(t) \/ RefuseD2PRequest(t)
QuietStep(t) ==
    \/ QuietCallbacks \/ QuietTouchSteps \/ QuietControlSteps
    \/ QuietThreadSteps(t) \/ BcuMicSampleAndPlayEntry

LEMMA QuietSteps ==
    ASSUME NEW t, QuietStep(t)
    PROVE  NoExchange
<1>1. CASE QuietCallbacks
  BY <1>1 DEF QuietCallbacks, ShowPage, cb_return_D2D, cb_btn_intercomm,
     EnterSelectCar, cb_cancel_select, cb_next_page, BackToCars, cb_btn_monitor,
     cb_btn_enter, cb_pcu, cb_btn_d2d, cb_btn_d2p_request,
     cb_btn_intercomm_refuse, NoCallback
<1>2. CASE QuietTouchSteps
  BY <1>2 DEF QuietTouchSteps, ExitLive, LeftLive, AfterExchange, AfterCall,
     NoAlarm, GetOuterButtonState, Handled
<1>3. CASE QuietControlSteps
  BY <1>3 DEF QuietControlSteps, ProbeMetalButtonToPerform, AlarmDone,
     AfterD2DKey, AfterPackage
<1>4. CASE QuietThreadSteps(t)
  BY <1>4 DEF QuietThreadSteps, Retry, Receive, RefuseD2PRequest
<1>5. CASE BcuMicSampleAndPlayEntry
  BY <1>5 DEF BcuMicSampleAndPlayEntry
<1> QED
  BY <1>1, <1>2, <1>3, <1>4, <1>5 DEF QuietStep

(* A step that ends, begins or times an announcement keeps the intercom. *)
AnnounceSteps ==
    \/ pc.control = "package" /\ (ProbeAnnouncePackage \/ ProbeIntercomPackage)
    \/ LiveSent
    \/ cb_btn_intercomm_accept \/ JudegD2PButton
    \/ PutMicSample \/ EnableLiveMonitorTimer

LEMMA AnnounceKeepsIntercom ==
    ASSUME AnnounceSteps
    PROVE  UNCHANGED intercomVars
<1>1. ASSUME NEW t, NEW next, RecvD2PRequest(t, next)
      PROVE  UNCHANGED intercomVars
  BY <1>1 DEF RecvD2PRequest, NoExchange, sessionVars
<1>2. NoExchange => UNCHANGED intercomVars
  BY DEF NoExchange, sessionVars
<1> QED
  BY <1>1, <1>2 DEF AnnounceSteps, ProbeAnnouncePackage, ProbeIntercomPackage,
     LiveSent, cb_btn_intercomm_accept, JudegD2PButton, PutMicSample,
     EnableLiveMonitorTimer

(* Next, its steps sorted by what they do to the sessions. *)
ExchangeSteps ==
    \/ JudgeWhetherD2DHaveFinished
    \/ pc.control = "package" /\ ProbeMonitorPackage
    \/ cb_enter_monitor \/ cb_cancle_monitor \/ cb_enter_d2d \/ cb_canenl_d2d

LEMMA NextSorted ==
    ASSUME Next
    PROVE  \/ \E t \in Threads : Enter(t) \/ EnterSent(t) \/ QuietStep(t)
           \/ AnnounceSteps \/ ExchangeSteps
           \/ JudegWhetherRequestD2D \/ ReadCommand
<1> USE DEF QuietStep, Threads
<1>1. ASSUME NEW t \in Threads, ThreadSteps(t)
      PROVE  Enter(t) \/ EnterSent(t) \/ QuietStep(t)
  BY <1>1 DEF ThreadSteps, QuietThreadSteps
<1>2. CASE ControlSteps
  <2>1. ProbeBigCommPackage => QuietControlSteps \/ AnnounceSteps \/ ExchangeSteps
    BY DEF ProbeBigCommPackage, AnnounceSteps, ExchangeSteps, QuietControlSteps
  <2> QED
    BY <1>1, <1>2, <2>1
       DEF ControlSteps, QuietControlSteps, AnnounceSteps, ExchangeSteps
<1>3. CASE Callbacks
  BY <1>3 DEF Callbacks, QuietCallbacks, AnnounceSteps, ExchangeSteps
<1>4. CASE TouchSteps /\ ~Callbacks
  BY <1>1, <1>4 DEF TouchSteps, QuietTouchSteps, AnnounceSteps
<1>5. CASE SampleSteps
  BY <1>5 DEF SampleSteps, QuietThreadSteps, AnnounceSteps
<1>6. CASE EnableLiveMonitorTimer
  BY <1>6 DEF AnnounceSteps
<1> QED
  BY <1>2, <1>3, <1>4, <1>5, <1>6 DEF Next

(* The metal key's request is forgotten with its session, whatever the      *)
(* threads were doing when it ended: D2DIntercomExit clears it before the   *)
(* state changes, and a late enter acts only for the state it finds.        *)
THEOREM RequestEnds == Spec => []RequestEndsWithSession
<1>1. Init => RequestEndsWithSession
  BY DEF Init, RequestEndsWithSession
<1>2. ASSUME RequestEndsWithSession, [Next]_vars
      PROVE  RequestEndsWithSession'
  <2>1. NoExchange => UNCHANGED intercomVars
    BY DEF NoExchange, sessionVars
  <2>2. ASSUME NEW t, Enter(t)
        PROVE  RequestEndsWithSession'
    BY <1>2, <2>2 DEF Enter, EnteredState, RequestEndsWithSession
  <2>3. ASSUME NEW t, EnterSent(t)
        PROVE  RequestEndsWithSession'
    BY <1>2, <2>3 DEF EnterSent, RequestEndsWithSession
  <2>4. CASE ExchangeSteps
    BY <1>2, <2>4, ExchangeKeepsRequest
       DEF ExchangeSteps, JudgeWhetherD2DHaveFinished, ProbeMonitorPackage,
           cb_enter_monitor, cb_cancle_monitor, cb_enter_d2d, cb_canenl_d2d
  <2>5. CASE JudegWhetherRequestD2D
    BY <2>5 DEF JudegWhetherRequestD2D, RequestEndsWithSession
  <2>6. CASE ReadCommand
    <3>1. ASSUME NEW command, ANNStateHangle(command)
          PROVE  UNCHANGED intercomVars
      BY <2>1, <3>1 DEF ANNStateHangle, BcuDynamicStateExchange
    <3>2. ASSUME IntercomStateHangle(Head(screen_cmds))
          PROVE  RequestEndsWithSession'
      BY <1>2, <2>1, <3>2, ExchangeKeepsRequest, QuietKeepsRequest
         DEF IntercomStateHangle
    <3> QED
      BY <1>2, <2>1, <2>6, <3>1, <3>2, QuietKeepsRequest DEF ReadCommand
  <2>7. CASE UNCHANGED vars
    BY <2>7, <2>1, <1>2, QuietKeepsRequest DEF vars, sessionVars
  <2> QED
    BY <1>2, <2>1, <2>2, <2>3, <2>4, <2>5, <2>6, <2>7, NextSorted,
       QuietSteps, AnnounceKeepsIntercom, QuietKeepsRequest
<1> QED
  BY <1>1, <1>2, PTL DEF Spec

-----------------------------------------------------------------------------
(* The threads, while no SendCmd waits *)

Waits == {"sent", "live_sent"}

ThreadsRun ==
    /\ DOMAIN pc = Threads /\ DOMAIN then = Threads
    /\ \A t \in Threads : pc[t] \notin Waits /\ then[t] \notin Waits

(* Thread t, not one that has yet to enter, goes on elsewhere. *)
Moves(t) ==
    /\ t \in Threads /\ pc[t] # "enter"
    /\ ThreadsRun'
    /\ \A u \in Threads \ {t} : pc'[u] = pc[u]

LEMMA CallMoves ==
    ASSUME ThreadsRun, NEW t \in Threads, pc[t] # "enter",
           NEW s, s \notin Waits, NEW next, next \notin Waits
    PROVE  /\ Call(t, s, next) => Moves(t)
           /\ Goto(t, s) => Moves(t)
           /\ Return(t) => Moves(t)
  BY DEF ThreadsRun, Moves, Call, Goto, Return, Waits

LEMMA CommandMoves ==
    ASSUME ThreadsRun, NEW t \in Threads, pc[t] # "enter", NEW command,
           NEW next, next \notin Waits
    PROVE  /\ TouchScreenSetCmd(t, command, next) => Moves(t)
           /\ ExchangeToLive(t, next) => Moves(t)
           /\ RecvD2PRequest(t, next) => Moves(t)
<1>1. "retry" \notin Waits /\ "none" \notin Waits /\ "receive" \notin Waits
  BY DEF Waits
<1>2. TouchScreenSetCmd(t, command, next) => Moves(t)
  BY <1>1, CallMoves DEF TouchScreenSetCmd
<1>3. TouchScreenSetCmd(t, "live_on", next) => Moves(t)
  BY <1>1, CallMoves DEF TouchScreenSetCmd
<1> QED
  BY <1>1, <1>2, <1>3, CallMoves DEF ExchangeToLive, RecvD2PRequest

LEMMA ExchangeMoves ==
    ASSUME ThreadsRun, NEW t \in Threads, pc[t] # "enter", NEW event,
           NEW next, next \notin Waits, StateMachineExchange(t, event, next)
    PROVE  Moves(t) /\ (NoExchange \/ pc'[t] = "enter")
<1>1. "enter" \notin Waits
  BY DEF Waits
<1>2. Moves(t)
  BY <1>1, CallMoves DEF StateMachineExchange
<1>3. Call(t, "enter", next) => pc'[t] = "enter"
  BY DEF Call, ThreadsRun
<1> QED
  BY <1>2, <1>3 DEF StateMachineExchange

LEMMA QuietMoves ==
    ASSUME ThreadsRun, NEW t \in Threads, QuietStep(t)
    PROVE  \E u \in Threads : Moves(u)
<1> USE DEF Waits, Threads
<1>1. CASE QuietCallbacks
  BY <1>1, CallMoves, CommandMoves
     DEF Pressed, Done, QuietCallbacks, ShowPage, cb_return_D2D, cb_btn_intercomm,
     EnterSelectCar, cb_cancel_select, cb_next_page, BackToCars, cb_btn_return0,
     cb_btn_return, cb_btn_monitor, cb_btn_enter, cb_pcu, cb_btn_d2d,
     cb_btn_d2p_request, cb_btn_intercomm_refuse, NoCallback
<1>2. CASE QuietTouchSteps
  BY <1>2, CallMoves, CommandMoves
     DEF Done, QuietTouchSteps, ExitLive, LeftLive, AfterExchange, AfterCall,
     NoAlarm, GetOuterButtonState, Handled, ThreadsRun
<1>3. CASE QuietControlSteps
  BY <1>3, CallMoves DEF Control, AlarmTSToChangeScreen, QuietControlSteps,
     ProbeMetalButtonToPerform, AlarmDone, AfterD2DKey, AfterPackage
<1>4. CASE QuietThreadSteps(t)
  BY <1>4, CallMoves, CommandMoves
     DEF QuietThreadSteps, Retry, Receive, RefuseD2PRequest, ThreadsRun
<1>5. CASE BcuMicSampleAndPlayEntry
  BY <1>5, CallMoves, CommandMoves DEF BcuMicSampleAndPlayEntry
<1> QED
  BY <1>1, <1>2, <1>3, <1>4, <1>5 DEF QuietStep

-----------------------------------------------------------------------------
(* Microphone and flags, while no SendCmd waits *)

SessionInv == ThreadsRun /\ MicHeldInSession /\ FlagsTellSessions

(* A move of a thread that leaves the sessions alone. *)
LEMMA QuietKeepsSessions ==
    ASSUME SessionInv, NEW t, Moves(t), NoExchange
    PROVE  SessionInv'
<1>1. ThreadsRun'
  BY DEF Moves
<1>2. MicHeldInSession'
  BY DEF SessionInv, MicHeldInSession, NoExchange, sessionVars, micVars, annVars,
     intercomVars
<1>3. Entering' = {} => Entering = {}
  BY DEF Entering, Moves, SessionInv, ThreadsRun, Waits
<1>4. FlagsTellSessions'
  BY <1>3 DEF SessionInv, FlagsTellSessions, NoExchange, sessionVars, micVars,
     annVars, intercomVars
<1> QED
  BY <1>1, <1>2, <1>4 DEF SessionInv

(* Whoever changes the intercom state leaves a thread that has to enter.    *)
LEMMA ExchangeKeepsSessions ==
    ASSUME SessionInv, NEW t \in Threads, pc[t] # "enter", NEW event,
           NEW next, next \notin Waits, StateMachineExchange(t, event, next)
    PROVE  SessionInv'
<1>1. Moves(t) /\ (NoExchange \/ pc'[t] = "enter")
  BY ExchangeMoves DEF SessionInv
<1>2. CASE NoExchange
  BY <1>1, <1>2, QuietKeepsSessions
<1>3. CASE ~NoExchange
  <2>1. Exit /\ UNCHANGED annVars
    BY <1>3 DEF StateMachineExchange
  <2>2. MicHeldInSession'
    BY <2>1 DEF SessionInv, MicHeldInSession, Exit, GiveMic, micVars, annVars
  <2>3. Entering' # {}
    BY <1>1, <1>3 DEF Entering
  <2>4. FlagsTellSessions'
    BY <2>1, <2>3 DEF SessionInv, FlagsTellSessions, Exit, annVars
  <2> QED
    BY <1>1, <2>2, <2>4 DEF SessionInv, Moves
<1> QED
  BY <1>2, <1>3

(* A thread enters the state it finds, whoever left it there. *)
LEMMA EnterKeepsSessions ==
    ASSUME SessionInv, ~CommandsMayWait, NEW t \in Threads, Enter(t)
    PROVE  SessionInv'
<1>1. ThreadsRun'
  BY DEF SessionInv, ThreadsRun, Enter, Return, Call, Waits
<1>2. MicHeldInSession'
  BY DEF SessionInv, MicHeldInSession, Enter, EnteredState, annVars
<1>3. FlagsTellSessions'
  BY DEF SessionInv, FlagsTellSessions, Enter, EnteredState, annVars
<1> QED
  BY <1>1, <1>2, <1>3 DEF SessionInv

(* A move that begins or ends an announcement, or measures its silence. *)
LEMMA AnnounceKeepsSessions ==
    ASSUME SessionInv, NEW t, Moves(t), UNCHANGED intercomVars,
           \/ LiveAnnExit \/ (LiveAnnEnter /\ ann' = "live" /\ mic_owner = "NONE")
           \/ UNCHANGED <<micVars, ann, current_state_ann, live_button_state>>
    PROVE  SessionInv'
<1>1. ThreadsRun'
  BY DEF Moves
<1>2. MicHeldInSession'
  BY DEF SessionInv, MicHeldInSession, LiveAnnExit, LiveAnnEnter, GiveMic, micVars,
     intercomVars
<1>3. Entering' = {} => Entering = {}
  BY DEF Entering, Moves, SessionInv, ThreadsRun, Waits
<1>4. FlagsTellSessions'
  BY <1>3 DEF SessionInv, FlagsTellSessions, LiveAnnExit, LiveAnnEnter, micVars,
     intercomVars
<1> QED
  BY <1>1, <1>2, <1>4 DEF SessionInv

LEMMA ReceiveKeepsSessions ==
    ASSUME SessionInv, NEW t \in Threads, pc[t] # "enter",
           NEW next, next \notin Waits, RecvD2PRequest(t, next)
    PROVE  SessionInv'
<1>1. Moves(t)
  BY CommandMoves DEF SessionInv
<1> QED
  BY <1>1, QuietKeepsSessions, AnnounceKeepsSessions DEF RecvD2PRequest

LEMMA AnnounceStepsKeepSessions ==
    ASSUME SessionInv, AnnounceSteps
    PROVE  SessionInv'
<1> USE DEF Waits, Threads
<1> ThreadsRun
  BY DEF SessionInv
<1>1. CASE pc.control = "package" /\ ProbeAnnouncePackage
  BY <1>1, CommandMoves, QuietKeepsSessions DEF ProbeAnnouncePackage
<1>2. CASE pc.control = "package" /\ ProbeIntercomPackage
  BY <1>2, CallMoves, ReceiveKeepsSessions, QuietKeepsSessions
     DEF ProbeIntercomPackage
<1>3. CASE LiveSent
  BY <1>3 DEF LiveSent, Control, ThreadsRun
<1>4. CASE cb_btn_intercomm_accept
  BY <1>4, ReceiveKeepsSessions DEF cb_btn_intercomm_accept, Pressed
<1>5. CASE JudegD2PButton
  BY <1>5, CallMoves, ReceiveKeepsSessions, QuietKeepsSessions DEF JudegD2PButton
<1>6. CASE PutMicSample
  <2>1. Moves("sample")
    BY <1>6, CallMoves DEF PutMicSample
  <2> QED
    BY <1>6, <2>1, AnnounceKeepsSessions DEF PutMicSample
<1>7. CASE EnableLiveMonitorTimer
  BY <1>7 DEF EnableLiveMonitorTimer, SessionInv, ThreadsRun, MicHeldInSession,
     FlagsTellSessions, Entering, micVars, intercomVars
<1> QED
  BY <1>1, <1>2, <1>3, <1>4, <1>5, <1>6, <1>7 DEF AnnounceSteps

LEMMA ExchangeStepsKeepSessions ==
    ASSUME SessionInv, ExchangeSteps
    PROVE  SessionInv'
<1> USE DEF Waits, Threads
<1> QED
  BY ExchangeKeepsSessions
     DEF ExchangeSteps, JudgeWhetherD2DHaveFinished, ProbeMonitorPackage,
         cb_enter_monitor, cb_cancle_monitor, cb_enter_d2d, cb_canenl_d2d, Pressed

LEMMA CommandsKeepSessions ==
    ASSUME SessionInv, ~CommandsMayWait, ReadCommand
    PROVE  SessionInv'
<1> USE DEF Waits, Threads
<1> DEFINE command == Head(screen_cmds)
<1> HIDE DEF command
<1>1. Goto("control", "metal") => Moves("control")
  BY CallMoves DEF SessionInv, ReadCommand
<1>2. CASE screen_cmds = <<>>
  BY <1>1, <1>2, QuietKeepsSessions DEF ReadCommand
<1>3. CASE ANNStateHangle(command)
  <2>1. CASE NoExchange /\ Goto("control", "metal")
    BY <1>1, <2>1, QuietKeepsSessions
  <2>2. CASE /\ WhetherWantToExchangeState(command)
             /\ ~(command = "live_on" /\ mic_owner # "NONE")
             /\ BcuDynamicStateExchange(command)
    <3> DEFINE event == BCUSetTSCmd(command).event_type_ann
               next == IF WhetherOverPackage(command) /\ ann = event
                       THEN "idle" ELSE event
    <3>1. next = "live" => mic_owner = "NONE"
      BY <2>2 DEF WhetherWantToExchangeState, WhetherOverPackage, BCUSetTSCmd
    <3> HIDE DEF next
    <3>2. /\ UNCHANGED intercomVars /\ Goto("control", "metal")
          /\ LiveAnnExit \/ (next = "live" /\ LiveAnnEnter /\ ann' = "live")
      BY <2>2 DEF BcuDynamicStateExchange, next
    <3> QED
      BY <1>1, <3>1, <3>2, AnnounceKeepsSessions
  <2> QED
    BY <1>3, <2>1, <2>2 DEF ANNStateHangle
<1>4. CASE IntercomStateHangle(command)
  BY <1>1, <1>4, ExchangeKeepsSessions, QuietKeepsSessions
     DEF IntercomStateHangle, ReadCommand
<1> QED
  BY <1>2, <1>3, <1>4 DEF ReadCommand, command

(* While SendCmd finds room, the microphone belongs to a session that is    *)
(* going on and the flags tell the session: the exit of a state and the     *)
(* delayed enter of the next may come from two threads in any order.  The   *)
(* invariant adds that no thread stands behind a SendCmd.                   *)
THEOREM SessionsHold ==
    ASSUME ~CommandsMayWait
    PROVE  Spec => [](MicHeldInSession /\ FlagsTellSessions)
<1>1. Init => SessionInv
  BY DEF Init, SessionInv, ThreadsRun, MicHeldInSession, FlagsTellSessions,
     Threads, Waits
<1>2. ASSUME SessionInv, [Next]_vars
      PROVE  SessionInv'
  <2>1. ASSUME NEW t \in Threads, QuietStep(t)
        PROVE  SessionInv'
    BY <1>2, <2>1, QuietSteps, QuietMoves, QuietKeepsSessions DEF SessionInv
  <2>2. ASSUME NEW t \in Threads, EnterSent(t)
        PROVE  FALSE
    BY <1>2, <2>2 DEF EnterSent, SessionInv, ThreadsRun, Waits
  <2>3. CASE JudegWhetherRequestD2D
    <3>1. ThreadsRun' /\ Entering' # {}
      BY <1>2, <2>3 DEF JudegWhetherRequestD2D, Call, SessionInv, ThreadsRun, Waits,
         Entering, Threads
    <3> QED
      BY <1>2, <2>3, <3>1 DEF JudegWhetherRequestD2D, SessionInv, MicHeldInSession,
         FlagsTellSessions, micVars, annVars
  <2>4. CASE UNCHANGED vars
    BY <1>2, <2>4 DEF vars, sessionVars, micVars, annVars, intercomVars, SessionInv,
       ThreadsRun, MicHeldInSession, FlagsTellSessions, Entering
  <2> QED
    BY <1>2, <2>1, <2>2, <2>3, <2>4, NextSorted, EnterKeepsSessions,
       AnnounceStepsKeepSessions, ExchangeStepsKeepSessions, CommandsKeepSessions
<1>3. SessionInv => MicHeldInSession /\ FlagsTellSessions
  BY DEF SessionInv
<1> QED
  BY <1>1, <1>2, <1>3, PTL DEF Spec

(* The flags by which the touch thread and the keys decide, d2d_button_state, *)
(* begin_to_broadcast_audio_data and live_button_state, tell the session that *)
(* is going on, unless SendCmd may wait for the control centre.               *)
COROLLARY SessionFlags ==
    ASSUME ~CommandsMayWait
    PROVE  Spec => []FlagsTellSessions
<1>1. MicHeldInSession /\ FlagsTellSessions => FlagsTellSessions
  OBVIOUS
<1> QED
  BY <1>1, SessionsHold, PTL

-----------------------------------------------------------------------------
(* Types *)

SessionType ==
    /\ intercom \in {"idle", "d2d", "d2p", "monitor"}
    /\ ann \in {"idle", "live"} /\ current_state_ann \in {"idle", "live"}
    /\ mic_owner \in {"NONE", "INTERCOM", "ANNOUNCE"}
    /\ destination \in {"none", "OCS"}
    /\ live_button_state \in {0, 1} /\ d2d_button_state \in {0, 1}
    /\ this_bcu_request \in {0, 1} /\ begin_to_broadcast_audio_data \in {0, 1}
    /\ unused_for_long \in BOOLEAN
CallType == is_intercomming_with_pcu \in {0, 1} /\ d2p_button_state \in 0 .. 2
ScreenType == /\ page \in {"static"} \cup Pages \cup {"car"}
              /\ active \subseteq Buttons /\ cars \in 0 .. 2
CommandType == /\ screen_cmds \in Seq(Commands) /\ Len(screen_cmds) <= Capacity
               /\ send_ts_cmd_to_control \in Commands
FlagType == switchFlag \in {0, 16, 17}
ThreadType == DOMAIN pc = Threads /\ DOMAIN then = Threads

AllTypes == /\ SessionType /\ CallType /\ ScreenType /\ CommandType
            /\ FlagType /\ ThreadType

LEMMA TypeParts == (TypeOK <=> AllTypes) /\ (TypeOK' <=> AllTypes')
  BY DEF AllTypes, TypeOK, SessionType, CallType, ScreenType, CommandType, FlagType,
     ThreadType

(* What is left alone keeps its type. *)
LEMMA TypesStay ==
    /\ SessionType /\ NoExchange => SessionType'
    /\ CallType /\ UNCHANGED callVars => CallType'
    /\ ScreenType /\ UNCHANGED screenVars => ScreenType'
    /\ CommandType /\ UNCHANGED commandVars => CommandType'
    /\ FlagType /\ UNCHANGED switchFlag => FlagType'
<1>1. SessionType /\ NoExchange => SessionType'
  BY DEF SessionType, NoExchange, sessionVars, micVars, annVars, intercomVars
<1> QED
  BY <1>1 DEF CallType, ScreenType, CommandType, FlagType, callVars, screenVars,
     commandVars

LEMMA MoveTypes ==
    ASSUME ThreadType, NEW t, NEW s, NEW next
    PROVE  /\ Goto(t, s) => ThreadType'
           /\ Call(t, s, next) => ThreadType'
           /\ Return(t) => ThreadType'
  BY DEF ThreadType, Goto, Call, Return

LEMMA CommandTypes ==
    ASSUME CommandType, ThreadType, NEW t, NEW next, NEW command \in Commands
    PROVE  /\ TouchScreenSetCmd(t, command, next) => CommandType' /\ ThreadType'
           /\ ExchangeToLive(t, next) => CommandType' /\ ThreadType'
<1>1. ASSUME NEW c \in Commands, Len(screen_cmds) < Capacity
      PROVE  /\ Append(screen_cmds, c) \in Seq(Commands)
             /\ Len(Append(screen_cmds, c)) <= Capacity
  BY <1>1, CapacityAssumption DEF CommandType
<1>2. ASSUME NEW c \in Commands, TouchScreenSetCmd(t, c, next)
      PROVE  CommandType' /\ ThreadType'
  BY <1>1, <1>2, MoveTypes DEF CommandType, TouchScreenSetCmd
<1>3. "live_on" \in Commands
  BY DEF Commands
<1> QED
  BY <1>2, <1>3, MoveTypes DEF ExchangeToLive, CommandType, commandVars

LEMMA ExchangeTypes ==
    ASSUME SessionType, ThreadType, NEW t, NEW event, NEW next,
           StateMachineExchange(t, event, next)
    PROVE  SessionType' /\ ThreadType'
<1>1. ThreadType'
  BY MoveTypes DEF StateMachineExchange
<1>2. CASE NoExchange
  BY <1>1, <1>2, TypesStay
<1>3. CASE ~NoExchange
  <2>1. /\ Exit /\ UNCHANGED annVars
        /\ intercom' \in {"idle", "d2d", "d2p", "monitor"}
    BY <1>3 DEF StateMachineExchange, Rules, BCURuleTableInit, RuleSet
  <2> QED
    BY <1>1, <2>1 DEF SessionType, Exit, GiveMic, annVars, micVars
<1> QED
  BY <1>2, <1>3

LEMMA ReceiveTypes ==
    ASSUME SessionType, ThreadType, NEW t, NEW next, RecvD2PRequest(t, next)
    PROVE  SessionType' /\ ThreadType'
<1>1. ThreadType'
  BY MoveTypes DEF RecvD2PRequest
<1>2. CASE LiveAnnExit /\ UNCHANGED intercomVars
  BY <1>1, <1>2 DEF SessionType, LiveAnnExit, GiveMic, intercomVars
<1> QED
  BY <1>1, <1>2, TypesStay DEF RecvD2PRequest

LEMMA QuietTypes ==
    ASSUME TypeOK, NEW t \in Threads, QuietStep(t)
    PROVE  TypeOK'
<1> AllTypes
  BY TypeParts
<1> USE DEF AllTypes
<1> SessionType'
  BY QuietSteps, TypesStay
<1>1. CASE QuietCallbacks
  <2> USE <1>1 DEF QuietCallbacks, ShowPage, cb_return_D2D, cb_btn_intercomm,
      EnterSelectCar, cb_cancel_select, cb_next_page, BackToCars, cb_btn_monitor,
      cb_btn_enter, cb_pcu, cb_btn_d2d, cb_btn_d2p_request,
      cb_btn_intercomm_refuse, NoCallback
  <2>1. CommandType' /\ ThreadType' /\ FlagType'
    BY TypesStay, MoveTypes, CommandTypes DEF Done, Commands
  <2>2. \/ UNCHANGED callVars
        \/ d2p_button_state' = 1 /\ UNCHANGED is_intercomming_with_pcu
    OBVIOUS
  <2>3. CallType'
    BY <2>2, TypesStay DEF CallType
  <2>4. page' \in {"static", "car"} \cup Pages
    BY DEF ScreenType, screenVars, PageButtons
  <2>5. cars' \in {0, 1, 2, cars}
    BY DEF screenVars, CannelSelectCar, cb_btn_return0, cb_btn_return
  <2>6. cars' \in 0 .. 2
    BY <2>5 DEF ScreenType
  <2>7. ASSUME NEW b \in active', b \notin active
        PROVE  b \in {"next_page", "btn_monitor", "enter_monitor", "enter_d2d",
                      "canenl_d2d", "btn_intercomm_accept", "pcus"}
    BY <2>7 DEF screenVars, CannelSelectCar, cb_btn_return0, cb_btn_return,
       Disable_D2D_All_Btn, Disable_D2p_All_Btn
  <2>8. active' \subseteq Buttons
    BY <2>7 DEF ScreenType, Buttons
  <2> QED
    BY <2>1, <2>3, <2>4, <2>6, <2>8, TypeParts DEF ScreenType
<1>2. CASE QuietTouchSteps
  <2> USE <1>2 DEF QuietTouchSteps, ExitLive, LeftLive, AfterExchange, AfterCall,
      NoAlarm, GetOuterButtonState, Handled
  <2>1. CommandType' /\ ThreadType'
    BY TypesStay, MoveTypes, CommandTypes DEF Done, Commands
  <2>2. CallType' /\ FlagType'
    BY TypesStay DEF CallType, FlagType, callVars
  <2>3. ScreenType'
    BY TypesStay DEF ScreenType, screenVars, CannelSelectCar, Buttons,
       Enable_D2d_All_Btn, Enable_D2p_All_Btn
  <2> QED
    BY <2>1, <2>2, <2>3, TypeParts
<1>3. CASE QuietControlSteps
  <2> USE <1>3 DEF QuietControlSteps, ProbeMetalButtonToPerform, AlarmDone,
      AfterD2DKey, AfterPackage
  <2>1. CommandType' /\ ThreadType'
    BY TypesStay, MoveTypes DEF Control, AlarmTSToChangeScreen
  <2>2. CallType' /\ FlagType'
    BY TypesStay DEF CallType, FlagType, callVars, AlarmTSToChangeScreen
  <2>3. ScreenType'
    BY TypesStay DEF ScreenType, screenVars, Buttons, Enable_D2d_All_Btn,
       Enable_D2p_All_Btn
  <2> QED
    BY <2>1, <2>2, <2>3, TypeParts
<1>4. CASE QuietThreadSteps(t)
  <2> USE <1>4 DEF QuietThreadSteps, Retry, Receive, RefuseD2PRequest
  <2>1. CommandType' /\ ThreadType'
    BY TypesStay, MoveTypes, CommandTypes, CapacityAssumption, SMTT(30) DEF CommandType, Commands
  <2>2. CallType' /\ FlagType'
    BY TypesStay DEF CallType, callVars
  <2>3. ScreenType'
    BY TypesStay DEF ScreenType, screenVars
  <2> QED
    BY <2>1, <2>2, <2>3, TypeParts
<1>5. CASE BcuMicSampleAndPlayEntry
  <2>1. CommandType' /\ ThreadType'
    BY <1>5, TypesStay, MoveTypes, CommandTypes DEF BcuMicSampleAndPlayEntry, Commands
  <2> QED
    BY <1>5, <2>1, TypesStay, TypeParts DEF BcuMicSampleAndPlayEntry
<1> QED
  BY <1>1, <1>2, <1>3, <1>4, <1>5 DEF QuietStep

LEMMA AnnounceTypes ==
    ASSUME TypeOK, AnnounceSteps
    PROVE  TypeOK'
<1> AllTypes
  BY TypeParts
<1> USE DEF AllTypes
<1>1. CASE ProbeAnnouncePackage
  <2>1. CommandType' /\ ThreadType'
    BY <1>1, CommandTypes DEF ProbeAnnouncePackage, Commands
  <2> QED
    BY <1>1, <2>1, TypesStay, TypeParts DEF ProbeAnnouncePackage
<1>2. CASE ProbeIntercomPackage
  <2>1. SessionType' /\ ThreadType'
    BY <1>2, TypesStay, MoveTypes, ReceiveTypes DEF ProbeIntercomPackage
  <2>2. ScreenType'
    BY <1>2 DEF ProbeIntercomPackage, ScreenType, Buttons, Disable_D2p_All_Btn
  <2> QED
    BY <1>2, <2>1, <2>2, TypesStay, TypeParts DEF ProbeIntercomPackage
<1>3. CASE LiveSent
  <2>1. SessionType' /\ ThreadType'
    BY <1>3, MoveTypes
       DEF LiveSent, Control, LiveAnnEnter, GiveMic, SessionType, intercomVars
  <2> QED
    BY <1>3, <2>1, TypesStay, TypeParts DEF LiveSent
<1>4. CASE cb_btn_intercomm_accept
  BY <1>4, ReceiveTypes, TypesStay, TypeParts DEF cb_btn_intercomm_accept
<1>5. CASE JudegD2PButton
  <2>1. SessionType' /\ ThreadType'
    BY <1>5, ReceiveTypes, MoveTypes, TypesStay DEF JudegD2PButton
  <2>2. /\ page' \in {"static", "car"} \cup Pages /\ d2p_button_state' \in 0 .. 2
        /\ UNCHANGED <<is_intercomming_with_pcu, active, cars>>
    BY <1>5 DEF JudegD2PButton, ScreenType, CallType
  <2> QED
    BY <1>5, <2>1, <2>2, TypesStay, TypeParts DEF JudegD2PButton, ScreenType, CallType
<1>6. CASE PutMicSample
  <2>1. SessionType' /\ ThreadType'
    BY <1>6, MoveTypes, ZenonT(30) DEF PutMicSample, SessionType, intercomVars, micVars
  <2> QED
    BY <1>6, <2>1, TypesStay, TypeParts DEF PutMicSample
<1>7. CASE EnableLiveMonitorTimer
  <2>1. SessionType' /\ ThreadType'
    BY <1>7 DEF EnableLiveMonitorTimer, SessionType, ThreadType, intercomVars, micVars
  <2> QED
    BY <1>7, <2>1, TypesStay, TypeParts DEF EnableLiveMonitorTimer
<1> QED
  BY <1>1, <1>2, <1>3, <1>4, <1>5, <1>6, <1>7 DEF AnnounceSteps

LEMMA ExchangeStepTypes ==
    ASSUME TypeOK, ExchangeSteps
    PROVE  TypeOK'
<1> AllTypes
  BY TypeParts
<1> USE DEF AllTypes, ExchangeSteps, JudgeWhetherD2DHaveFinished, ProbeMonitorPackage,
    cb_enter_monitor, cb_cancle_monitor, cb_enter_d2d, cb_canenl_d2d
<1>1. SessionType' /\ ThreadType'
  BY ExchangeTypes
<1>2. CallType' /\ CommandType' /\ FlagType'
  BY TypesStay
<1>3. ScreenType'
  BY DEF ScreenType, screenVars, Buttons
<1> QED
  BY <1>1, <1>2, <1>3, TypeParts

LEMMA ReadCommandTypes ==
    ASSUME TypeOK, ReadCommand
    PROVE  TypeOK'
<1> AllTypes
  BY TypeParts
<1> USE DEF AllTypes
<1>1. ASSUME NEW command, ANNStateHangle(command)
      PROVE  SessionType' /\ ThreadType'
  <2>1. ThreadType'
    BY <1>1, MoveTypes DEF ANNStateHangle, BcuDynamicStateExchange
  <2>2. SessionType'
    BY <1>1, TypesStay DEF ANNStateHangle, BcuDynamicStateExchange, SessionType,
       LiveAnnEnter, LiveAnnExit, GiveMic, intercomVars, micVars
  <2> QED
    BY <2>1, <2>2
<1>2. ASSUME NEW command, IntercomStateHangle(command)
      PROVE  SessionType' /\ ThreadType'
  BY <1>2, ExchangeTypes, MoveTypes, TypesStay DEF IntercomStateHangle
<1>3. SessionType' /\ ThreadType'
  BY <1>1, <1>2, MoveTypes, TypesStay DEF ReadCommand
<1>4. CommandType'
  <2>1. CASE screen_cmds # <<>>
    <3>1. /\ Tail(screen_cmds) \in Seq(Commands)
          /\ Len(Tail(screen_cmds)) = Len(screen_cmds) - 1
          /\ Len(screen_cmds) \in Nat
      BY <2>1, HeadTailProperties DEF CommandType
    <3> QED
      BY <2>1, <3>1, CapacityAssumption DEF ReadCommand, CommandType
  <2>2. CASE screen_cmds = <<>>
    BY <2>2 DEF ReadCommand, CommandType
  <2> QED
    BY <2>1, <2>2
<1> QED
  BY <1>3, <1>4, TypesStay, TypeParts DEF ReadCommand

(* Each variable keeps its type, the buttons shown are the screen's and the *)
(* command buffer never holds more than its places, whichever threads write *)
(* to it and whether or not SendCmd waits.                                  *)
THEOREM TypeCorrect == Spec => []TypeOK
<1>1. Init => TypeOK
  <2>1. Init => CommandType
    BY CapacityAssumption DEF Init, CommandType, Commands
  <2>2. Init => CallType /\ FlagType
    BY DEF Init, CallType, FlagType
  <2>3. Init => ScreenType
    BY DEF Init, ScreenType, Buttons, ActiveAtStart, gp_intercomm, controlpage,
       AnnOrMonitorSelect, D2D_intercom_page
  <2>4. Init => ThreadType
    BY DEF Init, ThreadType, Threads
  <2>5. Init => SessionType
    BY Zenon DEF Init, SessionType
  <2> QED
    BY <2>1, <2>2, <2>3, <2>4, <2>5, TypeParts DEF AllTypes
<1>2. ASSUME TypeOK, [Next]_vars
      PROVE  TypeOK'
  <2> AllTypes
    BY <1>2, TypeParts
  <2> USE DEF AllTypes
  <2>1. ASSUME NEW t \in Threads, Enter(t) \/ EnterSent(t)
        PROVE  TypeOK'
    <3>1. ThreadType'
      BY <2>1, MoveTypes DEF Enter, EnterSent
    <3>2. SessionType'
      BY <2>1 DEF Enter, EnterSent, EnteredState, SessionType, annVars, micVars
    <3> QED
      BY <2>1, <3>1, <3>2, TypesStay, TypeParts DEF Enter, EnterSent
  <2>2. CASE JudegWhetherRequestD2D
    <3>1. SessionType' /\ ThreadType'
      BY <2>2, MoveTypes DEF JudegWhetherRequestD2D, SessionType, annVars, micVars
    <3> QED
      BY <2>2, <3>1, TypesStay, TypeParts DEF JudegWhetherRequestD2D
  <2>3. CASE UNCHANGED vars
    BY <1>2, <2>3, TypesStay, TypeParts DEF vars, NoExchange, ThreadType
  <2> QED
    BY <1>2, <2>1, <2>2, <2>3, NextSorted, QuietTypes, AnnounceTypes,
       ExchangeStepTypes, ReadCommandTypes
<1> QED
  BY <1>1, <1>2, PTL DEF Spec

-----------------------------------------------------------------------------
(* Commands in the buffer *)

(* A step puts one command behind the others, or takes the first one.       *)
(* Whoever takes the end of an announcement or of a passenger's call leaves *)
(* that announcement or call ended (ANNStateHangle, IntercomStateHangle,    *)
(* WhetherWantToExchangeState): nothing overtakes it, and whoever owns the  *)
(* microphone by then does not matter.                                      *)
EndsAreObeyed ==
    \/ UNCHANGED screen_cmds
    \/ \E c \in Commands : screen_cmds' = Append(screen_cmds, c)
    \/ /\ screen_cmds # <<>> /\ screen_cmds' = Tail(screen_cmds)
       /\ Head(screen_cmds) = "live_off" => ann' = "idle"
       /\ Head(screen_cmds) = "d2p_off" => intercom' # "d2p"

LEMMA CommandsAreQueued ==
    ASSUME NEW t, NEW next, NEW command \in Commands
    PROVE  /\ TouchScreenSetCmd(t, command, next) => EndsAreObeyed
           /\ ExchangeToLive(t, next) => EndsAreObeyed
<1>1. "live_on" \in Commands
  BY DEF Commands
<1>2. ASSUME NEW c \in Commands, TouchScreenSetCmd(t, c, next)
      PROVE  EndsAreObeyed
  BY <1>2 DEF TouchScreenSetCmd, EndsAreObeyed
<1> QED
  BY <1>1, <1>2 DEF ExchangeToLive, EndsAreObeyed, commandVars

LEMMA EndOfAnnouncement ==
    ASSUME ANNStateHangle("live_off"), ann \in {"idle", "live"}
    PROVE  ann' = "idle"
<1>1. CASE ann = "live"
  <2>1. /\ BCUSetTSCmd("live_off").event_type_ann = "live"
        /\ WhetherOverPackage("live_off")
    BY DEF BCUSetTSCmd, WhetherOverPackage
  <2>2. WhetherWantToExchangeState("live_off")
    BY <1>1 DEF WhetherWantToExchangeState
  <2>3. BcuDynamicStateExchange("live_off")
    BY <2>2 DEF ANNStateHangle
  <2> QED
    BY <1>1, <2>1, <2>3 DEF BcuDynamicStateExchange, LiveAnnExit
<1>2. CASE ann = "idle"
  <2>1. ~WhetherWantToExchangeState("live_off")
    BY <1>2 DEF WhetherWantToExchangeState
  <2> QED
    BY <1>2, <2>1 DEF ANNStateHangle, NoExchange, sessionVars, annVars
<1> QED
  BY <1>1, <1>2

LEMMA EndOfCall ==
    ASSUME IntercomStateHangle("d2p_off")
    PROVE  intercom' # "d2p"
<1>1. CASE intercom = "d2p"
  <2>1. GetEventType(intercom, "d2p_off") = "pcu_release"
    BY DEF GetEventType
  <2>2. WhetherWantToExchangeState("d2p_off")
    BY <1>1 DEF WhetherWantToExchangeState
  <2>3. StateMachineExchange("control", "pcu_release", "metal")
    BY <2>1, <2>2 DEF IntercomStateHangle
  <2>4. <<"d2p", "pcu_release", "idle">> \in Rules
    BY DEF Rules, BCURuleTableInit, RuleSet
  <2>5. ASSUME NEW r \in Rules, r[1] = "d2p", r[2] = "pcu_release"
        PROVE  r[3] = "idle"
    BY <2>5 DEF Rules, BCURuleTableInit, RuleSet
  <2>6. \E r \in Rules : r[1] = "d2p" /\ r[2] = "pcu_release"
    BY <2>4
  <2> QED
    BY <1>1, <2>3, <2>5, <2>6 DEF StateMachineExchange
<1>2. CASE intercom # "d2p"
  <2>1. ~WhetherWantToExchangeState("d2p_off")
    BY <1>2 DEF WhetherWantToExchangeState
  <2> QED
    BY <1>2, <2>1 DEF IntercomStateHangle, NoExchange, sessionVars, intercomVars
<1> QED
  BY <1>1, <1>2

LEMMA ReadingObeys ==
    ASSUME TypeOK, ReadCommand
    PROVE  EndsAreObeyed
<1>1. CASE screen_cmds = <<>>
  BY <1>1 DEF ReadCommand, EndsAreObeyed
<1>2. CASE screen_cmds # <<>>
  <2>1. ASSUME Head(screen_cmds) = "live_off"
        PROVE  ann' = "idle"
    <3>1. BCUSetTSCmd("live_off").event_type_intercom = "idle"
      BY DEF BCUSetTSCmd
    <3> QED
      BY <1>2, <2>1, <3>1, EndOfAnnouncement DEF ReadCommand, TypeOK
  <2>2. ASSUME Head(screen_cmds) = "d2p_off"
        PROVE  intercom' # "d2p"
    <3>1. BCUSetTSCmd("d2p_off").event_type_ann = "idle"
      BY DEF BCUSetTSCmd
    <3> QED
      BY <1>2, <2>2, <3>1, EndOfCall DEF ReadCommand
  <2> QED
    BY <1>2, <2>1, <2>2 DEF ReadCommand, EndsAreObeyed
<1> QED
  BY <1>1, <1>2

LEMMA QuietStepsQueue ==
    ASSUME TypeOK, NEW t \in Threads, QuietStep(t)
    PROVE  EndsAreObeyed
<1> USE DEF Commands
<1>1. CASE QuietCallbacks
  BY <1>1, CommandsAreQueued
     DEF EndsAreObeyed, commandVars, QuietCallbacks, ShowPage, cb_return_D2D,
     cb_btn_intercomm, EnterSelectCar, cb_cancel_select, cb_next_page, BackToCars,
     cb_btn_monitor, cb_btn_enter, cb_pcu, cb_btn_d2d, cb_btn_d2p_request,
     cb_btn_intercomm_refuse, NoCallback
<1>2. CASE QuietTouchSteps
  BY <1>2, CommandsAreQueued
     DEF EndsAreObeyed, commandVars, QuietTouchSteps, ExitLive, LeftLive,
     AfterExchange, AfterCall, NoAlarm, GetOuterButtonState, Handled
<1>3. CASE QuietControlSteps
  BY <1>3 DEF EndsAreObeyed, commandVars, QuietControlSteps,
     ProbeMetalButtonToPerform, AlarmDone, AfterD2DKey, AfterPackage
<1>4. CASE QuietThreadSteps(t)
  <2>1. send_ts_cmd_to_control \in Commands
    BY Zenon DEF TypeOK
  <2> QED
    BY <1>4, <2>1, CommandsAreQueued
       DEF EndsAreObeyed, commandVars, QuietThreadSteps, Retry, Receive,
       RefuseD2PRequest
<1>5. CASE BcuMicSampleAndPlayEntry
  BY <1>5, CommandsAreQueued
     DEF EndsAreObeyed, commandVars, BcuMicSampleAndPlayEntry
<1> QED
  BY <1>1, <1>2, <1>3, <1>4, <1>5 DEF QuietStep

(* Whatever the threads queue, and whether or not SendCmd waits, the end of *)
(* an announcement or of a call that is in the buffer is neither dropped    *)
(* nor overtaken, and it ends what it is about when its turn comes: the     *)
(* safe half of LiveOffObeyed and CallOffObeyed.                            *)
THEOREM QueuedEndsEnd == Spec => [][EndsAreObeyed]_vars
<1>1. ASSUME TypeOK, [Next]_vars
      PROVE  [EndsAreObeyed]_vars
  <2>1. ASSUME NEW t \in Threads, Enter(t) \/ EnterSent(t)
        PROVE  EndsAreObeyed
    BY <2>1 DEF Enter, EnterSent, EndsAreObeyed, commandVars
  <2>2. CASE AnnounceSteps
    BY <2>2, CommandsAreQueued
       DEF AnnounceSteps, ProbeAnnouncePackage, ProbeIntercomPackage, LiveSent,
       cb_btn_intercomm_accept, JudegD2PButton, PutMicSample,
       EnableLiveMonitorTimer, EndsAreObeyed, commandVars, Commands
  <2>3. CASE ExchangeSteps
    BY <2>3 DEF ExchangeSteps, JudgeWhetherD2DHaveFinished, ProbeMonitorPackage,
       cb_enter_monitor, cb_cancle_monitor, cb_enter_d2d, cb_canenl_d2d,
       EndsAreObeyed, commandVars
  <2>4. CASE JudegWhetherRequestD2D
    BY <2>4 DEF JudegWhetherRequestD2D, EndsAreObeyed, commandVars
  <2> QED
    BY <1>1, <2>1, <2>2, <2>3, <2>4, NextSorted, QuietStepsQueue, ReadingObeys
<1> QED
  BY <1>1, TypeCorrect, PTL DEF Spec

-----------------------------------------------------------------------------
(* The handshake by switchFlag *)

(* Where the touch thread is about to say that an alarm is done, and where  *)
(* it goes on with then.touch.                                              *)
Answers == {"handled", "taken", "refused_key", "metal_left"}
Subroutines == {"enter", "sent", "retry", "receive", "refuse", "exit_live"}

(* The control thread waits while the flag is set, and the touch thread is  *)
(* at the end of a handler only while it is.                                *)
HandshakeInv ==
    /\ DOMAIN pc = Threads /\ DOMAIN then = Threads
    /\ switchFlag # 0 => pc.control = "alarm"
    /\ pc.touch \in Answers \/ then.touch \in Answers => switchFlag # 0
    /\ pc.touch \notin Subroutines => then.touch = "none"
    /\ then.touch \notin Subroutines

(* A key sets the flag only when the one before it has been answered, and   *)
(* the touch thread takes back only the flag the control thread waits for   *)
(* (AlarmTSToChangeScreen, touch_screen_main): no alarm is overwritten, and *)
(* none is answered twice.                                                  *)
AlarmsTakeTurns ==
    \/ UNCHANGED switchFlag
    \/ switchFlag = 0 /\ switchFlag' \in {16, 17} /\ pc'.control = "alarm"
    \/ /\ switchFlag' = 0 /\ switchFlag # 0
       /\ pc.control = "alarm" /\ pc'.control = "alarm"

HandshakeKept == HandshakeInv' /\ AlarmsTakeTurns

(* Where the touch thread may go on as long as the flag stays. *)
Fine(s) == s \notin Subroutines /\ (s \in Answers => switchFlag # 0)

LEMMA TouchGoesOn ==
    ASSUME HandshakeInv, UNCHANGED switchFlag, NEW next, Fine(next),
           NEW s \in Subroutines
    PROVE  /\ Call("touch", next, "none") => HandshakeKept
           /\ Call("touch", s, next) => HandshakeKept
           /\ Goto("touch", next) /\ pc.touch \notin Subroutines => HandshakeKept
<1> USE DEF HandshakeInv, HandshakeKept, AlarmsTakeTurns, Fine, Threads
<1>1. "none" \notin Subroutines /\ "none" \notin Answers
  BY DEF Subroutines, Answers
<1>2. Subroutines \cap Answers = {}
  BY DEF Subroutines, Answers
<1>3. CASE Call("touch", next, "none")
  BY <1>1, <1>3 DEF Call
<1>4. CASE Call("touch", s, next)
  BY <1>2, <1>4 DEF Call
<1>5. CASE Goto("touch", next) /\ pc.touch \notin Subroutines
  BY <1>1, <1>5 DEF Goto
<1> QED
  BY <1>3, <1>4, <1>5

LEMMA TouchReturns ==
    ASSUME HandshakeInv, UNCHANGED switchFlag
    PROVE  /\ Fine(then.touch)
           /\ Return("touch") => HandshakeKept
           /\ Goto("touch", "sent") /\ pc.touch = "enter" => HandshakeKept
<1>1. Fine(then.touch)
  BY DEF HandshakeInv, Fine
<1>2. "sent" \in Subroutines /\ "enter" \in Subroutines /\ "sent" \notin Answers
  BY DEF Subroutines, Answers
<1>3. ASSUME Goto("touch", "sent") /\ pc.touch = "enter"
      PROVE  HandshakeKept
  BY <1>2, <1>3 DEF HandshakeInv, HandshakeKept, AlarmsTakeTurns, Threads, Goto
<1> QED
  BY <1>1, <1>2, <1>3, TouchGoesOn DEF Return

LEMMA TouchCommands ==
    ASSUME HandshakeInv, UNCHANGED switchFlag, NEW next, Fine(next), NEW command
    PROVE  /\ TouchScreenSetCmd("touch", command, next) => HandshakeKept
           /\ /\ pc.touch \notin Subroutines
              /\ ExchangeToLive("touch", next) \/ RecvD2PRequest("touch", next)
              => HandshakeKept
<1>1. "retry" \in Subroutines /\ "receive" \in Subroutines
  BY DEF Subroutines
<1>2. ASSUME NEW c, TouchScreenSetCmd("touch", c, next)
      PROVE  HandshakeKept
  BY <1>1, <1>2, TouchGoesOn DEF TouchScreenSetCmd
<1> QED
  BY <1>1, <1>2, TouchGoesOn DEF ExchangeToLive, RecvD2PRequest

LEMMA TouchExchanges ==
    ASSUME HandshakeInv, UNCHANGED switchFlag, NEW next, Fine(next), NEW event,
           pc.touch \notin Subroutines,
           StateMachineExchange("touch", event, next)
    PROVE  HandshakeKept
<1>1. "enter" \in Subroutines
  BY DEF Subroutines
<1> QED
  BY <1>1, TouchGoesOn DEF StateMachineExchange

LEMMA TouchAnswers ==
    ASSUME HandshakeInv, pc.touch \in Answers, switchFlag' = 0, Goto("touch", "wait")
    PROVE  HandshakeKept
<1>1. pc.touch \notin Subroutines
  BY DEF Subroutines, Answers
<1>2. "none" \notin Answers /\ "wait" \notin Answers /\ "wait" \notin Subroutines
  BY DEF Answers, Subroutines
<1> QED
  BY <1>1, <1>2
     DEF HandshakeInv, HandshakeKept, AlarmsTakeTurns, Threads, Goto

LEMMA TouchKeepsHandshake ==
    ASSUME HandshakeInv, TouchSteps
    PROVE  HandshakeKept
<1> DEFINE Waiting == {"flag", "wait", "monitoring", "unmonitored", "called",
                       "cancelled", "accepted", "refused", "left_live"}
<1>1. ASSUME NEW s \in Waiting
      PROVE  Fine(s) /\ s \notin Subroutines
  BY <1>1 DEF Fine, Subroutines, Answers
<1>2. ASSUME switchFlag # 0, NEW s \in Answers
      PROVE  Fine(s)
  BY <1>2 DEF Fine, Subroutines, Answers
<1> "retry" \in Subroutines
  BY DEF Subroutines
<1>3. CASE ThreadSteps("touch")
  BY <1>3, TouchReturns, TouchCommands
     DEF ThreadSteps, Enter, EnterSent, Retry, Receive, RefuseD2PRequest
<1>4. CASE Callbacks
  <2>1. pc.touch \notin Subroutines /\ UNCHANGED switchFlag
    BY <1>4 DEF Callbacks, QuietCallbacks, ShowPage, cb_return_D2D, cb_btn_intercomm,
     EnterSelectCar, cb_cancel_select, cb_next_page, BackToCars, cb_btn_monitor,
     cb_btn_enter, cb_pcu, cb_enter_monitor, cb_cancle_monitor, cb_btn_d2d,
     cb_enter_d2d, cb_canenl_d2d, cb_btn_d2p_request, cb_btn_intercomm_accept,
     cb_btn_intercomm_refuse, NoCallback, Pressed, cb_btn_return0, cb_btn_return,
     Subroutines
  <2>2. "exit_live" \in Subroutines /\ "refuse" \in Subroutines
    BY DEF Subroutines
  <2>3. CASE Done
    BY <1>1, <2>1, <2>3, TouchGoesOn DEF Done
  <2>4. CASE cb_btn_enter
    BY <1>1, <2>1, <2>2, <2>4, TouchGoesOn, TouchCommands DEF cb_btn_enter
  <2>5. CASE cb_enter_monitor \/ cb_cancle_monitor \/ cb_enter_d2d \/ cb_canenl_d2d
    BY <1>1, <2>1, <2>5, TouchExchanges
       DEF cb_enter_monitor, cb_cancle_monitor, cb_enter_d2d, cb_canenl_d2d
  <2>6. CASE cb_btn_intercomm_accept \/ cb_btn_intercomm_refuse
    BY <1>1, <2>1, <2>2, <2>6, TouchGoesOn, TouchCommands
       DEF cb_btn_intercomm_accept, cb_btn_intercomm_refuse
  <2> QED
    BY <1>4, <2>3, <2>4, <2>5, <2>6
       DEF Callbacks, ShowPage, cb_return_D2D, cb_btn_intercomm,
     EnterSelectCar, cb_cancel_select, cb_next_page, BackToCars, cb_btn_monitor,
     cb_pcu, cb_btn_d2d, cb_btn_d2p_request, NoCallback
<1>5. CASE ExitLive
  BY <1>5, TouchReturns, TouchCommands DEF ExitLive
<1>6. CASE LeftLive \/ Handled
  <2>1. CASE pc.touch \in Answers
    <3>1. pc.touch # "left_live"
      BY <2>1 DEF Answers
    <3> QED
      BY <1>6, <2>1, <3>1, TouchAnswers DEF LeftLive, Handled
  <2>2. CASE pc.touch \notin Answers
    <3>1. /\ pc.touch \notin Subroutines /\ UNCHANGED switchFlag
          /\ Goto("touch", "flag")
      BY <1>6, <2>2 DEF LeftLive, Handled, Answers, Done, Subroutines
    <3> QED
      BY <1>1, <3>1, TouchGoesOn
  <2> QED
    BY <2>1, <2>2
<1>7. CASE AfterExchange \/ AfterCall \/ NoAlarm
  <2>1. /\ pc.touch \notin Subroutines /\ UNCHANGED switchFlag
        /\ Goto("touch", "flag") \/ Goto("touch", "wait")
    BY <1>7 DEF AfterExchange, AfterCall, NoAlarm, Done, Subroutines
  <2> QED
    BY <1>1, <2>1, TouchGoesOn
<1>8. CASE GetOuterButtonState \/ JudegD2PButton
  <2>1. /\ pc.touch \notin Subroutines /\ UNCHANGED switchFlag
        /\ "exit_live" \in Subroutines /\ "refuse" \in Subroutines
        /\ {"handled", "metal_left", "taken", "refused_key"} \subseteq Answers
    BY <1>8 DEF GetOuterButtonState, JudegD2PButton, Subroutines, Answers
  <2>2. Fine("handled") /\ Fine("metal_left") /\ Fine("taken") /\ Fine("refused_key")
    BY <1>2, <1>8, <2>1 DEF GetOuterButtonState, JudegD2PButton
  <2> QED
    BY <1>8, <2>1, <2>2, TouchGoesOn, TouchCommands
       DEF GetOuterButtonState, JudegD2PButton
<1> QED
  BY <1>3, <1>4, <1>5, <1>6, <1>7, <1>8 DEF TouchSteps

(* A step of another thread leaves the touch thread where it is. *)
Elsewhere(t) ==
    /\ DOMAIN pc' = Threads /\ DOMAIN then' = Threads
    /\ \A u \in Threads \ {t} : pc'[u] = pc[u] /\ then'[u] = then[u]

LEMMA GoesElsewhere ==
    ASSUME HandshakeInv, NEW t \in Threads, NEW s, NEW next, NEW command, NEW event
    PROVE  /\ Goto(t, s) \/ Call(t, s, next) \/ Return(t) => Elsewhere(t)
           /\ TouchScreenSetCmd(t, command, next) => Elsewhere(t)
           /\ ExchangeToLive(t, next) => Elsewhere(t)
           /\ RecvD2PRequest(t, next) => Elsewhere(t)
           /\ StateMachineExchange(t, event, next) => Elsewhere(t)
<1>1. ASSUME NEW p, NEW n, Goto(t, p) \/ Call(t, p, n) \/ Return(t)
      PROVE  Elsewhere(t)
  BY <1>1 DEF HandshakeInv, Elsewhere, Goto, Call, Return
<1>2. ASSUME NEW c, TouchScreenSetCmd(t, c, next)
      PROVE  Elsewhere(t)
  BY <1>1, <1>2 DEF TouchScreenSetCmd
<1> QED
  BY <1>1, <1>2 DEF ExchangeToLive, RecvD2PRequest, StateMachineExchange

LEMMA ElsewhereKeeps ==
    ASSUME HandshakeInv, NEW t \in {"control", "sample"}, Elsewhere(t),
           \/ UNCHANGED switchFlag /\ t = "sample"
           \/ UNCHANGED switchFlag /\ (pc.control = "alarm" => switchFlag = 0)
           \/ /\ pc.control # "alarm" /\ switchFlag' \in {16, 17}
              /\ pc'.control = "alarm"
    PROVE  HandshakeKept
  BY DEF HandshakeInv, HandshakeKept, AlarmsTakeTurns, Elsewhere, Threads

LEMMA ThreadKeepsHandshake ==
    ASSUME HandshakeInv, NEW t \in {"control", "sample"}, ThreadSteps(t)
    PROVE  HandshakeKept
<1>1. t \in Threads
  BY DEF Threads
<1>2. Elsewhere(t)
  BY <1>1, GoesElsewhere
     DEF ThreadSteps, Enter, EnterSent, Retry, Receive, RefuseD2PRequest
<1>3. UNCHANGED switchFlag /\ pc[t] # "alarm"
  BY DEF ThreadSteps, Enter, EnterSent, Retry, Receive, RefuseD2PRequest
<1> QED
  BY <1>2, <1>3, ElsewhereKeeps

LEMMA ControlKeepsHandshake ==
    ASSUME HandshakeInv, ControlSteps
    PROVE  HandshakeKept
<1> "control" \in Threads
  BY DEF Threads
<1>1. CASE ThreadSteps("control")
  BY <1>1, ThreadKeepsHandshake
<1>2. CASE ProbeMetalButtonToPerform
  <2>1. Elsewhere("control") /\ pc.control # "alarm"
    BY <1>2, GoesElsewhere
       DEF ProbeMetalButtonToPerform, Control, AlarmTSToChangeScreen
  <2>2. \/ UNCHANGED switchFlag
        \/ switchFlag' \in {16, 17} /\ pc'.control = "alarm"
    BY <1>2 DEF ProbeMetalButtonToPerform, AlarmTSToChangeScreen, Call, HandshakeInv
  <2> QED
    BY <2>1, <2>2, ElsewhereKeeps
<1>3. CASE AlarmDone
  <2>1. Elsewhere("control")
    BY <1>3, GoesElsewhere DEF AlarmDone
  <2> QED
    BY <1>3, <2>1, ElsewhereKeeps DEF AlarmDone
<1>4. CASE \/ JudgeWhetherD2DHaveFinished \/ JudegWhetherRequestD2D \/ AfterD2DKey
           \/ ProbeBigCommPackage \/ AfterPackage \/ ReadCommand \/ LiveSent
  <2>1. UNCHANGED switchFlag /\ pc.control # "alarm"
    BY <1>4 DEF JudgeWhetherD2DHaveFinished, JudegWhetherRequestD2D, AfterD2DKey,
       ProbeBigCommPackage, ProbeAnnouncePackage, ProbeMonitorPackage,
       ProbeIntercomPackage, AfterPackage, ReadCommand, LiveSent, Control
  <2>2. Elsewhere("control")
    BY <1>4, GoesElsewhere
       DEF JudgeWhetherD2DHaveFinished, JudegWhetherRequestD2D, AfterD2DKey,
       ProbeBigCommPackage, ProbeAnnouncePackage, ProbeMonitorPackage,
       ProbeIntercomPackage, AfterPackage, ReadCommand, LiveSent, Control,
       ANNStateHangle, BcuDynamicStateExchange, IntercomStateHangle
  <2> QED
    BY <2>1, <2>2, ElsewhereKeeps
<1> QED
  BY <1>1, <1>2, <1>3, <1>4 DEF ControlSteps

LEMMA SampleKeepsHandshake ==
    ASSUME HandshakeInv, SampleSteps
    PROVE  HandshakeKept
<1> "sample" \in Threads
  BY DEF Threads
<1>1. CASE Retry("sample")
  BY <1>1, ThreadKeepsHandshake DEF ThreadSteps
<1>2. CASE BcuMicSampleAndPlayEntry \/ PutMicSample
  <2>1. Elsewhere("sample") /\ UNCHANGED switchFlag
    BY <1>2, GoesElsewhere DEF BcuMicSampleAndPlayEntry, PutMicSample
  <2> QED
    BY <2>1, ElsewhereKeeps
<1> QED
  BY <1>1, <1>2 DEF SampleSteps

(* The handshake of the metal keys, for which the two threads share one     *)
(* variable and no lock, takes strict turns, whatever the touch thread was  *)
(* doing when the key was pressed and whatever its handler waits for.       *)
THEOREM HandshakeTakesTurns == Spec => []HandshakeInv /\ [][AlarmsTakeTurns]_vars
<1>1. Init => HandshakeInv
  BY DEF Init, HandshakeInv, Threads, Answers, Subroutines
<1>2. ASSUME HandshakeInv, [Next]_vars
      PROVE  HandshakeInv' /\ [AlarmsTakeTurns]_vars
  <2>1. CASE Next
    <3>1. CASE EnableLiveMonitorTimer
      BY <1>2, <3>1 DEF EnableLiveMonitorTimer, HandshakeInv, AlarmsTakeTurns
    <3> QED
      BY <1>2, <2>1, <3>1, TouchKeepsHandshake, ControlKeepsHandshake,
         SampleKeepsHandshake DEF Next, HandshakeKept
  <2>2. CASE UNCHANGED vars
    BY <1>2, <2>2 DEF vars, HandshakeInv
  <2> QED
    BY <1>2, <2>1, <2>2
<1> QED
  BY <1>1, <1>2, PTL DEF Spec
===============================================================================
