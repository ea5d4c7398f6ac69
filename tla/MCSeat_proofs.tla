--------------------------- MODULE MCSeat_proofs ---------------------------
(***************************************************************************)
(* Proofs about what the driver has in hand besides the calls: the choice   *)
(* of cars, for any set of cars, any bounds of the buffers and any          *)
(* behaviour of the control centre and the other seats; the menu, for any   *)
(* length of the password; a metal key, for any end of its counter; the     *)
(* firmware; and the start of the program.                                  *)
(***************************************************************************)
EXTENDS MCSeat, FiniteSetTheorems, SequenceTheorems, TLAPS

(* Between the release of a cancel and the end of its delay nothing is      *)
(* marked: that is why the end of the delay may forget the confirmation     *)
(* although package 7 may come meanwhile.                                   *)
MarksInv == MarksAreOffered /\ (touch # "wait" => marked = {})

LEMMA CancelKeepsMarks ==
    ASSUME NEW caller, CannelSelectCar(caller)
    PROVE  MarksInv'
<1> marked' = {}
  BY DEF CannelSelectCar
<1> QED
  BY DEF MarksInv, MarksAreOffered

(* Whatever callbacks, delays and packages come in whatever order, a car    *)
(* that is marked and not confirmed can be pressed again (MarksAreOffered). *)
THEOREM MarksOffered == Spec => []MarksAreOffered
<1>1. Init => MarksInv
  BY DEF Init, MarksInv, MarksAreOffered
<1>2. ASSUME MarksInv, [Next]_vars
      PROVE  MarksInv'
  <2> USE <1>2 DEF MarksInv, MarksAreOffered
  <2>1. CASE UpdateSelectCarInfo
    BY <2>1 DEF UpdateSelectCarInfo, Callback, Toggled
  <2>2. CASE EnterSelectCar
    BY <2>2 DEF EnterSelectCar, Callback
  <2>3. CASE cb_cancel_select \/ cb_btn_return0
    BY <2>3, CancelKeepsMarks DEF cb_cancel_select, cb_btn_return0
  <2>4. CASE EndDelay
    BY <2>4 DEF EndDelay, Delays
  <2>5. CASE cb_next_page
    BY <2>5 DEF cb_next_page
  <2>6. CASE cb_btn_enter
    <3>1. CASE UNCHANGED <<marked, finished, offered, touch>>
      BY <3>1
    <3> QED
      BY <2>6, <3>1, CancelKeepsMarks DEF cb_btn_enter
  <2>7. CASE ProbeBigCommPackage
    BY <2>7 DEF ProbeBigCommPackage, screenVars
  <2>8. CASE SyncSelectCarInfo
    BY <2>8 DEF SyncSelectCarInfo, KeptMarks
  <2>9. CASE TakePackage \/ OtherSeat
    BY <2>9 DEF TakePackage, OtherSeat, screenVars
  <2>10. CASE UNCHANGED vars
    BY <2>10 DEF vars, screenVars
  <2> QED
    BY <2>1, <2>2, <2>3, <2>4, <2>5, <2>6, <2>7, <2>8, <2>9, <2>10 DEF Next
<1>3. MarksInv => MarksAreOffered
  BY DEF MarksInv
<1> QED
  BY <1>1, <1>2, <1>3, PTL DEF Spec

-----------------------------------------------------------------------------
(* What a callback adds to and takes from the buttons touches the two of    *)
(* the choice only when it says so.                                         *)
LEMMA OtherButtons ==
    ASSUME NEW on, NEW off, Change(on, off), NEW b, b \notin on, b \notin off
    PROVE  b \in buttons' <=> b \in buttons
  BY DEF Change

LEMMA CancelKeepsChoice ==
    ASSUME ConfirmedOnce, NEW caller, CannelSelectCar(caller) \/ AfterCancel(caller)
    PROVE  ConfirmedOnce'
<1>1. CASE AfterCancel(caller)
  <2>1. "next_page" \notin buttons' /\ finished' = 0
    BY <1>1 DEF AfterCancel, Change
  <2> QED
    BY <2>1 DEF ConfirmedOnce
<1>2. CASE UNCHANGED <<finished, buttons>>
  BY <1>2 DEF ConfirmedOnce
<1> QED
  BY <1>1, <1>2 DEF CannelSelectCar

(* A choice is confirmed at most once, and can be left for the next page    *)
(* exactly while it is confirmed (ConfirmedOnce).                           *)
THEOREM ChoiceConfirmedOnce == Spec => []ConfirmedOnce
<1>1. Init => ConfirmedOnce
  BY DEF Init, ConfirmedOnce
<1>2. ASSUME ConfirmedOnce, [Next]_vars
      PROVE  ConfirmedOnce'
  <2>1. CASE UpdateSelectCarInfo
    BY <1>2, <2>1 DEF UpdateSelectCarInfo, Change, ConfirmedOnce
  <2>2. CASE EnterSelectCar
    BY <1>2, <2>2 DEF EnterSelectCar, ConfirmedButtons, Change, ConfirmedOnce
  <2>3. CASE cb_cancel_select \/ cb_btn_return0 \/ EndDelay
    BY <1>2, <2>3, CancelKeepsChoice DEF cb_cancel_select, cb_btn_return0, EndDelay
  <2>4. CASE cb_next_page
    <3>1. /\ "next_page" \in buttons' <=> "next_page" \in buttons
          /\ "enter_select" \in buttons' <=> "enter_select" \in buttons
      BY <2>4 DEF cb_next_page, Change
    <3> QED
      BY <1>2, <2>4, <3>1 DEF cb_next_page, ConfirmedOnce
  <2>5. CASE cb_btn_enter
    <3>1. CASE Change({}, {"btn_monitor", "btn_return0"}) /\ UNCHANGED finished
      BY <1>2, <3>1 DEF Change, ConfirmedOnce
    <3> QED
      BY <1>2, <2>5, <3>1, CancelKeepsChoice DEF cb_btn_enter
  <2>6. CASE UNCHANGED <<finished, buttons>>
    BY <1>2, <2>6 DEF ConfirmedOnce
  <2> QED
    BY <1>2, <2>1, <2>2, <2>3, <2>4, <2>5, <2>6 DEF Next, vars, screenVars,
       ProbeBigCommPackage, SyncSelectCarInfo, TakePackage, OtherSeat
<1> QED
  BY <1>1, <1>2, PTL DEF Spec

-----------------------------------------------------------------------------
(* The choice of cars: types *)

LEMMA PackageSent ==
    ASSUME sent \in Seq(Packages), NEW C \in SUBSET Cars, NEW s \in BOOLEAN,
           Send([cars |-> C, select |-> s])
    PROVE  sent' \in Seq(Packages)
<1>1. [cars |-> C, select |-> s] \in Packages
  BY DEF Packages
<1> QED
  BY <1>1 DEF Send

LEMMA CentreTells ==
    ASSUME received \in Seq(SUBSET Cars), Tell
    PROVE  received' \in Seq(SUBSET Cars)
<1> {c \in Cars : owner'[c] # "nobody"} \in SUBSET Cars
  OBVIOUS
<1> QED
  BY DEF Tell

LEMMA AfterCancelTypes ==
    ASSUME TypeOK, NEW caller, AfterCancel(caller)
    PROVE  /\ finished' \in {0, 1} /\ page' \in {"car", "choose"}
           /\ buttons' \in SUBSET Buttons
  BY DEF TypeOK, AfterCancel, Change, Buttons

LEMMA CancelTypes ==
    ASSUME TypeOK, NEW caller \in Delays, CannelSelectCar(caller)
    PROVE  TypeOK'
<1>1. CASE marked # {}
  <2>1. sent' \in Seq(Packages)
    BY <1>1, PackageSent DEF CannelSelectCar, TypeOK
  <2> QED
    BY <1>1, <2>1 DEF CannelSelectCar, TypeOK
<1>2. CASE marked = {}
  BY <1>2, AfterCancelTypes DEF CannelSelectCar, TypeOK, linkVars
<1> QED
  BY <1>1, <1>2

LEMMA TypeInit == Init => TypeOK
BY DEF Init, TypeOK, Buttons

LEMMA TypeStep == TypeOK /\ [Next]_vars => TypeOK'
<1> SUFFICES ASSUME TypeOK, [Next]_vars
             PROVE  TypeOK'
  OBVIOUS
<1> USE DEF TypeOK, linkVars, screenVars
<1>1. CASE UpdateSelectCarInfo
  BY <1>1 DEF UpdateSelectCarInfo, Change, Toggled, Buttons
<1>2. CASE EnterSelectCar
  <2>1. count' \in Nat
    BY <1>2, CarsAssumption, FS_Subset, FS_CardinalityType DEF EnterSelectCar
  <2>2. sent' \in Seq(Packages)
    BY <1>2, PackageSent DEF EnterSelectCar
  <2> QED
    BY <1>2, <2>1, <2>2 DEF EnterSelectCar, ConfirmedButtons, Change, Buttons
<1>3. CASE cb_cancel_select \/ cb_btn_return0
  BY <1>3, CancelTypes DEF cb_cancel_select, cb_btn_return0, Delays
<1>4. CASE EndDelay
  BY <1>4, AfterCancelTypes DEF EndDelay
<1>5. CASE cb_next_page
  BY <1>5 DEF cb_next_page, Change, Buttons
<1>6. CASE cb_btn_enter
  <2>1. CASE CannelSelectCar("btn_enter")
    BY <2>1, CancelTypes DEF Delays
  <2> QED
    BY <1>6, <2>1 DEF cb_btn_enter, Change
<1>7. CASE ProbeBigCommPackage
  <2>1. Head(received) \in SUBSET Cars /\ Tail(received) \in Seq(SUBSET Cars)
    BY <1>7 DEF ProbeBigCommPackage
  <2> QED
    BY <1>7, <2>1 DEF ProbeBigCommPackage
<1>8. CASE SyncSelectCarInfo
  BY <1>8 DEF SyncSelectCarInfo, KeptMarks
<1>9. CASE TakePackage
  <2>1. Tail(sent) \in Seq(Packages) /\ received' \in Seq(SUBSET Cars)
    BY <1>9, CentreTells DEF TakePackage
  <2>2. owner' \in [Cars -> {"nobody", "seat", "other"}]
    BY <1>9 DEF TakePackage
  <2> QED
    BY <1>9, <2>1, <2>2 DEF TakePackage
<1>10. CASE OtherSeat
  <2>1. received' \in Seq(SUBSET Cars)
    BY <1>10, CentreTells DEF OtherSeat
  <2>2. owner' \in [Cars -> {"nobody", "seat", "other"}]
    BY <1>10 DEF OtherSeat
  <2> QED
    BY <1>10, <2>1, <2>2 DEF OtherSeat
<1>11. CASE UNCHANGED vars
  BY <1>11 DEF vars
<1> QED
  BY <1>1, <1>2, <1>3, <1>4, <1>5, <1>6, <1>7, <1>8, <1>9, <1>10, <1>11 DEF Next

(* Every variable keeps its type: the marks and the taken cars are cars of  *)
(* the train, the count is a number of cars, and only known packages are    *)
(* under way.                                                               *)
THEOREM TypeCorrect == Spec => []TypeOK
BY TypeInit, TypeStep, PTL DEF Spec

-----------------------------------------------------------------------------
(* The menu: password *)

PasswordInv ==
    /\ shown_page \in {"static", "main", "password", "items", "setting"}
    /\ password \in Seq(BOOLEAN) /\ Len(password) <= Length
    /\ ok \in BOOLEAN /\ title \in {"none", "input", "error", "forget"}
    /\ Menu!PasswordIsShown

LEMMA EmptyIsShown ==
    ASSUME Menu!EmptyPassword, title' = "error" => ok' = FALSE
    PROVE  /\ password' \in Seq(BOOLEAN) /\ Len(password') <= Length
           /\ Menu!PasswordIsShown'
<1>1. << >> \in Seq(BOOLEAN) /\ Len(<< >>) = 0
  BY EmptySeq
<1>2. password' = << >> /\ mask' = 0
  BY DEF Menu!EmptyPassword
<1>3. password' \in Seq(BOOLEAN) /\ Len(password') = 0
  BY <1>1, <1>2
<1> QED
  BY <1>2, <1>3, SeatAssumption DEF Menu!PasswordIsShown

LEMMA DigitIsShown ==
    ASSUME PasswordInv, NEW right \in BOOLEAN, Menu!SetPassword(right), title' = "input"
    PROVE  /\ password' \in Seq(BOOLEAN) /\ Len(password') <= Length
           /\ ok' \in BOOLEAN /\ Menu!PasswordIsShown'
<1>0. /\ password \in Seq(BOOLEAN) /\ Len(password) \in Nat /\ Len(password) <= Length
      /\ mask = Len(password) /\ ok' \in BOOLEAN
  BY LenProperties DEF PasswordInv, Menu!PasswordIsShown, Menu!SetPassword
<1>1. CASE Len(password) < Length
  <2>1. password' = Append(password, right) /\ mask' = Len(password) + 1
    BY <1>1 DEF Menu!SetPassword, Menu!MaskAfter
  <2>2. /\ Append(password, right) \in Seq(BOOLEAN)
        /\ Len(Append(password, right)) = Len(password) + 1
    BY <1>0, AppendProperties
  <2>3. password' \in Seq(BOOLEAN) /\ Len(password') = Len(password) + 1
    BY <2>1, <2>2
  <2> QED
    BY <1>0, <1>1, <2>1, <2>3, SeatAssumption DEF Menu!PasswordIsShown
<1>2. CASE ~(Len(password) < Length)
  <2>1. password' = [password EXCEPT ![Length] = right] /\ mask' = mask
    BY <1>2 DEF Menu!SetPassword, Menu!MaskAfter
  <2>2. /\ [password EXCEPT ![Length] = right] \in Seq(BOOLEAN)
        /\ Len([password EXCEPT ![Length] = right]) = Len(password)
    <3>1. Length \in 1 .. Len(password)
      BY <1>0, <1>2, SeatAssumption
    <3> QED
      BY <1>0, <3>1, ExceptSeq
  <2>3. password' \in Seq(BOOLEAN) /\ Len(password') = Len(password)
    BY <2>1, <2>2
  <2> QED
    BY <1>0, <2>1, <2>3 DEF Menu!PasswordIsShown
<1> QED
  BY <1>0, <1>1, <1>2

LEMMA PasswordStep == PasswordInv /\ [Menu!Next]_menuVars => PasswordInv'
<1> SUFFICES ASSUME PasswordInv, [Menu!Next]_menuVars
             PROVE  PasswordInv'
  OBVIOUS
<1>1. CASE UNCHANGED Menu!passwordVars /\ shown_page' \in
             {"static", "main", "password", "items", "setting"}
  BY <1>1 DEF PasswordInv, Menu!passwordVars, Menu!PasswordIsShown
<1>2. CASE Menu!Back
  BY <1>1, <1>2 DEF Menu!Back, Menu!Show, Menu!cb_btn_main_file, Menu!cb_btn_main_file_back,
     Menu!cb_btn_input_password_back, Menu!cb_btn_setting_back, Menu!cb_btn_back_setting_items
<1>3. CASE Menu!cb_btn_setting
  BY <1>3, EmptyIsShown DEF Menu!cb_btn_setting, Menu!Show, PasswordInv
<1>4. CASE Menu!cb_btn_input_password
  BY <1>4, DigitIsShown DEF Menu!cb_btn_input_password, Menu!ShowTitleOfInputPassword,
     PasswordInv
<1>5. CASE Menu!cb_btn_input_password_cancle
  BY <1>5, EmptyIsShown DEF Menu!cb_btn_input_password_cancle,
     Menu!ShowTitleOfInputPassword, PasswordInv
<1>6. CASE Menu!cb_btn_forget_password
  BY <1>6, EmptyIsShown DEF Menu!cb_btn_forget_password, Menu!ShowTitleOfInputPassword,
     PasswordInv
<1>7. CASE Menu!cb_btn_input_password_ok
  <2>1. ok = TRUE /\ title # "error"
    BY <1>7 DEF Menu!cb_btn_input_password_ok, PasswordInv, Menu!PasswordIsShown
  <2>2. /\ shown_page' \in {"static", "main", "password", "items", "setting"}
        /\ ok' \in BOOLEAN /\ title' \in {"none", "input", "error", "forget"}
        /\ title' = "error" => ok' = FALSE
    BY <1>7, <2>1 DEF Menu!cb_btn_input_password_ok, Menu!Refused,
       Menu!ShowTitleOfInputPassword, PasswordInv
  <2> QED
    BY <1>7, <2>2, EmptyIsShown DEF Menu!cb_btn_input_password_ok, PasswordInv
<1>8. CASE Menu!cb_btn_volume_adjust
  BY <1>1, <1>8 DEF Menu!cb_btn_volume_adjust, Menu!Show
<1>9. CASE \/ Menu!cb_btn_setting_d2d_intercomm_volume_sub
           \/ Menu!cb_btn_setting_d2d_intercomm_volume_inc
  BY <1>1, <1>9 DEF Menu!cb_btn_setting_d2d_intercomm_volume_sub,
     Menu!cb_btn_setting_d2d_intercomm_volume_inc, PasswordInv
<1>10. CASE Menu!SystemControl \/ Menu!bcu_6d5w_ctrl_wilson
  BY <1>1, <1>10 DEF Menu!SystemControl, Menu!bcu_6d5w_ctrl_wilson, PasswordInv
<1>11. CASE UNCHANGED menuVars
  BY <1>1, <1>11 DEF menuVars, Menu!passwordVars, PasswordInv
<1> QED
  BY <1>2, <1>3, <1>4, <1>5, <1>6, <1>7, <1>8, <1>9, <1>10, <1>11 DEF Menu!Next

-----------------------------------------------------------------------------
(* The menu: volume *)

Volumes == 0 .. Menu!Highest

VolumeInv ==
    /\ sub \in BOOLEAN /\ inc \in BOOLEAN /\ label \in Volumes
    /\ Menu!VolumeOnScale

(* What a package in the one-place buffer says is what the driver chose     *)
(* last, unless one was lost since the call began.                          *)
SpeakerInv ==
    /\ dev_vol = << >> \/ \E v \in Volumes : dev_vol = <<v>>
    /\ current_dia \in Volumes /\ session \in Menu!Sessions /\ missed \in BOOLEAN
    /\ session = "d2d" /\ missed = FALSE =>
         IF dev_vol = << >> THEN current_dia = d2d_volume ELSE dev_vol = <<d2d_volume>>

LEMMA ChangeIsSent ==
    ASSUME SpeakerInv, NEW v \in Volumes, d2d_volume' = v, Menu!SetDeviceVolumeCMDPackage
    PROVE  SpeakerInv'
<1>1. /\ dev_vol' = IF dev_vol = << >> THEN <<v>> ELSE dev_vol
      /\ missed' = (missed \/ dev_vol # << >>)
      /\ current_dia' = current_dia /\ session' = session
  BY DEF Menu!SetDeviceVolumeCMDPackage
<1>2. CASE dev_vol = << >>
  <2>1. dev_vol' = <<v>> /\ dev_vol' # << >>
    BY <1>1, <1>2
  <2> QED
    BY <1>1, <1>2, <2>1 DEF SpeakerInv
<1>3. CASE dev_vol # << >>
  <2>1. dev_vol' = dev_vol /\ missed' = TRUE
    BY <1>1, <1>3
  <2> QED
    BY <1>1, <2>1 DEF SpeakerInv
<1> QED
  BY <1>2, <1>3

LEMMA VolumeStep ==
    VolumeInv /\ SpeakerInv /\ [Menu!Next]_menuVars => (VolumeInv /\ SpeakerInv)'
<1> SUFFICES ASSUME VolumeInv, SpeakerInv, [Menu!Next]_menuVars
             PROVE  (VolumeInv /\ SpeakerInv)'
  OBVIOUS
<1>0. Volumes = 0 .. 4 /\ d2d_volume \in Volumes /\ Menu!Highest = 4
  <2>1. Menu!Highest = 4
    BY DEF Menu!Highest
  <2>2. d2d_volume \in 0 .. Menu!Highest
    BY DEF VolumeInv, Menu!VolumeOnScale
  <2> QED
    BY <2>1, <2>2 DEF Volumes
<1>1. ASSUME UNCHANGED <<Menu!speakerVars, d2d_volume>>
      PROVE  SpeakerInv'
  <2>1. /\ dev_vol' = dev_vol /\ current_dia' = current_dia /\ session' = session
        /\ missed' = missed /\ d2d_volume' = d2d_volume
    BY <1>1 DEF Menu!speakerVars
  <2>2. SpeakerInv'
    BY <2>1 DEF SpeakerInv
  <2> QED
    BY <2>2
<1>2. ASSUME UNCHANGED <<d2d_volume, sub, inc>>, label' \in {label, d2d_volume},
             shown_page' = "setting" => label' = d2d_volume
      PROVE  VolumeInv'
  BY <1>0, <1>2 DEF VolumeInv, Menu!VolumeOnScale
<1>3. CASE Menu!Back
  <2>1. /\ UNCHANGED <<d2d_volume, sub, inc, Menu!speakerVars>>
        /\ shown_page' # "setting" /\ label' \in {label, d2d_volume}
    BY <1>3 DEF Menu!Back, Menu!Show, Menu!cb_btn_main_file, Menu!cb_btn_main_file_back,
       Menu!cb_btn_input_password_back, Menu!cb_btn_setting_back,
       Menu!cb_btn_back_setting_items
  <2> QED
    BY <1>1, <1>2, <2>1
<1>4. CASE \/ Menu!cb_btn_setting \/ Menu!cb_btn_input_password
           \/ Menu!cb_btn_input_password_cancle \/ Menu!cb_btn_forget_password
           \/ Menu!cb_btn_input_password_ok
  <2>1. /\ UNCHANGED <<Menu!volumeVars, Menu!speakerVars>>
        /\ shown_page' # "setting"
    BY <1>4 DEF Menu!cb_btn_setting, Menu!Show, Menu!cb_btn_input_password,
       Menu!cb_btn_input_password_cancle, Menu!cb_btn_forget_password,
       Menu!cb_btn_input_password_ok, Menu!Refused
  <2> QED
    BY <1>1, <1>2, <2>1 DEF Menu!volumeVars
<1>5. CASE Menu!cb_btn_volume_adjust
  BY <1>1, <1>2, <1>5 DEF Menu!cb_btn_volume_adjust
<1>6. ASSUME NEW v \in Volumes, d2d_volume' = v, sub' = (v # 0), inc' = (v # 4),
             Menu!Adjusted
      PROVE  (VolumeInv /\ SpeakerInv)'
  <2>1. SpeakerInv'
    BY <1>6, ChangeIsSent DEF Menu!Adjusted
  <2>2. label' = v
    BY <1>6 DEF Menu!Adjusted
  <2> QED
    <3>1. (v # 0 <=> v > 0) /\ (v # 4 <=> v < 4)
      BY <1>0
    <3>2. (sub' <=> v > 0) /\ (inc' <=> v < 4) /\ sub' \in BOOLEAN /\ inc' \in BOOLEAN
      BY <1>6, <3>1, Zenon
    <3>3. (sub' <=> d2d_volume' > 0) /\ (inc' <=> d2d_volume' < Menu!Highest)
      BY <1>0, <1>6, <3>2, Zenon
    <3>4. label' \in Volumes /\ d2d_volume' \in 0 .. Menu!Highest
          /\ label' = d2d_volume'
      BY <1>0, <1>6, <2>2
    <3>5. Menu!Highest' = Menu!Highest
      BY DEF Menu!Highest
    <3> QED
      BY <2>1, <3>2, <3>3, <3>4, <3>5 DEF VolumeInv, Menu!VolumeOnScale, Volumes
<1>7. CASE Menu!cb_btn_setting_d2d_intercomm_volume_sub
  <2>1. sub = TRUE /\ d2d_volume > 0
    BY <1>7 DEF Menu!cb_btn_setting_d2d_intercomm_volume_sub, VolumeInv, Menu!VolumeOnScale
  <2> PICK v \in Volumes : v = d2d_volume - 1
    BY <1>0, <2>1
  <2>2. d2d_volume' = v /\ sub' = (v # 0) /\ inc' = (inc \/ v < 4)
    BY <1>0, <1>7 DEF Menu!cb_btn_setting_d2d_intercomm_volume_sub, Menu!Lower
  <2>3. v < 4 /\ v # 4
    BY <1>0
  <2>4. inc' = (v # 4)
    BY <2>2, <2>3
  <2> QED
    BY <1>6, <1>7, <2>2, <2>4 DEF Menu!cb_btn_setting_d2d_intercomm_volume_sub
<1>8. CASE Menu!cb_btn_setting_d2d_intercomm_volume_inc
  <2>1. inc = TRUE /\ d2d_volume < 4
    BY <1>0, <1>8
       DEF Menu!cb_btn_setting_d2d_intercomm_volume_inc, VolumeInv, Menu!VolumeOnScale
  <2> PICK v \in Volumes : v = d2d_volume + 1
    BY <1>0, <2>1
  <2>2. d2d_volume' = v /\ sub' = (sub \/ d2d_volume = 0) /\ inc' = (v # 4)
    BY <1>0, <1>8 DEF Menu!cb_btn_setting_d2d_intercomm_volume_inc
  <2>3. (sub <=> d2d_volume > 0) /\ v # 0
    BY <1>0 DEF VolumeInv, Menu!VolumeOnScale
  <2>4. sub' = (v # 0)
    <3>1. sub \/ d2d_volume = 0
      BY <1>0, <2>3
    <3> QED
      BY <2>2, <2>3, <3>1
  <2> QED
    BY <1>6, <1>8, <2>2, <2>4 DEF Menu!cb_btn_setting_d2d_intercomm_volume_inc
<1>9. CASE Menu!SystemControl
  <2>1. /\ UNCHANGED <<shown_page, Menu!volumeVars, session, missed>>
        /\ current_dia' = dev_vol[1] /\ dev_vol' = << >> /\ dev_vol # << >>
    BY <1>9 DEF Menu!SystemControl
  <2>2. PICK v \in Volumes : dev_vol = <<v>>
    BY <2>1 DEF SpeakerInv
  <2>3. current_dia' = v
    BY <2>1, <2>2
  <2>4. session = "d2d" /\ missed = FALSE => v = d2d_volume
    <3>1. <<v>> = <<d2d_volume>> => v = d2d_volume
      OBVIOUS
    <3> QED
      BY <2>1, <2>2, <3>1 DEF SpeakerInv
  <2>5. SpeakerInv'
    BY <2>1, <2>3, <2>4 DEF SpeakerInv, Menu!volumeVars
  <2> QED
    BY <2>1, <2>5, <1>2 DEF Menu!volumeVars, VolumeInv, Menu!VolumeOnScale
<1>10. CASE Menu!bcu_6d5w_ctrl_wilson
  <2>1. PICK s \in Menu!Sessions \ {"start"} :
           session' = s /\ current_dia' = Menu!EnterVolume(s)
    BY <1>10 DEF Menu!bcu_6d5w_ctrl_wilson
  <2>2. /\ UNCHANGED <<shown_page, Menu!volumeVars, dev_vol>>
        /\ missed' = (dev_vol # << >>)
    BY <1>10 DEF Menu!bcu_6d5w_ctrl_wilson
  <2>3. Menu!EnterVolume(s) \in Volumes /\ (s = "d2d" => Menu!EnterVolume(s) = d2d_volume)
    BY <1>0, <2>1 DEF Menu!EnterVolume, Menu!Sessions
  <2>4. SpeakerInv'
    BY <2>1, <2>2, <2>3 DEF SpeakerInv, Menu!volumeVars
  <2> QED
    BY <2>2, <2>4, <1>2 DEF Menu!volumeVars, VolumeInv, Menu!VolumeOnScale
<1>11. CASE UNCHANGED menuVars
  BY <1>1, <1>2, <1>11
     DEF menuVars, Menu!speakerVars, VolumeInv, Menu!VolumeOnScale
<1> QED
  BY <1>3, <1>4, <1>5, <1>7, <1>8, <1>9, <1>10, <1>11 DEF Menu!Next

LEMMA MenuInvGives ==
    ASSUME PasswordInv, VolumeInv, SpeakerInv
    PROVE  Menu!TypeOK /\ PagesTellState /\ CallIsAsLoudAsChosen
<1>1. dev_vol \in Seq(Volumes) /\ Len(dev_vol) <= 1
  <2>1. CASE dev_vol = << >>
    BY <2>1
  <2>2. ASSUME NEW v \in Volumes, dev_vol = <<v>>
        PROVE  dev_vol \in Seq(Volumes) /\ Len(dev_vol) <= 1
    BY <2>2
  <2> QED
    BY <2>1, <2>2 DEF SpeakerInv
<1>2. Menu!TypeOK
  BY <1>1 DEF Menu!TypeOK, PasswordInv, VolumeInv, SpeakerInv, Volumes
<1>3. PagesTellState
  BY DEF PagesTellState, Menu!PagesTellState, PasswordInv, VolumeInv
<1>4. CallIsAsLoudAsChosen
  BY DEF CallIsAsLoudAsChosen, Menu!CallIsAsLoudAsChosen, SpeakerInv
<1> QED
  BY <1>2, <1>3, <1>4

LEMMA MenuInvInit == Menu!Init => PasswordInv /\ VolumeInv /\ SpeakerInv
<1> SUFFICES ASSUME Menu!Init
             PROVE  PasswordInv /\ VolumeInv /\ SpeakerInv
  OBVIOUS
<1>1. << >> \in Seq(BOOLEAN) /\ Len(<< >>) = 0
  BY EmptySeq
<1>2. PasswordInv
  BY <1>1, SeatAssumption DEF Menu!Init, PasswordInv, Menu!PasswordIsShown
<1>3. VolumeInv
  BY DEF Menu!Init, VolumeInv, Menu!VolumeOnScale, Volumes, Menu!Highest
<1>4. SpeakerInv
  <2>1. 2 \in Volumes /\ "start" \in Menu!Sessions
    BY DEF Volumes, Menu!Highest, Menu!Sessions
  <2> QED
    BY <2>1 DEF Menu!Init, SpeakerInv
<1> QED
  BY <1>2, <1>3, <1>4

-----------------------------------------------------------------------------
(* A metal key *)

Doing == {"nothing", "add", "store"}
Values == 0 .. Cap + 2
Counts == [does : Doing, value : Values, old : BOOLEAN]

KeyTypes ==
    /\ key \in {"pa", "pc", "cc"} /\ down \in BOOLEAN
    /\ flag \in Values /\ pressed \in {0, 1}
    /\ counting \in Counts /\ sampler \in Counts /\ at \in {"count", "ask", "wait"}
    /\ low \in BOOLEAN /\ given \in {0, 1}

(* How far each thread may take the counter beyond its end.  A thread that  *)
(* is not interrupted compares the counter it adds to; the other compared   *)
(* it before at most one more addition.                                     *)
Bounded ==
    /\ flag <= Cap + 2
    /\ counting.value <= Cap + 1 /\ sampler.value <= Cap + 2
    /\ counting.does = "add" => flag <= Cap
    /\ sampler.does = "add" => flag <= Cap + 1
    /\ low = FALSE => /\ flag <= Cap + 1 /\ sampler.value <= Cap
                      /\ sampler.does = "add" => flag < Cap

(* What a thread has read tells the pin and the counter as they are, unless *)
(* one of them has changed since.                                           *)
Current(c) ==
    c.old = FALSE =>
      /\ c.does = "add" => down = TRUE
      /\ c.does = "store" => IF down = TRUE THEN flag >= 2 => c.value >= 2
                             ELSE c.value = 0

(* After an event the key is latched until the counter says it is released. *)
Latched ==
    given = 1 => IF down = TRUE THEN flag >= 2 /\ pressed = 1
                 ELSE flag < 2 \/ pressed = 1

KeyInv == KeyTypes /\ Bounded /\ Current(counting) /\ Current(sampler) /\ Latched

LEMMA OvertakenIsOld ==
    ASSUME NEW c \in Counts
    PROVE  /\ Key!Overtaken(c) \in Counts
           /\ Key!Overtaken(c).does = c.does /\ Key!Overtaken(c).value = c.value
           /\ Key!Overtaken(c).old = FALSE => c.does = "nothing"
<1>1. (c.does # "nothing") \in BOOLEAN
  OBVIOUS
<1>2. PICK b \in BOOLEAN : b = (c.does # "nothing")
  BY <1>1
<1>3. Key!Overtaken(c) = [c EXCEPT !.old = b]
  BY <1>2 DEF Key!Overtaken
<1> QED
  BY <1>2, <1>3 DEF Counts

LEMMA LookedIsCurrent ==
    ASSUME KeyTypes
    PROVE  /\ Key!Looked \in Counts /\ Key!Looked.value <= Cap
           /\ Key!Looked.does = "add" => down = TRUE /\ flag < Cap
           /\ Key!Looked.does = "store" => IF down = TRUE THEN Key!Looked.value = Cap
                                           ELSE Key!Looked.value = 0
<1>0. Cap \in Values /\ 0 \in Values /\ Cap \in Nat /\ down \in BOOLEAN
  BY SeatAssumption DEF Values, KeyTypes
<1>1. CASE down = TRUE /\ flag < Cap
  <2>1. Key!Looked = [does |-> "add", value |-> 0, old |-> FALSE]
    BY <1>1 DEF Key!Looked, Key!Idle
  <2> QED
    BY <1>0, <1>1, <2>1 DEF Counts, Doing
<1>2. CASE down = TRUE /\ ~(flag < Cap)
  <2>1. Key!Looked = [does |-> "store", value |-> Cap, old |-> FALSE]
    BY <1>2 DEF Key!Looked, Key!Idle
  <2> QED
    BY <1>0, <1>2, <2>1 DEF Counts, Doing
<1>3. CASE down = FALSE
  <2>1. Key!Looked = [does |-> "store", value |-> 0, old |-> FALSE]
    BY <1>3 DEF Key!Looked, Key!Idle
  <2> QED
    BY <1>0, <1>3, <2>1 DEF Counts, Doing
<1> QED
  BY <1>0, <1>1, <1>2, <1>3

LEMMA AddedIsNext ==
    ASSUME KeyTypes, NEW c \in Counts, flag <= Cap + 1
    PROVE  /\ Key!Added(c) \in Counts /\ Key!Added(c).value = flag + 1
           /\ Key!Added(c).does = "store" /\ Key!Added(c).old = c.old
<1>1. PICK v \in Values : v = flag + 1
  BY SeatAssumption DEF KeyTypes, Values
<1>2. Key!Added(c) = [c EXCEPT !.does = "store", !.value = v]
  BY <1>1 DEF Key!Added
<1> QED
  BY <1>1, <1>2 DEF Counts, Doing

LEMMA IdleIsCount ==
    Key!Idle \in Counts /\ Key!Idle.does = "nothing" /\ Key!Idle.value = 0
BY SeatAssumption DEF Key!Idle, Counts, Doing, Values

(* A reading that is not old keeps what an event has latched.               *)
LEMMA StoreKeepsLatch ==
    ASSUME KeyInv, NEW c \in {counting, sampler}, Key!Count(c), UNCHANGED <<down, pressed>>
    PROVE  Latched' /\ flag' = c.value /\ given' \in {0, 1}
<1>1. /\ c.does = "store" /\ flag' = c.value /\ c \in Counts /\ Current(c)
      /\ given' = IF c.old = TRUE THEN 0 ELSE given
  BY DEF Key!Count, KeyInv, KeyTypes, Counts
<1>2. CASE c.old = TRUE
  BY <1>1, <1>2 DEF Latched
<1>3. CASE c.old = FALSE
  BY <1>1, <1>3, SeatAssumption DEF Current, KeyInv, Latched, KeyTypes, Counts, Values
<1> QED
  BY <1>1, <1>2, <1>3 DEF Counts

LEMMA ControlCounts == KeyInv /\ Key!GetPAAllOuterButtonState => KeyInv'
<1> SUFFICES ASSUME KeyInv, Key!GetPAAllOuterButtonState
             PROVE  KeyInv'
  OBVIOUS
<1>0. /\ KeyTypes /\ Bounded /\ UNCHANGED <<key, down, pressed, low>>
      /\ low = TRUE \/ sampler = Key!Idle
  BY DEF KeyInv, Key!GetPAAllOuterButtonState, Key!keyVars, Key!ControlRuns, KeyTypes
<1>1. CASE counting = Key!Idle /\ counting' = Key!Looked /\ UNCHANGED <<flag, sampler, at, given>>
  <2>1. /\ counting' \in Counts /\ counting'.value <= Cap
        /\ counting'.does = "add" => down = TRUE /\ flag < Cap
        /\ counting'.does = "store" => IF down = TRUE THEN counting'.value = Cap
                                       ELSE counting'.value = 0
    BY <1>0, <1>1, LookedIsCurrent
  <2>2. Current(counting)'
    BY <1>0, <1>1, <2>1, SeatAssumption DEF Current
  <2> PICK v \in Values : v = counting'.value
    BY <2>1 DEF Counts
  <2>3. v <= Cap + 1 /\ (flag < Cap => flag <= Cap)
    BY <1>0, <2>1, SeatAssumption DEF KeyTypes, Values
  <2>4. Bounded'
    BY <1>0, <1>1, <2>1, <2>3 DEF Bounded
  <2> QED
    BY <1>0, <1>1, <2>1, <2>2, <2>4 DEF KeyInv, KeyTypes, Current, Latched
<1>2. CASE /\ counting.does = "add" /\ counting' = Key!Added(counting)
           /\ UNCHANGED <<flag, sampler, at, given>>
  <2>1. /\ counting' \in Counts /\ counting'.does = "store"
        /\ counting'.old = counting.old
    BY <1>0, <1>2, AddedIsNext, SeatAssumption DEF Bounded, KeyTypes, Values
  <2> PICK v : v = flag + 1
    OBVIOUS
  <2>2. counting'.value = v
    BY <1>0, <1>2, AddedIsNext, SeatAssumption DEF Bounded, KeyTypes, Values
  <2>3. v <= Cap + 1 /\ (flag >= 2 => v >= 2)
    BY <1>0, <1>2, SeatAssumption DEF Bounded, KeyTypes, Values
  <2>4. Current(counting)'
    BY <1>0, <1>2, <2>1, <2>2, <2>3 DEF KeyInv, Current
  <2> QED
    BY <1>0, <1>2, <2>1, <2>2, <2>3, <2>4 DEF KeyInv, KeyTypes, Bounded, Current, Latched
<1>3. CASE /\ Key!Count(counting) /\ counting' = Key!Idle
           /\ sampler' = Key!Overtaken(sampler) /\ at' = "ask"
  <2>1. Latched' /\ flag' = counting.value /\ given' \in {0, 1}
    BY <1>0, <1>3, StoreKeepsLatch
  <2>2. /\ sampler' \in Counts /\ sampler'.does = sampler.does
        /\ sampler'.value = sampler.value
        /\ sampler'.old = FALSE => sampler'.does = "nothing"
    BY <1>0, <1>3, OvertakenIsOld DEF KeyTypes
  <2>3. counting.value <= Cap + 1 /\ counting.value \in Values
    BY <1>0 DEF Bounded, KeyTypes, Counts
  <2>4. KeyTypes'
    BY <1>0, <1>3, <2>1, <2>2, <2>3, IdleIsCount DEF KeyTypes, Values
  <2>5. Bounded'
    BY <1>0, <1>3, <2>1, <2>2, <2>3, IdleIsCount, SeatAssumption DEF KeyTypes, Bounded, Values
  <2> QED
    BY <1>3, <2>1, <2>2, <2>4, <2>5, IdleIsCount DEF KeyInv, Current
<1> QED
  BY <1>1, <1>2, <1>3 DEF Key!GetPAAllOuterButtonState

LEMMA SamplerCounts == KeyInv /\ Key!GetPAAllOuterButtonState2 => KeyInv'
<1> SUFFICES ASSUME KeyInv, Key!GetPAAllOuterButtonState2
             PROVE  KeyInv'
  OBVIOUS
<1>0. /\ KeyTypes /\ Bounded /\ UNCHANGED <<key, down, pressed, at, low>>
      /\ low = TRUE => counting = Key!Idle
  BY DEF KeyInv, Key!GetPAAllOuterButtonState2, Key!keyVars, Key!SamplerRuns, KeyTypes
<1>1. CASE sampler = Key!Idle /\ sampler' = Key!Looked /\ UNCHANGED <<flag, counting, given>>
  <2>1. /\ sampler' \in Counts /\ sampler'.value <= Cap
        /\ sampler'.does = "add" => down = TRUE /\ flag < Cap
        /\ sampler'.does = "store" => IF down = TRUE THEN sampler'.value = Cap
                                      ELSE sampler'.value = 0
    BY <1>0, <1>1, LookedIsCurrent
  <2>2. Current(sampler)'
    BY <1>0, <1>1, <2>1, SeatAssumption DEF Current
  <2> PICK v \in Values : v = sampler'.value
    BY <2>1 DEF Counts
  <2>3. v <= Cap /\ v <= Cap + 2 /\ (flag < Cap => flag <= Cap + 1)
    BY <1>0, <2>1, SeatAssumption DEF KeyTypes, Values
  <2>4. Bounded'
    BY <1>0, <1>1, <2>1, <2>3 DEF Bounded
  <2> QED
    BY <1>0, <1>1, <2>1, <2>2, <2>4 DEF KeyInv, KeyTypes, Current, Latched
<1>2. CASE /\ sampler.does = "add" /\ sampler' = Key!Added(sampler)
           /\ UNCHANGED <<flag, counting, given>>
  <2>1. /\ sampler' \in Counts /\ sampler'.does = "store"
        /\ sampler'.old = sampler.old
    BY <1>0, <1>2, AddedIsNext, SeatAssumption DEF Bounded, KeyTypes, Values
  <2> PICK v : v = flag + 1
    OBVIOUS
  <2>2. sampler'.value = v
    BY <1>0, <1>2, AddedIsNext, SeatAssumption DEF Bounded, KeyTypes, Values
  <2>3. v <= Cap + 2 /\ (flag >= 2 => v >= 2) /\ (low = FALSE => v <= Cap)
    BY <1>0, <1>2, SeatAssumption DEF Bounded, KeyTypes, Values
  <2>4. Current(sampler)'
    BY <1>0, <1>2, <2>1, <2>2, <2>3 DEF KeyInv, Current
  <2> QED
    BY <1>0, <1>2, <2>1, <2>2, <2>3, <2>4 DEF KeyInv, KeyTypes, Bounded, Current, Latched
<1>3. CASE /\ Key!Count(sampler) /\ sampler' = Key!Idle
           /\ counting' = Key!Overtaken(counting)
  <2>1. Latched' /\ flag' = sampler.value /\ given' \in {0, 1}
    BY <1>0, <1>3, StoreKeepsLatch
  <2>2. /\ counting' \in Counts /\ counting'.does = counting.does
        /\ counting'.value = counting.value
        /\ counting'.old = FALSE => counting'.does = "nothing"
    BY <1>0, <1>3, OvertakenIsOld DEF KeyTypes
  <2>3. sampler.value <= Cap + 2 /\ sampler.value \in Values
    BY <1>0 DEF Bounded, KeyTypes, Counts
  <2>4. KeyTypes'
    BY <1>0, <1>3, <2>1, <2>2, <2>3, IdleIsCount DEF KeyTypes, Values
  <2>5. Bounded'
    BY <1>0, <1>3, <2>1, <2>2, <2>3, IdleIsCount, SeatAssumption DEF KeyTypes, Bounded, Values
  <2> QED
    BY <1>3, <2>1, <2>2, <2>4, <2>5, IdleIsCount DEF KeyInv, Current
<1> QED
  BY <1>1, <1>2, <1>3 DEF Key!GetPAAllOuterButtonState2

LEMMA PressKeepsInv == KeyInv /\ Key!PressOrRelease => KeyInv'
<1> SUFFICES ASSUME KeyInv, Key!PressOrRelease
             PROVE  KeyInv'
  OBVIOUS
<1>1. /\ down' = ~down /\ given' = IF down THEN given ELSE 0
      /\ counting' = Key!Overtaken(counting) /\ sampler' = Key!Overtaken(sampler)
      /\ UNCHANGED <<key, flag, pressed, at, low>>
      /\ KeyTypes /\ Bounded /\ Latched
  BY DEF Key!PressOrRelease, KeyInv
<1>2. /\ counting' \in Counts /\ counting'.does = counting.does
      /\ counting'.value = counting.value
      /\ counting'.old = FALSE => counting'.does = "nothing"
  BY <1>1, OvertakenIsOld DEF KeyTypes
<1>3. /\ sampler' \in Counts /\ sampler'.does = sampler.does
      /\ sampler'.value = sampler.value
      /\ sampler'.old = FALSE => sampler'.does = "nothing"
  BY <1>1, OvertakenIsOld DEF KeyTypes
<1>4. (down = TRUE /\ down' = FALSE) \/ (down = FALSE /\ down' = TRUE /\ given' = 0)
  BY <1>1 DEF KeyTypes
<1>5. Latched' /\ given' \in {0, 1}
  BY <1>1, <1>4 DEF Latched, KeyTypes
<1>6. Bounded'
  BY <1>1, <1>2, <1>3 DEF Bounded
<1>7. KeyTypes'
  BY <1>1, <1>2, <1>3, <1>4, <1>5 DEF KeyTypes
<1> QED
  BY <1>2, <1>3, <1>5, <1>6, <1>7 DEF KeyInv, Current

LEMMA ProbeKeepsInv == KeyInv /\ Key!Probe => KeyInv'
<1> SUFFICES ASSUME KeyInv, Key!Probe
             PROVE  KeyInv'
  OBVIOUS
<1>1. /\ UNCHANGED <<key, down, flag, counting, sampler, low>> /\ at' = "count"
      /\ KeyTypes /\ Latched
  BY DEF Key!Probe, Key!keyVars, KeyInv
<1>2. Latched' /\ pressed' \in {0, 1} /\ given' \in {0, 1}
  <2>1. CASE UNCHANGED <<pressed, given>>
    BY <1>1, <2>1 DEF Latched, KeyTypes
  <2>2. CASE Key!GetExternButtonState
    <3>1. CASE flag >= 2 /\ pressed = 0
      <4>1. given = 0
        BY <1>1, <3>1 DEF Latched, KeyTypes, Values
      <4>2. given' = 1 /\ pressed' = 1
        BY <2>2, <3>1, <4>1 DEF Key!GetExternButtonState
      <4> QED
        BY <1>1, <3>1, <4>2 DEF Latched
    <3>2. CASE ~(flag >= 2 /\ pressed = 0)
      <4>1. pressed' = (IF flag < 2 THEN 0 ELSE pressed) /\ given' = given
        BY <2>2, <3>2 DEF Key!GetExternButtonState
      <4> QED
        BY <1>1, <3>2, <4>1, SeatAssumption DEF Latched, KeyTypes, Values
    <3> QED
      BY <3>1, <3>2
  <2> QED
    BY <2>1, <2>2 DEF Key!Probe
<1>3. KeyTypes'
  BY <1>1, <1>2 DEF KeyTypes
<1> QED
  BY <1>1, <1>2, <1>3 DEF KeyInv, Bounded, Current

LEMMA KeyInvStep == KeyInv /\ [Key!Next]_keyVars => KeyInv'
<1> SUFFICES ASSUME KeyInv, [Key!Next]_keyVars
             PROVE  KeyInv'
  OBVIOUS
<1>1. CASE Key!AlarmTSToChangeScreen \/ Key!AlarmDone \/ UNCHANGED keyVars
  <2>1. UNCHANGED <<key, down, flag, pressed, counting, sampler, low, given>>
        /\ at' \in {at, "wait", "ask"}
    BY <1>1 DEF Key!AlarmTSToChangeScreen, Key!AlarmDone, Key!keyVars, keyVars
  <2> QED
    BY <2>1 DEF KeyInv, KeyTypes, Bounded, Current, Latched
<1>2. CASE Key!DemaoEntry
  <2>1. /\ UNCHANGED <<key, down, flag, pressed, counting, sampler, at, given>>
        /\ low' = TRUE
    BY <1>2 DEF Key!DemaoEntry, Key!keyVars, Key!PthreadPriorityChangeForSchedRr
  <2> QED
    BY <2>1 DEF KeyInv, KeyTypes, Bounded, Current, Latched
<1> QED
  BY <1>1, <1>2, ControlCounts, SamplerCounts, PressKeepsInv, ProbeKeepsInv DEF Key!Next

LEMMA KeyInvInit == Key!Init => KeyInv
<1> SUFFICES ASSUME Key!Init
             PROVE  KeyInv
  OBVIOUS
<1>1. KeyTypes
  <2>1. 0 \in Values
    BY SeatAssumption DEF Values
  <2> QED
    BY <2>1, IdleIsCount DEF Key!Init, KeyTypes
<1>2. Bounded /\ Current(counting) /\ Current(sampler) /\ Latched
  BY IdleIsCount, SeatAssumption DEF Key!Init, Bounded, Current, Latched
<1> QED
  BY <1>1, <1>2 DEF KeyInv

LEMMA KeyInvGives == KeyInv => Key!TypeOK /\ PressGivesOneEvent
<1> SUFFICES ASSUME KeyInv
             PROVE  Key!TypeOK /\ PressGivesOneEvent
  OBVIOUS
<1> QED
  BY DEF KeyInv, KeyTypes, Key!TypeOK, Key!Steps, Counts, Doing, Values,
     PressGivesOneEvent, Key!PressGivesOneEvent

-----------------------------------------------------------------------------
(* The firmware *)

(* The file the server has open is still being written, and has moved with  *)
(* its name.                                                                *)
WriterInv == writer \in Flash!Names => file[writer] = "partial"

(* Where an image that works is to be found, unless the seat was told not   *)
(* to check or the power went in a VERIFY.                                  *)
ImageInv ==
    unchecked = FALSE /\ cut = FALSE =>
      /\ step \in {"wait", "answer"} => file["eamp"] \in Flash!Works
      /\ step = "take new" => dev_status = "FAIL"
      /\ step \in {"take new", "verify", "go back"} =>
           file[IF mounted = TRUE THEN "eamp_old" ELSE "eamp"] \in Flash!Works

FlashInv == Flash!TypeOK /\ WriterInv /\ ImageInv

LEMMA RenameMoves ==
    ASSUME Flash!TypeOK, WriterInv, NEW from \in Flash!Names, NEW to \in Flash!Names,
           from # to, Flash!Rename(from, to)
    PROVE  /\ file' \in [Flash!Names -> Flash!Images]
           /\ writer' \in Flash!Names \cup {"none", "unlinked"}
           /\ WriterInv'
           /\ \A n \in Flash!Names \ {from, to} : file'[n] = file[n]
           /\ mounted = FALSE => file' = file
           /\ mounted = TRUE /\ file[from] # "none" => file'[to] = file[from]
           /\ mounted = TRUE /\ file[from] = "none" => file' = file
<1>0. /\ file \in [Flash!Names -> Flash!Images] /\ mounted \in BOOLEAN
      /\ writer \in Flash!Names \cup {"none", "unlinked"}
  BY DEF Flash!TypeOK
<1>1. CASE mounted = TRUE /\ file[from] # "none"
  <2>1. /\ file' = [file EXCEPT ![to] = file[from], ![from] = "none"]
        /\ writer' = CASE writer = from -> to [] writer = to -> "unlinked"
                       [] OTHER -> writer
    BY <1>1 DEF Flash!Rename
  <2>2. /\ file' \in [Flash!Names -> Flash!Images] /\ file'[to] = file[from]
        /\ \A n \in Flash!Names \ {from, to} : file'[n] = file[n]
    BY <1>0, <2>1 DEF Flash!Images
  <2>3. /\ writer' \in Flash!Names \cup {"none", "unlinked"}
        /\ \/ writer' = to /\ writer = from
           \/ writer' \notin Flash!Names
           \/ writer' = writer /\ writer' \notin {from, to}
    <3>1. CASE writer = from
      BY <2>1, <3>1
    <3>2. CASE writer = to
      BY <2>1, <3>2 DEF Flash!Names
    <3>3. CASE writer \notin {from, to}
      BY <1>0, <2>1, <3>3
    <3> QED
      BY <3>1, <3>2, <3>3
  <2>4. WriterInv'
    BY <2>2, <2>3 DEF WriterInv
  <2> QED
    BY <1>1, <2>2, <2>3, <2>4
<1>2. CASE ~(mounted = TRUE /\ file[from] # "none")
  <2>1. UNCHANGED <<file, writer>>
    BY <1>0, <1>2 DEF Flash!Rename
  <2> QED
    BY <1>0, <1>2, <2>1 DEF WriterInv
<1> QED
  BY <1>1, <1>2

LEMMA FlashInvStep == FlashInv /\ [Flash!Next]_flashVars => FlashInv'
<1> SUFFICES ASSUME FlashInv, [Flash!Next]_flashVars
             PROVE  FlashInv'
  OBVIOUS
<1>0. /\ Flash!TypeOK /\ WriterInv /\ ImageInv
      /\ {"eamp", "eamp_old", "eamp_new"} = Flash!Names
      /\ {"before", "good"} = Flash!Works
      /\ Flash!Images = {"before", "good", "bad", "partial", "none"}
  BY DEF FlashInv, Flash!Names, Flash!Works, Flash!Images
<1>1. CASE Flash!tftp_server_open
  <2>1. /\ writer' = "eamp_new" /\ file' = [file EXCEPT !["eamp_new"] = "partial"]
        /\ UNCHANGED <<mounted, serving, tftp_created, step, dev_status, unchecked, cut>>
    BY <1>1 DEF Flash!tftp_server_open
  <2> QED
    BY <1>0, <2>1 DEF FlashInv, Flash!TypeOK, WriterInv, ImageInv
<1>2. CASE Flash!tftp_server_close
  <2>1. PICK image \in {"good", "bad", "partial"} :
          file' = IF writer \in Flash!Names THEN [file EXCEPT ![writer] = image] ELSE file
    BY <1>2 DEF Flash!tftp_server_close
  <2>2. /\ writer' = "none"
        /\ UNCHANGED <<mounted, serving, tftp_created, step, dev_status, unchecked, cut>>
    BY <1>2 DEF Flash!tftp_server_close
  <2>3. file' \in [Flash!Names -> Flash!Images]
    BY <1>0, <2>1 DEF Flash!TypeOK
  <2>4. \A n \in Flash!Names : file[n] \in Flash!Works => file'[n] = file[n]
    BY <1>0, <2>1 DEF Flash!TypeOK, WriterInv
  <2> QED
    BY <1>0, <2>2, <2>3, <2>4 DEF FlashInv, Flash!TypeOK, WriterInv, ImageInv
<1>3. CASE Flash!MountYaffs0 \/ Flash!Update
  <2>1. /\ step = "wait" /\ step' = "answer" /\ dev_status' \in {"FAIL", "SUCCESS"}
        /\ UNCHANGED <<file, writer, unchecked, cut>>
    BY <1>3 DEF Flash!MountYaffs0, Flash!Update, Flash!Command
  <2>2. mounted' \in BOOLEAN /\ serving' \in BOOLEAN /\ tftp_created' \in BOOLEAN
    BY <1>0, <1>3 DEF Flash!MountYaffs0, Flash!Update, Flash!TftpServerAPI,
       Flash!tftp_server_start, Flash!TypeOK
  <2> QED
    BY <1>0, <2>1, <2>2 DEF FlashInv, Flash!TypeOK, WriterInv, ImageInv
<1>4. CASE Flash!KeepOld
  <2>1. /\ step = "wait" /\ step' = "take new" /\ dev_status' \in {"FAIL", "SUCCESS"}
        /\ Flash!Rename("eamp", "eamp_old")
        /\ unchecked' = (unchecked \/ dev_status' = "SUCCESS")
        /\ UNCHANGED <<mounted, serving, tftp_created, cut>>
    BY <1>4 DEF Flash!KeepOld, Flash!Command
  <2>2. /\ file' \in [Flash!Names -> Flash!Images]
        /\ writer' \in Flash!Names \cup {"none", "unlinked"} /\ WriterInv'
        /\ mounted = FALSE => file' = file
        /\ mounted = TRUE /\ file["eamp"] # "none" => file'["eamp_old"] = file["eamp"]
    BY <1>0, <2>1, RenameMoves
  <2>3. unchecked' \in BOOLEAN
        /\ (unchecked' = FALSE => unchecked = FALSE /\ dev_status' = "FAIL")
    BY <1>0, <2>1 DEF Flash!TypeOK
  <2>4. ImageInv'
    BY <1>0, <2>1, <2>2, <2>3 DEF ImageInv, Flash!TypeOK
  <2> QED
    BY <1>0, <2>1, <2>2, <2>3, <2>4 DEF FlashInv, Flash!TypeOK
<1>5. CASE Flash!TakeNew
  <2>1. /\ step = "take new" /\ Flash!Rename("eamp_new", "eamp")
        /\ step' = IF dev_status = "SUCCESS" THEN "answer" ELSE "verify"
        /\ UNCHANGED <<mounted, serving, tftp_created, dev_status, unchecked, cut>>
    BY <1>5 DEF Flash!TakeNew
  <2>2. /\ file' \in [Flash!Names -> Flash!Images]
        /\ writer' \in Flash!Names \cup {"none", "unlinked"} /\ WriterInv'
        /\ mounted = FALSE => file' = file
        /\ file'["eamp_old"] = file["eamp_old"]
    BY <1>0, <2>1, RenameMoves
  <2>3. ImageInv'
    BY <1>0, <2>1, <2>2 DEF ImageInv, Flash!TypeOK
  <2> QED
    BY <1>0, <2>1, <2>2, <2>3 DEF FlashInv, Flash!TypeOK
<1>6. CASE Flash!VerifyFile
  <2>1. /\ UNCHANGED <<file, mounted, serving, tftp_created, writer, unchecked, cut>>
        /\ step = "verify"
        /\ \/ file["eamp"] = "good" /\ step' = "answer" /\ dev_status' = "SUCCESS"
           \/ step' = "go back" /\ dev_status' = "FAIL"
           \/ step' = "stuck" /\ dev_status' = dev_status
    BY <1>6 DEF Flash!VerifyFile, Flash!CrcAgrees
  <2> QED
    BY <1>0, <2>1 DEF FlashInv, Flash!TypeOK, WriterInv, ImageInv
<1>7. CASE Flash!GoBack
  <2>1. /\ step = "go back" /\ Flash!Rename("eamp_old", "eamp")
        /\ tftp_created' = FALSE /\ step' = "answer"
        /\ UNCHANGED <<mounted, serving, dev_status, unchecked, cut>>
    BY <1>7 DEF Flash!GoBack, Flash!Restored
  <2>2. /\ file' \in [Flash!Names -> Flash!Images]
        /\ writer' \in Flash!Names \cup {"none", "unlinked"} /\ WriterInv'
        /\ mounted = FALSE => file' = file
        /\ mounted = TRUE /\ file["eamp_old"] # "none" => file'["eamp"] = file["eamp_old"]
    BY <1>0, <2>1, RenameMoves
  <2>3. ImageInv'
    BY <1>0, <2>1, <2>2 DEF ImageInv, Flash!TypeOK
  <2> QED
    BY <1>0, <2>1, <2>2, <2>3 DEF FlashInv, Flash!TypeOK
<1>8. CASE Flash!Answer
  <2>1. /\ step = "answer" /\ step' = "wait"
        /\ UNCHANGED <<file, mounted, serving, tftp_created, writer, dev_status,
                       unchecked, cut>>
    BY <1>8 DEF Flash!Answer
  <2> QED
    BY <1>0, <2>1 DEF FlashInv, Flash!TypeOK, WriterInv, ImageInv
<1>9. CASE Flash!Reset
  <2>1. /\ step' = "wait" /\ cut' = (cut \/ step \notin {"wait", "answer"})
        /\ serving' = FALSE /\ tftp_created' = FALSE /\ writer' = "none"
        /\ mounted' \in BOOLEAN /\ UNCHANGED <<file, dev_status, unchecked>>
    BY <1>9 DEF Flash!Reset
  <2>2. /\ cut' \in BOOLEAN
        /\ cut' = FALSE => cut = FALSE /\ step \in {"wait", "answer"}
    BY <1>0, <2>1 DEF Flash!TypeOK
  <2> QED
    BY <1>0, <2>1, <2>2 DEF FlashInv, Flash!TypeOK, WriterInv, ImageInv
<1>10. CASE UNCHANGED flashVars
  BY <1>0, <1>10, ZenonT(30) DEF flashVars, FlashInv, Flash!TypeOK, WriterInv, ImageInv
<1> QED
  BY <1>1, <1>2, <1>3, <1>4, <1>5, <1>6, <1>7, <1>8, <1>9, <1>10 DEF Flash!Next

LEMMA FlashInvInit == Flash!Init => FlashInv
BY DEF Flash!Init, FlashInv, Flash!TypeOK, WriterInv, ImageInv, Flash!Names, Flash!Works,
   Flash!Images

LEMMA FlashInvGives == FlashInv => Flash!TypeOK /\ KeepsWorking
BY DEF FlashInv, ImageInv, Flash!TypeOK, KeepsWorking, Flash!KeepsWorking

-----------------------------------------------------------------------------
(* The start: how far each thread is in its steps *)

LEMMA Lengths ==
    /\ Len(Start!MainSteps) = 22 /\ DOMAIN Start!MainSteps = 1 .. 22
    /\ Len(Start!TouchScreenEntry) = 11 /\ DOMAIN Start!TouchScreenEntry = 1 .. 11
    /\ Len(Start!NetworkHandleEntry) = 7 /\ DOMAIN Start!NetworkHandleEntry = 1 .. 7
    /\ Len(Start!SystemControl) = 8 /\ DOMAIN Start!SystemControl = 1 .. 8
    /\ Len(Start!BcuMicSampleAndPlayEntry) = 1
    /\ DOMAIN Start!BcuMicSampleAndPlayEntry = 1 .. 1
    /\ Len(Start!DemaoEntry) = 0 /\ DOMAIN Start!DemaoEntry = 1 .. 0
<1>1. Len(Start!MainSteps) = 22 /\ DOMAIN Start!MainSteps = 1 .. 22
  BY DEF Start!MainSteps, Start!Prepare, Start!Open, Start!Create
<1>2. Len(Start!NetworkHandleEntry) = 7 /\ DOMAIN Start!NetworkHandleEntry = 1 .. 7
  BY DEF Start!NetworkHandleEntry, Start!ZhwSetAddToSys
<1>3. /\ Len(Start!TouchScreenEntry) = 11 /\ DOMAIN Start!TouchScreenEntry = 1 .. 11
      /\ Len(Start!SystemControl) = 8 /\ DOMAIN Start!SystemControl = 1 .. 8
      /\ Len(Start!BcuMicSampleAndPlayEntry) = 1
      /\ DOMAIN Start!BcuMicSampleAndPlayEntry = 1 .. 1
      /\ Len(Start!DemaoEntry) = 0 /\ DOMAIN Start!DemaoEntry = 1 .. 0
  BY DEF Start!TouchScreenEntry, Start!SystemControl, Start!BcuMicSampleAndPlayEntry,
     Start!DemaoEntry
<1> QED
  BY <1>1, <1>2, <1>3

LEMMA ProgramLength ==
    \A t \in Start!Threads :
      /\ Len(Start!Program[t]) \in 0 .. 22
      /\ DOMAIN Start!Program[t] = 1 .. Len(Start!Program[t])
<1> SUFFICES ASSUME NEW t \in Start!Threads
             PROVE  /\ Len(Start!Program[t]) \in 0 .. 22
                    /\ DOMAIN Start!Program[t] = 1 .. Len(Start!Program[t])
  OBVIOUS
<1>1. \/ t = "main" /\ Start!Program[t] = Start!MainSteps
      \/ t = "demao" /\ Start!Program[t] = Start!DemaoEntry
      \/ t = "screen" /\ Start!Program[t] = Start!TouchScreenEntry
      \/ t = "network" /\ Start!Program[t] = Start!NetworkHandleEntry
      \/ t = "control" /\ Start!Program[t] = Start!SystemControl
      \/ t = "sampler" /\ Start!Program[t] = Start!BcuMicSampleAndPlayEntry
  BY DEF Start!Program, Start!Threads
<1> QED
  BY <1>1, Lengths

StartTypes ==
    /\ next \in [Start!Threads -> Nat \ {0}]
    /\ \A t \in Start!Threads : next[t] <= Len(Start!Program[t]) + 1
    /\ timer \in BOOLEAN /\ showing \in BOOLEAN /\ ended \in BOOLEAN

LEMMA StartTypesStep == StartTypes /\ [Start!Next]_startVars => StartTypes'
<1> SUFFICES ASSUME StartTypes, [Start!Next]_startVars
             PROVE  StartTypes'
  OBVIOUS
<1>1. ASSUME NEW t \in Start!Threads, Start!Do(t)
      PROVE  StartTypes'
  <2>1. /\ next[t] \in DOMAIN Start!Program[t]
        /\ next' = [next EXCEPT ![t] = @ + 1] /\ UNCHANGED <<timer, showing, ended>>
    BY <1>1 DEF Start!Do
  <2>2. next[t] + 1 <= Len(Start!Program[t]) + 1 /\ next[t] + 1 \in Nat \ {0}
    BY <2>1, ProgramLength DEF StartTypes
  <2> PICK n \in Nat \ {0} : n = next[t] + 1
    BY <2>2
  <2>3. next' = [next EXCEPT ![t] = n] /\ n <= Len(Start!Program[t]) + 1
    BY <2>1, <2>2
  <2>4. \A u \in Start!Threads : next'[u] <= Len(Start!Program[u]) + 1
    BY <2>3 DEF StartTypes
  <2> QED
    BY <2>1, <2>3, <2>4 DEF StartTypes
<1>2. CASE next' = next /\ timer' \in BOOLEAN /\ showing' \in BOOLEAN /\ ended' \in BOOLEAN
  BY <1>2 DEF StartTypes
<1>3. ASSUME NEW t, Start!End(t)
      PROVE  StartTypes'
  BY <1>2, <1>3 DEF Start!End, StartTypes
<1>4. CASE \/ Start!DemaoTurn \/ Start!NetworkTurn \/ Start!SamplerTurn \/ Start!ControlTurn
           \/ Start!Package \/ Start!AutoChangeIntercommButtonEnableStateAndColor
           \/ Start!Command
  BY <1>2, <1>4 DEF Start!DemaoTurn, Start!NetworkTurn, Start!SamplerTurn,
     Start!ControlTurn, Start!Package, Start!AutoChangeIntercommButtonEnableStateAndColor,
     Start!Command, Start!Turn, StartTypes
<1>5. CASE Start!Press
  <2>1. timer' \in BOOLEAN
    BY <1>5 DEF Start!Press, StartTypes
  <2> QED
    BY <1>2, <1>5, <2>1 DEF Start!Press, StartTypes
<1>6. CASE UNCHANGED startVars
  BY <1>2, <1>6 DEF startVars, StartTypes
<1>7. CASE UNCHANGED Start!vars
  BY <1>2, <1>7 DEF Start!vars, StartTypes
<1> QED
  BY <1>1, <1>3, <1>4, <1>5, <1>6, <1>7 DEF Start!Next

LEMMA StartTypesInit == Start!Init => StartTypes
<1> SUFFICES ASSUME Start!Init
             PROVE  StartTypes
  OBVIOUS
<1>1. \A t \in Start!Threads : next[t] = 1 /\ 1 <= Len(Start!Program[t]) + 1
  <2>1. \A n \in 0 .. 22 : 1 <= n + 1
    OBVIOUS
  <2> QED
    BY <2>1, ProgramLength DEF Start!Init
<1>2. next \in [Start!Threads -> Nat \ {0}]
  BY DEF Start!Init
<1>3. timer = FALSE /\ showing = FALSE /\ ended = FALSE
  BY DEF Start!Init
<1> QED
  BY <1>1, <1>2, <1>3 DEF StartTypes

LEMMA StartTypesGive == StartTypes => Start!TypeOK
<1> SUFFICES ASSUME StartTypes, NEW t \in Start!Threads
             PROVE  next[t] \in 1 .. 23
  BY Lengths, SMTT(30) DEF StartTypes, Start!TypeOK
<1>1. ASSUME NEW n \in 0 .. 22, NEW m \in Nat \ {0}, m <= n + 1
      PROVE  m \in 1 .. 23
  BY <1>1
<1>2. next[t] \in Nat \ {0} /\ next[t] <= Len(Start!Program[t]) + 1
  BY DEF StartTypes
<1> QED
  BY <1>1, <1>2, ProgramLength

(* The steps of the threads, one by one.                                    *)
LEMMA PrepareTable ==
    /\ Start!MainSteps[1]
         = Start!Step("Init_ocs_select_car_struct", {}, {"selection"})
    /\ Start!MainSteps[2]
         = Start!Step("InitGlobalArray", {}, {"registry_lock", "table"})
    /\ Start!MainSteps[3] = Start!Step("InitBcuAndState", {}, {"page_flags"})
    /\ Start!MainSteps[4]
         = Start!Step("InitAllDeviceInfo", {"mutexes"}, {"device_states"})
    /\ Start!MainSteps[5]
         = Start!Step("UpdateCurrentDeviceInformation", {}, {"own_number"})
    /\ Start!MainSteps[6] = Start!Step("creat_linked_list", {}, {"request_lists"})
    /\ Start!MainSteps[7] = Start!Step("InitMutex", {}, {"mutexes"})
BY DEF Start!MainSteps, Start!Prepare, Start!Open, Start!Create,
   Start!Init_ocs_select_car_struct, Start!InitGlobalArray,
   Start!InitBcuAndState, Start!InitAllDeviceInfo, Start!InitGlobalInfo,
   Start!UpdateCurrentDeviceInformation, Start!creat_linked_list,
   Start!InitMutex

LEMMA OpenTable ==
    /\ Start!MainSteps[8]
         = Start!Step("InitBuffer", {}, Start!CharBuffers \cup Start!BlockBuffers)
    /\ Start!MainSteps[9] = Start!Step("InitSemaphore", {}, {"semaphores"})
    /\ Start!MainSteps[10]
         = Start!Step("InitAudioDataDestination", {"mutexes"}, {"destination"})
    /\ Start!MainSteps[11] = Start!Step("LookupSndCard", {}, {"card_handle"})
    /\ Start!MainSteps[12]
         = Start!Step("OpenSndCard", {"card_handle"}, {"open_card"})
    /\ Start!MainSteps[13]
         = Start!Step("AdjustVolumeAfterCODEC", {"card_handle", "open_card"}, {})
    /\ Start!MainSteps[14]
         = Start!Step("InitAllDeviceInfo", {"mutexes"}, {"device_states"})
    /\ Start!MainSteps[15]
         = Start!Step("SetPTTStateInfoPackage", {"own_number"}, {"PTT_packages"})
    /\ Start!MainSteps[16] = Start!Step("main", {}, {"blank_audio"})
BY DEF Start!MainSteps, Start!Prepare, Start!Open, Start!Create,
   Start!InitBuffer, Start!InitSemaphore, Start!InitAudioDataDestination,
   Start!LookupSndCard, Start!OpenSndCard, Start!AdjustVolumeAfterCODEC,
   Start!AdjustBCUSNDVolume, Start!SetPTTStateInfoPackage, Start!BlankAudio,
   Start!InitAllDeviceInfo, Start!InitGlobalInfo

LEMMA CreateTable ==
    /\ Start!MainSteps[17]
         = Start!Step("ThreadAttributionConfigure", {}, {"attributes"})
    /\ Start!MainSteps[18]
         = Start!Step("pthread_create", {"attributes"}, {"demao"})
    /\ Start!MainSteps[19]
         = Start!Step("pthread_create", {"attributes"}, {"screen"})
    /\ Start!MainSteps[20]
         = Start!Step("pthread_create", {"attributes"}, {"network"})
    /\ Start!MainSteps[21]
         = Start!Step("pthread_create", {"attributes"}, {"control"})
    /\ Start!MainSteps[22]
         = Start!Step("pthread_create", {"attributes"}, {"sampler"})
BY DEF Start!MainSteps, Start!Prepare, Start!Open, Start!Create,
   Start!pthread_create, Start!ThreadAttributionConfigure

LEMMA NetworkTable ==
    /\ Start!NetworkHandleEntry[1]
         = Start!Step("NetworkHandleEntry", Start!NetworkBuffers, {"network_ids"})
    /\ Start!NetworkHandleEntry[2] = Start!Step("CacheCreate", {}, {"cache"})
    /\ Start!NetworkHandleEntry[3]
         = Start!Step("zhw_server_dev_info",
             {"table"}
               \cup UNION {Start!ReadGlobalArray(d.type, d.number) :
                             d \in Start!ReadFromIO},
             {"address"})
    /\ Start!NetworkHandleEntry[4]
         = Start!Step("ZhwSetMacToSys", {"address"}, {"hardware_address"})
    /\ Start!NetworkHandleEntry[5]
         = Start!Step("ZhwSetIpToSys",
             {"hardware_address", "address"},
             {"interface"})
    /\ Start!NetworkHandleEntry[6]
         = Start!Step("SockfdServerInit",
             {"address"} \cup {"interface"},
             {"sockets"})
    /\ Start!NetworkHandleEntry[7]
         = Start!Step("ZhwSetMulitIp", {"sockets"}, {"groups"})
BY DEF Start!NetworkHandleEntry, Start!ZhwSetAddToSys, Start!CacheCreate,
   Start!zhw_server_dev_info, Start!ZhwSetMacToSys, Start!ZhwSetIpToSys,
   Start!SockfdServerInit, Start!ZhwSetMulitIp, Start!IpAndPortInit

LEMMA ScreenTable ==
    /\ Start!TouchScreenEntry[1]
         = Start!Step("TouchScreenEntry",
             Start!BlockBufferOpen({"bcu-screen-cmd-tx",
                                    "bcu-control-recv-ts-info"}),
             {"touch_ids"})
    /\ Start!TouchScreenEntry[2]
         = Start!Step("touch_screen_main", {}, {"gp_main_file"})
    /\ Start!TouchScreenEntry[3]
         = Start!Step("touch_screen_main", {}, {"gp_intercomm"})
    /\ Start!TouchScreenEntry[4]
         = Start!Step("touch_screen_main", {}, {"gp_static_show"})
    /\ Start!TouchScreenEntry[5]
         = Start!Step("touch_screen_main", {}, {"gp_input_password"})
    /\ Start!TouchScreenEntry[6]
         = Start!Step("touch_screen_main", {}, {"gp_setting"})
    /\ Start!TouchScreenEntry[7]
         = Start!Step("touch_screen_main", {}, {"gp_setting_items"})
    /\ Start!TouchScreenEntry[8]
         = Start!Step("touch_screen_main", {}, {"AnnOrMonitorSelect"})
    /\ Start!TouchScreenEntry[9]
         = Start!Step("touch_screen_main", {}, {"D2D_intercom_page"})
    /\ Start!TouchScreenEntry[10]
         = Start!Step("touch_screen_main", {}, {"main_group"})
    /\ Start!TouchScreenEntry[11]
         = Start!Step("SystemInitBeforeRun",
             {"gp_setting", "gp_main_file", "gp_intercomm", "main_group"},
             {"priorities"} \cup {"volumes"})
BY DEF Start!TouchScreenEntry, Start!gp_main_file, Start!gp_intercomm,
   Start!gp_static_show, Start!gp_input_password, Start!gp_setting,
   Start!gp_setting_items, Start!AnnOrMonitorSelect, Start!D2D_intercom_page,
   Start!main_group, Start!SystemInitBeforeRun, Start!Page,
   Start!BcuSimulateStateInit, Start!TouchScreenInit

LEMMA ControlTable ==
    /\ Start!SystemControl[1]
         = Start!Step("BCURuleTableInit", {}, {"empty_rules"} \cup {"rules"})
    /\ Start!SystemControl[2]
         = Start!Step("BCUControlMainBufferInit",
             Start!CharBufferOpen(Start!CharBuffers \cup {"bcu-local-audio-data"})
               \cup Start!BlockBufferOpen(
                      Start!BlockBuffers \ {"network-udp-heart-recv",
                                            "network-udp-heart-send"}),
             {"control_ids"})
    /\ Start!SystemControl[3]
         = Start!Step("RegisterCommonBufferRecvBuffer",
             {"control_ids", "registry_lock"},
             {"registered"})
    /\ Start!SystemControl[4]
         = Start!Step("CreateD2DHangUpD2PTimeOutTimer", {}, {"hang-up_timer"})
    /\ Start!SystemControl[5]
         = Start!Step("CreateAudioSampleTimer", {}, {"sample_timer"})
    /\ Start!SystemControl[6]
         = Start!Step("CreateLiveMonitorTimer", {}, {"live_timer"})
    /\ Start!SystemControl[7] = Start!Step("BCUStateInit", {}, {"active_states"})
    /\ Start!SystemControl[8]
         = Start!Step("ControlCommomPackageInit",
             {"own_number"},
             {"volume_packages"})
BY DEF Start!SystemControl, Start!BCURuleTableInit,
   Start!BCUControlMainBufferInit, Start!RegisterCommonBufferRecvBuffer,
   Start!CreateD2DHangUpD2PTimeOutTimer, Start!CreateAudioSampleTimer,
   Start!CreateLiveMonitorTimer, Start!BCUStateInit,
   Start!ControlCommomPackageInit, Start!BCURuleInit, Start!BCUAddRule

LEMMA SamplerTable ==
    Start!BcuMicSampleAndPlayEntry[1]
      = Start!Step("CreateSndEnableTimer", {}, {"enable_timer"})
BY DEF Start!BcuMicSampleAndPlayEntry, Start!CreateSndEnableTimer

(* Only main creates a thread, and only the seventh step of the control     *)
(* thread sets the active states.                                           *)
Marks == Start!Threads \cup {"active_states"}

LEMMA NoBufferIsMark ==
    \A x \in Start!CharBuffers \cup Start!BlockBuffers : x \notin Marks /\ x # "no_card"
BY DEF Marks, Start!Threads, Start!CharBuffers, Start!BlockBuffers

LEMMA MainMarks ==
    ASSUME NEW i \in 1 .. 22, NEW x \in Marks, x \in Start!MainSteps[i].sets
    PROVE  /\ i >= 18 /\ x # "active_states" /\ x # "main"
           /\ x = "screen" => i >= 19
           /\ x = "network" => i >= 20
           /\ x = "control" => i >= 21
           /\ x = "sampler" => i >= 22
<1>1. \/ i = 1 \/ i = 2 \/ i = 3 \/ i = 4 \/ i = 5 \/ i = 6 \/ i = 7 \/ i = 8
      \/ i = 9 \/ i = 10 \/ i = 11 \/ i = 12 \/ i = 13 \/ i = 14 \/ i = 15 \/ i = 16
      \/ i = 17 \/ i = 18 \/ i = 19 \/ i = 20 \/ i = 21 \/ i = 22
  OBVIOUS
<1>2. i \notin {1, 2, 3, 4, 5, 6, 7}
  BY PrepareTable DEF Marks, Start!Threads, Start!Step
<1>3. i # 8
  BY OpenTable, NoBufferIsMark DEF Start!Step
<1>4. i \notin {9, 10, 11, 12, 13, 14, 15, 16}
  BY OpenTable DEF Marks, Start!Threads, Start!Step
<1> QED
  BY <1>1, <1>2, <1>3, <1>4, CreateTable DEF Marks, Start!Threads, Start!Step

LEMMA ScreenMarks ==
    ASSUME NEW i \in 1 .. 11, NEW x \in Marks
    PROVE  x \notin Start!TouchScreenEntry[i].sets
<1>1. \/ i = 1 \/ i = 2 \/ i = 3 \/ i = 4 \/ i = 5 \/ i = 6
      \/ i = 7 \/ i = 8 \/ i = 9 \/ i = 10 \/ i = 11
  OBVIOUS
<1> QED
  BY <1>1, ScreenTable DEF Marks, Start!Threads, Start!Step

LEMMA NetworkMarks ==
    ASSUME NEW i \in 1 .. 7, NEW x \in Marks
    PROVE  x \notin Start!NetworkHandleEntry[i].sets
<1>1. i = 1 \/ i = 2 \/ i = 3 \/ i = 4 \/ i = 5 \/ i = 6 \/ i = 7
  OBVIOUS
<1> QED
  BY <1>1, NetworkTable DEF Marks, Start!Threads, Start!Step

LEMMA ControlMarks ==
    ASSUME NEW i \in 1 .. 8, NEW x \in Marks, x \in Start!SystemControl[i].sets
    PROVE  i = 7 /\ x = "active_states"
<1>1. i = 1 \/ i = 2 \/ i = 3 \/ i = 4 \/ i = 5 \/ i = 6 \/ i = 7 \/ i = 8
  OBVIOUS
<1> QED
  BY <1>1, ControlTable DEF Marks, Start!Threads, Start!Step

LEMMA SamplerMarks ==
    ASSUME NEW x \in Marks
    PROVE  x \notin Start!BcuMicSampleAndPlayEntry[1].sets
BY SamplerTable DEF Marks, Start!Threads, Start!Step

(* What is true between two steps of the start: what is done has left what  *)
(* it sets, but for the card and the groups; and what is set was set by     *)
(* what is done.                                                            *)
Achieved(s) ==
    \/ s.sets \subseteq set
    \/ s.name \in {"LookupSndCard", "OpenSndCard"} /\ "no_card" \in set
    \/ s.name = "ZhwSetMulitIp"
LeftBehind ==
    \A t \in Start!Threads : \A i \in DOMAIN Start!Program[t] :
      i < next[t] => Achieved(Start!Program[t][i])
ComesFrom ==
    \A x \in set :
      \/ x \in {"main", "no_card"}
      \/ \E t \in Start!Threads : \E i \in DOMAIN Start!Program[t] :
           i < next[t] /\ x \in Start!Program[t][i].sets

LEMMA ProgramIs ==
    /\ Start!Program["main"] = Start!MainSteps
    /\ Start!Program["demao"] = Start!DemaoEntry
    /\ Start!Program["screen"] = Start!TouchScreenEntry
    /\ Start!Program["network"] = Start!NetworkHandleEntry
    /\ Start!Program["control"] = Start!SystemControl
    /\ Start!Program["sampler"] = Start!BcuMicSampleAndPlayEntry
BY DEF Start!Program, Start!Threads

(* A thread that has been created, and the active states, tell how far the  *)
(* one that set them is.                                                    *)
LEMMA MarksTell ==
    ASSUME StartTypes, ComesFrom
    PROVE  /\ "screen" \in set => next["main"] > 19
           /\ "network" \in set => next["main"] > 20
           /\ "control" \in set => next["main"] > 21
           /\ "sampler" \in set => next["main"] > 22
           /\ "active_states" \in set => next["control"] > 7
<1>1. ASSUME NEW x \in Marks, x \in set, x # "main"
      PROVE  \/ x # "active_states" /\ \E i \in 1 .. 22 : i < next["main"] /\ x \in Start!MainSteps[i].sets
             \/ x = "active_states" /\ 7 < next["control"]
  <2>1. x # "no_card"
    BY DEF Marks, Start!Threads
  <2> PICK t \in Start!Threads :
        \E i \in DOMAIN Start!Program[t] : i < next[t] /\ x \in Start!Program[t][i].sets
    BY <1>1, <2>1 DEF ComesFrom
  <2> PICK i \in DOMAIN Start!Program[t] : i < next[t] /\ x \in Start!Program[t][i].sets
    OBVIOUS
  <2>2. t = "main" \/ t = "demao" \/ t = "screen" \/ t = "network" \/ t = "control"
        \/ t = "sampler"
    BY DEF Start!Threads
  <2>3. CASE t = "main"
    BY <2>3, ProgramIs, Lengths, MainMarks
  <2>4. t # "demao"
    BY ProgramIs, Lengths
  <2>5. t # "screen"
    BY ProgramIs, Lengths, ScreenMarks
  <2>6. t # "network"
    BY ProgramIs, Lengths, NetworkMarks
  <2>7. CASE t = "control"
    BY <2>7, ProgramIs, Lengths, ControlMarks
  <2>8. t # "sampler"
    <3>1. \A j \in 1 .. 1 : j = 1
      OBVIOUS
    <3> QED
      BY <3>1, ProgramIs, Lengths, SamplerMarks
  <2> QED
    BY <2>2, <2>3, <2>4, <2>5, <2>6, <2>7, <2>8
<1>2. next["main"] \in Nat /\ next["control"] \in Nat
  BY DEF StartTypes, Start!Threads
<1>3. ASSUME NEW x \in Marks, x \in set, x # "main", x # "active_states"
      PROVE  /\ x = "screen" => next["main"] > 19
             /\ x = "network" => next["main"] > 20
             /\ x = "control" => next["main"] > 21
             /\ x = "sampler" => next["main"] > 22
  <2> PICK i \in 1 .. 22 : i < next["main"] /\ x \in Start!MainSteps[i].sets
    BY <1>1, <1>3
  <2> QED
    BY <1>2, MainMarks, <1>3
<1> QED
  BY <1>1, <1>2, <1>3 DEF Marks, Start!Threads

LEMMA AchievedSets ==
    ASSUME NEW s, Achieved(s),
           s.name \notin {"LookupSndCard", "OpenSndCard", "ZhwSetMulitIp"}
    PROVE  s.sets \subseteq set
BY DEF Achieved

LEMMA NextIsNat ==
    ASSUME StartTypes, NEW t \in {"main", "screen", "network", "control", "sampler"}
    PROVE  next[t] \in Nat \ {0}
BY DEF StartTypes, Start!Threads

(* What main has prepared before it creates a thread.                       *)
LEMMA MainHas ==
    ASSUME StartTypes, LeftBehind
    PROVE  /\ next["main"] > 1 => "selection" \in set
           /\ next["main"] > 2 => "registry_lock" \in set /\ "table" \in set
           /\ next["main"] > 3 => "page_flags" \in set
           /\ next["main"] > 5 => "own_number" \in set
           /\ next["main"] > 6 => "request_lists" \in set
           /\ next["main"] > 7 => "mutexes" \in set
           /\ next["main"] > 8 => Start!CharBuffers \cup Start!BlockBuffers \subseteq set
           /\ next["main"] > 9 => "semaphores" \in set
           /\ next["main"] > 10 => "destination" \in set
           /\ next["main"] > 11 => "card_handle" \in set \/ "no_card" \in set
           /\ next["main"] > 12 => "open_card" \in set \/ "no_card" \in set
           /\ next["main"] > 15 => "PTT_packages" \in set
           /\ next["main"] > 16 => "blank_audio" \in set
           /\ next["main"] > 17 => "attributes" \in set
           /\ next["main"] > 19 => "screen" \in set
           /\ next["main"] > 20 => "network" \in set
<1>1. \A i \in 1 .. 22 : next["main"] > i => Achieved(Start!MainSteps[i])
  BY NextIsNat, ProgramIs, Lengths DEF LeftBehind, Start!Threads
<1>2. /\ next["main"] > 1 => "selection" \in set
      /\ next["main"] > 2 => "registry_lock" \in set /\ "table" \in set
      /\ next["main"] > 3 => "page_flags" \in set
      /\ next["main"] > 5 => "own_number" \in set
      /\ next["main"] > 6 => "request_lists" \in set
      /\ next["main"] > 7 => "mutexes" \in set
  BY <1>1, PrepareTable DEF Achieved, Start!Step
<1>3. next["main"] > 8 => Start!CharBuffers \cup Start!BlockBuffers \subseteq set
  BY <1>1, OpenTable DEF Achieved, Start!Step
<1>4. /\ next["main"] > 9 => "semaphores" \in set
      /\ next["main"] > 10 => "destination" \in set
      /\ next["main"] > 11 => "card_handle" \in set \/ "no_card" \in set
      /\ next["main"] > 12 => "open_card" \in set \/ "no_card" \in set
      /\ next["main"] > 15 => "PTT_packages" \in set
      /\ next["main"] > 16 => "blank_audio" \in set
  BY <1>1, OpenTable DEF Achieved, Start!Step
<1>5. /\ next["main"] > 17 => "attributes" \in set
      /\ next["main"] > 19 => "screen" \in set
      /\ next["main"] > 20 => "network" \in set
  BY <1>1, CreateTable DEF Achieved, Start!Step
<1> QED
  BY <1>2, <1>3, <1>4, <1>5

(* What the other threads have prepared.                                    *)
LEMMA ScreenHas ==
    ASSUME StartTypes, LeftBehind
    PROVE  /\ next["screen"] > 1 => "touch_ids" \in set
           /\ next["screen"] > 2 => "gp_main_file" \in set
           /\ next["screen"] > 3 => "gp_intercomm" \in set
           /\ next["screen"] > 6 => "gp_setting" \in set
           /\ next["screen"] > 10 => "main_group" \in set
           /\ next["screen"] > 11 => "priorities" \in set /\ "volumes" \in set
<1>1. \A i \in 1 .. 11 : next["screen"] > i => Achieved(Start!TouchScreenEntry[i])
  BY NextIsNat, ProgramIs, Lengths DEF LeftBehind, Start!Threads
<1> QED
  BY <1>1, ScreenTable DEF Achieved, Start!Step

LEMMA NetworkHas ==
    ASSUME StartTypes, LeftBehind
    PROVE  /\ next["network"] > 1 => "network_ids" \in set
           /\ next["network"] > 2 => "cache" \in set
           /\ next["network"] > 3 => "address" \in set
           /\ next["network"] > 4 => "hardware_address" \in set
           /\ next["network"] > 5 => "interface" \in set
           /\ next["network"] > 6 => "sockets" \in set
<1>1. \A i \in 1 .. 7 : next["network"] > i => Achieved(Start!NetworkHandleEntry[i])
  BY NextIsNat, ProgramIs, Lengths DEF LeftBehind, Start!Threads
<1> QED
  BY <1>1, NetworkTable DEF Achieved, Start!Step

LEMMA ControlHas ==
    ASSUME StartTypes, LeftBehind
    PROVE  /\ next["control"] > 1 => "rules" \in set
           /\ next["control"] > 2 => "control_ids" \in set
           /\ next["control"] > 4 => "hang-up_timer" \in set
           /\ next["control"] > 5 => "sample_timer" \in set
           /\ next["control"] > 6 => "live_timer" \in set
           /\ next["control"] > 7 => "active_states" \in set
<1>1. \A i \in 1 .. 8 : next["control"] > i => Achieved(Start!SystemControl[i])
  BY NextIsNat, ProgramIs, Lengths DEF LeftBehind, Start!Threads
<1> QED
  BY <1>1, ControlTable DEF Achieved, Start!Step

LEMMA SamplerHas ==
    ASSUME StartTypes, LeftBehind, next["sampler"] > 1
    PROVE  "enable_timer" \in set
<1>1. 1 \in DOMAIN Start!Program["sampler"] /\ 1 < next["sampler"]
  BY NextIsNat, ProgramIs, Lengths
<1>2. Achieved(Start!BcuMicSampleAndPlayEntry[1])
  BY <1>1, ProgramIs DEF LeftBehind, Start!Threads
<1> QED
  BY <1>2, SamplerTable DEF Achieved, Start!Step

(* A step that uses what is set, or what is known to come early.            *)
Card == {"card_handle", "open_card"}
Fine(name, uses) ==
    \A x \in uses : \/ x \in set
                    \/ <<name, x>> \in Start!Known
                    \/ x \in Card /\ "no_card" \in set

LEMMA FineUses ==
    ASSUME NEW s, Start!Uses(s), early = {}, Fine(s.name, s.uses)
    PROVE  early' = {}
<1> SUFFICES ASSUME NEW p \in early'
             PROVE  FALSE
  OBVIOUS
<1>1. /\ p \in {<<s.name, x>> : x \in s.uses \ set}
      /\ p \notin Start!Known
      /\ p \notin (IF "no_card" \in set THEN {s.name} \X Card ELSE {})
  BY Zenon DEF Start!Uses, Card
<1> PICK x \in s.uses \ set : p = <<s.name, x>>
  BY <1>1
<1>2. x \in Card /\ "no_card" \in set
  BY <1>1 DEF Fine
<1> QED
  BY <1>1, <1>2

LEMMA FineSubset ==
    ASSUME NEW name, NEW uses, uses \subseteq set
    PROVE  Fine(name, uses)
BY DEF Fine

LEMMA OpensChar ==
    ASSUME NEW names, names \cap Start!BlockBuffers = {}
    PROVE  Start!CharBufferOpen(names) = names
<1>1. \A n \in names : n \notin Start!BlockBuffers
  OBVIOUS
<1> QED
  BY <1>1, Zenon DEF Start!CharBufferOpen

LEMMA OpensBlock ==
    ASSUME NEW names, names \cap Start!CharBuffers = {}
    PROVE  Start!BlockBufferOpen(names) = names
<1>1. \A n \in names : n \notin Start!CharBuffers
  OBVIOUS
<1> QED
  BY <1>1, Zenon DEF Start!BlockBufferOpen

LEMMA TwoLists == Start!CharBuffers \cap Start!BlockBuffers = {}
BY DEF Start!CharBuffers, Start!BlockBuffers

(* The row of every seat is found.                                          *)
LEMMA SeatsFound ==
    UNION {Start!ReadGlobalArray(d.type, d.number) : d \in Start!ReadFromIO} = {}
<1>1. \A n \in 1 .. 5 : Start!ReadGlobalArray(3, n) = {}
  <2> SUFFICES ASSUME NEW n \in 1 .. 5
               PROVE  n \in Start!ResolveUseType(3, n)
    BY DEF Start!ReadGlobalArray
  <2>1. Start!device_info[n] = Start!Device(3, n)
    <3>1. n = 1 \/ n = 2 \/ n = 3 \/ n = 4 \/ n = 5
      OBVIOUS
    <3> QED
      BY <3>1 DEF Start!device_info
  <2>2. Len(Start!device_info) = 9 /\ DOMAIN Start!device_info = 1 .. 9
    BY DEF Start!device_info
  <2> QED
    BY <2>1, <2>2 DEF Start!ResolveUseType, Start!ZhwReadFromTestDB
<1>2. \A d \in Start!ReadFromIO : d.type = 3 /\ d.number \in 1 .. 5
  BY DEF Start!ReadFromIO, Start!ReadType, Start!ReadNum, Start!Device
<1>3. \A d \in Start!ReadFromIO : Start!ReadGlobalArray(d.type, d.number) = {}
  BY <1>1, <1>2, Zenon
<1> QED
  BY <1>3

(* No step of main uses too early what it needs.                            *)
LEMMA MainFine ==
    ASSUME StartTypes, LeftBehind, next["main"] \in 1 .. 22
    PROVE  Fine(Start!MainSteps[next["main"]].name, Start!MainSteps[next["main"]].uses)
<1> PICK i \in 1 .. 22 : i = next["main"]
  OBVIOUS
<1>1. \/ i = 1 \/ i = 2 \/ i = 3 \/ i = 4 \/ i = 5 \/ i = 6 \/ i = 7 \/ i = 8
      \/ i = 9 \/ i = 10 \/ i = 11 \/ i = 12 \/ i = 13 \/ i = 14 \/ i = 15 \/ i = 16
      \/ i = 17 \/ i = 18 \/ i = 19 \/ i = 20 \/ i = 21 \/ i = 22
  OBVIOUS
<1>2. CASE i \in {1, 2, 3, 4, 5, 6, 7}
  BY <1>2, PrepareTable DEF Fine, Start!Known, Start!Step
<1>3. CASE i \in {8, 9, 10, 11, 12, 13, 14, 15, 16}
  <2>1. /\ i > 5 => "own_number" \in set
        /\ i > 7 => "mutexes" \in set
        /\ i > 11 => "card_handle" \in set \/ "no_card" \in set
        /\ i > 12 => "open_card" \in set \/ "no_card" \in set
    BY MainHas
  <2> QED
    BY <1>3, <2>1, OpenTable DEF Fine, Card, Start!Step
<1>4. CASE i \in {17, 18, 19, 20, 21, 22}
  <2>1. i > 17 => "attributes" \in set
    BY MainHas
  <2> QED
    BY <1>4, <2>1, CreateTable DEF Fine, Start!Step
<1> QED
  BY <1>1, <1>2, <1>3, <1>4

(* A thread finds what main has prepared, and what it has prepared itself.  *)
LEMMA ThreadsFind ==
    ASSUME StartTypes, LeftBehind, ComesFrom,
           {"screen", "network", "control", "sampler"} \cap set # {}
    PROVE  /\ {"selection", "registry_lock", "table", "page_flags", "own_number",
               "request_lists", "mutexes", "semaphores", "destination", "PTT_packages",
               "blank_audio", "screen"} \subseteq set
           /\ Start!CharBuffers \cup Start!BlockBuffers \subseteq set
           /\ Card \subseteq set \/ "no_card" \in set
<1>1. next["main"] \in Nat /\ next["main"] > 19
  BY MarksTell, NextIsNat
<1> QED
  BY <1>1, MainHas DEF Card

LEMMA ScreenFine ==
    ASSUME StartTypes, LeftBehind, ComesFrom, "screen" \in set, next["screen"] \in 1 .. 11
    PROVE  Fine(Start!TouchScreenEntry[next["screen"]].name,
                Start!TouchScreenEntry[next["screen"]].uses)
<1> PICK i \in 1 .. 11 : i = next["screen"]
  OBVIOUS
<1>1. \/ i = 1 \/ i = 2 \/ i = 3 \/ i = 4 \/ i = 5 \/ i = 6
      \/ i = 7 \/ i = 8 \/ i = 9 \/ i = 10 \/ i = 11
  OBVIOUS
<1>2. CASE i = 1
  <2> DEFINE names == {"bcu-screen-cmd-tx", "bcu-control-recv-ts-info"}
  <2>1. names \subseteq Start!BlockBuffers
    BY DEF Start!BlockBuffers
  <2>2. Start!BlockBufferOpen(names) = names
    BY <2>1, TwoLists, OpensBlock
  <2>3. names \subseteq set
    BY <2>1, ThreadsFind
  <2> QED
    BY <1>2, <2>2, <2>3, ScreenTable DEF Fine, Start!Step
<1>3. CASE i \in {2, 3, 4, 5, 6, 7, 8, 9, 10}
  BY <1>3, ScreenTable DEF Fine, Start!Step
<1>4. CASE i = 11
  <2>1. {"gp_setting", "gp_main_file", "gp_intercomm", "main_group"} \subseteq set
    BY <1>4, ScreenHas
  <2> QED
    BY <1>4, <2>1, ScreenTable DEF Fine, Start!Step
<1> QED
  BY <1>1, <1>2, <1>3, <1>4

LEMMA NetworkFine ==
    ASSUME StartTypes, LeftBehind, ComesFrom, "network" \in set, next["network"] \in 1 .. 7
    PROVE  Fine(Start!NetworkHandleEntry[next["network"]].name,
                Start!NetworkHandleEntry[next["network"]].uses)
<1> PICK i \in 1 .. 7 : i = next["network"]
  OBVIOUS
<1>1. i = 1 \/ i = 2 \/ i = 3 \/ i = 4 \/ i = 5 \/ i = 6 \/ i = 7
  OBVIOUS
<1>2. CASE i = 1
  <2> DEFINE chars == {"bcu-network-audio-tx", "bcu-network-audio-rx"}
             blocks == {"bcu-network-cmd-tx", "bcu-network-cmd-rx",
                        "network-udp-common-send", "network-udp-common-recv",
                        "network-udp-heart-recv", "network-udp-heart-send",
                        "network-udp-shell-recv", "network-udp-shell-send",
                        "network-udp-server-recv", "network-udp-server-send"}
  <2>1. chars \subseteq Start!CharBuffers /\ blocks \subseteq Start!BlockBuffers
    BY DEF Start!CharBuffers, Start!BlockBuffers
  <2>2. Start!NetworkBuffers = Start!CharBufferOpen(chars) \cup Start!BlockBufferOpen(blocks)
    BY DEF Start!NetworkBuffers
  <2> HIDE DEF chars, blocks
  <2>3. Start!NetworkBuffers = chars \cup blocks
    BY <2>1, <2>2, TwoLists, OpensChar, OpensBlock
  <2>4. Start!NetworkBuffers \subseteq set
    BY <2>1, <2>3, ThreadsFind
  <2> QED
    BY <1>2, <2>4, NetworkTable DEF Fine, Start!Step
<1>3. CASE i = 3
  <2>1. "table" \in set
    BY ThreadsFind
  <2> QED
    BY <1>3, <2>1, NetworkTable, SeatsFound DEF Fine, Start!Step
<1>4. CASE i \in {2, 4, 5, 6, 7}
  BY <1>4, NetworkTable, NetworkHas DEF Fine, Start!Step
<1> QED
  BY <1>1, <1>2, <1>3, <1>4

LEMMA ControlFine ==
    ASSUME StartTypes, LeftBehind, ComesFrom, "control" \in set, next["control"] \in 1 .. 8
    PROVE  Fine(Start!SystemControl[next["control"]].name,
                Start!SystemControl[next["control"]].uses)
<1> PICK i \in 1 .. 8 : i = next["control"]
  OBVIOUS
<1>1. i = 1 \/ i = 2 \/ i = 3 \/ i = 4 \/ i = 5 \/ i = 6 \/ i = 7 \/ i = 8
  OBVIOUS
<1>2. CASE i = 2
  <2> DEFINE chars == Start!CharBuffers \cup {"bcu-local-audio-data"}
             blocks == Start!BlockBuffers \ {"network-udp-heart-recv", "network-udp-heart-send"}
  <2>1. "bcu-local-audio-data" \notin Start!BlockBuffers
    BY DEF Start!BlockBuffers
  <2>2. Start!CharBufferOpen(chars) = chars /\ Start!BlockBufferOpen(blocks) = blocks
    BY <2>1, TwoLists, OpensChar, OpensBlock
  <2>3. chars \cup blocks \subseteq set \cup {"bcu-local-audio-data"}
    BY ThreadsFind
  <2>4. Start!SystemControl[i]
          = Start!Step("BCUControlMainBufferInit", chars \cup blocks, {"control_ids"})
    BY <1>2, <2>2, ControlTable
  <2> HIDE DEF chars, blocks
  <2> QED
    BY <2>3, <2>4 DEF Fine, Start!Known, Start!Step
<1>3. CASE i \in {1, 3, 4, 5, 6, 7, 8}
  <2>1. /\ i > 2 => "control_ids" \in set
        /\ "registry_lock" \in set /\ "own_number" \in set
    BY ControlHas, ThreadsFind
  <2> QED
    BY <1>3, <2>1, ControlTable DEF Fine, Start!Step
<1> QED
  BY <1>1, <1>2, <1>3

LEMMA StepFine ==
    ASSUME StartTypes, LeftBehind, ComesFrom,
           NEW t \in Start!Threads, t \in set, next[t] \in DOMAIN Start!Program[t]
    PROVE  Fine(Start!Program[t][next[t]].name, Start!Program[t][next[t]].uses)
<1>1. CASE t = "main"
  BY <1>1, ProgramIs, Lengths, MainFine
<1>2. CASE t = "screen"
  BY <1>2, ProgramIs, Lengths, ScreenFine
<1>3. CASE t = "network"
  BY <1>3, ProgramIs, Lengths, NetworkFine
<1>4. CASE t = "control"
  BY <1>4, ProgramIs, Lengths, ControlFine
<1>5. CASE t = "sampler"
  BY <1>5, ProgramIs, Lengths, SamplerTable DEF Fine, Start!Step
<1>6. t # "demao"
  BY ProgramIs, Lengths
<1> QED
  BY <1>1, <1>2, <1>3, <1>4, <1>5, <1>6 DEF Start!Threads

(* The sample timer runs only after the control thread has set what the     *)
(* sampling thread needs.                                                   *)
TimerRuns == timer = TRUE => next["control"] > 7
StartInv ==
    StartTypes /\ LeftBehind /\ ComesFrom /\ TimerRuns /\ Start!NothingIsEarly

LEMMA StartInvInit == Start!Init => StartInv
<1> SUFFICES ASSUME Start!Init
             PROVE  StartInv
  OBVIOUS
<1>1. \A t \in Start!Threads : next[t] = 1
  BY DEF Start!Init
<1>2. LeftBehind
  BY <1>1, ProgramLength DEF LeftBehind
<1>3. ComesFrom
  BY DEF ComesFrom, Start!Init
<1>4. TimerRuns /\ Start!NothingIsEarly
  BY DEF TimerRuns, Start!NothingIsEarly, Start!Init
<1> QED
  BY <1>2, <1>3, <1>4, StartTypesInit DEF StartInv

(* A step of a thread leaves what it sets.                                  *)
LEMMA DoKeeps ==
    ASSUME StartInv, NEW t \in Start!Threads, Start!Do(t)
    PROVE  LeftBehind' /\ ComesFrom' /\ TimerRuns' /\ Start!NothingIsEarly'
<1> PICK s : s = Start!Program[t][next[t]]
  OBVIOUS
<1>1. /\ t \in set /\ next[t] \in DOMAIN Start!Program[t] /\ Start!Uses(s)
      /\ next' = [next EXCEPT ![t] = @ + 1] /\ UNCHANGED timer
      /\ \/ set' = set \cup s.sets
         \/ s.name = "LookupSndCard" /\ set' = set \cup {"no_card"}
         \/ s.name = "OpenSndCard" /\ set' = set \cup {"no_card"}
         \/ s.name = "ZhwSetMulitIp" /\ UNCHANGED set
  BY DEF Start!Do
<1>2. set \subseteq set' /\ Achieved(s)'
  BY <1>1 DEF Achieved
<1>3. next[t] \in Nat /\ \A u \in Start!Threads : next[u] \in Nat
  BY DEF StartInv, StartTypes
<1> PICK n \in Nat : n = next[t] + 1
  BY <1>3
<1>4. /\ next'[t] = n /\ next[t] < n
      /\ \A u \in Start!Threads \ {t} : next'[u] = next[u]
  BY <1>1, <1>3 DEF StartInv, StartTypes
<1>5. LeftBehind'
  <2> SUFFICES ASSUME NEW u \in Start!Threads, NEW i \in DOMAIN Start!Program[u], i < next'[u]
               PROVE  Achieved(Start!Program[u][i])'
    BY DEF LeftBehind
  <2>1. CASE i < next[u]
    <3>1. Achieved(Start!Program[u][i])
      BY <2>1 DEF StartInv, LeftBehind
    <3> QED
      BY <1>2, <3>1 DEF Achieved
  <2>2. CASE ~(i < next[u])
    <3>1. i \in Nat
      BY ProgramLength
    <3>2. u = t /\ i = next[t]
      BY <1>3, <1>4, <2>2, <3>1
    <3> QED
      BY <1>2, <3>2
  <2> QED
    BY <2>1, <2>2
<1>6. ComesFrom'
  <2> SUFFICES ASSUME NEW x \in set', x \notin {"main", "no_card"}
               PROVE  \E u \in Start!Threads : \E i \in DOMAIN Start!Program[u] :
                        i < next'[u] /\ x \in Start!Program[u][i].sets
    BY DEF ComesFrom
  <2>1. CASE x \in set
    <3> PICK u \in Start!Threads :
          \E i \in DOMAIN Start!Program[u] : i < next[u] /\ x \in Start!Program[u][i].sets
      BY <2>1 DEF StartInv, ComesFrom
    <3> PICK i \in DOMAIN Start!Program[u] : i < next[u] /\ x \in Start!Program[u][i].sets
      OBVIOUS
    <3>1. i \in Nat
      BY ProgramLength
    <3>2. i < next'[u]
      BY <1>3, <1>4, <3>1
    <3> QED
      BY <3>2
  <2>2. CASE x \notin set
    <3>1. x \in s.sets
      BY <1>1, <2>2
    <3> QED
      BY <1>1, <1>4, <3>1
  <2> QED
    BY <2>1, <2>2
<1>7. TimerRuns'
  BY <1>1, <1>3, <1>4 DEF StartInv, TimerRuns, Start!Threads
<1>8. Start!NothingIsEarly'
  <2>1. Fine(s.name, s.uses)
    BY <1>1, StepFine DEF StartInv
  <2> QED
    BY <1>1, <2>1, FineUses DEF StartInv, Start!NothingIsEarly
<1> QED
  BY <1>5, <1>6, <1>7, <1>8

(* A thread in its loop has all it has prepared.                            *)
LEMMA LoopsHave ==
    ASSUME StartInv
    PROVE  /\ Start!InLoop("screen") =>
                {"screen", "touch_ids", "main_group", "priorities", "volumes"} \subseteq set
           /\ Start!InLoop("network") =>
                {"network", "network_ids", "cache", "sockets"} \subseteq set
           /\ Start!InLoop("control") =>
                /\ next["control"] > 8
                /\ {"control", "rules", "control_ids", "hang-up_timer", "sample_timer",
                    "live_timer", "active_states"} \subseteq set
           /\ Start!InLoop("sampler") =>
                {"sampler", "enable_timer", "network"} \subseteq set
<1> USE NextIsNat, ProgramIs, Lengths DEF StartInv, Start!InLoop
<1>1. Start!InLoop("screen") =>
        {"screen", "touch_ids", "main_group", "priorities", "volumes"} \subseteq set
  BY ScreenHas
<1>2. Start!InLoop("network") =>
        {"network", "network_ids", "cache", "sockets"} \subseteq set
  BY NetworkHas
<1>3. Start!InLoop("control") =>
        /\ next["control"] > 8
        /\ {"control", "rules", "control_ids", "hang-up_timer", "sample_timer",
            "live_timer", "active_states"} \subseteq set
  BY ControlHas
<1>4. Start!InLoop("sampler") => {"sampler", "enable_timer"} \subseteq set
  BY SamplerHas
<1>5. Start!InLoop("sampler") => "network" \in set
  BY MarksTell, MainHas
<1> QED
  BY <1>1, <1>2, <1>3, <1>4, <1>5

(* A turn uses what is set; a press is known to come early.                 *)
LEMMA TurnFine ==
    ASSUME StartInv, NEW name, NEW uses, Start!Uses(Start!Step(name, uses, {})),
           Fine(name, uses)
    PROVE  Start!NothingIsEarly'
<1> DEFINE s == Start!Step(name, uses, {})
<1>1. s.name = name /\ s.uses = uses
  BY DEF Start!Step
<1> HIDE DEF s
<1> QED
  BY <1>1, FineUses DEF StartInv, Start!NothingIsEarly, s

LEMMA TurnsKeepTimes ==
    ASSUME StartInv, UNCHANGED <<next, set>>
    PROVE  LeftBehind' /\ ComesFrom'
BY DEF StartInv, LeftBehind, ComesFrom, Achieved

LEMMA NetworkTurns ==
    ASSUME StartInv, Start!NetworkTurn \/ Start!DemaoTurn \/ Start!ControlTurn
    PROVE  LeftBehind' /\ ComesFrom' /\ TimerRuns' /\ Start!NothingIsEarly'
<1>1. UNCHANGED <<next, set, timer>>
  BY DEF Start!NetworkTurn, Start!DemaoTurn, Start!ControlTurn, Start!Turn
<1>2. ASSUME Start!NetworkTurn
      PROVE  Start!NothingIsEarly'
  <2>1. Fine("network", {"sockets", "network_ids", "cache", "network"})
    BY <1>2, LoopsHave, FineSubset DEF Start!NetworkTurn, Start!Turn
  <2> QED
    BY <1>2, <2>1, TurnFine DEF Start!NetworkTurn, Start!Turn
<1>3. ASSUME Start!DemaoTurn
      PROVE  Start!NothingIsEarly'
  <2>1. Fine("demao", {"semaphores", "sampler"})
    BY <1>3, LoopsHave, ThreadsFind, FineSubset DEF Start!DemaoTurn, StartInv
  <2> QED
    BY <1>3, <2>1, TurnFine DEF Start!DemaoTurn, Start!Turn
<1>4. ASSUME Start!ControlTurn
      PROVE  Start!NothingIsEarly'
  <2>1. Fine("control", {"active_states", "control_ids", "rules", "hang-up_timer"})
    BY <1>4, LoopsHave, FineSubset DEF Start!ControlTurn, Start!Turn
  <2> QED
    BY <1>4, <2>1, TurnFine DEF Start!ControlTurn, Start!Turn
<1>5. TimerRuns'
  BY <1>1 DEF StartInv, TimerRuns
<1> QED
  BY <1>1, <1>2, <1>3, <1>4, <1>5, TurnsKeepTimes

LEMMA SamplerTurns ==
    ASSUME StartInv, Start!SamplerTurn
    PROVE  LeftBehind' /\ ComesFrom' /\ TimerRuns' /\ Start!NothingIsEarly'
<1>1. UNCHANGED <<next, set, timer>>
  BY DEF Start!SamplerTurn, Start!Turn
<1>2. timer = TRUE
  BY DEF Start!SamplerTurn, StartInv, StartTypes
<1>3. {"active_states", "control_ids"} \subseteq set
  BY <1>2, NextIsNat, ControlHas DEF StartInv, TimerRuns
<1>4. {"sampler", "enable_timer", "network"} \subseteq set
  BY LoopsHave DEF Start!SamplerTurn, Start!Turn
<1>5. Fine("sampler", {"semaphores", "enable_timer", "active_states", "control_ids",
                       "card_handle", "open_card", "blank_audio", "PTT_packages",
                       "network", "destination"})
  BY <1>3, <1>4, ThreadsFind DEF StartInv, Fine, Card
<1>6. Start!NothingIsEarly'
  BY <1>5, TurnFine DEF Start!SamplerTurn, Start!Turn
<1> QED
  BY <1>1, <1>6, TurnsKeepTimes DEF StartInv, TimerRuns

LEMMA ScreenTurns ==
    ASSUME StartInv, Start!AutoChangeIntercommButtonEnableStateAndColor
    PROVE  LeftBehind' /\ ComesFrom' /\ TimerRuns' /\ Start!NothingIsEarly'
<1> USE DEF Start!AutoChangeIntercommButtonEnableStateAndColor, Start!Turn
<1>1. UNCHANGED <<next, set, timer>>
  OBVIOUS
<1>2. Fine("control", {"main_group"})
  BY LoopsHave, FineSubset DEF Start!AlarmTSToChangeScreen
<1>3. Start!NothingIsEarly'
  BY <1>2, TurnFine
<1> QED
  BY <1>1, <1>3, TurnsKeepTimes DEF StartInv, TimerRuns

LEMMA PackageTurns ==
    ASSUME StartInv, Start!Package
    PROVE  LeftBehind' /\ ComesFrom' /\ TimerRuns' /\ Start!NothingIsEarly'
<1> USE DEF Start!Package, Start!Turn
<1>1. UNCHANGED <<next, set>>
  OBVIOUS
<1>2. /\ next["control"] > 8
      /\ {"active_states", "control_ids", "sample_timer"} \subseteq set
      /\ "control" \in set
  BY LoopsHave
<1>3. Fine("control", {"request_lists", "selection", "own_number", "active_states",
                       "control_ids", "sample_timer", "card_handle"})
  BY <1>2, ThreadsFind DEF StartInv, Fine, Card
<1>4. Start!NothingIsEarly'
  BY <1>3, TurnFine
<1>5. TimerRuns'
  BY <1>1, <1>2, NextIsNat DEF StartInv, TimerRuns
<1> QED
  BY <1>1, <1>4, <1>5, TurnsKeepTimes

LEMMA CommandTurns ==
    ASSUME StartInv, Start!Command
    PROVE  LeftBehind' /\ ComesFrom' /\ TimerRuns' /\ Start!NothingIsEarly'
<1> USE DEF Start!Command, Start!Turn
<1>1. UNCHANGED <<next, set>>
  OBVIOUS
<1>2. /\ next["control"] > 8
      /\ {"control", "rules", "control_ids", "sample_timer", "live_timer",
          "active_states"} \subseteq set
      /\ {"network", "cache"} \subseteq set
  BY LoopsHave
<1>3. Fine("control", Start!EnterSession \cup {"network", "control", "screen", "live_timer"})
  BY <1>2, ThreadsFind DEF StartInv, Fine, Card, Start!EnterSession
<1>4. Start!NothingIsEarly'
  BY <1>3, TurnFine
<1>5. TimerRuns'
  BY <1>1, <1>2, NextIsNat DEF StartInv, TimerRuns
<1> QED
  BY <1>1, <1>4, <1>5, TurnsKeepTimes

LEMMA Presses ==
    ASSUME StartInv, Start!Press
    PROVE  LeftBehind' /\ ComesFrom' /\ TimerRuns' /\ Start!NothingIsEarly'
<1> USE DEF Start!Press
<1>1. UNCHANGED <<next, set>>
  OBVIOUS
<1>2. {"screen", "touch_ids", "priorities", "volumes"} \subseteq set
  BY LoopsHave
<1>3. Fine("Press", Start!EnterSession \cup {"touch_ids", "volumes", "priorities",
                                             "page_flags", "request_lists"})
  BY <1>2, ThreadsFind DEF StartInv, Fine, Card, Start!EnterSession, Start!Known
<1>4. Start!NothingIsEarly'
  BY <1>3, TurnFine
<1>5. TimerRuns'
  <2>1. CASE Start!SessionsBegin
    BY <1>1, <2>1, MarksTell DEF StartInv, TimerRuns, Start!SessionsBegin
  <2>2. CASE ~Start!SessionsBegin
    BY <1>1, <2>2 DEF StartInv, TimerRuns
  <2> QED
    BY <2>1, <2>2
<1> QED
  BY <1>1, <1>4, <1>5, TurnsKeepTimes

LEMMA StartInvStep == StartInv /\ [Start!Next]_startVars => StartInv'
<1> SUFFICES ASSUME StartInv, [Start!Next]_startVars
             PROVE  LeftBehind' /\ ComesFrom' /\ TimerRuns' /\ Start!NothingIsEarly'
  BY StartTypesStep DEF StartInv
<1>1. ASSUME NEW t \in Start!Threads, Start!End(t)
      PROVE  UNCHANGED <<next, set, early, timer>>
  BY <1>1 DEF Start!End
<1>2. CASE UNCHANGED <<next, set, early, timer>>
  BY <1>2, TurnsKeepTimes DEF StartInv, TimerRuns, Start!NothingIsEarly
<1>3. CASE UNCHANGED startVars \/ UNCHANGED Start!vars
  BY <1>2, <1>3 DEF startVars, Start!vars
<1> QED
  BY <1>1, <1>2, <1>3, DoKeeps, NetworkTurns, SamplerTurns, ScreenTurns, PackageTurns,
     CommandTurns, Presses DEF Start!Next

-----------------------------------------------------------------------------
(* Behaviours of the seat *)

(* What a behaviour is not about keeps its initial state.                   *)
SeatInv ==
    /\ TypeOK
    /\ PasswordInv /\ VolumeInv /\ SpeakerInv
    /\ KeyInv /\ FlashInv /\ StartInv

LEMMA SeatInvInit == SeatInit => SeatInv
BY MenuInvInit, KeyInvInit, FlashInvInit, StartInvInit, TypeInit DEF SeatInit, SeatInv

LEMMA SeatInvStep ==
    SeatInv /\ [SeatNext]_<<subject, vars, menuVars, keyVars, flashVars, startVars>>
      => SeatInv'
<1> SUFFICES ASSUME SeatInv,
                    [SeatNext]_<<subject, vars, menuVars, keyVars, flashVars, startVars>>
             PROVE  SeatInv'
  OBVIOUS
<1>1. /\ [Next]_vars /\ [Menu!Next]_menuVars /\ [Key!Next]_keyVars
      /\ [Flash!Next]_flashVars /\ [Start!Next]_startVars
  BY DEF SeatNext
<1> QED
  BY <1>1, TypeStep, PasswordStep, VolumeStep, KeyInvStep, FlashInvStep, StartInvStep
     DEF SeatInv

LEMMA SeatInvHolds == SeatSpec => []SeatInv
BY SeatInvInit, SeatInvStep, PTL DEF SeatSpec

(* Cars, pages, keys, files and threads keep their types; the counter of a  *)
(* key passes its end by two at most, whatever its end is.                  *)
THEOREM SeatTypeCorrect == SeatSpec => []SeatTypeOK
<1>1. SeatInv => SeatTypeOK
  BY MenuInvGives, KeyInvGives, FlashInvGives, StartTypesGive
     DEF SeatInv, SeatTypeOK, StartInv
<1> QED
  BY <1>1, SeatInvHolds, PTL

(* The page of the password shows as many stars as digits are kept, and     *)
(* keeps nothing after a wrong one; the buttons of the volume are off       *)
(* exactly at its ends.                                                     *)
THEOREM PagesAreTrue == SeatSpec => []PagesTellState
<1>1. SeatInv => PagesTellState
  BY MenuInvGives DEF SeatInv
<1> QED
  BY <1>1, SeatInvHolds, PTL

(* In a call between drivers the speaker has the volume last chosen, but    *)
(* for packages that were lost or are on their way.                         *)
THEOREM DriverIsHeardAsChosen == SeatSpec => []CallIsAsLoudAsChosen
<1>1. SeatInv => CallIsAsLoudAsChosen
  BY MenuInvGives DEF SeatInv
<1> QED
  BY <1>1, SeatInvHolds, PTL

(* A press gives one event, however the two threads that count interrupt    *)
(* each other, unless one stores what has changed meanwhile.                *)
THEOREM OneEventPerPress == SeatSpec => []PressGivesOneEvent
<1>1. SeatInv => PressGivesOneEvent
  BY KeyInvGives DEF SeatInv
<1> QED
  BY <1>1, SeatInvHolds, PTL

(* Between two commands the firmware in place works, unless one told the    *)
(* seat not to check or the power went in the middle of one.                *)
THEOREM FirmwareWorks == SeatSpec => []KeepsWorking
<1>1. SeatInv => KeepsWorking
  BY FlashInvGives DEF SeatInv
<1> QED
  BY <1>1, SeatInvHolds, PTL

(* However the threads interleave while the program starts, and whatever    *)
(* comes from the network or a finger meanwhile, no step and no turn uses   *)
(* what nobody has set yet, but for what is known to come early.            *)
THEOREM NothingComesEarly == SeatSpec => []NothingIsEarly
<1>1. SeatInv => NothingIsEarly
  BY DEF SeatInv, StartInv, NothingIsEarly
<1> QED
  BY <1>1, SeatInvHolds, PTL
=============================================================================
