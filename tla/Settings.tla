------------------------------ MODULE Settings ------------------------------
(***************************************************************************)
(* The pages of the main file menu that lead to the volume of a call with   *)
(* another driver: the password, and the volume with its two buttons, on    *)
(* the touch screen thread.  A change goes to the control thread as a       *)
(* package in a one-place buffer; what finds it full is lost.  The speaker  *)
(* is also set by the sessions and the tones, on any thread.                *)
(*                                                                          *)
(* A digit is right or wrong at its place in the password.  The buttons for *)
(* the volumes of other devices are hidden.                                 *)
(***************************************************************************)
EXTENDS Naturals, Sequences

CONSTANT Length     \* digits of the password: 6

VARIABLES shown_page,
          password, ok, mask, title,   \* password_buffer, its button, what is shown
          d2d_volume, sub, inc, label, \* the volume, its buttons, what is shown
          dev_vol,                     \* dev_vol_info_buffer_id
          current_dia,                 \* the volume the speaker is set to
          session,                     \* what set the speaker last
          missed                       \* history: was a package lost since?

passwordVars == <<password, ok, mask, title>>
volumeVars == <<d2d_volume, sub, inc, label>>
speakerVars == <<dev_vol, current_dia, session, missed>>
vars == <<shown_page, passwordVars, volumeVars, speakerVars>>

Highest == 4
Sessions == {"start", "d2d", "call", "tone", "silent"}

\* DEFAULT_INTERCOMM_VOLUME is 2.
Init ==
  /\ shown_page = "static"
  /\ password = <<>> /\ ok = TRUE /\ mask = 0 /\ title = "none"
  /\ d2d_volume = 2 /\ sub = TRUE /\ inc = TRUE /\ label = 2
  /\ dev_vol = <<>> /\ current_dia = 2 /\ session = "start" /\ missed = FALSE

(***************************************************************************)
(* Menu and password                                                        *)
(***************************************************************************)
Show(from, to) == shown_page = from /\ shown_page' = to

cb_btn_main_file == Show("static", "main") /\ UNCHANGED label
cb_btn_main_file_back == Show("main", "static") /\ label' = d2d_volume
cb_btn_input_password_back == Show("password", "main") /\ UNCHANGED label
cb_btn_setting_back == Show("setting", "items") /\ UNCHANGED label
cb_btn_back_setting_items == Show("items", "main") /\ UNCHANGED label

Back ==
  /\ \/ cb_btn_main_file \/ cb_btn_main_file_back \/ cb_btn_input_password_back
     \/ cb_btn_setting_back \/ cb_btn_back_setting_items
  /\ UNCHANGED <<passwordVars, d2d_volume, sub, inc, speakerVars>>

EmptyPassword == password' = <<>> /\ mask' = 0

cb_btn_setting ==
  /\ Show("main", "password")
  /\ EmptyPassword /\ ok' = FALSE
  /\ UNCHANGED <<title, volumeVars, speakerVars>>

MaskAfter == IF Len(password) < Length THEN Len(password) + 1 ELSE mask

ShowTitleOfInputPassword(t) == title' = t

\* The button is turned on by the sixth digit; another one replaces it.
SetPassword(right) ==
  /\ password' = IF Len(password) < Length THEN Append(password, right)
                 ELSE [password EXCEPT ![Length] = right]
  /\ mask' = MaskAfter
  /\ ok' = (ok \/ Len(password) = Length - 1)

\* The digits 0 to 9
cb_btn_input_password ==
  /\ shown_page = "password"
  /\ \E right \in BOOLEAN : SetPassword(right)
  /\ ShowTitleOfInputPassword("input")
  /\ UNCHANGED <<shown_page, volumeVars, speakerVars>>

cb_btn_input_password_cancle ==
  /\ shown_page = "password"
  /\ EmptyPassword /\ ShowTitleOfInputPassword("input") /\ ok' = FALSE
  /\ UNCHANGED <<shown_page, volumeVars, speakerVars>>

\* The button stays as it is.
cb_btn_forget_password ==
  /\ shown_page = "password"
  /\ EmptyPassword /\ ShowTitleOfInputPassword("forget") /\ UNCHANGED ok
  /\ UNCHANGED <<shown_page, volumeVars, speakerVars>>

Refused == ShowTitleOfInputPassword("error") /\ ok' = FALSE /\ UNCHANGED shown_page

cb_btn_input_password_ok ==
  /\ shown_page = "password" /\ ok
  /\ IF password = [i \in 1 .. Length |-> TRUE]
     THEN shown_page' = "items" /\ UNCHANGED <<title, ok>>
     ELSE Refused
  /\ EmptyPassword
  /\ UNCHANGED <<volumeVars, speakerVars>>

(***************************************************************************)
(* Volume                                                                   *)
(***************************************************************************)
cb_btn_volume_adjust ==
  /\ Show("items", "setting") /\ label' = d2d_volume
  /\ UNCHANGED <<passwordVars, d2d_volume, sub, inc, speakerVars>>

SetDeviceVolumeCMDPackage ==
  /\ dev_vol' = IF dev_vol = <<>> THEN <<d2d_volume'>> ELSE dev_vol
  /\ missed' = (missed \/ dev_vol # <<>>)
  /\ UNCHANGED <<current_dia, session>>

Adjusted == label' = d2d_volume' /\ SetDeviceVolumeCMDPackage

\* mutant: the lowest volume does not turn its button off
SubUnbounded ==
  /\ d2d_volume' = d2d_volume - 1
  /\ inc' = (inc \/ d2d_volume' < Highest) /\ UNCHANGED sub

Lower ==
  /\ d2d_volume' = d2d_volume - 1
  /\ inc' = (inc \/ d2d_volume' < Highest) /\ sub' = (d2d_volume' # 0)

cb_btn_setting_d2d_intercomm_volume_sub ==
  /\ shown_page = "setting" /\ sub
  /\ Lower /\ Adjusted
  /\ UNCHANGED <<shown_page, passwordVars>>

cb_btn_setting_d2d_intercomm_volume_inc ==
  /\ shown_page = "setting" /\ inc
  /\ d2d_volume' = d2d_volume + 1
  /\ sub' = (sub \/ d2d_volume = 0) /\ inc' = (d2d_volume' # Highest)
  /\ Adjusted
  /\ UNCHANGED <<shown_page, passwordVars>>

(***************************************************************************)
(* Speaker                                                                  *)
(***************************************************************************)
\* The control thread takes a package, whatever the session.
SystemControl ==
  /\ dev_vol # <<>>
  /\ current_dia' = dev_vol[1] /\ dev_vol' = <<>>
  /\ UNCHANGED <<shown_page, passwordVars, volumeVars, session, missed>>

\* mutant: a call with another driver is as loud as one with a passenger
EnterVolumeFixed(s) == CASE s = "tone" -> 1 [] s = "silent" -> 0 [] OTHER -> Highest

\* D2DIntercomEnter takes the driver's choice, D2PIntercomEnter and
\* D2PMoniortEnter take 4, the tones 1, and the end of a tone 0.
EnterVolume(s) == CASE s = "d2d" -> d2d_volume [] s = "call" -> Highest
                    [] s = "tone" -> 1 [] OTHER -> 0

bcu_6d5w_ctrl_wilson ==
  /\ \E s \in Sessions \ {"start"} :
       session' = s /\ current_dia' = EnterVolume(s)
  /\ missed' = (dev_vol # <<>>)
  /\ UNCHANGED <<shown_page, passwordVars, volumeVars, dev_vol>>

Next ==
  \/ Back \/ cb_btn_setting \/ cb_btn_input_password \/ cb_btn_input_password_cancle
  \/ cb_btn_forget_password \/ cb_btn_input_password_ok \/ cb_btn_volume_adjust
  \/ cb_btn_setting_d2d_intercomm_volume_sub
  \/ cb_btn_setting_d2d_intercomm_volume_inc
  \/ SystemControl \/ bcu_6d5w_ctrl_wilson

Spec == Init /\ [][Next]_vars

(***************************************************************************)
(* Properties                                                               *)
(***************************************************************************)
TypeOK ==
  /\ shown_page \in {"static", "main", "password", "items", "setting"}
  /\ password \in Seq(BOOLEAN) /\ Len(password) <= Length
  /\ ok \in BOOLEAN /\ title \in {"none", "input", "error", "forget"}
  /\ sub \in BOOLEAN /\ inc \in BOOLEAN /\ label \in 0 .. Highest
  /\ dev_vol \in Seq(0 .. Highest) /\ Len(dev_vol) <= 1
  /\ current_dia \in 0 .. Highest /\ session \in Sessions /\ missed \in BOOLEAN

\* What the driver sees of the password is what is kept: as many stars as
\* digits, and after "wrong password" nothing is kept and nothing can be
\* confirmed, whichever buttons and pages came in between.
PasswordIsShown ==
  /\ mask = Len(password)
  /\ title = "error" => password = <<>> /\ ~ok

\* The volume stays on its scale, and a button is off exactly at its end;
\* the page shows the volume whenever it is open.
VolumeOnScale ==
  /\ d2d_volume \in 0 .. Highest
  /\ (sub <=> d2d_volume > 0) /\ (inc <=> d2d_volume < Highest)
  /\ shown_page = "setting" => label = d2d_volume

\* The pages tell the state behind them: ShowPasswordMask, ShowDeviceVolumeInfo
\* and the buttons beside them.
PagesTellState == PasswordIsShown /\ VolumeOnScale

\* In a call with another driver the speaker is as loud as chosen, also after
\* a change during the call, but for the packages that were lost or were
\* still waiting when the call began.
CallIsAsLoudAsChosen ==
  session = "d2d" /\ dev_vol = <<>> /\ ~missed => current_dia = d2d_volume
=============================================================================
