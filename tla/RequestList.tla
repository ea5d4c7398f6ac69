------------------------------ MODULE RequestList ------------------------------
(***************************************************************************)
(* The calls that wait for the driver: the two linked lists of PCU and BCU  *)
(* requests that the control thread keeps from the packages of the          *)
(* one-place buffer "network-udp-server-recv", the rows of the touch screen *)
(* that show them, and the choices the driver makes from those rows.        *)
(*                                                                          *)
(* The network, the touch screen and the control thread itself write that   *)
(* buffer; the control thread reads it.  Only the touch screen thread draws *)
(* the lists: the control thread sets switchFlag and waits until its        *)
(* handler has run.  Each thread runs from one blocking call (cyg_thread_   *)
(* delay, Fl::wait, the wait for switchFlag) to the next in one step.       *)
(*                                                                          *)
(* Which page is on show is left out: a button may be pressed whenever it   *)
(* is active.  So is current_state of a list node, which nobody reads, and  *)
(* with it update_list.  A package keeps one device number, the field that  *)
(* its type reads.                                                          *)
(***************************************************************************)
EXTENDS Integers, SequencesExt

CONSTANTS PcuCalls, BcuCalls,   \* the devices that call, by car and number
          Seats,            \* the driver seats that packages name
          ConfiguredSeat,   \* what the configuration file says this one is
          PcuRows, BcuRows, \* 12 and 8 in the code
          Garbage           \* what an uninitialised int may hold

ASSUME NumbersAssumption == /\ PcuCalls \subseteq Nat \X (Nat \ {0})
                            /\ BcuCalls \subseteq Nat \X (Nat \ {0})
                            /\ Seats \subseteq Nat /\ ConfiguredSeat \in Nat
                            /\ Garbage \subseteq Nat
ASSUME RowsAssumption == PcuRows \in Nat /\ BcuRows \in Nat

VARIABLES list,             \* PCURequsthead and BCURequsthead
          number,           \* request_number and bcu_request_number
          rows,             \* what each row shows
          server_recv,      \* "network-udp-server-recv"
          iph_select_intercom,  \* the package about the PCU chosen
          gwCurD2d,         \* the BCU chosen
          devices_no,
          switchFlag, c_pc, c_todo,     \* control: handshakes to come
          whether_ts_is_running, whether_intercomm_button_is_active, d2d_flag,
          t_pc, t_handler,              \* touch: inside the handler of 17?
          buttons, d2p_button_state,
          d2p_page_select_iph_btn_state, is_intercomming_with_pcu

lists == <<list, number>>
choice == <<iph_select_intercom, gwCurD2d>>
control == <<c_pc, c_todo, whether_ts_is_running,
             whether_intercomm_button_is_active, d2d_flag>>
touch == <<t_pc, t_handler>>
d2p == <<d2p_button_state, d2p_page_select_iph_btn_state,
         is_intercomming_with_pcu>>
vars == <<lists, rows, server_recv, choice, devices_no, switchFlag, control,
          touch, buttons, d2p>>

Kinds == {"PCU", "BCU"}
RowsOf(k) == IF k = "PCU" THEN 1 .. PcuRows ELSE 1 .. BcuRows
Hidden == <<>>
Calls == Nat \X Nat         \* vehicle_number, devices_id

(* The big packages of this component: 6, the control centre takes or       *)
(* refuses a call for a seat; 8 and 11, a PCU or BCU calls; 9 and 12, a     *)
(* seat took the call; 10 and 13, a seat refused it.                        *)
Package(type, on, seat, r) ==
    [type |-> type, on |-> on, seat |-> seat, car |-> r[1], dev |-> r[2]]
Packages == {Package(6, o, s, r) : o \in {0, 1}, s \in Seats, r \in PcuCalls}
            \union {Package(t, 0, s, r) : t \in 8 .. 10, s \in Seats, r \in PcuCalls}
            \union {Package(t, 0, s, r) : t \in 11 .. 13, s \in Seats, r \in BcuCalls}
(* A refusal turns the package about the chosen PCU into one of type 10. *)
Refusal(p, car) == Package(10, p.on, p.seat, <<car, p.dev>>)
NoPackage == Package(0, 0, 0, <<0, 0>>)

Init == /\ list = [k \in Kinds |-> <<>>]
        /\ number = [k \in Kinds |-> 0]
        /\ rows = [k \in Kinds |-> [i \in RowsOf(k) |-> Hidden]]
        /\ server_recv = <<>>
        /\ iph_select_intercom = NoPackage
        /\ gwCurD2d = <<0, 0>>
        /\ devices_no = ConfiguredSeat
        /\ switchFlag = 0
        /\ c_pc = "buttons" /\ c_todo = <<>>
        /\ whether_ts_is_running = 0
        /\ whether_intercomm_button_is_active = 0
        /\ d2d_flag = 0
        /\ t_pc = "wait" /\ t_handler = FALSE
        /\ buttons = {"d2d_rows"}
        /\ d2p_button_state = 0
        /\ d2p_page_select_iph_btn_state = 0
        /\ is_intercomming_with_pcu = 0

-----------------------------------------------------------------------------
(* link.cxx *)

query_list(l, r) == \E i \in 1 .. Len(l) : l[i] = r

insert_list_blindly(l, r) == Append(l, r)   \* mutant: no query first
insert_list(l, r) == IF query_list(l, r) THEN l ELSE Append(l, r)

deletes_list(l, r) ==
    IF query_list(l, r)
    THEN RemoveAt(l, CHOOSE i \in 1 .. Len(l) : l[i] = r)
    ELSE l

(* BlockBufferWrite into the buffer of one place; nobody looks at the answer. *)
Put(p) == server_recv' = IF server_recv = <<>> THEN <<p>> ELSE server_recv

(* ShowD2PRequest and ShowD2DRequest: the first n rows are relabelled as    *)
(* far as the list goes, the others hidden.                                 *)
ShowRequests(k) ==
    rows' = [rows EXCEPT ![k] =
        [i \in RowsOf(k) |->
            IF i > number[k] THEN Hidden
            ELSE IF i <= Len(list[k]) THEN list[k][i] ELSE rows[k][i]]]

-----------------------------------------------------------------------------
(* The control thread: one turn of the loop of SystemControl *)

(* AlarmTSToChangeScreen: 2 and 3 light the intercom button or not, 13      *)
(* enables the screen, 4 and 9 show the lists, 17 is the metal button.      *)
ShowCode(k) == IF k = "PCU" THEN 4 ELSE 9

Alarm == /\ c_todo # <<>> /\ switchFlag = 0
         /\ switchFlag' = Head(c_todo)
         /\ c_todo' = Tail(c_todo)
         /\ UNCHANGED <<lists, rows, server_recv, choice, devices_no, c_pc,
                        whether_ts_is_running,
                        whether_intercomm_button_is_active, d2d_flag,
                        touch, buttons, d2p>>

At(pc) == c_pc = pc /\ c_todo = <<>> /\ switchFlag = 0

(* ProbeMetalButtonToPerform, for the D2P button *)
ProbeMetalButton == /\ At("metal")
                    /\ c_todo' \in {<<>>, <<17>>}
                    /\ c_pc' = "d2d"
                    /\ UNCHANGED <<lists, rows, server_recv, choice, devices_no,
                                   switchFlag, whether_ts_is_running,
                                   whether_intercomm_button_is_active,
                                   d2d_flag, touch, buttons, d2p>>

(* JudgeWhetherD2DHaveFinished: with a BCU chosen the metal D2D button may  *)
(* end a call; then come the exchange, its delay and the package 13.        *)
CancelPackage == Package(13, 0, devices_no, gwCurD2d)

ProbeD2DButton == /\ At("d2d")
                  /\ \/ c_pc' = "buttons"
                     \/ "d2d_rows" \notin buttons /\ c_pc' = "cancel"
                  /\ UNCHANGED <<lists, rows, server_recv, choice, devices_no,
                                 switchFlag, c_todo, whether_ts_is_running,
                                 whether_intercomm_button_is_active, d2d_flag,
                                 touch, buttons, d2p>>

ControlCancel == /\ At("cancel")
                 /\ Put(CancelPackage)
                 /\ buttons' = buttons \union {"d2d_rows"}
                 /\ c_pc' = "buttons"
                 /\ UNCHANGED <<lists, rows, choice, devices_no, switchFlag,
                                c_todo, whether_ts_is_running,
                                whether_intercomm_button_is_active, d2d_flag,
                                touch, d2p>>

(* ChangeIntercommButtonColor and AutoChangeIntercommButtonEnableStateAnd-  *)
(* Color compare the counts with what they did last.                        *)
LightButton == /\ number["PCU"] > 0 /\ whether_intercomm_button_is_active = 0
               /\ whether_intercomm_button_is_active' = 1
               /\ whether_ts_is_running' = 1
               /\ c_todo' = <<13, 2>>

DarkenButtonForgotten ==    \* mutant: the flag stays set, as if still lit
                /\ number["PCU"] = 0 /\ whether_ts_is_running = 1
                /\ whether_intercomm_button_is_active' = 1
                /\ whether_ts_is_running' = 0
                /\ c_todo' = <<3>>

DarkenButton == /\ number["PCU"] = 0 /\ whether_ts_is_running = 1
                /\ whether_intercomm_button_is_active' = 0
                /\ whether_ts_is_running' = 0
                /\ c_todo' = <<3>>

KeepButton == /\ number["PCU"] > 0 => whether_intercomm_button_is_active = 1
              /\ number["PCU"] = 0 => whether_ts_is_running = 0
              /\ UNCHANGED <<whether_intercomm_button_is_active,
                             whether_ts_is_running, c_todo>>

ChangeButtons == /\ At("buttons")
                 /\ LightButton \/ DarkenButton \/ KeepButton
                 /\ d2d_flag' = IF number["BCU"] > 0 THEN 1 ELSE 0
                 /\ c_pc' = "read"
                 /\ UNCHANGED <<lists, rows, server_recv, choice, devices_no,
                                switchFlag, touch, buttons, d2p>>

(* The refresh at the end of a package (bcu_main.cxx:317-326). *)
RefreshTested(n) == IF n["BCU"] # 0 THEN <<9, 4>> ELSE <<>>  \* mutant: one test
Refresh(n) == (IF n["BCU"] # 0 THEN <<9>> ELSE <<>>)
              \o (IF n["PCU"] # 0 THEN <<4>> ELSE <<>>)

(* A package leaves kind k with list l and count n.  The ...Link functions  *)
(* that find the list empty redraw it at once, but for the inserting ones.  *)
UpdateUndrawn(k, l, n, redraw) ==   \* mutant: an emptied list is not redrawn
    LET counts == [number EXCEPT ![k] = n] IN
    /\ list' = [list EXCEPT ![k] = l]
    /\ number' = counts
    /\ c_todo' = Refresh(counts)
Update(k, l, n, redraw) ==
    LET counts == [number EXCEPT ![k] = n] IN
    /\ list' = [list EXCEPT ![k] = l]
    /\ number' = counts
    /\ c_todo' = (IF redraw /\ l = <<>> THEN <<ShowCode(k)>> ELSE <<>>)
                 \o Refresh(counts)

(* IphRequestInsertLink, BcuRequestInsertLink *)
RequestInsertLink(k, p) ==
    LET l == insert_list(list[k], <<p.car, p.dev>>)
    IN  Update(k, l, Len(l), FALSE)

(* The rest of the ...UpdateLink and ...DeleteLink that do delete. *)
DropCall(k, p) == LET l == deletes_list(list[k], <<p.car, p.dev>>)
                  IN  Update(k, l, Len(l), TRUE)

(* IphUpdateLink: the call another seat took is dropped here. *)
UpdateLink(k, p) ==
    \/ p.seat # devices_no /\ DropCall(k, p)
    \/ p.seat = devices_no /\ Update(k, list[k], Len(list[k]), TRUE)

BcuUpdateLink(p) == UpdateLink("BCU", p)

(* IphDeleteLink, BcuDeleteLink: a call that this seat refused.  For        *)
(* another seat's refusal the first returns 0 and the second a variable it  *)
(* never set.                                                               *)
DeleteLinkUncounted(k, p) ==    \* mutant: the count is taken first
    /\ p.seat = devices_no
    /\ LET l == deletes_list(list[k], <<p.car, p.dev>>)
       IN  Update(k, l, Len(list[k]), TRUE)
DeleteLinkDecrements(k, p) ==   \* mutant: one less, found or not
    /\ p.seat = devices_no
    /\ Update(k, deletes_list(list[k], <<p.car, p.dev>>), number[k] - 1, TRUE)
DeleteLink(k, p) ==
    \/ p.seat = devices_no /\ DropCall(k, p)
    \/ /\ p.seat # devices_no
       /\ \E n \in IF k = "PCU" THEN {0} ELSE Garbage :
              Update(k, list[k], n, FALSE)

(* The number that a label shows is read back from its first characters:    *)
(* one digit, but for the cars 10 and 11.  A device beyond 8 leaves         *)
(* d2p_reponse_sursor as it was.                                            *)
FirstDigit(n) == {d \in 1 .. 9 : \E k \in 0 .. 9 : n \div (10 ^ k) = d}
CarRead(car) == IF car < 12 THEN {car} ELSE FirstDigit(car)

parse_btn_lable_value(r) ==
    CarRead(r[1]) \X (IF FirstDigit(r[2]) \subseteq 1 .. 8
                      THEN FirstDigit(r[2]) ELSE 1 .. 8)

(* The D2D page hands over two variables that it never set. *)
parse_btn_lable_value_bcu(r) ==
    (IF r[1] = 0 THEN Garbage ELSE CarRead(r[1]))
    \X (IF r[2] \in 1 .. 2 THEN {r[2]} ELSE Garbage \union 1 .. 2)

(* SetIntercomBigPackage and Disable_D2p_All_Btn *)
SelectPcu(r) ==
    /\ iph_select_intercom' = Package(9, 0, devices_no, r)
    /\ d2p_page_select_iph_btn_state' = 1
    /\ buttons' = buttons \union {"accept"}

(* RecvD2PRequest, after a choice that SelectPcu makes (case 6) or not. *)
RecvD2PRequest(active) ==
    /\ buttons' = active \ {"accept"}
    /\ is_intercomming_with_pcu' = 1
    /\ d2p_button_state' = 2

(* ProbeBigCommPackage case 6, taken for this seat: the seat's own number   *)
(* stands for the car.                                                      *)
IscsReceive(p) ==
    /\ p.type = 6 /\ p.on = 1 /\ p.seat = devices_no
    /\ iph_select_intercom' = Package(9, 0, devices_no, <<devices_no, p.dev>>)
    /\ d2p_page_select_iph_btn_state' = 1
    /\ RecvD2PRequest(buttons)
    /\ server_recv' = <<iph_select_intercom'>>
    /\ c_todo' = Refresh(number)
    /\ c_pc' = "check"
    /\ UNCHANGED <<lists, gwCurD2d>>

IscsRefuse(p) ==
    /\ p.type = 6 /\ p.on = 0 /\ p.seat = devices_no
    /\ iph_select_intercom' = Refusal(iph_select_intercom, p.car)
    /\ server_recv' = <<>>
    /\ c_pc' = "refuse"
    /\ UNCHANGED <<lists, gwCurD2d, c_todo, buttons, d2p>>

(* Case 6 for another seat deletes as if this seat had refused. *)
IscsElsewhere(p) ==
    /\ p.type = 6 /\ p.seat # devices_no
    /\ \/ p.on = 1 /\ DropCall("PCU", p)
       \/ p.on = 0 /\ UNCHANGED lists /\ c_todo' = Refresh(number)
    /\ server_recv' = <<>>
    /\ c_pc' = "check"
    /\ UNCHANGED <<choice, buttons, d2p>>

LinkPackage(p) ==
    /\ \/ p.type = 8 /\ RequestInsertLink("PCU", p)
       \/ p.type = 9 /\ UpdateLink("PCU", p)
       \/ p.type = 10 /\ DeleteLink("PCU", p)
       \/ p.type = 11 /\ RequestInsertLink("BCU", p)
       \/ p.type = 12 /\ BcuUpdateLink(p)
       \/ p.type = 13 /\ DeleteLink("BCU", p)
    /\ server_recv' = <<>>
    /\ c_pc' = "check"
    /\ UNCHANGED <<choice, buttons, d2p>>

ProbeBigCommPackage ==
    /\ At("read")
    /\ server_recv # <<>>
    /\ LET p == Head(server_recv) IN
           IscsReceive(p) \/ IscsRefuse(p) \/ IscsElsewhere(p) \/ LinkPackage(p)
    /\ UNCHANGED <<rows, devices_no, switchFlag, whether_ts_is_running,
                   whether_intercomm_button_is_active, d2d_flag, touch>>

NothingToRead == /\ At("read")
                 /\ server_recv = <<>>
                 /\ c_pc' = "check"
                 /\ UNCHANGED <<lists, rows, server_recv, choice, devices_no,
                                switchFlag, c_todo, whether_ts_is_running,
                                whether_intercomm_button_is_active, d2d_flag,
                                touch, buttons, d2p>>

(* RefuseD2PRequest up to its delay, and the write after it. *)
RefuseD2PRequest ==
    /\ is_intercomming_with_pcu' = 0
    /\ d2p_page_select_iph_btn_state' = 0
    /\ buttons' = buttons \ {"accept", "refuse"}
    /\ UNCHANGED d2p_button_state

ControlRefuse == /\ At("refuse")
                 /\ RefuseD2PRequest
                 /\ c_pc' = "write"
                 /\ UNCHANGED <<lists, rows, server_recv, choice, devices_no,
                                switchFlag, c_todo, whether_ts_is_running,
                                whether_intercomm_button_is_active, d2d_flag,
                                touch>>

ControlWrite == /\ At("write")
                /\ Put(iph_select_intercom)
                /\ c_todo' = Refresh(number)
                /\ c_pc' = "check"
                /\ UNCHANGED <<lists, rows, choice, devices_no, switchFlag,
                               whether_ts_is_running,
                               whether_intercomm_button_is_active, d2d_flag,
                               touch, buttons, d2p>>

(* CheckSoundRespnes: its condition assigns 3 to any seat that is not 4. *)
CheckSoundRespnes == /\ At("check")
                     /\ devices_no' = IF devices_no = 4 THEN 4 ELSE 3
                     /\ c_pc' = "metal"
                     /\ UNCHANGED <<lists, rows, server_recv, choice, switchFlag,
                                    c_todo, whether_ts_is_running,
                                    whether_intercomm_button_is_active,
                                    d2d_flag, touch, buttons, d2p>>

ControlStep == \/ Alarm \/ ProbeMetalButton \/ ProbeD2DButton
               \/ ControlCancel \/ ChangeButtons
               \/ ProbeBigCommPackage \/ NothingToRead
               \/ ControlRefuse \/ ControlWrite \/ CheckSoundRespnes

-----------------------------------------------------------------------------
(* The touch screen thread: a callback, or nothing, in Fl::wait, and then   *)
(* a look at switchFlag.                                                    *)

(* ShowD2Ppage, from btn_intercomm or from the metal button. *)
ShowD2Ppage == /\ ShowRequests("PCU")
               /\ d2p_button_state' = 1
               /\ UNCHANGED <<d2p_page_select_iph_btn_state,
                              is_intercomming_with_pcu>>

Callback == t_pc = "wait" /\ t_handler' = FALSE

cb_btn_intercomm == /\ Callback /\ "intercomm" \in buttons
                    /\ ShowD2Ppage
                    /\ t_pc' = "look"
                    /\ UNCHANGED <<server_recv, choice, buttons>>

(* A row of the D2P page: the label that is on it is the choice. *)
cb_btn_d2p_request(i) ==
    /\ Callback
    /\ rows["PCU"][i] # Hidden
    /\ d2p_page_select_iph_btn_state = 0 /\ is_intercomming_with_pcu = 0
    /\ \E r \in parse_btn_lable_value(rows["PCU"][i]) : SelectPcu(r)
    /\ t_pc' = "look"
    /\ UNCHANGED <<rows, server_recv, gwCurD2d, d2p_button_state,
                   is_intercomming_with_pcu>>

cb_btn_intercomm_accept ==
    /\ Callback /\ "accept" \in buttons
    /\ RecvD2PRequest(buttons \union {"refuse"})
    /\ Put(iph_select_intercom)
    /\ t_pc' = "look"
    /\ UNCHANGED <<rows, choice, d2p_page_select_iph_btn_state>>

cb_btn_intercomm_refuse ==
    /\ Callback /\ "refuse" \in buttons
    /\ iph_select_intercom' = Refusal(iph_select_intercom, iph_select_intercom.car)
    /\ t_pc' = "refuse"
    /\ UNCHANGED <<rows, server_recv, gwCurD2d, buttons, d2p>>

(* The BCU called by the package 12; the rows go dark. *)
SetD2dCmdPackage(r) == /\ gwCurD2d' = r
                       /\ buttons' = buttons \ {"d2d_rows"}

(* A row of the D2D page; the last one reads the label of the second (the   *)
(* rows fill from the first).                                               *)
LabelRead(i) == IF i = BcuRows /\ i > 2 THEN 2 ELSE i

cb_btn_d2d(i) == /\ Callback /\ "d2d_rows" \in buttons
                 /\ rows["BCU"][i] # Hidden
                 /\ LabelRead(i) \in RowsOf("BCU")
                 /\ rows["BCU"][LabelRead(i)] # Hidden
                 /\ \E r \in parse_btn_lable_value_bcu(rows["BCU"][LabelRead(i)]) :
                        SetD2dCmdPackage(r)
                 /\ t_pc' = "look"
                 /\ UNCHANGED <<rows, server_recv, iph_select_intercom, d2p>>

(* canenl_d2d in a call: the exchange, its delay, and the package 13. *)
cb_canenl_d2d == /\ Callback /\ "d2d_rows" \notin buttons
                 /\ t_pc' = "cancel"
                 /\ UNCHANGED <<rows, server_recv, choice, buttons, d2p>>

NoCallback == /\ Callback
              /\ t_pc' = "look"
              /\ UNCHANGED <<rows, server_recv, choice, buttons, d2p>>

TouchRefuse == /\ t_pc = "refuse"
               /\ RefuseD2PRequest
               /\ t_pc' = "write"
               /\ UNCHANGED <<rows, server_recv, choice, t_handler, switchFlag>>

(* The end of the refusal, in a callback or in the handler. *)
TouchWrite == /\ t_pc = "write"
              /\ Put(iph_select_intercom)
              /\ t_pc' = IF t_handler THEN "wait" ELSE "look"
              /\ switchFlag' = IF t_handler THEN 0 ELSE switchFlag
              /\ UNCHANGED <<rows, choice, t_handler, buttons, d2p>>

TouchCancel == /\ t_pc = "cancel"
               /\ Put(CancelPackage)
               /\ buttons' = buttons \union {"d2d_rows"}
               /\ t_pc' = "look"
               /\ UNCHANGED <<rows, choice, t_handler, d2p, switchFlag>>

NoAlarm == /\ t_pc = "look" /\ switchFlag = 0
           /\ t_pc' = "wait"
           /\ UNCHANGED <<rows, server_recv, choice, t_handler, buttons, d2p,
                          switchFlag>>

AlarmDone == t_pc = "look" /\ t_pc' = "wait" /\ switchFlag' = 0
             /\ UNCHANGED t_handler

HandleShow(k) == /\ switchFlag = ShowCode(k)
                 /\ AlarmDone
                 /\ ShowRequests(k)
                 /\ UNCHANGED <<server_recv, choice, buttons, d2p>>

(* SetD2PTipButtonState and EnableTS *)
HandleButton == /\ switchFlag \in {2, 3, 13}
                /\ AlarmDone
                /\ buttons' = CASE switchFlag = 2 -> buttons \union {"intercomm"}
                                [] switchFlag = 3 -> buttons \ {"intercomm"}
                                [] OTHER -> buttons
                /\ UNCHANGED <<rows, server_recv, choice, d2p>>

(* JudegD2PButton: the static page may be on show or not. *)
HandleMetalShow == /\ switchFlag = 17 /\ AlarmDone
                   /\ d2p_button_state = 0 /\ number["PCU"] > 0
                   /\ ShowD2Ppage
                   /\ UNCHANGED <<server_recv, choice, buttons>>

HandleMetalReceive == /\ switchFlag = 17 /\ AlarmDone
                      /\ d2p_button_state = 1
                      /\ d2p_page_select_iph_btn_state = 1
                      /\ RecvD2PRequest(buttons)
                      /\ UNCHANGED <<rows, server_recv, choice,
                                     d2p_page_select_iph_btn_state>>

HandleMetalNothing == /\ switchFlag = 17 /\ AlarmDone
                      /\ d2p_button_state \in {0, 1}
                      /\ d2p_button_state = 1
                            => d2p_page_select_iph_btn_state = 0
                      /\ UNCHANGED <<rows, server_recv, choice, buttons, d2p>>

HandleMetalRefuse ==
    /\ t_pc = "look" /\ switchFlag = 17
    /\ d2p_button_state = 2
    /\ iph_select_intercom' = Refusal(iph_select_intercom, iph_select_intercom.car)
    /\ t_pc' = "refuse" /\ t_handler' = TRUE
    /\ UNCHANGED <<rows, server_recv, gwCurD2d, switchFlag, buttons, d2p>>

AnyCallback == \/ cb_btn_intercomm \/ cb_btn_intercomm_accept
               \/ cb_btn_intercomm_refuse \/ cb_canenl_d2d \/ NoCallback
               \/ \E i \in RowsOf("PCU") : cb_btn_d2p_request(i)
               \/ \E i \in RowsOf("BCU") : cb_btn_d2d(i)

TouchStep == /\ \/ AnyCallback /\ UNCHANGED switchFlag
                \/ TouchRefuse \/ TouchWrite \/ TouchCancel
                \/ NoAlarm \/ HandleButton \/ \E k \in Kinds : HandleShow(k)
                \/ HandleMetalShow \/ HandleMetalReceive \/ HandleMetalNothing
                \/ HandleMetalRefuse
             /\ UNCHANGED <<lists, devices_no, control>>

-----------------------------------------------------------------------------
(* The network thread hands over a datagram; one that finds the buffer full *)
(* is lost, which changes nothing.                                          *)
NetworkRecv(p) == /\ server_recv = <<>>
                  /\ server_recv' = <<p>>
                  /\ UNCHANGED <<lists, rows, choice, devices_no, switchFlag,
                                 control, touch, buttons, d2p>>

Next == \/ ControlStep
        \/ TouchStep
        \/ \E p \in Packages : NetworkRecv(p)

Spec == Init /\ [][Next]_vars

(* The scheduler runs both threads, and Fl::wait keeps returning. *)
FairSpec == Spec /\ WF_vars(ControlStep) /\ WF_vars(TouchStep)
-----------------------------------------------------------------------------
(* Properties *)

Codes == {2, 3, 4, 9, 13, 17}   \* what the control thread asks of the screen
PackageType == [type : 0 .. 13, on : {0, 1}, seat : Nat, car : Nat, dev : Nat]

(* Every variable keeps its type; in particular the lists stay lists of     *)
(* calls and the buffer never holds more than its one package.              *)
TypeOK == /\ list \in [Kinds -> Seq(Calls)]
          /\ number \in [Kinds -> Nat]
          /\ DOMAIN rows = Kinds
          /\ \A k \in Kinds : rows[k] \in [RowsOf(k) -> Calls \union {Hidden}]
          /\ server_recv \in Seq(PackageType) /\ Len(server_recv) <= 1
          /\ iph_select_intercom \in PackageType
          /\ gwCurD2d \in Calls
          /\ devices_no \in Nat
          /\ switchFlag \in Codes \union {0}
          /\ c_pc \in {"metal", "d2d", "cancel", "buttons", "read", "refuse",
                       "write", "check"}
          /\ c_todo \in Seq(Codes)
          /\ whether_ts_is_running \in {0, 1}
          /\ whether_intercomm_button_is_active \in {0, 1}
          /\ d2d_flag \in {0, 1}
          /\ t_pc \in {"wait", "look", "refuse", "write", "cancel"}
          /\ t_handler \in BOOLEAN
          /\ buttons \subseteq {"intercomm", "accept", "refuse", "d2d_rows"}
          /\ d2p_button_state \in 0 .. 2
          /\ d2p_page_select_iph_btn_state \in {0, 1}
          /\ is_intercomming_with_pcu \in {0, 1}

(* A device that calls again while it waits is listed once: insert_list     *)
(* looks it up first, and a deletion (deletes_list takes the first match    *)
(* only) really ends its call.                                              *)
NoDuplicates ==
    \A k \in Kinds : \A i, j \in 1 .. Len(list[k]) :
        list[k][i] = list[k][j] => i = j

(* request_number, on which the pages and the tones decide, is never        *)
(* anything but the length of the list or 0 (ProbeBigCommPackage); only     *)
(* the other count may hold what BcuDeleteLink never set.                   *)
CountsTellLength ==
    /\ number["PCU"] \in {0, Len(list["PCU"])}
    /\ number["BCU"] \in Garbage \union {Len(list["BCU"])}

(* No call of kind k is waiting to be redrawn. *)
Drawn(k) == /\ switchFlag # ShowCode(k)
            /\ \A i \in 1 .. Len(c_todo) : c_todo[i] # ShowCode(k)

(* Once the handshakes of a package are over, the rows that the driver may  *)
(* press name only calls that still wait, and as many calls as the count    *)
(* says are on the screen in the order in which they came (ShowD2PRequest,  *)
(* ShowD2DRequest), whatever was inserted, dropped or refused meanwhile.    *)
RowsShowRequests ==
    \A k \in Kinds : Drawn(k) => \A i \in RowsOf(k) :
        /\ rows[k][i] # Hidden => query_list(list[k], rows[k][i])
        /\ number[k] > 0 =>
              rows[k][i] = IF i <= number[k] /\ i <= Len(list[k])
                           THEN list[k][i] ELSE Hidden

(* When ChangeIntercommButtonColor has done its part of the loop, the       *)
(* button that opens the D2P page is active exactly when the count is       *)
(* positive: the two flags it remembers by never disagree with the screen.  *)
ButtonFollowsCount ==
    At("read") => ("intercomm" \in buttons <=> number["PCU"] > 0)

(* A call that the count includes and that has a row of its own comes on    *)
(* the screen, unless it ends or the count is reset first: the control      *)
(* thread and the touch screen thread never wait for one another for ever.  *)
Shown(r) == \E i \in RowsOf("PCU") : rows["PCU"][i] = r
Waiting(r) == /\ number["PCU"] > 0
              /\ \E i \in 1 .. Len(list["PCU"]) :
                    i <= PcuRows /\ list["PCU"][i] = r

CallsAreShown ==
    \A r \in PcuCalls : Waiting(r) ~> (Shown(r) \/ ~Waiting(r))

(* bcu_function.cxx:2102 says that CheckSoundRespnes found seat 3 or 4; it  *)
(* has three branches for the other seats.                                  *)
SeatIsConfigured == devices_no = ConfiguredSeat
==============================================================================
