------------------------------ MODULE StateTables ------------------------------
(***************************************************************************)
(* The constant tables of the seat's two state machines: the rules of the   *)
(* intercom states, the priorities of the announcement states, and what a   *)
(* command of the touch screen asks of either.                              *)
(***************************************************************************)
EXTENDS Naturals

Commands == {"live_on", "live_off", "d2p_on", "d2p_off"}

\* What the package of a command says.  Nobody sends the D2D commands.
BCUSetTSCmd(command) ==
  [event_type_ann |->
     IF command \in {"live_on", "live_off"} THEN "live" ELSE "idle",
   event_type_intercom |->
     CASE command \in {"d2p_on", "d2p_off"} -> "d2p"
       [] command \in {"d2d_on", "d2d_off"} -> "d2d"
       [] OTHER -> "idle",
   active |-> command \in {"live_on", "d2p_on", "d2d_on"}]

(***************************************************************************)
(* Intercom                                                                 *)
(***************************************************************************)
RuleSet(source, dest, event) == <<source, event, dest>>

\* Fewer than RECORD_OF_RULES; the first rule that fits is the only one.
BCURuleTableInit ==
  {RuleSet("idle", "d2d", "driver_call"), RuleSet("idle", "d2p", "pcu_call"),
   RuleSet("idle", "monitor", "monitor_call"),
   RuleSet("monitor", "idle", "monitor_exit"),
   RuleSet("d2d", "idle", "driver_release"),
   RuleSet("d2p", "idle", "pcu_release"),
   RuleSet("d2p", "hang_up", "transfer_to_d2d"),
   RuleSet("hang_up", "d2d", "time_out"),
   RuleSet("hang_up", "d2p", "transfer_to_d2p")}

GetEventType(state, command) ==
  CASE command = "live_on" -> "live_press"
    [] command = "live_off" -> "return_press"
    [] command = "d2p_on" -> "pcu_call"
    [] command = "d2p_off" -> "pcu_release"
    [] command = "d2d_on" /\ state = "d2p" -> "transfer_to_d2d"
    [] command = "d2d_on" /\ state # "d2p" -> "driver_call"
    [] command = "d2d_off" -> "transfer_to_d2p"

(***************************************************************************)
(* Announcements                                                            *)
(***************************************************************************)
\* bcu_ann_priority_default_table: a small number goes before a large one.
DefaultPriority ==
  [occ |-> 1, mic_3d5 |-> 2, live |-> 3, emerg |-> 4, manual |-> 5,
   tms_auto |-> 6, tms_manual |-> 7]

\* The idle node ends the list with 0xFFFFFFFF, behind every other.
IdlePriority == 8

BcuAnnStateCreatePriorityList(table) ==
  [event \in DOMAIN table \cup {"idle"} |->
     IF event = "idle" THEN IdlePriority ELSE table[event]]

\* Without a table from the database, the default one.
BcuAnnStateListUpdate == BcuAnnStateCreatePriorityList(DefaultPriority)

BcuAnnStatePriorityListSearch(event) == BcuAnnStateListUpdate[event]

\* Which machine a state belongs to.
BcuStateEventIdJudge(event) ==
  CASE event \in DOMAIN DefaultPriority \cup {"idle"} -> "ann"
    [] event \in {"d2d", "d2p", "hang_up", "d2p_pending"} -> "intercom"
    [] event = "line_number_change" -> "line"
    [] OTHER -> "none"

WhetherOverPackage(command) == command = "live_off"
===============================================================================
