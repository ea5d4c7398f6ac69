------------------------------ MODULE Network -------------------------------
(***************************************************************************)
(* The network thread, but for the samples (Audio).  In a turn it takes at  *)
(* most one datagram of each socket into the buffer of its line, and sends  *)
(* at most one of each sending buffer; select also asks for sockets that    *)
(* can be written, so it never waits.  What does not fit into a buffer is   *)
(* lost.                                                                    *)
(*                                                                          *)
(* A datagram of the common line goes through network-udp-common-recv: the  *)
(* network thread writes it there and at once reads it back, to forward it  *)
(* to the buffer registered for its type.  The control thread, which knows  *)
(* no other way to see a call state of another seat, reads the same buffer. *)
(* So this buffer has two readers, and nothing keeps them apart: the        *)
(* sampling thread may raise the priority of the network thread at any time.*)
(*                                                                          *)
(* A write, and a read of a buffer with one reader, are one step (see       *)
(* BlockBuffer).                                                            *)
(***************************************************************************)
EXTENDS Naturals, Sequences

CONSTANTS Lines,        \* the lines that are modelled
          Room,         \* blocks a line's buffer has room for
          Arriving,     \* types of the packages that come on the common line
          Items         \* items of network-udp-common-recv: 3

\* What a turn of NetWorkMain does, in this order.
Order == <<"cmd", "common", "big", "heart", "shell",
           "send big", "send cmd", "send common", "send shell">>
Turn == {i \in DOMAIN Order : Order[i] \in Lines}
First(steps) == Order[CHOOSE i \in steps : \A j \in steps : i <= j]
Sending == {"send big", "send cmd", "send common", "send shell"}

\* RegisterCommonBufferRecvBuffer: kind of line, type, and the buffer.
Registrations ==
  <<[line |-> 1, type |-> "ptt", buffer |-> "ptt-rx"],
    [line |-> 1, type |-> "device", buffer |-> "dev_vol"],
    [line |-> 1, type |-> "speaker", buffer |-> "dev_vol"],
    [line |-> 2, type |-> "all state", buffer |-> "all-dev-state"],
    [line |-> 2, type |-> "version", buffer |-> "version-check"]>>

\* Type 7 tells whether the sender is in a call.
CallStates == {"idle", "busy"}
Places == 0 .. Items - 1
Readers == {"network", "control"}
Nothing == "nothing"

VARIABLES net,          \* what the network thread does; "exit": it has given up
          ctl,          \* what the control thread does
          buffer,       \* blocks in the buffer of each line
          memory, taken, writeto, readfrom,     \* network-udp-common-recv
          at, seen, hand,       \* of its readers: step, pointer, what was read
          registered,   \* the list of registrations
          done,         \* registrations made or refused
          forwarded,    \* packages in the buffers of the registrations
          bcu_call_state,       \* of another seat
          met           \* history: have the readers ever been in a read at once?

ring == <<memory, taken, writeto, readfrom>>
readVars == <<at, seen, hand, met>>
vars == <<net, ctl, buffer, ring, readVars, registered, done, forwarded,
          bcu_call_state>>

Buffers == {Registrations[i].buffer : i \in DOMAIN Registrations}
Capacity == [b \in Buffers |-> IF b = "ptt-rx" THEN 2 ELSE 1]

Init ==
  /\ net = "setup" /\ ctl = "register"
  /\ buffer = [l \in Lines \ {"common"} |-> 0]
  /\ memory = [p \in Places |-> Nothing] /\ taken = [p \in Places |-> 1]
  /\ writeto = 0 /\ readfrom = Items - 1
  /\ at = [r \in Readers |-> "out"] /\ seen = [r \in Readers |-> 0]
  /\ hand = [r \in Readers |-> Nothing] /\ met = FALSE
  /\ registered = <<>> /\ done = 0
  /\ forwarded = [b \in Buffers |-> 0]
  /\ bcu_call_state = "idle"

(***************************************************************************)
(* network-udp-common-recv                                                  *)
(***************************************************************************)
NextPlace(p) == IF p + 1 < Items THEN p + 1 ELSE 0
Waiting == (IF readfrom < writeto THEN writeto ELSE writeto + Items) - readfrom - 1

\* While a reader wraps its pointer both pointers are not to be trusted, and
\* a call returns errBUFFER_RW_BUSY.
Busy == \E r \in Readers : at[r] = "store" /\ seen[r] = Items - 1

\* History: how often each package was read, until the readers first meet.
Counted(p, n) == IF met THEN taken ELSE [taken EXCEPT ![p] = n]

Write(package) ==
  \/ /\ Waiting < Items - 1
     /\ memory' = [memory EXCEPT ![writeto] = package]
     /\ taken' = Counted(writeto, 0)
     /\ writeto' = NextPlace(writeto)
     /\ UNCHANGED readfrom
  \/ (Waiting = Items - 1 \/ Busy) /\ UNCHANGED ring

\* mutant: an empty buffer is read
ReadBlindly == TRUE

NotEmpty == Waiting > 0

ReadBegin(r) ==
  /\ met' = (met \/ \E o \in Readers \ {r} : at[o] # "out")
  /\ \/ NotEmpty /\ at' = [at EXCEPT ![r] = "load"]
     \/ (~NotEmpty \/ Busy) /\ at' = [at EXCEPT ![r] = "end"]
  /\ taken' = IF met' THEN [p \in Places |-> 1] ELSE taken
  /\ UNCHANGED <<hand, seen, memory, writeto, readfrom>>

\* pb_readfrom += item_size takes a load and a store.
ReadLoad(r) ==
  /\ at[r] = "load" /\ at' = [at EXCEPT ![r] = "store"]
  /\ seen' = [seen EXCEPT ![r] = readfrom]
  /\ UNCHANGED <<ring, hand, met>>

ReadStore(r) ==
  /\ at[r] = "store" /\ at' = [at EXCEPT ![r] = "copy"]
  /\ readfrom' = NextPlace(seen[r]) /\ seen' = [seen EXCEPT ![r] = 0]
  /\ UNCHANGED <<memory, taken, writeto, hand, met>>

ReadCopy(r) ==
  /\ at[r] = "copy" /\ at' = [at EXCEPT ![r] = "end"]
  /\ hand' = [hand EXCEPT ![r] = memory[readfrom]]
  /\ taken' = Counted(readfrom, IF taken[readfrom] < 2 THEN taken[readfrom] + 1 ELSE 2)
  /\ UNCHANGED <<memory, writeto, readfrom, seen, met>>

Read(r) == ReadLoad(r) \/ ReadStore(r) \/ ReadCopy(r)

ReadEnd(r) ==
  /\ at[r] = "end" /\ at' = [at EXCEPT ![r] = "out"]
  /\ hand' = [hand EXCEPT ![r] = Nothing]
  /\ UNCHANGED <<seen, met>>

(***************************************************************************)
(* Registrations                                                            *)
(***************************************************************************)
\* mutant: the walk goes to the last node
Compared == {registered[i].buffer : i \in DOMAIN registered}

\* ZhwBufferRegister walks to the last node; its buffer is not compared.
WalkedOver == {registered[i].buffer : i \in 1 .. Len(registered) - 1}

ZhwBufferRegister ==
  /\ ctl = "register"
  /\ LET new == Registrations[done + 1]
     IN registered' = IF new.buffer \in WalkedOver THEN registered
                      ELSE Append(registered, new)
  /\ done' = done + 1
  /\ ctl' = IF done' = Len(Registrations) THEN "common" ELSE ctl
  /\ UNCHANGED <<net, buffer, ring, readVars, forwarded, bcu_call_state>>

Found(line, type) ==
  {i \in DOMAIN registered : registered[i].line = line /\ registered[i].type = type}

(***************************************************************************)
(* Network thread                                                           *)
(***************************************************************************)
\* What follows l in the turn.
Following(l) ==
  LET later == {i \in Turn : \E j \in DOMAIN Order : Order[j] = l /\ j < i}
  IN First(IF later = {} THEN Turn ELSE later)

\* mutant: after a datagram the thread looks for the next one
ThenAgain(l, came) == IF came THEN First(Turn) ELSE Following(l)

\* The turn goes on, whether a datagram came or not.
Then(l, came) == Following(l)

\* SockfdServerInit: a thread that cannot create or bind a socket is left in
\* exit.  A multicast group that cannot be joined is only reported; its
\* datagrams do not come.
SockfdServerInit == {"opened", "exit"}

Setup ==
  /\ net = "setup"
  /\ \E socket \in SockfdServerInit : net' = IF socket = "exit" THEN "exit" ELSE First(Turn)
  /\ UNCHANGED <<ctl, buffer, ring, readVars, registered, done, forwarded,
                 bcu_call_state>>

PushToBlockBuffer(l) ==
  IF buffer[l] < Room[l] THEN [buffer EXCEPT ![l] = @ + 1] ELSE buffer

\* GetNetData leaves the thread in exit when it cannot receive.
GetNetData == {"none", "package", "exit"}

CmdRecvAndHandle ==
  /\ net = "cmd"
  /\ \E got \in GetNetData :
       /\ net' = IF got = "exit" THEN "exit" ELSE Then("cmd", got = "package")
       /\ buffer' = IF got = "package" THEN PushToBlockBuffer("cmd") ELSE buffer
  /\ UNCHANGED <<ctl, ring, readVars, registered, done, forwarded, bcu_call_state>>

\* A shell command of more than 20 characters is dropped.
ReceiveLine(l) ==
  /\ net = l /\ l \in {"big", "heart", "shell"}
  /\ \E came \in BOOLEAN :
       /\ net' = Then(l, came)
       /\ buffer' = IF came THEN PushToBlockBuffer(l) ELSE buffer
  /\ UNCHANGED <<ctl, ring, readVars, registered, done, forwarded, bcu_call_state>>

ReceiveCommon ==
  /\ net = "common"
  /\ \/ net' = Then("common", FALSE) /\ UNCHANGED ring
     \/ net' = "written" /\ \E type \in Arriving : Write(type)
  /\ UNCHANGED <<ctl, buffer, readVars, registered, done, forwarded, bcu_call_state>>

ForwardRead ==
  /\ \/ net = "written" /\ net' = "forward" /\ ReadBegin("network")
     \/ net = "forward" /\ Read("network") /\ UNCHANGED net
  /\ UNCHANGED <<ctl, buffer, registered, done, forwarded, bcu_call_state>>

\* A package of an unknown type, and one whose buffer is full, is dropped.
ZhwNetworkRecvForward ==
  /\ net = "forward" /\ ReadEnd("network") /\ net' = Then("common", TRUE)
  /\ LET found == Found(1, hand["network"])
         to == registered[CHOOSE i \in found : \A j \in found : i <= j].buffer
     IN forwarded' = IF found # {} /\ forwarded[to] < Capacity[to]
                     THEN [forwarded EXCEPT ![to] = @ + 1] ELSE forwarded
  /\ UNCHANGED <<ctl, buffer, ring, registered, done, bcu_call_state>>

\* UdpSendFunCMD: a block that cannot be sent is lost.
UdpSendFunCMD(l) == IF buffer[l] > 0 THEN [buffer EXCEPT ![l] = @ - 1] ELSE buffer

SendLine(l) ==
  /\ net = l /\ l \in Sending /\ net' = Then(l, FALSE)
  /\ buffer' = UdpSendFunCMD(l)
  /\ UNCHANGED <<ctl, ring, readVars, registered, done, forwarded, bcu_call_state>>

NetWorkMain ==
  \/ Setup \/ CmdRecvAndHandle \/ ReceiveCommon \/ ForwardRead \/ ZhwNetworkRecvForward
  \/ \E l \in Lines : ReceiveLine(l) \/ SendLine(l)

(***************************************************************************)
(* Control thread, and others that send                                     *)
(***************************************************************************)
ControlRead ==
  /\ \/ ctl = "common" /\ ctl' = "reading" /\ ReadBegin("control")
     \/ ctl = "reading" /\ Read("control") /\ UNCHANGED ctl
  /\ UNCHANGED <<net, buffer, registered, done, forwarded, bcu_call_state>>

RegisterBcuCallState ==
  /\ ctl = "reading" /\ ReadEnd("control") /\ ctl' = "lines"
  /\ bcu_call_state' = IF hand["control"] \in CallStates THEN hand["control"]
                       ELSE bcu_call_state
  /\ UNCHANGED <<net, buffer, ring, registered, done, forwarded>>

\* Of big, cmd and shell it takes at most one each; nobody reads the hearts.
SystemControl ==
  /\ ctl = "lines" /\ ctl' = "common"
  /\ buffer' = [l \in DOMAIN buffer |->
                  IF l \in {"big", "cmd", "shell"} /\ buffer[l] > 0
                  THEN buffer[l] - 1 ELSE buffer[l]]
  /\ UNCHANGED <<net, ring, readVars, registered, done, forwarded, bcu_call_state>>

\* A package is put into a sending buffer; one that finds no room is lost, and
\* a sender that tries again puts it a second time.
Put ==
  /\ \E l \in Lines \cap Sending : buffer' = PushToBlockBuffer(l)
  /\ UNCHANGED <<net, ctl, ring, readVars, registered, done, forwarded, bcu_call_state>>

Next ==
  \/ NetWorkMain \/ ZhwBufferRegister \/ ControlRead \/ RegisterBcuCallState
  \/ SystemControl \/ Put

Spec == Init /\ [][Next]_vars

\* The scheduler comes back to the network thread.
Fairness == WF_vars(NetWorkMain)

(***************************************************************************)
(* Properties                                                               *)
(***************************************************************************)
TypeOK ==
  /\ net \in Lines \cup {"setup", "exit", "written", "forward"}
  /\ ctl \in {"register", "common", "reading", "lines"}
  /\ \A l \in DOMAIN buffer : buffer[l] \in 0 .. Room[l]
  /\ memory \in [Places -> Arriving \cup {Nothing}] /\ taken \in [Places -> 0 .. 2]
  /\ writeto \in Places /\ readfrom \in Places
  /\ at \in [Readers -> {"out", "load", "store", "copy", "end"}]
  /\ seen \in [Readers -> Places] /\ hand \in [Readers -> Arriving \cup {Nothing}]
  /\ registered \in Seq({Registrations[i] : i \in DOMAIN Registrations}) /\ done \in 0 .. Len(Registrations)
  /\ \A b \in Buffers : forwarded[b] \in 0 .. Capacity[b]
  /\ bcu_call_state \in CallStates /\ met \in BOOLEAN

\* ZhwBufferRegister refuses a buffer it has seen, and the volume of the
\* devices and that of the speaker share one: once the control thread goes on
\* every type is found all the same, in the buffer it was registered with.
AllRegistered ==
  ctl # "register" =>
    \A i \in DOMAIN Registrations :
      \E j \in Found(Registrations[i].line, Registrations[i].type) :
        registered[j] = Registrations[i]

Queued == {IF readfrom + k < Items THEN readfrom + k ELSE readfrom + k - Items :
             k \in 1 .. Waiting}
Moved == {readfrom : r \in {q \in Readers : at[q] = "copy"}}

\* As long as the two readers of network-udp-common-recv do not meet in a
\* read, each package is taken by exactly one of them, and none outlives the
\* turn of the network thread that received it.
TakenOnce ==
  ~met => /\ \A p \in Places : taken[p] = IF p \in Queued \cup Moved THEN 0 ELSE 1
          /\ Waiting <= 1
          /\ Waiting = 1 => net \in {"written", "forward"}

\* A full sending buffer gets room again, however much is received.
RoomAgain ==
  \A l \in Lines \cap Sending :
    buffer[l] = Room[l] ~> (buffer[l] < Room[l] \/ net = "exit")
=============================================================================
