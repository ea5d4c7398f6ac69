------------------------------- MODULE Audio -------------------------------
(***************************************************************************)
(* The way of the samples.  Out: the sampling thread reads the microphone   *)
(* and, while the key is pressed, puts the samples into the sending buffer, *)
(* which the network thread sends, a datagram at a time.  In: the network   *)
(* thread puts the datagrams of a talker into the receiving buffer as they  *)
(* come, and the sampling thread plays them, once enough are there.         *)
(* Sessions and announcements of other threads begin and end meanwhile and  *)
(* clear both buffers: the sampling thread looks at the state once, at the  *)
(* beginning of a turn, and may wait for the sound card in the middle.      *)
(*                                                                          *)
(* Sizes are in KiB: a datagram and a reading of the microphone are 1, and  *)
(* so are 1024 and 1000 bytes; the header of 58 bytes is left out.  The     *)
(* pending buffer holds only what a tone left (AlarmTone) and is empty      *)
(* here: nothing of a session is put back.                                  *)
(***************************************************************************)
EXTENDS Naturals, Sequences, FiniteSets

CONSTANTS Chunk,        \* what one write offers the sound card, and
                        \* what a D2D session waits for: 3
          Droppable,    \* less than this is dropped at once: 3
          RecvSize,     \* of the receiving buffer: 11
          SendSize,     \* of the sending buffer: 8
          Settled,      \* plays until a session counts as stable: 10
          PerTurn       \* bound: datagrams between two turns

ASSUME SizesAssumption == /\ {Droppable, RecvSize, SendSize, PerTurn} \subseteq Nat
                          /\ Chunk \in Nat \ {0} /\ Settled \in Nat \ {0}

VARIABLES intercom, ann,      \* bcu_active_intercom_state, bcu_active_ann_state
          entering,           \* in the delay between exit and enter?
          timer, wakes,       \* the sample timer, sem_wakeup_bcu_mic_sample
          ptt, this_bcu_ptt_state,
          begin_to_broadcast_audio_data, play_audio,
          worked, stable,     \* whe_d2d_souder_have_been_worked, .._stable
          recv, send,         \* datagrams received; "old" and "new" samples
          sampler, mode, button,  \* where the sampling thread is; what it saw
          fresh, room, stale, old, quick, \* histories, see below
          former, sounding, heard, overtaken  \* histories of what is heard

stateVars == <<intercom, ann, entering, timer>>
playVars == <<begin_to_broadcast_audio_data, play_audio, worked, stable>>
keyVars == <<ptt, this_bcu_ptt_state>>
samplerVars == <<wakes, sampler, mode, button>>
heardVars == <<former, sounding, heard, overtaken>>
vars == <<stateVars, samplerVars, keyVars, playVars, recv, send,
          fresh, room, stale, old, quick, heardVars>>

Sessions == {"d2p", "monitor", "d2d"}
InSession == intercom \in Sessions /\ ~entering

Init ==
  /\ intercom = "idle" /\ ann = "idle" /\ entering = FALSE
  /\ timer = FALSE /\ wakes = 0 /\ ptt = 0 /\ this_bcu_ptt_state = 0
  /\ begin_to_broadcast_audio_data = 0 /\ play_audio = 0
  /\ worked = 0 /\ stable = 0 /\ recv = 0 /\ send = <<>>
  /\ sampler = "wait" /\ mode = "none" /\ button = 0
  /\ fresh = 0 /\ room = PerTurn
  /\ stale = FALSE /\ old = 0 /\ quick = FALSE
  /\ former = 0 /\ sounding = FALSE /\ heard = 0 /\ overtaken = 0

(***************************************************************************)
(* Sessions and announcements                                               *)
(***************************************************************************)
ClearAllAudioDataBuffer == recv' = 0 /\ send' = <<>>

\* Of what waits to be played, nothing came before the last enter.
FormerGone == former' = 0 /\ UNCHANGED <<sounding, heard, overtaken>>

Exit ==
  /\ ~entering
  /\ \/ /\ intercom = "idle" /\ intercom' \in Sessions
        /\ this_bcu_ptt_state' = ptt
        /\ UNCHANGED <<timer, begin_to_broadcast_audio_data>>
     \/ /\ intercom # "idle" /\ intercom' = "idle" /\ timer' = FALSE
        /\ begin_to_broadcast_audio_data' =
             (IF intercom = "d2d" THEN begin_to_broadcast_audio_data ELSE 0)
        /\ UNCHANGED this_bcu_ptt_state
  /\ ClearAllAudioDataBuffer /\ FormerGone /\ entering' = TRUE
  /\ UNCHANGED <<ann, samplerVars, ptt, play_audio, worked, stable, fresh,
                 room, stale, old, quick>>

\* From here on what was sampled before is old.
SamplesGrowOld == stale' = (sampler = "read") /\ old' = 0

\* From here on what was received before is old: what still waits, and what
\* a write under way brings out of the sound card.
AudioGrowsOld ==
  /\ former' = recv' /\ UNCHANGED sounding
  /\ overtaken' = (IF sounding THEN 1 ELSE 0) /\ heard' = overtaken'

\* mutant: the old session goes on playing in the new one
OpenedPlaying ==
  /\ timer' = TRUE /\ UNCHANGED play_audio
  /\ begin_to_broadcast_audio_data' = IF intercom = "d2d" THEN 0 ELSE 1

\* mutant: listening does not allow playing
OpenedMute ==
  /\ timer' = TRUE /\ play_audio' = 0
  /\ UNCHANGED begin_to_broadcast_audio_data

Opened ==
  /\ timer' = TRUE /\ play_audio' = 0
  /\ begin_to_broadcast_audio_data' =
       IF intercom = "d2d" THEN begin_to_broadcast_audio_data ELSE 1

\* mutant: only what is to be sent is cleared, or only what was received
ClearedSend == send' = <<>> /\ UNCHANGED recv
ClearedRecv == recv' = 0 /\ send' = [i \in DOMAIN send |-> "old"]

Cleared == ClearAllAudioDataBuffer

Enter ==
  /\ entering /\ entering' = FALSE
  /\ Cleared /\ SamplesGrowOld /\ AudioGrowsOld /\ fresh' = 0 /\ quick' = FALSE
  /\ IF intercom = "idle"
     THEN UNCHANGED <<timer, play_audio, begin_to_broadcast_audio_data>>
     ELSE Opened
  /\ this_bcu_ptt_state' = IF intercom = "d2p" THEN ptt ELSE this_bcu_ptt_state
  /\ UNCHANGED <<intercom, ann, samplerVars, ptt, worked, stable, room>>

LiveAnnEnter ==
  /\ ann = "idle" /\ ~entering /\ intercom \notin {"d2p", "d2d"}
  /\ ann' = "live" /\ timer' = TRUE
  /\ ClearAllAudioDataBuffer /\ SamplesGrowOld /\ FormerGone
  /\ UNCHANGED <<intercom, entering, samplerVars, keyVars, playVars, fresh,
                 room, quick>>

\* The timer is closed whatever the session.
LiveAnnExit ==
  /\ ann = "live" /\ ann' = "idle" /\ timer' = FALSE
  /\ ClearAllAudioDataBuffer /\ FormerGone
  /\ UNCHANGED <<intercom, entering, samplerVars, keyVars, playVars, fresh,
                 room, stale, old, quick>>

TogglePtt ==
  /\ ptt' = 1 - ptt
  /\ UNCHANGED <<stateVars, samplerVars, this_bcu_ptt_state, playVars, recv, send,
                 fresh, room, stale, old, quick, heardVars>>

(***************************************************************************)
(* Network thread                                                           *)
(***************************************************************************)
\* mutant: a full buffer is written on
PushedAlways == recv + 1

\* CharBufferWrite: what finds no room is lost.
Pushed == IF recv < RecvSize THEN recv + 1 ELSE recv

\* A datagram comes: the next one, a late one, or one that came before.
\* network_buffer_num is 0 and stays so: SortAlgorithm2 pushes each of them at
\* once, and the branch that sorts by their numbers is never taken.
SortAlgorithm2 ==
  /\ recv' = Pushed
  /\ room > 0 \/ ~timer \/ ann = "live"
  /\ room' = IF room > 0 THEN room - 1 ELSE 0
  /\ fresh' = IF fresh < RecvSize THEN fresh + 1 ELSE fresh
  /\ UNCHANGED <<stateVars, samplerVars, keyVars, playVars, send, stale, old, quick,
                 heardVars>>

UdpSendBuffer ==
  /\ send # <<>> /\ send' = Tail(send)
  /\ old' = IF Head(send) = "old" /\ old < 2 THEN old + 1 ELSE old
  /\ UNCHANGED <<stateVars, samplerVars, keyVars, playVars, recv, fresh,
                 room, stale, quick, heardVars>>

(***************************************************************************)
(* Sampling thread                                                          *)
(***************************************************************************)
alarm_func_handle_audio_sample ==
  /\ timer /\ wakes = 0 /\ wakes' = 1
  /\ UNCHANGED <<stateVars, sampler, mode, button, keyVars, playVars, recv, send,
                 fresh, room, stale, old, quick, heardVars>>

Sampled(n) == IF Len(send) + n <= SendSize
              THEN send \o [i \in 1 .. n |-> IF stale THEN "old" ELSE "new"] ELSE send

Prefill(m) == IF m = "d2d" THEN Chunk ELSE 1

\* mutant: one too many is kept
KeptOneMore == IF stable' = 1 /\ recv > Chunk + 1 /\ recv - Chunk < Droppable
               THEN Chunk + 1 ELSE recv

\* A stable session drops what has come too early, if that is not too much.
Kept == IF stable' = 1 /\ recv > Chunk /\ recv - Chunk < Droppable THEN Chunk ELSE recv

\* While the key is pressed a call or listening writes zeros instead.
Sounds(m) == recv > 0 /\ (m = "d2d" \/ ptt = 0)

\* What waits is written, and before it dropped, oldest first.
WriteHeard(m) ==
  /\ sounding' = Sounds(m)
  /\ heard' = IF Sounds(m) /\ former > recv - Kept /\ heard < 2 THEN heard + 1 ELSE heard
  /\ former' = IF former > recv - recv' THEN former - (recv - recv') ELSE 0

\* PlayAudioTwice_D2P and PlayAudioTwice_D2D up to cyg_io_bwrite; without
\* samples a D2D session plays silence, the others do not write.
PlayAudioTwice(m, already) ==
  IF m = "d2d" /\ recv = 0
  THEN /\ sampler' = "write" /\ room' = PerTurn
       /\ worked' = already.worked /\ stable' = already.stable
       /\ UNCHANGED <<recv, quick, former, heard>> /\ sounding' = FALSE
  ELSE /\ stable' = IF already.worked >= Settled THEN 1 ELSE already.stable
       /\ recv' = IF Kept > Chunk THEN Kept - Chunk ELSE 0
       /\ worked' = (IF stable' = 1 THEN 0 ELSE already.worked) + (IF recv = 0 THEN 0 ELSE 1)
       /\ sampler' = IF recv = 0 THEN "wait" ELSE "write"
       /\ room' = PerTurn
       /\ quick' = (stable' = 1 /\ recv' = 0)
       /\ WriteHeard(m)

PlayTurn(m) ==
  LET begins == play_audio = 0 /\ recv >= Prefill(m)
  IN IF (m # "d2d" => begin_to_broadcast_audio_data = 1) /\ (play_audio = 1 \/ begins)
     THEN /\ play_audio' = 1
          /\ PlayAudioTwice(m, IF begins THEN [worked |-> 0, stable |-> 0]
                               ELSE [worked |-> worked, stable |-> stable])
     ELSE /\ sampler' = "wait"
          /\ UNCHANGED <<play_audio, worked, stable, recv, room, quick,
                         former, sounding, heard>>

Mode == IF ann = "live" /\ intercom # "d2p" THEN "live" ELSE intercom

\* The states are looked at; then the microphone is read, which may take long.
\* GetPTTState of an announcement is asked before, that of a session after.
BcuMicSampleAndPlayEntry ==
  /\ sampler = "wait" /\ wakes = 1 /\ wakes' = 0
  /\ \/ /\ Mode \in {"live", "d2p", "d2d"}
        /\ sampler' = "read" /\ mode' = Mode
        /\ button' = IF Mode = "live" THEN ptt ELSE 0
        /\ UNCHANGED <<playVars, recv, room, quick, heardVars>>
     \/ /\ Mode = "monitor"
        /\ PlayTurn("monitor")
        /\ UNCHANGED <<mode, button, begin_to_broadcast_audio_data, overtaken>>
     \/ /\ Mode = "idle"
        /\ UNCHANGED <<sampler, mode, button, playVars, recv, room, quick, heardVars>>
  /\ UNCHANGED <<stateVars, keyVars, send, fresh, stale, old>>

MicrophoneRead == sampler = "read" /\ mode' = "none" /\ button' = 0 /\ stale' = FALSE

\* After an announcement's key is released a blank KiB is sent.
AnnouncementRead ==
  /\ MicrophoneRead /\ mode = "live"
  /\ send' = Sampled(button + (IF this_bcu_ptt_state = 1 /\ ptt = 0 THEN 1 ELSE 0))
  /\ this_bcu_ptt_state' = ptt /\ sampler' = "wait"
  /\ UNCHANGED <<stateVars, wakes, ptt, playVars, recv, fresh, room, old, quick,
                 heardVars>>

\* PutMicSampleDataintoBuffer_D2P and .._BCU
SessionRead ==
  /\ MicrophoneRead /\ mode # "live"
  /\ send' = Sampled(ptt)
  /\ PlayTurn(mode)
  /\ UNCHANGED <<stateVars, wakes, keyVars, begin_to_broadcast_audio_data, fresh, old,
                 overtaken>>

Played ==
  /\ sampler = "write" /\ sampler' = "wait" /\ sounding' = FALSE
  /\ UNCHANGED <<stateVars, wakes, mode, button, keyVars, playVars, recv, send,
                 fresh, room, stale, old, quick, former, heard, overtaken>>

Turn == BcuMicSampleAndPlayEntry \/ AnnouncementRead \/ SessionRead \/ Played

Next ==
  \/ Exit \/ Enter \/ LiveAnnEnter \/ LiveAnnExit \/ TogglePtt
  \/ SortAlgorithm2 \/ UdpSendBuffer
  \/ alarm_func_handle_audio_sample \/ Turn

Spec == Init /\ [][Next]_vars

\* The timer goes on while it is open, and the sound card returns.
Fairness == WF_vars(alarm_func_handle_audio_sample) /\ WF_vars(Turn)

FairSpec == Spec /\ Fairness

(***************************************************************************)
(* Properties                                                               *)
(***************************************************************************)
TypeOK ==
  /\ intercom \in Sessions \cup {"idle"} /\ ann \in {"idle", "live"}
  /\ entering \in BOOLEAN /\ timer \in BOOLEAN /\ wakes \in {0, 1}
  /\ {ptt, this_bcu_ptt_state, begin_to_broadcast_audio_data, play_audio,
      stable, button} \subseteq {0, 1}
  /\ worked \in 0 .. Settled
  /\ recv \in 0 .. RecvSize
  /\ send \in Seq({"old", "new"}) /\ Len(send) <= SendSize
  /\ sampler \in {"wait", "read", "write"}
  /\ mode \in {"none", "live", "d2p", "d2d"}
  /\ mode = "none" <=> sampler # "read"
  /\ fresh \in 0 .. RecvSize /\ room \in 0 .. PerTurn
  /\ stale \in BOOLEAN /\ old \in 0 .. 2 /\ quick \in BOOLEAN
  /\ former \in 0 .. recv /\ sounding \in BOOLEAN
  /\ heard \in 0 .. 2 /\ overtaken \in {0, 1}
  /\ sounding => sampler = "write"

\* What was received before a session was entered is heard in it only if a
\* write had brought it to the sound card by then (cyg_io_bwrite returns
\* later, and takes nothing back): once at most.  No write that begins in the
\* session holds any of it, however the exit and the enter fall into a turn
\* of the sampling thread.
AtMostOneOldWrite == heard <= overtaken

\* A session begins to play only when enough has come in it: neither the
\* play_audio of the session before nor a turn that began there starts it.
PlayStartsFilled == InSession /\ play_audio = 1 => fresh >= Prefill(intercom)

OldSamples == {i \in DOMAIN send : send[i] = "old"}

\* Of the samples taken before a session or an announcement was entered, at
\* most the one being read (and the blank that follows it) is sent in it.
AtMostOneOldSample ==
  Cardinality(OldSamples) + old <= 2

Plays == InSession /\ timer /\ ann = "idle"

\* A stable session that has caught up with its talker stays so: from then on
\* every write leaves the receiving buffer empty.
StaysWorkedOff == [][quick /\ Plays /\ Plays' => quick']_vars

\* In a session that lasts, with its timer open and no announcement, what has
\* come is played.
HeardInTheEnd ==
  (Plays /\ recv >= Prefill(intercom)) ~> (play_audio = 1 \/ ~Plays)
=============================================================================
