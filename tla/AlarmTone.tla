------------------------------ MODULE AlarmTone ------------------------------
(***************************************************************************)
(* The tones that tell an idle seat of waiting calls: one for passengers    *)
(* ("pcu"), one for drivers ("bcu"), played from one alarm buffer by the    *)
(* sampling thread, which the sample timer wakes.  Sessions and             *)
(* announcements use the same timer, the same thread and the same pending   *)
(* buffer, where a write to the sound card leaves what it did not take.     *)
(*                                                                          *)
(* The sampling thread has priority 14, the others 10 to 12: between two    *)
(* waits (sem_wait and cyg_io_bwrite) it is not interrupted, but an enter   *)
(* or exit of another thread may come while it waits for the sound card.    *)
(* The sound card is opened as "codec" at start-up and stays so, so what    *)
(* the code does in playback mode is left out.  Sizes are in KiB.           *)
(***************************************************************************)
EXTENDS Naturals

CONSTANTS Sessions,   \* the sessions the seat enters
          MaxCalls,   \* bound: waiting calls of one kind
          MaxWakes,   \* bound: wake-ups the semaphore holds
          Tone,       \* what one filling of the alarm buffer writes
          Chunk,      \* what one write offers the sound card: 3 in the code
          Border,     \* no more than this is not played: 2234 bytes
          Size        \* bytes of the alarm buffer: 11

Kinds == {"pcu", "bcu"}

VARIABLES intercom, ann,    \* bcu_active_intercom_state, bcu_active_ann_state
          entering,         \* the thread that sleeps between exit and enter
          calls,            \* request_number, bcu_request_number
          begin_to_broadcast_audio_data,
          open_snd_playback, alarm_playing, playing_again,   \* of each kind
          timer,            \* is the sample timer enabled?
          wakes,            \* sem_wakeup_bcu_mic_sample
          written, read,    \* the alarm buffer
          pending,          \* bytes of a tone in the pending buffer
          sampler,          \* where the sampling thread is
          flight,           \* what the sound card has been given
          uncleared         \* has the alarm buffer not been cleared since?

sessionVars == <<intercom, ann, entering, begin_to_broadcast_audio_data>>
toneVars == <<open_snd_playback, alarm_playing, playing_again>>
bufferVars == <<written, read, pending>>
samplerVars == <<sampler, flight>>
vars == <<sessionVars, calls, toneVars, timer, wakes, bufferVars, samplerVars,
          uncleared>>

Init ==
  /\ intercom = "idle" /\ ann = "idle" /\ entering = "none"
  /\ begin_to_broadcast_audio_data = 0
  /\ calls = [k \in Kinds |-> 0]
  /\ open_snd_playback = [k \in Kinds |-> 0]
  /\ alarm_playing = [k \in Kinds |-> 0] /\ playing_again = [k \in Kinds |-> 0]
  /\ timer = FALSE /\ wakes = 0
  /\ written = 0 /\ read = 0 /\ pending = 0
  /\ sampler = "wait" /\ flight = 0 /\ uncleared = TRUE

Least(a, b) == IF a < b THEN a ELSE b

(***************************************************************************)
(* Starting and stopping                                                    *)
(***************************************************************************)
ClearAlarm == written' = 0 /\ read' = 0 /\ uncleared' = FALSE

\* BcuResetPlayAlarmAudioWhenD2pReq and ...D2dReq; the timer is on afterwards
\* for a live announcement, or when the caller starts it.
Reset(k, timerAfter) ==
  /\ open_snd_playback' = [open_snd_playback EXCEPT ![k] = 0]
  /\ alarm_playing' = [alarm_playing EXCEPT ![k] = 0]
  /\ playing_again' = [playing_again EXCEPT ![k] = 0]
  /\ ClearAlarm /\ pending' = 0
  /\ timer' = timerAfter

\* BcuInitPlayAlarmAudioWhenD2pReq and ...D2dReq: only what is not open yet.
StartTones(kinds, timerElse) ==
  LET new == {k \in kinds : open_snd_playback[k] = 0} IN
  /\ open_snd_playback' = [k \in Kinds |-> IF k \in new THEN 1 ELSE open_snd_playback[k]]
  /\ alarm_playing' = [k \in Kinds |-> IF k \in new THEN 1 ELSE alarm_playing[k]]
  /\ UNCHANGED playing_again
  /\ IF new = {} THEN UNCHANGED <<bufferVars, uncleared>> /\ timer' = timerElse
     ELSE ClearAlarm /\ pending' = 0 /\ timer' = TRUE

\* The tones the two StartOrBroke functions start in an idle seat: the tone
\* of passengers only while no driver calls.
Audible(kinds) == {k \in kinds : k = "pcu" => calls["bcu"] = 0}

SamplerRuns == sampler \in {"pcu", "bcu", "turned"}
Other(thread) == ~SamplerRuns /\ entering # thread

(***************************************************************************)
(* Control and touch thread                                                 *)
(***************************************************************************)
\* A package of the control centre changes the number of calls; then the
\* control loop starts the tones of the calls there are.
ProbeBigCommPackage ==
  /\ Other("control")
  /\ \E k \in Kinds, n \in 0 .. MaxCalls : calls' = [calls EXCEPT ![k] = n]
  /\ IF intercom = "idle" /\ ann = "idle"
     THEN StartTones({k \in Kinds : calls'[k] # 0 /\ (k = "pcu" => calls'["bcu"] = 0)},
                     timer)
     ELSE UNCHANGED <<toneVars, timer, bufferVars, uncleared>>
  /\ UNCHANGED <<sessionVars, wakes, samplerVars>>

\* In an idle seat a tone that has come to its end opens the timer again.
IdleIntercomProcess ==
  LET ended == {k \in Kinds : playing_again[k] = 1 /\ alarm_playing[k] = 1} IN
  /\ Other("control")
  /\ intercom = "idle" /\ ended # {}
  /\ playing_again' = [k \in Kinds |-> IF k \in ended THEN 0 ELSE playing_again[k]]
  /\ timer' = TRUE
  /\ UNCHANGED <<sessionVars, calls, open_snd_playback, alarm_playing, wakes,
                 bufferVars, samplerVars, uncleared>>

\* The exit of the idle state and the delay that follows.
BeginSession(thread) ==
  /\ Other(thread) /\ entering = "none"
  /\ intercom = "idle"
  /\ \E s \in Sessions : /\ s = "d2p" => thread = "control"
                         /\ intercom' = s
  /\ entering' = thread
  /\ UNCHANGED <<ann, begin_to_broadcast_audio_data, calls, toneVars, timer,
                 wakes, bufferVars, samplerVars, uncleared>>

\* mutant: the call does not clear the buffer of the tone
EnterCallKeepsTone ==
  /\ intercom \in {"d2p", "d2d"} /\ pending' = 0 /\ timer' = TRUE
  /\ UNCHANGED <<toneVars, written, read, uncleared>>

\* D2PIntercomEnter and D2DIntercomEnter end the tone of their own kind.
EnterCall ==
  \/ intercom = "d2p" /\ Reset("pcu", TRUE)
  \/ intercom = "d2d" /\ Reset("bcu", TRUE)

\* D2PMoniortEnter leaves the tones and their leftovers alone.
EnterMonitor ==
  /\ intercom = "monitor" /\ timer' = TRUE
  /\ UNCHANGED <<toneVars, bufferVars, uncleared>>

IdleIntercomEnter ==
  /\ intercom = "idle"
  /\ IF ann = "idle" THEN StartTones(Audible(Kinds), timer)
     ELSE UNCHANGED <<toneVars, timer, bufferVars, uncleared>>

Enter ==
  /\ entering # "none" /\ ~SamplerRuns
  /\ EnterCall \/ EnterMonitor \/ IdleIntercomEnter
  /\ begin_to_broadcast_audio_data' =
       IF intercom \in {"d2p", "monitor"} THEN 1 ELSE begin_to_broadcast_audio_data
  /\ entering' = "none"
  /\ UNCHANGED <<intercom, ann, calls, wakes, samplerVars>>

\* The exit of a session closes the timer; D2PIntercomExit starts the tone
\* of passengers again, and the enter of the idle state comes a delay later.
EndSession(thread) ==
  /\ Other(thread) /\ entering = "none"
  /\ intercom # "idle" /\ (intercom = "d2p" => thread = "control")
  /\ StartTones({"pcu"} \cap {k \in Kinds : intercom = "d2p"}, FALSE)
  /\ begin_to_broadcast_audio_data' =
       IF intercom \in {"d2p", "monitor"} THEN 0 ELSE begin_to_broadcast_audio_data
  /\ intercom' = "idle" /\ entering' = thread
  /\ UNCHANGED <<ann, calls, wakes, samplerVars>>

\* cb_btn_intercomm_refuse and package 6 close the timer before the call ends.
RefuseCall ==
  /\ ~SamplerRuns /\ intercom = "d2p" /\ entering = "none"
  /\ timer' = FALSE
  /\ UNCHANGED <<sessionVars, calls, toneVars, wakes, bufferVars, samplerVars,
                 uncleared>>

LiveAnnEnter ==
  /\ Other("control") /\ ann = "idle" /\ intercom \notin {"d2p", "d2d"}
  /\ ann' = "live"
  /\ timer' = TRUE /\ pending' = 0
  /\ UNCHANGED <<intercom, entering, begin_to_broadcast_audio_data, calls,
                 toneVars, wakes, written, read, samplerVars, uncleared>>

\* LiveAnnExit and IdleAnnEnter
LiveAnnExit ==
  /\ Other("control") /\ ann = "live"
  /\ ann' = "idle"
  /\ StartTones(Audible({k \in Kinds : intercom = "idle"}), FALSE)
  /\ UNCHANGED <<intercom, entering, begin_to_broadcast_audio_data, calls, wakes,
                 samplerVars>>

\* The passenger key restarts the timer when it shows or takes a call.
ResetSoundTimer ==
  /\ ~SamplerRuns /\ entering # "touch"
  /\ calls["pcu"] > 0 /\ ~timer
  /\ timer' = TRUE
  /\ UNCHANGED <<sessionVars, calls, toneVars, wakes, bufferVars, samplerVars,
                 uncleared>>

alarm_func_handle_audio_sample ==
  /\ timer /\ wakes < MaxWakes
  /\ wakes' = wakes + 1
  /\ UNCHANGED <<sessionVars, calls, toneVars, timer, bufferVars, samplerVars,
                 uncleared>>

(***************************************************************************)
(* Sampling thread                                                          *)
(***************************************************************************)
\* A session plays what is pending first.
BcuMicSampleAndPlayEntry ==
  /\ sampler = "wait" /\ wakes > 0
  /\ wakes' = wakes - 1
  /\ \/ /\ ann = "live" /\ intercom # "d2p"
        /\ UNCHANGED <<sampler, flight, pending>>
     \/ /\ ann # "live" \/ intercom = "d2p"
        /\ intercom # "idle"
        /\ \/ /\ intercom = "d2d" \/ begin_to_broadcast_audio_data = 1
              /\ sampler' = "session_write" /\ flight' = pending /\ pending' = 0
           \/ UNCHANGED <<sampler, flight, pending>>
     \/ /\ ann # "live" /\ intercom = "idle"
        /\ sampler' = "pcu" /\ UNCHANGED <<flight, pending>>
  /\ UNCHANGED <<sessionVars, calls, toneVars, timer, written, read, uncleared>>

PlayedInSession ==
  /\ sampler = "session_write"
  /\ sampler' = "wait" /\ flight' = 0
  /\ UNCHANGED <<sessionVars, calls, toneVars, timer, wakes, bufferVars, uncleared>>

After(k) == IF k = "pcu" THEN "bcu" ELSE "turned"
Write(k) == IF k = "pcu" THEN "pcu_write" ELSE "bcu_write"
Again(k) == IF k = "pcu" THEN "pcu_again" ELSE "bcu_again"

\* PlayAudioTwice up to cyg_io_bwrite, from a buffer written up to end.
Offer(end, from, next) ==
  LET own == Least(end - from, Chunk - pending) IN
  /\ flight' = pending + own
  /\ pending' = 0 /\ read' = from + own
  /\ uncleared' = TRUE
  /\ sampler' = next

\* mutant: an open tone is closed, but goes on being played
StopToneHalf(k) ==
  /\ sampler = k /\ calls[k] = 0
  /\ open_snd_playback' = [open_snd_playback EXCEPT ![k] = 0]
  /\ UNCHANGED <<alarm_playing, playing_again, timer, bufferVars, uncleared>>
  /\ sampler' = After(k)
  /\ UNCHANGED <<sessionVars, calls, wakes, flight>>

\* No call of this kind waits: its tone ends.
StopTone(k) ==
  /\ sampler = k /\ calls[k] = 0
  /\ \/ /\ alarm_playing[k] = 1
        /\ Reset(k, ann = "live")
     \/ /\ alarm_playing[k] = 0
        /\ UNCHANGED <<toneVars, timer, bufferVars, uncleared>>
  /\ sampler' = After(k)
  /\ UNCHANGED <<sessionVars, calls, wakes, flight>>

\* mutant: the alarm buffer is never full
FillUnbounded(from) == from + Tone

Fill(from) == Least(from + Tone, Size)

\* A tone is filled in once, and played; at its end it is played from the
\* beginning again.
PlayTone(k) ==
  LET end == IF open_snd_playback[k] = 1 THEN Fill(written) ELSE written
      left == end - read + pending
  IN
  /\ sampler = k /\ calls[k] # 0
  /\ open_snd_playback' =
       [open_snd_playback EXCEPT ![k] = IF @ = 1 THEN 2 ELSE @]
  /\ written' = end
  /\ \/ /\ alarm_playing[k] = 1 /\ left > Border
        /\ Offer(end, read, Write(k)) /\ UNCHANGED playing_again
     \/ /\ alarm_playing[k] = 1 /\ left <= Border /\ end + pending > Border
        /\ Offer(end, 0, Again(k)) /\ UNCHANGED playing_again
     \/ /\ alarm_playing[k] = 1 /\ left <= Border /\ end + pending <= Border
        /\ read' = 0 /\ pending' = 0
        /\ playing_again' = [playing_again EXCEPT ![k] = 1]
        /\ sampler' = After(k) /\ UNCHANGED <<flight, uncleared>>
     \/ /\ alarm_playing[k] = 0
        /\ sampler' = After(k)
        /\ UNCHANGED <<read, pending, playing_again, flight, uncleared>>
  /\ UNCHANGED <<sessionVars, calls, alarm_playing, timer, wakes>>

\* What the card did not take goes to the pending buffer, unless the alarm
\* buffer has been cleared during the write.
PutBack(left) == pending' = IF uncleared THEN left ELSE pending

Played(k) ==
  /\ sampler \in {Write(k), Again(k)}
  /\ \E left \in 0 .. flight :
       IF sampler = Write(k) THEN PutBack(left) /\ UNCHANGED playing_again
       ELSE pending' = 0 /\ playing_again' = [playing_again EXCEPT ![k] = 1]
  /\ flight' = 0 /\ sampler' = After(k)
  /\ UNCHANGED <<sessionVars, calls, open_snd_playback, alarm_playing, timer,
                 wakes, written, read, uncleared>>

EndOfTurn ==
  /\ sampler = "turned"
  /\ sampler' = "wait" /\ uncleared' = TRUE
  /\ UNCHANGED <<sessionVars, calls, toneVars, timer, wakes, bufferVars, flight>>

(***************************************************************************)
OtherSteps ==
  \/ ProbeBigCommPackage \/ IdleIntercomProcess \/ Enter \/ RefuseCall
  \/ \E thread \in {"control", "touch"} : BeginSession(thread) \/ EndSession(thread)
  \/ LiveAnnEnter \/ LiveAnnExit \/ ResetSoundTimer
SamplerSteps ==
  \/ BcuMicSampleAndPlayEntry \/ PlayedInSession \/ EndOfTurn
  \/ \E k \in Kinds : StopTone(k) \/ PlayTone(k) \/ Played(k)

Next == OtherSteps \/ SamplerSteps \/ alarm_func_handle_audio_sample

Spec == Init /\ [][Next]_vars

\* The clock ticks, and the thread of the highest priority goes on.
Fairness == WF_vars(SamplerSteps) /\ WF_vars(alarm_func_handle_audio_sample)

FairSpec == Spec /\ Fairness

(***************************************************************************)
(* Properties                                                               *)
(***************************************************************************)
\* Every variable has its type; no buffer holds more than its size.
TypeOK ==
  /\ intercom \in {"idle", "d2p", "d2d", "monitor"} /\ ann \in {"idle", "live"}
  /\ entering \in {"none", "control", "touch"}
  /\ begin_to_broadcast_audio_data \in {0, 1}
  /\ calls \in [Kinds -> 0 .. MaxCalls]
  /\ open_snd_playback \in [Kinds -> 0 .. 2]
  /\ alarm_playing \in [Kinds -> {0, 1}] /\ playing_again \in [Kinds -> {0, 1}]
  /\ timer \in BOOLEAN /\ wakes \in 0 .. MaxWakes
  /\ read \in 0 .. written /\ written \in 0 .. Size
  /\ pending \in 0 .. Chunk /\ flight \in 0 .. Chunk
  /\ sampler \in {"wait", "session_write", "pcu", "pcu_write", "pcu_again",
                  "bcu", "bcu_write", "bcu_again", "turned"}
  /\ uncleared \in BOOLEAN

\* What is pending belongs to the tone now in the alarm buffer: a write that
\* the sound card finishes after the tone was stopped puts nothing back
\* (the clear flag in PlayAudioTwice, audio_sample 253-279).
LeftoverIsOfTone == pending > 0 => written > Border

\* A call between drivers never begins with the rest of a tone: the session
\* plays what is pending first, and a write of the tone may end after its
\* enter has cleared that buffer (D2DIntercomEnter, bcu_intercom 196-206).
DriverCallHearsNoTone ==
  intercom = "d2d" /\ entering = "none" => pending = 0

\* The seat makes a sound for a call.
Sounding == /\ intercom = "idle" /\ ann = "idle" /\ timer
            /\ \E k \in Kinds : alarm_playing[k] = 1

\* When the last waiting call is gone the tone ends, whatever the sessions
\* do meanwhile (bcu_main 550-557 and 581-588).
ToneStops ==
  (\A k \in Kinds : calls[k] = 0) ~> (~Sounding \/ \E k \in Kinds : calls[k] # 0)

\* StartOrBrokeBroadcastPcuRequestAlarmAudioData opens or closes the playing
\* of the tone of passengers' calls (bcu_intercom.cxx 494): an idle seat with
\* such a call, and no driver's call, sounds.  The code: after a session the
\* tone counts as open, and nothing opens the timer.
ToneSounds ==
  /\ intercom = "idle" /\ ann = "idle" /\ entering = "none"
  /\ calls["pcu"] > 0 /\ calls["bcu"] = 0
  => Sounding
===============================================================================
