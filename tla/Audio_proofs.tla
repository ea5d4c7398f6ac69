---------------------------- MODULE Audio_proofs ----------------------------
(***************************************************************************)
(* Proofs about the way of the samples, for buffers and writes of any size. *)
(***************************************************************************)
EXTENDS Audio, SequenceTheorems, FiniteSetTheorems, TLAPS

LEMMA Sizes ==
    /\ Droppable \in Nat /\ RecvSize \in Nat /\ SendSize \in Nat /\ PerTurn \in Nat
    /\ Chunk \in Nat /\ Chunk >= 1 /\ Settled \in Nat /\ Settled >= 1
BY SizesAssumption DEF SizesAssumption

(* What is sampled fits into the sending buffer or is dropped.              *)
LEMMA SampledType ==
    ASSUME TypeOK, NEW n \in 0 .. 2
    PROVE  Sampled(n) \in Seq({"old", "new"}) /\ Len(Sampled(n)) <= SendSize
<1> DEFINE new == [i \in 1 .. n |-> IF stale THEN "old" ELSE "new"]
<1>1. new \in Seq({"old", "new"}) /\ Len(new) = n
  BY DEF TypeOK
<1>2. send \in Seq({"old", "new"}) /\ Len(send) <= SendSize
  BY DEF TypeOK
<1> HIDE DEF new
<1>3. send \o new \in Seq({"old", "new"}) /\ Len(send \o new) = Len(send) + n
  BY <1>1, <1>2, ConcatProperties
<1>4. Sampled(n) = IF Len(send) + n <= SendSize THEN send \o new ELSE send
  BY DEF Sampled, new
<1> QED
  BY <1>2, <1>3, <1>4

(* Of r that wait, f older ones first, those left when only l are.          *)
LEMMA TakenFirst ==
    ASSUME NEW r \in Nat, NEW f \in 0 .. r, NEW l \in 0 .. r
    PROVE  /\ (IF f > r - l THEN f - (r - l) ELSE 0) \in 0 .. l
           /\ f = 0 => (IF f > r - l THEN f - (r - l) ELSE 0) = 0
<1>1. CASE f > r - l
  <2>1. f - (r - l) <= l /\ f - (r - l) >= 0 /\ f - (r - l) \in Int /\ f # 0
    BY <1>1
  <2> QED
    BY <1>1, <2>1
<1>2. CASE ~(f > r - l)
  BY <1>2
<1> QED
  BY <1>1, <1>2

(* What is written and dropped is taken from what came first.               *)
LEMMA WriteHeardType ==
    ASSUME TypeOK, NEW m \in Sessions, WriteHeard(m), recv' \in 0 .. recv
    PROVE  /\ former' \in 0 .. recv' /\ heard' \in 0 .. 2 /\ sounding' \in BOOLEAN
           /\ recv = 0 => sounding' = FALSE
           /\ former = 0 => former' = 0 /\ heard' = heard
<1> USE Sizes
<1>1. recv \in Nat /\ former \in 0 .. recv /\ heard \in 0 .. 2
  BY DEF TypeOK
<1>2. sounding' \in BOOLEAN /\ (recv = 0 => sounding' = FALSE)
  <2>1. Sounds(m) \in BOOLEAN /\ (recv = 0 => Sounds(m) = FALSE)
    BY <1>1 DEF Sounds
  <2>2. sounding' = Sounds(m)
    BY DEF WriteHeard
  <2> QED
    BY <2>1, <2>2, Zenon
<1>3. heard' = heard \/ (heard < 2 /\ heard' = heard + 1)
  BY Zenon DEF WriteHeard
<1>4. former' = IF former > recv - recv' THEN former - (recv - recv') ELSE 0
  BY DEF WriteHeard
<1>5. former' \in 0 .. recv' /\ (former = 0 => former' = 0)
  BY <1>1, <1>4, TakenFirst
<1>6. heard' \in 0 .. 2
  BY <1>1, <1>3
<1>7. ASSUME former = 0
      PROVE  heard' = heard
  <2>1. Kept \in Nat /\ Kept <= recv
    BY <1>1 DEF Kept
  <2>2. ~(former > recv - Kept)
    BY <1>1, <1>7, <2>1
  <2> QED
    BY <2>2, Zenon DEF WriteHeard
<1> QED
  BY <1>2, <1>5, <1>6, <1>7

(* A turn plays from what is there and adds nothing.                        *)
LEMMA PlayTurnType ==
    ASSUME TypeOK, NEW m \in Sessions, sampler # "write", PlayTurn(m)
    PROVE  /\ play_audio' \in {0, 1} /\ worked' \in 0 .. Settled /\ stable' \in {0, 1}
           /\ recv' \in 0 .. recv /\ room' \in 0 .. PerTurn /\ quick' \in BOOLEAN
           /\ sampler' \in {"wait", "write"}
           /\ former' \in 0 .. recv' /\ heard' \in 0 .. 2 /\ sounding' \in BOOLEAN
           /\ sounding' = TRUE => sampler' = "write"
           /\ former = 0 => former' = 0 /\ heard' = heard
<1> USE Sizes
<1>0. /\ play_audio \in {0, 1} /\ worked \in 0 .. Settled /\ stable \in {0, 1}
      /\ recv \in 0 .. RecvSize /\ room \in 0 .. PerTurn /\ quick \in BOOLEAN
      /\ former \in 0 .. recv /\ heard \in 0 .. 2 /\ sounding \in BOOLEAN
  BY DEF TypeOK
<1>1. ASSUME NEW w \in 0 .. Settled, NEW s \in {0, 1},
             PlayAudioTwice(m, [worked |-> w, stable |-> s])
      PROVE  /\ worked' \in 0 .. Settled /\ stable' \in {0, 1}
             /\ recv' \in 0 .. recv /\ room' \in 0 .. PerTurn /\ quick' \in BOOLEAN
             /\ sampler' \in {"wait", "write"}
             /\ former' \in 0 .. recv' /\ heard' \in 0 .. 2 /\ sounding' \in BOOLEAN
             /\ sounding' = TRUE => sampler' = "write"
             /\ former = 0 => former' = 0 /\ heard' = heard
  <2> DEFINE already == [worked |-> w, stable |-> s]
  <2>0. already.worked = w /\ already.stable = s
    OBVIOUS
  <2> HIDE DEF already
  <2>1. PlayAudioTwice(m, already)
    BY <1>1 DEF already
  <2>2. CASE m = "d2d" /\ recv = 0
    <3>1. /\ sampler' = "write" /\ room' = PerTurn /\ worked' = w /\ stable' = s
          /\ sounding' = FALSE /\ UNCHANGED <<recv, quick, former, heard>>
      BY <2>0, <2>1, <2>2 DEF PlayAudioTwice
    <3>2. recv' \in 0 .. recv /\ room' \in 0 .. PerTurn /\ quick' \in BOOLEAN
      BY <1>0, <3>1
    <3>3. former' \in 0 .. recv' /\ heard' \in 0 .. 2
      BY <1>0, <3>1
    <3> QED
      BY <1>1, <3>1, <3>2, <3>3
  <2>3. CASE ~(m = "d2d" /\ recv = 0)
    <3>1. /\ stable' = IF w >= Settled THEN 1 ELSE s
          /\ recv' = IF Kept > Chunk THEN Kept - Chunk ELSE 0
          /\ worked' = (IF stable' = 1 THEN 0 ELSE w) + (IF recv = 0 THEN 0 ELSE 1)
          /\ sampler' = IF recv = 0 THEN "wait" ELSE "write"
          /\ room' = PerTurn /\ quick' = (stable' = 1 /\ recv' = 0) /\ WriteHeard(m)
      BY <2>0, <2>1, <2>3 DEF PlayAudioTwice
    <3>2. Kept \in 0 .. recv
      BY <1>0 DEF Kept
    <3>3. recv' \in 0 .. recv
      BY <1>0, <3>1, <3>2
    <3>4. stable' \in {0, 1} /\ worked' \in 0 .. Settled
      BY <1>0, <1>1, <3>1
    <3>5. /\ former' \in 0 .. recv' /\ heard' \in 0 .. 2 /\ sounding' \in BOOLEAN
          /\ recv = 0 => sounding' = FALSE
          /\ former = 0 => former' = 0 /\ heard' = heard
      BY <3>1, <3>3, WriteHeardType
    <3>6. sounding' = TRUE => sampler' = "write"
      BY <3>1, <3>5
    <3> QED
      BY <3>1, <3>3, <3>4, <3>5, <3>6
  <2> QED
    BY <2>2, <2>3
<1>2. CASE /\ UNCHANGED <<play_audio, worked, stable, recv, room, quick,
                         former, sounding, heard>>
           /\ sampler' = "wait"
  <2>1. sounding' = FALSE
    BY <1>2, Zenon DEF TypeOK
  <2> QED
    BY <1>0, <1>2, <2>1
<1>3. CASE play_audio' = 1 /\ PlayAudioTwice(m, [worked |-> 0, stable |-> 0])
  <2>1. 0 \in 0 .. Settled /\ 0 \in {0, 1}
    OBVIOUS
  <2> QED
    BY <1>1, <1>3, <2>1
<1>4. CASE play_audio' = 1 /\ PlayAudioTwice(m, [worked |-> worked, stable |-> stable])
  BY <1>0, <1>1, <1>4
<1> QED
  BY <1>2, <1>3, <1>4 DEF PlayTurn

(* The clear of both buffers.                                               *)
LEMMA CleanType ==
    ClearAllAudioDataBuffer =>
        recv' \in 0 .. RecvSize /\ send' \in Seq({"old", "new"}) /\ Len(send') <= SendSize
BY EmptySeq, Sizes DEF ClearAllAudioDataBuffer

(* The types, variable by variable.                                         *)
Booleans ==
    /\ entering \in BOOLEAN /\ timer \in BOOLEAN /\ stale \in BOOLEAN /\ quick \in BOOLEAN
    /\ sounding \in BOOLEAN /\ (sounding => sampler = "write")

Types ==
    /\ intercom \in Sessions \cup {"idle"} /\ ann \in {"idle", "live"}
    /\ wakes \in {0, 1} /\ ptt \in {0, 1} /\ this_bcu_ptt_state \in {0, 1}
    /\ begin_to_broadcast_audio_data \in {0, 1} /\ play_audio \in {0, 1}
    /\ stable \in {0, 1} /\ button \in {0, 1}
    /\ worked \in 0 .. Settled /\ recv \in 0 .. RecvSize
    /\ send \in Seq({"old", "new"}) /\ Len(send) <= SendSize
    /\ sampler \in {"wait", "read", "write"}
    /\ mode \in {"none", "live", "d2p", "d2d"}
    /\ mode = "none" <=> sampler # "read"
    /\ fresh \in 0 .. RecvSize /\ room \in 0 .. PerTurn /\ old \in 0 .. 2
    /\ former \in 0 .. recv /\ heard \in 0 .. 2 /\ overtaken \in {0, 1}

LEMMA TypesAre == Types /\ Booleans <=> TypeOK
BY DEF Types, Booleans, TypeOK

LEMMA TypesStep == Types /\ Booleans /\ [Next]_vars => Types'
<1> SUFFICES ASSUME Types, Booleans, [Next]_vars
             PROVE  Types'
  OBVIOUS
<1>0. TypeOK
  BY TypesAre
<1> USE Sizes DEF Sessions
<1>2. CASE Exit
  BY CleanType, <1>2 DEF Exit, FormerGone, ClearAllAudioDataBuffer, Types, samplerVars
<1>3. CASE Enter
  <2>1. recv' \in 0 .. RecvSize /\ send' \in Seq({"old", "new"}) /\ Len(send') <= SendSize
    BY CleanType, <1>3 DEF Enter, Cleared
  <2>2. overtaken' \in {0, 1} /\ heard' = overtaken' /\ former' = recv'
    BY <1>3 DEF Enter, AudioGrowsOld
  <2> QED
    BY <1>3, <2>1, <2>2 DEF Enter, SamplesGrowOld, Opened, Types, samplerVars
<1>4. CASE LiveAnnEnter
  BY CleanType, <1>4 DEF LiveAnnEnter, SamplesGrowOld, FormerGone, Types,
                    ClearAllAudioDataBuffer, samplerVars, keyVars, playVars
<1>5. CASE LiveAnnExit
  BY CleanType, <1>5 DEF LiveAnnExit, FormerGone, ClearAllAudioDataBuffer, Types,
                    samplerVars, keyVars, playVars
<1>6. CASE TogglePtt
  BY <1>6 DEF TogglePtt, Types, stateVars, samplerVars, playVars, heardVars
<1>7. CASE SortAlgorithm2
  BY <1>7 DEF SortAlgorithm2, Pushed, Types, stateVars, samplerVars, keyVars, playVars,
             heardVars
<1>8. CASE UdpSendBuffer
  <2>1. send \in Seq({"old", "new"}) /\ send # << >> /\ Len(send) <= SendSize
    BY <1>8 DEF UdpSendBuffer, Types
  <2>2. /\ Tail(send) \in Seq({"old", "new"}) /\ Len(Tail(send)) = Len(send) - 1
        /\ Len(send) \in Nat
    BY <2>1, HeadTailProperties, LenProperties
  <2>3. old' = old \/ (old < 2 /\ old' = old + 1)
    BY <1>8, Zenon DEF UdpSendBuffer
  <2>4. /\ send' = Tail(send)
        /\ UNCHANGED <<stateVars, samplerVars, keyVars, playVars, recv, fresh, room, stale,
                       quick, heardVars>>
    BY <1>8, Zenon DEF UdpSendBuffer
  <2> QED
    BY <2>1, <2>2, <2>3, <2>4
       DEF Types, stateVars, samplerVars, keyVars, playVars, heardVars
<1>9. CASE alarm_func_handle_audio_sample
  BY <1>9 DEF alarm_func_handle_audio_sample, Types, stateVars, keyVars, playVars,
             heardVars
<1>10. CASE BcuMicSampleAndPlayEntry
  <2>1. CASE Mode \in {"live", "d2p", "d2d"} /\ sampler' = "read" /\ mode' = Mode
             /\ button' \in {0, 1} /\ UNCHANGED <<playVars, recv, room, quick, heardVars>>
    BY <1>10, <2>1 DEF BcuMicSampleAndPlayEntry, Types, stateVars, keyVars, playVars,
                       heardVars
  <2>2. CASE PlayTurn("monitor")
             /\ UNCHANGED <<mode, button, begin_to_broadcast_audio_data, overtaken>>
    <3>1. /\ play_audio' \in {0, 1} /\ worked' \in 0 .. Settled /\ stable' \in {0, 1}
          /\ recv' \in 0 .. recv /\ room' \in 0 .. PerTurn /\ quick' \in BOOLEAN
          /\ sampler' \in {"wait", "write"}
          /\ former' \in 0 .. recv' /\ heard' \in 0 .. 2
      BY <1>0, <1>10, <2>2, PlayTurnType DEF BcuMicSampleAndPlayEntry
    <3> QED
      BY <1>10, <2>2, <3>1 DEF BcuMicSampleAndPlayEntry, Types, stateVars, keyVars
  <2>3. CASE UNCHANGED <<sampler, mode, button, playVars, recv, room, quick, heardVars>>
    BY <1>10, <2>3 DEF BcuMicSampleAndPlayEntry, Types, stateVars, keyVars, playVars,
                       heardVars
  <2>4. (IF Mode = "live" THEN ptt ELSE 0) \in {0, 1}
    BY DEF Types
  <2> QED
    BY <1>10, <2>1, <2>2, <2>3, <2>4 DEF BcuMicSampleAndPlayEntry
<1>11. CASE AnnouncementRead
  <2>1. button + (IF this_bcu_ptt_state = 1 /\ ptt = 0 THEN 1 ELSE 0) \in 0 .. 2
    BY DEF Types
  <2>2. send' \in Seq({"old", "new"}) /\ Len(send') <= SendSize
    BY <1>11, <1>0, <2>1, SampledType DEF AnnouncementRead
  <2> QED
    BY <1>11, <2>2 DEF AnnouncementRead, MicrophoneRead, Types, stateVars, playVars,
                       heardVars
<1>12. CASE SessionRead
  <2>1. ptt \in 0 .. 2 /\ mode \in Sessions
    BY <1>12 DEF SessionRead, MicrophoneRead, Types
  <2>2. send' \in Seq({"old", "new"}) /\ Len(send') <= SendSize
    BY <1>12, <1>0, <2>1, SampledType DEF SessionRead
  <2>3. /\ play_audio' \in {0, 1} /\ worked' \in 0 .. Settled /\ stable' \in {0, 1}
        /\ recv' \in 0 .. recv /\ room' \in 0 .. PerTurn /\ quick' \in BOOLEAN
        /\ sampler' \in {"wait", "write"}
        /\ former' \in 0 .. recv' /\ heard' \in 0 .. 2
    BY <1>12, <1>0, <2>1, PlayTurnType DEF SessionRead, MicrophoneRead
  <2> QED
    BY <1>12, <2>2, <2>3 DEF SessionRead, MicrophoneRead, Types, stateVars, keyVars
<1>13. CASE Played
  BY <1>13 DEF Played, Types, stateVars, keyVars, playVars
<1>14. CASE UNCHANGED vars
  BY <1>14 DEF vars, Types, stateVars, samplerVars, keyVars, playVars, heardVars
<1> QED
  BY <1>2, <1>3, <1>4, <1>5, <1>6, <1>7, <1>8, <1>9, <1>10, <1>11, <1>12, <1>13, <1>14
     DEF Next, Turn

LEMMA BooleansStep == Types /\ Booleans /\ [Next]_vars => Booleans'
<1> SUFFICES ASSUME Types, Booleans, [Next]_vars
             PROVE  Booleans'
  OBVIOUS
<1>0. TypeOK
  BY TypesAre
<1>S. ASSUME (sounding' = sounding /\ sampler' = sampler) \/ sounding' = FALSE
      PROVE  sounding' \in BOOLEAN /\ (sounding' => sampler' = "write")
  <2>1. sounding = TRUE \/ sounding = FALSE
    BY Zenon DEF Booleans
  <2>2. CASE sounding' = FALSE
    BY <2>2, Zenon
  <2>3. CASE sounding' = sounding /\ sampler' = sampler /\ sounding = TRUE
    <3>1. sampler = "write"
      BY <2>3, Zenon DEF Booleans
    <3>2. sounding' = TRUE /\ sampler' = "write"
      BY <2>3, <3>1
    <3> QED
      BY <3>2
  <2> QED
    BY <1>S, <2>1, <2>2, <2>3, Zenon
<1> USE DEF Booleans
<1>1. CASE Exit \/ Enter
  BY <1>1, <1>S DEF Exit, Enter, SamplesGrowOld, AudioGrowsOld, FormerGone, Opened,
                    samplerVars
<1>2. CASE LiveAnnEnter \/ LiveAnnExit
  BY <1>2, <1>S DEF LiveAnnEnter, LiveAnnExit, SamplesGrowOld, FormerGone, samplerVars
<1>3. CASE TogglePtt \/ SortAlgorithm2 \/ alarm_func_handle_audio_sample \/ Played
           \/ AnnouncementRead
  BY <1>3, <1>S DEF TogglePtt, SortAlgorithm2, alarm_func_handle_audio_sample, Played,
              AnnouncementRead, MicrophoneRead, stateVars, samplerVars, heardVars
<1>4. CASE UdpSendBuffer
  <2>1. UNCHANGED <<stateVars, samplerVars, stale, quick, heardVars>>
    BY <1>4, Zenon DEF UdpSendBuffer
  <2> QED
    BY <2>1 DEF stateVars, samplerVars, heardVars
<1>5. CASE BcuMicSampleAndPlayEntry
  <2>1. CASE sampler' = "read" /\ UNCHANGED <<playVars, recv, room, quick, heardVars>>
    BY <1>5, <2>1 DEF BcuMicSampleAndPlayEntry, stateVars, heardVars
  <2>2. CASE PlayTurn("monitor")
    BY <1>0, <1>5, <2>2, PlayTurnType DEF BcuMicSampleAndPlayEntry, stateVars, Sessions
  <2>3. CASE UNCHANGED <<sampler, mode, button, playVars, recv, room, quick, heardVars>>
    BY <1>5, <2>3 DEF BcuMicSampleAndPlayEntry, stateVars, heardVars
  <2> QED
    BY <1>5, <2>1, <2>2, <2>3 DEF BcuMicSampleAndPlayEntry
<1>6. CASE SessionRead
  <2>1. mode \in Sessions
    BY <1>6 DEF SessionRead, MicrophoneRead, Types, Sessions
  <2> QED
    BY <1>0, <1>6, <2>1, PlayTurnType DEF SessionRead, MicrophoneRead, stateVars
<1>7. CASE UNCHANGED vars
  BY <1>7 DEF vars, stateVars, samplerVars, heardVars
<1> QED
  BY <1>1, <1>2, <1>3, <1>4, <1>5, <1>6, <1>7 DEF Next, Turn

(* Every variable keeps its type, and no buffer holds more than its size.   *)
THEOREM TypeCorrect == Spec => []TypeOK
<1>1. ASSUME Init PROVE send \in Seq({"old", "new"}) /\ Len(send) = 0
  BY <1>1, EmptySeq DEF Init
<1>2. Init => Types
  BY <1>1, Sizes DEF Init, Types, Sessions
<1>3. Init => Booleans
  BY DEF Init, Booleans
<1> QED
  BY <1>2, <1>3, TypesStep, BooleansStep, TypesAre, PTL DEF Spec

-----------------------------------------------------------------------------
(* What is played in a session *)

(* Playing is allowed only between the enter and the exit of a session with *)
(* a passenger: a turn that began in one session starts nothing in another. *)
AllowedInside ==
    begin_to_broadcast_audio_data = 1 => intercom \in {"d2p", "monitor"} /\ ~entering

(* What waits in a session has come in it.                                  *)
ReceivedHere == InSession => recv <= fresh

(* Nothing that waits came before the last enter, and since then no write   *)
(* has brought out more of what did than the one that was under way.        *)
NothingFormer == former = 0 /\ heard = overtaken

OwnInv == AllowedInside /\ ReceivedHere /\ PlayStartsFilled /\ NothingFormer

LEMMA OwnStep == TypeOK /\ OwnInv /\ [Next]_vars => OwnInv'
<1> SUFFICES ASSUME TypeOK, OwnInv, [Next]_vars
             PROVE  OwnInv'
  OBVIOUS
<1> USE Sizes DEF Sessions, OwnInv, AllowedInside, ReceivedHere, PlayStartsFilled,
                            NothingFormer, InSession, Prefill
<1>0. /\ recv \in 0 .. RecvSize /\ fresh \in 0 .. RecvSize /\ play_audio \in {0, 1}
      /\ begin_to_broadcast_audio_data \in {0, 1} /\ intercom \in Sessions \cup {"idle"}
      /\ entering \in BOOLEAN
  BY DEF TypeOK
<1>1. CASE UNCHANGED <<intercom, entering, begin_to_broadcast_audio_data, play_audio, fresh>>
           /\ recv' \in 0 .. recv /\ former' = 0 /\ UNCHANGED <<heard, overtaken>>
  BY <1>0, <1>1
<1>2. CASE Exit
  BY <1>0, <1>2 DEF Exit, FormerGone
<1>3. CASE Enter
  BY <1>0, <1>3 DEF Enter, Cleared, ClearAllAudioDataBuffer, Opened, AudioGrowsOld
<1>4. CASE LiveAnnEnter \/ LiveAnnExit
  BY <1>0, <1>1, <1>4 DEF LiveAnnEnter, LiveAnnExit, ClearAllAudioDataBuffer, FormerGone,
                          playVars
<1>10. CASE UdpSendBuffer
  <2>1. UNCHANGED <<stateVars, playVars, recv, fresh, heardVars>>
    BY <1>10, Zenon DEF UdpSendBuffer
  <2> QED
    BY <1>0, <1>1, <2>1 DEF stateVars, playVars, heardVars
<1>5. CASE TogglePtt \/ alarm_func_handle_audio_sample \/ Played
           \/ AnnouncementRead \/ UNCHANGED vars
  BY <1>0, <1>1, <1>5 DEF TogglePtt, alarm_func_handle_audio_sample, Played,
                          AnnouncementRead, vars, stateVars, playVars, heardVars
<1>6. CASE SortAlgorithm2
  BY <1>0, <1>6 DEF SortAlgorithm2, Pushed, stateVars, playVars, heardVars
<1>7. ASSUME NEW m \in Sessions, sampler # "write", PlayTurn(m),
             UNCHANGED <<intercom, entering, begin_to_broadcast_audio_data, fresh, overtaken>>
      PROVE  OwnInv'
  <2>1. recv' \in 0 .. recv /\ former' = 0 /\ heard' = heard
    BY <1>7, PlayTurnType
  <2>2. CASE play_audio' = play_audio
    BY <1>0, <1>1, <1>7, <2>1, <2>2
  <2>3. CASE play_audio' # play_audio
    <3>1. recv >= Prefill(m) /\ (m # "d2d" => begin_to_broadcast_audio_data = 1)
      BY <1>0, <1>7, <2>3 DEF PlayTurn
    <3>2. /\ AllowedInside' /\ ReceivedHere' /\ NothingFormer' /\ InSession' = InSession
          /\ Prefill(intercom)' = Prefill(intercom) /\ fresh' = fresh
      BY <1>0, <1>7, <2>1
    <3>3. Prefill(intercom) <= fresh \/ ~InSession
      BY <1>0, <1>7, <3>1
    <3> QED
      BY <3>2, <3>3
  <2> QED
    BY <2>2, <2>3
<1>8. CASE BcuMicSampleAndPlayEntry
  BY <1>0, <1>1, <1>7, <1>8 DEF BcuMicSampleAndPlayEntry, stateVars, playVars, heardVars
<1>9. CASE SessionRead
  <2>1. mode \in Sessions /\ sampler # "write"
    BY <1>9 DEF SessionRead, MicrophoneRead, TypeOK
  <2> QED
    BY <1>7, <1>9, <2>1 DEF SessionRead, stateVars
<1> QED
  BY <1>2, <1>3, <1>4, <1>5, <1>6, <1>8, <1>9, <1>10 DEF Next, Turn

LEMMA OwnInit == Init => OwnInv
BY DEF Init, OwnInv, AllowedInside, ReceivedHere, PlayStartsFilled, NothingFormer,
       InSession, Sessions

(* What was received before a session was entered is heard in it only in    *)
(* the write that the enter found under way: a write that begins in the     *)
(* session holds none of it, for buffers and writes of any size and however *)
(* the exit and the enter fall into a turn of the sampling thread.          *)
THEOREM OldWriteEnds == Spec => []AtMostOneOldWrite
<1>1. TypeOK /\ OwnInv => AtMostOneOldWrite
  BY DEF TypeOK, OwnInv, NothingFormer, AtMostOneOldWrite
<1> QED
  BY <1>1, OwnInit, OwnStep, TypeCorrect, PTL DEF Spec

(* A session begins to play only when enough has come in it, although the   *)
(* turn that starts it may have begun in another session.                   *)
THEOREM StartsFilled == Spec => []PlayStartsFilled
<1>1. OwnInv => PlayStartsFilled
  BY DEF OwnInv
<1> QED
  BY <1>1, OwnInit, OwnStep, TypeCorrect, PTL DEF Spec

-----------------------------------------------------------------------------
(* Old samples *)

(* The old samples still to be sent stand together, c of them behind the    *)
(* first a, and those sent and those to be sent are at most two.            *)
OldAre(a, c) ==
    /\ a \in Nat /\ c \in Nat /\ c + old <= 2 /\ a + c <= Len(send)
    /\ \A i \in 1 .. Len(send) : send[i] = "old" <=> i \in a + 1 .. a + c

(* While an old sample is still being read, no other has been put behind.   *)
OldInv ==
    /\ \E a, c : OldAre(a, c)
    /\ stale = TRUE => old = 0 /\ \A i \in 1 .. Len(send) : send[i] # "old"

LEMMA OldSampled ==
    ASSUME TypeOK, OldInv, NEW n \in 0 .. 2, send' = Sampled(n), old' = old, stale' = FALSE
    PROVE  OldInv'
<1> DEFINE x == IF stale THEN "old" ELSE "new"
           new == [i \in 1 .. n |-> x]
<1>1. new \in Seq({"old", "new"}) /\ Len(new) = n /\ \A i \in 1 .. n : new[i] = x
  BY DEF TypeOK
<1>2. send \in Seq({"old", "new"}) /\ stale \in BOOLEAN /\ old \in 0 .. 2
  BY DEF TypeOK
<1> HIDE DEF new
<1>3. send' = IF Len(send) + n <= SendSize THEN send \o new ELSE send
  BY DEF Sampled, new
<1>4. (stale = TRUE /\ x = "old") \/ (stale = FALSE /\ x = "new")
  BY <1>2
<1> HIDE DEF x
<1>5. CASE send' = send
  BY <1>5 DEF OldInv, OldAre
<1>6. CASE send' = send \o new
  <2> PICK l \in Nat : l = Len(send)
    BY <1>2
  <2> PICK s : s = send'
    OBVIOUS
  <2>1. /\ Len(s) = l + n
        /\ \A i \in 1 .. l : s[i] = send[i]
        /\ \A i \in l + 1 .. l + n : s[i] = x
    <3>1. /\ Len(s) = Len(send) + Len(new)
          /\ \A i \in 1 .. Len(send) : s[i] = send[i]
          /\ \A i \in 1 .. Len(new) : s[Len(send) + i] = new[i]
      BY <1>1, <1>2, <1>6, ConcatProperties
    <3>2. ASSUME NEW i \in l + 1 .. l + n
          PROVE  s[i] = x
      <4>1. PICK j \in 1 .. n : l + j = i
        <5>1. i - l \in 1 .. n /\ l + (i - l) = i
          OBVIOUS
        <5> QED
          BY <5>1
      <4> QED
        BY <1>1, <3>1, <4>1
    <3> QED
      BY <1>1, <3>1, <3>2
  <2>2. CASE stale = TRUE
    <3>1. \A i \in 1 .. l + n : s[i] = "old" <=> i \in l + 1 .. l + n
      BY <1>4, <2>1, <2>2 DEF OldInv
    <3>2. n + old <= 2
      BY <2>2 DEF OldInv
    <3>3. OldAre(l, n)'
      BY <2>1, <3>1, <3>2 DEF OldAre
    <3> QED
      BY <3>3 DEF OldInv
  <2>3. CASE stale = FALSE
    <3>1. PICK a, c : OldAre(a, c)
      BY DEF OldInv
    <3>2. /\ a \in Nat /\ c \in Nat /\ a + c <= l + n /\ c + old <= 2
          /\ \A i \in 1 .. l + n : s[i] = "old" <=> i \in a + 1 .. a + c
      BY <1>4, <2>1, <2>3, <3>1 DEF OldAre
    <3>3. OldAre(a, c)'
      BY <2>1, <3>2 DEF OldAre
    <3> QED
      BY <3>3 DEF OldInv
  <2> QED
    BY <1>4, <2>2, <2>3
<1> QED
  BY <1>3, <1>5, <1>6

LEMMA OldSent == TypeOK /\ OldInv /\ UdpSendBuffer => OldInv'
<1> SUFFICES ASSUME TypeOK, OldInv, UdpSendBuffer
             PROVE  OldInv'
  OBVIOUS
<1>1. PICK a, c : OldAre(a, c)
  BY DEF OldInv
<1>2. /\ send \in Seq({"old", "new"}) /\ send # << >> /\ send' = Tail(send) /\ stale' = stale
  BY Zenon DEF UdpSendBuffer, TypeOK
<1>3. PICK l \in Nat : l + 1 = Len(send)
  BY <1>2
<1> PICK s : s = send'
  OBVIOUS
<1>4. /\ Len(s) = l /\ \A i \in 1 .. l : s[i] = send[i + 1]
  BY <1>2, <1>3, HeadTailProperties
<1>5. Head(send) = send[1] /\ 1 \in 1 .. Len(send)
  BY <1>2, <1>3
<1>6. \A i \in 1 .. l : i + 1 \in 1 .. Len(send)
  BY <1>3
<1>7. old' = IF Head(send) = "old" /\ old < 2 THEN old + 1 ELSE old
  BY DEF UdpSendBuffer
<1>8. old \in 0 .. 2
  BY DEF TypeOK
<1>9. CASE a = 0 /\ c # 0
  <2>1. Head(send) = "old"
    BY <1>1, <1>5, <1>9 DEF OldAre
  <2>2. old' = old + 1
    BY <1>1, <1>7, <1>9, <1>8, <2>1 DEF OldAre
  <2> PICK d \in Nat : d + 1 = c
    <3>1. c - 1 \in Nat /\ (c - 1) + 1 = c
      BY <1>1, <1>9 DEF OldAre
    <3> QED
      BY <3>1
  <2>3. /\ \A i \in 1 .. l : s[i] = "old" <=> i \in 1 .. d
        /\ d <= l /\ d + 1 + old <= 2
    BY <1>1, <1>3, <1>4, <1>6, <1>9 DEF OldAre
  <2>4. OldAre(0, d)'
    BY <1>4, <1>8, <2>2, <2>3 DEF OldAre
  <2>5. stale # TRUE
    BY <1>5, <2>1 DEF OldInv
  <2> QED
    BY <1>2, <2>4, <2>5 DEF OldInv
<1>10. CASE a # 0 \/ c = 0
  <2>1. Head(send) # "old"
    BY <1>1, <1>5, <1>10 DEF OldAre
  <2>2. old' = old
    BY <1>7, <2>1
  <2>3. PICK b \in Nat : b = IF a = 0 THEN 0 ELSE a - 1
    BY <1>1 DEF OldAre
  <2>4. /\ \A i \in 1 .. l : s[i] = "old" <=> i \in b + 1 .. b + c
        /\ b + c <= l /\ c \in Nat /\ c + old <= 2
    BY <1>1, <1>3, <1>4, <1>6, <1>10, <2>3 DEF OldAre
  <2>5. OldAre(b, c)'
    BY <1>4, <2>2, <2>4 DEF OldAre
  <2>6. stale' = TRUE => old' = 0 /\ \A i \in 1 .. l : s[i] # "old"
    BY <1>2, <1>4, <1>6, <2>2 DEF OldInv
  <2> QED
    BY <1>4, <2>5, <2>6 DEF OldInv
<1> QED
  BY <1>9, <1>10

(* A clear of the sending buffer leaves no old sample in it.                *)
LEMMA OldCleared ==
    ASSUME TypeOK, OldInv, send' = << >>, old' \in {0, old}, stale' = TRUE => old' = 0
    PROVE  OldInv'
<1>1. old \in 0 .. 2
  BY DEF TypeOK
<1>2. PICK s : s = send' /\ Len(s) = 0 /\ \A i \in 1 .. Len(s) : FALSE
  OBVIOUS
<1>3. 0 + old' <= 2
  <2>1. CASE old' = 0
    BY <2>1
  <2>2. CASE old' = old
    BY <1>1, <2>2
  <2> QED
    BY <2>1, <2>2
<1>4. OldAre(0, 0)'
  <2> SUFFICES /\ 0 \in Nat /\ 0 + old' <= 2 /\ 0 + 0 <= Len(s)
               /\ \A i \in 1 .. Len(s) : s[i] = "old" <=> i \in 0 + 1 .. 0 + 0
    BY <1>2 DEF OldAre
  <2>1. 0 \in Nat /\ 0 + 0 <= Len(s)
    BY <1>2
  <2>2. \A i \in 1 .. Len(s) : s[i] = "old" <=> i \in 0 + 1 .. 0 + 0
    BY <1>2
  <2> QED
    BY <1>3, <2>1, <2>2, Zenon
<1> QED
  BY <1>2, <1>4 DEF OldInv

LEMMA OldStep == TypeOK /\ OldInv /\ [Next]_vars => OldInv'
<1> SUFFICES ASSUME TypeOK, OldInv, [Next]_vars
             PROVE  OldInv'
  OBVIOUS
<1>1. CASE Exit \/ LiveAnnExit
  <2>1. send' = << >> /\ old' = old /\ stale' = stale
    BY <1>1 DEF Exit, LiveAnnExit, ClearAllAudioDataBuffer
  <2> QED
    BY <2>1, OldCleared DEF OldInv
<1>2. CASE Enter \/ LiveAnnEnter
  <2>1. send' = << >> /\ old' = 0
    BY <1>2 DEF Enter, LiveAnnEnter, Cleared, ClearAllAudioDataBuffer, SamplesGrowOld
  <2> QED
    BY <2>1, OldCleared
<1>3. CASE UdpSendBuffer
  BY <1>3, OldSent
<1>4. CASE AnnouncementRead
  <2>1. button + (IF this_bcu_ptt_state = 1 /\ ptt = 0 THEN 1 ELSE 0) \in 0 .. 2
    BY DEF TypeOK
  <2>2. old' = old /\ stale' = FALSE
    BY <1>4 DEF AnnouncementRead, MicrophoneRead
  <2> QED
    BY <1>4, <2>1, <2>2, OldSampled DEF AnnouncementRead
<1>5. CASE SessionRead
  <2>1. ptt \in 0 .. 2
    BY DEF TypeOK
  <2>2. old' = old /\ stale' = FALSE /\ send' = Sampled(ptt)
    BY <1>5 DEF SessionRead, MicrophoneRead
  <2> QED
    BY <2>1, <2>2, OldSampled
<1>6. CASE UNCHANGED <<send, old, stale>>
  BY <1>6 DEF OldInv, OldAre
<1>7. CASE TogglePtt \/ SortAlgorithm2 \/ alarm_func_handle_audio_sample \/ Played
           \/ BcuMicSampleAndPlayEntry \/ UNCHANGED vars
  BY <1>6, <1>7 DEF TogglePtt, SortAlgorithm2, alarm_func_handle_audio_sample, Played,
                    BcuMicSampleAndPlayEntry, vars
<1> QED
  BY <1>1, <1>2, <1>3, <1>4, <1>5, <1>7 DEF Next, Turn

LEMMA OldInit == Init => OldInv
<1> SUFFICES ASSUME Init
             PROVE  OldInv
  OBVIOUS
<1>1. OldAre(0, 0)
  BY DEF Init, OldAre
<1> QED
  BY <1>1 DEF Init, OldInv

(* Of the samples taken before a session or an announcement was entered, at *)
(* most the one being read and the blank that follows it are sent in it,    *)
(* for a sending buffer of any size and wherever the clear of the buffers   *)
(* falls into the reading of the microphone.                                *)
THEOREM OldSamplesEnd == Spec => []AtMostOneOldSample
<1>1. ASSUME TypeOK, OldInv
      PROVE  AtMostOneOldSample
  <2>1. PICK a, c : OldAre(a, c)
    BY <1>1 DEF OldInv
  <2>2. a \in Nat /\ c \in Nat /\ c + old <= 2 /\ old \in 0 .. 2
    BY <1>1, <2>1 DEF OldAre, TypeOK
  <2>3. OldSamples = a + 1 .. a + c
    <3>1. DOMAIN send = 1 .. Len(send) /\ Len(send) \in Nat
      BY <1>1 DEF TypeOK
    <3>2. \A i \in 1 .. Len(send) : send[i] = "old" <=> i \in a + 1 .. a + c
      BY <2>1 DEF OldAre
    <3>3. \A i \in a + 1 .. a + c : i \in 1 .. Len(send)
      BY <2>1, <2>2 DEF OldAre
    <3>4. ASSUME NEW i
          PROVE  i \in OldSamples <=> i \in a + 1 .. a + c
      BY <3>1, <3>2, <3>3 DEF OldSamples
    <3> QED
      BY <3>4, Zenon
  <2>4. Cardinality(a + 1 .. a + c) = c
    <3>1. Cardinality(a + 1 .. a + c)
            = IF a + 1 > a + c THEN 0 ELSE (a + c) - (a + 1) + 1
      BY <2>2, FS_Interval
    <3> QED
      BY <2>2, <3>1
  <2> QED
    BY <2>2, <2>3, <2>4 DEF AtMostOneOldSample
<1> QED
  BY <1>1, OldInit, OldStep, TypeCorrect, PTL DEF Spec

-----------------------------------------------------------------------------
(* A session that has caught up *)

(* Between two turns less comes than a turn of a stable session takes away: *)
(* one write, and what is dropped at once.                                  *)
TalkerIsNoFaster == PerTurn < Chunk + Droppable

(* While a session that has caught up plays, it is stable, and no more      *)
(* waits than has come since the last turn.                                 *)
QuickInv == quick /\ Plays => stable = 1 /\ play_audio = 1 /\ recv + room <= PerTurn

(* A turn leaves nothing behind if what waits is not too much, and what it  *)
(* leaves has come later.                                                   *)
LEMMA QuickTurn ==
    ASSUME TypeOK, QuickInv, NEW m \in Sessions, PlayTurn(m),
           UNCHANGED <<intercom, ann, entering, timer>>
    PROVE  QuickInv' /\ (TalkerIsNoFaster /\ quick /\ Plays => quick')
<1> USE Sizes
<1>0. /\ play_audio \in {0, 1} /\ worked \in 0 .. Settled /\ stable \in {0, 1}
      /\ recv \in 0 .. RecvSize /\ room \in 0 .. PerTurn /\ quick \in BOOLEAN
  BY DEF TypeOK
<1>1. Plays' <=> Plays
  BY DEF Plays, InSession
<1>2. ASSUME NEW w \in 0 .. Settled, NEW s \in {0, 1}, play_audio' = 1,
             quick /\ Plays => s = 1,
             PlayAudioTwice(m, [worked |-> w, stable |-> s])
      PROVE  QuickInv' /\ (TalkerIsNoFaster /\ quick /\ Plays => quick')
  <2> DEFINE already == [worked |-> w, stable |-> s]
  <2>0. already.worked = w /\ already.stable = s
    OBVIOUS
  <2> HIDE DEF already
  <2>1. PlayAudioTwice(m, already)
    BY <1>2 DEF already
  <2>2. CASE m = "d2d" /\ recv = 0
    <3>1. room' = PerTurn /\ stable' = s /\ recv' = 0 /\ quick' = quick
      BY <1>0, <2>0, <2>1, <2>2 DEF PlayAudioTwice
    <3>2. recv' + room' <= PerTurn
      BY <3>1
    <3> QED
      BY <1>1, <1>2, <3>1, <3>2 DEF QuickInv
  <2>3. CASE ~(m = "d2d" /\ recv = 0)
    <3>1. /\ stable' = IF w >= Settled THEN 1 ELSE s
          /\ recv' = IF Kept > Chunk THEN Kept - Chunk ELSE 0
          /\ room' = PerTurn /\ quick' = (stable' = 1 /\ recv' = 0)
      BY <2>0, <2>1, <2>3 DEF PlayAudioTwice
    <3>2. QuickInv'
      <4>1. CASE quick'
        <5>1. stable' = 1 /\ recv' = 0
          BY <3>1, <4>1, Zenon
        <5>2. recv' + room' <= PerTurn
          BY <3>1, <5>1
        <5> QED
          BY <1>2, <5>1, <5>2 DEF QuickInv
      <4>2. CASE ~quick'
        BY <4>2 DEF QuickInv
      <4> QED
        BY <4>1, <4>2
    <3>3. ASSUME TalkerIsNoFaster, quick, Plays
          PROVE  quick'
      <4>1. stable' = 1
        BY <1>2, <3>1, <3>3
      <4>2. recv <= PerTurn
        BY <1>0, <3>3 DEF QuickInv
      <4>3. Kept \in Nat /\ Kept <= Chunk
        BY <1>0, <3>3, <4>1, <4>2 DEF Kept, TalkerIsNoFaster
      <4>4. recv' = 0
        BY <3>1, <4>3
      <4> QED
        BY <3>1, <4>1, <4>4, Zenon
    <3> QED
      BY <3>2, <3>3
  <2> QED
    BY <2>2, <2>3
<1>3. CASE UNCHANGED <<play_audio, worked, stable, recv, room, quick>>
  BY <1>1, <1>3 DEF QuickInv
<1>4. CASE /\ play_audio = 0 /\ play_audio' = 1
           /\ PlayAudioTwice(m, [worked |-> 0, stable |-> 0])
  <2>1. 0 \in 0 .. Settled /\ 0 \in {0, 1} /\ ~(quick /\ Plays)
    BY <1>4 DEF QuickInv
  <2> QED
    BY <1>2, <1>4, <2>1
<1>5. CASE play_audio' = 1 /\ PlayAudioTwice(m, [worked |-> worked, stable |-> stable])
  BY <1>0, <1>2, <1>5 DEF QuickInv
<1> QED
  BY <1>3, <1>4, <1>5 DEF PlayTurn

LEMMA QuickStep ==
    TypeOK /\ QuickInv /\ [Next]_vars
        => QuickInv' /\ (TalkerIsNoFaster /\ quick /\ Plays /\ Plays' => quick')
<1> SUFFICES ASSUME TypeOK, QuickInv, [Next]_vars
             PROVE  QuickInv' /\ (TalkerIsNoFaster /\ quick /\ Plays /\ Plays' => quick')
  OBVIOUS
<1> USE DEF QuickInv, Plays, InSession
<1>1. CASE Exit
  BY <1>1 DEF Exit
<1>2. CASE Enter
  BY <1>2 DEF Enter
<1>3. CASE LiveAnnEnter \/ LiveAnnExit
  BY <1>3 DEF LiveAnnEnter, LiveAnnExit
<1>4. CASE SortAlgorithm2
  <2>1. UNCHANGED <<stateVars, playVars, quick>>
    BY <1>4 DEF SortAlgorithm2
  <2>2. ASSUME Plays, recv + room <= PerTurn
        PROVE  recv' + room' <= PerTurn
    <3>1. recv \in Nat /\ room \in Nat /\ RecvSize \in Nat /\ PerTurn \in Nat
      BY Sizes DEF TypeOK
    <3>2. room > 0 /\ room' = room - 1
      BY <1>4, <2>2 DEF SortAlgorithm2
    <3>3. recv' = recv + 1 \/ recv' = recv
      BY <1>4 DEF SortAlgorithm2, Pushed
    <3> QED
      BY <2>2, <3>1, <3>2, <3>3
  <2> QED
    BY <2>1, <2>2 DEF stateVars, playVars
<1>5. CASE UdpSendBuffer
  <2>1. UNCHANGED <<stateVars, playVars, recv, room, quick>>
    BY <1>5, Zenon DEF UdpSendBuffer
  <2> QED
    BY <2>1 DEF stateVars, playVars
<1>6. CASE TogglePtt \/ alarm_func_handle_audio_sample \/ AnnouncementRead \/ Played
           \/ UNCHANGED vars
  BY <1>6 DEF TogglePtt, alarm_func_handle_audio_sample, AnnouncementRead, Played, vars,
              stateVars, playVars
<1>7. CASE BcuMicSampleAndPlayEntry
  <2>1. UNCHANGED <<intercom, ann, entering, timer>>
    BY <1>7 DEF BcuMicSampleAndPlayEntry, stateVars
  <2>2. CASE UNCHANGED <<playVars, recv, room, quick>>
    BY <2>1, <2>2 DEF playVars
  <2>3. CASE PlayTurn("monitor")
    BY <2>1, <2>3, QuickTurn DEF Sessions
  <2> QED
    BY <1>7, <2>2, <2>3 DEF BcuMicSampleAndPlayEntry
<1>8. CASE SessionRead
  <2>1. mode \in Sessions
    BY <1>8 DEF SessionRead, MicrophoneRead, TypeOK, Sessions
  <2>2. UNCHANGED <<intercom, ann, entering, timer>> /\ PlayTurn(mode)
    BY <1>8 DEF SessionRead, stateVars
  <2> QED
    BY <2>1, <2>2, QuickTurn
<1> QED
  BY <1>1, <1>2, <1>3, <1>4, <1>5, <1>6, <1>7, <1>8 DEF Next, Turn

(* A stable session that has caught up with its talker stays so, for any    *)
(* sizes, while less comes between two turns than one write and what a      *)
(* stable session drops: 6 KiB in the program.                              *)
THEOREM NoBacklogAgain == TalkerIsNoFaster /\ Spec => StaysWorkedOff
<1>1. Init => QuickInv
  BY DEF Init, QuickInv
<1>2. TypeOK /\ QuickInv /\ [Next]_vars => QuickInv'
  BY QuickStep
<1>3. ASSUME TalkerIsNoFaster
      PROVE  TypeOK /\ QuickInv /\ [Next]_vars => [quick /\ Plays /\ Plays' => quick']_vars
  BY <1>3, QuickStep
<1>4. ASSUME TalkerIsNoFaster
      PROVE  Spec => StaysWorkedOff
  <2>1. TypeOK /\ QuickInv /\ [Next]_vars => [quick /\ Plays /\ Plays' => quick']_vars
    BY <1>3, <1>4
  <2> QED
    BY <1>1, <1>2, <2>1, TypeCorrect, PTL DEF Spec, StaysWorkedOff
<1> QED
  BY <1>4
=============================================================================
