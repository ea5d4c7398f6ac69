---------------------------- MODULE MCTone_proofs ----------------------------
(***************************************************************************)
(* Proofs about the tones of the calls, for buffers and writes of any size  *)
(* and any number of calls, about the start of the buffers, whichever       *)
(* allocations fail, and about the run that checks them with the ring.      *)
(***************************************************************************)
EXTENDS MCTone, CharBuffer_proofs

-----------------------------------------------------------------------------
(* Types *)

(* The types, variable by variable, in three parts.                         *)
SessionTypes ==
    /\ intercom \in {"idle", "d2p", "d2d", "monitor"} /\ ann \in {"idle", "live"}
    /\ entering \in {"none", "control", "touch"}
    /\ begin_to_broadcast_audio_data \in {0, 1}
    /\ calls \in [Alarm!Kinds -> 0 .. MaxCalls] /\ wakes \in 0 .. MaxWakes
    /\ sampler \in {"wait", "session_write", "pcu", "pcu_write", "pcu_again",
                    "bcu", "bcu_write", "bcu_again", "turned"}

ToneTypes ==
    /\ open_snd_playback \in [Alarm!Kinds -> 0 .. 2]
    /\ alarm_playing \in [Alarm!Kinds -> {0, 1}]
    /\ playing_again \in [Alarm!Kinds -> {0, 1}]
    /\ timer \in BOOLEAN

BufferTypes ==
    /\ read \in 0 .. written /\ written \in 0 .. AlarmSize
    /\ pending \in 0 .. Chunk /\ flight \in 0 .. Chunk
    /\ uncleared \in BOOLEAN

LEMMA ToneTypesAre == Alarm!TypeOK <=> SessionTypes /\ ToneTypes /\ BufferTypes
BY DEF Alarm!TypeOK, SessionTypes, ToneTypes, BufferTypes

(* A tone is started or not; what is started finds its buffers clean.       *)
LEMMA StartTonesType ==
    ASSUME ToneTypes, BufferTypes, NEW kinds \in SUBSET Alarm!Kinds, NEW b \in BOOLEAN,
           Alarm!StartTones(kinds, b)
    PROVE  /\ ToneTypes'
           /\ \/ UNCHANGED <<Alarm!bufferVars, uncleared>>
              \/ written' = 0 /\ read' = 0 /\ pending' = 0 /\ uncleared' = FALSE
<1> DEFINE new == {k \in kinds : open_snd_playback[k] = 0}
<1>1. /\ open_snd_playback' = [k \in Alarm!Kinds |-> IF k \in new THEN 1 ELSE open_snd_playback[k]]
      /\ alarm_playing' = [k \in Alarm!Kinds |-> IF k \in new THEN 1 ELSE alarm_playing[k]]
      /\ playing_again' = playing_again
      /\ IF new = {} THEN UNCHANGED <<Alarm!bufferVars, uncleared>> /\ timer' = b
         ELSE Alarm!ClearAlarm /\ pending' = 0 /\ timer' = TRUE
  BY DEF Alarm!StartTones
<1> HIDE DEF new
<1>2. /\ open_snd_playback' \in [Alarm!Kinds -> 0 .. 2]
      /\ alarm_playing' \in [Alarm!Kinds -> {0, 1}]
      /\ playing_again' \in [Alarm!Kinds -> {0, 1}]
  BY <1>1 DEF ToneTypes
<1>3. CASE new = {}
  BY <1>1, <1>2, <1>3 DEF ToneTypes
<1>4. CASE new # {}
  BY <1>1, <1>2, <1>4 DEF ToneTypes, Alarm!ClearAlarm
<1> QED
  BY <1>3, <1>4

LEMMA ResetType ==
    ASSUME ToneTypes, NEW k \in Alarm!Kinds, NEW b \in BOOLEAN, Alarm!Reset(k, b)
    PROVE  /\ ToneTypes' /\ alarm_playing'[k] = 0
           /\ \A j \in Alarm!Kinds : alarm_playing'[j] = 1 => alarm_playing[j] = 1
           /\ written' = 0 /\ read' = 0 /\ pending' = 0 /\ uncleared' = FALSE
BY DEF Alarm!Reset, Alarm!ClearAlarm, ToneTypes

(* What the control and the touch thread may do to the buffers.             *)
Cleaned == written' = 0 /\ read' = 0 /\ pending' = 0 /\ uncleared' = FALSE
LeftoverCleared == pending' = 0 /\ UNCHANGED <<written, read, uncleared>>
KeptOrCleaned == UNCHANGED <<Alarm!bufferVars, uncleared>> \/ Cleaned \/ LeftoverCleared

LEMMA BuffersKept ==
    ASSUME BufferTypes, KeptOrCleaned, flight' = flight
    PROVE  BufferTypes'
<1>1. CASE UNCHANGED <<Alarm!bufferVars, uncleared>>
  BY <1>1 DEF BufferTypes, Alarm!bufferVars
<1>2. CASE Cleaned
  <2>1. uncleared' \in BOOLEAN
    BY <1>2 DEF Cleaned
  <2> QED
    BY <1>2, <2>1, ToneAssumption DEF Cleaned, BufferTypes
<1>3. CASE LeftoverCleared
  BY <1>3, ToneAssumption DEF LeftoverCleared, BufferTypes
<1> QED
  BY <1>1, <1>2, <1>3 DEF KeptOrCleaned

LEMMA StartTonesKeep ==
    ASSUME ToneTypes, BufferTypes, NEW kinds \in SUBSET Alarm!Kinds, NEW b \in BOOLEAN,
           Alarm!StartTones(kinds, b)
    PROVE  ToneTypes' /\ KeptOrCleaned
BY StartTonesType DEF KeptOrCleaned, Cleaned

LEMMA OtherStep ==
    ASSUME SessionTypes, ToneTypes, BufferTypes, Alarm!OtherSteps
    PROVE  SessionTypes' /\ ToneTypes' /\ BufferTypes' /\ KeptOrCleaned
           /\ UNCHANGED Alarm!samplerVars
<1>0. /\ timer \in BOOLEAN /\ TRUE \in BOOLEAN /\ FALSE \in BOOLEAN
  BY DEF ToneTypes
<1>1. ASSUME Alarm!ProbeBigCommPackage
      PROVE  SessionTypes' /\ ToneTypes' /\ KeptOrCleaned /\ UNCHANGED Alarm!samplerVars
  <2>1. SessionTypes' /\ UNCHANGED Alarm!samplerVars
    BY <1>1 DEF Alarm!ProbeBigCommPackage, SessionTypes, Alarm!sessionVars,
                Alarm!samplerVars
  <2>2. CASE intercom = "idle" /\ ann = "idle"
    <3> DEFINE kinds == {k \in Alarm!Kinds : calls'[k] # 0 /\ (k = "pcu" => calls'["bcu"] = 0)}
    <3>1. Alarm!StartTones(kinds, timer) /\ kinds \in SUBSET Alarm!Kinds
      BY <1>1, <2>2 DEF Alarm!ProbeBigCommPackage
    <3> QED
      BY <1>0, <2>1, <3>1, StartTonesKeep
  <2>3. CASE ~(intercom = "idle" /\ ann = "idle")
    BY <1>1, <2>1, <2>3 DEF Alarm!ProbeBigCommPackage, ToneTypes, Alarm!toneVars,
                            KeptOrCleaned
  <2> QED
    BY <2>2, <2>3
<1>2. ASSUME Alarm!IdleIntercomProcess
      PROVE  SessionTypes' /\ ToneTypes' /\ KeptOrCleaned /\ UNCHANGED Alarm!samplerVars
  <2>1. SessionTypes' /\ KeptOrCleaned /\ UNCHANGED Alarm!samplerVars
    BY <1>2 DEF Alarm!IdleIntercomProcess, SessionTypes, Alarm!sessionVars,
                Alarm!samplerVars, KeptOrCleaned
  <2> QED
    BY <1>2, <2>1 DEF Alarm!IdleIntercomProcess, ToneTypes
<1>3. ASSUME Alarm!Enter
      PROVE  SessionTypes' /\ ToneTypes' /\ KeptOrCleaned /\ UNCHANGED Alarm!samplerVars
  <2>1. SessionTypes' /\ UNCHANGED Alarm!samplerVars
    BY <1>3 DEF Alarm!Enter, SessionTypes, Alarm!samplerVars
  <2>2. CASE Alarm!EnterCall
    BY <2>1, <2>2, ResetType DEF Alarm!EnterCall, KeptOrCleaned, Cleaned, Alarm!Kinds
  <2>3. CASE Alarm!EnterMonitor
    BY <2>1, <2>3 DEF Alarm!EnterMonitor, ToneTypes, Alarm!toneVars, KeptOrCleaned
  <2>4. CASE Alarm!IdleIntercomEnter
    <3>1. Alarm!Audible(Alarm!Kinds) \in SUBSET Alarm!Kinds
      BY DEF Alarm!Audible
    <3>2. CASE ann = "idle"
      BY <1>0, <2>1, <2>4, <3>1, <3>2, StartTonesKeep DEF Alarm!IdleIntercomEnter
    <3>3. CASE ann # "idle"
      BY <2>1, <2>4, <3>3 DEF Alarm!IdleIntercomEnter, ToneTypes, Alarm!toneVars,
                              KeptOrCleaned
    <3> QED
      BY <3>2, <3>3
  <2> QED
    BY <1>3, <2>2, <2>3, <2>4 DEF Alarm!Enter
<1>4. ASSUME Alarm!RefuseCall \/ Alarm!ResetSoundTimer
      PROVE  SessionTypes' /\ ToneTypes' /\ KeptOrCleaned /\ UNCHANGED Alarm!samplerVars
  <2>1. SessionTypes' /\ KeptOrCleaned /\ UNCHANGED Alarm!samplerVars
    BY <1>4 DEF Alarm!RefuseCall, Alarm!ResetSoundTimer, SessionTypes, Alarm!sessionVars,
                Alarm!samplerVars,
                KeptOrCleaned
  <2> QED
    BY <1>4, <2>1 DEF Alarm!RefuseCall, Alarm!ResetSoundTimer, ToneTypes, Alarm!toneVars
<1>5. ASSUME NEW thread \in {"control", "touch"}, Alarm!BeginSession(thread)
      PROVE  SessionTypes' /\ ToneTypes' /\ KeptOrCleaned /\ UNCHANGED Alarm!samplerVars
  <2>1. SessionTypes' /\ KeptOrCleaned /\ UNCHANGED Alarm!samplerVars
    BY <1>5, ToneAssumption DEF Alarm!BeginSession, SessionTypes, Alarm!samplerVars,
                                KeptOrCleaned
  <2> QED
    BY <1>5, <2>1 DEF Alarm!BeginSession, ToneTypes, Alarm!toneVars
<1>6. ASSUME NEW thread \in {"control", "touch"}, Alarm!EndSession(thread)
      PROVE  SessionTypes' /\ ToneTypes' /\ KeptOrCleaned /\ UNCHANGED Alarm!samplerVars
  <2> DEFINE kinds == {"pcu"} \cap {k \in Alarm!Kinds : intercom = "d2p"}
  <2>1. SessionTypes' /\ UNCHANGED Alarm!samplerVars
    BY <1>6 DEF Alarm!EndSession, SessionTypes, Alarm!samplerVars
  <2>2. Alarm!StartTones(kinds, FALSE) /\ kinds \in SUBSET Alarm!Kinds
    BY <1>6 DEF Alarm!EndSession
  <2> QED
    BY <1>0, <2>1, <2>2, StartTonesKeep
<1>7. ASSUME Alarm!LiveAnnEnter
      PROVE  SessionTypes' /\ ToneTypes' /\ KeptOrCleaned /\ UNCHANGED Alarm!samplerVars
  <2>1. SessionTypes' /\ KeptOrCleaned /\ UNCHANGED Alarm!samplerVars
    BY <1>7 DEF Alarm!LiveAnnEnter, SessionTypes, Alarm!samplerVars, KeptOrCleaned,
                LeftoverCleared
  <2> QED
    BY <1>7, <2>1 DEF Alarm!LiveAnnEnter, ToneTypes, Alarm!toneVars
<1>8. ASSUME Alarm!LiveAnnExit
      PROVE  SessionTypes' /\ ToneTypes' /\ KeptOrCleaned /\ UNCHANGED Alarm!samplerVars
  <2> DEFINE kinds == Alarm!Audible({k \in Alarm!Kinds : intercom = "idle"})
  <2>1. SessionTypes' /\ UNCHANGED Alarm!samplerVars
    BY <1>8 DEF Alarm!LiveAnnExit, SessionTypes, Alarm!samplerVars
  <2>2. Alarm!StartTones(kinds, FALSE) /\ kinds \in SUBSET Alarm!Kinds
    BY <1>8 DEF Alarm!LiveAnnExit, Alarm!Audible
  <2> QED
    BY <1>0, <2>1, <2>2, StartTonesKeep
<1>9. SessionTypes' /\ ToneTypes' /\ KeptOrCleaned /\ UNCHANGED Alarm!samplerVars
  BY <1>1, <1>2, <1>3, <1>4, <1>5, <1>6, <1>7, <1>8 DEF Alarm!OtherSteps
<1>10. flight' = flight
  BY <1>9 DEF Alarm!samplerVars
<1> QED
  BY <1>9, <1>10, BuffersKept

(* Where the sampling thread may go.                                        *)
LEMMA WhereTo ==
    ASSUME NEW k \in Alarm!Kinds
    PROVE  /\ Alarm!After(k) \in {"bcu", "turned"}
           /\ Alarm!Write(k) \in {"pcu_write", "bcu_write"}
           /\ Alarm!Again(k) \in {"pcu_again", "bcu_again"}
BY DEF Alarm!Kinds, Alarm!After, Alarm!Write, Alarm!Again

(* What is offered fits into one write and is taken from what is there.     *)
LEMMA OfferType ==
    ASSUME BufferTypes, NEW end \in Nat, NEW from \in 0 .. end, NEW next,
           Alarm!Offer(end, from, next)
    PROVE  /\ flight' \in 0 .. Chunk /\ pending' = 0 /\ read' \in 0 .. end
           /\ uncleared' = TRUE /\ sampler' = next
<1> DEFINE own == Alarm!Least(end - from, Chunk - pending)
<1>1. flight' = pending + own /\ pending' = 0 /\ read' = from + own
      /\ uncleared' = TRUE /\ sampler' = next
  BY DEF Alarm!Offer
<1>2. own \in Nat /\ own <= end - from /\ own <= Chunk - pending
  BY ToneAssumption DEF Alarm!Least, BufferTypes
<1> HIDE DEF own
<1> QED
  BY <1>1, <1>2, ToneAssumption DEF BufferTypes

(* A turn of a tone offers something only when more than the border is      *)
(* there, and otherwise keeps or drops the leftover.                        *)
LEMMA PlayToneDoes ==
    ASSUME SessionTypes, ToneTypes, BufferTypes, NEW k \in Alarm!Kinds, Alarm!PlayTone(k)
    PROVE  /\ SessionTypes' /\ ToneTypes' /\ BufferTypes' /\ written' >= written
           /\ alarm_playing' = alarm_playing
           /\ \/ /\ sampler' \in {Alarm!Write(k), Alarm!Again(k)} /\ alarm_playing[k] = 1
                 /\ pending' = 0 /\ (written' > Border \/ pending > 0)
              \/ /\ sampler' = Alarm!After(k) /\ pending' \in {0, pending}
                 /\ uncleared' = uncleared
<1> DEFINE end == IF open_snd_playback[k] = 1 THEN Alarm!Fill(written) ELSE written
           left == end - read + pending
<1>0. /\ read \in 0 .. written /\ written \in 0 .. AlarmSize /\ pending \in 0 .. Chunk
      /\ flight \in 0 .. Chunk /\ uncleared \in BOOLEAN
      /\ Tone \in Nat /\ AlarmSize \in Nat /\ Chunk \in Nat /\ Border \in Nat
  BY ToneAssumption DEF BufferTypes
<1>1. end \in written .. AlarmSize /\ end \in Nat
  BY <1>0 DEF Alarm!Fill, Alarm!Least
<1>2. /\ open_snd_playback' =
            [open_snd_playback EXCEPT ![k] = IF @ = 1 THEN 2 ELSE @]
      /\ written' = end
      /\ UNCHANGED <<Alarm!sessionVars, calls, alarm_playing, timer, wakes>>
  BY DEF Alarm!PlayTone
<1>3. \/ /\ alarm_playing[k] = 1 /\ left > Border
         /\ Alarm!Offer(end, read, Alarm!Write(k)) /\ UNCHANGED playing_again
      \/ /\ alarm_playing[k] = 1 /\ left <= Border /\ end + pending > Border
         /\ Alarm!Offer(end, 0, Alarm!Again(k)) /\ UNCHANGED playing_again
      \/ /\ read' = 0 /\ pending' = 0
         /\ playing_again' = [playing_again EXCEPT ![k] = 1]
         /\ sampler' = Alarm!After(k) /\ UNCHANGED <<flight, uncleared>>
      \/ /\ sampler' = Alarm!After(k)
         /\ UNCHANGED <<read, pending, playing_again, flight, uncleared>>
  BY DEF Alarm!PlayTone
<1> HIDE DEF end
<1>4. /\ open_snd_playback' \in [Alarm!Kinds -> 0 .. 2] /\ alarm_playing' = alarm_playing
      /\ timer' \in BOOLEAN
  BY <1>2 DEF ToneTypes
<1>5. ASSUME playing_again' \in [Alarm!Kinds -> {0, 1}], read' \in 0 .. end,
             pending' \in 0 .. Chunk, flight' \in 0 .. Chunk, uncleared' \in BOOLEAN,
             sampler' \in {"bcu", "turned", "pcu_write", "bcu_write", "pcu_again",
                 "bcu_again"}
      PROVE  SessionTypes' /\ ToneTypes' /\ BufferTypes' /\ written' >= written
  <2>1. SessionTypes'
    BY <1>2, <1>5 DEF SessionTypes, Alarm!sessionVars
  <2>2. ToneTypes'
    BY <1>4, <1>5 DEF ToneTypes
  <2>3. BufferTypes' /\ written' >= written
    BY <1>0, <1>1, <1>2, <1>5 DEF BufferTypes
  <2> QED
    BY <2>1, <2>2, <2>3
<1>6. CASE /\ alarm_playing[k] = 1 /\ left > Border
           /\ Alarm!Offer(end, read, Alarm!Write(k)) /\ UNCHANGED playing_again
  <2>1. read \in 0 .. end /\ (end > Border \/ pending > 0)
    BY <1>0, <1>1, <1>6
  <2>2. /\ flight' \in 0 .. Chunk /\ pending' = 0 /\ read' \in 0 .. end
        /\ uncleared' = TRUE /\ sampler' = Alarm!Write(k)
    BY <1>1, <1>6, <2>1, OfferType
  <2>3. pending' \in 0 .. Chunk /\ uncleared' \in BOOLEAN
        /\ playing_again' \in [Alarm!Kinds -> {0, 1}]
    BY <1>0, <1>6, <2>2 DEF ToneTypes
  <2> QED
    BY <1>2, <1>4, <1>5, <1>6, <2>1, <2>2, <2>3, WhereTo
<1>7. CASE /\ alarm_playing[k] = 1 /\ left <= Border /\ end + pending > Border
           /\ Alarm!Offer(end, 0, Alarm!Again(k)) /\ UNCHANGED playing_again
  <2>1. 0 \in 0 .. end /\ (end > Border \/ pending > 0)
    BY <1>0, <1>1, <1>7
  <2>2. /\ flight' \in 0 .. Chunk /\ pending' = 0 /\ read' \in 0 .. end
        /\ uncleared' = TRUE /\ sampler' = Alarm!Again(k)
    BY <1>1, <1>7, <2>1, OfferType
  <2>3. pending' \in 0 .. Chunk /\ uncleared' \in BOOLEAN
        /\ playing_again' \in [Alarm!Kinds -> {0, 1}]
    BY <1>0, <1>7, <2>2 DEF ToneTypes
  <2> QED
    BY <1>2, <1>4, <1>5, <1>7, <2>1, <2>2, <2>3, WhereTo
<1>8. CASE /\ read' = 0 /\ pending' = 0
           /\ playing_again' = [playing_again EXCEPT ![k] = 1]
           /\ sampler' = Alarm!After(k) /\ UNCHANGED <<flight, uncleared>>
  <2>1. playing_again' \in [Alarm!Kinds -> {0, 1}] /\ read' \in 0 .. end
                                                   /\ pending' \in 0 .. Chunk
    BY <1>0, <1>1, <1>8 DEF ToneTypes
  <2> QED
    BY <1>0, <1>4, <1>5, <1>8, <2>1, WhereTo
<1>9. CASE /\ sampler' = Alarm!After(k)
           /\ UNCHANGED <<read, pending, playing_again, flight, uncleared>>
  <2>1. playing_again' \in [Alarm!Kinds -> {0, 1}] /\ read' \in 0 .. end
    BY <1>0, <1>1, <1>9 DEF ToneTypes
  <2> QED
    BY <1>0, <1>4, <1>5, <1>9, <2>1, WhereTo
<1> QED
  BY <1>3, <1>6, <1>7, <1>8, <1>9

LEMMA StopToneDoes ==
    ASSUME SessionTypes, ToneTypes, BufferTypes, NEW k \in Alarm!Kinds, Alarm!StopTone(k)
    PROVE  /\ SessionTypes' /\ ToneTypes' /\ BufferTypes' /\ sampler' = Alarm!After(k)
           /\ KeptOrCleaned
           /\ \A j \in Alarm!Kinds : alarm_playing'[j] = 1 => alarm_playing[j] = 1
<1>1. sampler' = Alarm!After(k) /\ UNCHANGED <<Alarm!sessionVars, calls, wakes, flight>>
  BY DEF Alarm!StopTone
<1>2. SessionTypes'
  BY <1>1, WhereTo DEF SessionTypes, Alarm!sessionVars
<1>3. CASE Alarm!Reset(k, ann = "live")
  BY <1>1, <1>2, <1>3, ResetType, BuffersKept DEF KeptOrCleaned, Cleaned
<1>4. CASE UNCHANGED <<Alarm!toneVars, timer, Alarm!bufferVars, uncleared>>
  <2>1. ToneTypes' /\ alarm_playing' = alarm_playing
    BY <1>4 DEF ToneTypes, Alarm!toneVars
  <2> QED
    BY <1>1, <1>2, <1>4, <2>1, BuffersKept DEF KeptOrCleaned
<1> QED
  BY <1>3, <1>4 DEF Alarm!StopTone

LEMMA PlayedDoes ==
    ASSUME SessionTypes, ToneTypes, BufferTypes, NEW k \in Alarm!Kinds, Alarm!Played(k)
    PROVE  /\ SessionTypes' /\ ToneTypes' /\ BufferTypes' /\ sampler' = Alarm!After(k)
           /\ written' = written /\ alarm_playing' = alarm_playing
           /\ \/ pending' \in {0, pending}
              \/ sampler = Alarm!Write(k) /\ uncleared
<1>1. /\ sampler' = Alarm!After(k) /\ flight' = 0
      /\ UNCHANGED <<Alarm!sessionVars, calls, open_snd_playback, alarm_playing, timer,
                     wakes,
                     written, read, uncleared>>
  BY DEF Alarm!Played
<1>2. SessionTypes'
  BY <1>1, WhereTo DEF SessionTypes, Alarm!sessionVars
<1>3. PICK left \in 0 .. flight :
         IF sampler = Alarm!Write(k) THEN Alarm!PutBack(left) /\ UNCHANGED playing_again
         ELSE pending' = 0 /\ playing_again' = [playing_again EXCEPT ![k] = 1]
  BY DEF Alarm!Played
<1>4. playing_again' \in [Alarm!Kinds -> {0, 1}]
  BY <1>3 DEF ToneTypes
<1>5. ToneTypes'
  BY <1>1, <1>4 DEF ToneTypes
<1>6. left \in 0 .. Chunk /\ 0 \in 0 .. Chunk /\ pending \in 0 .. Chunk
  BY ToneAssumption DEF BufferTypes
<1>7. pending' \in {0,
    pending} \/ (sampler = Alarm!Write(k) /\ uncleared /\ pending' = left)
  <2>1. CASE sampler = Alarm!Write(k) /\ uncleared
    BY <1>3, <2>1 DEF Alarm!PutBack
  <2>2. CASE sampler = Alarm!Write(k) /\ ~uncleared
    BY <1>3, <2>2 DEF Alarm!PutBack
  <2>3. CASE sampler # Alarm!Write(k)
    BY <1>3, <2>3
  <2> QED
    BY <2>1, <2>2, <2>3
<1>8. pending' \in 0 .. Chunk
  BY <1>6, <1>7
<1>9. BufferTypes'
  BY <1>1, <1>6, <1>8 DEF BufferTypes
<1> QED
  BY <1>1, <1>2, <1>5, <1>7, <1>9

(* The steps of the sampling thread that belong to no tone.                 *)
LEMMA TurnDoes ==
    ASSUME SessionTypes, ToneTypes, BufferTypes,
           Alarm!BcuMicSampleAndPlayEntry \/ Alarm!PlayedInSession \/ Alarm!EndOfTurn
    PROVE  /\ SessionTypes' /\ ToneTypes' /\ BufferTypes'
           /\ sampler' \in {"wait", "session_write", "pcu"} \/ sampler' = sampler
           /\ sampler' = "pcu" => sampler = "pcu" \/ intercom = "idle"
           /\ written' = written /\ pending' \in {0, pending}
           /\ uncleared' = uncleared \/ sampler' = "wait"
           /\ UNCHANGED <<Alarm!sessionVars, alarm_playing>>
<1>0. 0 \in 0 .. Chunk /\ pending \in 0 .. Chunk
  BY ToneAssumption DEF BufferTypes
<1>1. CASE Alarm!BcuMicSampleAndPlayEntry
  <2>1. /\ sampler = "wait" /\ wakes > 0 /\ wakes' = wakes - 1
        /\ UNCHANGED <<Alarm!sessionVars, calls, Alarm!toneVars, timer, written, read,
                       uncleared>>
    BY <1>1, Zenon DEF Alarm!BcuMicSampleAndPlayEntry
  <2>2. \/ UNCHANGED <<sampler, flight, pending>>
        \/ sampler' = "session_write" /\ flight' = pending /\ pending' = 0
        \/ intercom = "idle" /\ sampler' = "pcu" /\ UNCHANGED <<flight, pending>>
    BY <1>1 DEF Alarm!BcuMicSampleAndPlayEntry
  <2>3. flight' \in 0 .. Chunk /\ pending' \in {0, pending}
    BY <1>0, <2>2 DEF BufferTypes
  <2>4. SessionTypes'
    <3>1. wakes' \in 0 .. MaxWakes
      BY <2>1, ToneAssumption DEF SessionTypes
    <3>2. sampler' \in {"wait", "session_write", "pcu"}
      BY <2>1, <2>2
    <3>3. UNCHANGED <<Alarm!sessionVars, calls>>
      BY <2>1
    <3> QED
      BY <3>1, <3>2, <3>3 DEF SessionTypes, Alarm!sessionVars
  <2>5. ToneTypes' /\ alarm_playing' = alarm_playing
    BY <2>1 DEF ToneTypes, Alarm!toneVars
  <2>6. BufferTypes'
    BY <1>0, <2>1, <2>3 DEF BufferTypes
  <2> QED
    BY <2>1, <2>2, <2>3, <2>4, <2>5, <2>6
<1>2. CASE Alarm!PlayedInSession
  <2>1. SessionTypes' /\ sampler' = "wait" /\ UNCHANGED Alarm!sessionVars
    BY <1>2 DEF Alarm!PlayedInSession, SessionTypes, Alarm!sessionVars
  <2>2. ToneTypes' /\ alarm_playing' = alarm_playing
    BY <1>2 DEF Alarm!PlayedInSession, ToneTypes, Alarm!toneVars
  <2>3. BufferTypes' /\ written' = written /\ pending' = pending
    BY <1>0, <1>2 DEF Alarm!PlayedInSession, BufferTypes, Alarm!bufferVars
  <2> QED
    BY <2>1, <2>2, <2>3
<1>3. CASE Alarm!EndOfTurn
  <2>1. SessionTypes' /\ sampler' = "wait" /\ UNCHANGED Alarm!sessionVars
    BY <1>3 DEF Alarm!EndOfTurn, SessionTypes, Alarm!sessionVars
  <2>2. ToneTypes' /\ alarm_playing' = alarm_playing
    BY <1>3 DEF Alarm!EndOfTurn, ToneTypes, Alarm!toneVars
  <2>3. uncleared' \in BOOLEAN
    BY <1>3 DEF Alarm!EndOfTurn
  <2>4. BufferTypes' /\ written' = written /\ pending' = pending
    BY <1>3, <2>3 DEF Alarm!EndOfTurn, BufferTypes, Alarm!bufferVars
  <2> QED
    BY <2>1, <2>2, <2>4
<1> QED
  BY <1>1, <1>2, <1>3

LEMMA ClockDoes ==
    ASSUME SessionTypes, ToneTypes, BufferTypes,
           Alarm!alarm_func_handle_audio_sample \/ UNCHANGED Alarm!vars
    PROVE  /\ SessionTypes' /\ ToneTypes' /\ BufferTypes'
           /\ UNCHANGED <<Alarm!sessionVars, alarm_playing, written, pending, sampler,
                          uncleared>>
<1>1. wakes' \in 0 .. MaxWakes
  BY ToneAssumption DEF Alarm!alarm_func_handle_audio_sample, SessionTypes, Alarm!vars
<1>2. UNCHANGED <<Alarm!sessionVars, calls, Alarm!toneVars, timer, Alarm!bufferVars,
                  Alarm!samplerVars, uncleared>>
  BY DEF Alarm!alarm_func_handle_audio_sample, Alarm!vars
<1>3. SessionTypes'
  BY <1>1, <1>2 DEF SessionTypes, Alarm!sessionVars, Alarm!samplerVars
<1>4. ToneTypes'
  BY <1>2 DEF ToneTypes, Alarm!toneVars
<1>5. BufferTypes'
  BY <1>2 DEF BufferTypes, Alarm!bufferVars, Alarm!samplerVars
<1> QED
  BY <1>2, <1>3, <1>4, <1>5 DEF Alarm!toneVars, Alarm!bufferVars, Alarm!samplerVars

LEMMA AlarmStep == Alarm!TypeOK /\ [Alarm!Next]_(Alarm!vars) => Alarm!TypeOK'
<1> SUFFICES ASSUME Alarm!TypeOK, [Alarm!Next]_(Alarm!vars)
             PROVE  Alarm!TypeOK'
  OBVIOUS
<1>0. SessionTypes /\ ToneTypes /\ BufferTypes
  BY ToneTypesAre
<1>1. CASE Alarm!OtherSteps
  BY <1>0, <1>1, OtherStep DEF Alarm!TypeOK, SessionTypes, ToneTypes, BufferTypes
<1>2. CASE Alarm!BcuMicSampleAndPlayEntry \/ Alarm!PlayedInSession \/ Alarm!EndOfTurn
  BY <1>0, <1>2, TurnDoes DEF Alarm!TypeOK, SessionTypes, ToneTypes, BufferTypes
<1>3. ASSUME NEW k \in Alarm!Kinds,
             Alarm!StopTone(k) \/ Alarm!PlayTone(k) \/ Alarm!Played(k)
      PROVE  Alarm!TypeOK'
  BY <1>0, <1>3, StopToneDoes, PlayToneDoes, PlayedDoes
     DEF Alarm!TypeOK, SessionTypes, ToneTypes, BufferTypes
<1>4. CASE Alarm!alarm_func_handle_audio_sample \/ UNCHANGED Alarm!vars
  BY <1>0, <1>4, ClockDoes DEF Alarm!TypeOK, SessionTypes, ToneTypes, BufferTypes
<1> QED
  BY <1>1, <1>2, <1>3, <1>4 DEF Alarm!Next, Alarm!SamplerSteps

LEMMA AlarmInit == Alarm!Init => Alarm!TypeOK
<1> SUFFICES ASSUME Alarm!Init
             PROVE  Alarm!TypeOK
  OBVIOUS
<1>1. SessionTypes
  <2>1. calls \in [Alarm!Kinds -> 0 .. MaxCalls] /\ wakes \in 0 .. MaxWakes
    BY ToneAssumption DEF Alarm!Init
  <2> QED
    BY <2>1 DEF Alarm!Init, SessionTypes
<1>2. ToneTypes
  <2>1. /\ open_snd_playback \in [Alarm!Kinds -> 0 .. 2]
        /\ alarm_playing \in [Alarm!Kinds -> {0, 1}]
        /\ playing_again \in [Alarm!Kinds -> {0, 1}]
    BY DEF Alarm!Init
  <2>2. timer \in BOOLEAN
    BY DEF Alarm!Init
  <2> QED
    BY <2>1, <2>2 DEF ToneTypes
<1>3. BufferTypes
  <2>1. 0 \in 0 .. AlarmSize /\ 0 \in 0 .. Chunk /\ TRUE \in BOOLEAN
    BY ToneAssumption
  <2> QED
    BY <2>1 DEF Alarm!Init, BufferTypes
<1> QED
  BY <1>1, <1>2, <1>3, ToneTypesAre

(* No buffer of the tones holds more than its size, whatever the number of  *)
(* calls and the sizes.                                                     *)
THEOREM AlarmTypes == Alarm!Spec => []Alarm!TypeOK
<1> QED
  BY AlarmInit, AlarmStep, PTL DEF Alarm!Spec

-----------------------------------------------------------------------------
(* What is left of a tone *)

Writes == {"pcu_write", "bcu_write"}

(* What may be put back when the sound card returns is of the same tone as  *)
(* what is pending already.                                                 *)
LeftInv ==
    /\ Alarm!LeftoverIsOfTone
    /\ sampler \in Writes /\ uncleared => written > Border

LEMMA LeftStep == Alarm!TypeOK /\ LeftInv /\ [Alarm!Next]_(Alarm!vars) => LeftInv'
<1> SUFFICES ASSUME Alarm!TypeOK, LeftInv, [Alarm!Next]_(Alarm!vars)
             PROVE  LeftInv'
  OBVIOUS
<1>0. SessionTypes /\ ToneTypes /\ BufferTypes
  BY ToneTypesAre
<1>1. written \in Nat /\ pending \in Nat /\ Border \in Nat
  BY <1>0, ToneAssumption DEF BufferTypes
<1> USE DEF LeftInv, Alarm!LeftoverIsOfTone, Writes
<1>2. ASSUME KeptOrCleaned, sampler' \in Writes => sampler' = sampler
      PROVE  LeftInv'
  BY <1>1, <1>2 DEF KeptOrCleaned, Cleaned, LeftoverCleared, Alarm!bufferVars
<1>3. CASE Alarm!OtherSteps
  BY <1>0, <1>2, <1>3, OtherStep DEF Alarm!samplerVars
<1>4. CASE Alarm!BcuMicSampleAndPlayEntry \/ Alarm!PlayedInSession \/ Alarm!EndOfTurn
  <2>1. /\ written' = written /\ pending' \in {0, pending}
        /\ sampler' \in {"wait", "session_write", "pcu"} \/ sampler' = sampler
        /\ uncleared' = uncleared \/ sampler' = "wait"
    BY <1>0, <1>4, TurnDoes
  <2> QED
    BY <1>1, <2>1
<1>5. ASSUME NEW k \in Alarm!Kinds, Alarm!StopTone(k)
      PROVE  LeftInv'
  BY <1>0, <1>2, <1>5, StopToneDoes, WhereTo
<1>6. ASSUME NEW k \in Alarm!Kinds, Alarm!PlayTone(k)
      PROVE  LeftInv'
  <2>1. BufferTypes' /\ written' >= written
    BY <1>0, <1>6, PlayToneDoes
  <2>2. written' \in Nat
    BY <2>1, ToneAssumption DEF BufferTypes
  <2>3. CASE pending' = 0 /\ (written' > Border \/ pending > 0)
    <3>1. pending > 0 => written > Border
      OBVIOUS
    <3>2. written' > Border
      BY <1>1, <2>1, <2>2, <2>3, <3>1
    <3> QED
      BY <2>3, <3>2
  <2>4. CASE /\ sampler' = Alarm!After(k) /\ pending' \in {0, pending}
             /\ uncleared' = uncleared
    BY <1>1, <2>1, <2>2, <2>4, WhereTo
  <2> QED
    BY <1>0, <1>6, <2>3, <2>4, PlayToneDoes
<1>7. ASSUME NEW k \in Alarm!Kinds, Alarm!Played(k)
      PROVE  LeftInv'
  <2>1. /\ sampler' = Alarm!After(k) /\ written' = written
        /\ pending' \in {0, pending} \/ (sampler = Alarm!Write(k) /\ uncleared)
    BY <1>0, <1>7, PlayedDoes
  <2>2. sampler' \notin Writes
    BY <2>1, WhereTo
  <2>3. CASE pending' \in {0, pending}
    BY <1>1, <2>1, <2>2, <2>3
  <2>4. CASE sampler = Alarm!Write(k) /\ uncleared
    BY <2>1, <2>2, <2>4, WhereTo
  <2> QED
    BY <2>1, <2>3, <2>4
<1>8. CASE Alarm!alarm_func_handle_audio_sample \/ UNCHANGED Alarm!vars
  BY <1>0, <1>8, ClockDoes
<1> QED
  BY <1>3, <1>4, <1>5, <1>6, <1>7, <1>8 DEF Alarm!Next, Alarm!SamplerSteps

(* What is pending belongs to the tone in the alarm buffer, for buffers of  *)
(* any size, wherever a clear falls into a write to the sound card.         *)
THEOREM LeftoverOfTone == Alarm!Spec => []Alarm!LeftoverIsOfTone
<1>1. Alarm!Init => LeftInv
  BY DEF Alarm!Init, LeftInv, Alarm!LeftoverIsOfTone, Writes
<1>2. LeftInv => Alarm!LeftoverIsOfTone
  BY DEF LeftInv
<1> QED
  BY <1>1, <1>2, AlarmInit, AlarmStep, LeftStep, PTL DEF Alarm!Spec

-----------------------------------------------------------------------------
(* Calls between drivers *)

(* In such a call nothing is pending, no write puts anything back, and the  *)
(* tone of drivers, which a turn begun before might still play, is off; a   *)
(* turn that begins with the tone of passengers begins in an idle seat.     *)
CallInv ==
    /\ intercom = "d2d" /\ entering = "none" =>
          /\ pending = 0 /\ alarm_playing["bcu"] = 0
          /\ sampler \in Writes => ~uncleared
    /\ sampler = "pcu" => intercom = "idle"

LEMMA CallOtherStep ==
    ASSUME Alarm!TypeOK, CallInv, Alarm!OtherSteps
    PROVE  CallInv'
<1>0. SessionTypes /\ ToneTypes /\ BufferTypes /\ "bcu" \in Alarm!Kinds /\ "pcu" \in Alarm!Kinds
  BY ToneTypesAre DEF Alarm!Kinds
<1>1. KeptOrCleaned /\ sampler' = sampler /\ ToneTypes'
  BY <1>0, OtherStep DEF Alarm!samplerVars
<1>2. (intercom' = intercom \/ sampler # "pcu")
  BY DEF Alarm!OtherSteps, Alarm!ProbeBigCommPackage, Alarm!IdleIntercomProcess,
         Alarm!Enter, Alarm!RefuseCall, Alarm!BeginSession,
         Alarm!EndSession, Alarm!LiveAnnEnter, Alarm!LiveAnnExit, Alarm!ResetSoundTimer,
             Alarm!Other, Alarm!SamplerRuns, Alarm!sessionVars
<1>3. sampler' = "pcu" => intercom' = "idle"
  BY <1>1, <1>2 DEF CallInv
<1>4. ASSUME intercom = "d2d", entering = "none", intercom' = "d2d", entering' = "none",
             alarm_playing'["bcu"] = 0
      PROVE  CallInv'
  BY <1>1, <1>3, <1>4 DEF CallInv, KeptOrCleaned, Cleaned, LeftoverCleared, Alarm!bufferVars
<1>5. ASSUME ~(intercom' = "d2d" /\ entering' = "none")
      PROVE  CallInv'
  BY <1>3, <1>5 DEF CallInv
<1>6. CASE Alarm!Enter
  <2>1. intercom' = intercom /\ entering' = "none"
    BY <1>6 DEF Alarm!Enter
  <2>2. CASE intercom = "d2d"
    <3>1. Alarm!Reset("bcu", TRUE)
      BY <1>6, <2>2 DEF Alarm!Enter, Alarm!EnterCall, Alarm!EnterMonitor,
                        Alarm!IdleIntercomEnter
    <3>2. pending' = 0 /\ uncleared' = FALSE /\ alarm_playing'["bcu"] = 0
      BY <1>0, <3>1, ResetType
    <3> QED
      BY <1>3, <3>2 DEF CallInv
  <2>3. CASE intercom # "d2d"
    BY <1>5, <2>1, <2>3
  <2> QED
    BY <2>2, <2>3
<1>7. ASSUME NEW thread \in {"control", "touch"},
             Alarm!BeginSession(thread) \/ Alarm!EndSession(thread)
      PROVE  CallInv'
  BY <1>5, <1>7 DEF Alarm!BeginSession, Alarm!EndSession
<1>8. ASSUME UNCHANGED <<intercom, entering>>,
             intercom = "d2d" => alarm_playing' = alarm_playing
      PROVE  CallInv'
  BY <1>4, <1>5, <1>8 DEF CallInv
<1>9. CASE Alarm!ProbeBigCommPackage \/ Alarm!IdleIntercomProcess \/ Alarm!RefuseCall
           \/ Alarm!LiveAnnEnter
           \/ Alarm!ResetSoundTimer
  BY <1>8, <1>9 DEF Alarm!ProbeBigCommPackage, Alarm!IdleIntercomProcess,
                    Alarm!RefuseCall, Alarm!LiveAnnEnter,
                    Alarm!ResetSoundTimer, Alarm!sessionVars, Alarm!toneVars
<1>10. CASE Alarm!LiveAnnExit
  <2>1. UNCHANGED <<intercom, entering>>
        /\ Alarm!StartTones(Alarm!Audible({k \in Alarm!Kinds : intercom = "idle"}), FALSE)
    BY <1>10 DEF Alarm!LiveAnnExit
  <2>2. CASE intercom = "d2d"
    <3>1. Alarm!Audible({k \in Alarm!Kinds : intercom = "idle"}) = {}
      BY <2>2 DEF Alarm!Audible
    <3>2. alarm_playing' = [k \in Alarm!Kinds |-> alarm_playing[k]]
      BY <2>1, <3>1 DEF Alarm!StartTones
    <3>3. alarm_playing' = alarm_playing
      BY <1>0, <3>2 DEF ToneTypes
    <3> QED
      BY <1>8, <2>1, <3>3
  <2>3. CASE intercom # "d2d"
    BY <1>8, <2>1, <2>3
  <2> QED
    BY <2>2, <2>3
<1> QED
  BY <1>6, <1>7, <1>9, <1>10 DEF Alarm!OtherSteps

LEMMA CallStep == Alarm!TypeOK /\ CallInv /\ [Alarm!Next]_(Alarm!vars) => CallInv'
<1> SUFFICES ASSUME Alarm!TypeOK, CallInv, [Alarm!Next]_(Alarm!vars)
             PROVE  CallInv'
  OBVIOUS
<1>0. SessionTypes /\ ToneTypes /\ BufferTypes /\ "bcu" \in Alarm!Kinds /\ "pcu" \in Alarm!Kinds
  BY ToneTypesAre DEF Alarm!Kinds
<1> USE DEF CallInv, Writes
<1>1. CASE Alarm!OtherSteps
  BY <1>1, CallOtherStep
<1>2. CASE Alarm!BcuMicSampleAndPlayEntry \/ Alarm!PlayedInSession \/ Alarm!EndOfTurn
  <2>1. /\ pending' \in {0, pending} /\ UNCHANGED <<Alarm!sessionVars, alarm_playing>>
        /\ sampler' \in {"wait", "session_write", "pcu"} \/ sampler' = sampler
        /\ sampler' = "pcu" => sampler = "pcu" \/ intercom = "idle"
        /\ uncleared' = uncleared \/ sampler' = "wait"
    BY <1>0, <1>2, TurnDoes
  <2> QED
    BY <2>1 DEF Alarm!sessionVars
<1>3. ASSUME NEW k \in Alarm!Kinds, Alarm!StopTone(k)
      PROVE  CallInv'
  <2>1. /\ UNCHANGED Alarm!sessionVars /\ sampler' = Alarm!After(k) /\ KeptOrCleaned
        /\ ToneTypes' /\ \A j \in Alarm!Kinds : alarm_playing'[j] = 1 => alarm_playing[j] = 1
    BY <1>0, <1>3, StopToneDoes DEF Alarm!StopTone
  <2>2. alarm_playing["bcu"] = 0 => alarm_playing'["bcu"] = 0
    BY <1>0, <2>1 DEF ToneTypes
  <2>3. pending = 0 => pending' = 0
    BY <2>1 DEF KeptOrCleaned, Cleaned, LeftoverCleared, Alarm!bufferVars
  <2> QED
    BY <2>1, <2>2, <2>3, WhereTo DEF Alarm!sessionVars
<1>4. ASSUME NEW k \in Alarm!Kinds, Alarm!PlayTone(k)
      PROVE  CallInv'
  <2>1. UNCHANGED Alarm!sessionVars /\ sampler = k
    BY <1>4 DEF Alarm!PlayTone
  <2>2. /\ alarm_playing' = alarm_playing
        /\ \/ sampler' \in {Alarm!Write(k), Alarm!Again(k)} /\ alarm_playing[k] = 1
           \/ sampler' = Alarm!After(k) /\ pending' \in {0, pending}
    BY <1>0, <1>4, PlayToneDoes
  <2>3. CASE intercom = "d2d" /\ entering = "none"
    <3>1. k = "bcu" /\ alarm_playing[k] = 0
      BY <2>1, <2>3 DEF Alarm!Kinds
    <3>2. sampler' = Alarm!After(k) /\ pending' \in {0, pending}
      BY <2>2, <3>1
    <3> QED
      BY <2>1, <2>2, <2>3, <3>1, <3>2, WhereTo DEF Alarm!sessionVars
  <2>4. CASE ~(intercom = "d2d" /\ entering = "none")
    BY <2>1, <2>2, <2>4, WhereTo DEF Alarm!sessionVars
  <2> QED
    BY <2>3, <2>4
<1>5. ASSUME NEW k \in Alarm!Kinds, Alarm!Played(k)
      PROVE  CallInv'
  <2>1. UNCHANGED Alarm!sessionVars
    BY <1>5 DEF Alarm!Played
  <2>2. /\ sampler' = Alarm!After(k) /\ alarm_playing' = alarm_playing
        /\ pending' \in {0, pending} \/ (sampler = Alarm!Write(k) /\ uncleared)
    BY <1>0, <1>5, PlayedDoes
  <2> QED
    BY <2>1, <2>2, WhereTo DEF Alarm!sessionVars
<1>6. CASE Alarm!alarm_func_handle_audio_sample \/ UNCHANGED Alarm!vars
  BY <1>0, <1>6, ClockDoes DEF Alarm!sessionVars
<1> QED
  BY <1>1, <1>2, <1>3, <1>4, <1>5, <1>6 DEF Alarm!Next, Alarm!SamplerSteps

(* A call between drivers never begins with the rest of a tone, for buffers *)
(* of any size, although a write of the tone may end in the middle of it.   *)
THEOREM CallWithoutTone == Alarm!Spec => []Alarm!DriverCallHearsNoTone
<1>1. Alarm!Init => CallInv
  BY DEF Alarm!Init, CallInv, Writes
<1>2. CallInv => Alarm!DriverCallHearsNoTone
  BY DEF CallInv, Alarm!DriverCallHearsNoTone
<1> QED
  BY <1>1, <1>2, AlarmInit, AlarmStep, CallStep, PTL DEF Alarm!Spec

-----------------------------------------------------------------------------
(* The start of the buffers *)

(* What InitBuffer creates: every buffer has a name of its own.             *)
New(i) == Begin!Creations[i]

LEMMA CreationsAre ==
    /\ DOMAIN Begin!Creations = 1 .. 21 /\ Len(Begin!Creations) = 21
    /\ Len(Begin!Deletes) = 12 /\ Begin!new = New(at)
BY DEF Begin!Creations, Begin!Deletes, Begin!new, New

LEMMA NewIs ==
    ASSUME NEW i \in 1 .. 21
    PROVE  /\ New(i).kind \in {"char", "block"} /\ New(i).undo \in 0 .. 12
           /\ New(i).fails \in {0, -1, -25, -30, -31} /\ New(i).name # "none"
           /\ New(i).name \in Begin!Names
<1>1. /\ New(i).kind \in {"char", "block"} /\ New(i).undo \in 0 .. 12
      /\ New(i).fails \in {0, -1, -25, -30, -31} /\ New(i).name # "none"
  BY DEF New, Begin!Creations, Begin!Creation
<1>2. New(i).name \in Begin!Names
  BY CreationsAre DEF New, Begin!Names
<1> QED
  BY <1>1, <1>2

LEMMA NamesDiffer ==
    ASSUME NEW i \in 1 .. 21, NEW j \in 1 .. 21, New(i).name = New(j).name
    PROVE  i = j
BY SMTT(60) DEF New, Begin!Creations, Begin!Creation

(* The parts of the buffers of one list: the nodes r and the static one h.  *)
ListOf(h, r) == ({h} \ {"none"}) \cup r
PartsOf(n, h) ==
    {<<n, "struct">>, <<n, "memory">>} \cup (IF h = n THEN {} ELSE {<<n, "node">>})
OwnOf(h, r) == UNION {PartsOf(n, h) : n \in ListOf(h, r)}

LEMMA OwnIs ==
    ASSUME NEW h, NEW r, NEW p
    PROVE  p \in OwnOf(h, r) <=> \E n \in ListOf(h, r) : p \in PartsOf(n, h)
BY DEF OwnOf

LEMMA OwnParts ==
    ASSUME NEW h, NEW r, NEW n \in ListOf(h, r)
    PROVE  PartsOf(n, h) \subseteq OwnOf(h, r)
BY OwnIs

LEMMA OwnStrange ==
    ASSUME NEW h, NEW r, NEW n, n \notin ListOf(h, r), NEW part
    PROVE  <<n, part>> \notin OwnOf(h, r)
BY OwnIs DEF PartsOf

(* A name comes into the static node or a node of its own, or leaves it.    *)
LEMMA OwnIntoHead ==
    ASSUME NEW r, NEW n, n \notin r, n # "none", "none" \notin r
    PROVE  OwnOf(n, r) = OwnOf("none", r) \cup {<<n, "struct">>, <<n, "memory">>}
<1>1. ASSUME NEW p
      PROVE  p \in OwnOf(n, r) <=>
               p \in OwnOf("none", r) \/ p \in {<<n, "struct">>, <<n, "memory">>}
  BY OwnIs DEF PartsOf, ListOf
<1> QED
  BY <1>1, Zenon

LEMMA OwnIntoNode ==
    ASSUME NEW h, NEW r, NEW n, n # h
    PROVE  OwnOf(h, r \cup {n}) = OwnOf(h, r) \cup PartsOf(n, h)
<1>1. ASSUME NEW p
      PROVE  p \in OwnOf(h, r \cup {n}) <=> p \in OwnOf(h, r) \/ p \in PartsOf(n, h)
  BY OwnIs DEF ListOf
<1> QED
  BY <1>1, Zenon

LEMMA OwnLeavesHead ==
    ASSUME NEW h, NEW r, h \notin r, h # "none", "none" \notin r
    PROVE  OwnOf("none", r) = OwnOf(h, r) \ PartsOf(h, h)
<1>1. ASSUME NEW p
      PROVE  p \in OwnOf("none", r) <=> p \in OwnOf(h, r) /\ p \notin PartsOf(h, h)
  BY OwnIs DEF PartsOf, ListOf
<1> QED
  BY <1>1, Zenon

LEMMA OwnLeavesNode ==
    ASSUME NEW h, NEW r, NEW n \in r, n # h
    PROVE  OwnOf(h, r \ {n}) = OwnOf(h, r) \ PartsOf(n, h)
<1>1. ASSUME NEW p
      PROVE  p \in OwnOf(h, r \ {n}) <=> p \in OwnOf(h, r) /\ p \notin PartsOf(n, h)
  BY OwnIs DEF PartsOf, ListOf
<1> QED
  BY <1>1, Zenon

(* What is allocated for the buffers of one list, and what InitBuffer holds *)
(* of the one it creates.                                                   *)
Own(k) == OwnOf(head[k], rest[k])
InHand ==
    IF pc \in {"memory", "free struct"} THEN {<<New(at).name, "struct">>}
    ELSE IF pc \in {"save", "free memory"}
         THEN {<<New(at).name, "struct">>, <<New(at).name, "memory">>} ELSE {}

LEMMA OwnHere ==
    ASSUME NEW k \in Begin!Kinds
    PROVE  /\ Begin!Listed(k) = ListOf(head[k], rest[k])
           /\ \A n : Begin!Parts(n, k) = PartsOf(n, head[k])
BY DEF Begin!Listed, ListOf, Begin!Parts, PartsOf

(* A list names buffers of its kind that have been created, each once.      *)
Past(j) == j < at \/ (j = at /\ pc \in {"created", "undo", "returned"})
NamedOnce ==
    \A k \in Begin!Kinds :
      /\ head[k] \notin rest[k]
      /\ \A n \in ListOf(head[k], rest[k]) :
           \E j \in 1 .. 21 : n = New(j).name /\ k = New(j).kind /\ Past(j)

(* Every part on the heap is of a listed buffer or in hand, never both, so  *)
(* that nothing is freed twice.                                             *)
AllOwned ==
    /\ freed = FALSE
    /\ \A p : p \in heap <=> (\E k \in Begin!Kinds : p \in Own(k)) \/ p \in InHand

StartInv == Begin!TypeOK /\ NamedOnce /\ AllOwned

LEMMA NewIsUnlisted ==
    ASSUME StartInv, pc \notin {"created", "undo", "returned"}
    PROVE  \A k \in Begin!Kinds : New(at).name \notin ListOf(head[k], rest[k])
<1>1. at \in 1 .. 21
  BY CreationsAre DEF StartInv, Begin!TypeOK
<1>2. ASSUME NEW k \in Begin!Kinds, New(at).name \in ListOf(head[k], rest[k])
      PROVE  FALSE
  <2>1. PICK j \in 1 .. 21 : New(at).name = New(j).name /\ Past(j)
    BY <1>2 DEF StartInv, NamedOnce
  <2>2. j = at
    BY <1>1, <2>1, NamesDiffer
  <2> QED
    BY <1>1, <2>1, <2>2 DEF Past
<1> QED
  BY <1>2

LEMMA ListsAreApart ==
    ASSUME StartInv, NEW k \in Begin!Kinds, NEW l \in Begin!Kinds,
           NEW n \in ListOf(head[k], rest[k]), n \in ListOf(head[l], rest[l])
    PROVE  k = l
<1>1. PICK i \in 1 .. 21 : n = New(i).name /\ k = New(i).kind
  BY DEF StartInv, NamedOnce
<1>2. PICK j \in 1 .. 21 : n = New(j).name /\ l = New(j).kind
  BY DEF StartInv, NamedOnce
<1> QED
  BY <1>1, <1>2, NamesDiffer

LEMMA StartTypes ==
    ASSUME StartInv
    PROVE  /\ at \in 1 .. 21 /\ New(at).name \in Begin!Names /\ New(at).name # "none"
           /\ Begin!Kinds = {"char", "block"} /\ New(at).kind \in Begin!Kinds
           /\ head \in [Begin!Kinds -> Begin!Names \cup {"none"}]
           /\ rest \in [Begin!Kinds -> SUBSET Begin!Names]
           /\ heap \subseteq Begin!Names \X {"struct", "memory", "node"}
           /\ "none" \notin Begin!Names
<1>1. at \in 1 .. 21
  BY CreationsAre DEF StartInv, Begin!TypeOK
<1>2. "none" \notin Begin!Names
  BY CreationsAre, NewIs DEF Begin!Names, New
<1> QED
  BY <1>1, <1>2, NewIs DEF StartInv, Begin!TypeOK, Begin!Kinds

(* A step that leaves the lists alone.                                      *)
LEMMA ListsKept ==
    ASSUME StartInv, UNCHANGED Begin!listVars, at' \in 1 .. 21,
           \A j \in 1 .. 21 : Past(j) => Past(j)'
    PROVE  NamedOnce' /\ \A k \in Begin!Kinds : Own(k)' = Own(k)
BY DEF StartInv, NamedOnce, Own, Begin!listVars

LEMMA MallocStep ==
    ASSUME StartInv, Begin!MallocStruct \/ Begin!MallocMemory
    PROVE  StartInv'
<1> DEFINE n == New(at).name
<1>0. n \in Begin!Names /\ at \in 1 .. 21
  BY StartTypes
<1>1. /\ UNCHANGED <<at, head, rest, undone, result, freed>>
      /\ \/ /\ pc = "create" /\ heap' = heap \cup {<<n, "struct">>} /\ pc' = "memory"
         \/ /\ pc = "create" /\ heap' = heap /\ pc' = "failed"
         \/ /\ pc = "memory" /\ heap' = heap \cup {<<n, "memory">>} /\ pc' = "save"
         \/ /\ pc = "memory" /\ heap' = heap /\ pc' = "free struct"
  BY CreationsAre DEF Begin!MallocStruct, Begin!MallocMemory, Begin!LocalPortMalloc,
                      Begin!listVars
<1>2. Begin!TypeOK'
  <2>1. heap' \subseteq Begin!Names \X {"struct", "memory", "node"}
    <3> DEFINE all == Begin!Names \X {"struct", "memory", "node"}
    <3>1. <<n, "struct">> \in all /\ <<n, "memory">> \in all /\ heap \subseteq all
      BY <1>0, StartTypes
    <3> HIDE DEF all, n
    <3>2. \/ heap' = heap \cup {<<n, "struct">>} \/ heap' = heap \cup {<<n, "memory">>}
          \/ heap' = heap
      BY <1>1
    <3> QED
      BY <3>1, <3>2 DEF all
  <2>2. pc' \in {"memory", "failed", "save", "free struct"}
    BY <1>1
  <2> QED
    BY <1>1, <2>1, <2>2 DEF StartInv, Begin!TypeOK
<1>3. NamedOnce' /\ \A k \in Begin!Kinds : Own(k)' = Own(k)
  BY <1>0, <1>1, ListsKept DEF Begin!listVars, Past
<1>4. AllOwned'
  BY <1>1, <1>3 DEF StartInv, AllOwned, InHand
<1> QED
  BY <1>2, <1>3, <1>4 DEF StartInv

LEMMA FreeStep ==
    ASSUME StartInv, Begin!FreeMemory \/ Begin!FreeStruct
    PROVE  StartInv'
<1> DEFINE n == New(at).name
<1>0. n \in Begin!Names /\ at \in 1 .. 21
  BY StartTypes
<1>1. /\ UNCHANGED <<at, head, rest, undone, result>>
      /\ \/ /\ pc = "free memory" /\ heap' = heap \ {<<n, "memory">>}
            /\ freed' = (freed \/ ~({<<n, "memory">>} \subseteq heap))
            /\ pc' = "free struct"
         \/ /\ pc = "free struct" /\ heap' = heap \ {<<n, "struct">>}
            /\ freed' = (freed \/ ~({<<n, "struct">>} \subseteq heap))
            /\ pc' = "failed"
  BY CreationsAre DEF Begin!FreeMemory, Begin!FreeStruct, Begin!Free, Begin!listVars
<1>2. freed' = FALSE
  BY <1>1 DEF StartInv, AllOwned, InHand
<1>3. Begin!TypeOK'
  BY <1>0, <1>1, <1>2 DEF StartInv, Begin!TypeOK
<1>4. NamedOnce' /\ \A k \in Begin!Kinds : Own(k)' = Own(k)
  BY <1>0, <1>1, ListsKept DEF Begin!listVars, Past
<1>5. \A k \in Begin!Kinds : <<n, "memory">> \notin Own(k) /\ <<n, "struct">> \notin Own(k)
  BY <1>1, NewIsUnlisted, OwnStrange DEF Own
<1>6. AllOwned'
  BY <1>1, <1>2, <1>4, <1>5 DEF StartInv, AllOwned, InHand
<1> QED
  BY <1>3, <1>4, <1>6 DEF StartInv

(* A step between two creations, or to the end.                             *)
LEMMA GoOnStep ==
    ASSUME StartInv, pc \in {"created", "failed", "undo"}, heap' = heap, freed' = freed,
           UNCHANGED Begin!listVars, at' \in 1 .. 21, undone' = undone,
           result' \in {1, 0, -1, -25, -30, -31},
           \/ at' = at + 1 /\ pc' = "create" /\ pc # "undo"
           \/ at' = at /\ pc' \in {"undo", "returned"}
    PROVE  StartInv'
<1>1. Begin!TypeOK'
  BY CreationsAre DEF StartInv, Begin!TypeOK, Begin!listVars
<1>2. at \in 1 .. 21
  BY StartTypes
<1>3. \A j \in 1 .. 21 : Past(j) => Past(j)'
  BY <1>2 DEF Past
<1>4. NamedOnce' /\ \A k \in Begin!Kinds : Own(k)' = Own(k)
  BY <1>3, ListsKept
<1>5. AllOwned'
  <2>1. pc' \in {"create", "undo", "returned"}
    OBVIOUS
  <2>2. \A p : ~(p \in InHand) /\ ~(p \in InHand')
    BY <2>1 DEF InHand
  <2>3. freed' = FALSE
    BY DEF StartInv, AllOwned
  <2>4. ASSUME NEW p
        PROVE  p \in heap' <=> (\E k \in Begin!Kinds : p \in Own(k)') \/ p \in InHand'
    <3>1. p \in heap <=> (\E k \in Begin!Kinds : p \in Own(k)) \/ p \in InHand
      BY DEF StartInv, AllOwned
    <3> QED
      BY <1>4, <2>2, <3>1, Zenon
  <2> QED
    BY <2>3, <2>4 DEF AllOwned
<1> QED
  BY <1>1, <1>4, <1>5 DEF StartInv

LEMMA ReturnStep ==
    ASSUME StartInv, Begin!Created \/ Begin!Failed \/ Begin!Return
    PROVE  StartInv'
<1>0. at \in 1 .. 21 /\ New(at).fails \in {0, -1, -25, -30, -31}
      /\ result \in {1, 0, -1, -25, -30, -31}
  BY StartTypes, NewIs DEF StartInv, Begin!TypeOK
<1>1. CASE Begin!Created
  BY <1>0, <1>1, CreationsAre, GoOnStep DEF Begin!Created, Begin!GoOn
<1>2. CASE Begin!Failed
  BY <1>0, <1>2, CreationsAre, GoOnStep DEF Begin!Failed, Begin!GoOn
<1>3. CASE Begin!Return
  BY <1>0, <1>3, CreationsAre, GoOnStep DEF Begin!Return
<1> QED
  BY <1>1, <1>2, <1>3

LEMMA SaveStep ==
    ASSUME StartInv, NEW k \in Begin!Kinds, Begin!PointerSave(k)
    PROVE  StartInv'
<1> DEFINE n == New(at).name
<1>0. /\ n \in Begin!Names /\ n # "none" /\ at \in 1 .. 21 /\ "none" \notin Begin!Names
      /\ head \in [Begin!Kinds -> Begin!Names \cup {"none"}]
      /\ rest \in [Begin!Kinds -> SUBSET Begin!Names]
  BY StartTypes
<1>1. pc = "save" /\ New(at).kind = k /\ UNCHANGED <<at, undone, result, freed>>
  BY CreationsAre DEF Begin!PointerSave
<1>2. n \notin ListOf(head[k], rest[k])
  BY <1>1, NewIsUnlisted
<1>3. n # head[k] /\ n \notin rest[k]
  BY <1>0, <1>2 DEF ListOf
<1>4. freed' = FALSE
  BY <1>1 DEF StartInv, AllOwned
<1>5. CASE Begin!SameName(k)
  BY <1>2, <1>5, OwnHere, CreationsAre DEF Begin!SameName
<1>6. ASSUME pc' = "created",
             \A l \in Begin!Kinds : l # k => head'[l] = head[l] /\ rest'[l] = rest[l],
             ListOf(head'[k], rest'[k]) = ListOf(head[k], rest[k]) \cup {n},
             head'[k] \notin rest'[k]
      PROVE  NamedOnce'
  <2>1. \A j \in 1 .. 21 : Past(j) => Past(j)'
    BY <1>1, <1>6 DEF Past
  <2>2. Past(at)'
    BY <1>1, <1>6 DEF Past
  <2>3. ASSUME NEW l \in Begin!Kinds
        PROVE  /\ head'[l] \notin rest'[l]
               /\ \A m \in ListOf(head'[l], rest'[l]) :
                    \E j \in 1 .. 21 : m = New(j).name /\ l = New(j).kind /\ Past(j)'
    <3>1. CASE l # k
      BY <1>6, <2>1, <3>1 DEF StartInv, NamedOnce
    <3>2. CASE l = k
      <4>1. ASSUME NEW m \in ListOf(head[l], rest[l])
            PROVE  \E j \in 1 .. 21 : m = New(j).name /\ l = New(j).kind /\ Past(j)'
        BY <2>1 DEF StartInv, NamedOnce
      <4>2. at \in 1 .. 21 /\ n = New(at).name /\ l = New(at).kind /\ Past(at)'
        BY <1>0, <1>1, <2>2, <3>2
      <4>3. at' = at
        BY <1>1
      <4> QED
        BY <1>6, <3>2, <4>1, <4>2, <4>3
    <3> QED
      BY <3>1, <3>2
  <2> QED
    BY <2>3 DEF NamedOnce
<1>7. CASE Begin!IntoHead(k)
  <2>1. /\ head[k] = "none" /\ head' = [head EXCEPT ![k] = n] /\ pc' = "created"
        /\ UNCHANGED <<heap, rest>>
    BY <1>7, CreationsAre DEF Begin!IntoHead
  <2>2. /\ head'[k] = n /\ rest'[k] = rest[k]
        /\ \A l \in Begin!Kinds : l # k => head'[l] = head[l] /\ rest'[l] = rest[l]
    BY <1>0, <2>1
  <2>3. ListOf(n, rest[k]) = ListOf(head[k], rest[k]) \cup {n}
    BY <1>0, <2>1 DEF ListOf
  <2>4. NamedOnce'
    BY <1>3, <1>6, <2>1, <2>2, <2>3
  <2>5. OwnOf(n, rest[k]) = OwnOf(head[k], rest[k]) \cup {<<n, "struct">>, <<n, "memory">>}
    BY <1>0, <1>3, <2>1, OwnIntoHead
  <2>6. /\ Own(k)' = Own(k) \cup {<<n, "struct">>, <<n, "memory">>}
        /\ \A l \in Begin!Kinds : l # k => Own(l)' = Own(l)
    BY <2>2, <2>5 DEF Own
  <2>7. \A p : p \in InHand <=> p \in {<<n, "struct">>, <<n, "memory">>}
    BY <1>1 DEF InHand
  <2>8. \A p : ~(p \in InHand')
    BY <2>1 DEF InHand
  <2>9. AllOwned'
    BY <1>4, <2>1, <2>6, <2>7, <2>8, Zenon DEF StartInv, AllOwned
  <2>10. Begin!TypeOK'
    BY <1>0, <1>1, <2>1 DEF StartInv, Begin!TypeOK
  <2> QED
    BY <2>4, <2>9, <2>10 DEF StartInv
<1>8. CASE Begin!IntoNode(k)
  <2>1. head[k] # "none" /\ UNCHANGED head
    BY <1>8 DEF Begin!IntoNode
  <2>2. CASE heap' = heap \cup {<<n, "node">>} /\ pc' = "created"
    <3>1. rest' = [rest EXCEPT ![k] = @ \cup {n}]
      BY <1>8, <2>2, CreationsAre DEF Begin!IntoNode
    <3>2. /\ head'[k] = head[k] /\ rest'[k] = rest[k] \cup {n}
          /\ \A l \in Begin!Kinds : l # k => head'[l] = head[l] /\ rest'[l] = rest[l]
      BY <1>0, <2>1, <3>1
    <3>3. ListOf(head[k], rest[k] \cup {n}) = ListOf(head[k], rest[k]) \cup {n}
      BY DEF ListOf
    <3>4. head[k] \notin rest[k] \cup {n}
      BY <1>3 DEF StartInv, NamedOnce
    <3>5. NamedOnce'
      BY <1>6, <2>2, <3>2, <3>3, <3>4
    <3>6. OwnOf(head[k], rest[k] \cup {n}) = OwnOf(head[k], rest[k]) \cup PartsOf(n,
        head[k])
      BY <1>3, OwnIntoNode
    <3>7. \A p : p \in PartsOf(n, head[k]) <=>
                   p \in {<<n, "struct">>, <<n, "memory">>, <<n, "node">>}
      BY <1>3 DEF PartsOf
    <3>8. /\ Own(k)' = Own(k) \cup PartsOf(n, head[k])
          /\ \A l \in Begin!Kinds : l # k => Own(l)' = Own(l)
      BY <3>2, <3>6 DEF Own
    <3>9. \A p : p \in InHand <=> p \in {<<n, "struct">>, <<n, "memory">>}
      BY <1>1 DEF InHand
    <3>10. \A p : ~(p \in InHand')
      BY <2>2 DEF InHand
    <3>11. AllOwned'
      BY <1>4, <2>2, <3>7, <3>8, <3>9, <3>10, Zenon DEF StartInv, AllOwned
    <3>12. Begin!TypeOK'
      BY <1>0, <1>1, <2>1, <2>2, <3>1 DEF StartInv, Begin!TypeOK
    <3> QED
      BY <3>5, <3>11, <3>12 DEF StartInv
  <2>3. CASE heap' = heap /\ pc' = "free memory"
    <3>1. rest' = rest
      BY <1>8, <2>3 DEF Begin!IntoNode
    <3>2. Begin!TypeOK'
      BY <1>1, <2>1, <2>3, <3>1 DEF StartInv, Begin!TypeOK
    <3>3. NamedOnce' /\ \A l \in Begin!Kinds : Own(l)' = Own(l)
      BY <1>0, <1>1, <2>1, <2>3, <3>1, ListsKept DEF Begin!listVars, Past
    <3>4. AllOwned'
      BY <1>1, <2>3, <3>3 DEF StartInv, AllOwned, InHand
    <3> QED
      BY <3>2, <3>3, <3>4 DEF StartInv
  <2> QED
    BY <1>8, <2>2, <2>3, CreationsAre DEF Begin!IntoNode, Begin!LocalPortMalloc
<1> QED
  BY <1>5, <1>7, <1>8 DEF Begin!PointerSave

(* A buffer that is deleted takes its own parts with it and no others.      *)
LEMMA UndoStep ==
    ASSUME StartInv, Begin!Undo
    PROVE  StartInv'
<1>0. /\ head \in [Begin!Kinds -> Begin!Names \cup {"none"}]
      /\ rest \in [Begin!Kinds -> SUBSET Begin!Names] /\ "none" \notin Begin!Names
      /\ heap \subseteq Begin!Names \X {"struct", "memory", "node"}
  BY StartTypes
<1>1. pc = "undo" /\ UNCHANGED <<at, pc, result>>
  BY DEF Begin!Undo
<1>2. undone' \in 0 .. 12
  <2>1. undone \in 0 .. 12 /\ New(at).undo \in 0 .. 12
    BY StartTypes, NewIs, CreationsAre DEF StartInv, Begin!TypeOK
  <2>2. undone < New(at).undo /\ undone' = undone + 1
    BY CreationsAre DEF Begin!Undo
  <2> QED
    BY <2>1, <2>2
<1>2a. PICK k \in Begin!Kinds : \E id : Begin!Delete(k, id)
  BY DEF Begin!Undo, Begin!DeleteKind, Begin!Kinds
<1>3. PICK id : Begin!Delete(k, id)
  BY <1>2a
<1>4. \A j \in 1 .. 21 : Past(j)' <=> Past(j)
  BY <1>1 DEF Past
<1>5. InHand = {} /\ InHand' = {}
  BY <1>1 DEF InHand
<1>6. CASE ~Begin!IsValid(k, id)
  <2>1. UNCHANGED <<head, rest, heap, freed>>
    BY <1>3, <1>6 DEF Begin!Delete, Begin!listVars
  <2>2. Begin!TypeOK'
    BY <1>1, <1>2, <2>1, CreationsAre DEF StartInv, Begin!TypeOK
  <2>3. NamedOnce'
    BY <1>4, <2>1 DEF StartInv, NamedOnce
  <2>4. AllOwned'
    BY <1>5, <2>1 DEF StartInv, AllOwned, Own
  <2> QED
    BY <2>2, <2>3, <2>4 DEF StartInv
<1>7. CASE Begin!IsValid(k, id)
  <2>1. id \in ListOf(head[k], rest[k])
    BY <1>7, OwnHere DEF Begin!IsValid
  <2>2. Begin!IdReset(k, id) /\ heap' = heap \ PartsOf(id, head[k])
        /\ freed' = (freed \/ ~(PartsOf(id, head[k]) \subseteq heap))
    BY <1>3, <1>7, OwnHere DEF Begin!Delete, Begin!Free
  <2>3. PartsOf(id, head[k]) \subseteq Own(k)
    BY <2>1, OwnParts DEF Own
  <2>4. freed' = FALSE
    BY <2>2, <2>3 DEF StartInv, AllOwned
  <2>5. ASSUME NEW l \in Begin!Kinds, l # k, NEW p \in PartsOf(id, head[k])
        PROVE  p \notin Own(l)
    <3>1. id \notin ListOf(head[l], rest[l])
      BY <2>1, <2>5, ListsAreApart
    <3> QED
      BY <3>1, OwnStrange DEF Own, PartsOf
  <2>6. head[k] \notin rest[k]
    BY DEF StartInv, NamedOnce
  <2>7. /\ Own(k)' = Own(k) \ PartsOf(id, head[k])
        /\ head' \in [Begin!Kinds -> Begin!Names \cup {"none"}]
        /\ rest' \in [Begin!Kinds -> SUBSET Begin!Names]
        /\ \A l \in Begin!Kinds : /\ l # k => head'[l] = head[l] /\ rest'[l] = rest[l]
                                  /\ head'[l] \in {head[l],
                                      "none"} /\ rest'[l] \subseteq rest[l]
    <3>1. CASE head[k] = id
      <4>1. head' = [head EXCEPT ![k] = "none"] /\ rest' = rest
        BY <2>2, <3>1 DEF Begin!IdReset
      <4>2. head'[k] = "none" /\ rest'[k] = rest[k] /\ "none" \notin rest[k] /\ id # "none"
        BY <1>0, <2>1, <3>1, <4>1 DEF ListOf
      <4>3. Own(k)' = Own(k) \ PartsOf(id, head[k])
        BY <2>6, <3>1, <4>2, OwnLeavesHead DEF Own
      <4> QED
        BY <1>0, <4>1, <4>3
    <3>2. CASE head[k] # id
      <4>1. rest' = [rest EXCEPT ![k] = @ \ {id}] /\ head' = head
        BY <2>2, <3>2 DEF Begin!IdReset
      <4>2. head'[k] = head[k] /\ rest'[k] = rest[k] \ {id} /\ id \in rest[k]
        BY <1>0, <2>1, <3>2, <4>1 DEF ListOf
      <4>3. Own(k)' = Own(k) \ PartsOf(id, head[k])
        BY <3>2, <4>2, OwnLeavesNode DEF Own
      <4> QED
        BY <1>0, <4>1, <4>3
    <3> QED
      BY <3>1, <3>2
  <2>8. Begin!TypeOK'
    BY <1>0, <1>1, <1>2, <2>2, <2>4, <2>7, CreationsAre DEF StartInv, Begin!TypeOK
  <2>9. NamedOnce'
    <3>1. ASSUME NEW l \in Begin!Kinds
          PROVE  /\ head'[l] \notin rest'[l]
                 /\ ListOf(head'[l], rest'[l]) \subseteq ListOf(head[l], rest[l])
      <4>1. head[l] \notin rest[l] /\ "none" \notin rest[l]
        BY <1>0 DEF StartInv, NamedOnce
      <4> QED
        BY <2>7, <4>1 DEF ListOf
    <3> QED
      BY <1>4, <3>1 DEF StartInv, NamedOnce
  <2>10. \A l \in Begin!Kinds : l # k => Own(l)' = Own(l)
    BY <2>7 DEF Own
  <2>11. AllOwned'
    <3>1. ASSUME NEW p
          PROVE  p \in heap' <=> \E l \in Begin!Kinds : p \in Own(l)'
      <4>1. p \in heap <=> \E l \in Begin!Kinds : p \in Own(l)
        BY <1>5 DEF StartInv, AllOwned
      <4> QED
        BY <2>2, <2>5, <2>7, <2>10, <4>1, Zenon
    <3> QED
      BY <1>5, <2>4, <3>1 DEF AllOwned
  <2> QED
    BY <2>8, <2>9, <2>11 DEF StartInv
<1> QED
  BY <1>6, <1>7

LEMMA StartStep == StartInv /\ [Begin!Next]_(Begin!vars) => StartInv'
<1> SUFFICES ASSUME StartInv, [Begin!Next]_(Begin!vars)
             PROVE  StartInv'
  OBVIOUS
<1>1. CASE UNCHANGED Begin!vars
  <2>1. UNCHANGED <<at, pc, heap, head, rest, undone, result, freed>>
    BY <1>1 DEF Begin!vars
  <2>2. Begin!TypeOK'
    BY <2>1 DEF StartInv, Begin!TypeOK
  <2>3. NamedOnce'
    BY <2>1 DEF StartInv, NamedOnce, Past
  <2>4. AllOwned'
    BY <2>1 DEF StartInv, AllOwned, Own, InHand
  <2> QED
    BY <2>2, <2>3, <2>4 DEF StartInv
<1>2. "char" \in Begin!Kinds /\ "block" \in Begin!Kinds
  BY DEF Begin!Kinds
<1>3. CASE Begin!CharBufferPointerSave \/ Begin!BlockBufferPointerSave
  BY <1>2, <1>3, SaveStep DEF Begin!CharBufferPointerSave, Begin!BlockBufferPointerSave
<1> QED
  BY <1>1, <1>3, MallocStep, FreeStep, ReturnStep, UndoStep DEF Begin!Next

LEMMA StartInit == Begin!Init => StartInv
<1> SUFFICES ASSUME Begin!Init
             PROVE  StartInv
  OBVIOUS
<1>1. Begin!TypeOK
  <2>1. /\ head \in [Begin!Kinds -> Begin!Names \cup {"none"}]
        /\ rest \in [Begin!Kinds -> SUBSET Begin!Names]
        /\ heap \subseteq Begin!Names \X {"struct", "memory", "node"}
    BY DEF Begin!Init
  <2>2. at \in DOMAIN Begin!Creations /\ undone \in 0 .. Len(Begin!Deletes)
    BY CreationsAre DEF Begin!Init
  <2>3. /\ pc \in {"create", "memory", "save", "created", "failed", "free memory",
                   "free struct", "undo", "returned"}
        /\ result \in {1, 0, -1, -25, -30, -31} /\ freed \in BOOLEAN
    BY DEF Begin!Init
  <2> QED
    BY <2>1, <2>2, <2>3 DEF Begin!TypeOK
<1>2. \A k \in Begin!Kinds : head[k] = "none" /\ rest[k] = {} /\ ListOf(head[k],
    rest[k]) = {}
  BY DEF Begin!Init, ListOf
<1>3. \A k \in Begin!Kinds : Own(k) = {}
  BY <1>2 DEF Own, OwnOf
<1>4. AllOwned
  BY <1>3 DEF Begin!Init, AllOwned, InHand
<1> QED
  BY <1>1, <1>2, <1>4 DEF StartInv, NamedOnce

(* Between two creations or deletes the lists of names tell what is         *)
(* allocated, and nothing is freed twice, whichever allocations fail and    *)
(* whatever the ids nothing was assigned to are left over from.             *)
THEOREM StartIsListed == Begin!Spec => []Begin!HeapIsListed
<1>1. ASSUME StartInv
      PROVE  Begin!HeapIsListed
  <2>1. ~freed
    BY <1>1, Zenon DEF StartInv, AllOwned
  <2>2. ASSUME pc \in {"create", "failed", "undo", "returned"}
        PROVE  heap = UNION {UNION {Begin!Parts(n, k) : n \in Begin!Listed(k)} :
                               k \in Begin!Kinds}
    <3>1. InHand = {}
      BY <2>2 DEF InHand
    <3>2. ASSUME NEW k \in Begin!Kinds
          PROVE  UNION {Begin!Parts(n, k) : n \in Begin!Listed(k)} = Own(k)
      BY OwnHere DEF Own, OwnOf
    <3>3. \A p : p \in heap <=> \E k \in Begin!Kinds : p \in Own(k)
      BY <1>1, <3>1 DEF StartInv, AllOwned
    <3> QED
      BY <3>2, <3>3
  <2> QED
    BY <2>1, <2>2 DEF Begin!HeapIsListed
<1> QED
  BY <1>1, StartInit, StartStep, PTL DEF Begin!Spec

-----------------------------------------------------------------------------
(* The run of the three parts *)

(* A step of the run is a step of each part, or leaves the part alone.      *)
LEMMA PartsGoOn ==
    [ToneNext]_<<subject, startVars, vars, alarmVars>> =>
      [Begin!Next]_(Begin!vars) /\ [Next]_vars /\ [Alarm!Next]_(Alarm!vars)
<1> SUFFICES ASSUME [ToneNext]_<<subject, startVars, vars, alarmVars>>
             PROVE  [Begin!Next]_(Begin!vars) /\ [Next]_vars /\ [Alarm!Next]_(Alarm!vars)
  OBVIOUS
<1>1. UNCHANGED startVars => UNCHANGED Begin!vars
  BY DEF startVars, Begin!vars
<1>2. UNCHANGED alarmVars => UNCHANGED Alarm!vars
  BY DEF alarmVars, Alarm!vars, Alarm!sessionVars, Alarm!toneVars, Alarm!bufferVars,
         Alarm!samplerVars
<1> QED
  BY <1>1, <1>2, Zenon DEF ToneNext

LEMMA RunIsParts == ToneSpec => Begin!Spec /\ Spec /\ Alarm!Spec
<1>1. ToneInit => Begin!Init /\ Init /\ Alarm!Init
  BY DEF ToneInit
<1> QED
  BY <1>1, PartsGoOn, PTL DEF ToneSpec, Begin!Spec, Spec, Alarm!Spec

(* The lists, the ring and the tones keep their types: no pointer and no    *)
(* count passes its limit, for buffers of any size (ToneTypeOK).            *)
THEOREM ToneTypeCorrect == WrapIsNotSeen /\ ToneSpec => []ToneTypeOK
<1>1. StartInv /\ TypeOK /\ Alarm!TypeOK => ToneTypeOK
  BY DEF StartInv, ToneTypeOK
<1> QED
  BY <1>1, StartInit, StartStep, RunIsParts, TypeCorrect, AlarmTypes, PTL DEF Begin!Spec

(* The start, checked with the other parts, keeps its lists (HeapIsListed). *)
THEOREM StartLeavesNothing == ToneSpec => []HeapIsListed
BY RunIsParts, StartIsListed, PTL DEF HeapIsListed

(* And a call between drivers never begins with the rest of a tone, for     *)
(* buffers of any size (DriverCallHearsNoTone).                             *)
THEOREM CallHearsNoTone == ToneSpec => []DriverCallHearsNoTone
BY RunIsParts, CallWithoutTone, PTL DEF DriverCallHearsNoTone

(* The ring is the tape of its users there too.                             *)
THEOREM RunKeepsTape == WrapIsNotSeen /\ ToneSpec => IsTape /\ []PointersAgree
BY RunIsParts, ImplementsTape, PointersHold, PTL
==============================================================================
