------------------------------- MODULE MCTone -------------------------------
(***************************************************************************)
(* The char buffers for TLC: their creation and that of the block buffers   *)
(* (Registry), a ring of bytes (CharBuffer), and a user that takes a call   *)
(* of a buffer as one step, as CharBuffer shows it may (AlarmTone).  None   *)
(* needs another to go on, so a behaviour is about one of them.             *)
(***************************************************************************)
EXTENDS CharBuffer

CONSTANTS Sessions, MaxCalls, MaxWakes, Tone, Chunk, Border, AlarmSize

\* The sessions are those of the state machine; bounds and sizes are numbers.
ASSUME ToneAssumption ==
  /\ Sessions \subseteq {"d2p", "d2d", "monitor"}
  /\ MaxCalls \in Nat /\ MaxWakes \in Nat
  /\ Tone \in Nat /\ Chunk \in Nat /\ Border \in Nat /\ AlarmSize \in Nat

VARIABLES at, pc, heap, head, rest, undone, result, freed,
          intercom, ann, entering, calls, begin_to_broadcast_audio_data,
          open_snd_playback, alarm_playing, playing_again, timer, wakes,
          written, read, pending, sampler, flight, uncleared,
          subject     \* what the behaviour is about

Begin == INSTANCE Registry
Alarm == INSTANCE AlarmTone WITH Size <- AlarmSize

startVars == <<at, pc, heap, head, rest, undone, result, freed>>
alarmVars == <<intercom, ann, entering, calls, begin_to_broadcast_audio_data,
               open_snd_playback, alarm_playing, playing_again, timer, wakes,
               written, read, pending, sampler, flight, uncleared>>

ToneInit ==
  /\ subject \in {"start", "ring", "tone"}
  /\ Begin!Init /\ Init /\ Alarm!Init
  /\ subject # "ring" =>
       clear_count = 0 /\ memory = [i \in DOMAIN memory |-> CHOOSE b \in Bytes : TRUE]

ToneNext ==
  /\ UNCHANGED subject
  /\ \/ subject = "start" /\ Begin!Next /\ UNCHANGED <<vars, alarmVars>>
     \/ subject = "ring" /\ Next /\ UNCHANGED <<startVars, alarmVars>>
     \/ subject = "tone" /\ Alarm!Next /\ UNCHANGED <<startVars, vars>>

ToneSpec ==
  /\ ToneInit /\ [][ToneNext]_<<subject, startVars, vars, alarmVars>>
  /\ subject = "tone" => Alarm!Fairness

\* The buffers, the lists of their names, and the state of the tones keep
\* their types: no pointer and no count passes its limit.  What a behaviour is
\* not about does not change in it.
ToneTypeOK ==
  /\ subject = "start" => Begin!TypeOK
  /\ subject = "ring" => TypeOK
  /\ subject = "tone" => Alarm!TypeOK

\* InitBuffer: between two creations or deletes the lists of names tell what
\* is allocated; nothing is freed twice (Registry).
HeapIsListed == Begin!HeapIsListed

\* A call between drivers never begins with the rest of a tone (AlarmTone).
DriverCallHearsNoTone == Alarm!DriverCallHearsNoTone

\* A tone ends with its last call (AlarmTone).
ToneStops == Alarm!ToneStops
=============================================================================
