------------------------------ MODULE Registry ------------------------------
(***************************************************************************)
(* The start of the buffers: InitBuffer creates them one after the other,   *)
(* each of up to three allocations (its struct, its memory and a node of    *)
(* the list of names), and any of them may fail.  What it does then differs *)
(* from buffer to buffer: it goes on, it deletes what it has so far, or it  *)
(* just returns.  cyg_user_start ends the program only when it returns -1;  *)
(* otherwise the threads open the buffers by name.                          *)
(*                                                                          *)
(* There is one list of names for char buffers and one for block buffers;   *)
(* the first node of each is static.  InitBuffer runs before the threads.   *)
(***************************************************************************)
EXTENDS Integers, Sequences

Kinds == {"char", "block"}

\* A buffer, what InitBuffer returns without it (0: it goes on), and how many
\* of the deletes below it makes before.
Creation(name, kind, fails, undo) ==
  [name |-> name, kind |-> kind, fails |-> fails, undo |-> undo]

Creations ==
  <<Creation("ts-info", "block", -1, 0), Creation("audio-tx", "char", -1, 0),
    Creation("pending", "char", 0, 0), Creation("audio-rx", "char", 0, 0),
    Creation("local-rx", "char", -1, 1), Creation("cmd-rx", "block", -1, 2),
    Creation("cmd-tx", "block", -1, 3), Creation("screen-cmd", "block", -1, 4),
    Creation("alarm", "char", -1, 8), Creation("ptt-rx", "block", -1, 10),
    Creation("common-send", "block", -1, 11), Creation("dev_vol", "block", 0, 0),
    Creation("common-recv", "block", -1, 12), Creation("heart-recv", "block", -1, 0),
    Creation("heart-send", "block", -1, 0), Creation("all-dev-state", "block", -1, 0),
    Creation("version-check", "block", -25, 0), Creation("shell-recv", "block", -30, 0),
    Creation("shell-send", "block", -31, 0), Creation("server-send", "block", 0, 0),
    Creation("server-recv", "block", 0, 0)>>

Names == {Creations[i].name : i \in DOMAIN Creations}

\* The deletes in their order.  Of four ids nothing has been assigned; these
\* are any value, and all of them go to BlockBufferDelete.
Deletes == <<"audio-tx", "local-rx", "cmd-rx", "cmd-tx", "screen-cmd", "unset",
             "unset", "unset", "alarm", "unset", "ptt-rx", "common-send">>
DeleteKind(id) == IF id \in {"audio-tx", "local-rx", "alarm"} THEN "char" ELSE "block"

VARIABLES at,         \* the buffer InitBuffer is about to create, or creates
          pc,         \* where it is
          heap,       \* what is allocated
          head, rest, \* the lists: the static node ("none": not used), others
          undone,     \* deletes made
          result,     \* what InitBuffer has returned
          freed       \* history: has anything been freed twice?

vars == <<at, pc, heap, head, rest, undone, result, freed>>
listVars == <<head, rest>>

Init ==
  /\ at = 1 /\ pc = "create" /\ heap = {}
  /\ head = [k \in Kinds |-> "none"] /\ rest = [k \in Kinds |-> {}]
  /\ undone = 0 /\ result = 1 /\ freed = FALSE

new == Creations[at]

Listed(k) == ({head[k]} \ {"none"}) \cup rest[k]

Free(a) == heap' = heap \ a /\ freed' = (freed \/ ~(a \subseteq heap))

(***************************************************************************)
(* CharBufferCreate and BlockBufferCreate                                   *)
(***************************************************************************)
LocalPortMalloc(part, with, without) ==
  \/ heap' = heap \cup {<<new.name, part>>} /\ pc' = with
  \/ UNCHANGED heap /\ pc' = without

MallocStruct ==
  /\ pc = "create" /\ LocalPortMalloc("struct", "memory", "failed")
  /\ UNCHANGED <<at, listVars, undone, result, freed>>

MallocMemory ==
  /\ pc = "memory" /\ LocalPortMalloc("memory", "save", "free struct")
  /\ UNCHANGED <<at, listVars, undone, result, freed>>

\* A name that is there already, a place in the static node, a node of its own.
SameName(k) ==
  /\ new.name \in Listed(k)
  /\ pc' = "free memory" /\ UNCHANGED <<heap, listVars>>
IntoHead(k) ==
  /\ new.name \notin Listed(k) /\ head[k] = "none"
  /\ head' = [head EXCEPT ![k] = new.name]
  /\ pc' = "created" /\ UNCHANGED <<heap, rest>>
IntoNode(k) ==
  /\ new.name \notin Listed(k) /\ head[k] # "none" /\ UNCHANGED head
  /\ LocalPortMalloc("node", "created", "free memory")
  /\ rest' = IF pc' = "created" THEN [rest EXCEPT ![k] = @ \cup {new.name}] ELSE rest

PointerSave(k) ==
  /\ pc = "save" /\ new.kind = k
  /\ SameName(k) \/ IntoHead(k) \/ IntoNode(k)
  /\ UNCHANGED <<at, undone, result, freed>>
CharBufferPointerSave == PointerSave("char")
BlockBufferPointerSave == PointerSave("block")

FreeMemory ==
  /\ pc = "free memory" /\ Free({<<new.name, "memory">>}) /\ pc' = "free struct"
  /\ UNCHANGED <<at, listVars, undone, result>>

FreeStruct ==
  /\ pc = "free struct" /\ Free({<<new.name, "struct">>}) /\ pc' = "failed"
  /\ UNCHANGED <<at, listVars, undone, result>>

(***************************************************************************)
(* InitBuffer                                                               *)
(***************************************************************************)
GoOn ==
  IF at < Len(Creations) THEN at' = at + 1 /\ pc' = "create" /\ UNCHANGED result
  ELSE result' = 0 /\ pc' = "returned" /\ UNCHANGED at

Created ==
  /\ pc = "created" /\ GoOn
  /\ UNCHANGED <<heap, listVars, undone, freed>>

Stops == new.fails # 0

Failed ==
  /\ pc = "failed"
  /\ IF Stops
     THEN pc' = "undo" /\ UNCHANGED <<at, result>>
     ELSE GoOn
  /\ UNCHANGED <<heap, listVars, undone, freed>>

\* CharBufferIsValid and BlockBufferIsValid
IsValid(k, id) == id \in Listed(k)

\* CharBufferIdReset and BlockBufferIdReset: the static node stays.
IdReset(k, id) ==
  IF head[k] = id THEN head' = [head EXCEPT ![k] = "none"] /\ UNCHANGED rest
  ELSE rest' = [rest EXCEPT ![k] = @ \ {id}] /\ UNCHANGED head

Parts(id, k) == {<<id, "struct">>, <<id, "memory">>}
                \cup (IF head[k] = id THEN {} ELSE {<<id, "node">>})

\* mutant: the id is not looked for in the list
DeleteUnseen(k, id) == IdReset(k, id) /\ Free(Parts(id, k))

Delete(k, id) ==
  IF IsValid(k, id) THEN IdReset(k, id) /\ Free(Parts(id, k))
  ELSE UNCHANGED <<listVars, heap, freed>>

\* An id nothing was assigned to may be left over from any buffer.
Undo ==
  /\ pc = "undo" /\ undone < new.undo /\ undone' = undone + 1
  /\ LET next == Deletes[undone + 1] IN
     \E id \in IF next = "unset" THEN Names \cup {"none"} ELSE {next} :
       Delete(DeleteKind(next), id)
  /\ UNCHANGED <<at, pc, result>>

Return ==
  /\ pc = "undo" /\ undone = new.undo /\ pc' = "returned" /\ result' = new.fails
  /\ UNCHANGED <<at, heap, listVars, undone, freed>>

Next ==
  \/ MallocStruct \/ MallocMemory \/ CharBufferPointerSave \/ BlockBufferPointerSave
  \/ FreeMemory \/ FreeStruct
  \/ Created \/ Failed \/ Undo \/ Return

Spec == Init /\ [][Next]_vars

(***************************************************************************)
(* Properties                                                               *)
(***************************************************************************)
TypeOK ==
  /\ at \in DOMAIN Creations
  /\ pc \in {"create", "memory", "save", "created", "failed", "free memory",
             "free struct", "undo", "returned"}
  /\ heap \subseteq Names \X {"struct", "memory", "node"}
  /\ head \in [Kinds -> Names \cup {"none"}] /\ rest \in [Kinds -> SUBSET Names]
  /\ undone \in 0 .. Len(Deletes)
  /\ result \in {1, 0, -1, -25, -30, -31} /\ freed \in BOOLEAN

\* Between two creations or deletes the lists tell what is allocated:
\* nothing listed is freed, nothing is allocated and lost, and nothing is
\* freed twice, whichever allocation fails and whatever the unset ids hold.
HeapIsListed ==
  /\ ~freed
  /\ pc \in {"create", "failed", "undo", "returned"} =>
       heap = UNION {UNION {Parts(n, k) : n \in Listed(k)} : k \in Kinds}
=============================================================================
