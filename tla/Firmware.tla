------------------------------ MODULE Firmware ------------------------------
(***************************************************************************)
(* The update of the firmware.  The control thread obeys shell commands:    *)
(* MOUNT the flash, UPDATE starts the TFTP server, VERIFY takes what was    *)
(* uploaded into place, checks it, and goes back if it is not what the      *)
(* command says.  The TFTP server writes in a thread of its own, and the    *)
(* power may go at any time.                                                *)
(*                                                                          *)
(* An image is told apart by what matters to a check: it works (the one     *)
(* before, or a new one with the CRC of the command), it does not, or it is *)
(* still being written.                                                     *)
(***************************************************************************)
EXTENDS Naturals

Names == {"eamp", "eamp_old", "eamp_new"}
Works == {"before", "good"}
Images == Works \cup {"bad", "partial", "none"}

VARIABLES file,         \* the image of each name
          mounted,
          serving,      \* does a TFTP server run?
          tftp_created, \* what DFUProc knows of it
          writer,       \* the name of the file the server has open
          step,         \* of a command
          dev_status,   \* of the command, then of the answer
          unchecked, cut    \* histories: has a VERIFY come with SUCCESS in it?
                            \* has the power gone in the middle of one?

vars == <<file, mounted, serving, tftp_created, writer, step, dev_status,
          unchecked, cut>>

Init ==
  /\ file = [n \in Names |-> IF n = "eamp" THEN "before" ELSE "none"]
  /\ mounted \in BOOLEAN /\ serving = FALSE /\ tftp_created = FALSE
  /\ writer = "none" /\ step = "wait" /\ dev_status = "SUCCESS"
  /\ unchecked = FALSE /\ cut = FALSE

(***************************************************************************)
(* TFTP server                                                              *)
(***************************************************************************)
\* The file is created, or emptied.
tftp_server_open ==
  /\ serving /\ mounted /\ writer = "none"
  /\ writer' = "eamp_new" /\ file' = [file EXCEPT !["eamp_new"] = "partial"]
  /\ UNCHANGED <<mounted, serving, tftp_created, step, dev_status, unchecked, cut>>

\* The last block is written and the file closed, or the client gives up.
tftp_server_close ==
  /\ writer # "none" /\ writer' = "none"
  /\ \E image \in {"good", "bad", "partial"} :
       file' = IF writer \in Names THEN [file EXCEPT ![writer] = image] ELSE file
  /\ UNCHANGED <<mounted, serving, tftp_created, step, dev_status, unchecked, cut>>

(***************************************************************************)
(* DFUProc                                                                  *)
(***************************************************************************)
Command == step = "wait" /\ dev_status' \in {"FAIL", "SUCCESS"}

MountYaffs0 ==
  /\ Command /\ step' = "answer"
  /\ mounted' = (dev_status' = "SUCCESS")
  /\ UNCHANGED <<file, serving, tftp_created, writer, unchecked, cut>>

\* On the second start after a failed VERIFY a server is there; it may start.
tftp_server_start(started) == serving' = (serving \/ started)

TftpServerAPI == tftp_server_start(dev_status' = "SUCCESS")

\* A server that is known is not started again; the answer is then what the
\* command said.
Update ==
  /\ Command /\ step' = "answer"
  /\ IF tftp_created THEN UNCHANGED <<serving, tftp_created>>
     ELSE /\ TftpServerAPI
          /\ tftp_created' = (dev_status' = "SUCCESS")
  /\ UNCHANGED <<file, mounted, writer, unchecked, cut>>

\* rename moves a file and what it finds under the new name is gone.
Rename(from, to) ==
  IF mounted /\ file[from] # "none"
  THEN /\ file' = [file EXCEPT ![to] = file[from], ![from] = "none"]
       /\ writer' = CASE writer = from -> to [] writer = to -> "unlinked"
                      [] OTHER -> writer
  ELSE UNCHANGED <<file, writer>>

KeepOld ==
  /\ Command /\ step' = "take new"
  /\ Rename("eamp", "eamp_old")
  /\ unchecked' = (unchecked \/ dev_status' = "SUCCESS")
  /\ UNCHANGED <<mounted, serving, tftp_created, cut>>

TakeNew ==
  /\ step = "take new" /\ Rename("eamp_new", "eamp")
  /\ step' = IF dev_status = "SUCCESS" THEN "answer" ELSE "verify"
  /\ UNCHANGED <<mounted, serving, tftp_created, dev_status, unchecked, cut>>

\* The CRC is that of the command.  A file shorter than 300 KiB is never read
\* to its end, because the rest to be read is unsigned; it counts as bad.
CrcAgrees == file["eamp"] = "good"

\* Without a file fclose gets NULL: it may return or not.
VerifyFile ==
  /\ step = "verify"
  /\ \/ CrcAgrees /\ mounted /\ step' = "answer" /\ dev_status' = "SUCCESS"
     \/ step' = "go back" /\ dev_status' = "FAIL"
     \/ (file["eamp"] = "none" \/ ~mounted) /\ step' = "stuck" /\ UNCHANGED dev_status
  /\ UNCHANGED <<file, mounted, serving, tftp_created, writer, unchecked, cut>>

\* mutant: a bad image stays in place
StaysNew == UNCHANGED <<file, writer>>

Restored == Rename("eamp_old", "eamp")

GoBack ==
  /\ step = "go back" /\ Restored
  /\ tftp_created' = FALSE /\ step' = "answer"
  /\ UNCHANGED <<mounted, serving, dev_status, unchecked, cut>>

\* After two attempts to write it the answer is lost; nothing waits for it.
Answer ==
  /\ step = "answer" /\ step' = "wait"
  /\ UNCHANGED <<file, mounted, serving, tftp_created, writer, dev_status,
                 unchecked, cut>>

(***************************************************************************)
(* NetShellReboot, and the power                                            *)
(***************************************************************************)
Reset ==
  /\ step' = "wait" /\ cut' = (cut \/ step \notin {"wait", "answer"})
  /\ serving' = FALSE /\ tftp_created' = FALSE /\ writer' = "none"
  /\ mounted' \in BOOLEAN
  /\ UNCHANGED <<file, dev_status, unchecked>>

Next ==
  \/ tftp_server_open \/ tftp_server_close
  \/ MountYaffs0 \/ Update \/ KeepOld \/ TakeNew \/ VerifyFile \/ GoBack \/ Answer
  \/ Reset

Spec == Init /\ [][Next]_vars

(***************************************************************************)
(* Properties                                                               *)
(***************************************************************************)
TypeOK ==
  /\ file \in [Names -> Images]
  /\ mounted \in BOOLEAN /\ serving \in BOOLEAN /\ tftp_created \in BOOLEAN
  /\ writer \in Names \cup {"none", "unlinked"}
  /\ step \in {"wait", "take new", "verify", "go back", "answer", "stuck"}
  /\ dev_status \in {"FAIL", "SUCCESS"}
  /\ unchecked \in BOOLEAN /\ cut \in BOOLEAN

\* Between two commands the firmware in place works, whatever is uploaded and
\* whenever, and however often VERIFY comes, unless one told the seat not to
\* check or the power went in the middle of one.
KeepsWorking == step = "wait" /\ ~unchecked /\ ~cut => file["eamp"] \in Works
=============================================================================
