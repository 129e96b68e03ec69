---------------------------- MODULE Configuration -----------------------------
(***************************************************************************)
(* BaseConfigObject: what a plugin keeps in a file.  A change starts a     *)
(* timer, and starts it again if it runs; when it fires, or when the       *)
(* program is about to quit, saveNow() truncates the file and writes it.   *)
(* A file that cannot be opened or written is not tried again.             *)
(* The process may end at any time, the program's own end included: main() *)
(* returns without waiting for the threads of the plugins.                 *)
(***************************************************************************)
VARIABLES
  process, \* "down", "up", "saving" (the file is truncated and not written
           \* yet), or "crashed" (undefined behaviour: nothing is claimed)
  timer,   \* m_saveTimer->isActive()
  file,    \* [kind |-> "absent"], "empty" (or written in part), or "saved"
           \* with its content
  missed   \* not in the code: the last save that there was need of has failed,
           \* and none is scheduled since

configVars == <<process, timer, file, missed>>

Absent == [kind |-> "absent"]
Empty == [kind |-> "empty"]
SavedAs(content) == [kind |-> "saved", content |-> content]

ConfigInit ==
  /\ process = "down"
  /\ timer = FALSE
  /\ file = Absent
  /\ missed = FALSE

Running == process = "up"

(* scheduleSave() in a handler of the plugin's thread. *)
ScheduleSave ==
  /\ Running
  /\ timer' = TRUE
  /\ missed' = FALSE
  /\ UNCHANGED <<process, file>>

NoSave == Running /\ UNCHANGED configVars

(* open(WriteOnly), by the timer or by aboutToQuit(), which may come at any *)
(* time.  The timer is no longer active when it fires, nor when the file    *)
(* cannot be opened, which ends in a warning.                               *)
SaveNow ==
  /\ Running
  /\ timer' = FALSE
  /\ \/ process' = "saving" /\ file' = Empty /\ missed' = FALSE
     \/ missed' = (missed \/ timer) /\ UNCHANGED <<process, file>>

(* write(doSave()), flushed when the QFile is destroyed; nobody looks      *)
(* whether it could be written.                                            *)
Write(content) ==
  /\ process = "saving"
  /\ process' = "up"
  /\ \/ file' = SavedAs(content) /\ UNCHANGED missed
     \/ missed' = TRUE /\ UNCHANGED file
  /\ UNCHANGED timer

(* The process ends; a file that was being written stays empty. *)
End ==
  /\ process \in {"up", "saving"}
  /\ process' = "down"
  /\ timer' = FALSE
  /\ missed' = FALSE
  /\ UNCHANGED file

Crash ==
  /\ Running
  /\ process' = "crashed"
  /\ UNCHANGED <<timer, file, missed>>

(* ready() of the plugin.  An empty file is no JSON document: reading it   *)
(* throws, nothing catches it, and the process is down again.              *)
Start(scheduled) ==
  /\ process = "down"
  /\ file # Empty
  /\ process' = "up"
  /\ timer' = scheduled
  /\ UNCHANGED <<file, missed>>
===============================================================================
