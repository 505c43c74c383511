------------------------------ MODULE PipeIpc -------------------------------
(***************************************************************************)
(* pipe-ipc: pipe.c starts xmit as its child and prints the commands that  *)
(* xmit writes into a pipe without an end, two in a turn; it learns from   *)
(* the end of the pipe that the child is gone, and then its status.        *)
(*                                                                         *)
(* Either of them may be stopped by a signal at any time.  Commands are    *)
(* written and read whole.                                                 *)
(***************************************************************************)
EXTENDS Naturals, SequencesExt

CONSTANT PipeSize   \* commands that fit in the pipe

VARIABLES
  reader,     (* where pipe.c is                                           *)
  writer,     (* where its child is                                        *)
  status,     (* what the child's end will tell waitpid()                  *)
  writeEnds,  (* who has the pipe open for writing                         *)
  readEnds,   (* who has it open for reading                               *)
  commands,   (* in the pipe                                               *)
  printed,    (* the last command printed                                  *)
  reported    (* what pipe.c has said of the status                        *)

xvars == <<reader, writer, status, writeEnds, readEnds, commands, printed, reported>>

Command == {"progress", "ui_print"}

TypeOK ==
  /\ reader \in {"close", "read", "wait", "done", "killed"}
  /\ writer \in {"close", "exec", "progress", "ui_print", "gone"}
  /\ status \in {"none", "failed", "signal"} /\ reported \in {"none", "error", "nothing"}
  /\ writeEnds \subseteq {"reader", "writer"} /\ readEnds \subseteq {"reader", "writer"}
  /\ commands \in Seq(Command) /\ printed \in Command

\* After fork() both have both ends.
XInit ==
  /\ reader = "close" /\ writer = "close" /\ status = "none" /\ reported = "none"
  /\ writeEnds = {"reader", "writer"} /\ readEnds = {"reader", "writer"}
  /\ commands = <<>> /\ printed = "ui_print"

-----------------------------------------------------------------------------
(* pipe.c *)

\* Variant: the parent keeps its end for writing.
KeepPipe ==
  /\ reader = "close" /\ reader' = "read"
  /\ UNCHANGED <<writer, status, writeEnds, readEnds, commands, printed, reported>>

ClosePipe ==
  /\ reader = "close" /\ reader' = "read" /\ writeEnds' = writeEnds \ {"reader"}
  /\ UNCHANGED <<writer, status, readEnds, commands, printed, reported>>

PrintCommand ==
  /\ reader = "read" /\ commands # <<>>
  /\ printed' = Head(commands) /\ commands' = Tail(commands)
  /\ UNCHANGED <<reader, writer, status, writeEnds, readEnds, reported>>

EndOfPipe ==
  /\ reader = "read" /\ commands = <<>> /\ writeEnds = {}
  /\ reader' = "wait" /\ readEnds' = readEnds \ {"reader"}
  /\ UNCHANGED <<writer, status, writeEnds, commands, printed, reported>>

\* Whatever ends the child here is an error.
WaitPid ==
  /\ reader = "wait" /\ writer = "gone"
  /\ reader' = "done" /\ reported' = IF status = "none" THEN "nothing" ELSE "error"
  /\ UNCHANGED <<writer, status, writeEnds, readEnds, commands, printed>>

KillReader ==
  /\ reader \notin {"done", "killed"} /\ reader' = "killed"
  /\ writeEnds' = writeEnds \ {"reader"} /\ readEnds' = readEnds \ {"reader"}
  /\ UNCHANGED <<writer, status, commands, printed, reported>>

-----------------------------------------------------------------------------
(* The child *)

ChildGone(how) ==
  /\ writer' = "gone" /\ status' = how
  /\ writeEnds' = writeEnds \ {"writer"} /\ readEnds' = readEnds \ {"writer"}

CloseChild ==
  /\ writer = "close" /\ writer' = "exec" /\ readEnds' = readEnds \ {"writer"}
  /\ UNCHANGED <<reader, status, writeEnds, commands, printed, reported>>

Exec ==
  /\ writer = "exec"
  /\ \/ writer' = "progress" /\ UNCHANGED <<status, writeEnds, readEnds>>
     \/ ChildGone("failed")
  /\ UNCHANGED <<reader, commands, printed, reported>>

\* xmit: without a reader SIGPIPE ends it, and it waits while the pipe is full.
Report ==
  /\ writer \in Command
  /\ \/ /\ readEnds # {} /\ Len(commands) < PipeSize
        /\ commands' = Append(commands, writer)
        /\ writer' = IF writer = "progress" THEN "ui_print" ELSE "progress"
        /\ UNCHANGED <<status, writeEnds, readEnds>>
     \/ readEnds = {} /\ ChildGone("signal") /\ UNCHANGED commands
  /\ UNCHANGED <<reader, printed, reported>>

KillChild ==
  /\ writer # "gone" /\ ChildGone("signal")
  /\ UNCHANGED <<reader, commands, printed, reported>>

-----------------------------------------------------------------------------
Reader == ClosePipe \/ PrintCommand \/ EndOfPipe \/ WaitPid
Writer == CloseChild \/ Exec \/ Report

XNext == Reader \/ Writer \/ KillReader \/ KillChild

\* Both processes run; nobody has to be stopped, and execv() need not fail.
XFairness == WF_xvars(Reader) /\ WF_xvars(Writer)

XSpec == XInit /\ [][XNext]_xvars /\ XFairness

-----------------------------------------------------------------------------
(* Properties *)

\* The commands come by turns and none is lost, from what was printed last to
\* what is written next; the end of the child is always told.  Always the types
\* are right.
CommandsInTurn ==
  /\ TypeOK
  /\ LET all == <<printed>> \o commands
     IN  /\ \A i \in 1..(Len(all) - 1) : all[i] # all[i + 1]
         /\ writer \in Command => all[Len(all)] # writer
  /\ reader = "done" => reported = "error" /\ writer = "gone"

\* Neither survives the other: once one of them is gone the other one ends, too.
BothEnd ==
  /\ []CommandsInTurn
  /\ writer = "gone" ~> reader \in {"done", "killed"}
  /\ reader = "killed" ~> writer = "gone"
=============================================================================
