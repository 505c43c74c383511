------------------------------ MODULE ForkPty -------------------------------
(***************************************************************************)
(* pty/fork_pty.c: forkpty() makes a child behind a pseudo terminal.  The  *)
(* parent writes each line of its input to the master side and then reads  *)
(* there until something comes back; the child reads lines on the slave    *)
(* side and writes them out again.  Both change the settings of the same   *)
(* terminal, each by reading them and writing them back, in no order.      *)
(*                                                                         *)
(* The settings start as what is in an uninitialised variable of the       *)
(* parent.  Where they are not canonical a read of the child may return    *)
(* nothing, which is the end of its input.  A line is only what matters of *)
(* it: "line" fits into the buffer; "long" does not, and fgets() returns a *)
(* part without a newline first; "last" ends with the input and not with a *)
(* newline; "int" and "eof" are the commands.                              *)
(***************************************************************************)
EXTENDS Naturals, SequencesExt

CONSTANT MaxLines   \* bound: lines of the parent's input

Lines == {"line", "long", "last", "int", "eof"}
Setting == [canon : BOOLEAN, echo : BOOLEAN]

VARIABLES
  input,      (* what the parent still has to read; then its input ends    *)
  parent,     (* where the parent is                                       *)
  parentTs,   (* its ts                                                    *)
  handlers,   (* the parent has installed its handlers                     *)
  child,      (* where the child is                                        *)
  childTs,    (* its ts                                                    *)
  tty,        (* the settings of the terminal                              *)
  toChild,    (* pieces written to the master: TRUE with a newline         *)
  toParent,   (* what the child has written: "line", or what it prints     *)
              (* after its loop: "other"                                   *)
  wrote,      (* the piece the parent wrote last had a newline             *)
  shown,      (* what the parent read last                                 *)
  eof         (* fgets() of the child has returned NULL                    *)

parentVars == <<input, parent, parentTs, handlers, wrote, shown>>
childVars == <<child, childTs, eof>>
wireVars == <<tty, toChild, toParent>>
fvars == <<parentVars, childVars, wireVars>>

TypeOK ==
  /\ input \in Seq(Lines) /\ Len(input) <= MaxLines
  /\ parent \in {"banner", "get", "set", "prompt", "read", "gone"}
  /\ child \in {"start", "set", "fgets", "puts", "banner", "prompt", "gone"}
  /\ parentTs \in Setting /\ childTs \in Setting /\ tty \in Setting
  /\ toChild \in Seq(BOOLEAN) /\ toParent \in Seq({"line", "other"})
  /\ handlers \in BOOLEAN /\ wrote \in BOOLEAN /\ eof \in BOOLEAN
  /\ shown \in {"none", "line", "other"}

FInit ==
  /\ input \in UNION {[1..n -> Lines] : n \in 0..MaxLines}
  /\ parent = "banner" /\ child = "start" /\ handlers = FALSE
  /\ tty \in Setting /\ parentTs = tty /\ childTs = tty
  /\ toChild = <<>> /\ toParent = <<>> /\ wrote = FALSE /\ shown = "none" /\ eof = FALSE

-----------------------------------------------------------------------------
(* The parent *)

Handlers ==
  /\ parent = "banner" /\ parent' = "get" /\ handlers' = TRUE
  /\ UNCHANGED <<input, parentTs, wrote, shown, childVars, wireVars>>

GetSettings ==
  /\ parent = "get" /\ parent' = "set" /\ parentTs' = tty
  /\ UNCHANGED <<input, handlers, wrote, shown, childVars, wireVars>>

\* Variant: the echo is left on.
SetKeeping ==
  /\ parent = "set" /\ parent' = "prompt"
  /\ tty' = parentTs
  /\ UNCHANGED <<input, parentTs, handlers, wrote, shown, childVars, toChild, toParent>>

SetSettings ==
  /\ parent = "set" /\ parent' = "prompt"
  /\ tty' = [parentTs EXCEPT !.echo = FALSE]
  /\ UNCHANGED <<input, parentTs, handlers, wrote, shown, childVars, toChild, toParent>>

\* The end of the input, or a command: the control character is written, but
\* the parent does not wait for what it does.
Leave ==
  /\ parent = "prompt" /\ parent' = "gone"
  /\ \/ input = <<>> /\ UNCHANGED input
     \/ input # <<>> /\ Head(input) \in {"int", "eof"} /\ input' = Tail(input)
  /\ UNCHANGED <<parentTs, handlers, wrote, shown, childVars, wireVars>>

\* What is left of a long line is read as a line of its own.
Send ==
  /\ parent = "prompt" /\ input # <<>> /\ Head(input) \in {"line", "long", "last"}
  /\ parent' = "read" /\ wrote' = (Head(input) = "line")
  /\ toChild' = Append(toChild, wrote')
  /\ input' = IF Head(input) = "long" THEN <<"line">> \o Tail(input)
              ELSE IF Head(input) = "last" THEN <<>> ELSE Tail(input)
  /\ UNCHANGED <<parentTs, handlers, shown, childVars, tty, toParent>>

Receive ==
  /\ parent = "read" /\ toParent # <<>> /\ parent' = "prompt"
  /\ shown' = Head(toParent) /\ toParent' = Tail(toParent)
  /\ UNCHANGED <<input, parentTs, handlers, wrote, childVars, tty, toChild>>

\* Without the child reading fails.
ReceiveFails ==
  /\ parent = "read" /\ toParent = <<>> /\ child = "gone" /\ parent' = "gone"
  /\ UNCHANGED <<input, parentTs, handlers, wrote, shown, childVars, wireVars>>

-----------------------------------------------------------------------------
(* The child *)

GetChild ==
  /\ child = "start" /\ child' = "set" /\ childTs' = tty
  /\ UNCHANGED <<parentVars, eof, wireVars>>

SetChild ==
  /\ child = "set" /\ child' = "fgets"
  /\ tty' = [canon |-> TRUE, echo |-> FALSE]
  /\ UNCHANGED <<parentVars, childTs, eof, toChild, toParent>>

\* fgets() waits for a newline; it takes a line written in two pieces in two
\* calls, whose output comes with the newline.
Fgets ==
  /\ child = "fgets"
  /\ \/ /\ \E i \in DOMAIN toChild :
             /\ toChild[i] /\ \A j \in 1..(i - 1) : ~toChild[j]
             /\ toChild' = SubSeq(toChild, i + 1, Len(toChild))
        /\ child' = "puts" /\ UNCHANGED eof
     \/ ~tty.canon /\ child' = "banner" /\ eof' = TRUE /\ UNCHANGED toChild
  /\ UNCHANGED <<parentVars, childTs, tty, toParent>>

Puts ==
  /\ child = "puts" /\ child' = "fgets"
  /\ toParent' = Append(toParent, "line")
  /\ UNCHANGED <<parentVars, childTs, eof, tty, toChild>>

\* After its loop the child goes on with the parent's part of main: what that
\* prints goes to the terminal.  Its input has ended, and so does its loop.
GoOn ==
  /\ child \in {"banner", "prompt"}
  /\ child' = IF child = "banner" THEN "prompt" ELSE "gone"
  /\ toParent' = Append(toParent, "other")
  \* SIGCHLD interrupts fgets(), which the parent takes for the end of its
  \* input, and read(), which it takes for an error.
  /\ \/ UNCHANGED parent
     \/ child' = "gone" /\ handlers /\ parent \in {"prompt", "read"} /\ parent' = "gone"
  /\ UNCHANGED <<input, parentTs, handlers, wrote, shown, childTs, eof, tty, toChild>>

\* The master side is closed with the parent: the child gets SIGHUP.
HangUp ==
  /\ parent = "gone" /\ child # "gone" /\ child' = "gone"
  /\ UNCHANGED <<parentVars, childTs, eof, wireVars>>

-----------------------------------------------------------------------------
Parent ==
  Handlers \/ GetSettings \/ SetSettings \/ Leave \/ Send \/ Receive \/ ReceiveFails
Child == GetChild \/ SetChild \/ Fgets \/ Puts \/ GoOn \/ HangUp

FNext == Parent \/ Child

FFairness == WF_fvars(Parent) /\ WF_fvars(Child)

FSpec == FInit /\ [][FNext]_fvars /\ FFairness

-----------------------------------------------------------------------------
(* Properties *)

\* The terminal does not echo what the parent writes, in whatever order both
\* sides change its settings; and what the parent reads back is a line of the
\* child's loop, unless its settings were overwritten by older ones of the
\* parent and its input ended early.  Always the types are right.
OwnEcho ==
  /\ TypeOK
  /\ toChild # <<>> => ~tty.echo
  /\ shown = "other" => eof
  /\ eof => parent = "gone" \/ ~parentTs.canon

\* Each line that ends with a newline is answered, with an answer of its own and
\* not an echo, or the program ends; and the child does not survive the parent.
LinesComeBack ==
  /\ []OwnEcho
  /\ (parent = "read" /\ wrote) ~> parent # "read"
  /\ parent = "gone" ~> child = "gone"
=============================================================================
