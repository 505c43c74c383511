--------------------------- MODULE SmallPrograms ----------------------------
(***************************************************************************)
(* The small concurrent programs of the repository, checked in one run:    *)
(* p1 to p4 of pthread/, timers/c/timerfd.c, pty/fork_pty.c, netlink_ipc   *)
(* and pipe-ipc.  Nothing connects them: the first state says which one    *)
(* runs, and the variables of the others stay as they are.                 *)
(***************************************************************************)
EXTENDS ThreadSignals

CONSTANTS
  Racers, LOOPS, Demos,                                      \* PthreadDemo
  SEC, SHOT, FIRST, PERIOD, TIMEOUT, PROMPT, SLOW, MaxMissed,    \* TimerFd
  MaxLines,                                                      \* ForkPty
  Callers, MaxServers,                                           \* NetlinkIpc
  PipeSize                                                       \* PipeIpc

\* p1.cpp has five threads that count five times.
ASSUME RacersAssumption == IsFiniteSet(Racers) /\ Racers # {} /\ LOOPS \in Nat /\ LOOPS > 1

\* The lines of fork_pty's input, and how often netlink_ipc's server is started.
ASSUME BoundsAssumption == MaxLines \in Nat /\ MaxServers \in Nat

\* The threads of p2.cpp and p3.cpp; main is another one.
ASSUME DemosAssumption == IsFiniteSet(Demos) /\ "main" \notin Demos

\* timerfd.c: the period first ends after 3 s and then every 7 s, the single shot after
\* 5 s; a thread that is not prompt may be slower than one that is.
ASSUME TimesAssumption ==
  /\ {SEC, SHOT, FIRST, PERIOD, TIMEOUT, PROMPT, SLOW, MaxMissed} \subseteq Nat
  /\ SEC > 0 /\ 0 < FIRST /\ FIRST <= SHOT /\ SHOT <= PERIOD /\ PROMPT <= SLOW

VARIABLES
  prog, boss, made, joined, place, v1, v2, tmp, loop, once, key, vec, seen, raced,
  deleted, known, mutex, number, waiting,
  step, phase, goal, interval, tfd, pfd, efd, exp, patience, turn, prompt, owed,
  input, parent, parentTs, handlers, child, childTs, tty, toChild, toParent, wrote,
  echoed, eof,
  server, serving, inbox, caller, replied, servers, failed,
  reader, writer, status, writeEnds, readEnds, commands, printed, reported,
  program     (* the program that runs                                     *)

P == INSTANCE PthreadDemo WITH Threads <- Demos
T == INSTANCE TimerFd
F == INSTANCE ForkPty WITH shown <- echoed
N == INSTANCE NetlinkIpc
X == INSTANCE PipeIpc

Programs == {"p4", "p1-p3", "timerfd", "fork_pty", "netlink", "pipe"}

pvars == <<prog, boss, made, joined, place, v1, v2, tmp, loop, once, key, vec, seen,
           raced, deleted, known, mutex, number, waiting>>
tvars == <<step, phase, goal, interval, tfd, pfd, efd, exp, patience, turn, prompt, owed>>
fvars == <<input, parent, parentTs, handlers, child, childTs, tty, toChild, toParent,
           wrote, echoed, eof>>
nvars == <<server, serving, inbox, caller, replied, servers, failed>>
xvars == <<reader, writer, status, writeEnds, readEnds, commands, printed, reported>>
ipc == <<nvars, xvars>>
all == <<vars, pvars, tvars, fvars, ipc, program>>

\* Only the program that runs has more than one way to start.
AllInit ==
  /\ program \in Programs
  /\ Init /\ P!PInit /\ T!TInit /\ F!FInit /\ N!NInit /\ X!XInit
  /\ program # "p4" => timely
  /\ program # "p1-p3" => prog = "p1"
  /\ program # "timerfd" => prompt /\ phase = 0
  /\ program # "fork_pty" => input = <<>> /\ tty.canon /\ tty.echo

P4Step == program = "p4" /\ Next /\ UNCHANGED <<pvars, tvars, fvars, ipc, program>>
PthreadStep(A) == program = "p1-p3" /\ A /\ UNCHANGED <<vars, tvars, fvars, ipc, program>>
TimerStep(A) == program = "timerfd" /\ A /\ UNCHANGED <<vars, pvars, fvars, ipc, program>>
PtyStep(A) == program = "fork_pty" /\ A /\ UNCHANGED <<vars, pvars, tvars, ipc, program>>

NetlinkStep(A) ==
  program = "netlink" /\ A /\ UNCHANGED <<vars, pvars, tvars, fvars, xvars, program>>
PipeStep(A) ==
  program = "pipe" /\ A /\ UNCHANGED <<vars, pvars, tvars, fvars, nvars, program>>

AllNext ==
  \/ P4Step \/ PthreadStep(P!PNext) \/ TimerStep(T!TNext) \/ PtyStep(F!FNext)
  \/ NetlinkStep(N!NNext) \/ PipeStep(X!XNext)

\* The fairness of each program.
Fairness ==
  /\ WF_all(PthreadStep(P!MainStep))
  /\ \A t \in P!Everyone : WF_all(PthreadStep(P!Thread(t)))
  /\ WF_all(TimerStep(T!Thread))
  /\ WF_all(PtyStep(F!Parent)) /\ WF_all(PtyStep(F!Child))
  /\ WF_all(NetlinkStep(N!Server)) /\ WF_all(NetlinkStep(\E c \in Callers : N!TakeReply(c)))
  /\ WF_all(PipeStep(X!Reader)) /\ WF_all(PipeStep(X!Writer))

AllSpec == AllInit /\ [][AllNext]_all /\ Fairness

-----------------------------------------------------------------------------
(* Properties of the programs, as their modules state them *)

\* p1: lost updates of the unlocked counters leave V2 no less than 2 and V1
\* even.  p2: the key is created once and in time; main deletes data that nobody
\* uses, and all of them unless two threads entered theirs at once.
RacesBounded == P!RacesBounded

\* p3: the barriers keep the threads together, and a number is the own or none;
\* in p1, p2 and p3 main comes to the end of joining.
BarriersHold == program = "p1-p3" => P!BarriersHold

\* timerfd: no expiration of the single shot is lost or told twice, and a prompt
\* thread serves all three descriptors.
AllServed == program = "timerfd" => T!AllServed

\* fork_pty: each complete line is answered, by the child and not by an echo of
\* the terminal; the child ends with the parent.
LinesComeBack == program = "fork_pty" => F!LinesComeBack

\* A client of the netlink server gets its reply unless the server ends; pipe.c and
\* its child do not survive each other, and no command is lost between them.
NobodyWaits ==
  /\ program = "netlink" => N!RepliesCome
  /\ program = "pipe" => X!BothEnd
=============================================================================
