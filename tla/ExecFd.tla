------------------------------- MODULE ExecFd -------------------------------
(***************************************************************************)
(* sem/exec_fd.c: a parent and its forked child take turns reading one     *)
(* shared file descriptor, handing a turn over with the named semaphores   *)
(* my_sem_a (created with value 1) and my_sem_b (created with value 0).    *)
(*                                                                         *)
(* Semaphore names outlive the processes: sem_open(O_CREAT) on a name that *)
(* still exists keeps its old value.  The model therefore follows several  *)
(* consecutive runs of the program, with Ctrl-C (SIGINT, handled by        *)
(* int_handler) and Ctrl-\ (SIGQUIT, not handled: default action) sent to  *)
(* the foreground process group at any moment.                             *)
(***************************************************************************)
EXTENDS Integers

CONSTANTS
  CYCLE,     (* reads of each process in one run                           *)
  MaxRuns,   (* bound: how often the program is started again              *)
  MaxInts,   (* bound: Ctrl-C typed this many times                        *)
  MaxQuits,  (* bound: Ctrl-\ typed this many times                        *)
  AfterQuit  (* bound: whether the program is started again after a Ctrl-\ *)

ASSUME BoundsAssumption ==
  /\ CYCLE \in Nat \ {0}
  /\ MaxRuns \in Nat /\ MaxInts \in Nat /\ MaxQuits \in Nat
  /\ AfterQuit \in BOOLEAN

Procs == {"parent", "child"}
Names == {"a", "b"}

\* Variants with a bug, which the properties must tell from the real program.
SemInitBothOne == [n \in Names |-> 1]
SemInitBothZero == [n \in Names |-> 0]

\* Initial values passed to sem_open.
SemInit == [n \in Names |-> IF n = "a" THEN 1 ELSE 0]

\* The child waits for lock_a and posts lock_b, the parent the other way round.
WaitsOn(p) == IF p = "child" THEN "a" ELSE "b"
PostsToOwn(p) == IF p = "child" THEN "a" ELSE "b"
PostsTo(p) == IF p = "child" THEN "b" ELSE "a"

VARIABLES
  sem,       (* value of each semaphore object                             *)
  linked,    (* the semaphore names that exist                             *)
  pc,        (* where each process is                                      *)
  iter,      (* the loop counters j (parent) and i (child)                 *)
  reads,     (* characters each process took from the descriptor, this run *)
  sigint,    (* the processes with SIGINT pending                          *)
  sigquit,   (* the processes with SIGQUIT pending                         *)
  runs, ints, quits  (* how much of each bound is used up                  *)

vars == <<sem, linked, pc, iter, reads, sigint, sigquit, runs, ints, quits>>
env  == <<sigint, sigquit, runs, ints, quits>>

PCs == {"none", "open", "sem_a", "sem_b", "sem_b_failed", "fork", "mask",
        "wait", "read", "post", "close", "unlink_a", "unlink_b",
        "h_a", "h_b", "gone"}

TypeOK ==
  /\ sem \in [Names -> Nat]
  /\ linked \in SUBSET Names
  /\ pc \in [Procs -> PCs]
  /\ iter \in [Procs -> Nat]
  /\ reads \in [Procs -> Nat]
  /\ sigint \in SUBSET Procs
  /\ sigquit \in SUBSET Procs
  /\ runs \in Nat /\ ints \in Nat /\ quits \in Nat

\* The handlers are installed, nothing is open, no name is left from before.
Init ==
  /\ sem = SemInit
  /\ linked = {}
  /\ pc = [p \in Procs |-> IF p = "parent" THEN "open" ELSE "none"]
  /\ iter = [p \in Procs |-> 0]
  /\ reads = [p \in Procs |-> 0]
  /\ sigint = {} /\ sigquit = {}
  /\ runs = 0 /\ ints = 0 /\ quits = 0

Alive(p) == pc[p] \notin {"none", "gone"}

Goto(p, to) == pc' = [pc EXCEPT ![p] = to]

-----------------------------------------------------------------------------
(* The parent before the loops *)

OpenFile ==
  /\ pc["parent"] = "open"
  /\ \E to \in {"sem_a", "gone"} : Goto("parent", to)
  /\ UNCHANGED <<sem, linked, iter, reads, env>>

\* sem_open(name, O_CREAT, mode, value): the value counts only for a new name.
Create(n) ==
  /\ sem' = IF n \in linked THEN sem ELSE [sem EXCEPT ![n] = SemInit[n]]
  /\ linked' = linked \cup {n}

\* Both semaphores are opened before either result is looked at.
SemOpen ==
  /\ \/ /\ pc["parent"] = "sem_a"
        /\ \/ Create("a") /\ Goto("parent", "sem_b")
           \/ UNCHANGED <<sem, linked>> /\ Goto("parent", "sem_b_failed")
     \/ /\ pc["parent"] = "sem_b"
        /\ \/ Create("b") /\ Goto("parent", "fork")
           \/ UNCHANGED <<sem, linked>> /\ Goto("parent", "gone")
     \/ /\ pc["parent"] = "sem_b_failed"
        /\ Create("b") \/ UNCHANGED <<sem, linked>>
        /\ Goto("parent", "gone")
  /\ UNCHANGED <<iter, reads, env>>

\* fork() does not complete while a signal is pending.  On failure the parent
\* leaves at once and the two names stay.
Fork ==
  /\ pc["parent"] = "fork"
  /\ "parent" \notin sigint \cup sigquit
  /\ \/ pc' = [pc EXCEPT !["parent"] = "wait", !["child"] = "mask"]
     \/ Goto("parent", "gone")
  /\ UNCHANGED <<sem, linked, iter, reads, env>>

-----------------------------------------------------------------------------
(* The two loops, the same code with the semaphores exchanged *)

\* The child blocks SIGINT only now: until then it has the parent's handler.
Mask ==
  /\ pc["child"] = "mask"
  /\ Goto("child", "wait")
  /\ UNCHANGED <<sem, linked, iter, reads, env>>

SemWait(p) ==
  /\ pc[p] = "wait"
  /\ sem[WaitsOn(p)] > 0
  /\ sem' = [sem EXCEPT ![WaitsOn(p)] = @ - 1]
  /\ Goto(p, "read")
  /\ UNCHANGED <<linked, iter, reads, env>>

Read(p) ==
  /\ pc[p] = "read"
  /\ reads' = [reads EXCEPT ![p] = @ + 1]
  /\ Goto(p, "post")
  /\ UNCHANGED <<sem, linked, iter, env>>

SemPost(p) ==
  /\ pc[p] = "post"
  /\ sem' = [sem EXCEPT ![PostsTo(p)] = @ + 1]
  /\ iter' = [iter EXCEPT ![p] = @ + 1]
  /\ Goto(p, IF iter[p] + 1 < CYCLE THEN "wait"
             ELSE IF p = "child" THEN "close" ELSE "unlink_a")
  /\ UNCHANGED <<linked, reads, env>>

CloseSems ==
  /\ pc["child"] = "close"
  /\ Goto("child", "gone")
  /\ UNCHANGED <<sem, linked, iter, reads, env>>

-----------------------------------------------------------------------------
(* Deleting the names: the end of main and int_handler do the same *)

Unlink(n) == linked' = linked \ {n}

UnlinkBoth ==
  /\ \/ pc["parent"] = "unlink_a" /\ Unlink("a") /\ Goto("parent", "unlink_b")
     \/ pc["parent"] = "unlink_b" /\ Unlink("b") /\ Goto("parent", "gone")
  /\ UNCHANGED <<sem, iter, reads, env>>

\* Variant: the handler deletes only the first name.
IntHandlerOnlyA(p) ==
  /\ pc[p] = "h_a" /\ Unlink("a") /\ Goto(p, "gone")
  /\ UNCHANGED <<sem, iter, reads, env>>

IntHandler(p) ==
  /\ \/ pc[p] = "h_a" /\ Unlink("a") /\ Goto(p, "h_b")
     \/ pc[p] = "h_b" /\ Unlink("b") /\ Goto(p, "gone")
  /\ UNCHANGED <<sem, iter, reads, env>>

\* Where SIGINT is not blocked (the handler itself runs with it blocked).
Unblocked(p) ==
  IF p = "child" THEN pc[p] = "mask" ELSE Alive(p) /\ pc[p] \notin {"h_a", "h_b"}

DeliverInt(p) ==
  /\ p \in sigint /\ Unblocked(p)
  /\ sigint' = sigint \ {p}
  /\ Goto(p, "h_a")
  /\ UNCHANGED <<sem, linked, iter, reads, sigquit, runs, ints, quits>>

\* SIGQUIT is neither blocked nor handled: the process ends where it is.
DeliverQuit(p) ==
  /\ p \in sigquit /\ Alive(p)
  /\ sigquit' = sigquit \ {p}
  /\ Goto(p, "gone")
  /\ UNCHANGED <<sem, linked, iter, reads, sigint, runs, ints, quits>>

-----------------------------------------------------------------------------
(* The terminal and the user *)

CtrlC ==
  /\ ints < MaxInts /\ Alive("parent")
  /\ ints' = ints + 1
  /\ sigint' = sigint \cup {p \in Procs : Alive(p)}
  /\ UNCHANGED <<sem, linked, pc, iter, reads, sigquit, runs, quits>>

CtrlBackslash ==
  /\ quits < MaxQuits /\ Alive("parent")
  /\ quits' = quits + 1
  /\ sigquit' = sigquit \cup {p \in Procs : Alive(p)}
  /\ UNCHANGED <<sem, linked, pc, iter, reads, sigint, runs, ints>>

\* The program is started again.  A child of the run before may still exist,
\* but then its names are deleted and nothing it does reaches the new run.
Restart ==
  /\ runs < MaxRuns /\ (quits = 0 \/ AfterQuit)
  /\ pc["parent"] = "gone"
  /\ \/ ~Alive("child")
     \/ /\ pc["child"] \in {"wait", "read", "post", "close"}
        /\ "child" \notin sigquit
        /\ linked = {}
  /\ runs' = runs + 1
  /\ pc' = [p \in Procs |-> IF p = "parent" THEN "open" ELSE "none"]
  /\ iter' = [p \in Procs |-> 0]
  /\ reads' = [p \in Procs |-> 0]
  /\ sigint' = {} /\ sigquit' = {}
  /\ UNCHANGED <<sem, linked, ints, quits>>

Start == OpenFile \/ SemOpen \/ Fork
Loop(p) == SemWait(p) \/ Read(p) \/ SemPost(p)
Signal(p) == IntHandler(p) \/ DeliverInt(p) \/ DeliverQuit(p)

Next ==
  \/ Start \/ Mask \/ CloseSems \/ UnlinkBoth
  \/ \E p \in Procs : Loop(p) \/ Signal(p)
  \/ CtrlC \/ CtrlBackslash \/ Restart

Spec == Init /\ [][Next]_vars

\* A process that can run does run, and a deliverable signal is delivered.
\* Nobody has to type a key or start the program again.
Fairness ==
  /\ WF_vars(Start) /\ WF_vars(Mask) /\ WF_vars(CloseSems) /\ WF_vars(UnlinkBoth)
  /\ \A p \in Procs : WF_vars(Loop(p)) /\ WF_vars(Signal(p))

FairSpec == Spec /\ Fairness

-----------------------------------------------------------------------------
(* Properties *)

Holds(p) == pc[p] \in {"read", "post"}

\* Between sem_wait and sem_post at most one process uses the descriptor: the
\* promise of the comment at exec_fd.c:13-16, in every run, also after Ctrl-C.
OneByOne == ~(Holds("parent") /\ Holds("child"))

\* The child takes the first character and then the two alternate, whatever
\* the signals do: never two characters in a row for one of them.
ReadsAlternate == reads["child"] - reads["parent"] \in {0, 1}

\* What a finished run leaves behind does not change the next run: a name that
\* still exists (fork or sem_open failed) has the value sem_open would give it,
\* unless Ctrl-\ stopped the run.  Always the types are right.
LeftoverHarmless ==
  /\ TypeOK
  /\ pc["parent"] = "gone" /\ quits = 0 => \A n \in linked : sem[n] = SemInit[n]

\* Once the parent reads, the run comes to an end, and the child gets through
\* its loop unless a signal took its partner away (it blocks SIGINT and waits).
RunEnds ==
  pc["parent"] = "wait" ~>
    /\ pc["parent"] = "gone"
    /\ pc["child"] \in {"close", "gone"} \/ ints + quits > 0

=============================================================================
