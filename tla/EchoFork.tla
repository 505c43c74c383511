------------------------------ MODULE EchoFork ------------------------------
(***************************************************************************)
(* The servers that give each connection a process or a thread of its own: *)
(*   fork   tcp/c/echo/s_fork.c, which reaps its children in a SIGCHLD     *)
(*          handler,                                                       *)
(*   time   tcp/c/time/s_time_fork.c, which tells the time and reaps none, *)
(*   inetd  inetd/inetd.c, whose children become a shell that reads the    *)
(*          connection, and which reaps none,                              *)
(*   go     tcp/go/echo/s_goroutines.go,                                   *)
(*   rust   tcp/rust/echo/src/bin/s_std_threaded.rs.                       *)
(*                                                                         *)
(* A child inherits its parent's descriptors.  Those of s_fork.c close the *)
(* listening socket first of all; those of s_time_fork.c and inetd.c keep  *)
(* it to their end, so the queue and the clients in it may outlive the     *)
(* parent.  In inetd a child that could not start its shell is one more    *)
(* server, with its own connection as its input; hence every process has   *)
(* a place in the accept loop, and any of them may fork.                   *)
(*                                                                         *)
(* A connection ends when no process holds it, the queue when none holds   *)
(* the listening socket.  What a process has of its descriptors beside     *)
(* these is left out (fdc, the table of a single-process server, stays     *)
(* empty).  accept() interrupted by the handler is called again and        *)
(* changes nothing, and so does one that fails in Go.                      *)
(***************************************************************************)
EXTENDS EchoNet

VARIABLES
  kind,   (* which of the servers runs                                     *)
  pc,     (* each process's place in the accept loop, off outside of it    *)
  hand,   (* the connection it has from accept() to its own close()        *)
  by,     (* the process that forked the child of a connection             *)
  kid,    (* the child or thread of each connection                        *)
  chld,   (* SIGCHLD is pending (one bit, however many children ended)     *)
  hpc     (* the handler: off, or in its waitpid loop                      *)

serverVars == <<kind, pc, hand, by, kid, chld, hpc>>
vars == <<netVars, serverVars>>

\* None is the first process; a child goes by the client of its connection.
Procs == Clients \cup {None}
KidStates == {"none", "fresh", "read", "write", "tell", "leave", "exec", "shell", "server",
              "zombie", "reaped"}

TypeOK ==
  /\ NetTypeOK
  /\ kind \in {"fork", "time", "inetd", "go", "rust"}
  /\ pc \in [Procs -> {"accept", "fork", "close", "off"}]
  /\ hand \in [Procs -> Procs] /\ by \in [Clients -> Procs]
  /\ kid \in [Clients -> KidStates]
  /\ chld \in BOOLEAN
  /\ hpc \in {"off", "wait"}

Init ==
  /\ NetInit
  /\ kind \in {"fork", "time", "inetd", "go", "rust"}
  /\ pc = [p \in Procs |-> IF p = None THEN "accept" ELSE "off"]
  /\ hand = [p \in Procs |-> None]
  /\ by = [c \in Clients |-> None]
  /\ kid = [c \in Clients |-> "none"]
  /\ chld = FALSE
  /\ hpc = "off"

Threaded == kind \in {"go", "rust"}
First == [fork |-> "fresh", time |-> "tell", inetd |-> "exec"]

\* A thread that has ended leaves nothing to reap.
Ended(c) == kid[c] \in {"zombie", "reaped"}
Active == {c \in Clients : kid[c] # "none" /\ ~Ended(c)}
Runs(p) == IF p = None THEN pc[None] # "off" ELSE p \in Active

\* Who has the listening socket.
Listens(p) == Runs(p) /\ (p # None /\ kind \notin {"time", "inetd"} => kid[p] = "fresh")

\* Who has a connection.  The child of a second server has that server's input too,
\* until dup2() puts its own connection in the place.
Holds(p, c) ==
  \/ hand[p] = c
  \/ p \in Active /\ (p = c \/ (kid[p] = "exec" /\ by[p] = c))
Dropped == {c \in Clients : client[c] # "new" /\ c \notin Queued /\ \A p \in Procs : ~Holds(p, c)}

\* What the kernel closes with the last descriptor.
QueueCloses == backlog' = IF \E p \in Procs : Listens(p)' THEN backlog ELSE <<>>
ConnsClose == over' = Dropped'

\* A process ends: the first one with its threads but without its children, whose
\* ends are then left to init.
Terminate(p) ==
  LET gone == IF p = None /\ Threaded THEN {None} \cup Active ELSE {p}
      orphan(c) == by[c] = p \/ ~Runs(by[c])
  IN /\ pc' = [pc EXCEPT ![p] = "off"]
     /\ hand' = [hand EXCEPT ![p] = None]
     /\ kid' = [c \in Clients |->
                  CASE c \in gone -> IF Threaded \/ orphan(c) THEN "reaped" ELSE "zombie"
                    [] kid[c] = "zombie" /\ orphan(c) -> "reaped"
                    [] OTHER -> kid[c]]
     /\ UNCHANGED <<clientVars, inq, out, fdc, reset, kind, by, hpc>>
     /\ QueueCloses /\ ConnsClose

-----------------------------------------------------------------------------
(* The accept loop; it stands still while the handler runs *)

Accept(p) ==
  /\ pc[p] = "accept" /\ hpc = "off" /\ backlog # <<>>
  /\ backlog' = Tail(backlog)
  /\ IF Threaded
       THEN kid' = [kid EXCEPT ![Head(backlog)] = "read"] /\ UNCHANGED <<hand, pc>>
       ELSE /\ hand' = [hand EXCEPT ![p] = Head(backlog)]
            /\ pc' = [pc EXCEPT ![p] = "fork"] /\ UNCHANGED kid
  /\ UNCHANGED <<clientVars, inq, out, fdc, over, reset, kind, by, chld, hpc>>

\* exit(1), and a panic when accept() or spawn() fails.  (inetd does not look at
\* what accept() returned: it forks a child that ends without a connection, and
\* ends itself when that fails too.)
AcceptFails(p) ==
  /\ pc[p] = "accept" /\ hpc = "off" /\ kind # "go"
  /\ Terminate(p) /\ UNCHANGED chld

Fork(p) ==
  /\ pc[p] = "fork" /\ hpc = "off"
  /\ \/ /\ kid' = [kid EXCEPT ![hand[p]] = First[kind]]
        /\ by' = [by EXCEPT ![hand[p]] = p]
        /\ pc' = [pc EXCEPT ![p] = "close"]
        /\ UNCHANGED <<netVars, kind, hand, hpc>>
     \/ Terminate(p)
  /\ UNCHANGED chld

\* Variant: the parent keeps the child's connection open.
ParentKeeps(p) ==
  /\ pc[p] = "close" /\ hpc = "off"
  /\ pc' = [pc EXCEPT ![p] = "accept"]
  /\ UNCHANGED <<netVars, kind, hand, by, kid, chld, hpc>>

ParentClose(p) ==
  /\ pc[p] = "close" /\ hpc = "off"
  /\ pc' = [pc EXCEPT ![p] = "accept"]
  /\ hand' = [hand EXCEPT ![p] = None]
  /\ UNCHANGED <<clientVars, inq, out, backlog, fdc, reset, kind, by, kid, chld, hpc>>
  /\ ConnsClose

-----------------------------------------------------------------------------
(* chld_handler *)

\* Only s_fork.c has a handler: elsewhere SIGCHLD does nothing.
Deliver ==
  /\ kind = "fork" /\ chld /\ hpc = "off" /\ Runs(None)
  /\ chld' = FALSE /\ hpc' = "wait"
  /\ UNCHANGED <<netVars, kind, pc, hand, by, kid>>

Zombies == {c \in Clients : kid[c] = "zombie"}

\* Variant: if instead of while.
WaitOnce ==
  /\ hpc = "wait" /\ hpc' = "off"
  /\ \/ \E c \in Zombies : kid' = [kid EXCEPT ![c] = "reaped"]
     \/ Zombies = {} /\ UNCHANGED kid
  /\ UNCHANGED <<netVars, kind, pc, hand, by, chld>>

WaitPid ==
  /\ hpc = "wait"
  /\ \/ /\ \E c \in Zombies : kid' = [kid EXCEPT ![c] = "reaped"]
        /\ UNCHANGED hpc
     \/ Zombies = {} /\ hpc' = "off" /\ UNCHANGED kid
  /\ UNCHANGED <<netVars, kind, pc, hand, by, chld>>

-----------------------------------------------------------------------------
(* The children and threads *)

Become(c, what) ==
  kid' = [kid EXCEPT ![c] = what] /\ UNCHANGED <<kind, pc, hand, by, chld, hpc>>

\* exit(0), exit(1), SIGPIPE and the return of a thread's function alike.
KidExit(c) == Terminate(c) /\ chld' = (kind = "fork" /\ Runs(None))

\* The child of s_fork.c lets go of the listening socket.  (getpeername() finds the
\* client: nothing has been written that a closed one could have reset.)
KidBegin(c) ==
  /\ kid[c] = "fresh"
  /\ Become(c, "read")
  /\ UNCHANGED <<clientVars, inq, out, fdc, reset>>
  /\ QueueCloses /\ ConnsClose

\* Variant: the newline is not recognised.
KidReadOn(c) ==
  /\ kid[c] = "read" /\ inq[c] # <<>>
  /\ inq' = [inq EXCEPT ![c] = Tail(@)]
  /\ Become(c, "read")
  /\ UNCHANGED <<clientVars, out, serverEnd, reset>>

\* handle_echo, handleEcho and serve.  (At the end of the input serve writes
\* back an unfinished line, to a client that has closed.)
KidRead(c) ==
  /\ kid[c] = "read"
  /\ \/ /\ inq[c] # <<>>
        /\ inq' = [inq EXCEPT ![c] = Tail(@)]
        /\ Become(c, IF Head(inq[c]) = "nl" THEN "write" ELSE "read")
        /\ UNCHANGED <<clientVars, out, serverEnd, reset>>
     \/ inq[c] = <<>> /\ Readable(c) /\ KidExit(c)

KidWrite(c) ==
  /\ kid[c] = "write"
  /\ \/ /\ c \notin reset
        /\ out' = [out EXCEPT ![c] = @ + 1]
        /\ Become(c, "read")
        /\ UNCHANGED <<clientVars, inq, serverEnd, reset>>
     \/ c \in reset /\ KidExit(c)

HandleEcho(c) == KidRead(c) \/ KidWrite(c)

\* The time server writes one message and reads nothing.
KidTell(c) ==
  \/ /\ kid[c] = "tell" /\ c \notin reset
     /\ out' = [out EXCEPT ![c] = @ + 1]
     /\ Become(c, "leave")
     /\ UNCHANGED <<clientVars, inq, serverEnd, reset>>
  \/ /\ kid[c] = "leave" \/ (kid[c] = "tell" /\ c \in reset)
     /\ KidExit(c)

\* The child of inetd puts the connection in the place of its input and becomes a
\* shell.  If there is none it goes on with the loop of its parent, from close().
KidExec(c) ==
  /\ kid[c] = "exec"
  /\ \/ /\ \/ Become(c, "shell")
           \/ /\ kid' = [kid EXCEPT ![c] = "server"]
              /\ hand' = [hand EXCEPT ![c] = c] /\ pc' = [pc EXCEPT ![c] = "close"]
              /\ UNCHANGED <<kind, by, chld, hpc>>
        /\ UNCHANGED <<clientVars, inq, out, backlog, fdc, reset>>
        /\ ConnsClose
     \/ KidExit(c)

\* A line may tell the shell to end.
KidShell(c) ==
  /\ kid[c] = "shell"
  /\ \/ /\ inq[c] # <<>>
        /\ inq' = [inq EXCEPT ![c] = Tail(@)]
        /\ Become(c, "shell")
        /\ UNCHANGED <<clientVars, out, serverEnd, reset>>
     \/ inq[c] = <<>> /\ Readable(c) /\ KidExit(c)
     \/ Len(inq[c]) < sent[c] /\ KidExit(c)

-----------------------------------------------------------------------------

\* inetd/client.c writes whole lines, and nobody writes to the time server.
ClientStep(c) ==
  /\ Client(c) \/ ((\E p \in Procs : Listens(p)) /\ Connect(c))
  /\ kind \in {"time", "inetd"} => mid' = {}
  /\ kind = "time" => sent' = sent
  /\ UNCHANGED serverVars

Server(p) == Accept(p) \/ Fork(p) \/ ParentClose(p)
Handler == Deliver \/ WaitPid
Kid(c) == KidBegin(c) \/ HandleEcho(c) \/ KidTell(c) \/ KidExec(c) \/ KidShell(c)

Next ==
  \/ Handler
  \/ \E p \in Procs : Server(p) \/ AcceptFails(p)
  \/ \E c \in Clients : Kid(c) \/ ClientStep(c)

Spec == Init /\ [][Next]_vars

\* Every process runs when it can.  Nothing at all is asked of the clients,
\* and no call has to fail.
FairSpec ==
  /\ Spec /\ WF_vars(Handler)
  /\ \A p \in Procs : WF_vars(Server(p))
  /\ \A c \in Clients : WF_vars(Kid(c))

-----------------------------------------------------------------------------
(* Properties *)

\* A process enters accept() without any connection left in its hand, and nobody
\* waits in a queue that no process can accept from.  Then a connection whose child
\* ended is really closed once its parent is back at accept(), so its client gets its
\* end of file (only a grandchild that has not come to dup2() may hold it a little
\* longer), and each other one is queued, in the hand of a process that is between
\* accept() and close(), or has a child or thread.  Always the types are right.
NothingLeftOpen ==
  /\ TypeOK
  /\ \A p \in Procs : pc[p] \in {"accept", "off"} => hand[p] = None
  /\ Queued # {} => \E p \in Procs : Listens(p)
  /\ \A c \in Clients :
       /\ Ended(c) =>
            \/ c \in over
            \/ pc[by[c]] = "close" /\ hand[by[c]] = c
            \/ \E d \in Clients : kid[d] = "exec" /\ by[d] = c
       /\ client[c] # "new" =>
            \/ c \in Queued \cup Active \cup over \/ Ended(c)
            \/ \E p \in Procs : pc[p] = "fork" /\ hand[p] = c

\* No child of s_fork.c stays a zombie, although several may end for one SIGCHLD.
\* (Those of the time server and of inetd stay until their parent ends.)
ZombiesReaped ==
  \A c \in Clients : kid[c] = "zombie" /\ kind = "fork" ~> kid[c] = "reaped"

\* Whatever the other clients do or leave half done (in the single-process
\* servers they can hold it up), every complete line is echoed, every client is
\* told the time, and a shell reads all that is sent to it; unless the connection is
\* closed because a process ended.  The end of the first process does not close those
\* in a queue its children hold: the time server's are closed when the last of these
\* has told the time; those of inetd wait as long as a shell lives, unanswered, unless
\* some child has become, or may still become, a server.
NobodyAccepts == \A p \in Procs : pc[p] = "off" /\ (p \in Active => kid[p] # "exec")
LinesAnswered ==
  \A c \in Clients :
    /\ \A n \in 1..MaxLines :
         sent[c] >= n /\ kind \in {"fork", "go", "rust"} ~>
           out[c] + got[c] >= n \/ c \in over
    /\ client[c] # "new" /\ kind = "time" ~> out[c] + got[c] = 1 \/ c \in over
    /\ inq[c] # <<>> /\ kind = "inetd" ~>
         \/ inq[c] = <<>> \/ c \in over \/ kid[c] = "server"
         \/ c \in Queued /\ NobodyAccepts
=============================================================================
