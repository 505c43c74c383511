------------------------------ MODULE EchoPoll ------------------------------
(***************************************************************************)
(* tcp/c/echo/s_poll.c: one process, poll(), an array of MAXCLIENTS pollfd *)
(* of which entry 0 is the listening socket, blocking reads of one line.   *)
(*                                                                         *)
(* Left out because they change nothing: a poll() that times out or is     *)
(* interrupted (the loop starts over).  Lines are shorter than MAXLEN.     *)
(* accept() is called only with a connection waiting and succeeds.         *)
(***************************************************************************)
EXTENDS EchoNet

VARIABLES
  slot,     (* clients[i].fd for i >= 1                                    *)
  revents,  (* the i >= 1 with POLLIN or POLLERR in clients[i].revents     *)
  count,    (* what is left of poll()'s result                             *)
  i,        (* the loop counter                                            *)
  pc

serverVars == <<slot, revents, count, i, pc>>
vars == <<netVars, serverVars>>

Slots == 1..(MAXCLIENTS - 1)
Used == {j \in Slots : slot[j] # NoFd}
Conn(j) == fdc[slot[j]]

TypeOK ==
  /\ NetTypeOK
  /\ slot \in [Slots -> Fds \cup {NoFd}]
  /\ revents \subseteq Slots
  /\ count \in 0..MAXCLIENTS
  /\ i \in 1..MAXCLIENTS
  /\ pc \in {"poll", "accept", "scan", "read_first", "read", "write",
             "exit0", "exit1", "sigpipe"}

\* revents is on the stack and not initialised.
Init ==
  /\ NetInit
  /\ slot = [j \in Slots |-> NoFd]
  /\ revents \in SUBSET Slots
  /\ count = 0 /\ i = 1
  /\ pc = "poll"

\* exit(1), SIGPIPE or SIGINT.
End(how) ==
  /\ pc' = how
  /\ ProcessEnds
  /\ UNCHANGED <<slot, revents, count, i>>

\* Variant: the last entry in use is not passed to poll().
LastUsedShort == Max({0} \cup {j - 1 : j \in Used})

LastUsed == Max({0} \cup Used)

\* poll() looks at the entries up to the last one in use; the revents of the
\* entries behind it stay as they are.
Poll ==
  LET ready == {j \in Used : j <= LastUsed /\ Readable(Conn(j))}
      pending == IF backlog # <<>> THEN 1 ELSE 0
  IN /\ pc = "poll"
     /\ Cardinality(ready) + pending > 0
     /\ count' = Cardinality(ready) + pending
     /\ revents' = ready \cup {j \in revents : j > LastUsed}
     /\ i' = 1
     /\ pc' = IF pending = 1 THEN "accept" ELSE "scan"
     /\ UNCHANGED <<netVars, slot>>

\* Variant: no count at all.
NoCountDown == UNCHANGED count /\ pc' = "scan"

\* One ready descriptor is dealt with; after the last one poll() again.
CountDown == count' = count - 1 /\ pc' = IF count = 1 THEN "poll" ELSE "scan"

\* Variant: the test for a full array comes before the test for a free slot.
FreeButLast == (Slots \ Used) \ {MAXCLIENTS - 1}

Free == Slots \ Used

\* getpeername() cannot fail here: nothing was written to c, so no RST came.
Accept ==
  LET c == Head(backlog)
  IN /\ pc = "accept"
     /\ backlog' = Tail(backlog)
     /\ IF Free = {}
          THEN over' = over \cup {c} /\ UNCHANGED <<fdc, slot>>
          ELSE /\ fdc' = [fdc EXCEPT ![FreeFd] = c]
               /\ slot' = [slot EXCEPT ![Min(Free)] = FreeFd]
               /\ UNCHANGED over
     /\ CountDown
     /\ UNCHANGED <<clientVars, inq, out, reset, revents, i>>

\* The next slot from i on that is in use and has revents.
Scan ==
  LET due == {j \in Used \cap revents : j >= i}
  IN /\ pc = "scan"
     /\ \/ /\ due = {}
           /\ pc' = "poll" /\ UNCHANGED <<netVars, slot, revents, count, i>>
        \/ /\ due # {} /\ ~PeerNameFails(Conn(Min(due)))
           /\ i' = Min(due) /\ pc' = "read_first"
           /\ UNCHANGED <<netVars, slot, revents, count>>
        \/ /\ due # {} /\ PeerNameFails(Conn(Min(due)))
           /\ End("exit1")

\* After handle_echo: one ready descriptor less to look for.
Served == CountDown /\ i' = i + 1 /\ UNCHANGED revents

CloseSlot ==
  /\ FdClose(slot[i])
  /\ slot' = [slot EXCEPT ![i] = NoFd]
  /\ Served
  /\ UNCHANGED <<clientVars, inq, out, backlog, reset>>

KeepSlot == Served /\ UNCHANGED <<slot, clientVars, inq, serverEnd, reset>>

\* handle_echo reads byte by byte and waits for the newline.
Read ==
  LET c == Conn(i)
  IN /\ pc \in {"read_first", "read"}
     /\ \/ /\ inq[c] # <<>>
           /\ inq' = [inq EXCEPT ![c] = Tail(@)]
           /\ pc' = IF Head(inq[c]) = "nl" THEN "write" ELSE "read"
           /\ UNCHANGED <<clientVars, out, serverEnd, reset, slot, revents, count, i>>
        \/ inq[c] = <<>> /\ Readable(c) /\ CloseSlot

\* A write after RST: an error, or SIGPIPE, which nobody handles.
Write ==
  LET c == Conn(i)
  IN /\ pc = "write"
     /\ \/ c \notin reset /\ out' = [out EXCEPT ![c] = @ + 1] /\ KeepSlot
        \/ c \in reset /\ CloseSlot
        \/ c \in reset /\ End("sigpipe")

Running == pc \notin {"exit0", "exit1", "sigpipe"}
SigInt == Running /\ End("exit0")

Server == Poll \/ Accept \/ Scan \/ Read \/ Write

Next ==
  \/ Server \/ SigInt
  \/ \E c \in Clients :
       (Client(c) \/ (Running /\ Connect(c))) /\ UNCHANGED serverVars

Spec == Init /\ [][Next]_vars

\* The server runs whenever it can; the rest of a line that was begun arrives;
\* nobody has to connect, to begin a line or to quit.
FairSpec ==
  /\ Spec /\ WF_vars(Server)
  /\ \A c \in Clients : WF_vars(c \in mid /\ SendNewline(c) /\ UNCHANGED serverVars)

-----------------------------------------------------------------------------
(* Properties *)

\* The server only begins to read from a client that has something to say or
\* has left: it never sleeps on a silent client's socket, although revents of
\* slots behind the last one used are stale.  And between two rounds the
\* descriptors open are those in the array, each in one slot: nothing leaks and
\* nothing is closed twice.  Always the types are right.
SlotsReady ==
  /\ TypeOK
  /\ pc = "read_first" => Readable(Conn(i))
  /\ pc = "poll" =>
       /\ {slot[j] : j \in Used} = {fd \in Fds : fdc[fd] # None}
       /\ \A j, k \in Used : slot[j] = slot[k] => j = k

\* Only SIGINT stops the server; a client's fault costs that client its
\* connection: "closing this connection" (s_poll.c:150).
OnlySigIntStops == pc \notin {"exit1", "sigpipe"}

Service == INSTANCE EchoService WITH
  Capacity <- MAXCLIENTS - 1, phase <- Phase, gone <- Gone, answered <- Answered
ImplementsService == Service!Spec

\* A client in the queue is taken out, a line is answered, a client that hung
\* up is given up, in spite of the others.
EveryoneAttended ==
  \A c \in Clients :
    Service!Attended(c) /\ Service!LinesAnswered(c) /\ Service!Forgotten(c)
=============================================================================
