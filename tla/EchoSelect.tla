----------------------------- MODULE EchoSelect -----------------------------
(***************************************************************************)
(* tcp/c/echo/s_select.c: the echo server of EchoPoll with select().  The  *)
(* set of descriptors is built anew in every round, and descriptor numbers *)
(* are used again, so that a bit of rset may come to mean another client.  *)
(*                                                                         *)
(* As in EchoPoll, a select() that times out or is interrupted changes     *)
(* nothing, lines are shorter than MAXLEN, and accept() succeeds.          *)
(***************************************************************************)
EXTENDS EchoNet

VARIABLES
  slot,   (* clients[i]                                                    *)
  rset,   (* the descriptors select() left in the set                      *)
  i,      (* the loop counter                                              *)
  pc

serverVars == <<slot, rset, i, pc>>
vars == <<netVars, serverVars>>

Slots == 0..(MAXCLIENTS - 1)
Used == {j \in Slots : slot[j] # NoFd}
Free == Slots \ Used
Conn(j) == fdc[slot[j]]

TypeOK ==
  /\ NetTypeOK
  /\ slot \in [Slots -> Fds \cup {NoFd}]
  /\ rset \subseteq Fds
  /\ i \in 0..MAXCLIENTS
  /\ pc \in {"select", "accept", "scan", "read_first", "read", "write",
             "exit0", "exit1", "sigpipe"}

Init ==
  /\ NetInit
  /\ slot = [j \in Slots |-> NoFd]
  /\ rset = {}
  /\ i = 0
  /\ pc = "select"

End(how) ==
  /\ pc' = how
  /\ ProcessEnds
  /\ UNCHANGED <<slot, rset, i>>

\* Variant: FD_ZERO is left out (a closed descriptor would give EBADF; here
\* the bit simply survives).
KeepOldSet(ready) == rset \cup ready

NewSet(ready) == ready

Select ==
  LET ready == {slot[j] : j \in {k \in Used : Readable(Conn(k))}}
  IN /\ pc = "select"
     /\ ready # {} \/ backlog # <<>>
     /\ rset' = NewSet(ready)
     /\ i' = 0
     /\ pc' = IF backlog # <<>> THEN "accept" ELSE "scan"
     /\ UNCHANGED <<netVars, slot>>

\* The round goes on with the other descriptors after an accept, also when the
\* client was turned away.
Accept ==
  LET c == Head(backlog)
  IN /\ pc = "accept"
     /\ backlog' = Tail(backlog)
     /\ IF Free = {}
          THEN over' = over \cup {c} /\ UNCHANGED <<fdc, slot>>
          ELSE /\ fdc' = [fdc EXCEPT ![FreeFd] = c]
               /\ slot' = [slot EXCEPT ![Min(Free)] = FreeFd]
               /\ UNCHANGED over
     /\ pc' = "scan"
     /\ UNCHANGED <<clientVars, inq, out, reset, rset, i>>

\* Slots from i on that are in use and ready.
Due == {j \in Used : j >= i /\ slot[j] \in rset}

Scan ==
  /\ pc = "scan"
  /\ \/ /\ Due = {}
        /\ pc' = "select" /\ UNCHANGED <<netVars, slot, rset, i>>
     \/ /\ Due # {} /\ ~PeerNameFails(Conn(Min(Due)))
        /\ i' = Min(Due) /\ pc' = "read_first"
        /\ UNCHANGED <<netVars, slot, rset>>
     \/ /\ Due # {} /\ PeerNameFails(Conn(Min(Due)))
        /\ End("exit1")

\* After handle_echo the scan goes on with the next slot.
Served == pc' = "scan" /\ i' = i + 1 /\ UNCHANGED rset

CloseSlot ==
  /\ FdClose(slot[i])
  /\ slot' = [slot EXCEPT ![i] = NoFd]
  /\ Served
  /\ UNCHANGED <<clientVars, inq, out, backlog, reset>>

KeepSlot == Served /\ UNCHANGED <<slot, clientVars, inq, serverEnd, reset>>

Read ==
  LET c == Conn(i)
  IN /\ pc \in {"read_first", "read"}
     /\ \/ /\ inq[c] # <<>>
           /\ inq' = [inq EXCEPT ![c] = Tail(@)]
           /\ pc' = IF Head(inq[c]) = "nl" THEN "write" ELSE "read"
           /\ UNCHANGED <<clientVars, out, serverEnd, reset, slot, rset, i>>
        \/ inq[c] = <<>> /\ Readable(c) /\ CloseSlot

\* Variant: the line is echoed twice.
WriteTwice ==
  LET c == Conn(i)
  IN /\ pc = "write" /\ c \notin reset
     /\ out' = [out EXCEPT ![c] = @ + 2] /\ KeepSlot

Write ==
  LET c == Conn(i)
  IN /\ pc = "write"
     /\ \/ c \notin reset /\ out' = [out EXCEPT ![c] = @ + 1] /\ KeepSlot
        \/ c \in reset /\ CloseSlot
        \/ c \in reset /\ End("sigpipe")

Running == pc \notin {"exit0", "exit1", "sigpipe"}
SigInt == Running /\ End("exit0")

Server == Select \/ Accept \/ Scan \/ Read \/ Write

Next ==
  \/ Server \/ SigInt
  \/ \E c \in Clients :
       (Client(c) \/ (Running /\ Connect(c))) /\ UNCHANGED serverVars

Spec == Init /\ [][Next]_vars

-----------------------------------------------------------------------------
(* Properties *)

\* The server only begins to read from a client that has something to say or
\* has left, although a client may have been accepted, or a descriptor closed,
\* since select() looked.  Always the types are right.
FirstReadReady == TypeOK /\ (pc = "read_first" => Readable(Conn(i)))

Service == INSTANCE EchoService WITH
  Capacity <- MAXCLIENTS, phase <- Phase, gone <- Gone, answered <- Answered
ImplementsService == Service!Spec
=============================================================================
