------------------------------ MODULE EchoNet -------------------------------
(***************************************************************************)
(* What the TCP echo servers of tcp/c/echo share: the clients (c_select.c) *)
(* and the part of the kernel between client and server.  EchoPoll and     *)
(* EchoSelect extend this module with their own loop.                      *)
(*                                                                         *)
(* A line travels as an optional "txt" (some characters, no newline) and a *)
(* "nl": TCP may deliver the two apart.                                    *)
(***************************************************************************)
EXTENDS Naturals, Sequences, FiniteSets, FiniteSetsExt, Functions, SequencesExt

CONSTANTS
  Clients,     (* each connects once                                       *)
  None,        (* no client                                                *)
  LISTEN,      (* second argument of listen()                              *)
  MAXCLIENTS,  (* the server's constant of that name                       *)
  MaxLines,    (* bound: lines one client sends                            *)
  Polite       (* TRUE: clients close only when all their lines came back  *)

ASSUME NetAssumption ==
  /\ IsFiniteSet(Clients) /\ None \notin Clients
  /\ LISTEN \in Nat /\ MAXCLIENTS \in Nat \ {0} /\ MaxLines \in Nat \ {0}
  /\ Polite \in BOOLEAN

\* Descriptors accept() can return: the kernel gives out the lowest free one.
Fds == 1..(MAXCLIENTS + 1)
NoFd == 0

VARIABLES
  client,   (* the client's end of each connection                         *)
  mid,      (* clients that wrote part of a line                           *)
  inq,      (* sent by the client, not read by the server yet              *)
  sent,     (* lines each client has sent                                  *)
  out,      (* echoes the server wrote and the client has not read         *)
  got,      (* echoes the client has read                                  *)
  backlog,  (* connections established and not accepted                    *)
  fdc,      (* the server's descriptor table                               *)
  over,     (* connections whose server end is closed                      *)
  reset     (* connections whose RST has reached the server                *)

clientVars == <<client, mid, sent, got>>
serverEnd == <<backlog, fdc, over>>
netVars == <<client, mid, inq, sent, out, got, backlog, fdc, over, reset>>

NetTypeOK ==
  /\ client \in [Clients -> {"new", "up", "closed"}]
  /\ mid \subseteq Clients /\ over \subseteq Clients /\ reset \subseteq Clients
  /\ inq \in [Clients -> Seq({"txt", "nl"})]
  /\ sent \in [Clients -> 0..MaxLines]
  /\ out \in [Clients -> 0..MaxLines] /\ got \in [Clients -> 0..MaxLines]
  /\ backlog \in Seq(Clients)
  /\ fdc \in [Fds -> Clients \cup {None}]

NetInit ==
  /\ client = [c \in Clients |-> "new"]
  /\ inq = [c \in Clients |-> <<>>]
  /\ sent = [c \in Clients |-> 0]
  /\ out = sent /\ got = sent
  /\ mid = {} /\ over = {} /\ reset = {}
  /\ backlog = <<>>
  /\ fdc = [fd \in Fds |-> None]

Held == {c \in Clients : \E fd \in Fds : fdc[fd] = c}
Queued == ToSet(backlog)

-----------------------------------------------------------------------------
(* The clients *)

\* The handshake needs room in the accept queue, not the server's attention.
Connect(c) ==
  /\ client[c] = "new" /\ Len(backlog) <= LISTEN
  /\ client' = [client EXCEPT ![c] = "up"]
  /\ backlog' = Append(backlog, c)
  /\ UNCHANGED <<mid, inq, sent, out, got, fdc, over, reset>>

CanSend(c) == client[c] = "up" /\ c \notin over /\ sent[c] < MaxLines

SendText(c) ==
  /\ CanSend(c) /\ c \notin mid
  /\ mid' = mid \cup {c}
  /\ inq' = [inq EXCEPT ![c] = Append(@, "txt")]
  /\ UNCHANGED <<client, sent, out, got, backlog, fdc, over, reset>>

SendNewline(c) ==
  /\ CanSend(c)
  /\ mid' = mid \ {c}
  /\ inq' = [inq EXCEPT ![c] = Append(@, "nl")]
  /\ sent' = [sent EXCEPT ![c] = @ + 1]
  /\ UNCHANGED <<client, out, got, backlog, fdc, over, reset>>

ReadEcho(c) ==
  /\ client[c] = "up" /\ out[c] > 0
  /\ out' = [out EXCEPT ![c] = @ - 1]
  /\ got' = [got EXCEPT ![c] = @ + 1]
  /\ UNCHANGED <<client, mid, inq, sent, backlog, fdc, over, reset>>

\* CTRL-D, or the server's end is closed.  An impolite client goes any time.
Quit(c) ==
  /\ client[c] = "up"
  /\ Polite => c \in over \/ (c \notin mid /\ got[c] = sent[c])
  /\ client' = [client EXCEPT ![c] = "closed"]
  /\ UNCHANGED <<mid, inq, sent, out, got, backlog, fdc, over, reset>>

\* Echoes that meet a closed client make its kernel answer with RST.
NetReset(c) ==
  /\ client[c] = "closed" /\ out[c] > 0 /\ c \notin reset \cup over
  /\ reset' = reset \cup {c}
  /\ UNCHANGED <<client, mid, inq, sent, out, got, backlog, fdc, over>>

Client(c) ==
  \/ SendText(c) \/ SendNewline(c) \/ ReadEcho(c) \/ Quit(c)
  \/ NetReset(c)

-----------------------------------------------------------------------------
(* System calls of the server on a connection *)

\* A read on c does not block.
Readable(c) == inq[c] # <<>> \/ client[c] = "closed" \/ c \in reset

\* getpeername() wants a connected socket.
PeerNameFails(c) == c \in reset

FreeFd == Min({fd \in Fds : fdc[fd] = None})

FdClose(fd) ==
  /\ over' = over \cup {fdc[fd]}
  /\ fdc' = [fdc EXCEPT ![fd] = None]

\* The process ends: every descriptor and the listening socket are closed.
ProcessEnds ==
  /\ over' = over \cup Held \cup Queued
  /\ fdc' = [fd \in Fds |-> None]
  /\ backlog' = <<>>
  /\ UNCHANGED <<clientVars, inq, out, reset>>

-----------------------------------------------------------------------------
(* What the service looks like from outside (for EchoService) *)

Phase == [c \in Clients |->
            CASE c \in Held  -> "served"
              [] c \in Queued -> "waiting"
              [] c \in over   -> "over"
              [] OTHER        -> "away"]

Gone == {c \in Clients : client[c] = "closed"}
Answered == [c \in Clients |-> out[c] + got[c]]
=============================================================================
