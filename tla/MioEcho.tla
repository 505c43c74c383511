------------------------------ MODULE MioEcho -------------------------------
(***************************************************************************)
(* tcp/rust/echo/src/bin/s_mio_poll.rs: an echo server on mio, that is on  *)
(* edge-triggered epoll.  A connection is either read (interest "R") or    *)
(* written (interest "W", one shot); an edge is reported once, so that a   *)
(* wakeup that is lost is lost for good.                                   *)
(*                                                                         *)
(* Data travel in pieces: "c" is some complete characters, "h1" and "h2"   *)
(* the two parts of a character that TCP delivered in two segments:        *)
(* read_to_string only keeps what is valid UTF-8.                          *)
(*                                                                         *)
(* accept() and epoll_ctl() succeed, and a batch has less than 1024 events.*)
(***************************************************************************)
EXTENDS Naturals, FiniteSetsExt, SequencesExt

CONSTANTS
  Clients,     (* each connects once, so that it stands for its token      *)
  SERVER,      (* the token of the listener                                *)
  MaxPieces,   (* bound: pieces a client sends                             *)
  SendBuffer   (* pieces that fit into the send buffer of a connection     *)

ASSUME MioAssumption ==
  SERVER \notin Clients /\ MaxPieces \in Nat /\ SendBuffer \in Nat \ {0}

VARIABLES
  client,    (* the client's end: new, up, closed, aborted (RST sent)      *)
  sent,      (* all the pieces the client has sent                         *)
  inq,       (* those the server has not read                              *)
  echoed,    (* all the pieces the server has written                      *)
  unread,    (* how many of those the client has not read                  *)
  reset,     (* clients whose kernel refused an echo                       *)
  backlog,   (* clients that wait for accept()                             *)
  interest,  (* what each socket is registered for; "off" after one shot   *)
  evq,       (* tokens in epoll's ready list                               *)
  sockets,   (* the keys of the map of that name                           *)
  message,   (* client.message                                             *)
  batch,     (* events of the current poll() not handled yet               *)
  stage

peerVars == <<client, sent, unread, reset>>
epollVars == <<interest, evq>>
mioVars == <<peerVars, inq, echoed, backlog, epollVars, sockets, message, batch, stage>>

Pieces == {"c", "h1", "h2"}
Tokens == Clients \cup {SERVER}

MioTypeOK ==
  /\ client \in [Clients -> {"new", "up", "closed", "aborted"}]
  /\ sent \in [Clients -> Seq(Pieces)] /\ inq \in [Clients -> Seq(Pieces)]
  /\ echoed \in [Clients -> Seq(Pieces)] /\ message \in [Clients -> Seq(Pieces)]
  /\ unread \in [Clients -> 0..SendBuffer]
  /\ reset \subseteq Clients /\ backlog \subseteq Clients /\ sockets \subseteq Clients
  /\ interest \in [Clients -> {"none", "R", "W", "off"}]
  /\ evq \subseteq Tokens
  /\ batch \subseteq [token : Tokens, ready : {"R", "W"}]
  /\ stage \in {"poll", "handle", "accept", "panic", "unreachable"}

MioInit ==
  /\ client = [c \in Clients |-> "new"]
  /\ sent = [c \in Clients |-> <<>>]
  /\ inq = sent /\ echoed = sent /\ message = sent
  /\ unread = [c \in Clients |-> 0]
  /\ interest = [c \in Clients |-> "none"]
  /\ reset = {} /\ backlog = {} /\ evq = {} /\ sockets = {} /\ batch = {}
  /\ stage = "poll"

\* Valid UTF-8: no character is cut.
Valid(s) ==
  \A k \in DOMAIN s :
    /\ s[k] = "h1" => k < Len(s) /\ s[k + 1] = "h2"
    /\ s[k] = "h2" => k > 1 /\ s[k - 1] = "h1"

Running == stage \notin {"panic", "unreachable"}

-----------------------------------------------------------------------------
(* The kernel: readiness, and when an edge enters the ready list *)

Room(c) == SendBuffer - unread[c]
Readable(c) == inq[c] # <<>> \/ client[c] \in {"closed", "aborted"}
Writable(c) == Room(c) > 0 \/ c \in reset \/ client[c] = "aborted"

Ready(c, what) == IF what = "R" THEN Readable(c) ELSE what = "W" /\ Writable(c)

\* Something happened that a socket with this interest is told of.
Edge(c, what) == evq' = IF interest[c] = what THEN evq \cup {c} ELSE evq

\* epoll_ctl ADD and MOD look at the socket as it is now.
Register(c, what) ==
  /\ interest' = [interest EXCEPT ![c] = what]
  /\ evq' = IF Ready(c, what) THEN evq \cup {c} ELSE evq

-----------------------------------------------------------------------------
(* The clients (c_std.rs, and anything else that speaks TCP) *)

serverVars == <<interest, sockets, message, batch, stage, echoed>>

MioConnect(c) ==
  /\ client[c] = "new" /\ Running
  /\ client' = [client EXCEPT ![c] = "up"]
  /\ backlog' = backlog \cup {c}
  /\ evq' = evq \cup {SERVER}
  /\ UNCHANGED <<sent, inq, unread, reset, serverVars>>

MioSend(c) ==
  \E piece \in Pieces :
    /\ client[c] = "up" /\ Len(sent[c]) < MaxPieces
    /\ (piece = "h2") <=> (sent[c] # <<>> /\ Last(sent[c]) = "h1")
    /\ sent' = [sent EXCEPT ![c] = Append(@, piece)]
    /\ inq' = [inq EXCEPT ![c] = Append(@, piece)]
    /\ Edge(c, "R")
    /\ UNCHANGED <<client, unread, reset, backlog, serverVars>>

ReadEcho(c) ==
  /\ client[c] = "up" /\ unread[c] > 0
  /\ unread' = [unread EXCEPT ![c] = @ - 1]
  /\ Edge(c, "W")
  /\ UNCHANGED <<client, sent, reset, inq, backlog, serverVars>>

\* close() sends FIN, or RST when echoes have arrived and are not read.
MioClose(c) ==
  /\ client[c] = "up"
  /\ \E how \in {"closed"} \cup (IF unread[c] > 0 THEN {"aborted"} ELSE {}) :
       client' = [client EXCEPT ![c] = how]
  /\ evq' = IF interest[c] \in {"R", "W"} THEN evq \cup {c} ELSE evq
  /\ UNCHANGED <<sent, unread, reset, inq, backlog, serverVars>>

\* An echo that meets a closed client makes its kernel answer with RST.
NetReset(c) ==
  /\ client[c] = "closed" /\ unread[c] > 0 /\ c \notin reset
  /\ reset' = reset \cup {c}
  /\ evq' = IF interest[c] \in {"R", "W"} THEN evq \cup {c} ELSE evq
  /\ UNCHANGED <<client, sent, unread, inq, backlog, serverVars>>

MioClient(c) == MioConnect(c) \/ MioSend(c) \/ ReadEcho(c) \/ MioClose(c) \/ NetReset(c)

-----------------------------------------------------------------------------
(* The server *)

\* What epoll_wait reports of the ready list; SERVER is ready while a client
\* waits.  A reported one-shot registration is switched off.
Reports ==
  {[token |-> c, ready |-> interest[c]] :
     c \in {d \in evq \ {SERVER} : Ready(d, interest[d])}}
  \cup (IF SERVER \in evq /\ backlog # {}
          THEN {[token |-> SERVER, ready |-> "R"]} ELSE {})

Poll ==
  /\ stage = "poll" /\ Reports # {}
  /\ batch' = Reports
  /\ evq' = {}
  /\ interest' = [c \in Clients |->
       IF [token |-> c, ready |-> "W"] \in Reports THEN "off" ELSE interest[c]]
  /\ stage' = "handle"
  /\ UNCHANGED <<peerVars, inq, echoed, backlog, sockets, message>>

\* Handled one after the other, in the order of the ready list.
Done(event) ==
  /\ batch' = batch \ {event}
  /\ stage' = IF batch = {event} THEN "poll" ELSE "handle"

AcceptEvent ==
  LET event == [token |-> SERVER, ready |-> "R"]
  IN /\ stage = "handle" /\ event \in batch
     /\ batch' = batch \ {event}
     /\ stage' = "accept"
     /\ UNCHANGED <<peerVars, inq, echoed, backlog, epollVars, sockets, message>>

\* Variant: one accept() per event.
AcceptOne ==
  /\ stage = "accept"
  /\ \E c \in backlog :
       /\ backlog' = backlog \ {c}
       /\ sockets' = sockets \cup {c}
       /\ Register(c, "R")
  /\ stage' = IF batch = {} THEN "poll" ELSE "handle"
  /\ UNCHANGED <<peerVars, inq, echoed, batch, message>>

\* accept() until it would block.
Accept ==
  /\ stage = "accept"
  /\ \/ \E c \in backlog :
          /\ backlog' = backlog \ {c}
          /\ sockets' = sockets \cup {c}
          /\ Register(c, "R")
          /\ UNCHANGED stage
     \/ /\ backlog = {}
        /\ stage' = IF batch = {} THEN "poll" ELSE "handle"
        /\ UNCHANGED <<backlog, epollVars, sockets>>
  /\ UNCHANGED <<peerVars, inq, echoed, batch, message>>

\* Variant: the entry goes, but something else keeps the socket open.
RemoveEntry(c) == sockets' = sockets \ {c} /\ UNCHANGED epollVars

\* Dropping the Client closes its socket, and epoll forgets it.
Drop(c) ==
  /\ sockets' = sockets \ {c}
  /\ interest' = [interest EXCEPT ![c] = "none"]
  /\ evq' = evq \ {c}

Crash(how) ==
  /\ stage' = how
  /\ batch' = {} /\ sockets' = {} /\ backlog' = {} /\ evq' = {}
  /\ interest' = [c \in Clients |-> "none"]
  /\ UNCHANGED <<peerVars, inq, echoed, message>>

\* read_to_string: data and "would block" (line 76), the end of the stream
\* (line 65; what came with it goes with the Client), or another error.
MioRead(c) ==
  LET event == [token |-> c, ready |-> "R"]
  IN /\ stage = "handle" /\ event \in batch
     /\ \/ c \notin sockets /\ Crash("unreachable")
        \/ /\ c \in sockets
           /\ client[c] = "aborted" \/ (client[c] = "closed" /\ ~Valid(inq[c]))
           /\ Crash("panic")
        \/ /\ c \in sockets /\ client[c] = "closed" /\ Valid(inq[c])
           /\ Drop(c) /\ Done(event)
           /\ inq' = [inq EXCEPT ![c] = <<>>]
           /\ UNCHANGED <<peerVars, echoed, backlog, message>>
        \/ /\ c \in sockets /\ client[c] = "up"
           /\ message' = IF Valid(inq[c]) THEN [message EXCEPT ![c] = @ \o inq[c]] ELSE message
           /\ inq' = [inq EXCEPT ![c] = <<>>]
           /\ Register(c, "W") /\ Done(event)
           /\ UNCHANGED <<peerVars, echoed, backlog, sockets>>

Broken(c) == c \in reset \/ client[c] = "aborted"

\* Variant: the last place of the send buffer is not used.
FitsBelow(c) == message[c] = <<>> \/ (~Broken(c) /\ Len(message[c]) < Room(c))

\* write_all succeeds.  An empty message is not written at all.
Fits(c) == message[c] = <<>> \/ (~Broken(c) /\ Len(message[c]) <= Room(c))

\* Variant: the message is not cleared.
KeepMessage(c) == UNCHANGED message

ClearMessage(c) == message' = [message EXCEPT ![c] = <<>>]

\* What fits is written also when write_all then fails.
MioWrite(c) ==
  LET event == [token |-> c, ready |-> "W"]
      k == IF Broken(c) THEN 0 ELSE Min({Len(message[c]), Room(c)})
  IN /\ stage = "handle" /\ event \in batch
     /\ \/ c \notin sockets /\ Crash("unreachable")
        \/ /\ c \in sockets
           /\ echoed' = [echoed EXCEPT ![c] = @ \o SubSeq(message[c], 1, k)]
           /\ unread' = [unread EXCEPT ![c] = @ + k]
           /\ IF Fits(c)
                THEN ClearMessage(c) /\ Register(c, "R") /\ UNCHANGED sockets
                ELSE Drop(c) /\ UNCHANGED message
           /\ Done(event)
           /\ UNCHANGED <<client, sent, reset, inq, backlog>>

MioServer == Poll \/ AcceptEvent \/ Accept \/ \E c \in Clients : MioRead(c) \/ MioWrite(c)

MioNext == MioServer \/ \E c \in Clients : MioClient(c)

MioSpec == MioInit /\ [][MioNext]_mioVars

\* The server is scheduled, a client that stays reads what it gets, and an echo
\* to a closed client is refused in the end.
MioFairSpec ==
  /\ MioSpec /\ WF_mioVars(MioServer)
  /\ \A c \in Clients : WF_mioVars(ReadEcho(c)) /\ WF_mioVars(NetReset(c))

-----------------------------------------------------------------------------
(* Properties *)

\* The three unreachable!() of the code (lines 80, 116, 119): no event is for a
\* client that is gone, although a batch is handled while clients are removed.
NeverUnreachable == stage # "unreachable"

TextOnly(c) == \A k \in DOMAIN sent[c] : sent[c][k] = "c"

\* While a connection lasts, what was sent is what was echoed, then what is in
\* message, then what is unread: nothing lost, doubled or reordered, as long as
\* no character was cut by TCP; of cut characters never a part is echoed.
\* Always the types are right.
EchoFaithful ==
  /\ MioTypeOK
  /\ \A c \in sockets :
       /\ TextOnly(c) => sent[c] = echoed[c] \o message[c] \o inq[c]
       /\ Valid(echoed[c])

\* A client loses its connection only if it hung up, if it did not read the
\* echoes it got before, or in a panic.
ClosedForAReason ==
  [][\A c \in sockets \ sockets' :
       client[c] # "up" \/ Len(message[c]) > Room(c) \/ stage' = "panic"]_mioVars

\* A client is accepted, gets each piece back and is forgotten when it left.
EveryoneEchoed ==
  \A c \in Clients :
    /\ c \in backlog ~> c \notin backlog
    /\ \A n \in 1..MaxPieces :
         c \in sockets /\ Len(sent[c]) >= n ~>
           Len(echoed[c]) >= n \/ c \notin sockets \/ ~TextOnly(c)
    /\ c \in sockets /\ client[c] # "up" ~> c \notin sockets
=============================================================================
