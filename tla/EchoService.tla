---------------------------- MODULE EchoService -----------------------------
(***************************************************************************)
(* What a single-process echo server promises (tcp/c/echo/s_poll.c and     *)
(* s_select.c): it serves up to Capacity clients at a time, turns a client *)
(* away only when all places are taken, answers each line once, and gives  *)
(* up a client only after that client has hung up.                         *)
(***************************************************************************)
EXTENDS Naturals, FiniteSets

CONSTANTS Clients, Capacity

VARIABLES
  phase,     (* of each client: away, waiting, served, over                *)
  gone,      (* clients that closed their end                              *)
  sent,      (* lines each client sent                                     *)
  answered   (* lines the server echoed to it                              *)

vars == <<phase, gone, sent, answered>>

Init ==
  /\ phase = [c \in Clients |-> "away"]
  /\ gone = {}
  /\ sent = [c \in Clients |-> 0]
  /\ answered = [c \in Clients |-> 0]

Serving == {c \in Clients : phase[c] = "served"}
Move(c, from, to) == phase[c] = from /\ phase' = [phase EXCEPT ![c] = to]

Arrive(c) == Move(c, "away", "waiting") /\ UNCHANGED <<gone, sent, answered>>

Send(c) ==
  /\ phase[c] \in {"waiting", "served"} /\ c \notin gone
  /\ sent' = [sent EXCEPT ![c] = @ + 1]
  /\ UNCHANGED <<phase, gone, answered>>

HangUp(c) ==
  /\ phase[c] # "away" /\ c \notin gone
  /\ gone' = gone \cup {c}
  /\ UNCHANGED <<phase, sent, answered>>

Admit(c) ==
  /\ Move(c, "waiting", "served") /\ Cardinality(Serving) < Capacity
  /\ UNCHANGED <<gone, sent, answered>>

Refuse(c) ==
  /\ Move(c, "waiting", "over") /\ Cardinality(Serving) = Capacity
  /\ UNCHANGED <<gone, sent, answered>>

Answer(c) ==
  /\ phase[c] = "served" /\ answered[c] < sent[c]
  /\ answered' = [answered EXCEPT ![c] = @ + 1]
  /\ UNCHANGED <<phase, gone, sent>>

Leave(c) ==
  /\ c \in gone /\ Move(c, "served", "over")
  /\ UNCHANGED <<gone, sent, answered>>

\* The server process ends and takes every connection with it.
Stop ==
  /\ phase' = [c \in Clients |->
                 IF phase[c] \in {"waiting", "served"} THEN "over" ELSE phase[c]]
  /\ UNCHANGED <<gone, sent, answered>>

Next ==
  \/ \E c \in Clients : \/ Arrive(c) \/ Send(c) \/ HangUp(c) \/ Admit(c)
                        \/ Refuse(c) \/ Answer(c) \/ Leave(c)
  \/ Stop

Spec == Init /\ [][Next]_vars

\* Nobody waits for ever: a waiting client is admitted or turned away, a line
\* is answered, a client that left is given up.
Attended(c) == phase[c] = "waiting" ~> phase[c] # "waiting"
LinesAnswered(c) ==
  \A n \in 1..2 :
    phase[c] = "served" /\ sent[c] >= n ~> answered[c] >= n \/ phase[c] = "over"
Forgotten(c) == phase[c] = "served" /\ c \in gone ~> phase[c] = "over"
=============================================================================
