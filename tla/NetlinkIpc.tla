----------------------------- MODULE NetlinkIpc -----------------------------
(***************************************************************************)
(* netlink_ipc: clients that send a request to the server's netlink port   *)
(* and wait for its reply, without a time-out.  The server replies to one  *)
(* request after the other and ends with the first reply that it cannot    *)
(* send.  A port exists for as long as its process; what is queued for it  *)
(* goes with it.                                                           *)
(*                                                                         *)
(* The user starts server and clients, and may stop them at any time.      *)
(***************************************************************************)
EXTENDS Naturals, SequencesExt

CONSTANTS
  Callers,     (* the clients, by their process ids                        *)
  MaxServers   (* bound: how often the server is started                   *)

VARIABLES
  server,      (* down, wait (in recvfrom), or busy with a request         *)
  serving,     (* the clients whose request the server holds: one or none  *)
  inbox,       (* requests queued for the server                           *)
  caller,      (* where each client is                                     *)
  replied,     (* clients for which a reply is queued                      *)
  servers,     (* how often the server was started                         *)
  failed       (* the server has ended because it could not reply          *)

nvars == <<server, serving, inbox, caller, replied, servers, failed>>

TypeOK ==
  /\ server \in {"down", "wait", "busy"} /\ serving \subseteq Callers
  /\ inbox \in Seq(Callers) /\ replied \subseteq Callers
  /\ caller \in [Callers -> {"start", "asked", "done", "refused", "gone"}]
  /\ servers \in 0..MaxServers /\ failed \in BOOLEAN

NInit ==
  /\ server = "down" /\ serving = {} /\ inbox = <<>>
  /\ caller = [c \in Callers |-> "start"] /\ replied = {}
  /\ servers = 0 /\ failed = FALSE

\* A client's port is there from bind() to its end.
Alive(c) == caller[c] \in {"start", "asked"}

-----------------------------------------------------------------------------
(* The server *)

\* bind() fails while there is another server.
StartServer ==
  /\ server = "down" /\ servers < MaxServers
  /\ server' = "wait" /\ servers' = servers + 1
  /\ UNCHANGED <<serving, inbox, caller, replied, failed>>

Receive ==
  /\ server = "wait" /\ inbox # <<>>
  /\ server' = "busy" /\ serving' = {Head(inbox)} /\ inbox' = Tail(inbox)
  /\ UNCHANGED <<caller, replied, servers, failed>>

ServerGone == server' = "down" /\ serving' = {} /\ inbox' = <<>>

Reply ==
  /\ server = "busy"
  /\ \/ /\ \A c \in serving : Alive(c)
        /\ replied' = replied \cup serving
        /\ server' = "wait" /\ serving' = {} /\ UNCHANGED <<inbox, failed>>
     \/ /\ \E c \in serving : ~Alive(c)
        /\ ServerGone /\ failed' = TRUE /\ UNCHANGED replied
  /\ UNCHANGED <<caller, servers>>

StopServer ==
  /\ server # "down" /\ ServerGone
  /\ UNCHANGED <<caller, replied, servers, failed>>

-----------------------------------------------------------------------------
(* The clients *)

Ask(c) ==
  /\ caller[c] = "start"
  /\ IF server = "down"
       THEN caller' = [caller EXCEPT ![c] = "refused"] /\ UNCHANGED inbox
       ELSE caller' = [caller EXCEPT ![c] = "asked"] /\ inbox' = Append(inbox, c)
  /\ UNCHANGED <<server, serving, replied, servers, failed>>

TakeReply(c) ==
  /\ caller[c] = "asked" /\ c \in replied
  /\ caller' = [caller EXCEPT ![c] = "done"] /\ replied' = replied \ {c}
  /\ UNCHANGED <<server, serving, inbox, servers, failed>>

StopClient(c) ==
  /\ Alive(c)
  /\ caller' = [caller EXCEPT ![c] = "gone"] /\ replied' = replied \ {c}
  /\ UNCHANGED <<server, serving, inbox, servers, failed>>

-----------------------------------------------------------------------------
Server == Receive \/ Reply

NNext ==
  \/ StartServer \/ Server \/ StopServer
  \/ \E c \in Callers : Ask(c) \/ TakeReply(c) \/ StopClient(c)

\* Processes that can go on do; nobody has to start or to stop one.
NFairness == WF_nvars(Server) /\ WF_nvars(\E c \in Callers : TakeReply(c))

NSpec == NInit /\ [][NNext]_nvars /\ NFairness

-----------------------------------------------------------------------------
(* Properties *)

\* The server ends by itself only after a client was stopped; the request of a
\* client, or its reply, is in one place only, and a reply never outlives its
\* client.  Always the types are right.
RequestsKept ==
  /\ TypeOK
  /\ failed => \E c \in Callers : caller[c] = "gone"
  /\ \A c \in replied : caller[c] = "asked"
  /\ \A i, j \in DOMAIN inbox : inbox[i] = inbox[j] => i = j
  /\ serving \cap ToSet(inbox) = {} /\ replied \cap (serving \cup ToSet(inbox)) = {}

Pending(c) == c \in serving \cup ToSet(inbox)

\* Whoever asked gets a reply unless the server ends first; the next server knows
\* nothing of the request, and the client waits for ever.
RepliesCome ==
  /\ []RequestsKept
  /\ \A c \in Callers : Pending(c) ~> caller[c] # "asked" \/ server = "down"
=============================================================================
