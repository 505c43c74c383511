----------------------------- MODULE DrmSystem ------------------------------
(***************************************************************************)
(* The DRM server together with its clients: a composition of DrmServer    *)
(* and DrmClient over the sockets and the device of DrmProto.              *)
(***************************************************************************)
EXTENDS DrmServer, DrmClient

vars == <<protoVars, serverVars, clientVars>>

TypeOK == ProtoTypeOK /\ ServerTypeOK /\ ClientTypeOK

Init == ProtoInit /\ ServerInit /\ ClientInit

ServerStep == (Server \/ SigInt \/ Restart) /\ UNCHANGED clientVars

ClientStep(c) ==
  /\ \/ Connect(c, Listening) \/ Client(c) \/ Timeout(c) \/ Key(c) \/ Kill(c)
  /\ UNCHANGED serverVars

Next == ServerStep \/ \E c \in Clients : ClientStep(c)

Spec == Init /\ [][Next]_vars

\* The processes run when they can, and the user presses the key in the end.
FairSpec ==
  /\ Spec
  /\ WF_vars(Server /\ UNCHANGED clientVars)
  /\ \A c \in Clients : WF_vars((Client(c) \/ Key(c)) /\ UNCHANGED serverVars)

-----------------------------------------------------------------------------
(* Properties *)

\* The server, which has a single thread, only reads from a client that sent
\* something or closed: rc may count an entry too many, revents decides.  Always
\* the types are right.
ReadNeverBlocks == TypeOK /\ (pc = "read" => Readable(slot[i]))

\* Requests after CMD_AUTH work on a drm_clients entry this very connection
\* has filled, not on what an earlier client of the slot, or the stack, left;
\* CMD_CRTC_STOP finds a saved CRTC (line 293 follows the pointer unchecked).
\* Between two rounds each connection the server has not closed is in the backlog
\* or in exactly one slot.
InfoIsOwn ==
  /\ pc \in {"crtc_save", "crtc_set", "plane_set", "crtc_stop", "plane_stop"} =>
       info[i].owner = slot[i]
  /\ pc = "crtc_stop" => info[i].saved \notin {"null", "junk"}
  /\ pc \in {"check", "poll"} =>
       /\ {slot[j] : j \in Used} =
            {c \in Clients : link[c] # "new" /\ c \notin dropped \cup ToSet(backlog)}
       /\ \A j, k \in Used : slot[j] = slot[k] => j = k

\* "restore original" (drm_server.c:300): when all clients ended regularly the
\* screen is as it was before.  A second client of the CRTC would save the first
\* one's framebuffer, which is gone when it is restored.  And as long as no client
\* is late or killed the server lives until SIGINT and then always removes its
\* name, so that it can be started again.
LeftAsFound ==
  /\ Cardinality(CrtcClients) <= 1 /\ (\A c \in Clients : at[c] = "done" /\ result[c] = "ok") =>
       crtc = "console" /\ plane = "off"
  /\ faults = 0 => pc # "sigpipe" /\ (pc = "bind" => ~path)

\* From whatever label a client falls through to the end of main, everything it
\* releases on the way was acquired, and at the end nothing is left.
CleanupExact ==
  \A c \in Clients :
    /\ \A n \in DOMAIN Labels : at[c] = Labels[n].label =>
         \A k \in n..Len(Labels) : Labels[k].res \in held[c]
    /\ at[c] = "done" => held[c] = {} /\ c \notin fbs /\ link[c] # "up"

\* Every client that started comes to its end, whatever the server does.
ClientsEnd == \A c \in Clients : at[c] # "connect" ~> at[c] = "done"
=============================================================================
