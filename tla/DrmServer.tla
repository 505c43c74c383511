----------------------------- MODULE DrmServer ------------------------------
(***************************************************************************)
(* drm-tests/drm_server.c: the DRM master that shows the framebuffers of   *)
(* its clients.  One process: poll(), accept(), one request per ready      *)
(* client and round; SIGINT asks it to stop.                               *)
(*                                                                         *)
(* A poll() that times out changes nothing.  Each ioctl is a step of its   *)
(* own, since clients remove their framebuffers at any time.               *)
(***************************************************************************)
EXTENDS DrmProto

VARIABLES
  pc,
  running,  (* cleared by int_handler                                      *)
  slot,     (* clients[i].fd, as the client at the other end               *)
  revents,  (* the i with POLLIN or POLLERR in clients[i].revents          *)
  rc,       (* what is left of poll()'s result                             *)
  i,        (* loop counter                                                *)
  info,     (* drm_clients[i]: whose request filled it, and the saved CRTC *)
  ret       (* the result the response is made from                        *)

serverVars == <<pc, running, slot, revents, rc, i, info, ret>>

Slots == 0..(MAXCLIENTS - 1)
Used == {j \in Slots : slot[j] # NoClient}

ServerTypeOK ==
  /\ pc \in {"bind", "check", "poll", "accept", "scan", "read", "auth", "crtc_save",
             "crtc_set", "plane_set", "crtc_stop", "plane_stop", "reply",
             "close", "unlink", "exit", "bind_failed", "sigpipe"}
  /\ running \in BOOLEAN
  /\ slot \in [Slots -> Clients \cup {NoClient}]
  /\ revents \subseteq Slots
  /\ rc \in 0..(MAXCLIENTS + 2)
  /\ i \in 0..MAXCLIENTS
  /\ info \in [Slots -> [owner : Clients \cup {NoClient},
                         saved : Clients \cup {"console", "off", "null", "junk"}]]
  /\ ret \in {0, 1}

ServerInit ==
  /\ pc = "bind"
  /\ running = TRUE
  /\ slot = [j \in Slots |-> NoClient]
  /\ revents = {} /\ rc = 0 /\ i = 0
  /\ info = [j \in Slots |-> [owner |-> NoClient, saved |-> "junk"]]
  /\ ret = 0

Listening == pc \notin {"bind", "unlink", "exit", "bind_failed", "sigpipe"}

\* The process is gone: its sockets are closed, clients wait for nothing more.
Gone == {"exit", "bind_failed", "sigpipe"}
ProcessEnds(how) ==
  /\ pc' = how
  /\ dropped' = dropped \cup {slot[j] : j \in Used} \cup ToSet(backlog)
  /\ slot' = [j \in Slots |-> NoClient]
  /\ backlog' = <<>>

-----------------------------------------------------------------------------
(* The poll loop *)

Bind ==
  /\ pc = "bind"
  /\ IF path THEN pc' = "bind_failed" /\ UNCHANGED path
             ELSE pc' = "poll" /\ path' = TRUE
  /\ UNCHANGED <<link, dropped, req, resp, backlog, deviceVars, running, slot,
                 revents, rc, i, info, ret>>

\* Back to the head of the loop.  The next poll() sets these three anew; their
\* old values are dropped here so that they do not tell states apart.
NextRound == pc' = "check" /\ rc' = 0 /\ i' = 0 /\ revents' = {}
\* One ready descriptor less: if (--rc == 0) continue / break.
CountDown(next) ==
  IF rc = 1 THEN NextRound
            ELSE pc' = "scan" /\ rc' = rc - 1 /\ i' = next /\ UNCHANGED revents

\* A read of c's connection does not block.
Readable(c) == req[c] # "none" \/ link[c] = "closed"

\* while (running)
Check ==
  /\ pc = "check"
  /\ pc' = IF running THEN "poll" ELSE "close"
  /\ UNCHANGED <<protoVars, running, slot, revents, rc, i, info, ret>>

\* poll() is given one entry more than the array has: what lies behind it may
\* count as ready, too.
Poll ==
  LET ready == {j \in Used : Readable(slot[j])}
      pending == IF backlog # <<>> THEN 1 ELSE 0
  IN /\ pc = "poll"
     /\ Cardinality(ready) + pending > 0
     /\ \E behind \in {0, 1} : rc' = Cardinality(ready) + pending + behind
     /\ revents' = ready
     /\ i' = 0
     /\ pc' = IF pending = 1 THEN "accept" ELSE "scan"
     /\ UNCHANGED <<protoVars, running, slot, info, ret>>

\* SIGINT interrupts poll(); when it came just before, the timeout ends it.
Interrupted ==
  /\ pc = "poll" /\ ~running
  /\ pc' = "close"
  /\ UNCHANGED <<protoVars, running, slot, revents, rc, i, info, ret>>

Accept ==
  LET free == Slots \ Used
  IN /\ pc = "accept"
     /\ backlog' = Tail(backlog)
     /\ IF free = {}
          THEN dropped' = dropped \cup {Head(backlog)} /\ UNCHANGED slot
          ELSE slot' = [slot EXCEPT ![Min(free)] = Head(backlog)] /\ UNCHANGED dropped
     /\ CountDown(i)
     /\ UNCHANGED <<link, req, resp, path, deviceVars, running, info, ret>>

\* Variant: revents is not looked at.
DueUsed == {j \in Used : j >= i}

Due == {j \in Used \cap revents : j >= i}

Scan ==
  /\ pc = "scan"
  /\ \/ Due = {} /\ NextRound
     \/ Due # {} /\ pc' = "read" /\ i' = Min(Due) /\ UNCHANGED <<revents, rc>>
  /\ UNCHANGED <<protoVars, running, slot, info, ret>>

\* What the switch does for each command.
Handler(cmd) ==
  CASE cmd = "auth" -> "auth"             [] cmd = "crtc" -> "crtc_save"
    [] cmd = "plane" -> "plane_set"       [] cmd = "crtc_stop" -> "crtc_stop"
    [] cmd = "plane_stop" -> "plane_stop"

CloseSlot(j) ==
  /\ dropped' = dropped \cup {slot[j]}
  /\ slot' = [slot EXCEPT ![j] = NoClient]

\* A closed connection leaves rc as it is (continue).
Read ==
  LET c == slot[i]
  IN /\ pc = "read" /\ Readable(c)
     /\ IF req[c] # "none"
          THEN /\ req' = [req EXCEPT ![c] = "none"]
               /\ pc' = Handler(req[c])
               /\ UNCHANGED <<dropped, slot, i>>
          ELSE /\ CloseSlot(i)
               /\ i' = i + 1 /\ pc' = "scan"
               /\ UNCHANGED req
     /\ UNCHANGED <<link, resp, backlog, path, deviceVars, running, revents, rc,
                    info, ret>>

-----------------------------------------------------------------------------
(* The requests.  Each ends in a response made from ret *)

Result(r) == ret' = r /\ pc' = "reply"
sameLoop == UNCHANGED <<socketVars, running, slot, revents, rc, i>>

\* Variant: the entry of the slot is not cleared.
AuthKeep ==
  /\ pc = "auth"
  /\ slot[i] \in fbs
  /\ authed' = authed \cup {slot[i]}
  /\ Result(0)
  /\ sameLoop /\ UNCHANGED <<fbs, crtc, plane, info>>

\* drmAuthMagic knows the magic of an open DRM file only.  On success the
\* slot's drm_clients entry is cleared.
Auth ==
  LET c == slot[i]
  IN /\ pc = "auth"
     /\ \/ /\ c \in fbs
           /\ authed' = authed \cup {c}
           /\ info' = [info EXCEPT ![i] = [owner |-> c, saved |-> "null"]]
           /\ Result(0)
        \/ c \notin fbs /\ Result(1) /\ UNCHANGED <<authed, info>>
     /\ sameLoop /\ UNCHANGED <<fbs, crtc, plane>>

\* CMD_CRTC, first half: the mode is looked up and the current CRTC saved.
CrtcSave ==
  /\ pc = "crtc_save"
  /\ \/ info' = [info EXCEPT ![i].saved = crtc] /\ pc' = "crtc_set" /\ UNCHANGED ret
     \/ Result(1) /\ UNCHANGED info
  /\ sameLoop /\ UNCHANGED deviceVars

\* The second half sets the new CRTC and reads it back; if it cannot be read the
\* client's framebuffer stays on the screen, although the response is an error.
CrtcSet ==
  /\ pc = "crtc_set"
  /\ \/ CanShow(slot[i]) /\ crtc' = slot[i] /\ \E r \in {0, 1} : Result(r)
     \/ UNCHANGED crtc /\ Result(1)
  /\ sameLoop /\ UNCHANGED <<fbs, authed, plane, info>>

PlaneSet ==
  /\ pc = "plane_set"
  /\ \/ slot[i] \in fbs /\ plane' = slot[i] /\ Result(0)
     \/ UNCHANGED plane /\ Result(1)
  /\ sameLoop /\ UNCHANGED <<fbs, authed, crtc, info>>

\* Variant: the CRTC is switched off instead of restored.
CrtcStopOff ==
  /\ pc = "crtc_stop" /\ crtc' = "off" /\ Result(0)
  /\ sameLoop /\ UNCHANGED <<fbs, authed, plane, info>>

\* An empty saved CRTC (mode_valid = 0) is not restored.
CrtcStop ==
  LET saved == info[i].saved
  IN /\ pc = "crtc_stop"
     /\ \/ saved = "off" /\ UNCHANGED crtc /\ Result(0)
        \/ saved # "off" /\ CanShow(saved) /\ crtc' = saved /\ Result(0)
        \/ saved # "off" /\ UNCHANGED crtc /\ Result(1)
     /\ sameLoop /\ UNCHANGED <<fbs, authed, plane, info>>

PlaneStop ==
  /\ pc = "plane_stop"
  /\ \/ plane' = "off" /\ Result(0)
     \/ UNCHANGED plane /\ Result(1)
  /\ sameLoop /\ UNCHANGED <<fbs, authed, crtc, info>>

\* write() to a client that is gone is SIGPIPE, which nobody handles: the
\* server ends without unlink().
Reply ==
  /\ pc = "reply"
  /\ IF link[slot[i]] = "closed"
       THEN /\ ProcessEnds("sigpipe")
            /\ UNCHANGED <<resp, rc, i, revents>>
       ELSE /\ resp' = [resp EXCEPT ![slot[i]] = IF ret = 0 THEN "DRM_OK" ELSE "DRM_ERROR"]
            /\ CountDown(i + 1)
            /\ UNCHANGED <<dropped, slot, backlog>>
  /\ ret' = 0
  /\ UNCHANGED <<link, req, path, deviceVars, running, info>>

-----------------------------------------------------------------------------
(* Leaving *)

\* The listening socket is closed before its name is removed.
CloseListener ==
  /\ pc = "close"
  /\ pc' = "unlink"
  /\ dropped' = dropped \cup ToSet(backlog) /\ backlog' = <<>>
  /\ UNCHANGED <<link, req, resp, path, deviceVars, running, slot, revents, rc,
                 i, info, ret>>

Unlink ==
  /\ pc = "unlink"
  /\ path' = FALSE
  /\ ProcessEnds("exit")
  /\ UNCHANGED <<link, req, resp, deviceVars, running, revents, rc, i, info, ret>>

SigInt ==
  /\ running /\ pc \notin Gone
  /\ running' = FALSE
  /\ UNCHANGED <<protoVars, pc, slot, revents, rc, i, info, ret>>

\* The server is started again.
Restart ==
  /\ pc \in Gone
  /\ pc' = "bind" /\ running' = TRUE
  /\ revents' = {} /\ rc' = 0 /\ i' = 0 /\ ret' = 0
  /\ info' = [j \in Slots |-> [owner |-> NoClient, saved |-> "junk"]]
  /\ UNCHANGED <<protoVars, slot>>

Request == Auth \/ CrtcSave \/ CrtcSet \/ PlaneSet \/ CrtcStop \/ PlaneStop
Server ==
  \/ Bind \/ Check \/ Poll \/ Interrupted \/ Accept \/ Scan \/ Read \/ Request \/ Reply
  \/ CloseListener \/ Unlink
=============================================================================
