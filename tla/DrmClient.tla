----------------------------- MODULE DrmClient ------------------------------
(***************************************************************************)
(* drm-tests/drm_client_crtc.c and drm_client_plane.c: a client makes a    *)
(* framebuffer, asks the server to authenticate it, to show the buffer,    *)
(* waits for a key, asks the server to stop showing it, and cleans up by   *)
(* falling through the labels of main.                                     *)
(***************************************************************************)
EXTENDS DrmProto

CONSTANTS
  MaxFaults  (* bound: answers that come too late (select: 5 s), and       *)
             (* clients ended by a signal                                  *)

ASSUME ClientAssumption == MaxFaults \in Nat

VARIABLES
  at,        (* where each client is                                       *)
  held,      (* what it has acquired and not released                      *)
  result,    (* how its session ended                                      *)
  faults     (* late answers and killed clients so far                     *)

clientVars == <<at, held, result, faults>>

\* What main acquires in turn, and the label it jumps to on failure there.
\* "magic" and "mode" stand for the calls that only look something up.
Ladder == <<[res |-> "fd",     fail |-> "err_close_net"],
            [res |-> "magic",  fail |-> "err_close_drm"],
            [res |-> "driver", fail |-> "err_close_drm"],
            [res |-> "bo",     fail |-> "err_driver_destroy"],
            [res |-> "map",    fail |-> "err_buffer_destroy"],
            [res |-> "fb",     fail |-> "err_buffer_unmap"]>>

\* The labels in the order of the code, with what each one releases.
Labels == <<[label |-> "err_fb",             res |-> "fb"],
            [label |-> "err_buffer_unmap",   res |-> "map"],
            [label |-> "err_buffer_destroy", res |-> "bo"],
            [label |-> "err_driver_destroy", res |-> "driver"],
            [label |-> "err_close_drm",      res |-> "fd"],
            [label |-> "err_close_net",      res |-> "sock"]>>

Resources == {Labels[n].res : n \in DOMAIN Labels} \cup {"magic"}
Waits == {"wait_auth", "wait_show", "wait_stop"}

ClientTypeOK ==
  /\ at \in [Clients -> {"connect", "setup", "send_auth", "send_show", "draw", "send_stop", "done"}
                         \cup Waits \cup {Labels[n].label : n \in DOMAIN Labels}]
  /\ held \in [Clients -> SUBSET Resources]
  /\ result \in [Clients -> {"none", "ok", "failed", "killed"}]
  /\ faults \in 0..MaxFaults

ClientInit ==
  /\ at = [c \in Clients |-> "connect"]
  /\ held = [c \in Clients |-> {}]
  /\ result = [c \in Clients |-> "none"]
  /\ faults = 0

ShowCmd(c) == IF c \in CrtcClients THEN "crtc" ELSE "plane"
StopCmd(c) == IF c \in CrtcClients THEN "crtc_stop" ELSE "plane_stop"

Go(c, to) == at' = [at EXCEPT ![c] = to]
NoFault == UNCHANGED faults
Fault == faults < MaxFaults /\ faults' = faults + 1

\* A label of the error paths or of the regular end.
Leave(c, label, how) ==
  /\ Go(c, label)
  /\ result' = [result EXCEPT ![c] = how]

-----------------------------------------------------------------------------
(* Setting up and cleaning up *)

\* connect() finds the server listening, or fails.
Connect(c, listening) ==
  /\ at[c] = "connect"
  /\ \/ /\ listening /\ path
        /\ link' = [link EXCEPT ![c] = "up"]
        /\ backlog' = Append(backlog, c)
        /\ Go(c, "setup") /\ UNCHANGED result
     \/ /\ ~(listening /\ path)
        /\ Leave(c, "err_close_net", "failed") /\ UNCHANGED <<link, backlog>>
  /\ held' = [held EXCEPT ![c] = {"sock"}]
  /\ UNCHANGED <<dropped, req, resp, path, deviceVars>> /\ NoFault

\* Variant: a failing kms_bo_map jumps one label too far.
LabelOffByOne(n) == IF Ladder[n].res = "map" THEN "err_driver_destroy" ELSE Ladder[n].fail

FailLabel(n) == Ladder[n].fail

\* All of it is one step: nobody else sees anything of it before the server is
\* told the framebuffer's number.  The call number reached + 1 fails.
Acquire(c) ==
  \E reached \in 0..Len(Ladder) :
    LET got == {Ladder[n].res : n \in 1..reached}
    IN /\ at[c] = "setup"
       /\ held' = [held EXCEPT ![c] = @ \cup got]
       /\ fbs' = IF "fb" \in got THEN fbs \cup {c} ELSE fbs
       /\ IF reached = Len(Ladder)
            THEN Go(c, "send_auth") /\ UNCHANGED result
            ELSE Leave(c, FailLabel(reached + 1), "failed")
       /\ UNCHANGED <<socketVars, authed, crtc, plane>> /\ NoFault

\* The code falls from label to label.  A step goes as far as the next release
\* that others can see; close(fd) frees what the file still owns.
Cleanup(c) ==
  \E n \in DOMAIN Labels :
    LET m == Min({k \in n..Len(Labels) : Labels[k].res \in {"fb", "fd", "sock"}})
        r == Labels[m].res
    IN /\ at[c] = Labels[n].label
       /\ held' = [held EXCEPT ![c] =
                     (@ \ {Labels[k].res : k \in n..m})
                        \ (IF r = "fd" THEN {"fb", "magic"} ELSE {})]
       /\ Go(c, IF r = "sock" THEN "done" ELSE Labels[m + 1].label)
       /\ CASE r = "fb"   -> RmFB(c) /\ UNCHANGED authed
            [] r = "fd"   -> CloseDevice(c)
            [] r = "sock" -> UNCHANGED deviceVars
       /\ link' = IF r = "sock" /\ link[c] = "up" THEN [link EXCEPT ![c] = "closed"] ELSE link
       /\ UNCHANGED <<dropped, req, resp, backlog, path, result>> /\ NoFault

\* The kernel does it all when the process is killed.
Killed(c) ==
  /\ at' = [at EXCEPT ![c] = "done"]
  /\ held' = [held EXCEPT ![c] = {}]
  /\ result' = [result EXCEPT ![c] = "killed"]
  /\ link' = IF link[c] = "up" THEN [link EXCEPT ![c] = "closed"] ELSE link
  /\ CloseDevice(c)
  /\ UNCHANGED <<dropped, req, resp, backlog, path>>

-----------------------------------------------------------------------------
(* Talking to the server *)

\* A write to a connection the server has closed is SIGPIPE for the client.
Send(c) ==
  \E from \in {"send_auth", "send_show", "send_stop"} :
    /\ at[c] = from
    /\ \/ /\ c \notin dropped
          /\ req' = [req EXCEPT ![c] = CASE from = "send_auth" -> "auth"
                                         [] from = "send_show" -> ShowCmd(c)
                                         [] from = "send_stop" -> StopCmd(c)]
          /\ Go(c, CASE from = "send_auth" -> "wait_auth"
                     [] from = "send_show" -> "wait_show"
                     [] from = "send_stop" -> "wait_stop")
          /\ UNCHANGED <<link, dropped, resp, backlog, path, deviceVars, held, result>>
          /\ NoFault
       \/ c \in dropped /\ Killed(c) /\ NoFault

\* Variant: the end of file is taken for an empty answer.
ReceiveNoEof(c) ==
  /\ at[c] \in Waits /\ resp[c] # "none"
  /\ resp' = [resp EXCEPT ![c] = "none"]
  /\ IF resp[c] = "DRM_ERROR" THEN Leave(c, "err_fb", "failed")
     ELSE CASE at[c] = "wait_auth" -> Go(c, "send_show") /\ UNCHANGED result
            [] at[c] = "wait_show" -> Go(c, "draw") /\ UNCHANGED result
            [] at[c] = "wait_stop" -> Leave(c, "err_fb", "ok")
  /\ UNCHANGED <<link, dropped, req, backlog, path, deviceVars, held>> /\ NoFault

Receive(c) ==
  /\ at[c] \in Waits
  /\ \/ /\ resp[c] = "DRM_OK"
        /\ resp' = [resp EXCEPT ![c] = "none"]
        /\ CASE at[c] = "wait_auth" -> Go(c, "send_show") /\ UNCHANGED result
             [] at[c] = "wait_show" -> Go(c, "draw") /\ UNCHANGED result
             [] at[c] = "wait_stop" -> Leave(c, "err_fb", "ok")
     \/ /\ resp[c] = "DRM_ERROR"
        /\ resp' = [resp EXCEPT ![c] = "none"]
        /\ Leave(c, "err_fb", "failed")
     \/ /\ resp[c] = "none" /\ c \in dropped     \* end of file
        /\ UNCHANGED resp
        /\ Leave(c, "err_fb", "failed")
  /\ UNCHANGED <<link, dropped, req, backlog, path, deviceVars, held>> /\ NoFault

Timeout(c) ==
  /\ Fault
  /\ at[c] \in Waits /\ resp[c] = "none" /\ c \notin dropped
  /\ Leave(c, "err_fb", "failed")
  /\ UNCHANGED <<protoVars, held>>

\* getchar()
Key(c) ==
  /\ at[c] = "draw"
  /\ Go(c, "send_stop")
  /\ UNCHANGED <<protoVars, held, result>> /\ NoFault

Kill(c) ==
  /\ Fault
  /\ at[c] \notin {"connect", "done"}
  /\ Killed(c)

Client(c) == Acquire(c) \/ Cleanup(c) \/ Send(c) \/ Receive(c)
=============================================================================
