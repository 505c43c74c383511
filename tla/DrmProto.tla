------------------------------ MODULE DrmProto ------------------------------
(***************************************************************************)
(* drm-tests: what drm_server.c and its clients drm_client_crtc.c and      *)
(* drm_client_plane.c share: the messages of drm_proto.h on a local stream *)
(* socket, and the kernel's DRM device, seen as one CRTC and one plane.    *)
(*                                                                         *)
(* A framebuffer is named by the client that made it.  Every client has at *)
(* most one request and one response under way.                            *)
(***************************************************************************)
EXTENDS Naturals, Sequences, FiniteSets, FiniteSetsExt, SequencesExt

CONSTANTS
  CrtcClients,   (* processes running drm_client_crtc                      *)
  PlaneClients,  (* processes running drm_client_plane                     *)
  NoClient,
  MAXCLIENTS     (* of drm_proto.h                                         *)

ASSUME ProtoAssumption ==
  /\ IsFiniteSet(CrtcClients) /\ IsFiniteSet(PlaneClients)
  /\ CrtcClients \cap PlaneClients = {}
  /\ (CrtcClients \cup PlaneClients) \cap {NoClient, "console", "off", "null", "junk"} = {}
  /\ MAXCLIENTS \in Nat \ {0}

Clients == CrtcClients \cup PlaneClients
Commands == {"auth", "crtc", "plane", "crtc_stop", "plane_stop"}

VARIABLES
  link,     (* the client's end of its connection                          *)
  dropped,  (* connections whose server end is closed                      *)
  req,      (* the request on its way to the server                        *)
  resp,     (* the response on its way to the client                       *)
  backlog,  (* connections waiting for accept()                            *)
  path,     (* /tmp/drm_srv exists                                         *)
  fbs,      (* framebuffers that exist                                     *)
  authed,   (* clients whose magic the server authenticated                *)
  crtc,     (* what the CRTC shows: a framebuffer, the console or nothing  *)
  plane     (* what the plane shows                                        *)

socketVars == <<link, dropped, req, resp, backlog, path>>
deviceVars == <<fbs, authed, crtc, plane>>
protoVars == <<socketVars, deviceVars>>

ProtoTypeOK ==
  /\ link \in [Clients -> {"new", "up", "closed"}]
  /\ dropped \subseteq Clients
  /\ req \in [Clients -> Commands \cup {"none"}]
  /\ resp \in [Clients -> {"none", "DRM_OK", "DRM_ERROR"}]
  /\ backlog \in Seq(Clients)
  /\ path \in BOOLEAN
  /\ fbs \subseteq Clients /\ authed \subseteq Clients
  /\ crtc \in Clients \cup {"console", "off"}
  /\ plane \in Clients \cup {"off"}

ProtoInit ==
  /\ link = [c \in Clients |-> "new"]
  /\ dropped = {}
  /\ req = [c \in Clients |-> "none"]
  /\ resp = [c \in Clients |-> "none"]
  /\ backlog = <<>>
  /\ path = FALSE
  /\ fbs = {} /\ authed = {}
  /\ crtc = "console" /\ plane = "off"

\* drmModeSetCrtc fails for a framebuffer that does not exist any more.
CanShow(f) == f \in fbs \cup {"console"}

\* drmModeRmFB: what shows the framebuffer is switched off.
RmFB(c) ==
  /\ fbs' = fbs \ {c}
  /\ crtc' = IF crtc = c THEN "off" ELSE crtc
  /\ plane' = IF plane = c THEN "off" ELSE plane

\* The last close of the client's DRM file frees its framebuffer and magic.
CloseDevice(c) == RmFB(c) /\ authed' = authed \ {c}
=============================================================================
