------------------------------ MODULE GstSink -------------------------------
(***************************************************************************)
(* gst/gst-drm: the GStreamer elements drmsink (kind "crtc") and           *)
(* drmplanesink (kind "plane"), which show video in two framebuffers taken *)
(* by turns.  GstBaseSink calls start, set_caps, render (also as preroll)  *)
(* and stop, one at a time: stop only after a start that succeeded, render *)
(* only after a set_caps that did.  An element may be used again.          *)
(*                                                                         *)
(* A buffer object and the framebuffer made of it have the same number; 0  *)
(* is NULL or no framebuffer.  Closing the device frees the framebuffers.  *)
(* The properties are set before start and name an existing plane.         *)
(***************************************************************************)
EXTENDS Naturals, FiniteSets

CONSTANTS
  Console,      (* on the screen: what was there before                    *)
  Off,          (* on the screen: nothing                                  *)
  Null,         (* no drmModeCrtc                                          *)
  MaxSessions,  (* bound: how often the element is started                 *)
  MaxFaults     (* bound: calls of DRM that fail                           *)

DRM_FRAMES == 2
Frames == 0..(DRM_FRAMES - 1)

VARIABLES
  kind,      (* which of the two elements                                  *)
  before,    (* what was on the screen at first: Console or Off             *)
  life,      (* null, started, playing (caps accepted), dead (crashed)     *)
  enabled, current,
  saved,     (* self->saved_crtc: Null, or what it says is on the screen   *)
  bo,        (* self->bo                                                   *)
  frame,     (* self->frame: the buffer it points into                     *)
  fb,        (* self->fb                                                   *)
  objects,   (* buffer objects (kms_bo) that exist                         *)
  fbs,       (* framebuffers that exist                                    *)
  last,      (* the number given out last                                  *)
  screen,    (* what the CRTC (or the plane) shows                         *)
  files,     (* how often the device is open                               *)
  drivers,   (* kms drivers that exist                                     *)
  sessions, faults

selfVars == <<enabled, current, saved, bo, frame, fb>>
deviceVars == <<objects, fbs, last, screen, files, drivers>>
vars == <<kind, before, life, selfVars, deviceVars, sessions, faults>>

MaxBuffers == DRM_FRAMES * (1 + MaxFaults)
Shows == {Console, Off} \cup 1..MaxBuffers

TypeOK ==
  /\ kind \in {"crtc", "plane"} /\ before \in {Console, Off}
  /\ life \in {"null", "started", "playing", "dead"}
  /\ enabled \in BOOLEAN /\ current \in Frames
  /\ saved \in {Null, Console, Off}
  /\ bo \in [Frames -> 0..MaxBuffers] /\ frame \in [Frames -> 0..MaxBuffers]
  /\ fb \in [Frames -> 0..MaxBuffers]
  /\ objects \subseteq 1..MaxBuffers /\ fbs \subseteq 1..MaxBuffers
  /\ last \in 0..MaxBuffers /\ screen \in Shows
  /\ files \in 0..MaxSessions /\ drivers \in 0..1
  /\ sessions \in 0..MaxSessions /\ faults \in 0..MaxFaults

\* A GObject is zeroed when it is made.
Init ==
  /\ kind \in {"crtc", "plane"}
  /\ before \in IF kind = "crtc" THEN {Console, Off} ELSE {Off}
  /\ life = "null" /\ enabled = FALSE /\ current = 0 /\ saved = Null
  /\ bo = [i \in Frames |-> 0] /\ frame = bo /\ fb = bo
  /\ objects = {} /\ fbs = {} /\ last = 0 /\ screen = before
  /\ files = 0 /\ drivers = 0 /\ sessions = 0 /\ faults = 0

NoFault == UNCHANGED faults
Fault == faults < MaxFaults /\ faults' = faults + 1

-----------------------------------------------------------------------------
(* The elements *)

\* A start that fails after open() does not close the device.
Start ==
  /\ life = "null" /\ sessions < MaxSessions
  /\ sessions' = sessions + 1
  /\ \/ life' = "started" /\ files' = files + 1 /\ drivers' = drivers + 1 /\ NoFault
     \/ files' \in {files, files + 1} /\ Fault /\ UNCHANGED <<life, drivers>>
  /\ UNCHANGED <<kind, before, selfVars, objects, fbs, last, screen>>

\* setup() makes each frame in three steps: the object (0), its mapping (1) and
\* the framebuffer (2).  The frames that had this step when `calls' calls had
\* succeeded.
Had(step, calls) == {i \in Frames : 3 * i + step < calls}

Renew(old, new) == [i \in Frames |-> IF i \in new THEN last + 1 + i ELSE old[i]]

MakeFrames(calls) ==
  /\ bo' = Renew(bo, Had(0, calls))
  /\ frame' = Renew(frame, Had(1, calls))
  /\ fb' = Renew(fb, Had(2, calls))
  /\ objects' = objects \cup {bo'[i] : i \in Had(0, calls)}
  /\ fbs' = fbs \cup {fb'[i] : i \in Had(2, calls)}
  /\ last' = last + Cardinality(Had(0, calls))

AllCalls == 3 * DRM_FRAMES

\* drmModeGetCrtc(): only drmsink does this.
Save == saved' = IF kind = "crtc" THEN screen ELSE saved

\* What a failing call leaves behind is neither released nor remembered.
Setup ==
  \/ /\ MakeFrames(AllCalls) /\ Save
     /\ enabled' = TRUE /\ current' = 0 /\ life' = "playing" /\ NoFault
  \/ /\ \E calls \in 0..(AllCalls - 1) : MakeFrames(calls)
     /\ Fault /\ UNCHANGED <<enabled, current, saved, life>>
  \/ /\ kind = "crtc" /\ MakeFrames(AllCalls) /\ saved' = Null
     /\ Fault /\ UNCHANGED <<enabled, current, life>>

\* Caps that are too large for drmsink's mode are refused.  Once the element is
\* enabled all caps are taken and nothing is done.
SetCaps ==
  /\ life \in {"started", "playing"}
  /\ \/ enabled /\ life' = "playing" /\ UNCHANGED <<selfVars, objects, fbs, last, faults>>
     \/ ~enabled /\ Setup
     \/ ~enabled /\ kind = "crtc" /\ UNCHANGED <<life, selfVars, objects, fbs, last, faults>>
  /\ UNCHANGED <<kind, before, screen, files, drivers, sessions>>

Flip == current' = (current + 1) % DRM_FRAMES

Crash == life' = "dead" /\ UNCHANGED <<selfVars, deviceVars, faults>>

\* The picture is copied into the current frame, which is then shown.  A buffer
\* that is too small for the caps is refused first, which changes nothing.
Render ==
  /\ life = "playing"
  /\ IF frame[current] \notin objects
       THEN Crash
       ELSE /\ \/ fb[current] \in fbs /\ screen' = fb[current] /\ Flip /\ NoFault
               \/ UNCHANGED <<screen, current>> /\ Fault
            /\ UNCHANGED <<life, enabled, saved, bo, frame, fb, objects, fbs, last, files, drivers>>
  /\ UNCHANGED <<kind, before, sessions>>

\* The plane is switched off; the CRTC is set to what was saved, if its mode was
\* valid.
Restored ==
  CASE kind = "plane"                -> Off
    [] kind = "crtc" /\ saved = Off  -> screen
    [] OTHER                         -> saved

\* Variant: the last frame is forgotten.
ReleasedButLast == Frames \ {DRM_FRAMES - 1}

Released == Frames

\* saved_crtc is followed and kms_bo_unmap() follows its argument, both without
\* a look.  Framebuffers that are removed while shown switch the CRTC off.
Stop ==
  /\ life \in {"started", "playing"}
  /\ IF (kind = "crtc" /\ saved = Null) \/ \E i \in Frames : bo[i] = 0
       THEN Crash
       ELSE /\ life' = "null"
            /\ \E back \in {Restored, screen} :
                 /\ screen' = IF back \in fbs THEN Off ELSE back
                 /\ IF back = Restored THEN NoFault ELSE Fault
            /\ objects' = objects \ {bo[i] : i \in Released}
            /\ fbs' = {}                                   \* close(self->fd)
            /\ bo' = [i \in Frames |-> IF i \in Released THEN 0 ELSE bo[i]]
            /\ files' = files - 1 /\ drivers' = drivers - 1
            /\ UNCHANGED <<enabled, current, saved, frame, fb, last>>
  /\ UNCHANGED <<kind, before, sessions>>

Next == Start \/ SetCaps \/ Render \/ Stop

Spec == Init /\ [][Next]_vars

-----------------------------------------------------------------------------
(* Properties *)

\* The frame that the next picture is copied into is not the one on the screen.
NeverDrawOnScreen == life = "playing" => screen # fb[current]

\* The element only crashes when it is stopped although no caps were accepted,
\* or used again: enabled, saved_crtc and frame[] outlive the session.
FirstSessionSafe == life = "dead" => ~enabled \/ sessions > 1

\* After a session the screen is as it was before, or off if a call failed, and
\* everything acquired is released, but for one file or the buffers of one setup()
\* for every call that failed.  Always the types are right.
NothingLeft ==
  /\ TypeOK
  /\ life = "null" =>
       /\ screen = before \/ (screen = Off /\ faults > 0)
       /\ fbs = {} /\ drivers = 0
       /\ files + Cardinality(objects) <= DRM_FRAMES * faults

\* Pictures are drawn where nobody sees it, and a session ends with nothing left,
\* or in one of those two crashes.
SinkSafe == NeverDrawOnScreen /\ FirstSessionSafe /\ NothingLeft
=============================================================================
