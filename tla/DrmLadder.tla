----------------------------- MODULE DrmLadder ------------------------------
(***************************************************************************)
(* The single programs of drm-tests that draw on the screen by themselves. *)
(* Each main() is a ladder: calls that may fail, each with the label it    *)
(* goes to then, a session, and the labels, which fall through to the end. *)
(* The ladders are data; one machine climbs them.                          *)
(*                                                                         *)
(* The DRM master's screen is one CRTC and one plane.  Ids and pointers    *)
(* that were never set are recognised by what is not held.                 *)
(***************************************************************************)
EXTENDS DrmConf, DrmFlip

CONSTANT Setups  (* programs with their command line and device            *)

Progs == {"drm_dumb_bo", "drm_dumb_bo_libkms", "drm_dumb_bo_mult", "drm_dumb_bo_plane",
          "drm_gl_test1a", "drm_gl_test1b", "drm_gl_test2", "drm_gl_test3"}

ASSUME SetupsAssumption ==
  \A s \in Setups :
    s.prog \in Progs /\ s.how \in {"auto", "cmdline", "name"} /\ Device(s.hw)

VARIABLES
  prog,    (* which program                                                *)
  valid,   (* whether the CRTC was on before (mode_valid)                  *)
  phase,   (* climbing ("get"), looking up, the frame loop, descending     *)
           (* ("undo"), or at an end                                       *)
  n,       (* rung, or label                                               *)
  held,    (* calls that succeeded and were not undone                     *)
  screen,  (* what the CRTC shows: as before, the program's image, nothing *)
  plane,   (* whether the plane shows the program's image                  *)
  result   (* "ok" after a whole session, "failed", and "dark" when the    *)
           (* screen could not be restored                                 *)

ladderVars == <<phase, n, held, screen, plane, result>>
vars == <<confVars, flipVars, prog, valid, ladderVars>>

-----------------------------------------------------------------------------
(* The ladders *)

\* A call, and where the program goes if it fails.
Try(call, label) == [call |-> call, label |-> label]
\* A label, and what is released from there to the next one.
At(label, frees) == [label |-> label, frees |-> frees]

DumbBo ==
  << Try("fd", "exit"), Try("conf", "err_close"), Try("cap", "err_close"),
     Try("bo", "err_close"), Try("offset", "err_fb"), Try("map", "err_fb"),
     Try("fb", "err_destroy"), Try("saved", "err_unmap"), Try("crtc", "err_unmap"),
     Try("keys", "-") >>
DumbBoLabels ==
  << At("restore", {}), At("err_unmap", {"map"}), At("err_fb", {"fb"}),
     At("err_destroy", {"bo"}), At("err_close", {"fd"}) >>

LibKms ==
  << Try("fd", "exit"), Try("conf", "err_close"), Try("drv", "err_close"),
     Try("bo", "err_driver_destroy"), Try("pitch", "err_buffer_destroy"),
     Try("handle", "err_buffer_destroy"), Try("map", "err_buffer_destroy"),
     Try("fb", "err_buffer_unmap"), Try("saved", "err_buffer_unmap"),
     Try("crtc", "err_buffer_unmap"), Try("keys", "-") >>
LibKmsLabels ==
  << At("restore", {}), At("rm", {"fb"}), At("err_buffer_unmap", {"map"}),
     At("err_buffer_destroy", {"bo"}), At("err_driver_destroy", {"drv"}),
     At("err_close", {"fd"}) >>

Mult ==
  << Try("fd", "err_exit"), Try("drv", "err_close_drm"), Try("conf", "err_driver_destroy"),
     Try("bo", "err_driver_destroy"), Try("pitch", "err_crtc_buffer_destroy"),
     Try("handle", "err_crtc_buffer_destroy"), Try("map", "err_crtc_buffer_destroy"),
     Try("fb", "err_crtc_buffer_unmap"), Try("saved", "err_crtc_rm_fb"),
     Try("crtc", "err_crtc_rm_fb"), Try("keys", "-") >>
MultPlane ==
  << Try("planes", "restore"), Try("pbo", "restore"),
     Try("ppitch", "err_plane_buffer_destroy"), Try("phandle", "err_plane_buffer_destroy"),
     Try("pmap", "err_plane_buffer_destroy"), Try("pfb", "err_plane_buffer_unmap"),
     Try("plane", "err_plane_rm_fb"), Try("keys", "-") >>
\* "restore" is err_crtc_exit.
MultLabels ==
  << At("plane_off", {}), At("err_plane_rm_fb", {"pfb"}),
     At("err_plane_buffer_unmap", {"pmap"}), At("err_plane_buffer_destroy", {"pbo"}),
     At("restore", {}), At("err_crtc_rm_fb", {"fb"}), At("err_crtc_buffer_unmap", {"map"}),
     At("err_crtc_buffer_destroy", {"bo"}), At("err_driver_destroy", {"drv"}),
     At("err_close_drm", {"fd"}), At("err_exit", {}) >>

Plane ==
  << Try("fd", "exit"), Try("cap", "err_close"), Try("planes", "err_close"),
     Try("bo", "err_close"), Try("pfb", "err_destroy_dumb"), Try("offset", "err_destroy_fb"),
     Try("map", "err_destroy_fb"), Try("plane", "err_unmap"), Try("keys", "-") >>
PlaneLabels ==
  << At("plane_off", {}), At("err_unmap", {"map"}), At("err_destroy_fb", {"pfb"}),
     At("err_destroy_dumb", {"bo"}), At("err_close", {"fd"}) >>

\* What the programs with OpenGL begin and end with.
Egl ==
  << Try("fd", "exit"), Try("conf", "close_fd"), Try("gbm", "close_fd"),
     Try("dpy", "destroy_gbm_device"), Try("init", "egl_terminate"),
     Try("extension", "egl_terminate") >>
EglContext == << Try("ctx", "egl_terminate"), Try("current", "destroy_context") >>
EglLabels ==
  << At("unmake_current", {"current"}), At("destroy_context", {"ctx"}),
     At("egl_terminate", {"dpy"}), At("destroy_gbm_device", {"gbm"}), At("close_fd", {"fd"}) >>

Gl1a ==
  Egl \o EglContext \o
  << Try("rb", "-"), Try("bo", "unmake_current"), Try("image", "destroy_gbm_bo"),
     Try("fb", "rm_rb"), Try("saved", "rm_fb"), Try("crtc", "free_saved_crtc"),
     Try("keys", "-") >>
Gl1aLabels ==
  << At("restore", {}), At("free_saved_crtc", {"saved"}), At("rm_rb", {"rb"}),
     At("rm_fb", {"fb", "image"}), At("destroy_gbm_bo", {"bo"}) >> \o EglLabels

\* image == EGL_NO_IMAGE_KHR compares the array, so a missing image is not seen.
Gl1b ==
  Egl \o EglContext \o
  << Try("rb", "-"), Try("bo0", "unmake_current"), Try("image0", "unseen"),
     Try("fb0", "rm_rb"), Try("bo1", "unmake_current"), Try("image1", "unseen"),
     Try("fb1", "rm_rb"), Try("saved", "rm_fb"), Try("crtc", "free_saved_crtc"),
     Try("keys", "-") >>
Gl1bLabels ==
  << At("restore", {}), At("free_saved_crtc", {"saved"}), At("rm_rb", {"rb"}),
     At("rm_fb", {"fb0", "fb1", "image0", "image1"}),
     At("destroy_gbm_bo", {"bo0", "bo1"}) >> \o EglLabels

\* The buffer is unlocked as soon as it has a framebuffer.
Gl2 ==
  Egl \o << Try("config", "egl_terminate") >> \o EglContext \o
  << Try("surface", "unmake_current"), Try("window", "unmake_current"),
     Try("both", "unmake_current"), Try("lock", "unmake_current"),
     Try("fb", "unmake_current"), Try("saved", "rm_fb"), Try("crtc", "free_saved_crtc"),
     Try("keys", "-") >>
Gl2Labels ==
  << At("restore", {}), At("free_saved_crtc", {"saved"}), At("rm_fb", {"fb"}) >> \o EglLabels

\* Variant: a window that was not made goes to the label that destroys it.
Gl3Late ==
  Egl \o << Try("config", "egl_terminate") >> \o EglContext \o
  << Try("surface", "unmake_current"), Try("window", "destroy_egl_surface"),
     Try("both", "destroy_egl_surface"), Try("saved", "destroy_egl_surface"),
     Try("frames", "-") >>

\* Framebuffers go with the buffers of the surface (drmFbDestroyCallback).
Gl3 ==
  Egl \o << Try("config", "egl_terminate") >> \o EglContext \o
  << Try("surface", "unmake_current"), Try("window", "destroy_gbm_surface"),
     Try("both", "destroy_egl_surface"), Try("saved", "destroy_egl_surface"),
     Try("frames", "-") >>
Gl3Labels ==
  << At("restore", {}), At("free", {"saved"}), At("destroy_egl_surface", {"window"}),
     At("destroy_gbm_surface", {"surface"}) >> \o EglLabels

Ladder ==
  CASE prog = "drm_dumb_bo" -> DumbBo        [] prog = "drm_dumb_bo_libkms" -> LibKms
    [] prog = "drm_dumb_bo_mult" -> Mult \o MultPlane
    [] prog = "drm_dumb_bo_plane" -> Plane   [] prog = "drm_gl_test1a" -> Gl1a
    [] prog = "drm_gl_test1b" -> Gl1b        [] prog = "drm_gl_test2" -> Gl2
    [] prog = "drm_gl_test3" -> Gl3

Labels ==
  CASE prog = "drm_dumb_bo" -> DumbBoLabels  [] prog = "drm_dumb_bo_libkms" -> LibKmsLabels
    [] prog = "drm_dumb_bo_mult" -> MultLabels
    [] prog = "drm_dumb_bo_plane" -> PlaneLabels [] prog = "drm_gl_test1a" -> Gl1aLabels
    [] prog = "drm_gl_test1b" -> Gl1bLabels  [] prog = "drm_gl_test2" -> Gl2Labels
    [] prog = "drm_gl_test3" -> Gl3Labels

Calls == {Ladder[k].call : k \in DOMAIN Ladder}
Owned == UNION {Labels[k].frees : k \in DOMAIN Labels}

Frames == {"fb", "fb0", "fb1", "pfb"}  \* framebuffer ids
Pointers == Owned \ (Frames \cup {"fd", "rb", "image", "image0", "image1"})

TypeOK ==
  /\ ConfTypeOK /\ FlipTypeOK
  /\ phase \in {"get", "conf", "frames", "undo", "done", "crash"}
  /\ n \in 1..(Len(Ladder) + Len(Labels))
  /\ held \subseteq Calls
  /\ screen \in {"before", "mine", "off"} /\ plane \in BOOLEAN
  /\ result \in {"none", "ok", "failed", "dark"}

Init ==
  /\ ConfInit /\ FlipInit
  /\ \E s \in Setups : prog = s.prog /\ how = s.how /\ want = s.want /\ hw = s.hw
  /\ valid \in BOOLEAN
  /\ phase = "get" /\ n = 1
  /\ held = {} /\ screen = "before" /\ plane = FALSE /\ result = "none"

-----------------------------------------------------------------------------
(* Climbing *)

Call == Ladder[n].call
Climbing(call) == phase = "get" /\ n <= Len(Ladder) /\ Call = call

\* The next rung, or the regular end: the first label.
NextRung ==
  IF n < Len(Ladder) THEN phase' = "get" /\ n' = n + 1 /\ UNCHANGED result
                     ELSE phase' = "undo" /\ n' = 1 /\ result' = "ok"

GoTo(label) ==
  /\ result' = "failed"
  /\ IF \E k \in DOMAIN Labels : Labels[k].label = label
       THEN phase' = "undo" /\ n' = CHOOSE k \in DOMAIN Labels : Labels[k].label = label
       ELSE phase' = "done" /\ UNCHANGED n

Failed == GoTo(Ladder[n].label)

Succeed ==
  /\ phase = "get" /\ Call \notin {"conf", "frames"}
  /\ held' = held \cup {Call}
  /\ screen' = IF Call = "crtc" THEN "mine" ELSE screen
  /\ plane' = (plane \/ Call = "plane")
  /\ NextRung
  /\ UNCHANGED <<confVars, flipVars, prog, valid>>

\* "-" is a call that cannot fail, "unseen" one whose failure is not noticed.
CallFails ==
  /\ phase = "get" /\ Call \notin {"conf", "frames"} /\ Ladder[n].label # "-"
  /\ IF Ladder[n].label = "unseen" THEN NextRung ELSE Failed
  /\ UNCHANGED <<confVars, flipVars, prog, valid, held, screen, plane>>

Configure ==
  /\ Climbing("conf")
  /\ LookFor("start") /\ phase' = "conf"
  /\ UNCHANGED <<confInput, c, kms, flipVars, prog, valid, n, held, screen, plane, result>>

LookUp ==
  /\ phase = "conf" /\ ConfStep
  /\ UNCHANGED <<flipVars, prog, valid, ladderVars>>

\* dump_drm_configuration() follows kms.crtc, which may be NULL.
Configured ==
  /\ phase = "conf"
  /\ \/ find = "found" /\ (how = "name" \/ kms.crtc # NULL) /\ NextRung
     \/ find = "found" /\ how # "name" /\ kms.crtc = NULL
          /\ phase' = "crash" /\ UNCHANGED <<n, result>>
     \/ find = "failed" /\ Failed
  /\ UNCHANGED <<confVars, flipVars, prog, valid, held, screen, plane>>

FramesBegin ==
  /\ Climbing("frames")
  /\ phase' = "frames" /\ stage' = "select"
  /\ UNCHANGED <<confVars, frame, ownVars, queued, events, prog, valid, n, held,
                 screen, plane, result>>

FramesGoOn ==
  /\ phase = "frames"
  /\ \/ FlipStep /\ UNCHANGED screen
     \/ SetFirst /\ screen' = IF stage' = "flip" THEN "mine" ELSE screen
  /\ UNCHANGED <<confVars, prog, valid, phase, n, held, plane, result>>

FramesEnd ==
  /\ phase = "frames" /\ stage = "over"
  /\ NextRung
  /\ UNCHANGED <<confVars, flipVars, prog, valid, held, screen, plane>>

Blank == VBlank /\ UNCHANGED <<confVars, prog, valid, ladderVars>>

-----------------------------------------------------------------------------
(* Descending *)

\* Programs that do not look at mode_valid.
Careless == {"drm_gl_test1b", "drm_gl_test2", "drm_gl_test3"}

\* A CRTC that was off has no mode to go back to.
Restore ==
  \/ ~valid /\ prog \notin Careless /\ UNCHANGED <<screen, result>>
  \/ ~valid /\ prog \in Careless /\ UNCHANGED screen /\ result' = "dark"
  \/ valid /\ screen' = "before" /\ UNCHANGED result
  \/ valid /\ UNCHANGED screen /\ result' = "dark"

\* What shows a framebuffer that goes away is switched off; closing the file
\* takes all framebuffers away.
Shows(frees) ==
  /\ screen' = IF screen = "mine" /\ frees \cap {"fb", "fb0", "surface", "fd"} # {}
                 THEN "off" ELSE screen
  /\ plane' = (plane /\ frees \cap {"pfb", "fd"} = {})

Descend == IF n < Len(Labels) THEN n' = n + 1 /\ UNCHANGED phase
                              ELSE phase' = "done" /\ UNCHANGED n

\* An id that was never set is an error of the call, which nobody looks at; a
\* pointer that was never set is followed.
Undo ==
  LET frees == Labels[n].frees
  IN /\ phase = "undo" /\ Labels[n].label \notin {"restore", "plane_off"}
     /\ IF frees \cap Pointers \subseteq held
          THEN /\ held' = held \ frees
               /\ Shows(frees \cap held)
               /\ Descend
          ELSE phase' = "crash" /\ UNCHANGED <<n, held, screen, plane>>
     /\ UNCHANGED <<confVars, flipVars, prog, valid, result>>

RestoreCrtc ==
  /\ phase = "undo" /\ Labels[n].label = "restore"
  /\ Restore /\ Descend
  /\ UNCHANGED <<confVars, flipVars, prog, valid, held, plane>>

\* The result of the second drmModeSetPlane() is not looked at.
PlaneOff ==
  /\ phase = "undo" /\ Labels[n].label = "plane_off"
  /\ plane' \in {plane, FALSE} /\ Descend
  /\ UNCHANGED <<confVars, flipVars, prog, valid, held, screen, result>>

Next ==
  \/ Succeed \/ CallFails \/ Configure \/ LookUp \/ Configured
  \/ FramesBegin \/ FramesGoOn \/ FramesEnd \/ Blank
  \/ Undo \/ RestoreCrtc \/ PlaneOff

Spec == Init /\ [][Next]_vars

-----------------------------------------------------------------------------
(* Properties *)

\* What a failing call leaves behind although a label would release it.
MayLeave ==
  CASE prog = "drm_dumb_bo" -> {"map"}          \* drm_dumb_bo.c:142
    [] prog = "drm_dumb_bo_libkms" -> {"fb"}    \* drm_dumb_bo_libkms.c:134
    [] prog = "drm_gl_test1a" -> {"rb"}         \* drm_gl_test1a.c:160
    [] prog = "drm_gl_test1b" -> {"rb", "bo0", "image0", "fb0"}  \* drm_gl_test1b.c:165
    [] OTHER -> {}

\* From whatever call a program goes to a label, nothing is freed there that was
\* not acquired, except by drm_gl_test1b when the first turn of its loop fails;
\* a whole session gives everything back that the labels are there for, a failed
\* one at least all but what stands in MayLeave; and in the end the plane is off
\* and the CRTC shows what it showed before, whatever fails after it was set.  (A
\* device without a CRTC for the encoder is not foreseen.)  Always the types are
\* right.
CleanupSafe ==
  /\ TypeOK
  /\ phase = "crash" =>
       \/ prog = "drm_gl_test1b" /\ "fb0" \notin held /\ "bo0" \in held
       \/ find = "found" /\ kms.crtc = NULL
  /\ phase = "done" =>
       /\ held \cap Owned \subseteq IF result = "failed" THEN MayLeave ELSE {}
       /\ ~plane /\ (result = "dark" \/ screen = "before" \/ ~valid)
=============================================================================
