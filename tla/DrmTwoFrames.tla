---------------------------- MODULE DrmTwoFrames ----------------------------
(***************************************************************************)
(* The frame loop of drm-tests/drm_gl_test1b.c: two framebuffers, drawn    *)
(* and given to the screen by turns with page flips whose end nobody waits *)
(* for.  The program sleeps in every turn, and a flip that it is too early *)
(* for fails; what follows does not depend on that.                        *)
(***************************************************************************)
EXTENDS Naturals

CONSTANTS
  TURNS,      (* turns of the loop: 50                                     *)
  NoneQueued  (* no flip is under way                                      *)

ASSUME FramesAssumption == TURNS \in Nat \ {0} /\ NoneQueued \notin 0..1

VARIABLES
  at,        (* where the loop is: "draw", "flip" or "over"                *)
  turn,      (* i                                                          *)
  drawing,   (* current                                                    *)
  onScreen,  (* the framebuffer that is shown                              *)
  flipping,  (* the framebuffer that is shown next, or NoneQueued              *)
  seen,      (* turns that drew into a framebuffer that was on the screen   *)
             (* or about to be                                            *)
  refused,   (* flips that failed                                          *)
  late       (* turns that began before the flip of the last one was done  *)

gvars == <<at, turn, drawing, onScreen, flipping, seen, refused, late>>

FramesTypeOK ==
  /\ at \in {"draw", "flip", "over"} /\ turn \in 0..TURNS
  /\ drawing \in 0..1 /\ onScreen \in 0..1 /\ flipping \in {0, 1, NoneQueued}
  /\ seen \in 0..TURNS /\ refused \in 0..TURNS /\ late \in 0..TURNS

\* drmModeSetCrtc() has shown the first framebuffer.
GInit ==
  /\ at = "draw" /\ turn = 0 /\ drawing = 0 /\ onScreen = 0 /\ flipping = NoneQueued
  /\ seen = 0 /\ refused = 0 /\ late = 0

Draw ==
  /\ at = "draw"
  /\ seen' = IF drawing \in {onScreen, flipping} THEN seen + 1 ELSE seen
  /\ late' = IF flipping # NoneQueued THEN late + 1 ELSE late
  /\ at' = "flip"
  /\ UNCHANGED <<turn, drawing, onScreen, flipping, refused>>

\* Variant: always the same framebuffer.
SameFrame == UNCHANGED drawing

Toggle == drawing' = 1 - drawing

\* Whether drmModePageFlip() fails or not, the framebuffers change places.
FlipFrame ==
  /\ at = "flip"
  /\ \/ flipping = NoneQueued /\ flipping' = drawing /\ UNCHANGED refused
     \/ refused' = refused + 1 /\ UNCHANGED flipping
  /\ Toggle /\ turn' = turn + 1
  /\ at' = IF turn + 1 = TURNS THEN "over" ELSE "draw"
  /\ UNCHANGED <<onScreen, seen, late>>

\* A flip may be done at any time.
FlipDone ==
  /\ flipping # NoneQueued /\ onScreen' = flipping /\ flipping' = NoneQueued
  /\ UNCHANGED <<at, turn, drawing, seen, refused, late>>

GNext == Draw \/ FlipFrame \/ FlipDone

GSpec == GInit /\ [][GNext]_gvars

-----------------------------------------------------------------------------
(* Properties *)

\* A framebuffer on the screen is drawn into in the first turn, and otherwise at
\* most once for each flip that failed and once for each that came late: after
\* such a fault the program falls back into step.  Always the types are right.
DrawnBehind == FramesTypeOK /\ seen <= 1 + refused + late
=============================================================================
