------------------------------ MODULE DrmFlip -------------------------------
(***************************************************************************)
(* The frame loop of drm-tests/drm_gl_test3.c: buffers of a GBM surface    *)
(* are locked one after the other, given to the screen by page flips, and  *)
(* released by the handler of the flip's event.                            *)
(*                                                                         *)
(* getchar() takes any time, so a flip may complete between any two steps. *)
(***************************************************************************)
EXTENDS Naturals, FiniteSets

CONSTANTS
  Buffers,  (* buffers of the surface                                      *)
  FRAMES,   (* turns of the loop: 10                                       *)
  None

ASSUME FlipAssumption == FRAMES \in Nat /\ None \notin Buffers /\ Cardinality(Buffers) > 2

VARIABLES
  stage,    (* where the loop is                                           *)
  frame,    (* i                                                           *)
  current,  (* output.current and output.next, as their buffers            *)
  next,
  locked,   (* buffers taken from the surface and not given back           *)
  queued,   (* the buffer of the flip under way                            *)
  events    (* events of completed flips, not read yet                     *)

ownVars == <<current, next, locked>>
flipVars == <<stage, frame, ownVars, queued, events>>

FlipTypeOK ==
  /\ stage \in {"idle", "select", "swap", "setcrtc", "flip", "over"}
  /\ frame \in 0..FRAMES
  /\ {current, next, queued} \subseteq Buffers \cup {None}
  /\ locked \subseteq Buffers
  /\ events \in 0..2

FlipInit ==
  /\ stage = "idle" /\ frame = 0
  /\ current = None /\ next = None /\ queued = None
  /\ locked = {} /\ events = 0

Break == stage' = "over"

\* Variant: the handler does not give the old buffer back.
HandlerKeeps(own) == [own EXCEPT !.current = own.next, !.next = None]

\* pageFlipHandler
pageFlipHandler(own) ==
  [current |-> own.next, next |-> None, locked |-> own.locked \ {own.current}]

\* drmHandleEvent reads all events there are.
Handled ==
  LET own == [current |-> current, next |-> next, locked |-> locked]
  IN CASE events = 0 -> own
       [] events = 1 -> pageFlipHandler(own)
       [] events = 2 -> pageFlipHandler(pageFlipHandler(own))

\* The head of the loop, with a select() that does not wait.
Select ==
  /\ stage = "select"
  /\ \/ frame = FRAMES /\ Break /\ UNCHANGED <<frame, ownVars, events>>
     \/ frame < FRAMES /\ Break /\ UNCHANGED <<frame, ownVars, events>>
     \/ /\ frame < FRAMES                      \* EINTR
        /\ frame' = frame + 1 /\ UNCHANGED <<stage, ownVars, events>>
     \/ /\ frame < FRAMES
        /\ stage' = "swap"
        /\ current' = Handled.current /\ next' = Handled.next /\ locked' = Handled.locked
        /\ events' = 0 /\ UNCHANGED frame
  /\ UNCHANGED queued

\* Rendering, getchar(), eglSwapBuffers() and locking the front buffer with its
\* framebuffer, unless one is waiting for its flip.
Swap ==
  /\ stage = "swap"
  /\ \/ next # None /\ stage' = "setcrtc" /\ UNCHANGED ownVars
     \/ /\ next = None
        /\ \E b \in Buffers \ locked : next' = b /\ locked' = locked \cup {b}
        /\ stage' = "setcrtc" /\ UNCHANGED current
     \/ next = None /\ Break /\ UNCHANGED ownVars
  /\ UNCHANGED <<frame, queued, events>>

\* if (!output.current); the kernel first finishes a flip that is under way.
SetFirst ==
  /\ stage = "setcrtc" /\ current = None /\ queued = None
  /\ stage' = "flip" \/ Break
  /\ UNCHANGED <<frame, ownVars, queued, events>>

HasCurrent ==
  /\ stage = "setcrtc" /\ current # None
  /\ stage' = "flip"
  /\ UNCHANGED <<frame, ownVars, queued, events>>

\* EBUSY as long as another flip is under way.
PageFlip ==
  /\ stage = "flip"
  /\ \/ /\ queued = None
        /\ queued' = next
        /\ stage' = "select" /\ frame' = frame + 1
     \/ Break /\ UNCHANGED <<frame, queued>>
  /\ UNCHANGED <<ownVars, events>>

\* The kernel: the vertical blank.
VBlank ==
  /\ queued # None
  /\ queued' = None /\ events' = events + 1
  /\ UNCHANGED <<stage, frame, ownVars>>

FlipStep == Select \/ Swap \/ HasCurrent \/ PageFlip

-----------------------------------------------------------------------------

\* Every buffer taken from the surface is current or next, and no other is: the
\* handler gives each back once, however many events it finds and whether or not
\* the flip they tell of was the latest.  So the surface never runs out of
\* buffers, and where next is used (next->fbid) there is one.
FlipOwnership ==
  /\ locked = {current, next} \ {None}
  /\ current = next => current = None
  /\ stage \in {"setcrtc", "flip"} => next # None
=============================================================================
